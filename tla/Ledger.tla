------------------------------- MODULE Ledger -------------------------------
(***************************************************************************)
(* What an audit Logger promises (pkg/audit/audit.go): events get a place  *)
(* in one growing list and keep it.  MemLogger is exactly this; S3Archive  *)
(* is too, except at the places it had to void because storage carried out *)
(* a write that the archive had given up.                                  *)
(***************************************************************************)
EXTENDS Naturals, Sequences

CONSTANT Event

VARIABLES
    entries,   \* the recorded events, the oldest first
    voided     \* places whose entry is no longer promised

ledger == <<entries, voided>>

LedgerInit == entries = <<>> /\ voided = {}

Add(e) == entries' = Append(entries, e) /\ UNCHANGED voided

Void == voided \subseteq voided' /\ UNCHANGED entries

Rewrite(n, e) ==
    /\ entries' = [entries EXCEPT ![n] = e]
    /\ voided' = voided \union {n}

LedgerNext ==
    \/ \E e \in Event : Add(e)
    \/ Void
    \/ \E n \in DOMAIN entries, e \in Event : Rewrite(n, e)

LedgerSpec == LedgerInit /\ [][LedgerNext]_ledger
=============================================================================
