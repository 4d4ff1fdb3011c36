------------------------ MODULE AuditBrokeringProofs ------------------------
(***************************************************************************)
(* Proofs about AuditChain, for any number of events and crashes and any   *)
(* behaviour of storage.  The inductive invariant says that the objects    *)
(* are the settled ones, 1..seq, and at most one more; that nothing is in  *)
(* transit beyond that one; and that, as long as no put was carried out    *)
(* too late, whatever may still become object n carries the hash of object *)
(* n - 1.                                                                  *)
(***************************************************************************)
EXTENDS AuditChain, Brokering, Sequences, TLAPS

(* The hash a record at place n has to carry. *)
Prev(n) == IF n = 1 THEN NoHash ELSE objects[n - 1].hash

Sealed(r) == r.event \in 1..MaxEvents /\ r.hash = hashRecord(r)

Settled ==
    /\ seq \in Nat
    /\ events \in 0..MaxEvents
    /\ DOMAIN objects = 1..seq \/ DOMAIN objects = 1..(seq + 1)
    /\ \A n \in DOMAIN objects : objects[n].seq = n /\ Sealed(objects[n])
    /\ \A r \in puts : r.seq \in 1..(seq + 1) /\ Sealed(r)

Writing ==
    /\ phase \in {"down", "listed", "up"}
    /\ phase = "listed" => tip \in {seq, seq + 1} /\ tip \in DOMAIN objects \union {0}
    /\ waiting # Nobody => /\ phase = "up"
                           /\ waiting.seq = seq + 1
                           /\ Sealed(waiting)
    /\ answered \in BOOLEAN
    /\ answered => /\ waiting # Nobody
                   /\ waiting \notin puts
                   /\ seq + 1 \in DOMAIN objects
                   /\ seq + 1 \notin overtaken => objects[seq + 1] = waiting

Kept ==
    /\ \A r \in acked : r.seq \in 1..seq
    /\ AcknowledgedKept

Linked ==
    overtaken = {} =>
        /\ \A n \in DOMAIN objects : objects[n].prev = Prev(n)
        /\ \A r \in puts : r.seq = seq + 1 => r.prev = Prev(seq + 1)
        /\ phase = "up" => lastHash = Prev(seq + 1)

Reading ==
    /\ verify = [keys |-> verify.keys, next |-> verify.next,
                 prev |-> verify.prev, verdict |-> verify.verdict]
    /\ verify.keys \in 0..(seq + 1) /\ verify.next \in Nat \ {0}
    /\ 1..verify.keys \subseteq DOMAIN objects
    /\ verify.next <= verify.keys /\ overtaken = {} => verify.prev = Prev(verify.next)
    /\ NoFalseAlarm

IInv == Settled /\ Writing /\ Kept /\ Linked /\ Reading

-----------------------------------------------------------------------------
(* The greatest key is the number of objects. *)
LEMMA LastKeyIs ==
    ASSUME NEW n \in Nat, DOMAIN objects = 1..n
    PROVE  LastKey = n
<1>1. CASE n = 0
  BY <1>1 DEF LastKey
<1>2. CASE n # 0
  <2>1. n \in 1..n /\ \A y \in 1..n : n >= y
    BY <1>2
  <2>2. \A x \in 1..n : (\A y \in 1..n : x >= y) => x = n
    BY <1>2
  <2>3. Max(1..n) = n
    BY <2>1, <2>2 DEF Max
  <2>4. DOMAIN objects # {}
    BY <2>1
  <2> QED
    BY <2>3, <2>4 DEF LastKey
<1> QED
  BY <1>1, <1>2

LEMMA LastKeyBounds ==
    ASSUME Settled
    PROVE  /\ LastKey \in {seq, seq + 1}
           /\ 1..LastKey = DOMAIN objects
           /\ LastKey \in DOMAIN objects \union {0}
<1>1. CASE DOMAIN objects = 1..seq
  BY <1>1, LastKeyIs DEF Settled
<1>2. CASE DOMAIN objects = 1..(seq + 1)
  <2>1. seq + 1 \in Nat
    BY DEF Settled
  <2> QED
    BY <1>2, <2>1, LastKeyIs DEF Settled
<1> QED
  BY <1>1, <1>2 DEF Settled

-----------------------------------------------------------------------------
LEMMA InitIInv == Init => IInv
<1> SUFFICES ASSUME Init PROVE IInv
  OBVIOUS
<1>1. DOMAIN objects = {} /\ DOMAIN objects = 1..seq
  BY DEF Init
<1>2. Settled /\ Kept
  BY <1>1, BoundsAssumption DEF Init, Settled, Kept, AcknowledgedKept
<1>3. Writing
  BY DEF Init, Writing
<1>4. Linked /\ Reading
  BY <1>1 DEF Init, Linked, Reading, NoFalseAlarm
<1> QED
  BY <1>2, <1>3, <1>4 DEF IInv

LEMMA StepListTip == IInv /\ ListTip => IInv'
<1> SUFFICES ASSUME IInv, ListTip PROVE IInv'
  OBVIOUS
<1>1. Settled' /\ Kept' /\ Linked' /\ Reading'
  BY DEF IInv, ListTip, bucket, Settled, Kept, Linked, Reading, AcknowledgedKept,
     NoFalseAlarm, Prev, Sealed, hashRecord, Writing
<1>2. Writing'
  BY LastKeyBounds DEF IInv, ListTip, bucket, Writing, Settled, Sealed, hashRecord
<1> QED
  BY <1>1, <1>2 DEF IInv

LEMMA StepLoadTip == IInv /\ LoadTip => IInv'
<1> SUFFICES ASSUME IInv, LoadTip PROVE IInv'
  OBVIOUS
<1> USE DEF IInv, LoadTip, bucket
<1>1. seq' \in {seq, seq + 1} /\ seq' \in Nat /\ seq' \in DOMAIN objects \union {0}
  BY DEF Writing, Settled
<1>2. Settled'
  BY <1>1 DEF Settled, Sealed, hashRecord
<1>3. Writing'
  BY DEF Writing, Sealed, hashRecord
<1>4. Kept'
  BY <1>1 DEF Kept, AcknowledgedKept, Settled
<1>5. Linked'
  BY <1>1 DEF Linked, Settled, Prev
<1>6. Reading'
  BY <1>1 DEF Reading, NoFalseAlarm, Prev, Settled
<1> QED
  BY <1>2, <1>3, <1>4, <1>5, <1>6

LEMMA StepLoadTipFails == IInv /\ LoadTipFails => IInv'
  BY DEF IInv, LoadTipFails, bucket, Settled, Kept, Linked, Reading, AcknowledgedKept,
     NoFalseAlarm, Prev, Sealed, hashRecord, Writing

LEMMA StepRecord == IInv /\ Record => IInv'
<1> SUFFICES ASSUME IInv, Record PROVE IInv'
  OBVIOUS
<1> USE DEF IInv, Record
<1>1. /\ waiting' = Seal(seq + 1, lastHash, events')
      /\ waiting'.seq = seq + 1
      /\ waiting'.prev = lastHash
      /\ Sealed(waiting')
      /\ waiting' # Nobody
  BY BoundsAssumption DEF Seal, Sealed, hashRecord, Settled, Nobody
<1>2. Settled'
  BY <1>1, BoundsAssumption DEF Settled, Sealed, hashRecord
<1>3. Writing'
  BY <1>1 DEF Writing, Sealed, hashRecord
<1>4. Kept'
  BY DEF Kept, AcknowledgedKept
<1>5. Linked'
  BY <1>1 DEF Linked, Prev
<1>6. Reading'
  BY DEF Reading, NoFalseAlarm, Prev
<1> QED
  BY <1>2, <1>3, <1>4, <1>5, <1>6

(* A put that is carried out on time becomes object seq + 1: nothing is chained
   to it so far, and it is not the one whose confirmation is under way. *)
LEMMA StepStore == ASSUME NEW r \in puts, IInv, Store(r) PROVE IInv'
<1> USE DEF IInv, Store
<1>1. /\ r.seq \in 1..(seq + 1) /\ Sealed(r)
      /\ r.seq \in DOMAIN objects'
      /\ objects'[r.seq] = r
      /\ \A n \in DOMAIN objects : n \in DOMAIN objects' /\ (n # r.seq => objects'[n] = objects[n])
      /\ DOMAIN objects' = DOMAIN objects \union {r.seq}
  BY DEF Settled
<1>2. Settled'
  <2>1. DOMAIN objects' = 1..seq \/ DOMAIN objects' = 1..(seq + 1)
    BY <1>1 DEF Settled
  <2> QED
    BY <1>1, <2>1 DEF Settled, Sealed, hashRecord
<1>3. \/ r = waiting /\ r.seq = seq + 1 /\ waiting # Nobody
      \/ r # waiting /\ r.seq = seq + 1 /\ ~answered
      \/ r # waiting /\ r.seq \in overtaken'
  BY <1>1 DEF TooLate, Settled, Writing, Nobody
<1>4. Writing'
  <2>1. answered' => waiting' # Nobody /\ waiting' \notin puts'
    BY <1>1 DEF Writing, Settled, Nobody
  <2>2. answered' => seq + 1 \in DOMAIN objects'
    <3>1. CASE r = waiting
      BY <1>1, <1>3, <3>1
    <3>2. CASE answered
      BY <1>1, <3>2 DEF Writing
    <3>3. CASE ~answered /\ r # waiting
      BY <3>3 DEF Writing
    <3> QED
      BY <3>1, <3>2, <3>3
  <2>3. answered' /\ seq + 1 \notin overtaken' => objects'[seq + 1] = waiting'
    BY <1>1, <1>3 DEF Writing, TooLate, Settled
  <2> QED
    BY <1>1, <2>1, <2>2, <2>3 DEF Writing, Sealed, hashRecord
<1>5. Kept'
  BY <1>1, <1>3 DEF Kept, AcknowledgedKept, Settled, TooLate
<1>8. ASSUME overtaken' = {}, NEW n \in 1..(seq + 1)
      PROVE  (IF n = 1 THEN NoHash ELSE objects'[n - 1].hash) = Prev(n)
  <2>1. r.seq = seq + 1
    BY <1>3, <1>8
  <2>2. n = 1 \/ objects'[n - 1] = objects[n - 1]
    <3>1. n = 1 \/ n - 1 \in 1..seq
      BY <1>8 DEF Settled
    <3> QED
      BY <1>1, <2>1, <3>1 DEF Settled
  <2> QED
    BY <2>2 DEF Prev
<1>6. Linked'
  <2> SUFFICES ASSUME overtaken' = {} PROVE Linked'
    BY DEF Linked
  <2>1. overtaken = {} /\ r.seq = seq + 1 /\ r.prev = Prev(seq + 1)
    BY <1>3, <1>1 DEF Linked
  <2>2. \A n \in 1..(seq + 1) : Prev(n)' = Prev(n)
    BY <1>8 DEF Prev
  <2>3. \A n \in DOMAIN objects' : n \in 1..(seq + 1)
    BY <1>2 DEF Settled
  <2>4. seq + 1 \in 1..(seq + 1)
    BY DEF Settled
  <2> QED
    BY <1>1, <2>1, <2>2, <2>3, <2>4 DEF Linked
<1>7. Reading'
  <2>1. verify.next <= verify.keys => verify.next \in 1..(seq + 1)
    BY DEF Settled, Reading
  <2>2. verify.next <= verify.keys /\ overtaken' = {} => verify'.prev = Prev(verify.next)'
    BY <1>8, <2>1 DEF Prev, Reading
  <2> QED
    BY <1>1, <2>2 DEF Reading, NoFalseAlarm
<1> QED
  BY <1>2, <1>4, <1>5, <1>6, <1>7

LEMMA StepConfirm == IInv /\ Confirm => IInv'
<1> SUFFICES ASSUME IInv, Confirm PROVE IInv'
  OBVIOUS
<1> USE DEF IInv, Confirm, bucket
<1>1. /\ seq' = seq + 1 /\ seq' \in Nat /\ DOMAIN objects = 1..(seq + 1)
      /\ lastHash' = waiting.hash
      /\ seq + 1 \notin overtaken => objects[seq + 1] = waiting
  BY DEF Writing, Settled
<1>2. Settled'
  BY <1>1 DEF Settled, Sealed, hashRecord
<1>3. Writing'
  BY DEF Writing
<1>4. Kept'
  <2>1. waiting.seq = seq + 1 /\ seq \in Nat
    BY DEF Writing, Settled
  <2>2. \A r \in acked' : r \in acked \/ r = waiting
    OBVIOUS
  <2> QED
    BY <1>1, <2>1, <2>2 DEF Kept, AcknowledgedKept
<1>5. Linked'
  BY <1>1 DEF Linked, Settled, Prev
<1>6. Reading'
  BY <1>1 DEF Reading, NoFalseAlarm, Prev, Settled
<1> QED
  BY <1>2, <1>3, <1>4, <1>5, <1>6

LEMMA StepGiveUp == IInv /\ GiveUp => IInv'
  BY DEF IInv, GiveUp, bucket, Settled, Kept, Linked, Reading, AcknowledgedKept,
     NoFalseAlarm, Prev, Sealed, hashRecord, Writing

LEMMA StepLose == ASSUME NEW r \in puts, IInv, Lose(r) PROVE IInv'
  BY DEF IInv, Lose, writer, Settled, Kept, Linked, Reading, AcknowledgedKept,
     NoFalseAlarm, Prev, Sealed, hashRecord, Writing

LEMMA StepCrash == IInv /\ Crash => IInv'
<1> SUFFICES ASSUME IInv, Crash PROVE IInv'
  OBVIOUS
<1> USE DEF IInv, Crash, bucket
<1>1. Settled' /\ Writing' /\ Kept' /\ Linked'
  BY DEF Settled, Kept, Linked, AcknowledgedKept, Prev, Sealed, hashRecord, Writing
<1>2. Reading'
  <2>1. verify'.next = verify.keys + 1 /\ verify'.keys = verify.keys
        /\ verify'.verdict = verify.verdict /\ verify.keys \in Nat
    BY DEF Reading, Settled
  <2> QED
    BY <2>1 DEF Reading, NoFalseAlarm, Settled
<1> QED
  BY <1>1, <1>2

LEMMA StepVerifyBegin == IInv /\ VerifyBegin => IInv'
<1> SUFFICES ASSUME IInv, VerifyBegin PROVE IInv'
  OBVIOUS
<1> USE DEF IInv, VerifyBegin, bucket, writer
<1>1. Settled' /\ Writing' /\ Kept' /\ Linked'
  BY DEF Settled, Kept, Linked, AcknowledgedKept, Prev, Sealed, hashRecord, Writing
<1>2. LastKey \in 0..(seq + 1) /\ 1..LastKey = DOMAIN objects
  BY LastKeyBounds DEF Settled
<1>3. Reading'
  BY <1>2 DEF Reading, NoFalseAlarm, Prev
<1> QED
  BY <1>1, <1>3

LEMMA StepVerifyRead == IInv /\ VerifyRead => IInv'
<1> SUFFICES ASSUME IInv, VerifyRead PROVE IInv'
  OBVIOUS
<1> USE DEF IInv, VerifyRead, bucket, writer
<1>1. Settled' /\ Writing' /\ Kept' /\ Linked'
  BY DEF Settled, Kept, Linked, AcknowledgedKept, Prev, Sealed, hashRecord, Writing
<1> DEFINE o == objects[verify.next]
<1>2. verify.next \in DOMAIN objects /\ o.hash = hashRecord(o) /\ verify.keys \in Nat
  BY DEF Reading, Settled, Sealed
<1>3. overtaken = {} => o.prev = verify.prev
  BY <1>2 DEF Reading, Linked
<1>4. CASE o.prev = verify.prev
  <2>1. verify' = [verify EXCEPT !.next = @ + 1, !.prev = o.hash]
    BY <1>2, <1>4
  <2>2. overtaken = {} /\ verify'.next <= verify.keys => verify'.prev = Prev(verify'.next)
    BY <2>1, <1>2 DEF Prev, Reading
  <2>3. verify'.keys = verify.keys /\ verify'.next = verify.next + 1
        /\ verify'.verdict = verify.verdict
        /\ verify' = [keys |-> verify'.keys, next |-> verify'.next,
                      prev |-> verify'.prev, verdict |-> verify'.verdict]
    BY <2>1 DEF Reading
  <2>4. Reading'
    BY <1>2, <2>2, <2>3 DEF Reading, NoFalseAlarm, Prev
  <2> QED
    BY <1>1, <2>4
<1>5. CASE o.prev # verify.prev
  <2>1. verify' = [verify EXCEPT !.next = verify.keys + 1, !.verdict = "broken"]
    BY <1>5
  <2>2. verify'.keys = verify.keys /\ verify'.next = verify.keys + 1
        /\ verify' = [keys |-> verify'.keys, next |-> verify'.next,
                      prev |-> verify'.prev, verdict |-> verify'.verdict]
    BY <2>1 DEF Reading
  <2>3. Reading'
    BY <1>2, <1>3, <1>5, <2>2 DEF Reading, NoFalseAlarm, Prev
  <2> QED
    BY <1>1, <2>3
<1> QED
  BY <1>4, <1>5

LEMMA StepIInv == IInv /\ [Next]_vars => IInv'
<1> SUFFICES ASSUME IInv, [Next]_vars PROVE IInv'
  OBVIOUS
<1>1. CASE UNCHANGED vars
  BY <1>1 DEF vars, IInv, Settled, Kept, Linked, Reading, AcknowledgedKept,
     NoFalseAlarm, Prev, Sealed, hashRecord, Writing
<1>2. CASE Next
  BY <1>2, StepListTip, StepLoadTip, StepLoadTipFails, StepRecord, StepStore,
     StepConfirm, StepGiveUp, StepLose, StepCrash, StepVerifyBegin,
     StepVerifyRead DEF Next
<1> QED
  BY <1>1, <1>2

(* The strengthening the next three theorems rest on. *)
THEOREM Invariance == Spec => []IInv
  BY InitIInv, StepIInv, PTL DEF Spec

(* A record for which Record returned nil keeps its place across failed puts
   and restarts, unless a put that was given up was carried out over it. *)
THEOREM AcknowledgedKeptAlways == Spec => []AcknowledgedKept
<1>1. IInv => AcknowledgedKept
  BY DEF IInv, Kept
<1> QED
  BY Invariance, <1>1, PTL

(* A failed put, a crash, or what is written while it reads never makes Verify
   report a broken chain. *)
THEOREM NoFalseAlarmAlways == Spec => []NoFalseAlarm
<1>1. IInv => NoFalseAlarm
  BY DEF IInv, Reading
<1> QED
  BY Invariance, <1>1, PTL

-----------------------------------------------------------------------------
(* Refinement.  Only Confirm and a restart lengthen the list of settled
   entries, and only a put that is carried out too late changes one. *)
Entries == [n \in 1..seq |-> objects[n].event]

LEMMA EntriesGrow ==
    ASSUME Settled, seq' = seq + 1, UNCHANGED objects, seq + 1 \in DOMAIN objects
    PROVE  \E e \in 1..MaxEvents : Entries' = Append(Entries, e)
<1>1. objects[seq + 1].event \in 1..MaxEvents
  BY DEF Settled, Sealed
<1>2. Entries' = Append(Entries, objects[seq + 1].event)
  <2>1. Entries \in Seq(1..MaxEvents) /\ Len(Entries) = seq
    BY DEF Entries, Settled, Sealed
  <2> QED
    BY <2>1 DEF Entries, Settled
<1> QED
  BY <1>1, <1>2

LEMMA StepRefines == IInv /\ [Next]_vars => [Ledger!LedgerNext]_(Ledger!ledger)
<1> SUFFICES ASSUME IInv, [Next]_vars
             PROVE  [Ledger!LedgerNext]_(Ledger!ledger)
  OBVIOUS
<1> USE DEF Ledger!LedgerNext, Ledger!ledger, Ledger!Add, Ledger!Void, Ledger!Rewrite
<1>1. CASE UNCHANGED <<objects, seq, overtaken>>
  BY <1>1
<1>2. ASSUME LoadTip PROVE [Ledger!LedgerNext]_(Ledger!ledger)
  <2>1. UNCHANGED <<objects, overtaken>> /\ seq' \in {seq, seq + 1}
    BY <1>2 DEF LoadTip, bucket, IInv, Writing
  <2>2. CASE seq' = seq
    BY <2>1, <2>2
  <2>3. CASE seq' = seq + 1
    <3>1. seq + 1 \in DOMAIN objects
      BY <1>2, <2>3 DEF LoadTip, IInv, Writing, Settled
    <3> QED
      BY <2>1, <2>3, <3>1, EntriesGrow DEF IInv, Entries
  <2> QED
    BY <2>1, <2>2, <2>3
<1>3. ASSUME Confirm PROVE [Ledger!LedgerNext]_(Ledger!ledger)
  <2>1. UNCHANGED <<objects, overtaken>> /\ seq' = seq + 1 /\ seq + 1 \in DOMAIN objects
    BY <1>3 DEF Confirm, bucket, IInv, Writing
  <2> QED
    BY <2>1, EntriesGrow DEF IInv, Entries
<1>4. ASSUME NEW r \in puts, Store(r) PROVE [Ledger!LedgerNext]_(Ledger!ledger)
  <2>1. seq' = seq /\ r.seq \in 1..(seq + 1) /\ r.event \in 1..MaxEvents /\ seq \in Nat
    BY <1>4 DEF Store, IInv, Settled, Sealed
  <2>2. CASE r.seq = seq + 1
    <3>1. \A n \in 1..seq : objects'[n] = objects[n]
      BY <1>4, <2>1, <2>2 DEF Store, IInv, Settled
    <3>3. Entries' = Entries
      BY <2>1, <3>1 DEF Entries
    <3>2. overtaken \subseteq overtaken'
      BY <1>4 DEF Store
    <3> QED
      BY <3>3, <3>2 DEF Entries
  <2>3. CASE r.seq \in 1..seq
    <3>1. overtaken' = overtaken \union {r.seq}
      BY <1>4, <2>1, <2>3 DEF Store, TooLate, IInv, Writing, Settled, Nobody
    <3>4. \A n \in 1..seq : objects'[n] = IF n = r.seq THEN r ELSE objects[n]
      BY <1>4, <2>1 DEF Store, IInv, Settled
    <3>2. Entries' = [Entries EXCEPT ![r.seq] = r.event]
      BY <2>1, <3>4 DEF Entries
    <3>3. r.seq \in DOMAIN Entries
      BY <2>3 DEF Entries
    <3> QED
      BY <2>1, <3>1, <3>2, <3>3 DEF Entries
  <2>4. r.seq = seq + 1 \/ r.seq \in 1..seq
    BY <2>1
  <2> QED
    BY <2>2, <2>3, <2>4
<1>5. ASSUME \/ ListTip \/ LoadTipFails \/ Record \/ GiveUp \/ Crash
             \/ VerifyBegin \/ VerifyRead \/ \E r \in puts : Lose(r)
      PROVE  UNCHANGED <<objects, seq, overtaken>>
  BY <1>5 DEF ListTip, LoadTipFails, Record, GiveUp, Crash, VerifyBegin, VerifyRead,
     Lose, bucket, writer
<1> QED
  BY <1>1, <1>2, <1>3, <1>4, <1>5 DEF Next, vars

(* The archive implements the append-only ledger of the Logger interface: each
   step of Record, of storage and of a restart is a step of the ledger, or none. *)
THEOREM Refinement == Spec => ImplementsLedger
<1>1. Init => Ledger!LedgerInit
  <2> SUFFICES ASSUME Init PROVE Ledger!LedgerInit
    OBVIOUS
  <2>1. 1..seq = {}
    BY DEF Init
  <2> QED
    BY <2>1 DEF Init, Ledger!LedgerInit
<1> QED
  BY <1>1, Invariance, StepRefines, PTL DEF Spec, ImplementsLedger, Ledger!LedgerSpec
-----------------------------------------------------------------------------
(***************************************************************************)
(* Brokering, which shares no state with AuditChain: for any callers of    *)
(* the admin client, settings and secrets.  RetryIsFresh is inductive      *)
(* together with who holds the mutex (Locked) and what a token may be      *)
(* while a request is retried (Renewed); LinkedUnlessAmiss together with   *)
(* what a handler has done by each of its steps (SoFar).                   *)
(***************************************************************************)
Direct == {"secret", "upsert", "get", "unsecret", "unlink"}
Remote == {"post", "put", "delete", "elsewhere"}

Operation ==
    [stage : Direct \union Remote, http : {"token", "mint", "minted", "send"},
     tok : {None, "old", "full"}, again : BOOLEAN,
     row : Link \union {None}, secret : Secret \union {None}, clean : BOOLEAN]

Handling(r) == r.stage \notin {"idle", "forbidden", "elsewhere"}

(* No operation is "forbidden": RetryIsFresh is a matter of types. *)
OpTypes ==
    /\ op \in [Caller -> {Idle} \union Operation]
    /\ \A c \in Caller :
        /\ op[c].stage \in Direct => op[c].http = "token"
        /\ op[c].stage \in {"secret", "post", "put", "upsert"} => op[c].row \in Link
        /\ Handling(op[c]) => granted
    /\ token \in {None, "old", "full"} /\ mutex \in Caller \union {None}
    /\ granted \in BOOLEAN
StoreTypes ==
    /\ link \in Link \union {None} /\ provider \in Provider \union {None}
    /\ vault \in Secret \union {None} /\ amiss \in BOOLEAN

(* The mutex is held by the caller that mints. *)
Minting(r) == r.stage \in Remote /\ r.http \in {"mint", "minted"}
Locked == \A c \in Caller : Minting(op[c]) <=> mutex = c

(* While a request is retried the cached token is none from before the realm,
   and what is minted has the realm's roles. *)
Retried(r) == r.stage \in Remote /\ r.again
Renewed ==
    /\ (\E c \in Caller : Retried(op[c])) =>
        /\ token # "old"
        /\ \A c \in Caller : Minting(op[c]) /\ op[c].http = "minted" => op[c].tok = "full"
    /\ \A c \in Caller : Retried(op[c]) =>
        /\ op[c].stage # "elsewhere"
        /\ op[c].http \in {"minted", "send"} => op[c].tok = "full"

TokenInv == OpTypes /\ Locked /\ Renewed

(* What a handler nobody overlaps has done so far. *)
Agreed ==
    IF link = None THEN provider = None /\ vault = None
    ELSE provider # None /\ provider.cfg = link.cfg /\ provider.secret \in {None, vault}
SoFar(r) ==
    /\ r.stage \in {"post", "put", "upsert"} => r.secret \in {None, vault}
    /\ r.stage = "upsert" => provider = [cfg |-> r.row.cfg, secret |-> r.secret]
    /\ r.stage = "get" => Agreed \/ amiss
    /\ r.stage \in {"unsecret", "unlink"} => provider = None
    /\ r.stage = "unlink" => vault = None
Followed ==
    /\ \A c \in Caller : Handling(op[c]) /\ op[c].clean =>
          SoFar(op[c]) /\ \A x \in Caller \ {c} : ~Handling(op[x])
    /\ (\E c \in Caller : Handling(op[c]) /\ ~op[c].clean) => amiss
    /\ (\A c \in Caller : ~Handling(op[c])) => Agreed \/ amiss

BrokeringInv == TokenInv /\ StoreTypes /\ Followed
-----------------------------------------------------------------------------
(* An operation moves to a step that holds no token, or ends. *)
Tokenless(r) ==
    \/ r = Idle
    \/ /\ r \in Operation /\ r.http = "token" /\ ~r.again
       /\ r.stage \in {"secret", "post", "put", "upsert"} => r.row \in Link
       /\ Handling(r) => granted

LEMMA TokenMoves ==
    ASSUME BrokeringAssumption, TokenInv, NEW c \in Caller, NEW r, Tokenless(r),
           op' = [op EXCEPT ![c] = r], UNCHANGED <<granted, token>>,
           \/ mutex # c /\ mutex' = mutex
           \/ mutex = c /\ mutex' = None
    PROVE  TokenInv'
<1>0. op \in [Caller -> {Idle} \union Operation] BY DEF TokenInv, OpTypes
<1>1. op'[c] = r /\ \A x \in Caller \ {c} : op'[x] = op[x]
  BY <1>0
<1>2. OpTypes'
  BY <1>0, <1>1 DEF TokenInv, OpTypes, Tokenless, Operation, Direct, Remote, Handling, Idle
<1>3. ~Minting(r) /\ ~Retried(r)
  BY DEF Tokenless, Minting, Retried, Idle, Remote
<1>4. Locked'
  BY <1>0, <1>1, <1>3 DEF TokenInv, OpTypes, Locked, BrokeringAssumption
<1>5. Renewed'
  BY <1>0, <1>1, <1>3 DEF TokenInv, OpTypes, Renewed
<1> QED BY <1>2, <1>4, <1>5 DEF TokenInv

(* A handler that fails, or goes on after an error, leaves what it leaves amiss. *)
LEMMA FollowedAmiss ==
    ASSUME BrokeringInv, NEW c \in Caller, NEW r, Handling(op[c]),
           op' = [op EXCEPT ![c] = r], amiss' = TRUE,
           Handling(r) => ~r.clean
    PROVE  Followed'
<1>0. op \in [Caller -> {Idle} \union Operation] BY DEF BrokeringInv, TokenInv, OpTypes
<1>1. op'[c] = r /\ \A x \in Caller \ {c} : op'[x] = op[x]
  BY <1>0
<1> QED BY <1>0, <1>1 DEF BrokeringInv, Followed

(* One that takes its next step hands on what it has done. *)
LEMMA FollowedStep ==
    ASSUME BrokeringInv, NEW c \in Caller, NEW r, Handling(op[c]), Handling(r),
           op' = [op EXCEPT ![c] = r], amiss' = amiss, r.clean = op[c].clean,
           op[c].clean => SoFar(r)'
    PROVE  Followed'
<1>0. op \in [Caller -> {Idle} \union Operation] BY DEF BrokeringInv, TokenInv, OpTypes
<1>1. op'[c] = r /\ \A x \in Caller \ {c} : op'[x] = op[x]
  BY <1>0
<1>2. \A x \in Caller : Handling(op'[x]) <=> Handling(op[x])
  BY <1>1
<1>3. ASSUME NEW x \in Caller, Handling(op'[x]), op'[x].clean
      PROVE  x = c
  BY <1>1, <1>3 DEF BrokeringInv, Followed
<1>4. (\A x \in Caller : Handling(op[x]) /\ op[x].clean =>
        SoFar(op[x]) /\ \A y \in Caller \ {x} : ~Handling(op[y]))'
  BY <1>1, <1>2, <1>3 DEF BrokeringInv, Followed, SoFar, Agreed
<1>5. ((\E x \in Caller : Handling(op[x]) /\ ~op[x].clean) => amiss)'
  BY <1>1, <1>2 DEF BrokeringInv, Followed
<1>6. \E x \in Caller : Handling(op'[x])
  BY <1>1
<1> QED BY <1>4, <1>5, <1>6 DEF Followed

(* One that ends has linked everything, or leaves nothing changed. *)
LEMMA FollowedEnd ==
    ASSUME BrokeringInv, NEW c \in Caller, Handling(op[c]),
           op' = [op EXCEPT ![c] = Idle],
           op[c].clean => (Agreed \/ amiss)', ~op[c].clean => amiss'
    PROVE  Followed'
<1>0. op \in [Caller -> {Idle} \union Operation] BY DEF BrokeringInv, TokenInv, OpTypes
<1>1. op'[c] = Idle /\ \A x \in Caller \ {c} : op'[x] = op[x]
  BY <1>0
<1>2. ~Handling(Idle) BY DEF Handling, Idle
<1>3. CASE op[c].clean
  BY <1>0, <1>1, <1>2, <1>3 DEF BrokeringInv, Followed
<1>4. CASE ~op[c].clean
  BY <1>0, <1>1, <1>2, <1>4 DEF BrokeringInv, Followed
<1> QED BY <1>3, <1>4

(* Steps of the client leave the stores and who is handling alone. *)
LEMMA FollowedToken ==
    ASSUME BrokeringInv, NEW c \in Caller, NEW r,
           op' = [op EXCEPT ![c] = r], UNCHANGED <<stores, amiss>>,
           Handling(r) <=> Handling(op[c]),
           Handling(r) => r.clean = op[c].clean /\ r.stage = op[c].stage
                             /\ r.row = op[c].row /\ r.secret = op[c].secret
    PROVE  Followed'
<1>0. op \in [Caller -> {Idle} \union Operation] BY DEF BrokeringInv, TokenInv, OpTypes
<1>1. op'[c] = r /\ \A x \in Caller \ {c} : op'[x] = op[x]
  BY <1>0
<1>2. CASE Handling(r)
  <2>1. op[c].clean => SoFar(r)'
    BY <1>2 DEF BrokeringInv, Followed, SoFar, Agreed, stores
  <2> QED BY <1>2, <2>1, FollowedStep
<1>3. CASE ~Handling(r)
  <2>1. \A x \in Caller : Handling(op'[x]) <=> Handling(op[x])
    BY <1>1, <1>3
  <2>2. \A x \in Caller : Handling(op'[x]) => op'[x] = op[x]
    BY <1>1, <1>3
  <2>3. \A q : SoFar(q)' <=> SoFar(q)
    BY DEF SoFar, Agreed, stores
  <2>4. Agreed' <=> Agreed BY DEF Agreed, stores
  <2> QED BY <2>1, <2>2, <2>3, <2>4 DEF BrokeringInv, Followed
<1> QED BY <1>2, <1>3
-----------------------------------------------------------------------------
(* The three ways a handler's step ends: given up, the next step, on after an error. *)
LEMMA StepGivenUp ==
    ASSUME BrokeringAssumption, BrokeringInv, NEW c \in Caller, Handling(op[c]),
           Leave(c), amiss' = TRUE, StoreTypes', UNCHANGED <<granted, token>>,
           \/ mutex # c /\ mutex' = mutex
           \/ mutex = c /\ mutex' = None
    PROVE  BrokeringInv'
<1>1. Tokenless(Idle) BY DEF Tokenless
<1>2. TokenInv' BY <1>1, TokenMoves DEF BrokeringInv, Leave
<1>3. ~Handling(Idle) BY DEF Handling, Idle
<1>4. Followed' BY <1>3, FollowedAmiss DEF Leave
<1> QED BY <1>2, <1>4 DEF BrokeringInv

Moved(r, stage) == [r EXCEPT !.stage = stage, !.http = "token", !.tok = None, !.again = FALSE]

LEMMA StepGone ==
    ASSUME BrokeringAssumption, BrokeringInv, NEW c \in Caller, Handling(op[c]),
           NEW stage \in {"post", "put", "upsert", "delete", "unsecret", "unlink"},
           stage \in {"post", "put", "upsert"} => op[c].row \in Link,
           Goto(c, stage), amiss' = amiss, StoreTypes', UNCHANGED <<granted, token>>,
           mutex # c, mutex' = mutex,
           NEW r, r = Moved(op[c], stage), op[c].clean => SoFar(r)'
    PROVE  BrokeringInv'
<1>1. op \in [Caller -> {Idle} \union Operation] /\ granted
  BY DEF BrokeringInv, TokenInv, OpTypes
<1>2. op[c] \in Operation
  BY <1>1 DEF Handling, Idle
<1>3. r \in Operation /\ r.http = "token" /\ ~r.again /\ r.stage = stage /\ r.row = op[c].row
      /\ r.clean = op[c].clean
  BY <1>2 DEF Operation, Moved, Remote, Direct
<1>4. Tokenless(r) /\ Handling(r)
  BY <1>1, <1>3 DEF Tokenless, Handling
<1>5. op' = [op EXCEPT ![c] = r]
  BY DEF Goto, Moved
<1>6. TokenInv' BY <1>4, <1>5, TokenMoves DEF BrokeringInv
<1>7. Followed' BY <1>3, <1>4, <1>5, FollowedStep
<1> QED BY <1>6, <1>7 DEF BrokeringInv

LEMMA StepGoneOn ==
    ASSUME BrokeringAssumption, BrokeringInv, NEW c \in Caller, Handling(op[c]),
           NEW stage \in {"delete", "unsecret", "unlink"},
           op' = [op EXCEPT ![c] = [Moved(@, stage) EXCEPT !.clean = FALSE]],
           amiss' = TRUE, StoreTypes', UNCHANGED <<granted, token>>,
           \/ mutex # c /\ mutex' = mutex
           \/ mutex = c /\ mutex' = None
    PROVE  BrokeringInv'
<1>1. op \in [Caller -> {Idle} \union Operation] /\ granted
  BY DEF BrokeringInv, TokenInv, OpTypes
<1>2. op[c] \in Operation
  BY <1>1 DEF Handling, Idle
<1>a. PICK r : r = [Moved(op[c], stage) EXCEPT !.clean = FALSE]
  OBVIOUS
<1>3. r \in Operation /\ r.http = "token" /\ ~r.again /\ r.stage = stage /\ ~r.clean
  BY <1>2, <1>a DEF Operation, Moved, Remote, Direct
<1>4. Tokenless(r) /\ Handling(r)
  BY <1>1, <1>3 DEF Tokenless, Handling
<1>5. op' = [op EXCEPT ![c] = r]
  BY <1>a
<1>6. TokenInv' BY <1>4, <1>5, TokenMoves DEF BrokeringInv
<1>7. Followed' BY <1>3, <1>5, FollowedAmiss
<1> QED BY <1>6, <1>7 DEF BrokeringInv

(* A step on a store needs no token, and one whose request is sent is not minting. *)
LEMMA NotMinting ==
    ASSUME BrokeringInv, NEW c \in Caller,
           op[c].stage \in Direct \/ Sent(c)
    PROVE  mutex # c
BY DEF BrokeringInv, TokenInv, OpTypes, Locked, Minting, Direct, Remote, Sent
-----------------------------------------------------------------------------
(* The handlers' steps. *)
LEMMA PutSecretInv ==
    ASSUME BrokeringAssumption, BrokeringInv, NEW c \in Caller, PutSecret(c)
    PROVE  BrokeringInv'
<1>1. op[c] \in Operation /\ op[c].stage = "secret" /\ Handling(op[c]) /\ op[c].row \in Link
  BY DEF PutSecret, At, BrokeringInv, TokenInv, OpTypes, Idle, Handling
<1>2. mutex # c /\ UNCHANGED <<granted, token, mutex>>
  BY <1>1, NotMinting DEF PutSecret, Keeps, Direct
<1>3. StoreTypes'
  BY <1>1 DEF PutSecret, GivesUp, stores, BrokeringInv, StoreTypes, Operation
<1>4. CASE vault' = op[c].secret /\ UNCHANGED <<link, provider>> /\ Goto(c, "post")
            /\ UNCHANGED <<amiss, faults>>
  <2>1. PICK r : r = Moved(op[c], "post") OBVIOUS
  <2>2. r.stage = "post" /\ r.secret = op[c].secret
    BY <1>1, <2>1 DEF Moved, Operation
  <2>3. SoFar(r)'
    BY <1>4, <2>2 DEF SoFar
  <2> QED BY <1>1, <1>2, <1>3, <1>4, <2>1, <2>3, StepGone
<1>5. CASE Leave(c) /\ amiss' = TRUE
  BY <1>1, <1>2, <1>3, <1>5, StepGivenUp
<1> QED BY <1>4, <1>5 DEF PutSecret, GivesUp

LEMMA PostProviderInv ==
    ASSUME BrokeringAssumption, BrokeringInv, NEW c \in Caller, PostProvider(c)
    PROVE  BrokeringInv'
<1>1. op[c] \in Operation /\ op[c].stage = "post" /\ Handling(op[c]) /\ op[c].row \in Link
  BY DEF PostProvider, At, BrokeringInv, TokenInv, OpTypes, Idle, Handling
<1>2. mutex # c /\ UNCHANGED <<granted, token, mutex>>
  BY <1>1, NotMinting DEF PostProvider, Keeps
<1>a. Asked(c) \in Provider
  BY <1>1 DEF Asked, Provider, Link, Operation
<1>b. amiss' \in BOOLEAN
  BY DEF PostProvider, GivesUp, BrokeringInv, StoreTypes
<1>c. provider' \in Provider \union {None} /\ UNCHANGED <<link, vault>>
  BY <1>a DEF PostProvider, GivesUp, SetProvider, stores, BrokeringInv, StoreTypes
<1>3. StoreTypes'
  BY <1>b, <1>c DEF BrokeringInv, StoreTypes
<1>4. CASE SetProvider(c) /\ Goto(c, "upsert") /\ UNCHANGED <<amiss, faults>>
  <2>1. PICK r : r = Moved(op[c], "upsert") OBVIOUS
  <2>2. r.stage = "upsert" /\ r.secret = op[c].secret /\ r.row = op[c].row
    BY <1>1, <2>1 DEF Moved, Operation
  <2>3. ASSUME op[c].clean PROVE SoFar(r)'
    BY <1>1, <1>4, <2>2, <2>3 DEF SoFar, BrokeringInv, Followed, SetProvider, Asked
  <2> QED BY <1>1, <1>2, <1>3, <1>4, <2>1, <2>3, StepGone
<1>5. CASE Goto(c, "put") /\ UNCHANGED <<stores, amiss, faults>>
  <2>1. PICK r : r = Moved(op[c], "put") OBVIOUS
  <2>2. r.stage = "put" /\ r.secret = op[c].secret
    BY <1>1, <2>1 DEF Moved, Operation
  <2>3. ASSUME op[c].clean PROVE SoFar(r)'
    BY <1>1, <1>5, <2>2, <2>3 DEF SoFar, BrokeringInv, Followed, stores
  <2> QED BY <1>1, <1>2, <1>3, <1>5, <2>1, <2>3, StepGone
<1>6. CASE Leave(c) /\ amiss' = TRUE
  BY <1>1, <1>2, <1>3, <1>6, StepGivenUp
<1> QED BY <1>4, <1>5, <1>6 DEF PostProvider, GivesUp

LEMMA PutProviderInv ==
    ASSUME BrokeringAssumption, BrokeringInv, NEW c \in Caller, PutProvider(c)
    PROVE  BrokeringInv'
<1>1. op[c] \in Operation /\ op[c].stage = "put" /\ Handling(op[c]) /\ op[c].row \in Link
  BY DEF PutProvider, At, BrokeringInv, TokenInv, OpTypes, Idle, Handling
<1>2. mutex # c /\ UNCHANGED <<granted, token, mutex>>
  BY <1>1, NotMinting DEF PutProvider, Keeps
<1>a. Asked(c) \in Provider
  BY <1>1 DEF Asked, Provider, Link, Operation
<1>b. amiss' \in BOOLEAN
  BY DEF PutProvider, GivesUp, BrokeringInv, StoreTypes
<1>c. provider' \in Provider \union {None} /\ UNCHANGED <<link, vault>>
  BY <1>a DEF PutProvider, GivesUp, SetProvider, stores, BrokeringInv, StoreTypes
<1>3. StoreTypes'
  BY <1>b, <1>c DEF BrokeringInv, StoreTypes
<1>4. CASE SetProvider(c) /\ Goto(c, "upsert") /\ UNCHANGED <<amiss, faults>>
  <2>1. PICK r : r = Moved(op[c], "upsert") OBVIOUS
  <2>2. r.stage = "upsert" /\ r.secret = op[c].secret /\ r.row = op[c].row
    BY <1>1, <2>1 DEF Moved, Operation
  <2>3. ASSUME op[c].clean PROVE SoFar(r)'
    BY <1>1, <1>4, <2>2, <2>3 DEF SoFar, BrokeringInv, Followed, SetProvider, Asked
  <2> QED BY <1>1, <1>2, <1>3, <1>4, <2>1, <2>3, StepGone
<1>5. CASE Leave(c) /\ amiss' = TRUE
  BY <1>1, <1>2, <1>3, <1>5, StepGivenUp
<1> QED BY <1>4, <1>5 DEF PutProvider, GivesUp

LEMMA UpsertLinkInv ==
    ASSUME BrokeringAssumption, BrokeringInv, NEW c \in Caller, UpsertLink(c)
    PROVE  BrokeringInv'
<1>1. op[c] \in Operation /\ op[c].stage = "upsert" /\ Handling(op[c]) /\ op[c].row \in Link
  BY DEF UpsertLink, At, BrokeringInv, TokenInv, OpTypes, Idle, Handling
<1>2. mutex # c /\ UNCHANGED <<granted, token, mutex>>
  BY <1>1, NotMinting DEF UpsertLink, Keeps, Direct
<1>3. StoreTypes'
  BY <1>1 DEF UpsertLink, Done, GivesUp, stores, BrokeringInv, StoreTypes, Operation
<1>4. CASE link' = op[c].row /\ UNCHANGED <<provider, vault>> /\ Done(c)
  <2>0. /\ op[c].row # None /\ [cfg |-> op[c].row.cfg, secret |-> op[c].secret] # None
        /\ link' = op[c].row /\ provider' = provider /\ vault' = vault
    BY <1>1, <1>4 DEF Operation, BrokeringAssumption, Provider, Link
  <2>1. op[c].clean => Agreed'
    <3> SUFFICES ASSUME op[c].clean PROVE Agreed'
      OBVIOUS
    <3>1. SoFar(op[c])
      BY <1>1 DEF BrokeringInv, Followed
    <3>2. provider = [cfg |-> op[c].row.cfg, secret |-> op[c].secret]
          /\ op[c].secret \in {None, vault}
      BY <1>1, <3>1 DEF SoFar
    <3> QED BY <2>0, <3>2 DEF Agreed
  <2>2. Followed'
    BY <1>1, <1>4, <2>1, FollowedEnd DEF Done, Leave, BrokeringInv, StoreTypes, Operation, Followed
  <2>3. Tokenless(Idle) BY DEF Tokenless
  <2>4. TokenInv'
    BY <1>2, <1>4, <2>3, TokenMoves DEF Done, Leave, BrokeringInv
  <2> QED BY <1>3, <2>2, <2>4 DEF BrokeringInv
<1>5. CASE Leave(c) /\ amiss' = TRUE
  BY <1>1, <1>2, <1>3, <1>5, StepGivenUp
<1> QED BY <1>4, <1>5 DEF UpsertLink, GivesUp

LEMMA GetLinkInv ==
    ASSUME BrokeringAssumption, BrokeringInv, NEW c \in Caller, GetLink(c)
    PROVE  BrokeringInv'
<1>1. op[c] \in Operation /\ op[c].stage = "get" /\ Handling(op[c])
  BY DEF GetLink, At, BrokeringInv, TokenInv, OpTypes, Idle, Handling
<1>2. mutex # c /\ UNCHANGED <<granted, token, mutex>>
  BY <1>1, NotMinting DEF GetLink, Keeps, Direct
<1>3. UNCHANGED stores /\ StoreTypes'
  BY DEF GetLink, GoesOn, stores, BrokeringInv, StoreTypes
<1>4. CASE link = None /\ Leave(c) /\ UNCHANGED <<stores, amiss, faults>>
  <2>1. op[c].clean => (Agreed \/ amiss)'
    BY <1>1, <1>4 DEF BrokeringInv, Followed, SoFar, Agreed, stores
  <2>2. Followed'
    BY <1>1, <1>4, <2>1, FollowedEnd DEF Leave, BrokeringInv, Followed
  <2>3. Tokenless(Idle) BY DEF Tokenless
  <2>4. TokenInv'
    BY <1>2, <1>4, <2>3, TokenMoves DEF Leave, BrokeringInv
  <2> QED BY <1>3, <2>2, <2>4 DEF BrokeringInv
<1>5. CASE Goto(c, "delete") /\ amiss' = amiss
  <2>1. PICK r : r = Moved(op[c], "delete") OBVIOUS
  <2>2. r.stage = "delete"
    BY <1>1, <2>1 DEF Moved, Operation
  <2>3. SoFar(r)'
    BY <2>2 DEF SoFar
  <2> QED BY <1>1, <1>2, <1>3, <1>5, <2>1, <2>3, StepGone
<1>6. CASE GoesOn(c, "delete", UNCHANGED stores)
  <2>1. op' = [op EXCEPT ![c] = [Moved(@, "delete") EXCEPT !.clean = FALSE]]
    BY <1>1, <1>6 DEF GoesOn, Moved, Operation
  <2> QED BY <1>1, <1>2, <1>3, <1>6, <2>1, StepGoneOn DEF GoesOn
<1> QED BY <1>4, <1>5, <1>6 DEF GetLink

LEMMA DeleteProviderInv ==
    ASSUME BrokeringAssumption, BrokeringInv, NEW c \in Caller, DeleteProvider(c)
    PROVE  BrokeringInv'
<1>1. op[c] \in Operation /\ op[c].stage = "delete" /\ Handling(op[c])
  BY DEF DeleteProvider, At, BrokeringInv, TokenInv, OpTypes, Idle, Handling
<1>2. mutex # c /\ UNCHANGED <<granted, token, mutex>>
  BY <1>1, NotMinting DEF DeleteProvider, Keeps
<1>3. StoreTypes'
  BY DEF DeleteProvider, GoesOn, stores, BrokeringInv, StoreTypes
<1>4. CASE provider' = None /\ UNCHANGED <<link, vault>> /\ Goto(c, "unsecret")
            /\ UNCHANGED <<amiss, faults>>
  <2>1. PICK r : r = Moved(op[c], "unsecret") OBVIOUS
  <2>2. r.stage = "unsecret"
    BY <1>1, <2>1 DEF Moved, Operation
  <2>3. SoFar(r)'
    BY <1>4, <2>2 DEF SoFar
  <2> QED BY <1>1, <1>2, <1>3, <1>4, <2>1, <2>3, StepGone
<1>5. CASE /\ amiss' = TRUE
           /\ op' = [op EXCEPT ![c] = [Moved(@, "unsecret") EXCEPT !.clean = FALSE]]
  BY <1>1, <1>2, <1>3, <1>5, StepGoneOn
<1> QED
  BY <1>1, <1>4, <1>5 DEF DeleteProvider, GoesOn, Moved, Operation

LEMMA DeleteSecretInv ==
    ASSUME BrokeringAssumption, BrokeringInv, NEW c \in Caller, DeleteSecret(c)
    PROVE  BrokeringInv'
<1>1. op[c] \in Operation /\ op[c].stage = "unsecret" /\ Handling(op[c])
  BY DEF DeleteSecret, At, BrokeringInv, TokenInv, OpTypes, Idle, Handling
<1>2. mutex # c /\ UNCHANGED <<granted, token, mutex>>
  BY <1>1, NotMinting DEF DeleteSecret, Keeps, Direct
<1>3. StoreTypes'
  BY DEF DeleteSecret, GoesOn, stores, BrokeringInv, StoreTypes
<1>4. CASE vault' = None /\ UNCHANGED <<link, provider>> /\ Goto(c, "unlink")
            /\ UNCHANGED <<amiss, faults>>
  <2>1. PICK r : r = Moved(op[c], "unlink") OBVIOUS
  <2>2. r.stage = "unlink"
    BY <1>1, <2>1 DEF Moved, Operation
  <2>3. ASSUME op[c].clean PROVE SoFar(r)'
    BY <1>1, <1>4, <2>2, <2>3 DEF SoFar, BrokeringInv, Followed
  <2> QED BY <1>1, <1>2, <1>3, <1>4, <2>1, <2>3, StepGone
<1>5. CASE /\ amiss' = TRUE
           /\ op' = [op EXCEPT ![c] = [Moved(@, "unlink") EXCEPT !.clean = FALSE]]
  BY <1>1, <1>2, <1>3, <1>5, StepGoneOn
<1> QED
  BY <1>1, <1>4, <1>5 DEF DeleteSecret, GoesOn, Moved, Operation

LEMMA DeleteLinkInv ==
    ASSUME BrokeringAssumption, BrokeringInv, NEW c \in Caller, DeleteLink(c)
    PROVE  BrokeringInv'
<1>1. op[c] \in Operation /\ op[c].stage = "unlink" /\ Handling(op[c])
  BY DEF DeleteLink, At, BrokeringInv, TokenInv, OpTypes, Idle, Handling
<1>2. mutex # c /\ UNCHANGED <<granted, token, mutex>>
  BY <1>1, NotMinting DEF DeleteLink, Keeps, Direct
<1>3. StoreTypes'
  BY <1>1 DEF DeleteLink, Done, GoesOn, stores, BrokeringInv, StoreTypes, Operation
<1>4. CASE link' = None /\ UNCHANGED <<provider, vault>> /\ Done(c)
  <2>1. op[c].clean => Agreed'
    BY <1>1, <1>4 DEF BrokeringInv, Followed, SoFar, Agreed
  <2>2. Followed'
    BY <1>1, <1>4, <2>1, FollowedEnd DEF Done, Leave, BrokeringInv, StoreTypes, Operation, Followed
  <2>3. Tokenless(Idle) BY DEF Tokenless
  <2>4. TokenInv'
    BY <1>2, <1>4, <2>3, TokenMoves DEF Done, Leave, BrokeringInv
  <2> QED BY <1>3, <2>2, <2>4 DEF BrokeringInv
<1>5. CASE amiss' = TRUE /\ Leave(c)
  BY <1>1, <1>2, <1>3, <1>5, StepGivenUp
<1> QED BY <1>4, <1>5 DEF DeleteLink, GoesOn, Leave
-----------------------------------------------------------------------------
(* The admin client's steps. *)
LEMMA TakeTokenInv ==
    ASSUME BrokeringAssumption, BrokeringInv, NEW c \in Caller, TakeToken(c)
    PROVE  BrokeringInv'
<1>1. op \in [Caller -> {Idle} \union Operation] /\ op[c] \in Operation /\ op[c].stage \in Remote
  BY DEF TakeToken, InNeed, Active, Remote, Idle, BrokeringInv, TokenInv, OpTypes
<1>2. OpTypes'
  BY <1>1 DEF TakeToken, BrokeringInv, TokenInv, OpTypes, Operation, Direct, Remote, Handling
<1>3. Locked'
  BY <1>1 DEF TakeToken, BrokeringInv, TokenInv, OpTypes, Locked, Minting, Operation,
              BrokeringAssumption
<1>4. Renewed'
  BY <1>1 DEF TakeToken, BrokeringInv, TokenInv, OpTypes, Renewed, Minting, Retried, Operation
<1>5. StoreTypes' /\ UNCHANGED <<stores, amiss>>
  BY DEF TakeToken, stores, BrokeringInv, StoreTypes
<1>6. PICK r \in Operation : /\ op' = [op EXCEPT ![c] = r]
                             /\ r.stage = op[c].stage /\ r.clean = op[c].clean
                             /\ r.row = op[c].row /\ r.secret = op[c].secret
  <2>1. op'[c] \in Operation /\ op' = [op EXCEPT ![c] = op'[c]]
    BY <1>1 DEF TakeToken, Operation, BrokeringInv, TokenInv, OpTypes
  <2>2. op'[c].stage = op[c].stage /\ op'[c].clean = op[c].clean
           /\ op'[c].row = op[c].row /\ op'[c].secret = op[c].secret
    BY <1>1 DEF TakeToken, Operation
  <2> QED BY <2>1, <2>2
<1>7. Followed'
  BY <1>5, <1>6, FollowedToken DEF Handling
<1> QED BY <1>2, <1>3, <1>4, <1>5, <1>7 DEF BrokeringInv, TokenInv

LEMMA MintInv ==
    ASSUME BrokeringAssumption, BrokeringInv, NEW c \in Caller, Mint(c)
    PROVE  BrokeringInv'
<1>1. op \in [Caller -> {Idle} \union Operation] /\ op[c] \in Operation
      /\ op[c].stage \in Remote /\ op[c].http = "mint"
  BY DEF Mint, InNeed, Active, Remote, Idle, BrokeringInv, TokenInv, OpTypes
<1>2. PICK r : /\ r \in Operation /\ op' = [op EXCEPT ![c] = r]
               /\ r.http = "minted" /\ r.tok = (IF granted THEN "full" ELSE "old")
               /\ r.again = op[c].again /\ r.stage = op[c].stage /\ r.clean = op[c].clean
               /\ r.row = op[c].row /\ r.secret = op[c].secret
  <2>1. PICK r : r = [op[c] EXCEPT !.http = "minted", !.tok = IF granted THEN "full" ELSE "old"]
    OBVIOUS
  <2>2. op' = [op EXCEPT ![c] = r]
    BY <2>1 DEF Mint
  <2>3. r \in Operation
    BY <1>1, <2>1 DEF Operation
  <2>4. r.http = "minted" /\ r.tok = (IF granted THEN "full" ELSE "old") /\ r.stage = op[c].stage
        /\ r.row = op[c].row /\ r.secret = op[c].secret
    BY <1>1, <2>1 DEF Operation
  <2>5. r.again = op[c].again /\ r.clean = op[c].clean
    BY <1>1, <2>1 DEF Operation
  <2> QED BY <2>2, <2>3, <2>4, <2>5
<1>3. op'[c] = r /\ \A x \in Caller \ {c} : op'[x] = op[x]
  BY <1>1, <1>2
<1>4. UNCHANGED <<token, mutex, granted, stores, amiss>> /\ StoreTypes'
  BY DEF Mint, stores, BrokeringInv, StoreTypes
<1>5. OpTypes'
  BY <1>1, <1>2, <1>3, <1>4 DEF BrokeringInv, TokenInv, OpTypes, Direct, Remote, Handling
<1>6. Locked'
  BY <1>1, <1>2, <1>3, <1>4 DEF BrokeringInv, TokenInv, Locked, Minting
<1>7. (\E x \in Caller : Retried(op[x])) => granted
  BY DEF BrokeringInv, TokenInv, Renewed, OpTypes, Retried, Handling, Remote
<1>8. Renewed'
  BY <1>1, <1>2, <1>3, <1>4, <1>7 DEF BrokeringInv, TokenInv, Renewed, Retried
<1>9. Followed'
  BY <1>2, <1>4, FollowedToken DEF Handling
<1> QED BY <1>4, <1>5, <1>6, <1>8, <1>9 DEF BrokeringInv, TokenInv

LEMMA MintFailsInv ==
    ASSUME BrokeringAssumption, BrokeringInv, NEW c \in Caller, MintFails(c)
    PROVE  BrokeringInv'
<1>1. op[c] \in Operation /\ op[c].stage \in Remote /\ op[c].http = "mint"
  BY DEF MintFails, InNeed, Active, Remote, Idle, BrokeringInv, TokenInv, OpTypes
<1>2. mutex = c /\ mutex' = None /\ UNCHANGED <<granted, token>>
  BY <1>1 DEF MintFails, BrokeringInv, TokenInv, Locked, Minting
<1>3. UNCHANGED stores /\ StoreTypes'
  BY DEF MintFails, GivesUp, GoesOn, stores, BrokeringInv, StoreTypes
<1>4. CASE op[c].stage \in {"post", "put"} /\ Leave(c) /\ amiss' = TRUE
  <2>1. Handling(op[c]) BY <1>4 DEF Handling
  <2> QED BY <1>2, <1>3, <1>4, <2>1, StepGivenUp
<1>5. CASE /\ op[c].stage = "delete" /\ amiss' = TRUE
           /\ op' = [op EXCEPT ![c] = [Moved(@, "unsecret") EXCEPT !.clean = FALSE]]
  <2>1. Handling(op[c]) BY <1>5 DEF Handling
  <2> QED BY <1>2, <1>3, <1>5, <2>1, StepGoneOn
<1>6. CASE op[c].stage = "elsewhere" /\ Leave(c) /\ UNCHANGED <<stores, amiss>>
  <2>1. Tokenless(Idle) /\ ~Handling(Idle) /\ ~Handling(op[c])
    BY <1>6 DEF Tokenless, Handling, Idle
  <2>2. TokenInv'
    BY <1>2, <1>6, <2>1, TokenMoves DEF Leave, BrokeringInv
  <2>3. Followed'
    BY <1>6, <2>1, FollowedToken DEF Leave
  <2> QED BY <1>3, <2>2, <2>3 DEF BrokeringInv
<1> QED BY <1>1, <1>4, <1>5, <1>6 DEF MintFails, GivesUp, GoesOn, Moved, Operation

LEMMA StoreTokenInv ==
    ASSUME BrokeringAssumption, BrokeringInv, NEW c \in Caller, StoreToken(c)
    PROVE  BrokeringInv'
<1>1. op \in [Caller -> {Idle} \union Operation] /\ op[c] \in Operation
      /\ op[c].stage \in Remote /\ op[c].http = "minted"
  BY DEF StoreToken, InNeed, Active, Remote, Idle, BrokeringInv, TokenInv, OpTypes
<1>2. PICK r : /\ r \in Operation /\ op' = [op EXCEPT ![c] = r]
               /\ r.http = "send" /\ r.tok = op[c].tok
               /\ r.again = op[c].again /\ r.stage = op[c].stage /\ r.clean = op[c].clean
               /\ r.row = op[c].row /\ r.secret = op[c].secret
  <2>1. PICK r : r = [op[c] EXCEPT !.http = "send"]
    OBVIOUS
  <2>2. op' = [op EXCEPT ![c] = r]
    BY <2>1 DEF StoreToken
  <2>3. r \in Operation
    BY <1>1, <2>1 DEF Operation
  <2>4. r.http = "send" /\ r.tok = op[c].tok /\ r.stage = op[c].stage
        /\ r.row = op[c].row /\ r.secret = op[c].secret
    BY <1>1, <2>1 DEF Operation
  <2>5. r.again = op[c].again /\ r.clean = op[c].clean
    BY <1>1, <2>1 DEF Operation
  <2> QED BY <2>2, <2>3, <2>4, <2>5
<1>3. op'[c] = r /\ \A x \in Caller \ {c} : op'[x] = op[x]
  BY <1>1, <1>2
<1>4. UNCHANGED <<granted, stores, amiss>> /\ StoreTypes'
  BY DEF StoreToken, stores, BrokeringInv, StoreTypes
<1>5. token' = op[c].tok /\ mutex' = None
  BY DEF StoreToken
<1>6. OpTypes'
  BY <1>1, <1>2, <1>3, <1>4, <1>5 DEF BrokeringInv, TokenInv, OpTypes, Operation, Direct, Remote,
                                      Handling
<1>7. Locked'
  BY <1>1, <1>2, <1>3, <1>5 DEF BrokeringInv, TokenInv, Locked, Minting, BrokeringAssumption
<1>8. Renewed'
  BY <1>1, <1>2, <1>3, <1>5 DEF BrokeringInv, TokenInv, Renewed, Retried, Minting
<1>9. Followed'
  BY <1>2, <1>4, FollowedToken DEF Handling
<1> QED BY <1>4, <1>6, <1>7, <1>8, <1>9 DEF BrokeringInv, TokenInv

(* The first 403 drops the cached token; there is no second one. *)
LEMMA RefuseInv ==
    ASSUME BrokeringAssumption, BrokeringInv, NEW c \in Caller, Refuse(c)
    PROVE  BrokeringInv'
<1>1. op \in [Caller -> {Idle} \union Operation] /\ op[c] \in Operation
      /\ op[c].stage \in Remote \ {"elsewhere"} /\ op[c].http = "send" /\ op[c].tok = "old"
  BY DEF Refuse, Refused, InNeed, Active, Remote, Idle, BrokeringInv, TokenInv, OpTypes
<1>2. ~op[c].again
  BY <1>1 DEF BrokeringInv, TokenInv, Renewed, Retried
<1>3. PICK r : /\ r \in Operation /\ op' = [op EXCEPT ![c] = r]
               /\ r.http = "token" /\ r.stage = op[c].stage /\ r.clean = op[c].clean
               /\ r.row = op[c].row /\ r.secret = op[c].secret
  <2>1. PICK r : r = Again(c)
    OBVIOUS
  <2>2. op' = [op EXCEPT ![c] = r]
    BY <1>2, <2>1 DEF Refuse
  <2>3. r \in Operation
    BY <1>1, <2>1 DEF Operation, Again
  <2>4. r.http = "token" /\ r.stage = op[c].stage
        /\ r.row = op[c].row /\ r.secret = op[c].secret
    BY <1>1, <2>1 DEF Operation, Again
  <2>5. r.clean = op[c].clean
    BY <1>1, <2>1 DEF Operation, Again
  <2> QED BY <2>2, <2>3, <2>4, <2>5
<1>4. op'[c] = r /\ \A x \in Caller \ {c} : op'[x] = op[x]
  BY <1>1, <1>3
<1>5. /\ UNCHANGED <<granted, stores>> /\ mutex = None /\ mutex' = None /\ token' = None
      /\ amiss' = amiss
  BY <1>2 DEF Refuse, BrokeringInv, StoreTypes
<1>6. OpTypes'
  BY <1>1, <1>3, <1>4, <1>5 DEF BrokeringInv, TokenInv, OpTypes, Direct, Remote, Handling
<1>7. Locked'
  BY <1>1, <1>3, <1>4, <1>5 DEF BrokeringInv, TokenInv, Locked, Minting, BrokeringAssumption
<1>8. Renewed'
  BY <1>1, <1>3, <1>4, <1>5 DEF BrokeringInv, TokenInv, Renewed, Locked, Retried, Minting,
                                BrokeringAssumption
<1>9. Followed'
  BY <1>3, <1>5, FollowedToken DEF Handling
<1>10. StoreTypes'
  BY <1>5 DEF BrokeringInv, StoreTypes, stores
<1> QED BY <1>6, <1>7, <1>8, <1>9, <1>10 DEF BrokeringInv, TokenInv

LEMMA OtherEndInv ==
    ASSUME BrokeringAssumption, BrokeringInv, NEW c \in Caller, OtherEnd(c)
    PROVE  BrokeringInv'
<1>1. Tokenless(Idle) /\ ~Handling(Idle) /\ ~Handling(op[c])
  BY DEF OtherEnd, At, Tokenless, Handling, Idle
<1>2. mutex # c
  BY NotMinting DEF OtherEnd
<1>3. /\ op' = [op EXCEPT ![c] = Idle] /\ UNCHANGED <<granted, token, mutex, stores, amiss>>
  BY DEF OtherEnd, Leave, Keeps
<1>4. TokenInv'
  BY <1>1, <1>2, <1>3, TokenMoves DEF BrokeringInv
<1>5. Followed'
  BY <1>1, <1>3, FollowedToken
<1>6. StoreTypes'
  BY <1>3 DEF BrokeringInv, StoreTypes, stores
<1> QED BY <1>4, <1>5, <1>6 DEF BrokeringInv

LEMMA GrantInv ==
    ASSUME BrokeringInv, Grant PROVE BrokeringInv'
<1>1. TokenInv'
  BY DEF Grant, BrokeringInv, TokenInv, OpTypes, Locked, Renewed
<1>2. StoreTypes' /\ Followed'
  BY DEF Grant, stores, BrokeringInv, StoreTypes, Followed, Agreed, SoFar
<1> QED BY <1>1, <1>2 DEF BrokeringInv

LEMMA ExpireTokenInv ==
    ASSUME BrokeringAssumption, BrokeringInv, ExpireToken PROVE BrokeringInv'
<1>1. TokenInv'
  BY DEF ExpireToken, BrokeringInv, TokenInv, OpTypes, Locked, Renewed, BrokeringAssumption
<1>2. StoreTypes' /\ Followed'
  BY DEF ExpireToken, stores, BrokeringInv, StoreTypes, Followed, Agreed, SoFar
<1> QED BY <1>1, <1>2 DEF BrokeringInv
-----------------------------------------------------------------------------
(* Requests begin. *)
LEMMA NotActive ==
    ASSUME BrokeringInv, NEW c \in Caller, c \notin Active
    PROVE  op[c] = Idle /\ mutex # c
<1>1. op[c] = Idle
  BY DEF Active, BrokeringInv, TokenInv, OpTypes, Operation, Direct, Remote
<1>2. mutex # c
  BY <1>1 DEF BrokeringInv, TokenInv, Locked, Minting, Idle, Remote
<1> QED BY <1>1, <1>2

LEMMA OtherBeginInv ==
    ASSUME BrokeringAssumption, BrokeringInv, NEW c \in Caller, OtherBegin(c)
    PROVE  BrokeringInv'
<1>1. op[c] = Idle /\ mutex # c
  BY NotActive DEF OtherBegin
<1>2. PICK r : r = New("elsewhere", None, None)
  OBVIOUS
<1>3. r.stage = "elsewhere" /\ Tokenless(r)
  BY <1>2 DEF New, Tokenless, Operation, Remote, Handling
<1>4. op' = [op EXCEPT ![c] = r] /\ UNCHANGED <<granted, token, mutex, stores, amiss>>
  BY <1>2 DEF OtherBegin
<1>5. TokenInv'
  BY <1>1, <1>3, <1>4, TokenMoves DEF BrokeringInv
<1>6. Followed'
  <2>1. ~Handling(r) /\ ~Handling(op[c])
    BY <1>1, <1>3 DEF Handling, Idle
  <2> QED BY <1>4, <2>1, FollowedToken
<1>7. StoreTypes'
  BY <1>4 DEF BrokeringInv, StoreTypes, stores
<1> QED BY <1>5, <1>6, <1>7 DEF BrokeringInv

(* A handler that begins while others run makes them all unclean. *)
LEMMA BeginInv ==
    ASSUME BrokeringAssumption, BrokeringInv, granted, NEW c \in Caller,
           NEW stage \in {"secret", "post", "get"},
           NEW row \in Link \union {None}, NEW secret \in Secret \union {None},
           stage \in {"secret", "post"} => row \in Link,
           stage = "post" => secret = None,
           Begin(c, stage, row, secret)
    PROVE  BrokeringInv'
<1>1. op \in [Caller -> {Idle} \union Operation] /\ op[c] = Idle /\ mutex # c
  BY NotActive DEF Begin, BrokeringInv, TokenInv, OpTypes
<1>2. PICK r : r = New(stage, row, secret)
  OBVIOUS
<1>3. /\ r \in Operation /\ r.stage = stage /\ r.http = "token" /\ ~r.again
      /\ r.row = row /\ r.secret = secret /\ r.clean = (Handlers = {}) /\ Handling(r)
  BY <1>2 DEF New, Operation, Direct, Remote, Handling
<1>4. \A x \in Caller : x \in Handlers <=> Handling(op[x])
  BY DEF Handlers, Active, Handling
<1>5. /\ UNCHANGED <<granted, token, mutex, stores>>
      /\ amiss' = (amiss \/ Handlers # {})
      /\ op' = [x \in Caller |-> IF x = c THEN r
                                 ELSE IF x \in Handlers THEN [op[x] EXCEPT !.clean = FALSE]
                                 ELSE op[x]]
  BY <1>2 DEF Begin
<1>6. \A x \in Caller \ {c} :
        /\ op'[x] \in {Idle} \union Operation
        /\ op[x] \notin Operation => op'[x] = op[x]
        /\ op[x] \in Operation =>
              /\ op'[x].stage = op[x].stage /\ op'[x].http = op[x].http /\ op'[x].tok = op[x].tok
              /\ op'[x].again = op[x].again /\ op'[x].row = op[x].row
        /\ Handling(op[x]) => ~op'[x].clean
  <2> SUFFICES ASSUME NEW x \in Caller \ {c}
               PROVE  /\ op'[x] \in {Idle} \union Operation
                      /\ op[x] \notin Operation => op'[x] = op[x]
                      /\ op[x] \in Operation =>
                          /\ op'[x].stage = op[x].stage /\ op'[x].http = op[x].http
                          /\ op'[x].tok = op[x].tok
                          /\ op'[x].again = op[x].again /\ op'[x].row = op[x].row
                      /\ Handling(op[x]) => ~op'[x].clean
    OBVIOUS
  <2>1. CASE Handling(op[x])
    <3>1. op[x] \in Operation /\ op'[x] = [op[x] EXCEPT !.clean = FALSE]
      BY <1>1, <1>4, <1>5, <2>1 DEF Handling, Idle
    <3> QED BY <3>1 DEF Operation
  <2>2. CASE ~Handling(op[x])
    BY <1>1, <1>4, <1>5, <2>2
  <2> QED BY <2>1, <2>2
<1>7. op'[c] = r /\ op' \in [Caller -> {Idle} \union Operation]
  BY <1>3, <1>5, <1>6
<1>8. \A x \in Caller \ {c} :
        /\ op'[x].stage = op[x].stage
        /\ Minting(op'[x]) <=> Minting(op[x])
        /\ Retried(op'[x]) <=> Retried(op[x])
        /\ Handling(op'[x]) <=> Handling(op[x])
        /\ op[x].stage # "idle" =>
              op'[x].http = op[x].http /\ op'[x].tok = op[x].tok /\ op'[x].row = op[x].row
  BY <1>1, <1>6 DEF Idle, Minting, Retried, Handling
<1>9. OpTypes'
  BY <1>3, <1>5, <1>7, <1>8 DEF BrokeringInv, TokenInv, OpTypes, Direct
<1>10. ~Minting(r) /\ ~Retried(r)
  BY <1>3 DEF Minting, Retried
<1>11. Locked'
  BY <1>1, <1>5, <1>7, <1>8, <1>10 DEF BrokeringInv, TokenInv, Locked
<1>12. Renewed'
  BY <1>5, <1>7, <1>8, <1>10 DEF BrokeringInv, TokenInv, Renewed, Minting, Retried, Remote
<1>13. StoreTypes'
  BY <1>5 DEF BrokeringInv, StoreTypes, stores
<1>14. CASE Handlers = {}
  <2>1. \A x \in Caller \ {c} : ~Handling(op'[x])
    BY <1>4, <1>8, <1>14
  <2>2. r.clean /\ amiss' = amiss
    BY <1>3, <1>5, <1>14 DEF BrokeringInv, StoreTypes
  <2>3. Agreed \/ amiss
    BY <1>1, <1>4, <1>14 DEF BrokeringInv, Followed
  <2>4. SoFar(r)'
    BY <1>3, <1>5, <2>2, <2>3 DEF SoFar, Agreed, stores
  <2>5. (\A x \in Caller : Handling(op[x]) /\ op[x].clean =>
            SoFar(op[x]) /\ \A y \in Caller \ {x} : ~Handling(op[y]))'
    BY <1>3, <1>7, <2>1, <2>4 DEF SoFar, Agreed
  <2>6. Followed'
    BY <1>3, <1>7, <2>1, <2>2, <2>5 DEF Followed
  <2> QED BY <2>6, <1>9, <1>11, <1>12, <1>13 DEF BrokeringInv, TokenInv
<1>15. CASE Handlers # {}
  <2>1. \A x \in Caller : Handling(op'[x]) => ~op'[x].clean
    BY <1>3, <1>6, <1>7, <1>8, <1>15
  <2>2. amiss'
    BY <1>5, <1>15
  <2> QED BY <2>1, <2>2, <1>9, <1>11, <1>12, <1>13 DEF Followed, BrokeringInv, TokenInv
<1> QED BY <1>14, <1>15
-----------------------------------------------------------------------------
LEMMA BrokeringInitInv ==
    ASSUME BrokeringAssumption, BrokerInit PROVE BrokeringInv
<1>1. TokenInv
  BY DEF BrokeringAssumption, BrokerInit, TokenInv, OpTypes, Locked, Renewed, Handling, Minting,
         Retried, Idle, Remote, Direct
<1>2. StoreTypes /\ Followed
  BY DEF BrokerInit, StoreTypes, Followed, Agreed, Idle, Handling
<1> QED BY <1>1, <1>2 DEF BrokeringInv

LEMMA BrokeringNextInv ==
    ASSUME BrokeringAssumption, BrokeringInv, [BrokerNext]_brokerVars PROVE BrokeringInv'
<1>1. CASE UNCHANGED brokerVars
  BY <1>1 DEF brokerVars, stores, BrokeringInv, TokenInv, OpTypes, Locked, Renewed, StoreTypes,
              Followed, Agreed, SoFar
<1>2. CASE Grant BY <1>2, GrantInv
<1>3. CASE ExpireToken BY <1>3, ExpireTokenInv
<1>4. ASSUME NEW c \in Caller, NEW row \in Link, NEW secret \in Secret \union {None},
             PutBegin(c, row, secret)
      PROVE  BrokeringInv'
  BY <1>4, BeginInv DEF PutBegin
<1>5. ASSUME NEW c \in Caller, DeleteBegin(c) PROVE BrokeringInv'
  BY <1>5, BeginInv DEF DeleteBegin
<1>6. ASSUME NEW c \in Caller,
             OtherBegin(c) \/ OtherEnd(c) \/ TakeToken(c) \/ Mint(c) \/ MintFails(c)
                \/ StoreToken(c) \/ Refuse(c)
      PROVE  BrokeringInv'
  BY <1>6, OtherBeginInv, OtherEndInv, TakeTokenInv, MintInv, MintFailsInv, StoreTokenInv, RefuseInv
<1>7. ASSUME NEW c \in Caller,
             PutSecret(c) \/ PostProvider(c) \/ PutProvider(c) \/ UpsertLink(c) \/ GetLink(c)
                \/ DeleteProvider(c) \/ DeleteSecret(c) \/ DeleteLink(c)
      PROVE  BrokeringInv'
  BY <1>7, PutSecretInv, PostProviderInv, PutProviderInv, UpsertLinkInv, GetLinkInv,
     DeleteProviderInv, DeleteSecretInv, DeleteLinkInv
<1> QED BY <1>1, <1>2, <1>3, <1>4, <1>5, <1>6, <1>7 DEF BrokerNext

(* The inductive invariant of identity brokering: the admin client's mutex and
   tokens (idp/rest.go:47-112), and what the handlers have done to vault,
   Keycloak and row by each of their steps (brokering/handlers.go:57-122). *)
THEOREM BrokeringInvariant ==
    BrokerSpec => []BrokeringInv
<1>1. BrokerInit => BrokeringInv BY BrokeringInitInv, BrokeringAssumption
<1>2. BrokeringInv /\ [BrokerNext]_brokerVars => BrokeringInv'
  BY BrokeringNextInv, BrokeringAssumption
<1> QED BY <1>1, <1>2, PTL DEF BrokerSpec

(* A request to a realm that existed when it began is never refused a second
   time, however many callers share the admin client's token: the retry of
   do (idp/rest.go:107) sends a token minted after the first 403. *)
THEOREM RetryAlwaysFresh ==
    BrokerSpec => []RetryIsFresh
<1>1. BrokeringInv => RetryIsFresh
  BY DEF BrokeringInv, TokenInv, OpTypes, RetryIsFresh, Operation, Direct, Remote, Idle
<1> QED BY <1>1, BrokeringInvariant, PTL

(* While no handler runs, row, Keycloak's provider and stored secret agree,
   unless a step failed or handlers overlapped and nothing has repaired it
   (handlers.go:57-122). *)
THEOREM AlwaysLinkedUnlessAmiss ==
    BrokerSpec => []LinkedUnlessAmiss
<1>1. BrokeringInv => LinkedUnlessAmiss
  <2>1. ASSUME Handlers = {} PROVE \A c \in Caller : ~Handling(op[c])
    BY <2>1 DEF Handlers, Active, Handling
  <2> QED BY <2>1 DEF BrokeringInv, Followed, LinkedUnlessAmiss, Agreed
<1> QED BY <1>1, BrokeringInvariant, PTL
=============================================================================
