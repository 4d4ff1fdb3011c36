----------------------------- MODULE AuditChain -----------------------------
(***************************************************************************)
(* The durable audit log: S3Archive of pkg/audit/s3.go over a versioned,   *)
(* object-locked bucket, of which List and Verify read the latest version  *)
(* of each object.  One process writes it (the gateway has a bucket of its *)
(* own, gateway/internal/server/audit.go:16-19).                           *)
(*                                                                         *)
(* Storage is unreliable in the usual way: it can carry out a put long     *)
(* after Record gave it up, or never, or carry it out and lose the answer. *)
(* A version is never lost once it is written; a newer one can hide it.    *)
(* hashRecord is taken to be injective.                                    *)
(***************************************************************************)
EXTENDS Integers, FiniteSets, Functions, FiniteSetsExt

CONSTANTS
    MaxEvents,     \* bound on the calls of Record
    MaxCrashes     \* bound on the crashes of the writing process

ASSUME BoundsAssumption == MaxEvents \in Nat /\ MaxCrashes \in Nat

VARIABLES
    objects,    \* the latest version of the object of each sequence number
    puts,       \* records sent to storage and not carried out so far
    phase,      \* the writer: "down", "listed" (half-way in loadTip) or "up"
    tip,        \* the greatest sequence number loadTip listed
    seq,        \* S3Archive.seq; what it was before the crash while down
    lastHash,   \* S3Archive.lastHash
    waiting,    \* the record the holder of mu waits for an answer for
    answered,   \* storage has carried that put out
    verify,     \* a running Verify and its last verdict
    events,     \* calls of Record so far: the identity of the next event
    crashes,
    acked,      \* ghost: the records for which Record returned nil
    overtaken   \* ghost: sequence numbers at which a put that was given up
                \* hid a record that others had been chained to or confirmed

vars == <<objects, puts, phase, tip, seq, lastHash, waiting, answered, verify,
          events, crashes, acked, overtaken>>
bucket == <<objects, puts, overtaken>>
writer == <<phase, tip, seq, lastHash, waiting, answered, events, crashes, acked>>

Nobody == [seq |-> 0]
NoHash == <<>>

-----------------------------------------------------------------------------
(* The hash covers the position, the previous hash and the event. *)
hashRecord(r) == <<r.seq, r.prev, r.event>>

Seal(n, prev, e) ==
    LET r == [seq |-> n, prev |-> prev, event |-> e]
    IN  [seq |-> n, prev |-> prev, event |-> e, hash |-> hashRecord(r)]

(* The keys are zero-padded numbers, so they are listed in order. *)
LastKey == IF DOMAIN objects = {} THEN 0 ELSE Max(DOMAIN objects)

Init ==
    /\ objects = <<>>
    /\ puts = {}
    /\ phase = "down"
    /\ tip = 0 /\ seq = 0 /\ lastHash = NoHash
    /\ waiting = Nobody /\ answered = FALSE
    /\ verify = [keys |-> 0, next |-> 1, prev |-> NoHash, verdict |-> "none"]
    /\ events = 0 /\ crashes = 0
    /\ acked = {} /\ overtaken = {}

-----------------------------------------------------------------------------
(* NewS3Archive: list the keys, keep the greatest, and read that object. Both
   requests can fail, and the process is then started again later. *)
ListTip ==
    /\ phase = "down"
    /\ phase' = "listed"
    /\ tip' = LastKey
    /\ UNCHANGED <<bucket, seq, lastHash, waiting, answered, verify, events, crashes, acked>>

LoadTipMutShort ==
    /\ phase = "listed"
    /\ phase' = "up"
    /\ seq' = IF tip = 0 THEN 0 ELSE tip - 1
    /\ lastHash' = IF tip < 2 THEN NoHash ELSE objects[tip - 1].hash
    /\ UNCHANGED <<bucket, tip, waiting, answered, verify, events, crashes, acked>>
LoadTipMutFresh ==
    /\ phase = "listed"
    /\ phase' = "up"
    /\ seq' = 0
    /\ lastHash' = NoHash
    /\ UNCHANGED <<bucket, tip, waiting, answered, verify, events, crashes, acked>>
LoadTip ==
    /\ phase = "listed"
    /\ phase' = "up"
    /\ seq' = tip
    /\ lastHash' = IF tip = 0 THEN NoHash ELSE objects[tip].hash
    /\ UNCHANGED <<bucket, tip, waiting, answered, verify, events, crashes, acked>>

LoadTipFails ==
    /\ phase = "listed"
    /\ phase' = "down"
    /\ UNCHANGED <<bucket, tip, seq, lastHash, waiting, answered, verify, events, crashes, acked>>

-----------------------------------------------------------------------------
(* Record takes mu, seals the event on the tip and sends it. *)
Record ==
    /\ phase = "up" /\ waiting = Nobody
    /\ events < MaxEvents
    /\ events' = events + 1
    /\ waiting' = Seal(seq + 1, lastHash, events')
    /\ answered' = FALSE
    /\ puts' = puts \union {waiting'}
    /\ UNCHANGED <<objects, overtaken, phase, tip, seq, lastHash, verify, crashes, acked>>

(* Storage carries out a put: the record becomes the latest version. *)
TooLate(r) == r # waiting /\ (r.seq <= seq \/ answered)

Store(r) ==
    /\ r \in puts
    /\ puts' = puts \ {r}
    /\ objects' = [n \in DOMAIN objects \union {r.seq} |->
                       IF n = r.seq THEN r ELSE objects[n]]
    /\ answered' = (answered \/ r = waiting)
    /\ overtaken' = IF TooLate(r) THEN overtaken \union {r.seq} ELSE overtaken
    /\ UNCHANGED <<phase, tip, seq, lastHash, waiting, verify, events, crashes, acked>>

(* The put is confirmed: the tip moves on and mu is released. *)
Confirm ==
    /\ waiting # Nobody /\ answered
    /\ seq' = waiting.seq /\ lastHash' = waiting.hash
    /\ acked' = acked \union {waiting}
    /\ waiting' = Nobody /\ answered' = FALSE
    /\ UNCHANGED <<bucket, phase, tip, verify, events, crashes>>

(* Storage refuses the put, the answer is lost, or the request's context ends:
   Record returns the error, which its callers drop, and leaves the tip. What
   was sent may still be carried out. *)
GiveUpMutHash ==
    /\ waiting # Nobody
    /\ waiting' = Nobody /\ answered' = FALSE
    /\ lastHash' = waiting.hash
    /\ UNCHANGED <<bucket, phase, tip, seq, verify, events, crashes, acked>>
GiveUp ==
    /\ waiting # Nobody
    /\ waiting' = Nobody /\ answered' = FALSE
    /\ UNCHANGED <<bucket, phase, tip, seq, lastHash, verify, events, crashes, acked>>

(* A put that storage never carries out. *)
Lose(r) ==
    /\ r \in puts
    /\ puts' = puts \ {r}
    /\ UNCHANGED <<objects, overtaken, writer, verify>>

Crash ==
    /\ phase # "down"
    /\ crashes < MaxCrashes
    /\ crashes' = crashes + 1
    /\ phase' = "down"
    /\ waiting' = Nobody /\ answered' = FALSE
    /\ verify' = [verify EXCEPT !.next = verify.keys + 1]
    /\ UNCHANGED <<bucket, tip, seq, lastHash, events, acked>>

-----------------------------------------------------------------------------
(* Verify lists the keys and then reads the objects one by one, without mu:
   Record and storage go on meanwhile. *)
VerifyBegin ==
    /\ phase = "up"
    /\ verify.next > verify.keys
    /\ verify' = [keys |-> LastKey,
                  next |-> 1, prev |-> NoHash, verdict |-> "intact"]
    /\ UNCHANGED <<bucket, writer>>

VerifyRead ==
    /\ verify.next <= verify.keys
    /\ LET r == objects[verify.next] IN
           verify' = IF r.prev = verify.prev /\ r.hash = hashRecord(r)
                     THEN [verify EXCEPT !.next = @ + 1, !.prev = r.hash]
                     ELSE [verify EXCEPT !.next = verify.keys + 1, !.verdict = "broken"]
    /\ UNCHANGED <<bucket, writer>>

Next ==
    \/ ListTip \/ LoadTip \/ LoadTipFails
    \/ Record \/ Confirm \/ GiveUp
    \/ \E r \in puts : Store(r) \/ Lose(r)
    \/ Crash
    \/ VerifyBegin \/ VerifyRead

Spec == Init /\ [][Next]_vars

-----------------------------------------------------------------------------
(* A record for which Record returned nil is what List and Verify read at its
   place ever after, across restarts, unless a put that had been given up was
   carried out over it. Nothing checks for the latter: Record reuses the key
   of a failed put (s3.go:104, 115). *)
AcknowledgedKept ==
    \A r \in acked : r.seq \notin overtaken => /\ r.seq \in DOMAIN objects
                                               /\ objects[r.seq] = r

(* Verify reports a broken chain only if such a put was carried out: never
   because of a failed or repeated put, a crash between the put and the update
   of the tip, or what is written while it reads. *)
NoFalseAlarm == verify.verdict = "broken" => overtaken # {}

(* The archive implements the ledger: its entries are the objects up to the
   tip. A restart takes over a record whose put was not confirmed. *)
Ledger == INSTANCE Ledger WITH
              Event <- 1..MaxEvents,
              entries <- [n \in 1..seq |-> objects[n].event],
              voided <- overtaken
ImplementsLedger == Ledger!LedgerSpec
=============================================================================
