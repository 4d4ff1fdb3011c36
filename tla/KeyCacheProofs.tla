--------------------------- MODULE KeyCacheProofs ---------------------------
(***************************************************************************)
(* Proofs about KeyCache, for any requests and keys, any TTL and any time  *)
(* a fetch may take.  What makes the two properties inductive is what is   *)
(* known of a document on its way into the cache: how long before the      *)
(* clock it was read, and that it names the key its request looks for.     *)
(***************************************************************************)
EXTENDS KeyCache, TLAPS

Asking ==
    [pc : {"lookup", "fetch", "store", "again", "accepted", "denied"}, kid : Kid,
     began : Nat, read : SUBSET Kid, at : Nat,
     known : BOOLEAN, failed : BOOLEAN, overwritten : BOOLEAN]

Types ==
    /\ now \in Nat
    /\ published \subseteq Kid
    /\ retiredAt \in [Kid -> Nat \union {Never}]
    /\ entry \in [keys : SUBSET Kid, fetchedAt : Nat]
    /\ req \in [Request -> {[pc |-> Idle]} \union Asking]

(* A key was published at or after time t. *)
GoodSince(k, t) ==
    k \in published \/ (retiredAt[k] # Never /\ t <= retiredAt[k])

(* The clock: nothing is from the future, and no fetch outlives its timeout. *)
Timely ==
    /\ \A k \in Kid : retiredAt[k] <= now /\ (k \in published => retiredAt[k] = Never)
    /\ entry.fetchedAt <= now
    /\ \A r \in Request :
        /\ req[r].pc \in {"fetch", "store"} =>
              req[r].began <= now /\ now <= req[r].began + FetchTime
        /\ req[r].pc = "accepted" => req[r].at <= now

(* Documents: the one in the cache was read at most a fetch before it was
   stored, the one a request read is from after its fetch began. *)
Fresh ==
    /\ \A k \in entry.keys : GoodSince(k, entry.fetchedAt - FetchTime)
    /\ \A r \in Request : req[r].pc = "store" =>
          \A k \in req[r].read : GoodSince(k, req[r].began)

(* A key published all along is in whatever the request read and stored. *)
InTheDocument ==
    \A r \in Request :
        /\ req[r].pc \in {"lookup", "fetch", "store", "again"} /\ req[r].known =>
              req[r].kid \in published
        /\ req[r].pc = "store" /\ req[r].known => req[r].kid \in req[r].read
        /\ req[r].pc = "again" /\ ~req[r].overwritten =>
              /\ entry.fetchedAt = now
              /\ req[r].known => req[r].kid \in entry.keys

IInv == Types /\ Timely /\ Fresh /\ InTheDocument
             /\ RetiredKeysFade /\ PublishedKeyAccepted

-----------------------------------------------------------------------------
LEMMA AskingParts ==
    ASSUME NEW r \in {[pc |-> Idle]} \union Asking
    PROVE  /\ r.pc = Idle \/ r \in Asking
           /\ r.pc # Idle =>
                /\ r \in Asking
                /\ r.pc \in {"lookup", "fetch", "store", "again", "accepted", "denied"}
                /\ r.kid \in Kid /\ r.began \in Nat /\ r.read \subseteq Kid /\ r.at \in Nat
                /\ r.known \in BOOLEAN /\ r.failed \in BOOLEAN /\ r.overwritten \in BOOLEAN
BY DEF Asking, Idle

LEMMA InitIInv == Init => IInv
<1> SUFFICES ASSUME Init PROVE IInv
  OBVIOUS
<1>1. Types
  BY DEF Init, Types
<1>2. \A r \in Request : req[r].pc = Idle
  BY DEF Init
<1>3. Timely /\ Fresh
  BY <1>2, TimesAssumption DEF Init, Timely, Fresh, Never, Idle
<1>4. InTheDocument /\ RetiredKeysFade /\ PublishedKeyAccepted
  BY <1>2 DEF InTheDocument, RetiredKeysFade, PublishedKeyAccepted, Idle
<1> QED BY <1>1, <1>3, <1>4 DEF IInv

(* The realm publishes a key it never published. *)
LEMMA PublishIInv == ASSUME IInv, NEW k \in Kid, Publish(k) PROVE IInv'
<1>1. /\ published' = published \union {k} /\ retiredAt[k] = Never
      /\ UNCHANGED <<now, retiredAt, entry, req>>
  BY DEF Publish
<1>2. Types' /\ Timely'
  BY <1>1 DEF IInv, Types, Timely
<1>3. Fresh'
  BY <1>1 DEF IInv, Fresh, GoodSince
<1>4. InTheDocument' /\ RetiredKeysFade' /\ PublishedKeyAccepted'
  BY <1>1 DEF IInv, InTheDocument, RetiredKeysFade, PublishedKeyAccepted
<1> QED BY <1>2, <1>3, <1>4 DEF IInv

(* The realm takes a key back: until now it was good. *)
LEMMA RetireIInv == ASSUME IInv, NEW k \in Kid, Retire(k) PROVE IInv'
<1>1. /\ published' = published \ {k} /\ UNCHANGED <<now, entry>>
      /\ retiredAt' = [retiredAt EXCEPT ![k] = now]
  BY DEF Retire
<1>2. /\ now \in Nat /\ Never \notin Nat
      /\ retiredAt'[k] = now /\ \A j \in Kid : j # k => retiredAt'[j] = retiredAt[j]
      /\ retiredAt' \in [Kid -> Nat \union {Never}]
  BY <1>1 DEF IInv, Types, Never
<1>3. \A r \in Request :
        LET o == req[r]
            n == req'[r]
        IN  /\ n \in {[pc |-> Idle]} \union Asking /\ n.pc = o.pc
            /\ o.pc # Idle =>
                 /\ n.kid = o.kid /\ n.began = o.began /\ n.read = o.read /\ n.at = o.at
                 /\ n.failed = o.failed /\ n.overwritten = o.overwritten
                 /\ n.known => o.known
                 /\ n.known /\ o.pc \notin Resting => o.kid # k
                 /\ o.pc \in Resting => n.known = o.known
  <2> SUFFICES ASSUME NEW r \in Request
               PROVE  LET o == req[r]
                          n == req'[r]
                      IN  /\ n \in {[pc |-> Idle]} \union Asking /\ n.pc = o.pc
                          /\ o.pc # Idle =>
                               /\ n.kid = o.kid /\ n.began = o.began
                               /\ n.read = o.read /\ n.at = o.at
                               /\ n.failed = o.failed /\ n.overwritten = o.overwritten
                               /\ n.known => o.known
                               /\ n.known /\ o.pc \notin Resting => o.kid # k
                               /\ o.pc \in Resting => n.known = o.known
    OBVIOUS
  <2>1. req[r] \in {[pc |-> Idle]} \union Asking
    BY DEF IInv, Types
  <2>2. req'[r] = IF req[r].pc \notin Resting /\ req[r].kid = k
                  THEN [req[r] EXCEPT !.known = FALSE] ELSE req[r]
    BY DEF Retire
  <2>3. CASE req[r].pc \notin Resting /\ req[r].kid = k
    <3>1. req[r] \in Asking
      BY <2>1, <2>3 DEF Resting, Idle
    <3>2. /\ req'[r] \in Asking /\ req'[r].pc = req[r].pc /\ req'[r].kid = req[r].kid
          /\ req'[r].began = req[r].began /\ req'[r].read = req[r].read
          /\ req'[r].at = req[r].at /\ req'[r].failed = req[r].failed
          /\ req'[r].overwritten = req[r].overwritten
      BY <2>2, <2>3, <3>1 DEF Asking
    <3>3. ~req'[r].known
      BY <2>2, <2>3, <3>1 DEF Asking
    <3> QED BY <2>3, <3>2, <3>3
  <2>4. CASE ~(req[r].pc \notin Resting /\ req[r].kid = k)
    BY <2>1, <2>2, <2>4 DEF Asking, Resting, Idle
  <2> QED BY <2>3, <2>4
<1>4. req' = [r \in Request |-> req'[r]]
  BY DEF Retire
<1>5. Types'
  BY <1>1, <1>2, <1>3, <1>4 DEF IInv, Types
<1>6. Timely'
  <2>1. \A j \in Kid : retiredAt'[j] <= now' /\ (j \in published' => retiredAt'[j] = Never)
    BY <1>1, <1>2 DEF IInv, Timely
  <2>2. \A r \in Request :
          /\ req'[r].pc \in {"fetch", "store"} =>
                req'[r].began <= now' /\ now' <= req'[r].began + FetchTime
          /\ req'[r].pc = "accepted" => req'[r].at <= now'
    BY <1>1, <1>3 DEF IInv, Timely, Idle
  <2> QED BY <1>1, <2>1, <2>2 DEF IInv, Timely
<1>7. \A j \in Kid, t \in Int : t <= now /\ GoodSince(j, t) => GoodSince(j, t)'
  BY <1>1, <1>2 DEF GoodSince
<1>8. Fresh'
  <2>1. ASSUME NEW j \in entry.keys PROVE GoodSince(j, entry.fetchedAt - FetchTime)'
    <3>1. PICK t \in Int : t = entry.fetchedAt - FetchTime /\ t <= now
      BY TimesAssumption DEF IInv, Types, Timely
    <3>2. j \in Kid /\ GoodSince(j, t)
      BY <2>1, <3>1 DEF IInv, Types, Fresh
    <3>3. GoodSince(j, t)'
      BY <1>7, <3>1, <3>2
    <3> QED BY <1>1, <3>1, <3>3 DEF GoodSince
  <2>2. ASSUME NEW r \in Request, req'[r].pc = "store", NEW j \in req'[r].read
        PROVE  GoodSince(j, req[r].began)'
    <3>1. req[r].pc = "store" /\ req[r].pc # Idle /\ j \in req[r].read
          /\ req'[r].began = req[r].began
      BY <1>3, <2>2 DEF Idle
    <3>2. PICK t \in Int : t = req[r].began /\ t <= now
      BY <3>1, AskingParts DEF IInv, Types, Timely
    <3>3. j \in Kid /\ GoodSince(j, t)
      BY <3>1, <3>2, AskingParts DEF IInv, Types, Fresh
    <3>4. GoodSince(j, t)'
      BY <1>7, <3>2, <3>3
    <3> QED BY <3>1, <3>2, <3>4 DEF GoodSince
  <2> QED BY <1>1, <2>1, <2>2 DEF Fresh
<1>9. InTheDocument'
  BY <1>1, <1>3 DEF IInv, InTheDocument, Idle, Resting
<1>10. RetiredKeysFade'
  <2> SUFFICES ASSUME NEW r \in Request, req'[r].pc = "accepted"
               PROVE  \/ req'[r].kid \in published'
                      \/ /\ retiredAt'[req'[r].kid] # Never
                         /\ req'[r].at <= retiredAt'[req'[r].kid] + TTL + FetchTime
    BY DEF RetiredKeysFade
  <2>1. /\ req[r].pc = "accepted" /\ req[r].pc # Idle
        /\ req'[r].kid = req[r].kid /\ req'[r].at = req[r].at
        /\ req[r].at <= now /\ req[r].at \in Nat /\ req[r].kid \in Kid
    BY <1>3, AskingParts DEF IInv, Types, Timely, Idle
  <2>2. CASE req[r].kid = k
    BY <1>2, <2>1, <2>2, TimesAssumption DEF Never
  <2>3. CASE req[r].kid # k
    BY <1>1, <1>2, <2>1, <2>3 DEF IInv, RetiredKeysFade
  <2> QED BY <2>2, <2>3
<1>11. PublishedKeyAccepted'
  BY <1>3 DEF IInv, PublishedKeyAccepted, Idle, Resting
<1> QED BY <1>5, <1>6, <1>8, <1>9, <1>10, <1>11 DEF IInv

(* Time passes: no request is about to look again. *)
LEMMA TickIInv == ASSUME IInv, Tick PROVE IInv'
<1>1. /\ now' = now + 1 /\ now \in Nat
      /\ UNCHANGED <<published, retiredAt, entry, req>>
  BY DEF Tick, IInv, Types
<1>2. Types'
  BY <1>1 DEF IInv, Types
<1>3. Timely'
  <2>1. \A k \in Kid : retiredAt[k] \in Int
    BY DEF IInv, Types, Never
  <2>2. \A k \in Kid : retiredAt'[k] <= now' /\ (k \in published' => retiredAt'[k] = Never)
    BY <1>1, <2>1 DEF IInv, Timely
  <2>3. entry'.fetchedAt <= now'
    BY <1>1 DEF IInv, Types, Timely
  <2>4. ASSUME NEW r \in Request
        PROVE  /\ req'[r].pc \in {"fetch", "store"} =>
                     req'[r].began <= now' /\ now' <= req'[r].began + FetchTime
               /\ req'[r].pc = "accepted" => req'[r].at <= now'
    <3>1. req[r].pc \in {"fetch", "store", "accepted"} => req[r].began \in Nat /\ req[r].at \in Nat
      BY AskingParts DEF IInv, Types, Idle
    <3>2. req[r].pc \in {"fetch", "store"} => now < req[r].began + FetchTime
      BY DEF Tick
    <3> QED BY <1>1, <3>1, <3>2, TimesAssumption DEF IInv, Timely
  <2> QED BY <2>2, <2>3, <2>4 DEF Timely
<1>4. Fresh'
  BY <1>1 DEF IInv, Fresh, GoodSince
<1>5. InTheDocument'
  BY <1>1 DEF IInv, InTheDocument, Tick
<1>6. RetiredKeysFade' /\ PublishedKeyAccepted'
  BY <1>1 DEF IInv, RetiredKeysFade, PublishedKeyAccepted
<1> QED BY <1>2, <1>3, <1>4, <1>5, <1>6 DEF IInv
-----------------------------------------------------------------------------
(* What the invariant says of one request. *)
RequestOK(r) ==
    /\ req[r].pc \in {"fetch", "store"} =>
          req[r].began <= now /\ now <= req[r].began + FetchTime
    /\ req[r].pc = "accepted" => req[r].at <= now
    /\ req[r].pc = "store" => \A k \in req[r].read : GoodSince(k, req[r].began)
    /\ req[r].pc \in {"lookup", "fetch", "store", "again"} /\ req[r].known =>
          req[r].kid \in published
    /\ req[r].pc = "store" /\ req[r].known => req[r].kid \in req[r].read
    /\ req[r].pc = "again" /\ ~req[r].overwritten =>
          /\ entry.fetchedAt = now
          /\ req[r].known => req[r].kid \in entry.keys
    /\ req[r].pc = "accepted" =>
          \/ req[r].kid \in published
          \/ /\ retiredAt[req[r].kid] # Never
             /\ req[r].at <= retiredAt[req[r].kid] + TTL + FetchTime
    /\ req[r].pc = "denied" => ~req[r].known \/ req[r].failed \/ req[r].overwritten

LEMMA EachOK == ASSUME IInv, NEW r \in Request PROVE RequestOK(r)
BY DEF IInv, Timely, Fresh, InTheDocument, RetiredKeysFade, PublishedKeyAccepted, RequestOK

(* A step of one request that leaves the cache alone. *)
LEMMA OneMoves ==
    ASSUME IInv, NEW r \in Request, UNCHANGED <<now, published, retiredAt, entry>>,
           req' \in [Request -> {[pc |-> Idle]} \union Asking],
           \A q \in Request : q # r => req'[q] = req[q],
           RequestOK(r)'
    PROVE  IInv'
<1>1. Types'
  BY DEF IInv, Types
<1>2. \A q \in Request : RequestOK(q)'
  <2>1. ASSUME NEW q \in Request, q # r PROVE RequestOK(q)'
    BY <2>1, EachOK DEF RequestOK, GoodSince
  <2> QED BY <2>1
<1>3. Timely' /\ InTheDocument' /\ RetiredKeysFade' /\ PublishedKeyAccepted'
  BY <1>2 DEF IInv, RequestOK, Timely, InTheDocument, RetiredKeysFade, PublishedKeyAccepted
<1>4. Fresh'
  BY <1>2 DEF IInv, RequestOK, Fresh, GoodSince
<1> QED BY <1>1, <1>3, <1>4 DEF IInv

LEMMA BeginIInv ==
    ASSUME IInv, NEW r \in Request, NEW k \in Kid, Begin(r, k)
    PROVE  IInv'
<1> DEFINE n == [pc |-> "lookup", kid |-> k, began |-> 0, read |-> {}, at |-> 0,
                 known |-> k \in published, failed |-> FALSE, overwritten |-> FALSE]
<1>1. n \in Asking
  BY DEF Asking
<1>2. /\ req' = [req EXCEPT ![r] = n]
      /\ UNCHANGED <<now, published, retiredAt, entry>>
  BY DEF Begin
<1>3. n.pc = "lookup" /\ n.kid = k /\ n.known = (k \in published)
  OBVIOUS
<1> HIDE DEF n
<1>4. /\ req' \in [Request -> {[pc |-> Idle]} \union Asking] /\ req'[r] = n
      /\ \A q \in Request : q # r => req'[q] = req[q]
  BY <1>1, <1>2 DEF IInv, Types
<1>5. RequestOK(r)'
  BY <1>2, <1>3, <1>4 DEF RequestOK
<1> QED BY <1>2, <1>4, <1>5, OneMoves

(* What a lookup in the cache may say. *)
LEMMA CachedIs ==
    ASSUME IInv, NEW k \in Kid, Cached(k)
    PROVE  \/ k \in published
           \/ retiredAt[k] # Never /\ now <= retiredAt[k] + TTL + FetchTime
<1>1. GoodSince(k, entry.fetchedAt - FetchTime) /\ now - entry.fetchedAt <= TTL
  BY DEF IInv, Fresh, Cached
<1>2. now \in Nat /\ entry.fetchedAt \in Nat /\ (retiredAt[k] # Never => retiredAt[k] \in Nat)
  BY DEF IInv, Types
<1> QED BY <1>1, <1>2, TimesAssumption DEF GoodSince

(* The request ends. *)
LEMMA VerdictIs ==
    ASSUME IInv, NEW r \in Request, req[r] \in Asking, NEW pc \in {"accepted", "denied"},
           Verdict(r, pc)
    PROVE  /\ req' \in [Request -> {[pc |-> Idle]} \union Asking]
           /\ \A q \in Request : q # r => req'[q] = req[q]
           /\ req'[r].pc = pc /\ req'[r].at = now /\ req'[r].kid = req[r].kid
           /\ req'[r].known = req[r].known /\ req'[r].failed = req[r].failed
           /\ req'[r].overwritten = req[r].overwritten
<1> DEFINE n == [req[r] EXCEPT !.pc = pc, !.at = now, !.began = 0, !.read = {}]
<1>1. now \in Nat /\ req \in [Request -> {[pc |-> Idle]} \union Asking]
  BY DEF IInv, Types
<1>2. /\ n \in Asking /\ n.pc = pc /\ n.at = now /\ n.kid = req[r].kid
      /\ n.known = req[r].known /\ n.failed = req[r].failed
      /\ n.overwritten = req[r].overwritten
  BY <1>1 DEF Asking
<1>3. req'[r] = n /\ \A q \in Request : q # r => req'[q] = req[q]
  BY <1>1 DEF Verdict
<1>4. req' = [q \in Request |-> req'[q]]
  BY <1>1 DEF Verdict
<1> HIDE DEF n
<1> QED BY <1>1, <1>2, <1>3, <1>4

LEMMA LookupIInv == ASSUME IInv, NEW r \in Request, Lookup(r) PROVE IInv'
<1>1. /\ req[r].pc = "lookup" /\ req[r] \in Asking /\ req[r].kid \in Kid
      /\ UNCHANGED <<now, published, retiredAt, entry>>
      /\ now \in Nat /\ req \in [Request -> {[pc |-> Idle]} \union Asking]
  BY AskingParts DEF Lookup, IInv, Types, Idle
<1>2. CASE Cached(req[r].kid)
  <2>1. Verdict(r, "accepted")
    BY <1>2 DEF Lookup
  <2>2. /\ req' \in [Request -> {[pc |-> Idle]} \union Asking]
        /\ \A q \in Request : q # r => req'[q] = req[q]
        /\ req'[r].pc = "accepted" /\ req'[r].at = now /\ req'[r].kid = req[r].kid
    BY <1>1, <2>1, VerdictIs
  <2>3. RequestOK(r)'
    BY <1>1, <1>2, <2>2, CachedIs DEF RequestOK
  <2> QED BY <1>1, <2>2, <2>3, OneMoves
<1>3. CASE ~Cached(req[r].kid)
  <2> DEFINE n == [req[r] EXCEPT !.pc = "fetch", !.began = now]
  <2>1. n \in Asking /\ n.pc = "fetch" /\ n.began = now /\ n.kid = req[r].kid
        /\ n.known = req[r].known
    BY <1>1 DEF Asking
  <2>2. req'[r] = n /\ \A q \in Request : q # r => req'[q] = req[q]
    BY <1>1, <1>3 DEF Lookup
  <2>3. req' = [q \in Request |-> req'[q]]
    BY <1>1, <1>3 DEF Lookup
  <2> HIDE DEF n
  <2>4. req' \in [Request -> {[pc |-> Idle]} \union Asking]
    BY <1>1, <2>1, <2>2, <2>3
  <2>5. RequestOK(r)
    BY EachOK
  <2>6. RequestOK(r)'
    BY <1>1, <2>1, <2>2, <2>5, TimesAssumption DEF RequestOK
  <2> QED BY <1>1, <2>2, <2>4, <2>6, OneMoves
<1> QED BY <1>2, <1>3

LEMMA FetchIInv == ASSUME IInv, NEW r \in Request, Fetch(r) PROVE IInv'
<1>1. /\ req[r].pc = "fetch" /\ req[r] \in Asking
      /\ UNCHANGED <<now, published, retiredAt, entry>>
      /\ published \subseteq Kid /\ req[r].began \in Nat /\ now \in Nat
      /\ req \in [Request -> {[pc |-> Idle]} \union Asking]
  BY AskingParts DEF Fetch, IInv, Types, Idle
<1>2. RequestOK(r)
  BY EachOK
<1>3. ASSUME NEW n \in Asking,
             req' = [req EXCEPT ![r] = n],
             \/ /\ n.pc = "store" /\ n.began = req[r].began /\ n.read = published
                /\ n.kid = req[r].kid /\ n.known = req[r].known
             \/ n.pc = "denied" /\ n.failed
      PROVE  IInv'
  <2>1. /\ req' \in [Request -> {[pc |-> Idle]} \union Asking] /\ req'[r] = n
        /\ \A q \in Request : q # r => req'[q] = req[q]
    BY <1>1, <1>3
  <2>2. RequestOK(r)'
    BY <1>1, <1>2, <1>3, <2>1 DEF RequestOK, GoodSince
  <2> QED BY <1>1, <2>1, <2>2, OneMoves
<1>4. CASE req' = [req EXCEPT ![r].pc = "store", ![r].read = published]
  <2> DEFINE n == [req[r] EXCEPT !.pc = "store", !.read = published]
  <2>1. /\ n \in Asking /\ n.pc = "store" /\ n.began = req[r].began /\ n.read = published
        /\ n.kid = req[r].kid /\ n.known = req[r].known
    BY <1>1 DEF Asking
  <2>2. req' = [req EXCEPT ![r] = n]
    BY <1>1, <1>4
  <2> HIDE DEF n
  <2> QED BY <1>3, <2>1, <2>2
<1>5. CASE req' = [req EXCEPT ![r].pc = "denied", ![r].began = 0, ![r].failed = TRUE]
  <2> DEFINE n == [req[r] EXCEPT !.pc = "denied", !.began = 0, !.failed = TRUE]
  <2>1. n \in Asking /\ n.pc = "denied" /\ n.failed
    BY <1>1 DEF Asking
  <2>2. req' = [req EXCEPT ![r] = n]
    BY <1>1, <1>5
  <2> HIDE DEF n
  <2> QED BY <1>3, <2>1, <2>2
<1> QED BY <1>4, <1>5 DEF Fetch

(* The document is stored, over whatever another request has stored since. *)
LEMMA StoreIInv == ASSUME IInv, NEW r \in Request, Store(r) PROVE IInv'
<1>1. /\ req[r].pc = "store" /\ req[r] \in Asking
      /\ UNCHANGED <<now, published, retiredAt>>
      /\ req[r].began \in Nat /\ now \in Nat /\ req[r].read \subseteq Kid
      /\ req \in [Request -> {[pc |-> Idle]} \union Asking]
      /\ entry' = [keys |-> req[r].read, fetchedAt |-> now]
  BY AskingParts DEF Store, IInv, Types, Idle
<1>2. entry'.keys = req[r].read /\ entry'.fetchedAt = now
      /\ entry' \in [keys : SUBSET Kid, fetchedAt : Nat]
  BY <1>1
<1>3. /\ req'[r] \in Asking /\ req'[r].pc = "again"
      /\ req'[r].kid = req[r].kid /\ req'[r].known = req[r].known
  <2>1. req'[r] = [req[r] EXCEPT !.pc = "again"]
    BY DEF Store
  <2> QED BY <1>1, <2>1 DEF Asking
<1>4. ASSUME NEW q \in Request, q # r
      PROVE  \/ req[q].pc # "again" /\ req'[q] = req[q]
             \/ /\ req'[q] \in Asking /\ req'[q].pc = "again" /\ req[q].pc = "again"
                /\ req'[q].kid = req[q].kid /\ req'[q].known = req[q].known
                /\ req'[q].overwritten
  <2>1. req'[q] = IF req[q].pc = "again" THEN [req[q] EXCEPT !.overwritten = TRUE]
                  ELSE req[q]
    BY <1>4 DEF Store
  <2>2. CASE req[q].pc = "again"
    <3>1. req[q] \in Asking
      BY <1>1, <2>2, AskingParts DEF Idle
    <3> QED BY <2>1, <2>2, <3>1 DEF Asking
  <2> QED BY <2>1, <2>2
<1>5. Types'
  <2>1. \A q \in Request : req'[q] \in {[pc |-> Idle]} \union Asking
    BY <1>1, <1>3, <1>4
  <2>2. req' = [q \in Request |-> req'[q]]
    BY DEF Store
  <2> QED BY <1>1, <1>2, <2>1, <2>2 DEF IInv, Types
<1>6. RequestOK(r)
  BY EachOK
<1>7. RequestOK(r)'
  BY <1>1, <1>2, <1>3, <1>6 DEF RequestOK
<1>8. ASSUME NEW q \in Request, q # r PROVE RequestOK(q)'
  <2>1. RequestOK(q)
    BY EachOK
  <2>2. CASE req[q].pc # "again" /\ req'[q] = req[q]
    BY <1>1, <2>1, <2>2 DEF RequestOK, GoodSince
  <2>3. CASE /\ req'[q].pc = "again" /\ req[q].pc = "again"
             /\ req'[q].kid = req[q].kid /\ req'[q].known = req[q].known
             /\ req'[q].overwritten
    BY <1>1, <2>1, <2>3 DEF RequestOK
  <2> QED BY <1>4, <1>8, <2>2, <2>3
<1>9. Timely' /\ InTheDocument' /\ RetiredKeysFade' /\ PublishedKeyAccepted'
  BY <1>1, <1>2, <1>7, <1>8 DEF IInv, RequestOK, Timely, InTheDocument, RetiredKeysFade,
                                PublishedKeyAccepted
<1>10. Fresh'
  <2>1. ASSUME NEW k \in entry'.keys PROVE GoodSince(k, entry.fetchedAt - FetchTime)'
    <3>1. GoodSince(k, req[r].began) /\ k \in Kid /\ now <= req[r].began + FetchTime
      BY <1>1, <1>2, <1>6, <2>1 DEF RequestOK
    <3>2. retiredAt[k] # Never => retiredAt[k] \in Nat
      BY <3>1 DEF IInv, Types
    <3> QED BY <1>1, <1>2, <3>1, <3>2, TimesAssumption DEF GoodSince
  <2>2. \A q \in Request : req'[q].pc = "store" =>
          \A k \in req'[q].read : GoodSince(k, req[q].began)'
    BY <1>7, <1>8 DEF RequestOK, GoodSince
  <2> QED BY <2>1, <2>2 DEF Fresh, GoodSince
<1> QED BY <1>5, <1>9, <1>10 DEF IInv

LEMMA AgainIInv == ASSUME IInv, NEW r \in Request, Again(r) PROVE IInv'
<1>1. /\ req[r].pc = "again" /\ req[r] \in Asking /\ req[r].kid \in Kid
      /\ UNCHANGED <<now, published, retiredAt, entry>> /\ now \in Nat
  BY AskingParts DEF Again, IInv, Types, Idle
<1>2. RequestOK(r)
  BY EachOK
<1>3. CASE Cached(req[r].kid)
  <2>1. Verdict(r, "accepted")
    BY <1>3 DEF Again
  <2>2. /\ req' \in [Request -> {[pc |-> Idle]} \union Asking]
        /\ \A q \in Request : q # r => req'[q] = req[q]
        /\ req'[r].pc = "accepted" /\ req'[r].at = now /\ req'[r].kid = req[r].kid
    BY <1>1, <2>1, VerdictIs
  <2>3. RequestOK(r)'
    BY <1>1, <1>3, <2>2, CachedIs DEF RequestOK
  <2> QED BY <1>1, <2>2, <2>3, OneMoves
<1>4. CASE ~Cached(req[r].kid)
  <2>1. Verdict(r, "denied")
    BY <1>4 DEF Again
  <2>2. /\ req' \in [Request -> {[pc |-> Idle]} \union Asking]
        /\ \A q \in Request : q # r => req'[q] = req[q]
        /\ req'[r].pc = "denied" /\ req'[r].known = req[r].known
        /\ req'[r].overwritten = req[r].overwritten
    BY <1>1, <2>1, VerdictIs
  <2>3. ~req[r].known \/ req[r].overwritten
    BY <1>1, <1>2, <1>4, TimesAssumption DEF RequestOK, Cached
  <2>4. RequestOK(r)'
    BY <1>1, <2>2, <2>3 DEF RequestOK
  <2> QED BY <1>1, <2>2, <2>4, OneMoves
<1> QED BY <1>3, <1>4

LEMMA StepIInv == IInv /\ [Next]_vars => IInv'
<1> SUFFICES ASSUME IInv, [Next]_vars PROVE IInv'
  OBVIOUS
<1>1. CASE UNCHANGED vars
  BY <1>1 DEF vars, IInv, Types, Timely, Fresh, GoodSince, InTheDocument, RetiredKeysFade,
              PublishedKeyAccepted
<1>2. CASE Next
  BY <1>2, TickIInv, PublishIInv, RetireIInv, BeginIInv, LookupIInv, FetchIInv, StoreIInv,
     AgainIInv DEF Next
<1> QED BY <1>1, <1>2

(* The clock, the cache and every request stay well formed, and the documents on
   their way into the cache are as old as the invariant says. *)
THEOREM Invariance == Spec => []IInv
<1> QED BY InitIInv, StepIInv, PTL DEF Spec

(* A token signed with a key its realm has retired is accepted for the TTL and
   one fetch at most, however requests overlap (jwks.go:55-67, 119). *)
THEOREM RetiredKeysAlwaysFade == Spec => []RetiredKeysFade
<1>1. IInv => RetiredKeysFade
  BY DEF IInv
<1> QED BY <1>1, Invariance, PTL

(* A token whose key the realm publishes all along is denied only for a failed
   fetch or an overlapping one (jwks.go:60-66). *)
THEOREM PublishedKeysAccepted == Spec => []PublishedKeyAccepted
<1>1. IInv => PublishedKeyAccepted
  BY DEF IInv
<1> QED BY <1>1, Invariance, PTL
=============================================================================
