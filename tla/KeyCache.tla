------------------------------ MODULE KeyCache ------------------------------
(***************************************************************************)
(* Token validation at the gateway: RequireAuth asks JWTValidator, which   *)
(* asks JWKSKeySource for the key a token names.  The cache is per issuer, *)
(* and this module is about one issuer: requests that share its entry, the *)
(* realm that publishes and retires keys, and time.  The entry is read and *)
(* written under the mutex, the fetch in between holds no lock.            *)
(***************************************************************************)
EXTENDS Integers, FiniteSets

CONSTANTS
    Request,    \* requests being authenticated at a time
    Kid,        \* the key ids tokens name
    TTL,        \* age up to which an entry is used
    FetchTime,  \* longest fetch: the timeout of the HTTP client
    MaxTime,    \* bound on the clock
    MaxFaults   \* bound on failed fetches

ASSUME TimesAssumption ==
    TTL \in Nat /\ FetchTime \in Nat /\ MaxTime \in Nat /\ MaxFaults \in Nat

VARIABLES
    now,
    published,  \* keys the realm's JWKS document lists
    retiredAt,  \* when the realm retired the others, Never for one not retired
    entry,      \* the cached document and when it was stored
    req,        \* what each request is doing, and the ghosts of its verdict
    faults

vars == <<now, published, retiredAt, entry, req, faults>>

Never == -1
Idle == "idle"
Resting == {Idle, "accepted", "denied"}

Init ==
    /\ now = 0
    /\ published = {} /\ retiredAt = [k \in Kid |-> Never]
    /\ entry = [keys |-> {}, fetchedAt |-> 0]
    /\ req = [r \in Request |-> [pc |-> Idle]]
    /\ faults = 0

-----------------------------------------------------------------------------
(* The realm publishes a key, and takes one back for good. *)
Publish(k) ==
    /\ k \notin published /\ retiredAt[k] = Never
    /\ published' = published \union {k}
    /\ UNCHANGED <<now, retiredAt, entry, req, faults>>

Retire(k) ==
    /\ k \in published
    /\ published' = published \ {k}
    /\ retiredAt' = [retiredAt EXCEPT ![k] = now]
    /\ req' = [r \in Request |->
                  IF req[r].pc \notin Resting /\ req[r].kid = k
                  THEN [req[r] EXCEPT !.known = FALSE] ELSE req[r]]
    /\ UNCHANGED <<now, entry, faults>>

(* Time passes while nobody is about to take a step that takes none, and no
   fetch has used up its timeout. *)
Tick ==
    /\ now < MaxTime
    /\ \A r \in Request :
         /\ req[r].pc # "again"
         /\ req[r].pc \in {"fetch", "store"} => now < req[r].began + FetchTime
    /\ now' = now + 1
    /\ UNCHANGED <<published, retiredAt, entry, req, faults>>

-----------------------------------------------------------------------------
(* A bearer token arrives and names a key. Its claims are checked after the
   signature; what a token denied for them does to the cache, any token does. *)
Begin(r, k) ==
    /\ req[r].pc \in Resting
    /\ req' = [req EXCEPT ![r] =
                  [pc |-> "lookup", kid |-> k, began |-> 0, read |-> {}, at |-> 0,
                   known |-> k \in published, failed |-> FALSE, overwritten |-> FALSE]]
    /\ UNCHANGED <<now, published, retiredAt, entry, faults>>

(* The entry's key, unless the entry is too old. *)
Cached(k) == k \in entry.keys /\ now - entry.fetchedAt <= TTL

(* The key is in hand, and the token's signature verified with it. *)
Verdict(r, pc) ==
    req' = [req EXCEPT ![r].pc = pc, ![r].at = now, ![r].began = 0, ![r].read = {}]

(* KeyFor looks into the cache ... *)
LookupMutTrustEntry(r) ==
    /\ req[r].pc = "lookup"
    /\ IF Cached(req[r].kid) THEN Verdict(r, "accepted")
       ELSE IF entry.keys # {} /\ now - entry.fetchedAt <= TTL THEN Verdict(r, "denied")
       ELSE req' = [req EXCEPT ![r].pc = "fetch", ![r].began = now]
    /\ UNCHANGED <<now, published, retiredAt, entry, faults>>
Lookup(r) ==
    /\ req[r].pc = "lookup"
    /\ IF Cached(req[r].kid) THEN Verdict(r, "accepted")
       ELSE req' = [req EXCEPT ![r].pc = "fetch", ![r].began = now]
    /\ UNCHANGED <<now, published, retiredAt, entry, faults>>

(* ... fetches the realm's document, ... *)
Fetch(r) ==
    /\ req[r].pc = "fetch"
    /\ \/ /\ req' = [req EXCEPT ![r].pc = "store", ![r].read = published]
          /\ UNCHANGED faults
       \/ /\ faults < MaxFaults /\ faults' = faults + 1
          /\ req' = [req EXCEPT ![r].pc = "denied", ![r].began = 0, ![r].failed = TRUE]
    /\ UNCHANGED <<now, published, retiredAt, entry>>

(* ... stores it over whatever another request has stored since, as of now
   rather than of when the realm wrote it, ... *)
StoreMutMerge(r) ==
    /\ req[r].pc = "store"
    /\ entry' = [keys |-> entry.keys \union req[r].read, fetchedAt |-> now]
    /\ req' = [x \in Request |->
                  IF x = r THEN [req[x] EXCEPT !.pc = "again"]
                  ELSE IF req[x].pc = "again" THEN [req[x] EXCEPT !.overwritten = TRUE]
                  ELSE req[x]]
    /\ UNCHANGED <<now, published, retiredAt, faults>>
Store(r) ==
    /\ req[r].pc = "store"
    /\ entry' = [keys |-> req[r].read, fetchedAt |-> now]
    /\ req' = [x \in Request |->
                  IF x = r THEN [req[x] EXCEPT !.pc = "again"]
                  ELSE IF req[x].pc = "again" THEN [req[x] EXCEPT !.overwritten = TRUE]
                  ELSE req[x]]
    /\ UNCHANGED <<now, published, retiredAt, faults>>

(* ... and looks again. *)
Again(r) ==
    /\ req[r].pc = "again"
    /\ Verdict(r, IF Cached(req[r].kid) THEN "accepted" ELSE "denied")
    /\ UNCHANGED <<now, published, retiredAt, entry, faults>>

Next ==
    \/ Tick
    \/ \E k \in Kid : Publish(k) \/ Retire(k) \/ \E r \in Request : Begin(r, k)
    \/ \E r \in Request : Lookup(r) \/ Fetch(r) \/ Store(r) \/ Again(r)

Spec == Init /\ [][Next]_vars

-----------------------------------------------------------------------------
(* A token signed with a key its realm has retired is accepted for the TTL and
   one fetch at most: the fetch counts because an entry's age begins when it is
   stored (jwks.go:119), and a slow fetch may store over a newer document. *)
RetiredKeysFade ==
    \A r \in Request : req[r].pc = "accepted" =>
        LET k == req[r].kid
        IN  \/ k \in published
            \/ retiredAt[k] # Never /\ req[r].at <= retiredAt[k] + TTL + FetchTime

(* A token whose key the realm publishes all along is denied only for a failed
   fetch, or because an overlapping fetch replaced the document between this
   request's store and its second look (jwks.go:60-66). *)
PublishedKeyAccepted ==
    \A r \in Request : req[r].pc = "denied" =>
        ~req[r].known \/ req[r].failed \/ req[r].overwritten
=============================================================================
