-------------------------------- MODULE Pool --------------------------------
(***************************************************************************)
(* The warm pool of sandbox instances                                      *)
(* (services/sandbox-supervisor/internal/pool/pool.go).                    *)
(*                                                                         *)
(* Every method of Pool runs under one mutex, so each is one action. The   *)
(* callers are modelled too: `held' is what a caller believes it owns and  *)
(* `past' the references it kept after giving them back, because what the  *)
(* pool promises is about who may use an instance, not about its own maps. *)
(***************************************************************************)
EXTENDS Integers, Sequences, FiniteSets, Functions

CONSTANTS
    Inst,           \* instances the factory can produce, never the same twice
    Caller,         \* goroutines that acquire and release
    CfgMinWarm,     \* Config.MinWarm as configured
    CfgMaxSize,     \* Config.MaxSize as configured
    IdleTimeout     \* Config.IdleTimeout, in clock ticks

ASSUME PoolAssumption ==
    /\ IsFiniteSet(Inst)
    /\ CfgMinWarm \in Int
    /\ CfgMaxSize \in Int
    /\ IdleTimeout \in Nat

VARIABLES
    warm,      \* Pool.warm: idle instances, the most recently released last
    inUse,     \* keys of Pool.inUse
    idle,      \* how long an instance has been idle: now() - lastUsed
    created,   \* instances the factory has produced
    closed,    \* instances on which Close was called
    held,      \* what each caller acquired and has not released
    past,      \* references a caller kept after releasing them
    stolen     \* instances freed by a caller that no longer owned them

vars == <<warm, inUse, idle, created, closed, held, past, stolen>>

-----------------------------------------------------------------------------
(* New: the configuration is normalised once. *)
MaxSize == IF CfgMaxSize < 1 THEN 1 ELSE CfgMaxSize
MinWarm == IF CfgMinWarm > MaxSize THEN MaxSize ELSE CfgMinWarm

Fresh == Inst \ created
Total == Len(warm) + Cardinality(inUse)
Expired(i) == idle[i] >= IdleTimeout

(* The positions of the warm list that Reap keeps: while the pool is below
   its floor every entry is kept, and after that only the unexpired ones. The
   list is walked from the oldest entry on, and every entry met below the
   floor is kept, so the n-th is below it iff n - 1 + |inUse| < MinWarm. *)
KeptMutLessEq(q) == {n \in DOMAIN q : \/ n + Cardinality(inUse) < MinWarm
                                      \/ ~Expired(q[n])}
Kept(q) == {n \in DOMAIN q : \/ n - 1 + Cardinality(inUse) < MinWarm
                             \/ ~Expired(q[n])}

(* f lists the positions K in increasing order. *)
Lists(f, K) ==
    /\ \A m, n \in DOMAIN f : m < n => f[m] < f[n]
    /\ Range(f) = K

Init ==
    /\ warm = <<>>
    /\ inUse = {}
    /\ idle = [i \in Inst |-> 0]
    /\ created = {}
    /\ closed = {}
    /\ held = [c \in Caller |-> {}]
    /\ past = [c \in Caller |-> {}]
    /\ stolen = {}

-----------------------------------------------------------------------------
(* Prewarm: the loop appends new instances until warm + inUse reaches
   MinWarm; a factory error stops it, leaving what was built so far. *)
Prewarm ==
    /\ Total < MinWarm
    /\ \E k \in 0..(MinWarm - Total) : \E new \in [1..k -> Fresh] :
        /\ IsInjective(new)
        /\ warm' = warm \o new
        /\ created' = created \union Range(new)
        /\ idle' = [i \in Inst |-> IF i \in Range(new) THEN 0 ELSE idle[i]]
    /\ UNCHANGED <<inUse, closed, held, past, stolen>>

HandOut(c, i) ==
    /\ inUse' = inUse \union {i}
    /\ held' = [held EXCEPT ![c] = @ \union {i}]
    /\ past' = [past EXCEPT ![c] = @ \ {i}]
    /\ idle' = [idle EXCEPT ![i] = 0]

(* Acquire with an idle instance: the most recently released one. *)
AcquireWarmMutKeep(c) ==
    /\ warm # <<>>
    /\ HandOut(c, warm[Len(warm)])
    /\ UNCHANGED <<warm, created, closed, stolen>>
AcquireWarm(c) ==
    /\ warm # <<>>
    /\ HandOut(c, warm[Len(warm)])
    /\ warm' = SubSeq(warm, 1, Len(warm) - 1)
    /\ UNCHANGED <<created, closed, stolen>>

(* Acquire with no idle instance, below capacity: a cold start. At capacity
   (ErrExhausted), and when the factory fails, nothing changes. *)
AcquireColdMutAnyFree(c) ==
    /\ Cardinality(inUse) < MaxSize
    /\ \E i \in Fresh : HandOut(c, i) /\ created' = created \union {i}
    /\ UNCHANGED <<warm, closed, stolen>>
AcquireCold(c) ==
    /\ warm = <<>>
    /\ Cardinality(inUse) < MaxSize
    /\ \E i \in Fresh : HandOut(c, i) /\ created' = created \union {i}
    /\ UNCHANGED <<warm, closed, stolen>>

(* The pool's half of Release: an instance it does not know is ignored. *)
GiveBack(i) ==
    IF i \in inUse
    THEN /\ inUse' = inUse \ {i}
         /\ warm' = Append(warm, i)
         /\ idle' = [idle EXCEPT ![i] = 0]
    ELSE UNCHANGED <<inUse, warm, idle>>

(* A caller releases what it holds; after a Close the pool ignores it. *)
Release(c) ==
    \E i \in held[c] :
        /\ GiveBack(i)
        /\ held' = [held EXCEPT ![c] = @ \ {i}]
        /\ past' = [past EXCEPT ![c] = @ \union {i}]
        /\ UNCHANGED <<created, closed, stolen>>

(* A caller releases a second time (a deferred Release after an explicit
   one); the pool cannot tell who is calling, so it ignores the call only if
   nobody has the instance. *)
ReleaseAgain(c) ==
    /\ \E i \in past[c] :
        /\ GiveBack(i)
        /\ stolen' = stolen \union ({i} \intersect inUse)
    /\ UNCHANGED <<created, closed, held, past>>

(* Reap, driven by a ticker. *)
Reap ==
    /\ LET K == Kept(warm) IN
        /\ \E f \in [1..Cardinality(K) -> K] :
              Lists(f, K) /\ warm' = [n \in DOMAIN f |-> warm[f[n]]]
        /\ closed' = closed \union {warm[n] : n \in DOMAIN warm \ K}
    /\ UNCHANGED <<inUse, idle, created, held, past, stolen>>

(* Close: every instance is closed, the maps are reset. There is no closed
   flag, so the pool can be used again afterwards. *)
CloseMutWarmOnly ==
    /\ closed' = closed \union Range(warm)
    /\ warm' = <<>>
    /\ inUse' = {}
    /\ UNCHANGED <<idle, created, held, past, stolen>>
Close ==
    /\ closed' = closed \union Range(warm) \union inUse
    /\ warm' = <<>>
    /\ inUse' = {}
    /\ UNCHANGED <<idle, created, held, past, stolen>>

(* The clock: idle times saturate at IdleTimeout, past which no condition of
   the code can tell them apart. *)
Tick ==
    /\ idle' = [i \in Inst |->
                  IF i \in Range(warm) /\ idle[i] < IdleTimeout
                  THEN idle[i] + 1 ELSE idle[i]]
    /\ UNCHANGED <<warm, inUse, created, closed, held, past, stolen>>

Next ==
    \/ Prewarm
    \/ \E c \in Caller : AcquireWarm(c)
    \/ \E c \in Caller : AcquireCold(c)
    \/ \E c \in Caller : Release(c)
    \/ \E c \in Caller : ReleaseAgain(c)
    \/ Reap
    \/ Close
    \/ Tick

Spec == Init /\ [][Next]_vars

-----------------------------------------------------------------------------
(* Types of the pool's maps and of the callers' bookkeeping. *)
TypeOK ==
    /\ warm \in Seq(Inst)
    /\ inUse \subseteq Inst
    /\ idle \in [Inst -> 0..IdleTimeout]
    /\ created \subseteq Inst
    /\ closed \subseteq created
    /\ held \in [Caller -> SUBSET created]
    /\ past \in [Caller -> SUBSET created]
    /\ stolen \subseteq created

(* Every live instance is in exactly one place: no path of Acquire, Release,
   Reap, Prewarm or Close loses a running sandbox, keeps a closed one, or
   lists one twice (pool.go:85-164). *)
Accounted ==
    /\ Range(warm) \union inUse = created \ closed
    /\ Range(warm) \intersect inUse = {}
    /\ IsInjective(warm)

(* MaxSize is a hard cap on warm + in use, although Acquire compares only
   len(inUse) with it (pool.go:34, the argument of the comment on line 97). *)
Capacity == Total <= MaxSize

(* No instance serves two callers, across every Release, Reap, Close and reuse,
   unless it was freed by a caller that no longer owned it: the double release
   that pool.go:108-109 says is ignored is so only while nobody else has the
   instance (pool.go:85-120). *)
ExclusiveUse ==
    \A c, d \in Caller : c # d => held[c] \intersect held[d] \subseteq stolen

(* The warm list is in order of idle time, oldest first: Acquire's choice of
   its last element is the warmest one, and Reap's walk meets the oldest
   first (pool.go:91, 118-119, 131). *)
WarmOldestFirst ==
    \A m, n \in DOMAIN warm : m < n => idle[warm[m]] >= idle[warm[n]]

(* A reap never takes the pool below MinWarm (or below what it had), and
   closes nothing that has not been idle for IdleTimeout (pool.go:122-142). *)
ReapSparesFloor ==
    [][Reap => /\ Total' >= MinWarm \/ Total' = Total
               /\ \A i \in closed' \ closed : Expired(i)]_vars
=============================================================================
