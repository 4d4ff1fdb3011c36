------------------------------- MODULE Quota -------------------------------
(***************************************************************************)
(* The quota every tools/call passes first (gateway/internal/quota): calls *)
(* of an organisation and of its users per window of time, counted in each *)
(* replica (WindowLimiter) or in Redis for all replicas (RedisLimiter).    *)
(* The windows are cut out of a replica's own clock, which may be ahead of *)
(* the others' or be set back; Redis expires its counters by its own.      *)
(***************************************************************************)
EXTENDS Integers, FiniteSets

CONSTANTS
    Replica,    \* gateway processes
    Org, User,  \* user ids, which two organisations may both use
    Call,       \* tools/call requests in progress at a time
    Backends,   \* subset of {"memory", "redis"}
    OrgLimit, UserLimit,
    Window,     \* length of a window
    Ahead,      \* what a replica's clock may be ahead of Redis's
    MaxTime,    \* bound on time
    MaxCalls,   \* bound on the number of calls
    MaxFaults,  \* bound on failures of Redis
    MaxSets     \* bound on the times clocks are set

ASSUME QuotaAssumption ==
    /\ OrgLimit \in Nat \ {0} /\ UserLimit \in Nat \ {0}  \* 0 is unlimited
    /\ Window \in Nat \ {0} /\ Ahead \subseteq 0..(Window - 1)
    /\ IsFiniteSet(Replica) /\ MaxTime \in Nat

VARIABLES
    backend, now, ahead,
    bucket,   \* WindowLimiter.buckets of each replica
    counter,  \* the counters in Redis
    call,
    tally,    \* ghost: by limit and window, calls checked, passed, and passed unchecked
    calls, faults, sets

quotaVars == <<backend, now, ahead, bucket, counter, call, tally, calls, faults, sets>>
bounds == <<calls, faults, sets>>

(* What a limit is for: an organisation (user All) or one user of it. *)
All == "all"
Scope == [org : Org, user : User \union {All}]
LimitOf(s) == IF s.user = All THEN OrgLimit ELSE UserLimit

(* The limiter's key of a scope. *)
KeyMutUserOnly(s) == IF s.user = All THEN s ELSE [s EXCEPT !.org = CHOOSE o \in Org : TRUE]
Key(s) == s

Rest == [pc |-> "idle"]
Index == 0..((MaxTime + Window) \div Window)
WindowAt(p) == (now + ahead[p]) \div Window

QuotaInit ==
    /\ backend \in Backends
    /\ now = 0 /\ ahead \in [Replica -> Ahead]
    /\ bucket = [p \in Replica |-> [k \in Scope |-> [start |-> 0, count |-> 0]]]
    /\ counter = [k \in Scope |-> [i \in Index |-> [count |-> 0, until |-> 0]]]
    /\ call = [c \in Call |-> Rest]
    /\ tally = [s \in Scope |-> [i \in Index |-> [asked |-> 0, passed |-> 0, open |-> 0]]]
    /\ calls = 0 /\ faults = 0 /\ sets = 0

-----------------------------------------------------------------------------
(* Time passes, and Redis drops the counters whose TTL is over. *)
Tick ==
    /\ now < MaxTime
    /\ now' = now + 1
    /\ counter' = [k \in Scope |-> [i \in Index |->
                      IF counter[k][i].until <= now + 1 THEN [count |-> 0, until |-> 0]
                      ELSE counter[k][i]]]
    /\ UNCHANGED <<backend, ahead, bucket, call, tally, bounds>>

SetClock(p, a) ==
    /\ sets < MaxSets /\ a # ahead[p]
    /\ ahead' = [ahead EXCEPT ![p] = a]
    /\ sets' = sets + 1
    /\ UNCHANGED <<backend, now, bucket, counter, call, tally, calls, faults>>

-----------------------------------------------------------------------------
(* WindowLimiter.Allow: one step, under the limiter's mutex. *)
MemoryMutNoTruncate(p, s, ok) ==
    LET k == Key(s)
        i == now + ahead[p]
        b == IF bucket[p][k].start = i THEN bucket[p][k] ELSE [start |-> i, count |-> 0]
    IN  /\ ok = (b.count < LimitOf(s))
        /\ bucket' = [bucket EXCEPT ![p][k] = IF ok THEN [b EXCEPT !.count = @ + 1] ELSE b]
        /\ UNCHANGED counter
Memory(p, s, ok) ==
    LET k == Key(s)
        i == WindowAt(p)
        b == IF bucket[p][k].start = i THEN bucket[p][k] ELSE [start |-> i, count |-> 0]
    IN  /\ ok = (b.count < LimitOf(s))
        /\ bucket' = [bucket EXCEPT ![p][k] = IF ok THEN [b EXCEPT !.count = @ + 1] ELSE b]
        /\ UNCHANGED counter

(* The script of RedisLimiter.Allow: one step, in Redis. Calls that are not
   allowed count too, and the first of a counter sets its TTL. *)
IncrExpire(k, i) ==
    counter' = [counter EXCEPT ![k][i].count = @ + 1,
                               ![k][i].until = IF counter[k][i].count = 0 THEN now + Window ELSE @]
Redis(p, s, ok) ==
    LET k == Key(s)
        i == WindowAt(p)
    IN  /\ IncrExpire(k, i)
        /\ ok = (counter[k][i].count + 1 <= LimitOf(s))
        /\ UNCHANGED bucket

(* Redis is away, or its answer comes too late: the call is let through. *)
RedisFails(p, s) ==
    /\ faults < MaxFaults /\ faults' = faults + 1
    /\ counter' = counter \/ IncrExpire(Key(s), WindowAt(p))
    /\ UNCHANGED bucket

(* Allow of one limiter, with the tally of its scope and window. *)
Check(p, s, ok) ==
    LET i == WindowAt(p)
        Add(n, open) == tally' = [tally EXCEPT ![s][i].asked = @ + 1, ![s][i].passed = @ + n,
                                               ![s][i].open = @ + open]
    IN  \/ /\ backend = "memory" /\ Memory(p, s, ok)
           /\ Add(IF ok THEN 1 ELSE 0, 0) /\ UNCHANGED faults
        \/ /\ backend = "redis" /\ Redis(p, s, ok)
           /\ Add(IF ok THEN 1 ELSE 0, 0) /\ UNCHANGED faults
        \/ backend = "redis" /\ ok /\ RedisFails(p, s) /\ Add(0, 1)

-----------------------------------------------------------------------------
(* Enforcer.Allow asks the organisation's limiter ... *)
Deny(c, s) ==
    [pc |-> "denied", excess |-> tally[s][WindowAt(call[c].at)].asked >= LimitOf(s)]

Arrive(c, p, o, u) ==
    /\ call[c].pc \in {"idle", "denied"}
    /\ calls < MaxCalls /\ calls' = calls + 1
    /\ call' = [call EXCEPT ![c] = [pc |-> "org", at |-> p, org |-> o, user |-> u]]
    /\ UNCHANGED <<backend, now, ahead, bucket, counter, tally, faults, sets>>

CheckOrg(c) ==
    /\ call[c].pc = "org"
    /\ LET s == [org |-> call[c].org, user |-> All]
       IN  \E ok \in BOOLEAN :
             /\ Check(call[c].at, s, ok)
             /\ call' = [call EXCEPT ![c] = IF ok THEN [@ EXCEPT !.pc = "user"] ELSE Deny(c, s)]
    /\ UNCHANGED <<backend, now, ahead, calls, sets>>

(* ... and then, maybe in the next window already, the user's. *)
CheckUser(c) ==
    /\ call[c].pc = "user"
    /\ LET s == [org |-> call[c].org, user |-> call[c].user]
       IN  \E ok \in BOOLEAN :
             /\ Check(call[c].at, s, ok)
             /\ call' = [call EXCEPT ![c] = IF ok THEN Rest ELSE Deny(c, s)]
    /\ UNCHANGED <<backend, now, ahead, calls, sets>>

QuotaNext ==
    \/ Tick
    \/ \E p \in Replica, a \in Ahead : SetClock(p, a)
    \/ \E c \in Call : CheckOrg(c) \/ CheckUser(c)
    \/ \E c \in Call, p \in Replica, o \in Org, u \in User : Arrive(c, p, o, u)

QuotaSpec == QuotaInit /\ [][QuotaNext]_quotaVars

-----------------------------------------------------------------------------
(* A window's limit holds for all replicas together with Redis, for each of
   them without, save for the calls a failure of Redis lets through. Clocks
   that are apart, or set, cost one limit more: a counter's TTL runs from its
   first call (redis.go:16), so a replica that is behind may outlive it; a
   bucket whose start differs is dropped, also for an earlier one
   (quota.go:40). *)
Apart == sets > 0 \/ \E p, q \in Replica : ahead[p] # ahead[q]
Times ==
    IF backend = "redis" THEN (IF Apart THEN 2 ELSE 1)
    ELSE Cardinality(Replica) + sets

WithinLimit ==
    \A s \in Scope, i \in Index : tally[s][i].passed <= Times * LimitOf(s)

(* A call is rejected only in a window in which its own organisation, or its
   user in that organisation, has used up the limit with other calls: nobody
   else's calls count. Those that were rejected themselves do count, against
   the organisation also those over their user's limit (quota.go:78). *)
OwnCallsOnly ==
    \A c \in Call : call[c].pc = "denied" => call[c].excess
=============================================================================
