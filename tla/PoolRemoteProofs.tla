-------------------------- MODULE PoolRemoteProofs --------------------------
(***************************************************************************)
(* Proofs about Pool and about RemoteClient, which share no state and are  *)
(* proved about one after the other.                                       *)
(*                                                                         *)
(* Pool, for any sets of instances and callers and any configuration.  The *)
(* inductive invariant is TypeOK, Accounted and Capacity together: the     *)
(* capacity bound needs Accounted because Acquire relies on "warm is empty *)
(* here", and Accounted needs the types.                                   *)
(*                                                                         *)
(* RemoteClient, for any finite set of calls and any number of expiries    *)
(* and faults.  The inductive invariant, RemoteInv, says of each call what *)
(* it knows of its request and, if no other call disturbed it, of the      *)
(* shared session.                                                         *)
(***************************************************************************)
EXTENDS Pool, RemoteClient, FiniteSetTheorems, SequenceTheorems, NaturalsInduction,
        WellFoundedInduction, TLAPS

IInv == TypeOK /\ Accounted /\ Capacity

(* New's normalisation (pool.go:61-67) yields a capacity of at least one and
   a floor that does not exceed it. *)
LEMMA Config ==
    /\ MaxSize \in Nat /\ MaxSize >= 1
    /\ MinWarm \in Int /\ MinWarm <= MaxSize
BY PoolAssumption DEF MaxSize, MinWarm

(* The pool's occupancy is a number. *)
LEMMA Counts ==
    ASSUME TypeOK
    PROVE  /\ IsFiniteSet(inUse) /\ Cardinality(inUse) \in Nat
           /\ Len(warm) \in Nat /\ DOMAIN warm = 1..Len(warm)
           /\ warm \in [1..Len(warm) -> Inst]
           /\ Total \in Nat
<1>1. IsFiniteSet(inUse) /\ Cardinality(inUse) \in Nat
  BY FS_Subset, FS_CardinalityType, PoolAssumption DEF TypeOK
<1>2. Len(warm) \in Nat /\ DOMAIN warm = 1..Len(warm) /\ warm \in [1..Len(warm) -> Inst]
  BY LenProperties DEF TypeOK
<1> QED BY <1>1, <1>2 DEF Total

(* A set of positions of a list has no more members than the list is long. *)
LEMMA PositionsBound ==
    ASSUME NEW n \in Nat, NEW K \in SUBSET (1..n)
    PROVE  IsFiniteSet(K) /\ Cardinality(K) \in Nat /\ Cardinality(K) <= n
<1>1. IsFiniteSet(1..n) /\ Cardinality(1..n) = n
  BY FS_Interval
<1> QED BY <1>1, FS_Subset, FS_CardinalityType

(* What Reap leaves: the kept entries, in order, and nothing else. *)
LEMMA ReapKeeps ==
    ASSUME IInv, Reap
    PROVE  /\ warm' \in Seq(Inst)
           /\ Len(warm') <= Len(warm)
           /\ Range(warm') = {warm[n] : n \in Kept(warm)}
           /\ IsInjective(warm')
<1> DEFINE K == Kept(warm)
<1>1. /\ Len(warm) \in Nat /\ DOMAIN warm = 1..Len(warm)
      /\ warm \in [1..Len(warm) -> Inst]
  BY Counts DEF IInv
<1>2. K \subseteq 1..Len(warm)
  BY <1>1 DEF Kept
<1>3. Cardinality(K) \in Nat /\ Cardinality(K) <= Len(warm)
  BY <1>1, <1>2, PositionsBound
<1>4. PICK f \in [1..Cardinality(K) -> K] :
         Lists(f, K) /\ warm' = [n \in DOMAIN f |-> warm[f[n]]]
  BY DEF Reap
<1> HIDE DEF K
<1>5. DOMAIN f = 1..Cardinality(K) /\ \A n \in DOMAIN f : f[n] \in K /\ f[n] \in 1..Len(warm)
  BY <1>2, <1>4
<1>6. warm' = [n \in 1..Cardinality(K) |-> warm[f[n]]]
  BY <1>4, <1>5
<1>7. warm' \in Seq(Inst) /\ Len(warm') = Cardinality(K)
  BY <1>1, <1>3, <1>5, <1>6, IsASeq
<1>8. Range(warm') = {warm[n] : n \in K}
  BY <1>4, <1>5, <1>6 DEF Lists, Range
<1>9. \A m, n \in 1..Cardinality(K) : m # n => f[m] # f[n]
  BY <1>1, <1>3, <1>4, <1>5 DEF Lists
<1>10. IsInjective(warm')
  BY <1>5, <1>6, <1>9 DEF IInv, Accounted, IsInjective
<1> QED BY <1>3, <1>7, <1>8, <1>10 DEF K

-----------------------------------------------------------------------------
(* Every action keeps every instance in exactly one place and the total
   within MaxSize. *)
LEMMA InitIInv == Init => IInv
<1> SUFFICES ASSUME Init PROVE IInv
  OBVIOUS
<1> USE PoolAssumption
<1>1. TypeOK
  BY DEF Init, TypeOK
<1>2. Accounted
  BY DEF Init, Accounted, Range, IsInjective
<1>3. Capacity
  BY FS_EmptySet, Config DEF Init, Capacity, Total
<1> QED BY <1>1, <1>2, <1>3 DEF IInv

LEMMA PrewarmIInv == ASSUME IInv, Prewarm PROVE IInv'
<1> USE PoolAssumption
<1>0. TypeOK /\ Accounted /\ Capacity
  BY DEF IInv
<1>1. PICK k \in 0..(MinWarm - Total) : \E new \in [1..k -> Fresh] :
        /\ IsInjective(new)
        /\ warm' = warm \o new
        /\ created' = created \union Range(new)
        /\ idle' = [i \in Inst |-> IF i \in Range(new) THEN 0 ELSE idle[i]]
  BY DEF Prewarm
<1>2. PICK new \in [1..k -> Fresh] :
        /\ IsInjective(new)
        /\ warm' = warm \o new
        /\ created' = created \union Range(new)
        /\ idle' = [i \in Inst |-> IF i \in Range(new) THEN 0 ELSE idle[i]]
  BY <1>1
<1>3. UNCHANGED <<inUse, closed, held, past, stolen>>
  BY DEF Prewarm
<1>4. /\ Len(warm) \in Nat /\ DOMAIN warm = 1..Len(warm)
      /\ Cardinality(inUse) \in Nat /\ Total \in Nat
      /\ \A n \in 1..Len(warm) : warm[n] \in created \ closed /\ warm[n] \notin inUse
  BY <1>0, Counts DEF Accounted, Range
<1>5. k \in Nat /\ k <= MinWarm - Total
  BY <1>4, Config
<1>6. /\ DOMAIN new = 1..k
      /\ \A n \in 1..k : new[n] \in Inst /\ new[n] \notin created
  BY <1>2 DEF Fresh
<1>7. new \in Seq(Inst) /\ Len(new) = k
  <2>1. new = [n \in 1..k |-> new[n]]
    BY <1>2
  <2> QED BY <1>5, <1>6, <2>1, IsASeq
<1>8. /\ warm' \in Seq(Inst) /\ Len(warm') = Len(warm) + k
      /\ \A n \in 1..Len(warm) + k :
           warm'[n] = IF n <= Len(warm) THEN warm[n] ELSE new[n - Len(warm)]
  BY <1>0, <1>2, <1>7, ConcatProperties DEF TypeOK
<1>9. DOMAIN warm' = 1..Len(warm) + k
  BY <1>8, LenProperties
<1>10. Range(warm') = Range(warm) \union Range(new)
  <2>1. \A x \in Range(new) : x \in Range(warm')
    <3> SUFFICES ASSUME NEW n \in 1..k PROVE new[n] \in Range(warm')
      BY <1>6 DEF Range
    <3>1. n + Len(warm) \in 1..Len(warm) + k /\ warm'[n + Len(warm)] = new[n]
      BY <1>4, <1>5, <1>8
    <3> QED BY <1>9, <3>1 DEF Range
  <2>2. \A x \in Range(warm) : x \in Range(warm')
    <3> SUFFICES ASSUME NEW n \in 1..Len(warm) PROVE warm[n] \in Range(warm')
      BY <1>4 DEF Range
    <3>1. n \in 1..Len(warm) + k /\ warm'[n] = warm[n]
      BY <1>4, <1>5, <1>8
    <3> QED BY <1>9, <3>1 DEF Range
  <2>3. \A x \in Range(warm') : x \in Range(warm) \union Range(new)
    <3> SUFFICES ASSUME NEW n \in 1..Len(warm) + k
                 PROVE  warm'[n] \in Range(warm) \union Range(new)
      BY <1>9 DEF Range
    <3>1. CASE n <= Len(warm)
      BY <1>4, <1>5, <1>8, <3>1 DEF Range
    <3>2. CASE ~(n <= Len(warm))
      <4>1. n - Len(warm) \in 1..k /\ warm'[n] = new[n - Len(warm)]
        BY <1>4, <1>5, <1>8, <3>2
      <4> QED BY <1>6, <4>1 DEF Range
    <3> QED BY <3>1, <3>2
  <2> QED BY <2>1, <2>2, <2>3
<1>11. Range(new) \subseteq Inst /\ Range(new) \intersect created = {}
  BY <1>6 DEF Range
<1>12. TypeOK'
  BY <1>0, <1>2, <1>3, <1>8, <1>11 DEF TypeOK
<1>13. Accounted'
  <2>1. (Range(warm) \union inUse = created \ closed)'
    BY <1>0, <1>2, <1>3, <1>10, <1>11 DEF Accounted, TypeOK
  <2>2. (Range(warm) \intersect inUse = {})'
    BY <1>0, <1>3, <1>10, <1>11 DEF Accounted
  <2>3. IsInjective(warm)'
    <3> SUFFICES ASSUME NEW m \in 1..Len(warm) + k, NEW n \in 1..Len(warm) + k,
                        warm'[m] = warm'[n]
                 PROVE  m = n
      BY <1>9 DEF IsInjective
    <3>1. CASE m <= Len(warm) /\ n <= Len(warm)
      BY <1>0, <1>4, <1>8, <3>1 DEF Accounted, IsInjective
    <3>2. CASE ~(m <= Len(warm)) /\ ~(n <= Len(warm))
      <4>1. /\ m - Len(warm) \in 1..k /\ warm'[m] = new[m - Len(warm)]
            /\ n - Len(warm) \in 1..k /\ warm'[n] = new[n - Len(warm)]
        BY <1>4, <1>5, <1>8, <3>2
      <4>2. m - Len(warm) = n - Len(warm)
        BY <1>2, <1>6, <4>1 DEF IsInjective
      <4> QED BY <1>4, <4>2
    <3>3. CASE (m <= Len(warm)) # (n <= Len(warm))
      <4>1. \A p, q \in 1..Len(warm) + k :
               p <= Len(warm) /\ ~(q <= Len(warm)) => warm'[p] # warm'[q]
        <5> SUFFICES ASSUME NEW p \in 1..Len(warm) + k, NEW q \in 1..Len(warm) + k,
                            p <= Len(warm), ~(q <= Len(warm))
                     PROVE  warm'[p] # warm'[q]
          OBVIOUS
        <5>1. p \in 1..Len(warm) /\ warm'[p] = warm[p] /\ warm[p] \in created
          BY <1>4, <1>5, <1>8
        <5>2. q - Len(warm) \in 1..k /\ warm'[q] = new[q - Len(warm)]
          BY <1>4, <1>5, <1>8
        <5> QED BY <1>6, <5>1, <5>2
      <4> QED BY <3>3, <4>1
    <3> QED BY <3>1, <3>2, <3>3
  <2> QED BY <2>1, <2>2, <2>3 DEF Accounted
<1>14. Capacity'
  BY <1>3, <1>4, <1>5, <1>8, Config DEF Capacity, Total
<1> QED BY <1>12, <1>13, <1>14 DEF IInv

LEMMA AcquireWarmIInv == ASSUME IInv, NEW c \in Caller, AcquireWarm(c) PROVE IInv'
<1> USE PoolAssumption
<1>0. TypeOK /\ Accounted /\ Capacity /\ warm # <<>>
  BY DEF IInv, AcquireWarm
<1> DEFINE L == Len(warm)
           i == warm[L]
<1>1. /\ L \in Nat /\ DOMAIN warm = 1..L
      /\ IsFiniteSet(inUse) /\ Cardinality(inUse) \in Nat
      /\ \A n \in 1..L : warm[n] \in Inst /\ warm[n] \in created \ closed /\ warm[n] \notin inUse
  BY <1>0, Counts DEF Accounted, Range, TypeOK
<1>2. L >= 1
  BY <1>0, EmptySeq DEF TypeOK
<1>3. /\ inUse' = inUse \union {i}
      /\ held' = [held EXCEPT ![c] = @ \union {i}]
      /\ past' = [past EXCEPT ![c] = @ \ {i}]
      /\ idle' = [idle EXCEPT ![i] = 0]
      /\ warm' = SubSeq(warm, 1, L - 1)
      /\ UNCHANGED <<created, closed, stolen>>
  BY DEF AcquireWarm, HandOut
<1> HIDE DEF L
<1>4. /\ warm' \in Seq(Inst) /\ Len(warm') = L - 1
      /\ \A n \in 1..L - 1 : warm'[n] = warm[n]
  BY <1>1, <1>2, <1>3, SubSeqProperties, Z3
<1>5. DOMAIN warm' = 1..L - 1
  BY <1>4, LenProperties
<1>6. i \in Inst /\ i \in created \ closed /\ i \notin inUse
  BY <1>1, <1>2
<1>7. Range(warm') = Range(warm) \ {i}
  <2>1. \A n \in 1..L : n # L => warm[n] # i
    BY <1>0, <1>1, <1>2 DEF Accounted, IsInjective
  <2>2. \A n \in 1..L : n \in 1..L - 1 <=> n # L
    BY <1>1, <1>2
  <2> QED BY <1>1, <1>4, <1>5, <2>1, <2>2 DEF Range
<1>8. i \in Range(warm)
  BY <1>1, <1>2 DEF Range
<1> HIDE DEF i
<1>9. TypeOK'
  BY <1>0, <1>3, <1>4, <1>6 DEF TypeOK
<1>10. Accounted'
  <2>1. IsInjective(warm)'
    BY <1>0, <1>1, <1>4, <1>5 DEF Accounted, IsInjective
  <2> QED BY <1>0, <1>3, <1>6, <1>7, <1>8, <2>1 DEF Accounted
<1>11. Capacity'
  <2>1. Cardinality(inUse') = Cardinality(inUse) + 1
    BY <1>1, <1>3, <1>6, FS_AddElement
  <2> QED BY <1>0, <1>1, <1>4, <2>1, Config DEF Capacity, Total, L
<1> QED BY <1>9, <1>10, <1>11 DEF IInv

(* Here the capacity test and "warm is empty" meet (pool.go:97). *)
LEMMA AcquireColdIInv == ASSUME IInv, NEW c \in Caller, AcquireCold(c) PROVE IInv'
<1> USE PoolAssumption
<1>0. TypeOK /\ Accounted /\ Capacity /\ warm = <<>> /\ Cardinality(inUse) < MaxSize
  BY DEF IInv, AcquireCold
<1>1. PICK i \in Fresh : HandOut(c, i) /\ created' = created \union {i}
  BY DEF AcquireCold
<1>2. /\ inUse' = inUse \union {i}
      /\ held' = [held EXCEPT ![c] = @ \union {i}]
      /\ past' = [past EXCEPT ![c] = @ \ {i}]
      /\ idle' = [idle EXCEPT ![i] = 0]
      /\ warm' = warm /\ closed' = closed /\ stolen' = stolen
  BY <1>1 DEF AcquireCold, HandOut
<1>3. i \in Inst /\ i \notin created /\ i \notin inUse /\ i \notin closed
  BY <1>0, <1>1 DEF Fresh, Accounted, TypeOK
<1>4. TypeOK'
  BY <1>0, <1>1, <1>2, <1>3 DEF TypeOK
<1>5. Accounted'
  BY <1>0, <1>1, <1>2, <1>3 DEF Accounted, TypeOK, Range
<1>6. Capacity'
  <2>1. IsFiniteSet(inUse) /\ Cardinality(inUse) \in Nat
    BY <1>0, Counts
  <2>2. Cardinality(inUse') = Cardinality(inUse) + 1
    BY <1>2, <1>3, <2>1, FS_AddElement
  <2> QED BY <1>0, <1>2, <2>1, <2>2, Config DEF Capacity, Total
<1> QED BY <1>4, <1>5, <1>6 DEF IInv

(* What GiveBack does to the pool, for a first or a repeated release. *)
LEMMA GiveBackPool ==
    ASSUME IInv, NEW i \in Inst, GiveBack(i), UNCHANGED <<created, closed>>
    PROVE  /\ warm' \in Seq(Inst) /\ inUse' \subseteq Inst
           /\ idle' \in [Inst -> 0..IdleTimeout]
           /\ Accounted' /\ Capacity'
<1> USE PoolAssumption
<1>0. TypeOK /\ Accounted /\ Capacity
  BY DEF IInv
<1>1. CASE i \notin inUse
  BY <1>0, <1>1 DEF GiveBack, TypeOK, Accounted, Capacity, Total
<1>2. CASE i \in inUse
  <2> DEFINE L == Len(warm)
  <2>1. inUse' = inUse \ {i} /\ warm' = Append(warm, i) /\ idle' = [idle EXCEPT ![i] = 0]
    BY <1>2 DEF GiveBack
  <2>2. /\ L \in Nat /\ DOMAIN warm = 1..L
        /\ IsFiniteSet(inUse) /\ Cardinality(inUse) \in Nat
        /\ \A n \in 1..L : warm[n] \notin inUse
    BY <1>0, Counts DEF Accounted, Range
  <2>3. /\ warm' \in Seq(Inst) /\ Len(warm') = L + 1
        /\ \A n \in 1..L : warm'[n] = warm[n]
        /\ warm'[L + 1] = i
    BY <1>0, <2>1, AppendProperties DEF TypeOK
  <2>4. DOMAIN warm' = 1..L + 1
    BY <2>3, LenProperties
  <2> HIDE DEF L
  <2>5. \A n \in 1..L + 1 : n \in 1..L \/ n = L + 1
    BY <2>2
  <2>6. 1..L \subseteq 1..L + 1 /\ L + 1 \in 1..L + 1
    BY <2>2
  <2>7. Range(warm') = Range(warm) \union {i}
    <3>1. \A x \in Range(warm') : x \in Range(warm) \union {i}
      BY <2>2, <2>3, <2>4, <2>5 DEF Range
    <3>2. \A x \in Range(warm) \union {i} : x \in Range(warm')
      BY <2>2, <2>3, <2>4, <2>6 DEF Range
    <3> QED BY <3>1, <3>2
  <2>8. IsInjective(warm)'
    BY <1>0, <1>2, <2>2, <2>3, <2>4, <2>5 DEF Accounted, IsInjective
  <2>9. Accounted'
    BY <1>0, <1>2, <2>1, <2>7, <2>8 DEF Accounted
  <2>10. Cardinality(inUse') = Cardinality(inUse) - 1
    BY <1>2, <2>1, <2>2, FS_RemoveElement
  <2>11. Capacity'
    BY <1>0, <2>2, <2>3, <2>10, Config DEF Capacity, Total, L
  <2> QED BY <1>0, <2>1, <2>3, <2>9, <2>11 DEF TypeOK
<1> QED BY <1>1, <1>2

LEMMA ReleaseIInv == ASSUME IInv, NEW c \in Caller, Release(c) PROVE IInv'
<1> USE PoolAssumption
<1>1. PICK i \in held[c] :
        /\ GiveBack(i)
        /\ held' = [held EXCEPT ![c] = @ \ {i}]
        /\ past' = [past EXCEPT ![c] = @ \union {i}]
        /\ UNCHANGED <<created, closed, stolen>>
  BY DEF Release
<1>2. TypeOK /\ i \in created /\ i \in Inst
  BY DEF IInv, TypeOK
<1>3. TypeOK'
  BY <1>1, <1>2, GiveBackPool DEF TypeOK
<1> QED BY <1>1, <1>2, <1>3, GiveBackPool DEF IInv

LEMMA ReleaseAgainIInv == ASSUME IInv, NEW c \in Caller, ReleaseAgain(c) PROVE IInv'
<1> USE PoolAssumption
<1>1. PICK i \in past[c] : GiveBack(i) /\ stolen' = stolen \union ({i} \intersect inUse)
  BY DEF ReleaseAgain
<1>2. UNCHANGED <<created, closed, held, past>>
  BY DEF ReleaseAgain
<1>3. TypeOK /\ i \in Inst /\ i \in created
  BY DEF IInv, TypeOK
<1>4. TypeOK'
  BY <1>1, <1>2, <1>3, GiveBackPool DEF TypeOK
<1> QED BY <1>1, <1>2, <1>3, <1>4, GiveBackPool DEF IInv

LEMMA ReapIInv == ASSUME IInv, Reap PROVE IInv'
<1> USE PoolAssumption
<1>0. TypeOK /\ Accounted /\ Capacity
  BY DEF IInv
<1> DEFINE K == Kept(warm)
<1>1. /\ warm' \in Seq(Inst) /\ Len(warm') <= Len(warm)
      /\ Range(warm') = {warm[n] : n \in K} /\ IsInjective(warm')
  BY ReapKeeps
<1>2. closed' = closed \union {warm[n] : n \in DOMAIN warm \ K}
  BY DEF Reap
<1>3. UNCHANGED <<inUse, idle, created, held, past, stolen>>
  BY DEF Reap
<1>4. K \subseteq DOMAIN warm
  BY DEF Kept
<1> HIDE DEF K
<1>5. Range(warm) = {warm[n] : n \in K} \union {warm[n] : n \in DOMAIN warm \ K}
  BY <1>4 DEF Range
<1>6. {warm[n] : n \in K} \intersect {warm[n] : n \in DOMAIN warm \ K} = {}
  BY <1>0, <1>4 DEF Accounted, IsInjective
<1>7. TypeOK'
  BY <1>0, <1>1, <1>2, <1>3, <1>5 DEF TypeOK, Accounted
<1>8. Accounted'
  <2>1. (Range(warm) \union inUse)' = (created \ closed)'
    <3>1. inUse \intersect {warm[n] : n \in DOMAIN warm \ K} = {}
      BY <1>0, <1>5 DEF Accounted
    <3>2. created \ closed = {warm[n] : n \in K} \union {warm[n] : n \in DOMAIN warm \ K}
                               \union inUse
      BY <1>0, <1>5 DEF Accounted
    <3> QED BY <1>1, <1>2, <1>3, <1>6, <3>1, <3>2
  <2> QED BY <1>0, <1>1, <1>3, <1>5, <2>1 DEF Accounted
<1>9. Capacity'
  <2>1. Len(warm') \in Nat /\ Len(warm) \in Nat /\ Cardinality(inUse) \in Nat
    BY <1>0, <1>1, Counts, LenProperties
  <2> QED BY <1>0, <1>1, <1>3, <2>1, Config DEF Capacity, Total
<1> QED BY <1>7, <1>8, <1>9 DEF IInv

LEMMA CloseIInv == ASSUME IInv, Close PROVE IInv'
<1> USE PoolAssumption
<1>0. TypeOK /\ Accounted /\ Capacity
  BY DEF IInv
<1>1. /\ closed' = closed \union Range(warm) \union inUse
      /\ warm' = <<>> /\ inUse' = {}
      /\ UNCHANGED <<idle, created, held, past, stolen>>
  BY DEF Close
<1>2. TypeOK'
  BY <1>0, <1>1, EmptySeq DEF TypeOK, Accounted
<1>3. Accounted'
  <2>1. Range(<<>>) = {} /\ IsInjective(<<>>)
    BY DEF Range, IsInjective
  <2> QED BY <1>0, <1>1, <2>1 DEF Accounted
<1>4. Capacity'
  BY <1>1, FS_EmptySet, Config DEF Capacity, Total
<1> QED BY <1>2, <1>3, <1>4 DEF IInv

LEMMA TickIInv == ASSUME IInv, Tick PROVE IInv'
<1> USE PoolAssumption
<1>1. TypeOK'
  BY DEF IInv, TypeOK, Tick
<1> QED BY <1>1 DEF IInv, Tick, Accounted, Capacity, Total

LEMMA StepIInv == IInv /\ [Next]_vars => IInv'
<1> SUFFICES ASSUME IInv, [Next]_vars PROVE IInv'
  OBVIOUS
<1>1. CASE Prewarm
  BY <1>1, PrewarmIInv
<1>2. ASSUME NEW c \in Caller, AcquireWarm(c) PROVE IInv'
  BY <1>2, AcquireWarmIInv
<1>3. ASSUME NEW c \in Caller, AcquireCold(c) PROVE IInv'
  BY <1>3, AcquireColdIInv
<1>4. ASSUME NEW c \in Caller, Release(c) PROVE IInv'
  BY <1>4, ReleaseIInv
<1>5. ASSUME NEW c \in Caller, ReleaseAgain(c) PROVE IInv'
  BY <1>5, ReleaseAgainIInv
<1>6. CASE Reap
  BY <1>6, ReapIInv
<1>7. CASE Close
  BY <1>7, CloseIInv
<1>8. CASE Tick
  BY <1>8, TickIInv
<1>9. CASE UNCHANGED vars
  BY <1>9 DEF vars, IInv, TypeOK, Accounted, Capacity, Total
<1> QED BY <1>1, <1>2, <1>3, <1>4, <1>5, <1>6, <1>7, <1>8, <1>9 DEF Next

(* The inductive invariant holds of every behaviour, with callers that
   release once or again (pool.go:60-164). *)
THEOREM Invariance == Spec => []IInv
BY InitIInv, StepIInv, PTL DEF Spec

(* The pool's maps and the callers' references keep their types
   (pool.go:45-51). *)
THEOREM TypeCorrect == Spec => []TypeOK
<1>1. IInv => TypeOK
  BY DEF IInv
<1> QED BY <1>1, Invariance, PTL

(* No path of Acquire, Release, Reap, Prewarm or Close loses a running
   sandbox, keeps a closed one, or lists one twice (pool.go:71-164). *)
THEOREM AccountedAlways == Spec => []Accounted
<1>1. IInv => Accounted
  BY DEF IInv
<1> QED BY <1>1, Invariance, PTL

(* MaxSize bounds warm + in use, whatever the callers do (pool.go:34, 97). *)
THEOREM CapacityAlways == Spec => []Capacity
<1>1. IInv => Capacity
  BY DEF IInv
<1> QED BY <1>1, Invariance, PTL

-----------------------------------------------------------------------------
(* Exclusive use needs one more fact: what a caller holds is not idle in the
   pool, so that it is not handed out again, unless it was stolen. *)
Exclusive ==
    /\ ExclusiveUse
    /\ \A c \in Caller : held[c] \intersect Range(warm) \subseteq stolen

LEMMA ExclusiveStep ==
    ASSUME IInv, IInv', Exclusive, [Next]_vars
    PROVE  Exclusive'
<1> USE PoolAssumption DEF Exclusive, ExclusiveUse
<1>0. TypeOK /\ Accounted /\ TypeOK' /\ Accounted'
  BY DEF IInv
<1>1. ASSUME UNCHANGED held, stolen \subseteq stolen',
             \A c \in Caller : held[c] \intersect Range(warm') \subseteq stolen'
      PROVE  Exclusive'
  BY <1>1
<1>2. CASE Prewarm
  <2>1. UNCHANGED <<held, inUse, closed, stolen>>
    BY <1>2 DEF Prewarm
  <2>2. \A x \in Range(warm') : x \in Range(warm) \/ x \in Fresh
    <3>1. PICK k \in 0..(MinWarm - Total) : \E new \in [1..k -> Fresh] :
            /\ warm' = warm \o new /\ created' = created \union Range(new)
      BY <1>2 DEF Prewarm
    <3>2. PICK new \in [1..k -> Fresh] :
            warm' = warm \o new /\ created' = created \union Range(new)
      BY <3>1
    <3>3. Range(new) \subseteq Fresh
      BY <3>2 DEF Range
    <3> QED BY <1>0, <2>1, <3>2, <3>3 DEF Accounted, Fresh
  <2>3. \A c \in Caller : held[c] \subseteq created
    BY <1>0 DEF TypeOK
  <2> QED BY <1>1, <2>1, <2>2, <2>3 DEF Fresh
<1>3. ASSUME NEW c \in Caller, AcquireWarm(c) PROVE Exclusive'
  <2> DEFINE i == warm[Len(warm)]
  <2>1. held' = [held EXCEPT ![c] = @ \union {i}] /\ inUse' = inUse \union {i}
        /\ UNCHANGED <<created, closed, stolen>>
    BY <1>3 DEF AcquireWarm, HandOut
  <2>2. Len(warm) \in DOMAIN warm
    BY <1>0, <1>3, EmptySeq, LenProperties DEF AcquireWarm, TypeOK
  <2>3. i \in Range(warm)
    BY <2>2 DEF Range
  <2>4. i \notin Range(warm') /\ Range(warm') \subseteq Range(warm)
    BY <1>0, <2>1, <2>3 DEF Accounted
  <2> HIDE DEF i
  <2>5. \A d \in Caller : held'[d] = IF d = c THEN held[c] \union {i} ELSE held[d]
    BY <1>0, <2>1 DEF TypeOK
  <2> QED BY <2>1, <2>3, <2>4, <2>5
<1>4. ASSUME NEW c \in Caller, AcquireCold(c) PROVE Exclusive'
  <2>1. PICK i \in Fresh : HandOut(c, i)
    BY <1>4 DEF AcquireCold
  <2>2. /\ warm' = <<>> /\ stolen' = stolen
        /\ \A d \in Caller : held[d] \subseteq created
    BY <1>0, <1>4 DEF AcquireCold, TypeOK
  <2>3. Range(warm') = {}
    BY <2>2 DEF Range
  <2>4. \A d \in Caller : held'[d] = IF d = c THEN held[c] \union {i} ELSE held[d]
    BY <1>0, <2>1 DEF TypeOK, HandOut
  <2> QED BY <2>1, <2>2, <2>3, <2>4 DEF Fresh
<1>5. ASSUME NEW i \in Inst, GiveBack(i), UNCHANGED <<created, closed>>
      PROVE  Range(warm') \subseteq Range(warm) \union ({i} \intersect inUse)
  <2>1. CASE i \in inUse
    <3>1. inUse' = inUse \ {i}
      BY <1>5, <2>1 DEF GiveBack
    <3> QED BY <1>0, <1>5, <2>1, <3>1 DEF Accounted
  <2>2. CASE i \notin inUse
    BY <1>5, <2>2 DEF GiveBack
  <2> QED BY <2>1, <2>2
<1>6. ASSUME NEW c \in Caller, Release(c) PROVE Exclusive'
  <2>1. PICK i \in held[c] : GiveBack(i) /\ held' = [held EXCEPT ![c] = @ \ {i}]
    BY <1>6 DEF Release
  <2>2. UNCHANGED <<created, closed, stolen>> /\ i \in Inst
    BY <1>0, <1>6 DEF Release, TypeOK
  <2>3. \A d \in Caller : held'[d] = IF d = c THEN held[c] \ {i} ELSE held[d]
    BY <1>0, <2>1 DEF TypeOK
  <2>4. Range(warm') \subseteq Range(warm) \union {i}
    BY <1>5, <2>1, <2>2
  <2> QED BY <2>1, <2>2, <2>3, <2>4
<1>7. ASSUME NEW c \in Caller, ReleaseAgain(c) PROVE Exclusive'
  <2>1. PICK i \in past[c] : GiveBack(i) /\ stolen' = stolen \union ({i} \intersect inUse)
    BY <1>7 DEF ReleaseAgain
  <2>2. UNCHANGED <<created, closed, held>> /\ i \in Inst
    BY <1>0, <1>7 DEF ReleaseAgain, TypeOK
  <2>3. Range(warm') \subseteq Range(warm) \union ({i} \intersect inUse)
    BY <1>5, <2>1, <2>2
  <2> QED BY <1>1, <2>1, <2>2, <2>3
<1>8. CASE Reap
  <2>1. Range(warm') \subseteq Range(warm)
    <3>1. Kept(warm) \subseteq DOMAIN warm
      BY DEF Kept
    <3> QED BY <1>8, <3>1, ReapKeeps DEF Range
  <2> QED BY <1>1, <1>8, <2>1 DEF Reap
<1>9. CASE Close
  <2>1. Range(warm') = {} /\ UNCHANGED <<held, stolen>>
    BY <1>9 DEF Close, Range
  <2> QED BY <1>1, <2>1
<1>10. CASE Tick
  BY <1>10 DEF Tick
<1>11. CASE UNCHANGED vars
  BY <1>11 DEF vars
<1> QED BY <1>2, <1>3, <1>4, <1>6, <1>7, <1>8, <1>9, <1>10, <1>11 DEF Next

(* No instance ever serves two callers, through reuse, reaping and Close, but
   one that a caller without it gave back (pool.go:85-120). *)
THEOREM ExclusiveUseAlways == Spec => []ExclusiveUse
<1>1. Init => Exclusive
  BY DEF Init, Exclusive, ExclusiveUse
<1>2. Exclusive /\ IInv /\ IInv' /\ [Next]_vars => Exclusive'
  BY ExclusiveStep
<1>3. Exclusive => ExclusiveUse
  BY DEF Exclusive
<1> QED BY <1>1, <1>2, <1>3, Invariance, PTL DEF Spec

-----------------------------------------------------------------------------
(* The order of the warm list survives every step that keeps a prefix of it as
   it was and puts only instances that are not idle yet behind it. *)
LEMMA OrderKept ==
    ASSUME TypeOK, TypeOK', WarmOldestFirst,
           \A n \in DOMAIN warm' :
              IF n <= Len(warm)
              THEN warm'[n] = warm[n] /\ idle'[warm[n]] = idle[warm[n]]
              ELSE idle'[warm'[n]] = 0
    PROVE  WarmOldestFirst'
<1> SUFFICES ASSUME NEW m \in DOMAIN warm', NEW n \in DOMAIN warm', m < n
             PROVE  idle'[warm'[m]] >= idle'[warm'[n]]
  BY DEF WarmOldestFirst
<1>1. /\ DOMAIN warm = 1..Len(warm) /\ DOMAIN warm' = 1..Len(warm')
      /\ Len(warm) \in Nat /\ Len(warm') \in Nat
      /\ warm'[m] \in Inst
  BY LenProperties, ElementOfSeq DEF TypeOK
<1>2. CASE n <= Len(warm)
  BY <1>1, <1>2 DEF WarmOldestFirst
<1>3. CASE ~(n <= Len(warm))
  <2>1. idle'[warm'[n]] = 0 /\ idle'[warm'[m]] \in 0..IdleTimeout
    BY <1>1, <1>3 DEF TypeOK
  <2> QED BY <2>1, PoolAssumption
<1> QED BY <1>2, <1>3

LEMMA OrderStep ==
    ASSUME IInv, IInv', WarmOldestFirst, [Next]_vars
    PROVE  WarmOldestFirst'
<1> USE PoolAssumption
<1>0. /\ TypeOK /\ TypeOK' /\ Accounted /\ Accounted'
      /\ Len(warm) \in Nat /\ DOMAIN warm = 1..Len(warm)
  BY Counts DEF IInv
<1>1. CASE Prewarm
  <2>1. PICK k \in 0..(MinWarm - Total) : \E new \in [1..k -> Fresh] :
          /\ warm' = warm \o new
          /\ idle' = [i \in Inst |-> IF i \in Range(new) THEN 0 ELSE idle[i]]
    BY <1>1 DEF Prewarm
  <2>2. PICK new \in [1..k -> Fresh] :
          /\ warm' = warm \o new
          /\ idle' = [i \in Inst |-> IF i \in Range(new) THEN 0 ELSE idle[i]]
    BY <2>1
  <2>3. k \in Nat /\ DOMAIN new = 1..k
        /\ \A n \in 1..k : new[n] \in Inst /\ new[n] \in Range(new)
    <3>1. Total \in Nat /\ MinWarm \in Int
      BY <1>0, Counts, Config
    <3> QED BY <2>2, <3>1 DEF Fresh, Range
  <2>4. new \in Seq(Inst) /\ Len(new) = k
    <3>1. new = [n \in 1..k |-> new[n]]
      BY <2>2
    <3> QED BY <2>3, <3>1, IsASeq
  <2>5. /\ warm' \in Seq(Inst) /\ Len(warm') = Len(warm) + k
        /\ \A n \in 1..Len(warm) + k :
             warm'[n] = IF n <= Len(warm) THEN warm[n] ELSE new[n - Len(warm)]
    BY <1>0, <2>2, <2>4, ConcatProperties DEF TypeOK
  <2>6. DOMAIN warm' = 1..Len(warm) + k
    BY <2>5, LenProperties
  <2>7. \A n \in 1..Len(warm) : warm[n] \in Inst /\ warm[n] \notin Range(new)
    <3>1. \A n \in 1..Len(warm) : warm[n] \in created /\ warm[n] \in Inst
      BY <1>0 DEF Accounted, Range, TypeOK
    <3> QED BY <2>2, <3>1 DEF Fresh, Range
  <2>8. ASSUME NEW n \in DOMAIN warm'
        PROVE  IF n <= Len(warm)
               THEN warm'[n] = warm[n] /\ idle'[warm[n]] = idle[warm[n]]
               ELSE idle'[warm'[n]] = 0
    <3>1. CASE n <= Len(warm)
      <4>1. n \in 1..Len(warm) /\ warm'[n] = warm[n]
        BY <1>0, <2>3, <2>5, <2>6, <2>8, <3>1
      <4> QED BY <2>2, <2>7, <3>1, <4>1
    <3>2. CASE ~(n <= Len(warm))
      <4>1. n - Len(warm) \in 1..k /\ warm'[n] = new[n - Len(warm)]
        BY <1>0, <2>3, <2>5, <2>6, <2>8, <3>2
      <4> QED BY <2>2, <2>3, <3>2, <4>1
    <3> QED BY <3>1, <3>2
  <2> QED BY <1>0, <2>8, OrderKept
<1>2. ASSUME NEW c \in Caller, AcquireWarm(c) PROVE WarmOldestFirst'
  <2> DEFINE L == Len(warm)
             i == warm[L]
  <2>1. warm' = SubSeq(warm, 1, L - 1) /\ idle' = [idle EXCEPT ![i] = 0] /\ L >= 1
    <3>1. warm # <<>> /\ warm \in Seq(Inst)
      BY <1>0, <1>2 DEF AcquireWarm, TypeOK
    <3>2. L >= 1
      BY <1>0, <3>1, EmptySeq
    <3> QED BY <1>2, <3>2 DEF AcquireWarm, HandOut
  <2>2. Len(warm') = L - 1 /\ \A n \in 1..L - 1 : warm'[n] = warm[n]
    BY <1>0, <2>1, SubSeqProperties, Z3 DEF TypeOK
  <2>3. DOMAIN warm' = 1..L - 1
    BY <1>0, <2>2, LenProperties DEF TypeOK
  <2>4. \A n \in 1..L - 1 : n \in 1..L /\ n <= L /\ n # L
    <3>1. L \in Nat
      BY <1>0
    <3> HIDE DEF L
    <3> QED BY <3>1
  <2>5. \A n \in 1..L - 1 : warm[n] # i
    <3>1. DOMAIN warm = 1..L /\ L \in 1..L /\ IsInjective(warm)
      BY <1>0, <2>1 DEF Accounted
    <3> HIDE DEF L
    <3> QED BY <2>4, <3>1 DEF IsInjective
  <2>6. idle \in [Inst -> 0..IdleTimeout] /\ \A n \in 1..L : warm[n] \in Inst
    BY <1>0 DEF TypeOK
  <2> HIDE DEF i, L
  <2>7. \A n \in 1..L - 1 : idle'[warm[n]] = idle[warm[n]]
    BY <2>1, <2>4, <2>5, <2>6
  <2> QED BY <1>0, <2>2, <2>3, <2>4, <2>7, OrderKept DEF L
<1>3. ASSUME warm' = <<>> PROVE WarmOldestFirst'
  BY <1>3 DEF WarmOldestFirst
<1>4. ASSUME NEW i \in Inst, GiveBack(i) PROVE WarmOldestFirst'
  <2>1. CASE i \notin inUse
    BY <1>4, <2>1 DEF GiveBack, WarmOldestFirst
  <2>2. CASE i \in inUse
    <3>1. /\ warm' = Append(warm, i) /\ idle' = [idle EXCEPT ![i] = 0]
      BY <1>4, <2>2 DEF GiveBack
    <3>2. /\ Len(warm') = Len(warm) + 1 /\ warm'[Len(warm) + 1] = i
          /\ \A n \in 1..Len(warm) : warm'[n] = warm[n]
      BY <1>0, <3>1, AppendProperties DEF TypeOK
    <3>3. DOMAIN warm' = 1..Len(warm) + 1
      BY <1>0, <3>2, LenProperties DEF TypeOK
    <3>4. \A n \in 1..Len(warm) : warm[n] # i /\ warm[n] \in Inst
      BY <1>0, <2>2 DEF Accounted, Range, TypeOK
    <3>5. idle \in [Inst -> 0..IdleTimeout]
      BY <1>0 DEF TypeOK
    <3>6. \A n \in 1..Len(warm) + 1 : \/ n <= Len(warm) /\ n \in 1..Len(warm)
                                      \/ ~(n <= Len(warm)) /\ n = Len(warm) + 1
      BY <1>0
    <3>7. \A n \in 1..Len(warm) : idle'[warm[n]] = idle[warm[n]]
      BY <3>1, <3>4, <3>5
    <3>8. idle'[i] = 0
      BY <3>1, <3>5
    <3> QED BY <1>0, <3>2, <3>3, <3>6, <3>7, <3>8, OrderKept
  <2> QED BY <2>1, <2>2
<1>5. CASE Reap
  <2> DEFINE K == Kept(warm)
  <2>1. PICK f \in [1..Cardinality(K) -> K] :
          Lists(f, K) /\ warm' = [n \in DOMAIN f |-> warm[f[n]]]
    BY <1>5 DEF Reap
  <2>2. K \subseteq DOMAIN warm /\ idle' = idle
    BY <1>5 DEF Kept, Reap
  <2> HIDE DEF K
  <2>3. DOMAIN warm' = DOMAIN f /\ \A n \in DOMAIN f : f[n] \in DOMAIN warm
    BY <2>1, <2>2
  <2> QED BY <2>1, <2>2, <2>3 DEF Lists, WarmOldestFirst
<1>6. CASE Tick
  <2>1. warm' = warm /\ \A n \in DOMAIN warm : warm[n] \in Inst /\ warm[n] \in Range(warm)
    BY <1>0, <1>6 DEF Tick, TypeOK, Range
  <2>2. \A i \in Range(warm) : i \in Inst =>
            /\ idle[i] \in 0..IdleTimeout
            /\ idle'[i] = IF idle[i] < IdleTimeout THEN idle[i] + 1 ELSE idle[i]
    BY <1>0, <1>6 DEF Tick, TypeOK
  <2> SUFFICES ASSUME NEW m \in DOMAIN warm, NEW n \in DOMAIN warm, m < n
               PROVE  idle'[warm[m]] >= idle'[warm[n]]
    BY <2>1 DEF WarmOldestFirst
  <2>3. idle[warm[m]] >= idle[warm[n]]
    BY DEF WarmOldestFirst
  <2> QED BY <2>1, <2>2, <2>3
<1>7. CASE UNCHANGED vars
  BY <1>7 DEF vars, WarmOldestFirst
<1>8. ASSUME NEW c \in Caller, AcquireCold(c) PROVE WarmOldestFirst'
  BY <1>3, <1>8 DEF AcquireCold
<1>9. ASSUME NEW c \in Caller, Release(c) PROVE WarmOldestFirst'
  BY <1>0, <1>4, <1>9 DEF Release, TypeOK
<1>10. ASSUME NEW c \in Caller, ReleaseAgain(c) PROVE WarmOldestFirst'
  BY <1>0, <1>4, <1>10 DEF ReleaseAgain, TypeOK
<1>11. CASE Close
  BY <1>3, <1>11 DEF Close
<1> QED BY <1>1, <1>2, <1>5, <1>6, <1>7, <1>8, <1>9, <1>10, <1>11 DEF Next

(* Acquire's last entry is the warmest and Reap meets the oldest first
   (pool.go:91, 118-119, 131). *)
THEOREM WarmOldestFirstAlways == Spec => []WarmOldestFirst
<1>1. Init => WarmOldestFirst
  BY DEF Init, WarmOldestFirst
<1>2. WarmOldestFirst /\ IInv /\ IInv' /\ [Next]_vars => WarmOldestFirst'
  BY OrderStep
<1> QED BY <1>1, <1>2, Invariance, PTL DEF Spec

-----------------------------------------------------------------------------
(* The floor: below it every position is kept, so at least as many positions
   are kept as the pool still lacks. *)
LEMMA KeptCount ==
    ASSUME IInv, Reap
    PROVE  /\ Len(warm') = Cardinality(Kept(warm))
           /\ \/ Len(warm') + Cardinality(inUse) >= MinWarm
              \/ Len(warm') = Len(warm)
<1> DEFINE K == Kept(warm)
           U == Cardinality(inUse)
           F == MinWarm - U
<1>1. /\ Len(warm) \in Nat /\ DOMAIN warm = 1..Len(warm) /\ U \in Nat
  BY Counts DEF IInv
<1>2. K \in SUBSET (1..Len(warm)) /\ \A n \in 1..Len(warm) : n - 1 + U < MinWarm => n \in K
  BY <1>1 DEF Kept
<1>3. IsFiniteSet(K) /\ Cardinality(K) \in Nat /\ Cardinality(K) <= Len(warm)
  BY <1>1, <1>2, PositionsBound
<1>4. Len(warm') = Cardinality(K)
  <2>1. PICK f \in [1..Cardinality(K) -> K] : warm' = [n \in DOMAIN f |-> warm[f[n]]]
    BY DEF Reap
  <2>2. DOMAIN warm' = 1..Cardinality(K)
    BY <2>1
  <2>3. Len(warm') \in Nat /\ DOMAIN warm' = 1..Len(warm')
    BY ReapKeeps, LenProperties
  <2> QED BY <1>3, <2>2, <2>3
<1>5. MinWarm \in Int
  BY Config
<1> HIDE DEF K, U
<1>6. CASE F <= 0
  BY <1>1, <1>3, <1>4, <1>5, <1>6 DEF K, U
<1>7. CASE F > 0 /\ F <= Len(warm)
  <2>1. F \in Nat /\ 1..F \subseteq K
    BY <1>1, <1>2, <1>5, <1>7
  <2>2. Cardinality(1..F) = F
    BY <2>1, FS_Interval
  <2>3. F <= Cardinality(K)
    BY <1>3, <2>1, <2>2, FS_Subset
  <2> QED BY <1>1, <1>3, <1>4, <1>5, <2>3 DEF K, U
<1>8. CASE F > Len(warm)
  <2>1. \A n \in 1..Len(warm) : n - 1 + U < MinWarm
    BY <1>1, <1>5, <1>8
  <2>2. K = 1..Len(warm)
    BY <1>2, <2>1
  <2>3. Cardinality(1..Len(warm)) = Len(warm)
    <3>1. 1 \in Int /\ Len(warm) \in Int
      BY <1>1
    <3>2. Cardinality(1..Len(warm)) = IF 1 > Len(warm) THEN 0 ELSE Len(warm) - 1 + 1
      BY <3>1, FS_Interval
    <3> QED BY <1>1, <3>2
  <2> QED BY <1>4, <2>2, <2>3 DEF K
<1> QED BY <1>1, <1>5, <1>6, <1>7, <1>8

(* A reap leaves MinWarm instances if there were as many, and closes only
   instances idle for the timeout (pool.go:122-142). *)
THEOREM ReapSparesFloorAlways == Spec => ReapSparesFloor
<1> DEFINE P == Reap => /\ Total' >= MinWarm \/ Total' = Total
                        /\ \A i \in closed' \ closed : Expired(i)
<1>1. ASSUME IInv, [Next]_vars PROVE [P]_vars
  <2> SUFFICES ASSUME Reap PROVE P
    OBVIOUS
  <2>1. Total' >= MinWarm \/ Total' = Total
    BY <1>1, KeptCount DEF Total, Reap
  <2>2. \A i \in closed' \ closed : Expired(i)
    BY DEF Reap, Kept
  <2> QED BY <2>1, <2>2
<1> QED BY <1>1, Invariance, PTL DEF Spec, ReapSparesFloor

-----------------------------------------------------------------------------
(* RemoteClient. *)

(* The least element of a set of numbers is the smallest. *)
LEMMA LeastOf ==
    ASSUME NEW T, T \subseteq Nat, T # {}
    PROVE  Min(T) \in T /\ \A y \in T : Min(T) <= y
<1> DEFINE Less == OpToRel(<, Nat)
<1>1. IsWellFoundedOn(Less, Nat)
  BY NatLessThanWellFounded
<1>2. \A x, y \in Nat : y < x => <<y, x>> \in Less
  BY DEF OpToRel
<1> HIDE DEF Less
<1>3. PICK x \in T : \A y \in T : ~(<<y, x>> \in Less)
  BY <1>1, WFMin
<1>4. \A y \in T : x <= y
  <2> TAKE y \in T
  <2>1. ~(<<y, x>> \in Less)
    BY <1>3
  <2>2. x \in Nat /\ y \in Nat
    OBVIOUS
  <2>3. ~(y < x)
    BY <1>2, <2>1, <2>2
  <2> QED BY <2>2, <2>3
<1> QED BY <1>4 DEF Min

Records ==
    [pc : Resting \union {"check", "initialize", "store", "notify", "send", "wait"},
     sid : Session \union {NoSession}, retried : BOOLEAN,
     answer : {"none", "result", "refused", "404"}, runs : {0, 1},
     faulted : BOOLEAN, disturbed : BOOLEAN, lost : Nat]

RemoteTypes ==
    /\ inited \in BOOLEAN /\ sessionID \in Session \union {NoSession}
    /\ inited <=> sessionID # NoSession
    /\ call \in [Call -> Records]
    /\ alive \subseteq Session

(* What a call knows of its request: how often the tool ran for it, and that
   a session the server did not know stays unknown. *)
Answered(r) ==
    /\ r.pc \in {"check", "initialize", "store", "notify", "send"} => r.answer = "none"
    /\ r.pc \notin Resting =>
        /\ r.answer \in {"none", "404"} => r.runs = 0
        /\ r.answer = "result" => r.runs = 1
    /\ r.pc = "done" => r.runs = 1
    /\ r.pc = "store" => r.sid \in Session
    /\ r.pc = "wait" /\ r.answer = "404" => r.sid \in Session /\ r.sid \notin alive
    /\ r.pc = "wait" /\ r.answer = "refused" => r.faulted \/ r.disturbed

(* A call that no other one disturbed finds the shared fields as it left them ... *)
Own(r) ==
    /\ r.pc \in {"initialize", "store"} \/ (r.pc = "check" /\ r.retried) => ~inited
    /\ r.pc \in {"notify", "send", "wait"} => inited
    /\ r.pc = "wait" => r.sid = sessionID

(* ... and has seen its first session lost before it retried, and the current
   one if the server does not know it any more. *)
Current(r) == IF r.pc = "store" THEN r.sid ELSE sessionID
Losses(r) ==
    /\ r.retried => r.lost >= 1
    /\ Current(r) # NoSession /\ Current(r) \notin alive =>
          r.lost >= 1 /\ (r.retried => r.lost >= 2)

Excused(r) ==
    ~r.disturbed =>
        /\ r.pc \notin Resting => Own(r) /\ Losses(r)
        /\ r.pc = "failed" => r.faulted \/ r.lost >= 2

(* A session that is alive but not initialised: its notification is under way
   or was lost. *)
Announced ==
    sessionID \in alive \ ready =>
        sessionID \in unheard \/ \E c \in Call : call[c].pc = "notify"

RemoteInv ==
    /\ RemoteTypes /\ Announced
    /\ \A c \in Call : Answered(call[c]) /\ Excused(call[c])
-----------------------------------------------------------------------------
(* There is always a session number nobody refers to: each call holds at most
   one, and the client one. *)
LEMMA FreshIsFresh ==
    ASSUME RemoteTypes
    PROVE  FreshSession \in Session /\ FreshSession \notin Referred
<1> DEFINE Held == {call[c].sid : c \in Call}
           f == [c \in Call |-> call[c].sid]
<1>1. f \in Surjection(Call, Held)
  BY DEF Surjection
<1>2. IsFiniteSet(Held) /\ Cardinality(Held) <= Cardinality(Call)
  BY <1>1, CallAssumption, FS_Surjection
<1>3. Cardinality(Call) \in Nat /\ Cardinality(Held) \in Nat
  BY <1>2, CallAssumption, FS_CardinalityType
<1> HIDE DEF Held
<1>4. Referred = Held \union {sessionID}
  BY DEF Referred, Held
<1>5. IsFiniteSet(Referred) /\ Cardinality(Referred) <= Cardinality(Call) + 1
  BY <1>2, <1>3, <1>4, FS_AddElement
<1>6. IsFiniteSet(Session) /\ Cardinality(Session) = Cardinality(Call) + 2
  <2>1. PICK n \in Nat : n = Cardinality(Call) + 2
    BY <1>3
  <2>2. IsFiniteSet(1..n) /\ Cardinality(1..n) = n
    <3>1. 1 \in Int /\ n \in Int /\ ~(1 > n)
      BY <1>3, <2>1
    <3>2. Cardinality(1..n) = n - 1 + 1
      BY <3>1, FS_Interval
    <3>3. IsFiniteSet(1..n)
      BY <3>1, FS_Interval
    <3> QED BY <3>2, <3>3
  <2> QED BY <2>1, <2>2 DEF Session
<1>7. Session \ Referred # {}
  <2>1. SUFFICES ASSUME Session \subseteq Referred PROVE FALSE
    OBVIOUS
  <2>2. Cardinality(Session) <= Cardinality(Referred)
    BY <1>5, <2>1, FS_Subset
  <2>3. Cardinality(Referred) \in Nat
    BY <1>5, FS_CardinalityType
  <2> QED BY <1>3, <1>5, <1>6, <2>2, <2>3
<1>8. Session \ Referred \subseteq Nat
  BY <1>3 DEF Session
<1> QED BY <1>7, <1>8, LeastOf DEF FreshSession

LEMMA RecordOf ==
    ASSUME RemoteInv, NEW c \in Call
    PROVE  call[c] \in Records /\ Answered(call[c]) /\ Excused(call[c])
BY DEF RemoteInv, RemoteTypes

(* Sessions are numbers other than NoSession. *)
LEMMA NoSessionIsNone == NoSession \notin Session
<1>1. Cardinality(Call) \in Nat
  BY CallAssumption, FS_CardinalityType
<1> QED BY <1>1 DEF NoSession, Session
-----------------------------------------------------------------------------
(* A step that leaves the shared fields alone is a matter of the call's own
   record, as long as no announcement is forgotten. *)
LEMMA OwnStep ==
    ASSUME RemoteInv, NEW c \in Call, NEW r \in Records, Set(c, r),
           UNCHANGED <<inited, sessionID, alive>>,
           Answered(r), Excused(r), Announced'
    PROVE  RemoteInv'
<1>1. call' \in [Call -> Records] /\ call'[c] = r /\ \A x \in Call \ {c} : call'[x] = call[x]
  BY DEF Set, RemoteInv, RemoteTypes
<1>2. RemoteTypes'
  BY <1>1 DEF RemoteInv, RemoteTypes
<1>3. \A q : (Answered(q)' <=> Answered(q)) /\ (Excused(q)' <=> Excused(q))
  BY DEF Answered, Excused, Own, Losses, Current
<1>4. \A x \in Call : Answered(call'[x]) /\ Excused(call'[x])
  BY <1>1 DEF RemoteInv
<1>5. (\A x \in Call : Answered(call[x]) /\ Excused(call[x]))'
  BY <1>3, <1>4 DEF Answered, Excused, Own, Losses, Current
<1> QED BY <1>2, <1>5 DEF RemoteInv

(* One that changes them disturbs every other call. *)
LEMMA SharedStep ==
    ASSUME RemoteInv, NEW c \in Call, NEW r \in Records, SetShared(c, r),
           inited' \in BOOLEAN, sessionID' \in Session \union {NoSession},
           inited' <=> sessionID' # NoSession, alive' = alive,
           Answered(r), Excused(r)', Announced'
    PROVE  RemoteInv'
<1>1. call' = [x \in Call |-> IF x = c THEN r
                              ELSE IF call[x].pc \in Resting THEN call[x]
                              ELSE [call[x] EXCEPT !.disturbed = TRUE]]
  BY DEF SetShared
<1>2. call'[c] = r
  BY <1>1
<1>3. ASSUME NEW x \in Call \ {c}
      PROVE  call'[x] \in Records /\ Answered(call'[x])
             /\ (call'[x].disturbed \/ (call'[x] = call[x] /\ call[x].pc \in Resting))
  <2>1. call[x] \in Records /\ Answered(call[x])
    BY RecordOf
  <2>2. CASE call[x].pc \in Resting
    BY <1>1, <2>1, <2>2
  <2>3. CASE call[x].pc \notin Resting
    <3>1. PICK q : q = [call[x] EXCEPT !.disturbed = TRUE]
      OBVIOUS
    <3>2. q \in Records /\ q.disturbed
      BY <2>1, <3>1 DEF Records
    <3>3. q.pc = call[x].pc /\ q.sid = call[x].sid /\ q.answer = call[x].answer
          /\ q.runs = call[x].runs
      BY <2>1, <3>1 DEF Records
    <3>4. Answered(q)
      BY <2>1, <3>2, <3>3 DEF Answered
    <3>5. call'[x] = q
      BY <1>1, <2>3, <3>1
    <3> QED BY <3>2, <3>4, <3>5
  <2> QED BY <2>2, <2>3
<1>4. call' \in [Call -> Records]
  BY <1>1, <1>2, <1>3
<1>5. RemoteTypes'
  BY <1>4 DEF RemoteInv, RemoteTypes
<1>6. (\A x \in Call : Answered(call[x]))'
  BY <1>2, <1>3 DEF Answered
<1>7. ASSUME NEW x \in Call PROVE Excused(call[x])'
  <2>1. CASE x = c
    BY <1>2, <2>1 DEF Excused, Own, Losses, Current
  <2>2. CASE x # c
    BY <1>3, <2>2, RecordOf DEF Excused
  <2> QED BY <2>1, <2>2
<1> QED BY <1>5, <1>6, <1>7 DEF RemoteInv
-----------------------------------------------------------------------------
LEMMA BeginStep ==
    ASSUME RemoteInv, NEW c \in Call, Begin(c) PROVE RemoteInv'
<1>1. PICK r : r = [Quiet EXCEPT !.pc = "check",
                                 !.lost = IF inited /\ sessionID \notin alive THEN 1 ELSE 0]
  OBVIOUS
<1>2. Set(c, r) /\ UNCHANGED <<inited, sessionID, alive, ready, unheard>> /\ call[c].pc \in Resting
  BY <1>1 DEF Begin
<1>3. r \in Records
  BY <1>1 DEF Quiet, Records
<1>4. r.pc = "check" /\ r.answer = "none" /\ r.runs = 0 /\ ~r.retried
      /\ r.lost = (IF inited /\ sessionID \notin alive THEN 1 ELSE 0)
  BY <1>1 DEF Quiet
<1>5. Answered(r) /\ Excused(r)
  BY <1>4 DEF Answered, Excused, Own, Losses, Current, Resting, RemoteInv, RemoteTypes
<1>6. Announced'
  BY <1>2 DEF RemoteInv, RemoteTypes, Announced, Set, Resting
<1> QED BY <1>2, <1>3, <1>5, <1>6, OwnStep

(* A call's next record, when only some fields change. *)
LEMMA CheckStep ==
    ASSUME RemoteInv, NEW c \in Call, Check(c) PROVE RemoteInv'
<1>1. PICK r : r = [call[c] EXCEPT !.pc = IF inited THEN "send" ELSE "initialize"]
  OBVIOUS
<1>2. Set(c, r) /\ UNCHANGED <<inited, sessionID, alive, ready, unheard>> /\ call[c].pc = "check"
  BY <1>1 DEF Check, Goto
<1>3. call[c] \in Records /\ Answered(call[c]) /\ Excused(call[c])
  BY RecordOf
<1>4. r \in Records
  BY <1>1, <1>3 DEF Records
<1>5. /\ r.pc = (IF inited THEN "send" ELSE "initialize") /\ r.answer = call[c].answer
      /\ r.runs = call[c].runs /\ r.lost = call[c].lost
  BY <1>1, <1>3 DEF Records
<1>6. r.retried = call[c].retried /\ r.disturbed = call[c].disturbed
  BY <1>1, <1>3 DEF Records
<1>7. Answered(r) /\ Excused(r)
  BY <1>2, <1>3, <1>5, <1>6 DEF Answered, Excused, Own, Losses, Current, Resting
<1>8. Announced'
  BY <1>2 DEF RemoteInv, RemoteTypes, Announced, Set
<1> QED BY <1>2, <1>4, <1>7, <1>8, OwnStep

LEMMA FailsStep ==
    ASSUME RemoteInv, NEW c \in Call, Fails(c), call[c].pc = "initialize",
           UNCHANGED <<inited, sessionID, alive, ready, unheard>>
    PROVE  RemoteInv'
<1>1. PICK r : r = [call[c] EXCEPT !.pc = "failed", !.sid = NoSession, !.faulted = TRUE]
  OBVIOUS
<1>2. Set(c, r)
  BY <1>1 DEF Fails
<1>3. call[c] \in Records
  BY RecordOf
<1>4. r \in Records
  BY <1>1, <1>3 DEF Records, Resting
<1>5. r.pc = "failed" /\ r.faulted
  BY <1>1, <1>3 DEF Records
<1>6. Answered(r) /\ Excused(r)
  BY <1>5 DEF Answered, Excused, Resting
<1>7. Announced'
  BY <1>2 DEF RemoteInv, RemoteTypes, Announced, Set
<1> QED BY <1>2, <1>4, <1>6, <1>7, OwnStep

(* The server makes a session: nobody else holds it. *)
LEMMA EstablishStep ==
    ASSUME RemoteInv, NEW c \in Call, call[c].pc = "initialize",
           Set(c, [call[c] EXCEPT !.pc = "store", !.sid = FreshSession]),
           alive' = (alive \intersect Referred) \union {FreshSession},
           ready' = ready \intersect Referred, unheard' = unheard \ {FreshSession},
           UNCHANGED <<inited, sessionID>>
    PROVE  RemoteInv'
<1>1. PICK s : s = FreshSession
  OBVIOUS
<1>2. s \in Session /\ s \notin Referred
  BY <1>1, FreshIsFresh DEF RemoteInv
<1>3. sessionID # s /\ sessionID \in Referred
      /\ \A x \in Call : call[x].sid # s /\ call[x].sid \in Referred
  BY <1>2 DEF Referred
<1>4. PICK r : r = [call[c] EXCEPT !.pc = "store", !.sid = s]
  OBVIOUS
<1>5. call[c] \in Records /\ Answered(call[c]) /\ Excused(call[c])
  BY RecordOf
<1>6. r \in Records
  BY <1>2, <1>4, <1>5 DEF Records
<1>7. /\ r.pc = "store" /\ r.sid = s /\ r.answer = call[c].answer
      /\ r.runs = call[c].runs /\ r.lost = call[c].lost
  BY <1>4, <1>5 DEF Records
<1>8. r.retried = call[c].retried /\ r.disturbed = call[c].disturbed
  BY <1>4, <1>5 DEF Records
<1>9. /\ call' \in [Call -> Records] /\ call'[c] = r
      /\ \A x \in Call \ {c} : call'[x] = call[x]
  BY <1>1, <1>4, <1>6 DEF Set, RemoteInv, RemoteTypes
<1>10. s \in alive' /\ \A z \in Referred : z \in alive' <=> z \in alive
  BY <1>1, <1>2
<1>11. RemoteTypes'
  BY <1>1, <1>2, <1>9 DEF RemoteInv, RemoteTypes
<1>12. (\A x \in Call : Answered(call[x]))'
  <2>1. Answered(r)'
    BY <1>2, <1>5, <1>7 DEF Answered, Resting
  <2>2. ASSUME NEW x \in Call \ {c} PROVE Answered(call[x])'
    BY <1>3, <1>9, <1>10, RecordOf DEF Answered
  <2>3. Answered(call[c])'
    BY <1>9, <2>1 DEF Answered
  <2> QED BY <2>2, <2>3
<1>13. (\A x \in Call : Excused(call[x]))'
  <2>1. Excused(r)'
    BY <1>5, <1>7, <1>8, <1>10 DEF Excused, Own, Losses, Current, Resting
  <2>2. ASSUME NEW x \in Call \ {c} PROVE Excused(call[x])'
    <3>1. Excused(call[x])
      BY RecordOf
    <3>2. Own(call[x]) => Own(call[x])'
      BY <1>9 DEF Own
    <3>3. Losses(call[x]) => Losses(call[x])'
      BY <1>3, <1>9, <1>10 DEF Losses, Current
    <3> QED BY <1>9, <3>1, <3>2, <3>3 DEF Excused
  <2>3. Excused(call[c])'
    BY <1>9, <2>1 DEF Excused, Own, Losses, Current
  <2> QED BY <2>2, <2>3
<1>14. Announced'
  <2>1. sessionID' \in alive' \ ready' => sessionID \in alive \ ready
    BY <1>3, <1>10
  <2>2. \A x \in Call : call[x].pc = "notify" => call'[x].pc = "notify"
    BY <1>9
  <2> QED BY <1>1, <1>3, <2>1, <2>2 DEF Announced, RemoteInv
<1> QED BY <1>11, <1>12, <1>13, <1>14 DEF RemoteInv

LEMMA InitializeStep ==
    ASSUME RemoteInv, NEW c \in Call, Initialize(c) PROVE RemoteInv'
<1>0. call[c].pc = "initialize" /\ UNCHANGED <<inited, sessionID>>
  BY DEF Initialize
<1>1. CASE /\ Set(c, [call[c] EXCEPT !.pc = "store", !.sid = FreshSession])
           /\ alive' = (alive \intersect Referred) \union {FreshSession}
           /\ ready' = ready \intersect Referred
           /\ unheard' = unheard \ {FreshSession}
  BY <1>0, <1>1, EstablishStep
<1>2. CASE /\ sessionID # NoSession /\ Set(c, [call[c] EXCEPT !.pc = "failed"])
           /\ UNCHANGED <<alive, ready, unheard>>
  <2>1. PICK r : r = [call[c] EXCEPT !.pc = "failed"]
    OBVIOUS
  <2>2. call[c] \in Records /\ Answered(call[c]) /\ Excused(call[c])
    BY RecordOf
  <2>3. r \in Records
    BY <2>1, <2>2 DEF Records, Resting
  <2>4. r.pc = "failed" /\ r.disturbed = call[c].disturbed
    BY <2>1, <2>2 DEF Records
  <2>5. call[c].disturbed
    BY <1>0, <1>2, <2>2 DEF Excused, Own, Resting, RemoteInv, RemoteTypes
  <2>6. Answered(r) /\ Excused(r)
    BY <2>4, <2>5 DEF Answered, Excused, Resting
  <2>7. Announced'
    BY <1>0, <1>2 DEF RemoteInv, RemoteTypes, Announced, Set
  <2> QED BY <1>0, <1>2, <2>1, <2>3, <2>6, <2>7, OwnStep
<1>3. CASE Fails(c) /\ UNCHANGED <<alive, ready, unheard>>
  BY <1>0, <1>3, FailsStep
<1> QED BY <1>1, <1>2, <1>3 DEF Initialize

LEMMA StoreStep ==
    ASSUME RemoteInv, NEW c \in Call, Store(c) PROVE RemoteInv'
<1>1. PICK r : r = [call[c] EXCEPT !.pc = "notify", !.sid = NoSession]
  OBVIOUS
<1>2. /\ SetShared(c, r) /\ call[c].pc = "store"
      /\ sessionID' = call[c].sid /\ inited' = TRUE /\ UNCHANGED <<alive, ready, unheard>>
  BY <1>1 DEF Store
<1>3. call[c] \in Records /\ Answered(call[c]) /\ Excused(call[c])
  BY RecordOf
<1>4. r \in Records
  BY <1>1, <1>3 DEF Records
<1>5. r.pc = "notify" /\ r.answer = call[c].answer /\ r.runs = call[c].runs /\ r.lost = call[c].lost
  BY <1>1, <1>3 DEF Records
<1>6. r.retried = call[c].retried /\ r.disturbed = call[c].disturbed
  BY <1>1, <1>3 DEF Records
<1>7. call[c].sid \in Session /\ call[c].sid # NoSession
  BY <1>2, <1>3, NoSessionIsNone DEF Answered
<1>8. Answered(r)
  BY <1>2, <1>3, <1>5 DEF Answered, Resting
<1>9. Excused(r)'
  BY <1>2, <1>3, <1>5, <1>6 DEF Excused, Own, Losses, Current, Resting
<1>10. Announced'
  <2>1. call'[c].pc = "notify"
    BY <1>2, <1>5 DEF SetShared
  <2> QED BY <2>1 DEF Announced
<1> QED BY <1>2, <1>4, <1>7, <1>8, <1>9, <1>10, SharedStep

LEMMA NotifyStep ==
    ASSUME RemoteInv, NEW c \in Call, Notify(c) PROVE RemoteInv'
<1>0. call[c].pc = "notify" /\ UNCHANGED <<inited, sessionID, alive>>
  BY DEF Notify
<1>1. call[c] \in Records /\ Answered(call[c]) /\ Excused(call[c])
  BY RecordOf
<1>2. CASE /\ ready' = ready \union ({sessionID} \intersect alive)
           /\ Goto(c, "send") /\ UNCHANGED unheard
  <2>1. PICK r : r = [call[c] EXCEPT !.pc = "send"]
    OBVIOUS
  <2>2. Set(c, r)
    BY <1>2, <2>1 DEF Goto
  <2>3. r \in Records
    BY <1>1, <2>1 DEF Records
  <2>4. r.pc = "send" /\ r.answer = call[c].answer /\ r.runs = call[c].runs /\ r.lost = call[c].lost
    BY <1>1, <2>1 DEF Records
  <2>5. r.retried = call[c].retried /\ r.disturbed = call[c].disturbed
    BY <1>1, <2>1 DEF Records
  <2>6. Answered(r) /\ Excused(r)
    BY <1>0, <1>1, <2>4, <2>5 DEF Answered, Excused, Own, Losses, Current, Resting
  <2>7. Announced'
    BY <1>0, <1>2 DEF Announced
  <2> QED BY <1>0, <2>2, <2>3, <2>6, <2>7, OwnStep
<1>3. CASE /\ Set(c, [call[c] EXCEPT !.pc = "send", !.faulted = TRUE])
           /\ unheard' = unheard \union {sessionID} /\ UNCHANGED ready
  <2>1. PICK r : r = [call[c] EXCEPT !.pc = "send", !.faulted = TRUE]
    OBVIOUS
  <2>2. Set(c, r)
    BY <1>3, <2>1
  <2>3. r \in Records
    BY <1>1, <2>1 DEF Records
  <2>4. r.pc = "send" /\ r.answer = call[c].answer /\ r.runs = call[c].runs /\ r.lost = call[c].lost
    BY <1>1, <2>1 DEF Records
  <2>5. r.retried = call[c].retried /\ r.disturbed = call[c].disturbed
    BY <1>1, <2>1 DEF Records
  <2>6. Answered(r) /\ Excused(r)
    BY <1>0, <1>1, <2>4, <2>5 DEF Answered, Excused, Own, Losses, Current, Resting
  <2>7. Announced'
    BY <1>0, <1>3 DEF Announced
  <2> QED BY <1>0, <2>2, <2>3, <2>6, <2>7, OwnStep
<1> QED BY <1>2, <1>3 DEF Notify

LEMMA SendStep ==
    ASSUME RemoteInv, NEW c \in Call, Send(c) PROVE RemoteInv'
<1>1. PICK r : r = [call[c] EXCEPT !.pc = "wait", !.sid = sessionID]
  OBVIOUS
<1>2. /\ Set(c, r) /\ call[c].pc = "send"
      /\ UNCHANGED <<inited, sessionID, alive, ready, unheard>>
  BY <1>1 DEF Send
<1>3. call[c] \in Records /\ Answered(call[c]) /\ Excused(call[c])
  BY RecordOf
<1>4. r \in Records
  BY <1>1, <1>3 DEF Records, RemoteInv, RemoteTypes
<1>5. /\ r.pc = "wait" /\ r.sid = sessionID /\ r.answer = call[c].answer
      /\ r.runs = call[c].runs /\ r.lost = call[c].lost
  BY <1>1, <1>3 DEF Records
<1>6. r.retried = call[c].retried /\ r.disturbed = call[c].disturbed
  BY <1>1, <1>3 DEF Records
<1>7. Answered(r) /\ Excused(r)
  BY <1>2, <1>3, <1>5, <1>6 DEF Answered, Excused, Own, Losses, Current, Resting
<1>8. Announced'
  BY <1>2 DEF RemoteInv, RemoteTypes, Announced, Set
<1> QED BY <1>2, <1>4, <1>7, <1>8, OwnStep

(* An answer changes only what the call knows of its request. *)
LEMMA AnswerStep ==
    ASSUME RemoteInv, NEW c \in Call, call[c].pc = "wait", call[c].answer = "none",
           NEW r \in Records, Set(c, r), r.pc = "wait", r.sid = call[c].sid,
           r.lost = call[c].lost, r.retried = call[c].retried,
           call[c].disturbed => r.disturbed, Answered(r),
           UNCHANGED <<inited, sessionID, alive, ready, unheard>>
    PROVE  RemoteInv'
<1>1. Excused(call[c])
  BY RecordOf
<1>2. Excused(r)
  BY <1>1 DEF Excused, Own, Losses, Current, Resting
<1>3. Announced'
  BY DEF RemoteInv, RemoteTypes, Announced, Set
<1> QED BY <1>2, <1>3, OwnStep

LEMMA ServeStep ==
    ASSUME RemoteInv, NEW c \in Call, Serve(c) PROVE RemoteInv'
<1>0. /\ call[c].pc = "wait" /\ call[c].answer = "none"
      /\ UNCHANGED <<inited, sessionID, alive, ready, unheard>>
  BY DEF Serve
<1>1. call[c] \in Records /\ Answered(call[c]) /\ Excused(call[c]) /\ call[c].runs = 0
  BY <1>0, RecordOf DEF Answered, Resting
<1>2. CASE call[c].sid \in alive /\ Set(c, [call[c] EXCEPT !.answer = "result", !.runs = @ + 1])
  <2>0. PICK m \in {0, 1} : m = call[c].runs + 1 /\ m = 1
    BY <1>1
  <2>1. PICK r : r = [call[c] EXCEPT !.answer = "result", !.runs = m]
    OBVIOUS
  <2>2. Set(c, r)
    BY <1>2, <2>0, <2>1
  <2>3. r \in Records
    BY <1>1, <2>1 DEF Records
  <2>4. /\ r.pc = "wait" /\ r.sid = call[c].sid /\ r.lost = call[c].lost
        /\ r.answer = "result" /\ r.runs = 1
    BY <1>0, <1>1, <2>0, <2>1 DEF Records
  <2>5. r.retried = call[c].retried /\ r.disturbed = call[c].disturbed
    BY <1>1, <2>1 DEF Records
  <2>6. Answered(r)
    BY <1>0, <1>1, <1>2, <2>3, <2>4, <2>5 DEF Answered, Resting
  <2> QED BY <1>0, <2>2, <2>3, <2>4, <2>5, <2>6, AnswerStep
<1>3. CASE /\ call[c].sid \in alive \ ready
           /\ Set(c, [call[c] EXCEPT !.answer = "refused", !.disturbed = @ \/ Unannounced(c)])
  <2>1. PICK r : r = [call[c] EXCEPT !.answer = "refused", !.disturbed = @ \/ Unannounced(c)]
    OBVIOUS
  <2>2. Set(c, r)
    BY <1>3, <2>1
  <2>3. r \in Records
    BY <1>1, <1>3, <2>1 DEF Records
  <2>4. /\ r.pc = "wait" /\ r.sid = call[c].sid /\ r.lost = call[c].lost
        /\ r.answer = "refused" /\ r.runs = 0
    BY <1>0, <1>1, <1>3, <2>1 DEF Records
  <2>5. r.retried = call[c].retried /\ r.disturbed = (call[c].disturbed \/ Unannounced(c))
    BY <1>1, <2>1 DEF Records
  <2>6. call[c].disturbed \/ Unannounced(c)
    BY <1>0, <1>1, <1>3 DEF Excused, Own, Resting, RemoteInv, Announced, Unannounced
  <2>7. Answered(r)
    BY <1>0, <1>1, <1>3, <2>3, <2>4, <2>5, <2>6 DEF Answered, Resting
  <2> QED BY <1>0, <2>2, <2>3, <2>4, <2>5, <2>7, AnswerStep
<1>4. CASE call[c].sid = NoSession /\ Set(c, [call[c] EXCEPT !.answer = "refused", !.runs = @ + 0])
  <2>0. PICK m \in {0, 1} : m = call[c].runs + 0 /\ m = 0
    BY <1>1
  <2>1. PICK r : r = [call[c] EXCEPT !.answer = "refused", !.runs = m]
    OBVIOUS
  <2>2. Set(c, r)
    BY <1>4, <2>0, <2>1
  <2>3. r \in Records
    BY <1>1, <2>1 DEF Records
  <2>4. /\ r.pc = "wait" /\ r.sid = call[c].sid /\ r.lost = call[c].lost
        /\ r.answer = "refused" /\ r.runs = 0
    BY <1>0, <1>1, <2>0, <2>1 DEF Records
  <2>5. r.retried = call[c].retried /\ r.disturbed = call[c].disturbed
    BY <1>1, <2>1 DEF Records
  <2>6. call[c].disturbed
    BY <1>0, <1>1, <1>4 DEF Excused, Own, Resting, RemoteInv, RemoteTypes
  <2>7. Answered(r)
    BY <1>0, <1>1, <1>4, <2>3, <2>4, <2>5, <2>6 DEF Answered, Resting
  <2> QED BY <1>0, <2>2, <2>3, <2>4, <2>5, <2>7, AnswerStep
<1>5. CASE /\ call[c].sid \notin alive /\ call[c].sid # NoSession
           /\ Set(c, [call[c] EXCEPT !.answer = "404", !.runs = @ + 0])
  <2>0. PICK m \in {0, 1} : m = call[c].runs + 0 /\ m = 0
    BY <1>1
  <2>1. PICK r : r = [call[c] EXCEPT !.answer = "404", !.runs = m]
    OBVIOUS
  <2>2. Set(c, r)
    BY <1>5, <2>0, <2>1
  <2>3. r \in Records
    BY <1>1, <2>1 DEF Records
  <2>4. /\ r.pc = "wait" /\ r.sid = call[c].sid /\ r.lost = call[c].lost
        /\ r.answer = "404" /\ r.runs = 0
    BY <1>0, <1>1, <2>0, <2>1 DEF Records
  <2>5. r.retried = call[c].retried /\ r.disturbed = call[c].disturbed
    BY <1>1, <2>1 DEF Records
  <2>6. call[c].sid \in Session
    BY <1>0, <1>1, <1>5 DEF Records
  <2>7. Answered(r)
    BY <1>0, <1>1, <1>5, <2>3, <2>4, <2>5, <2>6 DEF Answered, Resting
  <2> QED BY <1>0, <2>2, <2>3, <2>4, <2>5, <2>7, AnswerStep
<1>6. ASSUME NEW n \in {0, 1},
             Set(c, [call[c] EXCEPT !.answer = "refused", !.runs = @ + n, !.faulted = TRUE])
      PROVE  RemoteInv'
  <2>0. PICK m \in {0, 1} : m = call[c].runs + n /\ m = n
    BY <1>1
  <2>1. PICK r : r = [call[c] EXCEPT !.answer = "refused", !.runs = m, !.faulted = TRUE]
    OBVIOUS
  <2>2. Set(c, r)
    BY <1>6, <2>0, <2>1
  <2>3. r \in Records
    BY <1>1, <2>1 DEF Records
  <2>4. /\ r.pc = "wait" /\ r.sid = call[c].sid /\ r.lost = call[c].lost
        /\ r.answer = "refused" /\ r.runs = n
    BY <1>0, <1>1, <2>0, <2>1 DEF Records
  <2>5. r.retried = call[c].retried /\ r.disturbed = call[c].disturbed /\ r.faulted
    BY <1>1, <2>1 DEF Records
  <2>6. Answered(r)
    BY <1>0, <1>1, <1>6, <2>3, <2>4, <2>5 DEF Answered, Resting
  <2> QED BY <1>0, <2>2, <2>3, <2>4, <2>5, <2>6, AnswerStep
<1> QED BY <1>2, <1>3, <1>4, <1>5, <1>6 DEF Serve

LEMMA FinishStep ==
    ASSUME RemoteInv, NEW c \in Call, Finish(c) PROVE RemoteInv'
<1>0. call[c].pc = "wait" /\ UNCHANGED <<inited, sessionID, alive, ready, unheard>>
  BY DEF Finish
<1>1. call[c] \in Records /\ Answered(call[c]) /\ Excused(call[c])
  BY RecordOf
<1>2. PICK pc \in {"done", "failed"} :
        /\ Set(c, [call[c] EXCEPT !.pc = pc, !.sid = NoSession])
        /\ pc = "done" => call[c].answer = "result"
        /\ pc = "failed" => call[c].answer = "refused"
                              \/ (call[c].answer = "404" /\ call[c].retried)
  BY DEF Finish
<1>3. PICK r : r = [call[c] EXCEPT !.pc = pc, !.sid = NoSession]
  OBVIOUS
<1>4. r \in Records
  BY <1>1, <1>3 DEF Records, Resting
<1>5. r.pc = pc /\ r.answer = call[c].answer /\ r.runs = call[c].runs /\ r.lost = call[c].lost
  BY <1>1, <1>3 DEF Records
<1>6. r.faulted = call[c].faulted /\ r.disturbed = call[c].disturbed
  BY <1>1, <1>3 DEF Records
<1>7. Answered(r)
  BY <1>0, <1>1, <1>2, <1>5 DEF Answered, Resting
<1>8. Excused(r)
  <2>1. CASE call[c].answer = "refused"
    BY <1>0, <1>1, <1>2, <1>5, <1>6, <2>1 DEF Answered, Excused, Resting
  <2>2. CASE call[c].answer = "404" /\ call[c].retried
    <3>1. call[c].sid \notin alive /\ call[c].sid # NoSession
      BY <1>0, <1>1, <2>2, NoSessionIsNone DEF Answered
    <3> QED BY <1>0, <1>1, <1>2, <1>5, <1>6, <2>2, <3>1 DEF Excused, Own, Losses, Current, Resting
  <2>3. CASE pc = "done"
    BY <1>5, <2>3 DEF Excused, Resting
  <2> QED BY <1>2, <2>1, <2>2, <2>3
<1>9. Announced'
  BY <1>0, <1>2 DEF RemoteInv, RemoteTypes, Announced, Set
<1> QED BY <1>0, <1>2, <1>3, <1>4, <1>7, <1>8, <1>9, OwnStep

LEMMA RetryStep ==
    ASSUME RemoteInv, NEW c \in Call, Retry(c) PROVE RemoteInv'
<1>1. PICK r : r = Again(c)
  OBVIOUS
<1>2. /\ SetShared(c, r) /\ call[c].pc = "wait" /\ call[c].answer = "404"
      /\ inited' = FALSE /\ sessionID' = NoSession /\ UNCHANGED <<alive, ready, unheard>>
  BY <1>1 DEF Retry
<1>3. call[c] \in Records /\ Answered(call[c]) /\ Excused(call[c])
  BY RecordOf
<1>4. r \in Records
  BY <1>1, <1>3 DEF Records, Again
<1>5. r.pc = "check" /\ r.answer = "none" /\ r.runs = call[c].runs /\ r.lost = call[c].lost
  BY <1>1, <1>3 DEF Records, Again
<1>6. r.disturbed = call[c].disturbed
  BY <1>1, <1>3 DEF Records, Again
<1>7. call[c].sid \notin alive /\ call[c].sid # NoSession
  BY <1>2, <1>3, NoSessionIsNone DEF Answered
<1>8. Answered(r)
  BY <1>2, <1>3, <1>5 DEF Answered, Resting
<1>9. Excused(r)'
  BY <1>2, <1>3, <1>5, <1>6, <1>7 DEF Excused, Own, Losses, Current, Resting
<1>10. Announced'
  BY <1>2, NoSessionIsNone DEF Announced, RemoteInv, RemoteTypes
<1> QED BY <1>2, <1>4, <1>8, <1>9, <1>10, SharedStep

LEMMA ExpireStep ==
    ASSUME RemoteInv, NEW s \in Session, Expire(s) PROVE RemoteInv'
<1>1. /\ UNCHANGED <<inited, sessionID, unheard>> /\ alive' = alive \ {s} /\ ready' = ready \ {s}
      /\ call' = [c \in Call |->
                     IF call[c].pc \notin Resting /\ s \in {sessionID, call[c].sid}
                     THEN [call[c] EXCEPT !.lost = @ + 1] ELSE call[c]]
  BY DEF Expire
<1>2. ASSUME NEW c \in Call
      PROVE  /\ call'[c] \in Records /\ Answered(call[c])' /\ Excused(call[c])'
             /\ call'[c].pc = call[c].pc
  <2>1. call[c] \in Records /\ Answered(call[c]) /\ Excused(call[c])
    BY RecordOf
  <2>2. CASE call[c].pc \notin Resting /\ s \in {sessionID, call[c].sid}
    <3>1. PICK r : r = [call[c] EXCEPT !.lost = @ + 1]
      OBVIOUS
    <3>2. r \in Records
      BY <2>1, <3>1 DEF Records
    <3>3. /\ r.pc = call[c].pc /\ r.sid = call[c].sid /\ r.answer = call[c].answer
          /\ r.runs = call[c].runs /\ r.lost = call[c].lost + 1 /\ call[c].lost \in Nat
      BY <2>1, <3>1 DEF Records
    <3>4. /\ r.retried = call[c].retried /\ r.disturbed = call[c].disturbed
          /\ r.faulted = call[c].faulted
      BY <2>1, <3>1 DEF Records
    <3>5. Answered(r)'
      BY <1>1, <2>1, <3>3, <3>4 DEF Answered
    <3>6. Excused(r)'
      BY <1>1, <2>1, <2>2, <3>3, <3>4 DEF Excused, Own, Losses, Current
    <3>7. call'[c] = r
      BY <1>1, <2>2, <3>1
    <3> QED BY <3>2, <3>3, <3>5, <3>6, <3>7 DEF Answered, Excused, Own, Losses, Current
  <2>3. CASE ~(call[c].pc \notin Resting /\ s \in {sessionID, call[c].sid})
    <3>1. call'[c] = call[c]
      BY <1>1, <2>3
    <3>2. Answered(call[c])'
      BY <1>1, <2>1, <3>1 DEF Answered
    <3>3. Excused(call[c])'
      BY <1>1, <2>1, <2>3, <3>1 DEF Excused, Own, Losses, Current
    <3> QED BY <2>1, <3>1, <3>2, <3>3
  <2> QED BY <2>2, <2>3
<1>3. RemoteTypes'
  <2>1. call' \in [Call -> Records]
    BY <1>1, <1>2
  <2> QED BY <1>1, <2>1 DEF RemoteInv, RemoteTypes
<1>4. Announced'
  BY <1>1, <1>2 DEF RemoteInv, Announced
<1> QED BY <1>2, <1>3, <1>4 DEF RemoteInv
-----------------------------------------------------------------------------
LEMMA RemoteInvInit == RemoteInit => RemoteInv
<1> SUFFICES ASSUME RemoteInit PROVE RemoteInv
  OBVIOUS
<1>1. Quiet \in Records
  BY DEF Quiet, Records, Resting
<1>2. Answered(Quiet) /\ Excused(Quiet)
  BY DEF Quiet, Answered, Excused, Resting
<1>3. RemoteTypes /\ Announced
  BY <1>1 DEF RemoteInit, RemoteTypes, Announced
<1> QED BY <1>2, <1>3 DEF RemoteInit, RemoteInv

LEMMA RemoteInvNext == RemoteInv /\ [RemoteNext]_remoteVars => RemoteInv'
<1> SUFFICES ASSUME RemoteInv, [RemoteNext]_remoteVars PROVE RemoteInv'
  OBVIOUS
<1>1. CASE UNCHANGED remoteVars
  BY <1>1 DEF remoteVars, RemoteInv, RemoteTypes, Announced, Answered, Excused, Own, Losses, Current
<1>2. ASSUME NEW c \in Call, Begin(c) \/ Step(c) PROVE RemoteInv'
  BY <1>2, BeginStep, CheckStep, InitializeStep, StoreStep, NotifyStep, SendStep, ServeStep,
     FinishStep, RetryStep DEF Step
<1>3. ASSUME NEW s \in Session, Expire(s) PROVE RemoteInv'
  BY <1>3, ExpireStep
<1> QED BY <1>1, <1>2, <1>3 DEF RemoteNext

(* The inductive invariant of the remote client: what a call that no other one
   disturbed may rely on between its requests (client.go:96-215). *)
THEOREM RemoteInvariant == RemoteSpec => []RemoteInv
<1> QED BY RemoteInvInit, RemoteInvNext, PTL DEF RemoteSpec

(* However many goroutines share the client and its session, the server runs
   a tool at most once for a call, exactly once for one that succeeds: only a
   404 for the session is answered by sending again (client.go:96-112). *)
THEOREM AlwaysExecutedOnce == RemoteSpec => []ExecutedOnce
<1>1. RemoteInv => ExecutedOnce
  BY DEF RemoteInv, RemoteTypes, Records, Answered, ExecutedOnce
<1> QED BY <1>1, RemoteInvariant, PTL

(* A call that fails without a failed request was disturbed by another call or
   lost its session twice (client.go:96-215). *)
THEOREM FailuresAlwaysExcused == RemoteSpec => []ExcusedFailure
<1>1. RemoteInv => ExcusedFailure
  BY DEF RemoteInv, RemoteTypes, Records, Excused, ExcusedFailure, Resting
<1> QED BY <1>1, RemoteInvariant, PTL
=============================================================================
