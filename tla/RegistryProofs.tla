--------------------------- MODULE RegistryProofs ---------------------------
(***************************************************************************)
(* Proofs about Registry, for any servers, users, roles, requests and      *)
(* objects and any number of events.  They come in layers, each inductive  *)
(* on top of the ones before it:                                           *)
(*                                                                         *)
(*   Types       what the variables are;                                   *)
(*   Owned       every open object has exactly one place that will close   *)
(*               it, and is of the server and the user of that place;      *)
(*   Ordered     the two halves of the registry agree;                     *)
(*   Checked     whatever configuration has the version a request saw when *)
(*               its roles were checked lets that request in;              *)
(*   Identified  each stored server has an id of its own, which the events *)
(*               about it carry;                                           *)
(*   Dated       nothing is built from an event yet to come;               *)
(*   Applied     the last event about a server says what was last          *)
(*               published, or, when none is left, the registry does; and  *)
(*               a user's object has the current secret of the server it   *)
(*               was built for, or an event on its way will drop it.       *)
(*                                                                         *)
(* Owned is also what the registry's refinement of Lifecycle rests on: it   *)
(* says where the instances are that wait to be offered.                   *)
(***************************************************************************)
EXTENDS Registry, FiniteSetTheorems, SequenceTheorems, TLAPS

Configured == [mode : {"shared", "per_user"}, roles : SUBSET Role, ver : 1..MaxVer]
FixedEntry ==
    [mode : {"shared"}, ver : 1..MaxVer, roles : SUBSET Role,
     ds : Inst, users : {NoUsers}]
UserEntry ==
    [mode : {"per_user"}, ver : 1..MaxVer, roles : SUBSET Role,
     ds : {NoInst}, users : [User -> Inst \union {NoInst}]]
Entry == {Absent} \union FixedEntry \union UserEntry

Object == [slug : Slug, owner : Owner, ver : 0..MaxVer, sec : Int, late : BOOLEAN]

Asking ==
    {r \in [pc : {"lookup", "build", "store", "discard", "use", "handshake"}, user : User,
            roles : SUBSET Role, todo : Seq(Slug) \ {<<>>}, asof : [Slug -> 0..MaxVer],
            prov : 0..MaxVer, inst : Inst \union {NoInst}, mine : Inst \union {NoInst}] :
        /\ r.pc \in {"store", "discard"} => r.mine \in Inst
        /\ r.pc = "use" => r.inst \in Inst}

Looping ==
    [pc : {"take"}, closing : {{}}]
    \union [pc : {"close"}, closing : SUBSET Inst]
    \union [pc : {"add"}, slug : Slug, cfg : {c \in Configured : c.mode = "shared"},
            inst : Inst, closing : {{}}]

Announced ==
    [action : {"upsert"}, slug : Slug, cfg : Config]
    \union [action : {"remove"}, slug : Slug]
    \union [action : {"credential"}, slug : Slug, user : User]

Types ==
    /\ servers \in [Slug -> Entry]
    /\ order \in Seq(Slug)
    /\ obj \in [Inst -> {Unbuilt} \union Object]
    /\ closed \subseteq Inst
    /\ req \in [Proc -> {Idle} \union Asking]
    /\ loop \in Looping
    /\ bus \in Seq(Announced)
    /\ spec \in [Slug -> {Absent} \union Config]
    /\ row \in [Slug -> ServerId]
    /\ home \in [0..MaxVer -> ServerId]
    /\ secret \in [ServerId -> [Owner -> [set : BOOLEAN, ver : Nat]]]
    /\ ver \in 0..MaxVer
    /\ rot \in Nat

-----------------------------------------------------------------------------
(* Whose the objects are that an entry, a request or the loop has. *)
EntriesOwn ==
    \A s \in Slug :
        LET e == servers[s] IN
        /\ \A i \in Held(e) : i \in Built /\ obj[i].slug = s
        /\ e.mode = "shared" => obj[e.ds].owner = Shared
        /\ e.mode = "per_user" =>
              \A u \in User : e.users[u] # NoInst => obj[e.users[u]].owner = u

RequestOwns(p) ==
    /\ \A i \in BuiltBy(p) :
          i \in Built /\ obj[i].slug = Head(req[p].todo) /\ obj[i].owner = req[p].user
    /\ req[p].pc = "use" \/ (req[p].pc = "discard" /\ req[p].inst # NoInst) =>
          LET i == req[p].inst IN
          /\ i \in Built
          /\ obj[i].slug = Head(req[p].todo)
          /\ obj[i].owner \in {req[p].user, Shared}

LoopOwns ==
    /\ loop.closing \subseteq Built
    /\ \A i \in Adding : i \in Built /\ obj[i].slug = loop.slug /\ obj[i].owner = Shared

Whose ==
    /\ closed \subseteq Built
    /\ EntriesOwn /\ LoopOwns
    /\ \A p \in Proc : RequestOwns(p)

Owned == Whose /\ NothingLost /\ OneOwner

(* Somewhere there is a configuration of s with version v and roles R. *)
Known(s, v, R) ==
    \/ servers[s] # Absent /\ servers[s].ver = v /\ servers[s].roles = R
    \/ loop.pc = "add" /\ loop.slug = s /\ loop.cfg.ver = v /\ loop.cfg.roles = R
    \/ \E n \in DOMAIN bus : /\ bus[n].action = "upsert" /\ bus[n].slug = s
                            /\ bus[n].cfg.ver = v /\ bus[n].cfg.roles = R
    \/ spec[s] # Absent /\ spec[s].ver = v /\ spec[s].roles = R

(* The request still has to ask s. *)
Asks(p, s) == \E n \in DOMAIN req[p].todo : req[p].todo[n] = s

Checked ==
    /\ \A s \in Slug, v \in 1..MaxVer, R \in SUBSET Role :
          Known(s, v, R) => /\ v <= ver
                            /\ \A Q \in SUBSET Role : Known(s, v, Q) => Q = R
    /\ \A p \in Proc : req[p].pc # "idle" =>
          \A s \in Slug, v \in 0..MaxVer : Asks(p, s) /\ v = req[p].asof[s] =>
              /\ v <= ver
              /\ \A R \in SUBSET Role : Known(s, v, R) => rolesAllow(R, req[p].roles)

(* The n-th event decides the configuration of s. *)
About(n, s) == bus[n].slug = s /\ bus[n].action # "credential"
LastAbout(n, s) == About(n, s) /\ \A m \in DOMAIN bus : m > n => ~About(m, s)
Says(v) == IF v.action = "upsert" THEN v.cfg ELSE Absent

(* The entry, and its shared instance, are what the last configuration asks. *)
InForce(s) ==
    Supported(s) =>
        /\ (servers[s] = Absent) <=> (spec[s] = Absent)
        /\ servers[s] # Absent =>
              /\ servers[s].mode = spec[s].mode
              /\ servers[s].ver = spec[s].ver
              /\ servers[s].roles = spec[s].roles
              /\ servers[s].mode = "shared" =>
                    LET o == obj[servers[s].ds] IN
                    /\ o.ver = spec[s].ver
                    /\ o.sec \in {Credentials(spec[s].ver, Shared).ver, Unread}

(* The last event about a server says what was last published about it. *)
Latest ==
    \A s \in Slug : \A n \in DOMAIN bus : LastAbout(n, s) => spec[s] = Says(bus[n])

(* With no event left about a server the registry is as published, or the loop
   is just about to make it so. *)
Settles(s) ==
    IF loop.pc = "add" /\ loop.slug = s
    THEN /\ spec[s] = loop.cfg
         /\ obj[loop.inst].ver = loop.cfg.ver
         /\ obj[loop.inst].sec \in {Credentials(loop.cfg.ver, Shared).ver, Unread}
    ELSE InForce(s)

Settled == \A s \in Slug : (\A n \in DOMAIN bus : ~About(n, s)) => Settles(s)

(* Each stored server has an id of its own, no newer than the last event, and
   what was last published for its slug carries it. *)
Identified ==
    /\ \A s \in Slug :
          /\ row[s] <= ver
          /\ spec[s] # Absent => /\ spec[s].ver <= ver
                                 /\ row[s] # NoServer /\ home[spec[s].ver] = row[s]
    /\ \A s, t \in Slug : s # t /\ row[s] # NoServer => row[s] # row[t]
    /\ \A v \in 0..MaxVer : home[v] <= ver

(* Nothing was built, or is being built, from an event yet to come. *)
Dated ==
    /\ \A i \in Built : obj[i].ver <= ver
    /\ \A p \in Proc : req[p].pc = "build" => req[p].prov <= ver

(* A user's object, cached or in hand, has the current secret of the server it
   was built for, or an event that will drop it is on its way, or it missed one
   while in hand; unless that server is no longer the one stored under the
   slug. *)
UpToDate(i) ==
    LET o == obj[i] IN
    \/ o.owner = Shared
    \/ o.late
    \/ row[o.slug] = NoServer \/ home[o.ver] # row[o.slug]
    \/ o.sec = Credentials(o.ver, o.owner).ver
    \/ \E n \in DOMAIN bus : bus[n] = CredentialChanged(o.slug, o.owner)

Current == \A i \in Cached \union InHand : UpToDate(i)

Applied == Latest /\ Settled /\ Current

-----------------------------------------------------------------------------
(* Taking and adding at the ends of a sequence. *)
LEMMA TailOf ==
    ASSUME NEW S, NEW q \in Seq(S), q # <<>>
    PROVE  /\ Len(q) \in Nat \ {0} /\ DOMAIN q = 1..Len(q)
           /\ Head(q) = q[1] /\ Head(q) \in S
           /\ Tail(q) \in Seq(S) /\ Len(Tail(q)) = Len(q) - 1
           /\ DOMAIN Tail(q) = 1..(Len(q) - 1)
           /\ \A n \in 1..(Len(q) - 1) : Tail(q)[n] = q[n + 1]
           /\ Len(q) # 1 => Tail(q) # <<>>
<1>1. Len(q) \in Nat \ {0} /\ DOMAIN q = 1..Len(q)
  BY EmptySeq, LenProperties
<1>2. Head(q) \in S /\ Tail(q) \in Seq(S) /\ Len(Tail(q)) = Len(q) - 1
  BY HeadTailProperties
<1>3. Head(q) = q[1]
  BY <1>1
<1>4. DOMAIN Tail(q) = 1..(Len(q) - 1)
  BY <1>2, LenProperties
<1>5. \A n \in 1..(Len(q) - 1) : Tail(q)[n] = q[n + 1]
  BY <1>2, HeadTailProperties
<1>6. Len(q) # 1 => Tail(q) # <<>>
  <2>1. \A t \in Seq(S) : Len(t) # 0 => t # <<>>
    BY EmptySeq
  <2>2. Len(q) # 1 => Len(Tail(q)) # 0
    BY <1>1, <1>2
  <2> QED BY <1>2, <2>1, <2>2
<1> QED BY <1>1, <1>2, <1>3, <1>4, <1>5, <1>6

LEMMA AppendOf ==
    ASSUME NEW S, NEW q \in Seq(S), NEW x \in S
    PROVE  /\ Append(q, x) \in Seq(S)
           /\ Len(q) \in Nat /\ DOMAIN q = 1..Len(q)
           /\ DOMAIN Append(q, x) = 1..(Len(q) + 1)
           /\ Append(q, x)[Len(q) + 1] = x
           /\ \A n \in 1..Len(q) : Append(q, x)[n] = q[n]
<1>1. Len(q) \in Nat /\ DOMAIN q = 1..Len(q)
  BY LenProperties
<1>2. Append(q, x) \in Seq(S) /\ Len(Append(q, x)) = Len(q) + 1
  BY AppendProperties
<1>3. DOMAIN Append(q, x) = 1..(Len(q) + 1)
  BY <1>2, LenProperties
<1>4. /\ Append(q, x)[Len(q) + 1] = x
      /\ \A n \in 1..Len(q) : Append(q, x)[n] = q[n]
  BY AppendProperties
<1> QED BY <1>1, <1>2, <1>3, <1>4

(* What the members of the unions of record sets have. *)
LEMMA EntryParts ==
    ASSUME NEW e \in Entry
    PROVE  /\ e.mode \in {"absent", "shared", "per_user"}
           /\ e.mode = "absent" <=> e = Absent
           /\ e.mode # "absent" => e.ver \in 1..MaxVer /\ e.roles \in SUBSET Role
           /\ e.mode = "shared" => e \in FixedEntry /\ e.ds \in Inst /\ e.users = NoUsers
           /\ e.mode = "per_user" => /\ e \in UserEntry /\ e.ds = NoInst
                                     /\ e.users \in [User -> Inst \union {NoInst}]
BY DEF Entry, FixedEntry, UserEntry, Absent

LEMMA AskingParts ==
    ASSUME NEW r \in {Idle} \union Asking
    PROVE  /\ r.pc \in {"idle", "lookup", "build", "store", "discard", "use", "handshake"}
           /\ r.pc = "idle" <=> r = Idle
           /\ r.pc # "idle" =>
                /\ r \in Asking
                /\ r.user \in User /\ r.roles \in SUBSET Role
                /\ r.todo \in Seq(Slug) /\ r.todo # <<>>
                /\ r.asof \in [Slug -> 0..MaxVer] /\ r.prov \in 0..MaxVer
                /\ r.inst \in Inst \union {NoInst} /\ r.mine \in Inst \union {NoInst}
                /\ Head(r.todo) \in Slug /\ Len(r.todo) \in Nat
                /\ r.pc \in {"store", "discard"} => r.mine \in Inst
                /\ r.pc = "use" => r.inst \in Inst
BY DEF Idle, Asking

LEMMA LoopingParts ==
    ASSUME NEW l \in Looping
    PROVE  /\ l.pc \in {"take", "close", "add"}
           /\ l.closing \in SUBSET Inst
           /\ l.pc # "close" => l.closing = {}
           /\ l.pc = "add" => /\ l.slug \in Slug /\ l.inst \in Inst
                              /\ l.cfg \in Configured /\ l.cfg.mode = "shared"
BY DEF Looping

LEMMA AnnouncedParts ==
    ASSUME NEW v \in Announced
    PROVE  /\ v.action \in {"upsert", "remove", "credential"}
           /\ v.slug \in Slug
           /\ v.action = "upsert" => v.cfg \in Config
           /\ v.action = "credential" => v.user \in User
BY DEF Announced

(* An unbuilt object is no object. *)
LEMMA UnbuiltIsNone == Unbuilt \notin Object
<1>1. DOMAIN Unbuilt = {"slug"}
  BY DEF Unbuilt
<1>2. \A o \in Object : "owner" \in DOMAIN o
  BY DEF Object
<1> QED BY <1>1, <1>2
-----------------------------------------------------------------------------
(* Types. *)

LEMMA InitTypes == Init => Types
<1> SUFFICES ASSUME Init PROVE Types
  OBVIOUS
<1> USE RegistryAssumption
<1>1. servers \in [Slug -> Entry] /\ spec \in [Slug -> {Absent} \union Config]
  BY DEF Init, Entry
<1>2. loop \in Looping /\ req \in [Proc -> {Idle} \union Asking]
  BY DEF Init, Looping, Resting
<1>3. /\ secret \in [ServerId -> [Owner -> [set : BOOLEAN, ver : Nat]]]
      /\ row \in [Slug -> ServerId] /\ home \in [0..MaxVer -> ServerId]
  BY DEF Init, NoSecret, NoServer, ServerId
<1>4. bus \in Seq(Announced) /\ order \in Seq(Slug)
  BY DEF Init
<1>5. /\ obj \in [Inst -> {Unbuilt} \union Object] /\ closed \subseteq Inst
      /\ ver \in 0..MaxVer /\ rot \in Nat
  BY DEF Init
<1> QED BY <1>1, <1>2, <1>3, <1>4, <1>5 DEF Types

(* A step in which one request goes on. *)
LEMMA RequestTypes ==
    ASSUME Types, NEW p \in Proc, NEW r \in {Idle} \union Asking,
           req' = [req EXCEPT ![p] = r]
    PROVE  /\ req' \in [Proc -> {Idle} \union Asking]
           /\ req'[p] = r
           /\ \A q \in Proc : q # p => req'[q] = req[q]
BY DEF Types

LEMMA BeginTypes ==
    ASSUME Types, NEW p \in Proc, NEW user \in User, NEW roles \in SUBSET Role,
           NEW todo \in Seq(Slug), todo # <<>>, Begin(p, user, roles, todo)
    PROVE  /\ req' \in [Proc -> {Idle} \union Asking]
           /\ \A q \in Proc : q # p => req'[q] = req[q]
           /\ req'[p].pc = "lookup" /\ req'[p].roles = roles /\ req'[p].todo = todo
           /\ \A s \in Slug : req'[p].asof[s] = VerOf(s)
<1> DEFINE r == [pc |-> "lookup", user |-> user, roles |-> roles, todo |-> todo,
                 asof |-> [s \in Slug |-> VerOf(s)],
                 prov |-> 0, inst |-> NoInst, mine |-> NoInst]
<1>1. \A s \in Slug : VerOf(s) \in 0..MaxVer
  <2> SUFFICES ASSUME NEW s \in Slug PROVE VerOf(s) \in 0..MaxVer
    OBVIOUS
  <2>1. servers[s] \in Entry
    BY DEF Types
  <2> QED BY <2>1, EntryParts, RegistryAssumption DEF VerOf
<1>2. [s \in Slug |-> VerOf(s)] \in [Slug -> 0..MaxVer]
  BY <1>1
<1>3. r \in Asking
  BY <1>2, RegistryAssumption DEF Asking
<1>4. req' = [req EXCEPT ![p] = r]
  BY DEF Begin
<1> HIDE DEF r
<1>5. /\ req' \in [Proc -> {Idle} \union Asking] /\ req'[p] = r
      /\ \A q \in Proc : q # p => req'[q] = req[q]
  BY <1>3, <1>4, RequestTypes
<1> QED BY <1>5 DEF r

LEMMA NextSlugTypes ==
    ASSUME Types, NEW p \in Proc, req[p].pc # "idle", NextSlug(p)
    PROVE  /\ req' \in [Proc -> {Idle} \union Asking]
           /\ \A q \in Proc : q # p => req'[q] = req[q]
           /\ \/ req'[p] = Idle
              \/ /\ req'[p].pc = "lookup"
                 /\ req'[p].todo = Tail(req[p].todo)
                 /\ req'[p].asof = req[p].asof /\ req'[p].roles = req[p].roles
<1> DEFINE r == [req[p] EXCEPT !.pc = "lookup", !.todo = Tail(@), !.prov = 0,
                               !.inst = NoInst, !.mine = NoInst]
<1>1. req[p] \in Asking /\ req[p].todo \in Seq(Slug) /\ req[p].todo # <<>>
  BY AskingParts DEF Types
<1>2. CASE Len(req[p].todo) = 1
  <2>1. req' = [req EXCEPT ![p] = Idle]
    BY <1>2 DEF NextSlug
  <2> QED BY <2>1, RequestTypes
<1>3. CASE Len(req[p].todo) # 1
  <2>1. Tail(req[p].todo) \in Seq(Slug) /\ Tail(req[p].todo) # <<>>
    BY <1>1, <1>3, TailOf
  <2>2. r \in Asking /\ r.pc = "lookup" /\ r.todo = Tail(req[p].todo)
        /\ r.asof = req[p].asof /\ r.roles = req[p].roles
    <3>1. 0 \in 0..MaxVer
      BY RegistryAssumption
    <3> QED BY <1>1, <2>1, <3>1 DEF Asking
  <2>3. req' = [req EXCEPT ![p] = r]
    BY <1>3 DEF NextSlug
  <2> HIDE DEF r
  <2>4. req' \in [Proc -> {Idle} \union Asking] /\ req'[p] = r
    BY <2>2, <2>3, RequestTypes
  <2>5. \A q \in Proc : q # p => req'[q] = req[q]
    BY <2>2, <2>3, RequestTypes
  <2> QED BY <2>2, <2>4, <2>5
<1> QED BY <1>2, <1>3

LEMMA UseInstTypes ==
    ASSUME Types, NEW p \in Proc, req[p].pc # "idle", NEW i \in Inst, UseInst(p, i)
    PROVE  /\ req' \in [Proc -> {Idle} \union Asking]
           /\ \A q \in Proc : q # p => req'[q] = req[q]
           /\ req'[p] \in Asking /\ req'[p].pc = "use" /\ req'[p].inst = i
           /\ req'[p].todo = req[p].todo /\ req'[p].user = req[p].user
           /\ req'[p].asof = req[p].asof /\ req'[p].roles = req[p].roles
<1> DEFINE r == [req[p] EXCEPT !.pc = "use", !.inst = i, !.mine = NoInst]
<1>1. req[p] \in Asking
  BY AskingParts DEF Types
<1>2. /\ r \in Asking /\ r.pc = "use" /\ r.inst = i
      /\ r.todo = req[p].todo /\ r.user = req[p].user
      /\ r.asof = req[p].asof /\ r.roles = req[p].roles
  BY <1>1 DEF Asking
<1>3. req' = [req EXCEPT ![p] = r]
  BY DEF UseInst
<1> HIDE DEF r
<1>4. /\ req' \in [Proc -> {Idle} \union Asking] /\ req'[p] = r
      /\ \A q \in Proc : q # p => req'[q] = req[q]
  BY <1>2, <1>3, RequestTypes
<1> QED BY <1>2, <1>4

LEMMA MakeObjectTypes ==
    ASSUME Types, NEW i \in Inst, NEW s \in Slug, NEW o \in Owner, NEW v \in 0..MaxVer,
           NEW x \in Int, MakeObject(i, s, o, v, x)
    PROVE  /\ obj' \in [Inst -> {Unbuilt} \union Object]
           /\ \A j \in Inst : j # i => obj'[j] = obj[j]
           /\ obj'[i] \in Object
           /\ obj'[i].slug = s /\ obj'[i].owner = o /\ obj'[i].ver = v
           /\ obj'[i].sec = x
<1>1. [slug |-> s, owner |-> o, ver |-> v, sec |-> x, late |-> FALSE] \in Object
  BY DEF Types, Object
<1> QED BY <1>1 DEF Types, MakeObject

(* MarkLate changes nothing else of an object. *)
LEMMA MarkLateTypes ==
    ASSUME Types, NEW s, NEW u, MarkLate(s, u)
    PROVE  /\ obj' \in [Inst -> {Unbuilt} \union Object]
           /\ \A i \in Inst : (obj'[i] = Unbuilt) <=> (obj[i] = Unbuilt)
           /\ \A i \in Inst : obj[i] # Unbuilt =>
                /\ obj'[i].slug = obj[i].slug /\ obj'[i].owner = obj[i].owner
                /\ obj'[i].ver = obj[i].ver /\ obj'[i].sec = obj[i].sec
                /\ obj[i].late => obj'[i].late
                /\ i \notin Cached \union closed /\ obj[i].slug = s /\ obj[i].owner = u
                       => obj'[i].late
<1>1. ASSUME NEW i \in Inst
      PROVE  /\ obj'[i] = IF obj[i] # Unbuilt /\ i \notin Cached \union closed
                             /\ obj[i].slug = s /\ obj[i].owner = u
                          THEN [obj[i] EXCEPT !.late = TRUE] ELSE obj[i]
             /\ obj[i] # Unbuilt => obj[i] \in Object
  BY <1>1 DEF MarkLate, Types
<1>2. ASSUME NEW o \in Object
      PROVE  /\ [o EXCEPT !.late = TRUE] \in Object
             /\ [o EXCEPT !.late = TRUE].slug = o.slug
             /\ [o EXCEPT !.late = TRUE].owner = o.owner
             /\ [o EXCEPT !.late = TRUE].ver = o.ver
             /\ [o EXCEPT !.late = TRUE].sec = o.sec
             /\ [o EXCEPT !.late = TRUE].late
  BY <1>2 DEF Object
<1>3. ASSUME NEW i \in Inst, obj[i] = Unbuilt PROVE obj'[i] = Unbuilt
  BY <1>1, <1>3
<1>4. ASSUME NEW i \in Inst, obj[i] # Unbuilt
      PROVE  /\ obj'[i] \in Object
             /\ obj'[i].slug = obj[i].slug /\ obj'[i].owner = obj[i].owner
             /\ obj'[i].ver = obj[i].ver /\ obj'[i].sec = obj[i].sec
             /\ obj[i].late => obj'[i].late
             /\ i \notin Cached \union closed /\ obj[i].slug = s /\ obj[i].owner = u
                   => obj'[i].late
  <2>1. obj[i] \in Object
    BY <1>1, <1>4
  <2> QED BY <2>1, <1>1, <1>2, <1>4
<1>5. DOMAIN obj' = Inst /\ obj' = [i \in Inst |-> obj'[i]]
  BY DEF MarkLate
<1> QED BY <1>3, <1>4, <1>5, UnbuiltIsNone
(* What tools/list is about to ask: registered slugs open to the roles. *)
LEMMA VisibleSlugsAre ==
    ASSUME Types, NEW roles, Visible(roles) # {}, NEW todo \in VisibleSlugs(roles)
    PROVE  /\ todo \in Seq(Slug) /\ todo # <<>>
           /\ \A n \in DOMAIN todo : \E m \in Visible(roles) : todo[n] = order[m]
<1> DEFINE K == Visible(roles)
<1>1. Len(order) \in Nat /\ DOMAIN order = 1..Len(order) /\ K \in SUBSET (1..Len(order))
  BY LenProperties DEF Types, Visible
<1>2. IsFiniteSet(K)
  <2>1. IsFiniteSet(1..Len(order))
    BY <1>1, FS_Interval
  <2> QED BY <1>1, <2>1, FS_Subset
<1>3. Cardinality(K) \in Nat /\ Cardinality(K) # 0
  BY <1>2, FS_CardinalityType, FS_EmptySet
<1>4. PICK f \in [1..Cardinality(K) -> K] : todo = [n \in DOMAIN f |-> order[f[n]]]
  BY DEF VisibleSlugs
<1>5. todo \in [1..Cardinality(K) -> Slug]
  BY <1>1, <1>4 DEF Types
<1>6. todo \in Seq(Slug) /\ Len(todo) = Cardinality(K)
  BY <1>3, <1>5, SeqDef, LenProperties
<1>7. todo # <<>>
  BY <1>3, <1>6, EmptySeq
<1>8. \A n \in DOMAIN todo : f[n] \in K /\ todo[n] = order[f[n]]
  BY <1>4, <1>5
<1> QED BY <1>6, <1>7, <1>8

(* What is in the secret store for a configuration. *)
LEMMA CredentialsTypes ==
    ASSUME Types, NEW v \in 0..MaxVer, NEW o \in Owner
    PROVE  home[v] \in ServerId /\ Credentials(v, o).ver \in Nat
BY DEF Types, Credentials

(* A request that calls an instance, or waits for its handshake. *)
Calling(p) == Use(p) \/ Handshake(p)

LEMMA CallingTypes ==
    ASSUME Types, NEW p \in Proc, Calling(p)
    PROVE  /\ req[p].pc \in {"use", "handshake"}
           /\ UNCHANGED <<registry, objects, control, loop>>
           /\ req' \in [Proc -> {Idle} \union Asking]
           /\ \A q \in Proc : q # p => req'[q] = req[q]
           /\ \/ NextSlug(p)
              \/ /\ req'[p].pc = "handshake" /\ req'[p].todo = req[p].todo
                 /\ req'[p].asof = req[p].asof /\ req'[p].roles = req[p].roles
<1> DEFINE r == [req[p] EXCEPT !.pc = "handshake"]
<1>1. /\ req[p].pc \in {"use", "handshake"} /\ UNCHANGED <<registry, objects, control, loop>>
      /\ NextSlug(p) \/ req' = [req EXCEPT ![p] = r]
  BY DEF Calling, Use, Handshake
<1>2. CASE NextSlug(p)
  BY <1>1, <1>2, NextSlugTypes
<1>3. CASE req' = [req EXCEPT ![p] = r]
  <2>1. req[p] \in Asking
    BY <1>1, AskingParts DEF Types
  <2>2. /\ r \in Asking /\ r.pc = "handshake" /\ r.todo = req[p].todo
        /\ r.asof = req[p].asof /\ r.roles = req[p].roles
    BY <2>1 DEF Asking
  <2> HIDE DEF r
  <2>3. /\ req' \in [Proc -> {Idle} \union Asking] /\ req'[p] = r
        /\ \A q \in Proc : q # p => req'[q] = req[q]
    BY <1>3, <2>2, RequestTypes
  <2> QED BY <1>1, <2>2, <2>3
<1> QED BY <1>1, <1>2, <1>3

LEMMA RequestStepsTypes ==
    ASSUME Types, NEW p \in Proc, CallCheck(p) \/ ListCheck(p) \/ GetForUser(p) \/ Calling(p)
    PROVE  Types'
<1>0. /\ req[p] \in {Idle} \union Asking
      /\ \A s \in Slug : servers[s] \in Entry
      /\ req[p].pc # "idle" => req[p] \in Asking /\ Head(req[p].todo) \in Slug
  BY AskingParts DEF Types
<1>1. CASE CallCheck(p)
  <2>1. PICK user \in User, roles \in SUBSET Role, s \in Slug : Begin(p, user, roles, <<s>>)
    BY <1>1 DEF CallCheck, Registered
  <2>2. <<s>> \in Seq(Slug) /\ <<s>> # <<>>
    OBVIOUS
  <2>3. req' \in [Proc -> {Idle} \union Asking]
    BY <2>1, <2>2, BeginTypes
  <2> QED BY <1>1, <2>3 DEF CallCheck, Types, registry, objects, control
<1>2. CASE ListCheck(p)
  <2>1. PICK user \in User, roles \in SUBSET Role :
          Visible(roles) # {} /\ \E todo \in VisibleSlugs(roles) : Begin(p, user, roles, todo)
    BY <1>2 DEF ListCheck
  <2>2. PICK todo \in VisibleSlugs(roles) : Begin(p, user, roles, todo)
    BY <2>1
  <2>3. req' \in [Proc -> {Idle} \union Asking]
    BY <2>1, <2>2, VisibleSlugsAre, BeginTypes
  <2> QED BY <1>2, <2>3 DEF ListCheck, Types, registry, objects, control
<1>3. CASE Lookup(p)
  <2> DEFINE e == servers[Head(req[p].todo)]
  <2>0. req[p].pc # "idle" /\ UNCHANGED <<registry, objects, control, loop>>
    BY <1>3 DEF Lookup
  <2>1. req' \in [Proc -> {Idle} \union Asking]
    <3>1. CASE NextSlug(p)
      BY <2>0, <3>1, NextSlugTypes
    <3>2. CASE e # Absent /\ Found(e, req[p].user) # NoInst /\ UseInst(p, Found(e, req[p].user))
      <4>1. Found(e, req[p].user) \in Inst
        <5>1. e \in Entry /\ req[p].user \in User
          BY <1>0, <2>0, AskingParts
        <5> QED BY <3>2, <5>1, EntryParts, RegistryAssumption DEF Found
      <4> QED BY <2>0, <3>2, <4>1, UseInstTypes
    <3>3. CASE e # Absent /\ req' = [req EXCEPT ![p] = [@ EXCEPT !.pc = "build", !.prov = e.ver]]
      <4>1. e.ver \in 0..MaxVer
        BY <1>0, <2>0, <3>3, EntryParts
      <4>2. [req[p] EXCEPT !.pc = "build", !.prov = e.ver] \in Asking
        BY <1>0, <2>0, <4>1 DEF Asking
      <4> QED BY <3>3, <4>2, RequestTypes
    <3> QED BY <1>3, <3>1, <3>2, <3>3 DEF Lookup
  <2> QED BY <2>0, <2>1 DEF Types, registry, objects, control
<1>4. CASE Build(p)
  <2> DEFINE s == Head(req[p].todo)
             x == Credentials(req[p].prov, req[p].user).ver
  <2>0. req[p].pc # "idle" /\ UNCHANGED <<registry, closed, control, loop>>
    BY <1>4 DEF Build
  <2>1. req' \in [Proc -> {Idle} \union Asking] /\ obj' \in [Inst -> {Unbuilt} \union Object]
    <3>1. CASE NextSlug(p) /\ UNCHANGED obj
      BY <2>0, <3>1, NextSlugTypes DEF Types
    <3>2. CASE \E i \in Fresh :
                /\ MakeObject(i, s, req[p].user, req[p].prov, x)
                /\ req' = [req EXCEPT ![p] = [@ EXCEPT !.pc = "store", !.mine = i]]
      <4>1. PICK i \in Inst :
                /\ MakeObject(i, s, req[p].user, req[p].prov, x)
                /\ req' = [req EXCEPT ![p] = [@ EXCEPT !.pc = "store", !.mine = i]]
        BY <3>2 DEF Fresh
      <4>2. [req[p] EXCEPT !.pc = "store", !.mine = i] \in Asking
        BY <1>0, <2>0 DEF Asking
      <4>3. s \in Slug /\ req[p].user \in Owner /\ req[p].prov \in 0..MaxVer
        BY <1>0, <2>0, AskingParts DEF Owner
      <4>4. x \in Int
        BY <4>3, CredentialsTypes
      <4> HIDE DEF x
      <4> QED BY <4>1, <4>2, <4>3, <4>4, RequestTypes, MakeObjectTypes
    <3> QED BY <1>4, <3>1, <3>2 DEF Build
  <2> QED BY <2>0, <2>1 DEF Types, registry, control
<1>5. CASE Store(p)
  <2> DEFINE s == Head(req[p].todo)
             e == servers[s]
             u == req[p].user
  <2>0. /\ req[p].pc = "store" /\ UNCHANGED <<order, objects, control, loop>>
        /\ s \in Slug /\ e \in Entry /\ u \in User /\ req[p] \in Asking
    BY <1>0, <1>5, AskingParts DEF Store
  <2>1. CASE e.mode # "per_user" /\ UNCHANGED servers
              /\ req' = [req EXCEPT ![p] = [@ EXCEPT !.pc = "discard", !.inst = NoInst]]
    <3>1. [req[p] EXCEPT !.pc = "discard", !.inst = NoInst] \in Asking
      BY <2>0 DEF Asking
    <3> QED BY <2>0, <2>1, <3>1, RequestTypes DEF Types, objects, control
  <2>2. CASE e.mode = "per_user" /\ e.users[u] # NoInst /\ UNCHANGED servers
              /\ req' = [req EXCEPT ![p] = [@ EXCEPT !.pc = "discard", !.inst = e.users[u]]]
    <3>1. e.users[u] \in Inst
      BY <2>0, <2>2, EntryParts
    <3>2. [req[p] EXCEPT !.pc = "discard", !.inst = e.users[u]] \in Asking
      BY <2>0, <3>1 DEF Asking
    <3> QED BY <2>0, <2>2, <3>2, RequestTypes DEF Types, objects, control
  <2>3. CASE e.mode = "per_user" /\ UseInst(p, req[p].mine) /\ req[p].mine \in Inst
              /\ servers' = [servers EXCEPT ![s] = [e EXCEPT !.users[u] = req[p].mine]]
    <3>1. [e EXCEPT !.users[u] = req[p].mine] \in Entry
      BY <2>0, <2>3, EntryParts DEF UserEntry, Entry
    <3>2. req' \in [Proc -> {Idle} \union Asking]
      BY <2>0, <2>3, UseInstTypes
    <3> QED BY <2>0, <2>3, <3>1, <3>2 DEF Types, objects, control
  <2>4. req[p].mine \in Inst
    BY <2>0, AskingParts
  <2> QED BY <1>5, <2>1, <2>2, <2>3, <2>4 DEF Store
<1>6. CASE Discard(p)
  <2>0. req[p].pc # "idle" /\ req[p].mine \in Inst
    BY <1>0, <1>6, AskingParts DEF Discard
  <2>1. req' \in [Proc -> {Idle} \union Asking]
    BY <1>0, <1>6, <2>0, NextSlugTypes, UseInstTypes, AskingParts DEF Discard
  <2>2. closed' \subseteq Inst
    BY <1>6, <2>0 DEF Discard, CloseObject, Types
  <2>3. UNCHANGED <<registry, obj, control, loop>>
    BY <1>6 DEF Discard
  <2> QED BY <2>1, <2>2, <2>3 DEF Types, registry, control
<1>7. CASE Calling(p)
  BY <1>7, CallingTypes DEF Types, registry, objects, control
<1> QED BY <1>1, <1>2, <1>3, <1>4, <1>5, <1>6, <1>7 DEF GetForUser
(* The event the loop takes. *)
LEMMA EventIs ==
    ASSUME Types, bus # <<>>
    PROVE  /\ Event \in Announced /\ Event = bus[1]
           /\ Event.slug \in Slug
           /\ Tail(bus) \in Seq(Announced)
           /\ Event.action = "upsert" => Event.cfg \in Config
           /\ Event.action = "credential" => Event.user \in User
<1>1. Event \in Announced /\ Event = bus[1] /\ Tail(bus) \in Seq(Announced)
  BY TailOf DEF Types, Event
<1> QED BY <1>1, AnnouncedParts

(* What an upsert puts in the registry. *)
LEMMA EntriesMade ==
    /\ \A i \in Inst, c \in Configured :
          /\ Fixed(i, c) \in FixedEntry /\ Fixed(i, c) \in Entry
          /\ Fixed(i, c).mode = "shared" /\ Fixed(i, c).ds = i
          /\ Fixed(i, c).ver = c.ver /\ Fixed(i, c).roles = c.roles
          /\ Fixed(i, c).users = NoUsers
    /\ \A c \in Configured :
          /\ PerUser(c) \in UserEntry /\ PerUser(c) \in Entry
          /\ PerUser(c).mode = "per_user" /\ PerUser(c).users = NoUsers
          /\ PerUser(c).ver = c.ver /\ PerUser(c).roles = c.roles
<1>1. NoUsers \in [User -> Inst \union {NoInst}]
  BY DEF NoUsers
<1>2. \A c \in Configured : c.ver \in 1..MaxVer /\ c.roles \in SUBSET Role
  BY DEF Configured
<1> QED BY <1>1, <1>2 DEF Fixed, PerUser, FixedEntry, UserEntry, Entry

LEMMA ConfigParts ==
    ASSUME NEW c \in Config
    PROVE  /\ c.mode \in Mode /\ c.roles \in SUBSET Role /\ c.ver \in 1..MaxVer
           /\ c.mode # "unsupported" => c \in Configured
           /\ c # Absent
BY DEF Config, Configured, Mode, Absent

LEMMA ToCloseTypes ==
    ASSUME NEW S \in SUBSET Inst
    PROVE  ToClose(S) \in Looping /\ ToClose(S).closing = S /\ ToClose(S).pc # "add"
<1>1. CASE S = {}
  BY <1>1 DEF ToClose, Resting, Looping
<1>2. CASE S # {}
  BY <1>2 DEF ToClose, Looping
<1> QED BY <1>1, <1>2

(* The objects an entry has. *)
LEMMA HeldIs ==
    ASSUME NEW e \in Entry
    PROVE  /\ Held(e) \subseteq Inst
           /\ e.mode = "absent" => Held(e) = {}
           /\ e.mode = "shared" => Held(e) = {e.ds}
           /\ e.mode = "per_user" =>
                \A i \in Inst : i \in Held(e) <=> \E u \in User : e.users[u] = i
<1>1. CASE e.mode = "absent"
  BY <1>1, EntryParts DEF Held
<1>2. CASE e.mode = "shared"
  <2>1. e # Absent /\ e.ds \in Inst /\ e.users = NoUsers
    BY <1>2, EntryParts
  <2>2. Range(e.users) \subseteq {NoInst}
    BY <2>1 DEF NoUsers, Range
  <2> QED BY <1>2, <2>1, <2>2, RegistryAssumption DEF Held
<1>3. CASE e.mode = "per_user"
  <2>1. e # Absent /\ e.ds = NoInst /\ e.users \in [User -> Inst \union {NoInst}]
    BY <1>3, EntryParts
  <2>2. Held(e) = Range(e.users) \ {NoInst}
    BY <2>1 DEF Held
  <2>3. Range(e.users) = {e.users[u] : u \in User}
    BY <2>1 DEF Range
  <2> QED BY <1>3, <2>1, <2>2, <2>3, RegistryAssumption
<1> QED BY <1>1, <1>2, <1>3, EntryParts

LEMMA PutTypes ==
    ASSUME Types, NEW s \in Slug, NEW e \in Entry, Put(s, e)
    PROVE  /\ servers' \in [Slug -> Entry] /\ order' \in Seq(Slug)
           /\ loop' \in Looping /\ loop'.pc # "add"
           /\ loop'.closing = Held(servers[s])
           /\ servers'[s] = e /\ \A t \in Slug : t # s => servers'[t] = servers[t]
<1>1. servers[s] \in Entry
  BY DEF Types
<1>2. Held(servers[s]) \in SUBSET Inst
  BY <1>1, HeldIs
<1>3. loop' \in Looping /\ loop'.closing = Held(servers[s]) /\ loop'.pc # "add"
  BY <1>2, ToCloseTypes DEF Put
<1>4. order' \in Seq(Slug)
  BY AppendProperties DEF Put, Types
<1> QED BY <1>3, <1>4 DEF Put, Types

(* Cutting one element out of a sequence. *)
LEMMA CutOf ==
    ASSUME NEW S, NEW q \in Seq(S), NEW n \in DOMAIN q
    PROVE  LET c == SubSeq(q, 1, n - 1) \o SubSeq(q, n + 1, Len(q)) IN
           /\ c \in Seq(S) /\ Len(q) \in Nat /\ DOMAIN q = 1..Len(q)
           /\ DOMAIN c = 1..(Len(q) - 1)
           /\ \A m \in DOMAIN c : c[m] = IF m < n THEN q[m] ELSE q[m + 1]
<1>1. Len(q) \in Nat /\ DOMAIN q = 1..Len(q) /\ n \in 1..Len(q)
  BY LenProperties
<1> DEFINE a == SubSeq(q, 1, n - 1)
           b == SubSeq(q, n + 1, Len(q))
<1>2. a \in Seq(S) /\ Len(a) = n - 1 /\ \A m \in 1..(n - 1) : a[m] = q[m]
  BY <1>1
<1>3. b \in Seq(S) /\ Len(b) = Len(q) - n /\ \A m \in 1..(Len(q) - n) : b[m] = q[n + m]
  BY <1>1
<1> HIDE DEF a, b
<1>4. a \o b \in Seq(S) /\ Len(a \o b) = Len(q) - 1
  <2>1. a \o b \in Seq(S) /\ Len(a \o b) = Len(a) + Len(b)
    BY <1>2, <1>3, ConcatProperties
  <2> QED BY <1>1, <1>2, <1>3, <2>1
<1>5. DOMAIN (a \o b) = 1..(Len(q) - 1)
  BY <1>4, LenProperties
<1>6. \A m \in 1..(Len(q) - 1) : (a \o b)[m] = IF m < n THEN q[m] ELSE q[m + 1]
  <2> SUFFICES ASSUME NEW m \in 1..(Len(q) - 1)
               PROVE  (a \o b)[m] = IF m < n THEN q[m] ELSE q[m + 1]
    OBVIOUS
  <2>1. (a \o b)[m] = IF m <= Len(a) THEN a[m] ELSE b[m - Len(a)]
    BY <1>1, <1>2, <1>3, ConcatProperties
  <2>2. CASE m < n
    BY <1>1, <1>2, <2>1, <2>2
  <2>3. CASE m >= n
    <3>1. m - (n - 1) \in 1..(Len(q) - n) /\ n + (m - (n - 1)) = m + 1
      BY <1>1, <2>3
    <3>2. b[m - (n - 1)] = q[m + 1]
      BY <1>3, <3>1
    <3> QED BY <1>1, <1>2, <2>1, <2>3, <3>2
  <2>4. m < n \/ m >= n
    BY <1>1
  <2> QED BY <2>2, <2>3, <2>4
<1> QED BY <1>1, <1>4, <1>5, <1>6 DEF a, b

LEMMA LoopTypes == ASSUME Types, Loop PROVE Types'
<1>0. \A s \in Slug : servers[s] \in Entry /\ Held(servers[s]) \in SUBSET Inst
  BY HeldIs DEF Types
<1>1. CASE IgnoreEvent
  <2>1. bus' \in Seq(Announced) /\ Event.slug \in Slug
    BY <1>1, EventIs DEF IgnoreEvent
  <2>2. obj' \in [Inst -> {Unbuilt} \union Object]
    BY <1>1, MarkLateTypes DEF IgnoreEvent, Types
  <2> QED BY <1>1, <2>1, <2>2 DEF IgnoreEvent, Types, registry, stored
<1>2. CASE ResolveShared
  <2>1. /\ bus' \in Seq(Announced) /\ Event.slug \in Slug
        /\ Event.cfg \in Configured /\ Event.cfg.mode = "shared" /\ Event.cfg.ver \in 0..MaxVer
    BY <1>2, EventIs, ConfigParts DEF ResolveShared, Config
  <2>2. PICK i \in Inst, x \in {Credentials(Event.cfg.ver, Shared).ver, Unread} :
          /\ MakeObject(i, Event.slug, Shared, Event.cfg.ver, x)
          /\ loop' = [pc |-> "add", slug |-> Event.slug, cfg |-> Event.cfg,
                      inst |-> i, closing |-> {}]
    BY <1>2 DEF ResolveShared, Fresh
  <2>3. Shared \in Owner /\ x \in Int
    <3>1. Shared \in Owner
      BY DEF Owner
    <3> QED BY <2>1, <3>1, CredentialsTypes DEF Unread
  <2>4. obj' \in [Inst -> {Unbuilt} \union Object]
    BY <2>1, <2>2, <2>3, MakeObjectTypes
  <2>5. loop' \in Looping
    BY <2>1, <2>2 DEF Looping
  <2> QED BY <1>2, <2>1, <2>4, <2>5 DEF ResolveShared, Types, registry, stored
<1>3. CASE AddScoped
  <2>1. loop.slug \in Slug /\ Fixed(loop.inst, loop.cfg) \in Entry
    BY <1>3, LoopingParts, EntriesMade DEF AddScoped, Types
  <2>2. Put(loop.slug, Fixed(loop.inst, loop.cfg)) /\ UNCHANGED <<objects, req, control>>
    BY <1>3 DEF AddScoped
  <2>3. servers' \in [Slug -> Entry] /\ order' \in Seq(Slug) /\ loop' \in Looping
    BY <2>1, <2>2, PutTypes
  <2> QED BY <2>2, <2>3 DEF Types, objects, control
<1>4. CASE AddProvider
  <2>1. Event.slug \in Slug /\ PerUser(Event.cfg) \in Entry /\ bus' \in Seq(Announced)
    BY <1>4, EventIs, ConfigParts, EntriesMade DEF AddProvider
  <2>2. /\ Put(Event.slug, PerUser(Event.cfg))
        /\ UNCHANGED <<objects, req, stored, ver, rot>>
    BY <1>4 DEF AddProvider
  <2>3. servers' \in [Slug -> Entry] /\ order' \in Seq(Slug) /\ loop' \in Looping
    BY <2>1, <2>2, PutTypes
  <2> QED BY <2>1, <2>2, <2>3 DEF Types, objects, stored
<1>5. CASE Remove
  <2>1. Event.slug \in Slug /\ bus' \in Seq(Announced)
    BY <1>5, EventIs DEF Remove
  <2>2. servers' \in [Slug -> Entry] /\ loop' \in Looping
    BY <1>0, <1>5, <2>1, ToCloseTypes DEF Remove, Types, Entry
  <2>3. order' \in Seq(Slug)
    BY <1>5, CutOf DEF Remove, Types
  <2>4. UNCHANGED <<objects, req, stored, ver, rot>>
    BY <1>5 DEF Remove
  <2> QED BY <2>1, <2>2, <2>3, <2>4 DEF Types, objects, stored
<1>6. CASE Invalidate
  <2> DEFINE e == servers[Event.slug]
             i == e.users[Event.user]
  <2>1. /\ Event.slug \in Slug /\ bus' \in Seq(Announced) /\ Event.user \in User
        /\ e \in Entry /\ e.mode = "per_user"
    BY <1>0, <1>6, EventIs DEF Invalidate
  <2>2. e \in UserEntry /\ i \in Inst \union {NoInst}
    BY <2>1, EntryParts
  <2>3. [e EXCEPT !.users[Event.user] = NoInst] \in Entry
    BY <2>1, <2>2 DEF UserEntry, Entry
  <2>4. servers' \in [Slug -> Entry]
    BY <1>6, <2>1, <2>3 DEF Invalidate, Types
  <2>5. loop' \in Looping
    BY <1>6, <2>2, ToCloseTypes DEF Invalidate
  <2>6. obj' \in [Inst -> {Unbuilt} \union Object]
    BY <1>6, MarkLateTypes DEF Invalidate
  <2>7. UNCHANGED <<order, closed, req, stored, ver, rot>>
    BY <1>6 DEF Invalidate
  <2> QED BY <2>1, <2>4, <2>5, <2>6, <2>7 DEF Types, stored
<1>7. CASE CloseDropped
  <2>1. PICK i \in loop.closing : CloseObject(i) /\ loop' = ToClose(loop.closing \ {i})
    BY <1>7 DEF CloseDropped
  <2>2. loop.closing \in SUBSET Inst
    BY LoopingParts DEF Types
  <2>3. loop' \in Looping
    BY <2>1, <2>2, ToCloseTypes
  <2> QED BY <1>7, <2>1, <2>2, <2>3 DEF CloseDropped, CloseObject, Types, registry, control
<1> QED BY <1>1, <1>2, <1>3, <1>4, <1>5, <1>6, <1>7 DEF Loop
Control == PublishUpsert \/ PublishRemove \/ RotateSecret

(* What a control action of either kind does. *)
LEMMA UpsertIs ==
    ASSUME Types, PublishUpsert
    PROVE  \E s \in Slug, m \in Mode, roles \in SUBSET Role, id \in ServerId :
             LET cfg == [mode |-> m, roles |-> roles, ver |-> ver + 1] IN
             /\ cfg \in Config /\ ver + 1 \in 1..MaxVer
             /\ id = (IF row[s] = NoServer THEN ver + 1 ELSE row[s])
             /\ row' = [row EXCEPT ![s] = id]
             /\ home' = [home EXCEPT ![ver + 1] = id]
             /\ spec' = [spec EXCEPT ![s] = cfg]
             /\ bus' = Append(bus, Upsert(s, cfg))
<1> USE RegistryAssumption
<1>1. PICK s \in Slug, m \in Mode, roles \in SUBSET Role :
        LET cfg == [mode |-> m, roles |-> roles, ver |-> ver + 1]
            id == IF row[s] = NoServer THEN ver + 1 ELSE row[s] IN
        /\ row' = [row EXCEPT ![s] = id]
        /\ home' = [home EXCEPT ![ver + 1] = id]
        /\ spec' = [spec EXCEPT ![s] = cfg]
        /\ bus' = Append(bus, Upsert(s, cfg))
  BY DEF PublishUpsert
<1>2. ver + 1 \in 1..MaxVer
  BY DEF PublishUpsert, Types
<1>3. [mode |-> m, roles |-> roles, ver |-> ver + 1] \in Config
  BY <1>2 DEF Config
<1>4. (IF row[s] = NoServer THEN ver + 1 ELSE row[s]) \in ServerId
  BY <1>2 DEF Types, ServerId
<1> QED BY <1>1, <1>2, <1>3, <1>4

LEMMA RotateIs ==
    ASSUME Types, RotateSecret
    PROVE  \E s \in Slug, o \in Owner, set \in BOOLEAN :
             /\ row[s] # NoServer
             /\ o = Shared => spec[s] # Absent
             /\ secret' = [secret EXCEPT ![row[s]][o] = [set |-> set, ver |-> rot + 1]]
             /\ bus' = Append(bus, IF o = Shared THEN Upsert(s, spec[s])
                                   ELSE CredentialChanged(s, o))
             /\ (IF o = Shared THEN Upsert(s, spec[s]) ELSE CredentialChanged(s, o))
                   \in Announced
             /\ rot' = rot + 1
<1>1. PICK s \in Slug, o \in Owner :
        /\ row[s] # NoServer
        /\ o = Shared => spec[s] # Absent
        /\ SetSecret(row[s], o)
        /\ bus' = Append(bus, IF o = Shared THEN Upsert(s, spec[s])
                              ELSE CredentialChanged(s, o))
  BY DEF RotateSecret
<1>2. PICK set \in BOOLEAN :
        secret' = [secret EXCEPT ![row[s]][o] = [set |-> set, ver |-> rot + 1]]
  BY <1>1 DEF SetSecret
<1>3. (IF o = Shared THEN Upsert(s, spec[s]) ELSE CredentialChanged(s, o)) \in Announced
  <2>1. CASE o = Shared
    <3>1. spec[s] \in Config
      BY <1>1, <2>1 DEF Types
    <3> QED BY <2>1, <3>1 DEF Upsert, Announced
  <2>2. CASE o # Shared
    BY <1>1, <2>2 DEF Owner, CredentialChanged, Announced
  <2> QED BY <2>1, <2>2
<1>4. rot' = rot + 1
  BY <1>1 DEF SetSecret
<1> QED BY <1>1, <1>2, <1>3, <1>4

LEMMA ControlTypes == ASSUME Types, Control PROVE Types'
<1> USE RegistryAssumption
<1>1. CASE PublishUpsert
  <2>1. PICK s \in Slug, m \in Mode, roles \in SUBSET Role, id \in ServerId :
          LET cfg == [mode |-> m, roles |-> roles, ver |-> ver + 1] IN
          /\ cfg \in Config /\ ver + 1 \in 1..MaxVer
          /\ row' = [row EXCEPT ![s] = id]
          /\ home' = [home EXCEPT ![ver + 1] = id]
          /\ spec' = [spec EXCEPT ![s] = cfg]
          /\ bus' = Append(bus, Upsert(s, cfg))
    BY <1>1, UpsertIs
  <2> DEFINE cfg == [mode |-> m, roles |-> roles, ver |-> ver + 1]
  <2>2. ver' = ver + 1 /\ ver' \in 0..MaxVer
    BY <1>1, <2>1 DEF PublishUpsert
  <2>3. Upsert(s, cfg) \in Announced
    BY <2>1 DEF Upsert, Announced
  <2>4. bus' \in Seq(Announced) /\ spec' \in [Slug -> {Absent} \union Config]
    BY <2>1, <2>3, AppendOf DEF Types
  <2>5. row' \in [Slug -> ServerId] /\ home' \in [0..MaxVer -> ServerId]
    BY <2>1 DEF Types
  <2> QED BY <1>1, <2>2, <2>4, <2>5 DEF PublishUpsert, Types, registry, objects
<1>2. CASE PublishRemove
  <2>1. PICK s \in Slug :
          /\ spec' = [spec EXCEPT ![s] = Absent] /\ bus' = Append(bus, Removal(s))
          /\ row' \in {row, [row EXCEPT ![s] = NoServer]}
    BY <1>2 DEF PublishRemove
  <2>2. ver' = ver + 1 /\ ver' \in 0..MaxVer
    BY <1>2 DEF PublishRemove, Types
  <2>3. Removal(s) \in Announced
    BY DEF Removal, Announced
  <2>4. bus' \in Seq(Announced) /\ spec' \in [Slug -> {Absent} \union Config]
    BY <2>1, <2>3, AppendOf DEF Types
  <2>5. row' \in [Slug -> ServerId]
    <3>1. NoServer \in ServerId
      BY DEF NoServer, ServerId
    <3>2. row \in [Slug -> ServerId]
      BY DEF Types
    <3> QED BY <2>1, <3>1, <3>2
  <2> QED BY <1>2, <2>2, <2>4, <2>5 DEF PublishRemove, Types, registry, objects
<1>3. CASE RotateSecret
  <2>1. PICK s \in Slug, o \in Owner, set \in BOOLEAN :
          /\ secret' = [secret EXCEPT ![row[s]][o] = [set |-> set, ver |-> rot + 1]]
          /\ bus' = Append(bus, IF o = Shared THEN Upsert(s, spec[s])
                                ELSE CredentialChanged(s, o))
          /\ (IF o = Shared THEN Upsert(s, spec[s]) ELSE CredentialChanged(s, o))
                \in Announced
          /\ rot' = rot + 1
    BY <1>3, RotateIs
  <2>2. bus' \in Seq(Announced) /\ rot' \in Nat
    BY <2>1, AppendOf DEF Types
  <2>3. secret' \in [ServerId -> [Owner -> [set : BOOLEAN, ver : Nat]]]
    <3>1. [set |-> set, ver |-> rot + 1] \in [set : BOOLEAN, ver : Nat]
      BY DEF Types
    <3> QED BY <2>1, <3>1 DEF Types
  <2> QED BY <1>3, <2>2, <2>3 DEF RotateSecret, Types, registry, objects
<1> QED BY <1>1, <1>2, <1>3 DEF Control

LEMMA StepTypes == Types /\ [Next]_vars => Types'
<1> SUFFICES ASSUME Types, [Next]_vars PROVE Types'
  OBVIOUS
<1>1. ASSUME NEW p \in Proc, CallCheck(p) \/ ListCheck(p) \/ GetForUser(p) \/ Calling(p)
      PROVE  Types'
  BY <1>1, RequestStepsTypes
<1>2. CASE Loop
  BY <1>2, LoopTypes
<1>3. CASE Control
  BY <1>3, ControlTypes
<1>4. CASE UNCHANGED vars
  BY <1>4 DEF vars, Types
<1> QED BY <1>1, <1>2, <1>3, <1>4 DEF Next, Control, Calling

(* The registry, the objects, the requests, the loop, the bus and the secret
   store are well typed, whatever the interleaving. *)
THEOREM TypesAlways == Spec => []Types
<1> QED BY InitTypes, StepTypes, PTL DEF Spec
-----------------------------------------------------------------------------
(* Owners. *)

LEMMA InitOwned == Init => Owned
<1> SUFFICES ASSUME Init PROVE Owned
  OBVIOUS
<1>1. /\ \A s \in Slug : Held(servers[s]) = {} /\ servers[s].mode = "absent"
      /\ \A p \in Proc : BuiltBy(p) = {} /\ req[p].pc = "idle"
  BY DEF Init, Held, BuiltBy, Idle, Absent
<1>2. Built = {} /\ Adding = {} /\ loop.closing = {}
  BY DEF Init, Built, Fresh, Adding, Resting
<1>3. Whose
  BY <1>1, <1>2 DEF Whose, EntriesOwn, RequestOwns, LoopOwns, Init
<1>4. NothingLost /\ OneOwner
  BY <1>1, <1>2 DEF NothingLost, OneOwner, Init, Cached, InHand
<1> QED BY <1>3, <1>4 DEF Owned

(* What there is of objects stays with its owner. *)
SameObjects ==
    /\ Built \subseteq Built'
    /\ \A i \in Built : obj'[i].slug = obj[i].slug /\ obj'[i].owner = obj[i].owner

LEMMA KeepEntries ==
    ASSUME Types, Owned, SameObjects, UNCHANGED servers
    PROVE  EntriesOwn'
<1> SUFFICES ASSUME NEW s \in Slug
             PROVE  LET e == servers[s] IN
                    /\ \A i \in Held(e) : i \in Built' /\ obj'[i].slug = s
                    /\ e.mode = "shared" => obj'[e.ds].owner = Shared
                    /\ e.mode = "per_user" =>
                          \A u \in User : e.users[u] # NoInst => obj'[e.users[u]].owner = u
  BY DEF EntriesOwn
<1> DEFINE e == servers[s]
<1>1. e \in Entry
  BY DEF Types
<1>2. \A i \in Held(e) : i \in Built /\ obj[i].slug = s
  BY DEF Owned, Whose, EntriesOwn
<1>3. e.mode = "shared" => e.ds \in Built /\ obj[e.ds].owner = Shared
  BY <1>1, <1>2, HeldIs DEF Owned, Whose, EntriesOwn
<1>4. e.mode = "per_user" => \A u \in User : e.users[u] # NoInst =>
          e.users[u] \in Built /\ obj[e.users[u]].owner = u
  BY <1>1, <1>2, HeldIs, EntryParts DEF Owned, Whose, EntriesOwn
<1> QED BY <1>2, <1>3, <1>4 DEF SameObjects

LEMMA KeepRequest ==
    ASSUME Owned, SameObjects, NEW p \in Proc, req'[p] = req[p]
    PROVE  RequestOwns(p)' /\ BuiltBy(p)' = BuiltBy(p)
<1>1. BuiltBy(p)' = BuiltBy(p)
  BY DEF BuiltBy
<1>2. RequestOwns(p)
  BY DEF Owned, Whose
<1> QED BY <1>1, <1>2 DEF RequestOwns, SameObjects

LEMMA KeepLoop ==
    ASSUME Owned, SameObjects, UNCHANGED loop
    PROVE  LoopOwns' /\ Adding' = Adding
<1>1. Adding' = Adding
  BY DEF Adding
<1> QED BY <1>1 DEF Owned, Whose, LoopOwns, SameObjects

(* Nothing that is about owners changes. *)
LEMMA KeepOwned ==
    ASSUME Owned, UNCHANGED <<servers, obj, closed, req, loop>>
    PROVE  Owned'
<1>1. /\ Built' = Built /\ Cached' = Cached /\ Adding' = Adding
      /\ \A q \in Proc : BuiltBy(q)' = BuiltBy(q)
  BY DEF Built, Fresh, Cached, Adding, BuiltBy
<1>2. InHand' = InHand
  BY <1>1 DEF InHand
<1>3. Whose'
  BY <1>1 DEF Owned, Whose, EntriesOwn, RequestOwns, LoopOwns
<1>4. NothingLost' /\ OneOwner'
  BY <1>1, <1>2 DEF Owned, NothingLost, OneOwner
<1> QED BY <1>3, <1>4 DEF Owned

(* One request, without an object of its own before and after, goes on. *)
LEMMA RequestOwned ==
    ASSUME Types, Owned, Types', NEW p \in Proc,
           UNCHANGED <<servers, obj, closed, loop>>,
           \A q \in Proc : q # p => req'[q] = req[q],
           BuiltBy(p) = {},
           req'[p].pc \notin {"store", "discard"},
           req'[p].pc = "use" =>
              LET i == req'[p].inst IN
              /\ i \in Built
              /\ obj[i].slug = Head(req'[p].todo)
              /\ obj[i].owner \in {req'[p].user, Shared}
    PROVE  Owned'
<1>1. /\ Built' = Built /\ Cached' = Cached /\ Adding' = Adding
      /\ \A q \in Proc : BuiltBy(q)' = BuiltBy(q)
  BY DEF Built, Fresh, Cached, Adding, BuiltBy
<1>2. InHand' = InHand
  BY <1>1 DEF InHand
<1>3. Whose'
  BY <1>1 DEF Owned, Whose, EntriesOwn, RequestOwns, LoopOwns
<1>4. NothingLost' /\ OneOwner'
  BY <1>1, <1>2 DEF Owned, NothingLost, OneOwner
<1> QED BY <1>3, <1>4 DEF Owned

LEMMA BeginOwned ==
    ASSUME Types, Owned, Types', NEW p \in Proc, CallCheck(p) \/ ListCheck(p)
    PROVE  Owned'
<1>1. /\ UNCHANGED <<registry, objects, control, loop>>
      /\ req[p].pc = "idle"
      /\ \E user \in User, roles \in SUBSET Role, todo \in Seq(Slug) :
            todo # <<>> /\ Begin(p, user, roles, todo)
  <2>1. CASE CallCheck(p)
    <3>1. \A s \in Slug : <<s>> \in Seq(Slug) /\ <<s>> # <<>>
      OBVIOUS
    <3> QED BY <2>1, <3>1 DEF CallCheck, Registered
  <2>2. CASE ListCheck(p)
    BY <2>2, VisibleSlugsAre DEF ListCheck
  <2> QED BY <2>1, <2>2
<1>2. req'[p].pc = "lookup" /\ \A q \in Proc : q # p => req'[q] = req[q]
  <2>1. PICK user \in User, roles \in SUBSET Role, todo \in Seq(Slug) :
          todo # <<>> /\ Begin(p, user, roles, todo)
    BY <1>1
  <2> QED BY <2>1, BeginTypes
<1>3. UNCHANGED <<servers, obj, closed, loop>> /\ BuiltBy(p) = {}
  BY <1>1 DEF registry, objects, BuiltBy
<1> QED BY <1>2, <1>3, RequestOwned

(* An instance found in the registry is of the server and of the user. *)
LEMMA FoundIs ==
    ASSUME Types, Owned, NEW s \in Slug, NEW u \in User, servers[s] # Absent,
           Found(servers[s], u) # NoInst
    PROVE  LET i == Found(servers[s], u) IN
           i \in Built /\ i \in Inst /\ obj[i].slug = s /\ obj[i].owner \in {u, Shared}
<1> DEFINE e == servers[s]
<1>0. e \in Entry
  BY DEF Types
<1>1. CASE e.mode = "shared"
  <2>1. Found(e, u) = e.ds /\ e.ds \in Held(e)
    BY <1>0, <1>1, EntryParts, HeldIs, RegistryAssumption DEF Found
  <2> QED BY <1>0, <1>1, <2>1, HeldIs DEF Owned, Whose, EntriesOwn, RequestOwns, LoopOwns
<1>2. CASE e.mode = "per_user"
  <2>1. Found(e, u) = e.users[u] /\ e.users[u] \in Held(e)
    BY <1>0, <1>2, EntryParts, HeldIs, RegistryAssumption DEF Found
  <2> QED BY <1>0, <1>2, <2>1, HeldIs DEF Owned, Whose, EntriesOwn, RequestOwns, LoopOwns
<1> QED BY <1>0, <1>1, <1>2, EntryParts

LEMMA LookupOwned ==
    ASSUME Types, Owned, Types', NEW p \in Proc, Lookup(p)
    PROVE  Owned'
<1> DEFINE s == Head(req[p].todo)
           e == servers[s]
           u == req[p].user
<1>1. /\ req[p].pc = "lookup" /\ UNCHANGED <<registry, objects, control, loop>>
      /\ s \in Slug /\ u \in User /\ req[p] \in Asking
  BY AskingParts DEF Types, Lookup
<1>2. UNCHANGED <<servers, obj, closed, loop>> /\ BuiltBy(p) = {}
  BY <1>1 DEF registry, objects, BuiltBy
<1>4. CASE NextSlug(p)
  <2>1. req'[p].pc \in {"idle", "lookup"} /\ \A q \in Proc : q # p => req'[q] = req[q]
    BY <1>1, <1>4, NextSlugTypes DEF Idle
  <2> QED BY <1>2, <2>1, RequestOwned
<1>5. CASE e # Absent /\ Found(e, u) # NoInst /\ UseInst(p, Found(e, u))
  <2> DEFINE i == Found(e, u)
  <2>1. i \in Built /\ i \in Inst /\ obj[i].slug = s /\ obj[i].owner \in {u, Shared}
    BY <1>1, <1>5, FoundIs
  <2>2. /\ req'[p].pc = "use" /\ req'[p].inst = i
        /\ req'[p].todo = req[p].todo /\ req'[p].user = u
        /\ \A q \in Proc : q # p => req'[q] = req[q]
    BY <1>1, <1>5, <2>1, UseInstTypes
  <2> HIDE DEF i
  <2> QED BY <1>2, <2>1, <2>2, RequestOwned
<1>6. CASE req' = [req EXCEPT ![p] = [@ EXCEPT !.pc = "build", !.prov = e.ver]]
  <2>1. req'[p].pc = "build" /\ \A q \in Proc : q # p => req'[q] = req[q]
    BY <1>1, <1>6 DEF Types, Asking
  <2> QED BY <1>2, <2>1, RequestOwned
<1> QED BY <1>4, <1>5, <1>6 DEF Lookup

LEMMA CallingOwned ==
    ASSUME Types, Owned, Types', NEW p \in Proc, Calling(p)
    PROVE  Owned'
<1>1. /\ req[p].pc \in {"use", "handshake"} /\ UNCHANGED <<registry, objects, control, loop>>
      /\ \A q \in Proc : q # p => req'[q] = req[q]
      /\ NextSlug(p) \/ req'[p].pc = "handshake"
  BY CallingTypes
<1>2. req'[p].pc \in {"idle", "lookup", "handshake"}
  BY <1>1, NextSlugTypes DEF Idle
<1>3. UNCHANGED <<servers, obj, closed, loop>> /\ BuiltBy(p) = {}
  BY <1>1 DEF registry, objects, BuiltBy
<1> QED BY <1>1, <1>2, <1>3, RequestOwned

(* An object is made: nobody had it. *)
LEMMA Making ==
    ASSUME Types, Owned, NEW i \in Fresh, NEW s \in Slug, NEW o \in Owner,
           NEW v \in 0..MaxVer, NEW x \in Int, MakeObject(i, s, o, v, x)
    PROVE  /\ i \in Inst /\ i \notin Built /\ i \notin closed
           /\ Built' = Built \union {i}
           /\ obj'[i].slug = s /\ obj'[i].owner = o
           /\ \A j \in Built : obj'[j] = obj[j]
           /\ SameObjects
<1>1. i \in Inst /\ i \notin Built
  BY DEF Fresh, Built
<1>2. /\ \A j \in Inst : j # i => obj'[j] = obj[j]
      /\ obj'[i] \in Object /\ obj'[i].slug = s /\ obj'[i].owner = o
  BY <1>1, MakeObjectTypes
<1>3. obj'[i] # Unbuilt
  BY <1>2, UnbuiltIsNone
<1>4. Built' = Built \union {i}
  BY <1>1, <1>2, <1>3 DEF Built, Fresh
<1>5. i \notin closed
  BY <1>1 DEF Owned, Whose, EntriesOwn, RequestOwns, LoopOwns
<1>6. \A j \in Built : j \in Inst /\ j # i
  BY <1>1 DEF Built
<1> QED BY <1>1, <1>2, <1>4, <1>5, <1>6 DEF SameObjects

LEMMA BuildOwned ==
    ASSUME Types, Owned, Types', NEW p \in Proc, Build(p)
    PROVE  Owned'
<1> DEFINE s == Head(req[p].todo)
           u == req[p].user
           x == Credentials(req[p].prov, u).ver
<1>1. /\ req[p].pc = "build" /\ UNCHANGED <<registry, closed, control, loop>>
      /\ s \in Slug /\ u \in User /\ req[p] \in Asking /\ req[p].prov \in 0..MaxVer
  BY AskingParts DEF Types, Build
<1>2. UNCHANGED <<servers, closed, loop>> /\ BuiltBy(p) = {}
  BY <1>1 DEF registry, BuiltBy
<1>3. CASE NextSlug(p) /\ UNCHANGED obj
  <2>1. req'[p].pc \in {"idle", "lookup"} /\ \A q \in Proc : q # p => req'[q] = req[q]
    BY <1>1, <1>3, NextSlugTypes DEF Idle
  <2> QED BY <1>2, <1>3, <2>1, RequestOwned
<1>4. CASE \E i \in Fresh :
            /\ MakeObject(i, s, u, req[p].prov, x)
            /\ req' = [req EXCEPT ![p] = [@ EXCEPT !.pc = "store", !.mine = i]]
  <2>1. PICK i \in Fresh :
            /\ MakeObject(i, s, u, req[p].prov, x)
            /\ req' = [req EXCEPT ![p] = [@ EXCEPT !.pc = "store", !.mine = i]]
    BY <1>4
  <2>2. /\ i \in Inst /\ i \notin Built /\ i \notin closed
        /\ Built' = Built \union {i}
        /\ obj'[i].slug = s /\ obj'[i].owner = u
        /\ \A j \in Built : obj'[j] = obj[j]
        /\ SameObjects
    <3>1. u \in Owner /\ x \in Int
      BY <1>1, CredentialsTypes DEF Owner
    <3> HIDE DEF x
    <3> QED BY <1>1, <2>1, <3>1, Making
  <2>3. /\ req'[p].pc = "store" /\ req'[p].mine = i
        /\ req'[p].todo = req[p].todo /\ req'[p].user = u
        /\ \A q \in Proc : q # p => req'[q] = req[q]
    BY <1>1, <2>1 DEF Types, Asking
  <2>4. /\ BuiltBy(p)' = {i} /\ \A q \in Proc : q # p => BuiltBy(q)' = BuiltBy(q)
    BY <2>3 DEF BuiltBy
  <2>5. Cached' = Cached /\ Adding' = Adding /\ InHand' = InHand \union {i}
    <3>1. Cached' = Cached /\ Adding' = Adding
      BY <1>2 DEF Cached, Adding
    <3>2. InHand' = InHand \union {i}
      BY <1>2, <2>4 DEF InHand
    <3> QED BY <3>1, <3>2
  <2>6. /\ Cached \subseteq Built /\ InHand \subseteq Built /\ Adding \subseteq Built
        /\ loop.closing \subseteq Built
    BY DEF Owned, Whose, EntriesOwn, RequestOwns, LoopOwns, Cached, InHand
  <2>7. NothingLost' /\ OneOwner'
    <3>1. NothingLost'
      BY <1>2, <2>2, <2>5 DEF Owned, NothingLost
    <3>2. \A q \in Proc : BuiltBy(q) \subseteq Built
      BY DEF Owned, Whose, EntriesOwn, RequestOwns, LoopOwns
    <3>3. \A q, r \in Proc : q # r => BuiltBy(q)' \intersect BuiltBy(r)' = {}
      BY <2>2, <2>4, <3>2 DEF Owned, OneOwner
    <3> QED BY <1>2, <2>2, <2>5, <2>6, <3>1, <3>3 DEF Owned, OneOwner
  <2>8. Whose'
    <3>1. EntriesOwn' /\ LoopOwns' /\ \A q \in Proc : q # p => RequestOwns(q)'
      BY <1>2, <2>2, <2>3, KeepEntries, KeepLoop, KeepRequest
    <3>2. RequestOwns(p)'
      BY <2>2, <2>3, <2>4 DEF RequestOwns
    <3> QED BY <1>2, <2>2, <3>1, <3>2 DEF Owned, Whose
  <2> QED BY <2>7, <2>8 DEF Owned
<1> QED BY <1>3, <1>4 DEF Build

(* Everything somebody has is built. *)
LEMMA Places ==
    ASSUME Types, Owned
    PROVE  /\ Cached \subseteq Built /\ InHand \subseteq Built
           /\ Adding \subseteq Built /\ loop.closing \subseteq Built
           /\ closed \subseteq Built /\ Built \subseteq Inst
           /\ \A p \in Proc : BuiltBy(p) \subseteq InHand
           /\ \A s \in Slug : Held(servers[s]) \subseteq Cached
<1>1. Cached \subseteq Built /\ InHand \subseteq Built /\ Adding \subseteq Built
  BY DEF Owned, Whose, EntriesOwn, RequestOwns, LoopOwns, Cached, InHand
<1> QED BY <1>1 DEF Owned, Whose, LoopOwns, Cached, InHand, Built

(* A request's object is a user's, the one the loop is about to add is not. *)
LEMMA AddingApart ==
    ASSUME Types, Owned
    PROVE  Adding \intersect InHand = {} /\ Adding \intersect loop.closing = {}
<1>1. \A i \in Adding : obj[i].owner = Shared
  BY DEF Owned, Whose, LoopOwns
<1>2. \A i \in InHand : obj[i].owner \in User
  <2>1. ASSUME NEW p \in Proc, NEW i \in BuiltBy(p) PROVE obj[i].owner \in User
    <3>1. req[p].pc # "idle" /\ obj[i].owner = req[p].user
      BY <2>1 DEF BuiltBy, Owned, Whose, RequestOwns
    <3> QED BY <3>1, AskingParts DEF Types
  <2> QED BY <2>1 DEF InHand
<1>3. Adding \intersect loop.closing = {}
  BY LoopingParts DEF Types, Adding
<1> QED BY <1>1, <1>2, <1>3, RegistryAssumption

(* A request that built an object keeps it. *)
LEMMA KeepsItsOwn ==
    ASSUME Types, Owned, NEW p \in Proc,
           UNCHANGED <<servers, obj, closed, loop>>,
           \A q \in Proc : q # p => req'[q] = req[q],
           BuiltBy(p)' = BuiltBy(p), RequestOwns(p)'
    PROVE  Owned'
<1>1. /\ Built' = Built /\ Cached' = Cached /\ Adding' = Adding
      /\ \A q \in Proc : BuiltBy(q)' = BuiltBy(q)
  BY DEF Built, Fresh, Cached, Adding, BuiltBy
<1>2. InHand' = InHand
  BY <1>1 DEF InHand
<1>3. Whose'
  BY <1>1 DEF Owned, Whose, EntriesOwn, RequestOwns, LoopOwns
<1>4. NothingLost' /\ OneOwner'
  BY <1>1, <1>2 DEF Owned, NothingLost, OneOwner
<1> QED BY <1>3, <1>4 DEF Owned

(* The objects of an entry with one user's instance changed. *)
LEMMA OneUserChanged ==
    ASSUME NEW e \in UserEntry, NEW u \in User, NEW i \in Inst \union {NoInst}
    PROVE  LET f == [e EXCEPT !.users[u] = i] IN
           /\ f \in UserEntry /\ f \in Entry /\ f.mode = "per_user" /\ f.users[u] = i
           /\ f.ver = e.ver /\ f.roles = e.roles
           /\ \A w \in User : w # u => f.users[w] = e.users[w]
BY DEF UserEntry, Entry

LEMMA StoreOwned ==
    ASSUME Types, Owned, Types', NEW p \in Proc, Store(p)
    PROVE  Owned'
<1> DEFINE s == Head(req[p].todo)
           e == servers[s]
           u == req[p].user
           i == req[p].mine
<1>1. /\ req[p].pc = "store" /\ UNCHANGED <<order, objects, control, loop>>
      /\ s \in Slug /\ u \in User /\ req[p] \in Asking /\ e \in Entry /\ i \in Inst
  BY AskingParts DEF Types, Store
<1>2. /\ UNCHANGED <<obj, closed, loop>> /\ BuiltBy(p) = {i}
      /\ i \in Built /\ obj[i].slug = s /\ obj[i].owner = u
  BY <1>1 DEF objects, BuiltBy, Owned, Whose, RequestOwns
<1>3. CASE /\ e.mode # "per_user" /\ UNCHANGED servers
           /\ req' = [req EXCEPT ![p] = [@ EXCEPT !.pc = "discard", !.inst = NoInst]]
  <2>1. /\ req'[p].pc = "discard" /\ req'[p].inst = NoInst /\ req'[p].mine = i
        /\ req'[p].todo = req[p].todo /\ req'[p].user = u
        /\ \A q \in Proc : q # p => req'[q] = req[q]
    BY <1>1, <1>3 DEF Types, Asking
  <2>2. BuiltBy(p)' = {i} /\ Built' = Built
    BY <1>2, <2>1 DEF BuiltBy, Built, Fresh
  <2>3. RequestOwns(p)'
    BY <1>2, <2>1, <2>2 DEF RequestOwns
  <2> QED BY <1>2, <1>3, <2>1, <2>2, <2>3, KeepsItsOwn
<1>4. CASE /\ e.mode = "per_user" /\ e.users[u] # NoInst /\ UNCHANGED servers
           /\ req' = [req EXCEPT ![p] = [@ EXCEPT !.pc = "discard", !.inst = e.users[u]]]
  <2>1. /\ req'[p].pc = "discard" /\ req'[p].inst = e.users[u] /\ req'[p].mine = i
        /\ req'[p].todo = req[p].todo /\ req'[p].user = u
        /\ \A q \in Proc : q # p => req'[q] = req[q]
    BY <1>1, <1>4 DEF Types, Asking
  <2>2. BuiltBy(p)' = {i} /\ Built' = Built
    BY <1>2, <2>1 DEF BuiltBy, Built, Fresh
  <2>3. e.users[u] \in Inst /\ e.users[u] \in Held(e)
    BY <1>1, <1>4, EntryParts, HeldIs
  <2>4. e.users[u] \in Built /\ obj[e.users[u]].slug = s /\ obj[e.users[u]].owner = u
    BY <1>1, <1>4, <2>3 DEF Owned, Whose, EntriesOwn
  <2>5. RequestOwns(p)'
    BY <1>2, <2>1, <2>2, <2>4 DEF RequestOwns
  <2> QED BY <1>2, <1>4, <2>1, <2>2, <2>5, KeepsItsOwn
<1>5. CASE /\ e.mode = "per_user" /\ e.users[u] = NoInst
           /\ servers' = [servers EXCEPT ![s] = [e EXCEPT !.users[u] = i]]
           /\ UseInst(p, i)
  <2> DEFINE f == [e EXCEPT !.users[u] = i]
  <2>1. /\ req'[p].pc = "use" /\ req'[p].inst = i
        /\ req'[p].todo = req[p].todo /\ req'[p].user = u
        /\ \A q \in Proc : q # p => req'[q] = req[q]
    BY <1>1, <1>5, UseInstTypes
  <2>2. /\ BuiltBy(p)' = {} /\ Built' = Built /\ Adding' = Adding
        /\ \A q \in Proc : q # p => BuiltBy(q)' = BuiltBy(q)
    BY <1>2, <2>1 DEF BuiltBy, Built, Fresh, Adding
  <2>3. /\ f \in Entry /\ f.mode = "per_user" /\ f.users[u] = i
        /\ \A w \in User : w # u => f.users[w] = e.users[w]
    BY <1>1, <1>5, EntryParts, OneUserChanged
  <2>4. servers'[s] = f /\ \A t \in Slug : t # s => servers'[t] = servers[t]
    BY <1>1, <1>5 DEF Types
  <2> HIDE DEF f
  <2>5. Held(f) = Held(e) \union {i}
    <3>1. \A j \in Inst : j \in Held(f) <=> \E w \in User : f.users[w] = j
      BY <2>3, HeldIs
    <3>2. \A j \in Inst : j \in Held(e) <=> \E w \in User : e.users[w] = j
      BY <1>1, <1>5, HeldIs
    <3>3. Held(f) \subseteq Inst /\ Held(e) \subseteq Inst
      BY <1>1, <2>3, HeldIs
    <3>4. \A j \in Inst : j \in Held(f) <=> j \in Held(e) \union {i}
      BY <1>1, <1>5, <2>3, <3>1, <3>2, RegistryAssumption
    <3> QED BY <1>1, <3>3, <3>4
  <2>6. /\ Held(servers'[s]) = Held(e) \union {i}
        /\ \A t \in Slug : t # s => Held(servers'[t]) = Held(servers[t])
    BY <2>4, <2>5
  <2>7. Cached' = Cached \union {i}
    BY <1>1, <2>6 DEF Cached
  <2>8. \A q \in Proc : q # p => i \notin BuiltBy(q)
    BY <1>2 DEF Owned, OneOwner
  <2>9. InHand' = InHand \ {i} /\ i \in InHand
    BY <1>2, <2>2, <2>8 DEF InHand
  <2>10. i \notin Cached /\ i \notin closed /\ i \notin Adding /\ i \notin loop.closing
    BY <1>2, <2>9, AddingApart DEF Owned, OneOwner
  <2>11. NothingLost'
    BY <1>2, <2>2, <2>7, <2>9 DEF Owned, NothingLost
  <2>12. OneOwner'
    <3>1. \A q, r \in Proc : q # r => BuiltBy(q)' \intersect BuiltBy(r)' = {}
      BY <2>2 DEF Owned, OneOwner
    <3>2. \A t, w \in Slug : t # w => Held(servers'[t]) \intersect Held(servers'[w]) = {}
      <4>1. \A t \in Slug : i \notin Held(servers[t])
        BY <2>10, Places
      <4> QED BY <1>1, <2>6, <4>1 DEF Owned, OneOwner
    <3> QED BY <1>2, <2>2, <2>7, <2>9, <2>10, <3>1, <3>2 DEF Owned, OneOwner
  <2>13. EntriesOwn'
    <3>1. ASSUME NEW t \in Slug
          PROVE  LET g == servers'[t] IN
                 /\ \A j \in Held(g) : j \in Built' /\ obj'[j].slug = t
                 /\ g.mode = "shared" => obj'[g.ds].owner = Shared
                 /\ g.mode = "per_user" =>
                       \A w \in User : g.users[w] # NoInst => obj'[g.users[w]].owner = w
      <4>0. /\ \A j \in Held(e) : j \in Built /\ obj[j].slug = s
            /\ \A w \in User : e.users[w] # NoInst => obj[e.users[w]].owner = w
        BY <1>1, <1>5 DEF Owned, Whose, EntriesOwn
      <4>1. CASE t = s
        <5>1. \A j \in Held(f) : j \in Built /\ obj[j].slug = s
          BY <1>2, <2>5, <4>0
        <5>2. \A w \in User : f.users[w] # NoInst => obj[f.users[w]].owner = w
          BY <1>2, <2>3, <4>0
        <5> QED BY <1>2, <2>2, <2>3, <2>4, <4>1, <5>1, <5>2
      <4>2. CASE t # s
        BY <1>2, <2>2, <2>4, <4>2 DEF Owned, Whose, EntriesOwn
      <4> QED BY <4>1, <4>2
    <3> QED BY <3>1 DEF EntriesOwn
  <2>14. RequestOwns(p)'
    BY <1>2, <2>1, <2>2 DEF RequestOwns
  <2>15. SameObjects
    BY <1>2, <2>2 DEF SameObjects
  <2>16. LoopOwns' /\ \A q \in Proc : RequestOwns(q)'
    BY <1>2, <2>1, <2>14, <2>15, KeepLoop, KeepRequest
  <2> QED BY <1>2, <2>2, <2>11, <2>12, <2>13, <2>16 DEF Owned, Whose
<1> QED BY <1>3, <1>4, <1>5 DEF Store

LEMMA DiscardOwned ==
    ASSUME Types, Owned, Types', NEW p \in Proc, Discard(p)
    PROVE  Owned'
<1> DEFINE i == req[p].mine
<1>1. /\ req[p].pc = "discard" /\ UNCHANGED <<registry, obj, control, loop>>
      /\ closed' = closed \union {i}
      /\ req[p] \in Asking /\ i \in Inst
  BY AskingParts DEF Types, Discard, CloseObject
<1>2. UNCHANGED <<servers, obj, loop>> /\ BuiltBy(p) = {i} /\ i \in Built
  BY <1>1 DEF registry, BuiltBy, Owned, Whose, RequestOwns
<1>3. /\ \A q \in Proc : q # p => req'[q] = req[q]
      /\ req'[p].pc \in {"idle", "lookup", "use"}
      /\ RequestOwns(p)'
  <2>1. CASE req[p].inst = NoInst /\ NextSlug(p)
    <3>1. /\ \A q \in Proc : q # p => req'[q] = req[q]
          /\ req'[p].pc \in {"idle", "lookup"}
      BY <1>1, <2>1, NextSlugTypes DEF Idle
    <3> QED BY <3>1 DEF RequestOwns, BuiltBy
  <2>2. CASE req[p].inst # NoInst /\ UseInst(p, req[p].inst)
    <3>1. req[p].inst \in Inst
      BY <1>1, <2>2, AskingParts
    <3>2. /\ req'[p].pc = "use" /\ req'[p].inst = req[p].inst
          /\ req'[p].todo = req[p].todo /\ req'[p].user = req[p].user
          /\ \A q \in Proc : q # p => req'[q] = req[q]
      BY <1>1, <2>2, <3>1, UseInstTypes
    <3>3. LET j == req[p].inst IN
          /\ j \in Built /\ obj[j].slug = Head(req[p].todo)
          /\ obj[j].owner \in {req[p].user, Shared}
      BY <1>1, <2>2 DEF Owned, Whose, RequestOwns
    <3>4. Built' = Built /\ BuiltBy(p)' = {}
      BY <1>2, <3>2 DEF Built, Fresh, BuiltBy
    <3> QED BY <1>2, <3>2, <3>3, <3>4 DEF RequestOwns
  <2> QED BY <1>1, <2>1, <2>2 DEF Discard
<1>4. /\ BuiltBy(p)' = {} /\ Built' = Built /\ Adding' = Adding /\ Cached' = Cached
      /\ \A q \in Proc : q # p => BuiltBy(q)' = BuiltBy(q)
  BY <1>2, <1>3 DEF BuiltBy, Built, Fresh, Adding, Cached
<1>5. \A q \in Proc : q # p => i \notin BuiltBy(q)
  BY <1>2 DEF Owned, OneOwner
<1>6. InHand' = InHand \ {i} /\ i \in InHand
  BY <1>2, <1>4, <1>5 DEF InHand
<1>7. i \notin Cached /\ i \notin closed /\ i \notin Adding /\ i \notin loop.closing
  BY <1>2, <1>6, AddingApart DEF Owned, OneOwner
<1>8. NothingLost'
  BY <1>1, <1>2, <1>4, <1>6 DEF Owned, NothingLost
<1>9. OneOwner'
  <2>1. \A q, r \in Proc : q # r => BuiltBy(q)' \intersect BuiltBy(r)' = {}
    BY <1>4 DEF Owned, OneOwner
  <2> QED BY <1>1, <1>2, <1>4, <1>6, <1>7, <2>1 DEF Owned, OneOwner
<1>10. SameObjects
  BY <1>2, <1>4 DEF SameObjects
<1>11. EntriesOwn' /\ LoopOwns' /\ \A q \in Proc : RequestOwns(q)'
  BY <1>2, <1>3, <1>10, KeepEntries, KeepLoop, KeepRequest
<1> QED BY <1>1, <1>2, <1>4, <1>8, <1>9, <1>11 DEF Owned, Whose

(* An event that the registry does not care about. *)
LEMMA IgnoreOwned ==
    ASSUME Types, Owned, Types', IgnoreEvent
    PROVE  Owned'
<1>1. UNCHANGED <<registry, closed, req, loop, stored, ver, rot>>
  BY DEF IgnoreEvent
<1>2. CASE UNCHANGED obj
  BY <1>1, <1>2, KeepOwned DEF registry
<1>3. CASE MarkLate(Event.slug, Event.user)
  <2>1. Built' = Built /\ SameObjects
    BY <1>3, MarkLateTypes DEF Built, Fresh, SameObjects
  <2>2. /\ Cached' = Cached /\ Adding' = Adding
        /\ \A q \in Proc : BuiltBy(q)' = BuiltBy(q)
    BY <1>1 DEF registry, Cached, Adding, BuiltBy
  <2>3. InHand' = InHand
    BY <2>2 DEF InHand
  <2>4. EntriesOwn' /\ LoopOwns' /\ \A q \in Proc : RequestOwns(q)'
    BY <1>1, <2>1, KeepEntries, KeepLoop, KeepRequest DEF registry
  <2>5. NothingLost' /\ OneOwner'
    BY <1>1, <2>1, <2>2, <2>3 DEF registry, Owned, NothingLost, OneOwner
  <2> QED BY <1>1, <2>1, <2>4, <2>5 DEF Owned, Whose
<1> QED BY <1>2, <1>3 DEF IgnoreEvent

LEMMA ResolveOwned ==
    ASSUME Types, Owned, Types', ResolveShared
    PROVE  Owned'
<1>1. /\ Event.slug \in Slug /\ Event.cfg.ver \in 0..MaxVer /\ loop.pc = "take"
      /\ UNCHANGED <<servers, closed, req>>
  BY EventIs, ConfigParts DEF ResolveShared, registry, Config
<1>2. PICK i \in Fresh, x \in {Credentials(Event.cfg.ver, Shared).ver, Unread} :
        /\ MakeObject(i, Event.slug, Shared, Event.cfg.ver, x)
        /\ loop' = [pc |-> "add", slug |-> Event.slug, cfg |-> Event.cfg,
                    inst |-> i, closing |-> {}]
  BY DEF ResolveShared
<1>3. /\ i \in Inst /\ i \notin Built /\ i \notin closed
      /\ Built' = Built \union {i}
      /\ obj'[i].slug = Event.slug /\ obj'[i].owner = Shared
      /\ \A j \in Built : obj'[j] = obj[j]
      /\ SameObjects
  <2>1. Shared \in Owner
    BY DEF Owner
  <2>2. x \in Int
    BY <1>1, <2>1, CredentialsTypes DEF Unread
  <2> QED BY <1>1, <1>2, <2>1, <2>2, Making
<1>4. /\ Adding = {} /\ loop.closing = {}
      /\ Adding' = {i} /\ loop'.closing = {} /\ loop'.slug = Event.slug
  BY <1>1, <1>2, LoopingParts DEF Types, Adding
<1>5. Cached' = Cached /\ \A q \in Proc : BuiltBy(q)' = BuiltBy(q)
  BY <1>1 DEF Cached, BuiltBy
<1>6. InHand' = InHand
  BY <1>5 DEF InHand
<1>7. i \notin Cached /\ i \notin InHand
  BY <1>3, Places
<1>8. NothingLost' /\ OneOwner'
  BY <1>1, <1>3, <1>4, <1>5, <1>6, <1>7 DEF Owned, NothingLost, OneOwner
<1>9. EntriesOwn' /\ LoopOwns' /\ \A q \in Proc : RequestOwns(q)'
  <2>1. LoopOwns'
    BY <1>3, <1>4 DEF LoopOwns
  <2> QED BY <1>1, <1>3, <2>1, KeepEntries, KeepRequest
<1> QED BY <1>1, <1>3, <1>8, <1>9 DEF Owned, Whose

(* The loop puts an entry, with the object it was about to add or with none,
   in the place of another, whose objects it is going to close. *)
LEMMA ReplaceOwned ==
    ASSUME Types, Owned, Types', NEW s \in Slug,
           UNCHANGED <<obj, closed, req>>,
           \A t \in Slug : t # s => servers'[t] = servers[t],
           loop.closing = {}, loop'.closing = Held(servers[s]), loop'.pc # "add",
           Held(servers'[s]) = Adding,
           loop.pc = "add" => loop.slug = s,
           servers'[s].mode = "shared" => servers'[s].ds \in Adding,
           servers'[s].mode = "per_user" => \A u \in User : servers'[s].users[u] = NoInst
    PROVE  Owned'
<1>1. /\ Built' = Built /\ Adding' = {} /\ SameObjects
      /\ \A q \in Proc : BuiltBy(q)' = BuiltBy(q)
  BY DEF Built, Fresh, Adding, BuiltBy, SameObjects
<1>2. InHand' = InHand
  BY <1>1 DEF InHand
<1>3. \A t \in Slug : t # s => Held(servers'[t]) = Held(servers[t])
  OBVIOUS
<1>4. \A t \in Slug : t # s => Held(servers[t]) \intersect Held(servers[s]) = {}
  BY DEF Owned, OneOwner
<1>5. Cached' = (Cached \ Held(servers[s])) \union Adding
  <2>1. Adding \intersect Cached = {}
    BY DEF Owned, OneOwner
  <2> QED BY <1>3, <1>4, <2>1 DEF Cached
<1>6. Held(servers[s]) \subseteq Cached
  BY Places
<1>7. NothingLost'
  BY <1>1, <1>2, <1>5 DEF Owned, NothingLost
<1>8. OneOwner'
  <2>1. \A q, r \in Proc : q # r => BuiltBy(q)' \intersect BuiltBy(r)' = {}
    BY <1>1 DEF Owned, OneOwner
  <2>2. \A t, w \in Slug : t # w => Held(servers'[t]) \intersect Held(servers'[w]) = {}
    <3>1. \A t \in Slug : Held(servers[t]) \intersect Adding = {}
      BY Places DEF Owned, OneOwner
    <3> QED BY <1>3, <3>1 DEF Owned, OneOwner
  <2>3. Adding \intersect InHand = {}
    BY AddingApart
  <2> QED BY <1>1, <1>2, <1>5, <1>6, <2>1, <2>2, <2>3 DEF Owned, OneOwner
<1>9. EntriesOwn'
  <2>1. \A j \in Adding : j \in Built /\ obj[j].slug = s /\ obj[j].owner = Shared
    BY DEF Owned, Whose, LoopOwns, Adding
  <2>2. ASSUME NEW t \in Slug
        PROVE  LET g == servers'[t] IN
               /\ \A j \in Held(g) : j \in Built' /\ obj'[j].slug = t
               /\ g.mode = "shared" => obj'[g.ds].owner = Shared
               /\ g.mode = "per_user" =>
                     \A w \in User : g.users[w] # NoInst => obj'[g.users[w]].owner = w
    <3>1. CASE t = s
      BY <1>1, <2>1, <3>1
    <3>2. CASE t # s
      BY <1>1, <3>2 DEF Owned, Whose, EntriesOwn
    <3> QED BY <3>1, <3>2
  <2> QED BY <2>2 DEF EntriesOwn
<1>10. LoopOwns'
  BY <1>1, <1>6, Places DEF LoopOwns
<1>11. \A q \in Proc : RequestOwns(q)'
  BY <1>1, KeepRequest
<1> QED BY <1>1, <1>7, <1>8, <1>9, <1>10, <1>11 DEF Owned, Whose

LEMMA AddScopedOwned ==
    ASSUME Types, Owned, Types', AddScoped
    PROVE  Owned'
<1> DEFINE e == Fixed(loop.inst, loop.cfg)
<1>1. /\ loop.pc = "add" /\ loop.slug \in Slug /\ loop.inst \in Inst
      /\ loop.cfg \in Configured /\ loop.closing = {}
  BY LoopingParts DEF Types, AddScoped
<1>2. /\ e \in Entry /\ e.mode = "shared" /\ e.ds = loop.inst
      /\ Held(e) = {loop.inst}
  <2>1. e \in Entry /\ e.mode = "shared" /\ e.ds = loop.inst
    BY <1>1, EntriesMade
  <2> QED BY <2>1, HeldIs
<1>3. Put(loop.slug, e) /\ UNCHANGED <<obj, closed, req>>
  BY DEF AddScoped, objects
<1>4. Adding = {loop.inst}
  BY <1>1 DEF Adding
<1> HIDE DEF e
<1>5. /\ loop'.pc # "add" /\ loop'.closing = Held(servers[loop.slug])
      /\ servers'[loop.slug] = e
      /\ \A t \in Slug : t # loop.slug => servers'[t] = servers[t]
  BY <1>1, <1>2, <1>3, PutTypes
<1> QED BY <1>1, <1>2, <1>3, <1>4, <1>5, ReplaceOwned

LEMMA AddProviderOwned ==
    ASSUME Types, Owned, Types', AddProvider
    PROVE  Owned'
<1> DEFINE e == PerUser(Event.cfg)
           s == Event.slug
<1>1. s \in Slug /\ Event.cfg \in Configured /\ loop.pc = "take" /\ loop.closing = {}
  BY EventIs, ConfigParts, LoopingParts DEF Types, AddProvider
<1>2. e \in Entry /\ e.mode = "per_user" /\ e.users = NoUsers
  BY <1>1, EntriesMade
<1>3. Put(s, e) /\ UNCHANGED <<obj, closed, req>>
  BY DEF AddProvider, objects
<1>4. Adding = {}
  BY <1>1 DEF Adding
<1>5. \A u \in User : e.users[u] = NoInst
  BY <1>2 DEF NoUsers
<1> HIDE DEF e, s
<1>6. Held(e) = {}
  BY <1>2, <1>5, HeldIs, RegistryAssumption
<1>7. /\ loop'.pc # "add" /\ loop'.closing = Held(servers[s])
      /\ servers'[s] = e
      /\ \A t \in Slug : t # s => servers'[t] = servers[t]
  BY <1>1, <1>2, <1>3, PutTypes
<1> QED BY <1>1, <1>2, <1>3, <1>4, <1>5, <1>6, <1>7, ReplaceOwned

LEMMA RemoveOwned ==
    ASSUME Types, Owned, Types', Remove
    PROVE  Owned'
<1> DEFINE s == Event.slug
<1>1. s \in Slug /\ loop.pc = "take" /\ loop.closing = {}
  BY EventIs, LoopingParts DEF Types, Remove
<1>2. /\ servers' = [servers EXCEPT ![s] = Absent]
      /\ loop' = ToClose(Held(servers[s]))
      /\ UNCHANGED <<obj, closed, req>>
  BY DEF Remove, objects
<1>3. Adding = {}
  BY <1>1 DEF Adding
<1> HIDE DEF s
<1>4. Held(servers[s]) \in SUBSET Inst
  BY <1>1, HeldIs DEF Types
<1>5. loop'.pc # "add" /\ loop'.closing = Held(servers[s])
  BY <1>2, <1>4, ToCloseTypes
<1>6. servers'[s] = Absent /\ \A t \in Slug : t # s => servers'[t] = servers[t]
  BY <1>1, <1>2 DEF Types
<1>7. Held(servers'[s]) = {} /\ servers'[s].mode = "absent"
  BY <1>6 DEF Held, Absent
<1> QED BY <1>1, <1>2, <1>3, <1>5, <1>6, <1>7, ReplaceOwned

(* What Invalidate does to the registry. *)
LEMMA Invalidated ==
    ASSUME Types, Invalidate
    PROVE  LET s == Event.slug
               u == Event.user
               e == servers[s]
               f == servers'[s] IN
           /\ s \in Slug /\ u \in User /\ e \in Entry /\ e.mode = "per_user"
           /\ loop.pc = "take" /\ loop.closing = {}
           /\ f \in Entry /\ f.mode = "per_user" /\ f.users[u] = NoInst
           /\ f.ver = e.ver /\ f.roles = e.roles
           /\ \A w \in User : w # u => f.users[w] = e.users[w]
           /\ \A t \in Slug : t # s => servers'[t] = servers[t]
           /\ loop'.pc # "add" /\ loop'.closing = {e.users[u]} \ {NoInst}
           /\ e.users[u] \in Inst \union {NoInst}
           /\ UNCHANGED <<order, closed, req>>
<1> DEFINE s == Event.slug
           u == Event.user
           e == servers[s]
<1>1. /\ s \in Slug /\ u \in User /\ e \in Entry /\ e.mode = "per_user"
      /\ loop.pc = "take" /\ loop.closing = {}
  BY EventIs, LoopingParts DEF Types, Invalidate
<1>2. e \in UserEntry /\ e.users[u] \in Inst \union {NoInst}
  BY <1>1, EntryParts
<1>3. LET g == [e EXCEPT !.users[u] = NoInst] IN
      /\ g \in Entry /\ g.mode = "per_user" /\ g.users[u] = NoInst
      /\ g.ver = e.ver /\ g.roles = e.roles
      /\ \A w \in User : w # u => g.users[w] = e.users[w]
  BY <1>1, <1>2, OneUserChanged
<1>4. servers' = [servers EXCEPT ![s] = [e EXCEPT !.users[u] = NoInst]]
  BY DEF Invalidate
<1>5. /\ servers'[s] = [e EXCEPT !.users[u] = NoInst]
      /\ \A t \in Slug : t # s => servers'[t] = servers[t]
  BY <1>1, <1>4 DEF Types
<1>6. loop'.pc # "add" /\ loop'.closing = {e.users[u]} \ {NoInst}
  <2>1. {e.users[u]} \ {NoInst} \in SUBSET Inst
    BY <1>2
  <2>2. loop' = ToClose({e.users[u]} \ {NoInst})
    BY DEF Invalidate
  <2> QED BY <2>1, <2>2, ToCloseTypes
<1>7. UNCHANGED <<order, closed, req>>
  BY DEF Invalidate
<1> QED BY <1>1, <1>2, <1>3, <1>5, <1>6, <1>7

LEMMA InvalidateOwned ==
    ASSUME Types, Owned, Types', Invalidate
    PROVE  Owned'
<1> DEFINE s == Event.slug
           u == Event.user
           e == servers[s]
           f == servers'[s]
           i == e.users[u]
           C == {i} \ {NoInst}
<1>1. /\ s \in Slug /\ u \in User /\ e \in Entry /\ e.mode = "per_user"
      /\ loop.pc = "take" /\ loop.closing = {}
      /\ f \in Entry /\ f.mode = "per_user" /\ f.users[u] = NoInst
      /\ \A w \in User : w # u => f.users[w] = e.users[w]
      /\ \A t \in Slug : t # s => servers'[t] = servers[t]
      /\ loop'.pc # "add" /\ loop'.closing = C
      /\ UNCHANGED <<closed, req>>
  BY Invalidated
<1>2. Built' = Built /\ SameObjects
  BY MarkLateTypes DEF Invalidate, Built, Fresh, SameObjects
<1>3. /\ Adding = {} /\ Adding' = {}
      /\ \A q \in Proc : BuiltBy(q)' = BuiltBy(q)
  BY <1>1 DEF Adding, BuiltBy
<1>4. InHand' = InHand
  BY <1>3 DEF InHand
<1>5. /\ \A j \in Held(e) : j \in Built /\ obj[j].slug = s
      /\ \A w \in User : e.users[w] # NoInst => obj[e.users[w]].owner = w
  BY <1>1 DEF Owned, Whose, EntriesOwn
<1>6. Held(f) = Held(e) \ C /\ C \subseteq Held(e)
  <2>1. \A j \in Inst : j \in Held(f) <=> \E w \in User : f.users[w] = j
    BY <1>1, HeldIs
  <2>2. \A j \in Inst : j \in Held(e) <=> \E w \in User : e.users[w] = j
    BY <1>1, HeldIs
  <2>3. Held(f) \subseteq Inst /\ Held(e) \subseteq Inst
    BY <1>1, HeldIs
  <2>4. \A w \in User : w # u /\ e.users[w] # NoInst => e.users[w] # i
    BY <1>1, <1>5
  <2>5. \A j \in Inst : j \in Held(f) <=> j \in Held(e) /\ j # i
    BY <1>1, <2>1, <2>2, <2>4, RegistryAssumption
  <2>6. i \in Inst \union {NoInst} /\ (i # NoInst => i \in Held(e))
    BY <1>1, <2>2, Invalidated
  <2> QED BY <2>3, <2>5, <2>6, RegistryAssumption
<1> HIDE DEF C
<1>7. \A t \in Slug : t # s => Held(servers'[t]) = Held(servers[t])
  BY <1>1
<1>8. \A t \in Slug : t # s => Held(servers[t]) \intersect Held(e) = {}
  BY <1>1 DEF Owned, OneOwner
<1>9. Cached' = Cached \ C /\ C \subseteq Cached
  BY <1>1, <1>6, <1>7, <1>8 DEF Cached
<1>10. NothingLost'
  BY <1>1, <1>2, <1>3, <1>4, <1>9 DEF Owned, NothingLost
<1>11. OneOwner'
  <2>1. \A q, r \in Proc : q # r => BuiltBy(q)' \intersect BuiltBy(r)' = {}
    BY <1>3 DEF Owned, OneOwner
  <2>2. \A t, w \in Slug : t # w => Held(servers'[t]) \intersect Held(servers'[w]) = {}
    <3>1. \A t \in Slug : Held(servers'[t]) \subseteq Held(servers[t])
      BY <1>6, <1>7
    <3> QED BY <3>1 DEF Owned, OneOwner
  <2> QED BY <1>1, <1>3, <1>4, <1>9, <2>1, <2>2 DEF Owned, OneOwner
<1>12. EntriesOwn'
  <2>1. ASSUME NEW t \in Slug
        PROVE  LET g == servers'[t] IN
               /\ \A j \in Held(g) : j \in Built' /\ obj'[j].slug = t
               /\ g.mode = "shared" => obj'[g.ds].owner = Shared
               /\ g.mode = "per_user" =>
                     \A w \in User : g.users[w] # NoInst => obj'[g.users[w]].owner = w
    <3>1. CASE t = s
      <4>1. \A j \in Held(f) : j \in Built /\ obj[j].slug = s
        BY <1>5, <1>6
      <4>2. \A w \in User : f.users[w] # NoInst =>
               f.users[w] \in Built /\ obj[f.users[w]].owner = w
        <5>1. \A w \in User : f.users[w] # NoInst => f.users[w] = e.users[w]
          BY <1>1
        <5>2. \A w \in User : e.users[w] # NoInst => e.users[w] \in Held(e)
          BY <1>1, HeldIs, EntryParts
        <5> QED BY <1>5, <5>1, <5>2
      <4> QED BY <1>1, <1>2, <3>1, <4>1, <4>2 DEF SameObjects
    <3>2. CASE t # s
      <4>1. servers'[t] = servers[t] /\ servers[t] \in Entry
        BY <1>1, <3>2 DEF Types
      <4>2. \A j \in Held(servers[t]) : j \in Built
        BY DEF Owned, Whose, EntriesOwn
      <4>3. servers[t].mode = "shared" => servers[t].ds \in Held(servers[t])
        BY <4>1, HeldIs
      <4>4. servers[t].mode = "per_user" => \A w \in User :
              servers[t].users[w] # NoInst => servers[t].users[w] \in Held(servers[t])
        BY <4>1, HeldIs, EntryParts
      <4> QED BY <1>2, <4>1, <4>2, <4>3, <4>4 DEF Owned, Whose, EntriesOwn, SameObjects
    <3> QED BY <3>1, <3>2
  <2> QED BY <2>1 DEF EntriesOwn
<1>13. LoopOwns'
  BY <1>1, <1>2, <1>3, <1>9, Places DEF LoopOwns
<1>14. \A q \in Proc : RequestOwns(q)'
  BY <1>1, <1>2, KeepRequest
<1> QED BY <1>1, <1>2, <1>10, <1>11, <1>12, <1>13, <1>14 DEF Owned, Whose

LEMMA CloseOwned ==
    ASSUME Types, Owned, Types', CloseDropped
    PROVE  Owned'
<1>1. PICK i \in loop.closing : CloseObject(i) /\ loop' = ToClose(loop.closing \ {i})
  BY DEF CloseDropped
<1>2. loop.pc = "close" /\ loop.closing \in SUBSET Inst /\ UNCHANGED <<servers, obj, req>>
  BY LoopingParts DEF Types, CloseDropped, registry
<1>3. loop'.pc # "add" /\ loop'.closing = loop.closing \ {i}
  <2>1. loop.closing \ {i} \in SUBSET Inst
    BY <1>2
  <2> QED BY <1>1, <2>1, ToCloseTypes
<1>4. closed' = closed \union {i}
  BY <1>1 DEF CloseObject
<1>5. /\ Built' = Built /\ Cached' = Cached /\ SameObjects
      /\ Adding = {} /\ Adding' = {}
      /\ \A q \in Proc : BuiltBy(q)' = BuiltBy(q)
  BY <1>2, <1>3 DEF Built, Fresh, Cached, Adding, BuiltBy, SameObjects
<1>6. InHand' = InHand
  BY <1>5 DEF InHand
<1>7. NothingLost'
  BY <1>3, <1>4, <1>5, <1>6 DEF Owned, NothingLost
<1>8. OneOwner'
  <2>1. \A q, r \in Proc : q # r => BuiltBy(q)' \intersect BuiltBy(r)' = {}
    BY <1>5 DEF Owned, OneOwner
  <2> QED BY <1>1, <1>2, <1>3, <1>4, <1>5, <1>6, <2>1 DEF Owned, OneOwner
<1>9. EntriesOwn' /\ LoopOwns' /\ \A q \in Proc : RequestOwns(q)'
  <2>1. LoopOwns'
    BY <1>3, <1>5, Places DEF LoopOwns
  <2> QED BY <1>2, <1>5, <2>1, KeepEntries, KeepRequest
<1>10. closed' \subseteq Built'
  BY <1>1, <1>4, <1>5, Places DEF Owned, Whose
<1> QED BY <1>7, <1>8, <1>9, <1>10 DEF Owned, Whose

LEMMA StepOwned == Types /\ Owned /\ [Next]_vars => Owned'
<1> SUFFICES ASSUME Types, Owned, [Next]_vars PROVE Owned'
  OBVIOUS
<1>0. Types'
  BY StepTypes
<1>1. ASSUME NEW p \in Proc, CallCheck(p) \/ ListCheck(p) PROVE Owned'
  BY <1>0, <1>1, BeginOwned
<1>2. ASSUME NEW p \in Proc, GetForUser(p) PROVE Owned'
  BY <1>0, <1>2, LookupOwned, BuildOwned, StoreOwned, DiscardOwned DEF GetForUser
<1>3. ASSUME NEW p \in Proc, Calling(p) PROVE Owned'
  BY <1>0, <1>3, CallingOwned
<1>4. CASE Loop
  BY <1>0, <1>4, IgnoreOwned, ResolveOwned, AddScopedOwned, AddProviderOwned,
     RemoveOwned, InvalidateOwned, CloseOwned DEF Loop
<1>5. CASE Control
  <2>1. UNCHANGED <<servers, obj, closed, req, loop>>
    BY <1>5 DEF Control, PublishUpsert, PublishRemove, RotateSecret, registry, objects
  <2> QED BY <2>1, KeepOwned
<1>6. CASE UNCHANGED vars
  <2>1. UNCHANGED <<servers, obj, closed, req, loop>>
    BY <1>6 DEF vars
  <2> QED BY <2>1, KeepOwned
<1> QED BY <1>1, <1>2, <1>3, <1>4, <1>5, <1>6 DEF Next, Control, Calling

(* Every object has a place that answers for it, and is of that place's server
   and user, at every point of every request and of the event loop. *)
THEOREM OwnedAlways == Spec => []Owned
<1> QED BY InitTypes, InitOwned, StepTypes, StepOwned, PTL DEF Spec

(* Replacement, invalidation, lost build races and removal during a build
   leave no open instance without somebody who closes it
   (downstream.go:53, 84-128, 168-188). *)
THEOREM NothingIsLost == Spec => []NothingLost
<1>1. Owned => NothingLost
  BY DEF Owned
<1> QED BY <1>1, OwnedAlways, PTL

(* Nothing that is cached, about to be cached or about to be closed is closed
   already, and no two owners share an instance (downstream.go:107-128,
   168-205). *)
THEOREM OnlyOneOwner == Spec => []OneOwner
<1>1. Owned => OneOwner
  BY DEF Owned
<1> QED BY <1>1, OwnedAlways, PTL

(* A request uses only instances of the server it asked for, built with its own
   user's secret or the organisation's (downstream.go:147-188). *)
THEOREM OnlyOwnCredentials == Spec => []OwnCredentials
<1>1. Owned => OwnCredentials
  BY DEF Owned, Whose, RequestOwns, OwnCredentials
<1> QED BY <1>1, OwnedAlways, PTL

(* The registry, the requests and the loop are well typed, and whatever they
   name was built. *)
THEOREM WellTyped == Spec => []TypeOK
<1>1. Types /\ Owned => TypeOK
  <2> SUFFICES ASSUME Types, Owned PROVE TypeOK
    OBVIOUS
  <2>1. \A s \in Slug : EntryType(servers[s], s)
    <3> SUFFICES ASSUME NEW s \in Slug PROVE EntryType(servers[s], s)
      OBVIOUS
    <3>1. servers[s] \in Entry
      BY DEF Types
    <3>2. CASE servers[s] \in FixedEntry
      BY <3>2 DEF EntryType, FixedEntry, Fixed
    <3>3. CASE servers[s] \in UserEntry
      BY <3>3 DEF EntryType, UserEntry
    <3> QED BY <3>1, <3>2, <3>3 DEF Entry, EntryType
  <2>2. \A p \in Proc : /\ req[p].pc = "use" => req[p].inst \in Built
                        /\ BuiltBy(p) \subseteq Built
    BY DEF Owned, Whose, RequestOwns
  <2> QED BY <2>1, <2>2 DEF Types, Owned, Whose, LoopOwns, TypeOK
<1> QED BY <1>1, TypesAlways, OwnedAlways, PTL
-----------------------------------------------------------------------------
(* The two halves of the registry. *)

LEMMA OrderKept ==
    ASSUME OrderMatches, UNCHANGED order, Registered' = Registered
    PROVE  OrderMatches'
BY DEF OrderMatches

LEMMA PutOrder ==
    ASSUME Types, OrderMatches, NEW s \in Slug, NEW e \in Entry, e # Absent, Put(s, e)
    PROVE  OrderMatches'
<1>1. servers'[s] = e /\ \A t \in Slug : t # s => servers'[t] = servers[t]
  BY PutTypes
<1>2. Registered' = Registered \union {s}
  BY <1>1 DEF Registered
<1>3. CASE s \in Registered
  BY <1>2, <1>3, OrderKept DEF Put
<1>4. CASE s \notin Registered
  <2>1. order' = Append(order, s) /\ order \in Seq(Slug)
    BY <1>4 DEF Put, Types
  <2>2. /\ Len(order) \in Nat /\ DOMAIN order = 1..Len(order)
        /\ DOMAIN order' = 1..(Len(order) + 1)
        /\ order'[Len(order) + 1] = s
        /\ \A n \in 1..Len(order) : order'[n] = order[n]
    BY <2>1, AppendOf
  <2>3. \A n \in 1..Len(order) : order[n] \in Registered
    BY <2>2 DEF OrderMatches, Range
  <2>4. \A n \in DOMAIN order' : n = Len(order) + 1 \/ n \in 1..Len(order)
    BY <2>2
  <2>5. Range(order') = Range(order) \union {s}
    BY <2>2, <2>4 DEF Range
  <2>6. IsInjective(order')
    BY <1>4, <2>2, <2>3, <2>4 DEF OrderMatches, IsInjective
  <2> QED BY <1>2, <2>5, <2>6 DEF OrderMatches
<1> QED BY <1>3, <1>4

LEMMA RemoveOrder ==
    ASSUME Types, OrderMatches, Remove
    PROVE  OrderMatches'
<1> DEFINE s == Event.slug
<1>1. s \in Slug /\ servers' = [servers EXCEPT ![s] = Absent] /\ order \in Seq(Slug)
  BY EventIs DEF Remove, Types
<1>2. PICK n \in DOMAIN order :
        /\ order[n] = s
        /\ order' = SubSeq(order, 1, n - 1) \o SubSeq(order, n + 1, Len(order))
  BY DEF Remove
<1> HIDE DEF s
<1>3. Registered' = Registered \ {s}
  BY <1>1 DEF Registered, Types
<1>4. /\ Len(order) \in Nat /\ DOMAIN order = 1..Len(order)
      /\ DOMAIN order' = 1..(Len(order) - 1)
      /\ \A m \in DOMAIN order' : order'[m] = IF m < n THEN order[m] ELSE order[m + 1]
  BY <1>1, <1>2, CutOf
<1>5. \A m \in DOMAIN order' :
        \E k \in DOMAIN order : k # n /\ order'[m] = order[k]
                                /\ (m < n => k = m) /\ (m >= n => k = m + 1)
  <2> SUFFICES ASSUME NEW m \in DOMAIN order'
               PROVE  \E k \in DOMAIN order : k # n /\ order'[m] = order[k]
                                /\ (m < n => k = m) /\ (m >= n => k = m + 1)
    OBVIOUS
  <2>1. m < n \/ m >= n
    BY <1>4
  <2> QED BY <1>4, <2>1
<1>6. \A k \in DOMAIN order : k # n => \E m \in DOMAIN order' : order'[m] = order[k]
  <2> SUFFICES ASSUME NEW k \in DOMAIN order, k # n
               PROVE  \E m \in DOMAIN order' : order'[m] = order[k]
    OBVIOUS
  <2>1. CASE k < n
    <3>1. k \in DOMAIN order' /\ order'[k] = order[k]
      BY <1>4, <2>1
    <3> QED BY <3>1
  <2>2. CASE k > n
    <3>1. k - 1 \in DOMAIN order' /\ ~(k - 1 < n) /\ (k - 1) + 1 = k
      BY <1>4, <2>2
    <3>2. order'[k - 1] = order[k]
      BY <1>4, <3>1
    <3> QED BY <3>1, <3>2
  <2> QED BY <1>4, <2>1, <2>2
<1>7. \A j, k \in DOMAIN order : order[j] = order[k] => j = k
  BY DEF OrderMatches, IsInjective
<1>8. Range(order') = Range(order) \ {s}
  <2>1. ASSUME NEW m \in DOMAIN order' PROVE order'[m] \in Range(order) \ {s}
    <3>1. PICK k \in DOMAIN order : k # n /\ order'[m] = order[k]
      BY <1>5
    <3>2. order[k] # s
      BY <1>2, <1>7, <3>1
    <3> QED BY <3>1, <3>2 DEF Range
  <2>2. ASSUME NEW k \in DOMAIN order, order[k] # s PROVE order[k] \in Range(order')
    <3>1. PICK m \in DOMAIN order' : order'[m] = order[k]
      BY <1>2, <1>6, <2>2
    <3> QED BY <3>1 DEF Range
  <2> QED BY <2>1, <2>2 DEF Range
<1>9. IsInjective(order')
  <2> SUFFICES ASSUME NEW a \in DOMAIN order', NEW b \in DOMAIN order', order'[a] = order'[b]
               PROVE  a = b
    BY DEF IsInjective
  <2>1. PICK j \in DOMAIN order : order'[a] = order[j]
                                  /\ (a < n => j = a) /\ (a >= n => j = a + 1)
    BY <1>5
  <2>2. PICK k \in DOMAIN order : order'[b] = order[k]
                                  /\ (b < n => k = b) /\ (b >= n => k = b + 1)
    BY <1>5
  <2>3. j = k
    BY <1>7, <2>1, <2>2
  <2>4. (a < n \/ a >= n) /\ (b < n \/ b >= n)
    BY <1>4
  <2> QED BY <1>4, <2>1, <2>2, <2>3, <2>4
<1> QED BY <1>3, <1>8, <1>9 DEF OrderMatches

(* A change of one user's instance registers and removes nothing. *)
LEMMA StoreOrder ==
    ASSUME Types, OrderMatches, NEW p \in Proc, Store(p)
    PROVE  OrderMatches'
<1> DEFINE s == Head(req[p].todo)
           e == servers[s]
           u == req[p].user
           i == req[p].mine
<1>1. /\ s \in Slug /\ u \in User /\ e \in Entry /\ i \in Inst /\ UNCHANGED order
  BY AskingParts DEF Types, Store
<1>2. CASE UNCHANGED servers
  BY <1>1, <1>2, OrderKept DEF Registered
<1>3. CASE /\ e.mode = "per_user"
           /\ servers' = [servers EXCEPT ![s] = [e EXCEPT !.users[u] = i]]
  <2> DEFINE f == [e EXCEPT !.users[u] = i]
  <2>1. f \in Entry /\ f.mode = "per_user"
    BY <1>1, <1>3, EntryParts, OneUserChanged
  <2>2. servers'[s] = f /\ \A t \in Slug : t # s => servers'[t] = servers[t]
    BY <1>1, <1>3 DEF Types
  <2> HIDE DEF f
  <2>3. e # Absent /\ f # Absent
    BY <1>1, <1>3, <2>1, EntryParts
  <2>4. Registered' = Registered
    BY <2>2, <2>3 DEF Registered
  <2> QED BY <1>1, <2>4, OrderKept
<1> QED BY <1>2, <1>3 DEF Store

LEMMA InvalidateOrder ==
    ASSUME Types, OrderMatches, Invalidate
    PROVE  OrderMatches'
<1> DEFINE s == Event.slug
<1>1. /\ s \in Slug /\ UNCHANGED order
      /\ servers[s] \in Entry /\ servers[s].mode = "per_user"
      /\ servers'[s] \in Entry /\ servers'[s].mode = "per_user"
      /\ \A t \in Slug : t # s => servers'[t] = servers[t]
  BY Invalidated
<1>2. servers[s] # Absent /\ servers'[s] # Absent
  BY <1>1, EntryParts
<1>3. Registered' = Registered
  BY <1>1, <1>2 DEF Registered
<1> QED BY <1>1, <1>3, OrderKept

LEMMA StepOrder == Types /\ OrderMatches /\ [Next]_vars => OrderMatches'
<1> SUFFICES ASSUME Types, OrderMatches, [Next]_vars PROVE OrderMatches'
  OBVIOUS
<1>1. CASE UNCHANGED registry
  BY <1>1, OrderKept DEF registry, Registered
<1>2. ASSUME NEW p \in Proc, CallCheck(p) \/ ListCheck(p) \/ GetForUser(p) \/ Calling(p)
      PROVE  OrderMatches'
  BY <1>1, <1>2, StoreOrder DEF CallCheck, ListCheck, GetForUser, Lookup, Build, Discard,
     Calling, Use, Handshake
<1>3. CASE AddScoped
  <2>1. loop.slug \in Slug /\ loop.inst \in Inst /\ loop.cfg \in Configured
    BY <1>3, LoopingParts DEF Types, AddScoped
  <2>2. /\ Fixed(loop.inst, loop.cfg) \in Entry /\ Fixed(loop.inst, loop.cfg) # Absent
    BY <2>1, EntriesMade, EntryParts
  <2>3. Put(loop.slug, Fixed(loop.inst, loop.cfg))
    BY <1>3 DEF AddScoped
  <2> QED BY <2>1, <2>2, <2>3, PutOrder
<1>4. CASE AddProvider
  <2>1. Event.slug \in Slug /\ Event.cfg \in Configured
    BY <1>4, EventIs, ConfigParts DEF AddProvider
  <2>2. PerUser(Event.cfg) \in Entry /\ PerUser(Event.cfg) # Absent
    BY <2>1, EntriesMade, EntryParts
  <2>3. Put(Event.slug, PerUser(Event.cfg))
    BY <1>4 DEF AddProvider
  <2> QED BY <2>1, <2>2, <2>3, PutOrder
<1>5. CASE Loop
  BY <1>1, <1>3, <1>4, <1>5, RemoveOrder, InvalidateOrder
     DEF Loop, IgnoreEvent, ResolveShared, CloseDropped
<1>6. CASE Control
  BY <1>1, <1>6 DEF Control, PublishUpsert, PublishRemove, RotateSecret
<1>7. CASE UNCHANGED vars
  BY <1>1, <1>7 DEF vars, registry
<1> QED BY <1>2, <1>5, <1>6, <1>7 DEF Next, Control, Calling

LEMMA InitOrder == Init => OrderMatches
<1> SUFFICES ASSUME Init PROVE OrderMatches
  OBVIOUS
<1>1. order = <<>> /\ DOMAIN order = {} /\ Registered = {}
  BY DEF Init, Registered
<1> QED BY <1>1 DEF OrderMatches, Range, IsInjective

(* The order lists each registered slug once and nothing else, so that no
   listed slug reads as an entry open to everyone (downstream.go:54-100,
   217-227). *)
THEOREM OrderAlwaysMatches == Spec => []OrderMatches
<1> QED BY InitTypes, InitOrder, StepTypes, StepOrder, PTL DEF Spec
-----------------------------------------------------------------------------
(* What a request saw when its roles were checked. *)

(* The bus after the loop takes an event. *)
LEMMA BusTaken ==
    ASSUME Types, bus # <<>>, bus' = Tail(bus)
    PROVE  /\ Len(bus) \in Nat \ {0} /\ 1 \in DOMAIN bus /\ bus[1] = Event
           /\ DOMAIN bus = 1..Len(bus) /\ DOMAIN bus' = 1..(Len(bus) - 1)
           /\ \A n \in DOMAIN bus' : n + 1 \in DOMAIN bus /\ bus'[n] = bus[n + 1]
<1>1. /\ Len(bus) \in Nat \ {0} /\ DOMAIN bus = 1..Len(bus) /\ Head(bus) = bus[1]
      /\ DOMAIN bus' = 1..(Len(bus) - 1)
      /\ \A n \in 1..(Len(bus) - 1) : bus'[n] = bus[n + 1]
  BY TailOf DEF Types
<1> QED BY <1>1 DEF Event

(* No configuration is new. *)
OnlyKnown == \A s \in Slug : \A v, R : Known(s, v, R)' => Known(s, v, R)

LEMMA SameKnown ==
    ASSUME UNCHANGED <<loop, bus, spec>>,
           \A s \in Slug : servers'[s] # Absent =>
              /\ servers[s] # Absent /\ servers'[s].ver = servers[s].ver
              /\ servers'[s].roles = servers[s].roles
    PROVE  OnlyKnown
BY DEF OnlyKnown, Known

LEMMA RequestKnown ==
    ASSUME Types, NEW p \in Proc, CallCheck(p) \/ ListCheck(p) \/ GetForUser(p) \/ Calling(p)
    PROVE  OnlyKnown
<1>1. CASE UNCHANGED <<registry, control, loop>>
  BY <1>1, SameKnown DEF registry, control
<1>2. CASE Store(p)
  <2> DEFINE s == Head(req[p].todo)
             e == servers[s]
             u == req[p].user
             i == req[p].mine
  <2>1. s \in Slug /\ u \in User /\ e \in Entry /\ i \in Inst /\ UNCHANGED <<control, loop>>
    BY <1>2, AskingParts DEF Types, Store
  <2>2. CASE UNCHANGED servers
    BY <2>1, <2>2, SameKnown DEF control
  <2>3. CASE /\ e.mode = "per_user"
             /\ servers' = [servers EXCEPT ![s] = [e EXCEPT !.users[u] = i]]
    <3> DEFINE f == [e EXCEPT !.users[u] = i]
    <3>1. e \in UserEntry /\ e # Absent
      BY <2>1, <2>3, EntryParts
    <3>2. f.ver = e.ver /\ f.roles = e.roles
      BY <2>1, <3>1, OneUserChanged
    <3>3. servers'[s] = f /\ \A t \in Slug : t # s => servers'[t] = servers[t]
      BY <2>1, <2>3 DEF Types
    <3> HIDE DEF f
    <3> QED BY <2>1, <3>1, <3>2, <3>3, SameKnown DEF control
  <2> QED BY <1>2, <2>2, <2>3 DEF Store
<1> QED BY <1>1, <1>2 DEF CallCheck, ListCheck, GetForUser, Lookup, Build, Discard,
     Calling, Use, Handshake

LEMMA LoopKnown ==
    ASSUME Types, Loop
    PROVE  OnlyKnown
<1>1. CASE IgnoreEvent
  <2>1. /\ UNCHANGED <<servers, loop, spec>>
        /\ \A n \in DOMAIN bus' : n + 1 \in DOMAIN bus /\ bus'[n] = bus[n + 1]
    BY <1>1, BusTaken DEF IgnoreEvent, registry, stored
  <2> QED BY <2>1 DEF OnlyKnown, Known
<1>2. CASE ResolveShared
  <2>1. /\ UNCHANGED <<servers, spec>> /\ Event.action = "upsert"
        /\ loop'.slug = Event.slug /\ loop'.cfg = Event.cfg
        /\ 1 \in DOMAIN bus /\ bus[1] = Event
        /\ \A n \in DOMAIN bus' : n + 1 \in DOMAIN bus /\ bus'[n] = bus[n + 1]
    BY <1>2, BusTaken DEF ResolveShared, registry, stored
  <2> QED BY <2>1 DEF OnlyKnown, Known
<1>3. CASE AddScoped
  <2>1. loop.pc = "add" /\ loop.slug \in Slug /\ loop.inst \in Inst /\ loop.cfg \in Configured
    BY <1>3, LoopingParts DEF Types, AddScoped
  <2> DEFINE e == Fixed(loop.inst, loop.cfg)
  <2>2. e \in Entry /\ e.ver = loop.cfg.ver /\ e.roles = loop.cfg.roles
    BY <2>1, EntriesMade
  <2> HIDE DEF e
  <2>3. Put(loop.slug, e) /\ UNCHANGED <<bus, spec>>
    BY <1>3 DEF AddScoped, control, e
  <2>4. /\ loop'.pc # "add" /\ servers'[loop.slug] = e
        /\ \A t \in Slug : t # loop.slug => servers'[t] = servers[t]
    BY <2>1, <2>2, <2>3, PutTypes
  <2> QED BY <2>1, <2>2, <2>3, <2>4 DEF OnlyKnown, Known
<1>4. CASE AddProvider
  <2>1. Event.slug \in Slug /\ Event.cfg \in Configured /\ Event.action = "upsert"
    BY <1>4, EventIs, ConfigParts DEF AddProvider
  <2> DEFINE e == PerUser(Event.cfg)
  <2>2. e \in Entry /\ e.ver = Event.cfg.ver /\ e.roles = Event.cfg.roles
    BY <2>1, EntriesMade
  <2> HIDE DEF e
  <2>3. Put(Event.slug, e) /\ UNCHANGED spec
    BY <1>4 DEF AddProvider, e, stored
  <2>4. /\ loop'.pc # "add" /\ servers'[Event.slug] = e
        /\ \A t \in Slug : t # Event.slug => servers'[t] = servers[t]
    BY <2>1, <2>2, <2>3, PutTypes
  <2>5. /\ 1 \in DOMAIN bus /\ bus[1] = Event
        /\ \A n \in DOMAIN bus' : n + 1 \in DOMAIN bus /\ bus'[n] = bus[n + 1]
    BY <1>4, BusTaken DEF AddProvider
  <2> QED BY <2>1, <2>2, <2>3, <2>4, <2>5 DEF OnlyKnown, Known
<1>5. CASE Remove
  <2>1. /\ Event.slug \in Slug /\ servers' = [servers EXCEPT ![Event.slug] = Absent]
        /\ UNCHANGED spec
        /\ \A n \in DOMAIN bus' : n + 1 \in DOMAIN bus /\ bus'[n] = bus[n + 1]
    BY <1>5, EventIs, BusTaken DEF Remove, stored
  <2>2. \A t \in Slug : servers'[t] # Absent => servers'[t] = servers[t]
    BY <2>1 DEF Types
  <2>3. loop'.pc # "add"
    BY <1>5, ToCloseTypes, HeldIs, EventIs DEF Remove, Types
  <2> QED BY <2>1, <2>2, <2>3 DEF OnlyKnown, Known
<1>6. CASE Invalidate
  <2> DEFINE s == Event.slug
  <2>1. /\ s \in Slug /\ servers[s] \in Entry /\ servers[s].mode = "per_user"
        /\ servers'[s].ver = servers[s].ver /\ servers'[s].roles = servers[s].roles
        /\ \A t \in Slug : t # s => servers'[t] = servers[t]
        /\ loop'.pc # "add"
    BY <1>6, Invalidated
  <2>2. servers[s] # Absent
    BY <2>1, EntryParts
  <2>3. /\ UNCHANGED spec
        /\ \A n \in DOMAIN bus' : n + 1 \in DOMAIN bus /\ bus'[n] = bus[n + 1]
    BY <1>6, BusTaken DEF Invalidate, stored
  <2> HIDE DEF s
  <2> QED BY <2>1, <2>2, <2>3 DEF OnlyKnown, Known
<1>7. CASE CloseDropped
  <2>1. PICK i \in loop.closing : loop' = ToClose(loop.closing \ {i})
    BY <1>7 DEF CloseDropped
  <2>2. loop.closing \ {i} \in SUBSET Inst
    BY LoopingParts DEF Types
  <2>3. loop'.pc # "add"
    BY <2>1, <2>2, ToCloseTypes
  <2> QED BY <1>7, <2>3 DEF CloseDropped, registry, control, OnlyKnown, Known
<1> QED BY <1>1, <1>2, <1>3, <1>4, <1>5, <1>6, <1>7 DEF Loop

(* What the control plane appends to the bus. *)
LEMMA BusGrown ==
    ASSUME Types, NEW v \in Announced, bus' = Append(bus, v)
    PROVE  /\ Len(bus) \in Nat /\ DOMAIN bus = 1..Len(bus)
           /\ DOMAIN bus' = 1..(Len(bus) + 1)
           /\ \A n \in DOMAIN bus' : \/ n \in DOMAIN bus /\ bus'[n] = bus[n]
                                     \/ n = Len(bus) + 1 /\ bus'[n] = v
           /\ \A n \in DOMAIN bus : n \in DOMAIN bus' /\ bus'[n] = bus[n]
<1>1. /\ Len(bus) \in Nat /\ DOMAIN bus = 1..Len(bus)
      /\ DOMAIN bus' = 1..(Len(bus) + 1)
      /\ bus'[Len(bus) + 1] = v
      /\ \A n \in 1..Len(bus) : bus'[n] = bus[n]
  BY AppendOf DEF Types
<1> QED BY <1>1

(* What each step of the control plane stores and publishes. *)
LEMMA Upserted ==
    ASSUME Types, PublishUpsert
    PROVE  \E s \in Slug, c \in Config, id \in ServerId :
              /\ c.ver = ver + 1 /\ ver' = ver + 1
              /\ id = (IF row[s] = NoServer THEN ver + 1 ELSE row[s])
              /\ spec'[s] = c /\ \A t \in Slug : t # s => spec'[t] = spec[t]
              /\ row'[s] = id /\ \A t \in Slug : t # s => row'[t] = row[t]
              /\ home'[ver + 1] = id
              /\ \A v \in 0..MaxVer : v # ver + 1 => home'[v] = home[v]
              /\ Upsert(s, c) \in Announced /\ bus' = Append(bus, Upsert(s, c))
              /\ UNCHANGED <<servers, order, obj, closed, req, loop, secret>>
<1>1. PICK s \in Slug, m \in Mode, roles \in SUBSET Role, id \in ServerId :
        LET cfg == [mode |-> m, roles |-> roles, ver |-> ver + 1] IN
        /\ cfg \in Config /\ ver + 1 \in 1..MaxVer
        /\ id = (IF row[s] = NoServer THEN ver + 1 ELSE row[s])
        /\ row' = [row EXCEPT ![s] = id]
        /\ home' = [home EXCEPT ![ver + 1] = id]
        /\ spec' = [spec EXCEPT ![s] = cfg]
        /\ bus' = Append(bus, Upsert(s, cfg))
  BY UpsertIs
<1> DEFINE cfg == [mode |-> m, roles |-> roles, ver |-> ver + 1]
<1>2. cfg \in Config /\ cfg.ver = ver + 1
  BY <1>1
<1>3. spec' = [spec EXCEPT ![s] = cfg] /\ bus' = Append(bus, Upsert(s, cfg))
  BY <1>1
<1> HIDE DEF cfg
<1>4. Upsert(s, cfg) \in Announced
  BY <1>2 DEF Upsert, Announced
<1>5. spec'[s] = cfg /\ \A t \in Slug : t # s => spec'[t] = spec[t]
  BY <1>3 DEF Types
<1>6. /\ row'[s] = id /\ \A t \in Slug : t # s => row'[t] = row[t]
      /\ home'[ver + 1] = id
      /\ \A v \in 0..MaxVer : v # ver + 1 => home'[v] = home[v]
  <2>1. ver + 1 \in 0..MaxVer
    BY <1>1
  <2> QED BY <1>1, <2>1 DEF Types
<1>7. /\ ver' = ver + 1
      /\ UNCHANGED <<servers, order, obj, closed, req, loop, secret>>
  BY DEF PublishUpsert, registry, objects
<1> QED BY <1>1, <1>2, <1>3, <1>4, <1>5, <1>6, <1>7

LEMMA Unpublished ==
    ASSUME Types, PublishRemove
    PROVE  \E s \in Slug :
              /\ row[s] # NoServer /\ ver' = ver + 1
              /\ spec'[s] = Absent /\ \A t \in Slug : t # s => spec'[t] = spec[t]
              /\ row'[s] \in {row[s], NoServer}
              /\ \A t \in Slug : t # s => row'[t] = row[t]
              /\ Removal(s) \in Announced /\ bus' = Append(bus, Removal(s))
              /\ UNCHANGED <<servers, order, obj, closed, req, loop, home, secret>>
<1>1. PICK s \in Slug :
        /\ row[s] # NoServer /\ spec' = [spec EXCEPT ![s] = Absent]
        /\ row' \in {row, [row EXCEPT ![s] = NoServer]}
        /\ bus' = Append(bus, Removal(s))
  BY DEF PublishRemove
<1>2. Removal(s) \in Announced
  BY DEF Removal, Announced
<1>3. /\ spec'[s] = Absent /\ \A t \in Slug : t # s => spec'[t] = spec[t]
      /\ row'[s] \in {row[s], NoServer}
      /\ \A t \in Slug : t # s => row'[t] = row[t]
  BY <1>1 DEF Types
<1>4. /\ ver' = ver + 1
      /\ UNCHANGED <<servers, order, obj, closed, req, loop, home, secret>>
  BY DEF PublishRemove, registry, objects
<1> QED BY <1>1, <1>2, <1>3, <1>4

LEMMA Rotated ==
    ASSUME Types, RotateSecret
    PROVE  \E s \in Slug, o \in Owner, v \in Announced :
              /\ row[s] # NoServer /\ bus' = Append(bus, v)
              /\ o = Shared => spec[s] \in Config
              /\ v = IF o = Shared THEN Upsert(s, spec[s]) ELSE CredentialChanged(s, o)
              /\ \A id \in ServerId, w \in Owner :
                    id # row[s] \/ w # o => secret'[id][w] = secret[id][w]
              /\ UNCHANGED <<servers, order, obj, closed, req, loop, spec, row, home, ver>>
<1>1. PICK s \in Slug, o \in Owner, set \in BOOLEAN :
        /\ row[s] # NoServer
        /\ o = Shared => spec[s] # Absent
        /\ secret' = [secret EXCEPT ![row[s]][o] = [set |-> set, ver |-> rot + 1]]
        /\ bus' = Append(bus, IF o = Shared THEN Upsert(s, spec[s])
                              ELSE CredentialChanged(s, o))
        /\ (IF o = Shared THEN Upsert(s, spec[s]) ELSE CredentialChanged(s, o))
              \in Announced
  BY RotateIs
<1>2. o = Shared => spec[s] \in Config
  BY <1>1 DEF Types
<1>3. \A id \in ServerId, w \in Owner :
        id # row[s] \/ w # o => secret'[id][w] = secret[id][w]
  BY <1>1 DEF Types
<1>4. UNCHANGED <<servers, order, obj, closed, req, loop, spec, row, home, ver>>
  BY DEF RotateSecret, registry, objects
<1> QED BY <1>1, <1>2, <1>3, <1>4

(* The request goes on with what it was checked for. *)
AsksNoMore(p) ==
    req'[p].pc # "idle" =>
        /\ req[p].pc # "idle"
        /\ req'[p].asof = req[p].asof /\ req'[p].roles = req[p].roles
        /\ \A s \in Slug : Asks(p, s)' => Asks(p, s)

LEMMA NextAsksNoMore ==
    ASSUME Types, NEW p \in Proc, req[p].pc # "idle", NextSlug(p)
    PROVE  \A q \in Proc : AsksNoMore(q)
<1>1. /\ \A q \in Proc : q # p => req'[q] = req[q]
      /\ \/ req'[p] = Idle
         \/ /\ req'[p].pc = "lookup"
            /\ req'[p].todo = Tail(req[p].todo)
            /\ req'[p].asof = req[p].asof /\ req'[p].roles = req[p].roles
  BY NextSlugTypes
<1>2. req[p].todo \in Seq(Slug) /\ req[p].todo # <<>>
  BY AskingParts DEF Types
<1>3. \A n \in DOMAIN Tail(req[p].todo) :
        n + 1 \in DOMAIN req[p].todo /\ Tail(req[p].todo)[n] = req[p].todo[n + 1]
  BY <1>2, TailOf
<1>4. AsksNoMore(p)
  <2>1. CASE req'[p] = Idle
    BY <2>1 DEF AsksNoMore, Idle
  <2>2. CASE req'[p].pc = "lookup" /\ req'[p].todo = Tail(req[p].todo)
    BY <1>1, <1>3, <2>2 DEF AsksNoMore, Asks, Idle
  <2> QED BY <1>1, <2>1, <2>2
<1>5. ASSUME NEW q \in Proc, q # p PROVE AsksNoMore(q)
  BY <1>1, <1>5 DEF AsksNoMore, Asks
<1> QED BY <1>4, <1>5

(* The rest of a request may change: what it asks, and for whom, stays. *)
LEMMA GoesOn ==
    ASSUME Types, NEW p \in Proc, req[p].pc # "idle", NEW r,
           r.todo = req[p].todo, r.asof = req[p].asof, r.roles = req[p].roles,
           req' = [req EXCEPT ![p] = r]
    PROVE  \A q \in Proc : AsksNoMore(q)
<1>1. req'[p] = r /\ \A q \in Proc : q # p => req'[q] = req[q]
  BY DEF Types
<1> QED BY <1>1 DEF AsksNoMore, Asks

LEMMA GoOnAsksNoMore ==
    ASSUME Types, NEW p \in Proc, GetForUser(p) \/ Calling(p)
    PROVE  \A q \in Proc : AsksNoMore(q)
<1>1. req[p].pc # "idle" /\ req[p] \in Asking /\ req \in [Proc -> {Idle} \union Asking]
  BY AskingParts DEF Types, GetForUser, Lookup, Build, Store, Discard, Calling, Use, Handshake
<1>2. CASE NextSlug(p)
  BY <1>1, <1>2, NextAsksNoMore
<1>3. CASE \E i \in Inst : UseInst(p, i)
  <2>1. PICK i \in Inst : UseInst(p, i)
    BY <1>3
  <2>2. /\ \A q \in Proc : q # p => req'[q] = req[q]
        /\ req'[p].todo = req[p].todo
        /\ req'[p].asof = req[p].asof /\ req'[p].roles = req[p].roles
    BY <1>1, <2>1, UseInstTypes
  <2> QED BY <1>1, <2>2 DEF AsksNoMore, Asks
<1>4. CASE Lookup(p)
  <2> DEFINE e == servers[Head(req[p].todo)]
  <2>1. CASE e # Absent /\ Found(e, req[p].user) # NoInst /\ UseInst(p, Found(e, req[p].user))
    <3>1. e \in Entry /\ req[p].user \in User
      BY <1>1, AskingParts DEF Types
    <3>2. Found(e, req[p].user) \in Inst
      BY <2>1, <3>1, EntryParts, RegistryAssumption DEF Found
    <3> QED BY <1>3, <2>1, <3>2
  <2>2. CASE req' = [req EXCEPT ![p] = [@ EXCEPT !.pc = "build", !.prov = e.ver]]
    <3> DEFINE r == [req[p] EXCEPT !.pc = "build", !.prov = e.ver]
    <3>1. r.todo = req[p].todo /\ r.asof = req[p].asof /\ r.roles = req[p].roles
      BY <1>1 DEF Asking
    <3>2. req' = [req EXCEPT ![p] = r]
      BY <2>2
    <3> HIDE DEF r
    <3> QED BY <1>1, <3>1, <3>2, GoesOn
  <2> QED BY <1>2, <1>4, <2>1, <2>2 DEF Lookup
<1>5. CASE Build(p)
  <2>1. CASE \E i \in Fresh :
               req' = [req EXCEPT ![p] = [@ EXCEPT !.pc = "store", !.mine = i]]
    <3>1. PICK i \in Fresh :
               req' = [req EXCEPT ![p] = [@ EXCEPT !.pc = "store", !.mine = i]]
      BY <2>1
    <3> DEFINE r == [req[p] EXCEPT !.pc = "store", !.mine = i]
    <3>2. r.todo = req[p].todo /\ r.asof = req[p].asof /\ r.roles = req[p].roles
      BY <1>1 DEF Asking
    <3>3. req' = [req EXCEPT ![p] = r]
      BY <3>1
    <3> HIDE DEF r
    <3> QED BY <1>1, <3>2, <3>3, GoesOn
  <2> QED BY <1>2, <1>5, <2>1 DEF Build
<1>6. CASE Store(p)
  <2>1. CASE \E i : req' = [req EXCEPT ![p] = [@ EXCEPT !.pc = "discard", !.inst = i]]
    <3>1. PICK i : req' = [req EXCEPT ![p] = [@ EXCEPT !.pc = "discard", !.inst = i]]
      BY <2>1
    <3> DEFINE r == [req[p] EXCEPT !.pc = "discard", !.inst = i]
    <3>2. r.todo = req[p].todo /\ r.asof = req[p].asof /\ r.roles = req[p].roles
      BY <1>1 DEF Asking
    <3>3. req' = [req EXCEPT ![p] = r]
      BY <3>1
    <3> HIDE DEF r
    <3> QED BY <1>1, <3>2, <3>3, GoesOn
  <2>2. req[p].mine \in Inst
    BY <1>1, <1>6, AskingParts DEF Store
  <2> QED BY <1>3, <1>6, <2>1, <2>2 DEF Store
<1>7. CASE Discard(p)
  BY <1>1, <1>2, <1>3, <1>7, AskingParts DEF Discard
<1>8. CASE Calling(p)
  <2>1. /\ \A q \in Proc : q # p => req'[q] = req[q]
        /\ \/ NextSlug(p)
           \/ /\ req'[p].todo = req[p].todo
              /\ req'[p].asof = req[p].asof /\ req'[p].roles = req[p].roles
    BY <1>8, CallingTypes
  <2> QED BY <1>1, <1>2, <2>1 DEF AsksNoMore, Asks
<1> QED BY <1>4, <1>5, <1>6, <1>7, <1>8 DEF GetForUser

(* The request was just checked against the entry of s. *)
MayAsk(p, s) ==
    /\ servers[s] # Absent
    /\ req'[p].asof[s] = servers[s].ver
    /\ rolesAllow(servers[s].roles, req'[p].roles)

(* What a request asks for as it begins is open to its roles. *)
LEMMA BeginsAllowed ==
    ASSUME Types, OrderMatches, NEW p \in Proc, CallCheck(p) \/ ListCheck(p)
    PROVE  /\ \A q \in Proc : q # p => req'[q] = req[q]
           /\ \A s \in Slug : Asks(p, s)' => MayAsk(p, s)
<1>1. PICK user \in User, roles \in SUBSET Role, todo \in Seq(Slug) :
        /\ todo # <<>> /\ Begin(p, user, roles, todo)
        /\ \A n \in DOMAIN todo : servers[todo[n]] # Absent
                                  /\ rolesAllow(servers[todo[n]].roles, roles)
  <2>1. CASE CallCheck(p)
    <3>1. PICK user \in User, roles \in SUBSET Role, s \in Registered :
            rolesAllow(servers[s].roles, roles) /\ Begin(p, user, roles, <<s>>)
      BY <2>1 DEF CallCheck
    <3>2. s \in Slug /\ servers[s] # Absent
      BY DEF Registered
    <3>3. <<s>> \in Seq(Slug) /\ <<s>> # <<>> /\ \A n \in DOMAIN <<s>> : <<s>>[n] = s
      BY <3>2
    <3> QED BY <3>1, <3>2, <3>3
  <2>2. CASE ListCheck(p)
    <3>1. PICK user \in User, roles \in SUBSET Role :
            Visible(roles) # {} /\ \E todo \in VisibleSlugs(roles) : Begin(p, user, roles, todo)
      BY <2>2 DEF ListCheck
    <3>2. PICK todo \in VisibleSlugs(roles) : Begin(p, user, roles, todo)
      BY <3>1
    <3>3. /\ todo \in Seq(Slug) /\ todo # <<>>
          /\ \A n \in DOMAIN todo : \E m \in Visible(roles) : todo[n] = order[m]
      BY <3>1, <3>2, VisibleSlugsAre
    <3>4. \A m \in Visible(roles) : servers[order[m]] # Absent
                                    /\ rolesAllow(servers[order[m]].roles, roles)
      <4>1. \A m \in DOMAIN order : order[m] \in Registered
        BY DEF OrderMatches, Range
      <4> QED BY <4>1 DEF Visible, EntryRoles, Registered
    <3>5. \A n \in DOMAIN todo : servers[todo[n]] # Absent
                                 /\ rolesAllow(servers[todo[n]].roles, roles)
      BY <3>3, <3>4
    <3> QED BY <3>2, <3>3, <3>5
  <2> QED BY <2>1, <2>2
<1>2. todo # <<>> /\ Begin(p, user, roles, todo)
  BY <1>1
<1>3. /\ \A q \in Proc : q # p => req'[q] = req[q]
      /\ req'[p].roles = roles /\ req'[p].todo = todo
      /\ \A s \in Slug : req'[p].asof[s] = VerOf(s)
  <2>1. Types /\ p \in Proc /\ user \in User /\ roles \in SUBSET Role /\ todo \in Seq(Slug)
    OBVIOUS
  <2> QED BY <1>2, <2>1, BeginTypes
<1> QED BY <1>1, <1>3 DEF Asks, MayAsk, VerOf

LEMMA InitChecked == Init => Checked
<1> SUFFICES ASSUME Init PROVE Checked
  OBVIOUS
<1>1. \A s \in Slug : \A v, R : ~Known(s, v, R)
  BY DEF Init, Known, Resting
<1> QED BY <1>1 DEF Checked, Init, Idle

(* Nothing is published: what is known shrinks, requests go on or begin. *)
LEMMA QuietChecked ==
    ASSUME Types, OrderMatches, Checked, OnlyKnown, Types', ver' >= ver,
           \A q \in Proc :
              \/ AsksNoMore(q)
              \/ \A s \in Slug : Asks(q, s)' => MayAsk(q, s)
    PROVE  Checked'
<1>1. ver \in Nat /\ ver' \in Nat
  BY RegistryAssumption DEF Types
<1>2. ASSUME NEW s \in Slug, NEW v \in 1..MaxVer, NEW R \in SUBSET Role, Known(s, v, R)'
      PROVE  v <= ver' /\ \A Q \in SUBSET Role : Known(s, v, Q)' => Q = R
  <2>1. Known(s, v, R) /\ \A Q \in SUBSET Role : Known(s, v, Q)' => Known(s, v, Q)
    BY <1>2 DEF OnlyKnown
  <2>2. v <= ver /\ \A Q \in SUBSET Role : Known(s, v, Q) => Q = R
    BY <2>1 DEF Checked
  <2> QED BY <1>1, <2>1, <2>2
<1>3. ASSUME NEW q \in Proc, req'[q].pc # "idle", NEW s \in Slug, NEW v \in 0..MaxVer,
             Asks(q, s)', v = req'[q].asof[s]
      PROVE  /\ v <= ver'
             /\ \A R \in SUBSET Role : Known(s, v, R)' => rolesAllow(R, req'[q].roles)
  <2>0. v \in Nat
    BY RegistryAssumption
  <2>1. CASE AsksNoMore(q)
    <3>1. /\ req[q].pc # "idle" /\ v = req[q].asof[s] /\ req'[q].roles = req[q].roles
          /\ Asks(q, s)
      BY <1>3, <2>1 DEF AsksNoMore
    <3>2. /\ v <= ver
          /\ \A R \in SUBSET Role : Known(s, v, R) => rolesAllow(R, req[q].roles)
      BY <3>1 DEF Checked
    <3> QED BY <1>1, <2>0, <3>1, <3>2 DEF OnlyKnown
  <2>2. CASE MayAsk(q, s)
    <3>0. servers[s] # Absent /\ v = servers[s].ver
          /\ rolesAllow(servers[s].roles, req'[q].roles)
      BY <1>3, <2>2 DEF MayAsk
    <3>1. v \in 1..MaxVer /\ servers[s].roles \in SUBSET Role
      BY <3>0, EntryParts DEF Types
    <3>2. Known(s, v, servers[s].roles)
      BY <3>0 DEF Known
    <3>3. v <= ver /\ \A Q \in SUBSET Role : Known(s, v, Q) => Q = servers[s].roles
      BY <3>1, <3>2 DEF Checked
    <3>4. \A R \in SUBSET Role : Known(s, v, R)' => R = servers[s].roles
      BY <3>3 DEF OnlyKnown
    <3> QED BY <1>1, <2>0, <3>0, <3>3, <3>4
  <2> QED BY <1>3, <2>1, <2>2
<1> QED BY <1>2, <1>3 DEF Checked

LEMMA UpsertChecked ==
    ASSUME Types, Checked, Types', PublishUpsert
    PROVE  Checked'
<1>1. PICK s \in Slug, c \in Config, id \in ServerId :
        /\ c.ver = ver + 1 /\ ver' = ver + 1
        /\ spec'[s] = c /\ \A t \in Slug : t # s => spec'[t] = spec[t]
        /\ Upsert(s, c) \in Announced /\ bus' = Append(bus, Upsert(s, c))
        /\ UNCHANGED <<servers, order, obj, closed, req, loop, secret>>
  BY Upserted
<1>2. ver \in Nat /\ ver' \in Nat
  BY RegistryAssumption DEF Types
<1>3. ASSUME NEW t \in Slug, NEW v, NEW R, Known(t, v, R)'
      PROVE  Known(t, v, R) \/ (t = s /\ v = ver + 1 /\ R = c.roles)
  <2>1. \A n \in DOMAIN bus' : \/ n \in DOMAIN bus /\ bus'[n] = bus[n]
                               \/ bus'[n] = Upsert(s, c)
    BY <1>1, BusGrown
  <2> QED BY <1>1, <1>3, <2>1 DEF Known, Upsert
<1>4. ASSUME NEW t \in Slug, NEW v \in 1..MaxVer, NEW R \in SUBSET Role, Known(t, v, R)'
      PROVE  v <= ver' /\ \A Q \in SUBSET Role : Known(t, v, Q)' => Q = R
  <2>1. \A Q \in SUBSET Role : Known(t, v, Q) =>
           v <= ver /\ \A P \in SUBSET Role : Known(t, v, P) => P = Q
    BY DEF Checked
  <2>2. \A Q \in SUBSET Role : Known(t, v, Q)' =>
           Known(t, v, Q) \/ (t = s /\ v = ver + 1 /\ Q = c.roles)
    BY <1>3
  <2>3. CASE v <= ver
    BY <1>1, <1>2, <1>4, <2>1, <2>2, <2>3
  <2>4. CASE ~(v <= ver)
    BY <1>1, <1>2, <1>4, <2>1, <2>2, <2>4
  <2> QED BY <2>3, <2>4
<1>5. ASSUME NEW q \in Proc, req'[q].pc # "idle", NEW t \in Slug, NEW v \in 0..MaxVer,
             Asks(q, t)', v = req'[q].asof[t]
      PROVE  /\ v <= ver'
             /\ \A R \in SUBSET Role : Known(t, v, R)' => rolesAllow(R, req'[q].roles)
  <2>1. req' = req /\ req[q].pc # "idle" /\ Asks(q, t) /\ v = req[q].asof[t] /\ v \in Nat
    BY <1>1, <1>5, RegistryAssumption DEF Asks
  <2>2. /\ v <= ver
        /\ \A R \in SUBSET Role : Known(t, v, R) => rolesAllow(R, req[q].roles)
    BY <2>1 DEF Checked
  <2>3. v # ver + 1
    BY <1>2, <2>1, <2>2
  <2>4. \A R \in SUBSET Role : Known(t, v, R)' => Known(t, v, R)
    BY <1>3, <2>3
  <2> QED BY <1>1, <1>2, <2>1, <2>2, <2>4
<1> QED BY <1>4, <1>5 DEF Checked

LEMMA StepChecked == Types /\ OrderMatches /\ Checked /\ [Next]_vars => Checked'
<1> SUFFICES ASSUME Types, OrderMatches, Checked, [Next]_vars PROVE Checked'
  OBVIOUS
<1>0. Types' /\ ver \in Nat
  BY StepTypes, RegistryAssumption DEF Types
<1>1. CASE UNCHANGED req /\ OnlyKnown /\ ver' >= ver
  <2>1. \A q \in Proc : AsksNoMore(q)
    BY <1>1 DEF AsksNoMore, Asks
  <2> QED BY <1>0, <1>1, <2>1, QuietChecked
<1>2. ASSUME NEW p \in Proc, CallCheck(p) \/ ListCheck(p) \/ GetForUser(p) \/ Calling(p)
      PROVE  Checked'
  <2>1. OnlyKnown
    BY <1>2, RequestKnown
  <2>2. ver' = ver
    BY <1>2 DEF CallCheck, ListCheck, GetForUser, Lookup, Build, Store, Discard,
                Calling, Use, Handshake, control
  <2>3. CASE GetForUser(p) \/ Calling(p)
    BY <1>0, <2>1, <2>2, <2>3, GoOnAsksNoMore, QuietChecked
  <2>4. CASE CallCheck(p) \/ ListCheck(p)
    <3>1. \A q \in Proc : q # p => AsksNoMore(q)
      BY <2>4, BeginsAllowed DEF AsksNoMore, Asks
    <3> QED BY <1>0, <2>1, <2>2, <2>4, <3>1, BeginsAllowed, QuietChecked
  <2> QED BY <1>2, <2>3, <2>4
<1>3. CASE Loop
  <2>1. UNCHANGED <<req, ver>>
    BY <1>3 DEF Loop, IgnoreEvent, ResolveShared, AddScoped, AddProvider, Remove,
                Invalidate, CloseDropped, control
  <2> QED BY <1>0, <1>1, <1>3, <2>1, LoopKnown
<1>4. CASE PublishUpsert
  BY <1>0, <1>4, UpsertChecked
<1>5. CASE PublishRemove
  <2>1. PICK s \in Slug :
          /\ ver' = ver + 1
          /\ spec'[s] = Absent /\ \A t \in Slug : t # s => spec'[t] = spec[t]
          /\ Removal(s) \in Announced /\ bus' = Append(bus, Removal(s))
          /\ UNCHANGED <<servers, order, obj, closed, req, loop, secret>>
    BY <1>5, Unpublished
  <2>2. \A n \in DOMAIN bus' : \/ n \in DOMAIN bus /\ bus'[n] = bus[n]
                               \/ bus'[n] = Removal(s)
    BY <2>1, BusGrown
  <2>3. OnlyKnown
    BY <2>1, <2>2 DEF OnlyKnown, Known, Removal
  <2> QED BY <1>0, <1>1, <2>1, <2>3
<1>6. CASE RotateSecret
  <2>1. PICK s \in Slug, o \in Owner, v \in Announced :
          /\ o = Shared => spec[s] \in Config
          /\ bus' = Append(bus, v)
          /\ v = IF o = Shared THEN Upsert(s, spec[s]) ELSE CredentialChanged(s, o)
          /\ UNCHANGED <<servers, order, obj, closed, req, loop, spec, ver>>
    BY <1>6, Rotated
  <2>2. \A n \in DOMAIN bus' : \/ n \in DOMAIN bus /\ bus'[n] = bus[n]
                               \/ bus'[n] = v
    BY <2>1, BusGrown
  <2>3. o = Shared => spec[s] # Absent
    BY <2>1, ConfigParts
  <2>4. OnlyKnown
    BY <2>1, <2>2, <2>3 DEF OnlyKnown, Known, Upsert, CredentialChanged
  <2> QED BY <1>0, <1>1, <2>1, <2>4
<1>7. CASE UNCHANGED vars
  BY <1>0, <1>1, <1>7 DEF vars, OnlyKnown, Known
<1> QED BY <1>2, <1>3, <1>4, <1>5, <1>6, <1>7 DEF Next, Calling

(* Roles are enforced on the call: a request gets an instance from an entry
   whose roles forbid it only if the entry was put in place after the request
   was checked (handler.go:115-123, downstream.go:147-188). *)
THEOREM RolesEnforcedOnCall == Spec => RBACOnCall
<1> DEFINE Enforced ==
      \A p \in Proc :
         LET s == Head(req[p].todo) IN
         Lookup(p) /\ req'[p].pc = "use" /\ req[p].asof[s] = VerOf(s) =>
             rolesAllow(servers[s].roles, req[p].roles)
<1>1. Types /\ Checked => Enforced
  <2> SUFFICES ASSUME Types, Checked, NEW p \in Proc, Lookup(p), req'[p].pc = "use",
                      req[p].asof[Head(req[p].todo)] = VerOf(Head(req[p].todo))
               PROVE  rolesAllow(servers[Head(req[p].todo)].roles, req[p].roles)
    OBVIOUS
  <2> DEFINE s == Head(req[p].todo)
  <2>1. /\ req[p].pc = "lookup" /\ s \in Slug /\ req[p].todo \in Seq(Slug)
        /\ req[p].todo # <<>>
    BY AskingParts DEF Types, Lookup
  <2>2. 1 \in DOMAIN req[p].todo /\ req[p].todo[1] = s
    BY <2>1, TailOf
  <2>3. servers[s] # Absent
    <3>1. ~NextSlug(p)
      BY <2>1, NextSlugTypes DEF Idle
    <3> QED BY <3>1 DEF Lookup
  <2>4. servers[s].ver \in 1..MaxVer /\ servers[s].roles \in SUBSET Role
    BY <2>1, <2>3, EntryParts DEF Types
  <2>5. Known(s, servers[s].ver, servers[s].roles) /\ req[p].asof[s] = servers[s].ver
    BY <2>3 DEF Known, VerOf
  <2> HIDE DEF s
  <2>6. \A R \in SUBSET Role :
          Known(s, servers[s].ver, R) => rolesAllow(R, req[p].roles)
    <3>1. Asks(p, s)
      BY <2>2 DEF Asks
    <3>2. servers[s].ver \in 0..MaxVer
      BY <2>4
    <3> QED BY <2>1, <2>5, <3>1, <3>2 DEF Checked
  <2> QED BY <2>4, <2>5, <2>6 DEF s
<1>2. Spec => [](Types /\ OrderMatches /\ Checked)
  BY InitTypes, InitOrder, InitChecked, StepTypes, StepOrder, StepChecked, PTL DEF Spec
<1>3. [](Types /\ Checked) => [][Enforced]_vars
  BY <1>1, PTL
<1> QED BY <1>2, <1>3, PTL DEF RBACOnCall
-----------------------------------------------------------------------------
(* The registry follows the control plane. *)

(* What an object was built from never changes. *)
SameMade ==
    \A j \in Built :
        /\ j \in Built'
        /\ obj'[j].slug = obj[j].slug /\ obj'[j].owner = obj[j].owner
        /\ obj'[j].ver = obj[j].ver /\ obj'[j].sec = obj[j].sec
        /\ obj[j].late => obj'[j].late

LEMMA UnchangedMade == UNCHANGED obj => SameMade
BY DEF SameMade, Built, Fresh

LEMMA MarkedMade ==
    ASSUME Types, NEW s, NEW u, MarkLate(s, u)
    PROVE  SameMade
BY MarkLateTypes DEF SameMade, Built, Fresh

LEMMA MadeMade ==
    ASSUME Types, Owned, NEW i \in Fresh, NEW s \in Slug, NEW o \in Owner,
           NEW v \in 0..MaxVer, NEW x \in Int, MakeObject(i, s, o, v, x)
    PROVE  SameMade
BY Making DEF SameMade

(* The event that decides a server is taken, or another one is. *)
LEMMA AboutTaken ==
    ASSUME Types, bus # <<>>, bus' = Tail(bus), NEW s \in Slug
    PROVE  /\ \A n \in DOMAIN bus' : About(n, s)' <=> About(n + 1, s)
           /\ \A n \in DOMAIN bus' : LastAbout(n, s)' => LastAbout(n + 1, s)
           /\ (\A n \in DOMAIN bus' : ~About(n, s)') =>
                 \/ \A n \in DOMAIN bus : ~About(n, s)
                 \/ LastAbout(1, s)
<1>1. /\ Len(bus) \in Nat \ {0} /\ 1 \in DOMAIN bus
      /\ DOMAIN bus = 1..Len(bus) /\ DOMAIN bus' = 1..(Len(bus) - 1)
      /\ \A n \in DOMAIN bus' : n + 1 \in DOMAIN bus /\ bus'[n] = bus[n + 1]
  BY BusTaken
<1>2. \A n \in DOMAIN bus' : About(n, s)' <=> About(n + 1, s)
  BY <1>1 DEF About
<1>3. \A m \in DOMAIN bus : m > 1 => m - 1 \in DOMAIN bus' /\ (m - 1) + 1 = m
  BY <1>1
<1>4. ASSUME NEW n \in DOMAIN bus', LastAbout(n, s)' PROVE LastAbout(n + 1, s)
  <2>1. About(n + 1, s)
    BY <1>2, <1>4 DEF LastAbout
  <2>2. ASSUME NEW m \in DOMAIN bus, m > n + 1 PROVE ~About(m, s)
    <3>1. m - 1 \in DOMAIN bus' /\ (m - 1) + 1 = m /\ m - 1 > n
      BY <1>1, <1>3, <2>2
    <3>2. \A k \in DOMAIN bus' : k > n => ~About(k, s)'
      BY <1>4 DEF LastAbout
    <3>3. \A k \in DOMAIN bus' : k > n => ~About(k + 1, s)
      BY <1>2, <3>2
    <3> QED BY <3>1, <3>3
  <2> QED BY <2>1, <2>2 DEF LastAbout
<1>5. ASSUME \A n \in DOMAIN bus' : ~About(n, s)'
      PROVE  (\A n \in DOMAIN bus : ~About(n, s)) \/ LastAbout(1, s)
  <2>1. \A m \in DOMAIN bus : m > 1 => ~About(m, s)
    <3>1. \A n \in DOMAIN bus' : ~About(n + 1, s)
      BY <1>2, <1>5
    <3> QED BY <1>3, <3>1
  <2>2. CASE About(1, s)
    BY <2>1, <2>2 DEF LastAbout
  <2>3. CASE ~About(1, s)
    BY <1>1, <2>1, <2>3
  <2> QED BY <2>2, <2>3
<1> QED BY <1>2, <1>4, <1>5

LEMMA AboutGrown ==
    ASSUME Types, NEW v \in Announced, bus' = Append(bus, v), NEW s \in Slug
    PROVE  /\ \A n \in DOMAIN bus' : LastAbout(n, s)' =>
                 \/ bus'[n] = v /\ v.slug = s /\ v.action # "credential"
                 \/ /\ n \in DOMAIN bus /\ bus'[n] = bus[n] /\ LastAbout(n, s)
                    /\ v.slug # s \/ v.action = "credential"
           /\ (\A n \in DOMAIN bus' : ~About(n, s)') =>
                 /\ \A n \in DOMAIN bus : ~About(n, s)
                 /\ v.slug # s \/ v.action = "credential"
<1>1. /\ Len(bus) \in Nat /\ DOMAIN bus = 1..Len(bus)
      /\ DOMAIN bus' = 1..(Len(bus) + 1)
      /\ \A n \in DOMAIN bus' : \/ n \in DOMAIN bus /\ bus'[n] = bus[n]
                                \/ n = Len(bus) + 1 /\ bus'[n] = v
      /\ \A n \in DOMAIN bus : n \in DOMAIN bus' /\ bus'[n] = bus[n]
  BY BusGrown
<1>2. \A n \in DOMAIN bus : About(n, s)' <=> About(n, s)
  BY <1>1 DEF About
<1>3. PICK k \in Nat : k = Len(bus) + 1
  BY <1>1
<1>4. /\ k \in DOMAIN bus' /\ bus'[k] = v
      /\ About(k, s)' <=> v.slug = s /\ v.action # "credential"
  <2>1. k \in DOMAIN bus' /\ k \notin DOMAIN bus
    BY <1>1, <1>3
  <2>2. bus'[k] = v
    BY <1>1, <2>1
  <2> QED BY <2>1, <2>2 DEF About
<1>5. ASSUME NEW n \in DOMAIN bus', LastAbout(n, s)'
      PROVE  \/ bus'[n] = v /\ v.slug = s /\ v.action # "credential"
             \/ /\ n \in DOMAIN bus /\ bus'[n] = bus[n] /\ LastAbout(n, s)
                /\ v.slug # s \/ v.action = "credential"
  <2>1. About(n, s)' /\ \A m \in DOMAIN bus' : m > n => ~About(m, s)'
    BY <1>5 DEF LastAbout
  <2>2. CASE n = k
    BY <1>4, <2>1, <2>2
  <2>3. CASE n \in DOMAIN bus /\ bus'[n] = bus[n]
    <3>1. k > n
      BY <1>1, <1>3, <2>3
    <3>2. v.slug # s \/ v.action = "credential"
      BY <1>4, <2>1, <3>1
    <3>3. LastAbout(n, s)
      BY <1>1, <1>2, <2>1, <2>3 DEF LastAbout
    <3> QED BY <2>3, <3>2, <3>3
  <2> QED BY <1>1, <1>3, <2>2, <2>3
<1>6. (\A n \in DOMAIN bus' : ~About(n, s)') =>
         /\ \A n \in DOMAIN bus : ~About(n, s)
         /\ v.slug # s \/ v.action = "credential"
  BY <1>1, <1>2, <1>4
<1> QED BY <1>5, <1>6

(* What the loop has yet to take says what was last published. *)
LEMMA StepLatest == ASSUME Types, Latest, [Next]_vars PROVE Latest'
<1>1. CASE UNCHANGED <<bus, spec>>
  BY <1>1 DEF Latest, LastAbout, About
<1>2. CASE bus # <<>> /\ bus' = Tail(bus) /\ UNCHANGED spec
  <2> SUFFICES ASSUME NEW s \in Slug, NEW n \in DOMAIN bus', LastAbout(n, s)'
               PROVE  spec'[s] = Says(bus'[n])
    BY DEF Latest
  <2>1. LastAbout(n + 1, s)
    BY <1>2, AboutTaken
  <2>2. n + 1 \in DOMAIN bus /\ bus'[n] = bus[n + 1]
    BY <1>2, BusTaken
  <2> QED BY <1>2, <2>1, <2>2 DEF Latest
<1>3. ASSUME NEW p \in Proc, CallCheck(p) \/ ListCheck(p) \/ GetForUser(p) \/ Calling(p)
      PROVE  Latest'
  BY <1>1, <1>3 DEF CallCheck, ListCheck, GetForUser, Lookup, Build, Store, Discard,
              Calling, Use, Handshake, control
<1>4. CASE Loop
  BY <1>1, <1>2, <1>4 DEF Loop, IgnoreEvent, ResolveShared, AddScoped, AddProvider, Remove,
                          Invalidate, CloseDropped, control, stored
<1>5. CASE PublishUpsert
  <2>1. PICK s \in Slug, c \in Config :
          /\ spec'[s] = c /\ \A t \in Slug : t # s => spec'[t] = spec[t]
          /\ Upsert(s, c) \in Announced /\ bus' = Append(bus, Upsert(s, c))
    BY <1>5, Upserted
  <2> DEFINE v == Upsert(s, c)
  <2>2. v.action = "upsert" /\ v.slug = s /\ Says(v) = c
    BY DEF Upsert, Says
  <2> HIDE DEF v
  <2> SUFFICES ASSUME NEW t \in Slug, NEW n \in DOMAIN bus', LastAbout(n, t)'
               PROVE  spec'[t] = Says(bus'[n])
    BY DEF Latest
  <2>3. v \in Announced /\ bus' = Append(bus, v)
    BY <2>1 DEF v
  <2>4. \/ bus'[n] = v /\ v.slug = t
        \/ n \in DOMAIN bus /\ bus'[n] = bus[n] /\ LastAbout(n, t) /\ v.slug # t
    BY <2>2, <2>3, AboutGrown
  <2> QED BY <2>1, <2>2, <2>4 DEF Latest
<1>6. CASE PublishRemove
  <2>1. PICK s \in Slug :
          /\ spec'[s] = Absent /\ \A t \in Slug : t # s => spec'[t] = spec[t]
          /\ Removal(s) \in Announced /\ bus' = Append(bus, Removal(s))
    BY <1>6, Unpublished
  <2> DEFINE v == Removal(s)
  <2>2. v.action = "remove" /\ v.slug = s /\ Says(v) = Absent
    BY DEF Removal, Says
  <2> HIDE DEF v
  <2> SUFFICES ASSUME NEW t \in Slug, NEW n \in DOMAIN bus', LastAbout(n, t)'
               PROVE  spec'[t] = Says(bus'[n])
    BY DEF Latest
  <2>3. v \in Announced /\ bus' = Append(bus, v)
    BY <2>1 DEF v
  <2>4. \/ bus'[n] = v /\ v.slug = t
        \/ n \in DOMAIN bus /\ bus'[n] = bus[n] /\ LastAbout(n, t) /\ v.slug # t
    BY <2>2, <2>3, AboutGrown
  <2> QED BY <2>1, <2>2, <2>4 DEF Latest
<1>7. CASE RotateSecret
  <2>1. PICK s \in Slug, o \in Owner, v \in Announced :
          /\ bus' = Append(bus, v)
          /\ v = IF o = Shared THEN Upsert(s, spec[s]) ELSE CredentialChanged(s, o)
          /\ UNCHANGED <<servers, order, obj, closed, req, loop, spec, ver>>
    BY <1>7, Rotated
  <2>2. v.slug = s /\ (v.action = "credential" \/ Says(v) = spec[s])
    BY <2>1 DEF Upsert, CredentialChanged, Says
  <2> SUFFICES ASSUME NEW t \in Slug, NEW n \in DOMAIN bus', LastAbout(n, t)'
               PROVE  spec'[t] = Says(bus'[n])
    BY DEF Latest
  <2>3. \/ bus'[n] = v /\ v.slug = t /\ v.action # "credential"
        \/ n \in DOMAIN bus /\ bus'[n] = bus[n] /\ LastAbout(n, t)
    BY <2>1, AboutGrown
  <2> QED BY <2>1, <2>2, <2>3 DEF Latest
<1>8. CASE UNCHANGED vars
  BY <1>1, <1>8 DEF vars
<1> QED BY <1>3, <1>4, <1>5, <1>6, <1>7, <1>8 DEF Next, Calling

(* The entry of s still says the same. *)
SameEntry(s) ==
    /\ (servers'[s] = Absent) <=> (servers[s] = Absent)
    /\ servers[s] # Absent =>
          /\ servers'[s].mode = servers[s].mode
          /\ servers'[s].ver = servers[s].ver /\ servers'[s].roles = servers[s].roles
          /\ servers[s].mode = "shared" => servers'[s].ds = servers[s].ds

(* Who has configuration v still reads the same secret of o. *)
SameCredentials(v, o) == secret'[home'[v]][o] = secret[home[v]][o]

LEMMA KeepSettles ==
    ASSUME Types, Owned, NEW s \in Slug, SameMade, SameEntry(s),
           spec'[s] = spec[s],
           spec[s] # Absent => SameCredentials(spec[s].ver, Shared),
           \/ UNCHANGED loop
           \/ /\ ~(loop.pc = "add" /\ loop.slug = s)
              /\ ~(loop'.pc = "add" /\ loop'.slug = s),
           Settles(s)
    PROVE  Settles(s)'
<1>1. CASE loop.pc = "add" /\ loop.slug = s
  <2>1. loop' = loop /\ loop.inst \in Built
    BY <1>1 DEF Owned, Whose, LoopOwns, Adding
  <2>2. /\ spec[s] = loop.cfg /\ obj[loop.inst].ver = loop.cfg.ver
        /\ obj[loop.inst].sec \in {Credentials(loop.cfg.ver, Shared).ver, Unread}
    BY <1>1 DEF Settles
  <2>3. loop.cfg # Absent
    BY <1>1, LoopingParts DEF Types, Configured, Absent
  <2> QED BY <1>1, <2>1, <2>2, <2>3 DEF Settles, SameMade, SameCredentials, Credentials
<1>2. CASE ~(loop.pc = "add" /\ loop.slug = s)
  <2>1. ~(loop'.pc = "add" /\ loop'.slug = s) /\ InForce(s)
    BY <1>2 DEF Settles
  <2>2. servers[s].mode = "shared" => servers[s].ds \in Built
    <3>1. servers[s] \in Entry
      BY DEF Types
    <3>2. servers[s].mode = "shared" => servers[s].ds \in Held(servers[s])
      BY <3>1, HeldIs
    <3> QED BY <3>2, Places
  <2>3. InForce(s)'
    BY <2>1, <2>2 DEF InForce, Supported, SameEntry, SameMade,
       SameCredentials, Credentials
  <2> QED BY <2>1, <2>3 DEF Settles
<1> QED BY <1>1, <1>2

LEMMA RequestMade ==
    ASSUME Types, Owned, NEW p \in Proc,
           CallCheck(p) \/ ListCheck(p) \/ GetForUser(p) \/ Calling(p)
    PROVE  UNCHANGED <<control, loop>> /\ SameMade /\ \A s \in Slug : SameEntry(s)
<1>1. UNCHANGED <<control, loop>>
  BY DEF CallCheck, ListCheck, GetForUser, Lookup, Build, Store, Discard,
         Calling, Use, Handshake
<1>2. SameMade
  <2>1. CASE UNCHANGED obj
    BY <2>1, UnchangedMade
  <2>2. CASE Build(p)
    <3> DEFINE s == Head(req[p].todo)
               x == Credentials(req[p].prov, req[p].user).ver
    <3>1. s \in Slug /\ req[p].user \in Owner /\ req[p].prov \in 0..MaxVer
      BY <2>2, AskingParts DEF Types, Build, Owner
    <3>2. CASE \E i \in Fresh : MakeObject(i, s, req[p].user, req[p].prov, x)
      <4>1. x \in Int
        BY <3>1, CredentialsTypes
      <4> HIDE DEF x
      <4> QED BY <3>1, <3>2, <4>1, MadeMade
    <3> QED BY <2>1, <2>2, <3>2 DEF Build
  <2> QED BY <2>1, <2>2 DEF CallCheck, ListCheck, GetForUser, Lookup, Store, Discard,
                            Calling, Use, Handshake, objects
<1>3. \A s \in Slug : SameEntry(s)
  <2>1. CASE UNCHANGED servers
    BY <2>1 DEF SameEntry
  <2>2. CASE Store(p)
    <3> DEFINE s == Head(req[p].todo)
               e == servers[s]
               u == req[p].user
               i == req[p].mine
    <3>1. s \in Slug /\ u \in User /\ e \in Entry /\ i \in Inst
      BY <2>2, AskingParts DEF Types, Store
    <3>2. CASE /\ e.mode = "per_user"
               /\ servers' = [servers EXCEPT ![s] = [e EXCEPT !.users[u] = i]]
      <4> DEFINE f == [e EXCEPT !.users[u] = i]
      <4>1. e \in UserEntry /\ e # Absent
        BY <3>1, <3>2, EntryParts
      <4>2. f \in Entry /\ f.mode = "per_user" /\ f.ver = e.ver /\ f.roles = e.roles
        <5>1. e \in UserEntry /\ u \in User /\ i \in Inst \union {NoInst}
          BY <3>1, <4>1
        <5> HIDE DEF e, u, i
        <5> QED BY <5>1, OneUserChanged
      <4>3. servers'[s] = f /\ \A t \in Slug : t # s => servers'[t] = servers[t]
        BY <3>1, <3>2 DEF Types
      <4> HIDE DEF f
      <4>4. f # Absent
        BY <4>2, EntryParts
      <4> QED BY <3>2, <4>1, <4>2, <4>3, <4>4 DEF SameEntry
    <3> QED BY <2>1, <2>2, <3>2 DEF Store
  <2> QED BY <2>1, <2>2 DEF CallCheck, ListCheck, GetForUser, Lookup, Build, Discard,
                            Calling, Use, Handshake, registry
<1> QED BY <1>1, <1>2, <1>3

(* An event about the server was just taken, and was the last. *)
LEMMA LoopSettled ==
    ASSUME Types, Owned, Latest, Settled, Loop
    PROVE  Settled'
<1> SUFFICES ASSUME NEW s \in Slug, \A n \in DOMAIN bus' : ~About(n, s)'
             PROVE  Settles(s)'
  BY DEF Settled
<1>1. ASSUME bus # <<>>, bus' = Tail(bus)
      PROVE  \/ Settles(s)
             \/ Event.slug = s /\ Event.action # "credential" /\ spec[s] = Says(Event)
  <2>1. (\A n \in DOMAIN bus : ~About(n, s)) \/ LastAbout(1, s)
    BY <1>1, AboutTaken
  <2>2. CASE \A n \in DOMAIN bus : ~About(n, s)
    BY <2>2 DEF Settled
  <2>3. CASE LastAbout(1, s)
    <3>1. 1 \in DOMAIN bus /\ bus[1] = Event
      BY <1>1, BusTaken
    <3> QED BY <2>3, <3>1 DEF Latest, LastAbout, About
  <2> QED BY <2>1, <2>2, <2>3
<1>0. UNCHANGED stored => SameCredentials(spec[s].ver, Shared)
  BY DEF stored, SameCredentials
<1>2. CASE IgnoreEvent
  <2>1. /\ loop.pc = "take" /\ bus # <<>> /\ bus' = Tail(bus)
        /\ UNCHANGED <<registry, loop, stored>> /\ SameMade
    BY <1>2, UnchangedMade, MarkedMade DEF IgnoreEvent
  <2>2. SameEntry(s)
    BY <2>1 DEF registry, SameEntry
  <2>3. CASE Settles(s)
    BY <1>0, <2>1, <2>2, <2>3, KeepSettles DEF stored
  <2>4. CASE Event.slug = s /\ Event.action # "credential" /\ spec[s] = Says(Event)
    <3>1. InForce(s)
      <4>1. CASE Event.action = "upsert" /\ Event.cfg.mode = "unsupported"
        <5>1. spec[s] = Event.cfg /\ Event.cfg # Absent
          BY <2>1, <2>4, <4>1, EventIs, ConfigParts DEF Says
        <5> QED BY <4>1, <5>1 DEF InForce, Supported
      <4>2. CASE Event.action = "remove" /\ Event.slug \notin Registered
        BY <2>4, <4>2 DEF Says, InForce, Registered
      <4> QED BY <1>2, <2>4, <4>1, <4>2 DEF IgnoreEvent
    <3>2. Settles(s)
      BY <2>1, <3>1 DEF Settles
    <3> QED BY <1>0, <2>1, <2>2, <3>2, KeepSettles DEF stored
  <2> QED BY <1>1, <2>1, <2>3, <2>4
<1>3. CASE ResolveShared
  <2>1. /\ loop.pc = "take" /\ bus # <<>> /\ bus' = Tail(bus)
        /\ UNCHANGED <<registry, stored>>
        /\ Event.action = "upsert" /\ Event.slug \in Slug
        /\ Event.cfg.ver \in 0..MaxVer
    BY <1>3, EventIs, ConfigParts DEF ResolveShared, Config
  <2>2. PICK i \in Fresh, x \in {Credentials(Event.cfg.ver, Shared).ver, Unread} :
          /\ MakeObject(i, Event.slug, Shared, Event.cfg.ver, x)
          /\ loop' = [pc |-> "add", slug |-> Event.slug, cfg |-> Event.cfg,
                      inst |-> i, closing |-> {}]
    BY <1>3 DEF ResolveShared
  <2>0. Shared \in Owner /\ x \in Int
    <3>1. Shared \in Owner
      BY DEF Owner
    <3> QED BY <2>1, <3>1, CredentialsTypes DEF Unread
  <2>3. SameMade
    BY <2>0, <2>1, <2>2, MadeMade
  <2>4. /\ loop'.pc = "add" /\ loop'.slug = Event.slug
        /\ loop'.cfg = Event.cfg /\ loop'.inst = i
    BY <2>2
  <2>5. CASE Event.slug = s /\ spec[s] = Says(Event)
    <3>1. obj'[i].ver = Event.cfg.ver /\ obj'[i].sec = x
      BY <2>0, <2>1, <2>2, <2>5, MakeObjectTypes DEF Fresh
    <3>2. PICK c : c = Event.cfg
      OBVIOUS
    <3>3. spec'[s] = c /\ loop'.cfg = c /\ obj'[loop'.inst].ver = c.ver
      BY <2>1, <2>4, <2>5, <3>1, <3>2 DEF Says, stored
    <3>4. obj'[loop'.inst].sec \in {secret'[home'[c.ver]][Shared].ver, Unread}
      BY <2>1, <2>2, <2>4, <3>1, <3>2 DEF Credentials, stored
    <3> QED BY <2>4, <2>5, <3>3, <3>4 DEF Settles, Credentials, Unread
  <2>6. CASE Event.slug # s /\ Settles(s)
    <3>1. SameEntry(s)
      BY <2>1 DEF registry, SameEntry
    <3> QED BY <1>0, <2>1, <2>3, <2>4, <2>6, <3>1, KeepSettles DEF stored
  <2>7. Event.slug = s => LastAbout(1, s)
    <3>1. 1 \in DOMAIN bus /\ bus[1] = Event
      BY <2>1, BusTaken
    <3>2. Event.slug = s => About(1, s)
      BY <2>1, <3>1 DEF About
    <3> QED BY <2>1, <3>1, <3>2, AboutTaken
  <2>8. Event.slug = s => spec[s] = Says(Event)
    BY <2>1, <2>7, BusTaken DEF Latest
  <2> QED BY <1>1, <2>1, <2>5, <2>6, <2>8
<1>4. CASE AddScoped
  <2>1. loop.pc = "add" /\ loop.slug \in Slug /\ loop.inst \in Inst /\ loop.cfg \in Configured
    BY <1>4, LoopingParts DEF Types, AddScoped
  <2> DEFINE e == Fixed(loop.inst, loop.cfg)
  <2>2. /\ e \in Entry /\ e.mode = "shared" /\ e.ds = loop.inst
        /\ e.ver = loop.cfg.ver /\ e.roles = loop.cfg.roles
    BY <2>1, EntriesMade
  <2> HIDE DEF e
  <2>3. Put(loop.slug, e) /\ UNCHANGED <<obj, bus, stored>>
    BY <1>4 DEF AddScoped, control, objects, stored, e
  <2>4. /\ loop'.pc # "add" /\ servers'[loop.slug] = e
        /\ \A t \in Slug : t # loop.slug => servers'[t] = servers[t]
    BY <2>1, <2>2, <2>3, PutTypes
  <2>5. Settles(s)
    BY <2>3 DEF Settled, About
  <2>6. CASE loop.slug = s
    <3>1. /\ spec[s] = loop.cfg /\ obj[loop.inst].ver = loop.cfg.ver
          /\ obj[loop.inst].sec \in {Credentials(loop.cfg.ver, Shared).ver, Unread}
      BY <2>1, <2>5, <2>6 DEF Settles
    <3>2. spec[s] # Absent /\ e # Absent /\ loop.cfg.mode \in {"shared", "per_user"}
      BY <2>1, <2>2, <3>1, EntryParts DEF Configured, Absent
    <3>3. loop.cfg.mode = "shared"
      BY <2>1, LoopingParts DEF Types
    <3>4. InForce(s)'
      BY <2>2, <2>3, <2>4, <2>6, <3>1, <3>2, <3>3 DEF InForce, Credentials, stored
    <3> QED BY <2>4, <3>4 DEF Settles
  <2>7. CASE loop.slug # s
    <3>1. SameEntry(s) /\ SameMade
      BY <2>3, <2>4, <2>7, UnchangedMade DEF SameEntry
    <3> QED BY <1>0, <2>3, <2>4, <2>5, <2>7, <3>1, KeepSettles DEF stored
  <2> QED BY <2>6, <2>7
<1>5. CASE AddProvider
  <2>1. /\ loop.pc = "take" /\ bus # <<>> /\ bus' = Tail(bus)
        /\ Event.slug \in Slug /\ Event.cfg \in Configured /\ Event.action = "upsert"
        /\ Event.cfg.mode = "per_user" /\ UNCHANGED <<obj, stored>>
    BY <1>5, EventIs, ConfigParts DEF AddProvider, objects
  <2> DEFINE e == PerUser(Event.cfg)
  <2>2. /\ e \in Entry /\ e.mode = "per_user"
        /\ e.ver = Event.cfg.ver /\ e.roles = Event.cfg.roles
    BY <2>1, EntriesMade
  <2> HIDE DEF e
  <2>3. Put(Event.slug, e)
    BY <1>5 DEF AddProvider, e
  <2>4. /\ loop'.pc # "add" /\ servers'[Event.slug] = e
        /\ \A t \in Slug : t # Event.slug => servers'[t] = servers[t]
    BY <2>1, <2>2, <2>3, PutTypes
  <2>5. CASE Event.slug = s
    <3>1. spec[s] = Event.cfg
      <4>1. 1 \in DOMAIN bus /\ bus[1] = Event
        BY <2>1, BusTaken
      <4>2. LastAbout(1, s)
        BY <2>1, <2>5, <4>1, AboutTaken DEF About
      <4> QED BY <2>1, <4>1, <4>2 DEF Latest, Says
    <3>2. spec[s] # Absent /\ e # Absent
      BY <2>1, <2>2, <3>1, EntryParts DEF Configured, Absent
    <3>3. InForce(s)'
      BY <2>1, <2>2, <2>4, <2>5, <3>1, <3>2 DEF InForce, stored
    <3> QED BY <2>4, <3>3 DEF Settles
  <2>6. CASE Event.slug # s
    <3>1. SameEntry(s) /\ SameMade
      BY <2>1, <2>4, <2>6, UnchangedMade DEF SameEntry
    <3> QED BY <1>0, <1>1, <2>1, <2>4, <2>6, <3>1, KeepSettles DEF stored
  <2> QED BY <2>5, <2>6
<1>6. CASE Remove
  <2>1. /\ loop.pc = "take" /\ bus # <<>> /\ bus' = Tail(bus)
        /\ Event.slug \in Slug /\ Event.action = "remove"
        /\ servers' = [servers EXCEPT ![Event.slug] = Absent]
        /\ UNCHANGED <<obj, stored>>
    BY <1>6, EventIs DEF Remove, objects
  <2>2. loop'.pc # "add"
    BY <1>6, ToCloseTypes, HeldIs, EventIs DEF Remove, Types
  <2>3. /\ servers'[Event.slug] = Absent
        /\ \A t \in Slug : t # Event.slug => servers'[t] = servers[t]
    BY <2>1 DEF Types
  <2>4. CASE Event.slug = s
    <3>1. spec[s] = Absent
      <4>1. 1 \in DOMAIN bus /\ bus[1] = Event
        BY <2>1, BusTaken
      <4>2. LastAbout(1, s)
        BY <2>1, <2>4, <4>1, AboutTaken DEF About
      <4> QED BY <2>1, <4>1, <4>2 DEF Latest, Says
    <3> QED BY <2>1, <2>2, <2>3, <2>4, <3>1 DEF InForce, Settles, stored
  <2>5. CASE Event.slug # s
    <3>1. SameEntry(s) /\ SameMade
      BY <2>1, <2>3, <2>5, UnchangedMade DEF SameEntry
    <3> QED BY <1>0, <1>1, <2>1, <2>2, <2>5, <3>1, KeepSettles DEF stored
  <2> QED BY <2>4, <2>5
<1>7. CASE Invalidate
  <2> DEFINE t == Event.slug
  <2>1. /\ t \in Slug /\ servers[t] \in Entry /\ servers[t].mode = "per_user"
        /\ servers'[t] \in Entry /\ servers'[t].mode = "per_user"
        /\ servers'[t].ver = servers[t].ver /\ servers'[t].roles = servers[t].roles
        /\ \A w \in Slug : w # t => servers'[w] = servers[w]
        /\ loop.pc = "take" /\ loop'.pc # "add"
    BY <1>7, Invalidated
  <2>2. servers[t] # Absent /\ servers'[t] # Absent
    BY <2>1, EntryParts
  <2> HIDE DEF t
  <2>3. SameEntry(s)
    BY <2>1, <2>2 DEF SameEntry
  <2>4. /\ bus # <<>> /\ bus' = Tail(bus) /\ Event.action = "credential"
        /\ UNCHANGED stored /\ SameMade
    BY <1>7, MarkedMade DEF Invalidate
  <2> QED BY <1>0, <1>1, <2>1, <2>3, <2>4, KeepSettles DEF stored
<1>8. CASE CloseDropped
  <2>1. PICK i \in loop.closing : loop' = ToClose(loop.closing \ {i})
    BY <1>8 DEF CloseDropped
  <2>2. loop.closing \ {i} \in SUBSET Inst
    BY LoopingParts DEF Types
  <2>3. loop'.pc # "add" /\ loop.pc = "close"
    BY <1>8, <2>1, <2>2, ToCloseTypes DEF CloseDropped
  <2>4. UNCHANGED <<servers, obj, bus, stored>>
    BY <1>8 DEF CloseDropped, registry, control, stored
  <2>5. SameEntry(s) /\ SameMade /\ Settles(s)
    BY <2>4, UnchangedMade DEF SameEntry, Settled, About
  <2> QED BY <1>0, <2>3, <2>4, <2>5, KeepSettles DEF stored
<1> QED BY <1>2, <1>3, <1>4, <1>5, <1>6, <1>7, <1>8 DEF Loop

LEMMA ControlSettled ==
    ASSUME Types, Owned, Identified, Settled, Control
    PROVE  Settled'
<1> SUFFICES ASSUME NEW s \in Slug, \A n \in DOMAIN bus' : ~About(n, s)'
             PROVE  Settles(s)'
  BY DEF Settled
<1>0. spec[s] # Absent => /\ spec[s].ver \in 0..MaxVer /\ spec[s].ver # ver + 1
                          /\ home[spec[s].ver] = row[s] /\ row[s] \in ServerId
  <2>1. spec[s] # Absent => spec[s].ver \in 1..MaxVer
    BY ConfigParts DEF Types
  <2> QED BY <2>1, RegistryAssumption DEF Identified, Types
<1>1. ASSUME UNCHANGED <<servers, obj, loop>>
      PROVE  SameEntry(s) /\ SameMade
  BY <1>1, UnchangedMade DEF SameEntry
<1>2. CASE PublishUpsert
  <2>1. PICK t \in Slug, c \in Config, id \in ServerId :
          /\ spec'[t] = c /\ \A w \in Slug : w # t => spec'[w] = spec[w]
          /\ \A v \in 0..MaxVer : v # ver + 1 => home'[v] = home[v]
          /\ Upsert(t, c) \in Announced /\ bus' = Append(bus, Upsert(t, c))
          /\ UNCHANGED <<servers, order, obj, closed, req, loop, secret>>
    BY <1>2, Upserted
  <2>2. Upsert(t, c).slug = t /\ Upsert(t, c).action = "upsert"
    BY DEF Upsert
  <2>3. (\A n \in DOMAIN bus : ~About(n, s)) /\ t # s
    BY <2>1, <2>2, AboutGrown
  <2>4. spec[s] # Absent => SameCredentials(spec[s].ver, Shared)
    BY <1>0, <2>1 DEF SameCredentials
  <2> QED BY <1>1, <2>1, <2>3, <2>4, KeepSettles DEF Settled
<1>3. CASE PublishRemove
  <2>1. PICK t \in Slug :
          /\ spec'[t] = Absent /\ \A w \in Slug : w # t => spec'[w] = spec[w]
          /\ Removal(t) \in Announced /\ bus' = Append(bus, Removal(t))
          /\ UNCHANGED <<servers, order, obj, closed, req, loop, home, secret>>
    BY <1>3, Unpublished
  <2>2. Removal(t).slug = t /\ Removal(t).action = "remove"
    BY DEF Removal
  <2>3. (\A n \in DOMAIN bus : ~About(n, s)) /\ t # s
    BY <2>1, <2>2, AboutGrown
  <2>4. SameCredentials(spec[s].ver, Shared)
    BY <2>1 DEF SameCredentials
  <2> QED BY <1>1, <2>1, <2>3, <2>4, KeepSettles DEF Settled
<1>4. CASE RotateSecret
  <2>1. PICK t \in Slug, o \in Owner, v \in Announced :
          /\ row[t] # NoServer /\ bus' = Append(bus, v)
          /\ v = IF o = Shared THEN Upsert(t, spec[t]) ELSE CredentialChanged(t, o)
          /\ \A id \in ServerId, w \in Owner :
                id # row[t] \/ w # o => secret'[id][w] = secret[id][w]
          /\ UNCHANGED <<servers, order, obj, closed, req, loop, spec, row, home, ver>>
    BY <1>4, Rotated
  <2>2. v.slug = t /\ (o = Shared => v.action = "upsert")
    BY <2>1 DEF Upsert, CredentialChanged
  <2>3. (\A n \in DOMAIN bus : ~About(n, s)) /\ (v.slug # s \/ v.action = "credential")
    BY <2>1, AboutGrown
  <2>4. spec[s] # Absent => SameCredentials(spec[s].ver, Shared)
    <3>1. o # Shared \/ row[s] # row[t]
      BY <2>1, <2>2, <2>3 DEF Identified
    <3>2. Shared \in Owner
      BY DEF Owner
    <3> QED BY <1>0, <2>1, <3>1, <3>2 DEF SameCredentials
  <2> QED BY <1>1, <2>1, <2>3, <2>4, KeepSettles DEF Settled
<1> QED BY <1>2, <1>3, <1>4 DEF Control

LEMMA StepSettled ==
    ASSUME Types, Owned, Identified, Latest, Settled, [Next]_vars
    PROVE  Settled'
<1>1. CASE UNCHANGED <<control, loop>> /\ SameMade /\ \A s \in Slug : SameEntry(s)
  <2> SUFFICES ASSUME NEW s \in Slug, \A n \in DOMAIN bus' : ~About(n, s)'
               PROVE  Settles(s)'
    BY DEF Settled
  <2>1. UNCHANGED <<bus, spec, home, secret, loop>>
    BY <1>1 DEF control
  <2>2. Settles(s)
    BY <2>1 DEF Settled, About
  <2> QED BY <1>1, <2>1, <2>2, KeepSettles DEF SameCredentials
<1>2. ASSUME NEW p \in Proc, CallCheck(p) \/ ListCheck(p) \/ GetForUser(p) \/ Calling(p)
      PROVE  Settled'
  BY <1>1, <1>2, RequestMade
<1>3. CASE Loop
  BY <1>3, LoopSettled
<1>4. CASE Control
  BY <1>4, ControlSettled
<1>5. CASE UNCHANGED vars
  <2>1. UNCHANGED <<control, loop>> /\ UNCHANGED obj /\ UNCHANGED servers
    BY <1>5 DEF vars, control
  <2>2. SameMade /\ \A s \in Slug : SameEntry(s)
    BY <2>1, UnchangedMade DEF SameEntry
  <2> QED BY <1>1, <2>1, <2>2
<1> QED BY <1>2, <1>3, <1>4, <1>5 DEF Next, Control, Calling

(* A credential event on the bus is still on the bus. *)
KeepsCredentials ==
    \A n \in DOMAIN bus : bus[n].action = "credential" =>
        \E m \in DOMAIN bus' : bus'[m] = bus[n]

(* The server that i was built for has the same secret still, or it is not the
   one of its slug, be it stored or deleted. *)
SameServer(i) ==
    LET o == obj[i] IN
    \/ row'[o.slug] = NoServer \/ home'[o.ver] # row'[o.slug]
    \/ row'[o.slug] = row[o.slug] /\ home'[o.ver] = home[o.ver]
       /\ SameCredentials(o.ver, o.owner)

LEMMA KeepUpToDate ==
    ASSUME Types, Owned, SameMade, KeepsCredentials,
           NEW i \in Cached \union InHand, SameServer(i), UpToDate(i)
    PROVE  UpToDate(i)'
<1>1. i \in Built
  BY Places
<1>2. \A n \in DOMAIN bus : bus[n] = CredentialChanged(obj[i].slug, obj[i].owner) =>
         \E m \in DOMAIN bus' : bus'[m] = CredentialChanged(obj[i].slug, obj[i].owner)
  BY DEF KeepsCredentials, CredentialChanged
<1>3. /\ obj'[i].slug = obj[i].slug /\ obj'[i].owner = obj[i].owner
      /\ obj'[i].ver = obj[i].ver
      /\ obj'[i].sec = obj[i].sec /\ (obj[i].late => obj'[i].late)
  BY <1>1 DEF SameMade
<1> QED BY <1>2, <1>3 DEF UpToDate, SameServer, SameCredentials, Credentials

LEMMA SameServerKept == UNCHANGED <<row, home, secret>> => \A i \in Inst : SameServer(i)
BY DEF SameServer, SameCredentials

(* Where the objects are that a request has or caches. *)
LEMMA RequestPlaces ==
    ASSUME Types, Owned, NEW p \in Proc,
           CallCheck(p) \/ ListCheck(p) \/ GetForUser(p) \/ Calling(p)
    PROVE  \A i \in Cached' \union InHand' :
              i \in Cached \union InHand \/ UpToDate(i)'
<1> DEFINE s == Head(req[p].todo)
           u == req[p].user
<1>1. CASE UNCHANGED servers /\ \A q \in Proc : BuiltBy(q)' \subseteq BuiltBy(q)
  BY <1>1 DEF Cached, InHand
<1>2. CASE UNCHANGED servers /\ req'[p].pc \notin {"store", "discard"}
           /\ \A q \in Proc : q # p => req'[q] = req[q]
  <2>1. \A q \in Proc : BuiltBy(q)' \subseteq BuiltBy(q)
    BY <1>2 DEF BuiltBy
  <2> QED BY <1>1, <1>2, <2>1
<1>3. ASSUME req[p].pc # "idle", NextSlug(p), UNCHANGED servers
      PROVE  \A i \in Cached' \union InHand' :
                i \in Cached \union InHand \/ UpToDate(i)'
  <2>1. req'[p].pc \in {"idle", "lookup"} /\ \A q \in Proc : q # p => req'[q] = req[q]
    BY <1>3, NextSlugTypes DEF Idle
  <2> QED BY <1>2, <1>3, <2>1
<1>4. ASSUME req[p].pc # "idle", NEW i \in Inst, UseInst(p, i), UNCHANGED servers
      PROVE  \A j \in Cached' \union InHand' :
                j \in Cached \union InHand \/ UpToDate(j)'
  <2>1. req'[p].pc = "use" /\ \A q \in Proc : q # p => req'[q] = req[q]
    BY <1>4, UseInstTypes
  <2> QED BY <1>2, <1>4, <2>1
<1>5. CASE CallCheck(p) \/ ListCheck(p)
  <2>1. PICK user \in User, roles \in SUBSET Role, todo \in Seq(Slug) :
          todo # <<>> /\ Begin(p, user, roles, todo)
    <3>1. CASE CallCheck(p)
      <4>1. \A t \in Slug : <<t>> \in Seq(Slug) /\ <<t>> # <<>>
        OBVIOUS
      <4> QED BY <3>1, <4>1 DEF CallCheck, Registered
    <3>2. CASE ListCheck(p)
      BY <3>2, VisibleSlugsAre DEF ListCheck
    <3> QED BY <1>5, <3>1, <3>2
  <2>2. req'[p].pc = "lookup" /\ \A q \in Proc : q # p => req'[q] = req[q]
    BY <2>1, BeginTypes
  <2>3. UNCHANGED servers
    BY <1>5 DEF CallCheck, ListCheck, registry
  <2> QED BY <1>2, <2>2, <2>3
<1>6. CASE Lookup(p)
  <2> DEFINE e == servers[s]
  <2>1. /\ req[p].pc = "lookup" /\ req[p] \in Asking /\ e \in Entry /\ u \in User
        /\ UNCHANGED servers
    BY <1>6, AskingParts DEF Types, Lookup, registry
  <2>2. CASE e # Absent /\ Found(e, u) # NoInst /\ UseInst(p, Found(e, u))
    <3>1. Found(e, u) \in Inst
      BY <2>1, <2>2, EntryParts, RegistryAssumption DEF Found
    <3> QED BY <1>4, <2>1, <2>2, <3>1
  <2>3. CASE req' = [req EXCEPT ![p] = [@ EXCEPT !.pc = "build", !.prov = e.ver]]
    <3>1. req'[p].pc = "build" /\ \A q \in Proc : q # p => req'[q] = req[q]
      BY <2>1, <2>3 DEF Types, Asking
    <3> QED BY <1>2, <2>1, <3>1
  <2> QED BY <1>3, <1>6, <2>1, <2>2, <2>3 DEF Lookup
<1>7. CASE Build(p)
  <2>1. /\ req[p].pc = "build" /\ req[p] \in Asking /\ UNCHANGED <<servers, home, secret>>
        /\ s \in Slug /\ u \in Owner /\ req[p].prov \in 0..MaxVer
    BY <1>7, AskingParts DEF Types, Build, registry, control, Owner
  <2> DEFINE x == Credentials(req[p].prov, u).ver
  <2>3. x \in Int
    BY <2>1, CredentialsTypes
  <2>2. CASE \E i \in Fresh :
               /\ MakeObject(i, s, u, req[p].prov, x)
               /\ req' = [req EXCEPT ![p] = [@ EXCEPT !.pc = "store", !.mine = i]]
    <3>1. PICK i \in Fresh :
               /\ MakeObject(i, s, u, req[p].prov, x)
               /\ req' = [req EXCEPT ![p] = [@ EXCEPT !.pc = "store", !.mine = i]]
      BY <2>2
    <3>2. /\ req'[p].pc = "store" /\ req'[p].mine = i
          /\ \A q \in Proc : q # p => req'[q] = req[q]
      BY <2>1, <3>1 DEF Types, Asking
    <3>3. BuiltBy(p)' = {i} /\ \A q \in Proc : q # p => BuiltBy(q)' = BuiltBy(q)
      BY <3>2 DEF BuiltBy
    <3>4. Cached' = Cached /\ InHand' \subseteq InHand \union {i}
      BY <2>1, <3>3 DEF Cached, InHand
    <3> DEFINE v == req[p].prov
    <3>5. /\ obj'[i].slug = s /\ obj'[i].owner = u /\ obj'[i].ver = v
          /\ obj'[i].sec = x
      <4>1. i \in Inst
        BY <3>1 DEF Fresh
      <4> HIDE DEF x
      <4> QED BY <2>1, <2>3, <3>1, <4>1, MakeObjectTypes
    <3>6. x = secret'[home'[v]][u].ver
      BY <2>1 DEF Credentials
    <3> HIDE DEF x, v
    <3>7. UpToDate(i)'
      BY <3>5, <3>6 DEF UpToDate, Credentials
    <3> QED BY <3>4, <3>7
  <2> QED BY <1>3, <1>7, <2>1, <2>2 DEF Build
<1>8. CASE Store(p)
  <2> DEFINE e == servers[s]
             i == req[p].mine
  <2>1. /\ req[p].pc = "store" /\ req[p] \in Asking /\ e \in Entry
        /\ s \in Slug /\ u \in User /\ i \in Inst /\ BuiltBy(p) = {i}
    BY <1>8, AskingParts DEF Types, Store, BuiltBy
  <2>2. CASE /\ UNCHANGED servers
             /\ \E j : req' = [req EXCEPT ![p] = [@ EXCEPT !.pc = "discard", !.inst = j]]
    <3>1. PICK j : req' = [req EXCEPT ![p] = [@ EXCEPT !.pc = "discard", !.inst = j]]
      BY <2>2
    <3>2. /\ req'[p].pc = "discard" /\ req'[p].mine = i
          /\ \A q \in Proc : q # p => req'[q] = req[q]
      BY <2>1, <3>1 DEF Types, Asking
    <3>3. \A q \in Proc : BuiltBy(q)' = BuiltBy(q)
      BY <2>1, <3>2 DEF BuiltBy
    <3> QED BY <1>1, <2>2, <3>3
  <2>3. CASE /\ e.mode = "per_user" /\ UseInst(p, i)
             /\ servers' = [servers EXCEPT ![s] = [e EXCEPT !.users[u] = i]]
    <3> DEFINE f == [e EXCEPT !.users[u] = i]
    <3>1. req'[p].pc = "use" /\ \A q \in Proc : q # p => req'[q] = req[q]
      BY <2>1, <2>3, UseInstTypes
    <3>2. \A q \in Proc : BuiltBy(q)' \subseteq BuiltBy(q)
      BY <3>1 DEF BuiltBy
    <3>3. /\ f \in Entry /\ f.mode = "per_user" /\ f.users[u] = i
          /\ \A w \in User : w # u => f.users[w] = e.users[w]
      BY <2>1, <2>3, EntryParts, OneUserChanged
    <3>4. servers'[s] = f /\ \A t \in Slug : t # s => servers'[t] = servers[t]
      BY <2>1, <2>3 DEF Types
    <3> HIDE DEF f
    <3>5. Held(f) \subseteq Held(e) \union {i}
      <4>1. \A j \in Inst : j \in Held(f) <=> \E w \in User : f.users[w] = j
        BY <3>3, HeldIs
      <4>2. \A j \in Inst : j \in Held(e) <=> \E w \in User : e.users[w] = j
        BY <2>1, <2>3, HeldIs
      <4>3. Held(f) \subseteq Inst
        BY <3>3, HeldIs
      <4> QED BY <3>3, <4>1, <4>2, <4>3
    <3>6. Cached' \subseteq Cached \union {i}
      BY <2>1, <3>4, <3>5 DEF Cached
    <3>7. i \in InHand /\ InHand' \subseteq InHand
      BY <2>1, <3>2 DEF InHand
    <3> QED BY <3>6, <3>7
  <2> QED BY <1>8, <2>2, <2>3 DEF Store
<1>9. CASE Discard(p)
  <2>1. req[p].pc # "idle" /\ UNCHANGED servers /\ req[p].inst \in Inst \union {NoInst}
    BY <1>9, AskingParts DEF Types, Discard, registry
  <2> QED BY <1>3, <1>4, <1>9, <2>1 DEF Discard
<1>10. CASE Calling(p)
  <2>1. /\ UNCHANGED servers /\ req[p].pc # "idle"
        /\ \A q \in Proc : q # p => req'[q] = req[q]
        /\ NextSlug(p) \/ req'[p].pc = "handshake"
    BY <1>10, CallingTypes DEF registry
  <2> QED BY <1>2, <1>3, <2>1
<1> QED BY <1>5, <1>6, <1>7, <1>8, <1>9, <1>10 DEF GetForUser

(* An event other than a credential's is taken. *)
LEMMA TakenKeeps ==
    ASSUME Types, bus # <<>>, bus' = Tail(bus), Event.action # "credential"
    PROVE  KeepsCredentials
<1>1. /\ Len(bus) \in Nat \ {0} /\ DOMAIN bus = 1..Len(bus)
      /\ DOMAIN bus' = 1..(Len(bus) - 1) /\ bus[1] = Event
      /\ \A n \in DOMAIN bus' : n + 1 \in DOMAIN bus /\ bus'[n] = bus[n + 1]
  BY BusTaken
<1> SUFFICES ASSUME NEW n \in DOMAIN bus, bus[n].action = "credential"
             PROVE  \E m \in DOMAIN bus' : bus'[m] = bus[n]
  BY DEF KeepsCredentials
<1>2. n - 1 \in DOMAIN bus' /\ (n - 1) + 1 = n
  BY <1>1
<1>3. bus'[n - 1] = bus[n]
  BY <1>1, <1>2
<1> QED BY <1>2, <1>3

(* A user's credential event is taken: what it does not reach needs it not. *)
LEMMA CredentialTaken ==
    ASSUME Types, Owned, Current, bus # <<>>, bus' = Tail(bus),
           Event.action = "credential",
           SameMade, MarkLate(Event.slug, Event.user),
           UNCHANGED <<row, home, secret, req>>,
           NEW i \in Cached \union InHand,
           ~(i \in Cached /\ obj[i].slug = Event.slug /\ obj[i].owner = Event.user)
    PROVE  UpToDate(i)'
<1>1. i \in Built /\ i \in Inst /\ UpToDate(i)
  BY Places DEF Current
<1>2. CASE obj[i].slug = Event.slug /\ obj[i].owner = Event.user
  <2>1. i \in InHand /\ i \notin Cached /\ i \notin closed
    BY <1>2 DEF Owned, OneOwner
  <2>2. obj[i] # Unbuilt
    BY <1>1 DEF Built, Fresh
  <2>3. obj'[i].late
    BY <1>1, <1>2, <2>1, <2>2, MarkLateTypes
  <2> QED BY <2>3 DEF UpToDate
<1>3. CASE ~(obj[i].slug = Event.slug /\ obj[i].owner = Event.user)
  <2>1. /\ Len(bus) \in Nat \ {0} /\ DOMAIN bus = 1..Len(bus)
        /\ DOMAIN bus' = 1..(Len(bus) - 1) /\ bus[1] = Event
        /\ \A n \in DOMAIN bus' : n + 1 \in DOMAIN bus /\ bus'[n] = bus[n + 1]
    BY BusTaken
  <2>2. ASSUME NEW n \in DOMAIN bus, bus[n] = CredentialChanged(obj[i].slug, obj[i].owner)
        PROVE  \E m \in DOMAIN bus' : bus'[m] = CredentialChanged(obj[i].slug, obj[i].owner)
    <3>1. n # 1
      BY <1>3, <2>1, <2>2 DEF CredentialChanged
    <3>2. n - 1 \in DOMAIN bus' /\ (n - 1) + 1 = n
      BY <2>1, <3>1
    <3>3. bus'[n - 1] = bus[n]
      BY <2>1, <3>2
    <3> QED BY <2>2, <3>2, <3>3
  <2>3. /\ obj'[i].slug = obj[i].slug /\ obj'[i].owner = obj[i].owner
        /\ obj'[i].ver = obj[i].ver
        /\ obj'[i].sec = obj[i].sec /\ (obj[i].late => obj'[i].late)
    BY <1>1 DEF SameMade
  <2> QED BY <1>1, <2>2, <2>3 DEF UpToDate, Credentials
<1> QED BY <1>2, <1>3

(* The loop caches only objects of the organisation. *)
LEMMA ReplacedPlaces ==
    ASSUME Types, Owned, NEW s \in Slug, UNCHANGED <<obj, req>>,
           \A t \in Slug : t # s => servers'[t] = servers[t],
           Held(servers'[s]) \subseteq Adding
    PROVE  \A i \in Cached' \union InHand' : i \in Cached \union InHand \/ UpToDate(i)'
<1>1. InHand' = InHand
  BY DEF InHand, BuiltBy
<1>2. Cached' \subseteq Cached \union Adding
  BY DEF Cached
<1>3. \A i \in Adding : UpToDate(i)'
  BY DEF Owned, Whose, LoopOwns, UpToDate
<1> QED BY <1>1, <1>2, <1>3

LEMMA LoopCurrent ==
    ASSUME Types, Owned, Current, Loop
    PROVE  Current'
<1>0. UNCHANGED <<row, home, secret>>
  BY DEF Loop, IgnoreEvent, ResolveShared, AddScoped, AddProvider, Remove, Invalidate,
         CloseDropped, stored, control
<1>1. ASSUME SameMade, KeepsCredentials,
             \A i \in Cached' \union InHand' : i \in Cached \union InHand \/ UpToDate(i)'
      PROVE  Current'
  <2>1. \A i \in Cached \union InHand : SameServer(i)
    BY <1>0, SameServerKept, Places
  <2> QED BY <1>1, <2>1, KeepUpToDate DEF Current
<1>2. ASSUME UNCHANGED <<servers, req>>
      PROVE  Cached' = Cached /\ InHand' = InHand
  BY <1>2 DEF Cached, InHand, BuiltBy
<1>3. CASE IgnoreEvent
  <2>1. /\ bus # <<>> /\ bus' = Tail(bus) /\ UNCHANGED <<servers, req>>
        /\ Event.slug \in Slug
    BY <1>3, EventIs DEF IgnoreEvent, registry
  <2>2. CASE Event.action # "credential"
    <3>1. SameMade
      BY <1>3, <2>2, UnchangedMade DEF IgnoreEvent
    <3> QED BY <1>1, <1>2, <2>1, <2>2, <3>1, TakenKeeps
  <2>3. CASE Event.action = "credential"
    <3>1. servers[Event.slug].mode # "per_user" /\ MarkLate(Event.slug, Event.user)
      BY <1>3, <2>3 DEF IgnoreEvent
    <3>2. SameMade /\ Event.user \in User
      BY <2>1, <2>3, <3>1, MarkedMade, EventIs
    <3>3. ASSUME NEW i \in Cached, obj[i].slug = Event.slug
          PROVE  obj[i].owner = Shared
      <4>1. PICK t \in Slug : i \in Held(servers[t])
        BY DEF Cached
      <4>2. t = Event.slug /\ servers[t] \in Entry
        BY <3>3, <4>1 DEF Owned, Whose, EntriesOwn, Types
      <4>3. servers[t].mode = "shared" /\ i = servers[t].ds
        BY <3>1, <4>1, <4>2, HeldIs, EntryParts
      <4> QED BY <4>3 DEF Owned, Whose, EntriesOwn
    <3>4. ASSUME NEW i \in Cached \union InHand PROVE UpToDate(i)'
      BY <1>0, <2>1, <2>3, <3>1, <3>2, <3>3, CredentialTaken, RegistryAssumption
    <3> QED BY <1>2, <2>1, <3>4 DEF Current
  <2> QED BY <2>2, <2>3
<1>4. CASE ResolveShared
  <2>1. /\ bus # <<>> /\ bus' = Tail(bus) /\ UNCHANGED <<servers, req>>
        /\ Event.slug \in Slug /\ Event.action = "upsert" /\ Event.cfg.ver \in 0..MaxVer
    BY <1>4, EventIs, ConfigParts DEF ResolveShared, registry, Config
  <2>2. PICK i \in Fresh, x \in {Credentials(Event.cfg.ver, Shared).ver, Unread} :
          MakeObject(i, Event.slug, Shared, Event.cfg.ver, x)
    BY <1>4 DEF ResolveShared
  <2>3. SameMade
    <3>1. Shared \in Owner
      BY DEF Owner
    <3>2. x \in Int
      BY <2>1, <3>1, CredentialsTypes DEF Unread
    <3> QED BY <2>1, <2>2, <3>1, <3>2, MadeMade
  <2> QED BY <1>1, <1>2, <2>1, <2>3, TakenKeeps
<1>5. CASE AddScoped
  <2>1. loop.pc = "add" /\ loop.slug \in Slug /\ loop.inst \in Inst /\ loop.cfg \in Configured
    BY <1>5, LoopingParts DEF Types, AddScoped
  <2> DEFINE e == Fixed(loop.inst, loop.cfg)
  <2>2. e \in Entry /\ e.mode = "shared" /\ e.ds = loop.inst
    BY <2>1, EntriesMade
  <2> HIDE DEF e
  <2>3. Put(loop.slug, e) /\ UNCHANGED <<obj, req, bus>>
    BY <1>5 DEF AddScoped, control, objects, e
  <2>4. servers'[loop.slug] = e /\ \A t \in Slug : t # loop.slug => servers'[t] = servers[t]
    BY <2>1, <2>2, <2>3, PutTypes
  <2>5. Held(e) \subseteq Adding
    BY <2>1, <2>2, HeldIs DEF Adding
  <2>6. SameMade /\ KeepsCredentials
    BY <2>3, UnchangedMade DEF KeepsCredentials
  <2>7. \A i \in Cached' \union InHand' : i \in Cached \union InHand \/ UpToDate(i)'
    BY <2>1, <2>3, <2>4, <2>5, ReplacedPlaces
  <2> QED BY <1>1, <2>3, <2>6, <2>7
<1>6. CASE AddProvider
  <2>1. /\ bus # <<>> /\ bus' = Tail(bus) /\ UNCHANGED <<obj, req>>
        /\ Event.slug \in Slug /\ Event.action = "upsert" /\ Event.cfg \in Configured
    BY <1>6, EventIs, ConfigParts DEF AddProvider, objects
  <2> DEFINE e == PerUser(Event.cfg)
  <2>2. e \in Entry /\ e.mode = "per_user" /\ e.users = NoUsers
    BY <2>1, EntriesMade
  <2> HIDE DEF e
  <2>3. Put(Event.slug, e)
    BY <1>6 DEF AddProvider, e
  <2>4. servers'[Event.slug] = e /\ \A t \in Slug : t # Event.slug => servers'[t] = servers[t]
    BY <2>1, <2>2, <2>3, PutTypes
  <2>5. Held(e) \subseteq Adding
    <3>1. \A u \in User : e.users[u] \notin Inst
      BY <2>2, RegistryAssumption DEF NoUsers
    <3> QED BY <2>2, <3>1, HeldIs
  <2>6. \A i \in Cached' \union InHand' : i \in Cached \union InHand \/ UpToDate(i)'
    BY <2>1, <2>4, <2>5, ReplacedPlaces
  <2> QED BY <1>1, <2>1, <2>6, UnchangedMade, TakenKeeps
<1>7. CASE Remove
  <2>1. /\ bus # <<>> /\ bus' = Tail(bus) /\ UNCHANGED <<obj, req>>
        /\ Event.slug \in Slug /\ Event.action = "remove"
        /\ servers' = [servers EXCEPT ![Event.slug] = Absent]
    BY <1>7, EventIs DEF Remove, objects
  <2>2. /\ servers'[Event.slug] = Absent
        /\ \A t \in Slug : t # Event.slug => servers'[t] = servers[t]
    BY <2>1 DEF Types
  <2>3. Held(servers'[Event.slug]) \subseteq Adding
    BY <2>2 DEF Held
  <2>4. \A i \in Cached' \union InHand' : i \in Cached \union InHand \/ UpToDate(i)'
    BY <2>1, <2>2, <2>3, ReplacedPlaces
  <2> QED BY <1>1, <2>1, <2>4, UnchangedMade, TakenKeeps
<1>8. CASE Invalidate
  <2> DEFINE s == Event.slug
             u == Event.user
             e == servers[s]
             f == servers'[s]
  <2>1. /\ s \in Slug /\ u \in User /\ e \in Entry /\ e.mode = "per_user"
        /\ f \in Entry /\ f.mode = "per_user" /\ f.users[u] = NoInst
        /\ \A w \in User : w # u => f.users[w] = e.users[w]
        /\ \A t \in Slug : t # s => servers'[t] = servers[t]
        /\ UNCHANGED req
    BY <1>8, Invalidated
  <2>2. /\ bus # <<>> /\ bus' = Tail(bus) /\ Event.action = "credential"
        /\ MarkLate(s, u) /\ SameMade
    BY <1>8, MarkedMade DEF Invalidate
  <2>3. InHand' = InHand
    BY <2>1 DEF InHand, BuiltBy
  <2>4. \A j \in Held(f) : \E w \in User : w # u /\ f.users[w] = j /\ e.users[w] = j
    <3>1. \A j \in Held(f) : j \in Inst /\ \E w \in User : f.users[w] = j
      BY <2>1, HeldIs
    <3> QED BY <2>1, <3>1, RegistryAssumption
  <2>5. Held(f) \subseteq Held(e)
    <3>1. \A j \in Held(f) : j \in Inst
      BY <2>1, HeldIs
    <3> QED BY <2>1, <2>4, <3>1, HeldIs
  <2>6. Cached' \subseteq Cached
    BY <2>1, <2>5 DEF Cached
  <2>7. ASSUME NEW i \in Cached' \union InHand' PROVE UpToDate(i)'
    <3>1. CASE i \in InHand
      <4>1. i \notin Cached
        BY <3>1 DEF Owned, OneOwner
      <4> QED BY <1>0, <2>1, <2>2, <3>1, <4>1, CredentialTaken
    <3>2. CASE i \in Cached'
      <4>1. i \in Cached
        BY <2>6, <3>2
      <4>2. ~(obj[i].slug = s /\ obj[i].owner = u)
        <5> SUFFICES ASSUME obj[i].slug = s, obj[i].owner = u PROVE FALSE
          OBVIOUS
        <5>1. PICK t \in Slug : i \in Held(servers'[t])
          BY <3>2 DEF Cached
        <5>2. t = s
          <6>1. i \in Held(servers[t])
            BY <2>1, <2>5, <5>1
          <6> QED BY <6>1 DEF Owned, Whose, EntriesOwn
        <5>3. PICK w \in User : w # u /\ e.users[w] = i
          BY <2>4, <5>1, <5>2
        <5>4. i \in Inst
          BY <4>1, Places
        <5>5. obj[i].owner = w
          BY <2>1, <5>3, <5>4, RegistryAssumption DEF Owned, Whose, EntriesOwn
        <5> QED BY <5>3, <5>5
      <4> QED BY <1>0, <2>1, <2>2, <4>1, <4>2, CredentialTaken
    <3> QED BY <2>3, <2>7, <3>1, <3>2
  <2> QED BY <2>7 DEF Current
<1>9. CASE CloseDropped
  <2>1. UNCHANGED <<servers, req, obj, bus>>
    BY <1>9 DEF CloseDropped, registry, control
  <2>2. SameMade /\ KeepsCredentials
    BY <2>1, UnchangedMade DEF KeepsCredentials
  <2> QED BY <1>1, <1>2, <2>1, <2>2
<1> QED BY <1>3, <1>4, <1>5, <1>6, <1>7, <1>8, <1>9 DEF Loop

(* The ids of the servers stay apart as events are published. *)
LEMMA InitIdentified == Init => Identified
BY RegistryAssumption DEF Init, Identified, NoServer

LEMMA StepIdentified ==
    ASSUME Types, Identified, [Next]_vars
    PROVE  Identified'
<1>0. /\ ver \in Nat /\ \A s \in Slug : row[s] \in Nat
      /\ \A v \in 0..MaxVer : home[v] \in Nat
      /\ \A s \in Slug : spec[s] # Absent => spec[s].ver \in 0..MaxVer
  <2>1. \A s \in Slug : spec[s] # Absent => spec[s].ver \in 1..MaxVer
    BY ConfigParts DEF Types
  <2> QED BY <2>1, RegistryAssumption DEF Types, ServerId
<1>1. CASE UNCHANGED <<spec, row, home, ver>>
  BY <1>1 DEF Identified
<1>2. CASE PublishUpsert
  <2>1. PICK s \in Slug, c \in Config, id \in ServerId :
          /\ c.ver = ver + 1 /\ ver' = ver + 1
          /\ id = (IF row[s] = NoServer THEN ver + 1 ELSE row[s])
          /\ spec'[s] = c /\ \A t \in Slug : t # s => spec'[t] = spec[t]
          /\ row'[s] = id /\ \A t \in Slug : t # s => row'[t] = row[t]
          /\ home'[ver + 1] = id
          /\ \A v \in 0..MaxVer : v # ver + 1 => home'[v] = home[v]
    BY <1>2, Upserted
  <2>2. id \in Nat /\ id <= ver + 1 /\ id # NoServer
        /\ \A t \in Slug : t # s => row[t] # id
    <3>1. CASE row[s] = NoServer
      BY <1>0, <2>1, <3>1 DEF NoServer, Identified
    <3>2. CASE row[s] # NoServer
      <4>1. id = row[s] /\ row[s] <= ver
        BY <2>1, <3>2 DEF Identified
      <4>2. \A t \in Slug : t # s => row[t] # row[s]
        BY <3>2 DEF Identified
      <4> QED BY <1>0, <3>2, <4>1, <4>2
    <3> QED BY <3>1, <3>2
  <2>3. \A t \in Slug : /\ row'[t] <= ver'
                        /\ spec'[t] # Absent => /\ spec'[t].ver <= ver'
                                                /\ row'[t] # NoServer
                                                /\ home'[spec'[t].ver] = row'[t]
    <3> SUFFICES ASSUME NEW t \in Slug
                 PROVE  /\ row'[t] <= ver'
                        /\ spec'[t] # Absent => /\ spec'[t].ver <= ver'
                                                /\ row'[t] # NoServer
                                                /\ home'[spec'[t].ver] = row'[t]
      OBVIOUS
    <3>1. CASE t = s
      BY <1>0, <2>1, <2>2, <3>1
    <3>2. CASE t # s
      <4>1. row[t] <= ver /\ row'[t] = row[t] /\ spec'[t] = spec[t]
        BY <2>1, <3>2 DEF Identified
      <4>2. spec[t] # Absent => /\ spec[t].ver <= ver /\ row[t] # NoServer
                                /\ home[spec[t].ver] = row[t]
        BY DEF Identified
      <4>3. spec[t] # Absent => home'[spec[t].ver] = home[spec[t].ver]
        BY <1>0, <2>1, <4>2
      <4> QED BY <1>0, <2>1, <4>1, <4>2, <4>3
    <3> QED BY <3>1, <3>2
  <2>4. \A t, w \in Slug : t # w /\ row'[t] # NoServer => row'[t] # row'[w]
    BY <2>1, <2>2 DEF Identified
  <2>5. \A v \in 0..MaxVer : home'[v] <= ver'
    <3>1. \A v \in 0..MaxVer : home[v] <= ver
      BY DEF Identified
    <3> QED BY <1>0, <2>1, <2>2, <3>1
  <2> QED BY <2>3, <2>4, <2>5 DEF Identified
<1>3. CASE PublishRemove
  <2>1. PICK s \in Slug :
          /\ ver' = ver + 1
          /\ spec'[s] = Absent /\ \A t \in Slug : t # s => spec'[t] = spec[t]
          /\ row'[s] \in {row[s], NoServer} /\ \A t \in Slug : t # s => row'[t] = row[t]
          /\ UNCHANGED home
    BY <1>3, Unpublished
  <2>2. \A t \in Slug : row'[t] \in {row[t], NoServer} /\ row[t] <= ver
    BY <2>1 DEF Identified
  <2>3. \A t \in Slug : row'[t] <= ver'
    BY <1>0, <2>1, <2>2 DEF NoServer
  <2>4. \A t \in Slug : spec'[t] # Absent => /\ spec'[t].ver <= ver'
                                             /\ row'[t] # NoServer
                                             /\ home'[spec'[t].ver] = row'[t]
    <3> SUFFICES ASSUME NEW t \in Slug, spec'[t] # Absent
                 PROVE  /\ spec'[t].ver <= ver' /\ row'[t] # NoServer
                        /\ home'[spec'[t].ver] = row'[t]
      OBVIOUS
    <3>1. spec'[t] = spec[t] /\ row'[t] = row[t]
      BY <2>1
    <3>2. spec[t].ver <= ver /\ row[t] # NoServer /\ home[spec[t].ver] = row[t]
      BY <3>1 DEF Identified
    <3> QED BY <1>0, <2>1, <3>1, <3>2
  <2>5. \A t, w \in Slug : t # w /\ row'[t] # NoServer => row'[t] # row'[w]
    BY <2>2 DEF Identified
  <2>6. \A v \in 0..MaxVer : home'[v] <= ver'
    <3>1. \A v \in 0..MaxVer : home[v] <= ver
      BY DEF Identified
    <3> QED BY <1>0, <2>1, <3>1
  <2> QED BY <2>3, <2>4, <2>5, <2>6 DEF Identified
<1>4. CASE RotateSecret
  BY <1>1, <1>4, Rotated
<1>5. CASE Loop \/ UNCHANGED vars
  BY <1>1, <1>5 DEF Loop, IgnoreEvent, ResolveShared, AddScoped, AddProvider, Remove,
                   Invalidate, CloseDropped, stored, control, vars
<1>6. CASE \E p \in Proc : CallCheck(p) \/ ListCheck(p) \/ GetForUser(p) \/ Calling(p)
  BY <1>1, <1>6 DEF CallCheck, ListCheck, GetForUser, Lookup, Build, Store, Discard,
                   Calling, Use, Handshake, control
<1> QED BY <1>2, <1>3, <1>4, <1>5, <1>6 DEF Next, Calling

(* Builds start from events that were published. *)
LEMMA InitDated == Init => Dated
BY DEF Init, Dated, Built, Fresh, Idle

LEMMA StepDated ==
    ASSUME Types, Owned, Checked, Dated, [Next]_vars
    PROVE  Dated'
<1>0. ver \in Nat /\ ver' \in Nat
  BY StepTypes, RegistryAssumption DEF Types
<1>1. ASSUME NEW s \in Slug, NEW v \in 1..MaxVer, NEW R \in SUBSET Role, Known(s, v, R)
      PROVE  v <= ver
  BY <1>1 DEF Checked
<1>2. ASSUME ver' >= ver, SameMade, Built' = Built,
             \A p \in Proc : req'[p].pc = "build" => req'[p] = req[p]
      PROVE  Dated'
  <2>1. \A i \in Built : obj[i].ver \in Nat /\ obj'[i].ver = obj[i].ver
    <3>1. \A i \in Built : obj[i] \in Object
      BY DEF Types, Built, Fresh
    <3> QED BY <1>2, <3>1, RegistryAssumption DEF SameMade, Object
  <2>2. \A p \in Proc : req[p].pc = "build" => req[p].prov \in Nat
    <3>1. \A p \in Proc : req[p].pc = "build" => req[p].prov \in 0..MaxVer
      BY AskingParts DEF Types
    <3> QED BY <3>1, RegistryAssumption
  <2>3. ASSUME NEW p \in Proc, req'[p].pc = "build" PROVE req'[p].prov <= ver'
    <3>1. req'[p] = req[p] /\ req[p].pc = "build" /\ req[p].prov \in Nat
      BY <1>2, <2>2, <2>3
    <3>2. req[p].prov <= ver
      BY <3>1 DEF Dated
    <3> QED BY <1>0, <1>2, <3>1, <3>2
  <2>4. ASSUME NEW i \in Built' PROVE obj'[i].ver <= ver'
    BY <1>0, <1>2, <2>1, <2>4 DEF Dated
  <2> QED BY <2>3, <2>4 DEF Dated
<1>3. ASSUME NEW i \in Fresh, NEW s \in Slug, NEW o \in Owner, NEW v \in 0..MaxVer,
             NEW x \in Int, MakeObject(i, s, o, v, x), v <= ver, UNCHANGED ver,
             \A p \in Proc : req'[p].pc = "build" => req'[p] = req[p]
      PROVE  Dated'
  <2>1. /\ Built' = Built \union {i} /\ obj'[i].ver = v
        /\ \A j \in Built : obj'[j] = obj[j]
    <3>1. i \in Inst
      BY DEF Fresh
    <3> QED BY <1>3, <3>1, Making, MakeObjectTypes
  <2> QED BY <1>3, <2>1 DEF Dated
<1>4. UNCHANGED obj => SameMade /\ Built' = Built
  BY UnchangedMade DEF Built, Fresh
<1>5. ASSUME NEW p \in Proc, \A q \in Proc : q # p => req'[q] = req[q],
             req'[p].pc # "build", UNCHANGED <<obj, ver>>
      PROVE  Dated'
  BY <1>0, <1>2, <1>4, <1>5
<1>6. ASSUME NEW p \in Proc, req[p].pc # "idle", NextSlug(p), UNCHANGED <<obj, ver>>
      PROVE  Dated'
  <2>1. req'[p].pc # "build" /\ \A q \in Proc : q # p => req'[q] = req[q]
    BY <1>6, NextSlugTypes DEF Idle
  <2> QED BY <1>5, <1>6, <2>1
<1>7. ASSUME NEW p \in Proc, req[p].pc # "idle", NEW i \in Inst, UseInst(p, i),
             UNCHANGED <<obj, ver>>
      PROVE  Dated'
  <2>1. req'[p].pc # "build" /\ \A q \in Proc : q # p => req'[q] = req[q]
    BY <1>7, UseInstTypes
  <2> QED BY <1>5, <1>7, <2>1
<1>8. ASSUME NEW p \in Proc, CallCheck(p) \/ ListCheck(p) PROVE Dated'
  <2>1. PICK user \in User, roles \in SUBSET Role, todo \in Seq(Slug) :
          todo # <<>> /\ Begin(p, user, roles, todo)
    <3>1. CASE CallCheck(p)
      <4>1. \A t \in Slug : <<t>> \in Seq(Slug) /\ <<t>> # <<>>
        OBVIOUS
      <4> QED BY <3>1, <4>1 DEF CallCheck, Registered
    <3>2. CASE ListCheck(p)
      BY <3>2, VisibleSlugsAre DEF ListCheck
    <3> QED BY <1>8, <3>1, <3>2
  <2>2. req'[p].pc = "lookup" /\ \A q \in Proc : q # p => req'[q] = req[q]
    BY <2>1, BeginTypes
  <2> QED BY <1>5, <1>8, <2>2 DEF CallCheck, ListCheck, control, objects
<1>9. ASSUME NEW p \in Proc, Lookup(p) PROVE Dated'
  <2> DEFINE s == Head(req[p].todo)
             e == servers[s]
  <2>1. /\ req[p].pc = "lookup" /\ req[p] \in Asking /\ s \in Slug /\ e \in Entry
        /\ req[p].user \in User /\ UNCHANGED <<obj, ver>>
    BY <1>9, AskingParts DEF Types, Lookup, objects, control
  <2>2. CASE e # Absent /\ Found(e, req[p].user) # NoInst /\ UseInst(p, Found(e, req[p].user))
    <3>1. Found(e, req[p].user) \in Inst
      BY <2>1, <2>2, EntryParts, RegistryAssumption DEF Found
    <3> QED BY <1>7, <2>1, <2>2, <3>1
  <2>3. CASE e # Absent /\ req' = [req EXCEPT ![p] = [@ EXCEPT !.pc = "build", !.prov = e.ver]]
    <3>1. e.ver <= ver
      <4>1. e.ver \in 1..MaxVer /\ e.roles \in SUBSET Role
        BY <2>1, <2>3, EntryParts
      <4>2. Known(s, e.ver, e.roles)
        BY <2>3 DEF Known
      <4> QED BY <1>1, <2>1, <4>1, <4>2
    <3>2. req'[p].prov = e.ver /\ \A q \in Proc : q # p => req'[q] = req[q]
      BY <2>1, <2>3 DEF Types, Asking
    <3>3. \A q \in Proc : req'[q].pc = "build" => req'[q].prov <= ver'
      <4> SUFFICES ASSUME NEW q \in Proc, req'[q].pc = "build" PROVE req'[q].prov <= ver'
        OBVIOUS
      <4> QED BY <2>1, <3>1, <3>2 DEF Dated
    <3> QED BY <1>4, <2>1, <3>3 DEF Dated
  <2> QED BY <1>6, <1>9, <2>1, <2>2, <2>3 DEF Lookup
<1>10. ASSUME NEW p \in Proc, Build(p) PROVE Dated'
  <2> DEFINE s == Head(req[p].todo)
             x == Credentials(req[p].prov, req[p].user).ver
  <2>1. /\ req[p].pc = "build" /\ req[p] \in Asking /\ s \in Slug
        /\ req[p].user \in Owner /\ req[p].prov \in 0..MaxVer /\ UNCHANGED ver
    BY <1>10, AskingParts DEF Types, Build, control, Owner
  <2>2. CASE \E i \in Fresh :
               /\ MakeObject(i, s, req[p].user, req[p].prov, x)
               /\ req' = [req EXCEPT ![p] = [@ EXCEPT !.pc = "store", !.mine = i]]
    <3>1. PICK i \in Fresh :
               /\ MakeObject(i, s, req[p].user, req[p].prov, x)
               /\ req' = [req EXCEPT ![p] = [@ EXCEPT !.pc = "store", !.mine = i]]
      BY <2>2
    <3>2. req'[p].pc = "store" /\ \A q \in Proc : q # p => req'[q] = req[q]
      BY <2>1, <3>1 DEF Types, Asking
    <3>3. \A q \in Proc : req'[q].pc = "build" => req'[q] = req[q]
      BY <3>2
    <3>4. x \in Int
      BY <2>1, CredentialsTypes
    <3>5. req[p].prov <= ver
      BY <2>1 DEF Dated
    <3> HIDE DEF x
    <3> QED BY <1>3, <2>1, <3>1, <3>3, <3>4, <3>5
  <2> QED BY <1>6, <1>10, <2>1, <2>2 DEF Build
<1>11. ASSUME NEW p \in Proc, Store(p) PROVE Dated'
  <2>1. /\ req[p].pc = "store" /\ req[p] \in Asking /\ req[p].mine \in Inst
        /\ UNCHANGED <<obj, ver>>
    BY <1>11, AskingParts DEF Types, Store, objects, control
  <2>2. CASE \E j : req' = [req EXCEPT ![p] = [@ EXCEPT !.pc = "discard", !.inst = j]]
    <3>1. req'[p].pc = "discard" /\ \A q \in Proc : q # p => req'[q] = req[q]
      BY <2>1, <2>2 DEF Types, Asking
    <3> QED BY <1>5, <2>1, <3>1
  <2> QED BY <1>7, <1>11, <2>1, <2>2 DEF Store
<1>12. ASSUME NEW p \in Proc, Discard(p) PROVE Dated'
  <2>1. /\ req[p].pc # "idle" /\ req[p].inst \in Inst \union {NoInst}
        /\ UNCHANGED <<obj, ver>>
    BY <1>12, AskingParts DEF Types, Discard, control
  <2> QED BY <1>6, <1>7, <1>12, <2>1 DEF Discard
<1>13. ASSUME NEW p \in Proc, Calling(p) PROVE Dated'
  <2>1. /\ UNCHANGED <<obj, ver>> /\ req[p].pc # "idle"
        /\ \A q \in Proc : q # p => req'[q] = req[q]
        /\ NextSlug(p) \/ req'[p].pc = "handshake"
    BY <1>13, CallingTypes DEF objects, control
  <2> QED BY <1>5, <1>6, <2>1
<1>14. CASE Loop
  <2>1. UNCHANGED <<req, ver>>
    BY <1>14 DEF Loop, IgnoreEvent, ResolveShared, AddScoped, AddProvider, Remove,
                 Invalidate, CloseDropped, control
  <2>2. CASE UNCHANGED obj
    BY <1>0, <1>2, <1>4, <2>1, <2>2
  <2>3. CASE \E s, u : MarkLate(s, u)
    <3>1. PICK s, u : MarkLate(s, u)
      BY <2>3
    <3>2. SameMade /\ Built' = Built
      BY <3>1, MarkedMade, MarkLateTypes DEF Built, Fresh
    <3> QED BY <1>0, <1>2, <2>1, <3>2
  <2>4. CASE ResolveShared
    <3>1. /\ bus # <<>> /\ Event.slug \in Slug /\ Event.action = "upsert"
          /\ Event.cfg \in Config /\ Event.cfg.ver \in 1..MaxVer
          /\ Event.cfg.roles \in SUBSET Role
      BY <2>4, EventIs, ConfigParts DEF ResolveShared
    <3>2. PICK i \in Fresh, x \in {Credentials(Event.cfg.ver, Shared).ver, Unread} :
            MakeObject(i, Event.slug, Shared, Event.cfg.ver, x)
      BY <2>4 DEF ResolveShared
    <3>3. Event.cfg.ver <= ver
      <4>1. 1 \in DOMAIN bus /\ bus[1] = Event
        BY <3>1, TailOf DEF Types, Event
      <4>2. Known(Event.slug, Event.cfg.ver, Event.cfg.roles)
        BY <3>1, <4>1 DEF Known
      <4> QED BY <1>1, <3>1, <4>2
    <3>4. Shared \in Owner /\ Event.cfg.ver \in 0..MaxVer
      BY <3>1 DEF Owner
    <3>5. x \in Int
      BY <3>4, CredentialsTypes DEF Unread
    <3> QED BY <1>3, <2>1, <3>1, <3>2, <3>3, <3>4, <3>5
  <2> QED BY <1>14, <2>2, <2>3, <2>4 DEF Loop, IgnoreEvent, AddScoped, AddProvider, Remove,
                                         Invalidate, CloseDropped, objects
<1>15. CASE Control \/ UNCHANGED vars
  <2>1. UNCHANGED <<obj, req>> /\ ver' >= ver
    BY <1>0, <1>15 DEF Control, PublishUpsert, PublishRemove, RotateSecret, objects, vars
  <2> QED BY <1>2, <1>4, <2>1
<1> QED BY <1>8, <1>9, <1>10, <1>11, <1>12, <1>13, <1>14, <1>15
        DEF Next, GetForUser, Calling, Control

LEMMA ControlCurrent ==
    ASSUME Types, Owned, Identified, Dated, Current, Control
    PROVE  Current'
<1>1. UNCHANGED <<servers, obj, req>>
  BY DEF Control, PublishUpsert, PublishRemove, RotateSecret, registry, objects
<1>2. Cached' = Cached /\ InHand' = InHand /\ SameMade
  BY <1>1, UnchangedMade DEF Cached, InHand, BuiltBy
<1>3. ASSUME NEW v \in Announced, bus' = Append(bus, v)
      PROVE  /\ KeepsCredentials
             /\ \E m \in DOMAIN bus' : bus'[m] = v
  <2>1. \A n \in DOMAIN bus : n \in DOMAIN bus' /\ bus'[n] = bus[n]
    BY <1>3, BusGrown
  <2>2. \E m \in DOMAIN bus' : bus'[m] = v
    BY <1>3, AppendOf DEF Types
  <2> QED BY <2>1, <2>2 DEF KeepsCredentials
<1>4. ASSUME NEW i \in Cached \union InHand
      PROVE  /\ obj[i].slug \in Slug /\ obj[i].owner \in Owner
             /\ obj[i].ver \in 0..MaxVer /\ obj[i].ver # ver + 1
             /\ home[obj[i].ver] \in ServerId /\ home[obj[i].ver] # ver + 1
  <2>1. i \in Inst /\ obj[i] # Unbuilt /\ i \in Built
    BY Places DEF Built, Fresh
  <2>2. obj[i] \in Object /\ obj[i].ver <= ver /\ ver \in Nat
    BY <2>1, RegistryAssumption DEF Types, Dated
  <2>3. obj[i].slug \in Slug /\ obj[i].owner \in Owner /\ obj[i].ver \in 0..MaxVer
    BY <2>2 DEF Object
  <2>4. obj[i].ver # ver + 1
    BY <2>2, <2>3
  <2>5. home[obj[i].ver] \in ServerId /\ home[obj[i].ver] <= ver
    BY <2>3 DEF Types, Identified
  <2>6. home[obj[i].ver] # ver + 1
    BY <2>2, <2>5 DEF ServerId
  <2> QED BY <2>3, <2>4, <2>5, <2>6
<1>5. ASSUME KeepsCredentials, \A i \in Cached \union InHand : SameServer(i) \/ UpToDate(i)'
      PROVE  Current'
  BY <1>2, <1>5, KeepUpToDate DEF Current
<1>6. CASE PublishUpsert
  <2>1. PICK s \in Slug, c \in Config, id \in ServerId :
          /\ id = (IF row[s] = NoServer THEN ver + 1 ELSE row[s])
          /\ row'[s] = id /\ \A t \in Slug : t # s => row'[t] = row[t]
          /\ \A v \in 0..MaxVer : v # ver + 1 => home'[v] = home[v]
          /\ Upsert(s, c) \in Announced /\ bus' = Append(bus, Upsert(s, c))
          /\ UNCHANGED secret
    BY <1>6, Upserted
  <2>2. ASSUME NEW i \in Cached \union InHand PROVE SameServer(i)
    <3>1. home'[obj[i].ver] = home[obj[i].ver] /\ SameCredentials(obj[i].ver, obj[i].owner)
      BY <1>4, <2>1 DEF SameCredentials
    <3>2. CASE obj[i].slug = s /\ row[s] = NoServer
      BY <1>4, <2>1, <3>1, <3>2 DEF SameServer
    <3>3. CASE ~(obj[i].slug = s /\ row[s] = NoServer)
      <4>1. row'[obj[i].slug] = row[obj[i].slug]
        BY <1>4, <2>1, <3>3
      <4> QED BY <3>1, <4>1 DEF SameServer
    <3> QED BY <3>2, <3>3
  <2> QED BY <1>3, <1>5, <2>1, <2>2
<1>7. CASE PublishRemove
  <2>1. PICK s \in Slug :
          /\ row'[s] \in {row[s], NoServer} /\ \A t \in Slug : t # s => row'[t] = row[t]
          /\ Removal(s) \in Announced /\ bus' = Append(bus, Removal(s))
          /\ UNCHANGED <<home, secret>>
    BY <1>7, Unpublished
  <2>2. ASSUME NEW i \in Cached \union InHand PROVE SameServer(i)
    <3>1. row'[obj[i].slug] \in {row[obj[i].slug], NoServer}
      BY <1>4, <2>1
    <3> QED BY <2>1, <3>1 DEF SameServer, SameCredentials
  <2> QED BY <1>3, <1>5, <2>1, <2>2
<1>8. CASE RotateSecret
  <2>1. PICK s \in Slug, o \in Owner, v \in Announced :
          /\ row[s] # NoServer /\ bus' = Append(bus, v)
          /\ v = IF o = Shared THEN Upsert(s, spec[s]) ELSE CredentialChanged(s, o)
          /\ \A id \in ServerId, w \in Owner :
                id # row[s] \/ w # o => secret'[id][w] = secret[id][w]
          /\ UNCHANGED <<row, home>>
    BY <1>8, Rotated
  <2>2. KeepsCredentials /\ \E m \in DOMAIN bus' : bus'[m] = v
    BY <1>3, <2>1
  <2>3. ASSUME NEW i \in Cached \union InHand PROVE SameServer(i) \/ UpToDate(i)'
    <3>1. CASE obj[i].slug = s /\ obj[i].owner = o
      BY <1>1, <2>1, <2>2, <3>1 DEF UpToDate
    <3>2. CASE obj[i].owner # o \/ home[obj[i].ver] # row[s]
      <4>1. SameCredentials(obj[i].ver, obj[i].owner)
        BY <1>4, <2>1, <3>2 DEF SameCredentials
      <4> QED BY <2>1, <4>1 DEF SameServer
    <3>3. CASE obj[i].slug # s /\ home[obj[i].ver] = row[s]
      <4>1. row[obj[i].slug] # row[s]
        BY <1>4, <2>1, <3>3 DEF Identified
      <4> QED BY <2>1, <3>3, <4>1 DEF SameServer
    <3> QED BY <3>1, <3>2, <3>3
  <2> QED BY <1>5, <2>2, <2>3
<1> QED BY <1>6, <1>7, <1>8 DEF Control

LEMMA StepCurrent ==
    ASSUME Types, Owned, Identified, Dated, Current, [Next]_vars
    PROVE  Current'
<1>1. ASSUME NEW p \in Proc, CallCheck(p) \/ ListCheck(p) \/ GetForUser(p) \/ Calling(p)
      PROVE  Current'
  <2>1. UNCHANGED <<control, loop>> /\ SameMade
    BY <1>1, RequestMade
  <2>2. KeepsCredentials /\ \A i \in Cached \union InHand : SameServer(i)
    BY <2>1, SameServerKept, Places DEF control, KeepsCredentials
  <2>3. \A i \in Cached' \union InHand' : i \in Cached \union InHand \/ UpToDate(i)'
    BY <1>1, RequestPlaces
  <2> QED BY <2>1, <2>2, <2>3, KeepUpToDate DEF Current
<1>2. CASE Loop
  BY <1>2, LoopCurrent
<1>3. CASE Control
  BY <1>3, ControlCurrent
<1>4. CASE UNCHANGED vars
  BY <1>4 DEF vars, Current, Cached, InHand, BuiltBy, UpToDate, Credentials
<1> QED BY <1>1, <1>2, <1>3, <1>4 DEF Next, Control, Calling

LEMMA InitApplied == Init => Applied
<1> SUFFICES ASSUME Init PROVE Applied
  OBVIOUS
<1>1. DOMAIN bus = {} /\ loop.pc = "take"
  BY DEF Init, Resting
<1>2. Cached = {} /\ InHand = {}
  BY DEF Init, Cached, InHand, Held, BuiltBy, Idle
<1>3. Settled
  BY <1>1 DEF Init, Settled, Settles, InForce, Supported
<1> QED BY <1>1, <1>2, <1>3 DEF Applied, Latest, Current

LEMMA StepApplied ==
    Types /\ Owned /\ Identified /\ Dated /\ Applied /\ [Next]_vars => Applied'
<1> SUFFICES ASSUME Types, Owned, Identified, Dated, Applied, [Next]_vars PROVE Applied'
  OBVIOUS
<1> QED BY StepLatest, StepSettled, StepCurrent DEF Applied

(* The registry, seen when the loop is at rest with nothing to take, is what
   was last published; a shared instance was built from that, with the
   organisation's current secret or, if that could not be read, with none; a
   user's instance has the user's current secret, unless it was in hand while
   that was rotated or was built for a server that had the slug before
   (server.go:155-200, creds.go:17-34, downstream.go:107-127, 173-185). *)
THEOREM EventsAppliedInFull == Spec => []AppliedInFull
<1>1. Types /\ Owned /\ Identified /\ Applied => AppliedInFull
  <2> SUFFICES ASSUME Types, Owned, Identified, Applied, Quiet, NEW s \in Slug, Supported(s)
               PROVE  /\ (servers[s] = Absent) <=> (spec[s] = Absent)
                      /\ servers[s] # Absent =>
                            /\ servers[s].mode = spec[s].mode
                            /\ servers[s].ver = spec[s].ver
                            /\ servers[s].roles = spec[s].roles
                            /\ servers[s].mode = "shared" =>
                                  LET o == obj[servers[s].ds] IN
                                  /\ o.ver = spec[s].ver
                                  /\ o.sec \in {Credentials(o.ver, Shared).ver, Unread}
                            /\ \A u \in User : LET i == servers[s].users[u] IN
                                  i # NoInst => \/ obj[i].late
                                                \/ home[obj[i].ver] # row[s]
                                                \/ obj[i].sec = secret[row[s]][u].ver
    BY DEF AppliedInFull
  <2>1. bus = <<>> /\ loop.pc = "take" /\ DOMAIN bus = {}
    BY DEF Quiet
  <2>2. InForce(s)
    BY <2>1 DEF Applied, Settled, Settles
  <2>3. ASSUME servers[s] # Absent, NEW u \in User, servers[s].users[u] # NoInst
        PROVE  LET i == servers[s].users[u] IN
               \/ obj[i].late \/ home[obj[i].ver] # row[s]
               \/ obj[i].sec = secret[row[s]][u].ver
    <3> DEFINE i == servers[s].users[u]
    <3>1. servers[s] \in Entry
      BY DEF Types
    <3>2. servers[s].mode = "per_user"
      BY <2>3, <3>1, EntryParts DEF NoUsers
    <3>3. i \in Held(servers[s]) /\ obj[i].owner = u
      BY <2>3, <3>1, <3>2, HeldIs, EntryParts DEF Owned, Whose, EntriesOwn
    <3>4. obj[i].slug = s /\ i \in Cached
      BY <3>3 DEF Owned, Whose, EntriesOwn, Cached
    <3>5. UpToDate(i)
      BY <3>4 DEF Applied, Current
    <3>6. row[s] # NoServer
      BY <2>2, <2>3 DEF InForce, Identified
    <3> QED BY <2>1, <3>3, <3>4, <3>5, <3>6, RegistryAssumption DEF UpToDate, Credentials
  <2>4. \/ servers[s] = Absent \/ servers[s].mode # "shared"
        \/ LET o == obj[servers[s].ds] IN
           /\ o.ver = spec[s].ver
           /\ o.sec \in {Credentials(o.ver, Shared).ver, Unread}
    BY <2>2 DEF InForce
  <2> QED BY <2>2, <2>3, <2>4 DEF InForce
<1>2. Spec => [](Types /\ Owned /\ OrderMatches /\ Checked)
  BY InitTypes, InitOwned, InitOrder, InitChecked, StepTypes, StepOwned, StepOrder,
     StepChecked, PTL DEF Spec
<1>3. /\ Types /\ Identified /\ [Next]_vars => Identified'
      /\ Types /\ Owned /\ Checked /\ Dated /\ [Next]_vars => Dated'
  BY StepIdentified, StepDated
<1> QED BY <1>1, <1>2, <1>3, InitIdentified, InitDated, InitApplied, StepApplied, PTL DEF Spec

-----------------------------------------------------------------------------
(* The registry implements the life of its instances. *)

LifeStep == [Lifecycle!LifeNext]_(Lifecycle!life)
NoOffers == [o \in Owner |-> NoInst]

(* What an entry offers its users, the organisation among them. *)
LEMMA OfferedIs ==
    ASSUME NEW e \in Entry
    PROVE  /\ Offered(e) \in [Owner -> Inst \union {NoInst}]
           /\ \A u \in User : e # Absent => Offered(e)[u] = e.users[u]
           /\ e # Absent => Offered(e)[Shared] = e.ds
           /\ e = Absent => Offered(e) = NoOffers
           /\ {Offered(e)[o] : o \in Owner} \ {NoInst} = Held(e)
<1> USE RegistryAssumption
<1>1. /\ \A u \in User : u \in Owner /\ u # Shared
      /\ Shared \in Owner
      /\ \A o \in Owner : o \in User \/ o = Shared
  BY DEF Owner
<1>2. ASSUME e = Absent
      PROVE  Offered(e) = NoOffers /\ Held(e) = {}
  BY <1>2 DEF Offered, NoOffers, Held
<1>3. ASSUME e # Absent
      PROVE  /\ e.users \in [User -> Inst \union {NoInst}] /\ e.ds \in Inst \union {NoInst}
             /\ Held(e) = ({e.ds} \union {e.users[u] : u \in User}) \ {NoInst}
  <2>1. e.users \in [User -> Inst \union {NoInst}] /\ e.ds \in Inst \union {NoInst}
    BY <1>3, EntryParts DEF NoUsers
  <2>2. Range(e.users) = {e.users[u] : u \in User}
    BY <2>1 DEF Range
  <2> QED BY <1>3, <2>1, <2>2 DEF Held
<1>4. ASSUME e # Absent
      PROVE  /\ Offered(e) = [o \in Owner |-> IF o = Shared THEN e.ds ELSE e.users[o]]
             /\ \A u \in User : Offered(e)[u] = e.users[u]
             /\ Offered(e)[Shared] = e.ds
  <2>1. Offered(e) = [o \in Owner |-> IF o = Shared THEN e.ds ELSE e.users[o]]
    BY <1>4 DEF Offered
  <2> QED BY <1>1, <2>1
<1>5. Offered(e) \in [Owner -> Inst \union {NoInst}]
  <2>1. CASE e = Absent
    BY <1>2, <2>1 DEF NoOffers
  <2>2. CASE e # Absent
    BY <1>1, <1>3, <1>4, <2>2
  <2> QED BY <2>1, <2>2
<1>6. {Offered(e)[o] : o \in Owner} \ {NoInst} = Held(e)
  <2>1. CASE e = Absent
    BY <1>2, <2>1 DEF NoOffers
  <2>2. CASE e # Absent
    <3>1. \A i : i \in {Offered(e)[o] : o \in Owner} <=> i = e.ds \/ \E u \in User : i = e.users[u]
      BY <1>1, <1>4, <2>2
    <3> QED BY <1>3, <2>2, <3>1
  <2> QED BY <2>1, <2>2
<1> QED BY <1>2, <1>4, <1>5, <1>6

(* The instances on offer, waiting, or in use, are the registry's. *)
LEMMA OnOfferIs ==
    ASSUME Types, NEW s \in Slug
    PROVE  Lifecycle!OnOffer(s) = Held(servers[s])
<1>1. servers[s] \in Entry /\ Offers[s] = Offered(servers[s])
  BY DEF Types, Offers
<1> QED BY <1>1, OfferedIs DEF Lifecycle!OnOffer

LEMMA UsedIs ==
    ASSUME Types, Owned
    PROVE  Lifecycle!Used \subseteq Built
<1>1. \A w \in Waiting : w.inst \in Built
  BY DEF Waiting, Unplaced
<1>2. \A s \in Slug : Lifecycle!OnOffer(s) \subseteq Built
  BY OnOfferIs, Places
<1> QED BY <1>1, <1>2, Places DEF Lifecycle!Used

(* Changes of what waits. *)
KeepLabels ==
    \A i \in Built : obj'[i].slug = obj[i].slug /\ obj'[i].owner = obj[i].owner
Labelled(i, s, o) == [inst |-> i, server |-> s, owner |-> o]
Label(i) == Labelled(i, obj[i].slug, obj[i].owner)

LEMMA WaitingKept ==
    ASSUME KeepLabels, Unplaced' = Unplaced
    PROVE  Waiting' = Waiting
BY DEF KeepLabels, Waiting, Unplaced

LEMMA WaitingLess ==
    ASSUME KeepLabels, NEW i \in Unplaced, Unplaced' = Unplaced \ {i}
    PROVE  Label(i) \in Waiting /\ Waiting' = Waiting \ {Label(i)}
<1>1. Unplaced \subseteq Built
  BY DEF Unplaced
<1>2. Waiting = {Label(j) : j \in Unplaced}
  BY DEF Waiting, Label, Labelled
<1>3. Waiting' = {Label(j) : j \in Unplaced \ {i}}
  BY <1>1 DEF KeepLabels, Waiting, Label, Labelled
<1>4. \A j, k : Label(j) = Label(k) => j = k
  <2>1. \A j : Label(j).inst = j
    BY DEF Label, Labelled
  <2> QED BY <2>1
<1> HIDE DEF Label
<1> QED BY <1>2, <1>3, <1>4

LEMMA WaitingMore ==
    ASSUME KeepLabels, NEW i, NEW s, NEW o, Unplaced' = Unplaced \union {i},
           obj'[i].slug = s, obj'[i].owner = o
    PROVE  Waiting' = Waiting \union {Labelled(i, s, o)}
<1>1. Unplaced \subseteq Built
  BY DEF Unplaced
<1>2. Waiting = {Label(j) : j \in Unplaced}
  BY DEF Waiting, Label, Labelled
<1>3. Waiting' = {Labelled(j, obj'[j].slug, obj'[j].owner) : j \in Unplaced \union {i}}
  BY DEF Waiting, Labelled
<1>4. \A j \in Unplaced : Labelled(j, obj'[j].slug, obj'[j].owner) = Label(j)
  BY <1>1 DEF KeepLabels, Label
<1>5. Labelled(i, obj'[i].slug, obj'[i].owner) = Labelled(i, s, o)
  OBVIOUS
<1> QED BY <1>2, <1>3, <1>4, <1>5

(* A step that is about no place and no label changes nothing of the life. *)
LEMMA LifeKept ==
    ASSUME SameMade, Built' = Built, UNCHANGED <<servers, closed>>, loop'.closing = loop.closing
    PROVE  UNCHANGED Lifecycle!life
<1>1. Cached' = Cached /\ KeepLabels
  BY DEF Cached, SameMade, KeepLabels
<1>2. Unplaced' = Unplaced
  BY <1>1 DEF Unplaced
<1>3. Waiting' = Waiting
  BY <1>1, <1>2, WaitingKept
<1>4. Offers' = Offers
  BY DEF Offers
<1> QED BY <1>3, <1>4 DEF Lifecycle!life

LEMMA OneOfferChanged ==
    ASSUME Types, NEW s \in Slug, NEW e, servers'[s] = e,
           \A t \in Slug : t # s => servers'[t] = servers[t]
    PROVE  Offers' = [Offers EXCEPT ![s] = Offered(e)]
BY DEF Offers

(* An instance is built, ... *)
LEMMA BuildingLives ==
    ASSUME Types, Owned, NEW i \in Fresh, NEW s \in Slug, NEW o \in Owner,
           NEW v \in 0..MaxVer, NEW x \in Int, MakeObject(i, s, o, v, x),
           UNCHANGED <<servers, closed>>, loop'.closing = loop.closing
    PROVE  LifeStep
<1>1. /\ i \in Inst /\ i \notin Built /\ Built' = Built \union {i}
      /\ obj'[i].slug = s /\ obj'[i].owner = o /\ KeepLabels
  BY Making DEF KeepLabels
<1>2. Unplaced' = Unplaced \union {i}
  <2>1. Cached' = Cached
    BY DEF Cached
  <2> QED BY <1>1, <2>1, Places DEF Unplaced
<1>3. Waiting' = Waiting \union {Labelled(i, s, o)}
  BY <1>1, <1>2, WaitingMore
<1>4. i \in Inst \ Lifecycle!Used
  BY <1>1, UsedIs
<1>5. Offers' = Offers
  BY DEF Offers
<1>6. Lifecycle!Build(i, s, o)
  BY <1>3, <1>5 DEF Lifecycle!Build, Labelled
<1> QED BY <1>4, <1>6 DEF LifeStep, Lifecycle!LifeNext

(* ... offered in place of all that its server had, or that is withdrawn, ... *)
LEMMA ReplacingLives ==
    ASSUME Types, Owned, NEW s \in Slug, NEW e \in Entry, servers'[s] = e,
           \A t \in Slug : t # s => servers'[t] = servers[t],
           UNCHANGED <<obj, closed>>, loop.closing = {}, loop'.closing = Held(servers[s]),
           \/ Adding = {} /\ Offered(e) = NoOffers
           \/ \E i \in Adding : /\ loop.slug = s
                                /\ Offered(e) = [NoOffers EXCEPT ![Shared] = i]
    PROVE  LifeStep
<1>1. KeepLabels /\ Built' = Built
  BY DEF KeepLabels, Built, Fresh
<1>2. Held(e) \subseteq Adding
  <2>1. Held(e) = {Offered(e)[o] : o \in Owner} \ {NoInst}
    BY OfferedIs
  <2> QED BY <2>1 DEF NoOffers
<1>3. Cached' \union Held(servers[s]) = Cached \union Held(e)
  BY DEF Cached
<1>4. Unplaced' = Unplaced \ Held(e)
  BY <1>1, <1>3 DEF Unplaced
<1>5. Offers' = [Offers EXCEPT ![s] = Offered(e)]
  BY OneOfferChanged
<1>6. loop'.closing = loop.closing \union Lifecycle!OnOffer(s)
  BY OnOfferIs
<1>7. CASE Adding = {} /\ Offered(e) = NoOffers
  <2>1. Waiting' = Waiting
    BY <1>1, <1>2, <1>4, <1>7, WaitingKept
  <2>2. Lifecycle!Clear(s)
    BY <1>5, <1>6, <1>7, <2>1 DEF Lifecycle!Clear, Lifecycle!Nothing, NoOffers
  <2> QED BY <2>2 DEF LifeStep, Lifecycle!LifeNext
<1>8. ASSUME NEW i \in Adding, loop.slug = s, Offered(e) = [NoOffers EXCEPT ![Shared] = i]
      PROVE  LifeStep
  <2>1. i \in Built /\ obj[i].slug = s /\ obj[i].owner = Shared /\ Adding = {i}
    BY <1>8 DEF Owned, Whose, LoopOwns, Adding
  <2>2. i \in Unplaced /\ i \in Inst
    BY <2>1, AddingApart, Places DEF Unplaced, Owned, OneOwner
  <2>3. Held(e) = {i}
    <3>1. Shared \in Owner /\ i # NoInst
      BY <2>2, RegistryAssumption DEF Owner
    <3>2. Offered(e)[Shared] = i
      BY <1>8, <3>1 DEF NoOffers
    <3>3. i \in Held(e)
      BY <3>1, <3>2, OfferedIs
    <3> QED BY <1>2, <2>1, <3>3
  <2>4. Label(i) \in Waiting /\ Waiting' = Waiting \ {Label(i)}
    BY <1>1, <1>4, <2>2, <2>3, WaitingLess
  <2>5. Label(i).inst = i /\ Label(i).server = s /\ Label(i).owner = Shared
    BY <2>1 DEF Label, Labelled
  <2>6. Lifecycle!Replace(Label(i))
    BY <1>5, <1>6, <1>8, <2>4, <2>5 DEF Lifecycle!Replace, Lifecycle!Nothing, NoOffers
  <2> QED BY <2>4, <2>6 DEF LifeStep, Lifecycle!LifeNext
<1> QED BY <1>7, <1>8

(* ... and closed, after it was withdrawn or in vain. *)
LEMMA ClosingLives ==
    ASSUME Types, Owned, NEW i \in Inst, closed' = closed \union {i}, UNCHANGED <<servers, obj>>,
           \/ i \in loop.closing /\ loop'.closing = loop.closing \ {i}
           \/ i \in InHand /\ loop'.closing = loop.closing
    PROVE  LifeStep
<1>1. /\ KeepLabels /\ Built' = Built /\ Cached' = Cached
      /\ Unplaced' = Built \ (Cached \union closed \union {i} \union loop'.closing)
  BY DEF KeepLabels, Built, Fresh, Cached, Unplaced
<1>2. Offers' = Offers
  BY DEF Offers
<1>3. CASE i \in loop.closing /\ loop'.closing = loop.closing \ {i}
  <2>1. Unplaced' = Unplaced
    BY <1>1, <1>3 DEF Unplaced
  <2>2. Waiting' = Waiting
    BY <1>1, <2>1, WaitingKept
  <2>3. Lifecycle!Close(i)
    BY <1>2, <1>3, <2>2 DEF Lifecycle!Close
  <2> QED BY <1>3, <2>3 DEF LifeStep, Lifecycle!LifeNext
<1>4. CASE i \in InHand /\ loop'.closing = loop.closing
  <2>1. i \in Unplaced
    BY <1>4, Places DEF Unplaced, Owned, OneOwner
  <2>2. Unplaced' = Unplaced \ {i}
    BY <1>1, <1>4 DEF Unplaced
  <2>3. Label(i) \in Waiting /\ Waiting' = Waiting \ {Label(i)} /\ Label(i).inst = i
    BY <1>1, <2>1, <2>2, WaitingLess DEF Label, Labelled
  <2>4. Lifecycle!Abandon(Label(i))
    BY <1>2, <1>4, <2>3 DEF Lifecycle!Abandon
  <2> QED BY <2>3, <2>4 DEF LifeStep, Lifecycle!LifeNext
<1> QED BY <1>3, <1>4

(* What one user is offered, among an entry's offers. *)
LEMMA OneUserOffered ==
    ASSUME NEW e \in Entry, NEW f \in Entry, NEW u \in User,
           e.mode = "per_user", f.mode = "per_user",
           \A w \in User : w # u => f.users[w] = e.users[w]
    PROVE  Offered(f) = [Offered(e) EXCEPT ![u] = f.users[u]]
<1>1. /\ Offered(e) \in [Owner -> Inst \union {NoInst}]
      /\ Offered(f) \in [Owner -> Inst \union {NoInst}]
      /\ \A w \in User : Offered(e)[w] = e.users[w] /\ Offered(f)[w] = f.users[w]
      /\ Offered(e)[Shared] = NoInst /\ Offered(f)[Shared] = NoInst
  BY OfferedIs, EntryParts
<1>2. \A o \in Owner : o # u => Offered(f)[o] = Offered(e)[o]
  BY <1>1 DEF Owner
<1> QED BY <1>1, <1>2

LEMMA StoringLives ==
    ASSUME Types, Owned, NEW p \in Proc, Store(p)
    PROVE  LifeStep
<1> DEFINE s == Head(req[p].todo)
           e == servers[s]
           u == req[p].user
           i == req[p].mine
<1>1. /\ req[p].pc = "store" /\ UNCHANGED <<obj, closed, loop>>
      /\ s \in Slug /\ u \in User /\ e \in Entry /\ i \in Inst
  BY AskingParts DEF Types, Store, objects
<1>2. CASE UNCHANGED servers
  <2>1. UNCHANGED Lifecycle!life
    BY <1>1, <1>2, LifeKept, UnchangedMade DEF Built, Fresh
  <2> QED BY <2>1 DEF LifeStep
<1>3. CASE /\ e.mode = "per_user" /\ e.users[u] = NoInst
           /\ servers' = [servers EXCEPT ![s] = [e EXCEPT !.users[u] = i]]
  <2> DEFINE f == [e EXCEPT !.users[u] = i]
  <2>1. /\ f \in Entry /\ f.mode = "per_user" /\ f.users[u] = i
        /\ \A w \in User : w # u => f.users[w] = e.users[w]
    BY <1>1, <1>3, EntryParts, OneUserChanged
  <2>2. servers'[s] = f /\ \A t \in Slug : t # s => servers'[t] = servers[t]
    BY <1>1, <1>3 DEF Types
  <2> HIDE DEF f
  <2>3. Offered(f) = [Offered(e) EXCEPT ![u] = i] /\ Offered(e)[u] = NoInst
    BY <1>1, <1>3, <2>1, OneUserOffered, OfferedIs, EntryParts
  <2>4. Offers' = [Offers EXCEPT ![s] = Offered(f)] /\ Offers[s] = Offered(e)
    BY <1>1, <2>2, OneOfferChanged DEF Offers
  <2>5. Held(f) = Held(e) \union {i}
    <3>1. \A j \in Inst : j \in Held(f) <=> \E w \in User : f.users[w] = j
      BY <2>1, HeldIs
    <3>2. \A j \in Inst : j \in Held(e) <=> \E w \in User : e.users[w] = j
      BY <1>1, <1>3, HeldIs
    <3>3. Held(f) \subseteq Inst /\ Held(e) \subseteq Inst
      BY <1>1, <2>1, HeldIs
    <3>4. \A j \in Inst : j \in Held(f) <=> j \in Held(e) \union {i}
      BY <1>1, <1>3, <2>1, <3>1, <3>2, RegistryAssumption
    <3> QED BY <1>1, <3>3, <3>4
  <2>6. Cached' = Cached \union {i}
    BY <1>1, <2>2, <2>5 DEF Cached
  <2>7. i \in InHand /\ obj[i].slug = s /\ obj[i].owner = u
    BY <1>1 DEF InHand, BuiltBy, Owned, Whose, RequestOwns
  <2>8. /\ i \in Unplaced /\ KeepLabels /\ Unplaced' = Unplaced \ {i}
    BY <1>1, <2>6, <2>7, Places DEF Unplaced, Owned, OneOwner, KeepLabels, Built, Fresh
  <2>9. /\ Label(i) \in Waiting /\ Waiting' = Waiting \ {Label(i)}
        /\ Label(i).inst = i /\ Label(i).server = s /\ Label(i).owner = u
    BY <2>7, <2>8, WaitingLess DEF Label, Labelled
  <2>10. Offers' = [Offers EXCEPT ![s][u] = i] /\ Offers[s][u] = NoInst
    BY <2>3, <2>4
  <2>11. Lifecycle!Offer(Label(i))
    BY <1>1, <2>9, <2>10 DEF Lifecycle!Offer
  <2> HIDE DEF s, u, i
  <2> QED BY <2>9, <2>11 DEF LifeStep, Lifecycle!LifeNext
<1> QED BY <1>2, <1>3 DEF Store

LEMMA InvalidatingLives ==
    ASSUME Types, Owned, Invalidate
    PROVE  LifeStep
<1> DEFINE s == Event.slug
           u == Event.user
           e == servers[s]
           f == servers'[s]
           i == e.users[u]
<1>1. /\ s \in Slug /\ u \in User /\ e \in Entry /\ e.mode = "per_user"
      /\ f \in Entry /\ f.mode = "per_user" /\ f.users[u] = NoInst
      /\ \A w \in User : w # u => f.users[w] = e.users[w]
      /\ \A t \in Slug : t # s => servers'[t] = servers[t]
      /\ loop.closing = {} /\ loop'.closing = {i} \ {NoInst}
      /\ i \in Inst \union {NoInst} /\ UNCHANGED closed
  BY Invalidated
<1>2. SameMade /\ Built' = Built
  BY MarkedMade, MarkLateTypes DEF Invalidate, Built, Fresh
<1>3. KeepLabels
  BY <1>2 DEF SameMade, KeepLabels
<1> HIDE DEF s, u
<1>4. Offered(f) = [Offered(e) EXCEPT ![u] = NoInst] /\ Offered(e)[u] = i
  BY <1>1, OneUserOffered, OfferedIs, EntryParts
<1>5. Offers' = [Offers EXCEPT ![s] = Offered(f)] /\ Offers[s] = Offered(e)
  BY <1>1, OneOfferChanged DEF Offers
<1>6. Offers' = [Offers EXCEPT ![s][u] = NoInst] /\ Offers[s][u] = i
  BY <1>4, <1>5
<1>7. Cached' \union ({i} \ {NoInst}) = Cached
  <2>1. Held(f) \union ({i} \ {NoInst}) = Held(e)
    <3>1. \A j \in Inst : j \in Held(f) <=> \E w \in User : f.users[w] = j
      BY <1>1, HeldIs
    <3>2. \A j \in Inst : j \in Held(e) <=> \E w \in User : e.users[w] = j
      BY <1>1, HeldIs
    <3>3. Held(f) \subseteq Inst /\ Held(e) \subseteq Inst
      BY <1>1, HeldIs
    <3>4. \A j \in Inst : j \in Held(f) \union ({i} \ {NoInst}) <=> j \in Held(e)
      BY <1>1, <3>1, <3>2, RegistryAssumption
    <3> QED BY <1>1, <3>3, <3>4
  <2> QED BY <1>1, <2>1 DEF Cached
<1>8. Unplaced' = Unplaced
  BY <1>1, <1>2, <1>7 DEF Unplaced
<1>9. Waiting' = Waiting
  BY <1>3, <1>8, WaitingKept
<1>10. CASE i = NoInst
  <2>1. Offers' = Offers
    <3>1. Offered(f) = Offered(e)
      BY <1>1, <1>4, <1>10, OfferedIs
    <3> QED BY <1>1, <1>5, <3>1 DEF Offers
  <2> QED BY <1>1, <1>9, <1>10, <2>1 DEF LifeStep, Lifecycle!life
<1>11. CASE i # NoInst
  <2>1. Lifecycle!Drop(s, u)
    BY <1>1, <1>6, <1>9, <1>11 DEF Lifecycle!Drop
  <2> QED BY <1>1, <2>1 DEF LifeStep, Lifecycle!LifeNext, Owner
<1> QED BY <1>10, <1>11

LEMMA RequestLives ==
    ASSUME Types, Owned, NEW p \in Proc, CallCheck(p) \/ ListCheck(p) \/ GetForUser(p) \/ Calling(p)
    PROVE  LifeStep
<1>1. CASE UNCHANGED <<servers, obj, closed, loop>>
  <2>1. UNCHANGED Lifecycle!life
    BY <1>1, LifeKept, UnchangedMade DEF Built, Fresh
  <2> QED BY <2>1 DEF LifeStep
<1>2. ASSUME Build(p), obj' # obj PROVE LifeStep
  <2> DEFINE s == Head(req[p].todo)
             x == Credentials(req[p].prov, req[p].user).ver
  <2>1. /\ s \in Slug /\ req[p].user \in Owner /\ req[p].prov \in 0..MaxVer
        /\ UNCHANGED <<servers, closed, loop>>
    BY <1>2, AskingParts DEF Types, Build, Owner, registry
  <2>2. PICK i \in Fresh : MakeObject(i, s, req[p].user, req[p].prov, x)
    BY <1>2 DEF Build
  <2>3. x \in Int
    BY <2>1, CredentialsTypes
  <2> HIDE DEF x
  <2> QED BY <2>1, <2>2, <2>3, BuildingLives
<1>3. CASE Discard(p)
  <2>1. /\ req[p].mine \in Inst /\ req[p].mine \in InHand
        /\ closed' = closed \union {req[p].mine} /\ UNCHANGED <<servers, obj, loop>>
    BY <1>3, AskingParts DEF Types, Discard, CloseObject, InHand, BuiltBy, registry
  <2> QED BY <2>1, ClosingLives
<1>4. CASE Store(p)
  BY <1>4, StoringLives
<1>5. CASE CallCheck(p) \/ ListCheck(p) \/ Lookup(p) \/ Calling(p) \/ (Build(p) /\ obj' = obj)
  BY <1>1, <1>5, CallingTypes DEF CallCheck, ListCheck, Lookup, Build, registry, objects
<1> QED BY <1>2, <1>3, <1>4, <1>5 DEF GetForUser

LEMMA LoopLives ==
    ASSUME Types, Owned, Loop
    PROVE  LifeStep
<1>1. CASE IgnoreEvent
  <2>1. UNCHANGED <<servers, closed, loop>> /\ SameMade /\ Built' = Built
    <3>1. CASE UNCHANGED obj
      BY <1>1, <3>1, UnchangedMade DEF IgnoreEvent, registry, Built, Fresh
    <3>2. CASE MarkLate(Event.slug, Event.user)
      BY <1>1, <3>2, MarkedMade, MarkLateTypes DEF IgnoreEvent, registry, Built, Fresh
    <3> QED BY <1>1, <3>1, <3>2 DEF IgnoreEvent
  <2>2. UNCHANGED Lifecycle!life
    BY <2>1, LifeKept
  <2> QED BY <2>2 DEF LifeStep
<1>2. CASE ResolveShared
  <2>1. /\ UNCHANGED <<servers, closed>> /\ loop.closing = {} /\ loop'.closing = {}
        /\ Event.slug \in Slug /\ Event.cfg.ver \in 0..MaxVer /\ Shared \in Owner
    <3>1. /\ UNCHANGED <<servers, closed>> /\ loop'.closing = {}
          /\ loop.pc = "take" /\ bus # <<>> /\ Event.action = "upsert"
      BY <1>2 DEF ResolveShared, registry
    <3>2. loop.closing = {}
      BY <3>1, LoopingParts DEF Types
    <3>3. Event.slug \in Slug /\ Event.cfg.ver \in 1..MaxVer
      BY <3>1, EventIs, ConfigParts
    <3> QED BY <3>1, <3>2, <3>3, RegistryAssumption DEF Owner
  <2>2. PICK i \in Fresh, x \in {Credentials(Event.cfg.ver, Shared).ver, Unread} :
          MakeObject(i, Event.slug, Shared, Event.cfg.ver, x)
    BY <1>2 DEF ResolveShared
  <2>3. x \in Int
    BY <2>1, CredentialsTypes DEF Unread
  <2> QED BY <2>1, <2>2, <2>3, BuildingLives
<1>3. CASE AddScoped
  <2>1. /\ loop.pc = "add" /\ loop.slug \in Slug /\ loop.inst \in Inst
        /\ loop.cfg \in Configured /\ loop.closing = {} /\ UNCHANGED <<obj, closed>>
    BY <1>3, LoopingParts DEF Types, AddScoped, objects
  <2> DEFINE e == Fixed(loop.inst, loop.cfg)
             s == loop.slug
  <2>2. e \in Entry /\ e.mode = "shared" /\ e.ds = loop.inst /\ e.users = NoUsers
    BY <2>1, EntriesMade
  <2>3. Put(s, e)
    BY <1>3 DEF AddScoped
  <2> HIDE DEF e
  <2>4. /\ servers'[s] = e /\ \A t \in Slug : t # s => servers'[t] = servers[t]
        /\ loop'.closing = Held(servers[s])
    BY <2>1, <2>2, <2>3, PutTypes
  <2>5. Offered(e) = [NoOffers EXCEPT ![Shared] = loop.inst]
    <3>1. /\ Offered(e) \in [Owner -> Inst \union {NoInst}] /\ Offered(e)[Shared] = loop.inst
          /\ \A u \in User : Offered(e)[u] = NoInst
      BY <2>2, OfferedIs, EntryParts DEF NoUsers
    <3> QED BY <3>1 DEF NoOffers, Owner
  <2>6. loop.inst \in Adding
    BY <2>1 DEF Adding
  <2> QED BY <2>1, <2>2, <2>4, <2>5, <2>6, ReplacingLives
<1>4. CASE AddProvider
  <2>1. /\ Event.slug \in Slug /\ Event.cfg \in Configured
        /\ loop.closing = {} /\ Adding = {} /\ UNCHANGED <<obj, closed>>
    BY <1>4, EventIs, ConfigParts, LoopingParts DEF Types, AddProvider, objects, Adding
  <2> DEFINE e == PerUser(Event.cfg)
             s == Event.slug
  <2>2. e \in Entry /\ e.mode = "per_user" /\ e.users = NoUsers
    BY <2>1, EntriesMade
  <2>3. Put(s, e)
    BY <1>4 DEF AddProvider
  <2> HIDE DEF e, s
  <2>4. /\ servers'[s] = e /\ \A t \in Slug : t # s => servers'[t] = servers[t]
        /\ loop'.closing = Held(servers[s])
    BY <2>1, <2>2, <2>3, PutTypes DEF s
  <2>5. Offered(e) = NoOffers
    <3>1. /\ Offered(e) \in [Owner -> Inst \union {NoInst}] /\ Offered(e)[Shared] = NoInst
          /\ \A u \in User : Offered(e)[u] = NoInst
      BY <2>2, OfferedIs, EntryParts DEF NoUsers
    <3> QED BY <3>1 DEF NoOffers, Owner
  <2> QED BY <2>1, <2>2, <2>4, <2>5, ReplacingLives DEF s
<1>5. CASE Remove
  <2> DEFINE s == Event.slug
  <2>1. /\ s \in Slug /\ loop.closing = {} /\ Adding = {} /\ UNCHANGED <<obj, closed>>
        /\ servers' = [servers EXCEPT ![s] = Absent]
        /\ loop' = ToClose(Held(servers[s]))
    BY <1>5, EventIs, LoopingParts DEF Types, Remove, objects, Adding
  <2> HIDE DEF s
  <2>2. Held(servers[s]) \in SUBSET Inst
    BY <2>1, HeldIs DEF Types
  <2>3. loop'.closing = Held(servers[s])
    BY <2>1, <2>2, ToCloseTypes
  <2>4. servers'[s] = Absent /\ \A t \in Slug : t # s => servers'[t] = servers[t]
    BY <2>1 DEF Types
  <2>5. Absent \in Entry /\ Offered(Absent) = NoOffers
    <3>1. Absent \in Entry
      BY DEF Entry
    <3> QED BY <3>1, OfferedIs
  <2> QED BY <2>1, <2>3, <2>4, <2>5, ReplacingLives
<1>6. CASE Invalidate
  BY <1>6, InvalidatingLives
<1>7. CASE CloseDropped
  <2>1. PICK i \in loop.closing : CloseObject(i) /\ loop' = ToClose(loop.closing \ {i})
    BY <1>7 DEF CloseDropped
  <2>2. loop.closing \in SUBSET Inst /\ UNCHANGED <<servers, obj>>
    BY <1>7, LoopingParts DEF Types, CloseDropped, registry
  <2>3. loop'.closing = loop.closing \ {i} /\ i \in Inst /\ closed' = closed \union {i}
    <3>1. loop.closing \ {i} \in SUBSET Inst
      BY <2>2
    <3> QED BY <2>1, <2>2, <3>1, ToCloseTypes DEF CloseObject
  <2> QED BY <2>1, <2>2, <2>3, ClosingLives
<1> QED BY <1>1, <1>2, <1>3, <1>4, <1>5, <1>6, <1>7 DEF Loop

LEMMA StepLives == Types /\ Owned /\ [Next]_vars => LifeStep
<1> SUFFICES ASSUME Types, Owned, [Next]_vars PROVE LifeStep
  OBVIOUS
<1>1. ASSUME NEW p \in Proc, CallCheck(p) \/ ListCheck(p) \/ GetForUser(p) \/ Calling(p)
      PROVE  LifeStep
  BY <1>1, RequestLives
<1>2. CASE Loop
  BY <1>2, LoopLives
<1>3. CASE UNCHANGED <<servers, obj, closed, loop>>
  <2>1. UNCHANGED Lifecycle!life
    BY <1>3, LifeKept, UnchangedMade DEF Built, Fresh
  <2> QED BY <2>1 DEF LifeStep
<1>4. CASE PublishUpsert \/ PublishRemove \/ RotateSecret \/ UNCHANGED vars
  BY <1>3, <1>4 DEF PublishUpsert, PublishRemove, RotateSecret, registry, objects, vars
<1> QED BY <1>1, <1>2, <1>4 DEF Next, Calling

LEMMA InitLives == Init => Lifecycle!LifeInit
<1> SUFFICES ASSUME Init PROVE Lifecycle!LifeInit
  OBVIOUS
<1>1. Built = {} /\ loop.closing = {} /\ closed = {}
  BY DEF Init, Built, Fresh, Resting
<1>2. Waiting = {}
  BY <1>1 DEF Waiting, Unplaced
<1>3. Offers = [s \in Slug |-> NoOffers]
  <2>1. \A s \in Slug : Offered(servers[s]) = NoOffers
    BY DEF Init, Offered, NoOffers
  <2> QED BY <2>1 DEF Offers
<1> QED BY <1>1, <1>2, <1>3 DEF Lifecycle!LifeInit, Lifecycle!Nothing, NoOffers

(* Each instance is built for one server and one owner, is offered there at
   most once, withdrawn with what replaces it, removes it or invalidates it,
   and closed once, after that or in vain, however requests and events
   interleave (downstream.go:51-128, 168-205). *)
THEOREM LifecycleImplemented == Spec => ImplementsLifecycle
<1>1. Types /\ Owned /\ [Next]_vars => [Lifecycle!LifeNext]_(Lifecycle!life)
  BY StepLives DEF LifeStep
<1> QED
  BY <1>1, InitLives, TypesAlways, OwnedAlways, PTL
     DEF Spec, ImplementsLifecycle, Lifecycle!LifeSpec
=============================================================================
