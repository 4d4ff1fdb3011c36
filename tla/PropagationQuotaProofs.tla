----------------------- MODULE PropagationQuotaProofs -----------------------
(***************************************************************************)
(* Proofs about Propagation and about Quota, which share no state and are  *)
(* proved about one after the other.                                       *)
(*                                                                         *)
(* Propagation, for any number of slugs, admins, requests, lost events and *)
(* restarts.  The gateway agrees with the store when all is quiet because  *)
(* of what holds while it is not: for every slug, the last word about it,  *)
(* be it in a handler that will publish it, in the queue, in the rows a    *)
(* starting gateway has read or in the catalog itself, is what the store   *)
(* has.                                                                    *)
(*                                                                         *)
(* Quota, for any limits, windows, replicas, clocks and failures.  The     *)
(* limit holds in Redis because a window has at most two counters, the     *)
(* second only for a clock that is behind another; in memory because a     *)
(* replica that has used its chances of a window gets new ones only when   *)
(* its clock is set.                                                       *)
(***************************************************************************)
EXTENDS Propagation, Quota, SequenceTheorems, FiniteSetTheorems, TLAPS

Event == [action : {"upsert"}, slug : Slug, id : Id, cfg : Cfg]
         \union [action : {"remove"}, slug : Slug]

RowPc == {"patch", "delete", "put_cred", "delete_cred"}
Work ==
    [pc : {"idle"}]
    \union [pc : RowPc, row : Row]
    \union [pc : {"purge"}, rest : SUBSET Row]
    \union [pc : {"publish"}, event : Event, rest : SUBSET Row]

Causes == {"bus", "gap", "store", "overlap", "forced"}

Types ==
    /\ handler \in [Admin -> Work]
    /\ gateway \in {"down", "read", "reconciled", "up"}
    /\ snapshot \subseteq Row
    /\ catalog \in [Slug -> [id : Id, cfg : Cfg] \union {None}]
    /\ queue \in Seq(Event)
    /\ gateway # "up" => queue = <<>>
    /\ amiss \subseteq Causes

(* One slug names one row, and a row stays under its id. *)
OneId == \A i, j \in Id :
            store[i] # None /\ store[j] # None /\ store[i].slug = store[j].slug => i = j
Stored ==
    /\ store \in [Id -> Row \union {None}]
    /\ used \subseteq Id
    /\ \A id \in Id : store[id] # None => store[id].id = id /\ id \in used
    /\ OneId

(* The rows a handler has read: what is still stored under their ids has
   their slug. *)
Copies(h) == IF h.pc \in RowPc THEN {h.row}
             ELSE IF h.pc \in {"purge", "publish"} THEN h.rest ELSE {}
Known(r) == r.id \in used /\ (store[r.id] # None => store[r.id].slug = r.slug)
AllKnown == \A a \in Admin : \A r \in Copies(handler[a]) : Known(r)

Typed == Types /\ Stored /\ AllKnown

LEMMA WorkPc ==
    ASSUME NEW h \in Work
    PROVE  /\ h.pc \in {"idle", "purge", "publish"} \union RowPc
           /\ h.pc = "idle" => h = Idle
           /\ h.pc \in RowPc => h.row \in Row
           /\ h.pc \in {"purge", "publish"} => h.rest \subseteq Row
           /\ h.pc = "publish" => h.event \in Event
           /\ Copies(h) \subseteq Row
BY DEF Work, Idle, RowPc, Copies

LEMMA Ways ==
    /\ Idle \in Work /\ Idle.pc = "idle" /\ Copies(Idle) = {}
    /\ \A e \in Event, R \in SUBSET Row :
          /\ Publishing(e, R) \in Work /\ Publishing(e, R).pc = "publish"
          /\ Publishing(e, R).event = e /\ Copies(Publishing(e, R)) = R
    /\ \A R \in SUBSET Row :
          /\ Purging(R) \in Work /\ Purging(R).pc \in {"idle", "purge"}
          /\ Copies(Purging(R)) = R
    /\ \A r \in Row :
          /\ UpsertEvent(r) \in Event /\ UpsertEvent(r).slug = r.slug
          /\ RemoveEvent(r) \in Event /\ RemoveEvent(r).slug = r.slug
BY DEF Work, Idle, Publishing, Purging, Copies, RowPc, Event, UpsertEvent, RemoveEvent, Row

(* What a step may do to the store: rewrite a row under its slug, delete it,
   or create one under a fresh id and a free slug. *)
SlugStays ==
    \A id \in Id : store'[id] # None =>
        id \notin used \/ (store[id] # None /\ store'[id].slug = store[id].slug)

LEMMA PutKeeps ==
    ASSUME Stored, NEW id \in Id, NEW v \in Row \union {None},
           store' = [store EXCEPT ![id] = v],
           used \subseteq used', used' \subseteq Id,
           v # None => /\ v.id = id /\ id \in used'
                       /\ \A j \in Id : j # id /\ store[j] # None => store[j].slug # v.slug
                       /\ id \notin used \/ (store[id] # None /\ store[id].slug = v.slug)
    PROVE  Stored' /\ SlugStays
<1>1. /\ store'[id] = v /\ \A j \in Id : j # id => store'[j] = store[j]
      /\ store' \in [Id -> Row \union {None}]
  BY DEF Stored
<1>2. \A j \in Id : store'[j] # None => store'[j].id = j /\ j \in used'
  BY <1>1 DEF Stored
<1>3. OneId'
  BY <1>1 DEF Stored, OneId
<1>4. SlugStays
  BY <1>1 DEF Stored, SlugStays
<1> QED BY <1>1, <1>2, <1>3, <1>4 DEF Stored

LEMMA SameKeeps ==
    ASSUME Stored, store' = store, used' = used PROVE Stored' /\ SlugStays
BY DEF Stored, OneId, SlugStays

(* One handler moves on: what the others have read stays known. *)
LEMMA TypedMove ==
    ASSUME Typed, Stored', SlugStays, used \subseteq used',
           NEW a \in Admin, NEW h \in Work, handler' = [handler EXCEPT ![a] = h],
           \A r \in Copies(h) : Known(r) \/ Known(r)',
           UNCHANGED data, amiss' \subseteq Causes
    PROVE  Typed'
<1>1. handler'[a] = h /\ \A b \in Admin : b # a => handler'[b] = handler[b]
  BY DEF Typed, Types
<1>2. ASSUME NEW r \in Row, Known(r) PROVE Known(r)'
  BY <1>2 DEF Known, SlugStays, Row, Typed, Stored
<1>3. \A b \in Admin : Copies(handler[b]) \subseteq Row
  BY WorkPc DEF Typed, Types
<1>4. AllKnown'
  <2>1. ASSUME NEW b \in Admin, NEW r \in Copies(handler'[b]) PROVE Known(r)'
    <3>1. CASE b = a
      BY <1>1, <1>2, <2>1, <3>1, WorkPc
    <3>2. CASE b # a
      <4>1. r \in Copies(handler[b])
        BY <1>1, <2>1, <3>2
      <4> QED BY <1>2, <1>3, <4>1 DEF Typed, AllKnown
    <3> QED BY <3>1, <3>2
  <2> QED BY <2>1 DEF AllKnown, Copies
<1>5. Types'
  BY DEF Typed, Types, data
<1> QED BY <1>4, <1>5 DEF Typed

-----------------------------------------------------------------------------
(* What the catalog may offer under a slug: the enabled server as stored, or,
   if the gateway does not know its type, what was offered of it before. *)
On(st, id, s) == st[id] # None /\ st[id].slug = s /\ st[id].enabled
Wants(st, s, v) ==
    \/ \E id \in Id : /\ On(st, id, s)
                      /\ IF st[id].cfg \in Supported THEN v = [id |-> id, cfg |-> st[id].cfg]
                         ELSE v = None \/ v.id = id
    \/ (\A id \in Id : ~On(st, id, s)) /\ v = None
Means(e) == IF e.action = "upsert" THEN [id |-> e.id, cfg |-> e.cfg] ELSE None

Clean == "overlap" \notin amiss /\ "forced" \notin amiss

(* While no requests overlapped, one handler at most is at work, and the rows
   it has read are still the stored ones. *)
Sole ==
    "overlap" \notin amiss =>
        /\ \A a, b \in Admin : handler[a] # Idle /\ handler[b] # Idle => a = b
        /\ \A a \in Admin : Copies(handler[a]) \subseteq Rows

(* An event that says something about s to the gateway. *)
About(e, s) == e.slug = s /\ Effective(e)

(* What a handler is about to publish is what the store has. *)
Truthful ==
    Clean => \A a \in Admin : handler[a].pc = "publish" /\ Effective(handler[a].event) =>
                Wants(store, handler[a].event.slug, Means(handler[a].event))

(* Somebody is still to publish something about s ... *)
Told(s) == \E a \in Admin : handler[a].pc = "publish" /\ About(handler[a].event, s)

(* ... or the last event about s in the queue tells the truth, or, if there is
   none, the catalog does, or the rows the catalog will be made of. *)
Has(s) ==
    IF gateway = "read"
    THEN /\ \A r \in Applied : r.slug = s => Wants(store, s, Offer(r))
         /\ (\A r \in Applied : r.slug # s) => Wants(store, s, None)
    ELSE Wants(store, s, catalog[s])
Last(i, s) == About(queue[i], s) /\ \A j \in 1..Len(queue) : j > i => ~About(queue[j], s)
InLine(s) ==
    /\ \A i \in 1..Len(queue) : Last(i, s) => Wants(store, s, Means(queue[i]))
    /\ (\A i \in 1..Len(queue) : ~About(queue[i], s)) => Has(s)

OnTrack == amiss = {} /\ gateway # "down" => \A s \in Slug : Told(s) \/ InLine(s)

PInv == Typed /\ Sole /\ Truthful /\ OnTrack

(* The step leaves what is stored under the slug s alone. *)
Same(s) ==
    \A id \in Id : store'[id] = store[id]
                   \/ /\ store[id] # None => store[id].slug # s
                      /\ store'[id] # None => store'[id].slug # s

(* What the catalog may offer under s it may offer after the step. *)
Stable(s) == \A v : Wants(store, s, v) => Wants(store', s, v)

LEMMA SameStable ==
    ASSUME NEW s, Same(s) PROVE Stable(s)
<1> SUFFICES ASSUME NEW v, Wants(store, s, v) PROVE Wants(store', s, v)
  BY DEF Stable
<1>1. \A id \in Id : On(store', id, s) <=> On(store, id, s)
  BY DEF Same, On
<1>2. \A id \in Id : On(store, id, s) => store'[id] = store[id]
  BY DEF Same, On
<1> QED BY <1>1, <1>2 DEF Wants

(* A row written under its slug, or deleted, is all there is under it. *)
LEMMA PutWants ==
    ASSUME Stored, NEW id \in Id, NEW v \in Row \union {None}, NEW s \in Slug,
           store' = [store EXCEPT ![id] = v],
           v # None => v.slug = s, store[id] # None => store[id].slug = s,
           \A j \in Id : j # id /\ store[j] # None => store[j].slug # s
    PROVE  /\ \A t \in Slug \ {s} : Stable(t)
           /\ (IF v # None THEN v.enabled ELSE FALSE)
                => IF v.cfg \in Supported THEN Wants(store', s, [id |-> id, cfg |-> v.cfg])
                   ELSE store[id] # None => Stable(s)
           /\ (IF v # None THEN ~v.enabled ELSE TRUE) => Wants(store', s, None)
<1>1. store'[id] = v /\ \A j \in Id : j # id => store'[j] = store[j]
  BY DEF Stored
<1>2. \A t \in Slug \ {s} : Stable(t)
  BY <1>1, SameStable DEF Same
<1>3. ASSUME IF v # None THEN v.enabled ELSE FALSE
      PROVE  IF v.cfg \in Supported THEN Wants(store', s, [id |-> id, cfg |-> v.cfg])
             ELSE store[id] # None => Stable(s)
  <2>1. On(store', id, s) /\ store'[id].cfg = v.cfg
    BY <1>1, <1>3 DEF On
  <2>2. CASE v.cfg \in Supported
    BY <2>1, <2>2 DEF Wants
  <2>3. CASE v.cfg \notin Supported
    <3> SUFFICES ASSUME NEW w, Wants(store, s, w) PROVE Wants(store', s, w)
      BY <2>3 DEF Stable
    <3>1. \A j \in Id : On(store, j, s) => j = id
      BY DEF On
    <3>2. w = None \/ w.id = id
      BY <3>1 DEF Wants
    <3> QED BY <2>1, <2>3, <3>2 DEF Wants
  <2> QED BY <2>2, <2>3
<1>4. (IF v # None THEN ~v.enabled ELSE TRUE) => Wants(store', s, None)
  BY <1>1 DEF Wants, On
<1> QED BY <1>2, <1>3, <1>4

(* A handler that publishes nothing now moves on to h. *)
Turn(a, h) ==
    /\ handler' = [handler EXCEPT ![a] = h]
    /\ UNCHANGED data
    /\ handler[a].pc # "publish"
    /\ amiss \subseteq amiss'
    /\ "overlap" \notin amiss' =>
          (\A b \in Admin : b # a => handler[b] = Idle) /\ Copies(h) \subseteq Rows'
    /\ Clean' =>
          /\ h.pc = "publish" /\ Effective(h.event)
                => Wants(store', h.event.slug, Means(h.event))
          /\ \A s \in Slug : (h.pc = "publish" => ~About(h.event, s)) => Stable(s)

LEMMA TurnKeeps ==
    ASSUME PInv, NEW a \in Admin, NEW h \in Work, Turn(a, h), Typed'
    PROVE  PInv'
<1>1. handler'[a] = h /\ \A b \in Admin : b # a => handler'[b] = handler[b]
  BY DEF PInv, Typed, Types, Turn
<1>2. Copies(Idle) = {} /\ Idle.pc = "idle"
  BY Ways
<1>3. Sole'
  BY <1>1, <1>2 DEF Sole, Turn, Copies
<1>4. Truthful'
  BY <1>1, <1>2 DEF Truthful, Turn, Clean
<1>5. OnTrack'
  <2> SUFFICES ASSUME amiss' = {}, gateway' # "down", NEW s \in Slug,
                      ~Told(s)'
               PROVE  InLine(s)'
    BY DEF OnTrack
  <2>1. amiss = {} /\ gateway # "down" /\ Clean'
    BY DEF Turn, data, Clean
  <2>2. \A b \in Admin : handler[b].pc # "publish"
    BY <1>2 DEF Turn
  <2>3. InLine(s)
    BY <2>1, <2>2 DEF PInv, OnTrack, Told
  <2>4. Stable(s)
    BY <2>1, <1>1 DEF Turn, Told, About, Effective
  <2>5. \A v : Wants(store, s, v) => Wants(store', s, v)
    BY <2>4 DEF Stable
  <2>6. UNCHANGED <<queue, gateway, snapshot, catalog>>
    BY DEF Turn, data
  <2>7. Has(s) => Has(s)'
    BY <2>5, <2>6 DEF Has, Offer, Applied, Effective, UpsertEvent
  <2> QED BY <2>3, <2>5, <2>6, <2>7 DEF InLine, Last, Means, About, Effective
<1> QED BY <1>3, <1>4, <1>5 DEF PInv

-----------------------------------------------------------------------------
(* The handlers, one lemma per step. *)
LEMMA RowsAre ==
    ASSUME Stored, NEW r
    PROVE  r \in Rows <=> r \in Row /\ store[r.id] = r
BY PropagationAssumption DEF Rows, Stored, Row

LEMMA BeginAlone ==
    ASSUME PInv, NEW a \in Admin, NEW op, Begin(a, op)
    PROVE  /\ handler[a].pc # "publish"
           /\ amiss \subseteq amiss' /\ amiss' \subseteq Causes
           /\ "overlap" \notin amiss' => \A b \in Admin : handler[b] = Idle
BY Ways DEF Begin, PInv, Typed, Types, Causes

LEMMA WorkAlone ==
    ASSUME PInv, NEW a \in Admin, handler[a].pc # "idle",
           amiss \subseteq amiss', "overlap" \notin amiss'
    PROVE  /\ \A b \in Admin : b # a => handler[b] = Idle
           /\ Copies(handler[a]) \subseteq Rows
BY Ways DEF PInv, Sole

LEMMA CreateKeeps ==
    ASSUME PInv, NEW a \in Admin, Create(a) PROVE PInv'
<1> USE PropagationAssumption
<1>1. PICK id, s, c, r :
        /\ id \in Id \ used /\ s \in Slug /\ c \in Supported /\ c \in Cfg
        /\ r = [id |-> id, slug |-> s, cfg |-> c, enabled |-> TRUE, cred |-> FALSE]
        /\ \A other \in Rows : other.slug # s
        /\ used' = used \union {id}
        /\ store' = [store EXCEPT ![id] = r]
        /\ handler' = [handler EXCEPT ![a] = Publishing(UpsertEvent(r), {})]
  BY DEF Create
<1>2. /\ r \in Row /\ r # None /\ r.id = id /\ r.slug = s /\ r.cfg = c /\ r.enabled
      /\ Begin(a, "create") /\ UNCHANGED data
  <2>1. r \in Row
    BY <1>1 DEF Row
  <2>2. r.id = id /\ r.slug = s /\ r.cfg = c /\ r.enabled
    BY <1>1
  <2> QED BY <2>1, <2>2 DEF Create
<1> DEFINE h == Publishing(UpsertEvent(r), {})
<1>3. /\ h \in Work /\ Copies(h) = {} /\ h.pc = "publish" /\ h.event.slug = s
      /\ Means(h.event) = [id |-> id, cfg |-> c] /\ Effective(h.event)
  BY <1>1, <1>2, Ways DEF Means, UpsertEvent, Effective
<1>4. handler' = [handler EXCEPT ![a] = h]
  BY <1>1
<1> HIDE DEF h
<1>5. Stored /\ store[id] = None /\ \A j \in Id : store[j] # None => store[j].slug # s
  BY <1>1, RowsAre DEF PInv, Typed, Stored
<1>6. Stored' /\ SlugStays
  BY <1>1, <1>2, <1>5, PutKeeps DEF Stored
<1>7. Typed'
  BY <1>1, <1>2, <1>3, <1>4, <1>6, TypedMove, BeginAlone DEF PInv
<1>8. (\A t \in Slug \ {s} : Stable(t)) /\ Wants(store', s, [id |-> id, cfg |-> c])
  <2>1. /\ store' = [store EXCEPT ![id] = r] /\ id \in Id /\ s \in Slug
        /\ r.cfg \in Supported /\ (r # None => r.slug = s)
        /\ \A j \in Id : j # id /\ store[j] # None => store[j].slug # s
    BY <1>1, <1>2, <1>5
  <2>2. /\ \A t \in Slug \ {s} : Stable(t)
        /\ (IF r # None THEN r.enabled ELSE FALSE)
             => IF r.cfg \in Supported THEN Wants(store', s, [id |-> id, cfg |-> r.cfg])
                ELSE store[id] # None => Stable(s)
    BY <1>2, <1>5, <2>1, PutWants
  <2> QED BY <1>2, <2>1, <2>2
<1>9. Turn(a, h)
  BY <1>2, <1>3, <1>4, <1>8, BeginAlone DEF Turn, About
<1> QED BY <1>3, <1>7, <1>9, TurnKeeps

LEMMA GetKeeps ==
    ASSUME PInv, NEW a \in Admin, Get(a) PROVE PInv'
<1>1. PICK op \in RowPc, r \in Rows : Begin(a, op) /\ Reading(a, op, r)
  BY DEF Get, RowPc
<1>2. UNCHANGED <<store, used, data>> /\ Stored
  BY DEF Get, PInv, Typed
<1> DEFINE h == [pc |-> op, row |-> r]
<1>3. r \in Row /\ store[r.id] = r /\ Known(r)
  BY <1>2, RowsAre, PropagationAssumption DEF Stored, Known, Row
<1>4. h \in Work /\ Copies(h) = {r} /\ h.pc # "publish"
  BY <1>1, <1>3 DEF Work, Copies, RowPc
<1>5. handler' = [handler EXCEPT ![a] = h]
  BY <1>1 DEF Reading
<1> HIDE DEF h
<1>6. Stored' /\ SlugStays /\ Rows' = Rows
  BY <1>2, SameKeeps DEF Rows
<1>7. Typed'
  BY <1>1, <1>2, <1>3, <1>4, <1>5, <1>6, TypedMove, BeginAlone DEF PInv
<1>8. \A s \in Slug : Stable(s)
  BY <1>2 DEF Stable
<1>9. Turn(a, h)
  BY <1>1, <1>2, <1>4, <1>5, <1>6, <1>8, BeginAlone DEF Turn
<1> QED BY <1>4, <1>7, <1>9, TurnKeeps

LEMMA PurgeListKeeps ==
    ASSUME PInv, NEW a \in Admin, PurgeList(a) PROVE PInv'
<1>1. Begin(a, "purge") /\ UNCHANGED <<store, used, data>> /\ Stored
  BY DEF PurgeList, PInv, Typed
<1> DEFINE h == Purging(Rows)
<1>2. \A r \in Rows : r \in Row /\ Known(r)
  BY <1>1, RowsAre, PropagationAssumption DEF Stored, Known, Row
<1>3. h \in Work /\ Copies(h) = Rows /\ h.pc # "publish"
  BY <1>2, Ways
<1>4. handler' = [handler EXCEPT ![a] = h]
  BY DEF PurgeList
<1> HIDE DEF h
<1>5. Stored' /\ SlugStays /\ Rows' = Rows
  BY <1>1, SameKeeps DEF Rows
<1>6. Typed'
  BY <1>1, <1>2, <1>3, <1>4, <1>5, TypedMove, BeginAlone DEF PInv
<1>7. \A s \in Slug : Stable(s)
  BY <1>1 DEF Stable
<1>8. Turn(a, h)
  BY <1>1, <1>3, <1>4, <1>5, <1>7, BeginAlone DEF Turn
<1> QED BY <1>3, <1>6, <1>8, TurnKeeps

(* Writing back a row that was read, or deleting it, while its id is stored. *)
LEMMA WriteBack ==
    ASSUME Stored, NEW r \in Row, Known(r), store[r.id] # None, used' = used,
           NEW v \in Row \union {None}, v # None => v.id = r.id /\ v.slug = r.slug,
           store' = [store EXCEPT ![r.id] = v]
    PROVE  /\ Stored' /\ SlugStays
           /\ \A t \in Slug \ {r.slug} : Stable(t)
           /\ (IF v # None THEN v.enabled ELSE FALSE)
                => IF v.cfg \in Supported
                   THEN Wants(store', r.slug, [id |-> r.id, cfg |-> v.cfg])
                   ELSE Stable(r.slug)
           /\ (IF v # None THEN ~v.enabled ELSE TRUE) => Wants(store', r.slug, None)
<1>1. /\ r.id \in Id /\ r.slug \in Slug /\ r.id \in used
      /\ store[r.id].slug = r.slug /\ used \subseteq Id
  BY DEF Row, Known, Stored
<1>2. \A j \in Id : j # r.id /\ store[j] # None => store[j].slug # r.slug
  BY <1>1 DEF Stored, OneId
<1>3. Stored' /\ SlugStays
  BY <1>1, <1>2, PutKeeps
<1> QED BY <1>1, <1>2, <1>3, PutWants

LEMMA HeldRow ==
    ASSUME PInv, NEW a \in Admin, handler[a].pc \in RowPc, NEW r, r = handler[a].row
    PROVE  r \in Row /\ Known(r) /\ Copies(handler[a]) = {r}
BY WorkPc DEF PInv, Typed, Types, AllKnown, Copies, Known

LEMMA StillThere ==
    ASSUME Stored, store' = store, used' = used
    PROVE  Stored' /\ SlugStays /\ \A s \in Slug : Stable(s)
BY SameKeeps DEF Stable

LEMMA PatchKeeps ==
    ASSUME PInv, NEW a \in Admin, Patch(a) PROVE PInv'
<1>1. PICK old : old = handler[a].row
  OBVIOUS
<1>2. /\ handler[a].pc = "patch" /\ UNCHANGED <<used, data, amiss>>
      /\ \/ store' = store /\ handler' = [handler EXCEPT ![a] = Idle]
         \/ /\ store[old.id] # None
            /\ \E c \in Cfg, on \in BOOLEAN : \E r :
                  /\ r = [old EXCEPT !.cfg = c, !.enabled = on]
                  /\ Write(r)
                  /\ handler' = [handler EXCEPT ![a] = Publishing(Announce(r), {})]
  BY <1>1 DEF Patch
<1>3. old \in Row /\ Known(old) /\ Copies(handler[a]) = {old} /\ Stored
  BY <1>1, <1>2, HeldRow DEF RowPc, PInv, Typed
<1>4. amiss' \subseteq Causes /\ handler[a].pc \notin {"idle", "publish"}
  BY <1>2 DEF PInv, Typed, Types
<1>5. "overlap" \notin amiss' => \A b \in Admin : b # a => handler[b] = Idle
  BY <1>2, <1>4, WorkAlone
<1>6. CASE store' = store /\ handler' = [handler EXCEPT ![a] = Idle]
  <2>1. Stored' /\ SlugStays /\ \A s \in Slug : Stable(s)
    BY <1>2, <1>3, <1>6, StillThere
  <2>2. Typed'
    BY <1>2, <1>3, <1>4, <1>6, <2>1, TypedMove, Ways DEF PInv
  <2>3. Turn(a, Idle)
    BY <1>2, <1>4, <1>5, <1>6, <2>1, Ways DEF Turn
  <2> QED BY <2>2, <2>3, TurnKeeps, Ways
<1>7. ASSUME store[old.id] # None, NEW c \in Cfg, NEW on \in BOOLEAN, NEW r,
             r = [old EXCEPT !.cfg = c, !.enabled = on], Write(r),
             handler' = [handler EXCEPT ![a] = Publishing(Announce(r), {})]
      PROVE  PInv'
  <2>1. r \in Row
    BY <1>3, <1>7 DEF Row
  <2>2. r.id = old.id /\ r.slug = old.slug /\ r # None
    BY <1>3, <1>7, <2>1, PropagationAssumption DEF Row
  <2>3. store' = [store EXCEPT ![old.id] = r]
    BY <1>7, <2>2 DEF Write
  <2> DEFINE h == Publishing(Announce(r), {})
  <2>4. /\ h \in Work /\ Copies(h) = {} /\ h.pc = "publish" /\ h.event.slug = old.slug
        /\ Means(h.event) = IF r.enabled THEN [id |-> old.id, cfg |-> r.cfg] ELSE None
        /\ Effective(h.event) <=> (r.enabled => r.cfg \in Supported)
    BY <2>1, <2>2, Ways DEF Means, Announce, UpsertEvent, RemoveEvent, Effective
  <2>5. handler' = [handler EXCEPT ![a] = h]
    BY <1>7
  <2> HIDE DEF h
  <2>6. /\ Stored' /\ SlugStays
        /\ \A t \in Slug \ {old.slug} : Stable(t)
        /\ IF Effective(h.event) THEN Wants(store', old.slug, Means(h.event))
           ELSE Stable(old.slug)
    <3>1. /\ Stored' /\ SlugStays
          /\ \A t \in Slug \ {old.slug} : Stable(t)
          /\ (IF r # None THEN r.enabled ELSE FALSE)
               => IF r.cfg \in Supported
                  THEN Wants(store', old.slug, [id |-> old.id, cfg |-> r.cfg])
                  ELSE Stable(old.slug)
          /\ (IF r # None THEN ~r.enabled ELSE TRUE) => Wants(store', old.slug, None)
      BY <1>2, <1>3, <1>7, <2>1, <2>2, <2>3, WriteBack
    <3>2. CASE r.enabled
      BY <2>2, <2>4, <3>1, <3>2
    <3>3. CASE ~r.enabled
      BY <2>2, <2>4, <3>1, <3>3
    <3> QED BY <3>1, <3>2, <3>3
  <2>7. Typed'
    BY <1>2, <1>4, <2>4, <2>5, <2>6, TypedMove DEF PInv
  <2>8. Turn(a, h)
    BY <1>2, <1>4, <1>5, <2>4, <2>5, <2>6 DEF Turn, About
  <2> QED BY <2>4, <2>7, <2>8, TurnKeeps
<1> QED BY <1>2, <1>6, <1>7

LEMMA DeleteKeeps ==
    ASSUME PInv, NEW a \in Admin, Delete(a) PROVE PInv'
<1>1. PICK r : r = handler[a].row
  OBVIOUS
<1>2. /\ handler[a].pc = "delete" /\ UNCHANGED <<used, data, amiss>>
      /\ store' = [store EXCEPT ![r.id] = None]
      /\ handler' = [handler EXCEPT ![a] =
            IF store[r.id] = None THEN Idle ELSE Publishing(RemoveEvent(r), {})]
  BY <1>1 DEF Delete
<1>3. r \in Row /\ Known(r) /\ Copies(handler[a]) = {r} /\ Stored
  BY <1>1, <1>2, HeldRow DEF RowPc, PInv, Typed
<1>4. amiss' \subseteq Causes /\ handler[a].pc \notin {"idle", "publish"}
  BY <1>2 DEF PInv, Typed, Types
<1>5. "overlap" \notin amiss' => \A b \in Admin : b # a => handler[b] = Idle
  BY <1>2, <1>4, WorkAlone
<1>6. CASE store[r.id] = None
  <2>1. store' = store
    BY <1>2, <1>3, <1>6 DEF Stored
  <2>2. Stored' /\ SlugStays /\ \A s \in Slug : Stable(s)
    BY <1>2, <1>3, <2>1, StillThere
  <2>3. handler' = [handler EXCEPT ![a] = Idle]
    BY <1>2, <1>6
  <2>4. Typed'
    BY <1>2, <1>4, <2>2, <2>3, TypedMove, Ways DEF PInv
  <2>5. Turn(a, Idle)
    BY <1>2, <1>4, <1>5, <2>2, <2>3, Ways DEF Turn
  <2> QED BY <2>4, <2>5, TurnKeeps, Ways
<1>7. CASE store[r.id] # None
  <2> DEFINE h == Publishing(RemoveEvent(r), {})
  <2>1. /\ h \in Work /\ Copies(h) = {} /\ h.pc = "publish" /\ h.event.slug = r.slug
        /\ Means(h.event) = None /\ Effective(h.event)
    BY <1>3, Ways DEF Means, RemoveEvent, Effective
  <2>2. handler' = [handler EXCEPT ![a] = h]
    BY <1>2, <1>7
  <2> HIDE DEF h
  <2>3. /\ Stored' /\ SlugStays
        /\ \A t \in Slug \ {r.slug} : Stable(t)
        /\ Wants(store', r.slug, None)
    BY <1>2, <1>3, <1>7, WriteBack
  <2>4. Typed'
    BY <1>2, <1>4, <2>1, <2>2, <2>3, TypedMove DEF PInv
  <2>5. Turn(a, h)
    BY <1>2, <1>4, <1>5, <2>1, <2>2, <2>3 DEF Turn, About
  <2> QED BY <2>1, <2>4, <2>5, TurnKeeps
<1> QED BY <1>6, <1>7

(* Both credential handlers: the copy that was read is written back with the
   mark, unless it has it already, and announced. *)
LEMMA CredKeeps ==
    ASSUME PInv, NEW a \in Admin, handler[a].pc \in {"put_cred", "delete_cred"},
           NEW mark \in BOOLEAN, NEW old, old = handler[a].row,
           NEW r, r = [old EXCEPT !.cred = mark],
           (store' = store /\ old.cred = mark) \/ Write(r),
           AnnounceCred(a, r), UNCHANGED <<used, data>>
    PROVE  PInv'
<1>1. old \in Row /\ Known(old) /\ Copies(handler[a]) = {old} /\ Stored
  BY HeldRow DEF RowPc, PInv, Typed
<1>2. r \in Row
  BY <1>1 DEF Row
<1>3. /\ r.id = old.id /\ r.slug = old.slug /\ r.cfg = old.cfg
      /\ r # None /\ old.id \in Id /\ old.slug \in Slug
      /\ r.enabled = old.enabled
  BY <1>1, <1>2, PropagationAssumption DEF Row
<1>4. /\ amiss \subseteq amiss' /\ amiss' \subseteq Causes
      /\ handler[a].pc \notin {"idle", "publish"}
  BY DEF PInv, Typed, Types, AnnounceCred, Causes
<1>5. "overlap" \notin amiss' =>
        (\A b \in Admin : b # a => handler[b] = Idle) /\ store[old.id] = old
  BY <1>1, <1>4, WorkAlone, RowsAre
<1> DEFINE h == Publishing(UpsertEvent(r), {})
<1>6. /\ h \in Work /\ Copies(h) = {} /\ h.pc = "publish" /\ h.event.slug = old.slug
      /\ Means(h.event) = [id |-> old.id, cfg |-> r.cfg]
      /\ Effective(h.event) <=> r.cfg \in Supported
  <2>1. UpsertEvent(r) \in Event /\ UpsertEvent(r).slug = old.slug
    BY <1>2, <1>3, Ways
  <2>2. /\ Means(UpsertEvent(r)) = [id |-> old.id, cfg |-> r.cfg]
        /\ Effective(UpsertEvent(r)) <=> r.cfg \in Supported
    BY <1>3 DEF Means, UpsertEvent, Effective
  <2> QED BY <2>1, <2>2, Ways
<1>7. handler' = [handler EXCEPT ![a] = h]
  BY DEF AnnounceCred
<1>8. Clean' => /\ store[old.id] # None /\ r.enabled
                /\ store[old.id] = old
  BY <1>3, <1>5 DEF Clean, AnnounceCred
<1> HIDE DEF h
<1>9. \/ store' = store /\ (Clean' => old = r)
      \/ store[old.id] # None /\ store' = [store EXCEPT ![old.id] = r]
  <2>1. CASE store' = store /\ old.cred = mark
    <3>1. old = r
      BY <1>1, <1>2, <2>1 DEF Row
    <3> QED BY <2>1, <3>1
  <2>2. CASE Write(r)
    BY <1>3, <1>8, <2>2 DEF Write
  <2> QED BY <2>1, <2>2
<1>10. CASE store' = store /\ (Clean' => old = r)
  <2>1. Stored' /\ SlugStays /\ \A s \in Slug : Stable(s)
    BY <1>1, <1>10, StillThere
  <2>2. Typed'
    BY <1>4, <1>6, <1>7, <2>1, TypedMove DEF PInv
  <2>3. Clean' /\ Effective(h.event) => Wants(store', old.slug, Means(h.event))
    BY <1>3, <1>6, <1>8, <1>10 DEF Wants, On
  <2>4. Turn(a, h)
    BY <1>4, <1>5, <1>6, <1>7, <2>1, <2>3 DEF Turn
  <2> QED BY <1>6, <2>2, <2>4, TurnKeeps
<1>11. CASE store[old.id] # None /\ store' = [store EXCEPT ![old.id] = r]
  <2>1. /\ Stored' /\ SlugStays
        /\ \A t \in Slug \ {old.slug} : Stable(t)
        /\ (IF r # None THEN r.enabled ELSE FALSE)
              => IF r.cfg \in Supported
                 THEN Wants(store', old.slug, [id |-> old.id, cfg |-> r.cfg])
                 ELSE Stable(old.slug)
    BY <1>1, <1>2, <1>3, <1>11, WriteBack
  <2>2. Clean' => IF Effective(h.event) THEN Wants(store', old.slug, Means(h.event))
                  ELSE Stable(old.slug)
    BY <1>3, <1>6, <1>8, <2>1
  <2>3. Typed'
    BY <1>4, <1>6, <1>7, <2>1, TypedMove DEF PInv
  <2>4. Turn(a, h)
    BY <1>4, <1>5, <1>6, <1>7, <2>1, <2>2 DEF Turn, About
  <2> QED BY <1>6, <2>3, <2>4, TurnKeeps
<1> QED BY <1>9, <1>10, <1>11

LEMMA PutCredKeeps ==
    ASSUME PInv, NEW a \in Admin, PutCred(a) PROVE PInv'
<1>1. PICK old, r : old = handler[a].row /\ r = [old EXCEPT !.cred = TRUE]
  OBVIOUS
<1>2. /\ handler[a].pc = "put_cred" /\ AnnounceCred(a, r) /\ UNCHANGED <<used, data>>
      /\ IF old.cred THEN store' = store ELSE Write(r)
  BY <1>1 DEF PutCred
<1>3. old \in Row
  BY <1>1, <1>2, HeldRow DEF RowPc
<1>4. old.cred => old.cred = TRUE
  BY <1>3 DEF Row
<1> QED BY <1>1, <1>2, <1>4, CredKeeps

LEMMA DeleteCredKeeps ==
    ASSUME PInv, NEW a \in Admin, DeleteCred(a) PROVE PInv'
<1>1. PICK old, r : old = handler[a].row /\ r = [old EXCEPT !.cred = FALSE]
  OBVIOUS
<1>2. /\ handler[a].pc = "delete_cred" /\ AnnounceCred(a, r) /\ UNCHANGED <<used, data>>
      /\ Write(r)
  BY <1>1 DEF DeleteCred
<1> QED BY <1>1, <1>2, CredKeeps

LEMMA PurgeOneKeeps ==
    ASSUME PInv, NEW a \in Admin, PurgeOne(a) PROVE PInv'
<1>1. PICK R, r, rest :
        /\ R = handler[a].rest /\ r \in R /\ rest = R \ {r}
        /\ store' = [store EXCEPT ![r.id] = None]
        /\ handler' = [handler EXCEPT ![a] =
              IF store[r.id] = None THEN Purging(rest)
              ELSE Publishing(RemoveEvent(r), rest)]
  BY DEF PurgeOne
<1>2. /\ handler[a].pc = "purge" /\ UNCHANGED <<used, data, amiss>> /\ Stored
      /\ amiss' \subseteq Causes /\ handler[a].pc \notin {"idle", "publish"}
  BY DEF PurgeOne, PInv, Typed, Types
<1>3. /\ Copies(handler[a]) = R /\ R \subseteq Row
      /\ \A q \in R : Known(q)
  BY <1>1, <1>2, WorkPc DEF PInv, Typed, Types, AllKnown, Copies, RowPc
<1>4. "overlap" \notin amiss' =>
         (\A b \in Admin : b # a => handler[b] = Idle) /\ \A q \in R : store[q.id] = q
  BY <1>2, <1>3, WorkAlone, RowsAre
<1>5. \A q \in R : q.id \in Id /\ q.slug \in Slug /\ q # None
  BY <1>3, PropagationAssumption DEF Row
<1>6. ASSUME NEW h \in Work, Copies(h) = rest, Stored'
      PROVE  /\ \A q \in Copies(h) : Known(q)
             /\ "overlap" \notin amiss' => Copies(h) \subseteq Rows'
  <2>1. ASSUME NEW q \in rest, "overlap" \notin amiss' PROVE q \in Rows'
    <3>1. q.id # r.id /\ store[q.id] = q
      BY <1>1, <1>4, <2>1
    <3>2. store'[q.id] = q
      BY <1>1, <1>2, <1>5, <2>1, <3>1 DEF Stored
    <3> QED BY <1>1, <1>5, <3>2 DEF Rows
  <2> QED BY <1>1, <1>3, <1>6, <2>1
<1>7. CASE store[r.id] = None
  <2>1. store' = store
    BY <1>1, <1>2, <1>5, <1>7 DEF Stored
  <2>2. Stored' /\ SlugStays /\ \A s \in Slug : Stable(s)
    BY <1>2, <2>1, StillThere
  <2> DEFINE h == Purging(rest)
  <2>3. h \in Work /\ Copies(h) = rest /\ h.pc # "publish"
    BY <1>1, <1>3, Ways
  <2>4. handler' = [handler EXCEPT ![a] = h]
    BY <1>1, <1>7
  <2> HIDE DEF h
  <2>5. Typed'
    BY <1>2, <1>6, <2>2, <2>3, <2>4, TypedMove DEF PInv
  <2>6. Turn(a, h)
    BY <1>2, <1>4, <1>6, <2>2, <2>3, <2>4 DEF Turn
  <2> QED BY <2>3, <2>5, <2>6, TurnKeeps
<1>8. CASE store[r.id] # None
  <2> DEFINE h == Publishing(RemoveEvent(r), rest)
  <2>1. /\ h \in Work /\ Copies(h) = rest /\ h.pc = "publish" /\ h.event.slug = r.slug
        /\ Means(h.event) = None /\ Effective(h.event)
    BY <1>1, <1>3, Ways DEF Means, RemoveEvent, Effective
  <2>2. handler' = [handler EXCEPT ![a] = h]
    BY <1>1, <1>8
  <2> HIDE DEF h
  <2>3. /\ Stored' /\ SlugStays
        /\ \A t \in Slug \ {r.slug} : Stable(t)
        /\ Wants(store', r.slug, None)
    BY <1>1, <1>2, <1>3, <1>8, WriteBack
  <2>4. Typed'
    BY <1>2, <1>6, <2>1, <2>2, <2>3, TypedMove DEF PInv
  <2>5. Turn(a, h)
    BY <1>2, <1>4, <1>6, <2>1, <2>2, <2>3 DEF Turn, About
  <2> QED BY <2>1, <2>4, <2>5, TurnKeeps
<1> QED BY <1>7, <1>8

-----------------------------------------------------------------------------
(* The bus and the gateway. *)

(* The queue and the event published next: the last word is the new one. *)
LEMMA Appended ==
    ASSUME queue \in Seq(Event), NEW e \in Event, queue' = Append(queue, e),
           UNCHANGED <<store, gateway, snapshot, catalog>>,
           NEW s \in Slug,
           IF About(e, s) THEN Wants(store, s, Means(e)) ELSE InLine(s)
    PROVE  InLine(s)'
<1> DEFINE n == Len(queue)
<1>1. /\ n \in Nat /\ Len(queue') = n + 1 /\ queue'[n + 1] = e
      /\ \A i \in 1..n : i \in 1..(n + 1) /\ queue'[i] = queue[i]
  OBVIOUS
<1>0. \A x : About(x, s)' <=> About(x, s)
  BY DEF About, Effective
<1> HIDE DEF n
<1>2. 1..Len(queue) = 1..n /\ 1..Len(queue') = 1..(n + 1)
  BY <1>1 DEF n
<1>3. \A i \in 1..(n + 1) : i = n + 1 \/ i \in 1..n
  BY <1>1
<1>4. CASE About(e, s)
  <2>1. \A i \in 1..(n + 1) : Last(i, s)' => i = n + 1
    BY <1>1, <1>2, <1>3, <1>4 DEF Last
  <2>2. ~(\A i \in 1..(n + 1) : ~About(queue'[i], s))
    BY <1>1, <1>4
  <2> QED BY <1>1, <1>2, <1>4, <2>1, <2>2 DEF InLine
<1>5. CASE ~About(e, s)
  <2>1. \A i \in 1..(n + 1) : Last(i, s)' => i \in 1..n /\ Last(i, s)
    BY <1>1, <1>2, <1>3, <1>5 DEF Last
  <2>2. (\A i \in 1..(n + 1) : ~About(queue'[i], s)) => \A i \in 1..n : ~About(queue[i], s)
    BY <1>1
  <2>3. Has(s) => Has(s)'
    BY DEF Has, Applied
  <2> QED BY <1>1, <1>2, <1>5, <2>1, <2>2, <2>3 DEF InLine
<1> QED BY <1>4, <1>5

LEMMA PublishKeeps ==
    ASSUME PInv, NEW a \in Admin, Publish(a) PROVE PInv'
<1>1. PICK e, R : e = handler[a].event /\ R = handler[a].rest
  OBVIOUS
<1> DEFINE h == Purging(R)
<1>2. /\ handler[a].pc = "publish" /\ handler' = [handler EXCEPT ![a] = h]
      /\ UNCHANGED <<store, used, ops, gateway, snapshot, catalog, restarts>>
      /\ amiss \subseteq amiss' /\ amiss' \subseteq amiss \union {"bus", "gap"}
      /\ \/ gateway = "up" /\ queue' = Append(queue, e) /\ amiss' = amiss
         \/ queue' = queue /\ ("bus" \in amiss' \/ "gap" \in amiss')
  BY <1>1 DEF Publish
<1>3. /\ Types /\ Stored /\ AllKnown
      /\ e \in Event /\ R \subseteq Row /\ Copies(handler[a]) = R
  BY <1>1, <1>2, WorkPc DEF PInv, Typed, Types, Copies, RowPc
<1>4. h \in Work /\ Copies(h) = R /\ h.pc # "publish"
  BY <1>3, Ways
<1> HIDE DEF h
<1>5. handler'[a] = h /\ \A b \in Admin : b # a => handler'[b] = handler[b]
  BY <1>2, <1>3 DEF Types
<1>6. Types'
  <2>1. queue' \in Seq(Event)
    BY <1>2, <1>3 DEF Types
  <2>2. handler' \in [Admin -> Work]
    BY <1>2, <1>3, <1>4 DEF Types
  <2> QED BY <1>2, <1>3, <2>1, <2>2 DEF Types, Causes
<1>7. Stored' /\ Rows' = Rows /\ \A r : Known(r)' <=> Known(r)
  BY <1>2, <1>3 DEF Stored, OneId, Rows, Known
<1>8. AllKnown'
  <2>1. \A b \in Admin : Copies(handler'[b]) = Copies(handler[b])
    BY <1>3, <1>4, <1>5
  <2> QED BY <1>3, <1>7, <2>1 DEF AllKnown, Copies
<1>9. Sole'
  <2>1. \A b \in Admin : Copies(handler'[b]) = Copies(handler[b])
    BY <1>3, <1>4, <1>5
  <2>2. \A b \in Admin : handler'[b] # Idle => handler[b] # Idle
    BY <1>2, <1>5, Ways
  <2>3. "overlap" \notin amiss' => "overlap" \notin amiss
    BY <1>2
  <2>4. \A b : Copies(handler[b])' = Copies(handler'[b])
    BY DEF Copies
  <2> QED BY <1>7, <2>1, <2>2, <2>3, <2>4 DEF Sole, PInv
<1>10. Truthful'
  BY <1>2, <1>4, <1>5 DEF Truthful, PInv, Clean
<1>11. OnTrack'
  <2> SUFFICES ASSUME amiss' = {}, NEW s \in Slug PROVE InLine(s)'
    BY DEF OnTrack
  <2>1. amiss = {} /\ gateway = "up" /\ queue' = Append(queue, e) /\ Clean
    BY <1>2 DEF Clean
  <2>2. \A b \in Admin : b # a => handler[b] = Idle
    BY <1>2, <2>1, Ways DEF PInv, Sole
  <2>3. Effective(e) => Wants(store, e.slug, Means(e))
    BY <1>1, <1>2, <2>1 DEF PInv, Truthful
  <2>4. ~About(e, s) => InLine(s)
    BY <1>1, <2>1, <2>2, Ways DEF PInv, OnTrack, Told
  <2> QED BY <1>2, <1>3, <2>1, <2>3, <2>4, Appended DEF Types, About
<1> QED BY <1>6, <1>7, <1>8, <1>9, <1>10, <1>11 DEF PInv, Typed

(* A step of the gateway that forgets nothing about the requests at work. *)
LEMMA GatewayMove ==
    ASSUME PInv, UNCHANGED control, Types',
           \/ AllIdle
           \/ /\ "overlap" \in amiss => "overlap" \in amiss'
              /\ "forced" \in amiss => "forced" \in amiss'
    PROVE  Typed' /\ Sole' /\ Truthful'
<1>1. Stored' /\ AllKnown' /\ Rows' = Rows
  BY DEF PInv, Typed, Stored, OneId, AllKnown, Known, Copies, Rows, control
<1>2. CASE AllIdle
  BY <1>1, <1>2, Ways DEF AllIdle, Typed, Sole, Truthful, Copies, control
<1>3. CASE /\ "overlap" \in amiss => "overlap" \in amiss'
           /\ "forced" \in amiss => "forced" \in amiss'
  BY <1>1, <1>3 DEF Typed, Sole, Truthful, Clean, Copies, PInv, control
<1> QED BY <1>2, <1>3

LEMMA DeliverKeeps ==
    ASSUME PInv, Deliver PROVE PInv'
<1>1. PICK e : e = Head(queue)
  OBVIOUS
<1>2. /\ gateway = "up" /\ queue # <<>> /\ queue' = Tail(queue)
      /\ catalog' = IF Effective(e) THEN [catalog EXCEPT ![e.slug] = Means(e)] ELSE catalog
      /\ UNCHANGED <<control, gateway, snapshot, amiss>>
  BY <1>1 DEF Deliver, Means
<1>3. Types /\ e \in Event
  BY <1>1, <1>2 DEF PInv, Typed, Types
<1>4. e.slug \in Slug /\ Means(e) \in [id : Id, cfg : Cfg] \union {None}
  BY <1>3 DEF Event, Means
<1>5. Types'
  BY <1>2, <1>3, <1>4 DEF Types, control
<1>6. OnTrack'
  <2> SUFFICES ASSUME amiss = {}, NEW s \in Slug, InLine(s) PROVE InLine(s)'
    BY <1>2 DEF PInv, OnTrack, Told, control
  <2> DEFINE n == Len(queue)
  <2>1. /\ n \in Nat /\ n > 0 /\ Len(queue') = n - 1 /\ queue[1] = e
        /\ \A i \in 1..(n - 1) : queue'[i] = queue[i + 1]
    BY <1>1, <1>2, <1>3 DEF Types
  <2> HIDE DEF n
  <2>2. 1..Len(queue) = 1..n /\ 1..Len(queue') = 1..(n - 1)
    BY <2>1 DEF n
  <2>3. /\ \A i \in 1..(n - 1) : i + 1 \in 1..n
        /\ \A j \in 1..n : j = 1 \/ (j - 1 \in 1..(n - 1) /\ queue'[j - 1] = queue[j])
    BY <2>1
  <2>4. \A v : Wants(store', s, v) <=> Wants(store, s, v)
    BY <1>2 DEF Wants, On, control
  <2>5. \A i \in 1..(n - 1) : Last(i, s)' => Last(i + 1, s)
    <3> SUFFICES ASSUME NEW i \in 1..(n - 1), Last(i, s)',
                        NEW j \in 1..n, j > i + 1
                 PROVE  ~About(queue[j], s)
      BY <2>1, <2>2, <2>3 DEF Last
    <3>1. j - 1 \in 1..(n - 1) /\ j - 1 > i /\ queue'[j - 1] = queue[j]
      BY <2>1
    <3> QED BY <2>2, <3>1 DEF Last
  <2>6. (\A i \in 1..(n - 1) : ~About(queue'[i], s)) => Has(s)'
    <3> SUFFICES ASSUME \A i \in 1..(n - 1) : ~About(queue'[i], s) PROVE Has(s)'
      OBVIOUS
    <3>1. \A j \in 1..n : j # 1 => ~About(queue[j], s)
      BY <2>3
    <3>2. CASE About(e, s)
      <4>1. Last(1, s)
        BY <2>1, <2>2, <3>1, <3>2 DEF Last
      <4>2. Wants(store, s, Means(e))
        BY <2>1, <2>2, <4>1 DEF InLine
      <4>3. catalog'[s] = Means(e)
        BY <1>2, <1>3, <1>4, <3>2 DEF Types, About
      <4> QED BY <1>2, <2>4, <4>2, <4>3 DEF Has
    <3>3. CASE ~About(e, s)
      <4>1. Has(s)
        BY <2>1, <2>2, <3>1, <3>3 DEF InLine
      <4>2. catalog'[s] = catalog[s]
        BY <1>2, <1>3, <1>4, <3>3 DEF Types, About
      <4> QED BY <1>2, <2>4, <4>1, <4>2 DEF Has
    <3> QED BY <3>2, <3>3
  <2>7. \A i \in 1..(n - 1) : Last(i, s)' => Wants(store', s, Means(queue'[i]))
    BY <2>1, <2>2, <2>3, <2>4, <2>5 DEF InLine
  <2> QED BY <2>2, <2>6, <2>7 DEF InLine, Means
<1> QED BY <1>2, <1>5, <1>6, GatewayMove DEF PInv

LEMMA StopKeeps ==
    ASSUME PInv, Stop PROVE PInv'
<1>1. Types'
  BY DEF PInv, Typed, Types, Stop, control
<1>2. gateway' = "down" /\ UNCHANGED <<control, amiss>>
  BY DEF Stop
<1>3. OnTrack'
  BY <1>2 DEF OnTrack
<1> QED BY <1>1, <1>2, <1>3, GatewayMove DEF PInv

LEMMA ReconcileReadKeeps ==
    ASSUME PInv, ReconcileRead PROVE PInv'
<1>1. /\ gateway' = "read" /\ snapshot' = {r \in Rows : r.enabled}
      /\ amiss' = StillAmiss /\ UNCHANGED <<control, catalog, queue>>
      /\ queue = <<>> /\ Stored
  BY DEF ReconcileRead, PInv, Typed, Types
<1>2. /\ amiss' \subseteq amiss
      /\ \/ AllIdle
         \/ /\ "overlap" \in amiss => "overlap" \in amiss'
            /\ "forced" \in amiss => "forced" \in amiss'
  BY <1>1 DEF StillAmiss
<1>3. snapshot' \subseteq Row
  BY <1>1, RowsAre
<1>4. Types'
  BY <1>1, <1>2, <1>3 DEF PInv, Typed, Types, control
<1>5. \A s \in Slug : InLine(s)'
  <2> SUFFICES ASSUME NEW s \in Slug PROVE Has(s)'
    BY <1>1 DEF InLine
  <2>1. store' = store
    BY <1>1 DEF control
  <2>2. ASSUME NEW r \in Applied', r.slug = s PROVE Wants(store', s, Offer(r))
    <3>1. r \in Rows /\ r.enabled /\ r.cfg \in Supported
      BY <1>1, <2>2 DEF Applied, Effective, UpsertEvent
    <3>2. r \in Row /\ r # None /\ r.id \in Id /\ store[r.id] = r
      BY <1>1, <3>1, RowsAre, PropagationAssumption DEF Row
    <3> QED BY <2>1, <2>2, <3>1, <3>2 DEF Wants, On, Offer
  <2>3. ASSUME \A r \in Applied' : r.slug # s PROVE Wants(store', s, None)
    <3>1. ASSUME NEW id \in Id, On(store, id, s), store[id].cfg \in Supported PROVE FALSE
      <4>1. store[id] \in Rows /\ store[id].enabled /\ store[id].slug = s
        BY <3>1 DEF On, Rows
      <4> QED BY <1>1, <2>3, <3>1, <4>1 DEF Applied, Effective, UpsertEvent
    <3> QED BY <2>1, <3>1 DEF Wants
  <2> QED BY <1>1, <2>2, <2>3 DEF Has, Offer
<1>6. OnTrack'
  BY <1>5 DEF OnTrack
<1> QED BY <1>1, <1>2, <1>4, <1>6, GatewayMove DEF PInv

LEMMA ReconcileFailKeeps ==
    ASSUME PInv, ReconcileFail PROVE PInv'
<1>1. /\ gateway' = "reconciled" /\ amiss' = StillAmiss \union {"store"}
      /\ UNCHANGED <<control, snapshot, catalog, queue>>
      /\ queue = <<>>
  BY DEF ReconcileFail, PInv, Typed, Types
<1>2. /\ amiss' \subseteq Causes /\ amiss' # {}
      /\ \/ AllIdle
         \/ /\ "overlap" \in amiss => "overlap" \in amiss'
            /\ "forced" \in amiss => "forced" \in amiss'
  BY <1>1 DEF StillAmiss, PInv, Typed, Types, Causes
<1>3. Types'
  BY <1>1, <1>2 DEF PInv, Typed, Types, control
<1>4. OnTrack'
  BY <1>2 DEF OnTrack
<1> QED BY <1>1, <1>2, <1>3, <1>4, GatewayMove DEF PInv

LEMMA ReconcileApplyKeeps ==
    ASSUME PInv, ReconcileApply PROVE PInv'
<1>1. /\ gateway = "read" /\ gateway' = "reconciled" /\ snapshot' = {}
      /\ UNCHANGED <<control, queue, amiss>> /\ queue = <<>>
      /\ Types
  BY DEF ReconcileApply, PInv, Typed, Types
<1>2. \A s \in Slug :
        \/ \E r \in Applied : r.slug = s /\ catalog'[s] = Offer(r)
        \/ (\A r \in Applied : r.slug # s) /\ catalog'[s] = None
  <2> SUFFICES ASSUME NEW s \in Slug
               PROVE  \/ \E r \in Applied : r.slug = s /\ catalog'[s] = Offer(r)
                      \/ (\A r \in Applied : r.slug # s) /\ catalog'[s] = None
    OBVIOUS
  <2>1. catalog'[s] = IF \E r \in Applied : r.slug = s
                      THEN Offer(CHOOSE r \in Applied : r.slug = s) ELSE None
    BY DEF ReconcileApply
  <2> QED BY <2>1
<1>3. Types'
  <2>1. \A r \in Applied : Offer(r) \in [id : Id, cfg : Cfg]
    BY <1>1 DEF Types, Row, Offer, Applied
  <2>2. catalog' = [s \in Slug |-> catalog'[s]]
    BY DEF ReconcileApply
  <2>3. catalog' \in [Slug -> [id : Id, cfg : Cfg] \union {None}]
    BY <1>2, <2>1, <2>2
  <2> QED BY <1>1, <2>3 DEF Types, control
<1>4. OnTrack'
  <2> SUFFICES ASSUME amiss = {}, NEW s \in Slug, InLine(s) PROVE InLine(s)'
    BY <1>1 DEF PInv, OnTrack, Told, control
  <2>1. Has(s) /\ store' = store
    BY <1>1 DEF InLine, control
  <2>2. Wants(store', s, catalog'[s])
    BY <1>1, <1>2, <2>1 DEF Has
  <2> QED BY <1>1, <2>2 DEF InLine, Has
<1> QED BY <1>1, <1>3, <1>4, GatewayMove DEF PInv

LEMMA SubscribeKeeps ==
    ASSUME PInv, SubscribeServers PROVE PInv'
<1>1. /\ gateway = "reconciled" /\ gateway' = "up"
      /\ UNCHANGED <<control, snapshot, catalog, queue, amiss>>
  BY DEF SubscribeServers
<1>2. Types'
  BY <1>1 DEF PInv, Typed, Types, control
<1>3. OnTrack'
  BY <1>1 DEF PInv, OnTrack, Told, InLine, Last, Has, Applied, About, control
<1> QED BY <1>1, <1>2, <1>3, GatewayMove DEF PInv

-----------------------------------------------------------------------------
LEMMA InitHolds == Init => PInv
<1> SUFFICES ASSUME Init PROVE PInv
  OBVIOUS
<1> USE DEF Init
<1>1. Types
  BY Ways DEF Types
<1>2. Stored
  BY DEF Stored, OneId
<1>3. AllKnown /\ Sole /\ Truthful
  BY Ways DEF AllKnown, Sole, Truthful
<1>4. OnTrack
  BY DEF OnTrack, InLine, Has, Wants, On
<1> QED BY <1>1, <1>2, <1>3, <1>4 DEF PInv, Typed

LEMMA Kept == PInv /\ [Next]_vars => PInv'
<1> SUFFICES ASSUME PInv, [Next]_vars PROVE PInv'
  OBVIOUS
<1>1. ASSUME NEW a \in Admin, Create(a) PROVE PInv'
  BY <1>1, CreateKeeps
<1>2. ASSUME NEW a \in Admin, Get(a) PROVE PInv'
  BY <1>2, GetKeeps
<1>3. ASSUME NEW a \in Admin, PurgeList(a) PROVE PInv'
  BY <1>3, PurgeListKeeps
<1>4. ASSUME NEW a \in Admin, Handle(a) PROVE PInv'
  BY <1>4, PatchKeeps, DeleteKeeps, PutCredKeeps, DeleteCredKeeps,
     PurgeOneKeeps, PublishKeeps DEF Handle
<1>5. CASE Deliver
  BY <1>5, DeliverKeeps
<1>6. CASE Stop
  BY <1>6, StopKeeps
<1>7. CASE Start
  BY <1>7, ReconcileReadKeeps, ReconcileFailKeeps, ReconcileApplyKeeps,
     SubscribeKeeps DEF Start
<1>8. CASE UNCHANGED vars
  <2>1. UNCHANGED <<control, gateway, snapshot, catalog, queue, amiss>>
    BY <1>8 DEF vars, control
  <2>2. Types'
    BY <2>1 DEF PInv, Typed, Types, control
  <2>3. OnTrack'
    BY <2>1 DEF PInv, OnTrack, Told, InLine, Last, Has, Applied, About, control
  <2> QED BY <2>1, <2>2, <2>3, GatewayMove DEF PInv
<1> QED BY <1>1, <1>2, <1>3, <1>4, <1>5, <1>6, <1>7, <1>8 DEF Next

(* Between the read of a row, its write and the event, with events queued,
   lost or missed by a gateway that starts, the last word about every slug
   stays what the store has, as far as nothing is amiss; an upsert of a type
   the gateway does not know is no word
   (handlers.go:63-200, server.go:145-200, cmd/gateway/main.go:33-45). *)
THEOREM Invariance == Spec => []PInv
BY InitHolds, Kept, PTL DEF Spec

(* Every row stays under its id and no id is handed out twice, whatever
   handlers write back (store.go:81-131, postgres.go:110-190). *)
THEOREM TypesAlways == Spec => []TypeOK
<1>1. PInv => TypeOK
  BY DEF PInv, Typed, Types, Stored, TypeOK, Causes
<1> QED BY <1>1, Invariance, PTL

(* One slug never names two servers, though a handler may write back a row
   that was deleted, and another created under the slug, since it was read
   (store.go:81-131, postgres.go:110-190). *)
THEOREM SlugsAlwaysUnique == Spec => []OneRowPerSlug
<1>1. PInv => OneRowPerSlug
  BY RowsAre, PropagationAssumption DEF PInv, Typed, Stored, OneId, OneRowPerSlug, Row
<1> QED BY <1>1, Invariance, PTL

(* When all is quiet and nothing went amiss since its last reconcile, the
   gateway offers exactly the enabled servers, each with its configuration,
   and of one whose type it does not know nothing or what it offered before
   (cmd/gateway/main.go:33-45, handlers.go:63-200). *)
THEOREM CatalogAgrees == Spec => []AgreesUnlessAmiss
<1>1. ASSUME PInv, Quiet, amiss = {}, NEW s \in Slug
      PROVE  /\ EnabledAs(s) = {} => catalog[s] = None
             /\ \A r \in EnabledAs(s) :
                   IF r.cfg \in Supported THEN catalog[s] = Offer(r)
                   ELSE catalog[s] = None \/ catalog[s].id = r.id
  <2>1. gateway = "up" /\ queue = <<>> /\ Stored /\ ~Told(s)
    BY <1>1, Ways DEF Quiet, AllIdle, PInv, Typed, Told
  <2>2. Wants(store, s, catalog[s])
    BY <1>1, <2>1 DEF PInv, OnTrack, InLine, Has
  <2>3. \A r \in Rows : /\ r \in Row /\ r # None /\ r.id \in Id /\ store[r.id] = r
    BY <2>1, RowsAre, PropagationAssumption DEF Row
  <2>4. ASSUME NEW q \in EnabledAs(s)
        PROVE  IF q.cfg \in Supported THEN catalog[s] = Offer(q)
               ELSE catalog[s] = None \/ catalog[s].id = q.id
    <3>1. On(store, q.id, s) /\ q.id \in Id /\ store[q.id] = q
      BY <2>3, <2>4 DEF On, EnabledAs
    <3>2. ASSUME NEW id \in Id, On(store, id, s) PROVE id = q.id
      BY <2>1, <3>1, <3>2 DEF On, Stored, OneId
    <3> QED BY <2>2, <3>1, <3>2 DEF Wants, Offer
  <2>5. ASSUME EnabledAs(s) = {} PROVE catalog[s] = None
    <3>1. \A id \in Id : ~On(store, id, s)
      BY <2>5 DEF On, Rows, EnabledAs
    <3> QED BY <2>2, <3>1 DEF Wants
  <2> QED BY <2>4, <2>5
<1>2. PInv => AgreesUnlessAmiss
  BY <1>1 DEF AgreesUnlessAmiss, Agrees
<1> QED BY <1>2, Invariance, PTL

-----------------------------------------------------------------------------
(* Quota. *)

Requests ==
    [pc : {"idle"}] \union [pc : {"org", "user"}, at : Replica, org : Org, user : User]
        \union [pc : {"denied"}, excess : BOOLEAN]

Buckets == [start : Index, count : Nat]
Counters == [count : Nat, until : Nat]
Tallies == [asked : Nat, passed : Nat, open : Nat]

QuotaTypes ==
    /\ now \in 0..MaxTime /\ ahead \in [Replica -> Ahead] /\ sets \in Nat
    /\ bucket \in [Replica -> [Scope -> Buckets]]
    /\ counter \in [Scope -> [Index -> Counters]]
    /\ tally \in [Scope -> [Index -> Tallies]]

(* What a limiter has counted was asked in that window. *)
Counted ==
    /\ \A p \in Replica, s \in Scope :
         /\ bucket[p][s].count <= LimitOf(s)
         /\ bucket[p][s].count <= tally[s][bucket[p][s].start].asked
    /\ \A s \in Scope, i \in Index : counter[s][i].count <= tally[s][i].asked

(* The time at which a clock that is right enters a window. *)
Opens(i) == i * Window

(* The counter k of window i at time n: it lives until its TTL is over, and
   that is after the window opened; *)
Live(k, i, n) == k.count > 0 => n < k.until /\ Opens(i) < k.until

(* what passed was counted by it, its predecessor is gone, it is the second
   one, or that is gone too and the window over on every clock. *)
Phase(k, i, n, passed, limit) ==
    \/ passed <= k.count /\ passed <= limit
    \/ k.count = 0 /\ passed <= limit /\ Opens(i) < n
    \/ /\ k.count > 0 /\ passed <= limit + k.count /\ passed <= 2 * limit
       /\ Opens(i) + Window < k.until
    \/ k.count = 0 /\ passed <= 2 * limit /\ Opens(i) + Window < n

(* Clocks that agree leave the window before its counter expires. *)
OneClock(k, i, n, passed, limit) ==
    \/ /\ passed <= k.count /\ passed <= limit
       /\ k.count > 0 => \A p \in Replica : Opens(i) + Window <= k.until + ahead[p]
    \/ /\ k.count = 0 /\ passed <= limit
       /\ \A p \in Replica : Opens(i) + Window <= n + ahead[p]

InRedis ==
    backend = "redis" => \A s \in Scope, i \in Index :
        /\ Live(counter[s][i], i, now)
        /\ Phase(counter[s][i], i, now, tally[s][i].passed, LimitOf(s))
        /\ ~Apart => OneClock(counter[s][i], i, now, tally[s][i].passed, LimitOf(s))

(* How many calls a replica in window w with bucket b can still let through in
   window i, unless its clock is set back, ... *)
Left(b, w, i, limit) ==
    IF w > i THEN 0 ELSE IF w = i /\ b.start = i THEN limit - b.count ELSE limit
LeftOf(s, i) == [p \in Replica |-> Left(bucket[p][s], WindowAt(p), i, LimitOf(s))]

(* ... as a set, whose cardinality is their sum over the replicas. *)
Below(f, limit) == {x \in Replica \X (1..limit) : x[2] <= f[x[1]]}

InMemory ==
    backend # "redis" => \A s \in Scope, i \in Index :
        tally[s][i].passed + Cardinality(Below(LeftOf(s, i), LimitOf(s)))
            <= (Cardinality(Replica) + sets) * LimitOf(s)

Limited == QuotaTypes /\ Counted /\ InRedis /\ InMemory
QuotaInv == Limited /\ call \in [Call -> Requests] /\ OwnCallsOnly

-----------------------------------------------------------------------------
(* Arithmetic of windows. *)
LEMMA Limits == \A s \in Scope : LimitOf(s) \in Nat /\ LimitOf(s) >= 1
BY QuotaAssumption DEF LimitOf

LEMMA Multiples ==
    ASSUME NEW a \in Nat, NEW b \in Nat, a < b, NEW w \in Nat
    PROVE  a * w + w <= b * w /\ a * w \in Nat
<1>1. PICK d \in Nat : b = a + 1 + d
  <2>1. b - a - 1 \in Nat /\ b = a + 1 + (b - a - 1)
    OBVIOUS
  <2> QED BY <2>1
<1>2. (a + 1 + d) * w = a * w + w + d * w
  OBVIOUS
<1>3. d * w \in Nat /\ a * w \in Nat
  OBVIOUS
<1>4. b * w = a * w + w + d * w
  BY <1>1, <1>2
<1> QED BY <1>3, <1>4

LEMMA Quotients ==
    ASSUME NEW x \in Nat
    PROVE  /\ x \div Window \in Nat
           /\ Opens(x \div Window) <= x /\ x < Opens(x \div Window) + Window
           /\ Opens(x \div Window) \in Nat
<1>1. Window \in Nat /\ Window > 0
  BY QuotaAssumption
<1>2. PICK q : q = x \div Window
  OBVIOUS
<1>3. q \in Nat /\ q * Window <= x /\ x < q * Window + Window /\ q * Window \in Nat
  BY <1>1, <1>2
<1> QED BY <1>2, <1>3 DEF Opens

LEMMA OpensNat == \A i \in Nat : Opens(i) \in Nat
BY QuotaAssumption DEF Opens

LEMMA Quotiented ==
    ASSUME NEW x \in Nat, NEW y \in Nat, x <= y PROVE x \div Window <= y \div Window
<1>1. PICK q : q = x \div Window
  OBVIOUS
<1>2. PICK r : r = y \div Window
  OBVIOUS
<1>3. /\ q \in Nat /\ r \in Nat /\ Window \in Nat
      /\ Opens(q) <= x /\ y < Opens(r) + Window /\ Opens(q) \in Nat /\ Opens(r) \in Nat
  BY <1>1, <1>2, Quotients, QuotaAssumption
<1>4. ASSUME r < q PROVE FALSE
  <2>1. Opens(r) + Window <= Opens(q)
    BY <1>3, <1>4, Multiples DEF Opens
  <2> QED BY <1>3, <2>1
<1>5. q <= r
  BY <1>3, <1>4
<1> QED BY <1>1, <1>2, <1>5

LEMMA IndexNat == Index \subseteq Nat /\ 0 \in Index
<1>1. MaxTime + Window \in Nat
  BY QuotaAssumption
<1>2. (MaxTime + Window) \div Window \in Nat
  BY <1>1, Quotients
<1> QED BY <1>2 DEF Index

(* A replica is in a window that its clock has opened and not yet left. *)
LEMMA InWindow ==
    ASSUME QuotaTypes, NEW p \in Replica
    PROVE  /\ WindowAt(p) \in Index /\ ahead[p] \in Nat /\ ahead[p] < Window
           /\ Opens(WindowAt(p)) \in Nat /\ Opens(WindowAt(p)) <= now + ahead[p]
           /\ now + ahead[p] < Opens(WindowAt(p)) + Window
<1>1. ahead[p] \in 0..(Window - 1) /\ now \in 0..MaxTime /\ Window \in Nat /\ MaxTime \in Nat
  BY QuotaAssumption DEF QuotaTypes
<1>2. PICK x : x = now + ahead[p]
  OBVIOUS
<1>3. x \in Nat /\ MaxTime + Window \in Nat /\ x <= MaxTime + Window
  BY <1>1, <1>2
<1>4. /\ x \div Window \in Nat /\ (MaxTime + Window) \div Window \in Nat
      /\ x \div Window <= (MaxTime + Window) \div Window
  BY <1>3, Quotients, Quotiented
<1>5. WindowAt(p) = x \div Window
  BY <1>2 DEF WindowAt
<1>6. WindowAt(p) \in Index
  BY <1>4, <1>5 DEF Index
<1>7. Opens(WindowAt(p)) \in Nat /\ Opens(WindowAt(p)) <= x /\ x < Opens(WindowAt(p)) + Window
  BY <1>3, <1>5, Quotients
<1> QED BY <1>1, <1>2, <1>6, <1>7

-----------------------------------------------------------------------------
(* The chances of the replicas, as numbers and as a set. *)
LEMMA UpTo ==
    ASSUME NEW limit \in Nat
    PROVE  IsFiniteSet(1..limit) /\ Cardinality(1..limit) = limit
BY FS_Interval

LEMMA Replicas == Cardinality(Replica) \in Nat
BY FS_CardinalityType, QuotaAssumption

LEMMA BelowFinite ==
    ASSUME NEW limit \in Nat, NEW f
    PROVE  /\ IsFiniteSet(Replica \X (1..limit)) /\ IsFiniteSet(Below(f, limit))
           /\ Cardinality(Below(f, limit)) \in Nat
           /\ Cardinality(Below(f, limit)) <= Cardinality(Replica) * limit
<1>1. IsFiniteSet(1..limit) /\ Cardinality(1..limit) = limit
  BY UpTo
<1>2. /\ IsFiniteSet(Replica \X (1..limit))
      /\ Cardinality(Replica \X (1..limit)) = Cardinality(Replica) * limit
  BY <1>1, FS_Product, QuotaAssumption
<1>3. Below(f, limit) \subseteq Replica \X (1..limit)
  BY DEF Below
<1>4. /\ IsFiniteSet(Below(f, limit))
      /\ Cardinality(Below(f, limit)) <= Cardinality(Replica \X (1..limit))
  BY <1>2, <1>3, FS_Subset
<1> QED BY <1>2, <1>4, FS_CardinalityType, QuotaAssumption

LEMMA BelowGrows ==
    ASSUME NEW limit \in Nat, NEW f \in [Replica -> Nat], NEW g \in [Replica -> Nat],
           \A p \in Replica : f[p] <= g[p]
    PROVE  Cardinality(Below(f, limit)) <= Cardinality(Below(g, limit))
<1>1. Below(f, limit) \subseteq Below(g, limit)
  <2> SUFFICES ASSUME NEW x \in Replica \X (1..limit), x[2] <= f[x[1]]
               PROVE  x[2] <= g[x[1]]
    BY DEF Below
  <2>1. x[1] \in Replica /\ x[2] \in Nat
    OBVIOUS
  <2> QED BY <2>1
<1> QED BY <1>1, FS_Subset, BelowFinite

(* A chance that is used is one less ... *)
LEMMA BelowDrops ==
    ASSUME NEW limit \in Nat, NEW f \in [Replica -> Nat], NEW g \in [Replica -> Nat],
           NEW p \in Replica, g[p] \in 1..limit, f[p] = g[p] - 1,
           \A q \in Replica \ {p} : f[q] = g[q]
    PROVE  Cardinality(Below(f, limit)) = Cardinality(Below(g, limit)) - 1
<1>1. <<p, g[p]>> \in Below(g, limit)
  BY DEF Below
<1>2. Below(f, limit) = Below(g, limit) \ {<<p, g[p]>>}
  <2>1. ASSUME NEW x \in Replica \X (1..limit)
        PROVE  x[2] <= f[x[1]] <=> x[2] <= g[x[1]] /\ x # <<p, g[p]>>
    <3>1. /\ x[1] \in Replica /\ x[2] \in Nat /\ x = <<x[1], x[2]>>
      OBVIOUS
    <3>2. CASE x[1] # p
      BY <3>1, <3>2
    <3>3. CASE x[1] = p
      <4>1. x = <<p, g[p]>> <=> x[2] = g[p]
        BY <3>1, <3>3
      <4> QED BY <3>1, <3>3, <4>1
    <3> QED BY <3>2, <3>3
  <2> QED BY <2>1 DEF Below
<1> QED BY <1>1, <1>2, FS_RemoveElement, BelowFinite

(* ... and a replica whose clock is set back has at most limit new ones. *)
LEMMA BelowRises ==
    ASSUME NEW limit \in Nat, NEW f \in [Replica -> Nat], NEW g \in [Replica -> Nat],
           NEW p \in Replica, \A q \in Replica \ {p} : f[q] = g[q]
    PROVE  Cardinality(Below(f, limit)) <= Cardinality(Below(g, limit)) + limit
<1>0. IsFiniteSet(1..limit) /\ Cardinality(1..limit) = limit
  BY UpTo
<1> DEFINE Own == {p} \X (1..limit)
<1>1. IsFiniteSet(Own) /\ Cardinality(Own) = limit
  <2>2. IsFiniteSet({p}) /\ Cardinality({p}) = 1
    BY FS_Singleton
  <2>3. IsFiniteSet(Own) /\ Cardinality(Own) = 1 * limit
    BY <1>0, <2>2, FS_Product
  <2> QED BY <2>3
<1>2. Below(f, limit) \subseteq Below(g, limit) \union Own
  <2> SUFFICES ASSUME NEW x \in Replica \X (1..limit), x[2] <= f[x[1]], x \notin Own
               PROVE  x[2] <= g[x[1]]
    BY DEF Below
  <2>1. x[1] \in Replica \ {p}
    OBVIOUS
  <2> QED BY <2>1
<1> HIDE DEF Own
<1>3. PICK b : b = Below(g, limit)
  OBVIOUS
<1>4. /\ IsFiniteSet(b) /\ IsFiniteSet(b \union Own) /\ Cardinality(b) \in Nat
      /\ Cardinality(b \union Own) <= Cardinality(b) + limit
  <2>1. IsFiniteSet(b) /\ Cardinality(b) \in Nat
    BY <1>3, BelowFinite
  <2>2. /\ IsFiniteSet(b \union Own) /\ IsFiniteSet(b \intersect Own)
        /\ Cardinality(b \union Own)
             = Cardinality(b) + Cardinality(Own) - Cardinality(b \intersect Own)
    BY <1>1, <2>1, FS_Union, FS_Intersection
  <2>3. Cardinality(b \intersect Own) \in Nat
    BY <2>2, FS_CardinalityType
  <2> QED BY <1>1, <2>1, <2>2, <2>3
<1>5. Cardinality(Below(f, limit)) <= Cardinality(b \union Own)
  BY <1>2, <1>3, <1>4, FS_Subset
<1>6. Cardinality(Below(f, limit)) \in Nat /\ Cardinality(b \union Own) \in Nat
  BY <1>4, BelowFinite, FS_CardinalityType
<1> QED BY <1>3, <1>4, <1>5, <1>6

LEMMA LeftBounds ==
    ASSUME NEW b \in Buckets, NEW w \in Nat, NEW i \in Nat, NEW limit \in Nat, b.count <= limit
    PROVE  Left(b, w, i, limit) \in Nat /\ Left(b, w, i, limit) <= limit
BY DEF Left, Buckets
-----------------------------------------------------------------------------
(* What one counter of Redis goes through. *)
LEMMA PhaseOfIncr ==
    ASSUME NEW k \in Counters, NEW h \in Counters, NEW i \in Nat, NEW n \in Nat,
           NEW passed \in Nat, NEW limit \in Nat, limit >= 1,
           Live(k, i, n), Phase(k, i, n, passed, limit),
           Opens(i) < n + Window, n < Opens(i) + Window,
           h.count = k.count + 1, h.until = IF k.count = 0 THEN n + Window ELSE k.until,
           NEW more \in {0, 1}, more = 1 => h.count <= limit
    PROVE  Live(h, i, n) /\ Phase(h, i, n, passed + more, limit)
<1>1. PICK o \in Nat : o = Opens(i)
  BY OpensNat
<1>2. PICK c \in Nat, u \in Nat : c = k.count /\ u = k.until
  BY DEF Counters
<1>3. Window \in Nat /\ Window >= 1
  BY QuotaAssumption
<1>4. Live(h, i, n)
  BY <1>1, <1>2, <1>3 DEF Live
<1>5. Phase(h, i, n, passed + more, limit)
  BY <1>1, <1>2, <1>3 DEF Live, Phase
<1> QED BY <1>4, <1>5

LEMMA OneClockOfIncr ==
    ASSUME QuotaTypes, NEW k \in Counters, NEW h \in Counters, NEW i \in Nat, NEW p \in Replica,
           NEW passed \in Nat, NEW limit \in Nat, limit >= 1,
           OneClock(k, i, now, passed, limit), \A q \in Replica : ahead[q] = ahead[p],
           Opens(i) <= now + ahead[p], now + ahead[p] < Opens(i) + Window,
           h.count = k.count + 1, h.until = IF k.count = 0 THEN now + Window ELSE k.until,
           NEW more \in {0, 1}, more = 1 => h.count <= limit
    PROVE  OneClock(h, i, now, passed + more, limit)
<1>1. PICK o \in Nat : o = Opens(i)
  BY OpensNat
<1>2. PICK c \in Nat, u \in Nat : c = k.count /\ u = k.until
  BY DEF Counters
<1>0. Window \in Nat /\ now \in Nat /\ ahead[p] \in Nat
  BY QuotaAssumption, InWindow DEF QuotaTypes
<1>3. PICK w \in Nat, n \in Nat, a \in Nat : w = Window /\ n = now /\ a = ahead[p]
  BY <1>0
<1>4. passed <= c /\ passed <= limit
  BY <1>1, <1>2, <1>3 DEF OneClock
<1>5. c > 0 => \A q \in Replica : o + w <= u + a
  BY <1>1, <1>2, <1>3 DEF OneClock
<1>6. \A q \in Replica : o + w <= h.until + a
  BY <1>1, <1>2, <1>3, <1>5
<1>7. passed + more <= h.count /\ passed + more <= limit
  BY <1>2, <1>4
<1> QED BY <1>1, <1>3, <1>6, <1>7 DEF OneClock

LEMMA PhaseOfTick ==
    ASSUME NEW k \in Counters, NEW h \in Counters, NEW i \in Nat, NEW n \in Nat,
           NEW passed \in Nat, NEW limit \in Nat, limit >= 1,
           Live(k, i, n), Phase(k, i, n, passed, limit),
           h = IF k.until <= n + 1 THEN [count |-> 0, until |-> 0] ELSE k
    PROVE  Live(h, i, n + 1) /\ Phase(h, i, n + 1, passed, limit)
<1>1. PICK o \in Nat : o = Opens(i)
  BY OpensNat
<1>2. PICK c \in Nat, u \in Nat : c = k.count /\ u = k.until
  BY DEF Counters
<1>3. PICK w \in Nat : w = Window
  BY QuotaAssumption
<1>4. CASE u <= n + 1
  <2>1. h.count = 0
    BY <1>2, <1>4
  <2> QED BY <1>1, <1>2, <1>3, <1>4, <2>1 DEF Live, Phase
<1>5. CASE ~(u <= n + 1)
  <2>1. h = k
    BY <1>2, <1>5
  <2> QED BY <1>1, <1>2, <1>3, <1>5, <2>1 DEF Live, Phase
<1> QED BY <1>4, <1>5

LEMMA OneClockOfTick ==
    ASSUME QuotaTypes, NEW k \in Counters, NEW h \in Counters, NEW i \in Nat,
           NEW passed \in Nat, NEW limit \in Nat,
           OneClock(k, i, now, passed, limit),
           h = IF k.until <= now + 1 THEN [count |-> 0, until |-> 0] ELSE k
    PROVE  OneClock(h, i, now + 1, passed, limit)
<1>1. PICK o \in Nat : o = Opens(i)
  BY OpensNat
<1>2. PICK c \in Nat, u \in Nat : c = k.count /\ u = k.until
  BY DEF Counters
<1>3. PICK w \in Nat, n \in Nat : w = Window /\ n = now
  BY QuotaAssumption DEF QuotaTypes
<1>4. \A p \in Replica : ahead[p] \in Nat
  BY InWindow
<1>5. CASE u <= n + 1
  <2>1. h.count = 0
    BY <1>2, <1>3, <1>5
  <2> QED BY <1>1, <1>2, <1>3, <1>4, <1>5, <2>1 DEF OneClock
<1>6. CASE ~(u <= n + 1)
  <2>1. h = k
    BY <1>2, <1>3, <1>6
  <2> QED BY <1>1, <1>2, <1>3, <1>4, <1>6, <2>1 DEF OneClock
<1> QED BY <1>5, <1>6

-----------------------------------------------------------------------------
(* What a step of a limiter writes. *)
LEMMA Numbers ==
    ASSUME QuotaTypes, NEW s \in Scope, NEW i \in Index
    PROVE  /\ tally[s][i] \in Tallies /\ counter[s][i] \in Counters
           /\ tally[s][i].asked \in Nat /\ tally[s][i].passed \in Nat /\ tally[s][i].open \in Nat
           /\ counter[s][i].count \in Nat /\ counter[s][i].until \in Nat
<1>1. tally[s][i] \in Tallies /\ counter[s][i] \in Counters
  BY DEF QuotaTypes
<1>2. PICK t \in Tallies, k \in Counters : t = tally[s][i] /\ k = counter[s][i]
  BY <1>1
<1>3. t.asked \in Nat /\ t.passed \in Nat /\ t.open \in Nat /\ k.count \in Nat /\ k.until \in Nat
  BY DEF Tallies, Counters
<1> QED BY <1>1, <1>2, <1>3

Adds(s, i, n, m) ==
    tally' = [tally EXCEPT ![s][i].asked = @ + 1, ![s][i].passed = @ + n, ![s][i].open = @ + m]

LEMMA Tallied ==
    ASSUME QuotaTypes, NEW s \in Scope, NEW i \in Index, NEW n \in Nat, NEW m \in Nat,
           Adds(s, i, n, m)
    PROVE  /\ tally' \in [Scope -> [Index -> Tallies]]
           /\ tally'[s][i].asked = tally[s][i].asked + 1
           /\ tally'[s][i].passed = tally[s][i].passed + n
           /\ \A x \in Scope, j \in Index :
                /\ tally'[x][j].asked \in Nat /\ tally[x][j].asked <= tally'[x][j].asked
                /\ x # s \/ j # i => tally'[x][j] = tally[x][j]
<1>1. PICK t \in Tallies : t = tally[s][i]
  BY Numbers
<1>2. PICK a \in Nat, b \in Nat, c \in Nat :
        a = t.asked + 1 /\ b = t.passed + n /\ c = t.open + m
  <2>1. t.asked + 1 \in Nat /\ t.passed + n \in Nat /\ t.open + m \in Nat
    BY DEF Tallies
  <2> QED BY <2>1
<1>3. PICK r : r = [t EXCEPT !.asked = a, !.passed = b, !.open = c]
  OBVIOUS
<1>4. r \in Tallies /\ r.asked = a /\ r.passed = b
  BY <1>3 DEF Tallies
<1>5. tally' = [tally EXCEPT ![s][i] = r]
  <2>1. tally[s] \in [Index -> Tallies] /\ tally \in [Scope -> [Index -> Tallies]]
    BY DEF QuotaTypes
  <2>2. [[[t EXCEPT !.asked = t.asked + 1] EXCEPT !.passed = t.passed + n]
           EXCEPT !.open = t.open + m] = r
    BY <1>2, <1>3 DEF Tallies
  <2> QED BY <1>1, <1>2, <1>3, <2>1, <2>2 DEF Adds, Tallies
<1>6. /\ tally'[s][i] = r /\ tally' \in [Scope -> [Index -> Tallies]]
      /\ \A x \in Scope, j \in Index : x # s \/ j # i => tally'[x][j] = tally[x][j]
  BY <1>4, <1>5 DEF QuotaTypes
<1>7. \A x \in Scope, j \in Index :
        tally'[x][j].asked \in Nat /\ tally[x][j].asked <= tally'[x][j].asked
  <2> TAKE x \in Scope, j \in Index
  <2>1. CASE x = s /\ j = i
    <3>1. t.asked \in Nat /\ a = t.asked + 1
      BY <1>2 DEF Tallies
    <3> QED BY <1>1, <1>4, <1>6, <2>1, <3>1
  <2>2. CASE x # s \/ j # i
    <3>1. tally'[x][j] = tally[x][j] /\ tally[x][j].asked \in Nat
      BY <1>6, <2>2, Numbers
    <3> QED BY <3>1
  <2> QED BY <2>1, <2>2
<1> QED BY <1>1, <1>2, <1>4, <1>6, <1>7

LEMMA Incremented ==
    ASSUME QuotaTypes, NEW s \in Scope, NEW i \in Index, IncrExpire(s, i)
    PROVE  /\ counter' \in [Scope -> [Index -> Counters]]
           /\ counter'[s][i].count = counter[s][i].count + 1
           /\ counter'[s][i].until = IF counter[s][i].count = 0 THEN now + Window
                                     ELSE counter[s][i].until
           /\ \A x \in Scope, j \in Index : x # s \/ j # i => counter'[x][j] = counter[x][j]
<1>1. PICK k \in Counters : k = counter[s][i]
  BY Numbers
<1>2. PICK c \in Nat, u \in Nat :
        c = k.count + 1 /\ u = IF k.count = 0 THEN now + Window ELSE k.until
  <2>1. now \in Nat /\ Window \in Nat
    BY QuotaAssumption DEF QuotaTypes
  <2>2. k.count + 1 \in Nat /\ now + Window \in Nat /\ k.until \in Nat
    BY <2>1 DEF Counters
  <2> QED BY <2>2
<1>3. PICK r : r = [k EXCEPT !.count = c, !.until = u]
  OBVIOUS
<1>4. r \in Counters /\ r.count = c /\ r.until = u
  BY <1>3 DEF Counters
<1>5. counter' = [counter EXCEPT ![s][i] = r]
  <2>1. counter[s] \in [Index -> Counters] /\ counter \in [Scope -> [Index -> Counters]]
    BY DEF QuotaTypes
  <2> QED BY <1>1, <1>2, <1>3, <2>1 DEF IncrExpire, Counters
<1>6. /\ counter'[s][i] = r /\ counter' \in [Scope -> [Index -> Counters]]
      /\ \A x \in Scope, j \in Index : x # s \/ j # i => counter'[x][j] = counter[x][j]
  BY <1>4, <1>5 DEF QuotaTypes
<1> QED BY <1>1, <1>2, <1>4, <1>6

LEMMA MemoryWrites ==
    ASSUME QuotaTypes, Counted, NEW p \in Replica, NEW s \in Scope, NEW ok \in BOOLEAN,
           Memory(p, s, ok), NEW i \in Index, i = WindowAt(p)
    PROVE  /\ bucket' \in [Replica -> [Scope -> Buckets]]
           /\ counter' = counter
           /\ \A q \in Replica, x \in Scope : q # p \/ x # s => bucket'[q][x] = bucket[q][x]
           /\ \E n \in Nat : /\ n <= LimitOf(s) /\ n <= tally[s][i].asked
                             /\ n = IF bucket[p][s].start = i THEN bucket[p][s].count ELSE 0
                             /\ (ok <=> n < LimitOf(s))
                             /\ bucket'[p][s].start = i
                             /\ bucket'[p][s].count = IF ok THEN n + 1 ELSE n
<1>1. PICK limit \in Nat : limit = LimitOf(s) /\ limit >= 1
  BY Limits
<1>2. PICK b \in Buckets :
        b = IF bucket[p][s].start = i THEN bucket[p][s] ELSE [start |-> i, count |-> 0]
  <2>1. bucket[p][s] \in Buckets
    BY DEF QuotaTypes
  <2>2. [start |-> i, count |-> 0] \in Buckets
    BY DEF Buckets
  <2> QED BY <2>1, <2>2
<1>3. /\ b.start = i /\ b.count \in Nat
      /\ b.count = IF bucket[p][s].start = i THEN bucket[p][s].count ELSE 0
  BY <1>2 DEF Buckets
<1>4. b.count <= limit /\ b.count <= tally[s][i].asked
  <2>1. tally[s][i].asked \in Nat
    BY Numbers
  <2> QED BY <1>1, <1>3, <2>1 DEF Counted
<1>5. /\ (ok <=> b.count < limit)
      /\ bucket' = [bucket EXCEPT ![p][s] = IF ok THEN [b EXCEPT !.count = @ + 1] ELSE b]
      /\ counter' = counter
  BY <1>1, <1>2 DEF Memory, Key
<1>6. PICK m \in Nat : m = IF ok THEN b.count + 1 ELSE b.count
  <2>1. b.count + 1 \in Nat
    BY <1>3
  <2> QED BY <1>3, <2>1
<1>7. PICK r \in Buckets : r = [b EXCEPT !.count = m]
  BY DEF Buckets
<1>8. (IF ok THEN [b EXCEPT !.count = @ + 1] ELSE b) = r
  BY <1>6, <1>7 DEF Buckets
<1>9. bucket' = [bucket EXCEPT ![p][s] = r]
  BY <1>5, <1>8
<1>10. /\ bucket' \in [Replica -> [Scope -> Buckets]]
       /\ \A q \in Replica, x \in Scope : q # p \/ x # s => bucket'[q][x] = bucket[q][x]
       /\ bucket'[p][s] = r
  BY <1>9 DEF QuotaTypes
<1>11. r.start = i /\ r.count = m
  BY <1>3, <1>7 DEF Buckets
<1> QED BY <1>1, <1>3, <1>4, <1>5, <1>6, <1>10, <1>11

LEMMA MemoryStep ==
    ASSUME Limited, NEW p \in Replica, NEW s \in Scope, NEW ok \in BOOLEAN,
           backend = "memory", Memory(p, s, ok), UNCHANGED <<backend, now, ahead, sets>>,
           NEW i \in Index, i = WindowAt(p),
           NEW n \in {0, 1}, n = IF ok THEN 1 ELSE 0,
           Adds(s, i, n, 0)
    PROVE  Limited' /\ (~ok => LimitOf(s) <= tally[s][i].asked)
<1>1. QuotaTypes /\ Counted
  BY DEF Limited
<1>2. /\ bucket' \in [Replica -> [Scope -> Buckets]]
      /\ counter' = counter
      /\ \A q \in Replica, x \in Scope : q # p \/ x # s => bucket'[q][x] = bucket[q][x]
  BY <1>1, MemoryWrites
<1>3. PICK c \in Nat : /\ c <= LimitOf(s) /\ c <= tally[s][i].asked
                       /\ c = IF bucket[p][s].start = i THEN bucket[p][s].count ELSE 0
                       /\ (ok <=> c < LimitOf(s))
                       /\ bucket'[p][s].start = i
                       /\ bucket'[p][s].count = IF ok THEN c + 1 ELSE c
  BY <1>1, MemoryWrites
<1>4. /\ tally' \in [Scope -> [Index -> Tallies]]
      /\ tally'[s][i].asked = tally[s][i].asked + 1
      /\ tally'[s][i].passed = tally[s][i].passed + n
      /\ \A x \in Scope, j \in Index :
           /\ tally'[x][j].asked \in Nat /\ tally[x][j].asked <= tally'[x][j].asked
           /\ x # s \/ j # i => tally'[x][j] = tally[x][j]
  <2>1. n \in Nat /\ 0 \in Nat
    OBVIOUS
  <2> QED BY <1>1, <2>1, Tallied
<1>5. QuotaTypes'
  BY <1>1, <1>2, <1>4 DEF QuotaTypes
<1>6. PICK limit \in Nat : limit = LimitOf(s) /\ limit >= 1
  BY Limits
<1>7. \A x \in Scope, j \in Index : tally[x][j].asked \in Nat /\ tally[x][j].passed \in Nat
  BY <1>1, Numbers
<1>8. Counted'
  <2>1. ASSUME NEW q \in Replica, NEW x \in Scope
        PROVE  /\ bucket'[q][x].count <= LimitOf(x)
               /\ bucket'[q][x].count <= tally'[x][bucket'[q][x].start].asked
    <3>1. CASE q = p /\ x = s
      <4>1. PICK a \in Nat : a = tally[s][i].asked
        BY <1>7
      <4>2. bucket'[p][s].count <= limit /\ bucket'[p][s].count <= a + 1
        BY <1>3, <1>6, <4>1
      <4> QED BY <1>3, <1>4, <1>6, <3>1, <4>1, <4>2
    <3>2. CASE q # p \/ x # s
      <4>1. PICK b \in Buckets : b = bucket[q][x] /\ b = bucket'[q][x]
        BY <1>1, <1>2, <3>2 DEF QuotaTypes
      <4>2. PICK j \in Index, m \in Nat : j = b.start /\ m = b.count
        BY DEF Buckets
      <4>3. m <= LimitOf(x) /\ m <= tally[x][j].asked
        BY <1>1, <4>1, <4>2 DEF Counted
      <4>4. m <= tally'[x][j].asked
        BY <1>4, <1>7, <4>3
      <4> QED BY <4>1, <4>2, <4>3, <4>4
    <3> QED BY <3>1, <3>2
  <2>2. ASSUME NEW x \in Scope, NEW j \in Index
        PROVE  counter'[x][j].count <= tally'[x][j].asked
    <3>1. counter[x][j].count \in Nat /\ counter[x][j].count <= tally[x][j].asked
      BY <1>1, Numbers DEF Counted
    <3> QED BY <1>2, <1>4, <1>7, <3>1
  <2> QED BY <2>1, <2>2 DEF Counted
<1>9. InRedis'
  BY DEF InRedis
<1>10. InMemory'
  <2> SUFFICES ASSUME NEW x \in Scope, NEW j \in Index
               PROVE  (tally[x][j].passed + Cardinality(Below(LeftOf(x, j), LimitOf(x)))
                         <= (Cardinality(Replica) + sets) * LimitOf(x))'
    BY DEF InMemory
  <2>1. PICK f : f = LeftOf(x, j)
    OBVIOUS
  <2>2. PICK g : g = LeftOf(x, j)'
    OBVIOUS
  <2>3. PICK l \in Nat : l = LimitOf(x) /\ l >= 1
    BY Limits
  <2>4. f \in [Replica -> Nat] /\ g \in [Replica -> Nat]
    <3>1. \A q \in Replica : WindowAt(q) \in Nat /\ j \in Nat
      BY <1>1, InWindow, IndexNat
    <3>2. ASSUME NEW q \in Replica
          PROVE  /\ Left(bucket[q][x], WindowAt(q), j, LimitOf(x)) \in Nat
                 /\ Left(bucket'[q][x], WindowAt(q), j, LimitOf(x)) \in Nat
      <4>1. /\ bucket[q][x] \in Buckets /\ bucket[q][x].count <= LimitOf(x)
            /\ bucket'[q][x] \in Buckets /\ bucket'[q][x].count <= LimitOf(x)
        BY <1>1, <1>2, <1>8 DEF QuotaTypes, Counted
      <4> QED BY <2>3, <3>1, <4>1, LeftBounds
    <3>3. \A q \in Replica : WindowAt(q)' = WindowAt(q)
      BY DEF WindowAt
    <3> QED BY <2>1, <2>2, <3>2, <3>3 DEF LeftOf
  <2>5. tally[x][j].passed + Cardinality(Below(f, l)) <= (Cardinality(Replica) + sets) * l
    BY <2>1, <2>3 DEF Limited, InMemory
  <2>6. /\ Cardinality(Below(f, l)) \in Nat /\ Cardinality(Below(g, l)) \in Nat
        /\ tally[x][j].passed \in Nat
    BY <1>7, <2>3, BelowFinite
  <2>7. \A q \in Replica : WindowAt(q)' = WindowAt(q)
    BY DEF WindowAt
  <2>8. \A q \in Replica : q # p \/ x # s => g[q] = f[q]
    BY <1>2, <2>1, <2>2, <2>7 DEF LeftOf
  <2>9. CASE x = s /\ j = i
    <3>1. f[p] = l - c
      BY <1>3, <2>1, <2>3, <2>9, IndexNat DEF LeftOf, Left
    <3>2. g[p] = l - (IF ok THEN c + 1 ELSE c)
      BY <1>3, <2>2, <2>3, <2>7, <2>9, IndexNat DEF LeftOf, Left
    <3>3. CASE ok
      <4>1. f[p] \in 1..l /\ g[p] = f[p] - 1
        BY <1>3, <2>3, <2>9, <3>1, <3>2, <3>3 DEF LeftOf
      <4>2. Cardinality(Below(g, l)) = Cardinality(Below(f, l)) - 1
        BY <2>3, <2>4, <2>8, <4>1, BelowDrops
      <4>3. tally'[x][j].passed = tally[x][j].passed + 1
        BY <1>4, <2>9, <3>3
      <4> QED BY <2>2, <2>3, <2>5, <2>6, <4>2, <4>3
    <3>4. CASE ~ok
      <4>1. g = f
        BY <2>4, <2>8, <3>1, <3>2, <3>4
      <4>2. tally'[x][j].passed = tally[x][j].passed
        BY <1>4, <1>7, <2>9, <3>4
      <4> QED BY <2>2, <2>3, <2>5, <4>1, <4>2
    <3> QED BY <3>3, <3>4
  <2>10. CASE x # s \/ j # i
    <3>1. g[p] = f[p]
      <4>1. CASE x # s
        BY <2>8, <4>1
      <4>2. CASE x = s /\ j # i
        BY <2>1, <2>2, <2>7, <4>2, IndexNat DEF LeftOf, Left
      <4> QED BY <2>10, <4>1, <4>2
    <3>2. g = f
      BY <2>4, <2>8, <3>1
    <3>3. tally'[x][j] = tally[x][j]
      BY <1>4, <2>10
    <3> QED BY <2>2, <2>3, <2>5, <3>2, <3>3
  <2> QED BY <2>9, <2>10
<1>11. ~ok => LimitOf(s) <= tally[s][i].asked
  <2>1. tally[s][i].asked \in Nat
    BY <1>7
  <2> QED BY <1>3, <1>6, <2>1
<1> QED BY <1>5, <1>8, <1>9, <1>10, <1>11 DEF Limited

(* A call that Redis counts, and lets through (n = 1), rejects, or fails to
   answer in time (m = 1). *)
LEMMA RedisStep ==
    ASSUME Limited, NEW p \in Replica, NEW s \in Scope, backend = "redis",
           UNCHANGED <<backend, now, ahead, bucket, sets>>, NEW i \in Index, i = WindowAt(p),
           NEW n \in {0, 1}, NEW m \in {0, 1}, Adds(s, i, n, m),
           IncrExpire(s, i) \/ (counter' = counter /\ n = 0),
           n = 1 => counter[s][i].count + 1 <= LimitOf(s)
    PROVE  Limited'
<1>1. QuotaTypes /\ Counted /\ InRedis
  BY DEF Limited
<1>2. /\ tally' \in [Scope -> [Index -> Tallies]]
      /\ tally'[s][i].asked = tally[s][i].asked + 1
      /\ tally'[s][i].passed = tally[s][i].passed + n
      /\ \A x \in Scope, j \in Index :
           /\ tally'[x][j].asked \in Nat /\ tally[x][j].asked <= tally'[x][j].asked
           /\ x # s \/ j # i => tally'[x][j] = tally[x][j]
  <2>1. n \in Nat /\ m \in Nat
    OBVIOUS
  <2> QED BY <1>1, <2>1, Tallied
<1>3. /\ counter' \in [Scope -> [Index -> Counters]]
      /\ \A x \in Scope, j \in Index : x # s \/ j # i => counter'[x][j] = counter[x][j]
  BY <1>1, Incremented DEF QuotaTypes
<1>4. PICK k \in Counters, h \in Counters : k = counter[s][i] /\ h = counter'[s][i]
  BY <1>1, <1>3, Numbers
<1>5. PICK limit \in Nat : limit = LimitOf(s) /\ limit >= 1
  BY Limits
<1>6. PICK passed \in Nat, asked \in Nat : passed = tally[s][i].passed /\ asked = tally[s][i].asked
  BY <1>1, Numbers
<1>7. \/ /\ h.count = k.count + 1
         /\ h.until = IF k.count = 0 THEN now + Window ELSE k.until
      \/ h = k /\ n = 0
  BY <1>1, <1>4, Incremented
<1>8. n = 1 => h.count <= limit
  BY <1>4, <1>5, <1>7
<1>9. QuotaTypes'
  BY <1>1, <1>2, <1>3 DEF QuotaTypes
<1>10. Counted'
  <2>1. ASSUME NEW q \in Replica, NEW x \in Scope
        PROVE  /\ bucket[q][x].count <= LimitOf(x)
               /\ bucket[q][x].count <= tally'[x][bucket[q][x].start].asked
    <3>1. PICK b \in Buckets : b = bucket[q][x]
      BY <1>1 DEF QuotaTypes
    <3>2. PICK j \in Index, c \in Nat : j = b.start /\ c = b.count
      BY DEF Buckets
    <3>3. c <= LimitOf(x) /\ c <= tally[x][j].asked /\ tally[x][j].asked \in Nat
      BY <1>1, <3>1, <3>2, Numbers DEF Counted
    <3>4. c <= tally'[x][j].asked
      BY <1>2, <3>3
    <3> QED BY <3>1, <3>2, <3>3, <3>4
  <2>2. ASSUME NEW x \in Scope, NEW j \in Index
        PROVE  counter'[x][j].count <= tally'[x][j].asked
    <3>1. CASE x = s /\ j = i
      <4>1. k.count \in Nat /\ k.count <= asked
        BY <1>1, <1>4, <1>6 DEF Counted, Counters
      <4>2. h.count <= asked + 1
        BY <1>7, <4>1
      <4> QED BY <1>2, <1>4, <1>6, <3>1, <4>2
    <3>2. CASE x # s \/ j # i
      BY <1>1, <1>2, <1>3, <3>2 DEF Counted
    <3> QED BY <3>1, <3>2
  <2> QED BY <2>1, <2>2 DEF Counted
<1>11. InRedis'
  <2>0. (\A x \in Scope, j \in Index :
           /\ Live(counter[x][j], j, now)
           /\ Phase(counter[x][j], j, now, tally[x][j].passed, LimitOf(x))
           /\ ~Apart => OneClock(counter[x][j], j, now, tally[x][j].passed, LimitOf(x)))'
    <3> SUFFICES ASSUME NEW x \in Scope, NEW j \in Index
                 PROVE  /\ Live(counter'[x][j], j, now)
                        /\ Phase(counter'[x][j], j, now, tally'[x][j].passed, LimitOf(x))
                        /\ ~Apart => OneClock(counter'[x][j], j, now, tally'[x][j].passed,
                                              LimitOf(x))
      BY DEF Apart, OneClock
    <3>1. /\ Live(counter[x][j], j, now)
          /\ Phase(counter[x][j], j, now, tally[x][j].passed, LimitOf(x))
          /\ ~Apart => OneClock(counter[x][j], j, now, tally[x][j].passed, LimitOf(x))
      BY <1>1 DEF InRedis
    <3>2. CASE x # s \/ j # i
      <4>1. counter'[x][j] = counter[x][j] /\ tally'[x][j] = tally[x][j]
        BY <1>2, <1>3, <3>2
      <4> QED BY <3>1, <4>1
    <3>3. CASE x = s /\ j = i
      <4>1. CASE h = k /\ n = 0
        <5>1. counter'[x][j] = counter[x][j] /\ tally'[x][j].passed = tally[x][j].passed
          BY <1>2, <1>4, <1>6, <3>3, <4>1
        <5> QED BY <3>1, <5>1
      <4>2. CASE /\ h.count = k.count + 1
                 /\ h.until = IF k.count = 0 THEN now + Window ELSE k.until
        <5>1. /\ Opens(i) \in Nat /\ Opens(i) <= now + ahead[p]
              /\ now + ahead[p] < Opens(i) + Window /\ i \in Nat
              /\ now \in Nat /\ ahead[p] \in Nat /\ ahead[p] < Window
          BY <1>1, InWindow, IndexNat, QuotaAssumption DEF QuotaTypes
        <5>2. Opens(i) < now + Window /\ now < Opens(i) + Window
          BY <5>1, QuotaAssumption
        <5>3. Live(h, i, now) /\ Phase(h, i, now, passed + n, limit)
          <6>1. Live(k, i, now) /\ Phase(k, i, now, passed, limit)
            BY <1>4, <1>5, <1>6, <3>1, <3>3
          <6>2. PICK t \in Nat : t = now
            BY <5>1
          <6>3. Live(h, i, t) /\ Phase(h, i, t, passed + n, limit)
            BY <1>5, <1>8, <4>2, <5>1, <5>2, <6>1, <6>2, PhaseOfIncr
          <6> QED BY <6>2, <6>3
        <5>4. ASSUME ~Apart PROVE OneClock(h, i, now, passed + n, limit)
          <6>1. OneClock(k, i, now, passed, limit)
            BY <1>4, <1>5, <1>6, <3>1, <3>3, <5>4
          <6>2. \A q \in Replica : ahead[q] = ahead[p]
            BY <5>4 DEF Apart
          <6> QED BY <1>1, <1>5, <1>8, <4>2, <5>1, <6>1, <6>2, OneClockOfIncr
        <5> QED BY <1>2, <1>4, <1>5, <1>6, <3>3, <5>3, <5>4
      <4> QED BY <1>7, <4>1, <4>2
    <3> QED BY <3>2, <3>3
  <2> QED BY <2>0 DEF InRedis
<1>12. InMemory'
  BY DEF InMemory
<1> QED BY <1>9, <1>10, <1>11, <1>12 DEF Limited

LEMMA CheckStep ==
    ASSUME Limited, NEW p \in Replica, NEW s \in Scope, NEW ok \in BOOLEAN, Check(p, s, ok),
           UNCHANGED <<backend, now, ahead, sets>>
    PROVE  Limited' /\ (~ok => LimitOf(s) <= tally[s][WindowAt(p)].asked)
<1>1. PICK i \in Index : i = WindowAt(p)
  BY InWindow DEF Limited
<1>2. CASE /\ backend = "memory" /\ Memory(p, s, ok)
           /\ Adds(s, i, IF ok THEN 1 ELSE 0, 0)
  <2>1. PICK n \in {0, 1} : n = IF ok THEN 1 ELSE 0
    OBVIOUS
  <2>2. Adds(s, i, n, 0)
    BY <1>2, <2>1
  <2> QED BY <1>1, <1>2, <2>1, <2>2, MemoryStep
<1>3. CASE /\ backend = "redis" /\ Redis(p, s, ok)
           /\ Adds(s, i, IF ok THEN 1 ELSE 0, 0)
  <2>1. PICK n \in {0, 1} : n = IF ok THEN 1 ELSE 0
    OBVIOUS
  <2>2. Adds(s, i, n, 0)
    BY <1>3, <2>1
  <2>3. IncrExpire(s, i) /\ UNCHANGED bucket /\ (ok <=> counter[s][i].count + 1 <= LimitOf(s))
    BY <1>1, <1>3 DEF Redis, Key
  <2>4. Limited'
    BY <1>1, <1>3, <2>1, <2>2, <2>3, RedisStep
  <2>5. ~ok => LimitOf(s) <= tally[s][i].asked
    <3>1. /\ counter[s][i].count \in Nat /\ tally[s][i].asked \in Nat /\ LimitOf(s) \in Nat
          /\ counter[s][i].count <= tally[s][i].asked
      BY Numbers, Limits DEF Limited, Counted
    <3> QED BY <2>3, <3>1
  <2> QED BY <1>1, <2>4, <2>5
<1>4. CASE backend = "redis" /\ ok /\ RedisFails(p, s) /\ Adds(s, i, 0, 1)
  <2>1. (IncrExpire(s, i) \/ counter' = counter) /\ UNCHANGED bucket
    BY <1>1, <1>4 DEF RedisFails, Key
  <2>2. Limited'
    BY <1>1, <1>4, <2>1, RedisStep
  <2> QED BY <1>4, <2>2
<1> QED BY <1>1, <1>2, <1>3, <1>4 DEF Check, Adds

LEMMA TickStep ==
    ASSUME Limited, Tick PROVE Limited'
<1>1. QuotaTypes /\ Counted /\ InRedis
  BY DEF Limited
<1>2. PICK n \in Nat : n = now /\ now' = n + 1
  BY <1>1 DEF Tick, QuotaTypes
<1>3. /\ now' \in 0..MaxTime /\ UNCHANGED <<backend, ahead, bucket, tally, sets>>
      /\ counter' = [k \in Scope |-> [i \in Index |->
                        IF counter[k][i].until <= now + 1 THEN [count |-> 0, until |-> 0]
                        ELSE counter[k][i]]]
  BY <1>1, QuotaAssumption DEF Tick, bounds, QuotaTypes
<1>4. ASSUME NEW x \in Scope, NEW j \in Index
      PROVE  /\ counter'[x][j] \in Counters
             /\ counter'[x][j] = IF counter[x][j].until <= n + 1 THEN [count |-> 0, until |-> 0]
                                 ELSE counter[x][j]
  <2>1. counter'[x][j] = IF counter[x][j].until <= n + 1 THEN [count |-> 0, until |-> 0]
                         ELSE counter[x][j]
    BY <1>2, <1>3
  <2>2. [count |-> 0, until |-> 0] \in Counters
    BY DEF Counters
  <2> QED BY <1>1, <2>1, <2>2, Numbers
<1>5. QuotaTypes'
  <2>1. counter' \in [Scope -> [Index -> Counters]]
    BY <1>3, <1>4
  <2> QED BY <1>1, <1>3, <2>1 DEF QuotaTypes
<1>6. Counted'
  <2>1. ASSUME NEW x \in Scope, NEW j \in Index
        PROVE  counter'[x][j].count <= tally[x][j].asked
    <3>1. /\ counter[x][j].count <= tally[x][j].asked /\ tally[x][j].asked \in Nat
          /\ [count |-> 0, until |-> 0].count = 0
      BY <1>1, Numbers DEF Counted
    <3> QED BY <1>4, <3>1
  <2> QED BY <1>1, <1>3, <2>1 DEF Counted
<1>7. InRedis'
  <2> SUFFICES ASSUME backend = "redis" PROVE InRedis'
    BY <1>3 DEF InRedis
  <2>1. Apart' = Apart
    BY <1>3 DEF Apart
  <2>2. ASSUME NEW x \in Scope, NEW j \in Index
        PROVE  /\ Live(counter'[x][j], j, now')
               /\ Phase(counter'[x][j], j, now', tally[x][j].passed, LimitOf(x))
               /\ ~Apart => OneClock(counter'[x][j], j, now', tally[x][j].passed, LimitOf(x))
    <3>1. /\ Live(counter[x][j], j, now)
          /\ Phase(counter[x][j], j, now, tally[x][j].passed, LimitOf(x))
          /\ ~Apart => OneClock(counter[x][j], j, now, tally[x][j].passed, LimitOf(x))
      BY <1>1 DEF InRedis
    <3>2. PICK k \in Counters, h \in Counters : k = counter[x][j] /\ h = counter'[x][j]
      BY <1>1, <1>4, Numbers
    <3>3. PICK limit \in Nat, passed \in Nat :
            limit = LimitOf(x) /\ limit >= 1 /\ passed = tally[x][j].passed
      BY <1>1, Limits, Numbers
    <3>4. h = IF k.until <= n + 1 THEN [count |-> 0, until |-> 0] ELSE k
      BY <1>4, <3>2
    <3>5. j \in Nat
      BY IndexNat
    <3>6. Live(h, j, n + 1) /\ Phase(h, j, n + 1, passed, limit)
      <4>1. Live(k, j, n) /\ Phase(k, j, n, passed, limit)
        BY <1>2, <3>1, <3>2, <3>3
      <4> QED BY <3>3, <3>4, <3>5, <4>1, PhaseOfTick
    <3>7. ASSUME ~Apart PROVE OneClock(h, j, n + 1, passed, limit)
      <4>1. OneClock(k, j, now, passed, limit)
        BY <3>1, <3>2, <3>3, <3>7
      <4>2. OneClock(h, j, now + 1, passed, limit)
        BY <1>1, <1>2, <3>4, <3>5, <4>1, OneClockOfTick
      <4> QED BY <1>2, <4>2
    <3> QED BY <1>2, <3>2, <3>3, <3>6, <3>7
  <2>3. (\A x \in Scope, j \in Index :
           /\ Live(counter[x][j], j, now)
           /\ Phase(counter[x][j], j, now, tally[x][j].passed, LimitOf(x))
           /\ ~Apart => OneClock(counter[x][j], j, now, tally[x][j].passed, LimitOf(x)))'
    BY <1>3, <2>1, <2>2 DEF OneClock
  <2> QED BY <2>3 DEF InRedis
<1>8. InMemory'
  <2> SUFFICES ASSUME backend # "redis", NEW x \in Scope, NEW j \in Index
               PROVE  (tally[x][j].passed + Cardinality(Below(LeftOf(x, j), LimitOf(x)))
                         <= (Cardinality(Replica) + sets) * LimitOf(x))'
    BY <1>3 DEF InMemory
  <2>1. PICK f : f = LeftOf(x, j)
    OBVIOUS
  <2>2. PICK g : g = LeftOf(x, j)'
    OBVIOUS
  <2>3. PICK l \in Nat : l = LimitOf(x) /\ l >= 1
    BY Limits
  <2>0. PICK total : total = (Cardinality(Replica) + sets) * l
    OBVIOUS
  <2>4. PICK passed \in Nat : passed = tally[x][j].passed
    BY <1>1, Numbers
  <2>5. passed + Cardinality(Below(f, l)) <= total
    BY <2>0, <2>1, <2>3, <2>4 DEF Limited, InMemory
  <2>6. ASSUME NEW q \in Replica
        PROVE  /\ f[q] \in Nat /\ g[q] \in Nat /\ g[q] <= f[q]
               /\ f[q] = Left(bucket[q][x], WindowAt(q), j, l)
               /\ g[q] = Left(bucket[q][x], WindowAt(q)', j, l)
    <3>1. /\ f[q] = Left(bucket[q][x], WindowAt(q), j, l)
          /\ g[q] = Left(bucket[q][x], WindowAt(q)', j, l)
      BY <1>3, <2>1, <2>2, <2>3 DEF LeftOf
    <3>2. PICK b \in Buckets : b = bucket[q][x] /\ b.count <= l
      BY <1>1, <2>3 DEF QuotaTypes, Counted
    <3>3. PICK v \in Nat, w \in Nat : v = WindowAt(q) /\ w = WindowAt(q)' /\ v <= w
      <4>1. ahead[q] \in Nat /\ WindowAt(q) = (n + ahead[q]) \div Window
            /\ WindowAt(q)' = (n + 1 + ahead[q]) \div Window
        BY <1>1, <1>2, <1>3, InWindow DEF WindowAt
      <4>2. n + ahead[q] \in Nat /\ n + 1 + ahead[q] \in Nat /\ n + ahead[q] <= n + 1 + ahead[q]
        BY <4>1
      <4> QED BY <4>1, <4>2, Quotients, Quotiented
    <3>4. j \in Nat
      BY IndexNat
    <3>5. /\ Left(b, v, j, l) \in Nat /\ Left(b, w, j, l) \in Nat
      BY <2>3, <3>2, <3>3, <3>4, LeftBounds
    <3>6. Left(b, w, j, l) <= Left(b, v, j, l)
      <4>1. b.count \in Nat
        BY DEF Buckets
      <4> QED BY <2>3, <3>2, <3>3, <3>4, <4>1 DEF Left
    <3> QED BY <3>1, <3>2, <3>3, <3>5, <3>6
  <2>7. f \in [Replica -> Nat] /\ g \in [Replica -> Nat]
    BY <2>1, <2>2, <2>6 DEF LeftOf
  <2>8. Cardinality(Below(g, l)) <= Cardinality(Below(f, l))
    BY <2>6, <2>7, BelowGrows
  <2>9. Cardinality(Below(f, l)) \in Nat /\ Cardinality(Below(g, l)) \in Nat /\ total \in Nat
    <3>1. PICK m \in Nat : m = Cardinality(Replica) + sets
      BY <1>1, Replicas DEF QuotaTypes
    <3>2. m * l \in Nat
      OBVIOUS
    <3> QED BY <2>0, <3>1, <3>2, BelowFinite
  <2>10. passed + Cardinality(Below(g, l)) <= total
    BY <2>5, <2>8, <2>9
  <2> QED BY <1>3, <2>0, <2>2, <2>3, <2>4, <2>10
<1> QED BY <1>5, <1>6, <1>7, <1>8 DEF Limited

LEMMA SetClockStep ==
    ASSUME Limited, NEW p \in Replica, NEW a \in Ahead, SetClock(p, a) PROVE Limited'
<1>1. QuotaTypes /\ Counted /\ InRedis
  BY DEF Limited
<1>2. /\ UNCHANGED <<backend, now, bucket, counter, tally>>
      /\ ahead' = [ahead EXCEPT ![p] = a] /\ sets' = sets + 1 /\ sets \in Nat
  BY <1>1 DEF SetClock, QuotaTypes
<1>3. QuotaTypes'
  BY <1>1, <1>2 DEF QuotaTypes
<1>4. Counted'
  BY <1>1, <1>2 DEF Counted
<1>5. InRedis'
  <2>1. Apart'
    BY <1>2 DEF Apart
  <2> QED BY <1>1, <1>2, <2>1 DEF InRedis
<1>6. InMemory'
  <2> SUFFICES ASSUME backend # "redis", NEW x \in Scope, NEW j \in Index
               PROVE  (tally[x][j].passed + Cardinality(Below(LeftOf(x, j), LimitOf(x)))
                         <= (Cardinality(Replica) + sets) * LimitOf(x))'
    BY <1>2 DEF InMemory
  <2>1. PICK f : f = LeftOf(x, j)
    OBVIOUS
  <2>2. PICK g : g = LeftOf(x, j)'
    OBVIOUS
  <2>3. PICK l \in Nat : l = LimitOf(x) /\ l >= 1
    BY Limits
  <2>4. PICK passed \in Nat : passed = tally[x][j].passed
    BY <1>1, Numbers
  <2>5. PICK m \in Nat : m = Cardinality(Replica) + sets
    BY <1>1, Replicas DEF QuotaTypes
  <2>6. passed + Cardinality(Below(f, l)) <= m * l
    BY <2>1, <2>3, <2>4, <2>5 DEF Limited, InMemory
  <2>7. f \in [Replica -> Nat] /\ g \in [Replica -> Nat]
    <3>1. ASSUME NEW q \in Replica
          PROVE  /\ Left(bucket[q][x], WindowAt(q), j, LimitOf(x)) \in Nat
                 /\ Left(bucket[q][x], WindowAt(q)', j, LimitOf(x)) \in Nat
      <4>1. bucket[q][x] \in Buckets /\ bucket[q][x].count <= LimitOf(x) /\ j \in Nat
        BY <1>1, IndexNat DEF QuotaTypes, Counted
      <4>2. WindowAt(q) \in Nat
        BY <1>1, InWindow, IndexNat
      <4>3. WindowAt(q)' \in Nat
        <5>1. ahead'[q] \in 0..(Window - 1) /\ now' \in 0..MaxTime /\ Window \in Nat
          BY <1>3, QuotaAssumption DEF QuotaTypes
        <5>2. now' + ahead'[q] \in Nat
          BY <5>1, QuotaAssumption
        <5> QED BY <5>2, Quotients DEF WindowAt
      <4> QED BY <2>3, <4>1, <4>2, <4>3, LeftBounds
    <3> QED BY <1>2, <2>1, <2>2, <3>1 DEF LeftOf
  <2>8. \A q \in Replica \ {p} : g[q] = f[q]
    <3>1. \A q \in Replica \ {p} : WindowAt(q)' = WindowAt(q)
      BY <1>1, <1>2 DEF WindowAt, QuotaTypes
    <3> QED BY <1>2, <2>1, <2>2, <3>1 DEF LeftOf
  <2>9. Cardinality(Below(g, l)) <= Cardinality(Below(f, l)) + l
    BY <2>7, <2>8, BelowRises
  <2>10. Cardinality(Below(f, l)) \in Nat /\ Cardinality(Below(g, l)) \in Nat
    BY BelowFinite
  <2>11. (m + 1) * l = m * l + l /\ m * l \in Nat
    OBVIOUS
  <2>12. passed + Cardinality(Below(g, l)) <= (m + 1) * l
    BY <2>6, <2>9, <2>10, <2>11
  <2>13. (Cardinality(Replica) + sets)' = m + 1
    BY <1>2, <2>5, Replicas
  <2> QED BY <1>2, <2>2, <2>3, <2>4, <2>12, <2>13
<1> QED BY <1>3, <1>4, <1>5, <1>6 DEF Limited

LEMMA UnchangedLimited ==
    ASSUME Limited, UNCHANGED <<backend, now, ahead, bucket, counter, tally, sets>>
    PROVE  Limited'
<1>1. QuotaTypes' /\ Counted'
  BY DEF Limited, QuotaTypes, Counted
<1>2. InRedis'
  BY DEF Limited, InRedis, OneClock, Apart
<1>3. InMemory'
  BY DEF Limited, InMemory, LeftOf, WindowAt
<1> QED BY <1>1, <1>2, <1>3 DEF Limited

LEMMA QuotaInvInit == QuotaInit => QuotaInv
<1> SUFFICES ASSUME QuotaInit PROVE QuotaInv
  OBVIOUS
<1>1. /\ now = 0 /\ sets = 0 /\ ahead \in [Replica -> Ahead]
      /\ bucket = [p \in Replica |-> [k \in Scope |-> [start |-> 0, count |-> 0]]]
      /\ counter = [k \in Scope |-> [i \in Index |-> [count |-> 0, until |-> 0]]]
      /\ tally = [s \in Scope |-> [i \in Index |-> [asked |-> 0, passed |-> 0, open |-> 0]]]
      /\ call = [c \in Call |-> Rest]
  BY DEF QuotaInit
<1>2. QuotaTypes
  <2>1. /\ [start |-> 0, count |-> 0] \in Buckets /\ [count |-> 0, until |-> 0] \in Counters
        /\ [asked |-> 0, passed |-> 0, open |-> 0] \in Tallies
    BY IndexNat DEF Buckets, Counters, Tallies
  <2>2. 0 \in 0..MaxTime
    BY QuotaAssumption
  <2> QED BY <1>1, <2>1, <2>2 DEF QuotaTypes
<1>3. Counted
  BY <1>1, Limits, IndexNat DEF Counted
<1>4. InRedis
  <2>1. ASSUME NEW x \in Scope, NEW j \in Index
        PROVE  /\ Live(counter[x][j], j, now)
               /\ Phase(counter[x][j], j, now, tally[x][j].passed, LimitOf(x))
               /\ OneClock(counter[x][j], j, now, tally[x][j].passed, LimitOf(x))
    <3>1. /\ counter[x][j].count = 0 /\ tally[x][j].passed = 0
          /\ LimitOf(x) \in Nat
      BY <1>1, Limits
    <3> QED BY <3>1 DEF Live, Phase, OneClock
  <2> QED BY <2>1 DEF InRedis
<1>5. InMemory
  <2> SUFFICES ASSUME NEW x \in Scope, NEW j \in Index
               PROVE  tally[x][j].passed + Cardinality(Below(LeftOf(x, j), LimitOf(x)))
                         <= (Cardinality(Replica) + sets) * LimitOf(x)
    BY DEF InMemory
  <2>1. PICK l \in Nat : l = LimitOf(x)
    BY Limits
  <2>2. PICK f : f = LeftOf(x, j)
    OBVIOUS
  <2>3. /\ Cardinality(Below(f, l)) \in Nat
        /\ Cardinality(Below(f, l)) <= Cardinality(Replica) * l
    BY BelowFinite
  <2>4. tally[x][j].passed = 0 /\ Cardinality(Replica) + sets = Cardinality(Replica)
    BY <1>1, Replicas
  <2> QED BY <2>1, <2>2, <2>3, <2>4
<1>6. call \in [Call -> Requests] /\ OwnCallsOnly
  BY <1>1 DEF Requests, OwnCallsOnly, Rest
<1> QED BY <1>2, <1>3, <1>4, <1>5, <1>6 DEF QuotaInv, Limited

(* A call that is turned away after its check. *)
LEMMA DenyStep ==
    ASSUME QuotaInv, NEW c \in Call, NEW s \in Scope, NEW ok \in BOOLEAN, call[c].at \in Replica,
           Check(call[c].at, s, ok), UNCHANGED <<backend, now, ahead, sets>>,
           NEW r \in Requests, r.pc # "denied",
           call' = [call EXCEPT ![c] = IF ok THEN r ELSE Deny(c, s)]
    PROVE  QuotaInv'
<1>1. Limited' /\ (~ok => LimitOf(s) <= tally[s][WindowAt(call[c].at)].asked)
  BY CheckStep DEF QuotaInv
<1>2. PICK d : d = IF ok THEN r ELSE Deny(c, s)
  OBVIOUS
<1>3. d \in Requests /\ (d.pc = "denied" => d.excess)
  <2>1. CASE ok
    BY <1>2, <2>1
  <2>2. CASE ~ok
    <3>1. tally[s][WindowAt(call[c].at)].asked \in Nat /\ LimitOf(s) \in Nat
      BY InWindow, Numbers, Limits DEF QuotaInv, Limited
    <3>2. (tally[s][WindowAt(call[c].at)].asked >= LimitOf(s)) = TRUE
      BY <1>1, <2>2, <3>1
    <3>3. d = [pc |-> "denied", excess |-> TRUE]
      BY <1>2, <2>2, <3>2 DEF Deny
    <3> QED BY <3>3 DEF Requests
  <2> QED BY <2>1, <2>2
<1>4. call' = [call EXCEPT ![c] = d]
  BY <1>2
<1>5. call' \in [Call -> Requests]
  BY <1>3, <1>4 DEF QuotaInv
<1>6. OwnCallsOnly'
  <2> SUFFICES ASSUME NEW x \in Call, call'[x].pc = "denied" PROVE call'[x].excess
    BY DEF OwnCallsOnly
  <2>1. CASE x = c
    BY <1>3, <1>4, <2>1 DEF QuotaInv
  <2>2. CASE x # c
    BY <1>4, <2>2 DEF QuotaInv, OwnCallsOnly
  <2> QED BY <2>1, <2>2
<1> QED BY <1>1, <1>5, <1>6 DEF QuotaInv

LEMMA Waiting ==
    ASSUME QuotaInv, NEW c \in Call, call[c].pc \in {"org", "user"}
    PROVE  call[c] \in [pc : {"org", "user"}, at : Replica, org : Org, user : User]
<1>1. call[c] \in Requests
  BY DEF QuotaInv
<1> QED BY <1>1 DEF Requests

LEMMA CheckOrgStep ==
    ASSUME QuotaInv, NEW c \in Call, CheckOrg(c) PROVE QuotaInv'
<1>1. call[c].pc = "org" /\ UNCHANGED <<backend, now, ahead, sets>>
  BY DEF CheckOrg
<1>2. PICK k \in [pc : {"org", "user"}, at : Replica, org : Org, user : User] : k = call[c]
  BY <1>1, Waiting
<1>3. PICK s : s = [org |-> k.org, user |-> All]
  OBVIOUS
<1>4. s \in Scope /\ k.at \in Replica
  BY <1>3 DEF Scope
<1>5. PICK ok \in BOOLEAN :
        /\ Check(call[c].at, s, ok)
        /\ call' = [call EXCEPT ![c] = IF ok THEN [@ EXCEPT !.pc = "user"] ELSE Deny(c, s)]
  BY <1>2, <1>3 DEF CheckOrg
<1>6. PICK r : r = [k EXCEPT !.pc = "user"]
  OBVIOUS
<1>7. r \in Requests /\ r.pc # "denied"
  BY <1>6 DEF Requests
<1>8. call' = [call EXCEPT ![c] = IF ok THEN r ELSE Deny(c, s)]
  BY <1>2, <1>5, <1>6
<1>9. Check(call[c].at, s, ok) /\ call[c].at \in Replica
  BY <1>2, <1>4, <1>5
<1> QED BY <1>1, <1>4, <1>7, <1>8, <1>9, DenyStep

LEMMA CheckUserStep ==
    ASSUME QuotaInv, NEW c \in Call, CheckUser(c) PROVE QuotaInv'
<1>1. call[c].pc = "user" /\ UNCHANGED <<backend, now, ahead, sets>>
  BY DEF CheckUser
<1>2. PICK k \in [pc : {"org", "user"}, at : Replica, org : Org, user : User] : k = call[c]
  BY <1>1, Waiting
<1>3. PICK s : s = [org |-> k.org, user |-> k.user]
  OBVIOUS
<1>4. s \in Scope /\ k.at \in Replica
  BY <1>3 DEF Scope
<1>5. PICK ok \in BOOLEAN : /\ Check(call[c].at, s, ok)
                            /\ call' = [call EXCEPT ![c] = IF ok THEN Rest ELSE Deny(c, s)]
  BY <1>2, <1>3 DEF CheckUser
<1>6. Rest \in Requests /\ Rest.pc # "denied"
  BY DEF Requests, Rest
<1> QED BY <1>1, <1>2, <1>4, <1>5, <1>6, DenyStep

LEMMA ArriveStep ==
    ASSUME QuotaInv, NEW c \in Call, NEW p \in Replica, NEW o \in Org, NEW u \in User,
           Arrive(c, p, o, u)
    PROVE  QuotaInv'
<1>1. PICK r : r = [pc |-> "org", at |-> p, org |-> o, user |-> u]
  OBVIOUS
<1>2. /\ call' = [call EXCEPT ![c] = r]
      /\ UNCHANGED <<backend, now, ahead, bucket, counter, tally, sets>>
  BY <1>1 DEF Arrive
<1>3. r \in Requests /\ r.pc # "denied"
  BY <1>1 DEF Requests
<1>4. Limited'
  BY <1>2, UnchangedLimited DEF QuotaInv
<1>5. call' \in [Call -> Requests] /\ OwnCallsOnly'
  BY <1>2, <1>3 DEF QuotaInv, OwnCallsOnly
<1> QED BY <1>4, <1>5 DEF QuotaInv

LEMMA QuotaInvNext == QuotaInv /\ [QuotaNext]_quotaVars => QuotaInv'
<1> SUFFICES ASSUME QuotaInv, [QuotaNext]_quotaVars PROVE QuotaInv'
  OBVIOUS
<1>1. CASE Tick
  BY <1>1, TickStep DEF QuotaInv, Tick, OwnCallsOnly
<1>2. ASSUME NEW p \in Replica, NEW a \in Ahead, SetClock(p, a) PROVE QuotaInv'
  BY <1>2, SetClockStep DEF QuotaInv, SetClock, OwnCallsOnly
<1>3. ASSUME NEW c \in Call, CheckOrg(c) \/ CheckUser(c) PROVE QuotaInv'
  BY <1>3, CheckOrgStep, CheckUserStep
<1>4. ASSUME NEW c \in Call, NEW p \in Replica, NEW o \in Org, NEW u \in User, Arrive(c, p, o, u)
      PROVE  QuotaInv'
  BY <1>4, ArriveStep
<1>5. CASE UNCHANGED quotaVars
  <2>1. Limited'
    BY <1>5, UnchangedLimited DEF QuotaInv, quotaVars
  <2> QED BY <1>5, <2>1 DEF QuotaInv, quotaVars, OwnCallsOnly
<1> QED BY <1>1, <1>2, <1>3, <1>4, <1>5 DEF QuotaNext

(* The inductive invariant of the quota: what each limiter has counted was
   asked in its window, a counter of Redis has at most one successor, and a
   replica's bucket leaves it at most its limit per setting of its clock
   (quota.go:32-49, redis.go:13-57). *)
THEOREM QuotaInvariant == QuotaSpec => []QuotaInv
<1> QED BY QuotaInvInit, QuotaInvNext, PTL DEF QuotaSpec

(* Whatever the limits, the window, the replicas and what their clocks show, a
   call is rejected only if calls of its own organisation, or of its own user
   there, have used up that limit in that window (quota.go:74-82). *)
THEOREM RejectedForOwnCalls == QuotaSpec => []OwnCallsOnly
<1> QED BY QuotaInvariant, PTL DEF QuotaInv

(* A window lets at most the limit through in all replicas that count in Redis,
   at most twice that if their clocks differ or are set, and at most the limit
   per replica and setting of a clock without Redis; calls let through because
   Redis failed are not counted (quota.go:32-49, redis.go:13-57). *)
THEOREM AlwaysWithinLimit == QuotaSpec => []WithinLimit
<1>1. ASSUME QuotaInv PROVE WithinLimit
  <2> SUFFICES ASSUME NEW s \in Scope, NEW i \in Index
               PROVE  tally[s][i].passed <= Times * LimitOf(s)
    BY DEF WithinLimit
  <2>1. PICK l \in Nat, n \in Nat : l = LimitOf(s) /\ n = tally[s][i].passed
    BY <1>1, Limits, Numbers DEF QuotaInv, Limited
  <2>2. CASE backend = "redis" /\ Apart
    <3>1. Phase(counter[s][i], i, now, n, l)
      BY <1>1, <2>1, <2>2 DEF QuotaInv, Limited, InRedis
    <3>2. n <= 2 * l
      BY <3>1 DEF Phase
    <3> QED BY <2>1, <2>2, <3>2 DEF Times
  <2>3. CASE backend = "redis" /\ ~Apart
    <3>1. OneClock(counter[s][i], i, now, n, l)
      BY <1>1, <2>1, <2>3 DEF QuotaInv, Limited, InRedis
    <3>2. n <= l
      BY <3>1 DEF OneClock
    <3> QED BY <2>1, <2>3, <3>2 DEF Times
  <2>4. CASE backend # "redis"
    <3>1. PICK f : f = LeftOf(s, i)
      OBVIOUS
    <3>2. PICK m \in Nat : m = Cardinality(Replica) + sets
      BY <1>1, Replicas DEF QuotaInv, Limited, QuotaTypes
    <3>3. n + Cardinality(Below(f, l)) <= m * l
      BY <1>1, <2>1, <2>4, <3>1, <3>2 DEF QuotaInv, Limited, InMemory
    <3>4. Cardinality(Below(f, l)) \in Nat
      BY BelowFinite
    <3>5. PICK t \in Nat : t = m * l
      OBVIOUS
    <3>6. n <= m * l
      BY <3>3, <3>4, <3>5
    <3> QED BY <2>1, <2>4, <3>2, <3>6 DEF Times
  <2> QED BY <2>2, <2>3, <2>4
<1> QED BY <1>1, QuotaInvariant, PTL
=============================================================================
