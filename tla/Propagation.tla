---------------------------- MODULE Propagation ----------------------------
(***************************************************************************)
(* How one organisation's server definitions travel from the control       *)
(* plane's store to the gateway's catalog:                                 *)
(*                                                                         *)
(*   - admin request handlers (control-plane/internal/admin), which read a *)
(*     row, write it back and then publish an event, with no lock or       *)
(*     transaction around the three;                                       *)
(*   - Redis pub/sub (pkg/serverevents), which delivers in order to a      *)
(*     connected subscriber and drops what is published while there is     *)
(*     none;                                                               *)
(*   - the gateway (cmd/gateway, internal/server), which on a start reads  *)
(*     the enabled rows, applies them, and only then subscribes.           *)
(*                                                                         *)
(* What the gateway does with an event is Registry.tla's subject; here its *)
(* catalog is only which server it offers under each slug.                 *)
(***************************************************************************)
EXTENDS Integers, Sequences, FiniteSets

CONSTANTS
    Slug,
    Id,          \* server ids, never reused: the store's newID
    Cfg,         \* a server's configuration, all mutable fields but `enabled'
    Supported,   \* those whose type the gateway knows: remote_http, stdio
    Admin,       \* admin requests in flight at a time
    Ops,         \* the operations the admins use
    None,
    MaxOps,      \* bound: admin requests
    MaxDrops,    \* bound: events the bus loses though the gateway subscribes
    MaxRestarts  \* bound: gateway restarts

VARIABLES
    store,     \* table mcp_servers: the row of each id, or None
    used,      \* ids handed out by Create
    handler,   \* the admin request goroutines
    ops,       \* number of admin requests so far
    gateway,   \* "down", "read", "reconciled" or "up"
    snapshot,  \* the rows ListEnabled returned to the starting gateway
    catalog,   \* what the gateway offers under each slug: [id, cfg], or None
    queue,     \* events published and not yet applied by the subscriber
    amiss,     \* ghost: what went amiss since the gateway last read the rows:
               \* "bus", an event was lost; "gap", one was published before it
               \* subscribed; "store", the rows could not be read; "overlap",
               \* two admin requests ran at once; "forced", an upsert was
               \* announced for a server that is not offered
    drops, restarts

control == <<store, used, handler, ops>>
data == <<gateway, snapshot, catalog, queue, drops, restarts>>
vars == <<store, used, handler, ops,
          gateway, snapshot, catalog, queue, amiss, drops, restarts>>

-----------------------------------------------------------------------------
Row == [id : Id, slug : Slug, cfg : Cfg, enabled : BOOLEAN, cred : BOOLEAN]

ASSUME PropagationAssumption ==
    /\ Supported \subseteq Cfg
    /\ Ops \subseteq {"create", "patch", "delete", "put_cred", "delete_cred", "purge"}
    /\ MaxOps \in Nat /\ MaxDrops \in Nat /\ MaxRestarts \in Nat
    /\ None \notin Row

Rows == {store[id] : id \in Id} \ {None}
Offer(r) == [id |-> r.id, cfg |-> r.cfg]

UpsertEvent(r) == [action |-> "upsert", slug |-> r.slug, id |-> r.id, cfg |-> r.cfg]
RemoveEvent(r) == [action |-> "remove", slug |-> r.slug]

Idle == [pc |-> "idle"]
Publishing(e, rest) == [pc |-> "publish", event |-> e, rest |-> rest]
Purging(rs) == IF rs = {} THEN Idle ELSE [pc |-> "purge", rest |-> rs]

Init ==
    /\ store = [id \in Id |-> None]
    /\ used = {}
    /\ handler = [a \in Admin |-> Idle]
    /\ ops = 0
    /\ gateway = "up"
    /\ snapshot = {}
    /\ catalog = [s \in Slug |-> None]
    /\ queue = <<>>
    /\ amiss = {}
    /\ drops = 0
    /\ restarts = 0

-----------------------------------------------------------------------------
(* The admin handlers. *)

Begin(a, op) ==
    /\ handler[a] = Idle
    /\ op \in Ops
    /\ ops < MaxOps
    /\ ops' = ops + 1
    /\ amiss' = amiss \union (IF \E b \in Admin : handler[b] # Idle
                               THEN {"overlap"} ELSE {})

Reading(a, op, r) == handler' = [handler EXCEPT ![a] = [pc |-> op, row |-> r]]

(* handlers.go Create: the type is checked; the store rejects a slug already
   taken in the org; a created server is enabled and announced. *)
Create(a) ==
    /\ Begin(a, "create")
    /\ \E id \in Id \ used, s \in Slug, c \in Supported :
        LET r == [id |-> id, slug |-> s, cfg |-> c, enabled |-> TRUE, cred |-> FALSE] IN
        /\ \A other \in Rows : other.slug # s
        /\ used' = used \union {id}
        /\ store' = [store EXCEPT ![id] = r]
        /\ handler' = [handler EXCEPT ![a] = Publishing(UpsertEvent(r), {})]
    /\ UNCHANGED data

(* The reads with which Patch, Delete, PutOrgCredentials and
   DeleteOrgCredentials (after it deleted the secret) start. *)
Get(a) ==
    /\ \E op \in {"patch", "delete", "put_cred", "delete_cred"}, r \in Rows :
        Begin(a, op) /\ Reading(a, op, r)
    /\ UNCHANGED <<store, used, data>>

(* Update writes the whole row over what is stored; it fails if the row is
   gone. *)
Write(r) == store' = IF store[r.id] = None THEN store ELSE [store EXCEPT ![r.id] = r]

(* Patch: the fields sent are merged into the copy that was read. The type is
   one of them, and here nobody checks it. *)
AnnounceMutAlwaysUpsert(r) == UpsertEvent(r)
Announce(r) == IF r.enabled THEN UpsertEvent(r) ELSE RemoveEvent(r)
Patch(a) ==
    /\ handler[a].pc = "patch"
    /\ LET old == handler[a].row IN
       IF store[old.id] = None
       THEN UNCHANGED store /\ handler' = [handler EXCEPT ![a] = Idle]
       ELSE \E c \in Cfg, on \in BOOLEAN :
              LET r == [old EXCEPT !.cfg = c, !.enabled = on] IN
              /\ Write(r)
              /\ handler' = [handler EXCEPT ![a] = Publishing(Announce(r), {})]
    /\ UNCHANGED <<used, ops, data, amiss>>

(* Delete: the row, then the announcement under the slug that was read. *)
DeleteMutSilent(a) ==
    /\ handler[a].pc = "delete"
    /\ LET r == handler[a].row IN
        /\ store' = [store EXCEPT ![r.id] = None]
        /\ handler' = [handler EXCEPT ![a] = Idle]
    /\ UNCHANGED <<used, ops, data, amiss>>
Delete(a) ==
    /\ handler[a].pc = "delete"
    /\ LET r == handler[a].row IN
        /\ store' = [store EXCEPT ![r.id] = None]
        /\ handler' = [handler EXCEPT ![a] =
              IF store[r.id] = None THEN Idle ELSE Publishing(RemoveEvent(r), {})]
    /\ UNCHANGED <<used, ops, data, amiss>>

(* PutOrgCredentials, once the secret is stored: the row is rewritten only to
   record that there is one, its error is ignored, and the copy that was read
   is announced by an upsert whether or not the server is enabled.
   DeleteOrgCredentials clears the mark in the same way. *)
AnnounceCred(a, r) ==
    /\ handler' = [handler EXCEPT ![a] = Publishing(UpsertEvent(r), {})]
    /\ amiss' = amiss \union (IF r.enabled /\ store[r.id] # None THEN {} ELSE {"forced"})

PutCred(a) ==
    /\ handler[a].pc = "put_cred"
    /\ LET r == [handler[a].row EXCEPT !.cred = TRUE] IN
        /\ IF handler[a].row.cred THEN UNCHANGED store ELSE Write(r)
        /\ AnnounceCred(a, r)
    /\ UNCHANGED <<used, ops, data>>

DeleteCred(a) ==
    /\ handler[a].pc = "delete_cred"
    /\ LET r == [handler[a].row EXCEPT !.cred = FALSE] IN
        /\ Write(r)
        /\ AnnounceCred(a, r)
    /\ UNCHANGED <<used, ops, data>>

(* PurgeOrg: the org's servers are listed once, then deleted and announced
   one by one; a row that is gone already is skipped. *)
PurgeList(a) ==
    /\ Begin(a, "purge")
    /\ handler' = [handler EXCEPT ![a] = Purging(Rows)]
    /\ UNCHANGED <<store, used, data>>

PurgeOne(a) ==
    /\ handler[a].pc = "purge"
    /\ \E r \in handler[a].rest :
        LET rest == handler[a].rest \ {r} IN
        /\ store' = [store EXCEPT ![r.id] = None]
        /\ handler' = [handler EXCEPT ![a] =
              IF store[r.id] = None THEN Purging(rest)
              ELSE Publishing(RemoveEvent(r), rest)]
    /\ UNCHANGED <<used, ops, data, amiss>>

(* busSink: the event goes to the subscriber, if there is one and Redis does
   not lose it; an error is ignored. A control plane that stops between the
   write and here has lost its event too. *)
Publish(a) ==
    /\ handler[a].pc = "publish"
    /\ handler' = [handler EXCEPT ![a] = Purging(handler[a].rest)]
    /\ \/ /\ gateway = "up"
          /\ queue' = Append(queue, handler[a].event)
          /\ UNCHANGED <<amiss, drops>>
       \/ /\ gateway = "up"
          /\ drops < MaxDrops
          /\ drops' = drops + 1
          /\ amiss' = amiss \union {"bus"}
          /\ UNCHANGED queue
       \/ /\ gateway # "up"
          /\ amiss' = amiss \union {"gap"}
          /\ UNCHANGED <<queue, drops>>
    /\ UNCHANGED <<store, used, ops, gateway, snapshot, catalog, restarts>>

-----------------------------------------------------------------------------
(* The gateway. *)

(* applyServerEvent: the catalog is keyed by slug; an upsert of a type the
   gateway does not know is logged, and what was offered stays. *)
Effective(e) == e.action = "remove" \/ e.cfg \in Supported
Deliver ==
    /\ gateway = "up" /\ queue # <<>>
    /\ LET e == Head(queue) IN
        catalog' = IF ~Effective(e) THEN catalog
                   ELSE [catalog EXCEPT ![e.slug] =
                     IF e.action = "upsert" THEN [id |-> e.id, cfg |-> e.cfg] ELSE None]
    /\ queue' = Tail(queue)
    /\ UNCHANGED <<control, gateway, snapshot, amiss, drops, restarts>>

(* The gateway stops or crashes: the catalog lives in memory only. *)
Stop ==
    /\ gateway # "down"
    /\ restarts < MaxRestarts
    /\ restarts' = restarts + 1
    /\ gateway' = "down"
    /\ catalog' = [s \in Slug |-> None]
    /\ queue' = <<>>
    /\ snapshot' = {}
    /\ UNCHANGED <<control, amiss, drops>>

(* What a reconcile repairs: everything but what an unfinished request will
   still announce. *)
AllIdle == \A a \in Admin : handler[a] = Idle
StillAmiss == IF AllIdle THEN {} ELSE amiss \intersect {"overlap", "forced"}

(* Start, Reconcile: ListEnabled reads the enabled rows in one transaction. *)
ReconcileRead ==
    /\ gateway = "down"
    /\ gateway' = "read"
    /\ snapshot' = {r \in Rows : r.enabled}
    /\ amiss' = StillAmiss
    /\ UNCHANGED <<control, catalog, queue, drops, restarts>>

(* Each row read is applied as an upsert, to a catalog that is empty. *)
Applied == {r \in snapshot : Effective(UpsertEvent(r))}
ReconcileApply ==
    /\ gateway = "read"
    /\ gateway' = "reconciled"
    /\ catalog' = [s \in Slug |->
          IF \E r \in Applied : r.slug = s
          THEN Offer(CHOOSE r \in Applied : r.slug = s) ELSE None]
    /\ snapshot' = {}
    /\ UNCHANGED <<control, queue, amiss, drops, restarts>>

(* The database cannot be read: logged, and the start goes on. *)
ReconcileFail ==
    /\ gateway = "down"
    /\ gateway' = "reconciled"
    /\ amiss' = StillAmiss \union {"store"}
    /\ UNCHANGED <<control, snapshot, catalog, queue, drops, restarts>>

SubscribeServers ==
    /\ gateway = "reconciled"
    /\ gateway' = "up"
    /\ UNCHANGED <<control, snapshot, catalog, queue, amiss, drops, restarts>>

-----------------------------------------------------------------------------
Handle(a) ==
    \/ Patch(a)
    \/ Delete(a)
    \/ PutCred(a)
    \/ DeleteCred(a)
    \/ PurgeOne(a)
    \/ Publish(a)

Start ==
    \/ ReconcileRead
    \/ ReconcileFail
    \/ ReconcileApply
    \/ SubscribeServers

Next ==
    \/ \E a \in Admin : Create(a)
    \/ \E a \in Admin : Get(a)
    \/ \E a \in Admin : PurgeList(a)
    \/ \E a \in Admin : Handle(a)
    \/ Deliver
    \/ Stop
    \/ Start

Spec == Init /\ [][Next]_vars

(* A started handler runs to its end, a started gateway finishes starting and
   its event loop runs; nobody is obliged to make requests. *)
Fairness ==
    /\ \A a \in Admin : WF_vars(Handle(a))
    /\ WF_vars(Deliver)
    /\ WF_vars(Start)

FairSpec == Spec /\ Fairness

-----------------------------------------------------------------------------
(* Types; ids are never handed out twice and a row stays under its id. *)
TypeOK ==
    /\ store \in [Id -> Row \union {None}]
    /\ \A id \in Id : store[id] # None => store[id].id = id /\ id \in used
    /\ gateway \in {"down", "read", "reconciled", "up"}
    /\ catalog \in [Slug -> [id : Id, cfg : Cfg] \union {None}]
    /\ snapshot \subseteq Row
    /\ amiss \subseteq {"bus", "gap", "store", "overlap", "forced"}

Quiet == AllIdle /\ queue = <<>> /\ gateway = "up"

(* The catalog offers the enabled server of each slug as it is stored. If that
   is of a type the gateway does not know, it offers nothing or the same server
   as it was before the type was set. *)
EnabledAs(s) == {r \in Rows : r.slug = s /\ r.enabled}
Agrees ==
    \A s \in Slug :
        /\ EnabledAs(s) = {} => catalog[s] = None
        /\ \A r \in EnabledAs(s) :
              IF r.cfg \in Supported THEN catalog[s] = Offer(r)
              ELSE catalog[s] = None \/ catalog[s].id = r.id

(* One slug names one server, through concurrent creates, deletes and the
   writing back of rows deleted since they were read: what makes a catalog
   keyed by slug possible (store.go:81-131, postgres.go:110-190). *)
OneRowPerSlug == \A q, r \in Rows : q.slug = r.slug => q.id = r.id

(* The catalog differs from the store only if one of five things happened
   since the gateway last read it: an event was lost, or published between the
   read and the subscription (reconcile.go:17-18 calls that order safe), or the
   rows could not be read, or two requests for the org overlapped, or a
   credential change announced a server that is disabled or gone; and where a
   server was given a type the gateway does not know, as Agrees says. In
   particular a restart repairs what went amiss before it
   (cmd/gateway/main.go:33-45, handlers.go:63-200, server.go:155-200). *)
AgreesUnlessAmiss == Quiet /\ amiss = {} => Agrees

(* Once the admins make no more requests the gateway catches up with the
   store, without a redeploy, unless one of these things happened since its
   last reconcile (handlers.go:63-200, server.go:145-200). *)
CatchesUp == <>[](amiss # {} \/ Agrees)
=============================================================================
