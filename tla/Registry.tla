------------------------------ MODULE Registry ------------------------------
(***************************************************************************)
(* One organisation's downstream registry in the gateway, with everything  *)
(* that runs against it concurrently:                                      *)
(*                                                                         *)
(*   - MCP requests (internal/mcp/handler.go), each a goroutine that checks *)
(*     RBAC, looks a server up, may build a per-user instance outside the  *)
(*     registry's lock, and then calls the instance it got;                *)
(*   - the event loop (internal/server/server.go), one goroutine that      *)
(*     applies the control plane's events: upsert, remove, credential      *)
(*     changed;                                                            *)
(*   - the control plane, reduced to what it writes (the secret store) and *)
(*     publishes (the bus, in order; Propagation.tla models its loss).     *)
(*                                                                         *)
(* A critical section of Registry.mu is one action.  What the code does     *)
(* between two critical sections, building an instance, closing one,       *)
(* calling one, is an action of its own.                                   *)
(***************************************************************************)
EXTENDS Integers, Sequences, FiniteSets, Functions

CONSTANTS
    Slug, User, Role,
    Proc,       \* request goroutines
    Inst,       \* downstream objects (sandbox.Server), one per build
    Shared,     \* owner of an instance that serves the whole org
    NoInst,     \* the nil Downstream
    MaxVer,     \* bound: upserts and removes the control plane publishes
    MaxRot,     \* bound: changes of secrets
    MaxBus      \* bound: events published and not yet taken

ASSUME RegistryAssumption ==
    /\ Shared \notin User
    /\ NoInst \notin Inst
    /\ MaxVer \in Nat
    /\ MaxRot \in Nat
    /\ MaxBus \in Nat

VARIABLES
    servers,  \* Registry.servers, and Absent for a slug it does not hold
    order,    \* Registry.order
    obj,      \* what each downstream object was built from, or Unbuilt
    closed,   \* objects on which Close was called
    req,      \* the request goroutines
    loop,     \* the event-loop goroutine
    bus,      \* events published and not yet taken by the loop
    spec,     \* the last configuration published for each slug
    row,      \* the id of the server stored under each slug, or NoServer
    home,     \* the server id that the event of each version carries
    secret,   \* the secret store: for each server id, whether each owner has
              \* a secret, and its version
    ver,      \* number of upserts and removes published
    rot       \* number of changes of secrets

registry == <<servers, order>>
objects == <<obj, closed>>
stored == <<spec, row, home, secret>>
control == <<bus, spec, row, home, secret, ver, rot>>
vars == <<servers, order, obj, closed, req, loop,
          bus, spec, row, home, secret, ver, rot>>

-----------------------------------------------------------------------------
Owner == User \union {Shared}
Mode == {"shared", "per_user", "unsupported"}
Absent == [mode |-> "absent"]
Unbuilt == [slug |-> "none"]
NoSecret == [set |-> FALSE, ver |-> 0]

(* Server ids: a created server gets the number of the event that announces
   it. The secrets of a deleted one stay in the store. *)
NoServer == 0
ServerId == 0..MaxVer

(* What the control plane publishes about a server: an Event of
   pkg/serverevents, its configuration reduced to a version number. "shared"
   stands for the credential modes none and org_shared; the id is home[ver]. *)
Config == [mode : Mode, roles : SUBSET Role, ver : 1..MaxVer]
Upsert(s, cfg) == [action |-> "upsert", slug |-> s, cfg |-> cfg]
Removal(s) == [action |-> "remove", slug |-> s]
CredentialChanged(s, u) == [action |-> "credential", slug |-> s, user |-> u]

(* An entry of the registry: one fixed instance, or a provider (named by the
   version of the event it captured) and the instances it built. *)
NoUsers == [u \in User |-> NoInst]
Fixed(i, cfg) ==
    [mode |-> "shared", ver |-> cfg.ver, roles |-> cfg.roles,
     ds |-> i, users |-> NoUsers]
PerUser(cfg) ==
    [mode |-> "per_user", ver |-> cfg.ver, roles |-> cfg.roles,
     ds |-> NoInst, users |-> NoUsers]

Registered == {s \in Slug : servers[s] # Absent}
Held(e) == IF e = Absent THEN {}
           ELSE ({e.ds} \union Range(e.users)) \ {NoInst}
Cached == UNION {Held(servers[s]) : s \in Slug}
Fresh == {i \in Inst : obj[i] = Unbuilt}
Built == Inst \ Fresh

rolesAllow(allowed, have) == allowed = {} \/ allowed \intersect have # {}

(* VisibleSlugs: the positions of `order' open to the roles, and a list f of
   them in increasing order. A slug of `order' that is not registered has the
   zero entry, which is open to everyone. *)
EntryRoles(s) == IF servers[s] = Absent THEN {} ELSE servers[s].roles
Visible(roles) == {n \in DOMAIN order : rolesAllow(EntryRoles(order[n]), roles)}
VisibleSlugs(roles) ==
    LET K == Visible(roles)
    IN  {[n \in DOMAIN f |-> order[f[n]]] :
            f \in {g \in [1..Cardinality(K) -> K] : \A m, n \in DOMAIN g : m < n => g[m] < g[n]}}

Idle == [pc |-> "idle"]
Resting == [pc |-> "take", closing |-> {}]

Init ==
    /\ servers = [s \in Slug |-> Absent]
    /\ order = <<>>
    /\ obj = [i \in Inst |-> Unbuilt]
    /\ closed = {}
    /\ req = [p \in Proc |-> Idle]
    /\ loop = Resting
    /\ bus = <<>>
    /\ spec = [s \in Slug |-> Absent]
    /\ row = [s \in Slug |-> NoServer]
    /\ home = [v \in 0..MaxVer |-> NoServer]
    /\ secret = [id \in ServerId |-> [o \in Owner |-> NoSecret]]
    /\ ver = 0
    /\ rot = 0

-----------------------------------------------------------------------------
(* Instances. *)

(* A new downstream object for s, built from configuration v with version x of
   a secret. *)
MakeObject(i, s, o, v, x) ==
    obj' = [obj EXCEPT ![i] = [slug |-> s, owner |-> o, ver |-> v, sec |-> x, late |-> FALSE]]

(* The secret of o that whoever has configuration v reads: the one of the
   server v is of, be it stored still or not. *)
Credentials(v, o) == secret[home[v]][o]
Unread == -1

(* The ghost `late': a credential event of the owner was consumed while a
   request had the object in hand. *)
MarkLate(s, u) ==
    obj' = [i \in Inst |->
               IF obj[i] # Unbuilt /\ i \notin Cached \union closed
                  /\ obj[i].slug = s /\ obj[i].owner = u
               THEN [obj[i] EXCEPT !.late = TRUE] ELSE obj[i]]

(* closeDownstream. It waits for the object's mutex, which a request holds
   from the launch of the process to the answer to initialize. *)
Shaking(i) == \E p \in Proc : req[p].pc = "handshake" /\ req[p].inst = i
CloseObject(i) == ~Shaking(i) /\ closed' = closed \union {i}

-----------------------------------------------------------------------------
(* Requests. `todo' is the list of slugs still to be asked: one for
   tools/call, the visible ones for tools/list. `asof' is a ghost: the versions
   of the entries when the roles were checked. *)

VerOf(s) == IF servers[s] = Absent THEN 0 ELSE servers[s].ver
Begin(p, user, roles, todo) ==
    req' = [req EXCEPT ![p] =
        [pc |-> "lookup", user |-> user, roles |-> roles, todo |-> todo,
         asof |-> [s \in Slug |-> VerOf(s)],
         prov |-> 0, inst |-> NoInst, mine |-> NoInst]]

(* toolsCall up to its RBAC check; a denied call changes nothing here. *)
CallCheckMutNoRoles(p) ==
    /\ req[p].pc = "idle"
    /\ \E user \in User, roles \in SUBSET Role, s \in Registered :
        Begin(p, user, roles, <<s>>)
    /\ UNCHANGED <<registry, objects, control, loop>>
CallCheck(p) ==
    /\ req[p].pc = "idle"
    /\ \E user \in User, roles \in SUBSET Role, s \in Registered :
        /\ rolesAllow(servers[s].roles, roles)
        /\ Begin(p, user, roles, <<s>>)
    /\ UNCHANGED <<registry, objects, control, loop>>

(* aggregate up to its loop over the visible servers. *)
ListCheck(p) ==
    /\ req[p].pc = "idle"
    /\ \E user \in User, roles \in SUBSET Role :
        /\ Visible(roles) # {}
        /\ \E todo \in VisibleSlugs(roles) : Begin(p, user, roles, todo)
    /\ UNCHANGED <<registry, objects, control, loop>>

(* The request is done with the first slug: it asks the next one, or ends. *)
NextSlug(p) ==
    req' = [req EXCEPT ![p] =
        IF Len(req[p].todo) = 1 THEN Idle
        ELSE [req[p] EXCEPT !.pc = "lookup", !.todo = Tail(@), !.prov = 0,
                            !.inst = NoInst, !.mine = NoInst]]

UseInst(p, i) ==
    req' = [req EXCEPT ![p] = [@ EXCEPT !.pc = "use", !.inst = i, !.mine = NoInst]]

(* GetForUser under the read lock: the fixed instance, the user's cached one,
   or the provider to build one with. *)
Found(e, user) == IF e.ds # NoInst THEN e.ds ELSE e.users[user]
LookupMutAnyUser(p) ==
    LET r == req[p]
        s == Head(r.todo)
        e == servers[s]
    IN  /\ r.pc = "lookup"
        /\ \/ /\ e = Absent
              /\ NextSlug(p)
           \/ /\ e # Absent
              /\ \E i \in Held(e) : UseInst(p, i)
           \/ /\ e # Absent
              /\ Held(e) = {}
              /\ req' = [req EXCEPT ![p] = [@ EXCEPT !.pc = "build", !.prov = e.ver]]
        /\ UNCHANGED <<registry, objects, control, loop>>
Lookup(p) ==
    LET r == req[p]
        s == Head(r.todo)
        e == servers[s]
    IN  /\ r.pc = "lookup"
        /\ \/ /\ e = Absent
              /\ NextSlug(p)
           \/ /\ e # Absent
              /\ Found(e, r.user) # NoInst
              /\ UseInst(p, Found(e, r.user))
           \/ /\ e # Absent
              /\ Found(e, r.user) = NoInst
              /\ req' = [req EXCEPT ![p] = [@ EXCEPT !.pc = "build", !.prov = e.ver]]
        /\ UNCHANGED <<registry, objects, control, loop>>

(* The captured provider, outside the lock: it reads the caller's secret, and
   fails if there is none or the store does not answer. *)
Build(p) ==
    LET r == req[p]
        s == Head(r.todo)
    IN  /\ r.pc = "build"
        /\ \/ /\ NextSlug(p)
              /\ UNCHANGED obj
           \/ /\ Credentials(r.prov, r.user).set
              /\ \E i \in Fresh :
                    /\ MakeObject(i, s, r.user, r.prov, Credentials(r.prov, r.user).ver)
                    /\ req' = [req EXCEPT ![p] = [@ EXCEPT !.pc = "store", !.mine = i]]
        /\ UNCHANGED <<registry, closed, control, loop>>

(* GetForUser under the write lock: the entry is gone or no longer per-user,
   another request won the race, or the instance is cached. The first two
   leave an instance for the request to close. *)
StoreMutNoRecheck(p) ==
    LET r == req[p]
        s == Head(r.todo)
        e == servers[s]
    IN  /\ r.pc = "store"
        /\ \/ /\ e.mode # "per_user"
              /\ req' = [req EXCEPT ![p] = [@ EXCEPT !.pc = "discard", !.inst = NoInst]]
              /\ UNCHANGED servers
           \/ /\ e.mode = "per_user"
              /\ servers' = [servers EXCEPT ![s] = [e EXCEPT !.users[r.user] = r.mine]]
              /\ UseInst(p, r.mine)
        /\ UNCHANGED <<order, objects, control, loop>>
Store(p) ==
    LET r == req[p]
        s == Head(r.todo)
        e == servers[s]
    IN  /\ r.pc = "store"
        /\ \/ /\ e.mode # "per_user"
              /\ req' = [req EXCEPT ![p] = [@ EXCEPT !.pc = "discard", !.inst = NoInst]]
              /\ UNCHANGED servers
           \/ /\ e.mode = "per_user"
              /\ e.users[r.user] # NoInst
              /\ req' = [req EXCEPT ![p] =
                            [@ EXCEPT !.pc = "discard", !.inst = e.users[r.user]]]
              /\ UNCHANGED servers
           \/ /\ e.mode = "per_user"
              /\ e.users[r.user] = NoInst
              /\ servers' = [servers EXCEPT ![s] = [e EXCEPT !.users[r.user] = r.mine]]
              /\ UseInst(p, r.mine)
        /\ UNCHANGED <<order, objects, control, loop>>

(* The request closes the instance it built in vain, then uses the winner or
   reports ErrNotFound. *)
DiscardMutNoClose(p) ==
    /\ req[p].pc = "discard"
    /\ IF req[p].inst = NoInst THEN NextSlug(p) ELSE UseInst(p, req[p].inst)
    /\ UNCHANGED <<registry, objects, control, loop>>
Discard(p) ==
    /\ req[p].pc = "discard"
    /\ CloseObject(req[p].mine)
    /\ IF req[p].inst = NoInst THEN NextSlug(p) ELSE UseInst(p, req[p].inst)
    /\ UNCHANGED <<registry, obj, control, loop>>

(* CallTool or ListTools on the instance. Its mutex is taken first, and kept
   for a handshake if there is to be one (SandboxServer.tla tells when, and what
   becomes of the process); the call itself, which may hang, holds no lock that
   anyone here waits for. *)
Use(p) ==
    /\ req[p].pc = "use"
    /\ ~Shaking(req[p].inst)
    /\ \/ NextSlug(p)
       \/ req' = [req EXCEPT ![p] = [@ EXCEPT !.pc = "handshake"]]
    /\ UNCHANGED <<registry, objects, control, loop>>

Handshake(p) ==
    /\ req[p].pc = "handshake"
    /\ NextSlug(p)
    /\ UNCHANGED <<registry, objects, control, loop>>

-----------------------------------------------------------------------------
(* The event loop. Its steps for one event are: build the instance of a
   shared server (reading the org's secret), change the registry under its
   lock, close what the change dropped, one instance at a time. *)

Event == Head(bus)
ToClose(S) == IF S = {} THEN Resting ELSE [pc |-> "close", closing |-> S]

(* An upsert whose type the data plane does not support, and a removal or
   credential change of a server it does not hold, are consumed and ignored. *)
IgnoreEvent ==
    /\ loop.pc = "take" /\ bus # <<>>
    /\ \/ Event.action = "upsert" /\ Event.cfg.mode = "unsupported" /\ UNCHANGED obj
       \/ Event.action = "remove" /\ Event.slug \notin Registered /\ UNCHANGED obj
       \/ /\ Event.action = "credential" /\ servers[Event.slug].mode # "per_user"
          /\ MarkLate(Event.slug, Event.user)
    /\ bus' = Tail(bus)
    /\ UNCHANGED <<registry, closed, req, loop, stored, ver, rot>>

(* If the org's secret cannot be read the instance is built without one. *)
ResolveShared ==
    /\ loop.pc = "take" /\ bus # <<>>
    /\ Event.action = "upsert" /\ Event.cfg.mode = "shared"
    /\ \E i \in Fresh, x \in {Credentials(Event.cfg.ver, Shared).ver, Unread} :
        /\ MakeObject(i, Event.slug, Shared, Event.cfg.ver, x)
        /\ loop' = [pc |-> "add", slug |-> Event.slug, cfg |-> Event.cfg,
                    inst |-> i, closing |-> {}]
    /\ bus' = Tail(bus)
    /\ UNCHANGED <<registry, closed, req, stored, ver, rot>>

(* The locked part of AddScoped and of AddProvider. *)
PutMutForget(s, e) ==
    /\ order' = IF s \in Registered THEN order ELSE Append(order, s)
    /\ servers' = [servers EXCEPT ![s] = e]
    /\ loop' = Resting
Put(s, e) ==
    /\ order' = IF s \in Registered THEN order ELSE Append(order, s)
    /\ servers' = [servers EXCEPT ![s] = e]
    /\ loop' = ToClose(Held(servers[s]))

AddScoped ==
    /\ loop.pc = "add"
    /\ Put(loop.slug, Fixed(loop.inst, loop.cfg))
    /\ UNCHANGED <<objects, req, control>>

AddProvider ==
    /\ loop.pc = "take" /\ bus # <<>>
    /\ Event.action = "upsert" /\ Event.cfg.mode = "per_user"
    /\ Put(Event.slug, PerUser(Event.cfg))
    /\ bus' = Tail(bus)
    /\ UNCHANGED <<objects, req, stored, ver, rot>>

(* Remove: the kill switch. *)
RemoveMutStaleOrder ==
    /\ loop.pc = "take" /\ bus # <<>>
    /\ Event.action = "remove" /\ Event.slug \in Registered
    /\ servers' = [servers EXCEPT ![Event.slug] = Absent]
    /\ loop' = ToClose(Held(servers[Event.slug]))
    /\ bus' = Tail(bus)
    /\ UNCHANGED <<order, objects, req, stored, ver, rot>>
Remove ==
    /\ loop.pc = "take" /\ bus # <<>>
    /\ Event.action = "remove" /\ Event.slug \in Registered
    /\ servers' = [servers EXCEPT ![Event.slug] = Absent]
    /\ \E n \in DOMAIN order :
        /\ order[n] = Event.slug
        /\ order' = SubSeq(order, 1, n - 1) \o SubSeq(order, n + 1, Len(order))
    /\ loop' = ToClose(Held(servers[Event.slug]))
    /\ bus' = Tail(bus)
    /\ UNCHANGED <<objects, req, stored, ver, rot>>

(* Invalidate: drop one user's cached instance. *)
Invalidate ==
    LET e == servers[Event.slug]
        i == e.users[Event.user]
    IN  /\ loop.pc = "take" /\ bus # <<>>
        /\ Event.action = "credential" /\ e.mode = "per_user"
        /\ servers' = [servers EXCEPT ![Event.slug] =
                          [e EXCEPT !.users[Event.user] = NoInst]]
        /\ loop' = ToClose({i} \ {NoInst})
        /\ MarkLate(Event.slug, Event.user)
        /\ bus' = Tail(bus)
        /\ UNCHANGED <<order, closed, req, stored, ver, rot>>

(* closeDownstream for one dropped instance, after the lock is released. *)
CloseDropped ==
    /\ loop.pc = "close"
    /\ \E i \in loop.closing :
        /\ CloseObject(i)
        /\ loop' = ToClose(loop.closing \ {i})
    /\ UNCHANGED <<registry, obj, req, control>>

-----------------------------------------------------------------------------
(* The control plane: store, then publish. *)

(* A server is created, patched or enabled again. *)
PublishUpsert ==
    /\ ver < MaxVer
    /\ Len(bus) < MaxBus
    /\ \E s \in Slug, m \in Mode, roles \in SUBSET Role :
        LET cfg == [mode |-> m, roles |-> roles, ver |-> ver + 1]
            id == IF row[s] = NoServer THEN ver + 1 ELSE row[s] IN
        /\ row' = [row EXCEPT ![s] = id]
        /\ home' = [home EXCEPT ![ver + 1] = id]
        /\ spec' = [spec EXCEPT ![s] = cfg]
        /\ bus' = Append(bus, Upsert(s, cfg))
    /\ ver' = ver + 1
    /\ UNCHANGED <<registry, objects, req, loop, secret, rot>>

(* A server is deleted; or it is disabled, or patched while disabled, which
   leaves its row. *)
PublishRemove ==
    /\ ver < MaxVer
    /\ Len(bus) < MaxBus
    /\ \E s \in Slug :
        /\ row[s] # NoServer
        /\ spec' = [spec EXCEPT ![s] = Absent]
        /\ row' \in {row, [row EXCEPT ![s] = NoServer]}
        /\ bus' = Append(bus, Removal(s))
    /\ ver' = ver + 1
    /\ UNCHANGED <<registry, objects, req, loop, home, secret, rot>>

(* A secret of a stored server is set, rotated or deleted; the org's is
   announced by a full upsert, a user's by a targeted event, which names the
   slug. *)
SetSecret(id, o) ==
    /\ rot < MaxRot
    /\ rot' = rot + 1
    /\ \E set \in BOOLEAN :
          secret' = [secret EXCEPT ![id][o] = [set |-> set, ver |-> rot + 1]]
RotateMutPublishOnly ==
    /\ Len(bus) < MaxBus
    /\ \E s \in Slug, o \in Owner :
        /\ row[s] # NoServer
        /\ o = Shared => spec[s] # Absent
        /\ SetSecret(row[s], o)
        /\ bus' = IF o = Shared THEN bus ELSE Append(bus, CredentialChanged(s, o))
    /\ UNCHANGED <<registry, objects, req, loop, spec, row, home, ver>>
RotateSecret ==
    /\ Len(bus) < MaxBus
    /\ \E s \in Slug, o \in Owner :
        /\ row[s] # NoServer
        /\ o = Shared => spec[s] # Absent
        /\ SetSecret(row[s], o)
        /\ bus' = Append(bus, IF o = Shared THEN Upsert(s, spec[s])
                              ELSE CredentialChanged(s, o))
    /\ UNCHANGED <<registry, objects, req, loop, spec, row, home, ver>>

-----------------------------------------------------------------------------
GetForUser(p) ==
    \/ Lookup(p)
    \/ Build(p)
    \/ Store(p)
    \/ Discard(p)

Loop ==
    \/ IgnoreEvent
    \/ ResolveShared
    \/ AddScoped
    \/ AddProvider
    \/ Remove
    \/ Invalidate
    \/ CloseDropped

Next ==
    \/ \E p \in Proc : CallCheck(p)
    \/ \E p \in Proc : ListCheck(p)
    \/ \E p \in Proc : GetForUser(p)
    \/ \E p \in Proc : Use(p)
    \/ \E p \in Proc : Handshake(p)
    \/ Loop
    \/ PublishUpsert
    \/ PublishRemove
    \/ RotateSecret

Spec == Init /\ [][Next]_vars

(* Goroutines are scheduled, the secret store answers or times out, and a Close
   returns unless a handshake holds the object; nobody is obliged to send
   requests or to change servers, and a handshake or a call may hang. *)
Fairness ==
    /\ WF_vars(Loop)
    /\ \A p \in Proc : WF_vars(GetForUser(p))

FairSpec == Spec /\ Fairness

-----------------------------------------------------------------------------
(* Who is responsible for an object: the entry that caches it, the request
   that built it and has not stored or closed it, the loop that is about to
   register it, the loop that is about to close it. *)
BuiltBy(p) == IF req[p].pc \in {"store", "discard"} THEN {req[p].mine} ELSE {}
InHand == UNION {BuiltBy(p) : p \in Proc}
Adding == IF loop.pc = "add" THEN {loop.inst} ELSE {}

EntryType(e, s) ==
    \/ e = Absent
    \/ /\ e.mode = "shared"
       /\ e = Fixed(e.ds, [ver |-> e.ver, roles |-> e.roles])
       /\ e.ds \in Inst
    \/ /\ e.mode = "per_user"
       /\ e.ds = NoInst
       /\ e.users \in [User -> Inst \union {NoInst}]

(* Types; in particular a fixed entry never holds per-user instances and a
   per-user one never a fixed instance, though both kinds replace each other
   while requests build (downstream.go:31-36, 147-188). *)
TypeOK ==
    /\ \A s \in Slug : EntryType(servers[s], s)
    /\ order \in Seq(Slug)
    /\ closed \subseteq Built
    /\ loop.closing \subseteq Built
    /\ \A p \in Proc : req[p].pc = "use" => req[p].inst \in Built
    /\ \A p \in Proc : BuiltBy(p) \subseteq Built

(* The two halves of the registry agree: `order' lists each registered slug
   once and nothing else. VisibleSlugs depends on it, because a stale slug
   would read as an entry open to everyone (downstream.go:54-100, 217-227). *)
OrderMatches ==
    /\ Range(order) = Registered
    /\ IsInjective(order)

(* No open instance is ever without somebody who will close it or can still
   hand it to a remove: replacement, invalidation, lost build races and
   removal during a build leak nothing (downstream.go:53, 84-128, 168-188). *)
NothingLost == Built \ closed \subseteq Cached \union InHand \union Adding
                                         \union loop.closing

(* An instance has one owner at a time and is closed at most once: nothing
   that is cached, about to be cached or about to be closed is closed
   already, and no two owners share one (downstream.go:107-128, 168-205). *)
OneOwner ==
    /\ (Cached \union InHand \union Adding \union loop.closing) \intersect closed = {}
    /\ Cached \intersect (InHand \union loop.closing \union Adding) = {}
    /\ InHand \intersect loop.closing = {}
    /\ \A p, q \in Proc : p # q => BuiltBy(p) \intersect BuiltBy(q) = {}
    /\ \A s, t \in Slug : s # t => Held(servers[s]) \intersect Held(servers[t]) = {}

(* A request only ever uses an instance of the server it asked for that was
   built with its own user's secret or the organisation's: never another
   user's, through every cache hit and lost race (downstream.go:147-188,
   mcp-endpoint.md:53 of specs/001-mcp-server-runtime/contracts). *)
OwnCredentials ==
    \A p \in Proc : req[p].pc = "use" =>
        LET o == obj[req[p].inst] IN
        /\ o.slug = Head(req[p].todo)
        /\ o.owner \in {req[p].user, Shared}

(* Roles are enforced on the call, not just on listing (handler.go:115): a
   request gets an instance from an entry whose roles forbid it only if that
   entry was put in place after the request was checked, since CanAccess and
   GetForUser take the lock one after the other and GetForUser does not look at
   roles (handler.go:117-123, downstream.go:147-188). *)
RBACOnCall ==
    [][\A p \in Proc :
         LET s == Head(req[p].todo) IN
         Lookup(p) /\ req'[p].pc = "use" /\ req[p].asof[s] = VerOf(s) =>
             rolesAllow(servers[s].roles, req[p].roles)]_vars

Quiet == bus = <<>> /\ loop.pc = "take"
Supported(s) == spec[s] = Absent \/ spec[s].mode # "unsupported"

(* Once the loop has applied every event, the registry is what was last
   published, and a shared instance was built from that configuration with
   the current org secret, or without if that could not be read
   (server.go:155-200, creds.go:17-34). A per-user one was built with its
   user's current secret, with two exceptions: a request was storing it while
   the rotation was applied, since Invalidate drops only what is cached
   (downstream.go:107-127); or it was built for another server, which had the
   slug before, since a build that ends finds the entry by slug and user alone
   (downstream.go:173-185, creds.go:42). *)
AppliedInFull ==
    Quiet => \A s \in Slug : Supported(s) =>
        /\ (servers[s] = Absent) <=> (spec[s] = Absent)
        /\ servers[s] # Absent =>
              /\ servers[s].mode = spec[s].mode
              /\ servers[s].ver = spec[s].ver
              /\ servers[s].roles = spec[s].roles
              /\ servers[s].mode = "shared" =>
                    LET o == obj[servers[s].ds] IN
                    /\ o.ver = spec[s].ver
                    /\ o.sec \in {Credentials(o.ver, Shared).ver, Unread}
              /\ \A u \in User : LET i == servers[s].users[u] IN
                    i # NoInst => \/ obj[i].late
                                  \/ home[obj[i].ver] # row[s]
                                  \/ obj[i].sec = secret[row[s]][u].ver

(* Every instance that is not in the registry gets into it or gets closed: a
   build ends in one or the other, whatever the other goroutines do; and what
   the loop has dropped or is about to add does, unless the loop waits for ever
   to close an object whose handshake hangs (downstream.go:99-127, 168-188,
   stdio.go:95-121, 156-158). *)
LoopHangs == loop.pc = "close" /\ \E i \in loop.closing : Shaking(i)
DroppedIsClosed ==
    /\ \A i \in Inst : (i \in InHand) ~> (i \in Cached \union closed)
    /\ \/ <>[]LoopHangs
       \/ \A i \in Inst : (i \in Built \ Cached) ~> (i \in Cached \union closed)

(* The registry implements the abstract life of its instances: what no entry
   has, nobody closed and the loop is not closing waits to be offered, in the
   hand of a request or of the loop. *)
Unplaced == Built \ (Cached \union closed \union loop.closing)
Waiting ==
    {[inst |-> i, server |-> obj[i].slug, owner |-> obj[i].owner] : i \in Unplaced}
Offered(e) == [o \in Owner |-> IF e = Absent THEN NoInst
                               ELSE IF o = Shared THEN e.ds ELSE e.users[o]]
Offers == [s \in Slug |-> Offered(servers[s])]
Lifecycle == INSTANCE Lifecycle WITH
                 Server <- Slug,
                 Instance <- Inst,
                 None <- NoInst,
                 waiting <- Waiting,
                 offered <- Offers,
                 withdrawn <- loop.closing
ImplementsLifecycle == Lifecycle!LifeSpec
=============================================================================
