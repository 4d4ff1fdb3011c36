# Formal model of the MCP gateway

TLA+ specifications, TLC configurations and TLAPS proofs for the Go services of
this repository: the gateway (data plane), the control plane and the sandbox
supervisor. Paths below are relative to `src/`; `PROJECT.json` maps every
definition to the lines it models.

## 1. The system

An organisation (tenant) registers MCP servers with the **control plane**, which
keeps them in Postgres, keeps their credentials in a secret store and publishes
every change on a Redis pub/sub channel. The **gateway** reads the enabled
servers when it starts, subscribes to the channel, and serves MCP requests: it
validates a token, checks quota and roles, and calls the downstream server, a
sandboxed stdio process or a remote HTTP endpoint, with the organisation's or
the user's own credential. **Keycloak** holds one realm per tenant, which the
control plane creates, disables and deletes.

### Inventory

| component | state it keeps | operations | talks to | what is hard about it | what makes it correct |
|---|---|---|---|---|---|
| Sandbox pool (`sandbox-supervisor/internal/pool`) | warm list, in-use set, last use | Prewarm, Acquire, Release, Reap, Close | a factory | legal sequences of calls; a capacity check that looks at half of the state | nothing lost or listed twice, hard cap, one user per instance, floor kept |
| Downstream registry (`gateway/internal/downstream`) | servers, their per-user instances, registration order | AddScoped, AddProvider, Remove, Invalidate, GetForUser, VisibleSlugs | handler, event loop | instances are built and closed outside the lock | no leaked or doubly closed instance, own credential, order = map |
| MCP request handling (`gateway/internal/mcp`) | none between requests | initialize, ping, tools/list, tools/call | registry, quota, aggregate | two lookups for one call | roles hold for the call itself |
| Gateway event loop (`gateway/internal/server`) | none | upsert, remove, credential | registry, secret store | one loop for all organisations; builds and closes in it | what was published last is what is served |
| Start-up and reconcile (`gateway/cmd/gateway`, `gateway/internal/server/reconcile*.go`) | none | read enabled rows, apply, subscribe | Postgres, bus | the gap between the read and the subscription | a restart repairs what was missed |
| Server-change bus (`pkg/serverevents`) | Redis channel | Publish, Subscribe | both services | at most once | in order |
| Admin API and store (`control-plane/internal/admin`) | `mcp_servers`, secrets | Create, Patch, Delete, org and user credentials, PurgeOrg | bus | read, write, publish with nothing around the three | one row per slug; the catalog follows the store |
| Tenant lifecycle (`control-plane/internal/tenants`) | tenants, provisioning jobs | Provision, Suspend, Resume, Delete | Keycloak, admin | a saga whose steps, undo and handler may each fail; errors of the registry that are dropped | one saga, no realm without a row, a status that tells what the realm is, a retention deadline that stays |
| Sandboxed stdio server (`gateway/internal/sandbox`) | the process, its connection, `inited` | ensure, ListTools, CallTool, Close | a runtime | hung handshakes, dying processes, Close during a call | one process, own answer, nothing left behind |
| Remote MCP client (`gateway/internal/remotehttp`) | session id, `inited` | Initialize, ListTools, CallTool | HTTP | expiry seen by several calls at once; a handshake that another call can overtake | a tool runs once for a call, a lone call survives an expiry, the session settles |
| Tool aggregation (`gateway/internal/aggregate`) | none | Aggregate | registry | names that join ambiguously | a name routes to the first server that has it |
| Quota (`gateway/internal/quota`) | window counters, in memory or in Redis | Allow | Redis | two limits counted one after the other; clocks of several replicas | a bound on what a window lets through; nobody else's calls count |
| Keycloak admin client (`control-plane/internal/idp`) | admin token | realm, client, user, directory and broker calls | Keycloak | a token shared by all requests, minted before a realm existed; one retry on 403 | the retry's token is fresh; lost answers |
| Invitations (`control-plane/internal/invites`) | invitations | Create, Accept, Revoke | Keycloak | two accepts, or an accept and a revoke, at once; errors half-way | one user per invitation, a status that tells |
| Identity brokering (`control-plane/internal/brokering`) | provider links, secrets | Put, Delete | Keycloak, secret store | three writes, no transaction | link, provider and secret agree, or agree again after a request that ran through |
| SCIM bridge (`control-plane/internal/scimbridge`) | one directory connection per tenant | Configure, Rotate, Disable, user calls | Keycloak | read-modify-write of a connection; dropped errors | a replaced bearer stays out; an answered request was carried out |
| Audit log (`pkg/audit`) | head of the hash chain | Record, Verify, objects in S3 | S3 | a put that was given up and is carried out later; a crash between put and tip | an append-only list, what was acknowledged stays |
| Token validation (`pkg/authz`, `gateway/internal/auth`) | JWKS cache | Validate, refresh | Keycloak | concurrent refreshes that finish in the other order | how long a retired key is trusted, a published one is found |
| Secret stores (`pkg/secrets`) | a cell per owner | Put, Get, Delete | Vault | external | last write wins |
| Configuration, telemetry, wiring, admin console, deployment | | | | read once, formatting, presentation, scripts | not modelled |

### Interactions

- control plane handler -> store -> bus -> gateway event loop -> registry -> sandbox;
- MCP request -> registry (lookup, build, store) -> sandbox or remote client;
- tenant operator -> registry row -> Keycloak -> registry row; deletion also purges
  the tenant's servers, which is announced like any other deletion;
- gateway start -> store -> registry, then subscription;
- MCP request -> token check (key cache) -> quota (memory or Redis) -> registry;
- invitation and SCIM requests -> their own tables and the same realm's users;
- every control-plane call to Keycloak -> one shared admin token;
- both services -> audit log -> S3.

The hazards that follow from them are listed, each at its line, in
`PROJECT.json` under `hazards`; a hazard with no property says why.

## 2. Modules

| module | models | state corresponds to |
|---|---|---|
| `Pool` | `sandbox-supervisor/internal/pool/pool.go`, all of it | `warm`, `inUse` are the pool's maps; `idle` is `now() - lastUsed`; `created`, `closed`, `held`, `past` are the callers' view; `stolen` a ghost |
| `Registry` | `downstream.go`, `server.go`, `creds.go`, the two calls of `handler.go` | `servers`, `order` are the maps; `req[p].pc` is where a request goroutine is; `loop` the event loop; `bus`, `spec`, `row`, `home`, `secret` what the control plane wrote: events, configurations, which server id has a slug, which one an event carried, secrets by id |
| `Lifecycle` | what the registry promises about the instances it hands out, without its lock, requests and loop | `waiting` is what was built and has no place yet, `offered` the entries, `withdrawn` what is being closed |
| `SandboxServer` | `sandbox/stdio.go`, one server object and its process | `mu`, `inited`, `inst` are the object's fields (`inst` stands for `inst`, `c` and `cancel`, assigned together); `cmu`, `lastId` the connection's; `call[g].pc` is where a caller is; `proc`, `asked`, `lines`, `greeted` the process and its pipes |
| `Propagation` | `admin/*.go`, `pkg/serverevents`, `reconcile.go`, `cmd/gateway/main.go` | `store` is `mcp_servers`; `handler[a]` an admin request; `catalog` what the gateway offers; `amiss` a ghost |
| `Tenants` | `tenants/service.go` and its stores | `row` is the tenant's row; `realm` Keycloak's realm and which saga steps reached it; `op[o]` an operator's request; `doubt`, `alone` ghosts |
| `AuditChain` | `pkg/audit/s3.go` over an object-locked bucket | `seq`, `lastHash` are the archive's fields, `waiting` the record the holder of `mu` has sent; `objects` the latest versions in the bucket, `puts` what storage may still carry out; `verify` a running `Verify` |
| `Ledger` | what a `Logger` promises; `MemLogger` in `pkg/audit/audit.go` is exactly this | `entries` is the list of records |
| `RealmUsers` | the users of a realm and the calls of `idp/rest.go`, `idp/directory.go` on them; the requests of the next two | `users` is Keycloak's; `req[h]` what a request is doing |
| `Invites` | `invites/*.go` | `invitations` is the table; `expired` the rows whose time is over |
| `ScimBridge` | `scimbridge/*.go` | `conn` is the tenant's row, with the bearer's number for its hash |
| `Accounts` | `Invites` and `ScimBridge` at work on one realm | |
| `RemoteClient` | `remotehttp/client.go` | `inited`, `sessionID` are the client's fields; `call[c]` a goroutine; `alive`, `ready` the server's sessions |
| `KeyCache` | `pkg/authz/jwks.go`, `jwt.go`, `gateway/internal/auth` | `entry` is the issuer's cache entry; `published` the realm's document; `req[r]` a request |
| `Quota` | `quota/*.go`, the backend choice in `server.go` | `bucket[p]` is a replica's `WindowLimiter`; `counter` the keys in Redis; `ahead[p]` what a replica's clock is ahead |
| `Brokering` | `brokering/*.go`, `idp/brokering.go`, the token handling of `idp/rest.go` | `link`, `provider`, `vault` are the three stores; `token`, `mutex` the client's; `op[c]` a request and where its current call to Keycloak is |
| `PoolRemoteProofs`, `RegistryProofs`, `SandboxServerProofs`, `PropagationQuotaProofs`, `TenantsProofs`, `AuditBrokeringProofs`, `AccountsProofs`, `KeyCacheProofs` | theorems about the modules they are named for | three of them hold the proofs of two modules that share no state |
| `MC<module>` | symmetry sets and values for TLC | |

**Ghosts.** Several guarantees hold unless something specific has happened, and
a ghost names what: the code never reads it.

- `Pool!stolen`: instances freed by the second release of a caller that no
  longer owned them (`pool.go:110` looks only at whether the instance is in use).
- `Registry!req[p].asof`: the versions of the entries when the roles were
  checked, to tell a call that overlaps a replacement of its server.
- `Registry!obj[i].late`: the user's secret was changed while this instance was
  being built, so that the invalidation did not find it. `obj[i].ver` and
  `obj[i].sec` are the event and the version of the secret it was built from,
  `Unread` if that could not be read.
- `SandboxServer!call[g].closed`: a `Close` came between `ensure` and the
  unlocked read of `s.c`.
- `Propagation!amiss`: `bus` (an event was not published or not received),
  `gap` (published between the reconcile's read and the subscription), `store`
  (the gateway started without the database), `overlap` (two admin requests ran
  at once), `forced` (a credential change announced a disabled or deleted
  server).
- `Tenants!doubt`: what a status may be wrong after: `overlap` (two requests at
  once), `lost` (the realm was switched and that reported as failed), `store` (an
  error of the registry left the row behind), `abandoned` (a handler stopped).
  It is empty again when a request that runs by itself has written the row at its
  end. `alone`: no two requests have run at once since all were at rest.
- `AuditChain!acked`, `overtaken`: what `Record` confirmed, and the places at
  which a put that had been given up was carried out after another record had
  taken its place or been chained to it.
- `Invites!spent`, `amiss`: users made out of an invitation; invitations whose
  handling left an error behind, or that were revoked after being accepted.
- `ScimBridge!dead`, `wanted`, `unbound`, `crossed`: bearers that were replaced;
  what the last admin asked for; that its body did not bind; a `Rotate` overlapped
  another admin's request, or a write failed. In a request, `asked` (what it asks
  `active` to be, `unread` while no operation of a PATCH was one the code reads),
  `overtaken` (another one set its user since) and `ignored` (the code dropped an
  error).
- `RemoteClient!call[c].faulted`, `disturbed`, `lost`: a request failed, another
  call changed the session under this one or its handshake was not over, and how
  often the session expired on it. `unheard`: sessions whose notification was
  lost.
- `KeyCache!req[r].known`, `failed`, `overwritten`: the key has been published all
  along, the fetch failed, another fetch replaced the entry in between.
- `Quota!tally`: calls asked, passed and passed unchecked, by limit and window.
- `Brokering!amiss`, `op[c].clean`: a failure or an overlap that no request has
  repaired yet; whether this request overlapped none.

What is one action: a critical section of a mutex, one database statement, one
call to another system, one publish. What the code does between two of them is
another action, so that other goroutines come in between exactly where they can.

Simplifications, and why they are sound for the properties:

- **Pool.** `Prewarm` chooses how many instances the factory managed to build
  before an error. Idle time saturates at `IdleTimeout`, past which no condition
  of the code distinguishes it.
- **Registry.** A server's configuration is a version number, the roles and one
  of three modes; "shared" stands for the credential modes none and org_shared,
  which differ only in whether a secret is read. A server id is the number of the
  event that announced its creation. Secrets are kept by server id, as in
  `secrets.go:15-23`, and outlive their server, so a build that began for a deleted
  server still reads that server's secret. That its user may still delete it there
  announces nothing and is left out; so is a change of the organisation's
  secret of a disabled server (Propagation has its effect, `forced`). Storing a
  secret and publishing the event is one step here (Propagation separates the two): a
  request that reads the secret in between does what one does that reads it
  after. The bus is reliable here, for the same reason. Of a process Registry has
  what others wait for: a handshake, which holds the object's mutex and may hang,
  and `Close`, which waits for it (`stdio.go:95-121`, `:156-158`). The loop closes
  what one event dropped in any order, and so at once what nobody holds; in the code an
  object that hangs may come first and hold up the others as well. A remote client
  has no `Close` and no handshake under a lock, which is a `Use` that does not shake
  hands.
- **SandboxServer.** A pipe never fills up, and ending the process a runtime
  started ends the server in it. Which unused process a launch returns carries
  no meaning and is chosen once. A line is reduced to its id and what it is
  about; lines without an id are skipped by the reader and left out. A caller
  that reads a nil `s.c` panics; `net/http` ends that request and nothing else.
- **Propagation.** The catalog says which server is offered under a slug; what
  happens to instances is Registry's subject. A configuration has a type the
  gateway knows (`Supported`) or not; of its other fields no step of this module
  asks anything. Authentication, health probes and reads change nothing and are
  left out. A loss on the bus also stands for a control plane that stops between
  the write and the event, and for a write whose answer is lost.
- **Tenants.** One slug: nothing couples two of them. The five steps of the saga
  are a set, since only the realm step has an undo. The provisioning job is
  written and never read, and left out. A request's number stands for the time it
  began, and the retention deadline for the number of the request that set it: the
  configured number of days and the direction of the clock are taken not to
  change. The purge of the organisation's servers is in Propagation.
- **AuditChain.** An event is the number of the call that records it, the hash is
  injective. One process writes a bucket. Object lock keeps old versions, which
  nothing in the code reads. The error of `Record` is dropped by its callers. The
  gateway falls back to a `MemLogger` when the archive cannot be opened, which
  here is a process that stays down.
- **Accounts.** A bearer is a number issued once; roles of one AssignRealmRole are
  looked up and assigned in one step, because roles are never deleted. A PATCH
  has one operation on `active`. A
  PUT addresses its user by id and may name one that does not exist.
- **RemoteClient.** The server uses sessions, answers 404 for one it does not
  know and 400 without one, as the protocol has it. With a server that answers
  404 there as well, two calls can reset each other for ever, and
  `SessionSettles` does not hold.
- **KeyCache.** One issuer: entries of different issuers share the mutex only.
  A fetch takes at most `FetchTime`, the HTTP client's timeout, and the JWKS
  document is read by the realm in one instant in between. A token's claims play
  no part.
- **Quota.** A limit of 0 means unlimited and is left out. Redis fails by being
  away or too late for the 100 ms, and may have counted all the same. It loses no
  counter: a Redis that restarts empty would grant the limit once more. The client
  library's own retry, which may count a call twice, is left out: it uses up a limit
  sooner, by its own organisation's call. A replica that restarts in memory mode counts as
  another replica.
- **Brokering.** One alias of one organisation, whose realm exists once `granted`
  holds. Other users of the admin client appear as requests that need a token. A
  request is refused when its token was minted before the realm existed. Ids and
  creation times of rows are left out. Delete's read of the row decides between
  404 and the three deletions. The role mappings of a request go to the row and
  nowhere else. The realm is never deleted.

## 3. Runs

`tlc -config <run>.cfg <module>` with the run's name as the cfg's.

| run | question | result |
|---|---|---|
| MCPool | Does any sequence of Pool's calls, second releases included, lose, share or over-allocate an instance, or reap too much? | holds, sharing only of a `stolen` instance |
| MCRegistry | Two users build and use instances while the server is added, replaced, removed, added again, invalidated: is anything leaked, does anyone get another's credential, is every instance offered once at most, to its owner, never over another, and closed once, and is the last event what is served? | holds; `Registry` implements `Lifecycle` |
| MCRegistryTwo | Two servers with roles: is the order kept, does a role check hold for the call it was made for, and is every instance that drops out of the registry closed in the end? | yes, unless the entry was replaced during the call, or a handshake with one to be closed hangs for ever |
| MCSandboxServer | Does a server object leave processes behind, talk to one before its handshake, mix up answers, or block callers and closers for ever? | no; only a process that never answers blocks, and `Close` is blocked only by a handshake |
| MCPropagation | Two admins, a lossy bus, a restart: does the catalog follow the store, and catch up in the end, unless something is `amiss`? | it does |
| MCTenants | Two operators, calls to Keycloak and the registry refused or lost, handlers that stop: one saga per slug, a status that tells what the realm is, a retention deadline that does not move back, no tenant stuck in transition? | holds, up to `doubt` |
| MCAuditChain | Storage that is late, silent or never does it, crashes, a `Verify` during writes: does the archive keep what it acknowledged, does `Verify` cry wolf, and is it an append-only ledger? | yes, no and yes, except at places in `overtaken` |
| MCAccounts | Two invitations of one person and the directory sync of the realm, any call of which may fail: one user per invitation, a status that tells, replaced bearers out, the connection as asked, success only for what was done? | holds, up to the ghosts |
| MCRemoteClient | Two calls on a session that expires: what may make a call fail, can a tool run twice for it, do they reset each other for ever? | only what the ghosts name; no; no |
| MCKeyCache | How long is a token of a retired key accepted, and when is one of a published key denied? | for the TTL and one fetch; when a fetch failed, or an older document came in between the two steps of another |
| MCQuota | How many calls does a window let through, and whose calls may get one rejected? | the limit per replica, or for all with Redis, and one limit more where clocks are apart or set; its own organisation's or user's |
| MCBrokering | Do link, provider and secret agree when requests are over, and is a request to a new realm refused although it is retried? | yes, unless something is `amiss`; no |

Every property of a passing run has a mutant in `PROJECT.json`: a plausible bug
in a mapped definition that makes the run fail on that property. The mutated
forms stand in the modules next to the definition they change (`...Mut...`) and
nothing else uses them.

### Bounds, and why they are enough

Where section 4 proves a property the bounds only matter for the liveness
properties next to it, and as a check that the proved formula says what it should.

- **Pool**: capacity 3, floor 2, four instances, two callers, idle limit 2. Four
  instances exceed the capacity, so that pools are emptied, closed and refilled;
  the floor is below the capacity, so that reaping below and above it both
  happen. The proofs remove these bounds for every property of the run.
- **Registry** (MCRegistry): two requests and two users are the smallest races
  for one cache cell and for two; two objects let a replaced and a replacing, or
  a winning and a losing one coexist (a third, with one event less, was explored
  as well); `MaxVer` 3 gives replacement, removal and re-adding; `MaxRot` 2 a
  secret that is set and rotated; `MaxBus` 1 leaves the loop one event behind, a
  longer queue only delays what the loop does in the same order. MCRegistryTwo
  adds a slug and a role, with one request, for the order, the role check and
  the liveness property, which are about one request against the loop.
- **SandboxServer**: two callers, three calls, one `Close`, two launches: a call
  that hangs with one queued behind it, a handshake that fails and is tried
  again, a close in the middle of a call and a relaunch after it. One unread
  line is enough for answers out of order, since a process may answer anything
  it was ever asked. The proofs remove these bounds for its safety properties.
- **Propagation**: two admins and four requests over one slug, two ids, two
  configurations and one of a type the gateway does not know, one lost event, one restart: create, change, lose, repair,
  and a delete and a second create while a patch or a credential change still
  holds the row it read. Nothing couples two slugs but the list of a purge.
- **Tenants**: two operators, five requests and three failures: provision with
  a failed step and a failed undo, then suspend, resume, delete and a second
  delete, with the write of any of them refused or lost, and each of them after an
  overlap of two others. The proofs remove these bounds for its safety properties.
- **AuditChain**: four events and two crashes: a put that is given up, another at
  the same key, one chained to it, and a restart before and after. The proofs
  remove these bounds.
- **Accounts**: one user name, since names meet only in the realm's unique name,
  two invitations of it, one of them with a role the realm lacks, a group that
  either of two mappings names; two requests at a time, four in all and one
  fault, three bearers: an accept or a SCIM request overlapped by a rotation, a
  replacement and a deletion. A PATCH has any number of operations, which are
  read one by one; a body that does not bind leaves the mapping or none.
- **RemoteClient**: two calls, which start again as often as they like, two
  expiries (one for each, or both on one call), one fault. Session numbers are
  used again when nothing refers to them, so the number of sessions is not
  bounded.
- **KeyCache**: two requests and two keys, TTL 2 and a fetch of 1, five ticks: a
  key can be published, cached, retired, expire and still arrive in the late
  answer of a slow fetch, with one failed fetch.
- **Quota**: two replicas, organisations and users, limits 2 and 1, windows of 2
  ticks, three calls over three ticks, one more than Redis, or two
  replicas, let a user through in a window; a clock ahead, a clock set, one failure of Redis.
- **Brokering**: three callers, so that one mints an old token while a second
  invalidates it and a third waits; four requests, two configurations and secrets, one role mapping (nothing but
  the row depends on it), one failure: put, a delete that fails half-way, and the put that repairs it.

Deadlock is not checked where all requests of a bounded run may be used up and
nothing is left to do; in Pool it is.

### Fairness

- `Registry!FairSpec`: the event loop and a request inside `GetForUser` are
  scheduled. No fairness on `Use` and `Handshake` (a downstream may hang for ever:
  `stdio.go` has no timeout on a call) and none on requests or on the control
  plane. Fairness of the loop says nothing while its only step is a `Close` that a
  handshake blocks: `DroppedIsClosed` has that case as its exception (`LoopHangs`).
- `SandboxServer!FairSpec`: goroutines are scheduled and a Go mutex that is
  released again and again is granted to each of its waiters (starvation mode
  after a millisecond), hence strong fairness. A process owes nobody an answer;
  the two liveness properties say what that costs.
- `Propagation!FairSpec`: an admin handler that began finishes (each of its
  steps is a database or Redis call under a driver's deadline), a gateway that
  starts finishes starting, its event loop runs. No one is obliged to make
  requests. A property that only an unlimited number of requests would refute
  is not claimed: `CatchesUp` is about after the last request.
- `Tenants!FairSpec`: a handler that is not abandoned goes on, because each
  call to Keycloak has a 30 second timeout. An abandoned one (its process died,
  or its request's context was cancelled) owes nothing.
- `RemoteClient!RemoteSpec`: a call that began goes on and its server answers, or the
  request's timeout ends it (`client.go:67`). No one is obliged to begin a call,
  and sessions need not expire.

The other modules state safety only: their operations are sequences of calls
with timeouts, and whether one ends says nothing about the code.

## 4. Proofs

`tlapm <module>Proofs.tla` checks a module of proofs. Every safety property of
every run is proved, for every value of the constants that the named assumption
allows. Three modules of proofs extend two components each, whose
specifications therefore have names of their own (`RemoteSpec`, `QuotaSpec`,
`BrokerSpec`); nothing in one half is used in the other. An inductive invariant was model-checked on
the run's instance, or a smaller one, before it was proved.

**Pool**, from `PoolAssumption`: the instances are a finite set, the two
configured sizes are any integers (`New` normalises them, lemma `Config`), the
idle limit is a natural number. The inductive invariant is
`TypeOK /\ Accounted /\ Capacity`. Capacity is not inductive alone: `Acquire`
compares only `len(inUse)` with `MaxSize`, so a cold start keeps the bound only
because the warm list is empty there, and `Release` keeps it only because an
instance is in one place at a time, which is `Accounted`. `Reap`'s effect on the
warm list is a lemma of its own (`ReapKeeps`: the kept entries, in order, each
once) and `ReapSparesFloor` follows from counting the positions it keeps.
`ExclusiveUse` needs one more invariant, that what a caller holds is in use,
closed or `stolen`, so it is proved for callers that release as often as they
like. `WarmOldestFirst` is inductive with the types: an instance that is
released is the least idle, time passes for all alike, and a reap keeps the
order of what it keeps.

**Registry**, from `RegistryAssumption` (the shared owner is no user, the marker
is no object, natural bounds): the safety properties of its two runs and
`OneOwner`, for any servers, users, roles, requests and objects. Objects are
built and closed outside the lock and the loop lags behind what was published,
so no property is inductive; the invariant comes in layers, each inductive on
top of the earlier ones.

- `Types`;
- `Owned`: an open object is in one place, an entry, a request's hands, the
  loop's addition or its list of what to close, and it is of the server and the
  user of that place. `NothingLost`, `OneOwner` and `OwnCredentials` follow: a
  winner of a build race can store its object only because nobody else has it;
- `OrderMatches`: inductive with the types, over what `Remove` cuts out of the
  list (lemma `CutOf`);
- `Checked`: whatever configuration, in the registry, in the loop, on the bus or
  stored, has the version a request saw when its roles were checked lets that
  request in. A request calls a server later than it was checked, so
  `RBACOnCall` needs to know that a version never comes back with other roles;
- `Identified`: a stored server has an id that no other slug has and that what was
  last published for it carries. A rotation under another slug is then about
  another secret;
- `Dated`: objects and running builds come from events already published, so a
  server re-created later has an id that no object was built for;
- `Applied`: the last event about a server says what was last published
  (`Latest`), without one the registry is as published or the loop is about to
  make it so (`Settled`), and an object has the current secret of the server it was
  built for, or an event on its way will drop it, or it is `late`, or that server
  is not the one stored under the slug (`Current`). `AppliedInFull` is what is
  left of it when the loop has nothing to take.

`LifecycleImplemented` proves that `Registry` implements `Lifecycle`, action by
action: `Build` and `ResolveShared` are its `Build`, a `Store` that finds its
place empty an `Offer`, `AddScoped` a `Replace`, `AddProvider` and `Remove` a
`Clear`, an `Invalidate` that finds an instance a `Drop`, `CloseDropped` a
`Close`, `Discard` an `Abandon`; all else stutters. The mapping says of an
instance without a place only that it waits; `Owned` says that a request or the
loop has it in hand, which is why it can be offered or closed once, and that it
is of the server and the owner it is offered to.

**Propagation**, from `PropagationAssumption` (operations, natural bounds, `None`
is no row): `TypeOK`, `OneRowPerSlug` and `AgreesUnlessAmiss`. The last looks at
a quiet system only; the invariant `PInv` says what holds while handlers, the
queue and a starting gateway are at work:

- `Typed`: types, and `Known`: a row that a handler has read has the slug of
  whatever is still stored under its id. Writing back an outdated row therefore
  cannot take a slug that another server has meanwhile;
- `Sole`: while no requests overlapped, one handler at most is at work and the
  rows it read are the stored ones;
- `Truthful`: what a handler is about to publish is then what the store has,
  unless it was `forced` or of a type the gateway does not know;
- `OnTrack`: with nothing amiss, for every slug somebody is still to publish
  about it, or the last event about it in the queue, or without one the
  catalog, or the rows a starting gateway has read, say what the store has.
  An upsert the gateway ignores is not about the slug (`About`).

What the catalog may offer is stated as a relation (`Wants`): the enabled server
as stored, or, if the gateway does not know its type, nothing or an earlier
configuration of the same server. A step that announces nothing the gateway heeds
is `Stable`: what the catalog might offer before it, it may offer after it. That
the row is unique comes in only at the end. `Turn` states once what a
handler that publishes nothing does, and each of its actions is an instance.

**Tenants**, from `TenantsAssumption` (kinds of fault, natural bounds, `None` is
no row, `NoRealm` no realm): all its safety properties, for any set of
operators and any number of requests and failures. `OneSaga` is inductive only
together with "a saga has a row" (part of `RealmIsRegistered`) and the type of
the handlers' records: the insert that starts a saga needs an absent row, and no
step takes the row away. Lemma `Move` states once what a step of one handler must
respect; each action is an instance of it. `StatusTellsRealm` and
`RetentionKept` need two more layers, the three together are `Layered`:

- `Ripe` holds however requests overlap: the realm of a running saga is as far as
  the saga, or deleted; meanwhile neither the row nor any copy of it says ready;
  and no deadline lies ahead of the requests' clock. What says ready therefore has
  a complete realm or none;
- `Honest`: while requests run one at a time (`Sole`) the row tells what the realm
  is once nobody works on it, or is in doubt, and `Stage` says for each step of a
  handler what row, copy and realm are by then, whatever doubt it began with. A
  last write that is carried out leaves none, since what it writes is true of the
  realm the handler has just set.

**Accounts**, from `InvitesAssumption` (an offer's email is a user name; the two
markers are no invitations): the five properties of its run, for any number of
requests, names, groups, bearers and faults, in one invariant `AInv`, since
invitations and directory sync share the realm's users:

- what any step of any request does to users (`Grows`): they are created once,
  by one maker, which stays, and lose no role. This is what each side may
  assume of the other;
- `Done`: by the call it is at, a SCIM request that was not overtaken, ignored no
  error and was read finds its user as it asked and with all roles its groups map
  to but those still to be assigned; for a PATCH also between its operations.
  `SuccessIsDone` is the end of it;
- `AllTold`: the user made of an invitation has its email; unless something is
  amiss, the status is `accepted` or a handler is still giving roles; and that
  handler's list is all that the user lacks. An invitation is `spent` at most
  once because the realm's user name is unique and users are not deleted;
- `Connected`: bearers are issued in order, so a fresh one is not among those
  replaced; the mapping is the one asked for, or what was read of it if the body
  did not bind (`unbound`); and while no request of another admin crossed it, what
  a `Rotate` is about to write back is what the connection maps.

**KeyCache**, from `TimesAssumption` (times and bounds are naturals): both its
properties, for any TTL and fetch time. A request decides on a document that
may be outdated as it is stored, so `IInv` says how old it can be: a key in the
cache was published at most one fetch before the entry's time, one in a request's
hand since its fetch began (`Fresh`), and no fetch outlives its timeout
(`Timely`). A key published all along is in what the request read, and in the
entry it looks at again unless that was `overwritten` (`InTheDocument`).

**SandboxServer**, from `SandboxAssumption` (the markers are no processes and no
callers, natural bounds): all five safety properties of its run, for any set of
callers, closers and processes and any number of calls, closes, launches and
unread lines. The inductive invariant `IInv` adds to the properties

- `Books`: `inited` says whether there is a process, and nobody is in a
  handshake while there is one. `ensure` launches only when `inited` is false,
  which is of use only because of this;
- `Known`: every process that runs is the server's or one being initialised.
  With `Books` at most one of the two exists, which is the cardinality in
  `NoStray`;
- `Served`: a connection that the unlocked read can find was sent
  `notifications/initialized`, or its process is gone. `HandshakeFirst` alone is
  not inductive, since a caller may hold the connection long before it sends;
- `Talk`: ids of a connection are given out once, whoever waits has asked, and
  what is unread was asked or is the process's own, from which `OwnAnswer`
  follows.

The proof has one lemma per action. `conn.call` can end in
`Send` and in `Read`; `FailStep` and `SucceedStep` state once what an end must
respect.

**AuditChain**, from `BoundsAssumption` (the bounds are naturals): both safety
properties of its run, and that the archive implements `Ledger`, for any number
of records and crashes and any order in which storage carries out puts. The
inductive invariant `IInv` adds to them

- `Settled`: the objects are 1..seq and at most one more, and no put is for a
  place beyond it: a failed put and its successor share a key, and a restart
  finds the one object whose put was never confirmed;
- `Writing`: the record in flight is the next one, and once answered it is what
  the bucket holds there, unless overtaken;
- `Linked`: while nothing was overtaken, whatever may yet become object n carries
  the hash of object n - 1. A given-up put and the record sent after it carry
  the same previous hash, which is why `GiveUp` may leave the tip as it is;
- `Reading`: a `Verify` under way reads only objects that exist and has the hash
  of the last one.

`StepRefines` maps each action: `Confirm` adds an entry (and so does a restart
that finds an unconfirmed record), a `Store` below the tip rewrites one and voids
its place, everything else leaves the ledger.

**Brokering** (in `AuditBrokeringProofs`), from `BrokeringAssumption` (the marker
`None` is no caller, row, provider or token): both properties of its
run, for any callers, settings, mappings, secrets, requests and failures, in
`BrokeringInv`:

- `Locked`: the mutex is held by exactly the caller that mints a token, so
  nothing is cached behind the back of another mint;
- `Renewed`: while any request is being retried the cached token is none from
  before the realm existed, nor is one that is about to be stored. The token is
  dropped under the mutex, when nobody is between minting one and storing it,
  and whatever is minted later has the realm's roles. `RetryIsFresh` is then a
  matter of types: no request is `forbidden`;
- `Followed`: a handler nobody overlapped finds row, provider and secret as its
  earlier steps left them (`SoFar`), one that was overlapped is marked in
  `amiss`, and with no handler at work the three agree or are `amiss`. The last
  part is `LinkedUnlessAmiss`.

**RemoteClient** (in `PoolRemoteProofs`), from `CallAssumption` (finitely many
calls, so that a session number is always free, lemma `FreshIsFresh`):
ExecutedOnce and ExcusedFailure for any number of calls, expiries and faults,
in `RemoteInv`:

- `Answered`: until it has a result a call's tool has not run, or the answer was
  an error; the 404 that is answered by sending again came from a server that
  does not know the session, and never will, since numbers in use are not given
  out. `ExecutedOnce` follows;
- `Own`: what a call that no other one disturbed may rely on of the shared
  fields: it initialises only while there is no session and sends with the one
  it stored;
- `Losses`: such a call has seen its session lost once before it retries, and
  once more if the server does not know the present one. A second 404
  therefore counts two;
- `Announced`: a session that is alive but not initialised has its notification
  under way or lost, which is what a refusal by the server may be put down to.

**Quota** (in `PropagationQuotaProofs`), from `QuotaAssumption` (positive limits
and window, finitely many replicas, each clock less than a window ahead): both
properties, for any of these and any number of calls, failures and times
clocks are set, in `QuotaInv`:

- `Counted`: a bucket or counter holds no more than was asked for in its window.
  Whoever is rejected finds the limit reached, by calls that its own scope asked
  for: `OwnCallsOnly`;
- `InRedis`: `Phase` gives the life of a counter in four parts. It counts all
  that passed; it has expired once, and then the window has opened on Redis's
  clock; it is a second one, whose TTL ends after the window has closed on every
  clock; it has expired again, and nobody will ask for it. Hence at most two
  limits. `OneClock`: while clocks agree they have all left the window when its
  first counter expires, hence one;
- `InMemory`: what passed and what the replicas may still let through are
  together at most the limit per replica and setting of a clock. What is left to
  a replica depends on its bucket only inside the window; before, it is a full
  limit, afterwards none, unless the clock is set back. The sum over replicas is the
  cardinality of a set (`Below`), since induction over them is beyond the prover.

The arithmetic of windows (`Quotients`, `InWindow`: a replica's clock is between
the opening and the end of the window it computes) is proved once.

Only model-checked: the liveness properties (`DroppedIsClosed`, `CallsEnd`,
`CloseReturns`, `CatchesUp`, `SettlesDown`, `SessionSettles`), since fairness and
ENABLED are beyond the prover.

## 5. Where code and documents disagree

Each of these is a behaviour of the models, or plain from the code where no ghost
is named; the ghosts of section 2 mark most of them.

- `downstream.go:120`: "Invalidate drops cached per-user instance(s) for slug so
  the next GetForUser rebuilds them from the provider, picking up a rotated
  secret" (`downstream.go:103-104`), but a build that read the old secret before
  the rotation stores its instance after the invalidation, and the old secret
  stays in use (`late`).
- `stdio.go:98`: "Kill-switch: removing a server terminates its running
  instance(s)" (`docs/features.md:37`), but a request that got the instance before
  the removal calls `ensure` after `Close`, which has reset `inited`: the process
  is launched again, with nobody left to stop it.
- `stdio.go:98`: "any → `failed` on crash/timeout (FR-019/FR-020), with transparent
  restart on next use" (`specs/001-mcp-server-runtime/data-model.md:115`), but
  `inited` is only reset by `Close`: after the process exited by itself every
  call fails and none launches another.
- `admin/bus.go:47`: "disabling MUST stop offering it to users within 5 s"
  (`specs/001-mcp-server-runtime/data-model.md:85`), but a change of the org
  credential announces an upsert without a look at `Enabled`, and the gateway
  offers the disabled server again (`forced`).
- `tenants/service.go:317`: "any failed step rolls back (deletes the realm), so
  there is never a half-provisioned ghost realm" (`docs/tenant-provisioning.md:44-45`),
  but a step that fails is not in `done`, so when creating the realm times out
  after Keycloak did it, the job ends compensated and the realm stays (`lost`).
- `tenants/service.go:180`: "deleted is terminal"
  (`specs/003-tenant-provisioning/data-model.md:111`), but the saga's last step
  overwrites whatever status it finds, and Delete does not wait for a
  provisioning: the deleted tenant becomes failed, or active, and a Suspend that
  read the row before the Delete takes the retention deadline away (`overlap`).
- `tenants/service.go:224`: "Suspend disables the realm"
  (`docs/tenant-provisioning.md:92`), and its error says that it did not, but
  when only UpdateTenant failed the realm is disabled and the row active; Resume
  likewise. Provisioning and Delete drop that error, so a tenant whose handler
  ran to its end stays `provisioning` or `deleting`, and Provision goes on only
  if CreateTenant's answer arrives (`store`).
- `tenants/service.go:296`: a deleted tenant can be deleted again, from any state,
  and its retention deadline is then reckoned anew.
- `tenants/service.go:102`: a failed or deleted slug keeps its row, so
  provisioning it again, which `docs/tenant-provisioning.md` describes as the way
  out, answers that it is taken.
- `pool.go:108`: "a double release" is ignored only until the instance is
  someone else's (`stolen`).
- `pool.go:122`: the reaper keeps "at least MinWarm ready", but the floor
  protects the oldest entries, so an expired one can stay although fresher ones
  would fill the floor.
- `downstream.go:177`: an instance is discarded when the slug was
  "removed/replaced while we were building", but not when a per-user provider
  was replaced by another: the instance of the old configuration is cached, and if
  the server was deleted and another created under its slug, the instance of the
  deleted one with the secret its user gave that one (`AppliedInFull` names this case).
- `creds.go:16`: "Returns nil for none/unset or when not found", but also when the
  secret store does not answer (`creds.go:23`): the server is offered without its
  credentials until the next event about it (`Unread`).
- `stdio.go:115`: "disabling MUST stop offering it to users within 5 s"
  (`specs/001-mcp-server-runtime/data-model.md:85`), but a process that never answers
  `initialize` keeps its object's mutex, the `Close` of that object waits for it, and
  with it the event loop: no later event of any organisation is applied
  (`LoopHangs`).
- `handler.go:115`: roles are enforced on the call, but by a check before the
  lookup (`asof`).
- `stdio.go:32`: "unrelated lines" are skipped, but a request of the process's
  own whose id happens to be the wanted one is taken for an empty result
  (`OwnAnswer` names this case).
- `handlers.go:152`: the type of a server is `remote_http` or `stdio`
  (`docs/data-model.md:25`, `specs/001-mcp-server-runtime/data-model.md:74`), but
  only Create checks it. A Patch stores and announces any type; the gateway logs
  that it does not support it (`server.go:167`, `:188`) and goes on offering the
  server as it was configured before (`Agrees` names this case).
- `reconcile.go:17`: reconciling is "safe to call at startup before subscribing"
  except for what is published in between (`gap`).
- `docs/data-model.md:75`: a patch that overlaps a delete can announce the server
  after its removal (`overlap`).
- `docs/tenant-provisioning.md:83`: a failed tenant whose undo failed can be
  suspended and resumed into an active one with half a realm. `SubdomainReady`
  stays false then, and nothing else tells.
- `tenants/model.go:55`: a saga's steps are recorded for "idempotent resume", but
  nothing reads them (`abandoned`).
- `s3.go:20`: "Each sealed record is written once as an immutable object", but a
  failed put's key is used again. When storage carries out the first put after
  the second was acknowledged, the acknowledged record is hidden by another
  version; if nothing was chained to it yet, `Verify` says intact
  (`overtaken`).
- `invites/handlers.go:109`: `pending → {accepted | revoked | expired}` is
  "(terminal)" (`specs/003-tenant-provisioning/data-model.md:117`), but Revoke
  writes `revoked` over `accepted`, and nothing ever writes `expired`.
- `scimbridge/server.go:40`: the contract in
  `specs/003-tenant-provisioning/contracts/scim.md` has DELETE on users and a groups
  endpoint; there are neither. A PUT answers 200 also when disabling the user
  failed or there is none (`ignored`), Disable 204 also when the deletion failed
  (`crossed`).
- `scimbridge/server.go:230`: "`400` unsupported filter/op"
  (`specs/003-tenant-provisioning/contracts/scim.md:44`), but PatchUser passes over
  every operation other than `replace`, and values without `active`, and answers
  200 (`unread`). Of the values it reads, all but true and the text "true" disable
  the user (`truthy`).
- `scimbridge/server.go:71`: Configure drops the error of a body that does not
  bind, answers 200 with a new bearer, and has put what was read of it, at worst
  no mapping at all, in place of the old mapping (`unbound`).
- `remotehttp/client.go:133`: a lost `notifications/initialized` is never repeated;
  a server that insists on it refuses every request of that session
  (`unheard`).
- `quota.go:78`: "no tenant or user degrades service for others"
  (`specs/001-mcp-server-runtime/spec.md:203`), but calls that a user's own limit
  rejects have used up the organisation's quota.
- `redis.go:21`: the limit is "fleet-wide", but a replica whose clock is behind
  may count on when Redis has dropped the window's counter, up to twice the limit
  (`Apart`).
- `brokering/handlers.go:79`: a Put without a secret takes the secret out of
  Keycloak's provider and leaves the stored one behind; a Delete whose dropped
  error left something behind cannot be repeated, because the row is gone
  (`handlers.go:111`).
- `brokering/handlers.go:82`: "a tenant admin registers an external OIDC/SAML IdP
  (with group->role mappings) that the control plane applies to the tenant's
  Keycloak realm" (`brokering/store.go:2-4`), but the mappings are stored in the row
  (`handlers.go:87`) and never sent: an `IdentityProvider` has no field for them
  (`idp/brokering.go:20-25`). `LinkedUnlessAmiss` compares type, settings and secret.

## 6. Not modelled, and plan

Not modelled: **tool aggregation**, one pure function over strings (that two
pairs can join to one name is a fact about strings, `aggregate.go:39`);
**configuration, logging, telemetry**, read once or formatting; **service wiring
and the dev API**, construction; **the admin console**, a browser client;
**deployment scripts and images**. Left out of modelled components: health
probes and list endpoints, authentication of admins and operators, signature and
claim checks (a library), Vault's HTTP API, how runtimes build a command line,
what docker does with a container after its client is killed, the provisioning
job, shutdown of the gateway. Tenants and Propagation are not
composed: a server that is created while its organisation's purge runs is in
Propagation alone.

Every safety property and both refinements the runs check are proved; what is left
to prove is liveness under fairness, which is out of the provers' reach (section 4).
