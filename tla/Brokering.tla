----------------------------- MODULE Brokering -----------------------------
(***************************************************************************)
(* Identity brokering (control-plane/internal/brokering) for one alias of  *)
(* one organisation, with the Keycloak admin client it goes through        *)
(* (idp/rest.go): a handler writes the secret store, Keycloak and its own  *)
(* store one after the other, and each request to Keycloak takes an admin  *)
(* token that all callers of the client share.  The token carries the      *)
(* management roles its service account had when it was minted: those of   *)
(* a realm created since are missing, and Keycloak answers 403.            *)
(***************************************************************************)
EXTENDS Integers, FiniteSets

CONSTANTS
    Caller,     \* goroutines that use the admin client
    Cfg,        \* types and settings of a provider
    Mapping,    \* role mappings of a link
    Secret,     \* client secrets
    None,
    MaxReqs,    \* bound on the requests
    MaxFaults   \* bound on failures and stopped handlers

(* The row has the role mappings, Keycloak's provider has not. *)
Link == [cfg : Cfg, roles : Mapping]
Provider == [cfg : Cfg, secret : Secret \union {None}]

ASSUME BrokeringAssumption ==
    None \notin Caller \union Link \union Provider \union {"old", "full"}

VARIABLES
    link,      \* the idp_links row, or None
    provider,  \* Keycloak's identity provider, or None
    vault,     \* the secret stored under the link's secretRef, or None
    granted,   \* the service account manages the organisation's realm
    token,     \* the cached admin token: None, "old" or "full"
    mutex,     \* who holds the client's mutex, or None
    op,        \* what each caller is doing
    amiss,     \* ghost: a failure or an overlap nothing has repaired yet
    reqs, faults

stores == <<link, provider, vault>>
brokerVars == <<stores, granted, token, mutex, op, amiss, reqs, faults>>

Idle == [stage |-> "idle"]
Active == {c \in Caller : op[c].stage \notin {"idle", "forbidden"}}
Handlers == {c \in Active : op[c].stage # "elsewhere"}

BrokerInit ==
    /\ link = None /\ provider = None /\ vault = None
    /\ granted = FALSE /\ token \in {None, "old"} /\ mutex = None
    /\ op = [c \in Caller |-> Idle]
    /\ amiss = FALSE /\ reqs = 0 /\ faults = 0

-----------------------------------------------------------------------------
(* Requests. Handlers that overlap may leave anything. *)
New(stage, row, secret) ==
    [stage |-> stage, http |-> "token", tok |-> None, again |-> FALSE,
     row |-> row, secret |-> secret, clean |-> Handlers = {}]

Begin(c, stage, row, secret) ==
    /\ c \notin Active /\ reqs < MaxReqs /\ reqs' = reqs + 1
    /\ op' = [x \in Caller |-> IF x = c THEN New(stage, row, secret)
                               ELSE IF x \in Handlers THEN [op[x] EXCEPT !.clean = FALSE]
                               ELSE op[x]]
    /\ amiss' = (amiss \/ Handlers # {})
    /\ UNCHANGED <<stores, granted, token, mutex, faults>>

PutBegin(c, row, secret) ==
    granted /\ Begin(c, IF secret = None THEN "post" ELSE "secret", row, secret)
DeleteBegin(c) == granted /\ Begin(c, "get", None, None)

(* Any other use of the client, for another realm: only its token matters. *)
OtherBegin(c) ==
    /\ c \notin Active /\ reqs < MaxReqs /\ reqs' = reqs + 1
    /\ op' = [op EXCEPT ![c] = New("elsewhere", None, None)]
    /\ UNCHANGED <<stores, granted, token, mutex, amiss, faults>>

(* The realm is created, and with it its management roles. *)
Grant ==
    /\ ~granted /\ granted' = TRUE
    /\ UNCHANGED <<stores, token, mutex, op, amiss, reqs, faults>>

-----------------------------------------------------------------------------
At(c, stage) == op[c].stage = stage
Goto(c, stage) == op' = [op EXCEPT ![c] = [@ EXCEPT !.stage = stage, !.http = "token",
                                                    !.tok = None, !.again = FALSE]]
Leave(c) == op' = [op EXCEPT ![c] = Idle]
Done(c) == Leave(c) /\ amiss' = (amiss /\ ~op[c].clean)
Keeps == <<granted, token, reqs>>

Fault == faults < MaxFaults /\ faults' = faults + 1

(* A step that fails may have had its effect all the same. Put gives up, ... *)
GivesUp(c, effect) == Fault /\ Leave(c) /\ amiss' = TRUE /\ (effect \/ UNCHANGED stores)

(* ... Delete drops the error and goes on. *)
GoesOn(c, stage, effect) ==
    /\ Fault /\ amiss' = TRUE /\ (effect \/ UNCHANGED stores)
    /\ op' = [op EXCEPT ![c] = IF stage = "idle" THEN Idle
                               ELSE [@ EXCEPT !.stage = stage, !.http = "token", !.tok = None,
                                              !.again = FALSE, !.clean = FALSE]]

-----------------------------------------------------------------------------
(* accessToken: a cached token, or one minted while the mutex is held. *)
InNeed(c) == c \in Active /\ op[c].stage \in {"post", "put", "delete", "elsewhere"}

TakeTokenMutNoLock(c) ==
    /\ InNeed(c) /\ op[c].http = "token"
    /\ op' = [op EXCEPT ![c].http = IF token # None THEN "send" ELSE "mint",
                       ![c].tok = token]
    /\ UNCHANGED <<stores, granted, token, mutex, amiss, reqs, faults>>
TakeToken(c) ==
    /\ InNeed(c) /\ op[c].http = "token" /\ mutex = None
    /\ IF token # None
       THEN /\ op' = [op EXCEPT ![c].http = "send", ![c].tok = token]
            /\ UNCHANGED mutex
       ELSE /\ mutex' = c
            /\ op' = [op EXCEPT ![c].http = "mint"]
    /\ UNCHANGED <<stores, granted, token, amiss, reqs, faults>>

Mint(c) ==
    /\ InNeed(c) /\ op[c].http = "mint"
    /\ op' = [op EXCEPT ![c].http = "minted", ![c].tok = IF granted THEN "full" ELSE "old"]
    /\ UNCHANGED <<stores, granted, token, mutex, amiss, reqs, faults>>

(* When minting fails the token stays away, and what needed it fails: Put gives
   up, Delete goes on to the secret. *)
MintFails(c) ==
    /\ InNeed(c) /\ op[c].http = "mint"
    /\ mutex' = None
    /\ \/ op[c].stage \in {"post", "put"} /\ GivesUp(c, UNCHANGED stores)
       \/ op[c].stage = "delete" /\ GoesOn(c, "unsecret", UNCHANGED stores)
       \/ op[c].stage = "elsewhere" /\ Fault /\ Leave(c) /\ UNCHANGED <<stores, amiss>>
    /\ UNCHANGED <<granted, token, reqs>>

StoreToken(c) ==
    /\ InNeed(c) /\ op[c].http = "minted"
    /\ token' = op[c].tok /\ mutex' = None
    /\ op' = [op EXCEPT ![c].http = "send"]
    /\ UNCHANGED <<stores, granted, amiss, reqs, faults>>

(* The cached token comes within 30 s of its end. *)
ExpireToken ==
    /\ token # None /\ mutex = None /\ token' = None
    /\ UNCHANGED <<stores, granted, mutex, op, amiss, reqs, faults>>

(* do: on the first 403 the cached token is dropped and another one taken; a
   second 403 is the caller's answer. *)
Refused(c) == InNeed(c) /\ op[c].http = "send" /\ op[c].stage # "elsewhere" /\ op[c].tok = "old"

Again(c) == [op[c] EXCEPT !.http = "token", !.tok = None, !.again = TRUE]
Forbidden == [stage |-> "forbidden"]

Refuse(c) ==
    /\ Refused(c)
    /\ op[c].again \/ mutex = None
    /\ token' = IF op[c].again THEN token ELSE None
    /\ op' = [op EXCEPT ![c] = IF op[c].again THEN Forbidden ELSE Again(c)]
    /\ amiss' = (amiss \/ op[c].again)
    /\ UNCHANGED <<stores, granted, mutex, reqs, faults>>

(* Keycloak carries the request out. *)
Sent(c) == c \in Active /\ op[c].http = "send" /\ ~Refused(c)

OtherEnd(c) ==
    /\ Sent(c) /\ At(c, "elsewhere") /\ Leave(c)
    /\ UNCHANGED <<stores, Keeps, mutex, amiss, faults>>

-----------------------------------------------------------------------------
(* Put stores the secret, if there is one in the request, ... *)
PutSecret(c) ==
    LET effect == vault' = op[c].secret /\ UNCHANGED <<link, provider>>
    IN  /\ At(c, "secret")
        /\ \/ effect /\ Goto(c, "post") /\ UNCHANGED <<amiss, faults>>
           \/ GivesUp(c, effect)
        /\ UNCHANGED <<Keeps, mutex>>

(* What UpsertIdentityProvider sends: the role mappings are not part of it. *)
Asked(c) == [cfg |-> op[c].row.cfg, secret |-> op[c].secret]
SetProvider(c) == provider' = Asked(c) /\ UNCHANGED <<link, vault>>

(* ... creates the provider with the settings and the secret of the request
   alone, or when there is one replaces all it has, ... *)
PostProviderMutConflictOk(c) ==
    /\ Sent(c) /\ At(c, "post")
    /\ \/ /\ IF provider = None THEN SetProvider(c) ELSE UNCHANGED stores
          /\ Goto(c, "upsert")
          /\ UNCHANGED <<amiss, faults>>
       \/ GivesUp(c, provider = None /\ SetProvider(c))
    /\ UNCHANGED <<Keeps, mutex>>
PostProvider(c) ==
    /\ Sent(c) /\ At(c, "post")
    /\ \/ /\ provider = None /\ SetProvider(c) /\ Goto(c, "upsert")
          /\ UNCHANGED <<amiss, faults>>
       \/ /\ provider # None /\ Goto(c, "put")
          /\ UNCHANGED <<stores, amiss, faults>>
       \/ GivesUp(c, provider = None /\ SetProvider(c))
    /\ UNCHANGED <<Keeps, mutex>>

(* ... which fails when a delete took it away in between, ... *)
PutProvider(c) ==
    /\ Sent(c) /\ At(c, "put")
    /\ \/ /\ provider # None /\ SetProvider(c) /\ Goto(c, "upsert")
          /\ UNCHANGED <<amiss, faults>>
       \/ /\ provider = None /\ Leave(c) /\ amiss' = TRUE
          /\ UNCHANGED <<stores, faults>>
       \/ GivesUp(c, provider # None /\ SetProvider(c))
    /\ UNCHANGED <<Keeps, mutex>>

(* ... and inserts or updates the row, with the role mappings. *)
UpsertLink(c) ==
    LET effect == link' = op[c].row /\ UNCHANGED <<provider, vault>>
    IN  /\ At(c, "upsert")
        /\ \/ effect /\ Done(c) /\ UNCHANGED faults
           \/ GivesUp(c, effect)
        /\ UNCHANGED <<Keeps, mutex>>

(* Delete looks for the row first: without one it is a 404; an error is taken
   for a row. *)
GetLink(c) ==
    /\ At(c, "get")
    /\ \/ link = None /\ Leave(c) /\ UNCHANGED <<stores, amiss, faults>>
       \/ link # None /\ Goto(c, "delete") /\ UNCHANGED <<stores, amiss, faults>>
       \/ GoesOn(c, "delete", UNCHANGED stores)
    /\ UNCHANGED <<Keeps, mutex>>

DeleteProvider(c) ==
    LET effect == provider' = None /\ UNCHANGED <<link, vault>>
    IN  /\ Sent(c) /\ At(c, "delete")
        /\ \/ effect /\ Goto(c, "unsecret") /\ UNCHANGED <<amiss, faults>>
           \/ GoesOn(c, "unsecret", effect)
        /\ UNCHANGED <<Keeps, mutex>>

DeleteSecret(c) ==
    LET effect == vault' = None /\ UNCHANGED <<link, provider>>
    IN  /\ At(c, "unsecret")
        /\ \/ effect /\ Goto(c, "unlink") /\ UNCHANGED <<amiss, faults>>
           \/ GoesOn(c, "unlink", effect)
        /\ UNCHANGED <<Keeps, mutex>>

DeleteLink(c) ==
    LET effect == link' = None /\ UNCHANGED <<provider, vault>>
    IN  /\ At(c, "unlink")
        /\ \/ effect /\ Done(c) /\ UNCHANGED faults
           \/ GoesOn(c, "idle", effect)
        /\ UNCHANGED <<Keeps, mutex>>

BrokerNext ==
    \/ Grant \/ ExpireToken
    \/ \E c \in Caller :
         \/ \E row \in Link, secret \in Secret \union {None} : PutBegin(c, row, secret)
         \/ DeleteBegin(c) \/ OtherBegin(c) \/ OtherEnd(c)
         \/ TakeToken(c) \/ Mint(c) \/ MintFails(c) \/ StoreToken(c) \/ Refuse(c)
         \/ PutSecret(c) \/ PostProvider(c) \/ PutProvider(c) \/ UpsertLink(c)
         \/ GetLink(c) \/ DeleteProvider(c) \/ DeleteSecret(c) \/ DeleteLink(c)

BrokerSpec == BrokerInit /\ [][BrokerNext]_brokerVars

-----------------------------------------------------------------------------
(* A request for a realm that existed when it began is not refused a second
   time: the token of the retry was minted after the first 403 (rest.go:107).
   accessToken holds the mutex for the whole minting; without, a token another
   caller began to mint before the realm could be stored after the
   invalidation. *)
RetryIsFresh == \A c \in Caller : op[c].stage # "forbidden"

(* At rest the row and Keycloak's provider are both there or both gone and have
   the same type and settings, and the provider's secret is the stored one,
   unless a step failed or handlers overlapped, and no later request ran through
   by itself. Secret, provider and row are written one by one
   (handlers.go:68-93), and a Delete that drops an error cannot be repeated:
   there is no row any more (handlers.go:111). A Put without a secret takes it
   out of Keycloak, and leaves the stored one behind (handlers.go:79). Nothing
   is said of the role mappings: only the row ever has them. *)
LinkedUnlessAmiss ==
    Handlers = {} /\ ~amiss =>
        IF link = None THEN provider = None /\ vault = None
        ELSE provider # None /\ provider.cfg = link.cfg /\ provider.secret \in {None, vault}
=============================================================================
