----------------------------- MODULE RealmUsers -----------------------------
(***************************************************************************)
(* The users of one tenant's Keycloak realm, as the control plane's        *)
(* requests see them through idp.RESTClient (idp/rest.go, idp/directory.go)*)
(* and the requests themselves.  A call either succeeds or reports an      *)
(* error; an error without a cause in the realm is a fault (a refusal, a   *)
(* lost answer, a cancelled request), and then the call may have been      *)
(* carried out all the same.                                               *)
(***************************************************************************)
EXTENDS Integers, FiniteSets

CONSTANTS
    Username,    \* user names, which are e-mail addresses for invitations
    RealmRole,   \* the roles that exist in the realm
    Req,         \* concurrent requests to the control plane
    MaxReqs,     \* bound on the requests
    MaxFaults    \* bound on faults

VARIABLES
    users,     \* the realm's users by name
    req,       \* what each request is doing
    reqs,      \* requests so far
    faults     \* faults so far

NoUser == [by |-> "nobody"]
Idle == [pc |-> "idle"]

UsersInit ==
    /\ users = [n \in Username |-> NoUser]
    /\ req = [h \in Req |-> Idle]
    /\ reqs = 0
    /\ faults = 0

Exists(n) == users[n] # NoUser

-----------------------------------------------------------------------------
Count == reqs < MaxReqs /\ reqs' = reqs + 1

Begin(h, r) ==
    /\ req[h] = Idle
    /\ Count
    /\ req' = [req EXCEPT ![h] = r]

Goto(h, r) == req' = [req EXCEPT ![h] = r] /\ UNCHANGED reqs
End(h) == Goto(h, Idle)

Fault == faults < MaxFaults /\ faults' = faults + 1

-----------------------------------------------------------------------------
(* The effects. `by' is a ghost: who created the user. *)
With(n, u) == users' = [users EXCEPT ![n] = u]

Create(n, on, by) == With(n, [by |-> by, enabled |-> on, roles |-> {}])
Assign(n, r) == With(n, [users[n] EXCEPT !.roles = @ \union {r}])
Enable(n, on) == With(n, [users[n] EXCEPT !.enabled = on])

(* POST /users: 201, or 409 if the name is taken, or a fault. *)
CreateUser(n, on, by, ok) ==
    \/ ok /\ ~Exists(n) /\ Create(n, on, by) /\ UNCHANGED faults
    \/ ~ok /\ Exists(n) /\ UNCHANGED <<users, faults>>
    \/ ~ok /\ Fault /\ (UNCHANGED users \/ (~Exists(n) /\ Create(n, on, by)))

(* GET /roles/{role} and POST /role-mappings: 404 if the realm has no such
   role or user. Assigning a role again changes nothing. *)
AssignRealmRole(n, r, ok) ==
    LET known == r \in RealmRole /\ Exists(n) IN
    \/ ok /\ known /\ Assign(n, r) /\ UNCHANGED faults
    \/ ~ok /\ ~known /\ UNCHANGED <<users, faults>>
    \/ ~ok /\ Fault /\ (UNCHANGED users \/ (known /\ Assign(n, r)))

(* PUT /users/{id} with `enabled': 404 if there is no such user. *)
SetUserEnabled(n, on, ok) ==
    \/ ok /\ Exists(n) /\ Enable(n, on) /\ UNCHANGED faults
    \/ ~ok /\ ~Exists(n) /\ UNCHANGED <<users, faults>>
    \/ ~ok /\ Fault /\ (UNCHANGED users \/ (Exists(n) /\ Enable(n, on)))
=============================================================================
