------------------------------ MODULE Invites ------------------------------
(***************************************************************************)
(* Invitations to one tenant (control-plane/internal/invites).  A token    *)
(* belongs to one invitation, of which the store has the hash only, so an  *)
(* invitation stands for its token here.  Create and List are whole;       *)
(* Accept and Revoke are followed call by call, because the store and      *)
(* Keycloak are asked in turn and nothing holds them together.             *)
(***************************************************************************)
EXTENDS RealmUsers

CONSTANTS
    Invite,      \* invitations, and with them their tokens
    Offer        \* the e-mail address and the roles an admin may send

(* Invitations are none of the names that stand for other makers of users. *)
ASSUME InvitesAssumption ==
    /\ \A o \in Offer : o.email \in Username
    /\ {"nobody", "scim"} \intersect Invite = {}

VARIABLES
    invitations,   \* the table: None, or the row of an invitation
    expired,       \* invitations whose expires_at has passed
    spent,         \* ghost: how many accepts made a user out of an invitation
    amiss          \* ghost: invitations whose handling met an error it left
                   \* behind, or that were revoked after they were accepted

inviteVars == <<invitations, expired, spent, amiss>>

None == [status |-> "none"]

InviteInit ==
    /\ invitations = [i \in Invite |-> None]
    /\ expired = {}
    /\ spent = [i \in Invite |-> 0]
    /\ amiss = {}

SetStatus(i, s) == invitations' = [invitations EXCEPT ![i].status = s]
GoneWrong(i) == amiss' = amiss \union {i}

-----------------------------------------------------------------------------
(* Create: one insert, then the token is sent out. *)
CreateInvitation(i) ==
    /\ invitations[i] = None
    /\ \E o \in Offer : invitations' = [invitations EXCEPT ![i] =
                            [status |-> "pending", email |-> o.email, roles |-> o.roles]]
    /\ UNCHANGED <<expired, spent, amiss, users, req, reqs, faults>>

(* Seven days pass; it matters while the invitation is pending only. Nothing
   writes the status "expired". *)
Expire(i) ==
    /\ invitations[i].status = "pending"
    /\ expired' = expired \union {i}
    /\ UNCHANGED <<invitations, spent, amiss, users, req, reqs, faults>>

-----------------------------------------------------------------------------
(* Accept: the token's invitation is read and checked ... *)
AcceptBegin(h, i) ==
    /\ invitations[i].status = "pending" /\ i \notin expired
    /\ Begin(h, [pc |-> "create", inv |-> i])
    /\ UNCHANGED <<inviteVars, users, faults>>

(* ... the user is created; a name that is taken fails the request ... *)
AcceptCreateMutAdopt(h) ==
    /\ req[h].pc = "create"
    /\ LET i == req[h].inv
           n == invitations[i].email
       IN  \E ok \in BOOLEAN :
             /\ CreateUser(n, TRUE, i, ok)
             /\ IF ok \/ Exists(n)
                THEN /\ Goto(h, [pc |-> "roles", inv |-> i, todo |-> invitations[i].roles])
                     /\ spent' = [spent EXCEPT ![i] = @ + 1]
                     /\ UNCHANGED amiss
                ELSE End(h) /\ GoneWrong(i) /\ UNCHANGED spent
    /\ UNCHANGED <<invitations, expired>>
AcceptCreate(h) ==
    /\ req[h].pc = "create"
    /\ LET i == req[h].inv IN
         \E ok \in BOOLEAN :
             /\ CreateUser(invitations[i].email, TRUE, i, ok)
             /\ IF ok
                THEN /\ Goto(h, [pc |-> "roles", inv |-> i, todo |-> invitations[i].roles])
                     /\ spent' = [spent EXCEPT ![i] = @ + 1]
                     /\ UNCHANGED amiss
                ELSE /\ End(h)
                     /\ UNCHANGED spent
                     /\ IF users' # users THEN GoneWrong(i) ELSE UNCHANGED amiss
    /\ UNCHANGED <<invitations, expired>>

(* ... and gets the invited roles one by one; the first error ends the request
   and leaves the user as it is ... *)
AcceptRole(h) ==
    /\ req[h].pc = "roles"
    /\ LET i == req[h].inv IN
         \E r \in req[h].todo, ok \in BOOLEAN :
             /\ AssignRealmRole(invitations[i].email, r, ok)
             /\ IF ok
                THEN /\ Goto(h, [req[h] EXCEPT !.todo = @ \ {r}])
                     /\ UNCHANGED amiss
                ELSE End(h) /\ GoneWrong(i)
    /\ UNCHANGED <<invitations, expired, spent>>

(* ... and the invitation is marked, whatever its status is by now. The error
   of that write is dropped. *)
AcceptSaveMutEarly(h) ==
    /\ req[h].pc = "roles"
    /\ SetStatus(req[h].inv, "accepted") /\ UNCHANGED <<amiss, faults>>
    /\ End(h)
    /\ UNCHANGED <<expired, spent, users>>
AcceptSave(h) ==
    /\ req[h].pc = "roles" /\ req[h].todo = {}
    /\ \/ SetStatus(req[h].inv, "accepted") /\ UNCHANGED <<amiss, faults>>
       \/ Fault /\ GoneWrong(req[h].inv) /\ UNCHANGED invitations
    /\ End(h)
    /\ UNCHANGED <<expired, spent, users>>

-----------------------------------------------------------------------------
(* Revoke reads the row and writes "revoked" to it, without a look at the
   status and without minding an error. *)
RevokeBegin(h, i) ==
    /\ invitations[i] # None
    /\ Begin(h, [pc |-> "revoke", inv |-> i])
    /\ UNCHANGED <<inviteVars, users, faults>>

RevokeSave(h) ==
    /\ req[h].pc = "revoke"
    /\ LET i == req[h].inv IN
         \/ /\ SetStatus(i, "revoked")
            /\ IF invitations[i].status = "accepted" THEN GoneWrong(i) ELSE UNCHANGED amiss
            /\ UNCHANGED faults
         \/ Fault /\ UNCHANGED <<invitations, amiss>>
    /\ End(h)
    /\ UNCHANGED <<expired, spent, users>>

InviteNext ==
    \/ \E i \in Invite : CreateInvitation(i) \/ Expire(i)
    \/ \E h \in Req, i \in Invite : AcceptBegin(h, i) \/ RevokeBegin(h, i)
    \/ \E h \in Req : AcceptCreate(h) \/ AcceptRole(h) \/ AcceptSave(h) \/ RevokeSave(h)

-----------------------------------------------------------------------------
HandledBy(h, i) == req[h].pc \in {"create", "roles", "revoke"} /\ req[h].inv = i

(* An invitation makes a user at most once, however many requests present its
   token at the same time: both find it pending, and only the realm's unique
   user name keeps the second out (handlers.go:138-147). *)
SingleUse == \A i \in Invite : spent[i] <= 1

(* When nobody works on an invitation and nothing went wrong on the way, its
   status tells whether it made its user, and an accepted one's user has every
   role it promised. (After an error the user may exist without them, and the
   invitation is still pending; handlers.go:144-156.) *)
StatusTellsAccount ==
    \A i \in Invite \ amiss :
        invitations[i] # None /\ (\A h \in Req : ~HandledBy(h, i)) =>
            LET u == users[invitations[i].email] IN
            /\ u.by = i <=> invitations[i].status = "accepted"
            /\ u.by = i => invitations[i].roles \subseteq u.roles
=============================================================================
