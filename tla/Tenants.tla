------------------------------ MODULE Tenants ------------------------------
(***************************************************************************)
(* The lifecycle of one tenant, that is of one slug                        *)
(* (control-plane/internal/tenants/service.go): operator requests that     *)
(* provision, suspend, resume and delete it, each a goroutine that reads   *)
(* the registry row, calls Keycloak and writes the row back, with nothing  *)
(* that keeps two of them apart.                                           *)
(*                                                                         *)
(* A call to Keycloak or to the registry may be refused, or be carried out *)
(* and still reported as failed (the client gives up after 30 seconds); a  *)
(* handler may stop between any two of its steps (the process dies, or the *)
(* operator hangs up and every later call fails on the cancelled request   *)
(* context).  The provisioning job is left out: nothing reads it.          *)
(***************************************************************************)
EXTENDS Integers, FiniteSets

CONSTANTS
    Op,         \* request goroutines
    Faults,     \* what may go wrong: "refused", "lost", "abandoned"
    None,       \* no row
    NoRealm,    \* no realm
    MaxReqs,    \* bound: operator requests
    MaxFaults   \* bound: things that go wrong

VARIABLES
    row,     \* the tenant's row in the registry
    realm,   \* the Keycloak realm: enabled or not, and the saga's steps in it
    op,      \* the request goroutines
    reqs, faults,
    doubt,   \* ghost: what went wrong since a request that ran by itself last
             \* wrote the row at its end: "overlap", two requests ran at once;
             \* "lost", a change of the realm was reported as failed; "store",
             \* an error of the registry left the row behind; "abandoned", a
             \* handler stopped
    alone    \* ghost: no two requests ran at once since all were at rest

vars == <<row, realm, op, reqs, faults, doubt, alone>>

-----------------------------------------------------------------------------
Status == {"provisioning", "active", "suspended", "deleting", "deleted", "failed"}

(* `ready' is SubdomainReady; `until' is AuditRetentionUntil, 0 if it is not
   set. Requests are numbered, and a request's number is its time. *)
Row == [status : Status, ready : BOOLEAN, until : Nat]

(* The saga's steps: realm, console client, MCP client, admin role, admin
   user. Only the first has an undo. *)
Step == 1..5
Realm == [enabled : BOOLEAN, steps : SUBSET Step]

ASSUME TenantsAssumption ==
    /\ Faults \subseteq {"refused", "lost", "abandoned"}
    /\ MaxReqs \in Nat /\ MaxFaults \in Nat
    /\ None \notin Row /\ NoRealm \notin Realm

Idle == [pc |-> "idle"]
Goto(o, state) == op' = [op EXCEPT ![o] = state]
AtRest == \A o \in Op : op[o] = Idle

Init ==
    /\ row = None
    /\ realm = NoRealm
    /\ op = [o \in Op |-> Idle]
    /\ reqs = 0
    /\ faults = 0
    /\ doubt = {}
    /\ alone = TRUE

-----------------------------------------------------------------------------
(* How a call to Keycloak or to the registry may end. *)
Outcome == {"ok"} \union
           (IF faults < MaxFaults THEN Faults \ {"abandoned"} ELSE {})
Spend(out) == faults' = IF out = "ok" THEN faults ELSE faults + 1

(* A call to Keycloak: `able' says whether the realm is such that it can be
   carried out, `after' is the realm it leaves. *)
Call(able, after, out) ==
    /\ realm' = IF able /\ out # "refused" THEN after ELSE realm
    /\ Spend(out)

(* CreateTenant or UpdateTenant, with the handler's own copy of the row. *)
Save(copy, out) ==
    /\ row' = IF out = "refused" THEN row ELSE copy
    /\ Spend(out)

(* The last UpdateTenant of a handler. Suspend and Resume return its error,
   provisioning and Delete drop it: the row stays behind either way. *)
LastSave(copy, out) ==
    /\ Save(copy, out)
    /\ doubt' = IF out = "refused" THEN doubt \union {"store"}
                ELSE IF alone THEN {} ELSE doubt

Request(o) ==
    /\ op[o] = Idle
    /\ reqs < MaxReqs
    /\ reqs' = reqs + 1
    /\ alone' = AtRest
    /\ doubt' = doubt \union (IF AtRest THEN {} ELSE {"overlap"})

-----------------------------------------------------------------------------
(* Provision. *)

(* The slug must have no row ... *)
Provision(o) ==
    /\ Request(o)
    /\ row = None
    /\ Goto(o, [pc |-> "exists"])
    /\ UNCHANGED <<row, realm, faults>>

(* ... and no realm; the check itself may fail. *)
CheckRealm(o) ==
    /\ op[o].pc = "exists"
    /\ \E out \in Outcome :
        /\ Call(TRUE, realm, out)
        /\ Goto(o, IF out = "ok" /\ realm = NoRealm THEN [pc |-> "insert"] ELSE Idle)
    /\ UNCHANGED <<row, reqs, doubt, alone>>

(* CreateTenant: the primary key lets one request through. When its answer is
   lost the row stays as it was made, and nobody goes on with it. *)
Made == [status |-> "provisioning", ready |-> FALSE, until |-> 0]
CreateTenantMutUpsert(o) ==
    /\ op[o].pc = "insert"
    /\ \E out \in Outcome :
        /\ Save(Made, out)
        /\ doubt' = doubt \union (IF out = "lost" THEN {"store"} ELSE {})
        /\ Goto(o, IF out = "ok" THEN [pc |-> "saga", step |-> 1] ELSE Idle)
    /\ UNCHANGED <<realm, reqs, alone>>
CreateTenant(o) ==
    /\ op[o].pc = "insert"
    /\ \/ /\ row = None
          /\ \E out \in Outcome :
              /\ Save(Made, out)
              /\ doubt' = doubt \union (IF out = "lost" THEN {"store"} ELSE {})
              /\ Goto(o, IF out = "ok" THEN [pc |-> "saga", step |-> 1] ELSE Idle)
       \/ /\ row # None
          /\ Goto(o, Idle)
          /\ UNCHANGED <<row, faults, doubt>>
    /\ UNCHANGED <<realm, reqs, alone>>

Ended(ok) == [pc |-> "reread", ok |-> ok]

(* runSaga's first step: there is nothing to undo when it fails. *)
CreateRealm(o) ==
    /\ op[o].pc = "saga" /\ op[o].step = 1
    /\ \E out \in Outcome :
        /\ Call(realm = NoRealm, [enabled |-> TRUE, steps |-> {1}], out)
        /\ Goto(o, IF realm = NoRealm /\ out = "ok"
                   THEN [pc |-> "saga", step |-> 2] ELSE Ended(FALSE))
    /\ UNCHANGED <<row, reqs, doubt, alone>>

(* Its other steps, which need the realm; one that fails is followed by the
   undo of the steps before it. *)
SagaStepMutNoEnd(o) ==
    LET n == op[o].step
        able == realm # NoRealm
    IN  /\ op[o].pc = "saga" /\ n > 1
        /\ \E out \in Outcome :
            /\ Call(able, [realm EXCEPT !.steps = @ \union {n}], out)
            /\ Goto(o, IF ~able \/ out # "ok" THEN Idle
                       ELSE IF n = 5 THEN Ended(TRUE)
                       ELSE [pc |-> "saga", step |-> n + 1])
        /\ UNCHANGED <<row, reqs, doubt, alone>>
SagaStep(o) ==
    LET n == op[o].step
        able == realm # NoRealm
    IN  /\ op[o].pc = "saga" /\ n > 1
        /\ \E out \in Outcome :
            /\ Call(able, [realm EXCEPT !.steps = @ \union {n}], out)
            /\ Goto(o, IF ~able \/ out # "ok" THEN [pc |-> "undo"]
                       ELSE IF n = 5 THEN Ended(TRUE)
                       ELSE [pc |-> "saga", step |-> n + 1])
        /\ UNCHANGED <<row, reqs, doubt, alone>>

(* The realm step's undo: its error is dropped. *)
Undo(o) ==
    /\ op[o].pc = "undo"
    /\ \E out \in Outcome : Call(TRUE, NoRealm, out)
    /\ Goto(o, Ended(FALSE))
    /\ UNCHANGED <<row, reqs, doubt, alone>>

(* The row is read again before it is written. The error of that is dropped:
   what is written is then a tenant without a slug, that is nothing. *)
Reread(o) ==
    /\ op[o].pc = "reread"
    /\ \E out \in Outcome :
        /\ Goto(o, [pc |-> "conclude", ok |-> op[o].ok,
                    copy |-> IF out = "ok" THEN row ELSE None])
        /\ Spend(out)
    /\ UNCHANGED <<row, realm, reqs, doubt, alone>>

Concluded(o) ==
    IF op[o].ok THEN [op[o].copy EXCEPT !.status = "active", !.ready = TRUE]
    ELSE [op[o].copy EXCEPT !.status = "failed"]

Conclude(o) ==
    /\ op[o].pc = "conclude"
    /\ \/ op[o].copy # None /\ \E out \in Outcome : LastSave(Concluded(o), out)
       \/ op[o].copy = None /\ doubt' = doubt \union {"store"} /\ UNCHANGED <<row, faults>>
    /\ Goto(o, Idle)
    /\ UNCHANGED <<realm, reqs, alone>>

-----------------------------------------------------------------------------
(* Suspend and Resume: read and check the row, set the realm, write the row
   as it was read with the new status. *)

Suspend(o) ==
    /\ Request(o)
    /\ row # None
    /\ row.status \notin {"deleted", "deleting"}
    /\ Goto(o, [pc |-> "enable", on |-> FALSE, copy |-> row])
    /\ UNCHANGED <<row, realm, faults>>

Resume(o) ==
    /\ Request(o)
    /\ row # None
    /\ row.status = "suspended"
    /\ Goto(o, [pc |-> "enable", on |-> TRUE, copy |-> row])
    /\ UNCHANGED <<row, realm, faults>>

Switched(o) == [op[o].copy EXCEPT !.status = IF op[o].on THEN "active" ELSE "suspended"]

SetRealmEnabledMutIgnoreError(o) ==
    LET able == realm # NoRealm
    IN  /\ op[o].pc = "enable"
        /\ \E out \in Outcome :
            /\ Call(able, [realm EXCEPT !.enabled = op[o].on], out)
            /\ Goto(o, [pc |-> "save", copy |-> Switched(o)])
        /\ UNCHANGED <<row, reqs, doubt, alone>>
SetRealmEnabled(o) ==
    LET able == realm # NoRealm
    IN  /\ op[o].pc = "enable"
        /\ \E out \in Outcome :
            /\ Call(able, [realm EXCEPT !.enabled = op[o].on], out)
            /\ doubt' = doubt \union ({out} \intersect {"lost"})
            /\ Goto(o, IF able /\ out = "ok" THEN [pc |-> "save", copy |-> Switched(o)]
                       ELSE Idle)
        /\ UNCHANGED <<row, reqs, alone>>

SaveRow(o) ==
    /\ op[o].pc = "save"
    /\ \E out \in Outcome : LastSave(op[o].copy, out)
    /\ Goto(o, Idle)
    /\ UNCHANGED <<realm, reqs, alone>>

-----------------------------------------------------------------------------
(* Delete: in any state of the tenant. Between the two writes it purges the
   org's servers (Propagation.tla) and deletes the realm; a realm that is not
   there counts as deleted. *)

Delete(o) ==
    /\ Request(o)
    /\ row # None
    /\ Goto(o, [pc |-> "mark", now |-> reqs', copy |-> [row EXCEPT !.status = "deleting"]])
    /\ UNCHANGED <<row, realm, faults>>

MarkDeleting(o) ==
    /\ op[o].pc = "mark"
    /\ \E out \in Outcome : Save(op[o].copy, out)
    /\ Goto(o, [op[o] EXCEPT !.pc = "remove"])
    /\ UNCHANGED <<realm, reqs, doubt, alone>>

(* The deadline is reckoned from the time the request began. *)
Deleted(o) == [status |-> "deleted", ready |-> FALSE, until |-> op[o].now]

DeleteRealmMutForget(o) ==
    /\ op[o].pc = "remove"
    /\ \E out \in Outcome :
        /\ Call(TRUE, NoRealm, out)
        /\ Goto(o, [pc |-> "save", copy |->
              IF out = "ok" THEN Deleted(o)
              ELSE [status |-> "failed", ready |-> FALSE, until |-> 0]])
    /\ UNCHANGED <<row, reqs, doubt, alone>>
DeleteRealm(o) ==
    /\ op[o].pc = "remove"
    /\ \E out \in Outcome :
        /\ Call(TRUE, NoRealm, out)
        /\ Goto(o, [pc |-> "save", copy |->
              IF out = "ok" THEN Deleted(o) ELSE [op[o].copy EXCEPT !.status = "failed"]])
    /\ UNCHANGED <<row, reqs, doubt, alone>>

-----------------------------------------------------------------------------
(* A handler stops: nothing takes its work up again. *)
Abandon(o) ==
    /\ "abandoned" \in Faults
    /\ faults < MaxFaults
    /\ op[o] # Idle
    /\ faults' = faults + 1
    /\ doubt' = doubt \union {"abandoned"}
    /\ Goto(o, Idle)
    /\ UNCHANGED <<row, realm, reqs, alone>>

Begin(o) ==
    \/ Provision(o)
    \/ Suspend(o)
    \/ Resume(o)
    \/ Delete(o)

Continue(o) ==
    \/ CheckRealm(o)
    \/ CreateTenant(o)
    \/ CreateRealm(o)
    \/ SagaStep(o)
    \/ Undo(o)
    \/ Reread(o)
    \/ Conclude(o)
    \/ SetRealmEnabled(o)
    \/ SaveRow(o)
    \/ MarkDeleting(o)
    \/ DeleteRealm(o)

Next ==
    \/ \E o \in Op : Begin(o)
    \/ \E o \in Op : Continue(o)
    \/ \E o \in Op : Abandon(o)

Spec == Init /\ [][Next]_vars

(* A handler that is not abandoned runs to its end: every call it makes has a
   timeout. *)
FairSpec == Spec /\ \A o \in Op : WF_vars(Continue(o))

-----------------------------------------------------------------------------
InSaga(o) == op[o].pc \in {"saga", "undo", "reread", "conclude"}
HasCopy(o) == op[o].pc \in {"conclude", "enable", "save", "mark", "remove"}

(* Types; a handler's copy of the row is a row, or for Conclude nothing
   (service.go:180 ignores that error). *)
TypeOK ==
    /\ row \in Row \union {None}
    /\ realm \in Realm \union {NoRealm}
    /\ \A o \in Op : HasCopy(o) => op[o].copy \in Row \union {None}
    /\ reqs \in 0..MaxReqs
    /\ faults \in 0..MaxFaults
    /\ doubt \subseteq {"overlap", "lost", "store", "abandoned"}
    /\ alone \in BOOLEAN

(* However many operators provision the slug, and whatever fails, one saga
   runs: the two checks before CreateTenant are not what keeps a second one
   from compensating, that is deleting, the first one's realm
   (service.go:102-125, postgres.go:76-86). *)
OneSaga == \A o, p \in Op : InSaga(o) /\ InSaga(p) => o = p

(* The slug has a row before it has a realm and keeps it: whatever crashes or
   times out, every realm the service made can be found in the registry and
   deleted (service.go:123-141). *)
RealmIsRegistered ==
    /\ realm # NoRealm => row # None
    /\ \A o \in Op : InSaga(o) => row # None

(* Between requests the registry tells the truth, after refused calls, failed
   deletes, second tries and dropped errors. What puts it in doubt is named:
   two requests at once, a handler that stopped, a realm switched although the
   answer was lost, a last write of the row that failed (service.go:184-300).
   The next request that has the tenant to itself and writes the row at its end
   removes the doubt, whatever it found.
   SubdomainReady is never in doubt: with it, the realm is complete or gone.
   An active tenant without it is one whose provisioning did not come to its
   end, and which was suspended and resumed since. *)
StatusTellsRealm ==
    /\ row # None /\ row.ready /\ realm # NoRealm => realm.steps = Step
    /\ AtRest /\ row # None /\ doubt = {} =>
        /\ row.status \notin {"provisioning", "deleting"}
        /\ row.status = "active" => realm # NoRealm /\ realm.enabled
        /\ row.status = "suspended" => realm # NoRealm /\ ~realm.enabled
        /\ row.status = "deleted" => realm = NoRealm /\ row.until # 0 /\ ~row.ready

(* Once recorded, the audit retention deadline stays or moves on, also when the
   deleted tenant is deleted again, which sets it anew (service.go:290-297), and
   when that fails, stops or is carried out unnoticed; only among requests that
   ran at once may one that read the row earlier write it away. *)
RetentionKept ==
    [][row # None /\ row.until # 0 /\ alone => row'.until >= row.until]_vars

(* No tenant stays in a transitional state unless a handler stopped or the
   registry failed it: the others write a final status on every path, failed
   calls, undo, overlapping requests and a delete in the middle of the saga
   included (service.go:179-203, 273-304). *)
InTransition == row # None /\ row.status \in {"provisioning", "deleting"}
SettlesDown == InTransition ~> (~InTransition \/ doubt \intersect {"abandoned", "store"} # {})
=============================================================================
