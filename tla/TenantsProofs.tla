--------------------------- MODULE TenantsProofs ---------------------------
(***************************************************************************)
(* Proofs about Tenants, for any number of requests and faults of every    *)
(* kind.  The inductive invariant has three layers.                        *)
(*                                                                         *)
(* IInv: the types, OneSaga and RealmIsRegistered.  CreateTenant needs an  *)
(* absent row and every saga a present one, so there is one saga at most.  *)
(*                                                                         *)
(* Ripe: how far the one saga has come, for requests that overlap as they  *)
(* will.  While it runs nothing says ready, neither the row nor a copy of  *)
(* it, and after it nothing makes a realm.                                 *)
(*                                                                         *)
(* Honest: a handler that works alone, from one call to the next: what the *)
(* row says, what its copy of the row says and what the realm is at each   *)
(* of its steps.                                                           *)
(***************************************************************************)
EXTENDS Tenants, TLAPS

Handler ==
    [pc : {"idle", "exists", "insert", "undo"}]
    \union [pc : {"saga"}, step : Step]
    \union [pc : {"reread"}, ok : BOOLEAN]
    \union [pc : {"conclude"}, ok : BOOLEAN, copy : Row \union {None}]
    \union [pc : {"enable"}, on : BOOLEAN, copy : Row]
    \union [pc : {"save"}, copy : Row]
    \union [pc : {"mark", "remove"}, now : Nat \ {0}, copy : Row]

Types ==
    /\ row \in Row \union {None}
    /\ realm \in Realm \union {NoRealm}
    /\ op \in [Op -> Handler]
    /\ reqs \in 0..MaxReqs
    /\ faults \in 0..MaxFaults

IInv ==
    /\ Types
    /\ OneSaga
    /\ RealmIsRegistered

SagaPc == {"saga", "undo", "reread", "conclude"}
CopyPc == {"conclude", "enable", "save", "mark", "remove"}

(* What every handler's record has. *)
LEMMA HandlerPc ==
    ASSUME NEW h \in Handler
    PROVE  /\ h.pc \in {"idle", "exists", "insert", "undo", "saga", "reread",
                        "conclude", "enable", "save", "mark", "remove"}
           /\ h.pc \in CopyPc => h.copy \in Row \union {None}
           /\ h.pc \in {"enable", "save", "mark", "remove"} => h.copy \in Row
           /\ h.pc \in {"mark", "remove"} => h.now \in Nat \ {0}
           /\ h.pc = "saga" => h.step \in Step
           /\ h.pc \in {"reread", "conclude"} => h.ok \in BOOLEAN
           /\ h.pc = "enable" => h.on \in BOOLEAN
BY DEF Handler, CopyPc

(* A step in which one handler moves from one record to another keeps the
   invariant if the row is not lost, a realm has a row, and the handler enters
   the saga only when it was in it or there was no row. *)
LEMMA Move ==
    ASSUME IInv, NEW o \in Op, NEW h \in Handler,
           Goto(o, h),
           row' \in Row \union {None},
           row # None => row' # None,
           realm' \in Realm \union {NoRealm},
           realm' # NoRealm => row' # None,
           reqs' \in 0..MaxReqs,
           faults' \in 0..MaxFaults,
           h.pc \in SagaPc => row' # None /\ (InSaga(o) \/ row = None)
    PROVE  IInv'
<1> USE DEF Goto
<1>1. op' = [op EXCEPT ![o] = h] /\ op \in [Op -> Handler]
  BY DEF IInv, Types
<1>2. Types'
  BY <1>1 DEF Types
<1>3. \A p \in Op : p # o => op'[p] = op[p]
  BY <1>1
<1>4. op'[o] = h
  BY <1>1
<1>5. RealmIsRegistered'
  <2>1. ASSUME NEW p \in Op, InSaga(p)' PROVE row' # None
    <3>1. CASE p = o
      BY <2>1, <3>1, <1>4 DEF InSaga, SagaPc
    <3>2. CASE p # o
      BY <2>1, <3>2, <1>3 DEF InSaga, IInv, RealmIsRegistered
    <3> QED BY <3>1, <3>2
  <2> QED BY <2>1 DEF RealmIsRegistered
<1>6. OneSaga'
  <2>1. ASSUME NEW p \in Op, NEW q \in Op, InSaga(p)', InSaga(q)' PROVE p = q
    <3>1. \A r \in Op : InSaga(r)' /\ r # o => InSaga(r) /\ row # None
      BY <1>3 DEF InSaga, IInv, RealmIsRegistered
    <3>2. InSaga(o)' => InSaga(o) \/ row = None
      BY <1>4 DEF InSaga, SagaPc
    <3> QED BY <2>1, <3>1, <3>2 DEF IInv, OneSaga
  <2> QED BY <2>1 DEF OneSaga
<1> QED BY <1>2, <1>5, <1>6 DEF IInv

(* A call counts as a fault unless it ends well. *)
LEMMA SpendTypes ==
    ASSUME Types, NEW out \in Outcome, Spend(out)
    PROVE  faults' \in 0..MaxFaults
<1>1. out # "ok" => faults < MaxFaults
  BY DEF Outcome
<1> QED BY <1>1, TenantsAssumption DEF Types, Spend

(* A call leaves the realm and the count of faults in their ranges. *)
LEMMA CallTypes ==
    ASSUME Types, NEW able, NEW after, NEW out \in Outcome,
           Call(able, after, out),
           able => after \in Realm \union {NoRealm}
    PROVE  /\ realm' \in Realm \union {NoRealm}
           /\ faults' \in 0..MaxFaults
           /\ realm' = realm \/ (able /\ realm' = after)
BY SpendTypes DEF Types, Call

(* What Save leaves: the row as it was, or the handler's copy. *)
LEMMA SaveTypes ==
    ASSUME Types, NEW copy \in Row, NEW out \in Outcome, Save(copy, out)
    PROVE  /\ row' \in Row \union {None} /\ (row # None => row' # None)
           /\ faults' \in 0..MaxFaults
           /\ row' = row \/ row' = copy
BY SpendTypes, TenantsAssumption DEF Types, Save

(* What the handlers make of a row is a row. *)
LEMMA RowsMade ==
    ASSUME NEW r \in Row
    PROVE  /\ \A s \in Status : /\ [r EXCEPT !.status = s] \in Row
                                /\ [r EXCEPT !.status = s].status = s
                                /\ [r EXCEPT !.status = s].ready = r.ready
                                /\ [r EXCEPT !.status = s].until = r.until
           /\ [r EXCEPT !.status = "active", !.ready = TRUE] \in Row
           /\ [r EXCEPT !.status = "active", !.ready = TRUE].status = "active"
           /\ [r EXCEPT !.status = "active", !.ready = TRUE].until = r.until
           /\ r.until \in Nat /\ r.ready \in BOOLEAN /\ r # None
<1>1. "active" \in Status
  BY DEF Status
<1> QED BY <1>1, TenantsAssumption DEF Row

-----------------------------------------------------------------------------
LEMMA InitIInv == Init => IInv
<1> SUFFICES ASSUME Init PROVE IInv
  OBVIOUS
<1>1. \A o \in Op : op[o] = Idle /\ op[o].pc = "idle"
  BY DEF Init, Idle
<1>2. Types
  BY <1>1, TenantsAssumption DEF Init, Types, Handler, Idle
<1>3. OneSaga /\ RealmIsRegistered
  BY <1>1 DEF Init, OneSaga, RealmIsRegistered, InSaga
<1> QED BY <1>2, <1>3 DEF IInv

(* Reading the row, and nothing else, starts a request. *)
LEMMA BeginIInv == ASSUME IInv, NEW o \in Op, Begin(o) PROVE IInv'
<1>1. /\ Types /\ op[o] \in Handler
      /\ row # None => row \in Row
      /\ realm # NoRealm => row # None
  BY DEF IInv, Types, RealmIsRegistered
<1>2. CASE Provision(o)
  <2>1. [pc |-> "exists"] \in Handler
    BY DEF Handler
  <2> QED BY <1>1, <1>2, <2>1, Move, TenantsAssumption
        DEF Provision, Request, Types, SagaPc
<1>3. CASE Suspend(o)
  <2> DEFINE h == [pc |-> "enable", on |-> FALSE, copy |-> row]
  <2>1. h \in Handler /\ h.pc = "enable"
    BY <1>1, <1>3 DEF Handler, Suspend
  <2> QED BY <1>1, <1>3, <2>1, Move, TenantsAssumption
        DEF Suspend, Request, Types, SagaPc
<1>4. CASE Resume(o)
  <2> DEFINE h == [pc |-> "enable", on |-> TRUE, copy |-> row]
  <2>1. h \in Handler /\ h.pc = "enable"
    BY <1>1, <1>4 DEF Handler, Resume
  <2> QED BY <1>1, <1>4, <2>1, Move, TenantsAssumption
        DEF Resume, Request, Types, SagaPc
<1>5. CASE Delete(o)
  <2>1. reqs' \in Nat \ {0}
    BY <1>1, <1>5, TenantsAssumption DEF Delete, Request, Types
  <2>2. [row EXCEPT !.status = "deleting"] \in Row
    BY <1>1, <1>5, RowsMade DEF Delete, Status
  <2>3. PICK h : /\ h = [pc |-> "mark", now |-> reqs',
                         copy |-> [row EXCEPT !.status = "deleting"]]
                 /\ Goto(o, h)
    BY <1>5 DEF Delete
  <2>4. h \in Handler /\ h.pc = "mark"
    BY <2>1, <2>2, <2>3 DEF Handler
  <2> QED BY <1>1, <1>5, <2>3, <2>4, Move, TenantsAssumption
        DEF Delete, Request, Types, SagaPc
<1> QED BY <1>2, <1>3, <1>4, <1>5 DEF Begin

(* The provisioning handler, one step at a time. *)
LEMMA ProvisionIInv ==
    ASSUME IInv, NEW o \in Op,
           \/ CheckRealm(o) \/ CreateTenant(o) \/ CreateRealm(o) \/ SagaStep(o)
           \/ Undo(o) \/ Reread(o) \/ Conclude(o)
    PROVE  IInv'
<1>1. /\ Types /\ op[o] \in Handler
      /\ row # None => row \in Row
      /\ realm # NoRealm => row # None /\ realm \in Realm
      /\ InSaga(o) => row # None
  BY DEF IInv, Types, RealmIsRegistered
<1>2. /\ Idle \in Handler /\ Idle.pc = "idle"
      /\ [pc |-> "insert"] \in Handler /\ [pc |-> "undo"] \in Handler
      /\ \A n \in Step : [pc |-> "saga", step |-> n] \in Handler
      /\ \A b \in BOOLEAN : Ended(b) \in Handler /\ Ended(b).pc = "reread"
  BY DEF Handler, Idle, Ended
<1>3. CASE CheckRealm(o)
  <2>1. PICK out \in Outcome :
          /\ Call(TRUE, realm, out)
          /\ Goto(o, IF out = "ok" /\ realm = NoRealm THEN [pc |-> "insert"] ELSE Idle)
    BY <1>3 DEF CheckRealm
  <2>2. realm' = realm /\ faults' \in 0..MaxFaults
    BY <1>1, <2>1, CallTypes DEF Types
  <2>3. UNCHANGED <<row, reqs>>
    BY <1>3 DEF CheckRealm
  <2>4. PICK h \in {[pc |-> "insert"], Idle} : Goto(o, h)
    BY <2>1
  <2>5. h \in Handler /\ h.pc \notin SagaPc
    BY <1>2, <2>4 DEF SagaPc
  <2> QED BY <1>1, <2>2, <2>3, <2>4, <2>5, Move DEF Types
<1>4. CASE CreateTenant(o)
  <2>1. UNCHANGED <<realm, reqs>>
    BY <1>4 DEF CreateTenant
  <2>2. CASE row = None
    <3>1. PICK out \in Outcome :
            /\ Save(Made, out)
            /\ Goto(o, IF out = "ok" THEN [pc |-> "saga", step |-> 1] ELSE Idle)
      BY <1>4, <2>2 DEF CreateTenant
    <3>2. Made \in Row
      BY DEF Row, Status, Made
    <3>3. row' \in Row \union {None} /\ faults' \in 0..MaxFaults
      BY <1>1, <3>1, <3>2, SaveTypes
    <3>4. out = "ok" => row' # None
      BY <3>1, <3>2, TenantsAssumption DEF Save
    <3>5. PICK h : /\ h = IF out = "ok" THEN [pc |-> "saga", step |-> 1] ELSE Idle
                   /\ Goto(o, h)
      BY <3>1
    <3>6. h \in Handler /\ (h.pc \in SagaPc => out = "ok")
      BY <1>2, <3>5 DEF Step, SagaPc
    <3> QED BY <1>1, <2>1, <2>2, <3>3, <3>4, <3>5, <3>6, Move DEF Types
  <2>3. CASE row # None
    <3>1. UNCHANGED <<row, faults>> /\ Goto(o, Idle)
      BY <1>4, <2>3 DEF CreateTenant
    <3> QED BY <1>1, <1>2, <2>1, <2>3, <3>1, Move DEF Types, SagaPc
  <2> QED BY <2>2, <2>3
<1>5. CASE CreateRealm(o)
  <2> DEFINE new == [enabled |-> TRUE, steps |-> {1}]
  <2>1. PICK out \in Outcome :
          /\ Call(realm = NoRealm, new, out)
          /\ Goto(o, IF realm = NoRealm /\ out = "ok"
                     THEN [pc |-> "saga", step |-> 2] ELSE Ended(FALSE))
    BY <1>5 DEF CreateRealm
  <2>2. new \in Realm
    BY DEF Realm, Step
  <2>3. realm' \in Realm \union {NoRealm} /\ faults' \in 0..MaxFaults
    BY <1>1, <2>1, <2>2, CallTypes
  <2>4. UNCHANGED <<row, reqs>> /\ InSaga(o)
    BY <1>5 DEF CreateRealm, InSaga
  <2>5. PICK h \in {[pc |-> "saga", step |-> 2], Ended(FALSE)} : Goto(o, h)
    BY <2>1
  <2>6. h \in Handler
    <3>1. [pc |-> "saga", step |-> 2] \in Handler
      BY DEF Handler, Step
    <3> QED BY <1>2, <2>5, <3>1
  <2> QED BY <1>1, <2>3, <2>4, <2>5, <2>6, Move DEF Types
<1>6. CASE SagaStep(o)
  <2> DEFINE n == op[o].step
             able == realm # NoRealm
             new == [realm EXCEPT !.steps = @ \union {n}]
  <2>1. op[o].pc = "saga" /\ n > 1 /\ UNCHANGED <<row, reqs>>
    BY <1>6 DEF SagaStep
  <2>2. PICK out \in Outcome :
          /\ Call(able, new, out)
          /\ Goto(o, IF ~able \/ out # "ok" THEN [pc |-> "undo"]
                     ELSE IF n = 5 THEN Ended(TRUE)
                     ELSE [pc |-> "saga", step |-> n + 1])
    BY <1>6 DEF SagaStep
  <2>3. n \in Step
    BY <1>1, <2>1, HandlerPc
  <2>4. able => new \in Realm
    BY <1>1, <2>3 DEF Realm
  <2>5. realm' \in Realm \union {NoRealm} /\ faults' \in 0..MaxFaults
    <3> HIDE DEF able, new
    <3> QED BY <1>1, <2>2, <2>4, CallTypes
  <2>6. PICK h : Goto(o, h) /\ h = (IF ~able \/ out # "ok" THEN [pc |-> "undo"]
                     ELSE IF n = 5 THEN Ended(TRUE)
                     ELSE [pc |-> "saga", step |-> n + 1])
    BY <2>2
  <2>7. h \in Handler
    <3>1. n # 5 => n + 1 \in Step
      BY <2>3 DEF Step
    <3> HIDE DEF n, able
    <3> QED BY <1>2, <2>6, <3>1
  <2>8. InSaga(o)
    BY <2>1 DEF InSaga
  <2> QED BY <1>1, <2>1, <2>5, <2>6, <2>7, <2>8, Move DEF Types
<1>7. CASE Undo(o)
  <2>1. PICK out \in Outcome : Call(TRUE, NoRealm, out)
    BY <1>7 DEF Undo
  <2>2. realm' \in Realm \union {NoRealm} /\ faults' \in 0..MaxFaults
    BY <1>1, <2>1, CallTypes
  <2>3. UNCHANGED <<row, reqs>> /\ InSaga(o) /\ Goto(o, Ended(FALSE))
    BY <1>7 DEF Undo, InSaga
  <2> QED BY <1>1, <1>2, <2>2, <2>3, Move DEF Types
<1>8. CASE Reread(o)
  <2>1. PICK out \in Outcome :
          /\ Goto(o, [pc |-> "conclude", ok |-> op[o].ok,
                      copy |-> IF out = "ok" THEN row ELSE None])
          /\ Spend(out)
    BY <1>8 DEF Reread
  <2>2. UNCHANGED <<row, realm, reqs>> /\ InSaga(o) /\ op[o].ok \in BOOLEAN
    BY <1>1, <1>8, HandlerPc DEF Reread, InSaga
  <2>3. PICK copy \in Row \union {None} : copy = IF out = "ok" THEN row ELSE None
    BY <1>1
  <2>4. PICK h : h = [pc |-> "conclude", ok |-> op[o].ok, copy |-> copy] /\ Goto(o, h)
    BY <2>1, <2>3
  <2>5. h \in Handler
    BY <2>2, <2>4 DEF Handler
  <2>6. faults' \in 0..MaxFaults
    BY <1>1, <2>1, SpendTypes
  <2> QED BY <1>1, <2>2, <2>4, <2>5, <2>6, Move DEF Types
<1>9. CASE Conclude(o)
  <2>1. UNCHANGED <<realm, reqs>> /\ Goto(o, Idle) /\ op[o].pc = "conclude"
    BY <1>9 DEF Conclude
  <2>2. CASE op[o].copy # None
    <3>1. op[o].copy \in Row
      BY <1>1, <2>1, <2>2, HandlerPc DEF CopyPc
    <3>2. Concluded(o) \in Row
      BY <3>1, RowsMade DEF Concluded, Status
    <3>3. \E out \in Outcome : Save(Concluded(o), out)
      BY <1>9, <2>2 DEF Conclude, LastSave
    <3>4. row' \in Row \union {None} /\ (row # None => row' # None)
          /\ faults' \in 0..MaxFaults
      BY <1>1, <3>2, <3>3, SaveTypes
    <3> QED BY <1>1, <1>2, <2>1, <3>4, Move DEF Types, SagaPc
  <2>3. CASE op[o].copy = None
    <3>1. UNCHANGED <<row, faults>>
      BY <1>9, <2>3 DEF Conclude
    <3> QED BY <1>1, <1>2, <2>1, <3>1, Move DEF Types, SagaPc
  <2> QED BY <2>2, <2>3
<1> QED BY <1>3, <1>4, <1>5, <1>6, <1>7, <1>8, <1>9

(* The handlers of Suspend, Resume and Delete, and a handler that stops. *)
LEMMA LifecycleIInv ==
    ASSUME IInv, NEW o \in Op,
           \/ SetRealmEnabled(o) \/ SaveRow(o) \/ MarkDeleting(o)
           \/ DeleteRealm(o) \/ Abandon(o)
    PROVE  IInv'
<1>1. /\ Types /\ op[o] \in Handler
      /\ realm # NoRealm => row # None /\ realm \in Realm
      /\ Idle \in Handler /\ Idle.pc = "idle"
  BY DEF IInv, Types, RealmIsRegistered, Handler, Idle
<1>2. /\ op[o].pc \in {"enable", "save", "mark", "remove"} => op[o].copy \in Row
      /\ \A c \in Row : [pc |-> "save", copy |-> c] \in Handler
  BY <1>1, HandlerPc DEF Handler
<1>3. CASE SetRealmEnabled(o)
  <2> DEFINE on == op[o].on
             able == realm # NoRealm
             new == [realm EXCEPT !.enabled = on]
  <2>1. op[o].pc = "enable" /\ UNCHANGED <<row, reqs>>
    BY <1>3 DEF SetRealmEnabled
  <2>2. PICK out \in Outcome :
          /\ Call(able, new, out)
          /\ Goto(o, IF able /\ out = "ok" THEN [pc |-> "save", copy |-> Switched(o)]
                     ELSE Idle)
    BY <1>3 DEF SetRealmEnabled
  <2>3. on \in BOOLEAN /\ op[o].copy \in Row
    BY <1>1, <1>2, <2>1, HandlerPc
  <2>4. (able => new \in Realm) /\ Switched(o) \in Row
    BY <1>1, <2>3, RowsMade DEF Realm, Status, Switched
  <2> HIDE DEF able, new
  <2>5. /\ realm' \in Realm \union {NoRealm} /\ faults' \in 0..MaxFaults
        /\ realm' = realm \/ able
    <3>1. able => new \in Realm \union {NoRealm}
      BY <2>4
    <3> QED BY <1>1, <2>2, <3>1, CallTypes
  <2>6. PICK h \in {[pc |-> "save", copy |-> Switched(o)], Idle} : Goto(o, h)
    BY <2>2
  <2>7. h \in Handler /\ h.pc \in {"save", "idle"}
    BY <1>1, <1>2, <2>4, <2>6
  <2> QED BY <1>1, <2>1, <2>5, <2>6, <2>7, Move DEF Types, SagaPc, able
<1>4. CASE SaveRow(o)
  <2>1. /\ op[o].pc = "save" /\ Goto(o, Idle) /\ UNCHANGED <<realm, reqs>>
        /\ \E out \in Outcome : Save(op[o].copy, out)
    BY <1>4 DEF SaveRow, LastSave
  <2>2. row' \in Row \union {None} /\ (row # None => row' # None) /\ faults' \in 0..MaxFaults
    BY <1>1, <1>2, <2>1, SaveTypes
  <2> QED BY <1>1, <2>1, <2>2, Move DEF Types, SagaPc
<1>5. CASE MarkDeleting(o)
  <2>1. /\ op[o].pc = "mark" /\ UNCHANGED <<realm, reqs>>
        /\ \E out \in Outcome : Save(op[o].copy, out)
    BY <1>5 DEF MarkDeleting
  <2>2. row' \in Row \union {None} /\ (row # None => row' # None) /\ faults' \in 0..MaxFaults
    BY <1>1, <1>2, <2>1, SaveTypes
  <2>3. PICK h : h = [op[o] EXCEPT !.pc = "remove"] /\ Goto(o, h)
    BY <1>5 DEF MarkDeleting
  <2>4. h \in Handler /\ h.pc = "remove"
    BY <1>1, <2>1, <2>3 DEF Handler
  <2> QED BY <1>1, <2>1, <2>2, <2>3, <2>4, Move DEF Types, SagaPc
<1>6. CASE DeleteRealm(o)
  <2>1. op[o].pc = "remove" /\ UNCHANGED <<row, reqs>>
    BY <1>6 DEF DeleteRealm
  <2>2. PICK failed : failed = [op[o].copy EXCEPT !.status = "failed"]
    OBVIOUS
  <2>3. PICK out \in Outcome :
          /\ Call(TRUE, NoRealm, out)
          /\ Goto(o, [pc |-> "save", copy |-> IF out = "ok" THEN Deleted(o) ELSE failed])
    BY <1>6, <2>2 DEF DeleteRealm
  <2>4. Deleted(o) \in Row /\ failed \in Row
    <3>1. op[o].now \in Nat /\ op[o].copy \in Row
      BY <1>1, <1>2, <2>1, HandlerPc
    <3> QED BY <2>2, <3>1, RowsMade DEF Row, Status, Deleted
  <2>5. realm' \in {realm, NoRealm} /\ faults' \in 0..MaxFaults
    BY <1>1, <2>3, CallTypes
  <2>6. PICK h \in {[pc |-> "save", copy |-> c] : c \in Row} : Goto(o, h)
    BY <2>3, <2>4
  <2>7. h \in Handler /\ h.pc = "save"
    BY <1>2, <2>6
  <2> QED BY <1>1, <2>1, <2>5, <2>6, <2>7, Move DEF Types, SagaPc
<1>7. CASE Abandon(o)
  <2>1. faults' \in 0..MaxFaults
    BY <1>1, <1>7, TenantsAssumption DEF Abandon, Types
  <2> QED BY <1>1, <1>7, <2>1, Move DEF Abandon, Types, SagaPc
<1> QED BY <1>3, <1>4, <1>5, <1>6, <1>7

-----------------------------------------------------------------------------
(* The first layer holds throughout (service.go:95-304). *)
THEOREM Invariance == Spec => []IInv
<1>1. IInv /\ [Next]_vars => IInv'
  <2> SUFFICES ASSUME IInv, [Next]_vars PROVE IInv'
    OBVIOUS
  <2>1. ASSUME NEW o \in Op, Begin(o) PROVE IInv'
    BY <2>1, BeginIInv
  <2>2. ASSUME NEW o \in Op, Continue(o) PROVE IInv'
    BY <2>2, ProvisionIInv, LifecycleIInv DEF Continue
  <2>3. ASSUME NEW o \in Op, Abandon(o) PROVE IInv'
    BY <2>3, LifecycleIInv
  <2>4. CASE UNCHANGED vars
    BY <2>4 DEF vars, IInv, Types, OneSaga, RealmIsRegistered, InSaga
  <2> QED BY <2>1, <2>2, <2>3, <2>4 DEF Next
<1> QED BY InitIInv, <1>1, PTL DEF Spec

(* The ghost only ever remembers the four things it names, and an overlap for
   as long as it lasts. *)
Causes == {"overlap", "lost", "store", "abandoned"}
GhostsOK ==
    /\ doubt \subseteq Causes
    /\ alone \in BOOLEAN
    /\ ~alone => "overlap" \in doubt

LEMMA GhostsStep == GhostsOK /\ [Next]_vars => GhostsOK'
<1> SUFFICES ASSUME GhostsOK, [Next]_vars PROVE GhostsOK'
  OBVIOUS
<1> USE DEF GhostsOK, Causes
<1>1. ASSUME NEW o \in Op, Request(o) PROVE GhostsOK'
  BY <1>1 DEF Request, AtRest
<1>2. ASSUME NEW o \in Op, Begin(o) PROVE GhostsOK'
  BY <1>1, <1>2 DEF Begin, Provision, Suspend, Resume, Delete
<1>3. ASSUME NEW copy, NEW out, LastSave(copy, out), alone' = alone PROVE GhostsOK'
  BY <1>3 DEF LastSave
<1>4. ASSUME NEW o \in Op, Continue(o) PROVE GhostsOK'
  <2>1. CASE Conclude(o) \/ SaveRow(o)
    BY <1>3, <2>1 DEF Conclude, SaveRow
  <2>2. CASE CreateTenant(o) \/ SetRealmEnabled(o)
    BY <2>2 DEF CreateTenant, SetRealmEnabled
  <2>3. CASE \/ CheckRealm(o) \/ CreateRealm(o) \/ SagaStep(o) \/ Undo(o) \/ Reread(o)
             \/ MarkDeleting(o) \/ DeleteRealm(o)
    BY <2>3 DEF CheckRealm, CreateRealm, SagaStep, Undo, Reread, MarkDeleting, DeleteRealm
  <2> QED BY <1>4, <2>1, <2>2, <2>3 DEF Continue
<1>5. ASSUME NEW o \in Op, Abandon(o) PROVE GhostsOK'
  BY <1>5 DEF Abandon
<1>6. CASE UNCHANGED vars
  BY <1>6 DEF vars
<1> QED BY <1>2, <1>4, <1>5, <1>6 DEF Next

(* TypeOK for any number of operators and faults (service.go:95-304). *)
THEOREM TypeCorrect == Spec => []TypeOK
<1>1. IInv /\ GhostsOK => TypeOK
  BY HandlerPc DEF IInv, Types, TypeOK, HasCopy, CopyPc, Causes, GhostsOK
<1>2. Init => GhostsOK
  BY DEF Init, GhostsOK
<1> QED BY Invariance, GhostsStep, <1>1, <1>2, PTL DEF Spec

(* One saga at most per slug, whatever fails or stops, for any number of
   concurrent operators (service.go:102-125). *)
THEOREM OneSagaAlways == Spec => []OneSaga
<1>1. IInv => OneSaga
  BY DEF IInv
<1> QED BY Invariance, <1>1, PTL

(* No realm without a row in the registry, whatever fails or stops
   (service.go:123-141). *)
THEOREM RealmIsRegisteredAlways == Spec => []RealmIsRegistered
<1>1. IInv => RealmIsRegistered
  BY DEF IInv
<1> QED BY Invariance, <1>1, PTL

-----------------------------------------------------------------------------
(* The second layer: what holds however the requests overlap. *)

(* The saga's realm, unless a delete took it away. *)
Grown(h) ==
    /\ h.pc = "saga" =>
          realm = NoRealm \/ (h.step > 1 /\ realm.steps = 1..(h.step - 1))
    /\ h.pc \in {"reread", "conclude"} /\ h.ok => realm = NoRealm \/ realm.steps = Step

SaysReady(h) == h.pc \in CopyPc /\ h.copy # None /\ h.copy.ready
SomeReady == (row # None /\ row.ready) \/ \E o \in Op : SaysReady(op[o])

(* Deadlines lie in the past of the requests' clock. *)
Timely(h) ==
    /\ h.pc \in CopyPc /\ h.copy # None => h.copy.until <= reqs
    /\ h.pc \in {"mark", "remove"} => h.now <= reqs

Ripe ==
    /\ \A o \in Op : Grown(op[o]) /\ Timely(op[o])
    /\ \A o \in Op : InSaga(o) => ~SomeReady
    /\ SomeReady => realm = NoRealm \/ realm.steps = Step
    /\ row = None => \A o \in Op : op[o].pc \notin CopyPc
    /\ row # None => row.until <= reqs

(* Every step is one handler's. *)
Acts(o) == Begin(o) \/ Continue(o) \/ Abandon(o)

(* It touches no other handler, and one that continues was at work. *)
LEMMA Owner ==
    ASSUME IInv, NEW o \in Op, Acts(o)
    PROVE  /\ \E h : Goto(o, h)
           /\ \A p \in Op : p # o => op'[p] = op[p]
           /\ ~Begin(o) => op[o] # Idle
           /\ op \in [Op -> Handler]
<1>1. \E h : Goto(o, h)
  <2>1. Begin(o) => \E h : Goto(o, h)
    BY DEF Begin, Provision, Suspend, Resume, Delete
  <2>2. CheckRealm(o) \/ CreateTenant(o) \/ CreateRealm(o) => \E h : Goto(o, h)
    BY DEF CheckRealm, CreateTenant, CreateRealm
  <2>3. SagaStep(o) \/ Undo(o) \/ Reread(o) \/ Conclude(o) => \E h : Goto(o, h)
    BY DEF SagaStep, Undo, Reread, Conclude
  <2>4. SetRealmEnabled(o) \/ SaveRow(o) \/ MarkDeleting(o) => \E h : Goto(o, h)
    BY DEF SetRealmEnabled, SaveRow, MarkDeleting
  <2>5. DeleteRealm(o) \/ Abandon(o) => \E h : Goto(o, h)
    BY DEF DeleteRealm, Abandon
  <2> QED BY <2>1, <2>2, <2>3, <2>4, <2>5 DEF Acts, Continue
<1>2. op \in [Op -> Handler]
  BY DEF IInv, Types
<1>3. ~Begin(o) => op[o] # Idle
  <2>1. Continue(o) => op[o].pc # "idle"
    BY DEF Continue, CheckRealm, CreateTenant, CreateRealm, SagaStep, Undo, Reread,
           Conclude, SetRealmEnabled, SaveRow, MarkDeleting, DeleteRealm
  <2>2. Idle.pc = "idle"
    BY DEF Idle
  <2> QED BY <2>1, <2>2 DEF Acts, Abandon
<1> QED BY <1>1, <1>2, <1>3 DEF Goto

(* A handler's step keeps the layer if only the saga makes the realm grow, and
   a row or a copy that says ready was made from one that did, or by the saga
   at its end. *)
LEMMA RipeMove ==
    ASSUME IInv, Ripe, NEW o \in Op, NEW h, Goto(o, h),
           Grown(h)', Timely(h)',
           reqs \in Nat, reqs' \in Nat, reqs <= reqs',
           h.pc \in SagaPc => InSaga(o) \/ row = None,
           row' = None => row = None /\ h.pc \notin CopyPc,
           row' # None => row'.until <= reqs',
           realm' # NoRealm => InSaga(o) \/ (realm # NoRealm /\ realm'.steps = realm.steps),
           (row' # None /\ row'.ready) \/ SaysReady(h)
              => \/ SomeReady
                 \/ /\ InSaga(o) /\ h.pc = "idle"
                    /\ realm' = NoRealm \/ realm'.steps = Step
    PROVE  Ripe'
<1>1. op'[o] = h /\ \A p \in Op : p # o => op'[p] = op[p]
  BY DEF IInv, Types, Goto
<1>2. ASSUME NEW p \in Op PROVE Grown(op[p])' /\ Timely(op[p])'
  <2>1. CASE p = o
    BY <1>1, <2>1 DEF Grown, Timely
  <2>2. CASE p # o
    <3>1. op'[p] = op[p] /\ op[p] \in Handler /\ (op[p].pc \in CopyPc /\ op[p].copy # None
             => op[p].copy \in Row)
      BY <1>1, <2>2, HandlerPc DEF IInv, Types
    <3>2. Timely(op[p]) /\ Grown(op[p])
      BY DEF Ripe
    <3>3. Timely(op[p])'
      <4>1. op[p].pc \in CopyPc /\ op[p].copy # None => op[p].copy.until \in Nat
        BY <3>1, RowsMade
      <4>2. op[p].pc \in {"mark", "remove"} => op[p].now \in Nat
        BY <3>1, HandlerPc
      <4> QED BY <3>1, <3>2, <4>1, <4>2 DEF Timely
    <3>4. Grown(op[p])'
      <4>1. op[p].pc \in {"saga", "reread", "conclude"} => InSaga(p) /\ ~InSaga(o)
        BY <2>2 DEF InSaga, IInv, OneSaga
      <4> QED BY <3>1, <3>2, <4>1 DEF Grown
    <3> QED BY <3>3, <3>4
  <2> QED BY <2>1, <2>2
<1>3. SomeReady' => \/ SomeReady
                    \/ /\ InSaga(o) /\ h.pc = "idle"
                       /\ realm' = NoRealm \/ realm'.steps = Step
  <2>1. ASSUME NEW p \in Op, SaysReady(op'[p]), p # o PROVE SomeReady
    BY <1>1, <2>1 DEF SomeReady
  <2>2. SomeReady' => \/ (row' # None /\ row'.ready) \/ SaysReady(h)
                      \/ \E p \in Op : p # o /\ SaysReady(op'[p])
    BY <1>1 DEF SomeReady, SaysReady
  <2> QED BY <2>1, <2>2
<1>4. ASSUME NEW p \in Op, InSaga(p)' PROVE ~SomeReady'
  <2>1. InSaga(p) \/ (p = o /\ row = None)
    BY <1>1, <1>4 DEF InSaga, SagaPc
  <2>2. row = None => ~SomeReady
    BY DEF Ripe, SomeReady, SaysReady
  <2>3. ~SomeReady
    BY <2>1, <2>2 DEF Ripe
  <2>4. InSaga(o) /\ h.pc = "idle" => FALSE
    <3>1. InSaga(o) /\ h.pc = "idle" => p # o
      BY <1>1, <1>4 DEF InSaga
    <3>2. InSaga(o) /\ p # o => FALSE
      BY <1>1, <1>4 DEF InSaga, IInv, OneSaga
    <3> QED BY <3>1, <3>2
  <2> QED BY <1>3, <2>3, <2>4
<1>5. SomeReady' => realm' = NoRealm \/ realm'.steps = Step
  BY <1>3 DEF Ripe
<1>6. row' = None => \A p \in Op : op'[p].pc \notin CopyPc
  BY <1>1 DEF Ripe
<1> HIDE DEF SomeReady
<1> QED BY <1>2, <1>4, <1>5, <1>6 DEF Ripe

(* What a handler that does not copy the row leaves to be shown. *)
LEMMA RipeGo ==
    ASSUME IInv, Ripe, NEW o \in Op, NEW h, Goto(o, h),
           Grown(h)', h.pc \notin CopyPc, UNCHANGED <<row, reqs>>,
           h.pc \in SagaPc => InSaga(o),
           realm' # NoRealm => InSaga(o) \/ (realm # NoRealm /\ realm'.steps = realm.steps)
    PROVE  Ripe'
<1>1. Timely(h)'
  BY DEF Timely, CopyPc
<1>2. reqs \in Nat /\ reqs <= reqs'
  BY TenantsAssumption DEF IInv, Types
<1>3. row' # None => row'.until <= reqs'
  BY DEF Ripe
<1>4. (row' # None /\ row'.ready) \/ SaysReady(h) => SomeReady
  BY DEF SomeReady, SaysReady
<1> QED BY <1>1, <1>2, <1>3, <1>4, RipeMove

(* A handler that does, and is not in the saga. *)
LEMMA RipeCopy ==
    ASSUME IInv, Ripe, NEW o \in Op, NEW h, Goto(o, h),
           h.pc \in {"idle", "exists", "enable", "save", "mark", "remove"},
           Timely(h)', reqs \in Nat, reqs' \in Nat, reqs <= reqs',
           row' = None => row = None /\ h.pc \notin CopyPc,
           row' # None => row'.until <= reqs',
           realm' # NoRealm => realm # NoRealm /\ realm'.steps = realm.steps,
           (row' # None /\ row'.ready) \/ SaysReady(h) => SomeReady
    PROVE  Ripe'
<1>1. Grown(h)'
  BY DEF Grown
<1>2. h.pc \notin SagaPc
  BY DEF SagaPc
<1> QED BY <1>1, <1>2, RipeMove

LEMMA BeginRipe == ASSUME IInv, Ripe, NEW o \in Op, Begin(o) PROVE Ripe'
<1>1. /\ reqs \in Nat /\ reqs' \in Nat /\ reqs <= reqs' /\ reqs' = reqs + 1
      /\ row' = row /\ realm' = realm
  BY TenantsAssumption
     DEF Begin, Provision, Suspend, Resume, Delete, Request, IInv, Types
<1>2. row # None => row \in Row /\ row.until \in Nat /\ row.until <= reqs
  BY RowsMade DEF IInv, Types, Ripe
<1>3. CASE Provision(o)
  <2>1. PICK h : h = [pc |-> "exists"] /\ Goto(o, h)
    BY <1>3 DEF Provision
  <2>2. h.pc = "exists" /\ Timely(h)' /\ ~SaysReady(h)
    BY <2>1 DEF Timely, CopyPc, SaysReady
  <2> QED BY <1>1, <1>2, <2>1, <2>2, RipeCopy DEF SomeReady, CopyPc
<1>4. CASE Suspend(o) \/ Resume(o)
  <2>1. PICK b : Goto(o, [pc |-> "enable", on |-> b, copy |-> row])
    BY <1>4 DEF Suspend, Resume
  <2>2. PICK h : h = [pc |-> "enable", on |-> b, copy |-> row] /\ Goto(o, h)
    BY <2>1
  <2>3. row # None /\ h.pc = "enable" /\ h.copy = row
    BY <1>4, <2>2 DEF Suspend, Resume
  <2>4. Timely(h)'
    BY <1>1, <1>2, <2>3 DEF Timely
  <2>5. (row' # None /\ row'.ready) \/ SaysReady(h) => SomeReady
    BY <1>1, <2>3 DEF SomeReady, SaysReady
  <2> QED BY <1>1, <1>2, <2>2, <2>3, <2>4, <2>5, RipeCopy
<1>5. CASE Delete(o)
  <2>1. PICK copy : copy = [row EXCEPT !.status = "deleting"]
    OBVIOUS
  <2>2. PICK h : h = [pc |-> "mark", now |-> reqs', copy |-> copy] /\ Goto(o, h)
    BY <1>5, <2>1 DEF Delete
  <2>3. row # None /\ h.pc = "mark" /\ h.copy = copy /\ h.now = reqs'
    BY <1>5, <2>2 DEF Delete
  <2>4. copy.ready = row.ready /\ copy.until = row.until
    BY <1>2, <2>1, <2>3 DEF Row
  <2>5. Timely(h)'
    BY <1>1, <1>2, <2>3, <2>4 DEF Timely
  <2>6. (row' # None /\ row'.ready) \/ SaysReady(h) => SomeReady
    BY <1>1, <2>3, <2>4 DEF SomeReady, SaysReady
  <2> QED BY <1>1, <1>2, <2>2, <2>3, <2>5, <2>6, RipeCopy
<1> QED BY <1>3, <1>4, <1>5 DEF Begin

(* The saga: it alone makes the realm grow, and only its end says ready. *)
LEMMA SagaRipe ==
    ASSUME IInv, Ripe, NEW o \in Op,
           \/ CheckRealm(o) \/ CreateTenant(o) \/ CreateRealm(o) \/ SagaStep(o)
           \/ Undo(o) \/ Reread(o) \/ Conclude(o)
    PROVE  Ripe'
<1>1. /\ op[o] \in Handler /\ reqs \in Nat
      /\ row # None => row \in Row
      /\ realm # NoRealm => row # None /\ realm \in Realm
      /\ InSaga(o) => row # None
      /\ Grown(op[o]) /\ Timely(op[o])
      /\ row # None => row.until <= reqs
  BY TenantsAssumption DEF IInv, Types, RealmIsRegistered, Ripe
<1>2. Idle.pc = "idle" /\ \A b : Ended(b).pc = "reread" /\ Ended(b).ok = b
  BY DEF Idle, Ended
<1>3. CASE CheckRealm(o)
  <2>1. PICK h \in {[pc |-> "insert"], Idle} : Goto(o, h)
    BY <1>3 DEF CheckRealm
  <2>2. UNCHANGED <<row, reqs, realm>>
    BY <1>3 DEF CheckRealm, Call
  <2>3. h.pc \in {"insert", "idle"}
    BY <1>2, <2>1
  <2> QED BY <2>1, <2>2, <2>3, RipeGo DEF Grown, CopyPc, SagaPc
<1>4. CASE CreateTenant(o)
  <2>1. UNCHANGED <<realm, reqs>>
    BY <1>4 DEF CreateTenant
  <2>2. CASE row = None
    <3>1. PICK out \in Outcome :
            /\ Save(Made, out)
            /\ Goto(o, IF out = "ok" THEN [pc |-> "saga", step |-> 1] ELSE Idle)
      BY <1>4, <2>2 DEF CreateTenant
    <3>2. PICK h : /\ h = IF out = "ok" THEN [pc |-> "saga", step |-> 1] ELSE Idle
                   /\ Goto(o, h)
      BY <3>1
    <3>3. h.pc \in {"saga", "idle"}
      BY <1>2, <3>2
    <3>4. row' = None \/ (row'.until = 0 /\ ~row'.ready)
      BY <2>2, <3>1 DEF Save, Made
    <3>5. Grown(h)' /\ Timely(h)' /\ ~SaysReady(h)
      BY <1>1, <2>1, <2>2, <3>3 DEF Grown, Timely, CopyPc, SaysReady
    <3> QED BY <1>1, <2>1, <2>2, <3>2, <3>3, <3>4, <3>5, RipeMove DEF CopyPc, SomeReady
  <2>3. CASE row # None
    <3>1. row' = row /\ Goto(o, Idle)
      BY <1>4, <2>3 DEF CreateTenant
    <3> QED BY <1>2, <2>1, <3>1, RipeGo DEF Grown, CopyPc, SagaPc
  <2> QED BY <2>2, <2>3
<1>5. CASE CreateRealm(o)
  <2>1. PICK out \in Outcome :
          /\ Call(realm = NoRealm, [enabled |-> TRUE, steps |-> {1}], out)
          /\ Goto(o, IF realm = NoRealm /\ out = "ok"
                     THEN [pc |-> "saga", step |-> 2] ELSE Ended(FALSE))
    BY <1>5 DEF CreateRealm
  <2>2. PICK h : /\ h = IF realm = NoRealm /\ out = "ok"
                        THEN [pc |-> "saga", step |-> 2] ELSE Ended(FALSE)
                 /\ Goto(o, h)
    BY <2>1
  <2>3. UNCHANGED <<row, reqs>> /\ InSaga(o)
    BY <1>5 DEF CreateRealm, InSaga
  <2>4. CASE realm = NoRealm /\ out = "ok"
    <3>1. h.pc = "saga" /\ h.step > 1 /\ realm'.steps = 1..(h.step - 1)
      BY <2>1, <2>2, <2>4 DEF Call
    <3>2. Grown(h)'
      BY <3>1 DEF Grown
    <3> QED BY <2>2, <2>3, <3>1, <3>2, RipeGo DEF CopyPc
  <2>5. CASE ~(realm = NoRealm /\ out = "ok")
    <3>1. h.pc = "reread" /\ ~h.ok
      BY <1>2, <2>2, <2>5
    <3> QED BY <2>2, <2>3, <3>1, RipeGo DEF Grown, CopyPc
  <2> QED BY <2>4, <2>5
<1>6. CASE SagaStep(o)
  <2>1. PICK n : n = op[o].step
    OBVIOUS
  <2>2. /\ n \in Step /\ n > 1 /\ op[o].pc = "saga" /\ InSaga(o) /\ UNCHANGED <<row, reqs>>
    BY <1>1, <1>6, <2>1, HandlerPc DEF SagaStep, InSaga
  <2>3. PICK out \in Outcome :
          /\ Call(realm # NoRealm, [realm EXCEPT !.steps = @ \union {n}], out)
          /\ Goto(o, IF ~(realm # NoRealm) \/ out # "ok" THEN [pc |-> "undo"]
                     ELSE IF n = 5 THEN Ended(TRUE)
                     ELSE [pc |-> "saga", step |-> n + 1])
    BY <1>6, <2>1 DEF SagaStep
  <2>4. PICK h : /\ h = IF realm = NoRealm \/ out # "ok" THEN [pc |-> "undo"]
                        ELSE IF n = 5 THEN Ended(TRUE)
                        ELSE [pc |-> "saga", step |-> n + 1]
                 /\ Goto(o, h)
    BY <2>3
  <2>5. CASE realm = NoRealm \/ out # "ok"
    <3>1. h.pc = "undo"
      BY <2>4, <2>5
    <3> QED BY <2>2, <2>4, <3>1, RipeGo DEF Grown, CopyPc
  <2>6. CASE realm # NoRealm /\ out = "ok"
    <3>1. realm \in Realm /\ realm.steps = 1..(n - 1)
      BY <1>1, <2>1, <2>2, <2>6 DEF Grown
    <3>2. realm' = [realm EXCEPT !.steps = @ \union {n}]
      BY <2>3, <2>6 DEF Call
    <3>3. realm'.steps = 1..n
      <4>1. (1..(n - 1)) \union {n} = 1..n
        BY <2>2 DEF Step
      <4> QED BY <3>1, <3>2, <4>1 DEF Realm
    <3>4. CASE n = 5
      <4>1. h.pc = "reread"
        BY <1>2, <2>4, <2>6, <3>4
      <4> QED BY <2>2, <2>4, <3>3, <3>4, <4>1, RipeGo DEF Grown, CopyPc, Step
    <3>5. CASE n # 5
      <4>1. h.pc = "saga" /\ h.step = n + 1 /\ h.step > 1 /\ h.step - 1 = n
        BY <2>2, <2>4, <2>6, <3>5 DEF Step
      <4> QED BY <2>2, <2>4, <3>3, <4>1, RipeGo DEF Grown, CopyPc
    <3> QED BY <3>4, <3>5
  <2> QED BY <2>5, <2>6
<1>7. CASE Undo(o)
  <2>1. UNCHANGED <<row, reqs>> /\ InSaga(o) /\ Goto(o, Ended(FALSE))
    BY <1>7 DEF Undo, InSaga
  <2>2. Ended(FALSE).pc = "reread" /\ ~Ended(FALSE).ok
    BY <1>2
  <2> QED BY <2>1, <2>2, RipeGo DEF Grown, CopyPc
<1>8. CASE Reread(o)
  <2>1. PICK copy \in {row, None} :
          Goto(o, [pc |-> "conclude", ok |-> op[o].ok, copy |-> copy])
    BY <1>8 DEF Reread
  <2>2. PICK h : h = [pc |-> "conclude", ok |-> op[o].ok, copy |-> copy] /\ Goto(o, h)
    BY <2>1
  <2>3. h.pc = "conclude" /\ h.ok = op[o].ok /\ h.copy \in {row, None}
    BY <2>2
  <2>4. UNCHANGED <<row, realm, reqs>> /\ op[o].pc = "reread" /\ InSaga(o)
    BY <1>8 DEF Reread, InSaga
  <2>5. Grown(h)' /\ Timely(h)'
    BY <1>1, <2>3, <2>4 DEF Grown, Timely
  <2>6. (row' # None /\ row'.ready) \/ SaysReady(h) => SomeReady
    BY <1>1, <2>3, <2>4 DEF SomeReady, SaysReady
  <2> QED BY <1>1, <2>2, <2>4, <2>5, <2>6, RipeMove
<1>9. CASE Conclude(o)
  <2>1. /\ op[o].pc = "conclude" /\ UNCHANGED <<realm, reqs>> /\ Goto(o, Idle)
        /\ InSaga(o) /\ row # None
    BY <1>1, <1>9 DEF Conclude, InSaga
  <2>2. CASE op[o].copy = None
    <3>1. row' = row
      BY <1>9, <2>2 DEF Conclude
    <3> QED BY <1>2, <2>1, <3>1, RipeGo DEF Grown, CopyPc
  <2>3. CASE op[o].copy # None
    <3>1. op[o].copy \in Row /\ op[o].copy.until <= reqs
      BY <1>1, <2>1, <2>3, HandlerPc DEF CopyPc, Timely
    <3>2. PICK out \in Outcome : Save(Concluded(o), out)
      BY <1>9, <2>3 DEF Conclude, LastSave
    <3>3. row' = row \/ row' = Concluded(o)
      BY <3>2 DEF Save
    <3>4. /\ Concluded(o) \in Row
          /\ Concluded(o).until = op[o].copy.until
          /\ ~op[o].ok => Concluded(o).ready = op[o].copy.ready
      BY <3>1, RowsMade DEF Concluded, Status
    <3>5. row' # None /\ row'.until <= reqs'
      BY <1>1, <2>1, <3>1, <3>3, <3>4, TenantsAssumption
    <3>6. row'.ready => SomeReady \/ realm' = NoRealm \/ realm'.steps = Step
      <4>1. row' = row /\ row'.ready => SomeReady
        BY <2>1 DEF SomeReady
      <4>2. row' = Concluded(o) /\ ~op[o].ok /\ row'.ready => SomeReady
        BY <2>1, <2>3, <3>4 DEF SomeReady, SaysReady, CopyPc
      <4>3. op[o].ok => realm' = NoRealm \/ realm'.steps = Step
        BY <1>1, <2>1 DEF Grown
      <4> QED BY <3>3, <4>1, <4>2, <4>3
    <3>7. Grown(Idle)' /\ Timely(Idle)' /\ ~SaysReady(Idle) /\ Idle.pc \notin CopyPc
      BY <1>2 DEF Grown, Timely, SaysReady, CopyPc
    <3> QED BY <1>1, <1>2, <2>1, <3>5, <3>6, <3>7, RipeMove
  <2> QED BY <2>2, <2>3
<1> QED BY <1>3, <1>4, <1>5, <1>6, <1>7, <1>8, <1>9

(* The others write what they read, or that the tenant is deleted. *)
LEMMA LifecycleRipe ==
    ASSUME IInv, Ripe, NEW o \in Op,
           \/ SetRealmEnabled(o) \/ SaveRow(o) \/ MarkDeleting(o)
           \/ DeleteRealm(o) \/ Abandon(o)
    PROVE  Ripe'
<1>1. /\ op[o] \in Handler /\ reqs \in Nat /\ reqs' = reqs
      /\ row # None => row \in Row
      /\ realm # NoRealm => realm \in Realm
      /\ Timely(op[o])
      /\ row # None => row.until <= reqs
      /\ op[o].pc \in CopyPc => row # None
  <2>1. reqs' = reqs
    BY DEF SetRealmEnabled, SaveRow, MarkDeleting, DeleteRealm, Abandon
  <2> QED BY <2>1, TenantsAssumption DEF IInv, Types, Ripe
<1>2. op[o].pc \in {"enable", "save", "mark", "remove"} =>
          /\ op[o].copy \in Row /\ op[o].copy # None /\ op[o].copy.until <= reqs
          /\ op[o].copy.ready => SomeReady
  BY <1>1, HandlerPc, RowsMade DEF CopyPc, Timely, SomeReady, SaysReady
<1>3. Idle.pc = "idle" /\ Timely(Idle)' /\ ~SaysReady(Idle)
  BY DEF Idle, Timely, SaysReady, CopyPc
<1>4. row # None /\ row.ready => SomeReady
  BY DEF SomeReady
<1>5. CASE SetRealmEnabled(o)
  <2>1. PICK on : on = op[o].on
    OBVIOUS
  <2>2. op[o].pc = "enable" /\ row' = row /\ row # None
    BY <1>1, <1>5 DEF SetRealmEnabled, CopyPc
  <2>3. PICK out \in Outcome :
          /\ Call(realm # NoRealm, [realm EXCEPT !.enabled = on], out)
          /\ \/ Goto(o, [pc |-> "save", copy |-> Switched(o)])
             \/ Goto(o, Idle)
    BY <1>5, <2>1 DEF SetRealmEnabled
  <2>4. realm' # NoRealm => realm # NoRealm /\ realm'.steps = realm.steps
    BY <1>1, <2>3 DEF Call, Realm
  <2>5. /\ Switched(o).until = op[o].copy.until
        /\ Switched(o).ready = op[o].copy.ready
    BY <1>2, <2>2 DEF Switched, Row
  <2>6. CASE Goto(o, [pc |-> "save", copy |-> Switched(o)])
    <3>1. PICK h : h = [pc |-> "save", copy |-> Switched(o)] /\ Goto(o, h)
      BY <2>6
    <3>2. h.pc = "save" /\ h.copy = Switched(o)
      BY <3>1
    <3>3. Timely(h)' /\ (SaysReady(h) => SomeReady)
      BY <1>1, <1>2, <2>2, <2>5, <3>2 DEF Timely, SaysReady
    <3> QED BY <1>1, <1>4, <2>2, <2>4, <3>1, <3>2, <3>3, RipeCopy
  <2>7. CASE Goto(o, Idle)
    BY <1>1, <1>3, <1>4, <2>2, <2>4, <2>7, RipeCopy DEF CopyPc
  <2> QED BY <2>3, <2>6, <2>7
<1>6. CASE SaveRow(o)
  <2>1. /\ op[o].pc = "save" /\ Goto(o, Idle) /\ realm' = realm
        /\ row' = row \/ row' = op[o].copy
    BY <1>6 DEF SaveRow, LastSave, Save
  <2>2. row' # None /\ row'.until <= reqs' /\ (row'.ready => SomeReady)
    BY <1>1, <1>2, <1>4, <2>1 DEF CopyPc
  <2> QED BY <1>1, <1>3, <2>1, <2>2, RipeCopy
<1>7. CASE MarkDeleting(o)
  <2>1. /\ op[o].pc = "mark" /\ realm' = realm
        /\ row' = row \/ row' = op[o].copy
    BY <1>7 DEF MarkDeleting, Save
  <2>2. row' # None /\ row'.until <= reqs' /\ (row'.ready => SomeReady)
    BY <1>1, <1>2, <1>4, <2>1 DEF CopyPc
  <2>3. PICK h : h = [op[o] EXCEPT !.pc = "remove"] /\ Goto(o, h)
    BY <1>7 DEF MarkDeleting
  <2>4. h.pc = "remove" /\ h.copy = op[o].copy /\ h.now = op[o].now
    BY <1>1, <2>1, <2>3 DEF Handler
  <2>5. Timely(h)' /\ (SaysReady(h) => SomeReady)
    BY <1>1, <1>2, <2>1, <2>4 DEF Timely, SaysReady
  <2>6. /\ reqs' \in Nat /\ reqs <= reqs'
        /\ realm' # NoRealm => realm # NoRealm /\ realm'.steps = realm.steps
        /\ (row' # None /\ row'.ready) \/ SaysReady(h) => SomeReady
    BY <1>1, <2>1, <2>2, <2>5
  <2> HIDE DEF SomeReady
  <2> QED BY <1>1, <2>2, <2>3, <2>4, <2>5, <2>6, RipeCopy
<1>8. CASE DeleteRealm(o)
  <2>1. PICK failed : failed = [op[o].copy EXCEPT !.status = "failed"]
    OBVIOUS
  <2>2. op[o].pc = "remove" /\ row' = row /\ row # None
    BY <1>1, <1>8 DEF DeleteRealm, CopyPc
  <2>3. PICK out \in Outcome :
          /\ Call(TRUE, NoRealm, out)
          /\ Goto(o, [pc |-> "save", copy |-> IF out = "ok" THEN Deleted(o) ELSE failed])
    BY <1>8, <2>1 DEF DeleteRealm
  <2>4. PICK h : /\ h = [pc |-> "save", copy |-> IF out = "ok" THEN Deleted(o) ELSE failed]
                 /\ Goto(o, h)
    BY <2>3
  <2>5. h.pc = "save" /\ h.copy \in {Deleted(o), failed}
    BY <2>4
  <2>6. /\ failed.until = op[o].copy.until /\ failed.ready = op[o].copy.ready
        /\ Deleted(o).until = op[o].now /\ ~Deleted(o).ready
    BY <1>2, <2>1, <2>2, RowsMade DEF Deleted, Status
  <2>7. Timely(h)' /\ (SaysReady(h) => SomeReady)
    BY <1>1, <1>2, <2>2, <2>5, <2>6 DEF Timely, SaysReady
  <2>8. realm' # NoRealm => realm # NoRealm /\ realm'.steps = realm.steps
    BY <2>3 DEF Call
  <2> QED BY <1>1, <1>4, <2>2, <2>4, <2>5, <2>7, <2>8, RipeCopy
<1>9. CASE Abandon(o)
  <2>1. Goto(o, Idle) /\ row' = row /\ realm' = realm
    BY <1>9 DEF Abandon
  <2> QED BY <1>1, <1>3, <1>4, <2>1, RipeCopy DEF CopyPc
<1> QED BY <1>5, <1>6, <1>7, <1>8, <1>9

-----------------------------------------------------------------------------
(* The third layer: what the registry says when no two requests ran at once.
   Then at most one handler is at work, so what it read is what is there, and
   for each of its steps it is known how the row, the realm and its copy of the
   row stand to each other: the truth at rest is what the last step leaves. *)

Sole == alone => \A o, p \in Op : op[o] # Idle /\ op[p] # Idle => o = p

(* A row that is true of the realm. *)
Says(r) ==
    /\ r.status \notin {"provisioning", "deleting"}
    /\ r.status = "active" => realm # NoRealm /\ realm.enabled
    /\ r.status = "suspended" => realm # NoRealm /\ ~realm.enabled
    /\ r.status = "deleted" => realm = NoRealm /\ r.until # 0 /\ ~r.ready
Resting == doubt = {} /\ row # None => Says(row)

(* A handler in the middle of its work, and the deadline it will write. *)
Stage(h) ==
    /\ h.pc \in {"exists", "insert"} => row = None
    /\ h.pc = "saga" /\ h.step > 1 => realm # NoRealm /\ realm.enabled
    /\ h.pc \in {"reread", "conclude"} /\ h.ok => realm # NoRealm /\ realm.enabled
    /\ h.pc = "conclude" => h.copy \in {row, None}
    /\ h.pc = "enable" => row # None /\ h.copy = row /\ Resting
    /\ h.pc = "save" => row # None /\ Says(h.copy) /\ h.copy.until >= row.until
    /\ h.pc \in {"mark", "remove"} =>
          row # None /\ h.copy.until = row.until /\ h.now >= row.until

Honest == alone => /\ AtRest => Resting
                   /\ \A o \in Op : op[o] # Idle => Stage(op[o])

Layered == IInv /\ GhostsOK /\ Ripe /\ Sole /\ Honest

(* The handler that takes a step by itself is the only one. *)
LEMMA Alone ==
    ASSUME IInv, GhostsOK, Sole, NEW o \in Op, Acts(o)
    PROVE  /\ alone' => /\ \A p \in Op : p # o => op'[p] = Idle
                        /\ IF Begin(o) THEN AtRest ELSE alone
           /\ Sole'
<1>1. Begin(o) => alone' = AtRest
  BY DEF Begin, Provision, Suspend, Resume, Delete, Request
<1>2. ~Begin(o) => alone' = alone
  <2>1. Continue(o) => alone' = alone
    BY DEF Continue, CheckRealm, CreateTenant, CreateRealm, SagaStep, Undo, Reread,
           Conclude, SetRealmEnabled, SaveRow, MarkDeleting, DeleteRealm
  <2> QED BY <2>1 DEF Acts, Abandon
<1>3. alone' => \A p \in Op : p # o => op'[p] = Idle
  BY <1>1, <1>2, Owner DEF Sole, AtRest
<1>4. ASSUME alone', NEW p \in Op, NEW q \in Op, op'[p] # Idle, op'[q] # Idle
      PROVE  p = q
  BY <1>3, <1>4
<1>5. Sole'
  BY <1>4 DEF Sole, Idle
<1>6. alone' => IF Begin(o) THEN AtRest ELSE alone
  BY <1>1, <1>2
<1> QED BY <1>3, <1>5, <1>6

(* So it is enough that this handler's step leaves it where it should be. *)
LEMMA Onward ==
    ASSUME IInv, GhostsOK, Sole, NEW o \in Op, Acts(o), NEW h, Goto(o, h),
           alone' => IF h = Idle THEN Resting' ELSE Stage(h)'
    PROVE  Honest'
<1>1. op'[o] = h
  BY Owner DEF Goto
<1>2. ASSUME alone' PROVE \A p \in Op : p # o => op'[p] = Idle
  BY <1>2, Alone
<1>3. ASSUME alone', AtRest' PROVE Resting'
  BY <1>1, <1>3 DEF AtRest, Idle
<1>4. ASSUME alone', NEW p \in Op, op'[p] # Idle PROVE Stage(op[p])'
  BY <1>1, <1>2, <1>4 DEF Stage
<1> QED BY <1>3, <1>4 DEF Honest, Idle

(* A request that starts when all are at rest starts from the truth, or from a
   doubt it has inherited. *)
LEMMA BeginHonest ==
    ASSUME Layered, NEW o \in Op, Begin(o)
    PROVE  Honest'
<1> USE DEF Layered
<1>1. Acts(o) /\ UNCHANGED <<row, realm>> /\ Request(o)
  BY DEF Acts, Begin, Provision, Suspend, Resume, Delete
<1>2. alone' => AtRest /\ doubt' = doubt
  BY <1>1, Alone DEF Request
<1>3. alone' => Resting'
  <2>1. alone' /\ alone => Resting
    BY <1>2 DEF Honest
  <2>2. alone' /\ ~alone => doubt # {}
    BY DEF GhostsOK
  <2> QED BY <1>1, <1>2, <2>1, <2>2 DEF Resting, Says
<1>4. ASSUME NEW h, Goto(o, h), alone' => h # Idle /\ Stage(h)' PROVE Honest'
  BY <1>1, <1>4, Onward
<1>5. \A h : h = Idle => h.pc = "idle"
  BY DEF Idle
<1>6. CASE Provision(o)
  <2>1. PICK h : h = [pc |-> "exists"] /\ Goto(o, h)
    BY <1>6 DEF Provision
  <2>2. h.pc = "exists" /\ row' = None
    BY <1>6, <2>1 DEF Provision
  <2> QED BY <1>4, <1>5, <2>1, <2>2 DEF Stage
<1>7. CASE Suspend(o) \/ Resume(o)
  <2>1. PICK b : Goto(o, [pc |-> "enable", on |-> b, copy |-> row])
    BY <1>7 DEF Suspend, Resume
  <2>2. PICK h : h = [pc |-> "enable", on |-> b, copy |-> row] /\ Goto(o, h)
    BY <2>1
  <2>3. h.pc = "enable" /\ h.copy = row' /\ row' # None
    BY <1>1, <1>7, <2>2 DEF Suspend, Resume
  <2>4. alone' => Stage(h)'
    BY <1>3, <2>3 DEF Stage
  <2> QED BY <1>4, <1>5, <2>2, <2>3, <2>4
<1>8. CASE Delete(o)
  <2>1. row # None /\ row \in Row /\ row.until <= reqs /\ row.until \in Nat
    BY <1>8, RowsMade DEF Delete, IInv, Types, Ripe
  <2>2. PICK copy : copy = [row EXCEPT !.status = "deleting"]
    OBVIOUS
  <2>3. PICK h : h = [pc |-> "mark", now |-> reqs', copy |-> copy] /\ Goto(o, h)
    BY <1>8, <2>2 DEF Delete
  <2>4. h.pc = "mark" /\ h.copy = copy /\ h.now = reqs'
    BY <2>3
  <2>5. copy.until = row.until
    BY <2>1, <2>2 DEF Row
  <2>6. h.now >= row.until
    <3>1. reqs \in Nat /\ reqs' = reqs + 1
      BY <1>1, TenantsAssumption DEF IInv, Types, Request
    <3> QED BY <2>1, <2>4, <3>1
  <2>7. Stage(h)'
    BY <1>1, <2>1, <2>4, <2>5, <2>6 DEF Stage
  <2> QED BY <1>4, <1>5, <2>3, <2>4, <2>7
<1> QED BY <1>6, <1>7, <1>8 DEF Begin

(* What every other step of a handler can count on. *)
LEMMA AtWork ==
    ASSUME Layered, NEW o \in Op, ~Begin(o), Continue(o) \/ Abandon(o)
    PROVE  /\ Acts(o) /\ op[o] # Idle /\ op[o] \in Handler
           /\ alone' => alone /\ Stage(op[o])
           /\ row # None => row \in Row
           /\ realm # NoRealm => row # None /\ realm \in Realm
           /\ InSaga(o) => row # None
           /\ \A h : Goto(o, h) /\ (alone' => IF h = Idle THEN Resting' ELSE Stage(h)')
                       => Honest'
<1> USE DEF Layered
<1>1. Acts(o) /\ op[o] # Idle /\ op[o] \in Handler
  BY Owner DEF Acts
<1>2. alone' => alone /\ Stage(op[o])
  BY <1>1, Alone DEF Honest
<1>3. ASSUME NEW h, Goto(o, h), alone' => IF h = Idle THEN Resting' ELSE Stage(h)'
      PROVE  Honest'
  BY <1>1, <1>3, Onward
<1> QED BY <1>1, <1>2, <1>3 DEF IInv, Types, RealmIsRegistered

(* A request does not begin while it runs. *)
LEMMA Running ==
    ASSUME NEW o \in Op, Continue(o) \/ Abandon(o)
    PROVE  ~Begin(o)
<1>1. Begin(o) => op[o] = Idle /\ Idle.pc = "idle"
  BY DEF Begin, Provision, Suspend, Resume, Delete, Request, Idle
<1>2. Continue(o) => op[o].pc # "idle"
  BY DEF Continue, CheckRealm, CreateTenant, CreateRealm, SagaStep, Undo, Reread,
         Conclude, SetRealmEnabled, SaveRow, MarkDeleting, DeleteRealm
<1> QED BY <1>1, <1>2 DEF Abandon

(* The last write: what it carries out it leaves in no doubt. *)
LEMMA LastSaveRests ==
    ASSUME NEW copy, NEW out, LastSave(copy, out), copy # None,
           realm' = realm, Says(copy)
    PROVE  Resting'
BY DEF LastSave, Save, Resting, Says

(* Provisioning: each step of the saga leaves what the next one needs, and
   its end leaves a complete realm, or a tenant that failed. *)
LEMMA SagaHonest ==
    ASSUME Layered, NEW o \in Op,
           \/ CheckRealm(o) \/ CreateTenant(o) \/ CreateRealm(o) \/ SagaStep(o)
           \/ Undo(o) \/ Reread(o) \/ Conclude(o)
    PROVE  Honest'
<1>1. Continue(o) /\ ~Begin(o)
  BY Running DEF Continue
<1>2. /\ op[o] \in Handler
      /\ alone' => alone /\ Stage(op[o])
      /\ row # None => row \in Row
      /\ realm # NoRealm => row # None /\ realm \in Realm
      /\ InSaga(o) => row # None
  BY <1>1, AtWork
<1>3. ASSUME NEW h, Goto(o, h), alone' => IF h = Idle THEN Resting' ELSE Stage(h)'
      PROVE  Honest'
  BY <1>1, <1>3, AtWork
<1>4. \A h : h = Idle => h.pc = "idle"
  BY DEF Idle
<1>5. CASE CheckRealm(o)
  <2>1. op[o].pc = "exists" /\ UNCHANGED <<row, realm>>
    BY <1>5 DEF CheckRealm, Call
  <2>2. PICK h \in {[pc |-> "insert"], Idle} : Goto(o, h)
    BY <1>5 DEF CheckRealm
  <2>3. h.pc = "insert" \/ h = Idle
    BY <2>2
  <2>4. alone' => row' = None
    BY <1>2, <2>1 DEF Stage
  <2>5. alone' => Resting' /\ (h.pc = "insert" => Stage(h)')
    BY <2>4 DEF Resting, Stage
  <2> QED BY <1>3, <2>2, <2>3, <2>5
<1>6. CASE CreateTenant(o)
  <2>1. op[o].pc = "insert"
    BY <1>6 DEF CreateTenant
  <2>2. CASE row = None
    <3>1. PICK out \in Outcome :
            /\ Save(Made, out)
            /\ doubt' = doubt \union (IF out = "lost" THEN {"store"} ELSE {})
            /\ Goto(o, IF out = "ok" THEN [pc |-> "saga", step |-> 1] ELSE Idle)
      BY <1>6, <2>2 DEF CreateTenant
    <3>2. CASE out = "ok"
      <4>1. PICK h : h = [pc |-> "saga", step |-> 1] /\ Goto(o, h)
        BY <3>1, <3>2
      <4>2. h.pc = "saga" /\ h.step = 1
        BY <4>1
      <4>3. Stage(h)'
        BY <4>2 DEF Stage
      <4> QED BY <1>3, <1>4, <4>1, <4>2, <4>3
    <3>3. CASE out # "ok"
      <4>1. Resting'
        BY <2>2, <3>1, <3>3, TenantsAssumption DEF Save, Resting, Outcome
      <4> QED BY <1>3, <3>1, <3>3, <4>1
    <3> QED BY <3>2, <3>3
  <2>3. CASE row # None
    <3>1. Goto(o, Idle)
      BY <1>6, <2>3 DEF CreateTenant
    <3>2. ~alone'
      BY <1>2, <2>1, <2>3 DEF Stage
    <3> QED BY <1>3, <3>1, <3>2
  <2> QED BY <2>2, <2>3
<1>7. CASE CreateRealm(o)
  <2>1. PICK new : new = [enabled |-> TRUE, steps |-> {1}]
    OBVIOUS
  <2>2. PICK out \in Outcome :
          /\ Call(realm = NoRealm, new, out)
          /\ Goto(o, IF realm = NoRealm /\ out = "ok"
                     THEN [pc |-> "saga", step |-> 2] ELSE Ended(FALSE))
    BY <1>7, <2>1 DEF CreateRealm
  <2>3. PICK h : /\ h = IF realm = NoRealm /\ out = "ok"
                        THEN [pc |-> "saga", step |-> 2] ELSE Ended(FALSE)
                 /\ Goto(o, h)
    BY <2>2
  <2>4. CASE realm = NoRealm /\ out = "ok"
    <3>1. h.pc = "saga" /\ realm' = new /\ new.enabled
      BY <2>1, <2>2, <2>3, <2>4 DEF Call
    <3>2. new # NoRealm
      <4>1. new \in Realm
        BY <2>1 DEF Realm, Step
      <4> QED BY <4>1, TenantsAssumption
    <3> QED BY <1>3, <1>4, <2>3, <3>1, <3>2 DEF Stage
  <2>5. CASE ~(realm = NoRealm /\ out = "ok")
    <3>1. h.pc = "reread" /\ ~h.ok
      BY <2>3, <2>5 DEF Ended
    <3> QED BY <1>3, <1>4, <2>3, <3>1 DEF Stage
  <2> QED BY <2>4, <2>5
<1>8. CASE SagaStep(o)
  <2>1. PICK n : n = op[o].step
    OBVIOUS
  <2>2. op[o].pc = "saga" /\ n > 1
    BY <1>8, <2>1 DEF SagaStep
  <2>3. PICK out \in Outcome :
          /\ Call(realm # NoRealm, [realm EXCEPT !.steps = @ \union {n}], out)
          /\ Goto(o, IF ~(realm # NoRealm) \/ out # "ok" THEN [pc |-> "undo"]
                     ELSE IF n = 5 THEN Ended(TRUE)
                     ELSE [pc |-> "saga", step |-> n + 1])
    BY <1>8, <2>1 DEF SagaStep
  <2>4. PICK h : /\ h \in {[pc |-> "undo"], Ended(TRUE), [pc |-> "saga", step |-> n + 1]}
                 /\ Goto(o, h)
    BY <2>3
  <2>5. h.pc \in {"undo", "reread", "saga"}
    BY <2>4 DEF Ended
  <2>6. ASSUME alone' PROVE realm' # NoRealm /\ realm'.enabled
    <3>1. realm # NoRealm /\ realm.enabled /\ realm \in Realm
      BY <1>2, <2>1, <2>2, <2>6 DEF Stage
    <3>2. PICK grown : grown = [realm EXCEPT !.steps = @ \union {n}]
      OBVIOUS
    <3>3. grown.enabled /\ grown \in Realm
      <4>1. n \in Step
        BY <1>2, <2>1, <2>2, HandlerPc
      <4> QED BY <3>1, <3>2, <4>1 DEF Realm
    <3>4. realm' \in {realm, grown}
      BY <2>3, <3>2 DEF Call
    <3> QED BY <3>1, <3>3, <3>4, TenantsAssumption
  <2>7. alone' => Stage(h)'
    BY <2>5, <2>6 DEF Stage
  <2> QED BY <1>3, <1>4, <2>4, <2>5, <2>7
<1>9. CASE Undo(o)
  <2>1. PICK h : h = Ended(FALSE) /\ Goto(o, h)
    BY <1>9 DEF Undo
  <2>2. h.pc = "reread" /\ ~h.ok
    BY <2>1 DEF Ended
  <2> QED BY <1>3, <1>4, <2>1, <2>2 DEF Stage
<1>10. CASE Reread(o)
  <2>1. PICK copy \in {row, None} :
          Goto(o, [pc |-> "conclude", ok |-> op[o].ok, copy |-> copy])
    BY <1>10 DEF Reread
  <2>2. PICK h : h = [pc |-> "conclude", ok |-> op[o].ok, copy |-> copy] /\ Goto(o, h)
    BY <2>1
  <2>3. h.pc = "conclude" /\ h.ok = op[o].ok /\ h.copy \in {row, None}
    BY <2>2
  <2>4. op[o].pc = "reread" /\ UNCHANGED <<row, realm>>
    BY <1>10 DEF Reread
  <2>5. alone' => Stage(h)'
    BY <1>2, <2>3, <2>4 DEF Stage
  <2> QED BY <1>3, <1>4, <2>2, <2>3, <2>5
<1>11. CASE Conclude(o)
  <2>1. op[o].pc = "conclude" /\ Goto(o, Idle) /\ realm' = realm
    BY <1>11 DEF Conclude
  <2>2. CASE op[o].copy = None
    <3>1. doubt' # {}
      BY <1>11, <2>2 DEF Conclude
    <3>2. Resting'
      BY <3>1 DEF Resting
    <3> QED BY <1>3, <2>1, <3>2
  <2>3. CASE op[o].copy # None
    <3>1. op[o].copy \in Row
      BY <1>2, <2>1, <2>3, HandlerPc DEF CopyPc
    <3>2. PICK out \in Outcome : LastSave(Concluded(o), out)
      BY <1>11, <2>3 DEF Conclude
    <3>3. Concluded(o) # None
          /\ Concluded(o).status = IF op[o].ok THEN "active" ELSE "failed"
      BY <3>1, TenantsAssumption DEF Concluded, Row, Status
    <3>4. alone' => Says(Concluded(o))
      BY <1>2, <2>1, <3>3 DEF Stage, Says
    <3>5. alone' => Resting'
      BY <2>1, <3>2, <3>3, <3>4, LastSaveRests
    <3> QED BY <1>3, <2>1, <3>5
  <2> QED BY <2>2, <2>3
<1> QED BY <1>5, <1>6, <1>7, <1>8, <1>9, <1>10, <1>11

(* The other handlers write what they read, with the status that is now true. *)
LEMMA LifecycleHonest ==
    ASSUME Layered, NEW o \in Op,
           \/ SetRealmEnabled(o) \/ SaveRow(o) \/ MarkDeleting(o)
           \/ DeleteRealm(o) \/ Abandon(o)
    PROVE  Honest'
<1>1. (Continue(o) \/ Abandon(o)) /\ ~Begin(o)
  BY Running DEF Continue
<1>2. /\ op[o] \in Handler
      /\ alone' => alone /\ Stage(op[o])
      /\ row # None => row \in Row
      /\ realm # NoRealm => row # None /\ realm \in Realm
  BY <1>1, AtWork
<1>3. ASSUME NEW h, Goto(o, h), alone' => IF h = Idle THEN Resting' ELSE Stage(h)'
      PROVE  Honest'
  BY <1>1, <1>3, AtWork
<1>4. \A h : h = Idle => h.pc = "idle"
  BY DEF Idle
<1>5. op[o].pc \in {"enable", "save", "mark", "remove"} =>
          op[o].copy \in Row /\ op[o].copy # None /\ op[o].copy.until \in Nat
  BY <1>2, HandlerPc, RowsMade
<1>6. CASE SetRealmEnabled(o)
  <2>1. PICK on : on = op[o].on
    OBVIOUS
  <2>2. op[o].pc = "enable" /\ on \in BOOLEAN /\ row' = row
    BY <1>2, <1>6, <2>1, HandlerPc DEF SetRealmEnabled
  <2>3. PICK new : new = [realm EXCEPT !.enabled = on]
    OBVIOUS
  <2>4. PICK out \in Outcome :
          /\ Call(realm # NoRealm, new, out)
          /\ doubt' = doubt \union ({out} \intersect {"lost"})
          /\ Goto(o, IF realm # NoRealm /\ out = "ok"
                     THEN [pc |-> "save", copy |-> Switched(o)] ELSE Idle)
    BY <1>6, <2>1, <2>3 DEF SetRealmEnabled
  <2>5. alone' => row # None /\ op[o].copy = row /\ Resting
    BY <1>2, <2>2 DEF Stage
  <2>6. CASE realm # NoRealm /\ out = "ok"
    <3>1. PICK h : h = [pc |-> "save", copy |-> Switched(o)] /\ Goto(o, h)
      BY <2>4, <2>6
    <3>2. h.pc = "save" /\ h.copy = Switched(o)
      BY <3>1
    <3>3. realm' # NoRealm /\ realm'.enabled = on
      <4>1. new \in Realm /\ new.enabled = on
        BY <1>2, <2>2, <2>3, <2>6 DEF Realm
      <4>2. realm' = new
        BY <2>4, <2>6 DEF Call
      <4> QED BY <4>1, <4>2, TenantsAssumption
    <3>4. /\ Switched(o).status = IF on THEN "active" ELSE "suspended"
          /\ Switched(o).until = op[o].copy.until
      BY <1>5, <2>1, <2>2 DEF Switched, Row
    <3>5. alone' => Stage(h)'
      <4>1. Says(h.copy)'
        BY <3>2, <3>3, <3>4 DEF Says
      <4>2. alone' => row' # None /\ h.copy.until >= row'.until
        BY <1>5, <2>2, <2>5, <3>2, <3>4
      <4> QED BY <3>2, <4>1, <4>2 DEF Stage
    <3> QED BY <1>3, <1>4, <3>1, <3>2, <3>5
  <2>7. CASE ~(realm # NoRealm /\ out = "ok")
    <3>1. Goto(o, Idle)
      BY <2>4, <2>7
    <3>2. doubt' = {} => doubt = {} /\ realm' = realm
      <4>1. out \in {"ok", "refused", "lost"}
        BY TenantsAssumption DEF Outcome
      <4>2. doubt' = {} => doubt = {} /\ out # "lost"
        BY <2>4
      <4> QED BY <2>4, <2>7, <4>1, <4>2 DEF Call
    <3>3. alone' => Resting'
      BY <2>2, <2>5, <3>2 DEF Resting, Says
    <3> QED BY <1>3, <3>1, <3>3
  <2> QED BY <2>6, <2>7
<1>7. CASE SaveRow(o)
  <2>1. /\ op[o].pc = "save" /\ Goto(o, Idle) /\ realm' = realm
        /\ \E out \in Outcome : LastSave(op[o].copy, out)
    BY <1>7 DEF SaveRow
  <2>2. alone' => Says(op[o].copy)
    BY <1>2, <2>1 DEF Stage
  <2>3. alone' => Resting'
    BY <1>5, <2>1, <2>2, LastSaveRests
  <2> QED BY <1>3, <2>1, <2>3
<1>8. CASE MarkDeleting(o)
  <2>1. PICK h : h = [op[o] EXCEPT !.pc = "remove"] /\ Goto(o, h)
    BY <1>8 DEF MarkDeleting
  <2>2. op[o].pc = "mark" /\ \E out \in Outcome : Save(op[o].copy, out)
    BY <1>8 DEF MarkDeleting
  <2>3. h.pc = "remove" /\ h.copy = op[o].copy /\ h.now = op[o].now
    BY <1>2, <2>1, <2>2 DEF Handler
  <2>4. row' = row \/ row' = op[o].copy
    BY <2>2 DEF Save
  <2>5. alone' => row # None /\ op[o].copy.until = row.until /\ op[o].now >= row.until
    BY <1>2, <2>2 DEF Stage
  <2>6. alone' => Stage(h)'
    BY <1>5, <2>2, <2>3, <2>4, <2>5 DEF Stage
  <2> QED BY <1>3, <1>4, <2>1, <2>3, <2>6
<1>9. CASE DeleteRealm(o)
  <2>1. PICK failed : failed = [op[o].copy EXCEPT !.status = "failed"]
    OBVIOUS
  <2>2. op[o].pc = "remove" /\ row' = row /\ op[o].now \in Nat \ {0}
    BY <1>2, <1>9, HandlerPc DEF DeleteRealm
  <2>3. PICK out \in Outcome :
          /\ Call(TRUE, NoRealm, out)
          /\ Goto(o, [pc |-> "save", copy |-> IF out = "ok" THEN Deleted(o) ELSE failed])
    BY <1>9, <2>1 DEF DeleteRealm
  <2>4. PICK h : /\ h = [pc |-> "save", copy |-> IF out = "ok" THEN Deleted(o) ELSE failed]
                 /\ Goto(o, h)
    BY <2>3
  <2>5. h.pc = "save" /\ h.copy = IF out = "ok" THEN Deleted(o) ELSE failed
    BY <2>4
  <2>6. /\ failed.status = "failed" /\ failed.until = op[o].copy.until
        /\ Deleted(o).status = "deleted" /\ ~Deleted(o).ready
        /\ Deleted(o).until = op[o].now
    BY <1>5, <2>1, <2>2 DEF Deleted, Row
  <2>7. Says(h.copy)'
    BY <2>2, <2>3, <2>5, <2>6 DEF Says, Call
  <2>8. alone' => row # None /\ op[o].copy.until = row.until /\ op[o].now >= row.until
    BY <1>2, <2>2 DEF Stage
  <2>9. alone' => row' # None /\ h.copy.until >= row'.until
    BY <1>5, <2>2, <2>5, <2>6, <2>8
  <2>10. alone' => Stage(h)'
    BY <2>5, <2>7, <2>9 DEF Stage
  <2> QED BY <1>3, <1>4, <2>4, <2>5, <2>10
<1>10. CASE Abandon(o)
  <2>1. doubt' # {} /\ Goto(o, Idle)
    BY <1>10 DEF Abandon
  <2>2. Resting'
    BY <2>1 DEF Resting
  <2> QED BY <1>3, <2>1, <2>2
<1> QED BY <1>6, <1>7, <1>8, <1>9, <1>10

-----------------------------------------------------------------------------
LEMMA InitLayered == Init => Layered
<1> SUFFICES ASSUME Init PROVE Layered
  OBVIOUS
<1>1. \A o \in Op : op[o] = Idle /\ op[o].pc = "idle"
  BY DEF Init, Idle
<1>2. Sole /\ Honest
  BY <1>1 DEF Init, Sole, Honest, Resting
<1>3. ~SomeReady
  BY <1>1 DEF Init, SomeReady, SaysReady, CopyPc
<1>4. Ripe
  BY <1>1, <1>3 DEF Init, Ripe, Grown, Timely, InSaga, CopyPc
<1> QED BY <1>2, <1>4, InitIInv DEF Layered, Init, GhostsOK

LEMMA LayeredStep == Layered /\ [Next]_vars => Layered'
<1> SUFFICES ASSUME Layered, [Next]_vars PROVE Layered'
  OBVIOUS
<1>1. GhostsOK'
  BY GhostsStep DEF Layered
<1>2. ASSUME NEW o \in Op, Acts(o) PROVE Layered'
  <2>1. IInv'
    BY <1>2, BeginIInv, ProvisionIInv, LifecycleIInv DEF Acts, Continue, Layered
  <2>2. Ripe'
    BY <1>2, BeginRipe, SagaRipe, LifecycleRipe DEF Acts, Continue, Layered
  <2>3. Honest'
    BY <1>2, BeginHonest, SagaHonest, LifecycleHonest DEF Acts, Continue
  <2>4. Sole'
    BY <1>2, Alone DEF Layered
  <2> QED BY <1>1, <2>1, <2>2, <2>3, <2>4 DEF Layered
<1>3. CASE UNCHANGED vars
  <2> USE DEF Layered
  <2>1. IInv'
    BY <1>3 DEF vars, IInv, Types, OneSaga, RealmIsRegistered, InSaga
  <2>2. Sole'
    BY <1>3 DEF vars, Sole
  <2>3. Honest'
    BY <1>3 DEF vars, Honest, AtRest, Resting, Says, Stage
  <2>4. Ripe'
    BY <1>3 DEF vars, Ripe, Grown, Timely, SomeReady, SaysReady, InSaga
  <2> QED BY <1>1, <2>1, <2>2, <2>3, <2>4
<1> QED BY <1>2, <1>3 DEF Next, Acts

(* The registry tells the truth between requests, for any number of requests
   and failures: the status is one that the realm bears out unless something
   that is named put it in doubt, and what is ready is complete or gone even
   then (service.go:179-304). *)
THEOREM StatusTellsRealmAlways == Spec => []StatusTellsRealm
<1>1. Layered => StatusTellsRealm
  <2> SUFFICES ASSUME Layered PROVE StatusTellsRealm
    OBVIOUS
  <2>1. row # None /\ row.ready /\ realm # NoRealm => realm.steps = Step
    BY DEF Layered, Ripe, SomeReady
  <2>2. AtRest /\ row # None /\ doubt = {} => Says(row)
    BY DEF Layered, Honest, Resting, GhostsOK
  <2> QED BY <2>1, <2>2 DEF Says, StatusTellsRealm
<1> QED BY InitLayered, LayeredStep, <1>1, PTL DEF Spec

(* No request that runs by itself moves the audit retention deadline back,
   whatever fails, stops or is retried, also when what came before it overlapped
   (service.go:267-300). *)
THEOREM RetentionAlwaysKept == Spec => RetentionKept
<1>1. ASSUME Layered, [Next]_vars, row # None, row.until # 0, alone
      PROVE  row'.until >= row.until
  <2>1. row \in Row /\ row.until \in Nat
    BY <1>1, RowsMade DEF Layered, IInv, Types
  <2>2. ASSUME NEW o \in Op, op[o].pc \in {"conclude", "save", "mark"}
        PROVE  op[o] \in Handler /\ Stage(op[o])
    <3>1. op[o] # Idle
      BY <2>2 DEF Idle
    <3> QED BY <1>1, <3>1 DEF Layered, IInv, Types, Honest
  <2>3. ASSUME NEW o \in Op, Conclude(o) PROVE row'.until = row.until
    <3>1. op[o].pc = "conclude" /\ op[o].copy \in {row, None}
      BY <2>2, <2>3 DEF Conclude, Stage
    <3>2. row' = row \/ (op[o].copy = row /\ row' = Concluded(o))
      BY <2>3, <3>1 DEF Conclude, LastSave, Save
    <3> QED BY <2>1, <3>2 DEF Concluded, Row
  <2>4. ASSUME NEW o \in Op, SaveRow(o) \/ MarkDeleting(o) PROVE row'.until >= row.until
    <3>1. op[o].pc \in {"save", "mark"} /\ (row' = row \/ row' = op[o].copy)
      BY <2>4 DEF SaveRow, MarkDeleting, LastSave, Save
    <3> QED BY <2>1, <2>2, <3>1 DEF Stage
  <2>5. ASSUME NEW o \in Op, Begin(o) \/ Abandon(o) PROVE row' = row
    BY <2>5 DEF Begin, Provision, Suspend, Resume, Delete, Abandon
  <2>6. ASSUME NEW o \in Op, Continue(o), ~Conclude(o), ~SaveRow(o), ~MarkDeleting(o)
        PROVE  row' = row
    BY <1>1, <2>6 DEF Continue, CheckRealm, CreateTenant, CreateRealm, SagaStep, Undo,
                      Reread, SetRealmEnabled, DeleteRealm
  <2>7. CASE UNCHANGED vars
    BY <2>1, <2>7 DEF vars
  <2> QED BY <1>1, <2>1, <2>3, <2>4, <2>5, <2>6, <2>7 DEF Next
<1>2. Layered /\ [Next]_vars
        => [row # None /\ row.until # 0 /\ alone => row'.until >= row.until]_vars
  BY <1>1
<1> QED BY InitLayered, LayeredStep, <1>2, PTL DEF Spec, RetentionKept
=============================================================================
