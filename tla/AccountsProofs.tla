--------------------------- MODULE AccountsProofs ---------------------------
(***************************************************************************)
(* Proofs about Accounts, for any number of requests, invitations, users,  *)
(* bearers and faults.  Invitations and directory sync share the realm's   *)
(* users and the requests, so what each of them promises needs to know how *)
(* far the other can disturb it: users are created once, keep their maker  *)
(* and never lose a role (Grows), and a step of one kind of request leaves *)
(* the other kind alone.                                                   *)
(***************************************************************************)
EXTENDS Accounts, TLAPS

Maker == Invite \union {"scim"}
User == [by : Maker, enabled : BOOLEAN, roles : SUBSET RealmRole]

InvitedRole == UNION {o.roles : o \in Offer}
Invitation == [status : {"pending", "accepted", "revoked"}, email : Username,
               roles : SUBSET InvitedRole]

Stored == UNION {Parts(m) : m \in Mapping}
MappedRole == UNION {{m[g] : g \in DOMAIN m} : m \in Stored}
Conn == [bearer : Nat \ {0}, mapping : Stored]

InvitePc == {"create", "roles", "revoke"}
ScimPc == {"find", "make", "set", "patch", "groups", "assign", "touch"}
ScimRequest ==
    [pc : ScimPc, name : Username, active : BOOLEAN, asked : {"on", "off", "unread"},
     groups : SUBSET Group, copy : Conn \union {NoConn}, todo : SUBSET MappedRole,
     ignored : BOOLEAN, overtaken : BOOLEAN]
RolesRequest == [pc : {"roles"}, inv : Invite, todo : SUBSET InvitedRole]
Request ==
    [pc : {"idle"}]
    \union [pc : {"create", "revoke"}, inv : Invite]
    \union RolesRequest
    \union [pc : {"rotate"}, copy : Conn]
    \union ScimRequest

Types ==
    /\ users \in [Username -> User \union {NoUser}]
    /\ req \in [Req -> Request]
    /\ invitations \in [Invite -> Invitation \union {None}]
    /\ spent \in [Invite -> Nat]
    /\ conn \in Conn \union {NoConn}
    /\ issued \in Nat
    /\ crossed \in BOOLEAN

-----------------------------------------------------------------------------
(* The names that stand for nothing are told apart by one field. *)
LEMMA Nothing ==
    /\ \A u \in User : u.by # "nobody" /\ u # NoUser
    /\ NoUser.by = "nobody" /\ "nobody" \notin Maker
    /\ \A v \in Invitation : v.status # "none" /\ v # None
    /\ None.status = "none"
    /\ \A c \in Conn : c.bearer # 0 /\ c # NoConn
    /\ NoConn.bearer = 0
    /\ Idle.pc = "idle" /\ Idle \in Request
BY InvitesAssumption DEF NoUser, User, Maker, None, Invitation, NoConn, Conn, Idle, Request

(* What a request's record has. *)
LEMMA RequestPc ==
    ASSUME NEW r \in Request
    PROVE  /\ r.pc \in {"idle", "rotate"} \union InvitePc \union ScimPc
           /\ r.pc \in InvitePc => r.inv \in Invite
           /\ r.pc = "roles" => r \in RolesRequest
           /\ r.pc = "rotate" => r.copy \in Conn
           /\ r.pc \in ScimPc => r \in ScimRequest
           /\ r.pc = "idle" => r = Idle
BY DEF Request, RolesRequest, ScimRequest, InvitePc, ScimPc, Idle

(* How the realm's users change, `by' being the request at work: created once,
   and from then on with the same maker and no fewer roles. *)
Same(n) == users'[n] = users[n]
Born(n, by) == users[n] = NoUser /\ users'[n] \in User /\ users'[n].by = by
Grown(n) == /\ users[n] \in User /\ users'[n] \in User
            /\ users'[n].by = users[n].by
            /\ users[n].roles \subseteq users'[n].roles
Grows(by) ==
    /\ users' \in [Username -> User \union {NoUser}]
    /\ \A n \in Username : Same(n) \/ Born(n, by) \/ Grown(n)

LEMMA CreateEffect ==
    ASSUME Types, NEW n \in Username, NEW on \in BOOLEAN, NEW by \in Maker,
           NEW ok \in BOOLEAN, CreateUser(n, on, by, ok)
    PROVE  /\ Grows(by)
           /\ \A m \in Username : m # n => Same(m)
           /\ Same(n) \/ (Born(n, by) /\ users'[n].enabled = on)
           /\ ok => Born(n, by) /\ users'[n].enabled = on
           /\ Same(n) => users' = users
<1> DEFINE u == [by |-> by, enabled |-> on, roles |-> {}]
<1>1. \/ users' = users /\ ~ok
      \/ users[n] = NoUser /\ users' = [users EXCEPT ![n] = u]
  BY DEF CreateUser, Exists, Create, With
<1>2. u \in User /\ u.by = by /\ u.enabled = on
  BY DEF User
<1> HIDE DEF u
<1>3. CASE users' = users /\ ~ok
  BY <1>3 DEF Types, Grows, Same
<1>4. CASE users[n] = NoUser /\ users' = [users EXCEPT ![n] = u]
  BY <1>2, <1>4, Nothing DEF Types, Grows, Same, Born
<1> QED BY <1>1, <1>3, <1>4

LEMMA AssignEffect ==
    ASSUME Types, NEW n \in Username, NEW r, NEW ok \in BOOLEAN,
           NEW by, AssignRealmRole(n, r, ok)
    PROVE  /\ Grows(by)
           /\ \A m \in Username : m # n => Same(m)
           /\ Same(n) \/ (Grown(n) /\ users'[n].enabled = users[n].enabled)
           /\ ok => users'[n] \in User /\ r \in users'[n].roles
<1> DEFINE u == [users[n] EXCEPT !.roles = @ \union {r}]
<1>1. \/ users' = users /\ ~ok
      \/ users[n] # NoUser /\ r \in RealmRole /\ users' = [users EXCEPT ![n] = u]
  BY DEF AssignRealmRole, Exists, Assign, With
<1>2. CASE users' = users /\ ~ok
  BY <1>2 DEF Types, Grows, Same
<1>3. CASE users[n] # NoUser /\ r \in RealmRole /\ users' = [users EXCEPT ![n] = u]
  <2>1. users[n] \in User
    BY <1>3 DEF Types
  <2>2. /\ u \in User /\ u.by = users[n].by /\ u.enabled = users[n].enabled
        /\ users[n].roles \subseteq u.roles /\ r \in u.roles
    BY <1>3, <2>1 DEF User
  <2> HIDE DEF u
  <2> QED BY <1>3, <2>1, <2>2 DEF Types, Grows, Same, Grown
<1> QED BY <1>1, <1>2, <1>3

LEMMA EnableEffect ==
    ASSUME Types, NEW n \in Username, NEW on \in BOOLEAN, NEW ok \in BOOLEAN,
           NEW by, SetUserEnabled(n, on, ok)
    PROVE  /\ Grows(by)
           /\ \A m \in Username : m # n => Same(m)
           /\ ok => users'[n] \in User /\ users'[n].enabled = on
           /\ Same(n) => users' = users
<1> DEFINE u == [users[n] EXCEPT !.enabled = on]
<1>1. \/ users' = users /\ ~ok
      \/ users[n] # NoUser /\ users' = [users EXCEPT ![n] = u]
  BY DEF SetUserEnabled, Exists, Enable, With
<1>2. CASE users' = users /\ ~ok
  BY <1>2 DEF Types, Grows, Same
<1>3. CASE users[n] # NoUser /\ users' = [users EXCEPT ![n] = u]
  <2>1. users[n] \in User
    BY <1>3 DEF Types
  <2>2. /\ u \in User /\ u.by = users[n].by /\ u.enabled = on
        /\ users[n].roles \subseteq u.roles
    BY <1>3, <2>1 DEF User
  <2>3. users' \in [Username -> User \union {NoUser}] /\ Grown(n)
    BY <1>3, <2>1, <2>2 DEF Types, Grown
  <2>4. Same(n) => users' = users
    BY <1>3 DEF Types, Same
  <2> HIDE DEF u
  <2> QED BY <1>3, <2>2, <2>3, <2>4 DEF Types, Grows, Same
<1> QED BY <1>1, <1>2, <1>3

-----------------------------------------------------------------------------
(* First layer: types, and that requests work on invitations there are. *)
Invited == \A h \in Req : req[h].pc \in InvitePc => invitations[req[h].inv] # None

(* What was sent out stays as it was, but for the status. *)
SentStays ==
    \A i \in Invite : invitations[i] # None =>
        /\ invitations'[i] # None
        /\ invitations'[i].email = invitations[i].email
        /\ invitations'[i].roles = invitations[i].roles

Typed == Types /\ Invited

LEMMA GotoEffect ==
    ASSUME Types, NEW h \in Req, NEW r, req' = [req EXCEPT ![h] = r]
    PROVE  /\ req'[h] = r
           /\ \A x \in Req : x # h => req'[x] = req[x]
           /\ r \in Request => req' \in [Req -> Request]
BY DEF Types

LEMMA StatusEffect ==
    ASSUME Types, NEW i \in Invite, invitations[i] # None,
           NEW s \in {"accepted", "revoked"}, SetStatus(i, s)
    PROVE  /\ invitations' \in [Invite -> Invitation \union {None}]
           /\ SentStays
           /\ invitations'[i].status = s
           /\ \A j \in Invite : j # i => invitations'[j] = invitations[j]
<1> DEFINE v == [invitations[i] EXCEPT !.status = s]
<1>1. invitations' = [invitations EXCEPT ![i] = v] /\ invitations[i] \in Invitation
  BY DEF SetStatus, Types
<1>2. /\ v \in Invitation /\ v.status = s /\ v.email = invitations[i].email
      /\ v.roles = invitations[i].roles
  BY <1>1 DEF Invitation
<1> HIDE DEF v
<1> QED BY <1>1, <1>2, Nothing DEF Types, SentStays

(* One request moves on, what was sent stays: the layer is kept. *)
LEMMA TypedMove ==
    ASSUME Typed, NEW h \in Req, NEW r \in Request, req' = [req EXCEPT ![h] = r],
           users' \in [Username -> User \union {NoUser}],
           invitations' \in [Invite -> Invitation \union {None}],
           SentStays,
           spent' \in [Invite -> Nat],
           conn' \in Conn \union {NoConn}, issued' \in Nat, crossed' \in BOOLEAN,
           r.pc \in InvitePc => invitations'[r.inv] # None
    PROVE  Typed'
<1>1. /\ req'[h] = r
      /\ \A x \in Req : x # h => req'[x] = req[x]
      /\ req' \in [Req -> Request]
  BY GotoEffect DEF Typed
<1>2. Invited'
  <2>1. ASSUME NEW x \in Req, req'[x].pc \in InvitePc PROVE invitations'[req'[x].inv] # None
    <3>1. CASE x = h
      BY <1>1, <2>1, <3>1
    <3>2. CASE x # h
      <4>1. req[x].inv \in Invite /\ invitations[req[x].inv] # None /\ req'[x] = req[x]
        BY <1>1, <2>1, <3>2, RequestPc DEF Typed, Types, Invited
      <4> QED BY <4>1 DEF SentStays
    <3> QED BY <3>1, <3>2
  <2> QED BY <2>1 DEF Invited
<1> QED BY <1>1, <1>2 DEF Typed, Types

LEMMA InviteTyped ==
    ASSUME Typed, InviteNext /\ UNCHANGED scimVars
    PROVE  Typed' /\ SentStays
<1>1. Types /\ UNCHANGED <<conn, issued, crossed>>
  BY DEF Typed, scimVars
<1>2. ASSUME UNCHANGED invitations PROVE SentStays
  BY <1>2 DEF SentStays
<1>3. ASSUME NEW i \in Invite, CreateInvitation(i) PROVE Typed' /\ SentStays
  <2>1. PICK o \in Offer : invitations' = [invitations EXCEPT ![i] =
                            [status |-> "pending", email |-> o.email, roles |-> o.roles]]
    BY <1>3 DEF CreateInvitation
  <2> DEFINE v == [status |-> "pending", email |-> o.email, roles |-> o.roles]
  <2>2. v \in Invitation
    BY InvitesAssumption DEF Invitation, InvitedRole
  <2> HIDE DEF v
  <2>3. invitations' = [invitations EXCEPT ![i] = v]
    BY <2>1 DEF v
  <2>4. UNCHANGED <<spent, users, req>> /\ invitations[i] = None
    BY <1>3 DEF CreateInvitation
  <2>5. SentStays /\ invitations' \in [Invite -> Invitation \union {None}]
    BY <1>1, <2>2, <2>3, <2>4 DEF Types, SentStays
  <2>6. Invited'
    <3>1. \A x \in Req : req[x].pc \in InvitePc => req[x].inv \in Invite
      BY <1>1, RequestPc DEF Types
    <3> QED BY <2>4, <2>5, <3>1 DEF Typed, Invited, SentStays
  <2> QED BY <1>1, <2>4, <2>5, <2>6 DEF Typed, Types
<1>4. ASSUME NEW i \in Invite, Expire(i) PROVE Typed' /\ SentStays
  BY <1>1, <1>2, <1>4 DEF Expire, Typed, Types, Invited
<1>5. ASSUME NEW h \in Req, NEW i \in Invite, AcceptBegin(h, i) \/ RevokeBegin(h, i)
      PROVE Typed' /\ SentStays
  <2>1. PICK r : /\ r \in {[pc |-> "create", inv |-> i], [pc |-> "revoke", inv |-> i]}
                 /\ req' = [req EXCEPT ![h] = r]
    BY <1>5 DEF AcceptBegin, RevokeBegin, Begin
  <2>2. r \in Request /\ r.inv = i
    BY <2>1 DEF Request
  <2>3. UNCHANGED <<invitations, spent, users>>
    BY <1>5 DEF AcceptBegin, RevokeBegin, inviteVars
  <2>4. invitations[i] # None
    BY <1>5, Nothing DEF AcceptBegin, RevokeBegin
  <2>5. SentStays
    BY <1>2, <2>3
  <2> QED BY <1>1, <2>1, <2>2, <2>3, <2>4, <2>5, TypedMove DEF Types
<1>6. ASSUME NEW h \in Req, AcceptCreate(h) PROVE Typed' /\ SentStays
  <2>1. PICK i : i = req[h].inv
    OBVIOUS
  <2>2. i \in Invite /\ invitations[i] \in Invitation /\ req[h].pc = "create"
    BY <1>1, <1>6, <2>1, RequestPc DEF AcceptCreate, InvitePc, Typed, Invited, Types
  <2>3. PICK ok \in BOOLEAN :
          /\ CreateUser(invitations[i].email, TRUE, i, ok)
          /\ IF ok
             THEN /\ Goto(h, [pc |-> "roles", inv |-> i, todo |-> invitations[i].roles])
                  /\ spent' = [spent EXCEPT ![i] = @ + 1]
             ELSE End(h) /\ UNCHANGED spent
    BY <1>6, <2>1 DEF AcceptCreate
  <2>4. UNCHANGED invitations
    BY <1>6 DEF AcceptCreate
  <2>5. Grows(i)
    BY <1>1, <2>2, <2>3, CreateEffect DEF Invitation, Maker
  <2>6. PICK r : /\ r \in {[pc |-> "roles", inv |-> i, todo |-> invitations[i].roles], Idle}
                 /\ req' = [req EXCEPT ![h] = r]
    BY <2>3 DEF Goto, End
  <2>7. r \in Request /\ (r.pc \in InvitePc => r.inv = i)
    BY <2>2, <2>6, Nothing DEF Request, RolesRequest, Invitation, InvitePc
  <2>8. spent' \in [Invite -> Nat]
    BY <1>1, <2>3 DEF Types
  <2>9. SentStays /\ invitations[i] # None
    BY <1>2, <2>2, <2>4, Nothing
  <2> QED BY <1>1, <2>4, <2>5, <2>6, <2>7, <2>8, <2>9, TypedMove DEF Types, Grows
<1>7. ASSUME NEW h \in Req, AcceptRole(h) PROVE Typed' /\ SentStays
  <2>1. PICK i : i = req[h].inv
    OBVIOUS
  <2>2. /\ i \in Invite /\ invitations[i] \in Invitation /\ req[h].pc = "roles"
        /\ req[h] \in Request
    BY <1>1, <1>7, <2>1, RequestPc DEF AcceptRole, InvitePc, Typed, Invited, Types
  <2>3. PICK x \in req[h].todo, ok \in BOOLEAN :
          /\ AssignRealmRole(invitations[i].email, x, ok)
          /\ IF ok THEN Goto(h, [req[h] EXCEPT !.todo = @ \ {x}]) ELSE End(h)
    BY <1>7, <2>1 DEF AcceptRole
  <2>4. UNCHANGED <<invitations, spent>>
    BY <1>7 DEF AcceptRole
  <2>5. Grows(i)
    BY <1>1, <2>2, <2>3, AssignEffect DEF Invitation
  <2>6. PICK r : /\ r \in {[req[h] EXCEPT !.todo = @ \ {x}], Idle}
                 /\ req' = [req EXCEPT ![h] = r]
    BY <2>3 DEF Goto, End
  <2>7. r \in Request /\ (r.pc \in InvitePc => r.inv = i)
    <3>1. PICK s : s = [req[h] EXCEPT !.todo = @ \ {x}]
      OBVIOUS
    <3>2. s \in RolesRequest /\ s.inv = i
      BY <2>1, <2>2, <3>1, RequestPc DEF RolesRequest
    <3> QED BY <2>6, <3>1, <3>2, Nothing DEF InvitePc, Request
  <2>8. SentStays /\ invitations[i] # None
    BY <1>2, <2>2, <2>4, Nothing
  <2> QED BY <1>1, <2>4, <2>5, <2>6, <2>7, <2>8, TypedMove DEF Types, Grows
<1>8. ASSUME NEW h \in Req, AcceptSave(h) \/ RevokeSave(h) PROVE Typed' /\ SentStays
  <2>1. PICK i : i = req[h].inv
    OBVIOUS
  <2>2. i \in Invite /\ invitations[i] # None
    BY <1>1, <1>8, <2>1, RequestPc
       DEF AcceptSave, RevokeSave, InvitePc, Typed, Invited, Types
  <2>3. \/ UNCHANGED invitations
        \/ \E s \in {"accepted", "revoked"} : SetStatus(i, s)
    BY <1>8, <2>1 DEF AcceptSave, RevokeSave
  <2>4. SentStays /\ invitations' \in [Invite -> Invitation \union {None}]
    BY <1>1, <1>2, <2>2, <2>3, StatusEffect DEF Types
  <2>5. req' = [req EXCEPT ![h] = Idle] /\ UNCHANGED <<spent, users>>
    BY <1>8 DEF AcceptSave, RevokeSave, End, Goto
  <2> QED BY <1>1, <2>4, <2>5, TypedMove, Nothing DEF Types, InvitePc
<1> QED BY <1>3, <1>4, <1>5, <1>6, <1>7, <1>8 DEF InviteNext

-----------------------------------------------------------------------------
(* Second layer: how far a SCIM request has got.  A request that set its user,
   was not overtaken and ignored no error finds the user as it asked; of the
   roles its groups map to, the user has all but those still to be assigned. *)
Settled(q) == /\ q.pc \in {"patch", "groups", "assign", "touch"}
              /\ ~q.overtaken /\ ~q.ignored /\ q.asked # "unread"

Missing(q) == IF q.pc = "assign" THEN q.todo ELSE {}

Tells(q) ==
    /\ q.pc = "patch" => q.groups = {}
    /\ q.pc \in ScimPc => (q.active <=> q.asked = "on")
    /\ Settled(q) =>
         /\ users[q.name] \in User
         /\ users[q.name].enabled = q.active
         /\ q.pc # "groups" =>
               \A g \in q.groups : Mapped(q.copy, g) =>
                   q.copy.mapping[g] \in users[q.name].roles \union Missing(q)

Done == \A h \in Req : Tells(req[h])

(* A change of a user that takes nothing from a request about it. *)
Gentle(n) == \/ Same(n)
             \/ users[n] = NoUser
             \/ Grown(n) /\ users'[n].enabled = users[n].enabled

LEMMA TellsStays ==
    ASSUME NEW q, Tells(q), Gentle(q.name)
    PROVE  Tells(q)'
<1>1. CASE Settled(q)
  <2>1. users[q.name] \in User /\ users[q.name] # NoUser
    BY <1>1, Nothing DEF Tells
  <2>2. /\ users'[q.name] \in User
        /\ users'[q.name].enabled = users[q.name].enabled
        /\ users[q.name].roles \subseteq users'[q.name].roles
    BY <2>1 DEF Gentle, Same, Grown
  <2> QED BY <1>1, <2>2 DEF Tells, Settled, Missing, Mapped
<1>2. CASE ~Settled(q)
  BY <1>2 DEF Tells, Settled
<1> QED BY <1>1, <1>2

LEMMA NotScim == ASSUME NEW q, q.pc \notin ScimPc PROVE Tells(q)'
BY DEF Tells, Settled, ScimPc

(* A request that was overtaken is the same but for that. *)
Overtaken(q, s) ==
    /\ q \in ScimRequest /\ s \in ScimRequest
    /\ s.pc = q.pc /\ s.groups = q.groups /\ s.overtaken
    /\ s.active <=> q.active
    /\ s.asked = q.asked

(* What a SCIM step, or an admin's, leaves to the other requests. *)
Others(h) ==
    \A x \in Req : x # h =>
        \/ req'[x] = req[x] /\ (req[x].pc \in ScimPc => Gentle(req[x].name))
        \/ Overtaken(req[x], req'[x])

(* Requests that handle invitations do not notice. *)
Apart == \A x \in Req :
            req[x].pc \in InvitePc \/ req'[x].pc \in InvitePc => req'[x] = req[x]

(* Nor does a Rotate, which works on the connection only. *)
RotateApart == \A x \in Req :
                  req[x].pc = "rotate" \/ req'[x].pc = "rotate" => req'[x] = req[x]

LEMMA ScimMove ==
    ASSUME Typed, Done, UNCHANGED inviteVars, NEW h \in Req, NEW r \in Request,
           r.pc \notin InvitePc, req[h].pc \notin InvitePc,
           req' \in [Req -> Request], req'[h] = r, Tells(r)', Others(h),
           Grows("scim"),
           conn' \in Conn \union {NoConn}, issued' \in Nat, crossed' \in BOOLEAN
    PROVE  /\ Typed' /\ Done' /\ Apart
           /\ req[h].pc # "rotate" /\ r.pc # "rotate" => RotateApart
<1>1. ScimPc \intersect InvitePc = {}
  BY DEF ScimPc, InvitePc
<1>2. Apart
  <2>1. ASSUME NEW x \in Req, x # h, Overtaken(req[x], req'[x])
        PROVE  req[x].pc \notin InvitePc /\ req'[x].pc \notin InvitePc
    BY <1>1, <2>1 DEF Overtaken, ScimRequest
  <2> QED BY <2>1 DEF Apart, Others
<1>3. Typed'
  <2>1. Types' /\ UNCHANGED invitations
    BY DEF Typed, Types, inviteVars, Grows
  <2>2. Invited'
    BY <1>2, <2>1 DEF Typed, Invited, Apart
  <2> QED BY <2>1, <2>2 DEF Typed
<1>4. Done'
  <2>1. ASSUME NEW x \in Req, req'[x] = req[x],
               req[x].pc \in ScimPc => Gentle(req[x].name)
        PROVE  Tells(req[x])'
    <3>1. PICK q : q = req[x]
      OBVIOUS
    <3>2. q.pc \in ScimPc => Tells(q)'
      BY <2>1, <3>1, TellsStays DEF Done
    <3>3. Tells(q)'
      BY <3>2, NotScim
    <3> QED BY <2>1, <3>1, <3>3
  <2>2. ASSUME NEW x \in Req, x # h, Overtaken(req[x], req'[x]) PROVE Tells(req[x])'
    <3>1. PICK q : q = req'[x]
      OBVIOUS
    <3>2. /\ q.overtaken /\ (q.pc = "patch" => q.groups = {})
          /\ q.pc \in ScimPc => (q.active <=> q.asked = "on")
      BY <2>2, <3>1 DEF Overtaken, Done, Tells
    <3>3. Tells(q)'
      BY <3>2 DEF Tells, Settled
    <3> QED BY <3>1, <3>3
  <2>3. Tells(req[h])'
    OBVIOUS
  <2> QED BY <2>1, <2>2, <2>3 DEF Done, Others
<1>5. req[h].pc # "rotate" /\ r.pc # "rotate" => RotateApart
  <2>1. ASSUME NEW x \in Req, x # h, Overtaken(req[x], req'[x])
        PROVE  req[x].pc # "rotate" /\ req'[x].pc # "rotate"
    BY <2>1 DEF Overtaken, ScimRequest, ScimPc
  <2> QED BY <2>1 DEF RotateApart, Others
<1> QED BY <1>2, <1>3, <1>4, <1>5

(* Proceed lets r go on and overtakes those that are about the same user, if
   the user changed. *)
LEMMA ProceedEffect ==
    ASSUME Types, NEW h \in Req, NEW r \in Request, req[h] \in ScimRequest, Proceed(h, r),
           \A m \in Username : m # req[h].name => Same(m),
           Same(req[h].name) => users' = users
    PROVE  req' \in [Req -> Request] /\ req'[h] = r /\ Others(h)
<1> DEFINE over(x) == users' # users /\ About(x, req[h].name)
<1>1. \A x \in Req : req'[x] = IF x = h THEN r
                               ELSE IF over(x) THEN [req[x] EXCEPT !.overtaken = TRUE]
                               ELSE req[x]
  BY DEF Proceed
<1>2. req'[h] = r
  BY <1>1
<1>3. \A x \in Req : req[x] \in Request
  BY DEF Types
<1>4. ASSUME NEW x \in Req, x # h, over(x) PROVE Overtaken(req[x], req'[x])
  <2>1. req[x] \in ScimRequest
    BY <1>3, <1>4, RequestPc DEF About, ScimPc
  <2>2. PICK q : q = req[x]
    OBVIOUS
  <2>3. PICK s : s = [q EXCEPT !.overtaken = TRUE]
    OBVIOUS
  <2>4. /\ s \in ScimRequest /\ s.pc = q.pc /\ s.groups = q.groups /\ s.overtaken
        /\ s.asked = q.asked
    BY <2>1, <2>2, <2>3 DEF ScimRequest
  <2>5. s.active <=> q.active
    BY <2>1, <2>2, <2>3 DEF ScimRequest
  <2>6. req'[x] = s
    BY <1>1, <1>4, <2>2, <2>3
  <2> QED BY <2>1, <2>2, <2>4, <2>5, <2>6 DEF Overtaken
<1>5. ASSUME NEW x \in Req, x # h, ~over(x)
      PROVE  req'[x] = req[x] /\ (req[x].pc \in ScimPc => Gentle(req[x].name))
  <2>1. req'[x] = req[x]
    BY <1>1, <1>5
  <2>2. ASSUME req[x].pc \in ScimPc PROVE Gentle(req[x].name)
    <3>1. req[x] \in ScimRequest
      BY <1>3, <2>2, RequestPc
    <3>2. req[x].name \in Username
      BY <3>1 DEF ScimRequest
    <3>3. users' = users \/ req[x].name # req[h].name
      BY <1>5, <2>2 DEF About, ScimPc
    <3> QED BY <3>2, <3>3 DEF Gentle, Same
  <2> QED BY <2>1, <2>2
<1>6. Others(h)
  BY <1>4, <1>5 DEF Others
<1>7. req' \in [Req -> Request]
  <2>1. ASSUME NEW x \in Req PROVE req'[x] \in Request
    BY <1>2, <1>3, <1>4, <1>5 DEF Overtaken, Request
  <2> QED BY <2>1 DEF Proceed
<1> QED BY <1>2, <1>6, <1>7

(* The same for a request that goes on and overtakes nobody. *)
LEMMA GotoOthers ==
    ASSUME Types, NEW h \in Req, NEW r \in Request, req' = [req EXCEPT ![h] = r],
           \A n \in Username : Gentle(n)
    PROVE  req' \in [Req -> Request] /\ req'[h] = r /\ Others(h)
<1>1. \A x \in Req : req[x].pc \in ScimPc => req[x].name \in Username
  BY RequestPc DEF Types, ScimRequest
<1> QED BY <1>1, GotoEffect DEF Others

LEMMA NoChange ==
    ASSUME Types, UNCHANGED users
    PROVE  (\A by : Grows(by)) /\ \A n \in Username : Gentle(n) /\ Same(n)
BY DEF Types, Grows, Same, Gentle

(* Every SCIM step keeps the two layers and lets invitations be. *)
Bystands == Typed' /\ Done' /\ Apart /\ Grows("scim")

(* A step of request h that changes users gently, or not at all. *)
LEMMA GentleMove ==
    ASSUME Typed, Done, UNCHANGED inviteVars, NEW h \in Req, NEW r \in Request,
           r.pc \notin InvitePc, req[h].pc \notin InvitePc,
           req' = [req EXCEPT ![h] = r], Tells(r)',
           Grows("scim"), \A n \in Username : Gentle(n),
           conn' \in Conn \union {NoConn}, issued' \in Nat, crossed' \in BOOLEAN
    PROVE  Bystands /\ (req[h].pc # "rotate" /\ r.pc # "rotate" => RotateApart)
<1>1. req' \in [Req -> Request] /\ req'[h] = r /\ Others(h)
  BY GotoOthers DEF Typed
<1> QED BY <1>1, ScimMove DEF Bystands

LEMMA AdminBystands ==
    ASSUME Typed, Done, UNCHANGED inviteVars,
           \/ Configure \/ Disable
           \/ \E h \in Req : RotateBegin(h) \/ RotateSave(h)
    PROVE  Bystands
<1>1. Types /\ UNCHANGED users
  BY DEF Typed, Configure, Disable, RotateBegin, RotateSave
<1>2. Grows("scim") /\ \A n \in Username : Gentle(n)
  BY <1>1, NoChange
<1>3. CASE Configure \/ Disable
  <2>1. UNCHANGED req
    BY <1>3 DEF Configure, Disable
  <2>2. conn' \in Conn \union {NoConn} /\ issued' \in Nat /\ crossed' \in BOOLEAN
    <3>1. CASE Configure
      <4>1. /\ issued' = issued + 1 /\ issued \in Nat
            /\ \E read \in Stored : conn' \in {conn, [bearer |-> issued', mapping |-> read]}
        <5>1. PICK m \in Mapping : \E read \in Parts(m) :
                 conn' \in {conn, [bearer |-> issued', mapping |-> read]}
          BY <3>1 DEF Configure, Upsert
        <5>2. \A read \in Parts(m) : read \in Stored
          BY DEF Stored
        <5> QED BY <1>1, <3>1, <5>1, <5>2 DEF Configure, Types
      <4>2. crossed' = Rotating \/ crossed' = TRUE
        BY <3>1 DEF Configure
      <4>3. conn' \in Conn \union {NoConn} /\ issued' \in Nat
        BY <1>1, <4>1 DEF Types, Conn
      <4> QED BY <4>2, <4>3 DEF Rotating
    <3>2. CASE Disable
      BY <1>1, <3>2 DEF Disable, Upsert, Types, Rotating
    <3> QED BY <1>3, <3>1, <3>2
  <2>3. Typed'
    BY <1>1, <2>1, <2>2 DEF Typed, Types, Invited, inviteVars
  <2>4. Done'
    BY <1>1, <2>1 DEF Done, Tells, Settled, Missing, Mapped
  <2> QED BY <1>2, <2>1, <2>3, <2>4 DEF Bystands, Apart
<1>4. ASSUME NEW h \in Req, RotateBegin(h) PROVE Bystands
  <2>1. PICK r : r = [pc |-> "rotate", copy |-> conn] /\ req' = [req EXCEPT ![h] = r]
    BY <1>4 DEF RotateBegin, Begin
  <2>2. r \in Request /\ r.pc = "rotate"
    BY <1>1, <1>4, <2>1 DEF RotateBegin, Enabled, Types, Request
  <2>3. Tells(r)' /\ r.pc \notin InvitePc
    BY <2>2, NotScim DEF ScimPc, InvitePc
  <2>4. req[h].pc \notin InvitePc
    BY <1>4, Nothing DEF RotateBegin, Begin, InvitePc
  <2>5. UNCHANGED <<conn, issued, crossed>>
    BY <1>4 DEF RotateBegin, scimVars
  <2> QED BY <1>1, <1>2, <2>1, <2>2, <2>3, <2>4, <2>5, GentleMove DEF Types
<1>5. ASSUME NEW h \in Req, RotateSave(h) PROVE Bystands
  <2>1. req' = [req EXCEPT ![h] = Idle] /\ req[h].pc = "rotate"
    BY <1>5 DEF RotateSave, End, Goto
  <2>2. Tells(Idle)' /\ Idle.pc \notin InvitePc /\ Idle \in Request
    BY Nothing, NotScim DEF ScimPc, InvitePc
  <2>3. conn' \in Conn \union {NoConn} /\ issued' \in Nat /\ crossed' \in BOOLEAN
    <3>1. PICK c : c = [req[h].copy EXCEPT !.bearer = issued']
      OBVIOUS
    <3>2. issued' = issued + 1 /\ conn' \in {conn, c} /\ (crossed' = crossed \/ crossed' = TRUE)
      BY <1>5, <3>1 DEF RotateSave, Upsert
    <3>3. req[h].copy \in Conn
      BY <1>1, <2>1, RequestPc DEF Types
    <3>4. c \in Conn
      BY <1>1, <3>1, <3>2, <3>3 DEF Conn, Types
    <3>5. conn' \in Conn \union {NoConn} /\ issued' \in Nat
      BY <1>1, <3>2, <3>4 DEF Types
    <3>6. crossed \in BOOLEAN
      BY <1>1 DEF Types
    <3>7. crossed' \in BOOLEAN
      BY <3>2, <3>6
    <3> QED BY <3>5, <3>7
  <2> QED BY <1>1, <1>2, <2>1, <2>2, <2>3, GentleMove DEF InvitePc
<1> QED BY <1>3, <1>4, <1>5

(* A SCIM request on its way: what it needs to read of its own record. *)
LEMMA ScimRecord ==
    ASSUME Types, NEW h \in Req, req[h].pc \in ScimPc
    PROVE  /\ req[h] \in ScimRequest /\ req[h] \in Request
           /\ req[h].name \in Username /\ req[h].active \in BOOLEAN
           /\ req[h].pc \notin InvitePc
BY RequestPc DEF Types, ScimRequest, ScimPc, InvitePc

LEMMA ScimBeginBystands ==
    ASSUME Typed, Done, UNCHANGED inviteVars, NEW h \in Req, NEW b, ScimBegin(h, b)
    PROVE  Bystands /\ RotateApart
<1>1. PICK n \in Username, on \in BOOLEAN, ask \in {"on", "off", "unread"}, G \in SUBSET Group,
           pc \in {"find", "set", "patch"} :
         /\ pc = "patch" => G = {} /\ ask = "unread"
         /\ on <=> ask = "on"
         /\ Begin(h, Body(pc, n, on, ask, G))
  <2>1. \A v \in UserActive : /\ activeOrTrue(v) \in BOOLEAN
                              /\ activeOrTrue(v) <=> Ask(v) = "on"
                              /\ Ask(v) \in {"on", "off", "unread"}
    BY DEF UserActive, activeOrTrue, Ask
  <2>2. PICK n \in Username :
         \/ \E v \in UserActive, G \in SUBSET Group, pc \in {"find", "set"} :
                Begin(h, Body(pc, n, activeOrTrue(v), Ask(v), G))
         \/ Begin(h, Body("patch", n, FALSE, "unread", {}))
    BY DEF ScimBegin
  <2>3. CASE \E v \in UserActive, G \in SUBSET Group, pc \in {"find", "set"} :
                Begin(h, Body(pc, n, activeOrTrue(v), Ask(v), G))
    BY <2>1, <2>3
  <2>4. CASE Begin(h, Body("patch", n, FALSE, "unread", {}))
    BY <2>4
  <2> QED BY <2>2, <2>3, <2>4
<1>2. PICK r : r = Body(pc, n, on, ask, G)
  OBVIOUS
<1>3. Types /\ UNCHANGED <<users, conn, issued, crossed>>
  BY DEF Typed, ScimBegin, scimVars
<1>4. r \in ScimRequest
  BY <1>2, <1>3 DEF Body, ScimRequest, Types, ScimPc
<1>5. /\ r \in Request /\ r.pc \notin InvitePc /\ (r.pc = "patch" => r.groups = {})
      /\ r.pc \notin {"groups", "assign", "touch", "rotate"}
      /\ r.pc = "patch" => r.asked = "unread"
      /\ r.active <=> r.asked = "on"
  BY <1>1, <1>2, <1>4 DEF Body, Request, InvitePc
<1>6. Tells(r)'
  BY <1>5 DEF Tells, Settled
<1>7. req' = [req EXCEPT ![h] = r] /\ req[h].pc \notin InvitePc \union {"rotate"}
  BY <1>1, <1>2, Nothing DEF Begin, InvitePc
<1>8. Grows("scim") /\ \A m \in Username : Gentle(m)
  BY <1>3, NoChange
<1> QED BY <1>3, <1>5, <1>6, <1>7, <1>8, GentleMove DEF Types

(* The steps that change no user. *)
LEMMA ScimReadsBystand ==
    ASSUME Typed, Done, UNCHANGED inviteVars, NEW h \in Req,
           FindUser(h) \/ ReadMapping(h) \/ AssignDone(h) \/ PatchEnd(h) \/ Touch(h)
    PROVE  Bystands /\ RotateApart
<1>1. Types /\ UNCHANGED <<users, conn, issued, crossed>>
  BY DEF Typed, FindUser, ReadMapping, AssignDone, PatchEnd, Touch, scimVars
<1>2. req[h].pc \in ScimPc
  BY DEF FindUser, ReadMapping, AssignDone, PatchEnd, Touch, ScimPc
<1>3. PICK q : q = req[h]
  OBVIOUS
<1>4. /\ q \in ScimRequest /\ q.pc \notin InvitePc /\ q.name \in Username /\ Tells(q)
      /\ q.pc # "rotate" /\ (q.active <=> q.asked = "on")
  BY <1>1, <1>2, <1>3, ScimRecord DEF Done, Tells, ScimPc
<1>5. Grows("scim") /\ \A m \in Username : Gentle(m)
  BY <1>1, NoChange
<1>6. ASSUME NEW r \in Request, r.pc \notin InvitePc \union {"rotate"}, Tells(r)', req' = [req EXCEPT ![h] = r]
      PROVE  Bystands /\ RotateApart
  BY <1>1, <1>3, <1>4, <1>5, <1>6, GentleMove DEF Types
<1>7. Tells(Idle)' /\ Idle.pc \notin InvitePc \union {"rotate"} /\ Idle \in Request
  BY Nothing, NotScim DEF ScimPc, InvitePc
<1>8. ASSUME req' = [req EXCEPT ![h] = Idle] PROVE Bystands /\ RotateApart
  BY <1>6, <1>7, <1>8
<1>9. ASSUME NEW r \in ScimRequest, Tells(r)', req' = [req EXCEPT ![h] = r] PROVE Bystands /\ RotateApart
  <2>1. r \in Request /\ r.pc \notin InvitePc \union {"rotate"}
    BY DEF Request, ScimRequest, ScimPc, InvitePc
  <2> QED BY <1>6, <1>9, <2>1
<1>10. CASE FindUser(h)
  <2>1. CASE req' = [req EXCEPT ![h] = Idle]
    BY <1>8, <2>1
  <2>2. CASE \E s \in {"set", "make"} : req' = [req EXCEPT ![h] = [q EXCEPT !.pc = s]]
    <3>1. PICK s \in {"set", "make"} : req' = [req EXCEPT ![h] = [q EXCEPT !.pc = s]]
      BY <2>2
    <3>2. PICK r : r = [q EXCEPT !.pc = s]
      OBVIOUS
    <3>3. /\ r \in ScimRequest /\ r.pc \in {"set", "make"}
          /\ r.active = q.active /\ r.asked = q.asked
      BY <1>4, <3>2 DEF ScimRequest, ScimPc
    <3>4. Tells(r)'
      BY <1>4, <3>3 DEF Tells, Settled
    <3> QED BY <1>9, <3>1, <3>2, <3>3, <3>4
  <2> QED BY <1>3, <1>10, <2>1, <2>2 DEF FindUser, End, Goto
<1>11. CASE ReadMapping(h)
  <2>1. q.pc = "groups"
    BY <1>3, <1>11 DEF ReadMapping
  <2>2. CASE req' = [req EXCEPT ![h] = [q EXCEPT !.pc = "assign", !.copy = NoConn, !.ignored = TRUE]]
    <3>1. PICK r : r = [q EXCEPT !.pc = "assign", !.copy = NoConn, !.ignored = TRUE]
      OBVIOUS
    <3>2. /\ r \in ScimRequest /\ r.ignored /\ r.pc = "assign"
          /\ r.active = q.active /\ r.asked = q.asked
      BY <1>4, <3>1 DEF ScimRequest, ScimPc
    <3>3. Tells(r)'
      BY <1>4, <3>2 DEF Tells, Settled
    <3> QED BY <1>9, <2>2, <3>1, <3>2, <3>3
  <2>3. CASE req' = [req EXCEPT ![h] = [q EXCEPT !.pc = "assign", !.copy = conn,
                 !.todo = {conn.mapping[g] : g \in {x \in q.groups : Mapped(conn, x)}}]]
    <3>1. PICK c : c = conn
      OBVIOUS
    <3>2. PICK T : T = {c.mapping[g] : g \in {x \in q.groups : Mapped(c, x)}}
      OBVIOUS
    <3>3. PICK r : r = [q EXCEPT !.pc = "assign", !.copy = c, !.todo = T]
      OBVIOUS
    <3>4. T \subseteq MappedRole /\ c \in Conn \union {NoConn}
      <4>1. c \in Conn \union {NoConn}
        BY <1>1, <3>1 DEF Types
      <4>2. \A g : Mapped(c, g) => c.mapping[g] \in MappedRole
        BY <4>1 DEF Conn, Mapped, MappedRole
      <4> QED BY <3>2, <4>1, <4>2
    <3>5. /\ r \in ScimRequest /\ r.pc = "assign" /\ r.todo = T /\ r.copy = c
          /\ r.groups = q.groups /\ r.name = q.name /\ r.active = q.active /\ r.asked = q.asked
          /\ r.overtaken = q.overtaken /\ r.ignored = q.ignored
      BY <1>4, <3>3, <3>4 DEF ScimRequest, ScimPc
    <3>6. \A g \in r.groups : Mapped(r.copy, g) => r.copy.mapping[g] \in r.todo
      BY <3>2, <3>5
    <3>7. Tells(r)'
      BY <1>1, <1>4, <2>1, <3>5, <3>6 DEF Tells, Settled, Missing, Mapped
    <3>8. T = {conn.mapping[g] : g \in {x \in q.groups : Mapped(conn, x)}}
      BY <3>1, <3>2
    <3>9. req' = [req EXCEPT ![h] = r]
      BY <2>3, <3>1, <3>3, <3>8
    <3> QED BY <1>9, <3>5, <3>7, <3>9
  <2> QED BY <1>3, <1>11, <2>2, <2>3 DEF ReadMapping, Goto
<1>12. CASE AssignDone(h)
  <2>1. PICK r : r = [q EXCEPT !.pc = "touch"]
    OBVIOUS
  <2>2. req' = [req EXCEPT ![h] = r] /\ q.pc = "assign" /\ q.todo = {}
    BY <1>3, <1>12, <2>1 DEF AssignDone, Goto
  <2>3. /\ r \in ScimRequest /\ r.pc = "touch" /\ r.copy = q.copy
        /\ r.groups = q.groups /\ r.name = q.name /\ r.active = q.active /\ r.asked = q.asked
        /\ r.overtaken = q.overtaken /\ r.ignored = q.ignored
    BY <1>4, <2>1 DEF ScimRequest, ScimPc
  <2>4. Tells(r)'
    BY <1>1, <1>4, <2>2, <2>3 DEF Tells, Settled, Missing, Mapped
  <2> QED BY <1>9, <2>2, <2>3, <2>4
<1>13. CASE PatchEnd(h)
  <2>1. PICK r : r = [q EXCEPT !.pc = "touch"]
    OBVIOUS
  <2>2. req' = [req EXCEPT ![h] = r] /\ q.pc = "patch"
    BY <1>3, <1>13, <2>1 DEF PatchEnd, Goto
  <2>3. /\ r \in ScimRequest /\ r.pc = "touch" /\ r.copy = q.copy
        /\ r.groups = q.groups /\ r.name = q.name /\ r.active = q.active /\ r.asked = q.asked
        /\ r.overtaken = q.overtaken /\ r.ignored = q.ignored
    BY <1>4, <2>1 DEF ScimRequest, ScimPc
  <2>4. Tells(r)'
    BY <1>1, <1>4, <2>2, <2>3 DEF Tells, Settled
  <2> QED BY <1>9, <2>2, <2>3, <2>4
<1>14. CASE Touch(h)
  BY <1>8, <1>14 DEF Touch, End, Goto
<1> QED BY <1>10, <1>11, <1>12, <1>13, <1>14

(* The steps that change the user: a request that sets it overtakes the rest. *)
LEMMA ScimWritesBystand ==
    ASSUME Typed, Done, UNCHANGED inviteVars, NEW h \in Req,
           MakeUser(h) \/ SetUser(h) \/ PatchUser(h) \/ AssignGroup(h)
    PROVE  Bystands /\ RotateApart
<1>1. Types /\ UNCHANGED <<conn, issued, crossed>>
  BY DEF Typed, MakeUser, SetUser, PatchUser, AssignGroup, scimVars
<1>2. req[h].pc \in ScimPc
  BY DEF MakeUser, SetUser, PatchUser, AssignGroup, ScimPc
<1>3. PICK q : q = req[h]
  OBVIOUS
<1>4. /\ q \in ScimRequest /\ q.pc \notin InvitePc /\ q.name \in Username
      /\ q.active \in BOOLEAN /\ Tells(q) /\ req[h] \in ScimRequest
      /\ q.pc # "rotate" /\ (q.active <=> q.asked = "on")
  BY <1>1, <1>2, <1>3, ScimRecord DEF Done, Tells, ScimPc
<1>5. Tells(Idle)' /\ Idle.pc \notin InvitePc \union {"rotate"} /\ Idle \in Request
  BY Nothing, NotScim DEF ScimPc, InvitePc
<1>6. ASSUME NEW r \in ScimRequest \union {Idle}, Tells(r)', Proceed(h, r), Grows("scim"),
             \A m \in Username : m # q.name => Same(m),
             Same(q.name) => users' = users
      PROVE  Bystands /\ RotateApart
  <2>1. r \in Request /\ r.pc \notin InvitePc \union {"rotate"}
    BY <1>5 DEF Request, ScimRequest, ScimPc, InvitePc
  <2>2. req' \in [Req -> Request] /\ req'[h] = r /\ Others(h)
    BY <1>1, <1>3, <1>4, <1>6, <2>1, ProceedEffect
  <2>3. conn' \in Conn \union {NoConn} /\ issued' \in Nat /\ crossed' \in BOOLEAN
    BY <1>1 DEF Types
  <2> QED BY <1>3, <1>4, <1>6, <2>1, <2>2, <2>3, ScimMove DEF Bystands
<1>7. CASE MakeUser(h)
  <2>1. PICK ok \in BOOLEAN :
         /\ CreateUser(q.name, q.active, "scim", ok)
         /\ Proceed(h, IF ok THEN [q EXCEPT !.pc = "groups"] ELSE Idle)
    BY <1>3, <1>7 DEF MakeUser
  <2>2. /\ Grows("scim")
        /\ \A m \in Username : m # q.name => Same(m)
        /\ ok => Born(q.name, "scim") /\ users'[q.name].enabled = q.active
        /\ Same(q.name) => users' = users
    BY <1>1, <1>4, <2>1, CreateEffect DEF Maker
  <2>3. CASE ok
    <3>1. PICK r : r = [q EXCEPT !.pc = "groups"]
      OBVIOUS
    <3>2. /\ r \in ScimRequest /\ r.pc = "groups" /\ r.name = q.name /\ r.active = q.active /\ r.asked = q.asked
      BY <1>4, <3>1 DEF ScimRequest, ScimPc
    <3>3. Tells(r)'
      BY <1>4, <2>2, <2>3, <3>2 DEF Tells, Settled, Born
    <3>4. Proceed(h, r)
      BY <2>1, <2>3, <3>1
    <3> QED BY <1>6, <2>2, <3>2, <3>3, <3>4
  <2>4. CASE ~ok
    <3>1. Proceed(h, Idle)
      BY <2>1, <2>4
    <3> QED BY <1>5, <1>6, <2>2, <3>1
  <2> QED BY <2>3, <2>4
<1>8. CASE SetUser(h)
  <2>1. PICK ok \in BOOLEAN :
         /\ SetUserEnabled(q.name, q.active, ok)
         /\ Proceed(h, [q EXCEPT !.pc = "groups", !.overtaken = FALSE, !.ignored = ~ok])
    BY <1>3, <1>8 DEF SetUser
  <2>2. /\ Grows("scim")
        /\ \A m \in Username : m # q.name => Same(m)
        /\ ok => users'[q.name] \in User /\ users'[q.name].enabled = q.active
        /\ Same(q.name) => users' = users
    BY <1>1, <1>4, <2>1, EnableEffect
  <2>3. PICK r : r = [q EXCEPT !.pc = "groups", !.overtaken = FALSE, !.ignored = ~ok]
    OBVIOUS
  <2>4. /\ r \in ScimRequest /\ r.pc = "groups" /\ r.name = q.name /\ r.active = q.active /\ r.asked = q.asked
        /\ r.ignored = ~ok
    BY <1>4, <2>3 DEF ScimRequest, ScimPc
  <2>5. Tells(r)'
    BY <1>4, <2>2, <2>4 DEF Tells, Settled
  <2>6. Proceed(h, r)
    BY <2>1, <2>3
  <2> QED BY <1>6, <2>2, <2>4, <2>5, <2>6
<1>9. CASE PatchUser(h)
  <2>1. PICK on \in BOOLEAN, ask \in {"on", "off"}, ok \in BOOLEAN :
         /\ on <=> ask = "on"
         /\ SetUserEnabled(q.name, on, ok)
         /\ Proceed(h, IF ok THEN [q EXCEPT !.active = on, !.asked = ask, !.overtaken = FALSE]
                       ELSE Idle)
    <3>1. PICK v \in PatchActive, ok \in BOOLEAN :
           /\ SetUserEnabled(q.name, truthy(v), ok)
           /\ Proceed(h, IF ok THEN [q EXCEPT !.active = truthy(v), !.asked = Ask(v),
                                             !.overtaken = FALSE]
                         ELSE Idle)
      BY <1>3, <1>9 DEF PatchUser
    <3>2. v # "absent" /\ truthy(v) \in BOOLEAN
      BY DEF PatchActive, truthy
    <3>3. Ask(v) \in {"on", "off"}
      BY DEF Ask
    <3>4. truthy(v) <=> Ask(v) = "on"
      BY <3>2 DEF truthy, Ask
    <3> QED BY <3>1, <3>2, <3>3, <3>4
  <2>2. /\ Grows("scim")
        /\ \A m \in Username : m # q.name => Same(m)
        /\ ok => users'[q.name] \in User /\ users'[q.name].enabled = on
        /\ Same(q.name) => users' = users
    BY <1>1, <1>4, <2>1, EnableEffect
  <2>3. CASE ok
    <3>1. PICK r : r = [q EXCEPT !.active = on, !.asked = ask, !.overtaken = FALSE]
      OBVIOUS
    <3>2. /\ r \in ScimRequest /\ r.pc = "patch" /\ r.name = q.name /\ r.active = on
          /\ r.asked = ask /\ r.groups = q.groups
      BY <1>3, <1>4, <1>9, <3>1 DEF PatchUser, ScimRequest, ScimPc
    <3>3. r.groups = {}
      BY <1>3, <1>4, <1>9, <3>2 DEF PatchUser, Tells
    <3>4. Tells(r)'
      BY <2>1, <2>2, <2>3, <3>2, <3>3 DEF Tells, Settled
    <3>5. Proceed(h, r)
      BY <2>1, <2>3, <3>1
    <3> QED BY <1>6, <2>2, <3>2, <3>4, <3>5
  <2>4. CASE ~ok
    <3>1. Proceed(h, Idle)
      BY <2>1, <2>4
    <3> QED BY <1>5, <1>6, <2>2, <3>1
  <2> QED BY <2>3, <2>4
<1>10. CASE AssignGroup(h)
  <2>1. PICK x \in q.todo, ok \in BOOLEAN :
         /\ AssignRealmRole(q.name, x, ok)
         /\ Goto(h, [q EXCEPT !.todo = @ \ {x}, !.ignored = @ \/ ~ok])
    BY <1>3, <1>10 DEF AssignGroup
  <2>2. /\ Grows("scim")
        /\ \A m \in Username : m # q.name => Same(m)
        /\ Same(q.name) \/ (Grown(q.name) /\ users'[q.name].enabled = users[q.name].enabled)
        /\ ok => users'[q.name] \in User /\ x \in users'[q.name].roles
    BY <1>1, <1>4, <2>1, AssignEffect
  <2>3. \A m \in Username : Gentle(m)
    BY <2>2 DEF Gentle
  <2>4. PICK r : r = [q EXCEPT !.todo = @ \ {x}, !.ignored = @ \/ ~ok]
    OBVIOUS
  <2>5. q.pc = "assign" /\ q.ignored \in BOOLEAN
    BY <1>3, <1>4, <1>10 DEF AssignGroup, ScimRequest
  <2>6. /\ r \in ScimRequest /\ r.pc = "assign" /\ r.name = q.name /\ r.active = q.active /\ r.asked = q.asked
        /\ r.groups = q.groups /\ r.copy = q.copy /\ r.todo = q.todo \ {x}
        /\ r.overtaken = q.overtaken /\ r.ignored = (q.ignored \/ ~ok)
    <3>1. (q.ignored \/ ~ok) \in BOOLEAN
      OBVIOUS
    <3>2. PICK b \in BOOLEAN : b = (q.ignored \/ ~ok)
      BY <3>1
    <3>3. r = [q EXCEPT !.todo = q.todo \ {x}, !.ignored = b]
      BY <2>4, <3>2
    <3>4. r.ignored = b
      BY <1>4, <3>3 DEF ScimRequest
    <3>5. r \in ScimRequest
      BY <1>4, <3>3 DEF ScimRequest
    <3> QED BY <1>4, <2>5, <3>2, <3>3, <3>4, <3>5 DEF ScimRequest
  <2>7. Tells(r)'
    <3>1. ASSUME Settled(r) PROVE Settled(q) /\ ok
      BY <2>5, <2>6, <3>1 DEF Settled
    <3>2. Tells(q)'
      BY <1>4, <2>3, TellsStays
    <3> QED BY <2>2, <2>5, <2>6, <3>1, <3>2 DEF Tells, Settled, Missing, Mapped
  <2>8. r \in Request /\ r.pc \notin InvitePc \union {"rotate"}
    BY <2>6 DEF Request, InvitePc
  <2>9. req' = [req EXCEPT ![h] = r]
    BY <2>1, <2>4 DEF Goto
  <2>10. conn' \in Conn \union {NoConn} /\ issued' \in Nat /\ crossed' \in BOOLEAN
    BY <1>1 DEF Types
  <2>11. req[h].pc \notin InvitePc \union {"rotate"}
    BY <1>3, <1>4
  <2> QED BY <2>2, <2>3, <2>7, <2>8, <2>9, <2>10, <2>11, GentleMove
<1> QED BY <1>7, <1>8, <1>9, <1>10

LEMMA ScimBystands ==
    ASSUME Typed, Done, ScimNext /\ UNCHANGED inviteVars PROVE Bystands
BY AdminBystands, ScimBeginBystands, ScimReadsBystand, ScimWritesBystand DEF ScimNext

-----------------------------------------------------------------------------
(* Third layer: what an invitation's status and its user tell of each other,
   also while requests work on it. *)
HasAllBut(i, todo) ==
    /\ users[invitations[i].email].by = i
    /\ invitations[i].roles \subseteq users[invitations[i].email].roles \union todo

Giving(h, i) == req[h].pc = "roles" /\ req[h].inv = i

Told(i) ==
    /\ \A n \in Username : users[n].by = i =>
          invitations[i] # None /\ invitations[i].email = n
    /\ invitations[i].status = "accepted" => HasAllBut(i, {})
    /\ invitations[i] # None /\ users[invitations[i].email].by = i /\ i \notin amiss =>
          invitations[i].status = "accepted" \/ \E h \in Req : Giving(h, i)
    /\ \A h \in Req : Giving(h, i) => HasAllBut(i, req[h].todo)
    /\ spent[i] # 0 =>
          spent[i] = 1 /\ invitations[i] # None /\ users[invitations[i].email].by = i

AllTold == \A i \in Invite : Told(i)

(* A user keeps its maker and its roles. *)
LEMMA MadeStays ==
    ASSUME Typed, NEW by, Grows(by), NEW i \in Invite, NEW n \in Username
    PROVE  /\ users[n].by = i => users'[n].by = i /\ users[n].roles \subseteq users'[n].roles
           /\ users'[n].by = i => users[n].by = i \/ Born(n, by)
<1>1. Same(n) \/ Born(n, by) \/ Grown(n)
  BY DEF Grows
<1>2. NoUser.by # i
  BY Nothing DEF Maker
<1> QED BY <1>1, <1>2 DEF Same, Born, Grown

LEMMA HasAllStays ==
    ASSUME Typed, NEW by, Grows(by), SentStays, NEW i \in Invite, NEW todo,
           invitations[i] # None, HasAllBut(i, todo)
    PROVE  HasAllBut(i, todo)'
<1>1. /\ invitations[i].email \in Username
      /\ invitations'[i].email = invitations[i].email
      /\ invitations'[i].roles = invitations[i].roles
  BY DEF Typed, Types, Invitation, SentStays
<1> QED BY <1>1, MadeStays DEF HasAllBut

(* Steps about something else leave what is told of an invitation true. *)
LEMMA ToldStays ==
    ASSUME Typed, SentStays, NEW by, Grows(by), NEW i \in Invite, by # i, Told(i),
           invitations'[i] = invitations[i], spent'[i] = spent[i],
           i \in amiss => i \in amiss',
           \A h \in Req : Giving(h, i) \/ Giving(h, i)' => req'[h] = req[h]
    PROVE  Told(i)'
<1>1. \A n \in Username : users'[n].by = i => users[n].by = i
  BY MadeStays DEF Born
<1>2. \A n \in Username : users'[n].by = i =>
          invitations'[i] # None /\ invitations'[i].email = n
  BY <1>1 DEF Told
<1>3. \A h \in Req : Giving(h, i)' <=> Giving(h, i)
  BY DEF Giving
<1>4. invitations[i].status = "accepted" => invitations[i] # None
  BY Nothing
<1>5. invitations'[i].status = "accepted" => HasAllBut(i, {})'
  BY <1>4, HasAllStays DEF Told
<1>6. ASSUME NEW h \in Req, Giving(h, i)' PROVE HasAllBut(i, req[h].todo)'
  <2>1. PICK T : T = req[h].todo
    OBVIOUS
  <2>2. Giving(h, i) /\ req'[h] = req[h]
    BY <1>3, <1>6
  <2>3. invitations[i] # None
    BY <2>2 DEF Typed, Invited, Giving, InvitePc
  <2>4. HasAllBut(i, T)'
    BY <2>1, <2>2, <2>3, HasAllStays DEF Told
  <2> QED BY <2>1, <2>2, <2>4
<1>7. invitations[i] # None => invitations[i].email \in Username
  BY DEF Typed, Types, Invitation
<1>8. invitations'[i] # None /\ users'[invitations'[i].email].by = i /\ i \notin amiss' =>
          invitations'[i].status = "accepted" \/ \E h \in Req : Giving(h, i)'
  BY <1>1, <1>3, <1>7 DEF Told
<1>9. spent'[i] # 0 =>
          spent'[i] = 1 /\ invitations'[i] # None /\ users'[invitations'[i].email].by = i
  BY <1>7, MadeStays DEF Told
<1> QED BY <1>2, <1>5, <1>6, <1>8, <1>9 DEF Told

(* The handler of an invitation: what it reads. *)
LEMMA Handling ==
    ASSUME Typed, NEW h \in Req, req[h].pc \in InvitePc
    PROVE  /\ req[h].inv \in Invite
           /\ invitations[req[h].inv] \in Invitation
           /\ invitations[req[h].inv] # None
           /\ invitations[req[h].inv].email \in Username
BY RequestPc DEF Typed, Types, Invited, Invitation

(* Steps that neither change a user nor bring a role along. *)
LEMMA QuietTold ==
    ASSUME Typed, SentStays, AllTold, UNCHANGED users, NEW i \in Invite,
           invitations'[i] = invitations[i], spent'[i] = spent[i], amiss \subseteq amiss',
           \A h \in Req : Giving(h, i) \/ Giving(h, i)' => req'[h] = req[h]
    PROVE  Told(i)'
<1>1. Grows("scim") /\ "scim" # i
  BY NoChange, InvitesAssumption DEF Typed
<1> QED BY <1>1, ToldStays DEF AllTold

LEMMA CreatedTold ==
    ASSUME Typed, Typed', SentStays, AllTold, NEW i \in Invite, CreateInvitation(i)
    PROVE  AllTold'
<1>1. /\ UNCHANGED <<spent, amiss, users, req>> /\ invitations[i] = None
      /\ \E o \in Offer : invitations' = [invitations EXCEPT ![i] =
                            [status |-> "pending", email |-> o.email, roles |-> o.roles]]
  BY DEF CreateInvitation
<1>2. /\ \A j \in Invite : j # i => invitations'[j] = invitations[j]
      /\ invitations'[i].status = "pending" /\ invitations'[i].email \in Username
  BY <1>1, InvitesAssumption DEF Typed, Types
<1>3. ASSUME NEW j \in Invite, j # i PROVE Told(j)'
  BY <1>1, <1>2, <1>3, QuietTold DEF Giving
<1>4. Told(i)'
  <2>1. \A n \in Username : users[n].by # i
    BY <1>1 DEF AllTold, Told
  <2>2. \A h \in Req : ~Giving(h, i)
    BY <1>1 DEF Typed, Invited, Giving, InvitePc
  <2>3. spent[i] = 0
    BY <1>1 DEF AllTold, Told
  <2> QED BY <1>1, <1>2, <2>1, <2>2, <2>3 DEF Told, Giving
<1> QED BY <1>3, <1>4 DEF AllTold

LEMMA BegunTold ==
    ASSUME Typed, SentStays, AllTold, NEW i \in Invite,
           \/ Expire(i)
           \/ \E h \in Req : AcceptBegin(h, i) \/ RevokeBegin(h, i)
    PROVE  AllTold'
<1>1. UNCHANGED <<invitations, spent, amiss, users>>
  BY DEF Expire, AcceptBegin, RevokeBegin, inviteVars
<1>2. \A x \in Req : req'[x] # req[x] => req[x].pc # "roles" /\ req'[x].pc # "roles"
  <2>1. CASE Expire(i)
    BY <2>1 DEF Expire
  <2>2. ASSUME NEW h \in Req, AcceptBegin(h, i) \/ RevokeBegin(h, i)
        PROVE \A x \in Req : req'[x] # req[x] => req[x].pc # "roles" /\ req'[x].pc # "roles"
    <3>1. PICK r : /\ r \in {[pc |-> "create", inv |-> i], [pc |-> "revoke", inv |-> i]}
                   /\ req' = [req EXCEPT ![h] = r] /\ req[h] = Idle
      BY <2>2 DEF AcceptBegin, RevokeBegin, Begin
    <3>2. r.pc # "roles"
      BY <3>1
    <3> QED BY <3>1, <3>2, Nothing DEF Typed, Types
  <2> QED BY <2>1, <2>2
<1>3. ASSUME NEW j \in Invite PROVE Told(j)'
  BY <1>1, <1>2, QuietTold DEF Giving
<1> QED BY <1>3 DEF AllTold

(* A handler that ends, or goes on to another step, is all that changes. *)
LEMMA HandlerTold ==
    ASSUME Typed, SentStays, AllTold, NEW h \in Req, NEW r, req' = [req EXCEPT ![h] = r],
           req[h].pc \in InvitePc, r.pc \in InvitePc => r.inv = req[h].inv,
           NEW j \in Invite, j # req[h].inv, Grows(req[h].inv),
           invitations'[j] = invitations[j], spent'[j] = spent[j], amiss \subseteq amiss'
    PROVE  Told(j)'
<1>1. req'[h] = r /\ \A x \in Req : x # h => req'[x] = req[x]
  BY GotoEffect DEF Typed
<1>2. ~Giving(h, j) /\ ~Giving(h, j)'
  BY <1>1 DEF Giving, InvitePc
<1> QED BY <1>1, <1>2, ToldStays, Handling DEF AllTold

LEMMA AcceptCreateTold ==
    ASSUME Typed, SentStays, AllTold, NEW h \in Req, AcceptCreate(h)
    PROVE  AllTold'
<1>1. PICK i : i = req[h].inv
  OBVIOUS
<1>2. req[h].pc = "create" /\ UNCHANGED invitations
  BY DEF AcceptCreate
<1>3. i \in Invite /\ invitations[i] \in Invitation /\ invitations[i] # None
  BY <1>1, <1>2, Handling DEF InvitePc
<1>4. PICK n : n = invitations[i].email
  OBVIOUS
<1>5. PICK ok \in BOOLEAN :
        /\ CreateUser(n, TRUE, i, ok)
        /\ IF ok
           THEN /\ Goto(h, [pc |-> "roles", inv |-> i, todo |-> invitations[i].roles])
                /\ spent' = [spent EXCEPT ![i] = @ + 1]
                /\ UNCHANGED amiss
           ELSE /\ End(h)
                /\ UNCHANGED spent
                /\ IF users' # users THEN GoneWrong(i) ELSE UNCHANGED amiss
  BY <1>1, <1>4 DEF AcceptCreate
<1>6. n \in Username /\ i \in Maker
  BY <1>3, <1>4 DEF Invitation, Maker
<1>7. /\ Grows(i)
      /\ \A m \in Username : m # n => Same(m)
      /\ Same(n) \/ Born(n, i)
      /\ ok => Born(n, i)
      /\ Same(n) => users' = users
  BY <1>5, <1>6, CreateEffect DEF Typed
<1>8. PICK r : /\ r = IF ok THEN [pc |-> "roles", inv |-> i, todo |-> invitations[i].roles]
                      ELSE Idle
               /\ req' = [req EXCEPT ![h] = r]
  BY <1>5 DEF Goto, End
<1>9. /\ r.pc \in InvitePc => r.inv = i
      /\ amiss \subseteq amiss' /\ \A j \in Invite : j # i => spent'[j] = spent[j]
  BY <1>5, <1>8, Nothing DEF InvitePc, GoneWrong, Typed, Types
<1>10. ASSUME NEW j \in Invite, j # i PROVE Told(j)'
  BY <1>1, <1>2, <1>7, <1>8, <1>9, <1>10, HandlerTold DEF InvitePc
<1>11. req'[h] = r /\ \A x \in Req : x # h => req'[x] = req[x]
  <2>1. req' = [req EXCEPT ![h] = r] /\ Types
    BY <1>8 DEF Typed
  <2> QED BY <2>1, GotoEffect
<1>12. CASE users' = users
  <2>1. ~ok
    BY <1>7, <1>12, Nothing DEF Born
  <2>2. r.pc # "roles" /\ ~Giving(h, i) /\ ~Giving(h, i)'
    BY <1>2, <1>8, <1>11, <2>1, Nothing DEF Giving
  <2>3. Told(i)'
    BY <1>2, <1>3, <1>5, <1>9, <1>11, <1>12, <2>1, <2>2, QuietTold
  <2> QED BY <1>10, <2>3 DEF AllTold
<1>13. CASE users' # users
  <2>1. Born(n, i)
    BY <1>7, <1>13
  <2>2. users[n].by # i
    BY <1>3, <2>1, Nothing DEF Born, Maker
  <2>3. /\ invitations[i].status # "accepted" /\ spent[i] = 0
        /\ \A x \in Req : ~Giving(x, i)
    BY <1>3, <1>4, <2>2 DEF AllTold, Told, HasAllBut
  <2>4. ok \/ i \in amiss'
    BY <1>5, <1>13 DEF GoneWrong
  <2>5. \A m \in Username : users'[m].by = i => m = n
    <3>1. \A m \in Username : users[m].by = i => m = n
      BY <1>3, <1>4 DEF AllTold, Told
    <3> QED BY <1>3, <1>7, <3>1 DEF Same
  <2>6. \A x \in Req : x # h => ~Giving(x, i)'
    BY <1>11, <2>3 DEF Giving
  <2>7. ok => Giving(h, i)' /\ req'[h].todo = invitations[i].roles
    BY <1>8, <1>11 DEF Giving
  <2>8. ~ok => ~Giving(h, i)'
    BY <1>8, <1>11, Nothing DEF Giving
  <2>9. ok => spent'[i] = 1
    BY <1>3, <1>5, <2>3 DEF Typed, Types
  <2>10. ~ok => spent'[i] = 0
    BY <1>5, <2>3
  <2>11. users'[n].by = i /\ invitations' = invitations
    BY <1>2, <2>1 DEF Born
  <2>12. \A x \in Req : Giving(x, i)' => HasAllBut(i, req[x].todo)'
    BY <1>4, <2>6, <2>7, <2>8, <2>11 DEF HasAllBut
  <2>13. Told(i)'
    BY <1>3, <1>4, <2>3, <2>4, <2>5, <2>7, <2>9, <2>10, <2>11, <2>12 DEF Told
  <2> QED BY <1>10, <2>13 DEF AllTold
<1> QED BY <1>12, <1>13

LEMMA AcceptRoleTold ==
    ASSUME Typed, SentStays, AllTold, NEW h \in Req, AcceptRole(h)
    PROVE  AllTold'
<1>1. PICK i : i = req[h].inv
  OBVIOUS
<1>2. req[h].pc = "roles" /\ UNCHANGED <<invitations, spent>> /\ req[h] \in Request
  BY DEF AcceptRole, Typed, Types
<1>3. i \in Invite /\ invitations[i] \in Invitation /\ invitations[i] # None
  BY <1>1, <1>2, Handling DEF InvitePc
<1>4. PICK n : n = invitations[i].email
  OBVIOUS
<1>5. PICK x \in req[h].todo, ok \in BOOLEAN :
        /\ AssignRealmRole(n, x, ok)
        /\ IF ok THEN Goto(h, [req[h] EXCEPT !.todo = @ \ {x}]) /\ UNCHANGED amiss
           ELSE End(h) /\ GoneWrong(i)
  BY <1>1, <1>4 DEF AcceptRole
<1>6. n \in Username
  BY <1>3, <1>4 DEF Invitation
<1>7. Grows(i) /\ (ok => x \in users'[n].roles)
  BY <1>5, <1>6, AssignEffect DEF Typed
<1>8. PICK T : T = req[h].todo \ {x}
  OBVIOUS
<1>9. PICK r : /\ r = IF ok THEN [req[h] EXCEPT !.todo = T] ELSE Idle
               /\ req' = [req EXCEPT ![h] = r]
  BY <1>5, <1>8 DEF Goto, End
<1>10. ok => r.pc = "roles" /\ r.inv = i /\ r.todo = T
  BY <1>1, <1>2, <1>9, RequestPc DEF RolesRequest
<1>11. (r.pc \in InvitePc => r.inv = i) /\ amiss \subseteq amiss'
  BY <1>5, <1>9, <1>10, Nothing DEF InvitePc, GoneWrong
<1>12. ASSUME NEW j \in Invite, j # i PROVE Told(j)'
  <2>1. req' = [req EXCEPT ![h] = r]
    BY <1>9
  <2> QED BY <1>1, <1>2, <1>7, <1>11, <1>12, <2>1, HandlerTold DEF InvitePc
<1>13. req'[h] = r /\ \A y \in Req : y # h => req'[y] = req[y]
  <2>1. req' = [req EXCEPT ![h] = r] /\ Types
    BY <1>9 DEF Typed
  <2> QED BY <2>1, GotoEffect
<1>14. Giving(h, i) /\ HasAllBut(i, req[h].todo)
  BY <1>1, <1>2, <1>3 DEF Giving, AllTold, Told
<1>15. users[n].by = i
  BY <1>4, <1>14 DEF HasAllBut
<1>16. /\ users'[n].by = i /\ users[n].roles \subseteq users'[n].roles
       /\ \A m \in Username : users'[m].by = i => m = n
  <2>1. \A m \in Username : users[m].by = i => m = n
    BY <1>3, <1>4 DEF AllTold, Told
  <2>2. \A m \in Username : users'[m].by = i => users[m].by = i \/ Born(m, i)
    BY <1>3, <1>7, MadeStays
  <2>3. \A m \in Username : m # n => Same(m)
    BY <1>5, <1>6, AssignEffect DEF Typed
  <2> QED BY <1>3, <1>6, <1>7, <1>15, <2>1, <2>3, MadeStays DEF Same
<1>17. \A todo : HasAllBut(i, todo) => HasAllBut(i, todo)'
  BY <1>3, <1>7, HasAllStays
<1>18. ASSUME NEW y \in Req, Giving(y, i)' PROVE HasAllBut(i, req[y].todo)'
  <2>1. CASE y = h
    <3>1. ok
      BY <1>9, <1>13, <1>18, <2>1, Nothing DEF Giving
    <3>2. req'[y].todo = T
      BY <1>10, <1>13, <2>1, <3>1
    <3>3. invitations[i].roles \subseteq users'[n].roles \union T
      BY <1>4, <1>7, <1>8, <1>14, <1>16, <3>1 DEF HasAllBut
    <3> QED BY <1>2, <1>4, <1>16, <3>2, <3>3 DEF HasAllBut
  <2>2. CASE y # h
    <3>1. PICK todo : todo = req[y].todo
      OBVIOUS
    <3>2. HasAllBut(i, todo)'
      BY <1>3, <1>13, <1>17, <1>18, <2>2, <3>1 DEF Giving, AllTold, Told
    <3> QED BY <1>13, <2>2, <3>1, <3>2
  <2> QED BY <2>1, <2>2
<1>19. ok => Giving(h, i)'
  BY <1>10, <1>13 DEF Giving
<1>20. ~ok => i \in amiss'
  BY <1>5 DEF GoneWrong
<1>21. invitations[i].status = "accepted" => HasAllBut(i, {})'
  BY <1>3, <1>17 DEF AllTold, Told
<1>22. spent[i] # 0 => spent[i] = 1
  BY <1>3 DEF AllTold, Told
<1>23. Told(i)'
  BY <1>2, <1>3, <1>4, <1>16, <1>18, <1>19, <1>20, <1>21, <1>22 DEF Told
<1> QED BY <1>12, <1>23 DEF AllTold

(* A handler's last step: it writes a status, or fails to. *)
LEMMA SavedTold ==
    ASSUME Typed, SentStays, AllTold, NEW h \in Req, AcceptSave(h) \/ RevokeSave(h)
    PROVE  AllTold'
<1>1. PICK i : i = req[h].inv
  OBVIOUS
<1>2. /\ req[h].pc \in InvitePc /\ UNCHANGED <<spent, users>> /\ amiss \subseteq amiss'
      /\ req' = [req EXCEPT ![h] = Idle]
  BY DEF AcceptSave, RevokeSave, InvitePc, GoneWrong, End, Goto
<1>3. i \in Invite /\ invitations[i] \in Invitation /\ invitations[i] # None
  BY <1>1, <1>2, Handling
<1>4. Idle.pc \notin InvitePc /\ Idle.pc # "roles" /\ Types
  BY Nothing DEF InvitePc, Typed
<1>5. req'[h] = Idle /\ \A x \in Req : x # h => req'[x] = req[x]
  BY <1>2, <1>4, GotoEffect
<1>6. \/ /\ UNCHANGED invitations
         /\ req[h].pc = "roles" => i \in amiss'
      \/ /\ SetStatus(i, "accepted") /\ req[h].pc = "roles" /\ req[h].todo = {}
      \/ /\ SetStatus(i, "revoked") /\ req[h].pc = "revoke"
         /\ invitations[i].status = "accepted" => i \in amiss'
  BY <1>1 DEF AcceptSave, RevokeSave, GoneWrong
<1>7. \A j \in Invite : j # i => invitations'[j] = invitations[j]
  BY <1>3, <1>4, <1>6, StatusEffect
<1>8. ASSUME NEW j \in Invite, j # i PROVE Told(j)'
  <2>1. Grows(i)
    BY <1>2, <1>4, NoChange
  <2> QED BY <1>1, <1>2, <1>4, <1>7, <1>8, <2>1, HandlerTold
<1>9. invitations'[i] # None /\ invitations'[i].email = invitations[i].email
      /\ invitations'[i].roles = invitations[i].roles
  BY <1>3 DEF SentStays
<1>10. Told(i)
  BY <1>3 DEF AllTold
<1>11. \A todo : HasAllBut(i, todo) => HasAllBut(i, todo)'
  BY <1>2, <1>9 DEF HasAllBut
<1>12. ASSUME NEW y \in Req, Giving(y, i)' PROVE HasAllBut(i, req[y].todo)'
  <2>1. y # h
    BY <1>4, <1>5, <1>12 DEF Giving
  <2>2. PICK todo : todo = req[y].todo
    OBVIOUS
  <2>3. HasAllBut(i, todo)'
    BY <1>5, <1>10, <1>11, <1>12, <2>1, <2>2 DEF Giving, Told
  <2> QED BY <1>5, <2>1, <2>2, <2>3
<1>13. invitations'[i].status = "accepted" => HasAllBut(i, {})'
  <2>1. CASE SetStatus(i, "accepted") /\ req[h].pc = "roles" /\ req[h].todo = {}
    <3>1. Giving(h, i)
      BY <1>1, <2>1 DEF Giving
    <3>2. HasAllBut(i, {})
      BY <1>10, <2>1, <3>1 DEF Told
    <3> QED BY <1>11, <3>2
  <2>2. CASE SetStatus(i, "revoked")
    BY <1>3, <1>4, <2>2, StatusEffect
  <2>3. CASE UNCHANGED invitations
    BY <1>10, <1>11, <2>3 DEF Told
  <2> QED BY <1>6, <2>1, <2>2, <2>3
<1>14. ASSUME users[invitations[i].email].by = i, i \notin amiss'
       PROVE  invitations'[i].status = "accepted" \/ \E x \in Req : Giving(x, i)'
  <2>1. invitations[i].status = "accepted" \/ \E x \in Req : Giving(x, i)
    BY <1>2, <1>3, <1>10, <1>14 DEF Told
  <2>2. ASSUME NEW x \in Req, Giving(x, i), req[h].pc # "roles" PROVE Giving(x, i)'
    BY <1>5, <2>2 DEF Giving
  <2>3. CASE SetStatus(i, "accepted")
    BY <1>3, <1>4, <2>3, StatusEffect
  <2>4. CASE SetStatus(i, "revoked") /\ req[h].pc = "revoke"
             /\ (invitations[i].status = "accepted" => i \in amiss')
    BY <1>14, <2>1, <2>2, <2>4
  <2>5. CASE UNCHANGED invitations /\ (req[h].pc = "roles" => i \in amiss')
    BY <1>14, <2>1, <2>2, <2>5
  <2> QED BY <1>6, <2>3, <2>4, <2>5
<1>15. Told(i)'
  BY <1>2, <1>9, <1>10, <1>12, <1>13, <1>14 DEF Told
<1> QED BY <1>8, <1>15 DEF AllTold

LEMMA InviteTold ==
    ASSUME Typed, AllTold, InviteNext /\ UNCHANGED scimVars PROVE AllTold'
BY InviteTyped, CreatedTold, BegunTold, AcceptCreateTold, AcceptRoleTold, SavedTold
   DEF InviteNext

LEMMA ScimTold ==
    ASSUME Typed, AllTold, Bystands, UNCHANGED inviteVars PROVE AllTold'
<1>1. SentStays /\ UNCHANGED <<invitations, spent, amiss>>
  BY DEF SentStays, inviteVars
<1>2. ASSUME NEW i \in Invite PROVE Told(i)'
  <2>1. "scim" # i
    BY InvitesAssumption
  <2>2. \A h \in Req : Giving(h, i) \/ Giving(h, i)' => req'[h] = req[h]
    BY DEF Bystands, Apart, Giving, InvitePc
  <2> QED BY <1>1, <2>1, <2>2, ToldStays DEF AllTold, Bystands
<1> QED BY <1>2 DEF AllTold

(* And an invitation's handler does not disturb the directory's. *)
DirectoryPc == {"rotate"} \union ScimPc
ApartToo == \A x \in Req :
               req[x].pc \in DirectoryPc \/ req'[x].pc \in DirectoryPc => req'[x] = req[x]

LEMMA InviteBystands ==
    ASSUME Typed, Done, InviteNext PROVE Done' /\ ApartToo
<1> USE DEF Typed
<1>1. ASSUME ApartToo, \A n \in Username : Gentle(n) PROVE Done'
  <2>1. ASSUME NEW x \in Req PROVE Tells(req[x])'
    <3>1. PICK q : q = req'[x]
      OBVIOUS
    <3>2. CASE q.pc \notin ScimPc
      BY <3>1, <3>2, NotScim
    <3>3. CASE q.pc \in ScimPc
      <4>1. q = req[x]
        BY <1>1, <3>1, <3>3 DEF ApartToo, DirectoryPc
      <4>2. q \in Request /\ Tells(q)
        BY <4>1 DEF Types, Done
      <4>3. q.name \in Username
        BY <3>3, <4>2, RequestPc DEF ScimRequest
      <4>4. Tells(q)'
        BY <1>1, <4>2, <4>3, TellsStays
      <4> QED BY <3>1, <4>4
    <3> QED BY <3>2, <3>3
  <2> QED BY <2>1 DEF Done
<1>2. ASSUME NEW h \in Req, NEW r, req' = [req EXCEPT ![h] = r],
             req[h].pc \notin DirectoryPc, r.pc \notin DirectoryPc
      PROVE  ApartToo
  BY <1>2, GotoEffect DEF ApartToo
<1>3. Idle.pc \notin DirectoryPc /\ InvitePc \intersect DirectoryPc = {}
  BY Nothing DEF DirectoryPc, ScimPc, InvitePc
<1>4. UNCHANGED users => \A n \in Username : Gentle(n)
  BY DEF Gentle, Same
<1>5. ASSUME NEW i \in Invite, CreateInvitation(i) \/ Expire(i) PROVE Done' /\ ApartToo
  BY <1>1, <1>4, <1>5 DEF CreateInvitation, Expire, ApartToo
<1>6. ASSUME NEW h \in Req, NEW i \in Invite, AcceptBegin(h, i) \/ RevokeBegin(h, i)
      PROVE  Done' /\ ApartToo
  <2>1. PICK r : /\ r \in {[pc |-> "create", inv |-> i], [pc |-> "revoke", inv |-> i]}
                 /\ req' = [req EXCEPT ![h] = r] /\ req[h] = Idle
    BY <1>6 DEF AcceptBegin, RevokeBegin, Begin
  <2>2. r.pc \in InvitePc /\ UNCHANGED users
    BY <1>6, <2>1 DEF InvitePc, AcceptBegin, RevokeBegin
  <2>3. ApartToo
    BY <1>2, <1>3, <2>1, <2>2
  <2> QED BY <1>1, <1>4, <2>2, <2>3
<1>7. ASSUME NEW h \in Req, AcceptCreate(h) PROVE Done' /\ ApartToo
  <2>1. PICK i : i = req[h].inv
    OBVIOUS
  <2>2. req[h].pc = "create"
    BY <1>7 DEF AcceptCreate
  <2>3. i \in Invite /\ invitations[i].email \in Username
    BY <2>1, <2>2, Handling DEF InvitePc
  <2>4. PICK ok \in BOOLEAN : CreateUser(invitations[i].email, TRUE, i, ok)
    BY <1>7, <2>1 DEF AcceptCreate
  <2>5. \A n \in Username : Gentle(n)
    <3>1. Grows(i) /\ \A m \in Username : Same(m) \/ Born(m, i)
      BY <2>3, <2>4, CreateEffect DEF Maker
    <3> QED BY <3>1 DEF Gentle, Born
  <2>6. \/ req' = [req EXCEPT ![h] = Idle]
        \/ req' = [req EXCEPT ![h] = [pc |-> "roles", inv |-> i,
                                      todo |-> invitations[i].roles]]
    BY <1>7, <2>1 DEF AcceptCreate, Goto, End
  <2>7. ApartToo
    <3>1. PICK R : R = invitations[i].roles
      OBVIOUS
    <3>2. [pc |-> "roles", inv |-> i, todo |-> R].pc \notin DirectoryPc
      BY DEF DirectoryPc, ScimPc
    <3> QED BY <1>2, <1>3, <2>2, <2>6, <3>1, <3>2 DEF InvitePc
  <2> QED BY <1>1, <2>5, <2>7
<1>8. ASSUME NEW h \in Req, AcceptRole(h) PROVE Done' /\ ApartToo
  <2>1. PICK i : i = req[h].inv
    OBVIOUS
  <2>2. req[h].pc = "roles" /\ req[h] \in Request
    BY <1>8 DEF AcceptRole, Types
  <2>3. i \in Invite /\ invitations[i].email \in Username
    BY <2>1, <2>2, Handling DEF InvitePc
  <2>4. PICK x \in req[h].todo, ok \in BOOLEAN :
          /\ AssignRealmRole(invitations[i].email, x, ok)
          /\ IF ok THEN Goto(h, [req[h] EXCEPT !.todo = @ \ {x}]) ELSE End(h)
    BY <1>8, <2>1 DEF AcceptRole
  <2>5. \A n \in Username : Gentle(n)
    <3>1. \A m \in Username :
            Same(m) \/ (Grown(m) /\ users'[m].enabled = users[m].enabled)
      BY <2>3, <2>4, AssignEffect
    <3> QED BY <3>1 DEF Gentle
  <2>6. PICK r : /\ r = IF ok THEN [req[h] EXCEPT !.todo = @ \ {x}] ELSE Idle
                 /\ req' = [req EXCEPT ![h] = r]
    BY <2>4 DEF Goto, End
  <2>7. r.pc \notin DirectoryPc
    <3>1. ok => r.pc = "roles"
      BY <2>2, <2>6, RequestPc DEF RolesRequest
    <3> QED BY <1>3, <2>6, <3>1 DEF InvitePc
  <2>8. ApartToo
    BY <1>2, <1>3, <2>2, <2>6, <2>7 DEF InvitePc
  <2> QED BY <1>1, <2>5, <2>8
<1>9. ASSUME NEW h \in Req, AcceptSave(h) \/ RevokeSave(h) PROVE Done' /\ ApartToo
  <2>1. /\ req' = [req EXCEPT ![h] = Idle] /\ req[h].pc \in InvitePc
        /\ UNCHANGED users
    BY <1>9 DEF AcceptSave, RevokeSave, End, Goto, InvitePc
  <2> QED BY <1>1, <1>2, <1>3, <1>4, <2>1
<1> QED BY <1>5, <1>6, <1>7, <1>8, <1>9 DEF InviteNext

-----------------------------------------------------------------------------
(* Fourth layer: the connection.  Bearers are issued in order, so a fresh one
   is not among those replaced; and while no admin's request crossed another,
   what a Rotate is about to write back is what the connection maps. *)
Bearers ==
    /\ dead \subseteq 1..issued
    /\ conn.bearer \in 0..issued
    /\ conn.bearer \notin dead

Asked ==
    ~crossed =>
        /\ IF Enabled THEN \E m \in wanted : IF unbound THEN conn.mapping \in Parts(m)
                                             ELSE conn.mapping = m
           ELSE wanted = {}
        /\ \A h \in Req : req[h].pc = "rotate" =>
               Enabled /\ req[h].copy.mapping = conn.mapping

Connected == Bearers /\ Asked

LEMMA UpsertBearers ==
    ASSUME Types, Bearers, NEW c, Upsert(c), issued' \in Nat, issued' >= issued,
           c.bearer = 0 \/ (c.bearer = issued' /\ issued' = issued + 1)
    PROVE  Bearers'
<1>1. /\ issued \in Nat /\ dead \subseteq 1..issued
      /\ conn.bearer \in 0..issued /\ conn.bearer \notin dead
      /\ conn' = c /\ dead' = dead \union ({conn.bearer} \ {0, c.bearer})
  BY DEF Types, Bearers, Upsert
<1>2. PICK b : b = conn.bearer
  OBVIOUS
<1>3. dead' \subseteq 1..issued'
  <2>1. ASSUME NEW d \in dead' PROVE d \in Nat /\ 1 <= d /\ d <= issued
    <3>1. d \in dead \/ (d = b /\ d # 0)
      BY <1>1, <1>2
    <3> QED BY <1>1, <1>2, <3>1
  <2>2. \A d \in dead' : d \in Nat /\ 1 <= d /\ d <= issued
    BY <2>1
  <2>3. \A d \in dead' : d \in 1..issued'
    <3>1. issued \in Nat
      BY DEF Types
    <3> QED BY <2>2, <3>1
  <2> QED BY <2>3
<1>4. c.bearer \in 0..issued' /\ c.bearer \notin dead'
  BY <1>1, <1>2
<1> QED BY <1>1, <1>3, <1>4 DEF Bearers

LEMMA SameBearers ==
    ASSUME Types, Bearers, UNCHANGED <<conn, dead>>, issued' \in Nat, issued' >= issued
    PROVE  Bearers'
BY DEF Types, Bearers

(* Only the admin's requests write the connection or concern a Rotate. *)
LEMMA OthersConnected ==
    ASSUME Connected, UNCHANGED scimVars,
           \A h \in Req : req[h].pc = "rotate" \/ req'[h].pc = "rotate" => req'[h] = req[h]
    PROVE  Connected'
BY DEF Connected, Bearers, Asked, Enabled, scimVars

LEMMA AdminConnected ==
    ASSUME Typed, Connected,
           \/ Configure \/ Disable
           \/ \E h \in Req : RotateBegin(h) \/ RotateSave(h)
    PROVE  Connected'
<1>1. Types /\ Bearers /\ Asked /\ issued \in Nat
  BY DEF Typed, Types, Connected
<1>2. CASE Configure
  <2>0. PICK m \in Mapping : \E read \in Parts(m) :
         \/ /\ Upsert([bearer |-> issued', mapping |-> read])
            /\ wanted' = {m}
            /\ unbound' = (read # m)
            /\ crossed' = Rotating
         \/ /\ UNCHANGED <<conn, dead>> \/ Upsert([bearer |-> issued', mapping |-> read])
            /\ crossed' = TRUE
    BY <1>2 DEF Configure
  <2>1. PICK read \in Parts(m) :
         \/ /\ Upsert([bearer |-> issued', mapping |-> read])
            /\ wanted' = {m}
            /\ unbound' = (read # m)
            /\ crossed' = Rotating
         \/ /\ UNCHANGED <<conn, dead>> \/ Upsert([bearer |-> issued', mapping |-> read])
            /\ crossed' = TRUE
    BY <2>0
  <2>2. issued' = issued + 1 /\ req' = req
    BY <1>2 DEF Configure
  <2>3. PICK c : c = [bearer |-> issued', mapping |-> read]
    OBVIOUS
  <2>4. c.bearer = issued' /\ c.mapping = read /\ c # NoConn
    BY <1>1, <2>2, <2>3 DEF NoConn
  <2>5. Bearers'
    BY <1>1, <2>1, <2>2, <2>3, <2>4, UpsertBearers, SameBearers
  <2>6. Asked'
    <3>1. CASE crossed' = TRUE
      BY <3>1 DEF Asked
    <3>2. CASE conn' = c /\ wanted' = {m} /\ unbound' = (read # m) /\ crossed' = Rotating
      <4> SUFFICES ASSUME ~Rotating PROVE Asked'
        BY <3>2 DEF Asked
      <4>1. \A h \in Req : req'[h].pc # "rotate"
        BY <2>2 DEF Rotating
      <4>2. IF unbound' THEN conn'.mapping \in Parts(m) ELSE conn'.mapping = m
        BY <2>1, <2>4, <3>2
      <4> QED BY <2>4, <3>2, <4>1, <4>2 DEF Asked, Enabled
    <3> QED BY <2>1, <2>3, <3>1, <3>2 DEF Upsert
  <2> QED BY <2>5, <2>6 DEF Connected
<1>3. CASE Disable
  <2>1. UNCHANGED <<issued, req>>
    BY <1>3 DEF Disable
  <2>2. \/ Upsert(NoConn) /\ wanted' = {} /\ crossed' = Rotating
        \/ UNCHANGED <<conn, dead>> /\ crossed' = TRUE
    BY <1>3 DEF Disable
  <2>3. Bearers'
    BY <1>1, <2>1, <2>2, Nothing, UpsertBearers, SameBearers
  <2>4. Asked'
    <3>1. CASE crossed' = TRUE
      BY <3>1 DEF Asked
    <3>2. CASE conn' = NoConn /\ wanted' = {} /\ crossed' = Rotating
      BY <2>1, <3>2 DEF Asked, Enabled, Rotating
    <3> QED BY <2>2, <3>1, <3>2 DEF Upsert
  <2> QED BY <2>3, <2>4 DEF Connected
<1>4. ASSUME NEW h \in Req, RotateBegin(h) PROVE Connected'
  <2>1. PICK r : r = [pc |-> "rotate", copy |-> conn] /\ req' = [req EXCEPT ![h] = r]
    BY <1>4 DEF RotateBegin, Begin
  <2>2. UNCHANGED <<conn, issued, dead, wanted, unbound, crossed>> /\ Enabled
    BY <1>4 DEF RotateBegin, scimVars
  <2>3. Bearers'
    BY <1>1, <2>2, SameBearers
  <2>4. r.copy = conn
    BY <2>1
  <2>5. req'[h] = r /\ \A x \in Req : x # h => req'[x] = req[x]
    BY <1>1, <2>1, GotoEffect
  <2>6. Asked'
    BY <1>1, <2>2, <2>4, <2>5 DEF Asked, Enabled
  <2> QED BY <2>3, <2>6 DEF Connected
<1>5. ASSUME NEW h \in Req, RotateSave(h) PROVE Connected'
  <2>1. PICK c : c = [req[h].copy EXCEPT !.bearer = issued']
    OBVIOUS
  <2>2. /\ issued' = issued + 1 /\ req[h].pc = "rotate"
        /\ req' = [req EXCEPT ![h] = Idle] /\ UNCHANGED <<wanted, unbound>>
        /\ \/ Upsert(c) /\ UNCHANGED crossed
           \/ (UNCHANGED <<conn, dead>> \/ Upsert(c)) /\ crossed' = TRUE
    BY <1>5, <2>1 DEF RotateSave, End, Goto
  <2>3. req[h].copy \in Conn
    BY <1>1, <2>2, RequestPc DEF Types
  <2>4. c.bearer = issued' /\ c.mapping = req[h].copy.mapping /\ c # NoConn
    BY <1>1, <2>1, <2>2, <2>3 DEF Conn, NoConn
  <2>5. Bearers'
    BY <1>1, <2>2, <2>4, UpsertBearers, SameBearers
  <2>6. req'[h] = Idle /\ \A x \in Req : x # h => req'[x] = req[x]
    BY <1>1, <2>2, GotoEffect
  <2>7. CASE crossed' = TRUE
    BY <2>5, <2>7 DEF Connected, Asked
  <2>8. CASE conn' = c /\ UNCHANGED crossed
    <3>1. Asked'
      BY <1>1, <2>2, <2>4, <2>6, <2>8, Nothing DEF Asked, Enabled
    <3> QED BY <2>5, <3>1 DEF Connected
  <2> QED BY <2>2, <2>7, <2>8 DEF Upsert
<1> QED BY <1>2, <1>3, <1>4, <1>5

LEMMA ScimConnected ==
    ASSUME Typed, Done, Connected, ScimNext, UNCHANGED inviteVars PROVE Connected'
<1>1. ASSUME NEW h \in Req,
             \/ \E b \in 1..MaxBearers : ScimBegin(h, b)
             \/ FindUser(h) \/ MakeUser(h) \/ SetUser(h) \/ PatchUser(h)
             \/ PatchEnd(h) \/ ReadMapping(h) \/ AssignGroup(h) \/ AssignDone(h) \/ Touch(h)
      PROVE  Connected'
  <2>1. UNCHANGED scimVars
    BY <1>1 DEF ScimBegin, FindUser, MakeUser, SetUser, PatchUser, PatchEnd, ReadMapping,
                AssignGroup, AssignDone, Touch
  <2>2. RotateApart
    BY <1>1, ScimBeginBystands, ScimReadsBystand, ScimWritesBystand
  <2> QED BY <2>1, <2>2, OthersConnected DEF RotateApart
<1> QED BY <1>1, AdminConnected DEF ScimNext

-----------------------------------------------------------------------------
(* The inductive invariant: the four layers. *)
AInv == Typed /\ Done /\ AllTold /\ Connected

LEMMA InitAInv == Init => AInv
<1> SUFFICES ASSUME Init PROVE AInv
  OBVIOUS
<1> USE DEF Init, UsersInit, InviteInit, ScimInit
<1>1. \A h \in Req : req[h] = Idle /\ req[h].pc = "idle"
  BY Nothing
<1>2. Typed
  BY <1>1, Nothing DEF Typed, Types, Invited, InvitePc
<1>3. Done
  BY <1>1 DEF Done, Tells, Settled, ScimPc
<1>4. AllTold
  <2>1. \A i \in Invite : invitations[i] = None /\ spent[i] = 0
    OBVIOUS
  <2>2. \A n \in Username, i \in Invite : users[n].by # i
    BY Nothing DEF Maker
  <2> QED BY <1>1, <2>1, <2>2, Nothing DEF AllTold, Told, Giving
<1>5. Connected
  BY <1>1, Nothing DEF Connected, Bearers, Asked, Enabled
<1> QED BY <1>2, <1>3, <1>4, <1>5 DEF AInv

LEMMA AInvStep == AInv /\ [Next]_vars => AInv'
<1> SUFFICES ASSUME Typed, Done, AllTold, Connected, [Next]_vars PROVE AInv'
  BY DEF AInv
<1>1. CASE InviteNext /\ UNCHANGED scimVars
  <2>1. Typed' /\ AllTold'
    BY <1>1, InviteTyped, InviteTold
  <2>2. Done' /\ ApartToo
    BY <1>1, InviteBystands
  <2>3. Connected'
    BY <1>1, <2>2, OthersConnected DEF ApartToo, DirectoryPc
  <2> QED BY <2>1, <2>2, <2>3 DEF AInv
<1>2. CASE ScimNext /\ UNCHANGED inviteVars
  <2>1. Bystands
    BY <1>2, ScimBystands
  <2>2. AllTold' /\ Connected'
    BY <1>2, <2>1, ScimTold, ScimConnected
  <2> QED BY <2>1, <2>2 DEF AInv, Bystands
<1>3. CASE UNCHANGED vars
  <2> USE <1>3 DEF vars, inviteVars, scimVars
  <2>1. Typed'
    BY DEF Typed, Types, Invited
  <2>2. Done'
    BY DEF Done, Tells, Settled, Missing, Mapped
  <2>3. AllTold'
    BY DEF AllTold, Told, Giving, HasAllBut
  <2>4. Connected'
    BY DEF Connected, Bearers, Asked, Enabled
  <2> QED BY <2>1, <2>2, <2>3, <2>4 DEF AInv
<1> QED BY <1>1, <1>2, <1>3 DEF Next

(* The layers hold throughout, for any number of requests on the realm
   (invites/handlers.go, scimbridge/server.go). *)
THEOREM Invariance == Spec => []AInv
BY InitAInv, AInvStep, PTL DEF Spec

(* However many requests present a token at once, and whatever fails, it makes
   at most one user (invites/handlers.go:138-147). *)
THEOREM TokensMakeOneUser == Spec => []SingleUse
<1>1. AInv => SingleUse
  BY DEF AInv, AllTold, Told, SingleUse
<1> QED BY Invariance, <1>1, PTL

(* An invitation nobody works on, and nothing went wrong with, is accepted if
   and only if its user exists, who then has every role it promised
   (invites/handlers.go:144-156). *)
THEOREM StatusAlwaysTellsAccount == Spec => []StatusTellsAccount
<1>1. AInv => StatusTellsAccount
  <2> SUFFICES ASSUME AInv, NEW i \in Invite \ amiss, invitations[i] # None,
                      \A h \in Req : ~HandledBy(h, i)
               PROVE  LET u == users[invitations[i].email] IN
                        /\ u.by = i <=> invitations[i].status = "accepted"
                        /\ u.by = i => invitations[i].roles \subseteq u.roles
    BY DEF StatusTellsAccount
  <2>1. \A h \in Req : ~Giving(h, i)
    BY DEF HandledBy, Giving
  <2>2. Told(i)
    BY DEF AInv, AllTold
  <2> QED BY <2>1, <2>2 DEF Told, HasAllBut
<1> QED BY Invariance, <1>1, PTL

(* No bearer that was replaced or deleted opens the realm again
   (scimbridge/server.go:100-113). *)
THEOREM ReplacedBearersStayDead == Spec => []ReplacedStaysReplaced
<1>1. AInv => ReplacedStaysReplaced
  BY DEF AInv, Connected, Bearers, ReplacedStaysReplaced
<1> QED BY Invariance, <1>1, PTL

(* A SCIM request that is about to be answered with success has been carried
   out, unless it was overtaken, dropped an error or was a PATCH none of whose
   operations was read (scimbridge/server.go:190-287). *)
THEOREM SuccessIsAlwaysDone == Spec => []SuccessIsDone
<1>1. AInv => SuccessIsDone
  <2> SUFFICES ASSUME AInv, NEW h \in Req, req[h].pc = "touch",
                      ~req[h].overtaken, ~req[h].ignored, req[h].asked # "unread"
               PROVE  LET u == users[req[h].name] IN
                        /\ u # NoUser
                        /\ u.enabled = (req[h].asked = "on")
                        /\ \A g \in req[h].groups :
                              Mapped(req[h].copy, g) => req[h].copy.mapping[g] \in u.roles
    BY DEF SuccessIsDone
  <2>1. Tells(req[h]) /\ Settled(req[h])
    BY DEF AInv, Done, Settled
  <2>2. /\ users[req[h].name] \in User /\ users[req[h].name].enabled = req[h].active
        /\ req[h].active <=> req[h].asked = "on"
    BY <2>1 DEF Tells, ScimPc
  <2>3. users[req[h].name].enabled = (req[h].asked = "on")
    BY <2>2 DEF User
  <2> QED BY <2>1, <2>2, <2>3, Nothing DEF Tells, Missing
<1> QED BY Invariance, <1>1, PTL

(* The connection is what the last admin asked for, or the part of it that was
   read of a body that does not bind, unless requests crossed
   (scimbridge/server.go:68-158). *)
THEOREM ConnectionAlwaysAsAsked == Spec => []ConnectionAsAsked
<1>1. AInv => ConnectionAsAsked
  BY DEF AInv, Connected, Asked, ConnectionAsAsked
<1> QED BY Invariance, <1>1, PTL
=============================================================================
