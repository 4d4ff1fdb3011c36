----------------------------- MODULE ScimBridge -----------------------------
(***************************************************************************)
(* One tenant's directory sync (control-plane/internal/scimbridge): the    *)
(* admin's operations on its connection, and the SCIM requests its bearer  *)
(* lets through to the realm's users.  A bearer is a number, issued once;  *)
(* the table has its hash.  List and read endpoints change nothing.        *)
(***************************************************************************)
EXTENDS RealmUsers

CONSTANTS
    Group,        \* groups a directory may name
    Mapping,      \* group-to-role maps an admin may configure
    MaxBearers    \* bound on the bearers issued

VARIABLES
    conn,      \* the tenant's row of scim_connections
    issued,    \* bearers issued so far
    dead,      \* ghost: bearers that were replaced or deleted
    wanted,    \* ghost: the mapping the last admin asked for, if any
    unbound,   \* ghost: ... in a body whose error Configure dropped
    crossed    \* ghost: a Rotate overlapped another admin's write since then,
               \* or the error of a write was dropped

scimVars == <<conn, issued, dead, wanted, unbound, crossed>>

NoConn == [bearer |-> 0]
Enabled == conn # NoConn

ScimInit ==
    /\ conn = NoConn
    /\ issued = 0
    /\ dead = {}
    /\ wanted = {}
    /\ unbound = FALSE
    /\ crossed = FALSE

(* Upsert: the bearer that was in the row is replaced. *)
Upsert(c) == conn' = c /\ dead' = dead \union ({conn.bearer} \ {0, c.bearer})
Rotating == \E h \in Req : req[h].pc = "rotate"

-----------------------------------------------------------------------------
(* What is left of a mapping in a body that does not bind: the entries that
   were read before the error, or none. *)
Parts(m) == {[g \in G |-> m[g]] : G \in SUBSET DOMAIN m}

(* Configure: one upsert with a fresh bearer and the mapping of the body, or
   what is left of it, for the error of Bind is dropped; when the upsert fails
   the admin gets an error, and no bearer. *)
Configure ==
    /\ Count
    /\ issued < MaxBearers
    /\ issued' = issued + 1
    /\ \E m \in Mapping : \E read \in Parts(m) :
         LET c == [bearer |-> issued', mapping |-> read] IN
         \/ /\ Upsert(c)
            /\ wanted' = {m}
            /\ unbound' = (read # m)
            /\ crossed' = Rotating
            /\ UNCHANGED faults
         \/ /\ Fault
            /\ UNCHANGED <<conn, dead>> \/ Upsert(c)
            /\ crossed' = TRUE
            /\ UNCHANGED <<wanted, unbound>>
    /\ UNCHANGED <<users, req>>

(* Rotate reads the connection ... *)
RotateBegin(h) ==
    /\ Enabled
    /\ Begin(h, [pc |-> "rotate", copy |-> conn])
    /\ UNCHANGED <<scimVars, users, faults>>

(* ... and writes all of it back with a fresh bearer: as an insert, if it was
   deleted in between. *)
RotateSaveMutBare(h) ==
    /\ req[h].pc = "rotate"
    /\ issued < MaxBearers
    /\ issued' = issued + 1
    /\ Upsert([bearer |-> issued', mapping |-> <<>>])
    /\ End(h)
    /\ UNCHANGED <<wanted, unbound, crossed, users, faults>>
RotateSave(h) ==
    /\ req[h].pc = "rotate"
    /\ issued < MaxBearers
    /\ issued' = issued + 1
    /\ LET c == [req[h].copy EXCEPT !.bearer = issued'] IN
         \/ Upsert(c) /\ UNCHANGED <<crossed, faults>>
         \/ Fault /\ (UNCHANGED <<conn, dead>> \/ Upsert(c)) /\ crossed' = TRUE
    /\ End(h)
    /\ UNCHANGED <<wanted, unbound, users>>

(* Disable deletes the row. It answers 204 also when that failed. *)
Disable ==
    /\ Count
    /\ \/ /\ Upsert(NoConn)
          /\ wanted' = {}
          /\ unbound' = FALSE
          /\ crossed' = Rotating
          /\ UNCHANGED faults
       \/ Fault /\ crossed' = TRUE /\ UNCHANGED <<conn, dead, wanted, unbound>>
    /\ UNCHANGED <<issued, users, req>>

-----------------------------------------------------------------------------
(* How a request can put `active': left out or a Boolean for a user, any JSON
   value in a PATCH, of which "text" stands for the text `true' in upper or lower
   case, and "other" for everything but that and Booleans. *)
UserActive == {"absent", "true", "false"}
PatchActive == {"true", "text", "false", "other"}

activeOrTrue(v) == v # "false"
truthy(v) == v \in {"true", "text"}

(* What the directory asks for: a user is to be enabled if `active' is true, in
   either form, or left out. *)
Ask(v) == IF v \in {"absent", "true", "text"} THEN "on" ELSE "off"

(* scimAuth: the bearer must be the connection's. What the request asks for is
   the directory's choice; that of a PATCH is read operation by operation. *)
Body(pc, n, on, ask, G) ==
    [pc |-> pc, name |-> n, active |-> on, asked |-> ask, groups |-> G, copy |-> conn,
     todo |-> {}, ignored |-> FALSE, overtaken |-> FALSE]
ScimBegin(h, b) ==
    /\ Enabled /\ conn.bearer = b
    /\ \E n \in Username :
         \/ \E v \in UserActive, G \in SUBSET Group, pc \in {"find", "set"} :
                Begin(h, Body(pc, n, activeOrTrue(v), Ask(v), G))
         \/ Begin(h, Body("patch", n, FALSE, "unread", {}))
    /\ UNCHANGED <<scimVars, users, faults>>

(* The request goes on to r. If it has set its user, every other request on
   that user is overtaken. *)
About(h, n) == req[h].pc \in {"find", "make", "set", "patch", "groups", "assign", "touch"}
               /\ req[h].name = n
Proceed(h, r) ==
    /\ req' = [x \in Req |->
                  IF x = h THEN r
                  ELSE IF users' # users /\ About(x, req[h].name)
                  THEN [req[x] EXCEPT !.overtaken = TRUE]
                  ELSE req[x]]
    /\ UNCHANGED reqs

(* CreateUser looks the name up, and creates the user or sets it. *)
FindUser(h) ==
    /\ req[h].pc = "find"
    /\ \/ /\ Goto(h, [req[h] EXCEPT !.pc = IF Exists(req[h].name) THEN "set" ELSE "make"])
          /\ UNCHANGED faults
       \/ Fault /\ End(h)
    /\ UNCHANGED <<scimVars, users>>

MakeUser(h) ==
    /\ req[h].pc = "make"
    /\ \E ok \in BOOLEAN :
         /\ CreateUser(req[h].name, req[h].active, "scim", ok)
         /\ Proceed(h, IF ok THEN [req[h] EXCEPT !.pc = "groups"] ELSE Idle)
    /\ UNCHANGED scimVars

(* CreateUser and ReplaceUser drop the error of setting the user ... *)
SetUser(h) ==
    /\ req[h].pc = "set"
    /\ \E ok \in BOOLEAN :
         /\ SetUserEnabled(req[h].name, req[h].active, ok)
         /\ Proceed(h, [req[h] EXCEPT !.pc = "groups", !.overtaken = FALSE, !.ignored = ~ok])
    /\ UNCHANGED scimVars

(* ... PatchUser does not. An operation that replaces `active' sets the user
   when it is read, and an error ends the request, with what the operations
   before have done. Any other operation is passed over: it has no step of its
   own, ... *)
PatchUserMutDrop(h) ==
    /\ req[h].pc = "patch"
    /\ \E v \in PatchActive, ok \in BOOLEAN :
         /\ SetUserEnabled(req[h].name, truthy(v), ok)
         /\ Proceed(h, [req[h] EXCEPT !.active = truthy(v), !.asked = Ask(v),
                                      !.overtaken = FALSE])
    /\ UNCHANGED scimVars
PatchUser(h) ==
    /\ req[h].pc = "patch"
    /\ \E v \in PatchActive, ok \in BOOLEAN :
         /\ SetUserEnabled(req[h].name, truthy(v), ok)
         /\ Proceed(h, IF ok THEN [req[h] EXCEPT !.active = truthy(v), !.asked = Ask(v),
                                                !.overtaken = FALSE]
                       ELSE Idle)
    /\ UNCHANGED scimVars

(* ... also when the request has no operations but such. *)
PatchEnd(h) ==
    /\ req[h].pc = "patch"
    /\ Goto(h, [req[h] EXCEPT !.pc = "touch"])
    /\ UNCHANGED <<scimVars, users, faults>>

-----------------------------------------------------------------------------
(* applyGroups reads the connection again: without one, or when that fails, no
   group is mapped. *)
Mapped(c, g) == c # NoConn /\ g \in DOMAIN c.mapping

ReadMapping(h) ==
    /\ req[h].pc = "groups"
    /\ \/ /\ Goto(h, [req[h] EXCEPT !.pc = "assign", !.copy = conn,
                     !.todo = {conn.mapping[g] : g \in {x \in req[h].groups : Mapped(conn, x)}}])
          /\ UNCHANGED faults
       \/ Fault /\ Goto(h, [req[h] EXCEPT !.pc = "assign", !.copy = NoConn, !.ignored = TRUE])
    /\ UNCHANGED <<scimVars, users>>

(* The mapped roles are assigned; errors are dropped. *)
AssignGroup(h) ==
    /\ req[h].pc = "assign"
    /\ \E r \in req[h].todo, ok \in BOOLEAN :
         /\ AssignRealmRole(req[h].name, r, ok)
         /\ Goto(h, [req[h] EXCEPT !.todo = @ \ {r}, !.ignored = @ \/ ~ok])
    /\ UNCHANGED scimVars

AssignDone(h) ==
    /\ req[h].pc = "assign" /\ req[h].todo = {}
    /\ Goto(h, [req[h] EXCEPT !.pc = "touch"])
    /\ UNCHANGED <<scimVars, users, faults>>

(* Touch sets last_sync_at of the row, if there still is one, and nothing else
   of it; then the request is answered with success. *)
TouchMutWriteBack(h) ==
    /\ req[h].pc = "touch"
    /\ IF req[h].copy # NoConn THEN Upsert(req[h].copy) ELSE UNCHANGED <<conn, dead>>
    /\ End(h)
    /\ UNCHANGED <<issued, wanted, unbound, crossed, users, faults>>
Touch(h) ==
    /\ req[h].pc = "touch"
    /\ End(h)
    /\ UNCHANGED <<scimVars, users, faults>>

ScimNext ==
    \/ Configure \/ Disable
    \/ \E h \in Req :
         \/ RotateBegin(h) \/ RotateSave(h)
         \/ \E b \in 1..MaxBearers : ScimBegin(h, b)
         \/ FindUser(h) \/ MakeUser(h) \/ SetUser(h)
         \/ PatchUser(h) \/ PatchEnd(h)
         \/ ReadMapping(h) \/ AssignGroup(h) \/ AssignDone(h) \/ Touch(h)

-----------------------------------------------------------------------------
(* A bearer that was rotated, replaced or deleted never opens the realm again,
   although requests keep what they read of the row and Rotate writes it back
   (server.go:100-113, 158). *)
ReplacedStaysReplaced == conn.bearer \notin dead

(* A SCIM request about to be answered with success has been carried out: its
   user has the mapped roles and is as enabled as it asked last, unless another
   request set it since or the code dropped an error (server.go:190, 206, 287).
   A PATCH, on which the removal of access rests, drops none; but when none of
   its operations replaces `active' it has done nothing (`unread',
   server.go:230-244), and is answered with success all the same. *)
SuccessIsDone ==
    \A h \in Req :
        req[h].pc = "touch" /\ ~req[h].overtaken /\ ~req[h].ignored
                /\ req[h].asked # "unread" =>
            LET u == users[req[h].name] IN
            /\ u # NoUser
            /\ u.enabled = (req[h].asked = "on")
            /\ \A g \in req[h].groups :
                  Mapped(req[h].copy, g) => req[h].copy.mapping[g] \in u.roles

(* The connection is what the last admin asked for: there, with that mapping,
   or deleted; unless a Rotate overlapped the request, which then writes back
   what it had read, or a write's error was not reported. From a body that does
   not bind (server.go:71) some or all groups may be missing, in which case
   none is mapped to another role than asked. *)
ConnectionAsAsked ==
    ~crossed =>
        IF Enabled THEN \E m \in wanted : IF unbound THEN conn.mapping \in Parts(m)
                                          ELSE conn.mapping = m
        ELSE wanted = {}
=============================================================================
