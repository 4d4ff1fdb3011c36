------------------------------ MODULE Accounts ------------------------------
(***************************************************************************)
(* Invitations and directory sync at work on the users of one realm.       *)
(***************************************************************************)
EXTENDS Invites, ScimBridge

vars == <<users, req, reqs, faults, inviteVars, scimVars>>

Init == UsersInit /\ InviteInit /\ ScimInit

Next ==
    \/ InviteNext /\ UNCHANGED scimVars
    \/ ScimNext /\ UNCHANGED inviteVars

Spec == Init /\ [][Next]_vars
=============================================================================
