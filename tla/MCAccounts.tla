----------------------------- MODULE MCAccounts -----------------------------
(* One person, who may be invited twice, with a role the realm has and one it
   may not have, and a group that an admin maps to either. *)
EXTENDS Accounts, TLC

CONSTANTS ann, tools, ops, group

MCOffer == {[email |-> ann, roles |-> {tools}], [email |-> ann, roles |-> {tools, ops}]}
MCMapping == {group :> tools, group :> ops}

Symmetry == Permutations(Req) \union Permutations(Invite)
=============================================================================
