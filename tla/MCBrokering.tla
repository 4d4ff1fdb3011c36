---------------------------- MODULE MCBrokering ----------------------------
(* Three callers of the admin client around the creation of a realm and the
   configuration of one identity provider in it. *)
EXTENDS Brokering, TLC

Symmetry == Permutations(Caller) \union Permutations(Cfg) \union Permutations(Secret)
=============================================================================
