------------------------------- MODULE MCPool -------------------------------
(* Instances of Pool for TLC: interchangeable instances and callers. *)
EXTENDS Pool, TLC

Symmetry == Permutations(Inst) \union Permutations(Caller)
=============================================================================
