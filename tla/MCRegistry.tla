----------------------------- MODULE MCRegistry -----------------------------
(* Instances of Registry for TLC. Objects, users and request goroutines are
   interchangeable; slugs are not, because `order' lists them. *)
EXTENDS Registry, TLC

Symmetry == Permutations(Inst) \union Permutations(User) \union Permutations(Proc)
=============================================================================
