----------------------------- MODULE MCTenants -----------------------------
(* Instances of Tenants for TLC: interchangeable request goroutines. *)
EXTENDS Tenants, TLC

Symmetry == Permutations(Op)
=============================================================================
