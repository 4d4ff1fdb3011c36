----------------------------- MODULE MCKeyCache -----------------------------
(* Requests of one issuer around a rotation of its keys. *)
EXTENDS KeyCache, TLC

Symmetry == Permutations(Request) \union Permutations(Kid)
=============================================================================
