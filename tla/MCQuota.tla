------------------------------ MODULE MCQuota ------------------------------
(* Two replicas whose clocks differ or are set, and two users of two
   organisations that use the same ids. *)
EXTENDS Quota, TLC

Symmetry == Permutations(Replica) \union Permutations(Org) \union Permutations(User)
                \union Permutations(Call)
=============================================================================
