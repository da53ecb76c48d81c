--------------------------- MODULE MCUserService ---------------------------
(***************************************************************************)
(* UserService for TLC: a replica with one context that reads it; one      *)
(* account that both stores keep as it is, and one whose text either may   *)
(* turn into the other.                                                    *)
(***************************************************************************)
EXTENDS UserService, TLC

CONSTANTS r1, x1, plain, odd

ReplicasDef == {r1}
ContextsDef == {x1}
ServesDef == x1 :> r1

AccountsDef == {plain, odd}
TextDef == plain :> {plain} @@ odd :> {plain, odd}

Symmetry == Permutations(Threads) \cup Permutations(Conns)
=============================================================================
