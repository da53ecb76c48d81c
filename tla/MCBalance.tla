----------------------------- MODULE MCBalance -----------------------------
(***************************************************************************)
(* Balance for TLC.  Three ports on a ring of six positions: ports 1 and 2 *)
(* share the position of their first virtual node, which is where port 3   *)
(* has its real node, and the first virtual node of port 3 is where port 2 *)
(* has its real one.                                                       *)
(***************************************************************************)
EXTENDS Balance, TLC

MCHashes == 0..5
Places(p) == CASE p = 1 -> (0 :> 1 @@ 1 :> 3 @@ 2 :> 4)
               [] p = 2 -> (0 :> 2 @@ 1 :> 3 @@ 2 :> 0)
               [] p = 3 -> (0 :> 3 @@ 1 :> 2 @@ 2 :> 5)
MCHashOf == [p \in Ports |-> [i \in 0..VNodes |-> Places(p)[i]]]
Symmetry == Permutations(Servers)
=============================================================================
