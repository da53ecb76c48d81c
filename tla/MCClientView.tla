---------------------------- MODULE MCClientView ----------------------------
(***************************************************************************)
(* ClientView for TLC: three fields of degree 1 and one of degree 2, so    *)
(* that two of three are drawn.  The third is in a later hash than the one *)
(* of degree 2, as list:1 is listed after string:2.                        *)
(***************************************************************************)
EXTENDS ClientView, TLC

MCDegreeOf == [f \in 1..4 |-> IF f <= 3 THEN 1 ELSE 2]
MCTableOf == <<1, 1, 3, 2>>
Symmetry == Permutations(Contents)
=============================================================================
