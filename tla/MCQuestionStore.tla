-------------------------- MODULE MCQuestionStore --------------------------
(***************************************************************************)
(* QuestionStore for TLC.                                                  *)
(***************************************************************************)
EXTENDS QuestionStore, TLC

OneKey == <<"list:1">>
TwoKeys == <<"string:1", "list:1">>
Symmetry == Permutations(Threads) \cup Permutations(Replicas) \cup Permutations(Contents)
=============================================================================
