----------------------------- MODULE MCImporter -----------------------------
(***************************************************************************)
(* Importer for TLC: three questions, two of them of one key, and as many  *)
(* fields.                                                                 *)
(***************************************************************************)
EXTENDS Importer, TLC

CONSTANTS k1, k2

KeysDef == {k1, k2}
QuestionsDef == <<k1, k1, k2>>
=============================================================================
