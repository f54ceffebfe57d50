------------------------------ MODULE MCLevels ------------------------------
(***************************************************************************)
(* Small instances of Levels.  The parameters are interchangeable.         *)
(***************************************************************************)
EXTENDS Levels, TLC

ParamSymmetry == Permutations(Params)
=============================================================================
