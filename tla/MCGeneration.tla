---------------------------- MODULE MCGeneration ----------------------------
(***************************************************************************)
(* Instances of Generation.  Content 1 is the original and 2 what an       *)
(* import writes or, where there are edits, what the user writes; input 1  *)
(* exists at first, a second one does not.                                 *)
(***************************************************************************)
EXTENDS Generation, TLC

ProcSymmetry == Permutations(Procs)
=============================================================================
