----------------------------- MODULE MCFileSave -----------------------------
(* Instances of FileSave for TLC.                                          *)
EXTENDS FileSave, TLC

\* Attempts are interchangeable: only equality of their names is used.
SaveSymmetry == Permutations(Saves)
=============================================================================
