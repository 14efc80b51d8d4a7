----------------------------- MODULE MCShotEditor -----------------------------
(* Model values and symmetry for checking ShotEditor with TLC.             *)
EXTENDS ShotEditor, TLC

ObjectSymmetry == Permutations(Shapes)
=============================================================================
