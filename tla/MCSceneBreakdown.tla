--------------------------- MODULE MCSceneBreakdown ---------------------------
(* Instances of SceneBreakdown for TLC. *)
EXTENDS SceneBreakdown, TLC

CONSTANTS bob, rope, knife

Departments == (bob :> "Cast") @@ (rope :> "Props") @@ (knife :> "Props")

PropsAlike == Permutations({rope, knife})
===============================================================================
