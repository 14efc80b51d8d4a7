---------------------------- MODULE MCSceneTracker ----------------------------
(* Instances of SceneTracker for TLC. *)
EXTENDS SceneTracker, TLC

IdNumbers == 1 .. 9
===============================================================================
