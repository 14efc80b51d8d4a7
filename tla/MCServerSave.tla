---------------------------- MODULE MCServerSave ----------------------------
(* Instances of ServerSave for TLC.                                        *)
EXTENDS ServerSave, TLC

\* Attempts are interchangeable: only equality of their names is used.
SaveSymmetry == Permutations(Saves)
=============================================================================
