--------------------------- MODULE MCToolWrites ---------------------------
(***************************************************************************)
(* One request of every write tool over an object that others change       *)
(* twice; a checklist of at most two items out of three.                   *)
(***************************************************************************)
EXTENDS ToolWrites, TLC

ItemSymmetry == Permutations(Items)

=============================================================================
