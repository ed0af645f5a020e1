--------------------------- MODULE MCGameExecution ---------------------------
(***************************************************************************)
(* Small instances of GameExecution for TLC.  Players are interchangeable. *)
(***************************************************************************)
EXTENDS GameExecution, TLC

PlayerSymmetry == Permutations(Players)
=============================================================================
