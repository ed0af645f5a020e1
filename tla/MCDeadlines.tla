----------------------------- MODULE MCDeadlines -----------------------------
(***************************************************************************)
(* Small instances of Deadlines for TLC.                                   *)
(***************************************************************************)
EXTENDS Deadlines
=============================================================================
