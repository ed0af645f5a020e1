---------------------------- MODULE MCLeaderboard ----------------------------
(***************************************************************************)
(* Small instances of Leaderboard for TLC.                                 *)
(***************************************************************************)
EXTENDS Leaderboard, TLC

CallerSymmetry == Permutations(Callers)
=============================================================================
