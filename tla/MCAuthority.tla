----------------------------- MODULE MCAuthority -----------------------------
(***************************************************************************)
(* Small instances of Authority for TLC.  Holders are interchangeable.     *)
(***************************************************************************)
EXTENDS Authority, TLC

HolderSymmetry == Permutations(Holders)
=============================================================================
