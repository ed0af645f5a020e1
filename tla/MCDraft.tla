------------------------------ MODULE MCDraft ------------------------------
(***************************************************************************)
(* Small instances of Draft for TLC.                                       *)
(***************************************************************************)
EXTENDS Draft
=============================================================================
