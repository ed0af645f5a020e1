------------------------------ MODULE Ownership ------------------------------
(***************************************************************************)
(* The ownership of a tournament's execution as a transaction sees it that *)
(* holds the tournament row: which epoch is the latest, whether it is in   *)
(* force, and which process, if one is left, owns it.  There is no clock   *)
(* here and no lease: an epoch simply ends, once and for all.              *)
(*                                                                         *)
(* Module Authority implements this; GameExecution and Presence, whose     *)
(* commands run under the fences of these epochs, have an authority of     *)
(* their own that does nothing else.                                       *)
(***************************************************************************)
EXTENDS Integers

CONSTANTS
  Holders,  \* The service processes that may own the execution.
  Nobody    \* The owner of an epoch whose process does not run any more.

VARIABLES
  epoch,    \* Number of the latest epoch, 0 before the first.
  holder,   \* The process that owns it.
  live      \* Whether it is in force: a fence on it passes.

ovars == <<epoch, holder, live>>

OInit ==
  /\ epoch = 0
  /\ holder = Nobody
  /\ live = FALSE

\* The next epoch begins when the latest has ended.  It may come too late to
\* be of use, or to find its process running.
Take ==
  /\ ~live
  /\ epoch' = epoch + 1
  /\ holder' \in Holders \cup {Nobody}
  /\ live' \in BOOLEAN

\* The latest epoch ends, and is never in force again.
End ==
  /\ live' = FALSE
  /\ UNCHANGED <<epoch, holder>>

\* The owner dies; its epoch lasts as long as its lease.
Orphan ==
  /\ holder' = Nobody
  /\ UNCHANGED <<epoch, live>>

ONext == Take \/ End \/ Orphan

OSpec == OInit /\ [][ONext]_ovars
=============================================================================
