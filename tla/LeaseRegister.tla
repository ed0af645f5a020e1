---------------------------- MODULE LeaseRegister ----------------------------
(***************************************************************************)
(* What the execution authority of one tournament promises to the rest of  *)
(* the program, with none of its mechanism: a register with one owner at a *)
(* time, each ownership numbered by an epoch, that changes hands only once *)
(* the previous owner's time is over, and to which only the current epoch  *)
(* writes.  Module Authority implements it with replicas, cached leases    *)
(* and PostgreSQL transactions.                                            *)
(***************************************************************************)
EXTENDS Integers

CONSTANTS
  Holders,  \* The service processes that may own the execution.
  Nobody    \* The owner before the first grant.

VARIABLES
  clock,    \* Authoritative time.
  epoch,    \* Number of the current ownership, 0 before the first.
  owner,    \* The process that owns the current epoch.
  until,    \* The owner may not be replaced before this time.
  written   \* Epoch of the last accepted write, 0 before the first.

rvars == <<clock, epoch, owner, until, written>>

RInit ==
  /\ clock \in Nat
  /\ epoch = 0
  /\ owner = Nobody
  /\ until = 0
  /\ written = 0

Advance ==
  /\ clock' = clock + 1
  /\ UNCHANGED <<epoch, owner, until, written>>

\* A new epoch starts only at or after the end of the previous one.
Grant ==
  /\ clock >= until
  /\ owner' \in Holders
  /\ epoch' = epoch + 1
  /\ until' > until
  /\ UNCHANGED <<clock, written>>

\* The owner keeps its epoch and never gives time back.
Extend ==
  /\ owner # Nobody
  /\ until' >= until
  /\ UNCHANGED <<clock, epoch, owner, written>>

\* A write that is accepted carries the current epoch.
Write ==
  /\ owner # Nobody
  /\ written' = epoch
  /\ UNCHANGED <<clock, epoch, owner, until>>

RNext == Advance \/ Grant \/ Extend \/ Write

RSpec == RInit /\ [][RNext]_rvars
=============================================================================
