----------------------------- MODULE MCPresence -----------------------------
(***************************************************************************)
(* Small instances of Presence for TLC.                                    *)
(***************************************************************************)
EXTENDS Presence

CONSTANTS a, b

MCPairs == {{a, b}}
MCOwner == [s \in Sockets |-> a]
=============================================================================
