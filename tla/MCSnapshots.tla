---------------------------- MODULE MCSnapshots ----------------------------
(***************************************************************************)
(* Snapshots for TLC: two processes, the second with less room.            *)
(***************************************************************************)
EXTENDS Snapshots

CONSTANTS q1, q2

MCAsked == <<q1, q2>>

MCConfigured == <<2, 1>>
=============================================================================
