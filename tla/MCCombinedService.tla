------------------------- MODULE MCCombinedService -------------------------
(***************************************************************************)
(* Instances of CombinedService for TLC.                                   *)
(***************************************************************************)
EXTENDS CombinedService

CONSTANTS j1, j2, j3

MCCreatedAt == [j \in Jobs |-> 1]
=============================================================================
