-------------------------- MODULE MCSplitService --------------------------
(***************************************************************************)
(* Instances of SplitService for TLC.                                      *)
(***************************************************************************)
EXTENDS SplitService, TLC

CONSTANTS j1, j2, w1, w2

\* j2 was created after j1; its row may still be inserted before j1's.
MCCreatedAt == [j \in Jobs |-> IF j = j1 THEN 1 ELSE 2]

Symmetry == Permutations(Processes)
=============================================================================
