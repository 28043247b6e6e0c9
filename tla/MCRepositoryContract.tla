----------------------- MODULE MCRepositoryContract -----------------------
(***************************************************************************)
(* Instance of RepositoryContract for TLC: two jobs created at one instant *)
(* and an older one, of two tenants and two projects.                      *)
(***************************************************************************)
EXTENDS RepositoryContract

CONSTANTS j1, j2, j3, t1, t2, p1, p2

MCCreatedAt == [j \in Jobs |-> IF j = j3 THEN 1 ELSE 2]

MCTenantOf == [j \in Jobs |-> IF j = j2 THEN t2 ELSE t1]

MCProjectOf == [j \in Jobs |-> IF j = j3 THEN p2 ELSE p1]
=============================================================================
