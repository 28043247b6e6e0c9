-------------------------- MODULE MCMixedService --------------------------
(***************************************************************************)
(* Instance of MixedService for TLC: one job that the consumer and two     *)
(* workers may want.                                                       *)
(***************************************************************************)
EXTENDS MixedService

MCCreatedAt == [j \in Jobs |-> 1]
=============================================================================
