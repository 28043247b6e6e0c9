--------------------------- MODULE MCRateLimiter ---------------------------
(***************************************************************************)
(* Instance of RateLimiter for TLC: a key whose limit is 0 and one whose   *)
(* limit is 2.                                                             *)
(***************************************************************************)
EXTENDS RateLimiter

CONSTANTS zero, pair

MCLimit == [k \in Keys |-> IF k = zero THEN 0 ELSE 2]
=============================================================================
