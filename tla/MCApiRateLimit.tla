---------------------------- MODULE MCApiRateLimit -----------------------------
(***************************************************************************)
(* ApiRateLimit for TLC: one token a second as shipped (60 a minute), two  *)
(* ticks to the second so that waits round.                                *)
(***************************************************************************)
EXTENDS ApiRateLimit, TLC

Symmetry == Permutations(Requests) \cup Permutations(Instances) \cup Permutations(Keys)
================================================================================
