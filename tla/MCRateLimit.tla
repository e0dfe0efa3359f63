------------------------------ MODULE MCRateLimit ------------------------------
(***************************************************************************)
(* RateLimit for TLC, in units of 250 ms, the base delay.  The shipped    *)
(* caps are 3 retries a call, 4 an attempt and 8 units of backoff; with    *)
(* those the backoff budget alone already refuses a call's fourth retry,   *)
(* so the instance takes 2 a call to make every cap bite.  A server may    *)
(* name a wait longer than the schedule's first steps, or a negative one.  *)
(***************************************************************************)
EXTENDS RateLimit, TLC

MCRetryAfters == {-1, 3}
Symmetry == Permutations(Calls)
================================================================================
