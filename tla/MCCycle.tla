-------------------------------- MODULE MCCycle --------------------------------
(***************************************************************************)
(* Cycle for TLC.  The constants are scaled from the shipped ones (budget  *)
(* 50s, attempt 10s, base delay 1s, minimum attempt 1s) so that a feasible *)
(* cycle is feasible exactly, as five targets are at the defaults.         *)
(***************************************************************************)
EXTENDS Cycle

\* Claims the repository's comments make.

\* config.ts, cycleBudgetMs: "A cycle can never run PAST the budget".
NeverPastBudget == now <= Budget
================================================================================
