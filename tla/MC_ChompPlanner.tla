--------------------------- MODULE MC_ChompPlanner ---------------------------
(* Model-checking instance of ChompPlanner: scaled caller parameters with  *)
(* the defaults of chomp_planner.cpp line 188-189.                         *)
EXTENDS ChompPlanner

MCCallerParams == [lr |-> 4, rf |-> 0, tl |-> 10, mi |-> 200]

\* max_recovery_attempts_: negative, zero and two retries.
MCMaxRecovery == {-1, 0, 2}
=============================================================================
