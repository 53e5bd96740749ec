-------------------------- MODULE RecoveryAbstract --------------------------
(***************************************************************************)
(* What the RecoveryController promises (spec.md section 4.6), with no     *)
(* optimizer, trajectory or output in it: a state machine                  *)
(*   init -> attempting -> {success, exhausted}                            *)
(* plus the terminal initfailed when an optimizer cannot be initialised.   *)
(* An attempt either ends the loop or is retried with the parameters       *)
(* escalated; leaving the loop normally restores the caller's parameters.  *)
(***************************************************************************)
EXTENDS Integers

CONSTANTS
  CallerParams,         \* the parameter set the caller passed in (scaled)
  MaxRecoveryValues     \* the values maxRecoveryAttempts may take

VARIABLES
  rstate,               \* the state of the controller
  attempts,             \* failed attempts that were retried
  aparams,              \* the parameter set the next or current attempt uses
  recovery,             \* enableFailureRecovery
  maxRec                \* maxRecoveryAttempts

avars == <<rstate, attempts, aparams, recovery, maxRec>>

\* The escalation of section 4.6, in the units of CallerParams:
\* learningRate += 0.02, ridgeFactor += 0.002, planningTimeLimit += 5,
\* maxIterations += 50.
EscalateOnce(p) ==
  [lr |-> p.lr + 2, rf |-> p.rf + 2, tl |-> p.tl + 5, mi |-> p.mi + 50]

Init ==
  /\ rstate = "init"
  /\ attempts = 0
  /\ aparams = CallerParams
  /\ recovery \in BOOLEAN
  /\ maxRec \in MaxRecoveryValues

\* Init: capture the caller's parameters, attempt counter = 0.
Begin ==
  /\ rstate = "init"
  /\ rstate' = "attempting"
  /\ attempts' = 0
  /\ aparams' = CallerParams
  /\ UNCHANGED <<recovery, maxRec>>

\* The optimizer context cannot be initialised: terminal, no retry.
InitFails ==
  /\ rstate = "attempting"
  /\ rstate' = "initfailed"
  /\ UNCHANGED <<attempts, aparams, recovery, maxRec>>

\* The attempt failed, recovery is enabled and attempts remain.
RetryAttempt ==
  /\ rstate = "attempting"
  /\ recovery
  /\ attempts < maxRec
  /\ attempts' = attempts + 1
  /\ aparams' = EscalateOnce(aparams)
  /\ UNCHANGED <<rstate, recovery, maxRec>>

\* The attempt succeeded; the parameters are restored on leaving.
Succeeded ==
  /\ rstate = "attempting"
  /\ rstate' = "success"
  /\ aparams' = CallerParams
  /\ UNCHANGED <<attempts, recovery, maxRec>>

\* The attempt failed and no retry is allowed; parameters restored.
Exhaust ==
  /\ rstate = "attempting"
  /\ ~(recovery /\ attempts < maxRec)
  /\ rstate' = "exhausted"
  /\ aparams' = CallerParams
  /\ UNCHANGED <<attempts, recovery, maxRec>>

Next == Begin \/ InitFails \/ RetryAttempt \/ Succeeded \/ Exhaust

Spec == Init /\ [][Next]_avars

=============================================================================
