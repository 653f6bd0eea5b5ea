------------------------------ MODULE MCRollout ------------------------------
(* Small instances of Rollout.                                               *)
EXTENDS Rollout, TLC

CONSTANTS d1, d2

\* One canary, then the rest of the fleet.
CanaryThenRest == <<{d1}, {d2}>>
\* A last wave whose percentage adds no device.
EmptyLastWave  == <<{d1, d2}, {}>>
=============================================================================
