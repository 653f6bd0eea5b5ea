------------------------------ MODULE MCFanout ------------------------------
(* Small instances of Fanout.                                               *)
EXTENDS Fanout, TLC

CONSTANTS d1, d2, d3

\* A canary, an empty wave, the rest.
CanaryThenRest == <<{d1}, {}, {d2, d3}>>
=============================================================================
