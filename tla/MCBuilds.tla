------------------------------ MODULE MCBuilds ------------------------------
(* Small instances of Builds.  The ids of builds are interchangeable, but no   *)
(* symmetry is used: liveness is checked.                                      *)
EXTENDS Builds, TLC

CONSTANTS b1, b2,   \* builds
          job           \* a delivery
=============================================================================
