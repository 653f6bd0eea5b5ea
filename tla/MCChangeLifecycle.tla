-------------------------- MODULE MCChangeLifecycle --------------------------
(* Small instances of ChangeLifecycle.                                       *)
EXTENDS ChangeLifecycle, TLC

CONSTANTS
  c1, c2, c3,      \* changes
  f1, f2,          \* fleets
  ana, ben, cai,   \* users
  envvar, deploy   \* resource classes

\* Approvals: one change of two classes.  Environment patches need two
\* approvals, deploys only somebody who may deploy; ana is a pipeline that may
\* do neither, ben may patch, cai may do both.
TwoClasses  == [c \in Change |-> (envvar :> 2) @@ (deploy :> 0)]
MixedPerm   == (ana :> {}) @@ (ben :> {envvar}) @@ (cai :> {envvar, deploy})

\* Rollouts: no approval is needed of an author who holds the permission.
NoApproval  == [c \in Change |-> (envvar :> 0)]
FirstAsks   == [c \in Change |-> (envvar :> IF c = c1 THEN 1 ELSE 0)]
AllHold     == [u \in User |-> {envvar}]
OneFleet    == [c \in Change |-> {f1}]
Meeting     == [c \in Change |-> IF c = c1 THEN {f1} ELSE {f1, f2}]

\* Every change leaves its fleets with the value 1.
SameTarget  == [c \in Change |-> [f \in Fleet |-> 1]]
\* c1 makes it 1, the others 0.
AltTarget   == [c \in Change |-> [f \in Fleet |-> IF c = c1 THEN 1 ELSE 0]]
=============================================================================
