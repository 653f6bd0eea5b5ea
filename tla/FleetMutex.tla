----------------------------- MODULE FleetMutex -----------------------------
(***************************************************************************)
(* What change control promises the fleets ("One rollout per fleet",       *)
(* docs/fleet-api.md): a change gets all its fleets at once, when nobody   *)
(* has any of them, and keeps them all until it is done.                   *)
(***************************************************************************)
CONSTANTS Change, Fleet, FleetsOf, None

VARIABLE owner   \* the change that rolls out on each fleet, or None

Init == owner = [f \in Fleet |-> None]

Acquire(c) ==
  /\ \A f \in FleetsOf[c] : owner[f] = None
  /\ owner' = [f \in Fleet |-> IF f \in FleetsOf[c] THEN c ELSE owner[f]]

Release(c) ==
  /\ \A f \in FleetsOf[c] : owner[f] = c
  /\ owner' = [f \in Fleet |-> IF f \in FleetsOf[c] THEN None ELSE owner[f]]

Next == \E c \in Change : Acquire(c) \/ Release(c)

Spec == Init /\ [][Next]_owner
=============================================================================
