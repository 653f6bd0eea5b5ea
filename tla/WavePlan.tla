------------------------------- MODULE WavePlan -------------------------------
(***************************************************************************)
(* The waves of a rollout (rollout.py): what a change names is validated,  *)
(* planned over the fleet's devices for the review (changes.py), and       *)
(* planned again when the rollout starts, over the devices of then.        *)
(* Devices are numbers in the order of their names.                        *)
(***************************************************************************)
EXTENDS Integers, Sequences, FiniteSets

CONSTANTS
  N,           \* bound: devices of the fleet, and those that may join it
  Asked,       \* what operators ask for: sequences of waves, see Wave
  MaxDrifts    \* bound: devices pinned, removed or added after the review

Device == 1..N

\* A reference to a device has the devices whose name or uuid it is, and those
\* whose uuid it begins, none when it is shorter than seven characters.  A wave
\* has references, or a percentage.
Ref  == [exact : SUBSET Device, prefix : SUBSET Device]
Wave == [refs : Seq(Ref), percent : Int]
Pins == {"none", "previous", "new", "other"}   \* the releases a device can be pinned to

ASSUME WavePlanConstantsOK ==
  /\ N \in Nat /\ MaxDrifts \in Nat
  /\ Asked \subseteq Seq(Wave)

(***************************************************************************)
(* validate_waves, _match, plan_waves.                                     *)
(***************************************************************************)
\* A wave without a percentage here names devices.
IsPercent(wave) == wave.refs = <<>>

Valid(specs) ==
  /\ specs # <<>>
  /\ \A j \in DOMAIN specs : IsPercent(specs[j]) =>
       /\ specs[j].percent \in 1..100
       /\ \A i \in 1..j : IsPercent(specs[i]) => specs[i].percent <= specs[j].percent

\* The devices a reference stands for: one, or none.
Match(ref, present) ==
  LET one(s) == IF Cardinality(s \cap present) = 1 THEN s \cap present ELSE {} IN
  IF one(ref.exact) # {} THEN one(ref.exact) ELSE one(ref.prefix)

NamedBy(wave, present) == UNION {Match(wave.refs[k], present) : k \in DOMAIN wave.refs}
Named(specs, present)  == UNION {NamedBy(specs[i], present) : i \in DOMAIN specs}

Resolves(specs, present) ==
  \A i \in DOMAIN specs : \A k \in DOMAIN specs[i].refs : Match(specs[i].refs[k], present) # {}

\* Mutant: percentages round down.
Floor(percent, n) == (n * percent) \div 100

Ceiling(percent, n) == (n * percent + 99) \div 100

\* The devices of a percentage wave are taken in name order: one that is in no
\* wave yet is taken if at its turn, when those before it were taken, too few of
\* the pool are in this wave or an earlier one.
Fill(pool, percent, assigned) ==
  {d \in pool \ assigned :
     Cardinality({e \in pool : e \in assigned \/ e < d}) < Ceiling(percent, Cardinality(pool))}

WaveOf(spec, present, pool, assigned) ==
  IF IsPercent(spec) THEN Fill(pool, spec.percent, assigned)
                     ELSE NamedBy(spec, present) \ assigned

\* The devices in the first i waves.
Assigned(specs, present, pool) ==
  LET assigned[i \in 0..Len(specs)] ==
        IF i = 0 THEN {} ELSE assigned[i - 1] \cup WaveOf(specs[i], present, pool, assigned[i - 1])
  IN assigned

PlanWaves(specs, present, eligible) ==
  [i \in DOMAIN specs |->
     LET pool == present \cap eligible IN
     WaveOf(specs[i], present, pool, Assigned(specs, present, pool)[i - 1])]

ReachesFleet(specs) == \E i \in DOMAIN specs : IsPercent(specs[i]) /\ specs[i].percent = 100

(***************************************************************************)
(* A change, from its submission to the start of its rollout.              *)
(***************************************************************************)
VARIABLES
  specs,      \* the waves asked for
  present,    \* devices of the fleet
  pin,        \* the release each device is pinned to
  shown,      \* waves of the plan that is reviewed
  run,        \* waves of the rollout
  at,         \* "asked", "refused", "review" or "rollout"
  drifts      \* since the review

vars == <<specs, present, pin, shown, run, at, drifts>>

Init ==
  /\ specs \in Asked /\ present \in {1..n : n \in 1..N} /\ pin \in [Device -> Pins]
  /\ shown = <<>> /\ run = <<>> /\ at = "asked" /\ drifts = 0

\* The plan that is reviewed takes every device for eligible.
Review ==
  /\ at = "asked"
  /\ IF Valid(specs) /\ Resolves(specs, present)
       THEN at' = "review" /\ shown' = PlanWaves(specs, present, Device)
       ELSE at' = "refused" /\ UNCHANGED shown
  /\ UNCHANGED <<specs, present, pin, run, drifts>>

\* Mutant: devices that have the new release already are left out.
EligibleUnpinned == {d \in Device : pin[d] \in {"none", "previous"}} \cup Named(specs, present)

\* The rollout leaves the devices alone that are pinned to some other release,
\* unless a wave names them.
Eligible == {d \in Device : pin[d] \in {"none", "previous", "new"}} \cup Named(specs, present)

\* A reference that matches no device any more raises: the change stays where it
\* is and tries again at the next tick.
Start ==
  /\ at = "review" /\ Resolves(specs, present)
  /\ run' = PlanWaves(specs, present, Eligible) /\ at' = "rollout"
  /\ UNCHANGED <<specs, present, pin, shown, drifts>>

\* The base a change is held against does not have the devices or their pins.
Drift ==
  /\ at = "review" /\ drifts < MaxDrifts /\ drifts' = drifts + 1
  /\ \/ \E d \in present, p \in Pins : pin' = [pin EXCEPT ![d] = p] /\ UNCHANGED present
     \/ \E d \in Device :
          /\ present' = IF d \in present THEN present \ {d} ELSE present \cup {d}
          /\ UNCHANGED pin
  /\ UNCHANGED <<specs, shown, run, at>>

Next == Review \/ Start \/ Drift

Spec == Init /\ [][Next]_vars

(***************************************************************************)
(* Properties.                                                             *)
(***************************************************************************)
AllOf(plan)     == UNION {plan[i] : i \in DOMAIN plan}
Before(plan, i) == UNION {plan[j] : j \in 1..i}

\* The waves mean what docs/fleet-api.md says, whatever mix of names and
\* percentages there is: no device is in two; a percentage is of the eligible
\* devices, named ones included, in name order, neither short of it nor a device
\* beyond it unless the waves before it were; 100 takes every eligible device,
\* for the fleet moves after it; and no unnamed device pinned elsewhere is in any.
WavesAsSpecified ==
  at = "rollout" =>
    LET pool == present \cap Eligible IN
    /\ \A i, j \in DOMAIN run : i # j => run[i] \cap run[j] = {}
    /\ AllOf(run) \subseteq {d \in present : pin[d] # "other"} \cup Named(specs, present)
    /\ Named(specs, present) \subseteq AllOf(run)
    /\ \A i \in DOMAIN specs : IsPercent(specs[i]) =>
         LET done == Cardinality(pool \cap Before(run, i)) IN
         /\ 100 * done >= specs[i].percent * Cardinality(pool)
         /\ run[i] # {} => 100 * (done - 1) < specs[i].percent * Cardinality(pool)
         /\ \A d \in run[i] : \A e \in pool \ Before(run, i) : d < e
    /\ ReachesFleet(specs) => pool \subseteq AllOf(run)

\* What was reviewed is what runs, as long as no device came, went or was pinned
\* in between and none is pinned elsewhere: those count in the plan that is
\* reviewed (changes.py:236) and not in the rollout (rollout.py:135).
RunIsAsShown ==
  at = "rollout" /\ drifts = 0 /\ (\A d \in present : pin[d] # "other") => run = shown
=============================================================================
