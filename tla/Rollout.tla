------------------------------- MODULE Rollout -------------------------------
(***************************************************************************)
(* One wave rollout of a release to a fleet, from its first tick to the    *)
(* end of verification: rollout.py, driven by _run_items, _verify and      *)
(* _rollback of changes.py for a change with one release.deploy item.      *)
(*                                                                         *)
(* A tick works on a copy (mem) of the progress row (saved), calls the     *)
(* balena API, one device at a time, and saves the copy at the end.  A     *)
(* crash, or a call that raises, loses the copy and keeps what the API     *)
(* already did; the next tick starts again from the row.                   *)
(***************************************************************************)
EXTENDS Naturals, Sequences, FiniteSets

CONSTANTS
  Device,            \* devices of the fleet
  Waves,             \* Seq(SUBSET Device): what plan_waves made of the specs
  Prev, New, Other,  \* releases: the fleet's previous one, the new one, another
  None,              \* no pin
  Unset,             \* not recorded
  Pins,              \* pins the devices of the waves can have before the rollout
  MoveFleet,         \* the waves reach 100 percent (reaches_fleet)
  HaltHealth,        \* halt_if {health: worse}
  HaltOffline,       \* halt_if {offline_devices: N}, 0 when absent
  Flaky, Sick, Removable,  \* devices that can go offline, get ill, be deleted
  Says,              \* what the EdgeAPI of an ill device can answer, see health
  OperatorRollback,  \* operators may ask for a rollback
  Faulty             \* calls can fail and the service can crash

Release == {Prev, New, Other}
WaveIdx == 1..Len(Waves)
Member  == UNION {Waves[i] : i \in WaveIdx}

\* "unknown" is a site_status that is none of the words it can be; an EdgeAPI that is
\* not reached, or does not answer 200, is "silent", or "late" when the device's
\* heartbeat is missing too.
Health == {"ok", "degraded", "failed", "unknown"}
Answer == Health \cup {"silent", "late"}

ASSUME RolloutConstants ==
  /\ Waves \in Seq(SUBSET Device) /\ Len(Waves) > 0
  /\ \A i, j \in WaveIdx : i # j => Waves[i] \cap Waves[j] = {}
  /\ Prev # New /\ Other \notin {Prev, New} /\ None \notin Release \cup Device
  /\ Unset \notin Release \cup {None} \cup Health /\ Pins \subseteq Release \cup {None}
  /\ MoveFleet \in BOOLEAN /\ HaltHealth \in BOOLEAN /\ HaltOffline \in Nat
  /\ Flaky \cup Sick \cup Removable \subseteq Device /\ Says \subseteq Answer
  /\ OperatorRollback \in BOOLEAN /\ Faulty \in BOOLEAN

VARIABLES
  \* balena: what the API and the devices say
  fleet,     \* should_be_running__release
  pin,       \* pinned release of each device, or None
  running,   \* release each device runs
  online,
  health,    \* what the EdgeAPI of each device says of its site
  gone,      \* deleted devices
  \* the database
  saved,     \* ip["rollout"], as last committed
  phase,     \* the state of the change
  undoErr,   \* the rollback reported undo errors
  applied,   \* AppliedTarget rows: what each device, and the fleet (None), was last given
  \* the thread
  pc, left, why, mem,
  owed,      \* the row the last call has still to write
  \* time since the wave, its soak or the verification started
  clock,
  \* history: the pins before the rollout
  pin0

pine == <<fleet, pin>>
devs == <<running, online, health, gone>>
db   == <<saved, phase, undoErr>>
ctl  == <<pc, left, why, mem>>
targets == <<applied, owed>>
vars == <<pine, devs, db, ctl, clock, pin0, targets>>

WaveState == {"pending", "pinning", "updating", "soaking", "done"}
St == [status : {"running", "done", "halted", "reverted"},
       current : 1..(Len(Waves) + 1),
       wave : [WaveIdx -> WaveState],
       prior : [Device -> Release \cup {None, Unset}],   \* prior_pins
       base : [Device -> Health \cup {Unset}],           \* baseline
       wasOnline : SUBSET Device,
       fleetPinned : BOOLEAN]
Nothing == [of |-> Unset, release |-> Unset]
Phase == {"applying", "verifying", "applied", "rolled_back"}
PC == {"idle", "pinning", "finish_fleet", "finish_pins", "revert_fleet", "revert_pins", "reverted",
       "closing"}

TypeOK ==
  /\ fleet \in Release /\ pin \in [Device -> Release \cup {None}]
  /\ running \in [Device -> Release] /\ online \in SUBSET Device
  /\ health \in [Device -> Answer] /\ gone \in SUBSET Device
  /\ saved \in St /\ mem \in St
  /\ phase \in Phase /\ undoErr \in BOOLEAN
  /\ pc \in PC /\ left \in SUBSET Device /\ why \in {"none", "halt", "rollback"}
  /\ clock \in {"new", "soaked", "late"}
  /\ pin0 \in [Device -> Release \cup {None}]
  /\ applied \in [Device \cup {None} -> Release \cup {None, Unset}]
  /\ owed = Nothing \/ (owed.of \in Device \cup {None} /\ owed.release \in Release \cup {None})

-----------------------------------------------------------------------------
\* start: nothing has been touched yet.  Devices without a pin, or pinned to the
\* previous release or to the new one, are eligible for any wave; those pinned to
\* another release are in the wave that names them.
Start ==
  [status |-> "running", current |-> 1, wave |-> [i \in WaveIdx |-> "pending"],
   prior |-> [d \in Device |-> Unset], base |-> [d \in Device |-> Unset], wasOnline |-> {},
   fleetPinned |-> FALSE]

Target(d) == IF pin[d] = None THEN fleet ELSE pin[d]

Init ==
  /\ fleet = Prev
  /\ pin0 \in [Device -> Pins] /\ pin = pin0
  /\ running = [d \in Device |-> Target(d)]
  /\ online \in SUBSET Device /\ Device \ Flaky \subseteq online
  /\ health = [d \in Device |-> "ok"] /\ gone = {}
  /\ saved = Start /\ mem = Start
  /\ phase = "applying" /\ undoErr = FALSE
  /\ pc = "idle" /\ left = {} /\ why = "none"
  /\ clock = "new"
  /\ owed = Nothing
  /\ \E before \in BOOLEAN :   \* given by an earlier change, or never
       applied = [x \in Device \cup {None} |->
                    IF ~before THEN Unset ELSE IF x = None THEN Prev ELSE pin0[x]]

-----------------------------------------------------------------------------
(* Helpers of tick.                                                        *)

Recorded(s) == {d \in Device : s.prior[d] # Unset}
Live == Device \ gone

\* Waves without devices are done at once.
FirstBusy(i) ==
  CHOOSE n \in i..(Len(Waves) + 1) :
    /\ n > Len(Waves) \/ Waves[n] # {}
    /\ \A j \in i..(n - 1) : Waves[j] = {}
SkipEmpty(s) ==
  LET n == FirstBusy(s.current)
  IN  [s EXCEPT !.current = n,
                !.wave = [i \in WaveIdx |-> IF i \in s.current..(n - 1) THEN "done" ELSE @[i]]]

\* reach.health: what openBalena knows of a device stands in for what its EdgeAPI
\* does not say, so a device that is offline has failed.
Connectivity(d) ==
  IF d \notin online THEN "failed" ELSE IF health[d] = "late" THEN "degraded" ELSE "ok"
HealthOf(d) == IF d \in online /\ health[d] \in Health THEN health[d] ELSE Connectivity(d)

\* reach.worse: ranks below what it was; without a baseline, or when either is
\* unknown, there is no verdict.
Rank == [ok |-> 0, degraded |-> 1, failed |-> 2]
Worse(d, s) ==
  /\ {s.base[d], HealthOf(d)} \cap {Unset, "unknown"} = {}
  /\ Rank[HealthOf(d)] > Rank[s.base[d]]

\* Devices of the waves that have been pinned.
Touched(s) == UNION {Waves[i] : i \in {j \in WaveIdx : s.wave[j] \notin {"pending", "pinning"}}}

\* _check_halt
GotWorse(s) ==
  HaltHealth /\ \E d \in Touched(s) \cap Live \cap online : running[d] = New /\ Worse(d, s)
Dropped(s) == {d \in Touched(s) : d \in s.wasOnline /\ d \notin Live \cap online}
MustHalt(s) ==
  GotWorse(s) \/ (HaltOffline > 0 /\ Cardinality(Dropped(s)) >= HaltOffline)

\* Online devices of the wave that do not run the release yet, and those that do.
StillUpdating(W) == {d \in W \cap Live \cap online : running[d] # New}
Updated(W) == {d \in W \cap Live : running[d] = New}

Save(s) == saved' = s /\ mem' = s /\ pc' = "idle" /\ left' = {} /\ why' = "none"
Work(s, step, ds, w) == mem' = s /\ pc' = step /\ left' = ds /\ why' = w /\ UNCHANGED saved

\* halt and _rollback: the fleet first, if it was moved, then every device.
Revert(s, w) == Work(s, IF s.fleetPinned THEN "revert_fleet" ELSE "revert_pins", Recorded(s), w)

\* Mutant: devices that are offline at the end keep their pins.
FinishOnline(s) ==
  IF MoveFleet /\ ~s.fleetPinned
    THEN Work(s, "finish_fleet", Recorded(s) \cap online, "none") /\ UNCHANGED targets
    ELSE Save([s EXCEPT !.status = "done"]) /\ UNCHANGED targets

\* _finish
Finish(s) ==
  IF MoveFleet /\ ~s.fleetPinned
    THEN Work(s, "finish_fleet", Recorded(s), "none") /\ UNCHANGED targets
    ELSE /\ Save([s EXCEPT !.status = "done"])
         /\ applied' = (IF MoveFleet THEN applied
                          ELSE [x \in Device \cup {None} |-> IF x \in Recorded(s) THEN New ELSE applied[x]])
         /\ UNCHANGED owed

-----------------------------------------------------------------------------
(* RolloutEngine.tick, on a wave that is pending, pinning, updating or     *)
(* soaking.                                                                *)

CanTick == pc = "idle" /\ phase = "applying" /\ saved.status = "running"
Now == SkipEmpty(saved)
Current == Waves[Now.current]
InWave(ws) == CanTick /\ Now.current <= Len(Waves) /\ Now.wave[Now.current] \in ws
SetWave(s, ws) == [s EXCEPT !.wave[s.current] = ws]

\* No wave is left (the last ones had no devices).
TickPastWaves ==
  /\ CanTick /\ Now.current > Len(Waves)
  /\ Finish(Now)
  /\ UNCHANGED <<pine, devs, phase, undoErr, clock, pin0>>

\* Mutant: what a device had before is recorded in the tick that pins it.
TickRecordAndPin ==
  /\ InWave({"pending"})
  /\ LET seen == Current \cap Live
     IN  Work([SetWave(Now, "pinning") EXCEPT
                 !.prior = [d \in Device |-> IF d \in seen THEN pin[d] ELSE @[d]]],
              "pinning", seen, "none")
  /\ UNCHANGED <<pine, devs, phase, undoErr, clock, pin0, targets>>

\* Baselines and prior pins are recorded, and saved before anything is pinned.
TickRecord ==
  /\ InWave({"pending"})
  /\ LET seen == Current \cap Live
     IN  Save([SetWave(Now, "pinning") EXCEPT
                 !.base = [d \in Device |-> IF d \in seen THEN HealthOf(d) ELSE @[d]],
                 !.wasOnline = @ \cup (seen \cap online),
                 !.prior = [d \in Device |->
                              IF d \in seen /\ @[d] = Unset THEN pin[d] ELSE @[d]]])
  /\ UNCHANGED <<pine, devs, phase, undoErr, clock, pin0, targets>>

TickPin ==
  /\ InWave({"pinning"})
  /\ Work(Now, "pinning", Current \cap Recorded(Now), "none")
  /\ UNCHANGED <<pine, devs, phase, undoErr, clock, pin0, targets>>

TickHalt ==
  /\ InWave({"updating", "soaking"}) /\ MustHalt(Now)
  /\ Revert(Now, "halt")
  /\ UNCHANGED <<pine, devs, phase, undoErr, clock, pin0, targets>>

\* Every online device runs the release, and at least one does: soak.
TickUpdated ==
  /\ InWave({"updating"}) /\ ~MustHalt(Now)
  /\ StillUpdating(Current) = {} /\ Updated(Current) # {}
  /\ Save(SetWave(Now, "soaking")) /\ clock' = "new"
  /\ UNCHANGED <<pine, devs, phase, undoErr, pin0, targets>>

TickWait ==
  /\ \/ /\ InWave({"updating"}) /\ ~MustHalt(Now) /\ clock # "late"
        /\ StillUpdating(Current) # {} \/ Updated(Current) = {}
     \/ InWave({"soaking"}) /\ ~MustHalt(Now) /\ clock = "new"
  /\ Save(Now)
  /\ UNCHANGED <<pine, devs, phase, undoErr, clock, pin0, targets>>

\* Mutant: only devices still updating time out, not a wave that is all offline.
TickTimeoutWaiting ==
  /\ InWave({"updating"}) /\ ~MustHalt(Now) /\ clock = "late"
  /\ StillUpdating(Current) # {}
  /\ Revert(Now, "halt")
  /\ UNCHANGED <<pine, devs, phase, undoErr, clock, pin0, targets>>

TickTimeout ==
  /\ InWave({"updating"}) /\ ~MustHalt(Now) /\ clock = "late"
  /\ StillUpdating(Current) # {} \/ Updated(Current) = {}
  /\ Revert(Now, "halt")
  /\ UNCHANGED <<pine, devs, phase, undoErr, clock, pin0, targets>>

TickSoaked ==
  /\ InWave({"soaking"}) /\ ~MustHalt(Now) /\ clock # "new"
  /\ LET s == [SetWave(Now, "done") EXCEPT !.current = @ + 1]
     IN  IF s.current > Len(Waves) THEN Finish(s) ELSE Save(s) /\ UNCHANGED targets
  /\ UNCHANGED <<pine, devs, phase, undoErr, clock, pin0>>

-----------------------------------------------------------------------------
(* The calls of a tick or a rollback, one at a time.                       *)

\* A pin of a device that was deleted matches nothing.
SetPin(d, r) == pin' = [pin EXCEPT ![d] = IF d \in gone THEN @ ELSE r]

\* on_target: every call but the pins of a wave is recorded for the drift report,
\* in a commit of its own, before the next call.
Owe(x, r) == owed = Nothing /\ owed' = [of |-> x, release |-> r] /\ UNCHANGED applied
RecordTarget ==
  /\ owed # Nothing
  /\ applied' = [applied EXCEPT ![owed.of] = owed.release] /\ owed' = Nothing
  /\ UNCHANGED <<pine, devs, db, ctl, clock, pin0>>

PinDevice(d) ==
  /\ pc = "pinning" /\ d \in left
  /\ SetPin(d, New) /\ left' = left \ {d}
  /\ UNCHANGED <<fleet, devs, db, pc, why, mem, clock, pin0, targets>>

\* Mutant: goes on to the next wave before this one has soaked.
PinsDoneNext ==
  /\ pc = "pinning" /\ left = {}
  /\ Save([SetWave(mem, "updating") EXCEPT !.current = @ + 1]) /\ clock' = "new"
  /\ UNCHANGED <<pine, devs, phase, undoErr, pin0, targets>>

PinsDone ==
  /\ pc = "pinning" /\ left = {}
  /\ Save(SetWave(mem, "updating")) /\ clock' = "new"
  /\ UNCHANGED <<pine, devs, phase, undoErr, pin0, targets>>

\* Mutant: that the fleet has moved is not noted.
FinishFleetUnnoted ==
  /\ pc = "finish_fleet"
  /\ fleet' = New /\ pc' = "finish_pins"
  /\ Owe(None, New)
  /\ UNCHANGED <<pin, devs, db, left, why, mem, clock, pin0>>

\* Mutant: the row is saved between the fleet and the pins.
FinishFleetSaved ==
  /\ pc = "finish_fleet"
  /\ fleet' = New
  /\ mem' = [mem EXCEPT !.fleetPinned = TRUE] /\ saved' = mem' /\ pc' = "finish_pins"
  /\ Owe(None, New)
  /\ UNCHANGED <<pin, devs, phase, undoErr, left, why, clock, pin0>>

\* _finish: the fleet moves, then the per-device pins are dropped.
FinishFleet ==
  /\ pc = "finish_fleet"
  /\ fleet' = New
  /\ mem' = [mem EXCEPT !.fleetPinned = TRUE] /\ pc' = "finish_pins"
  /\ Owe(None, New)
  /\ UNCHANGED <<pin, devs, db, left, why, clock, pin0>>

UnpinDevice(d) ==
  /\ pc = "finish_pins" /\ d \in left
  /\ SetPin(d, None) /\ left' = left \ {d}
  /\ Owe(d, None)
  /\ UNCHANGED <<fleet, devs, db, pc, why, mem, clock, pin0>>

FinishDone ==
  /\ pc = "finish_pins" /\ left = {} /\ owed = Nothing
  /\ Save([mem EXCEPT !.status = "done"])
  /\ UNCHANGED <<pine, devs, phase, undoErr, clock, pin0, targets>>

RevertFleet ==
  /\ pc = "revert_fleet"
  /\ fleet' = Prev
  /\ mem' = [mem EXCEPT !.fleetPinned = FALSE] /\ pc' = "revert_pins"
  /\ Owe(None, Prev)
  /\ UNCHANGED <<pin, devs, db, left, why, clock, pin0>>

\* Mutant: devices follow the fleet again, whatever they were pinned to before.
RevertDeviceToFleet(d) ==
  /\ pc = "revert_pins" /\ d \in left
  /\ SetPin(d, None) /\ left' = left \ {d}
  /\ Owe(d, None)
  /\ UNCHANGED <<fleet, devs, db, pc, why, mem, clock, pin0>>

RevertDevice(d) ==
  /\ pc = "revert_pins" /\ d \in left
  /\ SetPin(d, mem.prior[d]) /\ left' = left \ {d}
  /\ Owe(d, mem.prior[d])
  /\ UNCHANGED <<fleet, devs, db, pc, why, mem, clock, pin0>>

\* Mutants: a status nobody knows; the rollout is left running.
HaltDoneAs(status) ==
  /\ pc = "revert_pins" /\ why = "halt" /\ left = {} /\ owed = Nothing
  /\ Save([mem EXCEPT !.status = status])
  /\ UNCHANGED <<pine, devs, phase, undoErr, clock, pin0, targets>>
HaltDoneFailed  == HaltDoneAs("failed")
HaltDoneRunning == HaltDoneAs("running")

\* A halt is saved with its status and rolled back from there.
HaltDone ==
  /\ pc = "revert_pins" /\ why = "halt" /\ left = {} /\ owed = Nothing
  /\ Save([mem EXCEPT !.status = "halted"])
  /\ UNCHANGED <<pine, devs, phase, undoErr, clock, pin0, targets>>

\* _rollback saves which items it undid, then goes to rolled_back.
RevertDone ==
  /\ pc = "revert_pins" /\ why = "rollback" /\ left = {} /\ owed = Nothing
  /\ LET s == [mem EXCEPT !.status = "reverted"] IN saved' = s /\ mem' = s
  /\ pc' = "closing"
  /\ UNCHANGED <<pine, devs, phase, undoErr, left, why, clock, pin0, targets>>

\* _rollback catches a failing revert: what was undone is saved, the rest is
\* reported as an undo error.
UndoError ==
  /\ Faulty /\ why = "rollback"
  /\ pc = "revert_fleet" \/ (pc = "revert_pins" /\ left # {} /\ owed = Nothing)
  /\ saved' = mem /\ undoErr' = TRUE
  /\ pc' = "closing" /\ left' = {}
  /\ UNCHANGED <<pine, devs, phase, why, mem, clock, pin0, targets>>

Close ==
  /\ pc = "closing"
  /\ phase' = "rolled_back" /\ Save(saved)
  /\ UNCHANGED <<pine, devs, undoErr, clock, pin0, targets>>

-----------------------------------------------------------------------------
(* changes.py around the rollout.                                          *)

\* _run_items finds the rollout done: the only item is, verification starts.
EnterVerify ==
  /\ pc = "idle" /\ phase = "applying" /\ saved.status = "done"
  /\ phase' = "verifying" /\ clock' = "new"
  /\ UNCHANGED <<pine, devs, saved, undoErr, ctl, pin0, targets>>

\* _run_items finds the rollout halted: nothing more is reverted.
RollBackHalted ==
  /\ pc = "idle" /\ phase = "applying" /\ saved.status = "halted"
  /\ phase' = "rolled_back"
  /\ UNCHANGED <<pine, devs, saved, undoErr, ctl, clock, pin0, targets>>

\* _rollback: a rollout that was already put back is not put back again.
RollBack ==
  IF saved.status \in {"halted", "reverted"}
    THEN /\ pc' = "closing" /\ UNCHANGED <<saved, left, why, mem>>
    ELSE Revert(saved, "rollback")

\* _verify: online devices must run their target and be no worse than before.
MustRun(d) == d \in Member \/ (MoveFleet /\ pin[d] = None)
NotYet == {d \in Live \cap online : MustRun(d) /\ running[d] # New}
Failures == {d \in (Live \cap online) \ NotYet : Worse(d, saved)}
CanVerify == pc = "idle" /\ phase = "verifying"

VerifyFailed ==
  /\ CanVerify
  /\ Failures # {} \/ (NotYet # {} /\ clock = "late")
  /\ RollBack
  /\ UNCHANGED <<pine, devs, phase, undoErr, clock, pin0, targets>>

VerifyPassed ==
  /\ CanVerify /\ Failures = {} /\ NotYet = {} /\ clock # "new"
  /\ phase' = "applied"
  /\ UNCHANGED <<pine, devs, saved, undoErr, ctl, clock, pin0, targets>>

RequestRollback ==
  /\ OperatorRollback /\ pc = "idle" /\ phase \in {"applying", "verifying", "applied"}
  /\ RollBack
  /\ UNCHANGED <<pine, devs, phase, undoErr, clock, pin0, targets>>

\* A call raises (and is not caught) or the service crashes: the copy is lost.
Fail ==
  /\ Faulty /\ pc # "idle"
  /\ Save(saved) /\ owed' = Nothing
  /\ UNCHANGED <<pine, devs, phase, undoErr, applied, clock, pin0>>

-----------------------------------------------------------------------------
(* Devices and time.                                                       *)

DeviceUpdates(d) ==
  /\ d \in Live \cap online /\ running[d] # Target(d)
  /\ running' = [running EXCEPT ![d] = Target(d)]
  /\ UNCHANGED <<pine, online, health, gone, db, ctl, clock, pin0, targets>>

ConnectionChanges(d) ==
  /\ d \in Flaky \cap Live
  /\ online' = IF d \in online THEN online \ {d} ELSE online \cup {d}
  /\ UNCHANGED <<pine, running, health, gone, db, ctl, clock, pin0, targets>>

HealthChanges(d, h) ==
  /\ d \in Sick \cap Live /\ health[d] # h
  /\ health' = [health EXCEPT ![d] = h]
  /\ UNCHANGED <<pine, running, online, gone, db, ctl, clock, pin0, targets>>

DeviceRemoved(d) ==
  /\ d \in Removable \cap Live
  /\ gone' = gone \cup {d}
  /\ UNCHANGED <<pine, running, online, health, db, ctl, clock, pin0, targets>>

TimePasses ==
  /\ clock' = (IF clock = "new" THEN "soaked" ELSE "late") /\ clock # "late"
  /\ UNCHANGED <<pine, devs, db, ctl, pin0, targets>>

-----------------------------------------------------------------------------
Tick ==
  \/ TickPastWaves \/ TickRecord \/ TickPin \/ TickHalt \/ TickUpdated \/ TickWait \/ TickTimeout
  \/ TickSoaked \/ EnterVerify \/ RollBackHalted \/ VerifyFailed \/ VerifyPassed

Call ==
  \/ RecordTarget \/ PinsDone \/ FinishFleet \/ FinishDone \/ RevertFleet \/ HaltDone \/ RevertDone \/ Close
  \/ \E d \in Device : PinDevice(d) \/ UnpinDevice(d) \/ RevertDevice(d)

Environment ==
  \/ \E d \in Device :
       \/ DeviceUpdates(d) \/ ConnectionChanges(d) \/ DeviceRemoved(d)
       \/ \E h \in Says : HealthChanges(d, h)
  \/ TimePasses

Next == Tick \/ Call \/ UndoError \/ RequestRollback \/ Fail \/ Environment

Spec == Init /\ [][Next]_vars

\* The scheduler ticks for ever (every rollout.tick_s), time passes, and from
\* some moment on calls do not fail and the service stays up.  Nothing is asked
\* of the devices: they may stay offline, or never update.
Fairness ==
  /\ WF_vars(Tick) /\ WF_vars(Call) /\ WF_vars(TimePasses)
  /\ <>[][~Fail]_vars

FairSpec == Spec /\ Fairness

-----------------------------------------------------------------------------
(* Properties.                                                             *)

\* Prior pins are recorded before anything is pinned, so the release being
\* rolled out is never mistaken for what a device had before, however often a
\* tick fails between pinning and saving.
PriorPinsFaithful ==
  \A d \in Device :
    /\ saved.prior[d] # Unset => saved.prior[d] = pin0[d]
    /\ pin[d] # pin0[d] => saved.prior[d] # Unset

\* A rolled back change left every device on the pin it had before (rollback
\* errors are reported when it could not), and drift does not report that pin as
\* set outside the API, wherever a failure fell between a pin and its record.
OutsideApi(d) == applied[d] \notin {Unset, pin[d]}
PinsRestored ==
  phase = "rolled_back" /\ ~undoErr => \A d \in Live : pin[d] = pin0[d] /\ ~OutsideApi(d)

\* ... and the fleet on its previous release, which the reverted devices follow.
FleetRestored ==
  phase = "rolled_back" /\ ~undoErr => fleet = Prev

\* No device of a wave is moved before the earlier waves ran and soaked; one that
\* was pinned to the release already need not be moved.
WavesInOrder ==
  \A k \in WaveIdx : \A d \in Waves[k] :
    pin[d] = New /\ pin0[d] # New => \A j \in 1..(k - 1) : Waves[j] = {} \/ saved.wave[j] = "done"

\* The fleet moves only while every device of the rollout is held on the
\* release: never after a halt began to put devices back.
FleetMovesOnHeldDevices ==
  [][fleet # New /\ fleet' = New => \A d \in Recorded(saved) \cap Live : pin[d] = New]_vars

\* What a rollout is for: the fleet has the release and every device of the waves
\* follows it, or is pinned to it when the waves do not reach the fleet; and drift
\* reports neither as set outside the API.
Effect ==
  /\ fleet = (IF MoveFleet THEN New ELSE Prev) /\ applied[None] \in {Unset, fleet}
  /\ \A d \in Member \cap Live : pin[d] = (IF MoveFleet THEN None ELSE New) /\ ~OutsideApi(d)

\* An applied change is in effect on every device of its waves that still exists,
\* whatever went offline, was halted or deleted meanwhile.
AppliedTookEffect == phase = "applied" /\ pc = "idle" => Effect

\* A rollout of the whole fleet is noted as done only when it is in effect, however
\* often its end was cut short between the fleet, the pins and their records.
DoneInEffect ==
  [][MoveFleet /\ saved.status # "done" /\ saved'.status = "done" => Effect']_vars

\* A rollout ends: every wave, its soak and the verification have a time limit.
RolloutEnds == phase \in {"applying", "verifying"} ~> phase \in {"applied", "rolled_back"}
=============================================================================
