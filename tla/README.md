# TLA+ models of the open-balena-extension Fleet API

The repository extends an openBalena server. Almost all of its own logic is in
`components/fleet-api/fleet_api`: a Flask service that changes fleets of devices
under change control. It is one gunicorn process of eight threads plus a scheduler
thread, with all lasting state in a database. This directory models the parts of it
that keep state across requests, ticks and restarts, checks them with TLC and proves
their safety properties with TLAPS.

Run a model with `tlc -config Rollout_faults.cfg MCRollout.tla`, the proofs about it
with `tlapm Rollout_proofs.tla`. `PROJECT.json` lists the runs, the mutants that
show each property can fail, the source lines of every definition, the hazards and
the findings.

## The system

| Component | State | Operations | Interacts with | What makes it correct |
|---|---|---|---|---|
| Change sets (`changes.py`) | `ChangeSet`, `ChangeApproval` rows; one process-wide lock | create, plan, approve, reject, cancel, apply, rollback; scheduler tick | everything below | one rollout per fleet; approvals bind to the plan that runs; every approved change is decided |
| Rollout engine (`rollout.py`) | a record inside the change's `progress` | start, tick, finish, revert, halt | openBalena pins, reach | a rollback restores what every device and the fleet had; waves in order; it ends |
| Site change fan-out (`fanout.py`) | a record inside `progress` | start, tick | device EdgeAPI through reach | nothing is sent twice, or after the end, or over a site that rolled back |
| Server operations (`server.py`) | `ServerOperation` rows; docker commands in containers | start, run, time limit, recover | job pool (`jobs.py`) | one command of a type at a time, whatever restarts |
| Release builds (`builds.py`) | `Build` rows; one build lock | start, run | git, builder, openBalena, job pool | one release is made at a time; what succeeded can be deployed; each build ends |
| Environment (`env.py`, `service.py`) | openBalena variables; applied-env rows | diff, patch, restore, drift | openBalena, change sets, direct requests | the diff shown is what is applied; a rollback puts back what the plan saw; drift names what others did |
| Wave planning (`rollout.py`) | none | `validate_waves`, `plan_waves` | change sets (review), rollout (start) | disjoint waves, cumulative percentages; what was reviewed runs |
| Images, imagemaker (`images.py`, `server.js`) | image rows; in-memory jobs | create, poll, download | HTTP, settings | however polls cross, a row ends as its job did and stays so |
| Settings (`settings.py`) | settings in memory, their mtime, a lock | reload on mtime | every thread | the last good file is in effect; no file stops the scheduler |
| Webhooks (`webhooks.py`) | none that lasts | emit, deliver in three attempts | job pool | a dead receiver does not hold the pool for ever |
| Reach, openBalena client, git, builder protocol | none that lasts | I/O | | |

What is hard in it:

* *Several commits in one operation.* A change operation holds the lock but commits
  up to four times; a crash or an exception separates them.
* *Calls before the save.* Rollout and fan-out ticks call openBalena or devices one
  by one on a copy of their record, and save the copy at the end.
* *Requests beside the scheduler.* Direct writes (`gate()`) and server operations do
  not take the change lock.
* *State that others change too.* Devices, variables and pins are openBalena's, and the
  dashboard writes them; settings are a file that operators edit while threads read it.
* *Memory that a restart loses.* The job pool's queue, the build lock, the imagemaker's
  jobs.
* *Time limits.* Waves, soaks, verification, windows, docker commands, release waits.

## Modules

| Module | Models | Checked in |
|---|---|---|
| `ChangeLifecycle` | `changes.py`: every operation, step by step between commits; `gate()` and direct writes of `app.py`; release windows | `MCChangeLifecycle` |
| `FleetMutex` | what the fleets see of change sets: a lock per fleet, taken for all fleets of a change at once | refined by `ChangeLifecycle` (`MutexSpec`) |
| `Rollout` | one `release.deploy` item from the first tick to the end of verification or rollback: `rollout.py` and what `changes.py` does around it | `MCRollout` |
| `Fanout` | change sets of `site.change` items: `fanout.py` and what `changes.py` does around it | `MCFanout` |
| `ServerOps` | `ServerOps` of `server.py` on the pool of `jobs.py` | `MCServerOps` |
| `EnvPatch` | `env.py`, and what `service.py`, `changes.py` and `app.py` do with it: a change of `env.patch` items beside direct patches | `MCEnvPatch` |
| `Builds` | `builds.py` and `webhooks.py` on the pool of `jobs.py`, the builder's stream, and a change that waits for its build | `MCBuilds` |
| `Settings` | `SettingsProvider` of `settings.py` and the scheduler's loop of `app.py` | through `Images` |
| `Images` | `images.py`, the client cache of `app.py` and the jobs of `imagemaker/server.js`, composed with `Settings` | `MCImages` |
| `WavePlan` | `validate_waves`, `_match`, `plan_waves`, `reaches_fleet` of `rollout.py` as operators, and their two uses: the review and the start | `MCWavePlan` |
| `ChangeLifecycle_proofs`, `Rollout_proofs`, `Fanout_proofs`, `ServerOps_proofs`, `EnvPatch_proofs`, `Builds_proofs`, `Images_proofs`, `WavePlan_proofs` | the theorems about the module of that name, with their proofs | TLAPS |

`Rollout`, `Fanout`, `EnvPatch` and the item of `Builds` are the inside of what
`ChangeLifecycle` takes as one step (`RunItem`); `StillWorking` there stands for a tick
that leaves them running. `Rollout` and `Fanout` take the waves as a constant, disjoint
sets of devices: `RunIsRollable` (`WavePlan_proofs`) proves that `plan_waves` makes such.

### ChangeLifecycle

The variables of the first group are the columns of the rows. `at`, `cur`, `todo` are
the thread that holds `_LOCK`: where it stands, the change it works on, what is left of
the scheduler pass. Each action is the code between two commits, so a crash (`Crash`),
an exception of the database or the audit log (`Abort`) and a failing openBalena call
(`PineError`) can fall between any two. API operations start only from `Idle`. The
scheduler pass takes changes oldest first.

Data is reduced to what decides: the base of a change is one value per fleet and is also
the plan hash; a policy is the number of approvals per resource class; a user is the set
of classes whose permission the user holds; a window is open or closed, and a scheduled
change is scheduled for the next window, in this one, or has missed it. An item runs and
is recorded in one step (its inside is `Rollout` and `Fanout`). A halted rollout, and a
failure after items that ran, saves the progress and goes through the rollback, with its
own commits (`RunHalted`); another failure ends the change (`RunFail`). Emergency
changes, freezes, `not_before` and signatures are left out: they change which branch of
`_decide` is taken, not what follows. `metrolla_auth.change_control`, which is not in
the repository, is modelled from its use.

### Rollout

`saved` is the rollout record in the database, `mem` the copy a tick works on. A tick is
one or more actions: record the prior pins, pin device by device, note which are
updated, halt, soak, move the fleet, unpin. A failing call or a crash at any of them
(`Fail`) drops `mem`. Devices follow their pin, go offline, get ill and can be deleted.
The calls of a wave happen in any order. `health` is what a device's EdgeAPI says of its
site; `HealthOf` is the verdict of `reach.py`, where connectivity stands in for an EdgeAPI
that is not reached, and `Worse` compares it with the baseline, without a verdict when
either is unknown.
`Pins` are the pins devices start with: none, or the previous or the new release, which
are eligible for any wave, or another one, when a wave names the device.
The fleet always has a previous release. `applied` are the `AppliedTarget` rows, keyed
like the table (`None` is the fleet): every call but the pins of a wave is followed by a
commit of its own (`owed`, `RecordTarget`), which a crash can miss. When the waves do not
reach the fleet, the rows of all pinned devices are written in one step.

### Fanout

As `Rollout`, with POST and GET calls to devices in place of pins. `live` is the device
list read at the start of a tick; a device may be offline by the time it is called. A
device keeps the change it was sent under its idempotency key (`made`, external). A call
can be refused, or answered without the answer arriving; a GET that is not answered with
200 leaves the state the record has, which halts the fan-out at once if it is a bad one.
Every bad end of a site change is `rolled_back`. The change id is part of every key and
is constant, so it is left out.

### ServerOps

`row` is the row's state, `tracked` says its result names a container and a pidfile,
`command` is the command in its container, `job` where the thread of an operation
stands. `queue` is the pool's queue, with `recover` submitted first by `create_app`. A
restart keeps rows and commands and drops jobs. Starting the command and writing the
pidfile, two statements of one shell line in the container, are one step: the model does
not have a stop that falls between them. docker exec returns only when its command ended.

### EnvPatch

One scope (a fleet, a service of it, a device, or a service on a device) and its
variables. `live` is openBalena's table, `applied` the rows that drift compares. Planning
reads the base, then openBalena once more for the diff of each item (`PlanBase`,
`PlanDiff`, `PlanSave`; `PlanRefused` when the scope is gone), so the values shown for a
name can differ from its base and from each other (`shown`, a set per name). A request
passes the gate (`Gate`) and reads afterwards (`PatchDirectly`); a change may start in
between. A change whose scope is gone when it would start becomes stale if the scope is a
device or fleet, and stays as it is, to be tried at every tick, if it is a deleted
service, whose `EnvError` `_base_moved` lets through. Each
writer, a request or the change, is a thread with a patch, what it read, and the names
left to write; a write, its read, the record and the save are separate steps, so a
failing call (`CallFails`), a clash with a row made meanwhile or deleted (`Refused`), a
crash, an edit in the dashboard (`Outside`) or another writer can fall between any two.
`undo` is the loop of `_rollback` with the errors it collects. Secrets are masked only
when shown and are left out. Recording a patch is one commit, as in the code. The
history variables say which names others wrote: `outside` in the dashboard, `crossed`
since the base was compared, `broken` when a patch was cut short or two patches of one
name overlapped. They only restrict the properties.

### Builds

`row` is `Build.state`, `queue` and `running` the thread pool, `lock` `_BUILD_LOCK`. A
worker takes a job and, if it is a build, waits for the lock in the worker. `result` is
what the builder's stream told the thread: whether it said ok, and whether the release's
id or commit came through before it ended or broke. `release` is openBalena's release,
which can settle after the stream. `starter` is a call of `start` between its commit and
the submission, by a request or by the change, which saves the id of its build after
that. Deliveries of events hold a worker during their three attempts. An error outside
the code that marks a build failed, before its `try` or in the commit of one of its
handlers, leaves the row as it is (`Escapes`). After the build the change deploys its
release (`DeployBuilt`), which refuses one that is not final and successful. `loose` and
`lost` are history: builds nobody waits for any more, and builds that a crash or such an
error left behind. A release is never deleted, and the wait of `_wait_release` may end
at any time (its deadline).

### Settings and Images

`file` is `fleet-api.yaml` with a version that stands for its mtime: every edit gives
another one. `kept` is `None` while the defaults are in effect. `reader` is where a
thread stands in `current()`: before the lock, reading, between the read and the `stat`,
building. `kept` and `mtime` are the provider's. The first `stat` and the comparison are
one step, which loses no behaviour. A text is good, refused by `parse_change_control`,
YAML that is no mapping ("scalar"), no YAML, or missing; merging with the defaults is
not modelled further. `Images` adds requests that take a client from the settings of the
moment, post a job or poll it, and commit: two polls of one row can cross, the answers
can be lost or be neither 200 nor 404, an imagemaker can restart and lose its jobs, and
an edit can point to another imagemaker. `fate` is what happened to each job,
`overtaken` the polls that read their row before another poll ended it; both are
history.

### WavePlan

Devices are numbers in name order, a reference is the set of devices whose name or uuid
it is and the set whose uuid it begins. `PlanWaves` gives each wave from the devices in
the waves before it (`Assigned`, a recursive function of the wave's number). The inner
loop, which takes devices in name order until the percentage is reached, is `Fill`, in
closed form; the assumption `FillIsTheLoop` of `MCWavePlan` has TLC compare it with the
loop, written as a fold, for all pools, percentages and devices already assigned.
`Review` takes every device for eligible, as `_plan` does; `Start` leaves out devices
pinned to another release that no wave names. Between the two a device may be pinned,
added or removed (`Drift`).

## Runs

| Run | Instance | What it shows |
|---|---|---|
| `changes_approvals` | one change of two classes (two approvals; none), three users without, with one and with both permissions, direct writes, two crashes | no plan runs without its approvals, however often it is re-planned, gone stale and approved again |
| `changes_rollouts` | two changes, one of a fleet and one of that and another fleet, one waiting for windows, one crash | one rollout per fleet, refinement of `FleetMutex`, start on the reviewed base when there are no direct writes |
| `changes_liveness` | two changes of one fleet, one that needs an approval, one windowed, one crash | every approved change is decided, every rollout ends; without a crash nothing approved is forgotten and what is applied is in effect |
| `rollout_faults` | canary wave and the rest, one flaky device, one that gets ill, every call can fail | prior pins are never confused with the new one, rollbacks restore, waves in order, the rollout ends, and is noted as done only when it is in effect |
| `rollout_no_faults` | the same with offline halts, an EdgeAPI that degrades, falls silent or says something unknown, deleted devices, an empty last wave and operator rollbacks, no failing call | the fleet goes back too, and moves only on devices that hold the new release; an applied change is in effect |
| `fanout_waves` | a canary, an empty wave, two devices; one crash | see the properties in `Fanout` |
| `serverops_operations` | two prunes and a proxy restart, two threads, one restart | one command of a type, ended stays ended, no row stays running |
| `env_items` | two names, one value or none, two items that patch both names opposite ways, one request that patches one of them, one failing call or crash, one edit in the dashboard, the deletion of the scope | the diff that was shown, the rollback and drift are right except for names that somebody else wrote or a cut-short patch left half written |
| `builds_pool` | two builds, started by requests or a change, two workers, one webhook delivery, two failing calls or crashes | one release is made at a time, a build that succeeded is final, builds that are not left behind, the waiting item and the delivery end |
| `images_settings` | two request threads and the scheduler, two edits of any kind (the second may name another imagemaker), one image, one slot, two bad answers or restarts | an image that ended stays so, whichever poll commits last, unless its job was lost or answered for badly; settings follow the file |
| `images_scheduler` | one edit to a text that is not YAML | the disagreement below |
| `plans_waves` | up to four devices with any pins, every sequence of up to three waves out of seven kinds, one device pinned, removed or added after the review | the waves are as documented, and are those reviewed |

The bounds. Two changes are enough for two to compete, and a third only competes with
each in the same way; two fleets let changes overlap in one and not in the other. One
crash separates any two commits; two are used where a second can hit the recovery.
Two or three devices give a wave before, an empty wave and a wave with a choice. Devices start a rollout with
no pin, on the new release or on another; in `rollout_no_faults` also on the previous one. Two
operations of one type and one of another compete for two threads. Two names and two
items that undo each other let a patch stop half way and a rollback go back in the wrong
order; one value and "unset" are two values. Two builds and a delivery are one job more
than there are workers. Two edits let a reload miss the second. Four devices and
percentages of 34, 50 and 100 after named devices meet every rounding case of up to four.
`MaxFaults`, `MaxRestarts`, `Items`, `MaxEdits`, `MaxDrifts` and the length of the
queue in `Emit` are the bounds in guards; nothing counts for ever. Deadlock is not
checked: all changes, rollouts, builds and operations end.

Fairness. The scheduler thread is a loop that catches every exception, so `Tick` and the
steps of an operation that holds the lock go on (`SF` on `Tick`, since API calls take
the lock in between; weak fairness for the rest). Windows open and close. Two
assumptions end repetition: openBalena answers in the end (no infinite `PineError`), and
an item does not stay "still working" for ever (its time limits; `rollout_faults` and
`fanout_waves` check them for their items). The second is not true of a build that a
restart interrupted, which `BuildsEnd` excepts. `Rollout` assumes that failing calls
stop at some time. `Fanout` and `ServerOps` need only that their thread runs and, in
`Fanout`, that time passes. `EnvPatch` needs that the steps of the change go on (the
scheduler comes back, and its failing calls are bounded). `Builds` needs its threads to
run: streams have `timeout_s`, the wait for a release its deadline, deliveries their
timeout and three attempts, so nothing is asked of openBalena. `Settings` needs that a
thread that holds the lock goes on and that the scheduler asks for its interval again
and again; strong fairness, since requests may hold the lock each time it looks.

## Proofs

Every invariant and every action property of the passing runs is proved for all values
of the constants. A proof module extends the component's
module, states an inductive invariant `IInv` where the property is none, and shows that
the initial states and every action keep it; the theorems follow. `TypeCorrect` is
`Spec => []TypeOK` in each; in `Rollout`, `Fanout`, `Builds`, `Images` and `EnvPatch`
the types need the invariant too (a cursor that exists, a queue without repetitions, a
previous value of the item's own names). The assumptions are the named `ASSUME` of the
module: constants have their types, sentinels are no values, waves are disjoint sets
of devices. Further hypotheses are stated in the theorem.

`ChangeLifecycle_proofs`, for any changes, fleets, users, classes, policies and crashes:

* `OneRollout` (`OneRolloutPerFleet`), `AuthorityBehindRollouts` (`Authorised`).
  `OneRolloutPerFleet` is not inductive. `Begin` commits `applying` without another look
  at other changes; it is safe because the lock has been held since `AdvanceCheckBase`,
  which the invariant must say: `LockAgrees` ties `at` to the row of `cur`, and to `~Busy`
  before `Begin`. `Authorised` needs `ApprovalsSound`: an approval is never the author's
  and claims only permissions its giver holds, so that the approvals the code counts
  (`Qualifying`) are among those the property counts (`Approvers`).
* `FleetsAreLocked` (`MutexSpec`): the refinement of `FleetMutex`. A step changes the
  state of one row at most, so it takes or gives back the fleets of one change.
* `StartsAsReviewed` (`StartsOnReviewedBase`), with `DirectWrites = {}`, as in the run:
  with direct writes it is false. `BaseKept`: between the comparison and the start
  nobody else holds the lock, and only its holder moves fleets.
* `NothingMetIsForgotten` (`MetIsApprovedUncut`) and `AppliedIsInEffect`
  (`AppliedInEffectUncut`), by `MetIsSeen` and `RunIsDone`: who gives the last approval, or
  undoes a change, is still in the operation that records it.

`Rollout_proofs`, for any waves, devices and policy, wherever a call fails or the process
stops:

* `PriorPinsRecorded` (`PriorPinsFaithful`), `WavesKeepOrder` (`WavesInOrder`) and
  `RollbackRestoresPins` (`PinsRestored`). The invariant says what a tick in progress may
  rely on: its copy is the row some steps on (`CopyFits`), the devices it has left to call
  have a recorded pin and are of the current wave (`LeftFits`), the row it owes is of a
  device it has called (`OwedFits`), and what was put back stays so (`UndoneFits`).
* `RollbackRestoresFleet` (`FleetRestored`) and `FleetFollowsHeldDevices`
  (`FleetMovesOnHeldDevices`), with `Faulty = FALSE`: with failing calls both are false
  (see below). `CalmInvariant` adds that the fleet moved only if the copy says so
  (`FleetFits`), and that every touched device is held on the release, or is of the wave
  that is being pinned (`HeldFits`).
* `DoneIsInEffect` (`DoneInEffect`), with any faults, for rollouts of the whole fleet. The
  end of a rollout unpins the devices with a recorded pin, so `DoneInv` says that these
  are all that exist of the waves begun (`CoveredBy`), whatever was skipped, deleted or
  cut short; that the devices it has seen to follow the fleet and drift will have their
  record (`Row`); and that a row of a running rollout never says the fleet has moved,
  so a retry starts with the fleet again. The mutant `FinishFleetSaved`, which saves
  between the two, shows why.
* `AppliedIsInEffect` (`AppliedTookEffect`), with `Faulty = FALSE`, also for waves that
  leave the fleet alone. `EndInv` carries it from the end of the rollout through the
  verification: the change is verified only over a rollout that is done, and one that is
  done and not being put back is in effect. For `MoveFleet = FALSE` it rests on
  `CalmInvariant`: the devices are held on the release that is recorded for them.

`Fanout_proofs`, for any waves and any number of crashes:

* `SentOnceOnly` (`SentOnce`) and `StoppedStays` (`StoppedIsFinal`), for any number of
  items. `WaveSent` is what the types and polling need: every device of a sent wave has
  the change or was skipped, also when a crash made the wave be sent again.
* `UpdatedCorrect` (`UpdatedIsApplied`) and `WavesOverApplied`
  (`LaterWavesOverAppliedUncut`), with `Items = 1`. Two items share the idempotency key,
  so with two a device counts as updated by the first (see below), and one that was
  skipped can get the change in a wave of the second.

`ServerOps_proofs`, for any operations, types, pool and number of restarts:

* `OneCommandOfAType` (`OneOfATypeRecovered`) and `EndsStay` (`EndIsFinal`). Both rest on
  `start()` leaving one open row of a type (`RowsExclude`) and on every command at work
  having such a row (`RowsCover`). A restart keeps this only if `recover()` reads the rows
  before the first operation starts, so `RowsCover` and `RecoveryApart` (recovery only
  ends rows of the process before) are claimed as long as `early = {}`, which is what the
  properties except.

`EnvPatch_proofs`, for any patches, items, requests, values and faults:

* `DriftCorrect` (`DriftIsOutside`), by two conjuncts. `WritesFit`: of each name of a
  patch, openBalena has what the writer read or what it wrote. `RecordFits`: the applied
  rows are what openBalena has, up to names written and not yet recorded.
* `PlannedValuesReturn` (`UndoRestores`). Several items may patch one name, and items are
  undone last first, over several rollbacks if one was cut short. What is kept
  (`BackInv`): of the items still to restore, the first that patches a name saved its
  planned value; a name that none of them patches has its planned value already; a
  rollback in progress has given it to the names of the items behind it.
* `ShownIsApplied` (`DiffIsApplied`), by `ShownFits`: a name that can be written once
  only while the change is planned has, if its base is openBalena's, the value shown.
  Names of two requests can be written back around the diff; the property excepts them.

`Builds_proofs`, for any builds, deliveries, workers and faults:

* `BuilderHasOneRelease` (`OneReleaseAtATime`) and `SuccessIsDeployable`
  (`BuiltCanBeDeployed`). A release is made by the lock's holder, or by a build nobody
  waits for (`ReleaseFits`), because the holder gives the lock back only when its release
  has settled or it stopped waiting; what it was told of the release is in `HolderFits`.
  A job is in the pool once (`PoolFits`), so no second worker takes the build.

`Images_proofs`, with `Settings`, for any threads, images, edits and faults:

* `PolledEndStands` (`EndStands`). The invariant speaks of requests in flight: an answer a
  thread holds is about something that did happen to the job (`RequestFits`), which stays
  true however late it is committed, since `fate` only grows; a row that ended is what it
  was told (`RowTold`). A poll still under way when a row has ended is overtaken
  (`Crossing`), and two different ends need a mistaken answer, since a job ends once
  (`Apart`).
* `TypeCorrect` includes the settings' lock and the imagemakers' limit of builds.

`WavePlan_proofs`, for any fleet, pins, drift and waves asked for:

* `WavesMeanWhatIsAsked` (`WavesAsSpecified`). What a recursive definition computes is
  usually shown by induction, which the prover cannot do over data; here two arguments
  replace it. `AssignedDefined` and `AssignedIsBefore` (the devices assigned before a wave
  are those of the waves before it) suppose a first wave where the claim fails
  (`LeastNat`, from the well-foundedness of the naturals) and contradict it. That `Fill`
  reaches a percentage, and not further, is counted at the last device it takes
  (`LastDevice`): the devices up to it are one more than those before it (`FillIsEnough`,
  `FillIsNoMore`, `FillInOrder`). `PlanReachesFleet` is that 100 percent takes the pool.
* `ReviewedIsRun` (`RunIsAsShown`): without drift and without devices pinned elsewhere
  the eligible devices are all that are present, and the plan depends on nothing else.
* `RunIsRollable`: the waves that run satisfy the assumption of `Rollout` and `Fanout` on
  theirs.

Only model-checked: all liveness (`Decided`, `RolloutsEnd`, `RolloutEnds`, `FanoutEnds`,
`RowsEnd`, `EnvChangeEnds`, `BuildsEnd`, `SettingsFollow`), since fairness and `ENABLED` are
out of the prover's reach; that `Fill` is the loop of the code (`FillIsTheLoop`), which
takes an induction over a fold; and `SchedulerGoesOn`, which the code violates. Only
proved, in no run: the types of `Fanout` and `ServerOps`.

## A disagreement with the documentation

`images_scheduler`: the scheduler reads its interval outside the handler that guards a
tick. A `fleet-api.yaml` that is not YAML for a moment, half-written for instance, raises
there and ends the scheduler's thread; docs/fleet-api.md:131 and settings.py:150 say an
invalid edit keeps the previous settings. A request that reads the file first fails with
500 and does not help: the mtime is not noted, so the scheduler reads the file too. A
document that is no mapping raises too, but after the mtime is noted: it ends the
scheduler only if the scheduler is the first to read it. A `tick_s` that is no number
ends it always.

The images' documentation disagrees with the code too. images.py:8-9 and
docs/fleet-api.md:671 say that after the imagemaker restarts, earlier images report
failed. `get()` asks the imagemaker for rows that are `building` only (images.py:122), so
an image that was ready stays ready, with a download that answers 404. No run is spent on
it: `EarlierImagesReportFailed` (`Images`) states it and fails with one thread, one image,
one slot and `MaxFaults = 1`.

## Known not to hold

The properties are defined in the modules and fail under the constants given; the
properties that the runs check are the parts that do hold.

Change sets:

* `RolloutUndisturbed` (`ChangeLifecycle`): `request_rollback` does not look whether
  another change is rolling out on the fleet of the applied change it undoes.
  docs/fleet-api.md:502 says "One rollout per fleet. Others wait".
* `MetIsApproved` (`MaxFaults = 1`): a crash between the commit of the last approval
  (changes.py:504) and that of `approved` (472) leaves a fully approved change planned;
  nothing looks at planned changes again. `MetIsApprovedUncut` is the rest.
* `NoDirectWriteDuringRollout` (`ChangeLifecycle`, `DirectWrites` not empty): `gate()`
  takes no lock, so a write let through before a change starts lands during it. For the
  same reason `StartsOnReviewedBase` fails with direct writes.
* `CreationOrder` (`ChangeLifecycle`, two windowed changes): an approval or apply-now
  starts its own change without looking at older ones.
* `AppliedInEffect` (`MaxFaults = 1`): a crash between the two commits of a rollback.

Rollouts and fan-outs:

* `FleetRestored` (`Rollout`, `Faulty`): after a failure between moving the fleet
  (rollout.py:248) and saving that it moved, a halt or rollback leaves it on the new
  release.
* `FleetMovesOnHeldDevices` (`Rollout`, `Faulty`): a halt whose pin calls fail half way
  is decided anew, and may not be decided again.
* A rollback after a failed verification that is cut short after putting everything back
  leaves the change verifying; it may then pass, and end applied over the previous
  release. `PinsRestored` therefore speaks of `rolled_back` only.
* `DoneInEffect` without its condition `MoveFleet` (`Faulty` and `OperatorRollback`): an
  operator's rollback cut short after one device leaves the rollout running; it goes on,
  pins later waves and ends done with that device back on its old pin. With `MoveFleet`
  the end unpins that device too.
* `AppliedTookEffect` (`Faulty`): for that reason, and by the rollback cut short above.
* `RolloutEnds` (`Faulty` and `OperatorRollback`): a crash between the two commits of an
  operator's rollback leaves a reverted rollout in an applying change.
* A rollout whose wave names a device deleted after the approval cannot start
  (`WavePlan`, `Start`): the change raises at every tick and keeps its fleet busy until
  an operator rolls it back. Deletions of a patched scope do the same (`EnvChangeEnds`).
* `LaterWavesOverApplied` (`Fanout`, `MaxFaults = 1`): the change ids of a wave are saved
  after the whole wave; after a crash a device that went offline is recorded as skipped
  (fanout.py:64) though it has the change, and its rolled back change halts nothing.
* `UpdatedIsApplied` (`Fanout`, `Items = 2`): two `site.change` items of one change share
  the idempotency key, so devices never get the second.

Environment, builds, server operations:

* `UndoRestores` for names in `broken`: a crash between `patch_env` and the save makes
  the retry record the new values as the previous ones. `DiffIsApplied` for names in
  `crossed`: a write between the comparison and the start is missed; and for names that
  two requests patch: one between the reads of base and diff, and one that takes it back,
  go unseen.
* `BuildsEnd` for builds in `lost`: a restart forgets queued and running builds, and an
  error before the `try` of `run()` or in its handlers leaves it; their
  rows stay as they are, and a change that waits for one stays applying.
* `OneOfAType` (`ServerOps`): an operation started before `recover` has read the rows
  (server.py:193) is marked failed while it runs, and a second one of its type starts.
  docs/fleet-api.md:656 says "Only one operation of a type runs at a time".
* One bad answer of the imagemaker (images.py:72), or a settings edit that names another
  one, marks an image failed that is being built, for good. After one, or after a restart,
  a poll that was asked earlier can still turn the end into the other one: the row is not
  read again before the commit. `EndStands` excepts these (`Mistaken`), and no others.

## Not modelled

The health report and the image download only read. Merging of settings with the
defaults, the expansion of variables, the choice of hooks and the signing of events are
conversions without state. Git, the builder's tarball and output lines, the CONNECT
tunnel and the HTTP client are I/O and formatting. Ansible roles, scripts and container
files configure third-party services. Direct pins are one step in `ChangeLifecycle`.
Events may
reach a receiver in another order than they happened (several workers, retries); neither
the code nor its documentation promises one, and no property asks for it.
`Rollout` and `WavePlan` are not run in one module: `RunIsRollable` connects them.
