--------------------------- MODULE ChangeLifecycle ---------------------------
(***************************************************************************)
(* The life of fleet change sets: components/fleet-api/fleet_api/changes.py *)
(* with the direct-write gate of app.py.                                   *)
(*                                                                         *)
(* Every operation on change sets takes one process-wide lock (_LOCK), but *)
(* commits to the database several times while holding it, so a crash, or  *)
(* an exception out of a database or audit call, can end an operation      *)
(* between two commits.  The thread that holds the lock is `at', `cur',    *)
(* `todo'; a step of it ends with at most one commit.                      *)
(*                                                                         *)
(* What items do to a fleet is reduced to "item of fleet f ran": the       *)
(* fleet's observable base state (target release, env of the touched       *)
(* scopes) moves to another value.                                         *)
(***************************************************************************)
EXTENDS Naturals, FiniteSets

CONSTANTS
  Change,        \* change set ids
  Fleet,         \* fleets
  User,          \* principals that author or approve
  Class,         \* resource classes (release.deploy, env, ...)
  Version,       \* values the base state of a fleet can have
  None,          \* no change, no user, no fleet
  FleetsOf,      \* [Change -> SUBSET Fleet]: ChangeSet.fleets
  Policy,        \* [Change -> [classes touched -> approvals its policy asks]]
  Target,        \* [Change -> [Fleet -> Version]]: what the items make of each fleet
  Perm,          \* [User -> SUBSET Class]: classes whose permission a user holds
  Windowed,      \* changes that wait for a release window
  DirectWrites,  \* fleets that can be written directly ({} in gated mode)
  MaxFaults      \* bound: crashes and failed commits in a behaviour

ASSUME ConstantsOK ==
  /\ IsFiniteSet(User) /\ IsFiniteSet(Change)
  /\ None \notin Change \cup User \cup Fleet
  /\ FleetsOf \in [Change -> SUBSET Fleet]
  /\ \A c \in Change : DOMAIN Policy[c] \subseteq Class /\ Policy[c] \in [DOMAIN Policy[c] -> Nat]
  /\ Target \in [Change -> [Fleet -> Version]]
  /\ Perm \in [User -> SUBSET Class]
  /\ Windowed \subseteq Change /\ DirectWrites \subseteq Fleet
  /\ MaxFaults \in Nat

VARIABLES
  \* the database: ChangeSet and ChangeApproval rows
  state,      \* [Change -> State]
  author,     \* author_id, with author_permissions as held at creation
  base,       \* base, whose canonical JSON (with the fixed items) is the plan hash
  approvals,  \* approvals given, each bound to the hash it was given for
  age,        \* created_at, as a rank
  sched,      \* window the change is scheduled for (scheduled_for, window_end)
  ran,        \* progress: fleets whose items have been run
  did,        \* progress: fleets whose items are recorded as done and not undone
  prior,      \* progress: what each fleet had before the item ran
  \* balena: the fleets themselves
  world,
  \* the fleet-api process
  at, cur, todo,  \* the operation that holds _LOCK
  writer,         \* fleet a direct write has been let through for, or None
  \* environment
  calendar,   \* is a release window open?
  faults

rows == <<state, author, base, approvals, age, sched, ran, did, prior>>
ctl  == <<at, cur, todo>>
env  == <<writer, calendar, faults>>
vars == <<rows, world, ctl, env>>

Rolling   == {"applying", "verifying"}
Waiting   == {"approved", "scheduled"}
ACTIVE    == Waiting \cup Rolling
TERMINAL  == {"applied", "rolled_back", "failed", "cancelled", "expired", "rejected"}
State     == {"absent", "draft", "planned", "stale"} \cup ACTIVE \cup TERMINAL
Slot      == {"none", "next", "this", "missed"}
Step      == {"idle", "to_planned", "met", "next", "advance", "begin", "run", "verify",
              "rollback", "rolled"}
Approval  == [by : User, hash : [Fleet -> Version], held : SUBSET Class]

TypeOK ==
  /\ state \in [Change -> State]
  /\ author \in [Change -> User \cup {None}]
  /\ base \in [Change -> [Fleet -> Version]]
  /\ approvals \in [Change -> SUBSET Approval]
  /\ age \in [Change -> Nat]
  /\ sched \in [Change -> Slot]
  /\ ran \in [Change -> SUBSET Fleet] /\ did \in [Change -> SUBSET Fleet]
  /\ prior \in [Change -> [Fleet -> Version]]
  /\ world \in [Fleet -> Version]
  /\ at \in Step /\ cur \in Change \cup {None} /\ todo \in SUBSET Change
  /\ writer \in Fleet \cup {None}
  /\ calendar \in {"open", "closed"}
  /\ faults \in 0..MaxFaults

-----------------------------------------------------------------------------
(* Approval rules (metrolla_auth.change_control, as changes.py uses it).   *)

\* cc.requirement: a class without an approval policy takes the author's own
\* permission, or one approval when the author does not hold it.
Need(c, k) ==
  IF Policy[c][k] = 0 /\ (author[c] = None \/ k \notin Perm[author[c]]) THEN 1 ELSE Policy[c][k]

\* Approvals of the plan as it is now that count toward class k.
Qualifying(c, k) ==
  {u \in User : \E a \in approvals[c] : a.by = u /\ a.hash = base[c] /\ k \in a.held}

RequirementsMet(c) ==
  \A k \in DOMAIN Policy[c] : Cardinality(Qualifying(c, k)) >= Need(c, k)

\* cc.held_permissions: what the approver holds of what still counts.
Held(u, c) == {k \in DOMAIN Policy[c] : k \in Perm[u] /\ Need(c, k) > 0}

-----------------------------------------------------------------------------
(* Reads of the database and of the fleets.                                *)

\* Mutant: a change that verifies no longer holds its fleets.
BusyApplying(c) ==
  \E d \in Change \ {c} : state[d] = "applying" /\ FleetsOf[d] \cap FleetsOf[c] # {}

Busy(c) ==
  \E d \in Change \ {c} : state[d] \in Rolling /\ FleetsOf[d] \cap FleetsOf[c] # {}

FleetBusy(f) == \E c \in Change : state[c] \in Rolling /\ f \in FleetsOf[c]

BaseMoved(c) == \E f \in FleetsOf[c] : world[f] # base[c][f]

\* _base: what the fleets of the change look like now.
CurrentBase(c) == [f \in Fleet |-> IF f \in FleetsOf[c] THEN world[f] ELSE base[c][f]]

\* cc.decide, reduced to windows: emergencies and policies without a window
\* apply at once; a scheduled change whose window has passed expires.
Decide(c) ==
  IF c \notin Windowed THEN "apply"
  ELSE IF state[c] = "scheduled" /\ sched[c] = "missed" THEN "expire"
  ELSE IF calendar = "open" THEN "apply" ELSE "wait"

-----------------------------------------------------------------------------
(* The thread that holds _LOCK.                                            *)

Idle == at = "idle"
At(step, c) == at = step /\ cur = c

GoTo(step, c) == at' = step /\ cur' = c /\ UNCHANGED todo

\* Releases the lock, or goes on with the scheduler pass.
Finish == /\ at' = (IF todo = {} THEN "idle" ELSE "next")
          /\ cur' = None
          /\ UNCHANGED todo

\* _transition: the commit of a new state.
SetState(c, s) == state' = [state EXCEPT ![c] = s]

Init ==
  /\ state = [c \in Change |-> "absent"]
  /\ author = [c \in Change |-> None]
  /\ world \in [Fleet -> Version]
  /\ base = [c \in Change |-> world]
  /\ approvals = [c \in Change |-> {}]
  /\ age = [c \in Change |-> 0]
  /\ sched = [c \in Change |-> "none"]
  /\ ran = [c \in Change |-> {}]
  /\ did = [c \in Change |-> {}]
  /\ prior = [c \in Change |-> world]
  /\ at = "idle" /\ cur = None /\ todo = {}
  /\ writer = None
  /\ calendar \in {"open", "closed"}
  /\ faults = 0

-----------------------------------------------------------------------------
(* API operations.  Each takes the lock, so each starts from Idle.         *)

\* POST /changes: the row is committed as a draft, then planned.
Create(c, u, draft) ==
  /\ Idle /\ state[c] = "absent"
  /\ SetState(c, "draft")
  /\ author' = [author EXCEPT ![c] = u]
  /\ base' = [base EXCEPT ![c] = CurrentBase(c)]
  /\ age' = [age EXCEPT ![c] = 1 + Cardinality({d \in Change : state[d] # "absent"})]
  /\ IF draft THEN Finish ELSE GoTo("to_planned", c)
  /\ UNCHANGED <<approvals, sched, ran, did, prior, world, env>>

\* POST /changes/{id}/plan: a new base, hence a new hash.
Replan(c) ==
  /\ Idle /\ state[c] \in {"draft", "stale", "planned"}
  /\ base' = [base EXCEPT ![c] = CurrentBase(c)]
  /\ GoTo(IF state[c] = "planned" THEN "met" ELSE "to_planned", c)
  /\ UNCHANGED <<state, author, approvals, age, sched, ran, did, prior, world, env>>

\* Mutant: approvals the plan already has are not looked at.
ToPlannedOnly(c) ==
  /\ At("to_planned", c)
  /\ SetState(c, "planned")
  /\ Finish
  /\ UNCHANGED <<author, base, approvals, age, sched, ran, did, prior, world, env>>

ToPlanned(c) ==
  /\ At("to_planned", c)
  /\ SetState(c, "planned")
  /\ GoTo("met", c)
  /\ UNCHANGED <<author, base, approvals, age, sched, ran, did, prior, world, env>>

\* Mutant: authors approve their own changes.
ApproveByAuthor(c, u) ==
  /\ Idle /\ state[c] = "planned"
  /\ \A a \in approvals[c] : a.by = u => a.hash # base[c]
  /\ Held(u, c) # {} /\ ~BaseMoved(c)
  /\ approvals' = [approvals EXCEPT ![c] = @ \cup {[by |-> u, hash |-> base[c], held |-> Held(u, c)]}]
  /\ GoTo("met", c)
  /\ UNCHANGED <<state, author, base, age, sched, ran, did, prior, world, env>>

\* POST /changes/{id}/approve by someone who reviewed the current hash.
Approve(c, u) ==
  /\ Idle /\ state[c] = "planned"
  /\ u # author[c]
  /\ \A a \in approvals[c] : a.by = u => a.hash # base[c]
  /\ Held(u, c) # {}
  /\ IF BaseMoved(c)
       THEN /\ SetState(c, "stale")
            /\ Finish
            /\ UNCHANGED approvals
       ELSE /\ approvals' = [approvals EXCEPT
                 ![c] = @ \cup {[by |-> u, hash |-> base[c], held |-> Held(u, c)]}]
            /\ GoTo("met", c)
            /\ UNCHANGED state
  /\ UNCHANGED <<author, base, age, sched, ran, did, prior, world, env>>

\* _maybe_approved
MaybeApproved(c) ==
  /\ At("met", c)
  /\ IF state[c] = "planned" /\ RequirementsMet(c)
       THEN SetState(c, "approved") /\ GoTo("advance", c)
       ELSE Finish /\ UNCHANGED state
  /\ UNCHANGED <<author, base, approvals, age, sched, ran, did, prior, world, env>>

\* Mutant: a state nobody else knows.
RejectDeclined(c) ==
  /\ Idle /\ state[c] \in {"planned", "approved", "scheduled"}
  /\ SetState(c, "declined")
  /\ UNCHANGED <<author, base, approvals, age, sched, ran, did, prior, world, ctl, env>>

Reject(c) ==
  /\ Idle /\ state[c] \in {"planned", "approved", "scheduled"}
  /\ SetState(c, "rejected")
  /\ UNCHANGED <<author, base, approvals, age, sched, ran, did, prior, world, ctl, env>>

\* The states cc.TRANSITIONS lets go to cancelled.
Cancel(c) ==
  /\ Idle /\ state[c] \in {"draft", "planned", "stale", "approved", "scheduled"}
  /\ SetState(c, "cancelled")
  /\ UNCHANGED <<author, base, approvals, age, sched, ran, did, prior, world, ctl, env>>

\* POST /changes/{id}/apply
ApplyNow(c) ==
  /\ Idle /\ state[c] \in Waiting
  /\ Decide(c) = "apply" /\ ~Busy(c)
  /\ GoTo("advance", c)
  /\ UNCHANGED <<rows, world, env>>

\* POST /changes/{id}/rollback
RequestRollback(c) ==
  /\ Idle /\ state[c] \in Rolling \cup {"applied"}
  /\ GoTo("rollback", c)
  /\ UNCHANGED <<rows, world, env>>

-----------------------------------------------------------------------------
(* The scheduler pass and advance().                                       *)

\* Mutants: a pass over part of the active changes only.
TickOver(states) ==
  /\ Idle
  /\ todo' = {c \in Change : state[c] \in states}
  /\ todo' # {}
  /\ at' = "next" /\ UNCHANGED cur
  /\ UNCHANGED <<rows, world, env>>
TickRolling == TickOver(Rolling)
TickWaiting == TickOver(Waiting)

Tick ==
  /\ Idle
  /\ todo' = {c \in Change : state[c] \in ACTIVE}
  /\ todo' # {}
  /\ at' = "next" /\ UNCHANGED cur
  /\ UNCHANGED <<rows, world, env>>

\* The next change of the pass, oldest first.
TickNext(c) ==
  /\ at = "next" /\ c \in todo /\ \A d \in todo : age[c] <= age[d]
  /\ at' = "advance" /\ cur' = c /\ todo' = todo \ {c}
  /\ UNCHANGED <<rows, world, env>>

\* The decisions advance() takes before anything is applied.
AdvanceExpire(c) ==
  /\ At("advance", c) /\ state[c] \in Waiting /\ Decide(c) = "expire"
  /\ SetState(c, "expired")
  /\ Finish
  /\ UNCHANGED <<author, base, approvals, age, sched, ran, did, prior, world, env>>

\* Outside a window, or behind another change inside one.
AdvanceSchedule(c) ==
  /\ At("advance", c) /\ state[c] \in Waiting
  /\ \/ /\ Decide(c) = "wait"
        /\ sched' = [sched EXCEPT ![c] = "next"]
        /\ SetState(c, "scheduled")
     \/ /\ Decide(c) = "apply" /\ Busy(c)
        /\ IF state[c] = "approved" /\ c \in Windowed
             THEN sched' = [sched EXCEPT ![c] = "this"] /\ SetState(c, "scheduled")
             ELSE UNCHANGED <<sched, state>>
  /\ Finish
  /\ UNCHANGED <<author, base, approvals, age, ran, did, prior, world, env>>

\* Mutants: no busy check; no base check.
AdvanceNoBusyCheck(c) ==
  /\ At("advance", c) /\ state[c] \in Waiting /\ Decide(c) = "apply"
  /\ GoTo("begin", c)
  /\ UNCHANGED <<rows, world, env>>
AdvanceNoBaseCheck(c) == ~Busy(c) /\ AdvanceNoBusyCheck(c)

\* The base check, against the fleets as they are now; what follows it
\* (_initial_progress probes every device) runs before the commit of `begin'.
AdvanceCheckBase(c) ==
  /\ At("advance", c) /\ state[c] \in Waiting /\ Decide(c) = "apply" /\ ~Busy(c)
  /\ IF BaseMoved(c)
       THEN SetState(c, "stale") /\ Finish
       ELSE GoTo("begin", c) /\ UNCHANGED state
  /\ UNCHANGED <<author, base, approvals, age, sched, ran, did, prior, world, env>>

Begin(c) ==
  /\ At("begin", c)
  /\ SetState(c, "applying")
  /\ ran' = [ran EXCEPT ![c] = {}] /\ did' = [did EXCEPT ![c] = {}]
  /\ GoTo("run", c)
  /\ UNCHANGED <<author, base, approvals, age, sched, prior, world, env>>

AdvanceRolling(c) ==
  /\ At("advance", c) /\ state[c] \in Rolling
  /\ GoTo(IF state[c] = "applying" THEN "run" ELSE "verify", c)
  /\ UNCHANGED <<rows, world, env>>

-----------------------------------------------------------------------------
(* _run_items, _verify and _rollback.                                      *)

\* An item of fleet f runs to its end and is recorded.
RunItem(c, f) ==
  /\ At("run", c) /\ f \in FleetsOf[c] \ ran[c]
  /\ prior' = [prior EXCEPT ![c][f] = world[f]]
  /\ world' = [world EXCEPT ![f] = Target[c][f]]
  /\ ran' = [ran EXCEPT ![c] = @ \cup {f}] /\ did' = [did EXCEPT ![c] = @ \cup {f}]
  /\ UNCHANGED <<state, author, base, approvals, age, sched, ctl, env>>

\* Devices still updating or soaking, a build running, verification settling.
StillWorking(c) ==
  /\ at \in {"run", "verify"} /\ cur = c
  /\ Finish
  /\ UNCHANGED <<rows, world, env>>

\* Mutant: verifies before the last item ran.
RunDoneEarly(c) ==
  /\ At("run", c)
  /\ SetState(c, "verifying")
  /\ GoTo("verify", c)
  /\ UNCHANGED <<author, base, approvals, age, sched, ran, did, prior, world, env>>

RunDone(c) ==
  /\ At("run", c) /\ ran[c] = FleetsOf[c]
  /\ SetState(c, "verifying")
  /\ GoTo("verify", c)
  /\ UNCHANGED <<author, base, approvals, age, sched, ran, did, prior, world, env>>

\* A failed build or fan-out: failed, if it leaves nothing to undo.
RunFail(c) ==
  /\ At("run", c) /\ ran[c] # FleetsOf[c] /\ did[c] = {}
  /\ SetState(c, "failed")
  /\ Finish
  /\ UNCHANGED <<author, base, approvals, age, sched, ran, did, prior, world, env>>

\* A halted rollout, whether or not an item before it ran, and a failure after
\* an item that did: the progress is saved, then the rollback begins.
RunHalted(c) ==
  /\ At("run", c) /\ ran[c] # FleetsOf[c]
  /\ GoTo("rollback", c)
  /\ UNCHANGED <<rows, world, env>>

VerifyPassed(c) ==
  /\ At("verify", c)
  /\ SetState(c, "applied")
  /\ Finish
  /\ UNCHANGED <<author, base, approvals, age, sched, ran, did, prior, world, env>>

\* Worse health, or the verify timeout.
VerifyFailed(c) ==
  /\ At("verify", c)
  /\ GoTo("rollback", c)
  /\ UNCHANGED <<rows, world, env>>

\* Undoes the recorded items and saves which were undone; items whose undo
\* raises (all but those of S) keep their effect and are only reported.
Undo(c, S) ==
  /\ At("rollback", c)
  /\ S \in SUBSET did[c]
  /\ world' = [f \in Fleet |-> IF f \in S THEN prior[c][f] ELSE world[f]]
  /\ did' = [did EXCEPT ![c] = @ \ S]
  /\ GoTo("rolled", c)
  /\ UNCHANGED <<state, author, base, approvals, age, sched, ran, prior, env>>

RolledBack(c) ==
  /\ At("rolled", c)
  /\ SetState(c, "rolled_back")
  /\ Finish
  /\ UNCHANGED <<author, base, approvals, age, sched, ran, did, prior, world, env>>

-----------------------------------------------------------------------------
(* Failures.                                                               *)

\* BalenaError or OSError from the fleets: logged, retried next tick.
PineError ==
  /\ at \in {"advance", "begin", "run", "verify"}
  /\ Finish
  /\ UNCHANGED <<rows, world, env>>

\* A database or audit call of the operation raises between two commits.
Abort ==
  /\ at \notin {"idle", "next"} /\ faults < MaxFaults
  /\ faults' = faults + 1
  /\ Finish
  /\ UNCHANGED <<rows, world, writer, calendar>>

\* The process dies and restarts: the rows survive.
Crash ==
  /\ faults < MaxFaults
  /\ ~Idle \/ writer # None
  /\ faults' = faults + 1
  /\ at' = "idle" /\ cur' = None /\ todo' = {} /\ writer' = None
  /\ UNCHANGED <<rows, world, calendar>>

-----------------------------------------------------------------------------
(* A direct write: gate(), which takes no lock, then the write.            *)

DirectGate(f) ==
  /\ f \in DirectWrites /\ writer = None /\ ~FleetBusy(f)
  /\ writer' = f
  /\ UNCHANGED <<rows, world, ctl, calendar, faults>>

DirectWrite(f, v) ==
  /\ writer = f /\ v # world[f]
  /\ world' = [world EXCEPT ![f] = v]
  /\ writer' = None
  /\ UNCHANGED <<rows, ctl, calendar, faults>>

(* Release windows open and close whatever the service does.               *)
OpenWindow ==
  /\ calendar = "closed" /\ calendar' = "open"
  /\ sched' = [c \in Change |-> IF sched[c] = "next" THEN "this" ELSE sched[c]]
  /\ UNCHANGED <<state, author, base, approvals, age, ran, did, prior, world, ctl, writer, faults>>

CloseWindow ==
  /\ calendar = "open" /\ calendar' = "closed"
  /\ sched' = [c \in Change |-> IF sched[c] = "this" THEN "missed" ELSE sched[c]]
  /\ UNCHANGED <<state, author, base, approvals, age, ran, did, prior, world, ctl, writer, faults>>

-----------------------------------------------------------------------------
ApiOp ==
  \E c \in Change :
    \/ \E u \in User : Approve(c, u) \/ \E draft \in BOOLEAN : Create(c, u, draft)
    \/ Replan(c) \/ Reject(c) \/ Cancel(c) \/ ApplyNow(c) \/ RequestRollback(c)

\* The steps of an operation once it holds the lock.
Continue(c) ==
  \/ ToPlanned(c) \/ MaybeApproved(c) \/ TickNext(c)
  \/ AdvanceExpire(c) \/ AdvanceSchedule(c) \/ AdvanceCheckBase(c) \/ Begin(c) \/ AdvanceRolling(c)
  \/ StillWorking(c) \/ RunDone(c) \/ RunFail(c) \/ RunHalted(c)
  \/ VerifyPassed(c) \/ VerifyFailed(c)
  \/ RolledBack(c)
  \/ \E f \in Fleet : RunItem(c, f)
  \/ \E S \in SUBSET Fleet : Undo(c, S)

Next ==
  \/ ApiOp
  \/ Tick \/ \E c \in Change : Continue(c)
  \/ PineError \/ Abort \/ Crash
  \/ \E f \in Fleet : DirectGate(f) \/ \E v \in Version : DirectWrite(f, v)
  \/ OpenWindow \/ CloseWindow

Spec == Init /\ [][Next]_vars

\* The scheduler thread ticks for ever and an operation that holds the lock goes
\* on; RLock lets the scheduler in sooner or later however busy the API is.  The
\* fleets answer in the end, and an item or a verification does not stay "still
\* working" for ever (update_timeout_min, verify_timeout_s).
Fairness ==
  /\ WF_vars(\E c \in Change : Continue(c))
  /\ SF_vars(Tick)
  /\ WF_vars(OpenWindow) /\ WF_vars(CloseWindow)
  /\ <>[][~PineError]_vars
  /\ <>[][~\E c \in Change : StillWorking(c)]_vars

FairSpec == Spec /\ Fairness

-----------------------------------------------------------------------------
(* Properties.                                                             *)

\* One rollout per fleet: two changes that roll out at the same time touch
\* different fleets, whoever started them (scheduler, approval, apply now) and
\* wherever the service crashed (_busy, advance).
OneRolloutPerFleet ==
  \A c, d \in Change :
    c # d /\ state[c] \in Rolling /\ state[d] \in Rolling => FleetsOf[c] \cap FleetsOf[d] = {}

\* Users other than the author who hold the permission of class k and approved
\* the plan exactly as it is now.
Approvers(c, k) ==
  {u \in User \ {author[c]} :
     k \in Perm[u] /\ \E a \in approvals[c] : a.by = u /\ a.hash = base[c]}

\* Authority comes from approvals, not from the author: every class of a change
\* that may run, runs or ran has the approvals its policy asks for on the very
\* plan that runs, and at least one when the author lacks the permission.
Authorised ==
  \A c \in Change : state[c] \in ACTIVE \cup {"applied"} =>
    \A k \in DOMAIN Policy[c] :
      /\ Cardinality(Approvers(c, k)) >= Policy[c][k]
      /\ k \notin Perm[author[c]] => Approvers(c, k) # {}

\* Between operations no change with all its approvals is left planned: nothing
\* looks at planned changes again (tick reads ACTIVE), and its approvers get
\* "already approved" if they try once more.
MetIsApproved ==
  Idle => \A c \in Change : state[c] = "planned" => ~RequirementsMet(c)

\* An applied change is in effect: every item it ran is still recorded as done.
AppliedInEffect ==
  \A c \in Change : state[c] = "applied" /\ ~At("rolled", c) => did[c] = FleetsOf[c]

\* The same as long as no operation was cut short between two of its commits.
MetIsApprovedUncut   == faults = 0 => MetIsApproved
AppliedInEffectUncut == faults = 0 => AppliedInEffect

\* What keeps the two invariants above true from one step to the next: where the
\* thread stands agrees with the row it works on, approvals are never the
\* author's and never claim a permission their giver lacks.
LockAgrees ==
  \A c \in Change :
    /\ At("begin", c) => state[c] \in Waiting /\ ~Busy(c)
    /\ At("run", c) => state[c] = "applying"
    /\ At("verify", c) => state[c] = "verifying"

ApprovalsSound ==
  \A c \in Change :
    /\ state[c] = "absent" => approvals[c] = {}
    /\ \A a \in approvals[c] : a.by # author[c] /\ a.held \subseteq Perm[a.by]

\* The inductive invariant of the proofs: one rollout per fleet and authority
\* behind every running change, with the two facts that keep them so.
IInv == OneRolloutPerFleet /\ Authorised /\ LockAgrees /\ ApprovalsSound

\* The commit that starts a rollout.
Starts(c) == state[c] \in Waiting /\ state'[c] = "applying"

\* A change starts against the fleets its approvers reviewed.
StartsOnReviewedBase ==
  [][\A c \in Change : Starts(c) => ~BaseMoved(c)]_vars

\* Changes of a fleet start in creation order: none starts while an older one
\* that is scheduled could.  (Not what the code does: an approval, or apply now,
\* advances its own change only.)
CreationOrder ==
  [][\A c \in Change : Starts(c) =>
       \A d \in Change \ {c} :
         ~ /\ age[d] < age[c] /\ FleetsOf[d] \cap FleetsOf[c] # {}
           /\ state[d] = "scheduled" /\ Decide(d) = "apply" /\ ~Busy(d) /\ ~BaseMoved(d)]_vars

\* No direct write lands on a fleet a change is rolling out on (409
\* rollout-in-progress).  (Not what the code does: gate() takes no lock, and the
\* change may start before the write.)
NoDirectWriteDuringRollout ==
  [][\A f \in Fleet : FleetBusy(f) /\ world'[f] # world[f] => writer' = writer]_vars

\* While a change rolls out on a fleet nothing but that change moves the fleet.
RolloutUndisturbed ==
  [][\A f \in Fleet, c \in Change :
       state[c] \in Rolling /\ f \in FleetsOf[c] /\ world'[f] # world[f] => cur = c]_vars

\* Every approved change is decided: started, stale, expired, or withdrawn.
Decided == \A c \in Change : state[c] \in Waiting ~> state[c] \notin Waiting

\* Every rollout ends, so the fleet becomes free for the changes queued behind it.
RolloutsEnd == \A c \in Change : state[c] \in Rolling ~> state[c] \notin Rolling

-----------------------------------------------------------------------------
(* What the fleets see: a lock per fleet, taken for all fleets of a change  *)
(* at once.                                                                *)

Owner == [f \in Fleet |->
           IF FleetBusy(f)
             THEN CHOOSE c \in Change : state[c] \in Rolling /\ f \in FleetsOf[c]
             ELSE None]

Mutex == INSTANCE FleetMutex WITH owner <- Owner
MutexSpec == Mutex!Spec
=============================================================================
