------------------------------- MODULE Builds -------------------------------
(***************************************************************************)
(* Release builds: BuildRunner of builds.py on the thread pool of jobs.py, *)
(* one build at a time under _BUILD_LOCK, the remote builder and the       *)
(* release it makes, and a release.build item of a change set that waits   *)
(* for its build (changes.py).  The deliveries of webhooks.py share the    *)
(* pool.  The rows of the builds and the progress of the change are in the *)
(* database; queue, pool, lock and the streams of the builder are the      *)
(* process's, and a crash loses them.                                      *)
(***************************************************************************)
EXTENDS Naturals, Sequences, FiniteSets, SequencesExt

CONSTANTS
  Build,       \* ids of builds
  Delivery,    \* other jobs of the pool: deliveries of events to a webhook
  Workers,     \* size of the pool
  None,
  MaxFaults    \* bound on failing calls and crashes

ASSUME BuildConstantsOK ==
  /\ Build \cap Delivery = {} /\ None \notin Build
  /\ Workers \in Nat \ {0} /\ MaxFaults \in Nat

VARIABLES
  row,       \* Build.state of each build; "none": not there yet
  release,   \* openBalena's release of each build
  queue,     \* jobs submitted and not taken
  running,   \* jobs in a worker
  tries,     \* attempts of each delivery that did not reach its webhook
  lock,      \* the build that holds _BUILD_LOCK
  result,    \* what the builder told the holder: did it say ok, is a release known
  starter,   \* BuildRunner.start as called by a request and by the change
  item,      \* the saved progress of the change: of its release.build item, then
             \* of the release.deploy of "@built" after it
  faults
\* For the properties only.
VARIABLES
  loose,     \* builds whose release nobody waits for any longer
  lost       \* builds a crash, or an error that left run(), left unfinished

db      == <<row, item>>
process == <<queue, running, tries, lock, result, starter>>
vars    == <<db, process, release, faults, loose, lost>>

Working == {"queued", "cloning", "building", "finalizing"}
Ended   == {"success", "failed"}
Caller  == {"request", "change"}
Idle    == [at |-> "idle", build |-> None]
NoRelease == [status |-> "none", final |-> FALSE]
Deployable == [status |-> "success", final |-> TRUE]
NoResult  == [at |-> "none", ok |-> FALSE, known |-> FALSE, final |-> FALSE]

TypeOK ==
  /\ row \in [Build -> Working \cup Ended \cup {"none"}]
  /\ release \in [Build -> [status : {"none", "running", "success", "failed"}, final : BOOLEAN]]
  /\ queue \in Seq(Build \cup Delivery) /\ running \subseteq Build \cup Delivery
  /\ Cardinality(running) <= Workers /\ tries \in [Delivery -> 0..2]
  /\ ToSet(queue) \cap running = {} /\ Cardinality(ToSet(queue)) = Len(queue)
  /\ lock \in {None} \cup (running \cap Build)
  /\ result \in [at : {"none", "ended", "finalize", "reread", "final"}, ok : BOOLEAN, known : BOOLEAN, final : BOOLEAN]
  /\ starter \in [Caller -> [at : {"idle", "submit", "save"}, build : Build \cup {None}]]
  /\ item \in [state : {"pending", "running", "done", "failed", "deploying", "refused"}, build : Build \cup {None}]
  /\ faults \in 0..MaxFaults /\ loose \subseteq Build /\ lost \subseteq Build

Init ==
  /\ row = [b \in Build |-> "none"] /\ release = [b \in Build |-> NoRelease]
  /\ queue = <<>> /\ running = {} /\ tries = [j \in Delivery |-> 0]
  /\ lock = None /\ result = NoResult
  /\ starter = [c \in Caller |-> Idle]
  /\ item = [state |-> "pending", build |-> None]
  /\ faults = 0 /\ loose = {} /\ lost = {}

(***************************************************************************)
(* start: the row is committed, then the job is submitted.  The change     *)
(* saves the id of its build after that, then reads the row on every tick. *)
(***************************************************************************)
Insert(c, b) ==
  /\ starter[c].at = "idle" /\ row[b] = "none"
  /\ c = "change" => item.state = "pending"
  /\ row' = [row EXCEPT ![b] = "queued"]
  /\ starter' = [starter EXCEPT ![c] = [at |-> "submit", build |-> b]]
  /\ UNCHANGED <<item, queue, running, lock, result, release, faults, loose, lost, tries>>

Submit(c) ==
  /\ starter[c].at = "submit"
  /\ queue' = Append(queue, starter[c].build)
  /\ starter' = [starter EXCEPT ![c] = IF c = "change" THEN [@ EXCEPT !.at = "save"] ELSE Idle]
  /\ UNCHANGED <<db, running, lock, result, release, faults, loose, lost, tries>>

SaveBuildId ==
  /\ starter["change"].at = "save"
  /\ item' = [state |-> "running", build |-> starter["change"].build]
  /\ starter' = [starter EXCEPT !["change"] = Idle]
  /\ UNCHANGED <<row, queue, running, lock, result, release, faults, loose, lost, tries>>

ReadBuild ==
  /\ item.state = "running" /\ row[item.build] \in Ended
  /\ item' = [item EXCEPT !.state = IF row[item.build] = "success" THEN "done" ELSE "failed"]
  /\ UNCHANGED <<row, process, release, faults, loose, lost>>

\* The rollout starts on a final, successful release only; else the change fails.
DeployBuilt ==
  /\ item.state = "done"
  /\ item' = [item EXCEPT !.state = IF release[item.build] = Deployable THEN "deploying" ELSE "refused"]
  /\ UNCHANGED <<row, process, release, faults, loose, lost>>

(***************************************************************************)
(* The pool takes jobs in order.                                           *)
(***************************************************************************)
\* Notifier.emit: an event that a hook asks for is submitted, when its delivery is
\* not in the pool, to a queue not longer than the builds (two bounds).
Emit(j) ==
  /\ j \notin ToSet(queue) \cup running /\ Len(queue) < Cardinality(Build)
  /\ queue' = Append(queue, j) /\ tries' = [tries EXCEPT ![j] = 0]
  /\ UNCHANGED <<db, running, lock, result, starter, release, faults, loose, lost>>

\* Mutant: as if a thread were made for each job.
TakeAny ==
  /\ queue # <<>>
  /\ running' = running \cup {Head(queue)} /\ queue' = Tail(queue)
  /\ UNCHANGED <<db, lock, result, starter, release, faults, loose, lost, tries>>

Take ==
  /\ queue # <<>> /\ Cardinality(running) < Workers
  /\ running' = running \cup {Head(queue)} /\ queue' = Tail(queue)
  /\ UNCHANGED <<db, lock, result, starter, release, faults, loose, lost, tries>>

\* _deliver: three attempts, with a wait between them that keeps the worker.
Reached(j) ==
  /\ j \in running /\ running' = running \ {j}
  /\ UNCHANGED <<db, queue, tries, lock, result, starter, release, faults, loose, lost>>

NotReached(j) ==
  /\ j \in running
  /\ IF tries[j] = 2
       THEN running' = running \ {j} /\ UNCHANGED tries   \* given up
       ELSE tries' = [tries EXCEPT ![j] = @ + 1] /\ UNCHANGED running
  /\ UNCHANGED <<db, queue, lock, result, starter, release, faults, loose, lost>>

Deliver(j) == Reached(j) \/ NotReached(j)

(***************************************************************************)
(* BuildRunner.run.                                                        *)
(***************************************************************************)
Lock(b) ==
  /\ b \in running /\ lock = None /\ row[b] = "queued"
  /\ lock' = b
  /\ row' = [row EXCEPT ![b] = "cloning"]
  /\ UNCHANGED <<item, queue, running, result, starter, release, faults, loose, lost, tries>>

\* Mutant: the row is left as it is.
LeaveAsIs(b, state) ==
  /\ running' = running \ {b} /\ lock' = None /\ result' = NoResult
  /\ row' = IF state = "failed" THEN row ELSE [row EXCEPT ![b] = state]
  /\ UNCHANGED <<item, queue, starter, release, lost, tries>>

\* The run ends, in either way: the lock is left after the last commit.
Leave(b, state) ==
  /\ running' = running \ {b} /\ lock' = None /\ result' = NoResult
  /\ row' = [row EXCEPT ![b] = state]
  /\ UNCHANGED <<item, queue, starter, release, lost, tries>>

Checkout(b) ==
  /\ lock = b /\ row[b] = "cloning"
  /\ row' = [row EXCEPT ![b] = "building"]
  /\ UNCHANGED <<item, process, release, faults, loose, lost>>

\* The builder's stream: it makes a release, or refuses before that.  The end of
\* the stream, or its break, tells ok or not, and the id or commit if it was in
\* what came through.  The images may still be pushed then.
BuilderStarts(b) ==
  /\ lock = b /\ row[b] = "building" /\ result.at = "none" /\ release[b] = NoRelease
  /\ release' = [release EXCEPT ![b].status = "running"]
  /\ UNCHANGED <<db, process, faults, loose, lost>>

StreamEnds(b) ==
  /\ lock = b /\ row[b] = "building" /\ result.at = "none"
  /\ \E ok, known \in BOOLEAN :
       /\ known => release[b].status # "none"
       /\ result' = [NoResult EXCEPT !.at = "ended", !.ok = ok, !.known = known]
       /\ loose' = IF known THEN loose ELSE loose \cup {b}
  /\ UNCHANGED <<db, queue, running, lock, starter, release, faults, lost, tries>>

ReleaseSettles(b) ==
  /\ release[b].status = "running"
  /\ \E s \in {"success", "failed"}, f \in BOOLEAN :
       /\ f => s = "success"
       /\ release' = [release EXCEPT ![b] = [status |-> s, final |-> f]]
  /\ UNCHANGED <<db, process, faults, loose, lost>>

\* Mutant: what the builder said is believed.
AcceptedByBuilder(seen) == result.ok /\ result.known

\* _wait_release polls until the status settles or release_wait_s is over, for
\* builds that went wrong too; what it read last decides.
Accepted(seen) == result.ok /\ seen.status = "success"
Seen(b)        == IF result.known THEN release[b] ELSE NoRelease

Accept(b) ==
  /\ Accepted(Seen(b))
  /\ row' = [row EXCEPT ![b] = "finalizing"]
  /\ result' = [result EXCEPT !.at = "finalize", !.final = Seen(b).final]
  /\ UNCHANGED <<item, queue, running, lock, starter, release, loose, lost, tries>>

\* Mutant: a build that went wrong is not waited for.
JudgeAtOnce(b) ==
  /\ lock = b /\ result.at = "ended"
  /\ Accept(b) \/ (~Accepted(Seen(b)) /\ Leave(b, "failed") /\ UNCHANGED loose)
  /\ UNCHANGED faults

Judge(b) ==
  /\ lock = b /\ result.at = "ended"
  /\ \/ Accept(b)
     \/ /\ ~Accepted(Seen(b)) /\ Leave(b, "failed")
        /\ loose' = IF Seen(b).status = "running" THEN loose \cup {b} ELSE loose   \* the deadline
  /\ UNCHANGED faults

\* PATCH is_final, unless it was final, then GET.
Finalize(b) ==
  /\ lock = b /\ result.at = "finalize"
  /\ release' = [release EXCEPT ![b].final = TRUE]
  /\ result' = [result EXCEPT !.at = IF result.final THEN "final" ELSE "reread"]
  /\ UNCHANGED <<db, queue, running, lock, starter, faults, loose, lost, tries>>

Reread(b) ==
  /\ lock = b /\ result.at = "reread"
  /\ result' = [result EXCEPT !.at = "final", !.final = release[b].final]
  /\ UNCHANGED <<db, queue, running, lock, starter, release, faults, loose, lost, tries>>

Succeed(b) ==
  /\ lock = b /\ result.at = "final"
  /\ Leave(b, IF result.final THEN "success" ELSE "failed")
  /\ UNCHANGED <<faults, loose>>

\* git, a call of openBalena or a commit fails: the build does.  A PATCH whose
\* answer was lost fails like one that was not made, but the release is final then.
CallFails(b) ==
  /\ lock = b /\ faults < MaxFaults /\ faults' = faults + 1
  /\ row[b] = "cloning" \/ result.at # "none"
  /\ loose' = IF release[b].status = "running" THEN loose \cup {b} ELSE loose
  /\ Leave(b, "failed")

\* An error before the try, of reading the row or making the directory, or one of
\* the commit in an except clause leaves run(): the row stays as it is for good.
Escapes(b) ==
  /\ b \in running /\ faults < MaxFaults /\ faults' = faults + 1
  /\ lock = b \/ (lock = None /\ row[b] = "queued")
  /\ running' = running \ {b} /\ lock' = None /\ result' = NoResult
  /\ lost' = lost \cup {b} /\ loose' = loose \cup {b}
  /\ UNCHANGED <<db, queue, tries, starter, release>>

Crash ==
  /\ faults < MaxFaults /\ faults' = faults + 1
  /\ queue' = <<>> /\ running' = {} /\ lock' = None /\ result' = NoResult
  /\ starter' = [c \in Caller |-> Idle]
  /\ lost' = lost \cup {b \in Build : row[b] \in Working}
  /\ loose' = loose \cup {b \in Build : row[b] \in Working}
  /\ UNCHANGED <<db, tries, release>>

RunStep(b) ==
  Lock(b) \/ Checkout(b) \/ StreamEnds(b) \/ Judge(b) \/ Finalize(b) \/ Reread(b) \/ Succeed(b)

ChangeStep == Submit("change") \/ SaveBuildId \/ ReadBuild \/ DeployBuilt

Next ==
  \/ \E c \in Caller, b \in Build : Insert(c, b)
  \/ Submit("request") \/ ChangeStep \/ Take
  \/ \E j \in Delivery : Emit(j) \/ Deliver(j)
  \/ \E b \in Build : RunStep(b) \/ BuilderStarts(b) \/ ReleaseSettles(b) \/ CallFails(b) \/ Escapes(b)
  \/ Crash

\* Threads run; the builder's stream ends or times out (timeout_s), and so does
\* the wait for the release, so none of openBalena's own steps need be fair.
Spec ==
  /\ Init /\ [][Next]_vars
  /\ WF_vars(Take) /\ WF_vars(ChangeStep) /\ WF_vars(Submit("request"))
  /\ \A b \in Build : WF_vars(RunStep(b))
  /\ \A j \in Delivery : WF_vars(Deliver(j))

(***************************************************************************)
(* Properties.                                                             *)
(***************************************************************************)
\* The remote builder builds one release at a time (it races on release and
\* service creation), streams that broke included: only a release whose id never
\* came through, whose wait ran out or met an error, or that was left unfinished
\* is still built beside the next.
OneReleaseAtATime ==
  \A b, c \in Build :
    b # c /\ release[b].status = "running" /\ release[c].status = "running"
      => b \in loose \/ c \in loose

\* What a build that succeeded gives to the items after it can be deployed, and is
\* not refused there, across crashes, lost answers and what the builder said of it.
BuiltCanBeDeployed ==
  /\ \A b \in Build : row[b] = "success" => release[b] = Deployable
  /\ item.state # "refused"

\* Every build ends, and the item that waits for it does; the deliveries of events
\* get their turn behind builds that wait for the lock in its workers.  A
\* build that was queued or running when the process stopped never does, nor one
\* whose error left run(), and its change stays applying: nobody submits it again
\* (builds.py:55).
InPool(j) == j \in ToSet(queue) \cup running
BuildsEnd ==
  /\ \A b \in Build : (row[b] \in Working) ~> (row[b] \in Ended \/ b \in lost)
  /\ (item.state = "running") ~> (item.state # "running" \/ item.build \in lost)
  /\ \A j \in Delivery : InPool(j) ~> ~InPool(j)
=============================================================================
