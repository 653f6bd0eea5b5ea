------------------------------ MODULE ServerOps ------------------------------
(***************************************************************************)
(* Server upkeep operations: ServerOps of server.py on the thread pool of  *)
(* jobs.py.                                                                *)
(*                                                                         *)
(* The row of an operation is what refuses a second one of its type, so    *)
(* everything depends on the row staying `running' for as long as the      *)
(* command does: across time limits, where killing the docker client       *)
(* leaves the command running in its container, and across restarts of     *)
(* the service, where recover() ends what the previous process left.       *)
(***************************************************************************)
EXTENDS Naturals, Sequences, FiniteSets

CONSTANTS
  Op,           \* operation ids
  Type,         \* operation types
  TypeOf,       \* [Op -> Type]
  Host,         \* types that are host docker commands (haproxy_restart)
  Recover,      \* the recover job
  Workers,      \* threads of the pool
  MaxRestarts   \* bound: restarts of the service

ASSUME ServerOpsConstants ==
  /\ TypeOf \in [Op -> Type] /\ Host \subseteq Type
  /\ Recover \notin Op
  /\ Workers \in Nat \ {0} /\ MaxRestarts \in Nat

VARIABLES
  \* the database
  row,       \* [Op -> state]
  tracked,   \* operations whose result names a container and a pidfile
  leaked,    \* operations whose result says "could not stop it"
  \* the containers
  command,   \* [Op -> none | running | ended]
  \* the process
  queue,     \* jobs submitted and not picked up
  job,       \* [Op -> where its job stands]
  recovery,  \* where recover() stands
  found,     \* the rows recover() loaded and has still to look at
  marked,    \* the rows it will mark failed
  \* history
  early,     \* operations started before recover() of their process had read the rows
  restarts

rows == <<row, tracked, leaked>>
recv == <<recovery, found, marked>>
vars == <<rows, command, queue, job, recv, early, restarts>>

Ended == {"succeeded", "failed"}

TypeOK ==
  /\ row \in [Op -> {"absent", "running"} \cup Ended]
  /\ tracked \subseteq Op /\ leaked \subseteq Op
  /\ command \in [Op -> {"none", "running", "ended"}]
  /\ queue \in Seq(Op \cup {Recover})
  /\ job \in [Op -> {"none", "queued", "prepare", "launch", "wait", "stop"}]
  /\ recovery \in {"queued", "query", "stopping", "done"}
  /\ found \subseteq marked /\ marked \subseteq Op
  /\ early \subseteq Op /\ restarts \in 0..MaxRestarts

Init ==
  /\ row = [o \in Op |-> "absent"] /\ tracked = {} /\ leaked = {}
  /\ command = [o \in Op |-> "none"]
  /\ queue = <<Recover>>
  /\ job = [o \in Op |-> "none"]
  /\ recovery = "queued" /\ found = {} /\ marked = {}
  /\ early = {} /\ restarts = 0

SetRow(o, s) == row' = [row EXCEPT ![o] = s]
SetJob(o, j) == job' = [job EXCEPT ![o] = j]
InContainer(o) == TypeOf[o] \notin Host
Running(t) == {o \in Op : TypeOf[o] = t /\ row[o] = "running"}

\* Threads of the pool at work.
Busy ==
  Cardinality({o \in Op : job[o] \notin {"none", "queued"}})
    + (IF recovery \in {"query", "stopping"} THEN 1 ELSE 0)

-----------------------------------------------------------------------------
\* Mutant: nothing is refused.
StartAlways(o) ==
  /\ row[o] = "absent"
  /\ SetRow(o, "running")
  /\ SetJob(o, "queued") /\ queue' = Append(queue, o)
  /\ early' = IF recovery \in {"queued", "query"} THEN early \cup {o} ELSE early
  /\ UNCHANGED <<tracked, leaked, command, recv, restarts>>

\* start(), under its lock; refused while a row of the type is running.
Start(o) ==
  /\ row[o] = "absent" /\ Running(TypeOf[o]) = {}
  /\ SetRow(o, "running")
  /\ SetJob(o, "queued") /\ queue' = Append(queue, o)
  /\ early' = IF recovery \in {"queued", "query"} THEN early \cup {o} ELSE early
  /\ UNCHANGED <<tracked, leaked, command, recv, restarts>>

\* A thread of the pool takes the next job.
PickUp ==
  /\ queue # <<>> /\ Busy < Workers
  /\ queue' = Tail(queue)
  /\ IF Head(queue) = Recover
       THEN recovery' = "query" /\ UNCHANGED job
       ELSE SetJob(Head(queue), "prepare") /\ UNCHANGED recovery
  /\ UNCHANGED <<rows, command, found, marked, early, restarts>>

-----------------------------------------------------------------------------
(* _run and _execute                                                       *)

\* The registry is looked up (which may fail), then the container and the
\* pidfile are saved.
Prepare(o) ==
  /\ job[o] = "prepare"
  /\ \/ /\ SetRow(o, "failed") /\ SetJob(o, "none") /\ UNCHANGED tracked
     \/ /\ tracked' = IF InContainer(o) THEN tracked \cup {o} ELSE tracked
        /\ SetJob(o, "launch") /\ UNCHANGED row
  /\ UNCHANGED <<leaked, command, queue, recv, early, restarts>>

\* docker exec, whose wrapper writes the pidfile and starts the command; or it
\* cannot be run, and the exception ends the operation.
Launch(o) ==
  /\ job[o] = "launch"
  /\ \/ /\ command' = [command EXCEPT ![o] = "running"] /\ SetJob(o, "wait") /\ UNCHANGED row
     \/ /\ SetRow(o, "failed") /\ SetJob(o, "none") /\ UNCHANGED command
  /\ UNCHANGED <<tracked, leaked, queue, recv, early, restarts>>

Exited(o) ==
  /\ job[o] = "wait" /\ command[o] = "ended"
  /\ \E s \in Ended : SetRow(o, s)
  /\ SetJob(o, "none")
  /\ UNCHANGED <<tracked, leaked, command, queue, recv, early, restarts>>

\* Mutant: a time limit kills the docker client only.
TimeOutClient(o) ==
  /\ job[o] = "wait"
  /\ SetRow(o, "failed") /\ SetJob(o, "none")
  /\ UNCHANGED <<tracked, leaked, command, queue, recv, early, restarts>>

\* The time limit: the docker client is killed; what runs in a container has to
\* be stopped there (the command may have ended at that very moment).
TimeOut(o) ==
  /\ job[o] = "wait"
  /\ IF InContainer(o)
       THEN SetJob(o, "stop") /\ UNCHANGED row
       ELSE SetRow(o, "failed") /\ SetJob(o, "none")
  /\ UNCHANGED <<tracked, leaked, command, queue, recv, early, restarts>>

\* _stop: kills the pid in the container, or reports that it could not.
Stop(o) ==
  \/ /\ command' = [command EXCEPT ![o] = IF @ = "running" THEN "ended" ELSE @]
     /\ UNCHANGED leaked
  \/ /\ leaked' = leaked \cup {o}
     /\ UNCHANGED command

StopTimedOut(o) ==
  /\ job[o] = "stop"
  /\ Stop(o) /\ SetRow(o, "failed") /\ SetJob(o, "none")
  /\ UNCHANGED <<tracked, queue, recv, early, restarts>>

-----------------------------------------------------------------------------
(* recover()                                                               *)

RecoverQuery ==
  /\ recovery = "query"
  /\ marked' = {o \in Op : row[o] = "running"}
  /\ found' = marked' \cap tracked
  /\ recovery' = "stopping"
  /\ UNCHANGED <<rows, command, queue, job, early, restarts>>

RecoverStop(o) ==
  /\ recovery = "stopping" /\ o \in found
  /\ Stop(o) /\ found' = found \ {o}
  /\ UNCHANGED <<row, tracked, queue, job, recovery, marked, early, restarts>>

\* Mutant: the rows are left as they were.
RecoverCommitNothing ==
  /\ recovery = "stopping" /\ found = {}
  /\ recovery' = "done" /\ marked' = {}
  /\ UNCHANGED <<rows, command, queue, job, found, early, restarts>>

RecoverCommit ==
  /\ recovery = "stopping" /\ found = {}
  /\ row' = [o \in Op |-> IF o \in marked THEN "failed" ELSE row[o]]
  /\ recovery' = "done" /\ marked' = {}
  /\ UNCHANGED <<tracked, leaked, command, queue, job, found, early, restarts>>

-----------------------------------------------------------------------------
CommandEnds(o) ==
  /\ command[o] = "running"
  /\ command' = [command EXCEPT ![o] = "ended"]
  /\ UNCHANGED <<rows, queue, job, recv, early, restarts>>

\* The service dies and is started again: rows and commands stay, jobs are gone.
Restart ==
  /\ restarts < MaxRestarts /\ restarts' = restarts + 1
  /\ queue' = <<Recover>>
  /\ job' = [o \in Op |-> "none"]
  /\ recovery' = "queued" /\ found' = {} /\ marked' = {}
  /\ UNCHANGED <<rows, command, early>>

Work ==
  \/ PickUp \/ RecoverQuery \/ RecoverCommit
  \/ \E o \in Op :
       Prepare(o) \/ Launch(o) \/ Exited(o) \/ TimeOut(o) \/ StopTimedOut(o) \/ RecoverStop(o)

Next ==
  \/ \E o \in Op : Start(o) \/ CommandEnds(o)
  \/ Work \/ Restart

Spec == Init /\ [][Next]_vars

\* The threads of the pool run; a command that does not end meets its time limit.
FairSpec == Spec /\ WF_vars(Work)

-----------------------------------------------------------------------------
(* Properties.                                                             *)

\* Commands of a type at work in a container, but for those reported as "could
\* not stop it".
AtWork(t) == {o \in Op : TypeOf[o] = t /\ command[o] = "running"} \ leaked

\* Only one operation of a type runs at a time: the commands themselves, not
\* just the rows, across time limits and restarts.
OneOfAType == \A t \in Type \ Host : Cardinality(AtWork(t)) <= 1

\* It holds as long as no operation is started before recover() has read the
\* rows of the process before.
OneOfATypeRecovered == early = {} => OneOfAType

\* What callers were told stays true: an operation that ended, as far as its row
\* says, is not at work any more and does not end again differently.
EndIsFinal ==
  [][early' = {} =>
       \A o \in Op : row[o] \in Ended =>
         /\ row'[o] = row[o]
         /\ InContainer(o) /\ o \notin leaked => command[o] # "running"]_vars

\* No operation is left running in the books, which would refuse every later
\* one of its type, whenever the service restarts.
RowsEnd == \A o \in Op : row[o] = "running" ~> row[o] # "running"
=============================================================================
