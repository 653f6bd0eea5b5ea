--------------------------- MODULE ServerOps_proofs ---------------------------
(***************************************************************************)
(* For any operations, types, pool size and number of restarts: as long as *)
(* recover() has read the rows of the process before when the first        *)
(* operation starts, at most one command of a type is at work, and what    *)
(* callers were told of an operation stays true.                           *)
(***************************************************************************)
EXTENDS ServerOps, FiniteSetTheorems, TLAPS

\* The pool's queue after a submission or a pick-up.
LEMMA QueueTyped ==
  ASSUME NEW S, NEW q \in Seq(S), NEW e \in S
  PROVE  /\ Append(q, e) \in Seq(S)
         /\ q # <<>> => Head(q) \in S /\ Tail(q) \in Seq(S)
OBVIOUS

-----------------------------------------------------------------------------
(* Types.                                                                  *)

\* The types hold at first.
LEMMA TypeInit == Init => TypeOK
<1> SUFFICES ASSUME Init PROVE TypeOK
  OBVIOUS
<1>1. queue \in Seq(Op \cup {Recover})
  BY DEF Init
<1>2. restarts \in 0..MaxRestarts
  BY ServerOpsConstants DEF Init
<1> QED BY <1>1, <1>2 DEF Init, TypeOK, Ended

\* Every step keeps the types.
LEMMA TypeStep == TypeOK /\ [Next]_vars => TypeOK'
<1> SUFFICES ASSUME TypeOK, [Next]_vars PROVE TypeOK'
  OBVIOUS
<1> USE DEF TypeOK, Ended, SetRow, SetJob, rows, recv
<1>1. ASSUME NEW o \in Op, Start(o) PROVE TypeOK'
  <2>1. queue' \in Seq(Op \cup {Recover})
    BY <1>1, QueueTyped DEF Start
  <2> QED BY <1>1, <2>1 DEF Start
<1>2. CASE PickUp
  <2>1. queue' \in Seq(Op \cup {Recover}) /\ Head(queue) \in Op \cup {Recover}
    BY <1>2, QueueTyped DEF PickUp
  <2> QED BY <1>2, <2>1 DEF PickUp
<1>3. ASSUME NEW o \in Op, Prepare(o) PROVE TypeOK'
  BY <1>3 DEF Prepare
<1>4. ASSUME NEW o \in Op, Launch(o) PROVE TypeOK'
  BY <1>4 DEF Launch
<1>5. ASSUME NEW o \in Op, Exited(o) PROVE TypeOK'
  BY <1>5 DEF Exited
<1>6. ASSUME NEW o \in Op, TimeOut(o) PROVE TypeOK'
  BY <1>6 DEF TimeOut
<1>7. ASSUME NEW o \in Op, StopTimedOut(o) PROVE TypeOK'
  BY <1>7 DEF StopTimedOut, Stop
<1>8. ASSUME NEW o \in Op, RecoverStop(o) PROVE TypeOK'
  BY <1>8 DEF RecoverStop, Stop
<1>9. CASE RecoverQuery
  BY <1>9 DEF RecoverQuery
<1>10. CASE RecoverCommit
  BY <1>10 DEF RecoverCommit
<1>11. ASSUME NEW o \in Op, CommandEnds(o) PROVE TypeOK'
  BY <1>11 DEF CommandEnds
<1>12. CASE Restart
  <2>1. restarts' \in 0..MaxRestarts
    BY <1>12, ServerOpsConstants DEF Restart
  <2>2. queue' \in Seq(Op \cup {Recover})
    BY <1>12 DEF Restart
  <2> QED BY <1>12, <2>1, <2>2 DEF Restart
<1>13. CASE UNCHANGED vars
  BY <1>13 DEF vars
<1> QED
  BY <1>1, <1>2, <1>3, <1>4, <1>5, <1>6, <1>7, <1>8, <1>9, <1>10, <1>11, <1>12, <1>13
  DEF Next, Work

\* Type correctness of rows, queue, jobs and recovery.
THEOREM TypeCorrect == Spec => []TypeOK
BY TypeInit, TypeStep, PTL DEF Spec

-----------------------------------------------------------------------------
(* The inductive invariant.                                                *)

\* Each job is in the queue once, and stands as queued for as long as it is.
QueueFits ==
  /\ \A i, j \in DOMAIN queue : queue[i] = queue[j] => i = j
  /\ \A i \in DOMAIN queue :
       /\ queue[i] = Recover => recovery = "queued"
       /\ queue[i] \in Op => job[queue[i]] = "queued"

\* start() refuses a second running row of a type, and no operation starts again.
RowsExclude ==
  /\ \A o, p \in Op : row[o] = "running" /\ row[p] = "running" /\ TypeOf[o] = TypeOf[p] => o = p
  /\ \A o \in Op :
       /\ row[o] = "absent" => job[o] = "none"
       /\ row[o] = "absent" \/ job[o] \in {"queued", "prepare", "launch"} => command[o] = "none"

\* What is launched in a container can be found there.
CommandsTracked ==
  \A o \in Op :
    InContainer(o) /\ (job[o] \in {"launch", "wait", "stop"} \/ command[o] = "running")
      => o \in tracked

\* A job, and a command nobody reported as left behind, have a running row.
RowsCover ==
  \A o \in Op :
    /\ job[o] # "none" => row[o] = "running"
    /\ InContainer(o) /\ command[o] = "running" /\ o \notin leaked => row[o] = "running"

\* recover() only ends rows of the process before: nothing runs before it has read
\* them, and it has stopped, or has still to stop, each of their commands.
RecoveryApart ==
  /\ recovery \in {"queued", "query"} => \A o \in Op : job[o] = "none"
  /\ recovery = "stopping" =>
       \A o \in marked :
         /\ job[o] = "none" /\ row[o] = "running"
         /\ InContainer(o) /\ command[o] = "running" /\ o \notin leaked => o \in found

IInv ==
  /\ QueueFits /\ RowsExclude /\ CommandsTracked
  /\ early = {} => RowsCover /\ RecoveryApart

\* No operation was started at first.
LEMMA IInvInit == Init => IInv
<1> SUFFICES ASSUME Init PROVE IInv
  OBVIOUS
<1>1. QueueFits
  BY ServerOpsConstants DEF Init, QueueFits
<1> QED
  BY <1>1 DEF Init, IInv, RowsExclude, CommandsTracked, RowsCover, RecoveryApart

\* Taking a job of the queue, or adding one that is not in it, keeps them apart.
LEMMA QueueFitsStep == TypeOK /\ IInv /\ [Next]_vars => QueueFits'
<1> SUFFICES ASSUME TypeOK, IInv, [Next]_vars PROVE QueueFits'
  OBVIOUS
<1> USE ServerOpsConstants DEF TypeOK, IInv, SetJob, recv
<1>1. ASSUME UNCHANGED queue,
             \A o \in Op : job[o] = "queued" => job'[o] = "queued",
             recovery = "queued" => recovery' = "queued"
      PROVE  QueueFits'
  BY <1>1 DEF QueueFits
<1>2. ASSUME NEW o \in Op, Start(o) PROVE QueueFits'
  <2>1. job[o] = "none" /\ job' = [job EXCEPT ![o] = "queued"] /\ queue' = Append(queue, o)
        /\ UNCHANGED recovery
    BY <1>2 DEF Start, RowsExclude
  <2>2. \A i \in DOMAIN queue : queue[i] # o
    BY <2>1 DEF QueueFits
  <2>3. /\ DOMAIN queue' = 1..(Len(queue) + 1) /\ DOMAIN queue = 1..Len(queue)
        /\ queue'[Len(queue) + 1] = o
        /\ \A i \in DOMAIN queue : queue'[i] = queue[i]
    BY <2>1
  <2>4. \A i \in DOMAIN queue' : i \in DOMAIN queue \/ i = Len(queue) + 1
    BY <2>3
  <2> QED BY <2>1, <2>2, <2>3, <2>4 DEF QueueFits
<1>3. CASE PickUp
  <2>1. queue # <<>> /\ queue' = Tail(queue)
    BY <1>3 DEF PickUp
  <2>2. /\ 1 \in DOMAIN queue /\ Head(queue) = queue[1]
        /\ \A i \in DOMAIN queue' : i + 1 \in DOMAIN queue /\ queue'[i] = queue[i + 1] /\ i \in Nat \ {0}
    BY <2>1
  <2>3. \A i \in DOMAIN queue' : queue'[i] # Head(queue)
    BY <2>2 DEF QueueFits
  <2> QED BY <1>3, <2>2, <2>3 DEF PickUp, QueueFits
<1>4. ASSUME NEW o \in Op,
             Prepare(o) \/ Launch(o) \/ Exited(o) \/ TimeOut(o) \/ StopTimedOut(o)
             \/ RecoverStop(o) \/ CommandEnds(o)
      PROVE  QueueFits'
  BY <1>1, <1>4 DEF Prepare, Launch, Exited, TimeOut, StopTimedOut, RecoverStop, CommandEnds
<1>5. CASE RecoverQuery \/ RecoverCommit \/ UNCHANGED vars
  BY <1>1, <1>5 DEF RecoverQuery, RecoverCommit, vars
<1>6. CASE Restart
  BY <1>6 DEF Restart, QueueFits
<1> QED BY <1>2, <1>3, <1>4, <1>5, <1>6 DEF Next, Work

\* start() lets one row of a type be open.
LEMMA RowsExcludeStep == TypeOK /\ IInv /\ [Next]_vars => RowsExclude'
<1> SUFFICES ASSUME TypeOK, IInv, [Next]_vars PROVE RowsExclude'
  OBVIOUS
<1> USE DEF TypeOK, IInv, SetJob, SetRow, rows, recv, RowsExclude, Ended
<1>1. ASSUME NEW o \in Op, Start(o) PROVE RowsExclude'
  BY <1>1 DEF Start, Running
<1>2. CASE PickUp
  <2>1. Head(queue) \in Op => job[Head(queue)] = "queued"
    BY <1>2 DEF PickUp, QueueFits
  <2>2. Head(queue) \in Op \cup {Recover}
    BY <1>2 DEF PickUp
  <2> QED BY <1>2, <2>1, <2>2 DEF PickUp
<1>3. ASSUME NEW o \in Op,
             Prepare(o) \/ Launch(o) \/ Exited(o) \/ TimeOut(o) \/ StopTimedOut(o)
             \/ RecoverStop(o) \/ CommandEnds(o)
      PROVE  RowsExclude'
  BY <1>3 DEF Prepare, Launch, Exited, TimeOut, StopTimedOut, RecoverStop, CommandEnds, Stop
<1>4. CASE RecoverQuery \/ RecoverCommit \/ Restart \/ UNCHANGED vars
  BY <1>4 DEF RecoverQuery, RecoverCommit, Restart, vars
<1> QED BY <1>1, <1>2, <1>3, <1>4 DEF Next, Work

\* A command is at work only behind a row that names its container.
LEMMA CommandsTrackedStep == TypeOK /\ IInv /\ [Next]_vars => CommandsTracked'
<1> SUFFICES ASSUME TypeOK, IInv, [Next]_vars PROVE CommandsTracked'
  OBVIOUS
<1> USE DEF TypeOK, IInv, SetJob, SetRow, rows, recv, CommandsTracked, InContainer
<1>1. ASSUME NEW o \in Op, Start(o) PROVE CommandsTracked'
  BY <1>1 DEF Start
<1>2. CASE PickUp
  BY <1>2 DEF PickUp
<1>3. ASSUME NEW o \in Op,
             Prepare(o) \/ Launch(o) \/ Exited(o) \/ TimeOut(o) \/ StopTimedOut(o)
             \/ RecoverStop(o) \/ CommandEnds(o)
      PROVE  CommandsTracked'
  BY <1>3 DEF Prepare, Launch, Exited, TimeOut, StopTimedOut, RecoverStop, CommandEnds, Stop
<1>4. CASE RecoverQuery \/ RecoverCommit \/ Restart \/ UNCHANGED vars
  BY <1>4 DEF RecoverQuery, RecoverCommit, Restart, vars
<1> QED BY <1>1, <1>2, <1>3, <1>4 DEF Next, Work

\* As long as recovery read the rows first, it never ends what this process started.
LEMMA RecoveryApartStep ==
  TypeOK /\ IInv /\ [Next]_vars /\ early' = {} => early = {} /\ RowsCover' /\ RecoveryApart'
<1> SUFFICES ASSUME TypeOK, IInv, [Next]_vars, early' = {}
             PROVE  early = {} /\ RowsCover' /\ RecoveryApart'
  OBVIOUS
<1> USE ServerOpsConstants DEF TypeOK, SetJob, SetRow, rows, recv, InContainer, Ended
<1>1. early = {}
  BY DEF Next, Work, Start, PickUp, Prepare, Launch, Exited, TimeOut, StopTimedOut, RecoverStop,
     CommandEnds, RecoverQuery, RecoverCommit, Restart, vars
<1>2. /\ QueueFits /\ RowsExclude /\ CommandsTracked /\ RowsCover /\ RecoveryApart
  BY <1>1 DEF IInv
<1>3. ASSUME NEW o \in Op, Start(o) PROVE RowsCover' /\ RecoveryApart'
  <2>1. recovery \notin {"queued", "query"}
    BY <1>3 DEF Start
  <2> QED BY <1>2, <1>3, <2>1 DEF Start, RowsExclude, RowsCover, RecoveryApart
<1>4. CASE PickUp
  <2>1. /\ Head(queue) \in Op => job[Head(queue)] = "queued"
        /\ Head(queue) = Recover => recovery = "queued"
    BY <1>2, <1>4 DEF PickUp, QueueFits
  <2>2. Head(queue) \in Op \cup {Recover}
    BY <1>4 DEF PickUp
  <2> QED BY <1>2, <1>4, <2>1, <2>2 DEF PickUp, RowsCover, RecoveryApart
<1>5. ASSUME NEW o \in Op, Prepare(o) \/ Launch(o) \/ Exited(o) \/ TimeOut(o) \/ StopTimedOut(o)
      PROVE  RowsCover' /\ RecoveryApart'
  <2>1. job[o] # "none" /\ recovery \notin {"queued", "query"} /\ (recovery = "stopping" => o \notin marked)
    BY <1>2, <1>5 DEF Prepare, Launch, Exited, TimeOut, StopTimedOut, RecoveryApart
  <2>2. CASE Prepare(o)
    <3>1. command[o] = "none"
      BY <1>2, <2>2 DEF Prepare, RowsExclude
    <3> QED BY <1>2, <2>1, <2>2, <3>1 DEF Prepare, RowsCover, RecoveryApart
  <2>3. CASE Launch(o)
    <3>1. command[o] = "none"
      BY <1>2, <2>3 DEF Launch, RowsExclude
    <3> QED BY <1>2, <2>1, <2>3, <3>1 DEF Launch, RowsCover, RecoveryApart
  <2>4. CASE Exited(o)
    BY <1>2, <2>1, <2>4 DEF Exited, RowsCover, RecoveryApart
  <2>5. CASE TimeOut(o)
    BY <1>2, <2>1, <2>5 DEF TimeOut, RowsCover, RecoveryApart
  <2>6. CASE StopTimedOut(o)
    BY <1>2, <2>1, <2>6 DEF StopTimedOut, Stop, RowsCover, RecoveryApart
  <2> QED BY <1>5, <2>2, <2>3, <2>4, <2>5, <2>6
<1>6. ASSUME NEW o \in Op, RecoverStop(o) PROVE RowsCover' /\ RecoveryApart'
  BY <1>2, <1>6 DEF RecoverStop, Stop, RowsCover, RecoveryApart
<1>7. CASE RecoverQuery
  BY <1>2, <1>7 DEF RecoverQuery, RowsCover, RecoveryApart, CommandsTracked
<1>8. CASE RecoverCommit
  BY <1>2, <1>8 DEF RecoverCommit, RowsCover, RecoveryApart
<1>9. ASSUME NEW o \in Op, CommandEnds(o) PROVE RowsCover' /\ RecoveryApart'
  BY <1>2, <1>9 DEF CommandEnds, RowsCover, RecoveryApart
<1>10. CASE Restart
  BY <1>2, <1>10 DEF Restart, RowsCover, RecoveryApart
<1>11. CASE UNCHANGED vars
  BY <1>2, <1>11 DEF vars, RowsCover, RecoveryApart
<1> QED
  BY <1>1, <1>3, <1>4, <1>5, <1>6, <1>7, <1>8, <1>9, <1>10, <1>11 DEF Next, Work

\* The conjuncts of the invariant, put together.
LEMMA IInvStep == TypeOK /\ IInv /\ [Next]_vars => IInv'
BY QueueFitsStep, RowsExcludeStep, CommandsTrackedStep, RecoveryApartStep DEF IInv

\* Rows, jobs, commands and recovery fit together in every reachable state.
THEOREM IInvInvariant == Spec => []IInv
BY TypeCorrect, IInvInit, IInvStep, PTL DEF Spec

-----------------------------------------------------------------------------
(* What callers rely on.                                                   *)

\* The row of a type that runs is one, and commands that are at work have it.
THEOREM OneCommandOfAType == Spec => []OneOfATypeRecovered
<1>1. TypeOK /\ IInv => OneOfATypeRecovered
  <2> SUFFICES ASSUME TypeOK, IInv, early = {}, NEW t \in Type \ Host
               PROVE  Cardinality(AtWork(t)) <= 1
    BY DEF OneOfATypeRecovered, OneOfAType
  <2>1. \A o, p \in AtWork(t) : o = p
    BY DEF IInv, RowsCover, RowsExclude, AtWork, InContainer
  <2>2. CASE AtWork(t) = {}
    BY <2>2, FS_EmptySet
  <2>3. ASSUME NEW o \in AtWork(t) PROVE Cardinality(AtWork(t)) = 1
    <3>1. AtWork(t) = {o}
      BY <2>1, <2>3
    <3> QED BY <3>1, FS_Singleton
  <2> QED BY <2>2, <2>3
<1> QED BY <1>1, TypeCorrect, IInvInvariant, PTL

\* An operation that ended, as its row says, is not at work and does not end again.
THEOREM EndsStay == Spec => EndIsFinal
<1>1. TypeOK /\ IInv /\ [Next]_vars
        => [early' = {} =>
              \A o \in Op : row[o] \in Ended =>
                /\ row'[o] = row[o]
                /\ InContainer(o) /\ o \notin leaked => command[o] # "running"]_vars
  <2> SUFFICES ASSUME TypeOK, IInv, [Next]_vars, early' = {}, NEW o \in Op, row[o] \in Ended
               PROVE  /\ row'[o] = row[o]
                      /\ InContainer(o) /\ o \notin leaked => command[o] # "running"
    OBVIOUS
  <2> USE DEF TypeOK, Ended, SetRow, rows
  <2>1. early = {}
    BY RecoveryApartStep
  <2>2. job[o] = "none" /\ (InContainer(o) /\ o \notin leaked => command[o] # "running")
    BY <2>1 DEF IInv, RowsCover
  <2>3. RecoverCommit => o \notin marked
    BY <2>1 DEF RecoverCommit, IInv, RecoveryApart
  <2>4. row'[o] = row[o]
    BY <2>2, <2>3 DEF Next, Work, Start, PickUp, Prepare, Launch, Exited, TimeOut, StopTimedOut,
       RecoverStop, CommandEnds, RecoverQuery, RecoverCommit, Restart, vars
  <2> QED BY <2>2, <2>4
<1> QED BY <1>1, TypeCorrect, IInvInvariant, PTL DEF Spec, EndIsFinal
=============================================================================
