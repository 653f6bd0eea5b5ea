---------------------------- MODULE Builds_proofs ----------------------------
(***************************************************************************)
(* For any builds, deliveries, size of the pool and number of faults: the  *)
(* remote builder makes one release at a time, up to those nobody waits    *)
(* for any longer, and what a build that succeeded gives can be deployed.  *)
(***************************************************************************)
EXTENDS Builds, FiniteSetTheorems, TLAPS

-----------------------------------------------------------------------------
(* A queue that holds each job once.                                       *)

Once(q) ==
  /\ \A i, j \in DOMAIN q : q[i] = q[j] => i = j
  /\ IsFiniteSet(ToSet(q)) /\ Cardinality(ToSet(q)) = Len(q)

\* Submitting a job that is not queued keeps the queue free of repetitions.
LEMMA OnceAppend ==
  ASSUME NEW S, NEW q \in Seq(S), NEW e \in S, Once(q), e \notin ToSet(q)
  PROVE  Append(q, e) \in Seq(S) /\ Once(Append(q, e)) /\ ToSet(Append(q, e)) = ToSet(q) \cup {e}
<1> DEFINE r == Append(q, e)
<1>1. /\ r \in Seq(S) /\ Len(r) = Len(q) + 1 /\ DOMAIN r = 1..(Len(q) + 1) /\ DOMAIN q = 1..Len(q)
      /\ r[Len(q) + 1] = e /\ \A i \in DOMAIN q : r[i] = q[i] /\ q[i] # e
  BY DEF ToSet
<1>2. ToSet(r) = ToSet(q) \cup {e}
  BY <1>1 DEF ToSet
<1>3. IsFiniteSet(ToSet(r)) /\ Cardinality(ToSet(r)) = Len(r)
  <2>1. IsFiniteSet(ToSet(q)) /\ Cardinality(ToSet(q)) = Len(q)
    BY DEF Once
  <2>2. IsFiniteSet(ToSet(q) \cup {e}) /\ Cardinality(ToSet(q) \cup {e}) = Cardinality(ToSet(q)) + 1
    BY <2>1, FS_AddElement
  <2> QED BY <1>1, <1>2, <2>1, <2>2
<1>4. \A i, j \in DOMAIN r : r[i] = r[j] => i = j
  <2> SUFFICES ASSUME NEW i \in DOMAIN r, NEW j \in DOMAIN r, r[i] = r[j] PROVE i = j
    OBVIOUS
  <2>1. /\ i \in DOMAIN q \/ i = Len(q) + 1
        /\ j \in DOMAIN q \/ j = Len(q) + 1
    BY <1>1
  <2> QED BY <1>1, <2>1 DEF Once
<1> QED BY <1>1, <1>2, <1>3, <1>4 DEF Once

\* So does picking the first one.
LEMMA OnceTail ==
  ASSUME NEW S, NEW q \in Seq(S), q # <<>>, Once(q)
  PROVE  /\ Tail(q) \in Seq(S) /\ Once(Tail(q)) /\ Head(q) \in ToSet(q) /\ Head(q) \in S
         /\ ToSet(Tail(q)) = ToSet(q) \ {Head(q)}
<1> DEFINE r == Tail(q)
<1>1. /\ r \in Seq(S) /\ Len(q) \in Nat \ {0} /\ Len(r) = Len(q) - 1
      /\ DOMAIN q = 1..Len(q) /\ DOMAIN r = 1..(Len(q) - 1)
      /\ Head(q) = q[1] /\ \A i \in DOMAIN r : r[i] = q[i + 1]
  OBVIOUS
<1>2. q[1] \in S /\ 1 \in DOMAIN q /\ q[1] \in ToSet(q)
  BY <1>1 DEF ToSet
<1>3. ToSet(r) = ToSet(q) \ {Head(q)}
  <2>1. ASSUME NEW x \in ToSet(r) PROVE x \in ToSet(q) \ {Head(q)}
    <3>1. PICK i \in DOMAIN r : x = r[i]
      BY DEF ToSet
    <3>2. i + 1 \in DOMAIN q /\ i + 1 # 1 /\ x = q[i + 1]
      BY <1>1, <3>1
    <3> QED BY <1>1, <1>2, <3>2 DEF Once, ToSet
  <2>2. ASSUME NEW x \in ToSet(q), x # Head(q) PROVE x \in ToSet(r)
    <3>1. PICK i \in DOMAIN q : x = q[i]
      BY DEF ToSet
    <3>2. i - 1 \in DOMAIN r /\ r[i - 1] = q[i]
      BY <1>1, <2>2, <3>1
    <3> QED BY <3>1, <3>2 DEF ToSet
  <2> QED BY <2>1, <2>2
<1>4. IsFiniteSet(ToSet(r)) /\ Cardinality(ToSet(r)) = Len(r)
  <2>1. IsFiniteSet(ToSet(q)) /\ Cardinality(ToSet(q)) = Len(q)
    BY DEF Once
  <2>2. /\ IsFiniteSet(ToSet(q) \ {q[1]})
        /\ Cardinality(ToSet(q) \ {q[1]}) = Cardinality(ToSet(q)) - 1
    BY <1>2, <2>1, FS_RemoveElement
  <2> QED BY <1>1, <1>3, <2>1, <2>2
<1>5. \A i, j \in DOMAIN r : r[i] = r[j] => i = j
  <2> SUFFICES ASSUME NEW i \in DOMAIN r, NEW j \in DOMAIN r, r[i] = r[j] PROVE i = j
    OBVIOUS
  <2>1. i + 1 \in DOMAIN q /\ j + 1 \in DOMAIN q /\ q[i + 1] = q[j + 1]
    BY <1>1
  <2> QED BY <1>1, <2>1 DEF Once
<1> QED BY <1>1, <1>2, <1>3, <1>4, <1>5 DEF Once

-----------------------------------------------------------------------------
(* The inductive invariant.                                                *)

\* A build that was inserted goes to the pool once: it is at its starter, queued, in a
\* worker, or a crash or an error took it from there; a row nobody inserted is at none of them.
Starting(b) == \E c \in Caller : starter[c].at = "submit" /\ starter[c].build = b
PoolFits ==
  /\ IsFiniteSet(running) /\ Once(queue)
  /\ \A c \in Caller :
       starter[c].at # "idle" => starter[c].build \in Build /\ row[starter[c].build] # "none"
  /\ \A c, e \in Caller :
       starter[c].at # "idle" /\ starter[e].at # "idle" /\ starter[c].build = starter[e].build => c = e
  /\ \A b \in Build : Starting(b) => b \notin ToSet(queue) \cup running
  /\ \A b \in Build : row[b] = "none" => b \notin ToSet(queue) \cup running

\* The holder of the lock is at work on its build, and knows what it is told to know.
HolderFits ==
  /\ lock = None => result = NoResult
  /\ lock # None =>
       /\ row[lock] \in Working \ {"queued"}
       /\ result.at = "ended" /\ ~result.known => lock \in loose
       /\ result.at \in {"finalize", "reread", "final"} => release[lock].status = "success"
       /\ result.at \in {"finalize", "final"} /\ result.final => release[lock].final

\* A release is made by the holder of the lock, or nobody waits for it any longer.
ReleaseFits == \A b \in Build : release[b].status = "running" => b = lock \/ b \in loose

\* What succeeded can be deployed, and stays so; the item follows its build.
SuccessFits ==
  /\ \A b \in Build : row[b] = "success" => release[b] = Deployable
  /\ item.state # "refused"
  /\ item.state # "pending" => item.build \in Build
  /\ item.state = "done" => row[item.build] = "success"

IInv == PoolFits /\ HolderFits /\ ReleaseFits /\ SuccessFits

\* A process that starts has an empty pool and a free lock.
LEMMA InvInit == Init => TypeOK /\ IInv
<1> SUFFICES ASSUME Init PROVE TypeOK /\ IInv
  OBVIOUS
<1>1. queue = <<>> /\ ToSet(queue) = {} /\ running = {}
  BY DEF Init, ToSet
<1>2. Once(queue) /\ IsFiniteSet(running) /\ Cardinality(running) = 0 /\ Cardinality(ToSet(queue)) = 0
  BY <1>1, FS_EmptySet DEF Once
<1>3. TypeOK
  BY <1>1, <1>2, BuildConstantsOK DEF Init, TypeOK, Working, Ended, NoRelease, NoResult, Idle
<1>4. IInv
  BY <1>1, <1>2 DEF Init, IInv, PoolFits, HolderFits, ReleaseFits, SuccessFits, Starting, Idle, NoRelease
<1> QED BY <1>3, <1>4

-----------------------------------------------------------------------------
(* The pool.                                                               *)

\* The pool is as it was, or a worker is done with its job.
LEMMA PoolKept ==
  ASSUME TypeOK, PoolFits, UNCHANGED <<queue, starter>>,
         running' = running \/ (\E j \in running : running' = running \ {j}),
         row' \in [Build -> Working \cup Ended \cup {"none"}],
         \A b \in Build : row[b] # "none" => row'[b] # "none"
  PROVE  /\ PoolFits'
         /\ running' \subseteq running /\ Cardinality(running') <= Workers
<1>1. running' \subseteq running
  OBVIOUS
<1>2. IsFiniteSet(running') /\ Cardinality(running') <= Cardinality(running)
  BY <1>1, FS_Subset DEF PoolFits
<1>3. Cardinality(running') \in Nat /\ Cardinality(running) \in Nat
  BY <1>2, FS_CardinalityType DEF PoolFits
<1>4. Cardinality(running') <= Workers
  BY <1>2, <1>3, BuildConstantsOK DEF TypeOK
<1> QED BY <1>1, <1>2, <1>4 DEF PoolFits, Starting

\* Types and the pool: every submission, pick-up and end of a job.
LEMMA TypeStep == TypeOK /\ IInv /\ [Next]_vars => TypeOK' /\ PoolFits'
<1> SUFFICES ASSUME TypeOK, IInv, [Next]_vars PROVE TypeOK' /\ PoolFits'
  OBVIOUS
<1> USE DEF IInv, db, process
<1>r. \A b \in Build : row[b] \in Working \cup Ended \cup {"none"}
  BY DEF TypeOK
<1>1. ASSUME NEW c \in Caller, NEW b \in Build, Insert(c, b) PROVE TypeOK' /\ PoolFits'
  <2>1. /\ row' = [row EXCEPT ![b] = "queued"]
        /\ starter' = [starter EXCEPT ![c] = [at |-> "submit", build |-> b]]
        /\ starter[c].at = "idle" /\ row[b] = "none"
        /\ UNCHANGED <<item, queue, running, lock, result, release, faults, loose, lost, tries>>
    BY <1>1 DEF Insert
  <2>2. TypeOK'
    BY <2>1 DEF TypeOK, Working
  <2>3. PoolFits'
    BY <2>1 DEF PoolFits, Starting, TypeOK, Once
  <2> QED BY <2>2, <2>3
<1>2. ASSUME NEW c \in Caller, Submit(c) PROVE TypeOK' /\ PoolFits'
  <2> DEFINE b == starter[c].build
  <2>1. b \in Build /\ b \notin ToSet(queue) \cup running /\ row[b] # "none"
    BY <1>2 DEF Submit, PoolFits, Starting
  <2>2. queue' = Append(queue, b) /\ queue \in Seq(Build \cup Delivery) /\ Once(queue)
    BY <1>2 DEF Submit, TypeOK, PoolFits
  <2>3. queue' \in Seq(Build \cup Delivery) /\ Once(queue') /\ ToSet(queue') = ToSet(queue) \cup {b}
    BY <2>1, <2>2, OnceAppend
  <2>4. /\ UNCHANGED <<row, item, running, lock, result, release, faults, loose, lost, tries>>
        /\ starter'[c].at # "submit" /\ starter' \in [Caller -> [at : {"idle", "submit", "save"}, build : Build \cup {None}]]
        /\ starter'[c].at = "idle" \/ starter'[c].build = b
        /\ \A e \in Caller \ {c} : starter'[e] = starter[e]
    BY <1>2, <2>1 DEF Submit, TypeOK, Idle
  <2>5. TypeOK'
    BY <2>1, <2>3, <2>4 DEF TypeOK, Once
  <2>6. PoolFits'
    BY <1>2, <2>1, <2>3, <2>4 DEF PoolFits, Starting, Submit
  <2> QED BY <2>5, <2>6
<1>3. CASE SaveBuildId
  BY <1>3 DEF SaveBuildId, TypeOK, PoolFits, Starting, Idle, Caller
<1>4. CASE ReadBuild \/ DeployBuilt
  BY <1>4 DEF ReadBuild, DeployBuilt, TypeOK, PoolFits, Starting
<1>5. ASSUME NEW j \in Delivery, Emit(j) PROVE TypeOK' /\ PoolFits'
  <2>2. /\ queue' = Append(queue, j) /\ queue \in Seq(Build \cup Delivery) /\ Once(queue)
        /\ j \in Build \cup Delivery /\ j \notin ToSet(queue) /\ j \notin running /\ j \notin Build
        /\ tries' \in [Delivery -> 0..2]
        /\ UNCHANGED <<row, item, running, lock, result, starter, release, faults, loose, lost>>
    BY <1>5, BuildConstantsOK DEF Emit, TypeOK, PoolFits
  <2>3. queue' \in Seq(Build \cup Delivery) /\ Once(queue') /\ ToSet(queue') = ToSet(queue) \cup {j}
    BY <2>2, OnceAppend
  <2>5. TypeOK'
    BY <2>2, <2>3 DEF TypeOK, Once
  <2>6. PoolFits'
    BY <2>2, <2>3 DEF PoolFits, Starting
  <2> QED BY <2>5, <2>6
<1>6. CASE Take
  <2> DEFINE h == Head(queue)
  <2>1. /\ queue # <<>> /\ queue' = Tail(queue) /\ queue \in Seq(Build \cup Delivery) /\ Once(queue)
        /\ running' = running \cup {h} /\ Cardinality(running) < Workers
        /\ UNCHANGED <<row, item, lock, result, starter, release, faults, loose, lost, tries>>
    BY <1>6 DEF Take, TypeOK, PoolFits
  <2>2. /\ queue' \in Seq(Build \cup Delivery) /\ Once(queue') /\ h \in ToSet(queue)
        /\ h \in Build \cup Delivery /\ ToSet(queue') = ToSet(queue) \ {h}
    BY <2>1, OnceTail
  <2> HIDE DEF h
  <2>3. IsFiniteSet(running') /\ Cardinality(running') = Cardinality(running) + 1
    <3> h \notin running
      BY <2>2 DEF TypeOK
    <3> QED BY <2>1, FS_AddElement DEF PoolFits
  <2>4. Cardinality(running') <= Workers
    <3> Cardinality(running) \in Nat
      BY FS_CardinalityType DEF PoolFits
    <3> QED BY <2>1, <2>3, BuildConstantsOK
  <2>5. TypeOK'
    BY <2>1, <2>2, <2>4 DEF TypeOK, Once
  <2>6. PoolFits'
    BY <2>1, <2>2, <2>3 DEF PoolFits, Starting
  <2> QED BY <2>5, <2>6
\* A run, or a delivery, that is over leaves its worker.
<1>k. ASSUME UNCHANGED <<queue, starter>>, row' \in [Build -> Working \cup Ended \cup {"none"}],
             \A b \in Build : row[b] # "none" => row'[b] # "none",
             running' = running \/ (\E j \in running : running' = running \ {j})
      PROVE  /\ PoolFits' /\ running' \subseteq running /\ Cardinality(running') <= Workers
             /\ queue' = queue /\ starter' = starter
  BY <1>k, PoolKept
<1>7. ASSUME NEW j \in Delivery, Deliver(j) PROVE TypeOK' /\ PoolFits'
  <2>1. /\ running' = running \/ (\E i \in running : running' = running \ {i})
        /\ running \ {j} \subseteq running' /\ tries' \in [Delivery -> 0..2]
        /\ UNCHANGED <<row, item, queue, lock, result, starter, release, faults, loose, lost>>
    BY <1>7 DEF Deliver, Reached, NotReached, TypeOK
  <2>2. /\ PoolFits' /\ running' \subseteq running /\ Cardinality(running') <= Workers
    BY <1>k, <2>1 DEF TypeOK
  <2>3. lock \in {None} \cup (running' \cap Build)
    BY <2>1, BuildConstantsOK DEF TypeOK
  <2> QED BY <2>1, <2>2, <2>3 DEF TypeOK
<1>8. ASSUME NEW b \in Build, Lock(b) \/ Checkout(b) PROVE TypeOK' /\ PoolFits'
  <2>1. /\ row' \in [Build -> Working \cup Ended \cup {"none"}] /\ lock' \in {None} \cup (running \cap Build)
        /\ \A c \in Build : row[c] # "none" => row'[c] # "none"
        /\ UNCHANGED <<item, queue, running, result, starter, release, faults, loose, lost, tries>>
    BY <1>8 DEF Lock, Checkout, TypeOK, Working
  <2>2. PoolFits'
    BY <1>k, <2>1
  <2> QED BY <2>1, <2>2 DEF TypeOK
<1>9. ASSUME NEW b \in Build, StreamEnds(b) \/ Finalize(b) \/ Reread(b) PROVE TypeOK' /\ PoolFits'
  <2>1. UNCHANGED <<row, item, queue, running, lock, starter, faults, lost, tries>>
    BY <1>9 DEF StreamEnds, Finalize, Reread
  <2>2. /\ loose' \subseteq Build
        /\ release' \in [Build -> [status : {"none", "running", "success", "failed"}, final : BOOLEAN]]
    <3>1. release' = release \/ release' = [release EXCEPT ![b] = [release[b] EXCEPT !.final = TRUE]]
      BY <1>9 DEF StreamEnds, Finalize, Reread
    <3>2. loose' \subseteq Build
      <4>1. CASE StreamEnds(b)
        <5>1. loose' = loose \/ loose' = loose \cup {b}
          BY <4>1 DEF StreamEnds
        <5> QED BY <5>1 DEF TypeOK
      <4>2. CASE Finalize(b) \/ Reread(b)
        BY <4>2 DEF Finalize, Reread, TypeOK
      <4> QED BY <1>9, <4>1, <4>2
    <3>3. release' \in [Build -> [status : {"none", "running", "success", "failed"}, final : BOOLEAN]]
      <4>1. [release[b] EXCEPT !.final = TRUE]
              \in [status : {"none", "running", "success", "failed"}, final : BOOLEAN]
        <5> release[b] \in [status : {"none", "running", "success", "failed"}, final : BOOLEAN]
          BY DEF TypeOK
        <5> QED OBVIOUS
      <4> QED BY <3>1, <4>1 DEF TypeOK
    <3> QED BY <3>2, <3>3
  <2>3. result' \in [at : {"none", "ended", "finalize", "reread", "final"}, ok : BOOLEAN,
                    known : BOOLEAN, final : BOOLEAN]
    <3>t. /\ result \in [at : {"none", "ended", "finalize", "reread", "final"}, ok : BOOLEAN,
                         known : BOOLEAN, final : BOOLEAN]
          /\ release[b].final \in BOOLEAN
      BY DEF TypeOK
    <3>1. CASE StreamEnds(b)
      BY <3>1 DEF StreamEnds, NoResult
    <3>2. CASE Finalize(b)
      BY <3>2, <3>t DEF Finalize
    <3>3. CASE Reread(b)
      BY <3>3, <3>t DEF Reread
    <3> QED BY <1>9, <3>1, <3>2, <3>3
  <2>4. PoolFits'
    BY <1>k, <2>1 DEF TypeOK
  <2> QED BY <2>1, <2>2, <2>3, <2>4 DEF TypeOK
\* The lock is left with the worker.
<1>l. ASSUME NEW b \in Build, lock = b, NEW s \in Ended, Leave(b, s),
             loose' \subseteq Build, faults' \in 0..MaxFaults
      PROVE  TypeOK' /\ PoolFits'
  <2>1. /\ row' \in [Build -> Working \cup Ended \cup {"none"}] /\ b \in running /\ running' = running \ {b}
        /\ \A c \in Build : row[c] # "none" => row'[c] # "none"
        /\ lock' = None /\ result' = NoResult
        /\ UNCHANGED <<item, queue, starter, release, lost, tries>>
    BY <1>l, BuildConstantsOK DEF Leave, TypeOK, Ended
  <2>2. PoolFits' /\ running' \subseteq running /\ Cardinality(running') <= Workers
    BY <1>k, <2>1
  <2> QED BY <1>l, <2>1, <2>2 DEF TypeOK, NoResult
<1>10. ASSUME NEW b \in Build, Judge(b) PROVE TypeOK' /\ PoolFits'
  <2>1. CASE Accept(b)
    <3>1. /\ row' \in [Build -> Working \cup Ended \cup {"none"}]
          /\ \A c \in Build : row[c] # "none" => row'[c] # "none"
          /\ UNCHANGED <<item, queue, running, lock, starter, release, loose, lost, tries, faults>>
      BY <1>10, <2>1 DEF Judge, Accept, TypeOK, Working
    <3>2. Seen(b).final \in BOOLEAN
      BY DEF Seen, NoRelease, TypeOK
    <3>3. result' \in [at : {"none", "ended", "finalize", "reread", "final"}, ok : BOOLEAN,
                      known : BOOLEAN, final : BOOLEAN]
      BY <2>1, <3>2 DEF Accept, TypeOK
    <3>4. PoolFits'
      BY <1>k, <3>1
    <3> QED BY <3>1, <3>3, <3>4 DEF TypeOK
  <2>2. CASE Leave(b, "failed") /\ loose' \in {loose, loose \cup {b}}
    BY <1>10, <1>l, <2>2 DEF Judge, Ended, TypeOK
  <2> QED BY <1>10, <2>1, <2>2 DEF Judge
<1>11. ASSUME NEW b \in Build, Succeed(b) PROVE TypeOK' /\ PoolFits'
  BY <1>11, <1>l DEF Succeed, Ended, TypeOK
<1>12. ASSUME NEW b \in Build, CallFails(b) PROVE TypeOK' /\ PoolFits'
  <2>1. lock = b /\ Leave(b, "failed") /\ loose' \subseteq Build /\ faults' \in 0..MaxFaults
    BY <1>12, BuildConstantsOK DEF CallFails, TypeOK
  <2> QED BY <1>l, <2>1 DEF Ended
<1>13. ASSUME NEW b \in Build, BuilderStarts(b) \/ ReleaseSettles(b) PROVE TypeOK' /\ PoolFits'
  <2>1. UNCHANGED <<row, item, queue, running, lock, result, starter, faults, loose, lost, tries>>
    BY <1>13 DEF BuilderStarts, ReleaseSettles
  <2>2. release' \in [Build -> [status : {"none", "running", "success", "failed"}, final : BOOLEAN]]
    <3>1. CASE BuilderStarts(b)
      <4>1. release' = [release EXCEPT ![b] = [release[b] EXCEPT !.status = "running"]]
        BY <3>1 DEF BuilderStarts
      <4> QED BY <4>1 DEF TypeOK
    <3>2. CASE ReleaseSettles(b)
      BY <3>2 DEF ReleaseSettles, TypeOK
    <3> QED BY <1>13, <3>1, <3>2
  <2>3. PoolFits'
    BY <1>k, <2>1 DEF TypeOK
  <2> QED BY <2>1, <2>2, <2>3 DEF TypeOK
<1>14. CASE Crash
  <2>1. /\ queue' = <<>> /\ running' = {} /\ lock' = None /\ result' = NoResult
        /\ starter' = [c \in Caller |-> Idle] /\ faults' \in 0..MaxFaults
        /\ lost' \subseteq Build /\ loose' \subseteq Build
        /\ UNCHANGED <<row, item, tries, release>>
    BY <1>14, BuildConstantsOK DEF Crash, TypeOK
  <2>2. ToSet(queue') = {} /\ Cardinality({}) = 0 /\ IsFiniteSet({}) /\ Workers \in Nat
    BY <2>1, FS_EmptySet, BuildConstantsOK DEF ToSet
  <2>3. queue' \in Seq(Build \cup Delivery) /\ Len(queue') = 0 /\ DOMAIN queue' = {}
    BY <2>1
  <2>4. Once(queue')
    BY <2>2, <2>3 DEF Once
  <2>5. TypeOK'
    <3>1. /\ 0 <= Workers /\ NoResult \in [at : {"none", "ended", "finalize", "reread", "final"},
                                         ok : BOOLEAN, known : BOOLEAN, final : BOOLEAN]
          /\ Idle \in [at : {"idle", "submit", "save"}, build : Build \cup {None}]
      BY <2>2 DEF NoResult, Idle
    <3>2. /\ ToSet(queue') \cap running' = {} /\ Cardinality(ToSet(queue')) = Len(queue')
          /\ running' \subseteq Build \cup Delivery /\ Cardinality(running') <= Workers
      BY <2>1, <2>2, <2>3, <3>1
    <3> QED BY <2>1, <2>3, <3>1, <3>2 DEF TypeOK
  <2>6. PoolFits'
    BY <2>1, <2>2, <2>4 DEF PoolFits, Starting, Idle
  <2> QED BY <2>5, <2>6
<1>15. CASE UNCHANGED vars
  BY <1>15 DEF vars, TypeOK, PoolFits, Starting
<1>16. ASSUME NEW b \in Build, Escapes(b) PROVE TypeOK' /\ PoolFits'
  <2>1. /\ b \in running /\ running' = running \ {b} /\ lock' = None /\ result' = NoResult
        /\ lost' \subseteq Build /\ loose' \subseteq Build /\ faults' \in 0..MaxFaults
        /\ UNCHANGED <<row, item, queue, starter, release, tries>>
    BY <1>16, BuildConstantsOK DEF Escapes, TypeOK
  <2>2. PoolFits' /\ running' \subseteq running /\ Cardinality(running') <= Workers
    BY <1>k, <2>1 DEF TypeOK
  <2> QED BY <2>1, <2>2 DEF TypeOK, NoResult
<1> QED
  BY <1>1, <1>2, <1>3, <1>4, <1>5, <1>6, <1>7, <1>8, <1>9, <1>10, <1>11, <1>12, <1>13, <1>14, <1>15, <1>16
  DEF Next, ChangeStep, RunStep, Caller

-----------------------------------------------------------------------------
(* The lock, the releases, what succeeded.                                 *)

\* The lock's holder, its release and what its build recorded, step by step.
LEMMA HolderStep == TypeOK /\ IInv /\ [Next]_vars => HolderFits' /\ ReleaseFits' /\ SuccessFits'
<1> SUFFICES ASSUME TypeOK, IInv, [Next]_vars PROVE HolderFits' /\ ReleaseFits' /\ SuccessFits'
  OBVIOUS
<1> USE DEF IInv, db, process
<1> USE BuildConstantsOK
<1>a. /\ row \in [Build -> Working \cup Ended \cup {"none"}]
      /\ release \in [Build -> [status : {"none", "running", "success", "failed"}, final : BOOLEAN]]
      /\ lock \in {None} \cup Build /\ None \notin Build
  BY DEF TypeOK
<1>u. ASSUME UNCHANGED <<row, item, lock, result, release, loose>>
      PROVE  HolderFits' /\ ReleaseFits' /\ SuccessFits'
  BY <1>u DEF HolderFits, ReleaseFits, SuccessFits
<1>1. ASSUME NEW c \in Caller, NEW b \in Build, Insert(c, b) PROVE HolderFits' /\ ReleaseFits' /\ SuccessFits'
  <2>1. /\ row' = [row EXCEPT ![b] = "queued"] /\ row[b] = "none" /\ b # lock
        /\ UNCHANGED <<item, lock, result, release, loose>>
    BY <1>1, <1>a DEF Insert, HolderFits, Working
  <2> QED BY <1>a, <2>1 DEF HolderFits, ReleaseFits, SuccessFits
<1>2. CASE SaveBuildId
  <2>1. item'.state = "running" /\ item'.build \in Build
    BY <1>2 DEF SaveBuildId, PoolFits, Caller
  <2> QED BY <1>2, <2>1 DEF SaveBuildId, HolderFits, ReleaseFits, SuccessFits
<1>3. CASE ReadBuild
  BY <1>3 DEF ReadBuild, HolderFits, ReleaseFits, SuccessFits, TypeOK
<1>4. CASE DeployBuilt
  BY <1>4 DEF DeployBuilt, HolderFits, ReleaseFits, SuccessFits, TypeOK
<1>5. ASSUME NEW b \in Build, Lock(b) PROVE HolderFits' /\ ReleaseFits' /\ SuccessFits'
  <2>1. /\ row' = [row EXCEPT ![b] = "cloning"] /\ row[b] = "queued" /\ lock = None /\ lock' = b
        /\ result = NoResult
        /\ UNCHANGED <<item, result, release, loose>>
    BY <1>5 DEF Lock, HolderFits
  <2> QED BY <1>a, <2>1 DEF HolderFits, ReleaseFits, SuccessFits, Working, NoResult
<1>6. ASSUME NEW b \in Build, Checkout(b) PROVE HolderFits' /\ ReleaseFits' /\ SuccessFits'
  BY <1>6, <1>a DEF Checkout, HolderFits, ReleaseFits, SuccessFits, Working
<1>7. ASSUME NEW b \in Build, StreamEnds(b) PROVE HolderFits' /\ ReleaseFits' /\ SuccessFits'
  BY <1>7, <1>a DEF StreamEnds, HolderFits, ReleaseFits, SuccessFits, NoResult
\* The holder leaves with a release that is made, or that it no longer waits for.
<1>l. ASSUME NEW b \in Build, lock = b, NEW s \in Ended, Leave(b, s), loose \subseteq loose',
             release[b].status = "running" => b \in loose',
             s = "success" => release[b] = Deployable
      PROVE  HolderFits' /\ ReleaseFits' /\ SuccessFits'
  <2>1. /\ row' = [row EXCEPT ![b] = s] /\ lock' = None /\ result' = NoResult
        /\ row[b] # "success" /\ UNCHANGED <<item, release>>
    BY <1>l DEF Leave, HolderFits, Working
  <2> QED BY <1>a, <1>l, <2>1 DEF HolderFits, ReleaseFits, SuccessFits
<1>8. ASSUME NEW b \in Build, Judge(b) PROVE HolderFits' /\ ReleaseFits' /\ SuccessFits'
  <2>1. CASE Accept(b)
    <3>1. /\ lock = b /\ result.known /\ release[b].status = "success"
          /\ row' = [row EXCEPT ![b] = "finalizing"] /\ row[b] # "success"
          /\ UNCHANGED <<item, lock, release, loose>>
      BY <1>8, <2>1 DEF Judge, Accept, Accepted, Seen, NoRelease, HolderFits, Working
    <3>2. result'.at = "finalize" /\ result'.final = release[b].final
      BY <2>1, <3>1 DEF Accept, Seen, TypeOK
    <3> QED BY <1>a, <3>1, <3>2 DEF HolderFits, ReleaseFits, SuccessFits, Working
  <2>2. CASE Leave(b, "failed") /\ loose' = IF Seen(b).status = "running" THEN loose \cup {b} ELSE loose
    <3>1. release[b].status = "running" => b \in loose'
      BY <1>8, <1>a, <2>2 DEF Judge, Seen, HolderFits
    <3> QED BY <1>8, <1>l, <2>2, <3>1 DEF Judge, Ended
  <2> QED BY <1>8, <2>1, <2>2 DEF Judge
<1>9. ASSUME NEW b \in Build, Finalize(b) \/ Reread(b) PROVE HolderFits' /\ ReleaseFits' /\ SuccessFits'
  <2>1. /\ lock = b /\ result.at \in {"finalize", "reread"} /\ release[b].status = "success"
        /\ row[b] # "success" /\ UNCHANGED <<row, item, lock, loose>>
    BY <1>9, <1>a DEF Finalize, Reread, HolderFits, Working
  <2>2. /\ \A c \in Build : c # b => release'[c] = release[c]
        /\ release'[b].status = "success"
        /\ result'.at \in {"reread", "final"}
        /\ result'.at = "final" /\ result'.final => release'[b].final
    <3>1. CASE Finalize(b)
      BY <1>a, <2>1, <3>1 DEF Finalize, TypeOK
    <3>2. CASE Reread(b)
      BY <1>a, <2>1, <3>2 DEF Reread, TypeOK
    <3> QED BY <1>9, <3>1, <3>2
  <2> QED BY <1>a, <2>1, <2>2 DEF HolderFits, ReleaseFits, SuccessFits
<1>10. ASSUME NEW b \in Build, Succeed(b) PROVE HolderFits' /\ ReleaseFits' /\ SuccessFits'
  <2>1. /\ lock = b /\ release[b].status = "success"
        /\ result.final => release[b] = Deployable
    BY <1>10, <1>a DEF Succeed, HolderFits, Deployable
  <2> QED BY <1>10, <1>l, <2>1 DEF Succeed, Ended
<1>11. ASSUME NEW b \in Build, CallFails(b) PROVE HolderFits' /\ ReleaseFits' /\ SuccessFits'
  BY <1>11, <1>l DEF CallFails, Ended
<1>12. ASSUME NEW b \in Build, BuilderStarts(b) PROVE HolderFits' /\ ReleaseFits' /\ SuccessFits'
  <2>1. /\ lock = b /\ row[b] = "building" /\ result.at = "none"
        /\ \A c \in Build : c # b => release'[c] = release[c]
        /\ UNCHANGED <<row, item, lock, result, loose>>
    BY <1>12, <1>a DEF BuilderStarts
  <2> QED BY <1>a, <2>1 DEF HolderFits, ReleaseFits, SuccessFits
<1>13. ASSUME NEW b \in Build, ReleaseSettles(b) PROVE HolderFits' /\ ReleaseFits' /\ SuccessFits'
  <2>1. /\ release[b].status = "running" /\ release'[b].status # "running"
        /\ \A c \in Build : c # b => release'[c] = release[c]
        /\ UNCHANGED <<row, item, lock, result, loose>>
    BY <1>13, <1>a DEF ReleaseSettles
  <2>2. result.at \in {"finalize", "reread", "final"} => lock # b
    BY <1>a, <2>1 DEF HolderFits
  <2>3. HolderFits'
    BY <1>a, <2>1, <2>2 DEF HolderFits
  <2>4. ReleaseFits'
    BY <1>a, <2>1 DEF ReleaseFits
  <2>5. row[b] # "success"
    BY <2>1 DEF SuccessFits, Deployable
  <2>6. SuccessFits'
    BY <2>1, <2>5 DEF SuccessFits
  <2> QED BY <2>3, <2>4, <2>6
<1>14. CASE Crash
  <2>1. /\ lock' = None /\ result' = NoResult /\ UNCHANGED <<row, item, release>>
        /\ loose' = loose \cup {b \in Build : row[b] \in Working}
    BY <1>14 DEF Crash
  <2> QED BY <1>a, <2>1 DEF HolderFits, ReleaseFits, SuccessFits
<1>15. ASSUME NEW b \in Build, Escapes(b) PROVE HolderFits' /\ ReleaseFits' /\ SuccessFits'
  <2>1. /\ lock = b \/ lock = None
        /\ lock' = None /\ result' = NoResult /\ loose' = loose \cup {b}
        /\ UNCHANGED <<row, item, release>>
    BY <1>15 DEF Escapes
  <2> QED BY <1>a, <2>1 DEF HolderFits, ReleaseFits, SuccessFits
<1> QED
  BY <1>u, <1>1, <1>2, <1>3, <1>4, <1>5, <1>6, <1>7, <1>8, <1>9, <1>10, <1>11, <1>12, <1>13, <1>14, <1>15
  DEF Next, ChangeStep, RunStep, Submit, Take, Emit, Deliver, Reached, NotReached, vars

\* The pool, the lock's holder and the releases fit together in every reachable
\* state, whatever the stream of the builder answers.
THEOREM IInvInvariant == Spec => [](TypeOK /\ IInv)
<1>1. TypeOK /\ IInv /\ [Next]_vars => (TypeOK /\ IInv)'
  BY TypeStep, HolderStep DEF IInv
<1> QED BY InvInit, <1>1, PTL DEF Spec

\* Types: a job is in the pool once, and not both queued and in a worker; a worker for
\* each that runs; the lock's holder is in one.
THEOREM TypeCorrect == Spec => []TypeOK
BY IInvInvariant, PTL

\* Two releases are made at once only if nobody waits for one of them any longer.
THEOREM BuilderHasOneRelease == Spec => []OneReleaseAtATime
<1>1. TypeOK /\ IInv => OneReleaseAtATime
  BY DEF IInv, ReleaseFits, OneReleaseAtATime
<1> QED BY <1>1, IInvInvariant, PTL

\* What a build that succeeded gives to the deployment after it is not refused there.
THEOREM SuccessIsDeployable == Spec => []BuiltCanBeDeployed
<1>1. TypeOK /\ IInv => BuiltCanBeDeployed
  BY DEF IInv, SuccessFits, BuiltCanBeDeployed
<1> QED BY <1>1, IInvInvariant, PTL
=============================================================================
