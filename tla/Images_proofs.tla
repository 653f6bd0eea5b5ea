---------------------------- MODULE Images_proofs ----------------------------
(***************************************************************************)
(* For any threads, images, edits of the settings and faults: the thread   *)
(* that reads the settings' file is the one that holds their lock, the     *)
(* imagemakers keep their limit of builds, and the row of an image tells   *)
(* what became of its job.                                                 *)
(***************************************************************************)
EXTENDS Images, FiniteSetTheorems, TLAPS

-----------------------------------------------------------------------------
(* The inductive invariant.                                                *)

Readers  == [at : {"idle", "wait", "open", "stat", "parse", "got", "raised"},
             seen : {None} \cup 0..MaxEdits, text : File \cup {[kind |-> "missing", version |-> 0]}]
Requests == [op : {"none", "create", "get"}, image : Image \cup {None}, client : Place \cup {"none"},
             answer : {"none", "unknown", "building", "done", "error"}]

\* The text a thread read from the file can be taken for the settings.
ReadersTyped ==
  /\ SettingsTypeOK /\ reader \in [Reader -> Readers]
  /\ \A t \in Reader : reader[t].at \in {"stat", "parse"} => reader[t].text \in File

ImagesTyped ==
  /\ row \in [Image -> {"none", "building", "ready", "failed"}]
  /\ job \in [Image -> [status : {"none", "building", "done", "error", "forgotten"}, place : Place]]
  /\ \A place \in Place : IsFiniteSet(Building(place)) /\ Cardinality(Building(place)) <= Slots
  /\ request \in [Thread -> Requests] /\ faults \in 0..MaxFaults /\ fate \in [Image -> SUBSET Fate]

\* What an answer says of an image's job is known of it.
Follows(i, answer) ==
  /\ answer = "done" => "done" \in fate[i]
  /\ answer \in {"error", "unknown"} => fate[i] \cap (Fate \ {"done"}) # {}

\* A request is in current() only while it wants a client, and asks, and is answered,
\* of a job that was posted.
RequestFits(t) ==
  /\ request[t].op = "none" \/ request[t].client # "none" => reader[t].at = "idle"
  /\ request[t].answer # "none" => request[t].client # "none"
  /\ request[t].op # "none" =>
       /\ request[t].image \in Image
       /\ request[t].answer # "none" => job[request[t].image].status # "none"
  /\ request[t].op = "get" =>
       row[request[t].image] # "none" /\ Follows(request[t].image, request[t].answer)

JobsFit ==
  \A i \in Image :
    /\ job[i].status \in {"done", "error", "forgotten"} => job[i].status \in fate[i]
    /\ row[i] # "none" => job[i].status # "none"

\* A row says of its job what is known of it.
RowTold ==
  \A i \in Image :
    /\ row[i] = "ready" => "done" \in fate[i]
    /\ row[i] = "failed" => fate[i] \cap (Fate \ {"done"}) # {}

IInv ==
  /\ ReadersTyped /\ ImagesTyped /\ JobsFit /\ RowTold
  /\ \A t \in Thread : RequestFits(t)

\* No thread reads, no image is there at first.
LEMMA InvInit == Init => IInv
<1> SUFFICES ASSUME Init PROVE IInv
  OBVIOUS
<1> USE SettingsConstantsOK, ImageConstantsOK DEF Init, SettingsInit, Fate, Mistaken
<1>1. Idle \in Readers /\ NoWork \in Requests
  BY DEF Idle, Readers, NoWork, Requests
<1>2. \A place \in Place : Building(place) = {}
  BY DEF Building, NoJob
<1>3. SettingsTypeOK
  BY DEF SettingsTypeOK, File, Idle, Reader
<1>4. \A place \in Place : Cardinality(Building(place)) <= Slots /\ IsFiniteSet(Building(place))
  BY <1>2, FS_EmptySet
<1>5. ReadersTyped
  BY <1>1, <1>3 DEF ReadersTyped, Idle
<1>6. ImagesTyped
  BY <1>1, <1>4 DEF ImagesTyped, NoJob, Place
<1> QED BY <1>5, <1>6 DEF IInv, RequestFits, JobsFit, RowTold, Follows, Idle, NoWork, NoJob, Reader

-----------------------------------------------------------------------------
(* The settings.                                                           *)

Only(t) == ReadersTyped' /\ (\A u \in Reader : u # t => reader'[u] = reader[u]) /\ UNCHANGED file

\* A thread that reads moves on alone, and keeps the settings and their lock typed.
LEMMA ReadingTyped ==
  ASSUME ReadersTyped, NEW t \in Reader, Reading(t)
  PROVE  Only(t)
<1> USE SettingsConstantsOK DEF provider, ReadersTyped, Only
<1>0. /\ Mtime \in {None} \cup 0..MaxEdits /\ file \in File /\ file.version \in 0..MaxEdits /\ t # None
      /\ file.kind # "missing" => Mtime = file.version
  BY DEF SettingsTypeOK, Mtime, File
\* The thread's new place, with or without the lock, is all there is to check.
<1>1. ASSUME NEW r \in Readers, reader' = [reader EXCEPT ![t] = r],
             r.at \in {"stat", "parse"} => r.text \in File,
             \/ lock' = lock /\ (r.at \in {"open", "stat", "parse"} <=> lock = t)
             \/ lock' = None /\ lock = t /\ r.at \notin {"open", "stat", "parse"}
             \/ lock' = t /\ lock = None /\ r.at \in {"open", "stat", "parse"},
             kept' \in {None} \cup 0..MaxEdits, mtime' \in {None} \cup 0..MaxEdits, missed' \subseteq 0..MaxEdits,
             UNCHANGED <<file, alive>>
      PROVE  Only(t)
  <2>1. reader' \in [Reader -> Readers] /\ reader'[t] = r /\ \A u \in Reader : u # t => reader'[u] = reader[u]
    BY <1>1
  <2>2. \A u \in Reader : (lock' = u) = (reader'[u].at \in {"open", "stat", "parse"})
    BY <1>0, <1>1, <2>1 DEF SettingsTypeOK
  <2>3. \A u \in Reader :
          /\ reader'[u].at \in {"idle", "wait", "open", "stat", "parse", "got", "raised"}
          /\ reader'[u].seen \in {None} \cup 0..MaxEdits
    BY <2>1 DEF Readers
  <2> QED BY <1>1, <2>1, <2>2, <2>3 DEF SettingsTypeOK
<1> DEFINE gone(at) == [Idle EXCEPT !.at = at]
<1>2. ASSUME NEW a \in {"idle", "wait", "open", "stat", "parse", "got", "raised"}
      PROVE  gone(a) \in Readers /\ gone(a).at = a
  BY DEF Idle, Readers
<1>3. CASE Stat(t)
  <2>1. lock # t
    BY <1>3 DEF Stat, SettingsTypeOK
  <2>2. CASE Mtime = mtime
    BY <1>1, <1>2, <1>3, <2>1, <2>2 DEF Stat, Goto, SettingsTypeOK
  <2>3. CASE Mtime # mtime
    <3> DEFINE r == [Idle EXCEPT !.at = "wait", !.seen = Mtime]
    <3>1. r \in Readers /\ r.at = "wait"
      BY <1>0 DEF Idle, Readers
    <3>2. reader' = [reader EXCEPT ![t] = r] /\ UNCHANGED <<file, provider, alive, missed>>
      BY <1>3, <2>3 DEF Stat
    <3> HIDE DEF r
    <3> QED BY <1>1, <2>1, <3>1, <3>2 DEF SettingsTypeOK
  <2> QED BY <2>2, <2>3
<1>4. CASE Acquire(t)
  <2>1. lock = None
    BY <1>4 DEF Acquire
  <2>2. CASE reader[t].seen = mtime
    BY <1>0, <1>1, <1>2, <1>4, <2>1, <2>2 DEF Acquire, Goto, SettingsTypeOK
  <2>3. CASE reader[t].seen # mtime
    BY <1>0, <1>1, <1>2, <1>4, <2>1, <2>3 DEF Acquire, Goto, SettingsTypeOK
  <2> QED BY <2>2, <2>3
\* The lock is left for good, or the text is there: current() returns or raises.
<1>5. ASSUME lock = t, lock' = None, NEW a \in {"got", "raised"}, Goto(t, a),
             kept' \in {kept, None}, mtime' \in {mtime, None}, UNCHANGED <<file, alive, missed>>
      PROVE  Only(t)
  <2>1. kept' \in {None} \cup 0..MaxEdits /\ mtime' \in {None} \cup 0..MaxEdits /\ missed' \subseteq 0..MaxEdits
    BY <1>5 DEF SettingsTypeOK
  <2>2. reader' = [reader EXCEPT ![t] = gone(a)] /\ gone(a) \in Readers /\ gone(a).at = a
    BY <1>2, <1>5 DEF Goto
  <2> HIDE DEF gone
  <2> QED BY <1>1, <1>5, <2>1, <2>2
<1>6. CASE Open(t)
  <2>1. lock = t
    BY <1>6 DEF Open, SettingsTypeOK
  <2>2. CASE file.kind = "missing"
    BY <1>5, <1>6, <2>1, <2>2 DEF Open, Defaults, Return
  <2>3. CASE file.kind = "unparsable"
    BY <1>5, <1>6, <2>1, <2>3 DEF Open
  <2>4. CASE file.kind \in {"good", "refused", "scalar"}
    <3> DEFINE r == [reader[t] EXCEPT !.at = "stat", !.text = file]
    <3>1. r \in Readers /\ r.at = "stat" /\ r.text = file
      BY <1>0 DEF Readers
    <3>2. reader' = [reader EXCEPT ![t] = r] /\ UNCHANGED <<file, provider, alive, missed>>
      BY <1>6, <2>4 DEF Open
    <3> HIDE DEF r
    <3> QED BY <1>0, <1>1, <2>1, <3>1, <3>2 DEF SettingsTypeOK
  <2> QED BY <1>6, <2>2, <2>3, <2>4 DEF Open
<1>7. CASE StatRead(t)
  <2>1. lock = t
    BY <1>7 DEF StatRead, SettingsTypeOK
  <2>2. CASE file.kind = "missing"
    BY <1>5, <1>7, <2>1, <2>2 DEF StatRead, Defaults, Return
  <2>3. CASE file.kind # "missing"
    <3> DEFINE r == [reader[t] EXCEPT !.at = "parse"]
    <3>1. r \in Readers /\ r.at = "parse" /\ r.text = reader[t].text /\ r.text \in File
      BY <1>7 DEF StatRead, Readers
    <3>2. reader' = [reader EXCEPT ![t] = r] /\ UNCHANGED <<file, kept, lock, alive>> /\ mtime' = Mtime
          /\ (missed' = missed \/ missed' = missed \cup {file.version})
      BY <1>7, <2>3 DEF StatRead
    <3> HIDE DEF r
    <3>3. missed' \subseteq 0..MaxEdits
      BY <1>0, <3>2 DEF SettingsTypeOK
    <3> QED BY <1>0, <1>1, <2>1, <3>1, <3>2, <3>3 DEF SettingsTypeOK
  <2> QED BY <2>2, <2>3
<1>8. CASE Parse(t)
  <2>1. lock = t /\ reader[t].text \in File
    BY <1>8 DEF Parse, SettingsTypeOK
  <2>2. kept' \in {None} \cup 0..MaxEdits
    BY <1>8, <2>1 DEF Parse, File, SettingsTypeOK
  <2>3. PICK a \in {"got", "raised"} :
          reader' = [reader EXCEPT ![t] = gone(a)] /\ lock' = None /\ UNCHANGED <<file, mtime, alive, missed>>
    BY <1>8 DEF Parse, Goto
  <2>4. gone(a) \in Readers /\ gone(a).at = a
    BY <1>2
  <2> HIDE DEF gone
  <2> QED BY <1>1, <2>1, <2>2, <2>3, <2>4 DEF SettingsTypeOK
<1> QED BY <1>3, <1>4, <1>6, <1>7, <1>8 DEF Reading

\* A thread that is done with the settings.
LEMMA RestTyped ==
  ASSUME ReadersTyped, NEW t \in Reader, reader[t].at \notin {"open", "stat", "parse"},
         Goto(t, "idle"), UNCHANGED <<file, provider, missed>>, alive' \in BOOLEAN
  PROVE  Only(t) /\ reader'[t].at = "idle"
<1> USE SettingsConstantsOK DEF ReadersTyped
<1>1. [Idle EXCEPT !.at = "idle"] \in Readers /\ [Idle EXCEPT !.at = "idle"].at = "idle"
  BY DEF Idle, Readers
<1>2. /\ reader' \in [Reader -> Readers] /\ reader'[t].at = "idle"
      /\ \A u \in Reader : u # t => reader'[u] = reader[u]
  BY <1>1 DEF Goto
<1>3. \A u \in Reader :
        /\ (lock' = u) = (reader'[u].at \in {"open", "stat", "parse"})
        /\ reader'[u].at \in {"idle", "wait", "open", "stat", "parse", "got", "raised"}
        /\ reader'[u].seen \in {None} \cup 0..MaxEdits
  BY <1>2 DEF Readers, SettingsTypeOK, provider
<1>4. SettingsTypeOK'
  BY <1>2, <1>3 DEF SettingsTypeOK, provider
<1> QED BY <1>2, <1>4 DEF Only, ReadersTyped

\* The settings are read on behalf of a request, or by the scheduler.
LEMMA SettingsStep ==
  ASSUME IInv, UNCHANGED images,
         \/ \E t \in Reader : Wants(t) /\ Reading(t)
         \/ Edit \/ Tick
  PROVE  IInv'
<1> USE DEF IInv, images, history
<1>1. ASSUME ReadersTyped', NEW t \in Reader, Wants(t),
             \A u \in Reader : u # t => reader'[u] = reader[u]
      PROVE  IInv'
  <2>1. \A u \in Thread : RequestFits(u)'
    BY <1>1 DEF RequestFits, Wants, Reader, Follows
  <2> QED BY <1>1, <2>1 DEF ImagesTyped, JobsFit, RowTold, Building
<1>2. ASSUME NEW t \in Reader, Wants(t), Reading(t) PROVE IInv'
  BY <1>1, <1>2, ReadingTyped DEF Only
<1>3. CASE Edit
  <2>1. file' \in File
    BY <1>3, SettingsConstantsOK DEF Edit, File, ReadersTyped, SettingsTypeOK
  <2>2. ReadersTyped'
    BY <1>3, <2>1 DEF Edit, ReadersTyped, SettingsTypeOK, provider
  <2> QED BY <1>3, <2>2 DEF Edit, RequestFits, ImagesTyped, JobsFit, RowTold, Building, Follows
<1>4. CASE Tick
  <2>1. Only(Scheduler) /\ Scheduler \in Reader /\ Wants(Scheduler)
    BY <1>4, RestTyped, SettingsConstantsOK DEF Tick, Reader, Wants
  <2> QED BY <1>1, <2>1 DEF Only
<1> QED BY <1>2, <1>3, <1>4

-----------------------------------------------------------------------------
(* The images.                                                             *)

\* What is known of the jobs only grows.
Grows ==
  \A i \in Image :
    /\ fate[i] \subseteq fate'[i]
    /\ job[i].status # "none" => job'[i].status # "none"
    /\ row[i] # "none" => row'[i] # "none"

\* What a row followed once, it follows for ever: what became of a job is not taken back.
LEMMA FollowsGrows ==
  ASSUME Grows, NEW i \in Image, NEW a, Follows(i, a)
  PROVE  Follows(i, a)'
BY DEF Grows, Follows

\* Building jobs are as they were, or fewer.
LEMMA FewerBuild ==
  ASSUME ImagesTyped, NEW place \in Place, Building(place)' \subseteq Building(place)
  PROVE  IsFiniteSet(Building(place)') /\ Cardinality(Building(place)') <= Slots
<1>1. IsFiniteSet(Building(place)) /\ Cardinality(Building(place)) <= Slots
  BY DEF ImagesTyped
<1>2. /\ IsFiniteSet(Building(place)')
      /\ Cardinality(Building(place)') <= Cardinality(Building(place))
  BY <1>1, FS_Subset
<1> QED BY <1>1, <1>2, FS_CardinalityType, ImageConstantsOK

\* A step of one thread, whose request is as it should be after it.
StepOf(t) == Only(t) /\ RequestFits(t)' /\ \A u \in Thread : u # t => request'[u] = request[u]

\* The other threads keep what they have while what is known grows.
LEMMA RequestStep ==
  ASSUME IInv, NEW t \in Thread, StepOf(t), ImagesTyped', Grows, JobsFit', RowTold'
  PROVE  IInv'
<1> USE DEF StepOf
<1>1. ASSUME NEW u \in Thread, u # t PROVE RequestFits(u)'
  <2>1. request'[u] = request[u] /\ reader'[u] = reader[u] /\ RequestFits(u)
    BY <1>1 DEF IInv, Only, Reader
  <2> QED BY <2>1, FollowsGrows DEF RequestFits, Grows
<1> QED BY <1>1 DEF IInv, Only

\* Every step, of a request, the imagemaker or the settings, keeps the invariant.
LEMMA ImagesStep == IInv /\ [Next]_vars => IInv'
<1> SUFFICES ASSUME IInv, [Next]_vars PROVE IInv'
  OBVIOUS
<1> USE DEF settings, history
<1>i. ReadersTyped /\ ImagesTyped /\ JobsFit /\ RowTold /\ \A t \in Thread : RequestFits(t)
  BY DEF IInv
<1>c. MaxFaults \in Nat /\ Slots \in Nat /\ Thread \subseteq Reader
  BY ImageConstantsOK DEF Reader
<1>n. /\ NoWork \in Requests /\ NoWork.op = "none" /\ NoWork.answer = "none"
      /\ \A t \in Thread : request[t] \in Requests
  BY <1>i DEF NoWork, Requests, ImagesTyped
<1>s. ASSUME UNCHANGED settings, NEW t \in Thread, reader[t].at = "idle"
      PROVE  Only(t) /\ reader'[t].at = "idle"
  BY <1>i, <1>s DEF Only, ReadersTyped, SettingsTypeOK, provider
<1>k. ASSUME NEW S, NEW w \in {"error", "forgotten", "bad answer", "asked elsewhere"}, w \in S
      PROVE  S \cap (Fate \ {"done"}) # {}
  BY <1>k DEF Fate, Mistaken
\* Jobs and rows are left alone.
<1>j. ASSUME UNCHANGED <<row, job>>, \A i \in Image : fate[i] \subseteq fate'[i],
             fate' \in [Image -> SUBSET Fate], faults' \in 0..MaxFaults,
             NEW t \in Thread, NEW q \in Requests, request' = [request EXCEPT ![t] = q]
      PROVE  /\ Grows /\ JobsFit' /\ RowTold' /\ ImagesTyped' /\ request'[t] = q
             /\ \A u \in Thread : u # t => request'[u] = request[u]
  <2>1. \A place \in Place : Building(place)' = Building(place)
    BY <1>j DEF Building
  <2>2. Grows /\ JobsFit'
    BY <1>i, <1>j DEF Grows, JobsFit, ImagesTyped
  <2>3. RowTold'
    BY <1>i, <1>j DEF RowTold, ImagesTyped
  <2>4. ImagesTyped'
    BY <1>i, <1>j, <2>1 DEF ImagesTyped
  <2>5. request'[t] = q /\ \A u \in Thread : u # t => request'[u] = request[u]
    BY <1>i, <1>j DEF ImagesTyped
  <2> QED BY <2>2, <2>3, <2>4, <2>5
<1>f. ASSUME NEW t \in Thread, reader[t].at \notin {"open", "stat", "parse"}, Finish(t),
             UNCHANGED <<row, job, fate>>, faults' \in 0..MaxFaults
      PROVE  IInv'
  <2>1. Only(t) /\ reader'[t].at = "idle" /\ request' = [request EXCEPT ![t] = NoWork]
    <3>1. Goto(t, "idle") /\ UNCHANGED <<file, provider, missed>> /\ alive' \in BOOLEAN
      BY <1>i, <1>f DEF Finish, ReadersTyped, SettingsTypeOK, provider
    <3> QED BY <1>c, <1>i, <1>f, <3>1, RestTyped DEF Finish
  <2>2. fate' \in [Image -> SUBSET Fate] /\ \A i \in Image : fate[i] \subseteq fate'[i]
    BY <1>i, <1>f DEF ImagesTyped
  <2>3. /\ Grows /\ JobsFit' /\ RowTold' /\ ImagesTyped' /\ request'[t] = NoWork
        /\ \A u \in Thread : u # t => request'[u] = request[u]
    BY <1>f, <1>j, <1>n, <2>1, <2>2
  <2>4. RequestFits(t)'
    BY <1>n, <2>1, <2>3 DEF RequestFits
  <2>5. StepOf(t)
    BY <2>1, <2>3, <2>4 DEF StepOf
  <2> QED BY <1>f, <2>3, <2>5, RequestStep
\* A thread that rests takes, or goes on with, a request; the jobs are left alone.
<1>q. ASSUME NEW t \in Thread, UNCHANGED settings, reader[t].at = "idle", UNCHANGED <<row, job>>,
             fate' \in [Image -> SUBSET Fate], \A i \in Image : fate[i] \subseteq fate'[i],
             faults' \in 0..MaxFaults, NEW q \in Requests, request' = [request EXCEPT ![t] = q],
             q.answer # "none" => q.client # "none",
             q.op # "none" => q.image \in Image /\ (q.answer # "none" => job[q.image].status # "none"),
             q.op = "get" =>
               /\ row[q.image] # "none"
               /\ q.answer = "done" => "done" \in fate'[q.image]
               /\ q.answer \in {"error", "unknown"} => fate'[q.image] \cap (Fate \ {"done"}) # {}
      PROVE  IInv'
  <2>1. /\ Grows /\ JobsFit' /\ RowTold' /\ ImagesTyped' /\ request'[t] = q
        /\ \A u \in Thread : u # t => request'[u] = request[u]
    BY <1>j, <1>q
  <2>2. Only(t) /\ reader'[t].at = "idle"
    BY <1>s, <1>q
  <2>3. RequestFits(t)'
    BY <1>q, <2>1, <2>2 DEF RequestFits, Follows
  <2>4. StepOf(t)
    BY <2>1, <2>2, <2>3 DEF StepOf
  <2> QED BY <1>q, <2>1, <2>4, RequestStep
<1>1. ASSUME NEW t \in Thread, Raised(t) PROVE IInv'
  <2>1. reader[t].at = "raised" /\ Finish(t) /\ UNCHANGED <<row, job, faults, fate>>
    BY <1>1 DEF Raised
  <2> QED BY <1>i, <2>1, <1>f DEF ImagesTyped
<1>2. ASSUME NEW t \in Thread, Client(t) PROVE IInv'
  <2> DEFINE c == IF kept \in Elsewhere THEN "other" ELSE "first"
             q == [request[t] EXCEPT !.client = c]
  <2>1. /\ reader[t].at = "got" /\ Goto(t, "idle") /\ request' = [request EXCEPT ![t] = q]
        /\ UNCHANGED <<row, job, faults, fate, file, provider, alive, missed>>
    BY <1>2 DEF Client
  <2>2. /\ q \in Requests /\ q.op = request[t].op /\ q.image = request[t].image
        /\ q.answer = request[t].answer /\ q.client # "none"
    <3> c \in Place \ {"none"}
      BY DEF Place
    <3> HIDE DEF c
    <3> QED BY <1>n, <1>2 DEF Requests
  <2> HIDE DEF q
  <2>3. Only(t) /\ reader'[t].at = "idle"
    <3> alive' \in BOOLEAN /\ UNCHANGED <<file, provider, missed>>
      BY <1>i, <2>1 DEF ReadersTyped, SettingsTypeOK, provider
    <3> QED BY <1>c, <1>i, <1>2, <2>1, RestTyped
  <2>4. fate' \in [Image -> SUBSET Fate] /\ (\A i \in Image : fate[i] \subseteq fate'[i]) /\ faults' \in 0..MaxFaults
    BY <1>i, <2>1 DEF ImagesTyped
  <2>5. /\ Grows /\ JobsFit' /\ RowTold' /\ ImagesTyped' /\ request'[t] = q
        /\ \A u \in Thread : u # t => request'[u] = request[u]
    BY <1>j, <1>2, <2>1, <2>2, <2>4
  <2>6. RequestFits(t)'
    <3>1. RequestFits(t)
      BY <1>i, <1>2
    <3> QED BY <2>1, <2>2, <2>3, <2>5, <3>1 DEF RequestFits, Follows
  <2>7. StepOf(t)
    BY <2>3, <2>5, <2>6 DEF StepOf
  <2> QED BY <1>2, <2>5, <2>7, RequestStep
<1>3. ASSUME NEW t \in Thread, NEW i \in Image, Create(t, i) \/ ReadRow(t, i) PROVE IInv'
  <2>1. PICK op \in {"create", "get"} :
          /\ request' = [request EXCEPT ![t] = [NoWork EXCEPT !.op = op, !.image = i]]
          /\ op = "get" => row[i] # "none"
    BY <1>3 DEF Create, ReadRow, Poll
  <2> DEFINE q == [NoWork EXCEPT !.op = op, !.image = i]
  <2>2. q \in Requests /\ q.op = op /\ q.image = i /\ q.answer = "none" /\ q.client = "none"
    BY <1>3 DEF NoWork, Requests
  <2>3. /\ request[t] = NoWork /\ UNCHANGED <<row, job, faults, fate, settings>>
    BY <1>3 DEF Create, ReadRow, Poll
  <2> HIDE DEF q
  <2>4. reader[t].at = "idle"
    <3>1. RequestFits(t) /\ request[t].op = "none"
      BY <1>i, <1>n, <1>3, <2>3
    <3> QED BY <3>1 DEF RequestFits
  <2>5. fate' \in [Image -> SUBSET Fate] /\ (\A k \in Image : fate[k] \subseteq fate'[k]) /\ faults' \in 0..MaxFaults
    BY <1>i, <2>3 DEF ImagesTyped
  <2>6. request' = [request EXCEPT ![t] = q]
    BY <2>1 DEF q
  <2> QED BY <1>q, <1>3, <2>1, <2>2, <2>3, <2>4, <2>5, <2>6
\* A thread that has its client rests.
<1>r. ASSUME NEW t \in Thread, request[t].client # "none"
      PROVE  reader[t].at = "idle" /\ request[t] \in Requests /\ RequestFits(t)
  BY <1>i, <1>n, <1>r DEF RequestFits
<1>4. ASSUME NEW t \in Thread, PostLost(t) \/ AskFails(t) PROVE IInv'
  <2>1. /\ request[t].client # "none" /\ Finish(t) /\ UNCHANGED <<row, job, fate>> /\ faults' \in 0..MaxFaults
    BY <1>c, <1>i, <1>4 DEF PostLost, AskFails, Asks, RequestFits, ImagesTyped
  <2> QED BY <1>r, <1>f, <1>4, <2>1
<1>5. ASSUME NEW t \in Thread, Ask(t) PROVE IInv'
  <2> DEFINE i == request[t].image
             place == request[t].client
             q == [request[t] EXCEPT !.answer = Answer(i, place)]
  <2>1. /\ request[t].op = "get" /\ place # "none" /\ request' = [request EXCEPT ![t] = q]
        /\ fate' = (IF job[i].place # place THEN [fate EXCEPT ![i] = @ \cup {"asked elsewhere"}] ELSE fate)
        /\ UNCHANGED <<row, job, faults, settings>>
    BY <1>5 DEF Ask, Asks, Learn
  <2>2. i \in Image /\ row[i] # "none" /\ job[i].status # "none" /\ reader[t].at = "idle"
        /\ request[t] \in Requests
    BY <1>i, <1>r, <1>5, <2>1 DEF RequestFits, JobsFit
  <2>3. /\ Answer(i, place) \in {"unknown", "building", "done", "error"}
        /\ Answer(i, place) \in {"done", "error"} => job[i].status = Answer(i, place)
        /\ Answer(i, place) = "unknown" => job[i].place # place \/ job[i].status = "forgotten"
    BY <1>i, <2>2 DEF Answer, ImagesTyped
  <2>4. /\ q \in Requests /\ q.op = "get" /\ q.image = i /\ q.client = place /\ q.answer = Answer(i, place)
    BY <2>1, <2>2, <2>3 DEF Requests
  <2> HIDE DEF q
  <2>5. /\ fate' \in [Image -> SUBSET Fate] /\ \A j \in Image : fate[j] \subseteq fate'[j]
        /\ job[i].place # place => "asked elsewhere" \in fate'[i]
    BY <1>i, <2>1, <2>2 DEF ImagesTyped, Fate, Mistaken
  <2>6. /\ q.answer = "done" => "done" \in fate'[i]
        /\ q.answer = "error" => "error" \in fate'[i]
        /\ q.answer = "unknown" => "asked elsewhere" \in fate'[i] \/ "forgotten" \in fate'[i]
    BY <1>i, <2>2, <2>3, <2>4, <2>5 DEF JobsFit
  <2>7. q.answer \in {"error", "unknown"} => fate'[i] \cap (Fate \ {"done"}) # {}
    BY <1>k, <2>6
  <2>8. faults' \in 0..MaxFaults
    BY <1>i, <2>1 DEF ImagesTyped
  <2> QED BY <1>q, <1>5, <2>1, <2>2, <2>4, <2>5, <2>6, <2>7, <2>8
\* One job changes, and what is known of it grows with it; the imagemakers keep their limit.
<1>o. ASSUME NEW i \in Image, NEW s \in {"building", "done", "error", "forgotten"}, NEW p \in Place,
             job' = [job EXCEPT ![i] = [status |-> s, place |-> p]], UNCHANGED row,
             fate' \in [Image -> SUBSET Fate], \A k \in Image : fate[k] \subseteq fate'[k],
             s # "building" => s \in fate'[i], faults' \in 0..MaxFaults,
             request' \in [Thread -> Requests],
             s = "building" => Cardinality(Building(p)) < Slots
      PROVE  Grows /\ JobsFit' /\ RowTold' /\ ImagesTyped'
  <2>1. job'[i] = [status |-> s, place |-> p] /\ \A k \in Image : k # i => job'[k] = job[k]
    BY <1>i, <1>o DEF ImagesTyped
  <2>2. Grows /\ JobsFit' /\ RowTold'
    BY <1>i, <1>o, <2>1 DEF Grows, JobsFit, ImagesTyped, RowTold
  <2>3. ASSUME NEW place \in Place
        PROVE  IsFiniteSet(Building(place)') /\ Cardinality(Building(place)') <= Slots
    <3>1. CASE s # "building" \/ place # p \/ i \in Building(place)
      <4>1. Building(place)' \subseteq Building(place)
        BY <2>1, <3>1 DEF Building
      <4> QED BY <1>i, <4>1, FewerBuild
    <3>2. CASE s = "building" /\ place = p /\ i \notin Building(place)
      <4>1. Building(place)' \subseteq Building(place) \cup {i} /\ i \notin Building(place)
        BY <1>o, <2>1, <3>2 DEF Building
      <4>2. IsFiniteSet(Building(place)) /\ Cardinality(Building(place)) < Slots
        BY <1>i, <1>o, <3>2 DEF ImagesTyped
      <4>3. /\ IsFiniteSet(Building(place) \cup {i})
            /\ Cardinality(Building(place) \cup {i}) = Cardinality(Building(place)) + 1
        BY <4>1, <4>2, FS_AddElement
      <4>4. /\ IsFiniteSet(Building(place)')
            /\ Cardinality(Building(place)') <= Cardinality(Building(place) \cup {i})
        BY <4>1, <4>3, FS_Subset
      <4>5. Cardinality(Building(place)) \in Nat /\ Cardinality(Building(place)') \in Nat
        BY <4>2, <4>4, FS_CardinalityType
      <4> QED BY <1>c, <4>2, <4>3, <4>4, <4>5
    <3> QED BY <3>1, <3>2
  <2>4. job' \in [Image -> [status : {"none", "building", "done", "error", "forgotten"}, place : Place]]
    BY <1>i, <1>o DEF ImagesTyped
  <2>5. ImagesTyped'
    BY <1>i, <1>o, <2>3, <2>4 DEF ImagesTyped
  <2> QED BY <2>2, <2>5
<1>6. ASSUME NEW t \in Thread, Post(t) PROVE IInv'
  <2> DEFINE i == request[t].image
             p == request[t].client
             q(a) == [request[t] EXCEPT !.answer = a]
  <2>1. /\ request[t].op = "create" /\ p # "none" /\ request[t].answer = "none"
        /\ UNCHANGED <<row, faults>>
    BY <1>6 DEF Post
  <2>2. reader[t].at = "idle" /\ request[t] \in Requests /\ i \in Image /\ p \in Place
    BY <1>r, <1>6, <2>1 DEF RequestFits, Requests
  <2>3. ASSUME NEW a \in {"building", "done"}, request' = [request EXCEPT ![t] = q(a)], UNCHANGED settings,
               job' = [job EXCEPT ![i] = [status |-> a, place |-> p]],
               fate' \in [Image -> SUBSET Fate], \A k \in Image : fate[k] \subseteq fate'[k],
               a = "done" => "done" \in fate'[i],
               a = "building" => Cardinality(Building(p)) < Slots
        PROVE  IInv'
    <3>1. /\ q(a) \in Requests /\ q(a).op = "create" /\ q(a).image = i /\ q(a).client = p
      BY <2>1, <2>2, <2>3 DEF Requests
    <3> HIDE DEF q
    <3>2. /\ request' \in [Thread -> Requests] /\ request'[t] = q(a)
          /\ \A u \in Thread : u # t => request'[u] = request[u]
      BY <1>i, <1>6, <2>3, <3>1 DEF ImagesTyped
    <3>3. faults' \in 0..MaxFaults
      BY <1>i, <2>1 DEF ImagesTyped
    <3>4. Grows /\ JobsFit' /\ RowTold' /\ ImagesTyped'
      BY <1>o, <2>1, <2>2, <2>3, <3>2, <3>3
    <3>5. Only(t) /\ reader'[t].at = "idle"
      BY <1>s, <1>6, <2>2, <2>3
    <3>6. job'[i].status # "none"
      BY <1>i, <2>2, <2>3 DEF ImagesTyped
    <3>7. RequestFits(t)'
      BY <2>1, <2>2, <3>1, <3>2, <3>5, <3>6 DEF RequestFits
    <3>8. StepOf(t)
      BY <3>2, <3>5, <3>7 DEF StepOf
    <3> QED BY <1>6, <3>4, <3>8, RequestStep
  <2>4. CASE /\ job' = [job EXCEPT ![i] = [status |-> "done", place |-> p]]
             /\ fate' = [fate EXCEPT ![i] = @ \cup {"done"}]
             /\ request' = [request EXCEPT ![t] = q("done")] /\ UNCHANGED settings
    <3>1. /\ fate' \in [Image -> SUBSET Fate] /\ "done" \in fate'[i]
          /\ \A k \in Image : fate[k] \subseteq fate'[k]
      BY <1>i, <2>2, <2>4 DEF ImagesTyped, Fate, Mistaken
    <3> QED BY <2>3, <2>4, <3>1
  <2>5. CASE /\ Cardinality(Building(p)) < Slots
             /\ job' = [job EXCEPT ![i] = [status |-> "building", place |-> p]]
             /\ request' = [request EXCEPT ![t] = q("building")] /\ UNCHANGED <<fate, settings>>
    <3>1. fate' \in [Image -> SUBSET Fate] /\ \A k \in Image : fate[k] \subseteq fate'[k]
      BY <1>i, <2>5 DEF ImagesTyped
    <3> QED BY <2>3, <2>5, <3>1
  <2>6. CASE Finish(t) /\ UNCHANGED <<job, fate>>
    BY <1>i, <1>f, <1>6, <2>1, <2>2, <2>6 DEF ImagesTyped
  <2> QED BY <1>6, <2>4, <2>5, <2>6 DEF Post, Learn
<1>7. ASSUME NEW t \in Thread, AskBadly(t) PROVE IInv'
  <2> DEFINE i == request[t].image
             q == [request[t] EXCEPT !.answer = "unknown"]
  <2>1. /\ request[t].op = "get" /\ request[t].client # "none" /\ request' = [request EXCEPT ![t] = q]
        /\ fate' = [fate EXCEPT ![i] = @ \cup {"bad answer"}]
        /\ UNCHANGED <<row, job, settings>>
    BY <1>7 DEF AskBadly, Asks, Learn
  <2>2. i \in Image /\ row[i] # "none" /\ job[i].status # "none" /\ reader[t].at = "idle"
        /\ request[t] \in Requests
    BY <1>i, <1>r, <1>7, <2>1 DEF RequestFits, JobsFit
  <2>3. /\ q \in Requests /\ q.op = "get" /\ q.image = i /\ q.client = request[t].client /\ q.answer = "unknown"
    BY <2>1, <2>2 DEF Requests
  <2> HIDE DEF q
  <2>4. /\ fate' \in [Image -> SUBSET Fate] /\ \A j \in Image : fate[j] \subseteq fate'[j]
        /\ "bad answer" \in fate'[i]
    BY <1>i, <2>1, <2>2 DEF ImagesTyped, Fate, Mistaken
  <2>5. fate'[i] \cap (Fate \ {"done"}) # {}
    BY <1>k, <2>4
  <2>6. faults' \in 0..MaxFaults
    <3>1. faults \in 0..MaxFaults /\ faults < MaxFaults /\ faults' = faults + 1
      BY <1>i, <1>7 DEF AskBadly, ImagesTyped
    <3> QED BY <1>c, <3>1
  <2> QED BY <1>q, <1>7, <2>1, <2>2, <2>3, <2>4, <2>5, <2>6
\* The request ends, and the row of its image is written.
<1>8. ASSUME NEW t \in Thread, reader[t].at = "idle", NEW i \in Image, job[i].status # "none",
             NEW s \in {"building", "ready", "failed"}, row' = [row EXCEPT ![i] = s],
             s = "ready" => "done" \in fate[i],
             s = "failed" => fate[i] \cap (Fate \ {"done"}) # {},
             Finish(t), UNCHANGED <<job, faults, fate>>
      PROVE  IInv'
  <2>1. Only(t) /\ reader'[t].at = "idle" /\ request' = [request EXCEPT ![t] = NoWork]
    <3>1. Goto(t, "idle") /\ UNCHANGED <<file, provider, missed>> /\ alive' \in BOOLEAN
      BY <1>i, <1>8 DEF Finish, ReadersTyped, SettingsTypeOK, provider
    <3> QED BY <1>c, <1>i, <1>8, <3>1, RestTyped DEF Finish
  <2>2. row'[i] = s /\ \A k \in Image : k # i => row'[k] = row[k]
    BY <1>i, <1>8 DEF ImagesTyped
  <2>3. Grows /\ JobsFit' /\ RowTold'
    BY <1>i, <1>8, <2>2 DEF Grows, JobsFit, RowTold
  <2>4. request' \in [Thread -> Requests] /\ request'[t] = NoWork /\ \A u \in Thread : u # t => request'[u] = request[u]
    BY <1>i, <1>n, <1>8, <2>1 DEF ImagesTyped
  <2>5. row' \in [Image -> {"none", "building", "ready", "failed"}]
    BY <1>i, <1>8 DEF ImagesTyped
  <2>6. ImagesTyped'
    BY <1>i, <1>8, <2>4, <2>5 DEF ImagesTyped, Building
  <2>7. StepOf(t)
    BY <1>n, <2>1, <2>4 DEF StepOf, RequestFits
  <2> QED BY <1>8, <2>3, <2>6, <2>7, RequestStep
<1>9. ASSUME NEW t \in Thread, Insert(t) PROVE IInv'
  <2>1. /\ request[t].op = "create" /\ request[t].answer # "none" /\ request[t].client # "none"
        /\ row' = [row EXCEPT ![request[t].image] = "building"]
        /\ Finish(t) /\ UNCHANGED <<job, faults, fate>>
    BY <1>i, <1>9 DEF Insert, RequestFits
  <2>2. request[t].image \in Image /\ job[request[t].image].status # "none" /\ reader[t].at = "idle"
    BY <1>r, <1>9, <2>1 DEF RequestFits
  <2> QED BY <1>8, <1>9, <2>1, <2>2
<1>10. ASSUME NEW t \in Thread, Commit(t) PROVE IInv'
  <2> DEFINE i == request[t].image
             s == Status(request[t].answer)
  <2>1. /\ request[t].op = "get" /\ request[t].answer # "none" /\ request[t].client # "none"
        /\ row' = [row EXCEPT ![i] = IF s = "building" THEN row[i] ELSE s]
        /\ Finish(t) /\ UNCHANGED <<job, faults, fate>>
    BY <1>i, <1>10 DEF Commit, Answered, Write, RequestFits
  <2>2. /\ i \in Image /\ job[i].status # "none" /\ reader[t].at = "idle"
        /\ Follows(i, request[t].answer) /\ request[t].answer \in {"unknown", "building", "done", "error"}
    BY <1>r, <1>10, <2>1 DEF RequestFits, Requests
  <2>3. /\ s \in {"building", "ready", "failed"}
        /\ s = "ready" => "done" \in fate[i]
        /\ s = "failed" => fate[i] \cap (Fate \ {"done"}) # {}
    BY <2>2 DEF Status, Follows
  <2> HIDE DEF s
  <2>4. CASE s = "building"
    BY <1>f, <1>i, <1>10, <2>1, <2>2, <2>4 DEF ImagesTyped
  <2>5. CASE s # "building"
    BY <1>8, <1>10, <2>1, <2>2, <2>3, <2>5
  <2> QED BY <2>4, <2>5
\* The threads keep what they have.
<1>u. ASSUME Grows, ImagesTyped', JobsFit', RowTold', UNCHANGED <<row, request, settings>>
      PROVE  IInv'
  <2>1. ReadersTyped'
    BY <1>i, <1>u DEF ReadersTyped, SettingsTypeOK, provider
  <2>2. ASSUME NEW u \in Thread PROVE RequestFits(u)'
    <3>1. request'[u] = request[u] /\ reader'[u] = reader[u] /\ RequestFits(u)
      BY <1>i, <1>u, <2>2
    <3> QED BY <1>u, <3>1, FollowsGrows DEF RequestFits, Grows
  <2> QED BY <1>u, <2>1, <2>2 DEF IInv
<1>11. ASSUME NEW i \in Image, JobEnds(i) PROVE IInv'
  <2>1. PICK s \in {"done", "error"} :
          job' = [job EXCEPT ![i].status = s] /\ fate' = [fate EXCEPT ![i] = @ \cup {s}]
    BY <1>11 DEF JobEnds, Learn
  <2>2. UNCHANGED <<row, request, faults, settings>>
    BY <1>11 DEF JobEnds
  <2>3. job' = [job EXCEPT ![i] = [status |-> s, place |-> job[i].place]] /\ job[i].place \in Place
    <3>1. job[i] \in [status : {"none", "building", "done", "error", "forgotten"}, place : Place]
      BY <1>i, <1>11 DEF ImagesTyped
    <3>2. [job[i] EXCEPT !.status = s] = [status |-> s, place |-> job[i].place]
      BY <3>1
    <3> QED BY <2>1, <3>1, <3>2
  <2>4. /\ fate' \in [Image -> SUBSET Fate] /\ (\A k \in Image : fate[k] \subseteq fate'[k])
        /\ s \in fate'[i] /\ faults' \in 0..MaxFaults /\ request' \in [Thread -> Requests]
    BY <1>i, <1>11, <2>1, <2>2 DEF ImagesTyped, Fate, Mistaken
  <2>5. Grows /\ JobsFit' /\ RowTold' /\ ImagesTyped'
    BY <1>o, <1>11, <2>2, <2>3, <2>4
  <2> QED BY <1>u, <2>2, <2>5
<1>12. ASSUME NEW place \in Place, ImagemakerRestarts(place) PROVE IInv'
  <2> DEFINE had == {i \in Image : job[i] # NoJob /\ job[i].place = place}
  <2>1. /\ job' = [i \in Image |-> IF i \in had THEN [job[i] EXCEPT !.status = "forgotten"] ELSE job[i]]
        /\ fate' = [i \in Image |-> IF i \in had THEN fate[i] \cup {"forgotten"} ELSE fate[i]]
        /\ UNCHANGED <<row, request, settings>>
    BY <1>12 DEF ImagemakerRestarts
  <2>2. /\ faults' \in 0..MaxFaults /\ fate' \in [Image -> SUBSET Fate]
        /\ job' \in [Image -> [status : {"none", "building", "done", "error", "forgotten"}, place : Place]]
    <3>1. fate' \in [Image -> SUBSET Fate]
      BY <1>i, <2>1 DEF ImagesTyped, Fate, Mistaken
    <3>2. faults' \in 0..MaxFaults
      BY <1>c, <1>i, <1>12 DEF ImagemakerRestarts, ImagesTyped
    <3>3. job' \in [Image -> [status : {"none", "building", "done", "error", "forgotten"}, place : Place]]
      BY <1>i, <2>1 DEF ImagesTyped
    <3> QED BY <3>1, <3>2, <3>3
  <2>3. \A i \in Image : /\ fate[i] \subseteq fate'[i]
                         /\ i \in had => job'[i] = [job[i] EXCEPT !.status = "forgotten"] /\ "forgotten" \in fate'[i]
                         /\ i \notin had => job'[i] = job[i]
    BY <2>1
  <2>4. \A i \in Image : i \in had => job'[i].status = "forgotten"
    BY <1>i, <2>3 DEF ImagesTyped
  <2> HIDE DEF had
  <2>5. Grows /\ JobsFit' /\ RowTold'
    BY <1>i, <2>1, <2>3, <2>4 DEF Grows, JobsFit, RowTold
  <2>6. \A p \in Place : Building(p)' \subseteq Building(p)
    <3> SUFFICES ASSUME NEW p \in Place, NEW i \in Image, job'[i] = [status |-> "building", place |-> p]
                 PROVE  job[i] = [status |-> "building", place |-> p]
      BY DEF Building
    <3>1. job'[i].status = "building"
      OBVIOUS
    <3>2. ~ i \in had
      BY <2>4, <3>1
    <3> QED BY <2>3, <3>2
  <2>7. \A p \in Place : IsFiniteSet(Building(p)') /\ Cardinality(Building(p)') <= Slots
    BY <1>i, <2>6, FewerBuild
  <2>8. ImagesTyped'
    BY <1>i, <2>1, <2>2, <2>7 DEF ImagesTyped
  <2> QED BY <1>u, <2>1, <2>5, <2>8
<1>13. CASE UNCHANGED vars
  <2>1. ReadersTyped'
    BY <1>i, <1>13 DEF vars, ReadersTyped, SettingsTypeOK, provider
  <2> QED BY <1>i, <1>13, <2>1
          DEF vars, images, IInv, ImagesTyped, JobsFit, RowTold, RequestFits, Follows, Building
<1>14. ASSUME NEW t \in Thread,
              \/ Raised(t) \/ Client(t) \/ Post(t) \/ Insert(t) \/ PostLost(t)
              \/ Ask(t) \/ AskBadly(t) \/ AskFails(t) \/ Commit(t)
              \/ \E i \in Image : Create(t, i) \/ ReadRow(t, i)
       PROVE  IInv'
  BY <1>1, <1>2, <1>3, <1>4, <1>5, <1>6, <1>7, <1>9, <1>10, <1>14
<1>15. CASE \/ \E t \in Reader : Wants(t) /\ Reading(t) /\ UNCHANGED images
            \/ (Edit \/ Tick) /\ UNCHANGED images
  BY <1>15, SettingsStep
<1> QED BY <1>11, <1>12, <1>13, <1>14, <1>15 DEF Next

-----------------------------------------------------------------------------
(* Polls that cross.                                                       *)

\* An image gets its row from the one request that posted its job, and a poll whose
\* row ended is overtaken.
Crossing ==
  /\ overtaken \subseteq Thread
  /\ \A t \in Thread : request[t].op = "create" =>
       /\ row[request[t].image] = "none"
       /\ \A u \in Thread \ {t} : request[u].op = "none" \/ request[u].image # request[t].image
  /\ \A t \in Thread : request[t].op = "get" /\ row[request[t].image] \in Ended => t \in overtaken

\* A job ends once.
Apart ==
  \A i \in Image :
    /\ ~ {"done", "error"} \subseteq fate[i]
    /\ job[i].status \in {"none", "building"} => fate[i] \cap {"done", "error"} = {}

\* A job is posted once.
Unposted ==
  \A t \in Thread : request[t].op = "create" /\ request[t].answer = "none" => job[request[t].image] = NoJob

CrossInv == IInv /\ Crossing /\ Apart /\ Unposted

\* The invariant implies the type invariant of the runs.
LEMMA InvTyped == CrossInv => TypeOK
BY DEF CrossInv, Crossing, IInv, ReadersTyped, ImagesTyped, TypeOK, Requests, Ended

LEMMA CrossInit == Init => Crossing /\ Apart /\ Unposted
BY DEF Init, Crossing, Apart, Unposted, NoWork, NoJob, Ended

\* Requests go on with their image or end, and rows stay.
LEMMA CrossingStays ==
  ASSUME Crossing, UNCHANGED <<row, overtaken>>,
         \A t \in Thread : \/ request'[t].op = "none"
                          \/ (request'[t].op = request[t].op /\ request'[t].image = request[t].image)
  PROVE  Crossing'
BY DEF Crossing

\* Who takes a request takes an image that nobody creates, and who writes a row knows
\* which polls it overtakes.
LEMMA CrossingStep == CrossInv /\ [Next]_vars => Crossing'
<1> SUFFICES ASSUME CrossInv, [Next]_vars PROVE Crossing'
  OBVIOUS
<1>i. IInv /\ Crossing /\ request \in [Thread -> Requests] /\ row \in [Image -> {"none", "building", "ready", "failed"}]
  BY DEF CrossInv, IInv, ImagesTyped
<1>g. ASSUME NEW t \in Thread, NEW q, request' = [request EXCEPT ![t] = q], UNCHANGED <<row, overtaken>>,
             q.op = "none" \/ (q.op = request[t].op /\ q.image = request[t].image)
      PROVE  Crossing'
  <2>1. request'[t] = q /\ \A u \in Thread : u # t => request'[u] = request[u]
    BY <1>i, <1>g
  <2> QED BY <1>i, <1>g, <2>1, CrossingStays
<1>n. NoWork.op = "none"
  BY DEF NoWork
<1>1. CASE UNCHANGED <<row, request, overtaken>>
  BY <1>i, <1>1, CrossingStays
<1>2. ASSUME NEW t \in Thread,
             \/ Raised(t) \/ PostLost(t) \/ AskFails(t)
             \/ (Finish(t) /\ UNCHANGED <<row, overtaken>>)
      PROVE  Crossing'
  BY <1>g, <1>n, <1>2 DEF Raised, PostLost, AskFails, Finish, history
<1>3. ASSUME NEW t \in Thread, Client(t) PROVE Crossing'
  <2> DEFINE q == [request[t] EXCEPT !.client = IF kept \in Elsewhere THEN "other" ELSE "first"]
  <2>1. request' = [request EXCEPT ![t] = q] /\ UNCHANGED <<row, overtaken>>
    BY <1>3 DEF Client, history
  <2>2. q.op = request[t].op /\ q.image = request[t].image
    BY <1>i, <1>3 DEF Requests
  <2> QED BY <1>g, <1>3, <2>1, <2>2
<1>4. ASSUME NEW t \in Thread, Ask(t) \/ AskBadly(t) \/ Post(t) PROVE Crossing'
  <2>1. CASE Finish(t) /\ UNCHANGED <<row, overtaken>>
    BY <1>2, <1>4, <2>1
  <2>2. CASE \E a \in {"unknown", "building", "done", "error"} :
               request' = [request EXCEPT ![t].answer = a] /\ UNCHANGED <<row, overtaken>>
    <3>1. PICK a \in {"unknown", "building", "done", "error"} :
            request' = [request EXCEPT ![t] = [request[t] EXCEPT !.answer = a]] /\ UNCHANGED <<row, overtaken>>
      BY <2>2
    <3>2. [request[t] EXCEPT !.answer = a].op = request[t].op /\ [request[t] EXCEPT !.answer = a].image = request[t].image
      BY <1>i, <1>4 DEF Requests
    <3> QED BY <1>g, <1>4, <3>1, <3>2
  <2>3. Ask(t) => Answer(request[t].image, request[t].client) \in {"unknown", "building", "done", "error"}
    <3> SUFFICES ASSUME Ask(t) PROVE Answer(request[t].image, request[t].client) \in {"unknown", "building", "done", "error"}
      OBVIOUS
    <3>1. request[t].image \in Image
      BY <1>i, <1>4 DEF Ask, Asks, IInv, RequestFits
    <3> QED BY <1>i, <3>1 DEF Answer, IInv, ImagesTyped
  <2>4. CASE Ask(t)
    BY <2>2, <2>3, <2>4 DEF Ask, Learn, history
  <2>5. CASE AskBadly(t)
    BY <2>2, <2>5 DEF AskBadly, Learn
  <2>6. CASE Post(t)
    BY <2>1, <2>2, <2>6 DEF Post, Learn, history
  <2> QED BY <1>4, <2>4, <2>5, <2>6
<1>5. ASSUME NEW t \in Thread, NEW i \in Image, Create(t, i) PROVE Crossing'
  <2> DEFINE q == [NoWork EXCEPT !.op = "create", !.image = i]
  <2>1. /\ request' = [request EXCEPT ![t] = q] /\ UNCHANGED <<row, overtaken>>
        /\ request[t] = NoWork /\ job[i] = NoJob /\ \A u \in Thread : request[u].image # i
    BY <1>5 DEF Create, history
  <2>2. q.op = "create" /\ q.image = i /\ row[i] = "none"
    BY <1>i, <2>1 DEF NoWork, IInv, JobsFit, NoJob
  <2> HIDE DEF q
  <2>3. request'[t] = q /\ \A u \in Thread : u # t => request'[u] = request[u]
    BY <1>i, <2>1
  <2> QED BY <1>i, <2>1, <2>2, <2>3 DEF Crossing
<1>6. ASSUME NEW t \in Thread, NEW i \in Image, ReadRow(t, i) PROVE Crossing'
  <2> DEFINE q == [NoWork EXCEPT !.op = "get", !.image = i]
  <2>1. /\ request' = [request EXCEPT ![t] = q] /\ UNCHANGED row /\ overtaken' = overtaken \ {t}
        /\ request[t] = NoWork /\ row[i] = "building"
    BY <1>6 DEF ReadRow, Poll
  <2>2. q.op = "get" /\ q.image = i
    BY DEF NoWork
  <2> HIDE DEF q
  <2>3. request'[t] = q /\ \A u \in Thread : u # t => request'[u] = request[u]
    BY <1>i, <2>1
  <2> QED BY <1>i, <2>1, <2>2, <2>3 DEF Crossing, Ended
<1>7. ASSUME NEW t \in Thread, Insert(t) PROVE Crossing'
  <2>1. /\ request' = [request EXCEPT ![t] = NoWork] /\ UNCHANGED overtaken
        /\ row' = [row EXCEPT ![request[t].image] = "building"] /\ request[t].op = "create"
    BY <1>7 DEF Insert, Finish, history
  <2>2. request'[t] = NoWork /\ \A u \in Thread : u # t => request'[u] = request[u]
    BY <1>i, <2>1
  <2>3. \A u \in Thread \ {t} : request[u].op # "none" => row'[request[u].image] = row[request[u].image]
    BY <1>i, <1>7, <2>1 DEF Crossing
  <2> QED BY <1>i, <1>n, <2>1, <2>2, <2>3 DEF Crossing
<1>8. ASSUME NEW t \in Thread, Commit(t) PROVE Crossing'
  <2> DEFINE i == request[t].image
             s == IF Status(request[t].answer) = "building" THEN row[i] ELSE Status(request[t].answer)
  <2>1. /\ request' = [request EXCEPT ![t] = NoWork] /\ row' = [row EXCEPT ![i] = s] /\ request[t].op = "get"
        /\ overtaken' = IF s \in Ended THEN overtaken \cup Polls(i) ELSE overtaken
    BY <1>8 DEF Commit, Answered, Write, Finish
  <2> HIDE DEF s
  <2>2. request'[t] = NoWork /\ \A u \in Thread : u # t => request'[u] = request[u]
    BY <1>i, <2>1
  <2>3. overtaken' \subseteq Thread /\ overtaken \subseteq overtaken'
    BY <1>i, <2>1 DEF Crossing, Polls
  <2>4. \A u \in Thread : request[u].op = "create" => row'[request[u].image] = "none"
    BY <1>i, <1>8, <2>1 DEF Crossing
  <2>5. \A u \in Thread : request[u].op = "get" /\ row'[request[u].image] \in Ended => u \in overtaken'
    <3> SUFFICES ASSUME NEW u \in Thread, request[u].op = "get", row'[request[u].image] \in Ended
                 PROVE  u \in overtaken'
      OBVIOUS
    <3>1. request[u].image \in Image
      BY <1>i DEF IInv, RequestFits
    <3>2. CASE request[u].image = i
      BY <1>i, <2>1, <3>1, <3>2 DEF Polls
    <3>3. CASE request[u].image # i
      BY <1>i, <2>1, <2>3, <3>1, <3>3 DEF Crossing
    <3> QED BY <3>2, <3>3
  <2> QED BY <1>i, <1>n, <2>2, <2>3, <2>4, <2>5 DEF Crossing
<1>9. CASE \E t \in Thread :
             \/ Raised(t) \/ Client(t) \/ Post(t) \/ Insert(t) \/ PostLost(t)
             \/ Ask(t) \/ AskBadly(t) \/ AskFails(t) \/ Commit(t)
             \/ \E i \in Image : Create(t, i) \/ ReadRow(t, i)
  BY <1>2, <1>3, <1>4, <1>5, <1>6, <1>7, <1>8, <1>9
<1>10. \/ UNCHANGED <<row, request, overtaken>>
       \/ \E t \in Thread :
             \/ Raised(t) \/ Client(t) \/ Post(t) \/ Insert(t) \/ PostLost(t)
             \/ Ask(t) \/ AskBadly(t) \/ AskFails(t) \/ Commit(t)
             \/ \E i \in Image : Create(t, i) \/ ReadRow(t, i)
  BY DEF Next, vars, images, history, JobEnds, Learn, ImagemakerRestarts
<1> QED BY <1>1, <1>9, <1>10

\* Only a job that builds, or one that is posted, learns its end.
LEMMA ApartStep == CrossInv /\ [Next]_vars => Apart'
<1> SUFFICES ASSUME CrossInv, [Next]_vars PROVE Apart'
  OBVIOUS
<1>i. /\ IInv /\ Crossing /\ Apart /\ Unposted /\ fate \in [Image -> SUBSET Fate]
      /\ job \in [Image -> [status : {"none", "building", "done", "error", "forgotten"}, place : Place]]
  BY DEF CrossInv, IInv, ImagesTyped
<1>1. CASE UNCHANGED <<job, fate>>
  BY <1>i, <1>1 DEF Apart
\* Something else is known of a job.
<1>2. ASSUME NEW i \in Image, NEW w \in Mistaken, Learn(i, w), UNCHANGED job PROVE Apart'
  BY <1>i, <1>2 DEF Apart, Learn, Mistaken
<1>3. ASSUME NEW t \in Thread, Ask(t) \/ AskBadly(t) PROVE Apart'
  <2>1. request[t].image \in Image
    BY <1>i, <1>3 DEF Ask, AskBadly, Asks, IInv, RequestFits
  <2> QED BY <1>1, <1>2, <1>3, <2>1 DEF Ask, AskBadly, Mistaken, history
<1>4. ASSUME NEW t \in Thread, Post(t) PROVE Apart'
  <2>1. request[t].image \in Image
    BY <1>i, <1>4 DEF Post, IInv, RequestFits
  <2> DEFINE i == request[t].image
             p == request[t].client
  <2>2. CASE UNCHANGED <<job, fate>>
    BY <1>1, <2>2
  <2>3. CASE /\ job' = [job EXCEPT ![i] = [status |-> "done", place |-> p]]
             /\ fate' = [fate EXCEPT ![i] = @ \cup {"done"}]
    <3>1. job[i].status = "none"
      BY <1>i, <1>4 DEF Post, Unposted, NoJob
    <3> QED BY <1>i, <2>1, <2>3, <3>1 DEF Apart
  <2>4. CASE job' = [job EXCEPT ![i] = [status |-> "building", place |-> p]] /\ UNCHANGED fate
    <3>1. job[i].status = "none"
      BY <1>i, <1>4 DEF Post, Unposted, NoJob
    <3> QED BY <1>i, <2>1, <2>4, <3>1 DEF Apart
  <2> QED BY <1>4, <2>2, <2>3, <2>4 DEF Post, Learn, history
<1>5. ASSUME NEW i \in Image, JobEnds(i) PROVE Apart'
  BY <1>i, <1>5 DEF JobEnds, Learn, Apart
<1>6. ASSUME NEW place \in Place, ImagemakerRestarts(place) PROVE Apart'
  BY <1>i, <1>6 DEF ImagemakerRestarts, Apart
<1>7. \/ UNCHANGED <<job, fate>> \/ \E t \in Thread : Ask(t) \/ AskBadly(t) \/ Post(t)
      \/ \E i \in Image : JobEnds(i)
      \/ \E place \in Place : ImagemakerRestarts(place)
  BY DEF Next, vars, images, history, Raised, Client, Insert, PostLost, AskFails, Commit, Write, Create, ReadRow, Poll
<1> QED BY <1>1, <1>3, <1>4, <1>5, <1>6, <1>7

\* Only the request that creates an image posts its job.
LEMMA UnpostedStep == CrossInv /\ [Next]_vars => Unposted'
<1> SUFFICES ASSUME CrossInv, [Next]_vars, NEW u \in Thread,
                    request'[u].op = "create", request'[u].answer = "none"
             PROVE  job'[request'[u].image] = NoJob
  BY DEF Unposted
<1>i. /\ IInv /\ Crossing /\ Unposted /\ request \in [Thread -> Requests]
      /\ job \in [Image -> [status : {"none", "building", "done", "error", "forgotten"}, place : Place]]
  BY DEF CrossInv, IInv, ImagesTyped
\* It had not posted before, for the same image.
<1>1. ASSUME request[u].op = "create", request[u].answer = "none", request'[u].image = request[u].image,
             \/ job'[request[u].image] = job[request[u].image]
             \/ (\E place \in Place : ImagemakerRestarts(place))
             \/ (\E i \in Image : JobEnds(i))
      PROVE  job'[request'[u].image] = NoJob
  <2>1. request[u].image \in Image /\ job[request[u].image] = NoJob
    BY <1>i, <1>1 DEF IInv, RequestFits, Unposted
  <2> QED BY <1>i, <1>1, <2>1 DEF ImagemakerRestarts, JobEnds, NoJob
<1>2. CASE UNCHANGED <<request, job>>
  BY <1>1, <1>2
<1>3. CASE (\E place \in Place : ImagemakerRestarts(place)) \/ (\E i \in Image : JobEnds(i))
  BY <1>1, <1>3 DEF ImagemakerRestarts, JobEnds
\* Another thread goes on with its own image, or ends.
<1>4. ASSUME NEW t \in Thread, NEW q, request' = [request EXCEPT ![t] = q],
             \/ (q.op # "create" \/ q.answer # "none")
             \/ (q.op = request[t].op /\ q.answer = request[t].answer /\ q.image = request[t].image),
             job'[request[u].image] = job[request[u].image]
      PROVE  job'[request'[u].image] = NoJob
  <2>1. request'[t] = q /\ \A w \in Thread : w # t => request'[w] = request[w]
    BY <1>i, <1>4
  <2> QED BY <1>1, <1>4, <2>1
<1>n. NoWork.op = "none"
  BY DEF NoWork
<1>5. ASSUME NEW t \in Thread, Raised(t) \/ PostLost(t) \/ AskFails(t) \/ Insert(t) \/ Commit(t)
      PROVE  job'[request'[u].image] = NoJob
  <2>1. request' = [request EXCEPT ![t] = NoWork] /\ UNCHANGED job
    BY <1>5 DEF Raised, PostLost, AskFails, Insert, Commit, Write, Finish
  <2> QED BY <1>4, <1>5, <1>n, <2>1
<1>6. ASSUME NEW t \in Thread, Client(t) PROVE job'[request'[u].image] = NoJob
  <2> DEFINE q == [request[t] EXCEPT !.client = IF kept \in Elsewhere THEN "other" ELSE "first"]
  <2>1. request' = [request EXCEPT ![t] = q] /\ UNCHANGED job
    BY <1>6 DEF Client
  <2>2. q.op = request[t].op /\ q.answer = request[t].answer /\ q.image = request[t].image
    BY <1>i, <1>6 DEF Requests
  <2> QED BY <1>4, <1>6, <2>1, <2>2
<1>7. ASSUME NEW t \in Thread, Ask(t) \/ AskBadly(t) PROVE job'[request'[u].image] = NoJob
  <2> DEFINE q(a) == [request[t] EXCEPT !.answer = a]
  <2>1. PICK a : request' = [request EXCEPT ![t] = q(a)] /\ UNCHANGED job
    BY <1>7 DEF Ask, AskBadly
  <2>2. q(a).op = request[t].op /\ request[t].op = "get"
    BY <1>i, <1>7 DEF Requests, Ask, AskBadly, Asks
  <2> QED BY <1>4, <1>7, <2>1, <2>2
<1>8. ASSUME NEW t \in Thread, Post(t) PROVE job'[request'[u].image] = NoJob
  <2>1. request[t].op = "create"
    BY <1>8 DEF Post
  <2>2. CASE Finish(t) /\ UNCHANGED job
    BY <1>4, <1>8, <1>n, <2>2 DEF Finish
  <2>3. ASSUME NEW a \in {"done", "building"}, NEW p, request' = [request EXCEPT ![t].answer = a],
               job' = [job EXCEPT ![request[t].image] = [status |-> a, place |-> p]]
        PROVE  job'[request'[u].image] = NoJob
    <3>1. request'[t].answer = a /\ \A w \in Thread : w # t => request'[w] = request[w]
      BY <1>i, <1>8, <2>3 DEF Requests
    <3>2. u # t /\ request'[u] = request[u]
      BY <2>3, <3>1
    <3>3. request[u].image # request[t].image /\ request[u].image \in Image /\ request[t].image \in Image
      BY <1>i, <1>8, <2>1, <3>2 DEF Crossing, IInv, RequestFits
    <3>4. job'[request[u].image] = job[request[u].image]
      BY <1>i, <2>3, <3>3
    <3> QED BY <1>1, <3>2, <3>4
  <2> QED BY <1>8, <2>2, <2>3 DEF Post
<1>9. ASSUME NEW t \in Thread, NEW i \in Image, Create(t, i) \/ ReadRow(t, i)
      PROVE  job'[request'[u].image] = NoJob
  <2>1. PICK op \in {"create", "get"} :
          /\ request' = [request EXCEPT ![t] = [NoWork EXCEPT !.op = op, !.image = i]] /\ UNCHANGED job
          /\ op = "create" => job[i] = NoJob
    BY <1>9 DEF Create, ReadRow, Poll
  <2> DEFINE q == [NoWork EXCEPT !.op = op, !.image = i]
  <2>2. q.op = op /\ q.image = i
    BY DEF NoWork
  <2> HIDE DEF q
  <2>3. request' = [request EXCEPT ![t] = q]
    BY <2>1 DEF q
  <2>4. CASE u = t
    BY <1>i, <1>9, <2>1, <2>2, <2>3, <2>4
  <2>5. CASE u # t
    BY <1>1, <1>i, <1>9, <2>1, <2>3, <2>5
  <2> QED BY <2>4, <2>5
<1>10. CASE \E t \in Thread :
             \/ Raised(t) \/ Client(t) \/ Post(t) \/ Insert(t) \/ PostLost(t)
             \/ Ask(t) \/ AskBadly(t) \/ AskFails(t) \/ Commit(t)
             \/ \E i \in Image : Create(t, i) \/ ReadRow(t, i)
  BY <1>5, <1>6, <1>7, <1>8, <1>9, <1>10
<1>11. \/ UNCHANGED <<request, job>>
       \/ (\E place \in Place : ImagemakerRestarts(place)) \/ (\E i \in Image : JobEnds(i))
       \/ \E t \in Thread :
             \/ Raised(t) \/ Client(t) \/ Post(t) \/ Insert(t) \/ PostLost(t)
             \/ Ask(t) \/ AskBadly(t) \/ AskFails(t) \/ Commit(t)
             \/ \E i \in Image : Create(t, i) \/ ReadRow(t, i)
  BY DEF Next, vars, images
<1> QED BY <1>2, <1>3, <1>10, <1>11

\* A row changes when its request inserts it, or a poll commits an end; one that had
\* ended follows two ends of the job only if one of them was not the job's.
LEMMA EndStandsStep ==
  ASSUME CrossInv, [Next]_vars, NEW i \in Image, row'[i] # row[i]
  PROVE  /\ Tells(i, row'[i])
         /\ row[i] \in Ended =>
              /\ row'[i] \in Ended /\ fate[i] \cap Mistaken # {}
              /\ \E t \in overtaken \cap Polls(i) : request'[t] = NoWork
<1>i. /\ IInv /\ Crossing /\ Apart /\ row \in [Image -> {"none", "building", "ready", "failed"}]
      /\ request \in [Thread -> Requests] /\ fate \in [Image -> SUBSET Fate]
  BY DEF CrossInv, IInv, ImagesTyped
<1>1. \E t \in Thread : Insert(t) \/ Commit(t)
  BY DEF Next, vars, images, Raised, Client, Post, PostLost, Ask, AskBadly, AskFails, Create, ReadRow, Poll,
         JobEnds, ImagemakerRestarts
<1>2. ASSUME NEW t \in Thread, Insert(t)
      PROVE  row'[i] = "building" /\ row[i] = "none"
  BY <1>i, <1>2 DEF Insert, Crossing
<1>3. ASSUME NEW t \in Thread, Commit(t)
      PROVE  /\ request[t].op = "get" /\ request[t].image = i /\ request'[t] = NoWork
             /\ row'[i] \in Ended /\ Tells(i, row'[i])
  <2> DEFINE s == Status(request[t].answer)
  <2>1. /\ request[t].op = "get" /\ request[t].answer # "none" /\ request' = [request EXCEPT ![t] = NoWork]
        /\ row' = [row EXCEPT ![request[t].image] = IF s = "building" THEN row[request[t].image] ELSE s]
    BY <1>3 DEF Commit, Answered, Write, Finish
  <2>2. /\ request[t].answer \in {"unknown", "building", "done", "error"}
        /\ request[t].image \in Image /\ Follows(request[t].image, request[t].answer)
    BY <1>i, <1>3, <2>1 DEF Requests, IInv, RequestFits
  <2>3. request[t].image = i /\ row'[i] = s /\ s # "building"
    BY <1>i, <2>1, <2>2
  <2>4. s \in Ended /\ (s = "ready" => request[t].answer = "done")
        /\ (s = "failed" => request[t].answer \in {"error", "unknown"})
    BY <2>2, <2>3 DEF Status, Ended
  <2> HIDE DEF s
  <2>5. Tells(i, s)
    BY <1>i, <2>2, <2>3, <2>4 DEF Tells, Follows, Apart
  <2> QED BY <1>i, <1>3, <2>1, <2>3, <2>4, <2>5
<1>4. ASSUME NEW t \in Thread, Commit(t), row[i] \in Ended
      PROVE  fate[i] \cap Mistaken # {} /\ t \in overtaken \cap Polls(i)
  <2>1. RowTold /\ row'[i] \in Ended /\ Tells(i, row'[i]) /\ request[t].op = "get" /\ request[t].image = i
    BY <1>3, <1>4, <1>i DEF IInv
  <2>2. "done" \in fate[i]
    BY <1>4, <2>1 DEF RowTold, Tells, Ended
  <2>3. fate[i] \cap (Fate \ {"done"}) # {}
    BY <1>4, <2>1 DEF RowTold, Tells, Ended
  <2>4. "error" \notin fate[i]
    BY <1>i, <2>2 DEF Apart
  <2>5. fate[i] \cap Mistaken # {}
    BY <2>3, <2>4 DEF Fate
  <2> QED BY <1>i, <1>4, <2>1, <2>5 DEF Crossing, Polls
<1>5. CASE \E t \in Thread : Insert(t)
  BY <1>2, <1>5 DEF Tells, Ended
<1>6. CASE \E t \in Thread : Commit(t)
  BY <1>3, <1>4, <1>6
<1> QED BY <1>1, <1>5, <1>6

-----------------------------------------------------------------------------
(* The theorems.                                                           *)

\* The inductive invariant holds whatever the file is edited to, however requests
\* cross, and whatever the imagemakers forget or answer.
THEOREM IInvInvariant == Spec => []CrossInv
<1>1. Init => CrossInv
  BY InvInit, CrossInit DEF CrossInv
<1>2. CrossInv /\ [Next]_vars => CrossInv'
  BY ImagesStep, CrossingStep, ApartStep, UnpostedStep DEF CrossInv
<1> QED BY <1>1, <1>2, PTL DEF Spec

\* Type correctness, the settings' lock and the imagemakers' limit: whoever reads
\* the settings' file holds the lock (settings.py:187), and no more than the limit
\* of builds runs at one imagemaker.
THEOREM TypeCorrect == Spec => []TypeOK
<1> QED BY IInvInvariant, InvTyped, PTL

\* However polls of one image cross, the end that is committed is one that the job
\* had or was taken for; it is never taken back, and gives way to the other end only
\* in a poll that read the row before, when the imagemaker lost the job, answered
\* badly or was another one (images.py:121-132).
THEOREM PolledEndStands == Spec => EndStands
<1> DEFINE Stand ==
      \A i \in Image : row'[i] # row[i] =>
        /\ Tells(i, row'[i])
        /\ row[i] \in Ended =>
             /\ row'[i] \in Ended /\ fate[i] \cap Mistaken # {}
             /\ \E t \in overtaken \cap Polls(i) : request'[t] = NoWork
<1>1. CrossInv /\ [Next]_vars => [Stand]_vars
  BY EndStandsStep
<1> QED BY <1>1, IInvInvariant, PTL DEF Spec, EndStands
=============================================================================
