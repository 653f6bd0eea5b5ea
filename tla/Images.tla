------------------------------- MODULE Images -------------------------------
(***************************************************************************)
(* Flashable images: ImageService of images.py, which keeps a row per      *)
(* image and asks the imagemaker (components/imagemaker/server.js) for its *)
(* job when somebody reads the row.  Each call takes the imagemaker's      *)
(* address from the settings of then (Settings).                           *)
(***************************************************************************)
EXTENDS Settings, FiniteSets

CONSTANTS
  Image,       \* images; the job of each has its name
  Slots,       \* jobs the imagemaker builds at a time
  Elsewhere,   \* versions of the settings that name another imagemaker
  MaxFaults    \* bound on lost answers, bad answers and restarts

ASSUME ImageConstantsOK ==
  Slots \in Nat /\ MaxFaults \in Nat /\ Elsewhere \subseteq Nat

VARIABLES
  row,       \* Image.status of each image; "none": not there
  job,       \* the imagemaker's jobs, and which imagemaker has them
  request,   \* what each thread is about
  faults,
  fate,      \* for the properties only: what happened to each job
  overtaken  \* for the properties only: threads whose poll read its row before
             \*   another poll ended it

history == <<fate, overtaken>>
images  == <<row, job, request, faults, history>>
vars    == <<settings, images>>

Ended    == {"ready", "failed"}
Mistaken == {"forgotten", "bad answer", "asked elsewhere"}   \* why an answer may not be the job's end
Fate     == {"done", "error"} \cup Mistaken
NoJob    == [status |-> "none", place |-> "first"]
NoWork   == [op |-> "none", image |-> None, client |-> "none", answer |-> "none"]
Place    == {"first", "other"}   \* the imagemakers
Building(place) == {i \in Image : job[i] = [status |-> "building", place |-> place]}

TypeOK ==
  /\ SettingsTypeOK
  /\ row \in [Image -> {"none", "building"} \cup Ended]
  /\ job \in [Image -> [status : {"none", "building", "done", "error", "forgotten"}, place : Place]]
  /\ \A place \in Place : Cardinality(Building(place)) <= Slots
  /\ \A t \in Thread :
       /\ request[t].op \in {"none", "create", "get"} /\ request[t].image \in Image \cup {None}
       /\ request[t].client \in Place \cup {"none"}
       /\ request[t].answer \in {"none", "unknown", "building", "done", "error"}
  /\ faults \in 0..MaxFaults /\ fate \in [Image -> SUBSET Fate] /\ overtaken \subseteq Thread

Init ==
  /\ SettingsInit
  /\ row = [i \in Image |-> "none"] /\ job = [i \in Image |-> NoJob]
  /\ request = [t \in Thread |-> NoWork] /\ faults = 0
  /\ fate = [i \in Image |-> {}] /\ overtaken = {}

\* The request is over; the thread takes another.
Finish(t) ==
  /\ request' = [request EXCEPT ![t] = NoWork]
  /\ Goto(t, "idle") /\ UNCHANGED <<file, provider, alive, missed>>

\* 500: the settings could not be read.
Raised(t) ==
  /\ reader[t].at = "raised" /\ Finish(t)
  /\ UNCHANGED <<row, job, faults, history>>

\* Components.imagemaker: a client for the address the settings give.
Client(t) ==
  /\ reader[t].at = "got"
  /\ request' = [request EXCEPT ![t].client = IF kept \in Elsewhere THEN "other" ELSE "first"]
  /\ Goto(t, "idle") /\ UNCHANGED <<row, job, faults, history, file, provider, alive, missed>>

Learn(i, what) == fate' = [fate EXCEPT ![i] = @ \cup {what}] /\ UNCHANGED overtaken

(***************************************************************************)
(* create: POST /api/build, then the row.                                  *)
(***************************************************************************)
Create(t, i) ==
  /\ request[t] = NoWork /\ job[i] = NoJob
  /\ \A u \in Thread : request[u].image # i
  /\ request' = [request EXCEPT ![t] = [NoWork EXCEPT !.op = "create", !.image = i]]
  /\ UNCHANGED <<row, job, faults, history, settings>>

\* A prebuilt image is done at once; otherwise two builds are the limit (429), those
\* started from the imagemaker's own page included.
Post(t) ==
  /\ request[t].op = "create" /\ request[t].client # "none" /\ request[t].answer = "none"
  /\ LET i     == request[t].image
         place == request[t].client IN
     \/ /\ job' = [job EXCEPT ![i] = [status |-> "done", place |-> place]]
        /\ Learn(i, "done")
        /\ request' = [request EXCEPT ![t].answer = "done"] /\ UNCHANGED settings
     \/ /\ Cardinality(Building(place)) < Slots
        /\ job' = [job EXCEPT ![i] = [status |-> "building", place |-> place]]
        /\ request' = [request EXCEPT ![t].answer = "building"] /\ UNCHANGED <<history, settings>>
     \/ Finish(t) /\ UNCHANGED <<job, history>>
  /\ UNCHANGED <<row, faults>>

Insert(t) ==
  /\ request[t].op = "create" /\ request[t].answer # "none"
  /\ row' = [row EXCEPT ![request[t].image] = "building"]
  /\ Finish(t) /\ UNCHANGED <<job, faults, history>>

\* The answer is lost: the job has no row.
PostLost(t) ==
  /\ request[t].op = "create" /\ request[t].answer # "none"
  /\ faults < MaxFaults /\ faults' = faults + 1
  /\ Finish(t) /\ UNCHANGED <<row, job, history>>

(***************************************************************************)
(* get: the row is read, the imagemaker asked, the answer committed.       *)
(***************************************************************************)
Poll(t, i) ==
  /\ request' = [request EXCEPT ![t] = [NoWork EXCEPT !.op = "get", !.image = i]]
  /\ overtaken' = overtaken \ {t}
  /\ UNCHANGED <<row, job, faults, fate, settings>>

\* Only a row that is building is asked for.
ReadRow(t, i) == request[t] = NoWork /\ row[i] = "building" /\ Poll(t, i)

\* The job's status, or 404.
Answer(i, place) ==
  IF job[i].place = place /\ job[i].status \notin {"none", "forgotten"} THEN job[i].status ELSE "unknown"

Asks(t) == request[t].op = "get" /\ request[t].client # "none" /\ request[t].answer = "none"

Ask(t) ==
  /\ Asks(t)
  /\ LET i     == request[t].image
         place == request[t].client IN
     /\ request' = [request EXCEPT ![t].answer = Answer(i, place)]
     /\ IF job[i].place # place THEN Learn(i, "asked elsewhere") ELSE UNCHANGED history
  /\ UNCHANGED <<row, job, faults, settings>>

\* Neither 200 nor 404 (401, 500, a proxy's 502): the same None as 404.
AskBadly(t) ==
  /\ Asks(t)
  /\ faults < MaxFaults /\ faults' = faults + 1
  /\ request' = [request EXCEPT ![t].answer = "unknown"]
  /\ Learn(request[t].image, "bad answer")
  /\ UNCHANGED <<row, job, settings>>

\* Unreachable: 502, nothing is committed.
AskFails(t) ==
  /\ Asks(t)
  /\ faults < MaxFaults /\ faults' = faults + 1
  /\ Finish(t) /\ UNCHANGED <<row, job, history>>

Status(answer) ==
  CASE answer = "building" -> "building" [] answer = "done" -> "ready" [] answer \in {"error", "unknown"} -> "failed"

\* The polls of an image that read its row, but did not commit yet.
Polls(i) == {t \in Thread : request[t].op = "get" /\ request[t].image = i}

Answered(t) == request[t].op = "get" /\ request[t].answer # "none"

Write(t, i, status) ==
  /\ row' = [row EXCEPT ![i] = status]
  /\ overtaken' = IF status \in Ended THEN overtaken \cup Polls(i) ELSE overtaken
  /\ Finish(t) /\ UNCHANGED <<job, faults, fate>>

\* Mutant: the answer is written whatever the row was when it was read.
CommitAlways(t) == Answered(t) /\ Write(t, request[t].image, Status(request[t].answer))

\* The session writes the row only when the status differs from the one it read,
\* which was building; so the later of two ends wins.
Commit(t) ==
  /\ Answered(t)
  /\ LET i == request[t].image
         s == Status(request[t].answer) IN
     Write(t, i, IF s = "building" THEN row[i] ELSE s)

(***************************************************************************)
(* The imagemaker.                                                         *)
(***************************************************************************)
JobEnds(i) ==
  /\ job[i].status = "building"
  /\ \E s \in {"done", "error"} : job' = [job EXCEPT ![i].status = s] /\ Learn(i, s)
  /\ UNCHANGED <<row, request, faults, settings>>

\* Its jobs are in memory only.
ImagemakerRestarts(place) ==
  LET had == {i \in Image : job[i] # NoJob /\ job[i].place = place} IN
  /\ faults < MaxFaults /\ faults' = faults + 1
  /\ job' = [i \in Image |-> IF i \in had THEN [job[i] EXCEPT !.status = "forgotten"] ELSE job[i]]
  /\ fate' = [i \in Image |-> IF i \in had THEN fate[i] \cup {"forgotten"} ELSE fate[i]]
  /\ UNCHANGED <<row, request, overtaken, settings>>

\* A request asks for the settings once it needs a client.
Wants(t) == t \in Thread => request[t].op # "none" /\ request[t].client = "none"

Next ==
  \/ \E t \in Reader : Wants(t) /\ Reading(t) /\ UNCHANGED images
  \/ (Edit \/ Tick) /\ UNCHANGED images
  \/ \E t \in Thread :
       \/ Raised(t) \/ Client(t) \/ Post(t) \/ Insert(t) \/ PostLost(t)
       \/ Ask(t) \/ AskBadly(t) \/ AskFails(t) \/ Commit(t)
       \/ \E i \in Image : Create(t, i) \/ ReadRow(t, i)
  \/ \E i \in Image : JobEnds(i)
  \/ \E place \in Place : ImagemakerRestarts(place)

\* A thread that holds the settings' lock goes on, and the scheduler's loop does.
Spec ==
  /\ Init /\ [][Next]_vars
  /\ \A t \in Reader : WF_vars(lock = t /\ Reading(t) /\ UNCHANGED images)
  /\ SF_vars(Reading(Scheduler) /\ UNCHANGED images) /\ WF_vars(Tick /\ UNCHANGED images)

\* What a status says of the job is known of it.
Tells(i, status) ==
  /\ status = "ready" => "done" \in fate[i] /\ "error" \notin fate[i]
  /\ status = "failed" => fate[i] \cap (Fate \ {"done"}) # {}

\* Polls of one image cross: they read its row while it is building, and commit what
\* they were answered in any order.  The end a poll commits is one the job had, or was
\* taken for.  An end stands: it never becomes building again by an answer that
\* was overtaken, and becomes the other end only by a poll that read the row before
\* it ended, and only when the imagemaker lost the job, answered badly, or was
\* not the one that has the job (images.py:72, 121-132).
EndStands ==
  [][\A i \in Image : row'[i] # row[i] =>
       /\ Tells(i, row'[i])
       /\ row[i] \in Ended =>
            /\ row'[i] \in Ended /\ fate[i] \cap Mistaken # {}
            /\ \E t \in overtaken \cap Polls(i) : request'[t] = NoWork]_vars

\* "after it restarts, earlier images report failed" (docs/fleet-api.md): a GET that
\* starts now, when no other is under way, does not report a forgotten image as
\* ready.  It would, since get() asks for building rows only.
EarlierImagesReportFailed ==
  \A i \in Image : job[i].status = "forgotten" /\ Polls(i) = {} => row[i] # "ready"
=============================================================================
