------------------------------ MODULE Settings ------------------------------
(***************************************************************************)
(* SettingsProvider of settings.py: fleet-api.yaml is read again when its  *)
(* mtime changed, by whichever thread asks for the settings next: requests *)
(* and the scheduler, which reads its interval from them (app.py).         *)
(***************************************************************************)
EXTENDS Naturals

CONSTANTS
  Thread,      \* threads that serve requests
  Scheduler,   \* the thread of the scheduler
  Kind,        \* what an edit can make of the file
  MaxEdits,    \* bound
  None

Reader == Thread \cup {Scheduler}

ASSUME SettingsConstantsOK ==
  /\ Scheduler \notin Thread /\ None \notin Nat /\ None \notin Reader /\ MaxEdits \in Nat
  /\ Kind \subseteq {"good", "refused", "scalar", "unparsable", "missing"}

VARIABLES
  file,     \* its kind and version; every edit gives it another mtime: the version
  kept,     \* version of _settings, None for the defaults
  mtime,    \* _mtime
  lock,     \* holder of _lock
  reader,   \* where each thread is in current()
  alive,    \* the scheduler's loop runs
  missed    \* for the properties only: versions whose mtime was taken for that
            \*   of an older text

provider == <<kept, mtime, lock>>
settings == <<file, provider, reader, alive, missed>>

Idle  == [at |-> "idle", seen |-> None, text |-> [kind |-> "missing", version |-> 0]]
File  == [kind : Kind \cup {"good"}, version : 0..MaxEdits]
Mtime == IF file.kind = "missing" THEN None ELSE file.version

SettingsTypeOK ==
  /\ file \in File /\ kept \in {None} \cup 0..MaxEdits /\ mtime \in {None} \cup 0..MaxEdits
  /\ lock \in {None} \cup Reader
  /\ \A t \in Reader :
       /\ reader[t].at \in {"idle", "wait", "open", "stat", "parse", "got", "raised"}
       /\ reader[t].seen \in {None} \cup 0..MaxEdits
       /\ (lock = t) = (reader[t].at \in {"open", "stat", "parse"})
  /\ alive \in BOOLEAN /\ missed \subseteq 0..MaxEdits

\* The file was read when the service started; version 0 stands for it.
SettingsInit ==
  /\ file = [kind |-> "good", version |-> 0] /\ kept = 0 /\ mtime = 0
  /\ lock = None /\ reader = [t \in Reader |-> Idle]
  /\ alive = TRUE /\ missed = {}

Edit ==
  /\ file.version < MaxEdits
  /\ \E k \in Kind : file' = [kind |-> k, version |-> file.version + 1]
  /\ UNCHANGED <<provider, reader, alive, missed>>

(***************************************************************************)
(* current().                                                              *)
(***************************************************************************)
Goto(t, at) == reader' = [reader EXCEPT ![t] = [Idle EXCEPT !.at = at]]
Return(t)   == Goto(t, "got") /\ lock' = None

\* stat, and the first comparison.  They are one step: a reload of another thread
\* between them makes this one reload once more, as one after them does.
Stat(t) ==
  /\ reader[t].at = "idle" /\ (t = Scheduler => alive)
  /\ IF Mtime = mtime
       THEN Goto(t, "got")
       ELSE reader' = [reader EXCEPT ![t] = [Idle EXCEPT !.at = "wait", !.seen = Mtime]]
  /\ UNCHANGED <<file, provider, alive, missed>>

\* Mutant: the lock is left before the file is read.
AcquireBriefly(t) ==
  /\ reader[t].at = "wait" /\ lock = None
  /\ Goto(t, IF reader[t].seen = mtime THEN "got" ELSE "open")
  /\ UNCHANGED <<file, provider, alive, missed>>

\* Compared again under the lock, with the mtime seen before it.
Acquire(t) ==
  /\ reader[t].at = "wait" /\ lock = None
  /\ IF reader[t].seen = mtime
       THEN Goto(t, "got") /\ UNCHANGED lock
       ELSE Goto(t, "open") /\ lock' = t
  /\ UNCHANGED <<file, kept, mtime, alive, missed>>

\* _load.  Without a file the defaults are taken; a text that is not YAML raises
\* out of current() before its mtime is noted.
Defaults(t) ==
  /\ kept' = None /\ mtime' = None /\ Return(t)
  /\ UNCHANGED <<file, alive, missed>>

Open(t) ==
  /\ reader[t].at = "open"
  /\ \/ file.kind = "missing" /\ Defaults(t)
     \/ /\ file.kind = "unparsable"
        /\ Goto(t, "raised") /\ lock' = None
        /\ UNCHANGED <<file, kept, mtime, alive, missed>>
     \/ /\ file.kind \in {"good", "refused", "scalar"}
        /\ reader' = [reader EXCEPT ![t].at = "stat", ![t].text = file]
        /\ UNCHANGED <<file, provider, alive, missed>>

StatRead(t) ==
  /\ reader[t].at = "stat"
  /\ \/ file.kind = "missing" /\ Defaults(t)
     \/ /\ file.kind # "missing"
        /\ mtime' = Mtime
        /\ missed' = IF file = reader[t].text THEN missed ELSE missed \cup {file.version}
        /\ reader' = [reader EXCEPT ![t].at = "parse"] /\ UNCHANGED <<file, kept, lock, alive>>

\* Mutant: the settings that were built are not assigned.
ParseUnassigned(t) ==
  /\ reader[t].at = "parse"
  /\ Return(t) /\ UNCHANGED <<file, kept, mtime, alive, missed>>

\* A change_control section that is refused keeps the previous settings; YAML that
\* is no mapping raises out of current(), with its mtime noted.
Parse(t) ==
  /\ reader[t].at = "parse"
  /\ kept' = IF reader[t].text.kind = "good" THEN reader[t].text.version ELSE kept
  /\ Goto(t, IF reader[t].text.kind = "scalar" THEN "raised" ELSE "got") /\ lock' = None
  /\ UNCHANGED <<file, mtime, alive, missed>>

Reading(t) == Stat(t) \/ Acquire(t) \/ Open(t) \/ StatRead(t) \/ Parse(t)

\* The scheduler asks for its interval between two ticks, outside the handler
\* that guards the tick: an exception ends its thread.
Tick ==
  /\ reader[Scheduler].at \in {"got", "raised"}
  /\ alive' = (reader[Scheduler].at = "got")
  /\ Goto(Scheduler, "idle")
  /\ UNCHANGED <<file, provider, missed>>

(***************************************************************************)
(* Properties.                                                             *)
(***************************************************************************)
\* Once the file is left alone the settings are its text, however edits, reloads
\* and threads that saw an older mtime cross; a refused text leaves the text
\* before it.  Excepted are an edit between a reload's read and its stat, which
\* is not noticed (settings.py:166-167), and a scheduler that a text which is
\* not YAML, or no mapping, ended.
SettingsFollow ==
  (file.kind = "good")
    ~> (file.kind = "good" => kept = file.version \/ file.version \in missed \/ ~alive)

\* "An invalid edit is logged and the previous settings stay" (docs/fleet-api.md):
\* whatever is in the file, the scheduler goes on.
SchedulerGoesOn == alive
=============================================================================
