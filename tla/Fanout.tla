------------------------------- MODULE Fanout -------------------------------
(***************************************************************************)
(* The fan-out of site changes to the devices of a fleet: fanout.py,       *)
(* driven by _run_items and _fail of changes.py for a change set whose     *)
(* items are all site.change.                                              *)
(*                                                                         *)
(* A tick reads the device list once, then calls the devices one by one,   *)
(* on a copy (mem) of the progress row (saved).  A crash loses the copy,   *)
(* not what the devices were sent: the next tick sends the wave again, and *)
(* relies on the Idempotency-Key to have each device answer with the       *)
(* change it already has.                                                  *)
(***************************************************************************)
EXTENDS Naturals, Sequences, FiniteSets

CONSTANTS
  Device,     \* devices of the fleet
  Waves,      \* Seq(SUBSET Device): what plan_waves made of the specs
  Items,      \* number of site.change items of the change set
  MaxFaults   \* bound: crashes of the service

WaveIdx == 1..Len(Waves)
Member  == UNION {Waves[i] : i \in WaveIdx}

ASSUME FanoutConstants ==
  /\ Waves \in Seq(SUBSET Device)
  /\ \A i, j \in WaveIdx : i # j => Waves[i] \cap Waves[j] = {}
  /\ Items \in Nat \ {0} /\ MaxFaults \in Nat

VARIABLES
  \* the devices
  online,   \* devices the VPN reaches
  made,     \* [Device -> <<key, item>> of the site changes created on it]
  site,     \* [Device -> state of the site change created first]
  \* the database
  change,   \* state of the change set
  saved,    \* progress: the item at the cursor and its fan-out
  \* the thread that holds _LOCK
  at, mem, live, left, waiting,
  \* environment
  due,      \* the limit of the wave (timeout, or soak time) has passed
  faults

devs == <<online, made, site>>
proc == <<at, mem, live, left, waiting>>
vars == <<devs, change, saved, proc, due, faults>>

SITE_OK  == "applied"
SITE_BAD == "rolled_back"   \* stands for failed, expired, cancelled, rejected too
SiteState == {"none", "planned", SITE_OK, SITE_BAD}

\* `failed' is what the engine records of a device that refused or was not reached.
Record == (SiteState \ {"none"}) \cup {"pending", "skipped", "failed"}
Fanouts == [item : 1..Items, status : {"running", "halted", "done"}, current : 1..(Len(Waves) + 1),
            wave : {"pending", "sent", "soaking"}, rec : [Member -> Record]]

TypeOK ==
  /\ online \subseteq Device
  /\ DOMAIN made = Device /\ \A d \in Device : \A m \in made[d] : m[2] \in 1..Items
  /\ site \in [Device -> SiteState]
  /\ change \in {"applying", "verifying", "failed", "rolled_back"}
  /\ saved \in Fanouts /\ mem \in Fanouts
  /\ at \in {"idle", "more", "send", "poll", "save", "close"}
  /\ live \subseteq Device /\ left \subseteq Member /\ waiting \subseteq Member
  /\ due \in BOOLEAN /\ faults \in 0..MaxFaults

-----------------------------------------------------------------------------
\* start(): every wave pending; the state of the wave at `current' is enough.
Start(i) == [item |-> i, status |-> "running", current |-> 1, wave |-> "pending",
             rec |-> [d \in Member |-> "pending"]]

\* Mutant: a key of its own for every attempt.
KeyOfAttempt(d) == <<"fsc", d, faults>>

\* The change id is the same for all items of a change, so it is left out.
Key(d) == <<"fsc", d>>

\* Waves without devices are passed over.
SkipEmpty(s) ==
  [s EXCEPT !.current = CHOOSE n \in @..(Len(Waves) + 1) :
                          /\ n > Len(Waves) \/ Waves[n] # {}
                          /\ \A j \in @..(n - 1) : Waves[j] = {}]

Note(s, d, r) == [s EXCEPT !.rec[d] = r]
Halt(s) == [s EXCEPT !.status = "halted"]

Init ==
  /\ online \in SUBSET Device
  /\ made = [d \in Device |-> {}] /\ site = [d \in Device |-> "none"]
  /\ change = "applying" /\ saved = Start(1)
  /\ at = "idle" /\ mem = Start(1) /\ live = {} /\ left = {} /\ waiting = {}
  /\ due = FALSE /\ faults = 0

-----------------------------------------------------------------------------
(* tick()                                                                  *)

CanTick == at \in {"idle", "more"} /\ change = "applying"
Now == SkipEmpty(saved)
InWave(w) == CanTick /\ saved.status = "running" /\ Now.current <= Len(Waves) /\ Now.wave = w

\* Nothing to do but to save: the fan-out ended, or no wave is left.
TickEnded ==
  /\ CanTick
  /\ \/ saved.status # "running" /\ mem' = saved
     \/ /\ saved.status = "running" /\ Now.current > Len(Waves)
        /\ mem' = [Now EXCEPT !.status = "done"]
  /\ at' = "save"
  /\ UNCHANGED <<devs, change, saved, live, left, waiting, due, faults>>

TickSend ==
  /\ InWave("pending")
  /\ mem' = Now /\ live' = online /\ left' = Waves[Now.current]
  /\ at' = "send"
  /\ UNCHANGED <<devs, change, saved, waiting, due, faults>>

TickPoll ==
  /\ InWave("sent")
  /\ mem' = Now /\ live' = online /\ waiting' = {}
  /\ left' = {d \in Waves[Now.current] : Now.rec[d] \notin {"skipped", SITE_OK}}
  /\ at' = "poll"
  /\ UNCHANGED <<devs, change, saved, due, faults>>

TickSoaking ==
  /\ InWave("soaking")
  /\ mem' = IF ~due THEN Now
            ELSE [Now EXCEPT !.current = @ + 1, !.wave = "pending",
                             !.status = IF Now.current = Len(Waves) THEN "done" ELSE @]
  /\ at' = "save"
  /\ UNCHANGED <<devs, change, saved, live, left, waiting, due, faults>>

-----------------------------------------------------------------------------
(* POST /api/v1/changes to each device of the wave, in any order.          *)

\* A device answers with the change it has for the key, or creates one.
Known(d) == \E m \in made[d] : m[1] = Key(d)
Accept(d) ==
  /\ made' = [made EXCEPT ![d] = IF Known(d) THEN @ ELSE @ \cup {<<Key(d), mem.item>>}]
  /\ site' = [site EXCEPT ![d] = IF @ = "none" THEN "planned" ELSE @]

Posting(d) == at = "send" /\ d \in left

Skip(d) ==
  /\ Posting(d) /\ d \notin live
  /\ mem' = Note(mem, d, "skipped") /\ left' = left \ {d}
  /\ UNCHANGED <<devs, change, saved, at, live, waiting, due, faults>>

Send(d) ==
  /\ Posting(d) /\ d \in live /\ d \in online
  /\ Accept(d)
  /\ mem' = Note(mem, d, site'[d]) /\ left' = left \ {d}
  /\ UNCHANGED <<online, change, saved, at, live, waiting, due, faults>>

\* Refused, not reached, or the answer is lost: halts.
SendFails(d) ==
  /\ Posting(d) /\ d \in live
  /\ \/ d \in online /\ Accept(d)
     \/ UNCHANGED <<made, site>>
  /\ mem' = Halt(Note(mem, d, "failed")) /\ at' = "save"
  /\ UNCHANGED <<online, change, saved, live, left, waiting, due, faults>>

SendDone ==
  /\ at = "send" /\ left = {}
  /\ mem' = [mem EXCEPT !.wave = "sent"] /\ due' = FALSE
  /\ at' = "save"
  /\ UNCHANGED <<devs, change, saved, live, left, waiting, faults>>

-----------------------------------------------------------------------------
(* GET /api/v1/changes/<id> of each device that is not done.               *)

Polling(d) == at = "poll" /\ d \in left

\* Offline or not reached.
PollFails(d) ==
  /\ Polling(d)
  /\ waiting' = waiting \cup {d} /\ left' = left \ {d}
  /\ UNCHANGED <<devs, change, saved, at, mem, live, due, faults>>

\* Mutant: only a planned change is waited for, a bad end is taken as an end.
PollWaiting(d) ==
  /\ Polling(d) /\ d \in live /\ d \in online
  /\ mem' = Note(mem, d, site[d]) /\ left' = left \ {d}
  /\ waiting' = IF site[d] = "planned" THEN waiting \cup {d} ELSE waiting
  /\ UNCHANGED <<devs, change, saved, at, live, due, faults>>

\* Mutant: an answer is taken for success.
PollAnyAnswer(d) ==
  /\ Polling(d) /\ d \in live /\ d \in online
  /\ mem' = Note(mem, d, SITE_OK) /\ left' = left \ {d}
  /\ UNCHANGED <<devs, change, saved, at, live, waiting, due, faults>>

\* An answer other than 200 leaves the state the device answered last, the POST's
\* perhaps; the judgement is the same.
Poll(d) ==
  /\ Polling(d) /\ d \in live /\ d \in online
  /\ left' = left \ {d}
  /\ \E state \in {site[d], mem.rec[d]} :
       /\ IF state = SITE_BAD
            THEN mem' = Halt(Note(mem, d, state)) /\ at' = "save"
            ELSE mem' = Note(mem, d, state) /\ UNCHANGED at
       /\ waiting' = IF state # SITE_OK THEN waiting \cup {d} ELSE waiting
  /\ UNCHANGED <<devs, change, saved, live, due, faults>>

\* Mutant: the timeout only ends waves whose devices are all online.
PollDoneOnline ==
  /\ at = "poll" /\ left = {}
  /\ \/ /\ waiting = {}
        /\ mem' = [mem EXCEPT !.wave = "soaking"] /\ due' = FALSE
     \/ /\ waiting # {}
        /\ mem' = (IF due /\ waiting \subseteq live THEN Halt(mem) ELSE mem) /\ UNCHANGED due
  /\ at' = "save"
  /\ UNCHANGED <<devs, change, saved, live, left, waiting, faults>>

PollDone ==
  /\ at = "poll" /\ left = {}
  /\ \/ /\ waiting = {}
        /\ mem' = [mem EXCEPT !.wave = "soaking"] /\ due' = FALSE
     \/ /\ waiting # {}
        /\ mem' = (IF due THEN Halt(mem) ELSE mem) /\ UNCHANGED due
  /\ at' = "save"
  /\ UNCHANGED <<devs, change, saved, live, left, waiting, faults>>

-----------------------------------------------------------------------------
(* _run_items and _fail                                                    *)

\* The commit after a tick; with an item done, the next one starts at once.
Save ==
  /\ at = "save"
  /\ IF mem.status = "done" /\ mem.item < Items
       THEN saved' = Start(mem.item + 1) /\ at' = "more"
       ELSE saved' = mem /\ at' = IF mem.status = "running" THEN "idle" ELSE "close"
  /\ UNCHANGED <<devs, change, mem, live, left, waiting, due, faults>>

\* The commit of the state after that: nothing is undone on the devices.
Close ==
  /\ at = "close"
  /\ change' = IF saved.status = "halted" THEN "failed" ELSE "verifying"
  /\ at' = "idle"
  /\ UNCHANGED <<devs, saved, mem, live, left, waiting, due, faults>>

\* Mutant: a rollback that does not wait for the lock.
RequestRollbackUnlocked ==
  /\ change \in {"applying", "verifying"}
  /\ change' = "rolled_back"
  /\ UNCHANGED <<devs, saved, proc, due, faults>>

\* An operator's rollback has nothing to undo; no wave is sent after it.
RequestRollback ==
  /\ at = "idle" /\ change \in {"applying", "verifying"}
  /\ change' = "rolled_back"
  /\ UNCHANGED <<devs, saved, proc, due, faults>>

-----------------------------------------------------------------------------
(* Devices, time, crashes.                                                 *)

SiteEnds(d) ==
  /\ site[d] = "planned"
  /\ \E s \in {SITE_OK, SITE_BAD} : site' = [site EXCEPT ![d] = s]
  /\ UNCHANGED <<online, made, change, saved, proc, due, faults>>

Connection(d) ==
  /\ online' = IF d \in online THEN online \ {d} ELSE online \cup {d}
  /\ UNCHANGED <<made, site, change, saved, proc, due, faults>>

TimePasses ==
  /\ ~due /\ due' = TRUE
  /\ UNCHANGED <<devs, change, saved, proc, faults>>

Crash ==
  /\ at # "idle" /\ faults < MaxFaults
  /\ faults' = faults + 1
  /\ at' = "idle" /\ mem' = saved /\ live' = {} /\ left' = {} /\ waiting' = {}
  /\ UNCHANGED <<devs, change, saved, due>>

Tick == TickEnded \/ TickSend \/ TickPoll \/ TickSoaking
Work ==
  \/ Tick \/ SendDone \/ PollDone \/ Save \/ Close
  \/ \E d \in Member : Skip(d) \/ Send(d) \/ SendFails(d) \/ PollFails(d) \/ Poll(d)

Next ==
  \/ Work \/ RequestRollback
  \/ \E d \in Device : SiteEnds(d) \/ Connection(d)
  \/ TimePasses \/ Crash

Spec == Init /\ [][Next]_vars

\* The scheduler thread ticks for ever and time passes.
FairSpec == Spec /\ WF_vars(Work) /\ WF_vars(TimePasses)

-----------------------------------------------------------------------------
(* Properties.                                                             *)

\* A later wave goes out only over devices that applied: while one has the
\* change, no device of an earlier wave is still at it or ended badly.
LaterWavesOverApplied ==
  \A i, j \in WaveIdx : i < j =>
    \A d \in Waves[i], e \in Waves[j] : made[e] # {} => site[d] \in {"none", SITE_OK}

\* It holds while the service does not crash in the middle of a wave.
LaterWavesOverAppliedUncut == faults = 0 => LaterWavesOverApplied

\* However often a wave is sent again, a device gets the change once.
SentOnce == \A d \in Device : Cardinality(made[d]) <= 1

\* A device counted as updated did apply the site change of this very item.
UpdatedIsApplied ==
  \A s \in {saved, mem}, d \in Member :
    s.rec[d] = SITE_OK => site[d] = SITE_OK /\ <<Key(d), s.item>> \in made[d]

\* Once the fan-out is recorded as ended, or its change left `applying', no
\* device is sent anything any more, crash or not.
StoppedIsFinal ==
  [][(saved.status = "halted" \/ change # "applying") => UNCHANGED made]_vars

\* A fan-out ends, although devices may stay offline or never decide.
FanoutEnds == change = "applying" ~> change # "applying"
=============================================================================
