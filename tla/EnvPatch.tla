------------------------------ MODULE EnvPatch ------------------------------
(***************************************************************************)
(* The environment variables of one scope (a fleet, a service of it, a     *)
(* device, a service on a device): EnvStore of env.py, patch_env,          *)
(* restore_env and the applied-env record of service.py, and the change    *)
(* set of env.patch items that changes.py runs and rolls back over them.   *)
(* Requests patch the same scope directly.  Each openBalena call and each  *)
(* commit is a step, so any of them can fail and others can fall between.  *)
(***************************************************************************)
EXTENDS Naturals, Sequences, FiniteSets

CONSTANTS
  Name, Value,   \* of variables; values are compared only (the record's sha256)
  None,          \* no such variable
  NoRow,         \* no applied-env row
  Items,         \* the patches of the change, in the order of its items
  Request,       \* the requests that patch directly,
  Direct,        \*   and the patch of each
  MaxFaults      \* bound on failing calls and crashes

\* A patch maps names to the value to set, or to None to unset.  It names
\* something, and no name both ways.
Patch == UNION {[S -> Value \cup {None}] : S \in (SUBSET Name) \ {{}}}

ASSUME EnvConstantsOK ==
  /\ None \notin Value /\ NoRow \notin Value \cup {None}
  /\ Items \in Seq(Patch) /\ Direct \in [Request -> Patch]
  /\ "change" \notin Request /\ MaxFaults \in Nat

VARIABLES
  live,      \* openBalena's rows of the scope
  gone,      \* the scope was deleted (its device or service)
  applied,   \* AppliedEnv rows: what this API applied last
  state,     \* of the change
  base,      \* what its plan was made on,
  shown,     \*   and of each name, the current values its diff showed to the approvers
  diff,      \* a plan being made: the items that were read, and what they showed
  saved,     \* its progress: for each item done, the values it replaced, and
             \*   whether they were restored
  undo,      \* a rollback in progress: the item it is at, what it restored, and
             \*   whether it, or one cut short before it, met an error
  thread,    \* where each request, and the thread of the change, stands
  faults
\* For the properties only.
VARIABLES
  outside,   \* names changed outside the API
  crossed,   \* names others wrote after the base was compared
  broken     \* names whose patch was cut short, or written by two at once

plan    == <<base, shown, diff>>
change  == <<state, plan, saved, undo>>
history == <<outside, crossed, broken>>
vars    == <<live, gone, applied, change, thread, faults, history>>

Writer  == Request \cup {"change"}
Rows    == [Name -> Value \cup {None}]
Shown   == [Name -> SUBSET (Value \cup {None})]
NoPatch == [n \in {} |-> None]
Idle    == [at |-> "idle", patch |-> NoPatch, current |-> [n \in Name |-> None], todo |-> {}]
NoDiff  == [items |-> 0, shown |-> [n \in Name |-> {}]]
NoUndo  == [on |-> FALSE, item |-> 0, done |-> {}, failed |-> FALSE]
Rolling == state \in {"applying", "verifying"}
Started == Rolling \/ thread["change"].at = "start" \/ undo.on \/ \E i \in 1..Len(saved) : saved[i].restored
Wrote(w)   == DOMAIN thread[w].patch \ thread[w].todo
Settled(n) == \A w \in Writer : thread[w].at = "write" => n \notin DOMAIN thread[w].patch
\* The names GET /drift lists for this scope.
Drift      == {n \in Name : applied[n] # NoRow /\ live[n] # applied[n]}

TypeOK ==
  /\ live \in Rows /\ gone \in BOOLEAN /\ base \in Rows /\ shown \in Shown
  /\ diff \in [items : 0..Len(Items), shown : Shown]
  /\ applied \in [Name -> Value \cup {None, NoRow}]
  /\ state \in {"draft", "planned", "stale", "applying", "verifying", "applied", "rolled_back"}
  /\ Len(saved) <= Len(Items)
  /\ \A i \in 1..Len(saved) :
       saved[i].previous \in Patch /\ DOMAIN saved[i].previous = DOMAIN Items[i]
  /\ undo \in [on : BOOLEAN, item : 0..Len(saved), done : SUBSET (1..Len(Items)), failed : BOOLEAN]
  /\ \A w \in Writer :
       /\ thread[w].at \in {"idle", "gated", "plan", "start", "write", "save", "end"}
       /\ thread[w].patch \in Patch \cup {NoPatch}
       /\ thread[w].todo \subseteq DOMAIN thread[w].patch /\ thread[w].current \in Rows
  /\ faults \in 0..MaxFaults
  /\ outside \subseteq Name /\ crossed \subseteq Name /\ broken \subseteq Name

Init ==
  /\ live \in Rows /\ base = live /\ gone = FALSE
  /\ diff = NoDiff /\ shown = NoDiff.shown
  /\ applied = [n \in Name |-> NoRow]
  /\ state = "draft" /\ saved = <<>> /\ undo = NoUndo
  /\ thread = [w \in Writer |-> Idle]
  /\ faults = 0 /\ outside = {} /\ crossed = {} /\ broken = {}

(***************************************************************************)
(* patch_env and restore_env: read the scope, write name by name what      *)
(* differs from what was read, record what was applied.                    *)
(***************************************************************************)
\* EnvStore.apply resolves the scope and reads it once.
Read(w, patch) ==
  /\ ~gone
  /\ thread' = [thread EXCEPT ![w] =
       [at |-> "write", patch |-> patch, current |-> live, todo |-> DOMAIN patch]]
  /\ UNCHANGED <<live, gone, applied, change, faults, history>>

\* PATCH and DELETE name the row that was read: they leave the value, or miss the
\* row when it was replaced since.  POST makes a row, and openBalena refuses a
\* second one of the name.
Put(n, read, value) == {value} \cup (IF live[n] = read THEN {} ELSE {live[n]})
Clash(w, n) ==
  /\ n \in thread[w].todo /\ live[n] # None
  /\ thread[w].current[n] = None /\ thread[w].patch[n] # None

\* Names to set go first, then those to unset.
Write(w, n) ==
  LET t == thread[w]  value == t.patch[n]  read == t.current[n] IN
  /\ t.at = "write" /\ n \in t.todo /\ ~gone /\ ~Clash(w, n)
  /\ value = None => \A m \in t.todo : t.patch[m] = None
  /\ IF value = read
       THEN UNCHANGED live
       ELSE \E v \in Put(n, read, value) : live' = [live EXCEPT ![n] = v]
  /\ thread' = [thread EXCEPT ![w].todo = @ \ {n}]
  /\ broken' = broken \cup {m \in {n} : \E v \in Writer \ {w} :
                              thread[v].at = "write" /\ n \in DOMAIN thread[v].patch}
  /\ crossed' = IF w # "change" /\ Started THEN crossed \cup {n} ELSE crossed
  /\ UNCHANGED <<gone, applied, change, faults, outside>>

\* Mutant: only the names set are recorded.
RecordSet(w) ==
  /\ thread[w].at = "write" /\ thread[w].todo = {}
  /\ applied' = [n \in Name |-> IF n \in DOMAIN thread[w].patch /\ thread[w].patch[n] # None
                               THEN thread[w].patch[n] ELSE applied[n]]
  /\ thread' = [thread EXCEPT ![w].at = IF w = "change" THEN "save" ELSE "end"]
  /\ UNCHANGED <<live, gone, change, faults, history>>

\* _record_env: one row per name, all in one commit.
Record(w) ==
  /\ thread[w].at = "write" /\ thread[w].todo = {}
  /\ applied' = [n \in Name |-> IF n \in DOMAIN thread[w].patch THEN thread[w].patch[n] ELSE applied[n]]
  /\ thread' = [thread EXCEPT ![w].at = IF w = "change" THEN "save" ELSE "end"]
  /\ UNCHANGED <<live, gone, change, faults, history>>

(***************************************************************************)
(* A direct patch: gate() looks for a rolling change, without its lock, and *)
(* then goes on.                                                           *)
(***************************************************************************)
Gate(r) ==
  /\ thread[r].at = "idle" /\ ~Rolling
  /\ thread' = [thread EXCEPT ![r].at = "gated"]
  /\ UNCHANGED <<live, gone, applied, change, faults, history>>

PatchDirectly(r) ==
  /\ thread[r].at = "gated"
  /\ Read(r, Direct[r])

(***************************************************************************)
(* The change.  Its thread holds the change lock during each of its steps. *)
(***************************************************************************)
Free == thread["change"].at = "idle" /\ ~undo.on
\* Mutant: the base is read after the diff.
BaseAfterDiff ==
  /\ thread["change"].at = "plan" /\ diff.items = Len(Items)
  /\ base' = live /\ shown' = diff.shown /\ diff' = NoDiff
  /\ state' = "planned"
  /\ thread' = [thread EXCEPT !["change"] = Idle]
  /\ UNCHANGED <<live, gone, applied, saved, undo, faults, history>>

\* Mutant: the values written are saved.
PreviousIsWritten == thread["change"].patch

\* The item that runs next; previous values come from the same read.
Cursor   == Len(saved) + 1
Previous == [n \in DOMAIN thread["change"].patch |-> thread["change"].current[n]]

\* create and replan: the base is read, then, item by item, the rows its diff is
\* made from; one commit saves both.  Without the scope the request is refused.
PlanBase ==
  /\ Free /\ state \in {"draft", "planned", "stale"} /\ ~gone
  /\ thread' = [thread EXCEPT !["change"].at = "plan", !["change"].current = live]
  /\ UNCHANGED <<live, gone, applied, change, faults, history>>

PlanDiff ==
  /\ thread["change"].at = "plan" /\ ~gone /\ diff.items < Len(Items)
  /\ diff' = [items |-> diff.items + 1,
              shown |-> [n \in Name |-> diff.shown[n] \cup
                           {v \in {live[n]} : n \in DOMAIN Items[diff.items + 1]}]]
  /\ UNCHANGED <<live, gone, applied, state, base, shown, saved, undo, thread, faults, history>>

PlanSave ==
  /\ thread["change"].at = "plan" /\ diff.items = Len(Items)
  /\ base' = thread["change"].current /\ shown' = diff.shown /\ diff' = NoDiff
  /\ state' = "planned"
  /\ thread' = [thread EXCEPT !["change"] = Idle]
  /\ UNCHANGED <<live, gone, applied, saved, undo, faults, history>>

PlanRefused ==
  /\ thread["change"].at = "plan" /\ gone
  /\ diff' = NoDiff /\ thread' = [thread EXCEPT !["change"] = Idle]
  /\ UNCHANGED <<live, gone, applied, state, base, shown, saved, undo, faults, history>>

\* Approvals and windows are ChangeLifecycle's.  The base is compared, then the
\* health of every device is read, then the change is applying.  A device that is
\* gone makes it stale; of a service that is gone the EnvError passes _base_moved,
\* and the change stays as it is.
Compare ==
  /\ Free /\ state = "planned"
  /\ \/ (gone \/ live # base) /\ state' = "stale" /\ UNCHANGED thread
     \/ gone /\ UNCHANGED <<state, thread>>
     \/ /\ ~gone /\ live = base
        /\ thread' = [thread EXCEPT !["change"].at = "start"] /\ UNCHANGED state
  /\ UNCHANGED <<live, gone, applied, plan, saved, undo, faults, history>>

Start ==
  /\ thread["change"].at = "start"
  /\ state' = "applying"
  /\ thread' = [thread EXCEPT !["change"] = Idle]
  /\ UNCHANGED <<live, gone, applied, plan, saved, undo, faults, history>>

RunItem ==
  /\ Free /\ state = "applying" /\ Cursor <= Len(Items)
  /\ Read("change", Items[Cursor])

\* Mutant: the item is saved, not the cursor.
SaveItemAgain ==
  /\ thread["change"].at = "save" /\ ~undo.on
  /\ thread' = [thread EXCEPT !["change"] = Idle]
  /\ UNCHANGED <<live, gone, applied, change, faults, history>>

SaveItem ==
  /\ thread["change"].at = "save" /\ ~undo.on
  /\ saved' = Append(saved, [previous |-> Previous, restored |-> FALSE])
  /\ thread' = [thread EXCEPT !["change"] = Idle]
  /\ UNCHANGED <<live, gone, applied, state, plan, undo, faults, history>>

RunDone ==
  /\ Free /\ state = "applying" /\ Cursor > Len(Items)
  /\ state' = "verifying"
  /\ UNCHANGED <<live, gone, applied, plan, saved, undo, thread, faults, history>>

VerifyPassed ==
  /\ Free /\ state = "verifying"
  /\ state' = "applied"
  /\ UNCHANGED <<live, gone, applied, plan, saved, undo, thread, faults, history>>

\* Mutant: one item too many.
RollbackFromCursor ==
  /\ Free /\ state \in {"applying", "verifying", "applied"}
  /\ undo' = [undo EXCEPT !.on = TRUE, !.item = Cursor]
  /\ UNCHANGED <<live, gone, applied, state, plan, saved, thread, faults, history>>

\* _rollback, on an operator's request or after verification: the items done,
\* last first, each restored as a patch of the values it replaced.
Rollback ==
  /\ Free /\ state \in {"applying", "verifying", "applied"}
  /\ undo' = [undo EXCEPT !.on = TRUE, !.item = Len(saved)]
  /\ UNCHANGED <<live, gone, applied, state, plan, saved, thread, faults, history>>

UndoNext(done, failed) ==
  undo' = [undo EXCEPT !.item = @ - 1, !.done = @ \cup done, !.failed = @ \/ failed]

UndoItem ==
  /\ undo.on /\ undo.item > 0 /\ thread["change"].at = "idle"
  /\ ~saved[undo.item].restored
  /\ Read("change", saved[undo.item].previous)

\* An item restored before is left; without the scope the error is noted.
UndoSkip ==
  /\ undo.on /\ undo.item > 0 /\ thread["change"].at = "idle"
  /\ saved[undo.item].restored \/ gone
  /\ UndoNext({}, ~saved[undo.item].restored)
  /\ UNCHANGED <<live, gone, applied, state, plan, saved, thread, faults, history>>

UndoItemDone ==
  /\ undo.on /\ thread["change"].at = "save"
  /\ UndoNext({undo.item}, FALSE)
  /\ thread' = [thread EXCEPT !["change"] = Idle]
  /\ UNCHANGED <<live, gone, applied, state, plan, saved, faults, history>>

\* The two commits that end a rollback.
UndoSave ==
  /\ undo.on /\ undo.item = 0 /\ undo.done # {}
  /\ saved' = [i \in 1..Len(saved) |-> [saved[i] EXCEPT !.restored = @ \/ i \in undo.done]]
  /\ undo' = [undo EXCEPT !.done = {}]
  /\ UNCHANGED <<live, gone, applied, state, plan, thread, faults, history>>

UndoClose ==
  /\ undo.on /\ undo.item = 0 /\ undo.done = {}
  /\ state' = "rolled_back"
  /\ undo' = [undo EXCEPT !.on = FALSE]
  /\ UNCHANGED <<live, gone, applied, plan, saved, thread, faults, history>>

(***************************************************************************)
(* Failures and the world.                                                 *)
(***************************************************************************)
\* An attempt ends with an error: the request answers it; an item is tried again
\* on the next tick, from its read; a rollback notes the error and goes on.
Failed(w) ==
  /\ thread[w].at = "write"
  /\ broken' = broken \cup Wrote(w)
  /\ thread' = [thread EXCEPT ![w] = [Idle EXCEPT !.at = IF w = "change" THEN "idle" ELSE "end"]]
  /\ IF w = "change" /\ undo.on THEN UndoNext({}, TRUE) ELSE UNCHANGED undo
  /\ UNCHANGED <<live, gone, applied, state, plan, saved, outside, crossed>>

Refused(w) ==
  /\ gone \/ \E n \in Name : Clash(w, n)
  /\ Failed(w) /\ UNCHANGED faults

CallFails(w) ==
  /\ faults < MaxFaults /\ faults' = faults + 1
  /\ Failed(w)

Crash ==
  /\ faults < MaxFaults
  /\ faults' = faults + 1
  /\ broken' = broken \cup UNION {Wrote(w) : w \in {v \in Writer :
                 thread[v].at = "write" \/ (thread[v].at = "save" /\ ~undo.on)}}
  /\ thread' = [w \in Writer |-> IF thread[w].at = "idle" THEN thread[w]
                                 ELSE [Idle EXCEPT !.at = IF w = "change" THEN "idle" ELSE "end"]]
  /\ undo' = [NoUndo EXCEPT !.failed = undo.failed] /\ diff' = NoDiff
  /\ UNCHANGED <<live, gone, applied, state, base, shown, saved, outside, crossed>>

\* Somebody edits a variable in the dashboard, once (a bound).
Outside(n) ==
  /\ outside = {}
  /\ \E v \in Value \cup {None} : live' = [live EXCEPT ![n] = v]
  /\ outside' = outside \cup {n}
  /\ crossed' = IF Started THEN crossed \cup {n} ELSE crossed
  /\ UNCHANGED <<gone, applied, change, thread, faults, broken>>

ScopeDeleted ==
  /\ ~gone /\ gone' = TRUE
  /\ UNCHANGED <<live, applied, change, thread, faults, history>>

ChangeStep ==
  \/ \E n \in Name : Write("change", n)
  \/ Record("change") \/ SaveItem \/ RunItem \/ RunDone
  \/ Refused("change") \/ UndoItem \/ UndoItemDone \/ UndoSkip \/ UndoSave \/ UndoClose

Next ==
  \/ ChangeStep \/ PlanBase \/ PlanDiff \/ PlanSave \/ PlanRefused \/ Compare \/ Start \/ VerifyPassed \/ Rollback
  \/ \E r \in Request : Gate(r) \/ PatchDirectly(r) \/ Record(r) \/ \E n \in Name : Write(r, n)
  \/ \E w \in Writer : Refused(w) \/ CallFails(w)
  \/ Crash \/ ScopeDeleted \/ \E n \in Name : Outside(n)

\* The scheduler comes back every tick_s, and openBalena answers each call.
Spec == Init /\ [][Next]_vars /\ WF_vars(ChangeStep)

(***************************************************************************)
(* Properties.                                                             *)
(***************************************************************************)
\* What a change does when it starts is what its approvers were shown: a write
\* between the reads of base and diff, or after them, makes it stale.  One that
\* falls between the comparison and the start (changes.py:631-633) is missed, as
\* are two that undo each other around the diff: of two requests that patch one
\* name, or of a request and an edit.
Directly == UNION {DOMAIN Direct[r] : r \in Request}
Twice    == {n \in Name : \E r, s \in Request : r # s /\ n \in DOMAIN Direct[r] \cap DOMAIN Direct[s]}
DiffIsApplied ==
  [][state # "applying" /\ state' = "applying"
       => \A n \in Name \ (crossed \cup Twice \cup (outside \cap Directly)) : shown[n] \subseteq {live[n]}]_vars

\* A rollback that met no error leaves every name as it was when the change was
\* planned, however many items patched it, whatever failed on the way, unless
\* somebody else wrote it meanwhile, or a patch of it was cut short: the retry
\* then takes the half-written values for the previous ones (changes.py:678).
UndoRestores ==
  [][state # "rolled_back" /\ state' = "rolled_back" /\ ~undo.failed
       => \A i \in 1..Len(saved) : \A n \in DOMAIN Items[i] \ (crossed \cup broken) :
            live[n] = base[n]]_vars

\* drift() says "changed outside the API" of a name that nobody is patching only
\* when it was, or when a patch of it was cut short or crossed another: calls
\* and record agree however patches, items and rollbacks follow each other.
DriftIsOutside ==
  \A n \in Drift : Settled(n) => n \in outside \cup broken

\* A change that started does not stay applying: failing calls are retried, an
\* interrupted rollback can be asked for again.  A deleted scope is the
\* exception, its item fails on every tick until an operator rolls back.
EnvChangeEnds == (state = "applying") ~> (state # "applying" \/ gone)
=============================================================================
