---------------------------- MODULE EnvPatch_proofs ----------------------------
(***************************************************************************)
(* For any patches, requests and failures: drift blames an edit outside    *)
(* the API only for one, or for a patch that was cut short or crossed      *)
(* another; a rollback without errors gives back the values the change     *)
(* was planned on; and what starts is what was shown.                      *)
(***************************************************************************)
EXTENDS EnvPatch, SequenceTheorems, WellFoundedInduction, TLAPS

-----------------------------------------------------------------------------
(* The inductive invariant.                                                *)

Entry   == [previous : Patch, restored : BOOLEAN]
Threads == [at : {"idle", "gated", "plan", "start", "write", "save", "end"}, patch : Patch \cup {NoPatch},
            current : Rows, todo : SUBSET Name]
Diffs   == [items : 0..Len(Items), shown : Shown]
own     == thread["change"]

ThreadsTyped ==
  /\ thread \in [Writer -> Threads]
  /\ \A w \in Writer : thread[w].todo \subseteq DOMAIN thread[w].patch

DataTyped ==
  /\ live \in Rows /\ gone \in BOOLEAN /\ base \in Rows /\ shown \in Shown
  /\ diff \in Diffs
  /\ applied \in [Name -> Value \cup {None, NoRow}]
  /\ state \in {"draft", "planned", "stale", "applying", "verifying", "applied", "rolled_back"}
  /\ saved \in Seq(Entry) /\ Len(saved) <= Len(Items)
  /\ \A i \in 1..Len(saved) : DOMAIN saved[i].previous = DOMAIN Items[i]
  /\ undo \in [on : BOOLEAN, item : 0..Len(saved), done : SUBSET (1..Len(Items)), failed : BOOLEAN]
  /\ faults \in 0..MaxFaults
  /\ outside \subseteq Name /\ crossed \subseteq Name /\ broken \subseteq Name

Typed == ThreadsTyped /\ DataTyped

\* The change writes the item its cursor or its rollback is at, in a state that allows it.
Underway == state \in {"applying", "verifying", "applied"}
ChangeFits ==
  /\ \A r \in Request : thread[r].at \in {"idle", "gated", "write", "end"}
  /\ own.at \notin {"gated", "end"} /\ (own.at = "save" => own.todo = {})
  /\ ~undo.on => undo.done = {}
  /\ undo.on => Underway /\ own.at \in {"idle", "write", "save"}
  /\ own.at \in {"write", "save"} =>
       IF undo.on
         THEN undo.item > 0 /\ ~saved[undo.item].restored /\ own.patch = saved[undo.item].previous
         ELSE state = "applying" /\ Cursor <= Len(Items) /\ own.patch = Items[Cursor]
  /\ own.at = "plan" => state \in {"draft", "planned", "stale"}
  /\ own.at = "start" => state = "planned"
  /\ state \in {"draft", "planned", "stale"} => saved = <<>>
  /\ state \in {"verifying", "applied"} => Len(saved) = Len(Items)

\* Openbalena has what a writer read, or what it wrote, of each name of its patch,
\* or somebody else wrote it.
Has(w, n) == live[n] = IF n \in thread[w].todo THEN thread[w].current[n] ELSE thread[w].patch[n]
WritesFit ==
  \A w \in Writer : \A n \in DOMAIN thread[w].patch \ (outside \cup broken) :
    thread[w].at = "write" => Has(w, n)

\* The record is what openBalena has, but for names written and not yet recorded.
Unrecorded(n) == \E w \in Writer : thread[w].at = "write" /\ n \in Wrote(w)
RecordFits ==
  \A n \in Name \ (outside \cup broken) : Unrecorded(n) \/ applied[n] \in {NoRow, live[n]}

IInv == Typed /\ ChangeFits /\ WritesFit /\ RecordFits

-----------------------------------------------------------------------------
(* The values the change was planned on come back.                         *)

Clean         == Name \ (crossed \cup broken)
Pending(j, n) == ~saved[j].restored /\ n \in DOMAIN Items[j]
First(j, n)   == Pending(j, n) /\ \A k \in 1..(j - 1) : ~Pending(k, n)
Restored(n)   == \A j \in 1..Len(saved) : ~Pending(j, n)
Patched(n)    == \E i \in 1..Len(Items) : n \in DOMAIN Items[i]
Running(n)    == ~undo.on /\ own.at \in {"write", "save"} /\ n \in DOMAIN own.patch

\* The first item that is still to restore has the planned value of a name.
PreviousFits ==
  Underway => \A n \in Clean : \A j \in 1..Len(saved) : First(j, n) => saved[j].previous[n] = base[n]

\* A name that no item has to restore is as planned, but for the item that runs.
RestoredFits ==
  Underway => \A n \in Clean :
    Patched(n) /\ Restored(n) =>
      /\ Running(n) => own.current[n] = base[n]
      /\ ~Running(n) \/ n \in own.todo => live[n] = base[n]

\* A rollback in progress has restored the items behind it.
UndoFits ==
  undo.on =>
    /\ \A n \in Clean : \A j \in 1..Len(saved) : First(j, n) /\ j > undo.item => live[n] = base[n]
    /\ \A j \in 1..Len(saved) : j > undo.item => saved[j].restored \/ j \in undo.done

OwnFits ==
  /\ own.at \in {"write", "save"} => \A n \in DOMAIN own.patch \ (crossed \cup broken) : Has("change", n)
  /\ own.at = "start" => \A n \in Name \ crossed : live[n] = base[n]

BackInv == OwnFits /\ (~undo.failed => PreviousFits /\ RestoredFits /\ UndoFits)

-----------------------------------------------------------------------------
(* Patches and threads.                                                    *)

\* Every non-empty set of natural numbers has a least element.
LEMMA LeastNat ==
  ASSUME NEW T \in SUBSET Nat, T # {}
  PROVE  \E n \in T : \A m \in T : n <= m
<1> DEFINE less == OpToRel(<, Nat)
<1>1. PICK n \in T : \A m \in T : ~ (<<m, n>> \in less)
  <2> HIDE DEF less
  <2>1. IsWellFoundedOn(less, Nat)
    BY NatLessThanWellFounded DEF less
  <2> QED BY <2>1, WFMin
<1>2. \A m \in T : n <= m
  <2> SUFFICES ASSUME NEW m \in T PROVE n <= m
    OBVIOUS
  <2>1. ~ (m < n)
    BY <1>1 DEF OpToRel
  <2> QED BY <2>1
<1> QED BY <1>2

\* A patch names variables, and has a value or None for each.
LEMMA PatchFacts ==
  ASSUME NEW p \in Patch
  PROVE  DOMAIN p \in SUBSET Name /\ DOMAIN p # {} /\ p \in [DOMAIN p -> Value \cup {None}]
BY DEF Patch

\* Such a function is a patch.
LEMMA PatchOf ==
  ASSUME NEW S \in SUBSET Name, S # {}, NEW f \in [S -> Value \cup {None}]
  PROVE  f \in Patch /\ DOMAIN f = S
BY DEF Patch

\* No patch names nothing.
LEMMA NoPatchFacts == DOMAIN NoPatch = {}
BY DEF NoPatch

\* A thread that has ended, one way or the other.
LEMMA IdleTyped ==
  ASSUME NEW a \in {"idle", "gated", "plan", "start", "write", "save", "end"}
  PROVE  LET q == [Idle EXCEPT !.at = a] IN
         q \in Threads /\ q.at = a /\ q.todo = {} /\ q.patch = NoPatch
BY DEF Idle, Threads, Rows

\* A thread that has not begun, or is between two steps of the change.
LEMMA IdleItself == Idle \in Threads /\ Idle.at = "idle" /\ Idle.todo = {} /\ Idle.patch = NoPatch
BY DEF Idle, Threads, Rows

Only(w, q) == thread' = [thread EXCEPT ![w] = q]

\* One thread moves, the others stand.
LEMMA ThreadMoves ==
  ASSUME ThreadsTyped, NEW w \in Writer, NEW q \in Threads, q.todo \subseteq DOMAIN q.patch, Only(w, q)
  PROVE  /\ ThreadsTyped' /\ thread'[w] = q
         /\ \A v \in Writer : v # w => thread'[v] = thread[v]
<1>1. thread' \in [Writer -> Threads] /\ thread'[w] = q /\ \A v \in Writer : v # w => thread'[v] = thread[v]
  BY DEF Only, ThreadsTyped
<1> QED BY <1>1 DEF ThreadsTyped

\* The change is a writer, and no request.
LEMMA Writers == "change" \in Writer /\ \A r \in Request : r \in Writer /\ r # "change"
BY EnvConstantsOK DEF Writer

\* The items are patches.
LEMMA ItemsTyped == Len(Items) \in Nat /\ \A i \in 1..Len(Items) : Items[i] \in Patch
BY EnvConstantsOK

\* What a writer's thread holds.
LEMMA ThreadFacts ==
  ASSUME Typed, NEW w \in Writer
  PROVE  /\ thread[w] \in Threads /\ thread[w].todo \subseteq DOMAIN thread[w].patch
         /\ DOMAIN thread[w].patch \subseteq Name /\ thread[w].current \in Rows
         /\ \A n \in DOMAIN thread[w].patch : thread[w].patch[n] \in Value \cup {None}
<1>1. thread[w] \in Threads /\ thread[w].todo \subseteq DOMAIN thread[w].patch
  BY DEF Typed, ThreadsTyped
<1>2. thread[w].patch \in Patch \cup {NoPatch} /\ thread[w].current \in Rows
  BY <1>1 DEF Threads
<1> QED BY <1>1, <1>2, PatchFacts, NoPatchFacts

\* A plan begins with nothing read and nothing shown.
LEMMA NoDiffTyped == NoDiff \in Diffs /\ NoDiff.shown \in Shown /\ \A n \in Name : NoDiff.shown[n] = {}
BY ItemsTyped DEF NoDiff, Diffs, Shown

\* The invariant implies the type invariant of the runs.
LEMMA InvTyped == IInv => TypeOK
<1> SUFFICES ASSUME IInv PROVE TypeOK
  OBVIOUS
<1>1. \A i \in 1..Len(saved) : saved[i].previous \in Patch
  <2>1. \A i \in 1..Len(saved) : saved[i] \in Entry
    BY ElementOfSeq DEF IInv, Typed, DataTyped
  <2> QED BY <2>1 DEF Entry
<1>2. \A w \in Writer :
        /\ thread[w].at \in {"idle", "gated", "plan", "start", "write", "save", "end"}
        /\ thread[w].patch \in Patch \cup {NoPatch} /\ thread[w].current \in Rows
  BY DEF IInv, Typed, ThreadsTyped, Threads
<1> QED BY <1>1, <1>2 DEF IInv, Typed, ThreadsTyped, DataTyped, TypeOK, Diffs

\* Nothing has been written or recorded at first.
LEMMA InvInit == Init => IInv
<1> SUFFICES ASSUME Init PROVE IInv
  OBVIOUS
<1> USE EnvConstantsOK, IdleItself DEF Init
<1>1. thread \in [Writer -> Threads] /\ \A w \in Writer : thread[w] = Idle
  OBVIOUS
<1>2. saved \in Seq(Entry) /\ Len(saved) = 0
  OBVIOUS
<1>3. undo \in [on : BOOLEAN, item : 0..Len(saved), done : SUBSET (1..Len(Items)), failed : BOOLEAN]
  BY <1>2 DEF NoUndo
<1>4. Typed
  <2>1. applied \in [Name -> Value \cup {None, NoRow}] /\ faults \in 0..MaxFaults
    OBVIOUS
  <2>2. \A w \in Writer : thread[w].todo \subseteq DOMAIN thread[w].patch
    BY <1>1
  <2>3. Len(saved) <= Len(Items) /\ \A i \in 1..Len(saved) : DOMAIN saved[i].previous = DOMAIN Items[i]
    BY <1>2, ItemsTyped
  <2> QED BY <1>1, <1>2, <1>3, <2>1, <2>2, <2>3, NoDiffTyped DEF Typed, ThreadsTyped, DataTyped
<1>5. ChangeFits
  BY <1>1, <1>2, Writers DEF ChangeFits, own, NoUndo
<1>6. WritesFit /\ RecordFits
  BY <1>1 DEF WritesFit, RecordFits
<1> QED BY <1>4, <1>5, <1>6 DEF IInv

-----------------------------------------------------------------------------
(* What a writer's steps do to its thread, and that they keep it typed.    *)

\* Read: a patch begins with every name still to write.
LEMMA ReadMoves ==
  ASSUME Typed, NEW w \in Writer, NEW p \in Patch, Read(w, p)
  PROVE  LET q == [at |-> "write", patch |-> p, current |-> live, todo |-> DOMAIN p] IN
         Only(w, q) /\ q \in Threads /\ ThreadsTyped' /\ DataTyped'
<1> DEFINE q == [at |-> "write", patch |-> p, current |-> live, todo |-> DOMAIN p]
<1>1. q \in Threads /\ q.todo \subseteq DOMAIN q.patch
  BY PatchFacts DEF Typed, DataTyped, Threads
<1>2. Only(w, q) /\ UNCHANGED <<live, gone, applied, change, faults, history>>
  BY DEF Read, Only
<1> HIDE DEF q
<1>3. ThreadsTyped' /\ DataTyped'
  BY <1>1, <1>2, ThreadMoves DEF Typed, DataTyped, change, plan, history
<1> QED BY <1>1, <1>2, <1>3 DEF q

\* What a write leaves of a name's value: what was written, or what is there.
LEMMA PutFacts ==
  ASSUME Typed, NEW w \in Writer, NEW n \in Name, Write(w, n)
  PROVE  /\ n \in thread[w].todo /\ thread[w].at = "write"
         /\ live' \in Rows /\ \A m \in Name : m # n => live'[m] = live[m]
         /\ live[n] = thread[w].current[n] => live'[n] = thread[w].patch[n]
<1>1. n \in thread[w].todo /\ thread[w].at = "write" /\ thread[w].patch[n] \in Value \cup {None} /\ live \in Rows
  BY ThreadFacts DEF Write, Typed, DataTyped
<1>2. CASE thread[w].patch[n] = thread[w].current[n]
  BY <1>1, <1>2 DEF Write
<1>3. CASE thread[w].patch[n] # thread[w].current[n]
  <2>1. PICK v \in Put(n, thread[w].current[n], thread[w].patch[n]) : live' = [live EXCEPT ![n] = v]
    BY <1>3 DEF Write
  <2>2. v = thread[w].patch[n] \/ (v = live[n] /\ live[n] # thread[w].current[n])
    BY <2>1 DEF Put
  <2>3. v \in Value \cup {None}
    BY <1>1, <2>2 DEF Rows
  <2> QED BY <1>1, <2>1, <2>2, <2>3 DEF Rows
<1> QED BY <1>2, <1>3

\* Write: one name less.
LEMMA WriteMoves ==
  ASSUME Typed, NEW w \in Writer, NEW n \in Name, Write(w, n)
  PROVE  LET q == [thread[w] EXCEPT !.todo = @ \ {n}] IN
         /\ Only(w, q) /\ ThreadsTyped' /\ DataTyped' /\ q \in Threads
         /\ q.at = thread[w].at /\ q.patch = thread[w].patch /\ q.current = thread[w].current
         /\ q.todo = thread[w].todo \ {n}
<1> DEFINE q == [thread[w] EXCEPT !.todo = @ \ {n}]
<1>1. /\ q \in Threads /\ q.todo \subseteq DOMAIN q.patch
      /\ q.at = thread[w].at /\ q.patch = thread[w].patch /\ q.current = thread[w].current
      /\ q.todo = thread[w].todo \ {n}
  BY ThreadFacts DEF Threads
<1>2. Only(w, q) /\ UNCHANGED <<gone, applied, change, faults, outside>>
      /\ broken' \subseteq broken \cup {n} /\ crossed' \subseteq crossed \cup {n}
  BY DEF Write, Only
<1> HIDE DEF q
<1>3. ThreadsTyped' /\ DataTyped'
  BY <1>1, <1>2, ThreadMoves, PutFacts DEF Typed, DataTyped, change, plan
<1> QED BY <1>1, <1>2, <1>3 DEF q

\* Record: the thread goes on to the save, or ends.
LEMMA RecordMoves ==
  ASSUME Typed, NEW w \in Writer, Record(w)
  PROVE  LET q == [thread[w] EXCEPT !.at = IF w = "change" THEN "save" ELSE "end"] IN
         /\ Only(w, q) /\ ThreadsTyped' /\ DataTyped' /\ q \in Threads
         /\ q.at = (IF w = "change" THEN "save" ELSE "end")
         /\ q.patch = thread[w].patch /\ q.current = thread[w].current /\ q.todo = {}
<1> DEFINE q == [thread[w] EXCEPT !.at = IF w = "change" THEN "save" ELSE "end"]
<1>1. /\ q \in Threads /\ q.todo \subseteq DOMAIN q.patch
      /\ q.at = (IF w = "change" THEN "save" ELSE "end")
      /\ q.patch = thread[w].patch /\ q.current = thread[w].current /\ q.todo = {}
  BY ThreadFacts DEF Threads, Record
<1>2. Only(w, q) /\ UNCHANGED <<live, gone, change, faults, history>>
  BY DEF Record, Only
<1>3. applied' \in [Name -> Value \cup {None, NoRow}]
  BY ThreadFacts DEF Record, Typed, DataTyped
<1> HIDE DEF q
<1>4. ThreadsTyped' /\ DataTyped'
  BY <1>1, <1>2, <1>3, ThreadMoves DEF Typed, DataTyped, change, plan, history
<1> QED BY <1>1, <1>2, <1>4 DEF q

\* An attempt that ends with an error: the thread is free, a rollback goes on.
LEMMA FailedMoves ==
  ASSUME Typed, ChangeFits, NEW w \in Writer, Failed(w), faults' \in 0..MaxFaults
  PROVE  LET q == [Idle EXCEPT !.at = IF w = "change" THEN "idle" ELSE "end"] IN
         /\ Only(w, q) /\ ThreadsTyped' /\ DataTyped' /\ q \in Threads
         /\ q.at = (IF w = "change" THEN "idle" ELSE "end") /\ q.patch = NoPatch /\ q.todo = {}
         /\ thread[w].at = "write"
         /\ IF w = "change" /\ undo.on
              THEN undo' = [undo EXCEPT !.item = @ - 1, !.failed = TRUE]
              ELSE undo' = undo
<1> DEFINE a == IF w = "change" THEN "idle" ELSE "end"
           q == [Idle EXCEPT !.at = a]
<1>1. q \in Threads /\ q.todo \subseteq DOMAIN q.patch /\ q.at = a /\ q.patch = NoPatch /\ q.todo = {}
  BY IdleTyped
<1>2. Only(w, q) /\ UNCHANGED <<live, gone, applied, state, plan, saved, outside, crossed>> /\ thread[w].at = "write"
  BY DEF Failed, Only
<1>3. broken' \subseteq Name
  BY ThreadFacts DEF Failed, Wrote, Typed, DataTyped
<1>4. undo \in [on : BOOLEAN, item : 0..Len(saved), done : SUBSET (1..Len(Items)), failed : BOOLEAN] /\ Len(saved) \in Nat
  BY LenProperties DEF Typed, DataTyped
<1>5. IF w = "change" /\ undo.on
       THEN undo' = [undo EXCEPT !.item = @ - 1, !.failed = TRUE] /\ undo.item > 0
       ELSE undo' = undo
  <2>1. CASE w = "change" /\ undo.on
    <3>1. undo' = [undo EXCEPT !.item = @ - 1, !.done = @ \cup {}, !.failed = @ \/ TRUE]
      BY <2>1 DEF Failed, UndoNext
    <3>2. undo.item > 0
      BY <1>2, <2>1 DEF ChangeFits, own
    <3> QED BY <1>4, <2>1, <3>1, <3>2
  <2> QED BY <2>1 DEF Failed
<1>6. undo' \in [on : BOOLEAN, item : 0..Len(saved), done : SUBSET (1..Len(Items)), failed : BOOLEAN]
  <2>1. undo.item \in 0..Len(saved) /\ (undo.item > 0 => undo.item - 1 \in 0..Len(saved))
    BY <1>4
  <2>2. CASE w = "change" /\ undo.on
    BY <1>4, <1>5, <2>1, <2>2
  <2> QED BY <1>4, <1>5, <2>2
<1> HIDE DEF q
<1>7. ThreadsTyped' /\ DataTyped'
  BY <1>1, <1>2, <1>3, <1>6, ThreadMoves DEF Typed, DataTyped, plan
<1> QED BY <1>1, <1>2, <1>5, <1>7 DEF q

-----------------------------------------------------------------------------
(* Types, and what the change's thread is about.                           *)

\* The change goes on with its own business while a request moves.
LEMMA RequestMoves ==
  ASSUME Typed, ChangeFits, NEW r \in Request, NEW q, q.at \in {"idle", "gated", "write", "end"},
         thread'[r] = q, \A v \in Writer : v # r => thread'[v] = thread[v],
         UNCHANGED <<state, saved, undo>>
  PROVE  ChangeFits'
<1>1. own' = own
  BY Writers DEF own
<1>2. \A v \in Request : thread'[v].at \in {"idle", "gated", "write", "end"}
  BY Writers DEF ChangeFits
<1> QED BY <1>1, <1>2 DEF ChangeFits, Underway, Cursor

\* The change's thread moves, and nothing else it depends on.
LEMMA OwnMoves ==
  ASSUME ChangeFits, NEW q, thread'["change"] = q, \A v \in Writer : v # "change" => thread'[v] = thread[v],
         UNCHANGED <<state, saved, undo>>,
         q.at \notin {"gated", "end"} /\ (q.at = "save" => q.todo = {}),
         undo.on => q.at \in {"idle", "write", "save"},
         q.at \in {"write", "save"} =>
           IF undo.on
             THEN undo.item > 0 /\ ~saved[undo.item].restored /\ q.patch = saved[undo.item].previous
             ELSE state = "applying" /\ Cursor <= Len(Items) /\ q.patch = Items[Cursor],
         q.at = "plan" => state \in {"draft", "planned", "stale"},
         q.at = "start" => state = "planned"
  PROVE  ChangeFits'
<1>1. \A r \in Request : thread'[r] = thread[r]
  BY Writers
<1> QED BY <1>1 DEF ChangeFits, own, Underway, Cursor

\* Every step keeps the types, and the thread of the change at its own item.
LEMMA TypedStep == IInv /\ [Next]_vars => Typed' /\ ChangeFits'
<1> SUFFICES ASSUME IInv, [Next]_vars PROVE Typed' /\ ChangeFits'
  OBVIOUS
<1>i. Typed /\ ChangeFits /\ ThreadsTyped /\ DataTyped
  BY DEF IInv, Typed
<1>u. /\ undo \in [on : BOOLEAN, item : 0..Len(saved), done : SUBSET (1..Len(Items)), failed : BOOLEAN]
      /\ Len(saved) \in Nat /\ saved \in Seq(Entry) /\ Len(Items) \in Nat /\ MaxFaults \in Nat
      /\ \A i \in 1..Len(saved) : saved[i] \in Entry /\ saved[i].previous \in Patch
  <2>1. saved \in Seq(Entry)
    BY <1>i DEF DataTyped
  <2>2. Len(saved) \in Nat /\ \A i \in 1..Len(saved) : saved[i] \in Entry
    BY <2>1, LenProperties, ElementOfSeq
  <2> QED BY <1>i, <2>1, <2>2, ItemsTyped, EnvConstantsOK DEF DataTyped, Entry
<1>20. ASSUME NEW r \in Request, Gate(r) PROVE Typed' /\ ChangeFits'
  <2> DEFINE q == [thread[r] EXCEPT !.at = "gated"]
  <2>1. Only(r, q) /\ UNCHANGED <<live, gone, applied, change, faults, history>>
    BY <1>20 DEF Gate, Only
  <2>2. q \in Threads /\ q.at = "gated" /\ q.todo \subseteq DOMAIN q.patch
    BY <1>i, ThreadFacts, Writers DEF Threads
  <2> HIDE DEF q
  <2>3. ThreadsTyped' /\ thread'[r] = q /\ \A v \in Writer : v # r => thread'[v] = thread[v]
    BY <1>i, <2>1, <2>2, ThreadMoves, Writers
  <2>4. ChangeFits'
    BY <1>i, <2>1, <2>2, <2>3, RequestMoves DEF change
  <2>5. DataTyped'
    BY <1>i, <2>1 DEF DataTyped, change, plan, history
  <2> QED BY <2>3, <2>4, <2>5 DEF Typed
<1>1. ASSUME NEW r \in Request, PatchDirectly(r) PROVE Typed' /\ ChangeFits'
  <2>1. Direct[r] \in Patch /\ Read(r, Direct[r])
    BY <1>1, EnvConstantsOK DEF PatchDirectly
  <2>2. ThreadsTyped' /\ DataTyped' /\ UNCHANGED <<state, saved, undo>>
    BY <1>i, <1>1, <2>1, ReadMoves, Writers DEF Read, change
  <2>3. thread'[r].at = "write" /\ \A v \in Writer : v # r => thread'[v] = thread[v]
    BY <1>i, <1>1, <2>1, Writers DEF Read, ThreadsTyped
  <2> QED BY <1>i, <1>1, <2>2, <2>3, RequestMoves DEF Typed
<1>2. ASSUME NEW w \in Writer, NEW n \in Name, Write(w, n) PROVE Typed' /\ ChangeFits'
  <2> DEFINE q == [thread[w] EXCEPT !.todo = @ \ {n}]
  <2>1. /\ Only(w, q) /\ ThreadsTyped' /\ DataTyped' /\ UNCHANGED <<state, saved, undo>>
        /\ q.at = "write" /\ q.patch = thread[w].patch /\ thread[w].at = "write"
    BY <1>i, <1>2, WriteMoves, PutFacts DEF Write, change
  <2>2. thread'[w] = q /\ \A v \in Writer : v # w => thread'[v] = thread[v]
    BY <1>i, <1>2, <2>1 DEF Only, ThreadsTyped
  <2> HIDE DEF q
  <2>3. CASE w \in Request
    BY <1>i, <2>1, <2>2, <2>3, RequestMoves DEF Typed
  <2>4. CASE w = "change"
    <3>1. ChangeFits'
      BY <1>i, <2>1, <2>2, <2>4, OwnMoves DEF ChangeFits, own
    <3> QED BY <2>1, <3>1 DEF Typed
  <2> QED BY <1>2, <2>3, <2>4 DEF Writer
<1>3. ASSUME NEW w \in Writer, Record(w) PROVE Typed' /\ ChangeFits'
  <2> DEFINE q == [thread[w] EXCEPT !.at = IF w = "change" THEN "save" ELSE "end"]
  <2>1. /\ Only(w, q) /\ ThreadsTyped' /\ DataTyped' /\ UNCHANGED <<state, saved, undo>>
        /\ q.at = (IF w = "change" THEN "save" ELSE "end") /\ q.patch = thread[w].patch /\ thread[w].at = "write"
        /\ q.todo = {}
    BY <1>i, <1>3, RecordMoves DEF Record, change
  <2>2. thread'[w] = q /\ \A v \in Writer : v # w => thread'[v] = thread[v]
    BY <1>i, <1>3, <2>1 DEF Only, ThreadsTyped
  <2> HIDE DEF q
  <2>3. CASE w \in Request
    BY <1>i, <2>1, <2>2, <2>3, RequestMoves, Writers DEF Typed
  <2>4. CASE w = "change"
    <3>1. ChangeFits'
      BY <1>i, <2>1, <2>2, <2>4, OwnMoves DEF ChangeFits, own
    <3> QED BY <2>1, <3>1 DEF Typed
  <2> QED BY <1>3, <2>3, <2>4 DEF Writer
<1>4. ASSUME NEW w \in Writer, Refused(w) \/ CallFails(w) PROVE Typed' /\ ChangeFits'
  <2> DEFINE q == [Idle EXCEPT !.at = IF w = "change" THEN "idle" ELSE "end"]
  <2>1. Failed(w) /\ faults' \in 0..MaxFaults /\ UNCHANGED <<state, saved>>
    <3>1. faults \in 0..MaxFaults /\ (faults < MaxFaults => faults + 1 \in 0..MaxFaults)
      BY <1>i, <1>u DEF DataTyped
    <3> QED BY <1>4, <3>1 DEF Refused, CallFails, Failed
  <2>2. /\ Only(w, q) /\ ThreadsTyped' /\ DataTyped' /\ q.at = (IF w = "change" THEN "idle" ELSE "end")
        /\ IF w = "change" /\ undo.on
             THEN undo' = [undo EXCEPT !.item = @ - 1, !.failed = TRUE]
             ELSE undo' = undo
    BY <1>i, <1>4, <2>1, FailedMoves
  <2>3. thread'[w] = q /\ \A v \in Writer : v # w => thread'[v] = thread[v]
    BY <1>i, <1>4, <2>2 DEF Only, ThreadsTyped
  <2> HIDE DEF q
  <2>4. CASE w \in Request
    BY <1>i, <2>1, <2>2, <2>3, <2>4, RequestMoves, Writers DEF Typed
  <2>5. CASE w = "change" /\ ~undo.on
    <3>1. ChangeFits'
      BY <1>i, <2>1, <2>2, <2>3, <2>5, OwnMoves
    <3> QED BY <2>2, <3>1 DEF Typed
  <2>6. CASE w = "change" /\ undo.on
    <3>1. /\ undo'.on = TRUE /\ undo'.done = undo.done /\ own' = q /\ \A r \in Request : thread'[r] = thread[r]
      BY <1>u, <2>2, <2>3, <2>6, Writers DEF own
    <3>2. ChangeFits'
      BY <1>i, <2>1, <2>2, <2>6, <3>1 DEF ChangeFits, Underway
    <3> QED BY <2>2, <3>2 DEF Typed
  <2> QED BY <1>4, <2>4, <2>5, <2>6 DEF Writer
\* The change's thread is free after the step.
<1>o. ASSUME own'.at = "idle", \A r \in Request : thread'[r].at \in {"idle", "gated", "write", "end"},
             ~undo'.on => undo'.done = {}, undo'.on => Underway',
             state' \in {"draft", "planned", "stale"} => saved' = <<>>,
             state' \in {"verifying", "applied"} => Len(saved') = Len(Items)
      PROVE  ChangeFits'
  BY <1>o DEF ChangeFits
<1>f. ASSUME thread' = [thread EXCEPT !["change"] = Idle]
      PROVE  own'.at = "idle" /\ ThreadsTyped' /\ \A r \in Request : thread'[r] = thread[r]
  <2>1. Only("change", Idle)
    BY <1>f DEF Only
  <2> QED BY <1>i, <2>1, ThreadMoves, IdleItself, Writers DEF own
<1>r. \A r \in Request : thread[r].at \in {"idle", "gated", "write", "end"}
  BY <1>i DEF ChangeFits
<1>5. CASE PlanBase
  <2> DEFINE q == [own EXCEPT !.at = "plan", !.current = live]
  <2>1. /\ Free /\ state \in {"draft", "planned", "stale"} /\ Only("change", q)
        /\ UNCHANGED <<live, gone, applied, change, faults, history>>
    BY <1>5 DEF PlanBase, Only, own
  <2>2. q \in Threads /\ q.at = "plan" /\ q.todo \subseteq DOMAIN q.patch
    BY <1>i, ThreadFacts, Writers DEF Threads, own, DataTyped
  <2> HIDE DEF q
  <2>3. ThreadsTyped' /\ thread'["change"] = q /\ \A v \in Writer : v # "change" => thread'[v] = thread[v]
    BY <1>i, <2>1, <2>2, ThreadMoves, Writers
  <2>4. ChangeFits'
    BY <1>i, <2>1, <2>2, <2>3, OwnMoves DEF Free, change
  <2>5. DataTyped'
    BY <1>i, <2>1 DEF DataTyped, change, plan, history
  <2> QED BY <2>3, <2>4, <2>5 DEF Typed
<1>6. CASE PlanDiff
  <2>1. UNCHANGED <<live, gone, applied, state, base, shown, saved, undo, thread, faults, history>>
    BY <1>6 DEF PlanDiff
  <2>2. diff' \in Diffs
    <3>1. diff.items \in 0..Len(Items) /\ diff.items < Len(Items) /\ diff.shown \in Shown
      BY <1>i, <1>6 DEF PlanDiff, DataTyped, Diffs
    <3>2. diff.items + 1 \in 0..Len(Items)
      BY <1>u, <3>1
    <3>3. \A n \in Name : diff.shown[n] \cup {v \in {live[n]} : n \in DOMAIN Items[diff.items + 1]}
                            \in SUBSET (Value \cup {None})
      BY <1>i, <3>1 DEF DataTyped, Rows, Shown
    <3>4. [n \in Name |-> diff.shown[n] \cup {v \in {live[n]} : n \in DOMAIN Items[diff.items + 1]}] \in Shown
      BY <3>3 DEF Shown
    <3> QED BY <1>6, <3>2, <3>4 DEF PlanDiff, Diffs
  <2>3. DataTyped' /\ ThreadsTyped'
    BY <1>i, <2>1, <2>2 DEF DataTyped, ThreadsTyped, history
  <2>4. ChangeFits'
    BY <1>i, <2>1 DEF ChangeFits, Underway, Cursor, own
  <2> QED BY <2>3, <2>4 DEF Typed
<1>21. CASE PlanSave
  <2>1. /\ own.at = "plan" /\ state' = "planned" /\ base' = own.current /\ shown' = diff.shown
        /\ diff' = NoDiff /\ thread' = [thread EXCEPT !["change"] = Idle]
        /\ UNCHANGED <<live, gone, applied, saved, undo, faults, history>>
    BY <1>21 DEF PlanSave, own
  <2>2. own.current \in Rows /\ diff.shown \in Shown
    BY <1>i, ThreadFacts, Writers DEF own, DataTyped, Diffs
  <2>3. DataTyped'
    BY <1>i, <2>1, <2>2, NoDiffTyped DEF DataTyped, history
  <2>4. saved = <<>> /\ ~undo.on /\ undo.done = {}
    BY <1>i, <2>1 DEF ChangeFits, Underway
  <2> QED BY <1>f, <1>o, <1>r, <2>1, <2>3, <2>4 DEF Typed
<1>22. CASE PlanRefused
  <2>1. /\ own.at = "plan" /\ diff' = NoDiff /\ thread' = [thread EXCEPT !["change"] = Idle]
        /\ UNCHANGED <<live, gone, applied, state, base, shown, saved, undo, faults, history>>
    BY <1>22 DEF PlanRefused, own
  <2>2. DataTyped'
    BY <1>i, <2>1, NoDiffTyped DEF DataTyped, history
  <2>3. state \in {"draft", "planned", "stale"} /\ saved = <<>> /\ ~undo.on /\ undo.done = {}
    BY <1>i, <2>1 DEF ChangeFits, Underway
  <2> QED BY <1>f, <1>o, <1>r, <2>1, <2>2, <2>3 DEF Typed
<1>7. CASE Compare
  <2>1. /\ Free /\ state = "planned" /\ UNCHANGED <<live, gone, applied, plan, saved, undo, faults, history>>
        /\ \/ state' \in {"planned", "stale"} /\ UNCHANGED thread
           \/ Only("change", [own EXCEPT !.at = "start"]) /\ UNCHANGED state
    BY <1>7 DEF Compare, Only, own
  <2>2. DataTyped'
    BY <1>i, <2>1 DEF DataTyped, plan, history
  <2>3. CASE state' \in {"planned", "stale"} /\ UNCHANGED thread
    <3>1. saved = <<>> /\ ~undo.on /\ undo.done = {} /\ own'.at = "idle" /\ ThreadsTyped'
      BY <1>i, <2>1, <2>3 DEF ChangeFits, Free, own, ThreadsTyped
    <3> QED BY <1>o, <1>r, <2>1, <2>2, <2>3, <3>1 DEF Typed
  <2>4. CASE Only("change", [own EXCEPT !.at = "start"]) /\ UNCHANGED state
    <3> DEFINE q == [own EXCEPT !.at = "start"]
    <3>1. q \in Threads /\ q.at = "start" /\ q.todo \subseteq DOMAIN q.patch
      BY <1>i, ThreadFacts, Writers DEF Threads, own
    <3> HIDE DEF q
    <3>2. Only("change", q)
      BY <2>4 DEF q
    <3>3. ThreadsTyped' /\ thread'["change"] = q /\ \A v \in Writer : v # "change" => thread'[v] = thread[v]
      BY <1>i, <3>1, <3>2, ThreadMoves, Writers
    <3>4. ChangeFits'
      BY <1>i, <2>1, <2>4, <3>1, <3>3, OwnMoves DEF Free
    <3> QED BY <2>2, <3>3, <3>4 DEF Typed
  <2> QED BY <2>1, <2>3, <2>4
<1>8. CASE Start
  <2>1. /\ own.at = "start" /\ state' = "applying" /\ thread' = [thread EXCEPT !["change"] = Idle]
        /\ UNCHANGED <<live, gone, applied, plan, saved, undo, faults, history>>
    BY <1>8 DEF Start, own
  <2>2. DataTyped' /\ Underway'
    BY <1>i, <2>1 DEF DataTyped, plan, history, Underway
  <2>3. ~undo.on => undo.done = {}
    BY <1>i DEF ChangeFits
  <2> QED BY <1>f, <1>o, <1>r, <2>1, <2>2, <2>3 DEF Typed
\* The change reads the scope, for an item or to restore one.
<1>9. ASSUME NEW p \in Patch, Read("change", p), own.at = "idle",
             IF undo.on
               THEN undo.item > 0 /\ ~saved[undo.item].restored /\ p = saved[undo.item].previous
               ELSE state = "applying" /\ Cursor <= Len(Items) /\ p = Items[Cursor]
      PROVE  Typed' /\ ChangeFits'
  <2> DEFINE q == [at |-> "write", patch |-> p, current |-> live, todo |-> DOMAIN p]
  <2>1. Only("change", q) /\ ThreadsTyped' /\ DataTyped' /\ UNCHANGED <<state, saved, undo>>
    BY <1>i, <1>9, ReadMoves, Writers DEF Read, change
  <2>2. q.at = "write" /\ q.patch = p
    OBVIOUS
  <2> HIDE DEF q
  <2>3. thread'["change"] = q /\ \A v \in Writer : v # "change" => thread'[v] = thread[v]
    BY <1>i, <2>1, Writers DEF Only, ThreadsTyped
  <2>4. ChangeFits'
    BY <1>i, <1>9, <2>1, <2>2, <2>3, OwnMoves
  <2> QED BY <2>1, <2>4 DEF Typed
<1>10. CASE RunItem
  <2>1. Items[Cursor] \in Patch
    BY <1>10, <1>u, ItemsTyped DEF RunItem, Cursor
  <2> QED BY <1>9, <1>10, <2>1 DEF RunItem, Free, own
<1>11. CASE UndoItem
  <2>1. undo.item \in 1..Len(saved) /\ saved[undo.item].previous \in Patch
    BY <1>11, <1>u DEF UndoItem
  <2> QED BY <1>9, <1>11, <2>1 DEF UndoItem, own
<1>12. CASE SaveItem
  <2> DEFINE e == [previous |-> Previous, restored |-> FALSE]
  <2>1. /\ own.at = "save" /\ ~undo.on /\ saved' = Append(saved, e) /\ thread' = [thread EXCEPT !["change"] = Idle]
        /\ UNCHANGED <<live, gone, applied, state, plan, undo, faults, history>>
    BY <1>12 DEF SaveItem, own
  <2>2. /\ state = "applying" /\ Cursor <= Len(Items) /\ own.patch = Items[Cursor] /\ own.patch \in Patch
        /\ own.current \in Rows /\ undo.done = {}
    BY <1>i, <1>u, <2>1, ItemsTyped, ThreadFacts, Writers DEF ChangeFits, Cursor, own
  <2>3. Previous \in Patch /\ DOMAIN Previous = DOMAIN Items[Cursor]
    <3>1. /\ DOMAIN own.patch \in SUBSET Name /\ DOMAIN own.patch # {}
          /\ Previous \in [DOMAIN own.patch -> Value \cup {None}]
      BY <2>2, PatchFacts DEF Previous, own, Rows
    <3> QED BY <2>2, <3>1, PatchOf
  <2>4. e \in Entry /\ e.previous = Previous
    BY <2>3 DEF Entry
  <2> HIDE DEF e
  <2>5. /\ saved' \in Seq(Entry) /\ Len(saved') = Len(saved) + 1 /\ saved'[Len(saved) + 1] = e
        /\ \A i \in 1..Len(saved) : saved'[i] = saved[i]
    BY <1>u, <2>1, <2>4, AppendProperties
  <2>6. Len(saved') <= Len(Items) /\ \A i \in 1..Len(saved') : DOMAIN saved'[i].previous = DOMAIN Items[i]
    <3>1. \A i \in 1..Len(saved') : i \in 1..Len(saved) \/ i = Cursor
      BY <1>u, <2>5 DEF Cursor
    <3> QED BY <1>i, <1>u, <2>2, <2>3, <2>4, <2>5, <3>1 DEF Cursor, DataTyped
  <2>7. undo' \in [on : BOOLEAN, item : 0..Len(saved'), done : SUBSET (1..Len(Items)), failed : BOOLEAN]
    BY <1>u, <2>1, <2>5
  <2>8. DataTyped'
    BY <1>i, <2>1, <2>5, <2>6, <2>7 DEF DataTyped, plan, history
  <2> QED BY <1>f, <1>o, <1>r, <2>1, <2>2, <2>8 DEF Typed
<1>13. CASE RunDone \/ VerifyPassed \/ Rollback
  <2>1. /\ Free /\ UNCHANGED <<live, gone, applied, plan, saved, thread, faults, history>>
        /\ \/ undo' = undo /\ state' \in {"verifying", "applied"} /\ Len(saved) = Len(Items)
           \/ undo' = [undo EXCEPT !.on = TRUE, !.item = Len(saved)] /\ state' = state /\ Underway
    <3>1. CASE RunDone
      BY <1>i, <1>u, <3>1 DEF RunDone, Cursor, DataTyped
    <3>2. CASE VerifyPassed \/ Rollback
      BY <1>i, <3>2 DEF VerifyPassed, Rollback, Underway, ChangeFits
    <3> QED BY <1>13, <3>1, <3>2
  <2>2. undo' \in [on : BOOLEAN, item : 0..Len(saved), done : SUBSET (1..Len(Items)), failed : BOOLEAN]
    <3>1. Len(saved) \in 0..Len(saved)
      BY <1>u
    <3>2. CASE undo' = undo
      BY <1>u, <3>2
    <3>3. CASE undo' = [undo EXCEPT !.on = TRUE, !.item = Len(saved)]
      BY <1>u, <3>1, <3>3
    <3> QED BY <2>1, <3>2, <3>3
  <2>3. DataTyped'
    BY <1>i, <2>1, <2>2 DEF DataTyped, plan, history
  <2>4. own'.at = "idle" /\ ThreadsTyped' /\ \A r \in Request : thread'[r] = thread[r]
    BY <1>i, <2>1 DEF Free, own, ThreadsTyped
  <2>5. /\ ~undo'.on => undo'.done = {}
        /\ undo'.on => Underway'
        /\ state' \in {"draft", "planned", "stale"} => saved' = <<>>
        /\ state' \in {"verifying", "applied"} => Len(saved') = Len(Items)
    BY <1>i, <1>u, <2>1 DEF Free, Underway, ChangeFits
  <2> QED BY <1>o, <1>r, <2>3, <2>4, <2>5 DEF Typed
\* A rollback goes on to the item before.
<1>14. ASSUME undo.on, undo.item > 0, NEW d \in {{}, {undo.item}}, NEW b \in BOOLEAN, UndoNext(d, b)
       PROVE  /\ undo' \in [on : BOOLEAN, item : 0..Len(saved), done : SUBSET (1..Len(Items)), failed : BOOLEAN]
              /\ undo'.on = TRUE
  <2>1. undo.item - 1 \in 0..Len(saved) /\ d \subseteq 1..Len(Items)
    BY <1>i, <1>u, <1>14 DEF DataTyped
  <2>2. undo' = [undo EXCEPT !.item = @ - 1, !.done = @ \cup d, !.failed = @ \/ b]
    BY <1>14 DEF UndoNext
  <2>3. undo.done \cup d \in SUBSET (1..Len(Items)) /\ (undo.failed \/ b) \in BOOLEAN
    BY <1>u, <2>1
  <2> QED BY <1>u, <1>14, <2>1, <2>2, <2>3
<1>15. CASE UndoSkip \/ UndoItemDone
  <2>1. PICK d \in {{}, {undo.item}}, b \in BOOLEAN : UndoNext(d, b)
    <3>1. CASE UndoSkip
      <4>1. undo.item \in 1..Len(saved)
        BY <1>u, <3>1 DEF UndoSkip
      <4>2. (~saved[undo.item].restored) \in BOOLEAN
        BY <1>u, <4>1 DEF Entry
      <4> QED BY <3>1, <4>2 DEF UndoSkip
    <3>2. CASE UndoItemDone
      BY <3>2 DEF UndoItemDone
    <3> QED BY <1>15, <3>1, <3>2
  <2>2. /\ undo.on /\ undo.item > 0
        /\ UNCHANGED <<live, gone, applied, state, plan, saved, faults, history>>
        /\ \/ thread' = thread /\ own.at = "idle"
           \/ thread' = [thread EXCEPT !["change"] = Idle]
    BY <1>i, <1>15 DEF UndoSkip, UndoItemDone, ChangeFits, own
  <2>3. undo' \in [on : BOOLEAN, item : 0..Len(saved), done : SUBSET (1..Len(Items)), failed : BOOLEAN] /\ undo'.on
    BY <1>14, <2>1, <2>2
  <2>4. DataTyped' /\ Underway'
    BY <1>i, <2>2, <2>3 DEF DataTyped, plan, history, ChangeFits, Underway
  <2>5. own'.at = "idle" /\ ThreadsTyped' /\ \A r \in Request : thread'[r] = thread[r]
    <3>1. CASE thread' = thread /\ own.at = "idle"
      BY <1>i, <3>1 DEF own, ThreadsTyped
    <3> QED BY <1>f, <2>2, <3>1
  <2>6. Len(saved') = Len(Items) \/ state' \notin {"verifying", "applied"}
    BY <1>i, <2>2 DEF ChangeFits
  <2> QED BY <1>o, <1>r, <2>2, <2>3, <2>4, <2>5, <2>6 DEF Typed, Underway
<1>16. CASE UndoSave
  <2> DEFINE e(i) == [saved[i] EXCEPT !.restored = @ \/ i \in undo.done]
  <2>1. /\ undo.on /\ saved' = [i \in 1..Len(saved) |-> e(i)] /\ undo' = [undo EXCEPT !.done = {}]
        /\ undo.item = 0 /\ UNCHANGED <<live, gone, applied, state, plan, thread, faults, history>>
    BY <1>16 DEF UndoSave
  <2>2. \A i \in 1..Len(saved) : e(i) \in Entry /\ e(i).previous = saved[i].previous
    BY <1>u DEF Entry
  <2> HIDE DEF e
  <2>3. /\ saved' \in [1..Len(saved) -> Entry] /\ saved' \in Seq(Entry) /\ Len(saved') = Len(saved)
        /\ \A i \in 1..Len(saved) : saved'[i] = e(i)
    <3>1. saved' \in [1..Len(saved) -> Entry]
      BY <2>1, <2>2
    <3>2. saved' \in Seq(Entry)
      BY <1>u, <3>1, SeqDef
    <3>3. DOMAIN saved' = 1..Len(saved) /\ DOMAIN saved' = 1..Len(saved') /\ Len(saved') \in Nat
      BY <3>1, <3>2, LenProperties
    <3> QED BY <1>u, <2>1, <3>1, <3>2, <3>3
  <2>4. \A i \in 1..Len(saved') : DOMAIN saved'[i].previous = DOMAIN Items[i]
    BY <1>i, <2>2, <2>3 DEF DataTyped
  <2>5. undo' \in [on : BOOLEAN, item : 0..Len(saved'), done : SUBSET (1..Len(Items)), failed : BOOLEAN] /\ undo'.on
    <3>1. undo' \in [on : BOOLEAN, item : 0..Len(saved), done : SUBSET (1..Len(Items)), failed : BOOLEAN] /\ undo'.on
      BY <1>u, <2>1
    <3> QED BY <2>3, <3>1
  <2>6. DataTyped'
    BY <1>i, <2>1, <2>3, <2>4, <2>5 DEF DataTyped, plan, history
  <2>7. own.at = "idle" /\ Underway
    BY <1>i, <2>1 DEF ChangeFits
  <2>8. own'.at = "idle" /\ ThreadsTyped' /\ Underway' /\ \A r \in Request : thread'[r] = thread[r]
    BY <1>i, <2>1, <2>7 DEF own, ThreadsTyped, Underway
  <2>9. Len(saved') = Len(Items) \/ state' \notin {"verifying", "applied"}
    BY <1>i, <2>1, <2>3 DEF ChangeFits
  <2> QED BY <1>o, <1>r, <2>5, <2>6, <2>8, <2>9 DEF Typed, Underway
<1>17. CASE UndoClose
  <2>1. /\ undo.on /\ undo.done = {} /\ state' = "rolled_back" /\ undo' = [undo EXCEPT !.on = FALSE]
        /\ undo.item = 0 /\ UNCHANGED <<live, gone, applied, plan, saved, thread, faults, history>>
    BY <1>17 DEF UndoClose
  <2>2. undo' \in [on : BOOLEAN, item : 0..Len(saved), done : SUBSET (1..Len(Items)), failed : BOOLEAN]
        /\ ~undo'.on /\ undo'.done = {}
    BY <1>u, <2>1
  <2>3. DataTyped' /\ own.at = "idle"
    BY <1>i, <2>1, <2>2 DEF DataTyped, plan, history, ChangeFits
  <2>4. own'.at = "idle" /\ ThreadsTyped' /\ \A r \in Request : thread'[r] = thread[r]
    BY <1>i, <2>1, <2>3 DEF own, ThreadsTyped
  <2> QED BY <1>o, <1>r, <2>1, <2>2, <2>3, <2>4 DEF Typed
<1>18. CASE Crash
  <2> DEFINE q(w) == [Idle EXCEPT !.at = IF w = "change" THEN "idle" ELSE "end"]
  <2>1. /\ faults < MaxFaults /\ faults' = faults + 1
        /\ thread' = [w \in Writer |-> IF thread[w].at = "idle" THEN thread[w] ELSE q(w)]
        /\ undo' = [NoUndo EXCEPT !.failed = undo.failed] /\ diff' = NoDiff
        /\ UNCHANGED <<live, gone, applied, state, base, shown, saved, outside, crossed>>
    BY <1>18 DEF Crash
  <2>2. \A w \in Writer : q(w) \in Threads /\ q(w).todo = {} /\ q(w).at = IF w = "change" THEN "idle" ELSE "end"
    BY IdleTyped
  <2> HIDE DEF q
  <2>3. ThreadsTyped'
    BY <1>i, <2>1, <2>2 DEF ThreadsTyped
  <2>4. own'.at = "idle" /\ \A r \in Request : thread'[r].at \in {"idle", "gated", "write", "end"}
    BY <2>1, <2>2, Writers DEF own
  <2>5. undo' \in [on : BOOLEAN, item : 0..Len(saved), done : SUBSET (1..Len(Items)), failed : BOOLEAN]
        /\ ~undo'.on /\ undo'.done = {}
    <3>1. undo' = [on |-> FALSE, item |-> 0, done |-> {}, failed |-> undo.failed]
      BY <2>1 DEF NoUndo
    <3>2. 0 \in 0..Len(saved) /\ undo.failed \in BOOLEAN
      BY <1>u
    <3> QED BY <3>1, <3>2
  <2>6. broken' \subseteq Name
    <3>1. \A w \in Writer : Wrote(w) \subseteq Name
      BY <1>i, ThreadFacts DEF Wrote
    <3> QED BY <1>18, <1>i, <3>1 DEF Crash, DataTyped
  <2>7. faults' \in 0..MaxFaults
    BY <1>i, <1>u, <2>1 DEF DataTyped
  <2>8. DataTyped'
    BY <1>i, <2>1, <2>5, <2>6, <2>7, NoDiffTyped DEF DataTyped
  <2>9. /\ state' \in {"draft", "planned", "stale"} => saved' = <<>>
        /\ state' \in {"verifying", "applied"} => Len(saved') = Len(Items)
    BY <1>i, <2>1 DEF ChangeFits
  <2> QED BY <1>o, <2>3, <2>4, <2>5, <2>8, <2>9 DEF Typed
<1>19. CASE ScopeDeleted \/ (\E n \in Name : Outside(n)) \/ UNCHANGED vars
  <2>1. /\ live' \in Rows /\ gone' \in BOOLEAN /\ outside' \subseteq Name /\ crossed' \subseteq Name
        /\ UNCHANGED <<applied, change, thread, faults, broken>>
    <3>1. CASE \E n \in Name : Outside(n)
      BY <1>i, <3>1 DEF Outside, DataTyped, Rows
    <3>2. CASE ScopeDeleted \/ UNCHANGED vars
      BY <1>i, <3>2 DEF ScopeDeleted, DataTyped, vars, history
    <3> QED BY <1>19, <3>1, <3>2
  <2>2. DataTyped' /\ ThreadsTyped'
    BY <1>i, <2>1 DEF DataTyped, ThreadsTyped, change, plan
  <2>3. ChangeFits'
    BY <1>i, <2>1 DEF ChangeFits, change, own, Underway, Cursor
  <2> QED BY <2>2, <2>3 DEF Typed
<1> QED
    BY <1>1, <1>2, <1>3, <1>4, <1>5, <1>6, <1>7, <1>8, <1>10, <1>11, <1>12, <1>13, <1>15, <1>16,
       <1>17, <1>18, <1>19, <1>20, <1>21, <1>22, Writers DEF Next, ChangeStep
-----------------------------------------------------------------------------
(* The record follows the calls.                                           *)

\* Between two steps a writer stands where it stood, has gone, or has just read.
Stands(w) == thread'[w].at = thread[w].at /\ thread'[w].patch = thread[w].patch
             /\ thread'[w].current = thread[w].current /\ thread'[w].todo = thread[w].todo
Leaves(w) == thread'[w].at # "write" /\ (thread[w].at = "write" => Wrote(w) \subseteq broken')
Reads(w)  == /\ thread[w].at # "write" /\ thread'[w].current = live
             /\ thread'[w].todo = DOMAIN thread'[w].patch

\* A step that writes nothing, neither to openBalena nor to the record.
LEMMA QuietKeeps ==
  ASSUME IInv, UNCHANGED <<live, applied>>, outside \subseteq outside', broken \subseteq broken',
         \A w \in Writer : Stands(w) \/ Leaves(w) \/ Reads(w)
  PROVE  WritesFit' /\ RecordFits'
<1>1. WritesFit'
  <2> SUFFICES ASSUME NEW w \in Writer, NEW n \in DOMAIN thread'[w].patch \ (outside' \cup broken'),
                      thread'[w].at = "write"
               PROVE  Has(w, n)'
    BY DEF WritesFit
  <2>1. CASE Stands(w)
    BY <2>1 DEF Stands, IInv, WritesFit, Has
  <2>2. CASE Reads(w)
    BY <2>2 DEF Reads, Has
  <2> QED BY <2>1, <2>2 DEF Leaves
<1>2. RecordFits'
  <2> SUFFICES ASSUME NEW n \in Name \ (outside' \cup broken'), ~(applied'[n] \in {NoRow, live'[n]})
               PROVE  Unrecorded(n)'
    BY DEF RecordFits
  <2>1. PICK w \in Writer : thread[w].at = "write" /\ n \in Wrote(w)
    BY DEF IInv, RecordFits, Unrecorded
  <2>2. Stands(w)
    BY <2>1 DEF Leaves, Reads
  <2> QED BY <2>1, <2>2 DEF Stands, Unrecorded, Wrote
<1> QED BY <1>1, <1>2

\* A write: the name has what was written, or somebody else was at it.
LEMMA WriteKeeps ==
  ASSUME IInv, NEW w \in Writer, NEW n \in Name, Write(w, n)
  PROVE  WritesFit' /\ RecordFits'
<1>1. /\ n \in thread[w].todo /\ thread[w].at = "write" /\ \A m \in Name : m # n => live'[m] = live[m]
      /\ live[n] = thread[w].current[n] => live'[n] = thread[w].patch[n]
  BY PutFacts DEF IInv
<1>2. /\ thread'[w].at = "write" /\ thread'[w].patch = thread[w].patch
      /\ thread'[w].current = thread[w].current /\ thread'[w].todo = thread[w].todo \ {n}
      /\ \A v \in Writer : v # w => thread'[v] = thread[v]
  <2> DEFINE q == [thread[w] EXCEPT !.todo = @ \ {n}]
  <2>1. /\ Only(w, q) /\ q.at = thread[w].at /\ q.patch = thread[w].patch /\ q.current = thread[w].current
        /\ q.todo = thread[w].todo \ {n} /\ thread \in [Writer -> Threads]
    BY WriteMoves DEF IInv, Typed, ThreadsTyped
  <2> HIDE DEF q
  <2> QED BY <1>1, <2>1 DEF Only
<1>3. /\ UNCHANGED <<applied, outside>> /\ broken \subseteq broken'
      /\ n \notin broken' => \A v \in Writer \ {w} : ~(thread[v].at = "write" /\ n \in DOMAIN thread[v].patch)
  BY DEF Write
<1>4. n \in DOMAIN thread[w].patch /\ \A v \in Writer : DOMAIN thread[v].patch \subseteq Name
  BY <1>1, ThreadFacts DEF IInv
<1>5. WritesFit'
  <2> SUFFICES ASSUME NEW v \in Writer, NEW m \in DOMAIN thread'[v].patch \ (outside' \cup broken'),
                      thread'[v].at = "write"
               PROVE  Has(v, m)'
    BY DEF WritesFit
  <2>1. m \in Name /\ m \in DOMAIN thread[v].patch \ (outside \cup broken) /\ thread[v].at = "write" /\ Has(v, m)
    BY <1>1, <1>2, <1>3, <1>4 DEF IInv, WritesFit
  <2>2. CASE m # n
    BY <1>1, <1>2, <2>1, <2>2 DEF Has
  <2>3. CASE m = n
    BY <1>1, <1>2, <1>3, <2>1, <2>3 DEF Has
  <2> QED BY <2>2, <2>3
<1>6. RecordFits'
  <2> SUFFICES ASSUME NEW m \in Name \ (outside' \cup broken'), ~(applied'[m] \in {NoRow, live'[m]})
               PROVE  Unrecorded(m)'
    BY DEF RecordFits
  <2>1. CASE m = n
    BY <1>1, <1>2, <1>4, <2>1 DEF Unrecorded, Wrote
  <2>2. CASE m # n
    <3>1. PICK v \in Writer : thread[v].at = "write" /\ m \in Wrote(v)
      BY <1>1, <1>3, <2>2 DEF IInv, RecordFits, Unrecorded
    <3> QED BY <1>2, <3>1 DEF Unrecorded, Wrote
  <2> QED BY <2>1, <2>2
<1> QED BY <1>5, <1>6

\* The record: the names of the patch have what openBalena has.
LEMMA RecordKeeps ==
  ASSUME IInv, NEW w \in Writer, Record(w)
  PROVE  WritesFit' /\ RecordFits'
<1>1. /\ thread[w].at = "write" /\ thread[w].todo = {} /\ UNCHANGED <<live, history>>
      /\ applied' = [n \in Name |-> IF n \in DOMAIN thread[w].patch THEN thread[w].patch[n] ELSE applied[n]]
  BY DEF Record
<1>2. thread'[w].at # "write" /\ \A v \in Writer : v # w => thread'[v] = thread[v]
  <2> DEFINE q == [thread[w] EXCEPT !.at = IF w = "change" THEN "save" ELSE "end"]
  <2>1. Only(w, q) /\ q.at # "write" /\ thread \in [Writer -> Threads]
    BY RecordMoves DEF IInv, Typed, ThreadsTyped
  <2> HIDE DEF q
  <2> QED BY <2>1 DEF Only
<1>3. WritesFit'
  BY <1>1, <1>2 DEF IInv, WritesFit, Has, history
<1>4. RecordFits'
  <2> SUFFICES ASSUME NEW n \in Name \ (outside' \cup broken'), ~(applied'[n] \in {NoRow, live'[n]})
               PROVE  Unrecorded(n)'
    BY DEF RecordFits
  <2>1. n \notin DOMAIN thread[w].patch
    BY <1>1 DEF IInv, WritesFit, Has, history
  <2>2. PICK v \in Writer : thread[v].at = "write" /\ n \in Wrote(v)
    BY <1>1, <2>1 DEF IInv, RecordFits, Unrecorded, history
  <2>3. v # w
    BY <2>1, <2>2 DEF Wrote
  <2> QED BY <1>2, <2>2, <2>3 DEF Unrecorded, Wrote
<1> QED BY <1>3, <1>4

\* An edit in the dashboard is known to be one.
LEMMA OutsideKeeps ==
  ASSUME IInv, NEW n \in Name, Outside(n)
  PROVE  WritesFit' /\ RecordFits'
<1>1. /\ \A m \in Name : m # n => live'[m] = live[m]
      /\ outside' = outside \cup {n} /\ UNCHANGED <<applied, thread, broken>>
  BY DEF Outside, IInv, Typed, DataTyped, Rows
<1>2. \A w \in Writer : DOMAIN thread[w].patch \subseteq Name
  BY ThreadFacts DEF IInv
<1>3. WritesFit'
  BY <1>1, <1>2 DEF IInv, WritesFit, Has
<1>4. RecordFits'
  BY <1>1 DEF IInv, RecordFits, Unrecorded, Wrote
<1> QED BY <1>3, <1>4

\* Every step keeps calls and record together.
LEMMA RecordStep == IInv /\ [Next]_vars => WritesFit' /\ RecordFits'
<1> SUFFICES ASSUME IInv, [Next]_vars PROVE WritesFit' /\ RecordFits'
  OBVIOUS
<1>i. Typed /\ ChangeFits /\ thread \in [Writer -> Threads]
  BY DEF IInv, Typed, ThreadsTyped
<1>1. ASSUME NEW w \in Writer, NEW p \in Patch, thread[w].at # "write", Read(w, p)
      PROVE  WritesFit' /\ RecordFits'
  <2>1. \A v \in Writer : Stands(v) \/ Reads(v)
    BY <1>i, <1>1 DEF Read, Stands, Reads
  <2> QED BY <1>1, <2>1, QuietKeeps DEF Read, history
<1>2. ASSUME NEW q, thread' = [thread EXCEPT !["change"] = q], q.at # "write", own.at # "write",
             UNCHANGED <<live, applied, history>>
      PROVE  WritesFit' /\ RecordFits'
  <2>1. \A v \in Writer : Stands(v) \/ Leaves(v)
    BY <1>i, <1>2 DEF Stands, Leaves, own
  <2> QED BY <1>2, <2>1, QuietKeeps DEF history
<1>3. ASSUME UNCHANGED <<live, applied, thread, history>> PROVE WritesFit' /\ RecordFits'
  BY <1>3, QuietKeeps DEF Stands, history
<1>4. ASSUME NEW w \in Writer, Refused(w) \/ CallFails(w) PROVE WritesFit' /\ RecordFits'
  <2>1. Failed(w)
    BY <1>4 DEF Refused, CallFails
  <2>2. \A v \in Writer : Stands(v) \/ Leaves(v)
    BY <1>i, <2>1, IdleTyped DEF Failed, Stands, Leaves
  <2> QED BY <2>1, <2>2, QuietKeeps DEF Failed
<1>5. CASE Crash
  <2>1. \A v \in Writer : Stands(v) \/ Leaves(v)
    BY <1>5, <1>i, IdleTyped DEF Crash, Stands, Leaves
  <2> QED BY <1>5, <2>1, QuietKeeps DEF Crash
<1>6. ASSUME NEW r \in Request, PatchDirectly(r) PROVE WritesFit' /\ RecordFits'
  BY <1>1, <1>6, EnvConstantsOK, Writers DEF PatchDirectly
<1>13. ASSUME NEW r \in Request, Gate(r) PROVE WritesFit' /\ RecordFits'
  <2>1. \A v \in Writer : Stands(v) \/ Leaves(v)
    BY <1>i, <1>13, Writers DEF Gate, Stands, Leaves, Threads
  <2> QED BY <1>13, <2>1, QuietKeeps DEF Gate, history
<1>7. CASE RunItem
  <2>1. Items[Cursor] \in Patch
    BY <1>i, <1>7, ItemsTyped, LenProperties DEF RunItem, Cursor, Typed, DataTyped
  <2> QED BY <1>1, <1>7, <2>1, Writers DEF RunItem, Free
<1>8. CASE UndoItem
  <2>1. saved[undo.item].previous \in Patch
    <3>1. undo.item \in 1..Len(saved) /\ saved \in Seq(Entry)
      BY <1>i, <1>8, LenProperties DEF UndoItem, Typed, DataTyped
    <3>2. saved[undo.item] \in Entry
      BY <3>1, ElementOfSeq
    <3> QED BY <3>2 DEF Entry
  <2> QED BY <1>1, <1>8, <2>1, Writers DEF UndoItem
<1>9. CASE PlanBase
  <2> DEFINE q == [own EXCEPT !.at = "plan", !.current = live]
  <2>1. thread' = [thread EXCEPT !["change"] = q] /\ own.at # "write" /\ UNCHANGED <<live, applied, history>>
    BY <1>9 DEF PlanBase, Free, own
  <2>2. q.at # "write"
    BY <1>i, Writers DEF own, Threads
  <2> HIDE DEF q
  <2> QED BY <1>2, <2>1, <2>2
<1>10. CASE PlanSave \/ PlanRefused \/ Start \/ SaveItem \/ UndoItemDone
  BY <1>2, <1>10, IdleItself DEF PlanSave, PlanRefused, Start, SaveItem, UndoItemDone, own
<1>11. CASE Compare
  BY <1>2, <1>3, <1>11, <1>i, Writers DEF Compare, Free, own, Threads
<1>12. CASE PlanDiff \/ RunDone \/ VerifyPassed \/ Rollback \/ UndoSkip \/ UndoSave \/ UndoClose \/ ScopeDeleted
            \/ UNCHANGED vars
  BY <1>3, <1>12 DEF PlanDiff, RunDone, VerifyPassed, Rollback, UndoSkip, UndoSave, UndoClose, ScopeDeleted, vars
<1> QED
  BY <1>4, <1>5, <1>6, <1>7, <1>8, <1>9, <1>10, <1>11, <1>12, <1>13, Writers,
     WriteKeeps, RecordKeeps, OutsideKeeps DEF Next, ChangeStep

-----------------------------------------------------------------------------
(* The values the change was planned on, step by step.                     *)

\* A change that is not under way has nothing to give back.
LEMMA AwayKeeps ==
  ASSUME ~Underway', ~undo'.on, own'.at \notin {"write", "save", "start"}
  PROVE  BackInv'
BY DEF BackInv, OwnFits, PreviousFits, RestoredFits, UndoFits

\* Steps of others that write nothing.
LEMMA OthersKeep ==
  ASSUME BackInv, UNCHANGED <<live, own, base, state, saved, undo, crossed>>, broken \subseteq broken'
  PROVE  BackInv'
<1>1. OwnFits'
  BY DEF BackInv, OwnFits, Has, own
<1>2. ASSUME ~undo.failed PROVE PreviousFits' /\ RestoredFits' /\ UndoFits'
  BY <1>2 DEF BackInv, PreviousFits, RestoredFits, UndoFits, Underway, Clean, First, Pending, Restored,
              Patched, Running, own
<1> QED BY <1>1, <1>2 DEF BackInv

\* Once the change has started, a name somebody else writes is crossed; before, no
\* name of its patches waits for its planned value.
LEMMA ElsewhereKeeps ==
  ASSUME IInv, BackInv, NEW n \in Name, \A m \in Name : m # n => live'[m] = live[m],
         UNCHANGED <<own, base, state, saved, undo>>, Started => n \in crossed',
         crossed \subseteq crossed', broken \subseteq broken'
  PROVE  BackInv'
<1>1. own.at \in {"write", "save", "start"} \/ undo.on => Started
  BY DEF IInv, ChangeFits, Started, Rolling, own
<1>2. DOMAIN own.patch \subseteq Name
  BY ThreadFacts, Writers DEF IInv, own
<1>3. OwnFits'
  BY <1>1, <1>2 DEF BackInv, OwnFits, Has, own
<1>4. ASSUME ~undo.failed PROVE PreviousFits'
  BY <1>4 DEF BackInv, PreviousFits, Underway, Clean, First, Pending
<1>5. ASSUME ~undo.failed PROVE UndoFits'
  BY <1>1, <1>5 DEF BackInv, UndoFits, Clean, First, Pending
<1>6. ASSUME ~undo.failed, Started PROVE RestoredFits'
  BY <1>6 DEF BackInv, RestoredFits, Underway, Clean, Restored, Pending, Patched, Running, own
<1>7. ASSUME ~Started, Underway, NEW m \in Name, Patched(m) PROVE ~Restored(m)
  <2>1. state = "applied" /\ Len(saved) = Len(Items) /\ \A j \in 1..Len(saved) : ~saved[j].restored
    BY <1>7 DEF Underway, Started, Rolling, IInv, ChangeFits
  <2> QED BY <1>7, <2>1 DEF Patched, Restored, Pending
<1>8. ASSUME ~Started PROVE RestoredFits'
  BY <1>7, <1>8 DEF RestoredFits, Underway, Clean, Restored, Pending, Patched
<1> QED BY <1>3, <1>4, <1>5, <1>6, <1>8 DEF BackInv

\* The change's thread is free, and no item ran.
LEMMA IdleKeeps ==
  ASSUME BackInv, UNCHANGED <<live, base, saved, crossed, broken>>, Underway' => Underway,
         undo.on \/ own.at \notin {"write", "save"}, own'.at = "idle",
         ~undo'.failed => ~undo.failed /\ UndoFits'
  PROVE  BackInv'
<1>1. OwnFits'
  BY DEF OwnFits
<1>2. ASSUME ~undo'.failed PROVE PreviousFits' /\ RestoredFits'
  BY <1>2 DEF BackInv, PreviousFits, RestoredFits, Clean, First, Pending, Restored, Patched, Running
<1> QED BY <1>1, <1>2 DEF BackInv

\* A run of an item ends unfinished: what it wrote is broken.
LEMMA StopKeeps ==
  ASSUME BackInv, UNCHANGED <<live, base, state, saved, crossed>>, own'.at = "idle",
         undo'.failed \/ (undo'.failed = undo.failed /\ ~undo'.on), broken \subseteq broken',
         ~undo.on /\ own.at \in {"write", "save"} => Wrote("change") \subseteq broken'
  PROVE  BackInv'
<1>1. OwnFits'
  BY DEF OwnFits
<1>2. ASSUME ~undo'.failed PROVE PreviousFits' /\ UndoFits'
  BY <1>2 DEF BackInv, PreviousFits, UndoFits, Underway, Clean, First, Pending
<1>3. ASSUME ~undo'.failed PROVE RestoredFits'
  <2> SUFFICES ASSUME Underway', NEW n \in Clean', Patched(n)', Restored(n)'
               PROVE  live'[n] = base'[n]
    BY DEF RestoredFits, Running
  <2>1. Underway /\ n \in Clean /\ Patched(n) /\ Restored(n) /\ RestoredFits
    BY <1>3 DEF BackInv, Underway, Clean, Patched, Restored, Pending
  <2>2. CASE Running(n)
    BY <2>1, <2>2 DEF Running, RestoredFits, Wrote, Clean, own
  <2> QED BY <2>1, <2>2 DEF RestoredFits
<1> QED BY <1>1, <1>2, <1>3 DEF BackInv

\* The change writes one name of its patch.
LEMMA OwnWriteKeeps ==
  ASSUME IInv, BackInv, NEW n \in Name, Write("change", n)
  PROVE  BackInv'
<1>1. /\ n \in own.todo /\ own.at = "write" /\ \A m \in Name : m # n => live'[m] = live[m]
      /\ live[n] = own.current[n] => live'[n] = own.patch[n]
  BY PutFacts, Writers DEF IInv, own
<1>2. /\ own'.at = "write" /\ own'.patch = own.patch
      /\ own'.current = own.current /\ own'.todo = own.todo \ {n}
  <2> DEFINE q == [own EXCEPT !.todo = @ \ {n}]
  <2>1. /\ Only("change", q) /\ q.at = own.at /\ q.patch = own.patch /\ q.current = own.current
        /\ q.todo = own.todo \ {n} /\ thread \in [Writer -> Threads]
    BY WriteMoves, Writers DEF IInv, Typed, ThreadsTyped, own
  <2> HIDE DEF q
  <2> QED BY <1>1, <2>1, Writers DEF Only, own
<1>3. UNCHANGED <<base, state, saved, undo, crossed>> /\ broken \subseteq broken'
  BY DEF Write, change, plan
<1>4. n \in DOMAIN own.patch /\ DOMAIN own.patch \subseteq Name
  BY <1>1, ThreadFacts, Writers DEF IInv, own
<1>5. OwnFits'
  BY <1>1, <1>2, <1>3, <1>4 DEF BackInv, OwnFits, Has, own
<1>6. undo.on => undo.item \in 1..Len(saved) /\ Pending(undo.item, n)
  <2>1. undo.item \in 0..Len(saved) /\ \A i \in 1..Len(saved) : DOMAIN saved[i].previous = DOMAIN Items[i]
    BY DEF IInv, Typed, DataTyped
  <2>2. undo.on => undo.item > 0 /\ ~saved[undo.item].restored /\ own.patch = saved[undo.item].previous
    BY <1>1 DEF IInv, ChangeFits
  <2>3. undo.on => undo.item \in 1..Len(saved)
    BY <2>1, <2>2, LenProperties DEF IInv, Typed, DataTyped
  <2> QED BY <1>4, <2>1, <2>2, <2>3 DEF Pending
<1>7. ASSUME ~undo.failed PROVE PreviousFits'
  BY <1>3, <1>7 DEF BackInv, PreviousFits, Underway, Clean, First, Pending
<1>8. ASSUME ~undo.failed PROVE RestoredFits'
  <2> SUFFICES ASSUME Underway', NEW m \in Clean', Patched(m)', Restored(m)'
               PROVE  /\ Running(m)' => own'.current[m] = base'[m]
                      /\ ~Running(m)' \/ m \in own'.todo => live'[m] = base'[m]
    BY DEF RestoredFits
  <2>1. /\ Underway /\ m \in Clean /\ m \in Name /\ Patched(m) /\ Restored(m) /\ RestoredFits
        /\ Running(m)' <=> Running(m)
    BY <1>1, <1>2, <1>3, <1>8 DEF BackInv, Underway, Clean, Patched, Restored, Pending, Running
  <2>2. CASE m # n
    BY <1>1, <1>2, <1>3, <2>1, <2>2 DEF RestoredFits
  <2>3. CASE m = n
    <3>1. Running(m)
      BY <1>1, <1>4, <1>6, <2>1, <2>3 DEF Running, Restored
    <3> QED BY <1>2, <1>3, <2>1, <2>3, <3>1 DEF RestoredFits
  <2> QED BY <2>2, <2>3
<1>9. ASSUME ~undo.failed PROVE UndoFits'
  <2> SUFFICES ASSUME undo.on PROVE UndoFits'
    BY <1>3 DEF UndoFits
  <2>1. \A j \in 1..Len(saved) : j > undo.item => saved[j].restored \/ j \in undo.done
    BY <1>9 DEF BackInv, UndoFits
  <2>2. ASSUME NEW m \in Clean', NEW j \in 1..Len(saved), First(j, m), j > undo.item
        PROVE  live'[m] = base[m]
    <3>1. undo.item \in 1..(j - 1)
      BY <1>6, <2>2, LenProperties DEF IInv, Typed, DataTyped
    <3>2. m # n /\ m \in Name /\ m \in Clean
      BY <1>3, <1>6, <2>2, <3>1 DEF First, Clean
    <3> QED BY <1>1, <1>9, <2>2, <3>2 DEF BackInv, UndoFits
  <2> QED BY <1>3, <2>1, <2>2 DEF UndoFits, First, Pending
<1> QED BY <1>3, <1>5, <1>7, <1>8, <1>9 DEF BackInv

\* The change reads the scope, for an item or to restore one.
LEMMA OwnReadKeeps ==
  ASSUME IInv, BackInv, NEW p \in Patch, own.at = "idle", Read("change", p)
  PROVE  BackInv'
<1>1. /\ own'.at = "write" /\ own'.patch = p /\ own'.current = live /\ own'.todo = DOMAIN p
      /\ UNCHANGED <<live, base, state, saved, undo, crossed, broken>>
  BY Writers DEF Read, IInv, Typed, ThreadsTyped, own, change, plan, history
<1>2. OwnFits'
  BY <1>1 DEF OwnFits, Has, own
<1>3. ASSUME ~undo.failed PROVE PreviousFits' /\ UndoFits'
  BY <1>1, <1>3 DEF BackInv, PreviousFits, UndoFits, Underway, Clean, First, Pending
<1>4. ASSUME ~undo.failed PROVE RestoredFits'
  <2>1. \A n : ~Running(n)
    BY DEF Running
  <2> QED BY <1>1, <1>4, <2>1 DEF BackInv, RestoredFits, Underway, Clean, Restored, Pending, Patched
<1> QED BY <1>1, <1>2, <1>3, <1>4 DEF BackInv

\* An item is done: it is the first to restore of its names that no other was.
LEMMA SaveKeeps ==
  ASSUME IInv, BackInv, SaveItem
  PROVE  BackInv'
<1> DEFINE e == [previous |-> Previous, restored |-> FALSE]
<1>c. PICK c \in Nat : c = Len(saved) + 1
  BY LenProperties DEF IInv, Typed, DataTyped
<1>1. /\ own.at = "save" /\ ~undo.on /\ saved' = Append(saved, e) /\ own'.at = "idle"
      /\ UNCHANGED <<live, base, state, undo, crossed, broken>>
  BY IdleItself, Writers DEF SaveItem, IInv, Typed, ThreadsTyped, own, plan, history
<1>2. own.patch = Items[c] /\ c <= Len(Items) /\ Underway
  BY <1>c, <1>1 DEF IInv, ChangeFits, Cursor, Underway
<1>3. saved \in Seq(Entry) /\ Len(saved) \in Nat /\ own.current \in Rows
  BY LenProperties, ThreadFacts, Writers DEF IInv, Typed, DataTyped, own
<1>4. ~e.restored /\ \A n \in DOMAIN own.patch : e.previous[n] = own.current[n]
  BY DEF Previous, own
<1>5. /\ Len(saved') = c /\ saved'[c] = e /\ \A j \in 1..Len(saved) : saved'[j] = saved[j]
  <2> HIDE DEF e
  <2>1. saved \in Seq(Entry \cup {e}) /\ e \in Entry \cup {e}
    BY <1>3, SeqMonotonic
  <2> QED BY <1>c, <1>1, <2>1, AppendProperties
<1> HIDE DEF e
<1>6. \A n : Pending(c, n)' <=> n \in DOMAIN own.patch
  BY <1>2, <1>4, <1>5 DEF Pending
<1>7. \A n : \A j \in 1..Len(saved) : Pending(j, n)' <=> Pending(j, n)
  BY <1>5 DEF Pending
<1>8. ASSUME ~undo.failed PROVE PreviousFits'
  <2> SUFFICES ASSUME NEW n \in Clean', NEW j \in 1..Len(saved'), First(j, n)'
               PROVE  saved'[j].previous[n] = base'[n]
    BY DEF PreviousFits
  <2>1. CASE j \in 1..Len(saved)
    <3>1. First(j, n)
      BY <1>c, <1>3, <1>7, <2>1 DEF First
    <3> QED BY <1>1, <1>2, <1>5, <1>8, <2>1, <3>1 DEF BackInv, PreviousFits, Clean
  <2>2. CASE j = c
    <3>1. n \in DOMAIN own.patch /\ Restored(n)
      BY <1>c, <1>3, <1>6, <1>7, <2>2 DEF First, Restored
    <3>2. Running(n) /\ Patched(n) /\ n \in Clean
      BY <1>c, <1>1, <1>2, <1>3, <3>1, ItemsTyped DEF Running, Patched, Clean
    <3> QED BY <1>1, <1>2, <1>4, <1>5, <1>8, <2>2, <3>1, <3>2 DEF BackInv, RestoredFits
  <2> QED BY <1>c, <1>3, <1>5, <2>1, <2>2
<1>9. ASSUME ~undo.failed PROVE RestoredFits'
  <2> SUFFICES ASSUME NEW n \in Clean', Patched(n)', Restored(n)'
               PROVE  live'[n] = base'[n]
    BY <1>1 DEF RestoredFits, Running
  <2>1. n \notin DOMAIN own.patch /\ Restored(n)
    BY <1>c, <1>3, <1>5, <1>6, <1>7 DEF Restored
  <2> QED BY <1>1, <1>2, <1>9, <2>1 DEF BackInv, RestoredFits, Running, Patched, Clean
<1> QED BY <1>1, <1>8, <1>9 DEF BackInv, OwnFits, UndoFits

\* The rollback has restored an item.
LEMMA UndoneKeeps ==
  ASSUME IInv, BackInv, UndoItemDone
  PROVE  BackInv'
<1>1. /\ undo.on /\ own.at = "save" /\ own'.at = "idle"
      /\ UNCHANGED <<live, base, state, saved, crossed, broken>>
      /\ undo' = [undo EXCEPT !.item = @ - 1, !.done = @ \cup {undo.item}, !.failed = @ \/ FALSE]
  BY IdleItself, Writers DEF UndoItemDone, UndoNext, IInv, Typed, ThreadsTyped, own, plan, history
<1>2. /\ undo.item \in 1..Len(saved) /\ own.patch = saved[undo.item].previous /\ own.todo = {}
      /\ DOMAIN own.patch = DOMAIN Items[undo.item]
  <2>1. undo.item > 0 /\ own.patch = saved[undo.item].previous /\ own.todo = {} /\ undo.item \in 0..Len(saved)
    BY <1>1 DEF IInv, ChangeFits, Typed, DataTyped
  <2> QED BY <2>1, LenProperties DEF IInv, Typed, DataTyped
<1>3. /\ undo'.on /\ undo'.item = undo.item - 1 /\ undo'.done = undo.done \cup {undo.item}
      /\ undo'.failed = undo.failed /\ Underway /\ Len(saved) \in Nat
  <2>1. undo \in [on : BOOLEAN, item : 0..Len(saved), done : SUBSET (1..Len(Items)), failed : BOOLEAN]
    BY DEF IInv, Typed, DataTyped
  <2> QED BY <1>1, <2>1, LenProperties DEF IInv, ChangeFits, Typed, DataTyped
<1>4. ASSUME ~undo.failed, NEW n \in Clean, First(undo.item, n) PROVE live[n] = base[n]
  <2>1. n \in DOMAIN own.patch /\ Has("change", n)
    BY <1>1, <1>2, <1>4 DEF First, Pending, BackInv, OwnFits, Clean
  <2> QED BY <1>2, <1>3, <1>4, <2>1 DEF Has, own, BackInv, PreviousFits
<1>5. ASSUME ~undo.failed PROVE UndoFits'
  <2>1. \A j \in 1..Len(saved) : j > undo'.item => j = undo.item \/ j > undo.item
    BY <1>2, <1>3
  <2> QED BY <1>1, <1>3, <1>4, <1>5, <2>1 DEF BackInv, UndoFits, Clean, First, Pending
<1> QED BY <1>1, <1>3, <1>5, IdleKeeps DEF Underway

\* The commit that marks the items restored: all of them are.
LEMMA UndoSaveKeeps ==
  ASSUME IInv, BackInv, UndoSave
  PROVE  BackInv'
<1>1. /\ undo.on /\ undo.item = 0 /\ UNCHANGED <<live, base, state, own, crossed, broken>>
      /\ saved' = [i \in 1..Len(saved) |-> [saved[i] EXCEPT !.restored = @ \/ i \in undo.done]]
      /\ undo' = [undo EXCEPT !.done = {}]
  BY DEF UndoSave, own, plan, history
<1>2. own.at = "idle" /\ Underway
  BY <1>1 DEF IInv, ChangeFits
<1>3. Len(saved) \in Nat /\ \A j \in 1..Len(saved) : saved[j] \in Entry
  BY LenProperties, ElementOfSeq DEF IInv, Typed, DataTyped
<1>4. undo'.on = undo.on /\ undo'.item = undo.item /\ undo'.failed = undo.failed
  <2>1. undo \in [on : BOOLEAN, item : 0..Len(saved), done : SUBSET (1..Len(Items)), failed : BOOLEAN]
    BY DEF IInv, Typed, DataTyped
  <2> QED BY <1>1, <2>1
<1>5. Len(saved') = Len(saved)
  <2>1. saved' \in Seq({saved'[i] : i \in 1..Len(saved)}) /\ DOMAIN saved' = 1..Len(saved)
    BY <1>1, <1>3, SeqDef
  <2> QED BY <1>3, <2>1, LenProperties
<1>6. ASSUME ~undo.failed, NEW j \in 1..Len(saved) PROVE saved'[j].restored
  <2>1. saved[j].restored \/ j \in undo.done
    BY <1>1, <1>3, <1>6 DEF BackInv, UndoFits
  <2>2. saved'[j].restored = (saved[j].restored \/ j \in undo.done)
    BY <1>1, <1>3 DEF Entry
  <2> QED BY <2>1, <2>2
<1>7. ASSUME ~undo.failed, NEW n \in Clean, Patched(n) PROVE live[n] = base[n]
  <2>1. CASE Restored(n)
    BY <1>1, <1>2, <1>7, <2>1 DEF BackInv, RestoredFits, Running
  <2>2. CASE ~Restored(n)
    <3> DEFINE T == {j \in 1..Len(saved) : Pending(j, n)}
    <3>1. T \in SUBSET Nat /\ T # {}
      BY <1>3, <2>2 DEF Restored
    <3>2. PICK j \in T : \A k \in T : j <= k
      BY <3>1, LeastNat
    <3>3. \A k \in 1..(j - 1) : ~Pending(k, n)
      BY <1>3, <3>2
    <3> QED BY <1>1, <1>3, <1>7, <3>2, <3>3 DEF First, BackInv, UndoFits
  <2> QED BY <2>1, <2>2
<1>8. ASSUME ~undo.failed PROVE PreviousFits' /\ RestoredFits' /\ UndoFits'
  <2>1. \A n : \A j \in 1..Len(saved') : ~Pending(j, n)'
    BY <1>5, <1>6, <1>8 DEF Pending
  <2>2. PreviousFits'
    BY <2>1 DEF PreviousFits, First
  <2>3. RestoredFits'
    BY <1>1, <1>2, <1>7, <1>8 DEF RestoredFits, Running, Clean, Patched
  <2>4. UndoFits'
    BY <1>5, <1>6, <1>8, <2>1 DEF UndoFits, First
  <2> QED BY <2>2, <2>3, <2>4
<1> QED BY <1>1, <1>2, <1>4, <1>8 DEF BackInv, OwnFits

\* Every step keeps what the rollback goes by.
LEMMA BackStep == IInv /\ BackInv /\ [Next]_vars => BackInv'
<1> SUFFICES ASSUME IInv, BackInv, [Next]_vars PROVE BackInv'
  OBVIOUS
<1>i. /\ Typed /\ ChangeFits /\ thread \in [Writer -> Threads] /\ Len(saved) \in Nat
      /\ undo \in [on : BOOLEAN, item : 0..Len(saved), done : SUBSET (1..Len(Items)), failed : BOOLEAN]
      /\ \A i \in 1..Len(saved) : saved[i] \in Entry
  BY LenProperties, ElementOfSeq DEF IInv, Typed, ThreadsTyped, DataTyped
<1>f. ASSUME thread' = [thread EXCEPT !["change"] = Idle] PROVE own'.at = "idle"
  BY <1>i, <1>f, IdleItself, Writers DEF own
<1>1. ASSUME NEW r \in Request, Gate(r) \/ PatchDirectly(r) \/ Record(r) PROVE BackInv'
  <2>1. UNCHANGED <<live, own, base, state, saved, undo, crossed, broken>>
    BY <1>i, <1>1, Writers DEF Gate, PatchDirectly, Read, Record, own, change, plan, history
  <2> QED BY <2>1, OthersKeep
<1>2. ASSUME NEW r \in Request, NEW n \in Name, Write(r, n) PROVE BackInv'
  <2>1. /\ \A m \in Name : m # n => live'[m] = live[m]
        /\ UNCHANGED <<own, base, state, saved, undo>> /\ (Started => n \in crossed')
        /\ crossed \subseteq crossed' /\ broken \subseteq broken'
    <3>1. \A m \in Name : m # n => live'[m] = live[m]
      BY <1>i, <1>2, PutFacts, Writers
    <3> QED BY <1>i, <1>2, <3>1, Writers DEF Write, own, change, plan
  <2> QED BY <2>1, ElsewhereKeeps
<1>3. ASSUME NEW n \in Name, Outside(n) PROVE BackInv'
  <2>1. /\ \A m \in Name : m # n => live'[m] = live[m]
        /\ UNCHANGED <<own, base, state, saved, undo, broken>> /\ (Started => n \in crossed')
        /\ crossed \subseteq crossed'
    BY <1>i, <1>3 DEF Outside, own, change, plan, Typed, DataTyped, Rows
  <2> QED BY <2>1, ElsewhereKeeps
<1>4. ASSUME NEW w \in Writer, Failed(w) PROVE BackInv'
  <2>1. UNCHANGED <<live, base, state, saved, crossed>> /\ broken' = broken \cup Wrote(w)
    BY <1>4 DEF Failed, plan
  <2>2. CASE w # "change"
    BY <1>i, <1>4, <2>1, <2>2, Writers, OthersKeep DEF Failed, own
  <2>3. CASE w = "change"
    <3>1. own'.at = "idle" /\ IF undo.on THEN undo' = [undo EXCEPT !.item = @ - 1, !.done = @ \cup {}, !.failed = @ \/ TRUE]
                                         ELSE undo' = undo
      BY <1>i, <1>4, <2>3, IdleTyped, Writers DEF Failed, UndoNext, own
    <3>2. undo'.failed \/ (undo'.failed = undo.failed /\ ~undo'.on)
      BY <1>i, <3>1
    <3> QED BY <2>1, <2>3, <3>1, <3>2, StopKeeps
  <2> QED BY <2>2, <2>3
<1>5. CASE Crash
  <2>1. own'.at = "idle"
    BY <1>5, <1>i, IdleTyped, Writers DEF Crash, own
  <2>2. UNCHANGED <<live, base, state, saved, crossed>> /\ broken \subseteq broken'
    BY <1>5 DEF Crash, plan
  <2>3. undo'.failed = undo.failed /\ ~undo'.on
    BY <1>5 DEF Crash, NoUndo
  <2>4. ~undo.on /\ own.at \in {"write", "save"} => Wrote("change") \subseteq broken'
    BY <1>5, Writers DEF Crash, own
  <2> QED BY <2>1, <2>2, <2>3, <2>4, StopKeeps
<1>6. CASE Record("change")
  <2>1. /\ own.at = "write" /\ own'.at = "save" /\ own'.patch = own.patch /\ own'.current = own.current
        /\ own'.todo = own.todo /\ UNCHANGED <<live, base, state, saved, undo, crossed, broken>>
    BY <1>6, <1>i, Writers DEF Record, own, Threads, change, plan, history
  <2>2. OwnFits'
    BY <2>1 DEF BackInv, OwnFits, Has, own
  <2>3. ASSUME ~undo.failed PROVE PreviousFits' /\ RestoredFits' /\ UndoFits'
    BY <2>1, <2>3 DEF BackInv, PreviousFits, RestoredFits, UndoFits, Underway, Clean, First, Pending, Restored,
                      Patched, Running
  <2> QED BY <2>1, <2>2, <2>3 DEF BackInv
<1>7. CASE RunItem
  <2>1. Items[Cursor] \in Patch
    BY <1>i, <1>7, ItemsTyped DEF RunItem, Cursor
  <2> QED BY <1>7, <2>1, OwnReadKeeps DEF RunItem, Free, own
<1>8. CASE UndoItem
  <2>1. undo.item \in 1..Len(saved)
    BY <1>i, <1>8 DEF UndoItem
  <2>2. saved[undo.item].previous \in Patch
    BY <1>i, <2>1 DEF Entry
  <2> QED BY <1>8, <2>2, OwnReadKeeps DEF UndoItem, own
<1>9. CASE PlanBase \/ PlanSave \/ PlanRefused \/ UndoClose
  <2>1. CASE PlanBase
    <3> DEFINE q == [own EXCEPT !.at = "plan", !.current = live]
    <3>1. thread' = [thread EXCEPT !["change"] = q] /\ q.at = "plan" /\ ~undo'.on /\ ~Underway'
      BY <1>i, <2>1, Writers DEF PlanBase, Free, own, Underway, Threads, change
    <3> HIDE DEF q
    <3>2. own'.at = "plan"
      BY <1>i, <3>1, Writers DEF own
    <3> QED BY <3>1, <3>2, AwayKeeps
  <2>2. CASE PlanSave \/ PlanRefused
    <3>1. ~undo'.on /\ ~Underway' /\ own'.at = "idle"
      BY <1>i, <1>f, <2>2 DEF PlanSave, PlanRefused, ChangeFits, Underway, own
    <3> QED BY <3>1, AwayKeeps
  <2>3. CASE UndoClose
    <3>1. ~undo'.on /\ ~Underway' /\ own'.at = "idle"
      BY <1>i, <2>3 DEF UndoClose, ChangeFits, Underway, own
    <3> QED BY <3>1, AwayKeeps
  <2> QED BY <1>9, <2>1, <2>2, <2>3
<1>10. CASE Compare
  <2>1. /\ ~undo'.on /\ ~Underway' /\ own.at = "idle" /\ UNCHANGED <<live, base, crossed>>
        /\ own'.at = "idle" \/ (own'.at = "start" /\ live = base)
    BY <1>i, <1>10, Writers DEF Compare, Free, own, Underway, Threads, plan, history
  <2> QED BY <2>1, AwayKeeps DEF BackInv, OwnFits, PreviousFits, RestoredFits, UndoFits
<1>11. CASE Start
  <2>1. /\ own.at = "start" /\ state = "planned" /\ saved = <<>> /\ ~undo.on /\ own'.at = "idle"
        /\ UNCHANGED <<live, base, saved, undo, crossed, broken>>
    BY <1>i, <1>f, <1>11 DEF Start, ChangeFits, Underway, own, plan, history
  <2>2. Len(saved) = 0 /\ Len(saved') = 0
    BY <2>1
  <2> QED BY <2>1, <2>2 DEF BackInv, OwnFits, PreviousFits, RestoredFits, UndoFits, Clean, Running
<1>12. CASE RunDone \/ VerifyPassed \/ Rollback
  <2>1. /\ own.at = "idle" /\ own'.at = "idle" /\ Underway /\ undo'.failed = undo.failed
        /\ UNCHANGED <<live, base, saved, crossed, broken>>
        /\ ~undo'.on \/ undo'.item = Len(saved)
    BY <1>i, <1>12 DEF RunDone, VerifyPassed, Rollback, Free, own, Underway, plan, history
  <2>2. UndoFits'
    BY <1>i, <2>1 DEF UndoFits
  <2> QED BY <2>1, <2>2, IdleKeeps
<1>13. CASE UndoSkip
  <2>1. /\ undo.on /\ own.at = "idle" /\ own'.at = "idle" /\ UNCHANGED <<live, base, state, saved, crossed, broken>>
        /\ undo' = [undo EXCEPT !.item = @ - 1, !.done = @ \cup {}, !.failed = @ \/ ~saved[undo.item].restored]
        /\ undo.item \in 1..Len(saved)
    BY <1>i, <1>13 DEF UndoSkip, UndoNext, own, plan, history
  <2>2. /\ undo'.item = undo.item - 1 /\ undo'.done = undo.done /\ undo'.on = undo.on
        /\ undo'.failed = (undo.failed \/ ~saved[undo.item].restored)
    BY <1>i, <2>1
  <2>3. ASSUME ~undo'.failed PROVE UndoFits'
    <3>1. ~undo.failed /\ saved[undo.item].restored
      BY <2>2, <2>3
    <3>2. \A j \in 1..Len(saved) : j > undo'.item => j = undo.item \/ j > undo.item
      BY <1>i, <2>1, <2>2
    <3> QED BY <2>1, <2>2, <3>1, <3>2 DEF BackInv, UndoFits, Clean, First, Pending
  <2>4. ~undo'.failed => ~undo.failed
    BY <2>2
  <2> QED BY <2>1, <2>3, <2>4, IdleKeeps DEF Underway
<1>14. CASE PlanDiff \/ ScopeDeleted \/ UNCHANGED vars
  <2>1. UNCHANGED <<live, own, base, state, saved, undo, crossed, broken>>
    BY <1>14 DEF PlanDiff, ScopeDeleted, vars, own, change, plan, history
  <2> QED BY <2>1, OthersKeep
<1> QED
  BY <1>1, <1>2, <1>3, <1>4, <1>5, <1>6, <1>7, <1>8, <1>9, <1>10, <1>11, <1>12, <1>13, <1>14, Writers,
     OwnWriteKeeps, SaveKeeps, UndoneKeeps, UndoSaveKeeps DEF Next, ChangeStep, Refused, CallFails

-----------------------------------------------------------------------------
(* The diff that was shown.  A name of one request only is written twice at *)
(* most, by it and in the dashboard, any other once before the change runs. *)

\* Nobody has written the name yet.
Untouched(n) ==
  /\ n \notin outside
  /\ \A r \in Request : n \in DOMAIN Direct[r] =>
       thread[r].at \in {"idle", "gated"} \/ (thread[r].at = "write" /\ n \in thread[r].todo)

\* A write between the reads of base and diff, or after them, shows in the comparison.
ShownFits ==
  state \in {"draft", "planned", "stale"} =>
    \A n \in Name \ (Twice \cup (outside \cap Directly)) :
      /\ Untouched(n) => /\ base[n] = live[n] /\ shown[n] \subseteq {live[n]}
                         /\ diff.shown[n] \subseteq {live[n]}
                         /\ own.at = "plan" => own.current[n] = live[n]
      /\ base[n] = live[n] => shown[n] \subseteq {live[n]}
      /\ IF own.at = "plan" THEN own.current[n] = live[n] => diff.shown[n] \subseteq {live[n]}
                            ELSE diff.shown[n] = {}

DirectFits == \A r \in Request : thread[r].at = "write" => thread[r].patch = Direct[r]
ShownInv   == DirectFits /\ ShownFits

\* A writer has recorded or failed, and nobody else moved.
LEMMA WriterStops ==
  ASSUME thread \in [Writer -> Threads], NEW w \in Writer, Record(w) \/ Failed(w)
  PROVE  /\ thread'[w].at = IF w # "change" THEN "end" ELSE IF Record(w) THEN "save" ELSE "idle"
         /\ \A v \in Writer : v # w => thread'[v] = thread[v]
<1>1. CASE Record(w)
  BY <1>1 DEF Record, Threads
<1>2. CASE Failed(w) /\ ~Record(w)
  <2> DEFINE q == [Idle EXCEPT !.at = IF w = "change" THEN "idle" ELSE "end"]
  <2>1. thread' = [thread EXCEPT ![w] = q] /\ q.at = IF w = "change" THEN "idle" ELSE "end"
    BY <1>2, IdleTyped DEF Failed
  <2> HIDE DEF q
  <2> QED BY <1>2, <2>1
<1> QED BY <1>1, <1>2

\* A request writes its own patch.
LEMMA DirectStep == IInv /\ DirectFits /\ [Next]_vars => DirectFits'
<1> SUFFICES ASSUME IInv, DirectFits, [Next]_vars, NEW r \in Request, thread'[r].at = "write"
             PROVE  thread'[r].patch = Direct[r]
  BY DEF DirectFits
<1>i. thread \in [Writer -> Threads] /\ r \in Writer /\ r # "change"
  BY Writers DEF IInv, Typed, ThreadsTyped
<1>1. CASE UNCHANGED vars \/ thread'[r] = thread[r]
  BY <1>1 DEF vars, DirectFits
<1>2. ASSUME NEW q, thread' = [thread EXCEPT !["change"] = q] PROVE thread'[r] = thread[r]
  BY <1>i, <1>2
<1>3. CASE \E s \in Request : PatchDirectly(s)
  <2>1. PICK s \in Request : PatchDirectly(s)
    BY <1>3
  <2>2. thread' = [thread EXCEPT ![s] = [at |-> "write", patch |-> Direct[s], current |-> live,
                                         todo |-> DOMAIN Direct[s]]]
    BY <2>1 DEF PatchDirectly, Read
  <2> QED BY <1>i, <1>1, <2>2
<1>11. CASE \E s \in Request : Gate(s)
  BY <1>i, <1>1, <1>11, Writers DEF Gate, Threads
<1>4. CASE \E w \in Writer, n \in Name : Write(w, n)
  <2>1. PICK w \in Writer, n \in Name : Write(w, n)
    BY <1>4
  <2>2. thread[r].at = "write" /\ thread'[r].patch = thread[r].patch
    BY <1>i, <2>1 DEF Write, Threads
  <2> QED BY <2>2 DEF DirectFits
<1>5. CASE \E w \in Writer : Record(w) \/ Failed(w)
  <2>1. PICK w \in Writer : Record(w) \/ Failed(w)
    BY <1>5
  <2> QED BY <1>i, <1>1, <2>1, WriterStops
<1>6. CASE Crash
  <2>1. thread[r].at = "idle" \/ thread'[r].at = "end"
    BY <1>i, <1>6, IdleTyped DEF Crash
  <2> QED BY <1>i, <1>1, <1>6, <2>1 DEF Crash
<1>7. CASE PlanBase
  <2>1. thread' = [thread EXCEPT !["change"] = [own EXCEPT !.at = "plan", !.current = live]]
    BY <1>7 DEF PlanBase, own
  <2> QED BY <1>1, <1>2, <2>1
<1>8. CASE PlanSave \/ PlanRefused \/ Start \/ SaveItem \/ UndoItemDone
  BY <1>1, <1>2, <1>8 DEF PlanSave, PlanRefused, Start, SaveItem, UndoItemDone
<1>9. CASE Compare \/ RunItem \/ UndoItem
  BY <1>1, <1>i, <1>9 DEF Compare, RunItem, UndoItem, Read
<1>10. CASE PlanDiff \/ RunDone \/ VerifyPassed \/ Rollback \/ UndoSkip \/ UndoSave \/ UndoClose \/ ScopeDeleted
            \/ \E n \in Name : Outside(n)
  BY <1>1, <1>10 DEF PlanDiff, RunDone, VerifyPassed, Rollback, UndoSkip, UndoSave, UndoClose, ScopeDeleted, Outside
<1> QED
  BY <1>1, <1>3, <1>4, <1>5, <1>6, <1>7, <1>8, <1>9, <1>10, <1>11, Writers
  DEF Next, ChangeStep, Refused, CallFails

\* A step that writes nothing and plans nothing: nobody's hands are taken back.
LEMMA ShownKeeps ==
  ASSUME ShownFits, UNCHANGED <<live, base, shown, outside>>,
         state' \in {"draft", "planned", "stale"} => state \in {"draft", "planned", "stale"},
         \A n : Untouched(n)' => Untouched(n),
         IF own'.at = "plan"
           THEN diff' = diff /\ (own' = own \/ (own'.current = live /\ own.at # "plan"))
           ELSE diff' = NoDiff \/ (own.at # "plan" /\ diff' = diff)
  PROVE  ShownFits'
BY NoDiffTyped DEF ShownFits

\* A name is written for the first time, or it is left out.
LEMMA ShownWritten ==
  ASSUME ShownFits, NEW n \in Name, \A m \in Name : m # n => live'[m] = live[m],
         UNCHANGED <<base, shown, diff, state, own>>, outside \subseteq outside',
         \A m \in Name : Untouched(m)' => Untouched(m),
         Untouched(n) \/ n \in Twice \cup (outside' \cap Directly), ~Untouched(n)'
  PROVE  ShownFits'
<1> SUFFICES ASSUME state \in {"draft", "planned", "stale"}, NEW m \in Name \ (Twice \cup (outside' \cap Directly))
             PROVE  /\ Untouched(m)' => /\ base[m] = live'[m] /\ shown[m] \subseteq {live'[m]}
                                        /\ diff.shown[m] \subseteq {live'[m]}
                                        /\ own.at = "plan" => own.current[m] = live'[m]
                    /\ base[m] = live'[m] => shown[m] \subseteq {live'[m]}
                    /\ IF own.at = "plan" THEN own.current[m] = live'[m] => diff.shown[m] \subseteq {live'[m]}
                                          ELSE diff.shown[m] = {}
  BY DEF ShownFits
<1>1. m \in Name \ (Twice \cup (outside \cap Directly))
  OBVIOUS
<1>2. CASE m # n
  BY <1>1, <1>2 DEF ShownFits
<1>3. CASE m = n
  BY <1>1, <1>3 DEF ShownFits
<1> QED BY <1>2, <1>3

\* Every step keeps the diff in agreement with the base.
LEMMA ShownStep == IInv /\ ShownInv /\ [Next]_vars => ShownInv'
<1> SUFFICES ASSUME IInv, ShownInv, [Next]_vars PROVE ShownFits'
  BY DirectStep DEF ShownInv
<1>i. /\ thread \in [Writer -> Threads] /\ ShownFits /\ DirectFits /\ ChangeFits
      /\ \A r \in Request : DOMAIN Direct[r] \subseteq Name
  BY EnvConstantsOK, PatchFacts DEF IInv, Typed, ThreadsTyped, ShownInv
<1>u. ASSUME outside \subseteq outside',
             \A r \in Request : \/ thread'[r] = thread[r]
                                \/ thread[r].at \in {"idle", "gated"}
                                \/ thread'[r].at = "end"
      PROVE  \A n : Untouched(n)' => Untouched(n)
  BY <1>u DEF Untouched
<1>c. ASSUME \A r \in Request : thread'[r] = thread[r], UNCHANGED <<live, base, shown, diff, outside>>,
             state' \in {"draft", "planned", "stale"} => state \in {"draft", "planned", "stale"},
             own' = own \/ (own.at # "plan" /\ (own'.at = "plan" => own'.current = live))
      PROVE  ShownFits'
  BY <1>i, <1>c, <1>u, ShownKeeps
<1>d. ASSUME NEW q, thread' = [thread EXCEPT !["change"] = q]
      PROVE  own' = q /\ \A r \in Request : thread'[r] = thread[r]
  BY <1>i, <1>d, Writers DEF own
<1>1. ASSUME NEW r \in Request, Gate(r) \/ PatchDirectly(r) \/ Record(r) \/ Failed(r) PROVE ShownFits'
  <2>1. \A s \in Request : thread'[s] = thread[s] \/ thread[s].at \in {"idle", "gated"} \/ thread'[s].at = "end"
    BY <1>i, <1>1, WriterStops, Writers DEF Gate, PatchDirectly, Read
  <2>2. own' = own /\ UNCHANGED <<live, base, shown, diff, outside, state>>
    BY <1>i, <1>1, Writers DEF Gate, PatchDirectly, Read, Record, Failed, own, change, plan, history
  <2>3. \A n : Untouched(n)' => Untouched(n)
    BY <1>u, <2>1, <2>2
  <2>4. own.at # "plan" \/ own'.at = "plan"
    BY <2>2
  <2> QED BY <1>i, <2>2, <2>3, <2>4, ShownKeeps
<1>2. ASSUME NEW r \in Request, NEW n \in Name, Write(r, n) PROVE ShownFits'
  <2>1. /\ n \in thread[r].todo /\ thread[r].at = "write" /\ \A m \in Name : m # n => live'[m] = live[m]
        /\ n \in DOMAIN Direct[r]
    BY <1>i, <1>2, PutFacts, ThreadFacts, Writers DEF IInv, DirectFits
  <2>2. UNCHANGED <<base, shown, diff, state, own, outside>>
    BY <1>i, <1>2, Writers DEF Write, own, change, plan
  <2>3. /\ thread'[r].at = "write" /\ thread'[r].todo = thread[r].todo \ {n}
        /\ \A s \in Request : s # r => thread'[s] = thread[s]
    BY <1>i, <1>2, <2>1, Writers DEF Write, Threads
  <2>4. \A m \in Name : Untouched(m)' => Untouched(m)
    BY <2>1, <2>2, <2>3 DEF Untouched
  <2>5. ~Untouched(n)'
    BY <2>1, <2>3 DEF Untouched
  <2>6. n \in Directly
    BY <2>1 DEF Directly
  <2>7. Untouched(n) \/ n \in outside \/ n \in Twice
    BY <2>1 DEF Untouched, Twice
  <2> QED BY <1>i, <2>1, <2>2, <2>4, <2>5, <2>6, <2>7, ShownWritten
<1>3. ASSUME NEW n \in Name, Outside(n) PROVE ShownFits'
  <2>1. /\ \A m \in Name : m # n => live'[m] = live[m]
        /\ UNCHANGED <<base, shown, diff, state, thread, own>> /\ outside = {} /\ outside' = {n}
    BY <1>i, <1>3 DEF Outside, own, change, plan, IInv, Typed, DataTyped, Rows
  <2>2. \A m \in Name : Untouched(m)' => Untouched(m)
    BY <2>1 DEF Untouched
  <2>3. ~Untouched(n)'
    BY <2>1 DEF Untouched
  <2>4. Untouched(n) \/ n \in Directly
    BY <2>1 DEF Untouched, Directly
  <2> QED BY <1>i, <2>1, <2>2, <2>3, <2>4, ShownWritten
<1>4. ASSUME NEW n \in Name, Write("change", n) PROVE ShownFits'
  <2>1. own.at = "write" /\ state' = state
    BY <1>4 DEF Write, own, change
  <2>2. state \notin {"draft", "planned", "stale"}
    BY <1>i, <2>1 DEF ChangeFits, Underway
  <2> QED BY <2>1, <2>2 DEF ShownFits
<1>5. CASE PlanSave
  <2>1. own' = Idle /\ \A r \in Request : thread'[r] = thread[r]
    BY <1>d, <1>5 DEF PlanSave
  <2>2. /\ own.at = "plan" /\ base' = own.current /\ shown' = diff.shown /\ diff' = NoDiff
        /\ live' = live /\ outside' = outside
    BY <1>5 DEF PlanSave, own, history
  <2>3. state \in {"draft", "planned", "stale"}
    BY <1>i, <2>2 DEF ChangeFits
  <2>4. \A n : Untouched(n)' <=> Untouched(n)
    BY <2>1, <2>2 DEF Untouched
  <2> QED BY <1>i, <2>1, <2>2, <2>3, <2>4, IdleItself, NoDiffTyped DEF ShownFits
<1>13. CASE PlanDiff
  <2>1. own.at = "plan" /\ UNCHANGED <<own, thread, live, base, shown, state, outside>>
    BY <1>13 DEF PlanDiff, own, history
  <2>2. \A n \in Name : diff'.shown[n] = diff.shown[n] \cup {v \in {live[n]} : n \in DOMAIN Items[diff.items + 1]}
    BY <1>13 DEF PlanDiff
  <2>3. \A n : Untouched(n)' <=> Untouched(n)
    BY <2>1 DEF Untouched
  <2> QED BY <1>i, <2>1, <2>2, <2>3 DEF ShownFits
<1>14. CASE PlanRefused
  <2>1. own' = Idle /\ \A r \in Request : thread'[r] = thread[r]
    BY <1>d, <1>14 DEF PlanRefused
  <2>2. diff' = NoDiff /\ UNCHANGED <<live, base, shown, state, outside>>
    BY <1>14 DEF PlanRefused, history
  <2>3. \A n : Untouched(n)' => Untouched(n)
    BY <2>1, <2>2 DEF Untouched
  <2> QED BY <1>i, <2>1, <2>2, <2>3, IdleItself, ShownKeeps
<1>6. CASE Crash
  <2>1. /\ own'.at = "idle" /\ diff' = NoDiff /\ UNCHANGED <<live, base, shown, state, outside>>
        /\ \A r \in Request : thread'[r] = thread[r] \/ thread'[r].at = "end"
    BY <1>6, <1>i, IdleTyped, Writers DEF Crash, own, plan
  <2> QED BY <1>i, <1>u, <2>1, ShownKeeps
<1>7. CASE PlanBase
  <2> DEFINE q == [own EXCEPT !.at = "plan", !.current = live]
  <2>1. /\ thread' = [thread EXCEPT !["change"] = q] /\ own.at = "idle"
        /\ UNCHANGED <<live, base, shown, diff, outside, state>>
    BY <1>7 DEF PlanBase, Free, own, change, plan, history
  <2>2. q.current = live
    BY <1>i, Writers DEF own, Threads
  <2> HIDE DEF q
  <2> QED BY <1>c, <1>d, <2>1, <2>2
<1>8. CASE Compare
  <2>1. /\ state = "planned" /\ own.at = "idle" /\ UNCHANGED <<live, base, shown, diff, outside>>
        /\ thread' = thread \/ thread' = [thread EXCEPT !["change"] = [own EXCEPT !.at = "start"]]
    BY <1>8 DEF Compare, Free, own, plan, history
  <2>2. CASE thread' = thread
    BY <1>c, <2>1, <2>2 DEF own
  <2>3. CASE thread' = [thread EXCEPT !["change"] = [own EXCEPT !.at = "start"]]
    <3>1. own'.at = "start" /\ \A r \in Request : thread'[r] = thread[r]
      BY <1>i, <1>d, <2>3, Writers DEF own, Threads
    <3> QED BY <1>c, <2>1, <3>1
  <2> QED BY <2>1, <2>2, <2>3
<1>9. CASE Start \/ SaveItem \/ UndoItemDone
  <2>1. /\ thread' = [thread EXCEPT !["change"] = Idle] /\ UNCHANGED <<live, base, shown, diff, outside>>
        /\ own.at # "plan" /\ (state' = state \/ state' = "applying")
    BY <1>9 DEF Start, SaveItem, UndoItemDone, own, plan, history
  <2> QED BY <1>c, <1>d, <2>1, IdleItself
<1>10. CASE RunItem \/ UndoItem
  <2>1. PICK q : q.at = "write" /\ thread' = [thread EXCEPT !["change"] = q]
    <3>1. \A p : [at |-> "write", patch |-> p, current |-> live, todo |-> DOMAIN p].at = "write"
      OBVIOUS
    <3> QED BY <1>10, <3>1 DEF RunItem, UndoItem, Read
  <2>2. own.at # "plan" /\ UNCHANGED <<live, base, shown, diff, outside, state>>
    BY <1>10 DEF RunItem, UndoItem, Read, Free, own, change, plan, history
  <2> QED BY <1>c, <1>d, <2>1, <2>2
<1>11. CASE Record("change") \/ Failed("change")
  <2>1. /\ own'.at # "plan" /\ \A r \in Request : thread'[r] = thread[r]
        /\ own.at # "plan" /\ UNCHANGED <<live, base, shown, diff, outside, state>>
    <3>1. own'.at # "plan" /\ \A r \in Request : thread'[r] = thread[r]
      BY <1>i, <1>11, WriterStops, Writers DEF own
    <3> QED BY <1>11, <3>1 DEF Record, Failed, own, change, plan, history
  <2> QED BY <1>c, <2>1
<1>12. CASE RunDone \/ VerifyPassed \/ Rollback \/ UndoSkip \/ UndoSave \/ UndoClose \/ ScopeDeleted \/ UNCHANGED vars
  <2>1. /\ UNCHANGED <<thread, live, base, shown, diff, outside>>
        /\ state' = state \/ state' \in {"verifying", "applied", "rolled_back"}
    BY <1>12 DEF RunDone, VerifyPassed, Rollback, UndoSkip, UndoSave, UndoClose, ScopeDeleted, vars, change, plan,
                 history
  <2> QED BY <1>c, <2>1 DEF own
<1> QED
  BY <1>1, <1>2, <1>3, <1>4, <1>5, <1>6, <1>7, <1>8, <1>9, <1>10, <1>11, <1>12, <1>13, <1>14
  DEF Next, ChangeStep, Refused, CallFails, Writer

-----------------------------------------------------------------------------
(* The theorems.                                                           *)

\* The inductive invariant: a writer's patch, openBalena and the record agree
\* on every name nobody else touched (env.py apply, service.py _record_env).
THEOREM IInvInvariant == Spec => []IInv
<1>1. IInv /\ [Next]_vars => IInv'
  BY TypedStep, RecordStep DEF IInv
<1> QED BY <1>1, InvInit, PTL DEF Spec

\* Every variable has its type, and what an item saved is a patch of its names.
THEOREM TypeCorrect == Spec => []TypeOK
BY IInvInvariant, InvTyped, PTL

\* GET /drift says "changed outside the API" of a name that nobody is patching
\* only when it was, or when a patch of it was cut short or crossed another.
THEOREM DriftCorrect == Spec => []DriftIsOutside
<1>1. IInv => DriftIsOutside
  <2> SUFFICES ASSUME IInv, NEW n \in Drift, Settled(n), n \notin outside \cup broken
               PROVE  FALSE
    BY DEF DriftIsOutside
  <2>1. n \in Name /\ ~(applied[n] \in {NoRow, live[n]})
    BY DEF Drift
  <2> QED BY <2>1 DEF IInv, RecordFits, Unrecorded, Wrote, Settled
<1> QED BY <1>1, IInvInvariant, PTL

\* What the rollback goes by: the first item that is still to restore has the
\* planned value of a name, and every other name has it already.
THEOREM BackInvariant == Spec => []BackInv
<1>1. Init => BackInv
  <2> SUFFICES ASSUME Init PROVE BackInv
    OBVIOUS
  <2>1. own.at = "idle" /\ ~Underway /\ ~undo.on
    BY IdleItself, Writers DEF Init, own, Underway, NoUndo
  <2> QED BY <2>1 DEF BackInv, OwnFits, PreviousFits, RestoredFits, UndoFits
<1> QED BY <1>1, BackStep, IInvInvariant, PTL DEF Spec

\* A rollback that met no error leaves every name as the change was planned on,
\* unless somebody else wrote it, or a patch of it was cut short (service.py
\* restore_env, changes.py _rollback).
THEOREM PlannedValuesReturn == Spec => UndoRestores
<1>1. IInv /\ BackInv /\ [Next]_vars
        => [state # "rolled_back" /\ state' = "rolled_back" /\ ~undo.failed
              => \A i \in 1..Len(saved) : \A n \in DOMAIN Items[i] \ (crossed \cup broken) :
                   live[n] = base[n]]_vars
  <2> SUFFICES ASSUME IInv, BackInv, [Next]_vars, state # "rolled_back", state' = "rolled_back", ~undo.failed,
                      NEW i \in 1..Len(saved), NEW n \in DOMAIN Items[i] \ (crossed \cup broken)
               PROVE  live[n] = base[n]
    OBVIOUS
  <2>1. UndoClose
    BY DEF Next, ChangeStep, Gate, PatchDirectly, Read, Write, Record, SaveItem, RunItem, RunDone, Refused, CallFails, Failed,
           UndoItem, UndoItemDone, UndoSkip, UndoSave, PlanBase, PlanDiff, PlanSave, PlanRefused, Compare, Start, VerifyPassed,
           Rollback, Crash, ScopeDeleted, Outside, vars, change
  <2>2. undo.on /\ undo.item = 0 /\ undo.done = {} /\ Underway
    BY <2>1 DEF UndoClose, IInv, ChangeFits
  <2>3. Len(saved) \in Nat /\ Len(Items) \in Nat /\ Len(saved) <= Len(Items)
    BY LenProperties, ItemsTyped DEF IInv, Typed, DataTyped
  <2>4. n \in Clean /\ Patched(n)
    BY <2>3, ItemsTyped, PatchFacts DEF Clean, Patched
  <2>5. Restored(n)
    BY <2>2, <2>3 DEF BackInv, UndoFits, Restored, Pending
  <2> QED BY <2>2, <2>4, <2>5 DEF BackInv, RestoredFits, Running
<1> QED BY <1>1, BackInvariant, IInvInvariant, PTL DEF Spec, UndoRestores

\* What a change does when it starts is what its approvers were shown (changes.py
\* create and _advance), but for a write that falls between the comparison and the
\* start, and for two that undo each other around the diff.
THEOREM ShownIsApplied == Spec => DiffIsApplied
<1>1. Init => ShownInv
  <2> SUFFICES ASSUME Init PROVE ShownInv
    OBVIOUS
  <2>1. own.at = "idle" /\ \A r \in Request : thread[r].at = "idle"
    BY IdleItself, Writers DEF Init, own
  <2> QED BY <2>1, NoDiffTyped DEF Init, ShownInv, DirectFits, ShownFits
<1>2. IInv /\ ShownInv /\ [Next]_vars => ShownInv'
  BY ShownStep
<1>3. IInv /\ BackInv /\ ShownInv /\ [Next]_vars
        => [state # "applying" /\ state' = "applying"
              => \A n \in Name \ (crossed \cup Twice \cup (outside \cap Directly)) :
                   shown[n] \subseteq {live[n]}]_vars
  <2> SUFFICES ASSUME IInv, BackInv, ShownInv, [Next]_vars, state # "applying", state' = "applying",
                      NEW n \in Name \ (crossed \cup Twice \cup (outside \cap Directly))
               PROVE  shown[n] \subseteq {live[n]}
    OBVIOUS
  <2>1. Start
    BY DEF Next, ChangeStep, Gate, PatchDirectly, Read, Write, Record, SaveItem, RunItem, RunDone, Refused, CallFails, Failed,
           UndoItem, UndoItemDone, UndoSkip, UndoSave, UndoClose, PlanBase, PlanDiff, PlanSave, PlanRefused, Compare, VerifyPassed,
           Rollback, Crash, ScopeDeleted, Outside, vars, change
  <2>2. state = "planned" /\ live[n] = base[n]
    BY <2>1 DEF Start, IInv, ChangeFits, BackInv, OwnFits, own
  <2> QED BY <2>2 DEF ShownInv, ShownFits
<1> QED BY <1>1, <1>2, <1>3, BackInvariant, IInvInvariant, PTL DEF Spec, DiffIsApplied
=============================================================================
