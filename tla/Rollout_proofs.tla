---------------------------- MODULE Rollout_proofs ----------------------------
(***************************************************************************)
(* For any fleet, waves, policy and faults: what a device had before is    *)
(* recorded before it is touched and given back by a rollback, and no wave *)
(* is moved before the ones ahead of it are done.  Without faults the      *)
(* fleet comes back too, and moves only while its devices are held.        *)
(***************************************************************************)
EXTENDS Rollout, WellFoundedInduction, TLAPS

-----------------------------------------------------------------------------
(* The inductive invariant.                                                *)

\* The waves behind the current one are done.
Past(s) == \A j \in WaveIdx : j < s.current => s.wave[j] = "done"

\* The copy a tick works on is the row, some steps on.
CopyFits ==
  /\ Past(saved) /\ Past(mem)
  /\ mem.prior = saved.prior /\ mem.status = saved.status
  /\ \A j \in WaveIdx : saved.wave[j] = "done" => mem.wave[j] = "done"
  /\ pc \in {"idle", "closing"} => mem = saved

\* A call is about a device whose pin was recorded; those that pin a wave are
\* about the current one, and every wave before it is done.
Ahead(s) ==
  /\ s.current \in WaveIdx /\ s.wave[s.current] = "pinning"
  /\ \A j \in 1..(s.current - 1) : Waves[j] = {} \/ saved.wave[j] = "done"
LeftFits ==
  /\ left \subseteq Recorded(saved)
  /\ pc = "pinning" => Ahead(mem) /\ left \subseteq Waves[mem.current]
  /\ pc = "revert_fleet" => left = Recorded(saved)

\* The record a call owes is of a device it has seen to.
OwedFits ==
  owed # Nothing =>
    /\ pc \in {"finish_pins", "revert_pins"}
    /\ owed.of \in Device => owed.of \in Recorded(saved) \ left
    /\ pc = "revert_pins" /\ owed.of \in Live => owed.release = pin[owed.of]

\* No record is of a device that was not touched.
TargetsFit == \A d \in Device \ Recorded(saved) : applied[d] \in {Unset, pin0[d]}

\* What was put back: by a rollback under way, and by one that was saved.
Given(d) == pin[d] = pin0[d] /\ (~OutsideApi(d) \/ (owed # Nothing /\ owed.of = d))
UndoneFits ==
  /\ pc = "revert_pins" => \A d \in Live \ left : Given(d)
  /\ saved.status \in {"halted", "reverted"} =>
       pc \in {"idle", "closing"} /\ \A d \in Live : Given(d)

EndFits ==
  /\ pc = "closing" => undoErr \/ saved.status \in {"halted", "reverted"}
  /\ phase = "rolled_back" => pc = "idle" /\ (undoErr \/ saved.status \in {"halted", "reverted"})

IInv ==
  /\ TypeOK /\ pin0 \in [Device -> Pins]
  /\ CopyFits /\ LeftFits /\ OwedFits /\ TargetsFit /\ UndoneFits /\ EndFits
  /\ PriorPinsFaithful /\ WavesInOrder

-----------------------------------------------------------------------------
(* Without faults.                                                         *)

\* The fleet has left its release only as far as the copy knows.
FleetFits ==
  /\ fleet = Prev \/ mem.fleetPinned
  /\ pc = "revert_pins" => ~mem.fleetPinned
  /\ saved.status \in {"halted", "reverted"} => fleet = Prev

\* While the rollout runs, a device whose pin was recorded is held on the release,
\* or is about to be.
Held(d) == pin[d] = New
HeldFits ==
  /\ pc = "idle" /\ saved.status = "running" /\ phase = "applying" =>
       \A d \in Recorded(saved) \cap Live :
         Held(d) \/ (saved.current \in WaveIdx /\ d \in Waves[saved.current] /\ saved.wave[saved.current] = "pinning")
  /\ pc = "pinning" => \A d \in (Recorded(saved) \cap Live) \ left : Held(d)
  /\ pc = "finish_fleet" => \A d \in Recorded(saved) \cap Live : Held(d)

CalmInv == FleetFits /\ HeldFits

-----------------------------------------------------------------------------
(* Copies of the row.                                                      *)

\* Waves are disjoint sets of devices.
LEMMA WavesTyped ==
  /\ Len(Waves) \in Nat \ {0} /\ WaveIdx \subseteq Nat
  /\ \A j \in WaveIdx : Waves[j] \in SUBSET Device
  /\ \A i, j \in WaveIdx : i # j => Waves[i] \cap Waves[j] = {}
BY RolloutConstants DEF WaveIdx

\* What two copies agree on whatever a tick does to its waves.
Alike(s, r) ==
  /\ r.status = s.status /\ r.prior = s.prior /\ r.base = s.base
  /\ r.wasOnline = s.wasOnline /\ r.fleetPinned = s.fleetPinned

\* Waves without devices are passed over: from any index on there is a first wave
\* with devices, or none is left.
LEMMA FirstWaveExists ==
  ASSUME NEW i \in 1..(Len(Waves) + 1)
  PROVE  \E n \in i..(Len(Waves) + 1) :
           /\ n > Len(Waves) \/ Waves[n] # {}
           /\ \A j \in i..(n - 1) : Waves[j] = {}
<1> DEFINE T == {n \in i..(Len(Waves) + 1) : n > Len(Waves) \/ Waves[n] # {}}
           less == OpToRel(<, Nat)
<1>1. Len(Waves) \in Nat
  BY RolloutConstants
<1>2. T \in SUBSET Nat /\ Len(Waves) + 1 \in T
  BY <1>1
<1>3. PICK n \in T : \A m \in T : ~ (<<m, n>> \in less)
  <2> HIDE DEF T, less
  <2>1. IsWellFoundedOn(less, Nat)
    BY NatLessThanWellFounded DEF less
  <2> QED BY <1>2, <2>1, WFMin
<1>4. \A m \in T : ~ (m < n)
  BY <1>2, <1>3 DEF OpToRel
<1>5. ASSUME NEW j \in i..(n - 1) PROVE Waves[j] = {}
  BY <1>1, <1>4
<1> QED BY <1>3, <1>5

\* Passing over empty waves moves the cursor forward only.
LEMMA SkipMoves ==
  ASSUME NEW s \in St, Past(s)
  PROVE  LET r == SkipEmpty(s) IN
         /\ r \in St /\ Alike(s, r) /\ Past(r)
         /\ r.current >= s.current
         /\ r.current \in WaveIdx => Waves[r.current] # {} /\ r.wave[r.current] = s.wave[r.current]
         /\ \A j \in WaveIdx : j \in s.current..(r.current - 1) => Waves[j] = {}
         /\ \A j \in WaveIdx : j >= r.current => r.wave[j] = s.wave[j]
         /\ \A j \in WaveIdx : s.wave[j] = "done" => r.wave[j] = "done"
<1> DEFINE n == FirstBusy(s.current)
           ws == [i \in WaveIdx |-> IF i \in s.current..(n - 1) THEN "done" ELSE s.wave[i]]
           r == [s EXCEPT !.current = n, !.wave = ws]
<1>1. r = SkipEmpty(s)
  BY DEF SkipEmpty
<1>2. s.current \in 1..(Len(Waves) + 1) /\ s.wave \in [WaveIdx -> WaveState]
  BY DEF St
<1>3. \E k \in s.current..(Len(Waves) + 1) :
        /\ k > Len(Waves) \/ Waves[k] # {}
        /\ \A j \in s.current..(k - 1) : Waves[j] = {}
  BY <1>2, FirstWaveExists, RolloutConstants
<1>4. /\ n \in s.current..(Len(Waves) + 1)
      /\ n > Len(Waves) \/ Waves[n] # {}
      /\ \A j \in s.current..(n - 1) : Waves[j] = {}
  BY <1>3 DEF FirstBusy
<1>5. n \in 1..(Len(Waves) + 1) /\ n >= s.current
  BY <1>2, <1>4, WavesTyped
<1>6. ws \in [WaveIdx -> WaveState] /\ \A j \in WaveIdx : ws[j] = IF j \in s.current..(n - 1) THEN "done" ELSE s.wave[j]
  BY <1>2 DEF WaveState
<1> HIDE DEF n, ws
<1>7. /\ r \in St /\ r.current = n /\ r.wave = ws /\ Alike(s, r)
  BY <1>5, <1>6 DEF St, Alike
<1> HIDE DEF r
<1>8. Past(r)
  BY <1>2, <1>5, <1>6, <1>7, WavesTyped DEF Past
<1>9. \A j \in WaveIdx : j >= r.current => r.wave[j] = s.wave[j]
  BY <1>2, <1>5, <1>6, <1>7, WavesTyped
<1>10. \A j \in WaveIdx : s.wave[j] = "done" => r.wave[j] = "done"
  BY <1>6, <1>7
<1>11. r.current \in WaveIdx => Waves[r.current] # {} /\ r.wave[r.current] = s.wave[r.current]
  BY <1>4, <1>5, <1>7, <1>9, WavesTyped DEF WaveIdx
<1> QED BY <1>1, <1>4, <1>5, <1>7, <1>8, <1>9, <1>10, <1>11

\* Noting the state of the current wave, a status,
LEMMA SetWaveMoves ==
  ASSUME NEW s \in St, Past(s), s.current \in WaveIdx, NEW w \in WaveState
  PROVE  LET r == SetWave(s, w) IN
         /\ r \in St /\ Alike(s, r) /\ Past(r) /\ r.current = s.current
         /\ r.wave[s.current] = w
         /\ \A j \in WaveIdx : j # s.current => r.wave[j] = s.wave[j]
<1> DEFINE ws == [s.wave EXCEPT ![s.current] = w]
           r == [s EXCEPT !.wave = ws]
<1>1. r = SetWave(s, w)
  BY DEF SetWave
<1>2. s.wave \in [WaveIdx -> WaveState]
  BY DEF St
<1>3. /\ ws \in [WaveIdx -> WaveState] /\ ws[s.current] = w
      /\ \A j \in WaveIdx : j # s.current => ws[j] = s.wave[j]
  BY <1>2
<1> HIDE DEF ws
<1>4. r \in St /\ r.current = s.current /\ r.wave = ws /\ Alike(s, r)
  BY <1>3 DEF St, Alike
<1> HIDE DEF r
<1>5. Past(r)
  BY <1>3, <1>4, WavesTyped DEF Past
<1> QED BY <1>1, <1>3, <1>4, <1>5

\* The status, or whether the fleet moved, is all that changes.
LEMMA StatusMoves ==
  ASSUME NEW s \in St, NEW w \in {"running", "done", "halted", "reverted"}
  PROVE  LET r == [s EXCEPT !.status = w] IN
         r \in St /\ r.status = w /\ r.prior = s.prior /\ r.current = s.current
         /\ r.wave = s.wave /\ r.fleetPinned = s.fleetPinned
BY DEF St

\* or that the fleet moved changes nothing else of the record.
LEMMA FleetPinnedMoves ==
  ASSUME NEW s \in St, NEW b \in BOOLEAN
  PROVE  LET r == [s EXCEPT !.fleetPinned = b] IN
         r \in St /\ r.status = s.status /\ r.prior = s.prior /\ r.current = s.current
         /\ r.wave = s.wave /\ r.fleetPinned = b
BY DEF St

-----------------------------------------------------------------------------
(* The initial states.                                                     *)

\* The record a rollout starts with: nothing pinned.
LEMMA StartTyped == Start \in St /\ Start.status = "running" /\ Start.current = 1 /\ Recorded(Start) = {}
<1>1. 1 \in 1..(Len(Waves) + 1)
  BY WavesTyped
<1> QED BY <1>1 DEF Start, St, WaveState, Recorded

\* Nothing has been touched at first.
LEMMA InvInit == Init => IInv
<1> SUFFICES ASSUME Init PROVE IInv
  OBVIOUS
<1> USE RolloutConstants DEF Init
<1>1. pin \in [Device -> Pins] /\ pin0 = pin /\ \A d \in Device : Target(d) \in Release
  BY DEF Target, Release
<1>2. PICK before \in BOOLEAN :
        applied = [x \in Device \cup {None} |->
                     IF ~before THEN Unset ELSE IF x = None THEN Prev ELSE pin0[x]]
  BY DEF Init
<1>3. /\ applied \in [Device \cup {None} -> Release \cup {None, Unset}]
      /\ \A d \in Device : applied[d] \in {Unset, pin[d]}
  BY <1>1, <1>2 DEF Release
<1>4. TypeOK
  <2>1. fleet \in Release /\ pin \in [Device -> Release \cup {None}] /\ pin0 \in [Device -> Release \cup {None}]
    BY <1>1 DEF Release
  <2>2. running \in [Device -> Release]
    BY <1>1
  <2>3. health \in [Device -> Answer]
    BY DEF Health, Answer
  <2> QED BY <1>3, <2>1, <2>2, <2>3, StartTyped DEF TypeOK, Phase, PC
<1>5. CopyFits
  BY WavesTyped, StartTyped DEF CopyFits, Past, WaveIdx
<1>6. PriorPinsFaithful /\ WavesInOrder
  BY <1>1 DEF PriorPinsFaithful, Start, WavesInOrder, Release, WaveIdx
<1> QED BY <1>1, <1>3, <1>4, <1>5, <1>6, StartTyped
        DEF IInv, LeftFits, OwedFits, TargetsFit, UndoneFits, EndFits

-----------------------------------------------------------------------------
(* What a step may save, and what it may start to do.                      *)

\* Nothing is owed, and no rollback has ended, while a call or a tick works.
LEMMA Working ==
  ASSUME IInv
  PROVE  /\ pc \notin {"finish_pins", "revert_pins"} => owed = Nothing
         /\ pc # "idle" \/ phase # "rolled_back" => phase # "rolled_back"
         /\ pc \notin {"idle", "closing"} => saved.status \in {"running", "done"}
         /\ saved \in St /\ mem \in St /\ left \subseteq Device
BY DEF IInv, TypeOK, OwedFits, EndFits, UndoneFits, St

\* The row is written with what was recorded before still in it.
LEMMA SaveStep ==
  ASSUME IInv, NEW s \in St, Past(s), s.status \in {"running", "done"}, Save(s),
         \A j \in WaveIdx : saved.wave[j] = "done" => s.wave[j] = "done",
         \A d \in Device : saved.prior[d] # Unset => s.prior[d] = saved.prior[d],
         \A d \in Device : s.prior[d] # Unset => s.prior[d] = pin0[d],
         phase # "rolled_back", owed = Nothing, clock' \in {"new", "soaked", "late"},
         UNCHANGED <<pine, devs, phase, undoErr, pin0, owed>>,
         applied' \in [Device \cup {None} -> Release \cup {None, Unset}],
         \A d \in Device : s.prior[d] = Unset => applied'[d] \in {Unset, pin0[d]}
  PROVE  IInv'
<1> USE DEF Save, pine, devs
<1>1. TypeOK'
  BY DEF IInv, TypeOK, PC
<1>2. CopyFits'
  BY DEF CopyFits, Past
<1>3. LeftFits' /\ OwedFits'
  BY DEF LeftFits, OwedFits
<1>4. TargetsFit'
  BY DEF TargetsFit, Recorded
<1>5. UndoneFits' /\ EndFits'
  BY DEF UndoneFits, EndFits
<1>6. PriorPinsFaithful'
  BY DEF IInv, PriorPinsFaithful
<1>7. WavesInOrder'
  <2> SUFFICES ASSUME NEW k \in WaveIdx, NEW d \in Waves[k], pin[d] = New, pin0[d] # New,
                      NEW j \in 1..(k - 1)
               PROVE  Waves[j] = {} \/ s.wave[j] = "done"
    BY DEF WavesInOrder
  <2>1. j \in WaveIdx
    BY WavesTyped DEF WaveIdx
  <2> QED BY <2>1 DEF IInv, WavesInOrder
<1> QED BY <1>1, <1>2, <1>3, <1>4, <1>5, <1>6, <1>7 DEF IInv

\* A tick starts calls, on a copy of the row.
LEMMA WorkStep ==
  ASSUME IInv, pc = "idle", phase # "rolled_back", saved.status \in {"running", "done"},
         NEW s \in St, Past(s), s.status = saved.status, s.prior = saved.prior,
         \A j \in WaveIdx : saved.wave[j] = "done" => s.wave[j] = "done",
         NEW step \in {"pinning", "finish_fleet", "revert_fleet", "revert_pins"},
         NEW ds, ds \subseteq Recorded(saved), NEW w \in {"none", "halt", "rollback"},
         step = "pinning" => Ahead(s) /\ ds \subseteq Waves[s.current],
         step \in {"revert_fleet", "revert_pins"} => ds = Recorded(saved),
         Work(s, step, ds, w),
         UNCHANGED <<pine, devs, phase, undoErr, clock, pin0, targets>>
  PROVE  IInv'
<1> USE DEF Work, pine, devs, targets
<1>o. owed = Nothing
  BY Working
<1>1. TypeOK'
  BY DEF IInv, TypeOK, PC, Recorded
<1>2. CopyFits'
  BY DEF IInv, CopyFits, Past
<1>3. LeftFits' /\ OwedFits'
  BY <1>o DEF LeftFits, OwedFits, Recorded, Ahead
<1>4. TargetsFit'
  BY DEF IInv, TargetsFit, Recorded
<1>5. UndoneFits'
  <2>1. ASSUME NEW d \in Device \ Recorded(saved) PROVE Given(d)'
    BY <2>1 DEF IInv, TargetsFit, PriorPinsFaithful, Recorded, Given, OutsideApi
  <2> QED BY <2>1 DEF UndoneFits, Live
<1>6. EndFits'
  BY DEF EndFits
<1>7. PriorPinsFaithful' /\ WavesInOrder'
  BY DEF IInv, PriorPinsFaithful, WavesInOrder
<1> QED BY <1>1, <1>2, <1>3, <1>4, <1>5, <1>6, <1>7 DEF IInv

-----------------------------------------------------------------------------
(* The ticks.                                                              *)

\* What a tick of a running rollout starts from.
LEMMA NowFits ==
  ASSUME IInv, CanTick
  PROVE  /\ Now \in St /\ Past(Now) /\ Alike(saved, Now)
         /\ \A j \in WaveIdx : saved.wave[j] = "done" => Now.wave[j] = "done"
         /\ \A j \in WaveIdx : j < Now.current => Waves[j] = {} \/ saved.wave[j] = "done"
         /\ Now.current <= Len(Waves) => Now.current \in WaveIdx
         /\ Now.status = "running" /\ owed = Nothing /\ phase = "applying" /\ pc = "idle"
<1>1. saved \in St /\ Past(saved) /\ owed = Nothing
  BY Working DEF IInv, CopyFits, CanTick
<1>2. saved.current \in 1..(Len(Waves) + 1)
  BY <1>1 DEF St
<1>3. /\ Now \in St /\ Past(Now) /\ Alike(saved, Now) /\ Now.current >= saved.current
      /\ \A j \in WaveIdx : saved.wave[j] = "done" => Now.wave[j] = "done"
      /\ \A j \in WaveIdx : j \in saved.current..(Now.current - 1) => Waves[j] = {}
  BY <1>1, SkipMoves DEF Now
<1>4. Now.current \in 1..(Len(Waves) + 1)
  BY <1>3 DEF St
<1>5. ASSUME NEW j \in WaveIdx, j < Now.current PROVE Waves[j] = {} \/ saved.wave[j] = "done"
  <2>1. CASE j < saved.current
    BY <1>1, <2>1 DEF Past
  <2>2. CASE ~ (j < saved.current)
    BY <1>2, <1>3, <1>4, <1>5, <2>2, WavesTyped
  <2> QED BY <2>1, <2>2
<1>6. Now.current <= Len(Waves) => Now.current \in WaveIdx
  BY <1>4, WavesTyped DEF WaveIdx
<1> QED BY <1>1, <1>3, <1>5, <1>6 DEF Alike, CanTick

\* A rollback starts: halt, timeout, a failed verification or an operator.
LEMMA RevertStep ==
  ASSUME IInv, pc = "idle", phase # "rolled_back", saved.status \in {"running", "done"},
         NEW s \in St, Past(s), s.status = saved.status, s.prior = saved.prior,
         \A j \in WaveIdx : saved.wave[j] = "done" => s.wave[j] = "done",
         NEW w \in {"halt", "rollback"}, Revert(s, w),
         UNCHANGED <<pine, devs, phase, undoErr, clock, pin0, targets>>
  PROVE  IInv'
<1> DEFINE step == IF s.fleetPinned THEN "revert_fleet" ELSE "revert_pins"
<1>1. step \in {"pinning", "finish_fleet", "revert_fleet", "revert_pins"} /\ step # "pinning"
      /\ Recorded(s) = Recorded(saved) /\ Work(s, step, Recorded(saved), w)
  BY DEF Revert, Recorded
<1> HIDE DEF step
<1> QED BY <1>1, WorkStep

\* The waves are over: the rollout is done, or the fleet follows.
LEMMA FinishStep ==
  ASSUME IInv, CanTick,
         NEW s \in St, Past(s), s.status = "running", s.prior = saved.prior,
         \A j \in WaveIdx : saved.wave[j] = "done" => s.wave[j] = "done",
         Finish(s), UNCHANGED <<pine, devs, phase, undoErr, clock, pin0>>
  PROVE  IInv'
<1>0. /\ pc = "idle" /\ phase # "rolled_back" /\ owed = Nothing /\ Recorded(s) = Recorded(saved)
      /\ saved.status = "running"
  BY Working DEF CanTick, Recorded
<1>1. CASE MoveFleet /\ ~s.fleetPinned
  <2>1. Work(s, "finish_fleet", Recorded(saved), "none") /\ UNCHANGED targets
    BY <1>0, <1>1 DEF Finish
  <2> QED BY <1>0, <2>1, WorkStep
<1>2. CASE ~ (MoveFleet /\ ~s.fleetPinned)
  <2> DEFINE r == [s EXCEPT !.status = "done"]
  <2>1. /\ r \in St /\ r.status = "done" /\ r.prior = s.prior /\ r.current = s.current /\ r.wave = s.wave
    BY StatusMoves
  <2>2. Save(r) /\ UNCHANGED owed
    BY <1>2 DEF Finish
  <2>3. \/ applied' = applied
        \/ applied' = [x \in Device \cup {None} |-> IF x \in Recorded(s) THEN New ELSE applied[x]]
    BY <1>2 DEF Finish
  <2> HIDE DEF r
  <2>4. /\ applied' \in [Device \cup {None} -> Release \cup {None, Unset}]
        /\ \A d \in Device \ Recorded(saved) : applied'[d] = applied[d]
    BY <1>0, <2>3 DEF IInv, TypeOK, Release
  <2>5. \A d \in Device : r.prior[d] = Unset => applied'[d] \in {Unset, pin0[d]}
    BY <2>1, <2>4 DEF IInv, TargetsFit, Recorded
  <2>6. \A d \in Device : r.prior[d] # Unset => r.prior[d] = pin0[d]
    BY <2>1 DEF IInv, PriorPinsFaithful
  <2>7. Past(r) /\ clock' \in {"new", "soaked", "late"}
    BY <2>1 DEF Past, IInv, TypeOK
  <2> QED BY <1>0, <2>1, <2>2, <2>4, <2>5, <2>6, <2>7, SaveStep
<1> QED BY <1>1, <1>2

\* A tick saves the waves it moved, and touches no record of a device's pin.
LEMMA TickSaves ==
  ASSUME IInv, CanTick, NEW s \in St, Past(s), s.status = "running", s.prior = saved.prior, Save(s),
         \A j \in WaveIdx : saved.wave[j] = "done" => s.wave[j] = "done",
         clock' \in {"new", "soaked", "late"},
         UNCHANGED <<pine, devs, phase, undoErr, pin0, targets>>
  PROVE  IInv'
<1>1. /\ applied' \in [Device \cup {None} -> Release \cup {None, Unset}]
      /\ \A d \in Device : s.prior[d] = Unset => applied'[d] \in {Unset, pin0[d]}
      /\ \A d \in Device : s.prior[d] # Unset => s.prior[d] = pin0[d]
  BY DEF IInv, TypeOK, TargetsFit, PriorPinsFaithful, Recorded, targets
<1> QED BY <1>1, NowFits, SaveStep DEF targets

\* What was put back already is not put back again.
LEMMA RollBackStep ==
  ASSUME IInv, pc = "idle", phase # "rolled_back", RollBack,
         UNCHANGED <<pine, devs, phase, undoErr, clock, pin0, targets>>
  PROVE  IInv'
<1>1. saved \in St /\ Past(saved) /\ owed = Nothing
  BY Working DEF IInv, CopyFits
<1>2. CASE saved.status \in {"halted", "reverted"}
  <2> USE <1>2 DEF pine, devs, targets
  <2>1. pc' = "closing" /\ UNCHANGED <<saved, left, why, mem>>
    BY DEF RollBack
  <2>2. TypeOK'
    BY <2>1 DEF IInv, TypeOK, PC
  <2>3. CopyFits' /\ LeftFits' /\ OwedFits' /\ TargetsFit' /\ UndoneFits' /\ EndFits'
    BY <1>1, <2>1 DEF IInv, CopyFits, Past, LeftFits, Recorded, Ahead, OwedFits, Live, TargetsFit, UndoneFits, Given,
                      OutsideApi, EndFits
  <2> QED BY <2>1, <2>2, <2>3 DEF IInv, PriorPinsFaithful, WavesInOrder
<1>3. CASE saved.status \notin {"halted", "reverted"}
  BY <1>1, <1>3, RevertStep DEF RollBack, St
<1> QED BY <1>2, <1>3

\* A tick up to its first call.
LEMMA TickStep == IInv /\ Tick => IInv'
<1> SUFFICES ASSUME IInv, Tick PROVE IInv'
  OBVIOUS
<1>t. clock \in {"new", "soaked", "late"} /\ saved \in St /\ Past(saved)
  BY DEF IInv, TypeOK, CopyFits
\* The wave a tick is on.
<1>w. ASSUME NEW ws, InWave(ws)
      PROVE  /\ CanTick /\ Now \in St /\ Past(Now) /\ Now.status = "running" /\ Now.prior = saved.prior
             /\ Now.current \in WaveIdx /\ Now.wave[Now.current] \in ws
             /\ \A j \in WaveIdx : saved.wave[j] = "done" => Now.wave[j] = "done"
             /\ pc = "idle" /\ phase = "applying" /\ saved.status = "running"
  BY <1>w, NowFits DEF InWave, Alike, CanTick
\* It goes to another state: earlier waves stay done.
<1>s. ASSUME NEW ws, InWave(ws), "done" \notin ws, NEW w \in WaveState
      PROVE  LET r == SetWave(Now, w) IN
             /\ r \in St /\ Past(r) /\ r.status = "running" /\ r.prior = saved.prior
             /\ r.current = Now.current /\ r.wave[r.current] = w
             /\ \A j \in WaveIdx : saved.wave[j] = "done" => r.wave[j] = "done"
  <2> DEFINE r == SetWave(Now, w)
  <2>1. /\ r \in St /\ Alike(Now, r) /\ Past(r) /\ r.current = Now.current /\ r.wave[Now.current] = w
        /\ \A j \in WaveIdx : j # Now.current => r.wave[j] = Now.wave[j]
    BY <1>w, <1>s, SetWaveMoves
  <2> HIDE DEF r
  <2>2. r \in St /\ Past(r) /\ r.status = "running" /\ r.prior = saved.prior
        /\ r.current = Now.current /\ r.wave[r.current] = w
        /\ \A j \in WaveIdx : saved.wave[j] = "done" => r.wave[j] = "done"
    BY <1>w, <1>s, <2>1 DEF Alike
  <2> QED BY <2>2 DEF r
<1>1. CASE TickPastWaves
  <2>1. CanTick /\ Finish(Now) /\ UNCHANGED <<pine, devs, phase, undoErr, clock, pin0>>
    BY <1>1 DEF TickPastWaves
  <2> QED BY <2>1, NowFits, FinishStep DEF Alike
<1>2. CASE TickRecord
  <2> DEFINE seen == Current \cap Live
             u == SetWave(Now, "pinning")
             base == [d \in Device |-> IF d \in seen THEN HealthOf(d) ELSE u.base[d]]
             was == u.wasOnline \cup (seen \cap online)
             prior == [d \in Device |-> IF d \in seen /\ u.prior[d] = Unset THEN pin[d] ELSE u.prior[d]]
             r == [u EXCEPT !.base = base, !.wasOnline = was, !.prior = prior]
  <2>1. InWave({"pending"}) /\ Save(r) /\ UNCHANGED <<pine, devs, phase, undoErr, clock, pin0, targets>>
    BY <1>2 DEF TickRecord
  <2>2. /\ u \in St /\ Past(u) /\ u.status = "running" /\ u.prior = saved.prior
        /\ \A j \in WaveIdx : saved.wave[j] = "done" => u.wave[j] = "done"
    BY <1>s, <2>1 DEF WaveState
  <2> HIDE DEF u
  <2>3. base \in [Device -> Health \cup {Unset}] /\ was \in SUBSET Device
    BY <2>2 DEF IInv, TypeOK, St, HealthOf, Connectivity, Health
  <2>4. /\ prior \in [Device -> Release \cup {None, Unset}]
        /\ \A d \in Device : saved.prior[d] # Unset => prior[d] = saved.prior[d]
        /\ \A d \in Device : prior[d] # Unset => prior[d] = pin0[d]
        /\ \A d \in Device : prior[d] = Unset => saved.prior[d] = Unset
    BY <2>2 DEF IInv, TypeOK, St, PriorPinsFaithful
  <2> HIDE DEF base, was, prior
  <2>5. r \in St /\ r.status = "running" /\ r.prior = prior /\ r.current = u.current /\ r.wave = u.wave
    BY <2>2, <2>3, <2>4 DEF St
  <2> HIDE DEF r
  <2>6. Past(r) /\ applied' = applied /\ owed' = owed /\ clock' = clock
    BY <2>1, <2>2, <2>5 DEF Past, targets
  <2>7. /\ applied' \in [Device \cup {None} -> Release \cup {None, Unset}]
        /\ \A d \in Device : r.prior[d] = Unset => applied'[d] \in {Unset, pin0[d]}
    BY <2>4, <2>5, <2>6 DEF IInv, TypeOK, TargetsFit, Recorded
  <2>8. phase # "rolled_back" /\ owed = Nothing
    BY <1>w, <2>1, NowFits
  <2> QED BY <1>t, <2>1, <2>2, <2>4, <2>5, <2>6, <2>7, <2>8, SaveStep
<1>3. CASE TickPin
  <2>1. /\ InWave({"pinning"}) /\ Work(Now, "pinning", Current \cap Recorded(Now), "none")
        /\ UNCHANGED <<pine, devs, phase, undoErr, clock, pin0, targets>>
    BY <1>3 DEF TickPin
  <2>2. Now.wave[Now.current] = "pinning" /\ Recorded(Now) = Recorded(saved)
    BY <1>w, <2>1 DEF Recorded
  <2>3. \A j \in 1..(Now.current - 1) : j \in WaveIdx /\ j < Now.current
    BY <1>w, <2>1, WavesTyped DEF WaveIdx
  <2>4. Ahead(Now)
    BY <1>w, <2>1, <2>2, <2>3, NowFits DEF Ahead
  <2> QED BY <1>w, <2>1, <2>2, <2>4, WorkStep DEF Current
<1>4. CASE TickHalt \/ TickTimeout
  <2>1. PICK ws : InWave(ws) /\ Revert(Now, "halt") /\ UNCHANGED <<pine, devs, phase, undoErr, clock, pin0, targets>>
    BY <1>4 DEF TickHalt, TickTimeout
  <2> QED BY <1>w, <2>1, RevertStep
<1>5. CASE TickUpdated
  <2>1. /\ InWave({"updating"}) /\ Save(SetWave(Now, "soaking")) /\ clock' = "new"
        /\ UNCHANGED <<pine, devs, phase, undoErr, pin0, targets>>
    BY <1>5 DEF TickUpdated
  <2> DEFINE r == SetWave(Now, "soaking")
  <2>2. /\ r \in St /\ Past(r) /\ r.status = "running" /\ r.prior = saved.prior
        /\ \A j \in WaveIdx : saved.wave[j] = "done" => r.wave[j] = "done"
    BY <1>s, <2>1 DEF WaveState
  <2> HIDE DEF r
  <2> QED BY <1>w, <2>1, <2>2, TickSaves DEF r
<1>6. CASE TickWait
  <2>1. PICK ws : InWave(ws) /\ Save(Now) /\ UNCHANGED <<pine, devs, phase, undoErr, clock, pin0, targets>>
    BY <1>6 DEF TickWait
  <2> QED BY <1>t, <1>w, <2>1, TickSaves
<1>7. CASE TickSoaked
  <2> DEFINE u == SetWave(Now, "done")
             r == [u EXCEPT !.current = @ + 1]
  <2>1. /\ InWave({"soaking"}) /\ UNCHANGED <<pine, devs, phase, undoErr, clock, pin0>>
        /\ \/ Finish(r)
           \/ Save(r) /\ UNCHANGED targets
    BY <1>7 DEF TickSoaked
  <2>2. /\ u \in St /\ Past(u) /\ u.status = "running" /\ u.prior = saved.prior
        /\ u.current \in WaveIdx /\ u.wave[u.current] = "done"
        /\ \A j \in WaveIdx : saved.wave[j] = "done" => u.wave[j] = "done"
    BY <1>s, <1>w, <2>1 DEF WaveState
  <2> HIDE DEF u
  <2>3. u.current + 1 \in 1..(Len(Waves) + 1)
    BY <2>2, WavesTyped DEF WaveIdx
  <2>4. r \in St /\ r.status = "running" /\ r.prior = u.prior /\ r.wave = u.wave /\ r.current = u.current + 1
    BY <2>2, <2>3 DEF St
  <2> HIDE DEF r
  <2>5. Past(r)
    <3>1. \A j \in WaveIdx : j < u.current + 1 => j < u.current \/ j = u.current
      BY <2>2, WavesTyped DEF WaveIdx
    <3> QED BY <2>2, <2>4, <3>1 DEF Past
  <2> QED BY <1>t, <1>w, <2>1, <2>2, <2>4, <2>5, TickSaves, FinishStep
\* A step of the change alone.
<1>c. ASSUME UNCHANGED <<pine, devs, saved, undoErr, ctl, pin0, targets>>, pc = "idle", phase' \in Phase,
             clock' \in {"new", "soaked", "late"},
             phase' = "rolled_back" => saved.status \in {"halted", "reverted"}
      PROVE  IInv'
  <2> USE <1>c DEF pine, devs, ctl, targets
  <2>1. TypeOK'
    BY DEF IInv, TypeOK
  <2>2. CopyFits' /\ LeftFits' /\ OwedFits' /\ TargetsFit' /\ UndoneFits' /\ EndFits'
    BY DEF IInv, CopyFits, Past, LeftFits, Recorded, Ahead, OwedFits, Live, TargetsFit, UndoneFits, Given, OutsideApi, EndFits
  <2> QED BY <2>1, <2>2 DEF IInv, PriorPinsFaithful, WavesInOrder
<1>8. CASE EnterVerify \/ VerifyPassed
  BY <1>c, <1>t, <1>8 DEF EnterVerify, VerifyPassed, CanVerify, Phase
<1>9. CASE RollBackHalted
  BY <1>c, <1>t, <1>9 DEF RollBackHalted, Phase
<1>10. CASE VerifyFailed
  BY <1>10, RollBackStep DEF VerifyFailed, CanVerify
<1> QED BY <1>1, <1>2, <1>3, <1>4, <1>5, <1>6, <1>7, <1>8, <1>9, <1>10 DEF Tick

-----------------------------------------------------------------------------
(* The calls.                                                              *)

\* A call leaves the row, and what was recorded of other devices, alone.
LEMMA CallStep == IInv /\ Call => IInv'
<1> SUFFICES ASSUME IInv, Call PROVE IInv'
  OBVIOUS
<1> USE DEF pine, devs, db, ctl, targets
<1>t. /\ saved \in St /\ mem \in St /\ Past(saved) /\ Past(mem) /\ clock \in {"new", "soaked", "late"}
      /\ mem.prior = saved.prior /\ mem.status = saved.status
      /\ pin \in [Device -> Release \cup {None}] /\ applied \in [Device \cup {None} -> Release \cup {None, Unset}]
  BY DEF IInv, TypeOK, CopyFits
<1>1. CASE RecordTarget
  <2>1. /\ owed # Nothing /\ applied' = [applied EXCEPT ![owed.of] = owed.release] /\ owed' = Nothing
        /\ UNCHANGED <<pine, devs, db, ctl, clock, pin0>>
    BY <1>1 DEF RecordTarget
  <2>2. owed.of \in Device \cup {None} /\ owed.release \in Release \cup {None}
    BY <2>1 DEF IInv, TypeOK
  <2>3. /\ applied' \in [Device \cup {None} -> Release \cup {None, Unset}]
        /\ \A d \in Device : applied'[d] = IF owed.of = d THEN owed.release ELSE applied[d]
    BY <1>t, <2>1, <2>2
  <2>4. TypeOK' /\ CopyFits' /\ LeftFits' /\ OwedFits' /\ EndFits' /\ PriorPinsFaithful' /\ WavesInOrder'
    BY <2>1, <2>3 DEF IInv, TypeOK, CopyFits, Past, LeftFits, Recorded, Ahead, OwedFits, EndFits,
                      PriorPinsFaithful, WavesInOrder
  <2>5. TargetsFit'
    BY <2>1, <2>3 DEF IInv, TargetsFit, OwedFits, Recorded
  <2>6. UndoneFits'
    BY <2>1, <2>3 DEF IInv, UndoneFits, OwedFits, Given, OutsideApi, Live
  <2> QED BY <2>1, <2>4, <2>5, <2>6 DEF IInv
<1>2. CASE PinsDone
  <2> DEFINE r == SetWave(mem, "updating")
  <2>1. pc = "pinning" /\ Save(r) /\ clock' = "new" /\ UNCHANGED <<pine, devs, phase, undoErr, pin0, targets>>
    BY <1>2 DEF PinsDone
  <2>2. mem.current \in WaveIdx /\ mem.wave[mem.current] = "pinning"
    BY <2>1 DEF IInv, LeftFits, Ahead
  <2>3. /\ r \in St /\ Alike(mem, r) /\ Past(r)
        /\ \A j \in WaveIdx : j # mem.current => r.wave[j] = mem.wave[j]
    BY <1>t, <2>2, SetWaveMoves DEF WaveState
  <2> HIDE DEF r
  <2>4. \A j \in WaveIdx : saved.wave[j] = "done" => r.wave[j] = "done"
    BY <2>2, <2>3 DEF IInv, CopyFits
  <2>5. /\ \A d \in Device : saved.prior[d] # Unset => r.prior[d] = saved.prior[d]
        /\ \A d \in Device : r.prior[d] # Unset => r.prior[d] = pin0[d]
        /\ \A d \in Device : r.prior[d] = Unset => applied'[d] \in {Unset, pin0[d]}
        /\ r.status \in {"running", "done"} /\ phase # "rolled_back" /\ owed = Nothing
    BY <1>t, <2>1, <2>3, Working DEF IInv, PriorPinsFaithful, TargetsFit, Recorded, Alike
  <2> QED BY <1>t, <2>1, <2>3, <2>4, <2>5, SaveStep
\* The fleet moves, or moves back; then the devices.
<1>3. ASSUME NEW from \in {"finish_fleet", "revert_fleet"}, NEW to \in {"finish_pins", "revert_pins"},
             pc = from, pc' = to, fleet' \in Release, NEW b \in BOOLEAN, mem' = [mem EXCEPT !.fleetPinned = b],
             Owe(None, fleet'), to = "revert_pins" => from = "revert_fleet",
             UNCHANGED <<pin, devs, db, left, why, clock, pin0>>
      PROVE  IInv'
  <2> USE <1>3
  <2>1. mem' \in St /\ mem'.status = mem.status /\ mem'.prior = mem.prior /\ mem'.current = mem.current
        /\ mem'.wave = mem.wave
    BY <1>t, FleetPinnedMoves
  <2>2. owed.of = Unset /\ owed' = [of |-> None, release |-> fleet'] /\ applied' = applied /\ owed = Nothing
    BY DEF Owe, Nothing
  <2>3. TypeOK'
    BY <2>1, <2>2 DEF IInv, TypeOK, PC
  <2>4. CopyFits'
    BY <1>t, <2>1 DEF IInv, CopyFits, Past
  <2>5. LeftFits' /\ OwedFits' /\ EndFits'
    BY <2>2, RolloutConstants, Working DEF IInv, LeftFits, Recorded, OwedFits, Live, EndFits
  <2>6. TargetsFit' /\ PriorPinsFaithful' /\ WavesInOrder'
    BY <2>2 DEF IInv, TargetsFit, PriorPinsFaithful, WavesInOrder, Recorded
  <2>7. ASSUME NEW d \in Device \ Recorded(saved) PROVE Given(d)'
    BY <2>2, <2>7 DEF IInv, TargetsFit, PriorPinsFaithful, Recorded, Given, OutsideApi
  <2>8. UndoneFits'
    BY <2>7, Working DEF IInv, LeftFits, UndoneFits, Live
  <2> QED BY <2>3, <2>4, <2>5, <2>6, <2>8 DEF IInv
<1>4. CASE FinishFleet
  BY <1>3, <1>4 DEF FinishFleet, Release
<1>5. CASE RevertFleet
  BY <1>3, <1>5 DEF RevertFleet, Release
\* A device is seen to, and its pin is owed a record.
<1>6. ASSUME NEW d \in left, pc \in {"finish_pins", "revert_pins"},
             NEW r \in Release \cup {None}, r = New => pin0[d] = New,
             SetPin(d, r), left' = left \ {d}, Owe(d, r),
             pc = "revert_pins" => r = pin0[d],
             UNCHANGED <<fleet, devs, db, pc, why, mem, clock, pin0>>
      PROVE  IInv'
  <2> USE <1>6
  <2>1. /\ d \in Device /\ d \in Recorded(saved) /\ left \subseteq Recorded(saved)
        /\ owed' = [of |-> d, release |-> r] /\ applied' = applied /\ owed = Nothing /\ owed'.of = d /\ owed'.release = r
    BY DEF IInv, LeftFits, Recorded, Owe
  <2>2. /\ pin' \in [Device -> Release \cup {None}] /\ pin'[d] = IF d \in gone THEN pin[d] ELSE r
        /\ \A e \in Device : e # d => pin'[e] = pin[e]
    BY <1>t, <2>1 DEF SetPin, Release
  <2>3. TypeOK'
    BY <2>1, <2>2 DEF IInv, TypeOK, Release
  <2>4. CopyFits' /\ LeftFits' /\ EndFits'
    BY <2>1 DEF IInv, CopyFits, Past, LeftFits, Recorded, EndFits
  <2>5. OwedFits' /\ TargetsFit'
    BY <2>1, <2>2 DEF IInv, OwedFits, Live, Recorded, TargetsFit
  <2>6. UndoneFits'
    <3>1. ASSUME pc = "revert_pins", NEW e \in Live \ left' PROVE Given(e)'
      <4>1. CASE e = d
        <5>1. owed' # Nothing
          BY <2>1, RolloutConstants DEF Nothing, Release
        <5> QED BY <2>1, <2>2, <3>1, <4>1, <5>1 DEF Live, Given
      <4>2. CASE e # d
        <5>1. pin[e] = pin0[e] /\ ~OutsideApi(e) /\ e \in Device
          BY <2>1, <3>1, <4>2 DEF IInv, UndoneFits, Live, Given
        <5> QED BY <2>1, <2>2, <4>2, <5>1 DEF Given, OutsideApi
      <4> QED BY <4>1, <4>2
    <3> QED BY <3>1, Working DEF UndoneFits, Live
  <2>7. PriorPinsFaithful' /\ WavesInOrder'
    <3>2. \A e \in Device : pin'[e] = New => pin[e] = New \/ pin0[e] = New
      BY <2>2
    <3>3. WavesInOrder'
      BY <3>2, WavesTyped DEF IInv, WavesInOrder
    <3> QED BY <2>1, <2>2, <3>3 DEF IInv, PriorPinsFaithful, Recorded
  <2> QED BY <2>3, <2>4, <2>5, <2>6, <2>7 DEF IInv
<1>7. ASSUME NEW d \in Device, UnpinDevice(d) PROVE IInv'
  <2>1. None # New
    BY RolloutConstants DEF Release
  <2> QED BY <1>6, <1>7, <2>1 DEF UnpinDevice
<1>8. ASSUME NEW d \in Device, RevertDevice(d) PROVE IInv'
  <2>1. d \in left /\ left \subseteq Recorded(saved)
    BY <1>8 DEF RevertDevice, IInv, LeftFits
  <2>2. mem.prior[d] = pin0[d] /\ pin0[d] \in Release \cup {None}
    BY <1>t, <1>8, <2>1 DEF IInv, TypeOK, PriorPinsFaithful, Recorded
  <2> QED BY <1>6, <1>8, <2>1, <2>2 DEF RevertDevice
\* The pins of a wave whose turn it is.
<1>9. ASSUME NEW d \in Device, PinDevice(d) PROVE IInv'
  <2>1. pc = "pinning" /\ d \in left /\ SetPin(d, New) /\ left' = left \ {d}
        /\ UNCHANGED <<fleet, devs, db, pc, why, mem, clock, pin0, targets>>
    BY <1>9 DEF PinDevice
  <2>2. d \in Recorded(saved) /\ d \in Waves[mem.current] /\ Ahead(mem) /\ owed = Nothing
    BY <2>1, Working DEF IInv, LeftFits
  <2>3. /\ pin' \in [Device -> Release \cup {None}] /\ \A e \in Device : e # d => pin'[e] = pin[e]
    BY <1>t, <1>9, <2>1 DEF SetPin, Release
  <2>4. TypeOK'
    BY <2>1, <2>3 DEF IInv, TypeOK
  <2>5. CopyFits' /\ LeftFits' /\ OwedFits' /\ TargetsFit' /\ EndFits'
    BY <2>1, <2>2 DEF IInv, CopyFits, Past, LeftFits, Ahead, Recorded, OwedFits, TargetsFit, EndFits
  <2>6. UndoneFits' /\ PriorPinsFaithful'
    BY <2>1, <2>2, <2>3 DEF IInv, UndoneFits, PriorPinsFaithful, Recorded
  <2>7. WavesInOrder'
    <3> SUFFICES ASSUME NEW k \in WaveIdx, NEW e \in Waves[k], pin'[e] = New, pin0[e] # New, NEW j \in 1..(k - 1)
                 PROVE  Waves[j] = {} \/ saved.wave[j] = "done"
      BY <2>1 DEF WavesInOrder
    <3>1. CASE e = d
      BY <2>2, <3>1, WavesTyped DEF Ahead
    <3>2. CASE e # d
      BY <2>3, <3>2, WavesTyped DEF IInv, WavesInOrder
    <3> QED BY <3>1, <3>2
  <2> QED BY <2>1, <2>4, <2>5, <2>6, <2>7 DEF IInv
<1>10. CASE FinishDone
  <2> DEFINE r == [mem EXCEPT !.status = "done"]
  <2>1. pc = "finish_pins" /\ owed = Nothing /\ Save(r) /\ UNCHANGED <<pine, devs, phase, undoErr, clock, pin0, targets>>
    BY <1>10 DEF FinishDone
  <2>2. /\ r \in St /\ r.status = "done" /\ r.prior = saved.prior /\ r.current = mem.current /\ r.wave = mem.wave
    BY <1>t, StatusMoves
  <2> HIDE DEF r
  <2>3. Past(r) /\ \A j \in WaveIdx : saved.wave[j] = "done" => r.wave[j] = "done"
    BY <1>t, <2>2 DEF IInv, CopyFits, Past
  <2>4. /\ \A d \in Device : r.prior[d] # Unset => r.prior[d] = pin0[d]
        /\ \A d \in Device : r.prior[d] = Unset => applied[d] \in {Unset, pin0[d]}
        /\ phase # "rolled_back"
    BY <2>1, <2>2, Working DEF IInv, PriorPinsFaithful, TargetsFit, Recorded
  <2> QED BY <1>t, <2>1, <2>2, <2>3, <2>4, SaveStep
\* A rollback is over, and its end is saved.
<1>11. ASSUME pc = "revert_pins", left = {}, owed = Nothing, NEW s \in {"halted", "reverted"},
              saved' = [mem EXCEPT !.status = s], mem' = saved', pc' \in {"idle", "closing"}, left' = {},
              why' \in {"none", "halt", "rollback"},
              UNCHANGED <<pine, devs, phase, undoErr, clock, pin0, targets>>
       PROVE  IInv'
  <2> USE <1>11
  <2> DEFINE r == [mem EXCEPT !.status = s]
  <2>0. r \in St /\ r.status = s /\ r.prior = saved.prior /\ r.current = mem.current /\ r.wave = mem.wave
    <3>1. s \in {"running", "done", "halted", "reverted"} /\ mem \in St /\ mem.prior = saved.prior
      BY <1>t
    <3>2. r \in St /\ r.status = s /\ r.prior = mem.prior /\ r.current = mem.current /\ r.wave = mem.wave
      BY <3>1, StatusMoves
    <3> QED BY <3>1, <3>2
  <2> HIDE DEF r
  <2>1. /\ saved' \in St /\ saved'.status = s /\ saved'.prior = saved.prior /\ saved'.current = mem.current
        /\ saved'.wave = mem.wave
    BY <2>0 DEF r
  <2>2. TypeOK'
    BY <2>1 DEF IInv, TypeOK, PC
  <2>3. CopyFits'
    BY <1>t, <2>1 DEF CopyFits, Past
  <2>4. LeftFits' /\ OwedFits' /\ TargetsFit' /\ EndFits'
    BY <2>1, Working DEF IInv, LeftFits, OwedFits, TargetsFit, Recorded, EndFits
  <2>5. UndoneFits'
    BY <2>1 DEF IInv, UndoneFits, Given, OutsideApi, Live
  <2>6. PriorPinsFaithful' /\ WavesInOrder'
    <3>1. \A k \in WaveIdx : \A j \in 1..(k - 1) : j \in WaveIdx
      BY WavesTyped DEF WaveIdx
    <3> QED BY <2>1, <3>1 DEF IInv, PriorPinsFaithful, WavesInOrder, CopyFits
  <2> QED BY <2>2, <2>3, <2>4, <2>5, <2>6 DEF IInv
<1>12. CASE HaltDone
  BY <1>11, <1>12 DEF HaltDone, Save
<1>13. CASE RevertDone
  BY <1>11, <1>13 DEF RevertDone
<1>14. CASE Close
  <2>1. /\ pc = "closing" /\ phase' = "rolled_back" /\ Save(saved)
        /\ UNCHANGED <<pine, devs, undoErr, clock, pin0, targets>>
    BY <1>14 DEF Close
  <2>2. owed = Nothing
    BY <2>1, Working
  <2>3. TypeOK'
    BY <2>1 DEF Save, IInv, TypeOK, PC, Phase
  <2>4. CopyFits' /\ LeftFits' /\ OwedFits' /\ TargetsFit' /\ UndoneFits' /\ EndFits'
    BY <2>1, <2>2 DEF Save, IInv, CopyFits, Past, LeftFits, Recorded, OwedFits, TargetsFit, UndoneFits,
                      Given, OutsideApi, Live, EndFits
  <2> QED BY <2>1, <2>3, <2>4 DEF Save, IInv, PriorPinsFaithful, WavesInOrder
<1> QED BY <1>1, <1>2, <1>4, <1>5, <1>7, <1>8, <1>9, <1>10, <1>12, <1>13, <1>14 DEF Call

-----------------------------------------------------------------------------
(* Failures, and what happens around the rollout.                          *)

\* An undo error saves the copy; a failed call, or a crash, loses it.
LEMMA FailStep == IInv /\ (UndoError \/ Fail) => IInv'
<1> USE DEF pine, devs, targets
<1>1. ASSUME IInv, UndoError PROVE IInv'
  <2>1. /\ pc \in {"revert_fleet", "revert_pins"} /\ owed = Nothing /\ saved' = mem /\ undoErr' = TRUE
        /\ pc' = "closing" /\ left' = {}
        /\ UNCHANGED <<pine, devs, phase, why, mem, clock, pin0, targets>>
    BY <1>1, Working DEF UndoError
  <2>2. saved \in St /\ mem \in St /\ mem.prior = saved.prior /\ mem.status = saved.status
        /\ saved.status \in {"running", "done"} /\ phase # "rolled_back"
    BY <1>1, <2>1, Working DEF IInv, CopyFits
  <2>3. TypeOK'
    BY <1>1, <2>1, <2>2 DEF IInv, TypeOK, PC
  <2>4. CopyFits' /\ LeftFits' /\ OwedFits' /\ TargetsFit' /\ UndoneFits' /\ EndFits'
    BY <1>1, <2>1, <2>2 DEF IInv, CopyFits, Past, LeftFits, Recorded, OwedFits, TargetsFit, UndoneFits, EndFits
  <2>5. PriorPinsFaithful' /\ WavesInOrder'
    <3>1. \A k \in WaveIdx : \A j \in 1..(k - 1) : j \in WaveIdx
      BY WavesTyped DEF WaveIdx
    <3> QED BY <1>1, <2>1, <2>2, <3>1 DEF IInv, PriorPinsFaithful, WavesInOrder, CopyFits
  <2> QED BY <1>1, <2>1, <2>3, <2>4, <2>5 DEF IInv
<1>2. ASSUME IInv, Fail PROVE IInv'
  <2>1. /\ pc # "idle" /\ Save(saved) /\ owed' = Nothing
        /\ UNCHANGED <<pine, devs, phase, undoErr, applied, clock, pin0>>
    BY <1>2 DEF Fail
  <2>2. phase # "rolled_back" /\ saved \in St
    BY <1>2, <2>1, Working
  <2>3. TypeOK'
    BY <1>2, <2>1 DEF Save, IInv, TypeOK, PC
  \* A rollback that was saved owed nothing.
  <2>4. ASSUME saved.status \in {"halted", "reverted"}, NEW d \in Live PROVE Given(d)'
    <3>1. pc = "closing"
      BY <1>2, <2>1, <2>4 DEF IInv, UndoneFits
    <3>2. owed = Nothing
      BY <1>2, <3>1, Working
    <3> QED BY <1>2, <2>1, <2>4, <3>2 DEF IInv, UndoneFits, Given, OutsideApi
  <2>5. UndoneFits'
    BY <2>1, <2>4 DEF Save, UndoneFits, Live
  <2>6. CopyFits' /\ LeftFits' /\ OwedFits' /\ TargetsFit' /\ EndFits'
    BY <1>2, <2>1, <2>2 DEF Save, IInv, CopyFits, Past, LeftFits, Recorded, OwedFits, TargetsFit, EndFits
  <2> QED BY <1>2, <2>1, <2>3, <2>5, <2>6 DEF Save, IInv, PriorPinsFaithful, WavesInOrder
<1> QED BY <1>1, <1>2

\* Devices and time change what the next tick sees.
Outside ==
  /\ UNCHANGED <<pine, db, ctl, pin0, targets>> /\ gone \subseteq gone' /\ gone' \in SUBSET Device
  /\ running' \in [Device -> Release] /\ online' \in SUBSET Device /\ health' \in [Device -> Answer]
  /\ clock' \in {"new", "soaked", "late"}

\* What devices do by themselves keeps the types and the pins.
LEMMA OutsideTyped == IInv /\ (Environment \/ UNCHANGED vars) => Outside
<1> SUFFICES ASSUME IInv, Environment \/ UNCHANGED vars PROVE Outside
  OBVIOUS
<1> USE DEF IInv, TypeOK, devs, Outside
<1>1. ASSUME NEW d \in Device, DeviceUpdates(d) PROVE Outside
  BY <1>1 DEF DeviceUpdates, Target
<1>2. ASSUME NEW d \in Device, ConnectionChanges(d) PROVE Outside
  BY <1>2 DEF ConnectionChanges
<1>3. ASSUME NEW d \in Device, DeviceRemoved(d) PROVE Outside
  BY <1>3 DEF DeviceRemoved
<1>4. ASSUME NEW d \in Device, NEW h \in Says, HealthChanges(d, h) PROVE Outside
  BY <1>4, RolloutConstants DEF HealthChanges
<1>5. CASE TimePasses
  BY <1>5 DEF TimePasses
<1>6. CASE UNCHANGED vars
  BY <1>6 DEF vars
<1> QED BY <1>1, <1>2, <1>3, <1>4, <1>5, <1>6 DEF Environment

\* So it keeps the invariant.
LEMMA OutsideStep == IInv /\ (Environment \/ UNCHANGED vars) => IInv'
<1> SUFFICES ASSUME IInv, Environment \/ UNCHANGED vars PROVE IInv'
  OBVIOUS
<1>1. Outside
  BY OutsideTyped
<1> USE <1>1 DEF Outside, pine, db, ctl, targets
<1>2. TypeOK'
  BY DEF IInv, TypeOK
<1>3. CopyFits' /\ LeftFits' /\ TargetsFit' /\ EndFits' /\ PriorPinsFaithful' /\ WavesInOrder'
  BY DEF IInv, CopyFits, Past, LeftFits, Recorded, Ahead, TargetsFit, EndFits, PriorPinsFaithful, WavesInOrder
<1>4. OwedFits' /\ UndoneFits'
  BY DEF IInv, OwedFits, UndoneFits, Recorded, Given, OutsideApi, Live
<1> QED BY <1>2, <1>3, <1>4 DEF IInv

\* Every step keeps the invariant.
LEMMA InvStep == IInv /\ [Next]_vars => IInv'
<1> SUFFICES ASSUME IInv, [Next]_vars PROVE IInv'
  OBVIOUS
<1>1. CASE RequestRollback
  BY <1>1, RollBackStep DEF RequestRollback
<1> QED BY <1>1, TickStep, CallStep, FailStep, OutsideStep DEF Next

-----------------------------------------------------------------------------
(* The theorems.                                                           *)

\* The inductive invariant holds for any waves, and wherever a call fails or the
\* service stops.
THEOREM IInvInvariant == Spec => []IInv
<1> QED BY InvInit, InvStep, PTL DEF Spec

\* Type correctness: the wave a rollout is on exists, or none is left, and every
\* record is of a device or the fleet.
THEOREM TypeCorrect == Spec => []TypeOK
<1>1. IInv => TypeOK
  BY DEF IInv
<1> QED BY <1>1, IInvInvariant, PTL

\* What a device was pinned to before is recorded, as it was, before the device is
\* touched (rollout.py:173-191, and the save before any pin).
THEOREM PriorPinsRecorded == Spec => []PriorPinsFaithful
<1>1. IInv => PriorPinsFaithful
  BY DEF IInv
<1> QED BY <1>1, IInvInvariant, PTL

\* No device of a wave is moved before the earlier waves are done, however ticks
\* are cut short.
THEOREM WavesKeepOrder == Spec => []WavesInOrder
<1>1. IInv => WavesInOrder
  BY DEF IInv
<1> QED BY <1>1, IInvInvariant, PTL

\* A change that was rolled back without undo errors left every device on the pin
\* it had, and the drift report agrees (rollout.py, on_target of changes.py).
THEOREM RollbackRestoresPins == Spec => []PinsRestored
<1>1. ASSUME IInv, phase = "rolled_back", ~undoErr, NEW d \in Live
      PROVE  pin[d] = pin0[d] /\ ~OutsideApi(d)
  <2>1. pc = "idle" /\ Given(d)
    BY <1>1 DEF IInv, EndFits, UndoneFits
  <2>2. owed = Nothing
    BY <1>1, <2>1, Working
  <2> QED BY <2>1, <2>2 DEF Given
<1>2. IInv => PinsRestored
  BY <1>1 DEF PinsRestored
<1> QED BY <1>2, IInvInvariant, PTL

-----------------------------------------------------------------------------
(* Without faults.                                                         *)

\* The fleet and its devices agree at first.
LEMMA CalmInit == Init => CalmInv
BY StartTyped DEF Init, CalmInv, FleetFits, HeldFits

\* Skipping empty waves does not leave a wave that is being pinned.
LEMMA HeldNow ==
  ASSUME IInv, CalmInv, CanTick, NEW d \in Recorded(saved) \cap Live, ~Held(d)
  PROVE  Now.current \in WaveIdx /\ d \in Waves[Now.current] /\ Now.wave[Now.current] = "pinning"
<1>1. saved \in St /\ Past(saved)
  BY DEF IInv, TypeOK, CopyFits
<1>2. saved.current \in WaveIdx /\ d \in Waves[saved.current] /\ saved.wave[saved.current] = "pinning"
  BY DEF CalmInv, HeldFits, CanTick
<1>3. /\ Now \in St /\ Now.current >= saved.current
      /\ \A j \in WaveIdx : j \in saved.current..(Now.current - 1) => Waves[j] = {}
      /\ Now.current \in WaveIdx => Now.wave[Now.current] = saved.wave[Now.current]
  BY <1>1, SkipMoves DEF Now
<1>4. Now.current \in 1..(Len(Waves) + 1) /\ saved.current \in 1..Len(Waves)
  BY <1>2, <1>3 DEF St, WaveIdx
<1>5. ~ (Now.current > saved.current)
  BY <1>2, <1>3, <1>4
<1>6. Now.current = saved.current
  BY <1>3, <1>4, <1>5
<1> QED BY <1>2, <1>3, <1>6

\* A tick keeps what it knows of the fleet.
LEMMA CalmTick == IInv /\ CalmInv /\ Tick => CalmInv'
<1> SUFFICES ASSUME IInv, CalmInv, Tick PROVE CalmInv'
  OBVIOUS
<1>i. /\ FleetFits /\ pc = "idle" /\ mem = saved /\ saved \in St /\ UNCHANGED pine
  BY DEF CalmInv, IInv, TypeOK, CopyFits, Tick, TickPastWaves, TickRecord, TickPin, TickHalt, TickUpdated,
         TickWait, TickTimeout, TickSoaked, EnterVerify, RollBackHalted, VerifyFailed, VerifyPassed, InWave, CanTick, CanVerify
<1>n. CanTick => Alike(saved, Now) /\ Now.status = "running" /\ Now \in St
  BY NowFits
\* A tick that finds its wave past its pins finds every device of the waves held.
<1>h. ASSUME CanTick, Now.current \in WaveIdx => Now.wave[Now.current] # "pinning",
             NEW d \in Recorded(saved) \cap Live
      PROVE  Held(d)
  BY <1>h, HeldNow
\* The row is saved, the rollout running on.
<1>s. ASSUME CanTick, NEW s, Save(s), s.status = "running", s.fleetPinned = saved.fleetPinned,
             UNCHANGED devs,
             \A d \in Recorded(s) \cap Live :
               Held(d) \/ (s.current \in WaveIdx /\ d \in Waves[s.current] /\ s.wave[s.current] = "pinning")
      PROVE  CalmInv'
  <2>1. Recorded(s) = Recorded(saved)' /\ saved' = s /\ mem' = s /\ pc' = "idle" /\ Live' = Live
    BY <1>s DEF Save, Recorded, Live, devs
  <2> QED BY <1>i, <1>s, <2>1 DEF CalmInv, FleetFits, HeldFits, Held, pine, Live
\* Calls start.
<1>w. ASSUME NEW s, s.fleetPinned = saved.fleetPinned,
             NEW step \in {"revert_fleet", "revert_pins", "finish_fleet"},
             NEW ds, NEW w, Work(s, step, ds, w), UNCHANGED devs, saved.status \in {"running", "done"},
             step = "revert_pins" => ~s.fleetPinned,
             step = "finish_fleet" => \A d \in Recorded(saved) \cap Live : Held(d)
      PROVE  CalmInv'
  BY <1>i, <1>w DEF Work, CalmInv, FleetFits, HeldFits, Held, pine, devs, Live, Recorded
<1>r. ASSUME NEW s, s.fleetPinned = saved.fleetPinned, NEW w, Revert(s, w), UNCHANGED devs,
             saved.status \in {"running", "done"}
      PROVE  CalmInv'
  BY <1>w, <1>r DEF Revert
<1>f. ASSUME NEW s \in St, s.fleetPinned = saved.fleetPinned, Finish(s), UNCHANGED devs, saved.status = "running",
             \A d \in Recorded(saved) \cap Live : Held(d)
      PROVE  CalmInv'
  <2>1. CASE MoveFleet /\ ~s.fleetPinned
    BY <1>w, <1>f, <2>1 DEF Finish
  <2>2. CASE ~ (MoveFleet /\ ~s.fleetPinned)
    <3>1. Save([s EXCEPT !.status = "done"])
      BY <1>f, <2>2 DEF Finish
    <3>2. mem' = saved' /\ saved'.status = "done" /\ saved'.fleetPinned = saved.fleetPinned /\ pc' = "idle"
      BY <1>f, <3>1 DEF Save, St
    <3> QED BY <1>i, <3>2 DEF CalmInv, FleetFits, HeldFits, pine
  <2> QED BY <2>1, <2>2
<1>1. CASE TickPastWaves
  <2>1. CanTick /\ Now.current > Len(Waves) /\ Finish(Now) /\ UNCHANGED devs
    BY <1>1 DEF TickPastWaves
  <2>2. Now.current \notin WaveIdx
    BY <2>1, WavesTyped DEF WaveIdx
  <2>3. \A d \in Recorded(saved) \cap Live : Held(d)
    BY <1>h, <2>1, <2>2
  <2> QED BY <1>f, <1>n, <2>1, <2>3 DEF Alike, CanTick
\* The current wave, in another state.
<1>c. ASSUME NEW ws, InWave(ws), NEW w \in WaveState
      PROVE  LET r == SetWave(Now, w) IN
             /\ CanTick /\ Now.current \in WaveIdx /\ Now.wave[Now.current] \in ws
             /\ r \in St /\ Alike(saved, r) /\ r.status = "running"
             /\ r.current = Now.current /\ r.wave[Now.current] = w
             /\ Recorded(r) = Recorded(saved)
  <2>1. CanTick /\ Now.current \in WaveIdx /\ Now.wave[Now.current] \in ws /\ Past(Now) /\ Now \in St
    BY <1>c, NowFits DEF InWave
  <2>2. LET r == SetWave(Now, w) IN
        r \in St /\ Alike(Now, r) /\ r.current = Now.current /\ r.wave[Now.current] = w
    BY <2>1, SetWaveMoves
  <2> QED BY <1>n, <2>1, <2>2 DEF Alike, Recorded
<1>2. CASE TickRecord
  <2> DEFINE seen == Current \cap Live
             u == SetWave(Now, "pinning")
             base == [d \in Device |-> IF d \in seen THEN HealthOf(d) ELSE u.base[d]]
             was == u.wasOnline \cup (seen \cap online)
             prior == [d \in Device |-> IF d \in seen /\ u.prior[d] = Unset THEN pin[d] ELSE u.prior[d]]
             r == [u EXCEPT !.base = base, !.wasOnline = was, !.prior = prior]
  <2>1. InWave({"pending"}) /\ Save(r) /\ UNCHANGED devs
    BY <1>2 DEF TickRecord
  <2>2. /\ CanTick /\ Now.current \in WaveIdx /\ Now.wave[Now.current] \in {"pending"}
        /\ u \in St /\ Alike(saved, u) /\ u.status = "running" /\ u.current = Now.current
        /\ u.wave[Now.current] = "pinning"
    BY <1>c, <2>1 DEF WaveState
  <2> HIDE DEF u
  <2>3. \A d \in Device : d \in Waves[Now.current] \/ prior[d] = saved.prior[d]
    BY <2>2 DEF Alike, Current
  <2> HIDE DEF base, was, prior
  <2>4. r.status = "running" /\ r.prior = prior /\ r.current = u.current /\ r.wave = u.wave
        /\ r.fleetPinned = saved.fleetPinned
    BY <2>2 DEF St, Alike
  <2> HIDE DEF r
  <2>5. ASSUME NEW d \in Recorded(r) \cap Live PROVE Held(d) \/ d \in Waves[Now.current]
    <3>1. CASE d \in Recorded(saved)
      BY <1>h, <2>2, <2>5, <3>1
    <3>2. CASE d \notin Recorded(saved)
      BY <2>3, <2>4, <2>5, <3>2 DEF Recorded
    <3> QED BY <3>1, <3>2
  <2> QED BY <1>s, <2>1, <2>2, <2>4, <2>5
<1>3. CASE TickPin
  <2>1. /\ InWave({"pinning"}) /\ Work(Now, "pinning", Current \cap Recorded(Now), "none") /\ UNCHANGED devs
    BY <1>3 DEF TickPin
  <2>2. CanTick /\ Alike(saved, Now) /\ Recorded(Now) = Recorded(saved)
    BY <1>n, <2>1 DEF InWave, Alike, Recorded
  <2>3. \A d \in (Recorded(saved) \cap Live) \ left' : Held(d)
    BY <2>1, <2>2, HeldNow DEF Work, Current
  <2> QED BY <1>i, <2>1, <2>2, <2>3
          DEF Work, CalmInv, FleetFits, HeldFits, Held, Recorded, Live, Alike, pine, devs, CanTick
<1>4. CASE TickHalt \/ TickTimeout
  BY <1>4, <1>n, <1>r DEF TickHalt, TickTimeout, InWave, Alike, CanTick
<1>5. CASE TickUpdated
  <2> DEFINE r == SetWave(Now, "soaking")
  <2>1. InWave({"updating"}) /\ Save(r) /\ UNCHANGED devs
    BY <1>5 DEF TickUpdated
  <2>2. /\ CanTick /\ Now.current \in WaveIdx /\ Now.wave[Now.current] \in {"updating"}
        /\ Alike(saved, r) /\ r.status = "running" /\ Recorded(r) = Recorded(saved)
    BY <1>c, <2>1 DEF WaveState
  <2> HIDE DEF r
  <2>3. \A d \in Recorded(r) \cap Live : Held(d)
    BY <1>h, <2>2
  <2> QED BY <1>s, <2>1, <2>2, <2>3 DEF Alike
<1>6. CASE TickWait
  <2>1. /\ InWave({"updating"}) \/ InWave({"soaking"})
        /\ Save(Now) /\ UNCHANGED devs
    BY <1>6 DEF TickWait
  <2>2. CanTick /\ Now.wave[Now.current] # "pinning" /\ Recorded(Now) = Recorded(saved)
    BY <1>n, <2>1 DEF InWave, Alike, Recorded
  <2>3. \A d \in Recorded(Now) \cap Live : Held(d)
    BY <1>h, <2>2
  <2> QED BY <1>n, <1>s, <2>1, <2>2, <2>3 DEF Alike
<1>7. CASE TickSoaked
  <2> DEFINE u == SetWave(Now, "done")
             r == [u EXCEPT !.current = @ + 1]
  <2>1. /\ InWave({"soaking"}) /\ UNCHANGED devs
        /\ Finish(r) \/ Save(r)
    BY <1>7 DEF TickSoaked
  <2>2. /\ CanTick /\ Now.current \in WaveIdx /\ Now.wave[Now.current] \in {"soaking"}
        /\ u \in St /\ Alike(saved, u) /\ u.status = "running" /\ Recorded(u) = Recorded(saved)
        /\ u.current \in WaveIdx
    BY <1>c, <2>1 DEF WaveState
  <2> HIDE DEF u
  <2>3. u.current + 1 \in 1..(Len(Waves) + 1)
    BY <2>2, WavesTyped DEF WaveIdx
  <2>4. r \in St /\ r.status = "running" /\ r.prior = u.prior /\ r.fleetPinned = saved.fleetPinned
    BY <2>2, <2>3 DEF St, Alike
  <2> HIDE DEF r
  <2>5. Recorded(r) = Recorded(saved)
    BY <2>2, <2>4 DEF Recorded
  <2>6. \A d \in Recorded(saved) \cap Live : Held(d)
    BY <1>h, <2>2
  <2> QED BY <1>f, <1>s, <2>1, <2>2, <2>4, <2>5, <2>6 DEF CanTick
\* The change goes on, or a rollback starts.
<1>8. CASE EnterVerify \/ RollBackHalted \/ VerifyPassed
  BY <1>8, <1>i DEF EnterVerify, RollBackHalted, VerifyPassed, CanVerify, ctl, CalmInv, FleetFits, HeldFits, pine
<1>9. CASE VerifyFailed
  <2>1. CASE saved.status \in {"halted", "reverted"}
    BY <1>9, <1>i, <2>1 DEF VerifyFailed, RollBack, CalmInv, FleetFits, HeldFits, pine
  <2>2. CASE saved.status \notin {"halted", "reverted"}
    BY <1>9, <1>i, <1>r, <2>2 DEF VerifyFailed, RollBack, St
  <2> QED BY <2>1, <2>2
<1> QED BY <1>1, <1>2, <1>3, <1>4, <1>5, <1>6, <1>7, <1>8, <1>9 DEF Tick

\* The calls: the fleet moves as the copy notes, and a wave is held once it is pinned.
LEMMA CalmCall == IInv /\ CalmInv /\ Call => CalmInv'
<1> SUFFICES ASSUME IInv, CalmInv, Call PROVE CalmInv'
  OBVIOUS
<1> USE DEF pine, devs, db, ctl, targets
<1>t. /\ saved \in St /\ mem \in St /\ mem.prior = saved.prior /\ pin \in [Device -> Release \cup {None}]
      /\ pc = "closing" => mem = saved
      /\ pc \notin {"idle", "closing"} => saved.status \in {"running", "done"}
  BY Working DEF IInv, TypeOK, CopyFits
<1>1. CASE RecordTarget
  BY <1>1 DEF RecordTarget, CalmInv, FleetFits, HeldFits, Held, Recorded, Live
<1>2. CASE PinsDone
  <2> DEFINE r == SetWave(mem, "updating")
  <2>1. pc = "pinning" /\ left = {} /\ Save(r) /\ UNCHANGED <<pine, devs>>
    BY <1>2 DEF PinsDone
  <2>2. mem.current \in WaveIdx /\ Past(mem)
    BY <2>1 DEF IInv, LeftFits, Ahead, CopyFits
  <2>3. Alike(mem, r)
    BY <1>t, <2>2, SetWaveMoves DEF WaveState
  <2> HIDE DEF r
  <2>4. /\ saved' = r /\ mem' = r /\ pc' = "idle" /\ fleet' = fleet /\ pin' = pin /\ Live' = Live
        /\ Recorded(saved)' = Recorded(saved) /\ saved'.fleetPinned = mem.fleetPinned
        /\ saved'.status = saved.status
    BY <1>t, <2>1, <2>3 DEF Save, Recorded, Alike, IInv, CopyFits, Live
  <2>5. \A d \in Recorded(saved) \cap Live : Held(d)
    BY <2>1 DEF CalmInv, HeldFits
  <2>6. saved.status \in {"running", "done"}
    BY <1>t, <2>1
  <2>7. FleetFits'
    BY <2>4, <2>6 DEF CalmInv, FleetFits
  <2>8. HeldFits'
    BY <2>4, <2>5 DEF HeldFits, Held
  <2> QED BY <2>7, <2>8 DEF CalmInv
<1>3. CASE FinishFleet \/ RevertFleet
  <2>1. PICK b \in BOOLEAN :
          /\ mem' = [mem EXCEPT !.fleetPinned = b] /\ (b \/ fleet' = Prev) /\ pc' \in {"finish_pins", "revert_pins"}
          /\ pc' = "revert_pins" => ~b
          /\ UNCHANGED saved /\ pc \notin {"idle", "closing"}
    BY <1>3 DEF FinishFleet, RevertFleet
  <2>2. mem'.fleetPinned = b
    BY <1>t, <2>1, FleetPinnedMoves
  <2> QED BY <1>t, <2>1, <2>2 DEF CalmInv, FleetFits, HeldFits
<1>4. ASSUME NEW d \in Device, UnpinDevice(d) \/ RevertDevice(d) PROVE CalmInv'
  BY <1>4 DEF UnpinDevice, RevertDevice, CalmInv, FleetFits, HeldFits
<1>5. ASSUME NEW d \in Device, PinDevice(d) PROVE CalmInv'
  <2>1. /\ pc = "pinning" /\ SetPin(d, New) /\ left' = left \ {d}
        /\ UNCHANGED <<fleet, devs, db, pc, why, mem, clock, pin0, targets>>
    BY <1>5 DEF PinDevice
  <2>2. \A e \in Live : pin'[e] = IF e = d THEN New ELSE pin[e]
    BY <1>t, <1>5, <2>1 DEF SetPin, Live
  <2> QED BY <2>1, <2>2 DEF CalmInv, FleetFits, HeldFits, Held, Recorded, Live
<1>6. ASSUME NEW s \in {"done", "halted", "reverted"}, saved' = [mem EXCEPT !.status = s], mem' = saved',
             pc' \in {"idle", "closing"}, s # "done" => pc = "revert_pins", UNCHANGED pine
      PROVE  CalmInv'
  <2>1. saved'.status = s /\ mem'.fleetPinned = mem.fleetPinned
    BY <1>t, <1>6 DEF St
  <2> QED BY <1>6, <2>1 DEF CalmInv, FleetFits, HeldFits
<1>7. CASE FinishDone
  BY <1>6, <1>7 DEF FinishDone, Save
<1>8. CASE HaltDone
  BY <1>6, <1>8 DEF HaltDone, Save
<1>9. CASE RevertDone
  BY <1>6, <1>9 DEF RevertDone
<1>10. CASE Close
  BY <1>t, <1>10 DEF Close, Save, CalmInv, FleetFits, HeldFits
<1> QED BY <1>1, <1>2, <1>3, <1>4, <1>5, <1>7, <1>8, <1>9, <1>10 DEF Call

\* Without faults, every step keeps the fleet behind its devices.
LEMMA CalmStep ==
  ASSUME Faulty = FALSE
  PROVE  IInv /\ CalmInv /\ [Next]_vars => CalmInv'
<1> SUFFICES ASSUME IInv, CalmInv, [Next]_vars PROVE CalmInv'
  OBVIOUS
<1>1. CASE Environment \/ UNCHANGED vars
  BY <1>1, OutsideTyped DEF Outside, pine, db, ctl, CalmInv, FleetFits, HeldFits, Held, Recorded, Live
<1>2. CASE RequestRollback
  <2>1. pc = "idle" /\ RollBack /\ UNCHANGED <<pine, phase>> /\ mem = saved /\ saved \in St
    BY <1>2 DEF RequestRollback, IInv, TypeOK, CopyFits
  <2>2. CASE saved.status \in {"halted", "reverted"}
    BY <2>1, <2>2 DEF RollBack, CalmInv, FleetFits, HeldFits, pine
  <2>3. CASE saved.status \notin {"halted", "reverted"}
    BY <2>1, <2>3 DEF RollBack, Revert, Work, CalmInv, FleetFits, HeldFits, pine
  <2> QED BY <2>2, <2>3
<1> QED BY <1>1, <1>2, CalmTick, CalmCall DEF Next, UndoError, Fail

\* Where no call fails and the service stays up: the fleet has moved only when the
\* record says so, and the devices it has touched are held on the release.
THEOREM CalmInvariant ==
  ASSUME Faulty = FALSE
  PROVE  Spec => [](IInv /\ CalmInv)
<1> QED BY InvInit, InvStep, CalmInit, CalmStep, PTL DEF Spec

\* Where no call fails and the service stays up, a change that was rolled back left
\* the fleet on its previous release.
THEOREM RollbackRestoresFleet ==
  ASSUME Faulty = FALSE
  PROVE  Spec => []FleetRestored
<1>1. IInv /\ CalmInv => FleetRestored
  BY DEF IInv, EndFits, CalmInv, FleetFits, FleetRestored
<1> QED BY <1>1, CalmInvariant, PTL

\* ... and the fleet moves to the release only while every device of the waves is
\* held on it, never once a halt began to put devices back.
THEOREM FleetFollowsHeldDevices ==
  ASSUME Faulty = FALSE
  PROVE  Spec => FleetMovesOnHeldDevices
<1> DEFINE Moves == fleet # New /\ fleet' = New
           AllHeld == \A d \in Recorded(saved) \cap Live : pin[d] = New
<1>1. ASSUME IInv, CalmInv, [Next]_vars, Moves PROVE FinishFleet
  <2>1. ~RevertFleet
    BY <1>1, RolloutConstants DEF RevertFleet
  <2>2. CASE Tick
    BY <1>1, <2>2 DEF Tick, TickPastWaves, TickRecord, TickPin, TickHalt, TickUpdated, TickWait, TickTimeout,
                      TickSoaked, EnterVerify, RollBackHalted, VerifyFailed, VerifyPassed, pine
  <2>3. CASE Call
    BY <1>1, <2>1, <2>3 DEF Call, RecordTarget, PinsDone, FinishDone, HaltDone, RevertDone, Close, PinDevice,
                            UnpinDevice, RevertDevice, pine
  <2>4. CASE UndoError \/ RequestRollback \/ Fail
    BY <1>1, <2>4 DEF UndoError, RequestRollback, Fail, pine
  <2>5. CASE Environment \/ UNCHANGED vars
    BY <1>1, <2>5, OutsideTyped DEF Outside, pine
  <2> QED BY <1>1, <2>2, <2>3, <2>4, <2>5 DEF Next
<1>2. IInv /\ CalmInv /\ [Next]_vars => [Moves => AllHeld]_vars
  BY <1>1 DEF FinishFleet, CalmInv, HeldFits, Held
<1> HIDE DEF Moves, AllHeld
<1>3. Spec => [][Moves => AllHeld]_vars
  BY <1>2, CalmInvariant, PTL DEF Spec
<1> QED BY <1>3 DEF FleetMovesOnHeldDevices, Moves, AllHeld

-----------------------------------------------------------------------------
(* What a rollout is for.                                                  *)

\* The devices of the waves a copy has begun have their pins recorded.
CoveredBy(s, r) == \A j \in WaveIdx : s.wave[j] # "pending" => Waves[j] \cap Live \subseteq Recorded(r)

\* What drift compares x with is r, once the record that is owed is written.
Row(x, r) == IF owed # Nothing /\ owed.of = x THEN owed.release = r ELSE applied[x] \in {Unset, r}

\* The end of a rollout, under way: it covers the devices of every wave, and those it
\* has seen to follow the fleet, which has moved.
DoneInv ==
  /\ CoveredBy(saved, saved) /\ CoveredBy(mem, saved)
  /\ saved.status = "running" => ~saved.fleetPinned
  /\ mem.status = "running" /\ pc # "finish_pins" => ~mem.fleetPinned
  /\ pc \in {"finish_fleet", "finish_pins"} => Member \cap Live \subseteq Recorded(saved)
  /\ pc = "finish_fleet" => left = Recorded(saved)
  /\ pc = "finish_pins" =>
       /\ fleet = New /\ Row(None, New)
       /\ \A d \in (Recorded(saved) \cap Live) \ left : pin[d] = None /\ Row(d, None)

\* Nothing has begun.
LEMMA DoneInit == Init => DoneInv
<1>1. Start.wave = [i \in WaveIdx |-> "pending"] /\ Start.fleetPinned = FALSE
  BY DEF Start
<1> QED BY <1>1 DEF Init, DoneInv, CoveredBy

\* A row is saved whose waves are covered.
LEMMA DoneSave ==
  ASSUME NEW s, Save(s), gone \subseteq gone', CoveredBy(s, s), s.status = "running" => ~s.fleetPinned
  PROVE  DoneInv'
BY DEF Save, DoneInv, CoveredBy, Recorded, Live

\* Calls start, on a copy whose waves are covered.
LEMMA DoneWork ==
  ASSUME NEW s, NEW step \in {"pinning", "finish_fleet", "revert_fleet", "revert_pins"}, NEW ds, NEW w,
         Work(s, step, ds, w), UNCHANGED devs, DoneInv, CoveredBy(s, saved),
         s.status = "running" => ~s.fleetPinned,
         step = "finish_fleet" => ds = Recorded(saved) /\ Member \cap Live \subseteq Recorded(saved)
  PROVE  DoneInv'
BY DEF Work, DoneInv, CoveredBy, Recorded, Live, devs

\* A rollback starts.
LEMMA DoneRevert ==
  ASSUME NEW s, NEW w, Revert(s, w), UNCHANGED devs, DoneInv, CoveredBy(s, saved),
         s.status = "running" => ~s.fleetPinned
  PROVE  DoneInv'
<1> DEFINE step == IF s.fleetPinned THEN "revert_fleet" ELSE "revert_pins"
<1>1. step \in {"pinning", "finish_fleet", "revert_fleet", "revert_pins"} /\ step # "finish_fleet"
      /\ Work(s, step, Recorded(s), w)
  BY DEF Revert
<1> HIDE DEF step
<1> QED BY <1>1, DoneWork

\* A wave is skipped only when it has no device to cover.
LEMMA NowCovered ==
  ASSUME IInv, DoneInv, CanTick
  PROVE  CoveredBy(Now, saved) /\ ~Now.fleetPinned
<1>1. saved \in St /\ Past(saved)
  BY DEF IInv, TypeOK, CopyFits
<1>2. /\ Now \in St /\ Alike(saved, Now)
      /\ \A j \in WaveIdx : j \in saved.current..(Now.current - 1) => Waves[j] = {}
      /\ \A j \in WaveIdx : j >= Now.current => Now.wave[j] = saved.wave[j]
  BY <1>1, SkipMoves DEF Now
<1>3. Now.current \in Nat /\ saved.current \in Nat
  BY <1>1, <1>2, WavesTyped DEF St
<1>4. ASSUME NEW j \in WaveIdx, Now.wave[j] # "pending"
      PROVE  Waves[j] \cap Live \subseteq Recorded(saved)
  <2>1. CASE j < saved.current
    BY <1>1, <2>1 DEF Past, DoneInv, CoveredBy
  <2>2. CASE j \in saved.current..(Now.current - 1)
    BY <1>2, <2>2
  <2>3. CASE j >= Now.current
    BY <1>2, <1>4, <2>3 DEF DoneInv, CoveredBy
  <2>4. j \in Nat
    BY WavesTyped
  <2> QED BY <1>3, <2>1, <2>2, <2>3, <2>4
<1>5. ~saved.fleetPinned
  BY DEF DoneInv, CanTick
<1> QED BY <1>2, <1>4, <1>5 DEF CoveredBy, Alike

\* Once every wave is done every device of the rollout was seen to.
LEMMA WholeCovered ==
  ASSUME NEW s, CoveredBy(s, saved), \A j \in WaveIdx : s.wave[j] = "done"
  PROVE  Member \cap Live \subseteq Recorded(saved)
BY DEF CoveredBy, Member

\* The waves are over: the rollout is done, or the fleet moves next.
LEMMA DoneFinish ==
  ASSUME DoneInv, NEW s \in St, CoveredBy(s, saved), s.prior = saved.prior, ~s.fleetPinned,
         \A j \in WaveIdx : s.wave[j] = "done", Finish(s), UNCHANGED devs
  PROVE  DoneInv'
<1>1. Recorded(s) = Recorded(saved) /\ Member \cap Live \subseteq Recorded(saved)
  BY WholeCovered DEF Recorded
<1>2. CASE MoveFleet
  BY <1>1, <1>2, DoneWork DEF Finish
<1>3. CASE ~MoveFleet
  <2> DEFINE r == [s EXCEPT !.status = "done"]
  <2>1. r.status = "done" /\ r.prior = s.prior /\ r.wave = s.wave
    BY StatusMoves
  <2>2. Save(r) /\ gone \subseteq gone'
    BY <1>3 DEF Finish, devs
  <2> HIDE DEF r
  <2>3. CoveredBy(r, r)
    BY <2>1 DEF CoveredBy, Recorded
  <2> QED BY <2>1, <2>2, <2>3, DoneSave
<1> QED BY <1>2, <1>3

\* A tick covers a wave before it begins it.
LEMMA DoneTick == IInv /\ DoneInv /\ Tick => DoneInv'
<1> SUFFICES ASSUME IInv, DoneInv, Tick PROVE DoneInv'
  OBVIOUS
<1>i. pc = "idle" /\ UNCHANGED devs /\ gone \subseteq gone' /\ saved \in St
  BY DEF IInv, TypeOK, Tick, TickPastWaves, TickRecord, TickPin, TickHalt, TickUpdated, TickWait, TickTimeout,
         TickSoaked, EnterVerify, RollBackHalted, VerifyFailed, VerifyPassed, InWave, CanTick, CanVerify, devs
<1>n. ASSUME CanTick
      PROVE  /\ Now \in St /\ Past(Now) /\ Now.status = "running" /\ Now.prior = saved.prior /\ Recorded(Now) = Recorded(saved)
             /\ CoveredBy(Now, saved) /\ ~Now.fleetPinned
  BY <1>n, NowFits, NowCovered DEF Alike, Recorded
\* The current wave, begun, in another state.
<1>c. ASSUME NEW ws, InWave(ws), NEW w \in WaveState
      PROVE  LET r == SetWave(Now, w) IN
             /\ CanTick /\ Now.current \in WaveIdx /\ Now.wave[Now.current] \in ws
             /\ r \in St /\ Past(r) /\ r.status = "running" /\ r.prior = saved.prior /\ ~r.fleetPinned
             /\ r.current = Now.current /\ r.wave[Now.current] = w /\ Recorded(r) = Recorded(saved)
             /\ \A j \in WaveIdx : j # Now.current => r.wave[j] = Now.wave[j]
  <2>1. CanTick /\ Now.current \in WaveIdx /\ Now.wave[Now.current] \in ws
    BY <1>c, NowFits DEF InWave
  <2> DEFINE r == SetWave(Now, w)
  <2>2. /\ r \in St /\ Past(r) /\ Alike(Now, r) /\ r.current = Now.current /\ r.wave[Now.current] = w
        /\ \A j \in WaveIdx : j # Now.current => r.wave[j] = Now.wave[j]
    BY <1>n, <2>1, SetWaveMoves
  <2> HIDE DEF r
  <2>3. r.status = "running" /\ r.prior = saved.prior /\ ~r.fleetPinned /\ Recorded(r) = Recorded(saved)
    BY <1>n, <2>1, <2>2 DEF Alike, Recorded
  <2> QED BY <2>1, <2>2, <2>3 DEF r
<1>1. CASE TickPastWaves
  <2>1. CanTick /\ Now.current > Len(Waves) /\ Finish(Now)
    BY <1>1 DEF TickPastWaves
  <2>2. \A j \in WaveIdx : j < Now.current
    BY <1>n, <2>1, WavesTyped DEF St, WaveIdx
  <2>3. \A j \in WaveIdx : Now.wave[j] = "done"
    BY <1>n, <2>1, <2>2 DEF Past
  <2> QED BY <1>i, <1>n, <2>1, <2>3, DoneFinish
<1>2. CASE TickRecord
  <2> DEFINE seen == Current \cap Live
             u == SetWave(Now, "pinning")
             base == [d \in Device |-> IF d \in seen THEN HealthOf(d) ELSE u.base[d]]
             was == u.wasOnline \cup (seen \cap online)
             prior == [d \in Device |-> IF d \in seen /\ u.prior[d] = Unset THEN pin[d] ELSE u.prior[d]]
             r == [u EXCEPT !.base = base, !.wasOnline = was, !.prior = prior]
  <2>1. InWave({"pending"}) /\ Save(r)
    BY <1>2 DEF TickRecord
  <2>2. /\ CanTick /\ u \in St /\ u.status = "running" /\ u.prior = saved.prior /\ ~u.fleetPinned
        /\ Now.current \in WaveIdx
        /\ \A j \in WaveIdx : j # Now.current => u.wave[j] = Now.wave[j]
    BY <1>c, <2>1 DEF WaveState
  <2> HIDE DEF u
  <2>3. /\ \A d \in Device : prior[d] = Unset => saved.prior[d] = Unset
        /\ \A d \in Waves[Now.current] \cap Live : prior[d] # Unset
    BY <2>2, RolloutConstants DEF Current, Live, IInv, TypeOK, Release
  <2> HIDE DEF base, was, prior
  <2>4. r.status = "running" /\ r.prior = prior /\ r.wave = u.wave /\ ~r.fleetPinned
    BY <2>2 DEF St
  <2> HIDE DEF r
  <2>5. ASSUME NEW j \in WaveIdx, r.wave[j] # "pending"
        PROVE  Waves[j] \cap Live \subseteq Recorded(r)
    <3>1. CASE j = Now.current
      BY <2>3, <2>4, <3>1 DEF Recorded, Live
    <3>2. CASE j # Now.current
      <4>1. Waves[j] \cap Live \subseteq Recorded(saved)
        BY <1>n, <2>2, <2>4, <2>5, <3>2 DEF CoveredBy
      <4> QED BY <2>3, <2>4, <4>1 DEF Recorded
    <3> QED BY <3>1, <3>2
  <2> QED BY <1>i, <2>1, <2>4, <2>5, DoneSave DEF CoveredBy
<1>3. CASE TickPin
  <2>1. CanTick /\ Work(Now, "pinning", Current \cap Recorded(Now), "none")
    BY <1>3 DEF TickPin, InWave
  <2> QED BY <1>i, <1>n, <2>1, DoneWork
<1>4. CASE TickHalt \/ TickTimeout
  <2>1. CanTick /\ Revert(Now, "halt")
    BY <1>4 DEF TickHalt, TickTimeout, InWave
  <2> QED BY <1>i, <1>n, <2>1, DoneRevert
\* A wave that was begun is still covered in any state.
<1>b. ASSUME NEW ws, InWave(ws), "pending" \notin ws, NEW w \in WaveState
      PROVE  CoveredBy(SetWave(Now, w), saved)
  <2> DEFINE r == SetWave(Now, w)
  <2>1. /\ CanTick /\ Now.current \in WaveIdx /\ Now.wave[Now.current] \in ws
        /\ \A j \in WaveIdx : j # Now.current => r.wave[j] = Now.wave[j]
    BY <1>b, <1>c
  <2> HIDE DEF r
  <2>2. CoveredBy(r, saved)
    BY <1>b, <1>n, <2>1 DEF CoveredBy
  <2> QED BY <2>2 DEF r
<1>5. CASE TickUpdated
  <2> DEFINE r == SetWave(Now, "soaking")
  <2>1. InWave({"updating"}) /\ Save(r)
    BY <1>5 DEF TickUpdated
  <2>2. r.prior = saved.prior /\ ~r.fleetPinned /\ CoveredBy(r, saved)
    BY <1>b, <1>c, <2>1 DEF WaveState
  <2> HIDE DEF r
  <2>3. CoveredBy(r, r)
    BY <2>2 DEF CoveredBy, Recorded
  <2> QED BY <1>i, <2>1, <2>2, <2>3, DoneSave
<1>6. CASE TickWait
  <2>1. CanTick /\ Save(Now)
    BY <1>6 DEF TickWait, InWave
  <2>2. CoveredBy(Now, Now)
    BY <1>n, <2>1 DEF CoveredBy
  <2> QED BY <1>i, <1>n, <2>1, <2>2, DoneSave
<1>7. CASE TickSoaked
  <2> DEFINE u == SetWave(Now, "done")
             r == [u EXCEPT !.current = @ + 1]
  <2>1. /\ InWave({"soaking"})
        /\ IF r.current > Len(Waves) THEN Finish(r) ELSE Save(r)
    BY <1>7 DEF TickSoaked
  <2>2. /\ u \in St /\ Past(u) /\ u.prior = saved.prior /\ ~u.fleetPinned /\ CoveredBy(u, saved)
        /\ u.current \in WaveIdx /\ u.wave[u.current] = "done"
    BY <1>b, <1>c, <2>1 DEF WaveState
  <2> HIDE DEF u
  <2>3. u.current + 1 \in 1..(Len(Waves) + 1)
    BY <2>2, WavesTyped DEF WaveIdx
  <2>4. r \in St /\ r.prior = saved.prior /\ ~r.fleetPinned /\ r.wave = u.wave /\ r.current = u.current + 1
    BY <2>2, <2>3 DEF St
  <2> HIDE DEF r
  <2>5. CoveredBy(r, saved) /\ CoveredBy(r, r)
    BY <2>2, <2>4 DEF CoveredBy, Recorded
  <2>6. CASE r.current > Len(Waves)
    <3>1. \A j \in WaveIdx : j < u.current \/ j = u.current
      BY <2>2, <2>4, <2>6, WavesTyped DEF WaveIdx
    <3>2. \A j \in WaveIdx : r.wave[j] = "done"
      BY <2>2, <2>4, <3>1 DEF Past
    <3>3. Finish(r)
      BY <2>1, <2>6
    <3> QED BY <1>i, <2>4, <2>5, <3>2, <3>3, DoneFinish
  <2>7. CASE ~ (r.current > Len(Waves))
    BY <1>i, <2>1, <2>4, <2>5, <2>7, DoneSave
  <2> QED BY <2>6, <2>7
<1>8. CASE EnterVerify \/ RollBackHalted \/ VerifyPassed
  BY <1>8, <1>i DEF EnterVerify, RollBackHalted, VerifyPassed, ctl, devs, DoneInv, CoveredBy, Recorded, Live
<1>9. CASE VerifyFailed
  <2>1. CASE saved.status \in {"halted", "reverted"}
    BY <1>9, <1>i, <2>1 DEF VerifyFailed, RollBack, DoneInv, CoveredBy, Recorded, Live, devs
  <2>2. CASE saved.status \notin {"halted", "reverted"}
    BY <1>9, <1>i, <2>2, DoneRevert DEF VerifyFailed, RollBack, DoneInv
  <2> QED BY <2>1, <2>2
<1> QED BY <1>1, <1>2, <1>3, <1>4, <1>5, <1>6, <1>7, <1>8, <1>9 DEF Tick

\* The end of a rollout gives back what every device of the waves was held on, after
\* the fleet, and the records follow.
LEMMA DoneCall == IInv /\ DoneInv /\ Call => DoneInv'
<1> SUFFICES ASSUME IInv, DoneInv, Call PROVE DoneInv'
  OBVIOUS
<1> USE DEF pine, devs, db, ctl, targets
<1>t. /\ saved \in St /\ mem \in St /\ Past(mem) /\ mem.prior = saved.prior /\ mem.status = saved.status
      /\ pin \in [Device -> Release \cup {None}] /\ applied \in [Device \cup {None} -> Release \cup {None, Unset}]
      /\ left \subseteq Recorded(saved)
  BY DEF IInv, TypeOK, CopyFits, LeftFits
<1>1. CASE RecordTarget
  <2>1. owed # Nothing /\ applied' = [applied EXCEPT ![owed.of] = owed.release] /\ owed' = Nothing
    BY <1>1 DEF RecordTarget
  <2>2. owed.of \in Device \cup {None}
    BY <2>1 DEF IInv, TypeOK
  <2>3. \A x \in Device \cup {None}, r \in {New, None} : Row(x, r) => Row(x, r)'
    BY <1>t, <2>1, <2>2 DEF Row
  <2>4. /\ UNCHANGED <<pine, devs, db, ctl>> /\ Recorded(saved)' = Recorded(saved) /\ Live' = Live
        /\ Recorded(saved) \subseteq Device
    BY <1>1 DEF RecordTarget, Recorded, Live
  <2>5. CoveredBy(saved, saved)' /\ CoveredBy(mem, saved)'
    BY <2>4 DEF DoneInv, CoveredBy
  <2> QED BY <2>3, <2>4, <2>5 DEF DoneInv
<1>2. CASE PinsDone
  <2> DEFINE r == SetWave(mem, "updating")
  <2>1. pc = "pinning" /\ Save(r) /\ gone' = gone
    BY <1>2 DEF PinsDone
  <2>2. mem.current \in WaveIdx /\ mem.wave[mem.current] = "pinning"
    BY <2>1 DEF IInv, LeftFits, Ahead
  <2>3. Alike(mem, r) /\ \A j \in WaveIdx : j # mem.current => r.wave[j] = mem.wave[j]
    BY <1>t, <2>2, SetWaveMoves DEF WaveState
  <2> HIDE DEF r
  <2>4. CoveredBy(r, r)
    BY <1>t, <2>2, <2>3 DEF DoneInv, CoveredBy, Recorded, Alike
  <2>5. r.status = "running" => ~r.fleetPinned
    BY <2>1, <2>3 DEF DoneInv, Alike
  <2> QED BY <2>1, <2>4, <2>5, DoneSave
<1>3. CASE FinishFleet
  <2>1. /\ pc = "finish_fleet" /\ pc' = "finish_pins" /\ fleet' = New /\ owed' = [of |-> None, release |-> New]
        /\ mem' = [mem EXCEPT !.fleetPinned = TRUE] /\ UNCHANGED <<pin, devs, db, left>>
    BY <1>3 DEF FinishFleet, Owe
  <2>2. mem'.wave = mem.wave
    BY <1>t, <2>1, FleetPinnedMoves
  <2>3. Row(None, New)'
    BY <2>1, RolloutConstants DEF Row, Nothing
  <2>4. left = Recorded(saved) /\ Member \cap Live \subseteq Recorded(saved)
    BY <2>1 DEF DoneInv
  <2> QED BY <2>1, <2>2, <2>3, <2>4 DEF DoneInv, CoveredBy, Recorded, Live
<1>4. CASE RevertFleet
  <2>1. pc' = "revert_pins" /\ mem' = [mem EXCEPT !.fleetPinned = FALSE] /\ UNCHANGED <<devs, db>>
    BY <1>4 DEF RevertFleet
  <2>2. mem'.wave = mem.wave /\ mem'.fleetPinned = FALSE
    BY <1>t, <2>1, FleetPinnedMoves
  <2> QED BY <2>1, <2>2 DEF DoneInv, CoveredBy, Recorded, Live
<1>5. ASSUME NEW d \in Device, PinDevice(d) \/ RevertDevice(d) PROVE DoneInv'
  BY <1>5 DEF PinDevice, RevertDevice, DoneInv, CoveredBy, Recorded, Live
<1>6. ASSUME NEW d \in Device, UnpinDevice(d) PROVE DoneInv'
  <2>1. /\ pc = "finish_pins" /\ d \in left /\ SetPin(d, None) /\ left' = left \ {d}
        /\ owed = Nothing /\ owed' = [of |-> d, release |-> None] /\ applied' = applied
        /\ UNCHANGED <<fleet, devs, db, pc, mem>>
    BY <1>6 DEF UnpinDevice, Owe
  <2>2. /\ \A e \in Device : e # d => pin'[e] = pin[e]
        /\ d \in Live => pin'[d] = None
    BY <1>t, <1>6, <2>1 DEF SetPin, Live
  <2>3. \A x \in (Device \cup {None}) \ {d} : \A r \in {New, None} : Row(x, r) => Row(x, r)'
    BY <2>1 DEF Row
  <2>4. Row(d, None)' /\ None # d
    BY <2>1, RolloutConstants DEF Row, Nothing
  <2>5. Recorded(saved)' = Recorded(saved) /\ Live' = Live /\ Recorded(saved) \subseteq Device
    BY <2>1 DEF Recorded, Live
  <2>6. \A e \in (Recorded(saved) \cap Live) \ left' : pin'[e] = None /\ Row(e, None)'
    BY <2>1, <2>2, <2>3, <2>4, <2>5 DEF DoneInv
  <2>7. CoveredBy(saved, saved)' /\ CoveredBy(mem, saved)'
    BY <2>1, <2>5 DEF DoneInv, CoveredBy
  <2> QED BY <2>1, <2>3, <2>4, <2>5, <2>6, <2>7 DEF DoneInv
\* The copy is saved with its end.
<1>7. ASSUME NEW w \in {"done", "halted", "reverted"}, saved' = [mem EXCEPT !.status = w], mem' = saved',
             pc' \in {"idle", "closing"}, UNCHANGED devs
      PROVE  DoneInv'
  <2>1. saved'.status = w /\ saved'.prior = saved.prior /\ saved'.wave = mem.wave
    BY <1>t, <1>7 DEF St
  <2> QED BY <1>7, <2>1 DEF DoneInv, CoveredBy, Recorded, Live
<1>8. CASE FinishDone
  BY <1>7, <1>8 DEF FinishDone, Save
<1>9. CASE HaltDone
  BY <1>7, <1>9 DEF HaltDone, Save
<1>10. CASE RevertDone
  BY <1>7, <1>10 DEF RevertDone
<1>11. CASE Close
  BY <1>11, DoneSave DEF Close, DoneInv
<1> QED BY <1>1, <1>2, <1>3, <1>4, <1>5, <1>6, <1>8, <1>9, <1>10, <1>11 DEF Call

\* Wherever it is cut short, the end of a rollout starts again from the row.
LEMMA DoneStep == IInv /\ DoneInv /\ [Next]_vars => DoneInv'
<1> SUFFICES ASSUME IInv, DoneInv, [Next]_vars PROVE DoneInv'
  OBVIOUS
<1> USE DEF pine, devs, db, ctl, targets
<1>1. CASE UndoError
  <2>1. /\ pc \in {"revert_fleet", "revert_pins"} /\ saved' = mem /\ mem' = mem /\ pc' = "closing" /\ gone' = gone
    BY <1>1 DEF UndoError
  <2>2. mem.prior = saved.prior
    BY DEF IInv, CopyFits
  <2> QED BY <2>1, <2>2 DEF DoneInv, CoveredBy, Recorded, Live
<1>2. CASE Fail
  BY <1>2, DoneSave DEF Fail, DoneInv
<1>3. CASE RequestRollback
  <2>1. CASE saved.status \in {"halted", "reverted"}
    BY <1>3, <2>1 DEF RequestRollback, RollBack, DoneInv, CoveredBy, Recorded, Live
  <2>2. CASE saved.status \notin {"halted", "reverted"}
    BY <1>3, <2>2, DoneRevert DEF RequestRollback, RollBack, DoneInv
  <2> QED BY <2>1, <2>2
<1>4. CASE Environment \/ UNCHANGED vars
  BY <1>4, OutsideTyped DEF Outside, DoneInv, CoveredBy, Recorded, Live, Row
<1> QED BY <1>1, <1>2, <1>3, <1>4, DoneTick, DoneCall DEF Next

\* When the last pin was given back and recorded, the rollout is in effect.
LEMMA FinishDoneInEffect ==
  ASSUME IInv, DoneInv, FinishDone
  PROVE  fleet' = New /\ applied'[None] \in {Unset, New}
         /\ \A d \in Member \cap Live' : pin'[d] = None /\ applied'[d] \in {Unset, pin'[d]}
<1>1. /\ pc = "finish_pins" /\ left = {} /\ owed = Nothing
      /\ UNCHANGED <<fleet, pin, applied, gone>>
  BY DEF FinishDone, pine, devs, targets
<1>2. Member \subseteq Device
  BY WavesTyped DEF Member
<1> QED BY <1>1, <1>2 DEF DoneInv, Row, Live

\* Rollouts that leave the fleet alone are done with a tick, once every wave is: the
\* devices they pinned are recorded as given the release.
LEMMA DoneByTick ==
  ASSUME IInv, DoneInv, Tick, saved.status # "done", saved'.status = "done"
  PROVE  /\ ~MoveFleet /\ CanTick /\ pc' = "idle" /\ UNCHANGED <<fleet, pin, gone, owed>>
         /\ Now.current \in WaveIdx => Now.wave[Now.current] # "pinning"
         /\ Member \cap Live \subseteq Recorded(saved) /\ Recorded(saved)' = Recorded(saved)
         /\ applied' = [x \in Device \cup {None} |-> IF x \in Recorded(saved) THEN New ELSE applied[x]]
<1> USE DEF pine, devs
<1>n. ASSUME CanTick
      PROVE  /\ Now \in St /\ Past(Now) /\ Now.status = "running" /\ Now.prior = saved.prior
             /\ CoveredBy(Now, saved) /\ ~Now.fleetPinned
  BY <1>n, NowFits, NowCovered DEF Alike
\* The waves are over.
<1>f. ASSUME NEW s \in St, CanTick, CoveredBy(s, saved), s.prior = saved.prior, ~s.fleetPinned,
             \A j \in WaveIdx : s.wave[j] = "done", Finish(s)
      PROVE  /\ ~MoveFleet /\ pc' = "idle" /\ owed' = owed
             /\ Member \cap Live \subseteq Recorded(saved) /\ Recorded(saved)' = Recorded(saved)
             /\ applied' = [x \in Device \cup {None} |-> IF x \in Recorded(saved) THEN New ELSE applied[x]]
  <2>1. Recorded(s) = Recorded(saved) /\ Member \cap Live \subseteq Recorded(saved)
    BY <1>f, WholeCovered DEF Recorded
  <2>2. ~MoveFleet
    BY <1>f DEF Finish, Work
  <2> DEFINE r == [s EXCEPT !.status = "done"]
  <2>3. r.prior = s.prior
    BY <1>f, StatusMoves
  <2>4. saved' = r /\ pc' = "idle" /\ owed' = owed
        /\ applied' = [x \in Device \cup {None} |-> IF x \in Recorded(s) THEN New ELSE applied[x]]
    BY <1>f, <2>2 DEF Finish, Save
  <2> HIDE DEF r
  <2> QED BY <1>f, <2>1, <2>2, <2>3, <2>4 DEF Recorded
<1>1. CASE TickPastWaves
  <2>1. CanTick /\ Now.current > Len(Waves) /\ Finish(Now) /\ UNCHANGED <<fleet, pin, gone>>
    BY <1>1 DEF TickPastWaves
  <2>2. Now.current \notin WaveIdx /\ \A j \in WaveIdx : j < Now.current
    BY <1>n, <2>1, WavesTyped DEF St, WaveIdx
  <2>3. \A j \in WaveIdx : Now.wave[j] = "done"
    BY <1>n, <2>1, <2>2 DEF Past
  <2> QED BY <1>f, <1>n, <2>1, <2>2, <2>3
<1>2. CASE TickSoaked
  <2> DEFINE u == SetWave(Now, "done")
             r == [u EXCEPT !.current = @ + 1]
  <2>1. /\ CanTick /\ Now.current \in WaveIdx /\ Now.wave[Now.current] = "soaking" /\ UNCHANGED <<fleet, pin, gone>>
        /\ IF r.current > Len(Waves) THEN Finish(r) ELSE Save(r)
    BY <1>2, NowFits DEF TickSoaked, InWave
  <2>2. /\ u \in St /\ Past(u) /\ Alike(Now, u) /\ u.current = Now.current /\ u.wave[Now.current] = "done"
        /\ \A j \in WaveIdx : j # Now.current => u.wave[j] = Now.wave[j]
    BY <1>n, <2>1, SetWaveMoves DEF WaveState
  <2> HIDE DEF u
  <2>3. u.current + 1 \in 1..(Len(Waves) + 1)
    BY <2>1, <2>2, WavesTyped DEF WaveIdx
  <2>4. /\ r \in St /\ r.prior = saved.prior /\ r.status = "running" /\ ~r.fleetPinned /\ r.wave = u.wave
        /\ r.current = u.current + 1
    BY <1>n, <2>1, <2>2, <2>3 DEF St, Alike
  <2> HIDE DEF r
  <2>5. r.current > Len(Waves) /\ Finish(r)
    BY <2>1, <2>4 DEF Save
  <2>6. \A j \in WaveIdx : j < u.current \/ j = u.current
    BY <2>1, <2>2, <2>4, <2>5, WavesTyped DEF WaveIdx
  <2>7. \A j \in WaveIdx : r.wave[j] = "done"
    BY <2>2, <2>4, <2>6 DEF Past
  <2>8. CoveredBy(r, saved)
    BY <1>n, <2>1, <2>2, <2>4 DEF CoveredBy
  <2> QED BY <1>f, <2>1, <2>4, <2>5, <2>7, <2>8
\* No other tick ends it.
<1>3. CASE TickRecord
  <2> DEFINE u == SetWave(Now, "pinning")
  <2>1. CanTick /\ saved'.status = u.status
    BY <1>3 DEF TickRecord, InWave, Save
  <2>2. u.status = Now.status
    BY DEF SetWave
  <2> QED BY <1>n, <2>1, <2>2
<1>4. CASE TickUpdated \/ TickWait
  <2>1. CanTick /\ (saved' = Now \/ saved' = SetWave(Now, "soaking"))
    BY <1>4 DEF TickUpdated, TickWait, InWave, Save
  <2>2. SetWave(Now, "soaking").status = Now.status
    BY DEF SetWave
  <2> QED BY <1>n, <2>1, <2>2
<1>5. CASE TickPin \/ TickHalt \/ TickTimeout \/ EnterVerify \/ RollBackHalted \/ VerifyFailed \/ VerifyPassed
  BY <1>5 DEF TickPin, TickHalt, TickTimeout, EnterVerify, RollBackHalted, VerifyFailed, VerifyPassed, Revert,
              RollBack, Work
<1> QED BY <1>1, <1>2, <1>3, <1>4, <1>5 DEF Tick

\* Otherwise its last pin was given back.
LEMMA DoneByFinish ==
  ASSUME IInv, DoneInv, [Next]_vars, saved.status # "done", saved'.status = "done"
  PROVE  FinishDone \/ Tick
<1>1. saved \in St /\ mem \in St /\ mem.status = saved.status
  BY DEF IInv, TypeOK, CopyFits
<1>2. CASE PinsDone
  BY <1>1, <1>2 DEF PinsDone, Save, SetWave, St
<1>3. CASE HaltDone \/ RevertDone
  BY <1>1, <1>3 DEF HaltDone, RevertDone, Save, St
<1>4. CASE RecordTarget \/ FinishFleet \/ RevertFleet \/ Close \/ UndoError \/ RequestRollback \/ Fail
  BY <1>1, <1>4 DEF RecordTarget, FinishFleet, RevertFleet, Close, UndoError, RequestRollback, Fail, RollBack,
                    Revert, Work, Save, db
<1>5. ASSUME NEW d \in Device, PinDevice(d) \/ UnpinDevice(d) \/ RevertDevice(d) PROVE FALSE
  BY <1>5 DEF PinDevice, UnpinDevice, RevertDevice, db
<1>6. CASE Environment \/ UNCHANGED vars
  BY <1>6, OutsideTyped DEF Outside, db
<1> QED BY <1>2, <1>3, <1>4, <1>5, <1>6 DEF Next, Call

\* The end of a rollout, and what it saves, hold wherever a call fails.
THEOREM DoneInvariant == Spec => [](IInv /\ DoneInv)
<1> QED BY InvInit, InvStep, DoneInit, DoneStep, PTL DEF Spec

\* Wherever a call fails or the service stops, a rollout of the whole fleet is noted
\* as done only when the fleet has the release and every device of the waves follows
\* it, and drift has the records of both (_finish, rollout.py).
THEOREM DoneIsInEffect == Spec => DoneInEffect
<1> DEFINE Ends == MoveFleet /\ saved.status # "done" /\ saved'.status = "done"
<1>1. ASSUME IInv, DoneInv, [Next]_vars, Ends PROVE Effect'
  <2>1. ~Tick
    BY <1>1, DoneByTick
  <2>2. FinishDone
    BY <1>1, <2>1, DoneByFinish
  <2> QED BY <1>1, <2>2, FinishDoneInEffect DEF Effect, OutsideApi, Live
<1>2. IInv /\ DoneInv /\ [Next]_vars => [Ends => Effect']_vars
  BY <1>1
<1> HIDE DEF Ends
<1>3. Spec => [][Ends => Effect']_vars
  BY <1>2, DoneInvariant, PTL DEF Spec
<1> QED BY <1>3 DEF DoneInEffect, Ends

-----------------------------------------------------------------------------
(* What an applied change did, without faults.                             *)

\* A change is verified only once its rollout is done, and a rollout that is done, and
\* not being put back, is in effect.
EndInv ==
  /\ ~undoErr
  /\ pc = "idle" => why = "none"
  /\ why = "halt" => phase = "applying"
  /\ pc = "pinning" => saved.status = "running"
  /\ pc \in {"finish_fleet", "finish_pins"} => MoveFleet
  /\ phase \in {"verifying", "applied"} => saved.status = "done" \/ pc = "closing"
  /\ Row(None, fleet)
  /\ saved.status = "done" /\ pc = "idle" => Effect

\* The fleet's record is that of its release, or it has none.
LEMMA EndInit == Init => EndInv
<1> SUFFICES ASSUME Init PROVE EndInv
  OBVIOUS
<1>1. PICK before \in BOOLEAN :
        applied = [x \in Device \cup {None} |->
                     IF ~before THEN Unset ELSE IF x = None THEN Prev ELSE pin0[x]]
  BY DEF Init
<1>2. applied[None] \in {Unset, Prev}
  BY <1>1
<1> QED BY <1>2, StartTyped DEF Init, EndInv, Row

\* Devices that go away take nothing from what a rollout did.
LEMMA EffectStays ==
  ASSUME Effect, UNCHANGED <<fleet, pin, applied>>, gone \subseteq gone'
  PROVE  Effect'
BY DEF Effect, OutsideApi, Live

\* A rollout that leaves the fleet alone is in effect once it is done: its devices are
\* held on the release.
LEMMA TickInEffect ==
  ASSUME IInv, CalmInv, DoneInv, EndInv, Tick, saved.status # "done", saved'.status = "done"
  PROVE  Effect'
<1>1. /\ ~MoveFleet /\ CanTick /\ UNCHANGED <<fleet, pin, gone, owed>>
      /\ Now.current \in WaveIdx => Now.wave[Now.current] # "pinning"
      /\ Member \cap Live \subseteq Recorded(saved)
      /\ applied' = [x \in Device \cup {None} |-> IF x \in Recorded(saved) THEN New ELSE applied[x]]
  BY DoneByTick
<1>2. owed = Nothing /\ pc = "idle" /\ mem = saved /\ saved.status = "running"
  BY <1>1, NowFits DEF CanTick, IInv, CopyFits
<1>3. fleet = Prev
  BY <1>2 DEF CalmInv, FleetFits, DoneInv
<1>4. applied'[None] \in {Unset, fleet}
  BY <1>1, <1>2, RolloutConstants DEF EndInv, Row, Recorded
<1>5. ASSUME NEW d \in Member \cap Live PROVE pin[d] = New /\ applied'[d] = New
  <2>1. d \in Recorded(saved) \cap Live /\ d \in Device
    BY <1>1, <1>5 DEF Recorded
  <2>2. Held(d)
    BY <1>1, <2>1, HeldNow
  <2> QED BY <1>1, <2>1, <2>2 DEF Held
<1> QED BY <1>1, <1>3, <1>4, <1>5 DEF Effect, OutsideApi, Live

\* A tick ends a rollout, starts its verification, or puts it back.
LEMMA EndTick == IInv /\ CalmInv /\ DoneInv /\ EndInv /\ Tick => EndInv'
<1> SUFFICES ASSUME IInv, CalmInv, DoneInv, EndInv, Tick PROVE EndInv'
  OBVIOUS
<1> USE DEF pine, devs, targets
<1>t. /\ pc = "idle" /\ UNCHANGED <<fleet, pin, gone, owed, undoErr>> /\ owed = Nothing
      /\ applied' = applied \/ applied' = [x \in Device \cup {None} |-> IF x \in Recorded(saved) THEN New ELSE applied[x]]
  <2>1. CanTick => Now.prior = saved.prior
    BY NowFits DEF Alike
  <2>2. pc = "idle" /\ UNCHANGED <<fleet, pin, gone, undoErr>>
    BY DEF Tick, TickPastWaves, TickRecord, TickPin, TickHalt, TickUpdated, TickWait, TickTimeout,
           TickSoaked, EnterVerify, RollBackHalted, VerifyFailed, VerifyPassed, InWave, CanTick, CanVerify
  <2>3. CASE TickPastWaves
    BY <2>1, <2>2, <2>3, Working DEF TickPastWaves, Finish, Recorded
  <2>4. CASE TickSoaked
    <3> DEFINE u == SetWave(Now, "done")
               r == [u EXCEPT !.current = @ + 1]
    <3>1. CanTick /\ (Finish(r) \/ UNCHANGED targets)
      BY <2>4 DEF TickSoaked, InWave
    <3>2. r.prior = Now.prior
      BY DEF SetWave
    <3> HIDE DEF r
    <3> QED BY <2>1, <2>2, <3>1, <3>2, Working DEF Finish, Recorded
  <2>5. CASE ~TickPastWaves /\ ~TickSoaked
    BY <2>2, <2>5, Working DEF Tick, TickRecord, TickPin, TickHalt, TickUpdated, TickWait, TickTimeout,
                               EnterVerify, RollBackHalted, VerifyFailed, VerifyPassed
  <2> QED BY <2>3, <2>4, <2>5
<1>1. Row(None, fleet)'
  BY <1>t, RolloutConstants DEF EndInv, Row, Recorded
<1>2. ASSUME saved'.status = "done" PROVE pc' = "idle" => Effect'
  <2>1. CASE saved.status # "done"
    BY <1>2, <2>1, TickInEffect
  <2>2. CASE saved.status = "done"
    <3>1. UNCHANGED applied
      BY <2>2 DEF Tick, TickPastWaves, TickRecord, TickPin, TickHalt, TickUpdated, TickWait, TickTimeout,
                  TickSoaked, EnterVerify, RollBackHalted, VerifyFailed, VerifyPassed, InWave, CanTick
    <3> QED BY <1>t, <2>2, <3>1, EffectStays DEF EndInv
  <2> QED BY <2>1, <2>2
\* While the change is applied.
<1>3. CASE CanTick /\ phase' = phase
  <2>1. phase' = "applying"
    BY <1>3 DEF CanTick
  <2>2. /\ pc' = "idle" => why' = "none"
        /\ pc' = "pinning" => saved'.status = "running"
        /\ pc' \in {"finish_fleet", "finish_pins"} => MoveFleet
    BY <1>3 DEF Tick, TickPastWaves, TickRecord, TickPin, TickHalt, TickUpdated, TickWait, TickTimeout, TickSoaked,
                EnterVerify, RollBackHalted, VerifyFailed, VerifyPassed, Revert, Finish, Work, Save, CanTick, CanVerify
  <2> QED BY <1>t, <1>1, <1>2, <2>1, <2>2 DEF EndInv
\* At its end, and around its verification.
<1>4. CASE EnterVerify \/ RollBackHalted \/ VerifyPassed
  BY <1>1, <1>2, <1>4, <1>t DEF EnterVerify, RollBackHalted, VerifyPassed, CanVerify, ctl, EndInv
<1>5. CASE VerifyFailed
  <2>1. phase' = phase /\ phase = "verifying" /\ RollBack
    BY <1>5 DEF VerifyFailed, CanVerify
  <2>2. saved' = saved /\ saved.status = "done" /\ pc' \in {"revert_fleet", "revert_pins"} /\ why' = "rollback"
    BY <1>t, <2>1 DEF EndInv, RollBack, Revert, Work
  <2> QED BY <1>t, <1>1, <2>1, <2>2 DEF EndInv
<1>6. ASSUME ~EnterVerify, ~RollBackHalted, ~VerifyPassed, ~VerifyFailed PROVE CanTick /\ phase' = phase
  BY <1>6 DEF Tick, TickPastWaves, TickRecord, TickPin, TickHalt, TickUpdated, TickWait, TickTimeout, TickSoaked, InWave
<1> QED BY <1>3, <1>4, <1>5, <1>6

\* A call ends a rollout when it is in effect, or takes it back.
LEMMA EndCall == IInv /\ DoneInv /\ EndInv /\ Call => EndInv'
<1> SUFFICES ASSUME IInv, DoneInv, EndInv, Call PROVE EndInv'
  OBVIOUS
<1> USE DEF pine, devs, db, ctl, targets
<1>t. /\ saved \in St /\ mem \in St /\ mem.status = saved.status
      /\ applied \in [Device \cup {None} -> Release \cup {None, Unset}] /\ None \notin Device
  BY RolloutConstants DEF IInv, TypeOK, CopyFits
<1>1. CASE RecordTarget
  <2>1. /\ owed # Nothing /\ applied' = [applied EXCEPT ![owed.of] = owed.release] /\ owed' = Nothing
        /\ UNCHANGED <<pine, db, ctl>>
    BY <1>1 DEF RecordTarget
  <2>2. pc \in {"finish_pins", "revert_pins"}
    BY <2>1 DEF IInv, OwedFits
  <2>3. Row(None, fleet)'
    BY <1>t, <2>1 DEF EndInv, Row
  <2> QED BY <2>1, <2>2, <2>3 DEF EndInv
<1>2. CASE PinsDone
  <2>1. pc = "pinning" /\ saved' = SetWave(mem, "updating") /\ pc' = "idle" /\ why' = "none"
        /\ UNCHANGED <<fleet, phase, undoErr, targets>>
    BY <1>2 DEF PinsDone, Save
  <2>2. saved'.status = "running" /\ saved.status = "running"
    BY <1>t, <2>1 DEF EndInv, SetWave
  <2> QED BY <2>1, <2>2 DEF EndInv, Row
<1>3. ASSUME pc' \in {"finish_pins", "revert_pins"}, pc' = "finish_pins" => pc = "finish_fleet", pc \notin {"idle", "closing"},
             Owe(None, fleet'), UNCHANGED <<db, why>>
      PROVE  EndInv'
  <2>1. Row(None, fleet)'
    BY <1>3, RolloutConstants DEF Owe, Row, Nothing
  <2> QED BY <1>3, <2>1 DEF EndInv
<1>4. CASE FinishFleet \/ RevertFleet
  BY <1>3, <1>4 DEF FinishFleet, RevertFleet
<1>5. ASSUME NEW d \in Device, PinDevice(d) PROVE EndInv'
  BY <1>5 DEF PinDevice, EndInv, Row
<1>6. ASSUME NEW d \in Device, UnpinDevice(d) \/ RevertDevice(d) PROVE EndInv'
  <2>1. pc \in {"finish_pins", "revert_pins"} /\ owed = Nothing /\ owed'.of = d /\ UNCHANGED <<fleet, db, pc, why, applied>>
    BY <1>6 DEF UnpinDevice, RevertDevice, Owe
  <2>2. Row(None, fleet)'
    BY <1>t, <2>1 DEF EndInv, Row
  <2> QED BY <2>1, <2>2 DEF EndInv
<1>7. CASE FinishDone
  <2>1. /\ pc = "finish_pins" /\ pc' = "idle" /\ why' = "none" /\ UNCHANGED <<fleet, phase, undoErr, targets>>
        /\ saved'.status = "done"
    BY <1>t, <1>7 DEF FinishDone, Save, St
  <2>2. Effect'
    BY <1>7, <2>1, FinishDoneInEffect DEF EndInv, Effect, OutsideApi, Live
  <2> QED BY <2>1, <2>2 DEF EndInv, Row
<1>8. CASE HaltDone
  <2>1. /\ why = "halt" /\ pc' = "idle" /\ why' = "none" /\ UNCHANGED <<fleet, phase, undoErr, targets>>
        /\ saved'.status = "halted"
    BY <1>t, <1>8 DEF HaltDone, Save, St
  <2> QED BY <2>1 DEF EndInv, Row
<1>9. CASE RevertDone
  <2>1. /\ pc' = "closing" /\ why = "rollback" /\ UNCHANGED <<fleet, phase, undoErr, why, targets>>
    BY <1>9 DEF RevertDone
  <2> QED BY <2>1 DEF EndInv, Row
<1>10. CASE Close
  <2>1. /\ pc = "closing" /\ phase' = "rolled_back" /\ saved' = saved /\ pc' = "idle" /\ why' = "none"
        /\ UNCHANGED <<fleet, undoErr, targets>>
    BY <1>10 DEF Close, Save
  <2>2. saved.status # "done"
    BY <2>1 DEF EndInv, IInv, EndFits
  <2> QED BY <2>1, <2>2 DEF EndInv, Row
<1> QED BY <1>1, <1>2, <1>4, <1>5, <1>6, <1>7, <1>8, <1>9, <1>10 DEF Call

\* Without faults, every step keeps the end in effect.
LEMMA EndStep ==
  ASSUME Faulty = FALSE
  PROVE  IInv /\ CalmInv /\ DoneInv /\ EndInv /\ [Next]_vars => EndInv'
<1> SUFFICES ASSUME IInv, CalmInv, DoneInv, EndInv, [Next]_vars PROVE EndInv'
  OBVIOUS
<1>1. CASE Environment \/ UNCHANGED vars
  <2>1. UNCHANGED <<pine, db, ctl, targets>> /\ gone \subseteq gone'
    BY <1>1, OutsideTyped DEF Outside
  <2>2. Effect => Effect'
    BY <2>1, EffectStays DEF pine, targets
  <2> QED BY <2>1, <2>2 DEF pine, db, ctl, targets, EndInv, Row
<1>2. CASE RequestRollback
  <2>1. pc = "idle" /\ RollBack /\ UNCHANGED <<pine, phase, undoErr, targets>>
    BY <1>2 DEF RequestRollback
  <2>2. saved' = saved /\ pc' \in {"revert_fleet", "revert_pins", "closing"} /\ why' # "halt"
    BY <2>1 DEF RollBack, Revert, Work, EndInv
  <2> QED BY <2>1, <2>2 DEF pine, targets, EndInv, Row
<1> QED BY <1>1, <1>2, EndTick, EndCall DEF Next, UndoError, Fail

\* Where no call fails and the service stays up, a change that was applied is in
\* effect: the fleet and every device of its waves have the release, whatever went
\* offline or was deleted, and drift has the records (_finish, _verify).
THEOREM AppliedIsInEffect ==
  ASSUME Faulty = FALSE
  PROVE  Spec => []AppliedTookEffect
<1>1. IInv /\ EndInv => AppliedTookEffect
  BY DEF EndInv, AppliedTookEffect
<1> QED BY <1>1, InvInit, InvStep, CalmInit, CalmStep, DoneInit, DoneStep, EndInit, EndStep, PTL DEF Spec
=============================================================================
