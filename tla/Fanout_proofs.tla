---------------------------- MODULE Fanout_proofs ----------------------------
(***************************************************************************)
(* For any fleet, waves, number of items and of crashes: a device gets the *)
(* site change once, and nobody is sent anything after the fan-out has     *)
(* stopped.  For a change set of one item, what counts as updated is       *)
(* applied, and a later wave goes out over devices that applied as long as *)
(* no crash has cut a wave.                                                *)
(***************************************************************************)
EXTENDS Fanout, FiniteSetTheorems, WellFoundedInduction, TLAPS

-----------------------------------------------------------------------------
(* The inductive invariant, for any number of items and crashes.           *)

\* The thread is at a wave only while the fan-out runs and its change applies.
AtFits ==
  /\ at # "idle" => change = "applying"
  /\ at \in {"more", "send", "poll"} => saved.status = "running"
  /\ at = "close" => saved.status # "running"
  /\ at \in {"send", "poll"} =>
       /\ mem.status = "running" /\ mem.wave = (IF at = "send" THEN "pending" ELSE "sent")
       /\ mem.current \in WaveIdx /\ Waves[mem.current] # {} /\ left \subseteq Waves[mem.current]

\* A wave that was begun has devices.
CursorFits ==
  \A s \in {saved, mem} :
    s.wave # "pending" => s.current \in WaveIdx /\ Waves[s.current] # {}

\* Every device of a wave that was sent has the change, or was skipped.
WaveSent ==
  /\ \A s \in {saved, mem} :
       s.status = "running" /\ s.wave = "sent" =>
         \A d \in Waves[s.current] : s.rec[d] = "skipped" \/ site[d] # "none"
  /\ at = "send" => \A d \in Waves[mem.current] \ left : mem.rec[d] = "skipped" \/ site[d] # "none"
  /\ at = "poll" => \A d \in left : site[d] # "none"

\* What a device was sent, it was sent once, and it knows the key of it.
MadeOnce ==
  \A d \in Device :
    /\ \A m, n \in made[d] : m = n
    /\ \A m \in made[d] : \E i \in 1..Items : m = <<Key(d), i>>
    /\ site[d] = "none" <=> made[d] = {}

IInv == AtFits /\ CursorFits /\ WaveSent /\ MadeOnce

-----------------------------------------------------------------------------
(* Types.                                                                  *)

\* Waves without devices are passed over: from any index on there is a first wave
\* with devices, or none is left.
LEMMA FirstWaveExists ==
  ASSUME NEW i \in 1..(Len(Waves) + 1)
  PROVE  \E n \in i..(Len(Waves) + 1) :
           /\ n > Len(Waves) \/ Waves[n] # {}
           /\ \A j \in i..(n - 1) : Waves[j] = {}
<1> DEFINE T == {n \in i..(Len(Waves) + 1) : n > Len(Waves) \/ Waves[n] # {}}
           less == OpToRel(<, Nat)
<1>1. Len(Waves) \in Nat
  BY FanoutConstants
<1>2. T \in SUBSET Nat /\ Len(Waves) + 1 \in T
  BY <1>1
<1>3. PICK n \in T : \A m \in T : ~ (<<m, n>> \in less)
  <2> HIDE DEF T, less
  <2>1. IsWellFoundedOn(less, Nat)
    BY NatLessThanWellFounded DEF less
  <2> QED BY <1>2, <2>1, WFMin
<1>4. \A m \in T : ~ (m < n)
  BY <1>2, <1>3 DEF OpToRel
<1>5. ASSUME NEW j \in i..(n - 1) PROVE Waves[j] = {}
  BY <1>1, <1>4
<1> QED BY <1>3, <1>5

\* SkipEmpty only moves the cursor, to a wave with devices or past the last.
LEMMA SkipEmptyMoves ==
  ASSUME NEW s \in Fanouts
  PROVE  \E n \in s.current..(Len(Waves) + 1) :
           /\ n > Len(Waves) \/ Waves[n] # {}
           /\ \A j \in s.current..(n - 1) : Waves[j] = {}
           /\ SkipEmpty(s) = [s EXCEPT !.current = n]
<1>1. s.current \in 1..(Len(Waves) + 1) /\ Waves \in Seq(SUBSET Device)
  BY FanoutConstants DEF Fanouts
<1>2. \E n \in s.current..(Len(Waves) + 1) :
        /\ n > Len(Waves) \/ Waves[n] # {}
        /\ \A j \in s.current..(n - 1) : Waves[j] = {}
  BY <1>1, FirstWaveExists
<1> DEFINE n == CHOOSE n \in s.current..(Len(Waves) + 1) :
                  /\ n > Len(Waves) \/ Waves[n] # {}
                  /\ \A j \in s.current..(n - 1) : Waves[j] = {}
<1>3. /\ n \in s.current..(Len(Waves) + 1)
      /\ n > Len(Waves) \/ Waves[n] # {}
      /\ \A j \in s.current..(n - 1) : Waves[j] = {}
  BY <1>2
<1>4. SkipEmpty(s) = [s EXCEPT !.current = n]
  BY DEF SkipEmpty
<1> HIDE DEF n
<1> QED BY <1>3, <1>4

\* What a tick starts from is what was saved, on the first wave with devices.
LEMMA NowTyped ==
  ASSUME TypeOK
  PROVE  /\ Now \in Fanouts
         /\ Now.item = saved.item /\ Now.status = saved.status
         /\ Now.wave = saved.wave /\ Now.rec = saved.rec
         /\ saved.current <= Now.current
         /\ Now.current <= Len(Waves) => Waves[Now.current] # {}
         /\ \A j \in saved.current..(Now.current - 1) : Waves[j] = {}
<1>1. saved \in Fanouts
  BY DEF TypeOK
<1>2. PICK n \in saved.current..(Len(Waves) + 1) :
        /\ n > Len(Waves) \/ Waves[n] # {}
        /\ \A j \in saved.current..(n - 1) : Waves[j] = {}
        /\ SkipEmpty(saved) = [saved EXCEPT !.current = n]
  BY <1>1, SkipEmptyMoves
<1>3. Len(Waves) \in Nat
  BY FanoutConstants
<1> QED BY <1>1, <1>2, <1>3 DEF Now, Fanouts

\* The operators that build a record give records.
LEMMA StartTyped ==
  ASSUME NEW i \in 1..Items
  PROVE  Start(i) \in Fanouts
<1> Len(Waves) \in Nat
  BY FanoutConstants
<1> QED BY DEF Start, Fanouts, Record

\* ... a note of one device,
LEMMA NoteTyped ==
  ASSUME NEW s \in Fanouts, NEW d, NEW r \in Record
  PROVE  Note(s, d, r) \in Fanouts
BY DEF Note, Fanouts

\* ... and a halt.
LEMMA HaltTyped ==
  ASSUME NEW s \in Fanouts
  PROVE  Halt(s) \in Fanouts
BY DEF Halt, Fanouts

\* Waves are of devices.
LEMMA MembersAreDevices ==
  /\ Member \subseteq Device
  /\ \A i \in WaveIdx : Waves[i] \subseteq Member
BY FanoutConstants DEF Member, WaveIdx

\* The types hold at first.
LEMMA TypeInit == Init => TypeOK
<1> SUFFICES ASSUME Init PROVE TypeOK
  OBVIOUS
<1>1. saved \in Fanouts /\ mem \in Fanouts
  <2> 1 \in 1..Items
    BY FanoutConstants
  <2> QED BY StartTyped DEF Init
<1>2. site \in [Device -> SiteState] /\ faults \in 0..MaxFaults
  BY FanoutConstants DEF Init, SiteState
<1> QED BY <1>1, <1>2 DEF Init, TypeOK

\* A device that takes a site change.
LEMMA AcceptTyped ==
  ASSUME TypeOK, NEW d \in Member, Accept(d)
  PROVE  /\ DOMAIN made' = Device /\ \A e \in Device : \A m \in made'[e] : m[2] \in 1..Items
         /\ site' \in [Device -> SiteState]
<1> d \in Device /\ mem.item \in 1..Items
  BY MembersAreDevices DEF TypeOK, Fanouts
<1>1. \A e \in Device : made'[e] \subseteq made[e] \cup {<<Key(d), mem.item>>}
  BY DEF Accept, TypeOK
<1>2. \A e \in Device : \A m \in made'[e] : m[2] \in 1..Items
  BY <1>1 DEF TypeOK
<1> QED BY <1>2 DEF Accept, TypeOK, SiteState

\* Every step keeps the types; a change id that is recorded exists by WaveSent.
LEMMA TypeStep == TypeOK /\ WaveSent /\ [Next]_vars => TypeOK'
<1> SUFFICES ASSUME TypeOK, WaveSent, [Next]_vars PROVE TypeOK'
  OBVIOUS
<1> USE FanoutConstants DEF TypeOK, devs
<1>a. Len(Waves) \in Nat /\ Member \subseteq Device /\ WaveIdx = 1..Len(Waves)
      /\ \A i \in WaveIdx : Waves[i] \subseteq Member
  BY MembersAreDevices DEF WaveIdx
<1>1. CASE TickEnded
  <2>1. mem' \in Fanouts
    BY <1>1, NowTyped DEF TickEnded, Fanouts
  <2> QED BY <1>1, <2>1 DEF TickEnded
<1>2. CASE TickSend
  <2>1. left' \subseteq Member
    BY <1>2, <1>a, NowTyped DEF TickSend, InWave, Fanouts
  <2> QED BY <1>2, <2>1, NowTyped DEF TickSend
<1>3. CASE TickPoll
  <2>1. left' \subseteq Member
    BY <1>3, <1>a, NowTyped DEF TickPoll, InWave, Fanouts
  <2> QED BY <1>3, <2>1, NowTyped DEF TickPoll
<1>4. CASE TickSoaking
  <2>1. Now \in Fanouts /\ Now.current + 1 \in 1..(Len(Waves) + 1)
    BY <1>4, <1>a, NowTyped DEF TickSoaking, InWave, Fanouts
  <2>2. ASSUME due PROVE mem' \in Fanouts
    <3>1. mem' = [Now EXCEPT !.current = Now.current + 1, !.wave = "pending",
                             !.status = IF Now.current = Len(Waves) THEN "done" ELSE Now.status]
      BY <1>4, <2>2 DEF TickSoaking
    <3> QED BY <2>1, <3>1 DEF Fanouts
  <2>3. ASSUME ~due PROVE mem' \in Fanouts
    BY <1>4, <2>1, <2>3 DEF TickSoaking
  <2>4. mem' \in Fanouts
    BY <2>2, <2>3
  <2> QED BY <1>4, <2>4 DEF TickSoaking
<1>5. CASE SendDone
  BY <1>5 DEF SendDone, Fanouts
<1>6. CASE PollDone
  BY <1>6 DEF PollDone, Fanouts, Halt
<1>7. CASE Save
  <2>1. mem.item < Items => Start(mem.item + 1) \in Fanouts
    <3> mem.item \in 1..Items
      BY DEF Fanouts
    <3> QED BY StartTyped
  <2> QED BY <1>7, <2>1 DEF Save
<1>8. CASE Close
  BY <1>8 DEF Close
<1>9. ASSUME NEW d \in Member, Skip(d) PROVE TypeOK'
  BY <1>9, NoteTyped DEF Skip, Record
<1>10. ASSUME NEW d \in Member, Send(d) PROVE TypeOK'
  <2>1. Accept(d) /\ d \in Device
    BY <1>10, <1>a DEF Send
  <2>2. site'[d] \in Record
    BY <2>1 DEF Accept, SiteState, Record
  <2> QED BY <1>10, <2>1, <2>2, AcceptTyped, NoteTyped DEF Send
<1>11. ASSUME NEW d \in Member, SendFails(d) PROVE TypeOK'
  <2>1. mem' \in Fanouts
    BY <1>11, NoteTyped, HaltTyped DEF SendFails, Record
  <2>2. CASE Accept(d)
    BY <1>11, <2>1, <2>2, AcceptTyped DEF SendFails
  <2>3. CASE UNCHANGED <<made, site>>
    BY <1>11, <2>1, <2>3 DEF SendFails
  <2> QED BY <1>11, <2>2, <2>3 DEF SendFails
<1>12. ASSUME NEW d \in Member, PollFails(d) PROVE TypeOK'
  BY <1>12 DEF PollFails
<1>13. ASSUME NEW d \in Member, Poll(d) PROVE TypeOK'
  <2>1. PICK state \in {site[d], mem.rec[d]} :
          mem' = Note(mem, d, state) \/ mem' = Halt(Note(mem, d, state))
    BY <1>13 DEF Poll
  <2>2. state \in Record
    BY <1>13, <2>1 DEF WaveSent, Poll, Polling, SiteState, Record, Fanouts
  <2>3. mem' \in Fanouts
    BY <2>1, <2>2, NoteTyped, HaltTyped
  <2> QED BY <1>13, <2>3 DEF Poll
<1>14. CASE RequestRollback
  BY <1>14 DEF RequestRollback, proc
<1>15. ASSUME NEW d \in Device, SiteEnds(d) PROVE TypeOK'
  BY <1>15 DEF SiteEnds, SiteState, proc
<1>16. ASSUME NEW d \in Device, Connection(d) PROVE TypeOK'
  BY <1>16 DEF Connection, proc
<1>17. CASE TimePasses
  BY <1>17 DEF TimePasses, proc
<1>18. CASE Crash
  BY <1>18 DEF Crash
<1>19. CASE UNCHANGED vars
  BY <1>19 DEF vars, proc
<1> QED
  BY <1>1, <1>2, <1>3, <1>4, <1>5, <1>6, <1>7, <1>8, <1>9, <1>10, <1>11, <1>12, <1>13, <1>14,
     <1>15, <1>16, <1>17, <1>18, <1>19
  DEF Next, Work, Tick

-----------------------------------------------------------------------------
(* The steps.                                                              *)

\* Nothing has been sent at first.
LEMMA IInvInit == Init => IInv
BY DEF Init, IInv, AtFits, CursorFits, WaveSent, MadeOnce, Start

\* Every step keeps the thread where the saved fan-out allows it.
LEMMA AtFitsStep == TypeOK /\ IInv /\ [Next]_vars => AtFits'
<1> SUFFICES ASSUME TypeOK, IInv, [Next]_vars PROVE AtFits'
  OBVIOUS
<1> USE DEF IInv, AtFits, devs, CanTick, Posting, Polling
<1>a. mem \in Fanouts /\ saved \in Fanouts /\ WaveIdx = 1..Len(Waves) /\ Len(Waves) \in Nat
  BY FanoutConstants DEF TypeOK, WaveIdx
<1>1. CASE TickEnded
  BY <1>1 DEF TickEnded
<1>2. CASE TickSend
  <2>1. mem' = Now /\ left' = Waves[Now.current] /\ Now.current \in WaveIdx /\ at' = "send"
    BY <1>2, <1>a, NowTyped DEF TickSend, InWave, Fanouts
  <2> QED BY <1>2, <2>1, NowTyped DEF TickSend, InWave
<1>3. CASE TickPoll
  <2>1. mem' = Now /\ left' \subseteq Waves[Now.current] /\ Now.current \in WaveIdx /\ at' = "poll"
    BY <1>3, <1>a, NowTyped DEF TickPoll, InWave, Fanouts
  <2> QED BY <1>3, <2>1, NowTyped DEF TickPoll, InWave
<1>4. CASE TickSoaking
  BY <1>4 DEF TickSoaking, InWave
<1>5. CASE SendDone
  BY <1>5 DEF SendDone
<1>6. CASE PollDone
  BY <1>6 DEF PollDone
<1>7. CASE Save
  BY <1>7, <1>a DEF Save, Start
<1>8. CASE Close
  BY <1>8 DEF Close
<1>9. ASSUME NEW d \in Member, Skip(d) PROVE AtFits'
  BY <1>9, <1>a DEF Skip, Note, Fanouts
<1>10. ASSUME NEW d \in Member, Send(d) PROVE AtFits'
  BY <1>10, <1>a DEF Send, Note, Fanouts
<1>11. ASSUME NEW d \in Member, SendFails(d) PROVE AtFits'
  BY <1>11, <1>a DEF SendFails
<1>12. ASSUME NEW d \in Member, PollFails(d) PROVE AtFits'
  BY <1>12 DEF PollFails
<1>13. ASSUME NEW d \in Member, Poll(d) PROVE AtFits'
  BY <1>13, <1>a DEF Poll, Note, Fanouts
<1>14. CASE RequestRollback
  BY <1>14 DEF RequestRollback, proc
<1>15. ASSUME NEW d \in Device, SiteEnds(d) PROVE AtFits'
  BY <1>15 DEF SiteEnds, proc
<1>16. ASSUME NEW d \in Device, Connection(d) PROVE AtFits'
  BY <1>16 DEF Connection, proc
<1>17. CASE TimePasses
  BY <1>17 DEF TimePasses, proc
<1>18. CASE Crash
  BY <1>18 DEF Crash
<1>19. CASE UNCHANGED vars
  BY <1>19 DEF vars, proc
<1> QED
  BY <1>1, <1>2, <1>3, <1>4, <1>5, <1>6, <1>7, <1>8, <1>9, <1>10, <1>11, <1>12, <1>13, <1>14,
     <1>15, <1>16, <1>17, <1>18, <1>19
  DEF Next, Work, Tick

\* Every step begins only waves that have devices.
LEMMA CursorFitsStep == TypeOK /\ IInv /\ [Next]_vars => CursorFits'
<1> SUFFICES ASSUME TypeOK, IInv, [Next]_vars PROVE CursorFits'
  OBVIOUS
<1> USE DEF IInv, CursorFits, devs, CanTick, Posting, Polling
<1>a. mem \in Fanouts /\ saved \in Fanouts /\ WaveIdx = 1..Len(Waves) /\ Len(Waves) \in Nat
  BY FanoutConstants DEF TypeOK, WaveIdx
<1>s. \A d, r : /\ Note(mem, d, r).wave = mem.wave /\ Note(mem, d, r).current = mem.current
                /\ Halt(Note(mem, d, r)).wave = mem.wave /\ Halt(Note(mem, d, r)).current = mem.current
                /\ Halt(mem).wave = mem.wave /\ Halt(mem).current = mem.current
  BY <1>a DEF Note, Halt, Fanouts
<1>n. Now.wave # "pending" => Now.current \in WaveIdx /\ Waves[Now.current] # {}
  BY <1>a, NowTyped DEF Fanouts
<1>1. CASE TickEnded
  BY <1>1, <1>n, NowTyped DEF TickEnded, Fanouts
<1>2. CASE TickSend
  BY <1>2, <1>n DEF TickSend
<1>3. CASE TickPoll
  BY <1>3, <1>n DEF TickPoll
<1>4. CASE TickSoaking
  BY <1>4, <1>n, NowTyped DEF TickSoaking, Fanouts
<1>5. CASE SendDone
  BY <1>5, <1>a DEF SendDone, AtFits, Fanouts
<1>6. CASE PollDone
  BY <1>6, <1>a, <1>s DEF PollDone, AtFits, Fanouts
<1>7. CASE Save
  BY <1>7, <1>a DEF Save, Start
<1>8. CASE Close
  BY <1>8 DEF Close
<1>9. ASSUME NEW d \in Member, Skip(d) PROVE CursorFits'
  BY <1>9, <1>s DEF Skip
<1>10. ASSUME NEW d \in Member, Send(d) PROVE CursorFits'
  BY <1>10, <1>s DEF Send
<1>11. ASSUME NEW d \in Member, SendFails(d) PROVE CursorFits'
  BY <1>11, <1>s DEF SendFails
<1>12. ASSUME NEW d \in Member, PollFails(d) PROVE CursorFits'
  BY <1>12 DEF PollFails
<1>13. ASSUME NEW d \in Member, Poll(d) PROVE CursorFits'
  BY <1>13, <1>s DEF Poll
<1>14. CASE RequestRollback
  BY <1>14 DEF RequestRollback, proc
<1>15. ASSUME NEW d \in Device, SiteEnds(d) \/ Connection(d) PROVE CursorFits'
  BY <1>15 DEF SiteEnds, Connection, proc
<1>16. CASE TimePasses
  BY <1>16 DEF TimePasses, proc
<1>17. CASE Crash
  BY <1>17 DEF Crash
<1>18. CASE UNCHANGED vars
  BY <1>18 DEF vars, proc
<1> QED
  BY <1>1, <1>2, <1>3, <1>4, <1>5, <1>6, <1>7, <1>8, <1>9, <1>10, <1>11, <1>12, <1>13, <1>14,
     <1>15, <1>16, <1>17, <1>18
  DEF Next, Work, Tick

\* Every step leaves a wave that was sent to devices that have the change or were skipped.
LEMMA WaveSentStep == TypeOK /\ IInv /\ [Next]_vars => WaveSent'
<1> SUFFICES ASSUME TypeOK, IInv, [Next]_vars PROVE WaveSent'
  OBVIOUS
<1> USE DEF IInv, WaveSent, devs, CanTick, Posting, Polling
<1>a. /\ mem \in Fanouts /\ saved \in Fanouts /\ WaveIdx = 1..Len(Waves) /\ Len(Waves) \in Nat
      /\ Member \subseteq Device /\ \A i \in WaveIdx : Waves[i] \subseteq Member
      /\ site \in [Device -> SiteState]
  BY FanoutConstants, MembersAreDevices DEF TypeOK, WaveIdx
<1>n. /\ Now \in Fanouts /\ Now.status = saved.status /\ Now.wave = saved.wave /\ Now.rec = saved.rec
      /\ Now.wave # "pending" => Now.current = saved.current /\ saved.current \in WaveIdx
  BY <1>a, NowTyped DEF Fanouts, CursorFits
\* A step that leaves the fan-outs and the wave at work alone keeps what was sent.
<1>k. ASSUME UNCHANGED <<saved, mem>>,
             at' \in {"send", "poll"} => at' = at /\ left' \subseteq left
                                       /\ (at = "send" => left' = left),
             \A d \in Device : site[d] # "none" => site'[d] # "none"
      PROVE  WaveSent'
  BY <1>k, <1>a DEF AtFits, CursorFits
<1>1. CASE TickEnded
  <2>1. at' = "save" /\ (mem' = saved \/ mem'.status = "done") /\ UNCHANGED <<saved, site>>
    BY <1>1, <1>n DEF TickEnded, Fanouts
  <2> QED BY <2>1, <1>a
<1>2. CASE TickSend
  BY <1>2, <1>n, <1>a DEF TickSend, InWave
<1>3. CASE TickPoll
  BY <1>3, <1>n, <1>a DEF TickPoll, InWave
<1>4. CASE TickSoaking
  BY <1>4, <1>n, <1>a DEF TickSoaking, InWave, Fanouts
<1>5. CASE SendDone
  BY <1>5, <1>a DEF SendDone, AtFits, Fanouts
<1>6. CASE PollDone
  BY <1>6, <1>a DEF PollDone, AtFits, Halt, Fanouts
<1>7. CASE Save
  BY <1>7, <1>a DEF Save, Start
<1>8. CASE Close
  BY <1>8, <1>k DEF Close
<1>9. ASSUME NEW d \in Member, Skip(d) PROVE WaveSent'
  <2>1. mem' = Note(mem, d, "skipped") /\ at' = "send" /\ left' = left \ {d} /\ UNCHANGED <<saved, site>>
        /\ mem.wave = "pending" /\ mem.current \in WaveIdx
    BY <1>9 DEF Skip, AtFits
  <2>2. /\ mem'.wave = "pending" /\ mem'.current = mem.current
        /\ \A e \in Member : mem'.rec[e] = IF e = d THEN "skipped" ELSE mem.rec[e]
    BY <2>1, <1>a DEF Note, Fanouts
  <2>3. at = "send"
    BY <1>9 DEF Skip
  <2> QED BY <2>1, <2>2, <2>3, <1>a DEF CursorFits
<1>10. ASSUME NEW d \in Member, Send(d) PROVE WaveSent'
  <2>1. /\ mem' = Note(mem, d, site'[d]) /\ at' = "send" /\ left' = left \ {d} /\ UNCHANGED saved
        /\ mem.wave = "pending" /\ mem.current \in WaveIdx /\ at = "send"
    BY <1>10 DEF Send, AtFits
  <2>2. /\ mem'.wave = "pending" /\ mem'.current = mem.current
        /\ \A e \in Member \ {d} : mem'.rec[e] = mem.rec[e]
    BY <2>1, <1>a DEF Note, Fanouts
  <2>3. \A e \in Device : site'[e] # "none" <=> (site[e] # "none" \/ e = d)
    BY <1>10, <1>a DEF Send, Accept
  <2> QED BY <2>1, <2>2, <2>3, <1>a DEF CursorFits
<1>11. ASSUME NEW d \in Member, SendFails(d) PROVE WaveSent'
  <2>1. mem'.status = "halted" /\ at' = "save" /\ UNCHANGED saved
    BY <1>11, <1>a DEF SendFails, Note, Halt, Fanouts
  <2>3. \A e \in Device : site[e] # "none" => site'[e] # "none"
    BY <1>11, <1>a DEF SendFails, Accept
  <2> QED BY <2>1, <2>3, <1>a DEF CursorFits
<1>12. ASSUME NEW d \in Member, PollFails(d) PROVE WaveSent'
  BY <1>12, <1>k DEF PollFails
<1>13. ASSUME NEW d \in Member, Poll(d) PROVE WaveSent'
  <2>1. /\ at' \in {"poll", "save"} /\ left' = left \ {d} /\ UNCHANGED <<saved, site>>
        /\ mem.current \in WaveIdx /\ at = "poll" /\ site[d] # "none"
    BY <1>13 DEF Poll, AtFits
  <2>3. PICK state \in {site[d], mem.rec[d]} :
          mem' = Note(mem, d, state) \/ mem' = Halt(Note(mem, d, state))
    BY <1>13 DEF Poll
  <2>2. /\ mem'.wave = mem.wave /\ mem'.current = mem.current
        /\ mem'.status \in {mem.status, "halted"}
        /\ \A e \in Member \ {d} : mem'.rec[e] = mem.rec[e]
    BY <2>3, <1>a DEF Note, Halt, Fanouts
  <2> QED BY <2>1, <2>2, <1>a
<1>14. CASE RequestRollback
  BY <1>14, <1>k DEF RequestRollback, proc
<1>15. ASSUME NEW d \in Device, SiteEnds(d) PROVE WaveSent'
  <2>1. \A e \in Device : site[e] # "none" => site'[e] # "none"
    BY <1>15, <1>a DEF SiteEnds, SITE_OK, SITE_BAD
  <2> QED BY <1>15, <2>1, <1>k DEF SiteEnds, proc
<1>16. ASSUME NEW d \in Device, Connection(d) PROVE WaveSent'
  BY <1>16, <1>k DEF Connection, proc
<1>17. CASE TimePasses
  BY <1>17, <1>k DEF TimePasses, proc
<1>18. CASE Crash
  BY <1>18, <1>a DEF Crash
<1>19. CASE UNCHANGED vars
  BY <1>19, <1>k DEF vars, proc
<1> QED
  BY <1>1, <1>2, <1>3, <1>4, <1>5, <1>6, <1>7, <1>8, <1>9, <1>10, <1>11, <1>12, <1>13, <1>14,
     <1>15, <1>16, <1>17, <1>18, <1>19
  DEF Next, Work, Tick

\* The answer to a key that is known makes nothing.
LEMMA AcceptOnce ==
  ASSUME TypeOK, MadeOnce, NEW d \in Device, Accept(d)
  PROVE  /\ MadeOnce'
         /\ \A e \in Device : e # d => made'[e] = made[e] /\ site'[e] = site[e]
         /\ made'[d] # {}
         /\ site'[d] = (IF site[d] = "none" THEN "planned" ELSE site[d])
<1> USE DEF TypeOK, MadeOnce
<1>1. mem.item \in 1..Items
  BY DEF Fanouts
<1>2. \A e \in Device : e # d => made'[e] = made[e] /\ site'[e] = site[e]
  BY DEF Accept
<1>3. site'[d] = (IF site[d] = "none" THEN "planned" ELSE site[d])
  BY DEF Accept
<1>4. CASE Known(d)
  <2>1. made'[d] = made[d]
    BY <1>4 DEF Accept
  <2> QED BY <1>2, <1>3, <1>4, <2>1 DEF Known, Key
<1>5. CASE ~Known(d)
  <2>1. made[d] = {}
    BY <1>5 DEF Known, Key
  <2>2. made'[d] = {<<Key(d), mem.item>>}
    BY <1>5, <2>1 DEF Accept
  <2>3. \A m \in made'[d] : m = <<Key(d), mem.item>>
    BY <2>2
  <2>4. \A m, n \in made'[d] : m = n
    BY <2>2
  <2>5. site'[d] # "none" /\ made'[d] # {}
    BY <1>3, <2>2
  <2> QED BY <1>1, <1>2, <1>3, <2>3, <2>4, <2>5 DEF Key
<1> QED BY <1>4, <1>5

\* Every step keeps one change per device and key.
LEMMA MadeOnceStep == TypeOK /\ IInv /\ [Next]_vars => MadeOnce'
<1> SUFFICES ASSUME TypeOK, IInv, [Next]_vars PROVE MadeOnce'
  OBVIOUS
<1> USE DEF IInv
<1>1. CASE UNCHANGED <<made, site>>
  BY <1>1 DEF MadeOnce, Key
<1>2. ASSUME NEW d \in Member, Accept(d) PROVE MadeOnce'
  BY <1>2, MembersAreDevices, AcceptOnce
<1>3. ASSUME NEW d \in Device, SiteEnds(d) PROVE MadeOnce'
  BY <1>3 DEF SiteEnds, MadeOnce, Key, TypeOK, SITE_OK, SITE_BAD
<1> QED
  BY <1>1, <1>2, <1>3
  DEF Next, Work, Tick, TickEnded, TickSend, TickPoll, TickSoaking, SendDone, PollDone, Save, Close,
      Skip, Send, SendFails, PollFails, Poll, RequestRollback, Connection, TimePasses, Crash, vars, devs

\* The inductive invariant, with the types, which hold because of it: the answer of
\* a device that has no change is never recorded.
THEOREM IInvInvariant == Spec => [](TypeOK /\ IInv)
<1>1. TypeOK /\ IInv /\ [Next]_vars => (TypeOK /\ IInv)'
  BY TypeStep, AtFitsStep, CursorFitsStep, WaveSentStep, MadeOnceStep DEF IInv
<1> QED BY TypeInit, IInvInit, <1>1, PTL DEF Spec

\* Type correctness: waves, records and the devices' changes, and a wave that is
\* polled is one that exists.
THEOREM TypeCorrect == Spec => []TypeOK
BY IInvInvariant, PTL

\* However often a wave is sent again after a crash, a device gets the change once.
THEOREM SentOnceOnly == Spec => []SentOnce
<1>1. TypeOK /\ IInv => SentOnce
  <2> SUFFICES ASSUME MadeOnce, NEW d \in Device PROVE Cardinality(made[d]) <= 1
    BY DEF IInv, SentOnce
  <2>1. CASE made[d] = {}
    BY <2>1, FS_EmptySet
  <2>2. CASE made[d] # {}
    <3>1. PICK m \in made[d] : TRUE
      BY <2>2
    <3>2. made[d] = {m}
      BY <3>1 DEF MadeOnce
    <3> QED BY <3>2, FS_Singleton
  <2> QED BY <2>1, <2>2
<1> QED BY <1>1, IInvInvariant, PTL

\* Once the fan-out has stopped in the database, or its change has been rolled back or
\* failed, nothing is sent: no thread is in the middle of a wave then.
THEOREM StoppedStays == Spec => StoppedIsFinal
<1>1. TypeOK /\ IInv /\ [Next]_vars
      => [(saved.status = "halted" \/ change # "applying") => UNCHANGED made]_vars
  BY DEF IInv, AtFits, Posting, Next, Work, Tick, TickEnded, TickSend, TickPoll, TickSoaking,
         SendDone, PollDone, Save, Close, Skip, Send, SendFails, PollFails, Poll, RequestRollback,
         SiteEnds, Connection, TimePasses, Crash, vars, devs
<1> QED BY <1>1, IInvInvariant, PTL DEF Spec, StoppedIsFinal

-----------------------------------------------------------------------------
(* What counts as updated.                                                 *)

\* Applied is an end on the device, so what was read once stays true.
UpdatedDid ==
  \A s \in {saved, mem}, d \in Member : s.rec[d] = SITE_OK => site[d] = SITE_OK

\* What counts as updated comes from an answer of the device.
LEMMA UpdatedDidStep == TypeOK /\ UpdatedDid /\ [Next]_vars => UpdatedDid'
<1> SUFFICES ASSUME TypeOK, UpdatedDid, [Next]_vars PROVE UpdatedDid'
  OBVIOUS
<1> USE DEF UpdatedDid, devs
<1>a. mem \in Fanouts /\ saved \in Fanouts /\ Member \subseteq Device /\ site \in [Device -> SiteState]
  BY MembersAreDevices DEF TypeOK
<1>b. /\ Now.rec = saved.rec
      /\ \A i \in 1..Items, d \in Member : Start(i).rec[d] # SITE_OK
      /\ \A d \in Member : \A r : Note(mem, d, r).rec = [mem.rec EXCEPT ![d] = r]
                               /\ Halt(Note(mem, d, r)).rec = [mem.rec EXCEPT ![d] = r]
  BY <1>a, NowTyped DEF Start, Note, Halt, Fanouts, SITE_OK
<1>1. CASE TickEnded \/ TickSend \/ TickPoll \/ TickSoaking
  <2>1. mem'.rec = saved.rec /\ UNCHANGED <<saved, site>>
    BY <1>1, <1>b, NowTyped DEF TickEnded, TickSend, TickPoll, TickSoaking, Fanouts
  <2> QED BY <2>1
<1>2. CASE SendDone \/ PollDone
  <2>1. mem'.rec = mem.rec /\ UNCHANGED <<saved, site>>
    BY <1>2, <1>a DEF SendDone, PollDone, Halt, Fanouts
  <2> QED BY <2>1
<1>3. CASE Save
  <2>1. mem.item < Items => mem.item + 1 \in 1..Items
    BY <1>a, FanoutConstants DEF Fanouts
  <2> QED BY <1>3, <1>b, <2>1 DEF Save
<1>4. ASSUME NEW d \in Member, Skip(d) \/ SendFails(d) PROVE UpdatedDid'
  <2>1. \A e \in Device : site[e] = SITE_OK => site'[e] = SITE_OK
    BY <1>4, <1>a DEF Skip, SendFails, Accept, SITE_OK
  <2>2. /\ UNCHANGED saved
        /\ \/ mem'.rec = [mem.rec EXCEPT ![d] = "skipped"]
           \/ mem'.rec = [mem.rec EXCEPT ![d] = "failed"]
    BY <1>4, <1>b DEF Skip, SendFails
  <2> QED BY <2>1, <2>2, <1>a DEF Fanouts, SITE_OK
<1>5. ASSUME NEW d \in Member, Send(d) PROVE UpdatedDid'
  <2>1. \A e \in Device : site[e] = SITE_OK => site'[e] = SITE_OK
    BY <1>5, <1>a DEF Send, Accept, SITE_OK
  <2>2. mem'.rec = [mem.rec EXCEPT ![d] = site'[d]] /\ UNCHANGED saved
    BY <1>5, <1>b DEF Send
  <2> QED BY <2>1, <2>2, <1>a DEF Fanouts
<1>6. ASSUME NEW d \in Member, Poll(d) PROVE UpdatedDid'
  <2>1. PICK state \in {site[d], mem.rec[d]} :
          mem'.rec = [mem.rec EXCEPT ![d] = state] /\ UNCHANGED <<saved, site>>
    BY <1>6, <1>b DEF Poll
  <2>2. state = SITE_OK => site[d] = SITE_OK
    BY <2>1
  <2> QED BY <2>1, <2>2, <1>a DEF Fanouts
<1>7. ASSUME NEW d \in Device, SiteEnds(d) PROVE UpdatedDid'
  BY <1>7, <1>a DEF SiteEnds, SITE_OK, proc
<1>8. CASE Crash
  BY <1>8 DEF Crash
<1>9. CASE UNCHANGED <<saved, mem, site>>
  BY <1>9
<1> QED
  BY <1>1, <1>2, <1>3, <1>4, <1>5, <1>6, <1>7, <1>8, <1>9
  DEF Next, Work, Tick, Close, PollFails, RequestRollback, Connection, TimePasses, vars, proc

\* Spec keeps it.
LEMMA UpdatedDidInvariant == Spec => []UpdatedDid
<1>1. Init => UpdatedDid
  BY DEF Init, UpdatedDid, Start, SITE_OK
<1> QED BY <1>1, UpdatedDidStep, IInvInvariant, PTL DEF Spec

\* For a change set of one site.change item, a device that counts as updated did apply
\* the site change of this item.  With two, which share the key, the second is only
\* as true as the first: the hypothesis is needed.
THEOREM UpdatedCorrect ==
  ASSUME Items = 1
  PROVE  Spec => []UpdatedIsApplied
<1>1. TypeOK /\ IInv /\ UpdatedDid => UpdatedIsApplied
  <2> SUFFICES ASSUME TypeOK, IInv, UpdatedDid,
                      NEW s \in {saved, mem}, NEW d \in Member, s.rec[d] = SITE_OK
               PROVE  site[d] = SITE_OK /\ <<Key(d), s.item>> \in made[d]
    BY DEF UpdatedIsApplied
  <2>1. site[d] = SITE_OK /\ s.item = 1 /\ d \in Device
    BY MembersAreDevices DEF UpdatedDid, TypeOK, Fanouts
  <2>2. PICK m \in made[d] : \E i \in 1..Items : m = <<Key(d), i>>
    BY <2>1 DEF IInv, MadeOnce, SITE_OK
  <2>3. m = <<Key(d), 1>>
    BY <2>2
  <2> QED BY <2>1, <2>2, <2>3
<1> QED BY <1>1, IInvInvariant, UpdatedDidInvariant, PTL

-----------------------------------------------------------------------------
(* The order of the waves, for one item and while no crash cut a wave.     *)

\* The fan-out is past the device, or at it.
Handled(d) ==
  \E j \in WaveIdx :
    /\ d \in Waves[j]
    /\ \/ j < mem.current
       \/ /\ j = mem.current
          /\ mem.wave # "pending" \/ mem.status # "running" \/ (at = "send" /\ d \notin left)

Good(d) == site[d] \in {"none", SITE_OK}

\* What a device was sent or is recorded as, it was by the wave it is in; that wave is
\* passed only when each of its devices applied or was never sent anything.
WavesOver ==
  /\ at # "more" /\ (at \in {"idle", "close"} => mem = saved)
  /\ \A d \in Device : made[d] # {} => Handled(d)
  /\ \A d \in Member :
       /\ mem.rec[d] # "pending" => Handled(d)
       /\ mem.rec[d] = "skipped" => made[d] = {}
  /\ \A i \in WaveIdx : i < mem.current => \A d \in Waves[i] : Good(d)
  /\ mem.wave = "soaking" => \A d \in Waves[mem.current] : Good(d)
  /\ at = "poll" => \A d \in Waves[mem.current] \ left : d \in waiting \/ Good(d)

\* No wave has gone out at first.
LEMMA WavesOverInit == Init => WavesOver
<1> SUFFICES ASSUME Init PROVE WavesOver
  OBVIOUS
<1> QED BY DEF Init, WavesOver, Start, Good, WaveIdx

\* A wave keeps its order whatever a step does to the devices that are not in it.
LEMMA WavesOverStep ==
  ASSUME Items = 1, TypeOK, IInv, UpdatedDid, faults = 0 => WavesOver, [Next]_vars, faults' = 0
  PROVE  WavesOver'
<1> USE DEF devs, CanTick, Posting, Polling
<1>a. /\ mem \in Fanouts /\ saved \in Fanouts /\ WaveIdx = 1..Len(Waves) /\ Len(Waves) \in Nat
      /\ Member \subseteq Device /\ \A i \in WaveIdx : Waves[i] \subseteq Member
      /\ \A i, j \in WaveIdx : i # j => Waves[i] \cap Waves[j] = {}
      /\ site \in [Device -> SiteState] /\ saved.item = 1 /\ mem.item = 1 /\ faults \in Nat
  <2>1. /\ Member \subseteq Device /\ \A i \in WaveIdx : Waves[i] \subseteq Member
    BY MembersAreDevices
  <2>2. /\ WaveIdx = 1..Len(Waves) /\ Len(Waves) \in Nat
        /\ \A i, j \in WaveIdx : i # j => Waves[i] \cap Waves[j] = {}
    BY FanoutConstants DEF WaveIdx
  <2>3. /\ mem \in Fanouts /\ saved \in Fanouts /\ site \in [Device -> SiteState]
    BY DEF TypeOK
  <2>4. saved.item = 1 /\ mem.item = 1
    BY <2>3 DEF Fanouts
  <2>5. faults \in Nat
    BY FanoutConstants DEF TypeOK
  <2> QED
    BY <2>1, <2>2, <2>3, <2>4, <2>5
<1>b. faults = 0
  <2>1. CASE Crash
    BY <2>1, <1>a DEF Crash
  <2>2. CASE UNCHANGED faults
    BY <2>2
  <2> QED
    BY <2>1, <2>2
    DEF Next, Work, Tick, TickEnded, TickSend, TickPoll, TickSoaking, SendDone, PollDone, Save,
        Close, Skip, Send, SendFails, PollFails, Poll, RequestRollback, SiteEnds, Connection,
        TimePasses, vars
<1>c. WavesOver
  BY <1>b
<1>n. /\ Now \in Fanouts /\ Now.status = saved.status /\ Now.wave = saved.wave /\ Now.rec = saved.rec
      /\ saved.current <= Now.current /\ Now.current \in 1..(Len(Waves) + 1)
      /\ \A j \in saved.current..(Now.current - 1) : Waves[j] = {}
      /\ Now.wave # "pending" => Now.current = saved.current
  BY <1>a, NowTyped DEF Fanouts, IInv, CursorFits
<1>p. ASSUME NEW d \in Device, Handled(d), NEW i \in WaveIdx, d \in Waves[i]
      PROVE  /\ i <= mem.current
             /\ i = mem.current => \/ mem.wave # "pending"
                                   \/ mem.status # "running"
                                   \/ at = "send" /\ d \notin left
  <2>1. PICK j \in WaveIdx :
        /\ d \in Waves[j]
        /\ \/ j < mem.current
           \/ /\ j = mem.current
              /\ mem.wave # "pending" \/ mem.status # "running" \/ (at = "send" /\ d \notin left)
    BY <1>p DEF Handled
  <2>2. j = i
    BY <1>a, <1>p, <2>1
  <2>3. mem.current \in Nat /\ i \in Nat
    BY <1>a DEF Fanouts
  <2>4. CASE j < mem.current
    BY <2>2, <2>3, <2>4
  <2>5. CASE j = mem.current
    BY <2>1, <2>2, <2>3, <2>5
  <2> QED BY <2>1, <2>4, <2>5
\* The fan-out at the same place, the wave at least as far: all that was handled is.
<1>k. ASSUME mem'.current = mem.current,
             mem.wave # "pending" => mem'.wave # "pending",
             mem.status # "running" => mem'.status # "running",
             at = "send" => \/ mem'.wave # "pending" \/ mem'.status # "running"
                            \/ at' = "send" /\ left' \subseteq left,
             NEW d, Handled(d)
      PROVE  Handled(d)'
  BY <1>k DEF Handled
<1>u. ASSUME UNCHANGED <<mem, made, site, left>>, at' = "send" <=> at = "send",
             at' # "more", at' \in {"idle", "close"} => mem' = saved',
             at' = "poll" => at = "poll" /\ waiting \subseteq waiting'
      PROVE  WavesOver'
  BY <1>u, <1>c, <1>k DEF WavesOver, Good
\* What a tick makes of the fan-out it read: the cursor passes over empty waves.
<1>t. ASSUME at = "idle", at' \in {"send", "poll", "save"}, UNCHANGED <<made, site>>,
             mem'.rec = saved.rec, mem'.current = Now.current, mem'.wave = saved.wave,
             mem'.status = saved.status \/ mem'.status # "running",
             at' = "poll" => \A d \in Waves[mem'.current] \ left' : Good(d)
      PROVE  WavesOver'
  <2> USE <1>c DEF WavesOver
  <2>1. mem = saved
    BY <1>t
  <2>2. ASSUME NEW d, Handled(d) PROVE Handled(d)'
    <3>1. PICK j \in WaveIdx :
          /\ d \in Waves[j]
          /\ \/ j < mem.current
             \/ /\ j = mem.current
                /\ mem.wave # "pending" \/ mem.status # "running" \/ (at = "send" /\ d \notin left)
      BY <2>2 DEF Handled
    <3>2. saved.current \in Nat /\ Now.current \in Nat /\ j \in Nat
      BY <1>a, <1>n DEF Fanouts
    <3>3. j < Now.current \/ (j = Now.current /\ (saved.wave # "pending" \/ saved.status # "running"))
      BY <1>t, <1>n, <2>1, <3>1, <3>2
    <3>4. \/ j < mem'.current
          \/ j = mem'.current /\ (mem'.wave # "pending" \/ mem'.status # "running")
      BY <1>t, <3>3
    <3> QED BY <3>1, <3>4 DEF Handled
  <2>3. \A i \in WaveIdx : i < Now.current => \A d \in Waves[i] : Good(d)
    <3> SUFFICES ASSUME NEW i \in WaveIdx, i < Now.current, NEW d \in Waves[i] PROVE Good(d)
      OBVIOUS
    <3>1. saved.current \in Nat /\ Now.current \in Nat /\ i \in Nat
      BY <1>a, <1>n DEF Fanouts
    <3>2. CASE i < saved.current
      BY <2>1, <3>2
    <3>3. CASE i >= saved.current
      BY <1>n, <3>1, <3>3
    <3> QED BY <3>1, <3>2, <3>3
  <2>4. mem'.wave = "soaking" => mem'.current = mem.current
    BY <1>t, <1>n, <2>1
  <2> QED BY <1>t, <1>a, <2>1, <2>2, <2>3, <2>4 DEF Good
<1>1. CASE TickEnded
  <2>0. at = "idle"
    BY <1>1, <1>c DEF TickEnded, WavesOver
  <2>1. CASE saved.status # "running" /\ mem' = saved
    <3>1. mem' = mem
      BY <1>c, <2>0, <2>1 DEF WavesOver
    <3> QED BY <1>1, <1>u, <2>0, <3>1 DEF TickEnded
  <2>2. CASE mem' = [Now EXCEPT !.status = "done"]
    <3>1. mem'.rec = saved.rec /\ mem'.current = Now.current /\ mem'.wave = saved.wave /\ mem'.status = "done"
      BY <1>n, <2>2 DEF Fanouts
    <3> QED BY <1>1, <1>t, <2>0, <3>1 DEF TickEnded
  <2> QED BY <1>1, <2>1, <2>2 DEF TickEnded
<1>2. CASE TickSend
  <2>0. at = "idle"
    BY <1>2, <1>c DEF TickSend, InWave, WavesOver
  <2> QED BY <1>2, <1>n, <1>t, <2>0 DEF TickSend
<1>3. CASE TickPoll
  <2>0. at = "idle" /\ mem = saved
    BY <1>3, <1>c DEF TickPoll, InWave, WavesOver
  <2>1. Now.current \in WaveIdx
    BY <1>3, <1>n, <1>a DEF TickPoll, InWave
  <2>2. ASSUME NEW d \in Waves[Now.current], d \notin left' PROVE Good(d)
    <3>1. d \in Device /\ d \in Member /\ saved.rec[d] \in {"skipped", SITE_OK}
      BY <1>3, <1>n, <1>a, <2>1, <2>2 DEF TickPoll
    <3>2. CASE saved.rec[d] = SITE_OK
      BY <3>1, <3>2 DEF UpdatedDid, Good
    <3>3. CASE saved.rec[d] = "skipped"
      <4>1. made[d] = {}
        BY <1>c, <2>0, <3>1, <3>3 DEF WavesOver
      <4> QED BY <4>1, <3>1 DEF IInv, MadeOnce, Good
    <3> QED BY <3>1, <3>2, <3>3
  <2>3. mem' = Now /\ at' = "poll" /\ UNCHANGED <<made, site>>
    BY <1>3 DEF TickPoll
  <2> QED BY <1>n, <1>t, <2>0, <2>2, <2>3
<1>4. CASE TickSoaking
  <2>0. at = "idle" /\ mem = saved /\ Now.current \in WaveIdx /\ Now.current = saved.current
        /\ saved.wave = "soaking"
    BY <1>4, <1>c, <1>n, <1>a DEF TickSoaking, InWave, WavesOver
  <2>1. CASE ~due
    <3>1. mem' = Now /\ at' = "save" /\ UNCHANGED <<made, site>>
      BY <1>4, <2>1 DEF TickSoaking
    <3> QED BY <1>n, <1>t, <2>0, <3>1
  <2>2. CASE due
    <3>1. /\ mem'.current = Now.current + 1 /\ mem'.wave = "pending" /\ mem'.rec = saved.rec
          /\ at' = "save" /\ UNCHANGED <<made, site>>
      BY <1>4, <1>n, <2>2 DEF TickSoaking, Fanouts
    <3>2. ASSUME NEW d \in Device, Handled(d) PROVE Handled(d)'
      BY <1>a, <2>0, <3>1, <3>2 DEF Handled
    <3>3. ASSUME NEW i \in WaveIdx, i < mem'.current, NEW d \in Waves[i] PROVE Good(d)
      BY <1>a, <1>c, <2>0, <3>1, <3>3 DEF WavesOver
    <3> QED BY <1>a, <1>c, <2>0, <3>1, <3>2, <3>3 DEF WavesOver, Good
  <2> QED BY <2>1, <2>2
<1>5. CASE SendDone
  <2>1. mem' = [mem EXCEPT !.wave = "sent"] /\ at = "send" /\ at' = "save" /\ UNCHANGED <<made, site>>
    BY <1>5 DEF SendDone
  <2>2. /\ mem'.current = mem.current /\ mem'.wave = "sent" /\ mem'.status = mem.status
        /\ mem'.rec = mem.rec
    BY <1>a, <2>1 DEF Fanouts
  <2> QED BY <1>c, <1>k, <2>1, <2>2 DEF WavesOver, Good
<1>6. CASE PollDone
  <2>1. /\ at = "poll" /\ at' = "save" /\ UNCHANGED <<made, site>> /\ left = {}
        /\ mem'.current = mem.current /\ mem'.rec = mem.rec
        /\ mem.wave = "sent" /\ mem'.wave \in {"sent", "soaking"} /\ mem.status = "running"
        /\ mem'.wave = "soaking" => waiting = {}
    BY <1>6, <1>a DEF PollDone, Halt, Fanouts, IInv, AtFits
  <2> QED BY <1>c, <1>k, <2>1 DEF WavesOver, Good
<1>7. CASE Save
  <2>1. ~ (mem.item < Items)
    BY <1>a
  <2> QED BY <1>7, <1>u, <2>1 DEF Save
<1>8. CASE Close
  BY <1>8, <1>u, <1>c DEF Close, WavesOver
<1>9. ASSUME NEW d \in Member, Skip(d) PROVE WavesOver'
  <2>1. /\ at = "send" /\ at' = "send" /\ UNCHANGED <<made, site>> /\ left' = left \ {d} /\ d \in left
        /\ mem'.current = mem.current /\ mem'.wave = mem.wave /\ mem'.status = mem.status
        /\ mem'.rec = [mem.rec EXCEPT ![d] = "skipped"]
        /\ mem.wave = "pending" /\ mem.status = "running" /\ mem.current \in WaveIdx
        /\ d \in Waves[mem.current]
    BY <1>9, <1>a DEF Skip, Note, Fanouts, IInv, AtFits
  <2>2. ~ Handled(d)
    BY <1>a, <1>p, <2>1
  <2>3. made[d] = {}
    BY <1>a, <1>c, <2>2 DEF WavesOver
  <2>4. Handled(d)'
    BY <2>1 DEF Handled
  <2>5. \A e \in Member : mem'.rec[e] = IF e = d THEN "skipped" ELSE mem.rec[e]
    BY <1>a, <2>1 DEF Fanouts
  <2> QED BY <1>c, <1>k, <2>1, <2>3, <2>4, <2>5 DEF WavesOver, Good
<1>10. ASSUME NEW d \in Member, Accept(d) \/ UNCHANGED <<made, site>>, at = "send", d \in left,
              at' \in {"send", "save"}, left' = left \ {d} \/ mem'.status = "halted",
              mem'.status # "halted" => at' = "send",
              mem'.current = mem.current, mem'.wave = mem.wave, mem'.status \in {mem.status, "halted"},
              NEW r \in Record \ {"skipped"}, mem'.rec = [mem.rec EXCEPT ![d] = r]
       PROVE  WavesOver'
  <2>1. /\ mem.wave = "pending" /\ mem.status = "running" /\ mem.current \in WaveIdx
        /\ d \in Waves[mem.current] /\ d \in Device
    BY <1>10, <1>a DEF IInv, AtFits
  <2>2. \A e \in Device : e # d => made'[e] = made[e] /\ site'[e] = site[e]
    BY <1>10, <2>1, AcceptOnce DEF IInv
  <2>3. Handled(d)'
    BY <1>10, <2>1 DEF Handled
  <2>4. ASSUME NEW e, Handled(e) PROVE Handled(e)'
    BY <1>10, <1>k, <2>1, <2>4
  <2>5. \A e \in Member : mem'.rec[e] = IF e = d THEN r ELSE mem.rec[e]
    BY <1>a, <1>10 DEF Fanouts
  <2>6. ASSUME NEW i \in WaveIdx, i < mem.current, NEW e \in Waves[i] PROVE e # d /\ e \in Device
    BY <1>a, <2>1, <2>6
  <2>7. \A e \in Device : made'[e] # {} => Handled(e)'
    BY <1>c, <2>2, <2>3, <2>4 DEF WavesOver
  <2>8. \A e \in Member : /\ mem'.rec[e] # "pending" => Handled(e)'
                          /\ mem'.rec[e] = "skipped" => made'[e] = {}
    BY <1>a, <1>c, <2>2, <2>3, <2>4, <2>5 DEF WavesOver
  <2>9. \A i \in WaveIdx : i < mem.current => \A e \in Waves[i] : Good(e)'
    BY <1>c, <2>2, <2>6 DEF WavesOver, Good
  <2> QED BY <1>10, <2>1, <2>7, <2>8, <2>9 DEF WavesOver
<1>11. ASSUME NEW d \in Member, Send(d) PROVE WavesOver'
  <2>1. d \in Device /\ site'[d] \in Record \ {"skipped"}
    BY <1>11, <1>a DEF Send, Accept, SiteState, Record, SITE_OK, SITE_BAD
  <2>2. /\ Accept(d) /\ at = "send" /\ d \in left /\ at' = "send" /\ left' = left \ {d}
        /\ mem'.current = mem.current /\ mem'.wave = mem.wave /\ mem'.status = mem.status
        /\ mem'.rec = [mem.rec EXCEPT ![d] = site'[d]]
    BY <1>11, <1>a DEF Send, Note, Fanouts
  <2> QED BY <1>10, <2>1, <2>2
<1>12. ASSUME NEW d \in Member, SendFails(d) PROVE WavesOver'
  <2>1. /\ Accept(d) \/ UNCHANGED <<made, site>>
        /\ at = "send" /\ d \in left /\ at' = "save"
        /\ mem'.current = mem.current /\ mem'.wave = mem.wave /\ mem'.status = "halted"
        /\ mem'.rec = [mem.rec EXCEPT ![d] = "failed"]
    BY <1>12, <1>a DEF SendFails, Note, Halt, Fanouts
  <2> QED BY <1>10, <2>1 DEF Record
<1>13. ASSUME NEW d \in Member, PollFails(d) PROVE WavesOver'
  <2>1. /\ UNCHANGED <<mem, made, site, at>> /\ at = "poll" /\ left' = left \ {d}
        /\ waiting' = waiting \cup {d}
    BY <1>13 DEF PollFails
  <2> QED BY <1>c, <1>k, <2>1 DEF WavesOver, Good
<1>14. ASSUME NEW d \in Member, Poll(d) PROVE WavesOver'
  <2>1. /\ UNCHANGED <<made, site>> /\ at = "poll" /\ left' = left \ {d} /\ d \in left
        /\ at' \in {"poll", "save"}
    BY <1>14 DEF Poll, Polling, devs
  <2>2. PICK state \in {site[d], mem.rec[d]} :
        /\ mem'.current = mem.current /\ mem'.wave = mem.wave /\ mem'.status \in {mem.status, "halted"}
        /\ mem'.rec = [mem.rec EXCEPT ![d] = state]
        /\ waiting' = IF state # SITE_OK THEN waiting \cup {d} ELSE waiting
    BY <1>14, <1>a DEF Poll, Note, Halt, Fanouts
  <2>3. /\ mem.wave = "sent" /\ mem.current \in WaveIdx /\ d \in Waves[mem.current]
        /\ d \in Device /\ site[d] # "none"
    BY <1>a, <2>1 DEF IInv, AtFits, WaveSent
  <2>4. Handled(d)'
    BY <2>1, <2>2, <2>3 DEF Handled
  <2>5. \A e \in Member : mem'.rec[e] = IF e = d THEN state ELSE mem.rec[e]
    BY <1>a, <2>2 DEF Fanouts
  \* A device that is polled was not skipped: it has the change.
  <2>6. mem.rec[d] # "skipped" /\ site[d] # "skipped"
    <3>1. made[d] # {}
      BY <2>3 DEF IInv, MadeOnce
    <3> QED BY <1>a, <1>c, <2>3, <3>1 DEF WavesOver, SiteState, SITE_OK, SITE_BAD
  <2>7. ASSUME NEW e, Handled(e) PROVE Handled(e)'
    BY <1>k, <2>1, <2>2, <2>3, <2>7
  <2>8. state = SITE_OK => Good(d)
    BY <2>2 DEF UpdatedDid, Good
  <2>9. \A e \in Waves[mem.current] \ left' : e \in waiting' \/ Good(e)
    BY <1>c, <2>1, <2>2, <2>8 DEF WavesOver, Good
  <2> QED BY <1>c, <2>1, <2>2, <2>3, <2>4, <2>5, <2>6, <2>7, <2>9 DEF WavesOver, Good
<1>15. CASE RequestRollback
  BY <1>15, <1>u, <1>c DEF RequestRollback, proc, WavesOver
<1>16. ASSUME NEW d \in Device, SiteEnds(d) PROVE WavesOver'
  <2>1. UNCHANGED <<made, saved, mem, at, left, waiting>>
    BY <1>16 DEF SiteEnds, proc
  <2>2. \A e \in Device : Good(e) => Good(e)'
    BY <1>16, <1>a DEF SiteEnds, Good, SITE_OK, SITE_BAD
  <2>3. mem.wave = "soaking" \/ at = "poll" => mem.current \in WaveIdx
    BY DEF IInv, CursorFits, AtFits
  <2> QED BY <1>a, <1>c, <1>k, <2>1, <2>2, <2>3 DEF WavesOver
<1>17. CASE UNCHANGED <<made, site, saved, mem, at, left, waiting>>
  BY <1>17, <1>u, <1>c DEF WavesOver
<1>18. ~ Crash
  BY <1>a DEF Crash
<1> QED
  BY <1>1, <1>2, <1>3, <1>4, <1>5, <1>6, <1>7, <1>8, <1>9, <1>11, <1>12, <1>13, <1>14, <1>15,
     <1>16, <1>17, <1>18
  DEF Next, Work, Tick, Connection, TimePasses, vars, proc

\* For a change set of one site.change item, and as long as no crash cut a wave: a later
\* wave is sent only over devices that applied, or never got, the change.  With more
\* items a device that was skipped gets the change in the wave of a later item.
THEOREM WavesOverApplied ==
  ASSUME Items = 1
  PROVE  Spec => []LaterWavesOverAppliedUncut
<1>1. Init => (faults = 0 => WavesOver)
  BY WavesOverInit
<1>2. TypeOK /\ IInv /\ UpdatedDid /\ (faults = 0 => WavesOver) /\ [Next]_vars
      => (faults = 0 => WavesOver)'
  BY WavesOverStep
<1>3. TypeOK /\ (faults = 0 => WavesOver) => LaterWavesOverAppliedUncut
  <2> SUFFICES ASSUME TypeOK, WavesOver, NEW i \in WaveIdx, NEW j \in WaveIdx, i < j,
                      NEW d \in Waves[i], NEW e \in Waves[j], made[e] # {}
               PROVE  site[d] \in {"none", SITE_OK}
    BY DEF LaterWavesOverAppliedUncut, LaterWavesOverApplied
  <2>1. Handled(e) /\ mem.current \in Nat /\ WaveIdx \subseteq Nat
    BY MembersAreDevices, FanoutConstants DEF WavesOver, TypeOK, Fanouts, WaveIdx
  <2>2. j <= mem.current
    <3>1. PICK k \in WaveIdx :
          /\ e \in Waves[k]
          /\ \/ k < mem.current
             \/ /\ k = mem.current
                /\ mem.wave # "pending" \/ mem.status # "running" \/ (at = "send" /\ e \notin left)
      BY <2>1 DEF Handled
    <3>2. k = j
      BY <3>1, FanoutConstants
    <3> QED BY <2>1, <3>1, <3>2
  <2> QED BY <2>1, <2>2 DEF WavesOver, Good
<1> QED BY <1>1, <1>2, <1>3, IInvInvariant, UpdatedDidInvariant, PTL DEF Spec
=============================================================================
