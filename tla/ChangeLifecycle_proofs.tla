----------------------- MODULE ChangeLifecycle_proofs -----------------------
(***************************************************************************)
(* For every number of changes, fleets, users and classes: change control  *)
(* never rolls out two changes on one fleet, whatever runs has the         *)
(* approvals its policies ask for on the plan that runs, and the fleets    *)
(* see a lock each.  What is further promised holds where nothing writes   *)
(* beside the changes, or no operation is cut short.                       *)
(***************************************************************************)
EXTENDS ChangeLifecycle, FiniteSetTheorems, TLAPS

\* A plan's base is read from the fleets as they are.
LEMMA BaseTyped ==
  ASSUME TypeOK, NEW c \in Change
  PROVE  CurrentBase(c) \in [Fleet -> Version]
BY DEF TypeOK, CurrentBase

\* created_at ranks are numbers because there are finitely many changes.
LEMMA RankTyped ==
  1 + Cardinality({d \in Change : state[d] # "absent"}) \in Nat
<1> DEFINE S == {d \in Change : state[d] # "absent"}
<1>1. IsFiniteSet(S)
  BY ConstantsOK, FS_Subset
<1>2. Cardinality(S) \in Nat
  BY <1>1, FS_CardinalityType
<1> QED BY <1>2

\* TypeOK holds initially.
LEMMA TypeInit == Init => TypeOK
BY ConstantsOK DEF Init, TypeOK, State, Slot, Step

\* The API operations keep every variable in its type.
LEMMA TypeApi == TypeOK /\ ApiOp => TypeOK'
<1> SUFFICES ASSUME TypeOK, NEW c \in Change,
                    \/ \E u \in User : Approve(c, u) \/ \E draft \in BOOLEAN : Create(c, u, draft)
                    \/ Replan(c) \/ Reject(c) \/ Cancel(c) \/ ApplyNow(c) \/ RequestRollback(c)
             PROVE  TypeOK'
  BY DEF ApiOp
<1> USE DEF TypeOK, State, Slot, Step, GoTo, Finish, SetState, env, ctl, rows,
            ACTIVE, Waiting, Rolling, TERMINAL
<1>1. ASSUME NEW u \in User, Approve(c, u) PROVE TypeOK'
  <2>1. CASE BaseMoved(c)
    BY <1>1, <2>1 DEF Approve
  <2>2. CASE ~BaseMoved(c)
    <3> DEFINE new == [by |-> u, hash |-> base[c], held |-> Held(u, c)]
    <3>1. new \in Approval
      BY ConstantsOK DEF Approval, Held
    <3>2. approvals' = [approvals EXCEPT ![c] = @ \cup {new}]
      BY <1>1, <2>2 DEF Approve
    <3> HIDE DEF new
    <3>3. approvals' \in [Change -> SUBSET Approval]
      BY <3>1, <3>2
    <3> QED BY <1>1, <2>2, <3>3 DEF Approve
  <2> QED BY <2>1, <2>2
<1>2. ASSUME NEW u \in User, NEW draft \in BOOLEAN, Create(c, u, draft) PROVE TypeOK'
  <2>1. age' \in [Change -> Nat]
    BY <1>2, RankTyped DEF Create
  <2>2. base' \in [Change -> [Fleet -> Version]]
    BY <1>2, BaseTyped DEF Create
  <2> QED BY <1>2, <2>1, <2>2 DEF Create
<1>3. CASE Replan(c)
  <2>1. base' \in [Change -> [Fleet -> Version]]
    BY <1>3, BaseTyped DEF Replan
  <2> QED BY <1>3, <2>1 DEF Replan
<1>4. CASE Reject(c)
  BY <1>4 DEF Reject
<1>5. CASE Cancel(c)
  BY <1>5 DEF Cancel
<1>6. CASE ApplyNow(c)
  BY <1>6 DEF ApplyNow
<1>7. CASE RequestRollback(c)
  BY <1>7 DEF RequestRollback
<1> QED BY <1>1, <1>2, <1>3, <1>4, <1>5, <1>6, <1>7

\* So do the steps of an operation that holds the lock.
LEMMA TypeContinue == TypeOK /\ (\E c \in Change : Continue(c)) => TypeOK'
<1> SUFFICES ASSUME TypeOK, NEW c \in Change, Continue(c) PROVE TypeOK'
  OBVIOUS
<1> USE DEF TypeOK, State, Slot, Step, GoTo, Finish, SetState, env, ctl, rows,
            ACTIVE, Waiting, Rolling, TERMINAL
<1>1. CASE ToPlanned(c)
  BY <1>1 DEF ToPlanned
<1>2. CASE MaybeApproved(c)
  BY <1>2 DEF MaybeApproved
<1>3. CASE TickNext(c)
  BY <1>3 DEF TickNext
<1>4. CASE AdvanceExpire(c)
  BY <1>4 DEF AdvanceExpire
<1>5. CASE AdvanceSchedule(c)
  BY <1>5 DEF AdvanceSchedule
<1>6. CASE AdvanceCheckBase(c)
  BY <1>6 DEF AdvanceCheckBase
<1>7. CASE Begin(c)
  BY <1>7 DEF Begin
<1>8. CASE AdvanceRolling(c)
  BY <1>8 DEF AdvanceRolling
<1>9. CASE StillWorking(c)
  BY <1>9 DEF StillWorking
<1>10. CASE RunDone(c)
  BY <1>10 DEF RunDone
<1>11. CASE RunFail(c)
  BY <1>11 DEF RunFail
<1>17. CASE RunHalted(c)
  BY <1>17 DEF RunHalted
<1>12. CASE VerifyPassed(c)
  BY <1>12 DEF VerifyPassed
<1>13. CASE VerifyFailed(c)
  BY <1>13 DEF VerifyFailed
<1>14. CASE RolledBack(c)
  BY <1>14 DEF RolledBack
<1>15. ASSUME NEW f \in Fleet, RunItem(c, f) PROVE TypeOK'
  <2>1. Target[c][f] \in Version
    BY ConstantsOK
  <2>2. world' \in [Fleet -> Version] /\ prior' \in [Change -> [Fleet -> Version]]
    BY <1>15, <2>1 DEF RunItem
  <2> QED BY <1>15, <2>2 DEF RunItem
<1>16. ASSUME NEW S \in SUBSET Fleet, Undo(c, S) PROVE TypeOK'
  <2>1. world' \in [Fleet -> Version]
    BY <1>16 DEF Undo
  <2> QED BY <1>16, <2>1 DEF Undo
<1> QED
  BY <1>1, <1>2, <1>3, <1>4, <1>5, <1>6, <1>7, <1>8, <1>9, <1>10, <1>11, <1>12, <1>13,
     <1>14, <1>15, <1>16, <1>17 DEF Continue

\* Failures, direct writes and the calendar keep the types too.
LEMMA TypeEnvironment ==
  ASSUME TypeOK,
         \/ Tick \/ PineError \/ Abort \/ Crash
         \/ \E f \in Fleet : DirectGate(f) \/ \E v \in Version : DirectWrite(f, v)
         \/ OpenWindow \/ CloseWindow
  PROVE  TypeOK'
<1> USE DEF TypeOK, State, Slot, Step, Finish, env, ctl, rows
<1>1. CASE Tick
  BY <1>1 DEF Tick
<1>2. CASE PineError
  BY <1>2 DEF PineError
<1>3. CASE Abort
  <2>1. faults' \in 0..MaxFaults
    BY <1>3, ConstantsOK DEF Abort
  <2> QED BY <1>3, <2>1 DEF Abort
<1>4. CASE Crash
  <2>1. faults' \in 0..MaxFaults
    BY <1>4, ConstantsOK DEF Crash
  <2> QED BY <1>4, <2>1 DEF Crash
<1>5. ASSUME NEW f \in Fleet, DirectGate(f) PROVE TypeOK'
  BY <1>5 DEF DirectGate
<1>6. ASSUME NEW f \in Fleet, NEW v \in Version, DirectWrite(f, v) PROVE TypeOK'
  BY <1>6 DEF DirectWrite
<1>7. CASE OpenWindow
  <2>1. sched' \in [Change -> Slot]
    BY <1>7 DEF OpenWindow
  <2> QED BY <1>7, <2>1 DEF OpenWindow
<1>8. CASE CloseWindow
  <2>1. sched' \in [Change -> Slot]
    BY <1>8 DEF CloseWindow
  <2> QED BY <1>8, <2>1 DEF CloseWindow
<1> QED BY <1>1, <1>2, <1>3, <1>4, <1>5, <1>6, <1>7, <1>8

\* Every step keeps the types.
LEMMA TypeStep == TypeOK /\ [Next]_vars => TypeOK'
<1>1. TypeOK /\ UNCHANGED vars => TypeOK'
  BY DEF TypeOK, vars, rows, ctl, env
<1> QED BY <1>1, TypeApi, TypeContinue, TypeEnvironment DEF Next

\* Type correctness: every row, the lock holder and the fleets always have
\* values of their types.
THEOREM TypeCorrect == Spec => []TypeOK
BY TypeInit, TypeStep, PTL DEF Spec

-----------------------------------------------------------------------------
(* Approvals.                                                              *)

\* States a change has before it is approved: its plan may still move.
Unapproved == {"absent", "draft", "stale", "planned"}
Authority  == ACTIVE \cup {"applied"}

\* An approval that counts was given by somebody else who held the permission.
LEMMA QualifyingApprove ==
  ASSUME ApprovalsSound, NEW c \in Change, NEW k \in DOMAIN Policy[c]
  PROVE  Qualifying(c, k) \subseteq Approvers(c, k)
BY DEF ApprovalsSound, Qualifying, Approvers

\* Requirements that are met are authority in the sense of the documentation.
LEMMA MetIsAuthority ==
  ASSUME ApprovalsSound, NEW c \in Change, RequirementsMet(c), NEW k \in DOMAIN Policy[c]
  PROVE  /\ Cardinality(Approvers(c, k)) >= Policy[c][k]
         /\ k \notin Perm[author[c]] => Approvers(c, k) # {}
<1> DEFINE Q == Qualifying(c, k)  A == Approvers(c, k)
<1>1. IsFiniteSet(A)
  BY ConstantsOK, FS_Subset DEF Approvers
<1>2. IsFiniteSet(Q) /\ Cardinality(Q) <= Cardinality(A)
  BY <1>1, QualifyingApprove, FS_Subset
<1>3. Cardinality(Q) \in Nat /\ Cardinality(A) \in Nat
  BY <1>1, <1>2, FS_CardinalityType
<1>4. Policy[c][k] \in Nat
  BY ConstantsOK
<1>5. Cardinality(Q) >= Need(c, k)
  BY DEF RequirementsMet
<1>6. A = {} => Cardinality(A) = 0
  BY FS_EmptySet
<1> HIDE DEF Q, A
<1>7. Cardinality(A) >= Policy[c][k]
  BY <1>2, <1>3, <1>4, <1>5 DEF Need
<1>8. k \notin Perm[author[c]] => A # {}
  BY <1>2, <1>3, <1>4, <1>5, <1>6 DEF Need
<1> QED BY <1>7, <1>8 DEF A

\* The plan, author and approvals of an approved change stay as they are.
LEMMA PlanFixed ==
  ASSUME TypeOK, [Next]_vars, NEW d \in Change, state[d] \notin Unapproved
  PROVE  author'[d] = author[d] /\ base'[d] = base[d] /\ approvals'[d] = approvals[d]
<1> USE DEF TypeOK, Unapproved, rows
<1>1. CASE ApiOp
  BY <1>1 DEF ApiOp, Approve, Create, Replan, Reject, Cancel, ApplyNow, RequestRollback
<1>2. CASE \E c \in Change : Continue(c)
  BY <1>2 DEF Continue, ToPlanned, MaybeApproved, TickNext, AdvanceExpire, AdvanceSchedule,
     AdvanceCheckBase, Begin, AdvanceRolling, StillWorking, RunDone, RunFail, RunHalted, VerifyPassed,
     VerifyFailed, RolledBack, RunItem, Undo
<1>3. CASE UNCHANGED vars
  BY <1>3 DEF vars
<1> QED
  BY <1>1, <1>2, <1>3 DEF Next, Tick, PineError, Abort, Crash, DirectGate, DirectWrite,
     OpenWindow, CloseWindow

\* The only way to authority is to meet the requirements.
LEMMA AuthorityEntered ==
  ASSUME TypeOK, LockAgrees, [Next]_vars, NEW d \in Change,
         state'[d] \in Authority, state[d] \notin Authority
  PROVE  RequirementsMet(d) /\ UNCHANGED <<author, base, approvals>>
<1> USE DEF TypeOK, Authority, ACTIVE, Waiting, Rolling, TERMINAL, SetState, rows
<1>1. CASE ApiOp
  <2>1. ASSUME NEW c \in Change, NEW s, s \notin Authority, state' = [state EXCEPT ![c] = s]
        PROVE FALSE
    BY <2>1
  <2>2. state' # state
    OBVIOUS
  <2>3. PICK c \in Change :
          \/ \E u \in User : Approve(c, u) \/ \E draft \in BOOLEAN : Create(c, u, draft)
          \/ Reject(c) \/ Cancel(c)
    BY <1>1, <2>2 DEF ApiOp, Replan, ApplyNow, RequestRollback
  <2>4. \E s \in {"stale", "draft", "rejected", "cancelled"} :
          state' = [state EXCEPT ![c] = s]
    BY <2>2, <2>3 DEF Approve, Create, Reject, Cancel
  <2> QED BY <2>1, <2>4
<1>2. ASSUME NEW c \in Change, Continue(c)
      PROVE RequirementsMet(d) /\ UNCHANGED <<author, base, approvals>>
  <2>1. CASE MaybeApproved(c)
    BY <2>1 DEF MaybeApproved
  <2>2. CASE VerifyPassed(c)
    BY <2>2 DEF VerifyPassed, LockAgrees
  <2>3. CASE RunDone(c)
    BY <2>3 DEF RunDone, LockAgrees
  <2>4. CASE Begin(c)
    BY <2>4 DEF Begin, LockAgrees
  <2> QED
    BY <1>2, <2>1, <2>2, <2>3, <2>4 DEF Continue, ToPlanned, TickNext, AdvanceExpire,
       AdvanceSchedule, AdvanceCheckBase, AdvanceRolling, StillWorking, RunFail, RunHalted, VerifyFailed,
       RolledBack, RunItem, Undo
<1>3. CASE UNCHANGED vars
  BY <1>3 DEF vars
<1> QED
  BY <1>1, <1>2, <1>3 DEF Next, Tick, PineError, Abort, Crash, DirectGate, DirectWrite,
     OpenWindow, CloseWindow

\* What may run was approved: by the step that lets it, on a plan that is fixed since.
LEMMA AuthorisedStep ==
  TypeOK /\ LockAgrees /\ ApprovalsSound /\ Authorised /\ [Next]_vars => Authorised'
<1> SUFFICES ASSUME TypeOK, LockAgrees, ApprovalsSound, Authorised, [Next]_vars,
                    NEW d \in Change, state'[d] \in Authority,
                    NEW k \in DOMAIN Policy[d]
             PROVE  /\ Cardinality(Approvers(d, k)') >= Policy[d][k]
                    /\ k \notin Perm[author'[d]] => Approvers(d, k)' # {}
  BY DEF Authorised, Authority
<1>1. /\ author'[d] = author[d] /\ base'[d] = base[d] /\ approvals'[d] = approvals[d]
      /\ Cardinality(Approvers(d, k)) >= Policy[d][k]
      /\ k \notin Perm[author[d]] => Approvers(d, k) # {}
  <2>1. CASE state[d] \in Authority
    <3>1. state[d] \notin Unapproved
      BY <2>1 DEF Authority, Unapproved, ACTIVE, Waiting, Rolling
    <3> QED BY <2>1, <3>1, PlanFixed DEF Authorised, Authority
  <2>2. CASE state[d] \notin Authority
    BY <2>2, AuthorityEntered, MetIsAuthority
  <2> QED BY <2>1, <2>2
<1>2. Approvers(d, k)' = Approvers(d, k)
  BY <1>1 DEF Approvers
<1> QED BY <1>1, <1>2

\* Approvals are added by Approve only, of a user who is not the author, and a
\* change that is planned again keeps none.
LEMMA ApprovalsSoundStep == TypeOK /\ ApprovalsSound /\ [Next]_vars => ApprovalsSound'
<1> SUFFICES ASSUME TypeOK, ApprovalsSound, [Next]_vars PROVE ApprovalsSound'
  OBVIOUS
<1> USE DEF TypeOK, SetState, rows
<1>1. ASSUME UNCHANGED <<author, approvals>>,
             NEW c \in Change, NEW s, s # "absent", state' = [state EXCEPT ![c] = s]
      PROVE  ApprovalsSound'
  BY <1>1 DEF ApprovalsSound
<1>2. ASSUME UNCHANGED <<state, author, approvals>> PROVE ApprovalsSound'
  BY <1>2 DEF ApprovalsSound
<1>3. CASE ApiOp
  <2> PICK c \in Change :
        \/ \E u \in User : Approve(c, u) \/ \E draft \in BOOLEAN : Create(c, u, draft)
        \/ Replan(c) \/ Reject(c) \/ Cancel(c) \/ ApplyNow(c) \/ RequestRollback(c)
    BY <1>3 DEF ApiOp
  <2>1. ASSUME NEW u \in User, Approve(c, u) PROVE ApprovalsSound'
    <3>1. CASE BaseMoved(c)
      BY <1>1, <2>1, <3>1 DEF Approve
    <3>2. CASE ~BaseMoved(c)
      <4> DEFINE new == [by |-> u, hash |-> base[c], held |-> Held(u, c)]
      <4>1. approvals' = [approvals EXCEPT ![c] = @ \cup {new}] /\ UNCHANGED <<state, author>>
        BY <2>1, <3>2 DEF Approve
      <4>2. new.by = u /\ new.held \subseteq Perm[u]
        BY DEF Held
      <4>3. u # author[c] /\ state[c] = "planned"
        BY <2>1 DEF Approve
      <4> HIDE DEF new
      <4> QED BY <4>1, <4>2, <4>3 DEF ApprovalsSound
    <3> QED BY <3>1, <3>2
  <2>2. ASSUME NEW u \in User, NEW draft \in BOOLEAN, Create(c, u, draft) PROVE ApprovalsSound'
    <3>1. approvals[c] = {}
      BY <2>2 DEF Create, ApprovalsSound
    <3> QED BY <2>2, <3>1 DEF Create, ApprovalsSound
  <2>3. CASE Replan(c) \/ ApplyNow(c) \/ RequestRollback(c)
    BY <1>2, <2>3 DEF Replan, ApplyNow, RequestRollback
  <2>4. CASE Reject(c) \/ Cancel(c)
    BY <1>1, <2>4 DEF Reject, Cancel
  <2> QED BY <2>1, <2>2, <2>3, <2>4
<1>4. ASSUME NEW c \in Change, Continue(c) PROVE ApprovalsSound'
  <2>1. UNCHANGED <<author, approvals>>
    BY <1>4 DEF Continue, ToPlanned, MaybeApproved, TickNext, AdvanceExpire, AdvanceSchedule,
       AdvanceCheckBase, Begin, AdvanceRolling, StillWorking, RunDone, RunFail, RunHalted, VerifyPassed,
       VerifyFailed, RolledBack, RunItem, Undo
  <2>2. \/ UNCHANGED state
        \/ \E s \in State \ {"absent"} : state' = [state EXCEPT ![c] = s]
    BY <1>4 DEF Continue, ToPlanned, MaybeApproved, TickNext, AdvanceExpire, AdvanceSchedule,
       AdvanceCheckBase, Begin, AdvanceRolling, StillWorking, RunDone, RunFail, RunHalted, VerifyPassed,
       VerifyFailed, RolledBack, RunItem, Undo, State, ACTIVE, Waiting, Rolling, TERMINAL
  <2> QED BY <1>1, <1>2, <2>1, <2>2
<1>5. CASE UNCHANGED vars
  BY <1>2, <1>5 DEF vars
<1> QED
  BY <1>2, <1>3, <1>4, <1>5 DEF Next, Tick, PineError, Abort, Crash, DirectGate, DirectWrite,
     OpenWindow, CloseWindow

-----------------------------------------------------------------------------
(* One rollout per fleet.                                                  *)

\* A change starts rolling only in Begin; everything else lets changes go on
\* rolling or stop.
LEMMA OnlyBeginStarts ==
  ASSUME TypeOK, LockAgrees, [Next]_vars
  PROVE  \/ \A d \in Change : state'[d] \in Rolling => state[d] \in Rolling
         \/ \E c \in Change : Begin(c)
<1> USE DEF TypeOK, Rolling, SetState, rows
<1>1. ASSUME NEW c \in Change, NEW s, s \notin Rolling, state' = [state EXCEPT ![c] = s]
      PROVE  \A d \in Change : state'[d] \in Rolling => state[d] \in Rolling
  BY <1>1
<1>2. CASE state' = state
  BY <1>2
<1>3. ASSUME ApiOp, state' # state
      PROVE  \A d \in Change : state'[d] \in Rolling => state[d] \in Rolling
  <2>1. PICK c \in Change :
          \/ \E u \in User : Approve(c, u) \/ \E draft \in BOOLEAN : Create(c, u, draft)
          \/ Reject(c) \/ Cancel(c)
    BY <1>3 DEF ApiOp, Replan, ApplyNow, RequestRollback
  <2>2. \E s \in {"stale", "draft", "rejected", "cancelled"} :
          state' = [state EXCEPT ![c] = s]
    BY <1>3, <2>1 DEF Approve, Create, Reject, Cancel
  <2> QED BY <1>1, <2>2
<1>4. ASSUME NEW c \in Change, Continue(c), ~Begin(c), state' # state
      PROVE  \A d \in Change : state'[d] \in Rolling => state[d] \in Rolling
  <2>1. CASE RunDone(c)
    BY <2>1 DEF RunDone, LockAgrees
  <2>2. CASE ~RunDone(c)
    <3>1. \E s \in State \ Rolling : state' = [state EXCEPT ![c] = s]
      BY <1>4, <2>2 DEF Continue, ToPlanned, MaybeApproved, TickNext, AdvanceExpire,
         AdvanceSchedule, AdvanceCheckBase, AdvanceRolling, StillWorking, RunFail, RunHalted, VerifyPassed,
         VerifyFailed, RolledBack, RunItem, Undo, State, ACTIVE, Waiting, TERMINAL
    <3> QED BY <1>1, <3>1
  <2> QED BY <2>1, <2>2
<1> QED
  BY <1>2, <1>3, <1>4 DEF Next, Tick, PineError, Abort, Crash, DirectGate, DirectWrite,
     OpenWindow, CloseWindow, vars

\* A change starts only on fleets that no other change holds.
LEMMA OneRolloutStep ==
  TypeOK /\ LockAgrees /\ OneRolloutPerFleet /\ [Next]_vars => OneRolloutPerFleet'
<1> SUFFICES ASSUME TypeOK, LockAgrees, OneRolloutPerFleet, [Next]_vars
             PROVE  OneRolloutPerFleet'
  OBVIOUS
<1>1. CASE \A d \in Change : state'[d] \in Rolling => state[d] \in Rolling
  BY <1>1 DEF OneRolloutPerFleet
<1>2. ASSUME NEW c \in Change, Begin(c) PROVE OneRolloutPerFleet'
  <2>1. ~Busy(c)
    BY <1>2 DEF Begin, LockAgrees
  <2>2. \A d \in Change \ {c} : state'[d] = state[d]
    BY <1>2 DEF Begin, SetState, TypeOK
  <2> QED BY <2>1, <2>2 DEF OneRolloutPerFleet, Busy
<1> QED BY <1>1, <1>2, OnlyBeginStarts

\* The thread and the row it works on agree: begin, run and verify are reached
\* only through the checks of advance(), and nobody else writes rows meanwhile.
LEMMA LockAgreesStep == TypeOK /\ LockAgrees /\ [Next]_vars => LockAgrees'
<1> SUFFICES ASSUME TypeOK, LockAgrees, [Next]_vars PROVE LockAgrees'
  OBVIOUS
<1> USE DEF TypeOK, At, GoTo, Finish, SetState, rows, ctl, Rolling, Waiting
<1>1. ASSUME at' \notin {"begin", "run", "verify"} PROVE LockAgrees'
  BY <1>1 DEF LockAgrees
<1>2. ASSUME UNCHANGED <<state, at, cur>> PROVE LockAgrees'
  BY <1>2 DEF LockAgrees, Busy
<1>3. CASE ApiOp
  BY <1>1, <1>3 DEF ApiOp, Approve, Create, Replan, Reject, Cancel, ApplyNow, RequestRollback, Idle
<1>4. ASSUME NEW c \in Change, Continue(c) PROVE LockAgrees'
  <2>1. CASE AdvanceCheckBase(c)
    <3>1. CASE BaseMoved(c)
      BY <1>1, <2>1, <3>1 DEF AdvanceCheckBase
    <3>2. CASE ~BaseMoved(c)
      BY <2>1, <3>2 DEF AdvanceCheckBase, LockAgrees, Busy
    <3> QED BY <3>1, <3>2
  <2>2. CASE Begin(c)
    BY <2>2 DEF Begin, LockAgrees
  <2>3. CASE AdvanceRolling(c)
    BY <2>3 DEF AdvanceRolling, LockAgrees
  <2>4. CASE RunDone(c)
    BY <2>4 DEF RunDone, LockAgrees
  <2>5. ASSUME NEW f \in Fleet, RunItem(c, f) PROVE LockAgrees'
    BY <1>2, <2>5 DEF RunItem
  <2>6. CASE \/ ToPlanned(c) \/ MaybeApproved(c) \/ TickNext(c) \/ AdvanceExpire(c)
             \/ AdvanceSchedule(c) \/ StillWorking(c) \/ RunFail(c) \/ RunHalted(c) \/ VerifyPassed(c)
             \/ VerifyFailed(c) \/ RolledBack(c) \/ \E S \in SUBSET Fleet : Undo(c, S)
    BY <1>1, <2>6 DEF ToPlanned, MaybeApproved, TickNext, AdvanceExpire, AdvanceSchedule,
       StillWorking, RunFail, RunHalted, VerifyPassed, VerifyFailed, RolledBack, Undo
  <2> QED BY <1>4, <2>1, <2>2, <2>3, <2>4, <2>5, <2>6 DEF Continue
<1>5. CASE UNCHANGED vars
  BY <1>2, <1>5 DEF vars
<1>6. CASE Tick \/ PineError \/ Abort \/ Crash
  BY <1>1, <1>6 DEF Tick, PineError, Abort, Crash
<1>7. CASE \/ \E f \in Fleet : DirectGate(f) \/ \E v \in Version : DirectWrite(f, v)
           \/ OpenWindow \/ CloseWindow
  BY <1>2, <1>7 DEF DirectGate, DirectWrite, OpenWindow, CloseWindow
<1> QED BY <1>3, <1>4, <1>5, <1>6, <1>7 DEF Next

-----------------------------------------------------------------------------
\* No change rolls out and nobody holds the lock at first.
LEMMA IInvInit == Init => IInv
<1> SUFFICES ASSUME Init PROVE IInv
  OBVIOUS
<1> QED BY DEF Init, IInv, OneRolloutPerFleet, Authorised, LockAgrees, ApprovalsSound, At,
              ACTIVE, Rolling, Waiting

\* The conjuncts of the invariant, put together.
LEMMA IInvStep == TypeOK /\ IInv /\ [Next]_vars => IInv'
BY AuthorisedStep, ApprovalsSoundStep, OneRolloutStep, LockAgreesStep DEF IInv

\* Rows, thread and approvals fit together in every reachable state.
LEMMA IInvInvariant == Spec => []IInv
BY TypeCorrect, IInvInit, IInvStep, PTL DEF Spec

\* No two changes roll out on one fleet, whatever crashes, aborted operations,
\* API calls and windows do: _busy is asked under the lock that still is held
\* when the change goes to applying.
THEOREM OneRollout == Spec => []OneRolloutPerFleet
<1>1. IInv => OneRolloutPerFleet
  BY DEF IInv
<1> QED BY <1>1, IInvInvariant, PTL

\* Whatever may run, runs or has been applied has the approvals its policies ask
\* for, given by others who may write the class, on the plan that runs.
THEOREM AuthorityBehindRollouts == Spec => []Authorised
<1>1. IInv => Authorised
  BY DEF IInv
<1> QED BY <1>1, IInvInvariant, PTL
-----------------------------------------------------------------------------
(* Fleets as locks.                                                        *)

\* Each fleet is owned by the change that rolls out on it, and by nobody else.
OwnerFits ==
  \A f \in Fleet :
    /\ \A c \in Change : state[c] \in Rolling /\ f \in FleetsOf[c] => Owner[f] = c
    /\ ~FleetBusy(f) => Owner[f] = None

\* A fleet has one owner at most, the change that rolls out on it.
LEMMA OwnerIsRolling == OneRolloutPerFleet => OwnerFits
BY DEF OneRolloutPerFleet, OwnerFits, Owner, FleetBusy

\* A step writes the state of at most one change.
LEMMA OneRow ==
  ASSUME TypeOK, [Next]_vars
  PROVE  \/ UNCHANGED state
         \/ \E c \in Change : \A d \in Change \ {c} : state'[d] = state[d]
<1> USE DEF TypeOK, SetState, rows
<1>1. ASSUME NEW c \in Change, NEW s, state' = [state EXCEPT ![c] = s]
      PROVE  \E b \in Change : \A d \in Change \ {b} : state'[d] = state[d]
  BY <1>1
<1>2. CASE ApiOp
  <2>1. \/ UNCHANGED state
        \/ \E c \in Change, s \in State : state' = [state EXCEPT ![c] = s]
    BY <1>2 DEF ApiOp, Approve, Create, Replan, Reject, Cancel, ApplyNow, RequestRollback,
       State, TERMINAL
  <2> QED BY <1>1, <2>1
<1>3. ASSUME NEW c \in Change, Continue(c)
      PROVE  UNCHANGED state \/ \E s \in State : state' = [state EXCEPT ![c] = s]
  BY <1>3 DEF Continue, ToPlanned, MaybeApproved, TickNext, AdvanceExpire, AdvanceSchedule,
     AdvanceCheckBase, Begin, AdvanceRolling, StillWorking, RunDone, RunFail, RunHalted, VerifyPassed,
     VerifyFailed, RolledBack, RunItem, Undo, State, ACTIVE, Waiting, Rolling, TERMINAL
<1>4. CASE UNCHANGED vars
  BY <1>4 DEF vars
<1> QED
  BY <1>1, <1>2, <1>3, <1>4 DEF Next, Tick, PineError, Abort, Crash, DirectGate, DirectWrite,
     OpenWindow, CloseWindow

\* A change that starts takes fleets nobody has, one that ends gives back all of
\* its own, and every other step leaves the owners alone.
LEMMA MutexStep ==
  ASSUME TypeOK, IInv, IInv', [Next]_vars
  PROVE  [Mutex!Next]_Owner
<1>1. OwnerFits
  BY OwnerIsRolling DEF IInv
<1>2. OwnerFits'
  <2>1. OneRolloutPerFleet'
    BY DEF IInv
  <2> QED BY <2>1, OwnerIsRolling, PTL
<1>3. Owner' = [f \in Fleet |-> Owner'[f]]
  BY DEF Owner
<1>4. Owner = [f \in Fleet |-> Owner[f]]
  BY DEF Owner
<1>5. ASSUME NEW f \in Fleet
      PROVE  FleetBusy(f) => \E c \in Change : state[c] \in Rolling /\ f \in FleetsOf[c]
  BY DEF FleetBusy
<1>6. ASSUME NEW f \in Fleet
      PROVE  FleetBusy(f)' => \E c \in Change : state'[c] \in Rolling /\ f \in FleetsOf[c]
  BY DEF FleetBusy
<1>7. ASSUME \A d \in Change : state'[d] \in Rolling <=> state[d] \in Rolling
      PROVE  UNCHANGED Owner
  <2>1. ASSUME NEW f \in Fleet PROVE Owner'[f] = Owner[f]
    BY <1>1, <1>2, <1>5, <1>6, <1>7 DEF OwnerFits
  <2> QED BY <1>3, <1>4, <2>1
<1>8. ASSUME NEW c \in Change, state[c] \notin Rolling, state'[c] \in Rolling,
             \A d \in Change \ {c} : state'[d] = state[d], ~Busy(c)
      PROVE  Mutex!Acquire(c)
  <2>1. ASSUME NEW f \in FleetsOf[c] PROVE Owner[f] = None
    BY <1>1, <1>5, <1>8, ConstantsOK DEF OwnerFits, Busy
  <2>2. ASSUME NEW f \in Fleet
        PROVE  Owner'[f] = IF f \in FleetsOf[c] THEN c ELSE Owner[f]
    BY <1>1, <1>2, <1>5, <1>6, <1>8 DEF OwnerFits
  <2> QED BY <1>3, <2>1, <2>2 DEF Mutex!Acquire
<1>9. ASSUME NEW c \in Change, state[c] \in Rolling, state'[c] \notin Rolling,
             \A d \in Change \ {c} : state'[d] = state[d]
      PROVE  Mutex!Release(c)
  <2>1. ASSUME NEW f \in FleetsOf[c] PROVE Owner[f] = c
    BY <1>1, <1>9, ConstantsOK DEF OwnerFits
  <2>2. ASSUME NEW f \in Fleet
        PROVE  Owner'[f] = IF f \in FleetsOf[c] THEN None ELSE Owner[f]
    <3>1. CASE f \in FleetsOf[c]
      <4>1. ASSUME NEW d \in Change, state'[d] \in Rolling, f \in FleetsOf[d] PROVE FALSE
        BY <1>9, <3>1, <4>1 DEF IInv, OneRolloutPerFleet
      <4> QED BY <1>2, <1>6, <3>1, <4>1 DEF OwnerFits
    <3>2. CASE f \notin FleetsOf[c]
      BY <1>1, <1>2, <1>5, <1>6, <1>9, <3>2 DEF OwnerFits
    <3> QED BY <3>1, <3>2
  <2> QED BY <1>3, <2>1, <2>2 DEF Mutex!Release
<1>10. CASE \E c \in Change : Begin(c)
  <2>1. PICK c \in Change : Begin(c)
    BY <1>10
  <2>2. /\ state[c] \notin Rolling /\ ~Busy(c)
        /\ state'[c] \in Rolling
        /\ \A d \in Change \ {c} : state'[d] = state[d]
    BY <2>1 DEF Begin, IInv, LockAgrees, SetState, TypeOK, Waiting, Rolling
  <2> QED BY <1>8, <2>2 DEF Mutex!Next
<1>11. CASE \A d \in Change : state'[d] \in Rolling => state[d] \in Rolling
  <2>1. CASE \E c \in Change : state[c] \in Rolling /\ state'[c] \notin Rolling
    <3>1. PICK c \in Change : state[c] \in Rolling /\ state'[c] \notin Rolling
      BY <2>1
    <3>2. \A d \in Change \ {c} : state'[d] = state[d]
      BY <3>1, OneRow
    <3> QED BY <1>9, <3>1, <3>2 DEF Mutex!Next
  <2>2. CASE ~\E c \in Change : state[c] \in Rolling /\ state'[c] \notin Rolling
    BY <1>7, <1>11, <2>2
  <2> QED BY <2>1, <2>2
<1> QED BY <1>10, <1>11, OnlyBeginStarts DEF IInv

\* What the fleets see of change control is a lock each, taken for all fleets of
\* a change at once and given back at once, whatever crashes in between.
THEOREM FleetsAreLocked == Spec => MutexSpec
<1>1. Init => Mutex!Init
  BY DEF Init, Mutex!Init, Owner, FleetBusy, Rolling
<1>2. TypeOK /\ IInv /\ IInv' /\ [Next]_vars => [Mutex!Next]_Owner
  BY MutexStep
<1> QED BY <1>1, <1>2, TypeCorrect, IInvInvariant, PTL DEF Spec, MutexSpec, Mutex!Spec

-----------------------------------------------------------------------------
(* Starts.                                                                 *)

\* The fleets of a change whose base was compared do not move before its start:
\* the lock keeps other changes away, the mode direct writes.
BaseKept ==
  /\ writer = None
  /\ \A c \in Change : At("begin", c) => ~BaseMoved(c)

\* Without direct writes, no fleet moves under a change that is about to start.
LEMMA BaseKeptStep ==
  ASSUME DirectWrites = {}, TypeOK, BaseKept, [Next]_vars
  PROVE  BaseKept'
<1> USE DEF TypeOK, At, GoTo, Finish, rows, ctl, env
<1>1. ASSUME UNCHANGED writer, at' # "begin" PROVE BaseKept'
  BY <1>1 DEF BaseKept
<1>2. ASSUME UNCHANGED <<writer, world, base, at, cur>> PROVE BaseKept'
  BY <1>2 DEF BaseKept, BaseMoved
<1>3. CASE ApiOp
  BY <1>1, <1>3 DEF ApiOp, Approve, Create, Replan, Reject, Cancel, ApplyNow, RequestRollback, Idle
<1>4. ASSUME NEW c \in Change, Continue(c) PROVE BaseKept'
  <2>1. CASE AdvanceCheckBase(c)
    <3>1. CASE BaseMoved(c)
      BY <1>1, <2>1, <3>1 DEF AdvanceCheckBase
    <3>2. CASE ~BaseMoved(c)
      BY <2>1, <3>2 DEF AdvanceCheckBase, BaseKept, BaseMoved
    <3> QED BY <3>1, <3>2
  <2>2. CASE ~AdvanceCheckBase(c)
    BY <1>1, <1>4, <2>2 DEF Continue, ToPlanned, MaybeApproved, TickNext, AdvanceExpire,
       AdvanceSchedule, Begin, AdvanceRolling, StillWorking, RunDone, RunFail, RunHalted, VerifyPassed,
       VerifyFailed, RolledBack, RunItem, Undo
  <2> QED BY <2>1, <2>2
<1>5. CASE Tick \/ PineError \/ Abort
  BY <1>1, <1>5 DEF Tick, PineError, Abort
<1>6. CASE Crash
  BY <1>6 DEF Crash, BaseKept
<1>7. CASE \E f \in Fleet : DirectGate(f) \/ \E v \in Version : DirectWrite(f, v)
  BY <1>7, ConstantsOK DEF DirectGate, DirectWrite, BaseKept
<1>8. CASE OpenWindow \/ CloseWindow \/ UNCHANGED vars
  BY <1>2, <1>8 DEF OpenWindow, CloseWindow, vars
<1> QED BY <1>3, <1>4, <1>5, <1>6, <1>7, <1>8 DEF Next

\* Where fleets are written through changes only, a change starts against the
\* fleets its approvers reviewed.
THEOREM StartsAsReviewed ==
  ASSUME DirectWrites = {}
  PROVE  Spec => StartsOnReviewedBase
<1>1. Init => BaseKept
  BY DEF Init, BaseKept, At
<1>2. TypeOK /\ BaseKept /\ [Next]_vars => BaseKept'
  BY BaseKeptStep
<1>3. TypeOK /\ IInv /\ BaseKept /\ [Next]_vars
        => [\A c \in Change : Starts(c) => ~BaseMoved(c)]_vars
  <2> SUFFICES ASSUME TypeOK, IInv, BaseKept, [Next]_vars, NEW c \in Change, Starts(c)
               PROVE  ~BaseMoved(c)
    OBVIOUS
  <2>1. state'[c] \in Rolling /\ state[c] \notin Rolling
    BY DEF Starts, Rolling, Waiting
  <2>2. PICK d \in Change : Begin(d)
    BY <2>1, OnlyBeginStarts DEF IInv
  <2>3. c = d
    BY <2>1, <2>2 DEF Begin, SetState, TypeOK
  <2> QED BY <2>2, <2>3 DEF Begin, BaseKept
<1> QED
  BY <1>1, <1>2, <1>3, TypeCorrect, IInvInvariant, PTL DEF Spec, StartsOnReviewedBase

-----------------------------------------------------------------------------
(* Operations that are not cut short.                                      *)

\* Failures are never forgotten.
LEMMA UncutBefore ==
  ASSUME TypeOK, [Next]_vars, faults' = 0
  PROVE  faults = 0 /\ ~Abort /\ ~Crash
<1> USE DEF TypeOK, env
<1>1. faults \in Nat
  BY ConstantsOK
<1>2. ~Abort /\ ~Crash
  BY <1>1 DEF Abort, Crash
<1>3. CASE ApiOp
  BY <1>2, <1>3 DEF ApiOp, Approve, Create, Replan, Reject, Cancel, ApplyNow, RequestRollback
<1>4. CASE \E c \in Change : Continue(c)
  BY <1>2, <1>4 DEF Continue, ToPlanned, MaybeApproved, TickNext, AdvanceExpire,
     AdvanceSchedule, AdvanceCheckBase, Begin, AdvanceRolling, StillWorking, RunDone, RunFail, RunHalted,
     VerifyPassed, VerifyFailed, RolledBack, RunItem, Undo
<1> QED
  BY <1>2, <1>3, <1>4 DEF Next, Tick, PineError, DirectGate, DirectWrite, OpenWindow,
     CloseWindow, vars

\* A planned change whose approvals were just changed is the one the thread is
\* about to look at; every other one was looked at since.
MetIsSeen ==
  faults = 0 => \A c \in Change : state[c] = "planned" /\ ~At("met", c) => ~RequirementsMet(c)

\* The requirements of a change depend on its own row only.
LEMMA MetByRow ==
  ASSUME NEW c \in Change,
         author'[c] = author[c], base'[c] = base[c], approvals'[c] = approvals[c]
  PROVE  RequirementsMet(c)' = RequirementsMet(c)
<1>1. ASSUME NEW k \in DOMAIN Policy[c] PROVE Need(c, k)' = Need(c, k)
  BY DEF Need
<1>2. ASSUME NEW k \in DOMAIN Policy[c] PROVE Qualifying(c, k)' = Qualifying(c, k)
  BY DEF Qualifying
<1> QED BY <1>1, <1>2 DEF RequirementsMet

\* Who gives the last approval goes on, under the lock, to approve the change.
LEMMA MetIsSeenStep ==
  ASSUME TypeOK, MetIsSeen, [Next]_vars
  PROVE  MetIsSeen'
<1> SUFFICES ASSUME faults' = 0, NEW d \in Change, state'[d] = "planned", ~At("met", d)'
             PROVE  ~RequirementsMet(d)'
  BY DEF MetIsSeen
<1> USE DEF TypeOK, At, GoTo, Finish, SetState, rows, ctl, env
<1>1. faults = 0
  BY UncutBefore
<1>2. ASSUME author'[d] = author[d], base'[d] = base[d], approvals'[d] = approvals[d],
             state[d] = "planned", ~At("met", d)
      PROVE  ~RequirementsMet(d)'
  BY <1>1, <1>2, MetByRow DEF MetIsSeen
<1>3. CASE ApiOp
  BY <1>2, <1>3 DEF ApiOp, Approve, Create, Replan, Reject, Cancel, ApplyNow, RequestRollback, Idle
<1>4. ASSUME NEW c \in Change, Continue(c) PROVE ~RequirementsMet(d)'
  <2>1. CASE MaybeApproved(c)
    <3>1. CASE c = d
      BY <2>1, <3>1, MetByRow DEF MaybeApproved
    <3>2. CASE c # d
      BY <1>2, <2>1, <3>2 DEF MaybeApproved
    <3> QED BY <3>1, <3>2
  <2>2. CASE ~MaybeApproved(c)
    BY <1>2, <1>4, <2>2 DEF Continue, ToPlanned, TickNext, AdvanceExpire, AdvanceSchedule,
       AdvanceCheckBase, Begin, AdvanceRolling, StillWorking, RunDone, RunFail, RunHalted, VerifyPassed,
       VerifyFailed, RolledBack, RunItem, Undo
  <2> QED BY <2>1, <2>2
<1>5. ~Abort /\ ~Crash
  BY UncutBefore
<1>6. CASE UNCHANGED vars
  BY <1>2, <1>6 DEF vars
<1>7. CASE Tick \/ PineError
  BY <1>2, <1>7 DEF Tick, PineError, Idle
<1> QED
  BY <1>2, <1>3, <1>4, <1>5, <1>6, <1>7 DEF Next, DirectGate, DirectWrite, OpenWindow,
     CloseWindow

\* As long as no operation is cut short between two of its commits, no change
\* that has all its approvals is left planned.
THEOREM NothingMetIsForgotten == Spec => []MetIsApprovedUncut
<1>1. Init => MetIsSeen
  BY DEF Init, MetIsSeen
<1>2. TypeOK /\ MetIsSeen /\ [Next]_vars => MetIsSeen'
  BY MetIsSeenStep
<1>3. MetIsSeen => MetIsApprovedUncut
  BY DEF MetIsSeen, MetIsApprovedUncut, MetIsApproved, Idle, At
<1> QED BY <1>1, <1>2, <1>3, TypeCorrect, PTL DEF Spec

\* What a rolling or applied change ran is recorded as done, but for the moment
\* between the two commits of its rollback.
RunIsDone ==
  faults = 0 =>
    \A c \in Change : ~At("rolled", c) =>
      /\ state[c] = "applying" => did[c] = ran[c]
      /\ state[c] \in {"verifying", "applied"} => did[c] = FleetsOf[c]

\* What ran is in effect, until the rollback that undoes it is recorded.
LEMMA RunIsDoneStep ==
  ASSUME TypeOK, LockAgrees, RunIsDone, [Next]_vars
  PROVE  RunIsDone'
<1> SUFFICES ASSUME faults' = 0, NEW d \in Change, ~At("rolled", d)'
             PROVE  /\ state'[d] = "applying" => did'[d] = ran'[d]
                    /\ state'[d] \in {"verifying", "applied"} => did'[d] = FleetsOf[d]
  BY DEF RunIsDone
<1> USE DEF TypeOK, At, GoTo, Finish, SetState, rows, ctl, env
<1>1. faults = 0
  BY UncutBefore
<1>2. ASSUME did'[d] = did[d], ran'[d] = ran[d], ~At("rolled", d),
             state'[d] = state[d] \/ state'[d] \notin {"applying", "verifying", "applied"}
      PROVE  /\ state'[d] = "applying" => did'[d] = ran'[d]
             /\ state'[d] \in {"verifying", "applied"} => did'[d] = FleetsOf[d]
  BY <1>1, <1>2 DEF RunIsDone
<1>3. CASE ApiOp
  BY <1>2, <1>3 DEF ApiOp, Approve, Create, Replan, Reject, Cancel, ApplyNow, RequestRollback, Idle
<1>4. ASSUME NEW c \in Change, Continue(c)
      PROVE  /\ state'[d] = "applying" => did'[d] = ran'[d]
             /\ state'[d] \in {"verifying", "applied"} => did'[d] = FleetsOf[d]
  <2>1. CASE Begin(c)
    BY <1>2, <2>1 DEF Begin
  <2>2. ASSUME NEW f \in Fleet, RunItem(c, f)
        PROVE  /\ state'[d] = "applying" => did'[d] = ran'[d]
               /\ state'[d] \in {"verifying", "applied"} => did'[d] = FleetsOf[d]
    BY <1>1, <1>2, <2>2 DEF RunItem, LockAgrees, RunIsDone
  <2>3. CASE RunDone(c)
    BY <1>1, <1>2, <2>3 DEF RunDone, LockAgrees, RunIsDone
  <2>4. CASE VerifyPassed(c)
    BY <1>1, <1>2, <2>4 DEF VerifyPassed, LockAgrees, RunIsDone
  <2>5. ASSUME NEW S \in SUBSET Fleet, Undo(c, S)
        PROVE  /\ state'[d] = "applying" => did'[d] = ran'[d]
               /\ state'[d] \in {"verifying", "applied"} => did'[d] = FleetsOf[d]
    BY <1>2, <2>5 DEF Undo
  <2>6. CASE RolledBack(c)
    BY <1>2, <2>6 DEF RolledBack
  <2>7. CASE \/ ToPlanned(c) \/ MaybeApproved(c) \/ TickNext(c) \/ AdvanceExpire(c)
             \/ AdvanceSchedule(c) \/ AdvanceCheckBase(c) \/ AdvanceRolling(c)
             \/ StillWorking(c) \/ RunFail(c) \/ RunHalted(c) \/ VerifyFailed(c)
    BY <1>2, <2>7 DEF ToPlanned, MaybeApproved, TickNext, AdvanceExpire, AdvanceSchedule,
       AdvanceCheckBase, AdvanceRolling, StillWorking, RunFail, RunHalted, VerifyFailed
  <2> QED BY <1>4, <2>1, <2>2, <2>3, <2>4, <2>5, <2>6, <2>7 DEF Continue
<1>5. ~Abort /\ ~Crash
  BY UncutBefore
<1>6. CASE UNCHANGED vars
  BY <1>2, <1>6 DEF vars
<1>7. CASE Tick \/ PineError
  BY <1>2, <1>7 DEF Tick, PineError, Idle
<1> QED
  BY <1>2, <1>3, <1>4, <1>5, <1>6, <1>7 DEF Next, DirectGate, DirectWrite, OpenWindow,
     CloseWindow

\* ... and an applied change is in effect: no undone item stays behind in it.
THEOREM AppliedIsInEffect == Spec => []AppliedInEffectUncut
<1>1. Init => RunIsDone
  BY DEF Init, RunIsDone
<1>2. TypeOK /\ IInv /\ RunIsDone /\ [Next]_vars => RunIsDone'
  BY RunIsDoneStep DEF IInv
<1>3. RunIsDone => AppliedInEffectUncut
  BY DEF RunIsDone, AppliedInEffectUncut, AppliedInEffect
<1> QED BY <1>1, <1>2, <1>3, TypeCorrect, IInvInvariant, PTL DEF Spec
=============================================================================
