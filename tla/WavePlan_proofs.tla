--------------------------- MODULE WavePlan_proofs ---------------------------
(***************************************************************************)
(* For any number of devices, any waves asked for and any drift: the waves *)
(* of a rollout mean what is documented, whatever mix of names and         *)
(* percentages they are of; they are what Rollout assumes of its waves;    *)
(* and they are those that were reviewed.                                  *)
(***************************************************************************)
EXTENDS WavePlan, FiniteSetTheorems, WellFoundedInduction, TLAPS

-----------------------------------------------------------------------------
(* The least of some numbers, and the largest.                             *)

\* Every non-empty set of natural numbers has a least element.
LEMMA LeastNat ==
  ASSUME NEW T \in SUBSET Nat, T # {}
  PROVE  \E n \in T : \A m \in T : n <= m
<1> DEFINE less == OpToRel(<, Nat)
<1>1. PICK n \in T : \A m \in T : ~ (<<m, n>> \in less)
  <2> HIDE DEF less
  <2>1. IsWellFoundedOn(less, Nat)
    BY NatLessThanWellFounded DEF less
  <2> QED BY <2>1, WFMin
<1>2. \A m \in T : n <= m
  <2> SUFFICES ASSUME NEW m \in T PROVE n <= m
    OBVIOUS
  <2>1. ~ (m < n)
    BY <1>1 DEF OpToRel
  <2> QED BY <2>1
<1> QED BY <1>2

\* Every non-empty set of devices has a last one.
LEMMA LastDevice ==
  ASSUME NEW S \in SUBSET Device, S # {}
  PROVE  \E d \in S : \A e \in S : e <= d
<1> DEFINE T == {n \in Nat : \A e \in S : e <= n}
<1>1. N \in T /\ T \in SUBSET Nat
  BY WavePlanConstantsOK DEF Device
<1>2. PICK n \in T : \A m \in T : n <= m
  <2> HIDE DEF T
  <2> QED BY <1>1, LeastNat
<1>3. n \in S
  <2> SUFFICES ASSUME n \notin S PROVE FALSE
    OBVIOUS
  <2>1. \A e \in S : e \in Nat /\ e >= 1 /\ e <= n /\ e # n
    BY <1>1, <1>2 DEF Device
  <2>2. n \in Nat /\ n - 1 \in T
    BY <1>2, <2>1
  <2> QED BY <1>2, <2>2
<1> QED BY <1>2, <1>3

\* Every set of devices is finite.
LEMMA DevicesFinite ==
  ASSUME NEW S \in SUBSET Device
  PROVE  IsFiniteSet(S) /\ Cardinality(S) \in Nat
<1>1. IsFiniteSet(Device)
  BY FS_Interval, WavePlanConstantsOK DEF Device
<1>2. IsFiniteSet(S)
  BY <1>1, FS_Subset
<1> QED BY <1>2, FS_CardinalityType

\* A part of a set of devices is no larger, and as large only if it is the whole.
LEMMA PartIsSmaller ==
  ASSUME NEW S \in SUBSET Device, NEW R \in SUBSET S
  PROVE  /\ Cardinality(R) <= Cardinality(S)
         /\ Cardinality(R) >= Cardinality(S) => R = S
<1>1. IsFiniteSet(S) /\ Cardinality(S) \in Nat /\ Cardinality(R) \in Nat
  BY DevicesFinite
<1>2. /\ Cardinality(R) <= Cardinality(S)
      /\ Cardinality(S) = Cardinality(R) => S = R
  BY <1>1, FS_Subset
<1> QED BY <1>1, <1>2

-----------------------------------------------------------------------------
(* A percentage of the pool, and the devices that fill it.                 *)

\* A product of natural numbers is one, and grows with each factor.
LEMMA ProductGrows ==
  ASSUME NEW n \in Nat, NEW p \in 1..100
  PROVE  n * p \in Nat /\ n * p <= n * 100
<1>1. n * p \in Nat /\ n * (100 - p) \in Nat
  OBVIOUS
<1>2. n * 100 = n * p + n * (100 - p)
  OBVIOUS
<1> QED BY <1>1, <1>2

\* The number of devices for a percentage is the least that is not short of it.
LEMMA CeilingIsLeast ==
  ASSUME NEW n \in Nat, NEW p \in 1..100
  PROVE  /\ Ceiling(p, n) \in 0..n
         /\ \A k \in Int : k >= Ceiling(p, n) <=> 100 * k >= n * p
<1>1. n * p \in Nat /\ n * p <= n * 100
  BY ProductGrows
<1> DEFINE x == n * p
<1>2. x \in Nat /\ x <= 100 * n /\ Ceiling(p, n) = (x + 99) \div 100
  BY <1>1 DEF Ceiling
<1> HIDE DEF x
<1>3. (x + 99) \div 100 \in 0..n
  BY <1>2
<1>4. \A k \in Int : k >= (x + 99) \div 100 <=> 100 * k >= x
  BY <1>2
<1> QED BY <1>2, <1>3, <1>4 DEF x

\* It is no more than the pool has.
LEMMA TargetTyped ==
  ASSUME NEW pool \in SUBSET Device, NEW percent \in 1..100
  PROVE  /\ Cardinality(pool) \in Nat
         /\ Ceiling(percent, Cardinality(pool)) \in 0..Cardinality(pool)
<1>1. Cardinality(pool) \in Nat
  BY DevicesFinite
<1> QED BY <1>1, CeilingIsLeast

\* The devices of the pool that are in a wave when it is d's turn.
Taken(pool, assigned, d) == {e \in pool : e \in assigned \/ e < d}

\* A filled wave takes new devices of the pool, those first that come first.
LEMMA FillInOrder ==
  ASSUME NEW pool \in SUBSET Device, NEW percent \in 1..100, NEW assigned \in SUBSET Device,
         NEW d \in Fill(pool, percent, assigned),
         NEW e \in pool \ (assigned \cup Fill(pool, percent, assigned))
  PROVE  d < e
<1> DEFINE target == Ceiling(percent, Cardinality(pool))
<1>1. d \in Nat /\ e \in Nat /\ d # e
  BY DEF Device, Fill
<1>2. Cardinality(Taken(pool, assigned, d)) < target /\ ~ (Cardinality(Taken(pool, assigned, e)) < target)
  BY DEF Fill, Taken
<1>3. ASSUME e < d PROVE FALSE
  <2>1. Taken(pool, assigned, d) \in SUBSET Device /\ Taken(pool, assigned, e) \in SUBSET Device
    BY DEF Taken
  <2>2. Taken(pool, assigned, e) \in SUBSET Taken(pool, assigned, d)
    <3> SUFFICES ASSUME NEW f \in pool, f < e PROVE f < d
      BY DEF Taken
    <3>1. f \in Nat
      BY DEF Device
    <3> QED BY <1>1, <1>3, <3>1
  <2>3. Cardinality(Taken(pool, assigned, e)) <= Cardinality(Taken(pool, assigned, d))
    BY <2>1, <2>2, PartIsSmaller
  <2>4. Cardinality(Taken(pool, assigned, e)) \in Nat /\ Cardinality(Taken(pool, assigned, d)) \in Nat
    BY <2>1, DevicesFinite
  <2>5. target \in Nat
    BY TargetTyped
  <2> QED BY <1>2, <2>3, <2>4, <2>5
<1> QED BY <1>1, <1>3

\* After a filled wave the percentage of the pool is assigned.
LEMMA FillIsEnough ==
  ASSUME NEW pool \in SUBSET Device, NEW percent \in 1..100, NEW assigned \in SUBSET Device
  PROVE  Cardinality(pool \cap (assigned \cup Fill(pool, percent, assigned)))
           >= Ceiling(percent, Cardinality(pool))
<1> DEFINE done   == pool \cap (assigned \cup Fill(pool, percent, assigned))
           target == Ceiling(percent, Cardinality(pool))
<1>1. done \in SUBSET Device /\ pool \ done \in SUBSET Nat
  <2>1. done \in SUBSET Device /\ pool \ done \in SUBSET Device
    OBVIOUS
  <2>2. Device \subseteq Nat
    BY DEF Device
  <2> QED BY <2>1, <2>2
<1>2. Cardinality(done) \in Nat /\ Cardinality(pool) \in Nat /\ target \in 0..Cardinality(pool)
  <2> HIDE DEF done
  <2> QED BY <1>1, DevicesFinite, TargetTyped
<1>3. CASE pool \ done = {}
  <2>1. done = pool
    BY <1>3
  <2> QED BY <1>2, <2>1
<1>4. CASE pool \ done # {}
  <2>1. PICK e \in pool \ done : \A d \in pool \ done : e <= d
    <3> HIDE DEF done
    <3> QED BY <1>1, <1>4, LeastNat
  <2>2. Cardinality(Taken(pool, assigned, e)) >= target
    <3>1. Taken(pool, assigned, e) \in SUBSET Device
      BY DEF Taken
    <3>2. Cardinality(Taken(pool, assigned, e)) \in Nat
      BY <3>1, DevicesFinite
    <3>3. ~ (Cardinality(Taken(pool, assigned, e)) < target)
      BY <2>1 DEF Fill, Taken
    <3> QED BY <1>2, <3>2, <3>3
  <2>3. Taken(pool, assigned, e) \subseteq done
    <3> SUFFICES ASSUME NEW d \in pool, d \in assigned \/ d < e PROVE d \in done
      BY DEF Taken
    <3> QED BY <2>1 DEF Device
  <2>4. Cardinality(Taken(pool, assigned, e)) <= Cardinality(done)
    BY <1>1, <2>3, PartIsSmaller
  <2>5. Cardinality(Taken(pool, assigned, e)) \in Nat
    BY <1>1, <2>3, DevicesFinite
  <2> QED BY <1>2, <2>2, <2>4, <2>5
<1> QED BY <1>3, <1>4

\* A filled wave with devices has none beyond the percentage.
LEMMA FillIsNoMore ==
  ASSUME NEW pool \in SUBSET Device, NEW percent \in 1..100, NEW assigned \in SUBSET Device,
         Fill(pool, percent, assigned) # {}
  PROVE  Cardinality(pool \cap (assigned \cup Fill(pool, percent, assigned)))
           <= Ceiling(percent, Cardinality(pool))
<1> DEFINE wave   == Fill(pool, percent, assigned)
           done   == pool \cap (assigned \cup wave)
           target == Ceiling(percent, Cardinality(pool))
<1>1. wave \in SUBSET Device /\ wave \subseteq pool
  BY DEF Fill
<1>2. PICK d \in wave : \A e \in wave : e <= d
  <2>1. wave # {}
    OBVIOUS
  <2> HIDE DEF wave
  <2> QED BY <1>1, <2>1, LastDevice
<1> DEFINE before == Taken(pool, assigned, d)
<1>3. before \in SUBSET Device /\ before \cup {d} \in SUBSET Device /\ done \in SUBSET (before \cup {d})
  <2>1. before \in SUBSET Device /\ d \in Device
    BY <1>1, <1>2 DEF Taken
  <2>2. \A e \in wave : e < d \/ e = d
    BY <1>1, <1>2 DEF Device
  <2> QED BY <2>1, <2>2, <1>1 DEF Taken
<1>4. /\ Cardinality(before) \in Nat /\ Cardinality(done) \in Nat /\ Cardinality(before \cup {d}) \in Nat
      /\ target \in Nat
  <2>1. target \in Nat
    BY TargetTyped
  <2>2. done \in SUBSET Device
    BY <1>3
  <2> HIDE DEF before, done, target
  <2> QED BY <1>3, <2>1, <2>2, DevicesFinite
<1>5. Cardinality(before) < target
  BY <1>2 DEF Fill, Taken
<1>6. Cardinality(before \cup {d}) <= Cardinality(before) + 1
  <2>1. IsFiniteSet(before)
    BY <1>3, DevicesFinite
  <2>2. Cardinality(before \cup {d}) =
          IF d \in before THEN Cardinality(before) ELSE Cardinality(before) + 1
    <3> HIDE DEF before
    <3> QED BY <2>1, FS_AddElement
  <2> HIDE DEF before
  <2> QED BY <1>4, <2>2
<1>7. Cardinality(done) <= Cardinality(before \cup {d})
  BY <1>3, PartIsSmaller
<1> HIDE DEF before, done, target
<1>8. Cardinality(done) <= target
  BY <1>4, <1>5, <1>6, <1>7
<1> QED BY <1>8 DEF done, target

-----------------------------------------------------------------------------
(* The waves one after the other.                                          *)

\* The devices assigned so far are computed wave by wave: the recursive definition
\* has a solution.
LEMMA AssignedDefined ==
  ASSUME NEW asked, Len(asked) \in Nat, NEW fleet, NEW pool
  PROVE  Assigned(asked, fleet, pool)
           = [i \in 0..Len(asked) |->
                IF i = 0 THEN {}
                ELSE Assigned(asked, fleet, pool)[i - 1]
                       \cup WaveOf(asked[i], fleet, pool, Assigned(asked, fleet, pool)[i - 1])]
<1> DEFINE Solves(g, k) ==
             g = [i \in 0..k |-> IF i = 0 THEN {}
                                 ELSE g[i - 1] \cup WaveOf(asked[i], fleet, pool, g[i - 1])]
           T == {k \in Nat : ~ \E g : Solves(g, k)}
<1>1. T = {}
  <2> SUFFICES ASSUME T # {} PROVE FALSE
    OBVIOUS
  <2>1. PICK k \in T : \A m \in T : k <= m
    <3>1. T \in SUBSET Nat
      OBVIOUS
    <3> HIDE DEF T
    <3> QED BY <3>1, LeastNat
  <2>2. k # 0
    <3>1. Solves([i \in 0..0 |-> {}], 0)
      OBVIOUS
    <3> QED BY <2>1, <3>1
  <2>3. PICK g : Solves(g, k - 1)
    <3>1. k \in Nat /\ k - 1 \in Nat /\ ~ (k <= k - 1)
      BY <2>1, <2>2
    <3> HIDE DEF Solves
    <3> QED BY <2>1, <3>1
  <2> DEFINE h == [i \in 0..k |-> IF i = k THEN g[k - 1] \cup WaveOf(asked[k], fleet, pool, g[k - 1])
                                  ELSE g[i]]
  <2>4. Solves(h, k)
    <3>1. \A i \in 0..(k - 1) : h[i] = g[i]
      BY <2>1
    <3>2. ASSUME NEW i \in 0..k
          PROVE  h[i] = IF i = 0 THEN {} ELSE h[i - 1] \cup WaveOf(asked[i], fleet, pool, h[i - 1])
      <4>1. CASE i = k
        <5>1. k - 1 \in 0..(k - 1) /\ h[k - 1] = g[k - 1]
          BY <2>1, <2>2, <3>1
        <5>2. h[k] = g[k - 1] \cup WaveOf(asked[k], fleet, pool, g[k - 1])
          BY <2>1
        <5> HIDE DEF h
        <5> QED BY <2>2, <4>1, <5>1, <5>2
      <4>2. CASE i # k /\ i # 0
        <5>1. i \in 0..(k - 1) /\ i - 1 \in 0..(k - 1)
          BY <2>1, <4>2
        <5>2. g[i] = g[i - 1] \cup WaveOf(asked[i], fleet, pool, g[i - 1])
          BY <2>3, <4>2, <5>1
        <5>3. h[i] = g[i] /\ h[i - 1] = g[i - 1]
          BY <3>1, <5>1
        <5> HIDE DEF h
        <5> QED BY <4>2, <5>2, <5>3
      <4>3. CASE i # k /\ i = 0
        <5>1. i \in 0..(k - 1)
          BY <2>1, <4>3
        <5>2. g[i] = {} /\ h[i] = g[i]
          BY <2>3, <3>1, <4>3, <5>1
        <5> HIDE DEF h
        <5> QED BY <4>3, <5>2
      <4> QED BY <4>1, <4>2, <4>3
    <3>3. h = [i \in 0..k |-> h[i]]
      OBVIOUS
    <3> HIDE DEF h
    <3> QED BY <3>2, <3>3
  <2> QED
    <3> HIDE DEF Solves
    <3> QED BY <2>1, <2>4
<1>2. \E g : Solves(g, Len(asked))
  BY <1>1
<1>3. Solves(CHOOSE g : Solves(g, Len(asked)), Len(asked))
  <2> HIDE DEF Solves
  <2> QED BY <1>2
<1> QED BY <1>3 DEF Assigned

\* What a reference stands for is in the fleet, and so is what a wave names.
LEMMA NamedInFleet ==
  ASSUME NEW asked, NEW fleet
  PROVE  /\ \A i \in DOMAIN asked : NamedBy(asked[i], fleet) \subseteq Named(asked, fleet)
         /\ Named(asked, fleet) \subseteq fleet
<1>1. ASSUME NEW ref PROVE Match(ref, fleet) \subseteq fleet
  BY DEF Match
<1> QED BY <1>1 DEF Named, NamedBy

\* The waves that were asked for, as validated, over some fleet and some of its devices.
Plannable(asked, fleet, eligible) ==
  /\ asked \in Seq(Wave) /\ Valid(asked)
  /\ fleet \subseteq Device /\ Named(asked, fleet) \subseteq eligible

\* Wave i of a plan is taken out of what the waves before it left, and a wave is of
\* devices of the fleet that are named or eligible.
LEMMA WaveByWave ==
  ASSUME NEW asked, NEW fleet, NEW eligible, Plannable(asked, fleet, eligible)
  PROVE  LET plan == PlanWaves(asked, fleet, eligible)
             pool == fleet \cap eligible
             assigned == Assigned(asked, fleet, pool) IN
         /\ Len(asked) \in Nat /\ DOMAIN asked = 1..Len(asked) /\ DOMAIN plan = 1..Len(asked)
         /\ assigned[0] = {}
         /\ \A i \in 1..Len(asked) :
              /\ plan[i] = WaveOf(asked[i], fleet, pool, assigned[i - 1])
              /\ assigned[i] = assigned[i - 1] \cup plan[i]
              /\ plan[i] \subseteq pool \ assigned[i - 1]
<1> DEFINE plan == PlanWaves(asked, fleet, eligible)
           pool == fleet \cap eligible
           assigned == Assigned(asked, fleet, pool)
<1>1. Len(asked) \in Nat /\ DOMAIN asked = 1..Len(asked)
  BY DEF Plannable
<1>2. assigned = [i \in 0..Len(asked) |->
                    IF i = 0 THEN {} ELSE assigned[i - 1] \cup WaveOf(asked[i], fleet, pool, assigned[i - 1])]
  <2> HIDE DEF pool
  <2> QED BY <1>1, AssignedDefined
<1>3. plan = [i \in 1..Len(asked) |-> WaveOf(asked[i], fleet, pool, assigned[i - 1])]
  BY <1>1 DEF PlanWaves
<1> HIDE DEF plan, assigned
<1>4. DOMAIN plan = 1..Len(asked) /\ assigned[0] = {}
  BY <1>1, <1>2, <1>3
<1>5. ASSUME NEW i \in 1..Len(asked)
      PROVE  /\ plan[i] = WaveOf(asked[i], fleet, pool, assigned[i - 1])
             /\ assigned[i] = assigned[i - 1] \cup plan[i]
             /\ plan[i] \subseteq pool \ assigned[i - 1]
  <2>1. plan[i] = WaveOf(asked[i], fleet, pool, assigned[i - 1])
    BY <1>3
  <2>2. assigned[i] = assigned[i - 1] \cup WaveOf(asked[i], fleet, pool, assigned[i - 1])
    <3>1. i \in 0..Len(asked) /\ i # 0
      BY <1>1
    <3> QED BY <1>2, <3>1
  <2>3. NamedBy(asked[i], fleet) \subseteq pool
    BY <1>1, NamedInFleet DEF Plannable
  <2>4. WaveOf(asked[i], fleet, pool, assigned[i - 1]) \subseteq pool \ assigned[i - 1]
    <3> HIDE DEF pool
    <3> QED BY <2>3 DEF WaveOf, Fill
  <2> QED BY <2>1, <2>2, <2>4
<1> QED BY <1>1, <1>4, <1>5 DEF plan, assigned

\* A plan has a wave for each that was asked for, and it is of the pool.
LEMMA PlanTyped ==
  ASSUME NEW asked, NEW fleet, NEW eligible, Plannable(asked, fleet, eligible)
  PROVE  LET plan == PlanWaves(asked, fleet, eligible) IN
         /\ Len(asked) \in Nat /\ DOMAIN asked = 1..Len(asked) /\ DOMAIN plan = 1..Len(asked)
         /\ \A i \in 1..Len(asked) : plan[i] \subseteq fleet \cap eligible
<1> DEFINE plan == PlanWaves(asked, fleet, eligible)
           pool == fleet \cap eligible
           assigned == Assigned(asked, fleet, pool)
<1>1. Len(asked) \in Nat /\ DOMAIN asked = 1..Len(asked) /\ DOMAIN plan = 1..Len(asked)
  <2>1. Len(asked) \in Nat /\ DOMAIN asked = 1..Len(asked)
    BY DEF Plannable
  <2> QED BY <2>1 DEF PlanWaves
<1>2. \A i \in 1..Len(asked) : plan[i] \subseteq pool \ assigned[i - 1]
  BY WaveByWave
<1> HIDE DEF plan, assigned
<1> QED BY <1>1, <1>2 DEF plan

\* What is assigned after i waves is what is in them.
LEMMA AssignedIsBefore ==
  ASSUME NEW asked, NEW fleet, NEW eligible, Plannable(asked, fleet, eligible), NEW i \in 0..Len(asked)
  PROVE  Assigned(asked, fleet, fleet \cap eligible)[i] = Before(PlanWaves(asked, fleet, eligible), i)
<1> DEFINE plan == PlanWaves(asked, fleet, eligible)
           assigned == Assigned(asked, fleet, fleet \cap eligible)
           T == {k \in 0..Len(asked) : assigned[k] # Before(plan, k)}
<1>1. /\ Len(asked) \in Nat /\ assigned[0] = {}
      /\ \A k \in 1..Len(asked) : assigned[k] = assigned[k - 1] \cup plan[k]
  BY WaveByWave
<1> HIDE DEF plan, assigned
<1>2. T = {}
  <2> SUFFICES ASSUME T # {} PROVE FALSE
    OBVIOUS
  <2>1. PICK k \in T : \A m \in T : k <= m
    <3>1. T \in SUBSET Nat
      BY <1>1
    <3> HIDE DEF T
    <3> QED BY <3>1, LeastNat
  <2>2. k # 0
    BY <1>1, <2>1 DEF Before
  <2>3. k \in 1..Len(asked) /\ k - 1 \in 0..Len(asked) /\ k - 1 \notin T
    BY <1>1, <2>1, <2>2
  <2>4. assigned[k - 1] = Before(plan, k - 1)
    BY <2>3
  <2>5. Before(plan, k) = Before(plan, k - 1) \cup plan[k]
    <3>1. \A j : j \in 1..k <=> (j \in 1..(k - 1) \/ j = k)
      BY <2>3
    <3> QED BY <3>1 DEF Before
  <2> QED BY <1>1, <2>1, <2>3, <2>4, <2>5
<1> QED BY <1>2 DEF plan, assigned

-----------------------------------------------------------------------------
(* What plan_waves makes of the waves that were asked for.                 *)

\* No device is in two waves.
LEMMA PlanDisjoint ==
  ASSUME NEW asked, NEW fleet, NEW eligible, Plannable(asked, fleet, eligible)
  PROVE  LET plan == PlanWaves(asked, fleet, eligible) IN
         \A i, j \in DOMAIN plan : i # j => plan[i] \cap plan[j] = {}
<1> DEFINE plan == PlanWaves(asked, fleet, eligible)
           assigned == Assigned(asked, fleet, fleet \cap eligible)
<1>1. /\ Len(asked) \in Nat /\ DOMAIN plan = 1..Len(asked)
      /\ \A i \in 1..Len(asked) : plan[i] \cap assigned[i - 1] = {}
  BY WaveByWave
<1>2. \A i \in 0..Len(asked) : assigned[i] = Before(plan, i)
  BY AssignedIsBefore
<1> HIDE DEF plan, assigned
<1>3. ASSUME NEW i \in 1..Len(asked), NEW j \in 1..Len(asked), i < j PROVE plan[i] \cap plan[j] = {}
  <2>1. j - 1 \in 0..Len(asked) /\ i \in 1..(j - 1)
    BY <1>1, <1>3
  <2>2. plan[i] \subseteq assigned[j - 1]
    BY <1>2, <2>1 DEF Before
  <2> QED BY <1>1, <2>2
<1>4. ASSUME NEW i \in 1..Len(asked), NEW j \in 1..Len(asked), i # j PROVE plan[i] \cap plan[j] = {}
  <2>1. CASE i < j
    BY <1>3, <2>1
  <2>2. CASE j < i
    BY <1>3, <2>2
  <2> QED BY <1>1, <1>4, <2>1, <2>2
<1> QED BY <1>1, <1>4 DEF plan

\* A named device is in a wave, and every device of a wave is in the fleet, and is
\* eligible if not named.
LEMMA PlanOfNamedAndEligible ==
  ASSUME NEW asked, NEW fleet, NEW eligible, Plannable(asked, fleet, eligible)
  PROVE  LET plan == PlanWaves(asked, fleet, eligible) IN
         /\ AllOf(plan) \subseteq fleet \cap eligible
         /\ Named(asked, fleet) \subseteq AllOf(plan)
<1> DEFINE plan == PlanWaves(asked, fleet, eligible)
           pool == fleet \cap eligible
           assigned == Assigned(asked, fleet, pool)
<1>1. /\ Len(asked) \in Nat /\ DOMAIN asked = 1..Len(asked) /\ DOMAIN plan = 1..Len(asked)
      /\ \A i \in 1..Len(asked) : plan[i] \subseteq pool
  BY PlanTyped
<1>w. \A i \in 1..Len(asked) : plan[i] = WaveOf(asked[i], fleet, pool, assigned[i - 1])
  BY WaveByWave
<1>2. \A i \in 0..Len(asked) : assigned[i] = Before(plan, i)
  BY AssignedIsBefore
<1> HIDE DEF plan, assigned
<1>3. AllOf(plan) \subseteq pool
  BY <1>1 DEF AllOf
<1>4. ASSUME NEW i \in 1..Len(asked) PROVE NamedBy(asked[i], fleet) \subseteq AllOf(plan)
  <2>1. CASE IsPercent(asked[i])
    BY <2>1 DEF IsPercent, NamedBy
  <2>2. CASE ~IsPercent(asked[i])
    <3>1. NamedBy(asked[i], fleet) \subseteq plan[i] \cup assigned[i - 1]
      BY <1>w, <2>2 DEF WaveOf
    <3>2. i - 1 \in 0..Len(asked) /\ 1..(i - 1) \subseteq DOMAIN plan
      BY <1>1
    <3>3. assigned[i - 1] \subseteq AllOf(plan)
      BY <1>2, <3>2 DEF Before, AllOf
    <3>4. plan[i] \subseteq AllOf(plan)
      BY <1>1 DEF AllOf
    <3> QED BY <3>1, <3>3, <3>4
  <2> QED BY <2>1, <2>2
<1>5. Named(asked, fleet) \subseteq AllOf(plan)
  BY <1>1, <1>4 DEF Named
<1> QED BY <1>3, <1>5 DEF plan

\* Up to a percentage wave the percentage of the pool is in the waves, no device more
\* if the wave has any, and it has those that come first.
LEMMA PlanOfPercentages ==
  ASSUME NEW asked, NEW fleet, NEW eligible, Plannable(asked, fleet, eligible),
         NEW i \in DOMAIN asked, IsPercent(asked[i])
  PROVE  LET plan == PlanWaves(asked, fleet, eligible)
             pool == fleet \cap eligible
             done == Cardinality(pool \cap Before(plan, i)) IN
         /\ 100 * done >= asked[i].percent * Cardinality(pool)
         /\ plan[i] # {} => 100 * (done - 1) < asked[i].percent * Cardinality(pool)
         /\ \A d \in plan[i] : \A e \in pool \ Before(plan, i) : d < e
<1> DEFINE plan == PlanWaves(asked, fleet, eligible)
           pool == fleet \cap eligible
           before == Assigned(asked, fleet, pool)[i - 1]
           percent == asked[i].percent
           done == Cardinality(pool \cap Before(plan, i))
           target == Ceiling(percent, Cardinality(pool))
<1>1. Len(asked) \in Nat /\ i \in 1..Len(asked) /\ plan[i] \subseteq pool
  BY PlanTyped
<1>w. /\ plan[i] = WaveOf(asked[i], fleet, pool, before)
      /\ Assigned(asked, fleet, pool)[i] = before \cup plan[i]
  BY <1>1, WaveByWave
<1>2. /\ i \in 0..Len(asked) /\ i - 1 \in 0..Len(asked) /\ 1..(i - 1) \subseteq 1..Len(asked)
  BY <1>1
<1>3. Before(plan, i) = before \cup plan[i] /\ before = Before(plan, i - 1)
  <2>1. \A j \in 0..Len(asked) : Assigned(asked, fleet, pool)[j] = Before(plan, j)
    BY AssignedIsBefore
  <2> HIDE DEF plan, pool
  <2> QED BY <1>w, <1>2, <2>1
<1>4. pool \in SUBSET Device /\ before \in SUBSET Device
  <2>1. pool \in SUBSET Device
    BY DEF Plannable
  <2>2. \A j \in 1..Len(asked) : plan[j] \subseteq pool
    BY PlanTyped
  <2> HIDE DEF plan, pool, before
  <2> QED BY <1>2, <1>3, <2>1, <2>2 DEF Before
<1>5. percent \in 1..100 /\ plan[i] = Fill(pool, percent, before)
  BY <1>w DEF Plannable, Valid, WaveOf
<1> HIDE DEF plan, pool, before, percent
<1>6. /\ done \in Nat /\ target \in Nat /\ Cardinality(pool) \in Nat
      /\ \A k \in Int : k >= target <=> 100 * k >= Cardinality(pool) * percent
  <2>1. pool \cap Before(plan, i) \in SUBSET Device
    BY <1>4
  <2>2. done \in Nat /\ Cardinality(pool) \in Nat
    BY <1>4, <2>1, DevicesFinite
  <2>3. /\ Ceiling(percent, Cardinality(pool)) \in 0..Cardinality(pool)
        /\ \A k \in Int : k >= Ceiling(percent, Cardinality(pool)) <=> 100 * k >= Cardinality(pool) * percent
    BY <1>5, <2>2, CeilingIsLeast
  <2> QED BY <2>2, <2>3
<1>7. done >= target
  BY <1>3, <1>4, <1>5, FillIsEnough
<1>8. plan[i] # {} => done <= target
  BY <1>3, <1>4, <1>5, FillIsNoMore
<1>9. \A d \in plan[i] : \A e \in pool \ Before(plan, i) : d < e
  <2> SUFFICES ASSUME NEW d \in plan[i], NEW e \in pool \ Before(plan, i) PROVE d < e
    OBVIOUS
  <2>1. d \in Fill(pool, percent, before) /\ e \in pool \ (before \cup Fill(pool, percent, before))
    BY <1>3, <1>5
  <2> QED BY <1>4, <1>5, <2>1, FillInOrder
<1>10. percent * Cardinality(pool) = Cardinality(pool) * percent
  BY <1>5, <1>6
<1>11. plan[i] # {} => ~ (100 * (done - 1) >= percent * Cardinality(pool))
  <2>1. done - 1 \in Int /\ (done <= target => ~ (done - 1 >= target))
    BY <1>6
  <2> HIDE DEF done, target
  <2> QED BY <1>6, <1>8, <1>10, <2>1
<1>12. percent * Cardinality(pool) \in Int /\ 100 * (done - 1) \in Int
  BY <1>5, <1>6
<1>13. 100 * done >= percent * Cardinality(pool)
  <2> HIDE DEF done, target
  <2> QED BY <1>6, <1>7, <1>10
<1>14. plan[i] # {} => 100 * (done - 1) < percent * Cardinality(pool)
  <2> HIDE DEF done
  <2> QED BY <1>11, <1>12
<1> QED BY <1>9, <1>13, <1>14 DEF plan, pool, percent

\* With a wave of 100 percent every device of the pool is in a wave.
LEMMA PlanReachesFleet ==
  ASSUME NEW asked, NEW fleet, NEW eligible, Plannable(asked, fleet, eligible), ReachesFleet(asked)
  PROVE  fleet \cap eligible \subseteq AllOf(PlanWaves(asked, fleet, eligible))
<1> DEFINE plan == PlanWaves(asked, fleet, eligible)
           pool == fleet \cap eligible
<1>1. PICK i \in DOMAIN asked : IsPercent(asked[i]) /\ asked[i].percent = 100
  BY DEF ReachesFleet
<1>2. 100 * Cardinality(pool \cap Before(plan, i)) >= 100 * Cardinality(pool)
  BY <1>1, PlanOfPercentages
<1>3. Before(plan, i) \subseteq AllOf(plan)
  <2>1. Len(asked) \in Nat /\ DOMAIN asked = 1..Len(asked) /\ DOMAIN plan = 1..Len(asked)
    BY PlanTyped
  <2>2. 1..i \subseteq DOMAIN plan
    BY <1>1, <2>1
  <2> HIDE DEF plan
  <2> QED BY <2>2 DEF Before, AllOf
<1>4. pool \in SUBSET Device
  BY DEF Plannable
<1> HIDE DEF plan, pool
<1>5. pool \cap Before(plan, i) \in SUBSET pool /\ pool \cap Before(plan, i) \in SUBSET Device
  BY <1>4
<1>6. Cardinality(pool \cap Before(plan, i)) \in Nat /\ Cardinality(pool) \in Nat
  BY <1>4, <1>5, DevicesFinite
<1>7. Cardinality(pool \cap Before(plan, i)) >= Cardinality(pool)
  BY <1>2, <1>6
<1>8. pool \cap Before(plan, i) = pool
  BY <1>4, <1>5, <1>7, PartIsSmaller
<1> QED BY <1>3, <1>8 DEF plan, pool

-----------------------------------------------------------------------------
(* The inductive invariant: what is shown and what runs is planned over    *)
(* the devices there are, up to drift.                                     *)

TypeOK ==
  /\ specs \in Seq(Wave) /\ present \subseteq Device /\ pin \in [Device -> Pins]
  /\ at \in {"asked", "refused", "review", "rollout"} /\ drifts \in Nat

Planned == at \in {"review", "rollout"}

AcceptedFits == Planned => Valid(specs)
ShownFits    == Planned /\ drifts = 0 => shown = PlanWaves(specs, present, Device)
RunFits      == at = "rollout" => run = PlanWaves(specs, present, Eligible)

IInv == TypeOK /\ AcceptedFits /\ ShownFits /\ RunFits

\* The invariant holds at first.
LEMMA IInvInit == Init => IInv
<1> SUFFICES ASSUME Init PROVE IInv
  OBVIOUS
<1>1. specs \in Seq(Wave)
  BY WavePlanConstantsOK DEF Init
<1>2. present \subseteq Device
  BY WavePlanConstantsOK DEF Init, Device
<1> QED BY <1>1, <1>2 DEF Init, IInv, TypeOK, AcceptedFits, ShownFits, RunFits, Planned

\* Every step keeps the invariant.
LEMMA IInvStep == IInv /\ [Next]_vars => IInv'
<1> SUFFICES ASSUME IInv, [Next]_vars PROVE IInv'
  OBVIOUS
<1> USE DEF IInv
<1>1. CASE Review
  <2>1. TypeOK'
    BY <1>1 DEF Review, TypeOK
  <2>2. AcceptedFits' /\ ShownFits' /\ RunFits'
    BY <1>1 DEF Review, AcceptedFits, ShownFits, RunFits, Planned
  <2> QED BY <2>1, <2>2
<1>2. CASE Start
  <2>1. TypeOK'
    BY <1>2 DEF Start, TypeOK
  <2>2. AcceptedFits' /\ ShownFits'
    BY <1>2 DEF Start, AcceptedFits, ShownFits, Planned
  <2>3. RunFits'
    BY <1>2 DEF Start, RunFits, Eligible
  <2> QED BY <2>1, <2>2, <2>3
<1>3. CASE Drift
  <2>1. present' \subseteq Device /\ pin' \in [Device -> Pins]
    BY <1>3 DEF Drift, TypeOK
  <2>2. drifts' \in Nat /\ drifts' # 0 /\ at' = "review" /\ UNCHANGED <<specs, shown, run, at>>
    BY <1>3 DEF Drift, TypeOK
  <2> QED BY <2>1, <2>2 DEF TypeOK, AcceptedFits, ShownFits, RunFits, Planned
<1>4. CASE UNCHANGED vars
  BY <1>4 DEF vars, TypeOK, AcceptedFits, ShownFits, RunFits, Planned, Eligible
<1> QED BY <1>1, <1>2, <1>3, <1>4 DEF Next

\* What is shown and what runs is planned over the devices there are, up to drift:
\* Review and Start plan again (changes.py:236, rollout.py:138).
THEOREM IInvInvariant == Spec => []IInv
<1> QED BY IInvInit, IInvStep, PTL DEF Spec

\* The rollout plans what was validated, over the devices of then.
LEMMA RunPlannable ==
  ASSUME IInv, at = "rollout"
  PROVE  /\ Plannable(specs, present, Eligible)
         /\ run = PlanWaves(specs, present, Eligible)
BY DEF IInv, TypeOK, AcceptedFits, RunFits, Planned, Plannable, Eligible

\* The waves mean what docs/fleet-api.md says, for any mix of names and percentages
\* and whatever came, went or was pinned since the review (plan_waves).
THEOREM WavesMeanWhatIsAsked == Spec => []WavesAsSpecified
<1>1. IInv => WavesAsSpecified
  <2> SUFFICES ASSUME IInv, at = "rollout" PROVE WavesAsSpecified
    BY DEF WavesAsSpecified
  <2> DEFINE pool == present \cap Eligible
  <2>1. Plannable(specs, present, Eligible) /\ run = PlanWaves(specs, present, Eligible)
    BY RunPlannable
  <2>2. \A i, j \in DOMAIN run : i # j => run[i] \cap run[j] = {}
    BY <2>1, PlanDisjoint
  <2>3. AllOf(run) \subseteq pool /\ Named(specs, present) \subseteq AllOf(run)
    BY <2>1, PlanOfNamedAndEligible
  <2>4. pool \subseteq {d \in present : pin[d] # "other"} \cup Named(specs, present)
    BY DEF Eligible
  <2>5. ASSUME NEW i \in DOMAIN specs, IsPercent(specs[i])
        PROVE  LET done == Cardinality(pool \cap Before(run, i)) IN
               /\ 100 * done >= specs[i].percent * Cardinality(pool)
               /\ run[i] # {} => 100 * (done - 1) < specs[i].percent * Cardinality(pool)
               /\ \A d \in run[i] : \A e \in pool \ Before(run, i) : d < e
    BY <2>1, <2>5, PlanOfPercentages
  <2>6. ReachesFleet(specs) => pool \subseteq AllOf(run)
    BY <2>1, PlanReachesFleet
  <2> HIDE DEF pool
  <2>7. AllOf(run) \subseteq {d \in present : pin[d] # "other"} \cup Named(specs, present)
    BY <2>3, <2>4
  <2> QED BY <2>2, <2>3, <2>5, <2>6, <2>7 DEF WavesAsSpecified, pool
<1> QED BY <1>1, IInvInvariant, PTL

\* What was reviewed is what runs: without drift, and with no device pinned elsewhere,
\* every device is eligible and the two plans are one.
THEOREM ReviewedIsRun == Spec => []RunIsAsShown
<1>1. IInv => RunIsAsShown
  <2> SUFFICES ASSUME IInv, at = "rollout", drifts = 0, \A d \in present : pin[d] # "other"
               PROVE  run = shown
    BY DEF RunIsAsShown
  <2>1. present \cap Eligible = present \cap Device
    BY DEF IInv, TypeOK, Eligible, Pins
  <2>2. shown = PlanWaves(specs, present, Device) /\ run = PlanWaves(specs, present, Eligible)
    BY DEF IInv, ShownFits, RunFits, Planned
  <2> HIDE DEF IInv
  <2> QED BY <2>1, <2>2 DEF PlanWaves
<1> QED BY <1>1, IInvInvariant, PTL

\* What Rollout and Fanout assume of their waves (RolloutConstants, FanoutConstants):
\* there are some, of devices, and no device is in two.
Rollable(waves) ==
  /\ waves \in Seq(SUBSET Device) /\ Len(waves) > 0
  /\ \A i, j \in 1..Len(waves) : i # j => waves[i] \cap waves[j] = {}

\* A rollout that starts has waves as Rollout assumes: what is proved of Rollout for
\* any such waves is so of those that plan_waves makes.
THEOREM RunIsRollable == Spec => [](at = "rollout" => Rollable(run))
<1>1. IInv => (at = "rollout" => Rollable(run))
  <2> SUFFICES ASSUME IInv, at = "rollout" PROVE Rollable(run)
    OBVIOUS
  <2>1. Plannable(specs, present, Eligible) /\ run = PlanWaves(specs, present, Eligible)
    BY RunPlannable
  <2>2. /\ Len(specs) \in Nat /\ DOMAIN specs = 1..Len(specs) /\ DOMAIN run = 1..Len(specs)
        /\ \A i \in 1..Len(specs) : run[i] \subseteq present \cap Eligible
    BY <2>1, PlanTyped
  <2>3. \A i, j \in DOMAIN run : i # j => run[i] \cap run[j] = {}
    BY <2>1, PlanDisjoint
  <2>4. present \subseteq Device /\ specs \in Seq(Wave) /\ specs # <<>>
    BY <2>1 DEF Plannable, Valid
  <2>5. Len(specs) > 0
    BY <2>4
  <2>6. run = [i \in 1..Len(specs) |-> run[i]]
    BY <2>1, <2>2 DEF PlanWaves
  <2>7. run \in Seq(SUBSET Device) /\ Len(run) = Len(specs)
    BY <2>2, <2>4, <2>6
  <2> QED BY <2>2, <2>3, <2>5, <2>7 DEF Rollable
<1> QED BY <1>1, IInvInvariant, PTL
=============================================================================
