----------------------------- MODULE MCWavePlan -----------------------------
(* Small instances of WavePlan.                                              *)
EXTENDS WavePlan, SequencesExt

Names(refs)  == [refs |-> refs, percent |-> 0]
Percent(p)   == [refs |-> <<>>, percent |-> p]

Third     == [exact |-> {3}, prefix |-> {}]        \* a name
Second    == [exact |-> {}, prefix |-> {2}]        \* the beginning of a uuid
Shared    == [exact |-> {1, 2}, prefix |-> {4}]    \* a name two devices have, and a uuid's beginning

SomeWaves == {Names(<<Third>>), Names(<<Second, Third>>), Names(<<Shared, Shared>>),
              Percent(0), Percent(34), Percent(50), Percent(100)}

UpToThree == {<<>>} \cup {<<v>> : v \in SomeWaves} \cup (SomeWaves \X SomeWaves) \cup (SomeWaves \X SomeWaves \X SomeWaves)

\* Fill is what the loop of plan_waves (rollout.py:101) does: it takes the devices
\* of the pool one after the other and stops when enough of the pool is assigned.
Loop(pool, percent, assigned) ==
  FoldLeft(LAMBDA wave, d :
             IF Cardinality(pool \cap (assigned \cup wave)) >= Ceiling(percent, Cardinality(pool)) \/ d \in assigned
               THEN wave ELSE wave \cup {d},
           {}, SetToSortSeq(pool, <))

ASSUME FillIsTheLoop ==
  \A pool, assigned \in SUBSET Device : \A percent \in 1..100 :
    Fill(pool, percent, assigned) = Loop(pool, percent, assigned)
=============================================================================
