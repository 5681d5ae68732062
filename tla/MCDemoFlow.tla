----------------------------- MODULE MCDemoFlow -----------------------------
(* DemoFlow with two or three of the eight checkpoints and another snapshot  *)
(* name: the presenter and an analyst at the same time, or one request after *)
(* the other.                                                                *)
EXTENDS DemoFlow, FiniteSets, TLC

\* In serial use there are two snapshots at a time, of any two of the names; with
\* requests that overlap there is one.
MCNext == /\ DemoNext
          /\ serial \/ demo'.name = Pristine
          /\ Cardinality({n \in Names : snapshots'[n] # Missing}) <= 2
MCSpec == DemoInit /\ [][MCNext]_allVars
SerialSpec == DemoInit /\ serial = TRUE /\ [][MCNext]_allVars

ThreeCheckpoints == <<"pristine", "alerts_generated", "final">>
TwoCheckpoints == <<"pristine", "final">>
Symmetry == Permutations(Alerts) \cup Permutations(Callers)
=============================================================================
