--------------------------- MODULE MCCalcPipeline ---------------------------
(* CalcPipeline on a small graph of calculations. *)
EXTENDS CalcPipeline, TLC

CONSTANTS value, window, wash,   \* calculations
          w1, w2                 \* workers

\* Three calculations, the last reads both others.
Three == <<value, window, wash>>
ThreeReads == value :> {} @@ window :> {value} @@ wash :> {value, window}

\* Full runs or stages that overlap, or one pipeline or demo request at a time
\* with reloads of the base data at any moment.
All(kinds) == [w \in Workers |-> kinds]
FullRuns == w1 :> {"run", "demo", "save"} @@ w2 :> {"load"}
PartialRuns == w1 :> {"stage", "one"} @@ w2 :> {"load"}
Uses == {All({"run", "stage"}), All({"stage"}), PartialRuns, FullRuns}

\* Nothing tells one content of the base data from another.
Symmetry == Permutations(Versions)

\* Crashes are of interest where the answers to single requests are checked, and
\* snapshots once all calculations are done.
MCSpec ==
  /\ Init
  /\ [][/\ Next
        /\ OneAtATime \/ crashes' = 0
        /\ \A w \in Workers : job'[w].kind = "save" => job[w].kind = "save" \/ done = Calcs]_vars
=============================================================================
