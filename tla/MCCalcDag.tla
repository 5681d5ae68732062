----------------------------- MODULE MCCalcDag -----------------------------
(* CalcDag on every graph over three calculations and an unknown id. *)
EXTENDS CalcDag
=============================================================================
