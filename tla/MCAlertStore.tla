---------------------------- MODULE MCAlertStore ----------------------------
(* AlertStore on small sets, with requests that overlap or one at a time.  *)
EXTENDS AlertStore, TLC

Symmetry == Permutations(Alerts) \cup Permutations(Workers)
=============================================================================
