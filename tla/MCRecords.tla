----------------------------- MODULE MCRecords ------------------------------
(* The records for TLC.                                                       *)
EXTENDS Records
=============================================================================
