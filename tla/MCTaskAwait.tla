---------------------------- MODULE MCTaskAwait -----------------------------
(* Instances of TaskAwait for TLC.                                          *)
EXTENDS TaskAwait, TLC

CONSTANTS t1, t2, t3, t4
=============================================================================
