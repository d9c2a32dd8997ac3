----------------------------- MODULE MCSyncWait -----------------------------
(* Instances of SyncWait for TLC.                                           *)
EXTENDS SyncWait, TLC

CONSTANTS w1, w2, d1, d2, p1, p2
=============================================================================
