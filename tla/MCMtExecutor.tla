---------------------------- MODULE MCMtExecutor ----------------------------
(* Instances of MtExecutor for TLC.                                         *)
EXTENDS MtExecutor, TLC

CONSTANTS i1, i2, i3, p1, p2, r1
=============================================================================
