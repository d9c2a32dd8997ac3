----------------------------- MODULE MCIoUring ------------------------------
(* Instances of IoUring for TLC.                                            *)
EXTENDS IoUring

CONSTANTS c1, c2, c3
=============================================================================
