-------------------------- MODULE MCDynamicBuffer ---------------------------
(* Instances of DynamicBuffer for TLC.                                      *)
EXTENDS DynamicBuffer
=============================================================================
