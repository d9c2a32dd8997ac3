-------------------------- MODULE MCReactorHandle ---------------------------
(* Instances of ReactorHandle for TLC.                                      *)
EXTENDS ReactorHandle

CONSTANTS u1, u2, u3, u4
=============================================================================
