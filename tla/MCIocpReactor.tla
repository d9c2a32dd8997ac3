--------------------------- MODULE MCIocpReactor ----------------------------
(* Instances of IocpReactor for TLC.                                        *)
EXTENDS IocpReactor, TLC

CONSTANTS c1, c2, c3
=============================================================================
