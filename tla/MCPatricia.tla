----------------------------- MODULE MCPatricia -----------------------------
(* Instances of Patricia for TLC.                                           *)
EXTENDS Patricia

\* A key with two extensions, one that branches from it, and one on the other
\* edge of the root.
TextKeys == {<<0, 1>>, <<0, 1, 0, 0>>, <<0, 1, 0, 1>>, <<0, 0>>, <<1, 0>>}
=============================================================================
