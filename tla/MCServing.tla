----------------------------- MODULE MCServing ------------------------------
(***************************************************************************)
(* TLC instances of Serving: a version with a threshold of its own, a      *)
(* registered version without one, a key on each side of the allocation.   *)
(***************************************************************************)
EXTENDS Serving, TLC

TwoVersions == {1, 2}
FirstTagged == {1}
TwoKeys == {5, 50}
OffAndOn == {0, 10}
=============================================================================
