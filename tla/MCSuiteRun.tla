----------------------------- MODULE MCSuiteRun -----------------------------
(***************************************************************************)
(* Instances of SuiteRun for TLC: kernels 1 and 3, selftests 2.  Kernel 3  *)
(* is the one the build filter can drop (NumBuilds = 2).                   *)
(***************************************************************************)
EXTENDS SuiteRun

TwoHosts == <<1, 3>>
TwoHostsTests == <<<<2, 0>>, <<0>>>>
OneHost == <<1>>
OneHostTests == <<<<2, 0>>>>
SomeWidths == {-1, 1, 2}
BothWidths == {1, 2}
OneWidth == {2}
=============================================================================
