------------------------- MODULE MCFailureHarness --------------------------
(***************************************************************************)
(* TLC instances of FailureHarness: every Deployment running, or the       *)
(* canary's predictor scaled to zero before the run; a canary at 10 % or   *)
(* none.                                                                   *)
(***************************************************************************)
EXTENDS FailureHarness, TLC

AllRunning == [d \in Deployments |-> 1]
CanaryOff == [AllRunning EXCEPT !["canary"] = 0]
Scales == {AllRunning, CanaryOff}
=============================================================================
