---------------------------- MODULE CanaryRouter ----------------------------
(***************************************************************************)
(* The state a CanaryRouter holds and what each call makes of it           *)
(* (serving/canary.py), with the preconditions canary_pipeline.complete    *)
(* puts on it.  Pure operators: the modules with variables use them.       *)
(*                                                                         *)
(* Allocations are whole percentages.  The candidate URL is part of the    *)
(* code's test for an active canary; every start sets one, so it is left   *)
(* out, as are the fields only reports read.                               *)
(***************************************************************************)
EXTENDS Naturals

None == 0           \* no version
MaxTraffic == 99    \* MAX_TRAFFIC_PERCENT

Verdicts == {"promote", "rollback", "hold"}

Router == [enabled : BOOLEAN, traffic : 0..MaxTraffic, candidate : Nat]
Decision == [verdict : Verdicts, candidate : Nat]

FreshRouter == [enabled |-> FALSE, traffic |-> 0, candidate |-> None]

\* An allocation of 100 would leave the incumbent with nothing.
ValidTraffic(percent) == percent <= MaxTraffic

Started(v, percent) == [enabled |-> TRUE, traffic |-> percent, candidate |-> v]

\* stop with only the allocation zeroed.
StoppedByTrafficOnly(r) == [r EXCEPT !.traffic = 0]

\* Both fields change; the candidate's version stays, for the report.
Stopped(r) == [enabled |-> FALSE, traffic |-> 0, candidate |-> r.candidate]

Active(r) == r.enabled /\ r.traffic > 0

\* InProcessTrafficController.set_traffic: zero is a stop, and an allocation
\* above the cap is refused with the router as it was.
Dialled(r, percent) ==
    IF percent = 0 THEN Stopped(r)
    ELSE IF ValidTraffic(percent) THEN [r EXCEPT !.traffic = percent] ELSE r

\* `decision.candidate_version or router.state.candidate_version`.
VersionToPromote(r, d) == IF d.candidate # None THEN d.candidate ELSE r.candidate

\* complete that trusts the decision and never looks at the running canary.
MayCompleteOnVerdictAlone(r, d) ==
    d.verdict = "promote" /\ VersionToPromote(r, d) # None

\* complete without the check that the decision is for the running candidate.
MayCompleteForAnotherCandidate(r, d) ==
    d.verdict = "promote" /\ Active(r) /\ VersionToPromote(r, d) # None

\* The preconditions of complete: the verdict, a canary still running, and
\* the running canary being the one the decision measured.
MayComplete(r, d) ==
    /\ d.verdict = "promote"
    /\ Active(r)
    /\ VersionToPromote(r, d) # None
    /\ r.candidate # None => VersionToPromote(r, d) = r.candidate
=============================================================================
