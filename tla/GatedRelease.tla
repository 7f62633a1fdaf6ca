---------------------------- MODULE GatedRelease ----------------------------
(***************************************************************************)
(* What the release path promises about the production alias, with every   *)
(* mechanism left out: no registry calls, routers, processes or failures.  *)
(*                                                                         *)
(* A version is numbered when it is registered, and from then on it is     *)
(* OPEN until its one chance is over: the promotion that registered it     *)
(* returned, or its canary ended.  Only an open version may become         *)
(* production, and no version is ever reopened.  This is the promise that  *)
(* canary_pipeline.complete and docs/canary.md make about replaying an old *)
(* decision.                                                               *)
(***************************************************************************)
EXTENDS Naturals

CONSTANT Versions    \* the version numbers the registry may hand out

VARIABLES
    stage,           \* how far each version has come
    production       \* the version the production alias names, 0 for none

Rank == [absent |-> 0, gated |-> 1, trial |-> 2, ended |-> 3]
Stages == {"absent", "gated", "trial", "ended"}

\* A gated version has passed the gates and waits for its alias; a version
\* in trial is the one some enabled router offers traffic to.
Open(v) == stage[v] \in {"gated", "trial"}

Init ==
    /\ stage = [v \in Versions |-> "absent"]
    /\ production = 0

\* Stages only ever move forward.
Forward ==
    /\ stage' \in [Versions -> Stages]
    /\ \A v \in Versions : Rank[stage[v]] <= Rank[stage'[v]]

\* Registration, the start of a canary, its end: production is untouched.
Progress == Forward /\ UNCHANGED production

\* The production alias moves to a version that is still open.
Install(v) == Open(v) /\ production' = v /\ Forward

Next == Progress \/ \E v \in Versions : Install(v)

Spec == Init /\ [][Next]_<<stage, production>>
=============================================================================
