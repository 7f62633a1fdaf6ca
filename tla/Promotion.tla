----------------------------- MODULE Promotion ------------------------------
(***************************************************************************)
(* How a candidate becomes production on the strength of its gates:        *)
(* run_promotion (pipelines/promote_pipeline.py), build_comparison         *)
(* (promotion/compare.py) and the registry it reads and writes.  Several   *)
(* promotions may run at once, as `promote`, `retrain` or the offline part *)
(* of a canary, whose production move comes later, if at all.              *)
(*                                                                         *)
(* The registry may be unreachable for any single call.  A read that fails *)
(* makes the bootstrap model the incumbent; a write that fails may have    *)
(* been applied.  What a canary does in between is CanaryPipeline.         *)
(***************************************************************************)
EXTENDS PromotionGates, Sequences

CONSTANTS
    Promoters,      \* promotions that may run side by side
    Candidates,     \* the metrics training may come up with
    Bootstrap,      \* the metrics of the configured bootstrap model
    MaxVersion      \* bound: versions registered

ASSUME MetricsAssumption ==
    Candidates \subseteq Metrics /\ Bootstrap \in Metrics /\ MaxVersion \in Nat

VARIABLES
    versions,       \* the metrics logged by each registered version's run
    production,     \* the version the production alias names, 0 for none
    pc,             \* where each promotion is
    job             \* its candidate and what that was compared with

vars == <<versions, production, pc, job>>

Labels == {"idle", "resolve", "metrics", "gates", "register", "alias", "trial"}
Targets == {"production", "canary"}

\* compared: the version the comparison names as production, 0 for bootstrap.
Job == [candidate : Metrics, target : Targets, compared : Nat,
        incumbent : Metrics, version : Nat]
NoJob == [candidate |-> Bootstrap, target |-> "production", compared |-> 0,
          incumbent |-> Bootstrap, version |-> 0]

Init ==
    /\ versions = <<>>
    /\ production = 0
    /\ pc = [p \in Promoters |-> "idle"]
    /\ job = [p \in Promoters |-> NoJob]

Goto(p, label) == pc' = [pc EXCEPT ![p] = label]
Return(p) == Goto(p, "idle") /\ job' = [job EXCEPT ![p] = NoJob]

\* run_training, with the alias the caller wants.
Train(p, metrics, target) ==
    /\ pc[p] = "idle"
    /\ job' = [job EXCEPT ![p].candidate = metrics, ![p].target = target]
    /\ Goto(p, "resolve")
    /\ UNCHANGED <<versions, production>>

(* build_comparison *)

\* The alias is found; the job keeps the version it named.
ResolveProduction(p) ==
    /\ pc[p] = "resolve" /\ production # 0
    /\ job' = [job EXCEPT ![p].compared = production]
    /\ Goto(p, "metrics")
    /\ UNCHANGED <<versions, production>>

\* The newest version taken for the incumbent.
MetricsFromNewest(p) ==
    /\ pc[p] = "metrics"
    /\ job' = [job EXCEPT ![p].incumbent = versions[Len(versions)]]
    /\ Goto(p, "gates")
    /\ UNCHANGED <<versions, production>>

\* The metrics the incumbent's own run logged.
MetricsFromRegistry(p) ==
    /\ pc[p] = "metrics"
    /\ job' = [job EXCEPT ![p].incumbent = versions[job[p].compared]]
    /\ Goto(p, "gates")
    /\ UNCHANGED <<versions, production>>

\* No alias, an unreachable registry and an incumbent without readable metrics
\* are one case: the bootstrap model is trained and is the incumbent.
CompareWithBootstrap(p) ==
    /\ pc[p] \in {"resolve", "metrics"}
    /\ job' = [job EXCEPT ![p].compared = 0, ![p].incumbent = Bootstrap]
    /\ Goto(p, "gates")
    /\ UNCHANGED <<versions, production>>

(* evaluate_candidate, then register_candidate *)

PassGates(p) ==
    /\ pc[p] = "gates"
    /\ Promote(job[p].candidate, job[p].incumbent)
    /\ Goto(p, "register")
    /\ UNCHANGED <<versions, production, job>>

\* Rejected: the run stays an ordinary run.
FailGates(p) ==
    /\ pc[p] = "gates"
    /\ ~Promote(job[p].candidate, job[p].incumbent)
    /\ Return(p)
    /\ UNCHANGED <<versions, production>>

RegisterModel(p) ==
    /\ pc[p] = "register" /\ Len(versions) < MaxVersion
    /\ versions' = Append(versions, job[p].candidate)
    /\ job' = [job EXCEPT ![p].version = Len(versions) + 1]
    /\ Goto(p, "alias")
    /\ UNCHANGED production

\* Registration did not complete; the version may exist, without an alias.
RegisterModelFails(p) ==
    /\ pc[p] = "register"
    /\ \/ UNCHANGED versions
       \/ Len(versions) < MaxVersion /\ versions' = Append(versions, job[p].candidate)
    /\ Return(p)
    /\ UNCHANGED production

PointProduction(p) ==
    /\ pc[p] = "alias" /\ job[p].target = "production"
    /\ production' = job[p].version
    /\ Return(p)
    /\ UNCHANGED versions

PointCanary(p) ==
    /\ pc[p] = "alias" /\ job[p].target = "canary"
    /\ Goto(p, "trial")
    /\ UNCHANGED <<versions, production, job>>

PointAliasFails(p) ==
    /\ pc[p] = "alias"
    /\ \/ UNCHANGED production
       \/ job[p].target = "production" /\ production' = job[p].version
    /\ Return(p)
    /\ UNCHANGED versions

(* canary_pipeline, as far as the registry sees it *)

CompleteCanary(p) ==
    /\ pc[p] = "trial"
    /\ production' = job[p].version
    /\ Return(p)
    /\ UNCHANGED versions

\* complete raises CanaryStateError; the alias may have moved, and the canary
\* is still running, to be completed again or rolled back.
CompleteCanaryFails(p) ==
    /\ pc[p] = "trial"
    /\ production' = job[p].version
    /\ UNCHANGED <<versions, pc, job>>

\* A rollback that also points production back at what the candidate was
\* compared with.
RollBackToCompared(p) ==
    /\ pc[p] = "trial"
    /\ production' = job[p].compared
    /\ Return(p)
    /\ UNCHANGED versions

\* The candidate is withdrawn; the registry is left alone.
RollBackCanary(p) ==
    /\ pc[p] = "trial"
    /\ Return(p)
    /\ UNCHANGED <<versions, production>>

Next ==
    \E p \in Promoters :
        \/ \E metrics \in Candidates, target \in Targets : Train(p, metrics, target)
        \/ ResolveProduction(p) \/ MetricsFromRegistry(p) \/ CompareWithBootstrap(p)
        \/ PassGates(p) \/ FailGates(p) \/ RegisterModel(p) \/ RegisterModelFails(p)
        \/ PointProduction(p) \/ PointCanary(p) \/ PointAliasFails(p)
        \/ CompleteCanary(p) \/ CompleteCanaryFails(p) \/ RollBackCanary(p)

Spec == Init /\ [][Next]_vars

-----------------------------------------------------------------------------
(* Properties *)

TypeOK ==
    /\ versions \in Seq(Candidates) /\ Len(versions) <= MaxVersion
    /\ production \in 0..Len(versions)
    /\ pc \in [Promoters -> Labels]
    /\ job \in [Promoters -> Job]

\* What a registered model meets whatever it was compared with.
Sound(metrics) ==
    /\ MinimumMetric(metrics) /\ Latency(metrics) /\ Reproducibility(metrics)
    /\ metrics.brier_skill_score > MinSkill

\* A rejected candidate never reaches the registry, even without an alias and
\* even transiently: every version is sound, however stale or missing its
\* incumbent was when it was judged.  With the alias moving only to versions,
\* production is sound through every outage.
RegistrySound == \A v \in 1..Len(versions) : Sound(versions[v])

\* A job past the gates carries the evidence that let it through: the metrics
\* that are registered are those that were judged, against those the version
\* it names had recorded.
JobsJudged ==
    \A p \in Promoters :
        /\ job[p].compared \in 0..Len(versions)
        /\ pc[p] = "resolve" => job[p].candidate \in Candidates
        /\ pc[p] = "metrics" => job[p].compared # 0 /\ job[p].candidate \in Candidates
        /\ pc[p] = "gates" => job[p].candidate \in Candidates
        /\ pc[p] \in {"gates", "register", "alias", "trial"} /\ job[p].compared # 0
              => job[p].incumbent = versions[job[p].compared]
        /\ pc[p] = "register" =>
              job[p].candidate \in Candidates /\ Promote(job[p].candidate, job[p].incumbent)
        /\ pc[p] \in {"alias", "trial"} =>
              /\ job[p].version \in 1..Len(versions)
              /\ versions[job[p].version] = job[p].candidate
              /\ Promote(job[p].candidate, job[p].incumbent)

\* The inductive invariant.
PInv == TypeOK /\ RegistrySound /\ JobsJudged

\* A promotion that replaces the very version it was compared with is an
\* improvement by every gate, however long ago the comparison was made, and
\* with other promotions and canaries in between.
ReplacementImproves ==
    [][\A p \in Promoters :
          /\ pc[p] \in {"alias", "trial"}
          /\ production' = job[p].version /\ production' # production
          /\ job[p].compared = production /\ production # 0
          => Promote(versions'[production'], versions[production])]_vars

\* The refinement mapping.  A version is open while a promotion holds it: gated
\* from its registration to its alias, in trial while its canary runs.
HeldAt(v, label) == \E p \in Promoters : pc[p] = label /\ job[p].version = v

Stage == [v \in 1..MaxVersion |->
    IF v > Len(versions) THEN "absent"
    ELSE IF HeldAt(v, "alias") THEN "gated"
    ELSE IF HeldAt(v, "trial") THEN "trial"
    ELSE "ended"]

Release == INSTANCE GatedRelease
               WITH Versions <- 1..MaxVersion, stage <- Stage, production <- production

\* With promotions and canaries side by side and the registry failing at any
\* call, production still moves only to a version whose own promotion is under
\* way: no late or repeated decision reinstalls one that is over, and no version
\* is taken up again.
ImplementsGatedRelease == Release!Spec
=============================================================================
