--------------------------- MODULE PromotionProofs --------------------------
(***************************************************************************)
(* Proofs about Promotion for every set of candidates, every bootstrap     *)
(* model, every setting of the gates and any number of promotions.         *)
(***************************************************************************)
EXTENDS Promotion, TLAPS

(* The gates as a function of what they compare. *)

\* One model predicts no worse than another by any metric a gate compares.
NoWorse(a, b) ==
    /\ a.average_precision >= b.average_precision /\ a.roc_auc >= b.roc_auc
    /\ a.brier_score <= b.brier_score /\ a.recall_at_capacity >= b.recall_at_capacity

\* One model does no worse than another before the gates that look at it alone.
NoLessFit(a, b) ==
    /\ a.brier_skill_score >= b.brier_skill_score
    /\ b.prediction_time # Untimed =>
          a.prediction_time # Untimed /\ a.prediction_time <= b.prediction_time
    /\ b.reproducible => a.reproducible

\* Every gate looks the right way, those of metrics where less is better too: a
\* candidate that is no worse passes wherever another does.  And the better the
\* incumbent, the more is asked, so that a comparison that falls back on a worse
\* one (build_comparison without a registry) never rejects what the comparison
\* with production would have accepted; what it admits beyond that is the price.
THEOREM GatesAreMonotone ==
  ASSUME NEW c \in Metrics, NEW d \in Metrics, NoWorse(c, d), NoLessFit(c, d),
         NEW p \in Metrics, NEW q \in Metrics, NoWorse(p, q),
         Promote(d, p)
  PROVE  Promote(c, q)
<1> USE LimitAssumption DEF Metrics, NoWorse, NoLessFit, Promote
<1>1. MinImprovement(c, q) /\ MinimumMetric(c)
  BY DEF MinImprovement, MinimumMetric
<1>2. RocAucRegression(c, q) /\ RecallRegression(c, q)
  BY DEF RocAucRegression, RecallRegression
<1>3. Calibration(c, q)
  BY DEF Calibration
<1>4. Latency(c)
  BY DEF Latency, Untimed
<1> QED BY <1>1, <1>2, <1>3, <1>4 DEF Reproducibility

(* The first state. *)

\* A registry to start from: empty, and no promotion under way.
LEMMA InitInvariant == Init => PInv
<1> SUFFICES ASSUME Init PROVE PInv
    OBVIOUS
<1>1. NoJob \in Job
  BY MetricsAssumption DEF NoJob, Job, Targets
<1>2. TypeOK
  BY <1>1, MetricsAssumption DEF Init, TypeOK, Labels
<1>3. RegistrySound
  BY DEF Init, RegistrySound
<1>4. JobsJudged
  BY DEF Init, JobsJudged, NoJob
<1> QED BY <1>2, <1>3, <1>4 DEF PInv

(* Facts the steps share. *)

\* What TypeOK says of a version's metrics and of a version's number.
LEMMA VersionTyped ==
  ASSUME PInv
  PROVE  /\ Len(versions) \in Nat
         /\ \A v \in 1..Len(versions) : versions[v] \in Candidates /\ versions[v] \in Metrics
<1>1. versions \in Seq(Candidates)
  BY DEF PInv, TypeOK
<1>2. Len(versions) \in Nat
  BY <1>1
<1>3. \A v \in 1..Len(versions) : versions[v] \in Candidates
  BY <1>1, <1>2
<1> QED BY <1>2, <1>3, MetricsAssumption

\* Registering appends a typed version and leaves the earlier ones as they were.
LEMMA AppendTyped ==
  ASSUME PInv, NEW metrics \in Candidates, versions' = Append(versions, metrics)
  PROVE  /\ versions' \in Seq(Candidates)
         /\ Len(versions') = Len(versions) + 1
         /\ \A v \in 1..Len(versions) : versions'[v] = versions[v]
         /\ versions'[Len(versions) + 1] = metrics
<1>1. versions \in Seq(Candidates)
  BY DEF PInv, TypeOK
<1> QED BY <1>1

(* One lemma per action: it keeps the inductive invariant. *)

\* Training changes only the job's candidate.
LEMMA TrainKeeps ==
  ASSUME PInv, NEW p \in Promoters, NEW metrics \in Candidates, NEW target \in Targets,
         Train(p, metrics, target)
  PROVE  PInv'
<1> USE MetricsAssumption DEF PInv
<1>1. TypeOK'
  <2>1. \A q \in Promoters : job'[q] \in Job
    <3> SUFFICES ASSUME NEW q \in Promoters PROVE job'[q] \in Job
      OBVIOUS
    <3>1. job \in [Promoters -> Job] /\ metrics \in Metrics
      BY DEF TypeOK
    <3>2. job' = [job EXCEPT ![p].candidate = metrics, ![p].target = target]
      BY DEF Train
    <3>3. job'[q] = IF q = p THEN [job[p] EXCEPT !.candidate = metrics, !.target = target]
                             ELSE job[q]
      BY <3>1, <3>2
    <3> HIDE DEF PInv
    <3> QED BY <3>1, <3>3 DEF Job
  <2> QED BY <2>1 DEF Train, Goto, TypeOK, Labels
<1>2. RegistrySound'
  BY DEF Train, TypeOK, RegistrySound
<1>3. JobsJudged'
  BY DEF Train, Goto, TypeOK, Labels, Job, JobsJudged
<1> QED BY <1>1, <1>2, <1>3

\* The version a job is compared with exists.
LEMMA ResolveProductionKeeps ==
  ASSUME PInv, NEW p \in Promoters, ResolveProduction(p)
  PROVE  PInv'
<1> USE MetricsAssumption DEF PInv
<1>1. TypeOK'
  <2>1. \A q \in Promoters : job'[q] \in Job
    <3>1. job \in [Promoters -> Job] /\ production \in Nat
      BY VersionTyped DEF TypeOK
    <3>2. job' = [job EXCEPT ![p].compared = production]
      BY DEF ResolveProduction
    <3> HIDE DEF PInv
    <3> QED BY <3>1, <3>2 DEF Job
  <2> QED BY <2>1 DEF ResolveProduction, Goto, TypeOK, Labels
<1>2. RegistrySound'
  BY DEF ResolveProduction, TypeOK, RegistrySound
<1>3. JobsJudged'
  BY DEF ResolveProduction, Goto, TypeOK, Labels, Job, JobsJudged
<1> QED BY <1>1, <1>2, <1>3

\* The incumbent's metrics are those its version recorded.
LEMMA MetricsFromRegistryKeeps ==
  ASSUME PInv, NEW p \in Promoters, MetricsFromRegistry(p)
  PROVE  PInv'
<1> USE MetricsAssumption DEF PInv
<1>1. TypeOK'
  <2>1. versions[job[p].compared] \in Metrics
    BY VersionTyped DEF MetricsFromRegistry, TypeOK, JobsJudged
  <2>2. \A q \in Promoters : job'[q] \in Job
    BY <2>1 DEF MetricsFromRegistry, TypeOK, Job
  <2> QED BY <2>2 DEF MetricsFromRegistry, Goto, TypeOK, Labels
<1>2. RegistrySound'
  BY DEF MetricsFromRegistry, TypeOK, RegistrySound
<1>3. JobsJudged'
  BY DEF MetricsFromRegistry, Goto, TypeOK, Labels, Job, JobsJudged
<1> QED BY <1>1, <1>2, <1>3

\* The bootstrap incumbent names no version.
LEMMA CompareWithBootstrapKeeps ==
  ASSUME PInv, NEW p \in Promoters, CompareWithBootstrap(p)
  PROVE  PInv'
<1> USE MetricsAssumption DEF PInv
<1>1. TypeOK'
  <2>1. \A q \in Promoters : job'[q] \in Job
    BY DEF CompareWithBootstrap, TypeOK, Job
  <2> QED BY <2>1 DEF CompareWithBootstrap, Goto, TypeOK, Labels
<1>2. RegistrySound'
  BY DEF CompareWithBootstrap, TypeOK, RegistrySound
<1>3. JobsJudged'
  BY DEF CompareWithBootstrap, Goto, TypeOK, Labels, Job, JobsJudged
<1> QED BY <1>1, <1>2, <1>3

\* What is about to be registered was judged.
LEMMA PassGatesKeeps ==
  ASSUME PInv, NEW p \in Promoters, PassGates(p)
  PROVE  PInv'
<1> USE MetricsAssumption DEF PInv
<1>1. TypeOK'
  BY DEF PassGates, Goto, TypeOK, Labels, Job, JobsJudged, Targets
<1>2. RegistrySound'
  BY DEF PassGates, TypeOK, RegistrySound
<1>3. JobsJudged'
  BY DEF PassGates, Goto, TypeOK, Labels, Job, JobsJudged
<1> QED BY <1>1, <1>2, <1>3

\* A rejected candidate leaves nothing behind.
LEMMA FailGatesKeeps ==
  ASSUME PInv, NEW p \in Promoters, FailGates(p)
  PROVE  PInv'
<1> USE MetricsAssumption DEF PInv
<1>1. TypeOK'
  BY DEF FailGates, Goto, Return, NoJob, TypeOK, Labels, Job, JobsJudged, Targets
<1>2. RegistrySound'
  BY DEF FailGates, TypeOK, RegistrySound
<1>3. JobsJudged'
  BY DEF FailGates, Goto, Return, NoJob, TypeOK, Labels, Job, JobsJudged
<1> QED BY <1>1, <1>2, <1>3

\* The new version has the metrics that were judged, which are sound.
LEMMA RegisterModelKeeps ==
  ASSUME PInv, NEW p \in Promoters, RegisterModel(p)
  PROVE  PInv'
<1> USE MetricsAssumption DEF PInv
<1>1. job[p].candidate \in Candidates
  BY DEF RegisterModel, JobsJudged
<1>2. /\ versions' \in Seq(Candidates)
      /\ Len(versions) \in Nat /\ Len(versions') = Len(versions) + 1
      /\ \A v \in 1..Len(versions) : versions'[v] = versions[v]
      /\ versions'[Len(versions) + 1] = job[p].candidate
  BY <1>1, AppendTyped, VersionTyped DEF RegisterModel
<1>3. TypeOK'
  <2>1. \A q \in Promoters : job'[q] \in Job
    <3> SUFFICES ASSUME NEW q \in Promoters PROVE job'[q] \in Job
      OBVIOUS
    <3>1. job \in [Promoters -> Job] /\ Len(versions) + 1 \in Nat
      BY <1>2 DEF TypeOK
    <3>2. job' = [job EXCEPT ![p].version = Len(versions) + 1]
      BY DEF RegisterModel
    <3> HIDE DEF PInv
    <3> QED BY <3>1, <3>2 DEF Job
  <2> QED BY <1>2, <2>1 DEF RegisterModel, Goto, TypeOK, Labels
<1>4. RegistrySound'
  BY <1>2 DEF RegisterModel, RegistrySound, JobsJudged, Sound, Promote, Calibration
<1>5. JobsJudged'
  BY <1>2, VersionTyped DEF RegisterModel, Goto, TypeOK, Labels, JobsJudged
<1> QED BY <1>3, <1>4, <1>5

\* The version a failed registration may leave behind is sound too.
LEMMA RegisterModelFailsKeeps ==
  ASSUME PInv, NEW p \in Promoters, RegisterModelFails(p)
  PROVE  PInv'
<1> USE MetricsAssumption DEF PInv
<1>1. job' \in [Promoters -> Job] /\ pc' \in [Promoters -> Labels]
  BY DEF RegisterModelFails, Goto, Return, NoJob, TypeOK, Labels, Job, Targets
<1>2. CASE UNCHANGED versions
  <2>1. TypeOK'
    BY <1>1, <1>2 DEF RegisterModelFails, TypeOK
  <2>2. RegistrySound'
    BY <1>2 DEF RegistrySound
  <2>3. JobsJudged'
    BY <1>2 DEF RegisterModelFails, Goto, Return, NoJob, TypeOK, Labels, JobsJudged
  <2> QED BY <2>1, <2>2, <2>3
<1>3. CASE versions' = Append(versions, job[p].candidate)
  <2>1. job[p].candidate \in Candidates
    BY DEF RegisterModelFails, JobsJudged
  <2>2. /\ versions' \in Seq(Candidates)
        /\ Len(versions) \in Nat /\ Len(versions') = Len(versions) + 1
        /\ \A v \in 1..Len(versions) : versions'[v] = versions[v]
        /\ versions'[Len(versions) + 1] = job[p].candidate
    BY <1>3, <2>1, AppendTyped, VersionTyped
  <2>3. TypeOK'
    BY <1>1, <2>2 DEF RegisterModelFails, TypeOK
  <2>4. RegistrySound'
    BY <2>2 DEF RegisterModelFails, RegistrySound, JobsJudged, Sound, Promote, Calibration
  <2>5. JobsJudged'
    BY <2>2, VersionTyped DEF RegisterModelFails, Goto, Return, NoJob, TypeOK, Labels, JobsJudged
  <2> QED BY <2>3, <2>4, <2>5
<1> QED BY <1>2, <1>3 DEF RegisterModelFails

\* Production moves to a version that exists.
LEMMA PointProductionKeeps ==
  ASSUME PInv, NEW p \in Promoters, PointProduction(p)
  PROVE  PInv'
<1> USE MetricsAssumption DEF PInv
<1>1. TypeOK'
  BY DEF PointProduction, Goto, Return, NoJob, TypeOK, Labels, Job, JobsJudged, Targets
<1>2. RegistrySound'
  BY DEF PointProduction, TypeOK, RegistrySound
<1>3. JobsJudged'
  BY DEF PointProduction, Goto, Return, NoJob, TypeOK, Labels, Job, JobsJudged
<1> QED BY <1>1, <1>2, <1>3

\* The canary alias is not production's.
LEMMA PointCanaryKeeps ==
  ASSUME PInv, NEW p \in Promoters, PointCanary(p)
  PROVE  PInv'
<1> USE MetricsAssumption DEF PInv
<1>1. TypeOK'
  BY DEF PointCanary, Goto, TypeOK, Labels, Job, JobsJudged, Targets
<1>2. RegistrySound'
  BY DEF PointCanary, TypeOK, RegistrySound
<1>3. JobsJudged'
  BY DEF PointCanary, Goto, TypeOK, Labels, Job, JobsJudged
<1> QED BY <1>1, <1>2, <1>3

\* A lost answer moves production to a version that exists, or not at all.
LEMMA PointAliasFailsKeeps ==
  ASSUME PInv, NEW p \in Promoters, PointAliasFails(p)
  PROVE  PInv'
<1> USE MetricsAssumption DEF PInv
<1>1. TypeOK'
  BY DEF PointAliasFails, Goto, Return, NoJob, TypeOK, Labels, Job, JobsJudged, Targets
<1>2. RegistrySound'
  BY DEF PointAliasFails, TypeOK, RegistrySound
<1>3. JobsJudged'
  BY DEF PointAliasFails, Goto, Return, NoJob, TypeOK, Labels, Job, JobsJudged
<1> QED BY <1>1, <1>2, <1>3

\* A completed canary's version exists.
LEMMA CompleteCanaryKeeps ==
  ASSUME PInv, NEW p \in Promoters, CompleteCanary(p)
  PROVE  PInv'
<1> USE MetricsAssumption DEF PInv
<1>1. TypeOK'
  BY DEF CompleteCanary, Goto, Return, NoJob, TypeOK, Labels, Job, JobsJudged, Targets
<1>2. RegistrySound'
  BY DEF CompleteCanary, TypeOK, RegistrySound
<1>3. JobsJudged'
  BY DEF CompleteCanary, Goto, Return, NoJob, TypeOK, Labels, Job, JobsJudged
<1> QED BY <1>1, <1>2, <1>3

\* So does that of a canary whose completion was reported as failed.
LEMMA CompleteCanaryFailsKeeps ==
  ASSUME PInv, NEW p \in Promoters, CompleteCanaryFails(p)
  PROVE  PInv'
<1> USE DEF PInv
<1>1. TypeOK'
  BY DEF CompleteCanaryFails, TypeOK, JobsJudged
<1>2. RegistrySound'
  BY DEF CompleteCanaryFails, RegistrySound
<1>3. JobsJudged'
  BY DEF CompleteCanaryFails, JobsJudged
<1> QED BY <1>1, <1>2, <1>3

\* A rollback leaves the registry alone.
LEMMA RollBackCanaryKeeps ==
  ASSUME PInv, NEW p \in Promoters, RollBackCanary(p)
  PROVE  PInv'
<1> USE MetricsAssumption DEF PInv
<1>1. TypeOK'
  BY DEF RollBackCanary, Goto, Return, NoJob, TypeOK, Labels, Job, JobsJudged, Targets
<1>2. RegistrySound'
  BY DEF RollBackCanary, TypeOK, RegistrySound
<1>3. JobsJudged'
  BY DEF RollBackCanary, Goto, Return, NoJob, TypeOK, Labels, Job, JobsJudged
<1> QED BY <1>1, <1>2, <1>3

(* The invariant. *)

\* Every step of every promotion, a stutter included, keeps PInv.
LEMMA StepKeeps == PInv /\ [Next]_vars => PInv'
<1> SUFFICES ASSUME PInv, [Next]_vars PROVE PInv'
    OBVIOUS
<1>1. CASE Next
  BY <1>1, TrainKeeps, ResolveProductionKeeps, MetricsFromRegistryKeeps,
     CompareWithBootstrapKeeps, PassGatesKeeps, FailGatesKeeps, RegisterModelKeeps,
     RegisterModelFailsKeeps, PointProductionKeeps, PointCanaryKeeps,
     PointAliasFailsKeeps, CompleteCanaryKeeps, CompleteCanaryFailsKeeps,
     RollBackCanaryKeeps DEF Next
<1>2. CASE UNCHANGED vars
  BY <1>2 DEF vars, PInv, TypeOK, RegistrySound, JobsJudged
<1> QED BY <1>1, <1>2

\* The inductive invariant holds of every behaviour: what is registered was
\* judged, and by the comparison the job still names.
THEOREM Judged == Spec => []PInv
<1>1. Init => PInv
  BY InitInvariant
<1>2. PInv /\ [Next]_vars => PInv'
  BY StepKeeps
<1> QED BY <1>1, <1>2, PTL DEF Spec

\* No version that fails an absolute gate is ever registered, whatever reads
\* and writes of the registry fail and however promotions interleave.
THEOREM OnlySoundVersions == Spec => []RegistrySound
<1>1. PInv => RegistrySound
  BY DEF PInv
<1> QED BY <1>1, Judged, PTL

\* Whatever happened since the comparison, a promotion that replaces the very
\* version it was compared with installs one that passes every gate against it.
LEMMA ReplacementStep ==
  ASSUME PInv, [Next]_vars, NEW p \in Promoters,
         pc[p] \in {"alias", "trial"},
         production' = job[p].version, production' # production,
         job[p].compared = production, production # 0
  PROVE  Promote(versions'[production'], versions[production])
<1>1. Next
  BY DEF vars
<1>2. UNCHANGED versions
  BY <1>1 DEF Next, Train, ResolveProduction, MetricsFromRegistry,
     CompareWithBootstrap, PassGates, FailGates, RegisterModel, RegisterModelFails,
     PointProduction, PointCanary, PointAliasFails, CompleteCanary,
     CompleteCanaryFails, RollBackCanary
<1>3. /\ versions[job[p].version] = job[p].candidate
      /\ Promote(job[p].candidate, job[p].incumbent)
      /\ job[p].incumbent = versions[production]
  BY DEF PInv, JobsJudged
<1> QED BY <1>2, <1>3

\* Replacing the compared version is an improvement by every gate, for any
\* gates, candidates and number of promotions and canaries at once.
THEOREM ReplacementIsImprovement == Spec => ReplacementImproves
<1>1. PInv /\ [Next]_vars =>
        [\A p \in Promoters :
            /\ pc[p] \in {"alias", "trial"}
            /\ production' = job[p].version /\ production' # production
            /\ job[p].compared = production /\ production # 0
            => Promote(versions'[production'], versions[production])]_vars
  BY ReplacementStep
<1> QED BY <1>1, Judged, PTL DEF Spec, ReplacementImproves

(* Promotion implements GatedRelease. *)

\* Nothing is taken up again: a version waiting for its alias, or on trial, after
\* a step was already so before it, or is new.
LEMMA HoldersKept ==
  ASSUME PInv, Next, NEW q \in Promoters
  PROVE  /\ pc'[q] = "alias" =>
                \/ pc[q] = "alias" /\ job'[q].version = job[q].version
                \/ job'[q].version > Len(versions)
         /\ pc'[q] = "trial" =>
                pc[q] \in {"alias", "trial"} /\ job'[q].version = job[q].version
<1> DEFINE Goal ==
         /\ pc'[q] = "alias" =>
                \/ pc[q] = "alias" /\ job'[q].version = job[q].version
                \/ job'[q].version > Len(versions)
         /\ pc'[q] = "trial" =>
                pc[q] \in {"alias", "trial"} /\ job'[q].version = job[q].version
<1>1. pc \in [Promoters -> Labels] /\ job \in [Promoters -> Job] /\ Len(versions) \in Nat
  BY VersionTyped DEF PInv, TypeOK
<1>2. PICK p \in Promoters :
        \/ \E metrics \in Candidates, target \in Targets : Train(p, metrics, target)
        \/ ResolveProduction(p) \/ MetricsFromRegistry(p) \/ CompareWithBootstrap(p)
        \/ PassGates(p) \/ FailGates(p) \/ RegisterModel(p) \/ RegisterModelFails(p)
        \/ PointProduction(p) \/ PointCanary(p) \/ PointAliasFails(p)
        \/ CompleteCanary(p) \/ CompleteCanaryFails(p) \/ RollBackCanary(p)
  BY DEF Next
<1>3. CASE q # p
  <2>1. pc'[q] = pc[q] /\ job'[q] = job[q]
    BY <1>1, <1>2, <1>3 DEF Train, ResolveProduction, MetricsFromRegistry,
       CompareWithBootstrap, PassGates, FailGates, RegisterModel, RegisterModelFails,
       PointProduction, PointCanary, PointAliasFails, CompleteCanary,
       CompleteCanaryFails, RollBackCanary, Goto, Return
  <2> QED BY <2>1
<1>4. CASE q = p /\ RegisterModel(p)
  <2>1. pc'[p] = "alias" /\ job'[p].version = Len(versions) + 1
    BY <1>1, <1>4 DEF RegisterModel, Goto, Job
  <2> QED BY <1>1, <1>4, <2>1
<1>5. CASE q = p /\ (PointCanary(p) \/ CompleteCanaryFails(p))
  BY <1>1, <1>5 DEF PointCanary, CompleteCanaryFails, Goto
<1>6. CASE q = p /\ ~RegisterModel(p) /\ ~PointCanary(p) /\ ~CompleteCanaryFails(p)
  <2>1. pc'[p] \in {"resolve", "metrics", "gates", "register", "idle"}
    BY <1>1, <1>2, <1>6 DEF Train, ResolveProduction, MetricsFromRegistry,
       CompareWithBootstrap, PassGates, FailGates, RegisterModelFails,
       PointProduction, PointAliasFails, CompleteCanary, RollBackCanary, Goto, Return
  <2> QED BY <1>6, <2>1
<1> QED BY <1>3, <1>4, <1>5, <1>6

\* The registry only grows.
LEMMA VersionsGrow ==
  ASSUME PInv, Next
  PROVE  Len(versions) \in Nat /\ Len(versions') \in {Len(versions), Len(versions) + 1}
<1>1. versions \in Seq(Candidates) /\ Len(versions) \in Nat
  BY VersionTyped DEF PInv, TypeOK
<1>2. versions' = versions \/ \E metrics : versions' = Append(versions, metrics)
  BY DEF Next, Train, ResolveProduction, MetricsFromRegistry, CompareWithBootstrap,
     PassGates, FailGates, RegisterModel, RegisterModelFails, PointProduction,
     PointCanary, PointAliasFails, CompleteCanary, CompleteCanaryFails, RollBackCanary
<1> QED BY <1>1, <1>2

\* No version goes back to an earlier stage.
LEMMA StagesMoveForward ==
  ASSUME PInv, Next
  PROVE  Release!Forward
<1> USE MetricsAssumption
<1>1. Stage' \in [1..MaxVersion -> Release!Stages]
  BY DEF Stage, Release!Stages
<1>2. ASSUME NEW v \in 1..MaxVersion
      PROVE  Release!Rank[Stage[v]] <= Release!Rank[Stage'[v]]
  <2>1. Len(versions) \in Nat /\ Len(versions') \in {Len(versions), Len(versions) + 1}
    BY VersionsGrow
  <2>2. CASE v > Len(versions)
    <3>1. Stage[v] = "absent" /\ Stage'[v] \in Release!Stages
      BY <1>1, <2>2 DEF Stage
    <3> QED BY <3>1 DEF Release!Rank, Release!Stages
  <2>3. CASE ~(v > Len(versions))
    <3>1. ~(v > Len(versions'))
      BY <2>1, <2>3
    <3>2. HeldAt(v, "alias")' => HeldAt(v, "alias")
      BY <2>3, HoldersKept DEF HeldAt
    <3>3. HeldAt(v, "trial")' => HeldAt(v, "alias") \/ HeldAt(v, "trial")
      BY HoldersKept DEF HeldAt
    <3>4. Stage[v] = IF HeldAt(v, "alias") THEN "gated"
                     ELSE IF HeldAt(v, "trial") THEN "trial" ELSE "ended"
      BY <2>3 DEF Stage
    <3>5. Stage'[v] = IF HeldAt(v, "alias")' THEN "gated"
                      ELSE IF HeldAt(v, "trial")' THEN "trial" ELSE "ended"
      BY <3>1 DEF Stage
    <3> QED BY <3>2, <3>3, <3>4, <3>5 DEF Release!Rank
  <2> QED BY <2>2, <2>3
<1> QED BY <1>1, <1>2 DEF Release!Forward

\* Whoever moves the production alias moves it to the version it holds itself.
LEMMA InstallerHolds ==
  ASSUME PInv, Next, production' # production
  PROVE  production' \in 1..MaxVersion /\ Release!Open(production')
<1> USE MetricsAssumption
<1>1. PICK p \in Promoters : pc[p] \in {"alias", "trial"} /\ production' = job[p].version
  BY DEF Next, Train, ResolveProduction, MetricsFromRegistry, CompareWithBootstrap,
     PassGates, FailGates, RegisterModel, RegisterModelFails, PointProduction,
     PointCanary, PointAliasFails, CompleteCanary, CompleteCanaryFails, RollBackCanary
<1>2. production' \in 1..Len(versions) /\ Len(versions) \in Nat /\ Len(versions) <= MaxVersion
  BY <1>1, VersionTyped DEF PInv, TypeOK, JobsJudged
<1>3. production' \in 1..MaxVersion /\ ~(production' > Len(versions))
  BY <1>2
<1>4. \/ \E q \in Promoters : pc[q] = "alias" /\ job[q].version = production'
      \/ \E q \in Promoters : pc[q] = "trial" /\ job[q].version = production'
  BY <1>1
<1>5. PICK v \in 1..MaxVersion : v = production'
  BY <1>3
<1>6. Stage[v] \in {"gated", "trial"}
  BY <1>3, <1>4, <1>5 DEF Stage, HeldAt
<1> QED BY <1>3, <1>5, <1>6 DEF Release!Open

\* Promotions implement GatedRelease: for any gates, any number of promotions and
\* canaries at once and whatever calls of the registry fail, production moves only
\* to a version whose own promotion is still under way, and no version whose
\* promotion is over is taken up again.
THEOREM Refinement == Spec => ImplementsGatedRelease
<1>1. Init => Release!Init
  <2> SUFFICES ASSUME Init PROVE Release!Init
    OBVIOUS
  <2>1. \A v \in 1..MaxVersion : v > Len(versions)
    BY MetricsAssumption DEF Init
  <2> QED BY <2>1 DEF Init, Release!Init, Stage
<1>2. PInv /\ [Next]_vars => [Release!Next]_<<Stage, production>>
  <2> SUFFICES ASSUME PInv, [Next]_vars PROVE [Release!Next]_<<Stage, production>>
    OBVIOUS
  <2>1. CASE UNCHANGED vars
    BY <2>1 DEF vars, Stage, HeldAt
  <2>2. CASE Next /\ production' = production
    BY <2>2, StagesMoveForward DEF Release!Next, Release!Progress
  <2>3. CASE Next /\ production' # production
    <3>1. production' \in 1..MaxVersion /\ Release!Open(production') /\ Release!Forward
      BY <2>3, InstallerHolds, StagesMoveForward
    <3> QED BY <3>1 DEF Release!Next, Release!Install
  <2> QED BY <2>1, <2>2, <2>3
<1> QED BY <1>1, <1>2, Judged, PTL DEF Spec, ImplementsGatedRelease, Release!Spec

\* A version whose promotion is over and that is not production never is again:
\* neither a canary completed twice, nor an answer that comes late, nor a
\* rollback brings it back.
THEOREM ReplacedForGood ==
  ASSUME NEW CONSTANT v \in 1..MaxVersion
  PROVE  Spec => []((Stage[v] = "ended" /\ production # v) => [](production # v))
<1> DEFINE Over == Stage[v] = "ended" /\ production # v
<1>1. Over /\ PInv /\ [Next]_vars => Over'
  <2> SUFFICES ASSUME Over, PInv, [Next]_vars PROVE Over'
    OBVIOUS
  <2>1. CASE UNCHANGED vars
    BY <2>1 DEF vars, Stage, HeldAt
  <2>2. CASE Next
    <3>1. Release!Rank[Stage[v]] <= Release!Rank[Stage'[v]] /\ Stage'[v] \in Release!Stages
      BY <2>2, StagesMoveForward, MetricsAssumption DEF Release!Forward
    <3>2. Stage'[v] = "ended"
      BY <3>1 DEF Release!Rank, Release!Stages
    <3>3. production' # v
      BY <2>2, InstallerHolds DEF Release!Open
    <3> QED BY <3>2, <3>3
  <2> QED BY <2>1, <2>2
<1>2. Over => production # v
  OBVIOUS
<1> HIDE DEF Over
<1>3. Spec => [](Over => [](production # v))
  BY <1>1, <1>2, Judged, PTL DEF Spec
<1> QED BY <1>3 DEF Over
=============================================================================
