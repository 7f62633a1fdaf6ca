---------------------------- MODULE ServingProofs ----------------------------
(***************************************************************************)
(* What an answer of the API rests on, for any number of handler threads,  *)
(* versions, buckets and allocations.                                      *)
(*                                                                         *)
(* Startup leaves two things that must agree, a model and a router; after  *)
(* it, only the router changes, and only towards less traffic once it was  *)
(* stopped.  The invariant therefore splits into what holds of the pair    *)
(* (RouterHasClient, ThresholdOfVersion, StopLasts) and what each thread   *)
(* has taken from it.                                                      *)
(***************************************************************************)
EXTENDS Serving, TLAPS

LEMMA InitInvariant == Init => SInv
<1> SUFFICES ASSUME Init PROVE SInv
  OBVIOUS
<1> USE DEF Init, SInv
<1>1. model \in Model /\ router \in Router
  BY DEF NoModel, Model, FreshRouter, Router, MaybeVersion, Fallback, None, MaxTraffic
<1>2. Idle \in Thread
  BY DEF Idle, Thread, MaybeVersion, Fallback, Tiers
<1>3. TypeOK
  BY <1>1, <1>2 DEF TypeOK, Stages, Loading
<1>4. RouterHasClient /\ ThresholdOfVersion /\ StopLasts
  BY DEF RouterHasClient, ThresholdOfVersion, StopLasts, NoModel, FreshRouter
<1>5. ThreadsRunOnModel /\ StopIsImmediate /\ CanaryNeverMasked /\ IncumbentOwnThreshold
  BY DEF Idle, ThreadsRunOnModel, StopIsImmediate, CanaryNeverMasked, IncumbentOwnThreshold
<1> QED BY <1>3, <1>4, <1>5

\* What the environment of the process does touches nothing the process holds.
LEMMA WorldKeeps ==
  ASSUME SInv, NEW a \in Tiers, NEW v \in MaybeVersion, MoveAlias(a, v) \/ Redeploy(a, v)
  PROVE  SInv'
BY DEF MoveAlias, Redeploy, SInv, TypeOK, control, config, RouterHasClient,
       ThresholdOfVersion, ThreadsRunOnModel, StopLasts, StopIsImmediate,
       CanaryNeverMasked, IncumbentOwnThreshold

LEMMA ProbeKeeps ==
  ASSUME SInv, Probe
  PROVE  SInv'
BY DEF Probe, CanScore, SInv, TypeOK, control, config, world, RouterHasClient,
       ThresholdOfVersion, ThreadsRunOnModel, StopLasts, StopIsImmediate,
       CanaryNeverMasked, IncumbentOwnThreshold

\* While the model is being loaded no thread has a request, so only the draft
\* has to be looked at.
LEMMA LoadKeeps ==
  ASSUME SInv, NEW from \in Loading, NEW to \in (Loading \ {"resolve"}) \cup {"failed"},
         NEW loaded \in Model, LoadStep(from, to, loaded),
         loaded.threshold # Fallback => loaded.threshold = loaded.version,
         to = "start" => (loaded.client <=> configured > 0)
  PROVE  SInv'
<1> USE DEF LoadStep, SInv, control, config, world
<1>1. TypeOK'
  BY DEF TypeOK, Stages
<1>2. stage # "serving" /\ stage' # "serving"
  BY DEF Loading
<1>3. RouterHasClient' /\ ThresholdOfVersion' /\ StopLasts' /\ StopIsImmediate'
  BY <1>2 DEF RouterHasClient, ThresholdOfVersion, StopLasts, StopIsImmediate
<1>4. \A w \in Threads : thread'[w].at = "idle"
  BY <1>2 DEF ThreadsRunOnModel
<1>5. ThreadsRunOnModel' /\ CanaryNeverMasked' /\ IncumbentOwnThreshold'
  BY <1>4 DEF ThreadsRunOnModel, CanaryNeverMasked, IncumbentOwnThreshold
<1> QED BY <1>1, <1>3, <1>5

\* Every step of ModelService.load is such a step: a threshold is only ever read
\* for the version that was resolved.
LEMMA StartupKeeps ==
  ASSUME SInv, ResolveProduction \/ LoadFails \/ ReadTags \/ LoadPipeline \/ BuildCanary
  PROVE  SInv'
<1> USE DEF SInv, TypeOK, Model, MaybeVersion, ThresholdOfVersion, Tiers, Loading
<1>1. CASE ResolveProduction
  <2> DEFINE found == [model EXCEPT !.version = alias["production"]]
  <2>1. found \in Model /\ stage = "resolve" /\ found.threshold = Fallback
    BY <1>1 DEF ResolveProduction, LoadStep
  <2>2. LoadStep("resolve", "tags", found)
    BY <1>1 DEF ResolveProduction
  <2> HIDE DEF found
  <2> QED BY <2>1, <2>2, LoadKeeps
<1>2. CASE LoadFails
  <2>1. NoModel \in Model /\ NoModel.threshold = Fallback
    BY DEF NoModel, Fallback
  <2> QED BY <1>2, <2>1, LoadKeeps DEF LoadFails
<1>3. CASE ReadTags
  <2>1. PICK threshold \in {Fallback} \cup ({model.version} \cap Tagged) :
          LoadStep("tags", AfterTags, [model EXCEPT !.threshold = threshold])
    BY <1>3 DEF ReadTags
  <2> DEFINE read == [model EXCEPT !.threshold = threshold]
  <2>2. read \in Model /\ (read.threshold # Fallback => read.threshold = read.version)
    BY DEF Fallback
  <2>3. LoadStep("tags", AfterTags, read) /\ AfterTags \in {"canary", "pipeline"}
    BY <2>1 DEF AfterTags
  <2> HIDE DEF read
  <2> QED BY <2>2, <2>3, LoadKeeps
<1>4. CASE LoadPipeline
  <2> DEFINE loaded == [model EXCEPT !.pipeline = alias["production"]]
  <2>1. loaded \in Model /\ (loaded.threshold # Fallback => loaded.threshold = loaded.version)
    OBVIOUS
  <2>2. LoadStep("pipeline", "canary", loaded)
    BY <1>4 DEF LoadPipeline
  <2> HIDE DEF loaded
  <2> QED BY <2>1, <2>2, LoadKeeps
<1>5. CASE BuildCanary
  <2>1. PICK candidate \in {None, alias["canary"]} :
          LoadStep("canary", "start",
                   [model EXCEPT !.client = configured > 0, !.candidate = candidate])
    BY <1>5 DEF BuildCanary
  <2> DEFINE built == [model EXCEPT !.client = configured > 0, !.candidate = candidate]
  <2>2. configured \in Nat
    BY ServingAssumption DEF MaxTraffic
  <2>3. candidate \in MaybeVersion /\ (configured > 0) \in BOOLEAN
    BY <2>2
  <2>6. built \in Model
    BY <2>3
  <2>7. built.threshold = model.threshold /\ built.version = model.version
    OBVIOUS
  <2>4. built.client <=> configured > 0
    OBVIOUS
  <2>5. LoadStep("canary", "start", built)
    BY <2>1
  <2> HIDE DEF built
  <2> QED BY <2>4, <2>5, <2>6, <2>7, LoadKeeps
<1> QED BY <1>1, <1>2, <1>3, <1>4, <1>5

LEMMA StartServingKeeps ==
  ASSUME SInv, StartServing
  PROVE  SInv'
<1>1. configured \in 0..MaxTraffic
  BY ServingAssumption DEF SInv, TypeOK
<1>2. Started(model.candidate, configured) \in Router /\ FreshRouter \in Router
  <2>1. model.candidate \in MaybeVersion
    BY DEF SInv, TypeOK, Model
  <2>2. model.candidate \in Nat
    <3>1. MaybeVersion \subseteq Nat
      BY ServingAssumption DEF MaybeVersion, None
    <3> QED BY <2>1, <3>1
  <2>3. None \in Nat /\ 0 \in 0..MaxTraffic
    BY DEF None, MaxTraffic
  <2> QED BY <1>1, <2>2, <2>3 DEF Started, FreshRouter, Router
<1> USE DEF StartServing, SInv, TypeOK, config, world
<1>3. TypeOK'
  <2>1. stage' \in Stages /\ router' \in Router
    BY <1>2 DEF Stages, Loading
  <2> QED BY <2>1
<1>4. ~halted /\ ~stopping
  BY DEF StopLasts
<1>5. RouterHasClient' /\ ThresholdOfVersion' /\ StopLasts'
  BY <1>4 DEF RouterHasClient, ThresholdOfVersion, StopLasts, Started, FreshRouter
<1>6. \A w \in Threads : thread'[w].at = "idle" /\ ~thread'[w].late
  BY <1>4 DEF ThreadsRunOnModel, StopIsImmediate
<1>7. ThreadsRunOnModel' /\ StopIsImmediate' /\ CanaryNeverMasked' /\ IncumbentOwnThreshold'
  BY <1>6 DEF ThreadsRunOnModel, StopIsImmediate, CanaryNeverMasked, IncumbentOwnThreshold
<1> QED BY <1>3, <1>5, <1>7

LEMMA RestartKeeps ==
  ASSUME SInv, NEW percent \in Allocations, Restart(percent)
  PROVE  SInv'
<1> USE DEF Restart, SInv, TypeOK, world
<1>1. NoModel \in Model /\ FreshRouter \in Router /\ Idle \in Thread
  BY DEF NoModel, Model, FreshRouter, Router, MaybeVersion, Fallback, None, MaxTraffic,
         Idle, Thread, Tiers
<1>2. TypeOK'
  BY <1>1 DEF Stages, Loading
<1>3. RouterHasClient' /\ ThresholdOfVersion' /\ StopLasts'
  BY DEF RouterHasClient, ThresholdOfVersion, StopLasts, NoModel, FreshRouter
<1>4. ThreadsRunOnModel' /\ StopIsImmediate' /\ CanaryNeverMasked' /\ IncumbentOwnThreshold'
  BY DEF Idle, ThreadsRunOnModel, StopIsImmediate, CanaryNeverMasked, IncumbentOwnThreshold
<1> QED BY <1>2, <1>3, <1>4

\* The controller: `enabled` is only ever cleared, and the model stays.
LEMMA ControlKeeps ==
  ASSUME SInv,
         (\E percent \in Allocations : Dial(percent)) \/ BeginStop \/ FinishStop
  PROVE  SInv'
<1> USE DEF SInv, TypeOK, config, world
<1>1. /\ router' \in Router /\ (router'.enabled => router.enabled)
      /\ stopping' \in BOOLEAN /\ halted' \in BOOLEAN
      /\ stopping' \/ halted' => stage = "serving" /\ ~router'.enabled
      /\ halted => halted'
      /\ UNCHANGED <<world, config, stage, model, thread, ready>>
  <2>1. CASE \E percent \in Allocations : Dial(percent)
    <3>1. PICK percent \in Allocations : Dial(percent)
      BY <2>1
    <3>2. percent \in 0..MaxTraffic
      BY ServingAssumption
    <3> QED BY <3>1, <3>2 DEF Dial, Dialled, Stopped, ValidTraffic, MaxTraffic, Router, StopLasts
  <2>2. CASE BeginStop
    BY <2>2 DEF BeginStop, Router, StopLasts
  <2>3. CASE FinishStop
    <3>1. router' = [router EXCEPT !.traffic = 0] /\ 0 \in 0..MaxTraffic
      BY <2>3 DEF FinishStop, MaxTraffic
    <3>2. router' \in Router /\ router'.enabled = router.enabled
      BY <3>1 DEF Router
    <3> QED BY <2>3, <3>2 DEF FinishStop, StopLasts
  <2> QED BY <2>1, <2>2, <2>3
<1>2. TypeOK'
  BY <1>1
<1>3. RouterHasClient' /\ ThresholdOfVersion' /\ StopLasts'
  BY <1>1 DEF RouterHasClient, ThresholdOfVersion, StopLasts
<1>4. ThreadsRunOnModel' /\ StopIsImmediate' /\ CanaryNeverMasked' /\ IncumbentOwnThreshold'
  BY <1>1 DEF ThreadsRunOnModel, StopIsImmediate, CanaryNeverMasked, IncumbentOwnThreshold
<1> QED BY <1>2, <1>3, <1>4

\* A handler's step changes what that thread knows and nothing else, so it is
\* enough that the new knowledge is sound.
LEMMA ThreadKeeps ==
  ASSUME SInv, NEW w \in Threads, NEW from, NEW to \in Thread, ThreadStep(w, from, to),
         to.at # "idle" => stage = "serving",
         to.at \in {"share", "score", "answered"} /\ to.routed = "canary" => model.client,
         to.at = "share" => model.client,
         to.at \in {"route", "share"} => to.routed = "production",
         to.late => halted /\ to.routed = "production" /\ to.at # "share",
         to.at = "answered" => to.scorer = to.routed /\ to.label = to.routed,
         to.at = "answered" /\ to.label = "production"
             => to.threshold \in {Fallback, to.version}
  PROVE  SInv'
<1> USE DEF ThreadStep, SInv, TypeOK, config, world, control
<1>1. TypeOK' /\ thread' = [thread EXCEPT ![w] = to]
  OBVIOUS
<1>2. \A u \in Threads : thread'[u] = IF u = w THEN to ELSE thread[u]
  BY <1>1
<1>3. RouterHasClient' /\ ThresholdOfVersion' /\ StopLasts'
  BY DEF RouterHasClient, ThresholdOfVersion, StopLasts
<1>4. ThreadsRunOnModel'
  BY <1>2 DEF ThreadsRunOnModel
<1>5. StopIsImmediate'
  BY <1>2 DEF StopIsImmediate
<1>6. CanaryNeverMasked'
  BY <1>2 DEF CanaryNeverMasked
<1>7. IncumbentOwnThreshold'
  BY <1>2 DEF IncumbentOwnThreshold
<1> QED BY <1>1, <1>3, <1>4, <1>5, <1>6, <1>7

LEMMA HandlingKeeps ==
  ASSUME SInv, NEW w \in Threads, Handling(w)
  PROVE  SInv'
<1> DEFINE t == thread[w]
<1>0. t \in Thread
  BY DEF SInv, TypeOK
<1> USE DEF SInv
<1>1. CASE \E key \in Keys : Receive(w, key)
  <2>1. PICK key \in Keys : Receive(w, key)
    BY <1>1
  <2> DEFINE to == [Idle EXCEPT !.at = "route", !.key = key, !.late = halted]
  <2>2. to \in Thread
    BY DEF TypeOK, Idle, Thread, MaybeVersion, Fallback, Tiers
  <2>3. /\ to.at = "route" /\ to.routed = "production" /\ to.late = halted
    BY DEF Idle
  <2>4. stage = "serving" /\ ThreadStep(w, {"idle", "answered", "refused"}, to)
    BY <2>1 DEF Receive
  <2> HIDE DEF to
  <2> QED BY <2>2, <2>3, <2>4, ThreadKeeps
<1>2. CASE ReadActive(w)
  <2> DEFINE to == [t EXCEPT !.at = IF Active(router) THEN "share" ELSE "score"]
  <2>1. ThreadStep(w, {"route"}, to) /\ t.at = "route" /\ stage = "serving"
    BY <1>2 DEF ReadActive, ThreadStep, ThreadsRunOnModel
  <2>2. to \in Thread
    BY <1>0 DEF Thread
  <2>3. /\ to.at = IF Active(router) THEN "share" ELSE "score"
        /\ to.routed = t.routed /\ to.late = t.late
    BY <1>0 DEF Thread
  <2>4. Active(router) => model.client /\ ~t.late
    BY <2>1 DEF Active, RouterHasClient, StopIsImmediate, StopLasts
  <2>5. t.routed = "production" /\ (t.late => halted)
    BY <2>1 DEF ThreadsRunOnModel, StopIsImmediate
  <2> HIDE DEF to
  <2> QED BY <2>1, <2>2, <2>3, <2>4, <2>5, ThreadKeeps
<1>3. CASE ReadShare(w)
  <2> DEFINE to == [t EXCEPT !.at = "score",
                             !.routed = IF t.key < router.traffic
                                        THEN "canary" ELSE "production"]
  <2>1. ThreadStep(w, {"share"}, to) /\ t.at = "share"
    BY <1>3 DEF ReadShare, ThreadStep
  <2>2. to \in Thread /\ to.at = "score" /\ to.late = t.late
    BY <1>0 DEF Thread, Tiers
  <2>3. stage = "serving" /\ model.client /\ ~t.late
    BY <2>1 DEF ThreadsRunOnModel, StopIsImmediate
  <2> HIDE DEF to
  <2> QED BY <2>1, <2>2, <2>3, ThreadKeeps
<1>4. CASE Score(w)
  <2> DEFINE scorer == ScoringTier(t.routed)
             to == Responding(w, scorer)
  <2>1. ThreadStep(w, {"score"}, to) /\ t.at = "score"
    BY <1>4 DEF Score, ThreadStep
  <2>2. stage = "serving" /\ (t.routed = "canary" => model.client)
    BY <2>1 DEF ThreadsRunOnModel
  <2>3. t.routed \in Tiers /\ scorer = t.routed
    BY <1>0, <2>2 DEF Thread, Tiers, ScoringTier
  <2>4. ScoreOf(scorer) \in MaybeVersion
    BY <2>3 DEF ScoreOf, TypeOK, Model
  <2>5. /\ to = [t EXCEPT !.at = "answered", !.scorer = scorer, !.score = ScoreOf(scorer),
                         !.label = t.routed, !.threshold = model.threshold,
                         !.version = IF t.routed = "canary" THEN model.candidate
                                                            ELSE model.version]
    BY <2>2, <2>3 DEF Responding, Tiers
  <2>6. to \in Thread
    BY <1>0, <2>3, <2>4, <2>5 DEF Thread, TypeOK, Model
  <2>7. /\ to.at = "answered" /\ to.routed = t.routed /\ to.late = t.late
        /\ to.scorer = t.routed /\ to.label = t.routed /\ to.threshold = model.threshold
        /\ t.routed # "canary" => to.version = model.version
    BY <1>0, <2>3, <2>5 DEF Thread
  <2>8. t.late => halted /\ t.routed = "production"
    BY DEF StopIsImmediate
  <2>9. model.threshold \in {Fallback, model.version}
    BY DEF ThresholdOfVersion
  <2> HIDE DEF to
  <2> QED BY <2>1, <2>2, <2>6, <2>7, <2>8, <2>9, ThreadKeeps
<1>5. CASE Refuse(w)
  <2> DEFINE to == [t EXCEPT !.at = "refused"]
  <2>1. ThreadStep(w, {"score"}, to) /\ t.at = "score"
    BY <1>5 DEF Refuse, ThreadStep
  <2>2. to \in Thread /\ to.at = "refused" /\ to.late = t.late /\ to.routed = t.routed
    BY <1>0 DEF Thread
  <2>3. stage = "serving" /\ (t.late => halted /\ t.routed = "production")
    BY <2>1 DEF ThreadsRunOnModel, StopIsImmediate
  <2> HIDE DEF to
  <2> QED BY <2>1, <2>2, <2>3, ThreadKeeps
<1> QED BY <1>1, <1>2, <1>3, <1>4, <1>5 DEF Handling

LEMMA StepKeeps == SInv /\ [Next]_vars => SInv'
<1> SUFFICES ASSUME SInv, [Next]_vars PROVE SInv'
  OBVIOUS
<1>1. CASE UNCHANGED vars
  BY <1>1 DEF vars, world, config, control, SInv, TypeOK, RouterHasClient,
       ThresholdOfVersion, ThreadsRunOnModel, StopLasts, StopIsImmediate,
       CanaryNeverMasked, IncumbentOwnThreshold
<1>2. CASE \E a \in Tiers, v \in MaybeVersion : MoveAlias(a, v) \/ Redeploy(a, v)
  BY <1>2, WorldKeeps
<1>3. CASE \E percent \in Allocations : Restart(percent)
  BY <1>3, RestartKeeps
<1>4. CASE (\E percent \in Allocations : Dial(percent)) \/ BeginStop \/ FinishStop
  BY <1>4, ControlKeeps
<1>5. CASE Startup
  BY <1>5, StartupKeeps, StartServingKeeps DEF Startup
<1>6. CASE Probe
  BY <1>6, ProbeKeeps
<1>7. CASE \E w \in Threads : Handling(w)
  BY <1>7, HandlingKeeps
<1> QED BY <1>1, <1>2, <1>3, <1>4, <1>5, <1>6, <1>7 DEF Next

\* The invariant holds in every reachable state of an API process.
THEOREM Answers == Spec => []SInv
BY InitInvariant, StepKeeps, PTL DEF Spec

\* What is routed to the canary is scored by the canary or refused, never
\* answered by production in its name (predict_with, _model_info).
THEOREM NeverMasked == Spec => []CanaryNeverMasked
<1>1. SInv => CanaryNeverMasked
  BY DEF SInv
<1> QED BY <1>1, Answers, PTL

\* Once stop has returned, no later request reaches the canary, however the two
\* assignments of stop and the two readings of tier_for interleave.
THEOREM ImmediateStop == Spec => []StopIsImmediate
<1>1. SInv => StopIsImmediate
  BY DEF SInv
<1> QED BY <1>1, Answers, PTL
=============================================================================
