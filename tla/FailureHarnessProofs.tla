------------------------ MODULE FailureHarnessProofs ------------------------
(***************************************************************************)
(* What a run of the failure harness may leave behind, and what a scenario *)
(* that passed has shown, for any scales, allocations and number of        *)
(* scenarios.                                                              *)
(*                                                                         *)
(* The first argument is bookkeeping: as long as the run goes on, what     *)
(* differs from the cluster as it was found is written down with the scale *)
(* it was found at (Accounted).  A way out of the run with something still *)
(* written down is then one on which a scale or a restore raised.  That a  *)
(* Deployment is written down at its first scale, and not at the scale the *)
(* harness gave it, is why SavedInOrder is needed: no scenario scales the  *)
(* same Deployment twice.                                                  *)
(*                                                                         *)
(* The second rests on it.  What a wait saw serving may have changed by    *)
(* the time the scenario concludes: pods still come and go.  They do not   *)
(* go, because by then every Deployment is scaled as it was found, and one *)
(* that ran was found running (ScalesKnown): both invariants are needed    *)
(* for PassIsSound.                                                        *)
(***************************************************************************)
EXTENDS FailureHarness, TLAPS

\* A scenario scales each Deployment once.
LEMMA TargetsDistinct ==
  ASSUME NEW s \in Scenarios
  PROVE  /\ Targets[s] \in Seq(Deployments)
         /\ \A i, j \in DOMAIN Targets[s] : Targets[s][i] = Targets[s][j] => i = j
         /\ Scaled(s) \subseteq Deployments
<1> USE DEF Deployments
<1>1. CASE s = "telemetry"
  <2>1. Targets[s] = <<"prometheus", "jaeger">>
    BY <1>1 DEF Targets
  <2> QED BY <2>1 DEF Scaled
<1>2. CASE s = "model_serving"
  <2>1. Targets[s] = <<"predictor">>
    BY <1>2 DEF Targets
  <2> QED BY <2>1 DEF Scaled
<1>3. CASE s = "mlflow"
  <2>1. Targets[s] = <<"mlflow">>
    BY <1>3 DEF Targets
  <2> QED BY <2>1 DEF Scaled
<1>4. CASE s = "canary"
  <2>1. Targets[s] = <<"canary">>
    BY <1>4 DEF Targets
  <2> QED BY <2>1 DEF Scaled
<1>5. CASE s \in {"restart", "bad_candidate"}
  <2>1. Targets[s] = <<>>
    BY <1>5 DEF Targets
  <2> QED BY <2>1 DEF Scaled
<1> QED BY <1>1, <1>2, <1>3, <1>4, <1>5 DEF Scenarios

\* Most scenarios scale one Deployment, if any.
LEMMA SoleTarget ==
  ASSUME NEW s \in Scenarios, Len(Targets[s]) < 2, NEW d \in Scaled(s), NEW e \in Scaled(s)
  PROVE  d = e
<1>1. PICK i \in DOMAIN Targets[s], j \in DOMAIN Targets[s] :
        d = Targets[s][i] /\ e = Targets[s][j]
  BY DEF Scaled
<1>2. i = j
  BY TargetsDistinct
<1> QED BY <1>1, <1>2

LEMMA InitInvariant == Init => HInv
<1> SUFFICES ASSUME Init PROVE HInv
  OBVIOUS
<1> USE HarnessAssumption DEF Init
<1>1. desired \in [Deployments -> Nat] /\ Changed = {}
  BY DEF Changed
<1>2. TypeOK
  <2>1. saved \in Seq(ScaleState) /\ report \in Seq([scenario : Scenarios, passed : BOOLEAN])
    OBVIOUS
  <2>2. evidence \in Evidence
    BY DEF Evidence, Fresh
  <2>3. up \in [Deployments -> BOOLEAN]
    OBVIOUS
  <2>4. began \in [scales : [Deployments -> Nat], store : Stores]
    BY <1>1
  <2>5. pc \in Labels /\ scenario \in Scenarios
    BY DEF Labels, Scenarios
  <2>6. setting \in Nat /\ alias \in Versions
    OBVIOUS
  <2> QED BY <1>1, <2>1, <2>2, <2>3, <2>4, <2>5, <2>6 DEF TypeOK
<1> QED BY <1>1, <1>2 DEF HInv, Accounted, SavedInOrder, OneScenarioAtATime,
           WholeBetweenScenarios, LeftDownIsRefused, StoreRestored

-----------------------------------------------------------------------------
(* Steps that leave the scales alone. *)

\* Neither scales nor what is written down change; the run goes on, to a place
\* where as much may be written down.
LEMMA BookkeepingKept ==
  ASSUME HInv, UNCHANGED <<desired, saved, began, scenario>>, refused' = refused,
         TypeOK', SavedInOrder', pc # "over", pc' # "over", pc' # "idle",
         pc' \in {"choose", "before"} => saved = <<>>
  PROVE  HInv'
<1> USE DEF HInv
<1>1. Changed' = Changed
  BY DEF Changed
<1>2. Accounted' /\ OneScenarioAtATime'
  BY <1>1 DEF Accounted, OneScenarioAtATime
<1>3. WholeBetweenScenarios'
  BY <1>1 DEF WholeBetweenScenarios, Accounted
<1> QED BY <1>2, <1>3 DEF LeftDownIsRefused, StoreRestored

\* The run is left with nothing written down.
LEMMA LeaveWhole ==
  ASSUME HInv, Leave, UNCHANGED <<desired, saved, began, scenario, refused>>, TypeOK',
         saved = <<>>, pc # "over"
  PROVE  HInv'
<1> USE DEF HInv
<1>1. Changed' = Changed /\ Changed = {}
  BY DEF Changed, Accounted
<1> QED BY <1>1 DEF Leave, Accounted, SavedInOrder, OneScenarioAtATime,
           WholeBetweenScenarios, LeftDownIsRefused, StoreRestored

\* The run is left because the scale or the restore of a Deployment of the scenario
\* raised: where there is no other, nothing else can be left down.
LEMMA LeaveRefused ==
  ASSUME HInv, Leave, UNCHANGED <<began, scenario>>, TypeOK',
         Changed' \subseteq Scaled(scenario), refused' \cap Scaled(scenario) # {}
  PROVE  HInv'
<1>1. Len(Targets[scenario]) < 2 => Changed' \subseteq refused'
  BY SoleTarget DEF HInv, TypeOK
<1> QED BY <1>1 DEF HInv, Leave, Accounted, SavedInOrder, OneScenarioAtATime,
       WholeBetweenScenarios, LeftDownIsRefused, StoreRestored

-----------------------------------------------------------------------------
(* Scaling and restoring. *)

LEMMA ScaleKeeps ==
  ASSUME HInv, Scale
  PROVE  HInv'
<1> USE DEF HInv, Scale
<1> DEFINE d == NextTarget
           n == Len(saved)
           state == [deployment |-> d, replicas |-> desired[d]]
<1>1. /\ scenario \in Scenarios /\ n \in Nat /\ n < Len(Targets[scenario])
      /\ Targets[scenario] \in Seq(Deployments) /\ saved \in Seq(ScaleState)
  BY TargetsDistinct DEF TypeOK, SavedInOrder
<1>2. n + 1 \in DOMAIN Targets[scenario] /\ d \in Deployments /\ d \in Scaled(scenario)
  BY <1>1 DEF NextTarget, Scaled
<1>3. d \notin Changed
  <2> SUFFICES ASSUME d \in Changed PROVE FALSE
    OBVIOUS
  <2>1. PICK i \in DOMAIN saved : saved[i].deployment = d
    BY DEF Accounted
  <2>2. i \in DOMAIN Targets[scenario] /\ Targets[scenario][i] = Targets[scenario][n + 1] /\ i # n + 1
    BY <1>1, <2>1 DEF SavedInOrder, NextTarget
  <2> QED BY <1>1, <1>2, <2>2, TargetsDistinct
<1>4. state \in ScaleState /\ state.replicas = began.scales[d]
  BY <1>2, <1>3 DEF ScaleState, TypeOK, Changed
<1>5. saved' \in Seq(ScaleState) /\ Len(saved') = n + 1 /\ saved'[n + 1] = state
        /\ \A i \in DOMAIN saved : saved'[i] = saved[i]
  BY <1>1, <1>4
<1>6. TypeOK'
  BY <1>1, <1>2, <1>5 DEF TypeOK, ScaledTo, Labels, history
<1>7. Changed' \subseteq Changed \cup {d}
  BY DEF Changed, ScaledTo, TypeOK, history
<1> HIDE DEF d, state
<1>8. Accounted'
  <2>1. DOMAIN saved' = DOMAIN saved \cup {n + 1}
    BY <1>1, <1>5
  <2>2. \A e \in Changed' : \E i \in DOMAIN saved' : saved'[i].deployment = e
    <3> SUFFICES ASSUME NEW e \in Changed'
                 PROVE  \E i \in DOMAIN saved' : saved'[i].deployment = e
      OBVIOUS
    <3>1. CASE e = d
      BY <1>5, <2>1, <3>1 DEF state
    <3>2. CASE e \in Changed
      BY <1>5, <2>1, <3>2 DEF Accounted
    <3> QED BY <1>7, <3>1, <3>2
  <2>3. \A i \in DOMAIN saved' : /\ saved'[i].deployment \in Scaled(scenario)
                                 /\ saved'[i].replicas = began.scales[saved'[i].deployment]
    <3> SUFFICES ASSUME NEW i \in DOMAIN saved'
                 PROVE  /\ saved'[i].deployment \in Scaled(scenario)
                        /\ saved'[i].replicas = began.scales[saved'[i].deployment]
      OBVIOUS
    <3>1. CASE i = n + 1
      BY <1>2, <1>4, <1>5, <3>1 DEF state
    <3>2. CASE i \in DOMAIN saved
      BY <1>5, <3>2 DEF Accounted
    <3> QED BY <2>1, <3>1, <3>2
  <2> QED BY <2>2, <2>3 DEF Accounted, history
<1>9. SavedInOrder'
  <2>1. Len(saved') # 0 /\ saved' # <<>>
    BY <1>1, <1>5
  <2>2. \A i \in DOMAIN saved' : saved'[i].deployment = Targets[scenario][i]
    BY <1>1, <1>5 DEF SavedInOrder, NextTarget, d, state
  <2> QED BY <2>1, <2>2 DEF SavedInOrder
<1>10. OneScenarioAtATime'
  BY <1>2, <1>7 DEF OneScenarioAtATime
<1> QED BY <1>6, <1>8, <1>9, <1>10 DEF WholeBetweenScenarios, LeftDownIsRefused, StoreRestored

LEMMA ScaleFailsKeeps ==
  ASSUME HInv, ScaleFails
  PROVE  HInv'
<1> USE DEF HInv, ScaleFails
<1>1. /\ scenario \in Scenarios /\ Len(saved) \in Nat
      /\ Len(saved) < Len(Targets[scenario]) /\ Targets[scenario] \in Seq(Deployments)
  BY TargetsDistinct DEF TypeOK, SavedInOrder
<1>2. NextTarget \in Deployments /\ NextTarget \in Scaled(scenario)
  BY <1>1 DEF NextTarget, Scaled
<1>3. TypeOK'
  <2>1. desired' \in [Deployments -> Nat]
    <3>1. desired \in [Deployments -> Nat] /\ ScaledTo(NextTarget, 0) \in [Deployments -> Nat]
      BY DEF ScaledTo, TypeOK
    <3> QED BY <3>1
  <2>2. refused' \subseteq Deployments /\ pc' \in Labels /\ store' \in Stores
    BY <1>2 DEF TypeOK, Leave, Labels
  <2> QED BY <2>1, <2>2 DEF TypeOK
<1>4. Changed' \subseteq Changed \cup {NextTarget}
  BY DEF Changed, ScaledTo, TypeOK
<1>5. Changed' \subseteq Scaled(scenario)
  BY <1>2, <1>4 DEF OneScenarioAtATime
<1>6. NextTarget \in refused' \cap Scaled(scenario)
  BY <1>2
<1> QED BY <1>3, <1>5, <1>6, LeaveRefused

\* The Deployment restored is no longer changed, and nothing else is.
LEMMA RestoredShrinks ==
  ASSUME HInv, pc = "restore", desired' = Restored, began' = began
  PROVE  /\ Head(saved) \in ScaleState /\ saved # <<>> /\ 1 \in DOMAIN saved
         /\ Restored \in [Deployments -> Nat]
         /\ Changed' \subseteq Changed \ {Head(saved).deployment}
<1> USE DEF HInv
<1>1. saved # <<>> /\ saved \in Seq(ScaleState)
  BY DEF SavedInOrder, TypeOK
<1>2. Head(saved) \in ScaleState /\ 1 \in DOMAIN saved /\ Head(saved) = saved[1]
  BY <1>1
<1>3. Head(saved).deployment \in Deployments
        /\ Head(saved).replicas = began.scales[Head(saved).deployment]
  BY <1>2 DEF Accounted, ScaleState
<1>4. Restored \in [Deployments -> Nat]
  BY <1>2, <1>3 DEF Restored, ScaledTo, TypeOK, ScaleState
<1>5. Changed' \subseteq Changed \ {Head(saved).deployment}
  BY <1>3 DEF Changed, Restored, ScaledTo, TypeOK
<1> QED BY <1>1, <1>2, <1>4, <1>5

LEMMA RestoreKeeps ==
  ASSUME HInv, Restore
  PROVE  HInv'
<1> USE DEF HInv, Restore
<1>1. /\ Head(saved) \in ScaleState /\ saved # <<>> /\ Restored \in [Deployments -> Nat]
      /\ Changed' \subseteq Changed \ {Head(saved).deployment}
  BY RestoredShrinks DEF history
<1>2. saved \in Seq(ScaleState) /\ saved' \in Seq(ScaleState) /\ Len(saved') = Len(saved) - 1
        /\ Len(saved) \in Nat \ {0} /\ Head(saved) = saved[1]
        /\ \A i \in DOMAIN saved' : i + 1 \in DOMAIN saved /\ saved'[i] = saved[i + 1]
  BY <1>1 DEF TypeOK
<1>3. TypeOK'
  BY <1>1, <1>2 DEF TypeOK, Labels, history
<1>4. Accounted'
  <2>1. \A e \in Changed' : \E i \in DOMAIN saved' : saved'[i].deployment = e
    <3> SUFFICES ASSUME NEW e \in Changed'
                 PROVE  \E i \in DOMAIN saved' : saved'[i].deployment = e
      OBVIOUS
    <3>1. PICK j \in DOMAIN saved : saved[j].deployment = e
      BY <1>1 DEF Accounted
    <3>2. j # 1
      BY <1>1, <1>2, <3>1
    <3>3. j - 1 \in DOMAIN saved' /\ saved'[j - 1] = saved[j]
      BY <1>2, <3>2
    <3> QED BY <3>1, <3>3
  <2>2. \A i \in DOMAIN saved' : /\ saved'[i].deployment \in Scaled(scenario)
                                 /\ saved'[i].replicas = began.scales[saved'[i].deployment]
    BY <1>2 DEF Accounted
  <2> QED BY <2>1, <2>2 DEF Accounted, history
<1>5. SavedInOrder'
  <2>1. CASE Len(saved) > 1
    <3> DEFINE tail == saved'
    <3>3. Len(tail) = Len(saved) - 1 /\ Len(saved) \in Nat
      BY <1>2
    <3> HIDE DEF tail
    <3>4. Len(tail) # 0
      BY <2>1, <3>3
    <3>1. saved' # <<>>
      BY <3>4 DEF tail
    <3>2. pc' = "restore" /\ Targets[scenario] # <<>> /\ scenario' = scenario
      BY <2>1 DEF SavedInOrder
    <3> QED BY <3>1, <3>2 DEF SavedInOrder
  <2>2. CASE Len(saved) = 1
    <3>1. Len(saved') = 0
      BY <1>2, <2>2
    <3>2. saved' = <<>>
      BY <1>2, <3>1
    <3> QED BY <2>2, <3>2 DEF SavedInOrder
  <2> QED BY <1>2, <2>1, <2>2
<1>6. OneScenarioAtATime'
  BY <1>1 DEF OneScenarioAtATime
<1> QED BY <1>3, <1>4, <1>5, <1>6 DEF WholeBetweenScenarios, LeftDownIsRefused, StoreRestored

LEMMA RestoreFailsKeeps ==
  ASSUME HInv, RestoreFails
  PROVE  HInv'
<1> USE DEF HInv, RestoreFails
<1>1. saved # <<>> /\ saved \in Seq(ScaleState) /\ Head(saved) \in ScaleState
  BY DEF SavedInOrder, TypeOK
<1>2. desired' \in [Deployments -> Nat] /\ Changed' \subseteq Changed
  <2>1. CASE desired' = desired
    BY <2>1 DEF TypeOK, Changed
  <2>2. CASE desired' = Restored
    BY <2>2, RestoredShrinks
  <2> QED BY <2>1, <2>2
<1>3. TypeOK'
  BY <1>1, <1>2 DEF TypeOK, Leave, Labels, ScaleState
<1>4. Changed' \subseteq Scaled(scenario)
  BY <1>2 DEF OneScenarioAtATime
<1>5. Head(saved).deployment \in refused' \cap Scaled(scenario)
  <2>1. 1 \in DOMAIN saved /\ Head(saved) = saved[1]
    BY <1>1
  <2> QED BY <2>1 DEF Accounted
<1> QED BY <1>3, <1>4, <1>5, LeaveRefused

-----------------------------------------------------------------------------
(* The cluster and whoever else promotes. *)

LEMMA EnvironmentKeeps ==
  ASSUME HInv, Environment
  PROVE  HInv'
<1> USE DEF HInv
<1>1. UNCHANGED <<desired, store, pc, scenario, saved, raising, evidence, report, began, refused>>
  BY DEF Environment, Settle, RolloutLands, MoveProduction, cluster, history
<1>2. up' \in [Deployments -> BOOLEAN] /\ setting' \in Nat /\ routing' \in Nat
        /\ alias' \in Versions
  <2>1. ASSUME NEW d \in Deployments, Settle(d)
        PROVE  up' \in [Deployments -> BOOLEAN] /\ UNCHANGED <<setting, routing, alias>>
    BY <2>1 DEF Settle, TypeOK
  <2>2. CASE RolloutLands
    BY <2>2 DEF RolloutLands, TypeOK
  <2>3. ASSUME NEW v \in Versions, MoveProduction(v)
        PROVE  alias' \in Versions /\ UNCHANGED <<up, setting, routing>>
    BY <2>3 DEF MoveProduction, cluster
  <2> QED BY <2>1, <2>2, <2>3 DEF Environment, TypeOK
<1>3. TypeOK'
  BY <1>1, <1>2 DEF TypeOK
<1>4. Changed' = Changed
  BY <1>1 DEF Changed
<1> QED BY <1>1, <1>3, <1>4 DEF Accounted, SavedInOrder, OneScenarioAtATime,
           WholeBetweenScenarios, LeftDownIsRefused, StoreRestored

-----------------------------------------------------------------------------
(* The rest of the harness. *)

LEMMA BeginKeeps ==
  ASSUME HInv, Begin
  PROVE  HInv'
<1> USE DEF HInv, Begin
<1>1. TypeOK'
  BY DEF TypeOK, cluster, history, Labels, Stores
<1>2. Changed' = Changed /\ Changed = {}
  BY DEF Changed, WholeBetweenScenarios, cluster, history
<1> QED BY <1>1, <1>2 DEF Accounted, SavedInOrder, OneScenarioAtATime,
           WholeBetweenScenarios, LeftDownIsRefused, StoreRestored, history

\* A new scenario starts in a whole cluster, so whatever it changes is its own.
LEMMA PickKeeps ==
  ASSUME HInv, NEW s \in Scenarios, Pick(s)
  PROVE  HInv'
<1> USE DEF HInv, Pick
<1>1. TypeOK'
  BY DEF TypeOK, cluster, history, Labels, Evidence, Fresh
<1>2. Changed' = Changed /\ Changed = {} /\ saved' = <<>>
  BY DEF Changed, WholeBetweenScenarios, SavedInOrder, cluster, history
<1> QED BY <1>1, <1>2 DEF Accounted, SavedInOrder, OneScenarioAtATime,
           WholeBetweenScenarios, LeftDownIsRefused, StoreRestored, history

LEMMA EndRunKeeps ==
  ASSUME HInv, EndRun \/ NoteBeforeFails \/ FinallyFails \/ Reraise
  PROVE  HInv'
<1> USE DEF HInv
<1>1. Leave /\ UNCHANGED <<cluster, alias, scenario, saved, raising, evidence, report, history>>
  BY DEF EndRun, NoteBeforeFails, FinallyFails, Reraise
<1>2. pc \in {"choose", "before", "serving", "conclude"} /\ saved = <<>>
  BY DEF EndRun, NoteBeforeFails, FinallyFails, Reraise, SavedInOrder
<1>3. TypeOK'
  BY <1>1 DEF TypeOK, Leave, Labels, cluster, history
<1> QED BY <1>1, <1>2, <1>3, LeaveWhole DEF cluster, history

LEMMA NoteBeforeKeeps ==
  ASSUME HInv, NoteBefore
  PROVE  HInv'
<1> USE DEF HInv, NoteBefore
<1>1. evidence' \in Evidence
  BY DEF TypeOK, Readings, Evidence
<1>2. TypeOK'
  BY <1>1 DEF TypeOK, cluster, history, Labels
<1>3. saved = <<>> /\ saved' = <<>> /\ scenario \in Scenarios
  BY DEF SavedInOrder, TypeOK
<1>4. Targets[scenario] # <<>> => Len(Targets[scenario]) > 0
  BY <1>3, TargetsDistinct
<1>5. SavedInOrder'
  BY <1>3, <1>4 DEF SavedInOrder
<1> QED BY <1>2, <1>3, <1>5, BookkeepingKept DEF cluster, history

LEMMA TryKeeps ==
  ASSUME HInv, WaitGone \/ WaitGoneFails \/ Dial \/ DialFails \/ Reset
  PROVE  HInv'
<1> USE DEF HInv
<1>1. pc \in {"gone", "allocate", "rollback", "reset"}
        /\ pc' \in {"allocate", "observe", "reset", "restore"}
  BY DEF WaitGone, WaitGoneFails, Dial, DialFails, Reset, Dialling, RaiseThroughFinally, AfterTry
<1>2. UNCHANGED <<desired, up, alias, store, scenario, saved, evidence, report, began, refused>>
        /\ raising' \in {raising, TRUE}
  BY DEF WaitGone, WaitGoneFails, Dial, DialFails, Reset, RaiseThroughFinally, cluster, history
<1>3. setting' \in Nat /\ routing' \in Nat
  <2>1. DrillTraffic \in Nat
    BY HarnessAssumption DEF DrillTraffic
  <2> QED BY <2>1 DEF WaitGone, WaitGoneFails, Dial, DialFails, Reset, SetTraffic,
             SetTrafficFails, TypeOK, cluster
<1>4. TypeOK'
  BY <1>1, <1>2, <1>3 DEF TypeOK, Labels
<1>5. saved # <<>> /\ Targets[scenario] # <<>>
  BY <1>1 DEF SavedInOrder
<1>6. SavedInOrder'
  BY <1>1, <1>2, <1>5 DEF SavedInOrder
<1> QED BY <1>1, <1>2, <1>4, <1>6, BookkeepingKept

\* What a scenario establishes is a matter of its evidence alone.
LEMMA EvidenceKeeps ==
  ASSUME HInv, Observe \/ RestartBoth \/ RestartFails \/ OfferBadCandidate \/ WaitServing
  PROVE  HInv'
<1> USE DEF HInv
<1>1. UNCHANGED <<desired, up, setting, alias, store, scenario, saved, report, began, refused>>
        /\ raising' \in {raising, TRUE} /\ routing' \in {routing, setting}
  BY DEF Observe, RestartBoth, RestartFails, OfferBadCandidate, WaitServing, cluster, history
<1>2. evidence' \in Evidence
  <2>1. up["predictor"] \in BOOLEAN /\ evidence \in Evidence /\ scenario \in Scenarios
    BY DEF TypeOK, Deployments
  <2>2. CASE Observe
    <3>1. scenario \in {"model_serving", "mlflow", "canary", "telemetry"}
      BY <2>1, <2>2 DEF Observe, Scenarios, Targets
    <3>2. Observations \subseteq BOOLEAN
      BY <2>1, <3>1 DEF Observations, Scorable
    <3> QED BY <2>1, <2>2, <3>2 DEF Observe, Evidence
  <2>3. CASE RestartBoth
    BY <2>1, <2>3 DEF RestartBoth, Evidence
  <2>4. CASE OfferBadCandidate
    BY <2>1, <2>4 DEF OfferBadCandidate, Evidence
  <2>5. CASE WaitServing
    BY <2>1, <2>5 DEF WaitServing, Evidence, Recovered
  <2>6. CASE RestartFails
    BY <2>1, <2>6 DEF RestartFails
  <2> QED BY <2>2, <2>3, <2>4, <2>5, <2>6
<1>3. pc' \in {"rollback", "restore", "conclude"} /\ pc # "over"
  BY DEF Observe, RestartBoth, RestartFails, OfferBadCandidate, WaitServing
<1>4. TypeOK'
  BY <1>1, <1>2, <1>3 DEF TypeOK, Labels
<1>5. SavedInOrder'
  <2>1. CASE Observe
    BY <1>1, <2>1 DEF Observe, SavedInOrder
  <2>2. CASE RestartBoth \/ RestartFails \/ OfferBadCandidate
    <3>1. scenario \in {"restart", "bad_candidate"} /\ pc = "observe" /\ pc' = "conclude"
      BY <2>2 DEF RestartBoth, RestartFails, OfferBadCandidate
    <3>2. Targets[scenario] = <<>>
      BY <3>1 DEF Targets
    <3> QED BY <1>1, <3>1, <3>2 DEF SavedInOrder
  <2>3. CASE WaitServing
    BY <1>1, <2>3 DEF WaitServing, SavedInOrder
  <2> QED BY <2>1, <2>2, <2>3
<1> QED BY <1>1, <1>3, <1>4, <1>5, BookkeepingKept

LEMMA ConcludeKeeps ==
  ASSUME HInv, Conclude
  PROVE  HInv'
<1> USE DEF HInv, Conclude
<1>1. PICK holds \in LastCheck :
        report' = Append(report, [scenario |-> scenario, passed |-> Passed(evidence) /\ holds])
  OBVIOUS
<1>2. holds \in BOOLEAN /\ Passed(evidence) \in BOOLEAN
  BY DEF LastCheck, Passed, TypeOK, Evidence
<1>3. TypeOK'
  BY <1>1, <1>2 DEF TypeOK, Labels, cluster, history
<1>4. SavedInOrder' /\ saved = <<>>
  BY DEF SavedInOrder
<1> QED BY <1>3, <1>4, BookkeepingKept DEF cluster, history

LEMMA StepKeeps == HInv /\ [Next]_vars => HInv'
<1> SUFFICES ASSUME HInv, [Next]_vars PROVE HInv'
  OBVIOUS
<1>1. CASE UNCHANGED vars
  BY <1>1 DEF vars, cluster, history, HInv, TypeOK, Changed, Accounted, SavedInOrder,
     OneScenarioAtATime, WholeBetweenScenarios, LeftDownIsRefused, StoreRestored
<1>2. CASE HarnessStep
  BY <1>2, PickKeeps, EndRunKeeps, NoteBeforeKeeps, ScaleKeeps, ScaleFailsKeeps, TryKeeps,
     EvidenceKeeps, RestoreKeeps, RestoreFailsKeeps, ConcludeKeeps DEF HarnessStep
<1> QED BY <1>1, <1>2, BeginKeeps, EnvironmentKeeps DEF Next

-----------------------------------------------------------------------------
\* Throughout a run: what differs from the cluster as it was found is of the
\* current scenario and written down, and the tracking URI is put back.
THEOREM Bookkeeping == Spec => []HInv
<1> QED BY InitInvariant, StepKeeps, PTL DEF Spec

\* A run that leaves a Deployment scaled otherwise than it found it has had a
\* scale or a restore refused, that Deployment's own where the scenario scales no
\* other; no failing wait, probe or traffic change does it.
THEOREM OnlyRefusedIsLeft == Spec => []LeftDownIsRefused
<1>1. HInv => LeftDownIsRefused
  BY DEF HInv
<1> QED BY <1>1, Bookkeeping, PTL

-----------------------------------------------------------------------------
(* What a pass has shown. *)

LEMMA InitEarned == Init => PassEarned
<1> SUFFICES ASSUME Init PROVE PassEarned
  OBVIOUS
<1>1. ScalesKnown
  <2>1. desired \in [Deployments -> Nat] /\ began.scales = desired
    BY HarnessAssumption DEF Init
  <2>2. \A d \in Deployments : up[d] = (desired[d] > 0)
    BY DEF Init
  <2> QED BY <2>1, <2>2 DEF ScalesKnown
<1>2. evidence.alias = None
  BY DEF Init, Fresh
<1> QED BY <1>1, <1>2 DEF Init, PassEarned, RecoveryEarned, CanaryClosed, AliasNoted

\* Where a scenario's end is not reached and no scale changes, only what was read
\* of the alias and the canary's traffic are in question.
LEMMA ScalesUntouched ==
  ASSUME PassEarned, UNCHANGED <<desired, up, began>>, pc' # "conclude",
         CanaryClosed', AliasNoted'
  PROVE  PassEarned'
BY DEF PassEarned, ScalesKnown, RecoveryEarned

\* A step that changes neither scenario, evidence nor traffic, and stays on its
\* side of the rollback, leaves the canary as closed and the alias as noted.
LEMMA RestUntouched ==
  ASSUME PassEarned, UNCHANGED <<setting, routing, scenario, evidence>>,
         raising' \in {raising, TRUE},
         pc' \in {"reset", "restore", "serving", "conclude"} =>
             \/ raising'
             \/ pc \in {"reset", "restore", "serving", "conclude"}
             \/ scenario # "canary"
  PROVE  CanaryClosed' /\ AliasNoted'
BY DEF PassEarned, CanaryClosed, AliasNoted

\* Scaling sends a Deployment to zero.
LEMMA ScaleEarns ==
  ASSUME HInv, PassEarned, Scale \/ ScaleFails
  PROVE  PassEarned'
<1>1. UNCHANGED <<up, setting, routing, scenario, raising, evidence, began>>
        /\ pc' \in {"scale", "gone", "over"}
        /\ desired' \in {desired, ScaledTo(NextTarget, 0)}
  BY DEF Scale, ScaleFails, Leave, history
<1>2. ScalesKnown'
  BY <1>1 DEF PassEarned, ScalesKnown, ScaledTo, HInv, TypeOK
<1>3. CanaryClosed' /\ AliasNoted'
  BY <1>1, RestUntouched
<1> QED BY <1>1, <1>2, <1>3 DEF PassEarned, RecoveryEarned

\* Restoring brings a Deployment back to what is written down, which is what it
\* was.
LEMMA RestoreEarns ==
  ASSUME HInv, PassEarned, Restore \/ RestoreFails
  PROVE  PassEarned'
<1>1. UNCHANGED <<up, setting, routing, scenario, raising, evidence, began>>
        /\ pc = "restore" /\ pc' \in {"restore", "serving", "over"}
        /\ desired' \in {desired, Restored}
  BY DEF Restore, RestoreFails, Leave, history
<1>2. ScalesKnown'
  <2>1. saved # <<>> /\ saved \in Seq(ScaleState)
    BY <1>1 DEF HInv, SavedInOrder, TypeOK
  <2>2. 1 \in DOMAIN saved /\ Head(saved) = saved[1] /\ Head(saved) \in ScaleState
    BY <2>1
  <2>3. Head(saved).replicas = began.scales[Head(saved).deployment]
    BY <1>1, <2>2 DEF HInv, Accounted
  <2> QED BY <1>1, <2>2, <2>3 DEF PassEarned, ScalesKnown, Restored, ScaledTo, ScaleState,
             HInv, TypeOK
<1>3. CanaryClosed' /\ AliasNoted'
  BY <1>1, RestUntouched
<1> QED BY <1>1, <1>2, <1>3 DEF PassEarned, RecoveryEarned

\* Nothing is written down any more when a scenario concludes, so every
\* Deployment is scaled as it was found.
LEMMA WholeAtConclude ==
  ASSUME HInv, pc = "conclude"
  PROVE  Changed = {} /\ \A d \in Deployments : desired[d] = began.scales[d]
<1>1. saved = <<>>
  BY DEF HInv, SavedInOrder
<1> QED BY <1>1 DEF HInv, Accounted, Changed

\* Pods come and go as asked: where something was not running before the run none
\* come, and once all is scaled as before none that run go.
LEMMA SettleEarns ==
  ASSUME HInv, PassEarned, NEW d \in Deployments, Settle(d)
  PROVE  PassEarned'
<1>1. /\ UNCHANGED <<desired, setting, routing, scenario, raising, evidence, began, pc>>
      /\ up' = [up EXCEPT ![d] = desired[d] > 0] /\ up[d] # (desired[d] > 0)
      /\ up \in [Deployments -> BOOLEAN] /\ scenario \in Scenarios
  BY DEF Settle, history, HInv, TypeOK
<1>2. desired \in [Deployments -> Nat] /\ began.scales \in [Deployments -> Nat]
  BY DEF HInv, TypeOK
<1>3. ScalesKnown'
  BY <1>1, <1>2 DEF PassEarned, ScalesKnown
<1>4. RecoveryEarned'
  <2> SUFFICES ASSUME pc = "conclude", evidence.recovered, NEW e \in Scaled(scenario)
               PROVE  up'[e]
    BY <1>1 DEF RecoveryEarned
  <2>1. e \in Deployments /\ up[e]
    BY <1>1, TargetsDistinct DEF PassEarned, RecoveryEarned
  <2>2. desired[e] = began.scales[e] /\ began.scales[e] > 0
    BY <2>1, WholeAtConclude DEF PassEarned, ScalesKnown
  <2> QED BY <1>1, <2>1, <2>2
<1>5. CanaryClosed' /\ AliasNoted'
  BY <1>1, RestUntouched
<1> QED BY <1>3, <1>4, <1>5 DEF PassEarned

\* A rollout that lands brings the routing to the setting, which is zero where
\* the canary is closed; and an alias that moves changes nothing of the evidence.
LEMMA OthersEarn ==
  ASSUME HInv, PassEarned, RolloutLands \/ \E v \in Versions : MoveProduction(v)
  PROVE  PassEarned'
<1>1. UNCHANGED <<desired, up, setting, pc, scenario, raising, evidence, began>>
        /\ routing' \in {routing, setting}
  BY DEF RolloutLands, MoveProduction, cluster, history
<1> QED BY <1>1 DEF PassEarned, ScalesKnown, RecoveryEarned, CanaryClosed, AliasNoted

\* The run before, between and after its scenarios.
LEMMA RunEarns ==
  ASSUME HInv, PassEarned,
         \/ Begin \/ EndRun \/ NoteBeforeFails \/ FinallyFails \/ Reraise
         \/ \E s \in Scenarios : Pick(s)
  PROVE  PassEarned'
<1>1. CASE Begin \/ EndRun \/ NoteBeforeFails \/ FinallyFails \/ Reraise
  <2>1. UNCHANGED <<desired, up, began, setting, routing, scenario, raising, evidence>>
          /\ pc' \in {"choose", "over"}
    BY <1>1 DEF Begin, EndRun, NoteBeforeFails, FinallyFails, Reraise, Leave, cluster, history
  <2>2. CanaryClosed' /\ AliasNoted'
    BY <2>1, RestUntouched
  <2> QED BY <2>1, <2>2, ScalesUntouched
<1>2. ASSUME NEW s \in Scenarios, Pick(s)
      PROVE  PassEarned'
  <2>1. UNCHANGED <<desired, up, began>> /\ pc' = "before" /\ evidence'.alias = None
    BY <1>2 DEF Pick, cluster, history, Fresh
  <2>2. CanaryClosed' /\ AliasNoted'
    BY <2>1 DEF CanaryClosed, AliasNoted
  <2> QED BY <2>1, <2>2, ScalesUntouched
<1> QED BY <1>1, <1>2

LEMMA NoteBeforeEarns ==
  ASSUME HInv, PassEarned, NoteBefore
  PROVE  PassEarned'
<1>1. UNCHANGED <<desired, up, began, scenario>> /\ pc' \in {"observe", "scale"}
        /\ (scenario \notin ChecksAlias => evidence' = evidence)
  BY DEF NoteBefore, cluster, history
<1>2. CanaryClosed' /\ AliasNoted'
  BY <1>1 DEF PassEarned, CanaryClosed, AliasNoted
<1> QED BY <1>1, <1>2, ScalesUntouched

\* The canary scenario reaches its `finally` by its rollback, or raising.
LEMMA TryEarns ==
  ASSUME HInv, PassEarned, WaitGone \/ WaitGoneFails \/ Dial \/ DialFails \/ Reset
  PROVE  PassEarned'
<1>1. UNCHANGED <<desired, up, scenario, evidence, began>> /\ pc' # "conclude"
        /\ raising' \in {raising, TRUE}
  BY DEF WaitGone, WaitGoneFails, Dial, DialFails, Reset, Dialling, RaiseThroughFinally,
     AfterTry, cluster, history
<1>2. AliasNoted'
  BY <1>1 DEF PassEarned, AliasNoted
<1>3. CanaryClosed'
  <2>1. CASE WaitGone
    BY <2>1 DEF WaitGone, CanaryClosed
  <2>2. CASE WaitGoneFails \/ DialFails
    BY <2>2 DEF WaitGoneFails, DialFails, RaiseThroughFinally, CanaryClosed
  <2>3. CASE Dial
    BY <2>3 DEF Dial, Dialling, SetTraffic, DrillTraffic, CanaryClosed
  <2>4. CASE Reset
    <3>1. \/ setting' \in {setting, 0} /\ routing' \in {routing, setting'}
          \/ setting' = 0 /\ routing' = 0
      BY <2>4 DEF Reset, SetTraffic, SetTrafficFails
    <3>2. pc = "reset" /\ raising' = raising /\ scenario' = scenario
      BY <2>4 DEF Reset
    <3> QED BY <3>1, <3>2 DEF PassEarned, CanaryClosed
  <2> QED BY <2>1, <2>2, <2>3, <2>4
<1> QED BY <1>1, <1>2, <1>3, ScalesUntouched

\* Recovery is claimed by a wait that found every Deployment of the scenario
\* serving, or by a scenario that scales none.
LEMMA EvidenceEarns ==
  ASSUME HInv, PassEarned,
         Observe \/ RestartBoth \/ RestartFails \/ OfferBadCandidate \/ WaitServing
  PROVE  PassEarned'
<1>1. UNCHANGED <<desired, up, setting, scenario, began>> /\ raising' \in {raising, TRUE}
  BY DEF Observe, RestartBoth, RestartFails, OfferBadCandidate, WaitServing, cluster, history
<1>2. ScalesKnown'
  BY <1>1 DEF PassEarned, ScalesKnown
<1>3. evidence'.alias = evidence.alias
  BY DEF HInv, TypeOK, Evidence, Observe, RestartBoth, RestartFails, OfferBadCandidate,
     WaitServing
<1>4. AliasNoted'
  BY <1>1, <1>3 DEF PassEarned, AliasNoted
<1>5. CASE Observe
  <2>1. pc' \in {"rollback", "restore"} /\ (scenario = "canary" => pc' = "rollback")
    BY <1>5 DEF Observe
  <2> QED BY <1>1, <1>2, <1>4, <2>1 DEF PassEarned, RecoveryEarned, CanaryClosed
<1>6. CASE RestartBoth \/ RestartFails \/ OfferBadCandidate
  <2>1. scenario \in {"restart", "bad_candidate"}
    BY <1>6 DEF RestartBoth, RestartFails, OfferBadCandidate
  <2>2. Targets[scenario] = <<>>
    BY <2>1 DEF Targets
  <2>3. Scaled(scenario) = {}
    BY <2>2 DEF Scaled
  <2> QED BY <1>1, <1>2, <1>4, <2>1, <2>3 DEF PassEarned, RecoveryEarned, CanaryClosed
<1>7. CASE WaitServing
  <2>1. pc = "serving" /\ UNCHANGED <<routing, raising>>
    BY <1>7 DEF WaitServing, cluster
  <2>2. evidence'.recovered => Recovered
    <3>1. PICK recovered \in {FALSE, Recovered} :
                 evidence' = [evidence EXCEPT !.recovered = recovered]
      BY <1>7 DEF WaitServing
    <3>2. evidence'.recovered = recovered
      BY <3>1 DEF HInv, TypeOK, Evidence
    <3>3. CASE recovered = FALSE
      BY <3>2, <3>3
    <3>4. CASE recovered = Recovered
      BY <3>2, <3>4
    <3> QED BY <3>1, <3>3, <3>4
  <2>3. RecoveryEarned'
    BY <1>1, <2>2 DEF RecoveryEarned, Recovered
  <2> QED BY <1>1, <1>2, <1>4, <2>1, <2>3 DEF PassEarned, CanaryClosed
<1> QED BY <1>5, <1>6, <1>7

LEMMA ConcludeEarns ==
  ASSUME HInv, PassEarned, Conclude
  PROVE  PassEarned'
<1>1. UNCHANGED <<desired, up, began, setting, routing, scenario, raising, evidence>>
        /\ pc' = "choose"
  BY DEF Conclude, cluster, history
<1>2. CanaryClosed' /\ AliasNoted'
  BY <1>1, RestUntouched
<1> QED BY <1>1, <1>2, ScalesUntouched

LEMMA StepEarns == HInv /\ PassEarned /\ [Next]_vars => PassEarned'
<1> SUFFICES ASSUME HInv, PassEarned, [Next]_vars PROVE PassEarned'
  OBVIOUS
<1>1. CASE UNCHANGED vars
  BY <1>1 DEF vars, cluster, history, PassEarned, ScalesKnown, RecoveryEarned, CanaryClosed,
     AliasNoted
<1>2. CASE HarnessStep
  BY <1>2, RunEarns, NoteBeforeEarns, ScaleEarns, TryEarns, EvidenceEarns, RestoreEarns,
     ConcludeEarns DEF HarnessStep
<1>3. CASE Environment
  BY <1>3, SettleEarns, OthersEarn DEF Environment
<1> QED BY <1>1, <1>2, <1>3, RunEarns DEF Next

\* A report grows at the conclusion of a scenario and nowhere else, and a pass
\* among what it grows by is sound.
LEMMA ConcludeIsSound ==
  ASSUME HInv, PassEarned, Conclude, report'[Len(report')].passed
  PROVE  /\ Changed = {} /\ \A d \in Scaled(scenario) : up[d]
         /\ scenario = "canary" => setting = 0 /\ routing = 0
         /\ store = "cluster" /\ evidence.alias # None => alias = evidence.alias
<1>1. pc = "conclude" /\ ~raising
  BY DEF Conclude
<1>2. PICK holds \in LastCheck :
        report' = Append(report, [scenario |-> scenario, passed |-> Passed(evidence) /\ holds])
  BY DEF Conclude
<1>3. Passed(evidence) /\ holds
  <2>1. report \in Seq([scenario : Scenarios, passed : BOOLEAN])
    BY DEF HInv, TypeOK
  <2> DEFINE entry == [scenario |-> scenario, passed |-> Passed(evidence) /\ holds]
  <2>2. Append(report, entry)[Len(Append(report, entry))] = entry
    <3> HIDE DEF entry
    <3> QED BY <2>1
  <2>3. report'[Len(report')] = entry
    <3> HIDE DEF entry
    <3> QED BY <1>2, <2>2 DEF entry
  <2>4. entry.passed = (Passed(evidence) /\ holds)
    OBVIOUS
  <2> HIDE DEF entry
  <2> QED BY <2>3, <2>4
<1>4. \A d \in Scaled(scenario) : up[d]
  BY <1>1, <1>3 DEF PassEarned, RecoveryEarned, Passed
<1>5. store = "cluster" /\ evidence.alias # None => alias = evidence.alias
  <2> SUFFICES ASSUME store = "cluster", evidence.alias # None
               PROVE  alias = evidence.alias
    OBVIOUS
  <2>1. scenario \in ChecksAlias
    BY DEF PassEarned, AliasNoted
  <2>2. PICK now \in Readings : holds = (now = evidence.alias)
    BY <2>1 DEF LastCheck
  <2>3. Readings \subseteq {alias, None}
    BY DEF Readings
  <2> QED BY <1>3, <2>2, <2>3
<1> QED BY <1>1, <1>4, <1>5, WholeAtConclude DEF PassEarned, CanaryClosed

\* Throughout a run: what runs ran before it, a scenario that says it recovered
\* has, and the canary scenario ends with the canary closed.
THEOREM EvidenceIsEarned == Spec => []PassEarned
<1> QED BY InitEarned, StepEarns, Bookkeeping, PTL DEF Spec

\* A scenario reported as passed left the cluster scaled as it was and serving,
\* no traffic on the canary, and production where it was.
THEOREM PassesAreSound == Spec => PassIsSound
<1>1. HInv /\ PassEarned /\ [Next]_vars =>
        [ report' # report /\ report'[Len(report')].passed =>
            /\ Changed = {} /\ \A d \in Scaled(scenario) : up[d]
            /\ scenario = "canary" => setting = 0 /\ routing = 0
            /\ store = "cluster" /\ evidence.alias # None => alias = evidence.alias ]_vars
  <2> SUFFICES ASSUME HInv, PassEarned, [Next]_vars, report' # report,
                      report'[Len(report')].passed
               PROVE  /\ Changed = {} /\ \A d \in Scaled(scenario) : up[d]
                      /\ scenario = "canary" => setting = 0 /\ routing = 0
                      /\ store = "cluster" /\ evidence.alias # None => alias = evidence.alias
    OBVIOUS
  <2>1. Conclude
    <3>1. ~ UNCHANGED vars
      BY DEF vars
    <3>2. ~ Environment /\ ~ Begin
      BY DEF Environment, Settle, RolloutLands, MoveProduction, Begin
    <3> QED BY <3>1, <3>2 DEF Next, HarnessStep, Pick, EndRun, NoteBefore, NoteBeforeFails,
              Scale, ScaleFails, WaitGone, WaitGoneFails, Dial, DialFails, Observe, RestartBoth,
              RestartFails, OfferBadCandidate, Reset, Restore, RestoreFails, WaitServing,
              FinallyFails, Reraise
  <2> QED BY <2>1, ConcludeIsSound
<1> QED BY <1>1, Bookkeeping, EvidenceIsEarned, PTL DEF Spec, PassIsSound

=============================================================================
