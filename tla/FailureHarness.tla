--------------------------- MODULE FailureHarness ---------------------------
(***************************************************************************)
(* A run of the failure harness (failure/runner.py): one scenario after    *)
(* another (failure/scenarios.py) scales Deployments of the cluster to     *)
(* zero, observes, restores and reports, every kubectl call                *)
(* (failure/cluster.py) and every wait failing where it can.  The property *)
(* that makes the harness safe to run is about what it leaves behind when  *)
(* something fails half way; the property that makes it worth running,     *)
(* about what a scenario that passed has shown.                            *)
(*                                                                         *)
(* Probes never raise: one that fails is an observation.  set_traffic is   *)
(* call by call in CanaryRollout; here it lands, or raises somewhere.      *)
(***************************************************************************)
EXTENDS Naturals, Sequences

CONSTANTS
    InitialScales,  \* how the Deployments may be scaled before the run
    Allocations,    \* canary allocations the ConfigMap may hold before it
    DrillPercent,   \* what the canary scenario allocates
    Versions,       \* versions production may name
    MaxScenarios    \* bound: scenarios in one run

Deployments == {"predictor", "canary", "mlflow", "prometheus", "jaeger"}
None == 0

ASSUME HarnessAssumption ==
    /\ InitialScales \subseteq [Deployments -> Nat]
    /\ Allocations \subseteq Nat /\ DrillPercent \in Nat
    /\ Versions \subseteq Nat \ {None} /\ MaxScenarios \in Nat

VARIABLES
    desired,        \* replicas asked of each Deployment
    up,             \* has it a ready replica
    setting,        \* the canary allocation in the ConfigMap
    routing,        \* the allocation the API replicas route by
    alias,          \* what the cluster's production alias names
    store,          \* the registry this process's configuration leads to
    pc,             \* where the run is
    scenario,       \* the scenario it is in, or was in last
    saved,          \* the ScaleStates it has still to restore
    raising,        \* is an exception on its way through a `finally`
    evidence,       \* what the scenario has established
    report,         \* the evidence of the scenarios that ended
    began,          \* history: scales and store before the run
    refused         \* history: Deployments a scale or restore of which raised

cluster == <<desired, up, setting, routing>>
history == <<began, refused>>
vars == <<cluster, alias, store, pc, scenario, saved, raising, evidence, report, history>>

\* What each scenario scales to zero, in this order.
Targets == [ model_serving |-> <<"predictor">>, mlflow |-> <<"mlflow">>,
             canary |-> <<"canary">>, telemetry |-> <<"prometheus", "jaeger">>,
             restart |-> <<>>, bad_candidate |-> <<>> ]
Scenarios == {"model_serving", "mlflow", "canary", "telemetry", "restart", "bad_candidate"}
Scaled(s) == {Targets[s][i] : i \in DOMAIN Targets[s]}

\* Those that compare the alias before and after, and those that recover only
\* with a prediction.
ChecksAlias == Scenarios \ {"mlflow"}
Predicts == {"model_serving", "canary"}

Stores == {"cluster", "local"}
ScaleState == [deployment : Deployments, replicas : Nat]
Evidence == [alias : Versions \cup {None}, held : BOOLEAN, recovered : BOOLEAN]
Fresh == [alias |-> None, held |-> TRUE, recovered |-> FALSE]
Passed(e) == e.held /\ e.recovered

Labels == {"idle", "choose", "before", "scale", "gone", "allocate", "observe",
           "rollback", "reset", "restore", "serving", "conclude", "over"}

Init ==
    /\ desired \in InitialScales
    /\ up = [d \in Deployments |-> desired[d] > 0]
    /\ setting \in Allocations /\ routing = setting
    /\ alias \in Versions
    /\ store \in Stores
    /\ pc = "idle" /\ scenario = "restart"
    /\ saved = <<>> /\ raising = FALSE /\ evidence = Fresh /\ report = <<>>
    /\ began = [scales |-> desired, store |-> store] /\ refused = {}

-----------------------------------------------------------------------------
(* The cluster by itself, and whoever else promotes. *)

\* The Deployment controller brings the pods to what is asked of it.
Settle(d) ==
    /\ up[d] # (desired[d] > 0)
    /\ up' = [up EXCEPT ![d] = desired[d] > 0]
    /\ UNCHANGED <<desired, setting, routing, alias, store, pc, scenario, saved, raising,
                   evidence, report, history>>

\* A rollout nobody waits for any more reaches the last replica.
RolloutLands ==
    /\ routing # setting
    /\ routing' = setting
    /\ UNCHANGED <<desired, up, setting, alias, store, pc, scenario, saved, raising,
                   evidence, report, history>>

MoveProduction(v) ==
    /\ up["mlflow"] /\ v # alias
    /\ alias' = v
    /\ UNCHANGED <<cluster, store, pc, scenario, saved, raising, evidence, report, history>>

\* _production_version: no answer and no alias are both None; a store that is not
\* the cluster's answers whatever the cluster does.
Readings ==
    IF store = "local" THEN Versions \cup {None}
    ELSE IF up["mlflow"] THEN {alias, None} ELSE {None}

-----------------------------------------------------------------------------
(* run *)

\* The tracking URI, if one was given, outranks the configuration from here on.
Begin ==
    /\ pc = "idle"
    /\ pc' = "choose"
    /\ store' \in {store, "cluster"}
    /\ UNCHANGED <<cluster, alias, scenario, saved, raising, evidence, report, history>>

\* The `finally` of run, whichever way it is left: an exception of a scenario is
\* not caught, so no further scenario starts.
Leave == pc' = "over" /\ store' = began.store

\* The next name; a live scenario is skipped, without a step, if no cluster
\* answers.
Pick(s) ==
    /\ pc = "choose" /\ Len(report) < MaxScenarios
    /\ pc' = "before" /\ scenario' = s /\ evidence' = Fresh
    /\ UNCHANGED <<cluster, alias, store, saved, raising, report, history>>

\* All names done, or one that is unknown.
EndRun ==
    /\ pc = "choose"
    /\ Leave
    /\ UNCHANGED <<cluster, alias, scenario, saved, raising, evidence, report, history>>

-----------------------------------------------------------------------------
(* Before the try: an exception here leaves the run at once. *)

NoteBefore ==
    /\ pc = "before"
    /\ pc' = IF Targets[scenario] = <<>> THEN "observe" ELSE "scale"
    /\ IF scenario \in ChecksAlias
       THEN \E v \in Readings : evidence' = [evidence EXCEPT !.alias = v]
       ELSE evidence' = evidence
    /\ UNCHANGED <<cluster, alias, store, scenario, saved, raising, report, history>>

\* The restart scenario reads the ConfigMap first.
NoteBeforeFails ==
    /\ pc = "before" /\ scenario = "restart"
    /\ Leave
    /\ UNCHANGED <<cluster, alias, scenario, saved, raising, evidence, report, history>>

NextTarget == Targets[scenario][Len(saved) + 1]
ScaledTo(d, n) == [desired EXCEPT ![d] = n]

\* scale that expects one replica to be what there was.
ScaleExpectingOne ==
    /\ pc = "scale"
    /\ saved' = Append(saved, [deployment |-> NextTarget, replicas |-> 1])
    /\ desired' = ScaledTo(NextTarget, 0)
    /\ pc' = IF Len(saved') < Len(Targets[scenario]) THEN "scale" ELSE "gone"
    /\ UNCHANGED <<up, setting, routing, alias, store, scenario, raising, evidence, report,
                   history>>

\* ClusterControl.scale
Scale ==
    /\ pc = "scale"
    /\ saved' = Append(saved, [deployment |-> NextTarget, replicas |-> desired[NextTarget]])
    /\ desired' = ScaledTo(NextTarget, 0)
    /\ pc' = IF Len(saved') < Len(Targets[scenario]) THEN "scale" ELSE "gone"
    /\ UNCHANGED <<up, setting, routing, alias, store, scenario, raising, evidence, report,
                   history>>

\* kubectl refuses, or times out with the scale applied.
ScaleFails ==
    /\ pc = "scale"
    /\ desired' \in {desired, ScaledTo(NextTarget, 0)}
    /\ refused' = refused \cup {NextTarget}
    /\ Leave
    /\ UNCHANGED <<up, setting, routing, alias, scenario, saved, raising, evidence, report,
                   began>>

-----------------------------------------------------------------------------
(* Inside the try. *)

AfterTry == IF scenario = "canary" THEN "reset" ELSE "restore"

\* An exception in the try goes through the `finally`.
RaiseThroughFinally == pc' = AfterTry /\ raising' = TRUE

\* A scenario without the `finally`.
RaiseAtOnce == Leave /\ raising' = TRUE

\* wait_gone, whose answer nobody looks at; kubectl may raise.
WaitGone ==
    /\ pc = "gone"
    /\ pc' = IF scenario = "canary" THEN "allocate" ELSE "observe"
    /\ UNCHANGED <<cluster, alias, store, scenario, saved, raising, evidence, report, history>>

WaitGoneFailsAtOnce ==
    /\ pc = "gone"
    /\ RaiseAtOnce
    /\ UNCHANGED <<cluster, alias, scenario, saved, evidence, report, history>>

WaitGoneFails ==
    /\ pc = "gone"
    /\ RaiseThroughFinally
    /\ UNCHANGED <<cluster, alias, store, scenario, saved, evidence, report, history>>

\* KubernetesTrafficController.set_traffic, and its failure at any of its calls.
SetTraffic(percent) == setting' = percent /\ routing' = percent
SetTrafficFails(percent) ==
    /\ setting' \in {setting, percent}
    /\ routing' \in {routing, setting'}

Dialling == pc \in {"allocate", "rollback"}
DrillTraffic == IF pc = "allocate" THEN DrillPercent ELSE 0

\* The canary scenario opens the canary and, having observed it, rolls it back;
\* with the allocation back at zero no response comes from the canary tier.
Dial ==
    /\ Dialling
    /\ SetTraffic(DrillTraffic)
    /\ pc' = IF pc = "allocate" THEN "observe" ELSE "reset"
    /\ UNCHANGED <<desired, up, alias, store, scenario, saved, raising, evidence, report,
                   history>>

DialFails ==
    /\ Dialling
    /\ SetTrafficFails(DrillTraffic)
    /\ RaiseThroughFinally
    /\ UNCHANGED <<desired, up, alias, store, scenario, saved, evidence, report, history>>

\* May every probe have been scored?  May one have been?
Scorable == {FALSE, up["predictor"]}

\* no_fabricated_predictions and dependency_failure_is_explicit: no score.
\* inference_unaffected: all scored, and no registry.  telemetry_failure_isolated:
\* all scored.  The canary's no_fabricated_predictions is asked of the responses
\* without a score only.
Observations ==
    CASE scenario = "model_serving" -> {~scored : scored \in Scorable}
      [] scenario = "mlflow" -> IF None \in Readings THEN Scorable ELSE {FALSE}
      [] scenario = "telemetry" -> Scorable
      [] scenario = "canary" -> {TRUE}

Observe ==
    /\ pc = "observe" /\ Targets[scenario] # <<>>
    /\ \E holds \in Observations : evidence' = [evidence EXCEPT !.held = holds]
    /\ pc' = IF scenario = "canary" THEN "rollback" ELSE "restore"
    /\ UNCHANGED <<cluster, alias, store, scenario, saved, raising, report, history>>

\* The restart scenario: both rollouts, the second of which makes the replicas
\* read the ConfigMap, and the comparison of what was read before and after.
RestartBoth ==
    /\ pc = "observe" /\ scenario = "restart"
    /\ routing' \in {routing, setting}
    /\ \E again \in {FALSE, up["predictor"] /\ routing' = setting}, same \in BOOLEAN :
          evidence' = [evidence EXCEPT !.recovered = again, !.held = again /\ same]
    /\ pc' = "conclude"
    /\ UNCHANGED <<desired, up, setting, alias, store, scenario, saved, raising, report,
                   history>>

RestartFails ==
    /\ pc = "observe" /\ scenario = "restart"
    /\ pc' = "conclude" /\ raising' = TRUE
    /\ routing' \in {routing, setting}
    /\ UNCHANGED <<desired, up, setting, alias, store, scenario, saved, evidence, report,
                   history>>

\* run_promotion on a crippled candidate: rejected, or an error, which is recorded
\* and not raised.
OfferBadCandidate ==
    /\ pc = "observe" /\ scenario = "bad_candidate"
    /\ \E rejected \in BOOLEAN :
          evidence' = [evidence EXCEPT !.held = rejected, !.recovered = rejected]
    /\ pc' = "conclude"
    /\ UNCHANGED <<cluster, alias, store, scenario, saved, raising, report, history>>

-----------------------------------------------------------------------------
(* The finally: an exception here leaves the run with the rest undone. *)

\* The canary scenario closes the canary once more, its failure swallowed.
Reset ==
    /\ pc = "reset"
    /\ SetTraffic(0) \/ SetTrafficFails(0)
    /\ pc' = "restore"
    /\ UNCHANGED <<desired, up, alias, store, scenario, saved, raising, evidence, report,
                   history>>

Restored == ScaledTo(Head(saved).deployment, Head(saved).replicas)

\* A `finally` that restores the first ScaleState only.
RestoreFirst ==
    /\ pc = "restore"
    /\ desired' = Restored
    /\ saved' = <<>>
    /\ pc' = "serving"
    /\ UNCHANGED <<up, setting, routing, alias, store, scenario, raising, evidence, report,
                   history>>

\* ClusterControl.restore, for each ScaleState in turn.
Restore ==
    /\ pc = "restore"
    /\ desired' = Restored
    /\ saved' = Tail(saved)
    /\ pc' = IF Len(saved) > 1 THEN "restore" ELSE "serving"
    /\ UNCHANGED <<up, setting, routing, alias, store, scenario, raising, evidence, report,
                   history>>

RestoreFails ==
    /\ pc = "restore"
    /\ desired' \in {desired, Restored}
    /\ refused' = refused \cup {Head(saved).deployment}
    /\ Leave
    /\ UNCHANGED <<up, setting, routing, alias, scenario, saved, raising, evidence, report,
                   began>>

\* All Deployments the scenario scaled have a ready replica and, where one was
\* asked for, a prediction came back.
Recovered ==
    /\ \A d \in Scaled(scenario) : up[d]
    /\ scenario \in Predicts => up["predictor"]

\* wait_serving whose answer is not looked at.
WaitServingUnheard ==
    /\ pc = "serving"
    /\ \E recovered \in {FALSE, TRUE} :
          evidence' = [evidence EXCEPT !.recovered = recovered]
    /\ pc' = "conclude"
    /\ UNCHANGED <<cluster, alias, store, scenario, saved, raising, report, history>>

\* wait_serving, giving up after a while, or satisfied.
WaitServing ==
    /\ pc = "serving"
    /\ \E recovered \in {FALSE, Recovered} :
          evidence' = [evidence EXCEPT !.recovered = recovered]
    /\ pc' = "conclude"
    /\ UNCHANGED <<cluster, alias, store, scenario, saved, raising, report, history>>

\* kubectl raises in wait_serving, or when the canary scenario reads the ConfigMap.
FinallyFails ==
    /\ \/ pc = "serving"
       \/ pc = "conclude" /\ scenario = "canary"
    /\ Leave
    /\ UNCHANGED <<cluster, alias, scenario, saved, raising, evidence, report, history>>

\* production_alias_unchanged; of the model's identity, which nothing here decides,
\* either answer.
LastCheck ==
    IF scenario \in ChecksAlias THEN {now = evidence.alias : now \in Readings} ELSE BOOLEAN

\* The last invariant is added and the evidence returned ...
Conclude ==
    /\ pc = "conclude" /\ ~raising
    /\ \E holds \in LastCheck :
          report' = Append(report, [scenario |-> scenario,
                                    passed |-> Passed(evidence) /\ holds])
    /\ pc' = "choose"
    /\ UNCHANGED <<cluster, alias, store, scenario, saved, raising, evidence, history>>

\* ... unless an exception goes on from here.
Reraise ==
    /\ pc = "conclude" /\ raising
    /\ Leave
    /\ UNCHANGED <<cluster, alias, scenario, saved, raising, evidence, report, history>>

-----------------------------------------------------------------------------
HarnessStep ==
    \/ \E s \in Scenarios : Pick(s)
    \/ EndRun
    \/ NoteBefore \/ NoteBeforeFails \/ Scale \/ ScaleFails
    \/ WaitGone \/ WaitGoneFails \/ Dial \/ DialFails
    \/ Observe \/ RestartBoth \/ RestartFails \/ OfferBadCandidate
    \/ Reset \/ Restore \/ RestoreFails \/ WaitServing \/ FinallyFails
    \/ Conclude \/ Reraise

Environment ==
    \/ \E d \in Deployments : Settle(d)
    \/ RolloutLands
    \/ \E v \in Versions : MoveProduction(v)

Next == Begin \/ HarnessStep \/ Environment

Spec == Init /\ [][Next]_vars

\* A run, once begun, goes on - every wait in it has a timeout - and so do the
\* Deployment controllers.
FairSpec ==
    /\ Spec
    /\ WF_vars(HarnessStep)
    /\ \A d \in Deployments : WF_vars(Settle(d))

-----------------------------------------------------------------------------
(* Properties *)

TypeOK ==
    /\ desired \in [Deployments -> Nat] /\ up \in [Deployments -> BOOLEAN]
    /\ setting \in Nat /\ routing \in Nat
    /\ alias \in Versions /\ store \in Stores
    /\ pc \in Labels /\ scenario \in Scenarios
    /\ saved \in Seq(ScaleState) /\ raising \in BOOLEAN
    /\ evidence \in Evidence
    /\ report \in Seq([scenario : Scenarios, passed : BOOLEAN])
    /\ began \in [scales : [Deployments -> Nat], store : Stores]
    /\ refused \subseteq Deployments

Changed == {d \in Deployments : desired[d] # began.scales[d]}

\* While the run goes on, whatever is not as it was found is written down to be
\* put back, as it was found, by the scenario that scaled it.
Accounted ==
    pc # "over" =>
        /\ \A d \in Changed : \E i \in DOMAIN saved : saved[i].deployment = d
        /\ \A i \in DOMAIN saved :
              /\ saved[i].deployment \in Scaled(scenario)
              /\ saved[i].replicas = began.scales[saved[i].deployment]

\* What is written down when: nothing outside a scenario, what was scaled so far
\* while scaling, something until the last restore.
SavedInOrder ==
    /\ pc \in {"idle", "choose", "before", "serving", "conclude"} => saved = <<>>
    /\ pc = "scale" =>
           /\ Len(saved) < Len(Targets[scenario])
           /\ \A i \in DOMAIN saved : saved[i].deployment = Targets[scenario][i]
    /\ pc \in {"gone", "allocate", "rollback", "reset", "restore"} =>
           saved # <<>> /\ Targets[scenario] # <<>>
    /\ pc = "observe" => (saved = <<>> <=> Targets[scenario] = <<>>)

\* Damage does not add up: what is scaled otherwise than before was scaled by the
\* scenario the run is in, or was in when it ended.
OneScenarioAtATime == Changed \subseteq Scaled(scenario)

\* A scenario starts, and its evidence is reported, in a cluster at the scale it
\* had before the run.
WholeBetweenScenarios == pc \in {"idle", "choose", "before"} => Changed = {}

\* Only a scale or a restore that raised leaves something behind: no failing wait,
\* probe or change of traffic does.  What is left is then the very Deployment
\* that call was about, unless the scenario scales several.
LeftDownIsRefused ==
    pc = "over" =>
        /\ Changed # {} => refused # {}
        /\ Len(Targets[scenario]) < 2 => Changed \subseteq refused

\* The tracking URI of the process is what it was, however the run ended.
StoreRestored == pc \in {"idle", "over"} => store = began.store

HInv ==
    /\ TypeOK /\ Accounted /\ SavedInOrder /\ OneScenarioAtATime
    /\ WholeBetweenScenarios /\ LeftDownIsRefused /\ StoreRestored

\* What a scenario that passed has shown is so when it is reported: everything is
\* scaled as before and serving, the canary takes no traffic, and production is
\* the version it was ("a registry that went away is not silently equal").
PassIsSound ==
    [][ report' # report /\ report'[Len(report')].passed =>
            /\ Changed = {} /\ \A d \in Scaled(scenario) : up[d]
            /\ scenario = "canary" => setting = 0 /\ routing = 0
            /\ store = "cluster" /\ evidence.alias # None => alias = evidence.alias ]_vars

\* The evidence is earned: the second inductive invariant, from which a pass is
\* sound.  Nothing runs that did not run before, so what has come back stays up.
ScalesKnown ==
    \A d \in Deployments :
        desired[d] \in {0, began.scales[d]} /\ (up[d] => began.scales[d] > 0)

RecoveryEarned ==
    pc = "conclude" /\ evidence.recovered => \A d \in Scaled(scenario) : up[d]

\* The rollback closed the canary, and the reset can only close it again.
CanaryClosed ==
    scenario = "canary" /\ ~raising /\ pc \in {"reset", "restore", "serving", "conclude"}
        => setting = 0 /\ routing = 0

AliasNoted == scenario \notin ChecksAlias => evidence.alias = None

PassEarned == ScalesKnown /\ RecoveryEarned /\ CanaryClosed /\ AliasNoted

\* A run comes to its end and, unless a scale was refused, the cluster to what it
\* was.
RunRecovers ==
    pc = "choose" ~>
        /\ pc = "over"
        /\ refused = {} => \A d \in Deployments : up[d] <=> began.scales[d] > 0

\* "Every injector has a matching restore in a finally": what was scaled by a call
\* that returned, and not refused since, is back.
InjectedIsRestored == pc = "over" => Changed \subseteq refused
=============================================================================
