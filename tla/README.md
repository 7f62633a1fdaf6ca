# ml-improvement-platform in TLA+

A model of `ml_platform`, in three parts. The offline half: commands that train,
search, watch for drift and retrain, over one tracking server. The release path:
how a trained candidate is gated, registered, put on a canary, measured, and made
production or withdrawn. And those who look on: the dashboard, which shows what the
others recorded, and the failure harness, which breaks the running system on
purpose. What interests throughout is what processes can get wrong by running side
by side, failing half way or acting on something old. The modules are checked with
TLC on small instances; eight modules hold proofs that TLAPS checks for all values
of the constants.

Paths below are relative to the repository; `src/ml_platform/` is written `…/`.

1. [The system](#1-the-system)
2. [The modules](#2-the-modules)
3. [What each run checks](#3-what-each-run-checks)
4. [What is proved](#4-what-is-proved)
5. [What the checks found](#5-what-the-checks-found)
6. [Abstractions](#6-abstractions)
7. [Not modelled](#7-not-modelled)
8. [Plan](#8-plan)

## 1. The system

### Processes and what they share

Six kinds of process take part.

| Process | Code | State of its own | Shared state it touches |
|---|---|---|---|
| Inference API replica (two, behind a Deployment) | `…/api/main.py`, `…/api/routes.py`, `…/api/model.py`, `…/serving/canary.py` | loaded model, a `CanaryRouter`, request counters, a health gauge | reads the registry once at start, the ConfigMap once at container start; exports its counters |
| Predictor tiers (production, canary) | `…/serving/predictor.py`, `…/serving/client.py` | a model loaded at start | answer the API's `predict` calls |
| Offline command (`train`, `drift`, `retrain`, `promote`, `optimize`) | `…/cli.py`, `…/pipelines/*`, `…/tracking.py`, `…/models/optimize.py` | one loaded configuration, one pipeline call, MLflow's stack of active runs | MLflow runs and their tags, the registry, event and report files |
| Canary command (`canary`) | `…/cli.py`, `…/pipelines/canary_pipeline.py` | one call, with a router built for it | the registry's two aliases; the ConfigMap and Deployment, by `kubectl` |
| Dashboard handler (a thread of the API) | `…/api/platform.py` | what it has read so far | reads runs, versions and aliases, one MLflow call at a time |
| A process that holds a router across calls (the integration tests, an in-process driver) | `…/pipelines/canary_pipeline.py` | a `CanaryRouter` and `CanaryDecision` objects | the registry |

They meet in four places, and none of them offers a transaction:

* the **MLflow tracking server**: runs, marked by tags that are set one call at a
  time, and found again by searches that are cut at a limit. Writers swallow what
  fails (`log_run_record`, `_tag_candidate`, `StudyTracker`), and a reader's failed
  search is an empty list;
* the **MLflow registry**: numbered versions and the aliases `production` and
  `canary`. Each call is its own request; the code treats any exception as
  "not done", although the store may have applied it;
* the **cluster**: a ConfigMap holding the canary allocation and a Deployment
  whose pods read it when a container starts;
* the **counters** of a replica: written by handler threads, read one at a time
  by the evaluator (`InProcessSignals`) or scraped by Prometheus.

### Components

| Component | State | Operations | Hard behaviour | What makes it correct |
|---|---|---|---|---|
| Canary pipeline (`…/pipelines/canary_pipeline.py`) | none; works on a router and the registry | `start_canary`, `evaluate`, `complete`, `rollback`, `decide` | replayed decisions, other writers of the alias, death between two writes, lost answers | what was rolled back stays out; production moves only to a version that is still on trial |
| Canary router (`…/serving/canary.py`) | `enabled`, `traffic_percent`, candidate version and URL | `start`, `set_traffic`, `stop`, `route` | shared with handler threads; a dial-up after a stop | a stopped canary gets no request; allocation below 100 % |
| Traffic controllers (`…/serving/traffic.py`) | none; ConfigMap and Deployment | `set_traffic`, `rollback` | three `kubectl` calls, each may fail, applied or not; timeouts | what is reported to have landed has landed |
| Verdict (`…/monitoring/canary.py`) | none | `evaluate_canary` | zero rates, order of the checks | absolute ceilings and relative limits as documented |
| Signals and metrics (`…/monitoring/signals.py`, `…/observability/metrics.py`) | cumulative counters, a baseline | `observe_canary_request`, `mark_window_start`, `signals_for` | neither counting nor reading is atomic | a promote verdict has not missed failures or a slow tail |
| Promotion (`…/pipelines/promote_pipeline.py`, `…/promotion/`) | runs and versions in MLflow | `build_comparison`, `evaluate_candidate`, `register_candidate` | stale or unreadable incumbent, concurrent promotions | only what passed the gates is registered; replacing what one was compared with improves it |
| API lifespan and model service (`…/api/`) | the loaded model, readiness | `lifespan`, `load`, `predict_with`, `/ready` | one load attempt, several registry reads per load, a stop under running requests | a served score, its version and its threshold belong together |
| Data preparation, splits, windows (`…/data/preprocessing.py`, `…/data/splitting.py`, `…/monitoring/windows.py`) | none | `prepare`, `make_splits`, `build_current_window` | labels that are not known yet, inclusive bounds, sampled environments | splits are ordered and disjoint, labels mature |
| Drift detection (`…/monitoring/drift.py`, `…/pipelines/drift_pipeline.py`) | the events it logged | `compare_frames`, `run_drift_check` | empty and constant columns | a verdict names the window it is about |
| Retraining (`…/pipelines/retrain_pipeline.py`) | event and report files | `run_retraining`, `_tag_candidate` | an old event replayed under an edited configuration | no model is trained on what its configuration judges models on; lineage is true |
| Training and tracking (`…/pipelines/train_pipeline.py`, `…/tracking.py`) | a `RunRecord`, the active MLflow runs | `run_training`, `log_run_record` | a tracking server that fails half way, a process that is killed | a run that was not completely logged is never registered |
| Optimisation (`…/models/optimize.py`, `…/pipelines/optimize_pipeline.py`) | the study, its tracker | `run_study`, `StudyTracker` | nested runs, failed trials, a leaked active run | trials are shown as they ended |
| Dashboard aggregation (`…/api/platform.py`) | none | `/model`, `/promotions`, `/drift`, `/events` | several reads of a store that changes, limits, failed reads | what is shown was true at some moment of the request |
| Failure harness (`…/failure/`) | the cluster | inject, observe, restore | failure of a step between injection and restore | the cluster is restored; a passed scenario has shown what it reports |
| Client, scoring, tracing, frontend, reproduction, manifests, configuration | little or none | — | — | — |

`PROJECT.json` lists the components one by one with their status, and under
`hazards` the places in the code where these behaviours bite.

## 2. The modules

```
 GatedRelease            what the release path promises about production
      ^ refined by
 CanaryRouter --> CanaryPipeline --> MCCanaryPipeline, CanaryPipelineProofs
      |
      +---------> CanaryRollout  --> MCCanaryRollout,  CanaryRolloutProofs
      +---------> Serving        --> MCServing,        ServingProofs
 CanaryVerdict -> CanaryEvidence --> MCCanaryEvidence, CanaryEvidenceProofs
 PromotionGates -> Promotion     --> MCPromotion,      PromotionProofs
                   FailureHarness --> MCFailureHarness, FailureHarnessProofs

 TrackingStore           what those who write to MLflow promise those who read
      ^ refined by
 DataWindows -> Training -> Optimization -+
                    |                     +-> ModelCycle -> MCModelCycle, ModelCycleProofs
                    +----> Retraining ----+
                               ^
                           DriftVerdict
 TrackingStore -> PlatformView -> MCPlatformView, PlatformViewProofs
```

An arrow is EXTENDS; `CanaryPipeline` and `Promotion` instantiate `GatedRelease`, and
`ModelCycle` `TrackingStore`, under a refinement mapping.

**GatedRelease** is the abstract specification: a version is numbered, gets one
chance, and the alias only ever moves to a version whose chance is not over.
Nothing about registries, routers or processes. Both models of the release path
implement it: `CanaryPipeline`, which looks at routers, replays and crashes, and
`Promotion`, which looks at what the candidates are worth.

**CanaryRouter** holds the router's state as a record and its calls as
operators: `Started`, `Stopped`, `Dialled` (the in-process controller), `Active`,
and `MayComplete`, the preconditions of `complete`. `Stopped` keeps the candidate
version, as `stop` does, and `Dialled` does not set `enabled`; together they are
why a dial-up after a rollback revives nothing.

**CanaryPipeline** composes routers and registry. `Hosts` hold a router across
calls; `Promoters` run a direct promotion. `register_candidate` is the four
actions `RegisterModel(Fails)` and `SetAlias(Fails)`; `start_canary` is
`BeginStart`, those, then `OpenTraffic`; `complete` is `BeginComplete` (all of its
guards, which read only local state), `MoveProduction(Fails)`, `ClearCanaryAlias`
(whose failure the code swallows) and `FinishComplete`; `rollback` is one step
because it touches only the router; `decide` is whichever of the two its verdict
selects. `Evaluate` may return any verdict: which verdicts
arise is the subject of `CanaryEvidence`, and the safety of the pipeline must not
depend on it. A `CanaryDecision` stays in `decisions[h]` until the host dies, so
every replay is a behaviour. `Crash` is possible between any two steps and loses
the router and the decisions. Three history variables remember what was withdrawn
(`rolledBack`), what production has named (`named`), and which moves of it were
carried out and answered by an error (`unheard`).

**CanaryVerdict** is `evaluate_canary` as a pure operator over exact fractions.
**CanaryEvidence** is one API process: handler threads count each request in the
order `observe_canary_request` does (`Increments`), one increment a step, while
the evaluator reads ten numbers one at a time (`ReadOrder`), first into the
baseline and later into the sample, and then judges. `hidden` and `seen` are
history variables: what a reading of the canary could have known. `served` is the
number of requests answered, which bounds the instance and is what the counters ought
to show.

**PromotionGates** is every gate of `configs/base.yaml`. **Promotion** is
`run_promotion` from the trained candidate to the alias, call by call, for any
number of promotions side by side; each read and write of the registry may fail
on its own. A canary appears as the label `trial`, from which its version becomes
production or is dropped at any later time.

**CanaryRollout** is `canary --action rollback|decide` run from a shell
(`cli.command_canary`), the `KubernetesTrafficController`, and the rolling update
of the API Deployment it sets off (one surge pod, none unavailable, as in
`k8s/base/21-api-deployment.yaml`). A container takes the allocation from the
ConfigMap when it starts and keeps it; it tries once to load its model and stays
unready if that fails. The environment patches, restarts and registers; the
Kubernetes controllers are external and modelled from the manifests and from how
the code uses `kubectl`. `reopened[o]` is a history variable: has anyone opened a
canary since shell `o` wrote its zero.

**Serving** is one API process from the inside, which `CanaryRollout` sees only
as a pod that becomes ready or does not. `ModelService.load` is a chain of
registry reads (`ResolveProduction`, `ReadTags`, `LoadPipeline`, `BuildCanary`),
and `MoveAlias` may come between any two. `StartServing` is the rest of
`lifespan`: it starts the router from the configuration whether or not a model
loaded. `stop` is its two assignments, `tier_for` its two looks at the router,
and a handler thread takes the model as `predict_with` and `_model_info` do.
`Redeploy` is the model servers coming and going, `Probe` is `/ready`. A version
stands for its model, its score and its threshold, so an answer shows which
version each of its parts came from. `halted` is a history variable, as is a
thread's `late`: did its request arrive after a stop had returned.

**DataWindows** says which rows of the register may be used for what, as functions
of the register and of one loaded configuration: preparation and labels, the
splits (of which `make_splits` compares neighbours only), the production window, and
the guards of `retrain_pipeline.py`. **DriftVerdict** is the verdict of
`compare_frames`, from what each column shows.

**Training** is the life of an offline command - it loads one configuration, works
through its steps, and exits or is killed between any two - and the part they all
share: `run_training` and `log_run_record`. MLflow's fluent interface keeps a stack
of active runs in the process (`active`), refuses to open a second one that is not
nested, and at exit finishes what is still open; all three are in the model, since
they decide whether a record ends up naming a run. Every server call may fail,
applied or not. **Retraining** adds `drift`, `retrain` and `promote`: a check logs
its event, and a retraining acts on that event or on one of an earlier check, whose
window it cuts again from its own data and configuration (`RebuiltWindow`,
`MayRetrainOn`). **Optimization** adds `optimize`: the study, one nested run per
trial, and the two trainings that follow. **ModelCycle** is all of these commands
side by side, on one tracking server and one registry.

What the gates of a promotion say is `Promotion`'s subject; in `Retraining` they
pass or fail as they like, and what matters is which rows the metrics came from and
which run the version came from.

**TrackingStore** is the contract between the two ends of MLflow. Runs are added and
marked for what they are, no mark is taken back, a version belongs to a run that
produced a model, the alias names a version. `ModelCycle` implements it
(`Stored` is what a reader sees of a run) and **PlatformView** relies on it: there,
the store is all the environment does, and a handler answers `/model`,
`/promotions`, `/drift` or `/events` one MLflow read at a time, each of which may
fail. `since`, which is no part of the code, remembers what there was when the
request came and what the alias has named from then on.

**FailureHarness** is one run of `failure/runner.py`: a sequence of the six
scenarios, each through its stages (`Labels`) - note what must not change, scale,
wait, observe, restore, wait, conclude. The scenarios share the actions and
differ by the table `Targets`; the canary scenario also dials the allocation
(`Dial`, `Reset`). What makes the harness delicate is where an exception goes:
before the `try` it leaves the run (`ScaleFails`), inside it goes through the
`finally` (`RaiseThroughFinally`), inside the `finally` it leaves the rest undone
(`RestoreFails`, `FinallyFails`), and `run` catches nothing (`Leave`). Probes do
not raise; they yield one of the observations the cluster allows
(`Observations`), a failed probe included. `wait_gone` gives no guard, since its
answer is dropped. `began` and `refused` are history variables.

## 3. What each run checks

Sizes are distinct states.

| Run | Instance | Checks | Size |
|---|---|---|---|
| `pipeline` | 2 hosts (symmetric), 1 promoter, 3 versions, 1 decision per host, allocations {0, 10, 100} | `IInv`, `RolledBackNeverInstalled`, `RollbackReportIsTrue`, `ImplementsGatedRelease` | 577 k |
| `backwards` | 1 host, 1 promoter, 2 versions | `ProductionMovesForward`, **violated** | – |
| `evidence` | 2 threads (symmetric), 3 canary requests and 1 production request of 5 kinds | `EInv`, `CountersCoherent`, `FailuresNotMissed`, `SlowTailNotMissed`, `PromoteIsMeasured` | 4.6 M |
| `promotion` | 2 promotions (symmetric), 3 versions, 5 candidates | `PInv`, `ReplacementImproves`, `ImplementsGatedRelease` | 362 k |
| `rollout` | 1 shell, 3 pod slots, 2 replicas, 2 versions, 2 restarts, 1 crashing container | `RInv`, `RollbackTakesEffect` (under `FairSpec`) | 1.08 M |
| `command` | the same with 3 versions and no crash | `CompletesRunningCanary`, **violated** | – |
| `serving` | 1 thread, 2 versions of which one is tagged, keys {5, 50}, allocations {0, 10} | `SInv`, `StopIsImmediate`, `CanaryNeverMasked`, `ReadinessFollowsTier` (under `FairSpec`) | 718 k |
| `borrowed` | the same | `AnswerOwnThreshold`, **violated** | – |
| `harness` | 2 scenarios of 6 kinds, all Deployments up or the canary's at zero, 2 versions | `HInv`, `PassEarned`, `LeftDownIsRefused`, `PassIsSound`, `RunRecovers` (under `FairSpec`) | 282 k |
| `leftover` | the same | `InjectedIsRestored`, **violated** | – |
| `cycle` | 1 process that runs command after command, 9 rows, 2 configurations, 2 runs of 2 log calls, 1 drift event, 2 versions, studies of 2 trials | `CInv`, `TrainedOnMatureUnseenRows`, `RegisteredIsComplete`, `LineageIsTrue`, `TrialsShownTruthfully`, `JudgedOnSameRows`, `ImplementsStore` | 302 k |
| `dashboard` | 1 handler, 3 runs, 2 versions, 2 events (symmetric), limits 2, 1 and 2 | `ViewInv`, `ProductionShownWasNamed`, `RegistrationShownTruthfully`, `DenominatorIsHonest`, `RetrainingJoinsItsCheck` | 1.76 M |

What they show, and why the bounds are enough:

* **pipeline.** Three versions let one canary be rolled back, a second be on
  trial and a direct promotion intervene. Two hosts are needed for one canary's
  completion to meet another's start. One decision per host suffices for replay,
  since it is never dropped: it survives the canary it was about and every later
  one of that host. The allocations are a stop, a canary, and one that is refused
  *after* the candidate was registered. `IInv` is the inductive invariant of the proof: routers agree
  with the registry, a version has one owner, nothing rolled back is served.
  `RollbackReportIsTrue` takes a rollback at its word: production never names what it
  withdrew, before or after, unless the move was carried out and answered by an error.
  `WhatMatters` is a VIEW. It leaves out the canary alias, which no step reads and no
  property of the run mentions; of `named` and `unheard`, the versions that are in no
  router and were not withdrawn, of which the properties ask nothing any more; and what
  a decision says that is not to promote, since `rollback` takes any and `complete`
  refuses it.
* **evidence.** Three canary requests reach every share the thresholds tell
  apart, on either side of the minimum of two; two threads are enough for a
  request to be half counted while another is read. `FailuresNotMissed` bounds
  what an unlucky interleaving can hide: one failed request per handler thread.
  Reading errors before requests, or the histogram's total before its buckets,
  breaks it. `PromoteIsMeasured` says that a promotion rests on as many of the
  canary's own answers as it asks for, which counting twice, or counting production's
  requests along with them, would break. Here `MaxErrorPercent` and the others are scaled up to the small
  number of requests, so that one failure is already too many in a full window.
* **promotion.** Candidates are chosen so that each gate separates two of them
  (below the floor, worse ranked, without timing), compared on average precision,
  ROC AUC, Brier score, recall and time together. Three versions let a second
  promotion land between the comparison and the alias move of the first, and a canary
  compared with one version be rolled back when another is production.
* **rollout.** Three slots are the two replicas and the surge pod, which is all
  the Deployment can have running; two restarts let the command's rollout be
  overtaken by another; one crash puts a container of the old template on the new
  allocation.
* **serving.** Two versions are enough for every read of a load to meet an alias
  that has moved; one of them recorded no threshold, which is what makes the
  fallback differ from a wrong one. A key on each side of the allocation takes
  both branches of `tier_for`. One thread suffices here because threads share
  only the router and the model, and write neither; the proofs cover any number.
* **harness.** Two scenarios are one and its successor, which is all it takes for
  damage to be inherited: the run keeps nothing else from one to the next. Every
  kubectl call fails once refused and once applied with its answer lost. Whether
  a scenario passes is decided as the code decides it, so `PassIsSound` is about
  the `held and recovered` of a real report. `LeftDownIsRefused` marks how far the
  fourth finding of section 5 reaches: a run that leaves anything down has had a scale
  or a restore refused, and what it leaves is that Deployment and no other, except in
  the one scenario that scales two.

* **cycle.** The register has a row in every window and one of each kind that
  preparation drops. The second configuration is an edit of the first that samples,
  judges on the window the first retrains on, and derives its label cutoff instead of
  configuring it; the window of a check made under it has not matured under the
  first. So a replayed event meets every guard from both sides. Two runs on the
  server are a training and the check or the bootstrap or the trial that goes with
  it; a process may be killed and the next command start over what it left. No command starts once
  the bound on runs is reached, though one that has started goes on without a run,
  as it does when the server refuses. One process at a time is all this instance
  affords; an instance with two was explored for several million states without a
  violation, and the proofs cover any number.
* **dashboard.** Handlers share nothing, so one is enough. Three runs against limits
  of two and one: each search cuts something off. Writers do everything
  `TrackingStore` allows between any two reads of the handler, so two versions let
  the alias move, and a run be registered, after the handler has looked.

Deadlock is checked in `serving`, where nothing is bounded: a process can always
be probed or restarted. In the other runs it is not (`CHECK_DEADLOCK FALSE`):
a bound on a counter ends every behaviour, and the system may always stop when
nobody calls it.

### Fairness

`CanaryRollout`, `Serving` and `FailureHarness` state some. `ClusterFairness` is
weak fairness of creating a missing pod, of a starting pod becoming ready and of
removing an outdated pod. The Deployment controller and the kubelet are control loops that retry for ever,
which is what justifies it. Nothing is assumed of the operator (a command may be
killed after the restart and never wait), of the registry, or of anybody who
patches by hand. `RollbackTakesEffect` has the premise `[]registryUp`: a
container that starts while MLflow is down is unready for good, because `lifespan`
tries once (`docs/kubernetes.md:185`), and with none of the replicas allowed to be
unavailable the rollout then waits for ever while the old pods keep routing to
the canary. The model keeps that behaviour: without the premise the property
does not hold.

`Serving` assumes weak fairness of `Probe`: the kubelet asks `/ready` every ten
seconds (`k8s/base/21-api-deployment.yaml:99-105`). `ReadinessFollowsTier` then
says of a tier that stays up, or stays away, that the answer ends up agreeing
with it. Nothing is assumed of the tier, of the registry or of the load.

`FailureHarness` assumes that a run, once begun, goes on - it is one process, and
each of its waits and kubectl calls has a timeout or a number of attempts - and
that the Deployment controllers do their work. Nothing is assumed to succeed:
`RunRecovers` says of a run in which no scale was refused that it ends and the
Deployments come back to what they were.

### Mutants

Each property of a passing run comes with a mutated definition that breaks it,
kept beside the definition it changes: `complete` trusting the verdict alone
or returning without the stop, `stop` zeroing only the share, a decision about another candidate, errors counted or
read in the wrong order, the canary's minimum of requests met by all traffic,
a gate forgotten, the newest version taken for the incumbent, a rollback that puts
back the version compared with, a restart skipped, a rollout not awaited,
the threshold read by alias, a canary that falls back to production, readiness
that remembers the startup; a scenario without a `finally`, one that restores its
first Deployment only or expects one replica everywhere, a wait whose answer is
dropped; retraining kept clear of the test split only, the metrics of the decision
split taken with the window in it, the last run taken for the candidate's, a log
call's failure swallowed where the record keeps its run, a trial closed by a `with`
block, the newest version taken for production, the
newest candidate for a check's, a run shown as promoted only while the alias names
it. They are not part of any specification.

## 4. What is proved

For every value of the constants that satisfies the assumptions
(`BoundsAssumption`, `ThresholdAssumption`, `TrafficAssumption`, `ProcessAssumption`, `LimitAssumption`, `MetricsAssumption`,
`RolloutAssumption`, `ServingAssumption`, `HarnessAssumption`, `RegisterAssumption`,
`TrainingAssumption`, `ReadingAssumption`, `RegistryAssumption`, `StudyAssumption`,
`EventsAssumption`, `ViewAssumption`: bounds, limits and dates are naturals, hosts and
promoters are different processes, metrics are integers, there is room for one surge
pod, configured allocations respect the cap, every configuration has its data
settings). Bounds may be any natural numbers, so nothing depends on a registry or a
tracking server being small.

**CanaryPipelineProofs**

* `Invariant`: `Spec => []IInv`. `TypeOK` alone is not inductive for anything of
  interest: that a rolled-back version is never installed needs to know that a
  process about to install `v` is running `v` (`RouterMatchesRegistry`), that no
  other process runs or is about to run `v` (`OneOwner` – else another host's
  rollback withdraws `v` while this one installs it), and that no router can
  return to `v` (`RolledBackNotServed`). The three hold together because a
  version is numbered afresh on every start.
* `ReportsAreTrue`: `[]RollbackReportIsTrue`. It needs to know that a version which
  was ever production is in no router that goes on, unless its move was not heard of
  (`MovesEndTrials`), and that a new candidate has not been production before it moves.
* `TypeCorrect`: `[]TypeOK`; in particular no allocation above the cap.
* `RolledBackStaysOut`: `Spec => RolledBackNeverInstalled`.
* `Refinement`: `Spec => Release!Spec`. Each action of the pipeline is a
  `Progress`, an `Install` or a stutter of `GatedRelease` under `Stage`; the step
  lemma shows that no stage moves back, and that the versions installed are open,
  from `IInv`.
* `ReplacedForGood`: a version whose chance is over and that is not production never
  becomes it again. It is what the refinement is for, said of the code: a promote
  decision may be kept for ever and installs nothing.
* `SoloMovesForward`: with one host and no promoter, `ProductionMovesForward`, the
  promise in the docstring of `complete`, in the setting in which it is true; the
  extra invariant is that production names no newer version than the one the
  host's router runs, or the one it has registered and is about to run.

**PromotionProofs**

* `Judged`: `Spec => []PInv`. The invariant carries the evidence along: a job past
  its gates holds the metrics it was judged against, and these are still the
  metrics of the version it names, because versions are only appended.
* `OnlySoundVersions`: `[]RegistrySound`, whatever reads and writes fail.
* `ReplacementIsImprovement`: `Spec => ReplacementImproves`.
* `Refinement`: `Spec => ImplementsGatedRelease`. `HoldersKept` is the step that
  carries it: what waits for its alias, or is on trial, after a step was so before or
  is new, because a promotion lets go of its version once and for all. Production
  moves only to a version somebody holds (`InstallerHolds`).
* `GatesAreMonotone`: every gate looks the right way, those of metrics where less is
  better too, and a worse incumbent never asks more. So the fallback on the bootstrap
  model rejects nothing that production would have let through, as long as production
  predicts no worse; the danger is all on the other side (section 5).
* `ReplacedForGood`, as for the pipeline: production is never handed back to a version
  whose promotion is over. It may still be handed on to something worse, by a promotion
  that was compared with something else (section 5).

**CanaryEvidenceProofs**, for any number of handler threads, any traffic and any
thresholds, with a histogram of two buckets

* `VerdictIsMonotone`: over as many requests, a canary that does no worse beside an
  incumbent that does no better is promoted wherever the other is, and rolled back
  only where the other is. So the direction in which a reading errs decides what it
  can do; the next theorems are about that direction.
* `EvidenceInvariant`: `Spec => []EInv`. Four parts. `TypeOK` knows the order of the
  increments: what a thread has still to count is the rest of such a list (`Pending`).
  `CountersBalance` says that two counters of a tier differ by at least the threads
  that have made one of the two counts and not the other (`Between`); the coherence of
  the counters by itself is not inductive, since it has to survive the next increment
  of each of those threads. `BaselineClean` makes the window the whole history of the
  canary. `ReadingBounds` is about the reader: what is read later can only have grown, so that
  each value read, once taken, bounds what really happened (`Taken`).
* `CountersAlwaysCoherent`: `[]CountersCoherent`.
* `PromoteMissesFewFailures`: `[]FailuresNotMissed`. `PromoteSeesSlowTail`:
  `[]SlowTailNotMissed`. What a promote verdict says of the sample (`PromoteMeans`),
  carried over to what really happened by `ReadingBounds`.
* `CountedRequestsWereAnswered`: `[]CountedWhenAnswered`. The number counted and the
  threads that have answered and not yet counted make up, exactly, the number
  answered.
* `PromotedWasMeasured`: `[]PromoteIsMeasured`. `CanaryRollout` assumes as much of a
  promote verdict (`measured`), there of the same counters read through Prometheus.

**CanaryRolloutProofs**

* `Landing`: `Spec => []RInv`. That no pod routes to the canary once a rollback
  has returned needs, one step earlier, that every pod of the newest template
  started after the zero was written (`RestartedPodsAreDrained`), which survives
  further rollouts and crashing containers only because the ConfigMap still says
  zero (`ZeroStays`).
* `ReturnedMeansDrained`: `[]RollbackLanded`.

**ServingProofs**

* `Answers`: `Spec => []SInv`, for any number of threads, keys, versions and
  tags. What a thread does is right because of what startup left behind: `load`
  and `lifespan` look at the configuration at different times, so that a router
  that offers traffic has a client beside it (`RouterHasClient`) has to be carried
  from one to the other; the threshold is read by version, so it follows the
  version however the alias moves (`ThresholdOfVersion`); and a router that was
  stopped stays off, because `set_traffic` does not enable it (`StopLasts`).
  `ThreadsRunOnModel` says what a half-done request has taken from these.
* `NeverMasked`: `[]CanaryNeverMasked`. `ImmediateStop`: `[]StopIsImmediate`.

**FailureHarnessProofs**

* `Bookkeeping`: `Spec => []HInv`. While the run goes on, whatever differs from the
  cluster as it was found is written down at the scale it was found at
  (`Accounted`). A Deployment is written down when it is first touched only
  because no scenario scales one twice, for which the invariant has to know what
  was written down so far and in which order (`SavedInOrder`); and a scenario
  starts in a whole cluster only because an exception ends the run.
* `OnlyRefusedIsLeft`: `[]LeftDownIsRefused`.
* `EvidenceIsEarned`: `Spec => []PassEarned`, over `HInv`. A scenario says that it has
  recovered after a wait that found its Deployments up. That they are still up when it
  reports needs to know that what runs, ran before (`ScalesKnown`), so that nothing
  between the wait and the report has a reason to take it away; the canary's zero, that
  nothing but the reset comes after the rollback (`CanaryClosed`).
* `PassesAreSound`: `Spec => PassIsSound`. The report grows when a scenario concludes
  and nowhere else, and an alias that could not be read is no alias (`AliasNoted`).

**ModelCycleProofs**

* `SplitsApart`: no row is in two splits, although `make_splits` compares each window
  with the next only. That this is enough rests on windows not being inverted and on
  there being a next one: of the windows that start later the earliest is a neighbour
  (`EndsBefore`). The lemmas around it say what is known of the rows that preparation
  leaves.
* `DriftIsMonotone`: a check that detects drift detects it in every window that is no
  calmer, under all thresholds no stricter. The premise that had to be made is that no
  numeric column was lost (`NoCalmer`): one that is missing altogether has not drifted,
  however far it had moved before (section 5).
* `CycleInvariant`: `Spec => []CInv`, for any number of processes, any register, any
  configurations. `CInv` is a piece for each process (`JobInv`) and one for each run
  on the server (`RunInv`). A step of one process leaves the pieces of the others
  alone because all it does to what they share is to add runs, events and versions,
  or to change a run that it has open or in hand (`Grow`, `OthersKeep`). That is why
  the invariant has to know that a run is in one hand only (`OpenRunOwned`,
  `HandsApart`), up to the moment its lineage is tagged.
* `NothingLeaks`: `[]TrainedOnMatureUnseenRows`. The window of a retraining was judged
  by the guards under the configuration the training then uses, whatever the event
  it came from (`WindowSound`); the training split by `SplitsApart`.
* `RegisteredRunsComplete`: `[]RegisteredIsComplete`. A record that names a run once
  logging is over names a complete one: every failure takes the name away
  (`RecordSound`, `CandidateSound`).
* `LineageHolds`, `TrialsAreTrue`: the properties of the same kind.
* `SameExam`: `[]JudgedOnSameRows`, since a run's exam is a function of its
  configuration and lines (`RunsSound`) and so is the candidate's.
* `CycleImplementsStore`: `Spec => ImplementsStore`. Each step is one of
  `TrackingStore`, or none; that a tag lands on a run without one is `HandsApart`.

**PlatformViewProofs**

* `ReadsStayTrue`: `Spec => []ViewInv`, for any number of handlers and any limits. A
  page mixes reads of different moments; it stays true because versions read are a
  prefix of those there are (`VersionsKept`), because what a tag says of a run is
  never taken back (`StoreSound`), and because a search can only lose what it once
  found to newer runs, never find again what its limit cut off (`NewestShrinks`).
  `ReadsSound` carries what was read early to where it is shown.
* `ProductionIsNamed`, `RegistrationIsTrue`, `UnregisteredAreCounted`, `JoinIsTrue`:
  the four properties of the run.

`PlatformView` is proved over `TrackingStore` and `ModelCycle` is proved to implement
it, so what the dashboard shows is right for the writers this repository has, as far
as the abstractions of section 6 go.

Every safety and action property that a passing run checks is thus proved for all
values of the constants. Only model-checked are `RollbackTakesEffect`,
`ReadinessFollowsTier` and `RunRecovers`: liveness under fairness needs ENABLED, which
the prover cannot handle.

## 5. What the checks found

Four places where the code does something else than its own text says, each with a
run that shows it.

1. **`complete` can move production backwards** (`backwards`). Its docstring gives
   the running-canary guard as the reason why it cannot; the guard does not look
   at what production names, so a direct promotion during the canary is undone.
   `docs/canary.md:22` also says no path to production skips the canary;
   `promote` and `retrain` do.
2. **`canary --action decide` completes canaries that are over** (`command`). The
   router it hands to `complete` was started by the command itself, so two of the
   three preconditions compare the command with itself.
3. **A canary's answer is flagged by the incumbent's threshold** (`borrowed`).
   `load` keeps one threshold, read from the tags of the production version;
   `predict` applies it to the canary's scores too, and the response reports it
   beside the candidate's version and the incumbent's `threshold_source`, where
   `_threshold_from` promises that a borrowed number is never presented as the
   model's own.
4. **The telemetry scenario can leave Prometheus at zero** (`leftover`). It scales
   both Deployments in one expression before its `try`; when the second call
   raises, the first is never restored, although "every injector has a matching
   restore, and the scenario runner calls it in a `finally`".

Others were met while reading and have no run of their own.

*Release path.* A rollback always reports that production was never moved, and
`docs/canary.md:126` and `:222-224` say why there is nothing to restore. When the
registry carried the move out and its answer was lost, `complete` raises, the canary
runs on, and a rollback then withdraws what production names; `RollbackReportIsTrue`
says that nothing else makes the report wrong of what a rollback withdraws. `rollback`
has no guard, so that a decision replayed after its canary was completed withdraws
nothing and reports the same. After a `complete` that failed at its controller,
production has moved while the canary still gets its share. What the canary alias
names is nobody's concern but that of `load`, which reports it: `start_canary` points
it before it knows whether the allocation is accepted, and `complete` deletes it by
name, be it another's. `_ratio` returns infinity for a zero incumbent where its docstring
says 1.0 and leaves the decision to the absolute ceiling
(`…/monitoring/canary.py:169-171`), and an idle production tier has a p95 of zero.
`PrometheusSignals` makes a NaN quantile 0.0 under a comment that says it must not
(`…/monitoring/signals.py:169-171`), and a series born with its first failures has
an increase of zero. `resolve_production` takes any exception for "no alias"
(`…/promotion/registry.py:52-63`): with the registry away the candidate is judged
against the bootstrap model and, if the registry answers again a moment later,
replaces a better production. A gate's margin compares float differences
(`…/promotion/gates.py:127`), and metrics that may decline by a margin may do so
each time (`:169`).

*Tracking.* When a call in `StudyTracker.__enter__` fails after `start_run`, the run
stays active; the baseline and the tuned model are then trained without a run of
their own, and the exit hook marks the study finished even if it failed. `log_trial`
finishes a trial whatever was logged to it. `Training` and `Optimization` keep all
of this; no text denies it.

*Data.* A comment says that rows are never dropped on their outcome
(`…/data/preprocessing.py:167-168`), though unresolved ones are; a charge-off without
a date is labelled 0; a derived label cutoff subtracts whole years. A feature that is
missing throughout the window has no drift, and a constant feature's verdict is
overwritten by the common threshold (`…/monitoring/drift.py:332`). The window rebuilt
from an event is never compared with the event's fingerprint
(`…/pipelines/retrain_pipeline.py:155`), a window inside the training split is not
refused, and one with a scenario's inputs may end up in a registered model. Event and
report names have a resolution of one second. `docs/drift.md` says that the
incumbent's metrics come from registry tags; they come from its run.

*Dashboard.* A search that fails is an empty list, so `/events` says "rejected",
`/drift` "not promoted" or that no retraining ran, and `/promotions` counts no
unregistered candidate, with `available` true - where `…/api/platform.py:11-15` and
`README.md:44` promise that unavailable data is shown as unavailable. This is why the
properties of `dashboard` say "unless a read failed" where they do. A candidate that
is still being judged is shown as rejected. The "honest denominator" (`195`) counts the
models among the newest 200 runs, those of drift checks and canary decisions included
(`391`), and forgets the others. The payload of `/model` lacks the loaded version that
its comment (`573-576`) calls the point of it.

*Harness.* The bad-candidate scenario is described as working on an isolated store,
but `command_failure` passes no `offline_config`, so it runs on the live
configuration (`…/failure/runner.py:85`). The canary scenario asks
`no_fabricated_predictions` only of the responses without a score, of which it always
holds (`…/failure/scenarios.py:391`). And since the answer of `wait_gone` is dropped
(`:448`), the telemetry and canary scenarios may pass on a system nothing was wrong
with.

## 6. Abstractions

* *Rates, latencies, metrics.* Rates are exact fractions, latencies are histogram
  edges, gate metrics are integers; the rounding of floats at a threshold is left
  out and listed as a hazard.
* *The candidate URL* of the router is set by every start and is left out, as are
  `started_at`, notes and other fields only reports read. Of a decision, the
  verdict and the candidate version are kept.
* *`promote --no-register`* returns before the registry is touched; for the
  registry that is `RegisterModelFails` without a version.
* *The registry* either answers, or fails with or without effect; its reads are
  never wrong, and it never forgets a version.
* *Requests.* `CanaryEvidence` has canary requests only once the window is marked
  ("when the canary started", as `InProcessSignals` says); production requests
  come at any time. In `CanaryRollout`, a promote verdict requires only that the
  canary tier answered at some time (`measured`), because the Prometheus window
  outlives the canary.
* *Pods.* A terminating pod counts as gone, and the predictor tiers are up.
  A rollout by `kubectl` is complete when every pod is of the newest template and
  ready, as `rollout status` reports it.
* *Serving.* `Active` reads three fields of the router and is taken as one
  reading: after startup at most one of the three changes while it is evaluated.
  Feature sets are left out: a model and an event of different ones is a refusal.
  In process the pipeline is loaded by alias after the version was resolved, so it
  may be another version's than the one reported; the model keeps that (`pipeline`)
  and no property denies it: `SInv` is about the threshold.
* *The harness.* Eight, twelve or twenty probes are one observation; nobody else
  scales a Deployment or patches the ConfigMap during a run; `set_traffic` lands or
  raises somewhere, call by call only in `CanaryRollout`; the promotion inside the
  bad-candidate scenario is `Promotion`, here its outcome. A store that is not the
  cluster's may answer anything.
* *Offline commands.* The register is the raw file, pinned by its checksum; a
  development environment's sample is the rows marked `drawn`. Of the four controlled
  scenarios two are named, since the others move inputs in the same way. Parameters,
  metrics, tags and model are `LogCalls` calls of one kind; a run's metrics are there
  after the first, a reader's tags after the last. `_tag_candidate` sets its tags one
  by one: in `Retraining` the event's is the one kept, in `TrackingStore` it may come
  without the others' (`MarkCandidate`). Metrics stand for the rows they were measured
  on. `JudgedOnSameRows` is conditional because it has to be: `--nrows` or an edited
  split between two trainings makes their metrics incomparable, and nothing in the
  code asks. For the same reason `TrainedOnMatureUnseenRows` is about the run's own
  configuration: production may have been judged, under another, on rows that a
  candidate is trained on.
* *Optuna* runs trials and picks one of the completed, in the direction and from the
  search space the configuration gives; which one wins is left out, with its
  parameters and its score. Whether any trial completed is kept, since without one
  nothing is trained.
* *Buckets.* `CanaryEvidence` has two cumulative ones, up to the first edge and all;
  the order in which buckets are read is what its property is about.
* *The dashboard.* Ids stand for runs and versions; of a page the fields are kept that
  join reads or tell registered from not. The final cut of `/events` to the requested
  number is left out, as are decisions of canaries, whose runs look unmarked.
* *Starting a container* in `CanaryRollout` reads the environment in one step;
  loading the model is one registry read, in `BecomeReady`.

## 7. Not modelled

Feature engineering, baselines, scoring and the drift indices are numeric code with
no control worth a model; what is done with their results is modelled. Tracing and
the dashboard's frontend only pass on what they are given. The dashboard's other
endpoints (`/health`, `/lifecycle`, `/canary`, `/observability`, `/gates`, `/failure`)
make one read each, or list facts that do not change; whatever makes a page hard to
get right is in the four that join several reads. Determinism and reproduction
fingerprint an environment and keep nothing. Manifests other than the API Deployment
are static. Commands that neither start a pipeline nor change shared state
(`download`, `validate`, `reproduce`) are left out of the command line.

## 8. Plan

What is left, most useful first.

| Module | Question | Theorem |
|---|---|---|
| `WindowSignals` (new) | `PrometheusSignals`: extrapolated windows, missing series, NaN quantiles, replicas that restart; the health gauge that is set once at startup | what a verdict over a sliding window can have missed |
| `Serving` and `CanaryRollout` | a pod of the rollout is one API process seen from outside | that what `CanaryRollout` assumes of a pod holds of `Serving` |

`WindowSignals` would refine what `CanaryEvidence` reads in process. The hazards it
is about (`…/api/main.py:131`, `…/monitoring/signals.py:171`) are listed without a
property, as is a rollback that needs Prometheus (`…/cli.py:298`).
