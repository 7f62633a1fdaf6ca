----------------------------- MODULE Retraining -----------------------------
(***************************************************************************)
(* `drift`, `retrain` and `promote`: run_drift_check                       *)
(* (pipelines/drift_pipeline.py), run_retraining                           *)
(* (pipelines/retrain_pipeline.py) and the run_promotion it ends in, on    *)
(* top of the training they share.  Retraining may be handed the event of  *)
(* an earlier check, under another configuration than that check had.      *)
(*                                                                         *)
(* What the gates say is PromotionGates; here they pass or fail as they    *)
(* like, and what matters is what a registered version was trained and     *)
(* judged on.                                                              *)
(***************************************************************************)
EXTENDS Training, DriftVerdict

CONSTANTS
    MaxEvents,      \* bound: drift checks that reach a verdict
    MaxVersion      \* bound: versions registered

ASSUME RegistryAssumption == MaxEvents \in Nat /\ MaxVersion \in Nat

VARIABLES
    events,         \* the checks made, in order; an event id is a place here
    versions,       \* the run each registered version came from
    production      \* the version the production alias names, 0 for none

registryVars == <<events, versions, production>>

\* window: the dates compared; rows: what they held.
Event == [window : Window, scenario : Scenarios, rows : SUBSET Row,
          drifted : BOOLEAN]

(* run_drift_check *)

StartCheck(j, command, config, lines, force) ==
    /\ Launch(j, command, config, lines, force, 0, "check", "check")
    /\ UNCHANGED <<runs, active, registryVars>>

\* The report is written before the event is logged.
CheckDrift(j) ==
    LET cfg == Setting[job[j].config] IN
    /\ pc[j] = "check" /\ Len(events) < MaxEvents
    /\ SplitsUsable(RowsOf(j), cfg)
    /\ \E scenario \in Scenarios, readings \in [Features -> Readings] :
          LET rows == CurrentWindow(RowsOf(j), cfg.drift_window, scenario) IN
          /\ rows # {}
          /\ events' = Append(events,
                [window |-> cfg.drift_window, scenario |-> scenario, rows |-> rows,
                 drifted |-> DriftDetected(readings, cfg)])
    /\ job' = [job EXCEPT ![j].event = Len(events) + 1]
    /\ Goto(j, "open")
    /\ UNCHANGED <<runs, active, versions, production>>

\* SplitError, WindowError, or data that does not validate.
CheckFails(j) ==
    /\ pc[j] = "check"
    /\ Leave(j)
    /\ UNCHANGED <<runs, active, registryVars>>

SaveCheck(j) ==
    /\ pc[j] = "saved" /\ job[j].role = "check"
    /\ IF job[j].command = "drift" THEN Leave(j)
       ELSE Goto(j, "decide") /\ UNCHANGED job
    /\ UNCHANGED <<runs, active, registryVars>>

(* run_retraining *)

\* With an event of an earlier check.
StartReplay(j, config, lines, force, event) ==
    /\ Launch(j, "retrain", config, lines, force, event, "check", "decide")
    /\ UNCHANGED <<runs, active, registryVars>>

LeaveAlone(j) ==
    /\ pc[j] = "decide" /\ ~events[job[j].event].drifted /\ ~job[j].force
    /\ Leave(j)
    /\ UNCHANGED <<runs, active, registryVars>>

\* The window of the event, cut again from what this job reads.
RebuiltWindow(j) ==
    CurrentWindow(RowsOf(j), events[job[j].event].window, events[job[j].event].scenario)

MayRetrainOn(rows, j) ==
    LET cfg == Setting[job[j].config] IN
    /\ rows # {} /\ LabelsMatured(rows, cfg)
    /\ SplitsUsable(RowsOf(j), cfg) /\ DisjointFromEvaluation(rows, cfg)

Retrain(j) ==
    /\ pc[j] = "decide" /\ (events[job[j].event].drifted \/ job[j].force)
    /\ MayRetrainOn(RebuiltWindow(j), j)
    /\ job' = [job EXCEPT ![j].window = RebuiltWindow(j), ![j].role = "candidate",
                          ![j].record = NoRecord]
    /\ Goto(j, "train")
    /\ UNCHANGED <<runs, active, registryVars>>

\* WindowError, MaturityError, SplitError or an overlap: nothing was trained.
RefuseToRetrain(j) ==
    /\ pc[j] = "decide" /\ (events[job[j].event].drifted \/ job[j].force)
    /\ ~MayRetrainOn(RebuiltWindow(j), j)
    /\ Leave(j)
    /\ UNCHANGED <<runs, active, registryVars>>

\* The candidate is kept while a bootstrap model may have to be trained.
SaveCandidate(j) ==
    /\ pc[j] = "saved" /\ job[j].role = "candidate"
    /\ job' = [job EXCEPT ![j].candidate = job[j].record]
    /\ Goto(j, IF job[j].command = "retrain" THEN "tag" ELSE "resolve")
    /\ UNCHANGED <<runs, active, registryVars>>

\* The run that was started last.
LastRun(j) == Len(runs)

\* The run of the record that run_training returned.
TaggedRun(j) == job[j].candidate.run

\* _tag_candidate: skipped without a run, and its failures are swallowed.  Of the
\* tags it sets one by one only the event's is kept here.
TagCandidate(j) ==
    /\ pc[j] = "tag"
    /\ \/ TaggedRun(j) # 0 /\ runs' = [runs EXCEPT ![TaggedRun(j)].event = job[j].event]
       \/ UNCHANGED runs
    /\ Goto(j, "resolve")
    /\ UNCHANGED <<active, job, registryVars>>

(* run_promotion *)

StartPromote(j, config, lines) ==
    /\ Launch(j, "promote", config, lines, FALSE, 0, "candidate", "train")
    /\ UNCHANGED <<runs, active, registryVars>>

MetricsLogged(run) == runs[run].logged >= 1

\* The incumbent's metrics are those its own run logged.
MetricsFromRegistry(j) ==
    /\ pc[j] = "resolve" /\ production # 0
    /\ MetricsLogged(versions[production])
    /\ job' = [job EXCEPT ![j].compared = versions[production]]
    /\ Goto(j, "gates")
    /\ UNCHANGED <<runs, active, registryVars>>

\* No alias, a registry that is away, or no metrics: one case.
Bootstrap(j) ==
    /\ pc[j] = "resolve"
    /\ job' = [job EXCEPT ![j].compared = 0, ![j].role = "bootstrap"]
    /\ Goto(j, "train")
    /\ UNCHANGED <<runs, active, registryVars>>

SaveBootstrap(j) ==
    /\ pc[j] = "saved" /\ job[j].role = "bootstrap"
    /\ Goto(j, "gates")
    /\ UNCHANGED <<runs, active, job, registryVars>>

PassGates(j) ==
    /\ pc[j] = "gates"
    /\ Goto(j, "register")
    /\ UNCHANGED <<runs, active, job, registryVars>>

\* Rejected, or asked not to register.
FinishUnregistered(j) ==
    /\ pc[j] = "gates"
    /\ Leave(j)
    /\ UNCHANGED <<runs, active, registryVars>>

\* register_candidate
RegisterModel(j) ==
    /\ pc[j] = "register" /\ job[j].candidate.run # 0 /\ Len(versions) < MaxVersion
    /\ versions' = Append(versions, job[j].candidate.run)
    /\ job' = [job EXCEPT ![j].version = Len(versions) + 1]
    /\ Goto(j, "alias")
    /\ UNCHANGED <<runs, active, events, production>>

\* Nothing to register, or the call fails; the version may exist nevertheless.
RegisterModelFails(j) ==
    /\ pc[j] = "register"
    /\ \/ UNCHANGED versions
       \/ /\ job[j].candidate.run # 0 /\ Len(versions) < MaxVersion
          /\ versions' = Append(versions, job[j].candidate.run)
    /\ Leave(j)
    /\ UNCHANGED <<runs, active, events, production>>

PointAlias(j) ==
    /\ pc[j] = "alias"
    /\ production' = job[j].version
    /\ Leave(j)
    /\ UNCHANGED <<runs, active, events, versions>>

PointAliasFails(j) ==
    /\ pc[j] = "alias"
    /\ production' \in {production, job[j].version}
    /\ Leave(j)
    /\ UNCHANGED <<runs, active, events, versions>>

RetrainingStep(j) ==
    \/ \E config \in Configs, lines \in Lines :
          \/ StartCheck(j, "drift", config, lines, FALSE)
          \/ StartPromote(j, config, lines)
          \/ \E force \in BOOLEAN :
                \/ StartCheck(j, "retrain", config, lines, force)
                \/ \E event \in 1..Len(events) : StartReplay(j, config, lines, force, event)
    \/ CheckDrift(j) \/ CheckFails(j) \/ SaveCheck(j)
    \/ LeaveAlone(j) \/ Retrain(j) \/ RefuseToRetrain(j)
    \/ SaveCandidate(j) \/ TagCandidate(j)
    \/ MetricsFromRegistry(j) \/ Bootstrap(j) \/ SaveBootstrap(j)
    \/ PassGates(j) \/ FinishUnregistered(j)
    \/ RegisterModel(j) \/ RegisterModelFails(j) \/ PointAlias(j) \/ PointAliasFails(j)
=============================================================================
