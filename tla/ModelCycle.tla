----------------------------- MODULE ModelCycle -----------------------------
(***************************************************************************)
(* The offline half of the platform as one system: every command that      *)
(* trains or examines a model, over one tracking server and one registry.  *)
(* Processes share nothing else; each holds the configuration it loaded,   *)
(* and the file it came from may be edited before the next one starts.     *)
(***************************************************************************)
EXTENDS Retraining, Optimization

vars == <<trainingVars, registryVars>>

Init ==
    /\ runs = <<>> /\ events = <<>> /\ versions = <<>> /\ production = 0
    /\ active = [j \in Jobs |-> Inactive]
    /\ pc = [j \in Jobs |-> "idle"]
    /\ job = [j \in Jobs |-> NoJob]

Next ==
    \E j \in Jobs :
        \/ RetrainingStep(j)
        \/ (TrainingStep(j) \/ OptimizationStep(j)) /\ UNCHANGED registryVars

Spec == Init /\ [][Next]_vars

Labels == {"idle", "check", "decide", "train", "open", "log", "saved", "tag", "resolve",
           "gates", "register", "alias", "enter", "trial", "trial_open", "trial_log",
           "exit_study", "exit"}

TypeOK ==
    /\ runs \in Seq(Run) /\ events \in Seq(Event)
    /\ versions \in Seq(Nat) /\ production \in Nat
    /\ active \in [Jobs -> [study : Nat, inner : Nat]]
    /\ pc \in [Jobs -> Labels]
    /\ job \in [Jobs -> Job]

-----------------------------------------------------------------------------
(* What a run of kind "training" is evidence of. *)

\* The rows a configuration judges models on.
Exam(config, lines) ==
    Split(Prepare(Setting[config], lines), Setting[config], "validation")

\* Each label was knowable when observation ended, no row belongs to a split the
\* configuration judges models on, and the rows of a window had matured.
SoundRows(config, trained, window) ==
    LET cfg == Setting[config] IN
    /\ \A row \in trained : HorizonEnd(row, cfg) <= cfg.observation_end
    /\ \A row \in trained : LabelAvailable(row, cfg) <= cfg.observation_end
    /\ \A row \in trained, name \in EvaluationSplits : ~InWindow(row, cfg.split[name])
    /\ \A row \in window : row.approved <= LabelMaturityEnd(cfg)

TrainingRuns == {i \in DOMAIN runs : runs[i].kind = "training"}
Complete(i) == runs[i].status = "FINISHED" /\ runs[i].logged = LogCalls

(* The properties. *)

\* No model is trained on an outcome nobody could know yet, nor on a row of a split
\* that the configuration it was trained under judges models on: whichever command
\* trained it, whatever configuration that is, and however old the drift event is
\* whose window was added (run_training, run_retraining, make_splits).  An incumbent
\* of another configuration may have been judged on rows this one is trained on.
TrainedOnMatureUnseenRows ==
    \A i \in TrainingRuns : SoundRows(runs[i].config, runs[i].trained, runs[i].window)

\* What the registry serves came from a training whose run was finished with
\* everything logged; a run that tracking gave up on is never registered
\* (log_run_record, register_candidate).
RegisteredIsComplete ==
    \A v \in DOMAIN versions : versions[v] \in TrainingRuns /\ Complete(versions[v])

\* A run that names a drift event it was not the check of was trained on that
\* event's window: the dates and the scenario of the check, as the run's own
\* configuration prepares them.  Runs of other commands and of other processes
\* name none (_tag_candidate).
LineageIsTrue ==
    \A i \in DOMAIN runs :
        runs[i].event # 0 /\ runs[i].kind # "check" =>
            /\ i \in TrainingRuns /\ runs[i].event \in DOMAIN events
            /\ runs[i].window # {}
            /\ runs[i].window = CurrentWindow(Prepare(Setting[runs[i].config], runs[i].lines),
                                    events[runs[i].event].window,
                                    events[runs[i].event].scenario)

\* A study's list of runs never presents a failed trial as a completed one, nor
\* the reverse (StudyTracker).
TrialsShownTruthfully ==
    \A i \in DOMAIN runs :
        runs[i].kind = "trial" =>
            /\ runs[i].status = "FINISHED" => runs[i].completed
            /\ runs[i].status = "FAILED" => ~runs[i].completed

\* When the gates compare, both sets of metrics come from the same rows, provided
\* both trainings loaded the same configuration and read the same lines; a
\* bootstrap model is always judged like the candidate (run_promotion).
JudgedOnSameRows ==
    \A j \in Jobs :
        pc[j] = "gates" =>
            IF job[j].compared = 0
            THEN job[j].record.exam = job[j].candidate.exam
            ELSE LET incumbent == runs[job[j].compared] IN
                 (incumbent.config = job[j].config /\ incumbent.lines = job[j].lines)
                    => incumbent.exam = job[j].candidate.exam

(* What those who only read the tracking server and the registry may rely on. *)

\* The tags of a run that a reader looks at.  Those of a check are among its first
\* log calls; a training run is known by its tags once all of them are made.
Stored(run) ==
    [type |-> CASE run.kind = "check" -> IF run.logged = 0 THEN "none" ELSE "drift_check"
                [] run.kind = "training" ->
                      IF run.event = 0 THEN "none" ELSE "retraining_candidate"
                [] OTHER -> "study",
     model |-> run.kind = "training" /\ run.logged = LogCalls,
     event |-> IF run.kind = "check" /\ run.logged = 0 THEN 0 ELSE run.event]

Store == INSTANCE TrackingStore WITH
            Events <- 1..MaxEvents, runs <- [i \in DOMAIN runs |-> Stored(runs[i])]

\* Whatever the commands do, and wherever they fail or are killed, the store only
\* grows: no mark of a run is taken back or given twice, versions are those of
\* runs that produced a model, and production names one of them
\* (log_run_record, _tag_candidate, register_candidate).
ImplementsStore == Store!StoreSpec

-----------------------------------------------------------------------------
(* The inductive invariant: the properties and what they rest on. *)

Judging == {"tag", "resolve", "gates", "register", "alias"}
Studying == {"trial", "trial_open", "trial_log", "exit_study"}
Recording == {"open", "log", "saved"}

\* Run i is the one a record of process j names.
Describes(i, record, j) ==
    /\ i \in DOMAIN runs /\ runs[i].kind = KindOf(j)
    /\ runs[i].config = job[j].config /\ runs[i].lines = job[j].lines
    /\ runs[i].window = record.window

\* A check knows its event from the start, a training run gets one when it is complete.
RunsSound ==
    /\ Len(events) <= MaxEvents
    /\ \A i \in DOMAIN runs :
          /\ runs[i].kind = "training" =>
                /\ runs[i].exam = Exam(runs[i].config, runs[i].lines)
                /\ runs[i].status = "FINISHED" => runs[i].logged = LogCalls
                /\ runs[i].event # 0 => runs[i].logged = LogCalls
          /\ runs[i].kind = "check" => runs[i].event \in DOMAIN events
          /\ runs[i].kind \in {"study", "trial"} => runs[i].event = 0

\* A process has its run open just while it logs to it, and has it to itself.
OpenRunOwned(j) ==
    /\ active[j].inner # 0 <=> pc[j] \in {"log", "trial_log"}
    /\ active[j].inner # 0 =>
          /\ active[j].inner \in DOMAIN runs
          /\ runs[active[j].inner].status = "RUNNING"
          /\ \A k \in Jobs \ {j} : active[k].inner # active[j].inner
    /\ pc[j] = "log" =>
          /\ active[j].inner = job[j].record.run
          /\ Describes(job[j].record.run, job[j].record, j)
    /\ pc[j] = "trial_log" =>
          /\ runs[active[j].inner].kind = "trial"
          /\ runs[active[j].inner].completed = LastCompleted(j)
    /\ active[j].study # 0 =>
          active[j].study \in DOMAIN runs /\ runs[active[j].study].kind = "study"
    /\ pc[j] \in Studying /\ job[j].tracker # 0 => active[j].study = job[j].tracker

\* Where a command is, what it has in hand.
JobOrdered(j) ==
    /\ job[j].event # 0 => job[j].event \in DOMAIN events
    /\ job[j].role = "check" => job[j].window = {} /\ job[j].candidate.run = 0
    /\ pc[j] \in {"check", "decide"} => job[j].role = "check"
    /\ pc[j] = "decide" => job[j].event # 0
    /\ pc[j] = "train" => job[j].role # "check"
    /\ pc[j] \in Recording /\ job[j].role = "check" => job[j].event # 0
    /\ pc[j] \in {"train"} \cup Recording /\ job[j].role = "candidate"
          /\ job[j].command = "retrain" => job[j].window # {}
    /\ pc[j] = "tag" => job[j].window # {}
    /\ pc[j] = "enter" => job[j].tracker = 0
    /\ pc[j] \in {"trial_open", "trial_log"} => job[j].tracker # 0

\* A window is that of the job's event, and passed the guards.
WindowSound(j) ==
    job[j].window # {} =>
        /\ job[j].event # 0
        /\ job[j].window = RebuiltWindow(j)
        /\ MayRetrainOn(job[j].window, j)

RecordSound(j) ==
    /\ pc[j] \in Recording /\ KindOf(j) = "training" =>
          /\ SoundRows(job[j].config, job[j].record.trained, job[j].record.window)
          /\ job[j].record.exam = Exam(job[j].config, job[j].lines)
          /\ job[j].role = "candidate" => job[j].record.window = job[j].window
    /\ pc[j] = "saved" /\ KindOf(j) = "training" /\ job[j].record.run # 0 =>
          Describes(job[j].record.run, job[j].record, j) /\ Complete(job[j].record.run)
    /\ pc[j] \in Judging \/ job[j].role = "bootstrap" =>
          job[j].candidate.exam = Exam(job[j].config, job[j].lines)
    /\ pc[j] \in Judging \ {"tag", "resolve"} /\ job[j].compared = 0 =>
          job[j].record.exam = job[j].candidate.exam

\* A candidate that names a run names a complete one, which had the job's window.
CandidateSound(j) ==
    /\ job[j].candidate.run # 0 =>
          /\ job[j].candidate.run \in TrainingRuns /\ Complete(job[j].candidate.run)
          /\ runs[job[j].candidate.run].config = job[j].config
          /\ runs[job[j].candidate.run].lines = job[j].lines
          /\ runs[job[j].candidate.run].window = job[j].window
    /\ job[j].compared # 0 => job[j].compared \in TrainingRuns
    /\ job[j].version \in 0..Len(versions)
    /\ pc[j] = "alias" => job[j].version # 0

\* Until its run is tagged no other process has a hand on it.
InHand(j) ==
    CASE pc[j] \in {"log", "saved"} -> job[j].record.run
      [] pc[j] = "tag" -> job[j].candidate.run
      [] OTHER -> 0

HandsApart(j) ==
    InHand(j) # 0 =>
        /\ InHand(j) \in DOMAIN runs
        /\ InHand(j) \in TrainingRuns => runs[InHand(j)].event = 0
        /\ \A k \in Jobs \ {j} : InHand(k) # InHand(j)

JobsSound ==
    \A j \in Jobs :
        /\ OpenRunOwned(j) /\ JobOrdered(j) /\ WindowSound(j)
        /\ RecordSound(j) /\ CandidateSound(j) /\ HandsApart(j)

CInv ==
    /\ TypeOK /\ RunsSound /\ JobsSound /\ production \in 0..Len(versions)
    /\ TrainedOnMatureUnseenRows /\ RegisteredIsComplete /\ LineageIsTrue
    /\ TrialsShownTruthfully
=============================================================================
