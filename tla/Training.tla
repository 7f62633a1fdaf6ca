------------------------------ MODULE Training ------------------------------
(***************************************************************************)
(* run_training (pipelines/train_pipeline.py) and log_run_record           *)
(* (tracking.py), the part every offline command shares, together with the *)
(* life of such a command: a process of its own that loads one             *)
(* configuration, works through its steps and exits, or is killed between  *)
(* any two of them.                                                        *)
(*                                                                         *)
(* MLflow is external.  Its fluent interface keeps a stack of active runs  *)
(* in the process; here it never grows beyond a study and one run inside,  *)
(* which are the two slots of active.  start_run raises when a run is      *)
(* active and the new one is not nested.  Any call to the server may fail, *)
(* applied or not.                                                         *)
(***************************************************************************)
EXTENDS DataWindows, Sequences

CONSTANTS
    Jobs,       \* the processes that run offline commands
    Configs,    \* what load_config may find: environments, before and after edits
    Setting,    \* the data settings of each
    Lines,      \* how much of the file --nrows lets a command read
    LogCalls,   \* log calls of one run: parameters, metrics, tags, model
    MaxRuns     \* bound: runs the server is asked to create

ASSUME TrainingAssumption ==
    /\ Setting \in [Configs -> DataSetting] /\ Configs # {} /\ Lines # {}
    /\ Lines \subseteq Nat /\ LogCalls \in Nat \ {0} /\ MaxRuns \in Nat

VARIABLES
    runs,       \* the runs the tracking server holds, in the order of creation
    active,     \* the active runs of each process
    pc,         \* where each command is
    job         \* what it works on

trainingVars == <<runs, active, pc, job>>

Commands == {"none", "train", "drift", "retrain", "promote", "optimize"}
Roles == {"none", "check", "plain", "candidate", "bootstrap", "baseline", "tuned"}
Kinds == {"check", "training", "study", "trial"}
Statuses == {"RUNNING", "FINISHED", "FAILED"}

\* A RunRecord: its MLflow run if it has one, the rows it was trained on, those
\* of them a production window added, and those it was judged on.
Record == [run : Nat, trained : SUBSET Row, window : SUBSET Row, exam : SUBSET Row]
NoRecord == [run |-> 0, trained |-> {}, window |-> {}, exam |-> {}]

\* event: the drift event of a check, or that a retrained candidate is tagged
\* with, 0 for none; completed: what a trial's tag says of it.
Run == [kind : Kinds, status : Statuses, logged : 0..LogCalls, event : Nat,
        config : Configs, lines : Lines, trained : SUBSET Row, window : SUBSET Row,
        exam : SUBSET Row, completed : BOOLEAN]

\* event and window: the check that prompted a retraining and the rows it adds;
\* compared: the run whose metrics stand for production, 0 for the bootstrap's;
\* version: what the registry made of the candidate; trials: which trials of the
\* study completed; tracker: the run it is recorded to, 0 without one; raised:
\* whether the study failed.
Job == [command : Commands, config : Configs, lines : Lines, force : BOOLEAN,
        event : Nat, window : SUBSET Row, role : Roles, record : Record,
        candidate : Record, compared : Nat, version : Nat, trials : Seq(BOOLEAN),
        tracker : Nat, raised : BOOLEAN]

Inactive == [study |-> 0, inner |-> 0]

Goto(j, label) == pc' = [pc EXCEPT ![j] = label]

NewJob(command, config, lines, force, event, role) ==
    [command |-> command, config |-> config, lines |-> lines, force |-> force,
     event |-> event, window |-> {}, role |-> role, record |-> NoRecord,
     candidate |-> NoRecord, compared |-> 0, version |-> 0, trials |-> <<>>,
     tracker |-> 0, raised |-> FALSE]

NoJob == NewJob("none", CHOOSE c \in Configs : TRUE, CHOOSE n \in Lines : TRUE,
                FALSE, 0, "none")

\* A command starts: one configuration, used to its end.  None starts once the
\* bound is reached.
Launch(j, command, config, lines, force, event, role, label) ==
    /\ pc[j] = "idle" /\ Len(runs) < MaxRuns
    /\ job' = [job EXCEPT ![j] = NewJob(command, config, lines, force, event, role)]
    /\ Goto(j, label)

\* It is over, by returning or by raising; the process exits next.
Leave(j) ==
    /\ job' = [job EXCEPT ![j] = NoJob]
    /\ Goto(j, "exit")

\* MLflow's exit hook finishes the innermost run that is still active, whatever
\* became of the command.
Exit(j) ==
    LET left == IF active[j].inner # 0 THEN active[j].inner ELSE active[j].study IN
    /\ pc[j] = "exit"
    /\ \/ left # 0 /\ runs' = [runs EXCEPT ![left].status = "FINISHED"]
       \/ UNCHANGED runs
    /\ active' = [active EXCEPT ![j] = Inactive]
    /\ Goto(j, "idle")
    /\ UNCHANGED job

Kill(j) ==
    /\ pc[j] \notin {"idle", "exit"}
    /\ active' = [active EXCEPT ![j] = Inactive]
    /\ Goto(j, "idle")
    /\ job' = [job EXCEPT ![j] = NoJob]
    /\ UNCHANGED runs

-----------------------------------------------------------------------------
(* run_training *)

RowsOf(j) == Prepare(Setting[job[j].config], job[j].lines)

\* The window a retraining adds, and the training split with it, sampled or not.
Extra(j) == IF job[j].role = "candidate" THEN job[j].window ELSE {}
TrainedOn(j) == Split(RowsOf(j), Setting[job[j].config], "train") \cup Extra(j)

\* The window is appended before the evaluation split is cut.
JudgedOnExtended(j) ==
    Split(RowsOf(j), Setting[job[j].config], "validation") \cup Extra(j)

\* _evaluate_split: what the gates read is measured on the decision split alone.
JudgedOn(j) == Split(RowsOf(j), Setting[job[j].config], "validation")

\* Everything is computed from the job's own configuration.
Train(j) ==
    /\ pc[j] = "train"
    /\ SplitsUsable(RowsOf(j), Setting[job[j].config])
    /\ TrainedOn(j) # {} /\ JudgedOn(j) # {}
    /\ job' = [job EXCEPT ![j].record =
          [run |-> 0, trained |-> TrainedOn(j), window |-> Extra(j), exam |-> JudgedOn(j)]]
    /\ Goto(j, "open")
    /\ UNCHANGED <<runs, active>>

\* Validation of the data, the splits or the fit raises, and so does the command.
TrainFails(j) ==
    /\ pc[j] = "train"
    /\ Leave(j)
    /\ UNCHANGED <<runs, active>>

(* log_run_record, and _log_to_mlflow for a drift check: the same with block *)

Created(j, kind, completed) ==
    [kind |-> kind, status |-> "RUNNING", logged |-> 0,
     event |-> IF kind = "check" THEN job[j].event ELSE 0,
     config |-> job[j].config, lines |-> job[j].lines,
     trained |-> job[j].record.trained, window |-> job[j].record.window,
     exam |-> job[j].record.exam, completed |-> completed]

\* create_run on the server.
CreateRun(j, kind, completed) ==
    /\ Len(runs) < MaxRuns
    /\ runs' = Append(runs, Created(j, kind, completed))

\* The same with its answer lost: the process knows nothing of the run.
CreateRunFails(j, kind, completed) ==
    UNCHANGED runs \/ CreateRun(j, kind, completed)

KindOf(j) == IF job[j].role = "check" THEN "check" ELSE "training"

\* The exception is swallowed further in, and the record keeps its run.
StillLogged(j) == job

\* Whatever fails, the record is left without a run.
Unlogged(j) == [job EXCEPT ![j].record.run = 0]

\* The record names its run as soon as that is open.
OpenRun(j) ==
    /\ pc[j] = "open" /\ active[j] = Inactive
    /\ CreateRun(j, KindOf(j), TRUE)
    /\ active' = [active EXCEPT ![j].inner = Len(runs) + 1]
    /\ job' = [job EXCEPT ![j].record.run = Len(runs) + 1]
    /\ Goto(j, "log")

\* Tracking is disabled, the experiment cannot be set, or start_run raises:
\* always when a study was left active.
OpenRunFails(j) ==
    /\ pc[j] = "open"
    /\ IF active[j] = Inactive THEN CreateRunFails(j, KindOf(j), TRUE) ELSE UNCHANGED runs
    /\ job' = Unlogged(j)
    /\ Goto(j, "saved")
    /\ UNCHANGED active

LogCall(j) ==
    /\ pc[j] = "log" /\ runs[active[j].inner].logged < LogCalls
    /\ runs' = [runs EXCEPT ![active[j].inner].logged = @ + 1]
    /\ UNCHANGED <<active, pc, job>>

\* The with block ends the run FAILED, if the server still hears that.
LogCallFails(j) ==
    LET run == runs[active[j].inner] IN
    /\ pc[j] = "log" /\ run.logged < LogCalls
    /\ \E status \in {"FAILED", "RUNNING"}, logged \in {run.logged, run.logged + 1} :
          runs' = [runs EXCEPT ![active[j].inner] =
                      [run EXCEPT !.status = status, !.logged = logged]]
    /\ active' = [active EXCEPT ![j].inner = 0]
    /\ job' = Unlogged(j)
    /\ Goto(j, "saved")

CloseRun(j) ==
    /\ pc[j] = "log" /\ runs[active[j].inner].logged = LogCalls
    /\ runs' = [runs EXCEPT ![active[j].inner].status = "FINISHED"]
    /\ active' = [active EXCEPT ![j].inner = 0]
    /\ Goto(j, "saved")
    /\ UNCHANGED job

\* end_run has left the stack when the server fails it.
CloseRunFails(j) ==
    /\ pc[j] = "log" /\ runs[active[j].inner].logged = LogCalls
    /\ \E status \in {"FINISHED", "RUNNING"} :
          runs' = [runs EXCEPT ![active[j].inner].status = status]
    /\ active' = [active EXCEPT ![j].inner = 0]
    /\ job' = Unlogged(j)
    /\ Goto(j, "saved")

(* `train`: nothing is decided about the record, which is only written. *)

StartTrain(j, config, lines) ==
    /\ Launch(j, "train", config, lines, FALSE, 0, "plain", "train")
    /\ UNCHANGED <<runs, active>>

SavePlain(j) ==
    /\ pc[j] = "saved" /\ job[j].role = "plain"
    /\ Leave(j)
    /\ UNCHANGED <<runs, active>>

TrainingStep(j) ==
    \/ Train(j) \/ TrainFails(j) \/ OpenRun(j) \/ OpenRunFails(j)
    \/ LogCall(j) \/ LogCallFails(j) \/ CloseRun(j) \/ CloseRunFails(j)
    \/ SavePlain(j) \/ Exit(j) \/ Kill(j)
    \/ \E config \in Configs, lines \in Lines : StartTrain(j, config, lines)
=============================================================================
