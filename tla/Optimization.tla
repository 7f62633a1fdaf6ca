---------------------------- MODULE Optimization ----------------------------
(***************************************************************************)
(* `optimize`: run_optimization (pipelines/optimize_pipeline.py), the      *)
(* study of models/optimize.py and its StudyTracker (tracking.py), on top  *)
(* of the training they share.  Every method of the tracker swallows its   *)
(* own failures.  Optuna is external: a trial that raises is recorded as   *)
(* failed.  Which completed trial wins, in the direction the configuration *)
(* names, and with which parameters, is left out: nothing that follows     *)
(* depends on it but the model that is trained.                            *)
(***************************************************************************)
EXTENDS Training

CONSTANT Budget \* trials of a study

ASSUME StudyAssumption == Budget \in Nat

Completed(j) == {n \in 1..Len(job[j].trials) : job[j].trials[n]}

StartOptimize(j, config, lines) ==
    /\ Launch(j, "optimize", config, lines, FALSE, 0, "none", "enter")
    /\ UNCHANGED <<runs, active>>

(* StudyTracker.__enter__ *)

EnterStudy(j) ==
    /\ pc[j] = "enter"
    /\ CreateRun(j, "study", TRUE)
    /\ active' = [active EXCEPT ![j].study = Len(runs) + 1]
    /\ job' = [job EXCEPT ![j].tracker = Len(runs) + 1]
    /\ Goto(j, "trial")

EnterStudyFails(j) ==
    /\ pc[j] = "enter"
    /\ CreateRunFails(j, "study", TRUE)
    /\ Goto(j, "trial")
    /\ UNCHANGED <<active, job>>

\* The run is open when its tags fail: the tracker gives up, the run stays active.
EnterStudyLeaks(j) ==
    /\ pc[j] = "enter"
    /\ CreateRun(j, "study", TRUE)
    /\ active' = [active EXCEPT ![j].study = Len(runs) + 1]
    /\ Goto(j, "trial")
    /\ UNCHANGED job

(* run_study *)

RunTrial(j) ==
    /\ pc[j] = "trial" /\ Len(job[j].trials) < Budget
    /\ \E completed \in BOOLEAN :
          job' = [job EXCEPT ![j].trials = Append(@, completed)]
    /\ Goto(j, IF job[j].tracker # 0 THEN "trial_open" ELSE "trial")
    /\ UNCHANGED <<runs, active>>

LastCompleted(j) == Len(job[j].trials) \in Completed(j)

\* log_trial: a nested run, closed in a finally.
OpenTrial(j) ==
    /\ pc[j] = "trial_open"
    /\ CreateRun(j, "trial", LastCompleted(j))
    /\ active' = [active EXCEPT ![j].inner = Len(runs) + 1]
    /\ Goto(j, "trial_log")
    /\ UNCHANGED job

OpenTrialFails(j) ==
    /\ pc[j] = "trial_open"
    /\ CreateRunFails(j, "trial", LastCompleted(j))
    /\ Goto(j, "trial")
    /\ UNCHANGED <<active, job>>

\* A with block around the run, to which a failed trial is no exception.
EndedCleanly(j) == "FINISHED"

\* The run ends as its trial did.
EndedAsTrial(j) == IF LastCompleted(j) THEN "FINISHED" ELSE "FAILED"

\* Whatever was logged, the finally ends the run, if the server hears it.
CloseTrial(j) ==
    /\ pc[j] = "trial_log"
    /\ \E logged \in {0, LogCalls}, status \in {EndedAsTrial(j), "RUNNING"} :
          runs' = [runs EXCEPT ![active[j].inner] =
                      [@ EXCEPT !.status = status, !.logged = logged]]
    /\ active' = [active EXCEPT ![j].inner = 0]
    /\ Goto(j, "trial")
    /\ UNCHANGED job

\* The search space or the split is refused, or the untuned model cannot be
\* scored after the last trial: the exception passes through __exit__.
RaiseInStudy(j) ==
    /\ pc[j] = "trial" /\ Len(job[j].trials) \in {0, Budget}
    /\ job' = [job EXCEPT ![j].raised = TRUE]
    /\ Goto(j, "exit_study")
    /\ UNCHANGED <<runs, active>>

FinishStudy(j) ==
    /\ pc[j] = "trial" /\ Len(job[j].trials) = Budget
    /\ Goto(j, "exit_study")
    /\ UNCHANGED <<runs, active, job>>

\* __exit__, which does nothing for a tracker that gave up.  Then the winner is
\* trained, if a trial completed: which of them failed is of no use from here on.
CloseStudy(j) ==
    /\ pc[j] = "exit_study"
    /\ IF job[j].tracker = 0 THEN UNCHANGED <<runs, active>>
       ELSE /\ \E status \in {IF job[j].raised THEN "FAILED" ELSE "FINISHED", "RUNNING"} :
                  runs' = [runs EXCEPT ![active[j].study].status = status]
            /\ active' = [active EXCEPT ![j].study = 0]
    /\ IF job[j].raised \/ Completed(j) = {}
       THEN Leave(j)
       ELSE Goto(j, "train") /\ job' = [job EXCEPT ![j].role = "baseline",
                                                        ![j].trials = <<>>]

(* The winner and the baseline, trained alike. *)

SaveBaseline(j) ==
    /\ pc[j] = "saved" /\ job[j].role = "baseline"
    /\ job' = [job EXCEPT ![j].role = "tuned"]
    /\ Goto(j, "train")
    /\ UNCHANGED <<runs, active>>

SaveTuned(j) ==
    /\ pc[j] = "saved" /\ job[j].role = "tuned"
    /\ Leave(j)
    /\ UNCHANGED <<runs, active>>

OptimizationStep(j) ==
    \/ \E config \in Configs, lines \in Lines : StartOptimize(j, config, lines)
    \/ EnterStudy(j) \/ EnterStudyFails(j) \/ EnterStudyLeaks(j)
    \/ RunTrial(j) \/ OpenTrial(j) \/ OpenTrialFails(j) \/ CloseTrial(j)
    \/ RaiseInStudy(j) \/ FinishStudy(j) \/ CloseStudy(j)
    \/ SaveBaseline(j) \/ SaveTuned(j)
=============================================================================
