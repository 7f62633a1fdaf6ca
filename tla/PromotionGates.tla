--------------------------- MODULE PromotionGates ---------------------------
(***************************************************************************)
(* The quality gates of promotion/gates.py: pure functions of the metrics  *)
(* a candidate and the incumbent recorded on the validation split, in the  *)
(* configuration of configs/base.yaml, where every gate is required.       *)
(*                                                                         *)
(* Metrics are integers in whatever unit is fine enough.  The floats of    *)
(* the code round at the margin of a gate; that is left out.               *)
(***************************************************************************)
EXTENDS Integers

CONSTANTS
    MinDelta,           \* min_improvement.min_delta
    Floor,              \* minimum_metric.minimum
    MaxRocDecline,      \* roc_auc_regression.max_decline
    MaxBrierRise,       \* calibration.max_decline
    MinSkill,           \* calibration.min_skill
    MaxRecallDecline,   \* recall_regression.max_decline
    MaxPredictionTime   \* latency.max_mean_prediction_ms

ASSUME LimitAssumption ==
    {MinDelta, Floor, MaxRocDecline, MaxBrierRise, MinSkill, MaxRecallDecline,
     MaxPredictionTime} \subseteq Int

Untimed == -1    \* the metrics carry no timing measurement

Metrics == [average_precision : Int, roc_auc : Int, brier_score : Int,
            brier_skill_score : Int, recall_at_capacity : Int,
            prediction_time : Nat \cup {Untimed}, reproducible : BOOLEAN]

MinImprovement(c, p) == c.average_precision - p.average_precision >= MinDelta

MinimumMetric(c) == c.average_precision >= Floor

\* no_regression, for a metric where larger is better.
RocAucRegression(c, p) == p.roc_auc - c.roc_auc <= MaxRocDecline
RecallRegression(c, p) ==
    p.recall_at_capacity - c.recall_at_capacity <= MaxRecallDecline

\* A smaller Brier score is better; the skill must beat the base rate.
Calibration(c, p) ==
    /\ c.brier_score - p.brier_score <= MaxBrierRise
    /\ c.brier_skill_score > MinSkill

\* A candidate without a timing fails the gate rather than skipping it.
Latency(c) == c.prediction_time # Untimed /\ c.prediction_time <= MaxPredictionTime

Reproducibility(c) == c.reproducible

\* evaluate_gates with the floor forgotten.
PromoteWithoutFloor(c, p) ==
    /\ MinImprovement(c, p) /\ RocAucRegression(c, p) /\ Calibration(c, p)
    /\ RecallRegression(c, p) /\ Latency(c) /\ Reproducibility(c)

\* GateReport.promote: no required gate failed.
Promote(c, p) ==
    /\ MinImprovement(c, p) /\ MinimumMetric(c) /\ RocAucRegression(c, p)
    /\ Calibration(c, p) /\ RecallRegression(c, p) /\ Latency(c) /\ Reproducibility(c)
=============================================================================
