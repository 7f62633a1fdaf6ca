---------------------------- MODULE DriftVerdict ----------------------------
(***************************************************************************)
(* The verdict of monitoring/drift.py on one pair of frames.  A reading is *)
(* what a feature's two columns show once missing values are dropped: a    *)
(* numeric column may be empty or, in the reference, constant; moved says  *)
(* that a constant one is no longer; psi is the index over its bins, in    *)
(* hundredths.  The test statistics beside it decide nothing and are left  *)
(* out.                                                                    *)
(***************************************************************************)
EXTENDS Naturals, FiniteSets

CONSTANTS
    Features,    \* the columns of the configured feature set
    Readings     \* what a feature may show

Major == 25      \* PSI_MAJOR

Reading == [kind : {"numeric", "categorical"}, reference : {"empty", "constant", "spread"},
            current : {"empty", "spread"}, moved : BOOLEAN, psi : Nat]

ASSUME ReadingAssumption == IsFiniteSet(Features) /\ Readings \subseteq Reading

\* _numeric_drift: a column that is empty on either side has not drifted.
NumericPsi(reading) ==
    IF reading.reference = "empty" \/ reading.current = "empty" THEN 0
    ELSE IF reading.reference # "constant" THEN reading.psi
    ELSE IF reading.moved THEN Major ELSE 0

\* _categorical_drift: missing values are a category of their own.
CategoricalPsi(reading) == reading.psi

\* compare_frames: one threshold for all features.
Drifted(reading, cfg) ==
    IF reading.kind = "numeric" THEN NumericPsi(reading) >= cfg.threshold_psi
                                ELSE CategoricalPsi(reading) >= cfg.threshold_psi

\* DriftReport.drift_detected: enough features, not one.
DriftDetected(readings, cfg) ==
    Cardinality({f \in Features : Drifted(readings[f], cfg)})
        >= cfg.min_drifted_features
=============================================================================
