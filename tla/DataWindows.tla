---------------------------- MODULE DataWindows -----------------------------
(***************************************************************************)
(* Which rows of the register may be used for what: preparation and        *)
(* labelling (data/preprocessing.py), the time-ordered splits              *)
(* (data/splitting.py), the production window drift detection looks at and *)
(* retraining adds (monitoring/windows.py), and the guards of              *)
(* pipelines/retrain_pipeline.py on that window.  Pure functions of the    *)
(* register and of one loaded configuration, cfg.                          *)
(*                                                                         *)
(* A date is a natural number, and so is a length of time.                 *)
(***************************************************************************)
EXTENDS Integers

CONSTANTS
    Register,   \* the rows of the raw file, which is pinned by its checksum
    Year        \* the length of a year

Missing == -1
Dates == Nat \cup {Missing}
Scenarios == {"none", "lending_shift"}

\* line: its place in the file; drawn: whether a sample of its split has it;
\* inputs: the real ones, or those a controlled scenario put in their place.
Row == [line : Nat, approved : Nat, disbursed : Dates, charged_off : Dates,
        status : {"CHGOFF", "P I F", "open"}, term : Nat, drawn : BOOLEAN,
        inputs : {"real", "perturbed"}]

ASSUME RegisterAssumption == Register \subseteq Row /\ Year \in Nat \ {0}

SplitNames == {"train", "validation", "test", "production_stream"}
EvaluationSplits == {"validation", "test"}

\* DateWindow: both ends are included, and a window is never inverted.
Window == {w \in [start : Nat, end : Nat] : w.start <= w.end}

InWindow(row, window) == window.start <= row.approved /\ row.approved <= window.end

(* What a loaded configuration says of the data. *)
DataSetting == [observation_end : Nat, horizon : Nat, min_term : Nat,
                label_maturity_end : Dates, split : [SplitNames -> Window],
                drift_window : Window, sampled : BOOLEAN,
                threshold_psi : Nat, min_drifted_features : Nat]

(* prepare: clean, label, restrict to uniform exposure, keep what is observable *)

\* A row without a disbursement date takes its approval date.
Disbursed(row) == IF row.disbursed = Missing THEN row.approved ELSE row.disbursed
HorizonEnd(row, cfg) == Disbursed(row) + cfg.horizon

\* The label: a charge-off within the horizon.  One without a date is not.
Target(row, cfg) ==
    row.status = "CHGOFF" /\ row.charged_off # Missing
        /\ row.charged_off <= HorizonEnd(row, cfg)
LabelAvailable(row, cfg) ==
    IF Target(row, cfg) THEN row.charged_off ELSE HorizonEnd(row, cfg)

Observable(row, cfg) ==
    HorizonEnd(row, cfg) <= cfg.observation_end /\ row.status # "open"

\* The first lines rows of the file, prepared.
Prepare(cfg, lines) ==
    {row \in Register :
        row.line <= lines /\ Observable(row, cfg) /\ row.term >= cfg.min_term}

(* make_splits *)

\* Sorted by their starts, each begins after the one before it has ended: only
\* neighbours are compared.
Neighbours(split, a, b) ==
    /\ a # b /\ split[a].start <= split[b].start
    /\ ~\E c \in SplitNames :
          split[a].start < split[c].start /\ split[c].start < split[b].start

WindowsOrdered(cfg) ==
    \A a, b \in SplitNames :
        Neighbours(cfg.split, a, b) => cfg.split[b].start > cfg.split[a].end

SliceWindow(rows, window) == {row \in rows : InWindow(row, window)}

\* No SplitError.
SplitsUsable(rows, cfg) ==
    /\ WindowsOrdered(cfg)
    /\ \A name \in SplitNames : SliceWindow(rows, cfg.split[name]) # {}

\* A split as training uses it: a development environment draws a sample.
Split(rows, cfg, name) ==
    {row \in SliceWindow(rows, cfg.split[name]) : cfg.sampled => row.drawn}

(* build_current_window *)

\* A scenario moves inputs, the term among them; dates and outcomes stay.
ApplyScenario(rows, scenario) ==
    IF scenario = "none" THEN rows
    ELSE {[row EXCEPT !.inputs = "perturbed", !.term = @ + 24] : row \in rows}

CurrentWindow(rows, window, scenario) ==
    ApplyScenario(SliceWindow(rows, window), scenario)

(* The guards of run_retraining, asked of the rows to be trained on. *)

\* Configured, or the end of observation less the whole years of the horizon.
LabelMaturityEnd(cfg) ==
    IF cfg.label_maturity_end # Missing THEN cfg.label_maturity_end
    ELSE cfg.observation_end - Year * (cfg.horizon \div Year)

\* assert_labels_matured
LabelsMatured(rows, cfg) == \A row \in rows : row.approved <= LabelMaturityEnd(cfg)

\* Only the held-out test split is kept clear.
DisjointFromTest(rows, cfg) == \A row \in rows : ~InWindow(row, cfg.split["test"])

\* _assert_disjoint_from_evaluation
DisjointFromEvaluation(rows, cfg) ==
    \A name \in EvaluationSplits, row \in rows : ~InWindow(row, cfg.split[name])
=============================================================================
