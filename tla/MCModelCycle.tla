---------------------------- MODULE MCModelCycle ----------------------------
(* A register with rows in every window and one row of each kind preparation  *)
(* drops, and two configurations: production, and an edit of it that samples, *)
(* judges on what production retrains on and derives its maturity cutoff.     *)
(* The window of a check made under the edit has not matured in production.   *)
EXTENDS ModelCycle

MCRow(line, approved, status, drawn) ==
    [line |-> line, approved |-> approved, disbursed |-> Missing, charged_off |-> Missing,
     status |-> status, term |-> 60, drawn |-> drawn, inputs |-> "real"]

MCRegister ==
    {MCRow(1, 1, "P I F", TRUE), [MCRow(2, 2, "CHGOFF", TRUE) EXCEPT !.charged_off = 3],
     MCRow(3, 3, "P I F", TRUE), MCRow(4, 4, "P I F", FALSE), MCRow(5, 5, "P I F", TRUE),
     [MCRow(6, 6, "CHGOFF", TRUE) EXCEPT !.disbursed = 7],
     [MCRow(7, 8, "P I F", TRUE) EXCEPT !.disbursed = 7], MCRow(8, 6, "open", TRUE),
     [MCRow(9, 7, "P I F", TRUE) EXCEPT !.term = 36]}

MCWindow(start, end) == [start |-> start, end |-> end]

MCProduction ==
    [observation_end |-> 12, horizon |-> 5, min_term |-> 60, label_maturity_end |-> 7,
     split |-> [train |-> MCWindow(1, 2), validation |-> MCWindow(3, 4),
                test |-> MCWindow(5, 5), production_stream |-> MCWindow(6, 8)],
     drift_window |-> MCWindow(6, 6), sampled |-> FALSE,
     threshold_psi |-> 10, min_drifted_features |-> 1]

MCEdited ==
    [MCProduction EXCEPT !.split.validation = MCWindow(6, 6),
                         !.split.production_stream = MCWindow(7, 8),
                         !.observation_end = 13, !.drift_window = MCWindow(8, 8),
                         !.label_maturity_end = Missing,
                         !.sampled = TRUE]

MCSetting == [production |-> MCProduction, edited |-> MCEdited]
MCConfigs == {"production", "edited"}

MCReading(psi) ==
    [kind |-> "numeric", reference |-> "spread", current |-> "spread",
     moved |-> FALSE, psi |-> psi]
MCReadings == {MCReading(0), MCReading(10)}
=============================================================================
