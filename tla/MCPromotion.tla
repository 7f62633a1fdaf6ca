---------------------------- MODULE MCPromotion -----------------------------
(***************************************************************************)
(* TLC instances of Promotion, in units of a hundredth, with the limits of *)
(* configs/base.yaml and the bootstrap model's average precision.          *)
(***************************************************************************)
EXTENDS Promotion, TLC

PromoterSymmetry == Permutations(Promoters)

Model(ap, roc, brier, recall) ==
    [average_precision |-> ap, roc_auc |-> roc, brier_score |-> brier,
     brier_skill_score |-> 1, recall_at_capacity |-> recall,
     prediction_time |-> 0, reproducible |-> TRUE]

BaselineModel == Model(13, 70, 9, 30)

Good == Model(30, 80, 8, 40)
Better == Model(35, 80, 7, 40)

\* Beats the bootstrap model but not the floor.
BelowFloor == Model(20, 80, 8, 40)
\* Each beats Good on one metric and loses to it on another.
WorseRanked == Model(40, 78, 7, 40)
Untimeable == [Better EXCEPT !.prediction_time = Untimed]

Pool == {Good, Better, BelowFloor, WorseRanked, Untimeable}
=============================================================================
