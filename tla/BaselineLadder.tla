---------------------------- MODULE BaselineLadder ----------------------------
(***************************************************************************)
(* What ati pf2-baseline says of a split once its models are fitted         *)
(* (evaluation/pf2/baseline.py), with --target-false-positive-rate: the      *)
(* threshold chosen on the rows a model was trained on, and whom it flags.   *)
(*                                                                         *)
(* A fitted model is any map from the features of a session to a score: the *)
(* estimator is left out.  Scores and rates are multiples of 1 / One.       *)
(***************************************************************************)
EXTENDS ControlledCorpus

CONSTANTS
  One,       \* the score and the rate 1.0
  Levels,    \* the scores a fitted model gives
  Rates      \* the target rates that may be asked for

ASSUME LadderAssumption ==
  /\ One \in Nat \ {0}
  /\ Levels \subseteq 0..One
  /\ Rates \subseteq 0..One

-----------------------------------------------------------------------------
(* _predict: a model gives a score to each of the rows I. *)
Fitted == [Shapes -> Levels]
Predict(table, fitted, I) == [i \in I |-> fitted[table[i].shape]]

(* The constant rung gives every row the prevalence of the rows it was trained on,
   which is neither 0 nor 1 when both classes are there. *)
Prevalences == 1..(One - 1)
Constant(prevalence, I) == [i \in I |-> prevalence]

Negatives(table, scores) == {i \in DOMAIN scores : ~table[i].automated}

(* _metrics: the rows a threshold flags, and those of them it should not. *)
Flagged_Strictly(scores, threshold) == {i \in DOMAIN scores : scores[i] > threshold}
Flagged(scores, threshold) == {i \in DOMAIN scores : scores[i] >= threshold}
FalsePositives(table, scores, threshold) ==
  Negatives(table, scores) \cap Flagged(scores, threshold)

(* So many of a number of negatives are within a rate. *)
Within_Below(false_positives, negatives, rate) == One * false_positives < rate * negatives
Within(false_positives, negatives, rate) == One * false_positives <= rate * negatives

(* _threshold_for_target_false_positive_rate: the lowest candidate that keeps to
   the rate on the rows trained on, or just above 1.0. *)
Candidates(scores) == {scores[i] : i \in DOMAIN scores} \cup {0, One}
Kept(table, scores, rate) ==
  LET negatives == Negatives(table, scores)
  IN {c \in Candidates(scores) :
        Within(Cardinality({i \in negatives : scores[i] >= c}), Cardinality(negatives), rate)}

Threshold(table, scores, rate) ==
  LET kept == Kept(table, scores, rate)
  IN IF kept = {} THEN One + 1 ELSE CHOOSE c \in kept : \A d \in kept : c <= d

-----------------------------------------------------------------------------
(***************************************************************************)
(* A threshold is right for a rate: the model, used with it on the very     *)
(* rows it was chosen on, keeps to the rate, and one that flags others of    *)
(* them does not.                                                          *)
(***************************************************************************)
IsTightest(table, scores, rate, threshold) ==
  LET fails(t) == Cardinality(FalsePositives(table, scores, t))
      all == Cardinality(Negatives(table, scores))
  IN /\ One * fails(threshold) <= rate * all
     /\ \A t \in {scores[i] : i \in DOMAIN scores} :
          \/ Flagged(scores, t) \subseteq Flagged(scores, threshold)
          \/ One * fails(t) > rate * all

(* A model that tells nobody apart flags nobody held out, or everybody. *)
FlagsAllOrNone(table, x, rate, prevalence) ==
  Flagged(Constant(prevalence, x.holdout),
          Threshold(table, Constant(prevalence, x.train), rate))
    = IF rate = One THEN x.holdout ELSE {}

FinalSplits(b) == {x \in b.splits : b.status = "evaluated" /\ x.final}

(***************************************************************************)
(* Whatever model is fitted for the final temporal holdout of a report that  *)
(* is evaluated, its threshold keeps to the target rate on the rows it was   *)
(* trained on, and misses nobody it could have flagged; and the constant     *)
(* rung flags nobody held out, or all of them if the rate lets it            *)
(* (_threshold_for_target_false_positive_rate, _metrics, _evaluate_split).   *)
(* The gates and the windows see to it that there is somebody to choose on.  *)
(***************************************************************************)
ThresholdsAreTight ==
  [][baseline' # baseline =>
       \A x \in FinalSplits(baseline'), rate \in Rates :
         LET table == baseline'.model.content
         IN /\ \A fitted \in Fitted :
                 LET scores == Predict(table, fitted, x.train)
                 IN IsTightest(table, scores, rate, Threshold(table, scores, rate))
            /\ \A prevalence \in Prevalences : FlagsAllOrNone(table, x, rate, prevalence)]_vars
=============================================================================
