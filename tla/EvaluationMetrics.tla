------------------------- MODULE EvaluationMetrics -------------------------
(***************************************************************************)
(* The metrics of the evaluator (evaluator/internal/metrics): accuracy and *)
(* F1 are fed batch by batch, ROC-AUC gets the whole dataset at the end.   *)
(*                                                                         *)
(* A batch is a sequence of records [label, output]; an output is a score  *)
(* in 0 .. MaxScore, the class of a sample is 0 or 1.  A result is a       *)
(* fraction <<numerator, denominator>>.                                    *)
(***************************************************************************)
EXTENDS Integers, SequencesExt, Functions

CONSTANTS
  MaxScore,          \* the score that stands for 1.0
  Average            \* F1: average, one of "macro", "micro", "weighted", "binary"

Classes == {0, 1}

Sum2(f) == f[0] + f[1]
Count(batch, P(_)) == Len(SelectSeq(batch, P))
SameValue(a, b) == a[2] # 0 /\ b[2] # 0 /\ a[1] * b[2] = b[1] * a[2]

(* transform_prediction: the transformer the pipeline configured (here a   *)
(* threshold) when it was deserialized, the score itself when it was not.  *)
TransformPrediction(output, transformed) ==
  IF transformed THEN (IF 2 * output >= MaxScore THEN 1 ELSE 0)
  ELSE IF output = MaxScore THEN 1 ELSE IF output = 0 THEN 0 ELSE -1
Predictions(batch, transformed) ==
  [i \in DOMAIN batch |->
     [label |-> batch[i].label, pred |-> TransformPrediction(batch[i].output, transformed)]]
-----------------------------------------------------------------------------
AccuracyStart == [samples_seen |-> 0, total_correct |-> 0]
AccuracyBatchOverwrites(m, batch) ==   \* mutant: the last batch counts alone
  [samples_seen |-> m.samples_seen + Len(batch),
   total_correct |-> Count(batch, LAMBDA s : s.pred = s.label)]
AccuracyBatch(m, batch) ==
  [samples_seen |-> m.samples_seen + Len(batch),
   total_correct |-> m.total_correct + Count(batch, LAMBDA s : s.pred = s.label)]
AccuracyResult(m) ==
  IF m.samples_seen = 0 THEN <<0, 1>> ELSE <<m.total_correct, m.samples_seen>>

(* F1Score.classification_matrix: a row of counts per kind of outcome.     *)
F1Start == [tp |-> [c \in Classes |-> 0], fp |-> [c \in Classes |-> 0], fn |-> [c \in Classes |-> 0]]
F1Batch(m, batch) ==
  [tp |-> [c \in Classes |-> m.tp[c] + Count(batch, LAMBDA s : s.pred = s.label /\ s.label = c)],
   fp |-> [c \in Classes |-> m.fp[c] + Count(batch, LAMBDA s : s.pred # s.label /\ s.pred = c)],
   fn |-> [c \in Classes |-> m.fn[c] + Count(batch, LAMBDA s : s.pred # s.label /\ s.label = c)]]

F1Result(m) ==
  LET total == Sum2(m.tp) + Sum2(m.fp)
      num == [c \in Classes |-> 2 * m.tp[c]]
      den == [c \in Classes |-> LET d == 2 * m.tp[c] + m.fp[c] + m.fn[c] IN IF d = 0 THEN 1 ELSE d]
      weight == [c \in Classes |-> m.tp[c] + m.fn[c]]
  IN CASE total = 0 -> <<0, 1>>
       [] total # 0 /\ Average = "micro" -> <<Sum2(m.tp), total>>
       [] total # 0 /\ Average = "binary" -> <<num[1], den[1]>>
       [] total # 0 /\ Average = "macro" -> <<num[0] * den[1] + num[1] * den[0], 2 * den[0] * den[1]>>
       [] total # 0 /\ Average = "weighted" ->
            <<weight[0] * num[0] * den[1] + weight[1] * num[1] * den[0],
              Sum2(weight) * den[0] * den[1]>>

(* RocAuc.  One sample, or exactly one change of score, leaves a tensor    *)
(* without dimension, which cat refuses.                                   *)
RocAucRaises(samples) ==
  Len(samples) <= 1 \/ Cardinality({samples[i].output : i \in DOMAIN samples}) = 2

(* Scores in descending order, one threshold after every run of equal      *)
(* scores, the trapezoids between them.                                    *)
RocAucResult(samples) ==
  LET y == SetToSortSeq(DOMAIN samples, LAMBDA i, j : \/ samples[i].output > samples[j].output
                                                      \/ (samples[i].output = samples[j].output /\ i < j))
      distinct == SelectSeq([i \in 1 .. Len(y) - 1 |-> i],
                            LAMBDA i : samples[y[i]].output # samples[y[i + 1]].output)
      threshold == <<0>> \o Append(distinct, Len(y))
      tps == [k \in DOMAIN threshold |-> Cardinality({i \in 1 .. threshold[k] : samples[y[i]].label = 1})]
      fps == [k \in DOMAIN threshold |-> threshold[k] - tps[k]]
      slices == [k \in 1 .. Len(threshold) - 1 |-> (fps[k + 1] - fps[k]) * (tps[k + 1] + tps[k])]
      pos == Last(tps)
      neg == Last(fps)
  IN IF pos = 0 \/ neg = 0 THEN <<0, 1>>
     ELSE <<FoldFunction(+, 0, slices), 2 * pos * neg>>
-----------------------------------------------------------------------------
(* What the metrics promise, over the samples as a set of positions.       *)
Positions(samples, P(_)) == {i \in DOMAIN samples : P(samples[i])}
AccuracyOf(preds) ==
  <<Cardinality(Positions(preds, LAMBDA s : s.pred = s.label)), Len(preds)>>

(* 2 * precision * recall / (precision + recall), zero when it is 0 / 0.   *)
F1OfClass(preds, c) ==
  LET hit == Cardinality(Positions(preds, LAMBDA s : s.pred = c /\ s.label = c))
      said == Cardinality(Positions(preds, LAMBDA s : s.pred = c))
      is == Cardinality(Positions(preds, LAMBDA s : s.label = c))
  IN IF said + is = 0 THEN <<0, 1>> ELSE <<2 * hit, said + is>>

(* The share of pairs of a positive and a negative sample that the scores  *)
(* put in the right order, a tie counting half.                            *)
AucOf(samples) ==
  LET pairs == Positions(samples, LAMBDA s : s.label = 1) \X Positions(samples, LAMBDA s : s.label = 0)
      right == {p \in pairs : samples[p[1]].output > samples[p[2]].output}
      tied == {p \in pairs : samples[p[1]].output = samples[p[2]].output}
  IN IF pairs = {} THEN <<0, 1>>
     ELSE <<2 * Cardinality(right) + Cardinality(tied), 2 * Cardinality(pairs)>>
=============================================================================
