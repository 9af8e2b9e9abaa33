----------------------------- MODULE Downsamplers -----------------------------
(***************************************************************************)
(* What the trainer's downsampling strategies select from the samples they *)
(* were informed of.  The samples are scored by a number each: a loss, the *)
(* norm of a gradient, a confidence, or the place of an embedding or of a  *)
(* gradient on a line.  v[i] is the score of the i-th sample; a selection  *)
(* is a sequence of pairs of an index and a weight, and each operator      *)
(* gives the set of the possible ones: the empty set where the code raises.*)
(***************************************************************************)
EXTENDS Integers, FiniteSets, Sequences
LOCAL INSTANCE FiniteSetsExt
LOCAL INSTANCE SequencesExt

Sum(f(_), S) == MapThenSumSet(f, S)
Distance(x, y) == IF x < y THEN y - x ELSE x - y

(* A percentage of the samples, and never none of them.                    *)
TargetSize(ratio, n) ==
  LET share == (ratio * n) \div 100 IN IF share < 1 THEN 1 ELSE share

Unweighted(indices) == [k \in DOMAIN indices |-> <<indices[k], 1>>]
InOrder(S) == SetToSortSeq(S, <)
-----------------------------------------------------------------------------
(* RemoteLossDownsampling and RemoteGradNormDownsampling draw with         *)
(* replacement, the scores are the odds; the weights are inverse to them.  *)
(* Scores that are all 0 are no distribution.                              *)
ImportanceWeight(v, i) == <<Sum(LAMBDA j : v[j], DOMAIN v), Len(v) * v[i]>>
Multinomial(v, target_size) ==
  IF v = <<>> THEN {<<>>}
  ELSE {[k \in 1 .. target_size |-> <<draw[k], ImportanceWeight(v, draw[k])>>] :
          draw \in [1 .. target_size -> {i \in DOMAIN v : v[i] > 0}]}

(* RemoteUncertaintyDownsamplingStrategy sorts the scores in reverse order *)
(* and takes the positions in it for the indices of the samples.           *)
Uncertainty(v, target_size) ==
  LET reversed == Reverse(v)
      Sorted(p) == \A k \in 1 .. Len(p) - 1 : reversed[p[k]] <= reversed[p[k + 1]]
      orders == {p \in SetToSeqs(DOMAIN v) : Sorted(p)}
  IN IF v = <<>> THEN {<<>>} ELSE {Unweighted(SubSeq(p, 1, target_size)) : p \in orders}

(* orthogonal_matching_pursuit finds up to a budget of samples, fewer when *)
(* the last least squares gives some of them no weight.                    *)
MatchingPursuit(v, target_size) ==
  {Unweighted(InOrder(S)) : S \in UNION {kSubset(k, DOMAIN v) : k \in 1 .. target_size}}

(* k_center_greedy: a random sample, and then the one that is farthest     *)
(* from those selected, the first of several.                              *)
NextInOrder(v, S) == Min(DOMAIN v \ S)    \* mutant: the distances are not compared
Farthest(v, S) ==
  LET far(i) == Min({Distance(v[i], v[j]) : j \in S})
      rest == DOMAIN v \ S
  IN CHOOSE i \in rest : \A j \in rest : far(i) > far(j) \/ (far(i) = far(j) /\ i <= j)

k_center_greedy(v, budget) ==
  LET centers[k \in 1 .. budget, first \in DOMAIN v] ==
        IF k = 1 THEN {first}
        ELSE centers[k - 1, first] \cup {Farthest(v, centers[k - 1, first])}
  IN {Unweighted(InOrder(centers[budget, first])) : first \in DOMAIN v}
-----------------------------------------------------------------------------
(* FacilityLocation: how well the rows are represented by those selected.  *)
Represented(similarity, rows, S) ==
  Sum(LAMBDA r : Max({0} \cup {similarity[r, s] : s \in S}), rows)
FacilityGain(similarity, rows, S, i) ==
  Represented(similarity, rows, S \cup {i}) - Represented(similarity, rows, S)

(* calc_gain_batch: the rows it looks at, counted from 0, are not all that *)
(* there are when there are more than one batch of them.                   *)
BatchRows(n, batch) ==
  {r \in 1 .. n :
     \/ r <= batch
     \/ \E k \in 1 .. n : /\ k * batch < n
                          /\ k * batch * batch < r /\ r <= ((k * batch) + 1) * batch}

(* GraphCut: far from those selected, close to all.                        *)
GraphCutGain(similarity, n, S, i) ==
  Sum(LAMBDA r : similarity[r, i], 1 .. n) - 2 * Sum(LAMBDA s : similarity[s, i], S)

(* NaiveGreedy.select: what gains most, the first of several.             *)
NaiveGreedy(function, similarity, n, rows, budget) ==
  LET gain(S, i) == IF function = "GraphCut" THEN GraphCutGain(similarity, n, S, i)
                    ELSE FacilityGain(similarity, rows, S, i)
      best(S) == LET rest == (1 .. n) \ S
                 IN CHOOSE i \in rest : \A j \in rest :
                      gain(S, i) > gain(S, j) \/ (gain(S, i) = gain(S, j) /\ i <= j)
      selected[k \in 0 .. budget] ==
        IF k = 0 THEN {} ELSE selected[k - 1] \cup {best(selected[k - 1])}
  IN selected[budget]

(* The other optimizers compute i % print_freq, which is None, and raise.  *)
Submodular(function, optimizer, similarity, n, rows, budget) ==
  IF optimizer # "NaiveGreedy" \/ budget > n THEN {}
  ELSE {Unweighted(InOrder(NaiveGreedy(function, similarity, n, rows, budget)))}

(* A similarity that decreases with the distance.                          *)
Kernel(v) ==
  LET width == Max({0} \cup {Distance(v[i], v[j]) : i, j \in DOMAIN v})
  IN [p \in (DOMAIN v) \X (DOMAIN v) |-> width - Distance(v[p[1]], v[p[2]])]

(* RemoteCraigDownsamplingStrategy.distance_matrix, in thousandths: 0 for  *)
(* two samples of different labels.                                        *)
DistanceMatrix(v, label) ==
  LET class(l) == {i \in DOMAIN v : label[i] = l}
      width(l) == Max({Distance(v[i], v[j]) : i, j \in class(l)})
  IN [p \in (DOMAIN v) \X (DOMAIN v) |->
        IF label[p[1]] # label[p[2]] THEN 0
        ELSE 1000 * (width(label[p[1]]) - Distance(v[p[1]], v[p[2]])) + 1]

(* calc_weights: one more for each sample that it represents best.         *)
CraigWeights(matrix, n, indices) ==
  LET representative(i) ==
        CHOOSE k \in DOMAIN indices : \A l \in DOMAIN indices :
          \/ matrix[indices[k], i] > matrix[indices[l], i]
          \/ matrix[indices[k], i] = matrix[indices[l], i] /\ k <= l
  IN [k \in DOMAIN indices |->
        <<indices[k], 1 + Cardinality({i \in 1 .. n : representative(i) = k})>>]

Craig(v, label, optimizer, batch, budget) ==
  LET n == Len(v)
      matrix == DistanceMatrix(v, label)
  IN {CraigWeights(matrix, n, [k \in DOMAIN s |-> s[k][1]]) :
        s \in Submodular("FacilityLocation", optimizer, matrix, n, BatchRows(n, batch), budget)}
=============================================================================
