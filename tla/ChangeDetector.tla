--------------------------- MODULE ChangeDetector ---------------------------
(***************************************************************************)
(* The read side of BenchmarkData in src/visualize_benchmarks.py:          *)
(*   get_metric_data_for_dataset  -> SeriesOf                              *)
(*   detect_changes               -> DetectChanges                         *)
(*   the "Aggregated" view of generate_plots -> Aggregate                  *)
(* The store is data[release][dataset][metric], a value or NoValue (the    *)
(* key is absent from the nested dicts).  A measurement is what float()   *)
(* returns: an integer, or NaN or Inf for the cells "nan" and "inf".       *)
(* change_pct is kept as the exact fraction num/den, so the threshold test *)
(* and the sign tests are exact (the float rounding near the threshold is  *)
(* a listed hazard, not modelled); den = 0 stands for an infinity of the  *)
(* sign of num, and 0/0 for NaN.                                           *)
(* The second half gives reference definitions, stated from the spec       *)
(* independently of the loops, that the checks compare the code against.   *)
(***************************************************************************)
EXTENDS Integers, Sequences, SequencesExt

CONSTANTS HIGHER_IS_BETTER,   \* metrics where a larger value is better
          LOWER_IS_BETTER,    \* metrics where a smaller value is better
          NoValue,            \* the key is absent in the nested dicts
          NaN,                \* float('nan')
          Inf                 \* float('inf')

AbsVal(x) == IF x < 0 THEN -x ELSE x

(* Faulty variants of the definitions below, each a plausible slip in    *)
(* the code; the checks of PROJECT.json swap one in to show that a        *)
(* property would catch it.                                               *)

(* Keeps a release when the dataset has any metric, not this one.         *)
RECURSIVE SeriesOfDatasetOnly(_, _, _, _)
SeriesOfDatasetOnly(rels, data, metric, dataset) ==
    IF rels = <<>> THEN <<>>
    ELSE LET release == Head(rels)
             here    == IF \E mm \in DOMAIN data[release][dataset] :
                              data[release][dataset][mm] # NoValue
                        THEN << [release |-> release,
                                 value   |-> data[release][dataset][metric]] >>
                        ELSE << >>
         IN  here \o SeriesOfDatasetOnly(Tail(rels), data, metric, dataset)

(* abs(change_pct) > threshold_percent                                    *)
SignificantStrict(pct, threshold) == AbsVal(pct.num) > threshold * AbsVal(pct.den)

(* get_metric_data_for_dataset: walk self.releases in order and keep the  *)
(* releases whose dict holds the dataset and the metric.                  *)
RECURSIVE SeriesOf(_, _, _, _)
SeriesOf(rels, data, metric, dataset) ==
    IF rels = <<>> THEN <<>>
    ELSE LET release == Head(rels)
             here    == IF data[release][dataset][metric] # NoValue
                        THEN << [release |-> release,
                                 value   |-> data[release][dataset][metric]] >>
                        ELSE << >>
         IN  here \o SeriesOf(Tail(rels), data, metric, dataset)

(* change_pct = ((current - previous) / previous) * 100 in float          *)
(* arithmetic, previous # 0: inf / previous is an infinity of previous'   *)
(* sign; inf - inf, inf / inf and any operation on NaN give NaN.          *)
ChangePct(previous, current) ==
    CASE previous \notin {NaN, Inf} /\ current \notin {NaN, Inf} ->
            [num |-> (current - previous) * 100, den |-> previous]
      [] previous \notin {NaN, Inf} /\ current = Inf -> [num |-> previous, den |-> 0]
      [] OTHER -> [num |-> 0, den |-> 0]

(* change_pct > 0 and change_pct < 0; both are False for NaN.             *)
PctPositive(pct) == pct.num * pct.den > 0 \/ (pct.den = 0 /\ pct.num > 0)
PctNegative(pct) == pct.num * pct.den < 0 \/ (pct.den = 0 /\ pct.num < 0)

(* The improvement / regression classification of detect_changes.         *)
ChangeStatus(metric, pct) ==
    IF metric \in HIGHER_IS_BETTER
    THEN IF PctPositive(pct) THEN "improvement" ELSE "regression"
    ELSE IF metric \in LOWER_IS_BETTER
         THEN IF PctNegative(pct) THEN "improvement" ELSE "regression"
         ELSE "unknown"

(* Faulty variant: not (abs(change_pct) < threshold_percent), the same    *)
(* test for numbers, but True for NaN.                                    *)
SignificantNegated(pct, threshold) ==
    ~(AbsVal(pct.num) < threshold * AbsVal(pct.den))

(* abs(change_pct) >= threshold_percent: True for an infinity, False for  *)
(* NaN.                                                                   *)
Significant(pct, threshold) ==
    IF pct.den = 0 THEN pct.num # 0
    ELSE AbsVal(pct.num) >= threshold * AbsVal(pct.den)

ChangeRecord(dataset, metric, prev, cur) ==
    LET pct == ChangePct(prev.value, cur.value)
    IN  [dataset          |-> dataset,
         metric           |-> metric,
         current_release  |-> cur.release,
         previous_release |-> prev.release,
         current_value    |-> cur.value,
         previous_value   |-> prev.value,
         change_pct       |-> pct,
         status           |-> ChangeStatus(metric, pct)]

(* The inner loop over i in range(1, len(releases)) for one pair; a step  *)
(* whose previous value is 0 is skipped before change_pct is computed.    *)
SeriesChanges(dataset, metric, s, threshold) ==
    { ChangeRecord(dataset, metric, s[i - 1], s[i]) :
        i \in { i \in 2..Len(s) :
                  /\ s[i - 1].value # 0
                  /\ Significant(ChangePct(s[i - 1].value, s[i].value),
                                 threshold) } }

(* detect_changes: every (dataset, metric) pair of the store, each walked *)
(* independently.                                                         *)
DetectChanges(rels, data, datasets, metrics, threshold) ==
    UNION { SeriesChanges(d, m, SeriesOf(rels, data, m, d), threshold) :
              d \in datasets, m \in metrics }

(* The aggregated view of generate_plots: a series whose first value is 0 *)
(* is left out, any other is divided by its first value (kept as the      *)
(* fraction value / first).                                               *)
Aggregate(s) ==
    IF s = <<>> \/ s[1].value = 0 THEN <<>>
    ELSE [i \in DOMAIN s |-> [release |-> s[i].release,
                              num     |-> s[i].value,
                              den     |-> s[1].value]]

----------------------------------------------------------------------------
(* Reference definitions, stated from the spec (sections 3, 4.2, 4.3).    *)

(* Positions of the release list that carry a value for (dataset, metric) *)
MeasuredAt(rels, data, dataset, metric) ==
    { i \in DOMAIN rels : data[rels[i]][dataset][metric] # NoValue }

(* The series: the measured positions in increasing order, with values.   *)
RefSeries(rels, data, metric, dataset) ==
    LET idx == SetToSortSeq(MeasuredAt(rels, data, dataset, metric), <)
    IN  [k \in DOMAIN idx |-> [release |-> rels[idx[k]],
                               value   |-> data[rels[idx[k]]][dataset][metric]]]

(* Two measured positions with no measured position between them.        *)
AdjacentMeasured(rels, data, dataset, metric) ==
    LET P == MeasuredAt(rels, data, dataset, metric)
    IN  { ij \in P \X P : ij[1] < ij[2] /\ ~\E k \in P : ij[1] < k /\ k < ij[2] }

(* The value rose or fell relative to the previous one, over the         *)
(* extended reals: an infinite current value moved in the direction of    *)
(* the previous value's sign.                                             *)
Rises(previous, current) ==
    IF current = Inf THEN previous > 0 ELSE (current - previous) * previous > 0
Falls(previous, current) ==
    IF current = Inf THEN previous < 0 ELSE (current - previous) * previous < 0

(* The direction policy: the value moved the way the metric wants when    *)
(* the relative change has the wanted sign.                               *)
RefStatus(metric, previous, current) ==
    CASE metric \in HIGHER_IS_BETTER ->
            IF Rises(previous, current) THEN "improvement" ELSE "regression"
      [] metric \in LOWER_IS_BETTER ->
            IF Falls(previous, current) THEN "improvement" ELSE "regression"
      [] OTHER -> "unknown"

(* The relative change from p to c reaches threshold percent.  Only a     *)
(* non-zero number can be compared against; an infinite c is an infinite  *)
(* change; a NaN on either side, or an infinite p, leaves the change      *)
(* undefined, and an undefined change reaches no threshold.               *)
Reaches(p, c, threshold) ==
    /\ p \notin {NaN, Inf}
    /\ p # 0
    /\ c # NaN
    /\ \/ c = Inf
       \/ 100 * AbsVal(c - p) >= threshold * AbsVal(p)

RefChange(rels, data, d, m, ij) ==
    LET p == data[rels[ij[1]]][d][m]
        c == data[rels[ij[2]]][d][m]
    IN  [dataset          |-> d,
         metric           |-> m,
         current_release  |-> rels[ij[2]],
         previous_release |-> rels[ij[1]],
         current_value    |-> c,
         previous_value   |-> p,
         change_pct       |-> IF c = Inf THEN [num |-> p, den |-> 0]
                              ELSE [num |-> (c - p) * 100, den |-> p],
         status           |-> RefStatus(m, p, c)]

(* A record for every adjacent measured pair whose change from the        *)
(* earlier value reaches the threshold.                                   *)
RefChanges(rels, data, datasets, metrics, threshold) ==
    UNION { { RefChange(rels, data, d, m, ij) :
                ij \in { ij \in AdjacentMeasured(rels, data, d, m) :
                           Reaches(data[rels[ij[1]]][d][m], data[rels[ij[2]]][d][m],
                                   threshold) } } :
            d \in datasets, m \in metrics }

=============================================================================
