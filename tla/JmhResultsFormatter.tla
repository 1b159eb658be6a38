-------------------------- MODULE JmhResultsFormatter --------------------------
(***************************************************************************)
(* src/benchmarks-jmh/scripts/jmh_results_formatter.py: read JMH's        *)
(* results.csv, keep the main benchmark rows, left-merge the score of each *)
(* of the four auxiliary counters onto them on the column                  *)
(* 'Param: numberOfPQSubspaces', select and rename the columns, print.     *)
(*                                                                         *)
(* A row of results.csv is a benchmark name, the two parameters k and      *)
(* numberOfPQSubspaces, and a score.  A name is a benchmark method, with a *)
(* ":counter" suffix for an auxiliary counter (NoCounter for the method's  *)
(* own row).  JMH writes one row per (name, k, pq); the score of the i-th  *)
(* row is i, so that an output cell tells which input row it came from.   *)
(* NoValue is pandas' NaN of a left merge without a match.                 *)
(***************************************************************************)
EXTENDS Integers, Sequences, SequencesExt

CONSTANTS Method,       \* the method ending in testOnHeapRandomVectorsWithRecall
          OtherMethods, \* other benchmark methods of the same results.csv
          Ks,           \* values of Param: k
          PQs,          \* values of Param: numberOfPQSubspaces
          NoCounter,    \* the name has no ":" suffix
          NoValue,      \* NaN
          MaxResults    \* bound on the rows of results.csv

(* The counters, in the order the script merges them.                    *)
CounterOrder == <<"avgRecall", "avgReRankedCount", "avgVisitedCount",
                  "avgExpandedCountBaseLayer">>
Counters == ToSet(CounterOrder)

Names == [method : {Method} \cup OtherMethods, counter : Counters \cup {NoCounter}]
Keys  == [name : Names, k : Ks, pq : PQs]

ASSUME Method \notin OtherMethods /\ NoCounter \notin Counters /\ MaxResults \in Nat

VARIABLES df,          \* results.csv, rows [name, k, pq, score]
          pc,          \* "filter", "merge", "print", "done"
          mainResults, \* main_results
          counterRows, \* counterRows[c]: recall_results, reranked_results, ...
          summary,     \* summary: main rows with the merged counter scores
          merged,      \* the number of merges done
          output       \* summary_clean as printed

vars == <<df, pc, mainResults, counterRows, summary, merged, output>>

(* The contents results.csv can have: distinct (name, k, pq) rows.        *)
ResultFiles ==
    { [i \in DOMAIN s |-> [name |-> s[i].name, k |-> s[i].k, pq |-> s[i].pq, score |-> i]] :
        s \in { s \in UNION { [1..n -> Keys] : n \in 0..MaxResults } : IsInjective(s) } }

(* df['Benchmark'].str.endswith('testOnHeapRandomVectorsWithRecall') &    *)
(* ~df['Benchmark'].str.contains(':')                                      *)
IsMainResult(r) == r.name.method = Method /\ r.name.counter = NoCounter

(* df['Benchmark'].str.contains(':' + c): the suffix of any method.       *)
IsCounter(r, c) == r.name.counter = c

(* Faulty variant: how='inner', which drops a main row without a match.   *)
InnerMerge(left, right, c) ==
    FoldLeft(LAMBDA acc, row :
                LET m == SelectSeq(right, LAMBDA x : x.pq = row.pq)
                IN  acc \o [j \in DOMAIN m |-> [row EXCEPT !.counters[c] = m[j].score]],
             << >>, left)

(* Faulty variant: the merge without its key, a cross join.               *)
MergeIgnoringKey(left, right, c) ==
    FoldLeft(LAMBDA acc, row :
                IF right = << >> THEN Append(acc, [row EXCEPT !.counters[c] = NoValue])
                ELSE acc \o [j \in DOMAIN right |-> [row EXCEPT !.counters[c] = right[j].score]],
             << >>, left)

(* summary.merge(right[['Param: numberOfPQSubspaces', 'Score']],          *)
(*   on='Param: numberOfPQSubspaces', how='left'): each left row in order, *)
(* once per right row with its key, in right order, or once with NaN.     *)
LeftMerge(left, right, c) ==
    FoldLeft(LAMBDA acc, row :
                LET m == SelectSeq(right, LAMBDA x : x.pq = row.pq)
                IN  IF m = << >> THEN Append(acc, [row EXCEPT !.counters[c] = NoValue])
                    ELSE acc \o [j \in DOMAIN m |-> [row EXCEPT !.counters[c] = m[j].score]],
             << >>, left)

Init ==
    /\ df \in ResultFiles
    /\ pc = "filter"
    /\ mainResults = << >>
    /\ counterRows = [c \in Counters |-> << >>]
    /\ summary = << >>
    /\ merged = 0
    /\ output = << >>

(* The five filters, and summary = main_results.copy().                   *)
Filter ==
    /\ pc = "filter"
    /\ mainResults' = SelectSeq(df, IsMainResult)
    /\ counterRows' = [c \in Counters |-> SelectSeq(df, LAMBDA r : IsCounter(r, c))]
    /\ summary' = [i \in DOMAIN mainResults' |->
                     [k |-> mainResults'[i].k, pq |-> mainResults'[i].pq,
                      score |-> mainResults'[i].score,
                      counters |-> [c \in Counters |-> NoValue]]]
    /\ pc' = "merge"
    /\ UNCHANGED <<df, merged, output>>

(* The next of the four merges.                                           *)
Merge ==
    /\ pc = "merge"
    /\ merged < Len(CounterOrder)
    /\ LET c == CounterOrder[merged + 1]
       IN  summary' = LeftMerge(summary, counterRows[c], c)
    /\ merged' = merged + 1
    /\ pc' = IF merged' = Len(CounterOrder) THEN "print" ELSE "merge"
    /\ UNCHANGED <<df, mainResults, counterRows, output>>

(* summary_clean: the seven columns under their new names; round() and    *)
(* to_string() only change how the numbers are shown.                     *)
ShowSummary ==
    /\ pc = "print"
    /\ output' = [i \in DOMAIN summary |->
                    [k |-> summary[i].k, PQ_Subspaces |-> summary[i].pq,
                     Time_ms |-> summary[i].score,
                     Recall |-> summary[i].counters["avgRecall"],
                     ReRanked_Count |-> summary[i].counters["avgReRankedCount"],
                     Visited_Count |-> summary[i].counters["avgVisitedCount"],
                     Expanded_Count_BaseLayer |-> summary[i].counters["avgExpandedCountBaseLayer"]]]
    /\ pc' = "done"
    /\ UNCHANGED <<df, mainResults, counterRows, summary, merged>>

Next == Filter \/ Merge \/ ShowSummary

Spec == Init /\ [][Next]_vars

----------------------------------------------------------------------------
Column == [c \in Counters |->
             CASE c = "avgRecall" -> "Recall"
               [] c = "avgReRankedCount" -> "ReRanked_Count"
               [] c = "avgVisitedCount" -> "Visited_Count"
               [] c = "avgExpandedCountBaseLayer" -> "Expanded_Count_BaseLayer"]

(* The printed table has one row per main benchmark result, in the order  *)
(* of results.csv: the merges add columns, never rows.                    *)
EachResultOnce ==
    pc = "done" =>
        [i \in DOMAIN output |-> output[i].Time_ms]
            = [i \in DOMAIN SelectSeq(df, IsMainResult) |-> SelectSeq(df, IsMainResult)[i].score]

(* Every counter printed beside a result is that counter of the same      *)
(* benchmark method, k and numberOfPQSubspaces, and a counter is NaN only *)
(* when results.csv has no such row.                                      *)
CountersOfOwnConfiguration ==
    pc = "done" =>
        \A i \in DOMAIN output, c \in Counters :
            LET main == df[output[i].Time_ms]
                own  == { j \in DOMAIN df : df[j].name = [method |-> main.name.method, counter |-> c]
                                            /\ df[j].k = main.k /\ df[j].pq = main.pq }
            IN  IF own = {} THEN output[i][Column[c]] = NoValue
                ELSE output[i][Column[c]] \in own
====
