----------------------------- MODULE MetricStore -----------------------------
(***************************************************************************)
(* What a Metric Store promises (spec sections 3 and 4.2), independent of *)
(* how a script reads its files: an ordered list of releases, each added  *)
(* once at its first appearance, and a map (release, dataset, metric) ->  *)
(* value in which a write of a row overwrites just the triples the row    *)
(* supplies (last write wins) and never removes one.  The sets of the     *)
(* datasets and metrics seen only grow.                                    *)
(*                                                                         *)
(* Both BenchmarkData classes are shown to implement this specification:  *)
(* VisualizeBenchmarks and CompareIterations (once per run) state it as a  *)
(* property through INSTANCE ... WITH.                                      *)
(***************************************************************************)
EXTENDS Sequences, SequencesExt

CONSTANTS Releases, Datasets, Metrics, Vals, NoValue

VARIABLES releases, data, datasets, metrics

storeVars == <<releases, data, datasets, metrics>>

Init ==
    /\ releases = << >>
    /\ data = [r \in Releases |-> [d \in Datasets |-> [m \in Metrics |-> NoValue]]]
    /\ datasets = {}
    /\ metrics = {}

(* A release is appended when it is new; adding a known one changes nothing. *)
AddRelease(r) ==
    /\ releases' = IF r \in ToSet(releases) THEN releases ELSE Append(releases, r)
    /\ UNCHANGED <<data, datasets, metrics>>

(* A row for a listed release: the dataset is seen, and the values it      *)
(* carries (a function from some metrics) overwrite those triples.         *)
WriteRow(r, d, vals) ==
    /\ r \in ToSet(releases)
    /\ datasets' = datasets \cup {d}
    /\ metrics' = metrics \cup DOMAIN vals
    /\ data' = [data EXCEPT ![r][d] =
                  [m \in Metrics |-> IF m \in DOMAIN vals THEN vals[m] ELSE @[m]]]
    /\ UNCHANGED releases

Next ==
    \/ \E r \in Releases : AddRelease(r)
    \/ \E r \in Releases, d \in Datasets, M \in SUBSET Metrics :
          \E vals \in [M -> Vals] : WriteRow(r, d, vals)

Spec == Init /\ [][Next]_storeVars
====
