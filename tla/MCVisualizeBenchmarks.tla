------------------------ MODULE MCVisualizeBenchmarks ------------------------
(* Small instances of the visualize_benchmarks.py pipeline for TLC.         *)
EXTENDS VisualizeBenchmarks

(* Three metric columns, one per direction of the classification lists.   *)
MCHeader == <<"QPS", "Mean Latency", "QPS StdDev">>
MCHigher == {"QPS", "Recall@10"}
MCLower  == {"Mean Latency", "Index Build Time"}

(* Two metric columns, for the runs that look at the loader.              *)
MCHeaderShort == <<"QPS", "Mean Latency">>
(* The store runs: QPS StdDev takes one value, the other columns all.    *)
MCStoreColumns == [m \in Metrics |-> IF m = "QPS StdDev" THEN {1} ELSE Vals]

(* The detection run: QPS also takes 0, NaN and Inf; the other columns    *)
(* take the two values that make a change of each direction.             *)
MCDetectColumns == [m \in Metrics |-> IF m = "QPS" THEN Vals ELSE {1, 2}]
=============================================================================
