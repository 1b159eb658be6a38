------------------------- MODULE MCCompareIterations -------------------------
(* Small directories of result files for compare_benchmark_iterations.py.   *)
EXTENDS CompareIterations

CONSTANTS f1, f2, f3, f4

(* Python orders "10.0.0" < "2.0.0" < "main": character by character.     *)
(* f4 is a second file of release "2.0.0" (say v2.0.0.csv beside         *)
(* bench-2.0.0.csv): its key ties with f1's.                              *)
MCLabel == [f \in Files |-> CASE f = f1 -> "2.0.0"
                              [] f = f2 -> "10.0.0"
                              [] f = f3 -> "main"
                              [] f = f4 -> "2.0.0"]
MCLabelOrder == <<"10.0.0", "2.0.0", "main">>
MCMainLabels == {"main"}
MCDatasetOrder == <<"d1", "d2">>
MCHeader == <<"QPS">>
=============================================================================
