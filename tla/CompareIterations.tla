--------------------------- MODULE CompareIterations ---------------------------
(***************************************************************************)
(* src/compare_benchmark_iterations.py: main() builds one BenchmarkData    *)
(* per directory with load_benchmark_data, then generate_comparison_plots  *)
(* draws both runs on one figure per metric.                               *)
(*                                                                         *)
(* A directory is a set of file names; Label[f] is what                    *)
(* extract_release_from_filename returns for f.  Python's str comparison   *)
(* of labels is given by LabelOrder, the labels in increasing string       *)
(* order; MainLabels are the labels whose lower() is "main".  list.sort is *)
(* stable over os.listdir order, which is arbitrary, so files whose keys   *)
(* tie may be loaded in either order.                                      *)
(*                                                                         *)
(* This add_file has no try: a failed open, or .strip() / .lower() on the  *)
(* None that DictReader gives a short row's missing cells and an over-long *)
(* row's surplus key, raise AttributeError out of main: the process        *)
(* crashes.  A row without a dataset (absent or empty cell) is skipped; a  *)
(* blank or non-numeric cell is skipped on its own.                        *)
(***************************************************************************)
EXTENDS Integers, Sequences, FiniteSets, SequencesExt

CONSTANTS Files,        \* file names ending in .csv
          Label,        \* [Files -> labels]: extract_release_from_filename
          LabelOrder,   \* every label, in increasing Python string order
          MainLabels,   \* labels l with l.lower() == "main"
          DatasetOrder, \* dataset names, in sorted() order
          Header,       \* metric columns in header order, after the dataset
          Vals,         \* numeric cell values
          Text,         \* a blank or non-numeric cell
          CellText,     \* {Text} or {}
          RowLengths,   \* numbers of metric cells a row may carry
          Surplus,      \* BOOLEAN or {FALSE}: whether a row may be over-long
          NoDataset,    \* the dataset cell is absent or empty
          NoValue,      \* the key is absent in the nested dicts
          MaxRows       \* bound on the rows read over the whole run

Runs == {1, 2}
Datasets == ToSet(DatasetOrder)
Metrics == ToSet(Header)
Releases == ToSet(LabelOrder)

ASSUME /\ Label \in [Files -> Releases] /\ MainLabels \subseteq Releases
       /\ IsInjective(LabelOrder) /\ IsInjective(DatasetOrder)
       /\ NoDataset \notin Datasets /\ RowLengths \subseteq 0..Len(Header)
       /\ Surplus \subseteq BOOLEAN

VARIABLES releases,  \* releases[run]: benchmark_dataN.releases
          data,      \* data[run][release][dataset][metric]
          datasets,  \* datasets[run]
          metrics,   \* metrics[run]
          run,       \* which load_benchmark_data call main() is in
          pc,        \* "scan", "next", "open", "rows", "plot", "done", "exited", "crashed"
          queue,     \* the sorted csv_files not yet loaded
          file,      \* release of the file add_file is reading
          rowsRead,  \* rows read so far
          axis,      \* all_releases of generate_comparison_plots
          shown,     \* shown[metric]: release order on the drawn x axis
          summary    \* generate_summary_report's Datasets section

vars == <<releases, data, datasets, metrics, run, pc, queue, file, rowsRead,
          axis, shown, summary>>

(* sort_key: (0, release) for "main", (1, release) for the rest.          *)
SortKey(f) == <<IF Label[f] \in MainLabels THEN 0 ELSE 1,
                CHOOSE i \in DOMAIN LabelOrder : LabelOrder[i] = Label[f]>>

KeyLeq(a, b) == a[1] < b[1] \/ (a[1] = b[1] /\ a[2] <= b[2])

(* csv_files.sort(key=sort_key), over any os.listdir order.               *)
SortedOrders(dir) ==
    { s \in [1..Cardinality(dir) -> dir] :
        /\ IsInjective(s)
        /\ \A i, j \in DOMAIN s : i < j => KeyLeq(SortKey(s[i]), SortKey(s[j])) }

(* A row: its dataset cell, the n metric cells present (the rest are      *)
(* None) and, for a complete row, whether a surplus field follows, which  *)
(* DictReader stores under the key None.                                  *)
Rows == UNION { [dataset : Datasets \cup {NoDataset},
                 cells : [1..n -> Vals \cup CellText],
                 extra : IF n = Len(Header) THEN Surplus ELSE {FALSE}] : n \in RowLengths }

(* Faulty variant: a cell loop that stores every present cell.           *)
NumericCellsAll(row) == DOMAIN row.cells

NumericCells(row) == { k \in DOMAIN row.cells : row.cells[k] \in Vals }

EmptyStore == [r \in Releases |-> [d \in Datasets |-> [m \in Metrics |-> NoValue]]]

TypeOK ==
    /\ releases \in [Runs -> Seq(Releases)]
    /\ data \in [Runs -> [Releases -> [Datasets -> [Metrics -> Vals \cup {NoValue}]]]]
    /\ datasets \in [Runs -> SUBSET Datasets]
    /\ metrics \in [Runs -> SUBSET Metrics]
    /\ run \in Runs
    /\ pc \in {"scan", "next", "open", "rows", "plot", "done", "exited", "crashed"}
    /\ queue \in Seq(Files)
    /\ file \in Releases \cup {NoValue}
    /\ rowsRead \in 0..MaxRows
    /\ axis \in Seq(Releases)
    /\ shown \in [Metrics -> Seq(Releases)]
    /\ summary \in UNION { [D -> {"both", "run1", "run2"}] : D \in SUBSET Datasets }

Init ==
    /\ releases = [k \in Runs |-> << >>]
    /\ data = [k \in Runs |-> EmptyStore]
    /\ datasets = [k \in Runs |-> {}]
    /\ metrics = [k \in Runs |-> {}]
    /\ run = 1
    /\ pc = "scan"
    /\ queue = << >>
    /\ file = NoValue
    /\ rowsRead = 0
    /\ axis = << >>
    /\ shown = [m \in Metrics |-> << >>]
    /\ summary = << >>

(* load_benchmark_data: a missing directory and one without .csv files    *)
(* end the process with sys.exit(1); otherwise the files are sorted.      *)
ScanDirectory(dir) ==
    /\ pc = "scan"
    /\ IF dir = {}
       THEN pc' = "exited" /\ UNCHANGED queue
       ELSE \E s \in SortedOrders(dir) : queue' = s /\ pc' = "next"
    /\ UNCHANGED <<releases, data, datasets, metrics, run, file, rowsRead, axis, shown, summary>>

DirectoryMissing ==
    /\ pc = "scan"
    /\ pc' = "exited"
    /\ UNCHANGED <<releases, data, datasets, metrics, run, queue, file, rowsRead,
                   axis, shown, summary>>

(* add_file's head: a release is appended at its first appearance only. *)
(* AppendReleaseAlways is a faulty variant without the membership test.   *)
AppendReleaseAlways(rels, r) == Append(rels, r)

AppendRelease(rels, r) == IF r \in ToSet(rels) THEN rels ELSE Append(rels, r)

(* The next file of the loop, and the head of add_file: the release is    *)
(* recorded before the file is opened.                                    *)
AddFile ==
    /\ pc = "next"
    /\ queue # << >>
    /\ releases' = [releases EXCEPT ![run] = AppendRelease(@, Label[Head(queue)])]
    /\ file' = Label[Head(queue)]
    /\ queue' = Tail(queue)
    /\ pc' = "open"
    /\ UNCHANGED <<data, datasets, metrics, run, rowsRead, axis, shown, summary>>

(* open() succeeds and DictReader reads the header.                       *)
OpenFile ==
    /\ pc = "open"
    /\ pc' = "rows"
    /\ UNCHANGED <<releases, data, datasets, metrics, run, queue, file, rowsRead,
                   axis, shown, summary>>

(* open() raising, with no handler around it.                             *)
OpenCrashes ==
    /\ pc = "open"
    /\ pc' = "crashed"
    /\ UNCHANGED <<releases, data, datasets, metrics, run, queue, file, rowsRead,
                   axis, shown, summary>>

(* One row: skipped without a dataset; else the dataset is recorded and   *)
(* the numeric cells stored; then a short row's first None value          *)
(* (value.strip()) or an over-long row's None key (key.lower()) raises.   *)
ReadRow(row) ==
    /\ pc = "rows"
    /\ rowsRead < MaxRows
    /\ rowsRead' = rowsRead + 1
    /\ IF row.dataset = NoDataset
       THEN UNCHANGED <<data, datasets, metrics>>
       ELSE /\ datasets' = [datasets EXCEPT ![run] = @ \cup {row.dataset}]
            /\ metrics' = [metrics EXCEPT ![run] = @ \cup { Header[k] : k \in NumericCells(row) }]
            /\ data' = [data EXCEPT ![run][file][row.dataset] =
                          [m \in Metrics |->
                             IF \E k \in NumericCells(row) : Header[k] = m
                             THEN row.cells[CHOOSE k \in NumericCells(row) : Header[k] = m]
                             ELSE @[m]]]
    /\ pc' = IF row.dataset # NoDataset /\ (Len(row.cells) < Len(Header) \/ row.extra)
             THEN "crashed" ELSE "rows"
    /\ UNCHANGED <<releases, run, queue, file, axis, shown, summary>>

EndOfFile ==
    /\ pc = "rows"
    /\ pc' = "next"
    /\ UNCHANGED <<releases, data, datasets, metrics, run, queue, file, rowsRead,
                   axis, shown, summary>>

(* The loop is done: main() goes on with the second directory, or plots.  *)
DirectoryLoaded ==
    /\ pc = "next"
    /\ queue = << >>
    /\ IF run = 1 THEN run' = 2 /\ pc' = "scan"
                  ELSE pc' = "plot" /\ UNCHANGED run
    /\ UNCHANGED <<releases, data, datasets, metrics, queue, file, rowsRead, axis, shown, summary>>
(* get_metric_data_for_dataset of one run's store.                        *)
(* The comparison never computes with a value, so NaN and Inf only need  *)
(* to be two values outside Vals.                                         *)
CD == INSTANCE ChangeDetector WITH HIGHER_IS_BETTER <- {}, LOWER_IS_BETTER <- {},
                                   NaN <- "nan", Inf <- "inf"

RunSeries(k, m, d) == CD!SeriesOf(releases[k], data[k], m, d)

(* Faulty variant: run 2's releases appended without the membership test. *)
MergedAxisConcat(rels1, rels2) == rels1 \o rels2

(* all_releases: run 1's releases, then each release of run 2 not yet in  *)
(* the list, in run 2's order.                                            *)
MergedAxis(rels1, rels2) ==
    FoldLeft(LAMBDA acc, r : IF r \in ToSet(acc) THEN acc ELSE Append(acc, r),
             rels1, rels2)

(* The releases of the series one figure draws, in plt.plot call order:   *)
(* sorted datasets, and for each the run 1 line, then the run 2 line.     *)
(* Each call passes the release labels as x values; matplotlib gives a    *)
(* string category the next axis position the first time it sees it, so  *)
(* the drawn x axis lists the labels in order of first appearance.        *)
DrawnLabels(m) ==
    FoldLeft(LAMBDA acc, d : acc \o [i \in DOMAIN RunSeries(1, m, d) |-> RunSeries(1, m, d)[i].release]
                                 \o [i \in DOMAIN RunSeries(2, m, d) |-> RunSeries(2, m, d)[i].release],
             << >>, DatasetOrder)

FirstAppearance(labels) ==
    FoldLeft(LAMBDA acc, r : IF r \in ToSet(acc) THEN acc ELSE Append(acc, r),
             << >>, labels)

(* generate_summary_report, the Datasets section: each dataset of either *)
(* run with the runs whose datasets set holds it.                         *)
DatasetPresence(ds1, ds2) ==
    [d \in ds1 \cup ds2 |-> IF d \in ds1 /\ d \in ds2 THEN "both"
                             ELSE IF d \in ds1 THEN "run1" ELSE "run2"]

(* The end of main(): generate_comparison_plots, one figure per metric of *)
(* either run, then generate_summary_report.                              *)
Plot ==
    /\ pc = "plot"
    /\ axis' = MergedAxis(releases[1], releases[2])
    /\ shown' = [m \in Metrics |->
                   IF m \in metrics[1] \cup metrics[2]
                   THEN FirstAppearance(DrawnLabels(m)) ELSE << >>]
    /\ summary' = DatasetPresence(datasets[1], datasets[2])
    /\ pc' = "done"
    /\ UNCHANGED <<releases, data, datasets, metrics, run, queue, file, rowsRead>>

Next ==
    \/ \E dir \in SUBSET Files : ScanDirectory(dir)
    \/ DirectoryMissing
    \/ AddFile
    \/ OpenFile
    \/ OpenCrashes
    \/ \E row \in Rows : ReadRow(row)
    \/ EndOfFile
    \/ DirectoryLoaded
    \/ Plot

Spec == Init /\ [][Next]_vars

----------------------------------------------------------------------------
(* The merged release axis is run 1's releases followed by the releases   *)
(* only run 2 has, in run 2's order, each once (spec 4.4 and 8).          *)
MergedAxisMatchesSpec ==
    pc = "done" =>
        axis = releases[1] \o SelectSeq(releases[2], LAMBDA r : r \notin ToSet(releases[1]))

(* load_benchmark_data's sort puts a "main" file (any case) after every   *)
(* other file, so within a run no other release follows "main" (the       *)
(* comment in sort_key, spec 4.4 and 8).                                  *)
MainLoadedLast ==
    \A k \in Runs : \A i, j \in DOMAIN releases[k] :
        i < j => ~(releases[k][i] \in MainLabels /\ releases[k][j] \notin MainLabels)

(* Every comparison figure orders its releases along the merged axis      *)
(* (spec 3 and 4.4: the merged axis is what the overlay is drawn on).     *)
Position(r, s) == CHOOSE i \in DOMAIN s : s[i] = r

ShownAlongMergedAxis ==
    pc = "done" =>
        \A m \in Metrics : \A i, j \in DOMAIN shown[m] :
            i < j => Position(shown[m][i], axis) < Position(shown[m][j], axis)

(* Each run's BenchmarkData implements the Metric Store: the release list  *)
(* takes a label once, at its first file, and a row overwrites only the    *)
(* triples it carries (spec sections 3 and 8), whatever order the sort     *)
(* leaves files with equal labels in.                                      *)
Store1 == INSTANCE MetricStore WITH releases <- releases[1], data <- data[1],
                                    datasets <- datasets[1], metrics <- metrics[1]
Store2 == INSTANCE MetricStore WITH releases <- releases[2], data <- data[2],
                                    datasets <- datasets[2], metrics <- metrics[2]

StoresImplementMetricStore == Store1!Spec /\ Store2!Spec

(* A file that cannot be read or holds a malformed row is a per-file load *)
(* error: it contributes no data and the run goes on with the other files *)
(* (spec 7); main() never dies with an uncaught exception.                *)
FileErrorsAreSoft == pc # "crashed"
====
