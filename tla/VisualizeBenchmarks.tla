------------------------- MODULE VisualizeBenchmarks -------------------------
(***************************************************************************)
(* The single-run pipeline of src/visualize_benchmarks.py: main() loads    *)
(* every file of args.files into one BenchmarkData through add_file, then  *)
(* runs detect_changes, the aggregated view of generate_plots and the     *)
(* tables of generate_report.                                              *)
(*                                                                         *)
(* add_file is modelled row by row, as csv.DictReader hands rows to it.    *)
(* The header is "dataset" followed by the metric columns Header.  A row   *)
(* either has every column, possibly one field too many (DictReader puts   *)
(* the surplus under the key None), or is short: its first n metric cells  *)
(* are present and the rest are None.  A cell that is present is either a  *)
(* number (a member of Vals) or Text, which float() rejects with a         *)
(* ValueError that the loop swallows.  float(None) and float(list) raise   *)
(* TypeError instead, which escapes the cell loop and ends add_file at the *)
(* outer except: the rows still unread are never processed.                *)
(***************************************************************************)
EXTENDS ChangeDetector, FiniteSets

CONSTANTS Releases,       \* release labels extract_release_from_filename yields
          Datasets,       \* values of the dataset column
          Header,         \* metric columns, in header order (after "dataset")
          Vals,           \* values float() returns here: integers, NaN, Inf
          ColumnVals,     \* ColumnVals[m]: the values of Vals column m carries
          Text,           \* a cell float() rejects with ValueError ('' or words)
          CellText,       \* {Text} or {}: whether rows may carry such cells
          RowLengths,     \* the numbers of metric cells a row may carry
          Surplus,        \* BOOLEAN or {FALSE}: whether a row may be over-long
          Thresholds,     \* values --threshold is given, whole percentages
          MaxFiles,       \* bound on len(args.files)
          MaxRows         \* bound on the rows read over the whole run

Metrics == { Header[k] : k \in DOMAIN Header }

ASSUME /\ Vals \subseteq Int \cup {NaN, Inf} /\ Text \notin Vals /\ NoValue \notin Vals
       /\ ColumnVals \in [Metrics -> SUBSET Vals]
       /\ CellText \subseteq {Text} /\ RowLengths \subseteq 0..Len(Header)
       /\ Surplus \subseteq BOOLEAN
       /\ Thresholds \subseteq Nat /\ MaxFiles \in Nat \ {0} /\ MaxRows \in Nat

VARIABLES releases,   \* self.releases
          data,       \* self.data[release][dataset][metric]
          datasets,   \* self.datasets
          metrics,    \* self.metrics
          pc,         \* where main() is: "main", "open", "rows", "done"
          filesLeft,  \* files of args.files not yet passed to add_file
          file,       \* the release of the file add_file is reading
          rowsRead,   \* rows read so far (bounded by MaxRows)
          changes,    \* the result of detect_changes
          aggregated, \* the aggregated series of generate_plots
          improvements, \* the report's improvements table
          regressions,  \* the report's regressions table
          latest,       \* the report's latest_release (NoValue for "N/A")
          latestTable,  \* the report's Latest Results rows, per dataset
          shown,        \* shown[metric]: the drawn x axis of the metric's figure
          errorBars,    \* errorBars[dataset]: the QPS figure's error bars
          threshold     \* args.threshold

outputVars == <<improvements, regressions, latest, latestTable, shown, errorBars>>

vars == <<releases, data, datasets, metrics, pc, filesLeft, file, rowsRead,
          changes, aggregated, outputVars, threshold>>

(* The columns of the Latest Results table.                               *)
ReportColumns == {"QPS", "Mean Latency", "Recall@10"}

EmptyStore == [r \in Releases |-> [d \in Datasets |-> [m \in Metrics |-> NoValue]]]

(* The n metric cells a row may carry: each a value of its column or text. *)
Cells(n) == { c \in [1..n -> Vals \cup CellText] :
                \A k \in 1..n : c[k] \in ColumnVals[Header[k]] \cup CellText }

(* A row handed to add_file: the dataset cell, the n metric cells present *)
(* and whether a surplus field follows.                                   *)
Rows == UNION { [dataset : Datasets, cells : Cells(n),
                 extra : IF n = Len(Header) THEN Surplus ELSE {FALSE}] :
                  n \in RowLengths }

(* Faulty variant: a cell loop that stores every present cell.           *)
NumericCellsAll(row) == DOMAIN row.cells

(* The cells of a row that float() accepts, and whether the row raises    *)
(* TypeError after them (a None cell or the surplus list).                *)
NumericCells(row) == { k \in DOMAIN row.cells : row.cells[k] \in Vals }
RaisesTypeError(row) == Len(row.cells) < Len(Header) \/ row.extra

TypeOK ==
    /\ releases \in Seq(Releases)
    /\ data \in [Releases -> [Datasets -> [Metrics -> Vals \cup {NoValue}]]]
    /\ datasets \subseteq Datasets
    /\ metrics \subseteq Metrics
    /\ pc \in {"main", "open", "rows", "done"}
    /\ filesLeft \in 0..MaxFiles
    /\ file \in Releases \cup {NoValue}
    /\ rowsRead \in 0..MaxRows
    /\ latest \in Releases \cup {NoValue}
    /\ threshold \in Thresholds

(* BenchmarkData.__init__ and the parsed argument list.                   *)
Init ==
    /\ releases = << >>
    /\ data = EmptyStore
    /\ datasets = {}
    /\ metrics = {}
    /\ pc = "main"
    /\ filesLeft \in 1..MaxFiles
    /\ file = NoValue
    /\ rowsRead = 0
    /\ changes = {}
    /\ aggregated = [d \in Datasets, m \in Metrics |-> << >>]
    /\ improvements = {} /\ regressions = {}
    /\ latest = NoValue /\ latestTable = << >>
    /\ shown = [m \in Metrics |-> << >>] /\ errorBars = << >>
    /\ threshold \in Thresholds

(* add_file's head: a release is appended at its first appearance only. *)
(* AppendReleaseAlways is a faulty variant without the membership test.   *)
AppendReleaseAlways(rels, r) == Append(rels, r)

AppendRelease(rels, r) == IF r \in ToSet(rels) THEN rels ELSE Append(rels, r)

(* One iteration of main's file loop: the release label of the next file  *)
(* and the head of add_file, which records the release before opening.   *)
AddFile(release) ==
    /\ pc = "main"
    /\ filesLeft > 0
    /\ releases' = AppendRelease(releases, release)
    /\ file' = release
    /\ filesLeft' = filesLeft - 1
    /\ pc' = "open"
    /\ UNCHANGED <<threshold, data, datasets, metrics, rowsRead, changes, aggregated, outputVars>>

(* open() and the header read by DictReader.  A file that cannot be       *)
(* opened, and a header without a "dataset" column (row['dataset'] raises *)
(* KeyError on the first row; a file with no rows returns normally),      *)
(* end add_file with False; main() ignores the result.                    *)
OpenFile ==
    /\ pc = "open"
    /\ pc' = "rows"
    /\ UNCHANGED <<threshold, releases, data, datasets, metrics, filesLeft, file, rowsRead,
                   changes, aggregated, outputVars>>

OpenFails ==
    /\ pc = "open"
    /\ pc' = "main"
    /\ UNCHANGED <<threshold, releases, data, datasets, metrics, filesLeft, file, rowsRead,
                   changes, aggregated, outputVars>>

(* One row of the for-loop: add the dataset, then store every numeric     *)
(* cell in header order; a TypeError after them leaves add_file.          *)
ReadRow(row) ==
    /\ pc = "rows"
    /\ rowsRead < MaxRows
    /\ rowsRead' = rowsRead + 1
    /\ datasets' = datasets \cup {row.dataset}
    /\ metrics' = metrics \cup { Header[k] : k \in NumericCells(row) }
    /\ data' = [data EXCEPT ![file][row.dataset] =
                  [m \in Metrics |->
                     IF \E k \in NumericCells(row) : Header[k] = m
                     THEN row.cells[CHOOSE k \in NumericCells(row) : Header[k] = m]
                     ELSE @[m]]]
    /\ pc' = IF RaisesTypeError(row) THEN "main" ELSE "rows"
    /\ UNCHANGED <<threshold, releases, filesLeft, file, changes, aggregated, outputVars>>

(* The reader is exhausted: add_file returns True.                        *)
EndOfFile ==
    /\ pc = "rows"
    /\ pc' = "main"
    /\ UNCHANGED <<threshold, releases, data, datasets, metrics, filesLeft, file, rowsRead,
                   changes, aggregated, outputVars>>

(* generate_report: the list comprehensions that split the changes by     *)
(* status; a record of status "unknown" is in neither table.              *)
ReportRows(chs, status) == { c \in chs : c.status = status }

(* generate_report's Latest Results: releases[-1], or "N/A"; a row for    *)
(* each dataset whose dict exists under that release.  The inner dict is  *)
(* created by the first stored cell of the pair (detect_changes and        *)
(* generate_plots have by then created the release's outer dict), and a   *)
(* missing column prints "N/A" (NoValue here).                            *)
LatestRelease(rels) == IF rels = << >> THEN NoValue ELSE Last(rels)

LatestRows(rels, dt, dsets) ==
    LET r == LatestRelease(rels) IN
    IF r = NoValue THEN << >>
    ELSE [d \in { d \in dsets : \E m \in Metrics : dt[r][d][m] # NoValue } |->
            [c \in ReportColumns |-> IF c \in Metrics THEN dt[r][d][c] ELSE NoValue]]

(* The orders in which a loop over the set self.datasets may visit it:    *)
(* the iteration order of a Python set of strings depends on the hash     *)
(* seed, and is the same for every loop over the unchanged set.           *)
DatasetOrders(dsets) == { s \in [1..Cardinality(dsets) -> dsets] : IsInjective(s) }

ReleasesOf(s) == [i \in DOMAIN s |-> s[i].release]

(* matplotlib's categorical x axis gives a string the next position the   *)
(* first time a plot call passes it.                                      *)
FirstAppearance(labels) ==
    FoldLeft(LAMBDA acc, r : IF r \in ToSet(acc) THEN acc ELSE Append(acc, r),
             << >>, labels)

(* generate_plots, the figure of one metric: a line per dataset with data, *)
(* in the set's iteration order.                                          *)
DrawnAxis(m, ord) ==
    FirstAppearance(FoldLeft(LAMBDA acc, d : acc \o ReleasesOf(SeriesOf(releases, data, m, d)),
                             << >>, ord))

(* generate_plots, the QPS figure: with a "QPS StdDev" series for the      *)
(* dataset, errorbar with yerr = std_map.get(r, 0.0) per QPS release;      *)
(* without one, a plain line (NoValue).                                   *)
StdDevSeries(d) ==
    IF "QPS StdDev" \in Metrics THEN SeriesOf(releases, data, "QPS StdDev", d) ELSE << >>

(* Faulty variant: the StdDev values zipped with the QPS releases, so a   *)
(* bar goes to the point at the same position, not of the same release.   *)
QpsErrorBarsByPosition(d) ==
    LET q  == SeriesOf(releases, data, "QPS", d)
        sd == StdDevSeries(d)
    IN  IF sd = << >> THEN NoValue
        ELSE [i \in DOMAIN q |->
                [release |-> q[i].release,
                 yerr    |-> IF i <= Len(sd) THEN sd[i].value ELSE 0]]

QpsErrorBars(d) ==
    LET q  == SeriesOf(releases, data, "QPS", d)
        sd == StdDevSeries(d)
    IN  IF sd = << >> THEN NoValue
        ELSE [i \in DOMAIN q |->
                [release |-> q[i].release,
                 yerr    |-> IF \E j \in DOMAIN sd : sd[j].release = q[i].release
                             THEN sd[CHOOSE j \in DOMAIN sd : sd[j].release = q[i].release].value
                             ELSE 0]]

(* The rest of main(): detect_changes(args.threshold), then generate_plots *)
(* whose aggregated figure divides each series by its first value, then   *)
(* generate_report.                                                       *)
Analyse ==
    /\ pc = "main"
    /\ filesLeft = 0
    /\ changes' = DetectChanges(releases, data, datasets, metrics, threshold)
    /\ aggregated' = [d \in Datasets, m \in Metrics |->
                        IF d \in datasets /\ m \in metrics
                        THEN Aggregate(SeriesOf(releases, data, m, d))
                        ELSE << >>]
    /\ LET chs == DetectChanges(releases, data, datasets, metrics, threshold) IN
         /\ improvements' = ReportRows(chs, "improvement")
         /\ regressions' = ReportRows(chs, "regression")
    /\ latest' = LatestRelease(releases)
    /\ latestTable' = LatestRows(releases, data, datasets)
    /\ \E ord \in DatasetOrders(datasets) :
         shown' = [m \in Metrics |-> IF m \in metrics THEN DrawnAxis(m, ord) ELSE << >>]
    /\ errorBars' = [d \in { d \in datasets : "QPS" \in metrics /\ SeriesOf(releases, data, "QPS", d) # << >> } |->
                      QpsErrorBars(d)]
    /\ pc' = "done"
    /\ UNCHANGED <<threshold, releases, data, datasets, metrics, filesLeft, file, rowsRead>>

Next ==
    \/ \E r \in Releases : AddFile(r)
    \/ OpenFile
    \/ OpenFails
    \/ \E row \in Rows : ReadRow(row)
    \/ EndOfFile
    \/ Analyse

Spec == Init /\ [][Next]_vars

----------------------------------------------------------------------------
(* BenchmarkData implements the Metric Store: every step of main() is a   *)
(* release added at its first appearance (and only then appended), a row  *)
(* that overwrites just the triples it carries of a listed release, or     *)
(* leaves the store alone; so the release list never repeats a label and  *)
(* no stored value is lost (spec sections 3 and 8).                        *)
Store == INSTANCE MetricStore

ImplementsMetricStore == Store!Spec

(* get_metric_data_for_dataset returns exactly the releases that carry a  *)
(* value for the pair, in release-list order, with their values: no hole  *)
(* is filled and no measured release is dropped.                          *)
SeriesFaithful ==
    \A d \in Datasets, m \in Metrics :
        SeriesOf(releases, data, m, d) = RefSeries(releases, data, m, d)

(* When main() has run detect_changes, the records are exactly one per    *)
(* adjacent pair of measured releases of each (dataset, metric) whose     *)
(* earlier value is not 0 and whose change reaches the threshold, with    *)
(* the status the direction policy gives (spec section 4.3).              *)
ChangesMatchSpec ==
    pc = "done" =>
        changes = RefChanges(releases, data, datasets, metrics, threshold)

(* Each point of a QPS figure with error bars carries the bar of its own   *)
(* release: the bars follow the QPS series point for point, and where the *)
(* release has a QPS StdDev the bar is that value, even when the StdDev   *)
(* series has holes the QPS series lacks (std_map in generate_plots).      *)
ErrorBarsFollowRelease ==
    pc = "done" =>
        \A d \in DOMAIN errorBars : errorBars[d] # NoValue =>
            /\ ReleasesOf(errorBars[d]) = ReleasesOf(RefSeries(releases, data, "QPS", d))
            /\ \A i \in DOMAIN errorBars[d] :
                  LET sd == data[errorBars[d][i].release][d]["QPS StdDev"]
                  IN  sd # NoValue => errorBars[d][i].yerr = sd

(* When the store holds any measurement, the report's Latest Results      *)
(* table has a row: a file that failed or held no rows contributed no     *)
(* data (spec 4.1, 7), so it does not blank the table.                    *)
LatestTableShowsData ==
    pc = "done" /\ (\E r \in Releases, d \in Datasets, m \in Metrics : data[r][d][m] # NoValue)
        => latestTable # << >>

=============================================================================
