# TLA+ models of the jvector benchmark analysis scripts

This directory holds TLA+ models of the Python tools under `src/`. They
check how benchmark result files become a per-release store, how changes
between releases are found, and how two runs are overlaid. Every definition
is translated from the source. `PROJECT.json` maps each definition to the
lines it models and lists the runs, mutants, findings and hazards.

## The system

The repository has three scripts:

- `src/visualize_benchmarks.py` is the single-run tool. `main()` calls
  `BenchmarkData.add_file` for each path on the command line, in order. It
  then calls `detect_changes(threshold)`, `generate_plots` (one figure per
  metric plus an "aggregated" figure of series relative to their first
  value) and `generate_report` (markdown).
- `src/compare_benchmark_iterations.py` is the two-run tool.
  `load_benchmark_data(dir)` is called once per directory. It exits when a
  directory is missing or has no `.csv` file. It sorts the files with
  `sort_key` and loads them through its own `BenchmarkData.add_file`. Then
  `generate_comparison_plots` draws both runs on one figure per metric, and
  `generate_summary_report` writes markdown.
- `src/benchmarks-jmh/scripts/jmh_results_formatter.py` is a straight-line
  pandas script. It left-merges the scores of four JMH counters onto the
  main benchmark rows, on `Param: numberOfPQSubspaces`, and prints the
  result.

### Components, state and operations

| Component | State | Operations |
|---|---|---|
| Ingestion and labels | none (reads a file) | `extract_release_from_filename` (two versions with different regexes), both `add_file` versions |
| Metric store `BenchmarkData` | `releases` (list, first-seen order), `data[release][dataset][metric]`, the sets `datasets` and `metrics` | `add_file`, `get_metric_data_for_dataset` |
| Change detector | none | `detect_changes` walks every (dataset, metric) series |
| Run aligner | two stores | `load_benchmark_data` (scan, sort, load), `generate_comparison_plots` (`all_releases`, the plot calls) |
| Baseline normaliser | none | the aggregated figure of `generate_plots` |
| Reports and charts | output files | `generate_report`, `generate_summary_report`, matplotlib calls |
| Formatter | a pandas frame | the merges on `Param: numberOfPQSubspaces` |

### How the components interact

Everything is sequential, and the components interact only through plain
calls. `main()` folds files into one store, and the analysis then reads that
store.

The programs run on one thread. What makes them hard is the order of the
loops and how an error in a file is handled:

- **Rows after an error.** In the visualize script, `float(None)` raises
  `TypeError`. It gets `None` from a short row's missing cells, or a list
  from an over-long row's surplus cells. Only `ValueError` is caught per
  cell, so the `TypeError` ends `add_file`. The rows after it are never
  read, and `main()` ignores the `False` that `add_file` returns.
- **Crashes.** In the compare script, a short row makes `.strip()` raise on
  `None`. That script has no handler, so the whole run crashes.
- **Release order.** Releases are appended to `releases` before the file is
  opened. A failed file or an empty file therefore leaves a release with no
  data, which is a hole in every series.
- **Sort order.** Release labels are compared as plain strings, so
  `"10.0.0"` sorts before `"2.0.0"`. Files whose labels tie are loaded in
  the arbitrary `os.listdir` order.
- **The drawn axis.** Figures put release labels on a categorical axis. That
  axis lists labels in the order the plot calls first show them.

### What makes each component correct

- **Store.** Release labels are never duplicated. Re-adding a release only
  overwrites the triples its rows supply. A series returns exactly the
  stored values, in release order. A cell that does not parse drops only
  that cell.
- **Detector.** There is one record per adjacent measured pair whose
  previous value is not 0 and whose change is at least the threshold. Its
  status follows the direction lists. Read over floats, a NaN on either
  side, or an infinite previous value, gives no record. An infinite current
  value gives a record.
- **Figures.** Each QPS error bar belongs to the point of its own release.
- **Aligner.** `main` is loaded last. The merged axis is run 1's releases
  followed by run 2's new releases. The figures follow that axis.
- **Normaliser.** Every point is divided by the first value. Series that
  start at 0 are left out.
- **Labels.** The label is the first `d.d` or `d.d.d` of the file name, or
  the name without its extension, and both scripts agree on it.
- **Report.** The improvement and regression tables follow the direction
  lists. The Latest Results table shows the data of the last release.
- **Formatter.** One printed row per main result, with the counters of the
  same configuration.

## Modules

| Module | Models | State and actions |
|---|---|---|
| `ChangeDetector` | `get_metric_data_for_dataset` (`SeriesOf`, recursive), `detect_changes` (`ChangePct`, `ChangeStatus`, `Significant`, `SeriesChanges`, `DetectChanges`), the aggregated view (`Aggregate`) | Pure operators. A second section gives reference definitions written from the spec (`RefSeries`, `AdjacentMeasured`, `RefChanges`). |
| `MetricStore` | spec sections 3 and 4.2: what a Metric Store promises | Abstract specification: `AddRelease` (append only when new) and `WriteRow` (overwrite the triples a row carries, for a listed release). |
| `VisualizeBenchmarks` | `visualize_benchmarks.py` `main()` with its `BenchmarkData` | Variables `releases`, `data`, `datasets`, `metrics` are the class fields. `pc`, `filesLeft`, `file` and `rowsRead` track the loops. `changes`, `aggregated`, `shown`, `errorBars`, `improvements`, `regressions`, `latest` and `latestTable` are the outputs. Actions: `AddFile` (loop iteration and the head of `add_file`), `OpenFile`/`OpenFails`, `ReadRow` (one DictReader row: dataset, numeric cells, and the `TypeError` that leaves the file), `EndOfFile`, and `Analyse` (the rest of `main()`: `detect_changes`, `generate_plots` and `generate_report`). `Store == INSTANCE MetricStore` is the refinement. |
| `VisualizeUnreadRows` | the rows `add_file` leaves unread | Extends the above with the ghost variables `aborted` and `lost`, and the action `UnreadRow`. |
| `CompareIterations` | `compare_benchmark_iterations.py` `main()` | Per-run store functions `releases[run]`, `data[run]` and so on, plus `run`, `pc`, `queue` (the sorted file list), `axis` (`all_releases`), `shown` (the drawn x axis per metric) and `summary` (the Datasets section of the summary report). Actions: `ScanDirectory`, `DirectoryMissing`, `AddFile`, `OpenFile`/`OpenCrashes` (the `open()` call that either succeeds or raises), `ReadRow`, `EndOfFile`, `DirectoryLoaded`, `Plot` (plots and summary report). `Store1` and `Store2` instantiate `MetricStore` on each run's store. |
| `ReleaseLabel` | both `extract_release_from_filename` functions and the call in visualize `main()` | Operators over tokenised names: `SearchTwoOrThree` and `SearchThree` (the two regex searches, recursive), `Basename`, `SplitExtRoot`, `VisualizeLabel`, `CompareLabel`, `MainLabel`. The variable `name` grows by one token per `Grow` step, so every name up to `MaxLen` tokens is checked. `SpecLabel` is the spec's rule as a reference definition. |
| `JmhResultsFormatter` | `jmh_results_formatter.py` | `df` (results.csv, chosen in `Init`), `mainResults`, `counterRows`, `summary`, `merged`, `output`. Actions: `Filter` (the five filters), `Merge` (the next of the four left merges, `LeftMerge`), `ShowSummary` (column selection and renaming). |
| `MCVisualizeBenchmarks`, `MCCompareIterations` | model values and definitions for TLC | |

### Abstractions

- **Values.** A measurement is what `float()` returns: a small integer, or
  the model values `NaN` and `Inf` for the cells "nan" and "inf".
  `change_pct` is kept as the exact fraction `100*(c-p)/p`, so the
  threshold and sign tests are exact. A denominator of 0 stands for an
  infinity of the numerator's sign, and 0/0 for NaN. `ChangePct`,
  `PctPositive`, `PctNegative` and `Significant` follow IEEE arithmetic:
  `inf - inf`, `inf / inf` and every operation on NaN give NaN, and every
  comparison with NaN is false. Float rounding is a hazard that is not
  modelled. `-inf` is not enumerated.
- **Threshold.** `--threshold` is a variable chosen in `Init` from
  `Thresholds`, because argparse accepts any float, 0 included.
- **Cells.** A cell is a number, `Text` (any string `float()` rejects with
  `ValueError`, including `''`) or absent (`None`).
- **Row shapes.** Following DictReader, only trailing cells can be missing,
  and only a complete row can carry surplus fields. The header is
  `dataset` followed by the metric columns.
- **Labels.** In the store models a release label is a constant, the result
  of `extract_release_from_filename`, and Python's string order on labels
  is the constant `LabelOrder`. `ReleaseLabel` models the function itself on
  names cut into tokens: a maximal digit run, `.`, `/`, and a run of other
  characters. The optional `v`/`release-` prefix of the patterns holds no
  digit and lies outside the group, so it never changes the label, and the
  tokens need not spell it out.
- **Set order.** A loop over a Python set of strings visits it in a
  hash-dependent order. `DatasetOrders` lets it be any order, the same for
  every loop over the unchanged set.
- **The drawn axis.** `shown` follows matplotlib's categorical axis, which
  gives each new string label the next position. This is library
  behaviour, not code of the repository, and it is stated in
  `FirstAppearance` and `DrawnLabels`.
- **Report and formatter output.** Tables are kept as sets or sequences of
  records. Number formatting, `round()`, markdown and `to_string()` are
  left out. In the formatter a score is the position of its row in
  results.csv, so an output cell says which row it came from.

## Runs

| Run | Checks | Bounds | Result |
|---|---|---|---|
| `visualize_store` | `TypeOK`, `SeriesFaithful`, `ErrorBarsFollowRelease`, `ImplementsMetricStore` | 2 releases, 1 dataset, columns QPS, Mean Latency (values {1,2}) and QPS StdDev (value 1), text cells, rows of 0 to 3 cells and over-long rows, up to 3 files and 3 rows | pass (15k states) |
| `visualize_detect` | `ChangesMatchSpec` | 3 releases, 1 dataset, one metric of each direction, QPS values {0,1,2,NaN,Inf}, the other columns {1,2}, thresholds 0 and 50, complete rows, up to 3 files and 3 rows | pass (507k states) |
| `visualize_unread_rows` | `UnparsedCellDropsOnlyItself` | as the loader run, 1 dataset | violation: a short row ends the file, and the next row's cells are lost |
| `visualize_latest_table` | `LatestTableShowsData` | as `visualize_store` | violation: a failed last file blanks the Latest Results table |
| `compare_axis` | `TypeOK`, `MergedAxisMatchesSpec`, `StoresImplementMetricStore` | 4 files labelled "2.0.0", "10.0.0", "main" and "2.0.0" (a sort-key tie), 2 datasets, 1 metric, up to 3 rows | pass (207k states) |
| `compare_main_last` | `MainLoadedLast` | 3 of the files | violation: `main` is loaded first |
| `compare_drawn_axis` | `ShownAlongMergedAxis` | same | violation: a figure shows "10.0.0" before "2.0.0" while `all_releases` has the opposite order |
| `compare_file_errors` | `FileErrorsAreSoft` | same, with over-long rows | violation: an unreadable file or a malformed row ends the process |
| `release_labels` | `VisualizeLabelMatchesSpec`, `ScriptsAgreeOnThreePartVersions` | every name of up to 8 tokens over digit runs "1" and "10", letters "v" and "csv", "." and "/" | pass (1.05M states) |
| `release_label_path` | `LabelIgnoresDirectory` | same | violation: the path "1.1/v" is labelled "1.1", the file name "v" alone "v" |
| `jmh_single_k` | `EachResultOnce`, `CountersOfOwnConfiguration` | every results.csv of up to 6 distinct rows, one method, one k, 2 PQ settings | pass (1.31M states) |
| `jmh_several_k` | `EachResultOnce` | 2 values of k, 1 PQ setting, up to 5 rows | violation: a main row appears once per k |

Why these bounds are enough:

- Three releases with values {0,1,2} and threshold 50 reach every case of
  the detector: a hole, a zero previous value, a change exactly at the
  threshold (2 to 1 is -50%), changes above and below it, no change, and
  each direction list. NaN and Inf in the QPS column put NaN before,
  between and after numbers, and an infinity after a number and after
  itself. Threshold 0 reports every step from a non-zero value, an
  unchanged value included, as a regression.
- A full row stores a QPS StdDev and a short row does not. So the StdDev
  series can have a hole where the QPS series has a point, which is the
  case where matching bars by position goes wrong.
- Up to three files with two labels re-add a release.
- Two datasets let one dataset miss a release that the other has, which is
  what reorders the drawn axis.
- Two compare files with one label tie on `sort_key`, so both load orders
  of a release's files are explored.
- Eight tokens hold a three-part version with both a prefix and an
  extension (`v1.10.1.csv`), a directory before a two-part version, and
  two versions in one name. Two digit runs tell the leftmost match from a
  later one.
- Six formatter rows fit one main result with all four counters beside a
  second main result that has none, or two main results and four
  counters split between them.

### Fairness and termination

Both programs are one thread whose loops are `for` loops over finite lists
(the files of the command line or of the directory, the rows of a file),
so every run ends by construction; in the models the file and row counts
are bounded by `MaxFiles`, the directory contents and `MaxRows`. No
liveness property is stated and no fairness is assumed: a termination
property would hold by the shape of the model, whatever the code did.

Deadlock is not checked. Every program stops: a finished run ends in
`done`, a failed compare run in `exited` or `crashed`, and the label
generator at `MaxLen` tokens.

### Refinement

`MetricStore` is the abstract store of spec sections 3 and 4.2. Both store
models are shown to implement it. `ImplementsMetricStore` is `Store!Spec`
with the identity mapping. `StoresImplementMetricStore` maps run k's
abstract variables to `releases[k]`, `data[k]`, `datasets[k]` and
`metrics[k]`. Every step of the loaders must therefore be a release added
at its first appearance, a row overwriting only the triples it carries, or
a stutter. This rules out duplicate release labels and lost values.

Each property of a passing run has a mutant, listed in `PROJECT.json`: a
faulty variant of a mapped definition that TLC shows the property catches.
Examples are a dropped membership test, `>` instead of `>=`, error bars
matched by position, a left merge made inner, or the last regex match
instead of the first.

## Findings

1. **`visualize_benchmarks.py:63`.** A short or over-long row ends
   `add_file` and drops the rest of the file. The spec says a cell that does
   not parse never aborts the remaining cells or rows.
2. **`compare_benchmark_iterations.py:128`.** `sort_key` puts `main`
   first. The comment and the spec say last.
3. **`compare_benchmark_iterations.py:151`.** `all_releases` is never used.
   The comparison figures order releases by first appearance, which can
   invert the release order.
4. **`visualize_benchmarks.py:340`.** `main()` ignores the `False` that
   `add_file` returns. A failed last file is `releases[-1]`, and the Latest
   Results table comes out empty. Spec 7 asks the caller to check the
   signal.
5. **`compare_benchmark_iterations.py:69`.** The compare `add_file` has no
   handler. An unreadable file, a short row (`None.strip()`) or an
   over-long row (`None.lower()`) crashes the comparison. Spec 7 says a
   per-file error is soft.
6. **`visualize_benchmarks.py:338`.** The label is searched in the whole
   path, so a version in a directory name labels every file in it: TLC's
   shortest trace is the path "1.1/v", labelled "1.1" where the file name
   "v" alone is labelled "v". Spec 4.1 derives the label from the file
   name.
7. **`jmh_results_formatter.py:22`.** The merges use the PQ setting alone.
   With several values of k, every main row is joined to each k's
   counters.

## Not modelled, and what is left

- **Float rounding in the detector.** Values are exact integers, NaN and
  Inf, and the arithmetic on them is exact. It is listed as a hazard.
- **Figure file names.** `safe_metric_name` can give two metrics the same
  PNG. It is listed as a hazard.
- **Determinism over `os.listdir` ties.** Both orders are explored. A
  property that the store is the same under both compares two executions,
  which is not a property of one behaviour.
- **Modelled, but checked by no run.** These are in the models and listed
  as hazards:
  - the x axis of the single-run figures (`shown` in `VisualizeBenchmarks`);
  - that a missing QPS deviation is drawn as a bar of 0 (`errorBars`);
    `ErrorBarsFollowRelease` checks only that each bar sits on its own
    release's point;
  - the compare script's two-part versions;
  - the counters of a second benchmark method in the formatter;
  - the aggregated series (`aggregated`): `Aggregate` is `value / first
    value` as spec 4.5 states it, and a NaN or inf first value turns the
    whole line into NaN points, which the spec's formula gives too;
  - the report's improvement and regression tables, which are the
    `changes` records split by status (checked through `ChangesMatchSpec`).
- **Left out for good.** These change no state that a property could
  observe:
  - argparse;
  - markdown and image formatting, colours and subplot layout;
  - the system information from psutil and platform.
