\* Loader and store: re-added releases, short and over-long rows, text cells.
CONSTANTS
    Releases = {r1, r2}
    Datasets = {d1}
    Header <- MCHeader
    HIGHER_IS_BETTER <- MCHigher
    LOWER_IS_BETTER <- MCLower
    Vals = {1, 2}
    Text = Text
    NoValue = NoValue
    CellText = {Text}
    RowLengths = {0, 1, 2, 3}
    Surplus = {FALSE, TRUE}
    Thresholds = {50}
    NaN = NaN
    Inf = Inf
    ColumnVals <- MCStoreColumns
    MaxFiles = 3
    MaxRows = 3
SPECIFICATION Spec
CHECK_DEADLOCK FALSE
INVARIANTS TypeOK SeriesFaithful ErrorBarsFollowRelease
PROPERTIES ImplementsMetricStore
