\* A failed or empty last file after a file with data.
CONSTANTS
    Releases = {r1, r2}
    Datasets = {d1, d2}
    Header <- MCHeaderShort
    HIGHER_IS_BETTER <- MCHigher
    LOWER_IS_BETTER <- MCLower
    Vals = {1, 2}
    Text = Text
    NoValue = NoValue
    CellText = {Text}
    RowLengths = {0, 1, 2}
    Surplus = {FALSE, TRUE}
    Thresholds = {50}
    NaN = NaN
    Inf = Inf
    ColumnVals <- MCStoreColumns
    MaxFiles = 3
    MaxRows = 3
SPECIFICATION Spec
CHECK_DEADLOCK FALSE
INVARIANT LatestTableShowsData
