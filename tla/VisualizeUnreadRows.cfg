\* A short row followed by a complete one in the same file.
CONSTANTS
    Releases = {r1, r2}
    Datasets = {d1}
    Header <- MCHeaderShort
    HIGHER_IS_BETTER <- MCHigher
    LOWER_IS_BETTER <- MCLower
    Vals = {1}
    Text = Text
    NoValue = NoValue
    CellText = {Text}
    RowLengths = {0, 1, 2}
    Surplus = {FALSE, TRUE}
    Thresholds = {50}
    NaN = NaN
    Inf = Inf
    ColumnVals <- MCStoreColumns
    MaxFiles = 2
    MaxRows = 3
SPECIFICATION SpecWithUnread
CHECK_DEADLOCK FALSE
INVARIANT UnparsedCellDropsOnlyItself
