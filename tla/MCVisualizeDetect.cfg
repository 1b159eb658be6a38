\* Change detection: three releases, a 0 value, a step exactly at the threshold
\* (2 -> 1 is -50%), and one metric of each direction.
CONSTANTS
    Releases = {r1, r2, r3}
    Datasets = {d1}
    Header <- MCHeader
    HIGHER_IS_BETTER <- MCHigher
    LOWER_IS_BETTER <- MCLower
    Vals = {0, 1, 2, NaN, Inf}
    Text = Text
    NoValue = NoValue
    CellText = {}
    RowLengths = {3}
    Surplus = {FALSE}
    Thresholds = {0, 50}
    NaN = NaN
    Inf = Inf
    ColumnVals <- MCDetectColumns
    MaxFiles = 3
    MaxRows = 3
SPECIFICATION Spec
CHECK_DEADLOCK FALSE
INVARIANTS ChangesMatchSpec
