\* Malformed files: unreadable, short rows and over-long rows.
CONSTANTS
    f1 = f1
    f2 = f2
    f3 = f3
    f4 = f4
    Files = {f1, f2, f3}
    Label <- MCLabel
    LabelOrder <- MCLabelOrder
    MainLabels <- MCMainLabels
    DatasetOrder <- MCDatasetOrder
    Header <- MCHeader
    Vals = {1}
    Text = Text
    CellText = {Text}
    RowLengths = {0, 1}
    Surplus = {FALSE, TRUE}
    NoDataset = NoDataset
    NoValue = NoValue
    MaxRows = 3
SPECIFICATION Spec
CHECK_DEADLOCK FALSE
INVARIANT FileErrorsAreSoft
