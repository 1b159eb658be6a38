\* Two directories drawn from three files, "main" among them; two datasets so
\* that a release can be missing from one dataset's series.
CONSTANTS
    f1 = f1
    f2 = f2
    f3 = f3
    f4 = f4
    Files = {f1, f2, f3}
    Label <- MCLabel
    LabelOrder <- MCLabelOrder
    MainLabels <- MCMainLabels
    DatasetOrder <- MCDatasetOrder
    Header <- MCHeader
    Vals = {1}
    Text = Text
    CellText = {Text}
    RowLengths = {0, 1}
    Surplus = {FALSE}
    NoDataset = NoDataset
    NoValue = NoValue
    MaxRows = 3
SPECIFICATION Spec
CHECK_DEADLOCK FALSE
INVARIANT MainLoadedLast
