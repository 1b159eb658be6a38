\* Names of up to 7 tokens over two digit runs and two letter runs.
CONSTANTS
    Digits = {"1", "10"}
    Letters = {"v", "csv"}
    MaxLen = 7
SPECIFICATION Spec
\* The generator stops once a name has MaxLen tokens.
CHECK_DEADLOCK FALSE
INVARIANT LabelIgnoresDirectory
