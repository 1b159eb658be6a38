\* Two values of k for one PQ setting.
CONSTANTS
    Method = Method
    OtherMethods = {}
    Ks = {k1, k2}
    PQs = {p1}
    NoCounter = NoCounter
    NoValue = NoValue
    MaxResults = 3
SPECIFICATION Spec
\* The script ends after printing the table.
CHECK_DEADLOCK FALSE
INVARIANT EachResultOnce
