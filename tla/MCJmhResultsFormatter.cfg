\* One benchmark method and one k: results.csv from a sweep of the PQ subspaces
\* alone, up to six rows, so that one result carries all four counters beside a second result with none.
CONSTANTS
    Method = Method
    OtherMethods = {}
    Ks = {k1}
    PQs = {p1, p2}
    NoCounter = NoCounter
    NoValue = NoValue
    MaxResults = 6
SPECIFICATION Spec
\* The script ends after printing the table.
CHECK_DEADLOCK FALSE
INVARIANTS EachResultOnce CountersOfOwnConfiguration
