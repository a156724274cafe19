SPECIFICATION Spec
CONSTANTS
    Daemon = {d1, d2}
    Value = {v1}
    MaxRuns = 3
SYMMETRY MCSymmetry
INVARIANTS Openable Reachable  AllSaved
PROPERTY SettledStays
\* The runs are bounded.
CHECK_DEADLOCK FALSE
