SPECIFICATION RedactSpec
CONSTANTS
    N = 5
    Inputs <- MCInputs
INVARIANTS Partition FirstByteMasked
\* One call ends.
CHECK_DEADLOCK FALSE
