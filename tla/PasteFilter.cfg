SPECIFICATION FilterSpec
CONSTANTS
    Text = {"t"}
    Streams <- MCStreams
INVARIANTS Lossless PasteMasked NothingHeld
\* The terminal may stop sending at any time.
CHECK_DEADLOCK FALSE
