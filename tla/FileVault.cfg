SPECIFICATION FairOrderlySpec
CONSTANTS
    Handler = {h1, h2}
    Saver = {s1, s2}
    SlowSaves = FALSE
    MaxVersion = 4
    MaxFail = 2
INVARIANTS Covered DirtyHasTimer CloseKeepsAcked
PROPERTIES WriteBehind Persists
