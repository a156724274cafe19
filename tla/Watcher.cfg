SPECIFICATION WatcherSpec
CONSTANTS
    Files <- MCFiles
    Place <- MCPlace
    Action <- MCAction
    Line <- MCLine
    Kind <- MCKind
INVARIANT Kept
PROPERTIES Cleaned Settles
\* The agent may have nothing more to write.
CHECK_DEADLOCK FALSE
