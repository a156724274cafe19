SPECIFICATION HarvestSpec
CONSTANTS
    Node <- MCNode
    Roots <- MCRoots
    Dirs <- MCDirs
    Children <- MCChildren
    Excluded <- MCExcluded
    Files <- MCFiles
    Gone <- MCGone
    Secret = {"s1", "s2"}
    Contents <- MCContents
    MaxFileSize = 2
    MaxEdits = 1
INVARIANTS CleanRunFindsAll
PROPERTIES Ends
\* The harvest ends.
CHECK_DEADLOCK FALSE
