SPECIFICATION ToolCallSpec
CONSTANTS
    Secret <- MCSecret
    Placeholder <- MCPlaceholder
    PlaceholderOf <- MCPlaceholderOf
    Pattern <- MCPattern
    Status = {"pending_review"}
    MaxID = 2
    MaxUses = 0
    Label <- MCLabel
    Commands <- MCCommands
    Other = {"hook"}
    Texts <- MCTexts
    Patterned = {"v2"}
    Escaped = {}
    Raw = "raw"
INVARIANTS OnlyGranted BoundSubstituted OneValue NothingComesBack RoundTrips
\* One call is followed to its end.
CHECK_DEADLOCK FALSE
