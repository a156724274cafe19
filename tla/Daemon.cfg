SPECIFICATION DaemonSpec
CONSTANTS
    Secret <- MCSecret
    Placeholder <- MCPlaceholder
    PlaceholderOf <- MCPlaceholderOf
    Pattern = {}
    Status = {"pending_review", "rejected"}
    MaxID = 2
    MaxUses = 0
    Scanner = {c1, c2}
    Patterned = {"v2"}
    Texts <- MCTexts
    Raw = "raw"
SYMMETRY Connections
INVARIANTS ActiveMasked PatternedMasked TokenNeverMisleads
\* The daemon stops for good when a handler panics.
CHECK_DEADLOCK FALSE
