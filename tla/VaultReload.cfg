SPECIFICATION ReloadSpec
CONSTANTS
    Secret <- MCSecret
    Placeholder <- MCPlaceholder
    PlaceholderOf <- MCHash
    Legacy <- MCLegacy
    Pattern = {}
    Status = {"pending_review", "archived"}
    MaxID = 3
    MaxUses = 0
INVARIANTS TypeOK CoherentIfCareful EntriesKept RoundTrip
