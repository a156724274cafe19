SPECIFICATION ReviewSpec
CONSTANTS
    Placeholder = {"p1", "p2", "p3"}
    MaxVis = 2
    MaxChanges = 3
    MaxLists = 2
    MaxCommands = 1
INVARIANTS SelectedShown
PROPERTIES ActsOnTheMeant ShowsVault
