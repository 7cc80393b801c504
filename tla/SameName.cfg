SPECIFICATION PrepareSpec
CONSTANTS
    NumFiles = 2
    NameOf <- AllAlike
    Dropped = {1}
    Rejected = {}
    Yields <- SomeYields
    Width = 2
    MaxPolls = 2
    MaxIds = 2
    MaxRuns = 2
    MaxFaults = 1
INVARIANTS RowsAreApart
CHECK_DEADLOCK FALSE
