SPECIFICATION PrepareSpec
CONSTANTS
    NumFiles = 2
    NameOf <- AllApart
    Dropped = {1}
    Rejected = {}
    Yields <- SomeYields
    Width = 2
    MaxPolls = 1
    MaxIds = 2
    MaxRuns = 2
    MaxFaults = 1
INVARIANTS SettledIsOpen UploadedIsConfirmed DeltaIsWhole StoppedIsSettled RowsAreApart
PROPERTIES RetryKeepsItsFile
CHECK_DEADLOCK FALSE
