SPECIFICATION PartsSpec
CONSTANTS
  Parts = {"table", "intake", "downloads", "cache", "converting", "workspace", "credentials"}
  Keys = {"total", "due"}
  Natural <- TotalThenDue
  Tables <- FourTables
  Sources <- TwoSources
  Operands <- Boxes
  Searches <- SomeSearches
  MaxFilters = 2
  Amount <- Amounts
  Things = {"loose", "a", "b", "c", "deep"}
  FolderOf <- Lies
  Above <- Depth
  Silent = {"loose"}
  Broken = {"c"}
  Unfit = {"b"}
  Selections <- ThreeDrops
  Surfaces = {card, strip}
  BATCH = 1
  MAX_DEPTH = 2
  MaxRequests = 2
  MaxVisits = 1
  Exports <- ThreeExports
  SmallOf <- Small
  Numerals <- TwoToFour
  MAX_SHEET_NAME = 6
  MaxClicks = 2
  Entries = {"result of 1", "table of 1", "table of 2"}
  BatchOf <- About
  Sizes = {2, 3, 6}
  MAX_CHARS = 5
  MAX_TOTAL_CHARS = 6
  QUOTA = 10
  ENTRY = 1
  Documents = {"f1", "f2"}
  Remembered = {"f1"}
  TablesIn <- TwoAndOne
  RESULT_POLL_MAX = 1
  MaxReturns = 2
  Users = {"u1", "u2"}
  Requests = {"r1", "r2"}
  Tabs = {"b1"}
  Shared = {"r2"}
  OwnerOf <- OneShared
  MAX_PARKED = 2
  MaxMoves = 2
  MaxFaults = 1
  ApiCalls = {"a1", "a2"}
  MaxToken = 2
CHECK_DEADLOCK FALSE
INVARIANTS ShownPassesTheChips EveryDroppedFileIsStaged OneHandOver TabsAreApart HeldIsListed FinishedIsFinished NoCardIsLost DeniedOnlyWhenDisturbed SignsWithCredentials OnePool
PROPERTIES RowsMoveForward NeverThrownOut
SYMMETRY Interchangeable
