SPECIFICATION CombinedSpec
CONSTANTS
  Listing <- FiveTables
  FileOf <- TwoFiles
  Fields <- TwoShapes
  Rows <- SomeRows
  MAX_ROWS = 2
  Done = {"t1", "t2", "t4", "t5"}
  Failed = {"g"}
  Tabs = {"b1"}
  MaxMerges = 2
  MaxCalls = 2
  MaxGone = 1
  d1 = d1
  d2 = d2
  Deliveries = {d1, d2}
  Ords = {0, 1}
  MaxAttempts = {2, 3}
  Mishaps = {"stops", "overruns", "nothing"}
  NoRole = NoRole
SYMMETRY AnyOrder
CHECK_DEADLOCK FALSE
INVARIANTS MembersAreApart ListedOnce StandsInPlace OpenedIsWhole CompletedIsSettled
PROPERTIES AllOrNothing RefusedOnlyWhenTaken EditIsKept ConvertedStaysSo
