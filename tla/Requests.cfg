SPECIFICATION RequestsSpec
CONSTANTS
  f1 = f1
  f2 = f2
  f3 = f3
  s1 = s1
  s2 = s2
  Files = {f1, f2, f3}
  FirstFiles = {f1, f2}
  Txns = {s1, s2}
  Silent = {"confirm", "sweep", "dead outbox", "discard", "pause"}
  t1 = t1
  t2 = t2
  t3 = t3
  b1 = b1
  Tables = {t1, t2, t3}
  FileOf <- TwoFiles
  Detected <- TwoShapes
  NewKeys = {"b"}
  FieldTypes = {"text", "currency"}
  Codes = {"USD"}
  Tabs = {b1}
  MaxSaves = 2
  MaxVersion = 3
  MaxMoves = 5
  MaxFaults = 1
  None = None
SYMMETRY AnyOrder
CHECK_DEADLOCK FALSE
INVARIANTS
  TypeOK
  StatusNeverAhead
  OfferedIsAccepted
  VersionNamesTheFields
PROPERTIES
  SpreadTakesNothingAway
