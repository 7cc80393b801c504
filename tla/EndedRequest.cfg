SPECIFICATION Spec
CONSTANTS
  f1 = f1
  f2 = f2
  f3 = f3
  t1 = t1
  t2 = t2
  Files = {f1, f2}
  FirstFiles = {f1, f2}
  Txns = {t1, t2}
  Silent = {}
CHECK_DEADLOCK FALSE
INVARIANTS
  EndedRequestSaysSo
