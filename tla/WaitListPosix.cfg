SPECIFICATION Spec
CONSTANTS
  Threads = {t1, t2}
  Addrs = {a1}
  Values = {v1, v2}
  Lists = {l1, l2, l3}
  NoList = NoList
  Unmapped = Unmapped
  EventKind = "condition"
  MaxWake = 2
  MaxLeaks = 1
  MaxQueue = 2
INVARIANTS EventIsSignaled
CHECK_DEADLOCK FALSE
