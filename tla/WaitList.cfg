SPECIFICATION Spec
CONSTANTS
  Threads = {t1, t2, t3}
  Addrs = {a1}
  Values = {v1, v2}
  Lists = {l1, l2, l3, l4}
  NoList = NoList
  Unmapped = Unmapped
  EventKind = "auto_reset"
  MaxWake = 2
  MaxLeaks = 1
  MaxQueue = 3
SYMMETRY Symmetry
INVARIANTS RefCount OpenListIsLive SignaledIffTakenOff
PROPERTIES ImplementsFutex
CHECK_DEADLOCK FALSE
