SPECIFICATION ResourcesSpec
CONSTANTS
  Threads = {t1, t2}
  Memories = {m1, m2}
  None = None
  TypeMin = 1
  TypeMax = 3
  MaxMemoryPages = 4
  Word = 8
  Deltas = {1, 7}
  QuotaMaxes = {4}
  Tables = {b1, b2}
  TableMin = 0
  TableMax = 2
  MaxTableElems = 2
  PageElems = 2
  TableWord = 4
  TableDeltas = {1, 3}
  TableQuotaMaxes = {3}
  object = object
INVARIANTS QuotasExact AccessBeyondSize BulkNeverThrows
PROPERTIES GrowthsDisjoint SomeReturns
CHECK_DEADLOCK FALSE
