SPECIFICATION FairSpec
CONSTANTS
  Threads = {t1, t2}
  MaxFD = 2
  StdioFDs = {}
  RootFDs = {0}
  FDEs = {0, 1, 2, 3}
  NoFDE = NoFDE
  Grants <- MCGrants
  OpenFlags <- MCOpenFlags
  FDFlags <- MCFDFlags
INVARIANTS FilesMatchDescriptors UsedStaysOpen
PROPERTIES AuthorityNeverGrows TableUnlocked
CHECK_DEADLOCK FALSE
