SPECIFICATION FairSpec
CONSTANTS
  MinIndex = 0
  MaxIndex = 3
  Modulus = 8
  FailIndex = 7
PROPERTIES AddReturns
