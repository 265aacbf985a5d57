SPECIFICATION FairSpec
CONSTANTS
  Inputs <- FourInputs
  BlockOf <- TwoInABlock
  InputBoxBlock = 1
  MaxBlock = 4
  MaxFaults = 3
  MaxCrashes = 2
CHECK_DEADLOCK FALSE
PROPERTY StopsWhenCancelled
