SPECIFICATION FairNodeSpec
CONSTANTS
  Inputs <- ThreeInputs
  BlockOf <- TwoInABlock
  InputBoxBlock = 1
  MaxBlock = 3
  MaxFaults = 3
  MaxCrashes = 1
  Deployments <- Lists
  Feed <- FourOutputs
  BatchSize = 2
  Undecodable <- FourthUndecodable
CHECK_DEADLOCK FALSE
INVARIANT MissedOnlyInGap
INVARIANT NoHoles
INVARIANT NodeTypeOK
INVARIANT StartsInOrder
INVARIANT NotLeftHanging
INVARIANT NothingSkipped
INVARIANT NeverPastUndecodable
INVARIANT WholeUnlessTorn
PROPERTY ShutsDown
PROPERTY InputsArrive
PROPERTY CatchesUp
