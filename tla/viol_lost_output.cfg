SPECIFICATION Spec
CONSTANTS
  Inputs = {0, 1}
  MaxInspects = 0
  MaxEmitted <- TwoVouchersAndReport
  MaxDbErrors = 0
  MaxCrashes = 0
INVARIANT AcceptedKeepsOutputs
