SPECIFICATION Spec
CONSTANTS
  Inputs = {0, 1}
  MaxInspects = 0
  MaxEmitted <- VoucherAndReport
  MaxDbErrors = 1
  MaxCrashes = 0
INVARIANT RejectedDiscardsOutputs
