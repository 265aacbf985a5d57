SPECIFICATION Spec
CONSTANTS
  Inputs = {0, 1}
  MaxInspects = 1
  MaxEmitted <- TwoVouchersAndReport
  MaxDbErrors = 1
  MaxCrashes = 1
INVARIANT TypeOK
INVARIANT VerdictAfterOutputs
INVARIANT InputOrder
PROPERTY ImplementsHost
