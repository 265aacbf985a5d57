SPECIFICATION FairAPISpec
CONSTANTS
  Inputs <- TwoInputs
  Requests = {r1, r2}
  Accepts = {TRUE}
  FinishRetries = 3
  MaxInspects = 1
  MaxCuts = 1
  MaxRelaunches = 1
  MaxErrors = 1
INVARIANT APITypeOK
INVARIANT MisjudgedBounded
INVARIANT TaintedBounded
PROPERTY FinishReturns
PROPERTY InputsGetVerdicts
PROPERTY InspectsReturn
