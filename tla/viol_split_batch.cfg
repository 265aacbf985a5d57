SPECIFICATION Spec
CONSTANTS
  Source <- SourceSeveralOutputs
  BatchSize = 2
  Undecodable <- NoneUndecodable
  MaxInterruptions = 0
  MaxCommitErrors = 0
INVARIANT NoDataLoss
