SPECIFICATION FairReaderSpec
CONSTANTS
  Inputs = {0, 1}
  MaxInspects = 1
  MaxEmitted <- TwoVouchersAndReport
  MaxDbErrors = 0
  MaxCrashes = 0
PROPERTY ShownWithOutputs
PROPERTY ShownOutputsAreAccepted
INVARIANT AnswerMatchesHandout
PROPERTY VerdictIsFinal
PROPERTY EveryInputProcessed
PROPERTY EveryInspectAnswered
