SPECIFICATION Spec
CONSTANTS
  Source <- SourceOneOutput
  BatchSize = 2
  Undecodable <- NoneUndecodable
  MaxInterruptions = 0
  MaxCommitErrors = 1
INVARIANT CursorsMatchDatabase
