SPECIFICATION FairSpec
CONSTANTS
  Source <- SourceSeveralOutputs
  BatchSize = 2
  Undecodable <- LastOutputUndecodable
  MaxInterruptions = 2
  MaxCommitErrors = 2
INVARIANT TypeOK
INVARIANT StoredWasRead
INVARIANT NoReplay
INVARIANT MissingExplained
INVARIANT FirstRowsStored
PROPERTY SavedNeverGoesBack
PROPERTY MirrorsFeeds
PROPERTY CatchesUp
