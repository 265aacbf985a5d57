SPECIFICATION Spec
CONSTANTS
  DefaultPaginationLimit = 4
  Limits <- LimitsAroundTable
  Cursors <- CursorsAroundTable
  MaxTotal = 6
INVARIANT TypeOK
INVARIANT PageIsExpected
INVARIANT ForwardWalkIsExact
INVARIANT BackwardWalkMissesNothing
