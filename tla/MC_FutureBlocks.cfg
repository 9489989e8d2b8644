CONSTANTS
    Tolerance <- MCTolerance
    MaxClock <- MCMaxClock
    MaxBlocks <- MCMaxBlocks
SPECIFICATION Spec
INVARIANT FilterExact
