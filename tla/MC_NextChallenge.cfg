CONSTANTS
    Width <- MCWidth
    MaxReferredBlocks <- MCMaxReferredBlocks
    MaxNodes <- MCMaxNodes
    MaxHeight <- MCMaxHeight
SPECIFICATION Spec
INVARIANT ChallengeWindow
