--------------------------- MODULE MC_NextChallenge ---------------------------
EXTENDS NextChallenge

\* 3-bit heights, a window of 3 blocks, trees of up to 7 nodes whose
\* heights stop one below the largest 3-bit word.
MCWidth == 3
MCMaxReferredBlocks == 3
MCMaxNodes == 7
MCMaxHeight == 2 ^ MCWidth - 2

ASSUME MCHeightsBelowTop == HeightsBelowTop

=============================================================================
