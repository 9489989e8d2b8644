CONSTANTS
    AddrIDs <- MCAddrIDs
    HDKeyIDs <- MCHDKeyIDs
    ShortKeyIDs <- MCShortKeyIDs
    Words <- MCWords
    Nets <- MCNets
    MainNet <- MCMainNet
    Bodies <- MCMockBodies
    DefaultBody <- MCDefaultBody
    NoChainID <- MCNoChainID
SPECIFICATION Spec
INVARIANTS HDKeyLookup SegwitPrefixRecognised
