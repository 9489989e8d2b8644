CONSTANTS
    k1 = k1
    k2 = k2
    kBad = kBad
    NoHeight = NoHeight
    PubKeys <- MCPubKeys
    ValidKeys <- MCValidKeys
    MaxHeight = 2
    MaxArea = 2

SPECIFICATION Spec
INVARIANT TypeOK
PROPERTY RefinesLedger
