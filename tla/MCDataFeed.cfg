CONSTANTS
    a1 = a1
    Accounts <- MCAccounts
    Prices <- MCPrices
    Quantities <- MCQuantities
    MaxUID <- MCMaxUID
    MaxSeq <- MCMaxSeq
    MaxInFlight <- MCMaxInFlight

SPECIFICATION FairSpec

INVARIANT TypeOK
INVARIANT MirrorMatchesBook
INVARIANT MirrorConsistent
PROPERTY PublishedIsReceived
