CONSTANTS
    a1 = a1
    Accounts <- MCAccounts
    Prices <- MCPrices
    Quantities <- MCQuantities
    MaxUID <- MCMaxUID
    MaxSeq <- MCMaxSeq
    MaxInFlight <- MCMaxInFlight


SPECIFICATION SpecWithDuplication

INVARIANT MirrorConsistent
