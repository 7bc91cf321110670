CONSTANTS
    c1 = c1
    c2 = c2
    a1 = a1
    a2 = a2
    NoAccount = NoAccount
    NoConn = NoConn
    Conns <- MCConns
    Accounts <- MCAccounts
    Prices <- MCPrices
    Quantities <- MCQuantities
    MaxUID <- MCMaxUID
    MaxOut <- MCMaxOut
    WireSides <- MCWireSidesWithInvalid
SPECIFICATION Spec
PROPERTY ReplaceIsCancelAndNew
