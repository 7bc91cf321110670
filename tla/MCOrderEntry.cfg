CONSTANTS
    c1 = c1
    c2 = c2
    a1 = a1
    a2 = a2
    NoAccount = NoAccount
    NoConn = NoConn
    Conns <- MCConns
    Accounts <- MCAccounts
    Prices <- MCPrices
    Quantities <- MCOneQuantity
    MaxUID <- MCMaxUID
    MaxOut <- MCMaxOut
    WireSides <- MCWireSides
SPECIFICATION Spec
INVARIANT TypeOK
INVARIANT SessionBinding
PROPERTY OnlyOwnerRemovesOrders
PROPERTY ResponsesDelivered
PROPERTY AbstractBookSpec
