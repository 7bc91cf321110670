CONSTANTS
    a1 = a1
    a2 = a2
    Accounts <- MCAccounts
    Prices <- MCPrices
    Quantities <- MCQuantities
    MaxUID <- MCMaxUID

SPECIFICATION Spec

INVARIANT TypeOK
INVARIANT BookConsistent
INVARIANT NotCrossed
INVARIANT AccountOrdersMatchBook
INVARIANT Conservation
PROPERTY AbstractBookSpec
