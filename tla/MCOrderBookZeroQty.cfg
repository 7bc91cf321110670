CONSTANTS
    a1 = a1
    a2 = a2
    Accounts <- MCAccounts
    Prices <- MCPrices
    Quantities <- MCQuantitiesWithZero
    MaxUID <- MCMaxUID

SPECIFICATION Spec

INVARIANT RestingOrdersHaveQuantity
