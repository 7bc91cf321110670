---------------------------- MODULE MCOrderEntry ----------------------------
EXTENDS OrderEntry, TLC

CONSTANTS c1, c2, a1, a2

MCConns == {c1, c2}
MCAccounts == {a1, a2}
MCPrices == {1}
MCQuantities == {1, 2}
MCOneQuantity == {1}
MCMaxUID == 2
MCMaxOut == 1
MCWireSides == {"B", "S"}
MCWireSidesWithInvalid == {"B", "S", "X"}
\* connections are interchangeable, and so are accounts
MCSymmetry == Permutations(MCConns) \cup Permutations(MCAccounts)
====
