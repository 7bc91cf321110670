----------------------------- MODULE MCDataFeed -----------------------------
(* Instantiates DataFeed for TLC: one account, two prices, two quantities, *)
(* two order UIDs, so that a limit order can partially cross, rest and     *)
(* be traded or canceled later.                                            *)
EXTENDS DataFeed, TLC

CONSTANTS a1

MCAccounts == {a1}
MCPrices == {1, 2}
MCQuantities == {1, 2}
MCMaxUID == 2
MCMaxSeq == 3
MCMaxInFlight == 3
====
