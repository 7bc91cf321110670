---------------------------- MODULE MCOrderBook ----------------------------
(* Model-checking instance of OrderBook: two accounts, two price levels,   *)
(* quantities 1 and 2 (so that partial fills of both maker and taker and   *)
(* multi-order sweeps happen), and four UIDs.                              *)
EXTENDS OrderBook

CONSTANTS a1, a2

MCAccounts == {a1, a2}
MCPrices == {1, 2}
MCQuantities == {1, 2}
\* quantity 0 is a legal wire value (uint32) for a limit request
MCQuantitiesWithZero == {0, 1, 2}
MCMaxUID == 4

=============================================================================
