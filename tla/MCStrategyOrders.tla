-------------------------- MODULE MCStrategyOrders --------------------------
(* Model-checking instance of StrategyOrders. Prices of 2 bits (0..3) make *)
(* every saturation test of the code meet both ends of the range; the      *)
(* power-law distance covers 0 (a value under 1 cast to int) up to 2. Two  *)
(* daily sizes around an iceberg size of 2 make the last slice of a day    *)
(* smaller than the iceberg; quantities are 3 bits wide.                   *)
EXTENDS StrategyOrders

MCPriceBits == 2
MCQuantityBits == 3
MCSizes == {1}
MCDistances == {0, 1, 2}
MCDailySizes == {2, 3}
MCIcebergSize == 2
MCSpread == 1
=============================================================================
