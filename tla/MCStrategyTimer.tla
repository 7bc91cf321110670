-------------------------- MODULE MCStrategyTimer --------------------------
EXTENDS StrategyTimer

(* Three sessions on each receiver: a completion that survives an         *)
(* EndOfSession meets the wait the next StartOfSession arms, and the two   *)
(* feeds of the arbitrage open and close in every relative order.          *)
MCMaxSessions == 3

(* trade_side's options: a weight inside [0, 1] and one above it that the *)
(* constructor must clamp; an initial average outside [-1, 1].  Two draws  *)
(* of uniform_real(-1.0, 1.0) and two trades per session give averages     *)
(* that a weight above 1 would carry past a side.                          *)
MCWeights == {Q(1, 2), Q(3, 2)}
MCAverages == {QInt(2)}
MCDraws == {Q(-1, 2), Q(1, 2)}
MCMaxTrades == 2
=============================================================================
