--------------------------- MODULE StrategyOrders ---------------------------
(***************************************************************************)
(* The orders the trading strategies send from do_strategy, built from     *)
(* what their mirror book shows (strategies/noise.hpp, mean_reversion.hpp, *)
(* market_maker.hpp, iceberg_liquidity_consumer.hpp, market_arbitrage.hpp).*)
(*                                                                         *)
(* A strategy reads last_best_buy() / last_best_sell() (LimitTree::        *)
(* last_best_price: the last best price of a side the mirror has had, 0    *)
(* before it has had one) and volume_*_best() (0 when the side is empty),  *)
(* then sends OrderRequests and PurgeRequests. Price is uint64 and 0 is    *)
(* ORDER_PRICE_MARKET, so an OrderRequest priced 0 is a market order.      *)
(* Prices keep their width scaled to PriceBits bits, so that the           *)
(* saturating arithmetic of the code meets numeric_limits<Price>::max().   *)
(*                                                                         *)
(* The random draws (sides, order and limit types, lognormal sizes, the    *)
(* power-law distance, P_act) are nondeterministic choices over what they  *)
(* can produce; the moving averages that steer MarketMaker and             *)
(* MeanReversion are abstracted to the branch they select. The requests    *)
(* a step sends are kept in `out`, each with the code path that built it.  *)
(* Timer loops are StrategyTimer's: do_strategy of MarketMaker, Noise and  *)
(* MeanReversion may run in any state, the iceberg's while a loop is alive *)
(* (which an EndOfSession may not end, see strategy_stop).                 *)
(***************************************************************************)
EXTENDS Integers, Sequences

CONSTANTS
    PriceBits,     \* width of OrderEntry::Price (64 in the code)
    QuantityBits,  \* width of OrderEntry::Quantity (32 in the code)
    Sizes,         \* order sizes: uniform_int(minimum_size, maximum_size), lognormal
    Distances,     \* Noise::outside(): power_law(x_min, beta) cast to an integer
    DailySizes,    \* the iceberg's uniform_int(minimum_size, maximum_size)
    IcebergSize,   \* the iceberg's iceberg_size
    Spread         \* MarketArbitrage::spread, the minimal spread to trade on

PriceMax == 2^PriceBits - 1          \* std::numeric_limits<Price>::max()
QuantityMod == 2^QuantityBits
MarketPrice == 0                     \* ORDER_PRICE_MARKET

\* uint64 addition and subtraction, scaled to PriceBits
PriceAdd(a, b) == (a + b) % (PriceMax + 1)
PriceSub(a, b) == (a - b) % (PriceMax + 1)

ASSUME IcebergSize \in 1..QuantityMod - 1 /\ DailySizes \subseteq 1..QuantityMod - 1
ASSUME Spread \in 0..PriceMax

Sides == {"Buy", "Sell"}
Other(s) == IF s = "Buy" THEN "Sell" ELSE "Buy"

\* the code paths that build an OrderRequest; the first two mean a market order
Paths == {"market", "iceberg", "cross", "inside", "best", "outside",
          "quote", "hedge", "reversion", "arbitrage"}
MarketPaths == {"market", "iceberg", "arbitrage"}

\* the market a request goes to: A for the single-feed strategies' one
\* client, A or B for MarketArbitrage's clientA / clientB
Venues == {"A", "B"}

VARIABLES
    lastBest,    \* LimitTree::last_best_price of the mirror, per side
    hasBest,     \* best != nullptr in the mirror, per side
    running,     \* IcebergLiquidityConsumer::is_running
    loop,        \* a timer loop of the iceberg is alive
    side,        \* IcebergLiquidityConsumer::side
    size,        \* IcebergLiquidityConsumer::size, shares left for the day
    daily,       \* the size drawn at the last StartOfSession
    ordered,     \* shares the iceberg ordered since the last StartOfSession
    bestB,       \* MarketArbitrage's receiverB book: best_buy() / best_sell()
    out          \* the requests the last step sent

mirrorVars == <<lastBest, hasBest, bestB>>
icebergVars == <<running, loop, side, size, daily, ordered>>
vars == <<mirrorVars, icebergVars, out>>

Order(s, p, q, path) == [kind |-> "order", side |-> s, price |-> p,
                         quantity |-> q, path |-> path, venue |-> "A"]
Purge == [kind |-> "purge", side |-> "Sell", price |-> 0, quantity |-> 0,
          path |-> "market", venue |-> "A"]

\* `if (client.has_active_order()) client.send<PurgeRequest>()`
PurgeIf(active) == IF active THEN <<Purge>> ELSE <<>>

Init ==
    /\ lastBest = [s \in Sides |-> 0]
    /\ hasBest = [s \in Sides |-> FALSE]
    /\ bestB = [s \in Sides |-> 0]
    /\ running = FALSE
    /\ loop = FALSE
    /\ side = "Sell"
    /\ size = 0
    /\ daily = 0
    /\ ordered = 0
    /\ out = <<>>

(* The mirror's best level of side s changes (an AddOrder, DeleteOrder or  *)
(* Trade applied by the receiver): it empties, or its best price becomes   *)
(* p, which last_best_price then keeps. The mirror is never crossed.       *)
MirrorUpdate ==
    \E s \in Sides, has \in BOOLEAN, p \in 1..PriceMax :
        /\ hasBest' = [hasBest EXCEPT ![s] = has]
        /\ lastBest' = IF has THEN [lastBest EXCEPT ![s] = p] ELSE lastBest
        /\ hasBest'["Buy"] /\ hasBest'["Sell"] => lastBest'["Buy"] < lastBest'["Sell"]
        /\ out' = <<>>
        /\ UNCHANGED <<bestB, icebergVars>>

-----------------------------------------------------------------------------
(* Noise                                                                   *)

\* Inside: one tick inside each last best price, saturating at the limits
InsideBid == IF lastBest["Buy"] >= PriceMax - 1 THEN PriceMax
             ELSE PriceAdd(lastBest["Buy"], 1)

\* Mutant: the ask is decremented without the check against min() + 1.
InsideAskUnchecked == PriceSub(lastBest["Sell"], 1)

InsideAsk == IF lastBest["Sell"] <= 0 + 1 THEN 0 ELSE PriceSub(lastBest["Sell"], 1)

\* Mutant: the distance is added and subtracted without saturating.
OutsideUnsaturated(s, d) ==
    IF s = "Sell" THEN lastBest["Sell"] + d ELSE lastBest["Buy"] - d

\* Outside: d ticks beyond the side's own last best price, saturating
Outside(s, d) ==
    IF s = "Sell"
    THEN IF lastBest["Sell"] >= PriceMax - d THEN PriceMax
         ELSE PriceAdd(lastBest["Sell"], d)
    ELSE IF lastBest["Buy"] <= 0 + d THEN 0 ELSE PriceSub(lastBest["Buy"], d)

\* Noise::limit_order for side s and size q, one disjunct per LimitType
NoiseLimit(s, q) ==
    \/ out' = <<Order(s, lastBest[Other(s)], q, "cross")>>
    \/ /\ InsideBid >= InsideAsk
       /\ out' = <<>>
    \/ /\ InsideBid < InsideAsk
       /\ \E p \in InsideBid..InsideAsk : out' = <<Order(s, p, q, "inside")>>
    \/ out' = <<Order(s, lastBest[s], q, "best")>>
    \/ \E d \in Distances : out' = <<Order(s, Outside(s, d), q, "outside")>>

\* Noise::do_strategy: a random side, then a market order, a limit order or
\* a purge of the client's orders if it has any
NoiseStrategy ==
    /\ \E s \in Sides, q \in Sizes, active \in BOOLEAN :
          \/ out' = <<Order(s, MarketPrice, q, "market")>>
          \/ NoiseLimit(s, q)
          \/ out' = PurgeIf(active)
    /\ UNCHANGED <<mirrorVars, icebergVars>>

-----------------------------------------------------------------------------
(* MeanReversion and MarketMaker                                           *)

\* `best_sell <= numeric_limits<Price>::min() + 1`: one tick under would be
\* the market sentinel or wrap
SellTickLeavesRange == lastBest["Sell"] <= 0 + 1

\* `best_buy >= numeric_limits<Price>::max() - 1`
BuyTickLeavesRange == lastBest["Buy"] >= PriceMax - 1

\* MeanReversion::do_strategy: purge, then on a rising midpoint sell one
\* tick under the last best sell, on a falling one buy one tick over the
\* last best buy, each unless that tick leaves the price range; a midpoint
\* within the decision boundary sends only the purge
MeanReversionStrategy ==
    /\ \E active \in BOOLEAN, q \in Sizes :
          \/ out' = PurgeIf(active)
          \/ /\ SellTickLeavesRange
             /\ out' = PurgeIf(active)
          \/ /\ ~SellTickLeavesRange
             /\ out' = PurgeIf(active) \o
                       <<Order("Sell", PriceSub(lastBest["Sell"], 1), q, "reversion")>>
          \/ /\ BuyTickLeavesRange
             /\ out' = PurgeIf(active)
          \/ /\ ~BuyTickLeavesRange
             /\ out' = PurgeIf(active) \o
                       <<Order("Buy", PriceAdd(lastBest["Buy"], 1), q, "reversion")>>
    /\ UNCHANGED <<mirrorVars, icebergVars>>

\* MarketMaker::do_strategy: purge, then when the trade-side average leans
\* one way quote the other side at its last best price and hedge at the
\* last best price of the leaning side
MarketMakerStrategy ==
    /\ \E active \in BOOLEAN, q \in Sizes, h \in Sizes, quote \in Sides :
          \/ out' = PurgeIf(active)
          \/ out' = PurgeIf(active) \o
                    <<Order(quote, lastBest[quote], q, "quote"),
                      Order(Other(quote), lastBest[Other(quote)], h, "hedge")>>
    /\ UNCHANGED <<mirrorVars, icebergVars>>

-----------------------------------------------------------------------------
(* IcebergLiquidityConsumer                                                *)

\* Mutant: the whole iceberg_size is ordered, without the std::min.
IcebergOrderSizeNoMin == IcebergSize

\* std::min(size, iceberg_size)
IcebergOrderSize == IF size <= IcebergSize THEN size ELSE IcebergSize

\* did_receive(StartOfSession): return if running; else draw the day's side
\* and size, start the loop and set is_running
IcebergStart ==
    /\ ~running
    /\ \E s \in Sides, n \in DailySizes :
          /\ side' = s
          /\ size' = n
          /\ daily' = n
    /\ ordered' = 0
    /\ running' = TRUE
    /\ loop' = TRUE
    /\ out' = <<>>
    /\ UNCHANGED mirrorVars

\* did_receive(EndOfSession): timer.cancel() and clear is_running; a wait
\* that already completed survives the cancel and keeps the loop alive
IcebergEnd ==
    /\ running
    /\ running' = FALSE
    /\ loop' \in BOOLEAN
    /\ out' = <<>>
    /\ UNCHANGED <<mirrorVars, side, size, daily, ordered>>

\* do_strategy: sell_order() or buy_order() for the day's side. Return if
\* the side it would take from is empty (volume_buy_best() for a sell,
\* volume_sell_best() for a buy); else send a market order of
\* min(size, iceberg_size) and take it from the day's size (uint32).
IcebergStrategy ==
    /\ loop
    /\ IF ~hasBest[Other(side)]
       THEN out' = <<>> /\ UNCHANGED icebergVars
       ELSE /\ out' = <<Order(side, MarketPrice, IcebergOrderSize, "iceberg")>>
            /\ size' = (size - IcebergOrderSize) % QuantityMod
            /\ ordered' = ordered + IcebergOrderSize
            /\ UNCHANGED <<running, loop, side, daily>>
    /\ UNCHANGED mirrorVars

-----------------------------------------------------------------------------
(* MarketArbitrage                                                         *)

(* receiverB's book changes: the best price of side s becomes p, 0 when    *)
(* the side empties (what best_buy() / best_sell() return for nullptr).    *)
(* Like A's, the book is never crossed.                                    *)
MirrorUpdateB ==
    \E s \in Sides, p \in 0..PriceMax :
        /\ bestB' = [bestB EXCEPT ![s] = p]
        /\ bestB'["Buy"] # 0 /\ bestB'["Sell"] # 0 => bestB'["Buy"] < bestB'["Sell"]
        /\ out' = <<>>
        /\ UNCHANGED <<lastBest, hasBest, icebergVars>>

\* best_buy() / best_sell() of a market's book: the best price, 0 if empty
BestOf(v, s) ==
    IF v = "B" THEN bestB[s]
    ELSE IF hasBest[s] THEN lastBest[s] ELSE 0

\* Mutant: the uint64 overflow check of does_cross is dropped.
DoesCrossUnchecked(sell, buy) == sell # 0 /\ PriceAdd(sell, Spread) < buy

\* LimitOrderBook::does_cross(other, spread), given this book's best_sell()
\* and the other's best_buy(): false with no sell, false if the sell plus
\* the spread would overflow, else whether it is under the other's buy
DoesCross(sell, buy) ==
    /\ sell # 0
    /\ ~(sell > PriceMax - Spread)
    /\ PriceAdd(sell, Spread) < buy

\* a market order of q on side s sent by the client of venue v
ArbOrder(v, s, q) == [Order(s, MarketPrice, q, "arbitrage") EXCEPT !.venue = v]

\* MarketArbitrage::do_strategy: if A crosses B buy on A and sell on B, else
\* if B crosses A buy on B and sell on A, else send nothing
ArbitrageStrategy ==
    /\ \E q \in Sizes :
          out' = IF DoesCross(BestOf("A", "Sell"), BestOf("B", "Buy"))
                 THEN <<ArbOrder("A", "Buy", q), ArbOrder("B", "Sell", q)>>
                 ELSE IF DoesCross(BestOf("B", "Sell"), BestOf("A", "Buy"))
                 THEN <<ArbOrder("B", "Buy", q), ArbOrder("A", "Sell", q)>>
                 ELSE <<>>
    /\ UNCHANGED <<mirrorVars, icebergVars>>

Next ==
    \/ MirrorUpdate
    \/ MirrorUpdateB
    \/ ArbitrageStrategy
    \/ NoiseStrategy
    \/ MeanReversionStrategy
    \/ MarketMakerStrategy
    \/ IcebergStart
    \/ IcebergEnd
    \/ IcebergStrategy

Spec == Init /\ [][Next]_vars

-----------------------------------------------------------------------------
RequestRec == [kind : {"order", "purge"}, side : Sides, price : 0..PriceMax,
               quantity : 0..QuantityMod - 1, path : Paths, venue : Venues]

(* Type invariant.                                                         *)
TypeOK ==
    /\ lastBest \in [Sides -> 0..PriceMax]
    /\ hasBest \in [Sides -> BOOLEAN]
    /\ bestB \in [Sides -> 0..PriceMax]
    /\ running \in BOOLEAN /\ loop \in BOOLEAN
    /\ side \in Sides
    /\ size \in 0..QuantityMod - 1
    /\ daily \in {0} \cup DailySizes
    /\ ordered \in Nat
    /\ out \in Seq(RequestRec)

(* The iceberg consumer's daily quota: over any number of do_strategy     *)
(* ticks, including those of a loop that survived EndOfSession, the shares *)
(* it orders after a StartOfSession never exceed the size drawn for that   *)
(* day (min(size, iceberg_size) and the uint32 `size -= order_size`).     *)
IcebergWithinDailySize == ordered <= daily

(* The paths that guard their price arithmetic send what they mean: Noise's *)
(* inside-the-spread order lies strictly between the two last best prices, *)
(* and MeanReversion's orders are priced limit orders (never the market    *)
(* sentinel 0, never a wrapped uint64), at every edge of the price range.  *)
GuardedPricesAreLimits ==
    \A i \in DOMAIN out :
        /\ out[i].path = "inside" =>
              lastBest["Buy"] < out[i].price /\ out[i].price < lastBest["Sell"]
        /\ out[i].path = "reversion" =>
              /\ out[i].price # MarketPrice
              /\ out[i].side = "Sell" => out[i].price < lastBest["Sell"]
              /\ out[i].side = "Buy" => out[i].price > lastBest["Buy"]

(* What the strategies mean by a limit order (a quote, a hedge, a cross,  *)
(* an order at or beyond the best) reaches the venue as a limit order: no  *)
(* OrderRequest built from last_best_buy() / last_best_sell() carries the  *)
(* market sentinel price 0.                                                *)
LimitOrdersArePriced ==
    \A i \in DOMAIN out :
        out[i].kind = "order" /\ out[i].path \notin MarketPaths
            => out[i].price # MarketPrice

(* MarketArbitrage trades only a real crossing: each market order it buys *)
(* with goes to a market whose best sell, plus the spread, is under the    *)
(* other market's best buy in exact arithmetic (no uint64 wrap of          *)
(* best_sell() + spread), and is paired with a sell on that other market.  *)
ArbitrageBuysBelowSells ==
    \A i \in DOMAIN out :
        out[i].path = "arbitrage" /\ out[i].side = "Buy" =>
            LET v == out[i].venue
                w == CHOOSE u \in Venues : u # v
            IN  /\ BestOf(v, "Sell") # 0
                /\ BestOf(v, "Sell") + Spread < BestOf(w, "Buy")
                /\ \E j \in DOMAIN out : out[j].side = "Sell" /\ out[j].venue = w
=============================================================================
