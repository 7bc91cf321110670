# TLA+ models of the CBOE emulator

TLA+ specifications of the venue in `src/`: the order-entry limit order book, the TCP order-entry sessions and their client, and the UDP market-data feed. They also cover the session-driven timer loop of the trading strategies and the orders those strategies send. An abstract specification of the book, which the detailed one is shown to refine, is included too. There are also TLC configurations that check them. Each definition is translated from the C++ lines that `PROJECT.json` ("map") names.

## The system and how its parts interact

| Part | Source | What it does |
|---|---|---|
| Order-entry book | `order_entry/limit_order_book/` | `LimitOrderBook`: limit, market, cancel and reduce over two `LimitTree`s (one FIFO per price level), plus `Account` callbacks on each fill. |
| Sessions | `order_entry/connection.hpp`, `server.hpp`, `system_account.hpp`, `authorizer.hpp` | One `Connection` per TCP socket. It reads 40-byte requests, runs their handlers against the shared book and queues responses. `SystemAccount` sends trade reports to the connection logged into the account. |
| Client | `order_entry/client.hpp` | Keeps its own view of the account from the responses: `is_authorized`, `active_orders`, `shares` and `capital`. |
| Publisher | `data_feed/sender.hpp`, `order_entry/handlers/server_cli.hpp` | The book publishes its events on the multicast `Sender`, which stamps `sequence++`. The CLI publishes StartOfSession and EndOfSession. |
| Subscriber | `data_feed/receiver.hpp`, `data_feed/limit_order_book/` | Reads datagrams, checks the sequence number (it only logs a mismatch) and applies each packet to a mirror `LimitOrderBook`. |
| Strategies | `strategies/*.hpp`, `main/strategies/*.cpp` | A feed subscriber plus an order-entry client. StartOfSession starts an `asio::steady_timer` loop that calls `do_strategy` every `sleep_time`, and EndOfSession cancels the timer. |

The venue and each subscriber run one `io_context` thread, and the CLI is an asio stream on the venue's context. So every handler runs to completion without interleaving, and each handler is one atomic step of the models. The strategy programs are the exception. `MarketMaker`, the iceberg consumer and the momentum program run the feed's `io_context` on a second `std::thread`, so `did_receive` runs on the feed thread while the timer's handlers run on the strategy thread. `MarketArbitrage` runs everything on one context. In the venue, the concurrency that remains comes from two sources:
- the order in which requests from different connections, write completions and datagrams are processed;
- what the network does to datagrams: lose them, duplicate them, or deliver them in order.

`limit_tree.hpp`, `doubly_linked_list.hpp` and `binary_search_tree.hpp` are not in the source tree. Several operators are therefore modelled from the design text and marked `spec_modelled`:
- LimitTree's `limit`, `cancel` and `market` (the matching loop);
- the feed events LimitTree publishes: one Trade per fill, then AddOrder for the part of a limit order that rests, and DeleteOrder on a cancel.

The price-level AVL tree is abstracted to a function from price to FIFO. "Best" is the extreme non-empty level, which is what the cached `best` pointer must be.

## Modules

- **OrderBook.tla**: the book's state as VARIABLES.
  - Each `LimitOrderBook` operation is a pure operator from a book value to `[book, uid, fills]`: `LimitResult`, `MarketResult`, `CancelResult`, `ReduceResult`.
  - `Sweep` is the RECURSIVE matching loop. `Fill`, `LimitFill`, `LimitPartial`, `MarketFill` and `MarketPartial` are the four `Account` callbacks.
  - The actions `Limit`, `Market`, `Cancel` and `Reduce` apply those operators. Their guards are the code's: `orders.at` throws on an unknown id, and `reduce` throws on an over-reduce.
- **AbstractBook.tla**: what the book promises, with no levels, FIFOs, volumes or best pointer.
  - State: `live` (UID to order), `shares`, `capital` and `next` (the next UID).
  - `Match` is a RECURSIVE reference definition of price-time priority. A taker trades against the reachable resting order of the other side that no other such order is `Ahead` of. `Ahead` means a better price, or the same price and a smaller UID. Each trade is at the maker's price and is booked on both accounts.
  - It is written from the design text (spec.md, C3 and C4) and is not mapped to code lines.
  - Besides `Limit`, `Market`, `Cancel` and `Reduce` it has `Replace` (the old order, if it still rests, leaves and the new limit order is placed, in one step, only by the old order's account) and `Purge` (every order of an account leaves at once). These are the API's promises for the order-entry requests. `Spec` writes the stuttering case first (`[][UNCHANGED absVars \/ Next]_absVars`, the same formula as `[][Next]_absVars`), so TLC settles the steps that leave the book alone without evaluating `Match`.
  - `OrderBook` refines it: `ABS == INSTANCE AbstractBook WITH live <- orders, next <- sequence`. `AbstractBookSpec == ABS!Spec` is a PROPERTY of `orderbook_safety`. The levels, FIFOs, volumes, best prices and `Account::orders` have no abstract counterpart. So every step of the FIFO-and-cached-best implementation must be a step the declarative rule allows, fills and positions included.
- **OrderEntry.tla**: composes the book (`OB == INSTANCE OrderBook`) with the sessions.
  - Variables: `account`, `handler`, `isConnected`, and the output buffer with its size and in-flight write.
  - One action per handler: `Login`, `Logout`, `Order`, `Cancel`, `Replace`, `Purge` and `BadMessage` (`handle(Header)`).
  - Read-loop events: `Eof`, and `TransportError` (a read error).
  - The book behind the handlers also refines `AbstractBook`: `AbstractBookSpec == OB!AbstractBookSpec`. A replace (cancel then limit in the code) and a purge (a loop of cancels) are each one abstract step.
  - The write pump: `Deliver`, and `WriteError`.
  - `Accept`, for a new connection.
  - `TradeReports` folds the fills of a step into the reports that `SystemAccount` sends, maker first. Every response passes through `Send`, which is `send()`: append, then start the write loop when the size goes from 0 to 1.
- **OrderEntryClient.tla**: adds the `Client` at the other end of each connection. Each `Deliver` is one `Client::read_buffer` completion, which applies `handle()` to the message written. The client's shares are a `ShareBits`-bit two's-complement integer (`ToClientShares`), as `ClientShares` is `int32_t`.
- **DataFeed.tla**: the feed.
  - Venue side: the book driven through `Limit`, `Market` and `Cancel`, each publishing its events through `Publish` (`Sender::send`). Also `StartOfSession` and `EndOfSession` (the CLI) and `SendDone` (the `send_message` completion). `sending` is the write loop: `Publish` starts it on the message that makes `output_buffer_size` 1, and `SendDone` restarts it while the count is not 0.
  - Network: a sequence of datagrams in flight, with optional `Lose` and `Duplicate` actions.
  - Subscriber: `Receive` (`read_message`), which dispatches to `StartHandler`, `EndHandler`, `AddHandler`, `DeleteHandler` and `TradeHandler` on the mirror book.
  - The mirror operators are `MirrorLimit`, `MirrorCancel` and `MirrorReduce`, translated from `data_feed/limit_order_book/limit_order_book.hpp`. Note that `emplace` keeps an existing entry.
- **StrategyTimer.tla**: the timer loops of `MarketMaker` (feed A) and `MarketArbitrage` (feeds A and B).
  - Per strategy: `isRunning`, the number of pending waits `waits`, and `ready`, the completed waits queued on its context with their error code.
  - Per receiver: the session flag `rx`.
  - Actions: `StartOfSession` and `EndOfSession` (MarketMaker's `did_receive`), `ArbStartOfSession(f)` and `ArbEndOfSession(f)` (MarketArbitrage's, with the both-active test), `Expire(s)` (a wait completes) and `RunHandler(s)` (the completion handler).
  - asio's semantics are kept: `expires_after` and `cancel` abort only the waits still pending, and an aborted handler still runs, with an error.
  - `do_strategy`'s requests are left out here. They are modelled in StrategyOrders.
  - MarketMaker's `trade_side` (`tradeSide`, an `ExponentialMovingAverage` of Maths) is built from the options' weight and average. `StartOfSession` resets it to a draw of `uniform_real(-1.0, 1.0)`, and `Trade(side)` (the feed's trade report) processes `side_to_double(side)`, +1 or -1. `trades` bounds the trades per session.
- **StrategyOrders.tla**: the requests each strategy's `do_strategy` sends, built from its mirror.
  - The mirror is reduced to what the strategies read: `lastBest` (`last_best_buy()` / `last_best_sell()`, 0 until that side has had a best price) and `hasBest` (`volume_*_best() > 0`). `MirrorUpdate` changes them.
  - Prices are `uint64` scaled to `PriceBits` bits (`PriceAdd`, `PriceSub`), so the code's saturation tests against `numeric_limits<Price>` meet both ends of the range.
  - `NoiseStrategy` and `NoiseLimit`: market, purge, and the four limit types (cross, inside, at best, outside).
  - `MeanReversionStrategy`: purge, then one tick inside the last best price, guarded by `SellTickLeavesRange` and `BuyTickLeavesRange`.
  - `MarketMakerStrategy`: purge, then quote and hedge at the last best prices.
  - Iceberg: `IcebergStart` draws the day's side and size, `IcebergEnd` clears `is_running`, and `IcebergStrategy` sends `min(size, iceberg_size)` and takes it from `size`, modulo 2^`QuantityBits`. The timer loop may survive `IcebergEnd`, as `strategy_stop` shows.
  - MarketArbitrage: `bestB` is receiverB's book as `best_buy()` / `best_sell()` (0 when the side is empty), changed by `MirrorUpdateB`. Book A is the mirror above (`BestOf`). `DoesCross` is `LimitOrderBook::does_cross`, with its empty-side and uint64-overflow checks. `ArbitrageStrategy` is `do_strategy`: a buy on the cheaper market and a sell on the other, both market orders, each tagged with its `venue`.
  - Random draws are nondeterministic choices over what they can produce. Floating-point moving averages are replaced by the branch they select. `out` holds the requests of the last step, each tagged with the code path that built it.
- **Maths.tla**: `ExponentialMovingAverage` from `src/include/maths`, which `MarketMaker` uses to average the sides of the trades its feed reports.
  - The doubles are exact, reduced rationals `[num, den]` (`Q`, `QAdd`, `QMul`, `QLe`). A property therefore checks the algorithm, not its rounding.
  - The structure is a record `[alpha, average]`. `EMAInit` is the constructor, with `Clamp` (`std::clamp` into [`ALPHA_MIN`, `ALPHA_MAX`]). `EMAReset` and `EMAProcess` are `reset` and `process`.
- **MC\*.tla**: define the constants TLC uses. Each `.cfg` picks a specification and the properties it checks.

## Runs

| Run | Expect | What it shows |
|---|---|---|
| orderbook_safety | pass | Two accounts, prices {1,2}, quantities {1,2}, 4 UIDs. Every sequence of limit, market, cancel and reduce keeps the design's invariants 1-3 (`BookConsistent`: each live order once in its FIFO, volumes are sums), the book never crossed, `Account::orders` equal to the account's live orders, shares and capital summing to zero, and refinement of `AbstractBook` (`AbstractBookSpec`): every step, matching included, is what the declarative price-time priority rule allows. 576,181 states, about 2 minutes. |
| orderentry_sessions | pass | Two connections and two accounts, with login (valid or not), order, cancel, replace, purge, logout, unknown messages, EOF and reconnection. `SessionBinding`: `Connection::account`, `SystemAccount::handler` and `is_connected` stay one consistent binding. `OnlyOwnerRemovesOrders` (action property): in every step that removes an order without filling it, the session the step answers with an accepted Cancel, Replace or Purge is logged into the order's account. This holds whether or not the owner is logged in on the other connection; without the username test of `handle(CancelRequest)` TLC finds a2's session cancelling a1's order while a1 is logged in. `ResponsesDelivered` (liveness): every queued response is eventually written. `AbstractBookSpec`: the book changes only by the steps the API promises, with replace and purge atomic. 346,452 states, about 40 s. |
| orderentry_client | pass | `ClientMirrorsAccount`: once a logged-in client has read every response, its `active_orders` and capital equal the server's account, and its shares equal the account's modulo 2^`ShareBits`. The client's `ClientShares` is `int32_t` and the account's `Shares` is `int64_t`; with 2-bit client shares a 2-share position already wraps. This ties each response and trade report (ids, leaves, sides) to what the book did. 549,239 states. |
| feed_mirror | pass | Reliable, in-order network. When the feed is drained, the mirror book (orders, FIFOs, volumes), the subscriber's session flag and `last_sequence` equal the venue's (`MirrorMatchesBook`). The mirror keeps invariants 1-3 after every packet (`MirrorConsistent`). Under `FairSpec`, each of the packets numbered 1..`MaxSeq` is eventually handled by the receiver once published (`PublishedIsReceived`); a completion handler that does not restart the loop strands a packet queued behind a send in flight. 610,670 states, about 2.5 minutes with the liveness check. |
| feed_loss | violation | One lost Trade leaves a ghost order in the mirror. A later AddOrder crosses it in the mirror, and the Trade that follows asks `reduce()` for more than the mirror holds. `reduce()` throws a `std::string`, and no `catch (std::exception&)` catches it. |
| feed_duplicate | violation | The network duplicates one AddOrder. The copy fails `read_message`'s sequence check, which only logs it and adopts its sequence, and is applied again. `emplace` keeps the order already in the map and the tree links it a second time, so its level and side volumes count it twice (`MirrorConsistent`). The design (C9) says the subscriber reorders by sequence to reconstruct the mirror. |
| strategy_timer | pass | Three sessions per receiver. `LoopAliveWhileRunning`: while `is_running` is set, a timer loop is alive. `ArbRunsWhileBothOpen`: the arbitrage runs exactly while both markets are open, whatever order the two feeds' boundaries arrive in. `TradeSideWithinSides`: once a session has started, the average of trade sides lies in [-1, 1] whatever weight the options give, so a decision boundary of 1 or more is never crossed; dropping the constructor's `std::clamp` breaks it. `LoopsConverge` (liveness): loops left over from earlier sessions merge into one, because every re-arm's `expires_after` cancels the other waits. 226,464 states. |
| strategy_orders | pass | `IcebergWithinDailySize`: over any number of ticks, including ticks of a loop that outlived EndOfSession, the iceberg orders at most the size it drew for the day. `GuardedPricesAreLimits`: Noise's inside-the-spread orders lie strictly between the two last best prices, and MeanReversion's orders are priced and one tick on the right side of the last best, at both ends of a 2-bit price range. `ArbitrageBuysBelowSells`: each arbitrage buy goes to a market whose best sell plus the spread is under the other market's best buy in exact arithmetic, and it is paired with a sell on that other market; dropping the overflow check of `does_cross` breaks it (a sell at the top of the range wraps under any buy). 229,640 states. |
| strategy_market_quote | violation | Before the mirror has had a best sell, Noise's Cross buy (and likewise its AtBest orders, MarketMaker's quote and hedge, and Noise's Outside buy saturated to 0) is an OrderRequest priced 0. That is `ORDER_PRICE_MARKET`, so a limit order the strategy meant to rest executes as a market order. |
| strategy_stop | violation | The wait completes, and then EndOfSession arrives. `timer.cancel()` has nothing pending to cancel. The handler runs with success and re-arms, so the strategy keeps calling `do_strategy` after the session ended, until the next StartOfSession. |

Three more configurations are kept out of the run list, and they are run by hand:
- **`MCOrderEntryClientRelogin.cfg`:** with logout and EOF enabled, the client's `active_orders` is empty after a new login while the account's order still rests.
- **`MCOrderBookZeroQty.cfg`:** a limit order of quantity 0 (a legal `uint32` on the wire) rests in the book.
- **`MCOrderEntryReplace.cfg`:** a replace with side byte `X` cancels the old order, places nothing, and is accepted with new id 0.

All three are listed as hazards in `PROJECT.json`.

Three divergences from the design are read straight off the code and are one step of the model each, so no run restates them as a property:
- **`BadMessage`** (`handle(Header)`, connection.hpp:311) logs the session out and keeps reading the connection; the design says a framing error closes it.
- **`TransportError`** (connection.hpp:133) throws out of `io_context::run`, ending every session; the design says a transport failure is fatal for that connection only. It is added by `SpecWithTransportError`.
- **`WriteError`** (connection.hpp:91) returns without pop or decrement, so that connection's output stops for good; the code treats this as fatal for the connection's output by design. It is added by `SpecWithWriteError`.

Every property of a passing run has a mutant in `PROJECT.json`. A mutant is a plausible bug in a mapped definition (a dropped guard, an off-by-one, a missing reset), and TLC finds the property violated under that mutant.

## Bounds

- **Two accounts and two connections.** That is enough for every binding conflict: a second login to a used account, a cancel of another account's order, and trade reports to a maker and a taker on different sessions.
- **Prices {1,2} and quantities {1,2}.** These give every matching case: a full fill, a partial fill of the maker or of the taker, a sweep across two levels, and a price that does or does not reach.
- **`MaxUID` bounds the UID counter.** An order is placed only while `sequence <= MaxUID`. Market orders, cancels and replaces of filled orders stay enabled, so no run stops because of the bound.
- **`MaxOut` = 1: a client sends a request only once it has read every earlier response.** This is the bound on the output queue. Even so, several messages pile up in one step, because trade reports to other sessions are queued without bound.
- **`MaxSeq` bounds the CLI's session boundaries; `MaxInFlight` bounds the datagrams a duplicating network holds.**
- **The session and client runs use one price, and the session run one quantity, to keep within time.** The matching cases they need are already reached that way, and the book's own run covers the rest.
- **`MaxSessions` bounds the StartOfSession messages each strategy receiver gets.** It is 3, so a loop that survives one EndOfSession meets the wait the next StartOfSession arms, and the two feeds of the arbitrage open and close in every relative order.
- **StrategyOrders: 2-bit prices (0..3), 3-bit quantities, daily sizes {2,3} with an iceberg size of 2, and outside distances {0,1,2}.** Every saturation branch and every `min` branch is reached: a day ends on a slice smaller than the iceberg. Order sizes other than the iceberg's decide nothing and are one value. A spread of 1 on 2-bit prices leaves one crossing (sell 1, buy 3) and one sell (3) whose sum with the spread overflows.
- **`trade_side`: weights 1/2 and 3/2, an initial average of 2, draws -1/2 and 1/2, and 2 trades per session (`MaxTrades`).** A weight of 3/2 is one the constructor must clamp, and the initial average lies outside the sides, so the property depends on the reset. Two trades of the same side after a draw carry an unclamped average past that side.
- **Each counterexample is short (6 to 13 states), so the violation runs need no larger bounds.**

## Fairness

`Spec` of OrderEntry assumes `WF_vars(Deliver(c))` for every connection, and nothing else:
- The `io_context` runs every completed write.
- A client's read loop is always re-armed, both in `Client::read_buffer` and in the model.
- So once a write is in flight it completes.

No fairness is assumed for requests: a client may stop sending at any time.

`StrategyTimer`'s `Spec` assumes weak fairness of `Expire(s)` and `RunHandler(s)` for each strategy. A steady timer fires after `sleep_time`, and a context runs every handler queued on it. No fairness is assumed for feeds: a venue may never open another session. `Expire` fires only when the context's queue is empty. This is a timing assumption: the handlers only send requests asynchronously, so they finish well within `sleep_time`. Without it, two loops can keep leap-frogging each other for ever. `strategy_timer` does not check for deadlock: after the last session the strategy legitimately idles, waiting for a feed message.

`DataFeed`'s `FairSpec` assumes weak fairness of `SendDone` and `Receive`. A pending `async_send_to` completes, and the venue's context runs its handler. The receiver re-arms `async_receive_from` before it handles a packet, so its context keeps taking datagrams. No fairness is assumed for the venue's operations or the CLI. The bound 1..`MaxSeq` on the packet numbers keeps the check to three leads-to formulas. It covers a `Limit` that publishes while the session's first packet is still being sent.

The remaining specifications check only safety.

## Not modelled

- **Book queries and `clear()`.** `clear()` is never called by the server, and it would leave every `Account::orders` holding freed orders.
- **Message byte layout and sequence numbers.**
  - Per-session sequence numbers are modelled as data nothing reads.
  - The feed's sequence numbers are modelled, since `last_sequence` depends on them.
- **Credentials,** abstracted to "valid or not".
- **The UDP send error in `Sender`.** It throws out of the venue's `io_context`, the same escape path as `TransportError`.
- **Reordering of datagrams.** It produces the same ghost orders as loss.
- **Capital overflow.** See the hazards in `PROJECT.json`.
- **How the moving averages and variances feed the strategies' decisions, and the unsynchronised reads that `do_strategy` makes of the feed thread's book and averages.** The average of trade sides is modelled (Maths, StrategyTimer). `ExponentialMovingVariance` is not: it is updated on each tick of MeanReversion's `do_strategy`, whose loop the timer model does not include. `RateOfChange` is used by no program. StrategyOrders keeps the branch each average selects, and treats each mirror update as atomic. Rounding of the doubles is not modelled.
- **The iceberg's zero-quantity orders.** Once the day's size is used up, each tick that finds liquidity sends a market order for 0 shares. No property states this, since such an order matches nothing. It is listed as a hazard.
- **Heartbeats, CSV/echo/no-op feed handlers, the client CLI and `Probability`.** These are output, or random generators (a nondeterministic choice wherever a strategy draws). The heartbeat timers only print the book, the authorizer and the feed queue; they change no state. The model lets a client send any request instead.
- **UID reuse after a fill on entry.** A limit order filled on entry returns 0 without `sequence++`, so the next order gets the same UID. The design text says the counter is consumed. The model does what the code does.
