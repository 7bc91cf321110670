--------------------------- MODULE StrategyTimer ---------------------------
(***************************************************************************)
(* The session-driven timer loop of the trading strategies                 *)
(* (strategies/market_maker.hpp, strategies/market_arbitrage.hpp; mean     *)
(* reversion, noise and the iceberg consumer repeat MarketMaker's loop).   *)
(*                                                                         *)
(* A strategy's asio::steady_timer runs the loop. start_strategy arms it,  *)
(* and each completion handler returns on an error code and otherwise      *)
(* maybe runs do_strategy, then calls start_strategy again. The Receiver   *)
(* of a feed sets _is_session_active and calls did_receive, which starts   *)
(* the loop on StartOfSession and calls timer.cancel() on EndOfSession.    *)
(*   - MarketMaker listens to feed A. Its feed runs on its own thread      *)
(*     (feed_context.run() in a std::thread) and the timer on the strategy *)
(*     thread (context.run()).                                             *)
(*   - MarketArbitrage listens to feeds A and B, all on one thread. It     *)
(*     starts once both sessions are open and stops when either closes.    *)
(* asio semantics kept:                                                    *)
(*   - expires_after cancels every pending wait;                           *)
(*   - cancel() cancels only waits that have not yet completed, and a      *)
(*     cancelled wait's handler still runs, with operation_aborted;        *)
(*   - a completed wait is queued for the strategy's context.              *)
(* Each did_receive and each handler is one step. do_strategy's requests   *)
(* are not modelled, since nothing the timer does depends on them.  What   *)
(* MarketMaker decides them on is: trade_side, the exponential moving      *)
(* average (Maths) of the sides of the trades its feed reports, reset to a *)
(* random draw at each StartOfSession.                                     *)
(***************************************************************************)
EXTENDS Naturals, Sequences, Maths

CONSTANTS
    MaxSessions,  \* StartOfSession messages each receiver gets
    Weights,      \* the options' strategy.weight values (trade_side's alpha)
    Averages,     \* the options' strategy.average values (its first average)
    Draws,        \* what uniform_real(-1.0, 1.0) draws
    MaxTrades     \* trades MarketMaker's feed reports per session

ASSUME MaxSessions \in Nat \ {0}

MM == "MarketMaker"
ARB == "MarketArbitrage"
Strategies == {MM, ARB}
Feeds == {"A", "B"}
\* the receivers: a strategy and the feed it listens to
Subs == {<<MM, "A">>, <<ARB, "A">>, <<ARB, "B">>}

VARIABLES
    isRunning,     \* is_running of each strategy
    waits,         \* waits pending on each strategy's timer
    ready,         \* completed waits queued on its context, "ok" or "aborted"
    rx,            \* Receiver::_is_session_active of each receiver
    sessions,      \* StartOfSession messages each receiver got so far
    tradeSide,     \* MarketMaker::trade_side, [alpha, average]
    trades         \* trades reported since the last StartOfSession (bound)

timerVars == <<isRunning, waits, ready>>
emaVars == <<tradeSide, trades>>
vars == <<timerVars, rx, sessions, emaVars>>

Codes == {"ok", "aborted"}

(* expires_after and cancel: every pending wait of s's timer is cancelled, *)
(* each of their handlers queued with operation_aborted.                   *)
CancelAll(s, r) == r \o [i \in 1..waits[s] |-> "aborted"]

(* Mutant: async_wait without the cancel of expires_after.                 *)
StartStrategyNoCancel(s, r) ==
    /\ ready' = [ready EXCEPT ![s] = r]
    /\ waits' = [waits EXCEPT ![s] = @ + 1]

(* start_strategy with r the handlers queued: expires_after, async_wait.   *)
StartStrategy(s, r) ==
    /\ ready' = [ready EXCEPT ![s] = CancelAll(s, r)]
    /\ waits' = [waits EXCEPT ![s] = 1]

(* Mutant: timer.cancel() without clearing is_running.                     *)
StopKeepsRunning(s) ==
    /\ ready' = [ready EXCEPT ![s] = CancelAll(s, @)]
    /\ waits' = [waits EXCEPT ![s] = 0]
    /\ UNCHANGED isRunning

(* "stop the strategy": timer.cancel() and clear is_running.               *)
Stop(s) ==
    /\ ready' = [ready EXCEPT ![s] = CancelAll(s, @)]
    /\ waits' = [waits EXCEPT ![s] = 0]
    /\ isRunning' = [isRunning EXCEPT ![s] = FALSE]

Init ==
    /\ isRunning = [s \in Strategies |-> FALSE]
    /\ waits = [s \in Strategies |-> 0]
    /\ ready = [s \in Strategies |-> <<>>]
    /\ rx = [r \in Subs |-> FALSE]
    /\ sessions = [r \in Subs |-> 0]
    /\ \E w \in Weights, a \in Averages : tradeSide = EMAInit(w, a)
    /\ trades = 0

(* Receiver::handle(StartOfSession) / handle(EndOfSession): set or clear   *)
(* the flag before calling did_receive. A feed publishes boundaries in     *)
(* alternation (the venue's CLI guards them) and delivers them in order.   *)
ReceiverStart(r) ==
    /\ ~rx[r]
    /\ sessions[r] < MaxSessions
    /\ rx' = [rx EXCEPT ![r] = TRUE]
    /\ sessions' = [sessions EXCEPT ![r] = @ + 1]

ReceiverEnd(r) ==
    /\ rx[r]
    /\ rx' = [rx EXCEPT ![r] = FALSE]
    /\ UNCHANGED sessions

(* MarketMaker::did_receive(StartOfSession): return if already running,    *)
(* else reset trade_side to a random draw, start the loop and set          *)
(* is_running.                                                             *)
StartOfSession ==
    /\ ReceiverStart(<<MM, "A">>)
    /\ trades' = 0
    /\ IF isRunning[MM]
         THEN UNCHANGED <<timerVars, tradeSide>>
         ELSE /\ \E d \in Draws : tradeSide' = EMAReset(tradeSide, d)
              /\ StartStrategy(MM, ready[MM])
              /\ isRunning' = [isRunning EXCEPT ![MM] = TRUE]

(* MarketMaker::did_receive(EndOfSession): return if not running, else     *)
(* stop.                                                                   *)
EndOfSession ==
    /\ ReceiverEnd(<<MM, "A">>)
    /\ IF ~isRunning[MM] THEN UNCHANGED timerVars ELSE Stop(MM)
    /\ UNCHANGED emaVars

\* DataFeed::side_to_double: -2 * bool(side - 'B') + 1
SideToDouble(side) == QInt(-2 * (IF side = "B" THEN 0 ELSE 1) + 1)

(* Receiver::handle(Trade) for an order of its book, then                  *)
(* MarketMaker::did_receive(Trade): process the trade's side.  The feed    *)
(* thread runs it whatever the session state.                              *)
Trade(side) ==
    /\ trades < MaxTrades
    /\ tradeSide' = EMAProcess(tradeSide, SideToDouble(side))
    /\ trades' = trades + 1
    /\ UNCHANGED <<timerVars, rx, sessions>>

(* Mutant: the arbitrage counts a market open when either one is.          *)
EitherOpen == \E g \in Feeds : rx'[<<ARB, g>>]

(* receiverA.is_session_active() and receiverB.is_session_active(), read   *)
(* after this step's receiver has set or cleared its flag                  *)
BothOpen == \A g \in Feeds : rx'[<<ARB, g>>]

(* MarketArbitrage::did_receive(StartOfSession) from feed f: return if     *)
(* running; start the loop only if both markets are active.                *)
ArbStartOfSession(f) ==
    /\ ReceiverStart(<<ARB, f>>)
    /\ IF ~isRunning[ARB] /\ BothOpen
         THEN /\ StartStrategy(ARB, ready[ARB])
              /\ isRunning' = [isRunning EXCEPT ![ARB] = TRUE]
         ELSE UNCHANGED timerVars
    /\ UNCHANGED emaVars

(* MarketArbitrage::did_receive(EndOfSession) from feed f: return if not   *)
(* running; stop if either market is no longer active.                     *)
ArbEndOfSession(f) ==
    /\ ReceiverEnd(<<ARB, f>>)
    /\ IF isRunning[ARB] /\ ~BothOpen
         THEN Stop(ARB)
         ELSE UNCHANGED timerVars
    /\ UNCHANGED emaVars

(* The timer of s expires: one pending wait completes with success. A wait *)
(* lasts sleep_time, and handlers already queued run before it expires:    *)
(* the handlers only send requests asynchronously, so the context drains   *)
(* its queue in far less than sleep_time.                                  *)
Expire(s) ==
    /\ waits[s] > 0
    /\ ready[s] = <<>>
    /\ waits' = [waits EXCEPT ![s] = @ - 1]
    /\ ready' = [ready EXCEPT ![s] = Append(@, "ok")]
    /\ UNCHANGED <<isRunning, rx, sessions, emaVars>>

(* The context of s runs the handler queued first. On an error code it     *)
(* returns. Otherwise it runs do_strategy with probability P_act (not      *)
(* modelled), then start_strategy.                                         *)
RunHandler(s) ==
    /\ ready[s] # <<>>
    /\ IF Head(ready[s]) = "aborted"
         THEN /\ ready' = [ready EXCEPT ![s] = Tail(@)]
              /\ UNCHANGED waits
         ELSE StartStrategy(s, Tail(ready[s]))
    /\ UNCHANGED <<isRunning, rx, sessions, emaVars>>

Next ==
    \/ StartOfSession
    \/ EndOfSession
    \/ \E side \in {"B", "S"} : Trade(side)
    \/ \E f \in Feeds : ArbStartOfSession(f) \/ ArbEndOfSession(f)
    \/ \E s \in Strategies : Expire(s) \/ RunHandler(s)

(* Each context runs every queued handler and a pending wait expires after *)
(* sleep_time. No fairness for the feeds: a venue may never publish        *)
(* another session boundary.                                               *)
Spec == Init /\ [][Next]_vars
        /\ \A s \in Strategies : WF_vars(Expire(s)) /\ WF_vars(RunHandler(s))

-----------------------------------------------------------------------------
(* The timer loops of s alive: pending waits plus successful completions   *)
(* that will re-arm. A dead loop has none of either.                       *)
Loops(s) == waits[s] + Len(SelectSeq(ready[s], LAMBDA c : c = "ok"))

(* While is_running is set the timer loop is alive: no handler or cancel  *)
(* ends the last loop while the strategy believes it is running, so the    *)
(* StartOfSession guard (return if running) never strands the strategy.    *)
LoopAliveWhileRunning == \A s \in Strategies : isRunning[s] => Loops(s) >= 1

(* Several loops can be alive at once: a completion queued before a       *)
(* cancel survives it, and a new session arms another wait. Every handler  *)
(* that re-arms calls expires_after, which cancels the other pending       *)
(* waits. So the loops eventually merge into at most one and stay so.      *)
LoopsConverge == \A s \in Strategies : <>[](Loops(s) <= 1)

(* MarketArbitrage's two did_receive handlers keep is_running equal to     *)
(* "both markets are in session", whatever order the two feeds' boundaries *)
(* arrive in.                                                              *)
ArbRunsWhileBothOpen ==
    isRunning[ARB] = (rx[<<ARB, "A">>] /\ rx[<<ARB, "B">>])

(* What EndOfSession's "stop the strategy" intends: once is_running is     *)
(* clear, no loop of the timer is alive, so do_strategy no longer runs.    *)
LoopStopsAtEndOfSession == \A s \in Strategies : ~isRunning[s] => Loops(s) = 0

(* MarketMaker quotes on trade_side.get_average() > decision_boundary and  *)
(* < -decision_boundary, with sides of +1 and -1.  Whatever weight and     *)
(* average the options give, once a session has started the average lies   *)
(* in [-1, 1]: the reset draws from it and process moves towards a side by *)
(* an alpha that the constructor's std::clamp keeps in [0, 1].  So a       *)
(* boundary of 1 or more is never crossed.                                 *)
TradeSideWithinSides ==
    sessions[<<MM, "A">>] > 0 =>
        QLe(QInt(-1), tradeSide.average) /\ QLe(tradeSide.average, QInt(1))
=============================================================================
