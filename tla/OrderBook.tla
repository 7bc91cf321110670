----------------------------- MODULE OrderBook -----------------------------
(***************************************************************************)
(* The order-entry limit order book of the venue: the UID->Order map, the  *)
(* two LimitTrees (a FIFO of orders per price level, level and side        *)
(* volumes) and the per-account bookkeeping fired by the matching loop.    *)
(*                                                                         *)
(*   src/include/order_entry/limit_order_book/limit_order_book.hpp         *)
(*   src/include/order_entry/limit_order_book/structures.hpp               *)
(*                                                                         *)
(* limit_tree.hpp (LimitTree::limit / cancel / market) is not part of the  *)
(* source tree; those three operators are modelled from the design text    *)
(* and marked spec_modelled in PROJECT.json.  The price-level AVL tree is  *)
(* abstracted to a function from prices to FIFO sequences: "best" is the   *)
(* extremum of the non-empty levels, which is what the cached pointer is   *)
(* required to be.                                                         *)
(*                                                                         *)
(* Every operation is written as a pure operator from a book value to a    *)
(* result, so that the session layer (OrderEntry) can apply the same       *)
(* operation and route the fills it produced.                              *)
(***************************************************************************)
EXTENDS Integers, Sequences, FiniteSets, SequencesExt, TLC

CONSTANTS
    Accounts,    \* the accounts that may own orders (model values)
    Prices,      \* limit prices a request may carry
    Quantities,  \* quantities a request may carry
    MaxUID       \* bound on the UID counter `sequence`

ASSUME MaxUID \in Nat \ {0}

Sides == {"Buy", "Sell"}

\* operator!(Side): the opposite side.
Other(s) == IF s = "Buy" THEN "Sell" ELSE "Buy"

VARIABLES
    orders,        \* LimitOrderBook::orders : UID -> Order (side, quantity, price, account)
    queue,         \* Limit::order_head..order_tail per side and price: FIFO of UIDs
    limitVolume,   \* Limit::volume per side and price
    volume,        \* LimitTree::volume per side
    sequence,      \* LimitOrderBook::sequence, the next UID
    shares,        \* Account::shares
    capital,       \* Account::capital
    accountOrders, \* Account::orders, the set of the account's active orders
    fills          \* the fills the last operation reported through the Account callbacks

vars == <<orders, queue, limitVolume, volume, sequence, shares, capital,
          accountOrders, fills>>

OrderRec == [side : Sides, quantity : Nat, price : Nat, account : Accounts]

\* LOB::Limit: a price level, its FIFO of orders (order_head to order_tail,
\* count) and its volume
LevelRec == [fifo : Seq(1..MaxUID), volume : Nat]

FillRec == [maker : Nat, makerAccount : Accounts, makerSide : Sides,
            price : Nat, quantity : Nat, makerLeaves : Nat,
            takerAccount : Accounts, takerSide : Sides, takerPrice : Nat,
            takerLeaves : Nat]

-----------------------------------------------------------------------------
(* The book as a value, and its assignment to the variables.              *)

Book == [orders |-> orders, queue |-> queue, limitVolume |-> limitVolume,
         volume |-> volume, sequence |-> sequence, shares |-> shares,
         capital |-> capital, accountOrders |-> accountOrders]

SetBook(b, f) ==
    /\ orders' = b.orders
    /\ queue' = b.queue
    /\ limitVolume' = b.limitVolume
    /\ volume' = b.volume
    /\ sequence' = b.sequence
    /\ shares' = b.shares
    /\ capital' = b.capital
    /\ accountOrders' = b.accountOrders
    /\ fills' = f

EmptyBook(seq0) ==
    [orders |-> <<>>,
     queue |-> [s \in Sides |-> [p \in Prices |-> <<>>]],
     limitVolume |-> [s \in Sides |-> [p \in Prices |-> 0]],
     volume |-> [s \in Sides |-> 0],
     sequence |-> seq0,
     shares |-> [a \in Accounts |-> 0],
     capital |-> [a \in Accounts |-> 0],
     accountOrders |-> [a \in Accounts |-> {}]]

-----------------------------------------------------------------------------
(* LimitTree: best price, appending to and removing from a level.         *)

\* `best != nullptr`
HasBest(b, s) == \E p \in Prices : b.queue[s][p] # <<>>

\* Mutant: the cached best pointer tracks the lowest price on both sides.
BestPriceLowest(b, s) == Min({p \in Prices : b.queue[s][p] # <<>>})

\* best->key: the highest buy price or the lowest sell price
BestPrice(b, s) ==
    LET active == {p \in Prices : b.queue[s][p] # <<>>}
    IN  IF s = "Buy" THEN Max(active) ELSE Min(active)

\* a taker on side ts with limit price p reaches a resting price rp
Reaches(ts, p, rp) == IF ts = "Buy" THEN p >= rp ELSE p <= rp

\* Mutant: the order is linked in at the head of its level.
TreeLimitAtHead(b, id) ==
    LET o == b.orders[id] IN
    [b EXCEPT !.queue[o.side][o.price] = <<id>> \o @,
              !.limitVolume[o.side][o.price] = @ + o.quantity,
              !.volume[o.side] = @ + o.quantity,
              !.accountOrders[o.account] = @ \cup {id}]

\* LimitTree::limit: append the order to the tail of its level
TreeLimit(b, id) ==
    LET o == b.orders[id] IN
    [b EXCEPT !.queue[o.side][o.price] = Append(@, id),
              !.limitVolume[o.side][o.price] = @ + o.quantity,
              !.volume[o.side] = @ + o.quantity,
              !.accountOrders[o.account] = @ \cup {id}]

\* LimitTree::cancel: splice the order out of its level and the account
TreeCancel(b, id) ==
    LET o == b.orders[id] IN
    [b EXCEPT !.queue[o.side][o.price] = Remove(@, id),
              !.limitVolume[o.side][o.price] = @ - o.quantity,
              !.volume[o.side] = @ - o.quantity,
              !.accountOrders[o.account] = @ \ {id}]

\* the on_fill callback / orders.erase(uid)
Erase(b, id) == [b EXCEPT !.orders = Restrict(@, DOMAIN @ \ {id})]

-----------------------------------------------------------------------------
(* Account bookkeeping (LOB::Account).  m is the resting (limit) order and *)
(* t the taker (market) order, both as they were before the trade.         *)

\* Account::fill
Fill(b, a, s, q, p) ==
    IF s = "Sell"
    THEN [b EXCEPT !.shares[a] = @ - q, !.capital[a] = @ + q * p]
    ELSE [b EXCEPT !.shares[a] = @ + q, !.capital[a] = @ - q * p]

\* Mutant: the filled order is not removed from Account::orders.
LimitFillKeepsOrder(b, mid, m) == Fill(b, m.account, m.side, m.quantity, m.price)

\* Account::limit_fill: the resting order is consumed entirely
LimitFill(b, mid, m) ==
    Fill([b EXCEPT !.accountOrders[m.account] = @ \ {mid}],
         m.account, m.side, m.quantity, m.price)

\* Mutant: the maker is booked for its whole open quantity.
LimitPartialWholeOrder(b, m, t) == Fill(b, m.account, m.side, m.quantity, m.price)

\* Account::limit_partial: fill(limit->side, market->quantity, limit->price)
LimitPartial(b, m, t) == Fill(b, m.account, m.side, t.quantity, m.price)

\* Account::market_fill: fill(market->side, market->quantity, limit->price)
MarketFill(b, m, t) == Fill(b, t.account, t.side, t.quantity, m.price)

\* Account::market_partial: fill(market->side, limit->quantity, limit->price)
MarketPartial(b, m, t) == Fill(b, t.account, t.side, m.quantity, m.price)

-----------------------------------------------------------------------------
(* LimitTree::market: consume the best levels of the side opposite to the  *)
(* taker t until t is filled, the side is empty, or (when t has a price)   *)
(* the best resting price no longer reaches t's price.  Trades happen at   *)
(* the resting order's price.                                              *)

RECURSIVE Sweep(_, _, _)
Sweep(b, t, fs) ==
    LET s == Other(t.side) IN
    IF \/ t.quantity = 0
       \/ ~HasBest(b, s)
       \/ t.price # 0 /\ ~Reaches(t.side, t.price, BestPrice(b, s))
    THEN [book |-> b, taker |-> t, fills |-> fs]
    ELSE
      LET p   == BestPrice(b, s)
          mid == Head(b.queue[s][p])
          m   == b.orders[mid]
          q   == IF m.quantity <= t.quantity THEN m.quantity ELSE t.quantity
          t2  == [t EXCEPT !.quantity = @ - q]
          f   == [maker |-> mid, makerAccount |-> m.account, makerSide |-> s,
                  price |-> p, quantity |-> q, makerLeaves |-> m.quantity - q,
                  takerAccount |-> t.account, takerSide |-> t.side,
                  takerPrice |-> t.price, takerLeaves |-> t2.quantity]
          b2  == IF m.quantity <= t.quantity
                 THEN \* the head leaves its level and the UID map
                      LET popped == [b EXCEPT !.queue[s][p] = Tail(@),
                                              !.limitVolume[s][p] = @ - q,
                                              !.volume[s] = @ - q]
                          acct   == LimitFill(popped, mid, m)
                          taker  == IF t2.quantity = 0
                                    THEN MarketFill(acct, m, t)
                                    ELSE MarketPartial(acct, m, t)
                      IN  Erase(taker, mid)
                 ELSE \* the head keeps the rest of its quantity
                      LET reduced == [b EXCEPT !.orders[mid].quantity = @ - q,
                                               !.limitVolume[s][p] = @ - q,
                                               !.volume[s] = @ - q]
                      IN  MarketFill(LimitPartial(reduced, m, t), m, t)
      IN  Sweep(b2, t2, Append(fs, f))

-----------------------------------------------------------------------------
(* LimitOrderBook operations, as results [book, uid, fills].               *)

\* Mutant: the crossing test uses a strict comparison (price < best->key).
CrossesStrict(b, s, p) ==
    HasBest(b, Other(s)) /\ Reaches(s, p, BestPrice(b, Other(s)))
                         /\ p # BestPrice(b, Other(s))

\* `best != nullptr && price <= best->key` (sell) / `price >= best->key` (buy)
Crosses(b, s, p) == HasBest(b, Other(s)) /\ Reaches(s, p, BestPrice(b, Other(s)))

\* LimitOrderBook::limit (limit_sell / limit_buy)
LimitResult(b, a, s, q, p) ==
    LET id      == b.sequence
        placed  == [b EXCEPT !.orders = (id :> [side |-> s, quantity |-> q,
                                                price |-> p, account |-> a]) @@ @]
        crosses == Crosses(b, s, p)
        swept   == Sweep(placed, placed.orders[id], <<>>)
        after   == [swept.book EXCEPT !.orders[id].quantity = swept.taker.quantity]
    IN  IF crosses /\ swept.taker.quantity = 0
        THEN [book |-> Erase(after, id), uid |-> 0, fills |-> swept.fills]
        ELSE LET pre == IF crosses THEN after ELSE placed
             IN  [book |-> [TreeLimit(pre, id) EXCEPT !.sequence = id + 1],
                  uid |-> id,
                  fills |-> IF crosses THEN swept.fills ELSE <<>>]

\* LimitOrderBook::market (market_sell / market_buy): an ephemeral order
MarketResult(b, a, s, q) ==
    LET swept == Sweep(b, [side |-> s, quantity |-> q, price |-> 0,
                           account |-> a], <<>>)
    IN  [book |-> swept.book, uid |-> 0, fills |-> swept.fills]

\* LimitOrderBook::cancel
CancelResult(b, id) == Erase(TreeCancel(b, id), id)

\* Mutant: reduce() forgets `sells.volume -= quantity` / `buys.volume -= quantity`.
ReduceResultKeepsSideVolume(b, id, q) ==
    LET o   == b.orders[id]
        red == [b EXCEPT !.orders[id].quantity = @ - q,
                         !.limitVolume[o.side][o.price] = @ - q]
    IN  IF o.quantity - q = 0 THEN Erase(TreeCancel(red, id), id) ELSE red

\* LimitOrderBook::reduce (precondition: quantity <= order quantity)
ReduceResult(b, id, q) ==
    LET o   == b.orders[id]
        red == [b EXCEPT !.orders[id].quantity = @ - q,
                         !.limitVolume[o.side][o.price] = @ - q,
                         !.volume[o.side] = @ - q]
    IN  IF o.quantity - q = 0 THEN Erase(TreeCancel(red, id), id) ELSE red

-----------------------------------------------------------------------------
(* The book driven directly through its public API.                        *)

Init ==
    LET b == EmptyBook(1) IN
    /\ orders = b.orders
    /\ queue = b.queue
    /\ limitVolume = b.limitVolume
    /\ volume = b.volume
    /\ sequence = b.sequence
    /\ shares = b.shares
    /\ capital = b.capital
    /\ accountOrders = b.accountOrders
    /\ fills = <<>>

Limit(a, s, q, p) ==
    /\ sequence <= MaxUID
    /\ LET r == LimitResult(Book, a, s, q, p) IN SetBook(r.book, r.fills)

Market(a, s, q) ==
    LET r == MarketResult(Book, a, s, q) IN SetBook(r.book, r.fills)

Cancel(id) ==
    /\ id \in DOMAIN orders        \* orders.at(order_id) throws otherwise
    /\ SetBook(CancelResult(Book, id), <<>>)

\* Mutant: reduce() without its `quantity > order.quantity` check.
ReduceUnchecked(id, q) ==
    /\ id \in DOMAIN orders
    /\ SetBook(ReduceResult(Book, id, q), <<>>)

Reduce(id, q) ==
    /\ id \in DOMAIN orders
    /\ q <= orders[id].quantity    \* the code throws otherwise
    /\ SetBook(ReduceResult(Book, id, q), <<>>)

Next ==
    \/ \E a \in Accounts, s \in Sides, q \in Quantities, p \in Prices :
          Limit(a, s, q, p)
    \/ \E a \in Accounts, s \in Sides, q \in Quantities : Market(a, s, q)
    \/ \E id \in DOMAIN orders : Cancel(id)
    \/ \E id \in DOMAIN orders, q \in Quantities : Reduce(id, q)

Spec == Init /\ [][Next]_vars

-----------------------------------------------------------------------------
(* Properties.                                                             *)

TypeOK ==
    /\ DOMAIN orders \subseteq 1..MaxUID
    /\ \A id \in DOMAIN orders : orders[id] \in OrderRec
    /\ \A s \in Sides, p \in Prices :
          [fifo |-> queue[s][p], volume |-> limitVolume[s][p]] \in LevelRec
    /\ volume \in [Sides -> Nat]
    /\ sequence \in 1..MaxUID + 1
    /\ shares \in [Accounts -> Int]
    /\ capital \in [Accounts -> Int]
    /\ accountOrders \in [Accounts -> SUBSET (1..MaxUID)]
    /\ \A i \in DOMAIN fills : fills[i] \in FillRec

QueueSum(os, sq) == FoldLeft(LAMBDA acc, id : acc + os[id].quantity, 0, sq)

\* Invariants 1-3 of the design, on a book value b: every live order sits
\* exactly once in the FIFO of its own side and price, every queued UID is
\* live, each level's volume is the sum of its orders' quantities and each
\* side's volume the sum of its levels' volumes (limit(), cancel(), reduce()
\* and the matching loop all update these incrementally).
Consistent(b) ==
    /\ \A s \in Sides, p \in Prices :
          /\ \A i \in DOMAIN b.queue[s][p] :
                LET id == b.queue[s][p][i] IN
                /\ id \in DOMAIN b.orders
                /\ b.orders[id].side = s /\ b.orders[id].price = p
                /\ \A j \in DOMAIN b.queue[s][p] : b.queue[s][p][j] = id => j = i
          /\ b.limitVolume[s][p] = QueueSum(b.orders, b.queue[s][p])
    /\ \A id \in DOMAIN b.orders :
          Contains(b.queue[b.orders[id].side][b.orders[id].price], id)
    /\ \A s \in Sides : b.volume[s] = FoldFunction(+, 0, b.limitVolume[s])

\* The order-entry book keeps invariants 1-3 through every operation.
BookConsistent == Consistent(Book)

\* Invariant 5: after every operation the book is not crossed (a limit order
\* whose price reaches the opposite best must have been matched).
NotCrossed ==
    HasBest(Book, "Buy") /\ HasBest(Book, "Sell")
        => BestPrice(Book, "Buy") < BestPrice(Book, "Sell")

\* Invariant 6: Account::orders is exactly the set of live orders the account
\* owns, whatever mix of fills, partial fills, cancels and reduces happened.
AccountOrdersMatchBook ==
    \A a \in Accounts :
        accountOrders[a] = {id \in DOMAIN orders : orders[id].account = a}

\* Invariant 7: every matched share and every matched dollar is booked on two
\* counterparties with opposite signs by the four Account callbacks.
Conservation ==
    /\ FoldFunction(+, 0, shares) = 0
    /\ FoldFunction(+, 0, capital) = 0

(* The refinement mapping: the UID map is the abstract book's set of      *)
(* resting orders, `sequence` its next UID, and the accounts' positions   *)
(* are kept as they are. The levels, FIFOs, volumes, best prices and     *)
(* Account::orders are implementation state with no abstract counterpart. *)
ABS == INSTANCE AbstractBook WITH live <- orders, next <- sequence

\* Price-time priority, as the abstract book states it: every step of the
\* book (the FIFO levels, the cached best price and the matching loop of
\* limit() and market(), and cancel() and reduce()) is a step of the
\* abstract book, which matches each taker against the reachable resting
\* order with the best price and then the smallest UID.
AbstractBookSpec == ABS!Spec

\* Design 3: an order exists until it is fully filled or canceled, so no
\* resting order has zero open quantity.
RestingOrdersHaveQuantity == \A id \in DOMAIN orders : orders[id].quantity > 0

=============================================================================
