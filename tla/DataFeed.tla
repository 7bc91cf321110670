------------------------------ MODULE DataFeed ------------------------------
(***************************************************************************)
(* The market-data feed: the venue's order book publishes its events via   *)
(* the multicast DataFeed::Sender; the ServerCLI publishes the session     *)
(* boundaries; a DataFeed::Receiver rebuilds a mirror book from the        *)
(* datagrams it receives.                                                  *)
(*                                                                         *)
(*   src/include/data_feed/sender.hpp                                      *)
(*   src/include/data_feed/receiver.hpp                                    *)
(*   src/include/data_feed/limit_order_book/limit_order_book.hpp           *)
(*   src/include/data_feed/messages.hpp                                    *)
(*   src/include/order_entry/handlers/server_cli.hpp                       *)
(*                                                                         *)
(* Which events the book publishes is decided in limit_tree.hpp, outside   *)
(* the source tree: one Trade per fill (maker UID, price, quantity), then  *)
(* an AddOrder for the part of a limit order that rests, and a DeleteOrder *)
(* per cancel (design 4.7).  Those operators are spec_modelled.            *)
(*                                                                         *)
(* The venue and the subscriber each run one io_context thread, and the    *)
(* CLI is an asio stream on the venue's context, so every handler is one   *)
(* atomic step.  UDP is modelled as a sequence of datagrams in flight;     *)
(* the specifications with loss and with duplication add one network      *)
(* action each.  Accounts play no part in the feed: the book is driven     *)
(* through one account.                                                    *)
(***************************************************************************)
EXTENDS Integers, Sequences, FiniteSets, SequencesExt, TLC

CONSTANTS
    Accounts, Prices, Quantities, MaxUID,
    MaxSeq,        \* the CLI sends no more once the feed sequence passes it
    MaxInFlight    \* a duplicating network holds at most this many datagrams

ASSUME MaxSeq \in Nat /\ MaxInFlight \in Nat

VARIABLES
    orders, queue, limitVolume, volume, sequence, shares, capital,
    accountOrders, fills,           \* the venue's book (OrderBook)
    cliActive,   \* ServerCLI::is_session_active
    pubSeq,      \* Sender::sequence, the number stamped on the next packet
    outbox,      \* Sender::output_buffer (output_buffer_size is its length)
    sending,     \* a send_message() completion is pending
    net,         \* datagrams sent and not yet received
    lastSeq,     \* Receiver::last_sequence
    mirror,      \* Receiver::book, the DataFeed::LOB::LimitOrderBook
    rxActive,    \* Receiver::_is_session_active
    rxFailed     \* an exception escaped the receiver's io_context

OB == INSTANCE OrderBook

bookVars == <<orders, queue, limitVolume, volume, sequence, shares, capital,
              accountOrders, fills>>
senderVars == <<pubSeq, outbox, sending>>
vars == <<bookVars, cliActive, senderVars, net, lastSeq, mirror,
          rxActive, rxFailed>>

\* the book is driven through one account; the feed carries no account
FeedAccount == CHOOSE a \in Accounts : TRUE

WireSides == {"B", "S"}
Kinds == {"Start", "End", "Add", "Delete", "Trade"}
Packet == [kind : Kinds, seq : Nat, uid : Nat, price : Nat, quantity : Nat,
           side : WireSides]

\* Messages::side_to_LOB_side: 'B' is a buy, every other byte a sell
ToLOBSide(ws) == IF ws = "B" THEN "Buy" ELSE "Sell"

\* Mutant: bool_to_side subtracts one too many ('S' - ('S' - 'A')) for a buy.
ToWireSideOffByOne(s) == IF s = "Buy" THEN "A" ELSE "S"

\* Messages::bool_to_side
ToWireSide(s) == IF s = "Buy" THEN "B" ELSE "S"

\* The messages of the feed (messages.hpp), before Sender::send stamps their
\* sequence number; fields a message does not carry are 0 / "B".
AddOrder(id, p, q, s) ==
    [kind |-> "Add", seq |-> 0, uid |-> id, price |-> p, quantity |-> q, side |-> s]
DeleteOrder(id) ==
    [kind |-> "Delete", seq |-> 0, uid |-> id, price |-> 0, quantity |-> 0, side |-> "B"]
Trade(id, p, q, s) ==
    [kind |-> "Trade", seq |-> 0, uid |-> id, price |-> p, quantity |-> q, side |-> s]
StartOfSessionMsg ==
    [kind |-> "Start", seq |-> 0, uid |-> 0, price |-> 0, quantity |-> 0, side |-> "B"]
EndOfSessionMsg ==
    [kind |-> "End", seq |-> 0, uid |-> 0, price |-> 0, quantity |-> 0, side |-> "B"]

-----------------------------------------------------------------------------
(* What the book publishes (LimitTree, spec_modelled).                     *)

TradeEvents(fs) ==
    [i \in DOMAIN fs |-> Trade(fs[i].maker, fs[i].price, fs[i].quantity,
                           ToWireSide(fs[i].makerSide))]

AddEvent(b, id) ==
    <<AddOrder(id, b.orders[id].price, b.orders[id].quantity,
              ToWireSide(b.orders[id].side))>>

\* Sender::send: stamp `sequence++` on each message and queue it; the
\* message that makes `++output_buffer_size == 1` starts send_message()
Publish(ms) ==
    /\ outbox' = outbox \o [i \in DOMAIN ms |-> [ms[i] EXCEPT !.seq = pubSeq + i - 1]]
    /\ pubSeq' = pubSeq + Len(ms)
    /\ sending' = (sending \/ (outbox = <<>> /\ ms # <<>>))

-----------------------------------------------------------------------------
(* The venue: book operations and the CLI.                                 *)

feedVars == <<net, lastSeq, mirror, rxActive, rxFailed>>

Limit(s, q, p) ==
    /\ sequence <= MaxUID
    /\ LET r == OB!LimitResult(OB!Book, FeedAccount, s, q, p) IN
       /\ OB!SetBook(r.book, r.fills)
       /\ Publish(TradeEvents(r.fills) \o
                  (IF r.uid # 0 THEN AddEvent(r.book, r.uid) ELSE <<>>))
    /\ UNCHANGED <<cliActive, feedVars>>

Market(s, q) ==
    LET r == OB!MarketResult(OB!Book, FeedAccount, s, q) IN
    /\ OB!SetBook(r.book, r.fills)
    /\ Publish(TradeEvents(r.fills))
    /\ UNCHANGED <<cliActive, feedVars>>

Cancel(id) ==
    /\ id \in DOMAIN orders
    /\ OB!SetBook(OB!CancelResult(OB!Book, id), <<>>)
    /\ Publish(<<DeleteOrder(id)>>)
    /\ UNCHANGED <<cliActive, feedVars>>

\* ServerCLI::start_of_session ("session already active" only prints)
StartOfSession ==
    /\ pubSeq <= MaxSeq
    /\ ~cliActive
    /\ Publish(<<StartOfSessionMsg>>)
    /\ cliActive' = TRUE
    /\ UNCHANGED <<bookVars, feedVars>>

\* Mutant: end_of_session forgets `is_session_active = false`.
EndOfSessionKeepsFlag ==
    /\ pubSeq <= MaxSeq
    /\ cliActive
    /\ Publish(<<EndOfSessionMsg>>)
    /\ UNCHANGED <<cliActive, bookVars, feedVars>>

\* ServerCLI::end_of_session ("session not active" only prints)
EndOfSession ==
    /\ pubSeq <= MaxSeq
    /\ cliActive
    /\ Publish(<<EndOfSessionMsg>>)
    /\ cliActive' = FALSE
    /\ UNCHANGED <<bookVars, feedVars>>

\* Mutant: the completion handler does not call send_message() again.
SendDoneNoRearm ==
    /\ sending
    /\ net' = Append(net, Head(outbox))
    /\ outbox' = Tail(outbox)
    /\ sending' = FALSE
    /\ UNCHANGED <<bookVars, cliActive, pubSeq, lastSeq, mirror, rxActive,
                   rxFailed>>

\* the completion of Sender::send_message: the datagram leaves the host, is
\* popped, and `if (--output_buffer_size) send_message()` keeps the loop on
SendDone ==
    /\ sending
    /\ net' = Append(net, Head(outbox))
    /\ outbox' = Tail(outbox)
    /\ sending' = (Len(outbox) > 1)
    /\ UNCHANGED <<bookVars, cliActive, pubSeq, lastSeq, mirror, rxActive,
                   rxFailed>>

-----------------------------------------------------------------------------
(* The subscriber's mirror book: DataFeed::LOB::LimitOrderBook, the same   *)
(* LimitTree without account callbacks, keyed by the UIDs on the wire.     *)
(* The book value of OrderBook is reused; its account fields stay those of *)
(* FeedAccount and nothing reads them.                                     *)

\* DataFeed::LOB::Order: side, quantity and price under its uid, with no
\* account (the mirror's orders all carry FeedAccount).
MirrorOrder == [side : OB!Sides, quantity : Nat, price : Prices,
                account : {FeedAccount}]
\* DataFeed::LOB::Limit: a price level's FIFO of orders and its volume
MirrorLevel == [fifo : Seq(1..MaxUID), volume : Nat]

\* LimitOrderBook(): empty trees and UID map
MirrorInit == OB!EmptyBook(1)

\* LimitOrderBook::has
MirrorHas(mb, id) == id \in DOMAIN mb.orders

\* limit_sell / limit_buy: `orders.emplace` leaves an existing entry in
\* place; the crossing test and `sells.limit(&orders.at(order_id))` then use
\* whichever order the map holds under that UID.
MirrorLimit(mb, s, id, q, p) ==
    LET placed  == [mb EXCEPT !.orders = @ @@ (id :> [side |-> s, quantity |-> q,
                                                      price |-> p,
                                                      account |-> FeedAccount])]
        crosses == OB!Crosses(mb, s, p)
        swept   == OB!Sweep(placed, placed.orders[id], <<>>)
        after   == [swept.book EXCEPT !.orders[id].quantity = swept.taker.quantity]
    IN  IF crosses /\ swept.taker.quantity = 0
        THEN OB!Erase(after, id)
        ELSE OB!TreeLimit(IF crosses THEN after ELSE placed, id)

\* LimitOrderBook::cancel
MirrorCancel(mb, id) == OB!CancelResult(mb, id)

\* Mutant: reduce() forgets `sells.volume -= quantity` / `buys.volume -= quantity`.
MirrorReduceKeepsSideVolume(mb, id, q) == OB!ReduceResultKeepsSideVolume(mb, id, q)

\* LimitOrderBook::reduce, past its `quantity > order->quantity` throw
MirrorReduce(mb, id, q) == OB!ReduceResult(mb, id, q)

-----------------------------------------------------------------------------
(* The subscriber: Receiver::read_message and the handlers it dispatches   *)
(* to.  The sequence check only logs: last_sequence ends equal to the      *)
(* packet's number whether or not it was the expected one, and the packet  *)
(* is handled either way.                                                  *)

StartHandler(m) ==
    /\ m.kind = "Start"
    /\ rxActive' = TRUE
    /\ UNCHANGED <<mirror, rxFailed>>

EndHandler(m) ==
    /\ m.kind = "End"
    /\ rxActive' = FALSE
    /\ UNCHANGED <<mirror, rxFailed>>

AddHandler(m) ==
    /\ m.kind = "Add"
    /\ mirror' = MirrorLimit(mirror, ToLOBSide(m.side), m.uid, m.quantity, m.price)
    /\ UNCHANGED <<rxActive, rxFailed>>

\* a delete for an unknown UID is logged and dropped
DeleteHandler(m) ==
    /\ m.kind = "Delete"
    /\ mirror' = IF MirrorHas(mirror, m.uid) THEN MirrorCancel(mirror, m.uid)
                 ELSE mirror
    /\ UNCHANGED <<rxActive, rxFailed>>

\* a trade for an unknown UID is logged and dropped; reduce() throws a
\* std::string when the trade exceeds the order's open quantity, which no
\* `catch (std::exception&)` of the subscriber programs catches
TradeHandler(m) ==
    /\ m.kind = "Trade"
    /\ IF ~MirrorHas(mirror, m.uid)
       THEN UNCHANGED <<mirror, rxFailed>>
       ELSE IF m.quantity > mirror.orders[m.uid].quantity
       THEN rxFailed' = TRUE /\ UNCHANGED mirror
       ELSE mirror' = MirrorReduce(mirror, m.uid, m.quantity) /\ UNCHANGED rxFailed
    /\ UNCHANGED rxActive

Receive ==
    /\ ~rxFailed
    /\ net # <<>>
    /\ LET m == Head(net) IN
       /\ lastSeq' = m.seq
       /\ net' = Tail(net)
       /\ \/ StartHandler(m) \/ EndHandler(m) \/ AddHandler(m)
          \/ DeleteHandler(m) \/ TradeHandler(m)
    /\ UNCHANGED <<bookVars, cliActive, senderVars>>

-----------------------------------------------------------------------------
(* UDP faults.                                                             *)

netOnly == <<bookVars, cliActive, senderVars, lastSeq, mirror, rxActive,
             rxFailed>>

Lose(i) ==
    /\ net' = RemoveAt(net, i)
    /\ UNCHANGED netOnly

Duplicate(i) ==
    /\ Len(net) < MaxInFlight
    /\ net' = InsertAt(net, i, net[i])
    /\ UNCHANGED netOnly

-----------------------------------------------------------------------------

Init ==
    /\ OB!Init
    /\ cliActive = FALSE
    /\ pubSeq = 1
    /\ outbox = <<>>
    /\ sending = FALSE
    /\ net = <<>>
    /\ lastSeq = 0
    /\ mirror = MirrorInit
    /\ rxActive = FALSE
    /\ rxFailed = FALSE

Next ==
    \/ \E s \in OB!Sides, q \in Quantities, p \in Prices : Limit(s, q, p)
    \/ \E s \in OB!Sides, q \in Quantities : Market(s, q)
    \/ \E id \in DOMAIN orders : Cancel(id)
    \/ StartOfSession \/ EndOfSession
    \/ SendDone \/ Receive

NextWithLoss == Next \/ \E i \in DOMAIN net : Lose(i)
NextWithDuplication == Next \/ \E i \in DOMAIN net : Duplicate(i)

Spec == Init /\ [][Next]_vars

\* Both io_contexts run every completion they are handed: a pending
\* async_send_to completes, and the receiver, whose async_receive_from is
\* re-armed before each handler runs, takes the next datagram in flight.
FairSpec == Spec /\ WF_vars(SendDone) /\ WF_vars(Receive)
SpecWithLoss == Init /\ [][NextWithLoss]_vars
SpecWithDuplication == Init /\ [][NextWithDuplication]_vars

-----------------------------------------------------------------------------
(* Properties.                                                             *)

TypeOK ==
    /\ OB!TypeOK
    /\ cliActive \in BOOLEAN /\ rxActive \in BOOLEAN /\ rxFailed \in BOOLEAN
    /\ pubSeq \in Nat \ {0} /\ lastSeq \in Nat
    /\ outbox \in Seq(Packet) /\ net \in Seq(Packet) /\ sending \in BOOLEAN
    /\ \A id \in DOMAIN mirror.orders : mirror.orders[id] \in MirrorOrder
    /\ \A sd \in OB!Sides, p \in Prices :
          [fifo |-> mirror.queue[sd][p], volume |-> mirror.limitVolume[sd][p]]
              \in MirrorLevel

\* Once every packet the venue published has been received over a network
\* that neither loses, duplicates nor reorders, the subscriber's book is the
\* venue's book (same orders, same FIFOs, same volumes), its session flag
\* is the CLI's and its last sequence number is the last one sent: the
\* Trade/AddOrder/DeleteOrder stream of LimitTree together with the
\* receiver's handlers reproduces every limit, market and cancel.
MirrorMatchesBook ==
    outbox = <<>> /\ net = <<>> =>
        /\ mirror.orders = orders
        /\ mirror.queue = queue
        /\ mirror.limitVolume = limitVolume
        /\ mirror.volume = volume
        /\ rxActive = cliActive
        /\ lastSeq = pubSeq - 1

\* Invariants 1-3 of the design hold for the mirror too, after every packet
\* the receiver handles (the handlers drive DataFeed::LOB::LimitOrderBook).
MirrorConsistent == OB!Consistent(mirror)

\* Design 7: a feed sequence gap is logged and tolerated; the subscriber
\* keeps applying later packets.  No datagram the network delivers makes an
\* exception escape the receiver.
ReceiverSurvivesFeed == ~rxFailed

\* Every datagram the venue publishes is eventually handled by the
\* subscriber: Sender::send starts the write loop on an empty buffer and
\* each completion restarts it while output_buffer_size is not 0, so no
\* packet is left in output_buffer, and the receiver re-arms its read
\* before handling.  Checked for the packet numbers up to MaxSeq.
PublishedIsReceived ==
    \A n \in 1..MaxSeq : (pubSeq > n) ~> (lastSeq >= n)

====
