----------------------------- MODULE OrderEntry -----------------------------
(***************************************************************************)
(* The order-entry server: TCP sessions (OrderEntry::Connection), the     *)
(* Authorizer and SystemAccounts, and the shared limit order book.  The    *)
(* trading Client at the other end is added by OrderEntryClient.           *)
(*                                                                         *)
(*   src/include/order_entry/connection.hpp      request handlers, logout, *)
(*                                               send / write_buffer pump  *)
(*   src/include/order_entry/system_account.hpp  trade reports (handler)   *)
(*   src/include/order_entry/authorizer.hpp      credential check          *)
(*   src/include/order_entry/messages.hpp        side conversions          *)
(*                                                                         *)
(* All handlers run on the single io_context thread, so each request      *)
(* handler is one atomic step; the interleaving that remains is the order *)
(* in which requests of different connections, and write completions,     *)
(* are run.                                                               *)
(* Sequence numbers stamped by send() are data no property reads and are  *)
(* left out.  Credentials are abstracted to "valid or not" for a username *)
(* that is an account.                                                     *)
(***************************************************************************)
EXTENDS Integers, Sequences, FiniteSets, SequencesExt, TLC

CONSTANTS
    Conns,       \* the TCP connections the acceptor creates (model values)
    Accounts,    \* the accounts of the Authorizer (model values)
    Prices,      \* limit prices a request may carry
    Quantities,  \* quantities a request may carry
    MaxUID,      \* bound on the book's UID counter
    MaxOut,      \* a client sends a request only with fewer undelivered responses
    WireSides,   \* side characters a request may carry ("B", "S", others)
    NoAccount,   \* Connection::account == nullptr
    NoConn       \* SystemAccount::handler == nullptr

ASSUME MaxOut \in Nat \ {0}

VARIABLES
    orders, queue, limitVolume, volume, sequence, shares, capital,
    accountOrders, fills,   \* the LimitOrderBook, see OrderBook
    account,      \* Connection::account
    handler,      \* SystemAccount::handler
    isConnected,  \* SystemAccount::is_connected
    open,         \* the connection's read loop is running (not yet EOF)
    out,          \* Connection::output_buffer
    outSize,      \* Connection::output_buffer_size
    writing,      \* an async_write of output_buffer.front() is in flight
    running       \* the io_context is still running

OB == INSTANCE OrderBook

bookVars == <<orders, queue, limitVolume, volume, sequence, shares, capital,
              accountOrders, fills>>
sessionVars == <<account, handler, isConnected>>
writeVars == <<out, outSize, writing>>
vars == <<bookVars, sessionVars, open, writeVars, running>>

-----------------------------------------------------------------------------
(* Messages (messages.hpp).  Statuses and reasons are their enum names.    *)

\* Mutant: the side character is passed to the book unconverted.
ToLOBSideUnconverted(ws) == ws

\* side_to_LOB_side: any character other than 'B' is a sell
ToLOBSide(ws) == IF ws = "B" THEN "Buy" ELSE "Sell"
\* bool_to_side
ToWireSide(s) == IF s = "Buy" THEN "B" ELSE "S"

LoginResponse(st) == [kind |-> "Login", status |-> st]
LogoutResponse(r) == [kind |-> "Logout", status |-> r]
OrderResponse(id, st) == [kind |-> "Order", id |-> id, status |-> st]
CancelResponse(id, st) == [kind |-> "Cancel", id |-> id, status |-> st]
ReplaceResponse(old, new, st) ==
    [kind |-> "Replace", canceled |-> old, id |-> new, status |-> st]
PurgeResponse(st) == [kind |-> "Purge", status |-> st]
TradeResponse(id, p, q, leaves, ws) ==
    [kind |-> "Trade", id |-> id, price |-> p, quantity |-> q,
     leaves |-> leaves, side |-> ws]

-----------------------------------------------------------------------------
(* Sending.  `box` maps each connection to the messages a step sends it,  *)
(* in order.  Connection::send appends and starts the write loop when the  *)
(* buffer size goes from 0 to 1.                                           *)

NoMail == [c \in Conns |-> <<>>]

Post(box, c, m) == [box EXCEPT ![c] = Append(@, m)]

\* Mutant: limit_partial reports `0` leaves, as limit_fill does.
TradeReportsPartialAsFill(box, fs) ==
    LET Report(b, f) ==
          LET mk == handler[f.makerAccount]
              tk == handler[f.takerAccount]
              b1 == IF mk = NoConn THEN b
                    ELSE Post(b, mk, TradeResponse(f.maker, f.price, f.quantity,
                                           0, ToWireSide(f.makerSide)))
          IN  IF tk = NoConn THEN b1
              ELSE Post(b1, tk, TradeResponse(0, f.price, f.quantity,
                                      f.takerLeaves, ToWireSide(f.takerSide)))
    IN  FoldLeft(Report, box, fs)

\* SystemAccount::limit_fill / limit_partial / market_fill / market_partial:
\* each reports to its account's handler, if any, maker first
TradeReports(box, fs) ==
    LET Report(b, f) ==
          LET mk == handler[f.makerAccount]
              tk == handler[f.takerAccount]
              b1 == IF mk = NoConn THEN b
                    ELSE Post(b, mk, TradeResponse(f.maker, f.price, f.quantity,
                                           f.makerLeaves, ToWireSide(f.makerSide)))
          IN  IF tk = NoConn THEN b1
              ELSE Post(b1, tk, TradeResponse(0, f.price, f.quantity,
                                      f.takerLeaves, ToWireSide(f.takerSide)))
    IN  FoldLeft(Report, box, fs)

\* Mutant: `if (output_buffer_size++ == 1)` starts the write loop one message late.
StartsWriteLate(c, box) == outSize[c] = 1 /\ Len(box[c]) > 0

\* `if (++output_buffer_size == 1) write_buffer();`
StartsWrite(c, box) == outSize[c] = 0 /\ Len(box[c]) > 0

Send(box) ==
    /\ out' = [c \in Conns |-> out[c] \o box[c]]
    /\ outSize' = [c \in Conns |-> outSize[c] + Len(box[c])]
    /\ writing' = [c \in Conns |-> writing[c] \/ StartsWrite(c, box)]

-----------------------------------------------------------------------------
(* Sessions.                                                               *)

\* Connection::logout
LogoutSession(c) ==
    IF account[c] = NoAccount
    THEN UNCHANGED <<account, handler, isConnected>>
    ELSE /\ isConnected' = [isConnected EXCEPT ![account[c]] = FALSE]
         /\ handler' = [handler EXCEPT ![account[c]] = NoConn]
         /\ account' = [account EXCEPT ![c] = NoAccount]

\* A request is read only from an open connection whose client is not
\* already MaxOut responses behind (the bound of the model).
CanRequest(c) == running /\ open[c] /\ Len(out[c]) < MaxOut

Reply(c, m) == Send(Post(NoMail, c, m))

\* Mutant: the `is_connected` test (SessionInUse) is left out.
LoginWithoutSessionCheck(c, u, valid) ==
    /\ CanRequest(c)
    /\ IF account[c] # NoAccount \/ ~valid
       THEN Reply(c, LoginResponse("NotAuthorized")) /\ UNCHANGED sessionVars
       ELSE /\ account' = [account EXCEPT ![c] = u]
            /\ handler' = [handler EXCEPT ![u] = c]
            /\ isConnected' = [isConnected EXCEPT ![u] = TRUE]
            /\ Reply(c, LoginResponse("Accepted"))
    /\ UNCHANGED <<bookVars, open, running>>

\* handle(LoginRequest); `valid` is Authorizer::is_valid(username, password)
Login(c, u, valid) ==
    /\ CanRequest(c)
    /\ IF account[c] # NoAccount
       THEN Reply(c, LoginResponse("AlreadyAuthorized"))
            /\ UNCHANGED sessionVars
       ELSE IF ~valid
       THEN Reply(c, LoginResponse("NotAuthorized"))
            /\ UNCHANGED sessionVars
       ELSE IF isConnected[u]
       THEN Reply(c, LoginResponse("SessionInUse"))
            /\ UNCHANGED sessionVars
       ELSE /\ account' = [account EXCEPT ![c] = u]
            /\ handler' = [handler EXCEPT ![u] = c]
            /\ isConnected' = [isConnected EXCEPT ![u] = TRUE]
            /\ Reply(c, LoginResponse("Accepted"))
    /\ UNCHANGED <<bookVars, open, running>>

\* handle(LogoutRequest)
Logout(c) ==
    /\ CanRequest(c)
    /\ IF account[c] = NoAccount
       THEN Reply(c, LogoutResponse("ProtocolViolation"))
            /\ UNCHANGED <<account, handler, isConnected>>
       ELSE LogoutSession(c) /\ Reply(c, LogoutResponse("UserRequested"))
    /\ UNCHANGED <<bookVars, open, running>>

\* handle(Header): an unknown message type.  The session is logged out and
\* told so, and the read loop (already re-armed) goes on.
BadMessage(c) ==
    /\ CanRequest(c)
    /\ LogoutSession(c)
    /\ Reply(c, LogoutResponse("ProtocolViolation"))
    /\ UNCHANGED <<bookVars, open, running>>

\* read_buffer completion with asio::error::eof: logout and stop reading.
\* A write already in flight is left to complete.
Eof(c) ==
    /\ running /\ open[c]
    /\ LogoutSession(c)
    /\ open' = [open EXCEPT ![c] = FALSE]
    /\ UNCHANGED <<bookVars, writeVars, running>>

\* Server::accept: a fresh Connection
Accept(c) ==
    /\ running /\ ~open[c] /\ ~writing[c] /\ out[c] = <<>>
    /\ open' = [open EXCEPT ![c] = TRUE]
    /\ outSize' = [outSize EXCEPT ![c] = 0]
    /\ UNCHANGED <<bookVars, sessionVars, out, writing, running>>

-----------------------------------------------------------------------------
(* Trading requests.  Each applies one LimitOrderBook operation (a result *)
(* operator of OrderBook), then sends the trade reports its Account        *)
(* callbacks produced and finally the response.                            *)


\* username.compare(account->username) == 0; usernames are unique
\* (Authorizer::new_user throws on a duplicate), so this is account identity
Owns(c, id) == orders[id].account = account[c]

\* handle(OrderRequest): price 0 is a market order
Order(c, ws, q, p) ==
    /\ CanRequest(c)
    /\ IF account[c] = NoAccount
       THEN UNCHANGED bookVars /\ Reply(c, OrderResponse(0, "Rejected"))
       ELSE LET r == IF p = 0
                     THEN OB!MarketResult(OB!Book, account[c], ToLOBSide(ws), q)
                     ELSE OB!LimitResult(OB!Book, account[c], ToLOBSide(ws), q, p)
            IN  /\ p # 0 => sequence <= MaxUID
                /\ OB!SetBook(r.book, r.fills)
                /\ Send(Post(TradeReports(NoMail, r.fills), c,
                             OrderResponse(r.uid, "Accepted")))
    /\ UNCHANGED <<sessionVars, open, running>>

\* Mutant: the cancel handler's ownership early return is missing.
CancelAllowedUnowned(c, id) == account[c] # NoAccount /\ id \in DOMAIN orders

\* the early returns of handle(CancelRequest): not logged in, unknown order
\* and foreign order are all rejected without touching the book
CancelAllowed(c, id) ==
    account[c] # NoAccount /\ id \in DOMAIN orders /\ Owns(c, id)

Cancel(c, id) ==
    /\ CanRequest(c)
    /\ IF CancelAllowed(c, id)
       THEN /\ OB!SetBook(OB!CancelResult(OB!Book, id), <<>>)
            /\ Reply(c, CancelResponse(id, "Accepted"))
       ELSE UNCHANGED bookVars /\ Reply(c, CancelResponse(id, "Rejected"))
    /\ UNCHANGED <<sessionVars, open, running>>

\* handle(ReplaceRequest): cancel the order if it still exists, then switch
\* on the side character: only 'S' and 'B' place the new limit order
Replace(c, id, ws, q, p) ==
    /\ CanRequest(c)
    /\ IF account[c] = NoAccount \/ (id \in DOMAIN orders /\ ~Owns(c, id))
       THEN UNCHANGED bookVars /\ Reply(c, ReplaceResponse(id, 0, "Rejected"))
       ELSE LET live == id \in DOMAIN orders
                b1 == IF live THEN OB!CancelResult(OB!Book, id) ELSE OB!Book
                r == IF ws \in {"S", "B"}
                     THEN OB!LimitResult(b1, account[c], ToLOBSide(ws), q, p)
                     ELSE [book |-> b1, uid |-> 0, fills |-> <<>>]
            IN  /\ sequence <= MaxUID
                /\ OB!SetBook(r.book, r.fills)
                /\ Send(Post(TradeReports(NoMail, r.fills), c,
                             ReplaceResponse(IF live THEN id ELSE 0, r.uid,
                                             "Accepted")))
    /\ UNCHANGED <<sessionVars, open, running>>

\* `while (account->orders.size()) book.cancel((*account->orders.begin())->uid);`
RECURSIVE PurgeLoop(_, _)
PurgeLoop(b, a) ==
    IF b.accountOrders[a] = {} THEN b
    ELSE PurgeLoop(OB!CancelResult(b, CHOOSE id \in b.accountOrders[a] : TRUE), a)

\* handle(PurgeRequest)
Purge(c) ==
    /\ CanRequest(c)
    /\ IF account[c] = NoAccount
       THEN UNCHANGED bookVars /\ Reply(c, PurgeResponse("Rejected"))
       ELSE /\ OB!SetBook(PurgeLoop(OB!Book, account[c]), <<>>)
            /\ Reply(c, PurgeResponse("Accepted"))
    /\ UNCHANGED <<sessionVars, open, running>>

-----------------------------------------------------------------------------
(* The write loop.                                                         *)

\* write_buffer completion: the head of output_buffer has been written;
\* `output_buffer.pop_front(); if (--output_buffer_size) write_buffer();`
Deliver(c) ==
    /\ running /\ writing[c]
    /\ out' = [out EXCEPT ![c] = Tail(@)]
    /\ outSize' = [outSize EXCEPT ![c] = @ - 1]
    /\ writing' = [writing EXCEPT ![c] = outSize[c] - 1 # 0]
    /\ UNCHANGED <<bookVars, sessionVars, open, running>>

-----------------------------------------------------------------------------
(* Transport errors (each added by its own specification).                 *)

\* read_buffer completion with an error other than eof: the Exception thrown
\* in the handler escapes io_context::run and ends the process
TransportError(c) ==
    /\ running /\ open[c]
    /\ running' = FALSE
    /\ UNCHANGED <<bookVars, sessionVars, open, writeVars>>

\* write_buffer completion with an error: return without pop or decrement
WriteError(c) ==
    /\ running /\ writing[c]
    /\ writing' = [writing EXCEPT ![c] = FALSE]
    /\ UNCHANGED <<bookVars, sessionVars, open, out, outSize, running>>

-----------------------------------------------------------------------------

Init ==
    /\ OB!Init
    /\ account = [c \in Conns |-> NoAccount]
    /\ handler = [a \in Accounts |-> NoConn]
    /\ isConnected = [a \in Accounts |-> FALSE]
    /\ open = [c \in Conns |-> TRUE]
    /\ out = [c \in Conns |-> <<>>]
    /\ outSize = [c \in Conns |-> 0]
    /\ writing = [c \in Conns |-> FALSE]
    /\ running = TRUE

\* The requests of messages.hpp, with the fields their handlers read.  A
\* password is the account's or another one; price 0 is a market order.
LoginRequest == [username : Accounts, password : {"correct", "wrong"}]
OrderRequest == [side : WireSides, quantity : Quantities, price : {0} \cup Prices]
CancelRequest == [order_id : 1..MaxUID]
ReplaceRequest ==
    [order_id : 1..MaxUID, side : WireSides, quantity : Quantities, price : Prices]

\* Authorizer::is_valid: the username exists and the password matches
IsValid(r) == r.password = "correct"

\* the requests a client sends that keep it logged in
TradingRequest(c) ==
    \/ \E r \in LoginRequest : Login(c, r.username, IsValid(r))
    \/ \E r \in OrderRequest : Order(c, r.side, r.quantity, r.price)
    \/ \E r \in CancelRequest : Cancel(c, r.order_id)
    \/ \E r \in ReplaceRequest :
          Replace(c, r.order_id, r.side, r.quantity, r.price)
    \/ Purge(c)

\* the requests and events that end a session
SessionEnd(c) == Logout(c) \/ BadMessage(c) \/ Eof(c)

Next ==
    \E c \in Conns :
        TradingRequest(c) \/ SessionEnd(c) \/ Accept(c) \/ Deliver(c)

NextWithTransportError == Next \/ \E c \in Conns : TransportError(c)

NextWithWriteError == Next \/ \E c \in Conns : WriteError(c)

\* The io_context runs every completed write; the client's read loop is
\* always re-armed, so a write in flight keeps being completable.
Fairness == \A c \in Conns : WF_vars(Deliver(c))

Spec == Init /\ [][Next]_vars /\ Fairness

SpecWithTransportError == Init /\ [][NextWithTransportError]_vars /\ Fairness

SpecWithWriteError == Init /\ [][NextWithWriteError]_vars /\ Fairness

-----------------------------------------------------------------------------
(* Properties.                                                             *)

Msg == [kind : {"Login", "Logout", "Purge"}, status : STRING]
         \cup [kind : {"Order", "Cancel"}, id : Nat, status : STRING]
         \cup [kind : {"Replace"}, canceled : Nat, id : Nat, status : STRING]
         \cup [kind : {"Trade"}, id : Nat, price : Nat, quantity : Nat,
               leaves : Nat, side : {"B", "S"}]

TypeOK ==
    /\ OB!TypeOK
    /\ account \in [Conns -> Accounts \cup {NoAccount}]
    /\ handler \in [Accounts -> Conns \cup {NoConn}]
    /\ isConnected \in [Accounts -> BOOLEAN]
    /\ open \in [Conns -> BOOLEAN]
    /\ out \in [Conns -> Seq(Msg)]
    /\ outSize \in [Conns -> Nat]
    /\ writing \in [Conns -> BOOLEAN]
    /\ running \in BOOLEAN

\* Connection::account, SystemAccount::handler and is_connected stay one
\* binding: an account is connected exactly when it has a handler, that
\* handler's connection is logged into it and still reading, and a logged-in
\* connection is its account's handler (so at most one session per account,
\* and trade reports go to the session that is logged in).  Login, logout,
\* the framing-error path and EOF all have to keep the three in step.
SessionBinding ==
    /\ \A a \in Accounts :
          /\ isConnected[a] <=> handler[a] # NoConn
          /\ handler[a] # NoConn => account[handler[a]] = a
    /\ \A c \in Conns :
          account[c] # NoAccount => handler[account[c]] = c /\ open[c]

\* the messages a step appends to the output buffer of c
Sent(c) == {out'[c][i] : i \in Len(out[c]) + 1 .. Len(out'[c])}

\* An order leaves the book only by being filled or at the request of a
\* session of the account that owns it: in every step that removes an
\* order without filling it, the session whose request removed it (the one
\* the step answers with an accepted Cancel, Replace or Purge) is logged into
\* the owner's account.  A session of another account is rejected by the
\* username test of handle(CancelRequest) and handle(ReplaceRequest),
\* whether or not the owner is logged in at the same time.
OnlyOwnerRemovesOrders ==
    [][\A id \in DOMAIN orders \ DOMAIN orders' :
          \/ \E i \in DOMAIN fills' : fills'[i].maker = id /\ fills'[i].makerLeaves = 0
          \/ \E c \in Conns :
                /\ account[c] = orders[id].account
                /\ \E m \in Sent(c) : m.kind \in {"Cancel", "Replace", "Purge"}
                                     /\ m.status = "Accepted"]_vars

\* The book behind the request handlers changes only by the operations the
\* order-entry API promises, each one step of AbstractBook: a limit or a
\* market order (price 0), a cancel, a replace that removes the old order
\* and places the new one atomically, and a purge that removes every order
\* of the account at once.  Logins, logouts, rejections and the write loop
\* leave it alone.
AbstractBookSpec == OB!AbstractBookSpec

\* Every response queued for a client is eventually written to it: the
\* write loop started by send() keeps running until output_buffer is empty.
ResponsesDelivered == \A c \in Conns : (out[c] # <<>>) ~> (out[c] = <<>>)

\* A replace is "cancel the order and enter the new one" (handle(ReplaceRequest)):
\* an accepted ReplaceResponse that canceled an order names the new order's
\* UID, or the new order traded away on entry (its fills were reported).
ReplaceIsCancelAndNew ==
    [][\A c \in Conns : \A m \in Sent(c) :
          (m.kind = "Replace" /\ m.status = "Accepted" /\ m.canceled # 0)
              => m.id # 0 \/ fills' # <<>>]_vars

====
