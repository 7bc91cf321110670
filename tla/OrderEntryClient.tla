-------------------------- MODULE OrderEntryClient --------------------------
(***************************************************************************)
(* The order-entry server (OrderEntry) composed with the trading Client at *)
(* the other end of each connection (src/include/order_entry/client.hpp). *)
(* The client reads its socket in order; a write completion of the server *)
(* hands it the message, which it handles in the same step (TCP is        *)
(* reliable and ordered, and nothing else observes the bytes in between). *)
(* Its requests are the server's request handlers; what it sends is left  *)
(* open, as the strategies built on it choose.                            *)
(***************************************************************************)
EXTENDS Integers, Sequences, FiniteSets, TLC

CONSTANTS Conns, Accounts, Prices, Quantities, MaxUID, MaxOut, WireSides,
          NoAccount, NoConn,
          ShareBits    \* width of ClientShares (int32_t in the code)

VARIABLES
    orders, queue, limitVolume, volume, sequence, shares, capital,
    accountOrders, fills, account, handler, isConnected, open, out, outSize,
    writing, running,   \* the server, see OrderEntry
    clientAuth,   \* Client::is_authorized
    active,       \* Client::active_orders
    cShares,      \* Client::shares
    cCapital      \* Client::capital

OE == INSTANCE OrderEntry

clientVars == <<clientAuth, active, cShares, cCapital>>
vars == <<OE!vars, clientVars>>

-----------------------------------------------------------------------------

\* handle(LoginResponse) / handle(LogoutResponse)
AuthAfter(auth, m) ==
    CASE m.kind = "Login"  -> m.status \in {"Accepted", "AlreadyAuthorized"}
      [] m.kind = "Logout" -> FALSE
      [] OTHER             -> auth

\* Mutant: handle(OrderResponse) without `if (response.order_id == 0) return;`
ActiveAfterKeepsMarketId(S, m) ==
    CASE m.kind = "Logout" -> {}
      [] m.kind = "Login"  -> S
      [] m.kind = "Trade"  -> IF m.id # 0 /\ m.leaves = 0 THEN S \ {m.id} ELSE S
      [] m.status = "Rejected" -> S
      [] m.kind = "Order"  -> S \cup {m.id}
      [] m.kind = "Cancel" -> S \ {m.id}
      [] m.kind = "Replace" ->
            (IF m.canceled # 0 THEN S \ {m.canceled} ELSE S)
              \cup (IF m.id # 0 THEN {m.id} ELSE {})
      [] m.kind = "Purge"  -> {}

\* the updates of Client::active_orders by each handle()
ActiveAfter(S, m) ==
    CASE m.kind = "Logout" -> {}
      [] m.kind = "Login"  -> S
      [] m.kind = "Trade"  -> IF m.id # 0 /\ m.leaves = 0 THEN S \ {m.id} ELSE S
      [] m.status = "Rejected" -> S
      [] m.kind = "Order"  -> IF m.id = 0 THEN S ELSE S \cup {m.id}
      [] m.kind = "Cancel" -> S \ {m.id}
      [] m.kind = "Replace" ->
            (IF m.canceled # 0 THEN S \ {m.canceled} ELSE S)
              \cup (IF m.id # 0 THEN {m.id} ELSE {})
      [] m.kind = "Purge"  -> {}

\* handle(TradeResponse): a sell gives shares away, a buy receives them
TradeSign(m) == IF m.side = "S" THEN -1 ELSE 1

\* Mutant: the client's shares are as wide as the account's int64 Shares.
ToClientSharesUnbounded(x) == x

\* x as a two's-complement ClientShares of ShareBits bits
ToClientShares(x) == ((x + 2^(ShareBits - 1)) % 2^ShareBits) - 2^(ShareBits - 1)

\* Client::read_buffer completion: handle the next message of the socket.
\* A client that has closed its socket reads nothing.
ClientRead(c) ==
    LET m == Head(out[c]) IN
    IF ~open[c] THEN UNCHANGED clientVars
    ELSE /\ clientAuth' = [clientAuth EXCEPT ![c] = AuthAfter(@, m)]
         /\ active' = [active EXCEPT ![c] = ActiveAfter(@, m)]
         /\ cShares' = [cShares EXCEPT ![c] =
                          IF m.kind = "Trade"
                          THEN ToClientShares(@ + TradeSign(m) * m.quantity) ELSE @]
         /\ cCapital' = [cCapital EXCEPT ![c] =
                          IF m.kind = "Trade" THEN @ - TradeSign(m) * m.quantity * m.price
                          ELSE @]

\* the Client's members as constructed
ClientReset(c) ==
    /\ clientAuth' = [clientAuth EXCEPT ![c] = FALSE]
    /\ active' = [active EXCEPT ![c] = {}]
    /\ cShares' = [cShares EXCEPT ![c] = 0]
    /\ cCapital' = [cCapital EXCEPT ![c] = 0]

Init ==
    /\ OE!Init
    /\ clientAuth = [c \in Conns |-> FALSE]
    /\ active = [c \in Conns |-> {}]
    /\ cShares = [c \in Conns |-> 0]
    /\ cCapital = [c \in Conns |-> 0]

\* Client::send: the request is queued, written by write_buffer and handled
\* by the server's read loop, as one step; the client's own view changes
\* only when the responses come back.
ClientSend(c) == OE!TradingRequest(c) /\ UNCHANGED clientVars

\* Clients that log in and trade, and never end their session.
Next ==
    \E c \in Conns :
        \/ ClientSend(c)
        \/ OE!Deliver(c) /\ ClientRead(c)

\* Clients that also log out, break the framing or close the socket, and
\* new connections that replace closed ones.
NextWithSessionEnd ==
    \/ Next
    \/ \E c \in Conns :
          \/ (OE!Logout(c) \/ OE!BadMessage(c)) /\ UNCHANGED clientVars
          \/ OE!Eof(c) /\ ClientReset(c)
          \/ OE!Accept(c) /\ UNCHANGED clientVars

Spec == Init /\ [][Next]_vars

SpecWithSessionEnd == Init /\ [][NextWithSessionEnd]_vars

-----------------------------------------------------------------------------

TypeOK ==
    /\ OE!TypeOK
    /\ clientAuth \in [Conns -> BOOLEAN]
    /\ active \in [Conns -> SUBSET (1..MaxUID)]
    /\ cShares \in [Conns -> -(2^(ShareBits - 1))..2^(ShareBits - 1) - 1]
    /\ cCapital \in [Conns -> Int]

\* A logged-in client that has read every response its session was sent
\* holds the server's view of its account: it believes it is logged in,
\* its active_orders are the account's resting orders, its capital is the
\* account's, and its int32 shares equal the account's int64 Shares modulo
\* 2^32 (a position past 2^31 shares wraps in the client).  This ties
\* every response of the Connection handlers, and the trade reports of
\* SystemAccount (ids, quantities, leaves, sides), to what the book did.
ClientMirrorsAccount ==
    \A c \in Conns :
        (account[c] # NoAccount /\ out[c] = <<>>)
            => /\ clientAuth[c]
               /\ active[c] = accountOrders[account[c]]
               /\ (cShares[c] - shares[account[c]]) % 2^ShareBits = 0
               /\ cCapital[c] = capital[account[c]]

====
