---------------------------- MODULE AbstractBook ----------------------------
(***************************************************************************)
(* What the limit order book promises, with no price levels, FIFOs,       *)
(* volumes or cached best pointer: a book is the set of resting orders,   *)
(* keyed by UID, and the matching rule is price-time priority stated       *)
(* directly. A taker trades against the resting order of the other side    *)
(* that reaches its price and is ahead of every other such order: a better *)
(* price, or the same price and an older (smaller) UID. Each trade is at   *)
(* the maker's price for the smaller of the two open quantities and is     *)
(* booked on both accounts with opposite signs (spec.md, C3 and C4).      *)
(*                                                                         *)
(* OrderBook refines this specification (see ABS in OrderBook.tla), and   *)
(* so does the book behind OrderEntry's request handlers, whose replace   *)
(* and purge are single steps here (ABS in OrderEntry.tla).               *)
(***************************************************************************)
EXTENDS Integers, FiniteSets, Functions, TLC

CONSTANTS Accounts, Prices, Quantities, MaxUID

VARIABLES
    live,      \* UID -> [side, quantity, price, account], the resting orders
    shares,    \* per-account position
    capital,   \* per-account cash
    next       \* the UID the next resting order gets

absVars == <<live, shares, capital, next>>

Opposite(s) == IF s = "Buy" THEN "Sell" ELSE "Buy"

\* a taker on side ts with limit price tp accepts a resting price rp
Accepts(ts, tp, rp) == tp = 0 \/ (IF ts = "Buy" THEN tp >= rp ELSE tp <= rp)

\* resting order i is ahead of resting order j for a taker on side ts
Ahead(lv, ts, i, j) ==
    \/ lv[i].price # lv[j].price /\ Accepts(ts, lv[j].price, lv[i].price)
    \/ lv[i].price = lv[j].price /\ i <= j

\* the position change of a trade of q shares at price p for a on side s
Book(st, a, s, q, p) ==
    LET sign == IF s = "Buy" THEN 1 ELSE -1 IN
    [st EXCEPT !.shares[a] = @ + sign * q, !.capital[a] = @ - sign * q * p]

\* Match the taker t ([side, quantity, price, account]) against the state
\* st ([live, shares, capital]); the result also holds t's open quantity.
RECURSIVE Match(_, _)
Match(st, t) ==
    LET makers == {id \in DOMAIN st.live :
                      st.live[id].side = Opposite(t.side)
                      /\ Accepts(t.side, t.price, st.live[id].price)}
    IN  IF t.quantity = 0 \/ makers = {}
        THEN [st EXCEPT !.left = t.quantity]
        ELSE LET mid == CHOOSE i \in makers :
                            \A j \in makers : Ahead(st.live, t.side, i, j)
                 m   == st.live[mid]
                 q   == IF m.quantity <= t.quantity THEN m.quantity ELSE t.quantity
                 lv  == IF q = m.quantity
                        THEN Restrict(st.live, DOMAIN st.live \ {mid})
                        ELSE [st.live EXCEPT ![mid].quantity = @ - q]
                 st2 == Book(Book([st EXCEPT !.live = lv], m.account, m.side, q, m.price),
                             t.account, t.side, q, m.price)
             IN  Match(st2, [t EXCEPT !.quantity = @ - q])

State == [live |-> live, shares |-> shares, capital |-> capital, left |-> 0]

Apply(r) == live' = r.live /\ shares' = r.shares /\ capital' = r.capital

Init ==
    /\ live = [id \in {} |-> {}]
    /\ shares = [a \in Accounts |-> 0]
    /\ capital = [a \in Accounts |-> 0]
    /\ next = 1

\* A limit order matches the resting orders lv, and its rest (if any)
\* rests under the next UID.
Place(lv, a, s, q, p) ==
    LET r == Match([State EXCEPT !.live = lv],
                   [side |-> s, quantity |-> q, price |-> p, account |-> a])
    IN  /\ next <= MaxUID
        /\ IF r.left = 0
           THEN Apply(r) /\ UNCHANGED next
           ELSE /\ live' = (next :> [side |-> s, quantity |-> r.left, price |-> p,
                                     account |-> a]) @@ r.live
                /\ shares' = r.shares /\ capital' = r.capital
                /\ next' = next + 1

Limit(a, s, q, p) == Place(live, a, s, q, p)

\* A replace by account a is one step: its order id, if still resting,
\* leaves the book (an order of another account may not be replaced), then
\* the new limit order is placed (spec.md, ReplaceRequest).
Replace(id, a, s, q, p) ==
    /\ id \notin DOMAIN live'
    /\ id \in DOMAIN live => live[id].account = a
    /\ Place(Restrict(live, DOMAIN live \ {id}), a, s, q, p)

\* A purge removes every resting order of account a in one step.
Purge(a) ==
    /\ live' = Restrict(live, {id \in DOMAIN live : live[id].account # a})
    /\ UNCHANGED <<shares, capital, next>>

\* A market order matches; whatever it cannot fill is dropped.
Market(a, s, q) ==
    /\ Apply(Match(State, [side |-> s, quantity |-> q, price |-> 0, account |-> a]))
    /\ UNCHANGED next

Cancel(id) ==
    /\ id \in DOMAIN live
    /\ live' = Restrict(live, DOMAIN live \ {id})
    /\ UNCHANGED <<shares, capital, next>>

\* A reduce to zero open quantity cancels the order.
Reduce(id, q) ==
    /\ id \in DOMAIN live
    /\ q <= live[id].quantity
    /\ live' = IF q = live[id].quantity
               THEN Restrict(live, DOMAIN live \ {id})
               ELSE [live EXCEPT ![id].quantity = @ - q]
    /\ UNCHANGED <<shares, capital, next>>

Next ==
    \/ \E id \in DOMAIN live : Cancel(id)
    \/ \E id \in DOMAIN live, q \in Quantities : Reduce(id, q)
    \/ \E a \in Accounts, s \in {"Buy", "Sell"}, q \in Quantities, p \in Prices :
          Limit(a, s, q, p)
    \/ \E a \in Accounts, s \in {"Buy", "Sell"}, q \in Quantities : Market(a, s, q)
    \/ \E a \in Accounts : Purge(a)
    \* a replace of an order that is no longer resting is a Limit step
    \/ \E id \in DOMAIN live, s \in {"Buy", "Sell"}, q \in Quantities, p \in Prices :
          Replace(id, live[id].account, s, q, p)

\* [][Next]_absVars, with the stuttering case written first so that a step
\* which leaves the book alone is settled without evaluating Match
Spec == Init /\ [][UNCHANGED absVars \/ Next]_absVars

=============================================================================
