----------------------- MODULE ScheduledRunnerProofs -----------------------
(***************************************************************************)
(* Proofs about the scheduled visible-depth simulator, ScheduledDepth, for *)
(* calls in any order, and about the backtest run that composes its calls, *)
(* ScheduledRunner: for every universe, configuration, set of books,       *)
(* requests, events and times.                                             *)
(***************************************************************************)
EXTENDS ScheduledRunner, InductionLemmas, FiniteSetTheorems, SequenceTheorems,
        NaturalsInduction

-----------------------------------------------------------------------------
(* The simulator.                                                          *)

\* What may still be taken from a level of a visible book.
Displayed(book, side, l) ==
    IF l <= Len(BookSide(book, side)) THEN BookSide(book, side)[l].qty ELSE 0

WithinDisplayed(state) ==
    \A side \in Sides, l \in 1..BookDepth :
        state.consumed[side][l] <= Displayed(state.book, side, l)

\* The levels of a snapshot are levels: a price and a positive quantity.
LEMMA BookSideType ==
    ASSUME NEW book \in Books, NEW side \in Sides
    PROVE  /\ BookSide(book, side) \in Seq(Levels)
           /\ \A l \in 1..Len(BookSide(book, side)) :
                 /\ BookSide(book, side)[l].qty \in Nat \ {0}
                 /\ BookSide(book, side)[l].price \in Int
<1>1. book.asks \in Seq(Levels) /\ book.bids \in Seq(Levels)
  BY BooksAssumption DEF Book
<1>2. BookSide(book, side) \in Seq(Levels)
  BY <1>1 DEF BookSide
<1>3. \A l \in 1..Len(BookSide(book, side)) : BookSide(book, side)[l] \in Levels
  BY <1>2, ElementOfSeq
<1> QED BY <1>2, <1>3 DEF Levels

\* What a level displays is a quantity.
LEMMA DisplayedType ==
    ASSUME NEW book \in Books, NEW side \in Sides, NEW l \in 1..BookDepth
    PROVE  Displayed(book, side, l) \in Nat
<1>1. Len(BookSide(book, side)) \in Nat
  BY BookSideType, LenProperties
<1>2. l \in 1..Len(BookSide(book, side)) \/ l > Len(BookSide(book, side))
  BY <1>1 DEF BookDepth
<1> QED BY <1>1, <1>2, BookSideType DEF Displayed, BookDepth

\* Nothing negative is available when consumption is within the displayed size.
LEMMA AvailableType ==
    ASSUME NEW state \in BookState, NEW r \in Requests, WithinDisplayed(state),
           NEW l \in 1..BookDepth
    PROVE  /\ Available(state, r, l) \in Nat
           /\ Available(state, r, l) <= Displayed(state.book, r.side, l)
                                          - state.consumed[r.side][l]
<1>1. state.book \in Books /\ state.consumed \in [Sides -> [1..BookDepth -> Nat]]
  BY DEF BookState
<1>2. r.side \in Sides
  BY RequestsAssumption DEF Request
<1>3. /\ state.consumed[r.side][l] \in Nat
      /\ state.consumed[r.side][l] <= Displayed(state.book, r.side, l)
  BY <1>1, <1>2 DEF WithinDisplayed
<1>4. Displayed(state.book, r.side, l) \in Nat
  BY <1>1, <1>2, DisplayedType
<1>5. CASE Reachable(state.book, r, l)
  <2>1. Available(state, r, l) = Displayed(state.book, r.side, l) - state.consumed[r.side][l]
    BY <1>5 DEF Available, Displayed, Reachable
  <2> QED BY <2>1, <1>3, <1>4
<1>6. CASE ~Reachable(state.book, r, l)
  BY <1>6, <1>3, <1>4 DEF Available
<1> QED BY <1>5, <1>6

\* The sweep takes from no level more than is available there, and in total
\* no more than is asked for.
LEMMA SweepBounds ==
    ASSUME NEW state \in BookState, NEW r \in Requests, WithinDisplayed(state),
           NEW q \in Nat
    PROVE  /\ \A l \in 1..BookDepth :
                /\ Sweep(state, r, q)[l] \in Nat
                /\ Sweep(state, r, q)[l] <= Available(state, r, l)
           /\ Swept(Sweep(state, r, q)) \in 0..q
<1> DEFINE A(l) == Available(state, r, l)
           T    == Sweep(state, r, q)
<1>1. A(1) \in Nat /\ A(2) \in Nat /\ A(3) \in Nat /\ A(4) \in Nat /\ A(5) \in Nat
  BY AvailableType DEF BookDepth
<1>2. /\ T[1] = Least(q, A(1))
      /\ T[2] = Least(q - T[1], A(2))
      /\ T[3] = Least(q - T[1] - T[2], A(3))
      /\ T[4] = Least(q - T[1] - T[2] - T[3], A(4))
      /\ T[5] = Least(q - T[1] - T[2] - T[3] - T[4], A(5))
  BY DEF Sweep
<1> HIDE DEF A, T
<1>3. T[1] \in Nat /\ T[1] <= A(1) /\ q - T[1] \in Nat
  BY <1>1, <1>2 DEF Least
<1>4. T[2] \in Nat /\ T[2] <= A(2) /\ q - T[1] - T[2] \in Nat
  BY <1>1, <1>2, <1>3 DEF Least
<1>5. T[3] \in Nat /\ T[3] <= A(3) /\ q - T[1] - T[2] - T[3] \in Nat
  BY <1>1, <1>2, <1>3, <1>4 DEF Least
<1>6. T[4] \in Nat /\ T[4] <= A(4) /\ q - T[1] - T[2] - T[3] - T[4] \in Nat
  BY <1>1, <1>2, <1>3, <1>4, <1>5 DEF Least
<1>7. T[5] \in Nat /\ T[5] <= A(5) /\ q - T[1] - T[2] - T[3] - T[4] - T[5] \in Nat
  BY <1>1, <1>2, <1>3, <1>4, <1>5, <1>6 DEF Least
<1>8. Swept(T) \in 0..q
  BY <1>3, <1>4, <1>5, <1>6, <1>7 DEF Swept
<1>9. \A l \in 1..BookDepth : T[l] \in Nat /\ T[l] <= A(l)
  <2> SUFFICES ASSUME NEW l \in 1..BookDepth PROVE T[l] \in Nat /\ T[l] <= A(l)
    OBVIOUS
  <2>1. l = 1 \/ l = 2 \/ l = 3 \/ l = 4 \/ l = 5
    BY DEF BookDepth
  <2> QED BY <2>1, <1>3, <1>4, <1>5, <1>6, <1>7
<1> QED BY <1>8, <1>9 DEF A, T

\* Consuming what a sweep took keeps a snapshot's account within its display.
LEMMA ConsumeWithin ==
    ASSUME NEW i \in Instruments, books \in [Instruments -> BookState \cup {NoBook}],
           ConsumedWithinDisplayed, HasBook(i),
           NEW r \in Requests, NEW q \in Nat,
           Consume(i, r.side, Sweep(books[i], r, q))
    PROVE  /\ books' \in [Instruments -> BookState \cup {NoBook}]
           /\ ConsumedWithinDisplayed'
<1> DEFINE state == books[i]
           taken == Sweep(state, r, q)
           used  == [l \in 1..BookDepth |-> state.consumed[r.side][l] + taken[l]]
           new   == [state EXCEPT !.consumed[r.side] = used]
<1>1. state \in BookState
  BY DEF HasBook, NoBook
<1>2. WithinDisplayed(state)
  BY DEF ConsumedWithinDisplayed, WithinDisplayed, Displayed
<1>3. r.side \in Sides
  BY RequestsAssumption DEF Request
<1>4. state.consumed \in [Sides -> [1..BookDepth -> Nat]]
  BY <1>1 DEF BookState
<1>5. \A l \in 1..BookDepth : taken[l] \in Nat /\ taken[l] <= Available(state, r, l)
  BY <1>1, <1>2, SweepBounds
<1>6. \A l \in 1..BookDepth : /\ Available(state, r, l) \in Nat
                              /\ Available(state, r, l) <= Displayed(state.book, r.side, l)
                                                            - state.consumed[r.side][l]
  BY <1>1, <1>2, AvailableType
<1>7. \A l \in 1..BookDepth : Displayed(state.book, r.side, l) \in Nat
  BY <1>1, <1>3, DisplayedType DEF BookState
<1> HIDE DEF taken
<1>8. used \in [1..BookDepth -> Nat]
      /\ \A l \in 1..BookDepth : used[l] <= Displayed(state.book, r.side, l)
  <2> SUFFICES ASSUME NEW l \in 1..BookDepth
               PROVE  /\ state.consumed[r.side][l] + taken[l] \in Nat
                      /\ state.consumed[r.side][l] + taken[l]
                            <= Displayed(state.book, r.side, l)
    OBVIOUS
  <2>1. state.consumed[r.side][l] \in Nat
    BY <1>3, <1>4
  <2> HIDE DEF state
  <2> QED BY <2>1, <1>5, <1>6, <1>7
<1>9. books' = [books EXCEPT ![i] = new]
  BY <1>3, <1>4 DEF Consume, taken
<1> HIDE DEF used
<1>10. new \in BookState /\ new.book = state.book /\ new.snapshot = state.snapshot
       /\ new.consumed = [state.consumed EXCEPT ![r.side] = used]
  BY <1>1, <1>3, <1>4, <1>8 DEF BookState
<1> HIDE DEF new, state
<1>11. WithinDisplayed(new)
  BY <1>2, <1>3, <1>4, <1>8, <1>10 DEF WithinDisplayed
<1>12. books'[i] = new /\ \A j \in Instruments \ {i} : books'[j] = books[j]
  BY <1>9
<1>13. ConsumedWithinDisplayed'
  <2> SUFFICES ASSUME NEW j \in Instruments, HasBook(j)'
               PROVE  WithinDisplayed(books'[j])
    BY DEF ConsumedWithinDisplayed, WithinDisplayed, Displayed
  <2>1. CASE j = i
    BY <2>1, <1>11, <1>12
  <2>2. CASE j # i
    <3>1. books'[j] = books[j] /\ HasBook(j)
      BY <2>2, <1>12 DEF HasBook
    <3> QED BY <3>1 DEF ConsumedWithinDisplayed, WithinDisplayed, Displayed
  <2> QED BY <2>1, <2>2
<1> QED BY <1>9, <1>10, <1>13

-----------------------------------------------------------------------------
(* The inductive invariant.                                                *)

\* The index of client ids points at an order of the client, and is set for
\* every client that has one.
ClientIndexOK ==
    /\ \A c \in Clients : clientOrders[c] # 0 =>
         /\ clientOrders[c] \in Positions
         /\ orders[clientOrders[c]].req.client = c
    /\ \A k \in Positions : clientOrders[orders[k].req.client] # 0

\* The orders a running evaluate_active still has to visit are all active.
TodoIsActive == \A k \in evaluating.todo : orders[k].status = "Active"

IndInv ==
    /\ SimTypeOK
    /\ ConsumedWithinDisplayed
    /\ StatusMatchesFilled
    /\ OneLiveOrderPerClient
    /\ ActivationFollowsAcceptance
    /\ ClientIndexOK
    /\ TodoIsActive

FilledOK(o) ==
    /\ o.filled <= o.req.qty
    /\ o.status = "Filled" <=> o.filled = o.req.qty
    /\ o.status = "PartiallyFilled" => o.filled > 0
    /\ o.status \in {"Scheduled", "Active", "MatchAttempted", "Replaced"} => o.filled = 0

\* How one order may change in a step that submits nothing.
Advances(o, p) ==
    /\ p \in Order
    /\ p.id = o.id /\ p.req = o.req /\ p.origin = o.origin
    /\ p.status \in Successors(o.status)
    /\ o.status \notin {"Scheduled", "Active"} => p.filled = o.filled
    /\ FilledOK(p)

\* The statuses of orders that were never activated.
Inactive == {"Scheduled", "Expired", "Replaced", "Cancelled"}

OrdersAdvance ==
    /\ orders' \in Seq(Order)
    /\ Len(orders') = Len(orders)
    /\ \A k \in Positions :
         /\ Advances(orders[k], orders'[k])
         /\ orders[k].status \in Inactive /\ orders'[k].status \notin Inactive
              => ActivationInOrder(k, orders[k].req.activateAt)

\* The types of an order and of its request.
LEMMA OrderTypes ==
    ASSUME SimTypeOK
    PROVE  /\ Len(orders) \in Nat
           /\ Positions = 1..Len(orders)
           /\ \A k \in Positions :
                /\ orders[k] \in Order
                /\ orders[k].req \in Requests
                /\ orders[k].req \in Request
                /\ orders[k].req.qty \in Nat \ {0}
                /\ orders[k].req.instrument \in Instruments
                /\ orders[k].req.limit \in Int
                /\ orders[k].filled \in Nat
                /\ orders[k].status \in Statuses
<1>1. orders \in Seq(Order)
  BY DEF SimTypeOK
<1>2. Len(orders) \in Nat /\ Positions = 1..Len(orders)
  BY <1>1, LenProperties DEF Positions
<1>3. \A k \in Positions : orders[k] \in Order
  BY <1>1, <1>2, ElementOfSeq
<1> QED BY <1>2, <1>3, RequestsAssumption DEF Order, Request

\* Steps that advance orders, and leave the client index alone, keep every part
\* of the invariant that is about orders.
LEMMA AdvanceKeeps ==
    ASSUME IndInv, OrdersAdvance, UNCHANGED clientOrders
    PROVE  /\ Positions' = Positions
           /\ StatusMatchesFilled'
           /\ OneLiveOrderPerClient'
           /\ ActivationFollowsAcceptance'
           /\ ClientIndexOK'
<1>1. Positions' = Positions
  <2>1. DOMAIN orders = 1..Len(orders) /\ DOMAIN orders' = 1..Len(orders')
    BY LenProperties DEF IndInv, SimTypeOK, OrdersAdvance
  <2> QED BY <2>1 DEF Positions, OrdersAdvance
<1>2. \A k \in Positions : /\ orders[k].status \in Statuses
                           /\ orders'[k].req = orders[k].req
                           /\ orders'[k].status \in Successors(orders[k].status)
                           /\ FilledOK(orders'[k])
  BY OrderTypes DEF IndInv, OrdersAdvance, Advances
<1>3. \A k \in Positions : /\ orders'[k].status \in Live => orders[k].status \in Live
                           /\ orders'[k].status = "Scheduled" => orders[k].status = "Scheduled"
  BY <1>2 DEF Successors, Live, Statuses
<1>4. StatusMatchesFilled'
  BY <1>1, <1>2 DEF StatusMatchesFilled, FilledOK
<1>5. OneLiveOrderPerClient'
  BY <1>1, <1>2, <1>3 DEF IndInv, OneLiveOrderPerClient
<1>6. ActivationFollowsAcceptance'
  <2> SUFFICES ASSUME NEW j \in Positions, NEW k \in Positions, j < k,
                      orders'[j].req.activateAt = orders'[k].req.activateAt,
                      orders'[j].status = "Scheduled"
               PROVE  orders'[k].status \in Inactive
    BY <1>1 DEF ActivationFollowsAcceptance, Inactive
  <2>1. /\ orders[j].req.activateAt = orders[k].req.activateAt
        /\ orders[j].status = "Scheduled"
    BY <1>2, <1>3
  <2>2. orders[k].status \in Inactive
    BY <2>1 DEF IndInv, ActivationFollowsAcceptance, Inactive
  <2>3. ~ActivationInOrder(k, orders[k].req.activateAt)
    BY <2>1 DEF ActivationInOrder
  <2> QED BY <2>2, <2>3 DEF OrdersAdvance
<1>7. ClientIndexOK'
  BY <1>1, <1>2 DEF IndInv, ClientIndexOK
<1> QED BY <1>1, <1>4, <1>5, <1>6, <1>7

\* An order may stay as it is.
LEMMA StayingAdvances ==
    ASSUME IndInv, NEW k \in Positions
    PROVE  Advances(orders[k], orders[k])
<1>1. orders[k] \in Order /\ orders[k].status \in Statuses
  BY OrderTypes DEF IndInv
<1>2. orders[k].status \in Successors(orders[k].status)
  BY <1>1 DEF Successors, Statuses
<1>3. FilledOK(orders[k])
  BY DEF IndInv, StatusMatchesFilled, FilledOK
<1> QED BY <1>1, <1>2, <1>3 DEF Advances

\* Steps that change one order.
LEMMA OneOrderAdvances ==
    ASSUME IndInv, NEW k \in Positions, NEW p, Advances(orders[k], p),
           orders[k].status \in Inactive /\ p.status \notin Inactive
             => ActivationInOrder(k, orders[k].req.activateAt),
           orders' = [orders EXCEPT ![k] = p]
    PROVE  OrdersAdvance
<1>1. orders \in Seq(Order) /\ Positions = 1..Len(orders) /\ Len(orders) \in Nat
  BY OrderTypes DEF IndInv, SimTypeOK
<1>2. p \in Order
  BY DEF Advances
<1>3. orders' \in Seq(Order) /\ Len(orders') = Len(orders)
  BY <1>1, <1>2, ExceptSeq
<1>4. ASSUME NEW j \in Positions
      PROVE  /\ Advances(orders[j], orders'[j])
             /\ orders[j].status \in Inactive /\ orders'[j].status \notin Inactive
                  => ActivationInOrder(j, orders[j].req.activateAt)
  <2>1. CASE j = k
    BY <2>1, <1>1 DEF Positions
  <2>2. CASE j # k
    <3>1. orders'[j] = orders[j]
      BY <2>2, <1>1 DEF Positions
    <3> QED BY <3>1, StayingAdvances
  <2> QED BY <2>1, <2>2
<1> QED BY <1>3, <1>4 DEF OrdersAdvance

\* Cancelling before activation advances the one order it names.
LEMMA CancelAdvances ==
    ASSUME IndInv, NEW c \in Clients, CancelBeforeActivation(c)
    PROVE  OrdersAdvance
<1> DEFINE k == clientOrders[c]
           p == [orders[k] EXCEPT !.status = "Cancelled"]
<1>1. k \in Positions /\ orders[k].status = "Scheduled" /\ orders' = [orders EXCEPT ![k] = p]
  BY DEF IndInv, ClientIndexOK, CancelBeforeActivation
<1>2. orders[k] \in Order /\ orders[k].req.qty \in Nat \ {0} /\ orders[k].filled = 0
  BY <1>1, OrderTypes DEF IndInv, StatusMatchesFilled
<1> HIDE DEF k
<1>3. p.status = "Cancelled" /\ Advances(orders[k], p)
  BY <1>1, <1>2 DEF Advances, FilledOK, Order, Statuses, Successors
<1> HIDE DEF p
<1> QED BY <1>1, <1>3, OneOrderAdvances DEF Inactive

\* Expiring advances the one order it names.
LEMMA ExpireAdvances ==
    ASSUME IndInv, NEW k \in Positions, NEW at, Expire(k, at)
    PROVE  OrdersAdvance
<1> DEFINE p == [orders[k] EXCEPT !.status = "Expired"]
<1>1. orders[k].status \in Live /\ orders' = [orders EXCEPT ![k] = p]
  BY DEF Expire, CanExpire
<1>2. /\ orders[k] \in Order /\ orders[k].req.qty \in Nat \ {0}
      /\ orders[k].filled \in Nat /\ FilledOK(orders[k])
  BY <1>1, OrderTypes DEF IndInv, StatusMatchesFilled, FilledOK
<1>3. p \in Order /\ p.status = "Expired" /\ p.filled = orders[k].filled
      /\ p.req = orders[k].req /\ p.id = orders[k].id /\ p.origin = orders[k].origin
  BY <1>2 DEF Order, Statuses
<1> HIDE DEF p
<1>4. Advances(orders[k], p)
  BY <1>1, <1>2, <1>3 DEF Advances, FilledOK, Live, Statuses, Successors
<1> QED BY <1>1, <1>3, <1>4, OneOrderAdvances DEF Inactive

\* What an interruption may do to the orders before the same callback submits.
OnlyCancels(os) ==
    /\ os \in Seq(Order)
    /\ Len(os) = Len(orders)
    /\ \A k \in Positions :
         /\ Advances(orders[k], os[k])
         /\ \/ os[k].status = orders[k].status
            \/ os[k].status = "Cancelled" /\ orders[k].status \notin Inactive

\* Nothing is cancelled when there is no interruption.
LEMMA NothingCancelled ==
    ASSUME IndInv
    PROVE  OnlyCancels(orders)
BY StayingAdvances, OrderTypes DEF OnlyCancels, IndInv, SimTypeOK

\* The cancellation of market orders for a volatility interruption.
LEMMA InterruptionCancels ==
    ASSUME IndInv, NEW i \in Instruments
    PROVE  OnlyCancels(MarketOrdersCancelled(orders, i))
<1> DEFINE os == MarketOrdersCancelled(orders, i)
<1>1. orders \in Seq(Order) /\ Positions = 1..Len(orders) /\ Len(orders) \in Nat
  BY OrderTypes DEF IndInv, SimTypeOK
<1>4. os = [k \in 1..Len(orders) |-> os[k]]
  BY <1>1 DEF MarketOrdersCancelled, Positions
<1>5. \A k \in Positions : os[k] = IF Interruptible(orders[k], i)
                                   THEN [orders[k] EXCEPT !.status = "Cancelled"]
                                   ELSE orders[k]
  BY <1>1 DEF MarketOrdersCancelled, Positions
<1> HIDE DEF os
<1>2. ASSUME NEW k \in Positions
      PROVE  /\ Advances(orders[k], os[k])
             /\ \/ os[k].status = orders[k].status
                \/ os[k].status = "Cancelled" /\ orders[k].status \notin Inactive
  <2>1. CASE Interruptible(orders[k], i)
    <3>1. os[k] = [orders[k] EXCEPT !.status = "Cancelled"]
      BY <2>1, <1>5
    <3>2. /\ orders[k] \in Order /\ orders[k].req.qty \in Nat \ {0}
          /\ orders[k].filled \in Nat /\ FilledOK(orders[k])
      BY OrderTypes DEF IndInv, StatusMatchesFilled, FilledOK
    <3>3. /\ os[k] \in Order /\ os[k].status = "Cancelled"
          /\ os[k].filled = orders[k].filled
          /\ os[k].req = orders[k].req /\ os[k].id = orders[k].id /\ os[k].origin = orders[k].origin
      BY <3>1, <3>2 DEF Order, Statuses
    <3> QED BY <2>1, <3>2, <3>3
            DEF Advances, Interruptible, FilledOK, Live, Statuses, Successors, Inactive
  <2>2. CASE ~Interruptible(orders[k], i)
    <3>1. os[k] = orders[k]
      BY <2>2, <1>5
    <3> QED BY <3>1, StayingAdvances
  <2> QED BY <2>1, <2>2
<1>3. os \in Seq(Order) /\ Len(os) = Len(orders)
  <2>1. \A k \in 1..Len(orders) : os[k] \in Order
    BY <1>1, <1>2 DEF Advances
  <2> QED BY <1>1, <1>4, <2>1, SeqDef, LenProperties
<1>6. OnlyCancels(os)
  BY <1>2, <1>3 DEF OnlyCancels
<1> QED BY <1>6 DEF os

\* It is a step of every order it cancels, and of no other.
LEMMA InterruptionAdvances ==
    ASSUME IndInv, NEW i \in Instruments, CancelActiveMarketOrders(i)
    PROVE  OrdersAdvance
<1>1. OnlyCancels(orders')
  BY InterruptionCancels DEF CancelActiveMarketOrders
<1> QED BY <1>1 DEF OnlyCancels, OrdersAdvance, Inactive

\* The records a sweep produces are well formed: a level that is taken from is
\* displayed, so it has a price.
LEMMA SweepFillsType ==
    ASSUME NEW state \in BookState, NEW r \in Requests, WithinDisplayed(state),
           NEW q \in Nat, NEW k \in Nat \ {0}, NEW at \in Nat
    PROVE  SweepFills(k, state, r, Sweep(state, r, q), at) \subseteq Fill
<1> DEFINE taken == Sweep(state, r, q)
<1>1. r.side \in Sides /\ r.instrument \in Instruments
  BY RequestsAssumption DEF Request
<1>2. \A l \in 1..BookDepth : taken[l] \in Nat /\ taken[l] <= Available(state, r, l)
  BY SweepBounds
<1> HIDE DEF taken
<1>3. ASSUME NEW l \in 1..BookDepth, taken[l] > 0
      PROVE  SweptPrice(state, r, l) \in Int
  <2>1. Available(state, r, l) \in Nat
    BY AvailableType
  <2>2. Reachable(state.book, r, l)
    BY <1>2, <1>3, <2>1 DEF Available
  <2>3. l \in 1..Len(BookSide(state.book, r.side))
    <3>1. Len(BookSide(state.book, r.side)) \in Nat
      BY <1>1, BookSideType, LenProperties DEF BookState
    <3> QED BY <2>2, <3>1 DEF Reachable, BookDepth
  <2>4. BookSide(state.book, r.side)[l].price \in Int
    BY <1>1, <2>3, BookSideType DEF BookState
  <2>5. Config[r.instrument].adverse \in Int
    BY <1>1, ConfigAssumption DEF Model
  <2> QED BY <2>4, <2>5 DEF SweptPrice, AdversePrice
<1>4. state.snapshot \in Nat
  BY DEF BookState
<1> SUFFICES ASSUME NEW f \in SweepFills(k, state, r, taken, at) PROVE f \in Fill
  BY DEF taken
<1>5. PICK l \in 1..BookDepth :
         /\ taken[l] > 0
         /\ f = [order |-> k, level |-> l, source |-> "depth", at |-> at,
                 price |-> SweptPrice(state, r, l), qty |-> taken[l],
                 snapshot |-> state.snapshot]
  BY DEF SweepFills
<1>6. taken[l] \in Nat \ {0}
  BY <1>2, <1>5
<1> QED BY <1>3, <1>4, <1>5, <1>6 DEF Fill

\* What a sweep for an order of the instrument's visible book does.
LEMMA SweepStep ==
    ASSUME IndInv, NEW k \in Positions, NEW at \in Nat, NEW q \in Nat,
           HasBook(orders[k].req.instrument),
           Consume(orders[k].req.instrument, orders[k].req.side,
                   Sweep(books[orders[k].req.instrument], orders[k].req, q))
    PROVE  /\ books' \in [Instruments -> BookState \cup {NoBook}]
           /\ ConsumedWithinDisplayed'
           /\ SweepFills(k, books[orders[k].req.instrument], orders[k].req,
                  Sweep(books[orders[k].req.instrument], orders[k].req, q), at) \subseteq Fill
           /\ Swept(Sweep(books[orders[k].req.instrument], orders[k].req, q)) \in 0..q
<1> DEFINE r == orders[k].req
           i == r.instrument
<1>1. r \in Requests /\ i \in Instruments /\ k \in Nat \ {0}
  BY OrderTypes DEF IndInv
<1>2. books \in [Instruments -> BookState \cup {NoBook}] /\ ConsumedWithinDisplayed
  BY DEF IndInv, SimTypeOK
<1> HIDE DEF r
<1>3. books[i] \in BookState
  BY <1>1, <1>2 DEF HasBook, NoBook, r
<1>4. WithinDisplayed(books[i])
  BY <1>1, <1>2 DEF ConsumedWithinDisplayed, WithinDisplayed, Displayed, r
<1>5. books' \in [Instruments -> BookState \cup {NoBook}] /\ ConsumedWithinDisplayed'
  BY <1>1, <1>2, ConsumeWithin DEF r
<1>6. SweepFills(k, books[i], r, Sweep(books[i], r, q), at) \subseteq Fill
  BY <1>1, <1>3, <1>4, SweepFillsType
<1>7. Swept(Sweep(books[i], r, q)) \in 0..q
  BY <1>1, <1>3, <1>4, SweepBounds
<1> QED BY <1>5, <1>6, <1>7 DEF r

\* What every step keeps of the books and the fill records.
MarketKept ==
    /\ books' \in [Instruments -> BookState \cup {NoBook}]
    /\ ConsumedWithinDisplayed'
    /\ fills' \subseteq Fill
    /\ fills \subseteq fills'

\* A step that leaves books and fills alone keeps the market part.
LEMMA BooksUnchanged ==
    ASSUME IndInv, UNCHANGED books, fills' \subseteq Fill, fills \subseteq fills'
    PROVE  MarketKept
<1>1. ConsumedWithinDisplayed'
  BY DEF IndInv, ConsumedWithinDisplayed, HasBook
<1> QED BY <1>1 DEF IndInv, SimTypeOK, MarketKept

\* An order that takes its first step out of Scheduled.
LEMMA ActivatedAdvances ==
    ASSUME IndInv, NEW k \in Positions, orders[k].status = "Scheduled",
           NEW p \in Order, p.id = orders[k].id, p.origin = orders[k].origin, p.req = orders[k].req, FilledOK(p)
    PROVE  Advances(orders[k], p)
BY DEF Advances, Successors, Order

\* Activating advances one order, in acceptance order, and sells no more than is displayed.
LEMMA ActivateStep ==
    ASSUME IndInv, NEW k \in Positions, NEW at \in Nat, Activate(k, at)
    PROVE  OrdersAdvance /\ MarketKept
<1> DEFINE r == orders[k].req
           o == orders[k]
           reason == ActivationFailure(r, at)
           Becomes(p) == orders' = [orders EXCEPT ![k] = p]
<1>1. /\ o \in Order /\ r \in Requests /\ r \in Request /\ r.qty \in Nat \ {0}
      /\ r.limit \in Int /\ r.instrument \in Instruments
      /\ k \in Nat \ {0} /\ fills \subseteq Fill
  BY OrderTypes DEF IndInv, SimTypeOK
<1>2. o.status = "Scheduled" /\ r.activateAt = at /\ ActivationInOrder(k, r.activateAt)
  BY DEF Activate, CanActivate
<1>3. o.filled = 0
  BY <1>2 DEF IndInv, StatusMatchesFilled
<1>4. ASSUME NEW p \in Order, p.id = o.id /\ p.origin = o.origin, p.req = r, FilledOK(p), Becomes(p)
      PROVE  OrdersAdvance
  BY <1>2, <1>4, ActivatedAdvances, OneOrderAdvances
<1>5. CASE reason # "none" /\ FailActivation(k, reason)
  <2> DEFINE p == [o EXCEPT !.status = "Failed", !.reason = reason]
  <2>1. reason \in Reasons
    BY <1>5 DEF ActivationFailure, Reasons
  <2> HIDE DEF reason
  <2>2. p \in Order /\ p.id = o.id /\ p.origin = o.origin /\ p.req = r /\ p.status = "Failed" /\ p.filled = 0
    BY <1>1, <1>3, <2>1 DEF Order, Statuses
  <2>3. Becomes(p)
    BY <1>5, <1>1 DEF FailActivation, Order
  <2> HIDE DEF p
  <2>4. FilledOK(p)
    BY <2>2, <1>1 DEF FilledOK
  <2>5. OrdersAdvance
    BY <1>4, <2>2, <2>3, <2>4
  <2>6. MarketKept
    BY <1>5, <1>1, BooksUnchanged DEF FailActivation
  <2> QED BY <2>5, <2>6
<1>6. CASE RestUntilMatched(k)
  <2> DEFINE p == [o EXCEPT !.status = "Active"]
  <2>1. p \in Order /\ p.id = o.id /\ p.origin = o.origin /\ p.req = r /\ p.status = "Active" /\ p.filled = 0
    BY <1>1, <1>3 DEF Order, Statuses
  <2>2. Becomes(p)
    BY <1>6, <1>1 DEF RestUntilMatched, Order
  <2> HIDE DEF p
  <2>3. FilledOK(p)
    BY <2>1, <1>1 DEF FilledOK
  <2>4. OrdersAdvance
    BY <1>4, <2>1, <2>2, <2>3
  <2>5. MarketKept
    BY <1>6, <1>1, BooksUnchanged DEF RestUntilMatched
  <2> QED BY <2>4, <2>5
<1>7. CASE SettleAtActivation(k, at)
  <2> DEFINE p == [o EXCEPT !.status = "Filled", !.filled = r.qty]
             f == [order |-> k, level |-> 1, source |-> "settlement", at |-> at,
                   price |-> r.limit, qty |-> r.qty, snapshot |-> 0]
  <2>1. p \in Order /\ p.id = o.id /\ p.origin = o.origin /\ p.req = r /\ p.status = "Filled" /\ p.filled = r.qty
    BY <1>1 DEF Order, Statuses
  <2>2. Becomes(p)
    BY <1>7, <1>1 DEF SettleAtActivation, Order
  <2> HIDE DEF p
  <2>3. FilledOK(p)
    BY <2>1, <1>1 DEF FilledOK
  <2>4. OrdersAdvance
    BY <1>4, <2>1, <2>2, <2>3
  <2>5. f \in Fill
    BY <1>1 DEF Fill, BookDepth
  <2>6. fills' = fills \cup {f} /\ UNCHANGED books
    BY <1>7 DEF SettleAtActivation
  <2>7. MarketKept
    BY <2>5, <2>6, <1>1, BooksUnchanged
  <2> QED BY <2>4, <2>7
<1>8. CASE reason = "none" /\ r.policy = "AtActivation" /\ SweepAtActivation(k, at)
  <2> DEFINE state == books[r.instrument]
             taken == Sweep(state, r, r.qty)
             total == Swept(taken)
             p == [o EXCEPT !.status = "Filled", !.filled = total]
             q == [o EXCEPT !.status = "Failed", !.filled = total,
                            !.reason = SweepFailure(r, total)]
  <2>1. HasBook(r.instrument)
    BY <1>8 DEF ActivationFailure, VisibleBook
  <2>2. /\ books' \in [Instruments -> BookState \cup {NoBook}]
        /\ ConsumedWithinDisplayed'
        /\ SweepFills(k, state, r, taken, at) \subseteq Fill
        /\ total \in 0..r.qty
    BY <1>1, <1>8, <2>1, SweepStep DEF SweepAtActivation
  <2>3. MarketKept
    BY <1>1, <1>8, <2>2 DEF SweepAtActivation, MarketKept
  <2>4. orders' = IF total = r.qty THEN [orders EXCEPT ![k] = p]
                                   ELSE [orders EXCEPT ![k] = q]
    BY <1>8, <1>1 DEF SweepAtActivation, Order
  <2>5. total \in Nat /\ total <= r.qty
    BY <1>1, <2>2
  <2> HIDE DEF total
  <2>6. p \in Order /\ p.id = o.id /\ p.origin = o.origin /\ p.req = r /\ p.status = "Filled" /\ p.filled = total
    BY <1>1, <2>5 DEF Order, Statuses
  <2>7. SweepFailure(r, total) \in Reasons
    BY DEF SweepFailure, Reasons
  <2>8. q \in Order /\ q.id = o.id /\ q.origin = o.origin /\ q.req = r /\ q.status = "Failed" /\ q.filled = total
    BY <1>1, <2>5, <2>7 DEF Order, Statuses
  <2> HIDE DEF p, q
  <2>9. CASE total = r.qty
    <3>1. FilledOK(p)
      BY <2>6, <2>9, <1>1 DEF FilledOK
    <3> QED BY <2>3, <2>4, <2>6, <2>9, <3>1, <1>4
  <2>10. CASE total # r.qty
    <3>1. FilledOK(q)
      BY <2>8, <2>10, <2>5, <1>1 DEF FilledOK
    <3> QED BY <2>3, <2>4, <2>8, <2>10, <3>1, <1>4
  <2> QED BY <2>9, <2>10
<1> QED BY <1>5, <1>6, <1>7, <1>8 DEF Activate

\* One attempt of a resting order.
LEMMA EvaluateStep ==
    ASSUME IndInv, NEW k \in evaluating.todo, EvaluateNext(k)
    PROVE  /\ OrdersAdvance
           /\ MarketKept
           /\ \A j \in Positions \ {k} : orders'[j] = orders[j]
<1> DEFINE r == orders[k].req
           o == orders[k]
           at == evaluating.at
<1>1. k \in Positions /\ at \in Nat /\ o.status = "Active"
  BY DEF IndInv, SimTypeOK, TodoIsActive
<1>2. /\ o \in Order /\ r \in Requests /\ r.qty \in Nat \ {0}
      /\ r.instrument \in Instruments /\ fills \subseteq Fill
  BY <1>1, OrderTypes DEF IndInv, SimTypeOK
<1>3. o.filled = 0
  BY <1>1 DEF IndInv, StatusMatchesFilled
<1>4. CASE UNCHANGED <<books, fills, orders>>
  <2>1. orders' = [orders EXCEPT ![k] = orders[k]]
    <3>1. orders \in Seq(Order)
      BY DEF IndInv, SimTypeOK
    <3> QED BY <1>4, <1>1, <3>1 DEF Positions
  <2>2. OrdersAdvance
    BY <2>1, <1>1, StayingAdvances, OneOrderAdvances
  <2>3. MarketKept
    BY <1>4, <1>2, BooksUnchanged
  <2> QED BY <1>4, <2>2, <2>3
<1>5. CASE /\ CanMatchPassively(r.instrument, at)
           /\ ~ UNCHANGED <<books, fills, orders>>
  <2> DEFINE state == books[r.instrument]
             taken == Sweep(state, r, r.qty - o.filled)
             total == o.filled + Swept(taken)
             p == [o EXCEPT !.filled = total, !.status = PassiveStatus(r, total)]
  <2>1. /\ Consume(r.instrument, r.side, taken)
        /\ fills' = fills \cup SweepFills(k, state, r, taken, at)
        /\ orders' = [orders EXCEPT ![k] = p]
    BY <1>5, <1>2 DEF EvaluateNext, ExecutePassiveOrder, Order
  <2>2. HasBook(r.instrument) /\ r.qty - o.filled = r.qty
    BY <1>5, <1>3, <1>2 DEF CanMatchPassively, VisibleBook
  <2>3. /\ books' \in [Instruments -> BookState \cup {NoBook}]
        /\ ConsumedWithinDisplayed'
        /\ SweepFills(k, state, r, taken, at) \subseteq Fill
        /\ Swept(taken) \in 0..r.qty
    BY <1>1, <1>2, <2>1, <2>2, SweepStep
  <2>4. MarketKept
    BY <1>2, <2>1, <2>3 DEF MarketKept
  <2>5. total \in Nat /\ total <= r.qty
    BY <1>2, <1>3, <2>3
  <2> HIDE DEF total
  <2>6. PassiveStatus(r, total) \in Statuses
    BY DEF PassiveStatus, Statuses
  <2>7. /\ p \in Order /\ p.id = o.id /\ p.origin = o.origin /\ p.req = r /\ p.filled = total
        /\ p.status = PassiveStatus(r, total)
    BY <1>2, <2>5, <2>6 DEF Order
  <2> HIDE DEF p
  <2>8. FilledOK(p) /\ p.status \in {"Filled", "PartiallyFilled", "MatchAttempted"}
    BY <1>2, <2>5, <2>7 DEF FilledOK, PassiveStatus
  <2>9. p.status \in Successors(o.status)
    BY <1>1, <2>8 DEF Successors, Statuses
  <2>10. Advances(o, p)
    BY <1>1, <2>7, <2>8, <2>9 DEF Advances
  <2>11. OrdersAdvance
    BY <1>1, <2>1, <2>10, OneOrderAdvances DEF Inactive
  <2>12. \A j \in Positions \ {k} : orders'[j] = orders[j]
    <3>1. orders \in Seq(Order)
      BY DEF IndInv, SimTypeOK
    <3> QED BY <2>1, <3>1 DEF Positions
  <2> QED BY <2>4, <2>11, <2>12
<1> QED BY <1>4, <1>5 DEF EvaluateNext, ExecutePassiveOrder

\* A call auction fills the resting auction orders that its price crosses.
LEMMA AuctionStep ==
    ASSUME IndInv, NEW i \in Instruments, NEW price \in Int, NEW m \in Nat,
           EvaluateAuctionMatch(i, price, m), UNCHANGED books
    PROVE  OrdersAdvance /\ MarketKept
<1>1. orders \in Seq(Order) /\ Positions = 1..Len(orders) /\ Len(orders) \in Nat
  BY OrderTypes DEF IndInv, SimTypeOK
<1> DEFINE Crossing(k) == AuctionCandidate(k, i, m) /\ AuctionCrosses(orders[k].req, price)
           crossing == {k \in Positions : Crossing(k)}
<1>2. ASSUME NEW k \in Positions
      PROVE  /\ Advances(orders[k], orders'[k])
             /\ orders[k].status \in Inactive => orders'[k].status \in Inactive
  <2> DEFINE o == orders[k]
  <2>1. /\ o \in Order /\ o.req.qty \in Nat \ {0} /\ o.filled \in Nat
    BY OrderTypes DEF IndInv
  <2>2. CASE AuctionCandidate(k, i, m)
    <3>1. o.status = "Active" /\ o.filled = 0
      BY <2>2 DEF AuctionCandidate, IndInv, StatusMatchesFilled
    <3>2. CASE Crossing(k)
      <4>1. orders'[k] = [o EXCEPT !.status = "Filled", !.filled = o.req.qty]
        BY <3>2 DEF EvaluateAuctionMatch
      <4>2. /\ orders'[k] \in Order /\ orders'[k].status = "Filled"
            /\ orders'[k].filled = o.req.qty
            /\ orders'[k].req = o.req /\ orders'[k].id = o.id /\ orders'[k].origin = o.origin
        BY <4>1, <2>1 DEF Order, Statuses
      <4> QED BY <3>1, <4>2, <2>1 DEF Advances, FilledOK, Successors, Statuses, Inactive
    <3>3. CASE ~Crossing(k)
      <4>1. orders'[k] = [o EXCEPT !.status = "MatchAttempted"]
        BY <2>2, <3>3 DEF EvaluateAuctionMatch
      <4>2. /\ orders'[k] \in Order /\ orders'[k].status = "MatchAttempted"
            /\ orders'[k].filled = 0
            /\ orders'[k].req = o.req /\ orders'[k].id = o.id /\ orders'[k].origin = o.origin
        BY <4>1, <2>1, <3>1 DEF Order, Statuses
      <4> QED BY <3>1, <4>2, <2>1 DEF Advances, FilledOK, Successors, Statuses, Inactive
    <3> QED BY <3>2, <3>3
  <2>3. CASE ~AuctionCandidate(k, i, m)
    <3>1. orders'[k] = orders[k]
      BY <2>3 DEF EvaluateAuctionMatch
    <3> QED BY <3>1, StayingAdvances
  <2> QED BY <2>2, <2>3
<1>3. orders' \in Seq(Order) /\ Len(orders') = Len(orders)
  <2>1. orders' = [k \in 1..Len(orders) |-> orders'[k]]
    BY <1>1 DEF EvaluateAuctionMatch
  <2>2. \A k \in 1..Len(orders) : orders'[k] \in Order
    BY <1>1, <1>2 DEF Advances
  <2> QED BY <1>1, <2>1, <2>2, SeqDef, LenProperties
<1>4. OrdersAdvance
  BY <1>2, <1>3 DEF OrdersAdvance
<1>5. fills' = fills \cup
        {[order |-> k, level |-> 1, source |-> "auction", at |-> m, price |-> price,
          qty |-> orders[k].req.qty, snapshot |-> 0] : k \in crossing}
  BY DEF EvaluateAuctionMatch
<1>6. \A k \in crossing : k \in Nat \ {0} /\ orders[k].req.qty \in Nat \ {0}
  BY OrderTypes DEF IndInv
<1>7. fills \subseteq Fill
  BY DEF IndInv, SimTypeOK
<1> HIDE DEF crossing
<1>8. fills' \subseteq Fill /\ fills \subseteq fills'
  BY <1>5, <1>6, <1>7 DEF Fill, BookDepth
<1> QED BY <1>4, <1>8, BooksUnchanged

\* Only candidates change in an auction match, and its fills are of candidates.
LEMMA AuctionEffect ==
    ASSUME NEW i \in Instruments, NEW price \in Int, NEW t \in Nat,
           EvaluateAuctionMatch(i, price, t)
    PROVE  /\ \A j \in Positions : ~AuctionCandidate(j, i, t) => orders'[j] = orders[j]
           /\ \A f \in fills' : \/ f \in fills
                                \/ /\ f.order \in Positions /\ AuctionCandidate(f.order, i, t)
                                   /\ f.at = t
<1> DEFINE Crossing(k) == AuctionCandidate(k, i, t) /\ AuctionCrosses(orders[k].req, price)
           crossing == {k \in Positions : Crossing(k)}
<1>1. fills' = fills \cup
        {[order |-> k, level |-> 1, source |-> "auction", at |-> t, price |-> price,
          qty |-> orders[k].req.qty, snapshot |-> 0] : k \in crossing}
  BY DEF EvaluateAuctionMatch
<1>2. ASSUME NEW j \in Positions, ~AuctionCandidate(j, i, t) PROVE orders'[j] = orders[j]
  BY <1>2 DEF EvaluateAuctionMatch
<1>3. \A k \in crossing : k \in Positions /\ AuctionCandidate(k, i, t)
  OBVIOUS
<1> HIDE DEF crossing
<1>4. ASSUME NEW f \in fills', f \notin fills
      PROVE  f.order \in Positions /\ AuctionCandidate(f.order, i, t) /\ f.at = t
  <2>1. PICK k \in crossing :
          f = [order |-> k, level |-> 1, source |-> "auction", at |-> t, price |-> price,
               qty |-> orders[k].req.qty, snapshot |-> 0]
    BY <1>1, <1>4
  <2>2. f.order = k /\ f.at = t
    BY <2>1
  <2> QED BY <1>3, <2>2
<1> QED BY <1>2, <1>4

\* A submission gets a fresh identity or that of the first equal order.
LEMMA OrderIdentityType ==
    ASSUME SimTypeOK, NEW origin, NEW r
    PROVE  \/ /\ OrderIdentity(origin, r) = Len(orders) + 1
              /\ \A j \in Positions : orders[j].origin # origin \/ orders[j].req # r
           \/ /\ OrderIdentity(origin, r) \in Positions
              /\ orders[OrderIdentity(origin, r)].req = r
              /\ orders[OrderIdentity(origin, r)].origin = origin
              /\ \A j \in 1..(OrderIdentity(origin, r) - 1) :
                    orders[j].origin # origin \/ orders[j].req # r
<1> DEFINE same == {k \in Positions : orders[k].origin = origin /\ orders[k].req = r}
<1>1. CASE same = {}
  BY <1>1 DEF OrderIdentity
<1>2. CASE same # {}
  <2> DEFINE less == OpToRel(<, Nat)
  <2>1. same \subseteq Nat
    BY OrderTypes
  <2>2. \A j, k \in Nat : j < k => <<j, k>> \in less
    BY DEF OpToRel
  <2>3. IsWellFoundedOn(less, Nat)
    BY NatLessThanWellFounded
  <2> HIDE DEF less
  <2>4. \E k \in same : \A j \in same : ~(<<j, k>> \in less)
    BY <1>2, <2>1, <2>3, WFMin
  <2>5. \E k \in same : \A j \in same : k <= j
    <3> HIDE DEF same
    <3>1. PICK k \in same : \A j \in same : ~(<<j, k>> \in less)
      BY <2>4
    <3>2. ASSUME NEW j \in same PROVE k <= j
      <4>1. ~(j < k)
        BY <3>1, <2>1, <2>2
      <4> QED BY <4>1, <2>1
    <3> QED BY <3>2
  <2> DEFINE id == CHOOSE k \in same : \A j \in same : k <= j
  <2>6. id \in same /\ \A j \in same : id <= j
    <3> HIDE DEF same
    <3> QED BY <2>5
  <2>7. id = OrderIdentity(origin, r)
    BY <1>2 DEF OrderIdentity
  <2> HIDE DEF id
  <2>8. \A j \in 1..(id - 1) : j \in Positions /\ j \notin same
    <3>1. Positions = 1..Len(orders) /\ Len(orders) \in Nat /\ id \in Positions
      BY <2>6, OrderTypes
    <3>2. \A j \in 1..(id - 1) : j \in Positions /\ ~(id <= j)
      BY <3>1
    <3> HIDE DEF same
    <3> QED BY <2>6, <3>2
  <2> QED BY <2>6, <2>7, <2>8
<1> QED BY <1>1, <1>2

\* A submission replaces its client's order, of the orders os it comes after.
Replaces(os, r) ==
    \A k \in Positions : orders'[k].status = IF k = clientOrders[r.client]
                                             THEN "Replaced" ELSE os[k].status

\* Submitting: the order it replaces was the client's only live one.
LEMMA SubmitStep ==
    ASSUME IndInv, NEW origin \in Origin, NEW r \in Requests, NEW t, SubmitAccepted(t, r),
           NEW os, OnlyCancels(os),
           orders' = OrdersWithSubmission(os, origin, r),
           clientOrders' = [clientOrders EXCEPT ![r.client] = OrderIdentity(origin, r)]
    PROVE  /\ orders' \in Seq(Order)
           /\ Len(orders') = Len(orders) + 1
           /\ clientOrders' \in [Clients -> Nat]
           /\ StatusMatchesFilled'
           /\ OneLiveOrderPerClient'
           /\ ActivationFollowsAcceptance'
           /\ ClientIndexOK'
           /\ \A k \in Positions : Advances(orders[k], orders'[k])
           /\ Positions' = Positions \cup {Len(orders) + 1}
           /\ orders'[Len(orders) + 1] = SubmittedOrder(origin, r)
           /\ Replaces(os, r)
<1> DEFINE c == r.client
           previous == clientOrders[c]
           kept == IF previous = 0 THEN os
                   ELSE [os EXCEPT ![previous].status = "Replaced"]
           id == OrderIdentity(origin, r)
           new == SubmittedOrder(origin, r)
           n == Len(orders) + 1
<1>1. orders \in Seq(Order) /\ Positions = 1..Len(orders) /\ Len(orders) \in Nat
  BY OrderTypes DEF IndInv, SimTypeOK
<1>2. c \in Clients /\ r.qty \in Nat \ {0} /\ clientOrders \in [Clients -> Nat]
  BY RequestsAssumption DEF Request, IndInv, SimTypeOK
<1>3. id = n \/ (id \in Positions /\ orders[id].req = r)
  BY OrderIdentityType DEF IndInv
<1>4. id \in Nat \ {0}
  BY <1>1, <1>3
<1>5. /\ new \in Order /\ new.req = r /\ new.status = "Scheduled" /\ new.filled = 0
  BY <1>4 DEF SubmittedOrder, Order, Statuses
<1>6. orders' = Append(kept, new) /\ clientOrders' = [clientOrders EXCEPT ![c] = id]
  BY DEF OrdersWithSubmission
<1>7. previous # 0 => /\ previous \in Positions
                      /\ orders[previous].status = "Scheduled"
                      /\ orders[previous].req.client = c
                      /\ os[previous].status = "Scheduled"
  BY <1>2 DEF IndInv, ClientIndexOK, SubmitAccepted, OnlyCancels, Inactive
<1>18. /\ os \in Seq(Order) /\ Len(os) = Len(orders) /\ DOMAIN os = Positions
       /\ \A k \in Positions :
            /\ os[k] \in Order /\ os[k].req = orders[k].req /\ os[k].id = orders[k].id /\ os[k].origin = orders[k].origin
            /\ Advances(orders[k], os[k]) /\ FilledOK(os[k])
            /\ \/ os[k].status = orders[k].status
               \/ os[k].status = "Cancelled" /\ orders[k].status \notin Inactive
  BY <1>1, LenProperties DEF OnlyCancels, Advances
<1> HIDE DEF id, new, previous
<1>8. /\ kept \in Seq(Order) /\ Len(kept) = Len(orders)
      /\ \A k \in Positions : kept[k] = IF k = previous
                                        THEN [os[k] EXCEPT !.status = "Replaced"]
                                        ELSE os[k]
  <2>1. CASE previous = 0
    BY <2>1, <1>1, <1>18
  <2>2. CASE previous # 0
    <3> DEFINE p == [os[previous] EXCEPT !.status = "Replaced"]
    <3>1. p \in Order
      <4>1. os[previous] \in Order
        BY <2>2, <1>7, <1>18
      <4> QED BY <4>1 DEF Order, Statuses
    <3>2. kept = [os EXCEPT ![previous] = p]
      BY <2>2
    <3> HIDE DEF p
    <3>3. kept \in Seq(Order) /\ Len(kept) = Len(orders)
      <4>1. os \in Seq(Order) /\ Len(os) = Len(orders) /\ previous \in 1..Len(os)
        BY <2>2, <1>1, <1>7, <1>18
      <4> QED BY <4>1, <3>1, <3>2, ExceptSeq
    <3>4. \A k \in Positions : kept[k] = IF k = previous THEN p ELSE os[k]
      BY <1>1, <1>18, <3>2
    <3> QED BY <3>3, <3>4 DEF p
  <2> QED BY <2>1, <2>2
<1> HIDE DEF kept
<1>9. /\ orders' \in Seq(Order) /\ Len(orders') = n
      /\ \A k \in Positions : orders'[k] = kept[k]
      /\ orders'[n] = new
  BY <1>1, <1>5, <1>6, <1>8, AppendProperties
<1>10. Positions' = Positions \cup {n} /\ n \notin Positions
  <2>1. DOMAIN orders' = 1..n
    BY <1>9, LenProperties
  <2> QED BY <1>1, <2>1 DEF Positions
<1>11. \A k \in Positions :
         /\ orders'[k].req = orders[k].req
         /\ orders'[k].status = IF k = previous THEN "Replaced" ELSE os[k].status
         /\ orders'[k].filled = os[k].filled
         /\ orders'[k].id = orders[k].id /\ orders'[k].origin = orders[k].origin
         /\ orders'[k] \in Order
  <2> SUFFICES ASSUME NEW k \in Positions
               PROVE  /\ orders'[k].req = orders[k].req
                      /\ orders'[k].status = IF k = previous THEN "Replaced"
                                                             ELSE os[k].status
                      /\ orders'[k].filled = os[k].filled
                      /\ orders'[k].id = orders[k].id /\ orders'[k].origin = orders[k].origin
                      /\ orders'[k] \in Order
    OBVIOUS
  <2>1. os[k] \in Order /\ os[k].req = orders[k].req /\ os[k].id = orders[k].id /\ os[k].origin = orders[k].origin
    BY <1>18
  <2>2. orders'[k] = IF k = previous THEN [os[k] EXCEPT !.status = "Replaced"]
                                     ELSE os[k]
    BY <1>8, <1>9
  <2> QED BY <2>1, <2>2 DEF Order, Statuses
<1>12. \A k \in Positions : Advances(orders[k], orders'[k])
  <2> SUFFICES ASSUME NEW k \in Positions PROVE Advances(orders[k], orders'[k])
    OBVIOUS
  <2>1. CASE k = previous
    <3>1. /\ orders[k].status = "Scheduled" /\ os[k].filled = 0
          /\ orders[k].req.qty \in Nat \ {0}
      BY <2>1, <1>1, <1>7, <1>18, OrderTypes DEF IndInv, FilledOK
    <3> QED BY <2>1, <3>1, <1>11 DEF Advances, Successors, Statuses, FilledOK
  <2>2. CASE k # previous
    <3>1. orders'[k] = os[k]
      BY <2>2, <1>8, <1>9
    <3> QED BY <3>1, <1>18
  <2> QED BY <2>1, <2>2
<1>13. StatusMatchesFilled'
  <2>1. \A k \in Positions : FilledOK(orders'[k])
    BY <1>12 DEF Advances
  <2>2. FilledOK(orders'[n])
    BY <1>2, <1>5, <1>9 DEF FilledOK
  <2> QED BY <2>1, <2>2, <1>10 DEF StatusMatchesFilled, FilledOK
<1>14. OneLiveOrderPerClient'
  <2>1. ASSUME NEW j \in Positions, orders[j].req.client = c
        PROVE  orders'[j].status \notin Live
    <3>1. previous # 0 /\ previous \in Positions
      BY <2>1, <1>7 DEF IndInv, ClientIndexOK, previous
    <3>2. j = previous \/ j < previous \/ previous < j
      BY <1>1, <3>1
    <3>3. CASE j = previous
      BY <3>3, <1>11 DEF Live
    <3>4. CASE j < previous
      BY <3>1, <3>4, <2>1, <1>1, <1>7, <1>11, <1>18 DEF IndInv, OneLiveOrderPerClient, Live
    <3>5. CASE previous < j
      BY <3>1, <3>5, <2>1, <1>7 DEF IndInv, OneLiveOrderPerClient, Live
    <3> QED BY <3>2, <3>3, <3>4, <3>5
  <2>2. ASSUME NEW j \in Positions', NEW k \in Positions', j < k,
               orders'[j].req.client = orders'[k].req.client
        PROVE  orders'[j].status \notin Live
    <3>1. j \in Positions
      BY <2>2, <1>1, <1>10
    <3>2. CASE k = n
      BY <2>1, <2>2, <3>1, <3>2, <1>5, <1>9, <1>11
    <3>3. CASE k \in Positions
      BY <2>2, <3>1, <3>3, <1>11, <1>18 DEF IndInv, OneLiveOrderPerClient, Live
    <3> QED BY <3>2, <3>3, <1>10
  <2> QED BY <2>2 DEF OneLiveOrderPerClient
<1>15. ActivationFollowsAcceptance'
  <2> SUFFICES ASSUME NEW j \in Positions', NEW k \in Positions', j < k,
                      orders'[j].req.activateAt = orders'[k].req.activateAt,
                      orders'[j].status = "Scheduled"
               PROVE  orders'[k].status \in Inactive
    BY DEF ActivationFollowsAcceptance, Inactive
  <2>1. j \in Positions
    BY <1>1, <1>10
  <2>2. CASE k = n
    BY <2>2, <1>5, <1>9 DEF Inactive
  <2>3. CASE k \in Positions
    BY <2>1, <2>3, <1>11, <1>18 DEF IndInv, ActivationFollowsAcceptance, Inactive
  <2> QED BY <2>2, <2>3, <1>10
<1>16. ClientIndexOK'
  <2>1. \A d \in Clients : clientOrders'[d] = IF d = c THEN id ELSE clientOrders[d]
    BY <1>2, <1>6
  <2>2. id \in Positions' /\ orders'[id].req.client = c
    BY <1>3, <1>5, <1>9, <1>10, <1>11
  <2>3. \A k \in Positions' : orders'[k].req.client \in Clients
    BY <1>2, <1>5, <1>9, <1>10, <1>11, OrderTypes DEF IndInv, Request
  <2>4. \A d \in Clients : clientOrders'[d] # 0 =>
           clientOrders'[d] \in Positions' /\ orders'[clientOrders'[d]].req.client = d
    BY <2>1, <2>2, <1>10, <1>11 DEF IndInv, ClientIndexOK
  <2>5. \A k \in Positions' : clientOrders'[orders'[k].req.client] # 0
    BY <2>1, <2>3, <1>4, <1>5, <1>9, <1>10, <1>11 DEF IndInv, ClientIndexOK
  <2> QED BY <2>4, <2>5 DEF ClientIndexOK
<1>17. clientOrders' \in [Clients -> Nat]
  BY <1>2, <1>4, <1>6
<1>19. Replaces(os, r)
  BY <1>11 DEF Replaces, previous
<1> QED BY <1>9, <1>10, <1>12, <1>13, <1>14, <1>15, <1>16, <1>17, <1>19 DEF new, previous

-----------------------------------------------------------------------------
(* The invariant is inductive.                                             *)

\* The simulator starts in the invariant.
LEMMA InitInv == SimInit => IndInv
<1> SUFFICES ASSUME SimInit PROVE IndInv
  OBVIOUS
<1>1. orders = <<>> /\ Positions = {} /\ orders \in Seq(Order)
  BY DEF SimInit, Positions
<1>2. SimTypeOK
  BY <1>1 DEF SimInit, SimTypeOK, Idle
<1>3. ConsumedWithinDisplayed
  BY DEF SimInit, ConsumedWithinDisplayed, HasBook, NoBook
<1>4. StatusMatchesFilled /\ OneLiveOrderPerClient /\ ActivationFollowsAcceptance
  BY <1>1 DEF StatusMatchesFilled, OneLiveOrderPerClient, ActivationFollowsAcceptance
<1>5. ClientIndexOK /\ TodoIsActive
  BY <1>1 DEF SimInit, ClientIndexOK, TodoIsActive, Idle
<1> QED BY <1>2, <1>3, <1>4, <1>5 DEF IndInv

\* A step that advances orders while no evaluation runs.
LEMMA AdvancingStep ==
    ASSUME IndInv, OrdersAdvance, MarketKept, Caller,
           UNCHANGED <<tradingStates, clientOrders, evaluating>>
    PROVE  IndInv' /\ NothingTakenBack
<1>1. /\ Positions' = Positions /\ StatusMatchesFilled' /\ OneLiveOrderPerClient'
      /\ ActivationFollowsAcceptance' /\ ClientIndexOK'
  BY AdvanceKeeps
<1>2. SimTypeOK'
  BY <1>1 DEF IndInv, SimTypeOK, OrdersAdvance, MarketKept
<1>3. TodoIsActive'
  BY DEF Caller, TodoIsActive
<1>4. Len(orders) \in Nat
  BY OrderTypes DEF IndInv
<1>5. NothingTakenBack
  BY <1>4 DEF OrdersAdvance, Advances, MarketKept, NothingTakenBack
<1> QED BY <1>1, <1>2, <1>3, <1>5 DEF IndInv, MarketKept

\* A step that leaves the orders alone.
LEMMA OrdersUnchanged ==
    ASSUME IndInv, UNCHANGED <<orders, clientOrders>>, MarketKept,
           tradingStates' \in [Instruments -> TradingState \cup {NoState}],
           evaluating' \in [at : Nat, todo : SUBSET Positions],
           TodoIsActive'
    PROVE  IndInv' /\ NothingTakenBack
<1>1. Positions' = Positions
  BY DEF Positions
<1>2. SimTypeOK'
  BY <1>1 DEF IndInv, SimTypeOK, MarketKept
<1>3. StatusMatchesFilled' /\ OneLiveOrderPerClient' /\ ActivationFollowsAcceptance'
  BY <1>1 DEF IndInv, StatusMatchesFilled, OneLiveOrderPerClient, ActivationFollowsAcceptance
<1>4. ClientIndexOK'
  BY <1>1 DEF IndInv, ClientIndexOK
<1>5. NothingTakenBack
  <2>1. \A k \in Positions : orders[k].status \in Successors(orders[k].status)
    BY StayingAdvances DEF Advances
  <2>2. Len(orders) \in Nat
    BY OrderTypes DEF IndInv
  <2> QED BY <2>1, <2>2 DEF NothingTakenBack, MarketKept
<1> QED BY <1>2, <1>3, <1>4, <1>5 DEF IndInv, MarketKept

\* A new snapshot of an instrument starts from zero consumption.
LEMMA PublishBookKeeps ==
    ASSUME IndInv, NEW i \in Instruments, NEW book \in Books, NEW m \in Nat, NEW v \in Nat,
           NEW c, PublishBook(i, book, m, v, c), UNCHANGED fills
    PROVE  MarketKept
<1> DEFINE new == [book |-> book, matchTime |-> m, visibleAt |-> v,
                   snapshot |-> books[i].snapshot + 1,
                   consumed |-> [s \in Sides |-> [l \in 1..BookDepth |-> 0]]]
<1>1. books \in [Instruments -> BookState \cup {NoBook}]
  BY DEF IndInv, SimTypeOK
<1>2. books[i].snapshot \in Nat
  BY <1>1 DEF BookState, NoBook
<1>3. new \in BookState
  BY <1>2 DEF BookState
<1>4. books' = [books EXCEPT ![i] = new]
  BY DEF PublishBook
<1>5. WithinDisplayed(new)
  BY DisplayedType DEF WithinDisplayed
<1> HIDE DEF new
<1>6. ConsumedWithinDisplayed'
  <2> SUFFICES ASSUME NEW j \in Instruments, HasBook(j)'
               PROVE  WithinDisplayed(books'[j])
    BY DEF ConsumedWithinDisplayed, WithinDisplayed, Displayed
  <2>1. CASE j = i
    BY <2>1, <1>1, <1>4, <1>5
  <2>2. CASE j # i
    <3>1. books'[j] = books[j] /\ HasBook(j)
      BY <2>2, <1>1, <1>4 DEF HasBook
    <3> QED BY <3>1 DEF IndInv, ConsumedWithinDisplayed, WithinDisplayed, Displayed
  <2> QED BY <2>1, <2>2
<1> QED BY <1>1, <1>3, <1>4, <1>6 DEF MarketKept, IndInv, SimTypeOK

\* Publishing a trading state keeps the trading states' type.
LEMMA PublishStateType ==
    ASSUME IndInv, NEW i \in Instruments, NEW m \in Nat, NEW v \in Nat,
           NEW c \in Condition, PublishTradingState(i, m, v, c)
    PROVE  tradingStates' \in [Instruments -> TradingState \cup {NoState}]
BY DEF IndInv, SimTypeOK, PublishTradingState, TradingState, Condition

\* One order's turn in evaluate_active.
LEMMA EvaluateKeeps ==
    ASSUME IndInv, NEW k \in evaluating.todo, EvaluateNext(k),
           UNCHANGED <<tradingStates, clientOrders>>
    PROVE  IndInv' /\ NothingTakenBack
<1>1. evaluating \in [at : Nat, todo : SUBSET Positions] /\ TodoIsActive
  BY DEF IndInv, SimTypeOK
<1>2. /\ OrdersAdvance
      /\ MarketKept
      /\ \A j \in Positions \ {k} : orders'[j] = orders[j]
  BY EvaluateStep
<1>3. /\ Positions' = Positions /\ StatusMatchesFilled' /\ OneLiveOrderPerClient'
      /\ ActivationFollowsAcceptance' /\ ClientIndexOK'
  BY <1>2, AdvanceKeeps
<1>4. evaluating' \in [at : Nat, todo : SUBSET Positions]
      /\ evaluating'.todo \subseteq evaluating.todo \ {k}
  BY <1>1 DEF EvaluateNext, Idle
<1>5. TodoIsActive'
  BY <1>1, <1>2, <1>4 DEF TodoIsActive
<1>6. SimTypeOK'
  BY <1>2, <1>3, <1>4 DEF IndInv, SimTypeOK, OrdersAdvance, MarketKept
<1>7. NothingTakenBack
  <2>1. Len(orders) \in Nat
    BY OrderTypes DEF IndInv
  <2> QED BY <1>2, <2>1 DEF OrdersAdvance, Advances, MarketKept, NothingTakenBack
<1> QED BY <1>2, <1>3, <1>5, <1>6, <1>7 DEF IndInv, MarketKept

\* Steps that leave the simulator alone.
LEMMA SimUnchanged ==
    ASSUME IndInv, UNCHANGED simVars
    PROVE  IndInv' /\ NothingTakenBack
<1>1. UNCHANGED <<books, tradingStates, orders, clientOrders, fills, evaluating>>
  BY DEF simVars
<1>2. /\ fills \subseteq Fill
      /\ evaluating \in [at : Nat, todo : SUBSET Positions]
      /\ tradingStates \in [Instruments -> TradingState \cup {NoState}]
      /\ TodoIsActive
  BY DEF IndInv, SimTypeOK
<1>3. TodoIsActive' /\ MarketKept
  BY <1>1, <1>2, BooksUnchanged DEF TodoIsActive
<1> QED BY <1>1, <1>2, <1>3, OrdersUnchanged

\* Every step of the simulator keeps the invariant.
LEMMA NextInv == IndInv /\ [SimNext]_simVars => IndInv' /\ [NothingTakenBack]_simVars
<1> SUFFICES ASSUME IndInv, [SimNext]_simVars PROVE IndInv' /\ [NothingTakenBack]_simVars
  OBVIOUS
<1>1. /\ fills \subseteq Fill
      /\ evaluating \in [at : Nat, todo : SUBSET Positions]
      /\ tradingStates \in [Instruments -> TradingState \cup {NoState}]
      /\ TodoIsActive
  BY DEF IndInv, SimTypeOK
<1>2. Caller /\ UNCHANGED evaluating => TodoIsActive'
  BY DEF Caller, TodoIsActive
<1>3. UNCHANGED books /\ UNCHANGED fills => MarketKept
  BY <1>1, BooksUnchanged
<1>4. CASE CallPublishTradingState
  <2>1. PICK i \in Instruments, m \in Times, v \in Times, c \in Conditions :
           /\ Caller
           /\ PublishTradingState(i, m, v, c)
           /\ UNCHANGED <<books, orders, clientOrders, fills, evaluating>>
    BY <1>4 DEF CallPublishTradingState
  <2>2. tradingStates' \in [Instruments -> TradingState \cup {NoState}]
    BY <2>1, PublishStateType, BoundsAssumption
  <2> QED BY <2>1, <2>2, <1>1, <1>2, <1>3, OrdersUnchanged
<1>5. CASE CallPublishBook
  <2>1. PICK i \in Instruments, book \in Books, m \in Times, v \in Times, c \in Conditions :
           /\ Caller
           /\ PublishBook(i, book, m, v, c)
           /\ UNCHANGED <<orders, clientOrders, fills, evaluating>>
    BY <1>5 DEF CallPublishBook
  <2>2. tradingStates' \in [Instruments -> TradingState \cup {NoState}]
    BY <2>1, PublishStateType, BoundsAssumption DEF PublishBook
  <2>3. MarketKept
    BY <2>1, PublishBookKeeps, BoundsAssumption
  <2> QED BY <2>1, <2>2, <2>3, <1>1, <1>2, OrdersUnchanged
<1>6. CASE CallSubmit
  <2>1. PICK origin \in Origins, r \in Requests :
           /\ Caller
           /\ SubmitAccepted(origin.at, r)
           /\ orders' = OrdersWithSubmission(orders, origin, r)
           /\ clientOrders' = [clientOrders EXCEPT ![r.client] = OrderIdentity(origin, r)]
           /\ UNCHANGED <<books, tradingStates, fills, evaluating>>
    BY <1>6 DEF CallSubmit, Submit
  <2>2. /\ orders' \in Seq(Order) /\ Len(orders') = Len(orders) + 1
        /\ clientOrders' \in [Clients -> Nat]
        /\ StatusMatchesFilled' /\ OneLiveOrderPerClient'
        /\ ActivationFollowsAcceptance' /\ ClientIndexOK'
        /\ \A k \in Positions : Advances(orders[k], orders'[k])
    BY <2>1, NothingCancelled, SubmitStep, BoundsAssumption
  <2>3. MarketKept
    BY <2>1, <1>3
  <2>4. SimTypeOK'
    BY <2>1, <2>2, <2>3, <1>1 DEF Caller, SimTypeOK, MarketKept
  <2>5. NothingTakenBack
    <3>1. Len(orders) \in Nat
      BY OrderTypes DEF IndInv
    <3> QED BY <2>1, <2>2, <2>3, <3>1 DEF NothingTakenBack, Advances, MarketKept
  <2> QED BY <2>1, <2>2, <2>3, <2>4, <2>5, <1>2 DEF IndInv, MarketKept
<1>7. CASE CallCancel
  BY <1>7, <1>3, CancelAdvances, AdvancingStep DEF CallCancel
<1>8. CASE CallExpire
  BY <1>8, <1>3, ExpireAdvances, AdvancingStep DEF CallExpire
<1>9. CASE CallActivate
  BY <1>9, ActivateStep, AdvancingStep, BoundsAssumption DEF CallActivate
<1>10. CASE CallEvaluateActive
  <2>1. PICK i \in Instruments, at \in Times :
           /\ BeginEvaluateActive(i, at)
           /\ UNCHANGED <<books, tradingStates, orders, clientOrders, fills>>
    BY <1>10 DEF CallEvaluateActive
  <2>2. /\ evaluating' \in [at : Nat, todo : SUBSET Positions]
        /\ TodoIsActive'
    BY <2>1, BoundsAssumption DEF BeginEvaluateActive, TodoIsActive, RestsOnBook
  <2> QED BY <2>1, <2>2, <1>1, <1>3, OrdersUnchanged
<1>11. CASE StepEvaluateActive
  <2>1. PICK k \in evaluating.todo :
           /\ EvaluateNext(k) \/ EvaluateAborts(k)
           /\ UNCHANGED <<tradingStates, clientOrders>>
    BY <1>11 DEF StepEvaluateActive
  <2>2. CASE EvaluateNext(k)
    BY <2>1, <2>2, EvaluateKeeps
  <2>3. CASE EvaluateAborts(k)
    <3>1. /\ UNCHANGED <<books, fills, orders>>
          /\ evaluating' = Idle
      BY <2>3 DEF EvaluateAborts
    <3>2. evaluating' \in [at : Nat, todo : SUBSET Positions] /\ TodoIsActive'
      BY <3>1 DEF Idle, TodoIsActive
    <3> QED BY <2>1, <3>1, <3>2, <1>1, <1>3, OrdersUnchanged
  <2> QED BY <2>1, <2>2, <2>3
<1>12. CASE CallCancelForInterruption
  BY <1>12, <1>3, InterruptionAdvances, AdvancingStep DEF CallCancelForInterruption
<1>13. CASE CallEvaluateAuctionMatch
  BY <1>13, AuctionStep, AdvancingStep, BoundsAssumption DEF CallEvaluateAuctionMatch
<1>14. CASE UNCHANGED simVars
  BY <1>14, SimUnchanged
<1> QED BY <1>4, <1>5, <1>6, <1>7, <1>8, <1>9, <1>10, <1>11, <1>12, <1>13, <1>14
        DEF SimNext

\* The invariant holds in every state of the simulator.
LEMMA InvHolds == SimSpec => []IndInv
BY InitInv, NextInv, PTL DEF SimSpec

-----------------------------------------------------------------------------
(* Results.                                                                *)

\* Type correctness of every reachable state of the simulator.
THEOREM TypeCorrect == SimSpec => []SimTypeOK
<1>1. IndInv => SimTypeOK
  BY DEF IndInv
<1> QED BY <1>1, InvHolds, PTL

\* No sequence of publications, activations and evaluations consumes a level of
\* a visible book beyond what it displays: the checked subtraction of the sweep
\* cannot fail and ConsumedQuantityExceedsDisplayed is unreachable.
THEOREM DepthNeverOversold == SimSpec => []ConsumedWithinDisplayed
<1>1. IndInv => ConsumedWithinDisplayed
  BY DEF IndInv
<1> QED BY <1>1, InvHolds, PTL

\* Status and filled quantity of every order agree, whatever the operations.
THEOREM StatusAndFillAgree == SimSpec => []StatusMatchesFilled
<1>1. IndInv => StatusMatchesFilled
  BY DEF IndInv
<1> QED BY <1>1, InvHolds, PTL

\* Replacement never leaves two live orders under one client order id, also
\* when two submissions share an order identity.
THEOREM ReplacementIsExclusive == SimSpec => []OneLiveOrderPerClient
<1>1. IndInv => OneLiveOrderPerClient
  BY DEF IndInv
<1> QED BY <1>1, InvHolds, PTL

\* Same-time activations happen in acceptance order across instruments.
THEOREM ActivationOrderKept == SimSpec => []ActivationFollowsAcceptance
<1>1. IndInv => ActivationFollowsAcceptance
  BY DEF IndInv
<1> QED BY <1>1, InvHolds, PTL

\* No operation takes an order or a fill back, revives a terminal order or
\* matches an attempted one a second time.
THEOREM StepsOnlyAdvance == SimSpec => OrdersOnlyAdvance
BY InvHolds, NextInv, PTL DEF SimSpec, OrdersOnlyAdvance

-----------------------------------------------------------------------------
(* What a set of fill records gives together.                              *)

\* What the recursive function of TotalFilled satisfies.
SomeFill(s) == CHOOSE f \in s : TRUE
AddsUp(g, S) ==
    /\ g[{}] = 0
    /\ \A s \in SUBSET S : s # {} => g[s] = SomeFill(s).qty + g[s \ {SomeFill(s)}]

\* It can be defined on the subsets of at most n records.
CanAdd(S, n) ==
    \E g : /\ g[{}] = 0
           /\ \A s \in SUBSET S :
                s # {} /\ Cardinality(s) <= n => g[s] = SomeFill(s).qty + g[s \ {SomeFill(s)}]

\* Removing a member of a finite set makes it smaller by one.
LEMMA SmallerSet ==
    ASSUME NEW s, IsFiniteSet(s), NEW x \in s
    PROVE  /\ IsFiniteSet(s \ {x}) /\ Cardinality(s) \in Nat \ {0}
           /\ Cardinality(s \ {x}) = Cardinality(s) - 1
<1>1. Cardinality(s) \in Nat /\ IsFiniteSet(s \ {x}) /\ Cardinality(s \ {x}) = Cardinality(s) - 1
  BY FS_RemoveElement, FS_CardinalityType
<1>2. Cardinality(s) # 0
  BY FS_EmptySet
<1> QED BY <1>1, <1>2

\* The function by which MapThenSumSet is defined exists.
LEMMA AddsUpExists ==
    ASSUME NEW S, IsFiniteSet(S)
    PROVE  \E g : g = [s \in SUBSET S |-> IF s = {} THEN 0
                                          ELSE SomeFill(s).qty + g[s \ {SomeFill(s)}]]
<1>0. \A s \in SUBSET S : IsFiniteSet(s) /\ Cardinality(s) \in Nat /\ Cardinality(s) <= Cardinality(S)
  BY FS_Subset, FS_CardinalityType
<1>1. \A s \in SUBSET S : s # {} => /\ SomeFill(s) \in s /\ Cardinality(s) # 0
                                    /\ Cardinality(s \ {SomeFill(s)}) = Cardinality(s) - 1
  <2> SUFFICES ASSUME NEW s \in SUBSET S, s # {}
               PROVE  /\ SomeFill(s) \in s /\ Cardinality(s) # 0
                      /\ Cardinality(s \ {SomeFill(s)}) = Cardinality(s) - 1
    OBVIOUS
  <2>1. SomeFill(s) \in s
    BY DEF SomeFill
  <2> QED BY <1>0, <2>1, SmallerSet
<1> DEFINE N == {n \in Nat : CanAdd(S, n)}
<1>2. 0 \in N
  <2> DEFINE g == [s \in SUBSET S |-> 0]
  <2>1. g[{}] = 0
    OBVIOUS
  <2>2. ASSUME NEW s \in SUBSET S, s # {}, Cardinality(s) <= 0 PROVE FALSE
    <3>1. Cardinality(s) \in Nat /\ Cardinality(s) # 0
      BY <1>0, <1>1, <2>2
    <3> QED BY <2>2, <3>1
  <2> HIDE DEF g
  <2> QED BY <2>1, <2>2 DEF CanAdd
<1>3. ASSUME NEW n \in N PROVE n + 1 \in N
  <2>1. PICK g : /\ g[{}] = 0
                 /\ \A s \in SUBSET S : s # {} /\ Cardinality(s) <= n
                                          => g[s] = SomeFill(s).qty + g[s \ {SomeFill(s)}]
    BY DEF CanAdd
  <2> DEFINE h == [s \in SUBSET S |-> IF s = {} \/ Cardinality(s) <= n THEN g[s]
                                      ELSE SomeFill(s).qty + g[s \ {SomeFill(s)}]]
  <2>2. h[{}] = 0
    BY <2>1
  <2>3. ASSUME NEW s \in SUBSET S, s # {}, Cardinality(s) <= n + 1
        PROVE  h[s] = SomeFill(s).qty + h[s \ {SomeFill(s)}]
    <3>1. s \ {SomeFill(s)} \in SUBSET S /\ Cardinality(s \ {SomeFill(s)}) <= n
      BY <1>0, <1>1, <2>3
    <3>2. h[s \ {SomeFill(s)}] = g[s \ {SomeFill(s)}]
      BY <3>1
    <3>3. h[s] = SomeFill(s).qty + g[s \ {SomeFill(s)}]
      BY <2>1, <2>3
    <3> QED BY <3>2, <3>3
  <2> HIDE DEF h
  <2>4. CanAdd(S, n + 1)
    BY <2>2, <2>3 DEF CanAdd
  <2> QED BY <2>4
<1>4. Cardinality(S) \in N
  <2>1. Cardinality(S) \in Nat
    BY FS_CardinalityType
  <2>2. N = Nat
    <3> HIDE DEF N
    <3>1. N \subseteq Nat
      BY DEF N
    <3> QED BY <1>2, <1>3, <3>1, SetInduction
  <2> QED BY <2>1, <2>2
<1>5. PICK g : /\ g[{}] = 0
               /\ \A s \in SUBSET S : s # {} /\ Cardinality(s) <= Cardinality(S)
                                        => g[s] = SomeFill(s).qty + g[s \ {SomeFill(s)}]
  BY <1>4 DEF CanAdd
<1> DEFINE h == [s \in SUBSET S |-> g[s]]
<1>6. h = [s \in SUBSET S |-> IF s = {} THEN 0 ELSE SomeFill(s).qty + h[s \ {SomeFill(s)}]]
  <2>1. ASSUME NEW s \in SUBSET S
        PROVE  h[s] = IF s = {} THEN 0 ELSE SomeFill(s).qty + h[s \ {SomeFill(s)}]
    <3>1. s \ {SomeFill(s)} \in SUBSET S
      OBVIOUS
    <3> QED BY <1>0, <1>5, <3>1
  <2> QED BY <2>1
<1> HIDE DEF h
<1> QED BY <1>6

\* TotalFilled is the value of a function that adds up.
LEMMA TotalFilledIs ==
    ASSUME NEW S, IsFiniteSet(S)
    PROVE  \E g : AddsUp(g, S) /\ TotalFilled(S) = g[S]
<1> DEFINE Rec(g) == g = [s \in SUBSET S |-> IF s = {} THEN 0
                                             ELSE SomeFill(s).qty + g[s \ {SomeFill(s)}]]
           iter == CHOOSE g : Rec(g)
<1>1. \E g : Rec(g)
  BY AddsUpExists
<1>2. Rec(iter)
  <2> HIDE DEF Rec
  <2> QED BY <1>1
<1>3. TotalFilled(S) = iter[S]
  BY DEF TotalFilled, MapThenSumSet, MapThenFoldSet, SomeFill
<1> HIDE DEF iter
<1>4. AddsUp(iter, S)
  <2>1. iter = [s \in SUBSET S |-> IF s = {} THEN 0 ELSE SomeFill(s).qty + iter[s \ {SomeFill(s)}]]
    BY <1>2
  <2>2. {} \in SUBSET S
    OBVIOUS
  <2>3. \A s \in SUBSET S : iter[s] = IF s = {} THEN 0 ELSE SomeFill(s).qty + iter[s \ {SomeFill(s)}]
    BY <2>1
  <2> QED BY <2>2, <2>3 DEF AddsUp
<1> QED BY <1>3, <1>4

\* Induction over the subsets of a finite set, about a set of subsets.
LEMMA SubsetInduction ==
    ASSUME NEW S, IsFiniteSet(S), NEW G, {} \in G,
           \A s \in SUBSET S : s # {} /\ (\A x \in s : s \ {x} \in G) => s \in G
    PROVE  \A s \in SUBSET S : s \in G
<1> DEFINE N == {n \in Nat : \A s \in SUBSET S : Cardinality(s) = n => s \in G}
<1>0. \A s \in SUBSET S : IsFiniteSet(s) /\ Cardinality(s) \in Nat
  BY FS_Subset, FS_CardinalityType
<1>1. 0 \in N
  <2>1. ASSUME NEW s \in SUBSET S, Cardinality(s) = 0 PROVE s \in G
    <3>1. s = {}
      BY <1>0, <2>1, FS_EmptySet
    <3> QED BY <3>1
  <2> QED BY <2>1
<1>2. ASSUME NEW n \in N PROVE n + 1 \in N
  <2>1. ASSUME NEW s \in SUBSET S, Cardinality(s) = n + 1 PROVE s \in G
    <3>1. s # {}
      BY <2>1, FS_EmptySet
    <3>2. ASSUME NEW x \in s PROVE s \ {x} \in G
      <4>1. Cardinality(s \ {x}) = n
        <5>1. IsFiniteSet(s)
          BY <1>0
        <5>2. Cardinality(s \ {x}) = Cardinality(s) - 1
          BY <5>1, SmallerSet
        <5> QED BY <5>2, <2>1
      <4>2. s \ {x} \in SUBSET S
        OBVIOUS
      <4> QED BY <4>1, <4>2
    <3> QED BY <3>1, <3>2
  <2> QED BY <2>1
<1>3. \A n \in Nat : n \in N
  <2> HIDE DEF N
  <2> QED BY <1>1, <1>2, SetInduction
<1> QED BY <1>0, <1>3

\* Two functions that add up agree.
LEMMA SameSum ==
    ASSUME NEW S, IsFiniteSet(S), NEW g, NEW h, AddsUp(g, S), AddsUp(h, S)
    PROVE  g[S] = h[S]
<1> DEFINE G == {s \in SUBSET S : g[s] = h[s]}
<1>1. {} \in G
  BY DEF AddsUp
<1>2. ASSUME NEW s \in SUBSET S, s # {}, \A x \in s : s \ {x} \in G PROVE s \in G
  <2>1. SomeFill(s) \in s
    BY <1>2 DEF SomeFill
  <2>2. g[s \ {SomeFill(s)}] = h[s \ {SomeFill(s)}]
    BY <1>2, <2>1
  <2>3. /\ g[s] = SomeFill(s).qty + g[s \ {SomeFill(s)}]
        /\ h[s] = SomeFill(s).qty + h[s \ {SomeFill(s)}]
    BY <1>2 DEF AddsUp
  <2> QED BY <2>2, <2>3
<1>3. \A s \in SUBSET S : s \in G
  <2> HIDE DEF G
  <2> QED BY <1>1, <1>2, SubsetInduction
<1> QED BY <1>3

\* Sums of quantities are quantities.
LEMMA SumIsNatural ==
    ASSUME NEW S, IsFiniteSet(S), \A f \in S : f.qty \in Nat, NEW g, AddsUp(g, S)
    PROVE  \A s \in SUBSET S : g[s] \in Nat
<1> DEFINE G == {s \in SUBSET S : g[s] \in Nat}
<1>1. {} \in G
  BY DEF AddsUp
<1>2. ASSUME NEW s \in SUBSET S, s # {}, \A x \in s : s \ {x} \in G PROVE s \in G
  <2>1. SomeFill(s) \in s
    BY <1>2 DEF SomeFill
  <2>2. g[s] = SomeFill(s).qty + g[s \ {SomeFill(s)}] /\ SomeFill(s).qty \in Nat
    BY <1>2, <2>1 DEF AddsUp
  <2>3. g[s \ {SomeFill(s)}] \in Nat
    BY <1>2, <2>1
  <2> QED BY <2>2, <2>3
<1>3. \A s \in SUBSET S : s \in G
  <2> HIDE DEF G
  <2> QED BY <1>1, <1>2, SubsetInduction
<1> QED BY <1>3

\* The order in which members are added does not matter.
LEMMA SumRemoves ==
    ASSUME NEW S, IsFiniteSet(S), \A f \in S : f.qty \in Nat, NEW g, AddsUp(g, S)
    PROVE  \A y \in S : g[S] = y.qty + g[S \ {y}]
<1> DEFINE Apart(s) == \A y \in s : g[s] = y.qty + g[s \ {y}]
           G == {s \in SUBSET S : Apart(s)}
<1>0. \A s \in SUBSET S : g[s] \in Nat
  BY SumIsNatural
<1>1. {} \in G
  OBVIOUS
<1>2. ASSUME NEW s \in SUBSET S, s # {}, \A x \in s : s \ {x} \in G PROVE s \in G
  <2> DEFINE x == SomeFill(s)
  <2>1. x \in s
    BY <1>2 DEF SomeFill
  <2>2. g[s] = x.qty + g[s \ {x}]
    BY <1>2 DEF AddsUp
  <2> HIDE DEF x
  <2>3. Apart(s \ {x})
    BY <1>2, <2>1
  <2>5. ASSUME NEW y \in s PROVE g[s] = y.qty + g[s \ {y}]
    <3>1. CASE y = x
      BY <3>1, <2>2
    <3>2. CASE y # x
      <4>1. Apart(s \ {y}) /\ x \in s \ {y} /\ y \in s \ {x}
        BY <1>2, <2>1, <3>2
      <4> DEFINE u == (s \ {x}) \ {y}
      <4>2. u = (s \ {y}) \ {x} /\ u \in SUBSET S
        OBVIOUS
      <4>3. g[s \ {x}] = y.qty + g[u]
        BY <2>3, <4>1
      <4>4. g[s \ {y}] = x.qty + g[u]
        BY <4>1, <4>2
      <4>5. g[u] \in Nat /\ x.qty \in Nat /\ y.qty \in Nat
        BY <1>0, <2>1, <4>2
      <4> HIDE DEF u, Apart, G
      <4> QED BY <2>2, <4>3, <4>4, <4>5
    <3> QED BY <3>1, <3>2
  <2> QED BY <2>5
<1>3. \A s \in SUBSET S : s \in G
  <2> HIDE DEF G
  <2> QED BY <1>1, <1>2, SubsetInduction
<1> QED BY <1>3

\* No records give nothing.
LEMMA TotalOfNone == TotalFilled({}) = 0
<1>1. IsFiniteSet({})
  BY FS_EmptySet
<1> QED BY <1>1, TotalFilledIs DEF AddsUp

\* Taking one record out of a finite set of records.
LEMMA TotalWithout ==
    ASSUME NEW S, IsFiniteSet(S), \A f \in S : f.qty \in Nat
    PROVE  /\ TotalFilled(S) \in Nat
           /\ \A y \in S : TotalFilled(S) = y.qty + TotalFilled(S \ {y})
<1>1. PICK g : AddsUp(g, S) /\ TotalFilled(S) = g[S]
  BY TotalFilledIs
<1>2. /\ g[S] \in Nat
      /\ \A y \in S : g[S] = y.qty + g[S \ {y}]
  BY <1>1, SumRemoves, SumIsNatural
<1>3. ASSUME NEW y \in S PROVE TotalFilled(S \ {y}) = g[S \ {y}]
  <2>1. IsFiniteSet(S \ {y})
    BY FS_Subset
  <2>2. PICK h : AddsUp(h, S \ {y}) /\ TotalFilled(S \ {y}) = h[S \ {y}]
    BY <2>1, TotalFilledIs
  <2>3. AddsUp(g, S \ {y})
    BY <1>1 DEF AddsUp
  <2> QED BY <2>1, <2>2, <2>3, SameSum
<1> QED BY <1>1, <1>2, <1>3

\* Adding one record to a finite set of records.
LEMMA TotalWith ==
    ASSUME NEW S, IsFiniteSet(S), \A f \in S : f.qty \in Nat, NEW y, y.qty \in Nat, y \notin S
    PROVE  /\ IsFiniteSet(S \cup {y})
           /\ TotalFilled(S) \in Nat
           /\ TotalFilled(S \cup {y}) = TotalFilled(S) + y.qty
<1> DEFINE T == S \cup {y}
<1>1. IsFiniteSet(T) /\ (\A f \in T : f.qty \in Nat) /\ y \in T /\ T \ {y} = S
  BY FS_AddElement
<1> HIDE DEF T
<1>2. TotalFilled(T) = y.qty + TotalFilled(T \ {y})
  BY <1>1, TotalWithout
<1>3. TotalFilled(S) \in Nat
  BY TotalWithout
<1> QED BY <1>1, <1>2, <1>3 DEF T

-----------------------------------------------------------------------------
(* The fill records, the orders and the books agree.                       *)

\* The records of a sweep give together what it took.
LEMMA SweepTotal ==
    ASSUME NEW k, NEW state, NEW r, NEW taken, NEW at, \A l \in 1..BookDepth : taken[l] \in Nat
    PROVE  /\ IsFiniteSet(SweepFills(k, state, r, taken, at))
           /\ TotalFilled(SweepFills(k, state, r, taken, at)) = Swept(taken)
<1> DEFINE Rec(l) == [order |-> k, level |-> l, source |-> "depth", at |-> at,
                      price |-> SweptPrice(state, r, l), qty |-> taken[l],
                      snapshot |-> state.snapshot]
           Upto(n) == {Rec(l) : l \in {x \in 1..n : taken[x] > 0}}
           Sums(n, t) == /\ IsFiniteSet(Upto(n)) /\ TotalFilled(Upto(n)) = t
                         /\ \A f \in Upto(n) : f.qty \in Nat
<1>0. \A l \in 1..5 : taken[l] \in Nat
  BY DEF BookDepth
<1>1. Sums(0, 0)
  <2>1. Upto(0) = {}
    OBVIOUS
  <2> QED BY <2>1, TotalOfNone, FS_EmptySet
<1>2. ASSUME NEW n \in 1..5, NEW t \in Nat, Sums(n - 1, t) PROVE Sums(n, t + taken[n])
  <2>1. CASE taken[n] > 0
    <3>1. Upto(n) = Upto(n - 1) \cup {Rec(n)}
      <4>1. {x \in 1..n : taken[x] > 0} = {x \in 1..(n - 1) : taken[x] > 0} \cup {n}
        BY <2>1
      <4> QED BY <4>1
    <3>2. Rec(n) \notin Upto(n - 1)
      <4>1. \A l \in 1..(n - 1) : Rec(l).level # Rec(n).level
        OBVIOUS
      <4> QED BY <4>1
    <3>3. Rec(n).qty = taken[n] /\ taken[n] \in Nat
      BY <1>0
    <3> HIDE DEF Rec, Upto
    <3>4. /\ IsFiniteSet(Upto(n - 1) \cup {Rec(n)})
          /\ TotalFilled(Upto(n - 1) \cup {Rec(n)}) = TotalFilled(Upto(n - 1)) + Rec(n).qty
      BY <1>2, <3>2, <3>3, TotalWith
    <3> QED BY <1>2, <3>1, <3>3, <3>4
  <2>2. CASE ~(taken[n] > 0)
    <3>1. taken[n] = 0
      BY <1>0, <2>2
    <3>2. Upto(n) = Upto(n - 1)
      <4>1. {x \in 1..n : taken[x] > 0} = {x \in 1..(n - 1) : taken[x] > 0}
        BY <2>2
      <4> QED BY <4>1
    <3>3. t + taken[n] = t
      BY <3>1
    <3> HIDE DEF Rec, Upto
    <3> QED BY <1>2, <3>2, <3>3
  <2> QED BY <2>1, <2>2
<1>3. SweepFills(k, state, r, taken, at) = Upto(5)
  BY DEF SweepFills, BookDepth
<1>4. /\ taken[1] \in Nat /\ taken[2] \in Nat /\ taken[3] \in Nat /\ taken[4] \in Nat
      /\ taken[5] \in Nat
  BY <1>0
<1>5. Sums(1, taken[1])
  <2>1. Sums(1, 0 + taken[1])
    BY <1>1, <1>2, <1>4
  <2> HIDE DEF Sums
  <2> QED BY <2>1, <1>4
<1>6. ASSUME NEW n \in 1..4, NEW t \in Nat, Sums(n, t) PROVE Sums(n + 1, t + taken[n + 1])
  <2>1. n + 1 \in 1..5 /\ (n + 1) - 1 = n
    OBVIOUS
  <2> HIDE DEF Sums
  <2> QED BY <1>2, <1>6, <2>1
<1> HIDE DEF Sums
<1>7. Sums(2, taken[1] + taken[2])
  BY <1>4, <1>5, <1>6
<1>8. Sums(3, taken[1] + taken[2] + taken[3])
  BY <1>4, <1>6, <1>7
<1>9. Sums(4, taken[1] + taken[2] + taken[3] + taken[4])
  BY <1>4, <1>6, <1>8
<1>10. Sums(5, taken[1] + taken[2] + taken[3] + taken[4] + taken[5])
  BY <1>4, <1>6, <1>9
<1> QED BY <1>3, <1>10 DEF Swept, Sums

\* The statuses of orders that may still get their fills.
Waiting == {"Scheduled", "Active"}

\* The first part of DepthSoldOnce: an order has filled what its records say.
OrdersExplained ==
    \A k \in Positions : orders[k].filled = TotalFilled({f \in fills : f.order = k})

\* The second part: the consumption of a snapshot is what its records say.
DepthExplained ==
    \A i \in Instruments : HasBook(i) =>
        \A side \in Sides, l \in 1..BookDepth :
            books[i].consumed[side][l] = TotalFilled(SoldFrom(i, side, l))

\* A record belongs to an order that is done with matching, and to a snapshot
\* that has been shown.
RecordsInv ==
    /\ IsFiniteSet(fills)
    /\ \A f \in fills :
         /\ f.order \in Positions
         /\ orders[f.order].status \notin Waiting
         /\ f.source = "depth" => f.snapshot <= books[orders[f.order].req.instrument].snapshot

SoldInv == IndInv /\ RecordsInv /\ OrdersExplained /\ DepthExplained

\* A step in which the orders K get the records new and nothing else is filled.
Trades(K, new) ==
    /\ fills' = fills \cup new
    /\ IsFiniteSet(new) /\ new \subseteq Fill
    /\ K \subseteq Positions
    /\ Positions' = Positions
    /\ \A k \in Positions : /\ orders'[k].req = orders[k].req
                            /\ orders[k].status \notin Waiting => orders'[k].status \notin Waiting
    /\ \A k \in K : /\ orders[k].status \in Waiting
                    /\ orders'[k].filled = TotalFilled({f \in new : f.order = k})
    /\ \A k \in Positions \ K : orders'[k].filled = orders[k].filled
    /\ \A f \in new : f.order \in K /\ orders'[f.order].status \notin Waiting
    /\ \A i \in Instruments : books'[i].snapshot = books[i].snapshot

\* Such a step keeps the records and what they say of the orders.
LEMMA TradesExplained ==
    ASSUME SoldInv, NEW K, NEW new, Trades(K, new),
           \A f \in new : f.source = "depth" =>
               f.snapshot <= books[orders[f.order].req.instrument].snapshot
    PROVE  RecordsInv' /\ OrdersExplained'
<1>1. \A k \in Positions : orders[k].req.instrument \in Instruments
  BY OrderTypes DEF SoldInv, IndInv
<1>2. IsFiniteSet(fills')
  <2>1. IsFiniteSet(fills) /\ IsFiniteSet(new) /\ fills' = fills \cup new
    BY DEF SoldInv, RecordsInv, Trades
  <2> QED BY <2>1, FS_Union
<1>3. ASSUME NEW f \in fills'
      PROVE  /\ f.order \in Positions'
             /\ orders'[f.order].status \notin Waiting
             /\ f.source = "depth" => f.snapshot <= books'[orders'[f.order].req.instrument].snapshot
  <2>1. /\ f.order \in Positions /\ orders'[f.order].status \notin Waiting
        /\ f.source = "depth" => f.snapshot <= books[orders[f.order].req.instrument].snapshot
    BY <1>3 DEF SoldInv, RecordsInv, Trades
  <2> QED BY <1>1, <2>1 DEF Trades
<1>4. RecordsInv'
  BY <1>2, <1>3 DEF RecordsInv
<1>5. ASSUME NEW k \in Positions
      PROVE  orders'[k].filled = TotalFilled({f \in fills' : f.order = k})
  <2>1. CASE k \in K
    <3>1. {f \in fills' : f.order = k} = {f \in new : f.order = k}
      BY <2>1 DEF SoldInv, RecordsInv, Trades
    <3> QED BY <2>1, <3>1 DEF Trades
  <2>2. CASE k \notin K
    <3>1. {f \in fills' : f.order = k} = {f \in fills : f.order = k}
      BY <2>2 DEF Trades
    <3>2. orders'[k].filled = orders[k].filled
      BY <2>2 DEF Trades
    <3> QED BY <3>1, <3>2 DEF SoldInv, OrdersExplained
  <2> QED BY <2>1, <2>2
<1>6. OrdersExplained'
  BY <1>5 DEF OrdersExplained, Trades
<1> QED BY <1>4, <1>6

\* Records that are not of the book leave its account alone.
LEMMA OffBookExplained ==
    ASSUME SoldInv, NEW K, NEW new, Trades(K, new), UNCHANGED books,
           \A f \in new : f.source # "depth"
    PROVE  RecordsInv' /\ OrdersExplained' /\ DepthExplained'
<1>1. RecordsInv' /\ OrdersExplained'
  BY TradesExplained
<1>2. ASSUME NEW i \in Instruments, NEW side \in Sides, NEW l \in 1..BookDepth
      PROVE  SoldFrom(i, side, l)' = SoldFrom(i, side, l)
  <2>1. \A f \in fills : orders'[f.order].req = orders[f.order].req
    BY DEF SoldInv, RecordsInv, Trades
  <2>2. ASSUME NEW f PROVE f \in SoldFrom(i, side, l)' <=> f \in SoldFrom(i, side, l)
    BY <2>1 DEF SoldFrom, Trades
  <2> QED BY <2>2
<1>3. DepthExplained'
  BY <1>2 DEF SoldInv, DepthExplained, HasBook
<1> QED BY <1>1, <1>3

\* What consuming does to the account of a visible book, and to nothing else.
LEMMA ConsumeEffect ==
    ASSUME NEW i \in Instruments, books \in [Instruments -> BookState \cup {NoBook}],
           books[i] \in BookState, NEW side \in Sides, NEW taken, Consume(i, side, taken)
    PROVE  /\ \A l \in 1..BookDepth :
                books'[i].consumed[side][l] = books[i].consumed[side][l] + taken[l]
           /\ \A other \in Sides \ {side} : books'[i].consumed[other] = books[i].consumed[other]
           /\ books'[i].snapshot = books[i].snapshot
           /\ \A j \in Instruments \ {i} : books'[j] = books[j]
<1> DEFINE state == books[i]
           used  == [l \in 1..BookDepth |-> state.consumed[side][l] + taken[l]]
           new   == [state EXCEPT !.consumed[side] = used]
<1>1. state.consumed \in [Sides -> [1..BookDepth -> Nat]]
  BY DEF BookState
<1>2. books' = [books EXCEPT ![i] = new]
  BY <1>1 DEF Consume
<1>3. \A l \in 1..BookDepth : used[l] = state.consumed[side][l] + taken[l]
  OBVIOUS
<1> HIDE DEF used
<1>4. new.snapshot = state.snapshot /\ new.consumed = [state.consumed EXCEPT ![side] = used]
  BY <1>1 DEF BookState
<1> HIDE DEF new, state
<1>5. books'[i] = new /\ \A j \in Instruments \ {i} : books'[j] = books[j]
  BY <1>2
<1>6. new.consumed[side] = used /\ \A other \in Sides \ {side} : new.consumed[other] = state.consumed[other]
  BY <1>1, <1>4
<1> QED BY <1>3, <1>4, <1>5, <1>6 DEF state

\* A sweep of the visible book for one order enters its records and its
\* consumption together.
LEMMA SweepExplained ==
    ASSUME SoldInv, NEW k \in Positions, NEW at \in Nat, NEW q \in Nat,
           HasBook(orders[k].req.instrument),
           Consume(orders[k].req.instrument, orders[k].req.side,
                   Sweep(books[orders[k].req.instrument], orders[k].req, q)),
           Trades({k}, SweepFills(k, books[orders[k].req.instrument], orders[k].req,
                           Sweep(books[orders[k].req.instrument], orders[k].req, q), at))
    PROVE  RecordsInv' /\ OrdersExplained' /\ DepthExplained'
<1> DEFINE r == orders[k].req
           i == r.instrument
           state == books[i]
           taken == Sweep(state, r, q)
           new == SweepFills(k, state, r, taken, at)
           Rec(l) == [order |-> k, level |-> l, source |-> "depth", at |-> at,
                      price |-> SweptPrice(state, r, l), qty |-> taken[l],
                      snapshot |-> state.snapshot]
<1>1. r \in Requests /\ i \in Instruments /\ r.side \in Sides
  BY OrderTypes DEF SoldInv, IndInv, Request
<1>2. books \in [Instruments -> BookState \cup {NoBook}] /\ ConsumedWithinDisplayed /\ fills \subseteq Fill
  BY DEF SoldInv, IndInv, SimTypeOK
<1>3. state \in BookState /\ WithinDisplayed(state)
  BY <1>1, <1>2 DEF HasBook, NoBook, ConsumedWithinDisplayed, WithinDisplayed, Displayed
<1>4. \A l \in 1..BookDepth : taken[l] \in Nat
  BY <1>1, <1>3, SweepBounds
<1>5. new = {Rec(l) : l \in {x \in 1..BookDepth : taken[x] > 0}}
  BY DEF SweepFills
<1>6. Trades({k}, new) /\ Consume(i, r.side, taken)
  OBVIOUS
<1>7. orders[k].status \in Waiting
  BY <1>6 DEF Trades
<1> HIDE DEF taken, new
<1>8. \A f \in new : f.order = k /\ f.source = "depth" /\ f.snapshot = state.snapshot
  BY <1>5
<1>9. state.snapshot \in Nat
  BY <1>3 DEF BookState
<1>10. RecordsInv' /\ OrdersExplained'
  <2>1. \A f \in new : f.source = "depth" => f.snapshot <= books[orders[f.order].req.instrument].snapshot
    BY <1>8, <1>9
  <2> QED BY <1>6, <2>1, TradesExplained
<1>11. ASSUME NEW j \in Instruments, HasBook(j)', NEW side \in Sides, NEW l \in 1..BookDepth
       PROVE  books'[j].consumed[side][l] = TotalFilled(SoldFrom(j, side, l)')
  <2>1. books'[j].snapshot = books[j].snapshot /\ HasBook(j)
    BY <1>6, <1>11 DEF Trades, HasBook
  <2>2. /\ IsFiniteSet(SoldFrom(j, side, l))
        /\ \A f \in SoldFrom(j, side, l) : f.qty \in Nat /\ f.order # k
    <3>1. SoldFrom(j, side, l) \subseteq fills /\ IsFiniteSet(fills)
      BY DEF SoldFrom, SoldInv, RecordsInv
    <3>2. \A f \in fills : f.qty \in Nat /\ f.order # k
      BY <1>2, <1>7 DEF Fill, SoldInv, RecordsInv
    <3> QED BY <3>1, <3>2, FS_Subset
  <2>3. books[j].consumed[side][l] = TotalFilled(SoldFrom(j, side, l))
    BY <2>1 DEF SoldInv, DepthExplained
  <2>4. \A f \in fills : orders'[f.order].req = orders[f.order].req
    BY <1>6 DEF SoldInv, RecordsInv, Trades
  <2>5. fills' = fills \cup new /\ orders'[k].req = r
    BY <1>6 DEF Trades
  <2>6. CASE j = i /\ side = r.side
    <3>1. books'[j].consumed[side][l] = books[j].consumed[side][l] + taken[l]
      <4>1. books'[i].consumed[r.side][l] = books[i].consumed[r.side][l] + taken[l]
        BY <1>1, <1>2, <1>3, <1>6, ConsumeEffect, ZenonT(30)
      <4> QED BY <2>6, <4>1
    <3>2. CASE taken[l] > 0
      <4>1. SoldFrom(j, side, l)' = SoldFrom(j, side, l) \cup {Rec(l)}
        <5>1. \A f \in new : f.level = l <=> f = Rec(l)
          BY <1>5
        <5>2. Rec(l) \in new
          BY <1>5, <3>2
        <5>3. ASSUME NEW f PROVE f \in SoldFrom(j, side, l)' <=> f \in SoldFrom(j, side, l) \cup {Rec(l)}
          <6> HIDE DEF r, Rec
          <6>1. f \in fills => (f \in SoldFrom(j, side, l)' <=> f \in SoldFrom(j, side, l))
            BY <2>1, <2>4, <2>5 DEF SoldFrom
          <6>2. f \in new => (f \in SoldFrom(j, side, l)' <=> f = Rec(l))
            BY <1>8, <2>1, <2>5, <2>6, <5>1 DEF SoldFrom
          <6>3. f \in SoldFrom(j, side, l)' => f \in fills \/ f \in new
            BY <2>5 DEF SoldFrom
          <6>4. f \in SoldFrom(j, side, l) => f \in fills
            BY DEF SoldFrom
          <6>5. f \in new => f \notin SoldFrom(j, side, l)
            BY <1>8, <2>2
          <6> QED BY <5>2, <6>1, <6>2, <6>3, <6>4, <6>5
        <5> QED BY <5>3
      <4>2. Rec(l).qty = taken[l] /\ taken[l] \in Nat /\ Rec(l) \notin SoldFrom(j, side, l)
        <5>1. Rec(l).order = k
          OBVIOUS
        <5> QED BY <1>4, <2>2, <5>1
      <4> HIDE DEF Rec
      <4>3. TotalFilled(SoldFrom(j, side, l) \cup {Rec(l)}) = TotalFilled(SoldFrom(j, side, l)) + Rec(l).qty
        BY <2>2, <4>2, TotalWith
      <4> QED BY <2>3, <3>1, <4>1, <4>2, <4>3
    <3>3. CASE ~(taken[l] > 0)
      <4>1. taken[l] = 0
        BY <1>4, <3>3
      <4>2. SoldFrom(j, side, l)' = SoldFrom(j, side, l)
        <5>1. \A f \in new : f.level # l
          BY <1>5, <3>3
        <5>2. ASSUME NEW f PROVE f \in SoldFrom(j, side, l)' <=> f \in SoldFrom(j, side, l)
          BY <2>1, <2>4, <2>5, <5>1 DEF SoldFrom
        <5> QED BY <5>2
      <4>3. TotalFilled(SoldFrom(j, side, l)) \in Nat
        BY <2>2, TotalWithout
      <4> QED BY <2>3, <3>1, <4>1, <4>2, <4>3
    <3> QED BY <3>2, <3>3
  <2>7. CASE ~(j = i /\ side = r.side)
    <3>1. books'[j].consumed[side][l] = books[j].consumed[side][l]
      <4>1. CASE j # i
        BY <1>2, <1>6, <4>1 DEF Consume
      <4>2. CASE j = i /\ side # r.side
        <5>1. books'[i].consumed[side] = books[i].consumed[side]
          BY <1>1, <1>2, <1>3, <1>6, <4>2, ConsumeEffect
        <5> QED BY <4>2, <5>1
      <4> QED BY <2>7, <4>1, <4>2
    <3>2. SoldFrom(j, side, l)' = SoldFrom(j, side, l)
      <4>1. ASSUME NEW f PROVE f \in SoldFrom(j, side, l)' <=> f \in SoldFrom(j, side, l)
        BY <1>8, <2>1, <2>4, <2>5, <2>7 DEF SoldFrom
      <4> QED BY <4>1
    <3> QED BY <2>3, <3>1, <3>2
  <2> QED BY <2>6, <2>7
<1>12. DepthExplained'
  BY <1>11 DEF DepthExplained
<1> QED BY <1>10, <1>12

\* A new snapshot has sold nothing.
LEMMA PublishExplained ==
    ASSUME SoldInv, NEW i \in Instruments, NEW book \in Books, NEW m \in Nat, NEW v \in Nat,
           NEW c, PublishBook(i, book, m, v, c), UNCHANGED <<orders, fills>>
    PROVE  RecordsInv' /\ OrdersExplained' /\ DepthExplained'
<1> DEFINE new == [book |-> book, matchTime |-> m, visibleAt |-> v,
                   snapshot |-> books[i].snapshot + 1,
                   consumed |-> [s \in Sides |-> [l \in 1..BookDepth |-> 0]]]
<1>1. books \in [Instruments -> BookState \cup {NoBook}] /\ fills \subseteq Fill
  BY DEF SoldInv, IndInv, SimTypeOK
<1>2. \A j \in Instruments : books[j].snapshot \in Nat
  BY <1>1 DEF BookState, NoBook
<1>3. books' = [books EXCEPT ![i] = new]
  BY DEF PublishBook
<1>4. /\ books'[i].snapshot = books[i].snapshot + 1
      /\ \A side \in Sides, l \in 1..BookDepth : books'[i].consumed[side][l] = 0
      /\ \A j \in Instruments \ {i} : books'[j] = books[j]
  BY <1>1, <1>3
<1> HIDE DEF new
<1>5. Positions' = Positions /\ orders' = orders /\ fills' = fills
  BY DEF Positions
<1>6. OrdersExplained'
  BY <1>5 DEF SoldInv, OrdersExplained
<1>7. \A f \in fills : f.snapshot \in Nat /\ orders[f.order].req.instrument \in Instruments
  BY <1>1, OrderTypes DEF Fill, SoldInv, IndInv, RecordsInv
<1>8. \A j \in Instruments : books[j].snapshot <= books'[j].snapshot /\ books'[j].snapshot \in Nat
  <2> SUFFICES ASSUME NEW j \in Instruments
               PROVE  books[j].snapshot <= books'[j].snapshot /\ books'[j].snapshot \in Nat
    OBVIOUS
  <2>1. CASE j = i
    BY <1>2, <1>4, <2>1
  <2>2. CASE j # i
    BY <1>2, <1>4, <2>2
  <2> QED BY <2>1, <2>2
<1>9. RecordsInv'
  <2>1. ASSUME NEW f \in fills, f.source = "depth"
        PROVE  f.snapshot <= books'[orders[f.order].req.instrument].snapshot
    <3> DEFINE j == orders[f.order].req.instrument
    <3>1. f.snapshot <= books[j].snapshot
      BY <2>1 DEF SoldInv, RecordsInv
    <3>2. j \in Instruments /\ f.snapshot \in Nat
      BY <1>7
    <3> HIDE DEF j
    <3> QED BY <1>2, <1>8, <3>1, <3>2 DEF j
  <2> QED BY <1>5, <2>1 DEF SoldInv, RecordsInv
<1>10. ASSUME NEW j \in Instruments, HasBook(j)', NEW side \in Sides, NEW l \in 1..BookDepth
       PROVE  books'[j].consumed[side][l] = TotalFilled(SoldFrom(j, side, l)')
  <2>1. CASE j = i
    <3>1. ASSUME NEW f \in SoldFrom(j, side, l)' PROVE FALSE
      <4>1. /\ f \in fills /\ f.source = "depth" /\ f.snapshot = books'[i].snapshot
            /\ orders[f.order].req.instrument = i
        BY <1>5, <2>1, <3>1 DEF SoldFrom
      <4>2. f.snapshot <= books[i].snapshot
        BY <4>1 DEF SoldInv, RecordsInv
      <4> QED BY <1>2, <1>4, <4>1, <4>2
    <3>2. SoldFrom(j, side, l)' = {}
      BY <3>1
    <3> QED BY <1>4, <2>1, <3>2, TotalOfNone
  <2>2. CASE j # i
    <3>1. books'[j] = books[j]
      BY <1>4, <2>2
    <3>2. SoldFrom(j, side, l)' = SoldFrom(j, side, l)
      BY <1>5, <3>1 DEF SoldFrom
    <3>3. HasBook(j)
      BY <1>10, <3>1 DEF HasBook
    <3> QED BY <3>1, <3>2, <3>3 DEF SoldInv, DepthExplained
  <2> QED BY <2>1, <2>2
<1>11. DepthExplained'
  BY <1>10 DEF DepthExplained
<1> QED BY <1>6, <1>9, <1>11

\* An order that is done with matching stays so.
LEMMA AdvanceStays ==
    ASSUME SoldInv, OrdersAdvance, UNCHANGED clientOrders
    PROVE  /\ Positions' = Positions
           /\ \A k \in Positions :
                /\ orders'[k].req = orders[k].req
                /\ orders[k].status \notin Waiting => orders'[k].status \notin Waiting
<1>1. Positions' = Positions
  BY AdvanceKeeps DEF SoldInv
<1>2. \A k \in Positions : /\ orders'[k].req = orders[k].req
                           /\ orders'[k].status \in Successors(orders[k].status)
                           /\ orders[k].status \in Statuses
  BY OrderTypes DEF SoldInv, IndInv, OrdersAdvance, Advances
<1>3. \A k \in Positions : orders[k].status \notin Waiting => orders'[k].status \notin Waiting
  BY <1>2 DEF Successors, Waiting, Statuses
<1> QED BY <1>1, <1>2, <1>3

\* A step that fills nothing.
LEMMA QuietExplained ==
    ASSUME SoldInv, OrdersAdvance, UNCHANGED <<books, fills, clientOrders>>,
           \A k \in Positions : orders'[k].filled = orders[k].filled
    PROVE  RecordsInv' /\ OrdersExplained' /\ DepthExplained'
<1>1. Trades({}, {})
  BY AdvanceStays, FS_EmptySet DEF Trades
<1> QED BY <1>1, OffBookExplained

\* Activating an order enters what it fills.
LEMMA ActivateExplained ==
    ASSUME SoldInv, NEW k \in Positions, NEW at \in Nat, Activate(k, at), UNCHANGED clientOrders
    PROVE  RecordsInv' /\ OrdersExplained' /\ DepthExplained'
<1> DEFINE r == orders[k].req
           o == orders[k]
           reason == ActivationFailure(r, at)
<1>1. /\ o \in Order /\ r \in Requests /\ r.qty \in Nat \ {0} /\ r.instrument \in Instruments
      /\ r.limit \in Int /\ k \in Nat \ {0}
  BY OrderTypes DEF SoldInv, IndInv
<1>2. o.status = "Scheduled" /\ IndInv
  BY DEF Activate, CanActivate, SoldInv
<1>3. OrdersAdvance /\ MarketKept
  BY <1>2, ActivateStep
<1>4. /\ Positions' = Positions
      /\ \A j \in Positions :
           /\ orders'[j].req = orders[j].req
           /\ orders[j].status \notin Waiting => orders'[j].status \notin Waiting
  BY <1>3, AdvanceStays
<1>5. orders \in Seq(Order) /\ DOMAIN orders = Positions
  BY DEF SoldInv, IndInv, SimTypeOK, Positions
<1>6. CASE FailActivation(k, reason) \/ RestUntilMatched(k)
  <2>1. UNCHANGED <<books, fills>> /\ \A j \in Positions : orders'[j].filled = orders[j].filled
    <3>1. CASE FailActivation(k, reason)
      <4> HIDE DEF reason
      <4> QED BY <1>1, <1>5, <3>1 DEF FailActivation, Order
    <3>2. CASE RestUntilMatched(k)
      BY <1>1, <1>5, <3>2 DEF RestUntilMatched, Order
    <3> QED BY <1>6, <3>1, <3>2
  <2> QED BY <1>3, <2>1, QuietExplained
<1>7. CASE SettleAtActivation(k, at)
  <2> DEFINE f == [order |-> k, level |-> 1, source |-> "settlement", at |-> at,
                   price |-> r.limit, qty |-> r.qty, snapshot |-> 0]
  <2>1. /\ fills' = fills \cup {f} /\ UNCHANGED books
        /\ orders'[k].filled = r.qty /\ orders'[k].status = "Filled"
        /\ \A j \in Positions \ {k} : orders'[j].filled = orders[j].filled
    BY <1>1, <1>5, <1>7 DEF SettleAtActivation, Order
  <2>2. f \in Fill /\ f.order = k /\ f.source = "settlement" /\ f.qty = r.qty
    BY <1>1 DEF Fill, BookDepth
  <2> HIDE DEF f
  <2>3. TotalFilled({f}) = r.qty /\ IsFiniteSet({f})
    <3>1. IsFiniteSet({}) /\ {} \cup {f} = {f}
      BY FS_EmptySet
    <3>2. /\ IsFiniteSet({} \cup {f})
          /\ TotalFilled({} \cup {f}) = TotalFilled({}) + f.qty
      BY <1>1, <2>2, <3>1, TotalWith
    <3> QED BY <1>1, <2>2, <3>1, <3>2, TotalOfNone
  <2>4. {x \in {f} : x.order = k} = {f}
    BY <2>2
  <2>5. Trades({k}, {f})
    BY <1>2, <1>4, <2>1, <2>2, <2>3, <2>4 DEF Trades, Waiting
  <2> QED BY <2>1, <2>2, <2>5, OffBookExplained
<1>8. CASE reason = "none" /\ r.policy = "AtActivation" /\ SweepAtActivation(k, at)
  <2> DEFINE state == books[r.instrument]
             taken == Sweep(state, r, r.qty)
             new == SweepFills(k, state, r, taken, at)
  <2>1. HasBook(r.instrument)
    BY <1>8 DEF ActivationFailure, VisibleBook
  <2>2. /\ Consume(r.instrument, r.side, taken)
        /\ fills' = fills \cup new
        /\ orders'[k].filled = Swept(taken) /\ orders'[k].status \in {"Filled", "Failed"}
        /\ \A j \in Positions \ {k} : orders'[j].filled = orders[j].filled
    BY <1>1, <1>5, <1>8 DEF SweepAtActivation, Order
  <2>3. r.qty \in Nat /\ new \subseteq Fill
    BY <1>1, <1>2, <2>1, <2>2, SweepStep
  <2>4. Trades({k}, new)
    <3>1. books \in [Instruments -> BookState \cup {NoBook}] /\ books[r.instrument] \in BookState
          /\ r.side \in Sides /\ WithinDisplayed(state)
      BY <1>1, <1>2, <2>1, RequestsAssumption
         DEF IndInv, SimTypeOK, HasBook, NoBook, Request, ConsumedWithinDisplayed, WithinDisplayed, Displayed
    <3>2. \A l \in 1..BookDepth : taken[l] \in Nat
      BY <1>1, <2>3, <3>1, SweepBounds
    <3>3. IsFiniteSet(new) /\ TotalFilled(new) = Swept(taken)
      <4> HIDE DEF taken
      <4> QED BY <3>2, SweepTotal
    <3>4. \A i \in Instruments : books'[i].snapshot = books[i].snapshot
      BY <1>1, <2>2, <3>1, ConsumeEffect
    <3>5. \A f \in new : f.order = k
      BY DEF SweepFills
    <3> HIDE DEF new, taken
    <3>6. {f \in new : f.order = k} = new
      BY <3>5
    <3> QED BY <1>2, <1>4, <2>2, <2>3, <3>3, <3>4, <3>5, <3>6 DEF Trades, Waiting
  <2> QED BY <2>1, <2>2, <2>3, <2>4, SweepExplained
<1> QED BY <1>6, <1>7, <1>8 DEF Activate

\* One attempt of a resting order enters what it fills.
LEMMA EvaluateExplained ==
    ASSUME SoldInv, NEW k \in evaluating.todo, EvaluateNext(k), UNCHANGED clientOrders
    PROVE  RecordsInv' /\ OrdersExplained' /\ DepthExplained'
<1> DEFINE r == orders[k].req
           o == orders[k]
           at == evaluating.at
<1>1. k \in Positions /\ at \in Nat /\ o.status = "Active" /\ IndInv
  BY DEF SoldInv, IndInv, SimTypeOK, TodoIsActive
<1>2. /\ o \in Order /\ r \in Requests /\ r.qty \in Nat \ {0} /\ r.instrument \in Instruments
  BY <1>1, OrderTypes DEF IndInv
<1>3. o.filled = 0
  BY <1>1 DEF IndInv, StatusMatchesFilled
<1>4. OrdersAdvance /\ \A j \in Positions \ {k} : orders'[j] = orders[j]
  BY <1>1, EvaluateStep
<1>5. /\ Positions' = Positions
      /\ \A j \in Positions :
           /\ orders'[j].req = orders[j].req
           /\ orders[j].status \notin Waiting => orders'[j].status \notin Waiting
  BY <1>4, AdvanceStays
<1>6. orders \in Seq(Order) /\ DOMAIN orders = Positions
  BY <1>1 DEF IndInv, SimTypeOK, Positions
<1>7. CASE UNCHANGED <<books, fills, orders>>
  BY <1>4, <1>7, QuietExplained
<1>8. CASE /\ CanMatchPassively(r.instrument, at)
           /\ ~ UNCHANGED <<books, fills, orders>>
  <2> DEFINE state == books[r.instrument]
             q == r.qty - o.filled
             taken == Sweep(state, r, q)
             new == SweepFills(k, state, r, taken, at)
             total == o.filled + Swept(taken)
  <2>1. HasBook(r.instrument) /\ q = r.qty /\ q \in Nat
    BY <1>2, <1>3, <1>8 DEF CanMatchPassively, VisibleBook
  <2>2. /\ Consume(r.instrument, r.side, taken)
        /\ fills' = fills \cup new
        /\ orders' = [orders EXCEPT ![k].filled = total, ![k].status = PassiveStatus(r, total)]
    BY <1>8 DEF EvaluateNext, ExecutePassiveOrder
  <2>3. orders'[k].filled = total /\ orders'[k].status = PassiveStatus(r, total)
    BY <1>1, <1>2, <1>6, <2>2 DEF Order
  <2>4. new \subseteq Fill /\ Swept(taken) \in 0..q
    <3> HIDE DEF q
    <3> QED BY <1>1, <2>1, <2>2, SweepStep
  <2>5. Trades({k}, new)
    <3>1. books \in [Instruments -> BookState \cup {NoBook}] /\ books[r.instrument] \in BookState
          /\ r.side \in Sides /\ WithinDisplayed(state)
      BY <1>1, <1>2, <2>1, RequestsAssumption
         DEF IndInv, SimTypeOK, HasBook, NoBook, Request, ConsumedWithinDisplayed, WithinDisplayed, Displayed
    <3>2. \A l \in 1..BookDepth : taken[l] \in Nat
      <4> HIDE DEF q
      <4> QED BY <1>2, <2>1, <3>1, SweepBounds
    <3>3. IsFiniteSet(new) /\ TotalFilled(new) = Swept(taken)
      <4> HIDE DEF taken
      <4> QED BY <3>2, SweepTotal
    <3>4. \A i \in Instruments : books'[i].snapshot = books[i].snapshot
      BY <1>2, <2>2, <3>1, ConsumeEffect
    <3>5. \A f \in new : f.order = k
      BY DEF SweepFills
    <3>6. total = Swept(taken)
      <4> HIDE DEF taken, q
      <4> QED BY <1>3, <2>1, <2>4
    <3>7. orders'[k].status \notin Waiting
      BY <2>3 DEF PassiveStatus, Waiting
    <3>8. orders[k].status \in Waiting
      BY <1>1 DEF Waiting
    <3> HIDE DEF new, taken, total
    <3>9. {f \in new : f.order = k} = new
      BY <3>5
    <3> QED BY <1>1, <1>4, <1>5, <2>2, <2>3, <2>4, <3>3, <3>4, <3>5, <3>6, <3>7, <3>8, <3>9, ZenonT(30)
            DEF Trades
  <2> HIDE DEF q
  <2> QED BY <1>1, <2>1, <2>2, <2>5, SweepExplained
<1> QED BY <1>7, <1>8 DEF EvaluateNext, ExecutePassiveOrder

\* A call auction enters one record for every order it crosses.
LEMMA AuctionExplained ==
    ASSUME SoldInv, NEW i \in Instruments, NEW price \in Int, NEW m \in Nat,
           EvaluateAuctionMatch(i, price, m), UNCHANGED <<books, clientOrders>>
    PROVE  RecordsInv' /\ OrdersExplained' /\ DepthExplained'
<1> DEFINE Crossing(k) == AuctionCandidate(k, i, m) /\ AuctionCrosses(orders[k].req, price)
           K == {k \in Positions : Crossing(k)}
           Rec(k) == [order |-> k, level |-> 1, source |-> "auction", at |-> m, price |-> price,
                      qty |-> orders[k].req.qty, snapshot |-> 0]
           new == {Rec(k) : k \in K}
<1>1. IndInv
  BY DEF SoldInv
<1>2. OrdersAdvance /\ MarketKept
  BY <1>1, AuctionStep
<1>3. /\ Positions' = Positions
      /\ \A j \in Positions :
           /\ orders'[j].req = orders[j].req
           /\ orders[j].status \notin Waiting => orders'[j].status \notin Waiting
  BY <1>2, AdvanceStays
<1>4. fills' = fills \cup new
  BY DEF EvaluateAuctionMatch
<1>5. ASSUME NEW k \in K
      PROVE  /\ orders[k].status \in Waiting
             /\ orders'[k].filled = orders[k].req.qty /\ orders'[k].status \notin Waiting
             /\ Rec(k) \in Fill /\ orders[k].req.qty \in Nat
  <2>1. /\ k \in Positions /\ k \in Nat \ {0} /\ orders[k] \in Order
        /\ orders[k].req.qty \in Nat \ {0}
    BY <1>1, OrderTypes DEF IndInv
  <2>2. orders'[k] = [orders[k] EXCEPT !.status = "Filled", !.filled = orders[k].req.qty]
    BY <2>1 DEF EvaluateAuctionMatch
  <2>3. orders'[k].filled = orders[k].req.qty /\ orders'[k].status = "Filled"
    BY <2>1, <2>2 DEF Order
  <2>4. Rec(k) \in Fill
    BY <2>1 DEF Fill, BookDepth
  <2>5. orders[k].status = "Active"
    BY DEF AuctionCandidate
  <2> QED BY <2>1, <2>3, <2>4, <2>5 DEF Waiting
<1>6. ASSUME NEW k \in Positions \ K PROVE orders'[k].filled = orders[k].filled
  <2>1. orders[k] \in Order
    BY <1>1, OrderTypes DEF IndInv
  <2>2. orders'[k] = orders[k] \/ orders'[k] = [orders[k] EXCEPT !.status = "MatchAttempted"]
    BY <1>6 DEF EvaluateAuctionMatch
  <2> QED BY <2>1, <2>2 DEF Order
<1>7. K \subseteq Positions /\ IsFiniteSet(K)
  <2>1. Positions = 1..Len(orders) /\ Len(orders) \in Nat
    BY <1>1, OrderTypes DEF IndInv
  <2>2. IsFiniteSet(Positions)
    BY <2>1, FS_Interval
  <2> QED BY <2>2, FS_Subset
<1> HIDE DEF K
<1>8. IsFiniteSet(new)
  <2> DEFINE g == [k \in K |-> Rec(k)]
  <2>1. g \in Surjection(K, new)
    <3> HIDE DEF Rec
    <3> QED BY DEF Surjection
  <2> QED BY <1>7, <2>1, FS_Surjection
<1>9. ASSUME NEW k \in K PROVE orders'[k].filled = TotalFilled({f \in new : f.order = k})
  <2>1. {f \in new : f.order = k} = {Rec(k)}
    OBVIOUS
  <2>2. Rec(k).qty = orders[k].req.qty
    OBVIOUS
  <2> HIDE DEF Rec, new
  <2>3. TotalFilled({Rec(k)}) = orders[k].req.qty
    <3>1. IsFiniteSet({}) /\ {} \cup {Rec(k)} = {Rec(k)}
      BY FS_EmptySet
    <3>2. TotalFilled({} \cup {Rec(k)}) = TotalFilled({}) + Rec(k).qty
      BY <1>5, <2>2, <3>1, TotalWith
    <3> QED BY <1>5, <2>2, <3>1, <3>2, TotalOfNone
  <2> QED BY <1>5, <2>1, <2>3
<1>10. \A f \in new : f.order \in K /\ f.source = "auction" /\ f \in Fill
  BY <1>5
<1> HIDE DEF new, Rec
<1>11. Trades(K, new)
  BY <1>3, <1>4, <1>5, <1>6, <1>7, <1>8, <1>9, <1>10 DEF Trades
<1> QED BY <1>10, <1>11, OffBookExplained

\* A submission has filled nothing yet.
LEMMA SubmitExplained ==
    ASSUME SoldInv, NEW origin \in Origin, NEW r \in Requests, Submit(origin, r),
           UNCHANGED <<books, fills>>
    PROVE  RecordsInv' /\ OrdersExplained' /\ DepthExplained'
<1> DEFINE n == Len(orders) + 1
<1>1. IndInv /\ OnlyCancels(orders)
  BY NothingCancelled DEF SoldInv
<1>2. /\ Positions' = Positions \cup {n}
      /\ orders'[n] = SubmittedOrder(origin, r)
      /\ Replaces(orders, r)
      /\ \A k \in Positions : Advances(orders[k], orders'[k])
      /\ StatusMatchesFilled'
  BY <1>1, SubmitStep DEF Submit
<1>3. n \notin Positions
  BY <1>1, OrderTypes DEF IndInv
<1>4. ASSUME NEW k \in Positions
      PROVE  /\ orders'[k].req = orders[k].req
             /\ orders[k].status \notin Waiting => orders'[k].status \notin Waiting
             /\ orders'[k].filled = orders[k].filled
  <2>1. /\ orders'[k].req = orders[k].req
        /\ orders[k].status \notin Waiting => orders'[k].filled = orders[k].filled
    BY <1>2 DEF Advances, Waiting
  <2>2. orders'[k].status = orders[k].status \/ orders'[k].status = "Replaced"
    BY <1>2 DEF Replaces
  <2>3. orders[k].status \in Waiting => orders'[k].filled = 0 /\ orders[k].filled = 0
    BY <1>1, <1>2, <2>2 DEF Waiting, IndInv, StatusMatchesFilled
  <2> QED BY <2>1, <2>2, <2>3 DEF Waiting
<1> HIDE DEF n
<1>5. \A f \in fills : f.order \in Positions /\ orders'[f.order].req = orders[f.order].req
  BY <1>4 DEF SoldInv, RecordsInv
<1>6. RecordsInv'
  BY <1>2, <1>4, <1>5 DEF SoldInv, RecordsInv
<1>7. OrdersExplained'
  <2>1. orders'[n].filled = 0
    BY <1>2 DEF SubmittedOrder
  <2>2. {f \in fills : f.order = n} = {}
    BY <1>3, <1>5
  <2> QED BY <1>2, <1>4, <2>1, <2>2, TotalOfNone DEF SoldInv, OrdersExplained
<1>8. ASSUME NEW i \in Instruments, NEW side \in Sides, NEW l \in 1..BookDepth
      PROVE  SoldFrom(i, side, l)' = SoldFrom(i, side, l)
  BY <1>5 DEF SoldFrom
<1>9. DepthExplained'
  BY <1>8 DEF SoldInv, DepthExplained, HasBook
<1> QED BY <1>6, <1>7, <1>9

\* Changing the status of one order fills nothing.
LEMMA StatusOnly ==
    ASSUME SoldInv, NEW k \in Positions, NEW status, orders' = [orders EXCEPT ![k].status = status]
    PROVE  \A j \in Positions : orders'[j].filled = orders[j].filled
<1>1. orders \in Seq(Order) /\ DOMAIN orders = Positions
  BY DEF SoldInv, IndInv, SimTypeOK, Positions
<1>2. \A j \in Positions : orders[j] \in Order
  BY OrderTypes DEF SoldInv, IndInv
<1> QED BY <1>1, <1>2 DEF Order

\* Every step of the simulator keeps the records in agreement with both sides.
LEMMA SoldNext == SoldInv /\ [SimNext]_simVars => SoldInv'
<1> SUFFICES ASSUME SoldInv, [SimNext]_simVars PROVE SoldInv'
  OBVIOUS
<1>1. IndInv /\ IndInv'
  BY NextInv DEF SoldInv
<1> SUFFICES RecordsInv' /\ OrdersExplained' /\ DepthExplained'
  BY <1>1 DEF SoldInv
<1>2. ASSUME UNCHANGED <<books, orders, fills, clientOrders>>
      PROVE  RecordsInv' /\ OrdersExplained' /\ DepthExplained'
  <2>1. OrdersAdvance
    BY <1>1, <1>2, StayingAdvances, OrderTypes DEF OrdersAdvance, IndInv, SimTypeOK
  <2> QED BY <1>2, <2>1, QuietExplained
<1>3. CASE CallPublishTradingState
  BY <1>2, <1>3 DEF CallPublishTradingState
<1>4. CASE CallPublishBook
  <2>1. PICK i \in Instruments, book \in Books, m \in Times, v \in Times, c \in Conditions :
           /\ PublishBook(i, book, m, v, c)
           /\ UNCHANGED <<orders, clientOrders, fills, evaluating>>
    BY <1>4 DEF CallPublishBook
  <2> QED BY <2>1, PublishExplained, BoundsAssumption
<1>5. CASE CallSubmit
  <2>1. PICK origin \in Origins, r \in Requests :
           Submit(origin, r) /\ UNCHANGED <<books, tradingStates, fills, evaluating>>
    BY <1>5 DEF CallSubmit
  <2> QED BY <2>1, SubmitExplained, BoundsAssumption
<1>6. CASE CallCancel
  <2>1. PICK c \in Clients :
           /\ CancelBeforeActivation(c)
           /\ UNCHANGED <<books, tradingStates, clientOrders, fills, evaluating>>
    BY <1>6 DEF CallCancel
  <2>2. OrdersAdvance
    BY <1>1, <2>1, CancelAdvances
  <2>3. \A j \in Positions : orders'[j].filled = orders[j].filled
    <3>1. clientOrders[c] \in Positions
      BY <1>1, <2>1 DEF CancelBeforeActivation, IndInv, ClientIndexOK
    <3> QED BY <2>1, <3>1, StatusOnly DEF CancelBeforeActivation
  <2> QED BY <2>1, <2>2, <2>3, QuietExplained
<1>7. CASE CallExpire
  <2>1. PICK k \in Positions, at \in Times :
           /\ Expire(k, at)
           /\ UNCHANGED <<books, tradingStates, clientOrders, fills, evaluating>>
    BY <1>7 DEF CallExpire
  <2>2. OrdersAdvance
    BY <1>1, <2>1, ExpireAdvances
  <2>3. \A j \in Positions : orders'[j].filled = orders[j].filled
    BY <2>1, StatusOnly DEF Expire
  <2> QED BY <2>1, <2>2, <2>3, QuietExplained
<1>8. CASE CallActivate
  <2>1. PICK k \in Positions, at \in Times :
           Activate(k, at) /\ UNCHANGED <<tradingStates, clientOrders, evaluating>>
    BY <1>8 DEF CallActivate
  <2> QED BY <2>1, ActivateExplained, BoundsAssumption
<1>9. CASE CallEvaluateActive
  BY <1>2, <1>9 DEF CallEvaluateActive
<1>10. CASE StepEvaluateActive
  <2>1. PICK k \in evaluating.todo :
           /\ EvaluateNext(k) \/ EvaluateAborts(k)
           /\ UNCHANGED <<tradingStates, clientOrders>>
    BY <1>10 DEF StepEvaluateActive
  <2>2. CASE EvaluateNext(k)
    BY <2>1, <2>2, EvaluateExplained
  <2>3. CASE EvaluateAborts(k)
    BY <1>2, <2>1, <2>3 DEF EvaluateAborts
  <2> QED BY <2>1, <2>2, <2>3
<1>11. CASE CallCancelForInterruption
  <2>1. PICK i \in Instruments :
           /\ CancelActiveMarketOrders(i)
           /\ UNCHANGED <<books, tradingStates, clientOrders, fills, evaluating>>
    BY <1>11 DEF CallCancelForInterruption
  <2>2. OrdersAdvance
    BY <1>1, <2>1, InterruptionAdvances
  <2>3. \A j \in Positions : orders[j] \in Order /\ orders'[j].filled = orders[j].filled
    <3>1. \A j \in Positions : orders[j] \in Order
      BY <1>1, OrderTypes DEF IndInv
    <3>2. \A j \in Positions : \/ orders'[j] = orders[j]
                               \/ orders'[j] = [orders[j] EXCEPT !.status = "Cancelled"]
      BY <2>1 DEF CancelActiveMarketOrders, MarketOrdersCancelled, Positions
    <3> QED BY <3>1, <3>2 DEF Order
  <2> QED BY <2>1, <2>2, <2>3, QuietExplained
<1>12. CASE CallEvaluateAuctionMatch
  <2>1. PICK i \in Instruments, price \in AuctionPrices, m \in Times :
           /\ EvaluateAuctionMatch(i, price, m)
           /\ UNCHANGED <<books, tradingStates, clientOrders, evaluating>>
    BY <1>12 DEF CallEvaluateAuctionMatch
  <2> QED BY <2>1, AuctionExplained, BoundsAssumption
<1>13. CASE UNCHANGED simVars
  BY <1>2, <1>13 DEF simVars
<1> QED BY <1>3, <1>4, <1>5, <1>6, <1>7, <1>8, <1>9, <1>10, <1>11, <1>12, <1>13 DEF SimNext

\* Nothing is filled at first.
LEMMA SoldInit == SimInit => SoldInv
<1> SUFFICES ASSUME SimInit PROVE SoldInv
  OBVIOUS
<1>1. Positions = {} /\ fills = {} /\ IndInv
  BY InitInv DEF SimInit, Positions
<1>2. \A i \in Instruments : ~HasBook(i)
  BY DEF SimInit, HasBook
<1> QED BY <1>1, <1>2, FS_EmptySet DEF SoldInv, RecordsInv, OrdersExplained, DepthExplained

\* The fill records explain both sides of every trade, in every state: what each
\* order says it filled, and what was taken of each level of each visible book.
THEOREM DepthIsSoldOnce == SimSpec => []DepthSoldOnce
<1>1. SoldInv => DepthSoldOnce
  BY DEF SoldInv, OrdersExplained, DepthExplained, DepthSoldOnce
<1> QED BY <1>1, SoldInit, SoldNext, PTL DEF SimSpec

-----------------------------------------------------------------------------
(* The run: the controls.                                                  *)

PhaseOf(kind) ==
    CASE kind = "Release"  -> Release
      [] kind = "Timer"    -> Decision
      [] kind = "Expire"   -> Expiry
      [] kind = "Activate" -> Activation
      [] kind = "Feedback" -> Feedback
      [] OTHER             -> Allocation

News == SUBSET (Nat \X Statuses)

ControlRecord ==
    [at : Nat, phase : Nat, seq : Nat, kind : Kinds, ref : Nat \cup Timers \cup Instruments,
     news : News]

IsControl(c) == c \in ControlRecord /\ c.phase = PhaseOf(c.kind)

-----------------------------------------------------------------------------
(* The inductive invariant.                                                *)

\* The controls in a queue q and a batch b, with n the next sequence.
ControlsInv(q, b, n) ==
    /\ n \in Nat
    /\ q \cap b = {}
    /\ \A c \in q \cup b : IsControl(c) /\ c.seq < n
    /\ \A c, d \in q \cup b : c.seq = d.seq => c = d
    /\ \A c \in b, d \in q : d.seq < c.seq => c.at < d.at

Incoming(m, in, es) ==
    m \in {"before", "at"} =>
        \E e \in Events :
            /\ in = <<e>>
            /\ \A n \in DOMAIN es : es[n].at <= e.at
            /\ m = "before" /\ ~Duplicates => \A n \in DOMAIN es : es[n] # e

EventsInv ==
    /\ committed \in Seq(Events)
    /\ \A m, n \in DOMAIN committed : m <= n => committed[m].at <= committed[n].at
    /\ visible \in 0..Len(committed)
    /\ Incoming(mode, incoming, committed)
    /\ ~Duplicates => \A m, n \in DOMAIN committed : committed[m] = committed[n] => m = n

\* The Release and AllocateAuction controls, for es committed events of which
\* v are visible.
ReleaseInv(q, b, es, v) ==
    /\ \A c \in q \cup b : c.kind = "Release" =>
           /\ c.ref \in (v + 1)..Len(es)
           /\ c.at = es[c.ref].at + Latency
    /\ \A n \in (v + 1)..Len(es) : \E c \in q \cup b : c.kind = "Release" /\ c.ref = n
    /\ \A c, d \in q \cup b : c.kind = "Release" /\ d.kind = "Release" =>
           (c.ref < d.ref <=> c.seq < d.seq)
    /\ \A c \in b, d \in q : d.kind = "Release" => c.at < d.at
    /\ \A c \in q \cup b : c.kind = "AllocateAuction" =>
           /\ c.ref \in 1..Len(es)
           /\ c.at = es[c.ref].at
           /\ es[c.ref].clearing # <<>>

QueueInv ==
    /\ ControlsInv(queue, batch, nextSeq)
    /\ EventsInv
    /\ ReleaseInv(queue, batch, committed, visible)

Pending == queue \cup batch

\* Orders and the controls that act on them.
IdentityInv ==
    \A k \in Positions :
        (\A j \in 1..(k - 1) : orders[j].origin # orders[k].origin
                                \/ orders[j].req # orders[k].req)
            => orders[k].id = k

Expires(k) == orders[k].req.expireAt # NoExpiry

ExpiryOf(d, k) == d.kind = "Expire" /\ d.ref = k /\ d.at = orders[k].req.expireAt

\* Activate and Expire controls name an order, by its own identity.
RefsInv ==
    \A c \in Pending : c.kind \in {"Activate", "Expire"} =>
        c.ref \in Positions /\ orders[c.ref].id = c.ref

\* An Expire control is never the last one scheduled: its activation follows.
ExpiryTimed ==
    \A d \in Pending : d.kind = "Expire" =>
        d.at = orders[d.ref].req.expireAt /\ d.seq + 1 < nextSeq

\* While an order can still trade, its expiry is pending as long as its
\* activation is, and was scheduled directly before it.
ActivationTimed ==
    \A a \in Pending : a.kind = "Activate" =>
        /\ a.at = orders[a.ref].req.activateAt
        /\ Expires(a.ref) /\ orders[a.ref].status \in Live =>
             \E d \in Pending : ExpiryOf(d, a.ref) /\ a.seq = d.seq + 1

AwaitsActivation ==
    \A k \in Positions : orders[k].id = k /\ orders[k].status = "Scheduled" =>
        \E a \in Pending : a.kind = "Activate" /\ a.ref = k

\* The expiry of an activated order is pending, and its activation is gone.
AwaitsExpiry ==
    \A k \in Positions : Expires(k) /\ orders[k].status \in Live \ {"Scheduled"} =>
        \E d \in Pending : ExpiryOf(d, k) /\ \A c \in Pending : c.seq # d.seq + 1

\* An expiry that waits in the queue is later than the whole batch, unless its
\* activation waits there too.
ExpiryAhead ==
    \A d \in queue, c \in batch : d.kind = "Expire" =>
        c.at < d.at \/ \E a \in queue : a.seq = d.seq + 1

ActivatedByIdentity ==
    \A k \in Positions : orders[k].status \in Live \ {"Scheduled"} => orders[k].id = k

LifetimeInv ==
    /\ RefsInv
    /\ ExpiryTimed
    /\ ActivationTimed
    /\ AwaitsActivation
    /\ AwaitsExpiry
    /\ ExpiryAhead
    /\ ActivatedByIdentity

EvaluatingInv ==
    \A k \in evaluating.todo : Expires(k) => evaluating.at < orders[k].req.expireAt

FillsInv ==
    /\ \A f \in fills : f.order \in Positions
    /\ FillsWithinLifetime

\* No callback has two origins, and no two callbacks have the same.
OriginInv ==
    ~Duplicates =>
        \A k \in Positions :
            /\ orders[k].id = k
            /\ orders[k].origin.source = "event" => orders[k].origin.ref \in 1..visible
            /\ orders[k].origin.source = "control" =>
                 /\ orders[k].origin.ref < nextSeq
                 /\ \A c \in Pending : c.seq # orders[k].origin.ref

\* The strategy was told of a status, or is going to be.
Hears(k, status, T, P) ==
    <<k, status>> \in T \/ \E c \in P : c.kind = "Feedback" /\ <<k, status>> \in c.news

ToldInv == \A k \in Positions : Hears(k, orders[k].status, told, Pending)

TimersInv ==
    /\ timers \in [Timers -> Nat]
    /\ \A t \in Timers : timers[t] # 0 =>
          \/ timers[t] \in fired
          \/ \E c \in Pending : c.kind = "Timer" /\ c.ref = t /\ c.seq = timers[t]
    /\ \A c \in Pending : c.kind = "Timer" => c.ref \in Timers

IsShown(i, b) == \E e \in Events : e.instrument = i /\ e.book # <<>> /\ e.book[1] = b

\* No trading state or book is newer than the newest of v visible events, and
\* a book is that of an event of its instrument.
ShownBy(ts, bs, es, v) ==
    \A i \in Instruments :
        /\ ts[i].visibleAt # NoState.visibleAt =>
             /\ v > 0
             /\ ts[i].matchTime <= es[v].at
             /\ ts[i].visibleAt <= es[v].at + Latency
        /\ bs[i].snapshot # NoBook.snapshot =>
             /\ v > 0
             /\ bs[i].matchTime <= es[v].at
             /\ bs[i].visibleAt <= es[v].at + Latency
             /\ IsShown(i, bs[i].book)

VisibleInv == ShownBy(tradingStates, books, committed, visible)

DoneInv == mode = "done" => queue = {} /\ batch = {} /\ evaluating.todo = {}

OrderedActivations ==
    \A a, b \in Pending :
        a.kind = "Activate" /\ b.kind = "Activate" /\ a.ref < b.ref => a.seq < b.seq

-----------------------------------------------------------------------------
(* The control queue.                                                      *)

\* The control a batch continues with exists: keys are totally ordered.
LEMMA CurrentIsFirst ==
    ASSUME ControlsInv(queue, batch, nextSeq), batch # {}
    PROVE  /\ Current \in batch
           /\ \A d \in batch : Current = d \/ KeyBefore(Current, d)
<1>1. \A c \in batch : c.at \in Nat /\ c.phase \in Nat /\ c.seq \in Nat
  BY DEF ControlsInv, IsControl, ControlRecord
<1>2. \A c, d \in batch : c.seq = d.seq => c = d
  BY DEF ControlsInv
<1> DEFINE ats == {c.at : c \in batch}
<1>3. PICK t \in ats : \A u \in ats : t <= u
  <2>1. ats \in SUBSET Nat /\ ats # {}
    BY <1>1
  <2> HIDE DEF ats
  <2> QED BY <2>1, LeastMember
<1> DEFINE first == {c \in batch : c.at = t}
           phases == {c.phase : c \in first}
<1>4. PICK p \in phases : \A u \in phases : p <= u
  <2>1. phases \in SUBSET Nat /\ phases # {}
    BY <1>1, <1>3
  <2> HIDE DEF phases
  <2> QED BY <2>1, LeastMember
<1> DEFINE rest == {c \in first : c.phase = p}
           seqs == {c.seq : c \in rest}
<1>5. PICK s \in seqs : \A u \in seqs : s <= u
  <2>1. seqs \in SUBSET Nat /\ seqs # {}
    BY <1>1, <1>4
  <2> HIDE DEF seqs
  <2> QED BY <2>1, LeastMember
<1>6. PICK c \in rest : c.seq = s
  BY <1>5
<1>7. ASSUME NEW d \in batch PROVE c = d \/ KeyBefore(c, d)
  <2>1. c \in batch /\ c.at = t /\ c.phase = p /\ c.seq = s
    BY <1>6
  <2>2. t <= d.at /\ (d.at = t => p <= d.phase) /\ (d.at = t /\ d.phase = p => s <= d.seq)
    BY <1>3, <1>4, <1>5
  <2> HIDE DEF ats, phases, seqs, first, rest
  <2> QED BY <2>1, <2>2, <1>1, <1>2 DEF KeyBefore
<1>8. \E x \in batch : \A d \in batch : x = d \/ KeyBefore(x, d)
  BY <1>6, <1>7
<1> QED BY <1>8 DEF Current

\* Controls numbered from n, with m the sequence after the last.
Numbered(S, n, m) ==
    /\ m \in Nat /\ n <= m
    /\ \A c \in S : IsControl(c) /\ n <= c.seq /\ c.seq < m
    /\ \A c, d \in S : c.seq = d.seq => c = d

\* Scheduling while a batch is processed.
LEMMA AddControls ==
    ASSUME NEW q, NEW b, NEW n, NEW S, NEW m, NEW b2,
           ControlsInv(q, b, n), Numbered(S, n, m), b2 \subseteq b
    PROVE  ControlsInv(q \cup S, b2, m)
<1>1. \A c \in q \cup b \cup S : IsControl(c) /\ c.seq \in Nat /\ c.seq < m
  BY DEF ControlsInv, Numbered, IsControl, ControlRecord
<1>2. n \in Nat /\ m \in Nat /\ n <= m
  BY DEF ControlsInv, Numbered
<1>3. \A c \in q \cup b, d \in S : c.seq < d.seq
  BY <1>1, <1>2 DEF ControlsInv, Numbered
<1>4. (q \cup S) \cap b2 = {}
  <2>1. \A c \in S : c \notin b
    BY <1>1, <1>3
  <2> QED BY <2>1 DEF ControlsInv
<1>5. \A c, d \in q \cup S \cup b2 : c.seq = d.seq => c = d
  BY <1>1, <1>3 DEF ControlsInv, Numbered
<1>6. \A c \in b2, d \in q \cup S : d.seq < c.seq => c.at < d.at
  BY <1>1, <1>3 DEF ControlsInv
<1> QED BY <1>1, <1>2, <1>4, <1>5, <1>6 DEF ControlsInv

\* The controls handlers schedule: neither releases nor auction matches.
Unsequenced ==
    {c \in ControlRecord : /\ c.phase = PhaseOf(c.kind)
                           /\ c.kind \notin {"Release", "AllocateAuction"}}

Handlers(S) == \A c \in S : c.kind \notin {"Release", "AllocateAuction"}

\* schedule() numbers the controls of a sequence.
LEMMA SequencedIsNumbered ==
    ASSUME nextSeq \in Nat, NEW cs \in Seq(Unsequenced)
    PROVE  /\ Numbered(Sequenced(cs), nextSeq, nextSeq + Len(cs))
           /\ Handlers(Sequenced(cs))
<1>1. Len(cs) \in Nat /\ DOMAIN cs = 1..Len(cs) /\ \A j \in 1..Len(cs) : cs[j] \in Unsequenced
  BY LenProperties, ElementOfSeq
<1> DEFINE F(j) == [cs[j] EXCEPT !.seq = nextSeq + j - 1]
<1>2. ASSUME NEW j \in 1..Len(cs)
      PROVE  /\ F(j) \in ControlRecord /\ F(j).phase = PhaseOf(F(j).kind)
             /\ F(j).kind \notin {"Release", "AllocateAuction"}
             /\ F(j).seq = nextSeq + j - 1
  <2>1. cs[j] \in ControlRecord /\ cs[j].phase = PhaseOf(cs[j].kind)
        /\ cs[j].kind \notin {"Release", "AllocateAuction"}
    BY <1>1 DEF Unsequenced
  <2>2. nextSeq + j - 1 \in Nat
    BY <1>1
  <2>3. F(j).kind = cs[j].kind /\ F(j).phase = cs[j].phase /\ F(j).seq = nextSeq + j - 1
        /\ F(j) \in ControlRecord
    BY <2>1, <2>2 DEF ControlRecord
  <2> QED BY <2>1, <2>3
<1>3. \A c \in Sequenced(cs) : \E j \in 1..Len(cs) : c = F(j)
  BY <1>1 DEF Sequenced
<1> HIDE DEF F
<1>4. \A c \in Sequenced(cs) : IsControl(c) /\ nextSeq <= c.seq /\ c.seq < nextSeq + Len(cs)
                                 /\ c.kind \notin {"Release", "AllocateAuction"}
  <2> SUFFICES ASSUME NEW c \in Sequenced(cs)
               PROVE  IsControl(c) /\ nextSeq <= c.seq /\ c.seq < nextSeq + Len(cs)
                       /\ c.kind \notin {"Release", "AllocateAuction"}
    OBVIOUS
  <2>1. PICK j \in 1..Len(cs) : c = F(j)
    BY <1>3
  <2>2. c.seq = nextSeq + j - 1 /\ IsControl(c) /\ c.kind \notin {"Release", "AllocateAuction"}
    BY <2>1, <1>2 DEF IsControl
  <2> QED BY <2>2, <1>1
<1>5. \A c, d \in Sequenced(cs) : c.seq = d.seq => c = d
  <2> SUFFICES ASSUME NEW c \in Sequenced(cs), NEW d \in Sequenced(cs), c.seq = d.seq
               PROVE  c = d
    OBVIOUS
  <2>1. PICK j \in 1..Len(cs), k \in 1..Len(cs) : c = F(j) /\ d = F(k)
    BY <1>3
  <2>2. nextSeq + j - 1 = nextSeq + k - 1
    BY <2>1, <1>2
  <2>3. j = k
    BY <2>2
  <2> QED BY <2>1, <2>3
<1> QED BY <1>1, <1>4, <1>5 DEF Numbered, Handlers

\* Controls are appended to sequences of controls.
LEMMA OneControl ==
    ASSUME NEW at \in Nat, NEW kind \in Kinds \ {"Release", "AllocateAuction"},
           NEW ref \in Nat \cup Timers \cup Instruments, NEW news \in News
    PROVE  Control(at, PhaseOf(kind), kind, ref, news) \in Unsequenced
<1>1. PhaseOf(kind) \in Nat
  BY DEF PhaseOf, Release, Decision, Expiry, Activation, Feedback, Allocation
<1> QED BY <1>1 DEF Control, Unsequenced, ControlRecord

-----------------------------------------------------------------------------
(* Releases.                                                               *)

\* A handler that releases nothing leaves the pending releases as they are.
LEMMA KeepReleases ==
    ASSUME NEW q, NEW b, NEW es, NEW v, NEW S, NEW b2,
           ReleaseInv(q, b, es, v), Handlers(S), b2 \subseteq b,
           \A c \in b \ b2 : c.kind # "Release"
    PROVE  ReleaseInv(q \cup S, b2, es, v)
<1>1. \A c \in q \cup S \cup b2 : c.kind \in {"Release", "AllocateAuction"} => c \in q \cup b2
  BY DEF Handlers
<1>2. \A c \in q \cup b : c.kind = "Release" => c \in q \cup b2
  OBVIOUS
<1>3. \A c \in q \cup S \cup b2 : c.kind = "Release" =>
         c.ref \in (v + 1)..Len(es) /\ c.at = es[c.ref].at + Latency
  BY <1>1 DEF ReleaseInv
<1>4. \A n \in (v + 1)..Len(es) :
         \E c \in q \cup S \cup b2 : c.kind = "Release" /\ c.ref = n
  BY <1>2 DEF ReleaseInv
<1>5. \A c, d \in q \cup S \cup b2 : c.kind = "Release" /\ d.kind = "Release" =>
         (c.ref < d.ref <=> c.seq < d.seq)
  BY <1>1 DEF ReleaseInv
<1>6. \A c \in b2, d \in q \cup S : d.kind = "Release" => c.at < d.at
  BY DEF ReleaseInv, Handlers
<1>7. \A c \in q \cup S \cup b2 : c.kind = "AllocateAuction" =>
         /\ c.ref \in 1..Len(es)
         /\ c.at = es[c.ref].at
         /\ es[c.ref].clearing # <<>>
  BY <1>1 DEF ReleaseInv
<1> QED BY <1>3, <1>4, <1>5, <1>6, <1>7 DEF ReleaseInv

\* Releasing the event after the v-th.
LEMMA ReleaseOne ==
    ASSUME NEW q, NEW b, NEW n, NEW es \in Seq(Events), NEW v \in 0..Len(es), NEW S,
           NEW c \in b, ControlsInv(q, b, n), ReleaseInv(q, b, es, v), Handlers(S),
           c.kind = "Release", c.ref = v + 1
    PROVE  ReleaseInv(q \cup S, b \ {c}, es, v + 1) /\ v + 1 \in 0..Len(es)
<1>1. Len(es) \in Nat
  BY LenProperties
<1>2. v + 1 \in 1..Len(es)
  BY <1>1 DEF ReleaseInv
<1>3. \A d \in (q \cup S) \cup (b \ {c}) :
         d.kind \in {"Release", "AllocateAuction"} => d \in q \cup b /\ d # c
  BY DEF Handlers, ControlsInv
<1>4. \A d \in q \cup b : d.kind = "Release" /\ d.ref = v + 1 => d = c
  <2> SUFFICES ASSUME NEW d \in q \cup b, d.kind = "Release", d.ref = v + 1 PROVE d = c
    OBVIOUS
  <2>1. ~(c.seq < d.seq) /\ ~(d.seq < c.seq)
    BY <1>1 DEF ReleaseInv
  <2>2. c.seq \in Nat /\ d.seq \in Nat
    BY DEF ControlsInv, IsControl, ControlRecord
  <2>3. c.seq = d.seq
    BY <2>1, <2>2
  <2> QED BY <2>3 DEF ControlsInv
<1>5. \A d \in (q \cup S) \cup (b \ {c}) : d.kind = "Release" =>
         d.ref \in ((v + 1) + 1)..Len(es) /\ d.at = es[d.ref].at + Latency
  <2> SUFFICES ASSUME NEW d \in (q \cup S) \cup (b \ {c}), d.kind = "Release"
               PROVE  d.ref \in ((v + 1) + 1)..Len(es) /\ d.at = es[d.ref].at + Latency
    OBVIOUS
  <2>1. d \in q \cup b /\ d.ref # v + 1
    BY <1>3, <1>4
  <2>2. d.ref \in (v + 1)..Len(es) /\ d.at = es[d.ref].at + Latency
    BY <2>1 DEF ReleaseInv
  <2> QED BY <2>1, <2>2, <1>1
<1>6. \A k \in ((v + 1) + 1)..Len(es) :
         \E d \in (q \cup S) \cup (b \ {c}) : d.kind = "Release" /\ d.ref = k
  <2> SUFFICES ASSUME NEW k \in ((v + 1) + 1)..Len(es)
               PROVE  \E d \in (q \cup S) \cup (b \ {c}) : d.kind = "Release" /\ d.ref = k
    OBVIOUS
  <2>1. k \in (v + 1)..Len(es) /\ k # v + 1
    BY <1>1
  <2>2. PICK d \in q \cup b : d.kind = "Release" /\ d.ref = k
    BY <2>1 DEF ReleaseInv
  <2> QED BY <2>1, <2>2
<1>7. \A d, f \in (q \cup S) \cup (b \ {c}) : d.kind = "Release" /\ f.kind = "Release" =>
         (d.ref < f.ref <=> d.seq < f.seq)
  BY <1>3 DEF ReleaseInv
<1>8. \A d \in b \ {c}, f \in q \cup S : f.kind = "Release" => d.at < f.at
  BY DEF ReleaseInv, Handlers
<1>9. \A d \in (q \cup S) \cup (b \ {c}) : d.kind = "AllocateAuction" =>
         /\ d.ref \in 1..Len(es)
         /\ d.at = es[d.ref].at
         /\ es[d.ref].clearing # <<>>
  BY <1>3 DEF ReleaseInv
<1> QED BY <1>1, <1>2, <1>5, <1>6, <1>7, <1>8, <1>9 DEF ReleaseInv

\* The control being processed.
LEMMA CurrentControl ==
    ASSUME QueueInv, NEW kind, Processing(kind)
    PROVE  /\ Current \in batch /\ Current.kind = kind /\ IsControl(Current)
           /\ Current.at \in Nat /\ Current.seq \in Nat
           /\ \A d \in batch : Current = d \/ KeyBefore(Current, d)
<1>1. Current \in batch /\ Current.kind = kind
      /\ \A d \in batch : Current = d \/ KeyBefore(Current, d)
  BY CurrentIsFirst DEF QueueInv, Processing
<1>2. IsControl(Current)
  BY <1>1 DEF QueueInv, ControlsInv
<1> QED BY <1>1, <1>2 DEF IsControl, ControlRecord

\* A release that is processed is that of the next event: OccurrenceMatches
\* never fails.
LEMMA ReleaseIsNext ==
    ASSUME QueueInv, Processing("Release")
    PROVE  Current.ref = visible + 1
<1> DEFINE c == Current
<1>1. c \in batch /\ c.kind = "Release" /\ \A d \in batch : c = d \/ KeyBefore(c, d)
  BY CurrentControl
<1> HIDE DEF c
<1>2. Len(committed) \in Nat /\ visible \in Nat
  BY LenProperties DEF QueueInv, EventsInv
<1>3. c.ref \in (visible + 1)..Len(committed)
  BY <1>1 DEF QueueInv, ReleaseInv
<1>4. visible + 1 \in (visible + 1)..Len(committed)
  BY <1>2, <1>3
<1>5. PICK d \in queue \cup batch : d.kind = "Release" /\ d.ref = visible + 1
  BY <1>4 DEF QueueInv, ReleaseInv
<1>6. c.seq \in Nat /\ d.seq \in Nat /\ c.at \in Nat /\ d.at \in Nat
      /\ c.phase = d.phase /\ c.phase \in Nat
  BY <1>1, <1>5 DEF QueueInv, ControlsInv, IsControl, ControlRecord
<1> SUFFICES ASSUME c.ref > visible + 1 PROVE FALSE
  BY <1>2, <1>3 DEF c
<1>7. d.seq < c.seq
  BY <1>1, <1>2, <1>3, <1>5 DEF QueueInv, ReleaseInv
<1>8. c.at = committed[c.ref].at + Latency /\ d.at = committed[d.ref].at + Latency
  BY <1>1, <1>5 DEF QueueInv, ReleaseInv
<1>9. committed[d.ref].at <= committed[c.ref].at /\ committed[d.ref].at \in Nat
      /\ committed[c.ref].at \in Nat /\ Latency \in Nat
  <2>1. c.ref \in DOMAIN committed /\ d.ref \in DOMAIN committed /\ d.ref <= c.ref
    BY <1>2, <1>3, <1>5, LenProperties DEF QueueInv, EventsInv
  <2>2. committed[c.ref] \in Events /\ committed[d.ref] \in Events
    BY <2>1, <1>2, ElementOfSeq, LenProperties DEF QueueInv, EventsInv
  <2> QED BY <2>1, <2>2, RunnerAssumption DEF QueueInv, EventsInv, Event
<1>10. d.at <= c.at
  BY <1>8, <1>9
<1>11. CASE d \in queue
  <2>1. c.at < d.at
    BY <1>1, <1>5, <1>11 DEF QueueInv, ReleaseInv
  <2> QED BY <2>1, <1>6, <1>10
<1>12. CASE d \in batch
  BY <1>1, <1>6, <1>7, <1>10, <1>12 DEF KeyBefore
<1> QED BY <1>11, <1>12

\* A control and the sequence it gets.
LEMMA NumberedControl ==
    ASSUME NEW at \in Nat, NEW kind \in Kinds, NEW ref \in Nat \cup Timers \cup Instruments,
           NEW news \in News, NEW s \in Nat
    PROVE  LET c == [Control(at, PhaseOf(kind), kind, ref, news) EXCEPT !.seq = s]
           IN  /\ c \in ControlRecord /\ c.at = at /\ c.kind = kind /\ c.ref = ref
               /\ c.phase = PhaseOf(kind) /\ c.seq = s /\ c.news = news
<1>1. PhaseOf(kind) \in Nat
  BY DEF PhaseOf, Release, Decision, Expiry, Activation, Feedback, Allocation
<1> QED BY <1>1 DEF Control, ControlRecord

\* Popping every control before or at a time.
LEMMA PopKeeps ==
    ASSUME QueueInv, batch = {}, NEW T \in SUBSET queue,
           \A c \in T, d \in queue \ T : c.at < d.at
    PROVE  /\ ControlsInv(queue \ T, T, nextSeq)
           /\ ReleaseInv(queue \ T, T, committed, visible)
<1>1. (queue \ T) \cup T = queue \cup batch /\ (queue \ T) \cap T = {}
  OBVIOUS
<1>2. ControlsInv(queue \ T, T, nextSeq)
  BY <1>1 DEF QueueInv, ControlsInv
<1>3. \A c \in T, d \in queue \ T : d.kind = "Release" => c.at < d.at
  OBVIOUS
<1>4. ReleaseInv(queue \ T, T, committed, visible)
  BY <1>1, <1>3 DEF QueueInv, ReleaseInv
<1> QED BY <1>2, <1>4

\* A batch is all there is before or at a time.
LEMMA PopTakesAll ==
    ASSUME QueueInv, PopBatch
    PROVE  /\ batch = {} /\ batch' \in SUBSET queue /\ queue' = queue \ batch'
           /\ \A c \in batch', d \in queue' : c.at < d.at
<1>1. \A c \in queue : c.at \in Nat
  BY DEF QueueInv, ControlsInv, IsControl, ControlRecord
<1>2. batch = {}
  BY DEF PopBatch, Ready
<1>3. CASE mode = "before" /\ Pop(DueBefore(incoming[1].at))
  <2>1. incoming[1].at \in Nat
    BY <1>3, RunnerAssumption DEF QueueInv, EventsInv, Incoming, Event
  <2> QED BY <1>1, <1>2, <1>3, <2>1 DEF Pop, DueBefore
<1>4. CASE mode = "at" /\ IsNextTime(incoming[1].at) /\ Pop(DueAt(incoming[1].at))
  BY <1>1, <1>2, <1>4 DEF Pop, DueAt, IsNextTime
<1>5. CASE \E t \in {c.at : c \in queue} : IsNextTime(t) /\ Pop(DueAt(t))
  BY <1>1, <1>2, <1>5 DEF Pop, DueAt, IsNextTime
<1> QED BY <1>3, <1>4, <1>5 DEF PopBatch

\* Popping a batch keeps the queue: what is left behind is later than it.
LEMMA PopStep ==
    ASSUME QueueInv, PopBatch
    PROVE  QueueInv'
<1>1. /\ batch = {} /\ batch' \in SUBSET queue /\ queue' = queue \ batch'
      /\ \A c \in batch', d \in queue' : c.at < d.at
  BY PopTakesAll
<1>2. UNCHANGED <<committed, visible, nextSeq, mode, incoming>>
  BY DEF PopBatch
<1>3. /\ ControlsInv(queue \ batch', batch', nextSeq)
      /\ ReleaseInv(queue \ batch', batch', committed, visible)
  BY <1>1, PopKeeps
<1>4. EventsInv'
  BY <1>2 DEF QueueInv, EventsInv
<1>5. ControlsInv(queue, batch, nextSeq)' /\ ReleaseInv(queue, batch, committed, visible)'
  BY <1>1, <1>2, <1>3
<1> QED BY <1>4, <1>5 DEF QueueInv

\* Committing an event: its release is the last one pending.
LEMMA CommitStep ==
    ASSUME QueueInv, CommitEvent
    PROVE  /\ QueueInv'
           /\ \E S, m : /\ queue' = queue \cup S /\ nextSeq' = m /\ Numbered(S, nextSeq, m)
                        /\ \A c \in S : c.kind \in {"Release", "AllocateAuction"}
<1> DEFINE n == Len(committed) + 1
<1>1. /\ batch = {} /\ mode = "before" /\ mode' = "at"
      /\ UNCHANGED <<visible, batch, incoming>>
  BY DEF CommitEvent, Ready
<1>2. PICK e \in Events :
        /\ incoming = <<e>>
        /\ \A k \in DOMAIN committed : committed[k].at <= e.at
        /\ ~Duplicates => \A k \in DOMAIN committed : committed[k] # e
  BY <1>1 DEF QueueInv, EventsInv, Incoming
<1>3. /\ e.at \in Nat /\ Latency \in Nat
      /\ committed \in Seq(Events) /\ Len(committed) \in Nat /\ DOMAIN committed = 1..Len(committed)
      /\ visible \in 0..Len(committed)
      /\ \A k \in 1..Len(committed) : committed[k] \in Events /\ committed[k].at \in Nat
  <2>1. committed \in Seq(Events) /\ visible \in 0..Len(committed)
    BY DEF QueueInv, EventsInv
  <2>2. \A k \in 1..Len(committed) : committed[k] \in Events
    BY <2>1, ElementOfSeq
  <2> QED BY <2>1, <2>2, LenProperties, RunnerAssumption DEF Event
<1> DEFINE es == committed \o <<e>>
<1>4. /\ es \in Seq(Events) /\ Len(es) = n /\ DOMAIN es = 1..n
      /\ \A k \in 1..Len(committed) : es[k] = committed[k]
      /\ es[n] = e
  <2>1. es = Append(committed, e)
    BY <1>3
  <2> HIDE DEF es
  <2> QED BY <2>1, <1>3, AppendProperties, LenProperties
<1>5. committed' = es
  BY <1>2 DEF CommitEvent
<1> DEFINE auction == /\ e.condition.matching = "CallAuction"
                      /\ e.clearing # <<>>
                      /\ NeedsAuctionMatch(e.instrument, e.at)
           match == Control(e.at, Allocation, "AllocateAuction", n, {})
           release == Control(e.at + Latency, Release, "Release", n, {})
           m == IF auction THEN [match EXCEPT !.seq = nextSeq] ELSE [release EXCEPT !.seq = nextSeq]
           r == [release EXCEPT !.seq = IF auction THEN nextSeq + 1 ELSE nextSeq]
           N == IF auction THEN nextSeq + 2 ELSE nextSeq + 1
<1>6. nextSeq \in Nat
  BY DEF QueueInv, ControlsInv
<1>7. queue' = queue \cup {m, r} /\ nextSeq' = N
  <2>1. Schedule(IF auction THEN <<match, release>> ELSE <<release>>)
    BY <1>2 DEF CommitEvent
  <2>2. CASE auction
    <3>1. Sequenced(<<match, release>>) = {[match EXCEPT !.seq = nextSeq],
                                           [release EXCEPT !.seq = nextSeq + 1]}
      <4>1. DOMAIN <<match, release>> = {1, 2}
        OBVIOUS
      <4>2. nextSeq + 1 - 1 = nextSeq /\ nextSeq + 2 - 1 = nextSeq + 1
        BY <1>6
      <4> HIDE DEF match, release
      <4> QED BY <4>1, <4>2 DEF Sequenced
    <3>2. Len(<<match, release>>) = 2
      OBVIOUS
    <3> QED BY <2>1, <2>2, <3>1, <3>2 DEF Schedule
  <2>3. CASE ~auction
    <3>1. Sequenced(<<release>>) = {[release EXCEPT !.seq = nextSeq]}
      <4>1. DOMAIN <<release>> = {1}
        OBVIOUS
      <4>2. nextSeq + 1 - 1 = nextSeq
        BY <1>6
      <4> HIDE DEF match, release
      <4> QED BY <4>1, <4>2 DEF Sequenced
    <3>2. Len(<<release>>) = 1
      OBVIOUS
    <3> QED BY <2>1, <2>3, <3>1, <3>2 DEF Schedule
  <2> QED BY <2>2, <2>3
<1>8. /\ r.kind = "Release" /\ r.at = e.at + Latency /\ r.ref = n /\ r.phase = Release
      /\ r.seq = (IF auction THEN nextSeq + 1 ELSE nextSeq) /\ r \in ControlRecord
      /\ m \in ControlRecord /\ m.ref = n /\ m.seq = nextSeq
      /\ auction => m.kind = "AllocateAuction" /\ m.at = e.at /\ m.phase = Allocation
      /\ ~auction => m = r
  <2>1. Release = PhaseOf("Release") /\ Allocation = PhaseOf("AllocateAuction")
    BY DEF PhaseOf
  <2>2. /\ "Release" \in Kinds /\ "AllocateAuction" \in Kinds /\ {} \in News
        /\ e.at \in Nat /\ e.at + Latency \in Nat /\ n \in Nat /\ nextSeq + 1 \in Nat
    BY <1>3, <1>6 DEF Kinds, News
  <2>3. CASE auction
    <3>1. r = [release EXCEPT !.seq = nextSeq + 1] /\ m = [match EXCEPT !.seq = nextSeq]
      BY <2>3
    <3> HIDE DEF m, r, n, auction
    <3> QED BY <1>6, <2>1, <2>2, <2>3, <3>1, NumberedControl
  <2>4. CASE ~auction
    <3>1. r = [release EXCEPT !.seq = nextSeq] /\ m = r
      BY <2>4
    <3> HIDE DEF m, r, n, auction
    <3> QED BY <1>6, <2>1, <2>2, <2>4, <3>1, NumberedControl
  <2> QED BY <2>3, <2>4
<1>9. IsControl(r) /\ IsControl(m)
  BY <1>8 DEF IsControl, PhaseOf
<1> HIDE DEF m, r
<1>10. Numbered({m, r}, nextSeq, N)
  BY <1>6, <1>8, <1>9 DEF Numbered
<1>11. ControlsInv(queue', batch', nextSeq')
  BY <1>1, <1>7, <1>10, AddControls DEF QueueInv
<1>12. EventsInv'
  <2>1. \A j, k \in 1..n : j <= k => es[j].at <= es[k].at
    <3> HIDE DEF es
    <3> SUFFICES ASSUME NEW j \in 1..n, NEW k \in 1..n, j <= k PROVE es[j].at <= es[k].at
      OBVIOUS
    <3>1. CASE k = n
      BY <3>1, <1>2, <1>3, <1>4, SMTT(30)
    <3>2. CASE k # n
      BY <3>2, <1>3, <1>4, SMTT(30) DEF QueueInv, EventsInv
    <3> QED BY <3>1, <3>2
  <2>2. visible' \in 0..Len(es)
    BY <1>1, <1>3, <1>4
  <2>3. Incoming(mode', incoming', es)
    <3> HIDE DEF es
    <3>1. \A k \in DOMAIN es : es[k].at <= e.at
      BY <1>2, <1>3, <1>4
    <3> QED BY <1>1, <1>2, <3>1 DEF Incoming
  <2>4. ~Duplicates => \A j, k \in DOMAIN es : es[j] = es[k] => j = k
    <3> HIDE DEF es
    <3> QED BY <1>2, <1>3, <1>4 DEF QueueInv, EventsInv
  <2> HIDE DEF es
  <2> QED BY <1>4, <1>5, <2>1, <2>2, <2>3, <2>4 DEF EventsInv
<1>13. ReleaseInv(queue', batch', es, visible)
  <2> DEFINE q == queue \cup {m, r}
  <2>1. \A c \in queue : c.kind \in {"Release", "AllocateAuction"} =>
           /\ c.ref \in 1..Len(committed)
           /\ es[c.ref] = committed[c.ref]
    BY <1>1, <1>3, <1>4 DEF QueueInv, ReleaseInv
  <2>2. \A c \in queue : c.seq < nextSeq /\ c.seq \in Nat
    BY DEF QueueInv, ControlsInv, IsControl, ControlRecord
  <2>6. es[n] = e /\ Len(es) = n
    BY <1>4
  <2> HIDE DEF es
  <2>3. \A c \in q : c.kind = "Release" =>
           c.ref \in (visible + 1)..n /\ c.at = es[c.ref].at + Latency
    <3> SUFFICES ASSUME NEW c \in q, c.kind = "Release"
                 PROVE  c.ref \in (visible + 1)..n /\ c.at = es[c.ref].at + Latency
      OBVIOUS
    <3>1. CASE c \in queue
      BY <1>1, <1>3, <2>1, <3>1 DEF QueueInv, ReleaseInv
    <3>2. CASE c = r
      BY <1>3, <1>8, <2>6, <3>2
    <3>3. CASE c = m /\ ~(c = r)
      BY <1>8, <3>3
    <3> QED BY <3>1, <3>2, <3>3
  <2>4. \A k \in (visible + 1)..n : \E c \in q : c.kind = "Release" /\ c.ref = k
    <3> SUFFICES ASSUME NEW k \in (visible + 1)..n PROVE \E c \in q : c.kind = "Release" /\ c.ref = k
      OBVIOUS
    <3>1. CASE k = n
      BY <1>8, <3>1
    <3>2. CASE k # n
      <4>1. k \in (visible + 1)..Len(committed)
        BY <1>3, <3>2
      <4> QED BY <1>1, <4>1 DEF QueueInv, ReleaseInv
    <3> QED BY <3>1, <3>2
  <2>5. \A c, d \in q : c.kind = "Release" /\ d.kind = "Release" =>
           (c.ref < d.ref <=> c.seq < d.seq)
    <3> SUFFICES ASSUME NEW c \in q, NEW d \in q, c.kind = "Release", d.kind = "Release"
                 PROVE  c.ref < d.ref <=> c.seq < d.seq
      OBVIOUS
    <3>1. (c = r \/ c \in queue) /\ (d = r \/ d \in queue)
      BY <1>8
    <3>2. \A f \in queue : f.kind = "Release" => f.ref < r.ref /\ f.seq < r.seq
      BY <1>3, <1>6, <1>8, <2>1, <2>2
    <3>3. CASE c \in queue /\ d \in queue
      BY <3>3 DEF QueueInv, ReleaseInv
    <3>4. r.ref \in Nat /\ r.seq \in Nat
      BY <1>3, <1>6, <1>8
    <3>5. CASE c = r /\ d = r
      BY <3>4, <3>5
    <3>6. CASE c = r /\ d \in queue
      <4>1. d.ref \in Nat /\ d.seq \in Nat /\ d.ref < r.ref /\ d.seq < r.seq
        BY <2>1, <2>2, <3>2, <3>6
      <4> QED BY <4>1, <3>4, <3>6
    <3>7. CASE c \in queue /\ d = r
      BY <3>2, <3>7
    <3> QED BY <3>1, <3>3, <3>5, <3>6, <3>7
  <2>7. \A c \in q : c.kind = "AllocateAuction" =>
           /\ c.ref \in 1..n
           /\ c.at = es[c.ref].at
           /\ es[c.ref].clearing # <<>>
    <3> SUFFICES ASSUME NEW c \in q, c.kind = "AllocateAuction"
                 PROVE  c.ref \in 1..n /\ c.at = es[c.ref].at /\ es[c.ref].clearing # <<>>
      OBVIOUS
    <3>1. CASE c \in queue
      BY <1>3, <2>1, <3>1 DEF QueueInv, ReleaseInv
    <3>2. CASE c = m /\ auction
      BY <1>3, <1>8, <2>6, <3>2
    <3> QED BY <1>8, <3>1, <3>2
  <2> HIDE DEF q, n
  <2>8. ReleaseInv(q, {}, es, visible)
    BY <2>3, <2>4, <2>5, <2>6, <2>7 DEF ReleaseInv
  <2> QED BY <1>1, <1>7, <2>8 DEF q
<1>14. ReleaseInv(queue', batch', committed', visible')
  BY <1>1, <1>5, <1>13
<1>15. \A c \in {m, r} : c.kind \in {"Release", "AllocateAuction"}
  BY <1>8
<1>16. \E S, x : /\ queue' = queue \cup S /\ nextSeq' = x /\ Numbered(S, nextSeq, x)
                 /\ \A c \in S : c.kind \in {"Release", "AllocateAuction"}
  <2> HIDE DEF N
  <2> QED BY <1>7, <1>10, <1>15
<1> QED BY <1>11, <1>12, <1>14, <1>16 DEF QueueInv

-----------------------------------------------------------------------------
(* What a callback schedules.                                              *)

\* A sequence of controls numbered from n.
From(cs, n) == {[cs[j] EXCEPT !.seq = n + j - 1] : j \in DOMAIN cs}

\* Numbering a concatenation numbers its parts one after the other.
LEMMA FromConcat ==
    ASSUME NEW n \in Nat, NEW s \in Seq(Unsequenced), NEW t \in Seq(Unsequenced)
    PROVE  /\ From(s \o t, n) = From(s, n) \cup From(t, n + Len(s))
           /\ s \o t \in Seq(Unsequenced) /\ Len(s \o t) = Len(s) + Len(t)
<1> DEFINE u == s \o t
<1>1. /\ u \in Seq(Unsequenced) /\ Len(u) = Len(s) + Len(t)
      /\ Len(s) \in Nat /\ Len(t) \in Nat
      /\ DOMAIN s = 1..Len(s) /\ DOMAIN t = 1..Len(t) /\ DOMAIN u = 1..(Len(s) + Len(t))
      /\ \A j \in 1..Len(u) : u[j] = IF j <= Len(s) THEN s[j] ELSE t[j - Len(s)]
  BY ConcatProperties, LenProperties
<1> HIDE DEF u
<1>2. ASSUME NEW c \in From(u, n) PROVE c \in From(s, n) \cup From(t, n + Len(s))
  <2>1. PICK j \in 1..(Len(s) + Len(t)) : c = [u[j] EXCEPT !.seq = n + j - 1]
    BY <1>1 DEF From
  <2>2. CASE j <= Len(s)
    <3>1. j \in DOMAIN s /\ u[j] = s[j]
      BY <1>1, <2>2
    <3> QED BY <2>1, <3>1 DEF From
  <2>3. CASE j > Len(s)
    <3>1. j - Len(s) \in DOMAIN t /\ u[j] = t[j - Len(s)]
          /\ n + j - 1 = n + Len(s) + (j - Len(s)) - 1
      BY <1>1, <2>3
    <3> QED BY <2>1, <3>1 DEF From
  <2> QED BY <2>2, <2>3, <1>1
<1>3. ASSUME NEW c \in From(s, n) PROVE c \in From(u, n)
  <2>1. PICK j \in 1..Len(s) : c = [s[j] EXCEPT !.seq = n + j - 1]
    BY <1>1 DEF From
  <2>2. j \in DOMAIN u /\ u[j] = s[j]
    BY <1>1
  <2> QED BY <2>1, <2>2 DEF From
<1>4. ASSUME NEW c \in From(t, n + Len(s)) PROVE c \in From(u, n)
  <2>1. PICK j \in 1..Len(t) : c = [t[j] EXCEPT !.seq = n + Len(s) + j - 1]
    BY <1>1 DEF From
  <2>2. /\ j + Len(s) \in 1..(Len(s) + Len(t)) /\ ~(j + Len(s) <= Len(s))
        /\ (j + Len(s)) - Len(s) = j /\ n + (j + Len(s)) - 1 = n + Len(s) + j - 1
    BY <1>1
  <2>3. j + Len(s) \in DOMAIN u /\ u[j + Len(s)] = t[j]
    BY <1>1, <2>2
  <2> QED BY <2>1, <2>2, <2>3 DEF From
<1>5. From(u, n) = From(s, n) \cup From(t, n + Len(s))
  BY <1>2, <1>3, <1>4
<1> QED BY <1>1, <1>5 DEF u

\* The numbering of no control and of one.
LEMMA FromSmall ==
    ASSUME NEW n \in Nat
    PROVE  /\ From(<<>>, n) = {} /\ <<>> \in Seq(Unsequenced) /\ Len(<<>>) = 0
           /\ \A c \in Unsequenced : /\ From(<<c>>, n) = {[c EXCEPT !.seq = n]}
                                     /\ <<c>> \in Seq(Unsequenced) /\ Len(<<c>>) = 1
<1>1. From(<<>>, n) = {}
  BY DEF From
<1>2. ASSUME NEW c \in Unsequenced PROVE From(<<c>>, n) = {[c EXCEPT !.seq = n]}
  <2>1. DOMAIN <<c>> = {1} /\ <<c>>[1] = c /\ n + 1 - 1 = n
    OBVIOUS
  <2> QED BY <2>1 DEF From
<1> QED BY <1>1, <1>2

\* What a callback may ask for.
LEMMA OutputTypes ==
    ASSUME NEW out \in Outputs
    PROVE  /\ out.timer = <<>> \/ \E q \in TimerRequests : out.timer = <<q>>
           /\ out.order = <<>> \/ \E r \in Requests : out.order = <<r>>
BY DEF Outputs, Option

\* The numbered controls of an accepted submission: an expiry directly before
\* its activation, and the news of the acceptance.
OrderPart(S, origin, out) ==
    /\ \A c \in S : c.kind \in {"Activate", "Expire"} =>
         /\ out.order # <<>>
         /\ c.ref = OrderIdentity(origin, out.order[1])
         /\ c.kind = "Activate" => c.at = out.order[1].activateAt
         /\ c.kind = "Expire" => /\ c.at = out.order[1].expireAt
                                 /\ \E a \in S : a.kind = "Activate" /\ a.seq = c.seq + 1
    /\ out.order # <<>> =>
         /\ \E a \in S : a.kind = "Activate"
         /\ \A a \in S : a.kind = "Activate" /\ out.order[1].expireAt # NoExpiry =>
              \E d \in S : d.kind = "Expire" /\ a.seq = d.seq + 1
         /\ \E f \in S :
              /\ f.kind = "Feedback"
              /\ <<Len(orders) + 1, "Scheduled">> \in f.news
              /\ clientOrders[out.order[1].client] # 0 =>
                   <<clientOrders[out.order[1].client], "Replaced">> \in f.news

\* OrderControls schedules an expiry, an activation and a feedback, in that order.
LEMMA OrderControlsAre ==
    ASSUME IndInv, NEW t \in Nat, NEW origin, NEW out \in Outputs, NEW n \in Nat
    PROVE  /\ OrderControls(t, origin, out) \in Seq(Unsequenced)
           /\ OrderPart(From(OrderControls(t, origin, out), n), origin, out)
           /\ \A c \in From(OrderControls(t, origin, out), n) : c.kind # "Timer"
<1> DEFINE cs == OrderControls(t, origin, out)
<1>1. CASE out.order = <<>>
  <2>1. cs = <<>>
    BY <1>1 DEF OrderControls
  <2>2. From(cs, n) = {} /\ cs \in Seq(Unsequenced)
    BY <2>1, FromSmall
  <2> HIDE DEF cs
  <2>3. OrderPart(From(cs, n), origin, out) /\ \A c \in From(cs, n) : c.kind # "Timer"
    BY <2>2, <1>1 DEF OrderPart
  <2> QED BY <2>2, <2>3 DEF cs
<1>2. CASE out.order # <<>>
  <2>1. PICK r \in Requests : out.order = <<r>>
    BY <1>2, OutputTypes
  <2> DEFINE id == OrderIdentity(origin, r)
             previous == clientOrders[r.client]
             news == {<<Len(orders) + 1, "Scheduled">>}
                        \cup (IF previous = 0 THEN {} ELSE {<<previous, "Replaced">>})
             act == Control(r.activateAt, Activation, "Activate", id, {})
             fb == FeedbackControl(t, news)
             exp == Control(r.expireAt, Expiry, "Expire", id, {})
             expire == IF r.expireAt = NoExpiry THEN <<>> ELSE <<exp>>
  <2>2. out.order[1] = r /\ cs = expire \o <<act, fb>>
    BY <2>1 DEF OrderControls
  <2>3. /\ r.activateAt \in Nat /\ r.expireAt \in Nat \cup {NoExpiry} /\ r.client \in Clients
    BY RequestsAssumption DEF Request
  <2>4. id \in Nat /\ previous \in Nat /\ Len(orders) + 1 \in Nat
    BY <2>3, OrderIdentityType, OrderTypes DEF IndInv, SimTypeOK
  <2> HIDE DEF id, previous
  <2>5. news \in News /\ {} \in News
    BY <2>4 DEF News, Statuses
  <2>6. /\ Activation = PhaseOf("Activate") /\ Expiry = PhaseOf("Expire")
        /\ Feedback = PhaseOf("Feedback")
        /\ {"Activate", "Expire", "Feedback"} \subseteq Kinds \ {"Release", "AllocateAuction"}
    BY DEF PhaseOf, Kinds
  <2> HIDE DEF news
  <2>7. act \in Unsequenced /\ fb \in Unsequenced
    BY <2>3, <2>4, <2>5, <2>6, OneControl DEF FeedbackControl
  <2>8. r.expireAt # NoExpiry => exp \in Unsequenced
    BY <2>3, <2>4, <2>5, <2>6, OneControl
  <2>9. \A s \in Nat :
          /\ LET a == [act EXCEPT !.seq = s] IN
             a.kind = "Activate" /\ a.ref = id /\ a.at = r.activateAt /\ a.seq = s
          /\ LET f == [fb EXCEPT !.seq = s] IN f.kind = "Feedback" /\ f.news = news
          /\ LET d == [exp EXCEPT !.seq = s] IN
             d.kind = "Expire" /\ d.ref = id /\ d.at = r.expireAt /\ d.seq = s
    BY DEF Control, FeedbackControl
  <2> HIDE DEF act, fb, exp
  <2>10. \A s \in Nat : /\ <<act, fb>> \in Seq(Unsequenced)
                        /\ From(<<act, fb>>, s) = {[act EXCEPT !.seq = s], [fb EXCEPT !.seq = s + 1]}
    <3> SUFFICES ASSUME NEW s \in Nat
                 PROVE  /\ <<act, fb>> \in Seq(Unsequenced)
                        /\ From(<<act, fb>>, s) = {[act EXCEPT !.seq = s], [fb EXCEPT !.seq = s + 1]}
      OBVIOUS
    <3>1. DOMAIN <<act, fb>> = {1, 2} /\ <<act, fb>>[1] = act /\ <<act, fb>>[2] = fb
          /\ s + 1 - 1 = s /\ s + 2 - 1 = s + 1
      OBVIOUS
    <3>2. From(<<act, fb>>, s) = {[act EXCEPT !.seq = s], [fb EXCEPT !.seq = s + 1]}
      BY <3>1 DEF From
    <3>3. <<act, fb>> \in Seq(Unsequenced)
      BY <2>7
    <3> QED BY <3>2, <3>3
  <2>11. CASE r.expireAt = NoExpiry
    <3>1. cs = <<act, fb>>
      BY <2>2, <2>11
    <3>2. cs \in Seq(Unsequenced)
          /\ From(cs, n) = {[act EXCEPT !.seq = n], [fb EXCEPT !.seq = n + 1]}
      BY <3>1, <2>10
    <3> HIDE DEF cs
    <3> DEFINE S == From(cs, n)
               a == [act EXCEPT !.seq = n]
               f == [fb EXCEPT !.seq = n + 1]
    <3>3. S = {a, f} /\ a.kind = "Activate" /\ a.ref = id /\ a.at = r.activateAt
          /\ f.kind = "Feedback" /\ f.news = news
      BY <3>2, <2>9
    <3> HIDE DEF S, a, f
    <3>4. <<Len(orders) + 1, "Scheduled">> \in news
          /\ (previous # 0 => <<previous, "Replaced">> \in news)
      BY DEF news
    <3>5. OrderPart(S, origin, out) /\ \A c \in S : c.kind # "Timer"
      BY <3>3, <3>4, <2>2, <2>11, <1>2 DEF OrderPart, id, previous
    <3> QED BY <3>2, <3>5 DEF S, cs
  <2>12. CASE r.expireAt # NoExpiry
    <3>1. cs = <<exp>> \o <<act, fb>>
      BY <2>2, <2>12
    <3>2. /\ cs \in Seq(Unsequenced)
          /\ From(cs, n) = {[exp EXCEPT !.seq = n], [act EXCEPT !.seq = n + 1],
                            [fb EXCEPT !.seq = n + 2]}
      <4>1. <<exp>> \in Seq(Unsequenced) /\ Len(<<exp>>) = 1
            /\ From(<<exp>>, n) = {[exp EXCEPT !.seq = n]}
        BY <2>8, <2>12, FromSmall
      <4>2. /\ <<exp>> \o <<act, fb>> \in Seq(Unsequenced)
            /\ From(<<exp>> \o <<act, fb>>, n) = From(<<exp>>, n) \cup From(<<act, fb>>, n + 1)
        <5>1. <<act, fb>> \in Seq(Unsequenced)
          BY <2>10
        <5> QED BY <4>1, <5>1, FromConcat, ZenonT(30)
      <4>3. From(<<act, fb>>, n + 1) = {[act EXCEPT !.seq = n + 1], [fb EXCEPT !.seq = n + 1 + 1]}
            /\ n + 1 + 1 = n + 2
        <5>1. n + 1 \in Nat
          OBVIOUS
        <5> QED BY <5>1, <2>10
      <4> QED BY <3>1, <4>1, <4>2, <4>3
    <3> HIDE DEF cs
    <3> DEFINE S == From(cs, n)
               d == [exp EXCEPT !.seq = n]
               a == [act EXCEPT !.seq = n + 1]
               f == [fb EXCEPT !.seq = n + 2]
    <3>3. /\ S = {d, a, f}
          /\ d.kind = "Expire" /\ d.ref = id /\ d.at = r.expireAt /\ d.seq = n
          /\ a.kind = "Activate" /\ a.ref = id /\ a.at = r.activateAt /\ a.seq = n + 1
          /\ f.kind = "Feedback" /\ f.news = news
      <4>1. n + 1 \in Nat /\ n + 2 \in Nat
        OBVIOUS
      <4> QED BY <3>2, <4>1, <2>9
    <3> HIDE DEF S, d, a, f
    <3>4. <<Len(orders) + 1, "Scheduled">> \in news
          /\ (previous # 0 => <<previous, "Replaced">> \in news)
      BY DEF news
    <3>5. OrderPart(S, origin, out) /\ \A c \in S : c.kind # "Timer"
      BY <3>3, <3>4, <2>2, <2>12, <1>2 DEF OrderPart, id, previous
    <3> QED BY <3>2, <3>5 DEF S, cs
  <2> QED BY <2>11, <2>12
<1> QED BY <1>1, <1>2

\* Controls of other kinds do not matter to the part of an order.
LEMMA OrderPartGrows ==
    ASSUME NEW S, NEW T, NEW origin, NEW out, OrderPart(S, origin, out),
           \A c \in T : c.kind \notin {"Activate", "Expire"}
    PROVE  OrderPart(S \cup T, origin, out)
<1>1. \A c \in S \cup T : c.kind \in {"Activate", "Expire"} => c \in S
  OBVIOUS
<1>2. \A c \in S \cup T : c.kind \in {"Activate", "Expire"} =>
         /\ out.order # <<>>
         /\ c.ref = OrderIdentity(origin, out.order[1])
         /\ c.kind = "Activate" => c.at = out.order[1].activateAt
         /\ c.kind = "Expire" => /\ c.at = out.order[1].expireAt
                                 /\ \E a \in S \cup T : a.kind = "Activate" /\ a.seq = c.seq + 1
  BY <1>1 DEF OrderPart
<1>3. ASSUME out.order # <<>>
      PROVE  /\ \E a \in S \cup T : a.kind = "Activate"
             /\ \A a \in S \cup T : a.kind = "Activate" /\ out.order[1].expireAt # NoExpiry =>
                  \E d \in S \cup T : d.kind = "Expire" /\ a.seq = d.seq + 1
             /\ \E f \in S \cup T :
                  /\ f.kind = "Feedback"
                  /\ <<Len(orders) + 1, "Scheduled">> \in f.news
                  /\ clientOrders[out.order[1].client] # 0 =>
                       <<clientOrders[out.order[1].client], "Replaced">> \in f.news
  BY <1>1, <1>3 DEF OrderPart
<1> QED BY <1>2, <1>3 DEF OrderPart

\* The timer of an output and the sequence of its control.
TimerSet(S, out) ==
    /\ \A c \in S : c.kind = "Timer" => c.ref \in Timers
    /\ IF out.timer = <<>> THEN timers' = timers
       ELSE \E c \in S : /\ c.kind = "Timer" /\ c.ref = out.timer[1].timer
                         /\ timers' = [timers EXCEPT ![c.ref] = c.seq]

\* The effect of a callback's output on the queue and the timers.
LEMMA OutputEffect ==
    ASSUME IndInv, nextSeq \in Nat, NEW t \in Nat, NEW origin, NEW out \in Outputs,
           NEW before \in Seq(Unsequenced), NEW after \in Seq(Unsequenced),
           \A j \in DOMAIN before : before[j].kind = "Feedback",
           \A j \in DOMAIN after : after[j].kind = "AllocateDepth",
           ApplyOutput(t, origin, out, before, after)
    PROVE  \E S, m :
             /\ queue' = queue \cup S /\ nextSeq' = m
             /\ Numbered(S, nextSeq, m) /\ Handlers(S)
             /\ From(before, nextSeq) \subseteq S
             /\ OrderPart(S, origin, out)
             /\ TimerSet(S, out)
<1> DEFINE tc == TimerControls(out)
           oc == OrderControls(t, origin, out)
           early == before \o tc
           all == (early \o oc) \o after
           n == nextSeq
<1>1. /\ timers' = IF out.timer = <<>> THEN timers
                   ELSE [timers EXCEPT ![out.timer[1].timer] = nextSeq + Len(early) - 1]
      /\ Schedule(all)
  BY DEF ApplyOutput
<1>2. tc \in Seq(Unsequenced) /\ \A j \in DOMAIN tc : tc[j].kind = "Timer" /\ tc[j].ref \in Timers
  <2>1. CASE out.timer = <<>>
    BY <2>1 DEF TimerControls
  <2>2. CASE out.timer # <<>>
    <3>1. PICK q \in TimerRequests : out.timer = <<q>>
      BY <2>2, OutputTypes
    <3>2. q.timer \in Timers /\ q.fireAt \in Nat
      BY RunnerAssumption
    <3> DEFINE c == Control(q.fireAt, Decision, "Timer", q.timer, {})
    <3>3. tc = <<c>>
      BY <2>2, <3>1 DEF TimerControls
    <3>4. Decision = PhaseOf("Timer") /\ "Timer" \in Kinds \ {"Release", "AllocateAuction"}
          /\ {} \in News
      BY DEF PhaseOf, Kinds, News
    <3>5. c \in Unsequenced
      BY <3>2, <3>4, OneControl
    <3>6. c.kind = "Timer" /\ c.ref = q.timer
      BY DEF Control
    <3> HIDE DEF c, tc
    <3> QED BY <3>2, <3>3, <3>5, <3>6
  <2> QED BY <2>1, <2>2
<1>3. oc \in Seq(Unsequenced)
  BY OrderControlsAre
<1> HIDE DEF tc, oc
<1>4. /\ early \in Seq(Unsequenced) /\ Len(early) \in Nat /\ Len(before) \in Nat
      /\ Len(early) = Len(before) + Len(tc) /\ Len(tc) \in Nat
      /\ From(early, n) = From(before, n) \cup From(tc, n + Len(before))
  BY <1>2, FromConcat, LenProperties
<1> HIDE DEF early
<1>5. /\ early \o oc \in Seq(Unsequenced) /\ Len(early \o oc) \in Nat
      /\ From(early \o oc, n) = From(early, n) \cup From(oc, n + Len(early))
  <2>1. /\ early \o oc \in Seq(Unsequenced)
        /\ From(early \o oc, n) = From(early, n) \cup From(oc, n + Len(early))
    <3> HIDE DEF n
    <3>1. n \in Nat /\ early \in Seq(Unsequenced) /\ oc \in Seq(Unsequenced)
      BY <1>3, <1>4 DEF n
    <3> QED BY <3>1, FromConcat
  <2> QED BY <2>1, LenProperties
<1> DEFINE mid == n + Len(early \o oc)
<1>6. /\ all \in Seq(Unsequenced) /\ Len(all) \in Nat
      /\ From(all, n) = From(early \o oc, n) \cup From(after, mid)
  <2> DEFINE u == early \o oc
  <2>1. u \in Seq(Unsequenced) /\ all = u \o after /\ mid = n + Len(u)
    BY <1>5
  <2> HIDE DEF u, all, mid
  <2>2. u \o after \in Seq(Unsequenced)
        /\ From(u \o after, n) = From(u, n) \cup From(after, n + Len(u))
    BY <2>1, FromConcat
  <2> QED BY <2>1, <2>2, LenProperties DEF u
<1> HIDE DEF all, mid
<1> DEFINE S == From(all, n)
           B == From(before, n)
           T == From(tc, n + Len(before))
           O == From(oc, n + Len(early))
           A == From(after, mid)
<1>7. S = B \cup T \cup O \cup A
  BY <1>4, <1>5, <1>6
<1>8. Sequenced(all) = S /\ queue' = queue \cup S /\ nextSeq' = n + Len(all)
  BY <1>1 DEF Schedule, Sequenced, From
<1>9. Numbered(S, n, n + Len(all)) /\ Handlers(S)
  BY <1>6, <1>8, SequencedIsNumbered
<1>10. OrderPart(O, origin, out) /\ \A c \in O : c.kind # "Timer"
  <2>1. n + Len(early) \in Nat
    BY <1>4
  <2> QED BY <2>1, OrderControlsAre DEF oc
<1>11. \A cs \in Seq(Unsequenced), k \in Nat : \A c \in From(cs, k) :
          \E j \in DOMAIN cs : c.kind = cs[j].kind /\ c.ref = cs[j].ref
  <2> SUFFICES ASSUME NEW cs \in Seq(Unsequenced), NEW k \in Nat, NEW c \in From(cs, k)
               PROVE  \E j \in DOMAIN cs : c.kind = cs[j].kind /\ c.ref = cs[j].ref
    OBVIOUS
  <2>1. PICK j \in DOMAIN cs : c = [cs[j] EXCEPT !.seq = k + j - 1]
    BY DEF From
  <2>2. cs[j] \in ControlRecord
    BY ElementOfSeq, LenProperties DEF Unsequenced
  <2>3. c.kind = cs[j].kind /\ c.ref = cs[j].ref
    BY <2>1, <2>2 DEF ControlRecord
  <2> QED BY <2>3
<1>12. /\ \A c \in B : c.kind = "Feedback"
       /\ \A c \in A : c.kind = "AllocateDepth"
       /\ \A c \in T : c.kind = "Timer" /\ c.ref \in Timers
  <2>1. n \in Nat /\ n + Len(before) \in Nat /\ mid \in Nat
    BY <1>4, <1>5 DEF mid
  <2>2. \A c \in B : c.kind = "Feedback"
    BY <2>1, <1>11
  <2>3. \A c \in A : c.kind = "AllocateDepth"
    BY <2>1, <1>11
  <2>4. \A c \in T : c.kind = "Timer" /\ c.ref \in Timers
    <3> DEFINE k == n + Len(before)
    <3>1. k \in Nat /\ T = From(tc, k)
      BY <2>1
    <3> HIDE DEF k, T
    <3> QED BY <3>1, <1>2, <1>11
  <2> QED BY <2>2, <2>3, <2>4
<1>13. OrderPart(S, origin, out)
  <2>1. \A c \in B \cup T \cup A : c.kind \notin {"Activate", "Expire"}
    BY <1>12
  <2>2. S = O \cup (B \cup T \cup A)
    BY <1>7
  <2> HIDE DEF S, O, B, T, A
  <2> QED BY <1>10, <2>1, <2>2, OrderPartGrows
<1>14. TimerSet(S, out)
  <2>1. \A c \in S : c.kind = "Timer" => c.ref \in Timers
    BY <1>7, <1>10, <1>12
  <2>2. CASE out.timer = <<>>
    BY <1>1, <2>1, <2>2 DEF TimerSet
  <2>3. CASE out.timer # <<>>
    <3> DEFINE c == Control(out.timer[1].fireAt, Decision, "Timer", out.timer[1].timer, {})
               s == n + Len(before)
    <3>1. tc = <<c>>
      BY <2>3 DEF tc, TimerControls
    <3>2. Len(tc) = 1 /\ DOMAIN tc = {1} /\ tc[1] = c
      BY <3>1
    <3>3. [c EXCEPT !.seq = s + 1 - 1] \in T
      BY <3>2 DEF From
    <3>4. s + 1 - 1 = n + Len(early) - 1 /\ s + 1 - 1 = s /\ s = n + Len(early) - 1
      BY <1>4, <3>2
    <3>5. LET d == [c EXCEPT !.seq = s] IN d.kind = "Timer" /\ d.ref = out.timer[1].timer /\ d.seq = s
      BY DEF Control
    <3> HIDE DEF c, s, S, T
    <3>6. [c EXCEPT !.seq = s] \in S
      BY <3>3, <3>4, <1>7
    <3>7. timers' = [timers EXCEPT ![out.timer[1].timer] = s]
      BY <1>1, <2>3, <3>4
    <3> QED BY <2>1, <2>3, <3>5, <3>6, <3>7 DEF TimerSet
  <2> QED BY <2>2, <2>3
<1>15. B \subseteq S
  BY <1>7
<1> HIDE DEF S
<1> QED BY <1>8, <1>9, <1>13, <1>14, <1>15

\* Controls that only tell the strategy news.
Tells(S, news) ==
    /\ \A c \in S : c.kind = "Feedback"
    /\ \A x \in news : \E c \in S : x \in c.news

\* One feedback control that is scheduled is numbered and tells its news.
LEMMA OneFeedback ==
    ASSUME nextSeq \in Nat, NEW at \in Nat, NEW news \in News,
           Schedule(<<FeedbackControl(at, news)>>)
    PROVE  \E S, m : /\ queue' = queue \cup S /\ nextSeq' = m
                     /\ Numbered(S, nextSeq, m) /\ Tells(S, news)
<1> DEFINE fb == FeedbackControl(at, news)
           c == [fb EXCEPT !.seq = nextSeq]
<1>1. Feedback = PhaseOf("Feedback") /\ "Feedback" \in Kinds \ {"Release", "AllocateAuction"}
  BY DEF PhaseOf, Kinds
<1>2. fb \in Unsequenced
  BY <1>1, OneControl DEF FeedbackControl
<1>3. c.kind = "Feedback" /\ c.news = news
  BY DEF FeedbackControl, Control
<1> HIDE DEF fb
<1>4. From(<<fb>>, nextSeq) = {c} /\ Len(<<fb>>) = 1 /\ <<fb>> \in Seq(Unsequenced)
  BY <1>2, FromSmall
<1>5. Sequenced(<<fb>>) = {c}
  BY <1>4 DEF Sequenced, From
<1> HIDE DEF c
<1>6. Numbered({c}, nextSeq, nextSeq + 1)
  BY <1>4, <1>5, SequencedIsNumbered
<1>7. queue' = queue \cup {c} /\ nextSeq' = nextSeq + 1
  BY <1>4, <1>5 DEF Schedule, fb
<1>8. Tells({c}, news)
  BY <1>3 DEF Tells
<1> QED BY <1>6, <1>7, <1>8

\* The news of an auction match: one control per candidate, in acceptance order.
LEMMA AuctionFeedback ==
    ASSUME nextSeq \in Nat, NEW ks \in SUBSET Nat, IsFiniteSet(ks), NEW at \in Nat,
           \A k \in ks : orders'[k].status \in Statuses, ScheduleNews(ks, at)
    PROVE  \E S, m : /\ queue' = queue \cup S /\ nextSeq' = m
                     /\ Numbered(S, nextSeq, m)
                     /\ Tells(S, {<<k, orders'[k].status>> : k \in ks})
<1> DEFINE Rank(k) == Cardinality({j \in ks : j < k})
           news(k) == {<<k, orders'[k].status>>}
           c(k) == [FeedbackControl(at, news(k)) EXCEPT !.seq = nextSeq + Rank(k)]
           S == {c(k) : k \in ks}
           m == nextSeq + Cardinality(ks)
<1>1. queue' = queue \cup S /\ nextSeq' = m
  BY DEF ScheduleNews
<1>2. \A k \in ks : IsFiniteSet({j \in ks : j < k}) /\ Rank(k) \in Nat
  <2> SUFFICES ASSUME NEW k \in ks PROVE IsFiniteSet({j \in ks : j < k}) /\ Rank(k) \in Nat
    OBVIOUS
  <2>1. {j \in ks : j < k} \in SUBSET ks
    OBVIOUS
  <2>2. IsFiniteSet({j \in ks : j < k})
    BY <2>1, FS_Subset
  <2> QED BY <2>2, FS_CardinalityType
<1>3. Cardinality(ks) \in Nat
  BY FS_CardinalityType
<1>4. ASSUME NEW k \in ks, NEW T \in SUBSET ks, k \notin {j \in ks : j < k},
             \A j \in ks : j < k \/ j = k => j \in T
      PROVE  Rank(k) < Cardinality(T)
  <2> DEFINE U == {j \in ks : j < k}
  <2>1. IsFiniteSet(T) /\ Cardinality(T) \in Nat
    BY FS_Subset, FS_CardinalityType
  <2>2. IsFiniteSet(U) /\ Rank(k) = Cardinality(U) /\ k \notin U /\ Rank(k) \in Nat
    BY <1>2, <1>4
  <2>3. U \cup {k} \in SUBSET T
    BY <1>4
  <2> HIDE DEF U, Rank
  <2>4. Cardinality(U \cup {k}) = Cardinality(U) + 1
    BY <2>2, FS_AddElement
  <2>5. Cardinality(U \cup {k}) <= Cardinality(T)
    BY <2>1, <2>3, FS_Subset
  <2> QED BY <2>1, <2>2, <2>4, <2>5
<1>5. \A k \in ks : Rank(k) < Cardinality(ks)
  <2> HIDE DEF Rank
  <2> QED BY <1>4
<1>6. \A j, k \in ks : j < k => Rank(j) < Rank(k)
  <2> SUFFICES ASSUME NEW j \in ks, NEW k \in ks, j < k PROVE Rank(j) < Rank(k)
    OBVIOUS
  <2> DEFINE T == {i \in ks : i < k}
  <2>1. T \in SUBSET ks /\ j \notin {i \in ks : i < j} /\ \A i \in ks : i < j \/ i = j => i \in T
    OBVIOUS
  <2>2. Rank(k) = Cardinality(T)
    OBVIOUS
  <2> HIDE DEF Rank, T
  <2> QED BY <1>4, <2>1, <2>2
<1>7. \A k \in ks : /\ IsControl(c(k)) /\ c(k).seq = nextSeq + Rank(k)
                    /\ c(k).kind = "Feedback" /\ c(k).news = news(k)
  <2> SUFFICES ASSUME NEW k \in ks
               PROVE  /\ IsControl(c(k)) /\ c(k).seq = nextSeq + Rank(k)
                      /\ c(k).kind = "Feedback" /\ c(k).news = news(k)
    OBVIOUS
  <2> DEFINE s == nextSeq + Rank(k)
  <2>1. s \in Nat
    BY <1>2
  <2>2. Feedback = PhaseOf("Feedback") /\ "Feedback" \in Kinds /\ 0 \in Nat
    BY DEF PhaseOf, Kinds
  <2>3. news(k) \in News
    BY DEF News
  <2>4. c(k) = [Control(at, Feedback, "Feedback", 0, news(k)) EXCEPT !.seq = s]
    BY DEF FeedbackControl
  <2>5. \A w \in News, x \in Nat :
           LET d == [Control(at, Feedback, "Feedback", 0, w) EXCEPT !.seq = x]
           IN  IsControl(d) /\ d.kind = "Feedback" /\ d.seq = x /\ d.news = w
    <3> SUFFICES ASSUME NEW w \in News, NEW x \in Nat
                 PROVE  LET d == [Control(at, Feedback, "Feedback", 0, w) EXCEPT !.seq = x]
                        IN  IsControl(d) /\ d.kind = "Feedback" /\ d.seq = x /\ d.news = w
      OBVIOUS
    <3> DEFINE d == [Control(at, Feedback, "Feedback", 0, w) EXCEPT !.seq = x]
    <3>1. /\ d \in ControlRecord /\ d.kind = "Feedback" /\ d.phase = PhaseOf("Feedback")
          /\ d.seq = x /\ d.news = w
      BY <2>2, NumberedControl, SMTT(30)
    <3> HIDE DEF d
    <3>2. IsControl(d) /\ d.kind = "Feedback" /\ d.seq = x /\ d.news = w
      BY <3>1 DEF IsControl
    <3> QED BY <3>2 DEF d
  <2> HIDE DEF s, Rank, news, c
  <2>6. IsControl(c(k)) /\ c(k).kind = "Feedback" /\ c(k).seq = s /\ c(k).news = news(k)
    BY <2>1, <2>3, <2>4, <2>5
  <2> QED BY <2>6 DEF s
<1> HIDE DEF c, Rank
<1>8. Numbered(S, nextSeq, m)
  <2>1. m \in Nat /\ nextSeq <= m
    BY <1>3
  <2>2. \A d \in S : IsControl(d) /\ nextSeq <= d.seq /\ d.seq < m
    <3> SUFFICES ASSUME NEW k \in ks
                 PROVE  IsControl(c(k)) /\ nextSeq <= c(k).seq /\ c(k).seq < m
      OBVIOUS
    <3>1. \A x, y, z \in Nat : x < y => z <= z + x /\ z + x < z + y
      OBVIOUS
    <3>2. Rank(k) \in Nat /\ Rank(k) < Cardinality(ks)
      BY <1>2, <1>5
    <3> QED BY <1>3, <1>7, <3>1, <3>2
  <2>3. ASSUME NEW d \in S, NEW e \in S, d.seq = e.seq PROVE d = e
    <3>1. PICK j \in ks, k \in ks : d = c(j) /\ e = c(k)
      OBVIOUS
    <3>2. nextSeq + Rank(j) = nextSeq + Rank(k)
      BY <3>1, <2>3, <1>7
    <3>5. \A x, y, z \in Nat : z + x = z + y => x = y
      OBVIOUS
    <3>3. Rank(j) = Rank(k) /\ j \in Nat /\ k \in Nat /\ Rank(j) \in Nat /\ Rank(k) \in Nat
      BY <3>2, <3>5, <1>2
    <3>4. j = k
      BY <3>3, <1>6
    <3> QED BY <3>1, <3>4
  <2> QED BY <2>1, <2>2, <2>3 DEF Numbered
<1>9. Tells(S, {<<k, orders'[k].status>> : k \in ks})
  <2>1. \A d \in S : d.kind = "Feedback"
    BY <1>7
  <2>2. \A k \in ks : c(k) \in S /\ <<k, orders'[k].status>> \in c(k).news
    BY <1>7
  <2> QED BY <2>1, <2>2 DEF Tells
<1> QED BY <1>1, <1>8, <1>9

-----------------------------------------------------------------------------
(* Callbacks and the simulator.                                            *)

\* A callback with decision time t, whose output is out, that is answered: the
\* orders os left by an interruption get the submission, and the controls S
\* are scheduled.
Answers(t, origin, out, os, S, m) ==
    /\ t \in Nat /\ origin \in Origin /\ out \in Outputs
    /\ evaluating.todo = {} /\ Current \in batch
    /\ OnlyCancels(os) /\ OutputAccepted(t, out)
    /\ orders' = OrdersAfterOutput(os, origin, out)
    /\ IndexOutput(origin, out)
    /\ queue' = queue \cup S /\ nextSeq' = m
    /\ Numbered(S, nextSeq, m) /\ Handlers(S)
    /\ \A k \in Positions : os[k].status # orders[k].status =>
          \E c \in S : c.kind = "Feedback" /\ <<k, os[k].status>> \in c.news
    /\ OrderPart(S, origin, out) /\ TimerSet(S, out)
    /\ batch' = batch \ {Current}
    /\ UNCHANGED <<fills, evaluating, committed, mode, incoming, failed>>

\* The origin of an event's callback is the first event equal to it.
LEMMA EventOriginType ==
    ASSUME QueueInv, NEW n \in 1..Len(committed)
    PROVE  /\ EventOrigin(n) \in Origin
           /\ EventOrigin(n).source = "event"
           /\ EventOrigin(n).ref \in 1..n
           /\ committed[EventOrigin(n).ref] = committed[n]
<1>1. /\ Len(committed) \in Nat /\ committed[n] \in Events /\ committed[n].at + Latency \in Nat
      /\ n \in Nat
  BY LenProperties, ElementOfSeq, RunnerAssumption DEF QueueInv, EventsInv, Event
<1> DEFINE same == {j \in 1..n : committed[j] = committed[n]}
<1>2. PICK j \in same : \A k \in same : j <= k
  <2>1. n \in same /\ same \in SUBSET Nat
    BY <1>1
  <2> HIDE DEF same
  <2> QED BY <2>1, LeastMember
<1>3. \A m \in 1..(j - 1) : committed[m] # committed[n]
  <2> SUFFICES ASSUME NEW m \in 1..(j - 1), committed[m] = committed[n] PROVE FALSE
    OBVIOUS
  <2>1. j \in 1..n
    BY <1>2
  <2>2. m \in 1..n /\ ~(j <= m)
    BY <1>1, <2>1
  <2> QED BY <1>2, <2>2
<1> DEFINE first == CHOOSE x \in 1..n : /\ committed[x] = committed[n]
                                        /\ \A m \in 1..(x - 1) : committed[m] # committed[n]
<1>4. first \in 1..n /\ committed[first] = committed[n]
  BY <1>2, <1>3
<1>5. EventOrigin(n) = [source |-> "event", at |-> committed[n].at + Latency, ref |-> first]
  BY DEF EventOrigin
<1> HIDE DEF first
<1> QED BY <1>1, <1>4, <1>5 DEF Origin

\* A release publishes the next event and answers its callback, or fails.
LEMMA ReleaseAnswers ==
    ASSUME IndInv, QueueInv, ReleaseObservation
    PROVE  \/ Fail("publish") \/ Fail("strategy")
           \/ \E out, os, S, m :
                LET n == visible + 1
                    e == committed[n]
                    v == e.at + Latency
                IN  /\ n \in 1..Len(committed) /\ e \in Events
                    /\ Current.kind = "Release" /\ Current.ref = n /\ Current.at = v
                    /\ Answers(v, EventOrigin(n), out, os, S, m)
                    /\ CanPublishObservation(e, v) /\ PublishObservation(e, v)
                    /\ visible' = n
                    /\ UNCHANGED <<position, told, fired>>
<1> DEFINE n      == visible + 1
           e      == committed[n]
           i      == e.instrument
           v      == e.at + Latency
           origin == EventOrigin(n)
           kept   == IF e.interrupts THEN MarketOrdersCancelled(orders, i) ELSE orders
           cut    == {k \in Positions : kept[k].status # orders[k].status}
           notice == IF cut = {} THEN <<>>
                     ELSE <<FeedbackControl(v, {<<k, "Cancelled">> : k \in cut})>>
           sweep(out) == IF e.book # <<>> /\ NeedsAllocation(OrdersAfterOutput(kept, origin, out), i, v)
                         THEN <<Control(v, Allocation, "AllocateDepth", i, {})>>
                         ELSE <<>>
<1>1. /\ Processing("Release") /\ Current.ref = n
      /\ Current \in batch /\ Current.kind = "Release" /\ OccurrenceMatches(n)
      /\ evaluating.todo = {}
  <2>1. Processing("Release")
    BY DEF ReleaseObservation
  <2> QED BY <2>1, ReleaseIsNext, CurrentControl DEF OccurrenceMatches, Processing
<1>2. n \in 1..Len(committed) /\ Current.at = v
  BY <1>1, LenProperties DEF QueueInv, ReleaseInv, EventsInv
<1>3. e \in Events /\ i \in Instruments /\ v \in Nat
  <2>1. e \in Events
    BY <1>2, ElementOfSeq DEF QueueInv, EventsInv
  <2> QED BY <2>1, RunnerAssumption DEF Event
<1>4. OnlyCancels(kept)
  BY <1>3, NothingCancelled, InterruptionCancels
<1>5. \/ Fail("publish") \/ Fail("strategy")
      \/ \E out \in Outputs :
                /\ CanPublishObservation(e, v)
                /\ OutputAccepted(v, out)
                /\ PublishObservation(e, v)
                /\ orders' = OrdersAfterOutput(kept, origin, out)
                /\ IndexOutput(origin, out)
                /\ ApplyOutput(v, origin, out, notice, sweep(out))
                /\ visible' = visible + 1
                /\ Processed
                /\ UNCHANGED <<fills, evaluating, committed, mode, incoming, position,
                               told, fired, failed>>
  BY <1>1 DEF ReleaseObservation
<1> SUFFICES ASSUME NEW out \in Outputs,
                /\ CanPublishObservation(e, v)
                /\ OutputAccepted(v, out)
                /\ PublishObservation(e, v)
                /\ orders' = OrdersAfterOutput(kept, origin, out)
                /\ IndexOutput(origin, out)
                /\ ApplyOutput(v, origin, out, notice, sweep(out))
                /\ visible' = visible + 1
                /\ Processed
                /\ UNCHANGED <<fills, evaluating, committed, mode, incoming, position,
                               told, fired, failed>>
             PROVE \E os, S, m : Answers(v, origin, out, os, S, m)
  BY <1>1, <1>2, <1>3, <1>5
<1>6. notice \in Seq(Unsequenced) /\ \A j \in DOMAIN notice : notice[j].kind = "Feedback"
  <2>1. CASE cut = {}
    BY <2>1
  <2>2. CASE cut # {}
    <3> DEFINE news == {<<k, "Cancelled">> : k \in cut}
               c == FeedbackControl(v, news)
    <3>1. news \in News
      <4>1. cut \subseteq Nat
        BY OrderTypes DEF IndInv
      <4> HIDE DEF cut
      <4> QED BY <4>1 DEF News, Statuses
    <3> HIDE DEF news
    <3>2. Feedback = PhaseOf("Feedback") /\ "Feedback" \in Kinds \ {"Release", "AllocateAuction"}
      BY DEF PhaseOf, Kinds
    <3>3. c \in Unsequenced
      BY <1>3, <3>1, <3>2, OneControl DEF FeedbackControl
    <3>4. c.kind = "Feedback"
      BY DEF FeedbackControl, Control
    <3>5. notice = <<c>>
      BY <2>2 DEF news
    <3> HIDE DEF c, notice
    <3> QED BY <3>3, <3>4, <3>5
  <2> QED BY <2>1, <2>2
<1>7. sweep(out) \in Seq(Unsequenced) /\ \A j \in DOMAIN sweep(out) : sweep(out)[j].kind = "AllocateDepth"
  <2> DEFINE c == Control(v, Allocation, "AllocateDepth", i, {})
  <2>1. Allocation = PhaseOf("AllocateDepth") /\ {} \in News
        /\ "AllocateDepth" \in Kinds \ {"Release", "AllocateAuction"}
    BY DEF PhaseOf, Kinds, News
  <2>2. c \in Unsequenced
    BY <1>3, <2>1, OneControl
  <2>3. c.kind = "AllocateDepth"
    BY DEF Control
  <2>4. sweep(out) = <<c>> \/ sweep(out) = <<>>
    OBVIOUS
  <2> DEFINE w == sweep(out)
  <2> HIDE DEF c, sweep
  <2>5. w = <<c>> \/ w = <<>>
    BY <2>4
  <2> HIDE DEF w
  <2>6. CASE w = <<c>>
    <3>1. <<c>> \in Seq(Unsequenced) /\ \A j \in DOMAIN <<c>> : <<c>>[j].kind = "AllocateDepth"
      BY <2>2, <2>3
    <3> QED BY <2>6, <3>1 DEF w
  <2>7. CASE w = <<>>
    <3>1. <<>> \in Seq(Unsequenced) /\ DOMAIN <<>> = {}
      OBVIOUS
    <3> QED BY <2>7, <3>1 DEF w
  <2> QED BY <2>5, <2>6, <2>7
<1>8. nextSeq \in Nat
  BY DEF QueueInv, ControlsInv
<1> HIDE DEF sweep
<1>9. PICK S, m :
             /\ queue' = queue \cup S /\ nextSeq' = m
             /\ Numbered(S, nextSeq, m) /\ Handlers(S)
             /\ From(notice, nextSeq) \subseteq S
             /\ OrderPart(S, origin, out)
             /\ TimerSet(S, out)
  <2> HIDE DEF notice, v, origin, kept, n
  <2> QED BY <1>3, <1>6, <1>7, <1>8, OutputEffect
<1>10. ASSUME NEW k \in Positions, kept[k].status # orders[k].status
       PROVE  \E c \in S : c.kind = "Feedback" /\ <<k, kept[k].status>> \in c.news
  <2>1. kept[k].status = "Cancelled"
    BY <1>4, <1>10 DEF OnlyCancels
  <2>2. k \in cut
    BY <1>10
  <2> DEFINE f == FeedbackControl(v, {<<j, "Cancelled">> : j \in cut})
  <2>3. notice = <<f>>
    BY <2>2
  <2>4. <<k, "Cancelled">> \in {<<j, "Cancelled">> : j \in cut}
    BY <2>2
  <2>5. LET c == [f EXCEPT !.seq = nextSeq] IN c.kind = "Feedback" /\ <<k, "Cancelled">> \in c.news
    BY <2>4 DEF FeedbackControl, Control
  <2> HIDE DEF f, notice
  <2>6. [f EXCEPT !.seq = nextSeq] \in From(notice, nextSeq)
    <3>1. f \in Unsequenced
      BY <1>6, <2>3, ElementOfSeq
    <3> QED BY <1>8, <2>3, <3>1, FromSmall
  <2> QED BY <1>9, <2>1, <2>5, <2>6
<1>11. origin \in Origin
  BY <1>2, EventOriginType
<1>12. batch' = batch \ {Current}
  BY DEF Processed
<1>13. Answers(v, origin, out, kept, S, m)
  <2> HIDE DEF v, origin, kept, n, notice, cut
  <2> QED BY <1>1, <1>3, <1>4, <1>9, <1>10, <1>11, <1>12 DEF Answers
<1> QED BY <1>13

\* A feedback or timer callback is answered at its control's time.
LEMMA CallbackAnswers ==
    ASSUME IndInv, QueueInv, NEW kind, Processing(kind), NEW out \in Outputs, Callback(out)
    PROVE  \E S, m : Answers(Current.at, ControlOrigin(Current), out, orders, S, m)
<1>1. Current \in batch /\ Current.at \in Nat /\ Current.seq \in Nat /\ evaluating.todo = {}
  BY CurrentControl DEF Processing
<1>2. /\ OutputAccepted(Current.at, out)
      /\ orders' = OrdersAfterOutput(orders, ControlOrigin(Current), out)
      /\ IndexOutput(ControlOrigin(Current), out)
      /\ ApplyOutput(Current.at, ControlOrigin(Current), out, <<>>, <<>>)
      /\ batch' = batch \ {Current}
      /\ UNCHANGED <<fills, evaluating, committed, mode, incoming, failed>>
  BY DEF Callback, Processed
<1>3. ControlOrigin(Current) \in Origin
  BY <1>1 DEF ControlOrigin, Origin
<1>4. nextSeq \in Nat
  BY DEF QueueInv, ControlsInv
<1>5. <<>> \in Seq(Unsequenced) /\ DOMAIN <<>> = {}
  OBVIOUS
<1>6. PICK S, m :
             /\ queue' = queue \cup S /\ nextSeq' = m
             /\ Numbered(S, nextSeq, m) /\ Handlers(S)
             /\ OrderPart(S, ControlOrigin(Current), out)
             /\ TimerSet(S, out)
  BY <1>1, <1>2, <1>4, <1>5, OutputEffect
<1> QED BY <1>1, <1>2, <1>3, <1>6, NothingCancelled DEF Answers

\* An answered callback keeps the simulator's invariant.
LEMMA AnswersKeepSim ==
    ASSUME IndInv, NEW t, NEW origin, NEW out, NEW os, NEW S, NEW m,
           Answers(t, origin, out, os, S, m), MarketKept,
           tradingStates' \in [Instruments -> TradingState \cup {NoState}]
    PROVE  IndInv'
<1>1. /\ origin \in Origin /\ out \in Outputs /\ evaluating.todo = {} /\ OnlyCancels(os)
      /\ OutputAccepted(t, out) /\ orders' = OrdersAfterOutput(os, origin, out)
      /\ IndexOutput(origin, out) /\ UNCHANGED evaluating
  BY DEF Answers
<1>2. TodoIsActive' /\ evaluating \in [at : Nat, todo : SUBSET Positions]
  BY <1>1 DEF TodoIsActive, IndInv, SimTypeOK
<1>3. CASE out.order = <<>>
  <2>1. orders' = os /\ clientOrders' = clientOrders
    BY <1>1, <1>3 DEF OrdersAfterOutput, IndexOutput
  <2>2. OrdersAdvance
    BY <1>1, <2>1 DEF OnlyCancels, OrdersAdvance, Inactive
  <2>3. /\ Positions' = Positions /\ StatusMatchesFilled' /\ OneLiveOrderPerClient'
        /\ ActivationFollowsAcceptance' /\ ClientIndexOK'
    BY <2>1, <2>2, AdvanceKeeps
  <2>4. SimTypeOK'
    BY <1>1, <1>2, <2>1, <2>2, <2>3 DEF IndInv, SimTypeOK, OrdersAdvance, MarketKept
  <2> QED BY <1>2, <2>3, <2>4 DEF IndInv, MarketKept
<1>4. CASE out.order # <<>>
  <2>1. PICK r \in Requests : out.order = <<r>>
    BY <1>1, <1>4, OutputTypes
  <2>2. /\ orders' = OrdersWithSubmission(os, origin, r)
        /\ clientOrders' = [clientOrders EXCEPT ![r.client] = OrderIdentity(origin, r)]
        /\ SubmitAccepted(t, r)
    BY <1>1, <1>4, <2>1 DEF OrdersAfterOutput, IndexOutput, OutputAccepted
  <2>3. /\ orders' \in Seq(Order) /\ clientOrders' \in [Clients -> Nat]
        /\ StatusMatchesFilled' /\ OneLiveOrderPerClient'
        /\ ActivationFollowsAcceptance' /\ ClientIndexOK'
    BY <1>1, <2>2, SubmitStep
  <2>4. SimTypeOK'
    <3>1. evaluating' \in [at : Nat, todo : SUBSET Positions']
      BY <1>1, <1>2
    <3> QED BY <2>3, <3>1 DEF SimTypeOK, MarketKept
  <2> QED BY <1>2, <2>3, <2>4 DEF IndInv, MarketKept
<1> QED BY <1>3, <1>4

\* Publishing an observation.
LEMMA PublishKeeps ==
    ASSUME IndInv, NEW e \in Events, PublishObservation(e, e.at + Latency), UNCHANGED fills
    PROVE  /\ MarketKept
           /\ tradingStates' \in [Instruments -> TradingState \cup {NoState}]
<1> DEFINE v == e.at + Latency
<1>1. /\ e.instrument \in Instruments /\ e.at \in Nat /\ v \in Nat /\ e.condition \in Condition
      /\ e.book # <<>> => e.book[1] \in Books
  BY RunnerAssumption DEF Event, Option
<1> HIDE DEF v
<1>2. CASE e.book = <<>>
  <2>1. PublishTradingState(e.instrument, e.at, v, e.condition) /\ UNCHANGED books
    BY <1>2 DEF PublishObservation, v
  <2> QED BY <1>1, <2>1, PublishStateType, BooksUnchanged DEF IndInv, SimTypeOK
<1>3. CASE e.book # <<>>
  <2>1. PublishBook(e.instrument, e.book[1], e.at, v, e.condition)
    BY <1>3 DEF PublishObservation, v
  <2>2. PublishTradingState(e.instrument, e.at, v, e.condition)
    BY <2>1 DEF PublishBook
  <2> QED BY <1>1, <1>3, <2>1, <2>2, PublishStateType, PublishBookKeeps
<1> QED BY <1>2, <1>3

\* Every step of the run keeps the simulator's invariant: its guarantees hold
\* inside the run as they do for any caller.
LEMMA SimStep ==
    ASSUME IndInv, QueueInv, RefsInv, [Next]_vars
    PROVE  IndInv'
<1>1. \A call : Fail(call) => IndInv'
  BY SimUnchanged DEF Fail
<1>2. Skip => IndInv'
  BY SimUnchanged DEF Skip
<1>3. UNCHANGED books /\ UNCHANGED fills => MarketKept
  BY BooksUnchanged DEF IndInv, SimTypeOK
<1>4. tradingStates \in [Instruments -> TradingState \cup {NoState}]
  BY DEF IndInv, SimTypeOK
<1>5. CASE ReleaseObservation
  <2>1. CASE Fail("publish") \/ Fail("strategy")
    BY <1>1, <2>1
  <2>2. CASE ~(Fail("publish") \/ Fail("strategy"))
    <3> DEFINE n == visible + 1
               e == committed[n]
               v == e.at + Latency
    <3>1. PICK out, os, S, m :
             /\ e \in Events /\ Answers(v, EventOrigin(n), out, os, S, m)
             /\ PublishObservation(e, v)
      BY <1>5, <2>2, ReleaseAnswers
    <3>2. UNCHANGED fills
      BY <3>1 DEF Answers
    <3>3. MarketKept /\ tradingStates' \in [Instruments -> TradingState \cup {NoState}]
      <4> HIDE DEF e
      <4> QED BY <3>1, <3>2, PublishKeeps
    <3> HIDE DEF v, n
    <3> QED BY <3>1, <3>3, AnswersKeepSim
  <2> QED BY <2>1, <2>2
<1>6. ASSUME NEW kind, Processing(kind), NEW out \in Outputs, Callback(out)
      PROVE  IndInv'
  <2>1. PICK S, m : Answers(Current.at, ControlOrigin(Current), out, orders, S, m)
    BY <1>6, CallbackAnswers
  <2>2. UNCHANGED <<books, fills, tradingStates>>
    BY <1>6 DEF Callback
  <2> QED BY <2>1, <2>2, <1>3, <1>4, AnswersKeepSim
<1>7. CallbackFails => IndInv'
  BY <1>1 DEF CallbackFails
<1>8. CASE DeliverFeedback
  BY <1>6, <1>7, <1>8 DEF DeliverFeedback
<1>9. CASE StrategyTimer
  BY <1>1, <1>2, <1>6, <1>7, <1>9 DEF StrategyTimer
<1>10. CASE ExpireOrder
  <2>1. Processing("Expire") /\ Current \in batch /\ Current.kind = "Expire" /\ Caller
    BY <1>10, CurrentControl DEF ExpireOrder, Processing, Caller
  <2>2. Current.ref \in Positions
    BY <2>1 DEF RefsInv, Pending
  <2>3. CASE Skip \/ Fail("expiry")
    BY <1>1, <1>2, <2>3
  <2>4. CASE Expire(Current.ref, Current.at)
             /\ UNCHANGED <<books, tradingStates, clientOrders, fills, evaluating>>
    BY <1>3, <2>1, <2>2, <2>4, ExpireAdvances, AdvancingStep
  <2> QED BY <1>10, <2>3, <2>4 DEF ExpireOrder
<1>11. CASE ActivateOrder
  <2>1. Processing("Activate") /\ Current \in batch /\ Current.kind = "Activate" /\ Caller
        /\ Current.at \in Nat
    BY <1>11, CurrentControl DEF ActivateOrder, Processing, Caller
  <2>2. Current.ref \in Positions
    BY <2>1 DEF RefsInv, Pending
  <2>3. CASE Skip \/ Fail("activation")
    BY <1>1, <1>2, <2>3
  <2>4. CASE Activate(Current.ref, Current.at)
             /\ UNCHANGED <<tradingStates, clientOrders, evaluating>>
    BY <2>1, <2>2, <2>4, ActivateStep, AdvancingStep
  <2> QED BY <1>11, <2>3, <2>4 DEF ActivateOrder
<1>12. CASE AllocateVisibleDepth
  <2>1. Processing("AllocateDepth") /\ Current.at \in Nat
    BY <1>12, CurrentControl DEF AllocateVisibleDepth
  <2>2. CASE Skip
    BY <1>2, <2>2
  <2>3. CASE BeginEvaluateActive(Current.ref, Current.at)
             /\ UNCHANGED <<books, tradingStates, orders, clientOrders, fills>>
    <3>1. evaluating' \in [at : Nat, todo : SUBSET Positions] /\ TodoIsActive'
      BY <2>1, <2>3 DEF BeginEvaluateActive, TodoIsActive, RestsOnBook
    <3> QED BY <1>3, <1>4, <2>3, <3>1, OrdersUnchanged
  <2> QED BY <1>12, <2>2, <2>3 DEF AllocateVisibleDepth
<1>13. CASE EvaluateOrder
  <2>1. PICK k \in evaluating.todo :
           \/ Fail("fill")
           \/ EvaluateNext(k) /\ UNCHANGED <<tradingStates, clientOrders>>
    BY <1>13 DEF EvaluateOrder
  <2> QED BY <1>1, <2>1, EvaluateKeeps
<1>14. CASE AllocateAuctionMatch
  <2> DEFINE e == committed[Current.ref]
  <2>1. Processing("AllocateAuction") /\ Current \in batch /\ Current.kind = "AllocateAuction"
        /\ Caller
    BY <1>14, CurrentControl DEF AllocateAuctionMatch, Processing, Caller
  <2>2. e \in Events /\ e.clearing # <<>>
    BY <2>1, ElementOfSeq DEF QueueInv, ReleaseInv, EventsInv
  <2>3. e.instrument \in Instruments /\ e.at \in Nat /\ e.clearing[1] \in Int
    <3>1. e.clearing \in Seq(Int) /\ e.instrument \in Instruments /\ e.at \in Nat
      BY <2>2, RunnerAssumption DEF Event
    <3>2. 1 \in 1..Len(e.clearing)
      BY <2>2, <3>1, EmptySeq, LenProperties
    <3> QED BY <3>1, <3>2, ElementOfSeq
  <2>4. CASE Fail("auction")
    BY <1>1, <2>4
  <2>5. CASE EvaluateAuctionMatch(e.instrument, e.clearing[1], e.at)
             /\ UNCHANGED <<books, tradingStates, clientOrders, evaluating>>
    <3> HIDE DEF e
    <3> QED BY <2>1, <2>3, <2>5, AuctionStep, AdvancingStep
  <2> QED BY <1>14, <2>4, <2>5 DEF AllocateAuctionMatch
<1>15. CASE SelectEvent \/ PopBatch \/ CommitEvent \/ EventDone \/ EndOfData \/ Finish
  BY <1>15, SimUnchanged DEF SelectEvent, PopBatch, CommitEvent, EventDone, EndOfData, Finish
<1>16. CASE UNCHANGED vars
  BY <1>16, SimUnchanged DEF vars
<1> QED BY <1>5, <1>8, <1>9, <1>10, <1>11, <1>12, <1>13, <1>14, <1>15, <1>16 DEF Next

-----------------------------------------------------------------------------
(* The queue is kept.                                                      *)

\* What a handler does to the queue.
Schedules(S, m) ==
    /\ queue' = queue \cup S /\ nextSeq' = m
    /\ Numbered(S, nextSeq, m) /\ Handlers(S)

\* A handler that is not a release, at its end or in the middle of it.
LEMMA HandlerKeepsQueue ==
    ASSUME QueueInv, NEW S, NEW m, Schedules(S, m),
           \/ batch' = batch
           \/ batch' = batch \ {Current} /\ Current \in batch /\ Current.kind # "Release",
           UNCHANGED <<committed, visible, mode, incoming>>
    PROVE  QueueInv'
<1>1. batch' \subseteq batch /\ \A c \in batch \ batch' : c.kind # "Release"
  OBVIOUS
<1>2. ControlsInv(queue \cup S, batch', m)
  BY <1>1, AddControls DEF QueueInv, Schedules
<1>3. ReleaseInv(queue \cup S, batch', committed, visible)
  BY <1>1, KeepReleases DEF QueueInv, Schedules
<1>4. EventsInv'
  BY DEF QueueInv, EventsInv
<1>5. ControlsInv(queue, batch, nextSeq)' /\ ReleaseInv(queue, batch, committed, visible)'
  BY <1>2, <1>3 DEF Schedules
<1> QED BY <1>4, <1>5 DEF QueueInv

\* A handler that schedules nothing.
LEMMA NothingScheduled ==
    ASSUME QueueInv, UNCHANGED <<queue, nextSeq>>
    PROVE  Schedules({}, nextSeq)
BY DEF QueueInv, ControlsInv, Schedules, Numbered, Handlers

\* News are handler controls.
LEMMA TellsIsHandler ==
    ASSUME NEW S, NEW news, Tells(S, news)
    PROVE  Handlers(S)
BY DEF Tells, Handlers

\* The release of the next event.
LEMMA ReleaseKeepsQueue ==
    ASSUME QueueInv, NEW S, NEW m, Schedules(S, m), Current \in batch,
           Current.kind = "Release", Current.ref = visible + 1,
           batch' = batch \ {Current}, visible' = visible + 1,
           UNCHANGED <<committed, mode, incoming>>
    PROVE  QueueInv'
<1>1. ControlsInv(queue \cup S, batch \ {Current}, m)
  BY AddControls DEF QueueInv, Schedules
<1>2. ReleaseInv(queue \cup S, batch \ {Current}, committed, visible + 1)
      /\ visible + 1 \in 0..Len(committed)
  BY ReleaseOne DEF QueueInv, EventsInv, Schedules
<1>3. EventsInv'
  BY <1>2 DEF QueueInv, EventsInv
<1>4. ControlsInv(queue, batch, nextSeq)' /\ ReleaseInv(queue, batch, committed, visible)'
  BY <1>1, <1>2 DEF Schedules
<1> QED BY <1>3, <1>4 DEF QueueInv

\* Taking an event from the input, whose times do not fall.
LEMMA SelectStep ==
    ASSUME QueueInv, SelectEvent
    PROVE  QueueInv'
<1>1. PICK e \in Events : IsReplayable(e) /\ incoming' = <<e>>
  BY DEF SelectEvent
<1>2. mode' = "before" /\ UNCHANGED <<committed, visible, queue, nextSeq, batch>>
  BY DEF SelectEvent
<1>3. /\ committed \in Seq(Events) /\ Len(committed) \in Nat
      /\ DOMAIN committed = 1..Len(committed) /\ e.at \in Nat
      /\ \A k \in 1..Len(committed) : committed[k].at \in Nat
  <2>1. committed \in Seq(Events)
    BY DEF QueueInv, EventsInv
  <2>2. \A k \in 1..Len(committed) : committed[k] \in Events
    BY <2>1, ElementOfSeq
  <2> QED BY <2>1, <2>2, LenProperties, RunnerAssumption DEF Event
<1>4. \A n \in DOMAIN committed : committed[n].at <= e.at /\ (~Duplicates => committed[n] # e)
  <2> SUFFICES ASSUME NEW n \in 1..Len(committed)
               PROVE  committed[n].at <= e.at /\ (~Duplicates => committed[n] # e)
    BY <1>3
  <2> DEFINE l == Len(committed)
  <2>1. l \in 1..l /\ n <= l /\ committed # <<>>
    BY <1>3
  <2>2. committed[l].at <= e.at /\ (~Duplicates => committed[n] # e)
    BY <1>1, <1>3, <2>1 DEF IsReplayable
  <2>3. committed[n].at <= committed[l].at
    BY <1>3, <2>1 DEF QueueInv, EventsInv
  <2> QED BY <1>3, <2>1, <2>2, <2>3
<1>5. EventsInv'
  <2>1. Incoming(mode', incoming', committed')
    BY <1>1, <1>2, <1>4 DEF Incoming
  <2> QED BY <1>2, <2>1 DEF QueueInv, EventsInv
<1>6. ControlsInv(queue, batch, nextSeq)' /\ ReleaseInv(queue, batch, committed, visible)'
  BY <1>2 DEF QueueInv
<1> QED BY <1>5, <1>6 DEF QueueInv

-----------------------------------------------------------------------------
(* What the handlers that submit nothing do to the orders.                 *)

\* The orders of K take a step each, and S tells the strategy of it.
Moves(K, S, m) ==
    /\ K \subseteq Positions
    /\ OrdersAdvance
    /\ \A j \in Positions \ K : orders'[j] = orders[j]
    /\ queue' = queue \cup S /\ nextSeq' = m /\ Numbered(S, nextSeq, m)
    /\ Tells(S, {<<k, orders'[k].status>> : k \in K})
    /\ UNCHANGED <<committed, visible, mode, incoming, timers, told, fired, failed>>

\* The fills of a step are of the orders in K, at a time.
NewFills(K, at) == \A f \in fills' : f \in fills \/ (f.order \in K /\ f.at = at)

\* The order and the time of a sweep's fills.
LEMMA SweepFillsAre ==
    ASSUME NEW k, NEW state, NEW r, NEW taken, NEW at, NEW f \in SweepFills(k, state, r, taken, at)
    PROVE  f.order = k /\ f.at = at /\ \E l \in 1..BookDepth : taken[l] > 0
<1>1. PICK l \in 1..BookDepth :
         /\ taken[l] > 0
         /\ f = [order |-> k, level |-> l, source |-> "depth", at |-> at,
                 price |-> SweptPrice(state, r, l), qty |-> taken[l],
                 snapshot |-> state.snapshot]
  BY DEF SweepFills
<1> QED BY <1>1

\* Expiry is skipped for an order that ended before.
LEMMA ExpireMoves ==
    ASSUME IndInv, QueueInv, RefsInv, ExpireOrder
    PROVE  /\ Processing("Expire") /\ Current.ref \in Positions
           /\ orders[Current.ref].id = Current.ref
           /\ \/ Skip /\ orders[Current.ref].status \notin Live
              \/ Fail("expiry")
              \/ /\ \E S, m : Moves({Current.ref}, S, m)
                 /\ orders'[Current.ref].status = "Expired"
                 /\ batch' = batch \ {Current}
                 /\ UNCHANGED <<fills, evaluating, books, tradingStates>>
<1> DEFINE k == Current.ref
<1>1. Processing("Expire")
  BY DEF ExpireOrder
<1>2. Current \in batch /\ Current.kind = "Expire" /\ Current.at \in Nat
  BY <1>1, CurrentControl
<1>3. k \in Positions /\ orders[k].id = k /\ nextSeq \in Nat
  BY <1>2 DEF RefsInv, Pending, QueueInv, ControlsInv
<1>4. CASE ~AnyWithIdentity(k, Live) /\ Skip
  BY <1>1, <1>3, <1>4 DEF AnyWithIdentity
<1>5. CASE Fail("expiry")
  BY <1>1, <1>3, <1>5
<1>6. CASE /\ Expire(k, Current.at)
           /\ Schedule(<<FeedbackControl(Current.at, {<<k, "Expired">>})>>)
           /\ Processed
           /\ UNCHANGED <<books, tradingStates, clientOrders, fills, evaluating, committed,
                         visible, mode, incoming, timers, position, marks, told, fired,
                         decidedAt, failed>>
  <2>1. OrdersAdvance
    BY <1>3, <1>6, ExpireAdvances
  <2>2. /\ orders'[k].status = "Expired"
        /\ \A j \in Positions \ {k} : orders'[j] = orders[j]
    <3>1. orders \in Seq(Order) /\ orders[k] \in Order
      BY <1>3, OrderTypes DEF IndInv, SimTypeOK
    <3>2. orders' = [orders EXCEPT ![k].status = "Expired"]
      BY <1>6 DEF Expire
    <3> HIDE DEF k
    <3> QED BY <1>3, <3>1, <3>2 DEF Positions, Order
  <2>3. {<<k, "Expired">>} \in News
    BY <1>3, OrderTypes DEF IndInv, News, Statuses
  <2>4. PICK S, m : /\ queue' = queue \cup S /\ nextSeq' = m
                    /\ Numbered(S, nextSeq, m) /\ Tells(S, {<<k, "Expired">>})
    <3> HIDE DEF k
    <3> QED BY <1>2, <1>3, <1>6, <2>3, OneFeedback
  <2>5. {<<j, orders'[j].status>> : j \in {k}} = {<<k, "Expired">>}
    BY <2>2
  <2>6. UNCHANGED <<committed, visible, mode, incoming, timers, told, fired, failed>>
    BY <1>6
  <2>7. Moves({k}, S, m)
    <3> HIDE DEF k
    <3> QED BY <1>3, <2>1, <2>2, <2>4, <2>5, <2>6 DEF Moves
  <2>8. batch' = batch \ {Current} /\ UNCHANGED <<fills, evaluating, books, tradingStates>>
    BY <1>6 DEF Processed
  <2> QED BY <1>1, <1>3, <2>2, <2>7, <2>8
<1> QED BY <1>4, <1>5, <1>6 DEF ExpireOrder

\* Activation is skipped for an order that is not waiting for it.
LEMMA ActivateMoves ==
    ASSUME IndInv, QueueInv, RefsInv, ActivateOrder
    PROVE  /\ Processing("Activate") /\ Current.ref \in Positions
           /\ orders[Current.ref].id = Current.ref
           /\ \/ Skip /\ orders[Current.ref].status # "Scheduled"
              \/ Fail("activation")
              \/ /\ \E S, m : Moves({Current.ref}, S, m)
                 /\ orders[Current.ref].status = "Scheduled"
                 /\ orders'[Current.ref].status # "Scheduled"
                 /\ Current.at = orders[Current.ref].req.activateAt
                 /\ NewFills({Current.ref}, Current.at)
                 /\ batch' = batch \ {Current}
                 /\ UNCHANGED <<evaluating, tradingStates>>
<1> DEFINE k == Current.ref
           r == orders[k].req
<1>1. Processing("Activate")
  BY DEF ActivateOrder
<1>2. Current \in batch /\ Current.kind = "Activate" /\ Current.at \in Nat
  BY <1>1, CurrentControl
<1>3. k \in Positions /\ orders[k].id = k /\ nextSeq \in Nat
  BY <1>2 DEF RefsInv, Pending, QueueInv, ControlsInv
<1>4. CASE ~AnyWithIdentity(k, {"Scheduled"}) /\ Skip
  BY <1>1, <1>3, <1>4 DEF AnyWithIdentity
<1>5. CASE Fail("activation")
  BY <1>1, <1>3, <1>5
<1>6. CASE /\ Activate(k, Current.at)
           /\ Schedule(<<FeedbackControl(Current.at, {<<k, orders'[k].status>>})>>)
           /\ Processed
           /\ UNCHANGED <<tradingStates, clientOrders, evaluating, committed, visible, mode,
                          incoming, timers, marks, told, fired, decidedAt, failed>>
  <2>1. OrdersAdvance
    BY <1>2, <1>3, <1>6, ActivateStep
  <2>2. orders[k].status = "Scheduled" /\ r.activateAt = Current.at
    BY <1>6 DEF Activate, CanActivate
  <2>3. /\ orders'[k].status # "Scheduled"
        /\ \A j \in Positions \ {k} : orders'[j] = orders[j]
    <3>1. orders \in Seq(Order) /\ orders[k] \in Order
      BY <1>3, OrderTypes DEF IndInv, SimTypeOK
    <3>2. PICK p : orders' = [orders EXCEPT ![k] = p] /\ p.status \in {"Failed", "Active", "Filled"}
      <4> DEFINE o == orders[k]
      <4>1. CASE FailActivation(k, ActivationFailure(r, Current.at))
        <5> DEFINE p == [o EXCEPT !.status = "Failed", !.reason = ActivationFailure(r, Current.at)]
        <5>1. orders' = [orders EXCEPT ![k] = p] /\ p.status = "Failed"
          BY <4>1, <3>1 DEF FailActivation, Order
        <5> HIDE DEF p
        <5> QED BY <5>1
      <4>2. CASE RestUntilMatched(k)
        <5> DEFINE p == [o EXCEPT !.status = "Active"]
        <5>1. orders' = [orders EXCEPT ![k] = p] /\ p.status = "Active"
          BY <4>2, <3>1 DEF RestUntilMatched, Order
        <5> HIDE DEF p
        <5> QED BY <5>1
      <4>3. CASE SettleAtActivation(k, Current.at)
        <5> DEFINE p == [o EXCEPT !.status = "Filled", !.filled = r.qty]
        <5>1. orders' = [orders EXCEPT ![k] = p] /\ p.status = "Filled"
          BY <4>3, <3>1 DEF SettleAtActivation, Order
        <5> HIDE DEF p
        <5> QED BY <5>1
      <4>4. CASE SweepAtActivation(k, Current.at)
        <5> DEFINE total == Swept(Sweep(books[r.instrument], r, r.qty))
                   p == [o EXCEPT !.status = "Filled", !.filled = total]
                   q == [o EXCEPT !.status = "Failed", !.filled = total,
                                  !.reason = SweepFailure(r, total)]
        <5>3. orders' = IF total = r.qty
                        THEN [orders EXCEPT ![k].status = "Filled", ![k].filled = total]
                        ELSE [orders EXCEPT ![k].status = "Failed", ![k].filled = total,
                                            ![k].reason = SweepFailure(r, total)]
          BY <4>4 DEF SweepAtActivation
        <5> HIDE DEF total
        <5>1. orders' = [orders EXCEPT ![k] = p] \/ orders' = [orders EXCEPT ![k] = q]
          <6> HIDE DEF k
          <6>1. CASE total = r.qty
            BY <5>3, <6>1, <3>1, <1>3 DEF Positions
          <6>2. CASE total # r.qty
            BY <5>3, <6>2, <3>1, <1>3 DEF Positions
          <6> QED BY <6>1, <6>2
        <5>2. p.status = "Filled" /\ q.status = "Failed"
          BY <3>1 DEF Order
        <5> HIDE DEF p, q
        <5> QED BY <5>1, <5>2
      <4>5. \/ FailActivation(k, ActivationFailure(r, Current.at)) \/ RestUntilMatched(k)
            \/ SettleAtActivation(k, Current.at) \/ SweepAtActivation(k, Current.at)
        BY <1>6 DEF Activate
      <4> QED BY <4>1, <4>2, <4>3, <4>4, <4>5
    <3> HIDE DEF k
    <3>3. orders'[k] = p
      BY <1>3, <3>1, <3>2 DEF Positions
    <3>4. \A j \in Positions \ {k} : orders'[j] = orders[j]
      BY <1>3, <3>1, <3>2 DEF Positions
    <3> QED BY <3>2, <3>3, <3>4
  <2>4. NewFills({k}, Current.at)
    <3> DEFINE at == Current.at
               taken == Sweep(books[r.instrument], r, r.qty)
               one == {[order |-> k, level |-> 1, source |-> "settlement", at |-> at,
                        price |-> r.limit, qty |-> r.qty, snapshot |-> 0]}
               many == SweepFills(k, books[r.instrument], r, taken, at)
    <3>1. fills' = fills \/ fills' = fills \cup one \/ fills' = fills \cup many
      <4>1. \/ FailActivation(k, ActivationFailure(r, at)) \/ RestUntilMatched(k)
            \/ SettleAtActivation(k, at) \/ SweepAtActivation(k, at)
        BY <1>6 DEF Activate
      <4>2. FailActivation(k, ActivationFailure(r, at)) \/ RestUntilMatched(k) => fills' = fills
        BY DEF FailActivation, RestUntilMatched
      <4>3. SettleAtActivation(k, at) => fills' = fills \cup one
        BY DEF SettleAtActivation
      <4>4. SweepAtActivation(k, at) => fills' = fills \cup many
        BY DEF SweepAtActivation
      <4> HIDE DEF one, many
      <4> QED BY <4>1, <4>2, <4>3, <4>4
    <3>2. \A f \in one : f.order = k /\ f.at = at
      OBVIOUS
    <3>3. \A f \in many : f.order = k /\ f.at = at
      BY SweepFillsAre
    <3> HIDE DEF one, many, k, at
    <3> QED BY <3>1, <3>2, <3>3 DEF NewFills, at
  <2>5. {<<k, orders'[k].status>>} \in News
    <3>1. k \in Nat
      BY <1>3, OrderTypes DEF IndInv
    <3>2. orders'[k].status \in Statuses
      BY <1>3, <2>1 DEF OrdersAdvance, Advances, Order
    <3> QED BY <3>1, <3>2 DEF News
  <2>6. PICK S, m : /\ queue' = queue \cup S /\ nextSeq' = m
                    /\ Numbered(S, nextSeq, m) /\ Tells(S, {<<k, orders'[k].status>>})
    <3> DEFINE news == {<<k, orders'[k].status>>}
    <3>1. news \in News /\ Schedule(<<FeedbackControl(Current.at, news)>>)
      BY <1>6, <2>5
    <3> HIDE DEF news
    <3>2. \E S, m : /\ queue' = queue \cup S /\ nextSeq' = m
                    /\ Numbered(S, nextSeq, m) /\ Tells(S, news)
      BY <1>2, <1>3, <3>1, OneFeedback
    <3> QED BY <3>2 DEF news
  <2>7. {<<j, orders'[j].status>> : j \in {k}} = {<<k, orders'[k].status>>}
    OBVIOUS
  <2>8. UNCHANGED <<committed, visible, mode, incoming, timers, told, fired, failed>>
    BY <1>6
  <2>9. Moves({k}, S, m)
    <3> HIDE DEF k
    <3> QED BY <1>3, <2>1, <2>3, <2>6, <2>7, <2>8 DEF Moves
  <2>10. batch' = batch \ {Current} /\ UNCHANGED <<evaluating, tradingStates>>
    BY <1>6 DEF Processed
  <2> QED BY <1>1, <1>3, <2>2, <2>3, <2>4, <2>9, <2>10
<1> QED BY <1>4, <1>5, <1>6 DEF ActivateOrder

\* One order's turn in evaluate_active: it is told of an attempt, and an
\* attempt that fills is not dated before the activation.
LEMMA EvaluateMoves ==
    ASSUME IndInv, QueueInv, EvaluateOrder
    PROVE  \/ Fail("fill")
           \/ \E k \in evaluating.todo : \E K, S, m :
                /\ Moves(K, S, m) /\ K \subseteq {k} /\ orders[k].status = "Active"
                /\ NewFills({k}, evaluating.at)
                /\ fills' # fills => evaluating.at >= orders[k].req.activateAt
                /\ evaluating'.todo \subseteq evaluating.todo
                /\ evaluating'.todo # {} => evaluating'.at = evaluating.at
                /\ UNCHANGED <<batch, tradingStates>>
<1> SUFFICES ASSUME ~Fail("fill")
             PROVE  \E k \in evaluating.todo : \E K, S, m :
                      /\ Moves(K, S, m) /\ K \subseteq {k} /\ orders[k].status = "Active"
                      /\ NewFills({k}, evaluating.at)
                      /\ fills' # fills => evaluating.at >= orders[k].req.activateAt
                      /\ evaluating'.todo \subseteq evaluating.todo
                      /\ evaluating'.todo # {} => evaluating'.at = evaluating.at
                      /\ UNCHANGED <<batch, tradingStates>>
  OBVIOUS
<1> DEFINE at == evaluating.at
<1>1. PICK k \in evaluating.todo :
        /\ EvaluateNext(k)
        /\ IF CanMatchPassively(orders[k].req.instrument, at)
           THEN Schedule(<<FeedbackControl(at, {<<k, orders'[k].status>>})>>)
           ELSE UNCHANGED <<queue, nextSeq>>
        /\ UNCHANGED <<tradingStates, clientOrders, committed, visible, batch, mode,
                       incoming, timers, marks, told, fired, decidedAt, failed>>
  BY DEF EvaluateOrder
<1> DEFINE r == orders[k].req
           i == r.instrument
<1>2. /\ OrdersAdvance
      /\ \A j \in Positions \ {k} : orders'[j] = orders[j]
  BY <1>1, EvaluateStep
<1>3. k \in Positions /\ at \in Nat /\ orders[k].status = "Active" /\ nextSeq \in Nat
      /\ orders[k].filled = 0
  BY DEF IndInv, SimTypeOK, TodoIsActive, QueueInv, ControlsInv, StatusMatchesFilled
<1>4. /\ evaluating'.todo \subseteq evaluating.todo
      /\ evaluating'.todo # {} => evaluating'.at = evaluating.at
  <2>1. evaluating \in [at : Nat, todo : SUBSET Positions]
    BY DEF IndInv, SimTypeOK
  <2> QED BY <1>1, <2>1 DEF EvaluateNext, Idle
<1>5. UNCHANGED <<committed, visible, mode, incoming, timers, told, fired, failed>>
      /\ UNCHANGED <<batch, tradingStates>>
  BY <1>1
<1>6. CASE ~CanMatchPassively(i, at)
  <2>1. UNCHANGED <<books, fills, orders, queue, nextSeq>>
    BY <1>1, <1>6 DEF EvaluateNext, ExecutePassiveOrder
  <2>2. Numbered({}, nextSeq, nextSeq) /\ Tells({}, {<<j, orders'[j].status>> : j \in {}})
    BY <1>3 DEF Numbered, Tells
  <2>3. Moves({}, {}, nextSeq)
    BY <1>2, <1>5, <2>1, <2>2 DEF Moves
  <2>4. NewFills({k}, at) /\ fills' = fills
    BY <2>1 DEF NewFills
  <2>5. \E K, S, m : Moves(K, S, m) /\ K \subseteq {k}
    BY <2>3
  <2> QED BY <1>3, <1>4, <1>5, <2>4, <2>5
<1>7. CASE CanMatchPassively(i, at)
  <2> DEFINE state == books[i]
             taken == Sweep(state, r, r.qty - orders[k].filled)
  <2>1. /\ PassiveAccepted(k, at)
        /\ fills' = fills \cup SweepFills(k, state, r, taken, at)
    BY <1>1, <1>7 DEF EvaluateNext, ExecutePassiveOrder
  <2>2. \A l \in 1..BookDepth : taken[l] \in Nat
    <3>1. r \in Requests /\ i \in Instruments /\ r.qty - orders[k].filled = r.qty /\ r.qty \in Nat
      BY <1>3, OrderTypes DEF IndInv
    <3>2. books[i] \in BookState /\ WithinDisplayed(books[i])
      BY <1>7, <3>1 DEF CanMatchPassively, VisibleBook, HasBook, NoBook, IndInv, SimTypeOK,
                        ConsumedWithinDisplayed, WithinDisplayed, Displayed
    <3> HIDE DEF r, i
    <3> QED BY <3>1, <3>2, SweepBounds
  <2>3. ASSUME fills' # fills PROVE at >= r.activateAt
    <3>1. PICK f : f \in SweepFills(k, state, r, taken, at)
      BY <2>1, <2>3
    <3> HIDE DEF taken
    <3>2. PICK l \in 1..BookDepth : taken[l] > 0
      BY <3>1, SweepFillsAre
    <3>3. taken[1] \in Nat /\ taken[2] \in Nat /\ taken[3] \in Nat /\ taken[4] \in Nat
          /\ taken[5] \in Nat /\ l \in {1, 2, 3, 4, 5}
      BY <2>2 DEF BookDepth
    <3>4. Swept(taken) > 0
      BY <3>2, <3>3 DEF Swept
    <3> QED BY <1>7, <2>1, <3>4 DEF PassiveAccepted, taken
  <2>4. NewFills({k}, at)
    <3> DEFINE many == SweepFills(k, state, r, taken, at)
    <3>1. \A f \in many : f.order = k /\ f.at = at
      BY SweepFillsAre
    <3>2. fills' = fills \cup many
      BY <2>1
    <3> HIDE DEF many, at
    <3> QED BY <3>1, <3>2 DEF NewFills
  <2> DEFINE news == {<<k, orders'[k].status>>}
  <2>5. news \in News
    <3>1. k \in Nat
      BY <1>3, OrderTypes DEF IndInv
    <3>2. orders'[k].status \in Statuses
      BY <1>2, <1>3 DEF OrdersAdvance, Advances, Order
    <3> QED BY <3>1, <3>2 DEF News
  <2>6. Schedule(<<FeedbackControl(at, news)>>)
    BY <1>1, <1>7
  <2>7. {<<j, orders'[j].status>> : j \in {k}} = news
    OBVIOUS
  <2> HIDE DEF news
  <2>8. PICK S, m : /\ queue' = queue \cup S /\ nextSeq' = m
                    /\ Numbered(S, nextSeq, m) /\ Tells(S, news)
    BY <1>3, <2>5, <2>6, OneFeedback
  <2>9. Moves({k}, S, m)
    BY <1>2, <1>3, <1>5, <2>7, <2>8 DEF Moves
  <2> QED BY <1>3, <1>4, <1>5, <2>3, <2>4, <2>9
<1> QED BY <1>6, <1>7

\* An auction match is of active orders whose activation is not later.
LEMMA AuctionMoves ==
    ASSUME IndInv, QueueInv, AllocateAuctionMatch
    PROVE  /\ Processing("AllocateAuction")
           /\ \/ Fail("auction")
              \/ /\ \E K, S, m :
                      /\ Moves(K, S, m) /\ NewFills(K, Current.at)
                      /\ \A k \in K : /\ orders[k].status = "Active"
                                      /\ orders[k].req.activateAt <= Current.at
                 /\ batch' = batch \ {Current}
                 /\ UNCHANGED <<evaluating, books, tradingStates>>
<1>1. Processing("AllocateAuction")
  BY DEF AllocateAuctionMatch
<1>2. Current \in batch /\ Current.kind = "AllocateAuction" /\ Current.at \in Nat
  BY <1>1, CurrentControl
<1> DEFINE e == committed[Current.ref]
           i == e.instrument
           price == e.clearing[1]
           K == {k \in Positions : AuctionCandidate(k, i, e.at)}
<1>3. e \in Events /\ e.clearing # <<>> /\ e.at = Current.at /\ nextSeq \in Nat
  BY <1>2, ElementOfSeq DEF QueueInv, ReleaseInv, EventsInv, ControlsInv
<1>4. i \in Instruments /\ e.at \in Nat /\ price \in Int /\ Latency \in Nat
  <2>1. e.clearing \in Seq(Int) /\ i \in Instruments /\ e.at \in Nat /\ Latency \in Nat
    BY <1>3, RunnerAssumption DEF Event
  <2>2. 1 \in 1..Len(e.clearing)
    BY <1>3, <2>1, EmptySeq, LenProperties
  <2> QED BY <2>1, <2>2, ElementOfSeq
<1>5. CASE Fail("auction")
  BY <1>1, <1>5
<1>6. CASE /\ EvaluateAuctionMatch(i, price, e.at)
           /\ ScheduleNews(K, e.at + Latency)
           /\ Processed
           /\ UNCHANGED <<books, tradingStates, clientOrders, evaluating, committed,
                          visible, mode, incoming, timers, marks, told, fired,
                          decidedAt, failed>>
  <2>1. OrdersAdvance
    <3> HIDE DEF e, i, price
    <3> QED BY <1>4, <1>6, AuctionStep
  <2>2. /\ \A j \in Positions : ~AuctionCandidate(j, i, e.at) => orders'[j] = orders[j]
        /\ \A f \in fills' : \/ f \in fills
                             \/ /\ f.order \in Positions /\ AuctionCandidate(f.order, i, e.at)
                                /\ f.at = e.at
    <3> HIDE DEF e, i, price
    <3> QED BY <1>4, <1>6, AuctionEffect
  <2>3. K \subseteq Positions
    OBVIOUS
  <2>4. \A j \in Positions \ K : orders'[j] = orders[j]
    BY <2>2
  <2>5. NewFills(K, Current.at)
    BY <1>3, <2>2 DEF NewFills
  <2>6. \A k \in K : orders[k].status = "Active" /\ orders[k].req.activateAt <= Current.at
    BY <1>3 DEF AuctionCandidate
  <2>7. K \in SUBSET Nat /\ IsFiniteSet(K) /\ \A k \in K : orders'[k].status \in Statuses
    <3>1. Positions = 1..Len(orders) /\ Len(orders) \in Nat
      BY OrderTypes DEF IndInv
    <3>2. IsFiniteSet(Positions)
      BY <3>1, FS_Interval
    <3>3. IsFiniteSet(K)
      <4> HIDE DEF K
      <4> QED BY <2>3, <3>2, FS_Subset
    <3>4. \A k \in K : orders'[k].status \in Statuses
      BY <2>1, <2>3 DEF OrdersAdvance, Advances, Order
    <3> QED BY <3>1, <3>3, <3>4, <2>3
  <2>8. e.at + Latency \in Nat
    BY <1>4
  <2> HIDE DEF K
  <2>9. PICK S, m : /\ queue' = queue \cup S /\ nextSeq' = m
                    /\ Numbered(S, nextSeq, m)
                    /\ Tells(S, {<<k, orders'[k].status>> : k \in K})
    <3> DEFINE t == e.at + Latency
    <3>1. t \in Nat /\ ScheduleNews(K, t)
      BY <1>6, <2>8
    <3> HIDE DEF t
    <3> QED BY <1>3, <2>7, <3>1, AuctionFeedback
  <2>10. UNCHANGED <<committed, visible, mode, incoming, timers, told, fired, failed>>
         /\ batch' = batch \ {Current} /\ UNCHANGED <<evaluating, books, tradingStates>>
    BY <1>6 DEF Processed
  <2>11. Moves(K, S, m)
    BY <2>1, <2>3, <2>4, <2>9, <2>10 DEF Moves
  <2> QED BY <1>1, <2>5, <2>6, <2>10, <2>11
<1> QED BY <1>5, <1>6 DEF AllocateAuctionMatch

\* What an answered callback does to the orders.
LEMMA AnswersOrders ==
    ASSUME IndInv, NEW t, NEW origin, NEW out, NEW os, NEW S, NEW m,
           Answers(t, origin, out, os, S, m)
    PROVE  /\ \A k \in Positions :
                /\ k \in Positions' /\ Advances(orders[k], orders'[k])
                /\ orders'[k].status # orders[k].status =>
                     /\ orders'[k].status \notin Live
                     /\ \E c \in S : c.kind = "Feedback" /\ <<k, orders'[k].status>> \in c.news
           /\ out.order = <<>> => Positions' = Positions
           /\ out.order # <<>> =>
                /\ out.order[1] \in Requests
                /\ SubmitAccepted(t, out.order[1])
                /\ Positions' = Positions \cup {Len(orders) + 1}
                /\ orders'[Len(orders) + 1] = SubmittedOrder(origin, out.order[1])
<1>1. /\ origin \in Origin /\ out \in Outputs /\ OnlyCancels(os)
      /\ OutputAccepted(t, out) /\ orders' = OrdersAfterOutput(os, origin, out)
      /\ IndexOutput(origin, out) /\ OrderPart(S, origin, out)
      /\ \A k \in Positions : os[k].status # orders[k].status =>
            \E c \in S : c.kind = "Feedback" /\ <<k, os[k].status>> \in c.news
  BY DEF Answers
<1>2. Positions = 1..Len(orders) /\ Len(orders) \in Nat
  BY OrderTypes DEF IndInv
<1>3. CASE out.order = <<>>
  <2>1. orders' = os
    BY <1>1, <1>3 DEF OrdersAfterOutput
  <2>2. Positions' = Positions
    BY <1>1, <1>2, <2>1, LenProperties DEF OnlyCancels, Positions
  <2> QED BY <1>1, <1>3, <2>1, <2>2 DEF OnlyCancels, Live
<1>4. CASE out.order # <<>>
  <2>1. PICK r \in Requests : out.order = <<r>>
    BY <1>1, <1>4, OutputTypes
  <2>2. /\ orders' = OrdersWithSubmission(os, origin, r)
        /\ clientOrders' = [clientOrders EXCEPT ![r.client] = OrderIdentity(origin, r)]
        /\ SubmitAccepted(t, r) /\ out.order[1] = r
    BY <1>1, <1>4, <2>1 DEF OrdersAfterOutput, IndexOutput, OutputAccepted
  <2>3. /\ \A k \in Positions : Advances(orders[k], orders'[k])
        /\ Positions' = Positions \cup {Len(orders) + 1}
        /\ orders'[Len(orders) + 1] = SubmittedOrder(origin, r)
        /\ \A k \in Positions : orders'[k].status = IF k = clientOrders[r.client]
                                                    THEN "Replaced" ELSE os[k].status
    <3>1. /\ \A k \in Positions : Advances(orders[k], orders'[k])
          /\ Positions' = Positions \cup {Len(orders) + 1}
      BY <1>1, <2>2, SubmitStep
    <3>2. Replaces(os, r)
      BY <1>1, <2>2, SubmitStep
    <3>3. orders'[Len(orders) + 1] = SubmittedOrder(origin, r)
      BY <1>1, <2>2, SubmitStep
    <3> QED BY <3>1, <3>2, <3>3 DEF Replaces
  <2>4. ASSUME NEW k \in Positions, orders'[k].status # orders[k].status
        PROVE  /\ orders'[k].status \notin Live
               /\ \E c \in S : c.kind = "Feedback" /\ <<k, orders'[k].status>> \in c.news
    <3>1. CASE k = clientOrders[r.client]
      <4>1. orders'[k].status = "Replaced" /\ clientOrders[r.client] # 0
        BY <1>2, <2>3, <3>1
      <4> QED BY <1>1, <1>4, <2>2, <3>1, <4>1 DEF OrderPart, Live
    <3>2. CASE k # clientOrders[r.client]
      <4>1. orders'[k].status = os[k].status
        BY <2>3, <3>2
      <4> QED BY <1>1, <2>4, <4>1 DEF OnlyCancels, Live
    <3> QED BY <3>1, <3>2
  <2> QED BY <1>4, <2>2, <2>3, <2>4
<1> QED BY <1>3, <1>4

-----------------------------------------------------------------------------
(* The shapes of a step: a batch is popped, a callback is answered, or a    *)
(* handler or the main loop works without the strategy.                    *)

\* The callback of the current control.
Asked(origin) ==
    /\ Current.kind \in {"Release", "Feedback", "Timer"}
    /\ Current.kind = "Release" => /\ visible + 1 \in 1..Len(committed)
                                   /\ visible' = visible + 1
                                   /\ origin = EventOrigin(visible + 1)
    /\ Current.kind # "Release" => visible' = visible /\ origin = ControlOrigin(Current)
    /\ told' = told \cup (IF Current.kind = "Feedback" THEN Current.news ELSE {})
    /\ fired' = fired \cup (IF Current.kind = "Timer" THEN {Current.seq} ELSE {})

\* A step without the strategy: the controls D are done, the orders K moved
\* and the controls S scheduled.
Works(S, m, D, K) ==
    /\ queue' = queue \cup S /\ nextSeq' = m /\ Numbered(S, nextSeq, m)
    /\ \A c \in S : c.kind \in {"Feedback", "Release", "AllocateAuction"}
    /\ D \subseteq batch /\ batch' = batch \ D
    /\ \A d \in D : /\ d.kind \notin {"Release", "Feedback"}
                    /\ d.kind = "Expire" => orders'[d.ref].status \notin Live
                    /\ d.kind = "Activate" => orders'[d.ref].status # "Scheduled"
                    /\ d.kind = "Timer" => timers[d.ref] # d.seq
    /\ OrdersAdvance /\ K \subseteq Positions
    /\ \A k \in Positions \ K : orders'[k] = orders[k]
    /\ Tells(S \ {c \in S : c.kind # "Feedback"}, {<<k, orders'[k].status>> : k \in K})
    /\ \A k \in K : orders[k].status = "Scheduled" /\ orders'[k].status \in Live \ {"Scheduled"}
          => \E a \in D : a.kind = "Activate" /\ a.ref = k
    /\ UNCHANGED <<timers, told, fired, visible>>

\* Orders that stay as they are advance.
LEMMA OrdersStay ==
    ASSUME IndInv, UNCHANGED orders
    PROVE  OrdersAdvance
<1>1. \A k \in Positions : Advances(orders[k], orders[k])
  BY StayingAdvances
<1> QED BY <1>1 DEF OrdersAdvance, IndInv, SimTypeOK

\* A step that only takes controls D off the batch.
LEMMA WorksOff ==
    ASSUME IndInv, QueueInv, NEW D, D \subseteq batch, batch' = batch \ D,
           \A d \in D : /\ d.kind \notin {"Release", "Feedback"}
                        /\ d.kind = "Expire" => orders[d.ref].status \notin Live
                        /\ d.kind = "Activate" => orders[d.ref].status # "Scheduled"
                        /\ d.kind = "Timer" => timers[d.ref] # d.seq,
           UNCHANGED <<queue, nextSeq, orders, timers, told, fired, visible>>
    PROVE  Works({}, nextSeq, D, {})
<1>1. OrdersAdvance
  BY OrdersStay
<1>2. Numbered({}, nextSeq, nextSeq) /\ Tells({}, {<<k, orders'[k].status>> : k \in {}})
  BY DEF QueueInv, ControlsInv, Numbered, Tells
<1> QED BY <1>1, <1>2 DEF Works

\* A step that moves orders.
LEMMA WorksMoving ==
    ASSUME IndInv, QueueInv, NEW K, NEW S, NEW m, Moves(K, S, m), NEW D, D \subseteq batch,
           batch' = batch \ D,
           \A d \in D : /\ d.kind \notin {"Release", "Feedback", "Timer"}
                        /\ d.kind = "Expire" => orders'[d.ref].status \notin Live
                        /\ d.kind = "Activate" => orders'[d.ref].status # "Scheduled",
           \A k \in K : orders[k].status # "Scheduled" \/ orders'[k].status \notin Live
                        \/ \E a \in D : a.kind = "Activate" /\ a.ref = k
    PROVE  Works(S, m, D, K)
<1>1. \A c \in S : c.kind = "Feedback"
  BY DEF Moves, Tells
<1>2. S \ {c \in S : c.kind # "Feedback"} = S
  BY <1>1
<1> QED BY <1>1, <1>2 DEF Moves, Works

\* Every step has one of the shapes.
LEMMA Shapes ==
    ASSUME IndInv, QueueInv, RefsInv, [Next]_vars
    PROVE  \/ PopBatch
           \/ \E t, origin, out, os, S, m : Answers(t, origin, out, os, S, m) /\ Asked(origin)
           \/ \E S, m, D, K : Works(S, m, D, K)
<1> DEFINE Shaped == \/ \E t, origin, out, os, S, m :
                            Answers(t, origin, out, os, S, m) /\ Asked(origin)
                     \/ \E S, m, D, K : Works(S, m, D, K)
<1> SUFFICES ASSUME ~PopBatch PROVE Shaped
  OBVIOUS
<1>1. ASSUME UNCHANGED <<orders, queue, nextSeq, batch, timers, told, fired, visible>>
      PROVE  Shaped
  <2>1. Works({}, nextSeq, {}, {})
    BY <1>1, WorksOff
  <2> QED BY <2>1
<1>2. \A call : Fail(call) => Shaped
  BY <1>1 DEF Fail, simVars
<1>3. ASSUME Skip, NEW kind, Processing(kind), kind \notin {"Release", "Feedback"},
             kind = "Expire" => orders[Current.ref].status \notin Live,
             kind = "Activate" => orders[Current.ref].status # "Scheduled",
             kind = "Timer" => timers[Current.ref] # Current.seq
      PROVE  Shaped
  <2>1. Current \in batch /\ Current.kind = kind
    BY <1>3, CurrentControl
  <2>2. batch' = batch \ {Current}
        /\ UNCHANGED <<queue, nextSeq, orders, timers, told, fired, visible>>
    BY <1>3 DEF Skip, Processed, simVars
  <2>3. Works({}, nextSeq, {Current}, {})
    BY <1>3, <2>1, <2>2, WorksOff
  <2> QED BY <2>3
<1> HIDE DEF Shaped
<1>4. CASE ReleaseObservation
  <2>1. CASE Fail("publish") \/ Fail("strategy")
    BY <1>2, <2>1
  <2>2. CASE ~(Fail("publish") \/ Fail("strategy"))
    <3> DEFINE n == visible + 1
               v == committed[n].at + Latency
    <3>1. PICK out, os, S, m :
            /\ n \in 1..Len(committed)
            /\ Current.kind = "Release"
            /\ Answers(v, EventOrigin(n), out, os, S, m)
            /\ visible' = n
            /\ UNCHANGED <<position, told, fired>>
      BY <1>4, <2>2, ReleaseAnswers
    <3>2. Asked(EventOrigin(n))
      BY <3>1 DEF Asked
    <3> HIDE DEF n, v
    <3> QED BY <3>1, <3>2 DEF Shaped
  <2> QED BY <2>1, <2>2
<1>5. ASSUME NEW kind \in {"Feedback", "Timer"}, Processing(kind), NEW out \in Outputs, Callback(out),
             told' = told \cup (IF kind = "Feedback" THEN Current.news ELSE {}),
             fired' = fired \cup (IF kind = "Timer" THEN {Current.seq} ELSE {})
      PROVE  Shaped
  <2>1. PICK S, m : Answers(Current.at, ControlOrigin(Current), out, orders, S, m)
    BY <1>5, CallbackAnswers
  <2>2. Current.kind = kind /\ visible' = visible
    BY <1>5, CurrentControl DEF Callback
  <2>3. Asked(ControlOrigin(Current))
    BY <1>5, <2>2 DEF Asked
  <2> QED BY <2>1, <2>3 DEF Shaped
<1>6. CallbackFails => Shaped
  BY <1>2 DEF CallbackFails
<1>7. CASE DeliverFeedback
  <2>1. CASE CallbackFails
    BY <1>6, <2>1
  <2>2. ASSUME NEW out \in Outputs, Callback(out), told' = told \cup Current.news, UNCHANGED fired
        PROVE  Shaped
    <3>1. Processing("Feedback")
      BY <1>7 DEF DeliverFeedback
    <3> QED BY <1>5, <2>2, <3>1
  <2> QED BY <1>7, <2>1, <2>2 DEF DeliverFeedback
<1>8. CASE StrategyTimer
  <2>0. Processing("Timer")
    BY <1>8 DEF StrategyTimer
  <2>1. CASE CallbackFails \/ Fail("mark")
    BY <1>2, <1>6, <2>1
  <2>2. CASE timers[Current.ref] # Current.seq /\ Skip
    BY <1>3, <2>0, <2>2
  <2>3. ASSUME NEW out \in Outputs, Callback(out), fired' = fired \cup {Current.seq}, UNCHANGED told
        PROVE  Shaped
    BY <1>5, <2>0, <2>3
  <2> QED BY <1>8, <2>1, <2>2, <2>3 DEF StrategyTimer
<1>9. CASE ExpireOrder
  <2> DEFINE k == Current.ref
  <2>1. Processing("Expire") /\ k \in Positions /\ orders[k].id = k
    BY <1>9, ExpireMoves
  <2>2. CASE Skip /\ orders[k].status \notin Live
    BY <1>3, <2>1, <2>2
  <2>3. CASE Fail("expiry")
    BY <1>2, <2>3
  <2>4. ASSUME NEW S, NEW m, Moves({k}, S, m), orders'[k].status = "Expired",
               batch' = batch \ {Current}
        PROVE  Shaped
    <3>1. Current \in batch /\ Current.kind = "Expire"
      BY <2>1, CurrentControl
    <3>2. Works(S, m, {Current}, {k})
      BY <2>4, <3>1, WorksMoving DEF Live
    <3> QED BY <3>2 DEF Shaped
  <2> QED BY <1>9, <2>2, <2>3, <2>4, ExpireMoves
<1>10. CASE ActivateOrder
  <2> DEFINE k == Current.ref
  <2>1. Processing("Activate") /\ k \in Positions /\ orders[k].id = k
    BY <1>10, ActivateMoves
  <2>2. CASE Skip /\ orders[k].status # "Scheduled"
    BY <1>3, <2>1, <2>2
  <2>3. CASE Fail("activation")
    BY <1>2, <2>3
  <2>4. ASSUME NEW S, NEW m, Moves({k}, S, m), orders'[k].status # "Scheduled",
               batch' = batch \ {Current}
        PROVE  Shaped
    <3>1. Current \in batch /\ Current.kind = "Activate"
      BY <2>1, CurrentControl
    <3>2. Works(S, m, {Current}, {k})
      BY <2>4, <3>1, WorksMoving
    <3> QED BY <3>2 DEF Shaped
  <2> QED BY <1>10, <2>2, <2>3, <2>4, ActivateMoves
<1>11. CASE AllocateVisibleDepth
  <2>1. Processing("AllocateDepth")
    BY <1>11 DEF AllocateVisibleDepth
  <2>2. CASE Skip
    BY <1>3, <2>1, <2>2
  <2>3. CASE Processed /\ UNCHANGED <<queue, nextSeq, orders, timers, told, fired, visible>>
    <3>1. Current \in batch /\ Current.kind = "AllocateDepth" /\ batch' = batch \ {Current}
      BY <2>1, <2>3, CurrentControl DEF Processed
    <3>2. Works({}, nextSeq, {Current}, {})
      BY <2>3, <3>1, WorksOff
    <3> QED BY <3>2 DEF Shaped
  <2> QED BY <1>11, <2>2, <2>3 DEF AllocateVisibleDepth
<1>12. CASE EvaluateOrder
  <2>1. CASE Fail("fill")
    BY <1>2, <2>1
  <2>2. ASSUME NEW k, NEW K, NEW S, NEW m, Moves(K, S, m), K \subseteq {k},
               orders[k].status = "Active", UNCHANGED batch
        PROVE  Shaped
    <3>1. Works(S, m, {}, K)
      BY <2>2, WorksMoving
    <3> QED BY <3>1 DEF Shaped
  <2> QED BY <1>12, <2>1, <2>2, EvaluateMoves
<1>13. CASE AllocateAuctionMatch
  <2>1. Processing("AllocateAuction")
    BY <1>13, AuctionMoves
  <2>2. CASE Fail("auction")
    BY <1>2, <2>2
  <2>3. ASSUME NEW K, NEW S, NEW m, Moves(K, S, m), \A k \in K : orders[k].status = "Active",
               batch' = batch \ {Current}
        PROVE  Shaped
    <3>1. Current \in batch /\ Current.kind = "AllocateAuction"
      BY <2>1, CurrentControl
    <3>2. Works(S, m, {Current}, K)
      BY <2>3, <3>1, WorksMoving
    <3> QED BY <3>2 DEF Shaped
  <2> QED BY <1>13, <2>2, <2>3, AuctionMoves
<1>14. CASE CommitEvent
  <2>1. PICK S, m : /\ queue' = queue \cup S /\ nextSeq' = m /\ Numbered(S, nextSeq, m)
                    /\ \A c \in S : c.kind \in {"Release", "AllocateAuction"}
    BY <1>14, CommitStep
  <2>2. UNCHANGED <<orders, batch, timers, told, fired, visible>>
    BY <1>14 DEF CommitEvent, simVars
  <2>3. OrdersAdvance
    BY <2>2, OrdersStay
  <2>4. Tells(S \ {c \in S : c.kind # "Feedback"}, {<<k, orders'[k].status>> : k \in {}})
    BY DEF Tells
  <2>5. Works(S, m, {}, {})
    BY <2>1, <2>2, <2>3, <2>4 DEF Works
  <2> QED BY <2>5 DEF Shaped
<1>15. CASE SelectEvent \/ EventDone \/ EndOfData \/ Finish
  BY <1>1, <1>15 DEF SelectEvent, EventDone, EndOfData, Finish, simVars
<1>16. CASE UNCHANGED vars
  BY <1>1, <1>16 DEF vars, simVars, runVars
<1> QED BY <1>4, <1>7, <1>8, <1>9, <1>10, <1>11, <1>12, <1>13, <1>14, <1>15, <1>16 DEF Next

\* Every step keeps the queue.
LEMMA QueueStep ==
    ASSUME IndInv, QueueInv, RefsInv, [Next]_vars
    PROVE  QueueInv'
<1>1. ASSUME UNCHANGED <<queue, nextSeq, batch, committed, visible, mode, incoming>>
      PROVE  QueueInv'
  BY <1>1, NothingScheduled, HandlerKeepsQueue
<1>2. \A call : Fail(call) => QueueInv'
  BY <1>1 DEF Fail
<1>3. ASSUME Skip, NEW kind, Processing(kind), kind # "Release" PROVE QueueInv'
  <2>1. Current \in batch /\ Current.kind # "Release"
    BY <1>3, CurrentControl
  <2>2. batch' = batch \ {Current}
        /\ UNCHANGED <<queue, nextSeq, committed, visible, mode, incoming>>
    BY <1>3 DEF Skip, Processed
  <2> QED BY <2>1, <2>2, NothingScheduled, HandlerKeepsQueue
<1>4. ASSUME NEW K, NEW S, NEW m, Moves(K, S, m),
             \/ batch' = batch
             \/ batch' = batch \ {Current} /\ Current \in batch /\ Current.kind # "Release"
      PROVE  QueueInv'
  <2>1. Handlers(S)
    BY <1>4, TellsIsHandler DEF Moves
  <2>2. Schedules(S, m) /\ UNCHANGED <<committed, visible, mode, incoming>>
    BY <1>4, <2>1 DEF Moves, Schedules
  <2> QED BY <1>4, <2>2, HandlerKeepsQueue
<1>5. CASE ReleaseObservation
  <2>1. CASE Fail("publish") \/ Fail("strategy")
    BY <1>2, <2>1
  <2>2. CASE ~(Fail("publish") \/ Fail("strategy"))
    <3> DEFINE n == visible + 1
               v == committed[n].at + Latency
    <3>1. PICK out, os, S, m :
            /\ Current.kind = "Release" /\ Current.ref = n
            /\ Answers(v, EventOrigin(n), out, os, S, m)
            /\ visible' = n
      BY <1>5, <2>2, ReleaseAnswers
    <3>2. Schedules(S, m) /\ batch' = batch \ {Current} /\ Current \in batch
          /\ UNCHANGED <<committed, mode, incoming>>
      BY <3>1 DEF Answers, Schedules
    <3> QED BY <3>1, <3>2, ReleaseKeepsQueue
  <2> QED BY <2>1, <2>2
<1>6. ASSUME NEW kind, Processing(kind), kind # "Release", NEW out \in Outputs, Callback(out)
      PROVE  QueueInv'
  <2>1. PICK S, m : Answers(Current.at, ControlOrigin(Current), out, orders, S, m)
    BY <1>6, CallbackAnswers
  <2>2. Schedules(S, m) /\ batch' = batch \ {Current} /\ Current \in batch
        /\ UNCHANGED <<committed, mode, incoming>>
    BY <2>1 DEF Answers, Schedules
  <2>3. visible' = visible /\ Current.kind # "Release"
    BY <1>6, CurrentControl DEF Callback
  <2> QED BY <2>2, <2>3, HandlerKeepsQueue
<1>7. CallbackFails => QueueInv'
  BY <1>2 DEF CallbackFails
<1>8. CASE DeliverFeedback
  BY <1>6, <1>7, <1>8 DEF DeliverFeedback
<1>9. CASE StrategyTimer
  BY <1>2, <1>3, <1>6, <1>7, <1>9 DEF StrategyTimer
<1>10. CASE ExpireOrder
  <2>1. Processing("Expire") /\ Current \in batch /\ Current.kind = "Expire"
    BY <1>10, ExpireMoves, CurrentControl
  <2> QED BY <1>2, <1>3, <1>4, <1>10, <2>1, ExpireMoves
<1>11. CASE ActivateOrder
  <2>1. Processing("Activate") /\ Current \in batch /\ Current.kind = "Activate"
    BY <1>11, ActivateMoves, CurrentControl
  <2> QED BY <1>2, <1>3, <1>4, <1>11, <2>1, ActivateMoves
<1>12. CASE AllocateVisibleDepth
  <2>1. Processing("AllocateDepth") /\ Current \in batch /\ Current.kind = "AllocateDepth"
    BY <1>12, CurrentControl DEF AllocateVisibleDepth
  <2>2. CASE Skip
    BY <1>3, <2>1, <2>2
  <2>3. CASE Processed /\ UNCHANGED <<queue, nextSeq, committed, visible, mode, incoming>>
    BY <2>1, <2>3, NothingScheduled, HandlerKeepsQueue DEF Processed
  <2> QED BY <1>12, <2>2, <2>3 DEF AllocateVisibleDepth
<1>13. CASE EvaluateOrder
  BY <1>2, <1>4, <1>13, EvaluateMoves
<1>14. CASE AllocateAuctionMatch
  <2>1. Processing("AllocateAuction") /\ Current \in batch /\ Current.kind = "AllocateAuction"
    BY <1>14, AuctionMoves, CurrentControl
  <2> QED BY <1>2, <1>4, <1>14, <2>1, AuctionMoves
<1>15. CASE EventDone \/ EndOfData \/ Finish
  <2>1. UNCHANGED <<committed, visible, queue, nextSeq, batch>>
        /\ mode' \notin {"before", "at"}
    BY <1>15 DEF EventDone, EndOfData, Finish
  <2>2. EventsInv'
    BY <2>1 DEF QueueInv, EventsInv, Incoming
  <2> QED BY <2>1, <2>2 DEF QueueInv
<1>16. CASE UNCHANGED vars
  BY <1>1, <1>16 DEF vars, runVars
<1> QED BY <1>5, <1>8, <1>9, <1>10, <1>11, <1>12, <1>13, <1>14, <1>15, <1>16, SelectStep, PopStep,
           CommitStep DEF Next

-----------------------------------------------------------------------------
(* The lifetime of an order and its controls.                              *)

\* How a step without the strategy changes the pending controls and the orders.
LEMMA WorkFacts ==
    ASSUME IndInv, QueueInv, NEW S, NEW m, NEW D, NEW K, Works(S, m, D, K)
    PROVE  /\ Positions' = Positions
           /\ \A k \in Positions :
                /\ orders'[k].id = orders[k].id /\ orders'[k].req = orders[k].req
                /\ orders'[k].origin = orders[k].origin
                /\ orders'[k].status \in Live => orders[k].status \in Live
                /\ orders'[k].status = "Scheduled" => orders[k].status = "Scheduled"
                /\ orders'[k].status \in Live \ {"Scheduled"} =>
                     \/ orders[k].status \in Live \ {"Scheduled"}
                     \/ \E a \in D : a.kind = "Activate" /\ a.ref = k
           /\ Pending' = (Pending \ D) \cup S
           /\ \A c \in Pending' :
                \/ c \in Pending \ D
                \/ c \in S /\ c.kind \notin {"Activate", "Expire", "Timer"}
           /\ nextSeq \in Nat /\ nextSeq' \in Nat /\ nextSeq <= nextSeq'
           /\ \A c \in Pending : c.seq \in Nat /\ c.seq < nextSeq
           /\ \A c \in S : c.seq \in Nat /\ nextSeq <= c.seq /\ c.seq < nextSeq'
           /\ \A c, d \in Pending : c.seq = d.seq => c = d
<1>1. /\ queue' = queue \cup S /\ nextSeq' = m /\ Numbered(S, nextSeq, m)
      /\ \A c \in S : c.kind \in {"Feedback", "Release", "AllocateAuction"}
      /\ D \subseteq batch /\ batch' = batch \ D /\ OrdersAdvance /\ K \subseteq Positions
      /\ \A k \in Positions \ K : orders'[k] = orders[k]
      /\ \A k \in K : orders[k].status = "Scheduled" /\ orders'[k].status \in Live \ {"Scheduled"}
            => \E a \in D : a.kind = "Activate" /\ a.ref = k
  BY DEF Works
<1>2. Positions' = Positions
  <2>1. DOMAIN orders = 1..Len(orders) /\ DOMAIN orders' = 1..Len(orders')
    BY <1>1, LenProperties DEF IndInv, SimTypeOK, OrdersAdvance
  <2> QED BY <1>1, <2>1 DEF Positions, OrdersAdvance
<1>3. ASSUME NEW k \in Positions
      PROVE  /\ orders'[k].id = orders[k].id /\ orders'[k].req = orders[k].req
             /\ orders'[k].origin = orders[k].origin
             /\ orders'[k].status \in Live => orders[k].status \in Live
             /\ orders'[k].status = "Scheduled" => orders[k].status = "Scheduled"
             /\ orders'[k].status \in Live \ {"Scheduled"} =>
                  \/ orders[k].status \in Live \ {"Scheduled"}
                  \/ \E a \in D : a.kind = "Activate" /\ a.ref = k
  <2>1. Advances(orders[k], orders'[k]) /\ orders[k].status \in Statuses
    BY <1>1, OrderTypes DEF OrdersAdvance, IndInv
  <2>2. /\ orders'[k].status \in Live => orders[k].status \in Live
        /\ orders'[k].status = "Scheduled" => orders[k].status = "Scheduled"
    BY <2>1 DEF Advances, Successors, Live, Statuses
  <2>3. /\ orders'[k].id = orders[k].id /\ orders'[k].req = orders[k].req
        /\ orders'[k].origin = orders[k].origin
    BY <2>1 DEF Advances
  <2>4. CASE k \in K
    BY <1>1, <2>2, <2>3, <2>4
  <2>5. CASE k \notin K
    BY <1>1, <2>2, <2>3, <2>5
  <2> QED BY <2>4, <2>5
<1>4. /\ nextSeq \in Nat /\ \A c \in Pending : c.seq \in Nat /\ c.seq < nextSeq
      /\ \A c, d \in Pending : c.seq = d.seq => c = d
      /\ queue \cap batch = {}
  BY DEF QueueInv, ControlsInv, IsControl, ControlRecord, Pending
<1>5. /\ nextSeq' \in Nat /\ nextSeq <= nextSeq'
      /\ \A c \in S : c.seq \in Nat /\ nextSeq <= c.seq /\ c.seq < nextSeq'
  BY <1>1 DEF Numbered, IsControl, ControlRecord
<1>6. Pending' = (Pending \ D) \cup S
  BY <1>1, <1>4 DEF Pending
<1>7. \A c \in Pending' : \/ c \in Pending \ D
                          \/ c \in S /\ c.kind \notin {"Activate", "Expire", "Timer"}
  BY <1>1, <1>6
<1> QED BY <1>2, <1>3, <1>4, <1>5, <1>6, <1>7

\* A step without the strategy keeps the lifetimes.
LEMMA LifetimeWorks ==
    ASSUME IndInv, QueueInv, LifetimeInv, NEW S, NEW m, NEW D, NEW K, Works(S, m, D, K)
    PROVE  LifetimeInv'
<1>1. /\ Positions' = Positions
      /\ \A k \in Positions :
           /\ orders'[k].id = orders[k].id /\ orders'[k].req = orders[k].req
           /\ orders'[k].status \in Live => orders[k].status \in Live
           /\ orders'[k].status = "Scheduled" => orders[k].status = "Scheduled"
           /\ orders'[k].status \in Live \ {"Scheduled"} =>
                \/ orders[k].status \in Live \ {"Scheduled"}
                \/ \E a \in D : a.kind = "Activate" /\ a.ref = k
  BY WorkFacts
<1>2. /\ Pending' = (Pending \ D) \cup S
      /\ \A c \in Pending' : c.kind \in {"Activate", "Expire"} => c \in Pending \ D
      /\ \A c \in Pending \ D : c \in Pending'
  BY WorkFacts
<1>3. /\ nextSeq \in Nat /\ nextSeq' \in Nat /\ nextSeq <= nextSeq'
      /\ \A c \in Pending : c.seq \in Nat /\ c.seq < nextSeq
      /\ \A c \in S : c.seq \in Nat /\ nextSeq <= c.seq
      /\ \A c, d \in Pending : c.seq = d.seq => c = d
  BY WorkFacts
<1>4. /\ D \subseteq batch /\ D \subseteq Pending
      /\ \A d \in D : /\ d.kind = "Expire" => orders'[d.ref].status \notin Live
                      /\ d.kind = "Activate" => orders'[d.ref].status # "Scheduled"
  BY DEF Works, Pending
<1>5. RefsInv'
  BY <1>1, <1>2 DEF LifetimeInv, RefsInv
<1>6. ExpiryTimed'
  <2> SUFFICES ASSUME NEW d \in Pending', d.kind = "Expire"
               PROVE  d.at = orders'[d.ref].req.expireAt /\ d.seq + 1 < nextSeq'
    BY DEF ExpiryTimed
  <2>1. d \in Pending
    BY <1>2
  <2>2. d.ref \in Positions /\ d.at = orders[d.ref].req.expireAt /\ d.seq + 1 < nextSeq
    BY <2>1 DEF LifetimeInv, RefsInv, ExpiryTimed
  <2> QED BY <1>1, <1>3, <2>1, <2>2
<1>7. \A k \in Positions : (Expires(k))' = Expires(k)
  BY <1>1 DEF Expires
<1>8. ASSUME NEW d \in Pending, NEW k \in Positions, ExpiryOf(d, k), orders'[k].status \in Live
      PROVE  d \in Pending' /\ ExpiryOf(d, k)'
  <2>1. d \notin D
    BY <1>4, <1>8 DEF ExpiryOf
  <2> QED BY <1>1, <1>2, <1>8, <2>1 DEF ExpiryOf
<1>9. ActivationTimed'
  <2> SUFFICES ASSUME NEW a \in Pending', a.kind = "Activate"
               PROVE  /\ a.at = orders'[a.ref].req.activateAt
                      /\ Expires(a.ref)' /\ orders'[a.ref].status \in Live =>
                           \E d \in Pending' : ExpiryOf(d, a.ref)' /\ a.seq = d.seq + 1
    BY DEF ActivationTimed
  <2>1. a \in Pending /\ a.ref \in Positions
    BY <1>2 DEF LifetimeInv, RefsInv
  <2>2. /\ a.at = orders[a.ref].req.activateAt
        /\ Expires(a.ref) /\ orders[a.ref].status \in Live =>
             \E d \in Pending : ExpiryOf(d, a.ref) /\ a.seq = d.seq + 1
    BY <2>1 DEF LifetimeInv, ActivationTimed
  <2>3. a.at = orders'[a.ref].req.activateAt
    BY <1>1, <2>1, <2>2
  <2>4. ASSUME Expires(a.ref)', orders'[a.ref].status \in Live
        PROVE  \E d \in Pending' : ExpiryOf(d, a.ref)' /\ a.seq = d.seq + 1
    <3>1. PICK d \in Pending : ExpiryOf(d, a.ref) /\ a.seq = d.seq + 1
      BY <1>1, <1>7, <2>1, <2>2, <2>4
    <3>2. d \in Pending' /\ ExpiryOf(d, a.ref)'
      BY <1>8, <2>1, <2>4, <3>1
    <3> QED BY <3>1, <3>2
  <2> QED BY <2>3, <2>4
<1>10. AwaitsActivation'
  <2> SUFFICES ASSUME NEW k \in Positions', orders'[k].id = k, orders'[k].status = "Scheduled"
               PROVE  \E a \in Pending' : a.kind = "Activate" /\ a.ref = k
    BY DEF AwaitsActivation
  <2>1. PICK a \in Pending : a.kind = "Activate" /\ a.ref = k
    BY <1>1 DEF LifetimeInv, AwaitsActivation
  <2>2. a \notin D
    BY <1>4, <2>1
  <2> QED BY <1>2, <2>1, <2>2
<1>11. AwaitsExpiry'
  <2> SUFFICES ASSUME NEW k \in Positions', Expires(k)', orders'[k].status \in Live \ {"Scheduled"}
               PROVE  \E d \in Pending' : ExpiryOf(d, k)' /\ \A c \in Pending' : c.seq # d.seq + 1
    BY DEF AwaitsExpiry
  <2>1. k \in Positions /\ Expires(k) /\ orders'[k].status \in Live
    BY <1>1, <1>7
  <2>2. CASE orders[k].status \in Live \ {"Scheduled"}
    <3>1. PICK d \in Pending : ExpiryOf(d, k) /\ \A c \in Pending : c.seq # d.seq + 1
      BY <2>1, <2>2 DEF LifetimeInv, AwaitsExpiry
    <3>2. d.seq + 1 < nextSeq
      BY <3>1 DEF LifetimeInv, ExpiryTimed, ExpiryOf
    <3>3. \A c \in Pending' : c.seq # d.seq + 1
      BY <1>2, <1>3, <3>1, <3>2
    <3> QED BY <1>8, <2>1, <3>1, <3>3
  <2>3. CASE \E a \in D : a.kind = "Activate" /\ a.ref = k
    <3>1. PICK a \in D : a.kind = "Activate" /\ a.ref = k
      BY <2>3
    <3>2. PICK d \in Pending : ExpiryOf(d, k) /\ a.seq = d.seq + 1
      BY <1>1, <1>4, <2>1, <3>1 DEF LifetimeInv, ActivationTimed
    <3>3. \A c \in Pending' : c.seq # d.seq + 1
      BY <1>2, <1>3, <1>4, <3>1, <3>2
    <3> QED BY <1>8, <2>1, <3>2, <3>3
  <2> QED BY <1>1, <2>1, <2>2, <2>3
<1>12. ExpiryAhead'
  <2> SUFFICES ASSUME NEW d \in queue', NEW c \in batch', d.kind = "Expire"
               PROVE  c.at < d.at \/ \E a \in queue' : a.seq = d.seq + 1
    BY DEF ExpiryAhead
  <2>1. d \in queue /\ c \in batch /\ queue \subseteq queue'
    BY DEF Works
  <2> QED BY <2>1 DEF LifetimeInv, ExpiryAhead
<1>13. ActivatedByIdentity'
  <2> SUFFICES ASSUME NEW k \in Positions', orders'[k].status \in Live \ {"Scheduled"}
               PROVE  orders'[k].id = k
    BY DEF ActivatedByIdentity
  <2>1. k \in Positions
    BY <1>1
  <2>2. CASE orders[k].status \in Live \ {"Scheduled"}
    BY <1>1, <2>1, <2>2 DEF LifetimeInv, ActivatedByIdentity
  <2>3. CASE \E a \in D : a.kind = "Activate" /\ a.ref = k
    BY <1>1, <1>4, <2>1, <2>3 DEF LifetimeInv, RefsInv
  <2> QED BY <1>1, <2>1, <2>2, <2>3
<1> QED BY <1>5, <1>6, <1>9, <1>10, <1>11, <1>12, <1>13 DEF LifetimeInv

\* Popping a batch moves controls, and leaves none behind that is due.
LEMMA LifetimePop ==
    ASSUME QueueInv, LifetimeInv, PopBatch
    PROVE  LifetimeInv'
<1>1. /\ batch = {} /\ batch' \in SUBSET queue /\ queue' = queue \ batch'
      /\ \A c \in batch', d \in queue' : c.at < d.at
  BY PopTakesAll
<1>2. Pending' = Pending
  BY <1>1 DEF Pending
<1>3. UNCHANGED <<orders, nextSeq>> /\ Positions' = Positions
  BY DEF PopBatch, simVars, Positions
<1>4. ExpiryAhead'
  BY <1>1 DEF ExpiryAhead
<1>5. RefsInv' /\ ExpiryTimed' /\ ActivationTimed' /\ AwaitsActivation' /\ AwaitsExpiry'
      /\ ActivatedByIdentity'
  BY <1>2, <1>3 DEF LifetimeInv, RefsInv, ExpiryTimed, ActivationTimed, AwaitsActivation,
                    AwaitsExpiry, ActivatedByIdentity, Expires, ExpiryOf
<1> QED BY <1>4, <1>5 DEF LifetimeInv

\* The order of an accepted submission: its identity is its own or that of the
\* first equal submission.
NewOrder(origin, r) ==
    LET n  == Len(orders) + 1
        id == OrderIdentity(origin, r)
    IN  /\ Positions' = Positions \cup {n} /\ n \notin Positions
        /\ orders'[n] = SubmittedOrder(origin, r)
        /\ id \in Positions' /\ orders'[id].id = id /\ orders'[id].req = r
        /\ id # n => id \in Positions /\ orders[id].origin = origin

\* The identity of a submission is that of the first equal one.
LEMMA NewOrderIdentity ==
    ASSUME IndInv, IdentityInv, NEW t, NEW origin, NEW out, NEW os, NEW S, NEW m,
           Answers(t, origin, out, os, S, m), out.order # <<>>
    PROVE  NewOrder(origin, out.order[1]) /\ IdentityInv'
<1> DEFINE r  == out.order[1]
           n  == Len(orders) + 1
           id == OrderIdentity(origin, r)
<1>1. /\ \A k \in Positions : k \in Positions' /\ Advances(orders[k], orders'[k])
      /\ Positions' = Positions \cup {n} /\ orders'[n] = SubmittedOrder(origin, r)
  BY AnswersOrders
<1>2. \A k \in Positions : /\ orders'[k].id = orders[k].id /\ orders'[k].req = orders[k].req
                           /\ orders'[k].origin = orders[k].origin
  BY <1>1 DEF Advances
<1>3. Positions = 1..Len(orders) /\ Len(orders) \in Nat /\ n \notin Positions
  BY OrderTypes DEF IndInv
<1>4. orders'[n].id = id /\ orders'[n].req = r /\ orders'[n].origin = origin
  BY <1>1 DEF SubmittedOrder
<1>5. \/ id = n /\ \A j \in Positions : orders[j].origin # origin \/ orders[j].req # r
      \/ /\ id \in Positions /\ orders[id].req = r /\ orders[id].origin = origin
         /\ \A j \in 1..(id - 1) : orders[j].origin # origin \/ orders[j].req # r
  BY OrderIdentityType DEF IndInv
<1> HIDE DEF id, r
<1>6. /\ id \in Positions' /\ orders'[id].id = id /\ orders'[id].req = r
      /\ id # n => id \in Positions /\ orders[id].origin = origin
  <2>1. CASE id = n
    BY <1>1, <1>4, <2>1
  <2>2. CASE id # n
    <3>1. /\ id \in Positions /\ orders[id].req = r /\ orders[id].origin = origin
          /\ \A j \in 1..(id - 1) : orders[j].origin # origin \/ orders[j].req # r
      BY <1>5, <2>2
    <3>2. orders[id].id = id
      BY <3>1 DEF IdentityInv
    <3> QED BY <1>1, <1>2, <3>1, <3>2
  <2> QED BY <2>1, <2>2
<1>7. ASSUME NEW k \in Positions',
             \A j \in 1..(k - 1) : orders'[j].origin # orders'[k].origin
                                   \/ orders'[j].req # orders'[k].req
      PROVE  orders'[k].id = k
  <2>1. CASE k \in Positions
    <3>1. \A j \in 1..(k - 1) : j \in Positions
      BY <1>3, <2>1
    <3>2. \A j \in 1..(k - 1) : orders[j].origin # orders[k].origin
                                \/ orders[j].req # orders[k].req
      BY <1>2, <1>7, <2>1, <3>1
    <3> QED BY <1>2, <2>1, <3>2 DEF IdentityInv
  <2>2. CASE k = n
    <3>1. \A j \in Positions : j \in 1..(n - 1)
      BY <1>3
    <3>2. \A j \in Positions : orders[j].origin # origin \/ orders[j].req # r
      BY <1>2, <1>4, <1>7, <2>2, <3>1
    <3>3. id = n
      BY <1>5, <3>2
    <3> QED BY <1>4, <2>2, <3>3
  <2> QED BY <1>1, <2>1, <2>2
<1> QED BY <1>1, <1>3, <1>6, <1>7 DEF NewOrder, IdentityInv, id, r

\* Steps without a submission change no identity.
LEMMA IdentityKept ==
    ASSUME IdentityInv, Positions' = Positions, IndInv,
           \A k \in Positions : /\ orders'[k].id = orders[k].id
                                /\ orders'[k].req = orders[k].req
                                /\ orders'[k].origin = orders[k].origin
    PROVE  IdentityInv'
<1> SUFFICES ASSUME NEW k \in Positions,
                    \A j \in 1..(k - 1) : orders'[j].origin # orders'[k].origin
                                          \/ orders'[j].req # orders'[k].req
             PROVE  orders'[k].id = k
  BY DEF IdentityInv
<1>1. \A j \in 1..(k - 1) : j \in Positions
  BY OrderTypes DEF IndInv
<1>2. \A j \in 1..(k - 1) : orders[j].origin # orders[k].origin
                            \/ orders[j].req # orders[k].req
  BY <1>1
<1> QED BY <1>2 DEF IdentityInv

\* How an answered callback changes the pending controls and the orders.
LEMMA AnswerFacts ==
    ASSUME IndInv, QueueInv, NEW t, NEW origin, NEW out, NEW os, NEW S, NEW m,
           Answers(t, origin, out, os, S, m)
    PROVE  /\ \A k \in Positions :
                /\ k \in Positions'
                /\ orders'[k].id = orders[k].id /\ orders'[k].req = orders[k].req
                /\ orders'[k].origin = orders[k].origin
                /\ orders'[k].status \in Live => orders'[k].status = orders[k].status
           /\ out.order = <<>> => Positions' = Positions
           /\ Pending' = (Pending \ {Current}) \cup S /\ Current \in Pending
           /\ queue \subseteq queue' /\ batch' \subseteq batch /\ queue' = queue \cup S
           /\ nextSeq \in Nat /\ nextSeq' \in Nat /\ nextSeq <= nextSeq'
           /\ \A c \in Pending : c.seq \in Nat /\ c.seq < nextSeq
           /\ \A c \in S : c.seq \in Nat /\ nextSeq <= c.seq /\ c.seq < nextSeq'
           /\ \A c, d \in Pending : c.seq = d.seq => c = d
<1>1. /\ queue' = queue \cup S /\ nextSeq' = m /\ Numbered(S, nextSeq, m)
      /\ Current \in batch /\ batch' = batch \ {Current}
  BY DEF Answers
<1>2. /\ nextSeq \in Nat /\ \A c \in Pending : c.seq \in Nat /\ c.seq < nextSeq
      /\ \A c, d \in Pending : c.seq = d.seq => c = d
      /\ queue \cap batch = {}
  BY DEF QueueInv, ControlsInv, IsControl, ControlRecord, Pending
<1>3. /\ nextSeq' \in Nat /\ nextSeq <= nextSeq'
      /\ \A c \in S : c.seq \in Nat /\ nextSeq <= c.seq /\ c.seq < nextSeq'
  BY <1>1 DEF Numbered, IsControl, ControlRecord
<1>4. Pending' = (Pending \ {Current}) \cup S /\ Current \in Pending
  BY <1>1, <1>2 DEF Pending
<1>5. ASSUME NEW k \in Positions
      PROVE  /\ k \in Positions'
             /\ orders'[k].id = orders[k].id /\ orders'[k].req = orders[k].req
             /\ orders'[k].origin = orders[k].origin
             /\ orders'[k].status \in Live => orders'[k].status = orders[k].status
  BY AnswersOrders DEF Advances
<1>6. out.order = <<>> => Positions' = Positions
  BY AnswersOrders
<1> QED BY <1>1, <1>2, <1>3, <1>4, <1>5, <1>6

\* An answered callback keeps the lifetimes.
LEMMA LifetimeAnswers ==
    ASSUME IndInv, QueueInv, IdentityInv, LifetimeInv,
           NEW t, NEW origin, NEW out, NEW os, NEW S, NEW m,
           Answers(t, origin, out, os, S, m), Asked(origin)
    PROVE  LifetimeInv'
<1> DEFINE r == out.order[1]
           n == Len(orders) + 1
           id == OrderIdentity(origin, r)
<1>1. /\ \A k \in Positions :
           /\ k \in Positions'
           /\ orders'[k].id = orders[k].id /\ orders'[k].req = orders[k].req
           /\ orders'[k].status \in Live => orders'[k].status = orders[k].status
      /\ out.order = <<>> => Positions' = Positions
  BY AnswerFacts
<1>2. /\ Pending' = (Pending \ {Current}) \cup S /\ Current \in Pending
      /\ queue \subseteq queue' /\ batch' \subseteq batch /\ queue' = queue \cup S
  BY AnswerFacts
<1>3. /\ nextSeq \in Nat /\ nextSeq' \in Nat /\ nextSeq <= nextSeq'
      /\ \A c \in Pending : c.seq \in Nat /\ c.seq < nextSeq
      /\ \A c \in S : c.seq \in Nat /\ nextSeq <= c.seq /\ c.seq < nextSeq'
      /\ \A c, d \in Pending : c.seq = d.seq => c = d
  BY AnswerFacts
<1>4. Current.kind \notin {"Activate", "Expire"}
  BY DEF Asked
<1>5. out.order # <<>> => NewOrder(origin, r)
  BY NewOrderIdentity
<1>6. OrderPart(S, origin, out)
  BY DEF Answers
<1>7. ASSUME NEW k \in Positions', k \notin Positions
      PROVE  /\ out.order # <<>> /\ k = n /\ orders'[k].status = "Scheduled"
             /\ orders'[k].id = id
  BY <1>1, <1>5, <1>7 DEF NewOrder, SubmittedOrder
<1>8. out.order # <<>> => id \in Positions' /\ orders'[id].id = id /\ orders'[id].req = r
  BY <1>5 DEF NewOrder
<1>9. ASSUME NEW c \in S, c.kind \in {"Activate", "Expire"}
      PROVE  /\ out.order # <<>> /\ c.ref = id
             /\ c.kind = "Activate" => c.at = r.activateAt
             /\ c.kind = "Expire" => /\ c.at = r.expireAt
                                     /\ \E a \in S : a.kind = "Activate" /\ a.seq = c.seq + 1
  BY <1>6, <1>9 DEF OrderPart
<1> HIDE DEF id, n
<1>10. RefsInv'
  <2> SUFFICES ASSUME NEW c \in Pending', c.kind \in {"Activate", "Expire"}
               PROVE  c.ref \in Positions' /\ orders'[c.ref].id = c.ref
    BY DEF RefsInv
  <2>1. CASE c \in S
    BY <1>8, <1>9, <2>1
  <2>2. CASE c \in Pending
    <3>1. c.ref \in Positions /\ orders[c.ref].id = c.ref
      BY <2>2 DEF LifetimeInv, RefsInv
    <3> QED BY <1>1, <3>1
  <2> QED BY <1>2, <2>1, <2>2
<1>11. ExpiryTimed'
  <2> SUFFICES ASSUME NEW d \in Pending', d.kind = "Expire"
               PROVE  d.at = orders'[d.ref].req.expireAt /\ d.seq + 1 < nextSeq'
    BY DEF ExpiryTimed
  <2>1. CASE d \in S
    <3>1. d.ref = id /\ d.at = r.expireAt /\ \E a \in S : a.seq = d.seq + 1
      BY <1>9, <2>1
    <3> QED BY <1>3, <1>8, <1>9, <2>1, <3>1
  <2>2. CASE d \in Pending
    <3>1. d.ref \in Positions /\ d.at = orders[d.ref].req.expireAt /\ d.seq + 1 < nextSeq
      BY <2>2 DEF LifetimeInv, RefsInv, ExpiryTimed
    <3> QED BY <1>1, <1>3, <2>2, <3>1
  <2> QED BY <1>2, <2>1, <2>2
<1>12. ASSUME NEW d \in Pending, NEW k \in Positions, ExpiryOf(d, k)
       PROVE  d \in Pending' /\ ExpiryOf(d, k)'
  BY <1>1, <1>2, <1>4, <1>12 DEF ExpiryOf
<1>13. \A k \in Positions : (Expires(k))' = Expires(k)
  BY <1>1 DEF Expires
<1>14. ActivationTimed'
  <2> SUFFICES ASSUME NEW a \in Pending', a.kind = "Activate"
               PROVE  /\ a.at = orders'[a.ref].req.activateAt
                      /\ Expires(a.ref)' /\ orders'[a.ref].status \in Live =>
                           \E d \in Pending' : ExpiryOf(d, a.ref)' /\ a.seq = d.seq + 1
    BY DEF ActivationTimed
  <2>1. CASE a \in S
    <3>1. a.ref = id /\ a.at = r.activateAt /\ out.order # <<>>
      BY <1>9, <2>1
    <3>2. ASSUME Expires(a.ref)'
          PROVE  \E d \in Pending' : ExpiryOf(d, a.ref)' /\ a.seq = d.seq + 1
      <4>1. r.expireAt # NoExpiry
        BY <1>8, <3>1, <3>2 DEF Expires
      <4>2. PICK d \in S : d.kind = "Expire" /\ a.seq = d.seq + 1
        BY <1>6, <2>1, <3>1, <4>1 DEF OrderPart
      <4>3. d.ref = id /\ d.at = r.expireAt
        BY <1>9, <4>2
      <4>4. d \in Pending' /\ d.ref = a.ref /\ d.at = orders'[a.ref].req.expireAt
        BY <1>2, <1>8, <3>1, <4>2, <4>3
      <4> QED BY <4>2, <4>4 DEF ExpiryOf
    <3> QED BY <1>8, <3>1, <3>2
  <2>2. CASE a \in Pending
    <3>1. /\ a.ref \in Positions /\ a.at = orders[a.ref].req.activateAt
          /\ Expires(a.ref) /\ orders[a.ref].status \in Live =>
               \E d \in Pending : ExpiryOf(d, a.ref) /\ a.seq = d.seq + 1
      BY <2>2 DEF LifetimeInv, RefsInv, ActivationTimed
    <3>2. a.at = orders'[a.ref].req.activateAt
      BY <1>1, <3>1
    <3>3. ASSUME Expires(a.ref)', orders'[a.ref].status \in Live
          PROVE  \E d \in Pending' : ExpiryOf(d, a.ref)' /\ a.seq = d.seq + 1
      <4>1. PICK d \in Pending : ExpiryOf(d, a.ref) /\ a.seq = d.seq + 1
        BY <1>1, <1>13, <3>1, <3>3
      <4> QED BY <1>12, <3>1, <4>1
    <3> QED BY <3>2, <3>3
  <2> QED BY <1>2, <2>1, <2>2
<1>15. AwaitsActivation'
  <2> SUFFICES ASSUME NEW k \in Positions', orders'[k].id = k, orders'[k].status = "Scheduled"
               PROVE  \E a \in Pending' : a.kind = "Activate" /\ a.ref = k
    BY DEF AwaitsActivation
  <2>1. CASE k \in Positions
    <3>1. orders[k].id = k /\ orders[k].status = "Scheduled"
      BY <1>1, <2>1 DEF Live
    <3>2. PICK a \in Pending : a.kind = "Activate" /\ a.ref = k
      BY <2>1, <3>1 DEF LifetimeInv, AwaitsActivation
    <3> QED BY <1>2, <1>4, <3>2
  <2>2. CASE k \notin Positions
    <3>1. out.order # <<>> /\ k = id
      BY <1>7, <2>2
    <3>2. PICK a \in S : a.kind = "Activate"
      BY <1>6, <3>1 DEF OrderPart
    <3>3. a.ref = k
      BY <1>9, <3>1, <3>2
    <3> QED BY <1>2, <3>2, <3>3
  <2> QED BY <2>1, <2>2
<1>16. AwaitsExpiry'
  <2> SUFFICES ASSUME NEW k \in Positions', Expires(k)', orders'[k].status \in Live \ {"Scheduled"}
               PROVE  \E d \in Pending' : ExpiryOf(d, k)' /\ \A c \in Pending' : c.seq # d.seq + 1
    BY DEF AwaitsExpiry
  <2>1. k \in Positions
    BY <1>7
  <2>2. Expires(k) /\ orders[k].status \in Live \ {"Scheduled"}
    BY <1>1, <1>13, <2>1
  <2>3. PICK d \in Pending : ExpiryOf(d, k) /\ \A c \in Pending : c.seq # d.seq + 1
    BY <2>1, <2>2 DEF LifetimeInv, AwaitsExpiry
  <2>4. d.seq + 1 < nextSeq
    BY <2>3 DEF LifetimeInv, ExpiryTimed, ExpiryOf
  <2>5. \A c \in Pending' : c.seq # d.seq + 1
    BY <1>2, <1>3, <2>3, <2>4
  <2> QED BY <1>12, <2>1, <2>3, <2>5
<1>17. ExpiryAhead'
  <2> SUFFICES ASSUME NEW d \in queue', NEW c \in batch', d.kind = "Expire"
               PROVE  c.at < d.at \/ \E a \in queue' : a.seq = d.seq + 1
    BY DEF ExpiryAhead
  <2>1. CASE d \in S
    BY <1>2, <1>9, <2>1
  <2>2. CASE d \in queue
    BY <1>2, <2>2 DEF LifetimeInv, ExpiryAhead
  <2> QED BY <1>2, <2>1, <2>2
<1>18. ActivatedByIdentity'
  <2> SUFFICES ASSUME NEW k \in Positions', orders'[k].status \in Live \ {"Scheduled"}
               PROVE  orders'[k].id = k
    BY DEF ActivatedByIdentity
  <2>1. k \in Positions
    BY <1>7
  <2> QED BY <1>1, <2>1 DEF LifetimeInv, ActivatedByIdentity
<1> QED BY <1>10, <1>11, <1>14, <1>15, <1>16, <1>17, <1>18 DEF LifetimeInv

\* Every step keeps the lifetimes and the identities.
LEMMA LifetimeStep ==
    ASSUME IndInv, QueueInv, IdentityInv, LifetimeInv, [Next]_vars
    PROVE  LifetimeInv' /\ IdentityInv'
<1>1. CASE PopBatch
  <2>1. UNCHANGED orders /\ Positions' = Positions
    BY <1>1 DEF PopBatch, simVars, Positions
  <2> QED BY <1>1, <2>1, LifetimePop, IdentityKept
<1>2. ASSUME NEW t, NEW origin, NEW out, NEW os, NEW S, NEW m,
             Answers(t, origin, out, os, S, m), Asked(origin)
      PROVE  LifetimeInv' /\ IdentityInv'
  <2>1. CASE out.order = <<>>
    <3>1. /\ Positions' = Positions
          /\ \A k \in Positions :
               /\ orders'[k].id = orders[k].id /\ orders'[k].req = orders[k].req
               /\ orders'[k].origin = orders[k].origin
      BY <1>2, <2>1, AnswerFacts
    <3> QED BY <1>2, <3>1, LifetimeAnswers, IdentityKept
  <2>2. CASE out.order # <<>>
    BY <1>2, <2>2, LifetimeAnswers, NewOrderIdentity
  <2> QED BY <2>1, <2>2
<1>3. ASSUME NEW S, NEW m, NEW D, NEW K, Works(S, m, D, K)
      PROVE  LifetimeInv' /\ IdentityInv'
  <2>1. /\ Positions' = Positions
        /\ \A k \in Positions :
             /\ orders'[k].id = orders[k].id /\ orders'[k].req = orders[k].req
             /\ orders'[k].origin = orders[k].origin
    BY <1>3, WorkFacts
  <2> QED BY <1>3, <2>1, LifetimeWorks, IdentityKept
<1>4. RefsInv
  BY DEF LifetimeInv
<1> QED BY <1>1, <1>2, <1>3, <1>4, Shapes

-----------------------------------------------------------------------------
(* Fills are within the lifetime of their order.                           *)

\* No step takes an order away or changes its request.
LEMMA RequestsKept ==
    ASSUME IndInv, QueueInv, LifetimeInv, [Next]_vars
    PROVE  \A k \in Positions : k \in Positions' /\ orders'[k].req = orders[k].req
<1>1. CASE PopBatch
  BY <1>1 DEF PopBatch, simVars, Positions
<1>2. ASSUME NEW t, NEW origin, NEW out, NEW os, NEW S, NEW m,
             Answers(t, origin, out, os, S, m)
      PROVE  \A k \in Positions : k \in Positions' /\ orders'[k].req = orders[k].req
  BY <1>2, AnswerFacts
<1>3. ASSUME NEW S, NEW m, NEW D, NEW K, Works(S, m, D, K)
      PROVE  \A k \in Positions : k \in Positions' /\ orders'[k].req = orders[k].req
  BY <1>3, WorkFacts
<1>4. RefsInv
  BY DEF LifetimeInv
<1> QED BY <1>1, <1>2, <1>3, <1>4, Shapes

\* When resting orders are matched, none of them is due to expire: the expiry
\* of that time is an earlier phase, and was popped with the match.
LEMMA ExpiryIsLater ==
    ASSUME QueueInv, LifetimeInv, NEW kind \in {"AllocateDepth", "AllocateAuction"},
           Processing(kind), NEW k \in Positions, Expires(k), orders[k].status = "Active"
    PROVE  Current.at < orders[k].req.expireAt
<1>1. /\ Current \in batch /\ Current.kind = kind /\ IsControl(Current)
      /\ \A d \in batch : Current = d \/ KeyBefore(Current, d)
  BY CurrentControl
<1>2. PICK d \in Pending : ExpiryOf(d, k) /\ \A c \in Pending : c.seq # d.seq + 1
  BY DEF LifetimeInv, AwaitsExpiry, Live
<1>3. d.kind = "Expire" /\ d.at = orders[k].req.expireAt /\ IsControl(d)
  BY <1>2 DEF ExpiryOf, QueueInv, ControlsInv, Pending
<1>4. CASE d \in batch
  <2>1. d.phase = 3 /\ Current.phase = 5
    BY <1>1, <1>3 DEF IsControl, PhaseOf, Expiry, Allocation
  <2>2. KeyBefore(Current, d)
    BY <1>1, <1>3, <1>4
  <2> QED BY <1>3, <2>1, <2>2 DEF KeyBefore
<1>5. CASE d \in queue
  <2>1. Current.at < d.at \/ \E a \in queue : a.seq = d.seq + 1
    BY <1>1, <1>3, <1>5 DEF LifetimeInv, ExpiryAhead
  <2> QED BY <1>2, <1>3, <2>1 DEF Pending
<1> QED BY <1>4, <1>5 DEF Pending

\* A fill within the lifetime of its order, for the orders os.
InLifetime(f, os) ==
    /\ f.order \in DOMAIN os
    /\ f.at >= os[f.order].req.activateAt
    /\ os[f.order].req.expireAt # NoExpiry => f.at < os[f.order].req.expireAt

\* It is enough that the new fills are.
LEMMA FillsKept ==
    ASSUME FillsInv,
           \A k \in Positions : k \in Positions' /\ orders'[k].req = orders[k].req,
           \A f \in fills' : f \in fills \/ InLifetime(f, orders)
    PROVE  FillsInv'
<1>1. \A f \in fills : InLifetime(f, orders)
  BY DEF FillsInv, FillsWithinLifetime, InLifetime, Positions
<1>2. \A f \in fills' : InLifetime(f, orders)
  BY <1>1
<1>3. \A f \in fills' : InLifetime(f, orders')
  BY <1>2 DEF InLifetime, Positions
<1> QED BY <1>3 DEF FillsInv, FillsWithinLifetime, InLifetime, Positions

\* Every step keeps the fills and the running evaluation in order.
LEMMA FillsStep ==
    ASSUME IndInv, QueueInv, LifetimeInv, EvaluatingInv, FillsInv, [Next]_vars
    PROVE  EvaluatingInv' /\ FillsInv'
<1>1. \A k \in Positions : k \in Positions' /\ orders'[k].req = orders[k].req
  BY RequestsKept
<1>2. evaluating.todo \subseteq Positions
  BY DEF IndInv, SimTypeOK
<1>3. ASSUME evaluating' = evaluating PROVE EvaluatingInv'
  BY <1>1, <1>2, <1>3 DEF EvaluatingInv, Expires
<1>4. ASSUME fills' = fills PROVE FillsInv'
  BY <1>1, <1>4, FillsKept
<1>5. \A k \in Positions :
        /\ orders[k].req.activateAt \in Nat
        /\ Expires(k) => orders[k].req.activateAt < orders[k].req.expireAt
  <2> TAKE k \in Positions
  <2>1. orders[k].req \in Requests
    BY OrderTypes DEF IndInv
  <2>2. orders[k].req.activateAt \in Nat /\ orders[k].req.expireAt \in Nat \cup {NoExpiry}
    BY <2>1, RequestsAssumption DEF Request
  <2> QED BY <2>1, <2>2, RequestsAssumption DEF Expires, NoExpiry
<1>6. CASE ActivateOrder
  <2>1. RefsInv
    BY DEF LifetimeInv
  <2>2. Current.ref \in Positions /\ Processing("Activate")
    BY <1>6, <2>1, ActivateMoves
  <2>3. CASE Skip \/ Fail("activation")
    BY <1>3, <1>4, <2>3 DEF Skip, Fail, simVars
  <2>4. CASE /\ Current.at = orders[Current.ref].req.activateAt
             /\ NewFills({Current.ref}, Current.at) /\ UNCHANGED evaluating
    <3>1. ASSUME NEW f \in fills', f \notin fills PROVE InLifetime(f, orders)
      <4>1. f.order = Current.ref /\ f.at = orders[Current.ref].req.activateAt
        BY <2>4, <3>1 DEF NewFills
      <4> QED BY <1>5, <2>2, <4>1 DEF InLifetime, Positions, Expires
    <3>2. FillsInv'
      BY <1>1, <3>1, FillsKept
    <3> QED BY <1>3, <2>4, <3>2
  <2> QED BY <1>6, <2>1, <2>3, <2>4, ActivateMoves
<1>7. CASE AllocateVisibleDepth
  <2>1. Processing("AllocateDepth")
    BY <1>7 DEF AllocateVisibleDepth
  <2>2. CASE Skip
    BY <1>3, <1>4, <2>2 DEF Skip, simVars
  <2>3. CASE BeginEvaluateActive(Current.ref, Current.at) /\ UNCHANGED <<orders, fills>>
    <3>1. \A k \in evaluating'.todo : k \in Positions /\ orders[k].status = "Active"
          /\ evaluating'.at = Current.at
      BY <2>3 DEF BeginEvaluateActive, RestsOnBook
    <3>2. \A k \in evaluating'.todo : Expires(k) => evaluating'.at < orders[k].req.expireAt
      BY <2>1, <3>1, ExpiryIsLater
    <3>3. EvaluatingInv'
      BY <2>3, <3>2 DEF EvaluatingInv, Expires
    <3> QED BY <1>4, <2>3, <3>3
  <2> QED BY <1>7, <2>2, <2>3 DEF AllocateVisibleDepth
<1>8. CASE EvaluateOrder
  <2>1. CASE Fail("fill")
    BY <1>3, <1>4, <2>1 DEF Fail, simVars
  <2>2. ASSUME NEW k \in evaluating.todo,
               /\ NewFills({k}, evaluating.at)
               /\ fills' # fills => evaluating.at >= orders[k].req.activateAt
               /\ evaluating'.todo \subseteq evaluating.todo
               /\ evaluating'.todo # {} => evaluating'.at = evaluating.at
        PROVE  EvaluatingInv' /\ FillsInv'
    <3>1. EvaluatingInv'
      BY <1>1, <1>2, <2>2 DEF EvaluatingInv, Expires
    <3>2. ASSUME NEW f \in fills', f \notin fills PROVE InLifetime(f, orders)
      <4>1. f.order = k /\ f.at = evaluating.at /\ evaluating.at >= orders[k].req.activateAt
        BY <2>2, <3>2 DEF NewFills
      <4> QED BY <1>2, <2>2, <4>1 DEF InLifetime, Positions, EvaluatingInv, Expires
    <3> QED BY <1>1, <3>1, <3>2, FillsKept
  <2> QED BY <1>8, <2>1, <2>2, EvaluateMoves
<1>9. CASE AllocateAuctionMatch
  <2>1. Processing("AllocateAuction")
    BY <1>9, AuctionMoves
  <2>2. CASE Fail("auction")
    BY <1>3, <1>4, <2>2 DEF Fail, simVars
  <2>3. ASSUME NEW K, NEW S, NEW m, Moves(K, S, m), NewFills(K, Current.at),
               \A k \in K : /\ orders[k].status = "Active"
                            /\ orders[k].req.activateAt <= Current.at,
               UNCHANGED evaluating
        PROVE  EvaluatingInv' /\ FillsInv'
    <3>1. K \subseteq Positions /\ Current.at \in Nat
      BY <2>1, <2>3, CurrentControl DEF Moves
    <3>2. ASSUME NEW f \in fills', f \notin fills PROVE InLifetime(f, orders)
      <4>1. f.order \in K /\ f.at = Current.at
        BY <2>3, <3>2 DEF NewFills
      <4>2. f.at >= orders[f.order].req.activateAt
        BY <1>5, <2>3, <3>1, <4>1
      <4>3. Expires(f.order) => Current.at < orders[f.order].req.expireAt
        BY <2>1, <2>3, <3>1, <4>1, ExpiryIsLater
      <4> QED BY <3>1, <4>1, <4>2, <4>3 DEF InLifetime, Positions, Expires
    <3> QED BY <1>1, <1>3, <2>3, <3>2, FillsKept
  <2> QED BY <1>9, <2>2, <2>3, AuctionMoves
<1>10. CASE ~(ActivateOrder \/ AllocateVisibleDepth \/ EvaluateOrder \/ AllocateAuctionMatch)
  <2> SUFFICES UNCHANGED <<fills, evaluating>>
    BY <1>3, <1>4
  <2>1. CASE ReleaseObservation
    BY <2>1, ReleaseAnswers DEF Answers, Fail, simVars
  <2>2. CASE DeliverFeedback \/ StrategyTimer
    BY <2>2 DEF DeliverFeedback, StrategyTimer, Callback, CallbackFails, Skip, Fail, simVars
  <2>3. CASE ExpireOrder
    BY <2>3 DEF ExpireOrder, Skip, Fail, simVars
  <2>4. CASE \/ SelectEvent \/ PopBatch \/ CommitEvent \/ EventDone \/ EndOfData \/ Finish
             \/ UNCHANGED vars
    BY <2>4 DEF SelectEvent, PopBatch, CommitEvent, EventDone, EndOfData, Finish, vars, simVars
  <2> QED BY <1>10, <2>1, <2>2, <2>3, <2>4 DEF Next
<1> QED BY <1>6, <1>7, <1>8, <1>9, <1>10

-----------------------------------------------------------------------------
(* The invariant of the run, for any input and any strategy.               *)

RunInv ==
    /\ IndInv
    /\ QueueInv
    /\ IdentityInv
    /\ LifetimeInv
    /\ EvaluatingInv
    /\ FillsInv

\* A run starts with nothing committed, submitted or scheduled.
LEMMA RunInvInit == Init => RunInv
<1> SUFFICES ASSUME Init PROVE RunInv
  OBVIOUS
<1>1. /\ SimInit /\ orders = <<>> /\ fills = {} /\ evaluating.todo = {}
      /\ committed = <<>> /\ visible = 0 /\ queue = {} /\ nextSeq = 1 /\ batch = {}
      /\ mode = "idle"
  BY DEF Init, SimInit, Idle
<1>2. IndInv
  BY <1>1, InitInv
<1>3. Positions = {} /\ Pending = {}
  BY <1>1 DEF Positions, Pending
<1>4. QueueInv
  <2>1. committed \in Seq(Events) /\ DOMAIN committed = {} /\ Len(committed) = 0
    BY <1>1
  <2>2. EventsInv
    BY <1>1, <2>1 DEF EventsInv, Incoming
  <2> QED BY <1>1, <2>1, <2>2 DEF QueueInv, ControlsInv, ReleaseInv
<1>5. IdentityInv /\ LifetimeInv
  BY <1>1, <1>3 DEF IdentityInv, LifetimeInv, RefsInv, ExpiryTimed, ActivationTimed,
                    AwaitsActivation, AwaitsExpiry, ExpiryAhead, ActivatedByIdentity
<1>6. EvaluatingInv /\ FillsInv
  BY <1>1 DEF EvaluatingInv, FillsInv, FillsWithinLifetime
<1> QED BY <1>2, <1>4, <1>5, <1>6 DEF RunInv

\* Every step keeps the invariant.
LEMMA RunInvNext == RunInv /\ [Next]_vars => RunInv'
<1> SUFFICES ASSUME RunInv, [Next]_vars PROVE RunInv'
  OBVIOUS
<1>1. IndInv /\ QueueInv /\ IdentityInv /\ LifetimeInv /\ EvaluatingInv /\ FillsInv /\ RefsInv
  BY DEF RunInv, LifetimeInv
<1>2. IndInv'
  BY <1>1, SimStep
<1>3. QueueInv'
  BY <1>1, QueueStep
<1>4. LifetimeInv' /\ IdentityInv'
  BY <1>1, LifetimeStep
<1>5. EvaluatingInv' /\ FillsInv'
  BY <1>1, FillsStep
<1> QED BY <1>2, <1>3, <1>4, <1>5 DEF RunInv

\* The invariant holds in every state of every run.
LEMMA RunInvHolds == Spec => []RunInv
<1>1. Init => RunInv
  BY RunInvInit
<1>2. RunInv /\ [Next]_vars => RunInv'
  BY RunInvNext
<1> QED BY <1>1, <1>2, PTL DEF Spec

\* Delayed release never reorders, loses or repeats an event: the pending
\* Release controls are those of the committed events that are not visible, and
\* the queue's order is the commit order.
THEOREM ReleasesKeepCommitOrder == Spec => []ReleasesFollowCommits
<1>1. ASSUME QueueInv PROVE ReleasesFollowCommits
  <2> DEFINE pending == {c \in queue \cup batch : c.kind = "Release"}
  <2>1. ReleaseInv(queue, batch, committed, visible) /\ ControlsInv(queue, batch, nextSeq)
    BY <1>1 DEF QueueInv
  <2>2. {c.ref : c \in pending} = (visible + 1)..Len(committed)
    <3>1. \A c \in pending : c.ref \in (visible + 1)..Len(committed)
      BY <2>1 DEF ReleaseInv
    <3>2. \A n \in (visible + 1)..Len(committed) : \E c \in pending : c.ref = n
      BY <2>1 DEF ReleaseInv
    <3> HIDE DEF pending
    <3> QED BY <3>1, <3>2
  <2>3. ASSUME NEW c \in pending, NEW d \in pending, c.ref < d.ref PROVE KeyBefore(c, d)
    <3>1. c.seq < d.seq /\ c.phase = d.phase
      BY <2>1, <2>3 DEF ReleaseInv, ControlsInv, IsControl
    <3>2. /\ c.ref \in (visible + 1)..Len(committed) /\ d.ref \in (visible + 1)..Len(committed)
          /\ c.at = committed[c.ref].at + Latency /\ d.at = committed[d.ref].at + Latency
      BY <2>1 DEF ReleaseInv
    <3>3. visible \in Nat /\ DOMAIN committed = 1..Len(committed) /\ Len(committed) \in Nat
          /\ Latency \in Nat
      BY <1>1, LenProperties, RunnerAssumption DEF QueueInv, EventsInv
    <3>4. c.ref \in DOMAIN committed /\ d.ref \in DOMAIN committed /\ c.ref <= d.ref
      BY <2>3, <3>2, <3>3
    <3>5. /\ committed[c.ref].at <= committed[d.ref].at
          /\ committed[c.ref].at \in Nat /\ committed[d.ref].at \in Nat
      <4>1. committed[c.ref] \in Events /\ committed[d.ref] \in Events
        BY <1>1, <3>3, <3>4, ElementOfSeq DEF QueueInv, EventsInv
      <4> QED BY <1>1, <3>4, <4>1, RunnerAssumption DEF QueueInv, EventsInv, Event
    <3>6. c.at <= d.at /\ c.at \in Nat /\ d.at \in Nat
      <4> DEFINE a == committed[c.ref].at
                 b == committed[d.ref].at
      <4>1. c.at = a + Latency /\ d.at = b + Latency
        BY <3>2
      <4>2. a \in Nat /\ b \in Nat /\ a <= b /\ Latency \in Nat
        BY <3>3, <3>5
      <4> HIDE DEF a, b, pending
      <4>3. a + Latency <= b + Latency /\ a + Latency \in Nat /\ b + Latency \in Nat
        BY <4>2
      <4> QED BY <4>1, <4>3
    <3> QED BY <3>1, <3>6 DEF KeyBefore
  <2> QED BY <2>2, <2>3 DEF ReleasesFollowCommits
<1>2. RunInv => QueueInv
  BY DEF RunInv
<1> QED BY <1>1, <1>2, RunInvHolds, PTL

\* No order trades before it is activated, nor at or after its expiry: an
\* expiry, a new book and an auction of the same time are processed in that
\* order, and a control scheduled into a running batch never overtakes them.
THEOREM NoFillOutsideLifetime == Spec => []FillsWithinLifetime
<1>1. RunInv => FillsWithinLifetime
  BY DEF RunInv, FillsInv
<1> QED BY <1>1, RunInvHolds, PTL

\* What the simulator keeps when its calls come in any order it keeps when the
\* coordinator drives it, publishing and submitting in one step of a release.
THEOREM SimulatorInRun ==
    Spec => []/\ SimTypeOK
              /\ ConsumedWithinDisplayed
              /\ StatusMatchesFilled
              /\ OneLiveOrderPerClient
<1>1. RunInv => /\ SimTypeOK
                /\ ConsumedWithinDisplayed
                /\ StatusMatchesFilled
                /\ OneLiveOrderPerClient
  BY DEF RunInv, IndInv
<1> QED BY <1>1, RunInvHolds, PTL

-----------------------------------------------------------------------------
(* What is left when the run returns.                                      *)

\* Without byte-identical events no two callbacks have the same origin, and so
\* every order has its own identity.
LEMMA OriginStep ==
    ASSUME RunInv, OriginInv, [Next]_vars
    PROVE  OriginInv'
<1> SUFFICES ASSUME ~Duplicates PROVE OriginInv'
  BY DEF OriginInv
<1> DEFINE Fresh(o, k, v, n, P) ==
             /\ o.id = k
             /\ o.origin.source = "event" => o.origin.ref \in 1..v
             /\ o.origin.source = "control" =>
                  o.origin.ref < n /\ \A c \in P : c.seq # o.origin.ref
<1>1. IndInv /\ QueueInv /\ IdentityInv /\ LifetimeInv /\ RefsInv
  BY DEF RunInv, LifetimeInv
<1>2. \A k \in Positions : Fresh(orders[k], k, visible, nextSeq, Pending)
  BY DEF OriginInv
<1>3. SUFFICES \A k \in Positions' : Fresh(orders'[k], k, visible', nextSeq', Pending')
  BY DEF OriginInv
<1>4. \A k \in Positions : orders[k].origin \in Origin
  BY <1>1, OrderTypes DEF IndInv, Order
<1>5. CASE PopBatch
  <2>1. /\ orders' = orders /\ Positions' = Positions /\ visible' = visible
        /\ nextSeq' = nextSeq
    BY <1>5 DEF PopBatch, simVars, Positions
  <2>2. Pending' = Pending
    BY <1>1, <1>5, PopTakesAll DEF Pending
  <2> HIDE DEF Fresh
  <2> QED BY <1>2, <2>1, <2>2
<1>6. ASSUME NEW S, NEW m, NEW D, NEW K, Works(S, m, D, K)
      PROVE  \A k \in Positions' : Fresh(orders'[k], k, visible', nextSeq', Pending')
  <2>1. /\ Positions' = Positions
        /\ \A k \in Positions : orders'[k].id = orders[k].id
                                /\ orders'[k].origin = orders[k].origin
    BY <1>1, <1>6, WorkFacts
  <2>2. /\ Pending' = (Pending \ D) \cup S /\ visible' = visible
        /\ nextSeq \in Nat /\ nextSeq' \in Nat /\ nextSeq <= nextSeq'
        /\ \A c \in S : c.seq \in Nat /\ nextSeq <= c.seq
    <3>1. visible' = visible
      BY <1>6 DEF Works
    <3> QED BY <1>1, <1>6, <3>1, WorkFacts
  <2> QED BY <1>2, <1>4, <2>1, <2>2 DEF Origin
<1>7. ASSUME NEW t, NEW origin, NEW out, NEW os, NEW S, NEW m,
             Answers(t, origin, out, os, S, m), Asked(origin)
      PROVE  \A k \in Positions' : Fresh(orders'[k], k, visible', nextSeq', Pending')
  <2>1. \A k \in Positions : orders'[k].id = orders[k].id
                             /\ orders'[k].origin = orders[k].origin
    BY <1>1, <1>7, AnswerFacts
  <2>2. /\ Pending' = (Pending \ {Current}) \cup S /\ Current \in Pending
        /\ nextSeq \in Nat /\ nextSeq' \in Nat /\ nextSeq <= nextSeq'
        /\ \A c \in Pending : c.seq \in Nat /\ c.seq < nextSeq
        /\ \A c \in S : c.seq \in Nat /\ nextSeq <= c.seq
        /\ \A c, d \in Pending : c.seq = d.seq => c = d
    BY <1>1, <1>7, AnswerFacts
  <2>3. visible \in Nat /\ visible' \in Nat /\ visible <= visible'
    BY <1>1, <1>7 DEF Asked, QueueInv, EventsInv
  <2>4. ASSUME NEW k \in Positions
        PROVE  Fresh(orders'[k], k, visible', nextSeq', Pending')
    BY <1>2, <1>4, <2>1, <2>2, <2>3 DEF Origin
  <2>5. CASE out.order = <<>>
    BY <1>1, <1>7, <2>4, <2>5, AnswerFacts
  <2>6. CASE out.order # <<>>
    <3> DEFINE n == Len(orders) + 1
               r == out.order[1]
    <3>1. NewOrder(origin, r)
      BY <1>1, <1>7, <2>6, NewOrderIdentity
    <3>2. \/ /\ origin.source = "event" /\ origin.ref = visible + 1
             /\ visible' = visible + 1
          \/ origin.source = "control" /\ origin.ref = Current.seq
      <4>1. CASE Current.kind = "Release"
        <5>1. /\ origin = EventOrigin(visible + 1) /\ visible' = visible + 1
              /\ visible + 1 \in 1..Len(committed)
          BY <1>7, <4>1 DEF Asked
        <5>2. /\ origin.source = "event" /\ origin.ref \in 1..(visible + 1)
              /\ committed[origin.ref] = committed[visible + 1]
          BY <1>1, <5>1, EventOriginType
        <5>3. DOMAIN committed = 1..Len(committed) /\ Len(committed) \in Nat
          BY <1>1, LenProperties DEF QueueInv, EventsInv
        <5>4. origin.ref \in DOMAIN committed /\ visible + 1 \in DOMAIN committed
          BY <2>3, <5>1, <5>2, <5>3
        <5> QED BY <1>1, <5>1, <5>2, <5>4 DEF QueueInv, EventsInv
      <4>2. CASE Current.kind # "Release"
        BY <1>7, <4>2 DEF Asked, ControlOrigin
      <4> QED BY <4>1, <4>2
    <3>3. \A k \in Positions : orders[k].origin # origin
      BY <1>2, <2>2, <2>3, <3>2
    <3>4. OrderIdentity(origin, r) = n
      BY <3>1, <3>3 DEF NewOrder
    <3>5. orders'[n].id = n /\ orders'[n].origin = origin
      BY <3>1, <3>4 DEF NewOrder, SubmittedOrder
    <3>6. Fresh(orders'[n], n, visible', nextSeq', Pending')
      BY <2>2, <2>3, <3>2, <3>5
    <3>7. Positions' = Positions \cup {n}
      BY <3>1 DEF NewOrder
    <3> HIDE DEF Fresh
    <3> QED BY <2>4, <3>6, <3>7
  <2> QED BY <2>5, <2>6
<1> HIDE DEF Fresh
<1> QED BY <1>1, <1>5, <1>6, <1>7, Shapes

\* The strategy hears of every change of an order.
LEMMA ToldStep ==
    ASSUME RunInv, ToldInv, [Next]_vars
    PROVE  ToldInv'
<1>1. IndInv /\ QueueInv /\ LifetimeInv /\ RefsInv
  BY DEF RunInv, LifetimeInv
<1> SUFFICES \A k \in Positions' : Hears(k, orders'[k].status, told', Pending')
  BY DEF ToldInv
<1>0. \A k \in Positions : Hears(k, orders[k].status, told, Pending)
  BY DEF ToldInv
<1>2. CASE PopBatch
  <2>1. UNCHANGED <<orders, told>> /\ Positions' = Positions
    BY <1>2 DEF PopBatch, simVars, Positions
  <2>2. Pending' = Pending
    BY <1>1, <1>2, PopTakesAll DEF Pending
  <2> QED BY <1>0, <2>1, <2>2
<1>3. ASSUME NEW S, NEW m, NEW D, NEW K, Works(S, m, D, K)
      PROVE  \A k \in Positions' : Hears(k, orders'[k].status, told', Pending')
  <2>1. Positions' = Positions /\ Pending' = (Pending \ D) \cup S
    BY <1>1, <1>3, WorkFacts
  <2>2. /\ \A d \in D : d.kind # "Feedback"
        /\ \A k \in Positions \ K : orders'[k] = orders[k]
        /\ told' = told
        /\ Tells(S \ {c \in S : c.kind # "Feedback"}, {<<k, orders'[k].status>> : k \in K})
    BY <1>3 DEF Works
  <2>3. ASSUME NEW k \in Positions
        PROVE  Hears(k, orders'[k].status, told', Pending')
    <3>1. CASE k \in K
      <4>1. \E c \in S : c.kind = "Feedback" /\ <<k, orders'[k].status>> \in c.news
        BY <2>2, <3>1 DEF Tells
      <4> QED BY <2>1, <4>1 DEF Hears
    <3>2. CASE k \notin K
      BY <1>0, <2>1, <2>2, <3>2 DEF Hears
    <3> QED BY <3>1, <3>2
  <2> QED BY <2>1, <2>3
<1>4. ASSUME NEW t, NEW origin, NEW out, NEW os, NEW S, NEW m,
             Answers(t, origin, out, os, S, m), Asked(origin)
      PROVE  \A k \in Positions' : Hears(k, orders'[k].status, told', Pending')
  <2>1. Pending' = (Pending \ {Current}) \cup S
    BY <1>1, <1>4, AnswerFacts
  <2>2. told' = told \cup (IF Current.kind = "Feedback" THEN Current.news ELSE {})
    BY <1>4 DEF Asked
  <2>3. ASSUME NEW k \in Positions'
        PROVE  Hears(k, orders'[k].status, told', Pending')
    <3>1. CASE k \in Positions /\ orders'[k].status = orders[k].status
      BY <1>0, <2>1, <2>2, <3>1 DEF Hears
    <3>2. CASE k \in Positions /\ orders'[k].status # orders[k].status
      <4>1. \E c \in S : c.kind = "Feedback" /\ <<k, orders'[k].status>> \in c.news
        BY <1>1, <1>4, <3>2, AnswersOrders
      <4> QED BY <2>1, <4>1 DEF Hears
    <3>3. CASE k \notin Positions
      <4>1. out.order # <<>>
        BY <1>1, <1>4, <3>3, AnswersOrders
      <4>2. /\ k = Len(orders) + 1 /\ orders'[k].status = "Scheduled"
        <5>1. /\ Positions' = Positions \cup {Len(orders) + 1}
              /\ orders'[Len(orders) + 1] = SubmittedOrder(origin, out.order[1])
          BY <1>1, <1>4, <4>1, AnswersOrders
        <5> QED BY <3>3, <5>1 DEF SubmittedOrder
      <4>3. \E f \in S : f.kind = "Feedback" /\ <<Len(orders) + 1, "Scheduled">> \in f.news
        BY <1>4, <4>1 DEF Answers, OrderPart
      <4> QED BY <2>1, <4>2, <4>3 DEF Hears
    <3> QED BY <3>1, <3>2, <3>3
  <2> QED BY <2>3
<1> QED BY <1>1, <1>2, <1>3, <1>4, Shapes

\* The last request of a timer has fired or is pending.
LEMMA TimersStep ==
    ASSUME RunInv, TimersInv, [Next]_vars
    PROVE  TimersInv'
<1>1. IndInv /\ QueueInv /\ LifetimeInv /\ RefsInv
  BY DEF RunInv, LifetimeInv
<1>2. CASE PopBatch
  <2>1. UNCHANGED <<timers, fired>>
    BY <1>2 DEF PopBatch
  <2>2. Pending' = Pending
    BY <1>1, <1>2, PopTakesAll DEF Pending
  <2> QED BY <2>1, <2>2 DEF TimersInv
<1>3. ASSUME NEW S, NEW m, NEW D, NEW K, Works(S, m, D, K)
      PROVE  TimersInv'
  <2>1. /\ Pending' = (Pending \ D) \cup S
        /\ \A c \in Pending' : c.kind = "Timer" => c \in Pending
    BY <1>1, <1>3, WorkFacts
  <2>2. UNCHANGED <<timers, fired>> /\ \A d \in D : d.kind = "Timer" => timers[d.ref] # d.seq
    BY <1>3 DEF Works
  <2> QED BY <2>1, <2>2 DEF TimersInv
<1>4. ASSUME NEW t, NEW origin, NEW out, NEW os, NEW S, NEW m,
             Answers(t, origin, out, os, S, m), Asked(origin)
      PROVE  TimersInv'
  <2>1. /\ Pending' = (Pending \ {Current}) \cup S
        /\ \A c \in S : c.seq \in Nat
    BY <1>1, <1>4, AnswerFacts
  <2>2. fired' = fired \cup (IF Current.kind = "Timer" THEN {Current.seq} ELSE {})
    BY <1>4 DEF Asked
  <2>3. TimerSet(S, out)
    BY <1>4 DEF Answers
  <2>4. \A c \in Pending' : c.kind = "Timer" => c.ref \in Timers
    BY <2>1, <2>3 DEF TimersInv, TimerSet
  <2>5. \A x \in Timers : timers[x] # 0 =>
          \/ timers[x] \in fired'
          \/ \E c \in Pending' : c.kind = "Timer" /\ c.ref = x /\ c.seq = timers[x]
    BY <2>1, <2>2 DEF TimersInv
  <2>6. CASE timers' = timers
    BY <2>4, <2>5, <2>6 DEF TimersInv
  <2>7. ASSUME NEW c \in S, c.kind = "Timer", timers' = [timers EXCEPT ![c.ref] = c.seq]
        PROVE  TimersInv'
    <3>1. c.ref \in Timers /\ timers \in [Timers -> Nat] /\ c.seq \in Nat /\ c \in Pending'
      BY <2>1, <2>3, <2>7 DEF TimersInv, TimerSet
    <3>2. timers' \in [Timers -> Nat]
      BY <2>7, <3>1
    <3>3. ASSUME NEW x \in Timers, timers'[x] # 0
          PROVE  \/ timers'[x] \in fired'
                 \/ \E d \in Pending' : d.kind = "Timer" /\ d.ref = x /\ d.seq = timers'[x]
      <4>1. CASE x = c.ref
        BY <2>7, <3>1, <4>1
      <4>2. CASE x # c.ref
        BY <2>5, <2>7, <3>1, <3>3, <4>2
      <4> QED BY <4>1, <4>2
    <3> QED BY <2>4, <3>2, <3>3 DEF TimersInv
  <2> QED BY <2>3, <2>6, <2>7 DEF TimerSet
<1> QED BY <1>1, <1>2, <1>3, <1>4, Shapes

\* The run returns only when nothing is left to do, and takes no step after it.
LEMMA DoneStep ==
    ASSUME RunInv, DoneInv, [Next]_vars
    PROVE  DoneInv'
<1> SUFFICES ASSUME mode' = "done"
             PROVE  queue' = {} /\ batch' = {} /\ evaluating'.todo = {}
  BY DEF DoneInv
<1>1. IndInv /\ QueueInv
  BY DEF RunInv
<1>2. CASE UNCHANGED vars
  BY <1>2 DEF vars, simVars, runVars, DoneInv
<1>3. CASE Finish
  BY <1>3 DEF Finish, Ready, simVars
<1>4. CASE mode = "done" /\ Next
  <2>1. batch = {} /\ evaluating.todo = {}
    BY <1>4 DEF DoneInv
  <2>2. \A kind : ~Processing(kind)
    BY <2>1 DEF Processing
  <2>3. ~ReleaseObservation
    BY <2>2 DEF ReleaseObservation
  <2>4. ~DeliverFeedback /\ ~StrategyTimer
    BY <2>2 DEF DeliverFeedback, StrategyTimer
  <2>5. ~ExpireOrder /\ ~ActivateOrder
    BY <2>2 DEF ExpireOrder, ActivateOrder
  <2>6. ~AllocateVisibleDepth /\ ~AllocateAuctionMatch
    BY <2>2 DEF AllocateVisibleDepth, AllocateAuctionMatch
  <2>7. ~EvaluateOrder
    BY <2>1 DEF EvaluateOrder
  <2>8. ~SelectEvent /\ ~PopBatch /\ ~CommitEvent /\ ~EventDone /\ ~EndOfData /\ ~Finish
    BY <1>4 DEF SelectEvent, PopBatch, CommitEvent, EventDone, EndOfData, Finish
  <2> QED BY <1>4, <2>3, <2>4, <2>5, <2>6, <2>7, <2>8 DEF Next
<1>5. CASE mode # "done" /\ Next
  <2>1. CASE ReleaseObservation
    BY <1>1, <1>5, <2>1, ReleaseAnswers DEF Answers, Fail
  <2>2. CASE DeliverFeedback \/ StrategyTimer
    BY <1>5, <2>2 DEF DeliverFeedback, StrategyTimer, Callback, CallbackFails, Skip, Fail
  <2>3. CASE ExpireOrder
    BY <1>5, <2>3 DEF ExpireOrder, Skip, Fail
  <2>4. CASE ActivateOrder
    BY <1>5, <2>4 DEF ActivateOrder, Skip, Fail
  <2>5. CASE AllocateVisibleDepth
    BY <1>5, <2>5 DEF AllocateVisibleDepth, Skip
  <2>6. CASE EvaluateOrder
    BY <1>5, <2>6 DEF EvaluateOrder, Fail
  <2>7. CASE AllocateAuctionMatch
    BY <1>5, <2>7 DEF AllocateAuctionMatch, Fail
  <2>8. CASE SelectEvent \/ PopBatch \/ CommitEvent \/ EventDone \/ EndOfData
    BY <1>5, <2>8 DEF SelectEvent, PopBatch, CommitEvent, EventDone, EndOfData
  <2> QED BY <1>3, <1>5, <2>1, <2>2, <2>3, <2>4, <2>5, <2>6, <2>7, <2>8 DEF Next
<1> QED BY <1>2, <1>4, <1>5

SettlingInv ==
    /\ OriginInv
    /\ ToldInv
    /\ TimersInv
    /\ DoneInv

\* A run of distinct events returns with every accepted order activated or
\* withdrawn, every order with an expiry terminal, every final status told to
\* the strategy and the last request of every timer fired.
THEOREM NothingLeftWhenDone ==
    ASSUME ~Duplicates
    PROVE  Spec => []SettledWhenDone
<1>1. Init => SettlingInv
  <2> SUFFICES ASSUME Init PROVE SettlingInv
    OBVIOUS
  <2>1. Positions = {} /\ Pending = {} /\ timers = [x \in Timers |-> 0] /\ mode = "idle"
    BY DEF Init, SimInit, Positions, Pending
  <2>2. timers \in [Timers -> Nat] /\ \A x \in Timers : timers[x] = 0
    BY <2>1
  <2> QED BY <2>1, <2>2 DEF SettlingInv, OriginInv, ToldInv, TimersInv, DoneInv
<1>2. RunInv /\ SettlingInv /\ [Next]_vars => SettlingInv'
  BY OriginStep, ToldStep, TimersStep, DoneStep DEF SettlingInv
<1>3. RunInv /\ SettlingInv => SettledWhenDone
  <2> SUFFICES ASSUME RunInv, SettlingInv, mode = "done" PROVE SettledWhenDone
    BY DEF SettledWhenDone
  <2>1. Pending = {}
    BY DEF SettlingInv, DoneInv, Pending
  <2>2. LifetimeInv /\ QueueInv
    BY DEF RunInv
  <2>3. ASSUME NEW k \in Positions
        PROVE  /\ orders[k].status # "Scheduled"
               /\ orders[k].req.expireAt # NoExpiry => orders[k].status \notin Live
               /\ <<k, orders[k].status>> \in told
    <3>1. orders[k].id = k
      BY DEF SettlingInv, OriginInv
    <3>2. orders[k].status # "Scheduled"
      BY <2>1, <2>2, <3>1 DEF LifetimeInv, AwaitsActivation
    <3>3. orders[k].req.expireAt # NoExpiry => orders[k].status \notin Live
      BY <2>1, <2>2, <3>2 DEF LifetimeInv, AwaitsExpiry, Expires
    <3>4. Hears(k, orders[k].status, told, {})
      BY <2>1 DEF SettlingInv, ToldInv
    <3>5. <<k, orders[k].status>> \in told
      BY <3>4 DEF Hears
    <3> QED BY <3>2, <3>3, <3>5
  <2>4. \A x \in Timers : timers[x] # 0 => timers[x] \in fired
    BY <2>1 DEF SettlingInv, TimersInv
  <2>5. visible = Len(committed)
    <3>1. visible \in 0..Len(committed) /\ Len(committed) \in Nat
      BY <2>2, LenProperties DEF QueueInv, EventsInv
    <3>2. ~(\E n : n \in (visible + 1)..Len(committed))
      BY <2>1, <2>2 DEF QueueInv, ReleaseInv, Pending
    <3>3. Len(committed) \notin (visible + 1)..Len(committed)
      BY <3>2
    <3> QED BY <3>1, <3>3
  <2> QED BY <2>3, <2>4, <2>5 DEF SettledWhenDone
<1> QED BY <1>1, <1>2, <1>3, RunInvHolds, PTL DEF Spec

-----------------------------------------------------------------------------
(* The failures of a run.                                                  *)

\* Books that differ in what was consumed of them.
SameBooks(bs2, bs) ==
    \A i \in Instruments :
        /\ bs2[i].snapshot = bs[i].snapshot
        /\ bs[i].snapshot # NoBook.snapshot =>
             /\ bs2[i].matchTime = bs[i].matchTime
             /\ bs2[i].visibleAt = bs[i].visibleAt
             /\ bs2[i].book = bs[i].book

\* Consuming depth changes nothing else of a book.
LEMMA ConsumeSame ==
    ASSUME IndInv, NEW i \in Instruments, NEW side, NEW taken, Consume(i, side, taken)
    PROVE  SameBooks(books', books)
<1>1. books \in [Instruments -> BookState \cup {NoBook}]
  BY DEF IndInv, SimTypeOK
<1> DEFINE b == [books[i] EXCEPT !.consumed[side] =
                    [l \in 1..BookDepth |-> @[l] + taken[l]]]
<1>2. books' = [books EXCEPT ![i] = b]
  BY DEF Consume
<1>3. /\ b.snapshot = books[i].snapshot
      /\ books[i] \in BookState => /\ b.matchTime = books[i].matchTime
                                   /\ b.visibleAt = books[i].visibleAt
                                   /\ b.book = books[i].book
  <2>1. CASE books[i] \in BookState
    BY <2>1 DEF BookState
  <2>2. CASE books[i] = NoBook
    <3>1. NoBook.snapshot = 0 /\ "snapshot" \in DOMAIN NoBook /\ "consumed" # "snapshot"
      BY DEF NoBook
    <3> QED BY <2>2, <3>1, NoBook \notin BookState DEF BookState, NoBook
  <2> QED BY <1>1, <2>1, <2>2
<1> HIDE DEF b
<1> QED BY <1>1, <1>2, <1>3 DEF SameBooks, NoBook

\* What is visible stays so when events are committed and depth is consumed.
LEMMA StillShown ==
    ASSUME IndInv, QueueInv, VisibleInv, UNCHANGED <<tradingStates, visible>>,
           SameBooks(books', books),
           \A n \in 1..Len(committed) : committed'[n] = committed[n]
    PROVE  VisibleInv'
<1>1. visible \in 0..Len(committed) /\ Len(committed) \in Nat
  BY LenProperties DEF QueueInv, EventsInv
<1>2. visible > 0 => committed'[visible] = committed[visible]
  BY <1>1
<1>3. ShownBy(tradingStates, books, committed', visible)
  BY <1>2 DEF VisibleInv, ShownBy
<1>4. ShownBy(tradingStates, books', committed', visible)
  BY <1>3 DEF ShownBy, SameBooks
<1> QED BY <1>4 DEF VisibleInv

\* A release never publishes older data than was published before.
LEMMA ReleasePublishes ==
    ASSUME IndInv, QueueInv, VisibleInv, PricesAdmissible, visible + 1 \in 1..Len(committed)
    PROVE  CanPublishObservation(committed[visible + 1], committed[visible + 1].at + Latency)
<1> DEFINE e == committed[visible + 1]
           v == e.at + Latency
           i == e.instrument
<1>1. committed \in Seq(Events) /\ visible \in Nat /\ DOMAIN committed = 1..Len(committed)
      /\ Len(committed) \in Nat /\ Latency \in Nat
  BY LenProperties, RunnerAssumption DEF QueueInv, EventsInv
<1>2. e \in Events /\ e.at \in Nat /\ i \in Instruments
  BY <1>1, ElementOfSeq, RunnerAssumption DEF Event
<1>3. visible > 0 => committed[visible].at \in Nat /\ committed[visible].at <= e.at
  <2> SUFFICES ASSUME visible > 0
               PROVE  committed[visible].at \in Nat /\ committed[visible].at <= e.at
    OBVIOUS
  <2>1. visible \in DOMAIN committed /\ visible + 1 \in DOMAIN committed /\ visible <= visible + 1
    BY <1>1
  <2>2. committed[visible] \in Events
    BY <1>1, <2>1, ElementOfSeq
  <2> QED BY <2>1, <2>2, RunnerAssumption DEF QueueInv, EventsInv, Event
<1>4. /\ tradingStates \in [Instruments -> TradingState \cup {NoState}]
      /\ books \in [Instruments -> BookState \cup {NoBook}]
  BY DEF IndInv, SimTypeOK
<1> HIDE DEF e, i
<1>5. \A x, y, z, w, l \in Nat : x <= z /\ z <= w /\ y <= z + l => ~(w + l < y \/ w < x)
  OBVIOUS
<1>6. e.at <= v
  BY <1>1, <1>2
<1>7. ~TradingStateRegresses(i, e.at, v)
  <2> SUFFICES ASSUME HasState(i)
               PROVE  ~(v < tradingStates[i].visibleAt \/ e.at < tradingStates[i].matchTime)
    BY DEF TradingStateRegresses
  <2>1. tradingStates[i].visibleAt \in Nat /\ tradingStates[i].matchTime \in Nat
    BY <1>2, <1>4 DEF HasState, TradingState, NoState
  <2>2. /\ visible > 0 /\ tradingStates[i].matchTime <= committed[visible].at
        /\ tradingStates[i].visibleAt <= committed[visible].at + Latency
    BY <1>2 DEF VisibleInv, ShownBy, HasState
  <2> QED BY <1>1, <1>2, <1>3, <1>5, <2>1, <2>2
<1>8. ~BookRegresses(i, e.at, v)
  <2> SUFFICES ASSUME HasBook(i)
               PROVE  ~(v < books[i].visibleAt \/ e.at < books[i].matchTime)
    BY DEF BookRegresses
  <2>1. books[i].visibleAt \in Nat /\ books[i].matchTime \in Nat
    BY <1>2, <1>4 DEF HasBook, BookState, NoBook
  <2>2. /\ visible > 0 /\ books[i].matchTime <= committed[visible].at
        /\ books[i].visibleAt <= committed[visible].at + Latency
    BY <1>2 DEF VisibleInv, ShownBy, HasBook
  <2> QED BY <1>1, <1>2, <1>3, <1>5, <2>1, <2>2
<1>9. e.book # <<>> =>
        \A side \in Sides : \A l \in DOMAIN BookSide(e.book[1], side) :
            Accepts(i, BookSide(e.book[1], side)[l].price)
  BY <1>2 DEF PricesAdmissible, i
<1>10. CanPublishTradingState(i, e.at, v)
  BY <1>6, <1>7 DEF CanPublishTradingState
<1>11. e.book # <<>> => CanPublishBook(i, e.book[1], e.at, v)
  BY <1>8, <1>9 DEF CanPublishBook
<1> QED BY <1>10, <1>11 DEF CanPublishObservation, e, i

\* What a release shows.
LEMMA ReleaseShows ==
    ASSUME IndInv, QueueInv, VisibleInv, visible + 1 \in 1..Len(committed),
           PublishObservation(committed[visible + 1], committed[visible + 1].at + Latency),
           visible' = visible + 1, committed' = committed
    PROVE  VisibleInv'
<1> DEFINE e == committed[visible + 1]
           v == e.at + Latency
           i == e.instrument
<1>1. committed \in Seq(Events) /\ visible \in Nat /\ DOMAIN committed = 1..Len(committed)
      /\ Len(committed) \in Nat /\ Latency \in Nat
  BY LenProperties, RunnerAssumption DEF QueueInv, EventsInv
<1>2. e \in Events /\ e.at \in Nat /\ i \in Instruments /\ v \in Nat
      /\ e.book \in Option(Books)
  BY <1>1, ElementOfSeq, RunnerAssumption DEF Event
<1>3. visible > 0 => committed[visible].at \in Nat /\ committed[visible].at <= e.at
  <2> SUFFICES ASSUME visible > 0
               PROVE  committed[visible].at \in Nat /\ committed[visible].at <= e.at
    OBVIOUS
  <2>1. visible \in DOMAIN committed /\ visible + 1 \in DOMAIN committed /\ visible <= visible + 1
    BY <1>1
  <2>2. committed[visible] \in Events
    BY <1>1, <2>1, ElementOfSeq
  <2> QED BY <2>1, <2>2, RunnerAssumption DEF QueueInv, EventsInv, Event
<1>4. /\ tradingStates \in [Instruments -> TradingState \cup {NoState}]
      /\ books \in [Instruments -> BookState \cup {NoBook}]
  BY DEF IndInv, SimTypeOK
<1>5. tradingStates' = [tradingStates EXCEPT ![i] =
           [matchTime |-> e.at, visibleAt |-> v, matching |-> e.condition.matching,
            entry |-> e.condition.entry]]
  BY DEF PublishObservation, PublishBook, PublishTradingState
<1>6. \/ books' = books
      \/ /\ e.book # <<>>
         /\ books' = [books EXCEPT ![i] =
              [book |-> e.book[1], matchTime |-> e.at, visibleAt |-> v,
               snapshot |-> books[i].snapshot + 1,
               consumed |-> [s \in Sides |-> [l \in 1..BookDepth |-> 0]]]]
  BY DEF PublishObservation, PublishBook
<1>8. \A x, z, w, l \in Nat : z <= w => (x <= z => x <= w) /\ (x <= z + l => x <= w + l)
  OBVIOUS
<1> HIDE DEF e, i, v
<1>9. ASSUME NEW j \in Instruments, tradingStates'[j].visibleAt # NoState.visibleAt
      PROVE  tradingStates'[j].matchTime <= e.at /\ tradingStates'[j].visibleAt <= v
  <2>1. CASE j = i
    BY <1>2, <1>4, <1>5, <2>1
  <2>2. CASE j # i
    <3>1. tradingStates'[j] = tradingStates[j]
      BY <1>4, <1>5, <2>2
    <3>2. tradingStates[j].visibleAt \in Nat /\ tradingStates[j].matchTime \in Nat
      BY <1>4, <1>9, <3>1 DEF TradingState, NoState
    <3>3. /\ visible > 0 /\ tradingStates[j].matchTime <= committed[visible].at
          /\ tradingStates[j].visibleAt <= committed[visible].at + Latency
      BY <1>9, <3>1 DEF VisibleInv, ShownBy
    <3> QED BY <1>1, <1>2, <1>3, <1>8, <3>1, <3>2, <3>3, SMTT(30) DEF v
  <2> QED BY <2>1, <2>2
<1>10. ASSUME NEW j \in Instruments, books'[j].snapshot # NoBook.snapshot
       PROVE  /\ books'[j].matchTime <= e.at /\ books'[j].visibleAt <= v
              /\ IsShown(j, books'[j].book)
  <2>1. CASE j = i /\ books' # books
    <3>1. /\ books'[i].matchTime = e.at /\ books'[i].visibleAt = v
          /\ books'[i].book = e.book[1] /\ e.book # <<>>
      BY <1>2, <1>4, <1>6, <2>1
    <3>2. IsShown(i, books'[i].book)
      BY <1>2, <3>1 DEF IsShown, i
    <3> QED BY <1>2, <2>1, <3>1, <3>2
  <2>2. CASE ~(j = i /\ books' # books)
    <3>1. books'[j] = books[j]
      BY <1>4, <1>6, <2>2
    <3>2. books[j].visibleAt \in Nat /\ books[j].matchTime \in Nat
      BY <1>4, <1>10, <3>1 DEF BookState, NoBook
    <3>3. /\ visible > 0 /\ books[j].matchTime <= committed[visible].at
          /\ books[j].visibleAt <= committed[visible].at + Latency
          /\ IsShown(j, books[j].book)
      BY <1>10, <3>1 DEF VisibleInv, ShownBy
    <3> QED BY <1>1, <1>2, <1>3, <1>8, <3>1, <3>2, <3>3 DEF v
  <2> QED BY <2>1, <2>2
<1>11. visible + 1 > 0 /\ committed[visible + 1].at = e.at
       /\ committed[visible + 1].at + Latency = v
  BY <1>1 DEF e, v
<1>12. ShownBy(tradingStates', books', committed, visible + 1)
  BY <1>9, <1>10, <1>11 DEF ShownBy
<1> QED BY <1>12 DEF VisibleInv

\* Every step keeps what is visible no newer than the visible events.
LEMMA VisibleStep ==
    ASSUME RunInv, VisibleInv, [Next]_vars
    PROVE  VisibleInv'
<1>1. IndInv /\ QueueInv /\ RefsInv
  BY DEF RunInv, LifetimeInv
<1>2. SameBooks(books, books)
  BY DEF SameBooks
<1>3. ASSUME UNCHANGED <<tradingStates, visible, committed>>, SameBooks(books', books)
      PROVE  VisibleInv'
  BY <1>1, <1>3, StillShown
<1>4. \A call : Fail(call) => VisibleInv'
  BY <1>2, <1>3 DEF Fail, simVars
<1>5. Skip => VisibleInv'
  BY <1>2, <1>3 DEF Skip, simVars
<1>6. CASE ReleaseObservation
  <2>1. CASE Fail("publish") \/ Fail("strategy")
    BY <1>4, <2>1
  <2>2. CASE /\ visible + 1 \in 1..Len(committed)
             /\ PublishObservation(committed[visible + 1], committed[visible + 1].at + Latency)
             /\ visible' = visible + 1 /\ committed' = committed
    BY <1>1, <2>2, ReleaseShows
  <2> QED BY <1>1, <1>6, <2>1, <2>2, ReleaseAnswers DEF Answers
<1>7. CASE CommitEvent
  <2>1. /\ committed' = committed \o incoming /\ mode = "before"
        /\ UNCHANGED <<books, tradingStates, visible>>
    BY <1>7 DEF CommitEvent, simVars
  <2>2. PICK e \in Events : incoming = <<e>>
    BY <1>1, <2>1 DEF QueueInv, EventsInv, Incoming
  <2>3. committed \in Seq(Events) /\ <<e>> \in Seq(Events)
    BY <1>1 DEF QueueInv, EventsInv
  <2>4. \A n \in 1..Len(committed) : committed'[n] = committed[n]
    BY <2>1, <2>2, <2>3, ConcatProperties
  <2> QED BY <1>1, <1>2, <2>1, <2>4, StillShown
<1>8. CASE ActivateOrder
  <2> DEFINE k == Current.ref
             r == orders[k].req
  <2>1. k \in Positions
    BY <1>1, <1>8, ActivateMoves
  <2>2. r.instrument \in Instruments
    BY <1>1, <2>1, OrderTypes, RequestsAssumption DEF IndInv, Request
  <2>3. CASE Activate(k, Current.at) /\ UNCHANGED <<tradingStates, visible, committed>>
    <3>1. books' = books \/ Consume(r.instrument, r.side, Sweep(books[r.instrument], r, r.qty))
      <4>1. \/ FailActivation(k, ActivationFailure(r, Current.at)) \/ RestUntilMatched(k)
            \/ SettleAtActivation(k, Current.at) \/ SweepAtActivation(k, Current.at)
        BY <2>3 DEF Activate
      <4>2. SweepAtActivation(k, Current.at) =>
              Consume(r.instrument, r.side, Sweep(books[r.instrument], r, r.qty))
        BY DEF SweepAtActivation
      <4> QED BY <4>1, <4>2 DEF FailActivation, RestUntilMatched, SettleAtActivation
    <3>2. SameBooks(books', books)
      BY <1>1, <1>2, <2>2, <3>1, ConsumeSame
    <3> QED BY <1>3, <2>3, <3>2
  <2> QED BY <1>4, <1>5, <1>8, <2>3 DEF ActivateOrder
<1>9. CASE EvaluateOrder
  <2>1. CASE Fail("fill")
    BY <1>4, <2>1
  <2>2. ASSUME NEW k \in evaluating.todo, EvaluateNext(k),
               UNCHANGED <<tradingStates, visible, committed>>
        PROVE  VisibleInv'
    <3> DEFINE r == orders[k].req
               taken == Sweep(books[r.instrument], r, r.qty - orders[k].filled)
    <3>1. k \in Positions
      BY <1>1 DEF IndInv, SimTypeOK
    <3>2. r.instrument \in Instruments
      BY <1>1, <3>1, OrderTypes, RequestsAssumption DEF IndInv, Request
    <3>3. books' = books \/ Consume(r.instrument, r.side, taken)
      BY <2>2 DEF EvaluateNext, ExecutePassiveOrder
    <3> HIDE DEF taken
    <3>4. SameBooks(books', books)
      BY <1>1, <1>2, <3>2, <3>3, ConsumeSame
    <3> QED BY <1>3, <2>2, <3>4
  <2> QED BY <1>9, <2>1, <2>2 DEF EvaluateOrder
<1>10. CASE DeliverFeedback \/ StrategyTimer
  <2>1. CASE UNCHANGED <<books, tradingStates, visible, committed>>
    BY <1>2, <1>3, <2>1
  <2> QED BY <1>4, <1>5, <1>10, <2>1 DEF DeliverFeedback, StrategyTimer, Callback, CallbackFails
<1>11. CASE ExpireOrder \/ AllocateVisibleDepth \/ AllocateAuctionMatch
  <2>1. CASE UNCHANGED <<books, tradingStates, visible, committed>>
    BY <1>2, <1>3, <2>1
  <2>2. CASE ExpireOrder
    BY <1>4, <1>5, <2>1, <2>2 DEF ExpireOrder
  <2>3. CASE AllocateVisibleDepth
    BY <1>4, <1>5, <2>1, <2>3 DEF AllocateVisibleDepth
  <2>4. CASE AllocateAuctionMatch
    BY <1>4, <1>5, <2>1, <2>4 DEF AllocateAuctionMatch
  <2> QED BY <1>11, <2>2, <2>3, <2>4
<1>12. CASE SelectEvent \/ PopBatch \/ EventDone \/ EndOfData \/ Finish \/ UNCHANGED vars
  <2>1. UNCHANGED <<books, tradingStates, visible, committed>>
    BY <1>12 DEF SelectEvent, PopBatch, EventDone, EndOfData, Finish, vars, simVars, runVars
  <2> QED BY <1>2, <1>3, <2>1
<1> QED BY <1>6, <1>7, <1>8, <1>9, <1>10, <1>11, <1>12 DEF Next

\* Activations are scheduled in the order in which orders are accepted.
LEMMA OrderedStep ==
    ASSUME ~Duplicates, RunInv, OriginInv, OrderedActivations, [Next]_vars
    PROVE  OrderedActivations'
<1>1. IndInv /\ QueueInv /\ IdentityInv /\ RefsInv
  BY DEF RunInv, LifetimeInv
<1>2. CASE PopBatch
  <2>1. Pending' = Pending
    BY <1>1, <1>2, PopTakesAll DEF Pending
  <2> QED BY <2>1 DEF OrderedActivations
<1>3. ASSUME NEW S, NEW m, NEW D, NEW K, Works(S, m, D, K)
      PROVE  OrderedActivations'
  <2>1. \A c \in Pending' : c.kind = "Activate" => c \in Pending
    BY <1>1, <1>3, WorkFacts
  <2> QED BY <2>1 DEF OrderedActivations
<1>4. ASSUME NEW t, NEW origin, NEW out, NEW os, NEW S, NEW m,
             Answers(t, origin, out, os, S, m), Asked(origin)
      PROVE  OrderedActivations'
  <2>1. /\ Pending' = (Pending \ {Current}) \cup S
        /\ nextSeq \in Nat
        /\ \A c \in Pending : c.seq \in Nat /\ c.seq < nextSeq
        /\ \A c \in S : c.seq \in Nat /\ nextSeq <= c.seq
    BY <1>1, <1>4, AnswerFacts
  <2>2. Positions = 1..Len(orders) /\ Len(orders) \in Nat
    BY <1>1, OrderTypes DEF IndInv
  <2>3. \A c \in S : c.kind = "Activate" => c.ref = Len(orders) + 1
    <3> SUFFICES ASSUME NEW c \in S, c.kind = "Activate" PROVE c.ref = Len(orders) + 1
      OBVIOUS
    <3>1. out.order # <<>> /\ c.ref = OrderIdentity(origin, out.order[1])
      BY <1>4 DEF Answers, OrderPart
    <3>2. NewOrder(origin, out.order[1])
      BY <1>1, <1>4, <3>1, NewOrderIdentity
    <3>3. OriginInv'
      BY OriginStep
    <3>4. Len(orders) + 1 \in Positions'
          /\ orders'[Len(orders) + 1].id = OrderIdentity(origin, out.order[1])
      BY <3>2 DEF NewOrder, SubmittedOrder
    <3>5. \A k \in Positions' : orders'[k].id = k
      BY <3>3 DEF OriginInv
    <3> QED BY <3>1, <3>4, <3>5
  <2>4. \A c \in Pending : c.kind = "Activate" => c.ref \in Positions
    BY <1>1 DEF RefsInv
  <2> SUFFICES ASSUME NEW a \in Pending', NEW b \in Pending',
                      a.kind = "Activate", b.kind = "Activate", a.ref < b.ref
               PROVE  a.seq < b.seq
    BY DEF OrderedActivations
  <2>5. CASE a \in Pending /\ b \in Pending
    BY <2>5 DEF OrderedActivations
  <2>6. CASE a \in Pending /\ b \in S
    BY <2>1, <2>6
  <2>7. CASE a \in S
    BY <2>1, <2>2, <2>3, <2>4, <2>7
  <2> QED BY <2>1, <2>5, <2>6, <2>7
<1> QED BY <1>1, <1>2, <1>3, <1>4, Shapes

\* The expiry control of a live order fits it.
LEMMA ExpiryFits ==
    ASSUME ~Duplicates, RunInv, OriginInv, Processing("Expire"), AnyWithIdentity(Current.ref, Live)
    PROVE  CanExpire(Current.ref, Current.at)
<1>1. Current \in Pending /\ Current.kind = "Expire"
  BY CurrentControl DEF RunInv, Pending
<1>2. Current.at = orders[Current.ref].req.expireAt
  BY <1>1 DEF RunInv, LifetimeInv, ExpiryTimed
<1>3. orders[Current.ref].status \in Live
  BY DEF AnyWithIdentity, OriginInv
<1> QED BY <1>2, <1>3 DEF CanExpire

\* An order is activated before the later ones of its time.
LEMMA ActivationIsInOrder ==
    ASSUME ~Duplicates, RunInv, OriginInv, OrderedActivations, Processing("Activate")
    PROVE  ActivationInOrder(Current.ref, Current.at)
<1> SUFFICES ASSUME NEW j \in Positions, j < Current.ref, orders[j].status = "Scheduled",
                    orders[j].req.activateAt = Current.at
             PROVE  FALSE
  BY DEF ActivationInOrder
<1>1. /\ Current \in batch /\ Current.kind = "Activate" /\ IsControl(Current)
      /\ \A d \in batch : Current = d \/ KeyBefore(Current, d)
  BY CurrentControl DEF RunInv
<1>2. orders[j].id = j
  BY DEF OriginInv
<1>3. PICK a \in Pending : a.kind = "Activate" /\ a.ref = j
  BY <1>2 DEF RunInv, LifetimeInv, AwaitsActivation
<1>4. a.at = Current.at
  BY <1>3 DEF RunInv, LifetimeInv, ActivationTimed
<1>5. a.seq < Current.seq
  BY <1>1, <1>3 DEF OrderedActivations, Pending
<1>6. IsControl(a)
  BY DEF RunInv, QueueInv, ControlsInv, Pending
<1>7. a.phase = Current.phase /\ a.seq \in Nat /\ Current.seq \in Nat /\ Current.at \in Nat
      /\ Current.phase \in Nat
  BY <1>1, <1>3, <1>6 DEF IsControl, ControlRecord
<1>8. CASE a \in batch
  <2>1. KeyBefore(Current, a)
    BY <1>1, <1>5, <1>7, <1>8
  <2> QED BY <1>4, <1>5, <1>7, <2>1 DEF KeyBefore
<1>9. CASE a \in queue
  <2>1. Current.at < a.at
    BY <1>1, <1>5, <1>9 DEF RunInv, QueueInv, ControlsInv
  <2> QED BY <1>4, <1>7, <2>1
<1> QED BY <1>8, <1>9 DEF Pending

\* A sweep of a book that was shown has prices the policy accepts.
LEMMA SweepPriced ==
    ASSUME PricesAdmissible, IndInv, VisibleInv, NEW r \in Requests, NEW q \in Nat,
           HasBook(r.instrument)
    PROVE  SweepPricesAccepted(books[r.instrument], r, Sweep(books[r.instrument], r, q))
<1> DEFINE state == books[r.instrument]
           taken == Sweep(state, r, q)
<1>1. r.side \in Sides /\ r.instrument \in Instruments
  BY RequestsAssumption DEF Request
<1>2. state \in BookState /\ WithinDisplayed(state)
  BY <1>1 DEF IndInv, SimTypeOK, ConsumedWithinDisplayed, HasBook, NoBook, WithinDisplayed,
              Displayed
<1>3. \A l \in 1..BookDepth : taken[l] \in Nat /\ taken[l] <= Available(state, r, l)
  BY <1>2, SweepBounds
<1>4. PICK e \in Events : e.instrument = r.instrument /\ e.book # <<>> /\ e.book[1] = state.book
  BY <1>1 DEF VisibleInv, ShownBy, IsShown, HasBook
<1> HIDE DEF taken
<1> SUFFICES ASSUME NEW l \in 1..BookDepth, taken[l] > 0
             PROVE  Accepts(r.instrument, SweptPrice(state, r, l))
  BY DEF SweepPricesAccepted, taken
<1>5. Available(state, r, l) \in Nat
  BY <1>2, AvailableType
<1>6. Reachable(state.book, r, l)
  BY <1>3, <1>5 DEF Available
<1>7. l \in DOMAIN BookSide(state.book, r.side)
  <2>1. /\ Len(BookSide(state.book, r.side)) \in Nat
        /\ DOMAIN BookSide(state.book, r.side) = 1..Len(BookSide(state.book, r.side))
    BY <1>1, <1>2, BookSideType, LenProperties DEF BookState
  <2> QED BY <1>6, <2>1 DEF Reachable, BookDepth
<1> HIDE DEF state
<1>8. Accepts(e.instrument, AdversePrice(BookSide(e.book[1], r.side)[l].price, r))
  BY <1>1, <1>4, <1>7 DEF PricesAdmissible
<1> QED BY <1>4, <1>8 DEF SweptPrice

\* The activation of a scheduled order fits it.
LEMMA ActivationFits ==
    ASSUME ~Duplicates, PricesAdmissible, RunInv, OriginInv, OrderedActivations, VisibleInv,
           Processing("Activate"), AnyWithIdentity(Current.ref, {"Scheduled"})
    PROVE  CanActivate(Current.ref, Current.at)
<1> DEFINE k == Current.ref
           r == orders[k].req
<1>1. Current \in Pending /\ Current.kind = "Activate"
  BY CurrentControl DEF RunInv, Pending
<1>2. k \in Positions /\ r.activateAt = Current.at
  BY <1>1 DEF RunInv, LifetimeInv, RefsInv, ActivationTimed
<1>3. orders[k].status = "Scheduled"
  BY DEF AnyWithIdentity, OriginInv
<1>4. r \in Requests /\ r.qty \in Nat
  BY <1>2, OrderTypes, RequestsAssumption DEF RunInv, IndInv, Request
<1>5. r.policy = "Settlement" => r.kind = "Limit"
  BY <1>4 DEF PricesAdmissible
<1>6. ASSUME ActivationFailure(r, Current.at) = "none", r.policy = "AtActivation"
      PROVE  SweepPricesAccepted(books[r.instrument], r, Sweep(books[r.instrument], r, r.qty))
  <2>1. VisibleBook(r.instrument, Current.at)
    BY <1>6 DEF ActivationFailure
  <2>2. HasBook(r.instrument) /\ IndInv
    BY <2>1 DEF VisibleBook, RunInv
  <2> QED BY <1>4, <2>2, SweepPriced
<1>7. ActivationInOrder(k, Current.at)
  BY ActivationIsInOrder
<1> QED BY <1>2, <1>3, <1>5, <1>6, <1>7 DEF CanActivate

\* The failures of a step.
LEMMA FailureStep ==
    ASSUME ~Duplicates, PricesAdmissible, RunInv, OriginInv, OrderedActivations, VisibleInv,
           OnlyExplainedFailures, [Next]_vars
    PROVE  OnlyExplainedFailures'
<1> SUFFICES failed' \in {failed, "strategy", "mark", "fill"}
  BY DEF OnlyExplainedFailures
<1>1. IndInv /\ QueueInv
  BY DEF RunInv
<1>2. CASE ReleaseObservation
  <2>1. Processing("Release")
    BY <1>2 DEF ReleaseObservation
  <2>2. Current.ref = visible + 1 /\ Current \in batch /\ Current.kind = "Release"
    BY <1>1, <2>1, ReleaseIsNext, CurrentControl
  <2>3. visible + 1 \in 1..Len(committed)
    <3>1. visible + 1 \in (visible + 1)..Len(committed) /\ visible \in Nat
      BY <1>1, <2>2 DEF QueueInv, ReleaseInv, EventsInv
    <3> QED BY <3>1
  <2>4. /\ OccurrenceMatches(Current.ref)
        /\ CanPublishObservation(committed[Current.ref], committed[Current.ref].at + Latency)
    BY <1>1, <2>2, <2>3, ReleasePublishes DEF OccurrenceMatches
  <2> QED BY <1>2, <2>4 DEF ReleaseObservation, Fail
<1>3. CASE DeliverFeedback
  BY <1>3 DEF DeliverFeedback, Callback, CallbackFails, Fail
<1>4. CASE StrategyTimer
  BY <1>4 DEF StrategyTimer, Callback, CallbackFails, Fail, Skip
<1>5. CASE ExpireOrder
  <2>1. AnyWithIdentity(Current.ref, Live) => CanExpire(Current.ref, Current.at)
    BY <1>5, ExpiryFits DEF ExpireOrder
  <2> QED BY <1>5, <2>1 DEF ExpireOrder, Skip
<1>6. CASE ActivateOrder
  <2>1. AnyWithIdentity(Current.ref, {"Scheduled"}) => CanActivate(Current.ref, Current.at)
    BY <1>6, ActivationFits DEF ActivateOrder
  <2> QED BY <1>6, <2>1 DEF ActivateOrder, Skip
<1>7. CASE AllocateVisibleDepth
  BY <1>7 DEF AllocateVisibleDepth, Skip
<1>8. CASE EvaluateOrder
  BY <1>8 DEF EvaluateOrder, Fail
<1>9. CASE AllocateAuctionMatch
  <2>1. Current \in batch /\ Current.kind = "AllocateAuction"
    BY <1>1, <1>9, CurrentControl DEF AllocateAuctionMatch
  <2>2. Current.ref \in 1..Len(committed) /\ committed[Current.ref].clearing # <<>>
    BY <1>1, <2>1 DEF QueueInv, ReleaseInv
  <2>3. committed[Current.ref] \in Events
    BY <1>1, <2>2, ElementOfSeq DEF QueueInv, EventsInv
  <2>4. Accepts(committed[Current.ref].instrument, committed[Current.ref].clearing[1])
    BY <2>2, <2>3 DEF PricesAdmissible
  <2> QED BY <1>9, <2>4 DEF AllocateAuctionMatch
<1>10. CASE \/ SelectEvent \/ PopBatch \/ CommitEvent \/ EventDone \/ EndOfData \/ Finish
            \/ UNCHANGED vars
  BY <1>10 DEF SelectEvent, PopBatch, CommitEvent, EventDone, EndOfData, Finish, vars, runVars
<1> QED BY <1>2, <1>3, <1>4, <1>5, <1>6, <1>7, <1>8, <1>9, <1>10 DEF Next

\* On a run of distinct events whose prices the policies accept the
\* coordinator's own calls of the simulator and the visible core never fail:
\* no observation is released twice or out of order, no control acts on an
\* order in the wrong status or at the wrong time.
THEOREM FailuresAreExplained ==
    ASSUME ~Duplicates, PricesAdmissible
    PROVE  Spec => []OnlyExplainedFailures
<1> DEFINE FailInv == OriginInv /\ OrderedActivations /\ VisibleInv /\ OnlyExplainedFailures
<1>1. Init => FailInv
  <2> SUFFICES ASSUME Init PROVE FailInv
    OBVIOUS
  <2>1. Positions = {} /\ Pending = {} /\ failed = "none"
    BY DEF Init, SimInit, Positions, Pending
  <2>2. \A i \in Instruments : tradingStates[i] = NoState /\ books[i] = NoBook
    BY DEF Init, SimInit
  <2>3. VisibleInv
    BY <2>2 DEF VisibleInv, ShownBy
  <2> QED BY <2>1, <2>3 DEF OriginInv, OrderedActivations, OnlyExplainedFailures
<1>2. RunInv /\ FailInv /\ [Next]_vars => FailInv'
  BY OriginStep, OrderedStep, VisibleStep, FailureStep
<1>3. FailInv => OnlyExplainedFailures
  OBVIOUS
<1> HIDE DEF FailInv
<1> QED BY <1>1, <1>2, <1>3, RunInvHolds, PTL DEF Spec
=============================================================================
