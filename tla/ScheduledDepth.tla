--------------------------- MODULE ScheduledDepth ---------------------------
(***************************************************************************)
(* The scheduled visible-depth simulator, ScheduledDepthSimulator of       *)
(* crates/execution-sim/src/scheduled.rs, with the depth sweep of          *)
(* crates/execution-sim/src/depth.rs.                                      *)
(*                                                                         *)
(* The simulator owns the newest visible five-level book of every          *)
(* instrument, how much of each displayed level the strategy's own orders  *)
(* already took, the newest visible trading state, the scheduled orders    *)
(* and their fills.  Each public operation is one action.  A call that     *)
(* returns Err before it changes anything is a call the action is not      *)
(* enabled for.  The one loop that shares depth between orders,            *)
(* evaluate_active, is one step per order: `evaluating` holds what is left *)
(* of the running call and nothing else can happen until it is empty.      *)
(*                                                                         *)
(* Abstractions.  Times are naturals, prices integers (a Signed price      *)
(* policy admits values <= 0) and quantities naturals in the one unit of   *)
(* their instrument.  An order identity (a hash of origin, output sequence *)
(* and request) is the position of the first order with the same origin    *)
(* and request, which is what a lookup by identity finds.  Acceptance      *)
(* sequences are the positions in `orders`.                                *)
(***************************************************************************)
EXTENDS Integers, Sequences, FiniteSetsExt

CONSTANTS
    Instruments,   \* the configured universe
    Clients,       \* client order ids
    Origins,       \* the submission contexts callers pass
    Requests,      \* the requests strategies can make
    Books,         \* the complete book snapshots the market data can show
    Conditions,    \* the trading states the market data can show
    AuctionPrices, \* the clearing prices a call auction can show
    Times,         \* the times at which operations are called
    Config,        \* per instrument: depth model and price policy
    MaxOrders,     \* bound on accepted orders
    MaxSnapshots   \* bound on the books published per instrument

BookDepth == 5
NoExpiry  == -1

Sides     == {"Buy", "Sell"}
Policies  == {"AtActivation", "UntilExpiry", "AuctionCross", "Settlement"}
Matchings == {"Continuous", "CallAuction", "Disabled"}
Entries   == {"Allowed", "LimitOnly", "Blocked"}
Reasons   == {"MissingVisibleDepth", "StaleVisibleDepth", "MatchingDisabled",
              "NewOrderEntryBlocked", "PriceNotMarketable",
              "InsufficientVisibleDepth"}

Condition == [matching : Matchings, entry : Entries]
Levels  == [price : Int, qty : Nat \ {0}]
Book    == [bids : Seq(Levels), asks : Seq(Levels)]
Model   == [depthLevels : 1..BookDepth, maxStale : Nat, adverse : Nat,
            signed : BOOLEAN]
Request == [client : Clients, instrument : Instruments, side : Sides,
            kind : {"Market", "Limit"}, limit : Int, qty : Nat \ {0},
            policy : Policies, activateAt : Nat, expireAt : Nat \cup {NoExpiry}]

\* The context of a submission: the callback it comes from (its event or its
\* control) and the decision time.
Origin  == [source : {"event", "control"}, at : Nat, ref : Nat]

\* What the constructors of ScheduledOrderRequest, ScheduledDepthModel and
\* BookSide guarantee of their values.
ASSUME ConfigAssumption == Config \in [Instruments -> Model]
ASSUME RequestsAssumption ==
    /\ Requests \subseteq Request
    /\ \A r \in Requests : r.expireAt # NoExpiry => r.expireAt > r.activateAt
ASSUME BooksAssumption ==
    /\ Books \subseteq Book
    /\ \A b \in Books : Len(b.bids) <= BookDepth /\ Len(b.asks) <= BookDepth
ASSUME BoundsAssumption ==
    /\ Times \subseteq Nat
    /\ Origins \subseteq Origin
    /\ AuctionPrices \subseteq Int
    /\ Conditions \subseteq Condition
    /\ MaxOrders \in Nat
    /\ MaxSnapshots \in Nat

VARIABLES
    books,          \* newest visible book and its consumption, or NoBook
    tradingStates,  \* newest visible matching and order-entry state, or NoState
    orders,         \* the orders, in acceptance order
    clientOrders,   \* identity of the order last accepted for a client id, or 0
    fills,          \* the fill records
    evaluating      \* the running call of evaluate_active

simVars == <<books, tradingStates, orders, clientOrders, fills, evaluating>>

-----------------------------------------------------------------------------
Statuses == {"Scheduled", "Active", "PartiallyFilled", "MatchAttempted",
             "Filled", "Failed", "Expired", "Replaced", "Cancelled"}

\* Seeded fault: an active order is not expired.
LiveWithoutActive == {"Scheduled", "PartiallyFilled", "MatchAttempted"}

\* The statuses expire() and the runner's order_can_expire accept.
Live == {"Scheduled", "Active", "PartiallyFilled", "MatchAttempted"}

\* snapshot counts the books published for the instrument: it is not in the
\* code and only lets a property tell one snapshot's depth from the next one's.
NoBook  == [snapshot |-> 0]
NoState == [visibleAt |-> -1]

BookState ==
    [book : Books, matchTime : Nat, visibleAt : Nat, snapshot : Nat \ {0},
     consumed : [Sides -> [1..BookDepth -> Nat]]]
TradingState ==
    [matchTime : Nat, visibleAt : Nat, matching : Matchings, entry : Entries]
Order ==
    [id : Nat \ {0}, origin : Origin, req : Requests, status : Statuses,
     reason : Reasons \cup {"none"}, filled : Nat]
Fill ==
    [order : Nat \ {0}, level : 1..BookDepth, source : {"depth", "settlement", "auction"},
     at : Nat, price : Int, qty : Nat \ {0}, snapshot : Nat]

Positions == DOMAIN orders

Idle == [at |-> 0, todo |-> {}]

SimTypeOK ==
    /\ books \in [Instruments -> BookState \cup {NoBook}]
    /\ tradingStates \in [Instruments -> TradingState \cup {NoState}]
    /\ orders \in Seq(Order)
    /\ clientOrders \in [Clients -> Nat]
    /\ fills \subseteq Fill
    /\ evaluating \in [at : Nat, todo : SUBSET Positions]

SimInit ==
    /\ books = [i \in Instruments |-> NoBook]
    /\ tradingStates = [i \in Instruments |-> NoState]
    /\ orders = <<>>
    /\ clientOrders = [c \in Clients |-> 0]
    /\ fills = {}
    /\ evaluating = Idle

-----------------------------------------------------------------------------
(* The depth sweep.                                                        *)

Accepts(i, price) == Config[i].signed \/ price > 0

EntryAllowed(entry, r) ==
    \/ entry = "Allowed"
    \/ entry = "LimitOnly" /\ r.kind = "Limit"

BookSide(book, side) == IF side = "Buy" THEN book.asks ELSE book.bids

AdversePrice(price, r) ==
    IF r.side = "Buy" THEN price + Config[r.instrument].adverse
                      ELSE price - Config[r.instrument].adverse

IsMarketable(price, r) ==
    \/ r.kind = "Market"
    \/ r.side = "Buy"  /\ price <= r.limit
    \/ r.side = "Sell" /\ price >= r.limit

\* The levels the loop visits when the quantity does not run out: at most
\* depth_levels, and none from the first one that is not marketable.
Reachable(book, r, l) ==
    LET levels == BookSide(book, r.side) IN
    /\ l <= Len(levels)
    /\ l <= Config[r.instrument].depthLevels
    /\ \A k \in 1..l : IsMarketable(AdversePrice(levels[k].price, r), r)

\* Seeded fault: the sweep forgets what earlier orders took.
AvailableUnshared(state, r, l) ==
    IF Reachable(state.book, r, l) THEN BookSide(state.book, r.side)[l].qty ELSE 0

Available(state, r, l) ==
    IF Reachable(state.book, r, l)
    THEN BookSide(state.book, r.side)[l].qty - state.consumed[r.side][l]
    ELSE 0

Least(a, b) == IF a < b THEN a ELSE b

\* What the loop over the BookDepth = 5 levels takes from each of them when
\* q is requested.
Sweep(state, r, q) ==
    LET t1 == Least(q, Available(state, r, 1))
        t2 == Least(q - t1, Available(state, r, 2))
        t3 == Least(q - t1 - t2, Available(state, r, 3))
        t4 == Least(q - t1 - t2 - t3, Available(state, r, 4))
        t5 == Least(q - t1 - t2 - t3 - t4, Available(state, r, 5))
    IN  <<t1, t2, t3, t4, t5>>

Swept(taken) == taken[1] + taken[2] + taken[3] + taken[4] + taken[5]

SweptPrice(state, r, l) == AdversePrice(BookSide(state.book, r.side)[l].price, r)

SweepFills(k, state, r, taken, at) ==
    { [order |-> k, level |-> l, source |-> "depth", at |-> at,
       price |-> SweptPrice(state, r, l), qty |-> taken[l],
       snapshot |-> state.snapshot] : l \in {x \in 1..BookDepth : taken[x] > 0} }

\* Every fill price is checked against the price policy before anything changes.
SweepPricesAccepted(state, r, taken) ==
    \A l \in 1..BookDepth :
        taken[l] > 0 => Accepts(r.instrument, SweptPrice(state, r, l))

Consume(i, side, taken) ==
    books' = [books EXCEPT ![i].consumed[side] =
                 [l \in 1..BookDepth |-> @[l] + taken[l]]]

-----------------------------------------------------------------------------
(* Market data becoming visible.                                           *)

HasState(i) == tradingStates[i].visibleAt # NoState.visibleAt
HasBook(i)  == books[i].snapshot # NoBook.snapshot

TradingStateRegresses(i, m, v) ==
    HasState(i)
        /\ (v < tradingStates[i].visibleAt \/ m < tradingStates[i].matchTime)

CanPublishTradingState(i, m, v) == m <= v /\ ~TradingStateRegresses(i, m, v)

PublishTradingState(i, m, v, c) ==
    /\ CanPublishTradingState(i, m, v)
    /\ tradingStates' = [tradingStates EXCEPT ![i] =
           [matchTime |-> m, visibleAt |-> v, matching |-> c.matching, entry |-> c.entry]]

BookRegresses(i, m, v) ==
    HasBook(i) /\ (v < books[i].visibleAt \/ m < books[i].matchTime)

CanPublishBook(i, book, m, v) ==
    /\ \A side \in Sides : \A l \in DOMAIN BookSide(book, side) :
           Accepts(i, BookSide(book, side)[l].price)
    /\ ~BookRegresses(i, m, v)

\* Seeded fault: a new snapshot inherits the consumption of the old one.
PublishBookKeepingConsumption(i, book, m, v, c) ==
    /\ CanPublishBook(i, book, m, v)
    /\ PublishTradingState(i, m, v, c)
    /\ books' = [books EXCEPT ![i] =
           [book |-> book, matchTime |-> m, visibleAt |-> v,
            snapshot |-> books[i].snapshot + 1,
            consumed |-> IF HasBook(i) THEN books[i].consumed
                         ELSE [s \in Sides |-> [l \in 1..BookDepth |-> 0]]]]

PublishBook(i, book, m, v, c) ==
    /\ CanPublishBook(i, book, m, v)
    /\ PublishTradingState(i, m, v, c)
    /\ books' = [books EXCEPT ![i] =
           [book |-> book, matchTime |-> m, visibleAt |-> v,
            snapshot |-> books[i].snapshot + 1,
            consumed |-> [s \in Sides |-> [l \in 1..BookDepth |-> 0]]]]

-----------------------------------------------------------------------------
(* The life of an order.                                                   *)

\* The identity a submission gets: that of the first equal one, or a new one.
OrderIdentity(origin, r) ==
    LET same == {k \in Positions : orders[k].origin = origin /\ orders[k].req = r}
    IN  IF same = {} THEN Len(orders) + 1 ELSE CHOOSE k \in same : \A j \in same : k <= j

SubmitAccepted(decision, r) ==
    /\ r.activateAt >= decision
    /\ r.kind = "Limit" => Accepts(r.instrument, r.limit)
    /\ clientOrders[r.client] # 0 => orders[clientOrders[r.client]].status = "Scheduled"

SubmittedOrder(origin, r) ==
    [id |-> OrderIdentity(origin, r), origin |-> origin, req |-> r,
     status |-> "Scheduled", reason |-> "none", filled |-> 0]

\* Seeded fault: the replaced order stays live.
OrdersWithoutReplacement(os, origin, r) == Append(os, SubmittedOrder(origin, r))

OrdersWithSubmission(os, origin, r) ==
    LET previous == clientOrders[r.client] IN
    Append(IF previous = 0 THEN os ELSE [os EXCEPT ![previous].status = "Replaced"],
           SubmittedOrder(origin, r))

Submit(origin, r) ==
    /\ SubmitAccepted(origin.at, r)
    /\ orders' = OrdersWithSubmission(orders, origin, r)
    /\ clientOrders' = [clientOrders EXCEPT ![r.client] = OrderIdentity(origin, r)]

CancelBeforeActivation(c) ==
    LET k == clientOrders[c] IN
    /\ k # 0
    /\ orders[k].status = "Scheduled"
    /\ orders' = [orders EXCEPT ![k].status = "Cancelled"]

\* Seeded fault: expiry does not look at the order's status.
CanExpireAnytime(k, at) == orders[k].req.expireAt = at

CanExpire(k, at) == orders[k].status \in Live /\ orders[k].req.expireAt = at

Expire(k, at) ==
    /\ CanExpire(k, at)
    /\ orders' = [orders EXCEPT ![k].status = "Expired"]

\* Seeded fault: the acceptance order is not checked.
ActivationUnordered(k, at) == TRUE

\* Same-time activations follow acceptance, whatever the instrument.
ActivationInOrder(k, at) ==
    \A j \in Positions :
        j < k => ~(orders[j].status = "Scheduled" /\ orders[j].req.activateAt = at)

VisibleState(i, at) == HasState(i) /\ tradingStates[i].visibleAt <= at
VisibleBook(i, at)  == HasBook(i) /\ books[i].visibleAt <= at

BookIsStale(i, at) ==
    \/ at - books[i].matchTime < 0
    \/ at - books[i].matchTime > Config[i].maxStale

MatchingEnabled(i, at) ==
    VisibleState(i, at) /\ tradingStates[i].matching # "Disabled"

\* Why an activation fails before the book is swept, or "none".  The checks
\* are ordered as in the code; only the first applies to every policy.
ActivationFailure(r, at) ==
    LET i == r.instrument IN
    IF VisibleState(i, at) /\ ~EntryAllowed(tradingStates[i].entry, r)
    THEN "NewOrderEntryBlocked"
    ELSE IF r.policy # "AtActivation" THEN "none"
    ELSE IF ~VisibleBook(i, at) THEN "MissingVisibleDepth"
    ELSE IF BookIsStale(i, at) THEN "StaleVisibleDepth"
    ELSE IF ~MatchingEnabled(i, at) THEN "MatchingDisabled"
    ELSE "none"

FailActivation(k, reason) ==
    /\ orders' = [orders EXCEPT ![k].status = "Failed", ![k].reason = reason]
    /\ UNCHANGED <<books, fills>>

RestUntilMatched(k) ==
    /\ orders' = [orders EXCEPT ![k].status = "Active"]
    /\ UNCHANGED <<books, fills>>

SettleAtActivation(k, at) ==
    LET r == orders[k].req IN
    /\ orders' = [orders EXCEPT ![k].status = "Filled", ![k].filled = r.qty]
    /\ fills' = fills \cup {[order |-> k, level |-> 1, source |-> "settlement", at |-> at,
                             price |-> r.limit, qty |-> r.qty, snapshot |-> 0]}
    /\ UNCHANGED books

SweepFailure(r, filled) ==
    IF filled = 0 /\ r.kind = "Limit" THEN "PriceNotMarketable"
                                     ELSE "InsufficientVisibleDepth"

SweepAtActivation(k, at) ==
    LET r     == orders[k].req
        state == books[r.instrument]
        taken == Sweep(state, r, r.qty)
        total == Swept(taken)
    IN  /\ Consume(r.instrument, r.side, taken)
        /\ fills' = fills \cup SweepFills(k, state, r, taken, at)
        /\ orders' = IF total = r.qty
                     THEN [orders EXCEPT ![k].status = "Filled", ![k].filled = total]
                     ELSE [orders EXCEPT ![k].status = "Failed", ![k].filled = total,
                                         ![k].reason = SweepFailure(r, total)]

\* The calls of activate that do not return an error.
CanActivate(k, at) ==
    LET r == orders[k].req IN
    /\ orders[k].status = "Scheduled"
    /\ r.activateAt = at
    /\ ActivationInOrder(k, at)
    /\ ActivationFailure(r, at) = "none" =>
         /\ r.policy = "Settlement" => r.kind = "Limit"
         /\ r.policy = "AtActivation" =>
              LET state == books[r.instrument] IN
              SweepPricesAccepted(state, r, Sweep(state, r, r.qty))

Activate(k, at) ==
    LET r      == orders[k].req
        reason == ActivationFailure(r, at)
    IN  /\ CanActivate(k, at)
        /\ \/ reason # "none" /\ FailActivation(k, reason)
           \/ reason = "none" /\ r.policy \in {"UntilExpiry", "AuctionCross"}
                /\ RestUntilMatched(k)
           \/ reason = "none" /\ r.policy = "Settlement" /\ SettleAtActivation(k, at)
           \/ reason = "none" /\ r.policy = "AtActivation" /\ SweepAtActivation(k, at)

-----------------------------------------------------------------------------
(* Resting orders.                                                         *)

RestsOnBook(k, i) ==
    /\ orders[k].status = "Active"
    /\ orders[k].req.instrument = i
    /\ orders[k].req.policy = "UntilExpiry"

\* evaluate_active collects the resting orders in acceptance order ...
BeginEvaluateActive(i, at) ==
    /\ \E k \in Positions : RestsOnBook(k, i)
    /\ evaluating' = [at |-> at, todo |-> {k \in Positions : RestsOnBook(k, i)}]

\* Seeded fault: any fill is reported as partial.
PassiveStatusNeverComplete(r, filled) ==
    IF filled > 0 THEN "PartiallyFilled" ELSE "MatchAttempted"

PassiveStatus(r, filled) ==
    IF filled = r.qty THEN "Filled"
    ELSE IF filled > 0 THEN "PartiallyFilled"
    ELSE "MatchAttempted"

CanMatchPassively(i, at) ==
    VisibleBook(i, at) /\ ~BookIsStale(i, at) /\ MatchingEnabled(i, at)

\* The calls of execute_passive_order that do not return an error: the prices
\* pass the policy and no fill is dated before the activation of its order
\* (the check of ExecutionFillFeedback::new).
PassiveAccepted(k, at) ==
    LET r     == orders[k].req
        state == books[r.instrument]
        taken == Sweep(state, r, r.qty - orders[k].filled)
    IN  CanMatchPassively(r.instrument, at) =>
            /\ SweepPricesAccepted(state, r, taken)
            /\ Swept(taken) > 0 => at >= r.activateAt

\* ... and execute_passive_order gives each of them its one attempt.
ExecutePassiveOrder(k, at) ==
    LET r     == orders[k].req
        i     == r.instrument
        state == books[i]
        taken == Sweep(state, r, r.qty - orders[k].filled)
        total == orders[k].filled + Swept(taken)
    IN  \/ ~CanMatchPassively(i, at) /\ UNCHANGED <<books, fills, orders>>
        \/ /\ CanMatchPassively(i, at)
           /\ PassiveAccepted(k, at)
           /\ Consume(i, r.side, taken)
           /\ fills' = fills \cup SweepFills(k, state, r, taken, at)
           /\ orders' = [orders EXCEPT ![k].filled = total,
                                       ![k].status = PassiveStatus(r, total)]

\* The order whose turn it is.
IsNextResting(k) == k \in evaluating.todo /\ \A j \in evaluating.todo : k <= j

EvaluateNext(k) ==
    /\ IsNextResting(k)
    /\ ExecutePassiveOrder(k, evaluating.at)
    /\ evaluating' = IF evaluating.todo = {k} THEN Idle
                     ELSE [evaluating EXCEPT !.todo = @ \ {k}]

\* An error ends the call; what it did for the earlier orders stays.
EvaluateAborts(k) ==
    /\ IsNextResting(k)
    /\ ~PassiveAccepted(k, evaluating.at)
    /\ evaluating' = Idle
    /\ UNCHANGED <<books, fills, orders>>

Interruptible(o, i) ==
    /\ o.req.instrument = i
    /\ o.req.kind = "Market"
    /\ o.status \in Live \ {"Scheduled"}

MarketOrdersCancelled(os, i) ==
    [k \in DOMAIN os |-> IF Interruptible(os[k], i)
                         THEN [os[k] EXCEPT !.status = "Cancelled"] ELSE os[k]]

CancelActiveMarketOrders(i) == orders' = MarketOrdersCancelled(orders, i)

AuctionCandidate(k, i, m) ==
    /\ orders[k].status = "Active"
    /\ orders[k].req.instrument = i
    /\ orders[k].req.policy = "AuctionCross"
    /\ orders[k].req.activateAt <= m

\* An order crosses only at a price strictly better than its limit.
AuctionCrosses(r, price) ==
    /\ r.kind = "Limit"
    /\ IF r.side = "Buy" THEN price < r.limit ELSE price > r.limit

EvaluateAuctionMatch(i, price, m) ==
    LET crossing == {k \in Positions : AuctionCandidate(k, i, m)
                                         /\ AuctionCrosses(orders[k].req, price)}
    IN  /\ Accepts(i, price)
        /\ orders' = [k \in Positions |->
               IF k \in crossing
               THEN [orders[k] EXCEPT !.status = "Filled", !.filled = orders[k].req.qty]
               ELSE IF AuctionCandidate(k, i, m)
               THEN [orders[k] EXCEPT !.status = "MatchAttempted"]
               ELSE orders[k]]
        /\ fills' = fills \cup
               { [order |-> k, level |-> 1, source |-> "auction", at |-> m, price |-> price,
                  qty |-> orders[k].req.qty, snapshot |-> 0] : k \in crossing }

-----------------------------------------------------------------------------
(* The simulator driven by any caller: every public operation, at any time *)
(* of Times, in any order the operations' own checks allow.  Of the caller *)
(* it assumes one thing, that resting orders are not evaluated at a time   *)
(* before they were activated; ScheduledRunner is a caller that breaks it. *)

Caller == evaluating.todo = {}

CallPublishTradingState ==
    \E i \in Instruments, m, v \in Times, c \in Conditions :
        /\ Caller
        /\ PublishTradingState(i, m, v, c)
        /\ UNCHANGED <<books, orders, clientOrders, fills, evaluating>>

CallPublishBook ==
    \E i \in Instruments, book \in Books, m, v \in Times,
       c \in Conditions :
        /\ Caller
        /\ books[i].snapshot < MaxSnapshots
        /\ PublishBook(i, book, m, v, c)
        /\ UNCHANGED <<orders, clientOrders, fills, evaluating>>

CallSubmit ==
    \E origin \in Origins, r \in Requests :
        /\ Caller
        /\ Len(orders) < MaxOrders
        /\ Submit(origin, r)
        /\ UNCHANGED <<books, tradingStates, fills, evaluating>>

CallCancel ==
    \E c \in Clients :
        /\ Caller
        /\ CancelBeforeActivation(c)
        /\ UNCHANGED <<books, tradingStates, clientOrders, fills, evaluating>>

CallExpire ==
    \E k \in Positions, at \in Times :
        /\ Caller
        /\ orders[k].id = k
        /\ Expire(k, at)
        /\ UNCHANGED <<books, tradingStates, clientOrders, fills, evaluating>>

CallActivate ==
    \E k \in Positions, at \in Times :
        /\ Caller
        /\ orders[k].id = k
        /\ Activate(k, at)
        /\ UNCHANGED <<tradingStates, clientOrders, evaluating>>

CallEvaluateActive ==
    \E i \in Instruments, at \in Times :
        /\ Caller
        /\ \A k \in Positions : RestsOnBook(k, i) => orders[k].req.activateAt <= at
        /\ BeginEvaluateActive(i, at)
        /\ UNCHANGED <<books, tradingStates, orders, clientOrders, fills>>

StepEvaluateActive ==
    \E k \in evaluating.todo :
        /\ EvaluateNext(k) \/ EvaluateAborts(k)
        /\ UNCHANGED <<tradingStates, clientOrders>>

CallCancelForInterruption ==
    \E i \in Instruments :
        /\ Caller
        /\ CancelActiveMarketOrders(i)
        /\ UNCHANGED <<books, tradingStates, clientOrders, fills, evaluating>>

CallEvaluateAuctionMatch ==
    \E i \in Instruments, price \in AuctionPrices, m \in Times :
        /\ Caller
        /\ EvaluateAuctionMatch(i, price, m)
        /\ UNCHANGED <<books, tradingStates, clientOrders, evaluating>>

SimNext ==
    \/ CallPublishTradingState
    \/ CallPublishBook
    \/ CallSubmit
    \/ CallCancel
    \/ CallExpire
    \/ CallActivate
    \/ CallEvaluateActive
    \/ StepEvaluateActive
    \/ CallCancelForInterruption
    \/ CallEvaluateAuctionMatch

SimSpec == SimInit /\ [][SimNext]_simVars

-----------------------------------------------------------------------------
(* Properties.                                                             *)

\* No level of the visible book is consumed beyond what it displays, whatever
\* orders share the snapshot: the sweep's checked_sub never fails and
\* ConsumedQuantityExceedsDisplayed is never returned (depth.rs).
ConsumedWithinDisplayed ==
    \A i \in Instruments : HasBook(i) =>
        \A side \in Sides, l \in 1..BookDepth :
            books[i].consumed[side][l] <=
                IF l <= Len(BookSide(books[i].book, side))
                THEN BookSide(books[i].book, side)[l].qty ELSE 0

\* What a set of fill records gives together.
TotalFilled(records) == MapThenSumSet(LAMBDA f : f.qty, records)

\* The records of fills that the visible snapshot of an instrument gave at a level.
SoldFrom(i, side, l) ==
    {f \in fills : /\ f.source = "depth"
                   /\ f.snapshot = books[i].snapshot
                   /\ f.level = l
                   /\ orders[f.order].req.instrument = i
                   /\ orders[f.order].req.side = side}

\* The fill records explain both sides of every trade: what an order says it
\* filled, and the consumption kept with a snapshot, which is exactly what the
\* fills recorded against that snapshot took over all orders (activation sweeps
\* and resting orders share one account; a new snapshot starts from zero).
DepthSoldOnce ==
    /\ \A k \in Positions : orders[k].filled = TotalFilled({f \in fills : f.order = k})
    /\ \A i \in Instruments : HasBook(i) =>
           \A side \in Sides, l \in 1..BookDepth :
               books[i].consumed[side][l] = TotalFilled(SoldFrom(i, side, l))

\* filled_value and the status of an order agree, and the "positive remaining
\* quantity" a failed activation and a partial fill rely on exists.
StatusMatchesFilled ==
    \A k \in Positions :
        LET o == orders[k] IN
        /\ o.filled <= o.req.qty
        /\ o.status = "Filled" <=> o.filled = o.req.qty
        /\ o.status = "PartiallyFilled" => o.filled > 0
        /\ o.status \in {"Scheduled", "Active", "MatchAttempted", "Replaced"} => o.filled = 0

\* A client order id names at most one order that can still trade: accepting
\* a replacement ends the order it replaces (submit, client_orders).
OneLiveOrderPerClient ==
    \A j, k \in Positions :
        j < k /\ orders[j].req.client = orders[k].req.client
            => orders[j].status \notin Live

\* Orders with one activation time activate in acceptance order, across
\* instruments: while the earlier one waits, the later one cannot have been
\* activated (ActivationOutOfOrder).
ActivationFollowsAcceptance ==
    \A j, k \in Positions :
        /\ j < k
        /\ orders[j].req.activateAt = orders[k].req.activateAt
        /\ orders[j].status = "Scheduled"
        => orders[k].status \in {"Scheduled", "Expired", "Replaced", "Cancelled"}

Successors(status) ==
    CASE status = "Scheduled" -> Statuses
      [] status = "Active"    -> Statuses \ {"Scheduled", "Failed", "Replaced"}
      [] status \in {"PartiallyFilled", "MatchAttempted"} ->
            {status, "Expired", "Cancelled"}
      [] OTHER -> {status}

NothingTakenBack ==
    /\ Len(orders') >= Len(orders)
    /\ fills \subseteq fills'
    /\ \A k \in Positions :
         /\ orders'[k].status \in Successors(orders[k].status)
         /\ orders'[k].req = orders[k].req
         /\ orders[k].status \notin {"Scheduled", "Active"}
              => orders'[k].filled = orders[k].filled

\* A terminal order never changes, an attempted resting order is never matched
\* a second time, and no step takes an order or part of its fill away.
OrdersOnlyAdvance == [][NothingTakenBack]_simVars

=============================================================================
