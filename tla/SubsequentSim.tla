--------------------------- MODULE SubsequentSim ----------------------------
(***************************************************************************)
(* The subsequent-event simulator of one instrument, Simulator in          *)
(* crates/execution-sim/src/lib.rs: an accepted order can only be filled   *)
(* by a later event of its instrument.  Operators only; SubsequentRun is   *)
(* the coordinator that calls them.                                        *)
(*                                                                         *)
(* A simulator is [orders, fills], both in acceptance order.  A model m is *)
(* [unit, signed, evidence, quantity, delta, latency]: `signed` allows     *)
(* prices that are not positive, latency is the sum of both latencies.     *)
(* Events carry the levels `asks` and `bids`, best first, and `prints`.    *)
(* The 32 bytes of an order identity are the fields they hash.             *)
(***************************************************************************)
EXTENDS TradingContext, Totals, SequencesExt

Empty == [orders |-> <<>>, fills |-> <<>>]

Live(o) == o.status \in {"Pending", "PartiallyFilled"}
Remaining(o) == o.intent.quantity - o.filled

\* PricePolicy::accepts
PriceAccepted(m, price) == m.signed \/ price > 0

\* entry_allowed
EntryAllowed(entry, type) == entry = "Allowed" \/ (Restricted(entry) /\ type = "Limit")

\* limit_touched
LimitTouched(intent, price) ==
    \/ intent.type = "Market"
    \/ intent.side = "Buy" /\ price <= intent.limit
    \/ intent.side = "Sell" /\ price >= intent.limit

\* Simulator::submit, what it refuses
RejectionReason(m, trading, intent) ==
    IF intent.unit # m.unit THEN "QuantityUnitMismatch"
    ELSE IF intent.type = "Limit" /\ ~PriceAccepted(m, intent.limit)
         THEN "PriceNotAllowedByInstrumentProfile"
    ELSE IF ~EntryAllowed(trading.entry, intent.type) THEN "NewOrderEntryBlocked"
    ELSE NoError

\* add_latency
EligibleTime(m, time) == time + m.latency

Feedback(type, id, quantity) == [type |-> type, order |-> id, quantity |-> quantity]

Submit(s, m, ordinal, time, trading, sequence, intent) ==
    LET id == <<ordinal, sequence, intent>>
    IN  IF RejectionReason(m, trading, intent) # NoError
        THEN [sim |-> s, feedback |-> Feedback("Rejected", <<>>, 0)]
        ELSE [sim |-> [s EXCEPT !.orders = Append(@,
                [id |-> id, intent |-> intent, origin |-> ordinal,
                 eligible |-> EligibleTime(m, time), segment |-> trading.segment,
                 filled |-> 0, status |-> "Pending"])],
              feedback |-> Feedback("Accepted", id, 0)]

-----------------------------------------------------------------------------
(* Matching an event.                                                      *)

\* evidence: the best opposite level or the first print, if the payload has one.
Evidence(e, m, side) ==
    LET levels ==
          IF m.evidence = "TopOfBook"
          THEN IF e.kind \notin {"Quote", "Book"} THEN <<>>
               ELSE IF side = "Buy" THEN e.asks ELSE e.bids
          ELSE IF e.kind = "Trades" \/ (e.kind = "Quote" /\ e.trade = "set")
          THEN e.prints ELSE <<>>
    IN  IF levels = <<>> THEN <<>>
        ELSE IF PriceAccepted(m, levels[1].price) THEN <<levels[1]>> ELSE <<>>

\* apply_slippage, before the price policy
Slipped(price, side, m) == IF side = "Buy" THEN price + m.delta ELSE price - m.delta

\* Seeded fault: the origin event may fill the order.
EligibleAtOrigin(o, e, ordinal) ==
    /\ Live(o) /\ ordinal >= o.origin /\ e.time >= o.eligible
    /\ e.instrument = o.intent.instrument

\* order_is_eligible and the status and instrument tests before it
Eligible(o, e, ordinal) ==
    /\ Live(o) /\ ordinal > o.origin /\ e.time >= o.eligible
    /\ e.instrument = o.intent.instrument

\* Seeded fault: displayed evidence is not used up.
LeftAfterNothing(m, available, quantity) == available

\* What is left of the evidence after a fill.
LeftAfter(m, available, quantity) ==
    IF m.quantity = "Unlimited" THEN available
    ELSE IF available[1].quantity = quantity THEN <<>>
    ELSE <<[price |-> available[1].price, quantity |-> available[1].quantity - quantity,
            unit |-> available[1].unit]>>

\* One order of the loop in evaluate.
MatchOrder(acc, n, e, ordinal, m) ==
    LET o == acc.orders[n]
        available == acc.left[o.intent.side]
        price == Slipped(available[1].price, o.intent.side, m)
        quantity == IF m.quantity = "Unlimited" \/ Remaining(o) <= available[1].quantity
                    THEN Remaining(o) ELSE available[1].quantity
        status == IF quantity = Remaining(o) THEN "Filled" ELSE "PartiallyFilled"
    IN  IF \/ acc.error # NoError \/ ~Eligible(o, e, ordinal) \/ available = <<>>
           \/ available # <<>> /\ ( \/ available[1].unit # o.intent.unit
                                    \/ ~LimitTouched(o.intent, available[1].price) )
        THEN acc
        ELSE IF m.delta < 0 \/ ~PriceAccepted(m, price)
        THEN [acc EXCEPT !.error = "InvalidSlippage"]
        ELSE IF ~LimitTouched(o.intent, price) THEN acc
        ELSE [orders |-> [acc.orders EXCEPT ![n] =
                            [o EXCEPT !.filled = @ + quantity, !.status = status]],
              fills |-> Append(acc.fills,
                          [order |-> o.id, ordinal |-> ordinal, time |-> e.time,
                           side |-> o.intent.side, price |-> price, quantity |-> quantity]),
              feedback |-> Append(acc.feedback, Feedback(status, o.id, quantity)),
              error |-> NoError,
              left |-> [acc.left EXCEPT ![o.intent.side] = LeftAfter(m, available, quantity)]]

\* The live ones of the orders at `ending` are cancelled and reported, in order.
Cancel(s, ending) ==
    LET ended == {n \in ending : Live(s.orders[n])}
        reported[n \in 0..Len(s.orders)] ==
          IF n = 0 THEN <<>>
          ELSE IF n \notin ended THEN reported[n - 1]
          ELSE Append(reported[n - 1], Feedback("Cancelled", s.orders[n].id, 0))
    IN  [error |-> NoError,
         sim |-> [s EXCEPT !.orders = [n \in DOMAIN s.orders |->
                    IF n \in ended THEN [s.orders[n] EXCEPT !.status = "Cancelled"]
                    ELSE s.orders[n]]],
         feedback |-> reported[Len(s.orders)]]

\* cancel_pending_market_orders, cancel_segment_end, cancel_end_of_run
CancelMarketOrders(s, i) ==
    Cancel(s, {n \in DOMAIN s.orders : /\ s.orders[n].intent.instrument = i
                                       /\ s.orders[n].intent.type = "Market"})
CancelSegmentEnd(s, segment) == Cancel(s, {n \in DOMAIN s.orders : s.orders[n].segment = segment})
CancelEndOfRun(s) == Cancel(s, DOMAIN s.orders)

\* evaluate asks first whether a volatility interruption collects orders.
Interrupts(trading) ==
    /\ trading.signal.observation = "set"
    /\ trading.signal.signal.type = "Collecting"
    /\ trading.signal.signal.observation.purpose = "Volatility"

\* Simulator::evaluate: an error leaves the fills made before it.
EvaluateEvent(s, m, e, ordinal, trading) ==
    IF Interrupts(trading) THEN CancelMarketOrders(s, e.instrument)
    ELSE IF \/ trading.matching \notin {"Continuous", "CallAuction"}
            \/ Blocked(trading.entry) \/ trading.entry = "Unknown"
    THEN [error |-> NoError, sim |-> s, feedback |-> <<>>]
    ELSE LET start == [orders |-> s.orders, fills |-> s.fills, feedback |-> <<>>, error |-> NoError,
                       left |-> [side \in {"Buy", "Sell"} |-> Evidence(e, m, side)]]
             matched[n \in 0..Len(s.orders)] ==
               IF n = 0 THEN start ELSE MatchOrder(matched[n - 1], n, e, ordinal, m)
             end == matched[Len(s.orders)]
         IN  [error |-> end.error, feedback |-> end.feedback,
              sim |-> [orders |-> end.orders, fills |-> end.fills]]
=============================================================================
