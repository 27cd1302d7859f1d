--------------------------- MODULE SubsequentRun ----------------------------
(***************************************************************************)
(* The subsequent-event backtest, run_multi_backtest and                   *)
(* process_multi_event of crates/osmium-runner/src/lib.rs: the replay core *)
(* commits an event, the strategy is called, its intents go to the         *)
(* simulators, the event is matched, fills are settled and the strategy is *)
(* told.  At the end every live order is cancelled.                        *)
(*                                                                         *)
(* The strategy is any: each callback returns one of Outputs or fails.     *)
(* The core is MarketReducer's Propose; that the events come in replay     *)
(* order is the subject of Replay.  The ledger may refuse any fill; what   *)
(* it makes of the fills it takes is the subject of Ledger.                *)
(***************************************************************************)
EXTENDS SubsequentSim

CONSTANTS
    Setups,    \* [tape, schedule, models, universe, sessions, midpoint]
    Outputs,   \* sequences of intents a callback may return
    MaxOrders  \* bound on the orders of a run

VARIABLES
    setup,     \* what run_multi_backtest was called with
    pc,        \* where the coordinator is
    error,     \* the MultiBacktestError of a failed run
    ordinal,   \* run_event_ordinal of the last commit
    states,    \* instrument -> market state
    current,   \* current_segments
    contexts,  \* last_contexts
    trading,   \* the trading context of the event at hand
    sims,      \* MultiSimulator
    ledger,    \* instrument -> fills applied to MultiLedger, in order
    pending,   \* feedback to be given to the strategy
    told,      \* feedback given so far
    closing,   \* instruments still to close
    marks      \* instrument -> final mark, a sequence of at most one

\* The events and intents that the types of the code allow.  Instruments are
\* numbered in the order of their identities, that of the maps.
HasQuantities(levels) ==
    levels \in Seq(Range(levels)) /\ \A n \in DOMAIN levels : levels[n].quantity \in Nat

ASSUME InputsAssumption ==
    /\ MaxOrders \in Nat
    /\ \A s \in Setups :
          /\ DOMAIN s.models \subseteq Nat /\ s.tape \in Seq(Range(s.tape))
          /\ \A n \in DOMAIN s.tape :
                /\ s.tape[n].instrument \in DOMAIN s.models
                /\ HasQuantities(s.tape[n].asks) /\ HasQuantities(s.tape[n].bids)
                /\ HasQuantities(s.tape[n].prints)
    /\ \A intents \in Outputs :
          /\ HasQuantities(intents)
          /\ \A n \in DOMAIN intents : intents[n].side \in {"Buy", "Sell"}

vars == <<setup, pc, error, ordinal, states, current, contexts, trading, sims, ledger,
          pending, told, closing, marks>>

Universe == DOMAIN setup.models
Tape     == setup.tape
Event    == Tape[ordinal]

NoTrading == [entry |-> "Unknown"]

\* BTreeMap::insert
Insert(map, key, value) ==
    [k \in DOMAIN map \cup {key} |-> IF k = key THEN value ELSE map[k]]

-----------------------------------------------------------------------------
(* The session schedule.                                                   *)

\* MultiSessionSchedule::new, on segments sorted by opening time
ScheduleOK(schedule) ==
    /\ DOMAIN schedule # {}
    /\ \A i \in DOMAIN schedule :
          /\ schedule[i] # <<>>
          /\ \A n \in DOMAIN schedule[i] : SegmentOK(schedule[i][n])
          /\ \A n \in 1..(Len(schedule[i]) - 1) : schedule[i][n].close < schedule[i][n + 1].open

\* segment_for: the first segment whose window holds the time, if any
SegmentsFor(segments, t) == SelectSeq(segments, LAMBDA g : Inside(g, t))

SessionKinds == {g.kind : g \in UNION {Range(setup.schedule[i]) : i \in DOMAIN setup.schedule}}

-----------------------------------------------------------------------------
Init ==
    /\ setup \in {s \in Setups : ScheduleOK(s.schedule)}
    /\ pc = "start" /\ error = NoError /\ ordinal = 0
    /\ states = [i \in DOMAIN setup.models |-> NewState(i, setup.schedule[i][1].date)]
    /\ current = <<>> /\ contexts = <<>> /\ trading = NoTrading
    /\ sims = [i \in DOMAIN setup.models |-> Empty]
    /\ ledger = [i \in DOMAIN setup.models |-> <<>>]
    /\ pending = <<>> /\ told = <<>> /\ closing = {} /\ marks = <<>>

Fail(e) == pc' = "failed" /\ error' = e

\* Every part must be built for the instruments of the core and the strategy
\* must declare the sessions of the schedule.
Start ==
    /\ pc = "start"
    /\ IF setup.universe # Universe \/ DOMAIN setup.schedule # Universe
          \/ setup.sessions # SessionKinds
       THEN Fail("Schedule")
       ELSE pc' = "next" /\ UNCHANGED error
    /\ UNCHANGED <<setup, ordinal, states, current, contexts, trading, sims, ledger, pending,
                   told, closing, marks>>

\* The reducer context that replay_core derives from the same segment.
ReducerContext(g) ==
    [date |-> g.date, segment |-> g.id, policy |-> "Reset", version |-> PolicyVersion]

\* The state of the event's trading date.
StateFor(e) ==
    IF states[e.instrument].date = e.date THEN states[e.instrument]
    ELSE NewState(e.instrument, e.date)

\* Seeded fault: a change of segment cancels nothing.
SegmentNeverEnds(i, g) == {}

\* The segment that ends when the instrument moves to segment g: what
\* current_segments.insert returns, if it differs.
EndedSegment(i, g) == {current[j] : j \in {i} \cap DOMAIN current} \ {g.id}

\* The core commits the event; a change of segment cancels the orders of the
\* segment before it, of this instrument.
BeginEvent ==
    /\ pc = "next" /\ ordinal < Len(Tape)
    /\ LET e == Tape[ordinal + 1]
           segments == SegmentsFor(setup.schedule[e.instrument], e.time)
           g == segments[1]
           p == Propose(StateFor(e), e, ReducerContext(g))
           context == Evaluate(e, p.next.version, p.next, g)
           ended == EndedSegment(e.instrument, g)
           step == CancelSegmentEnd(sims[e.instrument], CHOOSE s \in ended : TRUE)
       IN  IF segments = <<>> \/ (segments # <<>> /\ p.error # NoError)
           THEN /\ Fail("Replay")
                /\ UNCHANGED <<ordinal, states, current, trading, sims, pending>>
           ELSE /\ ordinal' = ordinal + 1
                /\ states' = [states EXCEPT ![e.instrument] = p.next]
                /\ IF context.error # NoError
                   THEN Fail("Context") /\ UNCHANGED <<current, trading, sims, pending>>
                   ELSE /\ current' = Insert(current, e.instrument, g.id)
                        /\ trading' = context
                        /\ sims' = IF ended = {} THEN sims
                                   ELSE [sims EXCEPT ![e.instrument] = step.sim]
                        /\ pending' = IF ended = {} THEN <<>> ELSE step.feedback
                        /\ pc' = IF pending' = <<>> THEN "event" ELSE "boundary"
                        /\ UNCHANGED error
    /\ UNCHANGED <<setup, contexts, ledger, told, closing, marks>>

-----------------------------------------------------------------------------
(* Strategy callbacks.                                                     *)

OrderCount(ss) == FoldLeft(LAMBDA n, i : n + Len(ss[i].orders), 0, SetToSeq(DOMAIN ss))

\* MultiSimulator::submit: an intent for an instrument without a simulator is
\* rejected.
SubmitNext(acc, n, intent) ==
    LET i == intent.instrument
        step == Submit(acc.sims[i], setup.models[i], ordinal, Event.time, trading, n, intent)
    IN  IF i \notin DOMAIN acc.sims
        THEN [acc EXCEPT !.feedback = Append(@, Feedback("Rejected", <<>>, 0))]
        ELSE [sims |-> [acc.sims EXCEPT ![i] = step.sim],
              feedback |-> Append(acc.feedback, step.feedback)]

\* Submit a callback's intents in order, from output sequence 1.
SubmitAll(intents) ==
    LET after[n \in 0..Len(intents)] ==
          IF n = 0 THEN [sims |-> sims, feedback |-> <<>>]
          ELSE SubmitNext(after[n - 1], n, intents[n])
    IN  after[Len(intents)]

\* Seeded fault: a cancellation at the boundary is not passed on.
BoundaryFeedbackDropped(intents) ==
    /\ pc = "boundary"
    /\ pc' = "event" /\ pending' = <<>> /\ intents = <<>>
    /\ UNCHANGED <<setup, error, ordinal, states, current, contexts, trading, sims, ledger,
                   told, closing, marks>>

\* on_feedback for the cancellations of the boundary, before on_event.  What
\* becomes of the intents it returns is not reported.
BoundaryFeedback(intents) ==
    /\ pc = "boundary"
    /\ told' = told \o pending
    /\ sims' = SubmitAll(intents).sims
    /\ OrderCount(sims') <= MaxOrders
    /\ pc' = "event" /\ pending' = <<>>
    /\ UNCHANGED <<setup, error, ordinal, states, current, contexts, trading, ledger, closing,
                   marks>>

\* The event has been processed.
Remember == contexts' = Insert(contexts, Event.instrument, ordinal)

\* Seeded fault: fills are settled from the beginning at each event.
OnEventResettling(intents, refusedAt) ==
    /\ pc = "event"
    /\ LET submitted == SubmitAll(intents)
           i == Event.instrument
           step == EvaluateEvent(submitted.sims[i], setup.models[i], Event, ordinal, trading)
       IN  /\ OrderCount(submitted.sims) <= MaxOrders
           /\ step.error = NoError /\ refusedAt = 0
           /\ sims' = [submitted.sims EXCEPT ![i] = step.sim]
           /\ pending' = submitted.feedback \o step.feedback
           /\ ledger' = [ledger EXCEPT ![i] = @ \o step.sim.fills]
           /\ pc' = IF pending' = <<>> THEN "next" ELSE "feedback"
           /\ IF pending' = <<>> THEN Remember ELSE UNCHANGED contexts
           /\ UNCHANGED error
    /\ UNCHANGED <<setup, ordinal, states, current, trading, told, closing, marks>>

\* on_event, then the intents, the match and the ledger.  The ledger refuses
\* the fill number refusedAt of this event, or none when it is 0.
OnEvent(intents, refusedAt) ==
    /\ pc = "event"
    /\ LET submitted == SubmitAll(intents)
           i == Event.instrument
           step == EvaluateEvent(submitted.sims[i], setup.models[i], Event, ordinal, trading)
           fresh == SubSeq(step.sim.fills, Len(sims[i].fills) + 1, Len(step.sim.fills))
       IN  /\ OrderCount(submitted.sims) <= MaxOrders
           /\ refusedAt <= Len(fresh)
           /\ sims' = [submitted.sims EXCEPT ![i] = step.sim]
           /\ IF step.error # NoError
              THEN /\ refusedAt = 0 /\ Fail("Simulation")
                   /\ UNCHANGED <<ledger, pending, contexts>>
              ELSE IF refusedAt > 0
              THEN /\ Fail("Accounting")
                   /\ ledger' = [ledger EXCEPT ![i] = @ \o SubSeq(fresh, 1, refusedAt - 1)]
                   /\ UNCHANGED <<pending, contexts>>
              ELSE /\ ledger' = [ledger EXCEPT ![i] = @ \o fresh]
                   /\ pending' = submitted.feedback \o step.feedback
                   /\ pc' = IF pending' = <<>> THEN "next" ELSE "feedback"
                   /\ IF pending' = <<>> THEN Remember ELSE UNCHANGED contexts
                   /\ UNCHANGED error
    /\ UNCHANGED <<setup, ordinal, states, current, trading, told, closing, marks>>

\* process_multi_feedback: the new intents belong to the same occurrence.
OnFeedback(intents) ==
    /\ pc = "feedback"
    /\ told' = told \o pending
    /\ sims' = SubmitAll(intents).sims
    /\ OrderCount(sims') <= MaxOrders
    /\ pending' = <<>> /\ pc' = "next"
    /\ Remember
    /\ UNCHANGED <<setup, error, ordinal, states, current, trading, ledger, closing, marks>>

StrategyFails ==
    /\ pc \in {"start", "boundary", "event", "feedback", "tellClose", "tellEnd", "finalize"}
    /\ pc = "start" => setup.universe = Universe
    /\ Fail("Strategy")
    /\ UNCHANGED <<setup, ordinal, states, current, contexts, trading, sims, ledger, pending,
                   told, closing, marks>>

-----------------------------------------------------------------------------
(* The end of the run.                                                     *)

First(S) == CHOOSE i \in S : \A j \in S : i <= j

EndOfTape ==
    /\ pc = "next" /\ ordinal = Len(Tape)
    /\ pc' = "close" /\ closing' = DOMAIN current
    /\ UNCHANGED <<setup, error, ordinal, states, current, contexts, trading, sims, ledger,
                   pending, told, marks>>

\* One instrument of either closing loop: cancel, and if something was
\* cancelled tell the strategy with the last context of the instrument.
CloseWith(i, step, tell, after) ==
    /\ sims' = [sims EXCEPT ![i] = step.sim]
    /\ IF step.feedback = <<>>
       THEN /\ closing' = closing \ {i} /\ pc' = after
            /\ UNCHANGED <<pending, error>>
       ELSE IF i \notin DOMAIN contexts
       THEN Fail("Sequence") /\ UNCHANGED <<closing, pending>>
       ELSE /\ pending' = step.feedback /\ pc' = tell
            /\ UNCHANGED <<closing, error>>
    /\ UNCHANGED <<setup, ordinal, states, current, contexts, trading, ledger, told, marks>>

\* The open segment of each instrument ends.
CloseSegment ==
    /\ pc = "close" /\ closing # {}
    /\ LET i == First(closing)
       IN  CloseWith(i, CancelSegmentEnd(sims[i], current[i]), "tellClose", "close")

SegmentsClosed ==
    /\ pc = "close" /\ closing = {}
    /\ closing' = Universe /\ pc' = "end"
    /\ UNCHANGED <<setup, error, ordinal, states, current, contexts, trading, sims, ledger,
                   pending, told, marks>>

\* Then the run: orders of another segment than the instrument's last one.
CloseRun ==
    /\ pc = "end" /\ closing # {}
    /\ LET i == First(closing)
       IN  CloseWith(i, CancelEndOfRun(sims[i]), "tellEnd", "end")

\* The strategy may no longer trade.
TellClosing(intents) ==
    /\ pc \in {"tellClose", "tellEnd"}
    /\ told' = told \o pending /\ pending' = <<>>
    /\ IF intents # <<>> THEN Fail("IntentAfterEnd") /\ UNCHANGED closing
       ELSE /\ closing' = closing \ {First(closing)}
            /\ pc' = IF pc = "tellClose" THEN "close" ELSE "end"
            /\ UNCHANGED error
    /\ UNCHANGED <<setup, ordinal, states, current, contexts, trading, sims, ledger, marks>>

\* last_trade of a state: the last print of a batch in source order, which is
\* the only order the normalizers give.
LastTrade(s) ==
    IF IsKnown(s.trade) THEN <<s.trade.at.prints[Len(s.trade.at.prints)].price>> ELSE <<>>

\* final_mark: the last trade, or the midpoint when it is allowed and exact.
FinalMark(s) ==
    LET quote == s.book.at
        mid == quote.bids[1].price + quote.asks[1].price
    IN  IF LastTrade(s) # <<>> THEN LastTrade(s)
        ELSE IF /\ setup.midpoint /\ IsKnown(s.book)
                /\ IsKnown(s.book) => quote.bids # <<>> /\ quote.asks # <<>> /\ mid % 2 = 0
        THEN <<mid \div 2>> ELSE <<>>

TakeMarks ==
    /\ pc = "end" /\ closing = {}
    /\ marks' = [i \in Universe |-> FinalMark(states[i])]
    /\ pc' = "finalize"
    /\ UNCHANGED <<setup, error, ordinal, states, current, contexts, trading, sims, ledger,
                   pending, told, closing>>

Signed(f) == IF f.side = "Buy" THEN f.quantity ELSE -f.quantity
Position(i) == Total([n \in DOMAIN ledger[i] |-> Signed(ledger[i][n])])

\* finalize, reconcile and performance: an open position needs a mark.
Finish ==
    /\ pc = "finalize"
    /\ IF \E i \in Universe : Position(i) # 0 /\ marks[i] = <<>>
       THEN Fail("Accounting") ELSE pc' = "done" /\ UNCHANGED error
    /\ UNCHANGED <<setup, ordinal, states, current, contexts, trading, sims, ledger, pending,
                   told, closing, marks>>

Next ==
    \/ Start \/ BeginEvent \/ StrategyFails
    \/ \E intents \in Outputs : \/ BoundaryFeedback(intents) \/ OnFeedback(intents)
                                \/ TellClosing(intents)
    \/ \E intents \in Outputs, refusedAt \in 0..MaxOrders : OnEvent(intents, refusedAt)
    \/ EndOfTape \/ CloseSegment \/ SegmentsClosed \/ CloseRun \/ TakeMarks \/ Finish

Spec == Init /\ [][Next]_vars

-----------------------------------------------------------------------------
(* Properties.                                                             *)

AllOrders == UNION {Range(sims[i].orders) : i \in Universe}

\* No look-ahead: a fill comes from a later event of its own instrument, at
\* least the latency after the order's event, within a segment and never in
\* its cool-down, at that event's evidence moved against the order, and within
\* the order's limit.
FillsAreCausal ==
    \A i \in Universe : \A f \in Range(sims[i].fills) :
        \E o \in Range(sims[i].orders) :
            LET m == setup.models[i]
                e == Tape[f.ordinal]
            IN  /\ o.id = f.order /\ o.intent.instrument = i /\ e.instrument = i
                /\ f.ordinal > o.origin
                /\ f.time = e.time /\ e.time >= Tape[o.origin].time + m.latency
                /\ SessionPhase(SegmentsFor(setup.schedule[i], e.time)[1], e.time) # "CoolDown"
                /\ \E l \in Range(Evidence(e, m, f.side)) : f.price = Slipped(l.price, f.side, m)
                /\ LimitTouched(o.intent, f.price)

\* What the event number k gave to a side.
Taken(fills, k, side) ==
    Total([n \in DOMAIN fills |->
             IF fills[n].ordinal = k /\ fills[n].side = side THEN fills[n].quantity ELSE 0])

\* Displayed evidence is sold once: the fills that one event gives to one side
\* together take no more than it showed, whichever orders got them.
EvidenceSoldOnce ==
    \A i \in Universe : \A f \in Range(sims[i].fills) :
        setup.models[i].quantity = "Displayed" =>
            Taken(sims[i].fills, f.ordinal, f.side)
                <= Evidence(Tape[f.ordinal], setup.models[i], f.side)[1].quantity

\* Every fill of a simulator reaches the ledger once and in order, and the
\* filled quantity of the orders is what was settled; only a run that failed
\* stops short of it.
FillsSettledOnce ==
    \A i \in Universe :
        /\ IsPrefix(ledger[i], sims[i].fills)
        /\ pc # "failed" => ledger[i] = sims[i].fills
        /\ Total([n \in DOMAIN sims[i].orders |-> sims[i].orders[n].filled])
             = Total([n \in DOMAIN sims[i].fills |-> sims[i].fills[n].quantity])

\* What feedback says of an identity, and what the orders of that identity say.
QuantityTold(news, id) ==
    Total([n \in DOMAIN news |->
             IF news[n].type \in {"Filled", "PartiallyFilled"} /\ news[n].order = id
             THEN news[n].quantity ELSE 0])
QuantityFilled(orders, id) ==
    Total([n \in DOMAIN orders |-> IF orders[n].id = id THEN orders[n].filled ELSE 0])
TimesTold(news, type, id) ==
    Total([n \in DOMAIN news |-> IF news[n].type = type /\ news[n].order = id THEN 1 ELSE 0])
TimesEnded(orders, status, id) ==
    Total([n \in DOMAIN orders |->
             IF orders[n].status = status /\ orders[n].id = id THEN 1 ELSE 0])

\* The strategy hears of every fill and of every cancellation exactly once:
\* between callbacks and at the end the feedback given adds up to the orders.
EveryTransitionIsTold ==
    pc \in {"next", "close", "end", "finalize", "done"} =>
        \A i \in Universe : \A o \in Range(sims[i].orders) :
            /\ QuantityTold(told, o.id) = QuantityFilled(sims[i].orders, o.id)
            /\ \A type \in {"Filled", "Cancelled"} :
                  TimesTold(told, type, o.id) = TimesEnded(sims[i].orders, type, o.id)

\* After an event of an instrument has been processed, no live order that was
\* placed from an event of the same instrument belongs to another segment than
\* that event's, and a run that completed left nothing live.
OrdersEndWithTheirSegment ==
    /\ \A o \in AllOrders :
          LET i == o.intent.instrument
          IN  (Live(o) /\ Tape[o.origin].instrument = i) => o.segment = current[i]
    /\ pc = "done" => \A o \in AllOrders : ~Live(o)

\* An order is good for its day: once the instrument trades on a later date,
\* no order of an earlier date is live.
DayOrdersEndWithTheirDate ==
    \A o \in AllOrders :
        LET i == o.intent.instrument
        IN  (Live(o) /\ Tape[o.origin].instrument = i)
                => Tape[o.origin].date = states[i].date
=============================================================================
