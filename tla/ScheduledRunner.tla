--------------------------- MODULE ScheduledRunner ---------------------------
(***************************************************************************)
(* run_scheduled_multi_backtest and its ScheduledCoordinator               *)
(* (crates/osmium-runner/src/scheduled.rs) with the control-time queue     *)
(* (control.rs), driving the simulator of ScheduledDepth.                  *)
(*                                                                         *)
(* One thread takes the merged market events in replay order.  Before an   *)
(* event is committed the controls due before its match time are           *)
(* processed, after it the ones due at its match time; when the data ends  *)
(* the queue is drained.  A committed event becomes visible to the         *)
(* strategy market-data latency later, through a Release control.  The     *)
(* queue hands out whole batches: a control scheduled while a batch is     *)
(* processed waits for the next batch, whatever its time.                  *)
(*                                                                         *)
(* The strategy is any strategy that asks for at most one timer and one    *)
(* order per callback.  Any error ends the run: `failed` names the call    *)
(* that returned it.  The caller gets no simulator, ledger or output from  *)
(* a failed run, so a failing step leaves the other variables alone.       *)
(*                                                                         *)
(* Abstractions.  An event is what the coordinator reads of it: its        *)
(* instrument and match time, the known book of a book or quote snapshot,  *)
(* the trading context evaluated for it, whether it collects a volatility  *)
(* interruption auction, a call-auction clearing price, and whether its    *)
(* instrument has a mark once it is visible.  Equal events have equal      *)
(* fingerprints.  The origin of a feedback or timer callback is the        *)
(* sequence of its control.  Cash charges and output records are left out. *)
(***************************************************************************)
EXTENDS ScheduledDepth

CONSTANTS
    Events,           \* the market events that can occur
    Timers,           \* timer ids
    TimerRequests,    \* the timer requests strategies can make
    Latency,          \* market_data_latency_ms
    MaxEvents,        \* bound on the events of the input
    MaxControls,      \* bound on the controls after which strategies keep silent
    Duplicates        \* whether the input can hold byte-identical events

\* An optional value is a sequence of at most one element.
Option(S) == {<<>>} \cup {<<x>> : x \in S}

Event == [instrument : Instruments, at : Nat, book : Option(Books),
          condition : Condition, interrupts : BOOLEAN,
          clearing : Seq(Int), mark : BOOLEAN]

ASSUME RunnerAssumption ==
    /\ Latency \in Nat /\ MaxEvents \in Nat /\ MaxControls \in Nat
    /\ Duplicates \in BOOLEAN
    /\ TimerRequests \subseteq [timer : Timers, fireAt : Nat]
    /\ Events \subseteq Event
    /\ \A e \in Events : Len(e.clearing) <= 1

\* ControlPhase, in its declared order (Accounting is never scheduled).
Release == 1
Decision == 2
Expiry == 3
Activation == 4
Allocation == 5
Feedback == 7

Kinds == {"Release", "Timer", "Expire", "Activate", "AllocateDepth",
          "AllocateAuction", "Feedback"}

VARIABLES
    committed,   \* events committed by the replay core, in order
    visible,     \* how many events the visible core has applied
    queue,       \* pending controls
    nextSeq,     \* next control sequence
    batch,       \* controls popped and not yet processed
    mode,        \* where the main loop is
    incoming,    \* the event the main loop is working on
    timers,      \* timer_generations
    position,    \* ledger position per instrument
    marks,       \* instruments with a visible mark
    told,        \* <<order, status>> pairs delivered to the strategy
    fired,       \* sequences of the timer controls that called the strategy
    decidedAt,   \* decision time of the last strategy callback
    failed       \* the call that ended the run with an error, or "none"

runVars == <<committed, visible, queue, nextSeq, batch, mode, incoming, timers,
             position, marks, told, fired, decidedAt, failed>>
vars == <<simVars, runVars>>

Init ==
    /\ SimInit
    /\ committed = <<>> /\ visible = 0
    /\ queue = {} /\ nextSeq = 1 /\ batch = {}
    /\ mode = "idle" /\ incoming = <<>>
    /\ timers = [t \in Timers |-> 0]
    /\ position = [i \in Instruments |-> 0]
    /\ marks = {} /\ told = {} /\ fired = {}
    /\ decidedAt = 0
    /\ failed = "none"

-----------------------------------------------------------------------------
(* The control queue.                                                      *)

Control(at, phase, kind, ref, news) ==
    [at |-> at, phase |-> phase, seq |-> 0, kind |-> kind, ref |-> ref, news |-> news]

\* Seeded fault: controls of one time and phase are taken last in, first out.
KeyBeforeLastIn(c, d) ==
    \/ c.at < d.at
    \/ c.at = d.at /\ c.phase < d.phase
    \/ c.at = d.at /\ c.phase = d.phase /\ c.seq > d.seq

KeyBefore(c, d) ==
    \/ c.at < d.at
    \/ c.at = d.at /\ c.phase < d.phase
    \/ c.at = d.at /\ c.phase = d.phase /\ c.seq < d.seq

\* schedule() for each control of a sequence, in order.
Sequenced(controls) ==
    {[controls[j] EXCEPT !.seq = nextSeq + j - 1] : j \in DOMAIN controls}

Schedule(controls) ==
    /\ queue' = queue \cup Sequenced(controls)
    /\ nextSeq' = nextSeq + Len(controls)

DueBefore(t) == {c \in queue : c.at < t}
\* Seeded fault: the controls at a time are popped as those before it.
DueAtExclusive(t) == {c \in queue : c.at < t}

DueAt(t)     == {c \in queue : c.at = t}

IsNextTime(t) == (\E c \in queue : c.at = t) /\ (\A c \in queue : t <= c.at)

Pop(controls) == batch' = controls /\ queue' = queue \ controls

Current == CHOOSE c \in batch : \A d \in batch : c = d \/ KeyBefore(c, d)

FeedbackControl(at, news) == Control(at, Feedback, "Feedback", 0, news)

\* schedule() for the new status of each of a set of orders, in acceptance order.
ScheduleNews(ks, at) ==
    /\ queue' = queue \cup
           {[FeedbackControl(at, {<<k, orders'[k].status>>}) EXCEPT
                !.seq = nextSeq + Cardinality({j \in ks : j < k})] : k \in ks}
    /\ nextSeq' = nextSeq + Cardinality(ks)

-----------------------------------------------------------------------------
(* The main loop: process_before, apply_ordered and buffer_committed,      *)
(* process_at, and drain.                                                  *)

Ready == batch = {} /\ evaluating.todo = {} /\ failed = "none"

Fail(call) ==
    /\ failed' = call
    /\ UNCHANGED <<simVars, committed, visible, queue, nextSeq, batch, mode, incoming,
                   timers, position, marks, told, fired, decidedAt>>

IsReplayable(e) ==
    committed # <<>> =>
        LET last == committed[Len(committed)] IN
        /\ e.at >= last.at
        /\ ~Duplicates => \A n \in DOMAIN committed : committed[n] # e
        /\ e.at = last.at => \A n \in DOMAIN committed :
               committed[n] = e => \A m \in n..Len(committed) : committed[m] = e

SelectEvent ==
    /\ Ready
    /\ mode = "idle"
    /\ Len(committed) < MaxEvents
    /\ \E e \in Events : IsReplayable(e) /\ incoming' = <<e>>
    /\ mode' = "before"
    /\ UNCHANGED <<simVars, committed, visible, queue, nextSeq, batch, timers, position,
                   marks, told, fired, decidedAt, failed>>

PopBatch ==
    /\ Ready
    /\ \/ mode = "before" /\ DueBefore(incoming[1].at) # {} /\ Pop(DueBefore(incoming[1].at))
       \/ mode = "at" /\ IsNextTime(incoming[1].at) /\ Pop(DueAt(incoming[1].at))
       \/ mode = "drain" /\ \E t \in {c.at : c \in queue} : IsNextTime(t) /\ Pop(DueAt(t))
    /\ UNCHANGED <<simVars, committed, visible, nextSeq, mode, incoming, timers, position,
                   marks, told, fired, decidedAt, failed>>

NeedsAuctionMatch(i, m) == \E k \in Positions : AuctionCandidate(k, i, m)

CommitEvent ==
    /\ Ready
    /\ mode = "before"
    /\ DueBefore(incoming[1].at) = {}
    /\ LET e       == incoming[1]
           n       == Len(committed) + 1
           auction == /\ e.condition.matching = "CallAuction"
                      /\ e.clearing # <<>>
                      /\ NeedsAuctionMatch(e.instrument, e.at)
           release == Control(e.at + Latency, Release, "Release", n, {})
       IN  Schedule(IF auction
                    THEN <<Control(e.at, Allocation, "AllocateAuction", n, {}), release>>
                    ELSE <<release>>)
    /\ committed' = committed \o incoming
    /\ mode' = "at"
    /\ UNCHANGED <<simVars, visible, batch, incoming, timers, position, marks, told,
                   fired, decidedAt, failed>>

EventDone ==
    /\ Ready
    /\ mode = "at"
    /\ ~IsNextTime(incoming[1].at)
    /\ mode' = "idle"
    /\ incoming' = <<>>
    /\ UNCHANGED <<simVars, committed, visible, queue, nextSeq, batch, timers, position,
                   marks, told, fired, decidedAt, failed>>

EndOfData ==
    /\ Ready
    /\ mode = "idle"
    /\ mode' = "drain"
    /\ UNCHANGED <<simVars, committed, visible, queue, nextSeq, batch, incoming, timers,
                   position, marks, told, fired, decidedAt, failed>>

Finish ==
    /\ Ready
    /\ mode = "drain"
    /\ queue = {}
    /\ mode' = "done"
    /\ UNCHANGED <<simVars, committed, visible, queue, nextSeq, batch, incoming, timers,
                   position, marks, told, fired, decidedAt, failed>>

-----------------------------------------------------------------------------
(* Strategy callbacks: on_event, on_feedback and on_timer all end in       *)
(* schedule_timers and submit_requests at the callback's decision time.    *)

\* What a callback asks for: nothing once the bound on controls is reached.
Outputs ==
    IF nextSeq > MaxControls THEN {[timer |-> <<>>, order |-> <<>>]}
    ELSE [timer : Option(TimerRequests),
          order : Option(IF Len(orders) < MaxOrders THEN Requests ELSE {})]

OutputAccepted(t, out) ==
    /\ out.timer # <<>> => out.timer[1].fireAt >= t
    /\ out.order # <<>> => SubmitAccepted(t, out.order[1])

TimerControls(out) ==
    IF out.timer = <<>> THEN <<>>
    ELSE <<Control(out.timer[1].fireAt, Decision, "Timer", out.timer[1].timer, {})>>

\* Seeded fault: no expiry control is scheduled.
OrderControlsWithoutExpiry(t, origin, out) ==
    IF out.order = <<>> THEN <<>>
    ELSE LET r == out.order[1] IN
         <<Control(r.activateAt, Activation, "Activate", OrderIdentity(origin, r), {}),
           FeedbackControl(t, {<<Len(orders) + 1, "Scheduled">>}
                              \cup (IF clientOrders[r.client] = 0 THEN {}
                                    ELSE {<<clientOrders[r.client], "Replaced">>}))>>

OrderControls(t, origin, out) ==
    IF out.order = <<>> THEN <<>>
    ELSE LET r        == out.order[1]
             id       == OrderIdentity(origin, r)
             previous == clientOrders[r.client]
             expire   == IF r.expireAt = NoExpiry THEN <<>>
                         ELSE <<Control(r.expireAt, Expiry, "Expire", id, {})>>
         IN  expire
             \o <<Control(r.activateAt, Activation, "Activate", id, {}),
                  FeedbackControl(t, {<<Len(orders) + 1, "Scheduled">>}
                                     \cup (IF previous = 0 THEN {}
                                           ELSE {<<previous, "Replaced">>}))>>

\* Effect of an accepted output on the timers, the simulator and the queue;
\* before and after are controls the calling handler schedules itself.
ApplyOutput(t, origin, out, before, after) ==
    LET early == before \o TimerControls(out) IN
    /\ timers' = IF out.timer = <<>> THEN timers
                 ELSE [timers EXCEPT ![out.timer[1].timer] = nextSeq + Len(early) - 1]
    /\ Schedule(early \o OrderControls(t, origin, out) \o after)
    /\ decidedAt' = t

OrdersAfterOutput(os, origin, out) ==
    IF out.order = <<>> THEN os ELSE OrdersWithSubmission(os, origin, out.order[1])

IndexOutput(origin, out) ==
    clientOrders' = IF out.order = <<>> THEN clientOrders
                    ELSE [clientOrders EXCEPT ![out.order[1].client] =
                             OrderIdentity(origin, out.order[1])]

-----------------------------------------------------------------------------
(* process_control, one action per control payload.                        *)

Processing(kind) ==
    /\ batch # {}
    /\ evaluating.todo = {}
    /\ failed = "none"
    /\ Current.kind = kind

Processed == batch' = batch \ {Current}

Skip ==
    /\ Processed
    /\ UNCHANGED <<simVars, committed, visible, queue, nextSeq, mode, incoming, timers,
                   position, marks, told, fired, decidedAt, failed>>

\* apply_fill for every new fill record of one instrument.
SettleFills(i) ==
    position' = [position EXCEPT ![i] = @ +
        MapThenSumSet(LAMBDA f : IF orders[f.order].req.side = "Buy" THEN f.qty ELSE -f.qty,
                      fills' \ fills)]

\* The event origin is its fingerprint: that of the first equal event.
EventOrigin(n) ==
    [source |-> "event", at |-> committed[n].at + Latency,
     ref |-> CHOOSE j \in 1..n : /\ committed[j] = committed[n]
                                 /\ \A m \in 1..(j - 1) : committed[m] # committed[n]]
ControlOrigin(c) == [source |-> "control", at |-> c.at, ref |-> c.seq]

\* The visible core must reproduce the recorded occurrence.
OccurrenceMatches(n) == n = visible + 1

NeedsAllocation(os, i, t) ==
    \E k \in DOMAIN os :
        /\ os[k].req.instrument = i
        /\ os[k].req.policy = "UntilExpiry"
        /\ \/ os[k].status = "Active"
           \/ os[k].status = "Scheduled" /\ os[k].req.activateAt <= t

PublishObservation(e, v) ==
    IF e.book = <<>>
    THEN PublishTradingState(e.instrument, e.at, v, e.condition) /\ UNCHANGED books
    ELSE PublishBook(e.instrument, e.book[1], e.at, v, e.condition)

CanPublishObservation(e, v) ==
    /\ CanPublishTradingState(e.instrument, e.at, v)
    /\ e.book # <<>> => CanPublishBook(e.instrument, e.book[1], e.at, v)

ReleaseObservation ==
    /\ Processing("Release")
    /\ LET n      == Current.ref
           e      == committed[n]
           i      == e.instrument
           v      == e.at + Latency
           origin == EventOrigin(n)
           kept   == IF e.interrupts THEN MarketOrdersCancelled(orders, i) ELSE orders
           cut    == {k \in Positions : kept[k].status # orders[k].status}
           notice == IF cut = {} THEN <<>>
                     ELSE <<FeedbackControl(v, {<<k, "Cancelled">> : k \in cut})>>
       IN  \/ ~OccurrenceMatches(n) /\ Fail("release")
           \/ OccurrenceMatches(n) /\ ~CanPublishObservation(e, v) /\ Fail("publish")
           \/ \E out \in Outputs :
                /\ OccurrenceMatches(n) /\ CanPublishObservation(e, v)
                /\ ~OutputAccepted(v, out)
                /\ Fail("strategy")
           \/ \E out \in Outputs :
                LET after == OrdersAfterOutput(kept, origin, out)
                    sweep == IF e.book # <<>> /\ NeedsAllocation(after, i, v)
                             THEN <<Control(v, Allocation, "AllocateDepth", i, {})>>
                             ELSE <<>>
                IN  /\ OccurrenceMatches(n) /\ CanPublishObservation(e, v)
                    /\ OutputAccepted(v, out)
                    /\ PublishObservation(e, v)
                    /\ orders' = after
                    /\ IndexOutput(origin, out)
                    /\ ApplyOutput(v, origin, out, notice, sweep)
                    /\ visible' = visible + 1
                    /\ marks' = IF e.mark THEN marks \cup {i} ELSE marks
                    /\ Processed
                    /\ UNCHANGED <<fills, evaluating, committed, mode, incoming, position,
                                   told, fired, failed>>

\* on_feedback and on_timer: a callback at the control's own time.
Callback(out) ==
    /\ OutputAccepted(Current.at, out)
    /\ orders' = OrdersAfterOutput(orders, ControlOrigin(Current), out)
    /\ IndexOutput(ControlOrigin(Current), out)
    /\ ApplyOutput(Current.at, ControlOrigin(Current), out, <<>>, <<>>)
    /\ Processed
    /\ UNCHANGED <<books, tradingStates, fills, evaluating, committed, visible, mode,
                   incoming, position, marks, failed>>

CallbackFails == \E out \in Outputs : ~OutputAccepted(Current.at, out) /\ Fail("strategy")

DeliverFeedback ==
    /\ Processing("Feedback")
    /\ \/ CallbackFails
       \/ \E out \in Outputs :
            /\ Callback(out)
            /\ told' = told \cup Current.news
            /\ UNCHANGED fired

\* A timer that was asked for again later is dropped; current_equity needs a
\* mark for every open position.
MissingMark == \E i \in Instruments : position[i] # 0 /\ i \notin marks

StrategyTimer ==
    /\ Processing("Timer")
    /\ \/ timers[Current.ref] # Current.seq /\ Skip
       \/ timers[Current.ref] = Current.seq /\ MissingMark /\ Fail("mark")
       \/ timers[Current.ref] = Current.seq /\ ~MissingMark /\ CallbackFails
       \/ \E out \in Outputs :
            /\ timers[Current.ref] = Current.seq /\ ~MissingMark
            /\ Callback(out)
            /\ fired' = fired \cup {Current.seq}
            /\ UNCHANGED told

\* Seeded fault: due controls act without looking at the order's status.
AnyIdentity(id, statuses) == TRUE

\* order_can_expire and order_is_scheduled ask whether any order has the
\* identity; the simulator then acts on the first that has it.
AnyWithIdentity(id, statuses) ==
    \E k \in Positions : orders[k].id = id /\ orders[k].status \in statuses

ExpireOrder ==
    /\ Processing("Expire")
    /\ LET id == Current.ref IN
       \/ ~AnyWithIdentity(id, Live) /\ Skip
       \/ AnyWithIdentity(id, Live) /\ ~CanExpire(id, Current.at) /\ Fail("expiry")
       \/ /\ AnyWithIdentity(id, Live)
          /\ Expire(id, Current.at)
          /\ Schedule(<<FeedbackControl(Current.at, {<<id, "Expired">>})>>)
          /\ Processed
          /\ UNCHANGED <<books, tradingStates, clientOrders, fills, evaluating, committed,
                         visible, mode, incoming, timers, position, marks, told, fired,
                         decidedAt, failed>>

ActivateOrder ==
    /\ Processing("Activate")
    /\ LET id == Current.ref IN
       \/ ~AnyWithIdentity(id, {"Scheduled"}) /\ Skip
       \/ AnyWithIdentity(id, {"Scheduled"}) /\ ~CanActivate(id, Current.at)
            /\ Fail("activation")
       \/ /\ AnyWithIdentity(id, {"Scheduled"})
          /\ Activate(id, Current.at)
          /\ SettleFills(orders[id].req.instrument)
          /\ Schedule(<<FeedbackControl(Current.at, {<<id, orders'[id].status>>})>>)
          /\ Processed
          /\ UNCHANGED <<tradingStates, clientOrders, evaluating, committed, visible, mode,
                         incoming, timers, marks, told, fired, decidedAt, failed>>

AllocateVisibleDepth ==
    /\ Processing("AllocateDepth")
    /\ \/ ~(\E k \in Positions : RestsOnBook(k, Current.ref)) /\ Skip
       \/ /\ BeginEvaluateActive(Current.ref, Current.at)
          /\ Processed
          /\ UNCHANGED <<books, tradingStates, orders, clientOrders, fills, committed,
                         visible, queue, nextSeq, mode, incoming, timers, position, marks,
                         told, fired, decidedAt, failed>>

\* One order of evaluate_active, its settlement and its feedback.
EvaluateOrder ==
    \E k \in evaluating.todo :
        LET i == orders[k].req.instrument IN
        /\ failed = "none"
        /\ IsNextResting(k)
        /\ \/ ~PassiveAccepted(k, evaluating.at) /\ Fail("fill")
           \/ /\ EvaluateNext(k)
              /\ SettleFills(i)
              /\ IF CanMatchPassively(i, evaluating.at)
                 THEN Schedule(<<FeedbackControl(evaluating.at, {<<k, orders'[k].status>>})>>)
                 ELSE UNCHANGED <<queue, nextSeq>>
              /\ UNCHANGED <<tradingStates, clientOrders, committed, visible, batch, mode,
                             incoming, timers, marks, told, fired, decidedAt, failed>>

\* An auction match is decided at the match time; the strategy hears of it
\* when the observation becomes visible.
AllocateAuctionMatch ==
    /\ Processing("AllocateAuction")
    /\ LET e == committed[Current.ref]
           candidates == {k \in Positions : AuctionCandidate(k, e.instrument, e.at)}
       IN  \/ ~Accepts(e.instrument, e.clearing[1]) /\ Fail("auction")
           \/ /\ EvaluateAuctionMatch(e.instrument, e.clearing[1], e.at)
              /\ SettleFills(e.instrument)
              /\ ScheduleNews(candidates, e.at + Latency)
              /\ Processed
              /\ UNCHANGED <<books, tradingStates, clientOrders, evaluating, committed,
                             visible, mode, incoming, timers, marks, told, fired,
                             decidedAt, failed>>

Next ==
    \/ SelectEvent
    \/ PopBatch
    \/ CommitEvent
    \/ EventDone
    \/ EndOfData
    \/ Finish
    \/ ReleaseObservation
    \/ DeliverFeedback
    \/ StrategyTimer
    \/ ExpireOrder
    \/ ActivateOrder
    \/ AllocateVisibleDepth
    \/ EvaluateOrder
    \/ AllocateAuctionMatch

\* The run is one thread that only stops by returning.
Spec == Init /\ [][Next]_vars /\ WF_vars(Next)

-----------------------------------------------------------------------------
(* Properties.                                                             *)

VisibleAt(e) == e.at + Latency

\* The observations still to be released, in control order, are exactly the
\* committed events the visible core has not applied, in commit order: delayed
\* release never reorders, loses or repeats an event.
ReleasesFollowCommits ==
    LET pending == {c \in queue \cup batch : c.kind = "Release"} IN
    /\ {c.ref : c \in pending} = (visible + 1)..Len(committed)
    /\ \A c, d \in pending : c.ref < d.ref => KeyBefore(c, d)

\* Input the price policies accept: books, their adverse-adjusted prices and
\* clearing prices, and no settlement order without a price.
PricesAdmissible ==
    /\ \A r \in Requests : r.policy = "Settlement" => r.kind = "Limit"
    /\ \A e \in Events : e.clearing # <<>> => Accepts(e.instrument, e.clearing[1])
    /\ \A e \in Events, side \in Sides : e.book # <<>> =>
         \A l \in DOMAIN BookSide(e.book[1], side) :
             LET price == BookSide(e.book[1], side)[l].price IN
             /\ Accepts(e.instrument, price)
             /\ \A r \in Requests : r.instrument = e.instrument /\ r.side = side =>
                  Accepts(e.instrument, AdversePrice(price, r))

\* The coordinator's own calls of the simulator and the visible core never
\* fail: on distinct events with prices the policies accept, a run that ends
\* with an error does so in answering the strategy, at an open position
\* without a mark, or at a fill dated before its activation.
OnlyExplainedFailures == failed \in {"none", "strategy", "mark", "fill"}

\* When the run returns, every accepted order was activated or withdrawn,
\* every order with an expiry is terminal, the strategy was told the status
\* every order ended in, and the last request of every timer has fired.
SettledWhenDone ==
    mode = "done" =>
        /\ \A k \in Positions :
             /\ orders[k].status # "Scheduled"
             /\ orders[k].req.expireAt # NoExpiry => orders[k].status \notin Live
             /\ <<k, orders[k].status>> \in told
        /\ \A t \in Timers : timers[t] # 0 => timers[t] \in fired
        /\ visible = Len(committed)

\* No order trades before it is activated, nor at or after its expiry, also
\* when its expiry, a new book and an auction fall on the same time.
FillsWithinLifetime ==
    \A f \in fills :
        LET r == orders[f.order].req IN
        /\ f.at >= r.activateAt
        /\ r.expireAt # NoExpiry => f.at < r.expireAt

\* The run returns: every control leads to finitely many others once the
\* strategy stops asking, and no control is left behind.
RunFinishes == <>(mode = "done" \/ failed # "none")

\* A decision is never taken with knowledge from after its decision time.
NoLookAhead == visible > 0 => decidedAt >= VisibleAt(committed[visible])

=============================================================================
