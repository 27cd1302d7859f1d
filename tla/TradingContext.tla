--------------------------- MODULE TradingContext ---------------------------
(***************************************************************************)
(* What a strategy and a simulator are told about trading at an event:     *)
(* session segments, the matching method and the new-order restriction,    *)
(* from crates/strategy-api/src/context.rs.  Operators only.               *)
(*                                                                         *)
(* A segment is [id, kind, date, open, close]; the ten minutes before and  *)
(* after it are WarmUp.  An auction is a set of at most one observation.   *)
(***************************************************************************)
EXTENDS MarketReducer, Integers

CONSTANT WarmUp  \* WARM_UP_MICROSECONDS

\* SessionSegment::new
SegmentOK(g) == g.open < g.close

\* SessionSegment::phase
SessionPhase(g, t) ==
    IF t < g.open - WarmUp \/ t >= g.close + WarmUp THEN "OutsideReplayWindow"
    ELSE IF t < g.open THEN "WarmUp"
    ELSE IF t <= g.close THEN "Active"
    ELSE "CoolDown"

Inside(g, t) == SessionPhase(g, t) # "OutsideReplayWindow"

\* matching_for_signal: the event's own signal, or the phase of the state when
\* the event says nothing.
Matching(o, phase) ==
    LET Of(m, auction) == [method |-> m, auction |-> auction]
        known == IF o.observation = "set" THEN <<o.signal>>
                 ELSE IF o.observation = "none" /\ IsKnown(phase) THEN <<phase.value>>
                 ELSE <<>>
    IN  IF known = <<>> THEN Of("Unknown", {})
        ELSE IF known[1].type \in {"Collecting", "Uncross", "Auction"}
        THEN Of("CallAuction", {known[1].observation})
        ELSE Of(known[1].type, {})

\* order_entry_for_signal.  PreOpenLimitOrdersOnly and AuctionCollecting are
\* the restrictions, CoolDown and ClosingResult the reasons of a block.
OrderEntry(o, matching, session) ==
    LET purposes == {a.purpose : a \in matching.auction}
        type == IF o.observation = "set" THEN o.signal.type ELSE o.observation
    IN  IF session = "CoolDown" THEN "CoolDown"
        ELSE IF type = "Uncross"
        THEN CASE purposes = {"Closing"}  -> "ClosingResult"
               [] purposes = {"Periodic"} -> "AuctionCollecting"
               [] purposes \subseteq {"Opening", "Volatility"} -> "Allowed"
               [] OTHER -> "Unknown"
        ELSE CASE matching.method = "Closed" -> "ClosingResult"
               [] matching.method = "Continuous" -> "Allowed"
               [] matching.method = "CallAuction" ->
                    IF purposes = {"Opening"} THEN "PreOpenLimitOrdersOnly" ELSE "AuctionCollecting"
               [] OTHER -> "Unknown"

Blocked(entry)    == entry \in {"CoolDown", "ClosingResult"}
Restricted(entry) == entry \in {"PreOpenLimitOrdersOnly", "AuctionCollecting"}

\* validate_event_state, with the occurrence given by the state version and
\* the event that the core says it applied.
ContextError(e, version, s, g) ==
    IF e.date # g.date \/ s.date # g.date THEN "TradingDateMismatch"
    ELSE IF e.instrument # s.instrument THEN "InstrumentMismatch"
    ELSE IF s.segment # g.id THEN "SegmentMismatch"
    ELSE IF version # s.version THEN "StateVersionMismatch"
    ELSE IF s.last = NoEvent THEN "MissingAppliedEvent"
    ELSE IF s.last.fp # e.fp \/ s.last.time # e.time THEN "EventIdentityMismatch"
    ELSE IF ~Inside(g, e.time) THEN "OutsideReplayWindow"
    ELSE NoError

\* MarketTradingContextEvaluator::evaluate
Evaluate(e, version, s, g) ==
    LET session == SessionPhase(g, e.time)
        matching == Matching(SignalOf(e), s.phase)
    IN  [error |-> ContextError(e, version, s, g),
         version |-> version, segment |-> g.id, session |-> session,
         matching |-> matching.method, auction |-> matching.auction,
         entry |-> OrderEntry(SignalOf(e), matching, session),
         signal |-> SignalOf(e)]
=============================================================================
