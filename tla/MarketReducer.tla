--------------------------- MODULE MarketReducer ----------------------------
(***************************************************************************)
(* The market state of one instrument and the function that advances it:   *)
(* MarketState of crates/market-state/src/model.rs and propose / commit of *)
(* MarketStateReducer in crates/market-state/src/reducer.rs, with the      *)
(* auction evidence of crates/market-types/src/signal.rs.  Operators only: *)
(* MarketState and Replay are the specifications that use them.            *)
(*                                                                         *)
(* Abstractions.  A book or a trade is the event that showed it, because   *)
(* the reducer copies them and never looks inside; volumes keep their      *)
(* number and unit.  The raw text of an unknown observation is left out.   *)
(* An event carries, as fields, everything the reducer and the ordering    *)
(* read of it; `fp` is the fingerprint of its canonical bytes `bytes`.     *)
(***************************************************************************)
EXTENDS Naturals, Sequences, FiniteSets

CONSTANTS
    AcceptedKinds,  \* per accepted format, the event kinds of the profile; a
                    \* format is the number its name sorts to
    RealtimeFormat, \* STOCK_REALTIME of TWSE and TPEx, whose records come in
                    \* two phases
    VolumePolicy,   \* "Unconstrained" or the unit of NonDecreasingWithinSegment
    PolicyVersion   \* the profile's segment boundary policy version

Kinds == {"Quote", "Book", "Trades", "Indicative", "Status"}

\* AuctionEvidence: a known value, no observation, or explicitly unknown.
NoObs    == "none"
Unknown  == "unknown"
KnownEvidence(v) == v \notin {NoObs, Unknown}

\* What the types of market-types guarantee of an event: an enum has one of its
\* values, a struct all of its fields.
Observations   == {"none", "set", "clear", "unknown"}
SignalTypes    == {"Continuous", "Closed", "Collecting", "Uncross"}
EvidenceFields == {"purpose", "delayed", "disposal", "direction"}
IsAuctionObservation(o) == o = [f \in EvidenceFields |-> o[f]]
IsEvent(e) ==
    /\ e.time \in Nat \ {0} /\ e.kind \in Kinds
    /\ e.format \in Nat /\ e.sequence \in Nat /\ e.fp \in Nat
    /\ e.trade \in Observations
    /\ e.volume.observation \in Observations /\ e.volume.value \in Nat
    /\ e.signal.observation \in Observations
    /\ e.signal.signal = [type |-> e.signal.signal.type, observation |-> e.signal.signal.observation]
    /\ e.signal.signal.type \in SignalTypes
    /\ IsAuctionObservation(e.signal.signal.observation)
    /\ IsAuctionObservation(e.observation)

-----------------------------------------------------------------------------
(* StateField: Unavailable(Initial), Unavailable(Cleared), Known, Unknown. *)
Initial       == [tag |-> "initial"]
Cleared(e)    == [tag |-> "cleared", at |-> e]
Known(v, e)   == [tag |-> "known", value |-> v, at |-> e]
NotKnown(e)   == [tag |-> "unknown", at |-> e]
IsKnown(f)    == f.tag = "known"

NoSegment == "no segment"
NoEvent   == [time |-> 0]

NewState(i, d) ==
    [instrument |-> i, date |-> d, segment |-> NoSegment,
     book |-> Initial, trade |-> Initial, volume |-> Initial,
     indicative |-> Initial, signal |-> Initial, phase |-> Initial,
     last |-> NoEvent, version |-> 0]

Observable == {"book", "trade", "volume", "indicative", "signal", "phase"}

\* reset_observable_fields
ResetObservable(s) ==
    [s EXCEPT !.book = Initial, !.trade = Initial, !.volume = Initial,
              !.indicative = Initial, !.signal = Initial, !.phase = Initial]

-----------------------------------------------------------------------------
(* The order of an instrument's events.                                    *)
KindRank(k) ==
    CASE k = "Quote" -> 10 [] k = "Book" -> 20 [] k = "Trades" -> 30
      [] k = "Indicative" -> 40 [] k = "Status" -> 50

\* source_phase_for_event: intermediate trades come before the final quote of
\* the same match time.
SourcePhase(e) ==
    IF e.format # RealtimeFormat THEN 0
    ELSE IF e.kind = "Trades" \/ (e.kind = "Indicative" /\ ~e.hasBook) THEN 10
    ELSE 20

\* Lexicographic order on tuples of naturals of one length.
LexLess(a, b) ==
    \E n \in 1..Len(a) : a[n] < b[n] /\ \A m \in 1..(n - 1) : a[m] = b[m]

\* compare_within_instrument: sequence None, here 0, sorts before every Some.
InstrumentKey(e) ==
    <<e.time, e.format, SourcePhase(e), KindRank(e.kind), e.sequence, e.fp>>

-----------------------------------------------------------------------------
(* Validation, in the order in which propose makes it.                     *)
NoError == "none"

\* validate_envelope
EnvelopeError(s, e, c) ==
    IF e.instrument # s.instrument THEN "InstrumentMismatch"
    ELSE IF e.date # s.date \/ e.date # c.date THEN "TradingDateMismatch"
    ELSE IF c.version # PolicyVersion THEN "BoundaryPolicyVersionMismatch"
    ELSE IF e.time < s.last.time THEN "MatchTimeRegression"
    ELSE NoError

\* validate_event of the profile
ProfileError(e) ==
    IF e.format \notin DOMAIN AcceptedKinds THEN "UnsupportedSourceFormat"
    ELSE IF e.kind \notin AcceptedKinds[e.format] THEN "UnsupportedEventKind"
    ELSE NoError

\* validate_realtime_shape: no book alone, and only intermediate trades.
ShapeError(e) ==
    IF /\ e.format = RealtimeFormat
       /\ \/ e.kind = "Book"
          \/ e.kind = "Trades" /\ ~e.intermediate
    THEN "InvalidRealtimeShape" ELSE NoError

OrderError(s, e) ==
    IF s.last # NoEvent /\ LexLess(InstrumentKey(e), InstrumentKey(s.last))
    THEN "OrderingRegression" ELSE NoError

\* Seeded fault: a lower volume is accepted.
VolumeErrorUnitOnly(current, v, comparePrevious) ==
    IF VolumePolicy \in {"Unconstrained", v.unit} THEN NoError ELSE "VolumeUnitMismatch"

\* validate_volume: the previous volume counts only if it is known and the
\* event does not open a segment.
VolumeError(current, v, comparePrevious) ==
    IF VolumePolicy = "Unconstrained" THEN NoError
    ELSE IF v.unit # VolumePolicy THEN "VolumeUnitMismatch"
    ELSE IF comparePrevious /\ IsKnown(current) /\ v.value < current.value.value
         THEN "CumulativeVolumeRegression"
    ELSE NoError

FirstError(errors) ==
    LET at == {n \in 1..Len(errors) : errors[n] # NoError}
    IN  IF at = {} THEN NoError
        ELSE errors[CHOOSE n \in at : \A m \in at : n <= m]

-----------------------------------------------------------------------------
(* Auction evidence.                                                       *)

\* AuctionObservation::merge: an observation without evidence for a field
\* keeps the earlier evidence.
Merge(current, prior) ==
    [f \in {"purpose", "delayed", "disposal", "direction"} |->
        IF current[f] = NoObs THEN prior[f] ELSE current[f]]

\* starts_new_auction
StartsNewAuction(previous, current) ==
    /\ KnownEvidence(previous.purpose)
    /\ KnownEvidence(current.purpose)
    /\ previous.purpose # current.purpose

\* current_auction_observation: the round the state is in, as a set of at
\* most one observation.
CurrentAuction(s) ==
    IF IsKnown(s.phase) /\ s.phase.value.type = "Auction"
    THEN {s.phase.value.observation}
    ELSE IF IsKnown(s.indicative) THEN {s.indicative.value} ELSE {}

\* merge_with_current_auction
MergeWithCurrent(s, o) ==
    IF \E p \in CurrentAuction(s) : ~StartsNewAuction(p, o)
    THEN Merge(o, CHOOSE p \in CurrentAuction(s) : TRUE)
    ELSE o

\* Seeded fault: the next round starts as delayed as the last one was.
NextRoundKeepingDelay(result) == [result EXCEPT !.direction = NoObs]

\* next_periodic_auction_round: only the disposal evidence outlives a round.
NextPeriodicRound(result) ==
    [purpose |-> "Periodic", delayed |-> "false",
     disposal |-> result.disposal, direction |-> NoObs]

\* clear_indicative_auction
ClearIndicative(s, e) ==
    IF s.indicative.tag \in {"known", "unknown"}
    THEN [s EXCEPT !.indicative = Cleared(e)] ELSE s

\* post_market_phase
PostMarketPhase(signal, e) ==
    LET purpose == signal.observation.purpose
        Plain(t) == Known([type |-> t], e)
        Auction(o) == Known([type |-> "Auction", observation |-> o], e)
    IN  CASE signal.type = "Continuous" -> Plain("Continuous")
          [] signal.type = "Closed"     -> Plain("Closed")
          [] signal.type = "Collecting" -> Auction(signal.observation)
          [] signal.type = "Uncross" ->
                CASE purpose \in {"Opening", "Volatility"} -> Plain("Continuous")
                  [] purpose = "Closing"  -> Plain("Closed")
                  [] purpose = "Periodic" -> Auction(NextPeriodicRound(signal.observation))
                  [] OTHER                -> NotKnown(e)

-----------------------------------------------------------------------------
(* The parts of propose that change the next state.                        *)

\* The segment step: reset, or clear the trial values when fields carry over.
EnterSegment(s, e, c) ==
    IF s.segment = c.segment THEN s
    ELSE LET reset == s.segment # NoSegment /\ c.policy = "Reset"
             moved == IF reset THEN ResetObservable(s)
                      ELSE IF c.policy = "Carry" THEN ClearIndicative(s, e)
                      ELSE s
         IN  [moved EXCEPT !.segment = c.segment]

\* apply_trade_observation; apply_volume_observation is the same on volume.
Observe(field, observation, value, e) ==
    CASE observation = "none"    -> field
      [] observation = "set"     -> Known(value, e)
      [] observation = "clear"   -> Cleared(e)
      [] observation = "unknown" -> NotKnown(e)

\* Seeded fault: the book of a trial overwrites the firm one.
TrialOverwritesBook(s, e) ==
    [s EXCEPT !.book = IF e.kind \in {"Quote", "Book", "Indicative"} THEN Known("Book", e) ELSE @,
              !.trade = IF e.kind = "Trades" THEN Known("Batch", e)
                        ELSE IF e.kind = "Quote" THEN Observe(@, e.trade, "Single", e) ELSE @,
              !.volume = IF e.kind \in {"Quote", "Trades", "Status"}
                         THEN Observe(@, e.volume.observation, e.volume, e) ELSE @,
              !.indicative = IF e.kind = "Indicative"
                             THEN Known(MergeWithCurrent(s, e.observation), e) ELSE @]

\* What the payload writes besides the signal.  A trade batch always replaces
\* the recent trade; a trial touches nothing firm.
ApplyPayload(s, e) ==
    LET firm == e.kind \in {"Quote", "Book"}
        trade == IF e.kind = "Trades" THEN Known("Batch", e)
                 ELSE IF e.kind = "Quote" THEN Observe(s.trade, e.trade, "Single", e)
                 ELSE s.trade
        volume == IF e.kind \in {"Quote", "Trades", "Status"}
                  THEN Observe(s.volume, e.volume.observation, e.volume, e)
                  ELSE s.volume
        trial == IF e.kind = "Indicative"
                 THEN Known(MergeWithCurrent(s, e.observation), e)
                 ELSE s.indicative
    IN  [s EXCEPT !.book = IF firm THEN Known("Book", e) ELSE @,
                  !.trade = trade, !.volume = volume, !.indicative = trial]

\* EventPayload::market_signal
SignalOf(e) ==
    IF e.kind = "Indicative"
    THEN [observation |-> "set",
          signal |-> [type |-> "Collecting", observation |-> e.observation]]
    ELSE e.signal

\* The signal with the evidence of its round.
Resolved(s, signal) ==
    IF signal.type \in {"Collecting", "Uncross"}
    THEN [signal EXCEPT !.observation = MergeWithCurrent(s, @)]
    ELSE signal

\* apply_market_signal
ApplySignal(s, e) ==
    LET o == SignalOf(e)
        Set == LET signal == Resolved(s, o.signal)
                   t == IF signal.type # "Collecting" THEN ClearIndicative(s, e) ELSE s
               IN  [t EXCEPT !.signal = Known(signal, e),
                             !.phase = PostMarketPhase(signal, e)]
    IN  CASE o.observation = "none"    -> s
          [] o.observation = "set"     -> Set
          [] o.observation = "clear"   -> [s EXCEPT !.signal = Cleared(e), !.phase = Cleared(e)]
          [] o.observation = "unknown" -> [s EXCEPT !.signal = NotKnown(e), !.phase = NotKnown(e)]

-----------------------------------------------------------------------------
(* The receipt lists the fields propose marked as changed.                 *)

ChangedFields(s, e, c) ==
    LET entered == EnterSegment(s, e, c)
        shown   == ApplyPayload(entered, e)
        before  == s.segment # NoSegment /\ s.segment # c.segment
        cleared == {"known", "unknown"}
    IN  (IF s.segment # c.segment THEN {"segment"} ELSE {})
        \cup (IF before /\ c.policy = "Reset" THEN Observable ELSE {})
        \cup (IF /\ s.segment # c.segment
                 /\ c.policy = "Carry"
                 /\ s.indicative.tag \in cleared
              THEN {"indicative"} ELSE {})
        \cup (IF e.kind \in {"Quote", "Book"} THEN {"book"} ELSE {})
        \cup (IF e.kind = "Trades" \/ (e.kind = "Quote" /\ e.trade # "none")
              THEN {"trade"} ELSE {})
        \cup (IF e.kind \in {"Quote", "Trades", "Status"} /\ e.volume.observation # "none"
              THEN {"volume"} ELSE {})
        \cup (IF e.kind = "Indicative" THEN {"indicative"} ELSE {})
        \cup (IF SignalOf(e).observation # "none" THEN {"signal", "phase"} ELSE {})
        \cup (IF /\ SignalOf(e).observation = "set"
                 /\ SignalOf(e).signal.type # "Collecting"
                 /\ shown.indicative.tag \in cleared
              THEN {"indicative"} ELSE {})
        \cup {"last"}

\* propose: the error, or the state to commit, the version it was made from
\* and the fields it says it changed.
Propose(s, e, c) ==
    LET entered == EnterSegment(s, e, c)
        setsVolume == /\ e.kind \in {"Quote", "Trades", "Status"}
                      /\ e.volume.observation = "set"
        error == FirstError(<<EnvelopeError(s, e, c), ProfileError(e), ShapeError(e),
                              OrderError(s, e),
                              IF setsVolume
                              THEN VolumeError(entered.volume, e.volume, s.segment = c.segment)
                              ELSE NoError>>)
        next == ApplySignal(ApplyPayload(entered, e), e)
    IN  IF error # NoError THEN [error |-> error]
        ELSE [error |-> NoError, previous |-> s.version, event |-> e,
              changed |-> ChangedFields(s, e, c),
              next |-> [next EXCEPT !.last = e, !.version = s.version + 1]]

\* Seeded fault: the version is not compared.
StaleIgnoringVersion(s, p) == s.instrument # p.next.instrument \/ s.date # p.next.date

\* commit: a proposal made from another version of the state is stale.
Stale(s, p) ==
    \/ s.version # p.previous
    \/ s.instrument # p.next.instrument
    \/ s.date # p.next.date
=============================================================================
