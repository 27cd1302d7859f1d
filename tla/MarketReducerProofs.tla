------------------------ MODULE MarketReducerProofs ------------------------
(***************************************************************************)
(* What one accepted event does to each part of a market state: lemmas     *)
(* about propose, used by the proofs of MarketState and of Replay.         *)
(***************************************************************************)
EXTENDS MarketReducer, InductionLemmas

StateFields ==
    {"instrument", "date", "segment", "book", "trade", "volume", "indicative", "signal",
     "phase", "last", "version"}

\* A value with the fields of a MarketState.
IsState(s) == s = [f \in StateFields |-> s[f]]

\* Entering the context's segment resets the observable fields.
Resets(s, c) == s.segment # c.segment /\ s.segment # NoSegment /\ c.policy = "Reset"

\* The parts of a state that only the last steps of propose write.
SameOwner(s, t) ==
    /\ IsState(t)
    /\ t.instrument = s.instrument /\ t.date = s.date
    /\ t.last = s.last /\ t.version = s.version

\* A new state has the fields of a state.
LEMMA NewStateIsState ==
    ASSUME NEW i, NEW d
    PROVE  IsState(NewState(i, d))
BY DEF IsState, NewState, StateFields

\* Clearing the indicative fields leaves the others alone.
LEMMA ClearIndicativeFields ==
    ASSUME NEW s, IsState(s), NEW e
    PROVE  LET t == ClearIndicative(s, e)
           IN  /\ SameOwner(s, t) /\ t.segment = s.segment
               /\ t.book = s.book /\ t.trade = s.trade /\ t.volume = s.volume
               /\ t.signal = s.signal /\ t.phase = s.phase
               /\ t.indicative.tag # "known"
               /\ t.indicative \in {s.indicative, Cleared(e)}
<1> DEFINE t == ClearIndicative(s, e)
<1>1. CASE s.indicative.tag \in {"known", "unknown"}
  <2>1. t = [s EXCEPT !.indicative = Cleared(e)]
    BY <1>1 DEF ClearIndicative
  <2>2. IsState(t) /\ \A f \in StateFields \ {"indicative"} : t[f] = s[f]
    BY <2>1 DEF IsState, StateFields
  <2>3. t.indicative = Cleared(e) /\ Cleared(e).tag = "cleared"
    BY <2>1 DEF IsState, StateFields, Cleared
  <2> QED BY <2>2, <2>3 DEF SameOwner, StateFields
<1>2. CASE s.indicative.tag \notin {"known", "unknown"}
  BY <1>2 DEF ClearIndicative, SameOwner
<1> QED BY <1>1, <1>2

\* The segment step: everything is reset, or only a trial value is cleared.
LEMMA EnterSegmentFields ==
    ASSUME NEW s, IsState(s), NEW e, NEW c
    PROVE  LET t == EnterSegment(s, e, c)
           IN  /\ SameOwner(s, t) /\ t.segment = c.segment
               /\ Resets(s, c) => \A f \in Observable : t[f] = Initial
               /\ ~Resets(s, c) =>
                    /\ t.book = s.book /\ t.trade = s.trade /\ t.volume = s.volume
                    /\ t.signal = s.signal /\ t.phase = s.phase
                    /\ t.indicative = s.indicative \/ t.indicative.tag # "known"
<1> DEFINE t == EnterSegment(s, e, c)
<1>1. CASE s.segment = c.segment
  BY <1>1 DEF EnterSegment, SameOwner, Resets
<1>2. CASE Resets(s, c)
  <2>1. t = [ResetObservable(s) EXCEPT !.segment = c.segment]
    BY <1>2 DEF EnterSegment, Resets
  <2>2. /\ IsState(t) /\ t.segment = c.segment
        /\ t.instrument = s.instrument /\ t.date = s.date
        /\ t.last = s.last /\ t.version = s.version
        /\ t.book = Initial /\ t.trade = Initial /\ t.volume = Initial
        /\ t.indicative = Initial /\ t.signal = Initial /\ t.phase = Initial
    BY <2>1 DEF ResetObservable, IsState, StateFields
  <2> QED BY <1>2, <2>2 DEF SameOwner, Observable
<1>3. CASE s.segment # c.segment /\ ~Resets(s, c)
  <2> DEFINE m == IF c.policy = "Carry" THEN ClearIndicative(s, e) ELSE s
  <2>1. t = [m EXCEPT !.segment = c.segment]
    BY <1>3 DEF EnterSegment, Resets
  <2>2. /\ SameOwner(s, m)
        /\ m.book = s.book /\ m.trade = s.trade /\ m.volume = s.volume
        /\ m.signal = s.signal /\ m.phase = s.phase
        /\ m.indicative = s.indicative \/ m.indicative.tag # "known"
    <3>1. CASE c.policy = "Carry"
      BY <3>1, ClearIndicativeFields
    <3>2. CASE c.policy # "Carry"
      BY <3>2 DEF SameOwner
    <3> QED BY <3>1, <3>2
  <2> HIDE DEF m
  <2>3. IsState(t) /\ t.segment = c.segment /\ \A f \in StateFields \ {"segment"} : t[f] = m[f]
    BY <2>1, <2>2 DEF IsState, StateFields, SameOwner
  <2> HIDE DEF t
  <2>4. /\ t.book = m.book /\ t.trade = m.trade /\ t.volume = m.volume
        /\ t.signal = m.signal /\ t.phase = m.phase /\ t.indicative = m.indicative
        /\ t.instrument = m.instrument /\ t.date = m.date
        /\ t.last = m.last /\ t.version = m.version
    BY <2>3 DEF StateFields
  <2> QED BY <1>3, <2>2, <2>3, <2>4 DEF SameOwner, t
<1> QED BY <1>1, <1>2, <1>3

\* What an event shows of the traded price and of the volume.
ShowsTrade(e)  == e.kind = "Trades" \/ (e.kind = "Quote" /\ e.trade # "none")
ShowsVolume(e) == e.kind \in {"Quote", "Trades", "Status"} /\ e.volume.observation # "none"
ShowsBook(e)   == e.kind \in {"Quote", "Book"}

\* What an observation does to each field of the market state.
LEMMA ObserveFields ==
    ASSUME NEW field, NEW o \in Observations, NEW v, NEW e
    PROVE  LET t == Observe(field, o, v, e)
           IN  /\ o = "none" => t = field
               /\ o # "none" => t.tag # "initial" /\ t.at = e
               /\ o = "set" => t = Known(v, e)
               /\ o \in {"clear", "unknown"} => t.tag # "known"
BY DEF Observe, Observations, Known, Cleared, NotKnown

\* What the payload writes.
LEMMA ApplyPayloadFields ==
    ASSUME NEW s, IsState(s), NEW e, IsEvent(e)
    PROVE  LET t == ApplyPayload(s, e)
           IN  /\ SameOwner(s, t) /\ t.segment = s.segment
               /\ t.signal = s.signal /\ t.phase = s.phase
               /\ t.book = IF ShowsBook(e) THEN Known("Book", e) ELSE s.book
               /\ ShowsTrade(e) => t.trade.tag # "initial" /\ t.trade.at = e
               /\ ~ShowsTrade(e) => t.trade = s.trade
               /\ ShowsVolume(e) => t.volume.tag # "initial" /\ t.volume.at = e
               /\ ShowsVolume(e) => IF e.volume.observation = "set"
                                    THEN t.volume = Known(e.volume, e) ELSE t.volume.tag # "known"
               /\ ~ShowsVolume(e) => t.volume = s.volume
               /\ t.indicative = IF e.kind = "Indicative"
                                 THEN Known(MergeWithCurrent(s, e.observation), e)
                                 ELSE s.indicative
<1> DEFINE t == ApplyPayload(s, e)
           trade == IF e.kind = "Trades" THEN Known("Batch", e)
                    ELSE IF e.kind = "Quote" THEN Observe(s.trade, e.trade, "Single", e)
                    ELSE s.trade
           volume == IF e.kind \in {"Quote", "Trades", "Status"}
                     THEN Observe(s.volume, e.volume.observation, e.volume, e)
                     ELSE s.volume
           trial == IF e.kind = "Indicative"
                    THEN Known(MergeWithCurrent(s, e.observation), e) ELSE s.indicative
           book == IF e.kind \in {"Quote", "Book"} THEN Known("Book", e) ELSE s.book
<1>1. t = [s EXCEPT !.book = book, !.trade = trade, !.volume = volume, !.indicative = trial]
  BY DEF ApplyPayload
<1>2. e.trade \in Observations /\ e.volume.observation \in Observations
  BY DEF IsEvent
<1>3. /\ ShowsTrade(e) => trade.tag # "initial" /\ trade.at = e
      /\ ~ShowsTrade(e) => trade = s.trade
  BY <1>2, ObserveFields DEF ShowsTrade, Known
<1>4. /\ ShowsVolume(e) => volume.tag # "initial" /\ volume.at = e
      /\ ShowsVolume(e) => IF e.volume.observation = "set"
                           THEN volume = Known(e.volume, e) ELSE volume.tag # "known"
      /\ ~ShowsVolume(e) => volume = s.volume
  <2>1. CASE ShowsVolume(e)
    <3>1. volume = Observe(s.volume, e.volume.observation, e.volume, e)
      BY <2>1 DEF ShowsVolume
    <3>2. e.volume.observation \in {"set", "clear", "unknown"}
      BY <2>1, <1>2 DEF ShowsVolume, Observations
    <3> HIDE DEF volume
    <3> QED BY <2>1, <3>1, <3>2, <1>2, ObserveFields
  <2>2. CASE ~ShowsVolume(e)
    BY <2>2, <1>2, ObserveFields DEF ShowsVolume
  <2> QED BY <2>1, <2>2
<1>5. book = IF ShowsBook(e) THEN Known("Book", e) ELSE s.book
  BY DEF ShowsBook
<1> HIDE DEF trade, volume, book, trial
<1>6. /\ IsState(t) /\ t.book = book /\ t.trade = trade /\ t.volume = volume
      /\ t.indicative = trial
      /\ t.segment = s.segment /\ t.signal = s.signal /\ t.phase = s.phase
      /\ t.instrument = s.instrument /\ t.date = s.date
      /\ t.last = s.last /\ t.version = s.version
  BY <1>1 DEF IsState, StateFields
<1> HIDE DEF t
<1> QED BY <1>3, <1>4, <1>5, <1>6 DEF SameOwner, trial, t

\* The signal of an event is well formed, an indicative event's too.
LEMMA SignalOfType ==
    ASSUME NEW e, IsEvent(e)
    PROVE  LET o == SignalOf(e)
           IN  /\ o.observation \in Observations
               /\ o.signal.type \in SignalTypes
               /\ o.signal = [type |-> o.signal.type, observation |-> o.signal.observation]
               /\ IsAuctionObservation(o.signal.observation)
<1>1. CASE e.kind = "Indicative"
  <2> DEFINE o == SignalOf(e)
  <2>1. /\ o.observation = "set" /\ o.signal.type = "Collecting"
        /\ o.signal.observation = e.observation
        /\ o.signal = [type |-> "Collecting", observation |-> e.observation]
    BY <1>1 DEF SignalOf
  <2> QED BY <2>1 DEF IsEvent, Observations, SignalTypes
<1>2. CASE e.kind # "Indicative"
  BY <1>2 DEF SignalOf, IsEvent
<1> QED BY <1>1, <1>2

\* The signal keeps its type when the evidence of its round is added.
LEMMA ResolvedFields ==
    ASSUME NEW s, NEW g, g = [type |-> g.type, observation |-> g.observation]
    PROVE  /\ Resolved(s, g).type = g.type
           /\ Resolved(s, g).observation = IF g.type \in {"Collecting", "Uncross"}
                                           THEN MergeWithCurrent(s, g.observation)
                                           ELSE g.observation
<1>1. CASE g.type \in {"Collecting", "Uncross"}
  BY <1>1 DEF Resolved
<1>2. CASE g.type \notin {"Collecting", "Uncross"}
  BY <1>2 DEF Resolved
<1> QED BY <1>1, <1>2

\* What the signal writes: nothing firm, the phase, and the end of a trial.
LEMMA ApplySignalFields ==
    ASSUME NEW s, IsState(s), NEW e, IsEvent(e)
    PROVE  LET t == ApplySignal(s, e)
               o == SignalOf(e)
           IN  /\ SameOwner(s, t) /\ t.segment = s.segment
               /\ t.book = s.book /\ t.trade = s.trade /\ t.volume = s.volume
               /\ o.observation = "none" => t = s
               /\ o.observation \in {"clear", "unknown"} =>
                    t.phase.tag # "known" /\ t.indicative = s.indicative
               /\ o.observation = "set" =>
                    /\ t.phase = PostMarketPhase(Resolved(s, o.signal), e)
                    /\ IF o.signal.type = "Collecting" THEN t.indicative = s.indicative
                       ELSE t.indicative.tag # "known"
<1> DEFINE t == ApplySignal(s, e)
           o == SignalOf(e)
           g == Resolved(s, o.signal)
           u == IF g.type # "Collecting" THEN ClearIndicative(s, e) ELSE s
<1>0. /\ o.observation \in Observations /\ g.type = o.signal.type
  BY SignalOfType, ResolvedFields
<1>1. CASE o.observation = "none"
  BY <1>1 DEF ApplySignal, SameOwner
<1>2. CASE o.observation = "clear"
  <2>1. t = [s EXCEPT !.signal = Cleared(e), !.phase = Cleared(e)]
    BY <1>2 DEF ApplySignal
  <2>2. /\ IsState(t) /\ t.phase = Cleared(e)
        /\ \A f \in StateFields \ {"signal", "phase"} : t[f] = s[f]
    BY <2>1 DEF IsState, StateFields
  <2> HIDE DEF t
  <2>3. t.phase.tag # "known"
    BY <2>2 DEF Cleared
  <2> QED BY <1>2, <2>2, <2>3 DEF SameOwner, StateFields, t
<1>3. CASE o.observation = "unknown"
  <2>1. t = [s EXCEPT !.signal = NotKnown(e), !.phase = NotKnown(e)]
    BY <1>3 DEF ApplySignal
  <2>2. /\ IsState(t) /\ t.phase = NotKnown(e)
        /\ \A f \in StateFields \ {"signal", "phase"} : t[f] = s[f]
    BY <2>1 DEF IsState, StateFields
  <2> HIDE DEF t
  <2>3. t.phase.tag # "known"
    BY <2>2 DEF NotKnown
  <2> QED BY <1>3, <2>2, <2>3 DEF SameOwner, StateFields, t
<1>4. CASE o.observation = "set"
  <2>1. t = [u EXCEPT !.signal = Known(g, e), !.phase = PostMarketPhase(g, e)]
    BY <1>4 DEF ApplySignal
  <2>2. /\ SameOwner(s, u) /\ u.segment = s.segment
        /\ u.book = s.book /\ u.trade = s.trade /\ u.volume = s.volume
        /\ g.type = "Collecting" => u.indicative = s.indicative
        /\ g.type # "Collecting" => u.indicative.tag # "known"
    <3>1. CASE g.type = "Collecting"
      BY <3>1 DEF SameOwner
    <3>2. CASE g.type # "Collecting"
      <4>1. u = ClearIndicative(s, e)
        BY <3>2
      <4> HIDE DEF u
      <4> QED BY <3>2, <4>1, ClearIndicativeFields
    <3> QED BY <3>1, <3>2
  <2> HIDE DEF u, g
  <2>3. /\ IsState(t) /\ t.phase = PostMarketPhase(g, e)
        /\ \A f \in StateFields \ {"signal", "phase"} : t[f] = u[f]
    BY <2>1, <2>2 DEF IsState, StateFields, SameOwner
  <2> HIDE DEF t
  <2>4. /\ t.book = u.book /\ t.trade = u.trade /\ t.volume = u.volume
        /\ t.segment = u.segment /\ t.indicative = u.indicative
        /\ t.instrument = u.instrument /\ t.date = u.date
        /\ t.last = u.last /\ t.version = u.version
    BY <2>3 DEF StateFields
  <2> QED BY <1>0, <1>4, <2>2, <2>3, <2>4 DEF SameOwner, t, g
<1> QED BY <1>0, <1>1, <1>2, <1>3, <1>4 DEF Observations

-----------------------------------------------------------------------------
(* propose                                                                 *)

\* No error means that every check passed.
LEMMA NoFirstError ==
    ASSUME NEW a, NEW b, NEW c, NEW d, NEW f, FirstError(<<a, b, c, d, f>>) = NoError
    PROVE  a = NoError /\ b = NoError /\ c = NoError /\ d = NoError /\ f = NoError
<1> DEFINE errors == <<a, b, c, d, f>>
           at == {n \in 1..Len(errors) : errors[n] # NoError}
<1>1. SUFFICES ASSUME at # {} PROVE FALSE
  <2>1. \A n \in 1..5 : errors[n] = NoError
    BY <1>1
  <2> QED BY <2>1
<1>2. at \in SUBSET Nat
  OBVIOUS
<1>3. \E n \in at : \A m \in at : n <= m
  BY <1>1, <1>2, LeastMember
<1> DEFINE first == CHOOSE n \in at : \A m \in at : n <= m
<1>4. first \in at
  BY <1>3
<1>5. FirstError(errors) = errors[first]
  BY <1>1 DEF FirstError
<1> HIDE DEF first
<1> QED BY <1>4, <1>5

\* The checks of propose that the properties below rest on.
VolumeChecked(s, e, c) ==
    (e.kind \in {"Quote", "Trades", "Status"} /\ e.volume.observation = "set") =>
        VolumeError(EnterSegment(s, e, c).volume, e.volume, s.segment = c.segment) = NoError

\* The state an accepted event makes, with the intermediate states by name.
Entered(s, e, c) == EnterSegment(s, e, c)
Shown(s, e, c)   == ApplyPayload(Entered(s, e, c), e)

\* The result of an accepted proposal.
LEMMA ProposeAccepted ==
    ASSUME NEW s, IsState(s), NEW e, IsEvent(e), NEW c, Propose(s, e, c).error = NoError
    PROVE  LET p == Propose(s, e, c)
               n == p.next
               t == ApplySignal(Shown(s, e, c), e)
           IN  /\ p.previous = s.version /\ p.event = e
               /\ IsState(n)
               /\ n.instrument = s.instrument /\ n.date = s.date
               /\ n.last = e /\ n.version = s.version + 1
               /\ n.segment = c.segment
               /\ n.book = t.book /\ n.trade = t.trade /\ n.volume = t.volume
               /\ n.phase = t.phase /\ n.indicative = t.indicative
               /\ VolumeChecked(s, e, c)
               /\ EnvelopeError(s, e, c) = NoError
               /\ ShapeError(e) = NoError
               /\ OrderError(s, e) = NoError
<1> DEFINE u == Entered(s, e, c)
           v == Shown(s, e, c)
           t == ApplySignal(v, e)
           volume == IF e.kind \in {"Quote", "Trades", "Status"} /\ e.volume.observation = "set"
                     THEN VolumeError(u.volume, e.volume, s.segment = c.segment)
                     ELSE NoError
           error == FirstError(<<EnvelopeError(s, e, c), ProfileError(e), ShapeError(e),
                                 OrderError(s, e), volume>>)
           n == [t EXCEPT !.last = e, !.version = s.version + 1]
<1>1. SameOwner(s, u) /\ u.segment = c.segment
  BY EnterSegmentFields DEF Entered
<1>2. SameOwner(u, v) /\ v.segment = u.segment
  <2>1. IsState(u)
    BY <1>1 DEF SameOwner
  <2> HIDE DEF u
  <2> QED BY <2>1, ApplyPayloadFields DEF Shown, u
<1>3. SameOwner(v, t) /\ t.segment = v.segment
  <2>1. IsState(v)
    BY <1>2 DEF SameOwner
  <2> HIDE DEF v
  <2> QED BY <2>1, ApplySignalFields
<1>4. Propose(s, e, c) = IF error # NoError THEN [error |-> error]
                         ELSE [error |-> NoError, previous |-> s.version, event |-> e,
                               changed |-> ChangedFields(s, e, c), next |-> n]
  BY DEF Propose, Entered, Shown
<1> HIDE DEF error, n
<1>5. error = NoError
  BY <1>4
<1>6. /\ Propose(s, e, c).previous = s.version /\ Propose(s, e, c).event = e
      /\ Propose(s, e, c).next = n
  BY <1>4, <1>5
<1>7. /\ EnvelopeError(s, e, c) = NoError /\ ShapeError(e) = NoError
      /\ OrderError(s, e) = NoError /\ volume = NoError
  <2> HIDE DEF volume
  <2> QED BY <1>5, NoFirstError DEF error
<1>8. VolumeChecked(s, e, c)
  BY <1>7 DEF VolumeChecked, Entered
<1>9. IsState(t)
  BY <1>3 DEF SameOwner
<1> HIDE DEF t, u, v, volume
<1>10. /\ IsState(n) /\ n.last = e /\ n.version = s.version + 1
       /\ n.instrument = t.instrument /\ n.date = t.date /\ n.segment = t.segment
       /\ n.book = t.book /\ n.trade = t.trade /\ n.volume = t.volume
       /\ n.phase = t.phase /\ n.indicative = t.indicative
  BY <1>9 DEF n, IsState, StateFields
<1>11. n.instrument = s.instrument /\ n.date = s.date /\ n.segment = c.segment
  BY <1>1, <1>2, <1>3, <1>10 DEF SameOwner
<1> QED BY <1>6, <1>7, <1>8, <1>10, <1>11 DEF t, v
=============================================================================
