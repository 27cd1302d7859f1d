------------------------- MODULE MarketStateProofs --------------------------
(***************************************************************************)
(* Proofs that the properties of MarketState hold for every set of events, *)
(* every schedule and every bound.                                         *)
(*                                                                         *)
(* The ghost log grows by one entry at each commit.  The first part of the *)
(* module says what one more entry does to the log's segment start and     *)
(* round end; the second that every commit installs the accepted proposal  *)
(* of the state it is made in; the third proves the inductive invariant.   *)
(***************************************************************************)
EXTENDS MarketState, MarketReducerProofs, SequenceTheorems

\* What the log records of an event.
EntryOf(e) == [event |-> e, segment |-> Schedule[e.time].segment]
Entries    == {EntryOf(e) : e \in Events}

\* The log operators of MarketState, of any log.
BoundaryIn(l, n) ==
    \/ n = 1
    \/ /\ l[n].segment # l[n - 1].segment
       /\ Schedule[l[n].event.time].policy = "Reset"
StartOf(l) == Max({1} \cup {n \in DOMAIN l : BoundaryIn(l, n)})
RoundEndOf(l) == Max({StartOf(l) - 1} \cup {n \in StartOf(l)..Len(l) : EndsRound(l[n].event)})

\* One more entry opens a segment whose boundary resets the fields.
Opens(l, x) ==
    /\ l # <<>>
    /\ x.segment # l[Len(l)].segment
    /\ Schedule[x.event.time].policy = "Reset"

\* What appending an entry leaves of a log.
LEMMA AppendEntry ==
    ASSUME NEW l \in Seq(Entries), NEW x \in Entries
    PROVE  LET k == Append(l, x)
           IN  /\ k \in Seq(Entries) /\ Len(l) \in Nat /\ Len(k) = Len(l) + 1
               /\ DOMAIN k = 1..(Len(l) + 1) /\ DOMAIN l = 1..Len(l)
               /\ \A n \in 1..Len(l) : k[n] = l[n]
               /\ k[Len(l) + 1] = x
               /\ k # <<>>
BY AppendProperties, LenProperties

\* The segment start is a commit of the log, and the last boundary in it.
LEMMA StartOfProps ==
    ASSUME NEW l \in Seq(Entries)
    PROVE  /\ StartOf(l) \in Nat \ {0}
           /\ l = <<>> => StartOf(l) = 1
           /\ l # <<>> => StartOf(l) \in 1..Len(l)
           /\ StartOf(l) # 1 => BoundaryIn(l, StartOf(l))
           /\ \A n \in DOMAIN l : BoundaryIn(l, n) => n <= StartOf(l)
<1> DEFINE T == {1} \cup {n \in DOMAIN l : BoundaryIn(l, n)}
<1>1. Len(l) \in Nat /\ DOMAIN l = 1..Len(l)
  BY LenProperties
<1>2. T \in SUBSET Nat /\ T # {} /\ Len(l) + 1 \in Nat /\ \A n \in T : n <= Len(l) + 1
  BY <1>1
<1>3. Max(T) \in T /\ \A y \in T : y <= Max(T)
  <2> HIDE DEF T
  <2> QED BY <1>1, <1>2, MaxOfBounded
<1>4. StartOf(l) \in T /\ \A y \in T : y <= StartOf(l)
  BY <1>3 DEF StartOf
<1>5. l = <<>> => Len(l) = 0
  OBVIOUS
<1>6. l # <<>> => Len(l) # 0
  BY EmptySeq
<1> QED BY <1>1, <1>4, <1>5, <1>6

\* One more entry moves the segment start exactly when it opens a segment.
LEMMA StartOfAppend ==
    ASSUME NEW l \in Seq(Entries), NEW x \in Entries
    PROVE  StartOf(Append(l, x)) = IF Opens(l, x) THEN Len(l) + 1 ELSE StartOf(l)
<1> DEFINE k == Append(l, x)
           T == {1} \cup {n \in DOMAIN k : BoundaryIn(k, n)}
<1>0. /\ Len(l) \in Nat /\ DOMAIN k = 1..(Len(l) + 1) /\ DOMAIN l = 1..Len(l)
      /\ \A n \in 1..Len(l) : k[n] = l[n]
      /\ k[Len(l) + 1] = x
  BY AppendEntry
<1> HIDE DEF k
<1>1. \A n \in 1..Len(l) : BoundaryIn(k, n) <=> BoundaryIn(l, n)
  BY <1>0 DEF BoundaryIn
<1>2. l # <<>> => Len(l) # 0
  BY EmptySeq
<1>3. l # <<>> => (BoundaryIn(k, Len(l) + 1) <=> Opens(l, x))
  BY <1>0, <1>2 DEF BoundaryIn, Opens
<1>4. T \in SUBSET Int
  BY <1>0
<1>5. CASE l = <<>>
  <2>1. Len(l) = 0 /\ StartOf(l) = 1 /\ ~Opens(l, x)
    BY <1>5, StartOfProps DEF Opens
  <2>2. T = {1}
    BY <2>1, <1>0
  <2>3. Max(T) = 1
    <3>1. 1 \in T /\ \A y \in T : y <= 1
      BY <2>2
    <3> HIDE DEF T
    <3> QED BY <3>1, <1>4, MaxIs
  <2> QED BY <2>1, <2>3 DEF StartOf, k
<1>6. CASE l # <<>> /\ Opens(l, x)
  <2>1. Len(l) + 1 \in T /\ \A n \in T : n <= Len(l) + 1
    BY <1>0, <1>3, <1>6
  <2>2. Max(T) = Len(l) + 1
    <3> HIDE DEF T
    <3> QED BY <1>4, <2>1, MaxIs
  <2> QED BY <2>2, <1>6 DEF StartOf, k
<1>7. CASE l # <<>> /\ ~Opens(l, x)
  <2>1. /\ StartOf(l) \in 1..Len(l)
        /\ StartOf(l) # 1 => BoundaryIn(l, StartOf(l))
        /\ \A n \in 1..Len(l) : BoundaryIn(l, n) => n <= StartOf(l)
    BY <1>0, <1>7, StartOfProps
  <2>2. StartOf(l) \in T
    BY <1>0, <1>1, <2>1
  <2>3. \A n \in T : n <= StartOf(l)
    BY <1>0, <1>1, <1>3, <1>7, <2>1
  <2>4. Max(T) = StartOf(l)
    <3> HIDE DEF T
    <3> QED BY <1>4, <2>2, <2>3, MaxIs
  <2> QED BY <2>4, <1>7 DEF StartOf, k
<1> QED BY <1>5, <1>6, <1>7

\* The round end is just before the segment, or a commit of it.
LEMMA RoundEndProps ==
    ASSUME NEW l \in Seq(Entries)
    PROVE  /\ RoundEndOf(l) \in Nat
           /\ RoundEndOf(l) >= StartOf(l) - 1
           /\ RoundEndOf(l) <= Len(l)
           /\ \A n \in StartOf(l)..Len(l) : EndsRound(l[n].event) => n <= RoundEndOf(l)
           /\ \/ RoundEndOf(l) = StartOf(l) - 1
              \/ RoundEndOf(l) \in StartOf(l)..Len(l) /\ EndsRound(l[RoundEndOf(l)].event)
<1> DEFINE T == {StartOf(l) - 1} \cup {n \in StartOf(l)..Len(l) : EndsRound(l[n].event)}
<1>1. /\ Len(l) \in Nat /\ StartOf(l) \in Nat \ {0} /\ StartOf(l) - 1 <= Len(l)
  BY LenProperties, StartOfProps
<1>2. T \in SUBSET Nat /\ T # {} /\ \A n \in T : n <= Len(l)
  BY <1>1
<1>3. Max(T) \in T /\ \A y \in T : y <= Max(T)
  <2> HIDE DEF T
  <2> QED BY <1>1, <1>2, MaxOfBounded
<1>4. RoundEndOf(l) \in T /\ \A y \in T : y <= RoundEndOf(l)
  BY <1>3 DEF RoundEndOf
<1> HIDE DEF T
<1>5. RoundEndOf(l) \in Nat /\ RoundEndOf(l) <= Len(l)
  BY <1>2, <1>4
<1> QED BY <1>1, <1>4, <1>5 DEF T

\* One more entry ends the round, opens a segment, or leaves the round end.
LEMMA RoundEndAppend ==
    ASSUME NEW l \in Seq(Entries), NEW x \in Entries
    PROVE  RoundEndOf(Append(l, x)) = IF EndsRound(x.event) THEN Len(l) + 1
                                      ELSE IF Opens(l, x) THEN Len(l) ELSE RoundEndOf(l)
<1> DEFINE k == Append(l, x)
           T == {StartOf(k) - 1} \cup {n \in StartOf(k)..Len(k) : EndsRound(k[n].event)}
<1>0. /\ Len(l) \in Nat /\ Len(k) = Len(l) + 1
      /\ \A n \in 1..Len(l) : k[n] = l[n]
      /\ k[Len(l) + 1] = x
  BY AppendEntry
<1>1. StartOf(k) = IF Opens(l, x) THEN Len(l) + 1 ELSE StartOf(l)
  BY StartOfAppend
<1>2. StartOf(l) \in Nat \ {0} /\ StartOf(l) - 1 <= Len(l)
  BY StartOfProps, <1>0
<1> HIDE DEF k
<1>3. T \in SUBSET Int /\ \A n \in T : n <= Len(l) + 1
  BY <1>0, <1>1, <1>2
<1>4. RoundEndOf(k) = Max(T)
  BY DEF RoundEndOf
<1>5. CASE EndsRound(x.event)
  <2>1. Len(l) + 1 \in T
    BY <1>0, <1>1, <1>2, <1>5
  <2> HIDE DEF T
  <2> QED BY <1>3, <1>4, <1>5, <2>1, MaxIs DEF k
<1>6. CASE ~EndsRound(x.event) /\ Opens(l, x)
  <2>1. T = {Len(l)}
    BY <1>0, <1>1, <1>6
  <2> HIDE DEF T
  <2> QED BY <1>0, <1>3, <1>4, <1>6, <2>1, MaxIs DEF k
<1>7. CASE ~EndsRound(x.event) /\ ~Opens(l, x)
  <2>1. T = {StartOf(l) - 1} \cup {n \in StartOf(l)..Len(l) : EndsRound(l[n].event)}
    BY <1>0, <1>1, <1>2, <1>7
  <2> HIDE DEF T
  <2> QED BY <1>4, <1>7, <2>1 DEF RoundEndOf, k
<1> QED BY <1>5, <1>6, <1>7 DEF k

-----------------------------------------------------------------------------
(* Every commit installs an accepted proposal of the state it is made in.  *)

\* The state and the log tell of the same commits.
LogInv ==
    /\ IsState(state) /\ log \in Seq(Entries)
    /\ state.version = Len(log)
    /\ log = <<>> => state = NewState(Instrument, Date)
    /\ log # <<>> => /\ state.last = log[Len(log)].event
                     /\ state.segment = log[Len(log)].segment

\* A kept proposal is of an earlier version, or what propose would answer now.
ProposalInv ==
    \A p \in proposals :
        /\ p.error = NoError /\ p.event \in Events
        /\ p.previous \in Nat /\ p.previous <= Len(log)
        /\ p.previous = Len(log) => p = Propose(state, p.event, Schedule[p.event.time])

\* The event is accepted in this state and its successor installed.
Accepts(e) ==
    /\ Propose(state, e, Schedule[e.time]).error = NoError
    /\ state' = Propose(state, e, Schedule[e.time]).next
    /\ log' = Append(log, EntryOf(e))

\* Events are well formed, and their log entries too.
LEMMA EventFacts ==
    ASSUME NEW e \in Events
    PROVE  /\ IsEvent(e) /\ EntryOf(e) \in Entries
           /\ EntryOf(e).event = e /\ EntryOf(e).segment = Schedule[e.time].segment
           /\ Schedule[e.time].segment # NoSegment
BY ScheduleAssumption DEF EntryOf, Entries

\* What an entry of the log holds.
LEMMA EntryFacts ==
    ASSUME NEW x \in Entries
    PROVE  x.event \in Events /\ IsEvent(x.event) /\ x.event.volume.value \in Nat
<1>1. PICK e \in Events : x = EntryOf(e)
  BY DEF Entries
<1>2. x.event = e /\ IsEvent(e)
  BY <1>1, EventFacts
<1> QED BY <1>2 DEF IsEvent

\* A step commits nothing, or installs an accepted proposal.
LEMMA StepIsCommit ==
    ASSUME LogInv, ProposalInv, [Next]_vars
    PROVE  UNCHANGED <<state, log>> \/ \E e \in Events : Accepts(e)
<1>1. ASSUME NEW p, NEW e \in Events, p = Propose(state, e, Schedule[e.time]),
             p.error = NoError, Install(p)
      PROVE  Accepts(e)
  <2>1. IsEvent(e) /\ IsState(state)
    BY EventFacts DEF LogInv
  <2>2. p.event = e /\ p.next.segment = Schedule[e.time].segment
    BY <1>1, <2>1, ProposeAccepted
  <2> QED BY <1>1, <2>2 DEF Install, Accepts, EntryOf
<1>2. CASE \E e \in Kept : ProposeEvent(e)
  BY <1>2 DEF ProposeEvent
<1>3. ASSUME NEW p \in proposals, Commit(p)
      PROVE  UNCHANGED <<state, log>> \/ \E e \in Events : Accepts(e)
  <2>1. CASE Stale(state, p)
    BY <1>3, <2>1 DEF Commit
  <2>2. CASE ~Stale(state, p)
    <3>1. p.previous = Len(log) /\ Install(p)
      BY <1>3, <2>2 DEF Stale, Commit, LogInv
    <3>2. /\ p.event \in Events /\ p.error = NoError
          /\ p = Propose(state, p.event, Schedule[p.event.time])
      BY <3>1 DEF ProposalInv
    <3> QED BY <1>1, <3>1, <3>2
  <2> QED BY <2>1, <2>2
<1>4. ASSUME NEW e \in Events, Apply(e)
      PROVE  UNCHANGED <<state, log>> \/ \E f \in Events : Accepts(f)
  BY <1>1, <1>4 DEF Apply
<1>5. CASE UNCHANGED vars
  BY <1>5 DEF vars
<1> QED BY <1>2, <1>3, <1>4, <1>5 DEF Next

\* What a commit makes of the log and of the state.
LEMMA AcceptsFacts ==
    ASSUME LogInv, NEW e \in Events, Accepts(e)
    PROVE  LET c == Schedule[e.time]
               x == EntryOf(e)
               t == ApplySignal(Shown(state, e, c), e)
           IN  /\ IsEvent(e) /\ IsState(state) /\ IsState(state')
               /\ log \in Seq(Entries) /\ x \in Entries
               /\ x.event = e /\ x.segment = c.segment
               /\ log' = Append(log, x) /\ log' \in Seq(Entries)
               /\ Len(log) \in Nat /\ Len(log') = Len(log) + 1 /\ log' # <<>>
               /\ \A n \in 1..Len(log) : log'[n] = log[n]
               /\ log'[Len(log) + 1] = x
               /\ state'.version = Len(log) + 1 /\ state'.last = e
               /\ state'.segment = c.segment
               /\ state'.book = t.book /\ state'.trade = t.trade
               /\ state'.volume = t.volume
               /\ state'.phase = t.phase /\ state'.indicative = t.indicative
               /\ VolumeChecked(state, e, c)
               /\ Resets(state, c) <=> Opens(log, x)
<1> DEFINE c == Schedule[e.time]
           x == EntryOf(e)
<1>1. IsEvent(e) /\ x \in Entries /\ x.event = e /\ x.segment = c.segment /\ c.segment # NoSegment
  BY EventFacts
<1>2. IsState(state) /\ log \in Seq(Entries) /\ state.version = Len(log)
  BY DEF LogInv
<1>3. log' = Append(log, x)
  BY DEF Accepts
<1>4. Resets(state, c) <=> Opens(log, x)
  <2>1. CASE log = <<>>
    <3>1. state.segment = NoSegment
      BY <2>1 DEF LogInv, NewState
    <3> QED BY <2>1, <3>1 DEF Resets, Opens
  <2>2. CASE log # <<>>
    <3>1. Len(log) \in 1..Len(log)
      BY <1>2, <2>2, EmptySeq, LenProperties
    <3>2. log[Len(log)] \in Entries
      BY <1>2, <3>1, ElementOfSeq
    <3>3. log[Len(log)].segment # NoSegment
      BY <3>2, EventFacts DEF Entries
    <3> QED BY <1>1, <2>2, <3>3 DEF Resets, Opens, LogInv
  <2> QED BY <2>1, <2>2
<1>5. /\ Len(log) \in Nat /\ log' \in Seq(Entries) /\ Len(log') = Len(log) + 1 /\ log' # <<>>
      /\ \A n \in 1..Len(log) : log'[n] = log[n]
      /\ log'[Len(log) + 1] = x
  BY <1>1, <1>2, <1>3, AppendEntry
<1>6. LET n == Propose(state, e, c).next
          t == ApplySignal(Shown(state, e, c), e)
      IN  /\ IsState(n) /\ n.last = e /\ n.version = state.version + 1
          /\ n.segment = c.segment
          /\ n.book = t.book /\ n.trade = t.trade /\ n.volume = t.volume
          /\ n.phase = t.phase /\ n.indicative = t.indicative
          /\ VolumeChecked(state, e, c)
  <2>1. Propose(state, e, c).error = NoError
    BY DEF Accepts
  <2> HIDE DEF c
  <2> QED BY <1>1, <1>2, <2>1, ProposeAccepted
<1>7. state' = Propose(state, e, c).next
  BY DEF Accepts
<1> QED BY <1>1, <1>2, <1>3, <1>4, <1>5, <1>6, <1>7

\* LogInv is inductive.
LEMMA LogInvStep ==
    ASSUME LogInv, ProposalInv, [Next]_vars
    PROVE  LogInv'
<1>1. CASE UNCHANGED <<state, log>>
  BY <1>1 DEF LogInv
<1>2. ASSUME NEW e \in Events, Accepts(e)
      PROVE  LogInv'
  <2>1. /\ IsState(state') /\ log' \in Seq(Entries) /\ log' # <<>>
        /\ Len(log') = Len(log) + 1 /\ state'.version = Len(log) + 1
        /\ state'.last = log'[Len(log')].event /\ state'.segment = log'[Len(log')].segment
    BY <1>2, AcceptsFacts
  <2> QED BY <2>1 DEF LogInv
<1> QED BY <1>1, <1>2, StepIsCommit

\* ProposalInv is inductive: a commit makes every kept proposal stale.
LEMMA ProposalInvStep ==
    ASSUME LogInv, ProposalInv, [Next]_vars
    PROVE  ProposalInv'
<1>1. Len(log) \in Nat /\ log' \in Seq(Entries) /\ Len(log') \in Nat
  BY LogInvStep, LenProperties DEF LogInv
<1>2. CASE \E e \in Kept : ProposeEvent(e)
  <2> PICK e \in Kept : ProposeEvent(e)
    BY <1>2
  <2> DEFINE q == Propose(state, e, Schedule[e.time])
  <2>1. UNCHANGED <<state, log>>
    BY DEF ProposeEvent
  <2>2. proposals' \subseteq proposals \cup {q}
    BY DEF ProposeEvent
  <2>3. e \in Events /\ IsEvent(e) /\ IsState(state) /\ state.version = Len(log)
    BY ScheduleAssumption DEF LogInv
  <2>4. q \in proposals' => q \in proposals \/ q.error = NoError
    BY DEF ProposeEvent
  <2>5. q.error = NoError => q.event = e /\ q.previous = Len(log)
    BY <2>3, ProposeAccepted
  <2> HIDE DEF q
  <2>6. ASSUME NEW p \in proposals'
        PROVE  /\ p.error = NoError /\ p.event \in Events
               /\ p.previous \in Nat /\ p.previous <= Len(log)
               /\ p.previous = Len(log) => p = Propose(state, p.event, Schedule[p.event.time])
    <3>1. CASE p \in proposals
      BY <3>1 DEF ProposalInv
    <3>2. CASE p = q /\ q \notin proposals
      BY <1>1, <3>2, <2>3, <2>4, <2>5, <2>6 DEF q
    <3> QED BY <3>1, <3>2, <2>2
  <2> QED BY <2>1, <2>6 DEF ProposalInv
<1>3. CASE proposals' \subseteq proposals /\ UNCHANGED <<state, log>>
  BY <1>3 DEF ProposalInv
<1>4. CASE proposals' \subseteq proposals /\ Len(log') = Len(log) + 1
  BY <1>1, <1>4 DEF ProposalInv
<1>5. CASE \/ \E p \in proposals : Commit(p)
           \/ \E e \in Events : Apply(e)
           \/ UNCHANGED vars
  <2>1. proposals' \subseteq proposals
    BY <1>5 DEF Commit, Apply, vars
  <2>2. UNCHANGED <<state, log>> \/ Len(log') = Len(log) + 1
    BY StepIsCommit, AcceptsFacts
  <2> QED BY <1>3, <1>4, <2>1, <2>2
<1> QED BY <1>2, <1>5 DEF Next

-----------------------------------------------------------------------------
(* The firm fields.                                                        *)

ShownIn(l, field) == {n \in StartOf(l)..Len(l) : Shows(l[n].event, field)}

\* The value v of the field comes from the log's last entry that showed it.
ComesFrom(l, field, v) ==
    IF ShownIn(l, field) = {} THEN v = Initial
    ELSE /\ v.tag # "initial"
         /\ \E n \in ShownIn(l, field) : /\ \A m \in ShownIn(l, field) : m <= n
                                         /\ v.at = l[n].event

Firm == {"book", "trade", "volume"}

FirmInv == \A field \in Firm : ComesFrom(log, field, state[field])

\* A known volume is the one its event set.
VolumeInv ==
    state.volume.tag # "initial" =>
        IF state.volume.at.volume.observation = "set"
        THEN state.volume.tag = "known" /\ state.volume.value = state.volume.at.volume
        ELSE state.volume.tag # "known"

\* One more entry keeps a field's origin when the field follows the entry.
LEMMA ComesFromAppend ==
    ASSUME NEW l \in Seq(Entries), NEW x \in Entries, NEW field, NEW v, NEW w,
           ComesFrom(l, field, v),
           Shows(x.event, field) => w.tag # "initial" /\ w.at = x.event,
           ~Shows(x.event, field) => w = IF Opens(l, x) THEN Initial ELSE v
    PROVE  ComesFrom(Append(l, x), field, w)
<1> DEFINE k == Append(l, x)
           N == Len(l)
           A == ShownIn(l, field)
           B == ShownIn(k, field)
<1>0. /\ N \in Nat /\ Len(k) = N + 1
      /\ \A n \in 1..N : k[n] = l[n]
      /\ k[N + 1] = x
  BY AppendEntry
<1>1. StartOf(k) = IF Opens(l, x) THEN N + 1 ELSE StartOf(l)
  BY StartOfAppend
<1>2. StartOf(l) \in Nat \ {0} /\ StartOf(l) <= N + 1
  BY <1>0, StartOfProps
<1> HIDE DEF k, N
<1>3. B \subseteq Int /\ \A n \in B : n <= N + 1
  BY <1>0, <1>1, <1>2 DEF ShownIn
<1>4. CASE Shows(x.event, field)
  <2>1. N + 1 \in B
    BY <1>0, <1>1, <1>2, <1>4 DEF ShownIn
  <2>2. B # {} /\ \E n \in B : (\A m \in B : m <= n) /\ w.at = k[n].event
    BY <1>0, <1>3, <1>4, <2>1
  <2> QED BY <1>4, <2>2 DEF ComesFrom, k
<1>5. CASE ~Shows(x.event, field) /\ Opens(l, x)
  <2>1. B = {}
    BY <1>0, <1>1, <1>5 DEF ShownIn
  <2> QED BY <1>5, <2>1 DEF ComesFrom, k
<1>6. CASE ~Shows(x.event, field) /\ ~Opens(l, x)
  <2>1. B = A /\ \A n \in A : n \in 1..N /\ k[n] = l[n]
    BY <1>0, <1>1, <1>2, <1>6 DEF ShownIn, N
  <2> HIDE DEF A, B
  <2>2. IF B = {} THEN w = Initial
        ELSE w.tag # "initial" /\ \E n \in B : (\A m \in B : m <= n) /\ w.at = k[n].event
    BY <1>6, <2>1 DEF ComesFrom, A
  <2> QED BY <2>2 DEF ComesFrom, k, B
<1> QED BY <1>4, <1>5, <1>6

\* What a commit does to each firm field.
LEMMA FirmStep ==
    ASSUME LogInv, NEW e \in Events, Accepts(e), NEW field \in Firm
    PROVE  /\ Shows(e, field) => state'[field].tag # "initial" /\ state'[field].at = e
           /\ ~Shows(e, field) => state'[field] = IF Opens(log, EntryOf(e)) THEN Initial
                                                  ELSE state[field]
           /\ Shows(e, "volume") => IF e.volume.observation = "set"
                                    THEN state'.volume = Known(e.volume, e)
                                    ELSE state'.volume.tag # "known"
<1> DEFINE c == Schedule[e.time]
           u == Entered(state, e, c)
           v == Shown(state, e, c)
           t == ApplySignal(v, e)
<1>1. /\ IsEvent(e) /\ IsState(state)
      /\ Resets(state, c) <=> Opens(log, EntryOf(e))
      /\ state'.book = t.book /\ state'.trade = t.trade /\ state'.volume = t.volume
  BY AcceptsFacts
<1>2. /\ IsState(u)
      /\ u.book = IF Resets(state, c) THEN Initial ELSE state.book
      /\ u.trade = IF Resets(state, c) THEN Initial ELSE state.trade
      /\ u.volume = IF Resets(state, c) THEN Initial ELSE state.volume
  <2> HIDE DEF c
  <2> QED BY <1>1, EnterSegmentFields DEF Entered, SameOwner, Observable
<1> HIDE DEF u, c
<1>3. /\ IsState(v)
      /\ v.book = IF ShowsBook(e) THEN Known("Book", e) ELSE u.book
      /\ ShowsTrade(e) => v.trade.tag # "initial" /\ v.trade.at = e
      /\ ~ShowsTrade(e) => v.trade = u.trade
      /\ ShowsVolume(e) => v.volume.tag # "initial" /\ v.volume.at = e
      /\ ShowsVolume(e) => IF e.volume.observation = "set"
                           THEN v.volume = Known(e.volume, e) ELSE v.volume.tag # "known"
      /\ ~ShowsVolume(e) => v.volume = u.volume
  BY <1>1, <1>2, ApplyPayloadFields DEF Shown, u, SameOwner
<1> HIDE DEF v
<1>4. t.book = v.book /\ t.trade = v.trade /\ t.volume = v.volume
  BY <1>1, <1>3, ApplySignalFields
<1> HIDE DEF t
<1>5. /\ Shows(e, "book") <=> ShowsBook(e)
      /\ Shows(e, "trade") <=> ShowsTrade(e)
      /\ Shows(e, "volume") <=> ShowsVolume(e)
  BY DEF Shows, ShowsBook, ShowsTrade, ShowsVolume
<1>6. ShowsVolume(e) => IF e.volume.observation = "set"
                        THEN state'.volume = Known(e.volume, e) ELSE state'.volume.tag # "known"
  BY <1>1, <1>3, <1>4
<1>7. CASE field = "book"
  BY <1>1, <1>2, <1>3, <1>4, <1>5, <1>6, <1>7 DEF Known, c
<1>8. CASE field = "trade"
  BY <1>1, <1>2, <1>3, <1>4, <1>5, <1>6, <1>8 DEF c
<1>9. CASE field = "volume"
  BY <1>1, <1>2, <1>3, <1>4, <1>5, <1>6, <1>9 DEF c
<1> QED BY <1>7, <1>8, <1>9 DEF Firm

\* FirmInv and VolumeInv are inductive.
LEMMA FirmInvStep ==
    ASSUME LogInv, ProposalInv, FirmInv, VolumeInv, [Next]_vars
    PROVE  FirmInv' /\ VolumeInv'
<1>1. CASE UNCHANGED <<state, log>>
  BY <1>1 DEF FirmInv, VolumeInv, ComesFrom, ShownIn, StartOf, BoundaryIn
<1>2. ASSUME NEW e \in Events, Accepts(e)
      PROVE  FirmInv' /\ VolumeInv'
  <2> DEFINE x == EntryOf(e)
  <2>1. log \in Seq(Entries) /\ x \in Entries /\ x.event = e /\ log' = Append(log, x)
    BY <1>2, AcceptsFacts
  <2>2. ASSUME NEW field \in Firm
        PROVE  ComesFrom(log', field, state'[field])
    <3>1. /\ Shows(e, field) => state'[field].tag # "initial" /\ state'[field].at = e
          /\ ~Shows(e, field) => state'[field] = IF Opens(log, x) THEN Initial ELSE state[field]
      BY <1>2, FirmStep
    <3>2. ComesFrom(log, field, state[field])
      BY DEF FirmInv
    <3> HIDE DEF x
    <3> QED BY <2>1, <3>1, <3>2, ComesFromAppend
  <2>3. VolumeInv'
    <3>1. /\ Shows(e, "volume") => state'.volume.at = e
          /\ ~Shows(e, "volume") => state'.volume = IF Opens(log, x) THEN Initial ELSE state.volume
          /\ Shows(e, "volume") => IF e.volume.observation = "set"
                                    THEN state'.volume = Known(e.volume, e)
                                    ELSE state'.volume.tag # "known"
      BY <1>2, FirmStep DEF Firm
    <3>2. CASE Shows(e, "volume")
      <4>1. Known(e.volume, e).tag = "known" /\ Known(e.volume, e).value = e.volume
        BY DEF Known
      <4> QED BY <3>1, <3>2, <4>1 DEF VolumeInv
    <3>3. CASE ~Shows(e, "volume")
      BY <3>1, <3>3 DEF VolumeInv, Initial
    <3> QED BY <3>2, <3>3
  <2> QED BY <2>2, <2>3 DEF FirmInv
<1> QED BY <1>1, <1>2, StepIsCommit

-----------------------------------------------------------------------------
(* The cumulative volume.                                                  *)

\* The premise of VolumeNeverFallsWithinSegment, of any log.
VolumeRun(l, m, n) ==
    /\ \A k \in m..n : /\ l[k].segment = l[m].segment
                       /\ Shows(l[k].event, "volume")
                             => l[k].event.volume.observation = "set"
    /\ Shows(l[m].event, "volume") /\ Shows(l[n].event, "volume")

\* One segment never spans a boundary.
LEMMA RunWithinSegment ==
    ASSUME NEW l \in Seq(Entries), NEW m \in 1..Len(l),
           \A k \in m..Len(l) : l[k].segment = l[m].segment
    PROVE  StartOf(l) <= m
<1>1. Len(l) \in Nat /\ l # <<>>
  BY LenProperties
<1>2. StartOf(l) \in 1..Len(l) /\ (StartOf(l) # 1 => BoundaryIn(l, StartOf(l)))
  BY <1>1, StartOfProps
<1>3. SUFFICES ASSUME StartOf(l) > m PROVE FALSE
  BY <1>1, <1>2
<1>4. l[StartOf(l)].segment # l[StartOf(l) - 1].segment
  BY <1>2, <1>3 DEF BoundaryIn
<1>5. StartOf(l) \in m..Len(l) /\ StartOf(l) - 1 \in m..Len(l)
  BY <1>1, <1>2, <1>3
<1> QED BY <1>4, <1>5

\* An accepted volume is at least the last one of its run.
LEMMA VolumeStep ==
    ASSUME LogInv, FirmInv, VolumeInv, VolumeNeverFallsWithinSegment,
           VolumePolicy # "Unconstrained",
           NEW e \in Events, Accepts(e),
           NEW m \in 1..Len(log), VolumeRun(log', m, Len(log) + 1)
    PROVE  log[m].event.volume.value <= e.volume.value
<1> DEFINE N == Len(log)
           c == Schedule[e.time]
           A == ShownIn(log, "volume")
<1>0. /\ log \in Seq(Entries) /\ N \in Nat /\ log' \in Seq(Entries) /\ IsState(state)
      /\ \A k \in 1..N : log'[k] = log[k]
      /\ log'[N + 1].event = e /\ log'[N + 1].segment = c.segment
      /\ VolumeChecked(state, e, c)
  BY AcceptsFacts
<1>1. log # <<>> /\ N \in 1..N
  BY <1>0
<1>2. /\ \A k \in m..N : /\ log[k].segment = log[m].segment
                         /\ Shows(log[k].event, "volume")
                               => log[k].event.volume.observation = "set"
      /\ Shows(log[m].event, "volume")
  BY <1>0 DEF VolumeRun
<1>3. Shows(e, "volume") /\ e.volume.observation = "set" /\ c.segment = log[m].segment
  BY <1>0 DEF VolumeRun
<1>4. StartOf(log) <= m /\ StartOf(log) \in Nat
  BY <1>0, <1>2, RunWithinSegment, StartOfProps
<1>5. m \in A
  BY <1>0, <1>2, <1>4 DEF ShownIn
<1>6. PICK n \in A : (\A k \in A : k <= n) /\ state.volume.at = log[n].event
  BY <1>5 DEF FirmInv, ComesFrom, Firm
<1>7. /\ n \in m..N /\ Shows(log[n].event, "volume")
      /\ log[n].event.volume.observation = "set"
  BY <1>0, <1>2, <1>4, <1>5, <1>6 DEF ShownIn
<1>8. state.volume.tag # "initial"
  BY <1>5 DEF FirmInv, ComesFrom, Firm
<1>9. state.volume.tag = "known" /\ state.volume.value = log[n].event.volume
  BY <1>6, <1>7, <1>8 DEF VolumeInv
<1>10. state.segment = c.segment
  BY <1>1, <1>2, <1>3 DEF LogInv
<1>11. EnterSegment(state, e, c) = state
  BY <1>10 DEF EnterSegment
<1>12. VolumeError(state.volume, e.volume, TRUE) = NoError
  <2>1. e.kind \in {"Quote", "Trades", "Status"}
    BY <1>3 DEF Shows
  <2> QED BY <1>0, <1>3, <1>10, <1>11, <2>1 DEF VolumeChecked
<1>13. ~(e.volume.value < log[n].event.volume.value)
  BY <1>9, <1>12 DEF VolumeError, IsKnown, NoError
<1>14. log[m].event.volume.value <= log[n].event.volume.value
  <2>1. CASE m = n
    <3>1. log[n] \in Entries
      BY <1>0, <1>7, ElementOfSeq
    <3>2. log[n].event.volume.value \in Nat
      BY <3>1, EntryFacts
    <3> QED BY <2>1, <3>2
  <2>2. CASE m # n
    <3>1. m \in DOMAIN log /\ n \in DOMAIN log /\ m < n
      BY <1>0, <1>7, <2>2, LenProperties
    <3>2. \A k \in m..n : k \in m..N
      BY <1>0, <1>7
    <3> QED BY <1>2, <1>7, <3>1, <3>2 DEF VolumeNeverFallsWithinSegment
  <2> QED BY <2>1, <2>2
<1>15. /\ log[m] \in Entries /\ log[n] \in Entries
  BY <1>0, <1>7, ElementOfSeq
<1>16. /\ log[m].event.volume.value \in Nat /\ log[n].event.volume.value \in Nat
       /\ e.volume.value \in Nat
  BY <1>15, EntryFacts, EventFacts DEF IsEvent
<1> QED BY <1>13, <1>14, <1>16

\* VolumeNeverFallsWithinSegment is inductive with the invariants before it.
LEMMA VolumeRunStep ==
    ASSUME LogInv, ProposalInv, FirmInv, VolumeInv, VolumeNeverFallsWithinSegment,
           VolumePolicy # "Unconstrained", [Next]_vars
    PROVE  VolumeNeverFallsWithinSegment'
<1>1. CASE UNCHANGED <<state, log>>
  BY <1>1 DEF VolumeNeverFallsWithinSegment
<1>2. ASSUME NEW e \in Events, Accepts(e)
      PROVE  VolumeNeverFallsWithinSegment'
  <2> DEFINE N == Len(log)
  <2>0. /\ log \in Seq(Entries) /\ N \in Nat /\ DOMAIN log' = 1..(N + 1) /\ DOMAIN log = 1..N
        /\ \A k \in 1..N : log'[k] = log[k]
        /\ log'[N + 1].event = e
    BY <1>2, AcceptsFacts, LenProperties
  <2>1. ASSUME NEW m \in DOMAIN log', NEW n \in DOMAIN log', m < n, VolumeRun(log', m, n)
        PROVE  log'[m].event.volume.value <= log'[n].event.volume.value
    <3>1. CASE n \in 1..N
      <4>1. m \in DOMAIN log /\ n \in DOMAIN log
        BY <2>0, <2>1, <3>1
      <4>2. \A k \in m..n : k \in 1..N /\ log'[k] = log[k]
        BY <2>0, <2>1, <3>1
      <4>3. VolumeRun(log, m, n)
        BY <2>1, <4>1, <4>2, <2>0 DEF VolumeRun
      <4> QED BY <2>0, <2>1, <4>1, <4>3 DEF VolumeNeverFallsWithinSegment, VolumeRun
    <3>2. CASE n = N + 1
      <4>1. m \in 1..N
        BY <2>0, <2>1, <3>2
      <4> QED BY <1>2, <2>0, <2>1, <3>2, <4>1, VolumeStep
    <3> QED BY <2>0, <3>1, <3>2
  <2> QED BY <2>1 DEF VolumeNeverFallsWithinSegment, VolumeRun
<1> QED BY <1>1, <1>2, StepIsCommit

-----------------------------------------------------------------------------
(* The evidence of the auction round.                                      *)

RoundFields == {"delayed", "direction"}

\* The value v of an evidence field may be in the state after the log l.
OfThisRound(l, field, v) ==
    \/ v = NoObs
    \/ \E n \in (RoundEndOf(l) + 1)..Len(l) :
          /\ SignalOf(l[n].event).observation = "set"
          /\ SignalOf(l[n].event).signal.observation[field] = v
    \/ /\ field = "delayed" /\ v = "false"
       /\ RoundEndOf(l) >= StartOf(l)
       /\ SignalOf(l[RoundEndOf(l)].event).signal.type = "Uncross"

\* Both places that can hold a round's evidence: the auction phase, and the
\* trial value, which is read only when no phase is known.
PhaseOk(l, s) ==
    (IsKnown(s.phase) /\ s.phase.value.type = "Auction") =>
        \A field \in RoundFields : OfThisRound(l, field, s.phase.value.observation[field])
TrialOk(l, s) ==
    IsKnown(s.indicative) =>
        \A field \in RoundFields : OfThisRound(l, field, s.indicative.value[field])

EvidenceInv == PhaseOk(log, state) /\ TrialOk(log, state)

\* Evidence of the round stays evidence of it until the round ends.
LEMMA EvidenceKept ==
    ASSUME NEW l \in Seq(Entries), NEW x \in Entries, NEW field, NEW v,
           ~EndsRound(x.event), ~Opens(l, x), OfThisRound(l, field, v)
    PROVE  OfThisRound(Append(l, x), field, v)
<1> DEFINE k == Append(l, x)
<1>1. /\ Len(l) \in Nat /\ Len(k) = Len(l) + 1
      /\ \A n \in 1..Len(l) : k[n] = l[n]
  BY AppendEntry
<1>2. RoundEndOf(k) = RoundEndOf(l) /\ StartOf(k) = StartOf(l)
  BY RoundEndAppend, StartOfAppend
<1>3. /\ RoundEndOf(l) \in Nat /\ RoundEndOf(l) <= Len(l) /\ StartOf(l) \in Nat \ {0}
  BY RoundEndProps, StartOfProps
<1> HIDE DEF k
<1>4. CASE v = NoObs
  BY <1>4 DEF OfThisRound
<1>5. ASSUME NEW n \in (RoundEndOf(l) + 1)..Len(l),
             SignalOf(l[n].event).observation = "set",
             SignalOf(l[n].event).signal.observation[field] = v
      PROVE  OfThisRound(k, field, v)
  <2>1. n \in (RoundEndOf(k) + 1)..Len(k) /\ k[n] = l[n]
    BY <1>1, <1>2, <1>3
  <2> QED BY <1>5, <2>1 DEF OfThisRound
<1>6. CASE /\ field = "delayed" /\ v = "false" /\ RoundEndOf(l) >= StartOf(l)
           /\ SignalOf(l[RoundEndOf(l)].event).signal.type = "Uncross"
  <2>1. k[RoundEndOf(k)] = l[RoundEndOf(l)]
    BY <1>1, <1>2, <1>3, <1>6
  <2> QED BY <1>2, <1>6, <2>1 DEF OfThisRound, k
<1> QED BY <1>4, <1>5, <1>6 DEF OfThisRound, k

\* What a collecting signal shows is evidence of the round it is in.
LEMMA EvidenceShown ==
    ASSUME NEW l \in Seq(Entries), NEW x \in Entries, NEW field,
           ~EndsRound(x.event), SignalOf(x.event).observation = "set"
    PROVE  OfThisRound(Append(l, x), field, SignalOf(x.event).signal.observation[field])
<1> DEFINE k == Append(l, x)
<1>1. Len(l) \in Nat /\ Len(k) = Len(l) + 1 /\ k[Len(l) + 1] = x
  BY AppendEntry
<1>2. RoundEndOf(k) \in Nat /\ RoundEndOf(k) <= Len(l)
  BY <1>1, RoundEndAppend, RoundEndProps
<1> HIDE DEF k
<1>3. Len(l) + 1 \in (RoundEndOf(k) + 1)..Len(k)
  BY <1>1, <1>2
<1> QED BY <1>1, <1>3 DEF OfThisRound, k

\* After an uncross the round starts as not delayed.
LEMMA EvidenceUncrossed ==
    ASSUME NEW l \in Seq(Entries), NEW x \in Entries,
           EndsRound(x.event), SignalOf(x.event).signal.type = "Uncross"
    PROVE  OfThisRound(Append(l, x), "delayed", "false")
<1> DEFINE k == Append(l, x)
<1>1. Len(l) \in Nat /\ k[Len(l) + 1] = x
  BY AppendEntry
<1>2. RoundEndOf(k) = Len(l) + 1 /\ StartOf(k) <= Len(l) + 1
  BY <1>1, RoundEndAppend, StartOfAppend, StartOfProps
<1>3. RoundEndOf(k) >= StartOf(k)
  <2>1. StartOf(k) \in Nat
    BY AppendEntry, StartOfProps
  <2> QED BY <1>1, <1>2, <2>1
<1> HIDE DEF k
<1> QED BY <1>1, <1>2, <1>3 DEF OfThisRound, k

\* Merging takes each field from the new observation or from the current round.
LEMMA MergeField ==
    ASSUME NEW s, NEW o, NEW field \in EvidenceFields
    PROVE  \/ MergeWithCurrent(s, o)[field] = o[field]
           \/ \E q \in CurrentAuction(s) : MergeWithCurrent(s, o)[field] = q[field]
<1>1. CASE \E q \in CurrentAuction(s) : ~StartsNewAuction(q, o)
  <2> DEFINE q == CHOOSE r \in CurrentAuction(s) : TRUE
  <2>1. q \in CurrentAuction(s)
    BY <1>1
  <2> HIDE DEF q
  <2>2. MergeWithCurrent(s, o) = Merge(o, q)
    BY <1>1 DEF MergeWithCurrent, q
  <2>3. Merge(o, q)[field] \in {o[field], q[field]}
    BY DEF Merge, EvidenceFields
  <2> QED BY <2>1, <2>2, <2>3
<1>2. CASE ~\E q \in CurrentAuction(s) : ~StartsNewAuction(q, o)
  BY <1>2 DEF MergeWithCurrent
<1> QED BY <1>1, <1>2

\* An observation merged with a round of the log l is of that round.
LEMMA MergeOk ==
    ASSUME NEW l, NEW s, NEW o, PhaseOk(l, s), TrialOk(l, s),
           \A field \in RoundFields : OfThisRound(l, field, o[field])
    PROVE  \A field \in RoundFields : OfThisRound(l, field, MergeWithCurrent(s, o)[field])
<1> SUFFICES ASSUME NEW field \in RoundFields
             PROVE  OfThisRound(l, field, MergeWithCurrent(s, o)[field])
  OBVIOUS
<1>1. field \in EvidenceFields
  BY DEF RoundFields, EvidenceFields
<1>2. \A q \in CurrentAuction(s) : OfThisRound(l, field, q[field])
  BY DEF CurrentAuction, PhaseOk, TrialOk
<1> QED BY <1>1, <1>2, MergeField

\* When a signal leaves an auction phase, the phase's observation is the
\* signal's, or that of the round after a periodic uncross.
LEMMA PhaseAfterSignal ==
    ASSUME NEW g, NEW e, g.type \in SignalTypes,
           IsKnown(PostMarketPhase(g, e)), PostMarketPhase(g, e).value.type = "Auction"
    PROVE  LET o == PostMarketPhase(g, e).value.observation
           IN  \/ g.type = "Collecting" /\ o = g.observation
               \/ g.type = "Uncross" /\ o = NextPeriodicRound(g.observation)
<1>1. CASE g.type = "Collecting"
  BY <1>1 DEF PostMarketPhase, Known
<1>2. CASE g.type = "Continuous"
  BY <1>2 DEF PostMarketPhase, Known
<1>3. CASE g.type = "Closed"
  BY <1>3 DEF PostMarketPhase, Known
<1>4. CASE g.type = "Uncross"
  <2> DEFINE purpose == g.observation.purpose
  <2>1. CASE purpose \in {"Opening", "Volatility"}
    BY <1>4, <2>1 DEF PostMarketPhase, Known
  <2>2. CASE purpose = "Closing"
    BY <1>4, <2>2 DEF PostMarketPhase, Known
  <2>3. CASE purpose = "Periodic"
    BY <1>4, <2>3 DEF PostMarketPhase, Known
  <2>4. CASE purpose \notin {"Opening", "Volatility", "Closing", "Periodic"}
    <3>1. PostMarketPhase(g, e) = NotKnown(e)
      BY <1>4, <2>4 DEF PostMarketPhase
    <3> QED BY <3>1 DEF IsKnown, NotKnown
  <2> QED BY <2>1, <2>2, <2>3, <2>4
<1> QED BY <1>1, <1>2, <1>3, <1>4 DEF SignalTypes

\* A commit keeps the evidence of the state that of the round.
LEMMA EvidenceStep ==
    ASSUME LogInv, EvidenceInv, NEW e \in Events, Accepts(e)
    PROVE  EvidenceInv'
<1> DEFINE c == Schedule[e.time]
           x == EntryOf(e)
           u == Entered(state, e, c)
           v == Shown(state, e, c)
           t == ApplySignal(v, e)
           o == SignalOf(e)
<1>1. /\ IsEvent(e) /\ IsState(state) /\ log \in Seq(Entries) /\ x \in Entries
      /\ x.event = e /\ log' = Append(log, x)
      /\ Resets(state, c) <=> Opens(log, x)
      /\ state'.phase = t.phase /\ state'.indicative = t.indicative
  BY AcceptsFacts
<1>2. /\ IsState(u)
      /\ Resets(state, c) => u.phase = Initial /\ u.indicative = Initial
      /\ ~Resets(state, c) => /\ u.phase = state.phase
                              /\ u.indicative = state.indicative \/ u.indicative.tag # "known"
  <2> HIDE DEF c
  <2> QED BY <1>1, EnterSegmentFields DEF Entered, SameOwner, Observable
<1> HIDE DEF u, c, x
<1>3. /\ IsState(v) /\ v.phase = u.phase
      /\ v.indicative = IF e.kind = "Indicative"
                        THEN Known(MergeWithCurrent(u, e.observation), e)
                        ELSE u.indicative
  BY <1>1, <1>2, ApplyPayloadFields DEF Shown, u, SameOwner
<1> HIDE DEF v
<1>4. /\ o.observation \in Observations /\ o.signal.type \in SignalTypes
      /\ o.signal = [type |-> o.signal.type, observation |-> o.signal.observation]
  BY <1>1, SignalOfType
<1>5. /\ o.observation = "none" => t = v
      /\ o.observation \in {"clear", "unknown"} =>
            t.phase.tag # "known" /\ t.indicative = v.indicative
      /\ o.observation = "set" =>
            /\ t.phase = PostMarketPhase(Resolved(v, o.signal), e)
            /\ IF o.signal.type = "Collecting" THEN t.indicative = v.indicative
               ELSE t.indicative.tag # "known"
  BY <1>1, <1>3, ApplySignalFields
<1>6. /\ Resolved(v, o.signal).type = o.signal.type
      /\ o.signal.type = "Collecting" =>
            Resolved(v, o.signal).observation = MergeWithCurrent(v, o.signal.observation)
  BY <1>4, ResolvedFields
<1> HIDE DEF t
<1>7. CASE EndsRound(e)
  <2>1. o.observation = "set" /\ o.signal.type # "Collecting"
    BY <1>7 DEF EndsRound
  <2>2. TrialOk(log', state')
    BY <1>1, <1>5, <2>1 DEF TrialOk, IsKnown
  <2>3. ASSUME IsKnown(t.phase), t.phase.value.type = "Auction", NEW field \in RoundFields
        PROVE  OfThisRound(log', field, t.phase.value.observation[field])
    <3>1. /\ o.signal.type = "Uncross"
          /\ t.phase.value.observation = NextPeriodicRound(Resolved(v, o.signal).observation)
      BY <1>4, <1>5, <1>6, <2>1, <2>3, PhaseAfterSignal
    <3>2. /\ t.phase.value.observation["delayed"] = "false"
          /\ t.phase.value.observation["direction"] = NoObs
      BY <3>1 DEF NextPeriodicRound
    <3>3. OfThisRound(log', "delayed", "false")
      BY <1>1, <1>7, <3>1, EvidenceUncrossed
    <3>4. OfThisRound(log', "direction", NoObs)
      BY DEF OfThisRound
    <3> QED BY <3>2, <3>3, <3>4 DEF RoundFields
  <2> QED BY <1>1, <2>2, <2>3 DEF EvidenceInv, PhaseOk
<1>8. CASE ~EndsRound(e)
  <2>1. ASSUME NEW field, NEW w, ~Resets(state, c), OfThisRound(log, field, w)
        PROVE  OfThisRound(log', field, w)
    BY <1>1, <1>8, <2>1, EvidenceKept
  <2>2. o.observation = "set" =>
            \A field \in RoundFields : OfThisRound(log', field, o.signal.observation[field])
    BY <1>1, <1>8, EvidenceShown
  <2>3. PhaseOk(log', u) /\ TrialOk(log', u)
    <3>1. CASE Resets(state, c)
      BY <1>2, <3>1 DEF PhaseOk, TrialOk, IsKnown, Initial
    <3>2. CASE ~Resets(state, c)
      BY <1>2, <2>1, <3>2 DEF PhaseOk, TrialOk, IsKnown, EvidenceInv
    <3> QED BY <3>1, <3>2
  <2>4. PhaseOk(log', v) /\ TrialOk(log', v)
    <3>1. PhaseOk(log', v)
      BY <1>3, <2>3 DEF PhaseOk
    <3>2. CASE e.kind = "Indicative"
      <4>1. o.observation = "set" /\ o.signal.observation = e.observation
        BY <3>2 DEF SignalOf
      <4>2. \A field \in RoundFields :
                OfThisRound(log', field, MergeWithCurrent(u, e.observation)[field])
        <5> HIDE DEF o
        <5> QED BY <2>2, <2>3, <4>1, MergeOk
      <4>3. v.indicative.value = MergeWithCurrent(u, e.observation)
        BY <1>3, <3>2 DEF Known
      <4> QED BY <3>1, <4>2, <4>3 DEF TrialOk
    <3>3. CASE e.kind # "Indicative"
      BY <1>3, <2>3, <3>1, <3>3 DEF TrialOk
    <3> QED BY <3>2, <3>3
  <2>5. PhaseOk(log', t) /\ TrialOk(log', t)
    <3>1. CASE o.observation = "none"
      BY <1>5, <2>4, <3>1
    <3>2. CASE o.observation \in {"clear", "unknown"}
      BY <1>5, <2>4, <3>2 DEF PhaseOk, TrialOk, IsKnown
    <3>3. CASE o.observation = "set"
      <4>1. o.signal.type = "Collecting"
        BY <1>8, <3>3 DEF EndsRound
      <4>2. TrialOk(log', t)
        BY <1>5, <2>4, <3>3, <4>1 DEF TrialOk
      <4>3. \A field \in RoundFields :
                OfThisRound(log', field, MergeWithCurrent(v, o.signal.observation)[field])
        <5> HIDE DEF o
        <5> QED BY <2>2, <2>4, <3>3, MergeOk
      <4>4. (IsKnown(t.phase) /\ t.phase.value.type = "Auction") =>
                t.phase.value.observation = MergeWithCurrent(v, o.signal.observation)
        BY <1>4, <1>5, <1>6, <3>3, <4>1, PhaseAfterSignal
      <4> QED BY <4>2, <4>3, <4>4 DEF PhaseOk
    <3> QED BY <1>4, <3>1, <3>2, <3>3 DEF Observations
  <2> QED BY <1>1, <2>5 DEF EvidenceInv, PhaseOk, TrialOk
<1> QED BY <1>7, <1>8

\* EvidenceInv is inductive.
LEMMA EvidenceInvStep ==
    ASSUME LogInv, ProposalInv, EvidenceInv, [Next]_vars
    PROVE  EvidenceInv'
<1>1. CASE UNCHANGED <<state, log>>
  BY <1>1, ZenonT(30) DEF EvidenceInv, PhaseOk, TrialOk, OfThisRound, RoundEndOf, StartOf, BoundaryIn
<1> QED BY <1>1, EvidenceStep, StepIsCommit

-----------------------------------------------------------------------------
(* The theorems.                                                           *)

\* The inductive invariant: the state tells of the logged commits, kept
\* proposals of the current version are current, each firm field has its
\* origin in the log, the round's evidence too.
Inv == LogInv /\ ProposalInv /\ FirmInv /\ VolumeInv /\ EvidenceInv

\* Nothing is committed in the initial state.
LEMMA InvInit ==
    ASSUME Init
    PROVE  Inv
<1>1. /\ state = NewState(Instrument, Date) /\ IsState(state) /\ log = <<>> /\ log \in Seq(Entries)
      /\ Len(log) = 0 /\ proposals = {}
  BY NewStateIsState DEF Init
<1>2. /\ state.version = 0 /\ state.book = Initial /\ state.trade = Initial
      /\ state.volume = Initial /\ state.phase = Initial /\ state.indicative = Initial
      /\ Initial.tag = "initial"
  BY <1>1 DEF NewState, Initial
<1>3. LogInv /\ ProposalInv
  BY <1>1, <1>2 DEF LogInv, ProposalInv
<1>4. \A field \in Firm : ShownIn(log, field) = {} /\ state[field] = Initial
  <2>1. StartOf(log) = 1
    BY <1>1, StartOfProps
  <2>2. \A field \in Firm : ShownIn(log, field) = {}
    BY <1>1, <2>1 DEF ShownIn
  <2> QED BY <1>2, <2>2 DEF Firm
<1>5. FirmInv /\ VolumeInv /\ EvidenceInv
  BY <1>2, <1>4 DEF FirmInv, ComesFrom, VolumeInv, EvidenceInv, PhaseOk, TrialOk, IsKnown
<1> QED BY <1>3, <1>5 DEF Inv

\* Inv is an invariant.
LEMMA InvHolds == Spec => []Inv
<1>1. Inv /\ [Next]_vars => Inv'
  BY LogInvStep, ProposalInvStep, FirmInvStep, EvidenceInvStep DEF Inv
<1> QED BY InvInit, <1>1, PTL DEF Spec

\* Whatever proposals are kept and committed in whatever order, commits are
\* serial (the staleness check of MarketStateReducer::commit).
THEOREM CommitsAreSerial == Spec => []NoLostUpdate
<1>1. Inv => NoLostUpdate
  BY DEF Inv, LogInv, NoLostUpdate
<1> QED BY <1>1, InvHolds, PTL

\* A firm field always shows the last observation of its segment.
THEOREM FirmFieldsTraced == Spec => []FirmFieldsComeFromLastObservation
<1>1. Inv => FirmFieldsComeFromLastObservation
  BY DEF Inv, FirmInv, ComesFrom, ShownIn, Firm, FirmFieldsComeFromLastObservation,
         SegmentStart, StartOf, Boundary, BoundaryIn
<1> QED BY <1>1, InvHolds, PTL

\* Under the non-decreasing policy the volume of a segment never falls.
THEOREM VolumeMonotone ==
    ASSUME VolumePolicy # "Unconstrained"
    PROVE  Spec => []VolumeNeverFallsWithinSegment
<1>1. Init => VolumeNeverFallsWithinSegment
  BY DEF Init, VolumeNeverFallsWithinSegment
<1>2. Inv /\ VolumeNeverFallsWithinSegment /\ [Next]_vars => VolumeNeverFallsWithinSegment'
  BY VolumeRunStep DEF Inv
<1> QED BY <1>1, <1>2, InvHolds, PTL DEF Spec

\* The evidence of an auction round never leaks into the next one.
THEOREM EvidenceStaysInItsRound == Spec => []EvidenceIsOfThisRound
<1>1. Inv => EvidenceIsOfThisRound
  <2> SUFFICES ASSUME Inv, NEW o \in CurrentAuction(state), NEW field \in RoundFields
               PROVE  \/ o[field] = NoObs
                      \/ ObservedInRound(field, o[field])
                      \/ /\ field = "delayed" /\ o[field] = "false"
                         /\ RoundEnd >= SegmentStart
                         /\ SignalOf(log[RoundEnd].event).signal.type = "Uncross"
    BY DEF EvidenceIsOfThisRound, RoundFields
  <2>1. SegmentStart = StartOf(log) /\ RoundEnd = RoundEndOf(log)
    BY DEF SegmentStart, StartOf, Boundary, BoundaryIn, RoundEnd, RoundEndOf
  <2>2. OfThisRound(log, field, o[field])
    BY DEF Inv, EvidenceInv, PhaseOk, TrialOk, CurrentAuction
  <2> QED BY <2>1, <2>2 DEF OfThisRound, ObservedInRound
<1> QED BY <1>1, InvHolds, PTL
=============================================================================
