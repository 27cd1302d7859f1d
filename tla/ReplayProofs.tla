---------------------------- MODULE ReplayProofs ----------------------------
(***************************************************************************)
(* Proofs about the replay core for every plan, universe and schedule: the *)
(* committed events are in global order and the reducer's own order checks *)
(* never disagree with it, each state holds the events of its instrument   *)
(* and trading date, and the visible core is a past of the committed one.  *)
(* The merge implements the safety part of OrderedReplay.                  *)
(***************************************************************************)
EXTENDS Replay, MarketReducerProofs, SequenceTheorems, FiniteSetTheorems

-----------------------------------------------------------------------------
(* The order of events.                                                    *)

\* An event that a head can hold: read without error, with an ordering key.
IsHead(e) ==
    /\ IsEvent(e) /\ e.instrument \in Nat /\ e.date \in Nat
    /\ ShapeError(e) = NoError

\* The order written out, component by component.
KeyLess(a1, a2, a3, a4, a5, a6, a7, b1, b2, b3, b4, b5, b6, b7) ==
    \/ a1 < b1
    \/ a1 = b1 /\ a2 < b2
    \/ a1 = b1 /\ a2 = b2 /\ a3 < b3
    \/ a1 = b1 /\ a2 = b2 /\ a3 = b3 /\ a4 < b4
    \/ a1 = b1 /\ a2 = b2 /\ a3 = b3 /\ a4 = b4 /\ a5 < b5
    \/ a1 = b1 /\ a2 = b2 /\ a3 = b3 /\ a4 = b4 /\ a5 = b5 /\ a6 < b6
    \/ a1 = b1 /\ a2 = b2 /\ a3 = b3 /\ a4 = b4 /\ a5 = b5 /\ a6 = b6 /\ a7 < b7

\* LexLess on seven components is KeyLess.
LEMMA LexSeven ==
    ASSUME NEW a1, NEW a2, NEW a3, NEW a4, NEW a5, NEW a6, NEW a7,
           NEW b1, NEW b2, NEW b3, NEW b4, NEW b5, NEW b6, NEW b7
    PROVE  LexLess(<<a1, a2, a3, a4, a5, a6, a7>>, <<b1, b2, b3, b4, b5, b6, b7>>)
             <=> KeyLess(a1, a2, a3, a4, a5, a6, a7, b1, b2, b3, b4, b5, b6, b7)
<1> DEFINE a == <<a1, a2, a3, a4, a5, a6, a7>>
           b == <<b1, b2, b3, b4, b5, b6, b7>>
           At(n) == a[n] < b[n] /\ \A m \in 1..(n - 1) : a[m] = b[m]
<1>1. LexLess(a, b) <=> At(1) \/ At(2) \/ At(3) \/ At(4) \/ At(5) \/ At(6) \/ At(7)
  <2>1. Len(a) = 7
    OBVIOUS
  <2>2. \A n \in 1..7 : n = 1 \/ n = 2 \/ n = 3 \/ n = 4 \/ n = 5 \/ n = 6 \/ n = 7
    OBVIOUS
  <2> HIDE DEF a, b
  <2>3. LexLess(a, b) <=> \E n \in 1..7 : At(n)
    BY <2>1 DEF LexLess
  <2> HIDE DEF At
  <2> QED BY <2>2, <2>3
<1>2. /\ a[1] = a1 /\ a[2] = a2 /\ a[3] = a3 /\ a[4] = a4 /\ a[5] = a5 /\ a[6] = a6 /\ a[7] = a7
      /\ b[1] = b1 /\ b[2] = b2 /\ b[3] = b3 /\ b[4] = b4 /\ b[5] = b5 /\ b[6] = b6 /\ b[7] = b7
  OBVIOUS
<1> HIDE DEF a, b
<1>3. /\ At(1) <=> a1 < b1
      /\ At(2) <=> a1 = b1 /\ a2 < b2
      /\ At(3) <=> a1 = b1 /\ a2 = b2 /\ a3 < b3
  BY <1>2
<1>4. At(4) <=> a1 = b1 /\ a2 = b2 /\ a3 = b3 /\ a4 < b4
  BY <1>2
<1>5. At(5) <=> a1 = b1 /\ a2 = b2 /\ a3 = b3 /\ a4 = b4 /\ a5 < b5
  BY <1>2
<1>6. At(6) <=> a1 = b1 /\ a2 = b2 /\ a3 = b3 /\ a4 = b4 /\ a5 = b5 /\ a6 < b6
  BY <1>2
<1>7. At(7) <=> a1 = b1 /\ a2 = b2 /\ a3 = b3 /\ a4 = b4 /\ a5 = b5 /\ a6 = b6 /\ a7 < b7
  BY <1>2
<1> HIDE DEF At
<1> QED BY <1>1, <1>3, <1>4, <1>5, <1>6, <1>7 DEF KeyLess, a, b

\* The components of a head's key are naturals.
LEMMA KeyTypes ==
    ASSUME NEW e, IsHead(e)
    PROVE  /\ e.time \in Nat \ {0} /\ e.instrument \in Nat /\ e.format \in Nat
           /\ SourcePhaseRank(e) \in Nat /\ KindRank(e.kind) \in Nat
           /\ e.sequence \in Nat /\ e.fp \in Nat
BY DEF IsHead, IsEvent, SourcePhaseRank, KindRank, Kinds

BeforeKey(e, f) ==
    KeyLess(e.time, e.instrument, e.format, SourcePhaseRank(e), KindRank(e.kind), e.sequence, e.fp,
            f.time, f.instrument, f.format, SourcePhaseRank(f), KindRank(f.kind), f.sequence, f.fp)

\* Before is the order by the seven components.
LEMMA BeforeIsKeyLess ==
    ASSUME NEW e, NEW f
    PROVE  Before(e, f) <=> BeforeKey(e, f)
BY LexSeven DEF Before, OrderingKey, BeforeKey

\* Not before is transitive, and the order is asymmetric and follows time.
LEMMA OrderFacts ==
    ASSUME NEW e, NEW f, NEW g, IsHead(e), IsHead(f), IsHead(g)
    PROVE  /\ ~Before(e, e)
           /\ Before(e, f) => ~Before(f, e)
           /\ ~Before(f, e) => e.time <= f.time
           /\ (~Before(f, e) /\ ~Before(g, f)) => ~Before(g, e)
<1>1. /\ e.time \in Nat /\ e.instrument \in Nat /\ e.format \in Nat
      /\ SourcePhaseRank(e) \in Nat /\ KindRank(e.kind) \in Nat
      /\ e.sequence \in Nat /\ e.fp \in Nat
  BY KeyTypes
<1>2. /\ f.time \in Nat /\ f.instrument \in Nat /\ f.format \in Nat
      /\ SourcePhaseRank(f) \in Nat /\ KindRank(f.kind) \in Nat
      /\ f.sequence \in Nat /\ f.fp \in Nat
  BY KeyTypes
<1>3. /\ g.time \in Nat /\ g.instrument \in Nat /\ g.format \in Nat
      /\ SourcePhaseRank(g) \in Nat /\ KindRank(g.kind) \in Nat
      /\ g.sequence \in Nat /\ g.fp \in Nat
  BY KeyTypes
<1>4. ~BeforeKey(e, e)
  BY <1>1 DEF BeforeKey, KeyLess
<1>5. BeforeKey(e, f) => ~BeforeKey(f, e)
  BY <1>1, <1>2 DEF BeforeKey, KeyLess
<1>6. ~BeforeKey(f, e) => e.time <= f.time
  BY <1>1, <1>2 DEF BeforeKey, KeyLess
<1>7. (~BeforeKey(f, e) /\ ~BeforeKey(g, f)) => ~BeforeKey(g, e)
  BY <1>1, <1>2, <1>3 DEF BeforeKey, KeyLess
<1> QED BY <1>4, <1>5, <1>6, <1>7, BeforeIsKeyLess

\* compare_within_instrument of the reducer never finds a regression between
\* two events of one instrument that validate_global_order finds in order.
LEMMA ReducerOrderAgrees ==
    ASSUME NEW e, NEW f, IsHead(e), IsHead(f), e.instrument = f.instrument, ~Before(f, e)
    PROVE  ~LexLess(InstrumentKey(f), InstrumentKey(e))
<1>1. /\ e.time \in Nat /\ e.instrument \in Nat /\ e.format \in Nat
      /\ SourcePhaseRank(e) \in Nat /\ KindRank(e.kind) \in Nat
      /\ e.sequence \in Nat /\ e.fp \in Nat
  BY KeyTypes
<1>2. /\ f.time \in Nat /\ f.instrument \in Nat /\ f.format \in Nat
      /\ SourcePhaseRank(f) \in Nat /\ KindRank(f.kind) \in Nat
      /\ f.sequence \in Nat /\ f.fp \in Nat
  BY KeyTypes
<1>3. SourcePhase(e) = SourcePhaseRank(e) /\ SourcePhase(f) = SourcePhaseRank(f)
  BY DEF SourcePhase, SourcePhaseRank, IsHead, IsEvent, ShapeError, NoError, Kinds
<1> DEFINE a == InstrumentKey(f)
           b == InstrumentKey(e)
<1>4. /\ Len(a) = 6
      /\ a[1] = f.time /\ a[2] = f.format /\ a[3] = SourcePhaseRank(f)
      /\ a[4] = KindRank(f.kind) /\ a[5] = f.sequence /\ a[6] = f.fp
  BY <1>3 DEF InstrumentKey
<1>5. /\ b[1] = e.time /\ b[2] = e.format /\ b[3] = SourcePhaseRank(e)
      /\ b[4] = KindRank(e.kind) /\ b[5] = e.sequence /\ b[6] = e.fp
  BY <1>3 DEF InstrumentKey
<1>6. ~BeforeKey(f, e)
  BY BeforeIsKeyLess
<1> HIDE DEF a, b
<1>7. SUFFICES ASSUME NEW n \in 1..6, a[n] < b[n], \A m \in 1..(n - 1) : a[m] = b[m]
               PROVE  FALSE
  BY <1>4 DEF LexLess, a, b
<1>8. CASE n = 1
  BY <1>1, <1>2, <1>4, <1>5, <1>6, <1>7, <1>8 DEF BeforeKey, KeyLess
<1>9. CASE n = 2
  BY <1>1, <1>2, <1>4, <1>5, <1>6, <1>7, <1>9 DEF BeforeKey, KeyLess
<1>10. CASE n = 3
  BY <1>1, <1>2, <1>4, <1>5, <1>6, <1>7, <1>10 DEF BeforeKey, KeyLess
<1>11. CASE n = 4
  BY <1>1, <1>2, <1>4, <1>5, <1>6, <1>7, <1>11 DEF BeforeKey, KeyLess
<1>12. CASE n = 5
  BY <1>1, <1>2, <1>4, <1>5, <1>6, <1>7, <1>12 DEF BeforeKey, KeyLess
<1>13. CASE n = 6
  BY <1>1, <1>2, <1>4, <1>5, <1>6, <1>7, <1>13 DEF BeforeKey, KeyLess
<1> QED BY <1>8, <1>9, <1>10, <1>11, <1>12, <1>13

-----------------------------------------------------------------------------
(* The core.                                                               *)

\* The committed events of an instrument and a trading date.
Own(d, i, date) == {n \in DOMAIN d : d[n].instrument = i /\ d[n].date = date}

\* An accepted event lies in a context of its trading date.
Scheduled(i, e) ==
    IF i \in DOMAIN Windows
    THEN \E w \in Windows[i] : w.start <= e.time /\ e.time < w.end /\ w.context.date = e.date
    ELSE e.date = InitialDate[i]

\* State s holds the events that digest d has of instrument i.
OwnInv(d, i, s) ==
    /\ IsState(s) /\ s.instrument = i
    /\ s.version = Cardinality(Own(d, i, s.date))
    /\ Own(d, i, s.date) = {} => /\ s.last = NoEvent
                                 /\ \A n \in DOMAIN d : d[n].instrument # i
    /\ Own(d, i, s.date) # {} => s.last = d[Max(Own(d, i, s.date))]
    /\ \A n \in DOMAIN d : d[n].instrument = i => d[n].date <= s.date /\ Scheduled(i, d[n])

DigestInv(d) ==
    /\ d \in Seq(Items)
    /\ \A n \in DOMAIN d : IsHead(d[n])
    /\ \A m, n \in DOMAIN d : m < n => ~Before(d[n], d[m])

CoreInv(c) ==
    /\ DigestInv(c.digest)
    /\ c.ordinal = Len(c.digest)
    /\ c.states = [i \in Universe |-> c.states[i]]
    /\ \A i \in Universe : OwnInv(c.digest, i, c.states[i])

\* What appending an event leaves of a digest.
LEMMA DigestAppend ==
    ASSUME NEW d, d \in Seq(Items), NEW e \in Items
    PROVE  LET k == Append(d, e)
           IN  /\ k \in Seq(Items) /\ Len(d) \in Nat /\ Len(k) = Len(d) + 1
               /\ DOMAIN k = 1..(Len(d) + 1) /\ DOMAIN d = 1..Len(d)
               /\ \A n \in 1..Len(d) : k[n] = d[n]
               /\ k[Len(d) + 1] = e
               /\ k # <<>>
BY AppendProperties, LenProperties

\* A committed event is not before any event committed earlier.
LEMMA AfterAll ==
    ASSUME NEW d, DigestInv(d), NEW e, IsHead(e), d # <<>> => ~Before(e, d[Len(d)])
    PROVE  \A n \in DOMAIN d : ~Before(e, d[n])
<1>1. Len(d) \in Nat /\ DOMAIN d = 1..Len(d)
  BY LenProperties DEF DigestInv
<1> SUFFICES ASSUME NEW n \in DOMAIN d PROVE ~Before(e, d[n])
  OBVIOUS
<1>2. Len(d) \in DOMAIN d /\ d # <<>>
  BY <1>1
<1>3. n = Len(d) \/ ~Before(d[Len(d)], d[n])
  BY <1>1, <1>2 DEF DigestInv
<1> QED BY <1>2, <1>3, OrderFacts DEF DigestInv

\* The digest stays in order.
LEMMA DigestStep ==
    ASSUME NEW d, DigestInv(d), NEW e \in Items, IsHead(e), d # <<>> => ~Before(e, d[Len(d)])
    PROVE  DigestInv(Append(d, e))
<1> DEFINE k == Append(d, e)
<1>1. /\ k \in Seq(Items) /\ Len(d) \in Nat
      /\ DOMAIN k = 1..(Len(d) + 1) /\ DOMAIN d = 1..Len(d)
      /\ \A n \in 1..Len(d) : k[n] = d[n]
      /\ k[Len(d) + 1] = e
  BY DigestAppend DEF DigestInv
<1>2. \A n \in DOMAIN d : ~Before(e, d[n])
  BY AfterAll
<1> HIDE DEF k
<1>3. \A n \in DOMAIN k : IsHead(k[n])
  BY <1>1 DEF DigestInv
<1>4. \A m, n \in DOMAIN k : m < n => ~Before(k[n], k[m])
  BY <1>1, <1>2 DEF DigestInv
<1> QED BY <1>1, <1>3, <1>4 DEF DigestInv, k

\* Events of an instrument come from windows in the order of their dates.
LEMMA DatesFollowTime ==
    ASSUME NEW i \in Universe, NEW e, NEW f, IsHead(e), IsHead(f),
           Scheduled(i, e), Scheduled(i, f), e.time <= f.time
    PROVE  e.date <= f.date
<1>1. e.time \in Nat /\ f.time \in Nat /\ e.date \in Nat /\ f.date \in Nat
  BY DEF IsHead, IsEvent
<1>2. CASE i \notin DOMAIN Windows
  BY <1>1, <1>2 DEF Scheduled
<1>3. CASE i \in DOMAIN Windows
  <2>1. PICK v \in Windows[i] : v.start <= e.time /\ e.time < v.end /\ v.context.date = e.date
    BY <1>3 DEF Scheduled
  <2>2. PICK w \in Windows[i] : w.start <= f.time /\ f.time < w.end /\ w.context.date = f.date
    BY <1>3 DEF Scheduled
  <2>3. /\ v.start \in Nat /\ v.end \in Nat /\ w.start \in Nat /\ w.end \in Nat
        /\ v # w => v.end <= w.start \/ w.end <= v.start
        /\ v.start < w.start => v.context.date <= w.context.date
    BY <1>3, WindowsAssumption
  <2>4. CASE v = w
    BY <1>1, <2>1, <2>2, <2>4
  <2>5. CASE v # w
    <3>1. v.start < w.start
      BY <1>1, <2>1, <2>2, <2>3, <2>5
    <3> QED BY <2>1, <2>2, <2>3, <3>1
  <2> QED BY <2>4, <2>5
<1> QED BY <1>2, <1>3

\* The events of an instrument and a date, with one more event.
LEMMA OwnAppend ==
    ASSUME NEW d, d \in Seq(Items), NEW e \in Items, NEW i, NEW date
    PROVE  Own(Append(d, e), i, date) =
             Own(d, i, date) \cup (IF e.instrument = i /\ e.date = date THEN {Len(d) + 1} ELSE {})
<1> DEFINE k == Append(d, e)
<1>1. /\ Len(d) \in Nat /\ DOMAIN k = 1..(Len(d) + 1) /\ DOMAIN d = 1..Len(d)
      /\ \A n \in 1..Len(d) : k[n] = d[n]
      /\ k[Len(d) + 1] = e
  BY DigestAppend
<1> HIDE DEF k
<1>2. Own(k, i, date) =
        Own(d, i, date) \cup (IF e.instrument = i /\ e.date = date THEN {Len(d) + 1} ELSE {})
  BY <1>1 DEF Own
<1> QED BY <1>2 DEF k

\* The own events are finitely many positions of the digest.
LEMMA OwnFinite ==
    ASSUME NEW d, d \in Seq(Items), NEW i, NEW date
    PROVE  /\ IsFiniteSet(Own(d, i, date)) /\ Own(d, i, date) \in SUBSET (1..Len(d))
           /\ Len(d) \in Nat
           /\ Own(d, i, date) # {} => Max(Own(d, i, date)) \in Own(d, i, date)
<1>1. Len(d) \in Nat /\ DOMAIN d = 1..Len(d)
  BY LenProperties
<1>2. Own(d, i, date) \in SUBSET (1..Len(d))
  BY <1>1 DEF Own
<1>3. IsFiniteSet(1..Len(d))
  BY <1>1, FS_Interval
<1>4. IsFiniteSet(Own(d, i, date))
  BY <1>2, <1>3, FS_Subset
<1>5. Own(d, i, date) \in SUBSET Nat /\ \A n \in Own(d, i, date) : n <= Len(d)
  BY <1>1, <1>2
<1>6. Own(d, i, date) # {} => Max(Own(d, i, date)) \in Own(d, i, date)
  BY <1>1, <1>5, MaxOfBounded
<1> QED BY <1>1, <1>2, <1>4, <1>6

\* An event of another instrument leaves a state's account of its own events.
LEMMA OwnOther ==
    ASSUME NEW d, d \in Seq(Items), NEW e \in Items, NEW i, NEW s, OwnInv(d, i, s),
           e.instrument # i
    PROVE  OwnInv(Append(d, e), i, s)
<1> DEFINE k == Append(d, e)
           A == Own(d, i, s.date)
<1>1. /\ Len(d) \in Nat /\ DOMAIN k = 1..(Len(d) + 1) /\ DOMAIN d = 1..Len(d)
      /\ \A n \in 1..Len(d) : k[n] = d[n]
      /\ k[Len(d) + 1] = e
  BY DigestAppend
<1>2. Own(k, i, s.date) = A
  <2>1. Own(k, i, s.date) =
          A \cup (IF e.instrument = i /\ e.date = s.date THEN {Len(d) + 1} ELSE {})
    BY OwnAppend
  <2> HIDE DEF k, A
  <2> QED BY <2>1
<1>3. A # {} => Max(A) \in 1..Len(d)
  BY OwnFinite
<1> HIDE DEF k, A
<1>4. A # {} => s.last = k[Max(A)]
  BY <1>1, <1>3 DEF OwnInv, A
<1>5. /\ IsState(s) /\ s.instrument = i /\ s.version = Cardinality(A)
      /\ A = {} => s.last = NoEvent /\ \A n \in DOMAIN d : d[n].instrument # i
      /\ \A n \in DOMAIN d : d[n].instrument = i => d[n].date <= s.date /\ Scheduled(i, d[n])
  BY DEF OwnInv, A
<1>6. \A n \in DOMAIN k : k[n].instrument = i => k[n].date <= s.date /\ Scheduled(i, k[n])
  BY <1>1, <1>5
<1>7. A = {} => s.last = NoEvent /\ \A n \in DOMAIN k : k[n].instrument # i
  BY <1>1, <1>5
<1>8. OwnInv(k, i, s)
  BY <1>2, <1>4, <1>5, <1>6, <1>7 DEF OwnInv
<1> QED BY <1>8 DEF k

\* The state that an accepted event of the instrument advances, and what it
\* is advanced to.
LEMMA OwnSame ==
    ASSUME NEW d, DigestInv(d), NEW e \in Items, IsHead(e), NEW i \in Universe, NEW s,
           OwnInv(d, i, s), e.instrument = i, Scheduled(i, e),
           \A n \in DOMAIN d : ~Before(e, d[n]),
           NEW r, IsState(r), r.instrument = i, r.date = e.date, r.last = e,
           r.version = IF s.date = e.date THEN s.version + 1 ELSE 1
    PROVE  OwnInv(Append(d, e), i, r)
<1> DEFINE k == Append(d, e)
           N == Len(d)
           A == Own(d, i, e.date)
           B == Own(k, i, e.date)
<1>0. d \in Seq(Items) /\ \A n \in DOMAIN d : IsHead(d[n])
  BY DEF DigestInv
<1>1. /\ N \in Nat /\ DOMAIN k = 1..(N + 1) /\ DOMAIN d = 1..N
      /\ \A n \in 1..N : k[n] = d[n]
      /\ k[N + 1] = e
  BY <1>0, DigestAppend
<1>2. B = A \cup {N + 1}
  BY <1>0, OwnAppend
<1>3. IsFiniteSet(A) /\ A \in SUBSET (1..N)
  BY <1>0, OwnFinite
<1>4. N + 1 \notin A /\ B # {} /\ B \in SUBSET Int /\ N + 1 \in B /\ \A n \in B : n <= N + 1
  BY <1>1, <1>2, <1>3
<1> HIDE DEF k, N, A, B
<1>5. Cardinality(B) = Cardinality(A) + 1
  BY <1>2, <1>3, <1>4, FS_AddElement
<1>6. Max(B) = N + 1
  BY <1>4, MaxIs
<1>7. e.date \in Nat /\ \A n \in DOMAIN d : d[n].date \in Nat /\ d[n].time <= e.time
  BY <1>0, OrderFacts DEF IsHead
<1>8. ASSUME NEW n \in DOMAIN d, d[n].instrument = i
      PROVE  d[n].date <= e.date /\ Scheduled(i, d[n])
  <2>1. Scheduled(i, d[n])
    BY <1>8 DEF OwnInv
  <2> QED BY <1>0, <1>7, <2>1, DatesFollowTime
<1>9. r.version = Cardinality(B)
  <2>1. CASE s.date = e.date
    <3>1. s.version = Cardinality(A)
      BY <2>1 DEF OwnInv, A
    <3> QED BY <1>5, <2>1, <3>1
  <2>2. CASE s.date # e.date
    <3>1. ASSUME NEW n \in A PROVE FALSE
      <4>1. n \in DOMAIN d /\ d[n].instrument = i /\ d[n].date = e.date
        BY <3>1 DEF A, Own
      <4>2. Own(d, i, s.date) # {} /\ d[n].date <= s.date
        BY <4>1 DEF OwnInv
      <4>3. PICK m \in DOMAIN d : d[m].instrument = i /\ d[m].date = s.date
        BY <4>2 DEF Own
      <4>4. s.date <= e.date /\ s.date \in Nat
        BY <1>7, <1>8, <4>3
      <4> QED BY <1>7, <2>2, <4>1, <4>2, <4>4
    <3>2. A = {}
      BY <3>1
    <3> QED BY <1>5, <2>2, <3>2, FS_EmptySet
  <2> QED BY <2>1, <2>2
<1>10. r.last = k[Max(B)]
  BY <1>1, <1>6
<1>11. \A n \in DOMAIN k : k[n].instrument = i => k[n].date <= r.date /\ Scheduled(i, k[n])
  BY <1>1, <1>7, <1>8
<1>12. B = Own(k, i, r.date)
  BY DEF B
<1>13. OwnInv(k, i, r)
  BY <1>4, <1>9, <1>10, <1>11, <1>12 DEF OwnInv
<1> QED BY <1>13 DEF k

-----------------------------------------------------------------------------
(* apply_prepared_ordered.                                                 *)

ContextOf(e) == CHOOSE x \in ContextsFor(e.instrument, e.time) : TRUE

\* A new core holds nothing.
LEMMA NewCoreInv == CoreInv(NewCore)
<1> DEFINE c == NewCore
<1>1. /\ c.digest = <<>> /\ c.ordinal = 0
      /\ c.states = [i \in Universe |-> NewState(i, InitialDate[i])]
  BY DEF NewCore
<1> HIDE DEF c
<1>2. c.digest \in Seq(Items) /\ DOMAIN c.digest = {} /\ Len(c.digest) = 0
  BY <1>1
<1>3. DigestInv(c.digest) /\ c.ordinal = Len(c.digest)
  BY <1>1, <1>2 DEF DigestInv
<1>4. ASSUME NEW i \in Universe
      PROVE  OwnInv(c.digest, i, c.states[i])
  <2> DEFINE s == c.states[i]
  <2>1. s = NewState(i, InitialDate[i])
    BY <1>1
  <2>2. IsState(s) /\ s.instrument = i /\ s.version = 0 /\ s.last = NoEvent
    BY <2>1, NewStateIsState DEF NewState
  <2>3. Own(c.digest, i, s.date) = {}
    BY <1>2 DEF Own
  <2> HIDE DEF s
  <2>4. OwnInv(c.digest, i, s)
    BY <1>2, <2>2, <2>3, FS_EmptySet DEF OwnInv
  <2> QED BY <2>4 DEF s
<1> QED BY <1>1, <1>3, <1>4 DEF CoreInv, c

\* An accepted event advances the core, and the core stays sound.
LEMMA ApplyAccepted ==
    ASSUME NEW c, CoreInv(c), NEW e \in Items, IsHead(e), ApplyOrdered(c, e).error = NoError
    PROVE  LET r == ApplyOrdered(c, e)
           IN  /\ CoreInv(r.core)
               /\ r.core.digest = Append(c.digest, e)
               /\ r = [error |-> NoError, core |-> r.core]
               /\ c.digest # <<>> => ~Before(e, LastEvent(c))
<1> DEFINE i == e.instrument
           d == c.digest
           s == StateFor(c, e)
           x == ContextOf(e)
           p == Propose(s, e, x)
           r == ApplyOrdered(c, e)
           next == [states |-> [c.states EXCEPT ![i] = p.next],
                    ordinal |-> c.ordinal + 1, time |-> e.time,
                    first |-> IF d = <<>> THEN e.time ELSE c.first,
                    digest |-> Append(d, e)]
           failure == IF GlobalOrderError(c, e) # NoError THEN GlobalOrderError(c, e)
                      ELSE IF ~(i \in Universe) THEN "InstrumentOutsideUniverse"
                      ELSE IF ContextsFor(i, e.time) = {} THEN "EventOutsideContextSchedule"
                      ELSE p.error
<1>1. r = IF failure # NoError THEN [error |-> failure, core |-> c]
          ELSE [error |-> NoError, core |-> next]
  BY DEF ApplyOrdered, ContextOf
<1> HIDE DEF next, failure, p, s, x
<1>2. failure = NoError /\ r = [error |-> NoError, core |-> next]
  BY <1>1
<1>3. /\ GlobalOrderError(c, e) = NoError /\ i \in Universe
      /\ ContextsFor(i, e.time) # {} /\ p.error = NoError
  BY <1>2 DEF failure, NoError
<1>4. d # <<>> => ~Before(e, LastEvent(c))
  BY <1>3 DEF GlobalOrderError, NoError
<1>5. /\ DigestInv(d) /\ d \in Seq(Items) /\ IsEvent(e)
      /\ OwnInv(d, i, c.states[i])
  BY <1>3 DEF CoreInv, DigestInv, IsHead
<1>6. /\ s = IF c.states[i].date = e.date THEN c.states[i] ELSE NewState(i, e.date)
  BY DEF s, StateFor
<1>7. IsState(s) /\ s.instrument = i /\ s.date = e.date
  BY <1>5, <1>6, NewStateIsState DEF OwnInv, NewState
<1>8. s.version = IF c.states[i].date = e.date THEN c.states[i].version ELSE 0
  BY <1>6 DEF NewState
<1>9. /\ IsState(p.next) /\ p.next.instrument = s.instrument /\ p.next.date = s.date
      /\ p.next.last = e /\ p.next.version = s.version + 1
      /\ EnvelopeError(s, e, x) = NoError
  BY <1>3, <1>5, <1>7, ProposeAccepted DEF p
<1>10. e.date = x.date
  BY <1>9 DEF EnvelopeError, NoError
<1>11. Scheduled(i, e)
  <2>1. x \in ContextsFor(i, e.time)
    BY <1>3 DEF x, ContextOf
  <2>2. CASE i \in DOMAIN Windows
    <3>1. PICK w \in Windows[i] : w.start <= e.time /\ e.time < w.end /\ x = w.context
      BY <2>1, <2>2 DEF ContextsFor
    <3> QED BY <1>10, <2>2, <3>1 DEF Scheduled
  <2>3. CASE i \notin DOMAIN Windows
    <3>1. x = DefaultContext[i]
      BY <2>1, <2>3 DEF ContextsFor
    <3> QED BY <1>3, <1>10, <2>3, <3>1, WindowsAssumption DEF Scheduled
  <2> QED BY <2>2, <2>3
<1>12. \A n \in DOMAIN d : ~Before(e, d[n])
  BY <1>4, <1>5, AfterAll DEF LastEvent
<1>13. /\ next.digest = Append(d, e) /\ next.ordinal = c.ordinal + 1
       /\ next.states = [c.states EXCEPT ![i] = p.next]
  BY DEF next
<1>14. DigestInv(Append(d, e))
  BY <1>4, <1>5, DigestStep DEF LastEvent
<1>15. Len(Append(d, e)) = Len(d) + 1
  BY <1>5, DigestAppend
<1>16. /\ next.states = [j \in Universe |-> next.states[j]]
       /\ next.states[i] = p.next
       /\ \A j \in Universe : j # i => next.states[j] = c.states[j]
  <2>1. c.states = [j \in Universe |-> c.states[j]]
    BY DEF CoreInv
  <2> QED BY <1>3, <1>13, <2>1
<1>17. OwnInv(Append(d, e), i, p.next)
  <2>1. p.next.version = IF c.states[i].date = e.date THEN c.states[i].version + 1 ELSE 1
    BY <1>8, <1>9
  <2>2. /\ IsState(p.next) /\ p.next.instrument = i /\ p.next.date = e.date /\ p.next.last = e
    BY <1>7, <1>9
  <2> QED BY <1>3, <1>5, <1>11, <1>12, <2>1, <2>2, OwnSame
<1>18. \A j \in Universe : j # i => OwnInv(Append(d, e), j, c.states[j])
  BY <1>5, OwnOther DEF CoreInv
<1>19. \A j \in Universe : OwnInv(next.digest, j, next.states[j])
  BY <1>13, <1>16, <1>17, <1>18
<1>20. CoreInv(next)
  BY <1>13, <1>14, <1>15, <1>16, <1>19 DEF CoreInv
<1> QED BY <1>2, <1>4, <1>13, <1>20

\* The errors that only a disagreement of the order checks could cause.
Disagreements == {"OrderingRegression", "MatchTimeRegression", "InstrumentMismatch",
                  "InvalidRealtimeShape"}

\* The first error is one of the errors.
LEMMA FirstErrorIn ==
    ASSUME NEW a, NEW b, NEW c, NEW d, NEW f
    PROVE  FirstError(<<a, b, c, d, f>>) \in {a, b, c, d, f, NoError}
<1> DEFINE errors == <<a, b, c, d, f>>
           at == {n \in 1..Len(errors) : errors[n] # NoError}
           first == CHOOSE n \in at : \A m \in at : n <= m
<1>1. CASE at = {}
  BY <1>1 DEF FirstError
<1>2. CASE at # {}
  <2>1. at \in SUBSET Nat
    OBVIOUS
  <2>2. first \in at
    BY <1>2, <2>1, LeastMember
  <2>3. FirstError(errors) = errors[first]
    BY <1>2 DEF FirstError
  <2>4. \A n \in at : errors[n] \in {a, b, c, d, f}
    OBVIOUS
  <2> HIDE DEF first
  <2> QED BY <2>2, <2>3, <2>4
<1> QED BY <1>1, <1>2

\* A refused event leaves the core, and no refusal is a disagreement.
LEMMA ApplyRefused ==
    ASSUME NEW c, CoreInv(c), NEW e \in Items, IsHead(e), ApplyOrdered(c, e).error # NoError
    PROVE  LET r == ApplyOrdered(c, e)
           IN  /\ r.core = c
               /\ r.error \notin Disagreements
               /\ r.error # "VisibleOccurrenceDiffers"
               /\ r.error = "GlobalOrderingRegression" =>
                    c.digest # <<>> /\ Before(e, LastEvent(c))
<1> DEFINE i == e.instrument
           d == c.digest
           s == StateFor(c, e)
           x == ContextOf(e)
           p == Propose(s, e, x)
           r == ApplyOrdered(c, e)
           failure == IF GlobalOrderError(c, e) # NoError THEN GlobalOrderError(c, e)
                      ELSE IF ~(i \in Universe) THEN "InstrumentOutsideUniverse"
                      ELSE IF ContextsFor(i, e.time) = {} THEN "EventOutsideContextSchedule"
                      ELSE p.error
<1>1. r.error = failure /\ (failure # NoError => r.core = c)
  BY DEF ApplyOrdered, ContextOf
<1> HIDE DEF failure, p, s, x, r
<1>2. r.core = c
  BY <1>1 DEF r
<1>3. CASE GlobalOrderError(c, e) # NoError
  BY <1>1, <1>2, <1>3 DEF failure, GlobalOrderError, Disagreements, NoError, r
<1>4. CASE GlobalOrderError(c, e) = NoError /\ (i \notin Universe \/ ContextsFor(i, e.time) = {})
  BY <1>1, <1>2, <1>4 DEF failure, Disagreements, NoError, r
<1>5. CASE GlobalOrderError(c, e) = NoError /\ i \in Universe /\ ContextsFor(i, e.time) # {}
  <2>1. r.error = p.error
    BY <1>1, <1>5 DEF failure
  <2>2. d # <<>> => ~Before(e, LastEvent(c))
    BY <1>5 DEF GlobalOrderError, NoError
  <2>3. DigestInv(d) /\ OwnInv(d, i, c.states[i])
    BY <1>5 DEF CoreInv
  <2>4. \A n \in DOMAIN d : ~Before(e, d[n])
    BY <2>2, <2>3, AfterAll DEF LastEvent
  <2>5. s = IF c.states[i].date = e.date THEN c.states[i] ELSE NewState(i, e.date)
    BY DEF s, StateFor
  <2>6. \/ s.last = NoEvent
        \/ \E n \in DOMAIN d : s.last = d[n] /\ d[n].instrument = i
    <3>1. CASE c.states[i].date # e.date
      BY <2>5, <3>1 DEF NewState
    <3>2. CASE c.states[i].date = e.date
      <4> DEFINE A == Own(d, i, s.date)
      <4>1. d \in Seq(Items) /\ s = c.states[i]
        BY <2>3, <2>5, <3>2 DEF DigestInv
      <4>2. CASE A = {}
        BY <2>3, <4>1, <4>2 DEF OwnInv
      <4>3. CASE A # {}
        <5>1. Max(A) \in A /\ s.last = d[Max(A)]
          BY <2>3, <4>1, <4>3, OwnFinite DEF OwnInv
        <5> QED BY <5>1 DEF Own
      <4> QED BY <4>2, <4>3
    <3> QED BY <3>1, <3>2
  <2>7. s.instrument = i
    BY <2>3, <2>5 DEF NewState, OwnInv
  <2>8. ~(e.time < s.last.time)
    <3>1. e.time \in Nat
      BY DEF IsHead, IsEvent
    <3>2. CASE s.last = NoEvent
      BY <3>1, <3>2 DEF NoEvent
    <3>3. ASSUME NEW n \in DOMAIN d, s.last = d[n] PROVE ~(e.time < s.last.time)
      <4>1. IsHead(d[n]) /\ ~Before(e, d[n])
        BY <2>3, <2>4 DEF DigestInv
      <4>2. d[n].time <= e.time /\ d[n].time \in Nat
        BY <4>1, OrderFacts, KeyTypes
      <4> QED BY <3>1, <3>3, <4>2
    <3> QED BY <2>6, <3>2, <3>3
  <2>9. EnvelopeError(s, e, x) \notin Disagreements \cup {"GlobalOrderingRegression",
                                                          "VisibleOccurrenceDiffers"}
    BY <2>7, <2>8 DEF EnvelopeError, Disagreements, NoError
  <2>10. OrderError(s, e) = NoError
    <3>1. CASE s.last = NoEvent
      BY <3>1 DEF OrderError
    <3>2. ASSUME NEW n \in DOMAIN d, s.last = d[n], d[n].instrument = i
          PROVE  OrderError(s, e) = NoError
      <4>1. IsHead(d[n]) /\ ~Before(e, d[n])
        BY <2>3, <2>4 DEF DigestInv
      <4>2. ~LexLess(InstrumentKey(e), InstrumentKey(d[n]))
        BY <3>2, <4>1, ReducerOrderAgrees
      <4> QED BY <3>2, <4>2 DEF OrderError
    <3> QED BY <2>6, <3>1, <3>2
  <2>11. ShapeError(e) = NoError
    BY DEF IsHead
  <2> DEFINE volume == IF e.kind \in {"Quote", "Trades", "Status"}
                          /\ e.volume.observation = "set"
                       THEN VolumeError(EnterSegment(s, e, x).volume, e.volume,
                                        s.segment = x.segment)
                       ELSE NoError
             first == FirstError(<<EnvelopeError(s, e, x), ProfileError(e), ShapeError(e),
                                   OrderError(s, e), volume>>)
  <2>12. p.error = first
    BY DEF p, Propose
  <2>13. volume \notin Disagreements \cup {"GlobalOrderingRegression", "VisibleOccurrenceDiffers"}
    BY DEF VolumeError, Disagreements, NoError
  <2>14. ProfileError(e) \notin Disagreements \cup {"GlobalOrderingRegression",
                                                     "VisibleOccurrenceDiffers"}
    BY DEF ProfileError, Disagreements, NoError
  <2> HIDE DEF volume
  <2>15. first \in {EnvelopeError(s, e, x), ProfileError(e), ShapeError(e), OrderError(s, e),
                    volume, NoError}
    BY FirstErrorIn
  <2> HIDE DEF first
  <2>16. NoError \notin Disagreements \cup {"GlobalOrderingRegression", "VisibleOccurrenceDiffers"}
    BY DEF NoError, Disagreements
  <2> QED BY <1>2, <2>1, <2>9, <2>10, <2>11, <2>12, <2>13, <2>14, <2>15, <2>16 DEF r
<1> QED BY <1>3, <1>4, <1>5

-----------------------------------------------------------------------------
(* The merge.                                                              *)

\* Streams hold items, heads hold events with an ordering key.
TypeInv ==
    /\ plan \in Plans
    /\ phase \in {"open", "merge", "done", "failed"}
    /\ DOMAIN streams = DOMAIN heads
    /\ \A k \in DOMAIN heads :
          /\ streams[k] \in Seq(Items)
          /\ heads[k] # NoHead => heads[k] \in Items /\ IsHead(heads[k])
    /\ phase = "open" => /\ core = NewCore /\ visible = NewCore
                         /\ buffered = <<>> /\ DOMAIN heads = {}

\* An item that can become a head.
LEMMA HeadFacts ==
    ASSUME NEW items \in Seq(Items), items # <<>>, HeadError(items) = NoError
    PROVE  Head(items) \in Items /\ IsHead(Head(items)) /\ Head(items) # NoHead
<1>1. Head(items) \in Items
  BY HeadTailProperties
<1>2. Head(items) # ReadError /\ ShapeError(Head(items)) = NoError
  BY DEF HeadError, NoError
<1>3. IsHead(Head(items))
  BY <1>1, <1>2, PlansAssumption DEF IsItem, IsHead
<1>4. Head(items).time # 0
  BY <1>3 DEF IsHead, IsEvent
<1>5. NoHead.time = 0
  BY DEF NoHead
<1> QED BY <1>1, <1>3, <1>4, <1>5

\* A set of streams has a first one, in the plan's order.
LEMMA FirstOfIn ==
    ASSUME NEW ks, ks \subseteq Nat \X Nat, ks # {}
    PROVE  FirstOf(ks) \in ks
<1> DEFINE A == {k[1] : k \in ks}
<1>1. A \in SUBSET Nat /\ A # {}
  OBVIOUS
<1>2. PICK a \in A : \A x \in A : a <= x
  BY <1>1, LeastMember
<1> DEFINE B == {k[2] : k \in {j \in ks : j[1] = a}}
<1>3. B \in SUBSET Nat /\ B # {}
  BY <1>2
<1>4. PICK b \in B : \A x \in B : b <= x
  BY <1>3, LeastMember
<1>5. PICK k \in ks : k[1] = a /\ k[2] = b
  BY <1>4
<1>6. ASSUME NEW j \in ks
      PROVE  j = k \/ LexLess(k, j)
  <2>1. k = <<a, b>> /\ j = <<j[1], j[2]>> /\ a \in Nat /\ b \in Nat
        /\ j[1] \in Nat /\ j[2] \in Nat /\ Len(k) = 2
    BY <1>5, <1>1, <1>2, <1>3, <1>4
  <2>2. a <= j[1] /\ (j[1] = a => b <= j[2])
    BY <1>2, <1>4, <1>6
  <2>3. CASE a < j[1]
    <3>1. 1 \in 1..Len(k) /\ k[1] < j[1] /\ \A m \in 1..(1 - 1) : k[m] = j[m]
      BY <1>5, <2>1, <2>3
    <3> QED BY <3>1 DEF LexLess
  <2>4. CASE a = j[1] /\ b < j[2]
    <3>1. 2 \in 1..Len(k) /\ k[2] < j[2] /\ \A m \in 1..(2 - 1) : k[m] = j[m]
      BY <1>5, <2>1, <2>4
    <3> QED BY <3>1 DEF LexLess
  <2>5. CASE a = j[1] /\ b = j[2]
    BY <2>1, <2>5
  <2> QED BY <2>1, <2>2, <2>3, <2>4, <2>5
<1> QED BY <1>6 DEF FirstOf

\* The streams of the plan hold items.
LEMMA ItemsOfType ==
    ASSUME plan \in Plans, NEW k \in StreamKeys
    PROVE  \E n \in DOMAIN plan : ItemsOf(k) = plan[n].items /\ ItemsOf(k) \in Seq(Items)
<1>1. \E b \in Range(plan) : StreamKey(b) = k
  BY DEF StreamKeys, Range
<1> DEFINE b == CHOOSE b \in Range(plan) : StreamKey(b) = k
<1>2. b \in Range(plan)
  BY <1>1
<1>3. ItemsOf(k) = b.items
  BY DEF ItemsOf
<1> HIDE DEF b
<1>4. PICK n \in DOMAIN plan : b = plan[n]
  BY <1>2 DEF Range
<1> QED BY <1>3, <1>4, PlansAssumption

\* What a merge step does: refuse the head, or commit it and read on, or fail
\* in the callback after the commit.
LEMMA MergeSteps ==
    ASSUME TypeInv, CoreInv(core), NEW k \in DOMAIN heads, MergeHead(k) \/ CallbackFails(k)
    PROVE  LET e == heads[k]
               r == ApplyOrdered(core, e)
           IN  /\ phase = "merge" /\ Selected(k) /\ heads[k] # NoHead
               /\ e \in Items /\ IsHead(e)
               /\ UNCHANGED <<plan, forked, visible>>
               /\ core' = r.core
               /\ \/ /\ r.error # NoError /\ phase' = "failed" /\ error' = r.error
                     /\ UNCHANGED <<streams, heads, buffered>>
                  \/ /\ r.error = NoError /\ phase' = "failed" /\ error' = "Callback"
                     /\ UNCHANGED <<streams, heads, buffered>>
                  \/ /\ r.error = NoError /\ Advance(k)
                     /\ buffered' = Buffered(r.core, e)
<1>1. phase = "merge" /\ Selected(k) /\ heads[k] # NoHead
  BY DEF MergeHead, CallbackFails, Selected, Pending
<1>2. heads[k] \in Items /\ IsHead(heads[k])
  BY <1>1 DEF TypeInv
<1>3. CASE MergeHead(k)
  BY <1>1, <1>2, <1>3 DEF MergeHead, FailWith
<1>4. CASE CallbackFails(k)
  BY <1>1, <1>2, <1>4 DEF CallbackFails, FailWith
<1> QED BY <1>3, <1>4

\* The core stays sound.
LEMMA CoreStep ==
    ASSUME TypeInv, CoreInv(core), [Next]_vars
    PROVE  CoreInv(core')
<1>1. ASSUME NEW k \in DOMAIN heads, MergeHead(k) \/ CallbackFails(k)
      PROVE  CoreInv(core')
  <2>1. /\ heads[k] \in Items /\ IsHead(heads[k])
        /\ core' = ApplyOrdered(core, heads[k]).core
    BY <1>1, MergeSteps
  <2>2. CASE ApplyOrdered(core, heads[k]).error = NoError
    BY <2>1, <2>2, ApplyAccepted
  <2>3. CASE ApplyOrdered(core, heads[k]).error # NoError
    BY <2>1, <2>3, ApplyRefused
  <2> QED BY <2>2, <2>3
<1>2. CASE UNCHANGED core
  BY <1>2
<1> QED BY <1>1, <1>2 DEF Next, Open, OpenFails, Release, Complete, vars

\* Reading on keeps the types.
LEMMA AdvanceTypes ==
    ASSUME TypeInv, NEW k \in DOMAIN heads, Advance(k)
    PROVE  /\ DOMAIN streams' = DOMAIN heads'
           /\ DOMAIN heads' = DOMAIN heads
           /\ \A j \in DOMAIN heads' :
                 /\ streams'[j] \in Seq(Items)
                 /\ heads'[j] # NoHead => heads'[j] \in Items /\ IsHead(heads'[j])
           /\ \/ phase' = "failed" /\ error' = HeadError(streams[k])
                                   /\ HeadError(streams[k]) # NoError
              \/ UNCHANGED <<phase, error>> /\ HeadError(streams[k]) = NoError
           /\ \A j \in DOMAIN heads : j # k => heads'[j] = heads[j] /\ streams'[j] = streams[j]
           /\ heads'[k] # NoHead => /\ streams[k] # <<>> /\ HeadError(streams[k]) = NoError
                                    /\ heads'[k] = Head(streams[k])
                                    /\ streams'[k] = Tail(streams[k])
<1> DEFINE q == streams[k]
           h == IF HeadError(q) # NoError \/ q = <<>> THEN NoHead ELSE Head(q)
           t == IF q = <<>> THEN <<>> ELSE Tail(q)
<1>1. DOMAIN streams = DOMAIN heads /\ q \in Seq(Items)
  BY DEF TypeInv
<1>2. heads' = [heads EXCEPT ![k] = h] /\ streams' = [streams EXCEPT ![k] = t]
  BY DEF Advance
<1>3. t \in Seq(Items)
  BY <1>1, HeadTailProperties
<1>4. h # NoHead => h \in Items /\ IsHead(h) /\ q # <<>> /\ HeadError(q) = NoError
                    /\ h = Head(q) /\ t = Tail(q)
  BY <1>1, HeadFacts
<1>5. /\ \/ phase' = "failed" /\ error' = HeadError(q) /\ HeadError(q) # NoError
         \/ UNCHANGED <<phase, error>> /\ HeadError(q) = NoError
  BY DEF Advance, FailWith
<1> HIDE DEF h, t
<1>6. /\ DOMAIN heads' = DOMAIN heads /\ DOMAIN streams' = DOMAIN heads
      /\ heads'[k] = h /\ streams'[k] = t
      /\ \A j \in DOMAIN heads : j # k => heads'[j] = heads[j] /\ streams'[j] = streams[j]
  BY <1>1, <1>2
<1>7. \A j \in DOMAIN heads' : /\ streams'[j] \in Seq(Items)
                               /\ heads'[j] # NoHead => heads'[j] \in Items /\ IsHead(heads'[j])
  BY <1>3, <1>4, <1>6 DEF TypeInv
<1> QED BY <1>4, <1>5, <1>6, <1>7

\* What Open does.
LEMMA OpenFacts ==
    ASSUME TypeInv, Open
    PROVE  /\ UNCHANGED <<plan, core, forked, visible, buffered>>
           /\ \/ /\ phase' = "failed" /\ UNCHANGED <<streams, heads>>
                 /\ error' \in {"EmptyBindings", "DuplicateLogicalStream", "PlanOutsideUniverse",
                                "PlanTradingDateMismatch", "Stream", "Ordering"}
              \/ /\ phase' = "merge" /\ error' = NoError
                 /\ DOMAIN heads' = StreamKeys /\ DOMAIN streams' = StreamKeys
                 /\ \A k \in StreamKeys :
                       /\ streams'[k] \in Seq(Items)
                       /\ heads'[k] # NoHead => /\ heads'[k] \in Items /\ IsHead(heads'[k])
                                                /\ ItemsOf(k) # <<>>
                                                /\ heads'[k] = Head(ItemsOf(k))
                                                /\ streams'[k] = Tail(ItemsOf(k))
                       /\ heads'[k] = NoHead => ItemsOf(k) = <<>> /\ streams'[k] = <<>>
<1> DEFINE unbound  == {k \in StreamKeys : BindingError(k) # NoError}
           unreadable == {k \in StreamKeys : HeadError(ItemsOf(k)) # NoError}
           failure == IF PlanError # NoError THEN PlanError
                      ELSE IF unbound # {} THEN BindingError(FirstOf(unbound))
                      ELSE IF unreadable # {} THEN HeadError(ItemsOf(FirstOf(unreadable)))
                      ELSE NoError
<1>1. UNCHANGED <<plan, core, forked, visible, buffered>>
  BY DEF Open
<1>2. CASE failure # NoError
  <2>1. phase' = "failed" /\ error' = failure /\ UNCHANGED <<streams, heads>>
    BY <1>2 DEF Open, FailWith
  <2>2. PlanError \in {"EmptyBindings", "DuplicateLogicalStream", NoError}
    BY DEF PlanError
  <2>3. \A k : BindingError(k) \in {"PlanOutsideUniverse", "PlanTradingDateMismatch", NoError}
    BY DEF BindingError
  <2>4. \A q : HeadError(q) \in {"Stream", "Ordering", NoError}
    BY DEF HeadError
  <2>5. failure \in {"EmptyBindings", "DuplicateLogicalStream", "PlanOutsideUniverse",
                     "PlanTradingDateMismatch", "Stream", "Ordering"}
    BY <1>2, <2>2, <2>3, <2>4
  <2> QED BY <1>1, <2>1, <2>5
<1>3. CASE failure = NoError
  <2>1. /\ phase' = "merge" /\ error' = NoError
        /\ heads' = [k \in StreamKeys |->
                        IF ItemsOf(k) = <<>> THEN NoHead ELSE Head(ItemsOf(k))]
        /\ streams' = [k \in StreamKeys |->
                        IF ItemsOf(k) = <<>> THEN <<>> ELSE Tail(ItemsOf(k))]
    BY <1>3 DEF Open
  <2>2. ASSUME NEW k \in StreamKeys
        PROVE  /\ streams'[k] \in Seq(Items)
               /\ heads'[k] # NoHead => /\ heads'[k] \in Items /\ IsHead(heads'[k])
                                        /\ ItemsOf(k) # <<>>
                                        /\ heads'[k] = Head(ItemsOf(k))
                                        /\ streams'[k] = Tail(ItemsOf(k))
               /\ heads'[k] = NoHead => ItemsOf(k) = <<>> /\ streams'[k] = <<>>
    <3>1. ItemsOf(k) \in Seq(Items)
      BY ItemsOfType DEF TypeInv
    <3>2. HeadError(ItemsOf(k)) = NoError
      <4>1. unreadable \subseteq Nat \X Nat
        BY PlansAssumption DEF StreamKeys, StreamKey, TypeInv
      <4>2. unreadable # {} => FirstOf(unreadable) \in unreadable
        <5> HIDE DEF unreadable
        <5> QED BY <4>1, FirstOfIn
      <4>3. unbound = {}
        <5>1. unbound \subseteq Nat \X Nat
          BY PlansAssumption DEF StreamKeys, StreamKey, TypeInv
        <5>2. unbound # {} => FirstOf(unbound) \in unbound
          <6> HIDE DEF unbound
          <6> QED BY <5>1, FirstOfIn
        <5>3. \A j \in unbound : BindingError(j) # NoError
          OBVIOUS
        <5> HIDE DEF unbound
        <5> QED BY <1>3, <5>2, <5>3
      <4>4. \A j \in unreadable : HeadError(ItemsOf(j)) # NoError
        OBVIOUS
      <4>5. unreadable = {}
        <5> HIDE DEF unreadable, unbound
        <5> QED BY <1>3, <4>2, <4>3, <4>4
      <4> QED BY <4>5
    <3>3. CASE ItemsOf(k) = <<>>
      BY <2>1, <3>3
    <3>4. CASE ItemsOf(k) # <<>>
      <4>1. /\ Head(ItemsOf(k)) \in Items /\ IsHead(Head(ItemsOf(k)))
            /\ Head(ItemsOf(k)) # NoHead /\ Tail(ItemsOf(k)) \in Seq(Items)
        BY <3>1, <3>2, <3>4, HeadFacts, HeadTailProperties
      <4> QED BY <2>1, <3>4, <4>1
    <3> QED BY <3>3, <3>4
  <2> QED BY <1>1, <2>1, <2>2
<1> QED BY <1>2, <1>3

\* TypeInv is inductive.
LEMMA TypeStep ==
    ASSUME TypeInv, CoreInv(core), [Next]_vars
    PROVE  TypeInv'
<1>1. CASE Open
  BY <1>1, OpenFacts DEF TypeInv
<1>2. CASE OpenFails
  BY <1>2 DEF TypeInv, OpenFails, FailWith
<1>3. ASSUME NEW k \in DOMAIN heads, MergeHead(k) \/ CallbackFails(k)
      PROVE  TypeInv'
  <2>1. CASE Advance(k) /\ UNCHANGED plan
    <3>1. phase = "merge"
      BY <1>3, MergeSteps
    <3> QED BY <2>1, <3>1, AdvanceTypes DEF TypeInv
  <2>2. CASE phase' = "failed" /\ UNCHANGED <<plan, streams, heads>>
    BY <2>2 DEF TypeInv
  <2> QED BY <1>3, <2>1, <2>2, MergeSteps
<1>4. CASE Release
  BY <1>4 DEF TypeInv, Release, CanRelease, FailWith
<1>5. CASE Complete
  BY <1>5 DEF TypeInv, Complete
<1>6. CASE UNCHANGED vars
  BY <1>6 DEF TypeInv, vars
<1> QED BY <1>1, <1>2, <1>3, <1>4, <1>5, <1>6 DEF Next

-----------------------------------------------------------------------------
(* The visible core.                                                       *)

\* h is the sequence of cores that led to core c, one per committed event.
History(h, c) ==
    /\ h[0] = NewCore
    /\ h[Len(c.digest)] = c
    /\ \A n \in 1..Len(c.digest) :
          ApplyOrdered(h[n - 1], c.digest[n]) = [error |-> NoError, core |-> h[n]]
    /\ \A n \in 0..Len(c.digest) :
          /\ h[n].digest \in Seq(Items) /\ Len(h[n].digest) = n /\ h[n].ordinal = n
          /\ \A m \in 1..n : h[n].digest[m] = c.digest[m]

\* What buffer_committed kept of the n-th commit.
Observation(h, c, n) ==
    [event |-> c.digest[n], ordinal |-> n, version |-> h[n].states[c.digest[n].instrument].version]

\* The visible core v is one of the history's, and the buffer b holds the
\* commits that follow it.
Follows(h, c, v, b) ==
    LET m == Len(v.digest)
    IN  /\ m \in 0..Len(c.digest) /\ v = h[m]
        /\ b \in Seq({Observation(h, c, n) : n \in 1..Len(c.digest)})
        /\ m + Len(b) <= Len(c.digest)
        /\ \A j \in 1..Len(b) : b[j] = Observation(h, c, m + j)

\* While the replay runs, the buffer holds all of them.
BufferInv ==
    IF forked
    THEN phase \in {"open", "merge"} =>
            Len(visible.digest) + Len(buffered) = Len(core.digest)
    ELSE buffered = <<>>

PastInv == BufferInv /\ \E h : History(h, core) /\ Follows(h, core, visible, buffered)

\* One more commit extends the history.
LEMMA HistoryStep ==
    ASSUME NEW c, CoreInv(c), NEW e \in Items, IsHead(e), ApplyOrdered(c, e).error = NoError,
           NEW h, History(h, c)
    PROVE  LET d == ApplyOrdered(c, e).core
           IN  \E g : /\ History(g, d)
                      /\ \A n \in 0..Len(c.digest) : g[n] = h[n]
                      /\ g[Len(d.digest)] = d
<1> DEFINE d == ApplyOrdered(c, e).core
           N == Len(c.digest)
           g == [n \in 0..(N + 1) |-> IF n = N + 1 THEN d ELSE h[n]]
<1>1. /\ CoreInv(d) /\ d.digest = Append(c.digest, e)
      /\ ApplyOrdered(c, e) = [error |-> NoError, core |-> d]
  BY ApplyAccepted
<1> HIDE DEF d
<1>2. /\ N \in Nat /\ Len(d.digest) = N + 1 /\ d.digest \in Seq(Items)
      /\ \A n \in 1..N : d.digest[n] = c.digest[n]
      /\ d.digest[N + 1] = e
  BY <1>1, DigestAppend DEF CoreInv, DigestInv
<1>3. d.ordinal = N + 1
  BY <1>1, <1>2 DEF CoreInv
<1> HIDE DEF N
<1>4. g[N + 1] = d /\ \A n \in 0..N : g[n] = h[n]
  BY <1>2
<1> HIDE DEF g
<1>5. g[0] = NewCore /\ g[Len(d.digest)] = d
  BY <1>2, <1>4 DEF History
<1>6. ASSUME NEW n \in 1..(N + 1)
      PROVE  ApplyOrdered(g[n - 1], d.digest[n]) = [error |-> NoError, core |-> g[n]]
  <2>1. CASE n = N + 1
    <3>1. g[n - 1] = c
      BY <1>2, <1>4, <2>1 DEF History, N
    <3> QED BY <1>1, <1>2, <1>4, <2>1, <3>1
  <2>2. CASE n \in 1..N
    <3>1. g[n - 1] = h[n - 1] /\ g[n] = h[n] /\ d.digest[n] = c.digest[n]
      BY <1>2, <1>4, <2>2
    <3> QED BY <2>2, <3>1 DEF History, N
  <2> QED BY <1>2, <2>1, <2>2
<1>7. ASSUME NEW n \in 0..(N + 1)
      PROVE  /\ g[n].digest \in Seq(Items) /\ Len(g[n].digest) = n /\ g[n].ordinal = n
             /\ \A m \in 1..n : g[n].digest[m] = d.digest[m]
  <2>1. CASE n = N + 1
    BY <1>2, <1>3, <1>4, <2>1
  <2>2. CASE n \in 0..N
    <3>1. g[n] = h[n] /\ \A m \in 1..n : d.digest[m] = c.digest[m]
      BY <1>2, <1>4, <2>2
    <3> QED BY <2>2, <3>1 DEF History, N
  <2> QED BY <1>2, <2>1, <2>2
<1>8. History(g, d)
  BY <1>2, <1>5, <1>6, <1>7 DEF History
<1> QED BY <1>4, <1>5, <1>8 DEF d, N

\* Only the phase and the error matter when nothing else changes.
LEMMA PastUnchanged ==
    ASSUME PastInv, UNCHANGED <<core, visible, buffered, forked>>,
           phase' \in {"open", "merge"} => phase \in {"open", "merge"}
    PROVE  PastInv'
BY DEF PastInv, BufferInv

\* A release repeats the commit it replays: it is neither refused nor found to
\* differ from it.
LEMMA ReleaseRepeats ==
    ASSUME TypeInv, PastInv, Release
    PROVE  PastInv' /\ UNCHANGED <<phase, error>>
<1>1. PICK h : History(h, core) /\ Follows(h, core, visible, buffered)
  BY DEF PastInv
<1> DEFINE m == Len(visible.digest)
           N == Len(core.digest)
           O == {Observation(h, core, n) : n \in 1..N}
           o == Head(buffered)
           r == ApplyOrdered(visible, o.event)
<1>2. /\ m \in 0..N /\ visible = h[m] /\ N \in Nat
      /\ buffered \in Seq(O) /\ buffered # <<>>
      /\ phase = "merge"
  <2>1. N \in Nat
    BY <1>1 DEF History, Follows
  <2> QED BY <1>1, <2>1 DEF Follows, Release, CanRelease
<1>3. /\ Len(buffered) \in Nat \ {0} /\ o = buffered[1]
      /\ Tail(buffered) \in Seq(O) /\ Len(Tail(buffered)) = Len(buffered) - 1
      /\ \A j \in 1..(Len(buffered) - 1) : Tail(buffered)[j] = buffered[j + 1]
  <2> HIDE DEF O
  <2> QED BY <1>2, HeadTailProperties, EmptySeq, LenProperties
<1>4. m + Len(buffered) <= N /\ o = Observation(h, core, m + 1)
  BY <1>1, <1>2, <1>3 DEF Follows
<1>5. m + 1 \in 1..N
  BY <1>2, <1>3, <1>4
<1>6. /\ o.event = core.digest[m + 1] /\ o.ordinal = m + 1
      /\ o.version = h[m + 1].states[o.event.instrument].version
  BY <1>4 DEF Observation
<1>7. r = [error |-> NoError, core |-> h[m + 1]]
  <2>1. ApplyOrdered(h[(m + 1) - 1], core.digest[m + 1]) = [error |-> NoError, core |-> h[m + 1]]
    BY <1>1, <1>5 DEF History
  <2>2. (m + 1) - 1 = m
    BY <1>2
  <2> QED BY <1>2, <1>6, <2>1, <2>2
<1>8. h[m + 1].ordinal = m + 1 /\ Len(h[m + 1].digest) = m + 1
  BY <1>1, <1>2, <1>5 DEF History
<1> HIDE DEF r
<1>9. /\ visible' = h[m + 1] /\ UNCHANGED <<phase, error>>
  <2>1. /\ visible' = r.core
        /\ IF r.error # NoError THEN FailWith(r.error)
           ELSE IF ~(/\ r.core.ordinal = o.ordinal
                     /\ r.core.states[o.event.instrument].version = o.version)
           THEN FailWith("VisibleOccurrenceDiffers")
           ELSE UNCHANGED <<phase, error>>
    BY DEF Release, r
  <2> QED BY <1>6, <1>7, <1>8, <2>1
<1>10. buffered' = Tail(buffered) /\ UNCHANGED <<core, forked>>
  BY DEF Release
<1>11. /\ Len(visible'.digest) = m + 1
       /\ (m + 1) + Len(buffered') = m + Len(buffered)
       /\ \A j \in 1..Len(buffered') : buffered'[j] = Observation(h, core, (m + 1) + j)
  <2>1. Len(visible'.digest) = m + 1
    BY <1>8, <1>9
  <2>2. (m + 1) + Len(buffered') = m + Len(buffered)
    BY <1>2, <1>3, <1>10
  <2>3. ASSUME NEW j \in 1..Len(buffered')
        PROVE  buffered'[j] = Observation(h, core, (m + 1) + j)
    <3>1. buffered'[j] = buffered[j + 1] /\ j + 1 \in 1..Len(buffered)
      BY <1>3, <1>10
    <3>2. buffered[j + 1] = Observation(h, core, m + (j + 1))
      BY <1>1, <3>1 DEF Follows
    <3>3. m + (j + 1) = (m + 1) + j
      <4>1. m \in Nat /\ j \in Nat
        BY <1>2, <1>3, <1>10
      <4> HIDE DEF m
      <4> QED BY <4>1
    <3> QED BY <3>1, <3>2, <3>3
  <2> QED BY <2>1, <2>2, <2>3
<1>12. forked /\ m + Len(buffered) = N
  BY <1>2 DEF PastInv, BufferInv
<1>13. Follows(h, core, visible', buffered')
  <2>1. buffered' \in Seq(O)
    BY <1>3, <1>10
  <2>2. (m + 1) + Len(buffered') <= N /\ m + 1 \in 0..N
    BY <1>4, <1>5, <1>11
  <2> QED BY <1>9, <1>11, <2>1, <2>2 DEF Follows
<1>14. BufferInv'
  BY <1>10, <1>11, <1>12 DEF BufferInv
<1> QED BY <1>1, <1>9, <1>10, <1>13, <1>14 DEF PastInv

\* A commit extends the history; a handed-over commit also the buffer.
LEMMA PastMerge ==
    ASSUME TypeInv, CoreInv(core), PastInv,
           NEW k \in DOMAIN heads, MergeHead(k) \/ CallbackFails(k)
    PROVE  PastInv'
<1> DEFINE e == heads[k]
           r == ApplyOrdered(core, e)
           N == Len(core.digest)
<1>1. /\ phase = "merge" /\ e \in Items /\ IsHead(e)
      /\ UNCHANGED <<forked, visible>> /\ core' = r.core
      /\ \/ r.error # NoError /\ phase' = "failed" /\ UNCHANGED buffered
         \/ r.error = NoError /\ phase' = "failed" /\ UNCHANGED buffered
         \/ r.error = NoError /\ buffered' = Buffered(r.core, e)
  BY MergeSteps
<1>2. CASE r.error # NoError
  <2>1. core' = core
    BY <1>1, <1>2, ApplyRefused
  <2> QED BY <1>1, <1>2, <2>1, PastUnchanged
<1>3. CASE r.error = NoError
  <2>1. PICK h : History(h, core) /\ Follows(h, core, visible, buffered)
    BY DEF PastInv
  <2>2. PICK g : /\ History(g, core')
                 /\ \A n \in 0..N : g[n] = h[n]
                 /\ g[Len(core'.digest)] = core'
    BY <1>1, <1>3, <2>1, HistoryStep
  <2>3. core'.digest = Append(core.digest, e) /\ CoreInv(core')
    BY <1>1, <1>3, ApplyAccepted
  <2>4. /\ N \in Nat /\ Len(core'.digest) = N + 1
        /\ \A n \in 1..N : core'.digest[n] = core.digest[n]
        /\ core'.digest[N + 1] = e
    BY <1>1, <2>3, DigestAppend DEF CoreInv, DigestInv
  <2> DEFINE m == Len(visible.digest)
             O == {Observation(h, core, n) : n \in 1..N}
             P == {Observation(g, core', n) : n \in 1..(N + 1)}
  <2>5. /\ m \in 0..N /\ visible = h[m] /\ buffered \in Seq(O) /\ m + Len(buffered) <= N
        /\ \A j \in 1..Len(buffered) : buffered[j] = Observation(h, core, m + j)
    BY <2>1 DEF Follows
  <2>6. \A n \in 1..N : Observation(g, core', n) = Observation(h, core, n)
    BY <2>2, <2>4 DEF Observation
  <2>7. buffered \in Seq(P) /\ Len(buffered) \in Nat
    <3>1. O \subseteq P
      BY <2>4, <2>6
    <3> HIDE DEF O, P
    <3> QED BY <2>5, <3>1, LenProperties
  <2>8. \A j \in 1..Len(buffered) : buffered[j] = Observation(g, core', m + j)
    <3> SUFFICES ASSUME NEW j \in 1..Len(buffered)
                 PROVE  buffered[j] = Observation(g, core', m + j)
      OBVIOUS
    <3>1. m + j \in 1..N
      BY <2>4, <2>5, <2>7, SMTT(30)
    <3> QED BY <2>5, <2>6, <3>1
  <2>9. m \in 0..(N + 1) /\ visible' = g[m] /\ Len(visible'.digest) = m
    BY <1>1, <2>2, <2>4, <2>5
  <2>10. CASE UNCHANGED buffered /\ (phase' = "failed" \/ ~forked)
    <3>1. Follows(g, core', visible', buffered')
      BY <1>1, <2>4, <2>5, <2>7, <2>8, <2>9, <2>10 DEF Follows
    <3>2. BufferInv'
      BY <1>1, <2>10 DEF PastInv, BufferInv
    <3> QED BY <2>2, <3>1, <3>2 DEF PastInv
  <2>11. CASE buffered' = Buffered(r.core, e) /\ forked
    <3> DEFINE o == [event |-> e, ordinal |-> core'.ordinal,
                     version |-> core'.states[e.instrument].version]
    <3>1. buffered' = Append(buffered, o)
      BY <1>1, <2>11 DEF Buffered
    <3>2. m + Len(buffered) = N
      BY <1>1, <2>11 DEF PastInv, BufferInv
    <3>3. o = Observation(g, core', N + 1)
      <4>1. core'.ordinal = N + 1 /\ g[N + 1] = core'
        BY <2>2, <2>3, <2>4 DEF CoreInv
      <4> QED BY <2>4, <4>1 DEF Observation
    <3>4. o \in P
      BY <2>4, <3>3
    <3> HIDE DEF o, P
    <3>5. /\ buffered' \in Seq(P) /\ Len(buffered') = Len(buffered) + 1
          /\ \A j \in 1..Len(buffered) : buffered'[j] = buffered[j]
          /\ buffered'[Len(buffered) + 1] = o
      BY <2>7, <3>1, <3>4, AppendProperties
    <3>6. m + (Len(buffered) + 1) = N + 1
      <4>1. m \in Nat /\ N \in Nat /\ Len(buffered) \in Nat
        BY <2>4, <2>5, <2>7
      <4>2. \A a, b, c \in Nat : a + b = c => a + (b + 1) = c + 1
        OBVIOUS
      <4> HIDE DEF m, N
      <4> QED BY <3>2, <4>1, <4>2
    <3>10. m + Len(buffered') = N + 1
      BY <3>5, <3>6
    <3>7. \A j \in 1..Len(buffered') : buffered'[j] = Observation(g, core', m + j)
      <4> SUFFICES ASSUME NEW j \in 1..Len(buffered')
                   PROVE  buffered'[j] = Observation(g, core', m + j)
        OBVIOUS
      <4>1. CASE j = Len(buffered) + 1
        <5>1. m + j = N + 1
          BY <3>6, <4>1
        <5> QED BY <3>3, <3>5, <4>1, <5>1
      <4>2. CASE j \in 1..Len(buffered)
        BY <2>8, <3>5, <4>2
      <4> QED BY <2>7, <3>5, <4>1, <4>2
    <3>8. Follows(g, core', visible', buffered')
      <4>1. m + Len(buffered') <= N + 1
        BY <2>4, <3>10
      <4> QED BY <2>4, <2>9, <3>5, <3>7, <4>1 DEF Follows, P
    <3>9. BufferInv'
      BY <1>1, <2>4, <2>9, <2>11, <3>10 DEF BufferInv
    <3> QED BY <2>2, <3>8, <3>9 DEF PastInv
  <2> QED BY <1>1, <1>3, <2>10, <2>11 DEF Buffered
<1> QED BY <1>2, <1>3

\* PastInv is inductive.
LEMMA PastStep ==
    ASSUME TypeInv, CoreInv(core), PastInv, [Next]_vars
    PROVE  PastInv'
<1>1. CASE Open
  <2>1. phase = "open"
    BY <1>1 DEF Open
  <2> QED BY <1>1, <2>1, OpenFacts, PastUnchanged
<1>2. CASE OpenFails \/ Complete \/ UNCHANGED vars
  BY <1>2, PastUnchanged DEF OpenFails, FailWith, Complete, vars
<1> QED BY <1>1, <1>2, PastMerge, ReleaseRepeats DEF Next

-----------------------------------------------------------------------------
(* The order of the merge.                                                 *)

PlanSorted == \A n \in DOMAIN plan : StreamSorted(plan[n].items)

\* Nothing that is still to come is before what was committed.
MergeInv ==
    (PlanSorted /\ phase = "merge") =>
        \A k \in DOMAIN heads :
            /\ StreamSorted(streams[k])
            /\ heads[k] # NoHead =>
                  /\ core.digest # <<>> => ~Before(heads[k], LastEvent(core))
                  /\ \A n \in DOMAIN streams[k] : ~Before(streams[k][n], heads[k])

\* What the error of a failed replay is not.
ErrorInv ==
    /\ error \notin Disagreements
    /\ error # "VisibleOccurrenceDiffers"
    /\ PlanSorted => error # "GlobalOrderingRegression"

\* The rest of a sorted stream is sorted, and not before its head.
LEMMA SortedTail ==
    ASSUME NEW items \in Seq(Items), items # <<>>, StreamSorted(items)
    PROVE  /\ StreamSorted(Tail(items))
           /\ \A n \in DOMAIN Tail(items) : ~Before(Tail(items)[n], Head(items))
<1> DEFINE t == Tail(items)
<1>1. /\ Len(items) \in Nat \ {0} /\ DOMAIN items = 1..Len(items) /\ Head(items) = items[1]
      /\ t \in Seq(Items) /\ Len(t) = Len(items) - 1 /\ DOMAIN t = 1..Len(t)
      /\ \A n \in 1..(Len(items) - 1) : t[n] = items[n + 1]
  BY HeadTailProperties, EmptySeq, LenProperties
<1> HIDE DEF t
<1>2. \A n \in DOMAIN t : /\ t[n] = items[n + 1] /\ n + 1 \in DOMAIN items
                          /\ 1 \in DOMAIN items /\ 1 < n + 1
  BY <1>1
<1>3. StreamSorted(t)
  <2> SUFFICES ASSUME NEW x \in DOMAIN t, NEW y \in DOMAIN t, x < y
               PROVE  ReadError \notin {t[x], t[y]} /\ ~Before(t[y], t[x])
    BY DEF StreamSorted
  <2>1. x + 1 < y + 1
    BY <1>1
  <2> QED BY <1>2, <2>1 DEF StreamSorted
<1>4. \A n \in DOMAIN t : ~Before(t[n], Head(items))
  BY <1>1, <1>2 DEF StreamSorted
<1> QED BY <1>3, <1>4 DEF t

\* A merge step keeps the order and fails only for a reason.
LEMMA MergeOrder ==
    ASSUME TypeInv, CoreInv(core), MergeInv, ErrorInv,
           NEW k \in DOMAIN heads, MergeHead(k) \/ CallbackFails(k)
    PROVE  MergeInv' /\ ErrorInv'
<1> DEFINE e == heads[k]
           r == ApplyOrdered(core, e)
<1>1. /\ phase = "merge" /\ Selected(k) /\ e # NoHead /\ e \in Items /\ IsHead(e)
      /\ UNCHANGED plan /\ core' = r.core
  BY MergeSteps
<1>2. \A q : HeadError(q) \in {"Stream", "Ordering", NoError}
  BY DEF HeadError
<1>3. PlanSorted' <=> PlanSorted
  BY <1>1 DEF PlanSorted
<1>4. CASE r.error # NoError
  <2>1. phase' = "failed" /\ error' = r.error
    BY <1>4, MergeSteps
  <2>2. /\ r.error \notin Disagreements /\ r.error # "VisibleOccurrenceDiffers"
        /\ r.error = "GlobalOrderingRegression" =>
              core.digest # <<>> /\ Before(e, LastEvent(core))
    BY <1>1, <1>4, ApplyRefused
  <2>3. PlanSorted => r.error # "GlobalOrderingRegression"
    BY <1>1, <2>2 DEF MergeInv
  <2> QED BY <1>3, <2>1, <2>2, <2>3 DEF MergeInv, ErrorInv
<1>5. CASE r.error = NoError /\ phase' = "failed" /\ error' = "Callback"
  BY <1>5 DEF MergeInv, ErrorInv, Disagreements
<1>6. CASE r.error = NoError /\ Advance(k)
  <2>1. /\ DOMAIN heads' = DOMAIN heads
        /\ \/ phase' = "failed" /\ error' = HeadError(streams[k])
           \/ UNCHANGED <<phase, error>>
        /\ \A j \in DOMAIN heads : j # k => heads'[j] = heads[j] /\ streams'[j] = streams[j]
        /\ heads'[k] # NoHead => /\ streams[k] # <<>>
                                 /\ heads'[k] = Head(streams[k])
                                 /\ streams'[k] = Tail(streams[k])
    BY <1>6, AdvanceTypes
  <2>2. ErrorInv'
    <3>1. CASE UNCHANGED error
      BY <1>3, <3>1 DEF ErrorInv
    <3>2. CASE error' = HeadError(streams[k])
      BY <1>2, <3>2 DEF ErrorInv, Disagreements, NoError
    <3> QED BY <2>1, <3>1, <3>2
  <2>3. /\ core'.digest # <<>> /\ LastEvent(core') = e
    <3>1. core'.digest = Append(core.digest, e) /\ core.digest \in Seq(Items)
      BY <1>1, <1>6, ApplyAccepted DEF CoreInv, DigestInv
    <3>2. /\ core'.digest # <<>> /\ Len(core'.digest) = Len(core.digest) + 1
          /\ core'.digest[Len(core.digest) + 1] = e
      BY <1>1, <3>1, DigestAppend
    <3> QED BY <3>2 DEF LastEvent
  <2>4. ASSUME PlanSorted, NEW j \in DOMAIN heads
        PROVE  /\ StreamSorted(streams'[j])
               /\ heads'[j] # NoHead =>
                     /\ ~Before(heads'[j], e)
                     /\ \A n \in DOMAIN streams'[j] : ~Before(streams'[j][n], heads'[j])
    <3>1. /\ StreamSorted(streams[j])
          /\ heads[j] # NoHead =>
                \A n \in DOMAIN streams[j] : ~Before(streams[j][n], heads[j])
      BY <1>1, <2>4 DEF MergeInv
    <3>2. CASE j # k
      <4>1. ASSUME heads[j] # NoHead PROVE ~Before(heads[j], e)
        <5>1. j \in Pending /\ IsHead(heads[j])
          BY <4>1 DEF Pending, TypeInv
        <5>2. Before(e, heads[j]) \/ ~Before(heads[j], e)
          BY <1>1, <3>2, <5>1 DEF Selected
        <5> QED BY <1>1, <5>1, <5>2, OrderFacts
      <4> QED BY <2>1, <3>1, <3>2, <4>1
    <3>3. CASE j = k
      <4>1. streams[k] \in Seq(Items)
        BY DEF TypeInv
      <4>2. streams'[k] = IF streams[k] = <<>> THEN <<>> ELSE Tail(streams[k])
        <5>1. k \in DOMAIN streams
          BY DEF TypeInv
        <5> QED BY <1>6, <5>1 DEF Advance
      <4>3. CASE streams[k] = <<>>
        BY <2>1, <3>1, <3>3, <4>2, <4>3
      <4>4. CASE streams[k] # <<>>
        <5>1. /\ StreamSorted(Tail(streams[k]))
              /\ \A n \in DOMAIN Tail(streams[k]) : ~Before(Tail(streams[k])[n], Head(streams[k]))
          BY <3>1, <3>3, <4>1, <4>4, SortedTail
        <5>2. 1 \in DOMAIN streams[k] /\ Head(streams[k]) = streams[k][1]
          BY <4>1, <4>4, HeadTailProperties, EmptySeq, LenProperties
        <5>3. ~Before(Head(streams[k]), e)
          BY <1>1, <3>1, <3>3, <5>2
        <5> QED BY <2>1, <3>3, <4>2, <4>4, <5>1, <5>3
      <4> QED BY <4>3, <4>4
    <3> QED BY <3>2, <3>3
  <2> QED BY <1>3, <2>1, <2>2, <2>3, <2>4 DEF MergeInv
<1> QED BY <1>4, <1>5, <1>6, MergeSteps

\* MergeInv and ErrorInv are inductive.
LEMMA OrderStep ==
    ASSUME TypeInv, CoreInv(core), PastInv, MergeInv, ErrorInv, [Next]_vars
    PROVE  MergeInv' /\ ErrorInv'
<1>1. CASE Open
  <2>1. UNCHANGED <<plan, core>> /\ core = NewCore
    BY <1>1, OpenFacts DEF Open, TypeInv
  <2>2. (PlanSorted' <=> PlanSorted) /\ core'.digest = <<>>
    BY <2>1 DEF PlanSorted, NewCore
  <2>3. ErrorInv'
    BY <1>1, <2>2, OpenFacts DEF ErrorInv, Disagreements, NoError
  <2>4. CASE phase' = "merge"
    <3>1. ASSUME PlanSorted, NEW k \in DOMAIN heads'
          PROVE  /\ StreamSorted(streams'[k])
                 /\ heads'[k] # NoHead =>
                       \A n \in DOMAIN streams'[k] : ~Before(streams'[k][n], heads'[k])
      <4>1. /\ k \in StreamKeys
            /\ heads'[k] # NoHead => /\ ItemsOf(k) # <<>> /\ heads'[k] = Head(ItemsOf(k))
                                     /\ streams'[k] = Tail(ItemsOf(k))
            /\ heads'[k] = NoHead => streams'[k] = <<>>
        BY <1>1, <2>4, <3>1, OpenFacts
      <4>2. StreamSorted(ItemsOf(k)) /\ ItemsOf(k) \in Seq(Items)
        BY <3>1, <4>1, ItemsOfType DEF PlanSorted, TypeInv
      <4>3. CASE heads'[k] = NoHead
        BY <4>1, <4>3 DEF StreamSorted
      <4>4. CASE heads'[k] # NoHead
        BY <4>1, <4>2, <4>4, SortedTail
      <4> QED BY <4>3, <4>4
    <3> QED BY <2>2, <2>3, <3>1 DEF MergeInv
  <2>5. CASE phase' # "merge"
    BY <2>3, <2>5 DEF MergeInv
  <2> QED BY <2>4, <2>5
<1>2. CASE OpenFails
  BY <1>2 DEF OpenFails, FailWith, MergeInv, ErrorInv, Disagreements
<1>3. CASE Release
  <2>1. UNCHANGED <<phase, error, plan, streams, heads, core>>
    BY <1>3, ReleaseRepeats DEF Release
  <2> QED BY <2>1 DEF MergeInv, ErrorInv, PlanSorted
<1>4. CASE Complete
  BY <1>4 DEF Complete, MergeInv, ErrorInv, PlanSorted
<1>5. CASE UNCHANGED vars
  BY <1>5 DEF vars, MergeInv, ErrorInv, PlanSorted
<1> QED BY <1>1, <1>2, <1>3, <1>4, <1>5, MergeOrder DEF Next

-----------------------------------------------------------------------------
(* The theorems.                                                           *)

\* The inductive invariant.
Inv == TypeInv /\ CoreInv(core) /\ PastInv /\ MergeInv /\ ErrorInv

\* A replay starts in the invariant.
LEMMA InvInit ==
    ASSUME Init
    PROVE  Inv
<1>1. TypeInv
  BY DEF Init, TypeInv
<1>2. CoreInv(core)
  BY NewCoreInv DEF Init
<1>3. PastInv
  <2> DEFINE h == [n \in {0} |-> NewCore]
  <2>1. NewCore.digest = <<>> /\ NewCore.ordinal = 0 /\ Len(NewCore.digest) = 0
    BY DEF NewCore
  <2>2. h[0] = NewCore
    OBVIOUS
  <2> HIDE DEF h
  <2>3. History(h, NewCore)
    <3>1. NewCore.digest \in Seq(Items) /\ 1..0 = {} /\ \A n \in 0..0 : n = 0
      BY <2>1
    <3>2. \A n \in 0..0 : /\ h[n].digest \in Seq(Items) /\ Len(h[n].digest) = n
                          /\ h[n].ordinal = n
                          /\ \A m \in 1..n : h[n].digest[m] = NewCore.digest[m]
      BY <2>1, <2>2, <3>1
    <3> QED BY <2>1, <2>2, <3>1, <3>2 DEF History
  <2>4. Follows(h, NewCore, NewCore, <<>>)
    BY <2>1, <2>2 DEF Follows
  <2>5. BufferInv
    BY <2>1 DEF BufferInv, Init
  <2> QED BY <2>3, <2>4, <2>5 DEF PastInv, Init
<1>4. MergeInv /\ ErrorInv
  BY DEF Init, MergeInv, ErrorInv, Disagreements, NoError
<1> QED BY <1>1, <1>2, <1>3, <1>4 DEF Inv

\* Inv is an invariant.
LEMMA InvHolds == Spec => []Inv
<1>1. Inv /\ [Next]_vars => Inv'
  BY TypeStep, CoreStep, PastStep, OrderStep DEF Inv
<1> QED BY InvInit, <1>1, PTL DEF Spec

\* The order checks of the reducer and of the replay core never disagree, and
\* sorted streams are merged without a regression.
THEOREM OrderChecksNeverDisagree == Spec => []OrderChecksAgree
<1>1. Inv => OrderChecksAgree
  BY DEF Inv, ErrorInv, OrderChecksAgree, PlanSorted, Disagreements
<1> QED BY <1>1, InvHolds, PTL

\* Each instrument's state counts its events of its trading date and ends with
\* the last of them.
THEOREM StatesAreTheirOwn == Spec => []StatesHoldTheirOwnEvents
<1>1. Inv => StatesHoldTheirOwnEvents
  BY DEF Inv, CoreInv, OwnInv, Own, StatesHoldTheirOwnEvents
<1> QED BY <1>1, InvHolds, PTL

\* The strategy's view is a past of the committed market.
THEOREM VisibleIsPast == Spec => []VisibleIsCommittedPast
<1>1. Inv => VisibleIsCommittedPast
  <2> SUFFICES ASSUME Inv PROVE VisibleIsCommittedPast
    OBVIOUS
  <2>1. PICK h : History(h, core) /\ Follows(h, core, visible, buffered)
    BY DEF Inv, PastInv
  <2> DEFINE m == Len(visible.digest)
  <2>2. /\ m \in 0..Len(core.digest) /\ visible = h[m] /\ Len(core.digest) \in Nat
    BY <2>1, LenProperties DEF Follows, Inv, CoreInv, DigestInv
  <2>3. /\ visible.digest \in Seq(Items) /\ visible.ordinal = m
        /\ \A n \in 1..m : visible.digest[n] = core.digest[n]
    BY <2>1, <2>2 DEF History
  <2>4. IsPrefix(visible.digest, core.digest)
    <3>1. SubSeq(visible.digest, 1, m) = SubSeq(core.digest, 1, m)
      BY <2>2, <2>3
    <3> QED BY <2>2, <3>1 DEF IsPrefix
  <2>5. visible.ordinal = core.ordinal => visible = core
    <3>1. core.ordinal = Len(core.digest)
      BY DEF Inv, CoreInv
    <3> QED BY <2>1, <2>2, <2>3, <3>1 DEF History
  <2> QED BY <2>4, <2>5 DEF VisibleIsCommittedPast, Inv, ErrorInv
<1> QED BY <1>1, InvHolds, PTL

Sorted(d) == \A m, n \in DOMAIN d : m < n => ~Before(d[n], d[m])

\* The digest holds the committed events in global order, whatever
\* the plan and whatever file turns come first.
THEOREM DigestIsSorted == Spec => []Sorted(core.digest)
<1>1. Inv => Sorted(core.digest)
  BY DEF Inv, CoreInv, DigestInv, Sorted
<1> QED BY <1>1, InvHolds, PTL

-----------------------------------------------------------------------------
(* Replay implements OrderedReplay.                                        *)

KeysDistinct == \A m, n \in DOMAIN plan : StreamKey(plan[m]) = StreamKey(plan[n]) => m = n

\* A stream with the given items has head h and rest s after c commits.
ReadUpTo(items, c, h, s) ==
    /\ c \in 0..Len(items)
    /\ h = NoHead => c = Len(items)
    /\ h # NoHead => /\ c + 1 + Len(s) = Len(items) /\ h = items[c + 1]
                     /\ \A j \in 1..Len(s) : s[j] = items[c + 1 + j]

\* c[n] items of the n-th binding are committed.
Read(c, h, s) ==
    /\ c \in [DOMAIN plan -> Nat] /\ KeysDistinct
    /\ DOMAIN h = StreamKeys
    /\ \A n \in DOMAIN plan :
          ReadUpTo(plan[n].items, c[n], h[StreamKey(plan[n])], s[StreamKey(plan[n])])

\* g tells the occurrence that each commit of digest d took, and takes exactly
\* those that were read.
Took(c, g, d) ==
    /\ g \in [1..Len(d) -> Occurrences]
    /\ \A m \in 1..Len(d) : g[m][2] <= c[g[m][1]] /\ d[m] = AllItems[g[m]]
    /\ \A l, m \in 1..Len(d) : g[l] = g[m] => l = m
    /\ \A o \in Occurrences : o[2] <= c[o[1]] => \E m \in 1..Len(d) : g[m] = o

TakenInv ==
    phase = "merge" => \E c, g : Read(c, heads, streams) /\ Took(c, g, core.digest)

\* The places of a plan.
LEMMA PlanFacts ==
    ASSUME plan \in Plans
    PROVE  /\ DOMAIN plan = 1..Len(plan) /\ Len(plan) \in Nat /\ IsFiniteSet(DOMAIN plan)
           /\ Cardinality(DOMAIN plan) = Len(plan)
           /\ \A n \in DOMAIN plan : /\ plan[n].items \in Seq(Items) /\ Len(plan[n].items) \in Nat
                                     /\ DOMAIN plan[n].items = 1..Len(plan[n].items)
<1>1. plan \in Seq(Range(plan))
  BY PlansAssumption
<1>2. DOMAIN plan = 1..Len(plan) /\ Len(plan) \in Nat
  BY <1>1, LenProperties
<1>3. IsFiniteSet(1..Len(plan)) /\ Cardinality(1..Len(plan)) = Len(plan)
  <2>1. ASSUME NEW b \in Nat PROVE IsFiniteSet(1..b) /\ Cardinality(1..b) = b
    <3>1. IsFiniteSet(1..b) /\ Cardinality(1..b) = IF 1 > b THEN 0 ELSE b - 1 + 1
      BY FS_Interval
    <3> QED BY <3>1
  <2> QED BY <1>2, <2>1
<1>4. \A n \in DOMAIN plan : plan[n].items \in Seq(Items)
  BY PlansAssumption
<1>5. \A n \in DOMAIN plan : /\ Len(plan[n].items) \in Nat
                             /\ DOMAIN plan[n].items = 1..Len(plan[n].items)
  BY <1>4, LenProperties
<1> QED BY <1>2, <1>3, <1>4, <1>5

\* An occurrence is a place of a stream.
LEMMA OccurrenceIs ==
    ASSUME plan \in Plans
    PROVE  /\ \A o \in Occurrences : /\ o[1] \in DOMAIN plan /\ o[2] \in 1..Len(plan[o[1]].items)
                                     /\ o = <<o[1], o[2]>> /\ AllItems[o] = plan[o[1]].items[o[2]]
           /\ \A n \in DOMAIN plan : \A i \in 1..Len(plan[n].items) :
                 /\ <<n, i>> \in Occurrences /\ AllItems[<<n, i>>] = plan[n].items[i]
           /\ DOMAIN AllItems = Occurrences
<1>1. \A n \in DOMAIN plan : DOMAIN plan[n].items = 1..Len(plan[n].items)
  BY PlanFacts
<1>2. \A o \in Occurrences : /\ o[1] \in DOMAIN plan /\ o[2] \in 1..Len(plan[o[1]].items)
                             /\ o = <<o[1], o[2]>>
  BY <1>1 DEF Occurrences
<1>3. \A n \in DOMAIN plan : \A i \in 1..Len(plan[n].items) : <<n, i>> \in Occurrences
  BY <1>1 DEF Occurrences
<1>4. \A o \in Occurrences : AllItems[o] = plan[o[1]].items[o[2]]
  BY DEF AllItems
<1>5. DOMAIN AllItems = Occurrences
  BY DEF AllItems
<1>6. ASSUME NEW n \in DOMAIN plan, NEW i \in 1..Len(plan[n].items)
      PROVE  AllItems[<<n, i>>] = plan[n].items[i]
  <2>1. <<n, i>>[1] = n /\ <<n, i>>[2] = i
    OBVIOUS
  <2> QED BY <1>3, <1>4, <1>6, <2>1
<1> QED BY <1>2, <1>3, <1>4, <1>5, <1>6

\* There are finitely many.
LEMMA OccurrencesFinite ==
    ASSUME plan \in Plans
    PROVE  IsFiniteSet(Occurrences)
<1> DEFINE row == [n \in DOMAIN plan |-> {<<n, i>> : i \in DOMAIN plan[n].items}]
           rows == {row[n] : n \in DOMAIN plan}
<1>1. IsFiniteSet(DOMAIN plan)
  BY PlanFacts
<1>2. IsFiniteSet(rows)
  <2> DEFINE f == [n \in DOMAIN plan |-> row[n]]
  <2>1. f \in Surjection(DOMAIN plan, rows)
    BY DEF Surjection
  <2> HIDE DEF f, rows
  <2> QED BY <1>1, <2>1, FS_Surjection
<1>3. ASSUME NEW r \in rows PROVE IsFiniteSet(r)
  <2>1. PICK n \in DOMAIN plan : r = {<<n, i>> : i \in DOMAIN plan[n].items}
    BY <1>3
  <2> DEFINE D == DOMAIN plan[n].items
             f == [i \in D |-> <<n, i>>]
  <2>2. IsFiniteSet(D)
    <3>1. D = 1..Len(plan[n].items) /\ Len(plan[n].items) \in Nat
      BY PlanFacts
    <3> HIDE DEF D
    <3> QED BY <3>1, FS_Interval
  <2>3. f \in Surjection(D, r)
    BY <2>1 DEF Surjection
  <2> HIDE DEF f, D
  <2> QED BY <2>2, <2>3, FS_Surjection
<1>4. Occurrences = UNION rows
  BY DEF Occurrences
<1> HIDE DEF rows
<1> QED BY <1>2, <1>3, <1>4, FS_UNION

\* A plan that is not refused binds every stream once.
LEMMA KeysOfPlan ==
    ASSUME plan \in Plans, PlanError = NoError
    PROVE  KeysDistinct
<1>1. Cardinality(StreamKeys) = Len(plan)
  BY DEF PlanError, NoError
<1>2. IsFiniteSet(DOMAIN plan) /\ Cardinality(DOMAIN plan) = Len(plan)
  BY PlanFacts
<1> DEFINE f == [n \in DOMAIN plan |-> StreamKey(plan[n])]
<1>3. f \in Surjection(DOMAIN plan, StreamKeys)
  BY DEF Surjection, StreamKeys
<1>4. f \in Injection(DOMAIN plan, StreamKeys)
  <2> HIDE DEF f
  <2> QED BY <1>1, <1>2, <1>3, FS_SurjSameCardinalityImpliesInj
<1> QED BY <1>4 DEF Injection, IsInjective, KeysDistinct

\* What TakenInv needs after a step.
LEMMA TakenNext ==
    ASSUME plan' = plan, NEW c, NEW g, Read(c, heads', streams'), Took(c, g, core'.digest)
    PROVE  TakenInv'
<1>1. /\ Occurrences' = Occurrences /\ StreamKeys' = StreamKeys /\ (KeysDistinct' <=> KeysDistinct)
  BY DEF Occurrences, StreamKeys, KeysDistinct
<1>2. AllItems' = AllItems
  BY <1>1 DEF AllItems
<1>3. Read(c, heads, streams)'
  BY <1>1 DEF Read
<1>4. Took(c, g, core.digest)'
  BY <1>1, <1>2 DEF Took
<1> QED BY <1>3, <1>4 DEF TakenInv

\* Nothing is read when the streams are opened.
LEMMA OpenTaken ==
    ASSUME TypeInv, Open, phase' = "merge"
    PROVE  TakenInv'
<1>1. /\ plan \in Plans /\ plan' = plan /\ core' = NewCore
      /\ DOMAIN heads' = StreamKeys
      /\ \A k \in StreamKeys :
            /\ heads'[k] # NoHead => /\ ItemsOf(k) # <<>>
                                     /\ heads'[k] = Head(ItemsOf(k))
                                     /\ streams'[k] = Tail(ItemsOf(k))
            /\ heads'[k] = NoHead => ItemsOf(k) = <<>>
  BY OpenFacts DEF TypeInv, Open
<1>2. KeysDistinct
  <2>1. PlanError = NoError
    BY DEF Open, FailWith, NoError
  <2> QED BY <1>1, <2>1, KeysOfPlan
<1> DEFINE c == [n \in DOMAIN plan |-> 0]
           g == <<>>
<1>3. ASSUME NEW n \in DOMAIN plan
      PROVE  ReadUpTo(plan[n].items, 0, heads'[StreamKey(plan[n])], streams'[StreamKey(plan[n])])
  <2> DEFINE k == StreamKey(plan[n])
             items == plan[n].items
  <2>1. k \in StreamKeys
    BY DEF StreamKeys
  <2>2. ItemsOf(k) = items
    <3>1. \E b \in Range(plan) : StreamKey(b) = k
      BY DEF Range
    <3>2. \A b \in Range(plan) : StreamKey(b) = k => b = plan[n]
      BY <1>2 DEF Range, KeysDistinct
    <3> HIDE DEF k
    <3>3. (CHOOSE b \in Range(plan) : StreamKey(b) = k) = plan[n]
      BY <3>1, <3>2
    <3> QED BY <3>3 DEF ItemsOf
  <2>3. items \in Seq(Items) /\ Len(items) \in Nat
    BY <1>1, PlanFacts
  <2> HIDE DEF k, items
  <2>4. CASE heads'[k] = NoHead
    <3>1. Len(items) = 0
      BY <1>1, <2>1, <2>2, <2>4
    <3> QED BY <2>4, <3>1 DEF ReadUpTo, k, items
  <2>5. CASE heads'[k] # NoHead
    <3>1. items # <<>> /\ heads'[k] = Head(items) /\ streams'[k] = Tail(items)
      BY <1>1, <2>1, <2>2, <2>5
    <3>2. /\ Len(items) # 0 /\ Head(items) = items[1] /\ Len(Tail(items)) = Len(items) - 1
          /\ \A j \in 1..(Len(items) - 1) : Tail(items)[j] = items[j + 1]
      BY <2>3, <3>1, HeadTailProperties, EmptySeq
    <3>3. \A j \in 1..Len(Tail(items)) : Tail(items)[j] = items[0 + 1 + j]
      BY <2>3, <3>2
    <3> QED BY <2>3, <2>5, <3>1, <3>2, <3>3 DEF ReadUpTo, k, items
  <2> QED BY <2>4, <2>5
<1>4. Read(c, heads', streams')
  BY <1>1, <1>2, <1>3 DEF Read
<1>5. NewCore.digest = <<>> /\ Len(<<>>) = 0
  BY DEF NewCore
<1>6. \A o \in Occurrences : ~(o[2] <= c[o[1]])
  BY <1>1, OccurrenceIs
<1> HIDE DEF c
<1>7. Took(c, g, <<>>)
  BY <1>5, <1>6 DEF Took
<1> QED BY <1>1, <1>4, <1>5, <1>7, TakenNext

\* One more item of the binding is committed.
LEMMA MergeTaken ==
    ASSUME TypeInv, CoreInv(core), TakenInv,
           NEW k \in DOMAIN heads, MergeHead(k) \/ CallbackFails(k), phase' = "merge"
    PROVE  TakenInv'
<1> DEFINE e == heads[k]
           d == core.digest
           q == streams[k]
<1>1. /\ phase = "merge" /\ e # NoHead /\ plan' = plan /\ plan \in Plans
      /\ core' = ApplyOrdered(core, e).core /\ ApplyOrdered(core, e).error = NoError /\ Advance(k)
      /\ e \in Items /\ IsHead(e)
  BY MergeSteps DEF TypeInv
<1>2. PICK c, g : Read(c, heads, streams) /\ Took(c, g, d)
  BY <1>1 DEF TakenInv
<1>3. core'.digest = Append(d, e) /\ d \in Seq(Items)
  BY <1>1, ApplyAccepted DEF CoreInv, DigestInv
<1>4. /\ Len(core'.digest) = Len(d) + 1 /\ Len(d) \in Nat /\ core'.digest[Len(d) + 1] = e
      /\ \A m \in 1..Len(d) : core'.digest[m] = d[m]
  BY <1>1, <1>3, LenProperties
<1>5. PICK n \in DOMAIN plan : k = StreamKey(plan[n])
  BY <1>2 DEF Read, StreamKeys
<1> DEFINE items == plan[n].items
           b == [c EXCEPT ![n] = @ + 1]
           x == <<n, c[n] + 1>>
           f == [m \in 1..(Len(d) + 1) |-> IF m = Len(d) + 1 THEN x ELSE g[m]]
<1>6. /\ items \in Seq(Items) /\ Len(items) \in Nat /\ c \in [DOMAIN plan -> Nat]
      /\ ReadUpTo(items, c[n], e, q) /\ q \in Seq(Items) /\ Len(q) \in Nat
  <2>1. ReadUpTo(items, c[n], e, q) /\ c \in [DOMAIN plan -> Nat]
    BY <1>2, <1>5 DEF Read
  <2>2. q \in Seq(Items)
    BY DEF TypeInv
  <2> QED BY <1>1, <2>1, <2>2, PlanFacts, LenProperties
<1>7. /\ c[n] + 1 + Len(q) = Len(items) /\ e = items[c[n] + 1] /\ c[n] \in Nat
      /\ \A j \in 1..Len(q) : q[j] = items[c[n] + 1 + j]
  BY <1>1, <1>6 DEF ReadUpTo
<1>8. b \in [DOMAIN plan -> Nat] /\ b[n] = c[n] + 1 /\ \A m \in DOMAIN plan : m # n => b[m] = c[m]
  BY <1>6, <1>7
<1>9. /\ DOMAIN heads' = DOMAIN heads /\ HeadError(q) = NoError
      /\ \A j \in DOMAIN heads : j # k => heads'[j] = heads[j] /\ streams'[j] = streams[j]
      /\ heads'[k] # NoHead => q # <<>> /\ heads'[k] = Head(q) /\ streams'[k] = Tail(q)
      /\ heads'[k] = NoHead => q = <<>>
  <2>1. /\ DOMAIN heads' = DOMAIN heads
        /\ \/ phase' = "failed" \/ HeadError(q) = NoError
        /\ \A j \in DOMAIN heads : j # k => heads'[j] = heads[j] /\ streams'[j] = streams[j]
        /\ heads'[k] # NoHead => q # <<>> /\ heads'[k] = Head(q) /\ streams'[k] = Tail(q)
    BY <1>1, AdvanceTypes
  <2>2. heads'[k] = IF HeadError(q) # NoError \/ q = <<>> THEN NoHead ELSE Head(q)
    BY <1>1 DEF Advance
  <2>3. q # <<>> => Head(q) # NoHead
    BY <1>6, <2>1, HeadFacts
  <2> QED BY <2>1, <2>2, <2>3
<1> HIDE DEF b, q
<1>10. ReadUpTo(items, b[n], heads'[k], streams'[k])
  <2>1. CASE heads'[k] = NoHead
    <3>1. Len(q) = 0
      BY <1>9, <2>1
    <3>2. b[n] = Len(items)
      BY <1>7, <1>8, <3>1
    <3> QED BY <1>6, <2>1, <3>2 DEF ReadUpTo
  <2>2. CASE heads'[k] # NoHead
    <3>1. /\ Len(q) # 0 /\ heads'[k] = q[1] /\ streams'[k] = Tail(q) /\ Len(Tail(q)) = Len(q) - 1
          /\ \A j \in 1..(Len(q) - 1) : Tail(q)[j] = q[j + 1]
      BY <1>6, <1>9, <2>2, HeadTailProperties, EmptySeq
    <3> DEFINE t == Tail(q)
    <3>2. b[n] + 1 + Len(t) = Len(items) /\ b[n] \in 0..Len(items)
      <4> DEFINE r == c[n]
                 y == Len(q)
                 z == Len(items)
      <4>1. r \in Nat /\ y \in Nat /\ r + 1 + y = z /\ b[n] = r + 1 /\ Len(t) = y - 1 /\ y # 0
        <5>1. Len(q) \in Nat
          BY <1>6
        <5> QED BY <1>7, <1>8, <3>1, <5>1
      <4> HIDE DEF r, y, z, t
      <4>2. (r + 1) + 1 + (y - 1) = z /\ r + 1 \in 0..z
        BY <4>1
      <4> QED BY <4>1, <4>2 DEF z
    <3>3. heads'[k] = items[b[n] + 1]
      <4>1. 1 \in 1..Len(q) /\ c[n] + 1 + 1 = b[n] + 1
        BY <1>6, <1>7, <1>8, <3>1
      <4> QED BY <1>7, <3>1, <4>1
    <3>4. ASSUME NEW j \in 1..Len(t) PROVE t[j] = items[b[n] + 1 + j]
      <4>1. j + 1 \in 1..Len(q) /\ j \in 1..(Len(q) - 1) /\ c[n] + 1 + (j + 1) = b[n] + 1 + j
        BY <1>6, <1>7, <1>8, <3>1
      <4>2. q[j + 1] = items[c[n] + 1 + (j + 1)]
        BY <1>7, <4>1
      <4> QED BY <3>1, <4>1, <4>2
    <3> HIDE DEF t
    <3> QED BY <2>2, <3>1, <3>2, <3>3, <3>4 DEF ReadUpTo, t
  <2> QED BY <2>1, <2>2
<1> HIDE DEF items
<1>11. Read(b, heads', streams')
  <2>1. KeysDistinct /\ DOMAIN heads' = StreamKeys
    BY <1>2, <1>9 DEF Read
  <2>2. ASSUME NEW m \in DOMAIN plan
        PROVE  ReadUpTo(plan[m].items, b[m], heads'[StreamKey(plan[m])], streams'[StreamKey(plan[m])])
    <3>1. CASE m = n
      BY <1>5, <1>10, <3>1 DEF items
    <3>2. CASE m # n
      <4>1. StreamKey(plan[m]) # k /\ StreamKey(plan[m]) \in DOMAIN heads
        BY <1>2, <1>5, <2>1, <3>2 DEF KeysDistinct, Read, StreamKeys
      <4>2. ReadUpTo(plan[m].items, c[m], heads[StreamKey(plan[m])], streams[StreamKey(plan[m])])
        BY <1>2 DEF Read
      <4> QED BY <1>8, <1>9, <3>2, <4>1, <4>2
    <3> QED BY <3>1, <3>2
  <2> QED BY <1>8, <2>1, <2>2 DEF Read
<1>12. /\ x \in Occurrences /\ AllItems[x] = e /\ x[1] = n /\ x[2] = c[n] + 1
  <2>1. c[n] + 1 \in 1..Len(items)
    BY <1>6, <1>7
  <2> QED BY <1>1, <1>7, <2>1, OccurrenceIs DEF items
<1> HIDE DEF x
<1>13. Took(b, f, core'.digest)
  <2>1. f[Len(d) + 1] = x /\ \A m \in 1..Len(d) : f[m] = g[m] /\ g[m] \in Occurrences
    BY <1>2, <1>4 DEF Took
  <2>2. \A m \in 1..(Len(d) + 1) : m = Len(d) + 1 \/ m \in 1..Len(d)
    BY <1>4
  <2>3. f \in [1..(Len(d) + 1) -> Occurrences]
    BY <1>12, <2>1, <2>2
  <2> HIDE DEF f
  <2>4. \A o \in Occurrences : /\ o[1] \in DOMAIN plan /\ o[2] \in Nat /\ o = <<o[1], o[2]>>
                               /\ c[o[1]] \in Nat
    BY <1>1, <1>6, OccurrenceIs
  <2>5. \A o \in Occurrences : o[2] <= b[o[1]] <=> o[2] <= c[o[1]] \/ o = x
    <3> SUFFICES ASSUME NEW o \in Occurrences
                 PROVE  o[2] <= b[o[1]] <=> o[2] <= c[o[1]] \/ o = x
      OBVIOUS
    <3>1. CASE o[1] # n
      <4>1. o # x /\ b[o[1]] = c[o[1]]
        BY <1>8, <1>12, <2>4, <3>1
      <4> QED BY <4>1
    <3>2. CASE o[1] = n
      <4>1. o[2] <= b[n] <=> o[2] <= c[n] \/ o[2] = c[n] + 1
        <5>1. \A i, j \in Nat : i <= j + 1 <=> i <= j \/ i = j + 1
          OBVIOUS
        <5> QED BY <1>7, <1>8, <2>4, <5>1
      <4>2. o = x <=> o[2] = c[n] + 1
        BY <1>12, <2>4, <3>2 DEF x
      <4> QED BY <3>2, <4>1, <4>2
    <3> QED BY <3>1, <3>2
  <2>6. \A m \in 1..Len(d) : g[m] # x
    BY <1>2, <1>7, <1>12, <2>4 DEF Took
  <2>7. \A m \in 1..(Len(d) + 1) : f[m][2] <= b[f[m][1]] /\ core'.digest[m] = AllItems[f[m]]
    <3>1. \A m \in 1..Len(d) : g[m][2] <= c[g[m][1]] /\ d[m] = AllItems[g[m]]
      BY <1>2 DEF Took
    <3> QED BY <1>4, <1>12, <2>1, <2>2, <2>5, <3>1
  <2>8. \A l, m \in 1..(Len(d) + 1) : f[l] = f[m] => l = m
    <3>1. \A l, m \in 1..Len(d) : g[l] = g[m] => l = m
      BY <1>2 DEF Took
    <3> QED BY <2>1, <2>2, <2>6, <3>1
  <2>9. \A o \in Occurrences : o[2] <= b[o[1]] => \E m \in 1..(Len(d) + 1) : f[m] = o
    <3>1. \A o \in Occurrences : o[2] <= c[o[1]] => \E m \in 1..Len(d) : g[m] = o
      BY <1>2 DEF Took
    <3>2. Len(d) + 1 \in 1..(Len(d) + 1) /\ \A m \in 1..Len(d) : m \in 1..(Len(d) + 1)
      BY <1>4
    <3> QED BY <2>1, <2>5, <3>1, <3>2
  <2> QED BY <1>4, <2>3, <2>7, <2>8, <2>9 DEF Took
<1> QED BY <1>1, <1>11, <1>13, TakenNext

\* TakenInv is inductive.
LEMMA TakenStep ==
    ASSUME Inv, TakenInv, [Next]_vars
    PROVE  TakenInv'
<1>1. CASE phase' # "merge"
  BY <1>1 DEF TakenInv
<1>2. CASE phase' = "merge" /\ Open
  BY <1>2, OpenTaken DEF Inv
<1>3. ASSUME NEW k \in DOMAIN heads, MergeHead(k) \/ CallbackFails(k), phase' = "merge"
      PROVE  TakenInv'
  BY <1>3, MergeTaken DEF Inv
<1>4. ASSUME UNCHANGED <<plan, streams, heads, core, phase>> PROVE TakenInv'
  <2>1. CASE phase = "merge"
    <3>1. PICK c, g : Read(c, heads, streams) /\ Took(c, g, core.digest)
      BY <2>1 DEF TakenInv
    <3> QED BY <1>4, <3>1, TakenNext
  <2>2. CASE phase # "merge"
    BY <1>4, <2>2 DEF TakenInv
  <2> QED BY <2>1, <2>2
<1>5. CASE phase' = "merge" /\ (OpenFails \/ Complete)
  BY <1>5 DEF OpenFails, Complete, FailWith
<1>6. CASE phase' = "merge" /\ Release
  <2>1. UNCHANGED <<plan, streams, heads, core, phase>>
    BY <1>6 DEF Release, CanRelease
  <2> QED BY <1>4, <2>1
<1>7. CASE UNCHANGED vars
  BY <1>4, <1>7 DEF vars
<1> QED BY <1>1, <1>2, <1>3, <1>5, <1>6, <1>7 DEF Next

\* Count of OrderedReplay.
LEMMA CountIs ==
    ASSUME NEW s, NEW e
    PROVE  Ordered!Count(s, e) = Cardinality({n \in DOMAIN s : s[n] = e})
BY DEF Ordered!Count, Ordered!Cardinality, Cardinality

\* The commits of an event are as many as its occurrences that were read.
LEMMA CountTaken ==
    ASSUME plan \in Plans, NEW c, NEW g, NEW d \in Seq(Items), Took(c, g, d), NEW e,
           NEW S \in SUBSET {o \in Occurrences : AllItems[o] = e},
           \A o \in S : o[2] <= c[o[1]],
           \A m \in 1..Len(d) : d[m] = e => g[m] \in S
    PROVE  Ordered!Count(d, e) = Cardinality(S)
<1> DEFINE A == {m \in DOMAIN d : d[m] = e}
           f == [m \in A |-> g[m]]
<1>1. DOMAIN d = 1..Len(d)
  BY LenProperties
<1>2. IsFiniteSet(S)
  BY OccurrencesFinite, FS_Subset
<1>3. f \in [A -> S] /\ \A m \in A : f[m] = g[m]
  BY <1>1
<1>4. \A l, m \in A : f[l] = f[m] => l = m
  BY <1>1, <1>3 DEF Took
<1>5. \A o \in S : \E m \in A : f[m] = o
  <2> SUFFICES ASSUME NEW o \in S PROVE \E m \in A : f[m] = o
    OBVIOUS
  <2>1. PICK m \in 1..Len(d) : g[m] = o
    BY DEF Took
  <2>2. d[m] = e
    BY <2>1 DEF Took
  <2> QED BY <1>1, <1>3, <2>1, <2>2
<1> HIDE DEF f
<1>6. f \in Injection(A, S) /\ f \in Surjection(A, S)
  BY <1>3, <1>4, <1>5 DEF Injection, IsInjective, Surjection
<1> HIDE DEF A
<1>7. Cardinality(A) = Cardinality(S)
  BY <1>2, <1>6, FS_Injection
<1> QED BY <1>7, CountIs DEF A

\* The event of a pending head has an occurrence that is not committed yet.
LEMMA CommitsOnce ==
    ASSUME TypeInv, CoreInv(core), TakenInv, phase = "merge", NEW k \in DOMAIN heads, heads[k] # NoHead
    PROVE  \E o \in Occurrences :
              /\ AllItems[o] = heads[k]
              /\ Ordered!Count(core.digest, AllItems[o]) < Ordered!Count(AllItems, AllItems[o])
<1> DEFINE d == core.digest
           e == heads[k]
<1>1. PICK c, g : Read(c, heads, streams) /\ Took(c, g, d)
  BY DEF TakenInv
<1>2. plan \in Plans /\ d \in Seq(Items)
  BY DEF TypeInv, CoreInv, DigestInv
<1>3. PICK n \in DOMAIN plan : k = StreamKey(plan[n])
  BY <1>1 DEF Read, StreamKeys
<1> DEFINE x == <<n, c[n] + 1>>
           B == {o \in Occurrences : AllItems[o] = e}
           S == {o \in B : o[2] <= c[o[1]]}
<1>4. /\ x \in Occurrences /\ AllItems[x] = e /\ x[1] = n /\ x[2] = c[n] + 1 /\ c[n] \in Nat
  <2>1. ReadUpTo(plan[n].items, c[n], e, streams[k]) /\ c[n] \in Nat
    BY <1>1, <1>3 DEF Read
  <2>2. streams[k] \in Seq(Items) /\ Len(streams[k]) \in Nat
    BY LenProperties DEF TypeInv
  <2>3. c[n] + 1 \in 1..Len(plan[n].items) /\ e = plan[n].items[c[n] + 1]
    <3>1. Len(plan[n].items) \in Nat
      BY <1>2, PlanFacts
    <3>2. c[n] + 1 + Len(streams[k]) = Len(plan[n].items) /\ e = plan[n].items[c[n] + 1]
      BY <2>1 DEF ReadUpTo
    <3>3. \A i, j, l \in Nat : i + 1 + j = l => i + 1 \in 1..l
      OBVIOUS
    <3> QED BY <2>1, <2>2, <3>1, <3>2, <3>3
  <2> QED BY <1>2, <2>1, <2>3, OccurrenceIs
<1> HIDE DEF x
<1>5. x \in B /\ x \notin S
  BY <1>4
<1>6. Ordered!Count(d, e) = Cardinality(S)
  <2>1. \A m \in 1..Len(d) : d[m] = e => g[m] \in S
    BY <1>1 DEF Took
  <2>2. S \in SUBSET B /\ \A o \in S : o[2] <= c[o[1]]
    OBVIOUS
  <2> HIDE DEF S, e, d
  <2> QED BY <1>1, <1>2, <2>1, <2>2, CountTaken
<1>7. Ordered!Count(AllItems, e) = Cardinality(B)
  BY <1>2, CountIs, OccurrenceIs
<1>8. S \in SUBSET (B \ {x})
  BY <1>5
<1>9. IsFiniteSet(B)
  BY <1>2, OccurrencesFinite, FS_Subset
<1> HIDE DEF B, S
<1>10. IsFiniteSet(B \ {x}) /\ Cardinality(B \ {x}) = Cardinality(B) - 1
  BY <1>5, <1>9, FS_RemoveElement
<1>11. Cardinality(S) <= Cardinality(B \ {x})
  BY <1>8, <1>10, FS_Subset
<1>12. IsFiniteSet(S) /\ Cardinality(S) \in Nat /\ Cardinality(B) \in Nat
  BY <1>8, <1>9, <1>10, FS_Subset, FS_CardinalityType
<1>13. Cardinality(S) < Cardinality(B)
  BY <1>10, <1>11, <1>12
<1> QED BY <1>4, <1>6, <1>7, <1>13

\* With no head left, every occurrence is committed.
LEMMA AllCommitted ==
    ASSUME TypeInv, CoreInv(core), TakenInv, phase = "merge", Pending = {}, NEW e
    PROVE  Ordered!Count(core.digest, e) = Ordered!Count(AllItems, e)
<1> DEFINE d == core.digest
           B == {o \in Occurrences : AllItems[o] = e}
<1>1. PICK c, g : Read(c, heads, streams) /\ Took(c, g, d)
  BY DEF TakenInv
<1>2. plan \in Plans /\ d \in Seq(Items)
  BY DEF TypeInv, CoreInv, DigestInv
<1>3. ASSUME NEW o \in Occurrences PROVE o[2] <= c[o[1]]
  <2>1. o[1] \in DOMAIN plan /\ o[2] \in 1..Len(plan[o[1]].items) /\ Len(plan[o[1]].items) \in Nat
    BY <1>2, OccurrenceIs, PlanFacts
  <2> DEFINE k == StreamKey(plan[o[1]])
  <2>2. k \in DOMAIN heads /\ ReadUpTo(plan[o[1]].items, c[o[1]], heads[k], streams[k])
    BY <1>1, <2>1 DEF Read, StreamKeys
  <2>3. heads[k] = NoHead
    BY <2>2 DEF Pending
  <2>4. c[o[1]] = Len(plan[o[1]].items)
    BY <2>2, <2>3 DEF ReadUpTo
  <2> QED BY <2>1, <2>4
<1>4. \A m \in 1..Len(d) : d[m] = e => g[m] \in B
  BY <1>1 DEF Took
<1>5. B \in SUBSET B /\ \A o \in B : o[2] <= c[o[1]]
  BY <1>3
<1>6. Ordered!Count(AllItems, e) = Cardinality(B)
  BY <1>2, CountIs, OccurrenceIs
<1> HIDE DEF d
<1>7. Ordered!Count(d, e) = Cardinality(B)
  BY <1>1, <1>2, <1>4, <1>5, CountTaken
<1> QED BY <1>6, <1>7 DEF d

\* The status that OrderedReplay sees.
Status == IF phase \in {"open", "merge"} THEN "running" ELSE phase

\* A commit of Replay is one of OrderedReplay, whatever is read after it.
LEMMA CommitRefines ==
    ASSUME Inv, TakenInv, NEW k \in DOMAIN heads, MergeHead(k) \/ CallbackFails(k),
           ApplyOrdered(core, heads[k]).error = NoError
    PROVE  Ordered!Commit
<1> DEFINE e == heads[k]
           d == core.digest
<1>1. /\ phase = "merge" /\ e # NoHead /\ e \in Items /\ IsHead(e) /\ plan' = plan
      /\ core' = ApplyOrdered(core, e).core /\ phase' \in {"merge", "failed"}
  <2>1. CASE Advance(k)
    BY <2>1, MergeSteps, AdvanceTypes DEF Inv
  <2>2. CASE ~Advance(k)
    BY <2>2, MergeSteps DEF Inv
  <2> QED BY <2>1, <2>2
<1>2. core'.digest = Append(d, e)
  BY <1>1, ApplyAccepted DEF Inv
<1>3. d # <<>> => ~Before(e, d[Len(d)])
  <2>1. GlobalOrderError(core, e) = NoError
    BY DEF ApplyOrdered, NoError
  <2> QED BY <2>1 DEF GlobalOrderError, NoError, LastEvent
<1>4. PICK o \in Occurrences : /\ AllItems[o] = e
                               /\ Ordered!Count(d, AllItems[o]) < Ordered!Count(AllItems, AllItems[o])
  BY <1>1, CommitsOnce DEF Inv
<1>5. AllItems' = AllItems
  BY <1>1 DEF AllItems, Occurrences
<1>6. DOMAIN AllItems = Occurrences
  BY <1>1, OccurrenceIs DEF Inv, TypeInv
<1>7. Status = "running" /\ Status' \in {"running", "failed"}
  BY <1>1 DEF Status
<1> HIDE DEF e
<1> QED BY <1>2, <1>3, <1>4, <1>5, <1>6, <1>7 DEF Ordered!Commit, Status

\* A step that commits nothing leaves OrderedReplay where it is, or fails it.
LEMMA StopRefines ==
    ASSUME UNCHANGED <<plan, core>>, \/ UNCHANGED phase
                                     \/ phase \in {"open", "merge"} /\ phase' \in {"merge", "failed"}
    PROVE  Ordered!Fail \/ UNCHANGED Ordered!vars
<1>1. AllItems' = AllItems
  BY DEF AllItems, Occurrences
<1>2. Status' = Status \/ (Status = "running" /\ Status' = "failed")
  BY DEF Status
<1> QED BY <1>1, <1>2 DEF Ordered!Fail, Ordered!vars, Status

\* Every step of Replay is a step of OrderedReplay or none.
LEMMA StepRefines ==
    ASSUME Inv, TakenInv, [Next]_vars
    PROVE  [Ordered!Next]_(Ordered!vars)
<1>1. ASSUME NEW k \in DOMAIN heads, MergeHead(k) \/ CallbackFails(k)
      PROVE  Ordered!Next \/ UNCHANGED Ordered!vars
  <2>1. CASE ApplyOrdered(core, heads[k]).error = NoError
    BY <1>1, <2>1, CommitRefines DEF Ordered!Next
  <2>2. CASE ApplyOrdered(core, heads[k]).error # NoError
    <3>1. /\ phase = "merge" /\ phase' = "failed" /\ plan' = plan
          /\ core' = ApplyOrdered(core, heads[k]).core /\ heads[k] \in Items /\ IsHead(heads[k])
      BY <1>1, <2>2, MergeSteps DEF Inv
    <3>2. core' = core
      BY <2>2, <3>1, ApplyRefused DEF Inv
    <3> QED BY <3>1, <3>2, StopRefines DEF Ordered!Next
  <2> QED BY <2>1, <2>2
<1>2. CASE Open \/ OpenFails \/ Release \/ UNCHANGED vars
  <2>1. UNCHANGED <<plan, core>>
    BY <1>2 DEF Open, OpenFails, Release, vars
  <2>2. UNCHANGED phase \/ (phase \in {"open", "merge"} /\ phase' \in {"merge", "failed"})
    BY <1>2 DEF Open, OpenFails, Release, CanRelease, FailWith, vars
  <2> QED BY <2>1, <2>2, StopRefines DEF Ordered!Next
<1>3. CASE Complete
  <2>1. /\ phase = "merge" /\ Pending = {} /\ phase' = "done" /\ plan' = plan /\ core' = core
    BY <1>3 DEF Complete
  <2>2. \A o \in DOMAIN AllItems :
           Ordered!Count(core.digest, AllItems[o]) = Ordered!Count(AllItems, AllItems[o])
    BY <2>1, AllCommitted DEF Inv
  <2>3. AllItems' = AllItems
    BY <2>1 DEF AllItems, Occurrences
  <2>4. Status = "running" /\ Status' = "done"
    BY <2>1 DEF Status
  <2> QED BY <2>1, <2>2, <2>3, <2>4 DEF Ordered!Complete, Ordered!Next, Status
<1> QED BY <1>1, <1>2, <1>3 DEF Next

\* The merge of any plan's streams implements OrderedReplay: an event is
\* committed once for every place it has in the streams and never before one
\* that sorts behind it, and replay_frozen_multi_with completes only when
\* nothing is left in any stream.
THEOREM ReplayRefinesOrdered == Spec => Ordered!SafeSpec
<1>1. Init => Ordered!Init
  BY DEF Init, Ordered!Init, NewCore
<1>2. Init => TakenInv
  BY DEF Init, TakenInv
<1>3. Inv /\ TakenInv /\ [Next]_vars => TakenInv'
  BY TakenStep
<1>4. Inv /\ TakenInv /\ [Next]_vars => [Ordered!Next]_(Ordered!vars)
  BY StepRefines
<1> QED BY <1>1, <1>2, <1>3, <1>4, InvHolds, PTL DEF Spec, Ordered!SafeSpec
=============================================================================
