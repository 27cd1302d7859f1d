------------------------- MODULE SubsequentRunProofs ------------------------
(***************************************************************************)
(* Theorems about SubsequentRun, for every tape, schedule, model and       *)
(* strategy: no fill looks ahead, displayed evidence is sold once, fills   *)
(* reach the ledger once, the strategy hears of everything, and orders end *)
(* with their segment.                                                     *)
(***************************************************************************)
EXTENDS SubsequentRun, InductionLemmas

-----------------------------------------------------------------------------
(* The loops.                                                              *)

\* What the loop of a cancellation has reported after each order.
Reports(f, s, ended, top) ==
    /\ f[0] = <<>>
    /\ \A n \in 1..top :
         f[n] = IF n \notin ended THEN f[n - 1]
                ELSE Append(f[n - 1], Feedback("Cancelled", s.orders[n].id, 0))
EndedAt(s, ending) == {n \in ending : Live(s.orders[n])}
CanReport(s, ended, m) == \E g : Reports(g, s, ended, m)

\* The feedback of a cancellation is what its loop ends with.
LEMMA CancelLoop ==
    ASSUME NEW s, NEW ending, Len(s.orders) \in Nat
    PROVE  \E f : /\ Reports(f, s, EndedAt(s, ending), Len(s.orders))
                  /\ Cancel(s, ending).feedback = f[Len(s.orders)]
<1> DEFINE ended == {n \in ending : Live(s.orders[n])}
           N == Len(s.orders)
           Rec(f) == f = [n \in 0..N |->
                            IF n = 0 THEN <<>>
                            ELSE IF n \notin ended THEN f[n - 1]
                            ELSE Append(f[n - 1], Feedback("Cancelled", s.orders[n].id, 0))]
           end == CHOOSE f : Rec(f)
           S == {m \in Nat : CanReport(s, ended, m)}
<1>1. 0 \in S
  <2> DEFINE g == [n \in {0} |-> <<>>]
  <2>1. Reports(g, s, ended, 0)
    BY DEF Reports
  <2> HIDE DEF g, ended
  <2> QED BY <2>1 DEF CanReport
<1>2. ASSUME NEW m \in Nat, m \in S PROVE m + 1 \in S
  <2> HIDE DEF ended
  <2>1. PICK g : Reports(g, s, ended, m)
    BY <1>2 DEF CanReport
  <2> DEFINE x == IF m + 1 \notin ended THEN g[m]
                  ELSE Append(g[m], Feedback("Cancelled", s.orders[m + 1].id, 0))
             h == [n \in 0..(m + 1) |-> IF n = m + 1 THEN x ELSE g[n]]
  <2>2. h[0] = <<>>
    BY <2>1 DEF Reports
  <2>3. ASSUME NEW n \in 1..(m + 1)
        PROVE  h[n] = IF n \notin ended THEN h[n - 1]
                      ELSE Append(h[n - 1], Feedback("Cancelled", s.orders[n].id, 0))
    <3>1. CASE n = m + 1
      <4>1. h[n] = x /\ h[n - 1] = g[m]
        BY <3>1
      <4> HIDE DEF h
      <4> QED BY <4>1, <3>1
    <3>2. CASE n # m + 1
      <4>1. n \in 1..m /\ h[n] = g[n] /\ h[n - 1] = g[n - 1]
        BY <3>2
      <4> HIDE DEF h
      <4> QED BY <4>1, <2>1 DEF Reports
    <3> QED BY <3>1, <3>2
  <2> HIDE DEF h
  <2>4. Reports(h, s, ended, m + 1)
    BY <2>2, <2>3 DEF Reports
  <2> QED BY <2>4 DEF CanReport
<1>3. N \in S
  <2> HIDE DEF S, N
  <2>1. \A m \in Nat : m \in S
    BY <1>1, <1>2, SetInduction
  <2> QED BY <2>1 DEF N
<1>4. PICK g : Reports(g, s, ended, N)
  BY <1>3 DEF CanReport
<1>5. Rec([n \in 0..N |-> g[n]])
  <2> DEFINE h == [n \in 0..N |-> g[n]]
  <2>1. \A n \in 0..N : h[n] = IF n = 0 THEN <<>>
                               ELSE IF n \notin ended THEN h[n - 1]
                               ELSE Append(h[n - 1], Feedback("Cancelled", s.orders[n].id, 0))
    <3> HIDE DEF ended
    <3> QED BY <1>4 DEF Reports
  <2> QED BY <2>1
<1>6. Rec(end)
  <2> HIDE DEF Rec
  <2> QED BY <1>5
<1>7. Reports(end, s, ended, N)
  <2> HIDE DEF end, ended
  <2>1. \A n \in 0..N : end[n] = IF n = 0 THEN <<>>
                                 ELSE IF n \notin ended THEN end[n - 1]
                                 ELSE Append(end[n - 1], Feedback("Cancelled", s.orders[n].id, 0))
    BY <1>6
  <2> QED BY <2>1 DEF Reports
<1>8. Cancel(s, ending).feedback = end[N]
  BY DEF Cancel
<1>9. EndedAt(s, ending) = ended
  BY DEF EndedAt
<1> HIDE DEF end, N, ended
<1> QED BY <1>7, <1>8, <1>9 DEF N

\* What the loop of evaluate has done after each order.
MatchStart(s, m, e) ==
    [orders |-> s.orders, fills |-> s.fills, feedback |-> <<>>, error |-> NoError,
     left |-> [side \in {"Buy", "Sell"} |-> Evidence(e, m, side)]]
Matches(f, s, m, e, k, top) ==
    /\ f[0] = MatchStart(s, m, e)
    /\ \A n \in 1..top : f[n] = MatchOrder(f[n - 1], n, e, k, m)
CanMatch(s, m, e, k, top) == \E g : Matches(g, s, m, e, k, top)
MayMatch(context) ==
    /\ ~Interrupts(context) /\ context.matching \in {"Continuous", "CallAuction"}
    /\ ~Blocked(context.entry) /\ context.entry # "Unknown"

\* An evaluation ends as its loop does.
LEMMA MatchLoop ==
    ASSUME NEW s, NEW m, NEW e, NEW k, NEW context, Len(s.orders) \in Nat, MayMatch(context)
    PROVE  \E f : /\ Matches(f, s, m, e, k, Len(s.orders))
                  /\ LET end == f[Len(s.orders)]
                     IN  EvaluateEvent(s, m, e, k, context) =
                           [error |-> end.error, feedback |-> end.feedback,
                            sim |-> [orders |-> end.orders, fills |-> end.fills]]
<1> DEFINE N == Len(s.orders)
           Rec(f) == f = [n \in 0..N |-> IF n = 0 THEN MatchStart(s, m, e) ELSE MatchOrder(f[n - 1], n, e, k, m)]
           end == CHOOSE f : Rec(f)
           S == {q \in Nat : CanMatch(s, m, e, k, q)}
<1>1. 0 \in S
  <2> DEFINE g == [n \in {0} |-> MatchStart(s, m, e)]
  <2>1. Matches(g, s, m, e, k, 0)
    BY DEF Matches
  <2> HIDE DEF g
  <2> QED BY <2>1 DEF CanMatch
<1>2. ASSUME NEW q \in Nat, q \in S PROVE q + 1 \in S
  <2>1. PICK g : Matches(g, s, m, e, k, q)
    BY <1>2 DEF CanMatch
  <2> DEFINE h == [n \in 0..(q + 1) |-> IF n = q + 1 THEN MatchOrder(g[q], q + 1, e, k, m) ELSE g[n]]
  <2>2. h[0] = MatchStart(s, m, e)
    BY <2>1 DEF Matches
  <2>3. ASSUME NEW n \in 1..(q + 1) PROVE h[n] = MatchOrder(h[n - 1], n, e, k, m)
    <3>1. CASE n = q + 1
      <4>1. h[n] = MatchOrder(g[q], q + 1, e, k, m) /\ h[n - 1] = g[q]
        BY <3>1
      <4> HIDE DEF h
      <4> QED BY <4>1, <3>1
    <3>2. CASE n # q + 1
      <4>1. n \in 1..q /\ h[n] = g[n] /\ h[n - 1] = g[n - 1]
        BY <3>2
      <4> HIDE DEF h
      <4> QED BY <4>1, <2>1 DEF Matches
    <3> QED BY <3>1, <3>2
  <2> HIDE DEF h
  <2>4. Matches(h, s, m, e, k, q + 1)
    BY <2>2, <2>3 DEF Matches
  <2> QED BY <2>4 DEF CanMatch
<1>3. N \in S
  <2> HIDE DEF S, N
  <2>1. \A q \in Nat : q \in S
    BY <1>1, <1>2, SetInduction
  <2> QED BY <2>1 DEF N
<1>4. PICK g : Matches(g, s, m, e, k, N)
  BY <1>3 DEF CanMatch
<1>5. Rec([n \in 0..N |-> g[n]])
  <2> DEFINE h == [n \in 0..N |-> g[n]]
  <2>1. \A n \in 0..N : h[n] = IF n = 0 THEN MatchStart(s, m, e) ELSE MatchOrder(h[n - 1], n, e, k, m)
    BY <1>4 DEF Matches
  <2> QED BY <2>1
<1>6. Rec(end)
  <2> HIDE DEF Rec
  <2> QED BY <1>5
<1>7. Matches(end, s, m, e, k, N)
  <2> HIDE DEF end
  <2>1. \A n \in 0..N : end[n] = IF n = 0 THEN MatchStart(s, m, e) ELSE MatchOrder(end[n - 1], n, e, k, m)
    BY <1>6
  <2> QED BY <2>1 DEF Matches
<1>8. EvaluateEvent(s, m, e, k, context) =
        [error |-> end[N].error, feedback |-> end[N].feedback,
         sim |-> [orders |-> end[N].orders, fills |-> end[N].fills]]
  BY DEF EvaluateEvent, MayMatch, MatchStart
<1> HIDE DEF end, N
<1> QED BY <1>7, <1>8 DEF N

\* What the loop over a callback's intents has done after each of them.
Submits(f, intents, top) ==
    /\ f[0] = [sims |-> sims, feedback |-> <<>>]
    /\ \A n \in 1..top : f[n] = SubmitNext(f[n - 1], n, intents[n])
CanSubmit(intents, top) == \E g : Submits(g, intents, top)

\* The submission of intents ends as its loop does.
LEMMA SubmitLoop ==
    ASSUME NEW intents, Len(intents) \in Nat
    PROVE  \E f : Submits(f, intents, Len(intents)) /\ SubmitAll(intents) = f[Len(intents)]
<1> DEFINE N == Len(intents)
           Rec(f) == f = [n \in 0..N |-> IF n = 0 THEN [sims |-> sims, feedback |-> <<>>] ELSE SubmitNext(f[n - 1], n, intents[n])]
           end == CHOOSE f : Rec(f)
           S == {m \in Nat : CanSubmit(intents, m)}
<1>1. 0 \in S
  <2> DEFINE g == [n \in {0} |-> [sims |-> sims, feedback |-> <<>>]]
  <2>1. Submits(g, intents, 0)
    BY DEF Submits
  <2> HIDE DEF g
  <2> QED BY <2>1 DEF CanSubmit
<1>2. ASSUME NEW m \in Nat, m \in S PROVE m + 1 \in S
  <2>1. PICK g : Submits(g, intents, m)
    BY <1>2 DEF CanSubmit
  <2> DEFINE h == [n \in 0..(m + 1) |-> IF n = m + 1 THEN SubmitNext(g[m], m + 1, intents[m + 1]) ELSE g[n]]
  <2>2. h[0] = [sims |-> sims, feedback |-> <<>>]
    BY <2>1 DEF Submits
  <2>3. ASSUME NEW n \in 1..(m + 1) PROVE h[n] = SubmitNext(h[n - 1], n, intents[n])
    <3>1. CASE n = m + 1
      <4>1. h[n] = SubmitNext(g[m], m + 1, intents[m + 1]) /\ h[n - 1] = g[m]
        BY <3>1
      <4> HIDE DEF h
      <4> QED BY <4>1, <3>1
    <3>2. CASE n # m + 1
      <4>1. n \in 1..m /\ h[n] = g[n] /\ h[n - 1] = g[n - 1]
        BY <3>2
      <4> HIDE DEF h
      <4> QED BY <4>1, <2>1 DEF Submits
    <3> QED BY <3>1, <3>2
  <2> HIDE DEF h
  <2>4. Submits(h, intents, m + 1)
    BY <2>2, <2>3 DEF Submits
  <2> QED BY <2>4 DEF CanSubmit
<1>3. N \in S
  <2> HIDE DEF S, N
  <2>1. \A m \in Nat : m \in S
    BY <1>1, <1>2, SetInduction
  <2> QED BY <2>1 DEF N
<1>4. PICK g : Submits(g, intents, N)
  BY <1>3 DEF CanSubmit
<1>5. Rec([n \in 0..N |-> g[n]])
  <2> DEFINE h == [n \in 0..N |-> g[n]]
  <2>1. \A n \in 0..N : h[n] = IF n = 0 THEN [sims |-> sims, feedback |-> <<>>] ELSE SubmitNext(h[n - 1], n, intents[n])
    BY <1>4 DEF Submits
  <2> QED BY <2>1
<1>6. Rec(end)
  <2> HIDE DEF Rec
  <2> QED BY <1>5
<1>7. Submits(end, intents, N)
  <2> HIDE DEF end
  <2>1. \A n \in 0..N : end[n] = IF n = 0 THEN [sims |-> sims, feedback |-> <<>>] ELSE SubmitNext(end[n - 1], n, intents[n])
    BY <1>6
  <2> QED BY <2>1 DEF Submits
<1>8. SubmitAll(intents) = end[N]
  BY DEF SubmitAll
<1> HIDE DEF end, N
<1> QED BY <1>7, <1>8 DEF N

-----------------------------------------------------------------------------
(* What cancelling and matching do to orders.                              *)

IsOrder(o) ==
    DOMAIN o = {"id", "intent", "origin", "eligible", "segment", "filled", "status"}
AreOrders(s) == IsSeq(s) /\ \A n \in 1..Len(s) : IsOrder(s[n])
IsSim(s) == s = [orders |-> s.orders, fills |-> s.fills] /\ AreOrders(s.orders) /\ IsSeq(s.fills)

\* b is the order a at a later time: nothing is different but the fill and the
\* status of a live order.
Later(a, b) ==
    /\ IsOrder(b) /\ b.id = a.id /\ b.intent = a.intent /\ b.origin = a.origin
    /\ b.eligible = a.eligible /\ b.segment = a.segment
    /\ ~Live(a) => b = a
Evolved(s, t) == AreOrders(t) /\ Len(t) = Len(s) /\ \A n \in 1..Len(s) : Later(s[n], t[n])

LEMMA EvolvedFacts ==
    /\ \A s : AreOrders(s) => Evolved(s, s)
    /\ \A s, t, u : Evolved(s, t) /\ Evolved(t, u) => Evolved(s, u)
<1>1. \A s : AreOrders(s) => Evolved(s, s)
  BY DEF Evolved, Later, AreOrders
<1>2. ASSUME NEW s, NEW t, NEW u, Evolved(s, t), Evolved(t, u) PROVE Evolved(s, u)
  <2>1. ASSUME NEW n \in 1..Len(s) PROVE Later(s[n], u[n])
    <3>1. Later(s[n], t[n]) /\ Later(t[n], u[n])
      BY <1>2 DEF Evolved
    <3> QED BY <3>1 DEF Later
  <2> QED BY <1>2, <2>1 DEF Evolved
<1> QED BY <1>1, <1>2

\* A cancellation ends the live ones of the orders it is for.
LEMMA CancelFacts ==
    ASSUME NEW s, NEW ending, IsSim(s), ending \subseteq DOMAIN s.orders
    PROVE  LET r == Cancel(s, ending)
           IN  /\ IsSim(r.sim) /\ r.sim.fills = s.fills
               /\ Evolved(s.orders, r.sim.orders)
               /\ \A n \in ending : ~Live(r.sim.orders[n])
               /\ \A n \in 1..Len(s.orders) :
                    /\ r.sim.orders[n].filled = s.orders[n].filled
                    /\ r.sim.orders[n].status =
                         IF n \in EndedAt(s, ending) THEN "Cancelled" ELSE s.orders[n].status
<1> DEFINE t == [n \in DOMAIN s.orders |->
                   IF n \in EndedAt(s, ending) THEN [s.orders[n] EXCEPT !.status = "Cancelled"]
                   ELSE s.orders[n]]
           r == Cancel(s, ending)
<1>1. r.sim = [s EXCEPT !.orders = t]
  BY DEF Cancel, EndedAt
<1>2. r.sim = [orders |-> t, fills |-> s.fills]
  BY <1>1 DEF IsSim
<1>3. Len(s.orders) \in Nat /\ DOMAIN s.orders = 1..Len(s.orders)
  BY SeqFacts DEF IsSim, AreOrders
<1>4. IsSeq(t) /\ Len(t) = Len(s.orders)
  <2>1. t = [n \in 1..Len(s.orders) |-> t[n]]
    BY <1>3
  <2> HIDE DEF t
  <2> QED BY <1>3, <2>1, FunctionIsSeq
<1>5. ASSUME NEW n \in 1..Len(s.orders)
      PROVE  /\ IsOrder(t[n]) /\ Later(s.orders[n], t[n])
             /\ n \in ending => ~Live(t[n])
             /\ t[n].filled = s.orders[n].filled
             /\ t[n].status = IF n \in EndedAt(s, ending) THEN "Cancelled" ELSE s.orders[n].status
  <2>1. IsOrder(s.orders[n])
    BY DEF IsSim, AreOrders
  <2>2. CASE n \in EndedAt(s, ending)
    <3>1. t[n] = [s.orders[n] EXCEPT !.status = "Cancelled"] /\ Live(s.orders[n])
      BY <1>3, <2>2 DEF EndedAt
    <3> HIDE DEF t
    <3> QED BY <2>1, <2>2, <3>1 DEF IsOrder, Later, Live
  <2>3. CASE n \notin EndedAt(s, ending)
    <3>1. t[n] = s.orders[n]
      BY <1>3, <2>3
    <3> HIDE DEF t
    <3> QED BY <2>1, <2>3, <3>1 DEF Later, EndedAt
  <2> QED BY <2>2, <2>3
<1> HIDE DEF t, r
<1>6. IsSim(r.sim) /\ Evolved(s.orders, t)
  BY <1>2, <1>4, <1>5 DEF IsSim, AreOrders, Evolved
<1> QED BY <1>2, <1>3, <1>5, <1>6 DEF r

\* The fill that an evaluation gives to the n-th order, if it gives one.
Avail(acc, n) == acc.left[acc.orders[n].intent.side]
FillPrice(acc, n, m) == Slipped(Avail(acc, n)[1].price, acc.orders[n].intent.side, m)
FillQuantity(acc, n, m) ==
    IF m.quantity = "Unlimited" \/ Remaining(acc.orders[n]) <= Avail(acc, n)[1].quantity
    THEN Remaining(acc.orders[n]) ELSE Avail(acc, n)[1].quantity
FillStatus(acc, n, m) ==
    IF FillQuantity(acc, n, m) = Remaining(acc.orders[n]) THEN "Filled" ELSE "PartiallyFilled"
FillOf(acc, n, e, k, m) ==
    [order |-> acc.orders[n].id, ordinal |-> k, time |-> e.time,
     side |-> acc.orders[n].intent.side, price |-> FillPrice(acc, n, m),
     quantity |-> FillQuantity(acc, n, m)]
FilledOrder(acc, n, m) ==
    [acc.orders[n] EXCEPT !.filled = @ + FillQuantity(acc, n, m), !.status = FillStatus(acc, n, m)]
IsAcc(acc) ==
    acc = [orders |-> acc.orders, fills |-> acc.fills, feedback |-> acc.feedback,
           error |-> acc.error, left |-> acc.left]
GivesFill(acc, r, n, e, k, m) ==
    /\ Eligible(acc.orders[n], e, k) /\ Avail(acc, n) # <<>>
    /\ LimitTouched(acc.orders[n].intent, FillPrice(acc, n, m))
    /\ r.orders = [acc.orders EXCEPT ![n] = FilledOrder(acc, n, m)]
    /\ r.fills = Append(acc.fills, FillOf(acc, n, e, k, m))
    /\ r.feedback = Append(acc.feedback,
         Feedback(FillStatus(acc, n, m), acc.orders[n].id, FillQuantity(acc, n, m)))
    /\ r.left = [acc.left EXCEPT ![acc.orders[n].intent.side] =
                   LeftAfter(m, Avail(acc, n), FillQuantity(acc, n, m))]
Passes(acc, r) ==
    r.orders = acc.orders /\ r.fills = acc.fills /\ r.feedback = acc.feedback /\ r.left = acc.left

\* One order of an evaluation is passed over or filled.
LEMMA MatchCases ==
    ASSUME NEW acc, NEW n, NEW e, NEW k, NEW m, IsAcc(acc)
    PROVE  LET r == MatchOrder(acc, n, e, k, m)
           IN  IsAcc(r) /\ (Passes(acc, r) \/ GivesFill(acc, r, n, e, k, m))
<1> DEFINE r == MatchOrder(acc, n, e, k, m)
           q == [acc EXCEPT !.error = "InvalidSlippage"]
           g == [orders |-> [acc.orders EXCEPT ![n] = FilledOrder(acc, n, m)],
                 fills |-> Append(acc.fills, FillOf(acc, n, e, k, m)),
                 feedback |-> Append(acc.feedback,
                    Feedback(FillStatus(acc, n, m), acc.orders[n].id, FillQuantity(acc, n, m))),
                 error |-> NoError,
                 left |-> [acc.left EXCEPT ![acc.orders[n].intent.side] =
                             LeftAfter(m, Avail(acc, n), FillQuantity(acc, n, m))]]
<1>1. \/ r = acc \/ r = q
      \/ /\ r = g /\ Eligible(acc.orders[n], e, k) /\ Avail(acc, n) # <<>>
         /\ LimitTouched(acc.orders[n].intent, FillPrice(acc, n, m))
  BY DEF MatchOrder, Avail, FillPrice, FillQuantity, FillStatus, FillOf, FilledOrder
<1>2. IsAcc(q) /\ Passes(acc, q)
  BY DEF IsAcc, Passes
<1>3. /\ IsAcc(g) /\ g.orders = [acc.orders EXCEPT ![n] = FilledOrder(acc, n, m)]
      /\ g.fills = Append(acc.fills, FillOf(acc, n, e, k, m))
      /\ g.feedback = Append(acc.feedback,
           Feedback(FillStatus(acc, n, m), acc.orders[n].id, FillQuantity(acc, n, m)))
      /\ g.left = [acc.left EXCEPT ![acc.orders[n].intent.side] =
                     LeftAfter(m, Avail(acc, n), FillQuantity(acc, n, m))]
  BY DEF IsAcc
<1>4. Passes(acc, acc)
  BY DEF Passes
<1> HIDE DEF r, q, g
<1> QED BY <1>1, <1>2, <1>3, <1>4 DEF GivesFill, r

\* A fill of one of the orders s, as event e gives it.
FillFrom(x, s, e, k, m) ==
    \E j \in 1..Len(s) :
      /\ Eligible(s[j], e, k)
      /\ x.order = s[j].id /\ x.ordinal = k /\ x.time = e.time /\ x.side = s[j].intent.side
      /\ Evidence(e, m, x.side) # <<>>
      /\ x.price = Slipped(Evidence(e, m, x.side)[1].price, x.side, m)
      /\ LimitTouched(s[j].intent, x.price)
Prolongs(s, t) == IsSeq(t) /\ Len(s) <= Len(t) /\ \A n \in 1..Len(s) : t[n] = s[n]
Sides == {"Buy", "Sell"}
HaveSides(s) == \A n \in 1..Len(s) : s[n].intent.side \in Sides

\* After n orders: the orders evolved, the later ones untouched, the new fills
\* as they should be, and what is left has the price of the evidence.
MatchedTo(acc, s, n, e, k, m) ==
    /\ IsAcc(acc) /\ IsSeq(acc.feedback)
    /\ Evolved(s.orders, acc.orders)
    /\ \A j \in (n + 1)..Len(s.orders) : acc.orders[j] = s.orders[j]
    /\ Prolongs(s.fills, acc.fills)
    /\ \A j \in (Len(s.fills) + 1)..Len(acc.fills) : FillFrom(acc.fills[j], s.orders, e, k, m)
    /\ DOMAIN acc.left = Sides
    /\ \A side \in Sides : acc.left[side] # <<>> =>
         Evidence(e, m, side) # <<>> /\ acc.left[side][1].price = Evidence(e, m, side)[1].price

\* The order that is filled, before and after.
LEMMA OrderUpdate ==
    ASSUME NEW o, NEW q, NEW x, IsOrder(o), Live(o)
    PROVE  LET b == [o EXCEPT !.filled = @ + q, !.status = x]
           IN  Later(o, b) /\ b.filled = o.filled + q /\ b.status = x
BY DEF IsOrder, Later

LEMMA FillEvolves ==
    ASSUME NEW acc, NEW n, NEW m, IsOrder(acc.orders[n]), Live(acc.orders[n])
    PROVE  /\ Later(acc.orders[n], FilledOrder(acc, n, m))
           /\ FilledOrder(acc, n, m).filled = acc.orders[n].filled + FillQuantity(acc, n, m)
           /\ FilledOrder(acc, n, m).status = FillStatus(acc, n, m)
BY OrderUpdate, ZenonT(30) DEF FilledOrder

\* What is left after a fill is of the same price.
LEMMA LeftPrice ==
    ASSUME NEW m, NEW available, NEW quantity, available # <<>>
    PROVE  LeftAfter(m, available, quantity) # <<>> =>
             LeftAfter(m, available, quantity)[1].price = available[1].price
BY DEF LeftAfter

\* One order further.
LEMMA MatchedNext ==
    ASSUME NEW acc, NEW s, NEW n \in 1..Len(s.orders), NEW e, NEW k, NEW m,
           IsSim(s), HaveSides(s.orders), MatchedTo(acc, s, n - 1, e, k, m)
    PROVE  MatchedTo(MatchOrder(acc, n, e, k, m), s, n, e, k, m)
<1> DEFINE r == MatchOrder(acc, n, e, k, m)
           o == acc.orders[n]
           side == o.intent.side
<1>0. /\ Len(s.orders) \in Nat /\ n \in Nat /\ IsSeq(s.fills) /\ Len(s.fills) \in Nat
      /\ IsAcc(acc) /\ Evolved(s.orders, acc.orders) /\ IsSeq(acc.feedback)
      /\ \A j \in n..Len(s.orders) : acc.orders[j] = s.orders[j]
      /\ Prolongs(s.fills, acc.fills) /\ IsSeq(acc.fills) /\ Len(acc.fills) \in Nat
      /\ DOMAIN acc.left = Sides
  <2>1. Len(s.orders) \in Nat /\ IsSeq(s.fills) /\ Len(s.fills) \in Nat
    BY SeqFacts DEF IsSim, AreOrders
  <2>2. IsSeq(acc.fills) /\ Len(acc.fills) \in Nat
    BY SeqFacts DEF MatchedTo, Prolongs
  <2> QED BY <2>1, <2>2 DEF MatchedTo
<1>1. o = s.orders[n] /\ IsOrder(o) /\ side \in Sides
  <2>1. o = s.orders[n]
    BY <1>0
  <2> HIDE DEF o
  <2> QED BY <2>1 DEF IsSim, AreOrders, HaveSides
<1>2. IsAcc(r) /\ (Passes(acc, r) \/ GivesFill(acc, r, n, e, k, m))
  BY <1>0, MatchCases
<1> SUFFICES MatchedTo(r, s, n, e, k, m)
  OBVIOUS
<1> HIDE DEF r
<1>3. CASE Passes(acc, r)
  <2>1. \A j \in (n + 1)..Len(s.orders) : r.orders[j] = s.orders[j]
    BY <1>0, <1>3 DEF Passes
  <2> QED BY <1>2, <1>3, <2>1 DEF Passes, MatchedTo
<1>4. CASE GivesFill(acc, r, n, e, k, m)
  <2> DEFINE x == FillOf(acc, n, e, k, m)
             b == FilledOrder(acc, n, m)
  <2>1. Live(o) /\ Eligible(o, e, k) /\ Avail(acc, n) = acc.left[side] /\ Avail(acc, n) # <<>>
    BY <1>4 DEF GivesFill, Eligible, Avail
  <2>2. Later(o, b)
    BY <1>1, <2>1, FillEvolves
  <2>3. AreOrders(acc.orders) /\ Len(acc.orders) = Len(s.orders)
    BY <1>0 DEF Evolved
  <2>4. /\ r.orders = [acc.orders EXCEPT ![n] = b]
        /\ r.fills = Append(acc.fills, x)
        /\ IsSeq(r.feedback)
        /\ r.left = [acc.left EXCEPT ![side] = LeftAfter(m, Avail(acc, n), FillQuantity(acc, n, m))]
    BY <1>0, <1>4, AppendFacts DEF GivesFill
  <2>5. IsSeq(acc.orders) /\ DOMAIN acc.orders = 1..Len(s.orders)
    BY <2>3, SeqFacts DEF AreOrders
  <2>6. r.orders[n] = b /\ \A j \in 1..Len(s.orders) : j # n => r.orders[j] = acc.orders[j]
    <3> HIDE DEF b
    <3> QED BY <2>4, <2>5
  <2>7. IsSeq(r.orders) /\ Len(r.orders) = Len(s.orders)
    <3> HIDE DEF b
    <3>1. r.orders = [j \in 1..Len(s.orders) |-> r.orders[j]]
      BY <2>4, <2>5
    <3> QED BY <1>0, <3>1, FunctionIsSeq
  <2>8. Evolved(s.orders, r.orders)
    <3>1. ASSUME NEW j \in 1..Len(s.orders) PROVE Later(s.orders[j], r.orders[j])
      <4>1. CASE j = n
        BY <4>1, <1>1, <2>2, <2>6
      <4>2. CASE j # n
        BY <4>2, <1>0, <2>6 DEF Evolved
      <4> QED BY <4>1, <4>2
    <3> QED BY <2>7, <3>1 DEF Evolved, AreOrders, Later
  <2>9. Prolongs(s.fills, r.fills) /\ Len(r.fills) = Len(acc.fills) + 1
        /\ r.fills[Len(acc.fills) + 1] = x
        /\ \A j \in 1..Len(acc.fills) : r.fills[j] = acc.fills[j]
    <3> HIDE DEF x
    <3>1. /\ IsSeq(r.fills) /\ Len(r.fills) = Len(acc.fills) + 1
          /\ r.fills[Len(acc.fills) + 1] = x
          /\ \A j \in 1..Len(acc.fills) : r.fills[j] = acc.fills[j]
      BY <1>0, <2>4, AppendFacts
    <3> QED BY <1>0, <3>1 DEF Prolongs
  <2>10. FillFrom(x, s.orders, e, k, m)
    <3>1. x.order = o.id /\ x.ordinal = k /\ x.time = e.time /\ x.side = side
          /\ x.price = FillPrice(acc, n, m)
      BY DEF FillOf
    <3>2. /\ Evidence(e, m, side) # <<>>
          /\ FillPrice(acc, n, m) = Slipped(Evidence(e, m, side)[1].price, side, m)
      BY <1>1, <2>1 DEF MatchedTo, FillPrice
    <3>3. LimitTouched(o.intent, x.price)
      BY <1>4, <3>1 DEF GivesFill
    <3> HIDE DEF x, o, side
    <3> QED BY <1>1, <2>1, <3>1, <3>2, <3>3 DEF FillFrom, side
  <2>11. ASSUME NEW j \in (Len(s.fills) + 1)..Len(r.fills) PROVE FillFrom(r.fills[j], s.orders, e, k, m)
    <3>1. CASE j = Len(acc.fills) + 1
      BY <3>1, <2>9, <2>10
    <3>2. CASE j # Len(acc.fills) + 1
      <4>1. j \in (Len(s.fills) + 1)..Len(acc.fills) /\ r.fills[j] = acc.fills[j]
        BY <3>2, <1>0, <2>9
      <4> QED BY <4>1 DEF MatchedTo
    <3> QED BY <3>1, <3>2
  <2>12. DOMAIN r.left = Sides
    BY <1>0, <2>4
  <2>13. ASSUME NEW d \in Sides, r.left[d] # <<>>
         PROVE  Evidence(e, m, d) # <<>> /\ r.left[d][1].price = Evidence(e, m, d)[1].price
    <3>1. CASE d = side
      <4>1. r.left[d] = LeftAfter(m, acc.left[side], FillQuantity(acc, n, m))
        BY <3>1, <1>0, <1>1, <2>1, <2>4
      <4>2. r.left[d][1].price = acc.left[side][1].price
        BY <4>1, <2>1, <2>13, LeftPrice
      <4> QED BY <3>1, <4>2, <2>1 DEF MatchedTo
    <3>2. CASE d # side
      <4>1. r.left[d] = acc.left[d]
        BY <3>2, <1>0, <2>4
      <4> QED BY <4>1, <2>13 DEF MatchedTo
    <3> QED BY <3>1, <3>2
  <2>14. \A j \in (n + 1)..Len(s.orders) : r.orders[j] = s.orders[j]
    BY <1>0, <2>6
  <2> HIDE DEF x, b
  <2> QED BY <1>2, <2>4, <2>8, <2>9, <2>11, <2>12, <2>13, <2>14 DEF MatchedTo
<1> QED BY <1>2, <1>3, <1>4

\* The whole loop.
LEMMA MatchedAll ==
    ASSUME NEW f, NEW s, NEW e, NEW k, NEW m, IsSim(s), HaveSides(s.orders),
           Matches(f, s, m, e, k, Len(s.orders))
    PROVE  \A n \in 0..Len(s.orders) : MatchedTo(f[n], s, n, e, k, m)
<1> DEFINE N == Len(s.orders)
           S == {n \in Nat : n <= N => MatchedTo(f[n], s, n, e, k, m)}
<1>0. N \in Nat /\ IsSeq(s.fills) /\ Len(s.fills) \in Nat
  BY SeqFacts DEF IsSim, AreOrders
<1>1. 0 \in S
  <2>1. f[0] = MatchStart(s, m, e)
    BY DEF Matches
  <2>2. /\ IsAcc(f[0]) /\ f[0].orders = s.orders /\ f[0].fills = s.fills /\ f[0].feedback = <<>>
        /\ f[0].left = [side \in Sides |-> Evidence(e, m, side)]
    BY <2>1 DEF MatchStart, IsAcc, Sides
  <2>3. Evolved(s.orders, f[0].orders) /\ Prolongs(s.fills, f[0].fills) /\ IsSeq(f[0].feedback)
    BY <1>0, <2>2, EvolvedFacts, TupleFacts DEF IsSim, Prolongs
  <2>4. \A j \in (Len(s.fills) + 1)..Len(f[0].fills) : FALSE
    BY <1>0, <2>2
  <2> HIDE DEF N
  <2>5. MatchedTo(f[0], s, 0, e, k, m)
    BY <2>2, <2>3, <2>4 DEF MatchedTo
  <2> QED BY <2>5
<1>2. ASSUME NEW n \in Nat, n \in S PROVE n + 1 \in S
  <2> SUFFICES ASSUME n + 1 <= N PROVE MatchedTo(f[n + 1], s, n + 1, e, k, m)
    OBVIOUS
  <2>1. n + 1 \in 1..Len(s.orders) /\ (n + 1) - 1 = n /\ n <= N
    BY <1>0
  <2>2. MatchedTo(f[n], s, (n + 1) - 1, e, k, m)
    BY <1>2, <2>1
  <2>3. f[n + 1] = MatchOrder(f[n], n + 1, e, k, m)
    BY <2>1 DEF Matches
  <2> QED BY <2>1, <2>2, <2>3, MatchedNext
<1>3. \A n \in Nat : n \in S
  <2> HIDE DEF S
  <2> QED BY <1>1, <1>2, SetInduction
<1> QED BY <1>0, <1>3

\* An evaluation: orders evolve, fills are added, and only when the context
\* allows matching.
LEMMA EvaluateFacts ==
    ASSUME NEW s, NEW m, NEW e, NEW k, NEW context, IsSim(s), HaveSides(s.orders)
    PROVE  LET r == EvaluateEvent(s, m, e, k, context)
           IN  /\ IsSim(r.sim) /\ Evolved(s.orders, r.sim.orders) /\ Prolongs(s.fills, r.sim.fills)
               /\ \A j \in (Len(s.fills) + 1)..Len(r.sim.fills) :
                    MayMatch(context) /\ FillFrom(r.sim.fills[j], s.orders, e, k, m)
<1> DEFINE r == EvaluateEvent(s, m, e, k, context)
<1> SUFFICES /\ IsSim(r.sim) /\ Evolved(s.orders, r.sim.orders) /\ Prolongs(s.fills, r.sim.fills)
             /\ \A j \in (Len(s.fills) + 1)..Len(r.sim.fills) :
                  MayMatch(context) /\ FillFrom(r.sim.fills[j], s.orders, e, k, m)
  OBVIOUS
<1>0. /\ Len(s.orders) \in Nat /\ DOMAIN s.orders = 1..Len(s.orders)
      /\ IsSeq(s.fills) /\ Len(s.fills) \in Nat /\ Prolongs(s.fills, s.fills)
  <2>1. /\ Len(s.orders) \in Nat /\ DOMAIN s.orders = 1..Len(s.orders)
        /\ IsSeq(s.fills) /\ Len(s.fills) \in Nat
    BY SeqFacts DEF IsSim, AreOrders
  <2> QED BY <2>1 DEF Prolongs
<1>1. ASSUME r.sim.fills = s.fills
      PROVE  /\ Prolongs(s.fills, r.sim.fills)
             /\ \A j \in (Len(s.fills) + 1)..Len(r.sim.fills) : FALSE
  <2> HIDE DEF r
  <2> QED BY <1>0, <1>1
<1>2. CASE Interrupts(context)
  <2> DEFINE ending == {n \in DOMAIN s.orders : /\ s.orders[n].intent.instrument = e.instrument
                                                /\ s.orders[n].intent.type = "Market"}
  <2>1. r = Cancel(s, ending)
    BY <1>2 DEF EvaluateEvent, CancelMarketOrders
  <2>2. ending \subseteq DOMAIN s.orders
    OBVIOUS
  <2> HIDE DEF r, ending
  <2>3. IsSim(r.sim) /\ r.sim.fills = s.fills /\ Evolved(s.orders, r.sim.orders)
    BY <2>1, <2>2, CancelFacts
  <2> QED BY <2>3, <1>1
<1>3. CASE MayMatch(context)
  <2>1. PICK f : /\ Matches(f, s, m, e, k, Len(s.orders))
                 /\ LET end == f[Len(s.orders)]
                    IN  EvaluateEvent(s, m, e, k, context) =
                          [error |-> end.error, feedback |-> end.feedback,
                           sim |-> [orders |-> end.orders, fills |-> end.fills]]
    BY <1>0, <1>3, MatchLoop
  <2> DEFINE acc == f[Len(s.orders)]
  <2>2. r.sim = [orders |-> acc.orders, fills |-> acc.fills]
    BY <2>1
  <2>3. MatchedTo(acc, s, Len(s.orders), e, k, m)
    <3>1. Matches(f, s, m, e, k, Len(s.orders))
      BY <2>1
    <3>2. \A n \in 0..Len(s.orders) : MatchedTo(f[n], s, n, e, k, m)
      BY <3>1, MatchedAll
    <3> QED BY <1>0, <3>2
  <2> HIDE DEF acc, r
  <2>4. r.sim.orders = acc.orders /\ r.sim.fills = acc.fills
    BY <2>2
  <2>5. /\ Evolved(s.orders, r.sim.orders) /\ Prolongs(s.fills, r.sim.fills)
        /\ \A j \in (Len(s.fills) + 1)..Len(r.sim.fills) : FillFrom(r.sim.fills[j], s.orders, e, k, m)
    BY <2>3, <2>4 DEF MatchedTo
  <2>6. IsSim(r.sim)
    BY <2>2, <2>5 DEF IsSim, Evolved, Prolongs
  <2> QED BY <1>3, <2>5, <2>6
<1>4. CASE ~Interrupts(context) /\ ~MayMatch(context)
  <2>1. r.sim = s
    BY <1>4 DEF EvaluateEvent, MayMatch
  <2> HIDE DEF r
  <2> QED BY <1>1, <2>1, EvolvedFacts DEF IsSim
<1> QED BY <1>2, <1>3, <1>4

-----------------------------------------------------------------------------
(* What submitting does.                                                   *)

\* The orders that a callback places at the event at hand.
IsNew(o, i) ==
    /\ IsOrder(o) /\ o.intent.instrument = i /\ o.id[3] = o.intent
    /\ o.intent.side \in Sides /\ o.intent.quantity \in Nat
    /\ o.origin = ordinal /\ o.eligible = EligibleTime(setup.models[i], Event.time)
    /\ o.segment = trading.segment /\ o.filled = 0 /\ o.status = "Pending"
Placed(s, t, i) ==
    /\ IsSim(t) /\ t.fills = s.fills /\ Len(s.orders) <= Len(t.orders)
    /\ \A n \in 1..Len(s.orders) : t.orders[n] = s.orders[n]
    /\ \A n \in (Len(s.orders) + 1)..Len(t.orders) : IsNew(t.orders[n], i)
\* Feedback that ends or fills nothing.
Answers(news) == IsSeq(news) /\ \A n \in 1..Len(news) : news[n].type \in {"Accepted", "Rejected"}
Submitted(acc) ==
    /\ acc = [sims |-> acc.sims, feedback |-> acc.feedback]
    /\ acc.sims = [i \in DOMAIN sims |-> acc.sims[i]]
    /\ \A i \in DOMAIN sims : Placed(sims[i], acc.sims[i], i)
    /\ Answers(acc.feedback)

\* One intent.
NewOrder(m, k, time, context, n, intent) ==
    [id |-> <<k, n, intent>>, intent |-> intent, origin |-> k, eligible |-> EligibleTime(m, time),
     segment |-> context.segment, filled |-> 0, status |-> "Pending"]
Adds(r, s, o) ==
    \/ r.sim = s /\ r.feedback.type = "Rejected"
    \/ /\ r.sim = [orders |-> Append(s.orders, o), fills |-> s.fills]
       /\ r.feedback.type = "Accepted"
LEMMA SubmitOne ==
    ASSUME NEW s, NEW m, NEW k, NEW time, NEW context, NEW n, NEW intent, IsSim(s)
    PROVE  Adds(Submit(s, m, k, time, context, n, intent), s,
                NewOrder(m, k, time, context, n, intent))
BY DEF Submit, Feedback, IsSim, Adds, NewOrder

LEMMA SubmittedNext ==
    ASSUME NEW acc, Submitted(acc), NEW n, NEW intent, intent.side \in Sides,
           intent.quantity \in Nat, \A i \in DOMAIN sims : IsSim(sims[i])
    PROVE  Submitted(SubmitNext(acc, n, intent))
<1> DEFINE i == intent.instrument
           step == Submit(acc.sims[i], setup.models[i], ordinal, Event.time, trading, n, intent)
           r == SubmitNext(acc, n, intent)
<1> SUFFICES Submitted(r)
  OBVIOUS
<1>0. DOMAIN acc.sims = DOMAIN sims /\ IsSeq(acc.feedback) /\ Len(acc.feedback) \in Nat
  <2>1. DOMAIN acc.sims = DOMAIN sims
    BY DEF Submitted
  <2>2. IsSeq(acc.feedback)
    BY DEF Submitted, Answers
  <2> QED BY <2>1, <2>2, SeqFacts
<1>1. ASSUME NEW x, x.type \in {"Accepted", "Rejected"} PROVE Answers(Append(acc.feedback, x))
  <2>1. /\ IsSeq(Append(acc.feedback, x)) /\ Len(Append(acc.feedback, x)) = Len(acc.feedback) + 1
        /\ \A j \in 1..Len(acc.feedback) : Append(acc.feedback, x)[j] = acc.feedback[j]
        /\ Append(acc.feedback, x)[Len(acc.feedback) + 1] = x
    BY <1>0, AppendFacts
  <2>2. \A j \in 1..(Len(acc.feedback) + 1) : j = Len(acc.feedback) + 1 \/ j \in 1..Len(acc.feedback)
    BY <1>0
  <2> QED BY <1>1, <2>1, <2>2 DEF Submitted, Answers
<1>2. CASE i \notin DOMAIN sims
  <2> DEFINE x == Feedback("Rejected", <<>>, 0)
  <2>1. r = [acc EXCEPT !.feedback = Append(@, x)]
    BY <1>0, <1>2 DEF SubmitNext
  <2>2. r = [sims |-> acc.sims, feedback |-> Append(acc.feedback, x)]
    BY <2>1 DEF Submitted
  <2>3. x.type = "Rejected"
    BY DEF Feedback
  <2> HIDE DEF x, r
  <2> QED BY <1>1, <2>2, <2>3 DEF Submitted
<1>3. CASE i \in DOMAIN sims
  <2>1. r = [sims |-> [acc.sims EXCEPT ![i] = step.sim], feedback |-> Append(acc.feedback, step.feedback)]
    BY <1>0, <1>3 DEF SubmitNext
  <2>2. Placed(sims[i], acc.sims[i], i)
    BY <1>3 DEF Submitted
  <2> DEFINE s == acc.sims[i]
             o == NewOrder(setup.models[i], ordinal, Event.time, trading, n, intent)
  <2>3. IsSim(s)
    BY <2>2 DEF Placed
  <2>4. \/ step.sim = s /\ step.feedback.type = "Rejected"
        \/ /\ step.sim = [orders |-> Append(s.orders, o), fills |-> s.fills]
           /\ step.feedback.type = "Accepted"
    <3>1. Adds(step, s, o)
      BY <2>3, SubmitOne
    <3> QED BY <3>1 DEF Adds
  <2>5. IsNew(o, i)
    BY DEF IsNew, IsOrder, NewOrder
  <2> HIDE DEF o, s, step
  <2>6. IsSeq(s.orders) /\ Len(s.orders) \in Nat /\ Len(sims[i].orders) \in Nat
        /\ Len(sims[i].orders) <= Len(s.orders)
    <3>1. IsSim(sims[i])
      BY <1>3
    <3> QED BY <2>2, <2>3, <3>1, SeqFacts DEF IsSim, AreOrders, Placed, s
  <2>7. Placed(sims[i], step.sim, i)
    <3>1. CASE step.sim = s
      BY <3>1, <2>2 DEF s
    <3>2. CASE step.sim = [orders |-> Append(s.orders, o), fills |-> s.fills]
      <4> DEFINE t == Append(s.orders, o)
      <4>1. /\ IsSeq(t) /\ Len(t) = Len(s.orders) + 1 /\ t[Len(s.orders) + 1] = o
            /\ \A j \in 1..Len(s.orders) : t[j] = s.orders[j]
        BY <2>6, AppendFacts
      <4> HIDE DEF t
      <4>2. \A j \in 1..Len(t) : j = Len(s.orders) + 1 \/ j \in 1..Len(s.orders)
        BY <4>1, <2>6
      <4>3. AreOrders(t)
        BY <4>1, <4>2, <2>3, <2>5 DEF AreOrders, IsSim, IsNew
      <4>4. /\ Len(sims[i].orders) <= Len(t)
            /\ \A j \in 1..Len(sims[i].orders) : j \in 1..Len(s.orders)
            /\ \A j \in (Len(sims[i].orders) + 1)..Len(t) :
                 j = Len(s.orders) + 1 \/ j \in (Len(sims[i].orders) + 1)..Len(s.orders)
        BY <4>1, <2>6
      <4>5. step.sim.orders = t /\ step.sim.fills = s.fills /\ step.sim = [orders |-> t, fills |-> s.fills]
        BY <3>2 DEF t
      <4>6. IsSim(step.sim)
        BY <4>3, <4>5, <2>3 DEF IsSim
      <4>7. \A j \in 1..Len(sims[i].orders) : t[j] = sims[i].orders[j]
        BY <4>1, <4>4, <2>2 DEF Placed, s
      <4>8. \A j \in (Len(sims[i].orders) + 1)..Len(t) : IsNew(t[j], i)
        BY <4>1, <4>4, <2>2, <2>5 DEF Placed, s
      <4>9. s.fills = sims[i].fills
        BY <2>2 DEF Placed, s
      <4> QED BY <4>4, <4>5, <4>6, <4>7, <4>8, <4>9 DEF Placed
    <3> QED BY <2>4, <3>1, <3>2
  <2>8. Answers(Append(acc.feedback, step.feedback))
    BY <1>1, <2>4
  <2> DEFINE u == [acc.sims EXCEPT ![i] = step.sim]
  <2>9. u = [j \in DOMAIN sims |-> u[j]] /\ u[i] = step.sim
        /\ \A j \in DOMAIN sims : j # i => u[j] = acc.sims[j]
    BY <1>0, <1>3
  <2>10. ASSUME NEW j \in DOMAIN sims PROVE Placed(sims[j], u[j], j)
    <3>1. CASE j = i
      BY <3>1, <2>7, <2>9
    <3>2. CASE j # i
      BY <3>2, <2>9 DEF Submitted
    <3> QED BY <3>1, <3>2
  <2> HIDE DEF u, r, i
  <2>11. r.sims = u /\ r.feedback = Append(acc.feedback, step.feedback)
         /\ r = [sims |-> r.sims, feedback |-> r.feedback]
    BY <2>1 DEF u
  <2> QED BY <2>8, <2>9, <2>10, <2>11 DEF Submitted
<1> QED BY <1>2, <1>3

\* A callback's intents.
LEMMA SubmitFacts ==
    ASSUME NEW intents \in Outputs, \A i \in DOMAIN sims : IsSim(sims[i]),
           sims = [i \in DOMAIN sims |-> sims[i]]
    PROVE  Submitted(SubmitAll(intents))
<1> DEFINE N == Len(intents)
<1>0. /\ N \in Nat /\ DOMAIN intents = 1..N
      /\ \A n \in 1..N : intents[n].side \in Sides /\ intents[n].quantity \in Nat
  BY InputsAssumption DEF HasQuantities, Sides
<1>1. PICK f : Submits(f, intents, N) /\ SubmitAll(intents) = f[N]
  BY <1>0, SubmitLoop
<1> DEFINE S == {n \in Nat : n <= N => Submitted(f[n])}
<1>2. 0 \in S
  <2>1. f[0] = [sims |-> sims, feedback |-> <<>>]
    BY <1>1 DEF Submits
  <2>2. Answers(<<>>)
    BY TupleFacts DEF Answers
  <2>3. ASSUME NEW i \in DOMAIN sims PROVE Placed(sims[i], sims[i], i)
    <3>1. Len(sims[i].orders) \in Nat
      BY SeqFacts DEF IsSim, AreOrders
    <3> QED BY <3>1 DEF Placed
  <2>4. f[0].sims = sims /\ f[0].feedback = <<>>
    BY <2>1
  <2>5. Submitted(f[0])
    BY <2>1, <2>2, <2>3, <2>4 DEF Submitted
  <2> QED BY <2>5
<1>3. ASSUME NEW n \in Nat, n \in S PROVE n + 1 \in S
  <2> SUFFICES ASSUME n + 1 <= N PROVE Submitted(f[n + 1])
    OBVIOUS
  <2>1. n + 1 \in 1..N /\ (n + 1) - 1 = n /\ n <= N
    BY <1>0
  <2>2. f[n + 1] = SubmitNext(f[n], n + 1, intents[n + 1])
    BY <1>1, <2>1 DEF Submits
  <2>3. Submitted(f[n])
    BY <1>3, <2>1
  <2> QED BY <1>0, <2>1, <2>2, <2>3, SubmittedNext
<1>4. \A n \in Nat : n \in S
  <2> HIDE DEF S
  <2> QED BY <1>2, <1>3, SetInduction
<1> QED BY <1>0, <1>1, <1>4

-----------------------------------------------------------------------------
(* No look-ahead.                                                          *)

\* The fill f of instrument i, with set-up st: what FillsAreCausal says of it.
CausalIn(st, f, orders, i) ==
    \E n \in 1..Len(orders) :
      LET o == orders[n]
          m == st.models[i]
          e == st.tape[f.ordinal]
      IN  /\ o.id = f.order /\ o.intent.instrument = i /\ e.instrument = i
          /\ f.ordinal > o.origin
          /\ f.time = e.time /\ e.time >= st.tape[o.origin].time + m.latency
          /\ SessionPhase(SegmentsFor(st.schedule[i], e.time)[1], e.time) # "CoolDown"
          /\ \E l \in Range(Evidence(e, m, f.side)) : f.price = Slipped(l.price, f.side, m)
          /\ LimitTouched(o.intent, f.price)
\* An order of instrument i that was placed at one of the first k events.
OrderIn(st, o, i, k) ==
    /\ o.intent.instrument = i /\ o.id[3] = o.intent /\ o.intent.side \in Sides
    /\ o.intent.quantity \in Nat
    /\ o.origin \in 1..k /\ o.eligible = EligibleTime(st.models[i], st.tape[o.origin].time)
SimIn(st, s, i, k) ==
    /\ IsSim(s)
    /\ \A n \in 1..Len(s.orders) : OrderIn(st, s.orders[n], i, k)
    /\ \A n \in 1..Len(s.fills) : s.fills[n].ordinal \in 1..k /\ CausalIn(st, s.fills[n], s.orders, i)
\* The context of the k-th event.
TradingFor(st, k, context) ==
    \E v, x : context = Evaluate(st.tape[k], v, x,
                          SegmentsFor(st.schedule[st.tape[k].instrument], st.tape[k].time)[1])

LEMMA SimFacts ==
    ASSUME NEW s, IsSim(s)
    PROVE  /\ IsSeq(s.orders) /\ Len(s.orders) \in Nat /\ DOMAIN s.orders = 1..Len(s.orders)
           /\ IsSeq(s.fills) /\ Len(s.fills) \in Nat /\ DOMAIN s.fills = 1..Len(s.fills)
BY SeqFacts DEF IsSim, AreOrders

\* Orders that evolve keep the fills explained.
LEMMA CausalKept ==
    ASSUME NEW st, NEW f, NEW s, NEW t, NEW i, Len(s) \in Nat, Len(t) \in Nat, Len(s) <= Len(t),
           \A n \in 1..Len(s) : t[n].id = s[n].id /\ t[n].intent = s[n].intent
                                /\ t[n].origin = s[n].origin,
           CausalIn(st, f, s, i)
    PROVE  CausalIn(st, f, t, i)
<1>1. PICK n \in 1..Len(s) :
        LET o == s[n]
            m == st.models[i]
            e == st.tape[f.ordinal]
        IN  /\ o.id = f.order /\ o.intent.instrument = i /\ e.instrument = i
            /\ f.ordinal > o.origin
            /\ f.time = e.time /\ e.time >= st.tape[o.origin].time + m.latency
            /\ SessionPhase(SegmentsFor(st.schedule[i], e.time)[1], e.time) # "CoolDown"
            /\ \E l \in Range(Evidence(e, m, f.side)) : f.price = Slipped(l.price, f.side, m)
            /\ LimitTouched(o.intent, f.price)
  BY DEF CausalIn
<1>2. n \in 1..Len(t) /\ t[n].id = s[n].id /\ t[n].intent = s[n].intent /\ t[n].origin = s[n].origin
  OBVIOUS
<1> QED BY <1>1, <1>2 DEF CausalIn

LEMMA SimEvolves ==
    ASSUME NEW st, NEW s, NEW t, NEW i, NEW k, SimIn(st, s, i, k), IsSim(t), t.fills = s.fills,
           Evolved(s.orders, t.orders)
    PROVE  SimIn(st, t, i, k)
<1>1. Len(s.orders) \in Nat /\ Len(t.orders) = Len(s.orders)
  BY SimFacts DEF SimIn, Evolved
<1>2. \A n \in 1..Len(s.orders) : Later(s.orders[n], t.orders[n])
  BY DEF Evolved
<1>3. \A n \in 1..Len(t.orders) : OrderIn(st, t.orders[n], i, k)
  BY <1>1, <1>2, SMTT(30) DEF SimIn, OrderIn, Later
<1>4. ASSUME NEW n \in 1..Len(t.fills)
      PROVE  t.fills[n].ordinal \in 1..k /\ CausalIn(st, t.fills[n], t.orders, i)
  <2>1. s.fills[n].ordinal \in 1..k /\ CausalIn(st, s.fills[n], s.orders, i)
    BY DEF SimIn
  <2>2. \A j \in 1..Len(s.orders) :
          /\ t.orders[j].id = s.orders[j].id /\ t.orders[j].intent = s.orders[j].intent
          /\ t.orders[j].origin = s.orders[j].origin
    BY <1>2 DEF Later
  <2>3. CausalIn(st, s.fills[n], t.orders, i)
    BY <1>1, <2>1, <2>2, CausalKept
  <2> QED BY <2>1, <2>3
<1> QED BY <1>3, <1>4 DEF SimIn

\* Nothing is lost by the next event.
LEMMA SimLater ==
    ASSUME NEW st, NEW s, NEW i, NEW k \in Nat, SimIn(st, s, i, k)
    PROVE  SimIn(st, s, i, k + 1)
<1>1. 1..k \subseteq 1..(k + 1)
  OBVIOUS
<1> QED BY <1>1 DEF SimIn, OrderIn

\* Submitted orders come from the event at hand.
LEMMA SimPlaced ==
    ASSUME NEW s, NEW t, NEW i, ordinal \in Nat \ {0}, SimIn(setup, s, i, ordinal), Placed(s, t, i)
    PROVE  SimIn(setup, t, i, ordinal)
<1>1. Len(s.orders) \in Nat /\ IsSim(t) /\ Len(t.orders) \in Nat /\ Len(s.orders) <= Len(t.orders)
      /\ t.fills = s.fills
  BY SimFacts DEF SimIn, Placed
<1>2. ASSUME NEW n \in 1..Len(t.orders) PROVE OrderIn(setup, t.orders[n], i, ordinal)
  <2>1. CASE n \in 1..Len(s.orders)
    BY <2>1 DEF Placed, SimIn
  <2>2. CASE n \notin 1..Len(s.orders)
    <3>1. n \in (Len(s.orders) + 1)..Len(t.orders)
      BY <1>1, <2>2
    <3>2. IsNew(t.orders[n], i) /\ ordinal \in 1..ordinal
      BY <3>1 DEF Placed
    <3> QED BY <3>2 DEF IsNew, OrderIn, Event, Tape
  <2> QED BY <2>1, <2>2
<1>3. ASSUME NEW n \in 1..Len(t.fills)
      PROVE  t.fills[n].ordinal \in 1..ordinal /\ CausalIn(setup, t.fills[n], t.orders, i)
  <2>1. s.fills[n].ordinal \in 1..ordinal /\ CausalIn(setup, s.fills[n], s.orders, i)
    BY <1>1 DEF SimIn
  <2>2. \A j \in 1..Len(s.orders) :
          /\ t.orders[j].id = s.orders[j].id /\ t.orders[j].intent = s.orders[j].intent
          /\ t.orders[j].origin = s.orders[j].origin
    BY DEF Placed
  <2>3. CausalIn(setup, s.fills[n], t.orders, i)
    BY <1>1, <2>1, <2>2, CausalKept
  <2> QED BY <1>1, <2>1, <2>3
<1> QED BY <1>1, <1>2, <1>3 DEF SimIn

\* The evidence is one level or none.
LEMMA EvidenceOne ==
    ASSUME NEW e, NEW m, NEW side, Evidence(e, m, side) # <<>>
    PROVE  Evidence(e, m, side)[1] \in Range(Evidence(e, m, side))
<1>1. \E x : Evidence(e, m, side) = <<x>>
  BY DEF Evidence
<1>2. PICK x : Evidence(e, m, side) = <<x>>
  BY <1>1
<1>3. 1 \in DOMAIN <<x>>
  OBVIOUS
<1> QED BY <1>2, <1>3 DEF Range

\* A context that allows matching is not of a session that is cooling down.
LEMMA NotCoolingDown ==
    ASSUME NEW e, NEW v, NEW x, NEW g, MayMatch(Evaluate(e, v, x, g))
    PROVE  SessionPhase(g, e.time) # "CoolDown"
<1>1. SessionPhase(g, e.time) = "CoolDown" => Evaluate(e, v, x, g).entry = "CoolDown"
  BY DEF Evaluate, OrderEntry
<1> QED BY <1>1 DEF MayMatch, Blocked

\* Matching the k-th event.
LEMMA SimEvaluated ==
    ASSUME NEW st, NEW s, NEW i, NEW k \in Nat \ {0}, NEW context, SimIn(st, s, i, k),
           TradingFor(st, k, context)
    PROVE  SimIn(st, EvaluateEvent(s, st.models[i], st.tape[k], k, context).sim, i, k)
<1> DEFINE m == st.models[i]
           e == st.tape[k]
           t == EvaluateEvent(s, m, e, k, context).sim
<1> SUFFICES SimIn(st, t, i, k)
  OBVIOUS
<1>0. IsSim(s) /\ HaveSides(s.orders) /\ Len(s.orders) \in Nat /\ Len(s.fills) \in Nat
  BY SimFacts DEF SimIn, HaveSides, OrderIn
<1>1. /\ IsSim(t) /\ Evolved(s.orders, t.orders) /\ Prolongs(s.fills, t.fills)
      /\ \A j \in (Len(s.fills) + 1)..Len(t.fills) :
           MayMatch(context) /\ FillFrom(t.fills[j], s.orders, e, k, m)
  BY <1>0, EvaluateFacts
<1> HIDE DEF t
<1>2. Len(t.orders) = Len(s.orders) /\ Len(t.fills) \in Nat /\ Len(s.fills) <= Len(t.fills)
  BY <1>1, SimFacts DEF Evolved, Prolongs
<1>3. \A n \in 1..Len(s.orders) : Later(s.orders[n], t.orders[n])
  BY <1>1 DEF Evolved
<1>4. \A n \in 1..Len(t.orders) : OrderIn(st, t.orders[n], i, k)
  BY <1>2, <1>3, SMTT(30) DEF SimIn, OrderIn, Later
<1>5. \A j \in 1..Len(s.orders) :
        /\ t.orders[j].id = s.orders[j].id /\ t.orders[j].intent = s.orders[j].intent
        /\ t.orders[j].origin = s.orders[j].origin
  BY <1>3 DEF Later
<1>6. ASSUME NEW n \in 1..Len(t.fills)
      PROVE  t.fills[n].ordinal \in 1..k /\ CausalIn(st, t.fills[n], t.orders, i)
  <2>1. CASE n \in 1..Len(s.fills)
    <3>1. t.fills[n] = s.fills[n]
      BY <1>1, <2>1 DEF Prolongs
    <3>2. s.fills[n].ordinal \in 1..k /\ CausalIn(st, s.fills[n], s.orders, i)
      BY <2>1 DEF SimIn
    <3>3. CausalIn(st, s.fills[n], t.orders, i)
      BY <1>0, <1>2, <1>5, <3>2, CausalKept
    <3> QED BY <3>1, <3>2, <3>3
  <2>2. CASE n \notin 1..Len(s.fills)
    <3> DEFINE f == t.fills[n]
    <3>1. MayMatch(context) /\ FillFrom(f, s.orders, e, k, m)
      <4>1. n \in (Len(s.fills) + 1)..Len(t.fills)
        BY <1>0, <1>2, <2>2
      <4> QED BY <4>1, <1>1
    <3> HIDE DEF f
    <3>2. PICK j \in 1..Len(s.orders) :
            /\ Eligible(s.orders[j], e, k)
            /\ f.order = s.orders[j].id /\ f.ordinal = k /\ f.time = e.time
            /\ f.side = s.orders[j].intent.side
            /\ Evidence(e, m, f.side) # <<>>
            /\ f.price = Slipped(Evidence(e, m, f.side)[1].price, f.side, m)
            /\ LimitTouched(s.orders[j].intent, f.price)
      BY <3>1 DEF FillFrom
    <3> DEFINE o == s.orders[j]
    <3>3. OrderIn(st, o, i, k)
      BY DEF SimIn
    <3>4. /\ e.instrument = i /\ o.intent.instrument = i /\ k > o.origin
          /\ e.time >= st.tape[o.origin].time + m.latency
      BY <3>2, <3>3 DEF Eligible, OrderIn, EligibleTime
    <3>5. SessionPhase(SegmentsFor(st.schedule[i], e.time)[1], e.time) # "CoolDown"
      <4>1. PICK v, x : context = Evaluate(e, v, x,
                          SegmentsFor(st.schedule[e.instrument], e.time)[1])
        BY DEF TradingFor
      <4>2. MayMatch(Evaluate(e, v, x, SegmentsFor(st.schedule[i], e.time)[1]))
        BY <4>1, <3>1, <3>4
      <4> QED BY <4>2, NotCoolingDown
    <3>6. \E l \in Range(Evidence(e, m, f.side)) : f.price = Slipped(l.price, f.side, m)
      BY <3>2, EvidenceOne
    <3>7. j \in 1..Len(t.orders) /\ t.orders[j].id = o.id /\ t.orders[j].intent = o.intent
          /\ t.orders[j].origin = o.origin
      BY <1>2, <1>5
    <3> HIDE DEF o
    <3>8. CausalIn(st, f, t.orders, i)
      BY <3>2, <3>4, <3>5, <3>6, <3>7 DEF CausalIn, o
    <3>9. k \in 1..k
      OBVIOUS
    <3> QED BY <3>2, <3>8, <3>9 DEF f
  <2> QED BY <2>1, <2>2
<1> QED BY <1>1, <1>4, <1>6 DEF SimIn

\* The simulators after the first k events of set-up st.
StateOK(st, k, ss) ==
    /\ st \in Setups /\ k \in 0..Len(st.tape)
    /\ ss = [i \in DOMAIN st.models |-> ss[i]]
    /\ \A i \in DOMAIN st.models : SimIn(st, ss[i], i, k)
AtEvent == {"boundary", "event", "feedback"}
CausalInv ==
    /\ StateOK(setup, ordinal, sims)
    /\ pc \in AtEvent => ordinal # 0 /\ TradingFor(setup, ordinal, trading)

LEMMA StateUpdate ==
    ASSUME NEW st, NEW k, NEW ss, StateOK(st, k, ss), NEW i, NEW t,
           i \in DOMAIN st.models => SimIn(st, t, i, k)
    PROVE  StateOK(st, k, [ss EXCEPT ![i] = t])
<1> DEFINE u == [ss EXCEPT ![i] = t]
<1>1. DOMAIN ss = DOMAIN st.models
  BY DEF StateOK
<1>2. u = [j \in DOMAIN st.models |-> u[j]]
  BY <1>1
<1>3. ASSUME NEW j \in DOMAIN st.models PROVE SimIn(st, u[j], j, k)
  <2>1. u[j] = IF j = i THEN t ELSE ss[j]
    BY <1>1
  <2> HIDE DEF u
  <2> QED BY <2>1 DEF StateOK
<1> HIDE DEF u
<1> QED BY <1>2, <1>3 DEF StateOK, u

LEMMA TapeFacts ==
    ASSUME NEW st \in Setups
    PROVE  /\ Len(st.tape) \in Nat /\ DOMAIN st.tape = 1..Len(st.tape)
           /\ \A n \in 1..Len(st.tape) : st.tape[n].instrument \in DOMAIN st.models
BY InputsAssumption

\* Everybody's intents.
LEMMA StateSubmitted ==
    ASSUME StateOK(setup, ordinal, sims), ordinal # 0, NEW intents \in Outputs
    PROVE  /\ Submitted(SubmitAll(intents)) /\ DOMAIN sims = DOMAIN setup.models
           /\ StateOK(setup, ordinal, SubmitAll(intents).sims)
<1> DEFINE r == SubmitAll(intents)
<1>1. DOMAIN sims = DOMAIN setup.models /\ sims = [i \in DOMAIN sims |-> sims[i]]
      /\ \A i \in DOMAIN sims : IsSim(sims[i])
  BY DEF StateOK, SimIn
<1>2. Submitted(r)
  BY <1>1, SubmitFacts
<1> HIDE DEF r
<1>3. ordinal \in Nat \ {0}
  BY DEF StateOK
<1>4. \A i \in DOMAIN setup.models : SimIn(setup, r.sims[i], i, ordinal)
  <2> SUFFICES ASSUME NEW i \in DOMAIN setup.models PROVE SimIn(setup, r.sims[i], i, ordinal)
    OBVIOUS
  <2>1. Placed(sims[i], r.sims[i], i) /\ SimIn(setup, sims[i], i, ordinal)
    BY <1>1, <1>2 DEF Submitted, StateOK
  <2> QED BY <1>3, <2>1, SimPlaced
<1>5. r.sims = [i \in DOMAIN setup.models |-> r.sims[i]]
  BY <1>1, <1>2 DEF Submitted
<1> QED BY <1>1, <1>2, <1>4, <1>5 DEF StateOK, r

\* Cancellations of one instrument.
LEMMA StateCancelled ==
    ASSUME NEW st, NEW k, NEW ss, StateOK(st, k, ss), NEW i, NEW ending,
           i \in DOMAIN st.models => ending \subseteq DOMAIN ss[i].orders
    PROVE  StateOK(st, k, [ss EXCEPT ![i] = Cancel(ss[i], ending).sim])
<1> DEFINE t == Cancel(ss[i], ending).sim
<1>1. ASSUME i \in DOMAIN st.models PROVE SimIn(st, t, i, k)
  <2>1. SimIn(st, ss[i], i, k) /\ IsSim(ss[i])
    BY <1>1 DEF StateOK, SimIn
  <2>2. IsSim(t) /\ t.fills = ss[i].fills /\ Evolved(ss[i].orders, t.orders)
    BY <1>1, <2>1, CancelFacts
  <2> HIDE DEF t
  <2> QED BY <2>1, <2>2, SimEvolves
<1> HIDE DEF t
<1>2. StateOK(st, k, [ss EXCEPT ![i] = t])
  BY <1>1, StateUpdate
<1> QED BY <1>2 DEF t

LEMMA CausalInit == Init => CausalInv
<1> SUFFICES ASSUME Init PROVE CausalInv
  OBVIOUS
<1>1. setup \in Setups /\ ordinal = 0 /\ pc = "start" /\ sims = [i \in DOMAIN setup.models |-> Empty]
  BY DEF Init
<1>2. \A i \in DOMAIN setup.models : sims[i] = [orders |-> <<>>, fills |-> <<>>]
  BY <1>1 DEF Empty
<1>3. IsSeq(<<>>) /\ Len(<<>>) = 0
  BY TupleFacts
<1>4. ASSUME NEW s, s = [orders |-> <<>>, fills |-> <<>>], NEW i PROVE SimIn(setup, s, i, 0)
  <2>1. s.orders = <<>> /\ s.fills = <<>>
    BY <1>4
  <2>2. IsSim(s)
    BY <1>3, <1>4, <2>1 DEF IsSim, AreOrders
  <2>3. \A n \in 1..Len(s.orders) : FALSE
    BY <1>3, <2>1
  <2>4. \A n \in 1..Len(s.fills) : FALSE
    BY <1>3, <2>1
  <2> QED BY <2>2, <2>3, <2>4 DEF SimIn
<1>5. \A i \in DOMAIN setup.models : SimIn(setup, sims[i], i, 0)
  BY <1>2, <1>4
<1>6. 0 \in 0..Len(setup.tape)
  BY <1>1, TapeFacts
<1>7. sims = [i \in DOMAIN setup.models |-> sims[i]]
  BY <1>1
<1> QED BY <1>1, <1>5, <1>6, <1>7 DEF CausalInv, StateOK, AtEvent

\* An event is committed.
LEMMA CausalBegin ==
    ASSUME CausalInv, BeginEvent PROVE CausalInv'
<1> DEFINE e == Tape[ordinal + 1]
           segments == SegmentsFor(setup.schedule[e.instrument], e.time)
           g == segments[1]
           p == Propose(StateFor(e), e, ReducerContext(g))
           context == Evaluate(e, p.next.version, p.next, g)
           ended == EndedSegment(e.instrument, g)
           x == CHOOSE s \in ended : TRUE
           i == e.instrument
           ending == {n \in DOMAIN sims[i].orders : sims[i].orders[n].segment = x}
           step == Cancel(sims[i], ending)
<1>0. pc = "next" /\ ordinal < Len(setup.tape) /\ setup' = setup
  BY DEF BeginEvent, Tape
<1>1. StateOK(setup, ordinal, sims) /\ ordinal \in Nat /\ ordinal + 1 \in 0..Len(setup.tape)
      /\ StateOK(setup, ordinal + 1, sims)
  <2>1. StateOK(setup, ordinal, sims) /\ setup \in Setups /\ ordinal \in 0..Len(setup.tape)
    BY DEF CausalInv, StateOK
  <2>2. Len(setup.tape) \in Nat
    BY <2>1, TapeFacts
  <2>3. ordinal \in Nat /\ ordinal + 1 \in 0..Len(setup.tape)
    BY <1>0, <2>1, <2>2
  <2>4. \A j \in DOMAIN setup.models : SimIn(setup, sims[j], j, ordinal + 1)
    BY <2>1, <2>3, SimLater DEF StateOK
  <2> QED BY <2>1, <2>3, <2>4 DEF StateOK
<1>2. \/ pc' = "failed" /\ ordinal' = ordinal /\ sims' = sims
      \/ pc' = "failed" /\ ordinal' = ordinal + 1 /\ sims' = sims
      \/ /\ ordinal' = ordinal + 1 /\ trading' = context
         /\ sims' = sims \/ sims' = [sims EXCEPT ![i] = step.sim]
  <2> HIDE DEF p, g, segments, context, ended
  <2> QED BY DEF BeginEvent, Fail, p, g, segments, context, ended, CancelSegmentEnd
<1>3. CASE pc' = "failed" /\ ordinal' = ordinal /\ sims' = sims
  BY <1>0, <1>1, <1>3 DEF CausalInv, AtEvent
<1>4. CASE pc' = "failed" /\ ordinal' = ordinal + 1 /\ sims' = sims
  BY <1>0, <1>1, <1>4 DEF CausalInv, AtEvent
<1>5. CASE /\ ordinal' = ordinal + 1 /\ trading' = context
           /\ sims' = sims \/ sims' = [sims EXCEPT ![i] = step.sim]
  <2>1. TradingFor(setup, ordinal + 1, context)
    BY DEF TradingFor, Tape
  <2>2. StateOK(setup, ordinal + 1, [sims EXCEPT ![i] = step.sim])
    <3>1. ending \subseteq DOMAIN sims[i].orders
      OBVIOUS
    <3> HIDE DEF ending, i
    <3> QED BY <1>1, <3>1, StateCancelled
  <2> HIDE DEF context, i, step
  <2>3. StateOK(setup', ordinal', sims')
    BY <1>0, <1>1, <1>5, <2>2
  <2>4. ordinal' # 0 /\ TradingFor(setup', ordinal', trading')
    BY <1>0, <1>1, <1>5, <2>1
  <2> QED BY <2>3, <2>4 DEF CausalInv
<1> QED BY <1>2, <1>3, <1>4, <1>5

\* The strategy's intents, and the match.
LEMMA CausalOnEvent ==
    ASSUME CausalInv, NEW intents \in Outputs, NEW refusedAt, OnEvent(intents, refusedAt)
    PROVE  CausalInv'
<1> DEFINE i == Event.instrument
           ss == SubmitAll(intents).sims
           t == EvaluateEvent(ss[i], setup.models[i], Event, ordinal, trading).sim
<1>1. /\ pc = "event" /\ setup' = setup /\ ordinal' = ordinal /\ trading' = trading
      /\ sims' = [ss EXCEPT ![i] = t]
  BY DEF OnEvent
<1>2. StateOK(setup, ordinal, sims) /\ ordinal # 0 /\ TradingFor(setup, ordinal, trading)
  BY <1>1 DEF CausalInv, AtEvent
<1>3. StateOK(setup, ordinal, ss) /\ ordinal \in Nat \ {0}
  BY <1>2, StateSubmitted DEF StateOK
<1> HIDE DEF ss
<1>4. ASSUME i \in DOMAIN setup.models PROVE SimIn(setup, t, i, ordinal)
  <2>1. SimIn(setup, ss[i], i, ordinal)
    BY <1>3, <1>4 DEF StateOK
  <2>2. Event = setup.tape[ordinal]
    BY DEF Event, Tape
  <2> HIDE DEF i
  <2> QED BY <1>2, <1>3, <2>1, <2>2, SimEvaluated
<1> HIDE DEF t, i
<1>5. StateOK(setup, ordinal, [ss EXCEPT ![i] = t])
  BY <1>3, <1>4, StateUpdate
<1> QED BY <1>1, <1>2, <1>5 DEF CausalInv

LEMMA CausalSubmit ==
    ASSUME CausalInv, NEW intents \in Outputs, BoundaryFeedback(intents) \/ OnFeedback(intents)
    PROVE  CausalInv'
<1>1. /\ pc \in AtEvent /\ setup' = setup /\ ordinal' = ordinal /\ trading' = trading
      /\ sims' = SubmitAll(intents).sims
  BY DEF BoundaryFeedback, OnFeedback, AtEvent
<1>2. StateOK(setup, ordinal, sims) /\ ordinal # 0 /\ TradingFor(setup, ordinal, trading)
  BY <1>1 DEF CausalInv
<1>3. StateOK(setup, ordinal, SubmitAll(intents).sims)
  BY <1>2, StateSubmitted
<1> QED BY <1>1, <1>2, <1>3 DEF CausalInv

LEMMA CausalClose ==
    ASSUME CausalInv, CloseSegment \/ CloseRun
    PROVE  CausalInv'
<1>1. PICK i, ending :
        /\ i = First(closing)
        /\ ending \subseteq DOMAIN sims[i].orders
        /\ sims' = [sims EXCEPT ![i] = Cancel(sims[i], ending).sim]
        /\ setup' = setup /\ ordinal' = ordinal /\ pc' \notin AtEvent
  <2> DEFINE i == First(closing)
             a == {n \in DOMAIN sims[i].orders : sims[i].orders[n].segment = current[i]}
  <2>1. CASE CloseSegment
    <3>1. /\ sims' = [sims EXCEPT ![i] = Cancel(sims[i], a).sim]
          /\ setup' = setup /\ ordinal' = ordinal
      BY <2>1 DEF CloseSegment, CloseWith, CancelSegmentEnd
    <3>2. pc' \in {"close", "failed", "tellClose"}
      BY <2>1 DEF CloseSegment, CloseWith, Fail
    <3> HIDE DEF i
    <3> QED BY <3>1, <3>2, ZenonT(30) DEF AtEvent, i
  <2>2. CASE CloseRun
    <3>1. /\ sims' = [sims EXCEPT ![i] = Cancel(sims[i], DOMAIN sims[i].orders).sim]
          /\ setup' = setup /\ ordinal' = ordinal
      BY <2>2 DEF CloseRun, CloseWith, CancelEndOfRun
    <3>2. pc' \in {"end", "failed", "tellEnd"}
      BY <2>2 DEF CloseRun, CloseWith, Fail
    <3> HIDE DEF i
    <3> QED BY <3>1, <3>2 DEF AtEvent, i
  <2> QED BY <2>1, <2>2
<1>2. StateOK(setup, ordinal, [sims EXCEPT ![i] = Cancel(sims[i], ending).sim])
  BY <1>1, StateCancelled DEF CausalInv
<1> QED BY <1>1, <1>2 DEF CausalInv

\* The other steps touch no order.
Idles ==
    \/ Start \/ StrategyFails \/ EndOfTape \/ SegmentsClosed \/ TakeMarks \/ Finish
    \/ \E intents \in Outputs : TellClosing(intents)
LEMMA NextCases ==
    ASSUME [Next]_vars
    PROVE  \/ UNCHANGED vars \/ Idles \/ BeginEvent \/ CloseSegment \/ CloseRun
           \/ \E intents \in Outputs : BoundaryFeedback(intents) \/ OnFeedback(intents)
           \/ \E intents \in Outputs, refusedAt \in 0..MaxOrders : OnEvent(intents, refusedAt)
BY DEF Next, Idles
LEMMA IdleFacts ==
    ASSUME Idles
    PROVE  /\ setup' = setup /\ ordinal' = ordinal /\ sims' = sims /\ current' = current
           /\ ledger' = ledger /\ states' = states /\ trading' = trading /\ contexts' = contexts
           /\ pc' \notin AtEvent
BY DEF Idles, Start, StrategyFails, EndOfTape, SegmentsClosed, TakeMarks, Finish, TellClosing,
       Fail, AtEvent

LEMMA CausalNext ==
    ASSUME CausalInv, [Next]_vars PROVE CausalInv'
<1>1. CASE UNCHANGED vars
  BY <1>1 DEF vars, CausalInv
<1>2. CASE Idles
  BY <1>2, IdleFacts DEF CausalInv
<1>3. CASE BeginEvent
  BY <1>3, CausalBegin
<1>4. CASE CloseSegment \/ CloseRun
  BY <1>4, CausalClose
<1>5. CASE \E intents \in Outputs : BoundaryFeedback(intents) \/ OnFeedback(intents)
  BY <1>5, CausalSubmit
<1>6. CASE \E intents \in Outputs, refusedAt \in 0..MaxOrders : OnEvent(intents, refusedAt)
  BY <1>6, CausalOnEvent
<1> QED BY <1>1, <1>2, <1>3, <1>4, <1>5, <1>6, NextCases

\* The invariant explains every fill.
LEMMA CausalFills == CausalInv => FillsAreCausal
<1> SUFFICES ASSUME CausalInv, NEW i \in Universe, NEW f \in Range(sims[i].fills)
             PROVE  \E o \in Range(sims[i].orders) :
                      LET m == setup.models[i]
                          e == Tape[f.ordinal]
                      IN  /\ o.id = f.order /\ o.intent.instrument = i /\ e.instrument = i
                          /\ f.ordinal > o.origin
                          /\ f.time = e.time /\ e.time >= Tape[o.origin].time + m.latency
                          /\ SessionPhase(SegmentsFor(setup.schedule[i], e.time)[1], e.time)
                               # "CoolDown"
                          /\ \E l \in Range(Evidence(e, m, f.side)) :
                               f.price = Slipped(l.price, f.side, m)
                          /\ LimitTouched(o.intent, f.price)
  BY DEF FillsAreCausal
<1>1. SimIn(setup, sims[i], i, ordinal) /\ IsSim(sims[i])
  BY DEF CausalInv, StateOK, Universe, SimIn
<1>2. /\ DOMAIN sims[i].fills = 1..Len(sims[i].fills)
      /\ DOMAIN sims[i].orders = 1..Len(sims[i].orders)
  BY <1>1, SimFacts
<1>3. PICK j \in 1..Len(sims[i].fills) : f = sims[i].fills[j]
  BY <1>2 DEF Range
<1>4. CausalIn(setup, f, sims[i].orders, i)
  BY <1>1, <1>3 DEF SimIn
<1>5. \A n \in 1..Len(sims[i].orders) : sims[i].orders[n] \in Range(sims[i].orders)
  BY <1>2 DEF Range
<1> QED BY <1>4, <1>5 DEF CausalIn, Tape

\* Every fill is by a later event of its instrument, after the latency, in a
\* session that is open, at that event's evidence and within the order's limit,
\* whatever the tape, the models and the strategy (FillsAreCausal).
THEOREM NoLookAhead == Spec => []FillsAreCausal
BY CausalInit, CausalNext, CausalFills, PTL DEF Spec

-----------------------------------------------------------------------------
(* Orders end with their segment.                                          *)

\* The orders of instrument i that its own events placed: i has a segment, and
\* those that are live belong to it.
SegmentIn(st, cur, s, i) ==
    \A n \in 1..Len(s.orders) :
      st.tape[s.orders[n].origin].instrument = i =>
        i \in DOMAIN cur /\ (Live(s.orders[n]) => s.orders[n].segment = cur[i])
NoneLive(s) == \A n \in 1..Len(s.orders) : ~Live(s.orders[n])
SegmentsIn(st, cur, ss) == \A i \in DOMAIN st.models : SegmentIn(st, cur, ss[i], i)
TradesIn(st, k, context, cur) ==
    LET i == st.tape[k].instrument IN i \in DOMAIN cur /\ context.segment = cur[i]
\* The instruments that the last loop has closed.
Closed(j, ss, todo) ==
    CASE j = "end" -> \A i \in Universe : i \notin todo => NoneLive(ss[i])
      [] j = "tellEnd" -> \A i \in Universe : i \notin todo \/ i = First(todo) => NoneLive(ss[i])
      [] j \in {"finalize", "done"} -> \A i \in Universe : NoneLive(ss[i])
      [] OTHER -> TRUE
SegmentInv ==
    /\ CausalInv
    /\ SegmentsIn(setup, current, sims)
    /\ pc \in AtEvent => TradesIn(setup, ordinal, trading, current)
    /\ Closed(pc, sims, closing)

LEMMA SegmentEvolves ==
    ASSUME NEW st, NEW cur, NEW s, NEW t, NEW i, Evolved(s.orders, t.orders),
           SegmentIn(st, cur, s, i)
    PROVE  SegmentIn(st, cur, t, i) /\ (NoneLive(s) => NoneLive(t))
<1>1. Len(t.orders) = Len(s.orders) /\ \A n \in 1..Len(s.orders) : Later(s.orders[n], t.orders[n])
  BY DEF Evolved
<1>2. \A n \in 1..Len(s.orders) :
        /\ t.orders[n].origin = s.orders[n].origin /\ t.orders[n].segment = s.orders[n].segment
        /\ Live(t.orders[n]) => Live(s.orders[n])
  BY <1>1 DEF Later
<1> QED BY <1>1, <1>2 DEF SegmentIn, NoneLive

\* Orders that are placed are of the segment of their event.
LEMMA SegmentPlaced ==
    ASSUME NEW s, NEW t, NEW i, SegmentIn(setup, current, s, i), Placed(s, t, i), IsSim(s),
           TradesIn(setup, ordinal, trading, current)
    PROVE  SegmentIn(setup, current, t, i)
<1> SUFFICES ASSUME NEW n \in 1..Len(t.orders), setup.tape[t.orders[n].origin].instrument = i
             PROVE  i \in DOMAIN current /\ (Live(t.orders[n]) => t.orders[n].segment = current[i])
  BY DEF SegmentIn
<1>1. Len(s.orders) \in Nat /\ Len(t.orders) \in Nat
  BY SimFacts DEF Placed
<1>2. CASE n \in 1..Len(s.orders)
  BY <1>2 DEF Placed, SegmentIn
<1>3. CASE n \notin 1..Len(s.orders)
  <2>1. n \in (Len(s.orders) + 1)..Len(t.orders)
    BY <1>1, <1>3
  <2>2. t.orders[n].origin = ordinal /\ t.orders[n].segment = trading.segment
    BY <2>1 DEF Placed, IsNew
  <2> QED BY <2>2 DEF TradesIn
<1> QED BY <1>2, <1>3

LEMMA SegmentsSubmitted ==
    ASSUME SegmentInv, pc \in AtEvent, NEW intents \in Outputs
    PROVE  SegmentsIn(setup, current, SubmitAll(intents).sims)
<1>1. StateOK(setup, ordinal, sims) /\ ordinal # 0 /\ TradesIn(setup, ordinal, trading, current)
  BY DEF SegmentInv, CausalInv
<1>2. Submitted(SubmitAll(intents)) /\ DOMAIN sims = DOMAIN setup.models
  BY <1>1, StateSubmitted
<1> SUFFICES ASSUME NEW i \in DOMAIN setup.models
             PROVE  SegmentIn(setup, current, SubmitAll(intents).sims[i], i)
  BY DEF SegmentsIn
<1>3. Placed(sims[i], SubmitAll(intents).sims[i], i) /\ IsSim(sims[i])
  BY <1>1, <1>2 DEF Submitted, StateOK, SimIn
<1>4. SegmentIn(setup, current, sims[i], i)
  BY DEF SegmentInv, SegmentsIn
<1> QED BY <1>1, <1>3, <1>4, SegmentPlaced

LEMMA SegmentInit == Init => SegmentInv
<1> SUFFICES ASSUME Init PROVE SegmentInv
  OBVIOUS
<1>1. pc = "start" /\ sims = [i \in DOMAIN setup.models |-> Empty]
  BY DEF Init
<1>2. \A i \in DOMAIN setup.models : \A n \in 1..Len(sims[i].orders) : FALSE
  <2>1. Len(Empty.orders) = 0
    BY TupleFacts DEF Empty
  <2> QED BY <1>1, <2>1
<1> QED BY <1>1, <1>2, CausalInit DEF SegmentInv, SegmentsIn, SegmentIn, AtEvent, Closed

\* The segment before the event's ends.
LEMMA SegmentBegin ==
    ASSUME SegmentInv, BeginEvent PROVE SegmentInv'
<1> DEFINE e == Tape[ordinal + 1]
           segments == SegmentsFor(setup.schedule[e.instrument], e.time)
           g == segments[1]
           p == Propose(StateFor(e), e, ReducerContext(g))
           context == Evaluate(e, p.next.version, p.next, g)
           i == e.instrument
           ended == EndedSegment(i, g)
           x == CHOOSE s \in ended : TRUE
           ending == {n \in DOMAIN sims[i].orders : sims[i].orders[n].segment = x}
           step == Cancel(sims[i], ending)
<1>0. pc = "next" /\ setup' = setup /\ CausalInv' /\ CausalInv
  BY CausalBegin DEF BeginEvent, SegmentInv
<1>1. \/ pc' = "failed" /\ sims' = sims /\ current' = current
      \/ /\ pc' \in {"event", "boundary"} /\ ordinal' = ordinal + 1 /\ trading' = context
         /\ current' = Insert(current, i, g.id)
         /\ sims' = IF ended = {} THEN sims ELSE [sims EXCEPT ![i] = step.sim]
  <2> HIDE DEF p, g, segments, context, ended
  <2> QED BY DEF BeginEvent, Fail, p, g, segments, context, ended, CancelSegmentEnd
<1>2. CASE pc' = "failed" /\ sims' = sims /\ current' = current
  BY <1>0, <1>2 DEF SegmentInv, AtEvent, Closed
<1>3. CASE /\ pc' \in {"event", "boundary"} /\ ordinal' = ordinal + 1 /\ trading' = context
           /\ current' = Insert(current, i, g.id)
           /\ sims' = IF ended = {} THEN sims ELSE [sims EXCEPT ![i] = step.sim]
  <2>1. context.segment = g.id /\ setup.tape[ordinal + 1].instrument = i
    BY DEF Evaluate, Tape
  <2>2. ended = {current[j] : j \in {i} \cap DOMAIN current} \ {g.id}
    BY DEF EndedSegment
  <2> HIDE DEF p, g, segments, context, ended, step, e, i
  <2>3. /\ DOMAIN current' = DOMAIN current \cup {i} /\ current'[i] = g.id
        /\ \A j \in DOMAIN current : j # i => current'[j] = current[j]
    BY <1>3 DEF Insert
  <2>4. TradesIn(setup', ordinal', trading', current')
    BY <1>0, <1>3, <2>1, <2>3 DEF TradesIn
  <2>5. DOMAIN sims = DOMAIN setup.models
    BY <1>0 DEF CausalInv, StateOK
  <2>6. ASSUME NEW j \in DOMAIN setup.models PROVE SegmentIn(setup, current', sims'[j], j)
    <3>0. SegmentIn(setup, current, sims[j], j)
      BY DEF SegmentInv, SegmentsIn
    <3>1. CASE j # i
      <4>1. sims'[j] = sims[j]
        BY <1>3, <2>5, <3>1
      <4> QED BY <3>0, <3>1, <4>1, <2>3 DEF SegmentIn
    <3>2. CASE j = i /\ j \notin DOMAIN current
      <4>1. ended = {}
        BY <3>2, <2>2
      <4>2. sims' = sims
        BY <1>3, <4>1
      <4> QED BY <3>0, <3>2, <4>2 DEF SegmentIn
    <3>3. CASE j = i /\ j \in DOMAIN current /\ current[i] = g.id
      <4>1. ended = {}
        BY <3>3, <2>2
      <4>2. sims' = sims
        BY <1>3, <4>1
      <4> QED BY <3>0, <3>3, <4>2, <2>3 DEF SegmentIn
    <3>4. CASE j = i /\ j \in DOMAIN current /\ current[i] # g.id
      <4>1. ended = {current[i]}
        BY <3>4, <2>2
      <4>2. x = current[i] /\ ended # {}
        BY <4>1
      <4>3. sims'[i] = step.sim
        BY <1>3, <2>5, <3>4, <4>2
      <4>4. IsSim(sims[i]) /\ ending \subseteq DOMAIN sims[i].orders
        BY <1>0, <3>4 DEF CausalInv, StateOK, SimIn
      <4>5. /\ Evolved(sims[i].orders, step.sim.orders)
            /\ \A n \in ending : ~Live(step.sim.orders[n])
        <5> HIDE DEF ending
        <5> QED BY <4>4, CancelFacts DEF step
      <4>6. DOMAIN sims[i].orders = 1..Len(sims[i].orders)
        BY <4>4, SimFacts
      <4>7. SegmentIn(setup, current, step.sim, i)
        BY <3>0, <3>4, <4>5, SegmentEvolves
      <4>8. ASSUME NEW n \in 1..Len(step.sim.orders),
                   setup.tape[step.sim.orders[n].origin].instrument = i
            PROVE  ~Live(step.sim.orders[n])
        <5>1. n \in DOMAIN sims[i].orders /\ step.sim.orders[n].segment = sims[i].orders[n].segment
          BY <4>5, <4>6 DEF Evolved, Later
        <5>2. CASE sims[i].orders[n].segment = x
          BY <5>1, <5>2, <4>5
        <5>3. CASE sims[i].orders[n].segment # x
          BY <5>1, <5>3, <4>2, <4>7, <4>8 DEF SegmentIn
        <5> QED BY <5>2, <5>3
      <4> QED BY <3>4, <4>3, <4>8, <2>3 DEF SegmentIn
    <3> QED BY <3>1, <3>2, <3>3, <3>4
  <2>7. SegmentsIn(setup', current', sims')
    BY <1>0, <2>6 DEF SegmentsIn
  <2>8. Closed(pc, sims, closing)'
    BY <1>3 DEF Closed
  <2> QED BY <1>0, <2>4, <2>7, <2>8 DEF SegmentInv
<1> QED BY <1>1, <1>2, <1>3

LEMMA SegmentOnEvent ==
    ASSUME SegmentInv, NEW intents \in Outputs, NEW refusedAt, OnEvent(intents, refusedAt)
    PROVE  SegmentInv'
<1> DEFINE i == Event.instrument
           ss == SubmitAll(intents).sims
           t == EvaluateEvent(ss[i], setup.models[i], Event, ordinal, trading).sim
<1>1. /\ pc = "event" /\ setup' = setup /\ ordinal' = ordinal /\ trading' = trading
      /\ current' = current /\ sims' = [ss EXCEPT ![i] = t]
      /\ pc' \in {"failed", "next", "feedback"}
  BY DEF OnEvent, Fail
<1>2. CausalInv' /\ CausalInv /\ pc \in AtEvent /\ TradesIn(setup, ordinal, trading, current)
  BY <1>1, CausalOnEvent DEF SegmentInv, AtEvent
<1>3. SegmentsIn(setup, current, ss) /\ StateOK(setup, ordinal, ss)
  BY <1>2, SegmentsSubmitted, StateSubmitted DEF CausalInv
<1> HIDE DEF ss
<1>4. ASSUME NEW j \in DOMAIN setup.models PROVE SegmentIn(setup, current, sims'[j], j)
  <2>1. SegmentIn(setup, current, ss[j], j) /\ SimIn(setup, ss[j], j, ordinal)
        /\ DOMAIN ss = DOMAIN setup.models
    BY <1>3 DEF SegmentsIn, StateOK
  <2>2. CASE j # i
    <3> HIDE DEF t, i
    <3> QED BY <1>1, <2>1, <2>2
  <2>3. CASE j = i
    <3>1. sims'[j] = t
      <4> HIDE DEF t, i
      <4> QED BY <1>1, <2>1, <2>3
    <3>2. IsSim(ss[i]) /\ HaveSides(ss[i].orders)
      BY <2>1, <2>3 DEF SimIn, HaveSides, OrderIn
    <3>3. Evolved(ss[i].orders, t.orders)
      BY <3>2, EvaluateFacts
    <3> HIDE DEF t, i
    <3> QED BY <2>1, <2>3, <3>1, <3>3, SegmentEvolves
  <2> QED BY <2>2, <2>3
<1>5. SegmentsIn(setup', current', sims')
  BY <1>1, <1>4 DEF SegmentsIn
<1>6. Closed(pc, sims, closing)'
  BY <1>1 DEF Closed
<1>7. TradesIn(setup', ordinal', trading', current')
  BY <1>1, <1>2
<1> QED BY <1>2, <1>5, <1>6, <1>7 DEF SegmentInv

LEMMA SegmentSubmit ==
    ASSUME SegmentInv, NEW intents \in Outputs, BoundaryFeedback(intents) \/ OnFeedback(intents)
    PROVE  SegmentInv'
<1>1. /\ pc \in AtEvent /\ setup' = setup /\ ordinal' = ordinal /\ trading' = trading
      /\ current' = current /\ sims' = SubmitAll(intents).sims /\ pc' \in {"event", "next"}
  BY DEF BoundaryFeedback, OnFeedback, AtEvent
<1>2. CausalInv' /\ TradesIn(setup, ordinal, trading, current)
  BY <1>1, CausalSubmit DEF SegmentInv
<1>3. SegmentsIn(setup, current, SubmitAll(intents).sims)
  BY <1>1, SegmentsSubmitted
<1>4. Closed(pc, sims, closing)'
  BY <1>1 DEF Closed
<1> QED BY <1>1, <1>2, <1>3, <1>4 DEF SegmentInv

\* One instrument of either loop at the end.
LEMMA SegmentClose ==
    ASSUME SegmentInv, CloseSegment \/ CloseRun
    PROVE  SegmentInv'
<1> DEFINE i == First(closing)
<1>0. CausalInv' /\ CausalInv /\ setup' = setup /\ current' = current
  BY CausalClose DEF SegmentInv, CloseSegment, CloseRun, CloseWith
<1>1. PICK ending :
        /\ ending \subseteq DOMAIN sims[i].orders
        /\ sims' = [sims EXCEPT ![i] = Cancel(sims[i], ending).sim]
        /\ \/ CloseSegment
           \/ CloseRun /\ ending = DOMAIN sims[i].orders
  <2> DEFINE a == {n \in DOMAIN sims[i].orders : sims[i].orders[n].segment = current[i]}
  <2>1. CASE CloseSegment
    <3>1. sims' = [sims EXCEPT ![i] = Cancel(sims[i], a).sim]
      BY <2>1 DEF CloseSegment, CloseWith, CancelSegmentEnd
    <3> HIDE DEF i
    <3> QED BY <2>1, <3>1
  <2>2. CASE CloseRun
    <3>1. sims' = [sims EXCEPT ![i] = Cancel(sims[i], DOMAIN sims[i].orders).sim]
      BY <2>2 DEF CloseRun, CloseWith, CancelEndOfRun
    <3> HIDE DEF i
    <3> QED BY <2>2, <3>1
  <2> QED BY <2>1, <2>2
<1> DEFINE t == Cancel(sims[i], ending).sim
<1>2. DOMAIN sims = DOMAIN setup.models
  BY <1>0 DEF CausalInv, StateOK
<1>3. ASSUME NEW j \in DOMAIN setup.models
      PROVE  /\ SegmentIn(setup, current, sims'[j], j)
             /\ NoneLive(sims[j]) => NoneLive(sims'[j])
             /\ CloseRun /\ j = i => NoneLive(sims'[j])
  <2>0. SegmentIn(setup, current, sims[j], j)
    BY DEF SegmentInv, SegmentsIn
  <2>1. CASE j # i
    <3> HIDE DEF t, i
    <3>1. sims'[j] = sims[j]
      BY <1>1, <1>2, <2>1
    <3> QED BY <2>0, <2>1, <3>1
  <2>2. CASE j = i
    <3>1. IsSim(sims[i])
      BY <1>0, <2>2 DEF CausalInv, StateOK, SimIn
    <3>2. Evolved(sims[i].orders, t.orders) /\ \A n \in ending : ~Live(t.orders[n])
      BY <1>1, <3>1, CancelFacts
    <3>3. sims'[j] = t
      <4> HIDE DEF t, i
      <4> QED BY <1>1, <1>2, <2>2 DEF t
    <3> HIDE DEF t
    <3>4. SegmentIn(setup, current, t, i) /\ (NoneLive(sims[i]) => NoneLive(t))
      BY <2>0, <2>2, <3>2, SegmentEvolves
    <3>5. ASSUME CloseRun PROVE NoneLive(t)
      <4>1. CASE ending = DOMAIN sims[i].orders
        <5>1. DOMAIN sims[i].orders = 1..Len(sims[i].orders)
          BY <3>1, SimFacts
        <5> QED BY <4>1, <5>1, <3>2 DEF NoneLive, Evolved
      <4>2. CASE CloseSegment
        BY <3>5, <4>2 DEF CloseSegment, CloseRun
      <4> QED BY <1>1, <4>1, <4>2
    <3> HIDE DEF i
    <3> QED BY <2>2, <3>3, <3>4, <3>5
  <2> QED BY <2>1, <2>2
<1>4. SegmentsIn(setup', current', sims')
  BY <1>0, <1>3 DEF SegmentsIn
<1>5. CASE CloseSegment
  <2>1. pc' \in {"close", "failed", "tellClose"}
    BY <1>5 DEF CloseSegment, CloseWith, Fail
  <2> QED BY <1>0, <1>4, <2>1 DEF SegmentInv, Closed, AtEvent
<1>6. CASE CloseRun
  <2>1. pc = "end" /\ \/ pc' = "failed"
                      \/ pc' = "end" /\ closing' = closing \ {i}
                      \/ pc' = "tellEnd" /\ closing' = closing
    BY <1>6 DEF CloseRun, CloseWith, Fail
  <2>2. \A j \in DOMAIN setup.models : j \notin closing => NoneLive(sims[j])
    BY <2>1 DEF SegmentInv, Closed, Universe
  <2>3. \A j \in DOMAIN setup.models : j \notin closing \/ j = i => NoneLive(sims'[j])
    <3> HIDE DEF i
    <3> QED BY <1>3, <1>6, <2>2
  <2>4. CASE pc' = "failed"
    BY <1>0, <1>4, <2>4 DEF SegmentInv, Closed, AtEvent
  <2>5. CASE pc' = "end" /\ closing' = closing \ {i}
    <3> HIDE DEF i
    <3>1. \A j \in DOMAIN setup.models : j \notin closing' => NoneLive(sims'[j])
      BY <2>3, <2>5
    <3>2. Closed(pc, sims, closing)'
      BY <1>0, <2>5, <3>1 DEF Closed, Universe
    <3> QED BY <1>0, <1>4, <2>5, <3>2 DEF SegmentInv, AtEvent
  <2>6. CASE pc' = "tellEnd" /\ closing' = closing
    <3>1. Closed(pc, sims, closing)'
      BY <1>0, <2>3, <2>6 DEF Closed, Universe
    <3> QED BY <1>0, <1>4, <2>6, <3>1 DEF SegmentInv, AtEvent
  <2> QED BY <2>1, <2>4, <2>5, <2>6
<1> QED BY <1>5, <1>6

LEMMA SegmentIdles ==
    ASSUME SegmentInv, Idles PROVE SegmentInv'
<1>1. CausalInv' /\ SegmentsIn(setup', current', sims') /\ pc' \notin AtEvent
      /\ setup' = setup /\ sims' = sims
  <2>1. CausalInv'
    BY IdleFacts DEF SegmentInv, CausalInv
  <2> QED BY <2>1, IdleFacts DEF SegmentInv
<1>2. Closed(pc, sims, closing)'
  <2>1. CASE Start \/ StrategyFails \/ EndOfTape
    <3>1. pc' \in {"failed", "next", "close"}
      BY <2>1 DEF Start, StrategyFails, EndOfTape, Fail
    <3> QED BY <3>1 DEF Closed
  <2>2. CASE SegmentsClosed
    <3>1. pc' = "end" /\ closing' = Universe
      BY <2>2 DEF SegmentsClosed
    <3> QED BY <1>1, <3>1 DEF Closed, Universe
  <2>3. CASE TakeMarks
    <3>1. pc = "end" /\ closing = {} /\ pc' = "finalize"
      BY <2>3 DEF TakeMarks
    <3> QED BY <1>1, <3>1 DEF Closed, Universe, SegmentInv
  <2>4. CASE Finish
    <3>1. pc = "finalize" /\ pc' \in {"failed", "done"}
      BY <2>4 DEF Finish, Fail
    <3> QED BY <1>1, <3>1 DEF Closed, Universe, SegmentInv
  <2>5. ASSUME NEW intents \in Outputs, TellClosing(intents) PROVE Closed(pc, sims, closing)'
    <3>1. \/ pc' = "failed" \/ pc' = "close"
          \/ pc = "tellEnd" /\ pc' = "end" /\ closing' = closing \ {First(closing)}
      BY <2>5 DEF TellClosing, Fail
    <3>2. CASE pc' = "failed" \/ pc' = "close"
      BY <3>2 DEF Closed
    <3>3. CASE pc = "tellEnd" /\ pc' = "end" /\ closing' = closing \ {First(closing)}
      <4>1. \A i \in Universe : i \notin closing \/ i = First(closing) => NoneLive(sims[i])
        BY <3>3 DEF SegmentInv, Closed
      <4> DEFINE x == First(closing)
      <4> HIDE DEF x
      <4>2. \A i \in Universe : i \notin closing \ {x} => NoneLive(sims[i])
        BY <4>1 DEF x
      <4> QED BY <1>1, <3>3, <4>2 DEF Closed, Universe, x
    <3> QED BY <3>1, <3>2, <3>3
  <2> QED BY <2>1, <2>2, <2>3, <2>4, <2>5 DEF Idles
<1> QED BY <1>1, <1>2 DEF SegmentInv

LEMMA SegmentNext ==
    ASSUME SegmentInv, [Next]_vars PROVE SegmentInv'
<1>1. CASE UNCHANGED vars
  BY <1>1 DEF vars, SegmentInv, CausalInv, Closed, Universe
<1>2. CASE Idles
  BY <1>2, SegmentIdles
<1>3. CASE BeginEvent
  BY <1>3, SegmentBegin
<1>4. CASE CloseSegment \/ CloseRun
  BY <1>4, SegmentClose
<1>5. CASE \E intents \in Outputs : BoundaryFeedback(intents) \/ OnFeedback(intents)
  BY <1>5, SegmentSubmit
<1>6. CASE \E intents \in Outputs, refusedAt \in 0..MaxOrders : OnEvent(intents, refusedAt)
  BY <1>6, SegmentOnEvent
<1> QED BY <1>1, <1>2, <1>3, <1>4, <1>5, <1>6, NextCases

LEMMA SegmentOrders == SegmentInv => OrdersEndWithTheirSegment
<1> SUFFICES ASSUME SegmentInv PROVE OrdersEndWithTheirSegment
  OBVIOUS
<1>1. ASSUME NEW o \in AllOrders
      PROVE  \E n : /\ o.intent.instrument \in Universe
                    /\ n \in 1..Len(sims[o.intent.instrument].orders)
                    /\ o = sims[o.intent.instrument].orders[n]
  <2>1. PICK i \in Universe : o \in Range(sims[i].orders)
    BY <1>1 DEF AllOrders
  <2>2. SimIn(setup, sims[i], i, ordinal)
    BY <2>1 DEF SegmentInv, CausalInv, StateOK, Universe
  <2>3. DOMAIN sims[i].orders = 1..Len(sims[i].orders)
    BY <2>2, SimFacts DEF SimIn
  <2>4. PICK n \in 1..Len(sims[i].orders) : o = sims[i].orders[n]
    BY <2>1, <2>3 DEF Range
  <2>5. o.intent.instrument = i
    BY <2>2, <2>4 DEF SimIn, OrderIn
  <2> QED BY <2>1, <2>4, <2>5
<1>2. ASSUME NEW o \in AllOrders, Live(o), Tape[o.origin].instrument = o.intent.instrument
      PROVE  o.segment = current[o.intent.instrument]
  BY <1>1, <1>2 DEF SegmentInv, SegmentsIn, SegmentIn, Universe, Tape
<1>3. ASSUME pc = "done", NEW o \in AllOrders PROVE ~Live(o)
  <2>1. \A i \in Universe : NoneLive(sims[i])
    BY <1>3 DEF SegmentInv, Closed
  <2> QED BY <1>1, <2>1 DEF NoneLive
<1> QED BY <1>2, <1>3 DEF OrdersEndWithTheirSegment

\* An order that an event of its own instrument placed is live only in the
\* segment of that event, over every sequence of segments, and when a run has
\* completed no order at all is live (OrdersEndWithTheirSegment).
THEOREM SegmentsEndOrders == Spec => []OrdersEndWithTheirSegment
BY SegmentInit, SegmentNext, SegmentOrders, PTL DEF Spec

-----------------------------------------------------------------------------
(* Sums over orders, fills and feedback.                                   *)

SumFilled(orders) == Total([n \in DOMAIN orders |-> orders[n].filled])
SumQuantity(fills) == Total([n \in DOMAIN fills |-> fills[n].quantity])

FillsCount(orders) == \A n \in 1..Len(orders) : orders[n].filled \in Int
HaveQuantity(fills) == \A n \in 1..Len(fills) : fills[n].quantity \in Int
News(s) ==
    /\ IsSeq(s)
    /\ \A n \in 1..Len(s) : s[n].type \in {"Filled", "PartiallyFilled"} => s[n].quantity \in Int
Ends == {"Filled", "Cancelled"}

LEMMA IntSeq ==
    ASSUME NEW N \in Nat, NEW u, u = [n \in 1..N |-> u[n]], \A n \in 1..N : u[n] \in Int
    PROVE  u \in Seq(Int) /\ Len(u) = N
<1>1. u \in [1..N -> Int]
  OBVIOUS
<1> QED BY <1>1

\* The sums are integers.
LEMMA OrderSums ==
    ASSUME NEW s, IsSeq(s), FillsCount(s), NEW x
    PROVE  /\ SumFilled(s) \in Int /\ QuantityFilled(s, x) \in Int
           /\ \A type \in Ends : TimesEnded(s, type, x) \in Int
<1>0. Len(s) \in Nat /\ DOMAIN s = 1..Len(s)
  BY SeqFacts
<1>1. SumFilled(s) \in Int
  <2> DEFINE u == [n \in DOMAIN s |-> s[n].filled]
  <2>1. u = [n \in 1..Len(s) |-> u[n]] /\ \A n \in 1..Len(s) : u[n] \in Int
    BY <1>0 DEF FillsCount
  <2> HIDE DEF u
  <2>2. Total(u) \in Int
    BY <1>0, <2>1, IntSeq, TotalType
  <2> QED BY <2>2 DEF SumFilled, u
<1>2. QuantityFilled(s, x) \in Int
  <2> DEFINE u == [n \in DOMAIN s |-> IF s[n].id = x THEN s[n].filled ELSE 0]
  <2>1. u = [n \in 1..Len(s) |-> u[n]] /\ \A n \in 1..Len(s) : u[n] \in Int
    BY <1>0 DEF FillsCount
  <2> HIDE DEF u
  <2>2. Total(u) \in Int
    BY <1>0, <2>1, IntSeq, TotalType
  <2> QED BY <2>2 DEF QuantityFilled, u
<1>3. ASSUME NEW type \in Ends PROVE TimesEnded(s, type, x) \in Int
  <2> DEFINE u == [n \in DOMAIN s |-> IF s[n].status = type /\ s[n].id = x THEN 1 ELSE 0]
  <2>1. u = [n \in 1..Len(s) |-> u[n]] /\ \A n \in 1..Len(s) : u[n] \in Int
    BY <1>0
  <2> HIDE DEF u
  <2>2. Total(u) \in Int
    BY <1>0, <2>1, IntSeq, TotalType
  <2> QED BY <2>2 DEF TimesEnded, u
<1> QED BY <1>1, <1>2, <1>3

LEMMA FillSums ==
    ASSUME NEW s, IsSeq(s), HaveQuantity(s), NEW k, NEW side
    PROVE  SumQuantity(s) \in Int /\ Taken(s, k, side) \in Int
<1>0. Len(s) \in Nat /\ DOMAIN s = 1..Len(s)
  BY SeqFacts
<1>1. SumQuantity(s) \in Int
  <2> DEFINE u == [n \in DOMAIN s |-> s[n].quantity]
  <2>1. u = [n \in 1..Len(s) |-> u[n]] /\ \A n \in 1..Len(s) : u[n] \in Int
    BY <1>0 DEF HaveQuantity
  <2> HIDE DEF u
  <2>2. Total(u) \in Int
    BY <1>0, <2>1, IntSeq, TotalType
  <2> QED BY <2>2 DEF SumQuantity, u
<1>2. Taken(s, k, side) \in Int
  <2> DEFINE u == [n \in DOMAIN s |->
                     IF s[n].ordinal = k /\ s[n].side = side THEN s[n].quantity ELSE 0]
  <2>1. u = [n \in 1..Len(s) |-> u[n]] /\ \A n \in 1..Len(s) : u[n] \in Int
    BY <1>0 DEF HaveQuantity
  <2> HIDE DEF u
  <2>2. Total(u) \in Int
    BY <1>0, <2>1, IntSeq, TotalType
  <2> QED BY <2>2 DEF Taken, u
<1> QED BY <1>1, <1>2

LEMMA NewsSums ==
    ASSUME NEW s, News(s), NEW x
    PROVE  QuantityTold(s, x) \in Int /\ \A type \in Ends : TimesTold(s, type, x) \in Int
<1>0. Len(s) \in Nat /\ DOMAIN s = 1..Len(s)
  BY SeqFacts DEF News
<1>1. QuantityTold(s, x) \in Int
  <2> DEFINE u == [n \in DOMAIN s |->
                     IF s[n].type \in {"Filled", "PartiallyFilled"} /\ s[n].order = x
                     THEN s[n].quantity ELSE 0]
  <2>1. u = [n \in 1..Len(s) |-> u[n]] /\ \A n \in 1..Len(s) : u[n] \in Int
    BY <1>0 DEF News
  <2> HIDE DEF u
  <2>2. Total(u) \in Int
    BY <1>0, <2>1, IntSeq, TotalType
  <2> QED BY <2>2 DEF QuantityTold, u
<1>2. ASSUME NEW type \in Ends PROVE TimesTold(s, type, x) \in Int
  <2> DEFINE u == [n \in DOMAIN s |-> IF s[n].type = type /\ s[n].order = x THEN 1 ELSE 0]
  <2>1. u = [n \in 1..Len(s) |-> u[n]] /\ \A n \in 1..Len(s) : u[n] \in Int
    BY <1>0
  <2> HIDE DEF u
  <2>2. Total(u) \in Int
    BY <1>0, <2>1, IntSeq, TotalType
  <2> QED BY <2>2 DEF TimesTold, u
<1> QED BY <1>1, <1>2

\* One fill more.
LEMMA FillsMore ==
    ASSUME NEW s, IsSeq(s), HaveQuantity(s), NEW f, f.quantity \in Int, NEW k, NEW side
    PROVE  LET t == Append(s, f)
           IN  /\ HaveQuantity(t) /\ SumQuantity(t) = SumQuantity(s) + f.quantity
               /\ Taken(t, k, side) = Taken(s, k, side)
                    + (IF f.ordinal = k /\ f.side = side THEN f.quantity ELSE 0)
<1> DEFINE t == Append(s, f)
<1>0. /\ Len(s) \in Nat /\ DOMAIN s = 1..Len(s) /\ IsSeq(t) /\ Len(t) = Len(s) + 1
      /\ DOMAIN t = 1..(Len(s) + 1) /\ t[Len(s) + 1] = f /\ \A n \in 1..Len(s) : t[n] = s[n]
  BY SeqFacts, AppendFacts
<1> HIDE DEF t
<1>1. SumQuantity(t) = SumQuantity(s) + f.quantity
  <2> DEFINE u == [n \in DOMAIN s |-> s[n].quantity]
             v == [n \in DOMAIN t |-> t[n].quantity]
  <2>1. u = [n \in 1..Len(s) |-> u[n]] /\ \A n \in 1..Len(s) : u[n] \in Int
    BY <1>0 DEF HaveQuantity
  <2>2. v = [n \in 1..(Len(s) + 1) |-> v[n]] /\ v[Len(s) + 1] = f.quantity
        /\ \A n \in 1..Len(s) : v[n] = u[n]
    BY <1>0
  <2> HIDE DEF u, v
  <2>3. u \in Seq(Int) /\ Len(u) = Len(s)
    BY <1>0, <2>1, IntSeq
  <2>4. Total(v) = Total(u) + v[Len(u) + 1]
    BY <2>2, <2>3, TotalMore
  <2> QED BY <2>2, <2>3, <2>4 DEF SumQuantity, u, v
<1>2. Taken(t, k, side) = Taken(s, k, side)
        + (IF f.ordinal = k /\ f.side = side THEN f.quantity ELSE 0)
  <2> DEFINE u == [n \in DOMAIN s |->
                     IF s[n].ordinal = k /\ s[n].side = side THEN s[n].quantity ELSE 0]
             v == [n \in DOMAIN t |->
                     IF t[n].ordinal = k /\ t[n].side = side THEN t[n].quantity ELSE 0]
  <2>1. u = [n \in 1..Len(s) |-> u[n]] /\ \A n \in 1..Len(s) : u[n] \in Int
    BY <1>0 DEF HaveQuantity
  <2>2. v = [n \in 1..(Len(s) + 1) |-> v[n]]
        /\ v[Len(s) + 1] = (IF f.ordinal = k /\ f.side = side THEN f.quantity ELSE 0)
        /\ v[Len(s) + 1] \in Int
        /\ \A n \in 1..Len(s) : v[n] = u[n]
    BY <1>0
  <2> HIDE DEF u, v
  <2>3. u \in Seq(Int) /\ Len(u) = Len(s)
    BY <1>0, <2>1, IntSeq
  <2>4. Total(v) = Total(u) + v[Len(u) + 1]
    BY <2>2, <2>3, TotalMore
  <2> QED BY <2>2, <2>3, <2>4 DEF Taken, u, v
<1>3. HaveQuantity(t)
  <2>1. \A n \in 1..Len(t) : n = Len(s) + 1 \/ n \in 1..Len(s)
    BY <1>0
  <2> QED BY <1>0, <2>1 DEF HaveQuantity
<1> QED BY <1>1, <1>2, <1>3 DEF t

\* One piece of news more.
Tells(y, x) == y.type \in {"Filled", "PartiallyFilled"} /\ y.order = x
LEMMA NewsMore ==
    ASSUME NEW s, News(s), NEW y, y.type \in {"Filled", "PartiallyFilled"} => y.quantity \in Int, NEW x
    PROVE  LET t == Append(s, y)
           IN  /\ News(t)
               /\ QuantityTold(t, x) = QuantityTold(s, x) + (IF Tells(y, x) THEN y.quantity ELSE 0)
               /\ \A type \in Ends : TimesTold(t, type, x) =
                    TimesTold(s, type, x) + (IF y.type = type /\ y.order = x THEN 1 ELSE 0)
<1> DEFINE t == Append(s, y)
<1>0. /\ Len(s) \in Nat /\ DOMAIN s = 1..Len(s) /\ IsSeq(t) /\ Len(t) = Len(s) + 1
      /\ DOMAIN t = 1..(Len(s) + 1) /\ t[Len(s) + 1] = y /\ \A n \in 1..Len(s) : t[n] = s[n]
  BY SeqFacts, AppendFacts DEF News
<1> HIDE DEF t
<1>1. QuantityTold(t, x) = QuantityTold(s, x) + (IF Tells(y, x) THEN y.quantity ELSE 0)
  <2> DEFINE u == [n \in DOMAIN s |->
                     IF s[n].type \in {"Filled", "PartiallyFilled"} /\ s[n].order = x
                     THEN s[n].quantity ELSE 0]
             v == [n \in DOMAIN t |->
                     IF t[n].type \in {"Filled", "PartiallyFilled"} /\ t[n].order = x
                     THEN t[n].quantity ELSE 0]
  <2>1. u = [n \in 1..Len(s) |-> u[n]] /\ \A n \in 1..Len(s) : u[n] \in Int
    BY <1>0 DEF News
  <2>2. v = [n \in 1..(Len(s) + 1) |-> v[n]] /\ v[Len(s) + 1] = (IF Tells(y, x) THEN y.quantity ELSE 0)
        /\ v[Len(s) + 1] \in Int
        /\ \A n \in 1..Len(s) : v[n] = u[n]
    BY <1>0 DEF Tells
  <2> HIDE DEF u, v
  <2>3. u \in Seq(Int) /\ Len(u) = Len(s)
    BY <1>0, <2>1, IntSeq
  <2>4. Total(v) = Total(u) + v[Len(u) + 1]
    BY <2>2, <2>3, TotalMore
  <2> QED BY <2>2, <2>3, <2>4 DEF QuantityTold, u, v
<1>2. ASSUME NEW type \in Ends
      PROVE  TimesTold(t, type, x) =
               TimesTold(s, type, x) + (IF y.type = type /\ y.order = x THEN 1 ELSE 0)
  <2> DEFINE u == [n \in DOMAIN s |-> IF s[n].type = type /\ s[n].order = x THEN 1 ELSE 0]
             v == [n \in DOMAIN t |-> IF t[n].type = type /\ t[n].order = x THEN 1 ELSE 0]
  <2>1. u = [n \in 1..Len(s) |-> u[n]] /\ \A n \in 1..Len(s) : u[n] \in Int
    BY <1>0
  <2>2. v = [n \in 1..(Len(s) + 1) |-> v[n]]
        /\ v[Len(s) + 1] = (IF y.type = type /\ y.order = x THEN 1 ELSE 0)
        /\ v[Len(s) + 1] \in Int
        /\ \A n \in 1..Len(s) : v[n] = u[n]
    BY <1>0
  <2> HIDE DEF u, v
  <2>3. u \in Seq(Int) /\ Len(u) = Len(s)
    BY <1>0, <2>1, IntSeq
  <2>4. Total(v) = Total(u) + v[Len(u) + 1]
    BY <2>2, <2>3, TotalMore
  <2> QED BY <2>2, <2>3, <2>4 DEF TimesTold, u, v
<1>3. News(t)
  <2>1. \A n \in 1..Len(t) : n = Len(s) + 1 \/ n \in 1..Len(s)
    BY <1>0
  <2> QED BY <1>0, <2>1 DEF News
<1> QED BY <1>1, <1>2, <1>3 DEF t

\* News after news.
LEMMA NewsConcat ==
    ASSUME NEW s, NEW t, News(s), News(t), NEW x
    PROVE  /\ News(s \o t) /\ QuantityTold(s \o t, x) = QuantityTold(s, x) + QuantityTold(t, x)
           /\ \A type \in Ends :
                TimesTold(s \o t, type, x) = TimesTold(s, type, x) + TimesTold(t, type, x)
<1> DEFINE w == s \o t
<1>0. /\ Len(s) \in Nat /\ DOMAIN s = 1..Len(s) /\ Len(t) \in Nat /\ DOMAIN t = 1..Len(t)
      /\ IsSeq(w) /\ Len(w) = Len(s) + Len(t) /\ DOMAIN w = 1..(Len(s) + Len(t))
      /\ \A n \in 1..Len(s) : w[n] = s[n]
      /\ \A n \in (Len(s) + 1)..(Len(s) + Len(t)) : w[n] = t[n - Len(s)]
  BY SeqFacts, ConcatFacts DEF News
<1>1. \A n \in 1..Len(w) :
        n \in 1..Len(s) \/ (n \in (Len(s) + 1)..(Len(s) + Len(t)) /\ n - Len(s) \in 1..Len(t))
  BY <1>0
<1> HIDE DEF w
<1>2. News(w)
  BY <1>0, <1>1 DEF News
<1>3. QuantityTold(w, x) = QuantityTold(s, x) + QuantityTold(t, x)
  <2> DEFINE u == [n \in DOMAIN s |->
                     IF s[n].type \in {"Filled", "PartiallyFilled"} /\ s[n].order = x
                     THEN s[n].quantity ELSE 0]
             v == [n \in DOMAIN t |->
                     IF t[n].type \in {"Filled", "PartiallyFilled"} /\ t[n].order = x
                     THEN t[n].quantity ELSE 0]
             z == [n \in DOMAIN w |->
                     IF w[n].type \in {"Filled", "PartiallyFilled"} /\ w[n].order = x
                     THEN w[n].quantity ELSE 0]
  <2>1. u = [n \in 1..Len(s) |-> u[n]] /\ \A n \in 1..Len(s) : u[n] \in Int
    BY <1>0 DEF News
  <2>2. v = [n \in 1..Len(t) |-> v[n]] /\ \A n \in 1..Len(t) : v[n] \in Int
    BY <1>0 DEF News
  <2>3. /\ z = [n \in 1..(Len(s) + Len(t)) |-> z[n]]
        /\ \A n \in 1..Len(s) : z[n] = u[n]
        /\ \A n \in 1..(Len(s) + Len(t)) : n - Len(s) \in 1..Len(t) => z[n] = v[n - Len(s)]
    BY <1>0, <1>1
  <2>0. Len(s) \in Nat /\ Len(t) \in Nat
    BY <1>0
  <2> HIDE DEF u, v, z
  <2>4. IntList(u, Len(s)) /\ IntList(v, Len(t)) /\ Joins(z, u, v, Len(s), Len(t))
    BY <2>1, <2>2, <2>3 DEF IntList, Joins
  <2>5. Total(z) = Total(u) + Total(v)
    BY <2>0, <2>4, TotalJoin
  <2> QED BY <2>5 DEF QuantityTold, u, v, z
<1>4. ASSUME NEW type \in Ends
      PROVE  TimesTold(w, type, x) = TimesTold(s, type, x) + TimesTold(t, type, x)
  <2> DEFINE u == [n \in DOMAIN s |-> IF s[n].type = type /\ s[n].order = x THEN 1 ELSE 0]
             v == [n \in DOMAIN t |-> IF t[n].type = type /\ t[n].order = x THEN 1 ELSE 0]
             z == [n \in DOMAIN w |-> IF w[n].type = type /\ w[n].order = x THEN 1 ELSE 0]
  <2>1. u = [n \in 1..Len(s) |-> u[n]] /\ \A n \in 1..Len(s) : u[n] \in Int
    BY <1>0
  <2>2. v = [n \in 1..Len(t) |-> v[n]] /\ \A n \in 1..Len(t) : v[n] \in Int
    BY <1>0
  <2>3. /\ z = [n \in 1..(Len(s) + Len(t)) |-> z[n]]
        /\ \A n \in 1..Len(s) : z[n] = u[n]
        /\ \A n \in 1..(Len(s) + Len(t)) : n - Len(s) \in 1..Len(t) => z[n] = v[n - Len(s)]
    BY <1>0, <1>1
  <2>0. Len(s) \in Nat /\ Len(t) \in Nat
    BY <1>0
  <2> HIDE DEF u, v, z
  <2>4. IntList(u, Len(s)) /\ IntList(v, Len(t)) /\ Joins(z, u, v, Len(s), Len(t))
    BY <2>1, <2>2, <2>3 DEF IntList, Joins
  <2>5. Total(z) = Total(u) + Total(v)
    BY <2>0, <2>4, TotalJoin
  <2> QED BY <2>5 DEF TimesTold, u, v, z
<1> QED BY <1>2, <1>3, <1>4 DEF w

\* News that ends and fills nothing of x.
LEMMA NothingTold ==
    ASSUME NEW s, IsSeq(s), NEW x
    PROVE  /\ (\A n \in 1..Len(s) : ~Tells(s[n], x)) => QuantityTold(s, x) = 0
           /\ \A type \in Ends : (\A n \in 1..Len(s) : ~(s[n].type = type /\ s[n].order = x))
                                   => TimesTold(s, type, x) = 0
<1>0. Len(s) \in Nat /\ DOMAIN s = 1..Len(s)
  BY SeqFacts
<1>1. ASSUME \A n \in 1..Len(s) : ~Tells(s[n], x) PROVE QuantityTold(s, x) = 0
  <2> DEFINE u == [n \in DOMAIN s |->
                     IF s[n].type \in {"Filled", "PartiallyFilled"} /\ s[n].order = x
                     THEN s[n].quantity ELSE 0]
  <2>1. u = [n \in 1..Len(s) |-> u[n]] /\ \A n \in 1..Len(s) : u[n] = 0
    BY <1>0, <1>1 DEF Tells
  <2> HIDE DEF u
  <2>2. Total(u) = 0
    BY <1>0, <2>1, TotalZero
  <2> QED BY <2>2 DEF QuantityTold, u
<1>2. ASSUME NEW type \in Ends, \A n \in 1..Len(s) : ~(s[n].type = type /\ s[n].order = x)
      PROVE  TimesTold(s, type, x) = 0
  <2> DEFINE u == [n \in DOMAIN s |-> IF s[n].type = type /\ s[n].order = x THEN 1 ELSE 0]
  <2>1. u = [n \in 1..Len(s) |-> u[n]] /\ \A n \in 1..Len(s) : u[n] = 0
    BY <1>0, <1>2
  <2> HIDE DEF u
  <2>2. Total(u) = 0
    BY <1>0, <2>1, TotalZero
  <2> QED BY <2>2 DEF TimesTold, u
<1> QED BY <1>1, <1>2

LEMMA AnswersTell ==
    ASSUME NEW s, Answers(s), NEW x
    PROVE  News(s) /\ QuantityTold(s, x) = 0 /\ \A type \in Ends : TimesTold(s, type, x) = 0
<1>1. \A n \in 1..Len(s) : s[n].type \notin {"Filled", "PartiallyFilled", "Cancelled"}
  BY DEF Answers
<1>2. IsSeq(s)
  BY DEF Answers
<1> QED BY <1>1, <1>2, NothingTold DEF News, Tells, Ends

\* Fills of other events took nothing of the k-th.
LEMMA NothingTaken ==
    ASSUME NEW s, IsSeq(s), NEW k, \A n \in 1..Len(s) : s[n].ordinal # k, NEW side
    PROVE  Taken(s, k, side) = 0
<1>0. Len(s) \in Nat /\ DOMAIN s = 1..Len(s)
  BY SeqFacts
<1> DEFINE u == [n \in DOMAIN s |->
                   IF s[n].ordinal = k /\ s[n].side = side THEN s[n].quantity ELSE 0]
<1>1. u = [n \in 1..Len(s) |-> u[n]] /\ \A n \in 1..Len(s) : u[n] = 0
  BY <1>0
<1> HIDE DEF u
<1>2. Total(u) = 0
  BY <1>0, <1>1, TotalZero
<1> QED BY <1>2 DEF Taken, u

\* Orders of other identities.
LEMMA NothingFilled ==
    ASSUME NEW s, IsSeq(s), NEW x, \A n \in 1..Len(s) : s[n].id # x
    PROVE  QuantityFilled(s, x) = 0 /\ \A type \in Ends : TimesEnded(s, type, x) = 0
<1>0. Len(s) \in Nat /\ DOMAIN s = 1..Len(s)
  BY SeqFacts
<1>1. QuantityFilled(s, x) = 0
  <2> DEFINE u == [n \in DOMAIN s |-> IF s[n].id = x THEN s[n].filled ELSE 0]
  <2>1. u = [n \in 1..Len(s) |-> u[n]] /\ \A n \in 1..Len(s) : u[n] = 0
    BY <1>0
  <2> HIDE DEF u
  <2>2. Total(u) = 0
    BY <1>0, <2>1, TotalZero
  <2> QED BY <2>2 DEF QuantityFilled, u
<1>2. ASSUME NEW type \in Ends PROVE TimesEnded(s, type, x) = 0
  <2> DEFINE u == [n \in DOMAIN s |-> IF s[n].status = type /\ s[n].id = x THEN 1 ELSE 0]
  <2>1. u = [n \in 1..Len(s) |-> u[n]] /\ \A n \in 1..Len(s) : u[n] = 0
    BY <1>0
  <2> HIDE DEF u
  <2>2. Total(u) = 0
    BY <1>0, <2>1, TotalZero
  <2> QED BY <2>2 DEF TimesEnded, u
<1> QED BY <1>1, <1>2

\* One live order is filled.
OneFilled(s, t, k, q) ==
    /\ IsSeq(s) /\ IsSeq(t) /\ Len(t) = Len(s) /\ k \in 1..Len(s) /\ q \in Int
    /\ \A n \in 1..Len(s) : n # k => t[n] = s[n]
    /\ Live(s[k]) /\ t[k].id = s[k].id /\ t[k].filled = s[k].filled + q
    /\ t[k].status \in {"Filled", "PartiallyFilled"}
LEMMA OrdersChange ==
    ASSUME NEW s, NEW t, NEW k, NEW q, OneFilled(s, t, k, q), FillsCount(s), NEW x
    PROVE  /\ FillsCount(t) /\ SumFilled(t) = SumFilled(s) + q
           /\ QuantityFilled(t, x) = QuantityFilled(s, x) + (IF s[k].id = x THEN q ELSE 0)
           /\ TimesEnded(t, "Filled", x) = TimesEnded(s, "Filled", x)
                + (IF t[k].status = "Filled" /\ s[k].id = x THEN 1 ELSE 0)
           /\ TimesEnded(t, "Cancelled", x) = TimesEnded(s, "Cancelled", x)
<1> USE DEF OneFilled
<1>0. Len(s) \in Nat /\ DOMAIN s = 1..Len(s) /\ DOMAIN t = 1..Len(s)
  BY SeqFacts
<1>1. s[k].filled \in Int /\ t[k].filled \in Int /\ FillsCount(t)
  <2>1. s[k].filled \in Int
    BY DEF FillsCount
  <2>2. t[k].filled \in Int
    BY <2>1
  <2> QED BY <2>1, <2>2 DEF FillsCount
<1>2. s[k].status \notin Ends
  BY DEF Live, Ends
<1>3. SumFilled(t) = SumFilled(s) + q
  <2> DEFINE u == [n \in DOMAIN s |-> s[n].filled]
             v == [n \in DOMAIN t |-> t[n].filled]
  <2>1. u = [n \in 1..Len(s) |-> u[n]] /\ \A n \in 1..Len(s) : u[n] \in Int
    BY <1>0 DEF FillsCount
  <2>2. v = [n \in 1..Len(s) |-> v[n]] /\ v[k] = u[k] + q /\ u[k] \in Int
        /\ \A n \in 1..Len(s) : n # k => v[n] = u[n]
    BY <1>0, <1>1
  <2> HIDE DEF u, v
  <2>3. u \in Seq(Int) /\ Len(u) = Len(s)
    BY <1>0, <2>1, IntSeq
  <2>6. v = [n \in 1..Len(u) |-> v[n]] /\ k \in 1..Len(u) /\ v[k] \in Int
        /\ \A n \in 1..Len(u) : n # k => v[n] = u[n]
    BY <2>2, <2>3
  <2>7. Total(v) = Total(u) + (v[k] - u[k])
    BY ONLY <2>3, <2>6, TotalChange
  <2>4. Total(v) = Total(u) + (v[k] - u[k]) /\ Total(u) \in Int
    BY <2>3, <2>7, TotalType
  <2>5. Total(v) = Total(u) + q
    BY <2>2, <2>4
  <2> QED BY <2>5 DEF SumFilled, u, v
<1>4. QuantityFilled(t, x) = QuantityFilled(s, x) + (IF s[k].id = x THEN q ELSE 0)
  <2> DEFINE u == [n \in DOMAIN s |-> IF s[n].id = x THEN s[n].filled ELSE 0]
             v == [n \in DOMAIN t |-> IF t[n].id = x THEN t[n].filled ELSE 0]
             d == IF s[k].id = x THEN q ELSE 0
  <2>1. u = [n \in 1..Len(s) |-> u[n]] /\ \A n \in 1..Len(s) : u[n] \in Int
    BY <1>0 DEF FillsCount
  <2>2. v = [n \in 1..Len(s) |-> v[n]] /\ v[k] = u[k] + d /\ u[k] \in Int /\ d \in Int
        /\ \A n \in 1..Len(s) : n # k => v[n] = u[n]
    BY <1>0, <1>1
  <2> HIDE DEF u, v, d
  <2>3. u \in Seq(Int) /\ Len(u) = Len(s)
    BY <1>0, <2>1, IntSeq
  <2>6. v = [n \in 1..Len(u) |-> v[n]] /\ k \in 1..Len(u) /\ v[k] \in Int
        /\ \A n \in 1..Len(u) : n # k => v[n] = u[n]
    BY <2>2, <2>3
  <2>7. Total(v) = Total(u) + (v[k] - u[k])
    BY ONLY <2>3, <2>6, TotalChange
  <2>4. Total(v) = Total(u) + (v[k] - u[k]) /\ Total(u) \in Int
    BY <2>3, <2>7, TotalType
  <2>5. Total(v) = Total(u) + d
    BY <2>2, <2>4
  <2> QED BY <2>5 DEF QuantityFilled, u, v, d
<1>5. ASSUME NEW type \in Ends
      PROVE  TimesEnded(t, type, x) = TimesEnded(s, type, x)
                + (IF t[k].status = type /\ s[k].id = x THEN 1 ELSE 0)
  <2> DEFINE u == [n \in DOMAIN s |-> IF s[n].status = type /\ s[n].id = x THEN 1 ELSE 0]
             v == [n \in DOMAIN t |-> IF t[n].status = type /\ t[n].id = x THEN 1 ELSE 0]
             d == IF t[k].status = type /\ s[k].id = x THEN 1 ELSE 0
  <2>1. u = [n \in 1..Len(s) |-> u[n]] /\ \A n \in 1..Len(s) : u[n] \in Int
    BY <1>0
  <2>2. v = [n \in 1..Len(s) |-> v[n]] /\ v[k] = u[k] + d /\ u[k] \in Int /\ d \in Int
        /\ \A n \in 1..Len(s) : n # k => v[n] = u[n]
    <3>1. u[k] = 0 /\ v[k] = d /\ d \in Int
      BY <1>0, <1>2
    <3>2. v = [n \in 1..Len(s) |-> v[n]] /\ \A n \in 1..Len(s) : n # k => v[n] = u[n]
      BY <1>0
    <3> HIDE DEF u, v, d
    <3> QED BY <3>1, <3>2
  <2> HIDE DEF u, v, d
  <2>3. u \in Seq(Int) /\ Len(u) = Len(s)
    BY <1>0, <2>1, IntSeq
  <2>6. v = [n \in 1..Len(u) |-> v[n]] /\ k \in 1..Len(u) /\ v[k] \in Int
        /\ \A n \in 1..Len(u) : n # k => v[n] = u[n]
    BY <2>2, <2>3
  <2>7. Total(v) = Total(u) + (v[k] - u[k])
    BY ONLY <2>3, <2>6, TotalChange
  <2>4. Total(v) = Total(u) + (v[k] - u[k]) /\ Total(u) \in Int
    BY <2>3, <2>7, TotalType
  <2>5. Total(v) = Total(u) + d
    BY <2>2, <2>4
  <2> QED BY <2>5 DEF TimesEnded, u, v, d
<1>6. TimesEnded(s, "Cancelled", x) \in Int
  BY OrderSums DEF Ends
<1>7. TimesEnded(t, "Cancelled", x) = TimesEnded(s, "Cancelled", x) + 0
  BY <1>5 DEF Ends
<1>8. TimesEnded(t, "Filled", x) = TimesEnded(s, "Filled", x)
                + (IF t[k].status = "Filled" /\ s[k].id = x THEN 1 ELSE 0)
  BY <1>5 DEF Ends
<1> QED BY <1>1, <1>3, <1>4, <1>6, <1>7, <1>8

\* New orders have been neither filled nor ended.
AddsOrders(s, t) ==
    /\ IsSeq(s) /\ IsSeq(t) /\ Len(s) <= Len(t) /\ \A n \in 1..Len(s) : t[n] = s[n]
    /\ \A n \in (Len(s) + 1)..Len(t) : t[n].filled = 0 /\ t[n].status = "Pending"
LEMMA OrdersPlaced ==
    ASSUME NEW s, NEW t, AddsOrders(s, t), FillsCount(s), NEW x
    PROVE  /\ FillsCount(t) /\ SumFilled(t) = SumFilled(s)
           /\ QuantityFilled(t, x) = QuantityFilled(s, x)
           /\ \A type \in Ends : TimesEnded(t, type, x) = TimesEnded(s, type, x)
<1> USE DEF AddsOrders
<1>0. /\ Len(s) \in Nat /\ Len(t) \in Nat /\ DOMAIN s = 1..Len(s) /\ DOMAIN t = 1..Len(t)
      /\ \A n \in 1..Len(t) : n \in 1..Len(s) \/ n \in (Len(s) + 1)..Len(t)
      /\ \A n \in 1..Len(s) : n \in 1..Len(t)
      /\ \A n \in (Len(s) + 1)..Len(t) : n \in 1..Len(t)
  <2>1. Len(s) \in Nat /\ Len(t) \in Nat /\ DOMAIN s = 1..Len(s) /\ DOMAIN t = 1..Len(t)
    BY SeqFacts
  <2> QED BY <2>1
<1>1. FillsCount(t)
  BY <1>0 DEF FillsCount
<1>2. SumFilled(t) = SumFilled(s)
  <2> DEFINE u == [n \in DOMAIN s |-> s[n].filled]
             v == [n \in DOMAIN t |-> t[n].filled]
  <2>1. u = [n \in 1..Len(s) |-> u[n]] /\ \A n \in 1..Len(s) : u[n] \in Int
    BY <1>0 DEF FillsCount
  <2>2. v = [n \in 1..Len(t) |-> v[n]] /\ \A n \in 1..Len(s) : v[n] = u[n]
    BY <1>0
  <2>3. \A n \in (Len(s) + 1)..Len(t) : v[n] = 0
    BY <1>0
  <2> HIDE DEF u, v
  <2>4. u \in Seq(Int) /\ Len(u) = Len(s)
    BY <1>0, <2>1, IntSeq
  <2>5. Total(v) = Total(u)
    BY <1>0, <2>2, <2>3, <2>4, TotalProlong
  <2> QED BY <2>5 DEF SumFilled, u, v
<1>3. QuantityFilled(t, x) = QuantityFilled(s, x)
  <2> DEFINE u == [n \in DOMAIN s |-> IF s[n].id = x THEN s[n].filled ELSE 0]
             v == [n \in DOMAIN t |-> IF t[n].id = x THEN t[n].filled ELSE 0]
  <2>1. u = [n \in 1..Len(s) |-> u[n]] /\ \A n \in 1..Len(s) : u[n] \in Int
    BY <1>0 DEF FillsCount
  <2>2. v = [n \in 1..Len(t) |-> v[n]] /\ \A n \in 1..Len(s) : v[n] = u[n]
    BY <1>0
  <2>3. \A n \in (Len(s) + 1)..Len(t) : v[n] = 0
    BY <1>0
  <2> HIDE DEF u, v
  <2>4. u \in Seq(Int) /\ Len(u) = Len(s)
    BY <1>0, <2>1, IntSeq
  <2>5. Total(v) = Total(u)
    BY <1>0, <2>2, <2>3, <2>4, TotalProlong
  <2> QED BY <2>5 DEF QuantityFilled, u, v
<1>4. ASSUME NEW type \in Ends PROVE TimesEnded(t, type, x) = TimesEnded(s, type, x)
  <2> DEFINE u == [n \in DOMAIN s |-> IF s[n].status = type /\ s[n].id = x THEN 1 ELSE 0]
             v == [n \in DOMAIN t |-> IF t[n].status = type /\ t[n].id = x THEN 1 ELSE 0]
  <2>1. u = [n \in 1..Len(s) |-> u[n]] /\ \A n \in 1..Len(s) : u[n] \in Int
    BY <1>0
  <2>2. v = [n \in 1..Len(t) |-> v[n]] /\ \A n \in 1..Len(s) : v[n] = u[n]
    BY <1>0
  <2>3. \A n \in (Len(s) + 1)..Len(t) : v[n] = 0
    <3>1. "Pending" # type
      BY DEF Ends
    <3> QED BY <1>0, <3>1
  <2> HIDE DEF u, v
  <2>4. u \in Seq(Int) /\ Len(u) = Len(s)
    BY <1>0, <2>1, IntSeq
  <2>5. Total(v) = Total(u)
    BY <1>0, <2>2, <2>3, <2>4, TotalProlong
  <2> QED BY <2>5 DEF TimesEnded, u, v
<1> QED BY <1>1, <1>2, <1>3, <1>4

-----------------------------------------------------------------------------
(* What is reported is what happens to the orders.                         *)

\* The news of the step from the orders s to the orders t: it says of every
\* identity how much more has been filled and how many more have ended.
Reported(s, t, news) ==
    /\ News(news)
    /\ \A x : /\ QuantityTold(news, x) + QuantityFilled(s, x) = QuantityFilled(t, x)
              /\ \A type \in Ends :
                   TimesTold(news, type, x) + TimesEnded(s, type, x) = TimesEnded(t, type, x)
Cancellations(news) == IsSeq(news) /\ \A n \in 1..Len(news) : news[n].type = "Cancelled"

LEMMA ReportsCancel ==
    ASSUME NEW f, NEW s, NEW ended, NEW N \in Nat, Reports(f, s, ended, N)
    PROVE  \A n \in 0..N : Cancellations(f[n])
<1> DEFINE S == {n \in Nat : n <= N => Cancellations(f[n])}
<1>1. 0 \in S
  <2>1. Cancellations(f[0])
    BY TupleFacts DEF Reports, Cancellations
  <2> QED BY <2>1
<1>2. ASSUME NEW n \in Nat, n \in S PROVE n + 1 \in S
  <2> SUFFICES ASSUME n + 1 <= N PROVE Cancellations(f[n + 1])
    OBVIOUS
  <2> DEFINE y == Feedback("Cancelled", s.orders[n + 1].id, 0)
             t == Append(f[n], y)
  <2>1. n + 1 \in 1..N /\ (n + 1) - 1 = n /\ n <= N
    OBVIOUS
  <2>2. Cancellations(f[n]) /\ (f[n + 1] = f[n] \/ f[n + 1] = t)
    BY <1>2, <2>1 DEF Reports
  <2>3. y.type = "Cancelled"
    BY DEF Feedback
  <2> HIDE DEF y
  <2>4. /\ IsSeq(t) /\ Len(t) = Len(f[n]) + 1 /\ t[Len(f[n]) + 1] = y
        /\ \A j \in 1..Len(f[n]) : t[j] = f[n][j]
        /\ Len(f[n]) \in Nat
    BY <2>2, AppendFacts, SeqFacts DEF Cancellations
  <2> HIDE DEF t
  <2>5. \A j \in 1..Len(t) : j = Len(f[n]) + 1 \/ j \in 1..Len(f[n])
    BY <2>4
  <2>6. Cancellations(t)
    BY <2>2, <2>3, <2>4, <2>5 DEF Cancellations
  <2> QED BY <2>2, <2>6
<1>3. \A n \in Nat : n \in S
  <2> HIDE DEF S
  <2> QED BY <1>1, <1>2, SetInduction
<1> QED BY <1>3

LEMMA CancellationsTell ==
    ASSUME NEW s, Cancellations(s), NEW x
    PROVE  News(s) /\ QuantityTold(s, x) = 0 /\ TimesTold(s, "Filled", x) = 0
<1>1. IsSeq(s) /\ \A n \in 1..Len(s) : s[n].type \notin {"Filled", "PartiallyFilled"}
  BY DEF Cancellations
<1> QED BY <1>1, NothingTold DEF News, Tells, Ends

\* The n-th order of x is one of those that end.
EndsOf(s, ended, x) ==
    [n \in 1..Len(s.orders) |-> IF n \in ended /\ s.orders[n].id = x THEN 1 ELSE 0]

LEMMA CancelTold ==
    ASSUME NEW f, NEW s, NEW ended, Len(s.orders) \in Nat, Reports(f, s, ended, Len(s.orders)), NEW x
    PROVE  TimesTold(f[Len(s.orders)], "Cancelled", x) = Total(EndsOf(s, ended, x))
<1> DEFINE N == Len(s.orders)
           d == EndsOf(s, ended, x)
           g == [n \in 0..N |-> TimesTold(f[n], "Cancelled", x)]
<1>0. \A n \in 0..N : Cancellations(f[n]) /\ News(f[n])
  BY ReportsCancel, CancellationsTell
<1>1. d \in Seq(Int) /\ Len(d) = N
  <2>1. d = [n \in 1..N |-> d[n]] /\ \A n \in 1..N : d[n] \in Int
    BY DEF EndsOf
  <2> HIDE DEF d
  <2> QED BY <2>1, IntSeq
<1>2. g[0] = 0
  <2>1. f[0] = <<>> /\ IsSeq(<<>>) /\ Len(<<>>) = 0
    BY TupleFacts DEF Reports
  <2>2. TimesTold(<<>>, "Cancelled", x) = 0
    BY <2>1, NothingTold DEF Ends
  <2> QED BY <2>1, <2>2
<1>3. ASSUME NEW n \in 1..N PROVE g[n] = g[n - 1] + d[n]
  <2> DEFINE y == Feedback("Cancelled", s.orders[n].id, 0)
  <2>1. g[n] = TimesTold(f[n], "Cancelled", x) /\ g[n - 1] = TimesTold(f[n - 1], "Cancelled", x)
        /\ n - 1 \in 0..N /\ News(f[n - 1])
    BY <1>0
  <2>2. g[n - 1] \in Int
    BY <2>1, NewsSums DEF Ends
  <2>3. f[n] = IF n \notin ended THEN f[n - 1] ELSE Append(f[n - 1], y)
    BY DEF Reports
  <2>4. y.type = "Cancelled" /\ y.order = s.orders[n].id
    BY DEF Feedback
  <2> HIDE DEF y, g
  <2>5. CASE n \in ended
    <3>1. TimesTold(f[n], "Cancelled", x) = TimesTold(f[n - 1], "Cancelled", x)
            + (IF y.type = "Cancelled" /\ y.order = x THEN 1 ELSE 0)
      BY <2>1, <2>3, <2>4, <2>5, NewsMore DEF Ends
    <3>2. d[n] = IF s.orders[n].id = x THEN 1 ELSE 0
      BY <2>5 DEF EndsOf
    <3> HIDE DEF d
    <3> QED BY <2>1, <2>4, <3>1, <3>2
  <2>6. CASE n \notin ended
    <3>1. d[n] = 0
      BY <2>6 DEF EndsOf
    <3> HIDE DEF d
    <3> QED BY <2>1, <2>2, <2>3, <2>6, <3>1
  <2> QED BY <2>5, <2>6
<1>4. g[N] = TimesTold(f[N], "Cancelled", x)
  OBVIOUS
<1> HIDE DEF g, d
<1>5. Partial(g, d)
  BY <1>1, <1>2, <1>3 DEF Partial
<1>6. Total(d) = g[N]
  BY <1>1, <1>5, TotalIs
<1> QED BY <1>4, <1>6 DEF d

\* A cancellation reports what it ends, and fills nothing.
LEMMA CancelReported ==
    ASSUME NEW s, NEW ending, IsSim(s), FillsCount(s.orders), ending \subseteq DOMAIN s.orders
    PROVE  LET r == Cancel(s, ending)
           IN  /\ FillsCount(r.sim.orders) /\ SumFilled(r.sim.orders) = SumFilled(s.orders)
               /\ Reported(s.orders, r.sim.orders, r.feedback)
<1> DEFINE r == Cancel(s, ending)
           a == s.orders
           b == r.sim.orders
           ended == EndedAt(s, ending)
<1>0. Len(a) \in Nat /\ DOMAIN a = 1..Len(a) /\ IsSeq(a)
  BY SimFacts
<1>1. /\ IsSim(r.sim) /\ Evolved(a, b)
      /\ \A n \in 1..Len(a) :
           /\ b[n].filled = a[n].filled
           /\ b[n].status = IF n \in ended THEN "Cancelled" ELSE a[n].status
  BY CancelFacts
<1>2. PICK f : Reports(f, s, ended, Len(a)) /\ r.feedback = f[Len(a)]
  BY <1>0, CancelLoop
<1> HIDE DEF r
<1>3. IsSeq(b) /\ Len(b) = Len(a) /\ DOMAIN b = 1..Len(a) /\ \A n \in 1..Len(a) : b[n].id = a[n].id
  <2>1. IsSeq(b) /\ Len(b) = Len(a) /\ \A n \in 1..Len(a) : b[n].id = a[n].id
    BY <1>1 DEF Evolved, Later, AreOrders
  <2> QED BY <2>1, SeqFacts
<1>4. FillsCount(b)
  BY <1>1, <1>3 DEF FillsCount
<1>5. \A n \in ended : Live(a[n])
  BY DEF EndedAt
<1>6. Cancellations(r.feedback)
  BY <1>0, <1>2, ReportsCancel
<1> HIDE DEF b, ended
<1>7. SumFilled(b) = SumFilled(a)
  <2>1. [n \in DOMAIN b |-> b[n].filled] = [n \in DOMAIN a |-> a[n].filled]
    BY <1>0, <1>1, <1>3
  <2> QED BY <2>1 DEF SumFilled
<1>8. ASSUME NEW x PROVE QuantityFilled(b, x) = QuantityFilled(a, x)
  <2>1. [n \in DOMAIN b |-> IF b[n].id = x THEN b[n].filled ELSE 0]
          = [n \in DOMAIN a |-> IF a[n].id = x THEN a[n].filled ELSE 0]
    BY <1>0, <1>1, <1>3
  <2> QED BY <2>1 DEF QuantityFilled
<1>9. ASSUME NEW x PROVE TimesEnded(b, "Filled", x) = TimesEnded(a, "Filled", x)
  <2>0. ASSUME NEW n \in 1..Len(a) PROVE b[n].status = "Filled" <=> a[n].status = "Filled"
    <3>1. n \in ended => a[n].status # "Filled"
      BY <1>5 DEF Live
    <3> QED BY <1>1, <3>1
  <2>1. [n \in DOMAIN b |-> IF b[n].status = "Filled" /\ b[n].id = x THEN 1 ELSE 0]
          = [n \in DOMAIN a |-> IF a[n].status = "Filled" /\ a[n].id = x THEN 1 ELSE 0]
    BY <1>0, <1>3, <2>0
  <2> QED BY <2>1 DEF TimesEnded
<1>10. ASSUME NEW x
       PROVE  TimesEnded(b, "Cancelled", x)
                = TimesEnded(a, "Cancelled", x) + TimesTold(r.feedback, "Cancelled", x)
  <2> DEFINE d == EndsOf(s, ended, x)
             u == [n \in DOMAIN a |-> IF a[n].status = "Cancelled" /\ a[n].id = x THEN 1 ELSE 0]
             v == [n \in DOMAIN b |-> IF b[n].status = "Cancelled" /\ b[n].id = x THEN 1 ELSE 0]
  <2>1. TimesTold(r.feedback, "Cancelled", x) = Total(d)
    BY <1>0, <1>2, CancelTold
  <2>2. u = [n \in 1..Len(a) |-> u[n]] /\ \A n \in 1..Len(a) : u[n] \in Int
    BY <1>0
  <2>3. v = [n \in 1..Len(a) |-> v[n]] /\ \A n \in 1..Len(a) : v[n] \in Int
    BY <1>3
  <2>4. d = [n \in 1..Len(a) |-> d[n]] /\ \A n \in 1..Len(a) : d[n] \in Int
    BY DEF EndsOf
  <2>5. ASSUME NEW n \in 1..Len(a) PROVE v[n] = u[n] + d[n]
    <3>1. d[n] = IF n \in ended /\ a[n].id = x THEN 1 ELSE 0
      BY DEF EndsOf
    <3>2. u[n] = IF a[n].status = "Cancelled" /\ a[n].id = x THEN 1 ELSE 0
      BY <1>0
    <3>3. v[n] = IF b[n].status = "Cancelled" /\ a[n].id = x THEN 1 ELSE 0
      BY <1>3
    <3>4. n \in ended => a[n].status # "Cancelled"
      BY <1>5 DEF Live
    <3>5. b[n].status = IF n \in ended THEN "Cancelled" ELSE a[n].status
      BY <1>1
    <3> HIDE DEF u, v, d
    <3> QED BY <3>1, <3>2, <3>3, <3>4, <3>5
  <2> HIDE DEF u, v, d
  <2>6. u \in Seq(Int) /\ v \in Seq(Int) /\ d \in Seq(Int)
        /\ Len(u) = Len(a) /\ Len(v) = Len(a) /\ Len(d) = Len(a)
    BY <1>0, <2>2, <2>3, <2>4, IntSeq
  <2>7. Total(v) = Total(u) + Total(d)
    BY <2>5, <2>6, TotalSum
  <2> QED BY <2>1, <2>7 DEF TimesEnded, u, v
<1>11. Reported(a, b, r.feedback)
  <2>1. ASSUME NEW x
        PROVE  /\ QuantityTold(r.feedback, x) + QuantityFilled(a, x) = QuantityFilled(b, x)
               /\ \A type \in Ends : TimesTold(r.feedback, type, x) + TimesEnded(a, type, x)
                                       = TimesEnded(b, type, x)
    <3>1. /\ QuantityTold(r.feedback, x) = 0 /\ TimesTold(r.feedback, "Filled", x) = 0
          /\ News(r.feedback)
      BY <1>6, CancellationsTell
    <3>2. QuantityFilled(a, x) \in Int /\ \A type \in Ends : TimesEnded(a, type, x) \in Int
      BY <1>0, OrderSums
    <3>3. \A type \in Ends : TimesTold(r.feedback, type, x) \in Int
      BY <3>1, NewsSums
    <3> QED BY <1>8, <1>9, <1>10, <3>1, <3>2, <3>3 DEF Ends
  <2>2. News(r.feedback)
    BY <1>6, CancellationsTell
  <2> QED BY <2>1, <2>2 DEF Reported
<1> QED BY <1>4, <1>7, <1>11 DEF r, b

-----------------------------------------------------------------------------
(* What an evaluation adds up to.                                          *)

LeftQuantity(levels) == IF levels = <<>> THEN 0 ELSE levels[1].quantity
HaveIntents(s) == \A n \in 1..Len(s) : s[n].intent.quantity \in Nat
\* What the fills of the k-th event took and what is left is what there was.
Conserved(acc, s, e, k, m, side) ==
    Taken(acc.fills, k, side) + LeftQuantity(acc.left[side])
      = Taken(s.fills, k, side) + LeftQuantity(Evidence(e, m, side))
CountedTo(acc, s, e, k, m) ==
    /\ FillsCount(acc.orders) /\ HaveQuantity(acc.fills)
    /\ Reported(s.orders, acc.orders, acc.feedback)
    /\ SumFilled(acc.orders) + SumQuantity(s.fills) = SumFilled(s.orders) + SumQuantity(acc.fills)
    /\ \A side \in Sides : LeftQuantity(acc.left[side]) \in Nat
    /\ m.quantity # "Unlimited" => \A side \in Sides : Conserved(acc, s, e, k, m, side)

\* A fill takes from the evidence what it gives to the order.
LEMMA LeftTaken ==
    ASSUME NEW m, NEW available, NEW q \in Int, available # <<>>, available[1].quantity \in Nat,
           m.quantity # "Unlimited" => q <= available[1].quantity
    PROVE  LET l == LeftAfter(m, available, q)
           IN  /\ LeftQuantity(l) \in Nat
               /\ m.quantity # "Unlimited" => LeftQuantity(l) = available[1].quantity - q
<1> DEFINE l == LeftAfter(m, available, q)
           w == [price |-> available[1].price, quantity |-> available[1].quantity - q,
                 unit |-> available[1].unit]
<1>1. CASE m.quantity = "Unlimited"
  BY <1>1 DEF LeftAfter, LeftQuantity
<1>2. CASE m.quantity # "Unlimited" /\ available[1].quantity = q
  <2>1. l = <<>>
    BY <1>2 DEF LeftAfter
  <2> HIDE DEF l
  <2>2. LeftQuantity(l) = 0
    BY <2>1 DEF LeftQuantity
  <2> QED BY <1>2, <2>2 DEF l
<1>3. CASE m.quantity # "Unlimited" /\ available[1].quantity # q
  <2>1. l = <<w>>
    BY <1>3 DEF LeftAfter
  <2>2. <<w>> # <<>> /\ <<w>>[1] = w
    OBVIOUS
  <2>3. w.quantity = available[1].quantity - q
    OBVIOUS
  <2> HIDE DEF l, w
  <2>4. LeftQuantity(l) = available[1].quantity - q
    BY <2>1, <2>2, <2>3 DEF LeftQuantity
  <2> QED BY <1>3, <2>4 DEF l
<1> QED BY <1>1, <1>2, <1>3

LEMMA CountedNext ==
    ASSUME NEW acc, NEW s, NEW n \in 1..Len(s.orders), NEW e, NEW k, NEW m,
           IsSim(s), HaveSides(s.orders), HaveIntents(s.orders), FillsCount(s.orders),
           HaveQuantity(s.fills),
           MatchedTo(acc, s, n - 1, e, k, m), CountedTo(acc, s, e, k, m)
    PROVE  CountedTo(MatchOrder(acc, n, e, k, m), s, e, k, m)
<1> DEFINE r == MatchOrder(acc, n, e, k, m)
           o == acc.orders[n]
           side == o.intent.side
           q == FillQuantity(acc, n, m)
<1> SUFFICES CountedTo(r, s, e, k, m)
  OBVIOUS
<1>0. /\ IsAcc(acc) /\ Evolved(s.orders, acc.orders) /\ IsSeq(acc.fills) /\ DOMAIN acc.left = Sides
      /\ IsSeq(acc.orders) /\ Len(acc.orders) = Len(s.orders) /\ Len(s.orders) \in Nat
      /\ DOMAIN acc.orders = 1..Len(s.orders)
  <2>1. IsAcc(acc) /\ Evolved(s.orders, acc.orders) /\ IsSeq(acc.fills) /\ DOMAIN acc.left = Sides
    BY DEF MatchedTo, Prolongs
  <2>2. IsSeq(acc.orders) /\ Len(acc.orders) = Len(s.orders)
    BY <2>1 DEF Evolved, AreOrders
  <2> QED BY <2>1, <2>2, SeqFacts
<1>1. o = s.orders[n] /\ IsOrder(o) /\ side \in Sides /\ o.intent.quantity \in Nat
  <2>1. o = s.orders[n]
    BY <1>0 DEF MatchedTo
  <2> HIDE DEF o
  <2> QED BY <2>1 DEF IsSim, AreOrders, HaveSides, HaveIntents
<1>2. IsAcc(r) /\ (Passes(acc, r) \/ GivesFill(acc, r, n, e, k, m))
  BY <1>0, MatchCases
<1> HIDE DEF r
<1>3. CASE Passes(acc, r)
  BY <1>3 DEF Passes, CountedTo, Conserved
<1>4. CASE GivesFill(acc, r, n, e, k, m)
  <2> DEFINE x == FillOf(acc, n, e, k, m)
             b == FilledOrder(acc, n, m)
             y == Feedback(FillStatus(acc, n, m), o.id, q)
             available == Avail(acc, n)
  <2>1. Live(o) /\ available = acc.left[side] /\ available # <<>>
    BY <1>4 DEF GivesFill, Eligible, Avail
  <2>2. /\ r.orders = [acc.orders EXCEPT ![n] = b]
        /\ r.fills = Append(acc.fills, x)
        /\ r.feedback = Append(acc.feedback, y)
        /\ r.left = [acc.left EXCEPT ![side] = LeftAfter(m, available, q)]
    BY <1>4 DEF GivesFill
  <2>3. Later(o, b) /\ b.filled = o.filled + q /\ b.status = FillStatus(acc, n, m)
    BY <1>1, <2>1, FillEvolves
  <2>4. /\ x.ordinal = k /\ x.side = side /\ x.quantity = q
        /\ y.type = FillStatus(acc, n, m) /\ y.order = o.id /\ y.quantity = q
        /\ FillStatus(acc, n, m) \in {"Filled", "PartiallyFilled"}
    BY DEF FillOf, Feedback, FillStatus
  <2>5. o.filled \in Int /\ available[1].quantity \in Nat
    BY <1>0, <1>1, <2>1 DEF CountedTo, FillsCount, LeftQuantity
  <2>6. q \in Int /\ (m.quantity # "Unlimited" => q <= available[1].quantity)
    <3>1. Remaining(o) \in Int
      BY <1>1, <2>5 DEF Remaining
    <3>2. q = IF m.quantity = "Unlimited" \/ Remaining(o) <= available[1].quantity
              THEN Remaining(o) ELSE available[1].quantity
      BY DEF FillQuantity
    <3> HIDE DEF q, o, available
    <3> QED BY <2>5, <3>1, <3>2
  <2> HIDE DEF x, b, y, q, available
  <2>7. IsSeq(r.orders) /\ Len(r.orders) = Len(s.orders) /\ r.orders[n] = b
        /\ \A j \in 1..Len(s.orders) : j # n => r.orders[j] = acc.orders[j]
    <3>1. r.orders = [j \in 1..Len(s.orders) |-> r.orders[j]] /\ r.orders[n] = b
          /\ \A j \in 1..Len(s.orders) : j # n => r.orders[j] = acc.orders[j]
      BY <1>0, <2>2
    <3> QED BY <1>0, <3>1, FunctionIsSeq
  <2>8. FillsCount(acc.orders) /\ HaveQuantity(acc.fills) /\ News(acc.feedback)
    BY DEF CountedTo, Reported
  <2>9. ASSUME NEW id
        PROVE  /\ FillsCount(r.orders) /\ SumFilled(r.orders) = SumFilled(acc.orders) + q
               /\ QuantityFilled(r.orders, id)
                    = QuantityFilled(acc.orders, id) + (IF o.id = id THEN q ELSE 0)
               /\ TimesEnded(r.orders, "Filled", id) = TimesEnded(acc.orders, "Filled", id)
                    + (IF b.status = "Filled" /\ o.id = id THEN 1 ELSE 0)
               /\ TimesEnded(r.orders, "Cancelled", id) = TimesEnded(acc.orders, "Cancelled", id)
    <3>1. n \in 1..Len(acc.orders) /\ Len(r.orders) = Len(acc.orders)
          /\ \A j \in 1..Len(acc.orders) : j # n => r.orders[j] = acc.orders[j]
      BY <1>0, <2>7
    <3>2. /\ r.orders[n].id = acc.orders[n].id /\ r.orders[n].filled = acc.orders[n].filled + q
          /\ Live(acc.orders[n]) /\ r.orders[n].status \in {"Filled", "PartiallyFilled"}
      BY <2>1, <2>3, <2>4, <2>7 DEF Later
    <3>3. OneFilled(acc.orders, r.orders, n, q)
      BY <1>0, <2>6, <2>7, <3>1, <3>2 DEF OneFilled
    <3> QED BY <2>7, <2>8, <3>3, OrdersChange
  <2>10. ASSUME NEW d
         PROVE  /\ HaveQuantity(r.fills) /\ SumQuantity(r.fills) = SumQuantity(acc.fills) + q
                /\ Taken(r.fills, k, d) = Taken(acc.fills, k, d) + (IF side = d THEN q ELSE 0)
    <3>1. x.quantity \in Int
      BY <2>4, <2>6
    <3>2. /\ HaveQuantity(r.fills) /\ SumQuantity(r.fills) = SumQuantity(acc.fills) + x.quantity
          /\ Taken(r.fills, k, d) = Taken(acc.fills, k, d)
               + (IF x.ordinal = k /\ x.side = d THEN x.quantity ELSE 0)
      BY <1>0, <2>2, <2>8, <3>1, FillsMore
    <3> QED BY <2>4, <3>2
  <2>11. ASSUME NEW id
         PROVE  /\ News(r.feedback)
                /\ QuantityTold(r.feedback, id)
                     = QuantityTold(acc.feedback, id) + (IF o.id = id THEN q ELSE 0)
                /\ \A type \in Ends : TimesTold(r.feedback, type, id) =
                     TimesTold(acc.feedback, type, id) + (IF b.status = type /\ o.id = id THEN 1 ELSE 0)
    <3>1. y.quantity \in Int
      BY <2>4, <2>6
    <3>2. /\ News(r.feedback)
          /\ QuantityTold(r.feedback, id)
               = QuantityTold(acc.feedback, id) + (IF Tells(y, id) THEN y.quantity ELSE 0)
          /\ \A type \in Ends : TimesTold(r.feedback, type, id) =
               TimesTold(acc.feedback, type, id) + (IF y.type = type /\ y.order = id THEN 1 ELSE 0)
      BY <2>2, <2>8, <3>1, NewsMore
    <3>3. Tells(y, id) <=> o.id = id
      BY <2>4 DEF Tells
    <3> QED BY <2>3, <2>4, <3>2, <3>3
  <2>12. Reported(s.orders, r.orders, r.feedback)
    <3>1. ASSUME NEW id
          PROVE  /\ QuantityTold(r.feedback, id) + QuantityFilled(s.orders, id) = QuantityFilled(r.orders, id)
                 /\ \A type \in Ends : TimesTold(r.feedback, type, id) + TimesEnded(s.orders, type, id)
                                         = TimesEnded(r.orders, type, id)
      <4>1. /\ QuantityTold(acc.feedback, id) + QuantityFilled(s.orders, id) = QuantityFilled(acc.orders, id)
            /\ \A type \in Ends : TimesTold(acc.feedback, type, id) + TimesEnded(s.orders, type, id)
                                    = TimesEnded(acc.orders, type, id)
        BY DEF CountedTo, Reported
      <4>2. /\ QuantityTold(acc.feedback, id) \in Int
            /\ \A type \in Ends : TimesTold(acc.feedback, type, id) \in Int
        BY <2>8, NewsSums
      <4>3. /\ QuantityFilled(s.orders, id) \in Int
            /\ \A type \in Ends : TimesEnded(s.orders, type, id) \in Int
        BY OrderSums, SimFacts
      <4>4. QuantityTold(r.feedback, id) + QuantityFilled(s.orders, id) = QuantityFilled(r.orders, id)
        BY <2>6, <2>9, <2>11, <4>1, <4>2, <4>3
      <4>5. ASSUME NEW type \in Ends
            PROVE  TimesTold(r.feedback, type, id) + TimesEnded(s.orders, type, id)
                     = TimesEnded(r.orders, type, id)
        <5>0. /\ TimesTold(acc.feedback, type, id) \in Int /\ TimesEnded(s.orders, type, id) \in Int
              /\ TimesTold(acc.feedback, type, id) + TimesEnded(s.orders, type, id)
                   = TimesEnded(acc.orders, type, id)
          BY <4>1, <4>2, <4>3
        <5>1. TimesTold(r.feedback, type, id) =
                TimesTold(acc.feedback, type, id) + (IF b.status = type /\ o.id = id THEN 1 ELSE 0)
          BY <2>11
        <5>2. CASE type = "Filled"
          BY <2>9, <5>0, <5>1, <5>2
        <5>3. CASE type = "Cancelled"
          <6>1. b.status # "Cancelled"
            BY <2>3, <2>4
          <6> QED BY <2>9, <5>0, <5>1, <5>3, <6>1
        <5> QED BY <5>2, <5>3 DEF Ends
      <4> QED BY <4>4, <4>5
    <3> QED BY <2>11, <3>1 DEF Reported
  <2>13. SumFilled(r.orders) + SumQuantity(s.fills) = SumFilled(s.orders) + SumQuantity(r.fills)
    <3>1. SumFilled(acc.orders) + SumQuantity(s.fills) = SumFilled(s.orders) + SumQuantity(acc.fills)
      BY DEF CountedTo
    <3>2. /\ SumFilled(acc.orders) \in Int /\ SumQuantity(s.fills) \in Int
          /\ SumFilled(s.orders) \in Int /\ SumQuantity(acc.fills) \in Int
      BY <1>0, <2>8, OrderSums, FillSums, SimFacts
    <3> QED BY <2>6, <2>9, <2>10, <3>1, <3>2
  <2>14. /\ LeftQuantity(r.left[side]) \in Nat
         /\ m.quantity # "Unlimited" => LeftQuantity(r.left[side]) = LeftQuantity(acc.left[side]) - q
         /\ \A d \in Sides : d # side => r.left[d] = acc.left[d]
    <3>1. r.left[side] = LeftAfter(m, available, q) /\ \A d \in Sides : d # side => r.left[d] = acc.left[d]
      BY <1>0, <1>1, <2>2
    <3>2. LeftQuantity(acc.left[side]) = available[1].quantity
      BY <2>1 DEF LeftQuantity
    <3>3. /\ LeftQuantity(LeftAfter(m, available, q)) \in Nat
          /\ m.quantity # "Unlimited" =>
               LeftQuantity(LeftAfter(m, available, q)) = available[1].quantity - q
      BY <2>1, <2>5, <2>6, LeftTaken
    <3> QED BY <3>1, <3>2, <3>3
  <2>15. ASSUME NEW d \in Sides
         PROVE  /\ LeftQuantity(r.left[d]) \in Nat
                /\ m.quantity # "Unlimited" => Conserved(r, s, e, k, m, d)
    <3>1. LeftQuantity(acc.left[d]) \in Nat /\ (m.quantity # "Unlimited" => Conserved(acc, s, e, k, m, d))
      BY DEF CountedTo
    <3>2. Taken(acc.fills, k, d) \in Int
      BY <1>0, <2>8, FillSums
    <3>3. CASE d = side
      BY <2>6, <2>10, <2>14, <3>1, <3>2, <3>3 DEF Conserved
    <3>4. CASE d # side
      BY <2>10, <2>14, <3>1, <3>2, <3>4 DEF Conserved
    <3> QED BY <3>3, <3>4
  <2> QED BY <2>9, <2>10, <2>12, <2>13, <2>15 DEF CountedTo
<1> QED BY <1>2, <1>3, <1>4

\* What an event shows are quantities.
ShowsQuantities(e) == HasQuantities(e.asks) /\ HasQuantities(e.bids) /\ HasQuantities(e.prints)
LEMMA EvidenceQuantity ==
    ASSUME NEW e, NEW m, NEW side, ShowsQuantities(e)
    PROVE  LeftQuantity(Evidence(e, m, side)) \in Nat
<1>1. ASSUME NEW levels, HasQuantities(levels), levels # <<>> PROVE levels[1].quantity \in Nat
  <2>1. levels \in Seq(Range(levels)) /\ \A n \in DOMAIN levels : levels[n].quantity \in Nat
    BY <1>1 DEF HasQuantities
  <2>2. 1 \in DOMAIN levels
    BY <1>1, <2>1
  <2> QED BY <2>1, <2>2
<1>2. \/ Evidence(e, m, side) = <<>>
      \/ \E levels \in {e.asks, e.bids, e.prints} :
           levels # <<>> /\ Evidence(e, m, side) = <<levels[1]>>
  BY DEF Evidence
<1>3. CASE Evidence(e, m, side) = <<>>
  BY <1>3 DEF LeftQuantity
<1>4. ASSUME NEW levels \in {e.asks, e.bids, e.prints}, levels # <<>>,
             Evidence(e, m, side) = <<levels[1]>>
      PROVE  LeftQuantity(Evidence(e, m, side)) \in Nat
  <2>1. levels[1].quantity \in Nat
    BY <1>1, <1>4 DEF ShowsQuantities
  <2>2. <<levels[1]>> # <<>> /\ <<levels[1]>>[1] = levels[1]
    OBVIOUS
  <2> QED BY <1>4, <2>1, <2>2 DEF LeftQuantity
<1> QED BY <1>2, <1>3, <1>4

LEMMA ReportedNothing ==
    ASSUME NEW s, IsSeq(s), FillsCount(s)
    PROVE  Reported(s, s, <<>>)
<1>1. Answers(<<>>)
  BY TupleFacts DEF Answers
<1> QED BY <1>1, AnswersTell, OrderSums DEF Reported

LEMMA CountedAll ==
    ASSUME NEW f, NEW s, NEW e, NEW k, NEW m, IsSim(s), HaveSides(s.orders), HaveIntents(s.orders),
           FillsCount(s.orders), HaveQuantity(s.fills), ShowsQuantities(e),
           Matches(f, s, m, e, k, Len(s.orders))
    PROVE  CountedTo(f[Len(s.orders)], s, e, k, m)
<1> DEFINE N == Len(s.orders)
           S == {n \in Nat : n <= N => CountedTo(f[n], s, e, k, m)}
<1>0. N \in Nat /\ IsSeq(s.orders) /\ \A n \in 0..N : MatchedTo(f[n], s, n, e, k, m)
  BY SimFacts, MatchedAll
<1>1. 0 \in S
  <2>1. f[0] = MatchStart(s, m, e)
    BY DEF Matches
  <2>2. /\ f[0].orders = s.orders /\ f[0].fills = s.fills /\ f[0].feedback = <<>>
        /\ f[0].left = [side \in Sides |-> Evidence(e, m, side)]
    BY <2>1 DEF MatchStart, Sides
  <2>3. \A side \in Sides : f[0].left[side] = Evidence(e, m, side)
    BY <2>2
  <2>4. \A side \in Sides : LeftQuantity(f[0].left[side]) \in Nat /\ Conserved(f[0], s, e, k, m, side)
    BY <2>2, <2>3, EvidenceQuantity DEF Conserved
  <2>5. Reported(s.orders, f[0].orders, f[0].feedback)
    BY <1>0, <2>2, ReportedNothing
  <2>6. CountedTo(f[0], s, e, k, m)
    BY <2>2, <2>4, <2>5 DEF CountedTo
  <2> QED BY <2>6
<1>2. ASSUME NEW n \in Nat, n \in S PROVE n + 1 \in S
  <2> SUFFICES ASSUME n + 1 <= N PROVE CountedTo(f[n + 1], s, e, k, m)
    OBVIOUS
  <2>1. n + 1 \in 1..Len(s.orders) /\ (n + 1) - 1 = n /\ n <= N /\ n \in 0..N
    BY <1>0
  <2>2. MatchedTo(f[n], s, (n + 1) - 1, e, k, m) /\ CountedTo(f[n], s, e, k, m)
    BY <1>0, <1>2, <2>1
  <2>3. f[n + 1] = MatchOrder(f[n], n + 1, e, k, m)
    BY <2>1 DEF Matches
  <2> QED BY <2>1, <2>2, <2>3, CountedNext
<1>3. \A n \in Nat : n \in S
  <2> HIDE DEF S
  <2> QED BY <1>1, <1>2, SetInduction
<1> QED BY <1>0, <1>3

\* What an evaluation leaves: fills, orders and feedback agree, and a side took
\* no more of the event than the event showed.
Sold(s, t, e, k, m) ==
    m.quantity # "Unlimited" => \A side \in Sides :
      Taken(t.fills, k, side) <= Taken(s.fills, k, side) + LeftQuantity(Evidence(e, m, side))
Balanced(s) ==
    /\ FillsCount(s.orders) /\ HaveQuantity(s.fills)
    /\ SumFilled(s.orders) = SumQuantity(s.fills)
LEMMA EvaluateCounts ==
    ASSUME NEW s, NEW m, NEW e, NEW k, NEW context, IsSim(s), HaveSides(s.orders),
           HaveIntents(s.orders), Balanced(s), ShowsQuantities(e)
    PROVE  LET r == EvaluateEvent(s, m, e, k, context)
           IN  Balanced(r.sim) /\ Reported(s.orders, r.sim.orders, r.feedback) /\ Sold(s, r.sim, e, k, m)
<1> DEFINE r == EvaluateEvent(s, m, e, k, context)
<1> SUFFICES Balanced(r.sim) /\ Reported(s.orders, r.sim.orders, r.feedback) /\ Sold(s, r.sim, e, k, m)
  OBVIOUS
<1>0. /\ Len(s.orders) \in Nat /\ IsSeq(s.orders) /\ IsSeq(s.fills)
      /\ FillsCount(s.orders) /\ HaveQuantity(s.fills)
      /\ SumFilled(s.orders) = SumQuantity(s.fills)
  BY SimFacts DEF Balanced
<1>1. \A side \in Sides : Taken(s.fills, k, side) \in Int /\ LeftQuantity(Evidence(e, m, side)) \in Nat
  BY <1>0, FillSums, EvidenceQuantity
<1>2. ASSUME r.sim.fills = s.fills PROVE Sold(s, r.sim, e, k, m)
  <2> HIDE DEF r
  <2> QED BY <1>1, <1>2 DEF Sold
<1>3. CASE Interrupts(context)
  <2> DEFINE ending == {n \in DOMAIN s.orders : /\ s.orders[n].intent.instrument = e.instrument
                                                /\ s.orders[n].intent.type = "Market"}
  <2>1. r = Cancel(s, ending)
    BY <1>3 DEF EvaluateEvent, CancelMarketOrders
  <2>2. ending \subseteq DOMAIN s.orders
    OBVIOUS
  <2> HIDE DEF r, ending
  <2>3. r.sim.fills = s.fills
    BY <2>1, <2>2, CancelFacts
  <2>4. /\ FillsCount(r.sim.orders) /\ SumFilled(r.sim.orders) = SumFilled(s.orders)
        /\ Reported(s.orders, r.sim.orders, r.feedback)
    BY <1>0, <2>1, <2>2, CancelReported
  <2> QED BY <1>0, <1>2, <2>3, <2>4 DEF Balanced
<1>4. CASE MayMatch(context)
  <2>1. PICK f : /\ Matches(f, s, m, e, k, Len(s.orders))
                 /\ LET end == f[Len(s.orders)]
                    IN  EvaluateEvent(s, m, e, k, context) =
                          [error |-> end.error, feedback |-> end.feedback,
                           sim |-> [orders |-> end.orders, fills |-> end.fills]]
    BY <1>0, <1>4, MatchLoop
  <2> DEFINE acc == f[Len(s.orders)]
  <2>2. r.sim.orders = acc.orders /\ r.sim.fills = acc.fills /\ r.feedback = acc.feedback
    BY <2>1
  <2>3. CountedTo(acc, s, e, k, m)
    <3>1. Matches(f, s, m, e, k, Len(s.orders))
      BY <2>1
    <3> QED BY <1>0, <3>1, CountedAll
  <2>4. IsSeq(acc.fills)
    <3>1. Matches(f, s, m, e, k, Len(s.orders))
      BY <2>1
    <3>2. \A n \in 0..Len(s.orders) : MatchedTo(f[n], s, n, e, k, m)
      BY <3>1, MatchedAll
    <3>3. MatchedTo(acc, s, Len(s.orders), e, k, m)
      BY <1>0, <3>2
    <3> QED BY <3>3 DEF MatchedTo, Prolongs
  <2> HIDE DEF acc, r
  <2>5. /\ FillsCount(acc.orders) /\ HaveQuantity(acc.fills)
        /\ Reported(s.orders, acc.orders, acc.feedback)
        /\ SumFilled(acc.orders) + SumQuantity(s.fills) = SumFilled(s.orders) + SumQuantity(acc.fills)
    BY <2>3 DEF CountedTo
  <2>6. Balanced(r.sim)
    <3>1. SumQuantity(s.fills) \in Int /\ SumQuantity(acc.fills) \in Int
      BY <1>0, <2>4, <2>5, FillSums
    <3>2. SumFilled(acc.orders) \in Int
      <4>1. IsSeq(acc.orders)
        <5>1. IsSim(EvaluateEvent(s, m, e, k, context).sim)
          BY EvaluateFacts
        <5> QED BY <5>1, <2>2, SimFacts DEF r
      <4> QED BY <2>5, <4>1, OrderSums
    <3>3. SumFilled(acc.orders) = SumQuantity(acc.fills)
      BY <1>0, <2>5, <3>1, <3>2
    <3> QED BY <2>2, <2>5, <3>3 DEF Balanced
  <2>7. Sold(s, r.sim, e, k, m)
    <3>1. ASSUME m.quantity # "Unlimited", NEW side \in Sides
          PROVE  Taken(acc.fills, k, side) <= Taken(s.fills, k, side) + LeftQuantity(Evidence(e, m, side))
      <4>1. Conserved(acc, s, e, k, m, side) /\ LeftQuantity(acc.left[side]) \in Nat
        BY <2>3, <3>1 DEF CountedTo
      <4>2. Taken(acc.fills, k, side) \in Int
        BY <2>4, <2>5, FillSums
      <4> QED BY <1>1, <4>1, <4>2 DEF Conserved
    <3> QED BY <2>2, <3>1 DEF Sold
  <2> QED BY <2>2, <2>5, <2>6, <2>7
<1>5. CASE ~Interrupts(context) /\ ~MayMatch(context)
  <2>1. r.sim = s /\ r.feedback = <<>>
    BY <1>5 DEF EvaluateEvent, MayMatch
  <2> HIDE DEF r
  <2> QED BY <1>0, <1>2, <2>1, ReportedNothing DEF Balanced
<1> QED BY <1>3, <1>4, <1>5

-----------------------------------------------------------------------------
(* Fills are settled once and evidence is sold once.                       *)

\* A list that was prolonged, and what was added to it.
LEMMA PrefixFacts ==
    ASSUME NEW s, NEW t, IsSeq(s), Prolongs(s, t)
    PROVE  /\ IsPrefix(s, t)
           /\ LET rest == SubSeq(t, Len(s) + 1, Len(t))
              IN  /\ s \o rest = t
                  /\ \A j \in 1..Len(rest) : IsSeq(s \o SubSeq(rest, 1, j - 1))
                                             /\ Prolongs(s \o SubSeq(rest, 1, j - 1), t)
<1> DEFINE rest == SubSeq(t, Len(s) + 1, Len(t))
<1>0. /\ Len(s) \in Nat /\ Len(t) \in Nat /\ Len(s) <= Len(t) /\ IsSeq(t)
      /\ \A n \in 1..Len(s) : t[n] = s[n]
  BY SeqFacts DEF Prolongs
<1>1. PICK S : s \in Seq(S)
  BY DEF IsSeq
<1>2. PICK T : t \in Seq(T)
  BY <1>0 DEF IsSeq
<1>3. IsPrefix(s, t)
  BY <1>0, <1>1, <1>2 DEF IsPrefix
<1>4. /\ rest \in Seq(T) /\ IsSeq(rest) /\ Len(rest) = Len(t) - Len(s)
      /\ \A n \in 1..Len(rest) : rest[n] = t[Len(s) + n]
  <2>1. rest \in Seq(T) /\ Len(rest) = Len(t) - Len(s) /\ \A n \in 1..Len(rest) : rest[n] = t[Len(s) + n]
    BY <1>0, <1>2
  <2> QED BY <2>1 DEF IsSeq
<1> HIDE DEF rest
<1>5. s \o rest = t
  <2>1. /\ IsSeq(s \o rest) /\ Len(s \o rest) = Len(t)
        /\ \A n \in 1..Len(s) : (s \o rest)[n] = s[n]
        /\ \A n \in (Len(s) + 1)..Len(t) : (s \o rest)[n] = rest[n - Len(s)]
    <3>1. Len(s) + Len(rest) = Len(t)
      BY <1>0, <1>4
    <3> QED BY <1>4, <3>1, ConcatFacts
  <2>2. ASSUME NEW n \in 1..Len(t) PROVE (s \o rest)[n] = t[n]
    <3>1. CASE n \in 1..Len(s)
      BY <3>1, <1>0, <2>1
    <3>2. CASE n \notin 1..Len(s)
      <4>1. n \in (Len(s) + 1)..Len(t) /\ n - Len(s) \in 1..Len(rest) /\ Len(s) + (n - Len(s)) = n
        BY <3>2, <1>0, <1>4
      <4> QED BY <4>1, <1>4, <2>1
    <3> QED BY <3>1, <3>2
  <2> QED BY <1>0, <2>1, <2>2, SameSeq
<1>6. ASSUME NEW j \in 1..Len(rest)
      PROVE  IsSeq(s \o SubSeq(rest, 1, j - 1)) /\ Prolongs(s \o SubSeq(rest, 1, j - 1), t)
  <2> DEFINE some == SubSeq(rest, 1, j - 1)
  <2>1. some \in Seq(T) /\ Len(some) = j - 1 /\ \A n \in 1..(j - 1) : some[n] = rest[n]
    BY <1>4
  <2>2. IsSeq(some) /\ j - 1 \in Nat
    <3> HIDE DEF some
    <3>1. IsSeq(some)
      BY <2>1 DEF IsSeq
    <3>2. j - 1 \in Nat
      BY <1>0, <1>4
    <3> QED BY <3>1, <3>2
  <2> HIDE DEF some
  <2>3. /\ IsSeq(s \o some) /\ Len(s \o some) = Len(s) + (j - 1)
        /\ \A n \in 1..Len(s) : (s \o some)[n] = s[n]
        /\ \A n \in (Len(s) + 1)..(Len(s) + (j - 1)) : (s \o some)[n] = some[n - Len(s)]
    BY <2>1, <2>2, ConcatFacts
  <2>4. ASSUME NEW n \in 1..(Len(s) + (j - 1)) PROVE (s \o some)[n] = t[n]
    <3>1. CASE n \in 1..Len(s)
      BY <3>1, <1>0, <2>3
    <3>2. CASE n \notin 1..Len(s)
      <4>1. /\ n \in (Len(s) + 1)..(Len(s) + (j - 1)) /\ n - Len(s) \in 1..(j - 1)
            /\ n - Len(s) \in 1..Len(rest) /\ Len(s) + (n - Len(s)) = n
        BY <3>2, <1>0, <1>4, <2>2
      <4> QED BY <4>1, <1>4, <2>1, <2>3
    <3> QED BY <3>1, <3>2
  <2>5. Len(s) + (j - 1) <= Len(t)
    BY <1>0, <1>4, <2>2
  <2> QED BY <1>0, <2>3, <2>4, <2>5 DEF Prolongs, some
<1> QED BY <1>3, <1>5, <1>6 DEF rest

\* The fills that others events gave are what they were.
LEMMA TakenKept ==
    ASSUME NEW s, NEW t, IsSeq(s), HaveQuantity(s), Prolongs(s, t), NEW k, NEW side,
           \A n \in (Len(s) + 1)..Len(t) : t[n].ordinal # k
    PROVE  Taken(t, k, side) = Taken(s, k, side)
<1>0. /\ Len(s) \in Nat /\ Len(t) \in Nat /\ Len(s) <= Len(t) /\ IsSeq(t)
      /\ DOMAIN s = 1..Len(s) /\ DOMAIN t = 1..Len(t)
      /\ \A n \in 1..Len(s) : t[n] = s[n]
  BY SeqFacts DEF Prolongs
<1>1. /\ \A n \in 1..Len(s) : n \in 1..Len(t)
      /\ \A n \in (Len(s) + 1)..Len(t) : n \in 1..Len(t)
  BY <1>0
<1> DEFINE u == [n \in DOMAIN s |->
                   IF s[n].ordinal = k /\ s[n].side = side THEN s[n].quantity ELSE 0]
           v == [n \in DOMAIN t |->
                   IF t[n].ordinal = k /\ t[n].side = side THEN t[n].quantity ELSE 0]
<1>2. u = [n \in 1..Len(s) |-> u[n]] /\ \A n \in 1..Len(s) : u[n] \in Int
  BY <1>0 DEF HaveQuantity
<1>3. v = [n \in 1..Len(t) |-> v[n]] /\ \A n \in 1..Len(s) : v[n] = u[n]
  BY <1>0, <1>1
<1>4. \A n \in (Len(s) + 1)..Len(t) : v[n] = 0
  BY <1>0, <1>1
<1> HIDE DEF u, v
<1>5. u \in Seq(Int) /\ Len(u) = Len(s)
  BY <1>0, <1>2, IntSeq
<1>6. Total(v) = Total(u)
  <2>1. /\ Len(t) \in Nat /\ Len(u) <= Len(t) /\ v = [n \in 1..Len(t) |-> v[n]]
        /\ \A n \in 1..Len(u) : v[n] = u[n]
        /\ \A n \in (Len(u) + 1)..Len(t) : v[n] = 0
    BY <1>0, <1>3, <1>4, <1>5
  <2> QED BY ONLY <1>5, <2>1, TotalProlong
<1> QED BY <1>6 DEF Taken, u, v

\* The simulator s of instrument i: orders and fills add up, and no side took
\* more of an event than it showed.
SoldIn(st, s, i) ==
    st.models[i].quantity # "Unlimited" =>
      \A k \in 1..Len(st.tape), side \in Sides :
        Taken(s.fills, k, side) <= LeftQuantity(Evidence(st.tape[k], st.models[i], side))
BookOK(st, s, i) ==
    Balanced(s) /\ SoldIn(st, s, i) /\ \A n \in 1..Len(s.fills) : s.fills[n].side \in Sides
NoFillAt(s, k) == \A n \in 1..Len(s.fills) : s.fills[n].ordinal # k

LEMMA BookCancelled ==
    ASSUME NEW st, NEW s, NEW i, NEW ending, BookOK(st, s, i), IsSim(s), ending \subseteq DOMAIN s.orders
    PROVE  /\ BookOK(st, Cancel(s, ending).sim, i)
           /\ Cancel(s, ending).sim.fills = s.fills
           /\ Reported(s.orders, Cancel(s, ending).sim.orders, Cancel(s, ending).feedback)
<1> DEFINE t == Cancel(s, ending).sim
<1>1. t.fills = s.fills
  BY CancelFacts
<1>2. FillsCount(s.orders)
  BY DEF BookOK, Balanced
<1>3. /\ FillsCount(t.orders) /\ SumFilled(t.orders) = SumFilled(s.orders)
      /\ Reported(s.orders, t.orders, Cancel(s, ending).feedback)
  BY <1>2, CancelReported
<1> HIDE DEF t
<1>4. BookOK(st, t, i)
  BY <1>1, <1>3 DEF BookOK, Balanced, SoldIn
<1> QED BY <1>1, <1>3, <1>4 DEF t

LEMMA BookPlaced ==
    ASSUME NEW st, NEW s, NEW t, NEW i, BookOK(st, s, i), IsSim(s), Placed(s, t, i)
    PROVE  /\ BookOK(st, t, i) /\ t.fills = s.fills
           /\ \A x : /\ QuantityFilled(t.orders, x) = QuantityFilled(s.orders, x)
                     /\ \A type \in Ends : TimesEnded(t.orders, type, x) = TimesEnded(s.orders, type, x)
<1>1. /\ IsSeq(s.orders) /\ IsSeq(t.orders) /\ Len(s.orders) <= Len(t.orders) /\ t.fills = s.fills
      /\ FillsCount(s.orders) /\ \A n \in 1..Len(s.orders) : t.orders[n] = s.orders[n]
      /\ \A n \in (Len(s.orders) + 1)..Len(t.orders) :
           t.orders[n].filled = 0 /\ t.orders[n].status = "Pending"
  BY SimFacts DEF Placed, IsNew, BookOK, Balanced
<1>0. AddsOrders(s.orders, t.orders) /\ FillsCount(s.orders)
  BY <1>1 DEF AddsOrders
<1>2. ASSUME NEW x
      PROVE  /\ FillsCount(t.orders) /\ SumFilled(t.orders) = SumFilled(s.orders)
             /\ QuantityFilled(t.orders, x) = QuantityFilled(s.orders, x)
             /\ \A type \in Ends : TimesEnded(t.orders, type, x) = TimesEnded(s.orders, type, x)
  BY <1>0, OrdersPlaced
<1>3. BookOK(st, t, i)
  BY <1>1, <1>2 DEF BookOK, Balanced, SoldIn
<1> QED BY <1>1, <1>2, <1>3

LEMMA BookEvaluated ==
    ASSUME NEW st \in Setups, NEW s, NEW i, NEW k \in 1..Len(st.tape), NEW context,
           BookOK(st, s, i), SimIn(st, s, i, k), NoFillAt(s, k)
    PROVE  LET r == EvaluateEvent(s, st.models[i], st.tape[k], k, context)
           IN  /\ BookOK(st, r.sim, i) /\ Prolongs(s.fills, r.sim.fills) /\ IsSim(r.sim)
               /\ Reported(s.orders, r.sim.orders, r.feedback)
<1> DEFINE m == st.models[i]
           e == st.tape[k]
           r == EvaluateEvent(s, m, e, k, context)
           t == r.sim
<1>0. /\ IsSim(s) /\ HaveSides(s.orders) /\ HaveIntents(s.orders) /\ IsSeq(s.fills)
      /\ Len(s.fills) \in Nat /\ Balanced(s) /\ HaveQuantity(s.fills)
  BY SimFacts DEF SimIn, HaveSides, HaveIntents, OrderIn, BookOK, Balanced
<1>1. ShowsQuantities(e)
  <2>1. k \in DOMAIN st.tape
    BY TapeFacts
  <2> QED BY <2>1, InputsAssumption DEF ShowsQuantities
<1>2. /\ IsSim(t) /\ Prolongs(s.fills, t.fills)
      /\ \A j \in (Len(s.fills) + 1)..Len(t.fills) : FillFrom(t.fills[j], s.orders, e, k, m)
  BY <1>0, EvaluateFacts
<1>3. Balanced(t) /\ Reported(s.orders, t.orders, r.feedback) /\ Sold(s, t, e, k, m)
  BY <1>0, <1>1, EvaluateCounts
<1> HIDE DEF t, r
<1>4. \A j \in (Len(s.fills) + 1)..Len(t.fills) : t.fills[j].ordinal = k /\ t.fills[j].side \in Sides
  BY <1>0, <1>2 DEF FillFrom, HaveSides
<1>5. Len(t.fills) \in Nat
  BY <1>2, SimFacts
<1>6. \A n \in 1..Len(t.fills) : t.fills[n].side \in Sides
  <2>1. \A n \in 1..Len(t.fills) : n \in 1..Len(s.fills) \/ n \in (Len(s.fills) + 1)..Len(t.fills)
    BY <1>0, <1>5
  <2>2. \A n \in 1..Len(s.fills) : t.fills[n] = s.fills[n] /\ s.fills[n].side \in Sides
    BY <1>2 DEF Prolongs, BookOK
  <2> QED BY <1>4, <2>1, <2>2
<1>7. ASSUME m.quantity # "Unlimited", NEW j \in 1..Len(st.tape), NEW side \in Sides
      PROVE  Taken(t.fills, j, side) <= LeftQuantity(Evidence(st.tape[j], m, side))
  <2>1. CASE j = k
    <3>1. Taken(s.fills, k, side) = 0
      BY <1>0, NothingTaken DEF NoFillAt
    <3>2. Taken(t.fills, k, side) <= Taken(s.fills, k, side) + LeftQuantity(Evidence(e, m, side))
      BY <1>3, <1>7 DEF Sold
    <3>3. LeftQuantity(Evidence(e, m, side)) \in Nat
      BY <1>1, EvidenceQuantity
    <3>4. 0 + LeftQuantity(Evidence(e, m, side)) = LeftQuantity(Evidence(e, m, side))
      BY <3>3
    <3> QED BY <2>1, <3>1, <3>2, <3>4
  <2>2. CASE j # k
    <3>1. Taken(t.fills, j, side) = Taken(s.fills, j, side)
      BY <1>0, <1>2, <1>4, <2>2, TakenKept
    <3> QED BY <1>7, <3>1 DEF BookOK, SoldIn
  <2> QED BY <2>1, <2>2
<1>8. BookOK(st, t, i)
  BY <1>3, <1>6, <1>7 DEF BookOK, SoldIn
<1> QED BY <1>2, <1>3, <1>8 DEF t, r

\* The ledger l of a simulator's fills.
LedgerOK(l, s, failed) == IsSeq(l) /\ Prolongs(l, s.fills) /\ (~failed => l = s.fills)
\* Everything about one instrument.
AccountOK(st, l, s, i, at, k) ==
    /\ BookOK(st, s, i) /\ LedgerOK(l, s, at = "failed")
    /\ at \in {"boundary", "event"} => NoFillAt(s, k)
BalanceInv ==
    /\ CausalInv
    /\ ledger = [i \in DOMAIN setup.models |-> ledger[i]]
    /\ \A i \in DOMAIN setup.models : AccountOK(setup, ledger[i], sims[i], i, pc, ordinal)

LEMMA LedgerSame ==
    ASSUME NEW s, IsSim(s)
    PROVE  LedgerOK(s.fills, s, FALSE) /\ Prolongs(s.fills, s.fills)
<1>1. IsSeq(s.fills) /\ Len(s.fills) \in Nat
  BY SimFacts
<1> QED BY <1>1 DEF LedgerOK, Prolongs

LEMMA BalanceInit == Init => BalanceInv
<1> SUFFICES ASSUME Init PROVE BalanceInv
  OBVIOUS
<1>1. /\ CausalInv /\ pc = "start" /\ sims = [i \in DOMAIN setup.models |-> Empty]
      /\ ledger = [i \in DOMAIN setup.models |-> <<>>] /\ setup \in Setups
  BY CausalInit DEF Init
<1>2. ledger = [i \in DOMAIN setup.models |-> ledger[i]]
  BY <1>1
<1>3. ASSUME NEW i \in DOMAIN setup.models
      PROVE  AccountOK(setup, ledger[i], sims[i], i, pc, ordinal)
  <2> DEFINE s == sims[i]
  <2>1. s = [orders |-> <<>>, fills |-> <<>>] /\ ledger[i] = <<>>
    BY <1>1 DEF Empty
  <2>2. s.orders = <<>> /\ s.fills = <<>> /\ IsSeq(<<>>) /\ Len(<<>>) = 0
    BY <2>1, TupleFacts
  <2> HIDE DEF s
  <2>3. (\A n \in 1..Len(s.orders) : FALSE) /\ (\A n \in 1..Len(s.fills) : FALSE)
    BY <2>2
  <2>4. Balanced(s)
    <3>1. [n \in DOMAIN s.orders |-> s.orders[n].filled] = <<>>
      BY <2>2
    <3>2. [n \in DOMAIN s.fills |-> s.fills[n].quantity] = <<>>
      BY <2>2
    <3>3. SumFilled(s.orders) = SumQuantity(s.fills)
      BY <3>1, <3>2 DEF SumFilled, SumQuantity
    <3> QED BY <2>3, <3>3 DEF Balanced, FillsCount, HaveQuantity
  <2>5. SoldIn(setup, s, i)
    <3> SUFFICES ASSUME NEW k \in 1..Len(setup.tape), NEW side \in Sides
                 PROVE  Taken(s.fills, k, side)
                          <= LeftQuantity(Evidence(setup.tape[k], setup.models[i], side))
      BY DEF SoldIn
    <3>1. Taken(s.fills, k, side) = 0
      BY <2>2, <2>3, NothingTaken
    <3>2. ShowsQuantities(setup.tape[k])
      <4>1. k \in DOMAIN setup.tape
        BY <1>1, TapeFacts
      <4> QED BY <1>1, <4>1, InputsAssumption DEF ShowsQuantities
    <3> QED BY <3>1, <3>2, EvidenceQuantity
  <2>6. LedgerOK(ledger[i], s, pc = "failed")
    <3>1. IsSim(s)
      BY <1>1 DEF CausalInv, StateOK, SimIn, s
    <3> QED BY <1>1, <2>1, <2>2, <3>1, LedgerSame DEF LedgerOK
  <2> QED BY <1>1, <2>3, <2>4, <2>5, <2>6 DEF AccountOK, BookOK, s
<1> QED BY <1>1, <1>2, <1>3 DEF BalanceInv

\* Steps that change no fill of any instrument and no ledger.
LEMMA BalanceKept ==
    ASSUME BalanceInv, CausalInv', setup' = setup, ledger' = ledger,
           pc = "failed" => pc' = "failed",
           \A i \in DOMAIN setup.models : BookOK(setup, sims'[i], i) /\ sims'[i].fills = sims[i].fills,
           pc' \in {"boundary", "event"} => \A i \in DOMAIN setup.models : NoFillAt(sims[i], ordinal')
    PROVE  BalanceInv'
<1>1. ledger' = [i \in DOMAIN setup.models |-> ledger'[i]]
  BY DEF BalanceInv
<1>2. ASSUME NEW i \in DOMAIN setup.models
      PROVE  AccountOK(setup, ledger'[i], sims'[i], i, pc', ordinal')
  <2>1. LedgerOK(ledger[i], sims[i], pc = "failed")
    BY DEF BalanceInv, AccountOK
  <2>2. LedgerOK(ledger'[i], sims'[i], pc' = "failed")
    BY <2>1 DEF LedgerOK
  <2> QED BY <2>2 DEF AccountOK, NoFillAt
<1> QED BY <1>1, <1>2 DEF BalanceInv

\* One instrument's orders are cancelled, or nobody's.
LEMMA BalanceCancelled ==
    ASSUME BalanceInv, NEW i, NEW ending, i \in DOMAIN setup.models => ending \subseteq DOMAIN sims[i].orders,
           sims' = sims \/ sims' = [sims EXCEPT ![i] = Cancel(sims[i], ending).sim]
    PROVE  \A j \in DOMAIN setup.models : BookOK(setup, sims'[j], j) /\ sims'[j].fills = sims[j].fills
<1> DEFINE t == Cancel(sims[i], ending).sim
<1> SUFFICES ASSUME NEW j \in DOMAIN setup.models
             PROVE  BookOK(setup, sims'[j], j) /\ sims'[j].fills = sims[j].fills
  OBVIOUS
<1>1. BookOK(setup, sims[j], j) /\ IsSim(sims[j]) /\ DOMAIN sims = DOMAIN setup.models
  BY DEF BalanceInv, AccountOK, CausalInv, StateOK, SimIn
<1>2. CASE j # i \/ sims' = sims
  <2> HIDE DEF t
  <2>1. sims'[j] = sims[j]
    BY <1>1, <1>2 DEF t
  <2> QED BY <1>1, <2>1
<1>3. CASE j = i /\ sims' = [sims EXCEPT ![i] = t]
  <2>1. sims'[j] = t
    <3> HIDE DEF t
    <3> QED BY <1>1, <1>3
  <2> QED BY <1>1, <1>3, <2>1, BookCancelled
<1> QED BY <1>2, <1>3

LEMMA BalanceBegin ==
    ASSUME BalanceInv, BeginEvent PROVE BalanceInv'
<1> DEFINE e == Tape[ordinal + 1]
           segments == SegmentsFor(setup.schedule[e.instrument], e.time)
           g == segments[1]
           p == Propose(StateFor(e), e, ReducerContext(g))
           context == Evaluate(e, p.next.version, p.next, g)
           ended == EndedSegment(e.instrument, g)
           x == CHOOSE s \in ended : TRUE
           i == e.instrument
           ending == {n \in DOMAIN sims[i].orders : sims[i].orders[n].segment = x}
<1>0. /\ pc = "next" /\ setup' = setup /\ ledger' = ledger /\ CausalInv' /\ CausalInv
  BY CausalBegin DEF BeginEvent, BalanceInv
<1>1. /\ sims' = sims \/ sims' = [sims EXCEPT ![i] = Cancel(sims[i], ending).sim]
      /\ pc' = "failed" \/ ordinal' = ordinal + 1
  <2> HIDE DEF p, g, segments, context, ended
  <2> QED BY DEF BeginEvent, Fail, p, g, segments, context, ended, CancelSegmentEnd
<1>2. ending \subseteq DOMAIN sims[i].orders
  OBVIOUS
<1> HIDE DEF ending, i
<1>3. \A j \in DOMAIN setup.models : BookOK(setup, sims'[j], j) /\ sims'[j].fills = sims[j].fills
  BY <1>1, <1>2, BalanceCancelled
<1>4. ASSUME ordinal' = ordinal + 1, NEW j \in DOMAIN setup.models PROVE NoFillAt(sims[j], ordinal')
  <2>1. ordinal \in Nat /\ \A n \in 1..Len(sims[j].fills) : sims[j].fills[n].ordinal \in 1..ordinal
    <3>1. StateOK(setup, ordinal, sims)
      BY <1>0 DEF CausalInv
    <3>2. SimIn(setup, sims[j], j, ordinal)
      BY <1>4, <3>1 DEF StateOK
    <3>3. ordinal \in 0..Len(setup.tape) /\ setup \in Setups
      BY <3>1 DEF StateOK
    <3>4. ordinal \in Nat
      BY <3>3, TapeFacts
    <3> QED BY <3>2, <3>4 DEF SimIn
  <2> QED BY <1>4, <2>1 DEF NoFillAt
<1> QED BY <1>0, <1>1, <1>3, <1>4, BalanceKept

LEMMA BalanceSubmit ==
    ASSUME BalanceInv, NEW intents \in Outputs, BoundaryFeedback(intents) \/ OnFeedback(intents)
    PROVE  BalanceInv'
<1>1. /\ pc \in AtEvent /\ setup' = setup /\ ordinal' = ordinal /\ ledger' = ledger
      /\ sims' = SubmitAll(intents).sims /\ pc # "failed"
      /\ (pc = "boundary" /\ pc' = "event") \/ pc' = "next"
  BY DEF BoundaryFeedback, OnFeedback, AtEvent
<1>2. CausalInv' /\ StateOK(setup, ordinal, sims) /\ ordinal # 0
  BY <1>1, CausalSubmit DEF BalanceInv, CausalInv
<1>3. Submitted(SubmitAll(intents)) /\ DOMAIN sims = DOMAIN setup.models
  BY <1>2, StateSubmitted
<1>4. ASSUME NEW i \in DOMAIN setup.models
      PROVE  BookOK(setup, sims'[i], i) /\ sims'[i].fills = sims[i].fills
  <2>1. Placed(sims[i], sims'[i], i)
    BY <1>1, <1>3 DEF Submitted
  <2>2. BookOK(setup, sims[i], i) /\ IsSim(sims[i])
    BY <1>2 DEF BalanceInv, AccountOK, StateOK, SimIn
  <2> QED BY <2>1, <2>2, BookPlaced
<1>5. pc = "boundary" => \A i \in DOMAIN setup.models : NoFillAt(sims[i], ordinal')
  BY <1>1 DEF BalanceInv, AccountOK
<1> QED BY <1>1, <1>2, <1>4, <1>5, BalanceKept

LEMMA BalanceClose ==
    ASSUME BalanceInv, CloseSegment \/ CloseRun PROVE BalanceInv'
<1>0. CausalInv' /\ CausalInv
  BY CausalClose DEF BalanceInv
<1>1. PICK i, ending :
        /\ ending \subseteq DOMAIN sims[i].orders
        /\ sims' = [sims EXCEPT ![i] = Cancel(sims[i], ending).sim]
        /\ setup' = setup /\ ledger' = ledger /\ pc' \notin AtEvent /\ pc # "failed"
  <2> DEFINE i == First(closing)
             a == {n \in DOMAIN sims[i].orders : sims[i].orders[n].segment = current[i]}
  <2>1. CASE CloseSegment
    <3>1. /\ sims' = [sims EXCEPT ![i] = Cancel(sims[i], a).sim]
          /\ setup' = setup /\ ledger' = ledger /\ pc = "close"
      BY <2>1 DEF CloseSegment, CloseWith, CancelSegmentEnd
    <3>2. pc' \in {"close", "failed", "tellClose"}
      BY <2>1 DEF CloseSegment, CloseWith, Fail
    <3>3. a \subseteq DOMAIN sims[i].orders /\ pc' \notin AtEvent /\ pc # "failed"
      BY <3>1, <3>2 DEF AtEvent
    <3> HIDE DEF i, a
    <3> QED BY <3>1, <3>3
  <2>2. CASE CloseRun
    <3>1. /\ sims' = [sims EXCEPT ![i] = Cancel(sims[i], DOMAIN sims[i].orders).sim]
          /\ setup' = setup /\ ledger' = ledger /\ pc = "end"
      BY <2>2 DEF CloseRun, CloseWith, CancelEndOfRun
    <3>2. pc' \in {"end", "failed", "tellEnd"}
      BY <2>2 DEF CloseRun, CloseWith, Fail
    <3> HIDE DEF i
    <3> QED BY <3>1, <3>2 DEF AtEvent
  <2> QED BY <2>1, <2>2
<1>2. \A j \in DOMAIN setup.models : BookOK(setup, sims'[j], j) /\ sims'[j].fills = sims[j].fills
  BY <1>1, BalanceCancelled
<1> QED BY <1>0, <1>1, <1>2, BalanceKept DEF AtEvent

LEMMA BalanceOnEvent ==
    ASSUME BalanceInv, NEW intents \in Outputs, NEW refusedAt \in Int, OnEvent(intents, refusedAt)
    PROVE  BalanceInv'
<1> DEFINE i == Event.instrument
           ss == SubmitAll(intents).sims
           t == EvaluateEvent(ss[i], setup.models[i], Event, ordinal, trading).sim
           fresh == SubSeq(t.fills, Len(sims[i].fills) + 1, Len(t.fills))
<1>1. /\ pc = "event" /\ setup' = setup /\ ordinal' = ordinal /\ sims' = [ss EXCEPT ![i] = t]
      /\ refusedAt <= Len(fresh)
      /\ \/ pc' = "failed" /\ ledger' = ledger
         \/ /\ refusedAt > 0 /\ pc' = "failed"
            /\ ledger' = [ledger EXCEPT ![i] = @ \o SubSeq(fresh, 1, refusedAt - 1)]
         \/ pc' \in {"next", "feedback"} /\ ledger' = [ledger EXCEPT ![i] = @ \o fresh]
  <2> HIDE DEF fresh, t, ss, i
  <2> QED BY DEF OnEvent, Fail, fresh, t, ss, i
<1>2. /\ CausalInv' /\ StateOK(setup, ordinal, sims) /\ ordinal # 0 /\ TradingFor(setup, ordinal, trading)
      /\ setup \in Setups
  BY <1>1, CausalOnEvent DEF BalanceInv, CausalInv, AtEvent, StateOK
<1>3. Submitted(SubmitAll(intents)) /\ DOMAIN sims = DOMAIN setup.models /\ StateOK(setup, ordinal, ss)
  BY <1>2, StateSubmitted
<1>4. ordinal \in 1..Len(setup.tape) /\ i \in DOMAIN setup.models /\ Event = setup.tape[ordinal]
  <2>1. ordinal \in 0..Len(setup.tape) /\ Len(setup.tape) \in Nat
    BY <1>2, TapeFacts DEF StateOK
  <2>2. ordinal \in 1..Len(setup.tape)
    BY <1>2, <2>1
  <2> QED BY <1>2, <2>2, TapeFacts DEF Event, Tape
<1>5. ASSUME NEW j \in DOMAIN setup.models
      PROVE  /\ BookOK(setup, ss[j], j) /\ ss[j].fills = sims[j].fills /\ NoFillAt(sims[j], ordinal)
             /\ ledger[j] = sims[j].fills /\ IsSim(ss[j]) /\ SimIn(setup, ss[j], j, ordinal)
             /\ IsSeq(sims[j].fills) /\ Prolongs(sims[j].fills, sims[j].fills)
  <2>1. Placed(sims[j], ss[j], j)
    BY <1>3 DEF Submitted
  <2>2. /\ BookOK(setup, sims[j], j) /\ IsSim(sims[j]) /\ NoFillAt(sims[j], ordinal)
        /\ ledger[j] = sims[j].fills
    BY <1>1, <1>2 DEF BalanceInv, AccountOK, LedgerOK, StateOK, SimIn
  <2>3. BookOK(setup, ss[j], j) /\ ss[j].fills = sims[j].fills
    BY <2>1, <2>2, BookPlaced
  <2>4. IsSim(ss[j]) /\ SimIn(setup, ss[j], j, ordinal)
    BY <1>3 DEF StateOK, SimIn
  <2> QED BY <2>2, <2>3, <2>4, SimFacts, LedgerSame
<1> HIDE DEF ss
<1>6. BookOK(setup, t, i) /\ Prolongs(sims[i].fills, t.fills) /\ IsSim(t)
  <2>1. NoFillAt(ss[i], ordinal)
    BY <1>4, <1>5 DEF NoFillAt
  <2>2. BookOK(setup, t, i) /\ Prolongs(ss[i].fills, t.fills) /\ IsSim(t)
    BY <1>2, <1>4, <1>5, <2>1, BookEvaluated
  <2> HIDE DEF t
  <2> QED BY <1>4, <1>5, <2>2
<1>7. /\ sims[i].fills \o fresh = t.fills
      /\ \A n \in 1..Len(fresh) : /\ IsSeq(sims[i].fills \o SubSeq(fresh, 1, n - 1))
                                  /\ Prolongs(sims[i].fills \o SubSeq(fresh, 1, n - 1), t.fills)
  <2>1. IsSeq(sims[i].fills)
    BY <1>4, <1>5
  <2> HIDE DEF t, i
  <2> QED BY <1>6, <2>1, PrefixFacts
<1>8. Len(fresh) \in Nat
  <2>1. PICK T : t.fills \in Seq(T)
    BY <1>6, SimFacts DEF IsSeq
  <2>2. Len(sims[i].fills) \in Nat /\ Len(sims[i].fills) <= Len(t.fills)
    BY <1>4, <1>5, <1>6, SeqFacts DEF Prolongs
  <2> HIDE DEF t, i
  <2> QED BY <2>1, <2>2
<1> HIDE DEF t, fresh, i
<1>9. /\ sims'[i] = t /\ \A j \in DOMAIN setup.models : j # i => sims'[j] = ss[j]
  BY <1>1, <1>3, <1>4 DEF StateOK
<1>10. DOMAIN ledger = DOMAIN setup.models /\ ledger[i] = sims[i].fills
  BY <1>4, <1>5 DEF BalanceInv
<1>11. ASSUME NEW j \in DOMAIN setup.models, j # i
       PROVE  BookOK(setup, sims'[j], j) /\ sims'[j].fills = sims[j].fills /\ ledger'[j] = ledger[j]
  BY <1>1, <1>5, <1>9, <1>10, <1>11
<1>12. ASSUME NEW j \in DOMAIN setup.models, j # i
       PROVE  AccountOK(setup, ledger'[j], sims'[j], j, pc', ordinal')
  <2>1. LedgerOK(ledger'[j], sims'[j], pc' = "failed")
    BY <1>5, <1>11, <1>12 DEF LedgerOK
  <2> QED BY <1>1, <1>11, <1>12, <2>1 DEF AccountOK
<1>13. LedgerOK(ledger'[i], t, pc' = "failed")
  <2>1. CASE pc' = "failed" /\ ledger' = ledger
    BY <1>4, <1>5, <1>6, <1>10, <2>1 DEF LedgerOK
  <2>2. CASE /\ refusedAt > 0 /\ pc' = "failed"
             /\ ledger' = [ledger EXCEPT ![i] = @ \o SubSeq(fresh, 1, refusedAt - 1)]
    <3>1. ledger'[i] = sims[i].fills \o SubSeq(fresh, 1, refusedAt - 1)
      BY <1>4, <1>10, <2>2
    <3>2. refusedAt \in 1..Len(fresh)
      BY <1>1, <1>8, <2>2
    <3> QED BY <1>7, <2>2, <3>1, <3>2 DEF LedgerOK
  <2>3. CASE pc' \in {"next", "feedback"} /\ ledger' = [ledger EXCEPT ![i] = @ \o fresh]
    <3>1. ledger'[i] = t.fills
      BY <1>4, <1>7, <1>10, <2>3
    <3>2. IsSeq(t.fills) /\ Prolongs(t.fills, t.fills)
      BY <1>6, SimFacts, LedgerSame
    <3> QED BY <3>1, <3>2 DEF LedgerOK
  <2> QED BY <1>1, <2>1, <2>2, <2>3
<1>14. AccountOK(setup, ledger'[i], sims'[i], i, pc', ordinal')
  BY <1>1, <1>6, <1>9, <1>13 DEF AccountOK
<1>15. ledger' = [j \in DOMAIN setup.models |-> ledger'[j]]
  <2>1. ledger = [j \in DOMAIN setup.models |-> ledger[j]]
    BY DEF BalanceInv
  <2> QED BY <1>1, <2>1
<1> QED BY <1>1, <1>2, <1>12, <1>14, <1>15 DEF BalanceInv

LEMMA BalanceIdles ==
    ASSUME BalanceInv, Idles PROVE BalanceInv'
<1>1. CausalInv'
  BY IdleFacts DEF BalanceInv, CausalInv
<1>2. pc # "failed"
  BY DEF Idles, Start, StrategyFails, EndOfTape, SegmentsClosed, TakeMarks, Finish, TellClosing
<1>3. \A i \in DOMAIN setup.models : BookOK(setup, sims'[i], i) /\ sims'[i].fills = sims[i].fills
  BY IdleFacts DEF BalanceInv, AccountOK
<1> QED BY <1>1, <1>2, <1>3, IdleFacts, BalanceKept DEF AtEvent

LEMMA BalanceNext ==
    ASSUME BalanceInv, [Next]_vars PROVE BalanceInv'
<1>1. CASE UNCHANGED vars
  <2>1. CausalInv'
    BY <1>1 DEF vars, CausalInv, BalanceInv
  <2> QED BY <1>1, <2>1 DEF vars, BalanceInv
<1>2. CASE Idles
  BY <1>2, BalanceIdles
<1>3. CASE BeginEvent
  BY <1>3, BalanceBegin
<1>4. CASE CloseSegment \/ CloseRun
  BY <1>4, BalanceClose
<1>5. CASE \E intents \in Outputs : BoundaryFeedback(intents) \/ OnFeedback(intents)
  BY <1>5, BalanceSubmit
<1>6. ASSUME NEW intents \in Outputs, NEW refusedAt \in 0..MaxOrders, OnEvent(intents, refusedAt)
      PROVE  BalanceInv'
  <2>1. refusedAt \in Int
    BY InputsAssumption
  <2> QED BY <1>6, <2>1, BalanceOnEvent
<1> QED BY <1>1, <1>2, <1>3, <1>4, <1>5, <1>6, NextCases

LEMMA BalanceSettled == BalanceInv => FillsSettledOnce
<1> SUFFICES ASSUME BalanceInv, NEW i \in Universe
             PROVE  /\ IsPrefix(ledger[i], sims[i].fills)
                    /\ pc # "failed" => ledger[i] = sims[i].fills
                    /\ Total([n \in DOMAIN sims[i].orders |-> sims[i].orders[n].filled])
                         = Total([n \in DOMAIN sims[i].fills |-> sims[i].fills[n].quantity])
  BY DEF FillsSettledOnce
<1>1. LedgerOK(ledger[i], sims[i], pc = "failed") /\ Balanced(sims[i])
  BY DEF BalanceInv, AccountOK, BookOK, Universe
<1>2. IsPrefix(ledger[i], sims[i].fills)
  BY <1>1, PrefixFacts DEF LedgerOK
<1> QED BY <1>1, <1>2 DEF LedgerOK, Balanced, SumFilled, SumQuantity

LEMMA BalanceSold == BalanceInv => EvidenceSoldOnce
<1> SUFFICES ASSUME BalanceInv, NEW i \in Universe, NEW f \in Range(sims[i].fills),
                    setup.models[i].quantity = "Displayed"
             PROVE  Taken(sims[i].fills, f.ordinal, f.side)
                      <= Evidence(Tape[f.ordinal], setup.models[i], f.side)[1].quantity
  BY DEF EvidenceSoldOnce
<1>1. SimIn(setup, sims[i], i, ordinal) /\ BookOK(setup, sims[i], i) /\ setup \in Setups
      /\ ordinal \in 0..Len(setup.tape)
  BY DEF BalanceInv, AccountOK, CausalInv, StateOK, Universe
<1>2. DOMAIN sims[i].fills = 1..Len(sims[i].fills)
  BY <1>1, SimFacts DEF SimIn
<1>3. PICK n \in 1..Len(sims[i].fills) : f = sims[i].fills[n]
  BY <1>2 DEF Range
<1>4. f.ordinal \in 1..ordinal /\ CausalIn(setup, f, sims[i].orders, i) /\ f.side \in Sides
  BY <1>1, <1>3 DEF SimIn, BookOK
<1> DEFINE l == Evidence(Tape[f.ordinal], setup.models[i], f.side)
<1>5. l # <<>>
  <2>1. \E x : x \in Range(l)
    BY <1>4 DEF CausalIn, Tape
  <2> HIDE DEF l
  <2> QED BY <2>1 DEF Range
<1>6. f.ordinal \in 1..Len(setup.tape)
  <2>1. Len(setup.tape) \in Nat
    BY <1>1, TapeFacts
  <2> QED BY <1>1, <1>4, <2>1
<1>7. Taken(sims[i].fills, f.ordinal, f.side) <= LeftQuantity(l)
  BY <1>1, <1>4, <1>6 DEF BookOK, SoldIn, Tape
<1> HIDE DEF l
<1> QED BY <1>5, <1>7 DEF LeftQuantity, l

\* Every fill of a simulator is in the ledger once and in order unless the run
\* failed, and what the orders were filled is what the fills say
\* (FillsSettledOnce), however many orders, events and intents there are.
THEOREM EveryFillIsSettled == Spec => []FillsSettledOnce
BY BalanceInit, BalanceNext, BalanceSettled, PTL DEF Spec

\* With displayed quantities, the fills that one event gives to one side take no
\* more than it showed (EvidenceSoldOnce), however many orders compete for it.
THEOREM EvidenceIsNotOversold == Spec => []EvidenceSoldOnce
BY BalanceInit, BalanceNext, BalanceSold, PTL DEF Spec

-----------------------------------------------------------------------------
(* The strategy hears of everything.                                       *)

\* What has been told and what is to be told add up to the orders of x.
Heard(before, after, orders, x) ==
    /\ QuantityTold(before, x) + QuantityTold(after, x) = QuantityFilled(orders, x)
    /\ \A type \in Ends :
         TimesTold(before, type, x) + TimesTold(after, type, x) = TimesEnded(orders, type, x)
\* The same for every identity of every instrument.
AllHeard(st, before, after, ss) ==
    \A i \in DOMAIN st.models : \A x : x[3].instrument = i => Heard(before, after, ss[i].orders, x)
\* Two pieces of news that say the same of fills and ends.
SaysSame(p, q) ==
    \A x : /\ QuantityTold(p, x) = QuantityTold(q, x)
           /\ \A type \in Ends : TimesTold(p, type, x) = TimesTold(q, type, x)

LEMMA EmptyTells ==
    /\ News(<<>>)
    /\ \A x : QuantityTold(<<>>, x) = 0 /\ \A type \in Ends : TimesTold(<<>>, type, x) = 0
<1>1. Answers(<<>>)
  BY TupleFacts DEF Answers
<1> QED BY <1>1, AnswersTell

LEMMA AnswersFirst ==
    ASSUME NEW a, NEW p, Answers(a), News(p)
    PROVE  News(a \o p) /\ SaysSame(a \o p, p)
<1>1. ASSUME NEW x
      PROVE  /\ News(a \o p) /\ QuantityTold(a \o p, x) = QuantityTold(p, x)
             /\ \A type \in Ends : TimesTold(a \o p, type, x) = TimesTold(p, type, x)
  <2>1. News(a) /\ QuantityTold(a, x) = 0 /\ \A type \in Ends : TimesTold(a, type, x) = 0
    BY AnswersTell
  <2>2. QuantityTold(p, x) \in Int /\ \A type \in Ends : TimesTold(p, type, x) \in Int
    BY NewsSums
  <2>3. /\ News(a \o p) /\ QuantityTold(a \o p, x) = QuantityTold(a, x) + QuantityTold(p, x)
        /\ \A type \in Ends :
             TimesTold(a \o p, type, x) = TimesTold(a, type, x) + TimesTold(p, type, x)
    BY <2>1, NewsConcat
  <2> QED BY <2>1, <2>2, <2>3
<1> QED BY <1>1 DEF SaysSame

\* Giving the pending news.
LEMMA HeardGiven ==
    ASSUME NEW before, NEW after, NEW orders, NEW x, News(before), News(after),
           Heard(before, after, orders, x)
    PROVE  Heard(before \o after, <<>>, orders, x)
<1>1. /\ QuantityTold(before \o after, x) = QuantityTold(before, x) + QuantityTold(after, x)
      /\ \A type \in Ends : TimesTold(before \o after, type, x)
                              = TimesTold(before, type, x) + TimesTold(after, type, x)
  BY NewsConcat
<1>2. /\ QuantityTold(before, x) \in Int /\ QuantityTold(after, x) \in Int
      /\ \A type \in Ends : TimesTold(before, type, x) \in Int /\ TimesTold(after, type, x) \in Int
  BY NewsSums
<1>3. QuantityTold(<<>>, x) = 0 /\ \A type \in Ends : TimesTold(<<>>, type, x) = 0
  BY EmptyTells
<1> QED BY <1>1, <1>2, <1>3 DEF Heard

\* One simulator goes from s to t and p says so.
LEMMA HeardStep ==
    ASSUME NEW before, NEW p, NEW news, NEW s, NEW t, NEW x, News(before),
           Heard(before, <<>>, s, x), Reported(s, t, news), SaysSame(p, news),
           IsSeq(s), FillsCount(s)
    PROVE  Heard(before, p, t, x)
<1>1. /\ QuantityTold(p, x) = QuantityTold(news, x)
      /\ \A type \in Ends : TimesTold(p, type, x) = TimesTold(news, type, x)
  BY DEF SaysSame
<1>2. /\ News(news) /\ QuantityTold(news, x) + QuantityFilled(s, x) = QuantityFilled(t, x)
      /\ \A type \in Ends :
           TimesTold(news, type, x) + TimesEnded(s, type, x) = TimesEnded(t, type, x)
  BY DEF Reported
<1>3. QuantityTold(<<>>, x) = 0 /\ \A type \in Ends : TimesTold(<<>>, type, x) = 0
  BY EmptyTells
<1>4. /\ QuantityTold(before, x) \in Int /\ QuantityTold(news, x) \in Int
      /\ \A type \in Ends : TimesTold(before, type, x) \in Int /\ TimesTold(news, type, x) \in Int
  BY <1>2, NewsSums
<1>5. /\ QuantityTold(before, x) + 0 = QuantityFilled(s, x)
      /\ \A type \in Ends : TimesTold(before, type, x) + 0 = TimesEnded(s, type, x)
  BY <1>3 DEF Heard
<1>6. QuantityTold(before, x) + QuantityTold(p, x) = QuantityFilled(t, x)
  BY <1>1, <1>2, <1>4, <1>5
<1>7. ASSUME NEW type \in Ends
      PROVE  TimesTold(before, type, x) + TimesTold(p, type, x) = TimesEnded(t, type, x)
  BY <1>1, <1>2, <1>4, <1>5
<1> QED BY <1>6, <1>7 DEF Heard

\* The identities of another instrument are not spoken of.
LEMMA HeardElsewhere ==
    ASSUME NEW before, NEW p, NEW news, NEW s, NEW t, NEW u, NEW x, News(before),
           Heard(before, <<>>, u, x), Reported(s, t, news), SaysSame(p, news), IsSeq(s), IsSeq(t),
           \A n \in 1..Len(s) : s[n].id # x, \A n \in 1..Len(t) : t[n].id # x
    PROVE  Heard(before, p, u, x)
<1>1. /\ QuantityTold(p, x) = QuantityTold(news, x)
      /\ \A type \in Ends : TimesTold(p, type, x) = TimesTold(news, type, x)
  BY DEF SaysSame
<1>2. /\ News(news) /\ QuantityTold(news, x) + QuantityFilled(s, x) = QuantityFilled(t, x)
      /\ \A type \in Ends :
           TimesTold(news, type, x) + TimesEnded(s, type, x) = TimesEnded(t, type, x)
  BY DEF Reported
<1>3. /\ QuantityFilled(s, x) = 0 /\ QuantityFilled(t, x) = 0
      /\ \A type \in Ends : TimesEnded(s, type, x) = 0 /\ TimesEnded(t, type, x) = 0
  BY NothingFilled
<1>4. QuantityTold(<<>>, x) = 0 /\ \A type \in Ends : TimesTold(<<>>, type, x) = 0
  BY EmptyTells
<1>5. QuantityTold(news, x) \in Int /\ \A type \in Ends : TimesTold(news, type, x) \in Int
  BY <1>2, NewsSums
<1>6. QuantityTold(p, x) = 0
  BY <1>1, <1>2, <1>3, <1>5
<1>7. \A type \in Ends : TimesTold(p, type, x) = 0
  BY <1>1, <1>2, <1>3, <1>5
<1> QED BY <1>4, <1>6, <1>7 DEF Heard

\* The same for all instruments, when that of i changes.
LEMMA AllHeardStep ==
    ASSUME NEW st, NEW before, NEW p, NEW news, NEW ss, NEW i, NEW b, NEW k, News(before),
           AllHeard(st, before, <<>>, ss), DOMAIN ss = DOMAIN st.models, i \in DOMAIN st.models,
           SimIn(st, ss[i], i, k), SimIn(st, b, i, k), FillsCount(ss[i].orders),
           Reported(ss[i].orders, b.orders, news), SaysSame(p, news)
    PROVE  AllHeard(st, before, p, [ss EXCEPT ![i] = b])
<1> DEFINE u == [ss EXCEPT ![i] = b]
<1> SUFFICES ASSUME NEW j \in DOMAIN st.models, NEW x, x[3].instrument = j
             PROVE  Heard(before, p, u[j].orders, x)
  BY DEF AllHeard
<1>1. u[i] = b /\ \A l \in DOMAIN st.models : l # i => u[l] = ss[l]
  OBVIOUS
<1> HIDE DEF u
<1>2. Heard(before, <<>>, ss[j].orders, x)
  BY DEF AllHeard
<1>3. IsSeq(ss[i].orders) /\ IsSeq(b.orders)
  BY SimFacts DEF SimIn
<1>4. CASE j = i
  BY <1>1, <1>2, <1>3, <1>4, HeardStep
<1>5. CASE j # i
  <2>1. \A n \in 1..Len(ss[i].orders) : ss[i].orders[n].id # x
    BY <1>5 DEF SimIn, OrderIn
  <2>2. \A n \in 1..Len(b.orders) : b.orders[n].id # x
    BY <1>5 DEF SimIn, OrderIn
  <2>3. Heard(before, p, ss[j].orders, x)
    BY <1>2, <1>3, <2>1, <2>2, HeardElsewhere
  <2> QED BY <1>1, <1>5, <2>3
<1> QED BY <1>4, <1>5

\* New orders are nothing to hear of.
LEMMA AllHeardPlaced ==
    ASSUME NEW before, NEW after, NEW tt, AllHeard(setup, before, after, sims),
           \A i \in DOMAIN setup.models :
             IsSim(sims[i]) /\ BookOK(setup, sims[i], i) /\ Placed(sims[i], tt[i], i)
    PROVE  AllHeard(setup, before, after, tt)
<1> SUFFICES ASSUME NEW i \in DOMAIN setup.models, NEW x, x[3].instrument = i
             PROVE  Heard(before, after, tt[i].orders, x)
  BY DEF AllHeard
<1>1. Heard(before, after, sims[i].orders, x)
  BY DEF AllHeard
<1>2. /\ QuantityFilled(tt[i].orders, x) = QuantityFilled(sims[i].orders, x)
      /\ \A type \in Ends : TimesEnded(tt[i].orders, type, x) = TimesEnded(sims[i].orders, type, x)
  <2>1. IsSim(sims[i]) /\ BookOK(setup, sims[i], i) /\ Placed(sims[i], tt[i], i)
    OBVIOUS
  <2> QED BY <2>1, BookPlaced
<1> QED BY <1>1, <1>2 DEF Heard

LEMMA AllHeardGiven ==
    ASSUME NEW st, NEW before, NEW after, NEW ss, News(before), News(after),
           AllHeard(st, before, after, ss)
    PROVE  AllHeard(st, before \o after, <<>>, ss) /\ News(before \o after)
<1>1. News(before \o after)
  BY NewsConcat
<1>2. ASSUME NEW i \in DOMAIN st.models, NEW x, x[3].instrument = i
      PROVE  Heard(before \o after, <<>>, ss[i].orders, x)
  <2>1. Heard(before, after, ss[i].orders, x)
    BY <1>2 DEF AllHeard
  <2> QED BY <2>1, HeardGiven
<1> QED BY <1>1, <1>2 DEF AllHeard

LEMMA FirstIn ==
    ASSUME NEW S \in SUBSET Nat, S # {}
    PROVE  First(S) \in S
<1>1. \E i \in S : \A j \in S : i <= j
  BY LeastMember
<1> QED BY <1>1 DEF First

\* Between its callbacks the strategy has been told everything; in the course of
\* an event or of an end what it has not been told is pending.
Quiet == {"start", "next", "event", "close", "end", "finalize", "done"}
Hearing(st, at, before, after, ss) ==
    /\ News(before) /\ News(after) /\ (at \in Quiet => after = <<>>)
    /\ at # "failed" => AllHeard(st, before, after, ss)
ToldInv ==
    /\ BalanceInv
    /\ closing \subseteq DOMAIN setup.models /\ DOMAIN current \subseteq DOMAIN setup.models
    /\ Hearing(setup, pc, told, pending, sims)

LEMMA ToldInit == Init => ToldInv
<1> SUFFICES ASSUME Init PROVE ToldInv
  OBVIOUS
<1>1. /\ pc = "start" /\ sims = [i \in DOMAIN setup.models |-> Empty] /\ told = <<>>
      /\ pending = <<>> /\ closing = {} /\ current = <<>>
  BY DEF Init
<1>2. DOMAIN current = {}
  BY <1>1
<1>3. AllHeard(setup, told, pending, sims)
  <2> SUFFICES ASSUME NEW i \in DOMAIN setup.models, NEW x
               PROVE  Heard(<<>>, <<>>, sims[i].orders, x)
    BY <1>1 DEF AllHeard
  <2>1. sims[i].orders = <<>>
    BY <1>1 DEF Empty
  <2>2. IsSeq(<<>>) /\ Len(<<>>) = 0
    BY TupleFacts
  <2>3. \A n \in 1..Len(<<>>) : <<>>[n].id # x
    BY <2>2
  <2>4. QuantityFilled(<<>>, x) = 0 /\ \A type \in Ends : TimesEnded(<<>>, type, x) = 0
    BY <2>2, <2>3, NothingFilled
  <2>5. QuantityTold(<<>>, x) = 0 /\ \A type \in Ends : TimesTold(<<>>, type, x) = 0
    BY EmptyTells
  <2> QED BY <2>1, <2>4, <2>5 DEF Heard
<1> QED BY <1>1, <1>2, <1>3, BalanceInit, EmptyTells DEF ToldInv, Hearing

\* The instruments are numbers: the least of those to close is one of them.
LEMMA ClosingNext ==
    ASSUME ToldInv, closing # {} PROVE First(closing) \in DOMAIN setup.models
<1>1. setup \in Setups
  BY DEF ToldInv, BalanceInv, CausalInv, StateOK
<1>2. closing \in SUBSET Nat
  BY <1>1, InputsAssumption DEF ToldInv
<1>3. First(closing) \in closing
  BY <1>2, FirstIn
<1> QED BY <1>3 DEF ToldInv

\* Cancelling orders of instrument i says what it did.
LEMMA ToldCancelled ==
    ASSUME ToldInv, pc \in Quiet, NEW i \in DOMAIN setup.models, NEW ending,
           ending \subseteq DOMAIN sims[i].orders
    PROVE  LET step == Cancel(sims[i], ending)
           IN  News(step.feedback)
               /\ AllHeard(setup, told, step.feedback, [sims EXCEPT ![i] = step.sim])
<1> DEFINE news == Cancel(sims[i], ending).feedback
           b == Cancel(sims[i], ending).sim
<1>1. /\ BookOK(setup, sims[i], i) /\ SimIn(setup, sims[i], i, ordinal) /\ IsSim(sims[i])
      /\ FillsCount(sims[i].orders)
  BY DEF ToldInv, BalanceInv, AccountOK, CausalInv, StateOK, SimIn, BookOK, Balanced
<1>2. DOMAIN sims = DOMAIN setup.models
  BY DEF ToldInv, BalanceInv, CausalInv, StateOK
<1>3. Reported(sims[i].orders, b.orders, news)
  BY <1>1, BookCancelled
<1>4. IsSim(b) /\ b.fills = sims[i].fills /\ Evolved(sims[i].orders, b.orders)
  BY <1>1, CancelFacts
<1>5. News(told) /\ AllHeard(setup, told, <<>>, sims)
  <2>1. pc # "failed" /\ pending = <<>>
    BY DEF ToldInv, Hearing, Quiet
  <2> QED BY <2>1 DEF ToldInv, Hearing
<1> HIDE DEF news, b
<1>6. SimIn(setup, b, i, ordinal)
  BY <1>1, <1>4, SimEvolves
<1>7. News(news) /\ SaysSame(news, news)
  BY <1>3 DEF Reported, SaysSame
<1>8. AllHeard(setup, told, news, [sims EXCEPT ![i] = b])
  BY <1>1, <1>2, <1>3, <1>5, <1>6, <1>7, AllHeardStep
<1> QED BY <1>7, <1>8 DEF news, b

LEMMA ToldBegin ==
    ASSUME ToldInv, BeginEvent PROVE ToldInv'
<1> DEFINE e == Tape[ordinal + 1]
           segments == SegmentsFor(setup.schedule[e.instrument], e.time)
           g == segments[1]
           p == Propose(StateFor(e), e, ReducerContext(g))
           context == Evaluate(e, p.next.version, p.next, g)
           i == e.instrument
           ended == EndedSegment(i, g)
           x == CHOOSE s \in ended : TRUE
           ending == {n \in DOMAIN sims[i].orders : sims[i].orders[n].segment = x}
           step == Cancel(sims[i], ending)
<1>0. /\ pc = "next" /\ setup' = setup /\ told' = told /\ closing' = closing /\ BalanceInv'
      /\ BalanceInv /\ ordinal < Len(Tape)
  BY BalanceBegin DEF BeginEvent, ToldInv
<1>1. \/ pc' = "failed" /\ sims' = sims /\ current' = current /\ pending' = pending
      \/ /\ pc' = (IF pending' = <<>> THEN "event" ELSE "boundary")
         /\ current' = Insert(current, i, g.id)
         /\ sims' = IF ended = {} THEN sims ELSE [sims EXCEPT ![i] = step.sim]
         /\ pending' = IF ended = {} THEN <<>> ELSE step.feedback
  <2> HIDE DEF p, g, segments, context, ended
  <2> QED BY DEF BeginEvent, Fail, p, g, segments, context, ended, CancelSegmentEnd
<1>2. i \in DOMAIN setup.models
  <2>1. setup \in Setups /\ ordinal \in 0..Len(setup.tape)
    BY <1>0 DEF BalanceInv, CausalInv, StateOK
  <2>2. ordinal + 1 \in 1..Len(setup.tape)
    BY <1>0, <2>1, TapeFacts DEF Tape
  <2> QED BY <2>1, <2>2, TapeFacts DEF Tape
<1>3. /\ News(told) /\ News(pending) /\ pending = <<>> /\ AllHeard(setup, told, <<>>, sims)
      /\ closing \subseteq DOMAIN setup.models /\ DOMAIN current \subseteq DOMAIN setup.models
  <2>1. pending = <<>> /\ pc # "failed"
    BY <1>0 DEF ToldInv, Hearing, Quiet
  <2> QED BY <2>1 DEF ToldInv, Hearing
<1>4. News(step.feedback) /\ AllHeard(setup, told, step.feedback, [sims EXCEPT ![i] = step.sim])
  <2>1. ending \subseteq DOMAIN sims[i].orders /\ pc \in Quiet
    BY <1>0 DEF Quiet
  <2> HIDE DEF ending, i
  <2> QED BY <1>2, <2>1, ToldCancelled
<1> HIDE DEF g, i, ended, step
<1>5. CASE pc' = "failed" /\ sims' = sims /\ current' = current /\ pending' = pending
  BY <1>0, <1>3, <1>5 DEF ToldInv, Hearing
<1>6. CASE /\ pc' = (IF pending' = <<>> THEN "event" ELSE "boundary")
           /\ current' = Insert(current, i, g.id)
           /\ sims' = IF ended = {} THEN sims ELSE [sims EXCEPT ![i] = step.sim]
           /\ pending' = IF ended = {} THEN <<>> ELSE step.feedback
  <2>1. DOMAIN current' \subseteq DOMAIN setup.models
    BY <1>2, <1>3, <1>6 DEF Insert
  <2>2. News(pending') /\ AllHeard(setup, told, pending', sims')
    <3>1. CASE ended = {}
      BY <1>3, <1>6, <3>1, EmptyTells
    <3>2. CASE ended # {}
      BY <1>4, <1>6, <3>2
    <3> QED BY <3>1, <3>2
  <2>3. pc' \in Quiet => pending' = <<>>
    BY <1>6 DEF Quiet
  <2> QED BY <1>0, <1>3, <2>1, <2>2, <2>3 DEF ToldInv, Hearing
<1> QED BY <1>1, <1>5, <1>6

\* What is pending is given, and new orders are placed.
LEMMA ToldSubmit ==
    ASSUME ToldInv, NEW intents \in Outputs, BoundaryFeedback(intents) \/ OnFeedback(intents)
    PROVE  ToldInv'
<1>1. /\ pc \in AtEvent /\ setup' = setup /\ sims' = SubmitAll(intents).sims /\ pc # "failed"
      /\ told' = told \o pending /\ pending' = <<>> /\ closing' = closing /\ current' = current
  BY DEF BoundaryFeedback, OnFeedback, AtEvent
<1>2. BalanceInv' /\ StateOK(setup, ordinal, sims) /\ ordinal # 0
  BY <1>1, BalanceSubmit DEF ToldInv, BalanceInv, CausalInv
<1>3. Submitted(SubmitAll(intents)) /\ DOMAIN sims = DOMAIN setup.models
  BY <1>2, StateSubmitted
<1>4. \A i \in DOMAIN setup.models :
        IsSim(sims[i]) /\ BookOK(setup, sims[i], i) /\ Placed(sims[i], sims'[i], i)
  BY <1>1, <1>2, <1>3 DEF Submitted, ToldInv, BalanceInv, AccountOK, StateOK, SimIn
<1>5. News(told) /\ News(pending) /\ AllHeard(setup, told, pending, sims)
  BY <1>1 DEF ToldInv, Hearing
<1>6. AllHeard(setup, told, pending, sims')
  BY <1>4, <1>5, AllHeardPlaced
<1>7. AllHeard(setup, told', <<>>, sims') /\ News(told')
  BY <1>1, <1>5, <1>6, AllHeardGiven
<1> QED BY <1>1, <1>2, <1>7, EmptyTells DEF ToldInv, Hearing

LEMMA ToldOnEvent ==
    ASSUME ToldInv, NEW intents \in Outputs, NEW refusedAt \in Int, OnEvent(intents, refusedAt)
    PROVE  ToldInv'
<1> DEFINE i == Event.instrument
           ss == SubmitAll(intents).sims
           answers == SubmitAll(intents).feedback
           r == EvaluateEvent(ss[i], setup.models[i], Event, ordinal, trading)
<1>1. /\ pc = "event" /\ setup' = setup /\ ordinal' = ordinal /\ sims' = [ss EXCEPT ![i] = r.sim]
      /\ told' = told /\ closing' = closing /\ current' = current
      /\ \/ pc' = "failed" /\ pending' = pending
         \/ /\ pending' = answers \o r.feedback
            /\ pc' = IF pending' = <<>> THEN "next" ELSE "feedback"
  <2> HIDE DEF r, ss, i, answers
  <2> QED BY DEF OnEvent, Fail, r, ss, i, answers
<1>2. /\ BalanceInv' /\ BalanceInv /\ StateOK(setup, ordinal, sims) /\ ordinal # 0
      /\ setup \in Setups
  BY <1>1, BalanceOnEvent DEF ToldInv, BalanceInv, CausalInv, AtEvent, StateOK
<1>3. /\ News(told) /\ News(pending) /\ pending = <<>> /\ AllHeard(setup, told, <<>>, sims)
      /\ closing \subseteq DOMAIN setup.models /\ DOMAIN current \subseteq DOMAIN setup.models
  <2>1. pending = <<>> /\ pc # "failed"
    BY <1>1 DEF ToldInv, Hearing, Quiet
  <2> QED BY <2>1 DEF ToldInv, Hearing
<1>4. Submitted(SubmitAll(intents)) /\ DOMAIN sims = DOMAIN setup.models /\ StateOK(setup, ordinal, ss)
  BY <1>2, StateSubmitted
<1>5. ordinal \in 1..Len(setup.tape) /\ i \in DOMAIN setup.models /\ Event = setup.tape[ordinal]
  <2>1. ordinal \in 0..Len(setup.tape) /\ Len(setup.tape) \in Nat
    BY <1>2, TapeFacts DEF StateOK
  <2>2. ordinal \in 1..Len(setup.tape)
    BY <1>2, <2>1
  <2> QED BY <1>2, <2>2, TapeFacts DEF Event, Tape
<1>6. \A j \in DOMAIN setup.models :
        IsSim(sims[j]) /\ BookOK(setup, sims[j], j) /\ Placed(sims[j], ss[j], j)
  BY <1>2, <1>4 DEF Submitted, BalanceInv, AccountOK, StateOK, SimIn
<1>7. Answers(answers)
  BY <1>4 DEF Submitted
<1> HIDE DEF ss, answers
<1>8. AllHeard(setup, told, <<>>, ss)
  BY <1>3, <1>6, AllHeardPlaced
<1>9. SimIn(setup, ss[i], i, ordinal) /\ DOMAIN ss = DOMAIN setup.models
  BY <1>4, <1>5 DEF StateOK
<1>10. BookOK(setup, ss[i], i) /\ NoFillAt(ss[i], ordinal) /\ FillsCount(ss[i].orders)
  <2>1. IsSim(sims[i]) /\ BookOK(setup, sims[i], i) /\ Placed(sims[i], ss[i], i)
    BY <1>5, <1>6
  <2>2. BookOK(setup, ss[i], i) /\ ss[i].fills = sims[i].fills
    BY <2>1, BookPlaced
  <2>3. NoFillAt(sims[i], ordinal)
    BY <1>1, <1>2, <1>5 DEF BalanceInv, AccountOK
  <2> QED BY <2>2, <2>3 DEF NoFillAt, BookOK, Balanced
<1>11. Reported(ss[i].orders, r.sim.orders, r.feedback)
  BY <1>2, <1>5, <1>9, <1>10, BookEvaluated
<1>12. SimIn(setup, r.sim, i, ordinal)
  <2>1. r.sim = sims'[i]
    <3> HIDE DEF r, i
    <3> QED BY <1>1, <1>5, <1>9
  <2>2. SimIn(setup', sims'[i], i, ordinal')
    <3> HIDE DEF r, i
    <3>1. i \in DOMAIN setup'.models
      BY <1>1, <1>5
    <3> QED BY <1>2, <3>1 DEF BalanceInv, CausalInv, StateOK
  <2> HIDE DEF r, i
  <2> QED BY <1>1, <2>1, <2>2
<1> HIDE DEF r, i
<1>13. News(r.feedback)
  BY <1>11 DEF Reported
<1>14. News(answers \o r.feedback) /\ SaysSame(answers \o r.feedback, r.feedback)
  BY <1>7, <1>13, AnswersFirst
<1>15. AllHeard(setup, told, answers \o r.feedback, [ss EXCEPT ![i] = r.sim])
  BY <1>3, <1>5, <1>8, <1>9, <1>10, <1>11, <1>12, <1>14, AllHeardStep
<1>16. Hearing(setup', pc', told', pending', sims')
  <2>1. CASE pc' = "failed" /\ pending' = pending
    BY <1>1, <1>3, <2>1 DEF Hearing
  <2>2. CASE /\ pending' = answers \o r.feedback
             /\ pc' = IF pending' = <<>> THEN "next" ELSE "feedback"
    BY <1>1, <1>3, <1>14, <1>15, <2>2 DEF Hearing, Quiet
  <2> QED BY <1>1, <2>1, <2>2
<1> QED BY <1>1, <1>2, <1>3, <1>16 DEF ToldInv

\* One instrument of either loop at the end.
LEMMA ToldClose ==
    ASSUME ToldInv, CloseSegment \/ CloseRun PROVE ToldInv'
<1> DEFINE i == First(closing)
<1>0. BalanceInv' /\ i \in DOMAIN setup.models
  BY BalanceClose, ClosingNext DEF ToldInv, CloseSegment, CloseRun
<1>1. PICK ending :
        /\ ending \subseteq DOMAIN sims[i].orders /\ pc \in Quiet
        /\ sims' = [sims EXCEPT ![i] = Cancel(sims[i], ending).sim]
        /\ setup' = setup /\ told' = told /\ current' = current
        /\ \/ /\ Cancel(sims[i], ending).feedback = <<>> /\ closing' = closing \ {i}
              /\ pending' = pending /\ pc' \in Quiet
           \/ pc' = "failed" /\ closing' = closing /\ pending' = pending
           \/ /\ pending' = Cancel(sims[i], ending).feedback /\ closing' = closing
              /\ pc' \in {"tellClose", "tellEnd"}
  <2> DEFINE a == {n \in DOMAIN sims[i].orders : sims[i].orders[n].segment = current[i]}
  <2>1. CASE CloseSegment
    <3> DEFINE step == Cancel(sims[i], a)
    <3>1. /\ sims' = [sims EXCEPT ![i] = step.sim] /\ pc = "close"
          /\ setup' = setup /\ told' = told /\ current' = current
          /\ \/ step.feedback = <<>> /\ closing' = closing \ {i} /\ pending' = pending /\ pc' = "close"
             \/ pc' = "failed" /\ closing' = closing /\ pending' = pending
             \/ pending' = step.feedback /\ closing' = closing /\ pc' = "tellClose"
      <4> HIDE DEF step, i
      <4> QED BY <2>1 DEF CloseSegment, CloseWith, CancelSegmentEnd, Fail, step, i
    <3> HIDE DEF i
    <3> QED BY <3>1 DEF Quiet
  <2>2. CASE CloseRun
    <3> DEFINE step == Cancel(sims[i], DOMAIN sims[i].orders)
    <3>1. /\ sims' = [sims EXCEPT ![i] = step.sim] /\ pc = "end"
          /\ setup' = setup /\ told' = told /\ current' = current
          /\ \/ step.feedback = <<>> /\ closing' = closing \ {i} /\ pending' = pending /\ pc' = "end"
             \/ pc' = "failed" /\ closing' = closing /\ pending' = pending
             \/ pending' = step.feedback /\ closing' = closing /\ pc' = "tellEnd"
      <4> HIDE DEF step, i
      <4> QED BY <2>2 DEF CloseRun, CloseWith, CancelEndOfRun, Fail, step, i
    <3> HIDE DEF i
    <3> QED BY <3>1 DEF Quiet
  <2> QED BY <2>1, <2>2
<1> DEFINE step == Cancel(sims[i], ending)
<1> HIDE DEF i
<1>2. News(step.feedback) /\ AllHeard(setup, told, step.feedback, [sims EXCEPT ![i] = step.sim])
  BY <1>0, <1>1, ToldCancelled
<1>3. /\ News(told) /\ News(pending) /\ pending = <<>>
      /\ closing \subseteq DOMAIN setup.models /\ DOMAIN current \subseteq DOMAIN setup.models
  BY <1>1 DEF ToldInv, Hearing
<1>4. /\ closing' \subseteq DOMAIN setup.models /\ News(pending')
      /\ (pc' \in Quiet => pending' = <<>>) /\ (pc' # "failed" => pending' = step.feedback)
  <2> HIDE DEF step
  <2>1. {"tellClose", "tellEnd", "failed"} \cap Quiet = {}
    BY DEF Quiet
  <2> QED BY <1>1, <1>2, <1>3, <2>1 DEF step
<1>5. Hearing(setup', pc', told', pending', sims')
  BY <1>1, <1>2, <1>3, <1>4 DEF Hearing
<1> QED BY <1>0, <1>1, <1>3, <1>4, <1>5 DEF ToldInv

LEMMA ToldIdles ==
    ASSUME ToldInv, Idles PROVE ToldInv'
<1>1. /\ BalanceInv' /\ setup' = setup /\ sims' = sims /\ current' = current
      /\ closing \subseteq DOMAIN setup.models /\ DOMAIN current \subseteq DOMAIN setup.models
      /\ News(told) /\ News(pending)
  BY BalanceIdles, IdleFacts DEF ToldInv, Hearing
<1>2. CASE \E intents \in Outputs : TellClosing(intents)
  <2>1. /\ pc # "failed" /\ told' = told \o pending /\ pending' = <<>> /\ closing' \subseteq closing
    BY <1>2 DEF TellClosing
  <2>2. AllHeard(setup, told, pending, sims)
    BY <2>1 DEF ToldInv, Hearing
  <2>3. AllHeard(setup, told \o pending, <<>>, sims) /\ News(told \o pending)
    BY <1>1, <2>2, AllHeardGiven
  <2> QED BY <1>1, <2>1, <2>3, EmptyTells DEF ToldInv, Hearing
<1>3. CASE StrategyFails
  <2>1. pc' = "failed" /\ told' = told /\ pending' = pending /\ closing' = closing
    BY <1>3 DEF StrategyFails, Fail
  <2> QED BY <1>1, <2>1 DEF ToldInv, Hearing, Quiet
<1>4. CASE Start \/ EndOfTape \/ SegmentsClosed \/ TakeMarks \/ Finish
  <2>1. /\ pc \in Quiet /\ pc # "failed" /\ told' = told /\ pending' = pending
        /\ closing' \in {closing, DOMAIN current, DOMAIN setup.models}
    BY <1>4 DEF Start, EndOfTape, SegmentsClosed, TakeMarks, Finish, Quiet, Universe
  <2>2. pending = <<>> /\ AllHeard(setup, told, pending, sims)
    BY <2>1 DEF ToldInv, Hearing
  <2>3. closing' \subseteq DOMAIN setup.models
    BY <1>1, <2>1
  <2> QED BY <1>1, <2>1, <2>2, <2>3 DEF ToldInv, Hearing
<1> QED BY <1>2, <1>3, <1>4 DEF Idles

LEMMA ToldNext ==
    ASSUME ToldInv, [Next]_vars PROVE ToldInv'
<1>1. CASE UNCHANGED vars
  <2>1. BalanceInv'
    BY BalanceNext DEF ToldInv
  <2>2. /\ setup' = setup /\ pc' = pc /\ told' = told /\ pending' = pending /\ sims' = sims
        /\ closing' = closing /\ current' = current
    BY <1>1 DEF vars
  <2>3. /\ closing \subseteq DOMAIN setup.models /\ DOMAIN current \subseteq DOMAIN setup.models
        /\ Hearing(setup, pc, told, pending, sims)
    BY DEF ToldInv
  <2> QED BY <2>1, <2>2, <2>3 DEF ToldInv
<1>2. CASE Idles
  BY <1>2, ToldIdles
<1>3. CASE BeginEvent
  BY <1>3, ToldBegin
<1>4. CASE CloseSegment \/ CloseRun
  BY <1>4, ToldClose
<1>5. CASE \E intents \in Outputs : BoundaryFeedback(intents) \/ OnFeedback(intents)
  BY <1>5, ToldSubmit
<1>6. ASSUME NEW intents \in Outputs, NEW refusedAt \in 0..MaxOrders, OnEvent(intents, refusedAt)
      PROVE  ToldInv'
  <2>1. refusedAt \in Int
    BY InputsAssumption
  <2> QED BY <1>6, <2>1, ToldOnEvent
<1> QED BY <1>1, <1>2, <1>3, <1>4, <1>5, <1>6, NextCases

LEMMA ToldAll == ToldInv => EveryTransitionIsTold
<1> SUFFICES ASSUME ToldInv, pc \in {"next", "close", "end", "finalize", "done"},
                    NEW i \in Universe, NEW o \in Range(sims[i].orders)
             PROVE  /\ QuantityTold(told, o.id) = QuantityFilled(sims[i].orders, o.id)
                    /\ \A type \in {"Filled", "Cancelled"} :
                          TimesTold(told, type, o.id) = TimesEnded(sims[i].orders, type, o.id)
  BY DEF EveryTransitionIsTold
<1>1. SimIn(setup, sims[i], i, ordinal) /\ i \in DOMAIN setup.models
  BY DEF ToldInv, BalanceInv, CausalInv, StateOK, Universe
<1>2. DOMAIN sims[i].orders = 1..Len(sims[i].orders)
  BY <1>1, SimFacts DEF SimIn
<1>3. PICK n \in 1..Len(sims[i].orders) : o = sims[i].orders[n]
  BY <1>2 DEF Range
<1>4. o.id[3].instrument = i
  BY <1>1, <1>3 DEF SimIn, OrderIn
<1>5. pending = <<>> /\ pc # "failed" /\ News(told)
  BY DEF ToldInv, Hearing, Quiet
<1>6. AllHeard(setup, told, <<>>, sims)
  BY <1>5 DEF ToldInv, Hearing
<1>7. Heard(told, <<>>, sims[i].orders, o.id)
  BY <1>1, <1>4, <1>6 DEF AllHeard
<1>8. QuantityTold(<<>>, o.id) = 0 /\ \A type \in Ends : TimesTold(<<>>, type, o.id) = 0
  BY EmptyTells
<1>9. QuantityTold(told, o.id) \in Int /\ \A type \in Ends : TimesTold(told, type, o.id) \in Int
  BY <1>5, NewsSums
<1> QED BY <1>7, <1>8, <1>9 DEF Heard, Ends

\* Between its callbacks and at the end, what the strategy was told of fills and
\* of ends adds up to what became of its orders (EveryTransitionIsTold): nothing
\* is lost at a boundary, at an event or at the close, and nothing is said twice.
THEOREM StrategyHearsEverything == Spec => []EveryTransitionIsTold
BY ToldInit, ToldNext, ToldAll, PTL DEF Spec
=============================================================================
