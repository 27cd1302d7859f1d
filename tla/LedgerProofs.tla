---------------------------- MODULE LedgerProofs ----------------------------
(***************************************************************************)
(* Theorems about Ledger: every atom of cash is explained, batches of      *)
(* charges are whole, the account reconciles, its marked equity is the     *)
(* equity the performance reports and the tax of a date's trades is that   *)
(* of matching them first in, first out.                                   *)
(***************************************************************************)
EXTENDS Ledger, InductionLemmas, FiniteSetTheorems

-----------------------------------------------------------------------------
(* Charges, taxes and positions.                                           *)

\* A rounded quotient is an integer.
LEMMA DivideRoundType ==
    ASSUME NEW a \in Int, NEW b \in Nat \ {0}, NEW policy
    PROVE  DivideRound(a, b, policy) \in Int
<1>1. Abs(a) \in Nat /\ Sign(a) \in Int
  BY DEF Abs, Sign
<1>2. Abs(a) \div b \in Int
  BY <1>1
<1>3. Sign(a) * (Abs(a) \div b) \in Int
  <2> DEFINE q == Abs(a) \div b
             g == Sign(a)
  <2>1. q \in Int /\ g \in Int
    BY <1>1, <1>2
  <2> HIDE DEF q, g
  <2>2. g * q \in Int
    BY <2>1
  <2> QED BY <2>2 DEF q, g
<1> QED BY <1>3 DEF DivideRound

\* An amount scaled by multiplier and quantity.
ScalesExactly(v, qty, c) ==
    Exact(v, c) => Scale * Scaled(v, qty, c) = v * c.multiplier * qty * c.units

\* It is an integer, and when multiply_decimal_atoms finds it exact nothing was
\* cut off.
LEMMA ScaledExact ==
    ASSUME NEW v \in Int, NEW qty \in Int, NEW c, c.multiplier \in Int, c.units \in Int
    PROVE  Scaled(v, qty, c) \in Int /\ ScalesExactly(v, qty, c)
<1> DEFINE w == v * c.multiplier
           q == w \div Scale
           u == c.units
<1>1. w \in Int /\ Scale \in Nat \ {0} /\ u \in Int
  BY LedgerAssumption
<1>2. q \in Int /\ (w % Scale = 0 => Scale * q = w)
  <2> HIDE DEF w
  <2>1. w = Scale * (w \div Scale) + (w % Scale)
    BY <1>1
  <2> QED BY <1>1, <2>1
<1>3. q * qty * u \in Int
  <2> HIDE DEF q, u
  <2> QED BY <1>1, <1>2
<1>4. w % Scale = 0 => Scale * (q * qty * u) = w * qty * u
  <2> HAVE w % Scale = 0
  <2>1. Scale * q = w
    BY <1>2
  <2> HIDE DEF q, u, w
  <2>2. Scale * (q * qty * u) = (Scale * q) * qty * u
    BY <1>1, <1>2
  <2> QED BY <2>1, <2>2
<1>5. v * c.multiplier * qty * c.units = w * qty * u
  OBVIOUS
<1>6. Scaled(v, qty, c) = q * qty * u /\ (Exact(v, c) <=> w % Scale = 0)
  BY DEF Scaled, Exact
<1> HIDE DEF w, q, u
<1> QED BY <1>3, <1>4, <1>5, <1>6 DEF ScalesExactly

\* A model that validate_models accepts charges an integer.
LEMMA ChargeType ==
    ASSUME NEW notional \in Int, NEW qty \in Int, NEW side, NEW m \in ChargeModel,
           m.precision \in DOMAIN Quantum
    PROVE  Charge(notional, qty, side, m) \in Int
<1> DEFINE left == IF m.basis = "NotionalRate" THEN Abs(notional) ELSE qty * Scale
           q == Quantum[m.precision]
           a == DivideRound(left * m.rate, Scale, m.rounding)
           b == DivideRound(a, q, m.rounding)
<1>1. Scale \in Nat \ {0} /\ q \in Nat \ {0} /\ m.rate \in Int /\ m.minimum \in Int
  BY LedgerAssumption DEF ChargeModel
<1>2. left \in Int
  BY <1>1 DEF Abs
<1>3. left * m.rate \in Int
  <2> HIDE DEF left
  <2> QED BY <1>1, <1>2
<1>4. a \in Int
  BY <1>1, <1>3, DivideRoundType
<1>5. b \in Int
  <2> HIDE DEF a, q
  <2> QED BY <1>1, <1>4, DivideRoundType
<1>6. b * q \in Int
  <2> HIDE DEF b, q
  <2> QED BY <1>1, <1>5
<1>7. Charge(notional, qty, side, m) =
        IF side \notin m.sides THEN 0 ELSE IF b * q < m.minimum THEN m.minimum ELSE b * q
  BY DEF Charge
<1> HIDE DEF b, q
<1> QED BY <1>1, <1>6, <1>7

\* The signed cost of the position moves by what was paid and the difference
\* realised.
MovesExactly(position, basis, delta, price) ==
    LET t == TransitionPosition(position, basis, delta, price)
    IN  /\ t.position = position + delta
        /\ t.basis \in Int /\ t.difference \in Int
        /\ t.position = 0 => t.basis = 0
        /\ Sign(t.position) * t.basis
             = Sign(position) * basis + price * delta + t.difference

\* transition_position moves it so, whatever rounding allocates.
LEMMA TransitionExact ==
    ASSUME NEW position \in Int, NEW basis \in Int, NEW delta \in Int, NEW price \in Int,
           delta # 0, position = 0 => basis = 0
    PROVE  MovesExactly(position, basis, delta, price)
<1> DEFINE next == position + delta
           extends == Sign(position) # -Sign(delta)
           closed == Least(Abs(position), Abs(delta))
           allocated == IF closed = Abs(position) THEN basis
                        ELSE DivideRound(basis * closed, Abs(position), "HalfUp")
           b == IF extends THEN basis + price * Abs(delta)
                ELSE IF next = 0 THEN 0
                ELSE IF Sign(next) # Sign(position) THEN price * Abs(next)
                ELSE basis - allocated
           d == IF extends THEN 0 ELSE Sign(position) * (price * closed - allocated)
           t == TransitionPosition(position, basis, delta, price)
<1>1. t.position = next /\ t.basis = b /\ t.difference = d
  BY DEF TransitionPosition
<1>2. allocated \in Int
  <2>1. CASE closed = Abs(position)
    BY <2>1
  <2>2. CASE closed # Abs(position)
    <3>1. Abs(position) \in Nat \ {0} /\ closed \in Int
      BY <2>2 DEF Abs, Least
    <3>2. basis * closed \in Int
      <4> HIDE DEF closed
      <4> QED BY <3>1
    <3>3. DivideRound(basis * closed, Abs(position), "HalfUp") \in Int
      BY <3>1, <3>2, DivideRoundType
    <3> HIDE DEF closed
    <3> QED BY <2>2, <3>3
  <2> QED BY <2>1, <2>2
<1>3. price * delta \in Int /\ price * position \in Int
  OBVIOUS
<1> DEFINE Goal == /\ b \in Int /\ d \in Int /\ (next = 0 => b = 0)
                   /\ Sign(next) * b = Sign(position) * basis + price * delta + d
<1> SUFFICES Goal
  <2> HIDE DEF b, d, next
  <2> QED BY <1>1 DEF next, MovesExactly
<1>4. CASE extends
  <2>1. b = basis + price * Abs(delta) /\ d = 0
    BY <1>4
  <2>2. CASE delta > 0
    <3>1. position >= 0 /\ next > 0 /\ Sign(next) = 1 /\ Abs(delta) = delta
      BY <1>4, <2>2 DEF Sign, Abs
    <3>2. Sign(position) * basis = basis
      BY <3>1 DEF Sign
    <3> HIDE DEF b, d
    <3> QED BY <2>1, <3>1, <3>2, <1>3
  <2>3. CASE delta < 0
    <3>1. position <= 0 /\ next < 0 /\ Sign(next) = -1 /\ Abs(delta) = -delta
      BY <1>4, <2>3 DEF Sign, Abs
    <3>2. Sign(position) * basis = -basis
      BY <3>1 DEF Sign
    <3> HIDE DEF b, d
    <3> QED BY <2>1, <3>1, <3>2, <1>3
  <2> QED BY <2>2, <2>3
<1>5. CASE ~extends
  <2>1. d = Sign(position) * (price * closed - allocated)
    BY <1>5
  <2>2. (position > 0 /\ delta < 0) \/ (position < 0 /\ delta > 0)
    BY <1>5 DEF Sign
  <2>3. CASE next = 0
    <3>1. closed = Abs(position) /\ allocated = basis /\ b = 0
      BY <1>5, <2>3 DEF Abs, Least
    <3>2. Sign(next) = 0 /\ delta = -position
      BY <2>3 DEF Sign
    <3>3. price * closed = Sign(position) * (price * position)
      BY <2>2, <3>1 DEF Sign, Abs
    <3>4. Sign(position) = 1 \/ Sign(position) = -1
      BY <2>2 DEF Sign
    <3>5. d = Sign(position) * (Sign(position) * (price * position) - basis)
      <4> HIDE DEF d, allocated, closed
      <4> QED BY <2>1, <3>1, <3>3
    <3> DEFINE g == Sign(position)
    <3>6. price * delta = -(price * position)
      BY <3>2
    <3> HIDE DEF b, d, allocated, closed, next, g
    <3>7. d \in Int /\ 0 * b = g * basis + price * delta + d
      BY <3>4, <3>5, <3>6, <3>1, <1>3 DEF g
    <3> QED BY <3>1, <3>2, <3>7 DEF g
  <2>4. CASE next # 0 /\ Sign(next) # Sign(position)
    <3>1. closed = Abs(position) /\ allocated = basis /\ b = price * Abs(next)
      BY <1>5, <2>2, <2>4 DEF Abs, Least, Sign
    <3>2. price * closed = Sign(position) * (price * position)
      BY <2>2, <3>1 DEF Sign, Abs
    <3>3. Sign(next) * b = price * next /\ b \in Int
      <4>1. next \in Int /\ price * next \in Int
        OBVIOUS
      <4>2. (next > 0 /\ Sign(next) = 1 /\ Abs(next) = next)
            \/ (next < 0 /\ Sign(next) = -1 /\ Abs(next) = -next)
        BY <2>4 DEF Sign, Abs
      <4> HIDE DEF next, b
      <4> QED BY <3>1, <4>1, <4>2
    <3>4. price * next = price * position + price * delta
      OBVIOUS
    <3>5. Sign(position) = 1 \/ Sign(position) = -1
      BY <2>2 DEF Sign
    <3>6. d = Sign(position) * (Sign(position) * (price * position) - basis)
      <4> HIDE DEF d, allocated, closed
      <4> QED BY <2>1, <3>1, <3>2
    <3> HIDE DEF b, d, allocated, closed, next
    <3>7. d \in Int /\ price * next = Sign(position) * basis + price * delta + d
      BY <3>4, <3>5, <3>6, <1>3
    <3> QED BY <2>4, <3>3, <3>7
  <2>5. CASE next # 0 /\ Sign(next) = Sign(position)
    <3>1. closed = Abs(delta) /\ b = basis - allocated
      BY <1>5, <2>2, <2>5 DEF Abs, Least, Sign
    <3>2. price * closed = -(Sign(position) * (price * delta))
      BY <2>2, <3>1 DEF Sign, Abs
    <3>3. Sign(position) = 1 \/ Sign(position) = -1
      BY <2>2 DEF Sign
    <3> HIDE DEF b, d, allocated, closed, next
    <3> QED BY <2>1, <2>5, <3>1, <3>2, <3>3, <1>2, <1>3
  <2> QED BY <2>3, <2>4, <2>5
<1> QED BY <1>4, <1>5

\* Buys of a date that no sell has used up, and sells not fully matched.
BuyEntry  == [date : Int, remaining : Int]
SellEntry == [date : Int, price : Int, quantity : Int, matched : Int, assessed : Int]

\* The types of an instrument's ledger.
IsLedger(l) ==
    /\ l.cash \in Int /\ l.position \in Int /\ l.basis \in Int /\ l.realized \in Int
    /\ l.fee \in Int /\ l.tax \in Int
    /\ l.fills \in Seq(Fills) /\ l.buys \in Seq(BuyEntry) /\ l.sells \in Seq(SellEntry)

\* What MultiLedger::new accepts.
Accepted(c) == IsConfig(c) /\ ConfigBuilt(c)

\* What Ledger::apply_fill checks first.
ModelsValid(c) ==
    /\ ~InvalidModels(c, c.tax)
    /\ c.dayTrade # <<>> => ~InvalidModels(c, c.dayTrade[1].day)

\* The ordinary rate of a day-trade model is the tax of its config, and both
\* rates have a known precision.
LEMMA DayModels ==
    ASSUME NEW c, Accepted(c), ModelsValid(c), c.dayTrade # <<>>
    PROVE  /\ c.dayTrade[1].ordinary = c.tax /\ c.dayTrade[1].day \in ChargeModel
           /\ c.tax \in ChargeModel /\ c.tax.precision \in DOMAIN Quantum
           /\ c.dayTrade[1].day.precision \in DOMAIN Quantum
           /\ c.dayTrade[1].offset \in Int
<1> DEFINE D == [ordinary : ChargeModel, day : ChargeModel, offset : Int,
                 validThrough : Int, eligible : BOOLEAN, dates : SUBSET Int]
<1>1. c.dayTrade \in Seq(D) /\ c.tax \in ChargeModel
  BY DEF Accepted, IsConfig
<1>2. 1 \in DOMAIN c.dayTrade /\ c.dayTrade[1] \in D
  <2> HIDE DEF D
  <2>1. c.dayTrade \in Seq(D)
    BY <1>1
  <2> QED BY <2>1
<1>3. c.dayTrade[1] \in Range(c.dayTrade)
  BY <1>2 DEF Range
<1>4. c.tax = c.dayTrade[1].ordinary
  BY <1>3 DEF Accepted, ConfigBuilt
<1>5. c.tax.precision \in DOMAIN Quantum /\ c.dayTrade[1].day.precision \in DOMAIN Quantum
  BY DEF ModelsValid, InvalidModels
<1>6. c.dayTrade[1].day \in ChargeModel /\ c.dayTrade[1].offset \in Int
  <2> HIDE DEF D
  <2>1. \A x \in D : x.day \in ChargeModel /\ x.offset \in Int
    BY DEF D
  <2> QED BY <1>2, <2>1
<1> QED BY <1>1, <1>4, <1>5, <1>6

\* The tax of a sell that is partly matched is an integer.
LEMMA SplitType ==
    ASSUME NEW c, Accepted(c), ModelsValid(c), c.dayTrade # <<>>,
           NEW price \in Int, NEW qty \in Int, NEW matched \in Int
    PROVE  SplitSellTax(price, qty, matched, c) \in Int
<1> DEFINE m == c.dayTrade[1]
           Part(n, model) == IF n = 0 THEN 0 ELSE Charge(Scaled(price, n, c), n, "Sell", model)
<1>1. c.multiplier \in Int /\ c.units \in Int
  BY DEF Accepted, IsConfig
<1>2. ASSUME NEW n \in Int, NEW model \in ChargeModel, model.precision \in DOMAIN Quantum
      PROVE  Part(n, model) \in Int
  <2>1. Scaled(price, n, c) \in Int
    BY <1>1, ScaledExact
  <2>2. Charge(Scaled(price, n, c), n, "Sell", model) \in Int
    BY <1>2, <2>1, ChargeType
  <2> QED BY <2>2
<1>3. m.ordinary \in ChargeModel /\ m.day \in ChargeModel
      /\ m.ordinary.precision \in DOMAIN Quantum /\ m.day.precision \in DOMAIN Quantum
  BY DayModels
<1>4. SplitSellTax(price, qty, matched, c) = Part(matched, m.day) + Part(qty - matched, m.ordinary)
  BY DEF SplitSellTax
<1> HIDE DEF m, Part
<1>5. qty - matched \in Int
  OBVIOUS
<1> QED BY <1>2, <1>3, <1>4, <1>5

\* The quantities a fill takes of the open entries are integers.
LEMMA MatchType ==
    ASSUME NEW open, NEW k \in Nat, DOMAIN open = 1..k, \A n \in 1..k : open[n].left \in Int,
           NEW date, NEW qty \in Int
    PROVE  MatchFifo(open, date, qty) \in Seq(Int) /\ DOMAIN MatchFifo(open, date, qty) = 1..k
<1> DEFINE left == [n \in DOMAIN open |-> IF open[n].date = date THEN open[n].left ELSE 0]
           taken == [n \in DOMAIN open |-> Clamp(qty - Total(SubSeq(left, 1, n - 1)), left[n])]
<1>1. \A n \in 1..k : left[n] \in Int
  OBVIOUS
<1>2. left \in Seq(Int) /\ Len(left) = k
  <2>1. left = [n \in 1..k |-> left[n]]
    OBVIOUS
  <2> HIDE DEF left
  <2> QED BY <1>1, <2>1
<1>3. ASSUME NEW n \in 1..k PROVE Clamp(qty - Total(SubSeq(left, 1, n - 1)), left[n]) \in Int
  <2>1. left[n] \in Int
    BY <1>1
  <2>2. SubSeq(left, 1, n - 1) \in Seq(Int)
    <3> HIDE DEF left
    <3> QED BY <1>2
  <2>3. Total(SubSeq(left, 1, n - 1)) \in Int
    BY <2>2, TotalType
  <2> HIDE DEF left
  <2>4. qty - Total(SubSeq(left, 1, n - 1)) \in Int
    BY <2>3
  <2> QED BY <2>1, <2>4 DEF Clamp, Least
<1>4. MatchFifo(open, date, qty) = taken
  BY DEF MatchFifo
<1>5. DOMAIN taken = 1..k /\ \A n \in 1..k : taken[n] \in Int
  <2> HIDE DEF left
  <2> QED BY <1>3
<1>6. taken = [n \in 1..k |-> taken[n]]
  <2> HIDE DEF left
  <2> QED OBVIOUS
<1> HIDE DEF taken
<1> QED BY <1>4, <1>5, <1>6

\* The entries of a sequence.
LEMMA SeqEntries ==
    ASSUME NEW S, NEW s \in Seq(S)
    PROVE  Len(s) \in Nat /\ DOMAIN s = 1..Len(s) /\ \A n \in 1..Len(s) : s[n] \in S
OBVIOUS

\* The tax of a buy: the entries keep their types.
LEMMA TaxOfBuyType ==
    ASSUME NEW l, IsLedger(l), NEW c, Accepted(c), ModelsValid(c), c.dayTrade # <<>>,
           NEW f, f.qty \in Int, NEW date \in Int
    PROVE  LET t == TaxOfBuy(l, c, f, date)
           IN  t.tax \in Int /\ t.buys \in Seq(BuyEntry) /\ t.sells \in Seq(SellEntry)
<1> DEFINE open == [n \in DOMAIN l.sells |->
                      [date |-> l.sells[n].date, left |-> l.sells[n].quantity - l.sells[n].matched]]
           taken == MatchFifo(open, date, f.qty)
           Repriced(s, m) ==
               IF m = 0 THEN s
               ELSE [s EXCEPT !.matched = @ + m,
                              !.assessed = SplitSellTax(s.price, s.quantity, s.matched + m, c)]
           sells == [n \in DOMAIN l.sells |-> Repriced(l.sells[n], taken[n])]
           Assessed(q) == Total([n \in DOMAIN q |-> q[n].assessed])
           left == f.qty - Total(taken)
           k == Len(l.sells)
           t == TaxOfBuy(l, c, f, date)
<1>1. k \in Nat /\ DOMAIN l.sells = 1..k /\ (\A n \in 1..k : l.sells[n] \in SellEntry)
      /\ l.sells \in Seq(SellEntry) /\ l.buys \in Seq(BuyEntry)
  <2>1. l.sells \in Seq(SellEntry) /\ l.buys \in Seq(BuyEntry)
    BY DEF IsLedger
  <2> QED BY <2>1, SeqEntries
<1>2. \A n \in 1..k : /\ l.sells[n].quantity \in Int /\ l.sells[n].matched \in Int
                      /\ l.sells[n].price \in Int /\ l.sells[n].assessed \in Int
  BY <1>1 DEF SellEntry
<1>3. DOMAIN open = 1..k /\ \A n \in 1..k : open[n].left \in Int
  <2> HIDE DEF k
  <2> QED BY <1>1, <1>2
<1>4. taken \in Seq(Int) /\ DOMAIN taken = 1..k
  <2> HIDE DEF open, k
  <2> QED BY <1>1, <1>3, MatchType
<1>5. \A n \in 1..k : taken[n] \in Int
  <2> HIDE DEF taken
  <2> QED BY <1>4
<1>6. ASSUME NEW s \in SellEntry, NEW m \in Int PROVE Repriced(s, m) \in SellEntry
  <2>1. s.price \in Int /\ s.quantity \in Int /\ s.matched \in Int
    BY DEF SellEntry
  <2>2. s.matched + m \in Int
    BY <2>1
  <2> DEFINE x == SplitSellTax(s.price, s.quantity, s.matched + m, c)
  <2>3. x \in Int
    BY <2>1, <2>2, SplitType
  <2> HIDE DEF x
  <2>4. [s EXCEPT !.matched = @ + m, !.assessed = x] \in SellEntry
    BY <2>2, <2>3 DEF SellEntry
  <2> QED BY <2>4 DEF x
<1>7. sells \in Seq(SellEntry) /\ Len(sells) = k
  <2>1. \A n \in 1..k : Repriced(l.sells[n], taken[n]) \in SellEntry
    <3> HIDE DEF Repriced, taken, k
    <3> QED BY <1>1, <1>5, <1>6
  <2>2. sells = [n \in 1..k |-> Repriced(l.sells[n], taken[n])]
    <3> HIDE DEF Repriced, taken, k
    <3> QED BY <1>1
  <2> HIDE DEF Repriced, taken, k, sells
  <2> QED BY <1>1, <2>1, <2>2
<1>8. ASSUME NEW q \in Seq(SellEntry) PROVE Assessed(q) \in Int
  <2> DEFINE a == [n \in DOMAIN q |-> q[n].assessed]
  <2>1. \A n \in 1..Len(q) : q[n].assessed \in Int
    <3>1. \A n \in 1..Len(q) : q[n] \in SellEntry
      OBVIOUS
    <3> QED BY <3>1 DEF SellEntry
  <2>2. a = [n \in 1..Len(q) |-> q[n].assessed] /\ Len(q) \in Nat
    OBVIOUS
  <2>3. a \in Seq(Int)
    <3> HIDE DEF a
    <3> QED BY <2>1, <2>2
  <2> QED BY <2>3, TotalType
<1>9. left \in Int
  <2>1. Total(taken) \in Int
    <3> HIDE DEF taken
    <3> QED BY <1>4, TotalType
  <2> HIDE DEF taken
  <2> QED BY <2>1
<1> DEFINE tx == Assessed(sells) - Assessed(l.sells)
           bs == IF left = 0 THEN l.buys ELSE Append(l.buys, [date |-> date, remaining |-> left])
<1>10. tx \in Int
  <2>1. Assessed(sells) \in Int /\ Assessed(l.sells) \in Int
    <3> HIDE DEF Assessed, sells
    <3> QED BY <1>1, <1>7, <1>8
  <2> HIDE DEF Assessed, sells
  <2> QED BY <2>1
<1>11. bs \in Seq(BuyEntry)
  <2> HIDE DEF left
  <2>1. [date |-> date, remaining |-> left] \in BuyEntry
    BY <1>9 DEF BuyEntry
  <2> QED BY <1>1, <2>1
<1>12. t.tax = tx /\ t.sells = sells /\ t.buys = bs
  BY DEF TaxOfBuy
<1> HIDE DEF tx, bs, sells, t
<1>13. t.tax \in Int /\ t.buys \in Seq(BuyEntry) /\ t.sells \in Seq(SellEntry)
  BY <1>7, <1>10, <1>11, <1>12
<1> QED BY <1>13 DEF t

\* The tax of a sell: the entries keep their types.
LEMMA TaxOfSellType ==
    ASSUME NEW l, IsLedger(l), NEW c, Accepted(c), ModelsValid(c), c.dayTrade # <<>>,
           NEW f, f.qty \in Int, f.price \in Int, NEW date \in Int
    PROVE  LET t == TaxOfSell(l, c, f, date)
           IN  t.tax \in Int /\ t.buys \in Seq(BuyEntry) /\ t.sells \in Seq(SellEntry)
<1> DEFINE open == [n \in DOMAIN l.buys |->
                      [date |-> l.buys[n].date, left |-> l.buys[n].remaining]]
           taken == MatchFifo(open, date, f.qty)
           covered == Total(taken)
           tax == SplitSellTax(f.price, f.qty, covered, c)
           k == Len(l.buys)
           bs == [n \in DOMAIN l.buys |-> [l.buys[n] EXCEPT !.remaining = @ - taken[n]]]
           entry == [date |-> date, price |-> f.price, quantity |-> f.qty,
                     matched |-> covered, assessed |-> tax]
           ss == IF covered = f.qty THEN l.sells ELSE Append(l.sells, entry)
           t == TaxOfSell(l, c, f, date)
<1>1. k \in Nat /\ DOMAIN l.buys = 1..k /\ (\A n \in 1..k : l.buys[n] \in BuyEntry)
      /\ l.sells \in Seq(SellEntry)
  <2>1. l.sells \in Seq(SellEntry) /\ l.buys \in Seq(BuyEntry)
    BY DEF IsLedger
  <2> QED BY <2>1, SeqEntries
<1>2. \A n \in 1..k : l.buys[n].remaining \in Int
  BY <1>1 DEF BuyEntry
<1>3. DOMAIN open = 1..k /\ \A n \in 1..k : open[n].left \in Int
  <2> HIDE DEF k
  <2> QED BY <1>1, <1>2
<1>4. taken \in Seq(Int) /\ DOMAIN taken = 1..k
  <2> HIDE DEF open, k
  <2> QED BY <1>1, <1>3, MatchType
<1>5. (\A n \in 1..k : taken[n] \in Int) /\ covered \in Int
  <2> HIDE DEF taken
  <2> QED BY <1>4, TotalType
<1>6. tax \in Int
  <2> HIDE DEF covered
  <2> QED BY <1>5, SplitType
<1>7. bs \in Seq(BuyEntry)
  <2> DEFINE New(n) == [l.buys[n] EXCEPT !.remaining = @ - taken[n]]
  <2>1. ASSUME NEW n \in 1..k PROVE New(n) \in BuyEntry
    <3> DEFINE b == l.buys[n]
               x == taken[n]
    <3>1. b \in BuyEntry /\ x \in Int
      BY <1>1, <1>5
    <3> HIDE DEF b, x
    <3>2. [b EXCEPT !.remaining = @ - x] \in BuyEntry
      BY <3>1 DEF BuyEntry
    <3> QED BY <3>2 DEF b, x
  <2>2. bs = [n \in 1..k |-> New(n)]
    <3> HIDE DEF taken, k
    <3> QED BY <1>1
  <2> HIDE DEF taken, bs, k, New
  <2> QED BY <1>1, <2>1, <2>2
<1>8. ss \in Seq(SellEntry)
  <2> HIDE DEF covered, tax
  <2>1. entry \in SellEntry
    BY <1>5, <1>6 DEF SellEntry
  <2> HIDE DEF entry
  <2> QED BY <1>1, <2>1
<1>9. t.tax = tax /\ t.buys = bs /\ t.sells = ss
  BY DEF TaxOfSell
<1> HIDE DEF tax, bs, ss, t
<1>10. t.tax \in Int /\ t.buys \in Seq(BuyEntry) /\ t.sells \in Seq(SellEntry)
  BY <1>6, <1>7, <1>8, <1>9
<1> QED BY <1>10 DEF t

\* tax_for_fill returns an integer and well-typed entries.
LEMMA TaxType ==
    ASSUME NEW l, IsLedger(l), NEW c, Accepted(c), ModelsValid(c), NEW f \in Fills
    PROVE  LET t == TaxForFill(l, c, f)
           IN  t.tax \in Int /\ t.buys \in Seq(BuyEntry) /\ t.sells \in Seq(SellEntry)
<1> DEFINE Typed(t) == t.tax \in Int /\ t.buys \in Seq(BuyEntry) /\ t.sells \in Seq(SellEntry)
<1> SUFFICES Typed(TaxForFill(l, c, f))
  OBVIOUS
<1>1. f.qty \in Int /\ f.price \in Int /\ f.time \in Int /\ DayLength \in Nat \ {0}
  BY LedgerAssumption
<1>2. CASE ~DayTradeEligible(f, c)
  <2> DEFINE x == Charge(Scaled(f.price, f.qty, c), f.qty, f.side, c.tax)
             r == [tax |-> x, buys |-> l.buys, sells |-> l.sells]
  <2>1. c.multiplier \in Int /\ c.units \in Int /\ c.tax \in ChargeModel
        /\ c.tax.precision \in DOMAIN Quantum
    BY DEF Accepted, IsConfig, ModelsValid, InvalidModels
  <2>2. Scaled(f.price, f.qty, c) \in Int
    BY <1>1, <2>1, ScaledExact
  <2>3. x \in Int
    BY <1>1, <2>1, <2>2, ChargeType
  <2>4. TaxForFill(l, c, f) = r
    BY <1>2 DEF TaxForFill
  <2> HIDE DEF x
  <2>5. Typed(r)
    BY <2>3 DEF IsLedger
  <2> HIDE DEF r, Typed
  <2> QED BY <2>4, <2>5
<1>3. CASE DayTradeEligible(f, c)
  <2> DEFINE date == TradingDate(f.time, c.dayTrade[1])
  <2>1. c.dayTrade # <<>>
    BY <1>3 DEF DayTradeEligible
  <2>2. c.dayTrade[1].offset \in Int
    BY <2>1, DayModels
  <2>3. date \in Int
    <3> DEFINE o == c.dayTrade[1].offset
    <3>1. o \in Int
      BY <2>2
    <3> HIDE DEF o
    <3>2. (f.time + o) \div DayLength \in Int
      BY <1>1, <3>1
    <3> QED BY <3>2 DEF TradingDate, o
  <2>4. TaxForFill(l, c, f) = IF f.side = "Buy" THEN TaxOfBuy(l, c, f, date)
                              ELSE TaxOfSell(l, c, f, date)
    BY <1>3 DEF TaxForFill
  <2> HIDE DEF date
  <2>5. Typed(TaxOfBuy(l, c, f, date))
    BY <1>1, <2>1, <2>3, TaxOfBuyType
  <2>6. Typed(TaxOfSell(l, c, f, date))
    BY <1>1, <2>1, <2>3, TaxOfSellType
  <2> HIDE DEF Typed
  <2> QED BY <2>4, <2>5, <2>6
<1> QED BY <1>2, <1>3

\* The result is Ok only if no check fails.
LEMMA NoneFails ==
    ASSUME NEW k \in Nat, NEW checks, DOMAIN checks = 1..k,
           \A n \in 1..k : checks[n][1] => checks[n][2] # Ok,
           FirstError(checks) = Ok
    PROVE  \A n \in 1..k : ~checks[n][1]
<1> DEFINE failing == {n \in DOMAIN checks : checks[n][1]}
<1> SUFFICES ASSUME failing # {} PROVE FALSE
  OBVIOUS
<1>1. failing \in SUBSET Nat
  OBVIOUS
<1>2. \E x \in failing : \A y \in failing : x =< y
  <2> HIDE DEF failing
  <2> QED BY <1>1, LeastMember
<1>3. Min(failing) \in failing
  <2> HIDE DEF failing
  <2> QED BY <1>2 DEF Min
<1>4. FirstError(checks) = checks[Min(failing)][2]
  BY DEF FirstError
<1> QED BY <1>3, <1>4

\* What holds when Ledger::apply_fill returns Ok.
LEMMA ApplyChecks ==
    ASSUME NEW l, NEW c, NEW f, ApplyToLedger(l, c, f).error = Ok
    PROVE  ModelsValid(c) /\ Exact(f.price, c) /\ Exact(Moved(l, f).difference, c)
<1> DEFINE next == FilledLedger(l, c, f)
           cost == Last(next.costs)
           a1 == InvalidModels(c, c.tax)
           a2 == c.dayTrade # <<>> /\ (InvalidModels(c, c.dayTrade[1].day) \/ c.model # "EquityV1")
           a3 == ~Exact(f.price, c)
           a4 == ~Exact(Moved(l, f).difference, c)
           a5 == \E n \in {Scaled(f.price, f.qty, c), cost.fee, cost.tax, next.position,
                           next.basis, next.cash, next.fee, next.tax, next.realized} : ~Fits(n)
           checks == << <<a1, "InvalidModel">>, <<a2, "InvalidModel">>, <<a3, "PrecisionLoss">>,
                        <<a4, "PrecisionLoss">>, <<a5, "Overflow">> >>
<1>1. FirstError(checks) = Ok
  BY DEF ApplyToLedger
<1>2. DOMAIN checks = 1..5 /\ \A n \in 1..5 : checks[n][2] # Ok
  <2> HIDE DEF a1, a2, a3, a4, a5
  <2>1. DOMAIN checks = 1..5
    OBVIOUS
  <2>2. \A n \in 1..5 : n = 1 \/ n = 2 \/ n = 3 \/ n = 4 \/ n = 5
    OBVIOUS
  <2>3. /\ checks[1][2] # Ok /\ checks[2][2] # Ok /\ checks[3][2] # Ok /\ checks[4][2] # Ok
        /\ checks[5][2] # Ok
    BY DEF Ok
  <2> HIDE DEF checks
  <2> QED BY <2>1, <2>2, <2>3
<1>3. \A n \in 1..5 : ~checks[n][1]
  <2> HIDE DEF checks
  <2> QED BY <1>1, <1>2, NoneFails
<1>4. ~checks[1][1] /\ ~checks[2][1] /\ ~checks[3][1] /\ ~checks[4][1]
  <2> HIDE DEF checks
  <2> QED BY <1>3
<1>5. ~a1 /\ ~a2 /\ ~a3 /\ ~a4
  <2> HIDE DEF a1, a2, a3, a4, a5
  <2> QED BY <1>4
<1> QED BY <1>5 DEF ModelsValid

\* Cash, position and cost of one ledger explain each other.
Explained(l, c) ==
    /\ l.position = Total([n \in DOMAIN l.fills |-> Signed(l.fills[n])])
    /\ l.position = 0 => l.basis = 0 /\ l.average = <<>>
    /\ IF c.model = "FuturesV1" THEN l.cash = l.realized - l.fee - l.tax
       ELSE Scale * (l.cash - l.realized + l.fee + l.tax)
            = -(Sign(l.position) * l.basis * c.multiplier * c.units)

\* A new ledger is well typed and explained.
LEMMA NewLedgerExplained ==
    ASSUME NEW c, Accepted(c)
    PROVE  IsLedger(NewLedger) /\ Explained(NewLedger, c)
<1>1. c.multiplier \in Int /\ c.units \in Int /\ Scale \in Int
  BY LedgerAssumption DEF Accepted, IsConfig
<1>2. [n \in DOMAIN NewLedger.fills |-> Signed(NewLedger.fills[n])] = <<>>
  BY DEF NewLedger
<1>3. IsLedger(NewLedger)
  BY DEF NewLedger, IsLedger
<1>4. Sign(0) * 0 * c.multiplier * c.units = 0
  BY <1>1 DEF Sign
<1>5. NewLedger.position = 0 /\ NewLedger.basis = 0 /\ NewLedger.average = <<>>
      /\ NewLedger.cash = 0 /\ NewLedger.realized = 0 /\ NewLedger.fee = 0 /\ NewLedger.tax = 0
  BY DEF NewLedger
<1>6. Total([n \in DOMAIN NewLedger.fills |-> Signed(NewLedger.fills[n])]) = 0
  BY <1>2, TotalEmpty
<1>7. Scale * (0 - 0 + 0 + 0) = 0 /\ 0 - 0 - 0 = 0
  BY <1>1
<1> DEFINE l == NewLedger
           w == Sign(l.position) * l.basis * c.multiplier * c.units
           v == Scale * (l.cash - l.realized + l.fee + l.tax)
<1>8. w = 0 /\ v = 0 /\ l.cash = l.realized - l.fee - l.tax
  BY <1>4, <1>5, <1>7
<1>9. v = -w
  <2> HIDE DEF v, w
  <2>1. w \in Int /\ -w \in Int /\ w + (-w) = 0
    <3>1. \A x \in Int : -x \in Int /\ x + (-x) = 0
      OBVIOUS
    <3>2. w \in Int
      BY <1>8
    <3> QED BY <3>1, <3>2
  <2> DEFINE u == -w
  <2>2. u \in Int /\ w + u = 0
    BY <2>1
  <2> HIDE DEF u
  <2>3. u = 0
    BY <1>8, <2>2
  <2> QED BY <1>8, <2>3 DEF u
<1> QED BY <1>3, <1>5, <1>6, <1>8, <1>9 DEF Explained

\* The fills of a ledger add up with one more.
LEMMA SignedAppend ==
    ASSUME NEW fills \in Seq(Fills), NEW f \in Fills
    PROVE  LET Quantities(s) == [n \in DOMAIN s |-> Signed(s[n])]
           IN  /\ Total(Quantities(fills)) \in Int
               /\ Total(Quantities(Append(fills, f))) = Total(Quantities(fills)) + Signed(f)
<1> DEFINE Quantities(s) == [n \in DOMAIN s |-> Signed(s[n])]
           k == Len(fills)
           q == Quantities(fills)
           all == Append(fills, f)
<1>1. \A x \in Fills : Signed(x) \in Int
  BY LedgerAssumption DEF Signed
<1>2. k \in Nat /\ DOMAIN fills = 1..k /\ \A n \in 1..k : fills[n] \in Fills
  BY SeqEntries
<1>3. q = [n \in 1..k |-> Signed(fills[n])]
  BY <1>2
<1>4. q \in Seq(Int) /\ Len(q) = k /\ DOMAIN q = 1..k
  <2>1. \A n \in 1..k : Signed(fills[n]) \in Int
    BY <1>1, <1>2
  <2> HIDE DEF q, k
  <2> QED BY <1>2, <1>3, <2>1
<1>5. DOMAIN all = 1..(k + 1) /\ (\A n \in 1..k : all[n] = fills[n]) /\ all[k + 1] = f
  OBVIOUS
<1>6. Quantities(all) = Append(q, Signed(f))
  <2> DEFINE s == Quantities(all)
             t == Append(q, Signed(f))
  <2>1. DOMAIN s = 1..(k + 1) /\ \A n \in 1..(k + 1) : s[n] = Signed(all[n])
    <3> HIDE DEF all
    <3> QED BY <1>5
  <2>2. DOMAIN t = 1..(k + 1) /\ (\A n \in 1..k : t[n] = q[n]) /\ t[k + 1] = Signed(f)
    <3> HIDE DEF q, k
    <3> QED BY <1>1, <1>4
  <2>3. \A n \in 1..(k + 1) : s[n] = t[n]
    <3> SUFFICES ASSUME NEW n \in 1..(k + 1) PROVE s[n] = t[n]
      OBVIOUS
    <3>1. CASE n \in 1..k
      <4>1. q[n] = Signed(fills[n])
        BY <3>1, <1>3
      <4> HIDE DEF s, t, q, all
      <4> QED BY <3>1, <4>1, <2>1, <2>2, <1>5
    <3>2. CASE n = k + 1
      <4> HIDE DEF s, t, q, all
      <4> QED BY <3>2, <2>1, <2>2, <1>5
    <3> QED BY <3>1, <3>2, <1>2
  <2>4. s = [n \in 1..(k + 1) |-> s[n]] /\ t = [n \in 1..(k + 1) |-> t[n]]
    <3>1. t \in Seq(Int)
      <4> HIDE DEF q
      <4> QED BY <1>1, <1>4
    <3> HIDE DEF t, all, q
    <3> QED BY <2>1, <2>2, <3>1
  <2> HIDE DEF s, t
  <2> QED BY <2>3, <2>4
<1>7. Signed(f) \in Int
  BY <1>1
<1>8. Total(q) \in Int /\ Total(Append(q, Signed(f))) = Total(q) + Signed(f)
  <2> HIDE DEF q
  <2> QED BY <1>4, <1>7, TotalType, TotalAppend
<1> QED BY <1>6, <1>8

\* Ledger::apply_fill, when it returns Ok, keeps a ledger explained: what the
\* rounding of the allocated cost moves between realised P&L and the cost of
\* the open position is never lost.
LEMMA FillExplained ==
    ASSUME NEW l, NEW c, NEW f \in Fills, IsLedger(l), Accepted(c), Explained(l, c),
           ApplyToLedger(l, c, f).error = Ok
    PROVE  LET next == ApplyToLedger(l, c, f).ledger
           IN  IsLedger(next) /\ Explained(next, c) /\ next.fills = Append(l.fills, f)
<1> DEFINE N == Scaled(f.price, f.qty, c)
           F == Charge(N, f.qty, f.side, c.fee)
           T == TaxForFill(l, c, f)
           M == Moved(l, f)
           R == Scaled(M.difference, 1, c)
           G == IF c.model = "FuturesV1" THEN R ELSE IF f.side = "Buy" THEN -N ELSE N
           next == ApplyToLedger(l, c, f).ledger
<1>1. /\ next.cash = l.cash + G - F - T.tax
      /\ next.position = M.position /\ next.basis = M.basis
      /\ next.average = AverageCost(M.basis, M.position)
      /\ next.realized = l.realized + R
      /\ next.fee = l.fee + F /\ next.tax = l.tax + T.tax
      /\ next.buys = T.buys /\ next.sells = T.sells
      /\ next.fills = Append(l.fills, f)
  <2>1. next = FilledLedger(l, c, f)
    BY DEF ApplyToLedger
  <2> HIDE DEF next, F, T, M, R, N
  <2> QED BY <2>1 DEF FilledLedger, next, F, T, M, R, N
<1>2. ModelsValid(c) /\ Exact(f.price, c) /\ Exact(M.difference, c)
  BY ApplyChecks
<1>3. /\ f.price \in Int /\ f.qty \in Nat /\ f.qty # 0 /\ f.side \in {"Buy", "Sell"}
      /\ Scale \in Nat \ {0}
  BY LedgerAssumption
<1>4. /\ c.multiplier \in Int /\ c.units \in Int /\ c.fee \in ChargeModel
      /\ c.fee.precision \in DOMAIN Quantum
  BY <1>2 DEF Accepted, IsConfig, ModelsValid, InvalidModels
<1>5. N \in Int /\ Scale * N = f.price * c.multiplier * f.qty * c.units
  <2>1. N \in Int /\ ScalesExactly(f.price, f.qty, c)
    BY <1>3, <1>4, ScaledExact
  <2> QED BY <1>2, <2>1 DEF ScalesExactly
<1>6. F \in Int
  <2> HIDE DEF N
  <2> QED BY <1>3, <1>4, <1>5, ChargeType
<1>7. T.tax \in Int /\ T.buys \in Seq(BuyEntry) /\ T.sells \in Seq(SellEntry)
  BY <1>2, TaxType
<1>8. /\ l.cash \in Int /\ l.position \in Int /\ l.basis \in Int /\ l.realized \in Int
      /\ l.fee \in Int /\ l.tax \in Int /\ l.fills \in Seq(Fills)
  BY DEF IsLedger
<1> DEFINE D == Signed(f)
<1>9. D \in Int /\ D # 0 /\ (f.side = "Buy" => D = f.qty) /\ (f.side # "Buy" => D = -f.qty)
  BY <1>3 DEF Signed
<1>10. /\ M.position = l.position + D
       /\ M.basis \in Int /\ M.difference \in Int
       /\ M.position = 0 => M.basis = 0
       /\ Sign(M.position) * M.basis
            = Sign(l.position) * l.basis + f.price * D + M.difference
  <2>1. l.position = 0 => l.basis = 0
    BY DEF Explained
  <2>2. M = TransitionPosition(l.position, l.basis, D, f.price)
    BY DEF Moved
  <2> HIDE DEF M, D
  <2>3. MovesExactly(l.position, l.basis, D, f.price)
    BY <1>3, <1>8, <1>9, <2>1, TransitionExact
  <2> QED BY <2>2, <2>3 DEF MovesExactly
<1>11. R \in Int /\ Scale * R = M.difference * c.multiplier * c.units
  <2> DEFINE d == M.difference
  <2>1. d \in Int /\ Exact(d, c)
    BY <1>2, <1>10
  <2> HIDE DEF d
  <2>2. Scaled(d, 1, c) \in Int /\ Scale * Scaled(d, 1, c) = d * c.multiplier * 1 * c.units
    <3>1. Scaled(d, 1, c) \in Int /\ ScalesExactly(d, 1, c)
      BY <2>1, <1>4, ScaledExact
    <3> QED BY <2>1, <3>1 DEF ScalesExactly
  <2>3. d * c.multiplier * 1 * c.units = d * c.multiplier * c.units
    BY <2>1, <1>4
  <2> QED BY <2>2, <2>3 DEF d
<1>12. G \in Int
  <2> HIDE DEF N, R
  <2> QED BY <1>5, <1>11
<1> DEFINE tx == T.tax
<1>18. F \in Int /\ tx \in Int /\ R \in Int /\ G \in Int
       /\ M.position \in Int /\ M.basis \in Int
  <2> HIDE DEF F, T, R, G, M, D
  <2>1. M.position \in Int
    BY <1>8, <1>9, <1>10
  <2> QED BY <1>6, <1>7, <1>10, <1>11, <1>12, <2>1
<1>13. IsLedger(next)
  <2>2. Append(l.fills, f) \in Seq(Fills)
    BY <1>8
  <2>3. /\ l.cash + G - F - tx \in Int /\ l.realized + R \in Int
        /\ l.fee + F \in Int /\ l.tax + tx \in Int
    <3>1. \A a, b, x, y \in Int : a + b - x - y \in Int /\ a + b \in Int
      OBVIOUS
    <3> HIDE DEF F, R, G, tx
    <3> QED BY <1>8, <1>18, <3>1
  <2>4. /\ next.cash \in Int /\ next.realized \in Int /\ next.fee \in Int /\ next.tax \in Int
    <3> HIDE DEF next, F, T, M, R, N, G
    <3> QED BY <1>1, <2>3
  <2> HIDE DEF next, F, T, M, R, N, G, D
  <2> QED BY <1>1, <1>7, <1>18, <2>2, <2>4 DEF IsLedger
<1>14. next.position = Total([n \in DOMAIN next.fills |-> Signed(next.fills[n])])
  <2> DEFINE old == Total([n \in DOMAIN l.fills |-> Signed(l.fills[n])])
             new == Total([n \in DOMAIN Append(l.fills, f) |-> Signed(Append(l.fills, f)[n])])
  <2>1. l.position = old
    BY DEF Explained
  <2>2. new = old + D
    BY <1>8, SignedAppend
  <2>3. Total([n \in DOMAIN next.fills |-> Signed(next.fills[n])]) = new
    BY <1>1
  <2> HIDE DEF old, new, next, M, D
  <2> QED BY <1>1, <1>10, <2>1, <2>2, <2>3
<1>15. next.position = 0 => next.basis = 0 /\ next.average = <<>>
  <2> HIDE DEF next, M
  <2> QED BY <1>1, <1>10 DEF AverageCost
<1>16. CASE c.model = "FuturesV1"
  <2>1. l.cash = l.realized - l.fee - l.tax
    BY <1>16 DEF Explained
  <2>2. G = R
    BY <1>16
  <2>3. next.cash = next.realized - next.fee - next.tax
    <3> HIDE DEF next, F, T, M, R, N, G, D
    <3>1. \A a, b, x, y, u, v \in Int :
             (a - b - x) + y - u - v = (a + y) - (b + u) - (x + v)
      OBVIOUS
    <3>2. (l.realized - l.fee - l.tax) + R - F - tx = (l.realized + R) - (l.fee + F) - (l.tax + tx)
      <4> HIDE DEF tx
      <4>1. /\ l.realized \in Int /\ l.fee \in Int /\ l.tax \in Int
            /\ R \in Int /\ F \in Int /\ tx \in Int
        BY <1>8, <1>18
      <4> QED BY <3>1, <4>1
    <3> QED BY <1>1, <2>1, <2>2, <3>2
  <2> HIDE DEF next
  <2>4. Explained(next, c)
    BY <1>14, <1>15, <1>16, <2>3 DEF Explained
  <2> QED BY <1>1, <1>13, <2>4 DEF next
<1>17. CASE c.model # "FuturesV1"
  <2> DEFINE K == c.multiplier * c.units
             P == f.price * D
             B == Sign(l.position) * l.basis
             B2 == Sign(M.position) * M.basis
             d == M.difference
             o == l.cash - l.realized + l.fee + l.tax
             n == next.cash - next.realized + next.fee + next.tax
  <2>1. Scale * o = -(B * K)
    <3>1. Scale * o = -(Sign(l.position) * l.basis * c.multiplier * c.units)
      BY <1>17 DEF Explained
    <3>2. \A a, b, x, y \in Int : a * b * x * y = (a * b) * (x * y)
      OBVIOUS
    <3>3. Sign(l.position) \in Int
      BY <1>8 DEF Sign
    <3>4. Sign(l.position) * l.basis * c.multiplier * c.units = B * K
      BY <3>2, <3>3, <1>4, <1>8
    <3> HIDE DEF o, B, K
    <3> QED BY <3>1, <3>4
  <2>2. Scale * G = -(P * K)
    <3>1. Scale * N = (f.price * f.qty) * K
      <4>1. \A a, b, x, y \in Int : a * x * b * y = (a * b) * (x * y)
        OBVIOUS
      <4>2. f.price * c.multiplier * f.qty * c.units = (f.price * f.qty) * K
        BY <4>1, <1>3, <1>4
      <4> HIDE DEF N, K
      <4> QED BY <1>5, <4>2
    <3> DEFINE Q == f.price * f.qty
    <3>2. Q \in Int /\ K \in Int
      BY <1>3, <1>4
    <3>3. CASE f.side = "Buy"
      <4>1. G = -N /\ P = Q
        BY <3>3, <1>17, <1>9
      <4> HIDE DEF G, N, K, P, Q
      <4>2. Scale * N = Q * K
        BY <3>1 DEF Q
      <4>3. \A s, x, y \in Int : s * x = y => s * (-x) = -y
        OBVIOUS
      <4>4. Q * K \in Int
        BY <3>2
      <4> QED BY <4>1, <4>2, <4>3, <4>4, <1>3, <1>5
    <3>4. CASE f.side # "Buy"
      <4>1. G = N
        BY <3>4, <1>17
      <4>2. P = -Q
        <5>1. \A a, b \in Int : a * (-b) = -(a * b)
          OBVIOUS
        <5>2. D = -f.qty
          BY <3>4, <1>9
        <5> HIDE DEF D
        <5> QED BY <5>1, <5>2, <1>3
      <4> HIDE DEF G, N, K, P, Q
      <4>3. \A x, y \in Int : -((-x) * y) = x * y
        OBVIOUS
      <4>4. Scale * N = Q * K
        BY <3>1 DEF Q
      <4> QED BY <4>1, <4>2, <4>3, <4>4, <3>2
    <3> QED BY <3>3, <3>4
  <2>3. Scale * R = d * K
    <3>1. \A a, x, y \in Int : a * x * y = a * (x * y)
      OBVIOUS
    <3>2. d * c.multiplier * c.units = d * K
      BY <3>1, <1>4, <1>10
    <3> HIDE DEF R, K, d
    <3> QED BY <1>11, <3>2 DEF d
  <2>4. B2 = B + P + d
    BY <1>10
  <2>5. n = o + G - R
    <3> HIDE DEF next, F, T, M, R, N, G, D
    <3>2. (l.cash + G - F - tx) - (l.realized + R) + (l.fee + F) + (l.tax + tx)
            = (l.cash - l.realized + l.fee + l.tax) + G - R
      <4> DEFINE a == l.cash
                 b == l.realized
                 x == l.fee
                 y == l.tax
      <4>1. a \in Int /\ b \in Int /\ x \in Int /\ y \in Int
        BY <1>8
      <4>2. F \in Int /\ R \in Int /\ G \in Int /\ tx \in Int
        BY <1>18
      <4> HIDE DEF tx, a, b, x, y
      <4>3. (a + G - F - tx) - (b + R) + (x + F) + (y + tx) = (a - b + x + y) + G - R
        BY <4>1, <4>2
      <4> QED BY <4>3 DEF a, b, x, y
    <3> QED BY <1>1, <3>2
  <2>6. o \in Int /\ B \in Int /\ P \in Int /\ d \in Int /\ K \in Int /\ G \in Int /\ R \in Int
    <3>1. Sign(l.position) \in Int
      BY <1>8 DEF Sign
    <3> HIDE DEF M, D, G, R
    <3>2. M.difference \in Int
      BY <1>10
    <3>3. Sign(l.position) * l.basis \in Int
      BY <3>1, <1>8
    <3>4. f.price * D \in Int
      BY <1>3, <1>9
    <3>5. c.multiplier * c.units \in Int
      BY <1>4
    <3>6. o \in Int
      BY <1>8
    <3> QED BY <3>2, <3>3, <3>4, <3>5, <3>6, <1>18
  <2>7. Scale * n = -(B2 * K)
    <3>1. \A s, x, g, r, b, p, e, k \in Int :
             s * x = -(b * k) /\ s * g = -(p * k) /\ s * r = e * k
             => s * (x + g - r) = -((b + p + e) * k)
      <4> SUFFICES ASSUME NEW s \in Int, NEW x \in Int, NEW g \in Int, NEW r \in Int,
                          NEW b \in Int, NEW p \in Int, NEW e \in Int, NEW k \in Int,
                          s * x = -(b * k), s * g = -(p * k), s * r = e * k
                   PROVE  s * (x + g - r) = -((b + p + e) * k)
        OBVIOUS
      <4>1. s * (x + g - r) = s * x + s * g - s * r
        OBVIOUS
      <4>2. (b + p + e) * k = b * k + p * k + e * k
        OBVIOUS
      <4> QED BY <4>1, <4>2
    <3> HIDE DEF n, o, G, R, B, B2, P, d, K
    <3> QED BY <3>1, <2>1, <2>2, <2>3, <2>4, <2>5, <2>6, <1>3
  <2>8. B2 * K = Sign(next.position) * next.basis * c.multiplier * c.units
    <3>1. \A a, b, x, y \in Int : a * b * x * y = (a * b) * (x * y)
      OBVIOUS
    <3>2. M.position \in Int /\ Sign(M.position) \in Int
      BY <1>8, <1>9, <1>10 DEF Sign
    <3> HIDE DEF M, next
    <3> QED BY <3>1, <3>2, <1>1, <1>4, <1>10
  <2>9. Scale * (next.cash - next.realized + next.fee + next.tax)
          = -(Sign(next.position) * next.basis * c.multiplier * c.units)
    <3> HIDE DEF n, B2, K
    <3> QED BY <2>7, <2>8 DEF n
  <2> HIDE DEF next
  <2>10. Explained(next, c)
    BY <1>14, <1>15, <1>17, <2>9 DEF Explained
  <2> QED BY <1>1, <1>13, <2>10 DEF next
<1> QED BY <1>16, <1>17

-----------------------------------------------------------------------------
(* Sums over the instruments.                                              *)

\* SetToSeq enumerates a finite set, each member once.
Enumerates(q, S) ==
    /\ q \in [1..Cardinality(S) -> S]
    /\ \A m, n \in 1..Cardinality(S) : q[m] = q[n] => m = n
    /\ \A i \in S : \E n \in 1..Cardinality(S) : q[n] = i

\* It does.
LEMMA Enumeration ==
    ASSUME NEW S, IsFiniteSet(S)
    PROVE  Cardinality(S) \in Nat /\ Enumerates(SetToSeq(S), S)
<1> DEFINE k == Cardinality(S)
           q == SetToSeq(S)
<1>1. k \in Nat /\ ExistsBijection(1..k, S)
  BY FS_CardinalityType
<1>2. \E f \in [1..k -> S] : IsInjective(f)
  <2>1. PICK f : f \in Bijection(1..k, S)
    BY <1>1 DEF ExistsBijection
  <2> QED BY <2>1 DEF Bijection, Injection
<1>3. q \in [1..k -> S] /\ IsInjective(q)
  BY <1>2 DEF SetToSeq
<1>4. q \in Injection(1..k, S)
  BY <1>3 DEF Injection
<1>5. Cardinality(1..k) = k
  BY <1>1, FS_Interval
<1>6. q \in Surjection(1..k, S)
  <2> HIDE DEF q
  <2> QED BY <1>4, <1>5, FS_Injection
<1>7. \A i \in S : \E n \in 1..k : q[n] = i
  BY <1>6 DEF Surjection
<1> QED BY <1>1, <1>3, <1>7 DEF Enumerates, IsInjective

\* The values of f in that order.
LEMMA SumIs ==
    ASSUME NEW S, IsFiniteSet(S), NEW f \in [S -> Int]
    PROVE  LET s == [n \in 1..Cardinality(S) |-> f[SetToSeq(S)[n]]]
           IN  s \in Seq(Int) /\ Len(s) = Cardinality(S) /\ Sum(f) = Total(s)
<1> DEFINE s == [n \in 1..Cardinality(S) |-> f[SetToSeq(S)[n]]]
<1>1. Cardinality(S) \in Nat /\ \A n \in 1..Cardinality(S) : SetToSeq(S)[n] \in S
  BY Enumeration DEF Enumerates
<1>2. \A n \in 1..Cardinality(S) : f[SetToSeq(S)[n]] \in Int
  BY <1>1
<1>3. s \in Seq(Int) /\ Len(s) = Cardinality(S)
  BY <1>1, <1>2
<1>4. Sum(f) = Total(s)
  <2>1. DOMAIN f = S
    OBVIOUS
  <2> QED BY <2>1 DEF Sum
<1> QED BY <1>3, <1>4

\* A sum of integers is an integer.
LEMMA SumType ==
    ASSUME NEW S, IsFiniteSet(S), NEW f \in [S -> Int]
    PROVE  Sum(f) \in Int
BY SumIs, TotalType

\* Sums add instrument by instrument.
LEMMA SumAdd ==
    ASSUME NEW S, IsFiniteSet(S), NEW f \in [S -> Int], NEW g \in [S -> Int],
           NEW h \in [S -> Int], \A i \in S : h[i] = f[i] + g[i]
    PROVE  Sum(h) = Sum(f) + Sum(g)
<1> DEFINE q == SetToSeq(S)
           k == Cardinality(S)
           s == [n \in 1..k |-> f[q[n]]]
           t == [n \in 1..k |-> g[q[n]]]
           u == [n \in 1..k |-> h[q[n]]]
<1>1. k \in Nat /\ \A n \in 1..k : q[n] \in S
  BY Enumeration DEF Enumerates
<1>2. s \in Seq(Int) /\ Len(s) = k /\ Sum(f) = Total(s)
  BY SumIs
<1>3. t \in Seq(Int) /\ Len(t) = k /\ Sum(g) = Total(t)
  BY SumIs
<1>4. u \in Seq(Int) /\ Len(u) = k /\ Sum(h) = Total(u)
  BY SumIs
<1>5. \A n \in 1..k : u[n] = s[n] + t[n]
  <2> HIDE DEF q, k
  <2> QED BY <1>1
<1> HIDE DEF s, t, u, k
<1>6. Total(u) = Total(s) + Total(t)
  <2>1. Len(t) = Len(s) /\ Len(u) = Len(s) /\ \A n \in 1..Len(s) : u[n] = s[n] + t[n]
    BY <1>2, <1>3, <1>4, <1>5
  <2>2. s \in Seq(Int) /\ t \in Seq(Int) /\ u \in Seq(Int)
    BY <1>2, <1>3, <1>4
  <2> QED BY <2>1, <2>2, TotalSum
<1> QED BY <1>2, <1>3, <1>4, <1>6

\* A function that differs from 0 at one instrument adds up to that value.
LEMMA SumSingle ==
    ASSUME NEW S, IsFiniteSet(S), NEW i \in S, NEW d \in Int,
           NEW f \in [S -> Int], \A x \in S : f[x] = IF x = i THEN d ELSE 0
    PROVE  Sum(f) = d
<1> DEFINE q == SetToSeq(S)
           k == Cardinality(S)
           s == [n \in 1..k |-> f[q[n]]]
<1>1. k \in Nat /\ (\A n \in 1..k : q[n] \in S)
      /\ (\A m, n \in 1..k : q[m] = q[n] => m = n) /\ \E n \in 1..k : q[n] = i
  BY Enumeration DEF Enumerates
<1>2. s \in Seq(Int) /\ Len(s) = k /\ Sum(f) = Total(s)
  BY SumIs
<1>3. PICK m \in 1..k : q[m] = i
  BY <1>1
<1> DEFINE g == [n \in 0..k |-> IF n < m THEN 0 ELSE d]
<1>4. \A n \in 1..k : s[n] = IF n = m THEN d ELSE 0
  <2> HIDE DEF q, k
  <2> QED BY <1>1, <1>3
<1> HIDE DEF s, q, k
<1>5. Partial(g, s)
  <2>1. g[0] = 0
    BY <1>1
  <2>2. ASSUME NEW n \in 1..k PROVE g[n] = g[n - 1] + s[n]
    <3>1. n \in 0..k /\ n - 1 \in 0..k
      BY <1>1
    <3>2. g[n] = (IF n < m THEN 0 ELSE d) /\ g[n - 1] = (IF n - 1 < m THEN 0 ELSE d)
      BY <3>1
    <3> HIDE DEF g
    <3>3. CASE n = m
      BY <3>2, <3>3, <1>4
    <3>4. CASE n < m
      BY <3>2, <3>4, <1>4
    <3>5. CASE n > m
      BY <3>2, <3>5, <1>4
    <3> QED BY <3>3, <3>4, <3>5, <1>1
  <2> HIDE DEF g
  <2> QED BY <1>2, <2>1, <2>2 DEF Partial
<1>6. Total(s) = g[k]
  <2> HIDE DEF g
  <2> QED BY <1>1, <1>2, <1>5, TotalIs
<1>7. g[k] = d
  BY <1>1
<1> QED BY <1>2, <1>6, <1>7

\* A change at one instrument changes the sum by as much.
LEMMA SumUpdate ==
    ASSUME NEW S, IsFiniteSet(S), NEW i \in S, NEW f \in [S -> Int], NEW g \in [S -> Int],
           \A x \in S : x # i => g[x] = f[x]
    PROVE  Sum(g) = Sum(f) + (g[i] - f[i])
<1> DEFINE d == [x \in S |-> IF x = i THEN g[i] - f[i] ELSE 0]
<1>1. d \in [S -> Int] /\ g[i] - f[i] \in Int
  OBVIOUS
<1>2. Sum(d) = g[i] - f[i]
  BY <1>1, SumSingle
<1>3. \A x \in S : g[x] = f[x] + d[x]
  <2> SUFFICES ASSUME NEW x \in S PROVE g[x] = f[x] + d[x]
    OBVIOUS
  <2>1. g[x] \in Int /\ f[x] \in Int
    OBVIOUS
  <2> QED BY <2>1
<1> HIDE DEF d
<1>4. Sum(g) = Sum(f) + Sum(d)
  BY <1>1, <1>3, SumAdd
<1> QED BY <1>2, <1>4

-----------------------------------------------------------------------------
(* The steps of the account.                                               *)

\* A fill that was accepted.
FillTaken(f) ==
    LET i == f.instrument
        step == ApplyToLedger(ledgers[i], config[i], f)
    IN  /\ i \in DOMAIN ledgers /\ step.error = Ok
        /\ ledgers' = [ledgers EXCEPT ![i] = step.ledger]
        /\ cash' = cash + step.ledger.cash - ledgers[i].cash

\* MultiLedger::apply_fill takes a fill or changes nothing.
LEMMA FillStep ==
    ASSUME NEW f \in Fills, ApplyFill(f)
    PROVE  /\ UNCHANGED <<config, cash_charges, identities, batches>>
           /\ UNCHANGED <<ledgers, cash>> \/ FillTaken(f)
<1> SUFFICES ASSUME ~UNCHANGED <<ledgers, cash>> PROVE FillTaken(f)
  BY DEF ApplyFill
<1> DEFINE i == f.instrument
           step == ApplyToLedger(ledgers[i], config[i], f)
           next == cash + step.ledger.cash - ledgers[i].cash
           a1 == FillRefused(f) # Ok
           a2 == step.error # Ok
           a3 == ~Fits(next)
           checks == <<<<a1, FillRefused(f)>>, <<a2, step.error>>, <<a3, "Overflow">>>>
<1>1. i \in DOMAIN ledgers
  BY DEF ApplyFill
<1>2. /\ result' = FirstError(checks)
      /\ IF result' = Ok THEN ledgers' = [ledgers EXCEPT ![i] = step.ledger] /\ cash' = next
         ELSE UNCHANGED <<ledgers, cash>>
  BY <1>1 DEF ApplyFill
<1>3. FirstError(checks) = Ok /\ ledgers' = [ledgers EXCEPT ![i] = step.ledger] /\ cash' = next
  <2> HIDE DEF checks, next, step
  <2> QED BY <1>2
<1>4. step.error = Ok
  <2>1. DOMAIN checks = 1..3 /\ checks[2][1] = a2
    <3> HIDE DEF a1, a2, a3
    <3> QED OBVIOUS
  <2>2. \A n \in 1..3 : checks[n][1] => checks[n][2] # Ok
    <3>1. /\ checks[1][1] => checks[1][2] # Ok
          /\ checks[2][1] => checks[2][2] # Ok
          /\ checks[3][1] => checks[3][2] # Ok
      <4> HIDE DEF step, a3
      <4> QED BY DEF Ok
    <3>2. \A n \in 1..3 : n = 1 \/ n = 2 \/ n = 3
      OBVIOUS
    <3> HIDE DEF checks
    <3> QED BY <3>1, <3>2
  <2>3. ~checks[2][1]
    <3> HIDE DEF checks
    <3>1. 3 \in Nat /\ 2 \in 1..3
      OBVIOUS
    <3>2. \A n \in 1..3 : ~checks[n][1]
      BY <1>3, <2>1, <2>2, <3>1, NoneFails
    <3> QED BY <3>1, <3>2
  <2> HIDE DEF checks, step
  <2> QED BY <2>1, <2>3 DEF a2
<1> QED BY <1>1, <1>3, <1>4 DEF FillTaken

\* A batch of charges that was accepted.
BatchTaken(b) ==
    /\ \A n \in DOMAIN b : b[n].identity \notin identities
    /\ \A m, n \in DOMAIN b : b[m].identity = b[n].identity => m = n
    /\ cash' = cash - Total([k \in DOMAIN b |-> b[k].amount])
    /\ cash_charges' = cash_charges \o b
    /\ identities' = identities \cup {b[n].identity : n \in DOMAIN b}
    /\ batches' = Append(batches, b)

\* A charge without an error is new to the account and to its batch.
LEMMA ChargeIsNew ==
    ASSUME NEW b, NEW n, ChargeError(b, n) = Ok
    PROVE  b[n].identity \notin identities
           /\ \A k \in 1..(n - 1) : b[k].identity # b[n].identity
<1> DEFINE a1 == ~ChargeBuilt(b[n])
           a2 == \/ b[n].identity \in identities
                 \/ \E k \in 1..(n - 1) : b[k].identity = b[n].identity
           a3 == ~Fits(cash - Total([k \in 1..n |-> b[k].amount]))
           checks == <<<<a1, "InvalidCashCharge">>, <<a2, "DuplicateCashCharge">>,
                       <<a3, "Overflow">>>>
<1>1. FirstError(checks) = Ok
  BY DEF ChargeError
<1>2. DOMAIN checks = 1..3 /\ checks[2][1] = a2
  <2> HIDE DEF a1, a2, a3
  <2> QED OBVIOUS
<1>3. \A k \in 1..3 : checks[k][1] => checks[k][2] # Ok
  <2>1. checks[1][2] # Ok /\ checks[2][2] # Ok /\ checks[3][2] # Ok
    <3> HIDE DEF a1, a2, a3
    <3> QED BY DEF Ok
  <2>2. \A k \in 1..3 : k = 1 \/ k = 2 \/ k = 3
    OBVIOUS
  <2> HIDE DEF checks
  <2> QED BY <2>1, <2>2
<1>4. ~checks[2][1]
  <2> HIDE DEF checks
  <2>1. 3 \in Nat /\ 2 \in 1..3
    OBVIOUS
  <2>2. \A k \in 1..3 : ~checks[k][1]
    BY <1>1, <1>2, <1>3, <2>1, NoneFails
  <2> QED BY <2>1, <2>2
<1>5. ~a2
  <2> HIDE DEF checks, a2
  <2> QED BY <1>2, <1>4
<1> QED BY <1>5

\* apply_cash_charges takes a whole batch or changes nothing.
LEMMA BatchStep ==
    ASSUME NEW b \in ChargeLists, ApplyCashCharges(b)
    PROVE  /\ UNCHANGED <<config, ledgers>>
           /\ UNCHANGED <<cash, cash_charges, identities, batches>> \/ BatchTaken(b)
<1> DEFINE checks == [n \in DOMAIN b |-> <<ChargeError(b, n) # Ok, ChargeError(b, n)>>]
<1>1. UNCHANGED <<config, ledgers>>
      /\ IF FirstError(checks) = Ok
         THEN /\ cash' = cash - Total([k \in DOMAIN b |-> b[k].amount])
              /\ cash_charges' = cash_charges \o b
              /\ identities' = identities \cup {b[n].identity : n \in DOMAIN b}
              /\ batches' = Append(batches, b)
         ELSE UNCHANGED <<cash, cash_charges, identities, batches>>
  BY DEF ApplyCashCharges
<1> SUFFICES ASSUME FirstError(checks) = Ok PROVE BatchTaken(b)
  <2> HIDE DEF checks
  <2> QED BY <1>1
<1>2. b \in Seq(Range(b))
  BY LedgerAssumption
<1>3. Len(b) \in Nat /\ DOMAIN b = 1..Len(b)
  BY <1>2, SeqEntries
<1>4. \A n \in 1..Len(b) : ~checks[n][1]
  <2>1. DOMAIN checks = 1..Len(b)
    BY <1>3
  <2>2. \A n \in 1..Len(b) : checks[n][1] => checks[n][2] # Ok
    BY <1>3
  <2> HIDE DEF checks
  <2> QED BY <1>3, <2>1, <2>2, NoneFails
<1>5. \A n \in 1..Len(b) : ChargeError(b, n) = Ok
  BY <1>3, <1>4
<1>6. \A n \in 1..Len(b) : /\ b[n].identity \notin identities
                           /\ \A k \in 1..(n - 1) : b[k].identity # b[n].identity
  BY <1>5, ChargeIsNew
<1>7. ASSUME NEW m \in 1..Len(b), NEW n \in 1..Len(b), b[m].identity = b[n].identity
      PROVE  m = n
  <2>1. ~(m < n)
    <3> SUFFICES ASSUME m < n PROVE FALSE
      OBVIOUS
    <3>1. m \in 1..(n - 1)
      OBVIOUS
    <3> QED BY <3>1, <1>6, <1>7
  <2>2. ~(n < m)
    <3> SUFFICES ASSUME n < m PROVE FALSE
      OBVIOUS
    <3>1. n \in 1..(m - 1)
      OBVIOUS
    <3> QED BY <3>1, <1>6, <1>7
  <2> QED BY <2>1, <2>2
<1> HIDE DEF checks
<1> QED BY <1>1, <1>3, <1>6, <1>7 DEF BatchTaken

-----------------------------------------------------------------------------
(* Replaying the fills of a ledger.                                        *)

\* g holds the ledgers after each of the fills, from a new one.
Steps(g, c, fills) ==
    /\ g[0] = NewLedger
    /\ \A n \in 1..Len(fills) : /\ ApplyToLedger(g[n - 1], c, fills[n]).error = Ok
                                /\ g[n] = ApplyToLedger(g[n - 1], c, fills[n]).ledger

\* The ledger is what its own fills, none refused, make of a new one.
Replayed(l, c) == \E g : Steps(g, c, l.fills) /\ g[Len(l.fills)] = l

\* Replaying is deterministic.
LEMMA StepsUnique ==
    ASSUME NEW fills, Len(fills) \in Nat, NEW c, NEW g, NEW h, Steps(g, c, fills),
           h[0] = [ledger |-> NewLedger, error |-> Ok],
           \A n \in 1..Len(fills) :
               h[n] = IF h[n - 1].error # Ok THEN h[n - 1]
                      ELSE ApplyToLedger(h[n - 1].ledger, c, fills[n])
    PROVE  \A n \in 0..Len(fills) : h[n].ledger = g[n] /\ h[n].error = Ok
<1> DEFINE S == {n \in Nat : n <= Len(fills) => h[n].ledger = g[n] /\ h[n].error = Ok}
<1>1. 0 \in S
  BY DEF Steps
<1>2. ASSUME NEW n \in Nat, n \in S PROVE n + 1 \in S
  <2> SUFFICES ASSUME n + 1 <= Len(fills) PROVE h[n + 1].ledger = g[n + 1] /\ h[n + 1].error = Ok
    OBVIOUS
  <2>1. n + 1 \in 1..Len(fills) /\ (n + 1) - 1 = n /\ n <= Len(fills)
    OBVIOUS
  <2>2. h[n].ledger = g[n] /\ h[n].error = Ok
    BY <1>2, <2>1
  <2>3. /\ ApplyToLedger(g[n], c, fills[n + 1]).error = Ok
        /\ g[n + 1] = ApplyToLedger(g[n], c, fills[n + 1]).ledger
    BY <2>1 DEF Steps
  <2>4. h[n + 1] = IF h[n].error # Ok THEN h[n] ELSE ApplyToLedger(h[n].ledger, c, fills[n + 1])
    BY <2>1
  <2>5. h[n + 1] = ApplyToLedger(g[n], c, fills[n + 1])
    BY <2>2, <2>4
  <2> QED BY <2>3, <2>5
<1> HIDE DEF S
<1>3. \A n \in Nat : n \in S
  BY <1>1, <1>2, SetInduction
<1> QED BY <1>3 DEF S

\* Ledger::reconcile of a replayed ledger succeeds.
LEMMA RebuiltIs ==
    ASSUME NEW l, NEW c, Len(l.fills) \in Nat, Replayed(l, c)
    PROVE  ReconcileLedger(l, c) = Ok
<1> DEFINE k == Len(l.fills)
           New == [ledger |-> NewLedger, error |-> Ok]
           Rec(f) == f = [n \in 0..k |-> IF n = 0 THEN New
                                         ELSE IF f[n - 1].error # Ok THEN f[n - 1]
                                         ELSE ApplyToLedger(f[n - 1].ledger, c, l.fills[n])]
           after == CHOOSE f : Rec(f)
<1>0. PICK g : Steps(g, c, l.fills) /\ g[k] = l
  BY DEF Replayed
<1> DEFINE h == [n \in 0..k |-> IF n = 0 THEN New ELSE ApplyToLedger(g[n - 1], c, l.fills[n])]
<1>1. \A n \in 0..k : h[n].ledger = g[n] /\ h[n].error = Ok
  <2> SUFFICES ASSUME NEW n \in 0..k PROVE h[n].ledger = g[n] /\ h[n].error = Ok
    OBVIOUS
  <2>1. CASE n = 0
    BY <2>1, <1>0 DEF Steps
  <2>2. CASE n # 0
    <3>1. n \in 1..k /\ h[n] = ApplyToLedger(g[n - 1], c, l.fills[n])
      BY <2>2
    <3> HIDE DEF h
    <3> QED BY <3>1, <1>0 DEF Steps
  <2> QED BY <2>1, <2>2
<1>2. Rec(h)
  <2>1. ASSUME NEW n \in 0..k
        PROVE  h[n] = IF n = 0 THEN New ELSE IF h[n - 1].error # Ok THEN h[n - 1]
                      ELSE ApplyToLedger(h[n - 1].ledger, c, l.fills[n])
    <3>1. CASE n = 0
      BY <3>1
    <3>2. CASE n # 0
      <4>1. n - 1 \in 0..k /\ h[n] = ApplyToLedger(g[n - 1], c, l.fills[n])
        BY <3>2
      <4> HIDE DEF h, New
      <4>2. h[n - 1].ledger = g[n - 1] /\ h[n - 1].error = Ok
        BY <1>1, <4>1
      <4> QED BY <3>2, <4>1, <4>2
    <3> QED BY <3>1, <3>2
  <2>2. h = [n \in 0..k |-> h[n]]
    OBVIOUS
  <2> HIDE DEF h, New
  <2> QED BY <2>1, <2>2
<1>3. Rec(after)
  <2> HIDE DEF Rec, h
  <2> QED BY <1>2
<1>4. /\ after[0] = New
      /\ \A n \in 1..k : after[n] = IF after[n - 1].error # Ok THEN after[n - 1]
                                    ELSE ApplyToLedger(after[n - 1].ledger, c, l.fills[n])
  <2> HIDE DEF after, New
  <2>1. \A n \in 0..k : after[n] = IF n = 0 THEN New ELSE IF after[n - 1].error # Ok THEN after[n - 1]
                                   ELSE ApplyToLedger(after[n - 1].ledger, c, l.fills[n])
    BY <1>3
  <2> QED BY <2>1
<1>5. Rebuilt(l, c) = after[k]
  BY DEF Rebuilt
<1> HIDE DEF after
<1>6. k \in 0..k
  OBVIOUS
<1>7. \A n \in 0..k : after[n].ledger = g[n] /\ after[n].error = Ok
  BY <1>0, <1>4, StepsUnique
<1>8. Rebuilt(l, c).ledger = l /\ Rebuilt(l, c).error = Ok
  BY <1>0, <1>5, <1>6, <1>7
<1> QED BY <1>8 DEF ReconcileLedger

\* A ledger and what it was configured with.
LedgerOK(l, c) == Accepted(c) /\ IsLedger(l) /\ Explained(l, c) /\ Replayed(l, c)

\* A new ledger has nothing to replay.
LEMMA NewLedgerOK ==
    ASSUME NEW c, Accepted(c)
    PROVE  LedgerOK(NewLedger, c)
<1> DEFINE g == [n \in 0..0 |-> NewLedger]
<1>1. NewLedger.fills = <<>>
  BY DEF NewLedger
<1>2. g[0] = NewLedger
  OBVIOUS
<1> HIDE DEF g
<1>3. Steps(g, c, NewLedger.fills) /\ g[Len(NewLedger.fills)] = NewLedger
  <2>1. Len(NewLedger.fills) = 0
    BY <1>1
  <2> QED BY <1>2, <2>1 DEF Steps
<1>4. Replayed(NewLedger, c)
  BY <1>3 DEF Replayed
<1> QED BY <1>4, NewLedgerExplained DEF LedgerOK

\* An accepted fill keeps a ledger well typed, explained and replayed.
LEMMA FillLedgerOK ==
    ASSUME NEW l, NEW c, NEW f \in Fills, LedgerOK(l, c), ApplyToLedger(l, c, f).error = Ok
    PROVE  LedgerOK(ApplyToLedger(l, c, f).ledger, c)
<1> DEFINE next == ApplyToLedger(l, c, f).ledger
           k == Len(l.fills)
<1>1. IsLedger(next) /\ Explained(next, c) /\ next.fills = Append(l.fills, f)
  BY FillExplained DEF LedgerOK
<1>2. l.fills \in Seq(Fills)
  BY DEF LedgerOK, IsLedger
<1>3. PICK g : Steps(g, c, l.fills) /\ g[k] = l
  BY DEF LedgerOK, Replayed
<1>0. next = ApplyToLedger(l, c, f).ledger
  OBVIOUS
<1> HIDE DEF next
<1> DEFINE h == [n \in 0..(k + 1) |-> IF n <= k THEN g[n] ELSE next]
<1>4. k \in Nat /\ Len(next.fills) = k + 1 /\ next.fills[k + 1] = f
      /\ \A n \in 1..k : next.fills[n] = l.fills[n]
  BY <1>1, <1>2
<1>5. h[0] = g[0] /\ h[k + 1] = next /\ h[k] = g[k] /\ \A n \in 0..k : h[n] = g[n]
  BY <1>4
<1> HIDE DEF h
<1>6. ASSUME NEW n \in 1..(k + 1)
      PROVE  /\ ApplyToLedger(h[n - 1], c, next.fills[n]).error = Ok
             /\ h[n] = ApplyToLedger(h[n - 1], c, next.fills[n]).ledger
  <2>1. CASE n \in 1..k
    <3>1. h[n] = g[n] /\ h[n - 1] = g[n - 1] /\ next.fills[n] = l.fills[n]
      BY <1>4, <1>5, <2>1
    <3> QED BY <3>1, <2>1, <1>3 DEF Steps
  <2>2. CASE n = k + 1
    <3>1. n - 1 = k
      BY <2>2, <1>4
    <3> QED BY <3>1, <2>2, <1>0, <1>3, <1>4, <1>5
  <2> QED BY <2>1, <2>2, <1>4
<1>7. Steps(h, c, next.fills) /\ h[Len(next.fills)] = next
  BY <1>3, <1>4, <1>5, <1>6 DEF Steps
<1>8. Replayed(next, c)
  BY <1>7 DEF Replayed
<1> QED BY <1>1, <1>8 DEF LedgerOK, next

-----------------------------------------------------------------------------
(* The shared account.                                                     *)

\* The ledgers of an account and their configurations.
AccountOK(cfg, ls) ==
    /\ IsFiniteSet(DOMAIN ls) /\ DOMAIN cfg = DOMAIN ls
    /\ ls = [i \in DOMAIN ls |-> ls[i]]
    /\ \A i \in DOMAIN ls : LedgerOK(ls[i], cfg[i])

\* What the ledgers hold, in every reachable state.
AccountInv == AccountOK(config, ledgers)

\* A new account has a finite number of new ledgers.
LEMMA AccountInit ==
    ASSUME Init
    PROVE  AccountInv
<1>1. PICK cs \in ConfigLists :
        /\ \A c \in Range(cs) : ConfigBuilt(c)
        /\ config = [i \in {cs[n].instrument : n \in DOMAIN cs} |->
                        CHOOSE c \in Range(cs) : c.instrument = i]
        /\ ledgers = [i \in {cs[n].instrument : n \in DOMAIN cs} |-> NewLedger]
  BY DEF Init
<1> DEFINE S == {cs[n].instrument : n \in DOMAIN cs}
<1>2. cs \in Seq(Range(cs)) /\ \A c \in Range(cs) : IsConfig(c)
  BY LedgerAssumption
<1>3. Len(cs) \in Nat /\ DOMAIN cs = 1..Len(cs) /\ \A n \in 1..Len(cs) : cs[n] \in Range(cs)
  BY <1>2, SeqEntries
<1>4. IsFiniteSet(S)
  <2> DEFINE g == [n \in 1..Len(cs) |-> cs[n].instrument]
  <2>1. g \in Surjection(1..Len(cs), S)
    BY <1>3 DEF Surjection
  <2>2. IsFiniteSet(1..Len(cs))
    BY <1>3, FS_Interval
  <2> HIDE DEF g, S
  <2> QED BY <2>1, <2>2, FS_Surjection
<1>5. ASSUME NEW i \in S PROVE Accepted(config[i])
  <2>1. PICK n \in 1..Len(cs) : cs[n].instrument = i
    BY <1>3
  <2>2. config[i] = CHOOSE c \in Range(cs) : c.instrument = i
    BY <1>1
  <2>3. config[i] \in Range(cs)
    BY <1>3, <2>1, <2>2
  <2> QED BY <2>3, <1>1, <1>2 DEF Accepted
<1>6. DOMAIN ledgers = S /\ DOMAIN config = S /\ \A i \in S : ledgers[i] = NewLedger
  BY <1>1
<1>7. ledgers = [i \in DOMAIN ledgers |-> ledgers[i]]
  <2> HIDE DEF S
  <2>1. ledgers = [i \in S |-> NewLedger]
    BY <1>1 DEF S
  <2> QED BY <2>1
<1> HIDE DEF S
<1>8. \A i \in S : LedgerOK(ledgers[i], config[i])
  BY <1>5, <1>6, NewLedgerOK
<1> QED BY <1>4, <1>6, <1>7, <1>8 DEF AccountInv, AccountOK

\* Every call keeps the ledgers in order: an accepted fill changes one of them
\* as FillLedgerOK says, everything else none.
LEMMA AccountNext ==
    ASSUME AccountInv, [Next]_vars
    PROVE  AccountInv'
<1> SUFFICES AccountOK(config', ledgers')
  BY DEF AccountInv, AccountOK
<1>0. AccountOK(config, ledgers)
  BY DEF AccountInv
<1>1. CASE config' = config /\ ledgers' = ledgers
  BY <1>0, <1>1
<1>2. ASSUME NEW f \in Fills, ApplyFill(f) PROVE AccountOK(config', ledgers')
  <2>1. config' = config /\ (ledgers' = ledgers \/ FillTaken(f))
    BY <1>2, FillStep
  <2>2. CASE FillTaken(f)
    <3> DEFINE i == f.instrument
               next == ApplyToLedger(ledgers[i], config[i], f).ledger
    <3>1. /\ i \in DOMAIN ledgers /\ ApplyToLedger(ledgers[i], config[i], f).error = Ok
          /\ ledgers' = [ledgers EXCEPT ![i] = next]
      BY <2>2 DEF FillTaken
    <3>2. LedgerOK(ledgers[i], config[i])
      BY <1>0, <3>1 DEF AccountOK
    <3>3. LedgerOK(next, config[i])
      BY <3>1, <3>2, FillLedgerOK
    <3> HIDE DEF next
    <3>4. /\ DOMAIN ledgers' = DOMAIN ledgers
          /\ \A x \in DOMAIN ledgers : ledgers'[x] = IF x = i THEN next ELSE ledgers[x]
          /\ ledgers' = [x \in DOMAIN ledgers |-> IF x = i THEN next ELSE ledgers[x]]
      BY <3>1
    <3> HIDE DEF i
    <3>5. ledgers' = [x \in DOMAIN ledgers' |-> ledgers'[x]]
      BY <3>4
    <3>6. \A x \in DOMAIN ledgers : LedgerOK(ledgers'[x], config[x])
      BY <1>0, <3>3, <3>4 DEF AccountOK
    <3> QED BY <1>0, <2>1, <3>4, <3>5, <3>6 DEF AccountOK
  <2> QED BY <1>1, <2>1, <2>2
<1>3. ASSUME NEW b \in ChargeLists, ApplyCashCharges(b) PROVE AccountOK(config', ledgers')
  <2>1. config' = config /\ ledgers' = ledgers
    BY <1>3, BatchStep
  <2> QED BY <1>1, <2>1
<1> QED BY <1>1, <1>2, <1>3 DEF Next, vars

\* CashIsExplained: after any sequence of fills and charges, with any models,
\* each instrument's cash is its realized P&L less its costs and the cost of
\* what is still open.  MultiLedger::apply_fill, Ledger::apply_fill and
\* transition_position.
THEOREM CashAlwaysExplained == Spec => []CashIsExplained
<1>1. Init => AccountInv
  BY AccountInit
<1>2. AccountInv /\ [Next]_vars => AccountInv'
  BY AccountNext
<1>3. AccountInv => CashIsExplained
  BY DEF AccountInv, AccountOK, LedgerOK, Explained, CashIsExplained
<1> QED BY <1>1, <1>2, <1>3, PTL DEF Spec

-----------------------------------------------------------------------------
(* Charges.                                                                *)

\* cc is the batches bs, one after another.
Flat(cc, bs) ==
    \E g : /\ g[0] = <<>> /\ \A n \in 1..Len(bs) : g[n] = g[n - 1] \o bs[n]
           /\ g[Len(bs)] = cc

\* That sequence is FlattenSeq's.
LEMMA FlattenIs ==
    ASSUME NEW S, NEW bs \in Seq(Seq(S)), NEW cc, Flat(cc, bs)
    PROVE  FlattenSeq(bs) = cc
<1> DEFINE k == Len(bs)
           Rec(f) == f = [i \in 1..k |-> IF i = 1 THEN bs[i] ELSE f[i - 1] \o bs[i]]
           flatten == CHOOSE f : Rec(f)
<1>0. PICK g : g[0] = <<>> /\ (\A n \in 1..k : g[n] = g[n - 1] \o bs[n]) /\ g[k] = cc
  BY DEF Flat
<1>1. k \in Nat /\ \A n \in 1..k : bs[n] \in Seq(S)
  BY SeqEntries
<1>2. CASE k = 0
  <2>1. bs = <<>>
    BY <1>2
  <2> QED BY <1>0, <1>2, <2>1 DEF FlattenSeq
<1>3. CASE k # 0
  <2> DEFINE h == [n \in 1..k |-> g[n]]
  <2>1. Rec(h)
    <3>1. ASSUME NEW n \in 1..k PROVE h[n] = IF n = 1 THEN bs[n] ELSE h[n - 1] \o bs[n]
      <4>1. h[n] = g[n] /\ g[n] = g[n - 1] \o bs[n]
        BY <1>0
      <4>2. CASE n = 1
        <5>1. g[n - 1] = <<>> /\ bs[n] \in Seq(S)
          BY <1>0, <1>1, <4>2
        <5>2. <<>> \o bs[n] = bs[n]
          BY <5>1
        <5> QED BY <4>1, <4>2, <5>1, <5>2
      <4>3. CASE n # 1
        <5>1. n - 1 \in 1..k
          BY <4>3
        <5>2. h[n - 1] = g[n - 1]
          BY <5>1
        <5> QED BY <4>1, <4>3, <5>2
      <4> QED BY <4>2, <4>3
    <3> QED BY <3>1
  <2>2. Rec(flatten)
    <3> HIDE DEF Rec, h
    <3> QED BY <2>1
  <2>3. FlattenSeq(bs) = flatten[k]
    BY <1>3 DEF FlattenSeq
  <2> HIDE DEF flatten
  <2>4. \A n \in 1..k : flatten[n] = IF n = 1 THEN bs[n] ELSE flatten[n - 1] \o bs[n]
    BY <2>2
  <2>5. \A n \in 1..k : h[n] = IF n = 1 THEN bs[n] ELSE h[n - 1] \o bs[n]
    <3> HIDE DEF h
    <3> QED BY <2>1
  <2> DEFINE T == {n \in Nat : n + 1 <= k => flatten[n + 1] = h[n + 1]}
  <2>6. 0 \in T
    <3>1. 1 \in 1..k
      BY <1>1, <1>3
    <3>2. flatten[1] = bs[1] /\ h[1] = bs[1]
      <4> HIDE DEF h
      <4> QED BY <3>1, <2>4, <2>5
    <3> HIDE DEF h
    <3> QED BY <3>2
  <2>7. ASSUME NEW n \in Nat, n \in T PROVE n + 1 \in T
    <3> HIDE DEF h
    <3> SUFFICES ASSUME (n + 1) + 1 <= k PROVE flatten[(n + 1) + 1] = h[(n + 1) + 1]
      OBVIOUS
    <3>1. (n + 1) + 1 \in 1..k /\ (n + 1) + 1 # 1 /\ ((n + 1) + 1) - 1 = n + 1 /\ n + 1 <= k
      BY <1>1
    <3>2. flatten[n + 1] = h[n + 1]
      BY <2>7, <3>1
    <3>3. /\ flatten[(n + 1) + 1] = flatten[n + 1] \o bs[(n + 1) + 1]
          /\ h[(n + 1) + 1] = h[n + 1] \o bs[(n + 1) + 1]
      BY <2>4, <2>5, <3>1
    <3> QED BY <3>2, <3>3
  <2>8. \A n \in Nat : n \in T
    <3> HIDE DEF T
    <3> QED BY <2>6, <2>7, SetInduction
  <2>9. k - 1 \in Nat /\ (k - 1) + 1 = k /\ k \in 1..k
    BY <1>1, <1>3
  <2>10. flatten[k] = h[k]
    <3> HIDE DEF h
    <3>1. (k - 1) + 1 <= k => flatten[(k - 1) + 1] = h[(k - 1) + 1]
      BY <2>8, <2>9
    <3> QED BY <3>1, <2>9, <1>1
  <2>11. h[k] = g[k]
    BY <2>9
  <2> HIDE DEF h
  <2> QED BY <1>0, <2>3, <2>10, <2>11
<1> QED BY <1>2, <1>3

\* One more batch goes to the end.
LEMMA FlatAppend ==
    ASSUME NEW S, NEW bs \in Seq(Seq(S)), NEW b \in Seq(S), NEW cc, Flat(cc, bs)
    PROVE  Flat(cc \o b, Append(bs, b))
<1> DEFINE k == Len(bs)
           all == Append(bs, b)
<1>0. PICK g : g[0] = <<>> /\ (\A n \in 1..k : g[n] = g[n - 1] \o bs[n]) /\ g[k] = cc
  BY DEF Flat
<1> DEFINE h == [n \in 0..(k + 1) |-> IF n <= k THEN g[n] ELSE cc \o b]
<1>1. k \in Nat /\ Len(all) = k + 1 /\ all[k + 1] = b /\ \A n \in 1..k : all[n] = bs[n]
  OBVIOUS
<1>2. h[k + 1] = cc \o b /\ \A n \in 0..k : h[n] = g[n]
  BY <1>1
<1> HIDE DEF h, all
<1>3. ASSUME NEW n \in 1..(k + 1) PROVE h[n] = h[n - 1] \o all[n]
  <2>1. CASE n \in 1..k
    <3>1. h[n] = g[n] /\ h[n - 1] = g[n - 1] /\ all[n] = bs[n]
      BY <1>1, <1>2, <2>1
    <3> QED BY <3>1, <2>1, <1>0
  <2>2. CASE n = k + 1
    <3>1. n - 1 = k /\ k \in 0..k
      BY <2>2, <1>1
    <3>2. h[n - 1] = cc
      BY <3>1, <1>0, <1>2
    <3> QED BY <3>2, <2>2, <1>1, <1>2
  <2>3. n \in 1..k \/ n = k + 1
    BY <1>1
  <2> QED BY <2>1, <2>2, <2>3
<1>4. h[0] = <<>>
  BY <1>0, <1>1, <1>2
<1>5. h[Len(all)] = cc \o b /\ \A n \in 1..Len(all) : h[n] = h[n - 1] \o all[n]
  BY <1>1, <1>2, <1>3
<1>6. Flat(cc \o b, all)
  BY <1>4, <1>5 DEF Flat
<1> QED BY <1>6 DEF all

\* Every charge a caller may bring.
Charges == UNION {Range(b) : b \in ChargeLists}

\* The amounts of a sequence of charges.
Amounts(cc) == [n \in DOMAIN cc |-> cc[n].amount]

\* The charges of an account: whole batches, every identity once.
ChargesOK(cc, ids, bs) ==
    /\ cc \in Seq(Charges) /\ bs \in Seq(Seq(Charges)) /\ Flat(cc, bs)
    /\ \A m, n \in DOMAIN cc : cc[m].identity = cc[n].identity => m = n
    /\ ids = {cc[n].identity : n \in DOMAIN cc}

\* A batch is a sequence of charges of integer amounts.
LEMMA BatchType ==
    ASSUME NEW b \in ChargeLists
    PROVE  b \in Seq(Charges)
<1>1. b \in Seq(Range(b))
  BY LedgerAssumption
<1>2. Range(b) \subseteq Charges
  BY DEF Charges
<1> HIDE DEF Charges
<1> QED BY <1>1, <1>2

\* The amounts of charges are integers and add up.
LEMMA AmountsType ==
    ASSUME NEW cc \in Seq(Charges)
    PROVE  /\ Amounts(cc) \in Seq(Int) /\ Len(Amounts(cc)) = Len(cc)
           /\ \A n \in 1..Len(cc) : Amounts(cc)[n] = cc[n].amount
<1>1. \A r \in Charges : r.amount \in Int
  BY LedgerAssumption DEF Charges
<1>2. Len(cc) \in Nat /\ DOMAIN cc = 1..Len(cc) /\ \A n \in 1..Len(cc) : cc[n] \in Charges
  BY SeqEntries
<1>3. Amounts(cc) = [n \in 1..Len(cc) |-> cc[n].amount]
  BY <1>2 DEF Amounts
<1>4. \A n \in 1..Len(cc) : cc[n].amount \in Int
  BY <1>1, <1>2
<1> QED BY <1>2, <1>3, <1>4

\* The entries of a concatenation.
Concatenates(u, s, t) ==
    /\ Len(u) = Len(s) + Len(t)
    /\ \A n \in 1..Len(s) : u[n] = s[n]
    /\ \A n \in (Len(s) + 1)..(Len(s) + Len(t)) : u[n] = t[n - Len(s)]
LEMMA ConcatEntries ==
    ASSUME NEW S, NEW s \in Seq(S), NEW t \in Seq(S)
    PROVE  s \o t \in Seq(S) /\ Concatenates(s \o t, s, t)
BY DEF Concatenates

\* A batch more is its total more.
LEMMA AmountsConcat ==
    ASSUME NEW cc \in Seq(Charges), NEW b \in Seq(Charges)
    PROVE  Total(Amounts(cc \o b)) = Total(Amounts(cc)) + Total(Amounts(b))
<1> DEFINE s == Amounts(cc)
           t == Amounts(b)
           u == Amounts(cc \o b)
<1>1. /\ s \in Seq(Int) /\ Len(s) = Len(cc) /\ (\A n \in 1..Len(cc) : s[n] = cc[n].amount)
      /\ t \in Seq(Int) /\ Len(t) = Len(b) /\ (\A n \in 1..Len(b) : t[n] = b[n].amount)
  BY AmountsType
<1>2. cc \o b \in Seq(Charges) /\ Len(cc \o b) = Len(cc) + Len(b)
  OBVIOUS
<1>3. u \in Seq(Int) /\ Len(u) = Len(cc) + Len(b)
      /\ \A n \in 1..(Len(cc) + Len(b)) : u[n] = (cc \o b)[n].amount
  BY <1>2, AmountsType
<1>4. /\ \A n \in 1..Len(cc) : (cc \o b)[n] = cc[n]
      /\ \A n \in (Len(cc) + 1)..(Len(cc) + Len(b)) : (cc \o b)[n] = b[n - Len(cc)]
  OBVIOUS
<1>0. Len(cc) \in Nat /\ Len(b) \in Nat
  OBVIOUS
<1> HIDE DEF s, t, u
<1>5. /\ s \o t \in Seq(Int) /\ Len(s \o t) = Len(cc) + Len(b)
      /\ \A n \in 1..Len(cc) : (s \o t)[n] = s[n]
      /\ \A n \in (Len(cc) + 1)..(Len(cc) + Len(b)) : (s \o t)[n] = t[n - Len(cc)]
  <2>1. s \in Seq(Int) /\ t \in Seq(Int) /\ Len(s) = Len(cc) /\ Len(t) = Len(b)
    BY <1>1
  <2> DEFINE v == s \o t
  <2>2. v \in Seq(Int) /\ Concatenates(v, s, t)
    BY <2>1, ConcatEntries
  <2> HIDE DEF v
  <2>3. /\ v \in Seq(Int) /\ Len(v) = Len(cc) + Len(b)
        /\ \A n \in 1..Len(cc) : v[n] = s[n]
        /\ \A n \in (Len(cc) + 1)..(Len(cc) + Len(b)) : v[n] = t[n - Len(cc)]
    BY <2>1, <2>2 DEF Concatenates
  <2> QED BY <2>3 DEF v
<1>6. ASSUME NEW n \in 1..(Len(cc) + Len(b)) PROVE u[n] = (s \o t)[n]
  <2>1. CASE n \in 1..Len(cc)
    BY <2>1, <1>1, <1>3, <1>4, <1>5
  <2>2. CASE n \in (Len(cc) + 1)..(Len(cc) + Len(b))
    <3>1. n - Len(cc) \in 1..Len(b)
      BY <2>2, <1>0
    <3> QED BY <2>2, <3>1, <1>1, <1>3, <1>4, <1>5
  <2>3. n \in 1..Len(cc) \/ n \in (Len(cc) + 1)..(Len(cc) + Len(b))
    BY <1>0
  <2> QED BY <2>1, <2>2, <2>3
<1>7. u = s \o t
  <2> DEFINE v == s \o t
  <2>1. v \in Seq(Int) /\ Len(v) = Len(u) /\ \A n \in 1..Len(u) : u[n] = v[n]
    BY <1>3, <1>5, <1>6
  <2> HIDE DEF v
  <2>2. u = v
    BY <1>3, <2>1
  <2> QED BY <2>2 DEF v
<1>8. Total(s \o t) = Total(s) + Total(t)
  BY <1>1, TotalConcat
<1> QED BY <1>7, <1>8 DEF s, t, u

\* An accepted batch keeps the charges in order.
LEMMA BatchChargesOK ==
    ASSUME NEW cc, NEW ids, NEW bs, ChargesOK(cc, ids, bs), NEW b \in Seq(Charges),
           \A n \in DOMAIN b : b[n].identity \notin ids,
           \A m, n \in DOMAIN b : b[m].identity = b[n].identity => m = n
    PROVE  ChargesOK(cc \o b, ids \cup {b[n].identity : n \in DOMAIN b}, Append(bs, b))
<1> DEFINE k == Len(cc)
           j == Len(b)
           all == cc \o b
<1>1. cc \in Seq(Charges) /\ bs \in Seq(Seq(Charges)) /\ Flat(cc, bs)
  BY DEF ChargesOK
<1>2. k \in Nat /\ j \in Nat /\ DOMAIN cc = 1..k /\ DOMAIN b = 1..j
  BY <1>1, SeqEntries
<1>3. /\ all \in Seq(Charges) /\ DOMAIN all = 1..(k + j)
      /\ \A n \in 1..k : all[n] = cc[n]
      /\ \A n \in (k + 1)..(k + j) : all[n] = b[n - k]
  BY <1>1
<1>4. Flat(all, Append(bs, b)) /\ Append(bs, b) \in Seq(Seq(Charges))
  BY <1>1, FlatAppend
<1> HIDE DEF all
<1>5. \A m, n \in 1..k : cc[m].identity = cc[n].identity => m = n
  BY <1>2 DEF ChargesOK
<1>6. \A m, n \in 1..j : b[m].identity = b[n].identity => m = n
  BY <1>2
<1>7. \A m \in 1..k, n \in 1..j : cc[m].identity # b[n].identity
  BY <1>2 DEF ChargesOK
<1>8. \A n \in 1..(k + j) : n \in 1..k \/ (n \in (k + 1)..(k + j) /\ n - k \in 1..j)
  BY <1>2
<1>9. ASSUME NEW m \in 1..(k + j), NEW n \in 1..(k + j), all[m].identity = all[n].identity
      PROVE  m = n
  <2>1. CASE m \in 1..k /\ n \in 1..k
    BY <2>1, <1>3, <1>5, <1>9
  <2>2. CASE m \in 1..k /\ n \in (k + 1)..(k + j) /\ n - k \in 1..j
    <3>1. all[m] = cc[m] /\ all[n] = b[n - k]
      BY <1>3, <2>2
    <3>2. cc[m].identity # b[n - k].identity
      BY <1>7, <2>2
    <3> QED BY <1>9, <3>1, <3>2
  <2>3. CASE n \in 1..k /\ m \in (k + 1)..(k + j) /\ m - k \in 1..j
    <3>1. all[n] = cc[n] /\ all[m] = b[m - k]
      BY <1>3, <2>3
    <3>2. cc[n].identity # b[m - k].identity
      BY <1>7, <2>3
    <3> QED BY <1>9, <3>1, <3>2
  <2>4. CASE n \in (k + 1)..(k + j) /\ n - k \in 1..j /\ m \in (k + 1)..(k + j) /\ m - k \in 1..j
    <3>1. b[m - k].identity = b[n - k].identity
      BY <2>4, <1>3, <1>9
    <3>2. m - k = n - k
      BY <2>4, <3>1, <1>6
    <3> QED BY <3>2, <2>4, <1>2
  <2> QED BY <2>1, <2>2, <2>3, <2>4, <1>8
<1>10. {all[n].identity : n \in DOMAIN all} = ids \cup {b[n].identity : n \in DOMAIN b}
  <2>1. ids = {cc[n].identity : n \in 1..k}
    BY <1>2 DEF ChargesOK
  <2>2. ASSUME NEW n \in 1..(k + j)
        PROVE  all[n].identity \in ids \cup {b[i].identity : i \in 1..j}
    <3>1. CASE n \in 1..k
      BY <3>1, <1>3, <2>1
    <3>2. CASE n \in (k + 1)..(k + j) /\ n - k \in 1..j
      BY <3>2, <1>3
    <3> QED BY <3>1, <3>2, <1>8
  <2>3. ASSUME NEW n \in 1..k PROVE cc[n].identity \in {all[i].identity : i \in 1..(k + j)}
    <3>1. n \in 1..(k + j) /\ all[n] = cc[n]
      BY <1>2, <1>3
    <3> QED BY <3>1
  <2>4. ASSUME NEW n \in 1..j PROVE b[n].identity \in {all[i].identity : i \in 1..(k + j)}
    <3>1. k + n \in 1..(k + j) /\ k + n \in (k + 1)..(k + j) /\ (k + n) - k = n
      BY <1>2
    <3>2. all[k + n] = b[n]
      BY <1>3, <3>1
    <3> QED BY <3>1, <3>2
  <2> DEFINE A == {all[i].identity : i \in 1..(k + j)}
             B == {b[i].identity : i \in 1..j}
  <2>5. \A x \in A : x \in ids \cup B
    BY <2>2
  <2>6. \A x \in ids : x \in A
    BY <2>1, <2>3
  <2>7. \A x \in B : x \in A
    BY <2>4
  <2>8. A = ids \cup B
    <3> HIDE DEF A, B
    <3> QED BY <2>5, <2>6, <2>7
  <2> QED BY <1>2, <1>3, <2>8
<1>11. ChargesOK(all, ids \cup {b[n].identity : n \in DOMAIN b}, Append(bs, b))
  <2>1. \A m, n \in DOMAIN all : all[m].identity = all[n].identity => m = n
    BY <1>3, <1>9
  <2> QED BY <1>3, <1>4, <1>10, <2>1 DEF ChargesOK
<1> QED BY <1>11 DEF all

\* The balance of the account: what it started with and its ledgers made,
\* less its charges.
Balanced(c, ls, cc) ==
    c = InitialCash + Sum([i \in DOMAIN ls |-> ls[i].cash]) - Total(Amounts(cc))

\* What the account holds, in every reachable state.
MoneyInv ==
    /\ ChargesOK(cash_charges, identities, batches)
    /\ Balanced(cash, ledgers, cash_charges)

\* A new account is balanced.
LEMMA MoneyInit ==
    ASSUME Init
    PROVE  MoneyInv
<1>0. AccountOK(config, ledgers)
  BY AccountInit DEF AccountInv
<1>1. cash = InitialCash /\ cash_charges = <<>> /\ identities = {} /\ batches = <<>>
  BY DEF Init
<1>2. Flat(<<>>, <<>>)
  <2> DEFINE g == [n \in 0..0 |-> <<>>]
  <2>1. g[0] = <<>> /\ Len(<<>>) = 0
    OBVIOUS
  <2> HIDE DEF g
  <2> QED BY <2>1 DEF Flat
<1>3. <<>> \in Seq(Charges) /\ <<>> \in Seq(Seq(Charges)) /\ DOMAIN <<>> = {}
  OBVIOUS
<1>4. ChargesOK(<<>>, {}, <<>>)
  BY <1>2, <1>3 DEF ChargesOK
<1>5. Total(Amounts(<<>>)) = 0
  <2>1. Amounts(<<>>) = <<>>
    BY DEF Amounts
  <2> QED BY <2>1, TotalEmpty
<1> DEFINE S == DOMAIN ledgers
           f == [i \in S |-> ledgers[i].cash]
<1>6. \A i \in S : ledgers[i].cash = 0
  BY DEF Init, NewLedger
<1>7. f \in [S -> Int] /\ \A i \in S : f[i] = f[i] + f[i]
  BY <1>6
<1>8. IsFiniteSet(S)
  BY <1>0 DEF AccountOK
<1>9. Sum(f) = 0
  <2> HIDE DEF f, S
  <2>1. Sum(f) \in Int /\ Sum(f) = Sum(f) + Sum(f)
    BY <1>7, <1>8, SumType, SumAdd
  <2>2. \A x \in Int : x = x + x => x = 0
    OBVIOUS
  <2> QED BY <2>1, <2>2
<1>10. cash = InitialCash + Sum(f) - Total(Amounts(cash_charges))
  <2> HIDE DEF f
  <2>1. InitialCash \in Int
    BY LedgerAssumption
  <2> QED BY <2>1, <1>1, <1>5, <1>9
<1> QED BY <1>1, <1>4, <1>10 DEF MoneyInv, Balanced

\* The cash of the account moves with the cash of the ledger that was filled.
LEMMA FillBalanced ==
    ASSUME AccountInv, AccountInv', MoneyInv, NEW f \in Fills, FillTaken(f),
           cash_charges' = cash_charges
    PROVE  Balanced(cash', ledgers', cash_charges')
<1> DEFINE i == f.instrument
           next == ApplyToLedger(ledgers[i], config[i], f).ledger
           S == DOMAIN ledgers
           old == [x \in S |-> ledgers[x].cash]
           new == [x \in S |-> ledgers'[x].cash]
           T == Total(Amounts(cash_charges))
<1>1. /\ i \in S /\ ledgers' = [ledgers EXCEPT ![i] = next]
      /\ cash' = cash + next.cash - ledgers[i].cash
  BY DEF FillTaken
<1>2. IsFiniteSet(S) /\ \A x \in S : ledgers[x].cash \in Int
  BY DEF AccountInv, AccountOK, LedgerOK, IsLedger
<1>3. DOMAIN ledgers' = S /\ ledgers'[i] = next /\ \A x \in S : x # i => ledgers'[x] = ledgers[x]
  <2> HIDE DEF next
  <2> QED BY <1>1
<1>4. \A x \in S : ledgers'[x].cash \in Int
  BY <1>3 DEF AccountInv, AccountOK, LedgerOK, IsLedger
<1>5. cash = InitialCash + Sum(old) - T
  BY DEF MoneyInv, Balanced
<1>6. old \in [S -> Int] /\ new \in [S -> Int] /\ (\A x \in S : x # i => new[x] = old[x])
      /\ new[i] = next.cash /\ old[i] = ledgers[i].cash
  <2> HIDE DEF next
  <2> QED BY <1>1, <1>2, <1>3, <1>4
<1>7. T \in Int
  <2>1. cash_charges \in Seq(Charges)
    BY DEF MoneyInv, ChargesOK
  <2> QED BY <2>1, AmountsType, TotalType
<1>8. i \in S
  BY <1>1
<1>9. cash' = InitialCash + Sum(new) - T
  <2> HIDE DEF old, new, S, T, next, i
  <2>1. Sum(new) = Sum(old) + (new[i] - old[i]) /\ Sum(old) \in Int
    BY <1>2, <1>6, <1>8, SumUpdate, SumType
  <2>2. new[i] \in Int /\ old[i] \in Int /\ InitialCash \in Int
    BY <1>6, <1>8, LedgerAssumption
  <2>3. cash' = cash + new[i] - old[i]
    BY <1>1, <1>6
  <2> DEFINE a == Sum(old)
             b == Sum(new)
             x == new[i]
             y == old[i]
  <2>4. b = a + (x - y) /\ a \in Int /\ x \in Int /\ y \in Int /\ cash' = cash + x - y
        /\ cash = InitialCash + a - T
    BY <1>5, <2>1, <2>2, <2>3
  <2> HIDE DEF a, b, x, y
  <2>5. cash' = InitialCash + b - T
    BY <1>7, <2>2, <2>4
  <2> QED BY <2>5 DEF b
<1>10. new = [x \in DOMAIN ledgers' |-> ledgers'[x].cash]
  BY <1>3
<1> HIDE DEF new, S
<1> QED BY <1>9, <1>10 DEF Balanced

\* Every call keeps the account balanced and its charges whole.
LEMMA MoneyNext ==
    ASSUME AccountInv, AccountInv', MoneyInv, [Next]_vars
    PROVE  MoneyInv'
<1> SUFFICES ChargesOK(cash_charges', identities', batches') /\ Balanced(cash', ledgers', cash_charges')
  BY DEF MoneyInv, ChargesOK, Balanced, Amounts, Flat
<1>0. ChargesOK(cash_charges, identities, batches) /\ Balanced(cash, ledgers, cash_charges)
  BY DEF MoneyInv
<1> DEFINE Kept == cash_charges' = cash_charges /\ identities' = identities /\ batches' = batches
           Good == ChargesOK(cash_charges', identities', batches')
                   /\ Balanced(cash', ledgers', cash_charges')
<1>1. ASSUME Kept, cash' = cash, ledgers' = ledgers PROVE Good
  BY <1>0, <1>1
<1>2. ASSUME NEW f \in Fills, ApplyFill(f) PROVE Good
  <2>1. Kept /\ ((cash' = cash /\ ledgers' = ledgers) \/ FillTaken(f))
    BY <1>2, FillStep
  <2>2. CASE FillTaken(f)
    <3>1. Balanced(cash', ledgers', cash_charges')
      BY <2>1, <2>2, FillBalanced
    <3> QED BY <1>0, <2>1, <3>1
  <2> QED BY <1>1, <2>1, <2>2
<1>3. ASSUME NEW b \in ChargeLists, ApplyCashCharges(b) PROVE Good
  <2>1. ledgers' = ledgers /\ ((Kept /\ cash' = cash) \/ BatchTaken(b))
    BY <1>3, BatchStep
  <2>2. CASE BatchTaken(b)
    <3>1. b \in Seq(Charges) /\ cash_charges \in Seq(Charges)
      BY <1>0, BatchType DEF ChargesOK
    <3>2. ChargesOK(cash_charges \o b, identities \cup {b[n].identity : n \in DOMAIN b},
                    Append(batches, b))
      BY <1>0, <2>2, <3>1, BatchChargesOK DEF BatchTaken
    <3>3. ChargesOK(cash_charges', identities', batches')
      BY <2>2, <3>2 DEF BatchTaken
    <3> DEFINE s == Sum([i \in DOMAIN ledgers |-> ledgers[i].cash])
               u == Total(Amounts(cash_charges))
               v == Total(Amounts(b))
    <3>4. s \in Int
      <4> DEFINE S == DOMAIN ledgers
                 old == [x \in S |-> ledgers[x].cash]
      <4>1. IsFiniteSet(S) /\ \A x \in S : ledgers[x].cash \in Int
        BY DEF AccountInv, AccountOK, LedgerOK, IsLedger
      <4>2. old \in [S -> Int]
        BY <4>1
      <4>3. Sum(old) \in Int
        <5> HIDE DEF old, S
        <5> QED BY <4>1, <4>2, SumType
      <4> QED BY <4>3
    <3>5. u \in Int /\ v \in Int /\ Total(Amounts(cash_charges \o b)) = u + v
      BY <3>1, AmountsType, TotalType, AmountsConcat
    <3>6. cash = InitialCash + s - u /\ cash' = cash - v /\ InitialCash \in Int
      BY <1>0, <2>2, LedgerAssumption DEF Balanced, BatchTaken, Amounts
    <3>7. cash' = InitialCash + s - (u + v)
      <4> HIDE DEF s, u, v
      <4> QED BY <3>4, <3>5, <3>6
    <3>8. cash' = InitialCash + s - Total(Amounts(cash_charges'))
      <4> HIDE DEF s, u, v
      <4> QED BY <2>2, <3>5, <3>7 DEF BatchTaken
    <3> QED BY <2>1, <3>3, <3>8 DEF Balanced
  <2> QED BY <1>1, <2>1, <2>2
<1> QED BY <1>1, <1>2, <1>3 DEF Next, vars

\* The results a call may end with when nothing is wrong with its input.
InRangeResults == {Ok, "Overflow"}

\* `?` on such results returns Ok when all of them are, otherwise Overflow.
LEMMA FirstOfIs ==
    ASSUME NEW s \in Seq(InRangeResults)
    PROVE  FirstOf(s) = IF \A n \in 1..Len(s) : s[n] = Ok THEN Ok ELSE "Overflow"
<1> DEFINE k == Len(s)
           checks == [n \in DOMAIN s |-> <<s[n] # Ok, s[n]>>]
           failing == {n \in DOMAIN checks : checks[n][1]}
<1>1. k \in Nat /\ DOMAIN s = 1..k /\ \A n \in 1..k : s[n] \in InRangeResults
  BY SeqEntries
<1>2. failing = {n \in 1..k : s[n] # Ok}
  BY <1>1
<1>3. FirstOf(s) = IF failing = {} THEN Ok ELSE checks[Min(failing)][2]
  BY DEF FirstOf, FirstError
<1>4. CASE \A n \in 1..k : s[n] = Ok
  <2>1. failing = {}
    BY <1>2, <1>4
  <2> HIDE DEF failing, checks
  <2> QED BY <1>3, <1>4, <2>1
<1>5. CASE ~\A n \in 1..k : s[n] = Ok
  <2>1. failing # {} /\ failing \in SUBSET Nat
    <3> HIDE DEF failing, checks
    <3>1. PICK n \in 1..k : s[n] # Ok
      BY <1>5
    <3>2. n \in failing
      BY <1>2, <3>1
    <3> QED BY <1>1, <1>2, <3>2
  <2>2. Min(failing) \in failing
    <3> HIDE DEF failing
    <3>1. \E x \in failing : \A y \in failing : x =< y
      BY <2>1, LeastMember
    <3> QED BY <3>1 DEF Min
  <2>3. \A n \in 1..k : checks[n][2] = s[n]
    BY <1>1
  <2> HIDE DEF failing, checks
  <2>4. Min(failing) \in 1..k /\ s[Min(failing)] # Ok
    BY <1>2, <2>2
  <2>5. checks[Min(failing)][2] = "Overflow"
    BY <1>1, <2>3, <2>4 DEF InRangeResults
  <2> QED BY <1>3, <1>5, <2>1, <2>5
<1> QED BY <1>4, <1>5

\* All results of a sequence are Ok.
AllOk(s) == \A n \in 1..Len(s) : s[n] = Ok

\* Of two loops one after the other.
LEMMA AllOkConcat ==
    ASSUME NEW s \in Seq(InRangeResults), NEW t \in Seq(InRangeResults)
    PROVE  s \o t \in Seq(InRangeResults) /\ (AllOk(s \o t) <=> AllOk(s) /\ AllOk(t))
<1> DEFINE u == s \o t
<1>1. u \in Seq(InRangeResults) /\ Concatenates(u, s, t)
  BY ConcatEntries
<1>2. Len(s) \in Nat /\ Len(t) \in Nat
  OBVIOUS
<1> HIDE DEF u
<1>3. ASSUME AllOk(u) PROVE AllOk(s) /\ AllOk(t)
  <2>1. ASSUME NEW n \in 1..Len(s) PROVE s[n] = Ok
    <3>1. n \in 1..Len(u) /\ u[n] = s[n]
      BY <1>1, <1>2 DEF Concatenates
    <3> QED BY <1>3, <3>1 DEF AllOk
  <2>2. ASSUME NEW n \in 1..Len(t) PROVE t[n] = Ok
    <3> DEFINE m == Len(s) + n
    <3>1. m \in (Len(s) + 1)..(Len(s) + Len(t)) /\ m - Len(s) = n /\ m \in 1..Len(u)
      BY <1>1, <1>2 DEF Concatenates
    <3> HIDE DEF m
    <3>2. u[m] = t[m - Len(s)]
      BY <1>1, <3>1 DEF Concatenates
    <3>3. u[m] = t[n]
      BY <3>1, <3>2
    <3>4. u[m] = Ok
      BY <1>3, <3>1 DEF AllOk
    <3> QED BY <3>3, <3>4
  <2> QED BY <2>1, <2>2 DEF AllOk
<1>4. ASSUME AllOk(s), AllOk(t) PROVE AllOk(u)
  <2> SUFFICES ASSUME NEW n \in 1..Len(u) PROVE u[n] = Ok
    BY DEF AllOk
  <2>1. Len(u) = Len(s) + Len(t)
    BY <1>1 DEF Concatenates
  <2>2. CASE n \in 1..Len(s)
    <3>1. u[n] = s[n]
      BY <1>1, <2>2 DEF Concatenates
    <3> QED BY <1>4, <2>2, <3>1 DEF AllOk
  <2>3. CASE n \in (Len(s) + 1)..(Len(s) + Len(t))
    <3>1. n - Len(s) \in 1..Len(t) /\ u[n] = t[n - Len(s)]
      BY <1>1, <1>2, <2>3 DEF Concatenates
    <3> QED BY <1>4, <3>1 DEF AllOk
  <2>4. n \in 1..Len(s) \/ n \in (Len(s) + 1)..(Len(s) + Len(t))
    BY <1>2, <2>1
  <2> QED BY <2>2, <2>3, <2>4
<1> QED BY <1>1, <1>3, <1>4 DEF u

\* The BTreeMap's order lists the instruments.
LEMMA InstrumentsAre ==
    ASSUME AccountInv
    PROVE  /\ Instruments \in Seq(DOMAIN ledgers)
           /\ Len(Instruments) = Cardinality(DOMAIN ledgers)
           /\ DOMAIN Instruments = 1..Cardinality(DOMAIN ledgers)
<1> DEFINE S == DOMAIN ledgers
           q == SetToSeq(S)
           k == Cardinality(S)
<1>1. IsFiniteSet(S)
  BY DEF AccountInv, AccountOK
<1>2. k \in Nat /\ q \in [1..k -> S]
  BY <1>1, Enumeration DEF Enumerates
<1> HIDE DEF q, k, S
<1>3. q \in Seq(S) /\ Len(q) = k /\ DOMAIN q = 1..k
  BY <1>2
<1> QED BY <1>3 DEF q, k, S, Instruments

\* A sum over all instruments in that order is their sum.
LEMMA SumToAll ==
    ASSUME AccountInv, NEW f \in [DOMAIN ledgers -> Int]
    PROVE  SumTo(f, Len(Instruments)) = Sum(f)
<1>1. Len(Instruments) = Cardinality(DOMAIN ledgers)
  BY InstrumentsAre
<1>2. DOMAIN f = DOMAIN ledgers
  OBVIOUS
<1> QED BY <1>1, <1>2 DEF SumTo, Sum, Instruments

\* The charges in their order add up to all of them.
LEMMA ChargedIs ==
    ASSUME MoneyInv
    PROVE  Charged = Total(Amounts(cash_charges))
<1>1. cash_charges \in Seq(Charges)
  BY DEF MoneyInv, ChargesOK
<1>2. DOMAIN cash_charges = 1..Len(cash_charges)
  BY <1>1, SeqEntries
<1> QED BY <1>2 DEF Charged, ChargedTo, Amounts

\* What reconcile rebuilds is the cash of the account.
LEMMA RebuiltCash ==
    ASSUME AccountInv, MoneyInv
    PROVE  cash = CashAfterCharges(Len(cash_charges))
<1> DEFINE f == [i \in DOMAIN ledgers |-> ledgers[i].cash]
<1>1. \A i \in DOMAIN ledgers : ledgers[i].cash \in Int
  BY DEF AccountInv, AccountOK, LedgerOK, IsLedger
<1>2. f \in [DOMAIN ledgers -> Int]
  BY <1>1
<1>3. cash = InitialCash + Sum(f) - Total(Amounts(cash_charges))
  BY DEF MoneyInv, Balanced
<1>4. CashAfterCharges(Len(cash_charges)) = (InitialCash + SumTo(f, Len(Instruments))) - Charged
  BY DEF CashAfterCharges, CashOfLedgers, Charged
<1> HIDE DEF f
<1>5. SumTo(f, Len(Instruments)) = Sum(f)
  BY <1>2, SumToAll
<1>6. Charged = Total(Amounts(cash_charges))
  BY ChargedIs
<1>7. InitialCash \in Int
  BY LedgerAssumption
<1>8. Sum(f) \in Int
  <2>1. IsFiniteSet(DOMAIN ledgers)
    BY DEF AccountInv, AccountOK
  <2> QED BY <1>2, <2>1, SumType
<1>9. Total(Amounts(cash_charges)) \in Int
  <2>1. cash_charges \in Seq(Charges)
    BY DEF MoneyInv, ChargesOK
  <2> QED BY <2>1, AmountsType, TotalType
<1>10. \A x, y, z \in Int : (x + y) - z = x + y - z
  OBVIOUS
<1> QED BY <1>3, <1>4, <1>5, <1>6, <1>7, <1>8, <1>9, <1>10

\* Batches and balance: the invariant of the account implies the property.
LEMMA WholeBatches ==
    ASSUME AccountInv, MoneyInv
    PROVE  ChargesAreWholeBatches
<1>1. cash_charges = FlattenSeq(batches)
  BY FlattenIs DEF MoneyInv, ChargesOK
<1>2. ASSUME NEW i \in DOMAIN ledgers PROVE ReconcileLedger(ledgers[i], config[i]) = Ok
  <2>1. Replayed(ledgers[i], config[i]) /\ ledgers[i].fills \in Seq(Fills)
    BY DEF AccountInv, AccountOK, LedgerOK, IsLedger
  <2>2. Len(ledgers[i].fills) \in Nat
    BY <2>1, SeqEntries
  <2> QED BY <2>1, <2>2, RebuiltIs
<1>3. /\ \A m, n \in DOMAIN cash_charges :
           cash_charges[m].identity = cash_charges[n].identity => m = n
      /\ {cash_charges[n].identity : n \in DOMAIN cash_charges} = identities
      /\ cash_charges \in Seq(Charges)
  BY DEF MoneyInv, ChargesOK
<1> DEFINE AtLedger(i, n) == FirstOf(<<ReconcileLedger(ledgers[i], config[i]),
                                       InRange(CashOfLedgers(n))>>)
           AtCharge(n) ==
             IF \E k \in 1..(n - 1) : cash_charges[k].identity = cash_charges[n].identity
             THEN "Reconciliation" ELSE InRange(CashAfterCharges(n))
           agrees == /\ {cash_charges[n].identity : n \in DOMAIN cash_charges} = identities
                     /\ cash = CashAfterCharges(Len(cash_charges))
           s == [n \in DOMAIN Instruments |-> AtLedger(Instruments[n], n)]
           t == [n \in DOMAIN cash_charges |-> AtCharge(n)]
           last == IF agrees THEN Ok ELSE "Reconciliation"
           k == Len(Instruments)
           j == Len(cash_charges)
<1>4. Reconcile = FirstOf(s \o t \o <<last>>)
  BY DEF Reconcile
<1>5. last = Ok
  BY <1>3, RebuiltCash
<1>6. \A n : InRange(n) \in InRangeResults /\ (InRange(n) = Ok <=> Fits(n))
  BY DEF InRange, InRangeResults, Ok
<1>7. k \in Nat /\ DOMAIN Instruments = 1..k /\ \A n \in 1..k : Instruments[n] \in DOMAIN ledgers
  BY InstrumentsAre, SeqEntries
<1>8. ASSUME NEW n \in 1..k PROVE AtLedger(Instruments[n], n) = InRange(CashOfLedgers(n))
  <2> DEFINE r == InRange(CashOfLedgers(n))
  <2>1. AtLedger(Instruments[n], n) = FirstOf(<<Ok, r>>)
    BY <1>2, <1>7
  <2>2. r \in InRangeResults /\ Ok \in InRangeResults
    BY <1>6 DEF InRangeResults
  <2> HIDE DEF r
  <2> DEFINE v == <<Ok, r>>
  <2>3. v \in Seq(InRangeResults) /\ Len(v) = 2 /\ v[1] = Ok /\ v[2] = r
    BY <2>2
  <2> HIDE DEF v
  <2>4. FirstOf(v) = IF \A m \in 1..2 : v[m] = Ok THEN Ok ELSE "Overflow"
    BY <2>3, FirstOfIs
  <2>5. FirstOf(v) = r
    BY <2>2, <2>3, <2>4 DEF InRangeResults
  <2> QED BY <2>1, <2>5 DEF v, r
<1>9. s \in Seq(InRangeResults) /\ (AllOk(s) <=> \A n \in DOMAIN Instruments : Fits(CashOfLedgers(n)))
  <2> HIDE DEF AtLedger, k
  <2>1. \A n \in 1..k : s[n] = InRange(CashOfLedgers(n))
    BY <1>7, <1>8
  <2>2. s = [n \in 1..k |-> s[n]]
    BY <1>7
  <2> HIDE DEF s
  <2>3. s \in Seq(InRangeResults) /\ Len(s) = k
    BY <1>6, <1>7, <2>1, <2>2
  <2> QED BY <1>6, <1>7, <2>1, <2>3 DEF AllOk
<1>10. j \in Nat /\ DOMAIN cash_charges = 1..j
  BY <1>3, SeqEntries
<1>11. ASSUME NEW n \in 1..j PROVE AtCharge(n) = InRange(CashAfterCharges(n))
  <2>1. ASSUME NEW m \in 1..(n - 1) PROVE cash_charges[m].identity # cash_charges[n].identity
    <3>1. m \in 1..j /\ m # n
      BY <1>10
    <3> QED BY <1>3, <1>10, <3>1
  <2> QED BY <2>1
<1>12. t \in Seq(InRangeResults)
       /\ (AllOk(t) <=> \A n \in DOMAIN cash_charges : Fits(CashAfterCharges(n)))
  <2> HIDE DEF AtCharge, j
  <2>1. \A n \in 1..j : t[n] = InRange(CashAfterCharges(n))
    BY <1>10, <1>11
  <2>2. t = [n \in 1..j |-> t[n]]
    BY <1>10
  <2> HIDE DEF t
  <2>3. t \in Seq(InRangeResults) /\ Len(t) = j
    BY <1>6, <1>10, <2>1, <2>2
  <2> QED BY <1>6, <1>10, <2>1, <2>3 DEF AllOk
<1> HIDE DEF s, t, last
<1> DEFINE w == <<last>>
           all == s \o t
<1>13. w \in Seq(InRangeResults) /\ AllOk(w)
  BY <1>5 DEF InRangeResults, AllOk
<1> HIDE DEF w
<1>14. all \in Seq(InRangeResults) /\ (AllOk(all) <=> AllOk(s) /\ AllOk(t))
  BY <1>9, <1>12, AllOkConcat
<1> HIDE DEF all
<1>15. all \o w \in Seq(InRangeResults) /\ (AllOk(all \o w) <=> AllOk(all) /\ AllOk(w))
  BY <1>13, <1>14, AllOkConcat
<1>16. FirstOf(all \o w) = IF AllOk(all \o w) THEN Ok ELSE "Overflow"
  BY <1>15, FirstOfIs DEF AllOk
<1>17. AllOk(all \o w) <=> RebuiltInRange
  BY <1>9, <1>12, <1>13, <1>14, <1>15 DEF RebuiltInRange
<1>18. Reconcile = FirstOf(all \o w)
  BY <1>4 DEF all, w
<1> QED BY <1>1, <1>16, <1>17, <1>18 DEF ChargesAreWholeBatches

\* ChargesAreWholeBatches: whatever calls came before, accepted or refused,
\* the account holds whole batches of charges and reconcile finds no
\* disagreement; it returns Ok, or Overflow exactly when a sum it makes on its
\* way leaves the range.
\* MultiLedger::apply_cash_charges and MultiLedger::reconcile.
THEOREM AccountAlwaysReconciles == Spec => []ChargesAreWholeBatches
<1>1. Init => AccountInv /\ MoneyInv
  BY AccountInit, MoneyInit
<1>2. AccountInv /\ MoneyInv /\ [Next]_vars => AccountInv' /\ MoneyInv'
  BY AccountNext, MoneyNext
<1>3. AccountInv /\ MoneyInv => ChargesAreWholeBatches
  BY WholeBatches
<1> QED BY <1>1, <1>2, <1>3, PTL DEF Spec

-----------------------------------------------------------------------------
(* Marking to market.                                                      *)

\* A whole multiple of Scale divides by it.
LEMMA DivideExact ==
    ASSUME NEW x \in Int
    PROVE  (Scale * x) \div Scale = x
<1>1. Scale \in Nat \ {0}
  BY LedgerAssumption
<1> DEFINE w == Scale * x
<1>2. w \in Int
  BY <1>1
<1> HIDE DEF w
<1> DEFINE q == w \div Scale
           r == w % Scale
<1>3. q \in Int /\ r \in 0..(Scale - 1) /\ w = Scale * q + r
  BY <1>1, <1>2
<1> HIDE DEF q, r
<1> DEFINE d == x - q
<1>4. d \in Int /\ x = q + d
  BY <1>3
<1> HIDE DEF d
<1>5. Scale * x = Scale * q + Scale * d
  BY <1>1, <1>3, <1>4
<1>6. Scale * d = r
  BY <1>1, <1>3, <1>4, <1>5 DEF w
<1>7. d >= 1 => Scale * d >= Scale
  BY <1>1, <1>4
<1>8. d <= -1 => Scale * d <= -Scale
  BY <1>1, <1>4
<1>9. d = 0
  BY <1>1, <1>3, <1>4, <1>6, <1>7, <1>8
<1> QED BY <1>3, <1>4, <1>9 DEF q, w

\* What scale_by_quantity accepts is a whole number of atoms.
LEMMA ExactFactor ==
    ASSUME NEW v \in Int, NEW c, c.multiplier \in Int, Exact(v, c)
    PROVE  \E p \in Int : v * c.multiplier = Scale * p
<1> DEFINE w == v * c.multiplier
<1>1. w \in Int /\ w % Scale = 0 /\ Scale \in Nat \ {0}
  BY LedgerAssumption DEF Exact
<1> HIDE DEF w
<1>2. w \div Scale \in Int /\ w = Scale * (w \div Scale)
  BY <1>1
<1> QED BY <1>2 DEF w

\* The scaled value of a whole number of atoms.
LEMMA ScaledFactor ==
    ASSUME NEW v \in Int, NEW c, c.multiplier \in Int, c.units \in Int, NEW p \in Int,
           v * c.multiplier = Scale * p
    PROVE  Scaled(v, 1, c) = p * c.units
<1>1. Scaled(v, 1, c) = p * 1 * c.units
  BY DivideExact DEF Scaled
<1>2. p * 1 = p
  OBVIOUS
<1> QED BY <1>1, <1>2

\* And a whole number of atoms is accepted.
LEMMA FactorExact ==
    ASSUME NEW v \in Int, NEW c, c.multiplier \in Int, NEW p \in Int, v * c.multiplier = Scale * p
    PROVE  Exact(v, c)
<1> DEFINE w == Scale * p
<1>1. Scale \in Nat \ {0}
  BY LedgerAssumption
<1>2. w \in Int /\ w \div Scale = p
  BY <1>1, DivideExact
<1>3. w % Scale = 0
  <2>1. w = Scale * p
    OBVIOUS
  <2> HIDE DEF w
  <2>2. w = Scale * (w \div Scale) + (w % Scale) /\ w % Scale \in Int
    BY <1>1, <1>2
  <2>3. w = w + (w % Scale)
    BY <1>2, <2>1, <2>2
  <2> QED BY <1>2, <2>2, <2>3
<1> QED BY <1>3 DEF Exact

\* An exact mark and an exact cost scale exactly, whatever the size.
LEMMA ExactMark ==
    ASSUME NEW c, c.multiplier \in Int, NEW mark \in Int, NEW basis \in Int,
           NEW size \in Int, NEW sign \in {1, -1}, Exact(mark, c), Exact(basis, c)
    PROVE  Exact(mark * size, c) /\ Exact(sign * (mark * size - basis), c)
<1> DEFINE m == c.multiplier
<1>1. m \in Int /\ Scale \in Int /\ sign \in Int
  BY LedgerAssumption
<1>2. PICK p \in Int : mark * m = Scale * p
  BY ExactFactor
<1>3. PICK r \in Int : basis * m = Scale * r
  BY ExactFactor
<1>4. (mark * size) * m = Scale * (p * size)
  <2> HIDE DEF m
  <2>1. (mark * size) * m = (mark * m) * size
    BY <1>1
  <2>2. (Scale * p) * size = Scale * (p * size)
    BY <1>1
  <2> QED BY <1>2, <2>1, <2>2
<1>5. (sign * (mark * size - basis)) * m = Scale * (sign * (p * size - r))
  <2> DEFINE a == mark * size
             b == p * size
  <2>1. a \in Int /\ b \in Int /\ a * m = Scale * b
    BY <1>4
  <2> HIDE DEF m, a, b
  <2>2. (a - basis) * m = a * m - basis * m
    BY <1>1, <2>1
  <2>3. Scale * (b - r) = Scale * b - Scale * r
    BY <1>1, <2>1
  <2>4. (a - basis) * m = Scale * (b - r)
    BY <1>3, <2>1, <2>2, <2>3
  <2>5. CASE sign = 1
    <3>1. sign * (a - basis) = a - basis /\ sign * (b - r) = b - r
      BY <2>5, <2>1
    <3> QED BY <2>4, <3>1 DEF a, b
  <2>6. CASE sign = -1
    <3>1. sign * (a - basis) = -(a - basis) /\ sign * (b - r) = -(b - r)
      BY <2>6, <2>1
    <3>2. (-(a - basis)) * m = -((a - basis) * m) /\ Scale * (-(b - r)) = -(Scale * (b - r))
      BY <1>1, <2>1
    <3>3. (sign * (a - basis)) * m = Scale * (sign * (b - r))
      BY <2>4, <3>1, <3>2
    <3> QED BY <3>3 DEF a, b
  <2> QED BY <2>5, <2>6
<1>6. /\ mark * size \in Int /\ p * size \in Int /\ sign * (p * size - r) \in Int
      /\ sign * (mark * size - basis) \in Int
  BY <1>1
<1> HIDE DEF m
<1>7. Exact(mark * size, c)
  BY <1>4, <1>6, FactorExact DEF m
<1> DEFINE d == sign * (mark * size - basis)
           q == sign * (p * size - r)
<1>8. d \in Int /\ q \in Int /\ d * m = Scale * q
  BY <1>5, <1>6
<1> HIDE DEF d, q
<1>9. Exact(d, c)
  BY <1>8, FactorExact DEF m
<1> QED BY <1>7, <1>9 DEF d

\* Of a position of a sign, the marked value is what is unrealized and its
\* cost.
MarksExactly(c, marked, basis, sign) ==
    \E r \in Int : /\ basis * c.multiplier = Scale * r
                   /\ sign * Scaled(marked, 1, c)
                        = Scaled(sign * (marked - basis), 1, c) + sign * r * c.units

\* Marking a paid position: its value less its cost is what is unrealized.
LEMMA MarkExact ==
    ASSUME NEW c, c.multiplier \in Int, c.units \in Int, NEW marked \in Int, NEW basis \in Int,
           NEW sign \in {1, -1}, Exact(marked, c), Exact(sign * (marked - basis), c)
    PROVE  MarksExactly(c, marked, basis, sign)
<1> DEFINE m == c.multiplier
           u == c.units
           d == sign * (marked - basis)
<1>1. m \in Int /\ u \in Int /\ Scale \in Int /\ sign \in Int /\ d \in Int
  BY LedgerAssumption
<1>2. PICK p \in Int : marked * m = Scale * p
  BY ExactFactor
<1>3. PICK e \in Int : d * m = Scale * e
  <2>1. Exact(d, c)
    OBVIOUS
  <2> HIDE DEF d
  <2> QED BY <1>1, <2>1, ExactFactor
<1>4. Scaled(marked, 1, c) = p * u
  BY <1>2, ScaledFactor
<1>5. Scaled(d, 1, c) = e * u
  <2> HIDE DEF d
  <2> QED BY <1>1, <1>3, ScaledFactor
<1> DEFINE r == p - sign * e
<1>6. r \in Int /\ basis * m = Scale * r /\ sign * (p * u) = e * u + sign * r * u
  <2>1. CASE sign = 1
    <3>1. basis = marked - d /\ r = p - e
      BY <1>1, <2>1
    <3> HIDE DEF d, r, m, u
    <3>2. (marked - d) * m = marked * m - d * m
      BY <1>1
    <3>3. Scale * (p - e) = Scale * p - Scale * e
      BY <1>1
    <3>4. p * u = e * u + (p - e) * u
      BY <1>1
    <3>5. sign * (p * u) = p * u /\ sign * r = r /\ r \in Int
      BY <1>1, <2>1, <3>1
    <3> QED BY <1>2, <1>3, <3>1, <3>2, <3>3, <3>4, <3>5
  <2>2. CASE sign = -1
    <3>1. basis = marked + d /\ r = p + e
      BY <1>1, <2>2
    <3> HIDE DEF d, r, m, u
    <3>2. (marked + d) * m = marked * m + d * m
      BY <1>1
    <3>3. Scale * (p + e) = Scale * p + Scale * e
      BY <1>1
    <3>4. -(p * u) = e * u + (-(p + e)) * u
      BY <1>1
    <3>5. sign * (p * u) = -(p * u) /\ sign * r = -(p + e) /\ r \in Int
      BY <1>1, <2>2, <3>1
    <3> QED BY <1>2, <1>3, <3>1, <3>2, <3>3, <3>4, <3>5
  <2> QED BY <2>1, <2>2
<1> HIDE DEF r
<1>7. MarksExactly(c, marked, basis, sign)
  BY <1>4, <1>5, <1>6 DEF MarksExactly
<1> QED BY <1>7

\* mark_to_market_adjustment of a ledger.
Adjustment(l, c, mark) ==
    IF l.position = 0 THEN 0
    ELSE IF c.model = "FuturesV1" THEN Unrealized(l, c, mark)
    ELSE Sign(l.position) * Scaled(MarkedValue(l, mark), 1, c)

\* The types of what a mark makes of a ledger.
LEMMA MarkTypes ==
    ASSUME NEW l, NEW c, LedgerOK(l, c), NEW mark \in Int
    PROVE  Adjustment(l, c, mark) \in Int /\ Unrealized(l, c, mark) \in Int
<1>1. /\ c.multiplier \in Int /\ c.units \in Int /\ l.position \in Int /\ l.basis \in Int
  BY DEF LedgerOK, IsLedger, Accepted, IsConfig
<1>2. Sign(l.position) \in Int /\ Abs(l.position) \in Int
  BY <1>1 DEF Sign, Abs
<1>3. /\ mark * Abs(l.position) \in Int
      /\ Sign(l.position) * (mark * Abs(l.position) - l.basis) \in Int
  <2> DEFINE s == Sign(l.position)
             a == Abs(l.position)
             b == l.basis
  <2>1. s \in Int /\ a \in Int /\ b \in Int
    BY <1>1, <1>2
  <2> HIDE DEF s, a, b
  <2>2. mark * a \in Int
    BY <2>1
  <2>3. mark * a - b \in Int
    BY <2>1, <2>2
  <2>4. s * (mark * a - b) \in Int
    BY <2>1, <2>3
  <2> QED BY <2>2, <2>4 DEF s, a, b
<1>4. Unrealized(l, c, mark) \in Int
  BY <1>1, <1>3, ScaledExact DEF Unrealized, Difference, MarkedValue
<1>5. Scaled(mark * Abs(l.position), 1, c) \in Int
  BY <1>1, <1>3, ScaledExact
<1>6. Sign(l.position) * Scaled(mark * Abs(l.position), 1, c) \in Int
  <2> DEFINE s == Sign(l.position)
             a == Scaled(mark * Abs(l.position), 1, c)
  <2>1. s \in Int /\ a \in Int
    BY <1>2, <1>5
  <2> HIDE DEF s, a
  <2>2. s * a \in Int
    BY <2>1
  <2> QED BY <2>2 DEF s, a
<1> QED BY <1>4, <1>6 DEF Adjustment, MarkedValue

\* One ledger: its cash and the adjustment are its realized and unrealized
\* P&L less its costs.
LEMMA MarkedLedger ==
    ASSUME NEW l, NEW c, LedgerOK(l, c), NEW mark \in Int,
           l.position # 0 /\ c.model # "FuturesV1" =>
               Exact(MarkedValue(l, mark), c) /\ Exact(Difference(l, mark), c)
    PROVE  l.cash + Adjustment(l, c, mark) + l.fee + l.tax = l.realized + Unrealized(l, c, mark)
<1>1. /\ c.multiplier \in Int /\ c.units \in Int /\ l.position \in Int /\ l.basis \in Int
      /\ l.cash \in Int /\ l.realized \in Int /\ l.fee \in Int /\ l.tax \in Int
      /\ Scale \in Nat \ {0}
  <2>1. Scale \in Nat \ {0}
    BY LedgerAssumption
  <2>2. c.multiplier \in Int /\ c.units \in Int
    BY DEF LedgerOK, Accepted, IsConfig
  <2>3. /\ l.position \in Int /\ l.basis \in Int /\ l.cash \in Int /\ l.realized \in Int
        /\ l.fee \in Int /\ l.tax \in Int
    BY DEF LedgerOK, IsLedger
  <2> QED BY <2>1, <2>2, <2>3
<1> DEFINE cash0 == l.cash
           real == l.realized
           fee == l.fee
           tax == l.tax
           adj == Adjustment(l, c, mark)
           un == Unrealized(l, c, mark)
           z == cash0 - real + fee + tax
<1>2. adj \in Int /\ un \in Int
  BY MarkTypes
<1>3. cash0 \in Int /\ real \in Int /\ fee \in Int /\ tax \in Int /\ z \in Int
  BY <1>1
<1> SUFFICES z + adj = un
  <2> HIDE DEF cash0, real, fee, tax, adj, un
  <2>1. cash0 + adj + fee + tax = real + un
    BY <1>2, <1>3
  <2> QED BY <2>1 DEF cash0, real, fee, tax, adj, un
<1>4. CASE c.model = "FuturesV1"
  <2>1. cash0 = real - fee - tax
    BY <1>4 DEF LedgerOK, Explained
  <2>2. z = 0
    <3> HIDE DEF cash0, real, fee, tax
    <3> QED BY <1>3, <2>1
  <2>3. adj = un
    BY <1>4 DEF Adjustment, Unrealized
  <2> HIDE DEF z, adj, un
  <2> QED BY <1>2, <2>2, <2>3
<1>5. CASE c.model # "FuturesV1"
  <2> DEFINE s == Sign(l.position)
             w == s * l.basis * c.multiplier * c.units
  <2>1. Scale * z = -w
    BY <1>5 DEF LedgerOK, Explained
  <2>2. CASE l.position = 0
    <3>1. l.basis = 0 /\ s = 0 /\ adj = 0 /\ un = 0
      BY <2>2 DEF LedgerOK, Explained, Sign, Adjustment, Unrealized
    <3>2. w = 0
      BY <3>1, <1>1
    <3>3. \A x \in Int : Scale * x = 0 => x = 0
      BY <1>1
    <3>4. Scale * z = 0
      <4>1. \A x, y \in Int : x = -y => x + y = 0
        OBVIOUS
      <4> HIDE DEF z, w
      <4>2. Scale * z \in Int /\ w \in Int
        BY <1>1, <1>3, <3>2
      <4>3. Scale * z + w = 0
        BY <2>1, <4>1, <4>2
      <4> QED BY <3>2, <4>2, <4>3
    <3>5. z = 0
      <4> HIDE DEF z
      <4> QED BY <1>3, <3>3, <3>4
    <3> HIDE DEF z, adj, un
    <3> QED BY <3>1, <3>5
  <2>3. CASE l.position # 0
    <3> DEFINE a == Abs(l.position)
               b == l.basis
               m == c.multiplier
               u == c.units
    <3>1. a \in Int /\ s \in {1, -1} /\ b \in Int /\ m \in Int /\ u \in Int /\ s \in Int
      BY <1>1, <2>3 DEF Sign, Abs
    <3>2. PICK r \in Int : /\ b * m = Scale * r
                           /\ s * Scaled(mark * a, 1, c) = Scaled(s * (mark * a - b), 1, c) + s * r * u
      <4> DEFINE v == mark * a
      <4>0. Exact(v, c) /\ Exact(s * (v - b), c)
        BY <1>5, <2>3 DEF MarkedValue, Difference
      <4> HIDE DEF s, a
      <4>2. v \in Int
        BY <3>1
      <4> HIDE DEF v
      <4>1. MarksExactly(c, v, b, s)
        BY <3>1, <4>0, <4>2, MarkExact
      <4> QED BY <4>1 DEF MarksExactly, v
    <3>3. adj = s * Scaled(mark * a, 1, c) /\ un = Scaled(s * (mark * a - b), 1, c)
      BY <1>5, <2>3 DEF Adjustment, Unrealized, MarkedValue, Difference
    <3>4. adj = un + s * r * u
      <4> HIDE DEF adj, un, s, a, b, u
      <4> QED BY <3>2, <3>3
    <3> DEFINE k == s * r * u
    <3>5. k \in Int /\ w = Scale * k
      <4>1. w = s * b * m * u
        OBVIOUS
      <4> HIDE DEF w, s, a, b, m, u
      <4>2. s * b * m * u = (s * u) * (b * m)
        BY <3>1
      <4>3. (s * u) * (Scale * r) = Scale * (s * r * u)
        BY <1>1, <3>1
      <4>4. s * r * u \in Int
        BY <3>1
      <4> QED BY <3>2, <4>1, <4>2, <4>3, <4>4
    <3>6. z + k = 0
      <4> HIDE DEF z, w, k
      <4>1. w \in Int /\ Scale * z \in Int
        BY <1>1, <1>3, <3>5
      <4>2. Scale * z + w = 0
        <5>1. \A x, y \in Int : x = -y => x + y = 0
          OBVIOUS
        <5> QED BY <2>1, <4>1, <5>1
      <4>3. Scale * (z + k) = Scale * z + Scale * k
        BY <1>1, <1>3, <3>5
      <4>4. \A x \in Int : Scale * x = 0 => x = 0
        BY <1>1
      <4>5. z + k \in Int /\ Scale * (z + k) = 0
        BY <1>3, <3>5, <4>2, <4>3
      <4> QED BY <4>4, <4>5
    <3> HIDE DEF z, adj, un, k
    <3>7. adj = un + k
      BY <3>4 DEF k
    <3> QED BY <1>2, <1>3, <3>5, <3>6, <3>7
  <2> QED BY <2>2, <2>3
<1> QED BY <1>4, <1>5

\* A list of five.
LEMMA FiveFacts ==
    ASSUME NEW a, NEW b, NEW c, NEW d, NEW e
    PROVE  IsSeq(<<a, b, c, d, e>>) /\ Len(<<a, b, c, d, e>>) = 5 /\ <<a, b, c, d, e>>[1] = a
<1>1. <<a, b, c, d, e>> \in Seq({a, b, c, d, e}) /\ Len(<<a, b, c, d, e>>) = 5
      /\ <<a, b, c, d, e>>[1] = a
  OBVIOUS
<1> QED BY <1>1 DEF IsSeq

\* A sequence of results that ends Ok has nothing else in it.
LEMMA FirstOfOk ==
    ASSUME NEW s, IsSeq(s), FirstOf(s) = Ok
    PROVE  \A n \in 1..Len(s) : s[n] = Ok
<1> DEFINE k == Len(s)
           checks == [n \in DOMAIN s |-> <<s[n] # Ok, s[n]>>]
<1>1. k \in Nat /\ DOMAIN s = 1..k
  BY SeqFacts
<1>2. FirstError(checks) = Ok /\ DOMAIN checks = 1..k
  BY <1>1 DEF FirstOf
<1>3. \A n \in 1..k : (checks[n][1] <=> s[n] # Ok) /\ checks[n][2] = s[n]
  BY <1>1
<1> HIDE DEF checks, k
<1>4. \A n \in 1..k : ~checks[n][1]
  BY <1>1, <1>2, <1>3, NoneFails
<1> QED BY <1>3, <1>4 DEF k

\* What MultiLedger::performance sums, every instrument at one mark.
RealizedOf == [i \in DOMAIN ledgers |-> ledgers[i].realized]
FeeOf == [i \in DOMAIN ledgers |-> ledgers[i].fee]
TaxOf == [i \in DOMAIN ledgers |-> ledgers[i].tax]
UnrealizedOf(mark) == [i \in DOMAIN ledgers |-> Unrealized(ledgers[i], config[i], mark)]

\* The results of its loops, over the charges and over the instruments.
SumResults(mark, i, n) ==
    <<UnrealizedError(ledgers[i], config[i], mark), InRange(SumTo(RealizedOf, n)),
      InRange(SumTo(UnrealizedOf(mark), n)), InRange(SumTo(FeeOf, n)), InRange(SumTo(TaxOf, n))>>
ChargeResults == [n \in DOMAIN cash_charges |-> InRange(ChargedTo(n))]
LedgerResults(mark) ==
    [n \in DOMAIN Instruments |-> FirstOf(SumResults(mark, Instruments[n], n))]

\* What it reports.
Reports(p, mark) ==
    /\ p.error = FirstOf(ChargeResults \o LedgerResults(mark)) /\ p.charges = Charged
    /\ p.realized = Sum(RealizedOf) /\ p.unrealized = Sum(UnrealizedOf(mark))
    /\ p.fee = Sum(FeeOf) /\ p.tax = Sum(TaxOf)

\* It does.
LEMMA PerformanceIs ==
    ASSUME AccountInv, NEW mark
    PROVE  Reports(Performance([i \in DOMAIN ledgers |-> mark]), mark)
<1> DEFINE marks == [i \in DOMAIN ledgers |-> mark]
           Open(i) == ledgers[i].position # 0
           unrealized == [i \in DOMAIN ledgers |->
                            IF Open(i) /\ i \in DOMAIN marks
                            THEN Unrealized(ledgers[i], config[i], marks[i]) ELSE 0]
           Marked(i) == IF ~Open(i) THEN Ok
                        ELSE IF i \notin DOMAIN marks THEN "MissingFinalMark"
                        ELSE UnrealizedError(ledgers[i], config[i], marks[i])
           AtLedger(i, n) == FirstOf(<<Marked(i), InRange(SumTo(RealizedOf, n)),
                                       InRange(SumTo(unrealized, n)), InRange(SumTo(FeeOf, n)),
                                       InRange(SumTo(TaxOf, n))>>)
           t == [n \in DOMAIN Instruments |-> AtLedger(Instruments[n], n)]
           p == Performance(marks)
<1>1. /\ p.error = FirstOf(ChargeResults \o t) /\ p.charges = Charged
      /\ p.realized = Sum(RealizedOf) /\ p.unrealized = Sum(unrealized)
      /\ p.fee = Sum(FeeOf) /\ p.tax = Sum(TaxOf)
  BY DEF Performance, ChargeResults, RealizedOf, FeeOf, TaxOf
<1>2. unrealized = UnrealizedOf(mark)
  BY DEF UnrealizedOf, Unrealized
<1>3. \A i \in DOMAIN ledgers : Marked(i) = UnrealizedError(ledgers[i], config[i], mark)
  BY DEF UnrealizedError
<1>4. \A n \in DOMAIN Instruments : Instruments[n] \in DOMAIN ledgers
  BY InstrumentsAre, SeqEntries
<1> HIDE DEF unrealized, Marked, marks
<1>5. t = LedgerResults(mark)
  <2>1. \A n \in DOMAIN Instruments : t[n] = FirstOf(SumResults(mark, Instruments[n], n))
    BY <1>2, <1>3, <1>4 DEF SumResults
  <2>2. t = [n \in DOMAIN Instruments |-> t[n]]
    OBVIOUS
  <2> HIDE DEF t
  <2> QED BY <2>1, <2>2 DEF LedgerResults
<1> HIDE DEF t, p
<1>6. Reports(p, mark)
  BY <1>1, <1>2, <1>5 DEF Reports
<1> QED BY <1>6 DEF p, marks

\* The loops as sequences.
LEMMA ResultsAre ==
    ASSUME AccountInv, MoneyInv, NEW mark
    PROVE  /\ ChargeResults \in Seq(InRangeResults)
           /\ IsSeq(LedgerResults(mark)) /\ Len(LedgerResults(mark)) = Len(Instruments)
           /\ \A n \in 1..Len(Instruments) :
                 /\ Instruments[n] \in DOMAIN ledgers
                 /\ LedgerResults(mark)[n] = FirstOf(SumResults(mark, Instruments[n], n))
<1> DEFINE k == Len(Instruments)
           j == Len(cash_charges)
<1>1. k \in Nat /\ DOMAIN Instruments = 1..k /\ \A n \in 1..k : Instruments[n] \in DOMAIN ledgers
  BY InstrumentsAre, SeqEntries
<1>2. j \in Nat /\ DOMAIN cash_charges = 1..j
  <2>1. cash_charges \in Seq(Charges)
    BY DEF MoneyInv, ChargesOK
  <2> QED BY <2>1, SeqEntries
<1> HIDE DEF k, j
<1>3. \A n : InRange(n) \in InRangeResults
  BY DEF InRange, InRangeResults
<1>4. ChargeResults \in Seq(InRangeResults)
  <2>1. ChargeResults = [n \in 1..j |-> InRange(ChargedTo(n))]
    BY <1>2 DEF ChargeResults
  <2> QED BY <1>2, <1>3, <2>1
<1> DEFINE t == LedgerResults(mark)
<1>5. t = [n \in 1..k |-> t[n]] /\ \A n \in 1..k : t[n] = FirstOf(SumResults(mark, Instruments[n], n))
  BY <1>1 DEF LedgerResults
<1> HIDE DEF t
<1>6. IsSeq(t) /\ Len(t) = k
  BY <1>1, <1>5, FunctionIsSeq
<1> QED BY <1>1, <1>4, <1>5, <1>6 DEF t, k

\* A mark that is valid and exact is refused only when a number is too large.
LEMMA ExactMarksTaken ==
    ASSUME AccountInv, MoneyInv, NEW mark \in Int,
           \A i \in DOMAIN ledgers : /\ config[i].signed \/ mark > 0
                                     /\ Exact(mark, config[i])
                                     /\ Exact(ledgers[i].basis, config[i])
    PROVE  /\ Performance([i \in DOMAIN ledgers |-> mark]).error \in InRangeResults
           /\ \A i \in DOMAIN ledgers : MarkToMarketAdjustment(i, mark).error \in InRangeResults
<1>1. ASSUME NEW i \in DOMAIN ledgers, ledgers[i].position # 0
      PROVE  /\ Exact(MarkedValue(ledgers[i], mark), config[i])
             /\ Exact(Difference(ledgers[i], mark), config[i])
  <2> DEFINE l == ledgers[i]
             c == config[i]
             a == Abs(l.position)
             g == Sign(l.position)
  <2>1. LedgerOK(l, c) /\ Exact(mark, c) /\ Exact(l.basis, c)
    BY DEF AccountInv, AccountOK
  <2>2. c.multiplier \in Int /\ l.position \in Int /\ l.basis \in Int
    <3>1. c.multiplier \in Int
      BY <2>1 DEF LedgerOK, Accepted, IsConfig
    <3>2. l.position \in Int /\ l.basis \in Int
      BY <2>1 DEF LedgerOK, IsLedger
    <3> QED BY <3>1, <3>2
  <2>3. a \in Int /\ g \in {1, -1}
    BY <1>1, <2>2 DEF Abs, Sign
  <2>4. MarkedValue(l, mark) = mark * a /\ Difference(l, mark) = g * (mark * a - l.basis)
    BY DEF MarkedValue, Difference
  <2> HIDE DEF l, c, a, g
  <2>5. Exact(mark * a, c) /\ Exact(g * (mark * a - l.basis), c)
    BY <2>1, <2>2, <2>3, ExactMark
  <2> QED BY <2>4, <2>5 DEF l, c
<1>2. ASSUME NEW i \in DOMAIN ledgers
      PROVE  UnrealizedError(ledgers[i], config[i], mark) \in InRangeResults
  BY <1>1 DEF UnrealizedError, ScaleError, InRangeResults
<1>3. ASSUME NEW i \in DOMAIN ledgers
      PROVE  MarkToMarketAdjustment(i, mark).error \in InRangeResults
  <2>1. config[i].signed \/ mark > 0
    OBVIOUS
  <2>2. ~(~config[i].signed /\ mark <= 0)
    BY <2>1
  <2> QED BY <1>1, <1>2, <2>2 DEF MarkToMarketAdjustment, ScaleError, InRangeResults
<1> DEFINE s == ChargeResults
           t == LedgerResults(mark)
           k == Len(Instruments)
<1>4. /\ s \in Seq(InRangeResults) /\ IsSeq(t) /\ Len(t) = k
      /\ \A n \in 1..k : /\ Instruments[n] \in DOMAIN ledgers
                         /\ t[n] = FirstOf(SumResults(mark, Instruments[n], n))
  BY ResultsAre
<1>5. ASSUME NEW n \in 1..k PROVE t[n] \in InRangeResults
  <2> DEFINE v == SumResults(mark, Instruments[n], n)
  <2>1. \A x : InRange(x) \in InRangeResults
    BY DEF InRange, InRangeResults
  <2>2. UnrealizedError(ledgers[Instruments[n]], config[Instruments[n]], mark) \in InRangeResults
    BY <1>2, <1>4
  <2>3. v \in Seq(InRangeResults)
    BY <2>1, <2>2 DEF SumResults
  <2> HIDE DEF v
  <2>4. FirstOf(v) \in InRangeResults
    BY <2>3, FirstOfIs DEF InRangeResults
  <2> QED BY <1>4, <2>4 DEF v
<1> HIDE DEF s, t
<1>6. t \in Seq(InRangeResults)
  <2>1. DOMAIN t = 1..Len(t)
    BY <1>4, SeqFacts
  <2>2. PICK T : t \in Seq(T)
    BY <1>4 DEF IsSeq
  <2> QED BY <1>4, <1>5, <2>1, <2>2
<1>7. s \o t \in Seq(InRangeResults)
  BY <1>4, <1>6, AllOkConcat
<1> DEFINE u == s \o t
<1>8. FirstOf(u) \in InRangeResults
  <2> HIDE DEF u
  <2> QED BY <1>7, FirstOfIs DEF InRangeResults, u
<1>9. Performance([i \in DOMAIN ledgers |-> mark]).error = FirstOf(u)
  BY PerformanceIs DEF Reports, s, t
<1> QED BY <1>3, <1>8, <1>9

\* What performance reports without an error was scaled exactly.
LEMMA ReportedExact ==
    ASSUME AccountInv, MoneyInv, NEW mark \in Int,
           Performance([i \in DOMAIN ledgers |-> mark]).error = Ok
    PROVE  \A i \in DOMAIN ledgers : UnrealizedError(ledgers[i], config[i], mark) = Ok
<1> SUFFICES ASSUME NEW i \in DOMAIN ledgers
             PROVE  UnrealizedError(ledgers[i], config[i], mark) = Ok
  OBVIOUS
<1> DEFINE s == ChargeResults
           t == LedgerResults(mark)
           k == Len(Instruments)
           u == s \o t
<1>1. /\ s \in Seq(InRangeResults) /\ IsSeq(t) /\ Len(t) = k
      /\ \A n \in 1..k : t[n] = FirstOf(SumResults(mark, Instruments[n], n))
  BY ResultsAre
<1>2. FirstOf(u) = Ok
  BY PerformanceIs DEF Reports
<1>3. k = Cardinality(DOMAIN ledgers) /\ k \in Nat
  BY InstrumentsAre, SeqEntries
<1>4. PICK n \in 1..k : Instruments[n] = i
  <2>1. IsFiniteSet(DOMAIN ledgers)
    BY DEF AccountInv, AccountOK
  <2> QED BY <1>3, <2>1, Enumeration DEF Enumerates, Instruments
<1> HIDE DEF s, t, k
<1>5. IsSeq(s) /\ Len(s) \in Nat
  BY <1>1 DEF IsSeq
<1>6. IsSeq(u) /\ Len(u) = Len(s) + k /\ \A m \in (Len(s) + 1)..(Len(s) + k) : u[m] = t[m - Len(s)]
  BY <1>1, <1>5, ConcatFacts
<1> HIDE DEF u
<1> DEFINE m == Len(s) + n
<1>7. m \in (Len(s) + 1)..(Len(s) + k) /\ m \in 1..Len(u) /\ m - Len(s) = n
  BY <1>3, <1>4, <1>5, <1>6
<1> HIDE DEF m
<1>8. u[m] = Ok /\ u[m] = t[n]
  BY <1>2, <1>6, <1>7, FirstOfOk
<1> DEFINE v == SumResults(mark, Instruments[n], n)
<1>9. FirstOf(v) = Ok
  BY <1>1, <1>8
<1>10. IsSeq(v) /\ Len(v) = 5 /\ v[1] = UnrealizedError(ledgers[i], config[i], mark)
  BY <1>4, FiveFacts DEF SumResults
<1> HIDE DEF v
<1>11. \A x \in 1..Len(v) : v[x] = Ok
  BY <1>9, <1>10, FirstOfOk
<1>12. v[1] = Ok
  <2>1. Len(v) = 5
    BY <1>10
  <2>2. 1 \in 1..5
    OBVIOUS
  <2> QED BY <1>11, <2>1, <2>2
<1> QED BY <1>10, <1>12

\* The whole account: marked equity is what the performance reports.
LEMMA MarkedEquity ==
    ASSUME AccountInv, MoneyInv, NEW mark \in Int, NEW p, Reports(p, mark),
           \A i \in DOMAIN ledgers : UnrealizedError(ledgers[i], config[i], mark) = Ok,
           \A i \in DOMAIN ledgers : MarkToMarketAdjustment(i, mark).error = Ok
    PROVE  cash + Sum([i \in DOMAIN ledgers |-> MarkToMarketAdjustment(i, mark).amount])
             = InitialCash + p.realized + p.unrealized - p.fee - p.tax - p.charges
<1> DEFINE S == DOMAIN ledgers
           A == [i \in S |-> ledgers[i].cash]
           B == [i \in S |-> MarkToMarketAdjustment(i, mark).amount]
           R == RealizedOf
           U == UnrealizedOf(mark)
           F == FeeOf
           T == TaxOf
<1>3. /\ p.charges = Charged /\ p.realized = Sum(R) /\ p.unrealized = Sum(U)
      /\ p.fee = Sum(F) /\ p.tax = Sum(T)
  BY DEF Reports
<1>4. IsFiniteSet(S) /\ \A i \in S : LedgerOK(ledgers[i], config[i])
  BY DEF AccountInv, AccountOK
<1>5. \A i \in S : /\ ledgers[i].cash \in Int /\ ledgers[i].realized \in Int
                   /\ ledgers[i].fee \in Int /\ ledgers[i].tax \in Int
  BY <1>4 DEF LedgerOK, IsLedger
<1>6. ASSUME NEW i \in S
      PROVE  /\ U[i] = Unrealized(ledgers[i], config[i], mark)
             /\ B[i] = Adjustment(ledgers[i], config[i], mark)
  BY DEF UnrealizedOf, Adjustment, MarkToMarketAdjustment
<1>7. ASSUME NEW i \in S
      PROVE  U[i] \in Int /\ B[i] \in Int
  BY <1>4, <1>6, MarkTypes
<1>8. A \in [S -> Int] /\ R \in [S -> Int] /\ F \in [S -> Int] /\ T \in [S -> Int]
  BY <1>5 DEF RealizedOf, FeeOf, TaxOf
<1>9. U \in [S -> Int] /\ B \in [S -> Int]
  <2>1. U = [i \in S |-> U[i]] /\ B = [i \in S |-> B[i]]
    BY DEF UnrealizedOf
  <2> HIDE DEF U, B
  <2> QED BY <1>7, <2>1
<1>10. ASSUME NEW i \in S PROVE A[i] + B[i] + F[i] + T[i] = R[i] + U[i]
  <2>0. ledgers[i].position # 0 /\ config[i].model # "FuturesV1" =>
          /\ Exact(MarkedValue(ledgers[i], mark), config[i])
          /\ Exact(Difference(ledgers[i], mark), config[i])
    <3> SUFFICES ASSUME ledgers[i].position # 0, config[i].model # "FuturesV1"
                 PROVE  /\ Exact(MarkedValue(ledgers[i], mark), config[i])
                        /\ Exact(Difference(ledgers[i], mark), config[i])
      OBVIOUS
    <3>1. ScaleError(Difference(ledgers[i], mark), config[i]) = Ok
      <4>1. UnrealizedError(ledgers[i], config[i], mark) = Ok
        OBVIOUS
      <4> QED BY <4>1 DEF UnrealizedError, Ok
    <3>2. ScaleError(MarkedValue(ledgers[i], mark), config[i]) = Ok
      <4>1. MarkToMarketAdjustment(i, mark).error = Ok
        OBVIOUS
      <4> QED BY <4>1 DEF MarkToMarketAdjustment, Ok
    <3> QED BY <3>1, <3>2 DEF ScaleError, Ok
  <2>1. ledgers[i].cash + Adjustment(ledgers[i], config[i], mark) + ledgers[i].fee + ledgers[i].tax
          = ledgers[i].realized + Unrealized(ledgers[i], config[i], mark)
    BY <1>4, <2>0, MarkedLedger
  <2>2. A[i] = ledgers[i].cash /\ F[i] = ledgers[i].fee /\ T[i] = ledgers[i].tax
        /\ R[i] = ledgers[i].realized
    BY DEF RealizedOf, FeeOf, TaxOf
  <2> HIDE DEF A, B, F, T, R, U
  <2> QED BY <1>6, <2>1, <2>2
<1>11. cash = InitialCash + Sum(A) - Charged /\ Charged \in Int /\ InitialCash \in Int
  <2>1. cash_charges \in Seq(Charges)
    BY DEF MoneyInv, ChargesOK
  <2>2. Total(Amounts(cash_charges)) \in Int
    BY <2>1, AmountsType, TotalType
  <2>3. Charged = Total(Amounts(cash_charges))
    BY ChargedIs
  <2> QED BY <2>2, <2>3, LedgerAssumption DEF MoneyInv, Balanced
<1> HIDE DEF A, B, F, T, R, U, S
<1> DEFINE H1 == [i \in S |-> A[i] + B[i]]
           H2 == [i \in S |-> H1[i] + F[i]]
           H3 == [i \in S |-> H2[i] + T[i]]
           H4 == [i \in S |-> R[i] + U[i]]
<1>12. H1 \in [S -> Int] /\ \A i \in S : H1[i] = A[i] + B[i]
  BY <1>8, <1>9
<1>13. H2 \in [S -> Int] /\ \A i \in S : H2[i] = H1[i] + F[i]
  <2> HIDE DEF H1
  <2> QED BY <1>8, <1>12
<1>14. H3 \in [S -> Int] /\ \A i \in S : H3[i] = H2[i] + T[i]
  <2> HIDE DEF H1, H2
  <2> QED BY <1>8, <1>13
<1>15. H4 \in [S -> Int] /\ \A i \in S : H4[i] = R[i] + U[i]
  BY <1>8, <1>9
<1> HIDE DEF H1, H2, H3, H4
<1>16. H3 = H4
  <2>1. \A i \in S : H3[i] = H4[i]
    BY <1>10, <1>12, <1>13, <1>14, <1>15
  <2> QED BY <2>1, <1>14, <1>15
<1>17. /\ Sum(H1) = Sum(A) + Sum(B) /\ Sum(H2) = Sum(H1) + Sum(F)
       /\ Sum(H3) = Sum(H2) + Sum(T) /\ Sum(H4) = Sum(R) + Sum(U)
  <2>1. Sum(H1) = Sum(A) + Sum(B)
    BY <1>4, <1>8, <1>9, <1>12, SumAdd
  <2>2. Sum(H2) = Sum(H1) + Sum(F)
    BY <1>4, <1>8, <1>12, <1>13, SumAdd
  <2>3. Sum(H3) = Sum(H2) + Sum(T)
    BY <1>4, <1>8, <1>13, <1>14, SumAdd
  <2>4. Sum(H4) = Sum(R) + Sum(U)
    BY <1>4, <1>8, <1>9, <1>15, SumAdd
  <2> QED BY <2>1, <2>2, <2>3, <2>4
<1>18. /\ Sum(A) \in Int /\ Sum(B) \in Int /\ Sum(F) \in Int /\ Sum(T) \in Int
       /\ Sum(R) \in Int /\ Sum(U) \in Int
  BY <1>4, <1>8, <1>9, SumType
<1>19. cash + Sum(B) = InitialCash + Sum(R) + Sum(U) - Sum(F) - Sum(T) - Charged
  <2> DEFINE a == Sum(A)
             b == Sum(B)
             f == Sum(F)
             t == Sum(T)
             r == Sum(R)
             u == Sum(U)
             c == Charged
  <2>1. a + b + f + t = r + u
    BY <1>16, <1>17
  <2>2. a \in Int /\ b \in Int /\ f \in Int /\ t \in Int /\ r \in Int /\ u \in Int /\ c \in Int
        /\ InitialCash \in Int /\ cash = InitialCash + a - c
    BY <1>11, <1>18
  <2> HIDE DEF a, b, f, t, r, u, c
  <2>3. cash + b = InitialCash + r + u - f - t - c
    BY <2>1, <2>2
  <2> QED BY <2>3 DEF b, f, t, r, u, c
<1>20. cash + Sum(B) = InitialCash + p.realized + p.unrealized - p.fee - p.tax - p.charges
  BY <1>3, <1>19
<1> QED BY <1>20 DEF B, S

\* Both parts of the property, for every mark.
LEMMA MarkedAccount ==
    ASSUME AccountInv, MoneyInv
    PROVE  MarkedEquityReconciles
<1> DEFINE P(mark) == Performance([i \in DOMAIN ledgers |-> mark])
           Good(mark) == \A i \in DOMAIN ledgers : /\ config[i].signed \/ mark > 0
                                                   /\ Exact(mark, config[i])
                                                   /\ Exact(ledgers[i].basis, config[i])
           Equal(mark) == cash + Sum([i \in DOMAIN ledgers |-> MarkToMarketAdjustment(i, mark).amount])
                            = InitialCash + P(mark).realized + P(mark).unrealized - P(mark).fee
                                - P(mark).tax - P(mark).charges
<1>1. ASSUME NEW g \in Fills PROVE g.price \in Int
  BY LedgerAssumption
<1>2. ASSUME NEW g \in Fills, Good(g.price)
      PROVE  /\ P(g.price).error \in {Ok, "Overflow"}
             /\ \A i \in DOMAIN ledgers : MarkToMarketAdjustment(i, g.price).error \in {Ok, "Overflow"}
  BY <1>1, <1>2, ExactMarksTaken DEF InRangeResults
<1>3. ASSUME NEW g \in Fills, P(g.price).error = Ok,
             \A i \in DOMAIN ledgers : MarkToMarketAdjustment(i, g.price).error = Ok
      PROVE  Equal(g.price)
  <2> DEFINE mark == g.price
             p == P(mark)
  <2>1. mark \in Int
    BY <1>1
  <2>2. Reports(p, mark)
    BY PerformanceIs
  <2>3. \A i \in DOMAIN ledgers : UnrealizedError(ledgers[i], config[i], mark) = Ok
    BY <1>3, <2>1, ReportedExact
  <2>4. \A i \in DOMAIN ledgers : MarkToMarketAdjustment(i, mark).error = Ok
    BY <1>3
  <2> HIDE DEF mark, p
  <2>5. cash + Sum([i \in DOMAIN ledgers |-> MarkToMarketAdjustment(i, mark).amount])
          = InitialCash + p.realized + p.unrealized - p.fee - p.tax - p.charges
    BY <2>1, <2>2, <2>3, <2>4, MarkedEquity
  <2> QED BY <2>5 DEF mark, p
<1> QED BY <1>2, <1>3 DEF MarkedEquityReconciles

\* MarkedEquityReconciles: marking every open position, long or short, of any
\* model, gives the equity that MultiLedger::performance reports whenever both
\* return one, and only a number out of range refuses a valid, exact mark.
\* MultiLedger::mark_to_market_adjustment and MultiLedger::performance.
THEOREM MarkedEquityAlwaysReconciles == Spec => []MarkedEquityReconciles
<1>1. Init => AccountInv /\ MoneyInv
  BY AccountInit, MoneyInit
<1>2. AccountInv /\ MoneyInv /\ [Next]_vars => AccountInv' /\ MoneyInv'
  BY AccountNext, MoneyNext
<1>3. AccountInv /\ MoneyInv => MarkedEquityReconciles
  BY MarkedAccount
<1> QED BY <1>1, <1>2, <1>3, PTL DEF Spec

-----------------------------------------------------------------------------
(* Taxes of day trades.                                                    *)

\* The total of the first n entries.
Prefix(s, n) == Total(SubSeq(s, 1, n))

\* Prefixes are partial sums.
LEMMA PrefixFacts ==
    ASSUME NEW s \in Seq(Int)
    PROVE  /\ Prefix(s, 0) = 0 /\ Prefix(s, Len(s)) = Total(s)
           /\ \A n \in 0..Len(s) : Prefix(s, n) \in Int
           /\ \A n \in 1..Len(s) : Prefix(s, n) = Prefix(s, n - 1) + s[n]
<1>0. Len(s) \in Nat
  OBVIOUS
<1>1. PICK g \in [0..Len(s) -> Int] : Partial(g, s)
  BY PartialExists
<1>2. ASSUME NEW n \in 0..Len(s) PROVE Prefix(s, n) = g[n]
  <2> DEFINE u == SubSeq(s, 1, n)
  <2>1. u \in Seq(Int) /\ Len(u) = n /\ \A k \in 1..n : u[k] = s[k]
    BY <1>0
  <2> HIDE DEF u
  <2>2. Partial(g, u)
    <3>1. g[0] = 0 /\ \A k \in 1..Len(s) : g[k] = g[k - 1] + s[k]
      BY <1>1 DEF Partial
    <3>2. Len(u) = n /\ \A k \in 1..n : u[k] = s[k]
      BY <2>1
    <3>3. \A k \in 1..n : k \in 1..Len(s)
      BY <1>0
    <3>4. \A k \in 1..Len(u) : g[k] = g[k - 1] + u[k]
      BY <3>1, <3>2, <3>3
    <3> QED BY <3>1, <3>4 DEF Partial
  <2>3. Total(u) = g[n]
    BY <2>1, <2>2, TotalIs
  <2> QED BY <2>3 DEF Prefix, u
<1>3. Total(s) = g[Len(s)]
  BY <1>0, <1>1, TotalIs
<1>4. 0 \in 0..Len(s) /\ Len(s) \in 0..Len(s) /\ g[0] = 0
  BY <1>0, <1>1 DEF Partial
<1>5. ASSUME NEW n \in 1..Len(s) PROVE Prefix(s, n) = Prefix(s, n - 1) + s[n]
  <2>1. n \in 0..Len(s) /\ n - 1 \in 0..Len(s)
    BY <1>0
  <2>2. g[n] = g[n - 1] + s[n]
    BY <1>1 DEF Partial
  <2> QED BY <2>1, <2>2, <1>2
<1>6. \A n \in 0..Len(s) : Prefix(s, n) \in Int
  BY <1>1, <1>2
<1> QED BY <1>2, <1>3, <1>4, <1>5, <1>6

\* They depend on the first entries only.
LEMMA PrefixSame ==
    ASSUME NEW s \in Seq(Int), NEW t \in Seq(Int), NEW n \in Nat, n <= Len(s), n <= Len(t),
           \A k \in 1..n : s[k] = t[k]
    PROVE  Prefix(s, n) = Prefix(t, n)
<1>1. /\ SubSeq(s, 1, n) \in Seq(Int) /\ Len(SubSeq(s, 1, n)) = n
      /\ \A k \in 1..n : SubSeq(s, 1, n)[k] = s[k]
  OBVIOUS
<1>2. /\ SubSeq(t, 1, n) \in Seq(Int) /\ Len(SubSeq(t, 1, n)) = n
      /\ \A k \in 1..n : SubSeq(t, 1, n)[k] = t[k]
  OBVIOUS
<1>3. SubSeq(s, 1, n) = SubSeq(t, 1, n)
  <2>1. IsSeq(SubSeq(s, 1, n)) /\ IsSeq(SubSeq(t, 1, n))
    BY <1>1, <1>2 DEF IsSeq
  <2> QED BY <1>1, <1>2, <2>1, SameSeq
<1> QED BY <1>3 DEF Prefix

\* Prefixes of quantities are quantities.
LEMMA PrefixNat ==
    ASSUME NEW s \in Seq(Nat)
    PROVE  s \in Seq(Int) /\ \A n \in 0..Len(s) : Prefix(s, n) \in Nat
<1>0. s \in Seq(Int) /\ Len(s) \in Nat /\ \A n \in 1..Len(s) : s[n] \in Nat
  OBVIOUS
<1> DEFINE P == {n \in Nat : n <= Len(s) => Prefix(s, n) \in Nat}
<1>1. 0 \in P
  BY <1>0, PrefixFacts
<1>2. ASSUME NEW n \in Nat, n \in P PROVE n + 1 \in P
  <2> SUFFICES ASSUME n + 1 <= Len(s) PROVE Prefix(s, n + 1) \in Nat
    OBVIOUS
  <2>1. n <= Len(s) /\ n + 1 \in 1..Len(s) /\ (n + 1) - 1 = n
    BY <1>0
  <2>2. Prefix(s, n) \in Nat /\ s[n + 1] \in Nat
    BY <1>0, <1>2, <2>1
  <2>3. Prefix(s, n + 1) = Prefix(s, n) + s[n + 1]
    <3>1. \A k \in 1..Len(s) : Prefix(s, k) = Prefix(s, k - 1) + s[k]
      BY <1>0, PrefixFacts
    <3> QED BY <2>1, <3>1
  <2> QED BY <2>2, <2>3
<1> HIDE DEF P
<1>3. \A n \in Nat : n \in P
  BY <1>1, <1>2, SetInduction
<1> QED BY <1>0, <1>3 DEF P

\* Entry by entry, one list less another.
LEMMA PrefixRest ==
    ASSUME NEW s \in Seq(Int), NEW t \in Seq(Int), NEW u \in Seq(Int), Len(t) = Len(s),
           Len(u) = Len(s), \A n \in 1..Len(s) : u[n] = s[n] - t[n]
    PROVE  \A n \in 0..Len(s) : Prefix(u, n) = Prefix(s, n) - Prefix(t, n)
<1>0. Len(s) \in Nat /\ \A n \in 1..Len(s) : s[n] \in Int /\ t[n] \in Int
  OBVIOUS
<1> DEFINE Sums(x) == /\ Prefix(x, 0) = 0
                      /\ \A n \in 0..Len(s) : Prefix(x, n) \in Int
                      /\ \A n \in 1..Len(s) : Prefix(x, n) = Prefix(x, n - 1) + x[n]
<1>1. Sums(s) /\ Sums(t) /\ Sums(u)
  BY PrefixFacts
<1> DEFINE P == {n \in Nat : n <= Len(s) => Prefix(u, n) = Prefix(s, n) - Prefix(t, n)}
<1>2. 0 \in P
  BY <1>0, <1>1
<1>3. ASSUME NEW n \in Nat, n \in P PROVE n + 1 \in P
  <2> SUFFICES ASSUME n + 1 <= Len(s)
               PROVE  Prefix(u, n + 1) = Prefix(s, n + 1) - Prefix(t, n + 1)
    OBVIOUS
  <2>1. n <= Len(s) /\ n \in 0..Len(s) /\ n + 1 \in 1..Len(s) /\ (n + 1) - 1 = n
    BY <1>0
  <2>2. Prefix(u, n) = Prefix(s, n) - Prefix(t, n) /\ Prefix(s, n) \in Int /\ Prefix(t, n) \in Int
    BY <1>1, <1>3, <2>1
  <2>3. /\ Prefix(u, n + 1) = Prefix(u, n) + u[n + 1]
        /\ Prefix(s, n + 1) = Prefix(s, n) + s[n + 1]
        /\ Prefix(t, n + 1) = Prefix(t, n) + t[n + 1]
    BY <1>1, <2>1
  <2>4. u[n + 1] = s[n + 1] - t[n + 1] /\ s[n + 1] \in Int /\ t[n + 1] \in Int
    BY <1>0, <2>1
  <2>5. Prefix(u, n + 1) = (Prefix(s, n) - Prefix(t, n)) + (s[n + 1] - t[n + 1])
    BY <2>2, <2>3, <2>4
  <2> DEFINE a == Prefix(s, n)
             b == Prefix(t, n)
             x == s[n + 1]
             y == t[n + 1]
  <2>6. a \in Int /\ b \in Int /\ x \in Int /\ y \in Int
    BY <2>2, <2>4
  <2> HIDE DEF a, b, x, y
  <2>7. (a - b) + (x - y) = (a + x) - (b + y)
    BY <2>6
  <2> QED BY <2>3, <2>5, <2>7 DEF a, b, x, y
<1> HIDE DEF P
<1>4. \A n \in Nat : n \in P
  BY <1>2, <1>3, SetInduction
<1> QED BY <1>0, <1>4 DEF P

\* What a loop takes of the entries, oldest first: all of qty, or all there is.
TakesFifo(taken, left, qty) ==
    /\ taken = [n \in 1..Len(left) |-> taken[n]]
    /\ \A n \in 1..Len(left) : taken[n] = Clamp(qty - Prefix(left, n - 1), left[n])
LEMMA MatchTakes ==
    ASSUME NEW left \in Seq(Nat), NEW qty \in Nat, NEW taken, TakesFifo(taken, left, qty)
    PROVE  /\ taken \in Seq(Nat) /\ Len(taken) = Len(left)
           /\ \A n \in 1..Len(left) : taken[n] <= left[n]
           /\ \A n \in 0..Len(left) : Prefix(taken, n) = Least(qty, Prefix(left, n))
<1>0. left \in Seq(Int) /\ Len(left) \in Nat /\ \A n \in 1..Len(left) : left[n] \in Nat
  OBVIOUS
<1>1. /\ Prefix(left, 0) = 0 /\ \A n \in 0..Len(left) : Prefix(left, n) \in Nat
      /\ \A n \in 1..Len(left) : Prefix(left, n) = Prefix(left, n - 1) + left[n]
  BY <1>0, PrefixFacts, PrefixNat
<1>2. ASSUME NEW n \in 1..Len(left) PROVE taken[n] \in Nat /\ taken[n] <= left[n]
  <2> DEFINE x == Prefix(left, n - 1)
             y == left[n]
  <2>1. x \in Nat /\ y \in Nat /\ taken[n] = Clamp(qty - x, y)
    BY <1>0, <1>1 DEF TakesFifo
  <2> HIDE DEF x, y
  <2>2. taken[n] \in Nat /\ taken[n] <= y
    BY <2>1 DEF Clamp, Least
  <2> QED BY <2>2 DEF y
<1>3. taken \in Seq(Nat) /\ Len(taken) = Len(left) /\ taken \in Seq(Int)
  <2> DEFINE k == Len(left)
  <2>1. taken \in [1..k -> Nat]
    BY <1>2 DEF TakesFifo
  <2>2. k \in Nat
    BY <1>0
  <2> HIDE DEF k
  <2>3. taken \in Seq(Nat)
    BY <2>1, <2>2
  <2>4. Len(taken) = k
    BY <2>1, <2>2
  <2>5. taken \in Seq(Int)
    <3>1. taken \in [1..k -> Int]
      BY <2>1
    <3> QED BY <2>2, <3>1
  <2> QED BY <2>3, <2>4, <2>5 DEF k
<1>4. /\ Prefix(taken, 0) = 0
      /\ \A n \in 1..Len(left) : Prefix(taken, n) = Prefix(taken, n - 1) + taken[n]
  BY <1>3, PrefixFacts
<1> DEFINE P == {n \in Nat : n <= Len(left) => Prefix(taken, n) = Least(qty, Prefix(left, n))}
<1>5. 0 \in P
  BY <1>0, <1>1, <1>4 DEF Least
<1>6. ASSUME NEW n \in Nat, n \in P PROVE n + 1 \in P
  <2> SUFFICES ASSUME n + 1 <= Len(left)
               PROVE  Prefix(taken, n + 1) = Least(qty, Prefix(left, n + 1))
    OBVIOUS
  <2> DEFINE x == Prefix(left, n)
             y == left[n + 1]
  <2>1. n <= Len(left) /\ n \in 0..Len(left) /\ n + 1 \in 1..Len(left) /\ (n + 1) - 1 = n
    BY <1>0
  <2>2. x \in Nat /\ y \in Nat /\ Prefix(left, n + 1) = x + y
    BY <1>0, <1>1, <2>1
  <2>3. Prefix(taken, n) = Least(qty, x)
    BY <1>6, <2>1
  <2>4. Prefix(taken, n + 1) = Prefix(taken, n) + taken[n + 1] /\ taken[n + 1] = Clamp(qty - x, y)
    BY <1>4, <2>1 DEF TakesFifo
  <2> HIDE DEF x, y
  <2>5. Least(qty, x) + Clamp(qty - x, y) = Least(qty, x + y)
    BY <2>2 DEF Least, Clamp
  <2> QED BY <2>2, <2>3, <2>4, <2>5
<1> HIDE DEF P
<1>7. \A n \in Nat : n \in P
  BY <1>5, <1>6, SetInduction
<1> QED BY <1>0, <1>2, <1>3, <1>7 DEF P

\* What is left of the entries of one date, as the loops see them.
LeftOn(open, d) == [n \in DOMAIN open |-> IF open[n].date = d THEN open[n].left ELSE 0]
OpenSells(sells) ==
    [n \in DOMAIN sells |-> [date |-> sells[n].date, left |-> sells[n].quantity - sells[n].matched]]
OpenBuys(buys) == [n \in DOMAIN buys |-> [date |-> buys[n].date, left |-> buys[n].remaining]]

\* A quantity, or nothing when it is negative.
Pos(n) == IF n < 0 THEN 0 ELSE n

\* Entries with a quantity left.
Opens(open, k) == /\ open = [n \in 1..k |-> open[n]]
                  /\ \A n \in 1..k : open[n].left \in Nat

\* What is left on a date is a list of quantities.
LeftList(left, open, d, k) ==
    /\ left \in Seq(Nat) /\ left \in Seq(Int) /\ Len(left) = k
    /\ left = [n \in 1..k |-> left[n]] /\ DOMAIN open = 1..k
    /\ \A n \in 1..k : left[n] = IF open[n].date = d THEN open[n].left ELSE 0
LEMMA LeftOnType ==
    ASSUME NEW k \in Nat, NEW open, Opens(open, k), NEW d
    PROVE  LeftList(LeftOn(open, d), open, d, k)
<1> DEFINE left == LeftOn(open, d)
<1>1. DOMAIN open = 1..k
  BY DEF Opens
<1>2. left = [n \in 1..k |-> IF open[n].date = d THEN open[n].left ELSE 0]
  BY <1>1 DEF LeftOn
<1>3. \A n \in 1..k : (IF open[n].date = d THEN open[n].left ELSE 0) \in Nat
  BY DEF Opens
<1>4. left \in [1..k -> Nat] /\ \A n \in 1..k : left[n] = IF open[n].date = d THEN open[n].left ELSE 0
  <2> HIDE DEF left
  <2> QED BY <1>2, <1>3
<1> HIDE DEF left
<1>5. left \in Seq(Nat) /\ left \in Seq(Int) /\ Len(left) = k /\ left = [n \in 1..k |-> left[n]]
  BY <1>4
<1>6. LeftList(left, open, d, k)
  BY <1>1, <1>4, <1>5 DEF LeftList
<1> QED BY <1>6 DEF left

\* The loop of tax_for_fill takes of the entries of its date, oldest first.
FifoTakes(taken, left, open, e, qty, k) ==
    /\ taken \in Seq(Nat) /\ Len(taken) = k /\ DOMAIN taken = 1..k
    /\ \A n \in 1..k : /\ taken[n] = Clamp(qty - Prefix(left, n - 1), left[n])
                       /\ taken[n] \in Nat /\ taken[n] <= left[n]
                       /\ open[n].date # e => taken[n] = 0
    /\ \A n \in 0..k : Prefix(taken, n) = Least(qty, Prefix(left, n))
LEMMA FifoTaken ==
    ASSUME NEW k \in Nat, NEW open, Opens(open, k), NEW e, NEW qty \in Nat
    PROVE  FifoTakes(MatchFifo(open, e, qty), LeftOn(open, e), open, e, qty, k)
<1> DEFINE left == LeftOn(open, e)
           taken == MatchFifo(open, e, qty)
<1>1. /\ left \in Seq(Nat) /\ Len(left) = k /\ DOMAIN open = 1..k
      /\ \A n \in 1..k : left[n] = IF open[n].date = e THEN open[n].left ELSE 0
  BY LeftOnType DEF LeftList
<1>2. taken = [n \in DOMAIN open |-> Clamp(qty - Total(SubSeq(left, 1, n - 1)), left[n])]
  BY DEF MatchFifo, LeftOn
<1>3. taken = [n \in 1..k |-> Clamp(qty - Prefix(left, n - 1), left[n])]
  <2> HIDE DEF taken, left
  <2> QED BY <1>1, <1>2 DEF Prefix
<1> HIDE DEF taken, left
<1>4. \A n \in 1..k : taken[n] = Clamp(qty - Prefix(left, n - 1), left[n])
  BY <1>3
<1>5. taken = [n \in 1..k |-> taken[n]]
  BY <1>3
<1>6. TakesFifo(taken, left, qty)
  BY <1>1, <1>4, <1>5 DEF TakesFifo
<1>7. /\ taken \in Seq(Nat) /\ Len(taken) = k
      /\ (\A n \in 1..k : taken[n] <= left[n])
      /\ \A n \in 0..k : Prefix(taken, n) = Least(qty, Prefix(left, n))
  BY <1>1, <1>6, MatchTakes
<1>8. DOMAIN taken = 1..k /\ \A n \in 1..k : taken[n] \in Nat
  BY <1>7
<1>9. ASSUME NEW n \in 1..k, open[n].date # e PROVE taken[n] = 0
  <2>1. left[n] = 0 /\ taken[n] <= left[n] /\ taken[n] \in Nat
    BY <1>1, <1>7, <1>8, <1>9
  <2> QED BY <2>1
<1>10. FifoTakes(taken, left, open, e, qty, k)
  BY <1>4, <1>7, <1>8, <1>9 DEF FifoTakes
<1> QED BY <1>10 DEF taken, left

\* After the loop the entries of its date hold what it did not take, those of
\* other dates what they held.
Taken(next, open, taken, k) ==
    \A n \in 1..k : next[n].date = open[n].date /\ next[n].left = open[n].left - taken[n]
FifoRests(next, open, e, qty, k) ==
    /\ Opens(next, k)
    /\ \A n \in 0..k : Prefix(LeftOn(next, e), n) = Pos(Prefix(LeftOn(open, e), n) - qty)
    /\ \A d : d # e => LeftOn(next, d) = LeftOn(open, d)
LEMMA FifoLeft ==
    ASSUME NEW k \in Nat, NEW open, Opens(open, k), NEW e, NEW qty \in Nat,
           NEW next, next = [n \in 1..k |-> next[n]], Taken(next, open, MatchFifo(open, e, qty), k)
    PROVE  FifoRests(next, open, e, qty, k)
<1> DEFINE left == LeftOn(open, e)
           rest == LeftOn(next, e)
           taken == MatchFifo(open, e, qty)
<1>1. /\ taken \in Seq(Nat) /\ Len(taken) = k
      /\ (\A n \in 1..k : /\ taken[n] \in Nat /\ taken[n] <= left[n]
                          /\ open[n].date # e => taken[n] = 0)
      /\ \A n \in 0..k : Prefix(taken, n) = Least(qty, Prefix(left, n))
  <2>1. FifoTakes(taken, left, open, e, qty, k)
    BY FifoTaken
  <2> HIDE DEF left, taken, rest
  <2> QED BY <2>1 DEF FifoTakes
<1>2. /\ left \in Seq(Nat) /\ left \in Seq(Int) /\ Len(left) = k
      /\ \A n \in 1..k : left[n] = IF open[n].date = e THEN open[n].left ELSE 0
  BY LeftOnType DEF LeftList
<1> HIDE DEF left, taken
<1>3. \A n \in 1..k : next[n].date = open[n].date /\ next[n].left = open[n].left - taken[n]
  BY DEF Taken, taken
<1>4. ASSUME NEW n \in 1..k PROVE next[n].left \in Nat
  <2> DEFINE x == open[n].left
             y == taken[n]
  <2>1. x \in Nat /\ y \in Nat /\ next[n].left = x - y
    BY <1>1, <1>3 DEF Opens
  <2>2. y <= x
    <3>1. left[n] <= x
      <4>1. left[n] = x \/ left[n] = 0
        BY <1>2
      <4> HIDE DEF x
      <4> QED BY <2>1, <4>1
    <3>2. y <= left[n] /\ left[n] \in Nat
      BY <1>1, <1>2
    <3> HIDE DEF x, y
    <3> QED BY <2>1, <3>1, <3>2
  <2> HIDE DEF x, y
  <2> QED BY <2>1, <2>2
<1>5. Opens(next, k)
  BY <1>4 DEF Opens
<1>6. /\ rest \in Seq(Nat) /\ rest \in Seq(Int) /\ Len(rest) = k
      /\ \A n \in 1..k : rest[n] = IF next[n].date = e THEN next[n].left ELSE 0
  BY <1>5, LeftOnType DEF LeftList
<1> HIDE DEF rest
<1>7. ASSUME NEW n \in 1..k PROVE rest[n] = left[n] - taken[n]
  <2>1. CASE open[n].date = e
    BY <2>1, <1>2, <1>3, <1>6
  <2>2. CASE open[n].date # e
    <3>1. rest[n] = 0 /\ left[n] = 0 /\ taken[n] = 0
      BY <2>2, <1>1, <1>2, <1>3, <1>6
    <3> QED BY <3>1
  <2> QED BY <2>1, <2>2
<1>8. \A n \in 0..k : Prefix(rest, n) = Prefix(left, n) - Prefix(taken, n)
  <2>1. taken \in Seq(Int)
    BY <1>1
  <2>2. Len(taken) = Len(left) /\ Len(rest) = Len(left)
        /\ \A n \in 1..Len(left) : rest[n] = left[n] - taken[n]
    BY <1>1, <1>2, <1>6, <1>7
  <2>3. left \in Seq(Int) /\ rest \in Seq(Int) /\ Len(left) = k
    BY <1>2, <1>6
  <2> QED BY <2>1, <2>2, <2>3, PrefixRest
<1>9. ASSUME NEW n \in 0..k PROVE Prefix(rest, n) = Pos(Prefix(left, n) - qty)
  <2> DEFINE x == Prefix(left, n)
  <2>1. x \in Nat
    BY <1>2, PrefixNat
  <2>2. Prefix(rest, n) = x - Least(qty, x)
    BY <1>1, <1>8
  <2> HIDE DEF x
  <2>3. x - Least(qty, x) = Pos(x - qty)
    BY <2>1 DEF Least, Pos
  <2> QED BY <2>2, <2>3 DEF x
<1>10. ASSUME NEW d, d # e PROVE LeftOn(next, d) = LeftOn(open, d)
  <2> DEFINE a == LeftOn(next, d)
             b == LeftOn(open, d)
  <2>0. LeftList(a, next, d, k) /\ LeftList(b, open, d, k)
    BY <1>5, LeftOnType
  <2> HIDE DEF a, b
  <2>1. /\ a = [n \in 1..k |-> a[n]] /\ b = [n \in 1..k |-> b[n]]
        /\ \A n \in 1..k : a[n] = IF next[n].date = d THEN next[n].left ELSE 0
        /\ \A n \in 1..k : b[n] = IF open[n].date = d THEN open[n].left ELSE 0
    BY <2>0 DEF LeftList
  <2>2. ASSUME NEW n \in 1..k PROVE a[n] = b[n]
    <3>1. CASE open[n].date = d
      <4>1. taken[n] = 0 /\ open[n].left \in Nat
        BY <3>1, <1>1, <1>10 DEF Opens
      <4>2. next[n].left = open[n].left
        BY <4>1, <1>3
      <4> QED BY <3>1, <4>2, <2>1, <1>3
    <3>2. CASE open[n].date # d
      BY <3>2, <2>1, <1>3
    <3> QED BY <3>1, <3>2
  <2>3. a = b
    BY <2>1, <2>2
  <2> QED BY <2>3 DEF a, b
<1> QED BY <1>5, <1>9, <1>10 DEF left, rest, FifoRests

\* One more entry.
OneMore(next, open, k) ==
    /\ next = [n \in 1..(k + 1) |-> next[n]]
    /\ \A n \in 1..k : next[n] = open[n]
    /\ next[k + 1].left \in Nat
LeftGrows(next, open, k) ==
    /\ Opens(next, k + 1)
    /\ \A d : /\ \A n \in 0..k : Prefix(LeftOn(next, d), n) = Prefix(LeftOn(open, d), n)
              /\ Total(LeftOn(next, d)) = Total(LeftOn(open, d))
                   + (IF next[k + 1].date = d THEN next[k + 1].left ELSE 0)
LEMMA LeftOnMore ==
    ASSUME NEW k \in Nat, NEW open, Opens(open, k), NEW next, OneMore(next, open, k)
    PROVE  LeftGrows(next, open, k)
<1> USE DEF OneMore
<1>1. \A n \in 1..(k + 1) : n \in 1..k \/ n = k + 1
  OBVIOUS
<1>2. Opens(next, k + 1)
  BY <1>1 DEF Opens
<1> SUFFICES ASSUME NEW d
             PROVE  /\ \A n \in 0..k : Prefix(LeftOn(next, d), n) = Prefix(LeftOn(open, d), n)
                    /\ Total(LeftOn(next, d)) = Total(LeftOn(open, d))
                          + (IF next[k + 1].date = d THEN next[k + 1].left ELSE 0)
  BY <1>2 DEF LeftGrows
<1> DEFINE a == LeftOn(open, d)
           b == LeftOn(next, d)
           x == IF next[k + 1].date = d THEN next[k + 1].left ELSE 0
<1>3. /\ a \in Seq(Int) /\ Len(a) = k
      /\ \A n \in 1..k : a[n] = IF open[n].date = d THEN open[n].left ELSE 0
  BY LeftOnType DEF LeftList
<1>4. /\ b \in Seq(Int) /\ Len(b) = k + 1 /\ b = [n \in 1..(k + 1) |-> b[n]]
      /\ \A n \in 1..(k + 1) : b[n] = IF next[n].date = d THEN next[n].left ELSE 0
  <2>1. k + 1 \in Nat
    OBVIOUS
  <2>2. LeftList(b, next, d, k + 1)
    BY <1>2, <2>1, LeftOnType
  <2> HIDE DEF a, b, x
  <2> QED BY <2>2 DEF LeftList
<1> HIDE DEF a, b
<1>5. (\A n \in 1..k : b[n] = a[n]) /\ b[k + 1] = x
  <2>1. k + 1 \in 1..(k + 1) /\ \A n \in 1..k : n \in 1..(k + 1)
    OBVIOUS
  <2>2. ASSUME NEW n \in 1..k PROVE b[n] = a[n]
    <3>1. next[n] = open[n] /\ n \in 1..(k + 1)
      BY <2>1
    <3>2. a[n] = IF open[n].date = d THEN open[n].left ELSE 0
      BY <1>3
    <3>3. b[n] = IF next[n].date = d THEN next[n].left ELSE 0
      BY <1>4, <3>1
    <3> QED BY <3>1, <3>2, <3>3
  <2>3. b[k + 1] = x
    BY <1>4, <2>1
  <2> QED BY <2>2, <2>3
<1>6. x \in Int
  OBVIOUS
<1> HIDE DEF x
<1>7. Total(b) = Total(a) + x
  BY <1>3, <1>4, <1>5, <1>6, TotalMore
<1>8. ASSUME NEW n \in 0..k PROVE Prefix(b, n) = Prefix(a, n)
  <2>1. n \in Nat /\ n <= Len(a) /\ n <= Len(b) /\ \A j \in 1..n : b[j] = a[j]
    <3>1. n \in Nat /\ n <= k /\ n <= k + 1 /\ \A j \in 1..n : j \in 1..k
      OBVIOUS
    <3> QED BY <1>3, <1>4, <1>5, <3>1
  <2> QED BY <1>3, <1>4, <2>1, PrefixSame
<1> QED BY <1>7, <1>8 DEF a, b, x

\* What a buy does to the open sells and the open buys.
BuyEffect(t, l, c, f, e, taken, k) ==
    /\ t.sells = [m \in 1..k |-> t.sells[m]]
    /\ \A m \in 1..k :
          /\ t.sells[m].date = l.sells[m].date /\ t.sells[m].price = l.sells[m].price
          /\ t.sells[m].quantity = l.sells[m].quantity
          /\ t.sells[m].matched = l.sells[m].matched + taken[m]
          /\ t.sells[m].assessed =
                IF taken[m] = 0 THEN l.sells[m].assessed
                ELSE SplitSellTax(l.sells[m].price, l.sells[m].quantity,
                                  l.sells[m].matched + taken[m], c)
    /\ t.tax = Total([m \in 1..k |-> t.sells[m].assessed]) - Total([m \in 1..k |-> l.sells[m].assessed])
    /\ t.buys = IF f.qty - Total(taken) = 0 THEN l.buys
                ELSE Append(l.buys, [date |-> e, remaining |-> f.qty - Total(taken)])
LEMMA BuyEffects ==
    ASSUME NEW l, IsLedger(l), NEW c, NEW f, NEW e,
           NEW k, k = Len(l.sells), NEW taken, taken = MatchFifo(OpenSells(l.sells), e, f.qty),
           \A m \in 1..k : taken[m] \in Nat
    PROVE  BuyEffect(TaxOfBuy(l, c, f, e), l, c, f, e, taken, k)
<1> DEFINE Repriced(s, m) ==
               IF m = 0 THEN s
               ELSE [s EXCEPT !.matched = @ + m,
                              !.assessed = SplitSellTax(s.price, s.quantity, s.matched + m, c)]
           sells == [n \in DOMAIN l.sells |-> Repriced(l.sells[n], taken[n])]
           Assessed(q) == Total([n \in DOMAIN q |-> q[n].assessed])
           left == f.qty - Total(taken)
           t == TaxOfBuy(l, c, f, e)
<1>1. k \in Nat /\ DOMAIN l.sells = 1..k /\ (\A n \in 1..k : l.sells[n] \in SellEntry)
  <2>1. l.sells \in Seq(SellEntry)
    BY DEF IsLedger
  <2> QED BY <2>1, SeqEntries
<1>2. /\ t.tax = Assessed(sells) - Assessed(l.sells) /\ t.sells = sells
      /\ t.buys = IF left = 0 THEN l.buys ELSE Append(l.buys, [date |-> e, remaining |-> left])
  BY DEF TaxOfBuy, OpenSells
<1>3. sells = [n \in 1..k |-> Repriced(l.sells[n], taken[n])]
  <2> HIDE DEF Repriced
  <2> QED BY <1>1
<1>4. ASSUME NEW s \in SellEntry, NEW m \in Nat
      PROVE  /\ Repriced(s, m).date = s.date /\ Repriced(s, m).price = s.price
             /\ Repriced(s, m).quantity = s.quantity /\ Repriced(s, m).matched = s.matched + m
             /\ Repriced(s, m).assessed =
                   IF m = 0 THEN s.assessed
                   ELSE SplitSellTax(s.price, s.quantity, s.matched + m, c)
  <2>1. CASE m = 0
    <3>1. s.matched \in Int
      BY DEF SellEntry
    <3> QED BY <2>1, <3>1
  <2>2. CASE m # 0
    <3> DEFINE x == SplitSellTax(s.price, s.quantity, s.matched + m, c)
    <3> HIDE DEF x
    <3>1. Repriced(s, m) = [s EXCEPT !.matched = @ + m, !.assessed = x]
      BY <2>2 DEF x
    <3>2. /\ [s EXCEPT !.matched = @ + m, !.assessed = x].date = s.date
          /\ [s EXCEPT !.matched = @ + m, !.assessed = x].price = s.price
          /\ [s EXCEPT !.matched = @ + m, !.assessed = x].quantity = s.quantity
          /\ [s EXCEPT !.matched = @ + m, !.assessed = x].matched = s.matched + m
          /\ [s EXCEPT !.matched = @ + m, !.assessed = x].assessed = x
      BY DEF SellEntry
    <3> HIDE DEF Repriced
    <3> QED BY <2>2, <3>1, <3>2 DEF x
  <2> QED BY <2>1, <2>2
<1> HIDE DEF Repriced
<1>5. \A m \in 1..k : sells[m] = Repriced(l.sells[m], taken[m])
  BY <1>3
<1>6. DOMAIN sells = 1..k /\ sells = [m \in 1..k |-> sells[m]]
  BY <1>3
<1> HIDE DEF sells
<1>7. /\ Assessed(sells) = Total([m \in 1..k |-> sells[m].assessed])
      /\ Assessed(l.sells) = Total([m \in 1..k |-> l.sells[m].assessed])
  BY <1>1, <1>6
<1> HIDE DEF Assessed, t, left
<1>8. ASSUME NEW m \in 1..k
      PROVE  /\ sells[m].date = l.sells[m].date /\ sells[m].price = l.sells[m].price
             /\ sells[m].quantity = l.sells[m].quantity
             /\ sells[m].matched = l.sells[m].matched + taken[m]
             /\ sells[m].assessed =
                  IF taken[m] = 0 THEN l.sells[m].assessed
                  ELSE SplitSellTax(l.sells[m].price, l.sells[m].quantity,
                                    l.sells[m].matched + taken[m], c)
  <2>1. l.sells[m] \in SellEntry /\ taken[m] \in Nat
    BY <1>1
  <2> QED BY <1>4, <1>5, <2>1
<1>9. BuyEffect(t, l, c, f, e, taken, k)
  BY <1>2, <1>6, <1>7, <1>8 DEF BuyEffect, left
<1> QED BY <1>9 DEF t

\* What a sell does.
SellEffect(t, l, c, f, e, taken, k) ==
    /\ t.buys = [m \in 1..k |-> t.buys[m]]
    /\ \A m \in 1..k : /\ t.buys[m].date = l.buys[m].date
                       /\ t.buys[m].remaining = l.buys[m].remaining - taken[m]
    /\ t.tax = SplitSellTax(f.price, f.qty, Total(taken), c)
    /\ t.sells = IF Total(taken) = f.qty THEN l.sells
                 ELSE Append(l.sells, [date |-> e, price |-> f.price, quantity |-> f.qty,
                                       matched |-> Total(taken), assessed |-> t.tax])
LEMMA SellEffects ==
    ASSUME NEW l, IsLedger(l), NEW c, NEW f, NEW e,
           NEW k, k = Len(l.buys), NEW taken, taken = MatchFifo(OpenBuys(l.buys), e, f.qty)
    PROVE  SellEffect(TaxOfSell(l, c, f, e), l, c, f, e, taken, k)
<1> DEFINE buys == [n \in DOMAIN l.buys |-> [l.buys[n] EXCEPT !.remaining = @ - taken[n]]]
           covered == Total(taken)
           tax == SplitSellTax(f.price, f.qty, covered, c)
           t == TaxOfSell(l, c, f, e)
<1>1. k \in Nat /\ DOMAIN l.buys = 1..k /\ (\A n \in 1..k : l.buys[n] \in BuyEntry)
  <2>1. l.buys \in Seq(BuyEntry)
    BY DEF IsLedger
  <2> QED BY <2>1, SeqEntries
<1>2. /\ t.tax = tax /\ t.buys = buys
      /\ t.sells = IF covered = f.qty THEN l.sells
                   ELSE Append(l.sells, [date |-> e, price |-> f.price, quantity |-> f.qty,
                                         matched |-> covered, assessed |-> tax])
  BY DEF TaxOfSell, OpenBuys
<1>3. ASSUME NEW b \in BuyEntry, NEW x
      PROVE  /\ [b EXCEPT !.remaining = @ - x].date = b.date
             /\ [b EXCEPT !.remaining = @ - x].remaining = b.remaining - x
  BY DEF BuyEntry
<1>4. buys = [n \in 1..k |-> [l.buys[n] EXCEPT !.remaining = @ - taken[n]]]
  BY <1>1
<1>5. ASSUME NEW m \in 1..k
      PROVE  buys[m].date = l.buys[m].date /\ buys[m].remaining = l.buys[m].remaining - taken[m]
  <2>1. buys[m] = [l.buys[m] EXCEPT !.remaining = @ - taken[m]]
    BY <1>4
  <2>2. l.buys[m] \in BuyEntry
    BY <1>1
  <2> HIDE DEF buys
  <2> QED BY <1>3, <2>1, <2>2
<1>6. buys = [m \in 1..k |-> buys[m]]
  BY <1>4
<1> HIDE DEF buys, t, covered, tax
<1>7. SellEffect(t, l, c, f, e, taken, k)
  BY <1>2, <1>5, <1>6 DEF SellEffect, covered, tax
<1> QED BY <1>7 DEF t

\* The open sells in terms of what a date bought and sold: off[m] is what the
\* date had sold before the m-th of them, its match what the date bought
\* beyond that, and the sells before it are open by what is missing.
SellsMatched(sells, off, bought, sold) ==
    /\ off \in Seq(Nat) /\ Len(off) = Len(sells)
    /\ \A m \in 1..Len(sells) :
          /\ sells[m].quantity \in Nat
          /\ sells[m].matched = Clamp(bought[sells[m].date] - off[m], sells[m].quantity)
          /\ Prefix(LeftOn(OpenSells(sells), sells[m].date), m - 1)
               = Pos(off[m] - bought[sells[m].date])
    /\ \A d \in Int : Total(LeftOn(OpenSells(sells), d)) = Pos(sold[d] - bought[d])
\* The open buys: what a date bought beyond what it sold.
BuysLeft(buys, bought, sold) ==
    /\ \A n \in 1..Len(buys) : buys[n].remaining \in Nat
    /\ \A d \in Int : Total(LeftOn(OpenBuys(buys), d)) = Pos(bought[d] - sold[d])

\* Open sells have something left.
LEMMA SellsOpen ==
    ASSUME NEW sells \in Seq(SellEntry), NEW off, NEW bought \in [Int -> Nat], NEW sold,
           SellsMatched(sells, off, bought, sold), NEW k, k = Len(sells)
    PROVE  /\ k \in Nat /\ Opens(OpenSells(sells), k)
           /\ \A m \in 1..k : /\ OpenSells(sells)[m].date = sells[m].date
                              /\ OpenSells(sells)[m].left = sells[m].quantity - sells[m].matched
                              /\ sells[m].date \in Int /\ off[m] \in Nat
                              /\ sells[m].matched \in Nat /\ sells[m].matched <= sells[m].quantity
<1> DEFINE open == OpenSells(sells)
<1>1. k \in Nat /\ DOMAIN sells = 1..k /\ \A m \in 1..k : sells[m] \in SellEntry
  BY SeqEntries
<1>2. /\ open = [m \in 1..k |-> open[m]]
      /\ \A m \in 1..k : /\ open[m].date = sells[m].date
                         /\ open[m].left = sells[m].quantity - sells[m].matched
  BY <1>1 DEF OpenSells
<1> HIDE DEF open
<1>3. ASSUME NEW m \in 1..k
      PROVE  /\ sells[m].date \in Int /\ off[m] \in Nat
             /\ sells[m].matched \in Nat /\ sells[m].matched <= sells[m].quantity
             /\ open[m].left \in Nat
  <2> DEFINE q == sells[m].quantity
             x == sells[m].matched
             b == bought[sells[m].date]
             o == off[m]
  <2>1. sells[m].date \in Int
    BY <1>1 DEF SellEntry
  <2>2. q \in Nat /\ b \in Nat /\ o \in Nat /\ x = Clamp(b - o, q)
    <3>1. off \in Seq(Nat) /\ Len(off) = k
      BY DEF SellsMatched
    <3>2. o \in Nat
      <4>1. \A n \in 1..Len(off) : off[n] \in Nat
        BY <3>1, SeqEntries
      <4> QED BY <3>1, <4>1
    <3> QED BY <2>1, <3>2 DEF SellsMatched
  <2>3. open[m].left = q - x
    BY <1>2
  <2> HIDE DEF q, x, b, o
  <2>4. x \in Nat /\ x <= q /\ q - x \in Nat
    BY <2>2 DEF Clamp, Least
  <2> QED BY <2>1, <2>2, <2>3, <2>4 DEF x, q, o
<1>4. Opens(open, k)
  BY <1>2, <1>3 DEF Opens
<1> QED BY <1>1, <1>2, <1>3, <1>4 DEF open

\* Open buys have something left.
LEMMA BuysOpen ==
    ASSUME NEW buys \in Seq(BuyEntry), NEW bought, NEW sold, BuysLeft(buys, bought, sold),
           NEW k, k = Len(buys)
    PROVE  /\ k \in Nat /\ Opens(OpenBuys(buys), k)
           /\ \A m \in 1..k : /\ OpenBuys(buys)[m].date = buys[m].date
                              /\ OpenBuys(buys)[m].left = buys[m].remaining
<1> DEFINE open == OpenBuys(buys)
<1>1. k \in Nat /\ DOMAIN buys = 1..k /\ \A m \in 1..k : buys[m] \in BuyEntry
  BY SeqEntries
<1>2. /\ open = [m \in 1..k |-> open[m]]
      /\ \A m \in 1..k : open[m].date = buys[m].date /\ open[m].left = buys[m].remaining
  BY <1>1 DEF OpenBuys
<1> HIDE DEF open
<1>3. Opens(open, k)
  BY <1>2 DEF Opens, BuysLeft
<1> QED BY <1>1, <1>2, <1>3 DEF open

\* A buy keeps the sells of its date matched with what was bought, oldest first.
LEMMA BuyKeepsSells ==
    ASSUME NEW l, IsLedger(l), NEW c, NEW f, f.qty \in Nat, NEW e \in Int,
           NEW bought \in [Int -> Nat], NEW sold \in [Int -> Nat], NEW off,
           SellsMatched(l.sells, off, bought, sold),
           NEW more, more = [bought EXCEPT ![e] = @ + f.qty]
    PROVE  SellsMatched(TaxOfBuy(l, c, f, e).sells, off, more, sold)
<1> DEFINE k == Len(l.sells)
           open == OpenSells(l.sells)
           taken == MatchFifo(open, e, f.qty)
           t == TaxOfBuy(l, c, f, e)
           next == OpenSells(t.sells)
           q == f.qty
<1>1. /\ k \in Nat /\ Opens(open, k)
      /\ \A m \in 1..k : /\ open[m].date = l.sells[m].date
                         /\ open[m].left = l.sells[m].quantity - l.sells[m].matched
                         /\ l.sells[m].date \in Int /\ off[m] \in Nat
                         /\ l.sells[m].matched \in Nat /\ l.sells[m].matched <= l.sells[m].quantity
  <2>1. l.sells \in Seq(SellEntry)
    BY DEF IsLedger
  <2> QED BY <2>1, SellsOpen
<1>2. /\ \A n \in 1..k : /\ taken[n] = Clamp(q - Prefix(LeftOn(open, e), n - 1), LeftOn(open, e)[n])
                         /\ taken[n] \in Nat /\ taken[n] <= LeftOn(open, e)[n]
                         /\ open[n].date # e => taken[n] = 0
  <2>1. FifoTakes(taken, LeftOn(open, e), open, e, q, k)
    BY <1>1, FifoTaken
  <2> HIDE DEF taken, open, k, q
  <2> QED BY <2>1 DEF FifoTakes
<1>3. BuyEffect(t, l, c, f, e, taken, k)
  BY <1>2, BuyEffects
<1>4. LeftList(LeftOn(open, e), open, e, k)
  BY <1>1, LeftOnType
<1>5. /\ off \in Seq(Nat) /\ Len(off) = k
      /\ \A m \in 1..k :
            /\ l.sells[m].quantity \in Nat
            /\ l.sells[m].matched = Clamp(bought[l.sells[m].date] - off[m], l.sells[m].quantity)
            /\ Prefix(LeftOn(open, l.sells[m].date), m - 1) = Pos(off[m] - bought[l.sells[m].date])
      /\ \A d \in Int : Total(LeftOn(open, d)) = Pos(sold[d] - bought[d])
  BY DEF SellsMatched
<1> HIDE DEF open, taken, t, k
<1>6. /\ t.sells = [m \in 1..k |-> t.sells[m]] /\ Len(t.sells) = k /\ DOMAIN t.sells = 1..k
      /\ \A m \in 1..k : /\ t.sells[m].date = l.sells[m].date
                         /\ t.sells[m].quantity = l.sells[m].quantity
                         /\ t.sells[m].matched = l.sells[m].matched + taken[m]
  <2>1. t.sells = [m \in 1..k |-> t.sells[m]]
    BY <1>3 DEF BuyEffect
  <2>2. Len(t.sells) = k /\ DOMAIN t.sells = 1..k
    <3> DEFINE v == t.sells
    <3>1. v = [m \in 1..k |-> v[m]]
      BY <2>1
    <3> HIDE DEF v
    <3>2. Len(v) = k /\ DOMAIN v = 1..k
      BY <1>1, <3>1, FunctionIsSeq
    <3> QED BY <3>2 DEF v
  <2> QED BY <1>3, <2>1, <2>2 DEF BuyEffect
<1>7. /\ next = [m \in 1..k |-> next[m]]
      /\ \A m \in 1..k : /\ next[m].date = t.sells[m].date
                         /\ next[m].left = t.sells[m].quantity - t.sells[m].matched
  BY <1>6 DEF OpenSells
<1> HIDE DEF next
<1>8. Taken(next, open, taken, k)
  <2> SUFFICES ASSUME NEW m \in 1..k
               PROVE  next[m].date = open[m].date /\ next[m].left = open[m].left - taken[m]
    BY DEF Taken
  <2> DEFINE x == l.sells[m].matched
             y == l.sells[m].quantity
             z == taken[m]
  <2>1. x \in Nat /\ y \in Nat /\ z \in Nat
    BY <1>1, <1>2, <1>5
  <2>2. next[m].left = y - (x + z) /\ open[m].left = y - x
    BY <1>1, <1>6, <1>7
  <2>3. next[m].date = open[m].date
    BY <1>1, <1>6, <1>7
  <2> HIDE DEF x, y, z
  <2>4. y - (x + z) = (y - x) - z
    BY <2>1
  <2> QED BY <2>2, <2>3, <2>4 DEF z
<1>9. /\ Opens(next, k)
      /\ \A n \in 0..k : Prefix(LeftOn(next, e), n) = Pos(Prefix(LeftOn(open, e), n) - q)
      /\ \A d : d # e => LeftOn(next, d) = LeftOn(open, d)
  <2>1. FifoRests(next, open, e, q, k)
    BY <1>1, <1>7, <1>8, FifoLeft DEF taken
  <2> HIDE DEF q
  <2> QED BY <2>1 DEF FifoRests
<1>10. /\ more[e] = bought[e] + q /\ bought[e] \in Nat
       /\ \A d \in Int : d # e => more[d] = bought[d]
  OBVIOUS
<1>11. ASSUME NEW x \in Int, NEW b \in Nat PROVE Pos(Pos(x - b) - q) = Pos(x - (b + q))
  BY DEF Pos
<1>12. ASSUME NEW m \in 1..k
       PROVE  /\ t.sells[m].matched = Clamp(more[t.sells[m].date] - off[m], t.sells[m].quantity)
              /\ Prefix(LeftOn(next, t.sells[m].date), m - 1) = Pos(off[m] - more[t.sells[m].date])
  <2>0. m - 1 \in 0..k /\ t.sells[m].date = l.sells[m].date /\ t.sells[m].quantity = l.sells[m].quantity
        /\ t.sells[m].matched = l.sells[m].matched + taken[m] /\ l.sells[m].date \in Int
    <3>1. m - 1 \in 0..k
      BY <1>1
    <3> QED BY <1>1, <1>6, <3>1
  <2>1. CASE l.sells[m].date # e
    <3>1. taken[m] = 0 /\ more[l.sells[m].date] = bought[l.sells[m].date]
          /\ LeftOn(next, l.sells[m].date) = LeftOn(open, l.sells[m].date)
      BY <1>1, <1>2, <1>9, <1>10, <2>0, <2>1
    <3>2. l.sells[m].matched + 0 = l.sells[m].matched
      BY <1>1
    <3> QED BY <1>5, <2>0, <3>1, <3>2
  <2>2. CASE l.sells[m].date = e
    <3> DEFINE x == l.sells[m].matched
               y == l.sells[m].quantity
               b == bought[e]
               o == off[m]
               p == Prefix(LeftOn(open, e), m - 1)
    <3>1. x \in Nat /\ y \in Nat /\ b \in Nat /\ o \in Nat /\ x = Clamp(b - o, y) /\ p = Pos(o - b)
      BY <1>1, <1>5, <1>10, <2>2
    <3>2. taken[m] = Clamp(q - p, y - x)
      <4>1. LeftOn(open, e)[m] = open[m].left /\ open[m].left = y - x
        BY <1>1, <1>4, <2>2 DEF LeftList
      <4> HIDE DEF p, x, y
      <4> QED BY <1>2, <4>1 DEF p
    <3>3. Prefix(LeftOn(next, e), m - 1) = Pos(p - q)
      BY <1>9, <2>0
    <3> HIDE DEF x, y, b, o, p, q
    <3>4. q \in Nat
      BY DEF q
    <3>5. x + Clamp(q - p, y - x) = Clamp((b + q) - o, y)
      BY <3>1, <3>4 DEF Clamp, Least, Pos
    <3>6. Pos(p - q) = Pos(o - (b + q))
      BY <3>1, <3>4 DEF Pos
    <3>7. more[e] = b + q
      BY <1>10 DEF b
    <3> QED BY <2>0, <2>2, <3>2, <3>3, <3>5, <3>6, <3>7 DEF x, y, o
  <2> QED BY <2>1, <2>2
<1>13. ASSUME NEW d \in Int PROVE Total(LeftOn(next, d)) = Pos(sold[d] - more[d])
  <2>1. CASE d # e
    BY <1>5, <1>9, <1>10, <2>1
  <2>2. CASE d = e
    <3>1. LeftList(LeftOn(next, e), next, e, k)
      BY <1>1, <1>9, LeftOnType
    <3>2. /\ Prefix(LeftOn(next, e), k) = Total(LeftOn(next, e))
          /\ Prefix(LeftOn(open, e), k) = Total(LeftOn(open, e))
      BY <1>4, <3>1, PrefixFacts DEF LeftList
    <3>3. k \in 0..k
      BY <1>1
    <3>4. Total(LeftOn(next, e)) = Pos(Pos(sold[e] - bought[e]) - q)
      BY <1>5, <1>9, <3>2, <3>3
    <3>5. sold[e] \in Int /\ bought[e] \in Nat
      OBVIOUS
    <3>6. Pos(Pos(sold[e] - bought[e]) - q) = Pos(sold[e] - (bought[e] + q))
      BY <1>11, <3>5
    <3> QED BY <1>10, <2>2, <3>4, <3>6
  <2> QED BY <2>1, <2>2
<1>14. SellsMatched(t.sells, off, more, sold)
  BY <1>5, <1>6, <1>12, <1>13 DEF SellsMatched, next
<1> QED BY <1>14 DEF t

\* The loop takes all of qty, or all that is left on the date.
LEMMA FifoTotal ==
    ASSUME NEW k \in Nat, NEW open, Opens(open, k), NEW e, NEW qty \in Nat
    PROVE  /\ Total(MatchFifo(open, e, qty)) = Least(qty, Total(LeftOn(open, e)))
           /\ Total(LeftOn(open, e)) \in Nat
<1> DEFINE taken == MatchFifo(open, e, qty)
           left == LeftOn(open, e)
<1>1. FifoTakes(taken, left, open, e, qty, k) /\ LeftList(left, open, e, k)
  BY FifoTaken, LeftOnType
<1> HIDE DEF taken, left
<1>2. taken \in Seq(Int) /\ Len(taken) = k /\ left \in Seq(Int) /\ left \in Seq(Nat) /\ Len(left) = k
  BY <1>1 DEF FifoTakes, LeftList
<1>3. k \in 0..k
  OBVIOUS
<1>4. Prefix(taken, k) = Least(qty, Prefix(left, k))
  BY <1>1, <1>3 DEF FifoTakes
<1>5. Prefix(taken, k) = Total(taken) /\ Prefix(left, k) = Total(left)
  BY <1>2, PrefixFacts
<1>6. Prefix(left, k) \in Nat
  BY <1>2, <1>3, PrefixNat
<1> QED BY <1>4, <1>5, <1>6 DEF taken, left

\* A buy leaves open what the sells of its date did not take.
LEMMA BuyKeepsBuys ==
    ASSUME NEW l, IsLedger(l), NEW c, NEW f, f.qty \in Nat, NEW e \in Int,
           NEW bought \in [Int -> Nat], NEW sold \in [Int -> Nat], NEW off,
           SellsMatched(l.sells, off, bought, sold), BuysLeft(l.buys, bought, sold),
           NEW more, more = [bought EXCEPT ![e] = @ + f.qty]
    PROVE  BuysLeft(TaxOfBuy(l, c, f, e).buys, more, sold)
<1> DEFINE j == Len(l.sells)
           k == Len(l.buys)
           opens == OpenSells(l.sells)
           open == OpenBuys(l.buys)
           taken == MatchFifo(opens, e, f.qty)
           t == TaxOfBuy(l, c, f, e)
           next == OpenBuys(t.buys)
           q == f.qty
           b == bought[e]
           s == sold[e]
           rest == q - Total(taken)
<1>0. l.sells \in Seq(SellEntry) /\ l.buys \in Seq(BuyEntry)
  BY DEF IsLedger
<1>1. j \in Nat /\ Opens(opens, j)
  BY <1>0, SellsOpen
<1>2. /\ k \in Nat /\ Opens(open, k)
      /\ \A m \in 1..k : open[m].date = l.buys[m].date /\ open[m].left = l.buys[m].remaining
  BY <1>0, BuysOpen
<1>3. t.buys = IF rest = 0 THEN l.buys ELSE Append(l.buys, [date |-> e, remaining |-> rest])
  <2>1. FifoTakes(taken, LeftOn(opens, e), opens, e, q, j)
    BY <1>1, FifoTaken
  <2>2. \A m \in 1..j : taken[m] \in Nat
    <3> HIDE DEF taken, opens, q, j
    <3> QED BY <2>1 DEF FifoTakes
  <2>3. BuyEffect(t, l, c, f, e, taken, j)
    BY <2>2, BuyEffects
  <2> QED BY <2>3 DEF BuyEffect
<1>4. Total(taken) = Least(q, Pos(s - b)) /\ b \in Nat /\ s \in Nat /\ q \in Nat
  <2>1. Total(taken) = Least(q, Total(LeftOn(opens, e)))
    BY <1>1, FifoTotal
  <2>2. Total(LeftOn(opens, e)) = Pos(s - b)
    BY DEF SellsMatched
  <2> HIDE DEF taken, opens
  <2> QED BY <2>1, <2>2
<1>5. /\ more[e] = b + q /\ \A d \in Int : d # e => more[d] = bought[d]
  OBVIOUS
<1>6. /\ \A n \in 1..k : l.buys[n].remaining \in Nat
      /\ \A d \in Int : Total(LeftOn(open, d)) = Pos(bought[d] - sold[d])
  BY DEF BuysLeft
<1> HIDE DEF j, k, opens, open, taken, t, q
<1>7. rest \in Nat /\ Pos(b - s) + rest = Pos((b + q) - s)
  <2> HIDE DEF b, s
  <2>1. q - Least(q, Pos(s - b)) \in Nat
        /\ Pos(b - s) + (q - Least(q, Pos(s - b))) = Pos((b + q) - s)
    BY <1>4 DEF Least, Pos
  <2> QED BY <1>4, <2>1
<1> HIDE DEF rest
<1>8. CASE rest = 0
  <2>1. t.buys = l.buys
    BY <1>3, <1>8
  <2>2. Pos(b - s) = Pos((b + q) - s)
    <3>1. Pos(b - s) \in Int
      <4> HIDE DEF b, s
      <4> QED BY <1>4 DEF Pos
    <3> QED BY <1>7, <1>8, <3>1
  <2>3. ASSUME NEW d \in Int PROVE Total(LeftOn(open, d)) = Pos(more[d] - sold[d])
    <3>1. CASE d = e
      BY <1>5, <1>6, <2>2, <3>1
    <3>2. CASE d # e
      BY <1>5, <1>6, <3>2
    <3> QED BY <3>1, <3>2
  <2>4. BuysLeft(t.buys, more, sold)
    BY <1>6, <2>1, <2>3 DEF BuysLeft, open, k
  <2> QED BY <2>4 DEF t
<1>9. CASE rest # 0
  <2> DEFINE x == [date |-> e, remaining |-> rest]
  <2>1. x.date = e /\ x.remaining = rest
    OBVIOUS
  <2>2. t.buys = Append(l.buys, x)
    BY <1>3, <1>9
  <2> HIDE DEF x
  <2>3. /\ Len(t.buys) = k + 1 /\ DOMAIN t.buys = 1..(k + 1)
        /\ \A n \in 1..k : t.buys[n] = l.buys[n]
        /\ t.buys[k + 1] = x
    <3>1. IsSeq(l.buys)
      BY <1>0 DEF IsSeq
    <3>2. /\ IsSeq(Append(l.buys, x)) /\ Len(Append(l.buys, x)) = k + 1
          /\ \A n \in 1..k : Append(l.buys, x)[n] = l.buys[n]
          /\ Append(l.buys, x)[k + 1] = x
      BY <3>1, AppendFacts DEF k
    <3>3. DOMAIN Append(l.buys, x) = 1..(k + 1)
      BY <3>2, SeqFacts
    <3> QED BY <2>2, <3>2, <3>3
  <2>4. /\ next = [n \in 1..(k + 1) |-> next[n]]
        /\ \A n \in 1..(k + 1) : next[n] = [date |-> t.buys[n].date, left |-> t.buys[n].remaining]
    BY <2>3 DEF OpenBuys
  <2> HIDE DEF next
  <2>5. k + 1 \in 1..(k + 1) /\ (\A n \in 1..k : n \in 1..(k + 1))
        /\ \A n \in 1..(k + 1) : n \in 1..k \/ n = k + 1
    BY <1>2
  <2>6. ASSUME NEW n \in 1..k PROVE next[n] = open[n]
    <3>1. next[n] = [date |-> l.buys[n].date, left |-> l.buys[n].remaining]
      BY <2>3, <2>4, <2>5
    <3>2. open[n] = [date |-> l.buys[n].date, left |-> l.buys[n].remaining]
      <4>1. n \in DOMAIN l.buys
        BY <1>0 DEF k
      <4> QED BY <4>1 DEF open, OpenBuys
    <3> QED BY <3>1, <3>2
  <2>7. next[k + 1].date = e /\ next[k + 1].left = rest
    <3>1. next[k + 1] = [date |-> x.date, left |-> x.remaining]
      BY <2>3, <2>4, <2>5
    <3> QED BY <2>1, <3>1
  <2>8. \A d : Total(LeftOn(next, d)) = Total(LeftOn(open, d)) + (IF e = d THEN rest ELSE 0)
    <3>1. next[k + 1].left \in Nat
      BY <1>7, <2>7
    <3>2. \A d : Total(LeftOn(next, d)) = Total(LeftOn(open, d))
                    + (IF next[k + 1].date = d THEN next[k + 1].left ELSE 0)
      <4>1. OneMore(next, open, k)
        BY <2>4, <2>6, <3>1 DEF OneMore
      <4>2. LeftGrows(next, open, k)
        BY <1>2, <4>1, LeftOnMore
      <4> QED BY <4>2 DEF LeftGrows
    <3> QED BY <2>7, <3>2
  <2>9. ASSUME NEW d \in Int PROVE Total(LeftOn(next, d)) = Pos(more[d] - sold[d])
    <3>1. CASE d = e
      <4>1. Total(LeftOn(open, e)) = Pos(b - s)
        BY <1>6
      <4> QED BY <1>5, <1>7, <2>8, <3>1, <4>1
    <3>2. CASE d # e
      <4>1. Total(LeftOn(open, d)) = Pos(more[d] - sold[d]) /\ bought[d] \in Nat /\ sold[d] \in Nat
        BY <1>5, <1>6, <3>2
      <4>2. Pos(more[d] - sold[d]) \in Int
        <5>1. more[d] \in Int
          BY <1>5, <3>2, <4>1
        <5> QED BY <4>1, <5>1 DEF Pos
      <4>3. Total(LeftOn(next, d)) = Total(LeftOn(open, d)) + 0
        BY <2>8, <3>2
      <4> QED BY <4>1, <4>2, <4>3
    <3> QED BY <3>1, <3>2
  <2>10. ASSUME NEW n \in 1..(k + 1) PROVE t.buys[n].remaining \in Nat
    <3>1. CASE n = k + 1
      BY <3>1, <1>7, <2>1, <2>3
    <3>2. CASE n \in 1..k
      BY <3>2, <1>6, <2>3
    <3> QED BY <2>5, <3>1, <3>2
  <2>11. BuysLeft(t.buys, more, sold)
    BY <2>3, <2>9, <2>10 DEF BuysLeft, next
  <2> QED BY <2>11 DEF t
<1> QED BY <1>8, <1>9

\* All of a quantity, or what there is.
LEMMA LeastPos ==
    ASSUME NEW x \in Int, NEW qty \in Nat
    PROVE  Least(qty, Pos(x)) = Clamp(x, qty)
<1>1. CASE x < 0
  BY <1>1 DEF Least, Pos, Clamp
<1>2. CASE x >= 0
  <2>1. CASE x <= qty
    BY <1>2, <2>1 DEF Least, Pos, Clamp
  <2>2. CASE x > qty
    BY <1>2, <2>2 DEF Least, Pos, Clamp
  <2> QED BY <2>1, <2>2
<1> QED BY <1>1, <1>2

\* What the buys of a date cover of a sell.
LEMMA SellCovers ==
    ASSUME NEW buys \in Seq(BuyEntry), NEW qty \in Nat, NEW e \in Int,
           NEW bought \in [Int -> Nat], NEW sold \in [Int -> Nat], BuysLeft(buys, bought, sold)
    PROVE  Total(MatchFifo(OpenBuys(buys), e, qty)) = Clamp(bought[e] - sold[e], qty)
<1> DEFINE k == Len(buys)
           open == OpenBuys(buys)
           taken == MatchFifo(open, e, qty)
           b == bought[e]
           s == sold[e]
<1>1. k \in Nat /\ Opens(open, k)
  BY BuysOpen
<1>2. Total(taken) = Least(qty, Total(LeftOn(open, e)))
  BY <1>1, FifoTotal
<1>3. Total(LeftOn(open, e)) = Pos(b - s) /\ b \in Nat /\ s \in Nat
  BY DEF BuysLeft
<1> HIDE DEF taken, open, b, s
<1>4. Least(qty, Pos(b - s)) = Clamp(b - s, qty)
  <2>1. b \in Nat /\ s \in Nat
    BY <1>3
  <2>2. ASSUME NEW x \in Int PROVE Least(qty, Pos(x)) = Clamp(x, qty)
    BY LeastPos
  <2>3. b - s \in Int
    BY <2>1
  <2> QED BY <2>2, <2>3
<1> QED BY <1>2, <1>3, <1>4 DEF taken, open, b, s

\* A sell takes of the buys of its date, oldest first.
LEMMA SellKeepsBuys ==
    ASSUME NEW l, IsLedger(l), NEW c, NEW f, f.qty \in Nat, NEW e \in Int,
           NEW bought \in [Int -> Nat], NEW sold \in [Int -> Nat], BuysLeft(l.buys, bought, sold),
           NEW more, more = [sold EXCEPT ![e] = @ + f.qty]
    PROVE  BuysLeft(TaxOfSell(l, c, f, e).buys, bought, more)
<1> DEFINE k == Len(l.buys)
           open == OpenBuys(l.buys)
           taken == MatchFifo(open, e, f.qty)
           t == TaxOfSell(l, c, f, e)
           next == OpenBuys(t.buys)
           q == f.qty
           b == bought[e]
           s == sold[e]
<1>0. l.buys \in Seq(BuyEntry)
  BY DEF IsLedger
<1>1. /\ k \in Nat /\ Opens(open, k)
      /\ \A m \in 1..k : open[m].date = l.buys[m].date /\ open[m].left = l.buys[m].remaining
  BY <1>0, BuysOpen
<1>2. \A d \in Int : Total(LeftOn(open, d)) = Pos(bought[d] - sold[d])
  BY DEF BuysLeft
<1>3. SellEffect(t, l, c, f, e, taken, k)
  BY SellEffects
<1>4. b \in Nat /\ s \in Nat /\ q \in Nat
  OBVIOUS
<1>5. more[e] = s + q /\ \A d \in Int : d # e => more[d] = sold[d]
  OBVIOUS
<1> HIDE DEF k, open, taken, t, q
<1>6. /\ t.buys = [m \in 1..k |-> t.buys[m]] /\ Len(t.buys) = k /\ DOMAIN t.buys = 1..k
      /\ \A m \in 1..k : /\ t.buys[m].date = l.buys[m].date
                         /\ t.buys[m].remaining = l.buys[m].remaining - taken[m]
  <2>1. t.buys = [m \in 1..k |-> t.buys[m]]
    BY <1>3 DEF SellEffect
  <2>2. Len(t.buys) = k /\ DOMAIN t.buys = 1..k
    <3> DEFINE v == t.buys
    <3>1. v = [m \in 1..k |-> v[m]]
      BY <2>1
    <3> HIDE DEF v
    <3>2. Len(v) = k /\ DOMAIN v = 1..k
      BY <1>1, <3>1, FunctionIsSeq
    <3> QED BY <3>2 DEF v
  <2> QED BY <1>3, <2>1, <2>2 DEF SellEffect
<1>7. /\ next = [m \in 1..k |-> next[m]]
      /\ \A m \in 1..k : next[m].date = t.buys[m].date /\ next[m].left = t.buys[m].remaining
  BY <1>6 DEF OpenBuys
<1> HIDE DEF next
<1>8. Taken(next, open, taken, k)
  <2> SUFFICES ASSUME NEW m \in 1..k
               PROVE  next[m].date = open[m].date /\ next[m].left = open[m].left - taken[m]
    BY DEF Taken
  <2> QED BY <1>1, <1>6, <1>7
<1>9. /\ Opens(next, k)
      /\ \A n \in 0..k : Prefix(LeftOn(next, e), n) = Pos(Prefix(LeftOn(open, e), n) - q)
      /\ \A d : d # e => LeftOn(next, d) = LeftOn(open, d)
  <2>1. FifoRests(next, open, e, q, k)
    BY <1>1, <1>4, <1>7, <1>8, FifoLeft DEF taken, q
  <2> QED BY <2>1 DEF FifoRests
<1>10. ASSUME NEW d \in Int PROVE Total(LeftOn(next, d)) = Pos(bought[d] - more[d])
  <2>1. CASE d # e
    BY <1>2, <1>5, <1>9, <2>1
  <2>2. CASE d = e
    <3>1. LeftList(LeftOn(next, e), next, e, k) /\ LeftList(LeftOn(open, e), open, e, k)
      BY <1>1, <1>9, LeftOnType
    <3>2. /\ Prefix(LeftOn(next, e), k) = Total(LeftOn(next, e))
          /\ Prefix(LeftOn(open, e), k) = Total(LeftOn(open, e))
      BY <3>1, PrefixFacts DEF LeftList
    <3>3. k \in 0..k
      BY <1>1
    <3>4. Total(LeftOn(next, e)) = Pos(Pos(b - s) - q)
      BY <1>2, <1>9, <3>2, <3>3
    <3>5. Pos(Pos(b - s) - q) = Pos(b - (s + q))
      <4> HIDE DEF b, s
      <4> QED BY <1>4 DEF Pos
    <3> QED BY <1>5, <2>2, <3>4, <3>5
  <2> QED BY <2>1, <2>2
<1>11. ASSUME NEW n \in 1..k PROVE t.buys[n].remaining \in Nat
  <2>1. next[n].left \in Nat
    BY <1>9 DEF Opens
  <2> QED BY <1>7, <2>1
<1>12. BuysLeft(t.buys, bought, more)
  BY <1>6, <1>10, <1>11 DEF BuysLeft, next
<1> QED BY <1>12 DEF t

\* What a date had sold before each open sell, after one more sell.
OffAfter(off, covered, qty, before) == IF covered = qty THEN off ELSE Append(off, before)

\* A sell that the buys of its date do not cover is open, after those before it.
LEMMA SellKeepsSells ==
    ASSUME NEW l, IsLedger(l), NEW c, NEW f, f.qty \in Nat, NEW e \in Int,
           NEW bought \in [Int -> Nat], NEW sold \in [Int -> Nat], NEW off,
           SellsMatched(l.sells, off, bought, sold), BuysLeft(l.buys, bought, sold),
           NEW more, more = [sold EXCEPT ![e] = @ + f.qty]
    PROVE  SellsMatched(TaxOfSell(l, c, f, e).sells,
                        OffAfter(off, Clamp(bought[e] - sold[e], f.qty), f.qty, sold[e]),
                        bought, more)
<1> DEFINE k == Len(l.sells)
           j == Len(l.buys)
           open == OpenSells(l.sells)
           t == TaxOfSell(l, c, f, e)
           next == OpenSells(t.sells)
           q == f.qty
           b == bought[e]
           s == sold[e]
           covered == Clamp(b - s, q)
<1>0. l.sells \in Seq(SellEntry)
  BY DEF IsLedger
<1>1. k \in Nat /\ Opens(open, k)
  BY <1>0, SellsOpen
<1>2. /\ off \in Seq(Nat) /\ Len(off) = k
      /\ \A m \in 1..k :
            /\ l.sells[m].quantity \in Nat
            /\ l.sells[m].matched = Clamp(bought[l.sells[m].date] - off[m], l.sells[m].quantity)
            /\ Prefix(LeftOn(open, l.sells[m].date), m - 1) = Pos(off[m] - bought[l.sells[m].date])
      /\ \A d \in Int : Total(LeftOn(open, d)) = Pos(sold[d] - bought[d])
  BY DEF SellsMatched
<1>3. t.sells = IF covered = q THEN l.sells
                ELSE Append(l.sells, [date |-> e, price |-> f.price, quantity |-> q,
                                      matched |-> covered, assessed |-> t.tax])
  <2>1. SellEffect(t, l, c, f, e, MatchFifo(OpenBuys(l.buys), e, q), j)
    BY SellEffects
  <2>2. Total(MatchFifo(OpenBuys(l.buys), e, q)) = covered
    <3>1. l.buys \in Seq(BuyEntry) /\ q \in Nat
      BY DEF IsLedger
    <3> HIDE DEF q
    <3> QED BY <3>1, SellCovers
  <2> HIDE DEF t, covered
  <2> QED BY <2>1, <2>2 DEF SellEffect
<1>4. b \in Nat /\ s \in Nat /\ q \in Nat
  OBVIOUS
<1>5. more[e] = s + q /\ \A d \in Int : d # e => more[d] = sold[d]
  OBVIOUS
<1> HIDE DEF k, j, open, t, q
<1>6. CASE covered = q
  <2>1. t.sells = l.sells
    BY <1>3, <1>6
  <2>2. Pos(s - b) = Pos((s + q) - b)
    <3> HIDE DEF s, b
    <3> QED BY <1>4, <1>6 DEF Pos, Clamp, Least
  <2>3. ASSUME NEW d \in Int PROVE Total(LeftOn(open, d)) = Pos(more[d] - bought[d])
    <3>1. CASE d = e
      BY <1>2, <1>5, <2>2, <3>1
    <3>2. CASE d # e
      BY <1>2, <1>5, <3>2
    <3> QED BY <3>1, <3>2
  <2>4. SellsMatched(t.sells, off, bought, more)
    BY <1>2, <2>1, <2>3 DEF SellsMatched, open, k
  <2> QED BY <1>6, <2>4 DEF t, q, OffAfter
<1>7. CASE covered # q
  <2> DEFINE x == [date |-> e, price |-> f.price, quantity |-> q,
                   matched |-> covered, assessed |-> t.tax]
             at == Append(off, s)
  <2>1. x.date = e /\ x.quantity = q /\ x.matched = covered
    OBVIOUS
  <2>2. t.sells = Append(l.sells, x)
    BY <1>3, <1>7
  <2> HIDE DEF x, covered
  <2>3. /\ Len(t.sells) = k + 1 /\ DOMAIN t.sells = 1..(k + 1)
        /\ \A n \in 1..k : t.sells[n] = l.sells[n]
        /\ t.sells[k + 1] = x
    <3>1. IsSeq(l.sells)
      BY <1>0 DEF IsSeq
    <3>2. /\ IsSeq(Append(l.sells, x)) /\ Len(Append(l.sells, x)) = k + 1
          /\ \A n \in 1..k : Append(l.sells, x)[n] = l.sells[n]
          /\ Append(l.sells, x)[k + 1] = x
      BY <3>1, AppendFacts DEF k
    <3>3. DOMAIN Append(l.sells, x) = 1..(k + 1)
      BY <3>2, SeqFacts
    <3> QED BY <2>2, <3>2, <3>3
  <2>4. at \in Seq(Nat) /\ Len(at) = k + 1 /\ at[k + 1] = s /\ \A n \in 1..k : at[n] = off[n]
    <3>1. off \in Seq(Nat) /\ Len(off) = k /\ s \in Nat /\ IsSeq(off)
      BY <1>2, <1>4 DEF IsSeq
    <3> HIDE DEF s
    <3>2. Append(off, s) \in Seq(Nat)
      BY <3>1
    <3> QED BY <3>1, <3>2, AppendFacts
  <2> HIDE DEF at
  <2>5. /\ next = [n \in 1..(k + 1) |-> next[n]]
        /\ \A n \in 1..(k + 1) :
              next[n] = [date |-> t.sells[n].date, left |-> t.sells[n].quantity - t.sells[n].matched]
    BY <2>3 DEF OpenSells
  <2> HIDE DEF next
  <2>6. k + 1 \in 1..(k + 1) /\ (\A n \in 1..k : n \in 1..(k + 1)) /\ k \in 0..k
        /\ (\A n \in 1..(k + 1) : n \in 1..k \/ n = k + 1) /\ (k + 1) - 1 = k
        /\ \A n \in 1..k : n - 1 \in 0..k
    BY <1>1
  <2>7. ASSUME NEW n \in 1..k PROVE next[n] = open[n]
    <3>1. next[n] = [date |-> l.sells[n].date, left |-> l.sells[n].quantity - l.sells[n].matched]
      BY <2>3, <2>5, <2>6
    <3>2. open[n] = [date |-> l.sells[n].date, left |-> l.sells[n].quantity - l.sells[n].matched]
      <4>1. n \in DOMAIN l.sells
        BY <1>0 DEF k
      <4> QED BY <4>1 DEF open, OpenSells
    <3> QED BY <3>1, <3>2
  <2>8. next[k + 1].date = e /\ next[k + 1].left = q - covered
    <3>1. next[k + 1] = [date |-> x.date, left |-> x.quantity - x.matched]
      BY <2>3, <2>5, <2>6
    <3> QED BY <2>1, <3>1
  <2>9. q - covered \in Nat /\ Pos(s - b) + (q - covered) = Pos((s + q) - b)
    <3> HIDE DEF s, b
    <3> QED BY <1>4 DEF Pos, Clamp, Least, covered
  <2>10. LeftGrows(next, open, k)
    <3>1. OneMore(next, open, k)
      BY <2>5, <2>7, <2>8, <2>9 DEF OneMore
    <3> QED BY <1>1, <3>1, LeftOnMore
  <2>11. ASSUME NEW d \in Int PROVE Total(LeftOn(next, d)) = Pos(more[d] - bought[d])
    <3>0. Total(LeftOn(next, d)) = Total(LeftOn(open, d)) + (IF e = d THEN q - covered ELSE 0)
      BY <2>8, <2>10 DEF LeftGrows
    <3>1. CASE d = e
      <4>1. Total(LeftOn(open, e)) = Pos(s - b)
        BY <1>2
      <4> QED BY <1>5, <2>9, <3>0, <3>1, <4>1
    <3>2. CASE d # e
      <4>1. Total(LeftOn(open, d)) = Pos(more[d] - bought[d]) /\ bought[d] \in Nat /\ sold[d] \in Nat
        BY <1>2, <1>5, <3>2
      <4>2. Pos(more[d] - bought[d]) \in Int
        <5>1. more[d] \in Int
          BY <1>5, <3>2, <4>1
        <5> QED BY <4>1, <5>1 DEF Pos
      <4>3. Total(LeftOn(next, d)) = Total(LeftOn(open, d)) + 0
        BY <3>0, <3>2
      <4> QED BY <4>1, <4>2, <4>3
    <3> QED BY <3>1, <3>2
  <2>12. ASSUME NEW m \in 1..(k + 1)
         PROVE  /\ t.sells[m].quantity \in Nat
                /\ t.sells[m].matched = Clamp(bought[t.sells[m].date] - at[m], t.sells[m].quantity)
                /\ Prefix(LeftOn(next, t.sells[m].date), m - 1)
                     = Pos(at[m] - bought[t.sells[m].date])
    <3>1. CASE m \in 1..k
      <4>1. Prefix(LeftOn(next, l.sells[m].date), m - 1) = Prefix(LeftOn(open, l.sells[m].date), m - 1)
        BY <2>6, <2>10, <3>1 DEF LeftGrows
      <4>2. t.sells[m] = l.sells[m] /\ at[m] = off[m]
        BY <2>3, <2>4, <3>1
      <4> QED BY <1>2, <3>1, <4>1, <4>2
    <3>2. CASE m = k + 1
      <4>1. t.sells[m].date = e /\ t.sells[m].quantity = q /\ t.sells[m].matched = covered
            /\ at[m] = s /\ m - 1 = k
        BY <2>1, <2>3, <2>4, <2>6, <3>2
      <4>2. Prefix(LeftOn(next, e), k) = Prefix(LeftOn(open, e), k)
        BY <2>6, <2>10 DEF LeftGrows
      <4>3. Prefix(LeftOn(open, e), k) = Total(LeftOn(open, e))
        <5>1. LeftList(LeftOn(open, e), open, e, k)
          BY <1>1, LeftOnType
        <5> QED BY <5>1, PrefixFacts DEF LeftList
      <4>4. Total(LeftOn(open, e)) = Pos(s - b)
        BY <1>2
      <4> QED BY <1>4, <4>1, <4>2, <4>3, <4>4 DEF covered
    <3> QED BY <2>6, <3>1, <3>2
  <2>13. SellsMatched(t.sells, at, bought, more)
    BY <2>3, <2>4, <2>11, <2>12 DEF SellsMatched, next
  <2> QED BY <1>7, <2>13 DEF t, q, covered, at, OffAfter
<1> QED BY <1>6, <1>7

\* The tax of the open sells if their dates bought as much as `buying` says,
\* and what that is more than the tax assessed so far.
OpenTaxes(sells, off, buying, c) ==
    [m \in 1..Len(sells) |->
        SplitSellTax(sells[m].price, sells[m].quantity,
                     Clamp(buying[sells[m].date] - off[m], sells[m].quantity), c)]
AssessedTaxes(sells) == [m \in 1..Len(sells) |-> sells[m].assessed]
Gaps(sells, off, buying, c) ==
    [m \in 1..Len(sells) |-> OpenTaxes(sells, off, buying, c)[m] - sells[m].assessed]

\* A config with a day-trade model that validate_models accepts.
DayTrades(c) == Accepted(c) /\ ModelsValid(c) /\ c.dayTrade # <<>>

\* Differences.
LEMMA IntFacts ==
    /\ \A x \in Nat : x \in Int
    /\ \A x \in Int : x + 0 = x
    /\ \A x, y \in Int : x - y \in Int /\ x + y \in Int
OBVIOUS

\* A list of integers.
LEMMA ListOfInts ==
    ASSUME NEW N \in Nat, NEW u, u = [n \in 1..N |-> u[n]], \A n \in 1..N : u[n] \in Int
    PROVE  u \in Seq(Int) /\ Len(u) = N
<1>1. u \in [1..N -> Int]
  OBVIOUS
<1> QED BY <1>1

\* A clamped integer is an integer.
LEMMA ClampType ==
    ASSUME NEW x \in Int, NEW y \in Int
    PROVE  Clamp(x, y) \in Int
BY DEF Clamp, Least

\* The gap is the difference of the two totals.
GapOK(sells, off, buying, c) ==
    /\ Gaps(sells, off, buying, c) \in Seq(Int) /\ Len(Gaps(sells, off, buying, c)) = Len(sells)
    /\ Total(Gaps(sells, off, buying, c)) \in Int /\ Total(AssessedTaxes(sells)) \in Int
    /\ Total(OpenTaxes(sells, off, buying, c)) \in Int
    /\ Total(OpenTaxes(sells, off, buying, c))
         = Total(Gaps(sells, off, buying, c)) + Total(AssessedTaxes(sells))
LEMMA GapIs ==
    ASSUME NEW c, DayTrades(c), NEW sells, sells \in Seq(SellEntry),
           NEW off, off \in Seq(Nat), Len(off) = Len(sells), NEW buying, buying \in [Int -> Nat]
    PROVE  GapOK(sells, off, buying, c)
<1> DEFINE k == Len(sells)
           p == OpenTaxes(sells, off, buying, c)
           a == AssessedTaxes(sells)
           g == Gaps(sells, off, buying, c)
<1>1. k \in Nat /\ \A m \in 1..k : sells[m] \in SellEntry /\ off[m] \in Nat
  <2>1. k \in Nat /\ \A m \in 1..k : sells[m] \in SellEntry
    BY SeqEntries
  <2>2. \A m \in 1..Len(off) : off[m] \in Nat
    BY SeqEntries
  <2> QED BY <2>1, <2>2
<1> HIDE DEF k
<1>2. ASSUME NEW m \in 1..k PROVE p[m] \in Int /\ a[m] \in Int /\ g[m] = p[m] - a[m]
  <2>1. /\ sells[m].price \in Int /\ sells[m].quantity \in Int /\ sells[m].date \in Int
        /\ sells[m].assessed \in Int /\ off[m] \in Int
    <3>1. sells[m] \in SellEntry /\ off[m] \in Nat
      BY <1>1
    <3>2. off[m] \in Int
      BY <3>1, IntFacts
    <3>3. \A z \in SellEntry :
              z.price \in Int /\ z.quantity \in Int /\ z.date \in Int /\ z.assessed \in Int
      BY DEF SellEntry
    <3> QED BY <3>1, <3>2, <3>3
  <2> DEFINE x == Clamp(buying[sells[m].date] - off[m], sells[m].quantity)
  <2>2. x \in Int
    <3>0. buying[sells[m].date] \in Nat
      BY <2>1
    <3>1. buying[sells[m].date] - off[m] \in Int
      BY <2>1, <3>0, IntFacts
    <3> QED BY <2>1, <3>1, ClampType
  <2>3. p[m] = SplitSellTax(sells[m].price, sells[m].quantity, x, c)
    BY DEF OpenTaxes, k
  <2> HIDE DEF x, p
  <2>4. p[m] \in Int
    BY <2>1, <2>2, <2>3, SplitType DEF DayTrades
  <2>5. a[m] = sells[m].assessed
    BY DEF AssessedTaxes, k
  <2>6. g[m] = p[m] - sells[m].assessed
    BY DEF Gaps, p, k
  <2> HIDE DEF a, g
  <2> QED BY <2>1, <2>4, <2>5, <2>6
<1>3. p = [m \in 1..k |-> p[m]] /\ a = [m \in 1..k |-> a[m]] /\ g = [m \in 1..k |-> g[m]]
  BY DEF OpenTaxes, AssessedTaxes, Gaps, k
<1> HIDE DEF p, a, g
<1>4. p \in Seq(Int) /\ Len(p) = k
  BY <1>1, <1>2, <1>3, ListOfInts
<1>5. a \in Seq(Int) /\ Len(a) = k
  BY <1>1, <1>2, <1>3, ListOfInts
<1>6. g \in Seq(Int) /\ Len(g) = k
  <2>1. ASSUME NEW m \in 1..k PROVE g[m] \in Int
    <3>1. p[m] \in Int /\ a[m] \in Int /\ g[m] = p[m] - a[m]
      BY <1>2
    <3> QED BY <3>1, IntFacts
  <2> QED BY <1>1, <1>3, <2>1, ListOfInts
<1>7. ASSUME NEW m \in 1..k PROVE p[m] = g[m] + a[m]
  <2>1. p[m] \in Int /\ a[m] \in Int /\ g[m] = p[m] - a[m]
    BY <1>2
  <2> DEFINE x == p[m]
             y == a[m]
  <2>2. x \in Int /\ y \in Int /\ g[m] = x - y
    BY <2>1
  <2> HIDE DEF x, y
  <2>3. x = (x - y) + y
    BY <2>2
  <2> QED BY <2>2, <2>3 DEF x, y
<1>8. Total(p) = Total(g) + Total(a)
  BY <1>4, <1>5, <1>6, <1>7, TotalSum
<1>9. Total(p) \in Int /\ Total(g) \in Int /\ Total(a) \in Int
  BY <1>4, <1>5, <1>6, TotalType
<1> QED BY <1>6, <1>8, <1>9 DEF GapOK, p, a, g, k

\* Every open sell is taxed for its match.
Assessments(sells, c) ==
    \A m \in 1..Len(sells) :
        sells[m].assessed = SplitSellTax(sells[m].price, sells[m].quantity, sells[m].matched, c)

\* The tax of a buy closes that much of the gap.
BuyCloses(t, l, off, c) ==
    /\ Assessments(t.sells, c)
    /\ \A buying \in [Int -> Nat] :
          /\ Total(Gaps(t.sells, off, buying, c)) \in Int
          /\ Total(Gaps(l.sells, off, buying, c)) \in Int /\ t.tax \in Int
          /\ Total(Gaps(l.sells, off, buying, c)) = t.tax + Total(Gaps(t.sells, off, buying, c))
LEMMA BuyTaxes ==
    ASSUME NEW l, IsLedger(l), NEW c, DayTrades(c),
           NEW f, f.qty \in Nat, NEW e \in Int,
           NEW bought \in [Int -> Nat], NEW sold, NEW off,
           SellsMatched(l.sells, off, bought, sold), Assessments(l.sells, c)
    PROVE  BuyCloses(TaxOfBuy(l, c, f, e), l, off, c)
<1> DEFINE k == Len(l.sells)
           open == OpenSells(l.sells)
           taken == MatchFifo(open, e, f.qty)
           t == TaxOfBuy(l, c, f, e)
<1>0. l.sells \in Seq(SellEntry)
  BY DEF IsLedger
<1>1. k \in Nat /\ Opens(open, k) /\ \A m \in 1..k : l.sells[m].matched \in Nat
  BY <1>0, SellsOpen
<1>2. FifoTakes(taken, LeftOn(open, e), open, e, f.qty, k)
  BY <1>1, FifoTaken
<1>3. \A m \in 1..k : taken[m] \in Nat
  <2> HIDE DEF taken, open, k
  <2> QED BY <1>2 DEF FifoTakes
<1>4. BuyEffect(t, l, c, f, e, taken, k)
  BY <1>3, BuyEffects
<1>5. t.sells \in Seq(SellEntry) /\ t.tax \in Int
  <2>1. f.qty \in Int
    OBVIOUS
  <2> QED BY <2>1, TaxOfBuyType DEF DayTrades
<1>6. off \in Seq(Nat) /\ Len(off) = k
  BY DEF SellsMatched
<1>7. \A m \in 1..k : l.sells[m].assessed =
          SplitSellTax(l.sells[m].price, l.sells[m].quantity, l.sells[m].matched, c)
  BY DEF Assessments
<1>8. Len(t.sells) = k
  <2> HIDE DEF t, taken, k, open
  <2>1. t.sells = [m \in 1..k |-> t.sells[m]]
    BY <1>4 DEF BuyEffect
  <2> DEFINE v == t.sells
  <2>2. v = [m \in 1..k |-> v[m]]
    BY <2>1
  <2> HIDE DEF v
  <2>3. Len(v) = k
    BY <1>1, <2>2, FunctionIsSeq
  <2> QED BY <2>3 DEF v
<1> HIDE DEF t, taken, k, open
<1>9. \A m \in 1..k :
          /\ t.sells[m].date = l.sells[m].date /\ t.sells[m].price = l.sells[m].price
          /\ t.sells[m].quantity = l.sells[m].quantity
          /\ t.sells[m].matched = l.sells[m].matched + taken[m]
          /\ t.sells[m].assessed =
                IF taken[m] = 0 THEN l.sells[m].assessed
                ELSE SplitSellTax(l.sells[m].price, l.sells[m].quantity,
                                  l.sells[m].matched + taken[m], c)
  BY <1>4 DEF BuyEffect
<1>10. Assessments(t.sells, c)
  <2> SUFFICES ASSUME NEW m \in 1..k
               PROVE  t.sells[m].assessed =
                        SplitSellTax(t.sells[m].price, t.sells[m].quantity, t.sells[m].matched, c)
    BY <1>8 DEF Assessments
  <2>1. CASE taken[m] = 0
    <3>0. l.sells[m].matched \in Nat
      BY <1>1
    <3>1. l.sells[m].matched + 0 = l.sells[m].matched
      BY <3>0, IntFacts
    <3> QED BY <1>7, <1>9, <2>1, <3>1
  <2>2. CASE taken[m] # 0
    BY <1>9, <2>2
  <2> QED BY <2>1, <2>2
<1>11. ASSUME NEW buying \in [Int -> Nat]
       PROVE  /\ Total(Gaps(t.sells, off, buying, c)) \in Int
              /\ Total(Gaps(l.sells, off, buying, c)) \in Int
              /\ Total(Gaps(l.sells, off, buying, c)) = t.tax + Total(Gaps(t.sells, off, buying, c))
  <2>1. GapOK(l.sells, off, buying, c) /\ GapOK(t.sells, off, buying, c)
    BY <1>0, <1>5, <1>6, <1>8, GapIs DEF k
  <2>2. OpenTaxes(t.sells, off, buying, c) = OpenTaxes(l.sells, off, buying, c)
    <3> DEFINE P(s, m) == SplitSellTax(s.price, s.quantity,
                                       Clamp(buying[s.date] - off[m], s.quantity), c)
    <3>1. ASSUME NEW m \in 1..k PROVE P(t.sells[m], m) = P(l.sells[m], m)
      BY <1>9
    <3>2. OpenTaxes(t.sells, off, buying, c) = [m \in 1..k |-> P(t.sells[m], m)]
      BY <1>8 DEF OpenTaxes
    <3>3. OpenTaxes(l.sells, off, buying, c) = [m \in 1..k |-> P(l.sells[m], m)]
      BY DEF OpenTaxes, k
    <3> HIDE DEF P
    <3> QED BY <3>1, <3>2, <3>3
  <2>3. t.tax = Total(AssessedTaxes(t.sells)) - Total(AssessedTaxes(l.sells))
    <3>1. /\ AssessedTaxes(t.sells) = [m \in 1..k |-> t.sells[m].assessed]
          /\ AssessedTaxes(l.sells) = [m \in 1..k |-> l.sells[m].assessed]
      BY <1>8 DEF AssessedTaxes, k
    <3> QED BY <1>4, <3>1 DEF BuyEffect
  <2> DEFINE g == Total(Gaps(l.sells, off, buying, c))
             h == Total(Gaps(t.sells, off, buying, c))
             a == Total(AssessedTaxes(l.sells))
             b == Total(AssessedTaxes(t.sells))
  <2>4. g \in Int /\ h \in Int /\ a \in Int /\ b \in Int /\ g + a = h + b
    BY <2>1, <2>2 DEF GapOK
  <2>5. t.tax = b - a
    BY <2>3
  <2> HIDE DEF g, h, a, b
  <2>6. g = (b - a) + h
    BY <2>4
  <2> QED BY <2>4, <2>5, <2>6 DEF g, h
<1> QED BY <1>5, <1>10, <1>11 DEF BuyCloses, t

\* The tax of a sell is what it would be, less the gap it opens.
SellOpens(t, at, l, off, f, c, date, bought, sold) ==
    /\ Assessments(t.sells, c)
    /\ \A buying \in [Int -> Nat] : bought <= buying[date] =>
          /\ Total(Gaps(t.sells, at, buying, c)) \in Int
          /\ Total(Gaps(l.sells, off, buying, c)) \in Int /\ t.tax \in Int
          /\ Total(Gaps(l.sells, off, buying, c))
               + SplitSellTax(f.price, f.qty, Clamp(buying[date] - sold, f.qty), c)
             = t.tax + Total(Gaps(t.sells, at, buying, c))
LEMMA SellTaxes ==
    ASSUME NEW l, IsLedger(l), NEW c, DayTrades(c),
           NEW f, f.qty \in Nat, f.price \in Int, NEW e \in Int,
           NEW bought \in [Int -> Nat], NEW sold \in [Int -> Nat], NEW off,
           SellsMatched(l.sells, off, bought, sold), BuysLeft(l.buys, bought, sold),
           Assessments(l.sells, c)
    PROVE  SellOpens(TaxOfSell(l, c, f, e),
                     OffAfter(off, Clamp(bought[e] - sold[e], f.qty), f.qty, sold[e]),
                     l, off, f, c, e, bought[e], sold[e])
<1> DEFINE k == Len(l.sells)
           t == TaxOfSell(l, c, f, e)
           q == f.qty
           b == bought[e]
           s == sold[e]
           covered == Clamp(b - s, q)
           at == OffAfter(off, covered, q, s)
           x == [date |-> e, price |-> f.price, quantity |-> q, matched |-> covered, assessed |-> t.tax]
<1>0. l.sells \in Seq(SellEntry) /\ l.buys \in Seq(BuyEntry)
  BY DEF IsLedger
<1>1. k \in Nat /\ off \in Seq(Nat) /\ Len(off) = k /\ b \in Nat /\ s \in Nat /\ q \in Nat
  <2>1. k \in Nat
    BY <1>0, SeqEntries
  <2>2. off \in Seq(Nat) /\ Len(off) = k
    BY DEF SellsMatched
  <2> QED BY <2>1, <2>2
<1>2. t.sells = (IF covered = q THEN l.sells ELSE Append(l.sells, x))
      /\ t.tax = SplitSellTax(f.price, q, covered, c)
  <2>1. SellEffect(t, l, c, f, e, MatchFifo(OpenBuys(l.buys), e, q), Len(l.buys))
    BY SellEffects
  <2>2. Total(MatchFifo(OpenBuys(l.buys), e, q)) = covered
    <3> HIDE DEF q
    <3> QED BY <1>0, <1>1, SellCovers
  <2> HIDE DEF t, covered
  <2> QED BY <2>1, <2>2 DEF SellEffect
<1>3. t.tax \in Int /\ t.sells \in Seq(SellEntry)
  <2>1. f.qty \in Int
    OBVIOUS
  <2> QED BY <2>1, TaxOfSellType DEF DayTrades
<1>4. \A m \in 1..k : l.sells[m].assessed =
          SplitSellTax(l.sells[m].price, l.sells[m].quantity, l.sells[m].matched, c)
  BY DEF Assessments
<1>5. /\ x.date = e /\ x.price = f.price /\ x.quantity = q /\ x.matched = covered
      /\ x.assessed = t.tax
  OBVIOUS
<1>6. at = IF covered = q THEN off ELSE Append(off, s)
  BY DEF OffAfter
<1> HIDE DEF x, t, at, covered, k, q, b, s
<1>7. CASE covered = q
  <2>1. t.sells = l.sells /\ at = off
    BY <1>2, <1>6, <1>7
  <2>2. Assessments(t.sells, c)
    BY <2>1
  <2>3. ASSUME NEW buying \in [Int -> Nat], b <= buying[e]
        PROVE  /\ Total(Gaps(t.sells, at, buying, c)) \in Int
               /\ Total(Gaps(l.sells, off, buying, c)) \in Int
               /\ Total(Gaps(l.sells, off, buying, c))
                    + SplitSellTax(f.price, q, Clamp(buying[e] - s, q), c)
                  = t.tax + Total(Gaps(t.sells, at, buying, c))
    <3> DEFINE y == buying[e]
    <3>1. y \in Nat /\ b <= y
      BY <2>3
    <3>2. Clamp(y - s, q) = covered
      <4> HIDE DEF y
      <4>1. b \in Nat /\ s \in Nat /\ q \in Nat /\ Clamp(b - s, q) = q
        BY <1>1, <1>7 DEF covered
      <4>2. Clamp(y - s, q) = q
        BY <3>1, <4>1 DEF Clamp, Least
      <4> QED BY <1>7, <4>2
    <3>3. GapOK(l.sells, off, buying, c)
      BY <1>0, <1>1, GapIs DEF k
    <3> DEFINE g == Total(Gaps(l.sells, off, buying, c))
    <3>4. g \in Int
      BY <3>3 DEF GapOK
    <3> HIDE DEF g
    <3>5. g + t.tax = t.tax + g
      <4> DEFINE z == t.tax
      <4>1. z \in Int
        BY <1>3
      <4> HIDE DEF z
      <4>2. g + z = z + g
        BY <3>4, <4>1
      <4> QED BY <4>2 DEF z
    <3> QED BY <1>2, <2>1, <3>2, <3>4, <3>5 DEF g
  <2> QED BY <1>3, <2>2, <2>3 DEF SellOpens, t, q, b, s, at, covered
<1>8. CASE covered # q
  <2>1. t.sells = Append(l.sells, x) /\ at = Append(off, s)
    BY <1>2, <1>6, <1>8
  <2>2. /\ Len(t.sells) = k + 1 /\ t.sells[k + 1] = x
        /\ \A n \in 1..k : t.sells[n] = l.sells[n]
    <3> DEFINE v == l.sells
    <3>1. IsSeq(v) /\ k = Len(v)
      BY <1>0 DEF IsSeq, k
    <3> HIDE DEF v
    <3>2. /\ Len(Append(v, x)) = Len(v) + 1 /\ Append(v, x)[Len(v) + 1] = x
          /\ \A n \in 1..Len(v) : Append(v, x)[n] = v[n]
      BY <3>1, AppendFacts
    <3>3. t.sells = Append(v, x)
      BY <2>1 DEF v
    <3>4. /\ Len(t.sells) = k + 1 /\ t.sells[k + 1] = x
          /\ \A n \in 1..k : t.sells[n] = v[n]
      BY <3>1, <3>2, <3>3
    <3> QED BY <3>4 DEF v
  <2>3. at \in Seq(Nat) /\ Len(at) = k + 1 /\ at[k + 1] = s /\ \A n \in 1..k : at[n] = off[n]
    <3>1. IsSeq(off)
      BY <1>1 DEF IsSeq
    <3>2. Append(off, s) \in Seq(Nat)
      BY <1>1
    <3>3. /\ Len(Append(off, s)) = Len(off) + 1 /\ Append(off, s)[Len(off) + 1] = s
          /\ \A n \in 1..Len(off) : Append(off, s)[n] = off[n]
      BY <3>1, AppendFacts
    <3>4. Len(off) = k /\ at = Append(off, s)
      BY <1>1, <2>1
    <3> QED BY <3>2, <3>3, <3>4
  <2>4. k + 1 \in 1..(k + 1) /\ (\A n \in 1..k : n \in 1..(k + 1))
        /\ (\A n \in 1..(k + 1) : n \in 1..k \/ n = k + 1)
    <3>1. k \in Nat
      BY <1>1
    <3> QED BY <3>1
  <2>5. Assessments(t.sells, c)
    <3> SUFFICES ASSUME NEW m \in 1..(k + 1)
                 PROVE  t.sells[m].assessed =
                          SplitSellTax(t.sells[m].price, t.sells[m].quantity, t.sells[m].matched, c)
      BY <2>2 DEF Assessments
    <3>1. CASE m \in 1..k
      <4>1. t.sells[m] = l.sells[m]
        BY <2>2, <3>1
      <4> QED BY <1>4, <3>1, <4>1
    <3>2. CASE m = k + 1
      <4>1. t.sells[m] = x
        BY <2>2, <3>2
      <4> QED BY <1>2, <1>5, <4>1
    <3> QED BY <2>4, <3>1, <3>2
  <2>6. ASSUME NEW buying \in [Int -> Nat], b <= buying[e]
        PROVE  /\ Total(Gaps(t.sells, at, buying, c)) \in Int
               /\ Total(Gaps(l.sells, off, buying, c)) \in Int
               /\ Total(Gaps(l.sells, off, buying, c))
                    + SplitSellTax(f.price, q, Clamp(buying[e] - s, q), c)
                  = t.tax + Total(Gaps(t.sells, at, buying, c))
    <3> DEFINE u == Gaps(l.sells, off, buying, c)
               v == Gaps(t.sells, at, buying, c)
               w == SplitSellTax(f.price, q, Clamp(buying[e] - s, q), c)
               P(z, o) == SplitSellTax(z.price, z.quantity, Clamp(buying[z.date] - o, z.quantity), c)
    <3>1. GapOK(l.sells, off, buying, c)
      BY <1>0, <1>1, GapIs DEF k
    <3>2. GapOK(t.sells, at, buying, c)
      BY <1>3, <2>2, <2>3, GapIs
    <3>3. u \in Seq(Int) /\ Len(u) = k /\ Total(u) \in Int
      BY <3>1 DEF GapOK, k
    <3>4. v \in Seq(Int) /\ Len(v) = k + 1 /\ Total(v) \in Int
      BY <2>2, <3>2 DEF GapOK
    <3>5. u = [m \in 1..k |-> P(l.sells[m], off[m]) - l.sells[m].assessed]
      BY DEF Gaps, OpenTaxes, k
    <3>6. v = [m \in 1..(k + 1) |-> P(t.sells[m], at[m]) - t.sells[m].assessed]
      BY <2>2 DEF Gaps, OpenTaxes
    <3>7. ASSUME NEW m \in 1..k PROVE v[m] = u[m]
      <4>1. t.sells[m] = l.sells[m] /\ at[m] = off[m] /\ m \in 1..(k + 1)
        BY <2>2, <2>3, <2>4
      <4>2. v[m] = P(t.sells[m], at[m]) - t.sells[m].assessed
        <5> HIDE DEF v, P
        <5> QED BY <3>6, <4>1
      <4>3. u[m] = P(l.sells[m], off[m]) - l.sells[m].assessed
        <5> HIDE DEF u, P
        <5> QED BY <3>5
      <4> HIDE DEF u, v, P
      <4> QED BY <4>1, <4>2, <4>3
    <3>8. v[k + 1] = w - t.tax
      <4>1. v[k + 1] = P(t.sells[k + 1], at[k + 1]) - t.sells[k + 1].assessed
        <5> HIDE DEF v, P
        <5> QED BY <2>4, <3>6
      <4>2. P(x, s) = w
        BY <1>5
      <4> HIDE DEF v, w, P
      <4> QED BY <1>5, <2>2, <2>3, <4>1, <4>2
    <3>9. w \in Int
      <4>1. buying[e] \in Nat
        OBVIOUS
      <4>2. buying[e] - s \in Int
        BY <1>1, <4>1, IntFacts
      <4>3. q \in Int
        BY <1>1
      <4>4. Clamp(buying[e] - s, q) \in Int
        BY <4>2, <4>3, ClampType
      <4> QED BY <4>3, <4>4, SplitType DEF DayTrades
    <3> HIDE DEF u, v, w, P
    <3>10. v[k + 1] \in Int
      BY <1>3, <3>8, <3>9, IntFacts
    <3>11. v = [n \in 1..(Len(u) + 1) |-> v[n]]
      BY <3>3, <3>4
    <3>12. Total(v) = Total(u) + v[k + 1]
      BY <3>3, <3>7, <3>10, <3>11, TotalMore
    <3> DEFINE g == Total(u)
               h == Total(v)
               z == t.tax
    <3>13. g \in Int /\ h \in Int /\ z \in Int /\ h = g + (w - z)
      BY <1>3, <3>3, <3>4, <3>8, <3>12
    <3> HIDE DEF g, h, z
    <3>14. g + w = z + h
      BY <3>9, <3>13
    <3> QED BY <3>13, <3>14 DEF g, h, z, u, v, w
  <2> QED BY <1>3, <2>5, <2>6 DEF SellOpens, t, q, b, s, at, covered
<1> QED BY <1>7, <1>8

\* What a fill adds to one side of a date.
DateOf(f, c) == TradingDate(f.time, c.dayTrade[1])
Share(c, f, d, side) ==
    IF f.side = side /\ DayTradeEligible(f, c) /\ DateOf(f, c) = d THEN f.qty ELSE 0
DayList(c, fills, d, side, upto) == [n \in 1..upto |-> Share(c, fills[n], d, side)]
\* What each date bought or sold.
Traded(c, fills, side) == [d \in Int |-> Total(DayList(c, fills, d, side, Len(fills)))]
\* The tax of a fill after `before` was sold on its date, if dates buy as much
\* as `buying` says, and the taxes of all fills.
TaxAt(c, f, buying, before) ==
    IF ~DayTradeEligible(f, c) THEN Charge(Scaled(f.price, f.qty, c), f.qty, f.side, c.tax)
    ELSE IF f.side = "Buy" THEN 0
    ELSE SplitSellTax(f.price, f.qty, Clamp(buying[DateOf(f, c)] - before, f.qty), c)
Taxes(c, fills, buying) ==
    [n \in 1..Len(fills) |->
        TaxAt(c, fills[n], buying, Total(DayList(c, fills, DateOf(fills[n], c), "Sell", n - 1)))]

\* What a date traded is a quantity.
LEMMA DayListType ==
    ASSUME NEW c, NEW fills, \A n \in 1..Len(fills) : fills[n] \in Fills, NEW d, NEW side,
           NEW k \in Nat, Len(fills) \in Nat, k <= Len(fills)
    PROVE  /\ DayList(c, fills, d, side, k) \in Seq(Int) /\ Len(DayList(c, fills, d, side, k)) = k
           /\ Total(DayList(c, fills, d, side, k)) \in Nat
<1> DEFINE s == DayList(c, fills, d, side, k)
<1>1. \A f \in Fills : Share(c, f, d, side) \in Nat
  BY LedgerAssumption DEF Share
<1>2. \A n \in 1..k : n \in 1..Len(fills)
  OBVIOUS
<1>3. \A n \in 1..k : Share(c, fills[n], d, side) \in Nat
  BY <1>1, <1>2
<1>4. s \in [1..k -> Nat]
  BY <1>3 DEF DayList
<1> HIDE DEF s
<1>5. s \in Seq(Nat) /\ s \in Seq(Int) /\ Len(s) = k
  BY <1>4
<1>6. Prefix(s, k) \in Nat /\ Prefix(s, k) = Total(s)
  <2>1. k \in 0..k
    OBVIOUS
  <2>2. \A n \in 0..Len(s) : Prefix(s, n) \in Nat
    BY <1>5, PrefixNat
  <2>3. Prefix(s, Len(s)) = Total(s)
    BY <1>5, PrefixFacts
  <2> QED BY <1>5, <2>1, <2>2, <2>3
<1> QED BY <1>5, <1>6 DEF s

\* What each date bought or sold is a function to quantities.
LEMMA TradedType ==
    ASSUME NEW c, NEW fills \in Seq(Fills), NEW side
    PROVE  Traded(c, fills, side) \in [Int -> Nat]
<1>1. Len(fills) \in Nat /\ \A n \in 1..Len(fills) : fills[n] \in Fills
  BY SeqEntries
<1>2. ASSUME NEW d \in Int PROVE Total(DayList(c, fills, d, side, Len(fills))) \in Nat
  BY <1>1, DayListType
<1> QED BY <1>2 DEF Traded

\* One more fill.
LEMMA FillAppend ==
    ASSUME NEW fills \in Seq(Fills), NEW f \in Fills
    PROVE  /\ Append(fills, f) \in Seq(Fills) /\ Len(Append(fills, f)) = Len(fills) + 1
           /\ Len(fills) \in Nat /\ (\A n \in 1..Len(fills) : Append(fills, f)[n] = fills[n])
           /\ Append(fills, f)[Len(fills) + 1] = f
OBVIOUS

\* One more fill adds its share to its date.
TradedAdds(c, all, fills, f, side) ==
    /\ \A d : \A k \in 0..Len(fills) : DayList(c, all, d, side, k) = DayList(c, fills, d, side, k)
    /\ Traded(c, all, side) = [d \in Int |-> Traded(c, fills, side)[d] + Share(c, f, d, side)]
LEMMA TradedAppend ==
    ASSUME NEW c, NEW fills \in Seq(Fills), NEW f \in Fills, NEW side
    PROVE  TradedAdds(c, Append(fills, f), fills, f, side)
<1> DEFINE all == Append(fills, f)
           k == Len(fills)
<1>1. /\ all \in Seq(Fills) /\ Len(all) = k + 1 /\ k \in Nat
      /\ (\A n \in 1..k : all[n] = fills[n]) /\ all[k + 1] = f
  BY FillAppend
<1>2. /\ \A n \in 1..k : fills[n] \in Fills
      /\ \A n \in 1..Len(all) : all[n] \in Fills
  BY <1>1, SeqEntries
<1> HIDE DEF all, k
<1>3. ASSUME NEW d, NEW j \in 0..k PROVE DayList(c, all, d, side, j) = DayList(c, fills, d, side, j)
  <2>1. \A n \in 1..j : n \in 1..k
    BY <1>1
  <2>2. \A n \in 1..j : Share(c, all[n], d, side) = Share(c, fills[n], d, side)
    BY <1>1, <2>1
  <2> QED BY <2>2 DEF DayList
<1>4. ASSUME NEW d
      PROVE  Total(DayList(c, all, d, side, k + 1)) = Total(DayList(c, fills, d, side, k)) + Share(c, f, d, side)
  <2> DEFINE a == DayList(c, fills, d, side, k)
             b == DayList(c, all, d, side, k + 1)
  <2>1. a \in Seq(Int) /\ Len(a) = k
    BY <1>1, <1>2, DayListType DEF k
  <2>2. b = [n \in 1..(k + 1) |-> Share(c, all[n], d, side)]
    BY DEF DayList
  <2>3. a = [n \in 1..k |-> Share(c, fills[n], d, side)]
    BY DEF DayList
  <2>4. k + 1 \in 1..(k + 1) /\ \A n \in 1..k : n \in 1..(k + 1)
    BY <1>1
  <2> HIDE DEF a, b
  <2>5. b[k + 1] = Share(c, f, d, side) /\ b = [n \in 1..(k + 1) |-> b[n]]
    BY <1>1, <2>2, <2>4
  <2>6. ASSUME NEW n \in 1..k PROVE b[n] = a[n]
    <3>1. b[n] = Share(c, all[n], d, side) /\ a[n] = Share(c, fills[n], d, side)
      BY <2>2, <2>3, <2>4
    <3> QED BY <1>1, <3>1
  <2>7. b[k + 1] \in Int
    <3>1. \A x \in Fills : Share(c, x, d, side) \in Int
      BY LedgerAssumption DEF Share
    <3> QED BY <2>5, <3>1
  <2>8. Total(b) = Total(a) + b[k + 1]
    BY <2>1, <2>5, <2>6, <2>7, TotalMore
  <2> QED BY <2>5, <2>8 DEF a, b
<1>5. Traded(c, all, side) = [d \in Int |-> Traded(c, fills, side)[d] + Share(c, f, d, side)]
  <2> DEFINE A(d) == Total(DayList(c, all, d, side, k + 1))
             B(d) == Total(DayList(c, fills, d, side, k))
             tr == Traded(c, fills, side)
  <2>1. Traded(c, all, side) = [d \in Int |-> A(d)]
    BY <1>1 DEF Traded
  <2>2. tr = [d \in Int |-> B(d)]
    BY DEF Traded, k
  <2>3. \A d \in Int : A(d) = B(d) + Share(c, f, d, side)
    BY <1>4
  <2> HIDE DEF A, B, tr
  <2>4. \A d \in Int : A(d) = tr[d] + Share(c, f, d, side)
    BY <2>2, <2>3
  <2> QED BY <2>1, <2>4 DEF tr
<1> QED BY <1>3, <1>5 DEF TradedAdds, all, k

\* The date of a fill the reduced rate may apply to.
LEMMA DateType ==
    ASSUME NEW c, Accepted(c), ModelsValid(c), NEW f \in Fills, DayTradeEligible(f, c)
    PROVE  DateOf(f, c) \in Int /\ DayTrades(c)
<1>1. c.dayTrade # <<>>
  BY DEF DayTradeEligible
<1> DEFINE o == c.dayTrade[1].offset
<1>2. o \in Int
  BY <1>1, DayModels
<1>3. f.time \in Int /\ DayLength \in Nat \ {0}
  BY LedgerAssumption
<1> HIDE DEF o
<1>4. (f.time + o) \div DayLength \in Int
  BY <1>2, <1>3
<1> QED BY <1>1, <1>4 DEF DateOf, TradingDate, o, DayTrades

\* The tax of a fill is an integer.
LEMMA TaxAtType ==
    ASSUME NEW c, Accepted(c), ModelsValid(c), NEW f \in Fills, NEW buying, buying \in [Int -> Nat],
           NEW before \in Int
    PROVE  TaxAt(c, f, buying, before) \in Int
<1>1. f.qty \in Int /\ f.price \in Int
  BY LedgerAssumption
<1>2. CASE ~DayTradeEligible(f, c)
  <2>1. c.multiplier \in Int /\ c.units \in Int /\ c.tax \in ChargeModel
        /\ c.tax.precision \in DOMAIN Quantum
    BY DEF Accepted, IsConfig, ModelsValid, InvalidModels
  <2>2. Scaled(f.price, f.qty, c) \in Int
    BY <1>1, <2>1, ScaledExact
  <2>3. Charge(Scaled(f.price, f.qty, c), f.qty, f.side, c.tax) \in Int
    BY <1>1, <2>1, <2>2, ChargeType
  <2> QED BY <1>2, <2>3 DEF TaxAt
<1>3. CASE DayTradeEligible(f, c)
  <2>1. DateOf(f, c) \in Int /\ DayTrades(c)
    BY <1>3, DateType
  <2>2. buying[DateOf(f, c)] \in Int
    <3>1. buying[DateOf(f, c)] \in Nat
      BY <2>1
    <3> QED BY <3>1, IntFacts
  <2>3. Clamp(buying[DateOf(f, c)] - before, f.qty) \in Int
    <3>1. buying[DateOf(f, c)] - before \in Int
      BY <2>2, IntFacts
    <3> QED BY <1>1, <3>1, ClampType
  <2>4. SplitSellTax(f.price, f.qty, Clamp(buying[DateOf(f, c)] - before, f.qty), c) \in Int
    BY <1>1, <2>1, <2>3, SplitType DEF DayTrades
  <2> QED BY <1>3, <2>4 DEF TaxAt
<1> QED BY <1>2, <1>3

\* One more fill adds its tax.
TaxAdds(c, fills, f, buying) ==
    /\ Total(Taxes(c, fills, buying)) \in Int
    /\ TaxAt(c, f, buying, Total(DayList(c, fills, DateOf(f, c), "Sell", Len(fills)))) \in Int
    /\ Total(Taxes(c, Append(fills, f), buying)) = Total(Taxes(c, fills, buying))
         + TaxAt(c, f, buying, Total(DayList(c, fills, DateOf(f, c), "Sell", Len(fills))))
LEMMA TaxesAppend ==
    ASSUME NEW c, Accepted(c), ModelsValid(c), NEW fills \in Seq(Fills), NEW f \in Fills,
           NEW buying, buying \in [Int -> Nat]
    PROVE  TaxAdds(c, fills, f, buying)
<1> DEFINE all == Append(fills, f)
           k == Len(fills)
           a == Taxes(c, fills, buying)
           b == Taxes(c, all, buying)
           At(s, n) == TaxAt(c, s[n], buying, Total(DayList(c, s, DateOf(s[n], c), "Sell", n - 1)))
           x == TaxAt(c, f, buying, Total(DayList(c, fills, DateOf(f, c), "Sell", k)))
<1>1. /\ all \in Seq(Fills) /\ Len(all) = k + 1 /\ k \in Nat
      /\ (\A n \in 1..k : all[n] = fills[n]) /\ all[k + 1] = f
  BY FillAppend
<1>2. \A n \in 1..k : fills[n] \in Fills
  BY SeqEntries
<1>3. \A d : \A j \in 0..k : DayList(c, all, d, "Sell", j) = DayList(c, fills, d, "Sell", j)
  <2>1. TradedAdds(c, all, fills, f, "Sell")
    BY TradedAppend
  <2> HIDE DEF all
  <2> QED BY <2>1 DEF TradedAdds
<1>4. \A d : \A j \in 0..k : Total(DayList(c, fills, d, "Sell", j)) \in Int
  <2> SUFFICES ASSUME NEW d, NEW j \in 0..k PROVE Total(DayList(c, fills, d, "Sell", j)) \in Nat
    BY IntFacts
  <2>1. j \in Nat /\ j <= k
    BY <1>1
  <2> QED BY <1>1, <1>2, <2>1, DayListType
<1>5. a = [n \in 1..k |-> At(fills, n)]
  BY DEF Taxes
<1>6. b = [n \in 1..(k + 1) |-> At(all, n)]
  BY <1>1 DEF Taxes
<1> HIDE DEF all, k, a, b
<1>7. k + 1 \in 1..(k + 1) /\ (k + 1) - 1 = k /\ k \in 0..k
      /\ \A n \in 1..k : n \in 1..(k + 1) /\ n - 1 \in 0..k
  <2>1. k \in Nat
    BY <1>1
  <2> QED BY <2>1
<1>8. x \in Int
  BY <1>4, <1>7, TaxAtType
<1>9. ASSUME NEW n \in 1..k PROVE At(fills, n) \in Int /\ At(all, n) = At(fills, n)
  <2>1. fills[n] \in Fills /\ all[n] = fills[n] /\ n - 1 \in 0..k
    BY <1>1, <1>2, <1>7
  <2>2. Total(DayList(c, fills, DateOf(fills[n], c), "Sell", n - 1)) \in Int
    BY <1>4, <2>1
  <2>3. At(fills, n) \in Int
    BY <2>1, <2>2, TaxAtType
  <2>4. DayList(c, all, DateOf(all[n], c), "Sell", n - 1)
          = DayList(c, fills, DateOf(fills[n], c), "Sell", n - 1)
    BY <1>3, <2>1
  <2> QED BY <2>1, <2>3, <2>4
<1>10. At(all, k + 1) = x
  <2>1. all[k + 1] = f
    BY <1>1
  <2>2. DayList(c, all, DateOf(f, c), "Sell", k) = DayList(c, fills, DateOf(f, c), "Sell", k)
    BY <1>3, <1>7
  <2> QED BY <1>7, <2>1, <2>2
<1> HIDE DEF At, x
<1>11. a = [n \in 1..k |-> a[n]] /\ \A n \in 1..k : a[n] = At(fills, n)
  BY <1>5
<1>12. b = [n \in 1..(k + 1) |-> b[n]] /\ \A n \in 1..(k + 1) : b[n] = At(all, n)
  BY <1>6
<1>13. a \in Seq(Int) /\ Len(a) = k
  <2>1. k \in Nat /\ \A n \in 1..k : a[n] \in Int
    BY <1>1, <1>9, <1>11
  <2> QED BY <1>11, <2>1, ListOfInts
<1>14. ASSUME NEW n \in 1..k PROVE b[n] = a[n]
  BY <1>7, <1>9, <1>11, <1>12
<1>15. b[k + 1] = x
  BY <1>7, <1>10, <1>12
<1>16. Total(b) = Total(a) + x
  BY <1>8, <1>12, <1>13, <1>14, <1>15, TotalMore
<1>17. Total(a) \in Int
  BY <1>13, TotalType
<1> QED BY <1>8, <1>16, <1>17 DEF TaxAdds, a, b, x, all, k

\* What each date traded, after one more fill.
LEMMA TradedSame ==
    ASSUME NEW c, NEW fills \in Seq(Fills), NEW f \in Fills, NEW side,
           ~DayTradeEligible(f, c) \/ f.side # side
    PROVE  Traded(c, Append(fills, f), side) = Traded(c, fills, side)
<1> DEFINE tr == Traded(c, fills, side)
           next == Traded(c, Append(fills, f), side)
<1>1. tr \in [Int -> Nat]
  BY TradedType
<1>2. next = [d \in Int |-> tr[d] + Share(c, f, d, side)]
  <2> DEFINE all == Append(fills, f)
  <2>1. TradedAdds(c, all, fills, f, side)
    BY TradedAppend
  <2> HIDE DEF all
  <2>2. Traded(c, all, side) = [d \in Int |-> tr[d] + Share(c, f, d, side)]
    BY <2>1 DEF TradedAdds
  <2> QED BY <2>2 DEF all
<1>3. \A d : Share(c, f, d, side) = 0
  BY DEF Share
<1> HIDE DEF tr, next
<1>4. \A d \in Int : tr[d] + Share(c, f, d, side) = tr[d]
  <2>1. ASSUME NEW d \in Int PROVE tr[d] + 0 = tr[d]
    <3>1. tr[d] \in Nat
      BY <1>1
    <3> QED BY <3>1
  <2> QED BY <1>3, <2>1
<1>5. next = [d \in Int |-> tr[d]]
  BY <1>2, <1>4
<1>6. tr = [d \in Int |-> tr[d]]
  BY <1>1
<1> QED BY <1>5, <1>6 DEF tr, next
OneTrade(next, trades, date, qty) == next = [trades EXCEPT ![date] = @ + qty]
LEMMA TradedMore ==
    ASSUME NEW c, NEW fills \in Seq(Fills), NEW f \in Fills, DayTradeEligible(f, c),
           DateOf(f, c) \in Int
    PROVE  OneTrade(Traded(c, Append(fills, f), f.side), Traded(c, fills, f.side), DateOf(f, c), f.qty)
<1> DEFINE tr == Traded(c, fills, f.side)
           next == Traded(c, Append(fills, f), f.side)
           e == DateOf(f, c)
           q == f.qty
<1>1. tr \in [Int -> Nat] /\ q \in Nat /\ e \in Int
  BY TradedType, LedgerAssumption
<1>2. next = [d \in Int |-> tr[d] + Share(c, f, d, f.side)]
  <2> DEFINE all == Append(fills, f)
  <2>1. TradedAdds(c, all, fills, f, f.side)
    BY TradedAppend
  <2> HIDE DEF all
  <2>2. Traded(c, all, f.side) = [d \in Int |-> tr[d] + Share(c, f, d, f.side)]
    BY <2>1 DEF TradedAdds
  <2> QED BY <2>2 DEF all
<1>3. \A d : Share(c, f, d, f.side) = IF d = e THEN q ELSE 0
  BY DEF Share
<1> HIDE DEF tr, next, e, q
<1>4. ASSUME NEW d \in Int PROVE next[d] = IF d = e THEN tr[e] + q ELSE tr[d]
  <2>1. next[d] = tr[d] + (IF d = e THEN q ELSE 0) /\ tr[d] \in Nat
    BY <1>1, <1>2, <1>3
  <2> QED BY <2>1
<1>5. next = [d \in Int |-> next[d]]
  BY <1>2
<1>6. next = [tr EXCEPT ![e] = @ + q]
  BY <1>1, <1>4, <1>5
<1> QED BY <1>6 DEF OneTrade, tr, next, e, q

\* The tax of a ledger explained by what was bought and sold each date: more
\* buys of a date would only close the gap of its open sells.
TaxExplained(l, c, off) ==
    /\ SellsMatched(l.sells, off, Traded(c, l.fills, "Buy"), Traded(c, l.fills, "Sell"))
    /\ BuysLeft(l.buys, Traded(c, l.fills, "Buy"), Traded(c, l.fills, "Sell"))
    /\ Assessments(l.sells, c)
    /\ \A buying \in [Int -> Nat] :
          (\A d \in Int : Traded(c, l.fills, "Buy")[d] <= buying[d]) =>
              /\ Total(Gaps(l.sells, off, buying, c)) \in Int
              /\ Total(Taxes(c, l.fills, buying)) = l.tax + Total(Gaps(l.sells, off, buying, c))
FifoTaxed(l, c) == \E off : TaxExplained(l, c, off)

\* A new ledger has no tax to explain.
LEMMA NewLedgerTaxed ==
    ASSUME NEW c
    PROVE  FifoTaxed(NewLedger, c)
<1> DEFINE l == NewLedger
           bought == Traded(c, l.fills, "Buy")
           sold == Traded(c, l.fills, "Sell")
<1>1. l.sells = <<>> /\ l.buys = <<>> /\ l.fills = <<>> /\ l.tax = 0
  BY DEF NewLedger
<1>2. Len(<<>>) = 0 /\ <<>> \in Seq(Nat) /\ DOMAIN <<>> = {} /\ 1..0 = {}
  OBVIOUS
<1>3. ASSUME NEW side, NEW d \in Int PROVE Traded(c, l.fills, side)[d] = 0
  <2>1. DayList(c, <<>>, d, side, 0) = <<>>
    BY <1>2 DEF DayList
  <2> QED BY <1>1, <1>2, <2>1, TotalEmpty DEF Traded
<1>4. ASSUME NEW d PROVE LeftOn(OpenSells(<<>>), d) = <<>> /\ LeftOn(OpenBuys(<<>>), d) = <<>>
  BY <1>2 DEF LeftOn, OpenSells, OpenBuys
<1>5. Pos(0 - 0) = 0
  BY DEF Pos
<1> HIDE DEF l
<1>6. SellsMatched(l.sells, <<>>, bought, sold)
  <2>1. \A d \in Int : Total(LeftOn(OpenSells(l.sells), d)) = Pos(sold[d] - bought[d])
    BY <1>1, <1>3, <1>4, <1>5, TotalEmpty
  <2> HIDE DEF bought, sold
  <2> QED BY <1>1, <1>2, <2>1 DEF SellsMatched
<1>7. BuysLeft(l.buys, bought, sold)
  <2>1. \A d \in Int : Total(LeftOn(OpenBuys(l.buys), d)) = Pos(bought[d] - sold[d])
    BY <1>1, <1>3, <1>4, <1>5, TotalEmpty
  <2> HIDE DEF bought, sold
  <2> QED BY <1>1, <1>2, <2>1 DEF BuysLeft
<1>8. Assessments(l.sells, c)
  BY <1>1, <1>2 DEF Assessments
<1>9. ASSUME NEW buying
      PROVE  /\ Total(Gaps(l.sells, <<>>, buying, c)) \in Int
             /\ Total(Taxes(c, l.fills, buying)) = l.tax + Total(Gaps(l.sells, <<>>, buying, c))
  <2>1. Gaps(l.sells, <<>>, buying, c) = <<>>
    BY <1>1, <1>2 DEF Gaps
  <2>2. Taxes(c, l.fills, buying) = <<>>
    BY <1>1, <1>2 DEF Taxes
  <2> QED BY <1>1, <2>1, <2>2, TotalEmpty
<1>10. TaxExplained(l, c, <<>>)
  BY <1>6, <1>7, <1>8, <1>9 DEF TaxExplained
<1> QED BY <1>10 DEF FifoTaxed, l

\* A fill booked with what tax_for_fill returns.
TaxBooked(next, l, c, f) ==
    LET t == TaxForFill(l, c, f)
    IN  /\ next.tax = l.tax + t.tax /\ next.buys = t.buys /\ next.sells = t.sells
        /\ next.fills = Append(l.fills, f)

\* The tax of a ledger is explained after a fill the reduced rate does not
\* apply to.
LEMMA OrdinaryTaxed ==
    ASSUME NEW l, NEW c, NEW f \in Fills, IsLedger(l), Accepted(c), ModelsValid(c), NEW off,
           TaxExplained(l, c, off), NEW next, TaxBooked(next, l, c, f), ~DayTradeEligible(f, c)
    PROVE  TaxExplained(next, c, off)
<1> DEFINE bought == Traded(c, l.fills, "Buy")
           sold == Traded(c, l.fills, "Sell")
           x == Charge(Scaled(f.price, f.qty, c), f.qty, f.side, c.tax)
           b == DayList(c, l.fills, DateOf(f, c), "Sell", Len(l.fills))
<1>1. l.fills \in Seq(Fills) /\ l.tax \in Int
  BY DEF IsLedger
<1>2. /\ next.tax = l.tax + x /\ next.buys = l.buys /\ next.sells = l.sells
      /\ next.fills = Append(l.fills, f)
  BY DEF TaxBooked, TaxForFill
<1>3. Traded(c, next.fills, "Buy") = bought /\ Traded(c, next.fills, "Sell") = sold
  BY <1>1, <1>2, TradedSame
<1>4. ASSUME NEW buying, buying \in [Int -> Nat], \A d \in Int : bought[d] <= buying[d]
      PROVE  /\ Total(Gaps(l.sells, off, buying, c)) \in Int
             /\ Total(Taxes(c, next.fills, buying)) = next.tax + Total(Gaps(l.sells, off, buying, c))
  <2>1. /\ Total(Gaps(l.sells, off, buying, c)) \in Int
        /\ Total(Taxes(c, l.fills, buying)) = l.tax + Total(Gaps(l.sells, off, buying, c))
    BY <1>4 DEF TaxExplained
  <2>2. TaxAdds(c, l.fills, f, buying)
    BY <1>1, <1>4, TaxesAppend
  <2>3. TaxAt(c, f, buying, Total(b)) = x
    BY DEF TaxAt
  <2> DEFINE g == Total(Gaps(l.sells, off, buying, c))
             y == l.tax
             T == Total(Taxes(c, l.fills, buying))
             U == Total(Taxes(c, next.fills, buying))
  <2>4. g \in Int /\ x \in Int /\ y \in Int /\ T = y + g /\ U = T + x
    <3> HIDE DEF x
    <3> QED BY <1>1, <1>2, <2>1, <2>2, <2>3 DEF TaxAdds
  <2> HIDE DEF g, y, T, U, x
  <2>5. U = (y + x) + g
    BY <2>4
  <2> QED BY <1>2, <2>1, <2>5 DEF g, y, U
<1> QED BY <1>2, <1>3, <1>4 DEF TaxExplained

\* After a buy the reduced rate may apply to.
LEMMA BuyTaxed ==
    ASSUME NEW l, NEW c, NEW f \in Fills, IsLedger(l), Accepted(c), ModelsValid(c), NEW off,
           TaxExplained(l, c, off), NEW next, TaxBooked(next, l, c, f), DayTradeEligible(f, c),
           f.side = "Buy"
    PROVE  TaxExplained(next, c, off)
<1> DEFINE bought == Traded(c, l.fills, "Buy")
           sold == Traded(c, l.fills, "Sell")
           more == Traded(c, next.fills, "Buy")
           e == DateOf(f, c)
           t == TaxOfBuy(l, c, f, e)
           b == DayList(c, l.fills, e, "Sell", Len(l.fills))
<1>1. l.fills \in Seq(Fills) /\ l.tax \in Int /\ f.qty \in Nat
  BY LedgerAssumption DEF IsLedger
<1>2. e \in Int /\ DayTrades(c)
  BY DateType
<1>3. /\ next.tax = l.tax + t.tax /\ next.buys = t.buys /\ next.sells = t.sells
      /\ next.fills = Append(l.fills, f)
  BY DEF TaxBooked, TaxForFill, DateOf
<1>4. Traded(c, next.fills, "Sell") = sold /\ more = [bought EXCEPT ![e] = @ + f.qty]
  <2>1. f.side # "Sell"
    OBVIOUS
  <2>2. Traded(c, next.fills, "Sell") = sold
    BY <1>1, <1>3, <2>1, TradedSame
  <2>3. OneTrade(Traded(c, next.fills, f.side), Traded(c, l.fills, f.side), e, f.qty)
    BY <1>1, <1>2, <1>3, TradedMore
  <2>4. OneTrade(more, bought, e, f.qty)
    BY <2>3
  <2> QED BY <2>2, <2>4 DEF OneTrade
<1>5. bought \in [Int -> Nat] /\ sold \in [Int -> Nat]
  BY <1>1, TradedType
<1>6. /\ SellsMatched(l.sells, off, bought, sold) /\ BuysLeft(l.buys, bought, sold)
      /\ Assessments(l.sells, c)
  BY DEF TaxExplained
<1> HIDE DEF bought, sold, more, e, t
<1>7. SellsMatched(t.sells, off, more, sold)
  BY <1>1, <1>2, <1>4, <1>5, <1>6, BuyKeepsSells DEF t
<1>8. BuysLeft(t.buys, more, sold)
  BY <1>1, <1>2, <1>4, <1>5, <1>6, BuyKeepsBuys DEF t
<1>9. /\ Assessments(t.sells, c)
      /\ \A buying \in [Int -> Nat] :
            /\ Total(Gaps(t.sells, off, buying, c)) \in Int
            /\ Total(Gaps(l.sells, off, buying, c)) \in Int /\ t.tax \in Int
            /\ Total(Gaps(l.sells, off, buying, c)) = t.tax + Total(Gaps(t.sells, off, buying, c))
  <2>1. BuyCloses(t, l, off, c)
    BY <1>1, <1>2, <1>5, <1>6, BuyTaxes DEF t
  <2> QED BY <2>1 DEF BuyCloses
<1>10. ASSUME NEW d \in Int PROVE bought[d] <= more[d] /\ bought[d] \in Nat /\ more[d] \in Nat
  <2>1. bought[d] \in Nat /\ (more[d] = bought[d] \/ more[d] = bought[d] + f.qty)
    BY <1>2, <1>4, <1>5
  <2> QED BY <1>1, <2>1
<1>11. ASSUME NEW buying, buying \in [Int -> Nat], \A d \in Int : more[d] <= buying[d]
       PROVE  /\ Total(Gaps(t.sells, off, buying, c)) \in Int
              /\ Total(Taxes(c, next.fills, buying)) = next.tax + Total(Gaps(t.sells, off, buying, c))
  <2>1. ASSUME NEW d \in Int PROVE bought[d] <= buying[d]
    <3>1. bought[d] <= more[d] /\ bought[d] \in Nat /\ more[d] \in Nat
      BY <1>10
    <3>2. more[d] <= buying[d] /\ buying[d] \in Nat
      BY <1>11
    <3> QED BY <3>1, <3>2
  <2>2. Total(Taxes(c, l.fills, buying)) = l.tax + Total(Gaps(l.sells, off, buying, c))
    BY <1>11, <2>1 DEF TaxExplained, bought
  <2>3. /\ Total(Gaps(t.sells, off, buying, c)) \in Int /\ t.tax \in Int
        /\ Total(Gaps(l.sells, off, buying, c)) = t.tax + Total(Gaps(t.sells, off, buying, c))
    BY <1>9, <1>11
  <2>4. TaxAdds(c, l.fills, f, buying)
    BY <1>1, <1>11, TaxesAppend
  <2>5. TaxAt(c, f, buying, Total(b)) = 0
    BY DEF TaxAt
  <2> DEFINE h == Total(Gaps(t.sells, off, buying, c))
             g == Total(Gaps(l.sells, off, buying, c))
             y == l.tax
             z == t.tax
             T == Total(Taxes(c, l.fills, buying))
             U == Total(Taxes(c, next.fills, buying))
  <2>6. h \in Int /\ z \in Int /\ y \in Int /\ g = z + h /\ T = y + g /\ U = T + 0
    BY <1>1, <1>3, <2>2, <2>3, <2>4, <2>5 DEF TaxAdds, e
  <2> HIDE DEF g, h, y, z, T, U
  <2>7. U = (y + z) + h
    BY <2>6
  <2> QED BY <1>3, <2>3, <2>7 DEF h, y, z, U
<1> QED BY <1>3, <1>4, <1>7, <1>8, <1>9, <1>11 DEF TaxExplained, more

\* After a sell it may apply to.
LEMMA SellTaxed ==
    ASSUME NEW l, NEW c, NEW f \in Fills, IsLedger(l), Accepted(c), ModelsValid(c), NEW off,
           TaxExplained(l, c, off), NEW next, TaxBooked(next, l, c, f), DayTradeEligible(f, c),
           f.side = "Sell"
    PROVE  FifoTaxed(next, c)
<1> DEFINE bought == Traded(c, l.fills, "Buy")
           sold == Traded(c, l.fills, "Sell")
           more == Traded(c, next.fills, "Sell")
           e == DateOf(f, c)
           t == TaxOfSell(l, c, f, e)
           b == DayList(c, l.fills, e, "Sell", Len(l.fills))
           at == OffAfter(off, Clamp(bought[e] - sold[e], f.qty), f.qty, sold[e])
<1>1. l.fills \in Seq(Fills) /\ l.tax \in Int /\ f.qty \in Nat /\ f.price \in Int
  BY LedgerAssumption DEF IsLedger
<1>2. e \in Int /\ DayTrades(c)
  BY DateType
<1>3. /\ next.tax = l.tax + t.tax /\ next.buys = t.buys /\ next.sells = t.sells
      /\ next.fills = Append(l.fills, f)
  BY DEF TaxBooked, TaxForFill, DateOf
<1>4. Traded(c, next.fills, "Buy") = bought /\ more = [sold EXCEPT ![e] = @ + f.qty]
  <2>1. f.side # "Buy"
    OBVIOUS
  <2>2. Traded(c, next.fills, "Buy") = bought
    BY <1>1, <1>3, <2>1, TradedSame
  <2>3. OneTrade(Traded(c, next.fills, f.side), Traded(c, l.fills, f.side), e, f.qty)
    BY <1>1, <1>2, <1>3, TradedMore
  <2>4. OneTrade(more, sold, e, f.qty)
    BY <2>3
  <2> QED BY <2>2, <2>4 DEF OneTrade
<1>5. bought \in [Int -> Nat] /\ sold \in [Int -> Nat] /\ sold[e] = Total(b)
  <2>1. bought \in [Int -> Nat] /\ sold \in [Int -> Nat]
    BY <1>1, TradedType
  <2>2. sold[e] = Total(b)
    BY <1>2 DEF Traded
  <2> QED BY <2>1, <2>2
<1>6. /\ SellsMatched(l.sells, off, bought, sold) /\ BuysLeft(l.buys, bought, sold)
      /\ Assessments(l.sells, c)
  BY DEF TaxExplained
<1> HIDE DEF bought, sold, more, e, t, at, b
<1>7. SellsMatched(t.sells, at, bought, more)
  BY <1>1, <1>2, <1>4, <1>5, <1>6, SellKeepsSells DEF t, at
<1>8. BuysLeft(t.buys, bought, more)
  BY <1>1, <1>2, <1>4, <1>5, <1>6, SellKeepsBuys DEF t
<1>9. /\ Assessments(t.sells, c)
      /\ \A buying \in [Int -> Nat] : bought[e] <= buying[e] =>
            /\ Total(Gaps(t.sells, at, buying, c)) \in Int
            /\ Total(Gaps(l.sells, off, buying, c)) \in Int /\ t.tax \in Int
            /\ Total(Gaps(l.sells, off, buying, c))
                 + SplitSellTax(f.price, f.qty, Clamp(buying[e] - sold[e], f.qty), c)
               = t.tax + Total(Gaps(t.sells, at, buying, c))
  <2>1. SellOpens(t, at, l, off, f, c, e, bought[e], sold[e])
    BY <1>1, <1>2, <1>5, <1>6, SellTaxes DEF t, at
  <2> QED BY <2>1 DEF SellOpens
<1>10. ASSUME NEW buying, buying \in [Int -> Nat], \A d \in Int : bought[d] <= buying[d]
       PROVE  /\ Total(Gaps(t.sells, at, buying, c)) \in Int
              /\ Total(Taxes(c, next.fills, buying)) = next.tax + Total(Gaps(t.sells, at, buying, c))
  <2> DEFINE x == SplitSellTax(f.price, f.qty, Clamp(buying[e] - sold[e], f.qty), c)
  <2>1. Total(Taxes(c, l.fills, buying)) = l.tax + Total(Gaps(l.sells, off, buying, c))
    BY <1>10 DEF TaxExplained, bought
  <2>2. /\ Total(Gaps(t.sells, at, buying, c)) \in Int /\ t.tax \in Int
        /\ Total(Gaps(l.sells, off, buying, c)) \in Int
        /\ Total(Gaps(l.sells, off, buying, c)) + x = t.tax + Total(Gaps(t.sells, at, buying, c))
    BY <1>2, <1>9, <1>10
  <2>3. TaxAdds(c, l.fills, f, buying)
    BY <1>1, <1>10, TaxesAppend
  <2>4. TaxAt(c, f, buying, Total(b)) = x
    BY <1>5 DEF TaxAt, e
  <2> DEFINE h == Total(Gaps(t.sells, at, buying, c))
             g == Total(Gaps(l.sells, off, buying, c))
             y == l.tax
             z == t.tax
             T == Total(Taxes(c, l.fills, buying))
             U == Total(Taxes(c, next.fills, buying))
  <2>5. h \in Int /\ g \in Int /\ z \in Int /\ y \in Int /\ x \in Int
        /\ g + x = z + h /\ T = y + g /\ U = T + x
    <3> HIDE DEF x
    <3> QED BY <1>1, <1>3, <2>1, <2>2, <2>3, <2>4 DEF TaxAdds, e, b
  <2> HIDE DEF g, h, y, z, T, U, x
  <2>6. U = (y + z) + h
    BY <2>5
  <2> QED BY <1>3, <2>2, <2>6 DEF h, y, z, U
<1>11. TaxExplained(next, c, at)
  BY <1>3, <1>4, <1>7, <1>8, <1>9, <1>10 DEF TaxExplained, more
<1> QED BY <1>11 DEF FifoTaxed

\* A fill whose tax is booked keeps the tax explained.
LEMMA FillTaxed ==
    ASSUME NEW l, NEW c, NEW f \in Fills, IsLedger(l), Accepted(c), ModelsValid(c),
           FifoTaxed(l, c), NEW next, TaxBooked(next, l, c, f)
    PROVE  FifoTaxed(next, c)
<1>1. PICK off : TaxExplained(l, c, off)
  BY DEF FifoTaxed
<1>2. f.side = "Buy" \/ f.side = "Sell"
  BY LedgerAssumption
<1>3. CASE ~DayTradeEligible(f, c)
  <2>1. TaxExplained(next, c, off)
    BY <1>1, <1>3, OrdinaryTaxed
  <2> QED BY <2>1 DEF FifoTaxed
<1>4. CASE DayTradeEligible(f, c) /\ f.side = "Buy"
  <2>1. TaxExplained(next, c, off)
    BY <1>1, <1>4, BuyTaxed
  <2> QED BY <2>1 DEF FifoTaxed
<1>5. CASE DayTradeEligible(f, c) /\ f.side = "Sell"
  BY <1>1, <1>5, SellTaxed
<1> QED BY <1>2, <1>3, <1>4, <1>5

\* So does Ledger::apply_fill when it returns Ok.
LEMMA ApplyTaxed ==
    ASSUME NEW l, NEW c, NEW f \in Fills, LedgerOK(l, c), FifoTaxed(l, c),
           ApplyToLedger(l, c, f).error = Ok
    PROVE  FifoTaxed(ApplyToLedger(l, c, f).ledger, c)
<1> DEFINE next == ApplyToLedger(l, c, f).ledger
           T == TaxForFill(l, c, f)
<1>1. /\ next.tax = l.tax + T.tax /\ next.buys = T.buys /\ next.sells = T.sells
      /\ next.fills = Append(l.fills, f)
  <2>1. next = FilledLedger(l, c, f)
    BY DEF ApplyToLedger
  <2> HIDE DEF next, T
  <2> QED BY <2>1 DEF FilledLedger, T
<1>2. ModelsValid(c)
  BY ApplyChecks
<1>3. IsLedger(l) /\ Accepted(c)
  BY DEF LedgerOK
<1>4. TaxBooked(next, l, c, f)
  <2> HIDE DEF next
  <2> QED BY <1>1 DEF TaxBooked
<1> HIDE DEF next
<1>5. FifoTaxed(next, c)
  BY <1>2, <1>3, <1>4, FillTaxed
<1> QED BY <1>5 DEF next

\* The tax of every ledger of an account is explained.
TaxesOK(cfg, ls) == \A i \in DOMAIN ls : FifoTaxed(ls[i], cfg[i])
TaxInv == TaxesOK(config, ledgers)

\* A new account has no taxes.
LEMMA TaxInit ==
    ASSUME Init
    PROVE  TaxInv
<1>1. \A i \in DOMAIN ledgers : ledgers[i] = NewLedger
  BY DEF Init
<1> QED BY <1>1, NewLedgerTaxed DEF TaxInv, TaxesOK

\* Every call keeps the taxes explained.
LEMMA TaxNext ==
    ASSUME AccountInv, TaxInv, [Next]_vars
    PROVE  TaxInv'
<1> SUFFICES TaxesOK(config', ledgers')
  BY DEF TaxInv, TaxesOK
<1>0. AccountOK(config, ledgers) /\ TaxesOK(config, ledgers)
  BY DEF AccountInv, TaxInv
<1>1. CASE config' = config /\ ledgers' = ledgers
  BY <1>0, <1>1
<1>2. ASSUME NEW f \in Fills, ApplyFill(f) PROVE TaxesOK(config', ledgers')
  <2>1. config' = config /\ (ledgers' = ledgers \/ FillTaken(f))
    BY <1>2, FillStep
  <2>2. CASE FillTaken(f)
    <3> DEFINE i == f.instrument
               next == ApplyToLedger(ledgers[i], config[i], f).ledger
    <3>1. /\ i \in DOMAIN ledgers /\ ApplyToLedger(ledgers[i], config[i], f).error = Ok
          /\ ledgers' = [ledgers EXCEPT ![i] = next]
      BY <2>2 DEF FillTaken
    <3>2. LedgerOK(ledgers[i], config[i]) /\ FifoTaxed(ledgers[i], config[i])
      BY <1>0, <3>1 DEF AccountOK, TaxesOK
    <3>3. FifoTaxed(next, config[i])
      BY <3>1, <3>2, ApplyTaxed
    <3> HIDE DEF next
    <3>4. /\ DOMAIN ledgers' = DOMAIN ledgers
          /\ \A x \in DOMAIN ledgers : ledgers'[x] = IF x = i THEN next ELSE ledgers[x]
      BY <3>1
    <3> HIDE DEF i
    <3> QED BY <1>0, <2>1, <3>3, <3>4 DEF TaxesOK
  <2> QED BY <1>1, <2>1, <2>2
<1>3. ASSUME NEW b \in ChargeLists, ApplyCashCharges(b) PROVE TaxesOK(config', ledgers')
  <2>1. config' = config /\ ledgers' = ledgers
    BY <1>3, BatchStep
  <2> QED BY <1>1, <2>1
<1> QED BY <1>1, <1>2, <1>3 DEF Next, vars

\* What is assessed leaves no gap when dates bought what they bought.
LEMMA NoGap ==
    ASSUME NEW l, IsLedger(l), NEW c, NEW off, NEW bought, NEW sold,
           SellsMatched(l.sells, off, bought, sold), Assessments(l.sells, c)
    PROVE  Total(Gaps(l.sells, off, bought, c)) = 0
<1> DEFINE k == Len(l.sells)
           g == Gaps(l.sells, off, bought, c)
           P(m) == SplitSellTax(l.sells[m].price, l.sells[m].quantity,
                                Clamp(bought[l.sells[m].date] - off[m], l.sells[m].quantity), c)
<1>1. l.sells \in Seq(SellEntry)
  BY DEF IsLedger
<1>2. k \in Nat /\ \A m \in 1..k : l.sells[m] \in SellEntry
  BY <1>1, SeqEntries
<1>3. g = [m \in 1..k |-> P(m) - l.sells[m].assessed]
  BY DEF Gaps, OpenTaxes
<1>4. ASSUME NEW m \in 1..k PROVE P(m) = l.sells[m].assessed
  <2>1. l.sells[m].matched = Clamp(bought[l.sells[m].date] - off[m], l.sells[m].quantity)
    BY DEF SellsMatched
  <2>2. l.sells[m].assessed = SplitSellTax(l.sells[m].price, l.sells[m].quantity, l.sells[m].matched, c)
    BY DEF Assessments
  <2> QED BY <2>1, <2>2
<1> HIDE DEF g, P, k
<1>5. ASSUME NEW m \in 1..k PROVE g[m] = 0
  <2>1. l.sells[m].assessed \in Int
    BY <1>2 DEF SellEntry
  <2> DEFINE a == l.sells[m].assessed
  <2>2. g[m] = a - a
    BY <1>3, <1>4
  <2>3. a \in Int
    BY <2>1
  <2> HIDE DEF a
  <2> QED BY <2>2, <2>3
<1>6. g = [m \in 1..k |-> g[m]]
  BY <1>3
<1>7. Total(g) = 0
  BY <1>2, <1>5, <1>6, TotalZero
<1> QED BY <1>7 DEF g

\* Dates are integers.
LEMMA DateIsInt ==
    ASSUME NEW c, Accepted(c), NEW f \in Fills, c.dayTrade # <<>>
    PROVE  DateOf(f, c) \in Int
<1> DEFINE D == [ordinary : ChargeModel, day : ChargeModel, offset : Int,
                 validThrough : Int, eligible : BOOLEAN, dates : SUBSET Int]
           o == c.dayTrade[1].offset
<1>1. c.dayTrade \in Seq(D)
  BY DEF Accepted, IsConfig
<1>2. c.dayTrade[1] \in D
  <2> HIDE DEF D
  <2> QED BY <1>1
<1>3. o \in Int
  <2> HIDE DEF D
  <2>1. \A x \in D : x.offset \in Int
    BY DEF D
  <2> QED BY <1>2, <2>1
<1>4. f.time \in Int /\ DayLength \in Nat \ {0}
  BY LedgerAssumption
<1> HIDE DEF o
<1>5. (f.time + o) \div DayLength \in Int
  BY <1>3, <1>4
<1> QED BY <1>5 DEF DateOf, TradingDate, o

\* The reference tax is the taxes of the fills when dates bought what they
\* bought.
LEMMA ReferenceIs ==
    ASSUME NEW i, Accepted(config[i]), ledgers[i].fills \in Seq(Fills)
    PROVE  ReferenceTax(i)
             = Total(Taxes(config[i], ledgers[i].fills, Traded(config[i], ledgers[i].fills, "Buy")))
<1> DEFINE c == config[i]
           fills == ledgers[i].fills
           k == Len(fills)
           bought == Traded(c, fills, "Buy")
           Ref(n) ==
             LET f == fills[n]
             IN  IF ~DayTradeEligible(f, c)
                 THEN Charge(Scaled(f.price, f.qty, c), f.qty, f.side, c.tax)
                 ELSE IF f.side = "Buy" THEN 0
                 ELSE LET date == TradingDate(f.time, c.dayTrade[1])
                      IN  SplitSellTax(f.price, f.qty,
                             Clamp(DayFills(i, date, "Buy", k) - DayFills(i, date, "Sell", n - 1), f.qty), c)
           At(n) == TaxAt(c, fills[n], bought, Total(DayList(c, fills, DateOf(fills[n], c), "Sell", n - 1)))
<1>1. k \in Nat /\ DOMAIN fills = 1..k /\ \A n \in 1..k : fills[n] \in Fills
  BY SeqEntries
<1>2. ReferenceTax(i) = Total([n \in 1..k |-> Ref(n)])
  BY <1>1 DEF ReferenceTax
<1>3. Taxes(c, fills, bought) = [n \in 1..k |-> At(n)]
  BY DEF Taxes
<1>4. ASSUME NEW d, NEW side, NEW upto
      PROVE  DayFills(i, d, side, upto) = Total(DayList(c, fills, d, side, upto))
  BY DEF DayFills, DayList, Share, DateOf
<1>5. ASSUME NEW n \in 1..k PROVE Ref(n) = At(n)
  <2> DEFINE f == fills[n]
             date == DateOf(f, c)
  <2>1. f \in Fills
    BY <1>1
  <2>2. CASE ~DayTradeEligible(f, c)
    BY <2>2 DEF TaxAt
  <2>3. CASE DayTradeEligible(f, c) /\ f.side = "Buy"
    BY <2>3 DEF TaxAt
  <2>4. CASE DayTradeEligible(f, c) /\ f.side # "Buy"
    <3> DEFINE B == DayFills(i, date, "Buy", k)
               S == DayFills(i, date, "Sell", n - 1)
    <3>1. Ref(n) = SplitSellTax(f.price, f.qty, Clamp(B - S, f.qty), c)
      BY <2>4 DEF DateOf
    <3>2. c.dayTrade # <<>>
      BY <2>4 DEF DayTradeEligible
    <3>3. date \in Int
      BY <2>1, <3>2, DateIsInt
    <3>4. S = Total(DayList(c, fills, date, "Sell", n - 1))
      BY <1>4
    <3>5. B = bought[date]
      <4>1. B = Total(DayList(c, fills, date, "Buy", k))
        BY <1>4
      <4>2. bought[date] = Total(DayList(c, fills, date, "Buy", k))
        <5> HIDE DEF date
        <5> QED BY <3>3 DEF Traded
      <4> QED BY <4>1, <4>2
    <3>6. At(n) = SplitSellTax(f.price, f.qty,
                    Clamp(bought[date] - Total(DayList(c, fills, date, "Sell", n - 1)), f.qty), c)
      <4> HIDE DEF bought
      <4> QED BY <2>4 DEF TaxAt
    <3> HIDE DEF B, S, At, Ref, bought
    <3> QED BY <3>1, <3>4, <3>5, <3>6
  <2> HIDE DEF Ref, At
  <2> QED BY <2>2, <2>3, <2>4
<1>6. [n \in 1..k |-> Ref(n)] = [n \in 1..k |-> At(n)]
  <2> HIDE DEF Ref, At
  <2> QED BY <1>5
<1> HIDE DEF Ref, At
<1> QED BY <1>2, <1>3, <1>6

\* The invariants give the property.
LEMMA TaxIsReference ==
    ASSUME AccountInv, TaxInv
    PROVE  DayTradeTaxIsFifo
<1> SUFFICES ASSUME NEW i \in DOMAIN ledgers PROVE ledgers[i].tax = ReferenceTax(i)
  BY DEF DayTradeTaxIsFifo
<1> DEFINE l == ledgers[i]
           c == config[i]
           bought == Traded(c, l.fills, "Buy")
           sold == Traded(c, l.fills, "Sell")
<1>1. Accepted(c) /\ IsLedger(l)
  BY DEF AccountInv, AccountOK, LedgerOK
<1>2. PICK off : TaxExplained(l, c, off)
  BY DEF TaxInv, TaxesOK, FifoTaxed
<1>3. l.fills \in Seq(Fills) /\ l.tax \in Int
  BY <1>1 DEF IsLedger
<1>4. bought \in [Int -> Nat]
  BY <1>3, TradedType
<1>5. \A d \in Int : bought[d] <= bought[d]
  <2> HIDE DEF bought
  <2> QED BY <1>4
<1>6. SellsMatched(l.sells, off, bought, sold) /\ Assessments(l.sells, c)
  BY <1>2 DEF TaxExplained
<1>7. Total(Gaps(l.sells, off, bought, c)) = 0
  <2> HIDE DEF l, c, bought, sold
  <2> QED BY <1>1, <1>6, NoGap
<1>8. Total(Taxes(c, l.fills, bought)) = l.tax + Total(Gaps(l.sells, off, bought, c))
  <2> HIDE DEF l, c
  <2> QED BY <1>2, <1>4, <1>5 DEF TaxExplained
<1>9. ReferenceTax(i) = Total(Taxes(c, l.fills, bought))
  BY <1>1, <1>3, ReferenceIs
<1> HIDE DEF bought, l, c
<1>10. l.tax + 0 = l.tax
  BY <1>3, IntFacts
<1>11. ReferenceTax(i) = l.tax
  BY <1>7, <1>8, <1>9, <1>10
<1> QED BY <1>11 DEF l

\* DayTradeTaxIsFifo: whatever order the buys and sells of a date come in, the
\* tax booked so far, with every credit for a sell matched later, is what
\* matching all buys of the date first in, first out with its sells would
\* charge.  Ledger::tax_for_fill and split_sell_tax.
THEOREM DayTradeTaxAlwaysFifo == Spec => []DayTradeTaxIsFifo
<1>1. Init => AccountInv /\ TaxInv
  BY AccountInit, TaxInit
<1>2. AccountInv /\ TaxInv /\ [Next]_vars => (AccountInv /\ TaxInv)'
  BY AccountNext, TaxNext
<1>3. AccountInv /\ TaxInv => DayTradeTaxIsFifo
  BY TaxIsReference
<1> QED BY <1>1, <1>2, <1>3, PTL DEF Spec

=============================================================================
