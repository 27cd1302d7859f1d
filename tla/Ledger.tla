------------------------------- MODULE Ledger -------------------------------
(***************************************************************************)
(* MultiLedger and the Ledger of each instrument: fills, fees, taxes,      *)
(* day-trade repricing, cash charges, reconciliation and performance.      *)
(*                                                                         *)
(* Decimals are integers of atoms, Scale of them to one; Limit stands for  *)
(* the range of i128.  A call either changes the ledger or returns the     *)
(* first error of its checks; `result` is what the last call returned.     *)
(***************************************************************************)
EXTENDS Totals, FiniteSets, SequencesExt

CONSTANTS
    Scale,        \* Decimal::SCALE_FACTOR
    Limit,        \* the largest magnitude of an i128
    Quantum,      \* precision -> atoms of one unit of it; 0..18 in the code
    DayLength,    \* match-time units of one day
    InitialCash,
    ConfigLists,  \* what MultiLedger::new may be called with
    Fills,        \* [instrument, unit, side, qty, price, time]
    ChargeLists,  \* [identity, amount, named]
    MaxFills, MaxCharges

VARIABLES
    config,        \* instrument -> InstrumentLedgerConfig
    ledgers,       \* instrument -> Ledger
    cash,          \* MultiLedger.cash
    cash_charges,  \* records applied, in order
    identities,    \* cash_charge_identities
    batches,       \* ghost: the batches of charges that were accepted
    result

vars == <<config, ledgers, cash, cash_charges, identities, batches, result>>

Ok == "Ok"

Abs(n)  == IF n < 0 THEN -n ELSE n
Sign(n) == IF n > 0 THEN 1 ELSE IF n < 0 THEN -1 ELSE 0
Least(a, b) == IF a <= b THEN a ELSE b
Clamp(n, hi) == IF n < 0 THEN 0 ELSE Least(n, hi)
Fits(n) == Abs(n) <= Limit

\* ChargeModel, of fees and of taxes.
ChargeModel ==
    [basis : {"NotionalRate", "FixedPerUnit"}, rate : Int, sides : SUBSET {"Buy", "Sell"},
     minimum : Int, precision : Nat, rounding : {"Down", "HalfUp", "Up"}]
\* InstrumentLedgerConfig
IsConfig(c) ==
    /\ c.multiplier \in Int /\ c.units \in Nat
    /\ c.fee \in ChargeModel /\ c.tax \in ChargeModel
    /\ c.dayTrade \in Seq([ordinary : ChargeModel, day : ChargeModel, offset : Int,
                           validThrough : Int, eligible : BOOLEAN, dates : SUBSET Int])

ASSUME LedgerAssumption ==
    /\ Scale \in Nat \ {0} /\ DayLength \in Nat \ {0} /\ Limit \in Nat
    /\ \A p \in DOMAIN Quantum : Quantum[p] \in Nat \ {0}
    /\ InitialCash \in Int /\ Fits(InitialCash)
    /\ \A f \in Fills : /\ f.qty \in Nat \ {0} /\ f.price \in Int /\ f.time \in Int
                        /\ f.side \in {"Buy", "Sell"}
    /\ \A cs \in ConfigLists : cs \in Seq(Range(cs)) /\ \A c \in Range(cs) : IsConfig(c)
    /\ \A b \in ChargeLists : b \in Seq(Range(b)) /\ \A r \in Range(b) : r.amount \in Int

\* The first error of a sequence of <<fails, error>>.
FirstError(checks) ==
    LET failing == {n \in DOMAIN checks : checks[n][1]}
    IN  IF failing = {} THEN Ok ELSE checks[Min(failing)][2]

\* `?` on results one after the other: the first that is an error.
FirstOf(results) ==
    FirstError([n \in DOMAIN results |-> <<results[n] # Ok, results[n]>>])

-----------------------------------------------------------------------------
(* Configuration.                                                          *)

\* Rounding truncates first: `/` and `%` of Rust.
DivideRound(numerator, denominator, policy) ==
    LET quotient  == Sign(numerator) * (Abs(numerator) \div denominator)
        remainder == Abs(numerator) % denominator
    IN  IF \/ remainder = 0 \/ policy = "Down"
           \/ policy = "HalfUp" /\ remainder * 2 < denominator
        THEN quotient ELSE quotient + 1

\* validate_models rejects.
InvalidModels(c, tax) ==
    \/ c.units = 0 \/ c.multiplier <= 0 \/ ~c.provenance
    \/ \E m \in {c.fee, tax} : m.rate < 0 \/ m.minimum < 0 \/ m.precision \notin DOMAIN Quantum

\* DayTradeTaxModel::new; the timezone is within one day.
DayTradeModelOK(m) ==
    /\ m.day.rate <= m.ordinary.rate
    /\ Abs(m.offset) < DayLength
    /\ \A x \in {m.ordinary, m.day} :
          x.basis = "NotionalRate" /\ x.sides = {"Sell"} /\ x.rate >= 0
          /\ x.minimum >= 0 /\ x.precision \in DOMAIN Quantum

\* with_day_trade_tax takes the ordinary rate as the tax.
ConfigBuilt(c) == \A m \in Range(c.dayTrade) : DayTradeModelOK(m) /\ c.tax = m.ordinary

ModelMatchesMarket(c) ==
    c.model \in (IF c.market = "Taifex" THEN {"FuturesV1", "OptionsV1"} ELSE {"EquityV1"})

\* MultiLedger::new: the error of the first config refused, or Ok.
NewError(cs) ==
    LET Checks(n) ==
          LET c == cs[n]
          IN  << <<\/ ~ModelMatchesMarket(c) \/ c.unit = "SourceUnit"
                   \/ c.dayTrade # <<>> /\ c.model # "EquityV1", "AccountingModelMismatch">>,
                 <<InvalidModels(c, c.tax), "InvalidModel">>,
                 <<\E i \in DOMAIN c.dayTrade : InvalidModels(c, c.dayTrade[i].day), "InvalidModel">>,
                 <<\E k \in 1..(n - 1) : cs[k].instrument = c.instrument, "DuplicateInstrument">> >>
    IN  FirstError(<<<<InitialCash < 0, "InvalidModel">>>>
                   \o FlattenSeq([n \in DOMAIN cs |-> Checks(n)])
                   \o <<<<cs = <<>>, "EmptyUniverse">>>>)

-----------------------------------------------------------------------------
(* One instrument's ledger.                                                *)

NewLedger ==
    [cash |-> 0, position |-> 0, basis |-> 0, average |-> <<>>, realized |-> 0,
     fee |-> 0, tax |-> 0, fills |-> <<>>, costs |-> <<>>, buys |-> <<>>, sells |-> <<>>]

\* scale_by_quantity: exact or PrecisionLoss.
Exact(v, c) == (v * c.multiplier) % Scale = 0
Scaled(v, qty, c) == ((v * c.multiplier) \div Scale) * qty * c.units

\* charge: rounded to atoms, then to the precision, and at least the minimum.
Charge(notional, qty, side, m) ==
    LET left == IF m.basis = "NotionalRate" THEN Abs(notional) ELSE qty * Scale
        q    == Quantum[m.precision]
        amount == DivideRound(DivideRound(left * m.rate, Scale, m.rounding), q, m.rounding) * q
    IN  IF side \notin m.sides THEN 0
        ELSE IF amount < m.minimum THEN m.minimum ELSE amount

\* split_sell_tax
SplitSellTax(price, qty, matched, c) ==
    LET m == c.dayTrade[1]
        Part(n, model) == IF n = 0 THEN 0 ELSE Charge(Scaled(price, n, c), n, "Sell", model)
    IN  Part(matched, m.day) + Part(qty - matched, m.ordinary)

TradingDate(time, m) == (time + m.offset) \div DayLength

\* The fill is one the reduced rate may apply to.
DayTradeEligible(f, c) ==
    /\ c.dayTrade # <<>>
    /\ LET m == c.dayTrade[1]
           date == TradingDate(f.time, m)
       IN  (m.eligible \/ date \in m.dates) /\ date <= m.validThrough

\* Seeded fault: sells of other dates are matched too.
MatchAnyDate(open, date, qty) ==
    [n \in DOMAIN open |->
        Clamp(qty - Total([k \in 1..(n - 1) |-> open[k].left]), open[n].left)]

\* The loop over the entries of one date with something left, oldest first:
\* how much of qty each of them takes, after those before it.
MatchFifo(open, date, qty) ==
    LET left == [n \in DOMAIN open |-> IF open[n].date = date THEN open[n].left ELSE 0]
    IN  [n \in DOMAIN open |-> Clamp(qty - Total(SubSeq(left, 1, n - 1)), left[n])]

\* A buy reprices the tax of earlier sells of its date; the difference is its
\* own tax.
TaxOfBuy(l, c, f, date) ==
    LET taken == MatchFifo([n \in DOMAIN l.sells |->
                    [date |-> l.sells[n].date, left |-> l.sells[n].quantity - l.sells[n].matched]],
                    date, f.qty)
        Repriced(s, m) ==
            IF m = 0 THEN s
            ELSE [s EXCEPT !.matched = @ + m,
                           !.assessed = SplitSellTax(s.price, s.quantity, s.matched + m, c)]
        sells == [n \in DOMAIN l.sells |-> Repriced(l.sells[n], taken[n])]
        Assessed(q) == Total([n \in DOMAIN q |-> q[n].assessed])
        left == f.qty - Total(taken)
    IN  [tax |-> Assessed(sells) - Assessed(l.sells), sells |-> sells,
         buys |-> IF left = 0 THEN l.buys
                  ELSE Append(l.buys, [date |-> date, remaining |-> left])]

\* A sell takes the reduced rate for what earlier buys of its date cover.
TaxOfSell(l, c, f, date) ==
    LET taken == MatchFifo([n \in DOMAIN l.buys |->
                    [date |-> l.buys[n].date, left |-> l.buys[n].remaining]], date, f.qty)
        covered == Total(taken)
        tax     == SplitSellTax(f.price, f.qty, covered, c)
    IN  [tax |-> tax, buys |-> [n \in DOMAIN l.buys |-> [l.buys[n] EXCEPT !.remaining = @ - taken[n]]],
         sells |-> IF covered = f.qty THEN l.sells
                   ELSE Append(l.sells, [date |-> date, price |-> f.price, quantity |-> f.qty,
                                         matched |-> covered, assessed |-> tax])]

\* tax_for_fill
TaxForFill(l, c, f) ==
    IF ~DayTradeEligible(f, c)
    THEN [tax |-> Charge(Scaled(f.price, f.qty, c), f.qty, f.side, c.tax),
          buys |-> l.buys, sells |-> l.sells]
    ELSE LET date == TradingDate(f.time, c.dayTrade[1])
         IN  IF f.side = "Buy" THEN TaxOfBuy(l, c, f, date) ELSE TaxOfSell(l, c, f, date)

\* average_cost
AverageCost(basis, position) ==
    IF position = 0 THEN <<>> ELSE <<DivideRound(basis, Abs(position), "HalfUp")>>

\* Seeded fault: a reduced position keeps its whole cost basis.
TransitionKeepsBasis(position, basis, delta, price) ==
    [position |-> position + delta,
     basis |-> IF Sign(position) # -Sign(delta) THEN basis + price * Abs(delta)
               ELSE IF position + delta = 0 THEN 0
               ELSE IF Sign(position + delta) # Sign(position)
               THEN price * Abs(position + delta) ELSE basis,
     difference |-> IF Sign(position) # -Sign(delta) THEN 0
                    ELSE LET closed == Least(Abs(position), Abs(delta))
                         IN  Sign(position) * (price * closed -
                                DivideRound(basis * closed, Abs(position), "HalfUp"))]

\* transition_position: extend, reduce, close or reverse.
TransitionPosition(position, basis, delta, price) ==
    LET next    == position + delta
        extends == Sign(position) # -Sign(delta)
        closed  == Least(Abs(position), Abs(delta))
        allocated == IF closed = Abs(position) THEN basis
                     ELSE DivideRound(basis * closed, Abs(position), "HalfUp")
    IN  [position |-> next,
         basis |-> IF extends THEN basis + price * Abs(delta)
                   ELSE IF next = 0 THEN 0
                   ELSE IF Sign(next) # Sign(position) THEN price * Abs(next)
                   ELSE basis - allocated,
         difference |-> IF extends THEN 0
                        ELSE Sign(position) * (price * closed - allocated)]

Signed(f) == IF f.side = "Buy" THEN f.qty ELSE -f.qty
Moved(l, f) == TransitionPosition(l.position, l.basis, Signed(f), f.price)

\* The ledger after a fill, before any check.
FilledLedger(l, c, f) ==
    LET notional == Scaled(f.price, f.qty, c)
        Gross(realized) == IF c.model = "FuturesV1" THEN realized
                           ELSE IF f.side = "Buy" THEN -notional ELSE notional
        Booked(fee, taxed, moved, realized) ==
          [cash |-> l.cash + Gross(realized) - fee - taxed.tax,
           position |-> moved.position, basis |-> moved.basis,
           average |-> AverageCost(moved.basis, moved.position),
           realized |-> l.realized + realized,
           fee |-> l.fee + fee, tax |-> l.tax + taxed.tax,
           buys |-> taxed.buys, sells |-> taxed.sells,
           costs |-> Append(l.costs, [fee |-> fee, tax |-> taxed.tax]),
           fills |-> Append(l.fills, f)]
    IN  Booked(Charge(notional, f.qty, f.side, c.fee), TaxForFill(l, c, f), Moved(l, f),
               Scaled(Moved(l, f).difference, 1, c))

\* Ledger::apply_fill: the ledger after the fill and the first check it fails.
ApplyToLedger(l, c, f) ==
    LET Checked(next, cost) ==
          [ledger |-> next,
           error |-> FirstError(<<
              <<InvalidModels(c, c.tax), "InvalidModel">>,
              <<c.dayTrade # <<>> /\ (InvalidModels(c, c.dayTrade[1].day) \/ c.model # "EquityV1"),
                "InvalidModel">>,
              <<~Exact(f.price, c), "PrecisionLoss">>,
              <<~Exact(Moved(l, f).difference, c), "PrecisionLoss">>,
              <<\E n \in {Scaled(f.price, f.qty, c), cost.fee, cost.tax, next.position, next.basis,
                          next.cash, next.fee, next.tax, next.realized} : ~Fits(n), "Overflow">> >>)]
        Filled(next) == Checked(next, Last(next.costs))
    IN  Filled(FilledLedger(l, c, f))

\* The fills of a ledger applied to a new one, up to the first one refused.
Rebuilt(l, c) ==
    LET after[n \in 0..Len(l.fills)] ==
          IF n = 0 THEN [ledger |-> NewLedger, error |-> Ok]
          ELSE IF after[n - 1].error # Ok THEN after[n - 1]
          ELSE ApplyToLedger(after[n - 1].ledger, c, l.fills[n])
    IN  after[Len(l.fills)]

\* Ledger::reconcile
ReconcileLedger(l, c) ==
    IF Rebuilt(l, c).error # Ok THEN Rebuilt(l, c).error
    ELSE IF Rebuilt(l, c).ledger # l THEN "Reconciliation" ELSE Ok

\* What a mark makes of an open position, before it is scaled.
MarkedValue(l, mark) == mark * Abs(l.position)
Difference(l, mark) == Sign(l.position) * (MarkedValue(l, mark) - l.basis)

\* scale_by_quantity of a value of one, as a result.
ScaleError(v, c) ==
    IF ~Exact(v, c) THEN "PrecisionLoss" ELSE IF ~Fits(Scaled(v, 1, c)) THEN "Overflow" ELSE Ok

\* Ledger::performance with a mark: the unrealized P&L and its error.
Unrealized(l, c, mark) ==
    IF l.position = 0 THEN 0 ELSE Scaled(Difference(l, mark), 1, c)
UnrealizedError(l, c, mark) ==
    IF l.position = 0 THEN Ok
    ELSE IF ~Fits(MarkedValue(l, mark)) \/ ~Fits(Difference(l, mark)) THEN "Overflow"
    ELSE ScaleError(Difference(l, mark), c)

-----------------------------------------------------------------------------
(* The shared account.                                                     *)

Init ==
    \E cs \in {x \in ConfigLists : NewError(x) = Ok /\ \A c \in Range(x) : ConfigBuilt(c)} :
        /\ config = [i \in {cs[n].instrument : n \in DOMAIN cs} |->
                        CHOOSE c \in Range(cs) : c.instrument = i]
        /\ ledgers = [i \in {cs[n].instrument : n \in DOMAIN cs} |-> NewLedger]
        /\ cash = InitialCash
        /\ cash_charges = <<>> /\ identities = {} /\ batches = <<>>
        /\ result = Ok

\* MultiLedger::apply_fill: what it checks before it touches the ledger.
FillRefused(f) ==
    FirstError(<<<<f.unit # config[f.instrument].unit, "QuantityUnitMismatch">>,
                 <<~config[f.instrument].signed /\ f.price <= 0, "InvalidPriceForInstrument">>>>)

ApplyFill(f) ==
    /\ UNCHANGED <<config, cash_charges, identities, batches>>
    /\ IF f.instrument \notin DOMAIN ledgers
       THEN result' = "UnknownInstrument" /\ UNCHANGED <<ledgers, cash>>
       ELSE \E step \in {ApplyToLedger(ledgers[f.instrument], config[f.instrument], f)} :
            LET next == cash + step.ledger.cash - ledgers[f.instrument].cash
            IN  /\ result' = FirstError(<<<<FillRefused(f) # Ok, FillRefused(f)>>,
                                          <<step.error # Ok, step.error>>,
                                          <<~Fits(next), "Overflow">>>>)
                /\ IF result' = Ok
                   THEN ledgers' = [ledgers EXCEPT ![f.instrument] = step.ledger] /\ cash' = next
                   ELSE UNCHANGED <<ledgers, cash>>

\* CashChargeRecord::new
ChargeBuilt(r) == r.amount >= 0 /\ r.named

\* What the loop of apply_cash_charges finds at the n-th charge: every amount
\* and name valid, no identity twice in the account or the batch, cash in range.
ChargeError(batch, n) ==
    FirstError(<<
        <<~ChargeBuilt(batch[n]), "InvalidCashCharge">>,
        <<\/ batch[n].identity \in identities
          \/ \E k \in 1..(n - 1) : batch[k].identity = batch[n].identity, "DuplicateCashCharge">>,
        <<~Fits(cash - Total([k \in 1..n |-> batch[k].amount])), "Overflow">>>>)

\* Seeded fault: the charges before the one refused stay applied.
ApplyCashChargesPartially(batch) ==
    LET good == {n \in DOMAIN batch : \A k \in 1..n : ChargeError(batch, k) = Ok}
        part == SubSeq(batch, 1, Cardinality(good))
    IN  /\ cash' = cash - Total([k \in DOMAIN part |-> part[k].amount])
        /\ cash_charges' = cash_charges \o part
        /\ identities' = identities \cup {part[n].identity : n \in DOMAIN part}
        /\ batches' = IF part = batch THEN Append(batches, batch) ELSE batches
        /\ result' = IF part = batch THEN Ok ELSE ChargeError(batch, Len(part) + 1)
        /\ UNCHANGED <<config, ledgers>>

ApplyCashCharges(batch) ==
    LET error == FirstError([n \in DOMAIN batch |->
                                <<ChargeError(batch, n) # Ok, ChargeError(batch, n)>>])
    IN  /\ result' = error
        /\ IF error = Ok
           THEN /\ cash' = cash - Total([k \in DOMAIN batch |-> batch[k].amount])
                /\ cash_charges' = cash_charges \o batch
                /\ identities' = identities \cup {batch[n].identity : n \in DOMAIN batch}
                /\ batches' = Append(batches, batch)
           ELSE UNCHANGED <<cash, cash_charges, identities, batches>>
        /\ UNCHANGED <<config, ledgers>>

\* The sum of a function over its domain.
Sum(f) == Total([n \in 1..Cardinality(DOMAIN f) |-> f[SetToSeq(DOMAIN f)[n]]])

FillCount == Sum([i \in DOMAIN ledgers |-> Len(ledgers[i].fills)])

Next ==
    \/ \E f \in Fills : FillCount < MaxFills /\ ApplyFill(f)
    \/ \E b \in ChargeLists :
          /\ Len(cash_charges) + Len(b) <= MaxCharges
          /\ \A r \in Range(b) : ChargeBuilt(r)
          /\ ApplyCashCharges(b)

Spec == Init /\ [][Next]_vars

-----------------------------------------------------------------------------
(* Reading the account.                                                    *)

\* The BTreeMap's order of the instruments: one fixed order.
Instruments == SetToSeq(DOMAIN ledgers)
\* A sum over the first n instruments, and over the first n charges.
SumTo(f, n) == Total([k \in 1..n |-> f[Instruments[k]]])
ChargedTo(n) == Total([k \in 1..n |-> cash_charges[k].amount])
Charged == ChargedTo(Len(cash_charges))

\* rebuilt_cash after n instruments; after all of them and n charges.
CashOfLedgers(n) == InitialCash + SumTo([i \in DOMAIN ledgers |-> ledgers[i].cash], n)
CashAfterCharges(n) == CashOfLedgers(Len(Instruments)) - ChargedTo(n)

InRange(n) == IF Fits(n) THEN Ok ELSE "Overflow"

\* MultiLedger::reconcile: Ok or the first error.  Cash is rebuilt by checked
\* additions, instrument by instrument, then checked subtractions, charge by
\* charge.
Reconcile ==
    LET AtLedger(i, n) == FirstOf(<<ReconcileLedger(ledgers[i], config[i]),
                                    InRange(CashOfLedgers(n))>>)
        AtCharge(n) ==
            IF \E k \in 1..(n - 1) : cash_charges[k].identity = cash_charges[n].identity
            THEN "Reconciliation" ELSE InRange(CashAfterCharges(n))
        agrees == /\ {cash_charges[n].identity : n \in DOMAIN cash_charges} = identities
                  /\ cash = CashAfterCharges(Len(cash_charges))
    IN  FirstOf([n \in DOMAIN Instruments |-> AtLedger(Instruments[n], n)]
                \o [n \in DOMAIN cash_charges |-> AtCharge(n)]
                \o <<IF agrees THEN Ok ELSE "Reconciliation">>)

\* MultiLedger::performance; marks gives the final mark of some instruments.
Performance(marks) ==
    LET Open(i) == ledgers[i].position # 0
        realized   == [i \in DOMAIN ledgers |-> ledgers[i].realized]
        unrealized == [i \in DOMAIN ledgers |->
                        IF Open(i) /\ i \in DOMAIN marks
                        THEN Unrealized(ledgers[i], config[i], marks[i]) ELSE 0]
        fee == [i \in DOMAIN ledgers |-> ledgers[i].fee]
        tax == [i \in DOMAIN ledgers |-> ledgers[i].tax]
        Marked(i) == IF ~Open(i) THEN Ok
                     ELSE IF i \notin DOMAIN marks THEN "MissingFinalMark"
                     ELSE UnrealizedError(ledgers[i], config[i], marks[i])
        AtLedger(i, n) == FirstOf(<<Marked(i), InRange(SumTo(realized, n)),
                                    InRange(SumTo(unrealized, n)), InRange(SumTo(fee, n)),
                                    InRange(SumTo(tax, n))>>)
    IN  [error |-> FirstOf([n \in DOMAIN cash_charges |-> InRange(ChargedTo(n))]
                           \o [n \in DOMAIN Instruments |-> AtLedger(Instruments[n], n)]),
         final_cash |-> cash, charges |-> Charged,
         realized |-> Sum(realized), unrealized |-> Sum(unrealized),
         fee |-> Sum(fee), tax |-> Sum(tax)]

\* Seeded fault: a short position is marked as if it were long.
MarkUnsigned(i, mark) ==
    [error |-> Ok,
     amount |-> IF ledgers[i].position = 0 THEN 0
                ELSE IF config[i].model = "FuturesV1" THEN Unrealized(ledgers[i], config[i], mark)
                ELSE Scaled(MarkedValue(ledgers[i], mark), 1, config[i])]

\* mark_to_market_adjustment: the amount and its error.
MarkToMarketAdjustment(i, mark) ==
    LET l == ledgers[i]
        c == config[i]
    IN  [error |->
            IF ~c.signed /\ mark <= 0 THEN "InvalidPriceForInstrument"
            ELSE IF l.position = 0 THEN Ok
            ELSE IF c.model = "FuturesV1" THEN UnrealizedError(l, c, mark)
            ELSE IF ~Fits(MarkedValue(l, mark)) THEN "Overflow"
            ELSE ScaleError(MarkedValue(l, mark), c),
         amount |->
            IF l.position = 0 THEN 0
            ELSE IF c.model = "FuturesV1" THEN Unrealized(l, c, mark)
            ELSE Sign(l.position) * Scaled(MarkedValue(l, mark), 1, c)]

-----------------------------------------------------------------------------
(* Properties.                                                             *)

\* Every atom of an instrument's cash is explained by its realized P&L, its
\* costs and, where positions are paid for, the cost of the open position:
\* rounding of the allocated basis moves value between the two, never loses it.
\* The position itself is what was bought minus what was sold.
CashIsExplained ==
    \A i \in DOMAIN ledgers :
        LET l == ledgers[i]
        IN  /\ l.position = Total([n \in DOMAIN l.fills |-> Signed(l.fills[n])])
            /\ l.position = 0 => l.basis = 0 /\ l.average = <<>>
            /\ IF config[i].model = "FuturesV1" THEN l.cash = l.realized - l.fee - l.tax
               ELSE Scale * (l.cash - l.realized + l.fee + l.tax)
                    = -(Sign(l.position) * l.basis * config[i].multiplier * config[i].units)

\* Every sum reconcile makes on its way is in range.
RebuiltInRange ==
    /\ \A n \in DOMAIN Instruments : Fits(CashOfLedgers(n))
    /\ \A n \in DOMAIN cash_charges : Fits(CashAfterCharges(n))

\* Charges are applied a batch at a time: what is in the account is exactly
\* the accepted batches, and a refused batch or fill left nothing behind, so
\* that reconcile, which ends every run, never finds a disagreement whatever
\* calls came before.  It adds the cash in another order than the calls did:
\* only that can fail, with Overflow, when a sum on its way leaves the range.
ChargesAreWholeBatches ==
    /\ cash_charges = FlattenSeq(batches)
    /\ Reconcile = IF RebuiltInRange THEN Ok ELSE "Overflow"

\* The quantity one side traded on a date, in the first fills.
DayFills(i, date, side, upto) ==
    LET fills == ledgers[i].fills
    IN  Total([n \in 1..upto |->
            IF /\ fills[n].side = side /\ DayTradeEligible(fills[n], config[i])
               /\ TradingDate(fills[n].time, config[i].dayTrade[1]) = date
            THEN fills[n].qty ELSE 0])
\* The tax of all fills, each sell matched with what is left of its date's buys.
ReferenceTax(i) ==
    LET fills == ledgers[i].fills
        TaxOf(n) ==
            LET f == fills[n]
            IN  IF ~DayTradeEligible(f, config[i])
                THEN Charge(Scaled(f.price, f.qty, config[i]), f.qty, f.side, config[i].tax)
                ELSE IF f.side = "Buy" THEN 0
                ELSE LET date == TradingDate(f.time, config[i].dayTrade[1])
                     IN  SplitSellTax(f.price, f.qty,
                            Clamp(DayFills(i, date, "Buy", Len(fills))
                                    - DayFills(i, date, "Sell", n - 1), f.qty), config[i])
    IN  Total([n \in DOMAIN fills |-> TaxOf(n)])

\* After every fill the tax equals what a FIFO assignment of all buys of a
\* date to its sells would charge: it does not matter which came first.
DayTradeTaxIsFifo ==
    \A i \in DOMAIN ledgers : ledgers[i].tax = ReferenceTax(i)

\* Marking every open position of a shared account gives the equity the
\* performance summary reports, long or short, whatever the model, whenever
\* both are returned; and a mark that is valid and exact for its instruments
\* is refused by neither unless a number leaves the range.
MarkedEquityReconciles ==
    \A mark \in {f.price : f \in Fills} :
        LET p == Performance([i \in DOMAIN ledgers |-> mark])
            Adjusted(i) == MarkToMarketAdjustment(i, mark)
        IN  /\ (\A i \in DOMAIN ledgers : /\ config[i].signed \/ mark > 0
                                          /\ Exact(mark, config[i])
                                          /\ Exact(ledgers[i].basis, config[i]))
               => /\ p.error \in {Ok, "Overflow"}
                  /\ \A i \in DOMAIN ledgers : Adjusted(i).error \in {Ok, "Overflow"}
            /\ p.error = Ok /\ (\A i \in DOMAIN ledgers : Adjusted(i).error = Ok)
               => cash + Sum([i \in DOMAIN ledgers |-> Adjusted(i).amount])
                    = InitialCash + p.realized + p.unrealized - p.fee - p.tax - p.charges
=============================================================================
