------------------------------ MODULE MCLedger ------------------------------
(* Small instances of the shared account.                                  *)
EXTENDS Ledger

Model(basis, rate, sides, minimum, precision, rounding) ==
    [basis |-> basis, rate |-> rate, sides |-> sides, minimum |-> minimum,
     precision |-> precision, rounding |-> rounding]
Free == Model("NotionalRate", 0, {"Buy", "Sell"}, 0, 0, "Down")

MCQuantum == [p \in 0..1 |-> IF p = 0 THEN 2 ELSE 1]

\* Sells pay 1/2, or 1/4 when bought the same day; only on date 0.
DayTrade == [ordinary |-> Model("NotionalRate", 2, {"Sell"}, 1, 0, "HalfUp"),
             day |-> Model("NotionalRate", 1, {"Sell"}, 0, 1, "Up"),
             offset |-> 1, validThrough |-> 1, eligible |-> FALSE, dates |-> {0, 1, 2}]

Config(i, market, unit, model, signed, multiplier, fee, tax, dayTrade) ==
    [instrument |-> i, market |-> market, unit |-> unit, model |-> model, signed |-> signed,
     units |-> 1, multiplier |-> multiplier, provenance |-> TRUE, fee |-> fee, tax |-> tax,
     dayTrade |-> dayTrade]

Stock(dayTrade) == Config("stock", "Twse", "Share", "EquityV1", FALSE, 4,
                Model("NotionalRate", 1, {"Buy", "Sell"}, 1, 0, "HalfUp"), DayTrade.ordinary, dayTrade)
Spread == Config("spread", "Taifex", "Contract", "FuturesV1", TRUE, 6,
                 Model("FixedPerUnit", 2, {"Buy", "Sell"}, 0, 1, "Up"), Free, <<>>)
Option == [Spread EXCEPT !.model = "OptionsV1", !.instrument = "option"]

\* Accepted: a stock with a spread or an option; refused: a wrong model, a bad
\* rate, a bad day-trade precision, a duplicate, nothing.
MCConfigLists ==
    { <<Stock(<<DayTrade>>), Spread>>, <<Stock(<<>>), Option>>, <<Stock(<<>>), Stock(<<>>)>>,
      <<[Spread EXCEPT !.model = "EquityV1"]>>, <<[Stock(<<>>) EXCEPT !.unit = "SourceUnit"]>>,
      <<[Stock(<<>>) EXCEPT !.fee.rate = -1]>>,
      <<Stock(<<[DayTrade EXCEPT !.day.precision = 9]>>)>>, <<>> }

Fill(i, unit, side, qty, price, time) ==
    [instrument |-> i, unit |-> unit, side |-> side, qty |-> qty, price |-> price, time |-> time]

\* Times 0..2 are date 0 and 3..5 date 1 of the exchange; 6 is past the
\* validity of the reduced rate.  The spread trades at negative prices; its
\* multiplier is 3/2, so that an odd price cannot be scaled exactly.
MCFills ==
    { Fill("stock", "Share", side, qty, 4, 1) : side \in {"Buy", "Sell"}, qty \in {1, 3} }
    \cup { Fill("stock", "Share", "Sell", 2, 3, 2), Fill("stock", "Share", "Buy", 2, 7, 4),
           Fill("stock", "Share", "Sell", 1, 5, 6), Fill("stock", "Share", "Sell", 1, 0, 1),
           Fill("stock", "Contract", "Buy", 1, 4, 1), Fill("other", "Share", "Buy", 1, 4, 1) }
    \cup { Fill("spread", "Contract", side, q[1], q[2], 1) :
             side \in {"Buy", "Sell"}, q \in {<<1, -2>>, <<3, 4>>} }
    \cup { Fill("option", "Contract", side, 2, 4, 1) : side \in {"Buy", "Sell"} }
    \cup { Fill("option", "Contract", "Buy", 1, 3, 1) }

Rec(id, amount, named) == [identity |-> id, amount |-> amount, named |-> named]
MCChargeLists ==
    { <<Rec(1, 2, TRUE), Rec(2, 1, TRUE)>>, <<Rec(2, 1, TRUE)>>, <<Rec(3, 1, TRUE), Rec(3, 1, TRUE)>>,
      <<Rec(4, 1, TRUE), Rec(5, -1, TRUE)>>, <<Rec(5, 1, FALSE)>> }
=============================================================================
