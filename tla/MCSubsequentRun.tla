-------------------------- MODULE MCSubsequentRun ---------------------------
(* Small instances of the subsequent-event backtest.                       *)
EXTENDS SubsequentRun

MCAcceptedKinds == (1 :> Kinds)

None4 == [purpose |-> NoObs, delayed |-> NoObs, disposal |-> NoObs, direction |-> NoObs]
Signal(type, purpose) ==
    [observation |-> "set",
     signal |-> [type |-> type, observation |-> [None4 EXCEPT !.purpose = purpose]]]
Continuous == Signal("Continuous", NoObs)

Level(price, quantity) == [price |-> price, quantity |-> quantity, unit |-> "Share"]

\* A quote with one ask and one bid of quantity q, and a print or none.
Quote(i, d, t, signal, ask, bid, q, prints) ==
    [instrument |-> i, date |-> d, time |-> t, format |-> 1, kind |-> "Quote",
     intermediate |-> FALSE, hasBook |-> TRUE, sequence |-> 0, fp |-> 10 * t + i, bytes |-> 10 * t + i,
     trade |-> IF prints = <<>> THEN "none" ELSE "set",
     volume |-> [observation |-> "none", value |-> 0, unit |-> "Share"],
     signal |-> signal, observation |-> None4,
     asks |-> <<Level(ask, q)>>, bids |-> <<Level(bid, q)>>, prints |-> prints]
Trades(i, d, t, prints) ==
    [Quote(i, d, t, Continuous, 1, 1, 1, prints) EXCEPT !.kind = "Trades"]
\* A trial of an auction: no evidence.
Trial(i, d, t, purpose) ==
    [Quote(i, d, t, Continuous, 1, 1, 1, <<>>) EXCEPT
        !.kind = "Indicative", !.observation = [None4 EXCEPT !.purpose = purpose]]

Segment(id, kind, d, open, close) ==
    [id |-> id, kind |-> kind, date |-> d, open |-> open, close |-> close]
Regular(d, open) == Segment("regular", "Regular", d, open, open + 3)
After(d, open)   == Segment("after_hours", "AfterHours", d, open, open + 1)

\* One date with two sessions of instrument 1; 2 trades in the regular one.
OneDate  == (1 :> <<Regular(1, 2), After(1, 7)>>) @@ (2 :> <<Regular(1, 2)>>)
TwoDates == (1 :> <<Regular(1, 2), Regular(2, 12)>>) @@ (2 :> <<Regular(1, 2)>>)

Model(evidence, quantity, delta, latency) ==
    [unit |-> "Share", signed |-> FALSE, evidence |-> evidence, quantity |-> quantity,
     delta |-> delta, latency |-> latency]
Displayed == Model("TopOfBook", "Displayed", 1, 0)
Prints    == Model("TradePrint", "Unlimited", 0, 1)

Setup(tape, schedule, m, sessions, midpoint) ==
    [tape |-> tape, schedule |-> schedule, models |-> [i \in {1, 2} |-> m],
     universe |-> {1, 2}, sessions |-> sessions, midpoint |-> midpoint]
Both == {"Regular", "AfterHours"}

\* An opening auction that uncrosses, a continuous quote, the cool-down and
\* the first quote of the session after it.
Sessions == <<Trial(1, 1, 1, "Opening"), Quote(1, 1, 2, Signal("Uncross", "Opening"), 2, 2, 1, <<Level(2, 1)>>),
              Quote(2, 1, 3, Continuous, 3, 2, 2, <<>>), Quote(1, 1, 5, Continuous, 2, 1, 2, <<>>),
              Quote(1, 1, 7, Continuous, 3, 2, 1, <<>>)>>
\* Two orders compete for one ask; a volatility interruption, which ends.
Interrupted == <<Quote(1, 1, 2, Continuous, 2, 1, 2, <<>>), Quote(1, 1, 3, Continuous, 2, 1, 1, <<>>),
                 Trial(1, 1, 4, "Volatility"), Quote(1, 1, 5, Continuous, 2, 1, 2, <<>>)>>
\* Prints, with a latency of one: the event of the same time is too early; the
\* closing result blocks, the batch has two prints.
Printed == <<Quote(1, 1, 2, Continuous, 3, 2, 1, <<Level(3, 1)>>), Quote(2, 1, 2, Continuous, 3, 1, 1, <<>>),
             Trades(1, 1, 3, <<Level(2, 1), Level(4, 1)>>),
             Quote(1, 1, 5, Signal("Uncross", "Closing"), 3, 2, 1, <<Level(2, 1)>>)>>
\* The core refuses: outside every window, and out of order.
Outside  == <<Quote(1, 1, 2, Continuous, 2, 1, 1, <<>>), Quote(1, 1, 11, Continuous, 2, 1, 1, <<>>)>>
Disorder == <<Quote(1, 1, 3, Continuous, 2, 1, 1, <<>>), Quote(1, 1, 2, Continuous, 2, 1, 1, <<>>)>>
\* A date in the window of another one's segment.
WrongDate == <<Quote(1, 2, 2, Continuous, 2, 1, 1, <<>>)>>
\* The same regular session on two dates.
NextDay == <<Quote(1, 1, 2, Continuous, 3, 2, 1, <<>>), Quote(1, 2, 12, Continuous, 3, 2, 1, <<>>)>>

MCSetups ==
    { Setup(Sessions, OneDate, Displayed, Both, TRUE),
      Setup(Interrupted, OneDate, Displayed, Both, FALSE),
      Setup(Printed, OneDate, Prints, Both, FALSE),
      Setup(Outside, OneDate, Displayed, Both, TRUE),
      Setup(Disorder, OneDate, Displayed, Both, TRUE),
      Setup(WrongDate, OneDate, Displayed, Both, TRUE),
      Setup(NextDay, TwoDates, Displayed, {"Regular"}, TRUE),
      [Setup(Sessions, OneDate, Displayed, Both, TRUE) EXCEPT !.universe = {1}] }
DaySetups == {Setup(NextDay, TwoDates, Displayed, {"Regular"}, TRUE)}

Intent(i, side, type, limit, quantity) ==
    [instrument |-> i, side |-> side, type |-> type, limit |-> limit, quantity |-> quantity,
     unit |-> "Share"]
Buy      == Intent(1, "Buy", "Limit", 3, 2)
Take     == Intent(1, "Buy", "Market", 0, 2)
Deep     == Intent(1, "Buy", "Limit", 1, 1)
Dump     == Intent(1, "Sell", "Market", 0, 1)
Other    == Intent(2, "Buy", "Limit", 3, 1)
BadUnit  == [Buy EXCEPT !.unit = "Contract"]
BadPrice == [Buy EXCEPT !.limit = 0]
Unlisted == [Buy EXCEPT !.instrument = 3]

MCOutputs == {<<>>, <<Deep>>, <<Take, Take>>, <<Buy, Dump>>, <<Other>>,
              <<BadUnit, BadPrice, Unlisted>>}
DayOutputs == {<<>>, <<Deep>>}
=============================================================================
