--------------------------- MODULE MCMarketState ----------------------------
(* Small instances of one instrument's market state.                       *)
EXTENDS MarketState, TLC

MCAcceptedKinds == (1 :> Kinds \ {"Book"}) @@ (2 :> {"Quote", "Book", "Indicative", "Status"})

Obs(p, delayed, disposal, dir) ==
    [purpose |-> p, delayed |-> delayed, disposal |-> disposal, direction |-> dir]
Unclassified == Obs(NoObs, NoObs, NoObs, NoObs)

Vol(o, v) == [observation |-> o, value |-> v, unit |-> "TradingUnit"]
NoVol     == Vol("none", 0)
Sig(o, t, obs) == [observation |-> o, signal |-> [type |-> t, observation |-> obs]]
NoSig     == Sig("none", "Continuous", Unclassified)
Plain(t)  == Sig("set", t, Unclassified)

Ev(n, t, kind, format, trade, volume, signal, obs) ==
    [instrument |-> Instrument, date |-> Date, time |-> t, format |-> format,
     kind |-> kind, intermediate |-> TRUE, hasBook |-> TRUE, sequence |-> 0,
     fp |-> n, bytes |-> n, trade |-> trade, volume |-> volume,
     signal |-> signal, observation |-> obs]

Quote(n, t, trade, volume, signal) == Ev(n, t, "Quote", 1, trade, volume, signal, Unclassified)
Trial(n, t, obs) == Ev(n, t, "Indicative", 1, "none", NoVol, NoSig, obs)
Status(n, t, volume, signal) == Ev(n, t, "Status", 1, "none", volume, signal, Unclassified)

\* What the normalizers of the repository can produce: firm quotes, resumed
\* trading, trials with and without a purpose, uncross results, a volatility
\* interruption, a reserved flag (unknown signal), a status without a book;
\* and an event the profile refuses.
ProviderEvents(t) ==
    { Quote(1, t, "set", Vol("set", 2), Plain("Continuous")),
      Quote(2, t, "none", NoVol, NoSig),
      Quote(3, t, "clear", Vol("set", 1), Sig("unknown", "Continuous", Unclassified)),
      Ev(4, t, "Trades", 1, "none", Vol("set", 2), NoSig, Unclassified),
      Status(5, t, Vol("unknown", 0), Sig("clear", "Continuous", Unclassified)),
      Trial(6, t, Obs("Closing", "true", NoObs, NoObs)),
      Trial(7, t, Unclassified),
      Quote(8, t, "none", NoVol, Sig("set", "Collecting", Obs("Volatility", NoObs, NoObs, "Down"))),
      Quote(9, t, "none", Vol("clear", 0), Sig("set", "Uncross", Obs("Opening", NoObs, NoObs, NoObs))),
      Trial(10, t, Obs("Periodic", "true", "true", NoObs)),
      Ev(12, t, "Book", 2, "none", NoVol, Plain("Closed"), Unclassified),
      Ev(13, t, "Book", 1, "none", NoVol, NoSig, Unclassified) }

\* The neutral contract also has an uncross without a classified purpose, and
\* one of a periodic auction, which starts the next round.
NeutralEvents(t) ==
    { Quote(19, t, "unknown", NoVol, Sig("set", "Uncross", Unclassified)),
      Quote(21, t, "none", NoVol, Sig("set", "Uncross", Obs("Periodic", NoObs, NoObs, NoObs))) }

MCEvents == UNION {ProviderEvents(t) \cup NeutralEvents(t) : t \in {1, 2, 3, 5}}
MCKept   == { Quote(1, 2, "set", Vol("set", 2), Plain("Continuous")),
              Trial(6, 3, Obs("Closing", "true", NoObs, NoObs)) }

\* Two boundaries: one that resets the observable fields and one that does not.
Context(segment, policy) ==
    [date |-> Date, segment |-> segment, policy |-> policy, version |-> PolicyVersion]
MCSchedule ==
    << Context("after_hours", "Reset"), Context("after_hours", "Reset"),
       Context("regular", "Reset"), Context("regular", "Reset"), Context("next", "Carry") >>
=============================================================================
