-------------------------- MODULE MCScheduledRunner --------------------------
(* Small instances of the scheduled backtest.                              *)
EXTENDS ScheduledRunner

TheInstrument == CHOOSE i \in Instruments : TRUE

MCConfig ==
    [i \in Instruments |-> [depthLevels |-> 2, maxStale |-> 5, adverse |-> 0,
                            signed |-> FALSE]]

OneAsk == [bids |-> <<>>, asks |-> <<[price |-> 4, qty |-> 1]>>]
MCBooks == {OneAsk}

Open      == [matching |-> "Continuous", entry |-> "Allowed"]
Auction   == [matching |-> "CallAuction", entry |-> "LimitOnly"]
MCConditions == {Open, Auction}

Quote(at) ==
    [instrument |-> TheInstrument, at |-> at, book |-> <<OneAsk>>, condition |-> Open,
     interrupts |-> FALSE, clearing |-> <<>>, mark |-> FALSE]
Status(at) ==
    [instrument |-> TheInstrument, at |-> at, book |-> <<>>, condition |-> Auction,
     interrupts |-> TRUE, clearing |-> <<>>, mark |-> FALSE]
AuctionTrade(at, price) ==
    [instrument |-> TheInstrument, at |-> at, book |-> <<>>, condition |-> Auction,
     interrupts |-> FALSE, clearing |-> <<price>>, mark |-> TRUE]

Req(c, side, kind, limit, qty, policy, a, e) ==
    [client |-> c, instrument |-> TheInstrument, side |-> side, kind |-> kind,
     limit |-> limit, qty |-> qty, policy |-> policy, activateAt |-> a, expireAt |-> e]

MCTimerRequests == [timer : Timers, fireAt : {2, 4}]

\* Visible one time unit later: two quotes, an interruption, an auction at a
\* crossing or at an equal price, and a quote after it.
MCEvents == {Quote(0), Quote(1), Status(2), AuctionTrade(3, 4), AuctionTrade(3, 5), Quote(4)}
MCRequests ==
    { Req("c1", "Buy", "Market", 0, 2, "UntilExpiry", 2, 4),
      Req("c1", "Buy", "Market", 0, 1, "AtActivation", 3, NoExpiry),
      Req("c2", "Buy", "Limit", 5, 2, "UntilExpiry", 1, NoExpiry),
      Req("c2", "Buy", "Limit", 5, 1, "AuctionCross", 2, 4) }

\* Quotes closer together than the latency, then a late one.
LaggedEvents == {Quote(0), Quote(1), Quote(9)}
NoTimers == {}
SweepRequests ==
    { Req("c1", "Buy", "Limit", 5, 1, "AtActivation", 3, NoExpiry),
      Req("c2", "Buy", "Limit", 5, 1, "AtActivation", 2, NoExpiry) }

\* The instances hold no price an instrument's policy rejects.
ASSUME MCPricesAdmissible == PricesAdmissible
=============================================================================
