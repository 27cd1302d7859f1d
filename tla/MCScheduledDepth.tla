-------------------------- MODULE MCScheduledDepth --------------------------
(* Small instances of the scheduled visible-depth simulator.               *)
EXTENDS ScheduledDepth

MCConfig ==
    [i \in Instruments |-> [depthLevels |-> 2, maxStale |-> 1, adverse |-> 1,
                            signed |-> FALSE]]

MCOrigins == {[source |-> "event", at |-> 0, ref |-> 1]}

Lvl(p, q) == [price |-> p, qty |-> q]

\* A two-sided book whose second bid is refused once slippage is applied, and
\* a thinner one.
MCBooks == { [bids |-> <<Lvl(3, 1), Lvl(1, 2)>>, asks |-> <<Lvl(4, 2), Lvl(5, 1), Lvl(6, 1)>>],
             [bids |-> <<>>, asks |-> <<Lvl(4, 1)>>] }

Req(c, side, kind, limit, qty, policy, a, e) ==
    [client |-> c, instrument |-> CHOOSE i \in Instruments : TRUE, side |-> side,
     kind |-> kind, limit |-> limit, qty |-> qty, policy |-> policy,
     activateAt |-> a, expireAt |-> e]

\* Activation sweeps, resting orders on both sides, an auction order, and a
\* second request of the first two clients.
MCRequests ==
    { Req("c1", "Buy", "Limit", 6, 2, "AtActivation", 1, NoExpiry),
      Req("c1", "Sell", "Market", 0, 2, "AtActivation", 1, NoExpiry),
      Req("c2", "Sell", "Market", 0, 2, "UntilExpiry", 0, 1),
      Req("c2", "Sell", "Limit", 3, 1, "AuctionCross", 0, 1),
      Req("c3", "Buy", "Limit", 5, 2, "UntilExpiry", 0, NoExpiry) }

MCConditions == { [matching |-> "Continuous", entry |-> "Allowed"],
                  [matching |-> "Disabled", entry |-> "LimitOnly"] }
=============================================================================
