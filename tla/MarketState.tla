---------------------------- MODULE MarketState -----------------------------
(***************************************************************************)
(* One instrument's market state under the public calls of                 *)
(* MarketStateReducer: propose, commit and apply.  A proposal may be kept  *)
(* while other events are applied, which is what commit's staleness check  *)
(* is for.                                                                 *)
(*                                                                         *)
(* `log` is the sequence of committed events with the segment each was     *)
(* committed in; the properties compare the state with it.                 *)
(***************************************************************************)
EXTENDS MarketReducer, FiniteSetsExt

CONSTANTS
    Instrument, Date,
    Events,          \* the events of the instrument
    Kept,            \* those whose proposals a caller keeps for a later commit
    Schedule,        \* match time -> reducer context
    MaxEvents,       \* bound on committed events
    MaxProposals     \* bound on proposals waiting for a commit

VARIABLES
    state,      \* the MarketState
    proposals,  \* proposals returned and not yet committed
    log,        \* ghost: <<event, segment>> of every commit
    outcome     \* what the last call returned: an error, or the receipt

vars == <<state, proposals, log, outcome>>

ASSUME ScheduleAssumption ==
    /\ \A e \in Events : IsEvent(e) /\ e.time \in DOMAIN Schedule
    \* a reducer context always names a segment
    /\ \A t \in DOMAIN Schedule : Schedule[t].segment # NoSegment
    /\ Kept \subseteq Events
    /\ MaxEvents \in Nat /\ MaxProposals \in Nat

Init ==
    /\ state = NewState(Instrument, Date)
    /\ proposals = {}
    /\ log = <<>>
    /\ outcome = [error |-> NoError, changed |-> {}]

\* propose changes nothing; its caller keeps the result.
ProposeEvent(e) ==
    /\ Cardinality(proposals) < MaxProposals
    /\ LET p == Propose(state, e, Schedule[e.time])
       IN  /\ proposals' = IF p.error = NoError THEN proposals \cup {p} ELSE proposals
           /\ outcome' = [error |-> p.error, changed |-> {}]
    /\ UNCHANGED <<state, log>>

\* *state = proposal.next_state
Install(p) ==
    /\ state' = p.next
    /\ log' = Append(log, [event |-> p.event, segment |-> p.next.segment])
    /\ outcome' = [error |-> NoError, changed |-> p.changed]

Commit(p) ==
    /\ Len(log) < MaxEvents
    /\ proposals' = proposals \ {p}
    /\ IF Stale(state, p)
       THEN /\ outcome' = [error |-> "StaleProposal", changed |-> {}]
            /\ UNCHANGED <<state, log>>
       ELSE Install(p)

\* apply: propose and commit in one call.
Apply(e) ==
    /\ Len(log) < MaxEvents
    /\ LET p == Propose(state, e, Schedule[e.time])
       IN  IF p.error # NoError
           THEN outcome' = [error |-> p.error, changed |-> {}] /\ UNCHANGED <<state, log>>
           ELSE Install(p)
    /\ UNCHANGED proposals

Next ==
    \/ \E e \in Kept : ProposeEvent(e)
    \/ \E p \in proposals : Commit(p)
    \/ \E e \in Events : Apply(e)

Spec == Init /\ [][Next]_vars

-----------------------------------------------------------------------------
(* Properties.                                                             *)

\* The first commit whose observable fields can still be in the state: the one
\* that entered the segment, when the boundary resets them.
Boundary(n) ==
    \/ n = 1
    \/ /\ log[n].segment # log[n - 1].segment
       /\ Schedule[log[n].event.time].policy = "Reset"

SegmentStart == Max({1} \cup {n \in DOMAIN log : Boundary(n)})

\* Which firm field an event says something about.
Shows(e, field) ==
    CASE field = "book"   -> e.kind \in {"Quote", "Book"}
      [] field = "trade"  -> e.kind = "Trades" \/ (e.kind = "Quote" /\ e.trade # "none")
      [] field = "volume" -> /\ e.kind \in {"Quote", "Trades", "Status"}
                             /\ e.volume.observation # "none"

\* Commits are serial: the state counts every committed event and was made
\* from the one before it, whatever proposals were kept meanwhile (the
\* staleness check of commit).
NoLostUpdate ==
    /\ state.version = Len(log)
    /\ log # <<>> => state.last = log[Len(log)].event

\* Each firm field is as old as the last event of the segment that showed it:
\* NoObservation keeps the earlier observation with its origin, trials and
\* refused events leave none, a boundary reset leaves nothing behind.
FirmFieldsComeFromLastObservation ==
    \A field \in {"book", "trade", "volume"} :
        LET shown == {n \in SegmentStart..Len(log) : Shows(log[n].event, field)}
        IN  IF shown = {} THEN state[field] = Initial
            ELSE /\ state[field].tag # "initial"
                 /\ \E n \in shown : /\ \A m \in shown : m <= n
                                     /\ state[field].at = log[n].event

\* The cumulative volume never falls within a segment as long as it stays
\* known (CumulativeVolumePolicy::NonDecreasingWithinSegment).
VolumeNeverFallsWithinSegment ==
    \A m, n \in DOMAIN log :
        (/\ m < n
         /\ \A k \in m..n : /\ log[k].segment = log[m].segment
                            /\ Shows(log[k].event, "volume")
                                  => log[k].event.volume.observation = "set"
         /\ Shows(log[m].event, "volume") /\ Shows(log[n].event, "volume"))
        => log[m].event.volume.value <= log[n].event.volume.value

\* A continuous, closed or uncross signal ends the auction round before it.
EndsRound(e) ==
    /\ SignalOf(e).observation = "set"
    /\ SignalOf(e).signal.type # "Collecting"

\* The commit that ended the round before the current one, or the last commit
\* before the segment's reset.
RoundEnd == Max({SegmentStart - 1} \cup
                {n \in SegmentStart..Len(log) : EndsRound(log[n].event)})

ObservedInRound(field, v) ==
    \E n \in (RoundEnd + 1)..Len(log) :
        /\ SignalOf(log[n].event).observation = "set"
        /\ SignalOf(log[n].event).signal.observation[field] = v

\* An auction's delay and direction were observed in this very round; the one
\* value a round may start with is "not delayed", after an uncross.  Evidence
\* of an earlier round never leaks into the next one.
EvidenceIsOfThisRound ==
    \A o \in CurrentAuction(state), field \in {"delayed", "direction"} :
        \/ o[field] = NoObs
        \/ ObservedInRound(field, o[field])
        \/ /\ field = "delayed" /\ o[field] = "false"
           /\ RoundEnd >= SegmentStart
           /\ SignalOf(log[RoundEnd].event).signal.type = "Uncross"

=============================================================================
