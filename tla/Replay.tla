------------------------------- MODULE Replay -------------------------------
(***************************************************************************)
(* The replay core, ReplayCore of crates/replay-engine/src/engine.rs: it   *)
(* opens the streams of a frozen plan, merges them by the ordering key of  *)
(* crates/replay-engine/src/ordering.rs with one head per stream, and      *)
(* commits each event atomically to the state of its instrument, the clock *)
(* and the checksum.  A scheduled backtest (osmium-runner/src/scheduled.rs)*)
(* also applies the committed events, later, to a fork of the core that    *)
(* holds what the strategy may see.                                        *)
(*                                                                         *)
(* Abstractions.  An instrument is the number its market rank and symbol   *)
(* sort to.  The running checksum is the sequence of what was hashed.      *)
(* Releases to the fork happen in commit order at any later time; when     *)
(* exactly is the subject of ScheduledRunner.  u64 ordinals do not         *)
(* overflow here.                                                          *)
(***************************************************************************)
EXTENDS MarketReducer, SequencesExt

CONSTANTS
    Plans,           \* sequences of bindings with the items of their streams
    Universe,        \* instruments the core was built for
    InitialDate,     \* instrument -> trading date of its initial state
    DefaultContext,  \* instrument -> reducer context without a schedule
    Windows          \* instrument with a schedule -> set of context windows

ReadError == [time |-> 0, item |-> "read error"]
NoHead    == [time |-> 0, item |-> "no head"]

\* What a stream can yield: an event, or a failure of the read.
Items   == UNION {UNION {Range(p[n].items) : n \in DOMAIN p} : p \in Plans}
IsItem(x) ==
    \/ x = ReadError
    \/ IsEvent(x) /\ x.instrument \in Nat /\ x.date \in Nat

ASSUME PlansAssumption ==
    /\ \A p \in Plans : p \in Seq(Range(p))
    /\ \A p \in Plans : \A n \in DOMAIN p :
          p[n].instrument \in Nat /\ p[n].date \in Nat /\ p[n].items \in Seq(Items)
    /\ \A x \in Items : IsItem(x)

ASSUME WindowsAssumption ==
    \* new_multi_with_schedules refuses overlapping windows, and contexts of
    \* another trading date than the initial state's.
    /\ DOMAIN Windows \subseteq Universe
    /\ \A i \in DOMAIN Windows : \A v, w \in Windows[i] :
          v # w => v.end <= w.start \/ w.end <= v.start
    /\ \A i \in Universe : DefaultContext[i].date = InitialDate[i]
    \* replay_core takes the windows from the session plans of the trading
    \* dates: a later window is of the same date or of a later one.
    /\ \A i \in DOMAIN Windows : \A v, w \in Windows[i] :
          /\ v.start \in Nat /\ v.end \in Nat /\ v.context.date \in Nat
          /\ v.start < w.start => v.context.date <= w.context.date

VARIABLES
    plan,     \* the bindings of the frozen plan
    phase,    \* "open", "merge", "done" or "failed"
    error,    \* the ReplayError of a failed replay
    streams,  \* per logical stream, the items not read yet
    heads,    \* per logical stream, the head event, or NoHead
    core,     \* the replay core
    forked,   \* a scheduled backtest: there is a visible core
    visible,  \* the fork that follows with a delay
    buffered  \* committed observations waiting for their release

vars == <<plan, phase, error, streams, heads, core, forked, visible, buffered>>

-----------------------------------------------------------------------------
(* Ordering.                                                               *)

\* Seeded fault: the two phases of a match time are not told apart.
SourcePhaseRankFlat(e) == 0

\* source_phase_rank, for the events it does not refuse
SourcePhaseRank(e) ==
    IF e.format # RealtimeFormat THEN 0
    ELSE IF e.kind \in {"Quote", "Status"} \/ (e.kind = "Indicative" /\ e.hasBook) THEN 20
    ELSE 10

OrderingKey(e) ==
    <<e.time, e.instrument, e.format, SourcePhaseRank(e), KindRank(e.kind), e.sequence, e.fp>>

Before(e, f) == LexLess(OrderingKey(e), OrderingKey(f))

-----------------------------------------------------------------------------
(* The core.                                                               *)
NewCore ==
    [states |-> [i \in Universe |-> NewState(i, InitialDate[i])],
     ordinal |-> 0, time |-> 0, first |-> 0, digest |-> <<>>]

LastEvent(c) == c.digest[Len(c.digest)]

\* Seeded fault: only collisions are refused.
CollisionOnly(c, e) ==
    IF c.digest # <<>> /\ OrderingKey(e) = OrderingKey(LastEvent(c))
       /\ e.bytes # LastEvent(c).bytes
    THEN "EventFingerprintCollision" ELSE NoError

\* validate_global_order: equal keys are allowed only for equal bytes.
GlobalOrderError(c, e) ==
    IF c.digest = <<>> THEN NoError
    ELSE IF Before(e, LastEvent(c)) THEN "GlobalOrderingRegression"
    ELSE IF OrderingKey(e) = OrderingKey(LastEvent(c)) /\ e.bytes # LastEvent(c).bytes
         THEN "EventFingerprintCollision"
    ELSE NoError

\* context_for_event, as a set of at most one context
ContextsFor(i, t) ==
    IF i \in DOMAIN Windows
    THEN {w.context : w \in {v \in Windows[i] : v.start <= t /\ t < v.end}}
    ELSE {DefaultContext[i]}

\* Seeded fault: the state of the earlier trading date is carried over.
StateForAnyDate(c, e) == [c.states[e.instrument] EXCEPT !.date = e.date]

\* An event of another trading date starts from a new state.
StateFor(c, e) ==
    IF c.states[e.instrument].date = e.date THEN c.states[e.instrument]
    ELSE NewState(e.instrument, e.date)

\* apply_prepared_ordered: the error, with the core as it was, or the core
\* with state, checksum and clock advanced together.
ApplyOrdered(c, e) ==
    LET contexts == ContextsFor(e.instrument, e.time)
        p == Propose(StateFor(c, e), e, CHOOSE x \in contexts : TRUE)
        known == e.instrument \in Universe
        failure == IF GlobalOrderError(c, e) # NoError THEN GlobalOrderError(c, e)
                   ELSE IF ~known THEN "InstrumentOutsideUniverse"
                   ELSE IF contexts = {} THEN "EventOutsideContextSchedule"
                   ELSE p.error
    IN  IF failure # NoError THEN [error |-> failure, core |-> c]
        ELSE [error |-> NoError,
              core |-> [states |-> [c.states EXCEPT ![e.instrument] = p.next],
                        ordinal |-> c.ordinal + 1, time |-> e.time,
                        first |-> IF c.digest = <<>> THEN e.time ELSE c.first,
                        digest |-> Append(c.digest, e)]]

-----------------------------------------------------------------------------
(* The plan and its streams.  A stream is named by its logical key.        *)
StreamKey(b) == <<b.instrument, b.date>>
StreamKeys   == {StreamKey(plan[n]) : n \in DOMAIN plan}
ItemsOf(k)   == (CHOOSE b \in Range(plan) : StreamKey(b) = k).items

\* has_scheduled_trading_date
ScheduledDate(i, d) ==
    i \in DOMAIN Windows /\ \E w \in Windows[i] : w.context.date = d

\* ReplayPlan::new_multi
PlanError ==
    IF plan = <<>> THEN "EmptyBindings"
    ELSE IF Cardinality(StreamKeys) # Len(plan) THEN "DuplicateLogicalStream"
    ELSE NoError

\* What the core checks of a binding before it opens its stream.
BindingError(k) ==
    IF k[1] \notin Universe THEN "PlanOutsideUniverse"
    ELSE IF InitialDate[k[1]] # k[2] /\ ~ScheduledDate(k[1], k[2])
         THEN "PlanTradingDateMismatch"
    ELSE NoError

\* A plan keeps its bindings sorted by instrument and date.
FirstOf(ks) == CHOOSE k \in ks : \A j \in ks : j = k \/ LexLess(k, j)

\* Reading the next item of a stream can fail, and so can its ordering key.
HeadError(items) ==
    IF items = <<>> THEN NoError
    ELSE IF Head(items) = ReadError THEN "Stream"
    ELSE IF ShapeError(Head(items)) # NoError THEN "Ordering"
    ELSE NoError

Init ==
    /\ plan \in Plans
    /\ phase = "open" /\ error = NoError
    /\ streams = <<>> /\ heads = <<>>
    /\ core = NewCore
    /\ forked \in BOOLEAN
    /\ visible = NewCore
    /\ buffered = <<>>

FailWith(e) == phase' = "failed" /\ error' = e

\* Open every stream and read its head, or fail before anything is committed.
Open ==
    /\ phase = "open"
    /\ LET unbound  == {k \in StreamKeys : BindingError(k) # NoError}
           unreadable == {k \in StreamKeys : HeadError(ItemsOf(k)) # NoError}
           failure == IF PlanError # NoError THEN PlanError
                      ELSE IF unbound # {} THEN BindingError(FirstOf(unbound))
                      ELSE IF unreadable # {} THEN HeadError(ItemsOf(FirstOf(unreadable)))
                      ELSE NoError
       IN  IF failure # NoError
           THEN FailWith(failure) /\ UNCHANGED <<streams, heads>>
           ELSE /\ phase' = "merge" /\ error' = NoError
                /\ heads' = [k \in StreamKeys |->
                               IF ItemsOf(k) = <<>> THEN NoHead ELSE Head(ItemsOf(k))]
                /\ streams' = [k \in StreamKeys |->
                               IF ItemsOf(k) = <<>> THEN <<>> ELSE Tail(ItemsOf(k))]
    /\ UNCHANGED <<plan, core, forked, visible, buffered>>

\* The factory cannot open a stream: the bindings up to it were in order.
OpenFails ==
    /\ phase = "open" /\ PlanError = NoError
    /\ BindingError(FirstOf(StreamKeys)) = NoError
    /\ FailWith("StreamOpen")
    /\ UNCHANGED <<plan, streams, heads, core, forked, visible, buffered>>

Pending == {k \in DOMAIN heads : heads[k] # NoHead}

\* The heap pops the smallest ordering key, then the smallest stream.
Selected(k) ==
    /\ k \in Pending
    /\ \A j \in Pending : j # k =>
          \/ Before(heads[k], heads[j])
          \/ ~Before(heads[j], heads[k]) /\ LexLess(k, j)

\* Put the next item of stream k in its head, or fail after the commit.
Advance(k) ==
    /\ heads' = [heads EXCEPT ![k] = IF HeadError(streams[k]) # NoError \/ streams[k] = <<>>
                                     THEN NoHead ELSE Head(streams[k])]
    /\ streams' = [streams EXCEPT ![k] = IF @ = <<>> THEN <<>> ELSE Tail(@)]
    /\ IF HeadError(streams[k]) # NoError THEN FailWith(HeadError(streams[k]))
       ELSE UNCHANGED <<phase, error>>

\* Seeded fault: an observation overtakes the one buffered before it.
BufferedInFront(c, e) ==
    IF forked
    THEN <<[event |-> e, ordinal |-> c.ordinal,
            version |-> c.states[e.instrument].version]>> \o buffered
    ELSE buffered

\* buffer_committed keeps the event with its ordinal and state version.
Buffered(c, e) ==
    IF forked
    THEN Append(buffered, [event |-> e, ordinal |-> c.ordinal,
                           version |-> c.states[e.instrument].version])
    ELSE buffered

\* One turn of the merge loop: commit the head, hand it over, read the next.
MergeHead(k) ==
    /\ phase = "merge" /\ Selected(k)
    /\ LET r == ApplyOrdered(core, heads[k])
       IN  /\ core' = r.core
           /\ IF r.error # NoError
              THEN FailWith(r.error) /\ UNCHANGED <<streams, heads, buffered>>
              ELSE Advance(k) /\ buffered' = Buffered(r.core, heads[k])
    /\ UNCHANGED <<plan, forked, visible>>

\* The callback refuses an event that is already committed.
CallbackFails(k) ==
    /\ phase = "merge" /\ Selected(k)
    /\ ApplyOrdered(core, heads[k]).error = NoError
    /\ core' = ApplyOrdered(core, heads[k]).core
    /\ FailWith("Callback")
    /\ UNCHANGED <<plan, streams, heads, forked, visible, buffered>>

\* The coordinator drains its releases, the last ones after the merge loop.
CanRelease == phase = "merge" /\ buffered # <<>>

\* release_observation: apply the oldest buffered event to the visible core and
\* compare ordinal and state version with the committed ones.
Release ==
    /\ CanRelease
    /\ LET o == Head(buffered)
           r == ApplyOrdered(visible, o.event)
           same == /\ r.core.ordinal = o.ordinal
                   /\ r.core.states[o.event.instrument].version = o.version
       IN  /\ visible' = r.core
           /\ IF r.error # NoError THEN FailWith(r.error)
              ELSE IF ~same THEN FailWith("VisibleOccurrenceDiffers")
              ELSE UNCHANGED <<phase, error>>
    /\ buffered' = Tail(buffered)
    /\ UNCHANGED <<plan, streams, heads, core, forked>>

\* complete, after the coordinator has drained its releases
Complete ==
    /\ phase = "merge" /\ Pending = {} /\ buffered = <<>>
    /\ phase' = "done"
    /\ UNCHANGED <<plan, error, streams, heads, core, forked, visible, buffered>>

Next ==
    \/ Open \/ OpenFails
    \/ \E k \in DOMAIN heads : MergeHead(k)
    \/ \E k \in DOMAIN heads : CallbackFails(k)
    \/ Release
    \/ Complete

\* One thread runs the loop and the releases, so each keeps running.
Spec == Init /\ [][Next]_vars
FairSpec == Spec /\ WF_vars(Next)

-----------------------------------------------------------------------------
(* Properties.                                                             *)

\* What there is to replay: the item at every place of every stream.
Occurrences == UNION {{<<n, i>> : i \in DOMAIN plan[n].items} : n \in DOMAIN plan}
AllItems == [o \in Occurrences |-> plan[o[1]].items[o[2]]]

Ordered == INSTANCE OrderedReplay WITH
    input  <- AllItems,
    log    <- core.digest,
    status <- IF phase \in {"open", "merge"} THEN "running" ELSE phase

\* The merge of streams is a replay in global order: nothing is committed out
\* of order, nothing twice, completion means that everything was, and every
\* plan completes or fails.
ReplaysInOrder == Ordered!Spec

StreamSorted(items) ==
    \A x, y \in DOMAIN items :
        x < y => /\ ReadError \notin {items[x], items[y]}
                 /\ ~Before(items[y], items[x])

\* The three order checks agree.  The reducer's (compare_within_instrument, the
\* match time), kept in another crate, never refuses an event that
\* validate_global_order accepted; and that one has nothing to refuse in what
\* the heap merges from sorted streams, wherever they interleave.
OrderChecksAgree ==
    /\ error \notin {"OrderingRegression", "MatchTimeRegression", "InstrumentMismatch",
                     "InvalidRealtimeShape"}
    /\ (\A n \in DOMAIN plan : StreamSorted(plan[n].items))
           => error # "GlobalOrderingRegression"

\* An instrument's state counts its own events of its own trading date, and
\* ends with the last of them: no other instrument's event and none of an
\* earlier trading date is in it.
StatesHoldTheirOwnEvents ==
    \A i \in Universe :
        LET own == {n \in DOMAIN core.digest :
                       /\ core.digest[n].instrument = i
                       /\ core.digest[n].date = core.states[i].date}
        IN  /\ core.states[i].version = Cardinality(own)
            /\ own # {} => core.states[i].last = core.digest[Max(own)]

\* The strategy sees a past of the committed market: the visible core is the
\* committed one as it was, and the comparison in release_observation never
\* ends a run.
VisibleIsCommittedPast ==
    /\ IsPrefix(visible.digest, core.digest)
    /\ visible.ordinal = core.ordinal => visible = core
    /\ error # "VisibleOccurrenceDiffers"

=============================================================================
