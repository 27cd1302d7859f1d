----------------------------- MODULE Preparation -----------------------------
(***************************************************************************)
(* From a run file to a replay: the file is loaded and planned, every      *)
(* partition's archive records are normalised and ordered into a cache,    *)
(* the replay core, the session schedule, the ledger and the simulator are *)
(* assembled from the plan (replay_core, schedule and the first half of    *)
(* execute_backtest_plan in crates/osmium-cli/src/command.rs), and the     *)
(* events are replayed through the market state reducers.                  *)
(*                                                                         *)
(* DataStore and Commands model how the records and the caches are stored; *)
(* Replay models the merge of the caches.  Here a cache is its events and  *)
(* the merge is sorting.                                                   *)
(***************************************************************************)
EXTENDS RunConfig, Normalizer

CONSTANTS
    Configs,    \* the run files
    RecordsOf,  \* per instrument, the records its archive may hold
    MaxRecords  \* bound on the records of one archive

VARIABLES
    config,   \* the run file
    archive,  \* the records the archive answers, in the order of its pages
    stage,    \* how far the commands have come
    caches,   \* per prepared partition, its ordered events
    left,     \* the events still to be replayed
    states    \* per instrument, its market state

vars == <<config, archive, stage, caches, left, states>>

-----------------------------------------------------------------------------
(* Ordering.                                                               *)
MarketRank == [twse |-> 1, tpex |-> 2, taifex |-> 3]

\* Seeded fault: the phases of a realtime record are not told apart.
NoPhaseRank(e) == 0

\* source_phase_rank
SourcePhaseRank(e) ==
    IF e.format # FormatNumber.STOCK_REALTIME THEN 0
    ELSE IF e.kind = "Trades" \/ (e.kind = "Indicative" /\ ~e.hasBook) THEN 10 ELSE 20

OrderingKey(e) ==
    <<e.time, MarketRank[e.instrument[1]], e.instrument[2], e.format, SourcePhaseRank(e),
      KindNumber[e.kind], e.sequence, e.fp>>

KeyLess(d, e) == LexLess(OrderingKey(d), OrderingKey(e))

\* order_events; fingerprints collide in Replay, not here.
OrderEvents(events) == SortSeq(events, KeyLess)

-----------------------------------------------------------------------------
(* Market state profiles and the reducer of an instrument.                 *)
ContractOf(c, i) == CHOOSE s \in Members(c.instruments) : s.instrument = i

QuoteKinds(realtime, snapshot) ==
    (realtime :> {"Quote", "Trades", "Indicative", "Status"})
        @@ (snapshot :> {"Quote", "Indicative", "Status"})
ProfileKinds(market, class) ==
    IF market = "taifex"
    THEN (1 :> {"Trades"}) @@ (2 :> {"Indicative"}) @@ (3 :> {"Book"}) @@ (4 :> {"Book"})
    ELSE IF class = "warrant" THEN QuoteKinds(7, 8) ELSE QuoteKinds(5, 6)
ProfileVolume(market) == IF market = "taifex" THEN "Unconstrained" ELSE "TradingUnit"

Reducer(market, class) ==
    INSTANCE MarketReducer WITH
        AcceptedKinds <- ProfileKinds(market, class), RealtimeFormat <- FormatNumber.STOCK_REALTIME,
        VolumePolicy <- ProfileVolume(market), PolicyVersion <- 1

-----------------------------------------------------------------------------
(* What is assembled.                                                      *)
WindowsOf(p) == SessionWindows(p.profile, p.date, p.kinds)
PartitionsOf(c, i) == {p \in Partitions(c) : p.instrument = i}

\* Every window of an instrument; replay_core makes a context and schedule a
\* segment of each.
InstrumentWindows(c, i) == UNION {Range(WindowsOf(p)) : p \in PartitionsOf(c, i)}

ContextOf(w) == [date |-> w.date, segment |-> w.kind, policy |-> "Reset", version |-> 1]

\* ReplayContextWindow::new and ReplayCore::new_multi_with_schedules
CoreProblem(c) ==
    If(\E i \in Universe(c) : \E v, w \in InstrumentWindows(c, i) :
           v.start >= v.end \/ (v # w /\ v.start <= w.start /\ v.end > w.start),
       "InvalidContextSchedule")

\* SessionSegment::new and MultiSessionSchedule::new
ScheduleProblem(c) ==
    If(\E i \in Universe(c) : \/ InstrumentWindows(c, i) = {}
                              \/ \E v, w \in InstrumentWindows(c, i) :
                                    \/ v.open >= v.close
                                    \/ v # w /\ v.open <= w.open /\ v.close >= w.open,
       "Schedule")

\* The accounting model of a class.
AccountingModel ==
    [option |-> "OptionsV1", future |-> "FuturesV1", equity |-> "EquityV1", warrant |-> "EquityV1"]

\* charge
ChargeModel(c) ==
    [basis |-> ChargeBasis(c), rate |-> ChargeRate(c), sides |-> c.sides,
     minimum |-> ChargeMinimum(c), precision |-> c.precision]

\* charges_for
ChargesFor(sim, i) == {c \in Members(sim.charges) : c.instrument = i}

\* InstrumentLedgerConfig of an entry of the economics
LedgerConfig(c, e) ==
    LET mine == ChargesFor(c.simulation, e.instrument)
        entry == IF mine = {} THEN c.simulation ELSE CHOOSE x \in mine : TRUE
    IN  [instrument |-> e.instrument, unit |-> e.unit, units |-> e.units,
         multiplier |-> e.multiplier, sourced |-> e.sourced,
         model |-> AccountingModel[ContractOf(c, e.instrument).class],
         pricePolicy |-> PricePolicy(ContractOf(c, e.instrument)),
         fee |-> ChargeModel(entry.fee), tax |-> ChargeModel(entry.tax),
         dayTrade |-> {[charge |-> ChargeModel(d.charge), offset |-> d.offset,
                        eligible |-> d.eligible, through |-> d.through,
                        sourced |-> d.sourced] : d \in UNION {x.dayTrade : x \in mine}}]

\* DayTradeTaxModel::new
DayTradeRefused(ordinary, d) ==
    \/ ~d.sourced
    \/ {ordinary.basis, d.charge.basis} # {"NotionalRate"}
    \/ {ordinary.sides, d.charge.sides} # {{"sell"}}
    \/ d.charge.rate > ordinary.rate
    \/ \E m \in {ordinary, d.charge} : m.rate < 0 \/ m.minimum < 0 \/ m.precision > DecimalScale
    \/ d.offset \notin -1439..1439

\* model_matches_market
ModelMatchesMarket(market, model) ==
    IF market = "taifex" THEN model \in {"FuturesV1", "OptionsV1"} ELSE model = "EquityV1"

\* validate_models
ModelsRefused(l, tax) ==
    \/ l.units = 0 \/ l.multiplier <= 0 \/ ~l.sourced
    \/ \E m \in {l.fee, tax} : m.rate < 0 \/ m.minimum < 0 \/ m.precision > DecimalScale

\* MultiLedger::new
LedgerProblem(c) ==
    FirstProblem(<<
        OfEach(c.economics, LAMBDA e :
            LET l == LedgerConfig(c, e)
            IN  FirstProblem(<<
                    If(\E d \in l.dayTrade : DayTradeRefused(l.tax, d), "InvalidModel"),
                    If(\/ ~ModelMatchesMarket(l.instrument[1], l.model)
                       \/ l.unit = "source_unit"
                       \/ l.dayTrade # {} /\ l.model # "EquityV1", "AccountingModelMismatch"),
                    If(\E tax \in {l.tax} \cup {d.charge : d \in l.dayTrade} :
                           ModelsRefused(l, tax), "InvalidModel")>>)),
        If(c.simulation.cash < 0, "InvalidModel"),
        If(c.economics = <<>>, "EmptyUniverse"),
        If(~NoDuplicates(c.economics, InstrumentOf), "DuplicateInstrument")>>)

\* ScheduledDepthModel::new
DepthModelRefused(s, delta) == s.depth \notin 1..5 \/ s.stale = 0 \/ delta < 0

\* MultiSimulator::new or ScheduledDepthSimulator::new: both are made of the
\* economics and refuse no instruments and one instrument twice.
SimulatorProblem(c) ==
    LET sim == c.simulation
    IN  FirstProblem(<<
            If(/\ sim.policy = "scheduled_visible_depth_v1"
               /\ sim.scheduled = {} \/ \E s \in sim.scheduled : DepthModelRefused(s, sim.delta),
               "Simulator"),
            If(~NoDuplicates(c.economics, InstrumentOf), "DuplicateInstrument"),
            If(c.economics = <<>>, "EmptyUniverse")>>)

\* The plan binds the caches that are of the mapping it expects.
MappingProblem(c) ==
    If(\E p \in Partitions(c) :
           BuiltMapping(NormalizerConfig(p, WindowsOf(p))) # ExpectedMapping(p), "CacheMissing")

AssemblyProblem(c) ==
    FirstProblem(<<MappingProblem(c), CoreProblem(c), ScheduleProblem(c), LedgerProblem(c),
                   SimulatorProblem(c)>>)

\* Everything a run is made of, besides its data.
Assembly(c) ==
    [segments |-> {<<i, InstrumentWindows(c, i)>> : i \in Universe(c)},
     ledger |-> {LedgerConfig(c, e) : e \in Members(c.economics)},
     cash |-> c.simulation.cash,
     simulator |-> <<c.simulation.policy, c.simulation.scheduled, c.simulation.delta,
                     c.simulation.evidence, c.simulation.quantity, c.simulation.midpoint,
                     c.simulation.marketDataLatency, c.simulation.orderLatency>>,
     strategy |-> <<c.strategy.id, c.strategy.version, ToString(Parameters(c))>>]

-----------------------------------------------------------------------------
(* The steps.                                                              *)

\* What the archive answers for a partition, selected by the time it received
\* the records, and what its cache is made of, selected by their match time.
Fetched(p) ==
    SelectSeq(archive, LAMBDA r : r.of = p.instrument /\ QueriedBy(p, WindowsOf(p), r.received))
Built(p, records) == Normalize(NormalizerConfig(p, WindowsOf(p)), records)

\* build_external_partition: a cache holds its own partition's events.
BuildRefused(p, events) ==
    \E e \in Range(events) : e.instrument # p.instrument \/ e.date # p.date

\* normalizer_config: the partition is one of an instrument of the file.
NormalizerConfigProblem(p) ==
    IF p.instrument \notin Universe(config) THEN "partition instrument is not selected"
    ELSE NormalizerProblem(p, WindowsOf(p))

Init ==
    /\ config \in Configs
    /\ archive = <<>>
    /\ stage = "file"
    /\ caches = <<>>
    /\ left = <<>>
    /\ states = <<>>

\* The market trades, and the archive keeps one more record.
Trade ==
    /\ stage = "file" /\ Len(archive) < MaxRecords
    /\ \E i \in Universe(config) : \E r \in RecordsOf[i] : archive' = Append(archive, r)
    /\ UNCHANGED <<config, stage, caches, left, states>>

\* load: config check ends here.
Load ==
    /\ stage = "file"
    /\ stage' = IF ConfigProblem(config) = None THEN "loaded" ELSE "refused"
    /\ UNCHANGED <<config, archive, caches, left, states>>

\* plan
Plan ==
    /\ stage = "loaded"
    /\ stage' = IF PlanProblem(config) = None THEN "planned" ELSE "refused"
    /\ UNCHANGED <<config, archive, caches, left, states>>

\* prepare_cache of one partition
PrepareCache(p) ==
    /\ stage = "planned" /\ p \notin DOMAIN caches
    /\ IF NormalizerConfigProblem(p) # Good
       THEN stage' = "unassembled" /\ UNCHANGED caches
       ELSE IF Built(p, Fetched(p)).error # Good
       THEN stage' = "unusable" /\ UNCHANGED caches
       ELSE IF BuildRefused(p, Built(p, Fetched(p)).events)
       THEN stage' = "unassembled" /\ UNCHANGED caches
       ELSE /\ caches' = caches @@ (p :> OrderEvents(Built(p, Fetched(p)).events))
            /\ UNCHANGED stage
    /\ UNCHANGED <<config, archive, left, states>>

\* replay_core, schedule and the models of execute_backtest_plan
Assemble ==
    /\ stage = "planned" /\ DOMAIN caches = Partitions(config)
    /\ stage' = IF AssemblyProblem(config) = None THEN "ready" ELSE "unassembled"
    /\ left' = IF stage' = "ready"
               THEN OrderEvents(FlattenSeq(SetToSeq({caches[p] : p \in DOMAIN caches})))
               ELSE left
    /\ states' = [i \in Universe(config) |->
                    Reducer(i[1], ContractOf(config, i).class)!NewState(i, Min(Members(config.dates)))]
    /\ UNCHANGED <<config, archive, caches>>

\* The state an event is applied to: a new one when its date is another.
StateFor(e) ==
    IF states[e.instrument].date = e.date THEN states[e.instrument]
    ELSE Reducer(e.instrument[1], "equity")!NewState(e.instrument, e.date)

\* ReplayCore::commit through context_for_event
Replay ==
    /\ stage = "ready" /\ left # <<>>
    /\ LET e == Head(left)
           i == e.instrument
           windows == {w \in InstrumentWindows(config, i) : w.start <= e.time /\ e.time < w.end}
           p == Reducer(i[1], ContractOf(config, i).class)!Propose(
                    StateFor(e), e, ContextOf(CHOOSE w \in windows : TRUE))
       IN  IF windows = {} \/ p.error # "none"
           THEN stage' = "aborted" /\ UNCHANGED <<left, states>>
           ELSE /\ states' = [states EXCEPT ![i] = p.next]
                /\ left' = Tail(left)
                /\ UNCHANGED stage
    /\ UNCHANGED <<config, archive, caches>>

Complete ==
    /\ stage = "ready" /\ left = <<>>
    /\ stage' = "complete"
    /\ UNCHANGED <<config, archive, caches, left, states>>

Next ==
    \/ Trade \/ Load \/ Plan
    \/ \E p \in Partitions(config) : PrepareCache(p)
    \/ Assemble \/ Replay \/ Complete

Spec == Init /\ [][Next]_vars

-----------------------------------------------------------------------------
(* Properties.                                                             *)

\* What load, resolve and plan accept is never refused later: the normaliser,
\* the replay core, the schedule, the ledger and the simulator check the same
\* terms again, each in its own words, after the data was fetched.
PlannedRunsAssemble == stage # "unassembled"

\* Two files with one plan identity make one run: the text under the checksum
\* that artifacts carry covers every term the run is assembled from.
SameIdentitySameRun ==
    stage = "ready" /\ archive = <<>> =>
        \A other \in Configs :
            (/\ ConfigProblem(other) = None
             /\ PlanProblem(other) = None
             /\ PlanIdentity(other) = PlanIdentity(config)) => Assembly(other) = Assembly(config)

\* The first business date after a day.
NextBusinessDate(day) == CHOOSE d \in (day + 1)..(day + 3) :
    ~IsWeekend(d) /\ \A q \in (day + 1)..(d - 1) : IsWeekend(q)

\* When every market, or every market with a night session, is open: the
\* trading dates and sessions a time belongs to.
TradedIn(time) ==
    LET day == time \div MinutesPerDay
    IN  {<<day, Regular>> : d \in {x \in {day} :
            ~IsWeekend(x) /\ At(x, 9, 0) <= time /\ time < At(x, 13, 30)}}
        \cup {<<NextBusinessDate(x), AfterHours>> : x \in {y \in {day - 1, day} :
            ~IsWeekend(y) /\ At(y, 17, 25) <= time /\ time < At(y + 1, 5, 0)}}

\* A record matched while the market is open is cached for the trading date
\* and replayed in the session of its match time and in no other, whenever the
\* archive received it: evenings count for the next business date, over
\* weekends too.  And it is there, if the run asks for that session and the
\* archive received it while that session was still open.
TicksHaveOneSession ==
    stage = "ready" =>
        \A r \in Range(archive) : TradedIn(r.time) # {} =>
            LET cached == {p \in PartitionsOf(config, r.of) :
                             /\ r \in Range(Fetched(p))
                             /\ InWindow(NormalizerConfig(p, WindowsOf(p)), r.time)}
                replayed == {w \in InstrumentWindows(config, r.of) :
                               w.start <= r.time /\ r.time < w.end}
                got == {<<p.date, w.kind>> : p \in cached, w \in replayed}
                asked == {x \in TradedIn(r.time) : \E p \in PartitionsOf(config, r.of) :
                                                      x[1] = p.date /\ x[2] \in p.kinds}
            IN  got \subseteq asked /\ asked \cap TradedIn(r.received) \subseteq got

Occurrences(s, x) == Cardinality({k \in DOMAIN s : s[k] = x})
IntermediatesAt(records, t) == Cardinality({k \in DOMAIN records :
    records[k].intermediate /\ records[k].time = t})

\* The pages of an archive may hold a match time's records in any order: as
\* long as there is one intermediate print the cache is the same.
TapeOrderIsIrrelevant ==
    \A p \in DOMAIN caches :
        LET records == Fetched(p)
        IN  (\A r \in Range(records) : IntermediatesAt(records, r.time) <= 1) =>
                \A f \in Permutations(DOMAIN records) :
                    LET built == Built(p, [k \in DOMAIN records |-> records[f[k]]])
                    IN  built.error = Good /\ OrderEvents(built.events) = caches[p]

\* Every print that is read is replayed once, as firm or as trial as it was:
\* grouping neither drops nor repeats one.
PrintsConserved ==
    \A p \in DOMAIN caches :
        LET n == NormalizerConfig(p, WindowsOf(p))
            records == Accepted(n, Fetched(p))
            Tagged(prints, trial) == [k \in DOMAIN prints |-> <<prints[k], trial>>]
            read == FlattenSeq([k \in DOMAIN records |->
                Tagged(IF IsQuoteMapping(n.mapping) THEN Prints(records[k])
                       ELSE SelectSeq(records[k].trades, LAMBDA t : t[1] # 0 /\ t[2] # 0),
                       Trial(records[k]) \/ records[k].format = "I022")])
            shown == FlattenSeq([k \in DOMAIN caches[p] |->
                Tagged(caches[p][k].prints, caches[p][k].kind = "Indicative")])
        IN  \A x \in Range(read) \cup Range(shown) : Occurrences(read, x) = Occurrences(shown, x)

\* A tape as an exchange makes it: one final record for a match time, and a
\* volume that does not fall from one match time to the next.  Volumes are
\* compared for equities and warrants only.
CleanTape(n, records) ==
    IsQuoteMapping(n.mapping) =>
        \A j, k \in DOMAIN records :
            /\ records[j].time < records[k].time => records[j].volume <= records[k].volume
            /\ (/\ j # k /\ records[j].time = records[k].time
                /\ ~records[j].intermediate) => records[k].intermediate

\* Such a tape, once cached, replays to its end: the reducer sees the prints
\* of a match time before its final record and never a volume that falls.
CleanTapesReplay ==
    stage = "aborted" =>
        \E p \in DOMAIN caches :
            LET n == NormalizerConfig(p, WindowsOf(p))
            IN  ~CleanTape(n, Accepted(n, Fetched(p)))
=============================================================================
