---------------------------- MODULE MCPreparation ----------------------------
(* Run files, and the records of the archive they are about.  Day 1 is a   *)
(* Friday, day 4 the Monday after it.                                      *)
EXTENDS Preparation

MCRegistry ==
    << "book", 1 >> :> [breaks |-> None, schema |->
        [size |-> [type |-> "unsigned", required |-> TRUE, default |-> {},
                   range |-> [minimum |-> <<"excluded", 0>>, maximum |-> <<"included", 3>>]],
         skew |-> [type |-> "signed", required |-> FALSE,
                   default |-> {[type |-> "signed", value |-> 0]},
                   range |-> [minimum |-> <<"included", -1>>, maximum |-> <<"unbounded">>]],
         name |-> [type |-> "text", required |-> FALSE, default |-> {}, range |-> <<>>]]]
    @@ << "broken", 1 >> :> [breaks |-> "metadata", schema |-> <<>>]

Integer(v) == [type |-> "integer", value |-> v]
Numeral(v) == [type |-> "numeral", value |-> v]

-----------------------------------------------------------------------------
(* Run files.                                                              *)
Rate(r, sides) ==
    [model |-> "configured_rate", rate |-> {r}, perUnit |-> {}, sides |-> sides,
     minimum |-> 1, precision |-> 0, sourced |-> TRUE]
Fixed(r) == [Rate(r, {"buy", "sell"}) EXCEPT !.model = "fixed_per_unit", !.rate = {}, !.perUnit = {r}]
Fee == Rate(1, {"buy", "sell"})
Tax == Rate(3, {"sell"})
DayTrade == [charge |-> Rate(2, {"sell"}), eligible |-> {4}, required |-> TRUE, offset |-> 480, through |-> 9,
             sourced |-> TRUE]

Selected(i, class, shape, profile, kinds) ==
    [instrument |-> i, market |-> i[1], class |-> class, shape |-> shape, profile |-> profile,
     kinds |-> kinds,
     reference |-> IF class \in {"warrant", "option"}
                   THEN {[strike |-> 10, multiplier |-> 1, unit |-> "contract", units |-> 1,
                          sourced |-> TRUE]} ELSE {}]
Worth(i) == [instrument |-> i, unit |-> "contract", units |-> 1, multiplier |-> 1, sourced |-> TRUE]

File(selections, dates) ==
    [secret |-> FALSE, version |-> 3, reference |-> {}, cachePolicy |-> "reuse_or_rebuild",
     dataRoot |-> "data", sourcePolicy |-> "strict", replayPolicy |-> "strict",
     dates |-> dates, instruments |-> selections,
     economics |-> [n \in DOMAIN selections |-> Worth(selections[n].instrument)],
     strategy |-> [id |-> "book", version |-> 1, parameters |-> [size |-> Integer(1)]],
     simulation |-> [policy |-> "subsequent_event_v1", scheduled |-> {}, marketDataLatency |-> 1,
                     evidence |-> "top_of_book", quantity |-> "observed", midpoint |-> TRUE,
                     orderLatency |-> 1, delta |-> 0, fee |-> Fee, tax |-> Tax, cash |-> 5,
                     charges |-> <<>>]]

\* Instruments 1 to 4 are traded, the others only configured.
Share   == Selected(<<"twse", 1>>, "equity", Absent, Absent, <<Regular>>)
Future  == Selected(<<"taifex", 2>>, "future", "outright", "taifex_index_futures",
                    <<AfterHours, Regular>>)
Spread  == Selected(<<"taifex", 3>>, "future", "calendar_spread",
                    "taifex_calendar_spread_regular_only", <<Regular>>)
Warrant == Selected(<<"twse", 4>>, "warrant", Absent, Absent, <<Regular>>)
ShareFile   == File(<<Share>>, <<4>>)
FutureFile  == File(<<Future>>, <<4, 1>>)
SpreadFile  == File(<<Spread, Future>>, <<4>>)
WarrantFile == File(<<Warrant>>, <<4>>)

\* Every combination of the terms of a contract.
Contracts ==
    {Selected(<<market, 10>>, class, shape, profile, kinds) :
        market \in {"twse", "tpex", "taifex"}, class \in {"equity", "warrant", "future", "option"},
        shape \in {Absent, "outright", "calendar_spread"},
        profile \in {Absent, "tpex_regular", "taifex_stock_futures", "taifex_index_options",
                     "taifex_stock_futures_regular_only", "taifex_calendar_spread_regular_only"},
        kinds \in {<<Regular>>, <<AfterHours, Regular>>}}
ContractFiles == {File(<<s>>, <<4>>) : s \in Contracts}

\* One file, changed in one place.
Quiet == Selected(<<"twse", 11>>, "equity", Absent, Absent, <<Regular>>)
Other == Selected(<<"taifex", 12>>, "option", Absent, Absent, <<Regular, Regular>>)
Plain == File(<<Quiet, Other>>, <<4>>)

GeneralFiles ==
    {Plain, [Plain EXCEPT !.secret = TRUE], [Plain EXCEPT !.version = 2],
     [Plain EXCEPT !.cachePolicy = "never"],
     [Plain EXCEPT !.dataRoot = ""], [Plain EXCEPT !.dataRoot = "elsewhere"],
     [Plain EXCEPT !.sourcePolicy = "explicit_degraded"],
     [Plain EXCEPT !.sourcePolicy = "explicit_degraded", !.replayPolicy = "explicit_degraded"]}
    \cup {[Plain EXCEPT !.reference = {[version |-> v, path |-> "notes", checksum |-> 1, file |-> f]}] :
            v \in {1, 2}, f \in {1, 2}}
    \cup {[Plain EXCEPT !.dates = d] : d \in {<<>>, <<2>>, <<4, 4>>, <<1, 4>>, <<4, 1>>}}
    \cup {[Plain EXCEPT !.instruments = s] : s \in
            {<<>>, <<Other, Quiet>>, <<Quiet>>, <<Quiet, Quiet>>, <<Quiet, [Other EXCEPT !.reference = {}]>>,
             <<[Quiet EXCEPT !.kinds = <<>>], Other>>, <<[Quiet EXCEPT !.kinds = <<AfterHours>>], Other>>,
             <<Quiet, [Other EXCEPT !.reference = {[r EXCEPT !.strike = 0] : r \in @}]>>,
             <<Quiet, [Other EXCEPT !.reference = {[r EXCEPT !.multiplier = 2] : r \in @}]>>}}
    \cup {[Plain EXCEPT !.economics = e] : e \in
            LET q == Worth(Quiet.instrument)
                o == Worth(Other.instrument)
            IN  {<<o, q>>, <<q>>, <<q, o, q>>, <<q, o, Worth(<<"twse", 1>>)>>, <<q, [o EXCEPT !.units = 2]>>,
                 <<[q EXCEPT !.unit = "share"], o>>, <<[q EXCEPT !.unit = "lot"], o>>, <<[q EXCEPT !.units = 0], o>>,
                 <<[q EXCEPT !.multiplier = 0], o>>, <<[q EXCEPT !.sourced = FALSE], o>>}}
    \cup {[Plain EXCEPT !.strategy = s] : s \in
            LET With(p) == [id |-> "book", version |-> 1, parameters |-> p]
            IN  {With([size |-> Integer(1), skew |-> Integer(0)]), With([size |-> Integer(2)]),
                 With([size |-> Integer(1), skew |-> Integer(-1)]), With([skew |-> Integer(0)]),
                 With([size |-> Integer(4)]), With([size |-> Integer(0)]),
                 With([size |-> Integer(1), name |-> Numeral(1)]),
                 With([size |-> [type |-> "sequence", value |-> 1]]), With([size |-> Numeral(1)]),
                 With([size |-> Integer(1), depth |-> Integer(1)]),
                 [id |-> "book", version |-> 2, parameters |-> <<>>],
                 [id |-> "other", version |-> 1, parameters |-> <<>>],
                 [id |-> "broken", version |-> 1, parameters |-> <<>>]}}

Charged(i, fee, tax, dayTrade) == <<[instrument |-> i, fee |-> fee, tax |-> tax, dayTrade |-> dayTrade]>>
SimulationFiles ==
    LET base == Plain.simulation
        depth == [base EXCEPT !.policy = "scheduled_visible_depth_v1",
                              !.scheduled = {[depth |-> 5, stale |-> 1]}]
        quiet == Quiet.instrument
    IN  {[Plain EXCEPT !.simulation = s] : s \in
            {depth, [depth EXCEPT !.scheduled = {}], [base EXCEPT !.scheduled = depth.scheduled],
             [depth EXCEPT !.scheduled = {[depth |-> 6, stale |-> 1]}],
             [depth EXCEPT !.scheduled = {[depth |-> 0, stale |-> 1]}],
             [depth EXCEPT !.scheduled = {[depth |-> 1, stale |-> 0]}], [depth EXCEPT !.delta = -1],
             [base EXCEPT !.evidence = "trade_print"], [base EXCEPT !.evidence = "depth"],
             [base EXCEPT !.quantity = "unlimited"], [base EXCEPT !.quantity = "all"],
             [base EXCEPT !.midpoint = FALSE], [base EXCEPT !.policy = "other"], [base EXCEPT !.marketDataLatency = MaxLatencyMs],
             [base EXCEPT !.orderLatency = 2], [base EXCEPT !.delta = -1], [base EXCEPT !.cash = 0],
             [base EXCEPT !.fee = Fixed(2)], [base EXCEPT !.fee = [Fee EXCEPT !.sides = {}]],
             [base EXCEPT !.fee = [Fee EXCEPT !.perUnit = {1}]], [base EXCEPT !.tax = Rate(-1, {"sell"})],
             [base EXCEPT !.tax = [Tax EXCEPT !.precision = DecimalScale + 1]],
             [base EXCEPT !.fee = [Fee EXCEPT !.sourced = FALSE]]}
            \cup {[base EXCEPT !.charges = c] : c \in
                {Charged(i, Fee, tax, {[DayTrade EXCEPT !.charge = charge]}) :
                    i \in {quiet, Other.instrument},
                    tax \in {Tax, Rate(3, {"buy", "sell"}), Fixed(3)},
                    charge \in {Rate(2, {"sell"}), Rate(4, {"sell"}), Rate(2, {"buy", "sell"}), Fixed(2)}}
                \cup {Charged(quiet, Fee, Tax, {d}) : d \in
                        {[DayTrade EXCEPT !.eligible = {}], [DayTrade EXCEPT !.eligible = {}, !.required = FALSE],
                         [DayTrade EXCEPT !.eligible = {1, 4}], [DayTrade EXCEPT !.offset = 1440],
                         [DayTrade EXCEPT !.through = 8], [DayTrade EXCEPT !.sourced = FALSE]}}
                \cup {Charged(quiet, Fee, Tax, {}), Charged(quiet, Fixed(2), Tax, {}),
                      Charged(<<"twse", 1>>, Fee, Tax, {}),
                      Charged(quiet, Fee, Tax, {}) \o Charged(quiet, Fixed(2), Tax, {}),
                      Charged(quiet, Rate(-1, {"buy"}), Tax, {})}}}

MCConfigs == {ShareFile, FutureFile, SpreadFile} \cup ContractFiles \cup GeneralFiles \cup SimulationFiles
WarrantConfigs == {WarrantFile}

-----------------------------------------------------------------------------
(* Records.                                                                *)
Quote(id, i, market, format, time, volume, deal) ==
    [id |-> id, of |-> i, market |-> market, symbol |-> i[2], type |-> "quote", format |-> format,
     time |-> time, received |-> time, intermediate |-> FALSE, deal |-> deal, volume |-> volume, flags |-> {},
     trend |-> "Normal", bids |-> <<<<9, 1>>>>, asks |-> <<<<11, 1>>>>, trades |-> <<>>, first |-> TRUE]
Received(r, time) == [r EXCEPT !.received = time]
Partway(r) == [r EXCEPT !.intermediate = TRUE, !.bids = <<>>, !.asks = <<>>]

\* One match time with prints on the way, the record that ends it and one
\* that ends it with another volume; trials; a pause; a snapshot; records
\* that are skipped, outside or refused.
MCShareRecords(i, realtime, snapshot) ==
    LET At10(id, volume, deal) == Quote(id, i, "twse", realtime, At(4, 10, 0), volume, deal)
        AtOpen(id, volume, deal) == Quote(id, i, "twse", realtime, At(4, 8, 59), volume, deal)
    IN  {Partway(At10(1, 2, {<<10, 1>>})), Partway(At10(2, 3, {<<10, 1>>})),
         At10(3, 3, {<<11, 1>>}), At10(4, 4, {<<11, 1>>}),
         [AtOpen(5, 0, {<<10, 3>>}) EXCEPT !.flags = {"trial"}],
         [Partway(AtOpen(6, 0, {<<10, 2>>})) EXCEPT !.flags = {"trial"}],
         [Quote(7, i, "twse", realtime, At(4, 9, 0), 1, {<<10, 1>>}) EXCEPT !.flags = {"opening"}],
         [Quote(8, i, "twse", realtime, At(4, 11, 0), 4, {<<10, 0>>}) EXCEPT
            !.trend = "Up", !.bids = <<>>, !.asks = <<>>],
         Quote(9, i, "twse", snapshot, At(4, 10, 0), 3, {}),
         [Quote(10, i, "twse", realtime, At(4, 13, 30), 4, {}) EXCEPT !.flags = {"trial", "opening", "closing"}],
         [Quote(11, i, "twse", realtime, At(4, 13, 30), 5, {}) EXCEPT !.flags = {"closing", "reserved"},
            !.bids = <<<<0, 2>>, <<9, 1>>>>],
         Quote(12, i, "twse", "INTRADAY_ODDLOT_REALTIME", At(4, 10, 0), 9, {}),
         [At10(13, 5, {}) EXCEPT !.asks = <<<<12, 1>>, <<11, 1>>>>],
         Received(At10(14, 4, {<<10, 1>>}), At(4, 14, 0))}

Tick(id, i, type, format, time, trades) ==
    [Quote(id, i, "taifex_fut", format, time, 0, {}) EXCEPT !.type = type, !.trades = trades]

\* The evenings and mornings around a weekend, the pause between sessions,
\* and the formats of a contract.  Three are received late: in the next session
\* of the same date, in the download window of another date, and in none; one
\* is received before its match time.
MCFutureRecords(i) ==
    {Tick(21, i, "trade", "I020", At(0, 20, 0), <<<<10, 1>>, <<10, 2>>>>),
     Tick(22, i, "trade", "I020", At(1, 10, 0), <<<<10, 1>>>>),
     Tick(23, i, "trade", "I020", At(1, 20, 0), <<<<11, 1>>>>),
     Tick(24, i, "trade", "I020", At(2, 3, 0), <<<<12, 1>>>>),
     Tick(25, i, "book", "I080", At(4, 10, 0), <<>>),
     Tick(26, i, "trade", "I022", At(4, 8, 44), <<<<0, 0>>>>),
     Tick(27, i, "trade", "I022", At(4, 8, 44), <<<<10, 1>>>>),
     Tick(28, i, "trade", "I020", At(1, 14, 0), <<<<10, 1>>>>),
     Tick(29, i, "close", "I070", At(4, 13, 45), <<>>),
     [Tick(30, i, "trade", "I020", At(4, 10, 0), <<<<10, 1>>>>) EXCEPT !.first = FALSE],
     Received(Tick(34, i, "trade", "I020", At(1, 20, 0), <<<<13, 1>>>>), At(4, 10, 0)),
     Received(Tick(35, i, "trade", "I020", At(1, 10, 0), <<<<13, 1>>>>), At(1, 20, 0)),
     Received(Tick(36, i, "trade", "I020", At(4, 10, 0), <<<<13, 1>>>>), At(4, 14, 0)),
     Received(Tick(37, i, "trade", "I020", At(4, 10, 0), <<<<14, 1>>>>), At(1, 20, 0))}
\* A spread trades below zero.
MCSpreadRecords(i) ==
    {Tick(31, i, "trade", "I020", At(4, 10, 0), <<<<-1, 1>>>>),
     [Tick(32, i, "book", "I082", At(4, 10, 0), <<>>) EXCEPT !.bids = <<<<-1, 1>>, <<-2, 1>>>>,
                                                             !.asks = <<<<0, 1>>>>],
     Tick(33, i, "trade", "I022", At(4, 8, 44), <<<<1, 1>>>>)}

MCRecordsOf ==
    Share.instrument :> MCShareRecords(Share.instrument, "STOCK_REALTIME", "STOCK_SNAPSHOT")
    @@ Future.instrument :> MCFutureRecords(Future.instrument)
    @@ Spread.instrument :> MCSpreadRecords(Spread.instrument)
    @@ Warrant.instrument :> MCShareRecords(Warrant.instrument, "WARRANT_REALTIME", "WARRANT_SNAPSHOT")
    @@ [i \in ({"twse", "tpex", "taifex"} \X {1, 10}) \cup {Quiet.instrument, Other.instrument} |-> {}]
=============================================================================
