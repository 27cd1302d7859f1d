------------------------------ MODULE Normalizer ------------------------------
(***************************************************************************)
(* From the records of the Teralion archive to ordered domain events: the  *)
(* normalisers of crates/providers/teralion (equity_quote.rs, taifex.rs),  *)
(* the choice of one for a partition (provider.rs) and order_events of     *)
(* crates/replay-engine/src/ordering.rs.  Operators only.                  *)
(*                                                                         *)
(* A record of the archive has all the fields a record of any format has.  *)
(* `deal` is a set of at most one <<price, quantity>>, a side of a book a  *)
(* sequence of them; `flags` are the bits of status_flags that are set,    *)
(* "reserved" standing for any reserved bit or limit position, and `trend` *)
(* is the instant trend.  `id` stands for the content of the record: two   *)
(* records with one id are equal, and fingerprints are made of it.         *)
(***************************************************************************)
EXTENDS SessionPlan, SequencesExt

Good == "none"

\* A source format is the number its name sorts to.
FormatNumber ==
    [I020 |-> 1, I022 |-> 2, I080 |-> 3, I082 |-> 4, STOCK_REALTIME |-> 5,
     STOCK_SNAPSHOT |-> 6, WARRANT_REALTIME |-> 7, WARRANT_SNAPSHOT |-> 8]

KindNumber == [Quote |-> 10, Book |-> 20, Trades |-> 30, Indicative |-> 40, Status |-> 50]

LexLess(a, b) == \E n \in DOMAIN a : a[n] < b[n] /\ \A m \in 1..(n - 1) : a[m] = b[m]

\* mapping_profile_for; only the source "teralion" has mappings.
MappingProfile(market, class, shape) ==
    CASE market \in {"twse", "tpex"} /\ shape = Absent /\ class = "equity"  -> "equity"
      [] market \in {"twse", "tpex"} /\ shape = Absent /\ class = "warrant" -> "warrant"
      [] market = "taifex" /\ class = "future" /\ shape = "outright"        -> "future"
      [] market = "taifex" /\ class = "future" /\ shape = "calendar_spread" -> "spread"
      [] market = "taifex" /\ class = "option" /\ shape = Absent            -> "option"
      [] OTHER -> "unsupported"

IsQuoteMapping(mapping) == mapping \in {"equity", "warrant"}

\* NormalizerConfig: an equity has one window around all of its sessions, a
\* contract of TAIFEX has one for each.
NormalizerWindows(mapping, windows) ==
    IF IsQuoteMapping(mapping)
    THEN {[start |-> Min({w.start : w \in Range(windows)}),
           end |-> Max({w.end : w \in Range(windows)})]}
    ELSE {[start |-> w.start, end |-> w.end] : w \in Range(windows)}

\* NormalizerConfig::new of equity_quote.rs and for_profile of taifex.rs
QuoteWindowRefused(mine) == \E w \in mine : w.start >= w.end
ContractWindowsRefused(mine) ==
    \/ mine = {} \/ \E w \in mine : w.start >= w.end
    \/ \E v, w \in mine : v # w /\ v.start <= w.start /\ w.start < v.end

\* normalizer_config_for: what it refuses.
NormalizerProblem(p, windows) ==
    LET mapping == MappingProfile(p.market, p.class, p.shape)
        mine == NormalizerWindows(mapping, windows)
    IN  IF windows = <<>> THEN "EmptySessionPlan"
        ELSE IF mapping = "unsupported" THEN "UnsupportedContract"
        ELSE IF \/ IsQuoteMapping(mapping) /\ QuoteWindowRefused(mine)
                \/ ~IsQuoteMapping(mapping) /\ ContractWindowsRefused(mine)
             THEN "InvalidConfig" ELSE Good

\* The configuration, and the name of the market in the archive.
NormalizerConfig(p, windows) ==
    LET mapping == MappingProfile(p.market, p.class, p.shape)
    IN  [mapping |-> mapping, instrument |-> p.instrument, date |-> p.date,
         windows |-> NormalizerWindows(mapping, windows),
         market |-> CASE mapping \in {"future", "spread"} -> "taifex_fut"
                      [] mapping = "option" -> "taifex_opt"
                      [] OTHER -> p.market]

\* MappingProfile::identity, which a plan expects of a cache, and
\* PartitionNormalizerConfig::mapping_identity, which a cache is built with.
ExpectedMapping(p) == <<MappingProfile(p.market, p.class, p.shape), p.market>>
BuiltMapping(n) == <<n.mapping, n.instrument[1]>>

\* teralion_partition_plan_for: the archive is asked for everything from the
\* first window's start to the last one's end, and answers by its own clock,
\* received_at, which has no fixed relation to a record's match time.
QueriedBy(p, windows, received) ==
    /\ Min({w.start : w \in Range(windows)}) <= received
    /\ received < Max({w.end : w \in Range(windows)})

InWindow(n, time) == \E w \in n.windows : w.start <= time /\ time < w.end

-----------------------------------------------------------------------------
(* Events, with the fields MarketReducer reads and the prints they carry.  *)
NothingObserved ==
    [purpose |-> "none", delayed |-> "none", disposal |-> "none", direction |-> "none"]
Opening == [NothingObserved EXCEPT !.purpose = "Opening"]
Closing == [NothingObserved EXCEPT !.purpose = "Closing"]
VolatilityObservation(trend) ==
    [NothingObserved EXCEPT !.purpose = "Volatility", !.direction = trend]

Signal(type, observation) ==
    [observation |-> "set", signal |-> [type |-> type, observation |-> observation]]
Continuous == Signal("Continuous", NothingObserved)
UnknownSignal == [Continuous EXCEPT !.observation = "unknown"]
VolumeIs(v) == [observation |-> "set", value |-> v, unit |-> "TradingUnit"]
NoVolume == [observation |-> "none", value |-> 0, unit |-> "TradingUnit"]

\* domain_event: records carry no source sequence.
DomainEvent(n, r, kind, fp, prints, volume, signal) ==
    [instrument |-> n.instrument, date |-> n.date, time |-> r.time,
     format |-> FormatNumber[r.format], kind |-> kind,
     intermediate |-> kind = "Trades" /\ r.intermediate,
     hasBook |-> ~r.intermediate, sequence |-> 0, fp |-> fp, bytes |-> fp,
     trade |-> IF prints = <<>> THEN "none" ELSE "set", prints |-> prints,
     volume |-> volume, signal |-> signal, observation |-> NothingObserved]

\* One number for the content of a sequence of records.
FingerprintOf(records) == FoldLeft(LAMBDA h, r : 100 * h + r.id, 0, records)

-----------------------------------------------------------------------------
(* Books.                                                                  *)

\* BookSide::validate
StrictlyOrdered(levels, bid) ==
    \A k \in 1..(Len(levels) - 1) :
        IF bid THEN levels[k][1] > levels[k + 1][1] ELSE levels[k][1] < levels[k + 1][1]

\* parse_side and parse_book_price of an equity: a price of zero stands for
\* market orders and comes first.
QuoteSideAccepted(levels, bid) ==
    /\ Len(levels) <= 5
    /\ \A k \in DOMAIN levels : levels[k][2] > 0 /\ levels[k][1] >= 0
    /\ \A k \in DOMAIN levels : levels[k][1] = 0 => k = 1
    /\ StrictlyOrdered(SelectSeq(levels, LAMBDA l : l[1] # 0), bid)

\* parse_price: the price of a calendar spread has any sign.
PriceAccepted(n, price) == n.mapping = "spread" \/ price > 0

\* parse_side of TAIFEX
ContractSideAccepted(n, levels, bid) ==
    /\ Len(levels) <= 5
    /\ \A k \in DOMAIN levels : levels[k][2] > 0 /\ PriceAccepted(n, levels[k][1])
    /\ StrictlyOrdered(levels, bid)

-----------------------------------------------------------------------------
(* Equities and warrants.                                                  *)
Trial(r) == "trial" \in r.flags
Paused(r) == r.trend \in {"Up", "Down"}
EmptyBook(r) == r.bids = <<>> /\ r.asks = <<>>
IsRealtime(r) == r.format \in {"STOCK_REALTIME", "WARRANT_REALTIME"}

\* The deal of a record, if its quantity is not zero (parse_deal).
DealOf(r) == {d \in r.deal : d[2] > 0}
ZeroQuantityDeal(r) == \E d \in r.deal : d[2] = 0
Prints(r) == IF DealOf(r) = {} THEN <<>> ELSE <<CHOOSE d \in DealOf(r) : TRUE>>

\* validate_identity
SameIdentity(n, r, type) ==
    r.type = type /\ r.market = n.market /\ r.symbol = n.instrument[2]

\* What parse_record asks of the payload.
QuotePayload(r) ==
    CASE ~IsRealtime(r) /\ r.intermediate -> "InvalidPayload"
      [] \E d \in r.deal : d[1] <= 0 -> "InvalidPrice"
      [] ZeroQuantityDeal(r) /\ (~Paused(r) \/ r.intermediate \/ ~EmptyBook(r)) ->
             "InvalidPayload"
      [] r.intermediate /\ (~EmptyBook(r) \/ DealOf(r) = {}) -> "InvalidPayload"
      [] ~r.intermediate /\ ~(QuoteSideAccepted(r.bids, TRUE)
                              /\ QuoteSideAccepted(r.asks, FALSE)) -> "InvalidBook"
      [] OTHER -> "accepted"

\* parse_record: accepted, left out, or the reason it fails the partition.
ClassifyQuote(n, r) ==
    LET formats == IF n.mapping = "equity" THEN {"STOCK_REALTIME", "STOCK_SNAPSHOT"}
                   ELSE {"WARRANT_REALTIME", "WARRANT_SNAPSHOT"}
    IN  CASE ~SameIdentity(n, r, "quote") -> "InvalidIdentity"
          [] r.format = "INTRADAY_ODDLOT_REALTIME" -> "skipped"
          [] r.format \notin formats -> "UnsupportedFormat"
          [] ~InWindow(n, r.time) -> "outside"
          [] OTHER -> QuotePayload(r)

\* auction_phase: the observation of a trial, none for a firm record; a record
\* that claims two phases is refused.
PhaseProblem == {Opening, Closing}
AuctionPhase(n, r) ==
    LET Within(h, m, hh, mm) == At(n.date, h, m) <= r.time /\ r.time < At(n.date, hh, mm)
        opening == "opening" \in r.flags \/ Within(8, 30, 9, 0)
        closing == "closing" \in r.flags \/ Within(13, 25, 13, 30)
    IN  CASE ~Trial(r) -> {}
          [] {"delayed_open", "delayed_close"} \subseteq r.flags -> PhaseProblem
          [] "delayed_open" \in r.flags  -> {[Opening EXCEPT !.delayed = "true"]}
          [] "delayed_close" \in r.flags -> {[Closing EXCEPT !.delayed = "true"]}
          [] opening /\ closing -> PhaseProblem
          [] opening -> {Opening}
          [] closing -> {Closing}
          [] OTHER -> {NothingObserved}

\* firm_market_signal
FirmSignal(r) ==
    CASE "reserved" \in r.flags \/ r.trend = "Reserved" -> UnknownSignal
      [] "opening" \in r.flags -> Signal("Uncross", Opening)
      [] "closing" \in r.flags -> Signal("Uncross", Closing)
      [] Paused(r) -> Signal("Collecting", VolatilityObservation(r.trend))
      [] OTHER -> Continuous

\* auction_event
AuctionEvent(n, r, phase) ==
    [DomainEvent(n, r, "Indicative", r.id, Prints(r), VolumeIs(r.volume), Continuous)
        EXCEPT !.observation = phase]

\* is_status_only_pause
StatusOnlyPause(r) == ~Trial(r) /\ Paused(r) /\ DealOf(r) = {} /\ EmptyBook(r)

\* final_event, of a record whose phase is known to be good
FinalEvent(n, r) ==
    IF StatusOnlyPause(r)
    THEN DomainEvent(n, r, "Status", r.id, <<>>, VolumeIs(r.volume),
                     Signal("Collecting", VolatilityObservation(r.trend)))
    ELSE IF Trial(r) THEN AuctionEvent(n, r, CHOOSE o \in AuctionPhase(n, r) : TRUE)
    ELSE DomainEvent(n, r, "Quote", r.id, Prints(r), VolumeIs(r.volume), FirmSignal(r))

\* intermediate_event, of a trial
IntermediateEvent(n, r) == AuctionEvent(n, r, CHOOSE o \in AuctionPhase(n, r) : TRUE)

\* Seeded fault: only the last print of a batch is kept.
LastPrintOnly(n, records) ==
    DomainEvent(n, records[1], "Trades", FingerprintOf(records), Prints(Last(records)),
                VolumeIs(Last(records).volume), FirmSignal(records[1]))

\* intermediate_batch_event: one batch of all prints, with the last volume and
\* the first record's signal.
IntermediateBatch(n, records) ==
    DomainEvent(n, records[1], "Trades", FingerprintOf(records),
                FlattenSeq([k \in DOMAIN records |-> Prints(records[k])]),
                VolumeIs(Last(records).volume), FirmSignal(records[1]))

\* normalize_intermediate_group: the records of one match time, at least one
\* of them intermediate, in the order of the input.
GroupProblem(n, group) ==
    LET intermediates == SelectSeq(group, LAMBDA r : r.intermediate)
        finals == SelectSeq(group, LAMBDA r : ~r.intermediate)
        phases == {AuctionPhase(n, r) : r \in Range(group)}
        final == finals[1]
        volume == Last(intermediates).volume
    IN  IF Len(finals) # 1 THEN "ExpectedOneIntermediateAndOneFinal"
        ELSE IF PhaseProblem \in phases THEN "InvalidPayload"
        ELSE IF Cardinality(phases) > 1 THEN "MixedAuctionTrialState"
        ELSE IF Trial(final) THEN Good
        ELSE IF final.deal = {} THEN "FinalDealMissing"
        ELSE IF final.volume # volume + SumSet({d[2] : d \in DealOf(final)})
             THEN "CumulativeVolumeMismatch" ELSE Good

GroupEvents(n, group) ==
    LET intermediates == SelectSeq(group, LAMBDA r : r.intermediate)
        final == SelectSeq(group, LAMBDA r : ~r.intermediate)[1]
    IN  IF Trial(final)
        THEN [k \in DOMAIN intermediates |-> IntermediateEvent(n, intermediates[k])]
             \o <<FinalEvent(n, final)>>
        ELSE <<IntermediateBatch(n, intermediates), FinalEvent(n, final)>>

\* Seeded fault: an intermediate record is paired with its neighbour.
GroupByAdjacency(records, k) ==
    IF ~IsRealtime(records[k]) THEN <<records[k]>>
    ELSE SelectSeq(SubSeq(records, IF k = 1 THEN 1 ELSE k - 1, Min({k + 1, Len(records)})),
                   LAMBDA r : IsRealtime(r) /\ r.time = records[k].time)

\* The realtime records of the match time of record k.
GroupOf(records, k) ==
    IF ~IsRealtime(records[k]) THEN <<records[k]>>
    ELSE SelectSeq(records, LAMBDA r : IsRealtime(r) /\ r.time = records[k].time)

\* normalize_groups: a group's events stand where its first record stands.
NormalizeGroups(n, records) ==
    LET Grouped(k) == \E r \in Range(GroupOf(records, k)) : r.intermediate
        IsAnchor(k) == ~\E j \in 1..(k - 1) : /\ IsRealtime(records[j])
                                              /\ records[j].time = records[k].time
        Problem(k) == IF Grouped(k) THEN GroupProblem(n, GroupOf(records, k))
                      ELSE IF AuctionPhase(n, records[k]) = PhaseProblem THEN "InvalidPayload"
                      ELSE Good
        Events(k) == IF ~Grouped(k) THEN <<FinalEvent(n, records[k])>>
                     ELSE IF IsAnchor(k) THEN GroupEvents(n, GroupOf(records, k)) ELSE <<>>
        problems == {Problem(k) : k \in DOMAIN records} \ {Good}
    IN  IF problems # {} THEN [error |-> CHOOSE e \in problems : TRUE, events |-> <<>>]
        ELSE [error |-> Good,
              events |-> FlattenSeq([k \in DOMAIN records |-> Events(k)])]

-----------------------------------------------------------------------------
(* TAIFEX.                                                                 *)
ExpectedType ==
    [I020 |-> "trade", I021 |-> "trade", I022 |-> "trade", I023 |-> "trade",
     I030 |-> "stats", I070 |-> "close", I072 |-> "close", I080 |-> "book", I082 |-> "book"]

\* parse_i020: the packets of a record that was cut in two are refused.
ParseI020(n, r) ==
    [result |-> IF ~r.first \/ r.trades = <<>> THEN "InvalidPayload"
                ELSE IF \E t \in Range(r.trades) : ~PriceAccepted(n, t[1]) \/ t[2] = 0
                     THEN "InvalidPrice" ELSE "accepted",
     event |-> DomainEvent(n, r, "Trades", r.id, r.trades, NoVolume, Continuous)]

\* parse_i022: one calculated price, or a zero for none; spreads have no trials.
ParseI022(n, r) ==
    [result |-> IF \/ n.mapping = "spread" \/ Len(r.trades) # 1
                   \/ (r.trades[1][1] = 0) # (r.trades[1][2] = 0) THEN "InvalidPayload"
                ELSE IF r.trades[1][1] < 0 THEN "InvalidPrice" ELSE "accepted",
     event |-> [DomainEvent(n, r, "Indicative", r.id, SelectSeq(r.trades, LAMBDA t : t[1] # 0),
                            NoVolume, Continuous)
                   EXCEPT !.observation = Opening, !.hasBook = FALSE]]

\* parse_book
ParseBook(n, r) ==
    [result |-> IF /\ ContractSideAccepted(n, r.bids, TRUE)
                   /\ ContractSideAccepted(n, r.asks, FALSE) THEN "accepted" ELSE "InvalidBook",
     event |-> DomainEvent(n, r, "Book", r.id, <<>>, NoVolume, Continuous)]

ParseContract(n, r) ==
    CASE r.format = "I020" -> ParseI020(n, r)
      [] r.format = "I022" -> ParseI022(n, r)
      [] OTHER -> ParseBook(n, r)

\* parse_record
ClassifyContract(n, r) ==
    CASE r.format \notin DOMAIN ExpectedType -> "UnsupportedFormat"
      [] ~SameIdentity(n, r, ExpectedType[r.format]) -> "InvalidIdentity"
      [] ~InWindow(n, r.time) -> "outside"
      [] r.format \in {"I021", "I023", "I030", "I070", "I072"} -> "skipped"
      [] OTHER -> ParseContract(n, r).result

\* sort_events; order_events sorts again, by a finer key.
SortContractEvents(events) ==
    LET Key(e) == <<e.time, e.format, KindNumber[e.kind], e.fp>>
    IN  SortSeq(events, LAMBDA d, e : LexLess(Key(d), Key(e)))

-----------------------------------------------------------------------------
(* A partition.                                                            *)
Classify(n, r) == IF IsQuoteMapping(n.mapping) THEN ClassifyQuote(n, r) ELSE ClassifyContract(n, r)

Accepted(n, records) == SelectSeq(records, LAMBDA r : Classify(n, r) = "accepted")

\* The first record that is refused fails them all.
Refusal(n, records) ==
    LET bad == SelectSeq(records,
                   LAMBDA r : Classify(n, r) \notin {"accepted", "outside", "skipped"})
    IN  IF bad = <<>> THEN Good ELSE Classify(n, bad[1])
Failed(error) == [error |-> error, events |-> <<>>]

\* QuoteNormalizer::normalize_json_lines
NormalizeQuotes(n, records) ==
    IF Refusal(n, records) # Good THEN Failed(Refusal(n, records))
    ELSE NormalizeGroups(n, Accepted(n, records))

\* TaifexNormalizer::normalize_json_lines
NormalizeContracts(n, records) ==
    LET accepted == Accepted(n, records)
    IN  IF Refusal(n, records) # Good THEN Failed(Refusal(n, records))
        ELSE [error |-> Good,
              events |-> SortContractEvents(
                  [k \in DOMAIN accepted |-> ParseContract(n, accepted[k]).event])]

\* PartitionNormalizerConfig::normalize
Normalize(n, records) ==
    IF IsQuoteMapping(n.mapping) THEN NormalizeQuotes(n, records)
    ELSE NormalizeContracts(n, records)
=============================================================================
