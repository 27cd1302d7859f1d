------------------------------ MODULE RunConfig ------------------------------
(***************************************************************************)
(* What a run file says and when it is refused: load and resolve of        *)
(* crates/osmium-config/src/lib.rs, StrategyRegistry::resolve of           *)
(* crates/strategy-api/src/registry.rs, EffectiveRunConfig::resolve of     *)
(* crates/run-planner/src/config.rs, the partitions and the identity of    *)
(* the plan (plan.rs).  Operators only: Preparation uses them.             *)
(*                                                                         *)
(* A run file is a record of the values its text stands for.  An optional  *)
(* section is a set of at most one record; free text is only "given" or    *)
(* not, and the decimals are small integers.                               *)
(***************************************************************************)
EXTENDS SessionPlan, SequencesExt, TLC

CONSTANTS
    Registry,     \* the compiled strategies: <<id, version>> to its factory
    MaxLatencyMs, \* i64::MAX / 1000
    DecimalScale  \* Decimal::SCALE, the finest precision of a charge

None == "none"

\* The first refusal of a sequence of checks, in the order the code makes them.
FirstProblem(checks) ==
    LET at == {n \in DOMAIN checks : checks[n] # None}
    IN  IF at = {} THEN None ELSE checks[CHOOSE n \in at : \A m \in at : n <= m]

If(condition, problem) == IF condition THEN problem ELSE None
OfEach(s, Problem(_)) == FirstProblem([n \in DOMAIN s |-> Problem(s[n])])
Members(s) == Range(s)
NoDuplicates(s, Key(_)) == \A m, n \in DOMAIN s : Key(s[m]) = Key(s[n]) => m = n
InstrumentOf(r) == r.instrument

-----------------------------------------------------------------------------
(* The universe.                                                           *)

\* The session profile a selection resolves to.
ProfileOf(s) == IF s.profile # Absent THEN s.profile ELSE ForInstrumentClass(s.market, s.class)

ShapeMatchesClass(class, shape) ==
    IF class = "future" THEN shape \in {"outright", "calendar_spread"} ELSE shape = Absent

\* InstrumentReferenceConfig::is_valid
ReferenceIsValid(r) == r.strike > 0 /\ r.multiplier > 0 /\ r.units # 0 /\ r.sourced

\* parse_reference
ReferenceProblem(s) == If(\E r \in s.reference : ~ReferenceIsValid(r), "reference")

\* parse_selection
SelectionProblem(s) ==
    LET future == s.market = "taifex" /\ s.class = "future"
    IN  FirstProblem(<<
            If(s.kinds = <<>>, "session_kinds"),
            ReferenceProblem(s),
            If(<<s.market, s.class>> \notin ({"twse", "tpex"} \X {"equity", "warrant"})
                  \cup ({"taifex"} \X {"future", "option"}), "instrument_class"),
            If(future /\ s.shape = Absent, "contract_shape"),
            If(future /\ s.profile = Absent, "session_profile"),
            If(~ShapeMatchesClass(s.class, s.shape), "contract_shape"),
            If(~SupportsContract(ProfileOf(s), s.market, s.class, s.shape), "session_profile"),
            If(s.class \in {"warrant", "option"} /\ s.reference = {}, "reference")>>)

\* validate_reference_economics: what the contract says of itself is what is
\* used to value it.
ReferenceEconomicsProblem(selections, economics) ==
    OfEach(selections, LAMBDA s :
        If(\E r \in s.reference : \A e \in Members(economics) :
               \/ e.instrument # s.instrument
               \/ e.unit # r.unit \/ e.units # r.units \/ e.multiplier # r.multiplier,
           "instrument_economics"))

\* validate_economics: one valid entry for each instrument of the universe.
EconomicsProblem(economics, universe) ==
    FirstProblem(<<
        OfEach(economics, LAMBDA e :
            If(e.instrument \notin universe, "EconomicsOutsideUniverse")),
        OfEach(economics, LAMBDA e :
            If(e.units = 0 \/ e.multiplier <= 0 \/ ~e.sourced, "InvalidInstrumentEconomics")),
        If(~NoDuplicates(economics, InstrumentOf), "DuplicateInstrumentEconomics"),
        If(universe # {e.instrument : e \in Members(economics)}, "MissingInstrumentEconomics")>>)

-----------------------------------------------------------------------------
(* The simulation.                                                         *)

\* parse_charge: the two models exclude each other's amounts.
ParseChargeProblem(c) ==
    FirstProblem(<<
        If(c.sides = {}, "applicable_sides"),
        If(~ \/ c.model = "configured_rate" /\ c.perUnit = {} /\ c.rate # {}
             \/ c.model = "fixed_per_unit" /\ c.rate = {} /\ c.perUnit # {}, "charge.model")>>)

ChargeBasis(c) == IF c.model = "fixed_per_unit" THEN "FixedPerUnit" ELSE "NotionalRate"
ChargeRate(c)  == CHOOSE r \in c.rate \cup c.perUnit : TRUE
ChargeMinimum(c) == IF c.model = "fixed_per_unit" THEN 0 ELSE c.minimum

\* validate_charge
ChargeProblem(c, problem) ==
    If(ChargeRate(c) < 0 \/ ChargeMinimum(c) < 0 \/ c.precision > DecimalScale \/ ~c.sourced,
       problem)

AllCharges(sim) ==
    {sim.fee, sim.tax} \cup UNION {{c.fee, c.tax} : c \in Members(sim.charges)}
        \cup UNION {{d.charge : d \in c.dayTrade} : c \in Members(sim.charges)}

\* parse_simulation: the scheduled section goes with the scheduled policy.
ParseSimulationProblem(sim) ==
    FirstProblem(<<
        If(sim.evidence \notin {"top_of_book", "trade_print"}, "fill.evidence"),
        If(sim.quantity \notin {"unlimited", "observed"}, "fill.quantity"),
        OfEach(<<sim.fee, sim.tax>>, ParseChargeProblem),
        If(sim.policy \notin {"subsequent_event_v1", "scheduled_visible_depth_v1"},
           "execution_policy"),
        If((sim.policy = "scheduled_visible_depth_v1") # (sim.scheduled # {}),
           "scheduled_execution"),
        If(\E c \in AllCharges(sim) : ParseChargeProblem(c) # None, "charge")>>)

\* validate_simulation
SimulationProblem(sim) ==
    FirstProblem(<<
        If(sim.marketDataLatency + sim.orderLatency > MaxLatencyMs, "InvalidLatency"),
        If(sim.delta < 0, "NegativeSlippage"),
        ChargeProblem(sim.fee, "InvalidFee"),
        ChargeProblem(sim.tax, "InvalidTax"),
        If(\/ (sim.policy = "scheduled_visible_depth_v1") # (sim.scheduled # {})
           \/ \E s \in sim.scheduled : s.depth \notin 1..5 \/ s.stale = 0,
           "InvalidScheduledExecution"),
        If(sim.cash <= 0, "InvalidInitialCash")>>)

\* Seeded fault: the day-trade tax is not held to the side it applies to.
DayTradeAnySide(c, dates) ==
    If(\E d \in c.dayTrade : d.required /\ ~(dates \subseteq d.eligible),
       "MissingDayTradeEligibility")

\* validate_instrument_charges, for one instrument: a day-trade tax lowers a
\* sell tax of an equity market.
DayTradeProblem(c, dates) ==
    FirstProblem(<<
        If(\E d \in c.dayTrade :
               \/ c.instrument[1] \notin {"twse", "tpex"}
               \/ {ChargeBasis(c.tax), ChargeBasis(d.charge)} # {"NotionalRate"}
               \/ c.tax.sides # {"sell"} \/ d.charge.sides # {"sell"}
               \/ ChargeRate(d.charge) > ChargeRate(c.tax)
               \/ ~d.sourced \/ d.offset \notin -1439..1439, "InvalidDayTradeTax"),
        If(\E d \in c.dayTrade : ChargeProblem(d.charge, "InvalidTax") # None, "InvalidTax"),
        If(\E d \in c.dayTrade : d.required /\ ~(dates \subseteq d.eligible),
           "MissingDayTradeEligibility")>>)

ChargesProblem(sim, universe, dates) ==
    FirstProblem(<<
        If(~NoDuplicates(sim.charges, InstrumentOf), "DuplicateInstrumentCharges"),
        OfEach(sim.charges, LAMBDA c :
            FirstProblem(<<If(c.instrument \notin universe, "ChargesOutsideUniverse"),
                           ChargeProblem(c.fee, "InvalidFee"),
                           ChargeProblem(c.tax, "InvalidTax"),
                           DayTradeProblem(c, dates)>>))>>)

-----------------------------------------------------------------------------
(* The strategy registry.                                                  *)

\* parse_strategy_parameters: a number that is no integer, a list and a
\* mapping are refused before the schema is known.
RawParametersProblem(raw) ==
    If(\E f \in DOMAIN raw : raw[f].type \notin {"bool", "integer", "numeral", "text"},
       "strategy.parameters")

\* parse_value: an unsigned integer is signed too, and a decimal is written
\* as text, a numeral.
ParsesAs(type, raw) ==
    CASE type = "unsigned" -> raw.type = "integer" /\ raw.value >= 0
      [] type = "signed"   -> raw.type = "integer"
      [] type = "decimal"  -> raw.type = "numeral"
      [] type = "text"     -> raw.type \in {"numeral", "text"}
      [] OTHER             -> raw.type = type

\* valid_range; a bound is a pair of its kind and its value.  Two excluded
\* bounds with nothing between them are accepted.
ValidRange(range) ==
    LET kinds == {range.minimum[1], range.maximum[1]}
    IN  \/ "unbounded" \in kinds
        \/ range.minimum[2] < range.maximum[2]
        \/ kinds = {"included"} /\ range.minimum[2] = range.maximum[2]

\* range_contains
RangeContains(range, v) ==
    /\ \/ range.minimum[1] = "unbounded" \/ range.minimum[2] < v
       \/ range.minimum = <<"included", v>>
    /\ \/ range.maximum[1] = "unbounded" \/ v < range.maximum[2]
       \/ range.maximum = <<"included", v>>

\* validate_range: a bool and a text have no range.
InRange(f, v) == f.type \in {"bool", "text"} \/ RangeContains(f.range, v)

\* validate_value_type
IsOfFieldType(f, value) == value.type = f.type

\* validate_field: a default is of the field's type and range, and makes the
\* field optional.
FieldAccepted(f) ==
    /\ f.required => f.default = {}
    /\ f.type \in {"bool", "text"} \/ ValidRange(f.range)
    /\ \A d \in f.default : IsOfFieldType(f, d) /\ InRange(f, d.value)

\* StrategyParameterSchema::new; a factory is registered with such a schema.
SchemaAccepted(schema) == \A f \in DOMAIN schema : FieldAccepted(schema[f])
ASSUME RegistryAssumption == \A key \in DOMAIN Registry : SchemaAccepted(Registry[key].schema)

\* StrategyParameterSchema::validate
ParameterProblem(schema, raw) ==
    LET given == DOMAIN schema \cap DOMAIN raw
    IN  FirstProblem(<<
            If(~(DOMAIN raw \subseteq DOMAIN schema), "UnknownParameter"),
            If(\E f \in DOMAIN schema \ DOMAIN raw : schema[f].required, "MissingParameter"),
            If(\E f \in given : ~ParsesAs(schema[f].type, raw[f]), "WrongParameterType"),
            If(\E f \in given : ~InRange(schema[f], raw[f].value), "ParameterOutOfRange")>>)

\* ValidatedStrategyParameters: every field that is given or has a default.
MaterializedParameters(schema, raw) ==
    [f \in DOMAIN raw \cup {g \in DOMAIN schema : schema[g].default # {}} |->
        IF f \in DOMAIN raw THEN [type |-> schema[f].type, value |-> raw[f].value]
        ELSE CHOOSE d \in schema[f].default : TRUE]

\* StrategyRegistry::resolve; `breaks` names the part of its contract that a
\* factory does not keep.
StrategyProblem(strategy) ==
    LET key == <<strategy.id, strategy.version>>
    IN  IF key \notin DOMAIN Registry
        THEN IF \E k \in DOMAIN Registry : k[1] = strategy.id
             THEN "VersionMismatch" ELSE "UnknownStrategy"
        ELSE FirstProblem(<<ParameterProblem(Registry[key].schema, strategy.parameters),
                            If(Registry[key].breaks # None, "FactoryContractMismatch")>>)

-----------------------------------------------------------------------------
(* The file.                                                               *)

\* reject_secrets: a word of the file that could be a credential.
SecretsProblem(c) == If(c.secret, "SecretField")

\* validate_strategy_reference: the file that is named is the one whose
\* checksum is given.
StrategyReferenceProblem(references) ==
    FirstProblem(<<
        If(\E r \in references : r.version # 1 \/ r.path = "", "strategy_reference"),
        If(\E r \in references : r.checksum # r.file, "strategy_reference.checksum")>>)

\* parse_economics
ParseEconomicsProblem(e) ==
    If(e.unit \notin {"share", "trading_unit", "contract"}, "instrument_economics.quantity_unit")

Universe(c) == {s.instrument : s \in Members(c.instruments)}

\* load and resolve
LoadProblem(c) ==
    FirstProblem(<<
        SecretsProblem(c),
        If(c.version # 3, "UnsupportedVersion"),
        StrategyReferenceProblem(c.reference),
        If(c.cachePolicy # "reuse_or_rebuild", "data.cache_policy"),
        If(c.dates = <<>>, "universe.trading_dates"),
        If(c.instruments = <<>>, "universe.instruments"),
        OfEach(c.instruments, SelectionProblem),
        If(~NoDuplicates(c.instruments, InstrumentOf), "universe.instruments"),
        OfEach(c.economics, ParseEconomicsProblem),
        If(\E e \in Members(c.economics) : e.instrument \notin Universe(c), "instrument_economics"),
        ReferenceEconomicsProblem(c.instruments, c.economics),
        RawParametersProblem(c.strategy.parameters),
        StrategyProblem(c.strategy),
        ParseSimulationProblem(c.simulation)>>)

\* validate_instrument_contracts: the planner checks the contracts again.
ContractsProblem(selections) ==
    OfEach(selections, LAMBDA s :
        If(\/ ~SupportsContract(ProfileOf(s), s.market, s.class, s.shape)
           \/ ~ShapeMatchesClass(s.class, s.shape)
           \/ s.class \in {"warrant", "option"} /\ s.reference = {}
           \/ \E r \in s.reference : ~ReferenceIsValid(r), "InvalidInstrumentContract"))

\* validate_reference_economics of the planner, after validate_economics
ContractEconomicsProblem(c) ==
    If(\E s \in Members(c.instruments), e \in Members(c.economics) :
           /\ e.instrument = s.instrument
           /\ \E r \in s.reference :
                 <<e.unit, e.units, e.multiplier>> # <<r.unit, r.units, r.multiplier>>,
       "InvalidInstrumentContract")

\* EffectiveRunConfig::resolve
ResolveProblem(c) ==
    FirstProblem(<<
        If(c.dataRoot = "", "EmptyDataRoot"),
        ContractsProblem(c.instruments),
        If((c.sourcePolicy = "explicit_degraded") # (c.replayPolicy = "explicit_degraded"),
           "DegradedPolicyMismatch"),
        SimulationProblem(c.simulation),
        ChargesProblem(c.simulation, Universe(c), Members(c.dates)),
        EconomicsProblem(c.economics, Universe(c)),
        ContractEconomicsProblem(c)>>)

\* config check stops here; a command that plans goes on.
ConfigProblem(c) ==
    IF LoadProblem(c) # None THEN LoadProblem(c) ELSE ResolveProblem(c)

\* The entries of a list in the order of their instruments.
InOrder(s) ==
    LET instruments == SetToSeq({r.instrument : r \in Members(s)})
    IN  [n \in DOMAIN instruments |-> CHOOSE r \in Members(s) : r.instrument = instruments[n]]

\* The values the strategy is made with, defaults filled in.
Parameters(c) ==
    MaterializedParameters(Registry[<<c.strategy.id, c.strategy.version>>].schema,
                           c.strategy.parameters)

\* InstrumentContractConfig::price_policy
PricePolicy(s) == IF s.shape = "calendar_spread" THEN "signed" ELSE "positive"

\* materialize_partition: one partition for each instrument and date, with
\* the sessions that were selected for the instrument.
Partitions(c) ==
    {[instrument |-> s.instrument, market |-> s.market, class |-> s.class, shape |-> s.shape,
      date |-> d, profile |-> ProfileOf(s), kinds |-> Members(s.kinds)] :
        s \in Members(c.instruments), d \in Members(c.dates)}

\* validate_partition and validate_session_plan: a partition is one the file
\* asks for, and its windows are of the sessions in its key.
PartitionOutside(c, p) ==
    \/ p.instrument \notin Universe(c) \/ p.date \notin Members(c.dates)
    \/ ~(p.kinds \subseteq UNION {Members(s.kinds) : s \in Members(c.instruments)})
SessionPlanMismatch(p) ==
    LET windows == SessionWindows(p.profile, p.date, p.kinds)
    IN  \/ [n \in DOMAIN windows |-> windows[n].kind] # SessionOrder(p.kinds)
        \/ \E w \in Members(windows) : w.date # p.date

\* ExecutionPlan::new: one partition for each instrument and date.
ExecutionPlanProblem(c) ==
    FirstProblem(<<
        If(Partitions(c) = {}, "EmptyPartitions"),
        If(\E p \in Partitions(c) : SessionPlanMismatch(p), "SessionPlanMismatch"),
        If(\E p \in Partitions(c) : PartitionOutside(c, p), "PartitionOutsideConfig"),
        If(\E p, q \in Partitions(c) : p # q /\ p.instrument = q.instrument /\ p.date = q.date,
           "DuplicateLogicalPartition"),
        If(Universe(c) \X Members(c.dates) # {<<p.instrument, p.date>> : p \in Partitions(c)},
           "MissingRequestedPartition")>>)

\* plan: the session plan of every partition is built before anything is read.
PlanProblem(c) ==
    LET problems == {SessionPlanError(p.profile, p.date, p.kinds) : p \in Partitions(c)} \ {None}
    IN  IF problems = {} THEN ExecutionPlanProblem(c) ELSE CHOOSE p \in problems : TRUE

-----------------------------------------------------------------------------
(* The identity of a plan: the text its checksum is taken of, token by     *)
(* token.  A list begins with its length, an option with a mark.           *)
EncodeList(s, Encode(_)) == <<ToString(Len(s))>> \o FlattenSeq([n \in DOMAIN s |-> Encode(s[n])])
EncodeOption(s, Encode(_)) ==
    IF s = {} THEN <<"0">> ELSE <<"1">> \o Encode(CHOOSE x \in s : TRUE)
EncodeToken(v) == <<ToString(v)>>
EncodeInstrument(i) == <<i[1], ToString(i[2])>>

\* append_charge
EncodeCharge(c) ==
    <<ChargeBasis(c), ToString(ChargeRate(c)), ToString(c.sides), ToString(ChargeMinimum(c)),
      ToString(c.precision), ToString(c.sourced)>>

\* append_simulation
EncodeDayTrade(d) ==
    EncodeCharge(d.charge) \o <<ToString(d.offset)>>
        \o EncodeList(SetToSortSeq(d.eligible, <), EncodeToken)
        \o <<ToString(d.required), ToString(d.through), ToString(d.sourced)>>
EncodeCharges(c) ==
    EncodeInstrument(c.instrument) \o EncodeCharge(c.fee) \o EncodeCharge(c.tax)
        \o EncodeOption(c.dayTrade, EncodeDayTrade)
EncodeScheduled(s) == <<ToString(s.depth), ToString(s.stale)>>

\* Seeded fault: the charges of an instrument are not part of the identity.
EncodeWithoutCharges(sim) ==
    <<sim.evidence, sim.quantity>>
        \o <<ToString(sim.marketDataLatency), ToString(sim.orderLatency), ToString(sim.delta)>>
        \o EncodeCharge(sim.fee) \o EncodeCharge(sim.tax) \o <<sim.policy>>
        \o EncodeOption(sim.scheduled, EncodeScheduled)
        \o <<ToString(sim.cash), ToString(sim.midpoint)>>

EncodeSimulation(sim) ==
    <<sim.evidence, sim.quantity>>
        \o <<ToString(sim.marketDataLatency), ToString(sim.orderLatency), ToString(sim.delta)>>
        \o EncodeCharge(sim.fee) \o EncodeCharge(sim.tax) \o <<sim.policy>>
        \o EncodeOption(sim.scheduled, EncodeScheduled)
        \o EncodeList(InOrder(sim.charges), EncodeCharges)
        \o <<ToString(sim.cash), ToString(sim.midpoint)>>

\* encode_parameters: the names, the types and the values of the parameters.
EncodeParameters(parameters) ==
    EncodeList(SetToSeq(DOMAIN parameters),
               LAMBDA f : <<ToString(f), parameters[f].type, ToString(parameters[f].value)>>)

\* append_instrument_contract and append_economics
EncodeReference(r) ==
    <<ToString(r.strike), ToString(r.multiplier), r.unit, ToString(r.units), ToString(r.sourced)>>
EncodeContract(s) ==
    EncodeInstrument(s.instrument) \o <<s.class, s.shape, ProfileOf(s), PricePolicy(s)>>
        \o EncodeOption(s.reference, EncodeReference)
EncodeEconomics(e) ==
    EncodeInstrument(e.instrument)
        \o <<e.unit, ToString(e.units), ToString(e.multiplier), ToString(e.sourced)>>

\* encode_semantics: neither the data root nor the order of the file's lists.
EncodeSemantics(c) ==
    EncodeList(SetToSortSeq(Members(c.dates), <), EncodeToken)
        \o EncodeList(InOrder(c.instruments), EncodeContract)
        \o EncodeList(SetToSeq(UNION {Members(s.kinds) : s \in Members(c.instruments)}), EncodeToken)
        \o <<c.strategy.id, ToString(c.strategy.version)>> \o EncodeParameters(Parameters(c))
        \o <<c.sourcePolicy, c.replayPolicy>>
        \o EncodeSimulation(c.simulation)
        \o EncodeList(InOrder(c.economics), EncodeEconomics)

\* canonical_bytes: the windows, not only the names, of the sessions.
EncodeWindow(w) ==
    <<ToString(w.kind), ToString(w.open), ToString(w.close), ToString(w.start), ToString(w.end)>>
EncodeSessionPlan(p) ==
    EncodeInstrument(p.instrument) \o <<ToString(p.date), p.profile>>
        \o EncodeList(SessionWindows(p.profile, p.date, p.kinds), EncodeWindow)

\* ExecutionPlan::encode over equal data: the configuration and the key of
\* every partition, which holds the identity of its session plan.
EncodePartition(p) ==
    EncodeInstrument(p.instrument)
        \o <<ToString(p.date)>> \o EncodeList(SessionOrder(p.kinds), EncodeToken)
        \o EncodeSessionPlan(p)
PlanIdentity(c) == EncodeSemantics(c) \o EncodeList(SetToSeq(Partitions(c)), EncodePartition)
=============================================================================
