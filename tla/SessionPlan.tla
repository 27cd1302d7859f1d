----------------------------- MODULE SessionPlan -----------------------------
(***************************************************************************)
(* The exchange calendar and the session windows of one instrument on one  *)
(* trading date: crates/run-planner/src/session.rs.  Operators only.       *)
(*                                                                         *)
(* Time is minutes since the day numbered 0, in Taipei time; a trading     *)
(* date is the number of a day.  Day 0 is the epoch day, a Thursday.       *)
(***************************************************************************)
EXTENDS Integers, Sequences, FiniteSets

MinutesPerDay == 1440
At(date, hour, minute) == date * MinutesPerDay + hour * 60 + minute

\* REPLAY_MARGIN_MICROSECONDS
ReplayMargin == 5

Regular    == "regular"
AfterHours == "after_hours"
Absent     == "absent"      \* an Option that is None

\* is_weekend
IsWeekend(date) == (date + 4) % 7 \in {0, 6}

\* Seeded fault: the day before is taken for the business day before.
DayBefore(date) == date - 1

\* previous_business_date: step back until the day is not on a weekend.
PreviousBusinessDate(date) ==
    CHOOSE p \in (date - 3)..(date - 1) :
        ~IsWeekend(p) /\ \A q \in (p + 1)..(date - 1) : IsWeekend(q)

\* SessionProfileId::supports_contract
SupportsContract(profile, market, class, shape) ==
    \/ /\ <<profile, market>> \in {<<"twse_regular", "twse">>, <<"tpex_regular", "tpex">>}
       /\ class \in {"equity", "warrant"} /\ shape = Absent
    \/ /\ profile \in {"taifex_index_futures", "taifex_stock_futures",
                       "taifex_stock_futures_regular_only"}
       /\ market = "taifex" /\ class = "future" /\ shape = "outright"
    \/ /\ profile = "taifex_calendar_spread_regular_only"
       /\ market = "taifex" /\ class = "future" /\ shape = "calendar_spread"
    \/ /\ profile = "taifex_index_options"
       /\ market = "taifex" /\ class = "option" /\ shape = Absent

\* SessionProfileId::for_instrument_class: a future names its profile itself.
ForInstrumentClass(market, class) ==
    CASE market = "twse" /\ class \in {"equity", "warrant"} -> "twse_regular"
      [] market = "tpex" /\ class \in {"equity", "warrant"} -> "tpex_regular"
      [] market = "taifex" /\ class = "option" -> "taifex_index_options"
      [] OTHER -> Absent

HasAfterHours == {"taifex_index_futures", "taifex_stock_futures", "taifex_index_options"}

\* SessionProfileId::allows
Allows(profile, kind) == kind = Regular \/ profile \in HasAfterHours

\* build_window: the hours of the session and the margin replayed around it.
BuildWindow(profile, kind, date) ==
    LET equity == profile \in {"twse_regular", "tpex_regular"}
        evening == PreviousBusinessDate(date)
        open == CASE kind = Regular /\ equity -> At(date, 9, 0)
                  [] kind = Regular /\ ~equity -> At(date, 8, 45)
                  [] profile = "taifex_stock_futures" -> At(evening, 17, 25)
                  [] OTHER -> At(evening, 15, 0)
        close == CASE kind = Regular /\ equity -> At(date, 13, 30)
                   [] kind = Regular /\ ~equity -> At(date, 13, 45)
                   [] OTHER -> At(date, 5, 0)
    IN  [kind |-> kind, date |-> date, open |-> open, close |-> close,
         start |-> open - ReplayMargin, end |-> close + ReplayMargin]

\* SessionPlan::with_profile: the refusal, if any, ...
SessionPlanError(profile, date, kinds) ==
    IF IsWeekend(date) THEN "NonBusinessTradingDate"
    ELSE IF kinds = {} THEN "EmptySessions"
    ELSE IF \E k \in kinds : ~Allows(profile, k) THEN "SessionNotSupported"
    ELSE "none"

\* ... and the windows, in the order of the session kinds.
SessionOrder(kinds) == SelectSeq(<<Regular, AfterHours>>, LAMBDA k : k \in kinds)
SessionWindows(profile, date, kinds) ==
    LET ordered == SessionOrder(kinds)
    IN  [n \in DOMAIN ordered |-> BuildWindow(profile, ordered[n], date)]
=============================================================================
