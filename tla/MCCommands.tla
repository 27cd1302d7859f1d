---------------------------- MODULE MCCommands ----------------------------
(***************************************************************************)
(* One symbol on one date, asked for with its regular session alone and    *)
(* with both sessions, and a second symbol.  Version "a" of the archive is *)
(* sound; "b" has other records on the first symbol's second page, repeats *)
(* a page, or a cursor if it began as "a", when both sessions are asked    *)
(* for, and answers ticks of another symbol for the second one.            *)
(***************************************************************************)
EXTENDS Commands

Day == [place |-> "X", sessions |-> 1]
Both == [place |-> "X", sessions |-> 2]

Other == [place |-> "Y", sessions |-> 1]

MCConfigs == {<<Day, Other>>, <<Both>>}
MCMappings == {"m1", "m2"}
MCVersions == {"a", "b"}

Page(of, items, next) == [of |-> of, items |-> items, next |-> next]

MCArchive(version, key, cursor) ==
  LET looping == version = "b" /\ key = Both
  IN  CASE key = Other -> Page(IF version = "a" THEN "Y" ELSE "X", <<"r0">>, 0)
        [] cursor = 0 \/ cursor = 2 -> Page("X", <<key, looping>>, 1)
        [] cursor = 1 /\ looping -> Page("X", <<"r2">>, 2)
        [] OTHER -> Page("X", <<version>>, 0)

MCDaily(version, key) == <<"daily", version>>
=============================================================================
