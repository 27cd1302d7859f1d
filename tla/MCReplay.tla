------------------------------ MODULE MCReplay ------------------------------
(* Small instances of the replay core.                                     *)
EXTENDS Replay

MCAcceptedKinds == (1 :> Kinds \ {"Book"}) @@ (2 :> {"Quote", "Status"})

NoneObserved == [purpose |-> NoObs, delayed |-> NoObs, disposal |-> NoObs, direction |-> NoObs]

\* An event with volume v; `bytes` are its identity, `fp` their fingerprint.
Ev(i, d, t, kind, format, seq, v, fp, bytes) ==
    [instrument |-> i, date |-> d, time |-> t, format |-> format, kind |-> kind,
     intermediate |-> TRUE, hasBook |-> TRUE, sequence |-> seq, fp |-> fp,
     bytes |-> bytes, trade |-> "none",
     volume |-> [observation |-> "set", value |-> v, unit |-> "TradingUnit"],
     signal |-> [observation |-> "none",
                 signal |-> [type |-> "Continuous", observation |-> NoneObserved]],
     observation |-> NoneObserved]

\* Instrument 1, first date: a trade batch and the final quote of one time, a
\* volume regression, colliding fingerprints and a record without a key.
Items11 == { Ev(1, 1, 1, "Quote", 1, 0, 2, 1, 1), Ev(1, 1, 1, "Trades", 1, 0, 2, 2, 2),
             Ev(1, 1, 2, "Quote", 1, 1, 2, 3, 3), Ev(1, 1, 2, "Quote", 1, 1, 3, 3, 4),
             Ev(1, 1, 2, "Quote", 2, 0, 1, 5, 5), Ev(1, 1, 2, "Book", 1, 0, 2, 6, 6) }
\* Instrument 1, second date: the volume starts again; a time of the first
\* date's window, one of none; and, because the core does not check that a
\* stream holds its binding's instrument, an earlier event of instrument 2.
NextDay == Ev(1, 2, 3, "Quote", 1, 0, 1, 7, 7)
TooSoon == Ev(1, 2, 2, "Quote", 1, 0, 1, 8, 8)
TooLate == Ev(1, 2, 5, "Quote", 1, 0, 1, 9, 9)
Foreign == Ev(2, 1, 1, "Quote", 1, 0, 1, 12, 12)
Streams12 == {<<>>, <<NextDay>>, <<TooSoon>>, <<NextDay, TooLate>>, <<NextDay, Foreign>>}
Items21 == { Ev(2, 1, 1, "Quote", 1, 0, 1, 10, 10), Ev(2, 1, 2, "Status", 1, 0, 2, 11, 11),
             ReadError }

Upto2(S) == {<<>>} \cup {<<a>> : a \in S} \cup {<<a, b>> : a, b \in S}
Binding(i, d, items) == [instrument |-> i, date |-> d, items |-> items]

\* Two instruments and two dates; and the plans that are refused.
MCPlans ==
    { <<Binding(2, 1, x), Binding(1, 1, y), Binding(1, 2, z)>> :
        x \in Upto2(Items21), y \in Upto2(Items11), z \in Streams12 }
    \cup { <<>>, <<Binding(3, 1, <<>>)>>, <<Binding(2, 2, <<>>)>>,
           <<Binding(2, 1, <<>>), Binding(2, 1, <<>>)>> }

Context(d, segment) ==
    [date |-> d, segment |-> segment, policy |-> "Reset", version |-> PolicyVersion]
MCInitialDate == [i \in Universe |-> 1]
MCDefaultContext == [i \in Universe |-> Context(1, "regular")]
MCWindows == 1 :> { [start |-> 1, end |-> 3, context |-> Context(1, "regular")],
                    [start |-> 3, end |-> 5, context |-> Context(2, "regular")] }
=============================================================================
