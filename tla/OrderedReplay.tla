--------------------------- MODULE OrderedReplay ----------------------------
(***************************************************************************)
(* What a replay promises, whatever streams its events come from: it       *)
(* commits events of the input one at a time, never one that sorts before  *)
(* an event already committed, and it completes only when every occurrence *)
(* of the input, duplicates included, was committed.  Otherwise it fails.  *)
(* One or the other happens: no replay runs for ever.                      *)
(***************************************************************************)
EXTENDS Naturals, Sequences, FiniteSets

CONSTANT Before(_, _)  \* the versioned order of events

VARIABLES
    input,   \* what to replay: the event of every occurrence, in no order
    log,     \* the events committed
    status   \* "running", "done" or "failed"

vars == <<input, log, status>>

Count(s, e) == Cardinality({n \in DOMAIN s : s[n] = e})

Init == log = <<>> /\ status = "running"

\* A step may commit the event and then fail, for instance in the callback.
Commit ==
    /\ status = "running"
    /\ \E n \in DOMAIN input :
          /\ Count(log, input[n]) < Count(input, input[n])
          /\ log' = Append(log, input[n])
          /\ log # <<>> => ~Before(input[n], log[Len(log)])
    /\ status' \in {"running", "failed"}
    /\ UNCHANGED input

Complete ==
    /\ status = "running"
    /\ \A n \in DOMAIN input : Count(log, input[n]) = Count(input, input[n])
    /\ status' = "done"
    /\ UNCHANGED <<input, log>>

Fail == status = "running" /\ status' = "failed" /\ UNCHANGED <<input, log>>

Next == Commit \/ Complete \/ Fail

SafeSpec == Init /\ [][Next]_vars
Spec == SafeSpec /\ <>(status # "running")
=============================================================================
