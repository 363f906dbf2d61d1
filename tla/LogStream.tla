----------------------------- MODULE LogStream -----------------------------
(***************************************************************************)
(* What the log ring promises a streaming reader, with no ring in sight:   *)
(* the log is one growing sequence, and a fetch hands the reader the lines *)
(* that follow its cursor, in order and unaltered.  Only lines that are    *)
(* more than Capacity lines old may be skipped, and they are counted.      *)
(***************************************************************************)
EXTENDS Integers, Sequences

CONSTANTS Capacity, Lines, Readers

VARIABLES log, cursor, received, dropped

vars == <<log, cursor, received, dropped>>

Init ==
    /\ log = <<>>
    /\ cursor = [r \in Readers |-> 0]
    /\ received = [r \in Readers |-> <<>>]
    /\ dropped = [r \in Readers |-> 0]

Publish(line) ==
    /\ log' = Append(log, line)
    /\ UNCHANGED <<cursor, received, dropped>>

\* How many of the lines after the reader's cursor are too old to be had.
Gap(r) == IF cursor[r] < Len(log) - Capacity THEN Len(log) - Capacity - cursor[r] ELSE 0

\* The reader gets the next n lines it can still have.
Fetch(r, n) ==
    LET first == cursor[r] + Gap(r)
    IN  /\ first + n <= Len(log)
        /\ cursor' = [cursor EXCEPT ![r] = first + n]
        /\ received' = [received EXCEPT ![r] =
              @ \o [i \in 1..n |-> [seq |-> first + i, text |-> log[first + i]]]]
        /\ dropped' = [dropped EXCEPT ![r] = @ + Gap(r)]
        /\ UNCHANGED log

Next ==
    \/ \E line \in Lines : Publish(line)
    \/ \E r \in Readers, n \in 0..Len(log) : Fetch(r, n)

Spec == Init /\ [][Next]_vars

=============================================================================
