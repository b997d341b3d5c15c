----------------------------- MODULE IncidentLog -----------------------------
(***************************************************************************)
(* What incident tracking promises, stated without IDs, statuses, clocks   *)
(* or tables.  For every occurrence key (a root cause on a device) there   *)
(* is a log of occurrences, oldest first.  An occurrence is nothing but    *)
(* the sequence of verdicts people gave on it, so it is open exactly while *)
(* that sequence is empty.  A fault that recurs starts a new occurrence    *)
(* only when no earlier one is still open, and nothing is ever erased.     *)
(*                                                                         *)
(* This is the package comment of internal/incidents/incidents.go as a     *)
(* specification; IncidentStore is shown to implement it.                  *)
(***************************************************************************)
EXTENDS Naturals, Sequences

CONSTANTS
    Keys,       \* occurrence keys
    Verdicts    \* what a decision can say of an occurrence

VARIABLE log    \* key -> occurrences, oldest first

Open(k, n) == log[k][n] = <<>>

Init == log = [k \in Keys |-> <<>>]

\* The fault behind key k is reported again and gets an occurrence of its own.
Recur(k) ==
    /\ \A n \in 1..Len(log[k]) : ~Open(k, n)
    /\ log' = [log EXCEPT ![k] = Append(@, <<>>)]

\* Somebody gives verdict v on the n-th occurrence of k, open or not.
Judge(k, n, v) ==
    log' = [log EXCEPT ![k] = [@ EXCEPT ![n] = Append(log[k][n], v)]]

Next ==
    \E k \in Keys :
        \/ Recur(k)
        \/ \E n \in 1..Len(log[k]), v \in Verdicts : Judge(k, n, v)

Spec == Init /\ [][Next]_log

=============================================================================
