---------------------------- MODULE MCLifecycle ----------------------------
(* Small instances of Lifecycle: one process with every awaited step, and   *)
(* two that are linked, the one waiting on the other, for the start queue.  *)
(* With their compose stack the two run in MCComposeHolds.                  *)
EXTENDS Lifecycle

CONSTANTS p1, p2, c1, c2

Alone == [p \in Procs |-> NoProc]
P2WaitsOnP1 == [p \in Procs |-> IF p = p2 THEN p1 ELSE NoProc]
NoFriends == [p \in Procs |-> {}]
Linked == [p \in Procs |-> Procs \ {p}]

\* A bound of the run with two: a third call only while p2 has been left out.
Untouched(p) == p \in registered /\ p \notin queued /\ inc[p] = 0 /\ gen[p] = 0
Brief == calls' = calls \/ calls' <= 2 \/ Untouched(p2)'
LiveSpec == Init /\ [][Next /\ Brief]_vars /\ Fairness
=============================================================================
