--------------------------- MODULE MCComposeHolds ---------------------------
(* Small instances of ComposeHolds: one process, and two that share one     *)
(* stack, the one waiting on the other's port and both linked.              *)
EXTENDS ComposeHolds

CONSTANTS p1, p2, c1

Alone == [p \in Procs |-> NoProc]
\* A bound: every child dies by a signal, its exit code not mattering to a hold.
OneExitCode == \A x \in exits : x.code = "signal"

\* p2 waits on p1 and the two are linked.
P2WaitsOnP1 == [p \in Procs |-> IF p = p2 THEN p1 ELSE NoProc]
Linked == [p \in Procs |-> Procs \ {p}]
NoFriends == [p \in Procs |-> {}]
=============================================================================
