--------------------------- MODULE ProcessControl ---------------------------
(***************************************************************************)
(* What the daemon promises about a managed process, with none of the      *)
(* machinery: an id is down, pending, up or stopping, and it is wanted or  *)
(* not.  It comes up only while it is wanted, the children of one id never *)
(* overlap, and a process being stopped only goes down.  Several ids may   *)
(* move in one step (a batch start, a stop of a linked group).             *)
(***************************************************************************)
CONSTANT Procs

VARIABLES phase, wanted

Phases == {"down", "pending", "up", "stopping"}

Init ==
  /\ phase = [p \in Procs |-> "down"]
  /\ wanted = [p \in Procs |-> FALSE]

Stays(p) == phase'[p] = phase[p] /\ wanted'[p] = wanted[p]

\* A request to run, for now (a restart in its delay, a queued start).
Ask(p) == phase[p] = "down" /\ phase'[p] = "down" /\ wanted'[p] = TRUE

\* A start: at once, or by way of something it has to wait for.
Launch(p) ==
  /\ phase[p] \in {"down", "pending"}
  /\ phase'[p] \in {"pending", "up"}
  /\ wanted'[p] = TRUE

\* A start gives up or fails: the request stands, nothing runs.
GiveUp(p) == phase[p] = "pending" /\ phase'[p] = "down" /\ wanted'[p] = wanted[p]

\* A request to stop: a pending start is cancelled, a child is signalled.
Halt(p) ==
  /\ wanted'[p] = FALSE
  /\ phase'[p] = IF phase[p] \in {"up", "stopping"} THEN "stopping" ELSE "down"

\* A request to stop a child that never got a process, or a discarded entry.
Drop(p) == wanted'[p] = FALSE /\ phase'[p] = "down"

\* The child of the id is gone.
End(p) == phase[p] \in {"up", "stopping"} /\ phase'[p] = "down" /\ wanted'[p] = wanted[p]

Next ==
  \A p \in Procs :
    Stays(p) \/ Ask(p) \/ Launch(p) \/ GiveUp(p) \/ Halt(p) \/ Drop(p) \/ End(p)

Spec == Init /\ [][Next]_<<phase, wanted>>
=============================================================================
