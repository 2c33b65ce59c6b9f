------------------------------ MODULE MCHandover ------------------------------
(* What keeps exactly one daemon running, in one run: the daemon's own boot and handover,  *)
(* the tray that starts and stops daemons, and the policy of its watchdog. They share no   *)
(* state (TrayHost abstracts a boot to one step and a revive to any moment), so each       *)
(* behaviour is one part's.                                                                *)
EXTENDS Handover, TrayHost, Watchdog

VARIABLE part

\* The parts that do not run begin in one way only.
Init ==
    /\ part \in {"handover", "tray", "watchdog"} /\ HoInit /\ ThInit /\ WdInit
    /\ part # "tray" => ~ours
    /\ part # "watchdog" => ~started

Next ==
    \/ part = "handover" /\ HoNext /\ UNCHANGED <<part, thVars, wdVars>>
    \/ part = "tray"     /\ ThNext /\ UNCHANGED <<part, hoVars, wdVars>>
    \/ part = "watchdog" /\ WdNext /\ UNCHANGED <<part, hoVars, thVars>>

Spec ==
    /\ Init /\ [][Next]_<<part, hoVars, thVars, wdVars>>
    /\ \A r \in Runs : WF_hoVars(part = "handover" /\ Proceeds(r))
    /\ WF_wdVars(part = "watchdog" /\ \E dt \in 1 .. MaxLate : Tick(dt))
    /\ WF_wdVars(part = "watchdog" /\ WorkerEnds)

\* The type invariants of the three parts.
HandoverTypeOK == HoTypeOK /\ ThTypeOK /\ WdTypeOK

\* Whoever looks for the daemon finds the one that serves: clients by the pointer file, and the
\* tray, which reaches the newest one, whoever started it.
DaemonIsFound == PointerLeads /\ NewestIsReached

\* A daemon comes back: a relaunch leaves one that serves, and one that falls silent is revived
\* or given up (where the watchdog is the part that runs).
DaemonComesBack == RelaunchLeavesOne /\ (part = "watchdog" => WatchdogActs)
================================================================================
