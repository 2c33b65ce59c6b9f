------------------------------ MODULE MCServices ------------------------------
(* What the daemon does beside its processes, in one run: the questions to the tabs of a   *)
(* dev app, the watch of a project's file, the alert rules, the logs, the view a GUI has   *)
(* of all of it, and the scan for projects. They share no state but the registry of        *)
(* processes, which each takes as an input, so each behaviour is one part's.               *)
EXTENDS BrowserBridge, ProjectWatch, Monitoring, LiveView, Scanner

CONSTANTS t1, t2, t3, q1, p1, asA, asB, without, broken, A, B, a1, u1, e1, c1, c2
VARIABLE part

Definitions ==
  [t \in Valid |-> [p \in Procs |-> IF t = asA THEN A ELSE IF t = asB THEN B ELSE NoDef]]

\* Two roots, b below r. From r the walk goes down to a, with two files, if r can be read; c below
\* it lies too deep. A request for two cannot have all there is.
Folder == {"r", "a", "b", "c"}
Below == [d \in Folder |-> CASE d = "r" -> {"a", "b"} [] d = "a" -> {"c"} [] OTHER -> {}]
DevwebuiFiles == [d \in Folder |-> CASE d = "a" -> 2 [] d = "c" -> 1 [] OTHER -> 0]

\* The parts that do not run begin in one way only.
Init ==
    /\ part \in {"ask", "watch", "alerts", "logs", "view", "scan"}
    /\ BridgeInit /\ WatchInit /\ AlInit /\ LvInit /\ LwInit /\ ScanInit
    /\ part # "watch" => disk = asA
    /\ part # "alerts" => rules = None

Next ==
    /\ UNCHANGED part
    /\ \/ /\ part = "ask" /\ BridgeNext
          /\ UNCHANGED <<allVars, alVars, lvVars, lwVars, scanVars>>
       \/ /\ part = "watch" /\ WatchNext
          /\ UNCHANGED <<bridgeVars, alVars, lvVars, lwVars, scanVars>>
       \/ /\ part = "alerts" /\ AlNext
          /\ UNCHANGED <<bridgeVars, allVars, lvVars, lwVars, scanVars>>
       \/ /\ part = "logs" /\ LvNext
          /\ UNCHANGED <<bridgeVars, allVars, alVars, lwVars, scanVars>>
       \/ /\ part = "view" /\ LwNext
          /\ UNCHANGED <<bridgeVars, allVars, alVars, lvVars, scanVars>>
       \/ /\ part = "scan" /\ ScanNext
          /\ UNCHANGED <<bridgeVars, allVars, alVars, lvVars, lwVars>>

Spec ==
    /\ Init /\ [][Next]_<<part, bridgeVars, allVars, alVars, lvVars, lwVars, scanVars>>
    /\ \A r \in Reqs : WF_bridgeVars(part = "ask" /\ TimesOut(r))
    /\ WF_allVars(part = "watch" /\ HandlerGoesOn)
    /\ SF_allVars(part = "watch" /\ PollReads) /\ SF_allVars(part = "watch" /\ ReadRaw)
    /\ \A w \in 1 .. MaxWalks :
           /\ WF_scanVars(part = "scan" /\ w \in DOMAIN walks /\ Begin(w))
           /\ WF_scanVars(part = "scan" /\ w \in DOMAIN walks /\ Watchdog(w))

\* The type invariants of the parts.
ServicesTypeOK ==
    BridgeTypeOK /\ WatchTypeOK /\ AlTypeOK /\ LvTypeOK /\ LwTypeOK /\ ScanTypeOK

\* Whoever asks is answered: a caller that asked the tabs of an app, and one that asked for a
\* scan. The timers see to it, whatever a tab or a read of the disk does.
EveryAskEnds == EveryRequestSettles /\ EveryScanSettles

\* What is reported is what happened: the lines of a log are in their order and the results of a
\* scan complete; and a page with nothing on its way shows what the daemon has, but for a field
\* that a late refresh, a repeated payload or a failed removal left behind (StreamCatchesUp and
\* FailedDismissResurfaces are about those).
ReportsAreTrue == LinesStayInOrder /\ ViewIsCurrent /\ ScansAreTrue
================================================================================
