------------------------------ MODULE AutoUpdate ------------------------------
(* The daemon's update timer (server/src/auto-update.ts): one self-rescheduling timeout,  *)
(* re-armed by its own tick, by both switches and by a new cadence; a tick checks and,    *)
(* when the owner wants silent installs, applies and relaunches. The route that applies   *)
(* an update at a click (http/core.ts) runs beside it.                                    *)
EXTENDS Integers

CONSTANT MaxPasses   \* how many calls of runAutoUpdateOnce may be in flight

Passes == 1 .. MaxPasses
ASSUME AutoUpdateConstants == MaxPasses \in Nat \ {0}

VARIABLES
    loop,       \* enabled, notify, started, ticking; timer: the handle is set; live: armed timeouts
    applying,   \* an apply of a pass is in flight
    pass,       \* where each pass is
    clicked     \* where the apply a click started is

auVars == <<loop, applying, pass, clicked>>

---------------------------------------------------------------------------------------
\* setTimeout and clearTimeout: a handle that is overwritten stays armed.
Schedule(l) == [l EXCEPT !.timer = TRUE, !.live = @ + 1]
\* What if: a timer were forgotten without being cleared.
ForgetTimer(l) == [l EXCEPT !.timer = FALSE]

ClearTimer(l) == IF l.timer THEN [l EXCEPT !.timer = FALSE, !.live = @ - 1] ELSE l

Wanted(l) == l.enabled \/ l.notify

Reconcile(l) ==
    IF ~l.started THEN l
    ELSE IF Wanted(l) /\ ~l.timer /\ ~l.ticking THEN Schedule(l)
    ELSE IF ~Wanted(l) THEN ClearTimer(l) ELSE l

\* What if: a new cadence did not ask whether a tick is under way, ...
RetimeAnyway(l) == IF l.started /\ Wanted(l) THEN Schedule(ClearTimer(l)) ELSE l

Retime(l) == IF l.started /\ Wanted(l) /\ ~l.ticking THEN Schedule(ClearTimer(l)) ELSE l

SetEnabled(l, on) == Reconcile([l EXCEPT !.enabled = on])
SetNotify(l, on) == Reconcile([l EXCEPT !.notify = on])

---------------------------------------------------------------------------------------
AuInit ==
    /\ loop \in [enabled : {FALSE}, notify : {TRUE}, started : {FALSE}, ticking : {FALSE},
                 timer : {FALSE}, live : {0}]
    /\ applying = FALSE /\ pass = [p \in Passes |-> "none"]
    /\ clicked = "none"

\* Boot and PUT /api/settings prime the three settings in this order.
PutSettings(enabled, notify) ==
    /\ loop' = SetNotify(Retime(SetEnabled(loop, enabled)), notify)
    /\ UNCHANGED <<applying, pass, clicked>>

\* startAutoUpdate, once the daemon has booted.
StartLoop ==
    /\ ~loop.started
    /\ loop' = Reconcile([loop EXCEPT !.started = TRUE])
    /\ UNCHANGED <<applying, pass, clicked>>

\* stopAutoUpdate, in the daemon's shutdown.
StopLoop ==
    /\ loop.started
    /\ loop' = ClearTimer([loop EXCEPT !.started = FALSE])
    /\ UNCHANGED <<applying, pass, clicked>>

\* A timeout fires: runTick forgets the handle and begins a pass, which waits for its check
\* unless an apply is in flight.
Fire(p) ==
    /\ loop.live > 0 /\ pass[p] = "none"
    /\ loop' = [loop EXCEPT !.live = @ - 1, !.timer = FALSE, !.ticking = TRUE]
    /\ pass' = [pass EXCEPT ![p] = IF applying THEN "over" ELSE "check"]
    /\ UNCHANGED <<applying, clicked>>

\* The check answers. What the owner wants is read now: no update, one that cannot be
\* applied or one only to announce ends the pass.
Answered(p, canApply) ==
    /\ pass[p] = "check"
    /\ IF canApply /\ loop.enabled
       THEN pass' = [pass EXCEPT ![p] = "apply"] /\ applying' = TRUE
       ELSE pass' = [pass EXCEPT ![p] = "over"] /\ UNCHANGED applying
    /\ UNCHANGED <<loop, clicked>>

\* applyAndRelaunch returns: the apply failed, or a successor is being launched.
Applied(p) ==
    /\ pass[p] = "apply"
    /\ pass' = [pass EXCEPT ![p] = "over"] /\ applying' = FALSE
    /\ UNCHANGED <<loop, clicked>>

\* ... or a tick that ends did not ask whether the loop was stopped meanwhile.
EndTickAlways(p) ==
    /\ pass[p] = "over"
    /\ pass' = [pass EXCEPT ![p] = "none"]
    /\ LET l == [loop EXCEPT !.ticking = FALSE]
       IN  loop' = IF Wanted(l) /\ ~l.timer THEN Schedule(l) ELSE l
    /\ UNCHANGED <<applying, clicked>>

\* The tick ends and, if the loop is still wanted, schedules the next one.
EndTick(p) ==
    /\ pass[p] = "over"
    /\ pass' = [pass EXCEPT ![p] = "none"]
    /\ LET l == [loop EXCEPT !.ticking = FALSE]
       IN  loop' = IF l.started /\ Wanted(l) /\ ~l.timer THEN Schedule(l) ELSE l
    /\ UNCHANGED <<applying, clicked>>

\* POST /api/updates/apply: no other apply is asked about, and nothing is relaunched.
Click == clicked = "none" /\ clicked' = "apply" /\ UNCHANGED <<loop, applying, pass>>
ClickEnds == clicked = "apply" /\ clicked' = "none" /\ UNCHANGED <<loop, applying, pass>>

---------------------------------------------------------------------------------------
AuNext ==
    \/ \E enabled, notify \in BOOLEAN : PutSettings(enabled, notify)
    \/ StartLoop \/ StopLoop \/ Click \/ ClickEnds
    \/ \E p \in Passes : Fire(p) \/ Applied(p) \/ EndTick(p)
    \/ \E p \in Passes, yes \in BOOLEAN : Answered(p, yes)

AuSpec == AuInit /\ [][AuNext]_auVars

---------------------------------------------------------------------------------------
\* What each piece of state holds.
AuTypeOK ==
    /\ loop \in [enabled : BOOLEAN, notify : BOOLEAN, started : BOOLEAN, ticking : BOOLEAN,
                 timer : BOOLEAN, live : 0 .. 1]
    /\ applying \in BOOLEAN /\ pass \in [Passes -> {"none", "check", "apply", "over"}]
    /\ clicked \in {"none", "apply"}

\* Whatever the order of ticks, toggles, cadence changes, stop and start, exactly one timeout
\* is armed while the loop is started, wanted and not in a tick, none otherwise, and the
\* handle names it: never two loops, never a loop that has silently died. Ticks never overlap,
\* and `applying` is exactly the pass that applies: the timer alone cannot run two applies.
LoopIsArmed ==
    /\ loop.live = IF loop.started /\ Wanted(loop) /\ ~loop.ticking THEN 1 ELSE 0
    /\ loop.timer = (loop.live = 1)
PassesDoNotOverlap ==
    /\ \A p, q \in Passes : pass[p] # "none" /\ pass[q] # "none" => p = q
    /\ applying = (\E p \in Passes : pass[p] = "apply")
    /\ loop.ticking = (\E p \in Passes : pass[p] # "none")
OneLoop == LoopIsArmed /\ PassesDoNotOverlap

\* auto-update.ts: "an apply is in flight -- never overlap checks/applies".
AppliesNeverOverlap == ~(applying /\ clicked = "apply")
================================================================================
