------------------------------- MODULE Watchdog -------------------------------
(* The tray's watchdog (misc/tray-host-native/src/tray/watchdog.rs and health.rs): a timer  *)
(* probes the daemon, and one verdict per tick keeps, waits for, stands down from or        *)
(* revives it. Instants are kept as ages in health intervals, each aged up to the limit it  *)
(* is compared with; a tick may come late, because the thread that takes it also revives.   *)
EXTENDS Integers, FiniteSets

CONSTANTS
    ReviveAfterMisses,  \* misses in a row before a silent daemon counts as dead
    BusyPatience,       \* how long a silent daemon that still holds its port is left alone
    ReviveGrace,        \* how long a revived daemon has to bind
    CrashLoopWindow,    \* so many revives ...
    CrashLoopMax,       \* ... inside this window pause the watchdog
    MaxLate             \* the longest time between two ticks

ASSUME WatchdogConstants ==
    {ReviveAfterMisses, BusyPatience, ReviveGrace, CrashLoopWindow, CrashLoopMax, MaxLate}
        \subseteq Nat \ {0}

VARIABLES
    w,          \* the Watchdog: misses, grace (left), paused, and the ages silent, healthy
                \* and revives (restart_times: two revives are at least a grace
                \* apart, so no two have one age)
    verdict,    \* what the last tick decided
    daemon,     \* "up" answers, "slow" is silent and holds its port, "down" is neither
    working,    \* a Restart or Rebuild from the menu is running (busy)
    started,    \* started_by_us: the daemon is this tray's
    recent      \* the ages of the revives since the last manual Restart

wdVars == <<w, verdict, daemon, working, started, recent>>

---------------------------------------------------------------------------------------
Never == -1
Older(age, dt, limit) ==
    IF age = Never THEN Never ELSE IF age + dt > limit THEN limit ELSE age + dt
GetOrInsert(age) == IF age = Never THEN 0 ELSE age
OlderAll(ages, dt) == {Older(age, dt, CrashLoopWindow) : age \in ages}
Inside(ages) == {age \in ages : age < CrashLoopWindow}

Aged(dt) ==
    [w EXCEPT !.silent = Older(@, dt, BusyPatience), !.healthy = Older(@, dt, CrashLoopWindow),
              !.grace = IF @ > dt THEN @ - dt ELSE 0, !.revives = OlderAll(@, dt)]

Rearm(dog) == [dog EXCEPT !.paused = FALSE, !.revives = {}]

\* What a tick does before it judges: an answer ends the silence, ...
\* What if: the health of before a death still counted after it, ...
HeardOnly(dt) == [Aged(dt) EXCEPT !.misses = 0, !.silent = Never, !.healthy = CrashLoopWindow]

Heard(dt) ==
    [Aged(dt) EXCEPT !.misses = 0, !.silent = Never, !.healthy = GetOrInsert(@)]
\* ... and a miss begins or lengthens one.
Missed(dt) ==
    [Aged(dt) EXCEPT !.silent = GetOrInsert(@),
                     !.misses = IF @ < ReviveAfterMisses THEN @ + 1 ELSE @]

\* Silent for long enough, and not just busy: the guards of a revive come next, in order.
Slow(dog) == daemon = "slow" /\ dog.silent < BusyPatience
Dead(dog) == dog.misses >= ReviveAfterMisses /\ ~Slow(dog)
Unhealthy(dog) == [dog EXCEPT !.healthy = Never]

Decide(dog, v) == w' = dog /\ verdict' = v

---------------------------------------------------------------------------------------
WdInit ==
    /\ w = [misses |-> 0, grace |-> 0, paused |-> FALSE, revives |-> {},
            silent |-> Never, healthy |-> Never]
    /\ verdict = "none" /\ daemon = "down" /\ working = FALSE
    /\ started \in BOOLEAN /\ recent = {}

\* What if: the daemon that answers never re-armed a pause.
AliveOnly(dt) ==
    daemon = "up" /\ Decide(Heard(dt), "alive") /\ UNCHANGED <<daemon, working, started>>

Alive(dt) ==
    /\ daemon = "up"
    /\ LET dog == Heard(dt)
       IN  IF dog.paused /\ dog.healthy >= CrashLoopWindow
           THEN Decide(Rearm(dog), "rearmed") ELSE Decide(dog, "alive")
    /\ UNCHANGED <<daemon, working, started>>

Hiccup(dt) ==
    /\ daemon # "up" /\ Missed(dt).misses < ReviveAfterMisses
    /\ Decide(Missed(dt), "hiccup")
    /\ UNCHANGED <<daemon, working, started>>

\* ... or each stand-down of a busy daemon began its patience again.
PatienceAgain(dt) ==
    /\ daemon # "up" /\ Missed(dt).misses >= ReviveAfterMisses /\ Slow(Missed(dt))
    /\ Decide([Missed(dt) EXCEPT !.silent = Never], "slow")
    /\ UNCHANGED <<daemon, working, started>>

BusyNotDead(dt) ==
    /\ daemon # "up" /\ Missed(dt).misses >= ReviveAfterMisses /\ Slow(Missed(dt))
    /\ Decide(Missed(dt), "slow")
    /\ UNCHANGED <<daemon, working, started>>

\* A worker owns the daemon, or another session does: the count begins again.
NotMine(dt) ==
    /\ daemon # "up" /\ Dead(Missed(dt)) /\ (working \/ ~started)
    /\ Decide([Unhealthy(Missed(dt)) EXCEPT !.misses = 0], IF working THEN "busy" ELSE "not ours")
    /\ UNCHANGED <<daemon, working, started>>

Wait(dt) ==
    /\ daemon # "up" /\ Dead(Missed(dt)) /\ ~working /\ started
    /\ LET dog == Unhealthy(Missed(dt))
       IN  \/ dog.grace > 0 /\ Decide(dog, "grace")
           \/ dog.grace = 0 /\ dog.paused /\ Decide(dog, "paused")
    /\ UNCHANGED <<daemon, working, started>>

\* The crash-loop guard, then the revive: what still holds the port is killed, and the
\* daemon is spawned only once nothing does.
Judge(dt) ==
    /\ daemon # "up" /\ Dead(Missed(dt)) /\ ~working /\ started
    /\ Missed(dt).grace = 0 /\ ~Missed(dt).paused
    /\ LET dog == [Unhealthy(Missed(dt)) EXCEPT !.revives = Inside(@)]
       IN  IF Cardinality(dog.revives) >= CrashLoopMax
           THEN Decide([dog EXCEPT !.paused = TRUE], "crash loop") /\ UNCHANGED daemon
           ELSE /\ Decide([dog EXCEPT !.revives = @ \cup {0}, !.grace = ReviveGrace,
                                      !.misses = 0, !.silent = Never], "revive")
                /\ daemon' \in {"down", daemon}
    /\ UNCHANGED <<working, started>>

\* One health tick, with what it reads of the world fixed, and the history it adds to.
Tick(dt) ==
    /\ Alive(dt) \/ Hiccup(dt) \/ BusyNotDead(dt) \/ NotMine(dt) \/ Wait(dt) \/ Judge(dt)
    /\ recent' = Inside(OlderAll(recent, dt)) \cup (IF verdict' = "revive" THEN {0} ELSE {})

\* A manual Restart is the operator saying "try again" and takes the daemon down; at its
\* end the daemon is this tray's.
ManualRestart ==
    /\ ~working /\ working' = TRUE
    /\ w' = Rearm(w) /\ recent' = {} /\ daemon' \in {"down", daemon}
    /\ UNCHANGED <<verdict, started>>

WorkerEnds ==
    /\ working /\ working' = FALSE /\ started' \in {started, TRUE}
    /\ UNCHANGED <<w, verdict, daemon, recent>>

\* The daemon binds, freezes, thaws or dies on its own.
DaemonTurns ==
    /\ daemon' \in {"up", "slow", "down"} \ {daemon}
    /\ UNCHANGED <<w, verdict, working, started, recent>>

---------------------------------------------------------------------------------------
WdNext ==
    \/ \E dt \in 1 .. MaxLate : Tick(dt)
    \/ ManualRestart \/ WorkerEnds \/ DaemonTurns

WdFairness == WF_wdVars(\E dt \in 1 .. MaxLate : Tick(dt)) /\ WF_wdVars(WorkerEnds)
WdSpec == WdInit /\ [][WdNext]_wdVars /\ WdFairness

---------------------------------------------------------------------------------------
Ages(limit) == {Never} \cup 0 .. limit
\* What each piece of state holds.
WdTypeOK ==
    /\ w \in [misses : 0 .. ReviveAfterMisses, grace : 0 .. ReviveGrace, paused : BOOLEAN,
              revives : SUBSET (0 .. CrashLoopWindow),
              silent : Ages(BusyPatience), healthy : Ages(CrashLoopWindow)]
    /\ daemon \in {"up", "slow", "down"} /\ working \in BOOLEAN /\ started \in BOOLEAN
    /\ recent \subseteq 0 .. CrashLoopWindow

\* Between two manual Restarts no crash-loop window ever holds more than CrashLoopMax
\* revives, although a daemon that stays up clears the watchdog's record of them: however
\* deaths, answers, freezes and late ticks alternate, the clearing never lets a loop go on.
BreakerTrips == Cardinality(Inside(recent)) <= CrashLoopMax

\* A silence comes to an end: the daemon answers, is revived, is given up by the crash-loop
\* guard, or belongs to a worker or another session. No mixture of hiccups, freezes and
\* graces keeps a dead daemon waiting for ever; and a pause does not outlive its crash loop.
WatchdogActs ==
    /\ daemon # "up" ~> (\/ daemon = "up" \/ working \/ ~started
                         \/ verdict \in {"revive", "crash loop", "paused"})
    /\ <>[](daemon = "up") => <>[](~w.paused)
================================================================================
