------------------------------- MODULE TrayHost -------------------------------
(* The tray host and the daemons it starts (misc/tray-host-native/src: tray/worker.rs,      *)
(* quit.rs, health.rs, daemon/stop.rs, spawn.rs, death.rs, probe.rs). The window's thread   *)
(* takes clicks and ticks one at a time and blocks in Quit and in a revive; a Restart or    *)
(* Rebuild runs on a worker's thread beside it; one thread per child waits for it to end.   *)
(* Config as in misc/DevWebUI-Tray.json: a shutdown token, no restart retries.              *)
EXTENDS Integers, FiniteSets, FiniteSetsExt

CONSTANT MaxGen     \* how many daemons are ever started

Gens == 1 .. MaxGen
ASSUME TrayHostConstants == MaxGen \in Nat \ {0}

VARIABLES
    gen,        \* each daemon: "none" yet, "boot", "serve", "frozen" (silent, port held), "dead"
    port,       \* the port it bound, 1 the configured one, 0 none
    pointer,    \* the port runtime.json names, 0 when there is no file
    mine,       \* the daemons this tray spawned
    child,      \* CHILD_PID: the newest wrapper, 0 when it has ended
    watched,    \* wrappers whose watching thread has not cleared them yet
    worker,     \* what the worker's thread does next; url: the port its stop found
    busy, cancel, ours,
    request,    \* shutdown.request: the daemon wants the whole app down
    ui,         \* "run"; Quit: "ask", "reap", "force", "leave"; then "gone"
    raced       \* observed: Quit came when a worker was past its last look at `cancel`

thVars == <<gen, port, pointer, mine, child, watched, worker, busy, cancel, ours, request, ui,
            raced>>
thDaemons == <<gen, port, pointer>>
thTray == <<worker, busy, cancel, ours, ui, raced>>

---------------------------------------------------------------------------------------
Running(g) == gen[g] \in {"boot", "serve", "frozen"}
Unborn == {g \in Gens : gen[g] = "none"}
Owners(ports) == {g \in Gens : gen[g] \in {"serve", "frozen"} /\ port[g] \in ports}

\* The port of the daemon that answers: the one the pointer names, else the configured one.
Answers(p) == \E g \in Owners({p}) : gen[g] = "serve"
LiveUrl == IF Answers(pointer) THEN pointer ELSE IF Answers(1) THEN 1 ELSE 0

\* taskkill /T /F: no cleanup of the daemon's own runs.
Kill(gs) == gen' = [g \in Gens |-> IF g \in gs /\ Running(g) THEN "dead" ELSE gen[g]]

\* The wrapper's process is created; CHILD_PID is stored a moment later.
Newest == Min(Unborn)

---------------------------------------------------------------------------------------
\* A daemon already serves and is attached to, or the tray starts one.
ThInit ==
    /\ port = [g \in Gens |-> IF g = 1 THEN 1 ELSE 0] /\ worker = [at |-> "none", url |-> 0]
    /\ busy = FALSE /\ cancel = FALSE /\ request = FALSE /\ ui = "run"
    /\ raced = FALSE
    /\ \/ /\ gen = [g \in Gens |-> IF g = 1 THEN "serve" ELSE "none"]
          /\ pointer = 1 /\ mine = {} /\ child = 0 /\ watched = {} /\ ours = FALSE
       \/ /\ gen = [g \in Gens |-> IF g = 1 THEN "boot" ELSE "none"]
          /\ pointer = 0 /\ mine = {1} /\ child = 1 /\ watched = {1} /\ ours = TRUE

\* The daemons: a boot drops a leftover shutdown request, takes the next free port and says
\* so; a daemon freezes and thaws, crashes, or hands over to a successor it starts itself.
Binds(g) ==
    /\ gen[g] = "boot" /\ gen' = [gen EXCEPT ![g] = "serve"]
    /\ LET free == CHOOSE p \in 1 .. MaxGen :
                       Owners({p}) = {} /\ \A q \in 1 .. (p - 1) : Owners({q}) # {}
       IN  port' = [port EXCEPT ![g] = free] /\ pointer' = free
    /\ request' = FALSE
    /\ UNCHANGED <<mine, child, watched>> /\ UNCHANGED thTray

Turn(g, from, to) ==
    /\ gen[g] = from /\ gen' = [gen EXCEPT ![g] = to]
    /\ UNCHANGED <<port, pointer, mine, child, watched, request>> /\ UNCHANGED thTray

Close(g) ==
    /\ gen' = [gen EXCEPT ![g] = "dead"]
    /\ pointer' = IF pointer = port[g] THEN 0 ELSE pointer
    /\ UNCHANGED port

\* "Shut down" in the web page: the daemon leaves the tray a request.
ShutDown(g) ==
    /\ gen[g] = "serve" /\ Close(g) /\ request' = TRUE
    /\ UNCHANGED <<mine, child, watched>> /\ UNCHANGED thTray

SelfRelaunch(g) ==
    /\ gen[g] = "serve" /\ Unborn # {}
    /\ gen' = [gen EXCEPT ![g] = "dead", ![Newest] = "boot"]
    /\ pointer' = IF pointer = port[g] THEN 0 ELSE pointer
    /\ UNCHANGED <<port, mine, child, watched, request>> /\ UNCHANGED thTray

\* What if: the thread that watched an ended child cleared the slot whoever had it by now.
ForgetChild(g) ==
    /\ g \in watched /\ ~Running(g)
    /\ watched' = watched \ {g} /\ child' = 0
    /\ UNCHANGED thDaemons /\ UNCHANGED thTray /\ UNCHANGED <<mine, request>>

\* watch_child: only this child's own pid is cleared.
ChildEnded(g) ==
    /\ g \in watched /\ ~Running(g)
    /\ watched' = watched \ {g} /\ child' = IF child = g THEN 0 ELSE child
    /\ UNCHANGED thDaemons /\ UNCHANGED thTray /\ UNCHANGED <<mine, request>>

---------------------------------------------------------------------------------------
\* start_worker: one at a time, for a Restart or for a Rebuild & Restart.
StartWorker(rebuild) ==
    /\ ui = "run" /\ ~busy
    /\ busy' = TRUE /\ cancel' = FALSE
    /\ worker' = [at |-> IF rebuild THEN "build" ELSE "check", url |-> 0]
    /\ UNCHANGED thDaemons /\ UNCHANGED <<mine, child, watched, ours, request, ui, raced>>

At(place) == worker.at = place /\ ui # "gone"
Goto(place) == worker' = [worker EXCEPT !.at = place] /\ UNCHANGED <<busy, cancel, ours, ui, raced>>
\* What if: a worker that ends stayed busy.
StaysBusy ==
    /\ worker' = [at |-> "none", url |-> 0] /\ UNCHANGED busy
    /\ UNCHANGED <<cancel, ours, ui, raced>>

Done ==
    /\ worker' = [at |-> "none", url |-> 0] /\ busy' = FALSE
    /\ UNCHANGED <<cancel, ours, ui, raced>>

\* The build ends, well or not, or Quit canceled it.
Build ==
    /\ At("build")
    /\ Done \/ (~cancel /\ Goto("check"))
    /\ UNCHANGED thDaemons /\ UNCHANGED <<mine, child, watched, request>>

\* The last look at `cancel`; then the stop, which asks the daemon that answers to close.
Check ==
    /\ At("check") /\ IF cancel THEN Done ELSE Goto("stop")
    /\ UNCHANGED thDaemons /\ UNCHANGED <<mine, child, watched, request>>

StopNobody ==
    /\ At("stop") /\ LiveUrl = 0 /\ Goto("create")
    /\ UNCHANGED thDaemons /\ UNCHANGED <<mine, child, watched, request>>

\* The request is accepted by a daemon this session owns, or refused or unanswered.
StopAsks ==
    /\ At("stop") /\ LiveUrl # 0
    /\ \/ /\ worker' = [at |-> "gone?", url |-> LiveUrl]
          /\ \E g \in Owners({LiveUrl}) : ours /\ Close(g)
       \/ /\ worker' = [at |-> "gone?", url |-> LiveUrl] /\ ours /\ UNCHANGED thDaemons
       \/ worker' = [at |-> "kill", url |-> LiveUrl] /\ UNCHANGED thDaemons
    /\ UNCHANGED <<busy, cancel, ours, ui, mine, child, watched, request, raced>>

\* It goes within its time, or whatever holds its port and the configured one is killed.
StopWaits ==
    /\ At("gone?") /\ Goto(IF LiveUrl = 0 THEN "create" ELSE "kill")
    /\ UNCHANGED thDaemons /\ UNCHANGED <<mine, child, watched, request>>

StopKills ==
    /\ At("kill") /\ Kill(Owners({1, worker.url})) /\ Goto("create")
    /\ UNCHANGED <<port, pointer, mine, child, watched, request>>

\* spawn: the process exists before CHILD_PID names it.
Create ==
    /\ At("create") /\ Unborn # {}
    /\ gen' = [gen EXCEPT ![Newest] = "boot"] /\ mine' = mine \cup {Newest}
    /\ Goto("store") /\ UNCHANGED <<port, pointer, child, watched, request>>

Store ==
    /\ At("store")
    /\ child' = Max(mine) /\ watched' = watched \cup {Max(mine)} /\ ours' = TRUE
    /\ worker' = [worker EXCEPT !.at = "await"]
    /\ UNCHANGED thDaemons /\ UNCHANGED <<busy, cancel, ui, mine, request, raced>>

\* wait_for_url: the daemon answers, or the budget is over; the outcome is posted.
Await ==
    /\ At("await") /\ Done
    /\ UNCHANGED thDaemons /\ UNCHANGED <<mine, child, watched, request>>

---------------------------------------------------------------------------------------
\* The watchdog's revive (Watchdog decides when): the old wrapper's tree is killed, then
\* whatever holds the configured port or the one the pointer names; while anything still
\* does, nothing is spawned.
Revive ==
    /\ ui = "run" /\ ~busy /\ ours /\ LiveUrl = 0 /\ Unborn # {}
    /\ LET reaped == ({child} \cap Gens) \cup Owners({1, pointer} \ {0})
       IN  \/ /\ gen' = [g \in Gens |-> IF g \in reaped /\ Running(g) THEN "dead"
                                        ELSE IF g = Newest THEN "boot" ELSE gen[g]]
              /\ mine' = mine \cup {Newest} /\ child' = Newest
              /\ watched' = watched \cup {Newest}
           \/ /\ Owners({1, pointer} \ {0}) # {}   \* one of them survives every kill
              /\ Kill({child}) /\ child' = 0 /\ UNCHANGED <<mine, watched>>
    /\ UNCHANGED <<port, pointer, request>> /\ UNCHANGED thTray

\* Quit, from the menu or from the request the tray finds when it is not busy.
Quit ==
    /\ ui = "run" /\ ui' = "ask" /\ cancel' = TRUE /\ request' = FALSE
    /\ raced' = (worker.at \notin {"none", "build", "check"})
    /\ UNCHANGED thDaemons /\ UNCHANGED <<worker, busy, ours, mine, child, watched>>

SentinelTick == request /\ ~busy /\ Quit

QuitAsks ==
    /\ ui = "ask" /\ ui' = "reap"
    /\ \/ \E g \in Gens : ours /\ gen[g] = "serve" /\ Close(g)
       \/ UNCHANGED thDaemons
    /\ UNCHANGED <<worker, busy, cancel, ours, mine, child, watched, request, raced>>

\* What if: Quit forgot the wrapper without killing its tree, ...
ReapForgets ==
    /\ ui = "reap" /\ ui' = "force" /\ child' = 0
    /\ UNCHANGED thDaemons /\ UNCHANGED <<worker, busy, cancel, ours, mine, watched, request, raced>>

QuitReaps ==
    /\ ui = "reap" /\ ui' = "force" /\ Kill({child}) /\ child' = 0
    /\ UNCHANGED <<port, pointer, worker, busy, cancel, ours, mine, watched, request, raced>>

\* stop(skip_graceful): only when this session owns the daemon, and only if one answers.
QuitForces ==
    /\ ui = "force" /\ ui' = "leave"
    /\ IF ours /\ LiveUrl # 0 THEN Kill(Owners({1, LiveUrl})) ELSE UNCHANGED gen
    /\ UNCHANGED <<port, pointer, worker, busy, cancel, ours, mine, child, watched, request,
                   raced>>

\* The process ends, and its threads with it.
QuitLeaves ==
    /\ ui = "leave" /\ ui' = "gone"
    /\ UNCHANGED thDaemons
    /\ UNCHANGED <<worker, busy, cancel, ours, mine, child, watched, request, raced>>

---------------------------------------------------------------------------------------
ThNext ==
    \/ \E g \in Gens : \/ Binds(g) \/ ShutDown(g) \/ SelfRelaunch(g)
                       \/ ui # "gone" /\ ChildEnded(g)
                       \/ Turn(g, "serve", "frozen") \/ Turn(g, "frozen", "serve")
                       \/ \E from \in {"boot", "serve", "frozen"} : Turn(g, from, "dead")
    \/ \E rebuild \in BOOLEAN : StartWorker(rebuild)
    \/ Build \/ Check \/ StopNobody \/ StopAsks \/ StopWaits \/ StopKills \/ Create \/ Store \/ Await
    \/ Revive \/ Quit \/ SentinelTick
    \/ QuitAsks \/ QuitReaps \/ QuitForces \/ QuitLeaves

ThSpec == ThInit /\ [][ThNext]_thVars

---------------------------------------------------------------------------------------
\* What each piece of state holds.
ThTypeOK ==
    /\ gen \in [Gens -> {"none", "boot", "serve", "frozen", "dead"}]
    /\ port \in [Gens -> 0 .. MaxGen] /\ pointer \in 0 .. MaxGen
    /\ mine \subseteq Gens /\ child \in 0 .. MaxGen /\ watched \subseteq Gens
    /\ worker.at \in {"none", "build", "check", "stop", "gone?", "kill", "create", "store", "await"}
    /\ busy = (worker.at # "none")

\* The wrapper a kill has to reach is the newest one this tray spawned: however restarts,
\* revives, deaths and the threads that report them interleave, CHILD_PID names it as long
\* as it runs (but for the moment between its creation and the store), an older one never
\* holds the slot, and a Quit that met no restart under way leaves it dead.
NewestIsReached ==
    /\ \A g \in mine : g = Max(mine) /\ Running(g)
          => child = g \/ worker.at = "store" \/ ui \in {"force", "leave", "gone"}
    /\ child # 0 => child \in mine /\ \A g \in mine : g > child => worker.at = "store"
    /\ ui = "gone" /\ ~raced => \A g \in mine : g = Max(mine) => ~Running(g)

\* main.rs on `cancel`: "Set by Quit so an in-flight worker stops instead of resurrecting
\* what we are closing": the daemon of a restart does not outlive the Quit it raced.
NothingIsResurrected == ui = "gone" => \A g \in mine : g = Max(mine) => ~Running(g)

\* quit.rs: "the force-kill below is the guaranteed backstop": a Quit that met no restart
\* leaves nothing on the port of a daemon this session owns.
ForceKillIsGuaranteed == ui = "gone" /\ ours /\ ~raced => Owners({1}) = {}

\* quit.rs: on a shutdown request "the tray must then tear the WHOLE app down": the request
\* goes only to a Quit.
RequestIsHonoured == [][request /\ ~request' => ui' = "ask"]_thVars
================================================================================
