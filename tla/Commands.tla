------------------------------- MODULE Commands -------------------------------
(* The command line and the desktop shortcuts (server/src/cli.ts): the boot that launchers   *)
(* share when there is no daemon, and the commands given to the one there is.                *)
EXTENDS Projects

(* THE SHARED BOOT. bootDaemonShared: launchers that find no daemon share boot.lock, so that *)
(* one boots it and the others wait for that boot. Every spawned daemon has the guard of     *)
(* index.ts: it ends when it finds a live one at its start.                                  *)

CONSTANTS
    Launchers,
    BootWait, SharedWait, LockStale,    \* 20 s, 25 s and 60 s, in ticks
    MaxBoot,            \* the longest boot of a daemon, in ticks
    MaxTime             \* a bound

ASSUME BootLockAssumption ==
    /\ {BootWait, SharedWait, LockStale, MaxBoot, MaxTime} \subseteq Nat
    /\ BootWait <= SharedWait /\ SharedWait < LockStale

VARIABLES
    time,
    lock,           \* boot.lock: <<>> or <<its mtime>>
    stage,           \* where each launcher is
    since,          \* when its wait began
    daemons,        \* launcher -> when the daemon it spawned began its boot
    checked,        \* the spawned daemons that passed the guard and go on booting
    answering       \* those that wrote runtime.json and answer

bootVars == <<time, lock, stage, since, daemons, checked, answering>>

BootInit ==
    /\ time = 0 /\ lock = << >> /\ stage = [l \in Launchers |-> "idle"]
    /\ since = [l \in Launchers |-> 0] /\ daemons = [l \in {} |-> 0]
    /\ checked = {} /\ answering = {}

Goes(l, where) == stage' = [stage EXCEPT ![l] = where]
Waits(l) == since' = [since EXCEPT ![l] = time]

\* No boot takes longer than MaxBoot, a wait ends at its deadline, and no launcher is between two
\* calls that nothing is awaited between.
BootTick ==
    /\ time < MaxTime /\ time' = time + 1
    /\ \A d \in DOMAIN daemons : d \in answering \/ (d \in checked /\ time < daemons[d] + MaxBoot)
                                   \/ (d \notin checked /\ answering # {})
    /\ \A l \in Launchers : stage[l] \in {"idle", "waits", "boots", "leads", "done"}
    /\ \A l \in Launchers : stage[l] \in {"boots", "leads"} => time < since[l] + BootWait
    /\ \A l \in Launchers : stage[l] = "waits" => time < since[l] + SharedWait
    /\ UNCHANGED <<lock, stage, since, daemons, checked, answering>>

\* findLiveInstance, then boot.lock created exclusively or found.
Probe(l) ==
    /\ stage[l] = "idle" /\ Goes(l, IF answering # {} THEN "done" ELSE "opens")
    /\ UNCHANGED <<time, lock, since, daemons, checked, answering>>
OpensLock(l) ==
    /\ stage[l] = "opens"
    /\ IF lock = << >> THEN lock' = <<time>> /\ Goes(l, "spawns first")
       ELSE Goes(l, "stats") /\ UNCHANGED lock
    /\ UNCHANGED <<time, since, daemons, checked, answering>>
\* What if: the lock was looked for, and made afterwards.
Looks(l) ==
    \/ /\ stage[l] = "opens" /\ Goes(l, IF lock = << >> THEN "makes" ELSE "stats")
       /\ UNCHANGED <<time, lock, since, daemons, checked, answering>>
    \/ /\ stage[l] = "makes" /\ lock' = <<time>> /\ Goes(l, "spawns first")
       /\ UNCHANGED <<time, since, daemons, checked, answering>>
TakesLock(l) == OpensLock(l)

\* The lock it found: fresh, then wait for that boot; stale or vanished, then boot.
Stats(l) ==
    /\ stage[l] = "stats" /\ Waits(l)
    /\ Goes(l, IF lock # << >> /\ time - lock[1] <= LockStale THEN "waits" ELSE "unlinks")
    /\ UNCHANGED <<time, lock, daemons, checked, answering>>
WaitEnds(l) ==
    /\ stage[l] = "waits" /\ (answering # {} \/ time >= since[l] + SharedWait)
    /\ Goes(l, IF answering # {} THEN "done" ELSE "unlinks")
    /\ UNCHANGED <<time, lock, since, daemons, checked, answering>>
Unlinks(l) ==
    /\ stage[l] = "unlinks" /\ lock' = << >> /\ Goes(l, "spawns")
    /\ UNCHANGED <<time, since, daemons, checked, answering>>

\* bootDaemonDetached: spawn, wait for a live one; the lock goes when its holder's wait ends.
Spawns(l) ==
    /\ stage[l] \in {"spawns first", "spawns"} /\ Waits(l)
    /\ Goes(l, IF stage[l] = "spawns first" THEN "leads" ELSE "boots")
    /\ daemons' = [d \in DOMAIN daemons \cup {l} |-> IF d = l THEN time ELSE daemons[d]]
    /\ UNCHANGED <<time, lock, checked, answering>>
BootEnds(l) ==
    /\ stage[l] \in {"leads", "boots"} /\ (answering # {} \/ time >= since[l] + BootWait)
    /\ lock' = IF stage[l] = "leads" THEN << >> ELSE lock
    /\ Goes(l, "done")
    /\ UNCHANGED <<time, since, daemons, checked, answering>>

\* The daemon: the guard of index.ts, then runtime.json and the port.
Guards(d) ==
    /\ d \in DOMAIN daemons \ checked /\ answering = {} /\ checked' = checked \cup {d}
    /\ UNCHANGED <<time, lock, stage, since, daemons, answering>>
GoesLive(d) ==
    /\ d \in checked \ answering /\ answering' = answering \cup {d}
    /\ UNCHANGED <<time, lock, stage, since, daemons, checked>>

BootNext ==
    \/ BootTick
    \/ \E l \in Launchers : \/ Probe(l) \/ TakesLock(l) \/ Stats(l) \/ WaitEnds(l) \/ Unlinks(l)
                            \/ Spawns(l) \/ BootEnds(l)
    \/ \E d \in DOMAIN daemons : Guards(d) \/ GoesLive(d)

-------------------------------------------------------------------------------
BootTypeOK ==
    /\ time \in 0 .. MaxTime /\ DOMAIN stage = Launchers /\ DOMAIN daemons \subseteq Launchers
    /\ answering \subseteq checked /\ checked \subseteq DOMAIN daemons

\* However many launchers are started together, and whichever of them lost the lock, found it
\* gone or waited, one daemon serves - as long as a boot is shorter than the waits.
OneDaemonServes == MaxBoot < BootWait => Cardinality(answering) <= 1

\* "Cold-boot the daemon, but at most once across CONCURRENT launchers" (server/src/cli.ts:166).
BootsOnce == Cardinality(DOMAIN daemons) <= 1

-------------------------------------------------------------------------------
(* THE COMMANDS. Each is a process of its own that reaches the daemon request by request, so *)
(* that between any two of its requests other commands, the GUI and the daemon itself go on. *)
(* A shortcut first boots the daemon if it must (and shares that boot, as said above).       *)

CONSTANTS Shells,      \* what runs commands: terminals, shortcuts, dropped files
          MaxCommands  \* how many commands are given

ASSUME CommandsAssumption == MaxCommands \in Nat

VARIABLES verb,     \* what each shell runs
          phase,       \* and how far it is; "idle" when nothing runs
          on,       \* the processes it names, of any project
          todo,     \* a folder's projects not gone through yet
          found,    \* those the scan found a file of
          seen,     \* the projects that were managed when it asked
          making,   \* the folder whose file is to be written
          commands

shellVars == <<verb, phase, on, todo, found, seen, making>>
commandVars == <<shellVars, commands, projectVars>>

\* "open": open-process, open-project or a dropped file; "folder": a dropped folder.
Openers == {"open", "folder"}
Actions == {"start", "stop", "restart", "enable", "disable"}
Bulk == {"start-all", "stop-all"}
Verbs == Openers \cup Actions \cup Bulk \cup {"boot", "quit"}
ProjectsOf(xs) == {x[1] : x \in xs}
Present == {p \in Paths : managed[p] # {}}
IsManaged(x) == x[2] \in managed[x[1]]

CommandsInit ==
    /\ ProjectsInit /\ commands = 0
    /\ verb = [c \in Shells |-> "quit"] /\ phase = [c \in Shells |-> "idle"]
    /\ on = [c \in Shells |-> {}] /\ todo = on /\ found = on /\ seen = on /\ making = on

GoesTo(c, next) == phase' = [phase EXCEPT ![c] = next]
\* A command that ends, well or with an error, leaves nothing behind.
CommandEnds(c) ==
    /\ GoesTo(c, "idle") /\ on' = [on EXCEPT ![c] = {}] /\ seen' = [seen EXCEPT ![c] = {}]
    /\ todo' = [todo EXCEPT ![c] = {}] /\ found' = [found EXCEPT ![c] = {}]
    /\ making' = [making EXCEPT ![c] = {}] /\ UNCHANGED verb
Only(c, next) == GoesTo(c, next) /\ UNCHANGED <<verb, on, todo, found, seen, making>>

\* A shortcut names processes of one project; an action names by a name any may bear.
Invoke(c, v, xs) ==
    /\ phase[c] = "idle" /\ commands < MaxCommands /\ commands' = commands + 1
    /\ v = "open" => Cardinality(ProjectsOf(xs)) = 1
    /\ v \in Openers \cup Actions => xs # {}
    /\ v \in {"boot", "quit"} \cup Bulk => xs = {}
    /\ verb' = [verb EXCEPT ![c] = v] /\ on' = [on EXCEPT ![c] = xs] /\ GoesTo(c, "look")
    /\ UNCHANGED <<todo, found, seen, making, projectVars>>

\* A launcher and "start" boot a daemon that is not there; the others say so and end.
AfterLook(v) ==
    CASE v = "open" -> "list" [] v = "folder" -> "scan" [] v \in Actions -> "resolve"
      [] v \in Bulk \cup {"quit"} -> "act" [] OTHER -> "idle"
findLive(c) ==
    /\ phase[c] = "look" /\ UNCHANGED <<commands, projectVars>>
    /\ \/ /\ daemon = "up" /\ verb[c] # "boot" /\ Only(c, AfterLook(verb[c]))
       \/ /\ daemon # "up" /\ verb[c] \in Openers \cup {"boot"} /\ Only(c, "boot")
       \/ /\ (daemon = "up") = (verb[c] = "boot") /\ verb[c] \notin Openers /\ CommandEnds(c)

\* The boot of this shell, or of another that was quicker; or none in time.
bootDaemon(c) ==
    /\ phase[c] = "boot" /\ UNCHANGED commands
    /\ \/ DaemonBoots(FALSE) /\ Only(c, AfterLook(verb[c]))
       \/ daemon = "up" /\ Only(c, AfterLook(verb[c])) /\ UNCHANGED projectVars
       \/ CommandEnds(c) /\ UNCHANGED projectVars

\* Every request fails when no daemon answers, and the command with it (a folder's goes on with
\* its next project, and finds as little there).
Unreachable(c) ==
    /\ daemon # "up" /\ phase[c] \notin {"idle", "look", "boot"}
    /\ CommandEnds(c) /\ UNCHANGED <<commands, projectVars>>

\* ---- open-process, open-project and a dropped file ----
\* Loading a project that is loaded would end all it runs, so it is loaded only if missing.
listProjects(c) ==
    /\ phase[c] = "list" /\ daemon = "up" /\ UNCHANGED <<commands, projectVars>>
    /\ Only(c, IF ProjectsOf(on[c]) \subseteq Present THEN "open" ELSE "load")
loadMissing(c) ==
    /\ phase[c] = "load" /\ UNCHANGED commands
    /\ \E p \in ProjectsOf(on[c]) :
           \/ LoadProject(p) /\ Only(c, "open")
           \/ daemon = "up" /\ files[p] = {} /\ CommandEnds(c) /\ UNCHANGED projectVars
startOpened(c) ==
    phase[c] = "open" /\ CommandEnds(c) /\ StartThese(on[c]) /\ UNCHANGED commands

\* ---- a dropped folder ----
\* Projects with a file that were managed when the scan was over are started, others are
\* added; for a folder without one a file is proposed, written and loaded.
scanFolder(c) ==
    /\ phase[c] = "scan" /\ daemon = "up" /\ GoesTo(c, "existing")
    /\ todo' = [todo EXCEPT ![c] = ProjectsOf(on[c])]
    /\ found' = [found EXCEPT ![c] = {p \in ProjectsOf(on[c]) : files[p] # {}}]
    /\ UNCHANGED <<verb, on, seen, making, commands, projectVars>>
listExisting(c) ==
    /\ phase[c] = "existing" /\ daemon = "up" /\ GoesTo(c, "each")
    /\ seen' = [seen EXCEPT ![c] = Present]
    /\ UNCHANGED <<verb, on, todo, found, making, commands, projectVars>>
Passed(c, p) ==
    todo' = [todo EXCEPT ![c] = @ \ {p}] /\ UNCHANGED <<verb, phase, on, found, seen>>
startExisting(c, p) ==
    /\ phase[c] = "each" /\ making[c] = {} /\ p \in todo[c] \cap found[c] \cap seen[c]
    /\ Passed(c, p) /\ UNCHANGED <<making, commands>>
    /\ StartThese(Of(p, Locals))
addFoundProject(c, p) ==
    /\ phase[c] = "each" /\ making[c] = {} /\ p \in todo[c] \ (found[c] \cap seen[c])
    /\ UNCHANGED commands
    /\ \/ LoadProject(p) /\ Passed(c, p) /\ UNCHANGED making
       \/ /\ daemon = "up" /\ files[p] = {} /\ UNCHANGED projectVars
          /\ \/ Passed(c, p) /\ UNCHANGED making
             \/ /\ p \notin found[c] /\ making' = [making EXCEPT ![c] = {p}]
                /\ UNCHANGED <<verb, phase, on, todo, found, seen>>
scaffold(c, p, ls) ==
    /\ phase[c] = "each" /\ p \in making[c] /\ ls # {}
    /\ Passed(c, p) /\ making' = [making EXCEPT ![c] = {}] /\ UNCHANGED commands
    /\ \/ files[p] = {} /\ files' = [files EXCEPT ![p] = ls] /\ loadProject(p, ls)
       \/ files[p] # {} /\ daemon = "up" /\ UNCHANGED projectVars
folderEnds(c) ==
    phase[c] = "each" /\ todo[c] = {} /\ CommandEnds(c) /\ UNCHANGED <<commands, projectVars>>

\* ---- the commands for one process, for all, and for the daemon ----
\* A name must be borne by exactly one process that is managed.
resolveProcessId(c) ==
    LET matches == {x \in on[c] : IsManaged(x)}
    IN  /\ phase[c] = "resolve" /\ daemon = "up" /\ UNCHANGED <<commands, projectVars>>
        /\ IF Cardinality(matches) = 1
           THEN /\ GoesTo(c, "act") /\ on' = [on EXCEPT ![c] = matches]
                /\ UNCHANGED <<verb, todo, found, seen, making>>
           ELSE CommandEnds(c)
processAction(c) ==
    /\ phase[c] = "act" /\ verb[c] \in Actions /\ CommandEnds(c) /\ UNCHANGED commands
    /\ \E x \in on[c] :
           \/ daemon = "up" /\ ~IsManaged(x) /\ UNCHANGED projectVars
           \/ verb[c] \in {"start", "restart"} /\ StartThese({x})
           \/ verb[c] = "stop" /\ StopThese({x})
           \/ verb[c] = "enable" /\ setProcessEnabled(x, "on")
           \/ verb[c] = "disable" /\ setProcessEnabled(x, "off")
bulk(c) ==
    /\ phase[c] = "act" /\ CommandEnds(c) /\ UNCHANGED commands
    /\ \/ verb[c] = "start-all" /\ StartThese(Procs)
       \/ verb[c] = "stop-all" /\ StopThese(Procs)
       \/ verb[c] = "quit" /\ ShutsDown

CommandStep(c) ==
    \/ findLive(c) \/ bootDaemon(c) \/ Unreachable(c)
    \/ listProjects(c) \/ loadMissing(c) \/ startOpened(c)
    \/ scanFolder(c) \/ listExisting(c) \/ folderEnds(c)
    \/ \E p \in Paths : \/ startExisting(c, p) \/ addFoundProject(c, p)
                      \/ \E ls \in SUBSET Locals : scaffold(c, p, ls)
    \/ resolveProcessId(c) \/ processAction(c) \/ bulk(c)

\* What goes on beside the commands: removals, edits, crashes.
Beside ==
    /\ UNCHANGED <<shellVars, commands>>
    /\ \/ \E p \in Paths : \/ RemoveBegins(p) \/ \E r \in removing[p] : RemoveEnds(p, r)
                         \/ WatchReloads(p)
                         \/ \E ls \in SUBSET Locals : EditOnDisk(p, ls)
       \/ Crashes

CommandsNext ==
    \/ \E c \in Shells : \/ CommandStep(c)
                         \/ \E v \in Verbs, xs \in SUBSET Procs : Invoke(c, v, xs)
    \/ Beside

CommandsSpec == CommandsInit /\ [][CommandsNext]_commandVars

CommandsTypeOK ==
    /\ verb \in [Shells -> Verbs] /\ on \in [Shells -> SUBSET Procs]
    /\ phase \in [Shells -> {"idle", "look", "boot", "list", "load", "open", "scan", "existing",
                             "each", "resolve", "act"}]
    /\ {todo[c] : c \in Shells} \cup {found[c] : c \in Shells} \subseteq SUBSET Paths
    /\ \A c \in Shells : making[c] \subseteq todo[c] /\ seen[c] \subseteq Paths
    /\ commands \in 0 .. MaxCommands
    /\ \A c \in Shells : phase[c] = "idle" => on[c] = {}

\* A dropped folder adds projects, and starts what was there before. It starts nothing of a
\* project that nobody had seen: neither one it adds nor one whose file it writes.
AddsWithoutRunning ==
    [][\A c \in Shells : verb[c] = "folder" /\ phase[c] = "each" /\ todo'[c] # todo[c] =>
           \A x \in wanted' \ wanted : x[1] \in remembered /\ (x[1] \in seen[c] \/ On(x))
      ]_commandVars

\* Loading a project by a shortcut ends nothing that runs: it loads only what is not loaded.
\* Not what the code does: between the question and the load another launcher may have loaded
\* the project, and started it.
LoadsEndNothing ==
    [][\A c \in Shells : phase[c] = "load" /\ phase'[c] = "open" => wanted \subseteq wanted'
      ]_commandVars
================================================================================
