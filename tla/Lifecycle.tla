------------------------------ MODULE Lifecycle ------------------------------
(***************************************************************************)
(* The process lifecycle of the daemon: server/src/manager/lifecycle.ts    *)
(* with the entry primitives of server/src/manager/base.ts.                *)
(*                                                                         *)
(* The daemon is one JavaScript event loop.  A public call, a timer, an    *)
(* operating-system event or the end of an awaited operation is one step;  *)
(* what interleaves is everything that is awaited: a start that waits for  *)
(* its compose stack, for a port or for a port to be freed; a stop that    *)
(* waits for its child's exit; a restart in its settle delay; a staggered  *)
(* start in the queue.  Promise continuations ("resolved" calls) run       *)
(* before the next event, which the guard of EventStep expresses.          *)
(*                                                                         *)
(* What an await does with the compose stack is module ComposeHolds.       *)
(***************************************************************************)
EXTENDS Integers, FiniteSets

CONSTANTS
  Procs,          \* the process ids a project file may declare
  ComposeProcs,   \* those with an active compose block
  WaitProcs,      \* those whose waitForPort resolves to a port
  FreeProcs,      \* those with a declared port, when freePortOnStart is on
  WaitsOn,        \* waitForPort as a sibling id: Procs -> Procs or NoProc
  CoStart,        \* linked group and companions: Procs -> SUBSET Procs
  NoProc,
  Callers,        \* concurrent restart() calls the instance allows
  Outcomes,       \* spawn outcomes considered: a pid, no pid, an exception
  KillMayFail,    \* whether the OS may refuse to kill a live process
  MaxCalls        \* bound: public calls made in one behaviour

ASSUME ProcsAssumption ==
  /\ ComposeProcs \subseteq Procs
  /\ WaitProcs \subseteq Procs
  /\ FreeProcs \subseteq Procs
  /\ NoProc \notin Procs
  /\ WaitsOn \in [Procs -> Procs \cup {NoProc}]
  /\ CoStart \in [Procs -> SUBSET Procs]
  /\ Outcomes \subseteq {"ok", "nopid", "throw"}
  /\ KillMayFail \in BOOLEAN
  /\ MaxCalls \in Nat

VARIABLES
  registered,    \* ids in the entries map
  inc,           \* which Entry object the id maps to, counted per id
  status, child, pid, stopping, pendingStart, stopTimer,   \* Entry fields
  gen,           \* Entry.generation
  queued,        \* ids in queuedStarts
  spawned,       \* children spawned so far, per id: the next child's name
  alive,         \* operating system: the live children, per id
  exits,         \* exit and error events not delivered yet
  tasks,         \* awaited start steps: one per start() still under way
  kills,         \* treeKill calls whose callback has not run
  restarts,      \* restart() calls
  sweep,         \* the restartRunning() call in progress
  wanted,        \* history: the last request that took effect asked for a run
  calls          \* bound: public calls made so far

entryVars == <<registered, inc, status, child, pid, stopping, pendingStart,
               stopTimer, gen>>
osVars    == <<spawned, alive, exits, kills>>
callVars  == <<restarts, sweep>>
vars      == <<entryVars, osVars, callVars, queued, tasks, wanted, calls>>

Status == {"stopped", "waiting", "starting", "running", "stopping", "crashed"}
Kinds  == {"compose", "wait", "free"}
Steps  == Kinds \cup {"spawn"}
Codes  == {"zero", "nonzero", "signal", "error"}

Task    == [kind : Kinds, proc : Procs, inc : Nat, gen : Nat]
Kill    == [kind : {"term", "kill", "reap"}, proc : Procs, child : Nat]
Exit    == [proc : Procs, child : Nat, code : Codes]
Restart == [at : {"idle", "exit", "resolved", "settle"},
            proc : Procs \cup {NoProc}, inc : Nat, gen : Nat]
RestartAt(at, p, i, g) == [at |-> at, proc |-> p, inc |-> i, gen |-> g]
Idle    == RestartAt("idle", NoProc, 0, 0)

TypeOK ==
  /\ registered \subseteq Procs
  /\ inc \in [Procs -> Nat]
  /\ status \in [Procs -> Status]
  /\ child \in [Procs -> Nat]
  /\ pid \in [Procs -> Nat]
  /\ stopping \in [Procs -> BOOLEAN]
  /\ pendingStart \in [Procs -> BOOLEAN]
  /\ stopTimer \in [Procs -> Nat]
  /\ gen \in [Procs -> Nat]
  /\ queued \subseteq Procs
  /\ spawned \in [Procs -> Nat]
  /\ alive \in [Procs -> SUBSET Nat]
  /\ exits \subseteq Exit
  /\ tasks \subseteq Task
  /\ kills \subseteq Kill
  /\ restarts \in [Callers -> Restart]
  /\ sweep \in [ids : SUBSET Procs, wait : SUBSET Procs]
  /\ wanted \in [Procs -> BOOLEAN]
  /\ calls \in Nat

\* Every process of the project file is registered and stopped (newEntry).
Init ==
  /\ registered = Procs
  /\ inc = [p \in Procs |-> 0]
  /\ status = [p \in Procs |-> "stopped"]
  /\ child = [p \in Procs |-> 0]
  /\ pid = [p \in Procs |-> 0]
  /\ stopping = [p \in Procs |-> FALSE]
  /\ pendingStart = [p \in Procs |-> FALSE]
  /\ stopTimer = [p \in Procs |-> 0]
  /\ gen = [p \in Procs |-> 0]
  /\ queued = {}
  /\ spawned = [p \in Procs |-> 0]
  /\ alive = [p \in Procs |-> {}]
  /\ exits = {} /\ tasks = {} /\ kills = {}
  /\ restarts = [c \in Callers |-> Idle]
  /\ sweep = [ids |-> {}, wait |-> {}]
  /\ wanted = [p \in Procs |-> FALSE]
  /\ calls = 0

-----------------------------------------------------------------------------
(* Starting.  A start() passes through compose, waitForPort and free-port,  *)
(* each awaited, before it spawns; the continuation of each await enters    *)
(* the next step.                                                           *)

\* What if: start() forgot to look for a child that is already there.
StartableWhileRunning(p) == p \in registered /\ ~pendingStart[p]

\* start() is a no-op for an unknown, running or already starting process.
Startable(p) == p \in registered /\ child[p] = 0 /\ ~pendingStart[p]

StepAfterWait(p)    == IF p \in FreeProcs THEN "free" ELSE "spawn"
StepAfterCompose(p) == IF p \in WaitProcs THEN "wait" ELSE StepAfterWait(p)
FirstStep(p)        == IF p \in ComposeProcs THEN "compose" ELSE StepAfterCompose(p)

SpawnStatus(out) ==
  IF out = "ok" THEN "running" ELSE IF out = "nopid" THEN "starting" ELSE "crashed"

StepStatus(s, out) ==
  IF s = "spawn" THEN SpawnStatus(out) ELSE IF s = "free" THEN "starting" ELSE "waiting"

\* The processes of E enter step[p] of their start: an await is launched, or
\* the child is spawned with an outcome the operating system chooses.  g[p]
\* is the generation of the start() whose chain this is.
EnterStep(E, step, g, out) ==
  LET Spawn == {p \in E : step[p] = "spawn"}
      Handle == {p \in Spawn : out[p] # "throw"}
      Live == {p \in Spawn : out[p] = "ok"}
  IN /\ status' = [p \in Procs |-> IF p \in E THEN StepStatus(step[p], out[p]) ELSE status[p]]
     /\ pendingStart' = [p \in Procs |-> IF p \in E THEN p \notin Spawn ELSE pendingStart[p]]
     /\ child' = [p \in Procs |-> IF p \in Handle THEN spawned[p] + 1 ELSE child[p]]
     /\ pid' = [p \in Procs |-> IF p \in Live THEN spawned[p] + 1 ELSE pid[p]]
     /\ spawned' = [p \in Procs |-> IF p \in Handle THEN spawned[p] + 1 ELSE spawned[p]]
     /\ alive' = [p \in Procs |-> IF p \in Live THEN alive[p] \cup {spawned[p] + 1} ELSE alive[p]]
     /\ exits' = exits \cup {[proc |-> p, child |-> spawned[p] + 1, code |-> "error"] :
                               p \in Handle \ Live}

AwaitOf(E, step, g) ==
  {[kind |-> step[p], proc |-> p, inc |-> inc[p], gen |-> g[p]] :
      p \in {q \in E : step[q] # "spawn"}}

\* start() for every process of S at once; the no-ops among them drop out.
StartAll(S, out) ==
  LET E == {p \in S : Startable(p)}
      first == [p \in Procs |-> FirstStep(p)]
      g == [p \in Procs |-> IF p \in E THEN gen[p] + 1 ELSE gen[p]]
  IN /\ EnterStep(E, first, g, out)
     /\ gen' = g
     /\ tasks' = tasks \cup AwaitOf(E, first, g)
     /\ stopping' = [p \in Procs |-> IF p \in E THEN FALSE ELSE stopping[p]]
     /\ stopTimer' = [p \in Procs |-> IF p \in E THEN 0 ELSE stopTimer[p]]
     /\ UNCHANGED <<registered, inc, kills>>

\* What if: the continuation asked only whether the entry is the same one.
StillPendingById(t) == t.proc \in registered /\ inc[t.proc] = t.inc

\* The continuation of wait-for-port and free-port runs only if the entry is
\* still pending and still the registered one.
StillPending(t) ==
  pendingStart[t.proc] /\ t.proc \in registered /\ inc[t.proc] = t.inc

\* The compose continuation also compares generations.
StillCurrent(t) == StillPending(t) /\ gen[t.proc] = t.gen

\* continueStart and spawnEntry bail out unless the entry is between states.
MaySpawn(p, st) == child[p] = 0 /\ ~stopping[p] /\ st = "starting"

\* A continuation moves its own chain on to the next step.
NextStep(t, s, out) ==
  LET step == [p \in Procs |-> s]
      g == [p \in Procs |-> t.gen]
  IN /\ EnterStep({t.proc}, step, g, out)
     /\ tasks' = (tasks \ {t}) \cup AwaitOf({t.proc}, step, g)
     /\ UNCHANGED <<registered, inc, stopping, stopTimer, gen, kills>>

\* The continuation only clears pendingStart and sets a status.
EndStart(t, st) ==
  /\ tasks' = tasks \ {t}
  /\ pendingStart' = [pendingStart EXCEPT ![t.proc] = FALSE]
  /\ status' = [status EXCEPT ![t.proc] = st]
  /\ UNCHANGED <<registered, inc, child, pid, stopping, stopTimer, gen, osVars>>

DropTask(t) == tasks' = tasks \ {t} /\ UNCHANGED <<entryVars, osVars>>

\* startAfterCompose and continueStart on the way to the next await or spawn.
Proceed(t, s, out) ==
  IF s = "wait" \/ MaySpawn(t.proc, "starting") THEN NextStep(t, s, out)
  ELSE EndStart(t, "starting")

ComposeDone(t, ok, out) ==
  /\ t.kind = "compose"
  /\ IF ~StillCurrent(t) THEN DropTask(t)
     ELSE IF ~ok THEN EndStart(t, "stopped")
     ELSE Proceed(t, StepAfterCompose(t.proc), out)
  /\ UNCHANGED <<callVars, queued, wanted, calls>>

\* ok: the port listens; not ok: WAIT_FOR_PORT_TIMEOUT_MS passed.
WaitDone(t, ok, out) ==
  /\ t.kind = "wait"
  /\ IF ~StillPending(t) THEN DropTask(t)
     ELSE IF ~ok THEN EndStart(t, "stopped")
     ELSE Proceed(t, StepAfterWait(t.proc), out)
  /\ UNCHANGED <<callVars, queued, wanted, calls>>

FreeDone(t, out) ==
  /\ t.kind = "free"
  /\ IF ~StillPending(t) THEN DropTask(t)
     ELSE IF MaySpawn(t.proc, status[t.proc]) THEN NextStep(t, "spawn", out)
     ELSE EndStart(t, status[t.proc])
  /\ UNCHANGED <<callVars, queued, wanted, calls>>

-----------------------------------------------------------------------------
(* Stopping, and the end of a child.                                        *)

\* What if: an exit forgot to wake the calls that wait for it.
ResumedNobody(P) == restarts

\* resolveExitWaiters: the calls waiting for one of P to exit are resumed.
ResumedRestarts(P) ==
  [c \in Callers |->
     IF restarts[c].at = "exit" /\ restarts[c].proc \in P
     THEN RestartAt("resolved", restarts[c].proc, restarts[c].inc, restarts[c].gen)
     ELSE restarts[c]]
ResumedSweep(P) == [ids |-> sweep.ids, wait |-> sweep.wait \ P]

\* Those a stop reaches, and what it finds.  (CancelledLate is the what-if
\* that overlooks a start still waiting for its compose stack or port.)
Registered(S) == S \cap registered
Terminated(S) == {p \in Registered(S) : ~pendingStart[p] /\ child[p] # 0 /\ ~stopping[p]}
CancelledLate(S) == {p \in Registered(S) : pendingStart[p] /\ status[p] = "starting"}
Cancelled(S)  == {p \in Registered(S) : pendingStart[p]}
Signalled(S)  == {p \in Terminated(S) : pid[p] # 0}
Cleared(S)    == Terminated(S) \ Signalled(S)   \* a child without a pid

\* Those of S whose stop() still waits for an exit once stopProcess returns.
StillExiting(S) == {p \in Registered(S) : ~pendingStart[p] /\ child[p] # 0} \ Cleared(S)

\* What if: a stop left the queued start of its process in the queue.
KeepQueuedStart(S) == queued

\* cancelQueuedStart for every process of S.
CancelQueuedStart(S) == queued \ Registered(S)

\* stopProcess() for every process of S: a pending start is cancelled, a
\* child is sent SIGTERM with a timer that escalates, and a second stop()
\* only adds a waiter.  The generation moves in every case.
StopProcess(S) ==
  LET Gone == Cancelled(S) \cup Cleared(S) IN
  /\ gen' = [p \in Procs |-> IF p \in Registered(S) THEN gen[p] + 1 ELSE gen[p]]
  /\ queued' = CancelQueuedStart(S)
  /\ pendingStart' = [p \in Procs |-> pendingStart[p] /\ p \notin Cancelled(S)]
  /\ status' = [p \in Procs |-> IF p \in Gone THEN "stopped"
                                ELSE IF p \in Signalled(S) THEN "stopping" ELSE status[p]]
  /\ stopping' = [p \in Procs |-> IF p \in Cleared(S) THEN FALSE
                                  ELSE stopping[p] \/ p \in Signalled(S)]
  /\ stopTimer' = [p \in Procs |-> IF p \in Gone THEN 0
                                   ELSE IF p \in Signalled(S) THEN child[p] ELSE stopTimer[p]]
  /\ child' = [p \in Procs |-> IF p \in Cleared(S) THEN 0 ELSE child[p]]
  /\ pid' = [p \in Procs |-> IF p \in Cleared(S) THEN 0 ELSE pid[p]]
  /\ kills' = kills \cup {[kind |-> "term", proc |-> p, child |-> child[p]] : p \in Signalled(S)}
  /\ wanted' = [p \in Procs |-> wanted[p] /\ p \notin Registered(S)]
  /\ UNCHANGED <<registered, inc, spawned, alive, exits, tasks>>

\* finishProcess and handleSpawnError: the entry lets go of its child.
Finish(p, st) ==
  /\ status' = [status EXCEPT ![p] = st]
  /\ child' = [child EXCEPT ![p] = 0]
  /\ pid' = [pid EXCEPT ![p] = 0]
  /\ stopping' = [stopping EXCEPT ![p] = FALSE]
  /\ stopTimer' = [stopTimer EXCEPT ![p] = 0]
  /\ restarts' = ResumedRestarts({p})
  /\ sweep' = ResumedSweep({p})
  /\ UNCHANGED <<registered, inc, pendingStart, gen>>

\* What if: a late callback of an earlier child were taken at face value.
AnyCallback(p, n) == TRUE

\* Every callback about a child compares it with the entry's current one.
IsCurrentChild(p, n) == child[p] = n

\* What if: the exit code were stored as the status.
ExitStatusRaw(p, code) == IF stopping[p] THEN "stopped" ELSE code

\* How an exit that nobody asked for is told from a crash.
ExitStatus(p, code) ==
  IF ~stopping[p] /\ code \in {"nonzero", "error"} THEN "crashed" ELSE "stopped"

\* The operating system: a live child ends by itself or by a signal.
Die(p, n, code) ==
  /\ n \in alive[p]
  /\ alive' = [alive EXCEPT ![p] = @ \ {n}]
  /\ exits' = exits \cup {[proc |-> p, child |-> n, code |-> code]}
  /\ UNCHANGED <<entryVars, spawned, kills, callVars, queued, tasks, wanted, calls>>

\* The 'exit' event (handleExit) or the 'error' event (handleSpawnError).
HandleExit(x) ==
  /\ exits' = exits \ {x}
  /\ IF IsCurrentChild(x.proc, x.child) THEN Finish(x.proc, ExitStatus(x.proc, x.code))
     ELSE UNCHANGED <<entryVars, callVars>>
  /\ UNCHANGED <<spawned, alive, kills, queued, tasks, wanted, calls>>

\* What if: the escalation refused a child that is already stopping.
ForceKillUnlessStopping(p, n) ==
  IF child[p] = n /\ pid[p] = n /\ ~stopping[p]
  THEN {[kind |-> "kill", proc |-> p, child |-> n]} ELSE {}

\* forceKill: only while the child it was meant for is still the entry's own.
ForceKill(p, n) ==
  IF child[p] = n /\ pid[p] = n THEN {[kind |-> "kill", proc |-> p, child |-> n]} ELSE {}

\* The SIGTERM callback: an error escalates at once, success waits for the exit.
TermDone(k, err) ==
  LET force == IF err THEN ForceKill(k.proc, k.child) ELSE {} IN
  /\ k.kind = "term"
  /\ kills' = (kills \ {k}) \cup force
  /\ stopTimer' = IF force = {} THEN stopTimer ELSE [stopTimer EXCEPT ![k.proc] = 0]
  /\ UNCHANGED <<registered, inc, status, child, pid, stopping, pendingStart, gen,
                 spawned, alive, exits, callVars, queued, tasks, wanted, calls>>

\* The KILL_GRACE_MS timer: the child ignored SIGTERM.
StopTimerFires(p) ==
  /\ stopTimer[p] # 0
  /\ stopTimer' = [stopTimer EXCEPT ![p] = 0]
  /\ kills' = kills \cup ForceKill(p, stopTimer[p])
  /\ UNCHANGED <<registered, inc, status, child, pid, stopping, pendingStart, gen,
                 spawned, alive, exits, callVars, queued, tasks, wanted, calls>>

\* A kill may fail on a live child only where the instance says so; killing
\* one that already ended may report either.
KillOutcome(k, err) == err => KillMayFail \/ k.child \notin alive[k.proc]

\* The SIGKILL callback.  An error leaves the child to itself.
KillDone(k, err) ==
  /\ k.kind \in {"kill", "reap"}
  /\ KillOutcome(k, err)
  /\ kills' = kills \ {k}
  /\ alive' = IF err THEN alive ELSE [alive EXCEPT ![k.proc] = @ \ {k.child}]
  /\ exits' = IF ~err /\ k.child \in alive[k.proc]
              THEN exits \cup {[proc |-> k.proc, child |-> k.child, code |-> "signal"]}
              ELSE exits
  /\ IF k.kind = "kill" /\ IsCurrentChild(k.proc, k.child)
     THEN Finish(k.proc, IF err THEN "crashed" ELSE "stopped")
     ELSE UNCHANGED <<entryVars, callVars>>
  /\ UNCHANGED <<spawned, queued, tasks, wanted, calls>>

-----------------------------------------------------------------------------
(* Batches: the staggered, dependency-ordered start queue.                  *)

\* What if: the queue accepted an id without looking at its entry.
QueueableAlways(p) == p \notin queued

\* queueStart refuses what start() would refuse, and what is queued already.
Queueable(p) == Startable(p) /\ p \notin queued

\* The members of B on a waitForPort cycle inside B (DependencyCycleError).
CycleMembers(B) == UNION {S \in SUBSET B : {WaitsOn[p] : p \in S} = S}

\* orderByDependency may put first any member that waits on nobody in B.
MayBeFirst(B, p) == p \in B /\ WaitsOn[p] \notin B

\* startMany(B), after start() of the processes in Now in the same step.  A
\* cycle starts nothing; else the first member starts and the others queue.
StartBatch(Now, B, out) ==
  IF B = {} \/ CycleMembers(B) # {}
  THEN /\ StartAll(Now, out)
       /\ queued' = queued \ {p \in Now : Startable(p)}
       /\ wanted' = [p \in Procs |-> wanted[p] \/ (p \in Now /\ Startable(p))]
  ELSE \E f \in B :
         LET Begin == {p \in Now \cup ({f} \ queued) : Startable(p)}
             Queue == {p \in B \ (Now \cup {f}) : Queueable(p)}
         IN /\ MayBeFirst(B, f)
            /\ StartAll(Begin, out)
            /\ queued' = (queued \ Begin) \cup Queue
            /\ wanted' = [p \in Procs |-> wanted[p] \/ p \in Begin \cup Queue]

\* What if: the timer started its process and left its entry in the queue.
QueueTimerKeeps(p, out) ==
  /\ p \in queued
  /\ StartAll({p}, out)
  /\ UNCHANGED <<callVars, queued, wanted, calls>>

\* A start stagger timer fires: the queue entry is dropped, then start().
QueueTimer(p, out) ==
  /\ p \in queued
  /\ queued' = queued \ {p}
  /\ StartAll({p}, out)
  /\ UNCHANGED <<callVars, wanted, calls>>

-----------------------------------------------------------------------------
(* Public calls.                                                            *)

Call == calls < MaxCalls /\ calls' = calls + 1

\* start(id), and startMany for start_all, a project or launch autostart.
Start(p, out) == Call /\ StartBatch({p}, {}, out) /\ UNCHANGED callVars

StartMany(B, out) == Call /\ StartBatch({}, B, out) /\ UNCHANGED callVars

\* startWithLinks(id): cycle members among the co-started are stripped first.
StartWithLinks(p, out) ==
  LET extras == CoStart[p] \ {p} IN
  /\ Call
  /\ p \in registered
  /\ StartBatch({p}, extras \ CycleMembers(extras), out)
  /\ UNCHANGED callVars

\* stop(id), stopWithLinks, stopProject and stopAll: a set stopped in one go.
Stop(S) ==
  /\ Call
  /\ StopProcess(S)
  /\ restarts' = ResumedRestarts(Cleared(S))
  /\ sweep' = ResumedSweep(Cleared(S))

\* restart(id), up to its first await: the stop.
RestartCall(c, p) ==
  /\ Call
  /\ restarts[c].at = "idle" /\ p \in registered
  /\ StopProcess({p})
  /\ restarts' = [ResumedRestarts(Cleared({p})) EXCEPT
                    ![c] = RestartAt(IF StillExiting({p}) = {} THEN "resolved" ELSE "exit",
                                     p, inc[p], 0)]
  /\ sweep' = ResumedSweep(Cleared({p}))

\* restart() resumes: it claims a generation and sleeps out the settle delay.
ClaimRestart(c) ==
  LET r == restarts[c]
      mine == r.proc \in registered /\ inc[r.proc] = r.inc
  IN /\ r.at = "resolved"
     /\ gen' = IF mine THEN [gen EXCEPT ![r.proc] = @ + 1] ELSE gen
     /\ restarts' = [restarts EXCEPT
          ![c] = IF mine THEN RestartAt("settle", r.proc, r.inc, gen[r.proc] + 1) ELSE Idle]
     /\ wanted' = [p \in Procs |-> wanted[p] \/ (mine /\ p = r.proc)]
     /\ UNCHANGED <<registered, inc, status, child, pid, stopping, pendingStart,
                    stopTimer, osVars, sweep, queued, tasks, calls>>

\* What if: a restart compared entries but not generations after its delay.
NotReplaced(r) == r.proc \in registered /\ inc[r.proc] = r.inc

\* After the delay restart() starts only if nothing moved the generation.
NotOvertaken(r) ==
  r.proc \in registered /\ inc[r.proc] = r.inc /\ gen[r.proc] = r.gen

SettleDone(c, out) ==
  LET r == restarts[c]
      S == IF NotOvertaken(r) THEN {r.proc} ELSE {}
  IN /\ r.at = "settle"
     /\ queued' = queued \ {p \in S : Startable(p)}
     /\ StartAll(S, out)
     /\ restarts' = [restarts EXCEPT ![c] = Idle]
     /\ UNCHANGED <<sweep, wanted, calls>>

\* restartRunning(): stop everything with a child, keep the list of ids.
RestartRunning ==
  LET R == {p \in registered : child[p] # 0} IN
  /\ Call
  /\ sweep.ids = {} /\ R # {}
  /\ StopProcess(R)
  /\ restarts' = ResumedRestarts(Cleared(R))
  /\ sweep' = [ids |-> R, wait |-> StillExiting(R)]

\* All its stops are done: the ids it remembers are started as a batch.
SweepResumes(out) ==
  /\ sweep.ids # {} /\ sweep.wait = {}
  /\ StartBatch({}, sweep.ids, out)
  /\ sweep' = [ids |-> {}, wait |-> {}]
  /\ UNCHANGED <<restarts, calls>>

\* discardEntry for the processes of S that left their file (or project).
Discard(S) ==
  /\ Call
  /\ S # {} /\ S \subseteq registered
  /\ registered' = registered \ S
  /\ queued' = queued \ S
  /\ stopping' = [p \in Procs |-> stopping[p] \/ p \in S]
  /\ pendingStart' = [p \in Procs |-> pendingStart[p] /\ p \notin S]
  /\ stopTimer' = [p \in Procs |-> IF p \in S THEN 0 ELSE stopTimer[p]]
  /\ child' = [p \in Procs |-> IF p \in S THEN 0 ELSE child[p]]
  /\ pid' = [p \in Procs |-> IF p \in S THEN 0 ELSE pid[p]]
  /\ kills' = kills \cup {[kind |-> "reap", proc |-> p, child |-> pid[p]] :
                            p \in {q \in S : pid[q] # 0}}
  /\ restarts' = ResumedRestarts(S)
  /\ sweep' = ResumedSweep(S)
  /\ wanted' = [p \in Procs |-> wanted[p] /\ p \notin S]
  /\ UNCHANGED <<inc, status, gen, spawned, alive, exits, tasks>>

\* newEntry for an id that (re)appears in its file.
Register(p) ==
  /\ Call
  /\ p \notin registered
  /\ registered' = registered \cup {p}
  /\ inc' = [inc EXCEPT ![p] = @ + 1]
  /\ status' = [status EXCEPT ![p] = "stopped"]
  /\ stopping' = [stopping EXCEPT ![p] = FALSE]
  /\ gen' = [gen EXCEPT ![p] = 0]
  /\ UNCHANGED <<child, pid, pendingStart, stopTimer, osVars, callVars, queued, tasks, wanted>>

-----------------------------------------------------------------------------
Outs == [Procs -> Outcomes]

\* Promise continuations of resolved stops run before the next event: first
\* the restarts, one promise hop away, then restartRunning, several away.
Claiming == \E c \in Callers : restarts[c].at = "resolved"
Resuming == sweep.ids # {} /\ sweep.wait = {}

Microtask ==
  \/ \E c \in Callers : ClaimRestart(c)
  \/ ~Claiming /\ \E out \in Outs : SweepResumes(out)

\* The requests after which a process is meant to run.
RunRequest ==
  \/ \E p \in Procs, out \in Outs : Start(p, out) \/ StartWithLinks(p, out)
  \/ \E B \in SUBSET Procs, out \in Outs : StartMany(B, out)
  \/ \E c \in Callers, p \in Procs : RestartCall(c, p)
  \/ RestartRunning
  \/ \E p \in Procs : Register(p)

Request == RunRequest \/ \E S \in SUBSET Procs : Stop(S) \/ Discard(S)

PortDone ==
  \E t \in tasks, out \in Outs : FreeDone(t, out) \/ \E ok \in BOOLEAN : WaitDone(t, ok, out)

TaskDone ==
  PortDone \/ \E t \in tasks, ok \in BOOLEAN, out \in Outs : ComposeDone(t, ok, out)

Timer ==
  \/ \E p \in Procs : StopTimerFires(p)
  \/ \E p \in Procs, out \in Outs : QueueTimer(p, out)
  \/ \E c \in Callers, out \in Outs : SettleDone(c, out)

OsEvent ==
  \/ \E p \in Procs : \E n \in alive[p], code \in Codes \ {"error"} : Die(p, n, code)
  \/ \E x \in exits : HandleExit(x)
  \/ \E k \in kills, err \in BOOLEAN : TermDone(k, err) \/ KillDone(k, err)

EventStep == ~Claiming /\ ~Resuming /\ (Request \/ TaskDone \/ Timer \/ OsEvent)

Next == Microtask \/ EventStep

Spec == Init /\ [][Next]_vars

\* What the event loop and the operating system owe: continuations run, timers
\* fire, every awaited step has a timeout, a kill calls back.  Nobody has to
\* call the daemon again, and a child need not end by itself.
Event(A) == ~Claiming /\ ~Resuming /\ A

Fairness ==
  /\ WF_vars(Microtask)
  /\ \A p \in Procs :
       /\ WF_vars(Event(StopTimerFires(p)))
       /\ WF_vars(Event(\E out \in Outs : QueueTimer(p, out)))
       /\ WF_vars(Event(\E k \in kills : k.proc = p /\ \E err \in BOOLEAN : TermDone(k, err)))
       /\ WF_vars(Event(\E k \in kills : k.proc = p /\ \E err \in BOOLEAN : KillDone(k, err)))
       /\ WF_vars(Event(\E t \in tasks, out \in Outs, ok \in BOOLEAN :
                          t.proc = p /\ ComposeDone(t, ok, out)))
       /\ WF_vars(Event(\E t \in tasks, out \in Outs, ok \in BOOLEAN :
                          t.proc = p /\ WaitDone(t, ok, out)))
       /\ WF_vars(Event(\E t \in tasks, out \in Outs : t.proc = p /\ FreeDone(t, out)))
  /\ \A c \in Callers : WF_vars(Event(\E out \in Outs : SettleDone(c, out)))

FairSpec == Spec /\ Fairness

-----------------------------------------------------------------------------
(* Properties.                                                              *)

\* The status shown to the user agrees with what the daemon holds, through
\* every interleaving of start, stop, exit and discard: "running" has a live
\* handle, "stopping" one being killed, "stopped" and "crashed" have neither a
\* handle nor a start under way.
CoherentEntry(p) ==
  /\ status[p] = "running" => child[p] # 0 /\ pid[p] = child[p] /\ ~stopping[p]
  /\ stopping[p] <=> status[p] = "stopping"
  /\ stopping[p] => child[p] # 0 /\ pid[p] = child[p]
  /\ status[p] \in {"stopped", "crashed", "waiting"} => child[p] = 0
  /\ status[p] = "starting" => pendingStart[p] \/ (child[p] # 0 /\ pid[p] = 0)
  /\ pendingStart[p] => status[p] \in {"waiting", "starting"} /\ child[p] = 0

StatusCoherent == \A p \in registered : CoherentEntry(p)

\* While the OS obeys, the daemon loses track of no child it launched: every
\* live child is its entry's own, the one killAllSync would reach by pid, or
\* one a discard is already killing.  In particular an id never runs twice.
NoOrphan ==
  ~KillMayFail =>
    \A p \in Procs : \A n \in alive[p] :
      \/ child[p] = n /\ pid[p] = n
      \/ [kind |-> "reap", proc |-> p, child |-> n] \in kills

\* A stop under way can always end: its grace timer or its SIGKILL is pending.
StopCanEnd ==
  \A p \in registered : stopping[p] =>
    \/ stopTimer[p] = child[p]
    \/ [kind |-> "kill", proc |-> p, child |-> child[p]] \in kills

\* Whoever awaits an exit awaits one that will come: no exit waiter outlives
\* its stop, so restart() and restartRunning() cannot hang.
WaiterHasStop ==
  /\ \A c \in Callers : restarts[c].at = "exit" =>
       LET p == restarts[c].proc IN p \in registered /\ inc[p] = restarts[c].inc /\ stopping[p]
  /\ \A p \in sweep.wait : p \in registered /\ stopping[p]

\* An entry that refuses start() because one is pending really has a
\* continuation in flight that will clear pendingStart.
PendingHasTask ==
  \A p \in Procs : pendingStart[p] =>
    /\ p \in registered
    /\ \E t \in tasks : t.proc = p /\ t.inc = inc[p] /\ (t.kind = "compose" => t.gen = gen[p])

\* The last request wins: a child is spawned only for an id whose last
\* request (start, batch, or a restart from its claim on) was to run, so
\* no wait, queue timer or settle delay resurrects a stopped process.
StopWins == [][\A p \in Procs : spawned'[p] # spawned[p] => wanted'[p]]_vars

\* A stop, once begun, ends even if the child ignores SIGTERM.
StopTerminates == \A p \in Procs : (p \in registered /\ stopping[p]) ~> ~(p \in registered /\ stopping[p])

\* A start does not stay pending for ever, and a queued one leaves the queue.
StartResolves == \A p \in Procs : (pendingStart[p] \/ p \in queued) ~> ~(pendingStart[p] \/ p \in queued)

\* restart() returns, whatever happens to the entry meanwhile.
RestartReturns == \A c \in Callers : restarts[c].at # "idle" ~> restarts[c].at = "idle"

\* The inductive strengthening.  Names are handed out in order; a delivered
\* exit is of a dead child; an unregistered id holds nothing.
Named(p) ==
  /\ child[p] <= spawned[p] /\ pid[p] \in {0, child[p]}
  /\ stopTimer[p] # 0 => stopTimer[p] = child[p] /\ stopping[p]
  /\ \A n \in alive[p] : n \in 1..spawned[p]
  /\ p \notin registered => child[p] = 0 /\ ~pendingStart[p]

Names == \A p \in Procs : Named(p)

DeadExits ==
  /\ \A x \in exits : x.child \in 1..spawned[x.proc] /\ x.child \notin alive[x.proc]
  /\ \A k \in kills : k.child \in 1..spawned[k.proc]

\* A start under way, queued or due after a settle delay was asked for, and
\* no later request withdrew it.
Intended ==
  /\ \A p \in Procs : pendingStart[p] => wanted[p]
  /\ \A p \in queued : p \in registered /\ wanted[p]
  /\ \A c \in Callers : restarts[c].at = "settle" /\ NotOvertaken(restarts[c])
                          => wanted[restarts[c].proc]

\* References to an entry are never ahead of it, and a restart about to claim
\* finds its entry down.
Behind(q, i, g) == i <= inc[q] /\ (i = inc[q] /\ q \in registered => g <= gen[q])

NeverAhead ==
  /\ \A t \in tasks : Behind(t.proc, t.inc, t.gen)
  /\ \A c \in Callers : restarts[c].at # "idle" =>
       LET r == restarts[c] IN
       /\ r.proc \in Procs
       /\ Behind(r.proc, r.inc, r.gen)
       /\ r.at = "resolved" => child[r.proc] = 0 /\ ~pendingStart[r.proc]

IInv ==
  /\ TypeOK /\ Names /\ DeadExits /\ StatusCoherent /\ StopCanEnd /\ WaiterHasStop
  /\ PendingHasTask /\ Intended /\ NeverAhead /\ NoOrphan

\* A process in "waiting" is on its way: it spawns or gives up in the end.
WaitingResolves ==
  \A p \in Procs : (p \in registered /\ status[p] = "waiting")
                    ~> ~(p \in registered /\ status[p] = "waiting")

\* What Lifecycle promises (ProcessControl): the phase of an id is read off the
\* fields of its entry.
PhaseOf ==
  [p \in Procs |->
     IF p \notin registered THEN "down"
     ELSE IF child[p] # 0 THEN IF stopping[p] THEN "stopping" ELSE "up"
     ELSE IF pendingStart[p] THEN "pending" ELSE "down"]

Promise == INSTANCE ProcessControl WITH phase <- PhaseOf

\* Every behaviour of the daemon is one the promise allows: no child comes up
\* unwanted, children of one id never overlap, a stopping id only goes down.
KeepsPromise == Promise!Spec
=============================================================================
