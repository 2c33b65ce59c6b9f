------------------------------- MODULE Handover -------------------------------
(* How one run of the daemon follows another (server/src/index.ts with single-instance.ts, *)
(* instance-pointer.mjs, crash-sentinel.ts and find-free-port.mjs): the guard a launch     *)
(* passes, the successor an update spawns, the port, the pointer file runtime.json, and    *)
(* the run files that tell a crash from an orderly stop.                                   *)
EXTENDS Integers, FiniteSets

CONSTANTS
    MaxRun,     \* how many processes are ever started
    MaxFaults   \* how many runs crash or are killed

Runs == 1 .. MaxRun
Ports == 1 .. MaxRun + 1    \* the configured port and the next ones
ASSUME HandoverConstants ==
    MaxRun \in Nat \ {0} /\ MaxFaults \in Nat

VARIABLES
    at,         \* where each run is in its life
    desired,    \* DESIRED_PORT: the configured one, or the one its predecessor served on
    chosen,     \* PORT, 0 before it is probed
    heir,       \* the run whose relaunch started this one, 0 for a launch
    runtime,    \* the run that runtime.json describes, 0 when there is no file
    files,      \* runs whose run file lies in .sentinel
    before,     \* the run files from before the last boot of the machine
    crashed,    \* observed: the armed runs that ended without a shutdown
    reported,   \* the runs a boot took for crashed: each put one boot in safe mode
    overlapped, \* observed: a run began while another was still booting
    missed,     \* observed: a launch's probe missed a daemon that serves
    beside,     \* observed: the last run to pass its guard found another past it
    last,       \* observed: the last run to write the pointer
    foreign,    \* another program holds the configured port
    faults

hoVars == <<at, desired, chosen, heir, runtime, files, before, crashed, reported,
            overlapped, missed, beside, last, foreign, faults>>

---------------------------------------------------------------------------------------
Booting == {"guard", "wait", "probe", "arm", "publish", "bind"}
Served(p) == \E r \in Runs : at[r] \in {"serve", "hand", "drain", "swept"} /\ chosen[r] = p
Bound(p) == Served(p) \/ (p = 1 /\ foreign)
Gone(r) == at[r] = "gone"
Newborn == CHOOSE r \in Runs : at[r] = "none" /\ \A s \in Runs : at[s] = "none" => r <= s
Begin ==
    /\ \E r \in Runs : at[r] = "none"
    /\ overlapped' = (overlapped \/ \E r \in Runs : at[r] \in Booting)
Move(r, from, to) == at[r] = from /\ at' = [at EXCEPT ![r] = to]
Others == UNCHANGED <<files, before, crashed, reported, faults, foreign>>
KeepFiles == Others /\ UNCHANGED overlapped
Apart == UNCHANGED <<missed, beside, last>>

\* The runs that are past the guard (or the wait for the port) and not yet stopping.
Past == {r \in Runs : at[r] \in {"probe", "arm", "publish", "bind", "serve", "hand"}}
Passes == beside' = (Past # {})

\* clearInstanceInfo, on a clean stop and on every process exit: only its own pointer.
\* What if: it removed whatever pointer there is.
ForgetPointer(r) == runtime' = 0

ClearPointer(r) == runtime' = IF runtime = r THEN 0 ELSE runtime

---------------------------------------------------------------------------------------
HoInit ==
    /\ at = [r \in Runs |-> "none"] /\ desired = [r \in Runs |-> 1]
    /\ chosen = [r \in Runs |-> 0] /\ heir = [r \in Runs |-> 0]
    /\ runtime = 0 /\ files = {} /\ before = {} /\ crashed = {} /\ reported = {} /\ faults = 0
    /\ foreign = FALSE /\ overlapped = FALSE /\ missed = FALSE /\ beside = FALSE /\ last = 0

Launch ==
    /\ Begin /\ at' = [at EXCEPT ![Newborn] = "guard"]
    /\ Apart /\ UNCHANGED <<desired, chosen, heir, runtime>> /\ Others

\* The single-instance guard: one probe of the daemon the pointer names, which one that is
\* alive but busy may miss (the "coin flip" of findLiveInstance).
Seen == runtime # 0 /\ Served(chosen[runtime])
Guard(r) ==
    /\ \/ Seen /\ Move(r, "guard", "gone") /\ UNCHANGED <<missed, beside>>
       \/ Move(r, "guard", "probe") /\ missed' = (missed \/ Seen) /\ Passes
    /\ UNCHANGED <<desired, chosen, heir, runtime, last>> /\ KeepFiles

\* A successor waits until its port is free, or 8 s; its predecessor has begun to close
\* by then.
AwaitPort(r) ==
    /\ Move(r, "wait", "probe")
    /\ ~Bound(desired[r]) \/ at[heir[r]] # "hand"
    /\ Passes
    /\ UNCHANGED <<desired, chosen, heir, runtime, missed, last>> /\ KeepFiles

\* findFreePort: the first free port from the desired one on, given back at once.
Probe(r) ==
    /\ Move(r, "probe", "arm")
    /\ \E p \in Ports :
           /\ p >= desired[r] /\ ~Bound(p) /\ \A q \in desired[r] .. (p - 1) : Bound(q)
           /\ chosen' = [chosen EXCEPT ![r] = p]
    /\ Apart /\ UNCHANGED <<desired, heir, runtime>> /\ KeepFiles

\* What if: a file whose owner still runs were taken for a crash.
ArmOverSiblings(r) ==
    /\ Move(r, "arm", "publish")
    /\ reported' = reported \cup (files \ before)
    /\ files' = {r} /\ before' = {}
    /\ Apart /\ UNCHANGED <<desired, chosen, heir, runtime, crashed, faults, foreign, overlapped>>

\* armCrashSentinel: a file from before the last boot is dropped, one of a live sibling
\* kept, any other is a crash that puts this boot in safe mode.
Arm(r) ==
    /\ Move(r, "arm", "publish")
    /\ reported' = reported \cup {s \in files \ before : Gone(s)}
    /\ files' = {s \in files \ before : ~Gone(s)} \cup {r} /\ before' = {}
    /\ Apart /\ UNCHANGED <<desired, chosen, heir, runtime, crashed, faults, foreign, overlapped>>

\* writeInstanceInfo, and the cleanup is registered: before the bind.
Publish(r) ==
    /\ Move(r, "publish", "bind") /\ runtime' = r /\ last' = r
    /\ UNCHANGED <<desired, chosen, heir, missed, beside>> /\ KeepFiles

Bind(r) ==
    /\ ~Bound(chosen[r]) /\ Move(r, "bind", "serve")
    /\ Apart /\ UNCHANGED <<desired, chosen, heir, runtime>> /\ KeepFiles

\* The port was taken in between: an uncaught throw, so a crash with its cleanup.
BindFails(r) ==
    /\ Bound(chosen[r]) /\ Move(r, "bind", "gone")
    /\ ClearPointer(r) /\ crashed' = crashed \cup {r}
    /\ Apart /\ UNCHANGED <<desired, chosen, heir, files, before, reported, faults, foreign,
                             overlapped>>

\* The update's relaunch spawns a successor for the port that is served; the shutdown
\* follows in 0.8 s.
\* What if: the successor asked the guard like a launch.
RelaunchGuarded(r) ==
    /\ Begin /\ at[r] = "serve"
    /\ at' = [at EXCEPT ![r] = "hand", ![Newborn] = "guard"]
    /\ desired' = [desired EXCEPT ![Newborn] = chosen[r]]
    /\ heir' = [heir EXCEPT ![Newborn] = r]
    /\ Apart /\ UNCHANGED <<chosen, runtime>> /\ Others

Relaunch(r) ==
    /\ Begin /\ at[r] = "serve"
    /\ at' = [at EXCEPT ![r] = "hand", ![Newborn] = "wait"]
    /\ desired' = [desired EXCEPT ![Newborn] = chosen[r]]
    /\ heir' = [heir EXCEPT ![Newborn] = r]
    /\ Apart /\ UNCHANGED <<chosen, runtime>> /\ Others

\* ... or the sentinel were disarmed at the end of a shutdown, not first.
ShutdownArmed(r) ==
    /\ Move(r, "serve", "drain") \/ Move(r, "hand", "drain")
    /\ Apart /\ UNCHANGED <<desired, chosen, heir, runtime>> /\ KeepFiles

\* shutdown(): disarm first; then the settings are flushed, ...
Shutdown(r) ==
    /\ Move(r, "serve", "drain") \/ Move(r, "hand", "drain")
    /\ files' = files \ {r}
    /\ Apart /\ UNCHANGED <<desired, chosen, heir, runtime, before, crashed, reported, faults,
                             foreign, overlapped>>

\* ... the pointer is cleared and the processes are stopped, with the port still held.
Sweep(r) ==
    /\ Move(r, "drain", "swept") /\ ClearPointer(r)
    /\ Apart /\ UNCHANGED <<desired, chosen, heir>> /\ KeepFiles

Exit(r) ==
    /\ Move(r, "swept", "gone") /\ ClearPointer(r)
    /\ Apart /\ UNCHANGED <<desired, chosen, heir>> /\ KeepFiles

\* An uncaught throw (the exit handler still runs, once registered) or a kill.
Armed(r) == at[r] \in {"publish", "bind", "serve", "hand"}
Dies(r) ==
    /\ at[r] \notin {"none", "gone"} /\ faults < MaxFaults /\ faults' = faults + 1
    /\ at' = [at EXCEPT ![r] = "gone"]
    /\ crashed' = IF Armed(r) THEN crashed \cup {r} ELSE crashed
    /\ ClearPointer(r) \/ UNCHANGED runtime
    /\ Apart /\ UNCHANGED <<desired, chosen, heir, files, before, reported, foreign, overlapped>>

\* The machine restarts: what had not been reported by then is no crash any more.
Reboot ==
    /\ faults < MaxFaults /\ faults' = faults + 1
    /\ at' = [r \in Runs |-> IF at[r] = "none" THEN "none" ELSE "gone"]
    /\ before' = files /\ crashed' = crashed \cap reported
    /\ Apart /\ UNCHANGED <<desired, chosen, heir, runtime, files, reported, foreign, overlapped>>

\* Another program takes the configured port, or gives it back.
ForeignTurns ==
    /\ foreign' = ~foreign /\ (foreign' => ~Served(1))
    /\ Apart /\ UNCHANGED <<at, desired, chosen, heir, runtime, files, before, crashed, reported,
                             overlapped, faults>>

---------------------------------------------------------------------------------------
Boots(r) == Guard(r) \/ AwaitPort(r) \/ Probe(r) \/ Arm(r) \/ Publish(r) \/ Bind(r) \/ BindFails(r)

HoNext ==
    \/ Launch \/ Reboot \/ ForeignTurns
    \/ \E r \in Runs : Boots(r) \/ Relaunch(r) \/ Shutdown(r) \/ Sweep(r) \/ Exit(r) \/ Dies(r)

\* A process that runs goes on, and the timer of a handover fires.
Proceeds(r) == Boots(r) \/ Sweep(r) \/ Exit(r) \/ (at[r] = "hand" /\ Shutdown(r))
HoFairness == \A r \in Runs : WF_hoVars(Proceeds(r))
HoSpec == HoInit /\ [][HoNext]_hoVars /\ HoFairness

---------------------------------------------------------------------------------------
\* What each piece of state holds.
HoTypeOK ==
    /\ at \in [Runs -> Booting \cup {"none", "serve", "hand", "drain", "swept", "gone"}]
    /\ desired \in [Runs -> Ports] /\ chosen \in [Runs -> Ports \cup {0}]
    /\ heir \in [Runs -> Runs \cup {0}] /\ runtime \in Runs \cup {0}
    /\ files \subseteq Runs /\ before \subseteq files

\* Who finds the daemon by runtime.json, across launches that are refused or let through by
\* a probe that missed, stops that take their time, handovers, crashes and kills. A daemon
\* that serves is the one the file describes, unless two were alive past their guard. Of
\* several, the last to write the file keeps it: whoever exits late does not take its
\* successor's pointer. And there are several only when two booted at once or the one probe
\* of a guard missed a live daemon.
PointerLeads ==
    /\ ~beside => \A r \in Runs : at[r] = "serve" => runtime = r
    /\ last # 0 /\ at[last] \in {"bind", "serve", "hand"} => runtime = last
    /\ beside => overlapped \/ missed

\* Every run that ended without a shutdown puts exactly one later boot in safe mode, and
\* nothing else does: not a stop cut short, not a sibling still handing over, not a reboot.
CrashIsReported ==
    /\ crashed = reported \cup {r \in files \ before : Gone(r)}
    /\ reported \cap files = {}

\* An update never ends with no daemon: once a successor has been spawned, a successor
\* comes to serve, unless something crashed, was killed or was launched beside it.
RelaunchLeavesOne ==
    (\E s \in Runs : heir[s] # 0 /\ at[s] \in Booting)
        ~> (\/ faults > 0 \/ crashed # {} \/ overlapped
            \/ \E s \in Runs : heir[s] # 0 /\ at[s] = "serve")

\* index.ts: "if a DevWebUI daemon is already serving, don't start a second one".
OneServes == Cardinality({r \in Runs : at[r] = "serve"}) <= 1

\* instance-pointer.mjs on clearInstanceInfo: "a deleted live one strands a daemon nobody can
\* see": the daemon that serves is never without its pointer.
NeverStranded == (\E r \in Runs : at[r] = "serve") => runtime # 0
================================================================================
