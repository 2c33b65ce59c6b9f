-------------------------- MODULE Lifecycle_proofs --------------------------
(***************************************************************************)
(* Theorems about Lifecycle, for every set of processes and callers and    *)
(* every value of the bounds.                                              *)
(***************************************************************************)
EXTENDS Lifecycle, TLAPS

EntryType ==
  /\ status \in [Procs -> Status]
  /\ child \in [Procs -> Nat]
  /\ pid \in [Procs -> Nat]
  /\ stopping \in [Procs -> BOOLEAN]
  /\ pendingStart \in [Procs -> BOOLEAN]
  /\ stopTimer \in [Procs -> Nat]
  /\ gen \in [Procs -> Nat]

OsType ==
  /\ spawned \in [Procs -> Nat]
  /\ alive \in [Procs -> SUBSET Nat]
  /\ exits \subseteq Exit
  /\ kills \subseteq Kill

LEMMA StepTypes ==
  ASSUME NEW p \in Procs, NEW o, NEW s \in Steps
  PROVE  FirstStep(p) \in Steps /\ StepAfterCompose(p) \in Steps
         /\ StepAfterWait(p) \in Steps /\ StepStatus(s, o) \in Status
BY DEF FirstStep, StepAfterCompose, StepAfterWait, Steps, Kinds, StepStatus,
       SpawnStatus, Status

LEMMA EnterStepType ==
  ASSUME TypeOK, NEW E \in SUBSET Procs, NEW step \in [Procs -> Steps],
         NEW g, NEW out \in Outs, EnterStep(E, step, g, out)
  PROVE  /\ status' \in [Procs -> Status]
         /\ pendingStart' \in [Procs -> BOOLEAN]
         /\ child' \in [Procs -> Nat] /\ pid' \in [Procs -> Nat]
         /\ spawned' \in [Procs -> Nat] /\ alive' \in [Procs -> SUBSET Nat]
         /\ exits' \subseteq Exit
<1> DEFINE Spawn == {p \in E : step[p] = "spawn"}
           Handle == {p \in Spawn : out[p] # "throw"}
           Live == {p \in Spawn : out[p] = "ok"}
<1>1. status' \in [Procs -> Status]
  <2>1. \A p \in Procs : StepStatus(step[p], out[p]) \in Status
    BY StepTypes DEF Outs
  <2> QED BY <2>1 DEF EnterStep, TypeOK
<1>2. exits' \subseteq Exit
  <2>1. exits' = exits \cup {[proc |-> p, child |-> spawned[p] + 1, code |-> "error"] :
                               p \in Handle \ Live}
    BY DEF EnterStep
  <2>2. \A p \in Handle : spawned[p] + 1 \in Nat
    BY DEF TypeOK
  <2> QED BY <2>1, <2>2 DEF TypeOK, Exit, Codes
<1>3. /\ child' \in [Procs -> Nat] /\ pid' \in [Procs -> Nat]
      /\ spawned' \in [Procs -> Nat]
  BY DEF EnterStep, TypeOK
<1>4. alive' \in [Procs -> SUBSET Nat]
  BY DEF EnterStep, TypeOK
<1>5. pendingStart' \in [Procs -> BOOLEAN]
  BY DEF EnterStep, TypeOK
<1> QED BY <1>1, <1>2, <1>3, <1>4, <1>5

LEMMA AwaitType ==
  ASSUME TypeOK, NEW E \in SUBSET Procs, NEW step \in [Procs -> Steps],
         NEW g \in [Procs -> Nat]
  PROVE  AwaitOf(E, step, g) \subseteq Task
BY DEF AwaitOf, Task, TypeOK, Steps, Kinds

LEMMA StartAllType ==
  ASSUME TypeOK, NEW S \in SUBSET Procs, NEW out \in Outs, StartAll(S, out)
  PROVE  /\ registered' \subseteq Procs /\ inc' \in [Procs -> Nat]
         /\ EntryType' /\ OsType' /\ tasks' \subseteq Task
<1> DEFINE E == {p \in S : Startable(p)}
           first == [p \in Procs |-> FirstStep(p)]
           g == [p \in Procs |-> IF p \in E THEN gen[p] + 1 ELSE gen[p]]
<1>1. first \in [Procs -> Steps]
  BY StepTypes DEF Steps
<1>2. g \in [Procs -> Nat]
  BY DEF TypeOK
<1>3. EnterStep(E, first, g, out) /\ gen' = g /\ tasks' = tasks \cup AwaitOf(E, first, g)
  BY DEF StartAll
<1>4. AwaitOf(E, first, g) \subseteq Task
  BY <1>1, <1>2, AwaitType
<1>5. stopping' \in [Procs -> BOOLEAN] /\ stopTimer' \in [Procs -> Nat]
  BY DEF StartAll, TypeOK
<1>6. UNCHANGED <<registered, inc, kills>>
  BY DEF StartAll
<1> HIDE DEF E, first, g
<1>7. /\ status' \in [Procs -> Status]
      /\ pendingStart' \in [Procs -> BOOLEAN]
      /\ child' \in [Procs -> Nat] /\ pid' \in [Procs -> Nat]
      /\ spawned' \in [Procs -> Nat] /\ alive' \in [Procs -> SUBSET Nat]
      /\ exits' \subseteq Exit
  <2>1. E \in SUBSET Procs
    BY DEF E
  <2> QED BY <1>1, <1>3, <2>1, EnterStepType
<1> QED BY <1>2, <1>3, <1>4, <1>5, <1>6, <1>7 DEF EntryType, OsType, TypeOK

LEMMA NextStepType ==
  ASSUME TypeOK, NEW t \in tasks, NEW s \in Steps, NEW out \in Outs, NextStep(t, s, out)
  PROVE  /\ registered' \subseteq Procs /\ inc' \in [Procs -> Nat]
         /\ EntryType' /\ OsType' /\ tasks' \subseteq Task
<1> DEFINE step == [p \in Procs |-> s]
           g == [p \in Procs |-> t.gen]
<1>1. t.proc \in Procs /\ t.gen \in Nat
  BY DEF TypeOK, Task
<1>2. step \in [Procs -> Steps] /\ g \in [Procs -> Nat]
  BY <1>1
<1>3. /\ EnterStep({t.proc}, step, g, out)
      /\ tasks' = (tasks \ {t}) \cup AwaitOf({t.proc}, step, g)
      /\ UNCHANGED <<registered, inc, stopping, stopTimer, gen, kills>>
  BY DEF NextStep
<1> HIDE DEF step, g
<1>4. AwaitOf({t.proc}, step, g) \subseteq Task
  BY <1>1, <1>2, AwaitType
<1>5. /\ status' \in [Procs -> Status]
      /\ pendingStart' \in [Procs -> BOOLEAN]
      /\ child' \in [Procs -> Nat] /\ pid' \in [Procs -> Nat]
      /\ spawned' \in [Procs -> Nat] /\ alive' \in [Procs -> SUBSET Nat]
      /\ exits' \subseteq Exit
  BY <1>1, <1>2, <1>3, EnterStepType
<1> QED BY <1>3, <1>4, <1>5 DEF EntryType, OsType, TypeOK

LEMMA EndStartType ==
  ASSUME TypeOK, NEW t \in tasks, NEW st \in Status, EndStart(t, st)
  PROVE  /\ registered' \subseteq Procs /\ inc' \in [Procs -> Nat]
         /\ EntryType' /\ OsType' /\ tasks' \subseteq Task
BY DEF EndStart, EntryType, OsType, TypeOK, osVars

LEMMA DropTaskType ==
  ASSUME TypeOK, NEW t \in tasks, DropTask(t)
  PROVE  /\ registered' \subseteq Procs /\ inc' \in [Procs -> Nat]
         /\ EntryType' /\ OsType' /\ tasks' \subseteq Task
BY DEF DropTask, EntryType, OsType, TypeOK, entryVars, osVars

LEMMA ResumedType ==
  ASSUME TypeOK, NEW P
  PROVE  ResumedRestarts(P) \in [Callers -> Restart]
         /\ ResumedSweep(P) \in [ids : SUBSET Procs, wait : SUBSET Procs]
BY DEF ResumedRestarts, ResumedSweep, TypeOK, Restart, RestartAt

LEMMA StopProcessType ==
  ASSUME TypeOK, NEW S \in SUBSET Procs, StopProcess(S)
  PROVE  /\ registered' \subseteq Procs /\ inc' \in [Procs -> Nat]
         /\ EntryType' /\ OsType' /\ tasks' \subseteq Task
         /\ queued' \subseteq Procs /\ wanted' \in [Procs -> BOOLEAN]
<1>1. Signalled(S) \subseteq Procs
  BY DEF Signalled, Terminated, Registered, TypeOK
<1>2. {[kind |-> "term", proc |-> p, child |-> child[p]] : p \in Signalled(S)} \subseteq Kill
  BY <1>1 DEF Kill, TypeOK
<1>3. kills' \subseteq Kill
  BY <1>2 DEF StopProcess, TypeOK
<1>4. status' \in [Procs -> Status]
  BY DEF StopProcess, TypeOK, Status
<1>5. gen' \in [Procs -> Nat] /\ child' \in [Procs -> Nat] /\ pid' \in [Procs -> Nat]
  BY DEF StopProcess, TypeOK
<1>6. stopTimer' \in [Procs -> Nat]
  BY DEF StopProcess, TypeOK
<1>7. /\ pendingStart' \in [Procs -> BOOLEAN] /\ stopping' \in [Procs -> BOOLEAN]
      /\ wanted' \in [Procs -> BOOLEAN] /\ queued' \subseteq Procs
  BY DEF StopProcess, CancelQueuedStart, TypeOK
<1> QED BY <1>3, <1>4, <1>5, <1>6, <1>7 DEF StopProcess, EntryType, OsType, TypeOK

LEMMA FinishType ==
  ASSUME TypeOK, NEW p \in Procs, NEW st \in Status, Finish(p, st)
  PROVE  /\ registered' \subseteq Procs /\ inc' \in [Procs -> Nat] /\ EntryType'
         /\ restarts' \in [Callers -> Restart]
         /\ sweep' \in [ids : SUBSET Procs, wait : SUBSET Procs]
BY ResumedType DEF Finish, EntryType, TypeOK

LEMMA StartBatchType ==
  ASSUME TypeOK, NEW N \in SUBSET Procs, NEW B \in SUBSET Procs, NEW out \in Outs,
         StartBatch(N, B, out)
  PROVE  /\ registered' \subseteq Procs /\ inc' \in [Procs -> Nat]
         /\ EntryType' /\ OsType' /\ tasks' \subseteq Task
         /\ queued' \subseteq Procs /\ wanted' \in [Procs -> BOOLEAN]
<1>1. CASE B = {} \/ CycleMembers(B) # {}
  <2>1. StartAll(N, out) /\ queued' \subseteq queued /\ wanted' \in [Procs -> BOOLEAN]
    BY <1>1 DEF StartBatch, TypeOK
  <2> QED BY <2>1, StartAllType DEF TypeOK
<1>2. CASE ~(B = {} \/ CycleMembers(B) # {})
  <2>1. PICK f \in B :
          LET Begin == {p \in N \cup ({f} \ queued) : Startable(p)}
              Queue == {p \in B \ (N \cup {f}) : Queueable(p)}
          IN /\ StartAll(Begin, out)
             /\ queued' = (queued \ Begin) \cup Queue
             /\ wanted' = [p \in Procs |-> wanted[p] \/ p \in Begin \cup Queue]
    BY <1>2 DEF StartBatch
  <2>2. {p \in N \cup ({f} \ queued) : Startable(p)} \in SUBSET Procs
    OBVIOUS
  <2> QED BY <2>1, <2>2, StartAllType DEF TypeOK
<1> QED BY <1>1, <1>2

LEMMA IdleType == Idle \in Restart
BY DEF Idle, RestartAt, Restart

LEMMA TaskStepType ==
  ASSUME TypeOK, TaskDone
  PROVE  TypeOK'
<1> PICK t \in tasks, out \in Outs :
       \/ \E ok \in BOOLEAN : ComposeDone(t, ok, out) \/ WaitDone(t, ok, out)
       \/ FreeDone(t, out)
  BY DEF TaskDone, PortDone
<1>1. t \in Task /\ t.proc \in Procs
  BY DEF TypeOK, Task
<1>2. UNCHANGED <<callVars, queued, wanted, calls>>
  BY DEF ComposeDone, WaitDone, FreeDone
<1> DEFINE Typed == /\ registered' \subseteq Procs /\ inc' \in [Procs -> Nat]
                    /\ EntryType' /\ OsType' /\ tasks' \subseteq Task
<1>3. \A s \in Steps : Proceed(t, s, out) => Typed
  BY NextStepType, EndStartType DEF Proceed, Status
<1>4. ASSUME NEW ok \in BOOLEAN, ComposeDone(t, ok, out) PROVE Typed
  BY <1>1, <1>3, <1>4, StepTypes, DropTaskType, EndStartType
     DEF ComposeDone, Status, Steps
<1>5. ASSUME NEW ok \in BOOLEAN, WaitDone(t, ok, out) PROVE Typed
  BY <1>1, <1>3, <1>5, StepTypes, DropTaskType, EndStartType
     DEF WaitDone, Status, Steps
<1>6. ASSUME FreeDone(t, out) PROVE Typed
  <2>1. status[t.proc] \in Status /\ "spawn" \in Steps
    BY <1>1 DEF TypeOK, Steps
  <2> QED BY <1>6, <2>1, NextStepType, DropTaskType, EndStartType DEF FreeDone
<1>7. Typed
  BY <1>4, <1>5, <1>6
<1> QED BY <1>2, <1>7 DEF TypeOK, EntryType, OsType, callVars

LEMMA TimerType ==
  ASSUME TypeOK, Timer
  PROVE  TypeOK'
<1>1. ASSUME NEW p \in Procs, StopTimerFires(p) PROVE TypeOK'
  <2>1. ForceKill(p, stopTimer[p]) \subseteq Kill
    BY DEF ForceKill, Kill, TypeOK
  <2> QED BY <1>1, <2>1 DEF StopTimerFires, TypeOK, callVars
<1>2. ASSUME NEW p \in Procs, NEW out \in Outs, QueueTimer(p, out) PROVE TypeOK'
  <2>1. StartAll({p}, out) /\ queued' \subseteq queued /\ UNCHANGED <<callVars, wanted, calls>>
    BY <1>2 DEF QueueTimer
  <2> QED BY <2>1, StartAllType DEF TypeOK, EntryType, OsType, callVars
<1>3. ASSUME NEW c \in Callers, NEW out \in Outs, SettleDone(c, out) PROVE TypeOK'
  <2>1. PICK S \in SUBSET Procs : StartAll(S, out)
    <3>1. NotOvertaken(restarts[c]) => restarts[c].proc \in Procs
      BY DEF NotOvertaken, TypeOK
    <3> QED BY <1>3, <3>1 DEF SettleDone
  <2>2. /\ queued' \subseteq queued /\ UNCHANGED <<sweep, wanted, calls>>
        /\ restarts' = [restarts EXCEPT ![c] = Idle]
    BY <1>3 DEF SettleDone
  <2>3. restarts' \in [Callers -> Restart]
    BY <2>2, IdleType DEF TypeOK
  <2> QED BY <2>1, <2>2, <2>3, StartAllType DEF TypeOK, EntryType, OsType
<1> QED BY <1>1, <1>2, <1>3 DEF Timer

LEMMA OsEventType ==
  ASSUME TypeOK, OsEvent
  PROVE  TypeOK'
<1>1. ASSUME NEW p \in Procs, NEW n \in alive[p], NEW code \in Codes, Die(p, n, code)
      PROVE  TypeOK'
  <2>1. [proc |-> p, child |-> n, code |-> code] \in Exit
    BY DEF Exit, TypeOK
  <2> QED BY <1>1, <2>1 DEF Die, TypeOK, entryVars, callVars
<1>2. ASSUME NEW x \in exits, HandleExit(x) PROVE TypeOK'
  <2>1. x.proc \in Procs /\ ExitStatus(x.proc, x.code) \in Status
    BY DEF TypeOK, Exit, ExitStatus, Status
  <2>2. /\ exits' \subseteq exits
        /\ UNCHANGED <<spawned, alive, kills, queued, tasks, wanted, calls>>
    BY <1>2 DEF HandleExit
  <2>3. \/ Finish(x.proc, ExitStatus(x.proc, x.code))
        \/ UNCHANGED <<entryVars, callVars>>
    BY <1>2 DEF HandleExit
  <2> QED BY <2>1, <2>2, <2>3, FinishType DEF TypeOK, EntryType, entryVars, callVars
<1>3. ASSUME NEW k \in kills, NEW err \in BOOLEAN, TermDone(k, err) PROVE TypeOK'
  <2>1. ForceKill(k.proc, k.child) \subseteq Kill /\ k.proc \in Procs
    BY DEF ForceKill, Kill, TypeOK
  <2>2. kills' \subseteq Kill
    BY <1>3, <2>1 DEF TermDone, TypeOK
  <2>3. stopTimer' \in [Procs -> Nat]
    BY <1>3, <2>1 DEF TermDone, TypeOK
  <2> QED BY <1>3, <2>2, <2>3 DEF TermDone, TypeOK, callVars
<1>4. ASSUME NEW k \in kills, NEW err \in BOOLEAN, KillDone(k, err) PROVE TypeOK'
  <2>1. k.proc \in Procs /\ k.child \in Nat
    BY DEF TypeOK, Kill
  <2>2. /\ kills' \subseteq kills
        /\ UNCHANGED <<spawned, queued, tasks, wanted, calls>>
        /\ alive' = IF err THEN alive ELSE [alive EXCEPT ![k.proc] = @ \ {k.child}]
    BY <1>4 DEF KillDone
  <2>3. exits' \subseteq Exit
    BY <1>4, <2>1 DEF KillDone, Exit, Codes, TypeOK
  <2>4. \/ Finish(k.proc, "crashed") \/ Finish(k.proc, "stopped")
        \/ UNCHANGED <<entryVars, callVars>>
    BY <1>4 DEF KillDone
  <2>5. alive' \in [Procs -> SUBSET Nat]
    BY <2>1, <2>2 DEF TypeOK
  <2>6. "crashed" \in Status /\ "stopped" \in Status
    BY DEF Status
  <2> QED BY <2>1, <2>2, <2>3, <2>4, <2>5, <2>6, FinishType
          DEF TypeOK, EntryType, entryVars, callVars
<1> QED BY <1>1, <1>2, <1>3, <1>4 DEF OsEvent

LEMMA CycleFree ==
  ASSUME NEW p \in Procs
  PROVE  CoStart[p] \in SUBSET Procs
BY ProcsAssumption

LEMMA RequestType ==
  ASSUME TypeOK, Request
  PROVE  TypeOK'
<1> USE DEF Call
<1>0. calls' = calls + 1 => calls' \in Nat
  BY DEF TypeOK
<1>1. ASSUME NEW p \in Procs, NEW out \in Outs, Start(p, out) \/ StartWithLinks(p, out)
      PROVE  TypeOK'
  <2>1. PICK B \in SUBSET Procs : StartBatch({p}, B, out)
    BY <1>1, CycleFree DEF Start, StartWithLinks
  <2>2. UNCHANGED callVars /\ calls' = calls + 1
    BY <1>1 DEF Start, StartWithLinks
  <2> QED BY <1>0, <2>1, <2>2, StartBatchType DEF TypeOK, EntryType, OsType, callVars
<1>2. ASSUME NEW B \in SUBSET Procs, NEW out \in Outs, StartMany(B, out) PROVE TypeOK'
  <2>1. StartBatch({}, B, out) /\ UNCHANGED callVars /\ calls' = calls + 1
    BY <1>2 DEF StartMany
  <2> QED BY <1>0, <2>1, StartBatchType DEF TypeOK, EntryType, OsType, callVars
<1>3. ASSUME NEW S \in SUBSET Procs, Stop(S) PROVE TypeOK'
  BY <1>0, <1>3, StopProcessType, ResumedType DEF Stop, TypeOK, EntryType, OsType
<1>4. ASSUME NEW S \in SUBSET Procs, Discard(S) PROVE TypeOK'
  <2>1. kills' \subseteq Kill
    <3>1. \A p \in Procs : pid[p] \in Nat
      BY DEF TypeOK
    <3> QED BY <1>4, <3>1 DEF Discard, TypeOK, Kill
  <2>2. /\ stopping' \in [Procs -> BOOLEAN] /\ pendingStart' \in [Procs -> BOOLEAN]
        /\ wanted' \in [Procs -> BOOLEAN] /\ registered' \subseteq Procs
        /\ queued' \subseteq Procs
    BY <1>4 DEF Discard, TypeOK
  <2>3. /\ stopTimer' \in [Procs -> Nat] /\ child' \in [Procs -> Nat]
        /\ pid' \in [Procs -> Nat] /\ calls' \in Nat
    BY <1>0, <1>4 DEF Discard, TypeOK
  <2>4. /\ restarts' \in [Callers -> Restart]
        /\ sweep' \in [ids : SUBSET Procs, wait : SUBSET Procs]
    BY <1>4, ResumedType DEF Discard
  <2> QED BY <1>4, <2>1, <2>2, <2>3, <2>4 DEF Discard, TypeOK
<1>5. ASSUME NEW c \in Callers, NEW p \in Procs, RestartCall(c, p) PROVE TypeOK'
  <2>1. /\ StopProcess({p}) /\ calls' = calls + 1
        /\ sweep' = ResumedSweep(Cleared({p}))
        /\ \E at \in {"resolved", "exit"} : restarts' =
             [ResumedRestarts(Cleared({p})) EXCEPT ![c] = RestartAt(at, p, inc[p], 0)]
    BY <1>5 DEF RestartCall
  <2>2. \A at \in {"resolved", "exit"} : RestartAt(at, p, inc[p], 0) \in Restart
    BY DEF RestartAt, Restart, TypeOK
  <2>3. restarts' \in [Callers -> Restart]
    BY <2>1, <2>2, ResumedType
  <2> QED BY <1>0, <2>1, <2>3, StopProcessType, ResumedType DEF TypeOK, EntryType, OsType
<1>6. ASSUME RestartRunning PROVE TypeOK'
  <2>1. PICK R \in SUBSET Procs :
          /\ StopProcess(R) /\ calls' = calls + 1
          /\ restarts' = ResumedRestarts(Cleared(R))
          /\ sweep' = [ids |-> R, wait |-> StillExiting(R)]
    BY <1>6 DEF RestartRunning, TypeOK
  <2>2. StillExiting(R) \subseteq Procs
    BY DEF StillExiting, Registered, TypeOK
  <2> QED BY <1>0, <2>1, <2>2, StopProcessType, ResumedType DEF TypeOK, EntryType, OsType
<1>7. ASSUME NEW p \in Procs, Register(p) PROVE TypeOK'
  BY <1>0, <1>7 DEF Register, TypeOK, Status, osVars, callVars
<1> QED BY <1>1, <1>2, <1>3, <1>4, <1>5, <1>6, <1>7 DEF Request, RunRequest

LEMMA MicrotaskType ==
  ASSUME TypeOK, Microtask
  PROVE  TypeOK'
<1>1. ASSUME NEW c \in Callers, ClaimRestart(c) PROVE TypeOK'
  <2> DEFINE r == restarts[c]
             mine == r.proc \in registered /\ inc[r.proc] = r.inc
  <2>1. restarts' \in [Callers -> Restart]
    <3>1. mine => RestartAt("settle", r.proc, r.inc, gen[r.proc] + 1) \in Restart
      BY DEF RestartAt, Restart, TypeOK
    <3>2. restarts' = [restarts EXCEPT
            ![c] = IF mine THEN RestartAt("settle", r.proc, r.inc, gen[r.proc] + 1) ELSE Idle]
      BY <1>1 DEF ClaimRestart
    <3> QED BY <3>1, <3>2, IdleType DEF TypeOK
  <2>2. gen' \in [Procs -> Nat]
    BY <1>1 DEF ClaimRestart, TypeOK
  <2>3. wanted' \in [Procs -> BOOLEAN]
    BY <1>1 DEF ClaimRestart, TypeOK
  <2> QED BY <1>1, <2>1, <2>2, <2>3 DEF ClaimRestart, TypeOK, osVars
<1>2. ASSUME NEW out \in Outs, SweepResumes(out) PROVE TypeOK'
  <2>1. /\ StartBatch({}, sweep.ids, out) /\ sweep' = [ids |-> {}, wait |-> {}]
        /\ UNCHANGED <<restarts, calls>>
    BY <1>2 DEF SweepResumes
  <2>2. sweep.ids \in SUBSET Procs
    BY DEF TypeOK
  <2> QED BY <2>1, <2>2, StartBatchType DEF TypeOK, EntryType, OsType
<1> QED BY <1>1, <1>2 DEF Microtask

\* Every reachable state is well typed.
THEOREM TypeCorrect == Spec => []TypeOK
<1>1. Init => TypeOK
  BY ProcsAssumption, IdleType DEF Init, TypeOK, Status, Exit, Task, Kill
<1>2. TypeOK /\ [Next]_vars => TypeOK'
  <2> SUFFICES ASSUME TypeOK, [Next]_vars PROVE TypeOK'
    OBVIOUS
  <2>1. CASE Microtask
    BY <2>1, MicrotaskType
  <2>2. CASE EventStep
    BY <2>2, RequestType, TaskStepType, TimerType, OsEventType DEF EventStep
  <2>3. CASE UNCHANGED vars
    BY <2>3 DEF TypeOK, vars, entryVars, osVars, callVars
  <2> QED BY <2>1, <2>2, <2>3 DEF Next
<1> QED BY <1>1, <1>2, PTL DEF Spec

-----------------------------------------------------------------------------
(* The effect of the operators on one process p, as the invariants see it.  *)

\* The entry of p and its children are left alone.
Same(p) ==
  /\ status'[p] = status[p] /\ child'[p] = child[p] /\ pid'[p] = pid[p]
  /\ stopping'[p] = stopping[p] /\ pendingStart'[p] = pendingStart[p]
  /\ stopTimer'[p] = stopTimer[p] /\ gen'[p] = gen[p]
  /\ spawned'[p] = spawned[p] /\ alive'[p] = alive[p]

\* p enters a step of its start: it pends, or it has tried to spawn.
Pends(p) ==
  /\ status'[p] \in {"waiting", "starting"} /\ pendingStart'[p]
  /\ child'[p] = child[p] /\ pid'[p] = pid[p]
  /\ spawned'[p] = spawned[p] /\ alive'[p] = alive[p]

Spawns(p) ==
  /\ ~pendingStart'[p]
  /\ \/ /\ status'[p] = "running" /\ spawned'[p] = spawned[p] + 1
        /\ child'[p] = spawned[p] + 1 /\ pid'[p] = spawned[p] + 1
        /\ alive'[p] = alive[p] \cup {spawned[p] + 1}
     \/ /\ status'[p] = "starting" /\ spawned'[p] = spawned[p] + 1
        /\ child'[p] = spawned[p] + 1 /\ pid'[p] = pid[p] /\ alive'[p] = alive[p]
     \/ /\ status'[p] = "crashed" /\ spawned'[p] = spawned[p]
        /\ child'[p] = child[p] /\ pid'[p] = pid[p] /\ alive'[p] = alive[p]

\* Only a spawn without a pid adds an event, for the child it names.
NewExits(E) ==
  \A x \in exits' : \/ x \in exits
                    \/ x.proc \in E /\ x.child = spawned[x.proc] + 1
                       /\ spawned'[x.proc] = spawned[x.proc] + 1
                       /\ alive'[x.proc] = alive[x.proc]

LEMMA EnterStepEffect ==
  ASSUME TypeOK, NEW E \in SUBSET Procs, NEW step \in [Procs -> Steps],
         NEW g, NEW out \in Outs, EnterStep(E, step, g, out)
  PROVE  /\ \A p \in E : step[p] # "spawn" => Pends(p)
         /\ \A p \in E : step[p] = "spawn" => Spawns(p)
         /\ \A p \in Procs \ E :
              /\ status'[p] = status[p] /\ child'[p] = child[p] /\ pid'[p] = pid[p]
              /\ pendingStart'[p] = pendingStart[p]
              /\ spawned'[p] = spawned[p] /\ alive'[p] = alive[p]
         /\ NewExits(E)
<1>1. ASSUME NEW p \in E, step[p] # "spawn" PROVE Pends(p)
  BY <1>1 DEF EnterStep, Pends, StepStatus, SpawnStatus, TypeOK
<1>2. ASSUME NEW p \in E, step[p] = "spawn" PROVE Spawns(p)
  <2>1. out[p] \in {"ok", "nopid", "throw"}
    BY ProcsAssumption DEF Outs
  <2> QED BY <1>2, <2>1 DEF EnterStep, Spawns, StepStatus, SpawnStatus, TypeOK
<1>3. ASSUME NEW p \in Procs \ E
      PROVE  /\ status'[p] = status[p] /\ child'[p] = child[p] /\ pid'[p] = pid[p]
             /\ pendingStart'[p] = pendingStart[p]
             /\ spawned'[p] = spawned[p] /\ alive'[p] = alive[p]
  BY <1>3 DEF EnterStep, TypeOK
<1>4. NewExits(E)
  BY DEF EnterStep, NewExits, TypeOK
<1> QED BY <1>1, <1>2, <1>3, <1>4

\* A process of S that start() accepts.
Starts(p, S) ==
  /\ p \in S /\ Startable(p)
  /\ gen'[p] = gen[p] + 1 /\ stopping'[p] = FALSE /\ stopTimer'[p] = 0
  /\ \/ Spawns(p)
     \/ /\ Pends(p)
        /\ \E t \in tasks' : t.proc = p /\ t.inc = inc[p] /\ t.gen = gen[p] + 1

\* New tasks are of accepted starts, under their new generation.
NewTasks(S) ==
  \A t \in tasks' : \/ t \in tasks
                    \/ t.proc \in S /\ t.inc = inc[t.proc] /\ t.gen = gen'[t.proc]

LEMMA StartAllEffect ==
  ASSUME TypeOK, NEW S \in SUBSET Procs, NEW out \in Outs, StartAll(S, out)
  PROVE  /\ \A p \in Procs : Same(p) \/ Starts(p, S)
         /\ NewTasks(S) /\ tasks \subseteq tasks'
         /\ NewExits({p \in S : Startable(p)}) /\ exits \subseteq exits'
         /\ UNCHANGED <<registered, inc, kills>>
<1> DEFINE E == {p \in S : Startable(p)}
           first == [p \in Procs |-> FirstStep(p)]
           g == [p \in Procs |-> IF p \in E THEN gen[p] + 1 ELSE gen[p]]
<1>1. first \in [Procs -> Steps] /\ E \in SUBSET Procs
  BY StepTypes DEF Steps
<1>2. EnterStep(E, first, g, out) /\ gen' = g /\ tasks' = tasks \cup AwaitOf(E, first, g)
  BY DEF StartAll
<1>3. /\ UNCHANGED <<registered, inc, kills>>
      /\ \A p \in Procs : stopping'[p] = IF p \in E THEN FALSE ELSE stopping[p]
      /\ \A p \in Procs : stopTimer'[p] = IF p \in E THEN 0 ELSE stopTimer[p]
      /\ \A p \in Procs : gen'[p] = IF p \in E THEN gen[p] + 1 ELSE gen[p]
  BY DEF StartAll
<1>4. exits \subseteq exits'
  BY <1>2 DEF EnterStep
<1>5. \A p \in E : first[p] # "spawn" =>
        \E t \in tasks' : t.proc = p /\ t.inc = inc[p] /\ t.gen = gen[p] + 1
  <2> SUFFICES ASSUME NEW p \in E, first[p] # "spawn"
               PROVE  \E t \in tasks' : t.proc = p /\ t.inc = inc[p] /\ t.gen = gen[p] + 1
    OBVIOUS
  <2> DEFINE t == [kind |-> first[p], proc |-> p, inc |-> inc[p], gen |-> g[p]]
  <2>1. t \in AwaitOf(E, first, g)
    BY DEF AwaitOf
  <2>2. t.proc = p /\ t.inc = inc[p] /\ t.gen = gen[p] + 1
    BY <1>1
  <2> HIDE DEF t
  <2> QED BY <1>2, <2>1, <2>2
<1>6. NewTasks(S)
  BY <1>1, <1>2 DEF NewTasks, AwaitOf
<1> HIDE DEF first, g
<1>7. \A p \in E : Spawns(p) \/ Pends(p)
  BY <1>1, <1>2, EnterStepEffect
<1>8. \A p \in E : Starts(p, S)
  <2> TAKE p \in E
  <2>1. CASE first[p] = "spawn"
    BY <1>1, <1>2, <1>3, <2>1, EnterStepEffect DEF Starts
  <2>2. CASE first[p] # "spawn"
    BY <1>1, <1>2, <1>3, <1>5, <2>2, EnterStepEffect DEF Starts
  <2> QED BY <2>1, <2>2
<1>9. \A p \in Procs \ E : Same(p)
  BY <1>1, <1>2, <1>3, EnterStepEffect DEF Same
<1>10. NewExits(E)
  BY <1>1, <1>2, EnterStepEffect
<1> QED BY <1>2, <1>3, <1>4, <1>6, <1>8, <1>9, <1>10

\* A continuation that moves its chain on: only its own process changes.
LEMMA NextStepEffect ==
  ASSUME TypeOK, NEW t \in tasks, NEW s \in Steps, s # "compose", NEW out \in Outs,
         NextStep(t, s, out)
  PROVE  /\ \A p \in Procs \ {t.proc} : Same(p)
         /\ \/ Spawns(t.proc)
            \/ /\ Pends(t.proc)
               /\ \E u \in tasks' : u.proc = t.proc /\ u.inc = inc[t.proc] /\ u.kind # "compose"
         /\ \A u \in tasks' : \/ u \in tasks
                              \/ u.proc = t.proc /\ u.inc = inc[t.proc] /\ u.gen = t.gen
         /\ tasks \ {t} \subseteq tasks' /\ exits \subseteq exits'
         /\ NewExits({t.proc})
         /\ UNCHANGED <<registered, inc, stopping, stopTimer, gen, kills>>
<1> DEFINE step == [p \in Procs |-> s]
           g == [p \in Procs |-> t.gen]
           u == [kind |-> s, proc |-> t.proc, inc |-> inc[t.proc], gen |-> t.gen]
<1>1. t.proc \in Procs /\ {t.proc} \in SUBSET Procs /\ step \in [Procs -> Steps]
  BY DEF TypeOK, Task
<1>2. /\ EnterStep({t.proc}, step, g, out)
      /\ tasks' = (tasks \ {t}) \cup AwaitOf({t.proc}, step, g)
      /\ UNCHANGED <<registered, inc, stopping, stopTimer, gen, kills>>
  BY DEF NextStep
<1>3. AwaitOf({t.proc}, step, g) = IF s = "spawn" THEN {} ELSE {u}
  BY <1>1 DEF AwaitOf
<1>4. exits \subseteq exits'
  BY <1>2 DEF EnterStep
<1>5. step[t.proc] = s
  BY <1>1
<1>6. u.proc = t.proc /\ u.inc = inc[t.proc] /\ u.gen = t.gen /\ u.kind = s
  OBVIOUS
<1> HIDE DEF step, g, u
<1>7. /\ s # "spawn" => Pends(t.proc)
      /\ s = "spawn" => Spawns(t.proc)
      /\ NewExits({t.proc})
  BY <1>1, <1>2, <1>5, EnterStepEffect
<1>8. \A p \in Procs \ {t.proc} : Same(p)
  BY <1>1, <1>2, EnterStepEffect DEF Same
<1>9. \A v \in tasks' : \/ v \in tasks
                        \/ v.proc = t.proc /\ v.inc = inc[t.proc] /\ v.gen = t.gen
  BY <1>2, <1>3, <1>6
<1>10. s # "spawn" => u \in tasks'
  BY <1>2, <1>3
<1> QED BY <1>2, <1>4, <1>6, <1>7, <1>8, <1>9, <1>10

-----------------------------------------------------------------------------
(* The part of the invariant that concerns one entry at a time.             *)

LocalAt(p) == Named(p) /\ (p \in registered => CoherentEntry(p))
Local == \A p \in Procs : LocalAt(p)

LEMMA LocalMeaning == TypeOK => (Local <=> Names /\ StatusCoherent)
BY DEF Local, LocalAt, Names, StatusCoherent, TypeOK

LEMMA SameLocal ==
  ASSUME NEW p, LocalAt(p), Same(p), UNCHANGED registered
  PROVE  LocalAt(p)'
BY DEF LocalAt, Named, CoherentEntry, Same

\* A start step keeps the entry coherent if no child and no stop was there.
LEMMA EnterLocal ==
  ASSUME TypeOK, NEW p \in registered, LocalAt(p), UNCHANGED registered,
         child[p] = 0, stopping'[p] = FALSE, stopTimer'[p] = 0, Spawns(p) \/ Pends(p)
  PROVE  LocalAt(p)'
<1> p \in Procs /\ spawned[p] \in Nat
  BY DEF TypeOK
<1>1. CASE Pends(p)
  BY <1>1 DEF Pends, LocalAt, Named, CoherentEntry
<1>2. CASE Spawns(p)
  BY <1>2 DEF Spawns, LocalAt, Named, CoherentEntry
<1> QED BY <1>1, <1>2

LEMMA PendingDown ==
  ASSUME TypeOK, Local, NEW p \in Procs, pendingStart[p]
  PROVE  p \in registered /\ child[p] = 0 /\ pid[p] = 0 /\ stopping[p] = FALSE
         /\ stopTimer[p] = 0
BY DEF Local, LocalAt, Named, CoherentEntry, TypeOK

\* What every step that starts something has in common: processes without a
\* child pend or spawn, nothing else changes and nothing is killed.
GrowsAt(p) ==
  /\ p \in registered /\ child[p] = 0 /\ stopping'[p] = FALSE /\ stopTimer'[p] = 0
  /\ Spawns(p) \/ Pends(p)

Grows ==
  /\ \A p \in Procs : Same(p) \/ GrowsAt(p)
  /\ NewExits(Procs) /\ exits \subseteq exits'
  /\ UNCHANGED <<registered, inc, kills>>

\* A continuation that ends without a child: at most a status and pendingStart.
Rests ==
  /\ UNCHANGED <<registered, inc, child, pid, stopping, stopTimer, gen, osVars>>
  /\ \A p \in Procs : \/ status'[p] = status[p] /\ pendingStart'[p] = pendingStart[p]
                      \/ /\ pendingStart[p] /\ ~pendingStart'[p]
                         /\ status'[p] \in {"stopped", "waiting"}

LEMMA StartAllGrows ==
  ASSUME TypeOK, NEW S \in SUBSET Procs, NEW out \in Outs, StartAll(S, out)
  PROVE  Grows
<1>1. \A p \in Procs : Starts(p, S) => GrowsAt(p)
  BY DEF Starts, Startable, GrowsAt
<1>2. NewExits(Procs)
  BY StartAllEffect DEF NewExits
<1> QED BY <1>1, <1>2, StartAllEffect DEF Grows

\* A batch: start() of S at once, the rest in the queue, all of it wanted.
Batch(S, Q, out) ==
  /\ StartAll(S, out)
  /\ \A p \in Q : Startable(p) /\ p \notin S
  /\ queued' = (queued \ {p \in S : Startable(p)}) \cup Q
  /\ \A p \in Procs : wanted'[p] = (wanted[p] \/ (p \in S /\ Startable(p)) \/ p \in Q)

\* The members StartAll really starts in a batch, with what it records.
LEMMA StartBatchSplit ==
  ASSUME TypeOK, NEW N \in SUBSET Procs, NEW B \in SUBSET Procs, NEW out \in Outs,
         StartBatch(N, B, out)
  PROVE  \E S, Q \in SUBSET Procs : Batch(S, Q, out)
<1>1. CASE B = {} \/ CycleMembers(B) # {}
  <2>1. /\ StartAll(N, out) /\ queued' = queued \ {p \in N : Startable(p)}
        /\ wanted' = [p \in Procs |-> wanted[p] \/ (p \in N /\ Startable(p))]
    BY <1>1 DEF StartBatch
  <2>2. {} \in SUBSET Procs /\ queued' = (queued \ {p \in N : Startable(p)}) \cup {}
    BY <2>1
  <2> QED BY <2>1, <2>2 DEF Batch
<1>2. CASE ~(B = {} \/ CycleMembers(B) # {})
  <2>1. PICK f \in B :
          LET Begin == {p \in N \cup ({f} \ queued) : Startable(p)}
              Queue == {p \in B \ (N \cup {f}) : Queueable(p)}
          IN /\ StartAll(Begin, out)
             /\ queued' = (queued \ Begin) \cup Queue
             /\ wanted' = [p \in Procs |-> wanted[p] \/ p \in Begin \cup Queue]
    BY <1>2 DEF StartBatch
  <2> DEFINE Begin == {p \in N \cup ({f} \ queued) : Startable(p)}
             Queue == {p \in B \ (N \cup {f}) : Queueable(p)}
  <2>2. Begin \in SUBSET Procs /\ Queue \in SUBSET Procs
    OBVIOUS
  <2>3. \A p \in Queue : Startable(p) /\ p \notin Begin
    BY DEF Queueable
  <2>4. Begin = {p \in Begin : Startable(p)}
    OBVIOUS
  <2> QED BY <2>1, <2>2, <2>3, <2>4 DEF Batch
<1> QED BY <1>1, <1>2

LEMMA TaskCases ==
  ASSUME TypeOK, Local, TaskDone
  PROVE  (Grows \/ Rests) /\ UNCHANGED <<callVars, queued, wanted>>
<1> PICK t \in tasks, out \in Outs :
       \/ \E ok \in BOOLEAN : ComposeDone(t, ok, out) \/ WaitDone(t, ok, out)
       \/ FreeDone(t, out)
  BY DEF TaskDone, PortDone
<1>1. t.proc \in Procs
  BY DEF TypeOK, Task
<1>2. DropTask(t) => Rests
  BY DEF DropTask, Rests, entryVars, osVars
<1>3. ASSUME NEW st \in {"stopped", "waiting"}, StillPending(t), EndStart(t, st) PROVE Rests
  BY <1>1, <1>3 DEF EndStart, Rests, StillPending, TypeOK
<1>4. ASSUME NEW s \in Steps \ {"compose"}, StillPending(t), NextStep(t, s, out) PROVE Grows
  <2>1. /\ child[t.proc] = 0 /\ stopping[t.proc] = FALSE /\ stopTimer[t.proc] = 0
        /\ t.proc \in registered
    BY <1>1, <1>4, PendingDown DEF StillPending
  <2>2. /\ \A p \in Procs \ {t.proc} : Same(p)
        /\ Spawns(t.proc) \/ Pends(t.proc)
        /\ NewExits({t.proc}) /\ exits \subseteq exits'
        /\ UNCHANGED <<registered, inc, stopping, stopTimer, kills>>
    BY <1>4, NextStepEffect
  <2>3. NewExits(Procs)
    BY <1>1, <2>2 DEF NewExits
  <2> QED BY <2>1, <2>2, <2>3 DEF Grows, GrowsAt
<1>5. StillPending(t) => /\ child[t.proc] = 0 /\ ~stopping[t.proc]
                         /\ status[t.proc] \in {"waiting", "starting"}
  <2>1. StillPending(t) => CoherentEntry(t.proc)
    BY <1>1 DEF StillPending, Local, LocalAt
  <2> QED BY <1>1, <2>1, PendingDown DEF StillPending, CoherentEntry
<1>6. StepAfterWait(t.proc) \in Steps \ {"compose"} /\ StepAfterCompose(t.proc) \in Steps \ {"compose"}
      /\ "spawn" \in Steps \ {"compose"}
  BY DEF StepAfterWait, StepAfterCompose, Steps, Kinds
<1>7. \A s \in Steps \ {"compose"} : StillPending(t) /\ Proceed(t, s, out) => Grows
  BY <1>4, <1>5 DEF Proceed, MaySpawn
<1>8. UNCHANGED <<callVars, queued, wanted>>
  BY DEF ComposeDone, WaitDone, FreeDone
<1>9. ASSUME NEW ok \in BOOLEAN, ComposeDone(t, ok, out) PROVE Grows \/ Rests
  BY <1>2, <1>3, <1>6, <1>7, <1>9 DEF ComposeDone, StillCurrent
<1>10. ASSUME NEW ok \in BOOLEAN, WaitDone(t, ok, out) PROVE Grows \/ Rests
  BY <1>2, <1>3, <1>6, <1>7, <1>10 DEF WaitDone
<1>11. ASSUME FreeDone(t, out) PROVE Grows \/ Rests
  BY <1>2, <1>3, <1>4, <1>5, <1>6, <1>11 DEF FreeDone, MaySpawn
<1> QED BY <1>8, <1>9, <1>10, <1>11

LEMMA GrowsLocal ==
  ASSUME TypeOK, Local, Grows
  PROVE  Local'
<1> SUFFICES ASSUME NEW p \in Procs PROVE LocalAt(p)'
  BY DEF Local
<1>1. LocalAt(p) /\ UNCHANGED registered /\ (Same(p) \/ GrowsAt(p))
  BY DEF Local, Grows
<1> QED BY <1>1, SameLocal, EnterLocal DEF GrowsAt

LEMMA RestsLocal ==
  ASSUME TypeOK, Local, Rests
  PROVE  Local'
<1> SUFFICES ASSUME NEW p \in Procs PROVE LocalAt(p)'
  BY DEF Local
<1>1. LocalAt(p)
  BY DEF Local
<1> QED BY <1>1, PendingDown DEF Rests, LocalAt, Named, CoherentEntry, osVars

LEMMA StopProcessLocal ==
  ASSUME TypeOK, Local, NEW S \in SUBSET Procs, StopProcess(S)
  PROVE  Local'
<1> SUFFICES ASSUME NEW p \in Procs PROVE LocalAt(p)'
  BY DEF Local
<1>1. LocalAt(p)
  BY DEF Local
<1>2. UNCHANGED <<registered, spawned, alive>>
  BY DEF StopProcess
<1>3. CASE p \in Cancelled(S)
  <2>1. /\ ~pendingStart'[p] /\ status'[p] = "stopped" /\ stopTimer'[p] = 0
        /\ stopping'[p] = stopping[p] /\ child'[p] = child[p] /\ pid'[p] = pid[p]
    BY <1>3 DEF StopProcess, Cancelled, Cleared, Signalled, Terminated, TypeOK
  <2> QED BY <1>1, <1>2, <1>3, <2>1 DEF Cancelled, Registered, LocalAt, Named, CoherentEntry
<1>4. CASE p \in Signalled(S)
  <2>1. /\ pendingStart'[p] = pendingStart[p] /\ status'[p] = "stopping" /\ stopTimer'[p] = child[p]
        /\ stopping'[p] = TRUE /\ child'[p] = child[p] /\ pid'[p] = pid[p]
    BY <1>4 DEF StopProcess, Cancelled, Cleared, Signalled, Terminated, TypeOK
  <2> QED BY <1>1, <1>2, <1>4, <2>1
          DEF Signalled, Terminated, Registered, LocalAt, Named, CoherentEntry
<1>5. CASE p \in Cleared(S)
  <2>1. /\ pendingStart'[p] = pendingStart[p] /\ status'[p] = "stopped" /\ stopTimer'[p] = 0
        /\ stopping'[p] = FALSE /\ child'[p] = 0 /\ pid'[p] = 0
    BY <1>5 DEF StopProcess, Cancelled, Cleared, Signalled, Terminated, TypeOK
  <2>2. spawned[p] \in Nat
    BY DEF TypeOK
  <2> QED BY <1>1, <1>2, <1>5, <2>1, <2>2
          DEF Cleared, Terminated, Registered, LocalAt, Named, CoherentEntry
<1>6. CASE p \notin Cancelled(S) \cup Signalled(S) \cup Cleared(S)
  <2>1. /\ pendingStart'[p] = pendingStart[p] /\ status'[p] = status[p]
        /\ stopTimer'[p] = stopTimer[p] /\ stopping'[p] = stopping[p]
        /\ child'[p] = child[p] /\ pid'[p] = pid[p]
    BY <1>6 DEF StopProcess, TypeOK
  <2> QED BY <1>1, <1>2, <2>1 DEF LocalAt, Named, CoherentEntry
<1> QED BY <1>3, <1>4, <1>5, <1>6

LEMMA FinishLocal ==
  ASSUME TypeOK, Local, NEW q \in Procs, NEW st \in {"stopped", "crashed"}, Finish(q, st),
         child[q] # 0, UNCHANGED spawned, \A p \in Procs : alive'[p] \subseteq alive[p]
  PROVE  Local'
<1> SUFFICES ASSUME NEW p \in Procs PROVE LocalAt(p)'
  BY DEF Local
<1>1. LocalAt(p)
  BY DEF Local
<1>2. CASE p # q
  <2>1. /\ status'[p] = status[p] /\ child'[p] = child[p] /\ pid'[p] = pid[p]
        /\ stopping'[p] = stopping[p] /\ stopTimer'[p] = stopTimer[p]
        /\ UNCHANGED <<registered, pendingStart>>
    BY <1>2 DEF Finish, TypeOK
  <2> QED BY <1>1, <2>1 DEF LocalAt, Named, CoherentEntry
<1>3. CASE p = q
  <2>1. /\ status'[p] = st /\ child'[p] = 0 /\ pid'[p] = 0
        /\ stopping'[p] = FALSE /\ stopTimer'[p] = 0
        /\ UNCHANGED <<registered, pendingStart>>
    BY <1>3 DEF Finish, TypeOK
  <2>2. p \in registered /\ ~pendingStart[p] /\ spawned[p] \in Nat
    BY <1>1, <1>3 DEF LocalAt, Named, CoherentEntry, TypeOK
  <2> QED BY <1>1, <2>1, <2>2 DEF LocalAt, Named, CoherentEntry
<1> QED BY <1>2, <1>3

-----------------------------------------------------------------------------
(* Every step is one of a few shapes.                                       *)

StopShape == \E S \in SUBSET Procs : StopProcess(S)

LEMMA StepShapes ==
  ASSUME TypeOK, Local, Next
  PROVE  \/ Grows \/ Rests \/ StopShape
         \/ \E S \in SUBSET Procs : Discard(S)
         \/ \E p \in Procs : Register(p) \/ StopTimerFires(p)
         \/ \E c \in Callers : ClaimRestart(c)
         \/ \E p \in Procs : \E n \in alive[p], code \in Codes \ {"error"} : Die(p, n, code)
         \/ \E x \in exits : HandleExit(x)
         \/ \E k \in kills, err \in BOOLEAN : TermDone(k, err) \/ KillDone(k, err)
<1>1. ASSUME NEW N \in SUBSET Procs, NEW B \in SUBSET Procs, NEW out \in Outs,
             StartBatch(N, B, out)
      PROVE  Grows
  BY <1>1, StartBatchSplit, StartAllGrows DEF Batch
<1>2. ASSUME Microtask PROVE Grows \/ \E c \in Callers : ClaimRestart(c)
  <2>1. sweep.ids \in SUBSET Procs /\ {} \in SUBSET Procs
    BY DEF TypeOK
  <2> QED BY <1>1, <1>2, <2>1 DEF Microtask, SweepResumes
<1>3. ASSUME Request
      PROVE  \/ Grows \/ StopShape \/ \E S \in SUBSET Procs : Discard(S)
             \/ \E p \in Procs : Register(p)
  <2>1. ASSUME NEW p \in Procs, NEW out \in Outs, Start(p, out) \/ StartWithLinks(p, out)
        PROVE  Grows
    <3>1. \E B \in SUBSET Procs : StartBatch({p}, B, out)
      BY <2>1, CycleFree DEF Start, StartWithLinks
    <3> QED BY <1>1, <3>1
  <2>2. ASSUME NEW B \in SUBSET Procs, NEW out \in Outs, StartMany(B, out) PROVE Grows
    BY <1>1, <2>2 DEF StartMany
  <2>3. ASSUME NEW S \in SUBSET Procs, Stop(S) PROVE StopShape
    BY <2>3 DEF Stop, StopShape
  <2>4. ASSUME NEW c \in Callers, NEW p \in Procs, RestartCall(c, p) PROVE StopShape
    BY <2>4 DEF RestartCall, StopShape
  <2>5. ASSUME RestartRunning PROVE StopShape
    <3>1. {p \in registered : child[p] # 0} \in SUBSET Procs
      BY DEF TypeOK
    <3> QED BY <2>5, <3>1 DEF RestartRunning, StopShape
  <2> QED BY <1>3, <2>1, <2>2, <2>3, <2>4, <2>5 DEF Request, RunRequest
<1>4. ASSUME Timer PROVE Grows \/ \E p \in Procs : StopTimerFires(p)
  <2>1. ASSUME NEW p \in Procs, NEW out \in Outs, QueueTimer(p, out) PROVE Grows
    BY <2>1, StartAllGrows DEF QueueTimer
  <2>2. ASSUME NEW c \in Callers, NEW out \in Outs, SettleDone(c, out) PROVE Grows
    <3>1. NotOvertaken(restarts[c]) => restarts[c].proc \in Procs
      BY DEF NotOvertaken, TypeOK
    <3>2. \E S \in SUBSET Procs : StartAll(S, out)
      BY <2>2, <3>1 DEF SettleDone
    <3> QED BY <3>2, StartAllGrows
  <2> QED BY <1>4, <2>1, <2>2 DEF Timer
<1> QED BY <1>2, <1>3, <1>4, TaskCases DEF Next, EventStep, OsEvent

-----------------------------------------------------------------------------
(* Children and their events.                                               *)

OsInv == DeadExits /\ NoOrphan

LEMMA GrowsOs ==
  ASSUME TypeOK, Local, OsInv, Grows
  PROVE  OsInv'
<1>1. ASSUME NEW p \in Procs
      PROVE  /\ spawned[p] \in Nat /\ spawned[p] <= spawned'[p]
             /\ \A n \in alive'[p] : n \in alive[p] \/ n = spawned[p] + 1
             /\ \A n \in alive[p] : n \in 1..spawned[p]
  BY DEF Grows, GrowsAt, Same, Spawns, Pends, TypeOK, Local, LocalAt, Named
<1>2. DeadExits'
  <2>1. ASSUME NEW x \in exits'
        PROVE  x.child \in 1..spawned'[x.proc] /\ x.child \notin alive'[x.proc]
    <3>1. CASE x \in exits
      <4>1. x.proc \in Procs /\ x.child \in 1..spawned[x.proc] /\ x.child \notin alive[x.proc]
        BY <3>1 DEF OsInv, DeadExits, TypeOK, Exit
      <4>2. spawned'[x.proc] \in Nat
        BY <4>1 DEF Grows, GrowsAt, Same, Spawns, Pends, TypeOK
      <4> QED BY <1>1, <4>1, <4>2
    <3>2. CASE x \notin exits
      <4>1. /\ x.proc \in Procs /\ x.child = spawned[x.proc] + 1
            /\ spawned'[x.proc] = spawned[x.proc] + 1 /\ alive'[x.proc] = alive[x.proc]
        BY <3>2 DEF Grows, NewExits
      <4> QED BY <1>1, <4>1
    <3> QED BY <3>1, <3>2
  <2>2. ASSUME NEW k \in kills' PROVE k.child \in 1..spawned'[k.proc]
    <3>1. k.proc \in Procs /\ k.child \in 1..spawned[k.proc]
      BY DEF Grows, OsInv, DeadExits, TypeOK, Kill
    <3>2. spawned'[k.proc] \in Nat
      BY <3>1 DEF Grows, GrowsAt, Same, Spawns, Pends, TypeOK
    <3> QED BY <1>1, <3>1, <3>2
  <2> QED BY <2>1, <2>2 DEF DeadExits
<1>3. NoOrphan'
  <2> SUFFICES ASSUME ~KillMayFail, NEW p \in Procs, NEW n \in alive'[p]
               PROVE  \/ child'[p] = n /\ pid'[p] = n
                      \/ [kind |-> "reap", proc |-> p, child |-> n] \in kills'
    BY DEF NoOrphan
  <2>1. CASE Same(p)
    BY <2>1 DEF Same, Grows, OsInv, NoOrphan
  <2>2. CASE GrowsAt(p)
    <3>1. n \in alive[p] => [kind |-> "reap", proc |-> p, child |-> n] \in kills'
      BY <1>1, <2>2 DEF GrowsAt, Grows, OsInv, NoOrphan
    <3>2. n \notin alive[p] => child'[p] = n /\ pid'[p] = n
      BY <2>2 DEF GrowsAt, Spawns, Pends
    <3> QED BY <3>1, <3>2
  <2> QED BY <2>1, <2>2 DEF Grows
<1> QED BY <1>2, <1>3 DEF OsInv

LEMMA RestsOs ==
  ASSUME TypeOK, Local, OsInv, Rests
  PROVE  OsInv'
BY DEF Rests, OsInv, DeadExits, NoOrphan, osVars

LEMMA StopProcessOs ==
  ASSUME TypeOK, Local, OsInv, NEW S \in SUBSET Procs, StopProcess(S)
  PROVE  OsInv'
<1>1. UNCHANGED <<spawned, alive, exits>> /\ kills \subseteq kills'
  BY DEF StopProcess
<1>2. ASSUME NEW k \in kills' PROVE k.child \in 1..spawned'[k.proc]
  <2>1. CASE k \in kills
    BY <1>1, <2>1 DEF OsInv, DeadExits
  <2>2. CASE k \notin kills
    <3>1. PICK p \in Signalled(S) : k = [kind |-> "term", proc |-> p, child |-> child[p]]
      BY <2>2 DEF StopProcess
    <3>2. p \in Procs /\ child[p] \in 1..spawned[p]
      BY DEF Signalled, Terminated, Registered, Local, LocalAt, Named, TypeOK
    <3> QED BY <1>1, <3>1, <3>2
  <2> QED BY <2>1, <2>2
<1>3. ASSUME ~KillMayFail, NEW p \in Procs, NEW n \in alive'[p]
      PROVE  \/ child'[p] = n /\ pid'[p] = n
             \/ [kind |-> "reap", proc |-> p, child |-> n] \in kills'
  <2>1. n \in alive[p] /\ n # 0
    BY <1>1 DEF Local, LocalAt, Named
  <2>2. p \notin Cleared(S) => child'[p] = child[p] /\ pid'[p] = pid[p]
    BY DEF StopProcess, TypeOK
  <2>3. p \in Cleared(S) => pid[p] = 0
    BY DEF Cleared, Signalled, TypeOK
  <2> QED BY <1>1, <1>3, <2>1, <2>2, <2>3 DEF OsInv, NoOrphan
<1>4. DeadExits'
  BY <1>1, <1>2 DEF OsInv, DeadExits
<1> QED BY <1>3, <1>4 DEF OsInv, NoOrphan

\* A reaping kill is given up only once its child is gone.
ReapsKept ==
  ~KillMayFail => \A k \in kills : k.kind = "reap" =>
                    k \in kills' \/ k.child \notin alive'[k.proc]

LEMMA FinishOs ==
  ASSUME TypeOK, Local, NEW q \in Procs, NEW st, Finish(q, st), NoOrphan,
         UNCHANGED spawned, DeadExits', \A p \in Procs : alive'[p] \subseteq alive[p],
         ~KillMayFail => child[q] \notin alive'[q], ReapsKept
  PROVE  OsInv'
<1>1. ASSUME ~KillMayFail, NEW p \in Procs, NEW n \in alive'[p]
      PROVE  \/ child'[p] = n /\ pid'[p] = n
             \/ [kind |-> "reap", proc |-> p, child |-> n] \in kills'
  <2> DEFINE k == [kind |-> "reap", proc |-> p, child |-> n]
  <2>0. k.kind = "reap" /\ k.proc = p /\ k.child = n
    OBVIOUS
  <2>1. \/ child[p] = n /\ pid[p] = n
        \/ k \in kills
    BY <1>1 DEF NoOrphan
  <2> HIDE DEF k
  <2>2. k \in kills => k \in kills'
    BY <1>1, <2>0 DEF ReapsKept
  <2>3. child[p] = n => p # q
    BY <1>1
  <2>4. p # q => child'[p] = child[p] /\ pid'[p] = pid[p]
    BY DEF Finish, TypeOK
  <2> USE DEF k
  <2> QED BY <2>1, <2>2, <2>3, <2>4
<1> QED BY <1>1 DEF OsInv, NoOrphan

\* discardEntry: the entry lets go of everything and reaps what was running.
LEMMA DiscardInv ==
  ASSUME TypeOK, Local, OsInv, NEW S \in SUBSET Procs, Discard(S)
  PROVE  Local' /\ OsInv'
<1>1. /\ UNCHANGED <<inc, status, gen, spawned, alive, exits>> /\ kills \subseteq kills'
      /\ S \subseteq registered /\ registered' = registered \ S
  BY DEF Discard
<1>2. ASSUME NEW p \in Procs PROVE LocalAt(p)'
  <2>1. LocalAt(p)
    BY DEF Local
  <2>2. CASE p \in S
    <3>1. child'[p] = 0 /\ pid'[p] = 0 /\ stopTimer'[p] = 0 /\ ~pendingStart'[p]
      BY <2>2 DEF Discard, TypeOK
    <3>2. spawned[p] \in Nat
      BY DEF TypeOK
    <3> QED BY <1>1, <2>1, <2>2, <3>1, <3>2 DEF LocalAt, Named
  <2>3. CASE p \notin S
    <3>1. /\ child'[p] = child[p] /\ pid'[p] = pid[p] /\ stopTimer'[p] = stopTimer[p]
          /\ pendingStart'[p] = pendingStart[p] /\ stopping'[p] = stopping[p]
      BY <2>3 DEF Discard, TypeOK
    <3> QED BY <1>1, <2>1, <2>3, <3>1 DEF LocalAt, Named, CoherentEntry
  <2> QED BY <2>2, <2>3
<1>3. ASSUME NEW k \in kills' PROVE k.child \in 1..spawned'[k.proc]
  <2>1. CASE k \in kills
    BY <1>1, <2>1 DEF OsInv, DeadExits
  <2>2. CASE k \notin kills
    <3>1. PICK p \in S : pid[p] # 0 /\ k = [kind |-> "reap", proc |-> p, child |-> pid[p]]
      BY <2>2 DEF Discard
    <3>2. p \in Procs /\ pid[p] \in 1..spawned[p]
      BY <3>1 DEF Local, LocalAt, Named, TypeOK
    <3> QED BY <1>1, <3>1, <3>2
  <2> QED BY <2>1, <2>2
<1>4. ASSUME ~KillMayFail, NEW p \in Procs, NEW n \in alive'[p]
      PROVE  \/ child'[p] = n /\ pid'[p] = n
             \/ [kind |-> "reap", proc |-> p, child |-> n] \in kills'
  <2>1. n \in alive[p] /\ n # 0
    BY <1>1 DEF Local, LocalAt, Named
  <2>2. p \notin S => child'[p] = child[p] /\ pid'[p] = pid[p]
    BY DEF Discard, TypeOK
  <2>3. p \in S /\ pid[p] = n => [kind |-> "reap", proc |-> p, child |-> n] \in kills'
    BY <2>1 DEF Discard
  <2> QED BY <1>1, <1>4, <2>1, <2>2, <2>3 DEF OsInv, NoOrphan
<1>5. DeadExits'
  BY <1>1, <1>3 DEF OsInv, DeadExits
<1>6. NoOrphan'
  BY <1>4 DEF NoOrphan
<1> QED BY <1>2, <1>5, <1>6 DEF Local, OsInv

LEMMA RegisterInv ==
  ASSUME TypeOK, Local, OsInv, NEW q \in Procs, Register(q)
  PROVE  Local' /\ OsInv'
<1>1. /\ UNCHANGED <<child, pid, pendingStart, stopTimer, spawned, alive, exits, kills>>
      /\ registered' = registered \cup {q} /\ q \notin registered
  BY DEF Register, osVars
<1>2. ASSUME NEW p \in Procs PROVE LocalAt(p)'
  <2>1. LocalAt(p) /\ LocalAt(q)
    BY DEF Local
  <2>2. CASE p = q
    <3>1. status'[p] = "stopped" /\ stopping'[p] = FALSE
      BY <2>2 DEF Register, TypeOK
    <3>2. spawned[p] \in Nat /\ stopTimer[p] \in Nat /\ child[p] = 0 /\ pid[p] = 0 /\ ~pendingStart[p]
      BY <1>1, <2>1, <2>2 DEF LocalAt, Named, TypeOK
    <3>3. stopTimer[p] = 0
      BY <2>1, <3>2 DEF LocalAt, Named
    <3> QED BY <1>1, <2>1, <2>2, <3>1, <3>2, <3>3 DEF LocalAt, Named, CoherentEntry
  <2>3. CASE p # q
    <3>1. status'[p] = status[p] /\ stopping'[p] = stopping[p]
      BY <2>3 DEF Register, TypeOK
    <3> QED BY <1>1, <2>1, <2>3, <3>1 DEF LocalAt, Named, CoherentEntry
  <2> QED BY <2>2, <2>3
<1>3. OsInv'
  BY <1>1 DEF OsInv, DeadExits, NoOrphan
<1> QED BY <1>2, <1>3 DEF Local

\* What a callback of the daemon may ask the OS for: a kill of a child it knows.
LEMMA ForceKillKnown ==
  ASSUME TypeOK, Local, NEW p \in Procs, NEW n, NEW k \in ForceKill(p, n), n # 0
  PROVE  k.proc = p /\ k.child \in 1..spawned[p] /\ k.kind = "kill"
BY DEF ForceKill, Local, LocalAt, Named, TypeOK

\* A step that only clears stop timers and adds kills of known children.
LEMMA KillsInv ==
  ASSUME TypeOK, Local, OsInv,
         UNCHANGED <<registered, status, child, pid, stopping, pendingStart, spawned, alive, exits>>,
         \A p \in Procs : stopTimer'[p] \in {0, stopTimer[p]},
         \A k \in kills' : k \in kills \/ k.child \in 1..spawned[k.proc],
         \A k \in kills : k.kind = "reap" => k \in kills'
  PROVE  Local' /\ OsInv'
<1>1. ASSUME NEW p \in Procs PROVE LocalAt(p)'
  <2>1. LocalAt(p)
    BY DEF Local
  <2> QED BY <2>1 DEF LocalAt, Named, CoherentEntry
<1>2. DeadExits'
  BY DEF OsInv, DeadExits
<1>3. NoOrphan'
  BY DEF OsInv, NoOrphan
<1> QED BY <1>1, <1>2, <1>3 DEF Local, OsInv

LEMMA StopTimerFiresInv ==
  ASSUME TypeOK, Local, OsInv, NEW q \in Procs, StopTimerFires(q)
  PROVE  Local' /\ OsInv'
<1>1. UNCHANGED <<registered, status, child, pid, stopping, pendingStart, spawned, alive, exits>>
  BY DEF StopTimerFires
<1>2. \A p \in Procs : stopTimer'[p] \in {0, stopTimer[p]}
  BY DEF StopTimerFires, TypeOK
<1>3. \A k \in kills' : k \in kills \/ k.child \in 1..spawned[k.proc]
  BY ForceKillKnown DEF StopTimerFires
<1>4. kills \subseteq kills'
  BY DEF StopTimerFires
<1> QED BY <1>1, <1>2, <1>3, <1>4, KillsInv

LEMMA TermDoneInv ==
  ASSUME TypeOK, Local, OsInv, NEW k \in kills, NEW err \in BOOLEAN, TermDone(k, err)
  PROVE  Local' /\ OsInv'
<1>1. UNCHANGED <<registered, status, child, pid, stopping, pendingStart, spawned, alive, exits>>
  BY DEF TermDone
<1>2. \A p \in Procs : stopTimer'[p] \in {0, stopTimer[p]}
  BY DEF TermDone, TypeOK
<1>3. k.proc \in Procs /\ k.child # 0
  BY DEF TypeOK, Kill, OsInv, DeadExits
<1>4. \A l \in kills' : l \in kills \/ l.child \in 1..spawned[l.proc]
  BY <1>3, ForceKillKnown DEF TermDone
<1>5. \A l \in kills : l.kind = "reap" => l \in kills'
  BY DEF TermDone
<1> QED BY <1>1, <1>2, <1>4, <1>5, KillsInv

LEMMA ClaimRestartInv ==
  ASSUME TypeOK, Local, OsInv, NEW c \in Callers, ClaimRestart(c)
  PROVE  Local' /\ OsInv'
<1>1. UNCHANGED <<registered, inc, status, child, pid, stopping, pendingStart, stopTimer, osVars>>
  BY DEF ClaimRestart
<1> QED BY <1>1 DEF Local, LocalAt, Named, CoherentEntry, OsInv, DeadExits, NoOrphan, osVars

LEMMA DieInv ==
  ASSUME TypeOK, Local, OsInv, NEW q \in Procs, NEW n \in alive[q],
         NEW code \in Codes, Die(q, n, code)
  PROVE  Local' /\ OsInv'
<1> DEFINE x == [proc |-> q, child |-> n, code |-> code]
<1>1. /\ UNCHANGED <<registered, inc, status, child, pid, stopping, pendingStart, stopTimer,
                     spawned, kills>>
      /\ exits' = exits \cup {x}
  BY DEF Die, entryVars
<1>2. \A p \in Procs : alive'[p] = IF p = q THEN alive[p] \ {n} ELSE alive[p]
  BY DEF Die, TypeOK
<1>3. Local'
  BY <1>1, <1>2 DEF Local, LocalAt, Named, CoherentEntry
<1>4. x.proc = q /\ x.child = n
  OBVIOUS
<1> HIDE DEF x
<1>5. n \in 1..spawned[q]
  BY DEF Local, LocalAt, Named
<1>6. \A y \in exits : y.proc \in Procs
  BY DEF TypeOK, Exit
<1>7. DeadExits'
  BY <1>1, <1>2, <1>4, <1>5, <1>6 DEF OsInv, DeadExits
<1>8. NoOrphan'
  BY <1>1, <1>2 DEF OsInv, NoOrphan
<1> QED BY <1>3, <1>7, <1>8 DEF OsInv

LEMMA ExitStatusType ==
  ASSUME NEW p, NEW code
  PROVE  ExitStatus(p, code) \in {"stopped", "crashed"}
BY DEF ExitStatus

LEMMA HandleExitInv ==
  ASSUME TypeOK, Local, OsInv, NEW x \in exits, HandleExit(x)
  PROVE  Local' /\ OsInv'
<1>1. UNCHANGED <<spawned, alive, kills>> /\ exits' \subseteq exits
  BY DEF HandleExit
<1>2. x.proc \in Procs /\ x.child # 0 /\ x.child \notin alive[x.proc]
  BY DEF TypeOK, Exit, OsInv, DeadExits
<1>3. DeadExits'
  BY <1>1 DEF OsInv, DeadExits
<1>4. CASE IsCurrentChild(x.proc, x.child)
  <2>1. Finish(x.proc, ExitStatus(x.proc, x.code)) /\ child[x.proc] = x.child
    BY <1>4 DEF HandleExit, IsCurrentChild
  <2>2. \A p \in Procs : alive'[p] \subseteq alive[p]
    BY <1>1
  <2>3. Local'
    BY <1>1, <1>2, <2>1, <2>2, ExitStatusType, FinishLocal
  <2>4. OsInv'
    BY <1>1, <1>2, <1>3, <2>1, <2>2, FinishOs DEF OsInv, ReapsKept
  <2> QED BY <2>3, <2>4
<1>5. CASE ~IsCurrentChild(x.proc, x.child)
  <2>1. UNCHANGED entryVars
    BY <1>5 DEF HandleExit
  <2>2. Local'
    BY <1>1, <2>1 DEF Local, LocalAt, Named, CoherentEntry, entryVars
  <2>3. NoOrphan'
    BY <1>1, <2>1 DEF OsInv, NoOrphan, entryVars
  <2> QED BY <1>3, <2>2, <2>3 DEF OsInv
<1> QED BY <1>4, <1>5

LEMMA KillDoneInv ==
  ASSUME TypeOK, Local, OsInv, NEW k \in kills, NEW err \in BOOLEAN, KillDone(k, err)
  PROVE  Local' /\ OsInv'
<1> DEFINE x == [proc |-> k.proc, child |-> k.child, code |-> "signal"]
<1>0. x.proc = k.proc /\ x.child = k.child
  OBVIOUS
<1>1. UNCHANGED spawned /\ kills' = kills \ {k} /\ KillOutcome(k, err)
  BY DEF KillDone
<1>2. k.proc \in Procs /\ k.child # 0 /\ k.child \in 1..spawned[k.proc]
  BY DEF TypeOK, Kill, OsInv, DeadExits
<1>3. \A p \in Procs : alive'[p] = IF p = k.proc /\ ~err THEN alive[p] \ {k.child} ELSE alive[p]
  BY DEF KillDone, TypeOK
<1>4. \A y \in exits' : y \in exits \/ (y = x /\ ~err)
  BY DEF KillDone
<1> HIDE DEF x
<1>5. ~KillMayFail => k.child \notin alive'[k.proc]
  BY <1>1, <1>2, <1>3 DEF KillOutcome
<1>6. DeadExits'
  <2>1. ASSUME NEW y \in exits' PROVE y.child \in 1..spawned'[y.proc] /\ y.child \notin alive'[y.proc]
    <3>1. CASE y \in exits
      <4>1. y.proc \in Procs /\ y.child \in 1..spawned[y.proc] /\ y.child \notin alive[y.proc]
        BY <3>1 DEF TypeOK, Exit, OsInv, DeadExits
      <4> QED BY <1>1, <1>3, <4>1
    <3>2. CASE y = x /\ ~err
      BY <1>0, <1>1, <1>2, <1>3, <3>2
    <3> QED BY <1>4, <3>1, <3>2
  <2>2. \A l \in kills' : l.child \in 1..spawned'[l.proc]
    BY <1>1 DEF OsInv, DeadExits
  <2> QED BY <2>1, <2>2 DEF DeadExits
<1>7. \A p \in Procs : alive'[p] \subseteq alive[p]
  BY <1>3
<1>8. ReapsKept
  BY <1>1, <1>5 DEF ReapsKept
<1>9. CASE k.kind = "kill" /\ IsCurrentChild(k.proc, k.child)
  <2>1. PICK st \in {"stopped", "crashed"} : Finish(k.proc, st)
    BY <1>9 DEF KillDone
  <2>2. child[k.proc] = k.child
    BY <1>9 DEF IsCurrentChild
  <2>3. Local'
    BY <1>1, <1>2, <1>7, <2>1, <2>2, FinishLocal
  <2>4. OsInv'
    BY <1>1, <1>2, <1>5, <1>6, <1>7, <1>8, <2>1, <2>2, FinishOs DEF OsInv
  <2> QED BY <2>3, <2>4
<1>10. CASE ~(k.kind = "kill" /\ IsCurrentChild(k.proc, k.child))
  <2>1. UNCHANGED entryVars
    BY <1>10 DEF KillDone
  <2>2. Local'
    BY <1>1, <1>7, <2>1 DEF Local, LocalAt, Named, CoherentEntry, entryVars
  <2>3. NoOrphan'
    <3> SUFFICES ASSUME ~KillMayFail, NEW p \in Procs, NEW n \in alive'[p]
                 PROVE  \/ child'[p] = n /\ pid'[p] = n
                        \/ [kind |-> "reap", proc |-> p, child |-> n] \in kills'
      BY DEF NoOrphan
    <3> DEFINE l == [kind |-> "reap", proc |-> p, child |-> n]
    <3>1. l.proc = p /\ l.child = n
      OBVIOUS
    <3>2. l \in kills \/ (child[p] = n /\ pid[p] = n)
      BY <1>7 DEF OsInv, NoOrphan
    <3> HIDE DEF l
    <3>3. l # k
      BY <1>5, <3>1
    <3>4. l \in kills' \/ (child'[p] = n /\ pid'[p] = n)
      BY <1>1, <2>1, <3>2, <3>3 DEF entryVars
    <3> QED BY <3>4 DEF l
  <2> QED BY <1>6, <2>2, <2>3 DEF OsInv
<1> QED BY <1>9, <1>10

-----------------------------------------------------------------------------
(* The two safety theorems: one induction carries both.                     *)

EntryInv == TypeOK /\ Local /\ OsInv

LEMMA EntryInvInductive ==
  /\ Init => EntryInv
  /\ EntryInv /\ [Next]_vars => EntryInv'
<1>1. ASSUME Init PROVE EntryInv
  <2>1. TypeOK
    BY <1>1, ProcsAssumption, IdleType DEF Init, TypeOK, Status, Exit, Task, Kill
  <2>2. Local /\ OsInv
    BY <1>1 DEF Init, Local, LocalAt, Named, CoherentEntry, OsInv, DeadExits, NoOrphan
  <2> QED BY <2>1, <2>2 DEF EntryInv
<1>2. ASSUME EntryInv, Next PROVE EntryInv'
  <2> USE DEF EntryInv
  <2>1. TypeOK'
    BY <1>2, MicrotaskType, RequestType, TaskStepType, TimerType, OsEventType DEF Next, EventStep
  <2>2. CASE Grows
    BY <1>2, <2>1, <2>2, GrowsLocal, GrowsOs
  <2>3. CASE Rests
    BY <1>2, <2>1, <2>3, RestsLocal, RestsOs
  <2>4. CASE StopShape
    BY <1>2, <2>1, <2>4, StopProcessLocal, StopProcessOs DEF StopShape
  <2>5. CASE \E S \in SUBSET Procs : Discard(S)
    BY <1>2, <2>1, <2>5, DiscardInv
  <2>6. CASE \E p \in Procs : Register(p) \/ StopTimerFires(p)
    BY <1>2, <2>1, <2>6, RegisterInv, StopTimerFiresInv
  <2>7. CASE \E c \in Callers : ClaimRestart(c)
    BY <1>2, <2>1, <2>7, ClaimRestartInv
  <2>8. CASE \E p \in Procs : \E n \in alive[p], code \in Codes \ {"error"} : Die(p, n, code)
    BY <1>2, <2>1, <2>8, DieInv
  <2>9. CASE \E x \in exits : HandleExit(x)
    BY <1>2, <2>1, <2>9, HandleExitInv
  <2>10. CASE \E k \in kills, err \in BOOLEAN : TermDone(k, err) \/ KillDone(k, err)
    BY <1>2, <2>1, <2>10, TermDoneInv, KillDoneInv
  <2> QED BY <1>2, StepShapes, <2>2, <2>3, <2>4, <2>5, <2>6, <2>7, <2>8, <2>9, <2>10
<1>3. ASSUME EntryInv, UNCHANGED vars PROVE EntryInv'
  BY <1>3 DEF EntryInv, TypeOK, Local, LocalAt, Named, CoherentEntry, OsInv, DeadExits,
              NoOrphan, vars, entryVars, osVars, callVars
<1> QED BY <1>1, <1>2, <1>3

\* The status an entry shows agrees with its handle, its pid and its pending
\* start in every reachable state: what the GUI and the monitor rely on.
THEOREM StatusAlwaysCoherent == Spec => []StatusCoherent
<1>1. EntryInv => StatusCoherent
  BY LocalMeaning DEF EntryInv
<1> QED BY <1>1, EntryInvInductive, PTL DEF Spec

\* While the OS obeys its kills, every live child is held by its entry or
\* being reaped: the daemon never leaks one, and never runs an id twice.
THEOREM NothingOrphaned == Spec => []NoOrphan
<1>1. EntryInv => NoOrphan
  BY DEF EntryInv, OsInv
<1> QED BY <1>1, EntryInvInductive, PTL DEF Spec

-----------------------------------------------------------------------------
(* What is under way: stops, exit waiters, pending starts and the requests  *)
(* behind them.  The steps are sorted by what they do to all of it.         *)

WorkInv == StopCanEnd /\ WaiterHasStop /\ PendingHasTask /\ Intended /\ NeverAhead

\* A continuation of the current start of p is in flight.
HasTask(p) ==
  \E t \in tasks : t.proc = p /\ t.inc = inc[p] /\ (t.kind = "compose" => t.gen = gen[p])

\* start() for any number of processes, as a call, from the queue or after a
\* settle delay.
BatchStep ==
  /\ ~Claiming
  /\ UNCHANGED <<registered, inc, kills>> /\ tasks \subseteq tasks'
  /\ \A c \in Callers : restarts'[c] \in {restarts[c], Idle}
  /\ sweep'.wait \subseteq sweep.wait
  /\ \A p \in queued' : p \in registered /\ wanted'[p]
  /\ \E S \in SUBSET Procs :
       /\ NewTasks(S)
       /\ \A p \in Procs :
            /\ wanted'[p] = wanted[p] \/ (wanted'[p] /\ Startable(p))
            /\ Same(p) \/ (Starts(p, S) /\ wanted'[p])

\* The end of an await: the start of one process moves on, ends, or had
\* been given up before.
TaskStep ==
  /\ ~Claiming
  /\ UNCHANGED <<callVars, queued, wanted, registered, inc, gen, stopping, stopTimer, kills>>
  /\ \A u \in tasks' : \E t \in tasks : u.proc = t.proc /\ u.inc = t.inc /\ u.gen = t.gen
  /\ \A p \in Procs :
       /\ pendingStart'[p] => HasTask(p)'
       /\ \/ /\ child'[p] = child[p] /\ spawned'[p] = spawned[p]
             /\ pendingStart'[p] = pendingStart[p]
          \/ /\ pendingStart[p]
             /\ \/ Spawns(p) \/ Pends(p)
                \/ child'[p] = child[p] /\ spawned'[p] = spawned[p] /\ ~pendingStart'[p]

\* stopProcess() with what its caller does about the exits it waits for.
StopStep ==
  /\ ~Claiming
  /\ \E S \in SUBSET Procs :
       /\ StopProcess(S)
       /\ \A c \in Callers :
            \/ restarts'[c] = ResumedRestarts(Cleared(S))[c]
            \/ \E p \in Registered(S) :
                 restarts'[c] = RestartAt(IF StillExiting({p}) = {} THEN "resolved" ELSE "exit",
                                          p, inc[p], 0)
                 /\ S = {p}
       /\ sweep'.wait \subseteq (sweep.wait \ Cleared(S)) \cup StillExiting(S)

\* The entry of one process lets go of its child, or nothing but the
\* operating system's side and the stop timers moves.
FinishStep ==
  /\ ~Claiming
  /\ UNCHANGED <<registered, inc, gen, pendingStart, queued, tasks, wanted, spawned>>
  /\ \/ \E q \in Procs, st \in Status : child[q] # 0 /\ Finish(q, st)
     \/ UNCHANGED <<child, stopping, callVars>>

LEMMA BatchSteps ==
  ASSUME TypeOK, Local, Intended, ~Claiming,
         NEW S \in SUBSET Procs, NEW out \in Outs, StartAll(S, out),
         \A p \in Procs : wanted'[p] = wanted[p] \/ (wanted'[p] /\ Startable(p)),
         \A p \in S : Startable(p) => wanted'[p],
         \A p \in queued' : p \in registered /\ wanted'[p],
         \A c \in Callers : restarts'[c] \in {restarts[c], Idle},
         sweep'.wait \subseteq sweep.wait
  PROVE  BatchStep
<1>1. /\ \A p \in Procs : Same(p) \/ Starts(p, S)
      /\ NewTasks(S) /\ tasks \subseteq tasks'
      /\ UNCHANGED <<registered, inc, kills>>
  BY StartAllEffect
<1>2. \A p \in Procs : Starts(p, S) => wanted'[p]
  BY DEF Starts
<1> QED BY <1>1, <1>2 DEF BatchStep

LEMMA BatchOfRequest ==
  ASSUME TypeOK, Local, Intended, ~Claiming,
         NEW N \in SUBSET Procs, NEW B \in SUBSET Procs, NEW out \in Outs,
         StartBatch(N, B, out), UNCHANGED restarts, sweep'.wait \subseteq sweep.wait
  PROVE  BatchStep
<1>1. PICK S, Q \in SUBSET Procs : Batch(S, Q, out)
  BY StartBatchSplit
<1>2. wanted \in [Procs -> BOOLEAN] /\ queued \subseteq Procs
  BY DEF TypeOK
<1>3. \A p \in Procs : wanted'[p] = wanted[p] \/ (wanted'[p] /\ Startable(p))
  BY <1>1, <1>2 DEF Batch
<1>4. \A p \in S : Startable(p) => wanted'[p]
  BY <1>1 DEF Batch
<1>5. \A p \in queued' : p \in registered /\ wanted'[p]
  BY <1>1, <1>2 DEF Batch, Intended, Startable
<1> QED BY <1>1, <1>3, <1>4, <1>5, BatchSteps DEF Batch

LEMMA BatchOfTimer ==
  ASSUME TypeOK, Local, Intended, NeverAhead, ~Claiming, Timer
  PROVE  BatchStep \/ \E p \in Procs : StopTimerFires(p)
<1>1. ASSUME NEW p \in Procs, NEW out \in Outs, QueueTimer(p, out) PROVE BatchStep
  <2>1. /\ StartAll({p}, out) /\ p \in queued /\ queued' = queued \ {p}
        /\ UNCHANGED <<restarts, sweep, wanted>>
    BY <1>1 DEF QueueTimer, callVars
  <2>2. {p} \in SUBSET Procs /\ \A q \in {p} : Startable(q) => wanted'[q]
    BY <2>1 DEF Intended
  <2>3. \A q \in queued' : q \in registered /\ wanted'[q]
    BY <2>1 DEF Intended
  <2> QED BY <2>1, <2>2, <2>3, BatchSteps
<1>2. ASSUME NEW c \in Callers, NEW out \in Outs, SettleDone(c, out) PROVE BatchStep
  <2> DEFINE r == restarts[c]
             S == IF NotOvertaken(r) THEN {r.proc} ELSE {}
  <2>1. /\ StartAll(S, out) /\ r.at = "settle" /\ queued' = queued \ {p \in S : Startable(p)}
        /\ UNCHANGED <<sweep, wanted>> /\ restarts' = [restarts EXCEPT ![c] = Idle]
    BY <1>2 DEF SettleDone
  <2>2. S \in SUBSET Procs
    BY DEF NotOvertaken, TypeOK
  <2>3. \A p \in S : Startable(p) => wanted'[p]
    BY <2>1 DEF Intended
  <2>4. \A d \in Callers : restarts'[d] \in {restarts[d], Idle}
    BY <2>1 DEF TypeOK
  <2>5. \A q \in queued' : q \in registered /\ wanted'[q]
    BY <2>1 DEF Intended
  <2> QED BY <2>1, <2>2, <2>3, <2>4, <2>5, BatchSteps
<1> QED BY <1>1, <1>2 DEF Timer

LEMMA TaskSteps ==
  ASSUME TypeOK, Local, WorkInv, ~Claiming, TaskDone
  PROVE  TaskStep
<1> PICK t \in tasks, out \in Outs :
       \/ \E ok \in BOOLEAN : ComposeDone(t, ok, out) \/ WaitDone(t, ok, out)
       \/ FreeDone(t, out)
  BY DEF TaskDone, PortDone
<1> DEFINE q == t.proc
<1>1. q \in Procs
  BY DEF TypeOK, Task
<1>2. UNCHANGED <<callVars, queued, wanted>>
  BY DEF ComposeDone, WaitDone, FreeDone
<1>3. \A p \in Procs : pendingStart[p] => HasTask(p)
  BY DEF WorkInv, PendingHasTask, HasTask
<1>4. ASSUME NEW p \in Procs, pendingStart[p], p # q \/ ~StillPending(t) \/ (t.kind = "compose" /\ ~StillCurrent(t)),
             tasks \ {t} \subseteq tasks', UNCHANGED <<inc, gen>>
      PROVE  HasTask(p)'
  <2>1. PICK u \in tasks : u.proc = p /\ u.inc = inc[p] /\ (u.kind = "compose" => u.gen = gen[p])
    BY <1>3, <1>4 DEF HasTask
  <2>2. p \in registered
    BY <1>4 DEF WorkInv, PendingHasTask
  <2>3. u # t
    BY <1>4, <2>1, <2>2 DEF StillPending, StillCurrent
  <2> QED BY <1>4, <2>1, <2>3 DEF HasTask
<1>5. ASSUME DropTask(t), ~StillPending(t) \/ (t.kind = "compose" /\ ~StillCurrent(t)) PROVE TaskStep
  <2>1. UNCHANGED <<registered, inc, gen, child, spawned, pendingStart, stopping, stopTimer, kills>>
        /\ tasks' = tasks \ {t}
    BY <1>5 DEF DropTask, entryVars, osVars
  <2>2. \A p \in Procs : pendingStart'[p] => HasTask(p)'
    BY <1>4, <1>5, <2>1
  <2> QED BY <1>2, <2>1, <2>2 DEF TaskStep
<1>6. ASSUME NEW st, StillPending(t), EndStart(t, st) PROVE TaskStep
  <2>1. UNCHANGED <<registered, inc, gen, child, spawned, stopping, stopTimer, kills>>
        /\ tasks' = tasks \ {t}
    BY <1>6 DEF EndStart, osVars
  <2>2. \A p \in Procs : pendingStart'[p] = IF p = q THEN FALSE ELSE pendingStart[p]
    BY <1>6 DEF EndStart, TypeOK
  <2>3. \A p \in Procs : pendingStart'[p] => HasTask(p)'
    BY <1>4, <2>1, <2>2
  <2>4. pendingStart[q] /\ ~pendingStart'[q]
    BY <1>1, <1>6, <2>2 DEF StillPending
  <2> QED BY <1>2, <2>1, <2>2, <2>3, <2>4 DEF TaskStep
<1>7. ASSUME NEW s \in Steps \ {"compose"}, StillPending(t), NextStep(t, s, out) PROVE TaskStep
  <2>1. /\ \A p \in Procs \ {q} : Same(p)
        /\ \/ Spawns(q)
           \/ /\ Pends(q)
              /\ \E u \in tasks' : u.proc = q /\ u.inc = inc[q] /\ u.kind # "compose"
        /\ \A u \in tasks' : \/ u \in tasks
                             \/ u.proc = q /\ u.inc = inc[q] /\ u.gen = t.gen
        /\ tasks \ {t} \subseteq tasks'
        /\ UNCHANGED <<registered, inc, stopping, stopTimer, gen, kills>>
    BY <1>7, NextStepEffect
  <2>2. pendingStart[q] /\ inc[q] = t.inc
    BY <1>7 DEF StillPending
  <2>3. ASSUME NEW p \in Procs, pendingStart'[p] PROVE HasTask(p)'
    <3>1. CASE p # q
      BY <1>4, <2>1, <2>3, <3>1 DEF Same
    <3>2. CASE p = q
      BY <2>1, <2>3, <3>2 DEF HasTask, Spawns
    <3> QED BY <3>1, <3>2
  <2>4. \A u \in tasks' : \E v \in tasks : u.proc = v.proc /\ u.inc = v.inc /\ u.gen = v.gen
    BY <2>1, <2>2
  <2> QED BY <1>2, <2>1, <2>2, <2>3, <2>4 DEF TaskStep, Same
<1>8. StepAfterWait(q) \in Steps \ {"compose"} /\ StepAfterCompose(q) \in Steps \ {"compose"}
      /\ "spawn" \in Steps \ {"compose"}
  BY DEF StepAfterWait, StepAfterCompose, Steps, Kinds
<1>9. \A s \in Steps \ {"compose"} : StillPending(t) /\ Proceed(t, s, out) => TaskStep
  BY <1>6, <1>7 DEF Proceed
<1>10. ASSUME NEW ok \in BOOLEAN, ComposeDone(t, ok, out) PROVE TaskStep
  BY <1>5, <1>6, <1>8, <1>9, <1>10 DEF ComposeDone, StillCurrent
<1>11. ASSUME NEW ok \in BOOLEAN, WaitDone(t, ok, out) PROVE TaskStep
  BY <1>5, <1>6, <1>8, <1>9, <1>11 DEF WaitDone
<1>12. ASSUME FreeDone(t, out) PROVE TaskStep
  BY <1>5, <1>6, <1>7, <1>8, <1>12 DEF FreeDone
<1> QED BY <1>10, <1>11, <1>12

LEMMA StopSteps ==
  ASSUME TypeOK, Local, ~Claiming,
         \/ \E S \in SUBSET Procs : Stop(S)
         \/ \E c \in Callers, p \in Procs : RestartCall(c, p)
         \/ RestartRunning
  PROVE  StopStep
<1>1. ASSUME NEW S \in SUBSET Procs, Stop(S) PROVE StopStep
  <2>1. /\ StopProcess(S) /\ restarts' = ResumedRestarts(Cleared(S))
        /\ sweep' = ResumedSweep(Cleared(S))
    BY <1>1 DEF Stop
  <2>2. sweep'.wait \subseteq (sweep.wait \ Cleared(S)) \cup StillExiting(S)
    BY <2>1 DEF ResumedSweep
  <2> QED BY <2>1, <2>2 DEF StopStep
<1>2. ASSUME NEW d \in Callers, NEW q \in Procs, RestartCall(d, q) PROVE StopStep
  <2> DEFINE new == RestartAt(IF StillExiting({q}) = {} THEN "resolved" ELSE "exit", q, inc[q], 0)
  <2>1. /\ StopProcess({q}) /\ q \in registered
        /\ restarts' = [ResumedRestarts(Cleared({q})) EXCEPT ![d] = new]
        /\ sweep' = ResumedSweep(Cleared({q}))
    BY <1>2 DEF RestartCall
  <2>2. sweep'.wait \subseteq (sweep.wait \ Cleared({q})) \cup StillExiting({q})
    BY <2>1 DEF ResumedSweep
  <2>3. ResumedRestarts(Cleared({q})) \in [Callers -> Restart]
    BY ResumedType
  <2>4. \A c \in Callers : restarts'[c] = IF c = d THEN new ELSE ResumedRestarts(Cleared({q}))[c]
    BY <2>1, <2>3
  <2>5. q \in Registered({q}) /\ {q} \in SUBSET Procs
    BY <2>1 DEF Registered
  <2> QED BY <2>1, <2>2, <2>4, <2>5 DEF StopStep
<1>3. ASSUME RestartRunning PROVE StopStep
  <2> DEFINE R == {p \in registered : child[p] # 0}
  <2>1. /\ StopProcess(R) /\ restarts' = ResumedRestarts(Cleared(R))
        /\ sweep' = [ids |-> R, wait |-> StillExiting(R)]
    BY <1>3 DEF RestartRunning
  <2>2. R \in SUBSET Procs
    BY DEF TypeOK
  <2> QED BY <2>1, <2>2 DEF StopStep
<1> QED BY <1>1, <1>2, <1>3

LEMMA FinishSteps ==
  ASSUME TypeOK, Local, OsInv, ~Claiming,
         \/ \E p \in Procs : StopTimerFires(p)
         \/ OsEvent
  PROVE  FinishStep
<1>1. ASSUME NEW x \in exits, HandleExit(x) PROVE FinishStep
  <2>1. x.proc \in Procs /\ x.child # 0 /\ ExitStatus(x.proc, x.code) \in Status
    BY DEF TypeOK, Exit, OsInv, DeadExits, ExitStatus, Status
  <2>2. UNCHANGED <<spawned, queued, tasks, wanted>>
    BY <1>1 DEF HandleExit
  <2>3. CASE IsCurrentChild(x.proc, x.child)
    BY <1>1, <2>1, <2>2, <2>3 DEF HandleExit, IsCurrentChild, Finish, FinishStep
  <2>4. CASE ~IsCurrentChild(x.proc, x.child)
    BY <1>1, <2>2, <2>4 DEF HandleExit, FinishStep, entryVars
  <2> QED BY <2>3, <2>4
<1>2. ASSUME NEW k \in kills, NEW err \in BOOLEAN, KillDone(k, err) PROVE FinishStep
  <2>1. k.proc \in Procs /\ k.child # 0
    BY DEF TypeOK, Kill, OsInv, DeadExits
  <2>2. UNCHANGED <<spawned, queued, tasks, wanted>>
    BY <1>2 DEF KillDone
  <2>3. CASE k.kind = "kill" /\ IsCurrentChild(k.proc, k.child)
    <3>1. \E st \in Status : Finish(k.proc, st)
      BY <1>2, <2>3 DEF KillDone, Status
    <3> QED BY <2>1, <2>2, <2>3, <3>1 DEF IsCurrentChild, Finish, FinishStep
  <2>4. CASE ~(k.kind = "kill" /\ IsCurrentChild(k.proc, k.child))
    BY <1>2, <2>2, <2>4 DEF KillDone, FinishStep, entryVars
  <2> QED BY <2>3, <2>4
<1>3. ASSUME NEW k \in kills, NEW err \in BOOLEAN, TermDone(k, err) PROVE FinishStep
  BY <1>3 DEF TermDone, FinishStep
<1>4. ASSUME NEW p \in Procs, NEW n \in alive[p], NEW code \in Codes, Die(p, n, code) PROVE FinishStep
  BY <1>4 DEF Die, FinishStep, entryVars
<1>5. ASSUME NEW p \in Procs, StopTimerFires(p) PROVE FinishStep
  BY <1>5 DEF StopTimerFires, FinishStep
<1> QED BY <1>1, <1>2, <1>3, <1>4, <1>5 DEF OsEvent

\* Every step is one of these.
LEMMA WorkShapes ==
  ASSUME EntryInv, WorkInv, Next
  PROVE  \/ BatchStep \/ TaskStep \/ StopStep
         \/ FinishStep /\ ((\E p \in Procs : StopTimerFires(p)) \/ OsEvent)
         \/ ~Claiming /\ \E S \in SUBSET Procs : Discard(S)
         \/ ~Claiming /\ \E p \in Procs : Register(p)
         \/ \E c \in Callers : ClaimRestart(c)
<1> USE DEF EntryInv, WorkInv
<1>1. ASSUME Microtask PROVE BatchStep \/ \E c \in Callers : ClaimRestart(c)
  <2>1. ASSUME ~Claiming, NEW out \in Outs, SweepResumes(out) PROVE BatchStep
    <3>1. /\ StartBatch({}, sweep.ids, out) /\ UNCHANGED restarts
          /\ sweep' = [ids |-> {}, wait |-> {}]
      BY <2>1 DEF SweepResumes
    <3>2. sweep.ids \in SUBSET Procs /\ {} \in SUBSET Procs /\ sweep'.wait \subseteq sweep.wait
      BY <3>1 DEF TypeOK
    <3> QED BY <2>1, <3>1, <3>2, BatchOfRequest
  <2> QED BY <1>1, <2>1 DEF Microtask
<1>2. ASSUME ~Claiming, RunRequest
      PROVE  BatchStep \/ StopStep \/ \E p \in Procs : Register(p)
  <2>1. ASSUME NEW p \in Procs, NEW out \in Outs, Start(p, out) \/ StartWithLinks(p, out)
        PROVE  BatchStep
    <3>1. (\E B \in SUBSET Procs : StartBatch({p}, B, out)) /\ UNCHANGED <<restarts, sweep>>
      BY <2>1, CycleFree DEF Start, StartWithLinks, callVars
    <3> QED BY <1>2, <3>1, BatchOfRequest
  <2>2. ASSUME NEW B \in SUBSET Procs, NEW out \in Outs, StartMany(B, out) PROVE BatchStep
    <3>1. StartBatch({}, B, out) /\ UNCHANGED <<restarts, sweep>> /\ {} \in SUBSET Procs
      BY <2>2 DEF StartMany, callVars
    <3> QED BY <1>2, <3>1, BatchOfRequest
  <2> QED BY <1>2, <2>1, <2>2, StopSteps DEF RunRequest
<1>3. ASSUME ~Claiming, Request
      PROVE  \/ BatchStep \/ StopStep \/ \E p \in Procs : Register(p)
             \/ \E S \in SUBSET Procs : Discard(S)
  BY <1>2, <1>3, StopSteps DEF Request
<1>4. ASSUME ~Claiming, Timer
      PROVE  BatchStep \/ (FinishStep /\ \E p \in Procs : StopTimerFires(p))
  BY <1>4, BatchOfTimer, FinishSteps
<1> QED BY <1>1, <1>3, <1>4, TaskSteps, FinishSteps DEF Next, EventStep

-----------------------------------------------------------------------------
(* What each kind of step preserves.                                        *)

\* Behind, of the state the step leads to.
BehindNext(q, i, g) == i <= inc'[q] /\ (i = inc'[q] /\ q \in registered' => g <= gen'[q])

LEMMA BatchStepWork ==
  ASSUME TypeOK, TypeOK', Local, WorkInv, BatchStep
  PROVE  WaiterHasStop' /\ PendingHasTask' /\ Intended' /\ NeverAhead'
<1>1. /\ ~Claiming
      /\ UNCHANGED <<registered, inc, kills>> /\ tasks \subseteq tasks'
      /\ \A c \in Callers : restarts'[c] \in {restarts[c], Idle}
      /\ sweep'.wait \subseteq sweep.wait
      /\ \A p \in queued' : p \in registered /\ wanted'[p]
  BY DEF BatchStep
<1>2. PICK S \in SUBSET Procs :
        /\ NewTasks(S)
        /\ \A p \in Procs :
            /\ wanted'[p] = wanted[p] \/ (wanted'[p] /\ Startable(p))
            /\ Same(p) \/ (Starts(p, S) /\ wanted'[p])
  BY DEF BatchStep
<1>3. Idle.at = "idle"
  BY DEF Idle, RestartAt
<1>4. ASSUME NEW p \in Procs
      PROVE  /\ gen[p] \in Nat /\ gen'[p] \in {gen[p], gen[p] + 1}
             /\ p \in registered /\ stopping[p] => stopping'[p]
             /\ wanted[p] => wanted'[p]
             /\ gen'[p] = gen[p] => Same(p)
  <2>1. gen[p] \in Nat
    BY DEF TypeOK
  <2>2. Startable(p) /\ p \in registered => ~stopping[p]
    BY DEF Startable, Local, LocalAt, CoherentEntry
  <2> QED BY <1>2, <2>1, <2>2 DEF Same, Starts
<1>5. WaiterHasStop'
  BY <1>1, <1>3, <1>4 DEF WorkInv, WaiterHasStop, TypeOK, Restart
<1>6. PendingHasTask'
  <2> SUFFICES ASSUME NEW p \in Procs, pendingStart'[p]
               PROVE  /\ p \in registered
                      /\ \E t \in tasks' : t.proc = p /\ t.inc = inc[p]
                                           /\ (t.kind = "compose" => t.gen = gen'[p])
    BY <1>1 DEF PendingHasTask
  <2>1. CASE Same(p)
    BY <1>1, <2>1 DEF Same, WorkInv, PendingHasTask
  <2>2. CASE Starts(p, S)
    BY <2>2 DEF Starts, Startable, Spawns
  <2> QED BY <1>2, <2>1, <2>2
<1>7. Intended'
  <2>1. ASSUME NEW p \in Procs, pendingStart'[p] PROVE wanted'[p]
    BY <1>2, <1>4, <2>1 DEF Same, WorkInv, Intended
  <2>2. ASSUME NEW c \in Callers, restarts'[c].at = "settle", NotOvertaken(restarts[c])'
        PROVE  wanted'[restarts'[c].proc]
    <3> DEFINE r == restarts[c]
    <3>1. restarts'[c] = r /\ r.at = "settle" /\ r.proc \in registered /\ inc[r.proc] = r.inc
          /\ gen'[r.proc] = r.gen
      BY <1>1, <1>3, <2>2 DEF NotOvertaken
    <3>2. r.proc \in Procs /\ r.gen <= gen[r.proc] /\ r.gen \in Nat
      BY <3>1 DEF WorkInv, NeverAhead, Behind, TypeOK, Restart
    <3>3. gen[r.proc] = r.gen
      BY <1>4, <3>1, <3>2
    <3> QED BY <1>4, <3>1, <3>2, <3>3 DEF WorkInv, Intended, NotOvertaken
  <2> QED BY <1>1, <2>1, <2>2 DEF Intended
<1>8. NeverAhead'
  <2>1. ASSUME NEW q \in Procs, NEW i, NEW g \in Nat, Behind(q, i, g) PROVE BehindNext(q, i, g)
    BY <1>1, <1>4, <2>1 DEF Behind, BehindNext
  <2>2. ASSUME NEW t \in tasks' PROVE BehindNext(t.proc, t.inc, t.gen)
    <3>1. CASE t \in tasks
      <4>1. t.proc \in Procs /\ t.gen \in Nat /\ Behind(t.proc, t.inc, t.gen)
        BY <3>1 DEF TypeOK, Task, WorkInv, NeverAhead
      <4> QED BY <2>1, <4>1
    <3>2. CASE t.proc \in S /\ t.inc = inc[t.proc] /\ t.gen = gen'[t.proc]
      <4>1. inc'[t.proc] = t.inc /\ t.inc \in Nat /\ gen'[t.proc] \in Nat
        BY <1>1, <3>2 DEF TypeOK
      <4> QED BY <3>2, <4>1 DEF BehindNext
    <3> QED BY <1>2, <3>1, <3>2 DEF NewTasks
  <2>3. ASSUME NEW c \in Callers, restarts'[c].at # "idle"
        PROVE  /\ restarts'[c].proc \in Procs
               /\ BehindNext(restarts'[c].proc, restarts'[c].inc, restarts'[c].gen)
               /\ restarts'[c].at # "resolved"
    <3>1. restarts'[c] = restarts[c]
      BY <1>1, <1>3, <2>3
    <3>2. restarts[c].proc \in Procs /\ restarts[c].gen \in Nat
          /\ Behind(restarts[c].proc, restarts[c].inc, restarts[c].gen)
      BY <2>3, <3>1 DEF TypeOK, Restart, WorkInv, NeverAhead
    <3> QED BY <1>1, <2>1, <2>3, <3>1, <3>2 DEF Claiming
  <2> QED BY <2>2, <2>3 DEF NeverAhead, Behind, BehindNext
<1> QED BY <1>5, <1>6, <1>7, <1>8

LEMMA TaskStepWork ==
  ASSUME TypeOK, TypeOK', Local, WorkInv, TaskStep
  PROVE  StopCanEnd' /\ WaiterHasStop' /\ PendingHasTask' /\ Intended' /\ NeverAhead'
<1>1. /\ ~Claiming
      /\ UNCHANGED <<restarts, sweep, queued, wanted, registered, inc, gen, stopping, stopTimer, kills>>
      /\ \A u \in tasks' : \E t \in tasks : u.proc = t.proc /\ u.inc = t.inc /\ u.gen = t.gen
      /\ \A p \in Procs : pendingStart'[p] => HasTask(p)'
  BY DEF TaskStep, callVars
<1>2. ASSUME NEW p \in Procs
      PROVE  /\ pendingStart'[p] => pendingStart[p]
             /\ stopping[p] /\ p \in registered => child'[p] = child[p]
  BY PendingDown DEF TaskStep, Spawns
<1>3. StopCanEnd'
  BY <1>1, <1>2 DEF WorkInv, StopCanEnd, TypeOK
<1>4. WaiterHasStop'
  BY <1>1 DEF WorkInv, WaiterHasStop
<1>5. PendingHasTask'
  BY <1>1, <1>2, PendingDown DEF PendingHasTask, HasTask
<1>6. Intended'
  BY <1>1, <1>2 DEF WorkInv, Intended, NotOvertaken
<1>7. NeverAhead'
  BY <1>1 DEF WorkInv, NeverAhead, Behind, Claiming
<1> QED BY <1>3, <1>4, <1>5, <1>6, <1>7

LEMMA FinishStepWork ==
  ASSUME TypeOK, TypeOK', Local, WorkInv, FinishStep
  PROVE  WaiterHasStop' /\ PendingHasTask' /\ Intended' /\ NeverAhead'
<1>1. /\ ~Claiming
      /\ UNCHANGED <<registered, inc, gen, pendingStart, queued, tasks, wanted, spawned>>
  BY DEF FinishStep
<1>2. CASE UNCHANGED <<child, stopping, callVars>>
  BY <1>1, <1>2 DEF WorkInv, WaiterHasStop, PendingHasTask, Intended, NotOvertaken, NeverAhead,
                    Behind, callVars
<1>3. ASSUME NEW q \in Procs, NEW st \in Status, child[q] # 0, Finish(q, st)
      PROVE  WaiterHasStop' /\ PendingHasTask' /\ Intended' /\ NeverAhead'
  <2>1. /\ restarts' = ResumedRestarts({q}) /\ sweep' = ResumedSweep({q})
        /\ \A p \in Procs : stopping'[p] = IF p = q THEN FALSE ELSE stopping[p]
        /\ \A p \in Procs : child'[p] = IF p = q THEN 0 ELSE child[p]
    BY <1>3 DEF Finish, TypeOK
  <2>2. ASSUME NEW c \in Callers
        PROVE  \/ restarts'[c] = restarts[c] /\ ~(restarts[c].at = "exit" /\ restarts[c].proc = q)
               \/ /\ restarts[c].at = "exit" /\ restarts[c].proc = q
                  /\ restarts'[c] = RestartAt("resolved", q, restarts[c].inc, restarts[c].gen)
    BY <2>1 DEF ResumedRestarts
  <2>3. \A i, g : LET r == RestartAt("resolved", q, i, g) IN
                    r.at = "resolved" /\ r.proc = q /\ r.inc = i /\ r.gen = g
    BY DEF RestartAt
  <2>4. WaiterHasStop'
    <3>1. ASSUME NEW c \in Callers, restarts'[c].at = "exit"
          PROVE  /\ restarts'[c].proc \in registered /\ inc[restarts'[c].proc] = restarts'[c].inc
                 /\ stopping'[restarts'[c].proc]
      <4>1. restarts'[c] = restarts[c] /\ restarts[c].proc # q
        BY <2>2, <2>3, <3>1
      <4> QED BY <2>1, <3>1, <4>1 DEF WorkInv, WaiterHasStop, TypeOK
    <3>2. \A p \in sweep'.wait : p \in registered /\ stopping'[p]
      BY <2>1 DEF ResumedSweep, WorkInv, WaiterHasStop, TypeOK
    <3> QED BY <1>1, <3>1, <3>2 DEF WaiterHasStop
  <2>5. PendingHasTask'
    BY <1>1 DEF WorkInv, PendingHasTask
  <2>6. Intended'
    <3>1. \A c \in Callers : restarts'[c].at = "settle" => restarts'[c] = restarts[c]
      BY <2>2, <2>3
    <3> QED BY <1>1, <3>1 DEF WorkInv, Intended, NotOvertaken
  <2>7. NeverAhead'
    <3>1. ~pendingStart[q]
      BY <1>3, PendingDown
    <3>2. ASSUME NEW c \in Callers, restarts'[c].at # "idle"
          PROVE  /\ restarts'[c].proc \in Procs
                 /\ Behind(restarts'[c].proc, restarts'[c].inc, restarts'[c].gen)
                 /\ restarts'[c].at = "resolved" => restarts'[c].proc = q
      BY <1>1, <2>2, <2>3, <3>2 DEF WorkInv, NeverAhead, Claiming
    <3> QED BY <1>1, <2>1, <3>1, <3>2 DEF WorkInv, NeverAhead, Behind
  <2> QED BY <2>4, <2>5, <2>6, <2>7
<1> QED BY <1>2, <1>3 DEF FinishStep

LEMMA StopStepWork ==
  ASSUME TypeOK, TypeOK', Local, WorkInv, StopStep
  PROVE  StopCanEnd' /\ WaiterHasStop' /\ PendingHasTask' /\ Intended' /\ NeverAhead'
<1>0. ~Claiming
  BY DEF StopStep
<1>1. PICK S \in SUBSET Procs :
        /\ StopProcess(S)
        /\ \A c \in Callers :
             \/ restarts'[c] = ResumedRestarts(Cleared(S))[c]
             \/ \E p \in Registered(S) :
                  restarts'[c] = RestartAt(IF StillExiting({p}) = {} THEN "resolved" ELSE "exit",
                                           p, inc[p], 0)
                  /\ S = {p}
        /\ sweep'.wait \subseteq (sweep.wait \ Cleared(S)) \cup StillExiting(S)
  BY DEF StopStep
<1>2. /\ UNCHANGED <<registered, inc, spawned, alive, exits, tasks>>
      /\ kills \subseteq kills' /\ queued' = queued \ Registered(S)
  BY <1>1 DEF StopProcess, CancelQueuedStart
<1>3. ASSUME NEW p \in Procs
      PROVE  /\ gen'[p] = IF p \in Registered(S) THEN gen[p] + 1 ELSE gen[p]
             /\ gen[p] \in Nat
             /\ pendingStart'[p] <=> pendingStart[p] /\ p \notin Registered(S)
             /\ wanted'[p] <=> wanted[p] /\ p \notin Registered(S)
             /\ p \in Cleared(S) => child'[p] = 0 /\ ~stopping'[p] /\ ~pendingStart'[p]
             /\ p \notin Cleared(S) => child'[p] = child[p]
             /\ p \in StillExiting(S) => stopping'[p] /\ p \in registered
             /\ stopping[p] /\ p \notin Cleared(S) => stopping'[p]
             /\ stopping'[p] /\ p \in registered =>
                  \/ stopTimer'[p] = child'[p]
                  \/ stopping[p] /\ stopTimer'[p] = stopTimer[p] /\ child'[p] = child[p]
  <2>1. p \in registered => CoherentEntry(p)
    BY DEF Local, LocalAt
  <2>2. /\ gen'[p] = IF p \in Registered(S) THEN gen[p] + 1 ELSE gen[p]
        /\ pendingStart'[p] <=> pendingStart[p] /\ p \notin Cancelled(S)
        /\ wanted'[p] <=> wanted[p] /\ p \notin Registered(S)
        /\ stopping'[p] <=> p \notin Cleared(S) /\ (stopping[p] \/ p \in Signalled(S))
        /\ child'[p] = IF p \in Cleared(S) THEN 0 ELSE child[p]
        /\ stopTimer'[p] = IF p \in Cancelled(S) \cup Cleared(S) THEN 0
                           ELSE IF p \in Signalled(S) THEN child[p] ELSE stopTimer[p]
    BY <1>1 DEF StopProcess, TypeOK
  <2>3. gen[p] \in Nat /\ (p \in Cancelled(S) <=> p \in Registered(S) /\ pendingStart[p])
    BY DEF TypeOK, Cancelled
  <2>4. p \in Cleared(S) => p \in Registered(S) /\ ~pendingStart[p]
    BY DEF Cleared, Terminated
  <2>5. p \in StillExiting(S) => p \in registered /\ (stopping[p] \/ p \in Signalled(S)) /\ p \notin Cleared(S)
    BY DEF StillExiting, Cleared, Terminated, Registered
  <2>6. p \in Cancelled(S) => ~stopping[p] /\ p \notin Signalled(S)
    BY <2>1, <2>3 DEF Registered, CoherentEntry, Signalled, Terminated
  <2>7. pendingStart'[p] <=> pendingStart[p] /\ p \notin Registered(S)
    BY <2>2, <2>3
  <2>8. /\ p \in Cleared(S) => child'[p] = 0 /\ ~stopping'[p] /\ ~pendingStart'[p]
        /\ p \notin Cleared(S) => child'[p] = child[p]
        /\ p \in StillExiting(S) => stopping'[p] /\ p \in registered
        /\ stopping[p] /\ p \notin Cleared(S) => stopping'[p]
    BY <2>2, <2>4, <2>5, <2>7
  <2>9. stopping'[p] /\ p \in registered =>
          \/ stopTimer'[p] = child'[p]
          \/ stopping[p] /\ stopTimer'[p] = stopTimer[p] /\ child'[p] = child[p]
    <3> SUFFICES ASSUME stopping'[p]
                 PROVE  \/ stopTimer'[p] = child'[p]
                        \/ stopping[p] /\ stopTimer'[p] = stopTimer[p] /\ child'[p] = child[p]
      OBVIOUS
    <3>1. p \notin Cleared(S) /\ p \notin Cancelled(S)
      BY <2>2, <2>6
    <3>2. child'[p] = child[p]
      BY <2>8, <3>1
    <3>3. stopTimer'[p] = IF p \in Signalled(S) THEN child[p] ELSE stopTimer[p]
      BY <2>2, <3>1
    <3>4. stopping[p] \/ p \in Signalled(S)
      BY <2>2
    <3> QED BY <3>2, <3>3, <3>4
  <2>10. /\ gen'[p] = IF p \in Registered(S) THEN gen[p] + 1 ELSE gen[p]
         /\ wanted'[p] <=> wanted[p] /\ p \notin Registered(S)
    BY <2>2
  <2> QED BY <2>3, <2>7, <2>8, <2>9, <2>10
<1>4. StopCanEnd'
  BY <1>2, <1>3 DEF WorkInv, StopCanEnd, TypeOK
<1>5. \A x, p, i, g : LET r == RestartAt(x, p, i, g) IN
                        r.at = x /\ r.proc = p /\ r.inc = i /\ r.gen = g
  BY DEF RestartAt
<1>6. ASSUME NEW c \in Callers
      PROVE  LET r == restarts'[c] IN
             \/ r = restarts[c] /\ ~(r.at = "exit" /\ r.proc \in Cleared(S))
             \/ /\ restarts[c].at = "exit" /\ restarts[c].proc \in Cleared(S)
                /\ r.at = "resolved" /\ r.proc = restarts[c].proc
                /\ r.inc = restarts[c].inc /\ r.gen = restarts[c].gen
             \/ /\ r.proc \in Registered(S) /\ S = {r.proc} /\ r.inc = inc[r.proc] /\ r.gen = 0
                /\ r.at = IF StillExiting(S) = {} THEN "resolved" ELSE "exit"
  <2>1. CASE restarts'[c] = ResumedRestarts(Cleared(S))[c]
    BY <1>5, <2>1 DEF ResumedRestarts
  <2>2. CASE \E p \in Registered(S) :
                  restarts'[c] = RestartAt(IF StillExiting({p}) = {} THEN "resolved" ELSE "exit",
                                           p, inc[p], 0)
                  /\ S = {p}
    BY <2>2 DEF RestartAt
  <2> QED BY <1>1, <2>1, <2>2
<1>7. WaiterHasStop'
  <2>1. ASSUME NEW c \in Callers, restarts'[c].at = "exit"
        PROVE  /\ restarts'[c].proc \in registered /\ inc[restarts'[c].proc] = restarts'[c].inc
               /\ stopping'[restarts'[c].proc]
    <3> DEFINE r == restarts'[c]
    <3>1. CASE r = restarts[c] /\ r.proc \notin Cleared(S)
      BY <1>3, <2>1, <3>1 DEF WorkInv, WaiterHasStop, TypeOK
    <3>2. CASE r.proc \in Registered(S) /\ S = {r.proc} /\ r.inc = inc[r.proc] /\ StillExiting(S) # {}
      <4>1. StillExiting(S) \subseteq S
        BY DEF StillExiting, Registered
      <4>2. r.proc \in StillExiting(S) /\ r.proc \in Procs
        BY <3>2, <4>1
      <4> QED BY <1>3, <3>2, <4>2
    <3> QED BY <1>6, <2>1, <3>1, <3>2
  <2>2. ASSUME NEW p \in sweep'.wait PROVE p \in registered /\ stopping'[p]
    <3>1. p \in Procs
      BY <2>2 DEF TypeOK
    <3> QED BY <1>1, <1>3, <2>2, <3>1 DEF WorkInv, WaiterHasStop
  <2> QED BY <1>2, <2>1, <2>2 DEF WaiterHasStop
<1>8. PendingHasTask'
  BY <1>2, <1>3 DEF WorkInv, PendingHasTask
<1>9. NeverAhead'
  <2>1. ASSUME NEW q \in Procs, NEW i, NEW g \in Nat, Behind(q, i, g) PROVE BehindNext(q, i, g)
    BY <1>2, <1>3, <2>1 DEF Behind, BehindNext
  <2>2. ASSUME NEW t \in tasks' PROVE BehindNext(t.proc, t.inc, t.gen)
    <3>1. t.proc \in Procs /\ t.gen \in Nat /\ Behind(t.proc, t.inc, t.gen)
      BY <1>2 DEF TypeOK, Task, WorkInv, NeverAhead
    <3> QED BY <2>1, <3>1
  <2>3. ASSUME NEW c \in Callers, restarts'[c].at # "idle"
        PROVE  /\ restarts'[c].proc \in Procs
               /\ BehindNext(restarts'[c].proc, restarts'[c].inc, restarts'[c].gen)
               /\ restarts'[c].at = "resolved" =>
                    child'[restarts'[c].proc] = 0 /\ ~pendingStart'[restarts'[c].proc]
    <3> DEFINE r == restarts'[c]
    <3>1. CASE r = restarts[c]
      <4>1. r.proc \in Procs /\ r.gen \in Nat /\ Behind(r.proc, r.inc, r.gen) /\ r.at # "resolved"
        BY <1>0, <2>3, <3>1 DEF TypeOK, Restart, WorkInv, NeverAhead, Claiming
      <4> QED BY <2>1, <4>1
    <3>2. CASE /\ restarts[c].at = "exit" /\ restarts[c].proc \in Cleared(S)
               /\ r.at = "resolved" /\ r.proc = restarts[c].proc
               /\ r.inc = restarts[c].inc /\ r.gen = restarts[c].gen
      <4>1. r.proc \in Procs /\ r.gen \in Nat /\ Behind(r.proc, r.inc, r.gen)
        BY <3>2 DEF TypeOK, Restart, WorkInv, NeverAhead
      <4> QED BY <1>3, <2>1, <3>2, <4>1
    <3>3. CASE /\ r.proc \in Registered(S) /\ S = {r.proc} /\ r.inc = inc[r.proc] /\ r.gen = 0
               /\ r.at = IF StillExiting(S) = {} THEN "resolved" ELSE "exit"
      <4>1. r.proc \in Procs /\ r.inc \in Nat /\ gen'[r.proc] \in Nat /\ inc'[r.proc] = r.inc
        BY <1>2, <3>3 DEF TypeOK, Registered
      <4>2. BehindNext(r.proc, r.inc, r.gen)
        BY <3>3, <4>1 DEF BehindNext
      <4>3. ASSUME StillExiting(S) = {} PROVE child'[r.proc] = 0 /\ ~pendingStart'[r.proc]
        <5>1. pendingStart[r.proc] => child[r.proc] = 0
          BY <4>1, PendingDown
        <5>2. r.proc \in Cleared(S) \/ child[r.proc] = 0
          BY <3>3, <4>3, <5>1 DEF StillExiting
        <5> QED BY <1>3, <3>3, <4>1, <5>2
      <4> QED BY <3>3, <4>1, <4>2, <4>3
    <3> QED BY <1>6, <3>1, <3>2, <3>3
  <2> QED BY <2>2, <2>3 DEF NeverAhead, Behind, BehindNext
<1>10. Intended'
  <2>1. \A p \in Procs : pendingStart'[p] => wanted'[p]
    BY <1>3 DEF WorkInv, Intended
  <2>2. \A p \in queued' : p \in registered' /\ wanted'[p]
    BY <1>2, <1>3 DEF WorkInv, Intended, TypeOK
  <2>3. ASSUME NEW c \in Callers, restarts'[c].at = "settle", NotOvertaken(restarts[c])'
        PROVE  wanted'[restarts'[c].proc]
    <3> DEFINE r == restarts[c]
    <3>1. restarts'[c] = r /\ r.at = "settle"
      BY <1>6, <2>3
    <3>2. r.proc \in registered /\ inc[r.proc] = r.inc /\ gen'[r.proc] = r.gen
      BY <1>2, <2>3, <3>1 DEF NotOvertaken
    <3>3. r.proc \in Procs /\ r.gen <= gen[r.proc] /\ r.gen \in Nat
      BY <3>1, <3>2 DEF WorkInv, NeverAhead, Behind, TypeOK, Restart
    <3>4. r.proc \notin Registered(S) /\ gen[r.proc] = r.gen
      BY <1>3, <3>2, <3>3
    <3> QED BY <1>3, <3>1, <3>2, <3>3, <3>4 DEF WorkInv, Intended, NotOvertaken
  <2> QED BY <2>1, <2>2, <2>3 DEF Intended
<1> QED BY <1>4, <1>7, <1>8, <1>9, <1>10

\* A stop can still end after a batch: whatever it starts was not stopping.
LEMMA BatchStepStops ==
  ASSUME TypeOK, TypeOK', Local, WorkInv, BatchStep
  PROVE  StopCanEnd'
<1>1. UNCHANGED <<registered, kills>> /\ \A p \in Procs : Same(p) \/ \E S : Starts(p, S)
  BY DEF BatchStep
<1>2. \A p \in Procs : ~(\E S : Starts(p, S)) \/ stopping'[p] = FALSE
  BY DEF Starts
<1>3. \A p \in registered : p \in Procs /\ (stopping'[p] => Same(p))
  BY <1>1, <1>2 DEF TypeOK
<1> QED BY <1>1, <1>3 DEF WorkInv, StopCanEnd, Same

\* The events of children, kills and grace timers: a stop that loses its timer
\* gets its SIGKILL, and one that loses that has ended.
LEMMA OsEventStops ==
  ASSUME EntryInv, TypeOK', WorkInv,
         \/ \E p \in Procs : StopTimerFires(p)
         \/ OsEvent
  PROVE  StopCanEnd'
<1> USE DEF EntryInv
<1>1. ASSUME NEW q \in Procs, NEW st, Finish(q, st), \A k \in kills : k \in kills' \/ (k.proc = q /\ k.child = child[q])
      PROVE  StopCanEnd'
  <2> SUFFICES ASSUME NEW p \in registered, stopping'[p]
               PROVE  \/ stopTimer'[p] = child'[p]
                      \/ [kind |-> "kill", proc |-> p, child |-> child'[p]] \in kills'
    BY <1>1 DEF Finish, StopCanEnd
  <2>1. p \in Procs /\ p # q
    BY <1>1 DEF Finish, TypeOK
  <2>2. stopTimer'[p] = stopTimer[p] /\ child'[p] = child[p] /\ stopping[p]
    BY <1>1, <2>1 DEF Finish, TypeOK
  <2> DEFINE k == [kind |-> "kill", proc |-> p, child |-> child[p]]
  <2>3. stopTimer[p] = child[p] \/ k \in kills
    BY <2>2 DEF WorkInv, StopCanEnd
  <2>4. k.proc # q
    BY <2>1
  <2> HIDE DEF k
  <2>5. stopTimer'[p] = child'[p] \/ k \in kills'
    BY <1>1, <2>2, <2>3, <2>4
  <2> QED BY <2>2, <2>5 DEF k
<1>2. ASSUME UNCHANGED <<registered, child, stopping, stopTimer>>,
             \A p \in registered : stopping[p] =>
               LET k == [kind |-> "kill", proc |-> p, child |-> child[p]] IN k \in kills => k \in kills'
      PROVE  StopCanEnd'
  BY <1>2 DEF WorkInv, StopCanEnd
<1>3. ASSUME NEW x \in exits, HandleExit(x) PROVE StopCanEnd'
  <2>1. x.proc \in Procs /\ UNCHANGED kills
    BY <1>3 DEF TypeOK, Exit, HandleExit
  <2>2. Finish(x.proc, ExitStatus(x.proc, x.code)) \/ UNCHANGED <<registered, child, stopping, stopTimer>>
    BY <1>3 DEF HandleExit, entryVars
  <2> QED BY <1>1, <1>2, <2>1, <2>2
<1>4. ASSUME NEW k \in kills, NEW err \in BOOLEAN, KillDone(k, err) PROVE StopCanEnd'
  <2>1. k.proc \in Procs /\ kills' = kills \ {k}
    BY <1>4 DEF TypeOK, Kill, KillDone
  <2>2. CASE k.kind = "kill" /\ IsCurrentChild(k.proc, k.child)
    <3>1. \E st : Finish(k.proc, st)
      BY <1>4, <2>2 DEF KillDone
    <3> QED BY <1>1, <2>1, <2>2, <3>1 DEF IsCurrentChild
  <2>3. CASE ~(k.kind = "kill" /\ IsCurrentChild(k.proc, k.child))
    <3>1. UNCHANGED <<registered, child, stopping, stopTimer>>
      BY <1>4, <2>3 DEF KillDone, entryVars
    <3>2. \A p : [kind |-> "kill", proc |-> p, child |-> child[p]] # k
      BY <2>3 DEF IsCurrentChild
    <3> QED BY <1>2, <2>1, <3>1, <3>2
  <2> QED BY <2>2, <2>3
<1>5. ASSUME NEW q \in Procs, NEW n, NEW rest, rest \subseteq kills,
             \A k \in kills : k.kind = "kill" => k \in rest,
             UNCHANGED <<registered, child, stopping>>, kills' = rest \cup ForceKill(q, n),
             stopTimer' = stopTimer \/ (stopTimer' = [stopTimer EXCEPT ![q] = 0] /\
                                        (stopping[q] /\ q \in registered => ForceKill(q, n) # {}))
      PROVE  StopCanEnd'
  <2> SUFFICES ASSUME NEW p \in registered, stopping[p]
               PROVE  \/ stopTimer'[p] = child[p]
                      \/ [kind |-> "kill", proc |-> p, child |-> child[p]] \in kills'
    BY <1>5 DEF StopCanEnd
  <2>1. p \in Procs
    BY DEF TypeOK
  <2> DEFINE k == [kind |-> "kill", proc |-> p, child |-> child[p]]
  <2>2. stopTimer[p] = child[p] \/ k \in kills
    BY DEF WorkInv, StopCanEnd
  <2>3. k.kind = "kill"
    OBVIOUS
  <2> HIDE DEF k
  <2>4. k \in kills => k \in kills'
    BY <1>5, <2>3
  <2>5. stopTimer'[p] = stopTimer[p] \/ (p = q /\ ForceKill(q, n) # {})
    BY <1>5, <2>1 DEF TypeOK
  <2>6. p = q /\ ForceKill(q, n) # {} => k \in kills'
    BY <1>5 DEF ForceKill, k
  <2> QED BY <2>2, <2>4, <2>5, <2>6 DEF k
<1>6. ASSUME NEW k \in kills, NEW err \in BOOLEAN, TermDone(k, err) PROVE StopCanEnd'
  <2>1. /\ k.proc \in Procs /\ k.kind = "term" /\ UNCHANGED <<registered, child, stopping>>
    BY <1>6 DEF TypeOK, Kill, TermDone
  <2>2. CASE err
    <3>1. /\ kills' = (kills \ {k}) \cup ForceKill(k.proc, k.child)
          /\ stopTimer' = IF ForceKill(k.proc, k.child) = {} THEN stopTimer
                          ELSE [stopTimer EXCEPT ![k.proc] = 0]
      BY <1>6, <2>2 DEF TermDone
    <3>2. kills \ {k} \subseteq kills /\ \A l \in kills : l.kind = "kill" => l \in kills \ {k}
      BY <2>1
    <3>3. stopTimer' = stopTimer \/ (stopTimer' = [stopTimer EXCEPT ![k.proc] = 0]
                                       /\ ForceKill(k.proc, k.child) # {})
      BY <3>1
    <3> QED BY <1>5, <2>1, <3>1, <3>2, <3>3
  <2>3. CASE ~err
    BY <1>2, <1>6, <2>1, <2>3 DEF TermDone
  <2> QED BY <2>2, <2>3
<1>7. ASSUME NEW q \in Procs, StopTimerFires(q) PROVE StopCanEnd'
  <2>1. /\ UNCHANGED <<registered, child, stopping>> /\ stopTimer[q] # 0
        /\ stopTimer' = [stopTimer EXCEPT ![q] = 0]
        /\ kills' = kills \cup ForceKill(q, stopTimer[q])
    BY <1>7 DEF StopTimerFires
  <2>2. q \in registered /\ stopping[q] => child[q] = stopTimer[q] /\ pid[q] = child[q]
    BY <2>1 DEF Local, LocalAt, Named, CoherentEntry
  <2>3. q \in registered /\ stopping[q] => ForceKill(q, stopTimer[q]) # {}
    BY <2>2 DEF ForceKill
  <2> QED BY <1>5, <2>1, <2>3
<1>8. ASSUME NEW q \in Procs, NEW n \in alive[q], NEW code \in Codes, Die(q, n, code) PROVE StopCanEnd'
  BY <1>2, <1>8 DEF Die, entryVars
<1> QED BY <1>3, <1>4, <1>6, <1>7, <1>8 DEF OsEvent

LEMMA DiscardWork ==
  ASSUME TypeOK, TypeOK', Local, WorkInv, ~Claiming, NEW S \in SUBSET Procs, Discard(S)
  PROVE  WorkInv'
<1>1. /\ registered' = registered \ S /\ queued' = queued \ S /\ kills \subseteq kills'
      /\ UNCHANGED <<inc, gen, tasks>>
      /\ restarts' = ResumedRestarts(S) /\ sweep' = ResumedSweep(S)
  BY DEF Discard
<1>2. ASSUME NEW p \in Procs
      PROVE  /\ p \notin S => /\ stopping'[p] = stopping[p] /\ stopTimer'[p] = stopTimer[p]
                              /\ child'[p] = child[p] /\ pendingStart'[p] = pendingStart[p]
                              /\ wanted'[p] = wanted[p]
             /\ p \in S => child'[p] = 0 /\ ~pendingStart'[p]
  BY DEF Discard, TypeOK
<1>3. StopCanEnd'
  BY <1>1, <1>2 DEF WorkInv, StopCanEnd, TypeOK
<1>4. ASSUME NEW c \in Callers
      PROVE  \/ restarts'[c] = restarts[c] /\ ~(restarts[c].at = "exit" /\ restarts[c].proc \in S)
             \/ /\ restarts[c].at = "exit" /\ restarts[c].proc \in S
                /\ restarts'[c].at = "resolved" /\ restarts'[c].proc = restarts[c].proc
                /\ restarts'[c].inc = restarts[c].inc /\ restarts'[c].gen = restarts[c].gen
  BY <1>1 DEF ResumedRestarts, RestartAt
<1>5. WaiterHasStop'
  <2>1. ASSUME NEW c \in Callers, restarts'[c].at = "exit"
        PROVE  /\ restarts'[c].proc \in registered' /\ inc[restarts'[c].proc] = restarts'[c].inc
               /\ stopping'[restarts'[c].proc]
    <3>1. restarts'[c] = restarts[c] /\ restarts[c].proc \notin S
      BY <1>4, <2>1
    <3> QED BY <1>1, <1>2, <2>1, <3>1 DEF WorkInv, WaiterHasStop, TypeOK
  <2>2. \A p \in sweep'.wait : p \in registered' /\ stopping'[p]
    BY <1>1, <1>2 DEF ResumedSweep, WorkInv, WaiterHasStop, TypeOK
  <2> QED BY <1>1, <2>1, <2>2 DEF WaiterHasStop
<1>6. PendingHasTask'
  BY <1>1, <1>2 DEF WorkInv, PendingHasTask
<1>7. Intended'
  <2>1. \A c \in Callers : restarts'[c].at = "settle" => restarts'[c] = restarts[c]
    BY <1>4
  <2>2. \A c \in Callers : restarts'[c].at = "settle" /\ NotOvertaken(restarts[c])' => wanted'[restarts'[c].proc]
    BY <1>1, <1>2, <2>1 DEF WorkInv, Intended, NotOvertaken, TypeOK
  <2> QED BY <1>1, <1>2, <2>2 DEF WorkInv, Intended, TypeOK
<1>8. NeverAhead'
  <2>1. ASSUME NEW c \in Callers, restarts'[c].at # "idle"
        PROVE  /\ restarts'[c].proc \in Procs
               /\ Behind(restarts'[c].proc, restarts'[c].inc, restarts'[c].gen)
               /\ restarts'[c].at = "resolved" => restarts'[c].proc \in S
    BY <1>4, <2>1 DEF WorkInv, NeverAhead, Claiming
  <2> QED BY <1>1, <1>2, <2>1 DEF WorkInv, NeverAhead, Behind
<1> QED BY <1>3, <1>5, <1>6, <1>7, <1>8 DEF WorkInv

LEMMA RegisterWork ==
  ASSUME TypeOK, TypeOK', Local, WorkInv, ~Claiming, NEW q \in Procs, Register(q)
  PROVE  WorkInv'
<1>1. /\ q \notin registered /\ registered' = registered \cup {q}
      /\ UNCHANGED <<child, pendingStart, stopTimer, kills, restarts, sweep, queued, tasks, wanted>>
  BY DEF Register, osVars, callVars
<1>2. ASSUME NEW p \in Procs
      PROVE  /\ inc[p] \in Nat /\ gen[p] \in Nat
             /\ inc'[p] = IF p = q THEN inc[p] + 1 ELSE inc[p]
             /\ p # q => gen'[p] = gen[p] /\ stopping'[p] = stopping[p]
             /\ p = q => ~stopping'[p]
  BY DEF Register, TypeOK
<1>3. StopCanEnd'
  BY <1>1, <1>2 DEF WorkInv, StopCanEnd, TypeOK
<1>4. WaiterHasStop'
  BY <1>1, <1>2 DEF WorkInv, WaiterHasStop, TypeOK
<1>5. PendingHasTask'
  <2>1. \A p \in Procs : pendingStart[p] => p # q
    BY <1>1 DEF WorkInv, PendingHasTask
  <2> QED BY <1>1, <1>2, <2>1 DEF WorkInv, PendingHasTask
<1>6. NeverAhead'
  <2>1. ASSUME NEW p \in Procs, NEW i \in Nat, NEW g \in Nat, Behind(p, i, g) PROVE BehindNext(p, i, g)
    BY <1>1, <1>2, <2>1 DEF Behind, BehindNext
  <2>2. \A t \in tasks : BehindNext(t.proc, t.inc, t.gen)
    BY <2>1 DEF WorkInv, NeverAhead, TypeOK, Task
  <2>3. \A c \in Callers : restarts[c].at # "idle" =>
          restarts[c].proc \in Procs /\ BehindNext(restarts[c].proc, restarts[c].inc, restarts[c].gen)
    BY <2>1 DEF WorkInv, NeverAhead, TypeOK, Restart
  <2> QED BY <1>1, <2>2, <2>3 DEF NeverAhead, Behind, BehindNext, Claiming
<1>7. Intended'
  <2>1. ASSUME NEW c \in Callers, restarts[c].at = "settle", NotOvertaken(restarts[c])'
        PROVE  wanted[restarts[c].proc]
    <3> DEFINE r == restarts[c]
    <3>1. r.proc \in Procs /\ r.inc \in Nat /\ r.inc <= inc[r.proc]
      BY <2>1 DEF WorkInv, NeverAhead, Behind, TypeOK, Restart
    <3>2. r.proc # q
      BY <1>1, <1>2, <2>1, <3>1 DEF NotOvertaken
    <3>3. NotOvertaken(r)
      BY <1>1, <1>2, <2>1, <3>1, <3>2 DEF NotOvertaken
    <3> QED BY <2>1, <3>3 DEF WorkInv, Intended
  <2> QED BY <1>1, <2>1 DEF WorkInv, Intended
<1> QED BY <1>3, <1>4, <1>5, <1>6, <1>7 DEF WorkInv

LEMMA ClaimRestartWork ==
  ASSUME TypeOK, TypeOK', Local, WorkInv, NEW d \in Callers, ClaimRestart(d)
  PROVE  WorkInv'
<1> DEFINE r == restarts[d]
           mine == r.proc \in registered /\ inc[r.proc] = r.inc
           new == IF mine THEN RestartAt("settle", r.proc, r.inc, gen[r.proc] + 1) ELSE Idle
<1>1. /\ r.at = "resolved"
      /\ UNCHANGED <<registered, inc, child, stopping, pendingStart, stopTimer, kills, sweep, queued, tasks>>
  BY DEF ClaimRestart, osVars
<1>2. ASSUME NEW p \in Procs
      PROVE  /\ gen[p] \in Nat /\ gen'[p] = IF mine /\ p = r.proc THEN gen[p] + 1 ELSE gen[p]
             /\ wanted'[p] <=> wanted[p] \/ (mine /\ p = r.proc)
  BY DEF ClaimRestart, TypeOK
<1>3. \A c \in Callers : restarts'[c] = IF c = d THEN new ELSE restarts[c]
  BY DEF ClaimRestart, TypeOK
<1>4. new.at # "exit" /\ new.at # "resolved"
      /\ (new.at # "idle" => mine /\ new.proc = r.proc /\ new.inc = r.inc /\ new.gen = gen[r.proc] + 1)
  BY DEF RestartAt, Idle
<1> HIDE DEF new
<1>5. r.proc \in Procs /\ ~pendingStart[r.proc]
  BY <1>1 DEF WorkInv, NeverAhead
<1>6. StopCanEnd'
  BY <1>1 DEF WorkInv, StopCanEnd
<1>7. WaiterHasStop'
  BY <1>1, <1>3, <1>4 DEF WorkInv, WaiterHasStop
<1>8. PendingHasTask'
  <2>1. \A p \in Procs : pendingStart[p] => gen'[p] = gen[p]
    BY <1>2, <1>5
  <2> QED BY <1>1, <2>1 DEF WorkInv, PendingHasTask
<1>9. NeverAhead'
  <2>1. ASSUME NEW p \in Procs, NEW i, NEW g \in Nat, Behind(p, i, g) PROVE BehindNext(p, i, g)
    BY <1>1, <1>2, <2>1 DEF Behind, BehindNext
  <2>2. \A t \in tasks : BehindNext(t.proc, t.inc, t.gen)
    BY <2>1 DEF WorkInv, NeverAhead, TypeOK, Task
  <2>3. ASSUME NEW c \in Callers, restarts'[c].at # "idle"
        PROVE  /\ restarts'[c].proc \in Procs
               /\ BehindNext(restarts'[c].proc, restarts'[c].inc, restarts'[c].gen)
               /\ restarts'[c].at = "resolved" => restarts'[c] = restarts[c]
    <3>1. CASE c = d
      <4>1. /\ mine /\ restarts'[c].proc = r.proc /\ restarts'[c].inc = r.inc
            /\ restarts'[c].gen = gen[r.proc] + 1 /\ restarts'[c].at # "resolved"
        BY <1>3, <1>4, <2>3, <3>1
      <4>2. gen'[r.proc] = gen[r.proc] + 1 /\ gen[r.proc] \in Nat /\ r.inc \in Nat
        BY <1>2, <1>5, <4>1 DEF TypeOK
      <4> QED BY <1>1, <1>5, <4>1, <4>2 DEF BehindNext
    <3>2. CASE c # d
      <4>1. restarts'[c] = restarts[c]
        BY <1>3, <3>2
      <4>2. restarts[c].proc \in Procs /\ restarts[c].gen \in Nat
            /\ Behind(restarts[c].proc, restarts[c].inc, restarts[c].gen)
        BY <2>3, <4>1 DEF WorkInv, NeverAhead, TypeOK, Restart
      <4> QED BY <2>1, <4>1, <4>2
    <3> QED BY <3>1, <3>2
  <2> QED BY <1>1, <2>2, <2>3 DEF WorkInv, NeverAhead, Behind, BehindNext
<1>10. Intended'
  <2>1. ASSUME NEW c \in Callers, restarts'[c].at = "settle", NotOvertaken(restarts[c])',
               c # d
        PROVE  wanted'[restarts'[c].proc]
    <3>1. restarts'[c] = restarts[c] /\ restarts[c].proc \in Procs
      BY <1>3, <2>1 DEF WorkInv, NeverAhead
    <3>2. wanted[restarts[c].proc] \/ (mine /\ restarts[c].proc = r.proc)
      BY <1>1, <1>2, <2>1, <3>1 DEF NotOvertaken, WorkInv, Intended
    <3> QED BY <1>2, <3>1, <3>2
  <2>2. restarts'[d].at = "settle" => wanted'[restarts'[d].proc]
    BY <1>2, <1>3, <1>4, <1>5
  <2>3. \A p \in Procs : wanted[p] => wanted'[p]
    BY <1>2
  <2>4. \A c \in Callers : restarts'[c].at = "settle" /\ NotOvertaken(restarts[c])' => wanted'[restarts'[c].proc]
    BY <2>1, <2>2
  <2>5. \A p \in queued : p \in Procs
    BY DEF TypeOK
  <2> QED BY <1>1, <2>3, <2>4, <2>5 DEF WorkInv, Intended
<1> QED BY <1>6, <1>7, <1>8, <1>9, <1>10 DEF WorkInv

-----------------------------------------------------------------------------
(* The whole invariant, and what follows from it.                           *)

LEMMA InvMeaning == IInv <=> EntryInv /\ WorkInv
BY LocalMeaning DEF IInv, EntryInv, OsInv, WorkInv

LEMMA IInvInductive ==
  /\ Init => IInv
  /\ IInv /\ [Next]_vars => IInv'
<1>1. ASSUME Init PROVE IInv
  <2>1. WorkInv
    BY <1>1 DEF Init, WorkInv, StopCanEnd, WaiterHasStop, PendingHasTask, Intended, NotOvertaken,
                NeverAhead, Idle, RestartAt
  <2> QED BY <1>1, <2>1, EntryInvInductive, InvMeaning
<1>2. ASSUME IInv, Next PROVE IInv'
  <2> USE DEF EntryInv
  <2>1. EntryInv /\ WorkInv /\ EntryInv' /\ TypeOK' /\ [Next]_vars
    BY <1>2, InvMeaning, EntryInvInductive
  <2> SUFFICES WorkInv'
    BY <2>1, InvMeaning, PTL
  <2>2. CASE BatchStep
    BY <2>1, <2>2, BatchStepWork, BatchStepStops DEF WorkInv
  <2>3. CASE TaskStep
    BY <2>1, <2>3, TaskStepWork DEF WorkInv
  <2>4. CASE StopStep
    BY <2>1, <2>4, StopStepWork DEF WorkInv
  <2>5. CASE FinishStep /\ ((\E p \in Procs : StopTimerFires(p)) \/ OsEvent)
    BY <2>1, <2>5, FinishStepWork, OsEventStops DEF WorkInv
  <2>6. CASE ~Claiming /\ \E S \in SUBSET Procs : Discard(S)
    BY <2>1, <2>6, DiscardWork
  <2>7. CASE ~Claiming /\ \E p \in Procs : Register(p)
    BY <2>1, <2>7, RegisterWork
  <2>8. CASE \E c \in Callers : ClaimRestart(c)
    BY <2>1, <2>8, ClaimRestartWork
  <2> QED BY <1>2, <2>1, <2>2, <2>3, <2>4, <2>5, <2>6, <2>7, <2>8, WorkShapes
<1>3. ASSUME IInv, UNCHANGED vars PROVE IInv'
  <2>1. EntryInv'
    BY <1>3, InvMeaning, EntryInvInductive
  <2>2. WorkInv'
    BY <1>3, InvMeaning
       DEF WorkInv, StopCanEnd, WaiterHasStop, PendingHasTask, Intended, NotOvertaken,
           NeverAhead, Behind, vars, entryVars, osVars, callVars
  <2> QED BY <2>1, <2>2, InvMeaning, PTL
<1> QED BY <1>1, <1>2, <1>3

\* Every conjunct of the lifecycle's invariant holds in every reachable state.
THEOREM LifecycleInvariant == Spec => []IInv
BY IInvInductive, PTL DEF Spec

\* The last request wins: nothing that waits, queues or sleeps spawns a child
\* for an id whose last request was to stop.
THEOREM LastRequestWins == Spec => StopWins
<1>1. ASSUME IInv, IInv', [Next]_vars
      PROVE  \A p \in Procs : spawned'[p] # spawned[p] => wanted'[p]
  <2> SUFFICES ASSUME NEW p \in Procs, spawned'[p] # spawned[p] PROVE wanted'[p]
    OBVIOUS
  <2>1. EntryInv /\ WorkInv
    BY <1>1, InvMeaning
  <2>2. CASE BatchStep
    BY <2>2 DEF BatchStep, Same
  <2>3. CASE TaskStep
    BY <2>1, <2>3 DEF TaskStep, WorkInv, Intended
  <2>4. StopStep \/ FinishStep => UNCHANGED spawned
    BY DEF StopStep, StopProcess, FinishStep
  <2>5. \A S, q, c : Discard(S) \/ Register(q) \/ ClaimRestart(c) => UNCHANGED spawned
    BY DEF Discard, Register, ClaimRestart, osVars
  <2>6. UNCHANGED vars => UNCHANGED spawned
    BY DEF vars, osVars
  <2> QED BY <1>1, <2>1, <2>2, <2>3, <2>4, <2>5, <2>6, WorkShapes
<1> QED BY <1>1, LifecycleInvariant, PTL DEF Spec, StopWins

-----------------------------------------------------------------------------
(* The promise of ProcessControl.                                           *)

\* The phase of p without a look at the map of entries: an id that left its
\* file holds neither a child nor a pending start.
PhaseAt(p) ==
  IF child[p] # 0 THEN IF stopping[p] THEN "stopping" ELSE "up"
  ELSE IF pendingStart[p] THEN "pending" ELSE "down"

PhasesRead == PhaseOf = [p \in Procs |-> PhaseAt(p)]

LEMMA Phases == EntryInv => PhasesRead
<1> SUFFICES ASSUME EntryInv, NEW p \in Procs, p \notin registered PROVE PhaseAt(p) = "down"
  BY DEF PhasesRead, PhaseOf, PhaseAt
<1>1. child[p] = 0 /\ ~pendingStart[p]
  BY DEF EntryInv, Local, LocalAt, Named
<1> QED BY <1>1 DEF PhaseAt

\* What one step may do to one id.
Promised(p) ==
  \/ Promise!Stays(p) \/ Promise!Ask(p) \/ Promise!Launch(p) \/ Promise!GiveUp(p)
  \/ Promise!Halt(p) \/ Promise!Drop(p) \/ Promise!End(p)

LEMMA StepPromised ==
  ASSUME IInv, IInv', [Next]_vars
  PROVE  \A p \in Procs : Promised(p)
<1> SUFFICES ASSUME NEW p \in Procs PROVE Promised(p)
  OBVIOUS
<1>1. EntryInv /\ WorkInv /\ EntryInv' /\ WorkInv'
  BY InvMeaning, PTL
<1>0. PhasesRead /\ PhasesRead'
  BY <1>1, Phases, PTL
<1>2. /\ TypeOK /\ TypeOK' /\ Local
      /\ PhaseOf[p] = PhaseAt(p) /\ PhaseOf'[p] = PhaseAt(p)'
      /\ wanted[p] \in BOOLEAN /\ wanted'[p] \in BOOLEAN
  BY <1>0, <1>1 DEF PhasesRead, EntryInv, TypeOK
<1> USE DEF Promised
<1>3. ASSUME PhaseAt(p)' = PhaseAt(p), wanted'[p] = wanted[p] PROVE Promised(p)
  BY <1>2, <1>3 DEF Promise!Stays
<1>4. CASE BatchStep
  <2>1. Startable(p) => PhaseAt(p) = "down"
    BY DEF Startable, PhaseAt
  <2>2. CASE Same(p)
    <3>1. PhaseAt(p)' = PhaseAt(p)
      BY <2>2 DEF Same, PhaseAt
    <3>2. wanted'[p] = wanted[p] \/ (wanted'[p] = TRUE /\ Startable(p))
      BY <1>2, <1>4 DEF BatchStep
    <3> QED BY <1>2, <1>3, <2>1, <3>1, <3>2 DEF Promise!Ask
  <2>3. ASSUME NEW S, Starts(p, S), wanted'[p] PROVE Promised(p)
    <3>1. PhaseAt(p) = "down" /\ child[p] = 0 /\ spawned[p] \in Nat /\ wanted'[p] = TRUE
      BY <1>2, <2>1, <2>3 DEF Starts, Startable, TypeOK
    <3>2. PhaseAt(p)' \in {"down", "pending", "up"}
      BY <2>3 DEF Starts, PhaseAt
    <3> QED BY <1>2, <3>1, <3>2 DEF Promise!Ask, Promise!Launch
  <2> QED BY <1>4, <2>2, <2>3 DEF BatchStep
<1>5. CASE TaskStep
  <2>1. UNCHANGED <<wanted, stopping>>
    BY <1>5 DEF TaskStep
  <2>2. CASE child'[p] = child[p] /\ pendingStart'[p] = pendingStart[p]
    BY <1>3, <2>1, <2>2 DEF PhaseAt
  <2>3. ASSUME pendingStart[p],
               \/ Spawns(p) \/ Pends(p)
               \/ child'[p] = child[p] /\ ~pendingStart'[p]
        PROVE  Promised(p)
    <3>1. PhaseAt(p) = "pending" /\ child[p] = 0 /\ stopping[p] = FALSE
      BY <1>2, <2>3, PendingDown DEF PhaseAt
    <3>2. PhaseAt(p)' \in {"down", "pending", "up"}
      BY <2>1, <2>3, <3>1 DEF PhaseAt
    <3>3. wanted'[p] = TRUE /\ wanted'[p] = wanted[p]
      BY <1>1, <1>2, <2>1, <2>3 DEF WorkInv, Intended
    <3> QED BY <1>2, <3>1, <3>2, <3>3 DEF Promise!Launch, Promise!GiveUp
  <2> QED BY <1>5, <2>2, <2>3 DEF TaskStep
<1>6. CASE StopStep
  <2>1. PICK S \in SUBSET Procs : StopProcess(S)
    BY <1>6 DEF StopStep
  <2>2. /\ wanted'[p] = IF p \in Registered(S) THEN FALSE ELSE wanted[p]
        /\ child'[p] = IF p \in Cleared(S) THEN 0 ELSE child[p]
        /\ pendingStart'[p] = IF p \in Cancelled(S) THEN FALSE ELSE pendingStart[p]
        /\ stopping'[p] = IF p \in Cleared(S) THEN FALSE ELSE IF p \in Signalled(S) THEN TRUE
                          ELSE stopping[p]
    BY <2>1, <1>2 DEF StopProcess, TypeOK
  <2>3. CASE p \notin Registered(S)
    <3>1. p \notin Cleared(S) /\ p \notin Cancelled(S) /\ p \notin Signalled(S)
      BY <2>3 DEF Cleared, Cancelled, Signalled, Terminated
    <3>2. PhaseAt(p)' = PhaseAt(p) /\ wanted'[p] = wanted[p]
      BY <2>2, <2>3, <3>1 DEF PhaseAt
    <3> QED BY <1>3, <3>2
  <2>4. CASE p \in Cleared(S)
    <3>1. p \in Registered(S) /\ ~pendingStart[p] /\ p \notin Cancelled(S)
      BY <2>4 DEF Cleared, Terminated, Cancelled
    <3>2. PhaseAt(p)' = "down" /\ wanted'[p] = FALSE
      BY <2>2, <2>4, <3>1 DEF PhaseAt
    <3> QED BY <1>2, <3>2 DEF Promise!Drop
  <2>5. CASE p \in Registered(S) /\ p \notin Cleared(S)
    <3>1. pendingStart[p] => child[p] = 0
      BY <1>2, PendingDown
    <3>2. child[p] # 0 => stopping'[p] = TRUE
      <4>1. CASE stopping[p] = TRUE
        BY <2>2, <2>5, <4>1
      <4>2. CASE child[p] # 0 /\ stopping[p] = FALSE
        BY <2>2, <2>5, <3>1, <4>2 DEF Cleared, Terminated
      <4> QED BY <4>1, <4>2, <1>2 DEF TypeOK
    <3>3. child[p] = 0 => PhaseAt(p)' = "down"
      BY <2>2, <2>5 DEF PhaseAt, Cancelled
    <3>4. child[p] # 0 => PhaseAt(p)' = "stopping"
      BY <2>2, <2>5, <3>2 DEF PhaseAt
    <3>5. PhaseAt(p) \in {"up", "stopping"} <=> child[p] # 0
      BY DEF PhaseAt
    <3>6. wanted'[p] = FALSE
      BY <2>2, <2>5
    <3> QED BY <1>2, <3>3, <3>4, <3>5, <3>6 DEF Promise!Halt
  <2> QED BY <2>3, <2>4, <2>5
<1>7. CASE FinishStep
  <2>1. UNCHANGED <<pendingStart, wanted>>
    BY <1>7 DEF FinishStep
  <2>2. CASE UNCHANGED <<child, stopping>>
    BY <1>3, <2>1, <2>2 DEF PhaseAt
  <2>3. ASSUME NEW q \in Procs, NEW st, child[q] # 0, Finish(q, st) PROVE Promised(p)
    <3>1. /\ child'[p] = IF p = q THEN 0 ELSE child[p]
          /\ stopping'[p] = IF p = q THEN FALSE ELSE stopping[p]
      BY <2>3, <1>2 DEF Finish, TypeOK
    <3>2. ~pendingStart[q]
      BY <1>2, <2>3, PendingDown
    <3>3. CASE p = q
      <4>1. PhaseAt(p) \in {"up", "stopping"} /\ PhaseAt(p)' = "down"
        BY <2>1, <2>3, <3>1, <3>2, <3>3 DEF PhaseAt
      <4> QED BY <1>2, <2>1, <4>1 DEF Promise!End
    <3>4. CASE p # q
      BY <1>3, <2>1, <3>1, <3>4 DEF PhaseAt
    <3> QED BY <3>3, <3>4
  <2> QED BY <1>7, <2>2, <2>3 DEF FinishStep
<1>8. ASSUME NEW S \in SUBSET Procs, Discard(S) PROVE Promised(p)
  <2>1. CASE p \in S
    <3>1. child'[p] = 0 /\ ~pendingStart'[p] /\ wanted'[p] = FALSE
      BY <1>2, <1>8, <2>1 DEF Discard, TypeOK
    <3> QED BY <1>2, <3>1 DEF PhaseAt, Promise!Drop
  <2>2. CASE p \notin S
    <3>1. /\ child'[p] = child[p] /\ pendingStart'[p] = pendingStart[p]
          /\ stopping'[p] = stopping[p] /\ wanted'[p] = wanted[p]
      BY <1>2, <1>8, <2>2 DEF Discard, TypeOK
    <3> QED BY <1>3, <3>1 DEF PhaseAt
  <2> QED BY <2>1, <2>2
<1>9. ASSUME NEW q \in Procs, Register(q) PROVE Promised(p)
  <2>1. UNCHANGED <<child, pendingStart, wanted>> /\ q \notin registered
        /\ stopping'[p] = IF p = q THEN FALSE ELSE stopping[p]
    BY <1>2, <1>9 DEF Register, TypeOK
  <2>2. p = q => child[p] = 0
    BY <1>2, <2>1 DEF Local, LocalAt, Named
  <2> QED BY <1>3, <2>1, <2>2 DEF PhaseAt
<1>10. ASSUME NEW c \in Callers, ClaimRestart(c) PROVE Promised(p)
  <2>1. /\ UNCHANGED <<child, pendingStart, stopping>> /\ restarts[c].at = "resolved"
        /\ wanted'[p] = wanted[p] \/ (wanted'[p] = TRUE /\ p = restarts[c].proc)
    BY <1>2, <1>10 DEF ClaimRestart
  <2>2. PhaseAt(p)' = PhaseAt(p)
    BY <2>1 DEF PhaseAt
  <2>3. p = restarts[c].proc => PhaseAt(p) = "down"
    BY <1>1, <2>1 DEF WorkInv, NeverAhead, PhaseAt
  <2> QED BY <1>2, <1>3, <2>1, <2>2, <2>3 DEF Promise!Ask
<1>11. CASE UNCHANGED vars
  BY <1>3, <1>11 DEF PhaseAt, vars, entryVars
<1> QED BY <1>1, <1>4, <1>5, <1>6, <1>7, <1>8, <1>9, <1>10, <1>11, WorkShapes

\* The detailed lifecycle implements the promise made for each process, step
\* by step and for any number of them at once.
THEOREM ImplementsPromise == Spec => KeepsPromise
<1>1. Init => Promise!Init
  BY DEF Init, Promise!Init, PhaseOf
<1>2. ASSUME IInv, IInv', [Next]_vars PROVE Promise!Next
  BY <1>2, StepPromised DEF Promised, Promise!Next
<1> QED BY <1>1, <1>2, LifecycleInvariant, PTL DEF Spec, KeepsPromise, Promise!Spec
=============================================================================
