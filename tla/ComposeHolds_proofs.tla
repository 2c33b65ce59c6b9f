------------------------- MODULE ComposeHolds_proofs -------------------------
(***************************************************************************)
(* Theorems about ComposeHolds, for every set of processes, mode and       *)
(* bound.  The stack only watches the lifecycle: a step of ComposeHolds is *)
(* a step of Lifecycle or leaves it alone, so that what Lifecycle_proofs   *)
(* establishes holds here too, and with it a running process's hold.       *)
(***************************************************************************)
EXTENDS ComposeHolds, Lifecycle_proofs, FiniteSetTheorems

\* The steps of HoldsNext that change the lifecycle, with the processes that let
\* go of the stack in each.
LEMMA HoldsCases ==
  ASSUME HoldsNext
  PROVE  \/ Microtask /\ Follow({}, {})
         \/ ReleaseAll
         \/ /\ ~Claiming /\ ~Resuming
            /\ \/ \E S \in SUBSET Procs : StopAndRelease(S) \/ DiscardAndRelease(S)
               \/ (RunRequest \/ PortDone \/ Timer \/ OsEvent) /\ Follow({}, {})
               \/ \E q \in prep, ok \in BOOLEAN :
                    \/ ListStack(q, ok) \/ UpDone(q, ok)
                    \/ \E out \in Outs : PrepareDone(q, ok, out)
               \/ \E n \in stops : StopDone(n)
               \/ StopAll \/ Closed
BY DEF HoldsNext, StackStep, Prepares

\* Every step is a step of Lifecycle or a stutter of its variables.
LEMMA StepImplements ==
  ASSUME TypeOK, HoldsNext
  PROVE  [Next]_vars
<1>1. CASE Microtask /\ Follow({}, {})
  BY <1>1 DEF Next
<1>2. CASE ReleaseAll
  BY <1>2 DEF ReleaseAll, vars
<1>3. ASSUME ~Claiming, ~Resuming, NEW S \in SUBSET Procs,
             StopAndRelease(S) \/ DiscardAndRelease(S)
      PROVE  Next
  BY <1>3 DEF StopAndRelease, DiscardAndRelease, Next, EventStep, Request
<1>4. ASSUME ~Claiming, ~Resuming, RunRequest \/ PortDone \/ Timer \/ OsEvent
      PROVE  Next
  BY <1>4 DEF Next, EventStep, Request, TaskDone
<1>5. ASSUME ~Claiming, ~Resuming, NEW q \in prep, NEW ok \in BOOLEAN,
             NEW out \in Outs, PrepareDone(q, ok, out)
      PROVE  Next
  <2>1. q.task \in tasks /\ ComposeDone(q.task, ok, out)
    BY <1>5 DEF PrepareDone
  <2>2. TaskDone
    BY <2>1 DEF TaskDone
  <2> QED BY <1>5, <2>2 DEF Next, EventStep
<1>6. ASSUME ~Claiming, ~Resuming, StopAll
      PROVE  Next
  <2>1. registered \in SUBSET Procs /\ Stop(registered)
    BY <1>6 DEF StopAll, TypeOK
  <2>2. Request
    BY <2>1 DEF Request
  <2> QED BY <1>6, <2>2 DEF Next, EventStep
<1>7. ASSUME NEW q \in prep, NEW ok \in BOOLEAN, ListStack(q, ok) \/ UpDone(q, ok)
      PROVE  UNCHANGED vars
  BY <1>7 DEF ListStack, UpDone
<1>8. ASSUME NEW n \in stops, StopDone(n)
      PROVE  UNCHANGED vars
  BY <1>8 DEF StopDone
<1>9. ASSUME Closed
      PROVE  UNCHANGED vars
  BY <1>9 DEF Closed
<1> QED BY <1>1, <1>2, <1>3, <1>4, <1>5, <1>6, <1>7, <1>8, <1>9, HoldsCases

\* So Lifecycle's inductive invariant is one of ComposeHolds too.
LEMMA EntryInvKept == HoldsSpec => []EntryInv
<1>1. EntryInv /\ [HoldsNext]_<<vars, holdVars>> => EntryInv'
  <2> SUFFICES ASSUME EntryInv, [HoldsNext]_<<vars, holdVars>> PROVE EntryInv'
    OBVIOUS
  <2>1. [Next]_vars
    BY StepImplements DEF EntryInv
  <2> QED BY <2>1, EntryInvInductive
<1> QED BY <1>1, EntryInvInductive, PTL DEF HoldsSpec

\* Starting and stopping a process is what it was without its stack: with the
\* stack's state hidden, the composition does what Lifecycle does.
THEOREM ImplementsLifecycle == HoldsSpec => Spec
<1>1. EntryInv /\ [HoldsNext]_<<vars, holdVars>> => [Next]_vars
  BY StepImplements DEF EntryInv
<1> QED BY <1>1, EntryInvKept, PTL DEF HoldsSpec, Spec

-----------------------------------------------------------------------------
(* A running process keeps its hold.                                        *)

\* Letting go for P removes P from the users, and nobody else.
LEMMA ReleaseUsers ==
  ASSUME NEW h, NEW P, ReleaseFrom(h, P)
  PROVE  hold'.users = h.users \ P
BY DEF ReleaseFrom, LastOut, NoHold

\* Following a step, only processes let go of now or without a child lose it.
LEMMA FollowKeeps ==
  ASSUME NEW now, NEW later, Follow(now, later), NEW p \in hold.users \ now, child'[p] # 0
  PROVE  p \in hold.users'
<1>1. ReleaseFrom(hold, now \cup {r \in releasing : child'[r] = 0})
  BY DEF Follow
<1>2. hold'.users = hold.users \ (now \cup {r \in releasing : child'[r] = 0})
  BY <1>1, ReleaseUsers
<1> QED BY <1>2

\* A stop() that releases at once has found no child, or a cleared one.
LEMMA ReleasedNowHasNoChild ==
  ASSUME NEW S \in SUBSET Procs, Stop(S), NEW p \in Procs, p \in registered, p \in ReleasedNow(S),
         TypeOK, Local
  PROVE  child'[p] = 0
<1>1. StopProcess(S)
  BY DEF Stop
<1>2. pendingStart[p] \/ child[p] = 0 \/ p \in Cleared(S)
  BY DEF ReleasedNow, StillExiting, Registered
<1>3. pendingStart[p] => child[p] = 0
  BY PendingDown
<1> QED BY <1>1, <1>2, <1>3 DEF StopProcess

\* A preparation that ends lets go of its process only if that does not run.
LEMMA PrepareDoneKeeps ==
  ASSUME NEW q \in prep, NEW ok \in BOOLEAN, NEW out \in Outs, PrepareDone(q, ok, out),
         TypeOK, Local, NEW p \in hold.users, p \in registered', child'[p] # 0
  PROVE  p \in hold.users'
<1> DEFINE t == q.task
           held == [users   |-> hold.users \cup {t.proc},
                    started |-> hold.started \/ q.started,
                    stop    |-> hold.stop \/ t.proc \in StopProcs]
           h == IF RecordsHold(t, ok, q.started) THEN held ELSE hold
           idle == t.proc \notin registered \/ (~pendingStart[t.proc] /\ child[t.proc] = 0)
           letGo == IF StillCurrent(t) THEN ~ok ELSE (ok \/ q.started) /\ idle
           L == IF letGo THEN {t.proc} ELSE {}
<1>1. t \in tasks /\ ComposeDone(t, ok, out) /\ ReleaseFrom(h, L)
  BY DEF PrepareDone
<1>2. hold'.users = h.users \ L
  BY <1>1, ReleaseUsers
<1>3. p \in h.users
  OBVIOUS
<1>4. t.proc \in Procs
  BY <1>1 DEF TypeOK, Task
<1> HIDE DEF h, held
<1>5. CASE StillCurrent(t) /\ ~ok
  <2>1. EndStart(t, "stopped")
    BY <1>1, <1>5 DEF ComposeDone
  <2>2. child[t.proc] = 0 /\ child' = child
    BY <1>4, <1>5, <2>1, PendingDown DEF StillCurrent, StillPending, EndStart
  <2> QED BY <1>2, <1>3, <2>2
<1>6. CASE ~StillCurrent(t)
  <2>1. DropTask(t)
    BY <1>1, <1>6 DEF ComposeDone
  <2>2. child' = child /\ registered' = registered
    BY <2>1 DEF DropTask, entryVars
  <2> QED BY <1>2, <1>3, <1>6, <2>2
<1>7. CASE StillCurrent(t) /\ ok
  BY <1>2, <1>3, <1>7
<1> QED BY <1>5, <1>6, <1>7

\* Nothing but stopAll's last release drops the hold of a process that runs.
THEOREM RunningKeepsHold == HoldsSpec => KeepsHold
<1> DEFINE Kept == ~AllExited => \A p \in hold.users \cap registered' :
                                   child'[p] # 0 => p \in hold.users'
<1>1. EntryInv /\ EntryInv' /\ [HoldsNext]_<<vars, holdVars>> => Kept
  <2> SUFFICES ASSUME EntryInv, EntryInv', [HoldsNext]_<<vars, holdVars>>, ~AllExited,
                      NEW p \in hold.users, p \in registered', child'[p] # 0
               PROVE  p \in hold.users'
    OBVIOUS
  <2>0. TypeOK /\ Local /\ p \in Procs
    BY DEF EntryInv, TypeOK
  <2>1. CASE UNCHANGED <<vars, holdVars>>
    BY <2>1 DEF holdVars
  <2>2. ASSUME Follow({}, {}) PROVE p \in hold.users'
    BY <2>2, FollowKeeps
  <2>3. ASSUME NEW S \in SUBSET Procs, StopAndRelease(S) PROVE p \in hold.users'
    <3>1. Stop(S) /\ Follow(ReleasedNow(S), ReleasedLater(S))
      BY <2>3 DEF StopAndRelease
    <3>2. registered' = registered
      BY <3>1 DEF Stop, StopProcess
    <3>3. p \notin ReleasedNow(S)
      BY <2>0, <3>1, <3>2, ReleasedNowHasNoChild
    <3> QED BY <3>1, <3>3, FollowKeeps
  <2>4. ASSUME NEW S \in SUBSET Procs, DiscardAndRelease(S) PROVE p \in hold.users'
    <3>1. Discard(S) /\ Follow(S, {})
      BY <2>4 DEF DiscardAndRelease
    <3>2. p \notin S
      BY <3>1 DEF Discard
    <3> QED BY <3>1, <3>2, FollowKeeps
  <2>5. ASSUME NEW q \in prep, NEW ok \in BOOLEAN, ListStack(q, ok) \/ UpDone(q, ok)
        PROVE p \in hold.users'
    BY <2>5 DEF ListStack, UpDone
  <2>6. ASSUME NEW q \in prep, NEW ok \in BOOLEAN, NEW out \in Outs, PrepareDone(q, ok, out)
        PROVE p \in hold.users'
    BY <2>0, <2>6, PrepareDoneKeeps
  <2>7. ASSUME NEW n \in stops, StopDone(n) PROVE p \in hold.users'
    BY <2>7 DEF StopDone
  <2>8. ASSUME StopAll PROVE p \in hold.users'
    <3>1. Stop(registered) /\ ReleaseFrom(hold, ReleasedNow(registered))
      BY <2>8 DEF StopAll
    <3>2. registered' = registered /\ registered \in SUBSET Procs
      BY <2>0, <3>1 DEF Stop, StopProcess, TypeOK
    <3>3. p \notin ReleasedNow(registered)
      BY <2>0, <3>1, <3>2, ReleasedNowHasNoChild
    <3> QED BY <3>1, <3>3, ReleaseUsers
  <2>9. ASSUME Closed PROVE p \in hold.users'
    BY <2>9 DEF Closed
  <2>10. ~ReleaseAll
    BY DEF ReleaseAll
  <2> QED BY <2>1, <2>2, <2>3, <2>4, <2>5, <2>6, <2>7, <2>8, <2>9, <2>10, HoldsCases
<1> QED BY <1>1, EntryInvKept, PTL DEF HoldsSpec, KeepsHold

-----------------------------------------------------------------------------
(* The invariant of the composition: Lifecycle's own, and the stack's.      *)

\* Whatever Lifecycle keeps, its composition with the stack keeps.
THEOREM LifecycleInvariantHolds == HoldsSpec => []IInv
BY ImplementsLifecycle, LifecycleInvariant, PTL

\* The hold, the stops and the stack, without the tasks.
HoldPart ==
  /\ hold \in [users : SUBSET ComposeProcs, started : BOOLEAN, stop : BOOLEAN]
  /\ hold.users = {} => hold = NoHold
  /\ stops \subseteq Nat /\ IsFiniteSet(stops)
  /\ stack \in {"down", "ended", "user", "daemon", "left"}

\* One preparation per compose task; only one whose `up` succeeded claims it.
PrepPart ==
  /\ prep \subseteq Prep
  /\ {t \in tasks : t.kind = "compose"} = {q.task : q \in prep}
  /\ \A q, r \in prep : q.task = r.task => q = r
  /\ \A q \in prep : q.task.proc \in ComposeProcs /\ (q.at # "ready" => ~q.started)

\* What anybody claims to have started is not the user's stack, and what the
\* daemon started somebody claims.
ClaimPart ==
  /\ NoForgottenStack
  /\ hold.started \/ (\E q \in prep : q.started) => stack # "user"

ReleasingAt(p) == p \in registered /\ stopping[p]

ClosingPart ==
  closing \in [at : {"no", "exits", "stops", "done"}, wait : SUBSET Procs, drain : SUBSET Nat]

LatePart == releasing \subseteq Procs /\ (\A p \in releasing : ReleasingAt(p)) /\ ClosingPart

StackInv == HoldPart /\ PrepPart /\ ClaimPart /\ LatePart

LEMMA StackInvMeaning == StackInv => HoldsCoherent
BY DEF StackInv, HoldPart, PrepPart, ClaimPart, LatePart, ReleasingAt, ClosingPart,
       HoldsCoherent, HoldsTypeOK

\* A new stop gets a name that no stop in flight has.
LEMMA NewStopIsNew ==
  ASSUME IsFiniteSet(stops)
  PROVE  NewStop \in Nat /\ NewStop \notin stops
<1> DEFINE c == Cardinality(stops)
<1>1. c \in Nat
  BY FS_CardinalityType
<1>2. \E n \in 0..c : n \notin stops
  <2> SUFFICES ASSUME 0..c \subseteq stops PROVE FALSE
    OBVIOUS
  <2>1. IsFiniteSet(0..c) /\ Cardinality(0..c) = c + 1
    BY <1>1, FS_Interval
  <2>2. Cardinality(0..c) <= c
    BY FS_Subset
  <2> QED BY <1>1, <2>1, <2>2
<1>3. NewStop \in 0..c /\ NewStop \notin stops
  BY <1>2 DEF NewStop
<1> QED BY <1>1, <1>3

\* What letting go does to a hold h: it is emptied or shrinks, a stop begins only
\* for what the hold claims, and the claim ends only with a stop or with the
\* stack left to itself.
LEMMA ReleaseEffect ==
  ASSUME HoldPart, NEW P,
         NEW h \in [users : SUBSET ComposeProcs, started : BOOLEAN, stop : BOOLEAN],
         h.users = {} => h = NoHold, ReleaseFrom(h, P)
  PROVE  /\ HoldPart' /\ stops \subseteq stops'
         /\ (stack' = stack \/ (stack = "daemon" /\ stack' = "left"))
         /\ h.started => hold'.started \/ stops' # {} \/ stack' # "daemon"
         /\ hold'.started => h.started
         /\ stops' \ stops # {} => h.started
<1>1. NewStop \in Nat /\ IsFiniteSet(stops \cup {NewStop})
  BY NewStopIsNew, FS_AddElement DEF HoldPart
<1>0. NoHold \in [users : SUBSET ComposeProcs, started : BOOLEAN, stop : BOOLEAN]
  BY DEF NoHold
<1>2. CASE LastOut(h, P)
  <2>1. /\ hold' = NoHold
        /\ stops' = IF h.stop /\ h.started THEN stops \cup {NewStop} ELSE stops
        /\ stack' = IF ~h.stop THEN Left ELSE stack
    BY <1>2 DEF ReleaseFrom, StopsStack
  <2>2. (stack' = stack \/ (stack = "daemon" /\ stack' = "left"))
    BY <2>1 DEF Left
  <2>3. stops' \in {stops, stops \cup {NewStop}}
    BY <2>1
  <2>4. HoldPart'
    <3>1. stops' \subseteq Nat /\ IsFiniteSet(stops')
      BY <1>1, <2>3 DEF HoldPart
    <3>2. stack' \in {"down", "ended", "user", "daemon", "left"}
      BY <2>2 DEF HoldPart
    <3> QED BY <1>0, <2>1, <3>1, <3>2 DEF HoldPart
  <2>5. h.started => stops' # {} \/ stack' # "daemon"
    BY <2>1 DEF Left
  <2>6. stops' \ stops # {} => h.started
    BY <2>1
  <2>7. ~hold'.started
    BY <2>1 DEF NoHold
  <2> QED BY <2>2, <2>3, <2>4, <2>5, <2>6, <2>7
<1>3. CASE ~LastOut(h, P)
  <2>1. /\ hold' = [users |-> h.users \ P, started |-> h.started, stop |-> h.stop]
        /\ stops' = stops /\ stack' = stack
    BY <1>3 DEF ReleaseFrom
  <2>2. hold'.users = {} => hold' = NoHold
    BY <1>3, <2>1 DEF LastOut, NoHold
  <2>3. hold' \in [users : SUBSET ComposeProcs, started : BOOLEAN, stop : BOOLEAN]
    BY <2>1
  <2>4. HoldPart'
    BY <2>1, <2>2, <2>3 DEF HoldPart
  <2>5. hold'.started = h.started /\ stops' \ stops = {}
    BY <2>1
  <2>6. stops \subseteq stops' /\ stack' = stack
    BY <2>1
  <2> QED BY <2>4, <2>5, <2>6
<1> QED BY <1>2, <1>3

\* A step that drops no compose task, and adds one only for a process with a stack.
KeepsCompose ==
  /\ \A t \in tasks : t.kind = "compose" => t \in tasks'
  /\ \A t \in tasks' \ tasks : t.kind = "compose" => t.proc \in ComposeProcs

\* Preparations follow the compose tasks.
LEMMA PreparingEffect ==
  ASSUME TypeOK', HoldPart, PrepPart, KeepsCompose, prep' = Preparing
  PROVE  PrepPart' /\ {q \in prep : q.started} = {q \in prep' : q.started}
<1> DEFINE old == {q \in prep : q.task \in tasks'}
           new == {t \in tasks' \ tasks : t.kind = "compose"}
           fresh(t) == [task |-> t, at |-> "drain", drain |-> stops, started |-> FALSE]
<1>1. prep' = old \cup {fresh(t) : t \in new}
  BY DEF Preparing
<1>2. \A t \in new : fresh(t) \in Prep /\ fresh(t).task = t /\ ~fresh(t).started
                     /\ fresh(t).at = "drain"
  BY DEF Prep, HoldPart, TypeOK
<1>3. \A q \in old : q \in Prep /\ q.task \in tasks /\ q.task.kind = "compose"
  BY DEF PrepPart
<1>4. old = prep
  BY DEF PrepPart, KeepsCompose
<1> HIDE DEF fresh
<1>5. prep' \subseteq Prep
  BY <1>1, <1>2, <1>3
<1>6. {t \in tasks' : t.kind = "compose"} = {q.task : q \in prep'}
  <2>1. ASSUME NEW t \in tasks', t.kind = "compose" PROVE \E q \in prep' : q.task = t
    <3>1. CASE t \in tasks
      BY <1>1, <1>4, <2>1, <3>1 DEF PrepPart
    <3>2. CASE t \notin tasks
      BY <1>1, <1>2, <2>1, <3>2
    <3> QED BY <3>1, <3>2
  <2>2. ASSUME NEW q \in prep' PROVE q.task \in tasks' /\ q.task.kind = "compose"
    BY <1>1, <1>2, <1>3
  <2> QED BY <2>1, <2>2
<1>7. \A q, r \in prep' : q.task = r.task => q = r
  BY <1>1, <1>2, <1>3 DEF PrepPart
<1>8. \A q \in prep' : q.task.proc \in ComposeProcs /\ (q.at # "ready" => ~q.started)
  BY <1>1, <1>2 DEF PrepPart, KeepsCompose
<1>9. {q \in prep : q.started} = {q \in prep' : q.started}
  BY <1>1, <1>2, <1>4
<1> QED BY <1>5, <1>6, <1>7, <1>8, <1>9 DEF PrepPart

\* A step that lets P go beside a step of the lifecycle.
LEMMA LetGoStack ==
  ASSUME TypeOK', HoldPart, PrepPart, ClaimPart, KeepsCompose, prep' = Preparing,
         NEW P, ReleaseFrom(hold, P)
  PROVE  HoldPart' /\ PrepPart' /\ ClaimPart'
<1>1. PrepPart' /\ {q \in prep : q.started} = {q \in prep' : q.started}
  BY PreparingEffect
<1>2. /\ HoldPart' /\ stops \subseteq stops'
      /\ (stack' = stack \/ (stack = "daemon" /\ stack' = "left"))
      /\ hold.started => hold'.started \/ stops' # {} \/ stack' # "daemon"
      /\ hold'.started => hold.started
  <2>1. /\ hold \in [users : SUBSET ComposeProcs, started : BOOLEAN, stop : BOOLEAN]
        /\ hold.users = {} => hold = NoHold
    BY DEF HoldPart
  <2> QED BY <2>1, ReleaseEffect
<1>3. NoForgottenStack'
  BY <1>1, <1>2 DEF ClaimPart, NoForgottenStack
<1>4. hold'.started \/ (\E q \in prep' : q.started) => stack' # "user"
  BY <1>1, <1>2 DEF ClaimPart
<1> QED BY <1>1, <1>2, <1>3, <1>4 DEF ClaimPart

\* A stop() that is still to release keeps waiting for a child being killed: what
\* ends the kill takes the child away.
LEMMA KillEndsWithChild ==
  ASSUME EntryInv, TypeOK', [Next]_vars, NEW p \in Procs, ReleasingAt(p), child'[p] # 0
  PROVE  ReleasingAt(p)'
<1>0. TypeOK /\ Local /\ child[p] # 0 /\ pid[p] = child[p] /\ ~pendingStart[p]
  BY DEF EntryInv, Local, LocalAt, CoherentEntry, ReleasingAt
<1>1. CASE UNCHANGED vars
  BY <1>1 DEF vars, entryVars, ReleasingAt
<1>2. CASE Grows
  BY <1>0, <1>2 DEF Grows, GrowsAt, Same, ReleasingAt
<1>3. CASE Rests
  BY <1>3 DEF Rests, ReleasingAt
<1>4. ASSUME NEW S \in SUBSET Procs, StopProcess(S) PROVE ReleasingAt(p)'
  <2>1. p \notin Cleared(S)
    BY DEF Cleared, Terminated, ReleasingAt
  <2> QED BY <1>4, <2>1 DEF StopProcess, ReleasingAt
<1>5. ASSUME NEW S \in SUBSET Procs, Discard(S) PROVE ReleasingAt(p)'
  BY <1>5 DEF Discard, ReleasingAt
<1>6. ASSUME NEW q \in Procs, Register(q) \/ StopTimerFires(q) PROVE ReleasingAt(p)'
  BY <1>0, <1>6 DEF Register, StopTimerFires, ReleasingAt, TypeOK
<1>7. ASSUME NEW c \in Callers, ClaimRestart(c) PROVE ReleasingAt(p)'
  BY <1>7 DEF ClaimRestart, ReleasingAt
<1>8. ASSUME NEW q \in Procs, NEW n \in alive[q], NEW code \in Codes \ {"error"}, Die(q, n, code)
      PROVE  ReleasingAt(p)'
  BY <1>8 DEF Die, entryVars, ReleasingAt
<1>9. ASSUME NEW q \in Procs, NEW st, Finish(q, st) PROVE ReleasingAt(p)'
  BY <1>0, <1>9 DEF Finish, ReleasingAt, TypeOK
<1>10. ASSUME NEW x \in exits, HandleExit(x) PROVE ReleasingAt(p)'
  <2>1. x.proc \in Procs
    BY <1>0 DEF TypeOK, Exit
  <2> QED BY <1>9, <1>10, <2>1 DEF HandleExit, entryVars, ReleasingAt
<1>11. ASSUME NEW k \in kills, NEW err \in BOOLEAN, TermDone(k, err) \/ KillDone(k, err)
       PROVE  ReleasingAt(p)'
  <2>1. k.proc \in Procs
    BY <1>0 DEF TypeOK, Kill
  <2> QED BY <1>9, <1>11, <2>1 DEF TermDone, KillDone, entryVars, ReleasingAt
<1> QED
  BY <1>0, <1>1, <1>2, <1>3, <1>4, <1>5, <1>6, <1>7, <1>8, <1>10, <1>11, StepShapes DEF StopShape

\* Only the continuation of its own compose step takes a compose task away.
LEMMA OthersKeepCompose ==
  ASSUME TypeOK,
         \/ Microtask \/ RunRequest \/ PortDone \/ Timer \/ OsEvent
         \/ \E S \in SUBSET Procs : Stop(S) \/ Discard(S)
  PROVE  KeepsCompose
<1>1. ASSUME NEW S \in SUBSET Procs, NEW out \in Outs, StartAll(S, out) PROVE KeepsCompose
  <2>1. \A p \in Procs : FirstStep(p) = "compose" => p \in ComposeProcs
    BY DEF FirstStep, StepAfterCompose, StepAfterWait
  <2> QED BY <1>1, <2>1 DEF StartAll, AwaitOf, KeepsCompose
<1>2. ASSUME NEW N \in SUBSET Procs, NEW B \in SUBSET Procs, NEW out \in Outs, StartBatch(N, B, out)
      PROVE  KeepsCompose
  <2>1. PICK S, Q \in SUBSET Procs : Batch(S, Q, out)
    BY <1>2, StartBatchSplit
  <2> QED BY <1>1, <2>1 DEF Batch
<1>3. CASE Microtask
  <2>1. ASSUME NEW out \in Outs, SweepResumes(out) PROVE KeepsCompose
    <3>1. sweep.ids \in SUBSET Procs
      BY DEF TypeOK
    <3> QED BY <1>2, <2>1, <3>1 DEF SweepResumes
  <2> QED BY <1>3, <2>1 DEF Microtask, ClaimRestart, KeepsCompose
<1>4. CASE RunRequest
  <2>1. ASSUME NEW p \in Procs, NEW out \in Outs, Start(p, out) PROVE KeepsCompose
    <3>1. {p} \in SUBSET Procs /\ {} \in SUBSET Procs
      OBVIOUS
    <3> QED BY <1>2, <2>1, <3>1 DEF Start
  <2>2. ASSUME NEW p \in Procs, NEW out \in Outs, StartWithLinks(p, out) PROVE KeepsCompose
    <3> DEFINE extras == CoStart[p] \ {p}
    <3>1. {p} \in SUBSET Procs /\ extras \ CycleMembers(extras) \in SUBSET Procs
      BY CycleFree
    <3> QED BY <1>2, <2>2, <3>1 DEF StartWithLinks
  <2>3. ASSUME NEW B \in SUBSET Procs, NEW out \in Outs, StartMany(B, out) PROVE KeepsCompose
    <3>1. {} \in SUBSET Procs
      OBVIOUS
    <3> QED BY <1>2, <2>3, <3>1 DEF StartMany
  <2>4. ASSUME NEW c \in Callers, NEW p \in Procs, RestartCall(c, p) PROVE tasks' = tasks
    BY <2>4 DEF RestartCall, StopProcess
  <2>5. RestartRunning => tasks' = tasks
    BY DEF RestartRunning, StopProcess
  <2>6. ASSUME NEW p \in Procs, Register(p) PROVE tasks' = tasks
    BY <2>6 DEF Register
  <2> QED BY <1>4, <2>1, <2>2, <2>3, <2>4, <2>5, <2>6 DEF RunRequest, KeepsCompose
<1>5. CASE PortDone
  <2>1. ASSUME NEW t \in tasks, t.kind # "compose", NEW s \in {"free", "spawn"}, NEW st, NEW out,
               DropTask(t) \/ NextStep(t, s, out) \/ EndStart(t, st)
        PROVE  KeepsCompose
    <3>1. t.proc \in Procs
      BY DEF TypeOK, Task
    <3> QED BY <2>1, <3>1 DEF DropTask, NextStep, EndStart, AwaitOf, KeepsCompose
  <2>2. ASSUME NEW t \in tasks, NEW out \in Outs, FreeDone(t, out) PROVE KeepsCompose
    <3>1. t.kind # "compose"
      BY <2>2 DEF FreeDone
    <3> QED BY <2>1, <2>2, <3>1 DEF FreeDone
  <2>3. ASSUME NEW t \in tasks, NEW ok \in BOOLEAN, NEW out \in Outs, WaitDone(t, ok, out)
        PROVE  KeepsCompose
    <3>1. t.kind # "compose" /\ StepAfterWait(t.proc) \in {"free", "spawn"}
      BY <2>3 DEF WaitDone, StepAfterWait
    <3>2. DropTask(t) \/ NextStep(t, StepAfterWait(t.proc), out) \/ EndStart(t, "stopped")
             \/ EndStart(t, "starting")
      BY <2>3, <3>1 DEF WaitDone, Proceed
    <3> QED BY <2>1, <3>1, <3>2
  <2> QED BY <1>5, <2>2, <2>3 DEF PortDone
<1>6. CASE Timer
  <2>1. ASSUME NEW p \in Procs, NEW out \in Outs, QueueTimer(p, out) PROVE KeepsCompose
    <3>1. {p} \in SUBSET Procs
      OBVIOUS
    <3> QED BY <1>1, <2>1, <3>1 DEF QueueTimer
  <2>2. ASSUME NEW c \in Callers, NEW out \in Outs, SettleDone(c, out) PROVE KeepsCompose
    <3>1. registered \in SUBSET Procs
      BY DEF TypeOK
    <3>2. (IF NotOvertaken(restarts[c]) THEN {restarts[c].proc} ELSE {}) \in SUBSET Procs
      BY <3>1 DEF NotOvertaken
    <3> QED BY <1>1, <2>2, <3>2 DEF SettleDone
  <2>3. ASSUME NEW p \in Procs, StopTimerFires(p) PROVE tasks' = tasks
    BY <2>3 DEF StopTimerFires
  <2> QED BY <1>6, <2>1, <2>2, <2>3 DEF Timer, KeepsCompose
<1>7. CASE OsEvent
  BY <1>7 DEF OsEvent, Die, HandleExit, TermDone, KillDone, KeepsCompose
<1>8. ASSUME NEW S \in SUBSET Procs, Stop(S) \/ Discard(S) PROVE KeepsCompose
  BY <1>8 DEF Stop, StopProcess, Discard, KeepsCompose
<1> QED BY <1>3, <1>4, <1>5, <1>6, <1>7, <1>8

\* A step of the lifecycle with what it does to the hold.
LEMMA FollowStack ==
  ASSUME EntryInv, TypeOK', [Next]_vars, StackInv, KeepsCompose,
         NEW now, NEW later \in SUBSET Procs, Follow(now, later),
         \A p \in later : ReleasingAt(p)'
  PROVE  StackInv'
<1> DEFINE gone == {p \in releasing : child'[p] = 0}
<1>1. /\ ReleaseFrom(hold, now \cup gone) /\ releasing' = (releasing \ gone) \cup later
      /\ prep' = Preparing
      /\ closing' = [closing EXCEPT !.wait = {p \in @ : child'[p] # 0}]
  BY DEF Follow
<1>2. HoldPart' /\ PrepPart' /\ ClaimPart'
  BY <1>1, LetGoStack DEF StackInv
<1>3. \A p \in releasing \ gone : ReleasingAt(p)'
  BY KillEndsWithChild DEF StackInv, LatePart
<1>4. closing' \in [at : {"no", "exits", "stops", "done"}, wait : SUBSET Procs, drain : SUBSET Nat]
  BY <1>1 DEF StackInv, LatePart, ClosingPart
<1>5. LatePart'
  BY <1>1, <1>3, <1>4 DEF StackInv, LatePart, ClosingPart
<1> QED BY <1>2, <1>5 DEF StackInv

\* Those a stop() leaves exiting are being killed.
LEMMA LaterIsKilled ==
  ASSUME EntryInv, NEW S \in SUBSET Procs, StopProcess(S), NEW p \in ReleasedLater(S)
  PROVE  p \in Procs /\ ReleasingAt(p)'
<1>1. p \in registered /\ p \in S /\ ~pendingStart[p] /\ child[p] # 0 /\ p \notin Cleared(S)
  BY DEF ReleasedLater, StillExiting, Registered
<1>2. stopping[p] \/ p \in Signalled(S)
  BY <1>1 DEF Cleared, Terminated, Registered
<1> QED BY <1>1, <1>2 DEF StopProcess, ReleasingAt

LEMMA LaterStays ==
  ASSUME LatePart, UNCHANGED <<vars, releasing, closing>>
  PROVE  LatePart'
BY DEF LatePart, ClosingPart, ReleasingAt, vars, entryVars

\* A preparation q that moves on to r, its task's still.
LEMMA MovedPrep ==
  ASSUME PrepPart, UNCHANGED vars, NEW q \in prep, NEW r \in Prep, Moved(q, r),
         r.task = q.task, r.at # "ready" => ~r.started
  PROVE  PrepPart'
<1>1. prep' = (prep \ {q}) \cup {r} /\ tasks' = tasks
  BY DEF Moved, vars
<1>2. {e.task : e \in prep'} = {e.task : e \in prep}
  BY <1>1
<1> QED BY <1>1, <1>2 DEF PrepPart

LEMMA ListStackInv ==
  ASSUME StackInv, NEW q \in prep, NEW ok \in BOOLEAN, ListStack(q, ok)
  PROVE  StackInv'
<1> DEFINE at == IF ~ok THEN "failed" ELSE IF Satisfied THEN "ready" ELSE "up"
           r == [q EXCEPT !.at = at]
<1>1. q \in Prep /\ q.at = "drain" /\ ~q.started
  BY DEF StackInv, PrepPart, ListStack
<1>2. r \in Prep /\ r.task = q.task /\ ~r.started
  BY <1>1 DEF Prep
<1>3. UNCHANGED <<vars, hold, stops, releasing, closing, stack>> /\ Moved(q, r)
  BY DEF ListStack
<1> HIDE DEF r, at
<1>4. PrepPart'
  BY <1>2, <1>3, MovedPrep DEF StackInv
<1>5. {e \in prep' : e.started} = {e \in prep : e.started}
  BY <1>1, <1>2, <1>3 DEF Moved
<1>6. HoldPart' /\ ClaimPart'
  BY <1>3, <1>5 DEF StackInv, HoldPart, ClaimPart, NoForgottenStack
<1> QED BY <1>3, <1>4, <1>6, LaterStays DEF StackInv

\* A failing `up` leaves nothing of the daemon's that was not so before.
LEMMA UpDoneInv ==
  ASSUME StackInv, NEW q \in prep, NEW ok \in BOOLEAN, UpDone(q, ok)
  PROVE  StackInv'
<1> DEFINE r == [q EXCEPT !.at = IF ok THEN "ready" ELSE "failed", !.started = ok]
<1>1. q \in Prep /\ q.at = "up" /\ ~q.started
  BY DEF StackInv, PrepPart, UpDone
<1>2. r \in Prep /\ r.task = q.task /\ r.started = ok /\ (r.at # "ready" => ~r.started)
  BY <1>1 DEF Prep
<1>3. /\ UNCHANGED <<vars, hold, stops, releasing, closing>> /\ Moved(q, r)
      /\ ok => stack' = "daemon"
      /\ ~ok => stack' = stack \/ stack' = "left"
  BY DEF UpDone
<1> HIDE DEF r
<1>4. PrepPart'
  BY <1>2, <1>3, MovedPrep DEF StackInv
<1>5. HoldPart'
  BY <1>3 DEF StackInv, HoldPart
<1>6. CASE ok
  <2>1. r \in prep' /\ r.started
    BY <1>2, <1>3, <1>6 DEF Moved
  <2>2. ClaimPart'
    BY <1>3, <1>6, <2>1 DEF ClaimPart, NoForgottenStack
  <2> QED BY <1>3, <1>4, <1>5, <2>2, LaterStays DEF StackInv
<1>7. CASE ~ok
  <2>1. {e \in prep' : e.started} = {e \in prep : e.started}
    BY <1>1, <1>2, <1>3, <1>7 DEF Moved
  <2>2. ClaimPart'
    BY <1>3, <1>7, <2>1 DEF StackInv, ClaimPart, NoForgottenStack
  <2> QED BY <1>3, <1>4, <1>5, <2>2, LaterStays DEF StackInv
<1> QED BY <1>6, <1>7

\* When a stop ends nothing of the daemon's is up that it answers for.
LEMMA StopDoneInv ==
  ASSUME StackInv, NEW n \in stops, StopDone(n)
  PROVE  StackInv'
<1> DEFINE less(q) == [q EXCEPT !.drain = @ \ {n}]
<1>1. /\ stops' = stops \ {n} /\ prep' = {less(q) : q \in prep}
      /\ closing' = [closing EXCEPT !.drain = @ \ {n}]
      /\ stack' \in {"down", "ended", "left"} \/ stack' = stack
      /\ stack' # "daemon"
      /\ UNCHANGED <<vars, hold, releasing>>
  BY DEF StopDone, Up, Left
<1>2. \A q \in prep : /\ less(q) \in Prep /\ less(q).task = q.task
                      /\ less(q).started = q.started /\ less(q).at = q.at
  BY DEF StackInv, PrepPart, Prep
<1> HIDE DEF less
<1>3. PrepPart'
  <2>1. {e.task : e \in prep'} = {e.task : e \in prep}
    BY <1>1, <1>2
  <2>2. \A e, f \in prep' : e.task = f.task => e = f
    BY <1>1, <1>2 DEF StackInv, PrepPart
  <2>3. tasks' = tasks
    BY <1>1 DEF vars
  <2> QED BY <1>1, <1>2, <2>1, <2>2, <2>3 DEF StackInv, PrepPart
<1>4. HoldPart'
  <2>1. IsFiniteSet(stops')
    BY <1>1, FS_RemoveElement DEF StackInv, HoldPart
  <2> QED BY <1>1, <2>1 DEF StackInv, HoldPart
<1>5. ClaimPart'
  <2>1. (\E q \in prep' : q.started) <=> (\E q \in prep : q.started)
    BY <1>1, <1>2
  <2> QED BY <1>1, <2>1 DEF StackInv, ClaimPart, NoForgottenStack
<1>6. LatePart'
  <2>1. ClosingPart'
    BY <1>1 DEF StackInv, LatePart, ClosingPart
  <2> QED BY <1>1, <2>1 DEF StackInv, LatePart, ReleasingAt, vars, entryVars
<1> QED BY <1>3, <1>4, <1>5, <1>6 DEF StackInv

\* The continuation of a compose step takes its own compose task away, and no other.
LEMMA ComposeTaskGoes ==
  ASSUME TypeOK, NEW t \in tasks, NEW ok \in BOOLEAN, NEW out \in Outs, ComposeDone(t, ok, out)
  PROVE  {u \in tasks' : u.kind = "compose"} = {u \in tasks : u.kind = "compose"} \ {t}
<1>1. t.kind = "compose" /\ t.proc \in Procs
  BY DEF ComposeDone, TypeOK, Task
<1>2. ASSUME NEW E, NEW step, NEW g, NEW u \in AwaitOf(E, step, g), \A p \in E : step[p] # "compose"
      PROVE  u.kind # "compose"
  BY <1>2 DEF AwaitOf
<1>3. CASE tasks' = tasks \ {t}
  BY <1>3
<1>4. ASSUME NEW s \in {"wait", "free", "spawn"}, NextStep(t, s, out)
      PROVE  {u \in tasks' : u.kind = "compose"} = {u \in tasks : u.kind = "compose"} \ {t}
  <2> DEFINE step == [p \in Procs |-> s]
             g == [p \in Procs |-> t.gen]
  <2>1. tasks' = (tasks \ {t}) \cup AwaitOf({t.proc}, step, g)
    BY <1>4 DEF NextStep
  <2>2. \A p \in {t.proc} : step[p] # "compose"
    BY <1>1
  <2> HIDE DEF step, g
  <2>3. \A u \in AwaitOf({t.proc}, step, g) : u.kind # "compose"
    BY <1>2, <2>2
  <2> QED BY <2>1, <2>3
<1>5. StepAfterCompose(t.proc) \in {"wait", "free", "spawn"}
  BY DEF StepAfterCompose, StepAfterWait
<1> QED BY <1>3, <1>4, <1>5 DEF ComposeDone, DropTask, EndStart, Proceed

\* What the preparation had started is claimed by the hold it records.
LEMMA PrepareDoneInv ==
  ASSUME EntryInv, TypeOK', [Next]_vars, StackInv,
         NEW q \in prep, NEW ok \in BOOLEAN, NEW out \in Outs, PrepareDone(q, ok, out)
  PROVE  StackInv'
<1> DEFINE t == q.task
           held == [users   |-> hold.users \cup {t.proc},
                    started |-> hold.started \/ q.started,
                    stop    |-> hold.stop \/ t.proc \in StopProcs]
           h == IF RecordsHold(t, ok, q.started) THEN held ELSE hold
           idle == t.proc \notin registered \/ (~pendingStart[t.proc] /\ child[t.proc] = 0)
           letGo == IF StillCurrent(t) THEN ~ok ELSE (ok \/ q.started) /\ idle
           P == IF letGo THEN {t.proc} ELSE {}
           HoldType == [users : SUBSET ComposeProcs, started : BOOLEAN, stop : BOOLEAN]
<1>1. /\ t \in tasks /\ ComposeDone(t, ok, out) /\ ReleaseFrom(h, P)
      /\ prep' = prep \ {q} /\ UNCHANGED <<releasing, closing>>
  BY DEF PrepareDone
<1>2. TypeOK /\ Local /\ q \in Prep /\ t.kind = "compose"
  BY <1>1 DEF EntryInv, StackInv, PrepPart, ComposeDone
<1>3. hold \in HoldType /\ (hold.users = {} => hold = NoHold)
  BY DEF StackInv, HoldPart
<1>4. t.proc \in hold.users \/ ~RecordsHold(t, ok, q.started) \/ h = held
  OBVIOUS
<1>5. PrepPart'
  <2>1. {e.task : e \in prep'} = {e.task : e \in prep} \ {t}
    BY <1>1 DEF StackInv, PrepPart
  <2>2. {u \in tasks' : u.kind = "compose"} = {u \in tasks : u.kind = "compose"} \ {t}
    BY <1>1, <1>2, ComposeTaskGoes
  <2> QED BY <1>1, <2>1, <2>2 DEF StackInv, PrepPart
<1>6. LatePart'
  <2>1. \A p \in Procs : child'[p] = child[p] \/ child[p] = 0
    <3>1. TaskDone
      BY <1>1 DEF TaskDone
    <3> QED BY <1>2, <3>1, TaskCases DEF Grows, GrowsAt, Same, Rests
  <2>2. ASSUME NEW p \in releasing PROVE ReleasingAt(p)'
    <3>1. p \in Procs /\ ReleasingAt(p)
      BY DEF StackInv, LatePart
    <3>2. child[p] # 0
      BY <1>2, <3>1 DEF Local, LocalAt, CoherentEntry, ReleasingAt
    <3> QED BY <2>1, <3>1, <3>2, KillEndsWithChild
  <2> QED BY <1>1, <2>2 DEF StackInv, LatePart, ClosingPart
<1>7. t.proc \in ComposeProcs /\ StopProcs \subseteq ComposeProcs
  <2>1. t.proc \in ComposeProcs
    BY DEF StackInv, PrepPart
  <2> QED BY <2>1, StopProcsAssumption
<1>8. h \in HoldType /\ (h.users = {} => h = NoHold)
  BY <1>2, <1>3, <1>7 DEF Prep
<1>9. (q.started => h.started) /\ (h.started => hold.started \/ q.started)
  BY <1>2 DEF RecordsHold
<1> HIDE DEF h, P, HoldType, held, t
<1>10. /\ HoldPart' /\ stops \subseteq stops'
       /\ (stack' = stack \/ (stack = "daemon" /\ stack' = "left"))
       /\ h.started => hold'.started \/ stops' # {} \/ stack' # "daemon"
       /\ hold'.started => h.started
  BY <1>1, <1>8, ReleaseEffect DEF HoldType, StackInv
<1>11. hold.started => h.started
  BY <1>1 DEF h, held
<1>12. ClaimPart'
  <2>1. NoForgottenStack'
    BY <1>1, <1>9, <1>10, <1>11 DEF StackInv, ClaimPart, NoForgottenStack
  <2>2. hold'.started \/ (\E e \in prep' : e.started) => stack' # "user"
    BY <1>1, <1>9, <1>10 DEF StackInv, ClaimPart
  <2> QED BY <2>1, <2>2 DEF ClaimPart
<1> QED BY <1>5, <1>6, <1>10, <1>12 DEF StackInv

LEMMA StopAllInv ==
  ASSUME EntryInv, TypeOK', [Next]_vars, StackInv, StopAll
  PROVE  StackInv'
<1>1. /\ Stop(registered) /\ ReleaseFrom(hold, ReleasedNow(registered))
      /\ releasing' = releasing \cup ReleasedLater(registered) /\ prep' = Preparing
      /\ closing' = [at |-> "exits", wait |-> StillExiting(registered), drain |-> {}]
  BY DEF StopAll
<1>2. registered \in SUBSET Procs /\ StopProcess(registered)
  BY <1>1 DEF EntryInv, TypeOK, Stop
<1>3. KeepsCompose
  BY <1>1, <1>2, OthersKeepCompose DEF EntryInv
<1>4. HoldPart' /\ PrepPart' /\ ClaimPart'
  BY <1>1, <1>3, LetGoStack DEF StackInv
<1>5. ASSUME NEW p \in releasing PROVE ReleasingAt(p)'
  <2>1. p \in Procs /\ ReleasingAt(p)
    BY DEF StackInv, LatePart
  <2>2. p \notin Cleared(registered)
    BY <2>1 DEF Cleared, Terminated, ReleasingAt
  <2> QED BY <1>2, <2>1, <2>2 DEF StopProcess, ReleasingAt
<1>6. \A p \in ReleasedLater(registered) : p \in Procs /\ ReleasingAt(p)'
  BY <1>2, LaterIsKilled
<1>7. StillExiting(registered) \subseteq Procs
  BY <1>2 DEF StillExiting, Registered
<1>8. LatePart'
  BY <1>1, <1>5, <1>6, <1>7 DEF StackInv, LatePart, ClosingPart
<1> QED BY <1>4, <1>8 DEF StackInv

LEMMA ReleaseAllInv ==
  ASSUME StackInv, ReleaseAll
  PROVE  StackInv'
<1>1. /\ ReleaseFrom(hold, hold.users) /\ UNCHANGED <<vars, prep, releasing>>
      /\ closing' = [closing EXCEPT !.at = "stops", !.drain = stops']
  BY DEF ReleaseAll
<1>2. /\ hold \in [users : SUBSET ComposeProcs, started : BOOLEAN, stop : BOOLEAN]
      /\ hold.users = {} => hold = NoHold
  BY DEF StackInv, HoldPart
<1>3. /\ HoldPart' /\ stops \subseteq stops'
      /\ (stack' = stack \/ (stack = "daemon" /\ stack' = "left"))
      /\ hold.started => hold'.started \/ stops' # {} \/ stack' # "daemon"
      /\ hold'.started => hold.started
  BY <1>1, <1>2, ReleaseEffect DEF StackInv
<1>4. PrepPart'
  BY <1>1 DEF StackInv, PrepPart, vars
<1>5. ClaimPart'
  <2>1. NoForgottenStack'
    BY <1>1, <1>3 DEF StackInv, ClaimPart, NoForgottenStack
  <2>2. hold'.started \/ (\E q \in prep' : q.started) => stack' # "user"
    BY <1>1, <1>3 DEF StackInv, ClaimPart
  <2> QED BY <2>1, <2>2 DEF ClaimPart
<1>6. LatePart'
  <2>1. stops' \in SUBSET Nat
    BY <1>3 DEF HoldPart
  <2>2. ClosingPart'
    BY <1>1, <2>1 DEF StackInv, LatePart, ClosingPart
  <2> QED BY <1>1, <2>2 DEF StackInv, LatePart, ReleasingAt, vars, entryVars
<1> QED BY <1>3, <1>4, <1>5, <1>6 DEF StackInv

LEMMA ClosedInv ==
  ASSUME StackInv, Closed
  PROVE  StackInv'
BY DEF Closed, StackInv, HoldPart, PrepPart, ClaimPart, NoForgottenStack, LatePart, ClosingPart,
       ReleasingAt, vars, entryVars

\* With Lifecycle's invariant the stack's is inductive.
LEMMA StackInvInductive ==
  /\ Init /\ HoldsInit => StackInv
  /\ EntryInv /\ EntryInv' /\ StackInv /\ [HoldsNext]_<<vars, holdVars>> => StackInv'
<1>1. Init /\ HoldsInit => StackInv
  <2> SUFFICES ASSUME Init, HoldsInit PROVE StackInv
    OBVIOUS
  <2>1. HoldPart
    BY FS_EmptySet DEF HoldsInit, HoldPart, NoHold
  <2>2. PrepPart /\ ClaimPart /\ LatePart
    BY DEF Init, HoldsInit, PrepPart, ClaimPart, NoForgottenStack, LatePart, ClosingPart, NoHold
  <2> QED BY <2>1, <2>2 DEF StackInv
<1>2. ASSUME EntryInv, EntryInv', StackInv, [HoldsNext]_<<vars, holdVars>>
      PROVE  StackInv'
  <2>0. TypeOK /\ TypeOK' /\ [Next]_vars
    BY <1>2, StepImplements DEF EntryInv, vars
  <2>1. CASE UNCHANGED <<vars, holdVars>>
    BY <1>2, <2>1 DEF StackInv, HoldPart, PrepPart, ClaimPart, NoForgottenStack, LatePart, ClosingPart,
                ReleasingAt, vars, entryVars, holdVars
  <2>2. ASSUME Microtask \/ RunRequest \/ PortDone \/ Timer \/ OsEvent, Follow({}, {})
        PROVE  StackInv'
    <3>1. KeepsCompose /\ {} \in SUBSET Procs
      BY <2>0, <2>2, OthersKeepCompose
    <3> QED BY <1>2, <2>0, <2>2, <3>1, FollowStack
  <2>3. ASSUME NEW S \in SUBSET Procs, StopAndRelease(S) PROVE StackInv'
    <3>1. Stop(S) /\ StopProcess(S) /\ Follow(ReleasedNow(S), ReleasedLater(S))
      BY <2>3 DEF StopAndRelease, Stop
    <3>2. KeepsCompose
      BY <2>0, <3>1, OthersKeepCompose
    <3>3. \A p \in ReleasedLater(S) : p \in Procs /\ ReleasingAt(p)'
      BY <1>2, <3>1, LaterIsKilled
    <3>4. ReleasedLater(S) \in SUBSET Procs
      BY <3>3
    <3> QED BY <1>2, <2>0, <3>1, <3>2, <3>3, <3>4, FollowStack
  <2>4. ASSUME NEW S \in SUBSET Procs, DiscardAndRelease(S) PROVE StackInv'
    <3>1. Discard(S) /\ Follow(S, {})
      BY <2>4 DEF DiscardAndRelease
    <3>2. KeepsCompose /\ {} \in SUBSET Procs
      BY <2>0, <3>1, OthersKeepCompose
    <3> QED BY <1>2, <2>0, <3>1, <3>2, FollowStack
  <2>5. ASSUME NEW q \in prep, NEW ok \in BOOLEAN, ListStack(q, ok) \/ UpDone(q, ok)
        PROVE  StackInv'
    BY <1>2, <2>5, ListStackInv, UpDoneInv
  <2>6. ASSUME NEW q \in prep, NEW ok \in BOOLEAN, NEW out \in Outs, PrepareDone(q, ok, out)
        PROVE  StackInv'
    BY <1>2, <2>0, <2>6, PrepareDoneInv
  <2>7. ASSUME NEW n \in stops, StopDone(n) PROVE StackInv'
    BY <1>2, <2>7, StopDoneInv
  <2>8. CASE StopAll
    BY <1>2, <2>0, <2>8, StopAllInv
  <2>9. CASE Closed
    BY <1>2, <2>9, ClosedInv
  <2>10. CASE ReleaseAll
    BY <1>2, <2>10, ReleaseAllInv
  <2> QED
    BY <1>2, <2>1, <2>2, <2>3, <2>4, <2>5, <2>6, <2>7, <2>8, <2>9, <2>10, HoldsCases
<1> QED BY <1>1, <1>2

LEMMA StackInvKept == HoldsSpec => []StackInv
BY EntryInvKept, StackInvInductive, PTL DEF HoldsSpec

\* Every preparation belongs to a compose step under way, every stop() still to
\* release waits for a child being killed, and what the daemon started on the
\* docker side is answered for by a hold, a preparation or a stop.
THEOREM StackNeverForgotten == HoldsSpec => []HoldsCoherent
BY StackInvKept, StackInvMeaning, PTL

\* No interleaving of starts, stops, discards and shutdown makes the daemon stop
\* a stack that was the user's: a stop begins only for what a hold claims.
THEOREM UsersStackIsLeftAlone == HoldsSpec => StopsOnlyOurs
<1> DEFINE Ours == stops' \ stops # {} => stack # "user"
<1>1. StackInv /\ [HoldsNext]_<<vars, holdVars>> => Ours
  <2> SUFFICES ASSUME StackInv, [HoldsNext]_<<vars, holdVars>>, stops' \ stops # {}
               PROVE  stack # "user"
    OBVIOUS
  <2>1. /\ hold \in [users : SUBSET ComposeProcs, started : BOOLEAN, stop : BOOLEAN]
        /\ hold.users = {} => hold = NoHold
    BY DEF StackInv, HoldPart
  <2>2. ASSUME NEW P, ReleaseFrom(hold, P) PROVE stack # "user"
    BY <2>1, <2>2, ReleaseEffect DEF StackInv, ClaimPart
  <2>3. ASSUME NEW q \in prep, NEW ok \in BOOLEAN, NEW out \in Outs, PrepareDone(q, ok, out)
        PROVE  stack # "user"
    <3> DEFINE t == q.task
               held == [users   |-> hold.users \cup {t.proc},
                        started |-> hold.started \/ q.started,
                        stop    |-> hold.stop \/ t.proc \in StopProcs]
               h == IF RecordsHold(t, ok, q.started) THEN held ELSE hold
    <3>1. PICK P : ReleaseFrom(h, P)
      BY <2>3 DEF PrepareDone
    <3>2. q \in Prep /\ t.proc \in ComposeProcs /\ StopProcs \subseteq ComposeProcs
      BY StopProcsAssumption DEF StackInv, PrepPart
    <3>3. /\ h \in [users : SUBSET ComposeProcs, started : BOOLEAN, stop : BOOLEAN]
          /\ h.users = {} => h = NoHold
      BY <2>1, <3>2 DEF Prep
    <3>4. h.started => hold.started \/ q.started
      OBVIOUS
    <3> HIDE DEF h, held, t
    <3>5. h.started
      BY <3>1, <3>3, ReleaseEffect DEF StackInv
    <3> QED BY <3>4, <3>5 DEF StackInv, ClaimPart
  <2>4. ASSUME NEW now, NEW later, Follow(now, later) PROVE stack # "user"
    BY <2>2, <2>4 DEF Follow
  <2>5. StopAll \/ ReleaseAll => stack # "user"
    BY <2>2 DEF StopAll, ReleaseAll
  <2>6. ~UNCHANGED <<vars, holdVars>>
    BY DEF holdVars
  <2>7. ASSUME NEW q \in prep, NEW ok \in BOOLEAN, ListStack(q, ok) \/ UpDone(q, ok) PROVE FALSE
    BY <2>7 DEF ListStack, UpDone
  <2>8. ASSUME NEW n \in stops, StopDone(n) PROVE FALSE
    BY <2>8 DEF StopDone
  <2>9. ~Closed
    BY DEF Closed
  <2> QED
    BY <2>3, <2>4, <2>5, <2>6, <2>7, <2>8, <2>9, HoldsCases DEF StopAndRelease, DiscardAndRelease
<1> QED BY <1>1, StackInvKept, PTL DEF HoldsSpec, StopsOnlyOurs
=============================================================================
