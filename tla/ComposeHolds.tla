---------------------------- MODULE ComposeHolds ----------------------------
(***************************************************************************)
(* Who keeps a docker compose stack up: lifecycle.ts 56-75 and 441-519     *)
(* with the steps of prepareCompose (compose.ts), on top of Lifecycle.     *)
(*                                                                         *)
(* One stack, shared by all of ComposeProcs; its wanted services go up and *)
(* down together.  A start prepares the stack (waits for stops in flight,  *)
(* lists what runs, `up`, waits for readiness); its outcome is recorded as *)
(* a hold; a stop() releases the hold once the process is gone; the last   *)
(* release stops what the daemon started.  Every step of Lifecycle is      *)
(* taken as it is, with what it does to the hold beside it.                *)
(***************************************************************************)
EXTENDS Lifecycle

CONSTANT StopProcs   \* those whose compose mode is start-and-stop

ASSUME StopProcsAssumption == StopProcs \subseteq ComposeProcs

VARIABLES
  hold,        \* composeHolds of the stack: users, started, stopOnRelease
  stops,       \* composeStops: the `docker compose stop` calls in flight
  prep,        \* runPrepareCompose calls, one per compose task
  releasing,   \* stop() calls that release the hold once the child exits
  closing,     \* stopAll at shutdown: the exits and stops it waits for
  stack        \* docker: is it up, and (history) on whose account: the user's,
               \* the daemon's, or left up by a daemon that answers no more;
               \* "ended": down, each service having exited with code 0

holdVars == <<hold, stops, prep, releasing, closing, stack>>

NoHold == [users |-> {}, started |-> FALSE, stop |-> FALSE]

Prep == [task : Task, at : {"drain", "up", "ready", "failed"},
         drain : SUBSET Nat, started : BOOLEAN]

\* A hold with no users left is no longer in the map.
HoldsTypeOK ==
  /\ hold \in [users : SUBSET ComposeProcs, started : BOOLEAN, stop : BOOLEAN]
  /\ hold.users = {} => hold = NoHold
  /\ stops \subseteq Nat
  /\ prep \subseteq Prep
  /\ releasing \subseteq Procs
  /\ closing \in [at : {"no", "exits", "stops", "done"}, wait : SUBSET Procs, drain : SUBSET Nat]
  /\ stack \in {"down", "ended", "user", "daemon", "left"}

\* The user may have the stack running already, or have stopped it.
HoldsInit ==
  /\ hold = NoHold /\ stops = {} /\ prep = {} /\ releasing = {}
  /\ closing = [at |-> "no", wait |-> {}, drain |-> {}]
  /\ stack \in {"down", "ended", "user"}

-----------------------------------------------------------------------------
(* Holding and releasing.                                                   *)

\* A name for a stop that is about to begin.
NewStop == CHOOSE n \in 0..Cardinality(stops) : n \notin stops

\* What if: an emptied hold were never taken out of the map.
NeverLastOut(h, P) == FALSE

\* Whether letting go of h for P leaves it without users.
LastOut(h, P) == h.users # {} /\ h.users \subseteq P

Up == stack \notin {"down", "ended"}

\* A service that exited with code 0 passes for a finished job: neither `up` nor
\* readiness waits for it.
Satisfied == stack # "down"

\* The daemon's own stack, once nobody is to stop it any more.
Left == IF stack = "daemon" THEN "left" ELSE stack

\* What if: the last one out stopped the stack whoever had started it.
StopsStackAlways(h) == h.stop

\* The last one out stops only what this daemon started, and only on request.
StopsStack(h) == h.stop /\ h.started

\* releaseCompose for every process of P, the hold being h by now.
ReleaseFrom(h, P) ==
  LET last == LastOut(h, P) IN
  /\ hold' = IF last THEN NoHold
             ELSE [users |-> h.users \ P, started |-> h.started, stop |-> h.stop]
  /\ stops' = IF last /\ StopsStack(h) THEN stops \cup {NewStop} ELSE stops
  /\ stack' = IF last /\ ~h.stop THEN Left ELSE stack   \* start-only

\* What if: stop() released at once, its process still shutting down.
ReleasedAtOnce(S) == S

\* stop() has nothing to wait for: its release follows without delay.
ReleasedNow(S) == S \ StillExiting(S)

\* What if: a stop() that had to wait never released.
NoneReleasing(S) == {}

\* What if: a stop() with no child left its release to an exit too.
AlwaysLater(S) == S

\* stop() releases once the exit it awaits has come.
ReleasedLater(S) == StillExiting(S)

\* One preparation per start that awaits its stack; it will wait for the
\* stops in flight when it began.
Preparing ==
  {q \in prep : q.task \in tasks'} \cup
  {[task |-> t, at |-> "drain", drain |-> stops, started |-> FALSE] :
      t \in {u \in tasks' \ tasks : u.kind = "compose"}}

\* What a lifecycle step does to the stack: the processes of now let go at
\* once, those of later when their child is gone, and an exit that was awaited
\* lets go of its process.
Follow(now, later) ==
  LET gone == {p \in releasing : child'[p] = 0} IN
  /\ ReleaseFrom(hold, now \cup gone)
  /\ releasing' = (releasing \ gone) \cup later
  /\ prep' = Preparing
  /\ closing' = [closing EXCEPT !.wait = {p \in @ : child'[p] # 0}]

StopAndRelease(S) == Stop(S) /\ Follow(ReleasedNow(S), ReleasedLater(S))

DiscardAndRelease(S) == Discard(S) /\ Follow(S, {})

-----------------------------------------------------------------------------
(* Preparing the stack.                                                     *)

Moved(q, r) == prep' = (prep \ {q}) \cup {r}

\* The stops that were in flight when the preparation began have ended.
Drained(q) == q.drain = {}

\* Config and `ps`: with every wanted service running or done there is no `up`.
ListStack(q, ok) ==
  /\ q.at = "drain" /\ Drained(q)
  /\ Moved(q, [q EXCEPT !.at = IF ~ok THEN "failed" ELSE IF Satisfied THEN "ready" ELSE "up"])
  /\ UNCHANGED <<vars, hold, stops, releasing, closing, stack>>

\* `docker compose up -d` ends; a failing one may have started something, but
\* reports nothing as started.
UpDone(q, ok) ==
  /\ q.at = "up"
  /\ Moved(q, [q EXCEPT !.at = IF ok THEN "ready" ELSE "failed", !.started = ok])
  /\ stack' \in IF ok THEN {"daemon"} ELSE {stack, IF Up THEN stack ELSE "left"}
  /\ UNCHANGED <<vars, hold, stops, releasing, closing>>

\* `docker compose stop` ends, or fails, which is only logged; a stopped server
\* exits with code 0 or not.
StopDone(n) ==
  /\ n \in stops
  /\ stops' = stops \ {n}
  /\ prep' = {[q EXCEPT !.drain = @ \ {n}] : q \in prep}
  /\ closing' = [closing EXCEPT !.drain = @ \ {n}]
  /\ stack' \in (IF Up THEN {"down", "ended", Left} ELSE {stack})
  /\ UNCHANGED <<vars, hold, releasing>>

\* What if: only a start that is still current recorded what it had started.
HoldsOnlyCurrent(t, ok, started) == StillCurrent(t) /\ (ok \/ started)

\* What if: a stack found running were not recorded, nothing being to stop.
HoldsOnlyStarted(t, ok, started) == started

\* A preparation that succeeded, or failed after its `up`, is recorded.
RecordsHold(t, ok, started) == ok \/ started

\* The continuation of prepareCompose: the hold is recorded; a cancelled start
\* that has not been started again lets go at once, as does one that fails.
PrepareDone(q, ok, out) ==
  LET t == q.task
      p == t.proc
      held == [users   |-> hold.users \cup {p},
               started |-> hold.started \/ q.started,
               stop    |-> hold.stop \/ p \in StopProcs]
      h == IF RecordsHold(t, ok, q.started) THEN held ELSE hold
      idle == p \notin registered \/ (~pendingStart[p] /\ child[p] = 0)
      letGo == IF StillCurrent(t) THEN ~ok ELSE (ok \/ q.started) /\ idle
  IN /\ t \in tasks
     /\ q.at \in {"ready", "failed"} /\ (ok => q.at = "ready" /\ Satisfied)
     /\ ComposeDone(t, ok, out)
     /\ ReleaseFrom(h, IF letGo THEN {p} ELSE {})
     /\ prep' = prep \ {q}
     /\ UNCHANGED <<releasing, closing>>

-----------------------------------------------------------------------------
(* stopAll: the route and the daemon's shutdown.                            *)

StopAll ==
  /\ closing.at = "no"
  /\ Stop(registered)
  /\ ReleaseFrom(hold, ReleasedNow(registered))
  /\ releasing' = releasing \cup ReleasedLater(registered)
  /\ prep' = Preparing
  /\ closing' = [at |-> "exits", wait |-> StillExiting(registered), drain |-> {}]

\* Its exits have come: what is still held is released.
AllExited == closing.at = "exits" /\ closing.wait = {}

ReleaseAll ==
  /\ AllExited
  /\ ReleaseFrom(hold, hold.users)
  /\ closing' = [closing EXCEPT !.at = "stops", !.drain = stops']
  /\ UNCHANGED <<vars, prep, releasing>>

\* The stops it waited for have ended: the route answers, or the daemon exits.
Closed ==
  /\ closing.at = "stops" /\ closing.drain = {}
  /\ closing' \in {[closing EXCEPT !.at = next] : next \in {"no", "done"}}
  /\ UNCHANGED <<vars, hold, stops, prep, releasing, stack>>

-----------------------------------------------------------------------------
Prepares(q) ==
  \E ok \in BOOLEAN :
    ListStack(q, ok) \/ UpDone(q, ok) \/ \E out \in Outs : PrepareDone(q, ok, out)

StackStep ==
  \/ \E S \in SUBSET Procs : StopAndRelease(S) \/ DiscardAndRelease(S)
  \/ (RunRequest \/ PortDone \/ Timer \/ OsEvent) /\ Follow({}, {})
  \/ \E q \in prep : Prepares(q)
  \/ \E n \in stops : StopDone(n)
  \/ StopAll
  \/ Closed

HoldsNext ==
  \/ Microtask /\ Follow({}, {})
  \/ ReleaseAll
  \/ ~Claiming /\ ~Resuming /\ ~AllExited /\ closing.at # "done" /\ StackStep

HoldsSpec == Init /\ HoldsInit /\ [][HoldsNext]_<<vars, holdVars>>

StackEvent(A) == ~Claiming /\ ~Resuming /\ ~AllExited /\ closing.at # "done" /\ A

\* Docker commands and readiness checks have timeouts, so they end; the stop
\* timer and the kills are those of Lifecycle's fairness.
HoldsFairness ==
  /\ WF_<<vars, holdVars>>(Microtask /\ Follow({}, {}))
  /\ WF_<<vars, holdVars>>(ReleaseAll)
  /\ WF_<<vars, holdVars>>(StackEvent(\E n \in stops : StopDone(n)))
  /\ \A p \in Procs :
       /\ WF_<<vars, holdVars>>(StackEvent(\E q \in prep : q.task.proc = p /\ Prepares(q)))
       /\ WF_<<vars, holdVars>>(StackEvent(StopTimerFires(p) /\ Follow({}, {})))
       /\ WF_<<vars, holdVars>>(StackEvent((\E k \in kills, err \in BOOLEAN :
                      k.proc = p /\ (TermDone(k, err) \/ KillDone(k, err))) /\ Follow({}, {})))

HoldsFairSpec == HoldsSpec /\ HoldsFairness

-----------------------------------------------------------------------------
(* Properties.                                                              *)

\* A process that runs keeps its stack: nothing but the last release of stopAll
\* drops its hold before its child is gone, neither the release of an earlier
\* stop, a cancelled start or a failed one, nor its own restart.
KeepsHold ==
  [][~AllExited => \A p \in hold.users \cap registered' :
                     child'[p] # 0 => p \in hold.users']_<<vars, holdVars>>

\* What AI_GUIDE.md says of readiness first: a start whose compose step is current
\* spawns with its hold recorded.  (The port wait of an earlier start may spawn it.)
HoldBeforeSpawn ==
  [][\A q \in prep : StillCurrent(q.task) /\ child'[q.task.proc] # 0
                         => q.task.proc \in hold.users']_<<vars, holdVars>>

\* What the daemon started it still answers for: by a hold, by a preparation
\* about to record one, or by a stop under way.  Nothing it started is forgotten.
NoForgottenStack ==
  stack = "daemon" => hold.started \/ (\E q \in prep : q.started) \/ stops # {}

\* The daemon stops only what it started: a stack that ran before is left alone.
StopsOnlyOurs == [][stops' \ stops # {} => stack # "user"]_<<vars, holdVars>>

\* Every preparation belongs to a start whose compose step has not ended, every stop()
\* that is still to release waits for a child being killed, and no stack is forgotten.
HoldsCoherent ==
  /\ HoldsTypeOK /\ NoForgottenStack
  /\ {t \in tasks : t.kind = "compose"} = {q.task : q \in prep}
  /\ \A p \in releasing : p \in registered /\ stopping[p]

\* Where every process asks for start-and-stop: once the last request of each was
\* a stop, cancelled starts and dying children included, what the daemon started
\* goes down, or its stop fails, unless one is asked for again.
UnusedGoesDown ==
  (/\ stack = "daemon" /\ ComposeProcs \subseteq StopProcs
   /\ \A p \in ComposeProcs : ~wanted[p])
    ~> (stack # "daemon" \/ closing.at = "done" \/ \E p \in ComposeProcs : wanted[p])

\* What AI_GUIDE.md says of start-and-stop: the stack is stopped once the last
\* process using it is.  (stopAll releases one started while it waited.)
StopsOnlyUnused ==
  [][stops' \ stops # {}
       => \A p \in ComposeProcs \cap registered' : child'[p] = 0]_<<vars, holdVars>>

\* What AI_GUIDE.md says of daemon shutdown: with every process stopped nothing
\* the daemon started is left running.  (A preparation under way leaves it.)
ShutdownStopsStack ==
  closing.at = "done" /\ ComposeProcs \subseteq StopProcs /\ (\A p \in Procs : ~wanted[p])
    => stack # "daemon"
=============================================================================
