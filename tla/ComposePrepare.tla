----------------------------- MODULE ComposePrepare -----------------------------
(* What a process's compose block does, service by service (server/src/manager/compose.ts,     *)
(* called by lifecycle.ts): before the process spawns, what is not up goes up, its healthchecks *)
(* and ports are waited for and its connection env is made; once the process is gone, what the  *)
(* call started is stopped. Who shares a stack and when it is let go is ComposeHolds. Docker,   *)
(* the containers and the user's own docker commands are external. A service is its place in    *)
(* the compose file; each image has one env key.                                                *)
EXTENDS FiniteSets, Naturals

CONSTANTS MaxService,        \* how many services the compose file has
          Jobs,              \* those made to run to an end; the others are to serve
          Checked,           \* those with a healthcheck
          Publishers,        \* those with a published port, the one of their image
          Key, NoKey,        \* the env key a service's image stands for
          MaxContainerEvents, MaxPrepares

Service == 1..MaxService
ASSUME ComposePrepareAssumption ==
    /\ MaxService \in Nat /\ Jobs \cup Checked \cup Publishers \subseteq Service
    /\ MaxContainerEvents \in Nat /\ MaxPrepares \in Nat

VARIABLES
    block,      \* its services, less the ignored ones; skipIfRunning; start-and-stop
    container,  \* "none", "runs"; "zero", exited with code 0; "died"
    health,     \* "none", "starting", "healthy", "unhealthy"
    serves,     \* services behind whose port something serves
    prepareAt,  \* "idle", "config", "list", "up", "health", "ports", "ready", "failed"
    before,     \* the services that were neither running nor done when they were listed
    liveServices,  \* those that were running when the stack was found healthy
    answered,   \* those whose port has answered
    started,    \* what the outcome says the call started
    composeEnv, \* what is injected: keys and their service, or 0
    theirs,     \* history: those that ran when they were listed, and since
    altered,    \* history: those that went down or ill since the last listing
    events, prepares  \* bounds

boxVars == <<container, health, serves>>
runVars == <<before, liveServices, answered, started, composeEnv>>
seenVars == <<theirs, altered>>
cpVars == <<block, boxVars, prepareAt, runVars, seenVars, events, prepares>>

Runs(s) == container[s] = "runs"
Keys == {Key[s] : s \in Service} \ {NoKey}
NoEnv == [k \in Keys |-> 0]

CpInit ==
    /\ block \in [services : SUBSET Service \ {{}}, skip : BOOLEAN, stop : BOOLEAN]
    /\ container \in [Service -> {"none", "runs"}] /\ serves = {s \in Publishers : Runs(s)}
    /\ health = [s \in Service |-> IF Runs(s) /\ s \in Checked THEN "healthy" ELSE "none"]
    /\ prepareAt = "idle" /\ before = {} /\ liveServices = {} /\ answered = {} /\ started = {}
    /\ composeEnv = NoEnv /\ theirs = {} /\ altered = {} /\ events = 0 /\ prepares = 0

---------------------------------------------------------------------------------------
\* A process starts.
Prepare ==
    /\ prepareAt = "idle" /\ prepares < MaxPrepares /\ prepares' = prepares + 1
    /\ prepareAt' = "config"
    /\ UNCHANGED <<block, boxVars, runVars, seenVars, events>>

\* A docker call that fails, runs into its time or answers no JSON ends the preparation; what the
\* call has started by then is handed back.
DockerFails ==
    /\ prepareAt \in {"config", "list", "health"} /\ prepareAt' = "failed"
    /\ UNCHANGED <<block, boxVars, runVars, seenVars, events, prepares>>
loadComposeConfig ==
    /\ prepareAt = "config" /\ prepareAt' = "list"
    /\ UNCHANGED <<block, boxVars, runVars, seenVars, events, prepares>>

\* A service that exited with code 0 has done its job.
Completed(s) == container[s] = "zero"
Down(s) == ~Runs(s) /\ ~Completed(s)
listComposeServices ==
    /\ prepareAt = "list" /\ prepareAt' = "up"
    /\ before' = {s \in block.services : Down(s)}
    /\ theirs' = {s \in Service : Runs(s)} /\ altered' = {}
    /\ UNCHANGED <<block, boxVars, liveServices, answered, started, composeEnv, events, prepares>>

\* Docker starts a container that does not run, a finished one as well.
GoUp(S) ==
    /\ container' = [s \in Service |-> IF s \in S THEN "runs" ELSE container[s]]
    /\ health' = [s \in Service |-> IF s \notin S \/ Runs(s) THEN health[s]
                                    ELSE IF s \in Checked THEN "starting" ELSE "none"]
    /\ UNCHANGED serves
\* What if: all that is wanted counts as started by the call.
AllWanted == block.services
\* What the call counts as started is what did not run when it looked.
NotRunning == before
Skips == block.skip /\ before = {}
upWantedServices ==
    /\ prepareAt = "up"
    /\ \/ Skips /\ prepareAt' = "health" /\ UNCHANGED <<boxVars, started>>
       \/ /\ ~Skips /\ GoUp(block.services)
          /\ prepareAt' = "health" /\ started' = NotRunning
       \* An `up` that fails may have started some of them, and says nothing of it.
       \/ /\ ~Skips /\ \E S \in SUBSET block.services : GoUp(S)
          /\ prepareAt' = "failed" /\ UNCHANGED started
    /\ UNCHANGED <<block, before, liveServices, answered, composeEnv, seenVars, events, prepares>>

\* What if: a service that went down again has no healthcheck to wait for.
NeverGone == {}
\* It publishes no ports to probe either: it would pass for ready.
Dropped == {s \in block.services : Down(s)}
healthPending(s) == health[s] \in {"starting", "unhealthy"}
\* One look of the poll; while a check is pending there is another, until the time is up.
waitForHealthy ==
    /\ prepareAt = "health" /\ altered' = {}
    /\ \/ Dropped # {} /\ prepareAt' = "failed" /\ UNCHANGED liveServices
       \/ /\ Dropped = {} /\ \E s \in block.services : healthPending(s)
          /\ prepareAt' \in {"health", "failed"} /\ UNCHANGED liveServices
       \/ /\ Dropped = {} /\ ~ \E s \in block.services : healthPending(s)
          /\ prepareAt' = "ports" /\ liveServices' = {s \in block.services : Runs(s)}
    /\ UNCHANGED <<block, boxVars, before, answered, started, composeEnv, theirs, events,
                   prepares>>

\* What if: the proxy in front of a container answers for it.
AcceptsEarly(s) == Runs(s)
\* A connection that is dropped at once is the proxy's.
composePortReady(s) == s \in serves
\* The ports one after the other, each until it answers or the time is up.
NextPort == {s \in liveServices \cap Publishers : s \notin answered}
waitForPort ==
    /\ prepareAt = "ports" /\ NextPort # {}
    /\ LET s == CHOOSE x \in NextPort : \A y \in NextPort : x <= y IN
           \/ composePortReady(s) /\ answered' = answered \cup {s} /\ UNCHANGED prepareAt
           \/ ~composePortReady(s) /\ prepareAt' = "failed" /\ UNCHANGED answered
    /\ UNCHANGED <<block, boxVars, before, liveServices, started, composeEnv, seenVars, events,
                   prepares>>

\* What if: the last service with a key has it.
LastClaims(k, S) == CHOOSE s \in S : \A r \in S : s >= r
\* The first service to claim a key keeps it.
Claims(k, S) == CHOOSE s \in S : \A r \in S : s <= r
connectionEnv ==
    [k \in Keys |-> LET S == {s \in liveServices \cap Publishers : Key[s] = k}
                    IN  IF S = {} THEN 0 ELSE Claims(k, S)]
PrepareEnds ==
    /\ prepareAt = "ports" /\ NextPort = {}
    /\ prepareAt' = "ready" /\ composeEnv' = connectionEnv
    /\ UNCHANGED <<block, boxVars, before, liveServices, answered, started, seenVars, events,
                   prepares>>

\* A stopped container exits, with code 0 or not.
StoppedAs(S, how) ==
    /\ container' = [s \in Service |-> IF s \in S /\ Runs(s) THEN how ELSE container[s]]
    /\ health' = [s \in Service |-> IF s \in S THEN "none" ELSE health[s]]
    /\ serves' = serves \ S
\* The process is gone, or never came: what the call started is stopped if the block says so.
stopComposeServices ==
    /\ prepareAt \in {"ready", "failed"} /\ prepareAt' = "idle"
    /\ \/ block.stop /\ \E how \in {"zero", "died"} : StoppedAs(started, how)
       \/ UNCHANGED boxVars
    /\ before' = {} /\ liveServices' = {} /\ answered' = {} /\ started' = {} /\ composeEnv' = NoEnv
    /\ theirs' = {} /\ altered' = {}
    /\ UNCHANGED <<block, events, prepares>>

---------------------------------------------------------------------------------------
\* The containers: a check passes, a server comes up behind its port, a job ends.
Passes(s) ==
    /\ Runs(s) /\ healthPending(s) /\ health' = [health EXCEPT ![s] = "healthy"]
    /\ UNCHANGED <<container, serves, theirs, altered, events>>
Serves(s) ==
    /\ Runs(s) /\ s \in Publishers \ serves /\ serves' = serves \cup {s}
    /\ UNCHANGED <<container, health, theirs, altered, events>>
JobEnds(s) ==
    /\ s \in Jobs /\ Runs(s) /\ StoppedAs({s}, "zero")
    /\ theirs' = theirs \ {s} /\ UNCHANGED <<altered, events>>
\* They fall ill or exit, or the user stops or starts them, at any time.
Ails(s) ==
    /\ Runs(s) /\ s \in Checked /\ health' = [health EXCEPT ![s] = "unhealthy"]
    /\ altered' = altered \cup {s} /\ UNCHANGED <<container, serves, theirs>>
Exits(s) ==
    /\ Runs(s) /\ \E how \in {"zero", "died"} : StoppedAs({s}, how)
    /\ theirs' = theirs \ {s} /\ altered' = altered \cup {s}
UserUps(s) == ~Runs(s) /\ GoUp({s}) /\ altered' = altered \cup {s} /\ UNCHANGED theirs
Containers(s) ==
    /\ \/ Passes(s) \/ Serves(s) \/ JobEnds(s)
       \/ /\ Ails(s) \/ Exits(s) \/ UserUps(s)
          /\ events < MaxContainerEvents /\ events' = events + 1
    /\ UNCHANGED <<block, prepareAt, runVars, prepares>>

CpNext ==
    \/ Prepare \/ DockerFails \/ loadComposeConfig \/ listComposeServices \/ upWantedServices
    \/ waitForHealthy \/ waitForPort \/ PrepareEnds \/ stopComposeServices
    \/ \E s \in Service : Containers(s)
CpSpec == CpInit /\ [][CpNext]_cpVars

CpTypeOK ==
    /\ container \in [Service -> {"none", "runs", "zero", "died"}]
    /\ health \in [Service -> {"none", "starting", "healthy", "unhealthy"}]
    /\ serves \cup before \cup liveServices \cup answered \cup started \subseteq Service
    /\ \A s \in Service : ~Runs(s) => s \notin serves /\ health[s] = "none"

\* A stack reported ready is ready: what is wanted runs, has passed its check and serves behind
\* its port, or has done its job, unless it altered since it was last looked at. Its env leads to
\* the first such service of each image, and what it says it started did not run before: a
\* release stops nobody else's service.
StackIsReady ==
    /\ started \cap theirs = {}
    /\ prepareAt = "ready" =>
         /\ \A s \in block.services \ altered :
                \/ Completed(s)
                \/ /\ Runs(s) /\ health[s] \in {"none", "healthy"}
                   /\ s \in Publishers => s \in serves
         /\ \A k \in Keys, s \in (block.services \cap Publishers) \ altered :
                Key[s] = k /\ Runs(s) => composeEnv[k] \in 1..s

\* What CHANGELOG.md says of the compose block: a dev server no longer starts before its
\* database. (A server that exits with code 0 when it is stopped passes for a finished job, and
\* the next start does not start it.)
DatabaseIsUp ==
    prepareAt = "ready" => \A s \in block.services \ (Jobs \cup altered) : Runs(s)
================================================================================
