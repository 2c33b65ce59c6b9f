-------------------------------- MODULE Relays --------------------------------
(* Two relays of the daemon, which share no state: runMcpStdio, which hands the requests of  *)
(* a client on stdin to tools and its answers back, and the proxy that reaches a managed dev  *)
(* server through the daemon's port.                                                          *)
EXTENDS Naturals, Sequences, FiniteSets

---------------------------------------------------------------------------------------
(* runMcpStdio (server/src/mcp-stdio.mjs): lines read from stdin, requests dispatched       *)
(* concurrently up to maxInFlight and queued behind that, a registry from a request's       *)
(* JSON-RPC id to its AbortController, answers written to stdout, and the drain when stdin  *)
(* closes. A request is the number of its line; its id is the client's choice.              *)
CONSTANTS
    Ids,            \* JSON-RPC ids a client uses
    MaxInFlight,    \* maxInFlight
    MaxRead         \* a bound: lines read

ASSUME McpAssumption == MaxInFlight \in Nat \ {0}

VARIABLES
    stdin,          \* "open" or "closed"
    mcpServer,      \* "reading", "draining" (after the last line) or "done": runMcpStdio resolved
    asked,          \* the id of each line read that asks for an answer; its index is the request
    active,         \* the requests being handled
    aborted,        \* those whose signal was aborted
    waiting,        \* `queue`
    registry,       \* id -> the request whose controller is registered under it
    replies         \* the requests answered on stdout, in the order written

mcpVars == <<stdin, mcpServer, asked, active, aborted, waiting, registry, replies>>

McpInit ==
    /\ stdin = "open" /\ mcpServer = "reading" /\ asked = << >> /\ active = {} /\ aborted = {}
    /\ waiting = << >> /\ registry = [i \in {} |-> 0] /\ replies = << >>

With(r, i, n) == [j \in DOMAIN r \cup {i} |-> IF j = i THEN n ELSE r[j]]
Without(r, i) == [j \in DOMAIN r \ {i} |-> r[j]]
Reads == stdin = "open" /\ mcpServer = "reading" /\ Len(asked) < MaxRead

\* handleParsedMessage: a request is dispatched under the cap, else it waits in line.
ReadRequest(i) ==
    /\ Reads /\ asked' = Append(asked, i)
    /\ IF Cardinality(active) < MaxInFlight
       THEN /\ active' = active \cup {Len(asked')}
            /\ registry' = With(registry, i, Len(asked'))
            /\ UNCHANGED waiting
       ELSE /\ waiting' = Append(waiting, Len(asked'))
            /\ UNCHANGED <<active, registry>>
    /\ UNCHANGED <<stdin, mcpServer, aborted, replies>>

\* notifications/cancelled: whatever is registered under the id is aborted, a request that waits
\* is not. Another notification, and a blank line, do nothing.
ReadCancel(i) ==
    /\ Reads /\ i \in DOMAIN registry
    /\ aborted' = aborted \cup {registry[i]}
    /\ UNCHANGED <<stdin, mcpServer, asked, active, waiting, registry, replies>>

\* A line that is no JSON, or no object, is answered at once with the null id.
ReadBad ==
    /\ Reads /\ asked' = Append(asked, "null") /\ replies' = Append(replies, Len(asked'))
    /\ UNCHANGED <<stdin, mcpServer, active, aborted, waiting, registry>>

\* A task ends: its answer is written (a tool that throws is an answer as well), its id leaves
\* the registry, whoever put it there last, and pump() starts the first that waits.
\* What if: the slot was given back without pump().
FinishIdle(n) ==
    /\ n \in active /\ replies' = Append(replies, n)
    /\ active' = active \ {n} /\ registry' = Without(registry, asked[n])
    /\ aborted' = aborted \ {n} /\ UNCHANGED <<stdin, mcpServer, asked, waiting>>
Finish(n) ==
    /\ n \in active /\ replies' = Append(replies, n) /\ aborted' = aborted \ {n}
    /\ LET left == Without(registry, asked[n]) IN
           IF waiting = << >>
           THEN active' = active \ {n} /\ registry' = left /\ UNCHANGED waiting
           ELSE /\ active' = (active \ {n}) \cup {waiting[1]} /\ waiting' = Tail(waiting)
                /\ registry' = With(left, asked[waiting[1]], waiting[1])
    /\ UNCHANGED <<stdin, mcpServer, asked>>

CloseInput ==
    /\ stdin = "open" /\ stdin' = "closed" /\ mcpServer' = "draining"
    /\ UNCHANGED <<asked, active, aborted, waiting, registry, replies>>
\* The drain: runMcpStdio resolves when nothing is in flight and nothing waits.
\* What if: it resolved when the queue was empty.
DrainedEarly == waiting = << >>
Drained == active = {} /\ waiting = << >>
Drain ==
    /\ mcpServer = "draining" /\ Drained /\ mcpServer' = "done"
    /\ UNCHANGED <<stdin, asked, active, aborted, waiting, registry, replies>>

McpNext ==
    \/ \E i \in Ids : ReadRequest(i) \/ ReadCancel(i)
    \/ ReadBad \/ CloseInput \/ Drain
    \/ \E n \in active : Finish(n)

-------------------------------------------------------------------------------
McpTypeOK ==
    /\ stdin \in {"open", "closed"} /\ mcpServer \in {"reading", "draining", "done"}
    /\ asked \in Seq(Ids \cup {"null"}) /\ active \subseteq DOMAIN asked /\ aborted \subseteq active
    /\ Cardinality(active) <= MaxInFlight /\ DOMAIN registry \subseteq Ids

Count(n) == Cardinality({k \in DOMAIN replies : replies[k] = n})

\* Every request that was read is answered once and none twice: it is in flight, or in the queue
\* in the order it was read, or answered, and nothing is left when the server has ended. The
\* queue is used only while every slot is taken.
AnsweredOnce ==
    /\ \A n \in DOMAIN asked :
           Count(n) + (IF n \in active THEN 1 ELSE 0)
               + Cardinality({k \in DOMAIN waiting : waiting[k] = n}) = 1
    /\ \A j, k \in DOMAIN waiting : j < k => waiting[j] < waiting[k]
    /\ waiting # << >> => Cardinality(active) = MaxInFlight
    /\ mcpServer = "done" => \A n \in DOMAIN asked : Count(n) = 1

---------------------------------------------------------------------------------------
(* server/src/http/port-proxy.ts: a managed dev server reached through the daemon's port.   *)
(* forward() relays one HTTP request, proxySocketHandlers one WebSocket; both try the two   *)
(* loopback families, the one that last answered first. Messages are numbered as the        *)
(* client sends them.                                                                       *)
CONSTANTS
    MaxSent, MaxMoves       \* bounds: messages of the client, restarts of the dev server

ASSUME ProxyAssumption == {MaxSent, MaxMoves} \subseteq Nat

VARIABLES
    listens,        \* the families the dev server listens on now
    answeredOn,     \* the map's entry for its port: a family or "none"
    order,          \* loopbackOrder when the socket was opened
    at,             \* the attempt under way; 0 before the client connects
    up,             \* the upstream socket: "none", "connecting", "open" or "closed"
    client,         \* <<"none">>, <<"open">>, <<"left">>, or the code it was closed with
    sent, queue, given,     \* messages sent by the client, held back, passed to the upstream
    http,           \* the families a forwarded request has still to try, or "idle"
    reply,          \* its outcome: "none", "ok" or 502
    triedAll, moves         \* history: families the request was tried on; the bound

proxyVars == <<listens, answeredOn, order, at, up, client, sent, queue, given, http, reply,
               triedAll, moves>>

Loopbacks == <<"v4", "v6">>
Families == {"v4", "v6"}
loopbackOrder == IF answeredOn = "v6" THEN <<"v6", "v4">> ELSE Loopbacks

ProxyInit ==
    /\ listens \in SUBSET Families /\ answeredOn = "none" /\ order = Loopbacks /\ at = 0
    /\ up = "none" /\ client = <<"none">> /\ sent = 0 /\ queue = << >> /\ given = << >>
    /\ http = <<"idle">> /\ reply = "none" /\ triedAll = {} /\ moves = 0

\* The dev server restarts on other families.
ServerMoves ==
    /\ moves < MaxMoves /\ moves' = moves + 1 /\ listens' \in SUBSET Families
    /\ UNCHANGED <<answeredOn, order, at, up, client, sent, queue, given, http, reply, triedAll>>

-------------------------------------------------------------------------------
(* The socket. *)
SocketOpens ==
    /\ client = <<"none">> /\ client' = <<"open">>
    /\ order' = loopbackOrder /\ at' = 1 /\ up' = "connecting"
    /\ UNCHANGED <<listens, answeredOn, sent, queue, given, http, reply, triedAll, moves>>

\* onopen: what was held back goes first.
UpOpens ==
    /\ up = "connecting" /\ order[at] \in listens /\ up' = "open" /\ answeredOn' = order[at]
    /\ given' = given \o queue /\ queue' = << >>
    /\ UNCHANGED <<listens, order, at, client, sent, http, reply, triedAll, moves>>

\* onclose before it ever opened: the other family, or the client learns of the last failure.
\* What if: the next family started with an empty queue.
HeldEmpty == << >>
Held == queue
UpFails ==
    /\ up = "connecting" /\ queue' = Held
    /\ IF at < Len(order) THEN at' = at + 1 /\ UNCHANGED <<up, client>>
       ELSE up' = "closed" /\ client' = <<"closed", 1011>> /\ UNCHANGED at
    /\ UNCHANGED <<listens, answeredOn, order, sent, given, http, reply, triedAll, moves>>

\* onclose and onerror once open: the code as one a server may send.
relayCloseCode(code) ==
    IF code = 1000 \/ code \in 3000 .. 4999 THEN code
    ELSE IF code \in {1001, 1005, 1006} THEN 1000 ELSE 1011
UpCloses(code) ==
    /\ up = "open" /\ up' = "closed" /\ client' = <<"closed", relayCloseCode(code)>>
    /\ UNCHANGED <<listens, answeredOn, order, at, sent, queue, given, http, reply, triedAll,
                   moves>>

\* message(): passed on while the upstream is open, else held back.
ClientSends ==
    /\ client = <<"open">> /\ sent < MaxSent /\ sent' = sent + 1
    /\ IF up = "open" THEN given' = Append(given, sent') /\ UNCHANGED queue
       ELSE queue' = Append(queue, sent') /\ UNCHANGED given
    /\ UNCHANGED <<listens, answeredOn, order, at, up, client, http, reply, triedAll, moves>>

\* close(): the upstream is closed with it, and no other family is tried.
ClientCloses ==
    /\ client = <<"open">> /\ client' = <<"left">> /\ up' = "closed"
    /\ UNCHANGED <<listens, answeredOn, order, at, sent, queue, given, http, reply, triedAll,
                   moves>>

-------------------------------------------------------------------------------
(* One HTTP request. *)
ForwardStarts ==
    /\ http = <<"idle">> /\ reply = "none" /\ http' = loopbackOrder
    /\ UNCHANGED <<listens, answeredOn, order, at, up, client, sent, queue, given, reply, triedAll,
                   moves>>
FetchAnswers ==
    /\ http # <<"idle">> /\ http[1] \in listens /\ reply' = "ok" /\ answeredOn' = http[1]
    /\ http' = <<"idle">> /\ triedAll' = triedAll \cup {http[1]}
    /\ UNCHANGED <<listens, order, at, up, client, sent, queue, given, moves>>
\* What if: the first failure was the answer.
TriesOnce(hosts) == << >>
TriesNext(hosts) == Tail(hosts)
FetchFails ==
    /\ http # <<"idle">> /\ triedAll' = triedAll \cup {http[1]}
    /\ IF TriesNext(http) = << >> THEN reply' = "502" /\ http' = <<"idle">>
       ELSE http' = TriesNext(http) /\ UNCHANGED reply
    /\ UNCHANGED <<listens, answeredOn, order, at, up, client, sent, queue, given, moves>>

ProxyNext ==
    \/ ServerMoves \/ SocketOpens \/ UpOpens \/ UpFails \/ ClientSends \/ ClientCloses
    \/ \E code \in {1000, 1001, 1006, 1008, 3000, 4999} : UpCloses(code)
    \/ ForwardStarts \/ FetchAnswers \/ FetchFails

-------------------------------------------------------------------------------
ProxyTypeOK ==
    /\ listens \subseteq Families /\ answeredOn \in Families \cup {"none"} /\ at \in 0 .. 2
    /\ up \in {"none", "connecting", "open", "closed"} /\ sent \in 0 .. MaxSent
    /\ client[1] \in {"none", "open", "left", "closed"}
    /\ reply \in {"none", "ok", "502"}

\* Every message of the client is passed on once, in the order sent, or still held back while no
\* upstream is open, whichever family answered after however many failures; the client is told of
\* a failure, over HTTP or the socket, only after both families were tried, and no upstream is
\* left open behind a client that has gone.
SocketKeepsOrder ==
    /\ given \o queue = [k \in 1 .. sent |-> k]
    /\ up = "open" => queue = << >> /\ client = <<"open">>
    /\ client = <<"closed", 1011>> /\ queue # << >> => at = 2
    /\ client # <<"open">> => up \in {"none", "closed"}
    /\ reply = "502" => triedAll = Families
===============================================================================
