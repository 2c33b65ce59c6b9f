-------------------------------- MODULE MCEdges --------------------------------
(* The program's edges, in one run: who may reach the LAN part, the way of a call to its     *)
(* handler, the commands and shortcuts and the shared boot before them, the projects they    *)
(* add and start, the project file and the forms over it, the MCP transport, the port proxy, *)
(* the answers typed at prompts, the daemon's own log, the errors shown and the dialog that  *)
(* adds a project, the synced settings, the tray's icon, the app's windows, the compose      *)
(* stack of a process that starts, the taking over of a folder's other launchers, what       *)
(* processes are said to use, and a page's panels. Commands work on the projects; the other  *)
(* parts share no state, so each behaviour is one part's. The projects alone meet more       *)
(* faults and edits than the commands on top of them.                                        *)
EXTENDS LocalAuth, ProjectFile, Relays, PromptAnswers, Telemetry, ProjectPages,
        Commands, Routes, SettingsSync, Desktop, ComposePrepare

CONSTANTS l1, l2, l3, i1, i2
VARIABLE part

\* Rules of one or three expectations, over texts of two letters; an escape sequence, which ends
\* with a letter no rule waits for, comes whole or in halves.
Expected == [expect : {<< >>, <<"a">>, <<"a", "b">>, <<"b">>}, optional : BOOLEAN]
PromptRules ==
    {<< >>} \cup {<< r >> : r \in Expected} \cup {<<x, y, z>> : x, y, z \in Expected}
PromptChunks ==
    {<<"a">>, <<"b">>, <<"a", "b">>, <<"b", "a">>, <<"a", "esc">>, <<"m", "b">>,
     <<"esc", "m", "a">>}
OneCall ==
    /\ meant = <<"POST", "shutdown", << >> >> /\ from = "cli" /\ required = TRUE /\ knows = TRUE
OfOne == [f \in Prints |-> "p"]
TwoProjects == <<"p", "q">>

\* The images of the compose file: two databases, the second without a healthcheck, and a job.
Images == <<"DATABASE_URL", "DATABASE_URL", NoKey>>
AllUp ==
    /\ block = [services |-> Service, skip |-> TRUE, stop |-> TRUE]
    /\ container = [s \in Service |-> "runs"]

\* Bounds of the commands' behaviours: no crash, one edit.
Calm == crashes' = 0 /\ changes' <= 1

\* The parts that do not run begin in one way only.
Init ==
    /\ part \in {"pairing", "ticket", "cookie", "routes", "boot", "commands", "projects", "file",
                 "mcp", "proxy", "prompt", "log", "errors", "dialog", "sync",
                 "tray", "windows", "compose", "takeover", "metrics", "panels"}
    /\ AuthInit /\ BootInit /\ PfInit /\ McpInit /\ DgInit /\ DlInit
    /\ ProxyInit /\ (part # "proxy" => listens = {})
    /\ PromptInit /\ (part # "prompt" => rules = << >>)
    /\ ElInit /\ (part # "errors" => Recorded = {})
    /\ CommandsInit
    /\ part \notin {"commands", "projects"} => launches /\ files = [p \in Paths |-> Locals]
    /\ SyInit
    /\ TsInit /\ (part # "tray" => compiled /\ taskbar /\ toolkit = {})
    /\ AwInit /\ (part # "windows" => portable)
    /\ \/ part = "compose" /\ CpInit /\ block.services \in {Service, {2, 3}}
       \/ part # "compose" /\ AllUp /\ CpInit
    /\ MxInit /\ PpInit
    /\ \/ part = "takeover" /\ ToInit
       \/ part # "takeover" /\ vscode = [f \in VsFiles |-> NoText] /\ ToInit
    /\ \/ part = "routes" /\ RoutesInit
       \/ part # "routes" /\ OneCall /\ RoutesInit

gateVars == <<authVars, routeVars, mcpVars, proxyVars, promptVars>>
userVars == <<bootVars, commandVars, dlVars, syVars>>
fileVars == <<pfVars, dgVars, elVars, toVars>>
deskVars == <<tsVars, awVars, cpVars, mxVars, panelListVars>>

Gates ==
    \/ /\ UNCHANGED <<routeVars, mcpVars, proxyVars, promptVars>>
       /\ \/ part = "pairing" /\ PairingNext
          \/ part = "ticket" /\ TicketNext
          \/ part = "cookie" /\ CookieNext
    \/ part = "routes" /\ RoutesNext /\ UNCHANGED <<authVars, mcpVars, proxyVars, promptVars>>
    \/ part = "mcp" /\ McpNext /\ UNCHANGED <<authVars, routeVars, proxyVars, promptVars>>
    \/ part = "proxy" /\ ProxyNext /\ UNCHANGED <<authVars, routeVars, mcpVars, promptVars>>
    \/ part = "prompt" /\ PromptNext /\ UNCHANGED <<authVars, routeVars, mcpVars, proxyVars>>

Asking ==
    \/ part = "boot" /\ BootNext /\ UNCHANGED <<commandVars, dlVars, syVars>>
    \/ part = "commands" /\ CommandsNext /\ Calm /\ UNCHANGED <<bootVars, dlVars, syVars>>
    \/ part = "projects" /\ ProjectsNext
       /\ UNCHANGED <<shellVars, commands, bootVars, dlVars, syVars>>
    \/ part = "dialog" /\ DlNext /\ UNCHANGED <<bootVars, commandVars, syVars>>
    \/ part = "sync" /\ SyNext /\ UNCHANGED <<bootVars, commandVars, dlVars>>

Files ==
    \/ part = "file" /\ PfNext /\ UNCHANGED <<dgVars, elVars, toVars>>
    \/ part = "log" /\ DgNext /\ UNCHANGED <<pfVars, elVars, toVars>>
    \/ part = "errors" /\ ElNext /\ UNCHANGED <<pfVars, dgVars, toVars>>
    \/ part = "takeover" /\ ToNext /\ UNCHANGED <<pfVars, dgVars, elVars>>

Desk ==
    \/ part = "tray" /\ TsNext /\ UNCHANGED <<awVars, cpVars, mxVars, panelListVars>>
    \/ part = "windows" /\ AwNext /\ UNCHANGED <<tsVars, cpVars, mxVars, panelListVars>>
    \/ part = "compose" /\ CpNext /\ UNCHANGED <<tsVars, awVars, mxVars, panelListVars>>
    \/ part = "metrics" /\ MxNext /\ UNCHANGED <<tsVars, awVars, cpVars, panelListVars>>
    \/ part = "panels" /\ PanelsNext /\ UNCHANGED <<tsVars, awVars, cpVars, mxVars>>

Next ==
    /\ UNCHANGED part
    /\ \/ Gates /\ UNCHANGED <<userVars, fileVars, deskVars>>
       \/ Asking /\ UNCHANGED <<gateVars, fileVars, deskVars>>
       \/ Files /\ UNCHANGED <<gateVars, userVars, deskVars>>
       \/ Desk /\ UNCHANGED <<gateVars, userVars, fileVars>>

allEdges == <<part, gateVars, userVars, fileVars, deskVars>>
Spec == Init /\ [][Next]_allEdges

\* One part alone, for what is said of it: the commands, a compose block.
CommandsAlone == Init /\ part = "commands" /\ [][Next]_allEdges
ComposeAlone == Init /\ part = "compose" /\ [][Next]_allEdges

\* The type invariants of the parts.
EdgesTypeOK ==
    /\ AuthTypeOK /\ BootTypeOK /\ PfTypeOK /\ McpTypeOK /\ ProxyTypeOK /\ PromptTypeOK
    /\ DgTypeOK /\ ElTypeOK /\ DlTypeOK /\ ProjectsTypeOK /\ CommandsTypeOK /\ RoutesTypeOK
    /\ SyTypeOK /\ TsTypeOK /\ AwTypeOK /\ CpTypeOK /\ ToTypeOK /\ MxTypeOK /\ PanelsTypeOK

\* What may be had once is had once: a pairing code and a ticket let one client in, a request is
\* answered once, launchers started together leave one daemon serving, and a process's CPU time
\* is counted once.
OnceOnly == EachIsSpentOnce /\ AnsweredOnce /\ OneDaemonServes /\ UsageAddsUp

\* What was said keeps its order and is all there: messages through the proxy, rules of a prompt
\* as long as no chunk ends within an escape sequence, lines of the daemon's log, errors on disk
\* and on screen.
NothingIsMissed == SocketKeepsOrder /\ RulesFireInOrder /\ LogKeepsItsLines /\ ErrorsAreKept

\* What is said is true: by the dialog of a scan, by the icon in the tray, by a window that comes
\* up because a setting was turned on, by a stack that is reported ready, and by a page's panels,
\* in so far as PanelsMatch says it of them.
WhatIsSaidIsTrue ==
    /\ DialogTellsTheTruth /\ IconIsKnown /\ TrayComes /\ PopsOnlyWhenTurned /\ StackIsReady
    /\ PanelsMatch

\* What the user chose and added is there again after every reload, edit, crash and launch, and
\* a restore has the texts that were found in the files taken over, but for a file that was
\* written although its backup had failed.
ProjectsAreKept == ChoicesLast /\ ShownComesBack /\ RestoreBringsBack

\* The user decides: nothing runs that no one started or switched on, whoever loads what, no
\* setting of this machine alone goes to another or comes from one, and a window comes up in the
\* shape it was last given.
UserDecides == LaunchFollowsChoices /\ AddsWithoutRunning /\ OwnStays /\ UserSizeStays
================================================================================
