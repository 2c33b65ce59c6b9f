--------------------------------- MODULE Routes ---------------------------------
(* From a call of one of the daemon's clients to the handler that runs: the route table all   *)
(* of them share (shared/routes.ts), the calls of the GUI (web/src/api.ts), of the MCP tools  *)
(* (mcp.ts) and of the command line (cli.ts), the gates of http/index.ts and the registrations *)
(* of http/*-routes.ts, which Hono tries in their order. Paths are below /api.                *)
EXTENDS Naturals, Sequences, FiniteSets

CONSTANTS ProjectIds, ProcessIds, EntryIds, OtherIds  \* ids that occur in a path

\* No id is "." or "..", which a URL folds away (a local id may be: see the README).
ASSUME RoutesAssumption == {".", ".."} \cap (ProjectIds \cup ProcessIds \cup EntryIds) = {}

\* ---- the table: the path of each route; a star stands for an id or an action ----
Fixed ==
    [health |-> <<"health">>, shutdown |-> <<"shutdown">>, settings |-> <<"settings">>,
     portableWindow |-> <<"portable-window">>, updates |-> <<"updates">>,
     updatesApply |-> <<"updates", "apply">>, errors |-> <<"errors">>,
     errorsClear |-> <<"errors", "clear">>, errorsDismiss |-> <<"errors", "dismiss">>,
     safeMode |-> <<"safe-mode">>, safeModeExit |-> <<"safe-mode", "exit">>,
     openInEditor |-> <<"open-in-editor">>, alertRules |-> <<"alerts", "rules">>,
     alertEvents |-> <<"alerts", "events">>, alertEventsClear |-> <<"alerts", "events", "clear">>,
     authMe |-> <<"auth", "me">>, authLogout |-> <<"auth", "logout">>,
     settingsSync |-> <<"settings", "sync">>, settingsSyncPull |-> <<"settings", "sync", "pull">>,
     settingsSyncPush |-> <<"settings", "sync", "push">>,
     pairingStatus |-> <<"pairing", "status">>, pairingRequest |-> <<"pairing", "request">>,
     pairingVerify |-> <<"pairing", "verify">>, pairingCodes |-> <<"pairing", "codes">>,
     pairingClients |-> <<"pairing", "clients">>,
     pairingStreamTicket |-> <<"pairing", "stream-ticket">>,
     projects |-> <<"projects">>, projectsLoad |-> <<"projects", "load">>,
     projectsScan |-> <<"projects", "scan">>, projectsIgnored |-> <<"projects", "ignored">>,
     projectsIgnore |-> <<"projects", "ignore">>, projectsUnignore |-> <<"projects", "unignore">>,
     projectsClone |-> <<"projects", "clone">>, projectsScaffold |-> <<"projects", "scaffold">>,
     projectsBrowse |-> <<"projects", "browse">>,
     projectsBrowseFolder |-> <<"projects", "browse-folder">>,
     projectsSuggestDest |-> <<"projects", "suggest-dest">>,
     projectsTakeOver |-> <<"projects", "take-over">>,
     projectsRestoreAutostart |-> <<"projects", "restore-autostart">>,
     processes |-> <<"processes">>, startAll |-> <<"processes", "start-all">>,
     stopAll |-> <<"processes", "stop-all">>, runtimeServices |-> <<"runtime-services">>,
     stream |-> <<"stream">>, browserClient |-> <<"browser", "client.js">>,
     browserConnect |-> <<"browser", "connect">>, browserReply |-> <<"browser", "reply">>,
     browserTabs |-> <<"browser", "tabs">>, browserQuery |-> <<"browser", "query">>]
Parametric ==
    [processAction |-> <<"processes", "*", "*">>, processLogs |-> <<"processes", "*", "logs">>,
     processLogFile |-> <<"processes", "*", "logfile">>,
     processFreePort |-> <<"processes", "*", "free-port">>,
     processDiagnose |-> <<"processes", "*", "diagnose">>,
     processShortcut |-> <<"processes", "*", "shortcut">>,
     pairingClient |-> <<"pairing", "clients", "*">>, alertRule |-> <<"alerts", "rules", "*">>,
     projectUpdate |-> <<"projects", "*">>, projectAction |-> <<"projects", "*", "*">>,
     projectProcesses |-> <<"projects", "*", "processes">>,
     projectProcess |-> <<"projects", "*", "processes", "*">>,
     projectProcessStar |-> <<"projects", "*", "processes", "*", "star">>,
     projectShortcut |-> <<"projects", "*", "shortcut">>]
PatternOf(r) == IF r \in DOMAIN Fixed THEN Fixed[r] ELSE Parametric[r]

Stars(p) == {i \in DOMAIN p : p[i] = "*"}
\* The n-th star of a pattern takes the n-th of the values.
build(p, vs) ==
    LET nth(i) == Cardinality({j \in Stars(p) : j <= i})
    IN  [i \in DOMAIN p |-> IF i \in Stars(p) THEN vs[nth(i)] ELSE p[i]]
MatchesPath(path, p) == Len(path) = Len(p) /\ \A i \in DOMAIN p \ Stars(p) : path[i] = p[i]

\* ---- the registrations, in their order ----
Realtime == << <<"GET", "stream">> >>
System ==
    << <<"GET", "health">>, <<"GET", "updates">>, <<"POST", "updatesApply">>,
       <<"POST", "shutdown">>, <<"GET", "settings">>, <<"PUT", "settings">>,
       <<"POST", "portableWindow">>,
       <<"GET", "errors">>, <<"POST", "errorsClear">>, <<"POST", "errorsDismiss">>,
       <<"GET", "safeMode">>, <<"POST", "safeModeExit">>, <<"POST", "openInEditor">> >>
ProjectRoutes ==
    << <<"GET", "projects">>, <<"POST", "projectsBrowse">>, <<"POST", "projectsLoad">>,
       <<"POST", "projectsScaffold">>, <<"POST", "projectsTakeOver">>,
       <<"POST", "projectsRestoreAutostart">>, <<"POST", "projectsClone">>,
       <<"POST", "projectsBrowseFolder">>, <<"GET", "projectsSuggestDest">>,
       <<"POST", "projectsScan">>, <<"GET", "projectsIgnored">>, <<"POST", "projectsIgnore">>,
       <<"POST", "projectsUnignore">> >>
\* What if: the actions of a project are registered before its shortcut.
ActionsFirst ==
    << <<"PUT", "projectUpdate">>, <<"POST", "projectProcesses">>, <<"PUT", "projectProcess">>,
       <<"DELETE", "projectProcess">>, <<"POST", "projectProcessStar">>,
       <<"POST", "projectAction">>, <<"POST", "projectShortcut">>,
       <<"GET", "processes">>, <<"GET", "processLogs">>, <<"GET", "processLogFile">>,
       <<"POST", "startAll">>, <<"POST", "stopAll">>, <<"POST", "processFreePort">>,
       <<"GET", "runtimeServices">>, <<"GET", "processDiagnose">>, <<"POST", "processShortcut">>,
       <<"POST", "processAction">> >>
ProcessRoutes ==
    << <<"PUT", "projectUpdate">>, <<"POST", "projectProcesses">>, <<"PUT", "projectProcess">>,
       <<"DELETE", "projectProcess">>, <<"POST", "projectProcessStar">>,
       <<"POST", "projectShortcut">>, <<"POST", "projectAction">>,
       <<"GET", "processes">>, <<"GET", "processLogs">>, <<"GET", "processLogFile">>,
       <<"POST", "startAll">>, <<"POST", "stopAll">>, <<"POST", "processFreePort">>,
       <<"GET", "runtimeServices">>, <<"GET", "processDiagnose">>, <<"POST", "processShortcut">>,
       <<"POST", "processAction">> >>
ConnectionsRoutes ==
    << <<"GET", "authMe">>, <<"POST", "authLogout">>, <<"GET", "settingsSync">>,
       <<"PUT", "settingsSync">>, <<"POST", "settingsSyncPull">>, <<"POST", "settingsSyncPush">> >>
AlertRoutes ==
    << <<"GET", "alertRules">>, <<"POST", "alertRules">>, <<"PUT", "alertRule">>,
       <<"DELETE", "alertRule">>, <<"GET", "alertEvents">>, <<"POST", "alertEventsClear">> >>
BrowserRoutes ==
    << <<"GET", "browserClient">>, <<"GET", "browserConnect">>, <<"POST", "browserReply">>,
       <<"GET", "browserTabs">>, <<"POST", "browserQuery">> >>
PairingRoutes ==
    << <<"GET", "pairingStatus">>, <<"POST", "pairingRequest">>, <<"POST", "pairingVerify">>,
       <<"GET", "pairingCodes">>, <<"GET", "pairingClients">>, <<"POST", "pairingStreamTicket">>,
       <<"DELETE", "pairingClient">> >>
Registered ==
    Realtime \o System \o ProjectRoutes \o ProcessRoutes \o ConnectionsRoutes \o AlertRoutes
        \o BrowserRoutes \o PairingRoutes

\* ---- the calls: a method, a route and what its stars may be ----
Get(r) == <<"GET", r, << >> >>
Post(r) == <<"POST", r, << >> >>
OnProcess(as) == <<"POST", "processAction", <<ProcessIds, as>> >>
OnProject(as) == <<"POST", "projectAction", <<ProjectIds, as>> >>
Entry(m) == <<m, "projectProcess", <<ProjectIds, EntryIds>> >>
StarCall == <<"POST", "projectProcessStar", <<ProjectIds, EntryIds>> >>
Rule(m) == <<m, "alertRule", <<OtherIds>> >>

BrowserTools == {Get("browserTabs"), Post("browserQuery")}
ProjectTools ==
    {Get("projects"), Post("projectsLoad"), Post("projectsClone"), Post("projectsScan"),
     <<"PUT", "projectUpdate", <<ProjectIds>> >>, OnProject({"remove", "start", "stop"}),
     Get("processes"), Get("runtimeServices")}
EntryTools ==
    {<<"POST", "projectProcesses", <<ProjectIds>> >>, Entry("PUT"), Entry("DELETE"), StarCall}
ProcessTools ==
    {<<"POST", "processShortcut", <<ProcessIds>> >>, <<"POST", "projectShortcut", <<ProjectIds>> >>,
     OnProcess({"start", "stop", "restart"}), Post("startAll"), Post("stopAll"),
     <<"GET", "processLogs", <<ProcessIds>> >>, <<"GET", "processLogFile", <<ProcessIds>> >>,
     <<"POST", "processFreePort", <<ProcessIds>> >>}
ErrorTools == {Get("errors"), Post("openInEditor"), Post("errorsClear")}
AlertTools ==
    {Get("alertRules"), Post("alertRules"), Rule("DELETE"), Get("alertEvents"),
     Post("alertEventsClear")}
ToggleTools ==
    {OnProcess({"enable", "disable"}), OnProject({"enable", "disable"}),
     <<"GET", "processDiagnose", <<ProcessIds>> >>, Post("projectsTakeOver")}
Tools ==
    BrowserTools \cup ProjectTools \cup EntryTools \cup ProcessTools \cup ErrorTools
        \cup AlertTools \cup ToggleTools

GuiReads ==
    {Get(r) : r \in {"projects", "errors", "alertRules", "alertEvents", "pairingStatus", "settings",
                     "updates", "safeMode", "projectsSuggestDest", "projectsIgnored",
                     "settingsSync", "authMe"}}
        \cup {<<"GET", r, <<ProcessIds>> >> : r \in {"processLogs", "processLogFile"}}
GuiActions ==
    {OnProcess({"start", "stop", "restart", "enable", "disable"}), Post("startAll"),
     Post("stopAll"), Post("shutdown"), OnProject({"start", "stop", "enable", "disable"}),
     Post("errorsClear"), Post("errorsDismiss"), Post("openInEditor")}
GuiPairing == {Post("pairingRequest"), Post("pairingVerify"), Post("pairingStreamTicket")}
GuiAlerts == {Post("alertRules"), Rule("PUT"), Rule("DELETE"), Post("alertEventsClear")}
GuiSettings ==
    {<<"POST", "processFreePort", <<ProcessIds>> >>, Post("updatesApply"), Post("safeModeExit"),
     <<"PUT", "settings", << >> >>, Post("portableWindow"),
     <<"POST", "processShortcut", <<ProcessIds>> >>, <<"POST", "projectShortcut", <<ProjectIds>> >>}
GuiProjects ==
    {Post(r) : r \in {"projectsBrowse", "projectsLoad", "projectsClone", "projectsScaffold",
                      "projectsTakeOver", "projectsBrowseFolder", "projectsScan",
                      "projectsIgnore", "projectsUnignore"}}
        \cup {OnProject({"remove"}), <<"PUT", "projectUpdate", <<ProjectIds>> >>,
              <<"POST", "projectProcesses", <<ProjectIds>> >>, Entry("PUT"), Entry("DELETE"),
              StarCall}
GuiSync ==
    {<<"PUT", "settingsSync", << >> >>, Post("settingsSyncPull"), Post("settingsSyncPush"),
     Post("authLogout")}
Gui ==
    GuiReads \cup GuiActions \cup GuiPairing \cup GuiAlerts \cup GuiSettings \cup GuiProjects
        \cup GuiSync

CliPairing ==
    {Get("pairingCodes"), Get("pairingClients"), <<"DELETE", "pairingClient", <<OtherIds>> >>}
CliAlerts ==
    {Get("alertRules"), Post("alertRules"), Rule("DELETE"), Get("alertEvents"),
     Post("alertEventsClear")}
CliVerbs ==
    {Post("shutdown"), Get("projects"), Get("processes"), Post("startAll"), Post("stopAll"),
     OnProcess({"start", "stop", "restart", "enable", "disable"}), OnProject({"start"}),
     Post("projectsLoad"), Post("projectsScan"), Post("projectsScaffold"), Post("portableWindow")}
Cli == CliPairing \cup CliAlerts \cup CliVerbs

Values(sets) ==
    {vs \in [DOMAIN sets -> UNION {sets[i] : i \in DOMAIN sets}] :
        \A i \in DOMAIN sets : vs[i] \in sets[i]}

\* ---- a request on its way ----
VARIABLES from,     \* who asks
          request,  \* method and path
          meant,    \* the registration the call was written for, and the values of its stars
          required, \* the daemon enforces local auth
          knows,    \* the client has a credential
          hop,      \* "guard", "auth", then the number of the registration to be tried
          reached   \* the registration whose handler ran, or what turned the request away

routeVars == <<from, request, meant, required, knows, hop, reached>>

CallsOf == [gui |-> Gui, mcp |-> Tools, cli |-> Cli, page |-> Gui]
PROJECT_ACTIONS == {"start", "stop", "enable", "disable", "remove"}
PROCESS_ACTIONS == {"start", "stop", "restart", "enable", "disable"}
OPEN_ROUTES == {"health", "pairingStatus", "pairingRequest", "pairingVerify"}

\* The command line and the MCP server read the cookie file; a browser has its key if it was
\* paired, and a page of another site has none.
RoutesInit ==
    /\ from \in {"gui", "mcp", "cli", "page"} /\ required \in BOOLEAN
    /\ knows \in (IF from = "gui" THEN BOOLEAN ELSE {from # "page"})
    /\ \E call \in CallsOf[from] : \E vs \in Values(call[3]) :
           /\ request = <<call[1], build(PatternOf(call[2]), vs)>>
           /\ meant = <<call[1], call[2], vs>>
    /\ hop = "guard" /\ reached = "nothing yet"

\* What a browser says of a page of another site turns it away; tools say nothing and pass.
loopbackGuard ==
    /\ hop = "guard" /\ UNCHANGED <<from, request, meant, required, knows>>
    /\ IF from = "page" THEN hop' = "over" /\ reached' = "forbidden"
       ELSE hop' = "auth" /\ UNCHANGED reached

localAuth ==
    /\ hop = "auth" /\ UNCHANGED <<from, request, meant, required, knows>>
    /\ IF required /\ ~knows /\ request[2] \notin {Fixed[r] : r \in OPEN_ROUTES}
       THEN hop' = "over" /\ reached' = "unauthorized"
       ELSE hop' = "routes" /\ UNCHANGED reached

\* The first registration that matches takes the request.
Fits(i) == request[1] = Registered[i][1] /\ MatchesPath(request[2], PatternOf(Registered[i][2]))
Routed ==
    /\ hop = "routes" /\ hop' = "over" /\ UNCHANGED <<from, request, meant, required, knows>>
    /\ LET fits == {i \in DOMAIN Registered : Fits(i)}
       IN  IF fits = {} THEN reached' = "not found"
           ELSE \E i \in fits : (\A j \in fits : i <= j) /\ reached' = Registered[i][2]

RoutesNext == loopbackGuard \/ localAuth \/ Routed
RoutesSpec == RoutesInit /\ [][RoutesNext]_routeVars

RoutesTypeOK ==
    /\ hop \in {"guard", "auth", "routes", "over"} /\ {required, knows} \subseteq BOOLEAN
    /\ reached \in {"nothing yet", "forbidden", "unauthorized", "not found"} \cup
                   {Registered[i][2] : i \in DOMAIN Registered}

\* Whatever the ids, each call of the GUI, of an agent and of the command line runs the handler
\* it was written for, with an action that handler knows, unless the daemon wants a credential
\* the client does not have; a browser that is to be paired can be; another site reaches nothing.
CallsReachTheirHandlers ==
    hop = "over" =>
        /\ from = "page" => reached = "forbidden"
        /\ from # "page" /\ (knows \/ ~required \/ meant[2] \in OPEN_ROUTES) => reached = meant[2]
        /\ required /\ ~knows /\ meant[2] \notin OPEN_ROUTES => reached # meant[2]
        /\ meant[2] = "projectAction" => meant[3][2] \in PROJECT_ACTIONS
        /\ meant[2] = "processAction" => meant[3][2] \in PROCESS_ACTIONS
================================================================================
