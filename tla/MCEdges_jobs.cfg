SPECIFICATION ComposeAlone
CONSTANTS
  MaxPending = 2
  MaxAttempts = 2
  MaxFailures = 3
  PairingTtl = 2
  FailureWindow = 2
  TicketTtl = 1
  MaxStreamTickets = 1
  MaxOpened = 3
  MaxMinted = 2
  MaxClock = 3
  l1 = l1
  l2 = l2
  l3 = l3
  Launchers = {l1, l2, l3}
  BootWait = 3
  SharedWait = 4
  LockStale = 6
  MaxBoot = 2
  MaxTime = 8
  LocalIds = {"a", "b", "c"}
  FirstIds = {"a", "b"}
  MaxEdits = 2
  MaxTyped = 1
  i1 = i1
  i2 = i2
  Ids = {i1, i2}
  MaxInFlight = 2
  MaxRead = 4
  MaxSent = 3
  MaxMoves = 1
  Letters = {"a", "b", "esc", "m"}
  Csi = "esc"
  Sgr = "m"
  RuleLists <- PromptRules
  Chunks <- PromptChunks
  MaxBuffer = 4
  MaxFed = 3
  KEEP = 3
  MaxBytes = 1
  MaxLogged = 7
  Prints = {"f1", "f2"}
  Failing = {"p"}
  PrintOf <- OfOne
  MaxErrors = 1
  MaxNow = 4
  Folders = {"a"}
  MaxOpens = 2
  MaxScans = 4
  MaxDrops = 2
  MaxAsks = 2
  Paths = {"x"}
  Locals = {"a", "b"}
  Autostart = {"a"}
  MaxCrashes = 1
  MaxChanges = 2
  Shells = {"s1", "s2"}
  MaxCommands = 2
  ProjectIds = {"p1", "load"}
  ProcessIds = {"p1.web", "start-all"}
  EntryIds = {"web", "star", "processes"}
  OtherIds = {"r1"}
  Callers = {"c1", "c2"}
  MaxRequests = 3
  MaxEngines = 2
  TrayHosts = {h1, h2}
  NoHost = NoHost
  TrayDaemons = {d1, d2}
  MaxTroubles = 1
  Windows = {w1, w2}
  Panels = {p1}
  MaxDeeds = 5
  NoKey = NoKey
  MaxService = 3
  Jobs = {3}
  Checked = {1}
  Publishers = {1, 2}
  Key <- Images
  MaxContainerEvents = 0
  MaxPrepares = 2
  MaxTyping = 1
  Pids = {1, 2}
  Nobody = Nobody
  FromBoot = FromBoot
  MaxUse = 3
  MaxBirths = 3
  Listed <- TwoProjects
  Joining = {"r"}
  MaxAsked = 2
  MaxOthers = 1
CHECK_DEADLOCK FALSE
INVARIANTS DatabaseIsUp
