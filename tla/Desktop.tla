-------------------------------- MODULE Desktop --------------------------------
(* How a tray host comes up (misc/tray-host-native/src: main.rs, tray/startup.rs, icon.rs,     *)
(* wndproc.rs) and how a daemon sees to it that there is one (server/src/tray-bootstrap.mjs,   *)
(* index.ts). Hosts are started by shortcuts and by daemons; a mutex lets one in, the others   *)
(* open its window or say that it is starting. The mutex, the taskbar and its broadcast, the   *)
(* process table and the disk are external. Config as in misc/DevWebUI-Tray.json: a daemon     *)
(* that already serves is attached to, and no hint is shown for one that does not serve.       *)
(* Below, as a part of its own: the app's windows.                                             *)
EXTENDS Naturals, FiniteSets

CONSTANTS TrayHosts,     \* processes of the host
          NoHost,        \* none of them
          TrayDaemons,   \* processes of the daemon
          MaxTroubles    \* how often the taskbar goes and the user changes his mind on the icon

ASSUME TrayStartAssumption == NoHost \notin TrayHosts /\ MaxTroubles \in Nat

VARIABLES
    compiled,    \* the build is a single executable
    hostAt,      \* each host: "none", "claim", "look", "prepare", "icon", "wait", "loop"; "box", a
                 \* message the user has yet to close; "gone"
    mutex,       \* the host that has it, or NoHost
    daemonAt,    \* each daemon: "none", "boot"; serving: "place", "probe", "decide", "up"; "dead"
    probed,      \* what its look at the process table said
    toolkit,     \* the files of the host on disk
    hideIcon,    \* the setting
    iconShown,   \* hosts with ICON_SHOWN
    taskbar, shell, told,  \* there is one, the icons in it, hosts its broadcast has yet to reach
    hidden, ended, troubles  \* the icon was ever hidden; hosts that quit or failed; faults

hostVars == <<hostAt, mutex, ended>>
iconVars == <<iconShown, taskbar, shell, told>>
tsVars == <<compiled, hostVars, daemonAt, probed, toolkit, hideIcon, iconVars, hidden, troubles>>

Whole == {"exe", "config"}
Serving == \E d \in TrayDaemons : daemonAt[d] \in {"place", "probe", "decide", "up"}
Process(h) == hostAt[h] \notin {"none", "gone"}

TsInit ==
    /\ compiled \in BOOLEAN /\ toolkit \in (IF compiled THEN {{}, Whole} ELSE {Whole})
    /\ hostAt = [h \in TrayHosts |-> "none"] /\ mutex = NoHost
    /\ daemonAt = [d \in TrayDaemons |-> "none"] /\ probed = [d \in TrayDaemons |-> "none"]
    /\ hideIcon = FALSE /\ iconShown = {} /\ taskbar \in BOOLEAN /\ shell = {} /\ told = {}
    /\ hidden = FALSE /\ ended = {} /\ troubles = 0

HostGoes(h, place) == hostAt' = [hostAt EXCEPT ![h] = place]
\* A shortcut, or a window launcher in the background; a host without its config only says so.
Launches(h) ==
    /\ hostAt[h] = "none" /\ "exe" \in toolkit
    /\ HostGoes(h, IF toolkit = Whole THEN "claim" ELSE "box")
    /\ ended' = IF toolkit = Whole THEN ended ELSE ended \cup {h}
    /\ UNCHANGED <<compiled, mutex, daemonAt, probed, toolkit, hideIcon, iconVars, hidden,
                   troubles>>

\* What if: a second host is let in as long as the first is not up.
claimsEarly(h) ==
    /\ hostAt[h] = "claim" /\ \A g \in TrayHosts : g = mutex => hostAt[g] # "loop"
    /\ mutex' = h /\ HostGoes(h, "look")
claim_single_instance(h) ==
    /\ hostAt[h] = "claim" /\ mutex = NoHost
    /\ mutex' = h /\ HostGoes(h, "look")
\* The others open the window of what answers or say that it is starting, unless in the background.
open_running_host(h) ==
    /\ hostAt[h] = "claim" /\ mutex # NoHost /\ UNCHANGED mutex
    /\ HostGoes(h, "gone") \/ HostGoes(h, "box")
\* Attached to what serves, or after the first run's steps and the start of a daemon.
LooksForDaemon(h) ==
    /\ hostAt[h] = "look" /\ HostGoes(h, IF Serving THEN "icon" ELSE "prepare")
    /\ UNCHANGED mutex
ClosesBox(h) ==
    /\ hostAt[h] = "box" /\ HostGoes(h, "gone")
    /\ mutex' = IF mutex = h THEN NoHost ELSE mutex
HostSteps(h) ==
    /\ claim_single_instance(h) \/ open_running_host(h) \/ LooksForDaemon(h) \/ ClosesBox(h)
    /\ UNCHANGED <<compiled, ended, daemonAt, probed, toolkit, hideIcon, iconVars, hidden,
                   troubles>>

bootstrap_and_spawn_daemon(h) ==
    /\ hostAt[h] = "prepare"
    /\ \/ \E d \in TrayDaemons :
              /\ daemonAt[d] = "none" /\ daemonAt' = [daemonAt EXCEPT ![d] = "boot"]
              /\ HostGoes(h, "icon") /\ UNCHANGED ended
       \/ HostGoes(h, "box") /\ ended' = ended \cup {h} /\ UNCHANGED daemonAt
    /\ UNCHANGED <<compiled, mutex, probed, toolkit, hideIcon, iconVars,
                   hidden, troubles>>

\* What if: an icon that was asked for is taken for shown.
Assumed(h) == ~hideIcon /\ iconShown' = iconShown \cup {h} /\ shell' \in {shell, shell \cup {h}}
\* The icon is there when the shell says so; it may refuse, and does without a taskbar.
Added(h) ==
    /\ ~hideIcon
    /\ \/ taskbar /\ iconShown' = iconShown \cup {h} /\ shell' = shell \cup {h}
       \/ iconShown' = iconShown \ {h} /\ UNCHANGED shell
sync_icon_visibility(h, shown) ==
    \/ hideIcon /\ shown /\ shell' = shell \ {h} /\ iconShown' = iconShown \ {h}
    \/ hideIcon /\ ~shown /\ UNCHANGED shell /\ iconShown' = iconShown \ {h}
    \/ ~hideIcon /\ ~shown /\ Added(h)
    \/ ~hideIcon /\ shown /\ UNCHANGED <<iconShown, shell>>
create_tray_window(h) ==
    /\ hostAt[h] = "icon" /\ HostGoes(h, "wait") /\ sync_icon_visibility(h, FALSE)
    /\ UNCHANGED <<taskbar, told, mutex, ended>>
\* The wait ends, with a URL the window is opened on or without.
run_tray(h) ==
    /\ hostAt[h] = "wait" /\ HostGoes(h, "loop")
    /\ UNCHANGED <<iconVars, mutex, ended>>
\* In the loop: the health tick tries again, and the broadcast says that the icon went.
Ticks(h) ==
    /\ hostAt[h] = "loop" /\ sync_icon_visibility(h, h \in iconShown)
    /\ UNCHANGED <<taskbar, told, hostVars>>
on_taskbar_created(h) ==
    /\ hostAt[h] = "loop" /\ h \in told /\ told' = told \ {h} /\ sync_icon_visibility(h, FALSE)
    /\ UNCHANGED <<taskbar, hostVars>>
Quits(h) ==
    /\ hostAt[h] = "loop" /\ HostGoes(h, "gone") /\ mutex' = NoHost /\ ended' = ended \cup {h}
    /\ shell' = shell \ {h} /\ iconShown' = iconShown \ {h} /\ told' = told \ {h}
    /\ UNCHANGED taskbar
IconSteps(h) ==
    /\ \/ create_tray_window(h) \/ run_tray(h) \/ Ticks(h) \/ on_taskbar_created(h) \/ Quits(h)
    /\ UNCHANGED <<compiled, daemonAt, probed, toolkit, hideIcon, hidden, troubles>>

\* Explorer ends, its icons with it; a new one tells every window there is.
Troubles == troubles < MaxTroubles /\ troubles' = troubles + 1
ExplorerEnds ==
    /\ taskbar /\ taskbar' = FALSE /\ shell' = {} /\ Troubles
    /\ UNCHANGED <<compiled, hostVars, daemonAt, probed, toolkit, hideIcon, iconShown, told,
                   hidden>>
ExplorerComes ==
    /\ ~taskbar /\ taskbar' = TRUE
    /\ told' = {h \in TrayHosts : hostAt[h] \in {"wait", "loop"}}
    /\ UNCHANGED <<compiled, hostVars, daemonAt, probed, toolkit, hideIcon, iconShown, shell,
                   hidden, troubles>>
PutHideIcon ==
    /\ Serving /\ hideIcon' = ~hideIcon /\ hidden' = TRUE /\ Troubles
    /\ UNCHANGED <<compiled, hostVars, daemonAt, probed, toolkit, iconVars>>

---------------------------------------------------------------------------------------
\* A daemon is started by hand, too; the second that boots lets the first serve.
Starts(d) == daemonAt[d] = "none" /\ daemonAt' = [daemonAt EXCEPT ![d] = "boot"]
DaemonBootsUp(d) ==
    /\ daemonAt[d] = "boot"
    /\ daemonAt' = [daemonAt EXCEPT ![d] = IF Serving THEN "dead" ELSE "place"]
DaemonDies(d) == daemonAt[d] \notin {"none", "dead"} /\ daemonAt' = [daemonAt EXCEPT ![d] = "dead"]
DaemonSteps(d) ==
    /\ Starts(d) \/ DaemonBootsUp(d) \/ DaemonDies(d)
    /\ probed' = [probed EXCEPT ![d] = "none"]
    /\ UNCHANGED <<compiled, hostVars, toolkit, hideIcon, iconVars, hidden, troubles>>

\* Nothing is written where all of it lies already or where nothing is embedded; the config comes
\* last, and only when the rest is there.
materializeTrayToolkit(d) ==
    /\ daemonAt[d] = "place" /\ daemonAt' = [daemonAt EXCEPT ![d] = "probe"]
    /\ toolkit' \in (IF toolkit = Whole \/ ~compiled THEN {toolkit}
                     ELSE {toolkit, toolkit \cup {"exe"}, Whole})
    /\ UNCHANGED <<compiled, hostVars, probed, hideIcon, iconVars, hidden, troubles>>

\* What cheap facts rule out needs no look at the process table.
Structural == compiled /\ toolkit = Whole /\ ~hideIcon
trayHostProcessState(d) ==
    /\ daemonAt[d] = "probe"
    /\ IF Structural
       THEN /\ daemonAt' = [daemonAt EXCEPT ![d] = "decide"]
            /\ \E said \in {"unknown", IF \E h \in TrayHosts : Process(h) THEN "yes" ELSE "no"} :
                   probed' = [probed EXCEPT ![d] = said]
       ELSE daemonAt' = [daemonAt EXCEPT ![d] = "up"] /\ UNCHANGED probed
    /\ UNCHANGED <<compiled, hostVars, toolkit, hideIcon, iconVars, hidden, troubles>>

\* What if: a look that told nothing is taken for a host that runs.
IsMissing(d) == probed[d] = "no"
\* One that could not be told apart is started: the mutex keeps a second one out.
Missing(d) == probed[d] # "yes"
startTrayHostIfMissing(d) ==
    /\ daemonAt[d] = "decide" /\ daemonAt' = [daemonAt EXCEPT ![d] = "up"]
    /\ probed' = [probed EXCEPT ![d] = "none"]
    /\ IF Missing(d) THEN \E h \in TrayHosts : hostAt[h] = "none" /\ HostGoes(h, "claim")
       ELSE UNCHANGED hostAt
    /\ UNCHANGED <<compiled, mutex, ended, toolkit, hideIcon, iconVars, hidden,
                   troubles>>

TsNext ==
    \/ \E h \in TrayHosts :
           \/ Launches(h)
           \/ HostSteps(h) \/ bootstrap_and_spawn_daemon(h) \/ IconSteps(h)
    \/ ExplorerEnds \/ ExplorerComes \/ PutHideIcon
    \/ \E d \in TrayDaemons :
           \/ DaemonSteps(d) \/ materializeTrayToolkit(d) \/ trayHostProcessState(d)
           \/ startTrayHostIfMissing(d)
TsSpec == TsInit /\ [][TsNext]_tsVars

TsTypeOK ==
    /\ hostAt \in [TrayHosts -> {"none", "claim", "look", "prepare", "icon", "wait", "loop", "box",
                                 "gone"}]
    /\ daemonAt \in [TrayDaemons -> {"none", "boot", "place", "probe", "decide", "up", "dead"}]
    /\ toolkit \subseteq Whole /\ ended \cup shell \cup told \cup iconShown \subseteq TrayHosts
    /\ mutex \in TrayHosts \cup {NoHost} /\ (mutex # NoHost => Process(mutex))

\* A host past the claim is the one: no second icon, no second daemon beside its own.
\* An icon a host takes for shown is in the taskbar, or there is none, or the broadcast that says
\* so is on its way: ICON_SHOWN never keeps the health tick from adding a lost icon again.
IconIsKnown ==
    /\ \A h \in TrayHosts : hostAt[h] \in {"look", "prepare", "icon", "wait", "loop"} => mutex = h
    /\ taskbar => iconShown \subseteq shell \cup told

\* A compiled daemon that is up has a host beside it or on its way, whatever the look at the
\* process table told, unless its files are missing, the icon was hidden or the host ended.
TrayComes ==
    /\ compiled /\ toolkit = Whole /\ ~hidden /\ ended = {}
    /\ \E d \in TrayDaemons : daemonAt[d] = "up"
    => \E h \in TrayHosts : Process(h) /\ hostAt[h] # "box"
-------------------------------------------------------------------------------
(* The app's own windows: who opens them and how large. The daemon's route (http/core.ts,     *)
(* portable-window.mjs, window-size.ts) and the tray (misc/tray-host-native/src/browser.rs)   *)
(* open a view in Chromium with a size and a hint for the page, which corrects itself         *)
(* (web/src/lib/window-size-hint.ts); FocusView.vue and Settings.vue ask the route. Chromium  *)
(* and the sizes it saves per view are external. A page has loaded before anything else        *)
(* happens to its window, and the profile's directory can be made.                            *)

CONSTANTS Windows, Panels, MaxDeeds
ASSUME AppWindowAssumption == IsFiniteSet(Windows) /\ MaxDeeds \in Nat

VARIABLES
    window,     \* each window: Shut, or the view it shows and its shape
    placed,     \* what Chromium has placed for each view
    shapeChosen,  \* the shape the user last gave it, as far as that is still known
    portable,   \* the setting
    panel,      \* settings panels: "shut", "loading", "open", "saving", "saved"
    was, is, store,  \* portableMode: as the panel loaded it, as it stands there, in the store
    touched,    \* the user changed it in the panel
    asking,     \* launcher windows that asked for the dashboard
    deeds

awVars == <<window, placed, shapeChosen, portable, panel, was, is, store, touched, asking, deeds>>
panelVars == <<portable, panel, was, is, store, touched>>

Shut == [view |-> "none", shape |-> "none"]
Views == {"dashboard", "focus"}
\* A view's first-run size goes by its name; a sliver or a flat rectangle is no user's size.
Usable == Views \cup {"mine", "max"}
Open == {w \in Windows : window[w] # Shut}

AwInit ==
    /\ window = [w \in Windows |-> Shut] /\ placed = [v \in Views |-> "none"]
    /\ shapeChosen = [v \in Views |-> "none"] /\ portable \in BOOLEAN
    /\ panel = [p \in Panels |-> "shut"] /\ touched = {} /\ asking = {} /\ deeds = 0
    /\ was = [p \in Panels |-> FALSE] /\ is = [p \in Panels |-> FALSE]
    /\ store = [p \in Panels |-> FALSE]

\* Is there a placed size? The daemon asks for an area, the tray for one that could be a user's.
hasRememberedBounds(v) == placed[v] \notin {"none", "flat"}
remembered_placement(v) == placed[v] \in Usable
windowSizeArg(v, by) ==
    IF by = "tray" THEN ~remembered_placement(v) ELSE ~hasRememberedBounds(v)

\* What if: the hint of a maximised window is the size it would restore to.
HintsAlways(v) == IF placed[v] \in Usable \ {"max"} THEN placed[v] ELSE v
\* What the page is told to be; a maximised window is left alone.
windowSizeHintFor(v) ==
    IF placed[v] = "max" THEN "none" ELSE IF placed[v] \in Usable THEN placed[v] ELSE v

\* Chromium: a window forwarded to a running instance has the shape of one that is there; a first
\* one has the size it is given, else the placed one, else nearly all of the screen.
Shapes(v, by) ==
    IF Open # {} THEN {window[w].shape : w \in Open}
    ELSE IF windowSizeArg(v, by) THEN {v}
    ELSE IF placed[v] \in {"none", "flat"} THEN {"wide"} ELSE {placed[v]}

\* The page obeys its hint, and Chromium saves what it does.
applyWindowSizeHint(w, v, shape) ==
    LET hint == windowSizeHintFor(v) IN
    /\ window' = [window EXCEPT
                      ![w] = [view |-> v, shape |-> IF hint = "none" THEN shape ELSE hint]]
    /\ placed' = IF hint \in {"none", shape} THEN placed ELSE [placed EXCEPT ![v] = hint]

OpensView(w, v, by) ==
    /\ window[w] = Shut
    /\ \E shape \in Shapes(v, by) : applyWindowSizeHint(w, v, shape)

Deed == deeds < MaxDeeds /\ deeds' = deeds + 1
\* The tray opens the dashboard, in a window of its own when the setting says so.
open_ui(w) ==
    /\ portable /\ Deed /\ OpensView(w, "dashboard", "tray")
    /\ UNCHANGED <<shapeChosen, panelVars, asking>>
\* A shortcut opens a process's view.
openFocus(w) ==
    /\ Deed /\ OpensView(w, "focus", "daemon") /\ UNCHANGED <<shapeChosen, panelVars, asking>>

\* The launcher's button, once: the dashboard gets its own window and the launcher goes, or there
\* is no browser and the launcher's page turns into the dashboard, under the launcher's view.
openDashboard(l) ==
    /\ window[l].view = "focus" /\ l \notin asking /\ asking' = asking \cup {l}
    /\ UNCHANGED <<window, placed, shapeChosen, panelVars, deeds>>
Opened(l) ==
    /\ l \in asking /\ asking' = asking \ {l} /\ UNCHANGED <<shapeChosen, panelVars, deeds>>
    /\ \/ \E w \in Windows : OpensView(w, "dashboard", "daemon")
       \/ UNCHANGED <<window, placed>>

\* The user, and a monitor that goes while the window is shut.
Shaped(w, shape) ==
    /\ window[w] # Shut /\ Deed /\ window' = [window EXCEPT ![w].shape = shape]
    /\ placed' = [placed EXCEPT ![window[w].view] = shape]
    /\ shapeChosen' = [shapeChosen EXCEPT ![window[w].view] = shape]
    /\ UNCHANGED <<panelVars, asking>>
Shuts(w) ==
    /\ window[w] # Shut /\ window' = [window EXCEPT ![w] = Shut] /\ asking' = asking \ {w}
    /\ UNCHANGED <<placed, shapeChosen, panelVars, deeds>>
Junk(v, rect) ==
    /\ \A w \in Open : window[w].view # v
    /\ placed[v] # "none" /\ Deed
    /\ placed' = [placed EXCEPT ![v] = rect] /\ shapeChosen' = [shapeChosen EXCEPT ![v] = "none"]
    /\ UNCHANGED <<window, panelVars, asking>>

---------------------------------------------------------------------------------------
\* The settings panel reads the setting when it opens, or keeps what it had if that fails.
Loads(p) ==
    /\ panel[p] = "shut" /\ Deed /\ panel' = [panel EXCEPT ![p] = "loading"]
    /\ UNCHANGED <<window, placed, shapeChosen, portable, was, is, store, touched, asking>>
Loaded(p) ==
    /\ panel[p] = "loading" /\ panel' = [panel EXCEPT ![p] = "open"]
    /\ \/ /\ is' = [is EXCEPT ![p] = portable] /\ was' = [was EXCEPT ![p] = portable]
          /\ touched' = touched \ {p}
       \/ UNCHANGED <<is, was, touched>>
    /\ UNCHANGED <<window, placed, shapeChosen, portable, store, asking, deeds>>
Hydrates(p) ==
    /\ store[p] # portable /\ store' = [store EXCEPT ![p] = portable]
    /\ UNCHANGED <<window, placed, shapeChosen, portable, panel, was, is, touched, asking, deeds>>
Touches(p) ==
    /\ panel[p] = "open" /\ Deed /\ is' = [is EXCEPT ![p] = ~@] /\ touched' = touched \cup {p}
    /\ UNCHANGED <<window, placed, shapeChosen, portable, panel, was, store, asking>>
\* What if: what was on is looked up in the store, which may not have read the setting yet.
TurnsOnByStore(p) == is[p] /\ ~store[p]
turningPortableOn(p) == is[p] /\ ~was[p]
savePanel(p) ==
    /\ panel[p] = "open" /\ portable' = is[p]
    /\ panel' = [panel EXCEPT ![p] = IF turningPortableOn(p) THEN "saving" ELSE "open"]
    /\ was' = [was EXCEPT ![p] = is[p]] /\ store' = [store EXCEPT ![p] = is[p]]
    /\ touched' = IF turningPortableOn(p) THEN touched ELSE touched \ {p}
    /\ UNCHANGED <<window, placed, shapeChosen, is, asking, deeds>>
\* A setting just turned on shows itself.
Pops(p) ==
    /\ panel[p] = "saving" /\ panel' = [panel EXCEPT ![p] = "open"] /\ touched' = touched \ {p}
    /\ \/ \E w \in Windows : OpensView(w, "dashboard", "daemon")
       \/ UNCHANGED <<window, placed>>
    /\ UNCHANGED <<shapeChosen, portable, was, is, store, asking, deeds>>
Leaves(p) ==
    /\ panel[p] = "open" /\ panel' = [panel EXCEPT ![p] = "shut"]
    /\ UNCHANGED <<window, placed, shapeChosen, portable, was, is, store, touched, asking, deeds>>

AwNext ==
    \/ \E w \in Windows :
           \/ open_ui(w) \/ openFocus(w) \/ openDashboard(w) \/ Opened(w) \/ Shuts(w)
           \/ \E shape \in {"mine", "max"} : Shaped(w, shape)
    \/ \E v \in Views, rect \in {"sliver", "flat"} : Junk(v, rect)
    \/ \E p \in Panels :
           \/ Loads(p) \/ Loaded(p) \/ Hydrates(p) \/ Touches(p) \/ savePanel(p) \/ Pops(p)
           \/ Leaves(p)
AwSpec == AwInit /\ [][AwNext]_awVars

AwTypeOK ==
    /\ \A w \in Open : window[w].view \in Views /\ window[w].shape \in Usable
    /\ panel \in [Panels -> {"shut", "loading", "open", "saving"}] /\ asking \subseteq Open

\* A window opens in the shape the user last gave its view, or at its first-run size: whoever
\* opens it, whatever runs already and whatever junk was placed. Only a maximised view may come up
\* in a running browser at the size of what is there, and is left alone.
UserSizeStays ==
    [][\A w \in Windows : window[w] = Shut /\ window'[w] # Shut =>
          LET v == window'[w].view IN
          \/ window'[w].shape = (IF shapeChosen[v] = "none" THEN v ELSE shapeChosen[v])
          \/ shapeChosen[v] = "max" /\ Open # {}]_awVars

\* Saving the settings opens a window only after the user turned the mode on in that panel.
PopsOnlyWhenTurned == \A p \in Panels : panel[p] = "saving" => p \in touched
================================================================================
