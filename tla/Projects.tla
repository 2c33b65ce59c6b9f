------------------------------- MODULE Projects -------------------------------
(* Which projects the daemon manages, what is switched on, and what it starts by itself:     *)
(* manager/projects.ts, the toggles of state.ts, the registry of projects/file-store.ts, the  *)
(* boot loop of index.ts and safe mode. What is kept on disk (the registry, the toggles, the  *)
(* project files) survives the daemon; a write of the toggles may fail, and says nothing.     *)
(*                                                                                          *)
(* Whether a process runs is Lifecycle's matter: here one is wanted when it is to run.      *)
EXTENDS Naturals, FiniteSets

CONSTANTS Paths,      \* project files of this machine; a project's id is its path's hash
          Locals,     \* process ids as they are written in a file
          Autostart,  \* those whose entry says "autostart"
          MaxCrashes, \* how often the daemon dies
          MaxChanges  \* how often somebody changes a file or a toggle

ASSUME ProjectsAssumption == Autostart \subseteq Locals /\ {MaxCrashes, MaxChanges} \subseteq Nat

VARIABLES files,            \* the processes each file defines; none if it cannot be read
          remembered,       \* registry.json: the files loaded again at boot
          saved, savedMain, \* state.json: the toggles of processes and of projects
          daemon,           \* "up", "down" or, down and to boot into safe mode, "crashed"
          safe,             \* safe mode is active
          launches,         \* the setting autoStartOnLaunch
          managed,          \* the processes of each managed project; none if not managed
          toggle, mainToggle,  \* the daemon's cache of the toggles
          wanted,           \* the processes that run or are to run
          removing,         \* the removals that wait for stops (see Removals)
          chosen, chosenMain,  \* what the user last chose, whatever became of it
          unsaved,          \* a write of the toggles failed and none has succeeded since
          gone,             \* projects removed and not loaded since
          crashes, changes

projectVars == <<files, remembered, saved, savedMain, daemon, safe, launches, managed, toggle,
                 mainToggle, wanted, removing, chosen, chosenMain, unsaved, gone, crashes,
                 changes>>
diskVars == <<files, remembered, gone>>
choiceVars == <<saved, savedMain, toggle, mainToggle, chosen, chosenMain, unsaved>>
worldVars == <<daemon, safe, launches, crashes, changes>>

Procs == Paths \X Locals
Choices == {"unset", "on", "off"}
Of(p, ls) == {p} \X ls

\* A removal holds on to the project it began with. As long as that is the project of that id
\* it sees its processes of the moment; once another took its place, those it had then.
Removals == {[own |-> TRUE, ids |-> {}]} \cup [own : {FALSE}, ids : SUBSET Locals]
Taken(r, p) == IF r.own THEN managed[p] ELSE r.ids
Replaced(p) == {[own |-> FALSE, ids |-> Taken(r, p)] : r \in removing[p]}

\* Auto-start needs the project's switch, on unless switched off, and the process's toggle,
\* which its entry decides as long as nobody has.
processEnabled(t, x) == t[x] = "on" \/ (t[x] = "unset" /\ x[2] \in Autostart)
willAutostart(t, m, x) == m[x[1]] # "off" /\ processEnabled(t, x)
AutostartOf(t, m, xs) == {x \in xs : willAutostart(t, m, x)}

ProjectsInit ==
    /\ files \in [Paths -> (SUBSET Locals) \ {{}}] /\ remembered = {}
    /\ saved = [x \in Procs |-> "unset"] /\ savedMain = [p \in Paths |-> "unset"]
    /\ toggle = saved /\ mainToggle = savedMain /\ chosen = saved /\ chosenMain = savedMain
    /\ daemon = "down" /\ safe = FALSE /\ launches \in BOOLEAN
    /\ managed = [p \in Paths |-> {}] /\ wanted = {} /\ removing = [p \in Paths |-> {}]
    /\ unsaved = FALSE /\ gone = {} /\ crashes = 0 /\ changes = 0

\* The cache is written as a whole; a failed write is caught and forgotten.
Persist(t, m) ==
    /\ toggle' = t /\ mainToggle' = m
    /\ \/ saved' = t /\ savedMain' = m /\ unsaved' = FALSE
       \/ unsaved' = TRUE /\ UNCHANGED <<saved, savedMain>>
ChoicesStay == UNCHANGED <<toggle, mainToggle, saved, savedMain, unsaved>>

\* Forgetting writes only if there is something to forget.
Forgets(xs, ps) ==
    LET t == [x \in Procs |-> IF x \in xs THEN "unset" ELSE toggle[x]]
        m == [p \in Paths |-> IF p \in ps THEN "unset" ELSE mainToggle[p]]
    IN  IF <<t, m>> = <<toggle, mainToggle>> THEN ChoicesStay ELSE Persist(t, m)

\* What leaves a project under the daemon's eyes is no longer chosen.
Unchosen(xs, ps) ==
    /\ chosen' = [x \in Procs |-> IF x \in xs THEN "unset" ELSE chosen[x]]
    /\ chosenMain' = [p \in Paths |-> IF p \in ps THEN "unset" ELSE chosenMain[p]]

\* What if: loading a project anew forgets all its toggles.
ForgetsShown(p, ls) == Forgets(Of(p, managed[p]), {})
ForgetsGone(p, ls) == Forgets(Of(p, managed[p] \ ls), {})

\* Register a project, or register it anew: what it ran is ended, and toggles of processes no
\* longer in the file are forgotten.
addProject(p, ls, autostart) ==
    /\ ForgetsGone(p, ls) /\ Unchosen(Of(p, managed[p] \ ls), {})
    /\ managed' = [managed EXCEPT ![p] = ls]
    /\ wanted' = (wanted \ Of(p, managed[p]))
                    \cup (IF autostart THEN AutostartOf(toggle', mainToggle', Of(p, ls)) ELSE {})
    /\ removing' = [removing EXCEPT ![p] = Replaced(p)]

\* A project loaded for the first time on this machine starts nothing; one that is known
\* starts what its toggles say, also when it is loaded over itself.
\* What if: a project new to this machine starts what its entries say.
loadAndRun(p, ls) ==
    /\ daemon = "up" /\ ls # {}
    /\ addProject(p, ls, TRUE)
    /\ remembered' = remembered \cup {p} /\ gone' = gone \ {p}
    /\ UNCHANGED worldVars
loadProject(p, ls) ==
    /\ daemon = "up" /\ ls # {}
    /\ addProject(p, ls, p \in remembered)
    /\ remembered' = remembered \cup {p} /\ gone' = gone \ {p}
    /\ UNCHANGED worldVars
LoadProject(p) == loadProject(p, files[p]) /\ UNCHANGED files

\* What is gone from the file is ended.
\* What if: its entry is dropped and its child left alone.
DroppedOnly(p, ls) == {}
Discarded(p, ls) == Of(p, managed[p] \ ls)

\* Apply a file read again: new processes start if the user made the edit, not if the watch
\* found it; processes that are gone are ended and forgotten.
reconcileProject(p, ls, fromWatch) ==
    /\ ForgetsGone(p, ls) /\ Unchosen(Of(p, managed[p] \ ls), {})
    /\ managed' = [managed EXCEPT ![p] = ls]
    /\ wanted' = (wanted \ Discarded(p, ls))
                    \cup (IF fromWatch THEN {}
                          ELSE AutostartOf(toggle', mainToggle', Of(p, ls \ managed[p])))
    /\ UNCHANGED removing

EditInGui(p, ls) ==
    /\ daemon = "up" /\ managed[p] # {} /\ files[p] # {} /\ changes < MaxChanges
    /\ Cardinality((ls \ files[p]) \cup (files[p] \ ls)) = 1
    /\ files' = [files EXCEPT ![p] = ls] /\ changes' = changes + 1
    /\ reconcileProject(p, ls, FALSE)
    /\ UNCHANGED <<remembered, gone, daemon, safe, launches, crashes>>

WatchReloads(p) ==
    /\ daemon = "up" /\ managed[p] # {} /\ files[p] \notin {{}, managed[p]}
    /\ reconcileProject(p, files[p], TRUE)
    /\ UNCHANGED <<diskVars, worldVars>>

\* An editor, a checkout of another branch or a removal changes the file, also while no daemon
\* runs.
EditOnDisk(p, ls) ==
    /\ changes < MaxChanges /\ ls # files[p]
    /\ files' = [files EXCEPT ![p] = ls] /\ changes' = changes + 1
    /\ UNCHANGED <<remembered, gone, choiceVars, daemon, safe, launches, managed, wanted, removing,
                   crashes>>

\* A toggle is a preference for the next launch and touches nothing that runs.
setProcessEnabled(x, c) ==
    /\ daemon = "up" /\ x[2] \in managed[x[1]] /\ changes < MaxChanges
    /\ Persist([toggle EXCEPT ![x] = c], mainToggle)
    /\ chosen' = [chosen EXCEPT ![x] = c] /\ changes' = changes + 1
    /\ UNCHANGED <<diskVars, daemon, safe, launches, managed, wanted, removing, chosenMain,
                   crashes>>

setProjectEnabled(p, c) ==
    /\ daemon = "up" /\ managed[p] # {} /\ changes < MaxChanges
    /\ Persist(toggle, [mainToggle EXCEPT ![p] = c])
    /\ chosenMain' = [chosenMain EXCEPT ![p] = c] /\ changes' = changes + 1
    /\ UNCHANGED <<diskVars, daemon, safe, launches, managed, wanted, removing, chosen, crashes>>

\* The commands that start and stop, whoever gives them.
StartThese(xs) ==
    /\ daemon = "up" /\ wanted' = wanted \cup {x \in xs : x[2] \in managed[x[1]]}
    /\ UNCHANGED <<diskVars, choiceVars, worldVars, managed, removing>>
StopThese(xs) ==
    /\ daemon = "up" /\ wanted' = wanted \ xs
    /\ UNCHANGED <<diskVars, choiceVars, worldVars, managed, removing>>

\* Removing stops everything, waits for it, and then forgets the processes of the project it
\* began with, the project of that id and its registry entry, however it was loaded again in
\* between.
RemoveBegins(p) ==
    /\ daemon = "up" /\ managed[p] # {}
    /\ removing' = [removing EXCEPT ![p] = @ \cup {[own |-> TRUE, ids |-> {}]}]
    /\ wanted' = wanted \ Of(p, managed[p])
    /\ UNCHANGED <<diskVars, choiceVars, worldVars, managed>>
\* What if: a removed project stays in the registry.
UnregistersNothing(p) == UNCHANGED remembered
Unregisters(p) == remembered' = remembered \ {p}
RemoveEnds(p, r) ==
    /\ daemon = "up"
    /\ Forgets(Of(p, Taken(r, p)), {p}) /\ Unchosen(Of(p, Taken(r, p)), {p})
    /\ managed' = [managed EXCEPT ![p] = {}] /\ wanted' = wanted \ Of(p, Locals)
    /\ removing' = [removing EXCEPT ![p] = {[own |-> FALSE, ids |-> Taken(o, p)] : o \in @ \ {r}}]
    /\ Unregisters(p) /\ gone' = gone \cup {p}
    /\ UNCHANGED <<files, worldVars>>

\* Launch: the projects of the registry that can be read, with what is switched on started if
\* the user wants that and the last run did not crash. (A choice that could not be written is
\* lost with the daemon.)
DaemonBoots(asked) ==
    /\ daemon # "up"
    /\ daemon' = "up" /\ safe' = (asked \/ daemon = "crashed")
    /\ toggle' = saved /\ mainToggle' = savedMain
    /\ managed' = [p \in Paths |-> IF p \in remembered THEN files[p] ELSE {}]
    /\ wanted' = IF launches /\ ~safe'
                THEN AutostartOf(saved, savedMain, UNION {Of(p, managed'[p]) : p \in Paths}) ELSE {}
    /\ chosen' = (IF unsaved THEN saved ELSE chosen) /\ unsaved' = FALSE
    /\ chosenMain' = (IF unsaved THEN savedMain ELSE chosenMain)
    /\ UNCHANGED <<diskVars, saved, savedMain, launches, removing, crashes, changes>>

\* "Leave safe mode" runs the launch that was skipped.
ExitSafeMode ==
    /\ daemon = "up" /\ safe /\ safe' = FALSE
    /\ wanted' = wanted \cup
           (IF launches
            THEN AutostartOf(toggle, mainToggle, UNION {Of(p, managed[p]) : p \in Paths}) ELSE {})
    /\ UNCHANGED <<diskVars, choiceVars, daemon, launches, managed, removing, crashes, changes>>

Gone ==
    /\ wanted' = {} /\ safe' = FALSE
    /\ managed' = [p \in Paths |-> {}] /\ removing' = [p \in Paths |-> {}]
ShutsDown ==
    /\ daemon = "up" /\ daemon' = "down" /\ Gone
    /\ UNCHANGED <<diskVars, choiceVars, launches, crashes, changes>>
\* A crash may come between the two writes of a removal.
Crashes ==
    /\ daemon = "up" /\ crashes < MaxCrashes
    /\ daemon' = "crashed" /\ crashes' = crashes + 1 /\ Gone
    /\ \/ UNCHANGED choiceVars
       \/ \E p \in Paths : \E r \in removing[p] :
              Forgets(Of(p, Taken(r, p)), {p}) /\ Unchosen(Of(p, Taken(r, p)), {p})
    /\ UNCHANGED <<diskVars, launches, changes>>

ProjectsNext ==
    \/ \E p \in Paths :
           \/ LoadProject(p) \/ WatchReloads(p) \/ RemoveBegins(p)
           \/ \E r \in removing[p] : RemoveEnds(p, r)
           \/ \E ls \in SUBSET Locals : EditOnDisk(p, ls) \/ (ls # {} /\ EditInGui(p, ls))
           \/ \E c \in {"on", "off"} : setProjectEnabled(p, c)
           \/ StartThese(Of(p, Locals)) \/ StopThese(Of(p, Locals))
    \/ \E x \in Procs :
           StartThese({x}) \/ StopThese({x}) \/ \E c \in {"on", "off"} : setProcessEnabled(x, c)
    \/ \E asked \in BOOLEAN : DaemonBoots(asked)
    \/ StartThese(Procs) \/ StopThese(Procs) \/ ExitSafeMode \/ ShutsDown \/ Crashes

ProjectsSpec == ProjectsInit /\ [][ProjectsNext]_projectVars

\* What is wanted belongs to a project that is managed, and nothing is while no daemon runs.
ProjectsTypeOK ==
    /\ files \in [Paths -> SUBSET Locals] /\ remembered \subseteq Paths /\ gone \subseteq Paths
    /\ saved \in [Procs -> Choices] /\ savedMain \in [Paths -> Choices]
    /\ toggle \in [Procs -> Choices] /\ mainToggle \in [Paths -> Choices]
    /\ daemon \in {"up", "down", "crashed"} /\ {safe, launches, unsaved} \subseteq BOOLEAN
    /\ managed \in [Paths -> SUBSET Locals]
    /\ wanted \subseteq UNION {Of(p, managed[p]) : p \in Paths}
    /\ removing \in [Paths -> SUBSET Removals]
    /\ daemon # "up" => managed = [p \in Paths |-> {}]

\* A choice lasts: through reloads, edits of the file, crashes and launches the daemon goes by
\* what the user last chose, and so will the next one unless a write failed.
ChoicesLast ==
    /\ daemon = "up" => <<toggle, mainToggle>> = <<chosen, chosenMain>>
    /\ ~unsaved => <<saved, savedMain>> = <<chosen, chosenMain>>

\* What is managed comes back at the next launch, and what was removed stays away, also when it
\* was loaded again while its removal waited for a stop.
ShownComesBack ==
    /\ \A p \in Paths : managed[p] # {} => p \in remembered
    /\ \A p \in gone : p \notin remembered /\ managed[p] = {}

\* Nothing starts unasked: what becomes wanted was asked for, or is switched on and of a project
\* that was known before; and a launch starts all that is switched on, or in safe mode nothing.
On(x) == willAutostart(chosen', chosenMain', x)
LaunchFollowsChoices ==
    [][/\ \A x \in wanted' \ wanted : StartThese(wanted' \ wanted) \/ (On(x) /\ x[1] \in remembered)
       /\ daemon # "up" /\ daemon' = "up" =>
              wanted' = {x \in Procs : launches /\ ~safe' /\ x[2] \in managed'[x[1]] /\ On(x)}
      ]_projectVars
================================================================================
