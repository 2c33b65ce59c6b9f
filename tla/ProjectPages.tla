----------------------------- MODULE ProjectPages -----------------------------
(* What a page of the GUI does with the projects: the dialog that adds one, and the panels    *)
(* that show them. The two share nothing.                                                     *)
EXTENDS Integers, Sequences, FiniteSets

(* THE DIALOG. *)
(* web/src/components/AddProjectDialog.vue: one dialog that adds a project by path, clone,   *)
(* drop, picker or scan. Everything it asks for answers later, maybe after the dialog was    *)
(* closed and opened again: generations (scanGen, dropGen) and `busy` keep late answers out. *)

CONSTANTS
    Folders,                             \* absolute paths one can type or pick
    MaxOpens, MaxScans, MaxDrops, MaxAsks    \* bounds

ASSUME AddDialogAssumption == {MaxOpens, MaxScans, MaxDrops, MaxAsks} \subseteq Nat

Absent == [kind |-> "none"]
Event == "event"    \* what a click handler is handed: as a folder it is nowhere
Machine == ""       \* no folder: the whole machine

VARIABLES
    shown,      \* open, and which opening it is: session
    session,
    field,      \* input: "", a path or "url"
    scanMode, scanning, deepening,
    scanGen, dropGen,
    result,     \* scanResult: Absent or [kind, scope, session]
    caption,    \* scannedFolder
    step,       \* what the dialog offers: "add", "scaffold" or "takeover"
    note,       \* Absent, or what it is about: a drop or a cloned repository
    ask,        \* the request that `busy` stands for, or Absent
    asks,       \* how many there were
    scans,      \* scans whose answer is awaited: [gen, root, explicit, tier, session]
    reads       \* drops being read: [gen, session]

messages == <<result, caption, step, note>>
scanState == <<scanning, deepening, scanGen, scans>>
dlVars == <<shown, session, field, scanMode, scanState, dropGen, messages, ask, asks, reads>>

busy == ask # Absent
scanRoot == IF field \in Folders THEN field ELSE Machine

DlInit ==
    /\ shown = FALSE /\ session = 0 /\ field = "" /\ scanMode = FALSE
    /\ scanning = FALSE /\ deepening = FALSE /\ scanGen = 0 /\ dropGen = 0
    /\ result = Absent /\ caption = "" /\ step = "add" /\ note = Absent
    /\ ask = Absent /\ asks = 0 /\ scans = {} /\ reads = {}

clearMessages == result' = Absent /\ caption' = "" /\ step' = "add" /\ note' = Absent

-------------------------------------------------------------------------------
(* Scans. *)

\* What if: the generation were not looked at.
LiveByScope(s) == s.explicit \/ scanRoot = s.root
live(s) == s.gen = scanGen /\ (s.explicit \/ scanRoot = s.root)

\* runScan(explicitRoot?), `gen` and `opening` being what this step makes of them.
Scans(root, explicit, gen, opening) ==
    /\ gen <= MaxScans
    /\ result' = Absent /\ step' = "add" /\ note' = Absent
    /\ caption' = root
    /\ scanning' = TRUE /\ deepening' = FALSE /\ scanGen' = gen
    /\ scans' = scans \cup {[gen |-> gen, root |-> root, explicit |-> explicit,
                             tier |-> IF root = Machine THEN 1 ELSE 0, session |-> opening]}

\* The Scan and Scan again buttons: @click="runScan" hands the function the click.
ScanButton ==
    /\ shown /\ step # "takeover" /\ ~scanning /\ ~busy
    /\ Scans(Event, TRUE, scanGen + 1, session)
    /\ UNCHANGED <<shown, session, field, scanMode, dropGen, ask, asks, reads>>

\* scanTypedFolder(), and browseScanFolder() when its picker, which is a window of the daemon's
\* machine, has answered: whatever became of the dialog since.
ScanFolder(f) ==
    /\ session > 0 /\ ~scanning
    /\ Scans(f, TRUE, scanGen + 1, session)
    /\ UNCHANGED <<shown, session, field, scanMode, dropGen, ask, asks, reads>>

\* The finally of runScan.
\* What if: a scan put out the spinner whosever it was.
ScanEndsAny(s, more) ==
    /\ scans' = (scans \ {s}) \cup more
    /\ IF more = {} THEN scanning' = FALSE /\ deepening' = FALSE
                    ELSE deepening' = TRUE /\ UNCHANGED scanning
ScanEnds(s, more) ==
    /\ scans' = (scans \ {s}) \cup more
    /\ IF more # {} THEN deepening' = TRUE /\ UNCHANGED scanning
       ELSE IF s.gen = scanGen THEN scanning' = FALSE /\ deepening' = FALSE
       ELSE UNCHANGED <<scanning, deepening>>

\* An answer: of the folder, of the quick tier (the deep one follows) or of the deep one.
ScanAnswers(s) ==
    /\ s \in scans
    /\ result' = IF live(s) THEN [kind |-> "scan", scope |-> s.root, session |-> s.session]
                 ELSE result
    /\ ScanEnds(s, IF s.tier = 1 /\ live(s) THEN {[s EXCEPT !.tier = 2]} ELSE {})
    /\ UNCHANGED <<shown, session, field, scanMode, scanGen, dropGen, caption, step, note,
                   ask, asks, reads>>
ScanFails(s) ==
    /\ s \in scans /\ ScanEnds(s, {})
    /\ UNCHANGED <<shown, session, field, scanMode, scanGen, dropGen, messages, ask, asks, reads>>

-------------------------------------------------------------------------------
(* Opening, closing, typing. *)

\* watch(open): everything is reset, and a scan of an earlier opening loses its generation.
Opens(how) ==
    /\ ~shown /\ session < MaxOpens
    /\ shown' = TRUE /\ session' = session + 1 /\ field' = ""
    /\ scanMode' = (how # "add") /\ ask' = Absent
    /\ IF how = "scan" THEN Scans(Machine, FALSE, scanGen + 2, session + 1)
       ELSE /\ result' = IF how = "prefill"
                         THEN [kind |-> "scan", scope |-> Machine, session |-> session + 1]
                         ELSE Absent
            /\ caption' = "" /\ step' = "add" /\ note' = Absent
            /\ scanning' = FALSE /\ deepening' = FALSE /\ scanGen' = scanGen + 1
            /\ UNCHANGED scans
    /\ UNCHANGED <<dropGen, asks, reads>>

\* @update:open. What if: a dialog with a request under way could be closed.
MayCloseAlways == TRUE
MayClose == ~busy
Closes ==
    /\ shown /\ MayClose /\ shown' = FALSE
    /\ UNCHANGED <<session, field, scanMode, scanState, dropGen, messages, ask, asks, reads>>

Types(v) ==
    /\ shown /\ ~scanMode /\ step # "takeover" /\ field' = v
    /\ UNCHANGED <<shown, session, scanMode, scanState, dropGen, messages, ask, asks, reads>>

addManually ==
    /\ shown /\ scanMode /\ step # "takeover" /\ clearMessages /\ scanMode' = FALSE
    /\ UNCHANGED <<shown, session, field, scanState, dropGen, ask, asks, reads>>

-------------------------------------------------------------------------------
(* Requests. *)
Asks(op) ==
    /\ shown /\ ~busy /\ asks < MaxAsks /\ asks' = asks + 1
    /\ ask' = [kind |-> op, session |-> session]
    /\ UNCHANGED <<shown, session, scanMode, scanState, reads>>

\* submit(): by the button, or by a drop whose path the browser tells.
Submits == step # "takeover" /\ ~scanMode /\ field # "" /\ clearMessages
submit == Submits /\ Asks(IF field = "url" THEN "clone" ELSE "load") /\ UNCHANGED <<field, dropGen>>
dropPath(f) ==
    /\ shown /\ ~scanMode /\ step # "takeover" /\ clearMessages
    /\ dropGen < MaxDrops /\ dropGen' = dropGen + 1 /\ field' = f
    /\ \/ Asks("load")
       \/ busy /\ UNCHANGED <<shown, session, scanMode, scanState, ask, asks, reads>>
browseFile ==
    /\ ~scanMode /\ step # "takeover" /\ clearMessages /\ Asks("browse")
    /\ UNCHANGED <<field, dropGen>>
\* addFound() of a scan's results, and createScaffold(), keep what is shown.
addFound ==
    /\ result # Absent /\ step # "takeover" /\ note' = Absent /\ Asks("load")
    /\ UNCHANGED <<field, dropGen, result, caption, step>>
createScaffold ==
    /\ step = "scaffold" /\ note' = Absent /\ Asks("scaffold")
    /\ UNCHANGED <<field, dropGen, result, caption, step>>
takeOver == step = "takeover" /\ Asks("retire") /\ UNCHANGED <<field, dropGen, messages>>
finishTakeOver ==
    /\ shown /\ step = "takeover" /\ ~busy /\ step' = "add" /\ shown' = FALSE
    /\ UNCHANGED <<session, field, scanMode, scanState, dropGen, result, caption, note, ask, asks,
                   reads>>

Outcomes(op) ==
    {"throw", "error", "ok"}
        \cup (IF op \in {"load", "clone"} THEN {"scaffold"} ELSE {})
        \cup (IF op = "clone" THEN {"cloned"} ELSE {})
        \cup (IF op = "browse" THEN {"cancelled"} ELSE {})
        \cup (IF op \in {"load", "browse", "clone", "scaffold"} THEN {"triggers"} ELSE {})

\* finish(res), after busy is cleared. A take-over that was carried out stays on its step.
StepAfter(op, out) ==
    CASE out = "scaffold" -> "scaffold"
      [] out = "triggers" \/ (op = "retire" /\ out # "throw") -> "takeover"
      [] out = "error" /\ step = "scaffold" -> "add"
      [] OTHER -> step
RequestAnswers(out) ==
    /\ busy /\ out \in Outcomes(ask.kind) /\ ask' = Absent
    /\ step' = StepAfter(ask.kind, out)
    /\ scanMode' = (scanMode /\ out # "scaffold")
    /\ note' = IF out = "cloned" THEN [kind |-> "cloned", session |-> ask.session] ELSE note
    /\ field' \in IF out = "cloned" THEN Folders ELSE {field}
    /\ shown' = (shown /\ ~(out = "ok" /\ ask.kind # "retire"))
    /\ UNCHANGED <<session, scanState, dropGen, result, caption, asks, reads>>

-------------------------------------------------------------------------------
(* Drops the browser gives no path of: read, then asked about. *)
onDrop ==
    /\ shown /\ ~scanMode /\ step # "takeover" /\ dropGen < MaxDrops
    /\ clearMessages /\ dropGen' = dropGen + 1
    /\ reads' = reads \cup {[gen |-> dropGen + 1, session |-> session]}
    /\ UNCHANGED <<shown, session, field, scanMode, scanState, ask, asks>>

\* promptForLocation, and the message of a drop that cannot be read.
\* What if: an earlier drop could still speak.
SpeaksAlways(d) == TRUE
Speaks(d) == d.gen = dropGen
DropRead(d) ==
    /\ d \in reads /\ reads' = reads \ {d}
    /\ note' = IF Speaks(d) THEN [kind |-> "drop", gen |-> d.gen] ELSE note
    /\ UNCHANGED <<shown, session, field, scanMode, scanState, dropGen, result, caption, step,
                   ask, asks>>

DlNext ==
    \/ \E how \in {"add", "scan", "prefill"} : Opens(how)
    \/ Closes \/ addManually \/ ScanButton \/ onDrop
    \/ submit \/ browseFile \/ addFound \/ createScaffold \/ takeOver \/ finishTakeOver
    \/ \E f \in Folders : ScanFolder(f) \/ dropPath(f)
    \/ \E v \in Folders \cup {"", "url"} : Types(v)
    \/ \E s \in scans : ScanAnswers(s) \/ ScanFails(s)
    \/ \E d \in reads : DropRead(d)
    \/ busy /\ \E out \in Outcomes(ask.kind) : RequestAnswers(out)

-------------------------------------------------------------------------------
DlTypeOK ==
    /\ {shown, scanMode, scanning, deepening} \subseteq BOOLEAN
    /\ session \in 0 .. MaxOpens /\ scanGen \in 0 .. MaxScans + MaxOpens
    /\ dropGen \in 0 .. MaxDrops
    /\ field \in Folders \cup {"", "url"} /\ caption \in Folders \cup {Machine, Event}
    /\ step \in {"add", "scaffold", "takeover"}
    /\ \A s \in scans : s.gen <= scanGen /\ s.tier \in 0 .. 2

\* Results are of this opening, and of the folder the caption names if it names one; the spinner
\* turns exactly while the scan that is shown is awaited; a request belongs to the opening that
\* made it; and a drop is asked about only while no later one was made.
DialogTellsTheTruth ==
    /\ result # Absent => result.session = session /\ caption \in {Machine, result.scope}
    /\ scanning <=> \E s \in scans : s.gen = scanGen
    /\ deepening => scanning
    /\ busy => shown /\ ask.session = session
    /\ note.kind = "drop" => note.gen = dropGen

\* en.ts:469, the hint of the Scan button: "Search your whole machine for configured or
\* detectable dev projects". What it starts is a scan of the machine, or of the folder typed.
ScanButtonSearches == \A s \in scans : s.root \in Folders \cup {Machine}

-------------------------------------------------------------------------------
(* THE PANELS. *)
(* store.ts and ProjectPanel.vue: the panels of a page. A removal and a rename show at once   *)
(* and are taken back when the request fails, while the daemon's own list comes in over the   *)
(* stream and as the answer of a refresh. Other pages and the project file change the list as *)
(* well. What else a panel shows and how lists travel is in LiveView.                         *)

CONSTANTS Listed,     \* the projects at first, in their order
          Joining,    \* projects that others may add
          MaxAsked,   \* a bound: requests of the page
          MaxOthers   \* a bound: changes by others
ASSUME PanelsAssumption ==
    /\ Listed \in Seq({Listed[i] : i \in DOMAIN Listed})
    /\ \A i, j \in DOMAIN Listed : Listed[i] = Listed[j] => i = j
    /\ {MaxAsked, MaxOthers} \subseteq Nat

VARIABLES
    projects,   \* the daemon's list, of records of an id and a name
    pushed,     \* the lists on the stream the page has not read
    panels,     \* the page's list
    unsettled,   \* the requests of the page that are not settled
    had,        \* history: the names the daemon has had for each project,
    restored,   \*   the projects whose removal failed, and
    crossed,    \*   those a refresh took away that was answered before they came
    doings, others   \* the bounds

daemonList == <<projects, pushed, had>>
panelListVars == <<daemonList, panels, unsettled, restored, crossed, doings, others>>

Named == {Listed[i] : i \in DOMAIN Listed} \cup Joining
IdsOf(list) == {list[i].id : i \in DOMAIN list}
Place(list, id) == CHOOSE i \in DOMAIN list : list[i].id = id
\* A list has a project once (PanelsMatch), so one entry is left out.
Less(list, id) ==
    IF id \notin IdsOf(list) THEN list
    ELSE SubSeq(list, 1, Place(list, id) - 1) \o SubSeq(list, Place(list, id) + 1, Len(list))
WithName(list, id, name) ==
    [i \in DOMAIN list |-> IF list[i].id = id THEN [list[i] EXCEPT !.name = name] ELSE list[i]]

PpInit ==
    /\ projects = [i \in DOMAIN Listed |-> [id |-> Listed[i], name |-> 0]]
    /\ panels = projects /\ pushed = << >> /\ unsettled = {} /\ restored = {} /\ crossed = {}
    /\ had = [id \in Named |-> {0}] /\ doings = 0 /\ others = 0

\* The daemon's list changes and is sent to every page.
emitProjects(list) ==
    /\ projects' = list /\ pushed' = Append(pushed, list)
    /\ had' = [id \in Named |-> had[id] \cup {list[i].name : i \in {j \in DOMAIN list : list[j].id = id}}]

\* A request keeps what it needs to be taken back.
Sends(op, id, name, undo) ==
    /\ doings < MaxAsked /\ doings' = doings + 1
    /\ unsettled' = unsettled \cup {[op |-> op, id |-> id, name |-> name, undo |-> undo,
           place |-> Place(panels, id), n |-> doings', at |-> "way", list |-> << >>]}
    /\ UNCHANGED <<daemonList, restored, crossed, others>>

removeProject(id) ==
    /\ id \in IdsOf(panels)
    /\ panels' = Less(panels, id)
    /\ Sends("remove", id, 0, panels[Place(panels, id)].name)

\* The dialog of a panel saves one edit at a time. A panel that went and is back could save a
\* second one meanwhile, which is left out.
updateProject(id, name) ==
    /\ id \in IdsOf(panels) /\ ~\E r \in unsettled : r.op = "update" /\ r.id = id
    /\ panels' = WithName(panels, id, name)
    /\ Sends("update", id, name, panels[Place(panels, id)].name)

Becomes(r, next) == unsettled' = (unsettled \ {r}) \cup {next}

\* The daemon: a project it no longer has is not found,
handleProjectAction(r) ==
    \/ /\ r.id \in IdsOf(projects) /\ emitProjects(Less(projects, r.id))
       /\ Becomes(r, [r EXCEPT !.at = "done"])
    \/ /\ r.id \notin IdsOf(projects) /\ UNCHANGED daemonList
       /\ Becomes(r, [r EXCEPT !.at = "refused"])
\* and a bad name or file can fail an update as well;
handleProjectUpdate(r) ==
    \/ /\ r.id \in IdsOf(projects) /\ emitProjects(WithName(projects, r.id, r.name))
       /\ Becomes(r, [r EXCEPT !.at = "done"])
    \/ UNCHANGED daemonList /\ Becomes(r, [r EXCEPT !.at = "refused"])
\* a refresh is answered with the list there is.
Handles(r) ==
    /\ r.at = "way" /\ UNCHANGED <<panels, restored, crossed, doings, others>>
    /\ \/ r.op = "remove" /\ handleProjectAction(r)
       \/ r.op = "update" /\ handleProjectUpdate(r)
       \/ r.op = "refresh" /\ UNCHANGED daemonList
          /\ Becomes(r, [r EXCEPT !.at = "done", !.list = projects])

\* Where it was, or at the end of a list that has become too short.
PutAgain(r) ==
    LET before == IF r.place > Len(panels) THEN Len(panels) ELSE r.place - 1 IN
        SubSeq(panels, 1, before) \o << [id |-> r.id, name |-> r.undo] >>
            \o SubSeq(panels, before + 1, Len(panels))
\* What if: the panel was put back without looking whether it is there.
PutBackAnyway(r) == PutAgain(r)
PutBack(r) == IF r.id \in IdsOf(panels) THEN panels ELSE PutAgain(r)

\* What if: a failed rename was left to the next list of the daemon.
LeavesName(r) == panels
RollBack(r) == WithName(panels, r.id, r.undo)

\* The request is settled. It can fail on its way, and its answer can be lost on the way back.
\* After one that went well the page refreshes.
Settles(r) ==
    /\ \/ /\ r.at = "done" /\ r.op # "refresh" /\ UNCHANGED <<panels, restored, crossed>>
          /\ Becomes(r, [r EXCEPT !.op = "refresh", !.at = "way"])
       \/ /\ r.at = "done" /\ r.op = "refresh" /\ panels' = r.list
          /\ crossed' = crossed \cup (IdsOf(panels) \ IdsOf(r.list))
          /\ unsettled' = unsettled \ {r} /\ UNCHANGED restored
       \/ /\ unsettled' = unsettled \ {r} /\ UNCHANGED crossed
          /\ \/ r.op = "remove" /\ panels' = PutBack(r) /\ restored' = restored \cup {r.id}
             \/ r.op = "update" /\ panels' = RollBack(r) /\ UNCHANGED restored
             \/ r.op = "refresh" /\ UNCHANGED <<panels, restored>>
    /\ UNCHANGED <<daemonList, doings, others>>

\* The stream's "projects" event.
Shown ==
    /\ pushed # << >> /\ panels' = Head(pushed) /\ pushed' = Tail(pushed)
    /\ crossed' = crossed \ IdsOf(panels')
    /\ UNCHANGED <<projects, had, unsettled, restored, doings, others>>

\* Another page, a command or a link removes or adds a project, or its file is given another name.
Others(id) ==
    /\ others < MaxOthers /\ others' = others + 1
    /\ \/ /\ id \in IdsOf(projects)
          /\ emitProjects(Less(projects, id)) \/ emitProjects(WithName(projects, id, 2))
       \/ id \notin IdsOf(projects) /\ emitProjects(Append(projects, [id |-> id, name |-> 2]))
    /\ UNCHANGED <<panels, unsettled, restored, crossed, doings>>

PanelsNext ==
    \/ \E id \in Named : removeProject(id) \/ updateProject(id, 1) \/ Others(id)
    \/ \E r \in unsettled : Handles(r) \/ Settles(r)
    \/ Shown

PanelsSpec == PpInit /\ [][PanelsNext]_panelListVars

PanelsTypeOK ==
    /\ IdsOf(projects) \cup IdsOf(panels) \subseteq Named
    /\ doings \in 0 .. MaxAsked /\ others \in 0 .. MaxOthers

\* Whatever requests fail while the daemon's lists arrive, each project has one panel ("unless
\* an SSE snapshot already restored it", store.ts:437); once the stream is quiet no project the
\* daemon has is without one, but while its removal is asked for or when the answer of a refresh
\* came late, given before the project was there and shown after its push; and a rename that
\* failed is not shown ("roll back if the daemon rejects them", store.ts:452), unless a failed
\* removal brought it back.
PanelsMatch ==
    /\ \A i, j \in DOMAIN panels : panels[i].id = panels[j].id => i = j
    /\ \A id \in IdsOf(projects) \ IdsOf(panels) :
           \/ pushed # << >> \/ id \in crossed
           \/ \E r \in unsettled : r.op = "remove" /\ r.id = id /\ r.at # "done"
    /\ \A i \in DOMAIN panels :
           \/ panels[i].name \in had[panels[i].id] \/ panels[i].id \in restored
           \/ \E r \in unsettled :
                  r.op = "update" /\ r.id = panels[i].id /\ r.name = panels[i].name

\* A quiet page shows every project the daemon has (refuted: a late answer hides a project that
\* another page added, until the daemon's list changes again).
ShowsEveryProject ==
    pushed = << >> /\ unsettled = {} => IdsOf(projects) \subseteq IdsOf(panels)
================================================================================
