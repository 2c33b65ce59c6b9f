------------------------------ MODULE ProjectFile ------------------------------
(* Editing a .devwebui file: the GUI's process form (web/src/components/ProcessForm.vue),   *)
(* the payload as JSON carries it, the routes of http/process-routes.ts, the edits of       *)
(* projects/file-store.ts with the keys they do not know, and the toggles of state.ts that  *)
(* the reload after each edit forgets. Of the optional fields, `port` stands for the plain  *)
(* ones; `links` and `waitForPort` name siblings; `starred` has a route of its own.         *)
(* Below, as a part of its own: the two files of VS Code that a take-over edits in place.   *)
EXTENDS Naturals, Sequences, FiniteSets

CONSTANTS
    LocalIds,       \* in-file process ids
    FirstIds,       \* the processes of the file as it is first loaded
    MaxEdits,       \* a bound: edits of the file, by anyone
    MaxTyped        \* a bound: fields changed in a form before it is saved

ASSUME ProjectFileAssumption == FirstIds \subseteq LocalIds /\ FirstIds # {}

VARIABLES
    file,           \* id -> its record; `who` is not in the file: it names the process itself
    toggles,        \* state.json: the ids whose enabled state the user toggled
    form,           \* the open form: << >>, or << [at: the id edited or "new", id, and fields] >>
    edits,
    annotated,      \* history: the processes given a key the schema does not know
    unknown,        \* history: ids a form sent as a link after they had gone
    emptied         \* history: <<id, field>> of the fields the last edit was told to empty

pfVars == <<file, toggles, form, edits, annotated, unknown, emptied>>

None == "none"
Fields == {"port", "links", "waitForPort", "starred"}
Empty == [port |-> None, links |-> {}, waitForPort |-> None, starred |-> FALSE]
Record(who) == [port |-> None, links |-> {}, waitForPort |-> None, starred |-> FALSE,
                who |-> who, extra |-> FALSE]

PfInit ==
    /\ file = [i \in FirstIds |-> Record(<<i, 0>>)] /\ toggles = {} /\ form = << >>
    /\ edits = 0 /\ annotated = {} /\ unknown = {} /\ emptied = {}

Edit == edits < MaxEdits /\ edits' = edits + 1

\* clean(): links without the process itself.
clean(id, r) == [r EXCEPT !.links = @ \ {id}]

\* writeRaw(): the keys of `extras` ride along under the id they were read with; the reload then
\* forgets the toggle of every id that has gone.
\* What if: the reload kept them.
ForgetNone(ids) == toggles
ForgetGone(ids) == toggles \cap ids
writeRaw(processes, extras) ==
    /\ file' = [i \in DOMAIN processes |-> [processes[i] EXCEPT !.extra = i \in extras]]
    /\ toggles' = ForgetGone(DOMAIN processes)
Extras == {i \in DOMAIN file : file[i].extra}

\* mergeOmitted: a field that was not sent keeps its stored value.
mergeOmitted(sent, stored) ==
    [f \in DOMAIN stored |-> IF f \in DOMAIN sent THEN sent[f] ELSE stored[f]]

\* JSON.stringify drops the fields whose value is undefined, which is how the form and an omitting
\* caller leave a field empty.
AsJson(fields) == [f \in {g \in Fields : fields[g] # Empty[g]} |-> fields[f]]

-------------------------------------------------------------------------------
addProcessToFile(id, sent, who) ==
    /\ id \notin DOMAIN file
    /\ LET new == clean(id, mergeOmitted(sent, Record(who)))
       IN  writeRaw([i \in DOMAIN file \cup {id} |-> IF i = id THEN new ELSE file[i]], Extras)

\* The record at localId is replaced; when its id changes, the siblings' links follow it, and so
\* do the keys kept for it.
\* What if: those keys stayed behind under the old id.
CarryNothing(localId, id) == Extras
Carry(localId, id) == IF localId \in Extras THEN (Extras \ {localId}) \cup {id} ELSE Extras
Follow(links, old, new) == IF old \in links THEN (links \ {old}) \cup {new} ELSE links
updateProcessInFile(localId, id, sent) ==
    /\ localId \in DOMAIN file /\ (id # localId => id \notin DOMAIN file)
    /\ LET stored == clean(id, mergeOmitted(sent, file[localId]))
           Put == [i \in (DOMAIN file \ {localId}) \cup {id} |-> IF i = id THEN stored ELSE file[i]]
       IN  IF id = localId THEN writeRaw(Put, Extras)
           ELSE writeRaw([i \in DOMAIN Put |->
                    clean(i, [Put[i] EXCEPT !.links = Follow(@, localId, id)])], Carry(localId, id))

removeProcessFromFile(localId) ==
    /\ Cardinality(DOMAIN file) > 1 /\ localId \in DOMAIN file
    /\ writeRaw([i \in DOMAIN file \ {localId} |->
                     [file[i] EXCEPT !.links = @ \ {localId}]], Extras)

-------------------------------------------------------------------------------
Flip(set, x) == IF x \in set THEN set \ {x} ELSE set \cup {x}

(* The form: filled when it opens, and not again while it is open. *)
OpenForm(id) ==
    /\ form = << >> /\ id \in DOMAIN file
    /\ form' = << [at |-> id, id |-> id, typed |-> {},
                   fields |-> [f \in Fields |-> file[id][f]]] >>
    /\ UNCHANGED <<file, toggles, edits, annotated, unknown, emptied>>
NewForm(id) ==
    /\ form = << >>
    /\ form' = << [at |-> "new", id |-> id, typed |-> {}, fields |-> Empty] >>
    /\ UNCHANGED <<file, toggles, edits, annotated, unknown, emptied>>
Typed(f, what) == form' = << [f EXCEPT !.typed = @ \cup {what}] >>
TypeInForm ==
    /\ form # << >> /\ Cardinality(form[1].typed) < MaxTyped
    /\ LET f == form[1] IN
       \/ \E id \in LocalIds \ {f.id} : Typed([f EXCEPT !.id = id], "id")
       \/ \E p \in {None, "p"} \ {f.fields.port} : Typed([f EXCEPT !.fields.port = p], "port")
       \/ \E i \in DOMAIN file \ {f.at} :
              \/ Typed([f EXCEPT !.fields.links = Flip(@, i)], "links")
              \/ Typed([f EXCEPT !.fields.waitForPort = IF @ = i THEN None ELSE i],
                        "waitForPort")
    /\ UNCHANGED <<file, toggles, edits, annotated, unknown, emptied>>
\* save(): the payload over HTTP; an error keeps the form open and the file as it was.
SaveForm ==
    /\ form # << >> /\ Edit /\ form' = << >>
    /\ LET f == form[1] sent == AsJson(f.fields) IN
           /\ IF f.at = "new" THEN addProcessToFile(f.id, sent, <<f.id, edits'>>)
              ELSE updateProcessInFile(f.at, f.id, sent)
           /\ unknown' = unknown \cup (f.fields.links \ DOMAIN file')
           /\ emptied' = {<<f.id, g>> : g \in
                             {h \in Fields \cap f.typed : f.fields[h] = Empty[h]}}
    /\ UNCHANGED annotated
CancelForm ==
    /\ form # << >> /\ form' = << >>
    /\ UNCHANGED <<file, toggles, edits, annotated, unknown, emptied>>

(* The other callers. *)
Remove(id) ==
    /\ Edit /\ removeProcessFromFile(id) /\ emptied' = {}
    /\ UNCHANGED <<form, annotated, unknown>>
setProcessStarred(id, starred) ==
    /\ Edit /\ id \in DOMAIN file /\ emptied' = {}
    /\ writeRaw([file EXCEPT ![id].starred = starred], Extras)
    /\ UNCHANGED <<form, annotated, unknown>>
\* An MCP update that carries only id, name and command.
BareUpdate(id) ==
    /\ Edit /\ updateProcessInFile(id, id, AsJson(Empty)) /\ emptied' = {}
    /\ UNCHANGED <<form, annotated, unknown>>
setEnabledOverride(id) ==
    /\ id \in DOMAIN file /\ id \notin toggles /\ toggles' = toggles \cup {id}
    /\ UNCHANGED <<file, form, edits, annotated, unknown, emptied>>
\* Somebody edits the file by hand and gives a process a key of their own.
Annotate(id) ==
    /\ Edit /\ id \in DOMAIN file /\ file' = [file EXCEPT ![id].extra = TRUE] /\ emptied' = {}
    /\ annotated' = annotated \cup {file[id].who} /\ UNCHANGED <<toggles, form, unknown>>

PfNext ==
    \/ TypeInForm \/ SaveForm \/ CancelForm
    \/ \E id \in LocalIds :
           \/ setEnabledOverride(id)
           \/ OpenForm(id) \/ NewForm(id) \/ Remove(id) \/ BareUpdate(id) \/ Annotate(id)
           \/ \E b \in BOOLEAN : setProcessStarred(id, b)

-------------------------------------------------------------------------------
PfTypeOK ==
    /\ DOMAIN file \subseteq LocalIds /\ DOMAIN file # {} /\ Len(form) <= 1
    /\ \A i \in DOMAIN file : file[i].links \subseteq LocalIds /\ file[i].extra \in BOOLEAN

\* Through renames, removals and re-used ids: no link names the process itself or one that is
\* gone, but those a form sent that was filled before it went; a key the schema does not know
\* stays with the process it was given to; and a toggle belongs to a process that is there.
EditsKeepTheRest ==
    /\ \A i \in DOMAIN file : file[i].links \subseteq (DOMAIN file \cup unknown) \ {i}
    /\ \A i \in DOMAIN file : file[i].extra <=> file[i].who \in annotated
    /\ toggles \subseteq DOMAIN file

\* "a key sent as `undefined` clears it" (server/src/projects/file-store.ts:217-218), which is what
\* the form sends for a field that was emptied.
EmptiedIsCleared ==
    \A e \in emptied : e[1] \in DOMAIN file => file[e[1]][e[2]] = Empty[e[2]]

\* A process waits for the port of a process that is there, through renames and removals.
WaitsResolve ==
    \A i \in DOMAIN file : file[i].waitForPort \in DOMAIN file \cup unknown \cup {None}
-------------------------------------------------------------------------------
(* takeover.ts: VS Code's tasks.json and the Vite extension's flag in settings.json start a   *)
(* folder's server as well; taking over edits them in place, with a backup beside each, and   *)
(* a restore puts the backups back. Of a file's text there is left what starts a server, and  *)
(* which of the user's edits it is. Each request of http/project-routes.ts runs to its end.   *)

CONSTANT MaxTyping  \* a bound: how often the user edits one of the files
ASSUME TakeOverAssumption == MaxTyping \in Nat

VARIABLES
    vscode,     \* the text of each file, or NoText when it is not there
    backup,     \* the text of <file>.devwebui-bak
    pristine,   \* history: what a take-over found in a file it came upon first since a restore
    unbacked,    \* history: the files written when there was no backup of them, since a restore
    typing

toVars == <<vscode, backup, pristine, unbacked, typing>>

VsFiles == {"tasks", "settings"}
\* A trigger the edit finds, and one it does not: with a comment between the key and its value.
VsText == [plain : BOOLEAN, veiled : BOOLEAN, version : 0 .. MaxTyping]
NoText == [plain |-> FALSE, veiled |-> FALSE, version |-> MaxTyping + 1]
Written(v) == {t \in VsText : t.version = v}
NoTexts == [f \in VsFiles |-> NoText]

ToInit ==
    /\ vscode \in [VsFiles -> Written(0) \cup {NoText}]
    /\ backup = NoTexts /\ pristine = NoTexts /\ unbacked = {} /\ typing = 0

detectAutostartTriggers == {f \in VsFiles : vscode[f].plain \/ vscode[f].veiled}
Retired(t) == [t EXCEPT !.plain = FALSE]

\* What if: every take-over made its backup anew.
BackupAnew(f) == vscode[f]
backupOnce(f) == IF backup[f] = NoText THEN vscode[f] ELSE backup[f]

\* The files with a trigger; of these an unreadable one and one without anything to change are
\* skipped. A backup that fails is not reported, and does not keep the file from being written;
\* a write that fails leaves the file, and its backup.
takeOverAutostart(readable, backed, written) ==
    LET changes == {f \in detectAutostartTriggers \cap readable : Retired(vscode[f]) # vscode[f]}
        upon == changes \cap (backed \cup written)
    IN  /\ vscode' = [f \in VsFiles |->
               IF f \in changes \cap written THEN Retired(vscode[f]) ELSE vscode[f]]
        /\ backup' = [f \in VsFiles |->
               IF f \in changes \cap backed THEN backupOnce(f) ELSE backup[f]]
        /\ pristine' = [f \in VsFiles |->
               IF f \in upon /\ pristine[f] = NoText THEN vscode[f] ELSE pristine[f]]
        /\ unbacked' = unbacked \cup {f \in changes \cap written : backup'[f] = NoText}
        /\ UNCHANGED typing

\* What if: the backup stayed beside the restored file.
KeepsBackup(back) == backup
Removed(back) == [f \in VsFiles |-> IF f \in back THEN NoText ELSE backup[f]]
\* Each backup is copied back and then removed; either can fail, which is reported as skipped.
restoreAutostart(copied, back) ==
    LET there == {f \in VsFiles : backup[f] # NoText}
    IN  /\ back \subseteq copied /\ copied \subseteq there
        /\ vscode' = [f \in VsFiles |-> IF f \in copied THEN backup[f] ELSE vscode[f]]
        /\ backup' = Removed(back)
        /\ pristine' = [f \in VsFiles |-> IF f \in back THEN NoText ELSE pristine[f]]
        /\ unbacked' = unbacked \ back
        /\ UNCHANGED typing

\* The user edits a file, or removes it.
Type(f) ==
    /\ typing < MaxTyping /\ typing' = typing + 1
    /\ \E t \in Written(typing') \cup {NoText} : vscode' = [vscode EXCEPT ![f] = t]
    /\ UNCHANGED <<backup, pristine, unbacked>>

ToNext ==
    \/ \E readable, backed, written \in SUBSET VsFiles :
           takeOverAutostart(readable, backed, written)
    \/ \E copied, back \in SUBSET VsFiles : restoreAutostart(copied, back)
    \/ \E f \in VsFiles : Type(f)

ToSpec == ToInit /\ [][ToNext]_toVars

ToTypeOK ==
    /\ \A f \in VsFiles : {vscode[f], backup[f], pristine[f]} \subseteq VsText \cup {NoText}
    /\ unbacked \subseteq VsFiles /\ typing \in 0 .. MaxTyping

\* "preserve the pristine original across re-runs", and "so a later take-over can capture a fresh
\* pristine copy" (takeover.ts:91 and 176): what a restore would put back is the text that a
\* take-over found when it first came upon the file since the last restore of it, however often
\* the user edits the file and takes over again and whichever reads, writes and removals fail.
\* But for a file that was written although its backup had failed: its text is nowhere.
RestoreBringsBack ==
    \A f \in VsFiles \ unbacked : pristine[f] # NoText => backup[f] = pristine[f]

\* "Retire every detected external auto-start trigger under `dir`. Backs up first."
\* (takeover.ts:145): no file is written of which there is no backup.
BacksUpFirst == unbacked = {}
================================================================================
