------------------------------- MODULE LiveView -------------------------------
(* The GUI's copy of the daemon's state: web/src/store.ts kept up to date by the event      *)
(* stream of http/core.ts, by whole refreshes over HTTP and by optimistic removals. The     *)
(* daemon pushes a status at once, its error and alert lists from the monitoring tick, and  *)
(* all three lists when a stream opens. One process stands for the project list: {v}, where *)
(* v is its view, a number new at every change.                                             *)
EXTENDS Naturals, Sequences, FiniteSets

CONSTANTS
    Records,       \* error records; an alert list is a set of them as well
    MaxChanges,    \* a bound: changes of the process, of a list, and refreshes
    MaxDrops       \* a bound: streams lost

ASSUME LiveViewAssumption == MaxChanges \in Nat

VARIABLES
    view,          \* the daemon: the process's view; 0 is its view when it is stopped
    errs, alertLog, dirty,  \* its lists, and which of errorsDirty and alertsDirty are set
    stream,        \* "closed", or which snapshots the open stream still owes the client
    channel,       \* events written to the stream and not yet seen by the page
    data,          \* useEventSource's data ref: the text of the last payload seen
    gui,           \* the store's projects, errors and alertEvents
    asking, refresh,  \* whether a refresh() is under way, and its answers so far
    removing,      \* removals asked of the daemon and not answered
    changes, drops,         \* history: the bounds
    stale          \* history: the fields that something older, or nothing, was written over

lwVars == <<view, errs, alertLog, dirty, stream, channel, data, gui, asking, refresh, removing,
            changes, drops, stale>>

daemonVars == <<view, errs, alertLog, dirty>>
wireVars == <<stream, channel>>
pageVars == <<data, gui>>
askVars == <<asking, refresh, removing>>
lwHistory == <<changes, drops, stale>>

Fields == {"projects", "errors", "alerts"}
Lists == {"errors", "alerts"}
Daemon(f) == IF f = "projects" THEN {view} ELSE IF f = "errors" THEN errs ELSE alertLog
\* JSON.stringify: two lists that are both empty have the same text.
Text(f) == IF Daemon(f) = {} THEN <<"[]", {}>> ELSE <<f, Daemon(f)>>
Snapshot(f) == [field |-> f, value |-> Daemon(f), text |-> Text(f)]

\* The stream's handler adds the client before it writes the first snapshot.
\* What if: it was added after the last one.
ListeningLate == stream = "open"
Listening == stream # "closed"
\* broadcast(): to the client that is connected, or to nobody.
Broadcast(events) == channel' = IF Listening THEN channel \o events ELSE channel

LwInit ==
    /\ view = 0 /\ errs = {} /\ alertLog = {} /\ dirty = {}
    /\ stream = "closed" /\ channel = << >> /\ data = <<"", {}>>
    /\ gui = [f \in Fields |-> IF f = "projects" THEN {0} ELSE {}]
    /\ asking = FALSE /\ refresh = [f \in {} |-> {}] /\ removing = {}
    /\ changes = 0 /\ drops = 0 /\ stale = {}

Change == changes < MaxChanges /\ changes' = changes + 1

-------------------------------------------------------------------------------
(* The daemon. *)

\* emitStatus: the process starts, runs on (a metrics tick) or stops.
StatusChanges ==
    /\ Change /\ view' \in {0, changes'} /\ view' # view
    /\ Broadcast(<< [field |-> "projects", value |-> {view'}, text |-> <<"status", {view'}>>] >>)
    /\ UNCHANGED <<pageVars, askVars, errs, alertLog, dirty, stream, drops, stale>>

\* errors.record and clear, an alert that fires: the list changes and its flag is set.
ErrorsChange ==
    /\ Change /\ errs' \in SUBSET Records \ {errs} /\ dirty' = dirty \cup {"errors"}
    /\ UNCHANGED <<wireVars, pageVars, askVars, view, alertLog, drops, stale>>
AlertsChange ==
    /\ Change /\ alertLog' \in SUBSET Records \ {alertLog} /\ dirty' = dirty \cup {"alerts"}
    /\ UNCHANGED <<wireVars, pageVars, askVars, view, errs, drops, stale>>

\* tick(): errors first, then alerts, each when its flag is set.
Dirty == [f \in Lists |-> IF f \in dirty THEN << Snapshot(f) >> ELSE << >>]
Tick ==
    /\ dirty # {} /\ dirty' = {} /\ Broadcast(Dirty["errors"] \o Dirty["alerts"])
    /\ UNCHANGED <<pageVars, askVars, lwHistory, view, errs, alertLog, stream>>

\* The stream's handler: the client is added, then the three lists, each read when written.
OpenStream ==
    /\ stream = "closed" /\ stream' = "projects" /\ channel' = << Snapshot("projects") >>
    /\ UNCHANGED <<daemonVars, pageVars, askVars, lwHistory>>
NextSnapshot ==
    /\ \/ stream = "projects" /\ stream' = "errors" /\ channel' = Append(channel, Snapshot("errors"))
       \/ stream = "errors" /\ stream' = "open" /\ channel' = Append(channel, Snapshot("alerts"))
    /\ UNCHANGED <<daemonVars, pageVars, askVars, lwHistory>>
DropStream ==
    /\ stream # "closed" /\ drops < MaxDrops /\ drops' = drops + 1
    /\ stream' = "closed" /\ channel' = << >>
    /\ UNCHANGED <<daemonVars, pageVars, askVars, changes, stale>>

-------------------------------------------------------------------------------
(* The page. *)

\* The watch on `data`: a payload equal to the one before does not trigger it.
Receive ==
    /\ channel # << >> /\ channel' = Tail(channel)
    /\ LET e == channel[1] IN
           /\ data' = e.text
           /\ IF e.text = data
              THEN /\ gui' = gui
                   /\ stale' = IF gui[e.field] # e.value THEN stale \cup {e.field} ELSE stale
              ELSE /\ gui' = [gui EXCEPT ![e.field] = e.value]
                   /\ stale' = stale \ {e.field}
    /\ UNCHANGED <<daemonVars, askVars, stream, changes, drops>>

\* refresh(): three requests at once, answered in any order, assigned when all have answered.
AskRefresh ==
    /\ ~asking /\ asking' = TRUE /\ Change
    /\ UNCHANGED <<daemonVars, wireVars, pageVars, refresh, removing, drops, stale>>
AnswerRefresh(f) ==
    /\ asking /\ f \notin DOMAIN refresh
    /\ refresh' = [g \in DOMAIN refresh \cup {f} |-> IF g = f THEN Daemon(f) ELSE refresh[g]]
    /\ UNCHANGED <<daemonVars, wireVars, pageVars, lwHistory, asking, removing>>
\* All answered, or one failed and nothing is assigned. An answer that the stream overtook is
\* older than what it replaces.
EndRefresh(ok) ==
    /\ asking /\ asking' = FALSE /\ refresh' = [f \in {} |-> {}]
    /\ ok => DOMAIN refresh = Fields
    /\ gui' = IF ok THEN refresh ELSE gui
    /\ stale' = IF ok THEN {f \in Fields : refresh[f] # Daemon(f)} ELSE stale
    /\ UNCHANGED <<daemonVars, wireVars, data, removing, changes, drops>>

\* dismissError, clearErrorsLocal and clearAlertEventsLocal: removed here first, then asked.
RemoveLocal(f) ==
    /\ f \in Lists \ removing /\ gui[f] # {} /\ gui' = [gui EXCEPT ![f] = {}]
    /\ removing' = removing \cup {f}
    /\ UNCHANGED <<daemonVars, wireVars, lwHistory, data, asking, refresh>>
\* The daemon removes and marks the list, or the request fails: nothing is pushed then.
\* What if: a removal did not mark the list for the next push.
RemoveUnmarked(f, ok) ==
    /\ f \in removing /\ removing' = removing \ {f}
    /\ errs' = IF ok /\ f = "errors" THEN {} ELSE errs
    /\ alertLog' = IF ok /\ f = "alerts" THEN {} ELSE alertLog
    /\ stale' = IF ok \/ Daemon(f) = gui[f] THEN stale ELSE stale \cup {f}
    /\ UNCHANGED <<wireVars, pageVars, view, dirty, asking, refresh, changes, drops>>
RemoveAnswered(f, ok) ==
    /\ f \in removing /\ removing' = removing \ {f}
    /\ errs' = IF ok /\ f = "errors" THEN {} ELSE errs
    /\ alertLog' = IF ok /\ f = "alerts" THEN {} ELSE alertLog
    /\ dirty' = IF ok THEN dirty \cup {f} ELSE dirty
    /\ stale' = IF ok \/ Daemon(f) = gui[f] THEN stale ELSE stale \cup {f}
    /\ UNCHANGED <<wireVars, pageVars, view, asking, refresh, changes, drops>>

LwNext ==
    \/ StatusChanges \/ ErrorsChange \/ AlertsChange \/ Tick
    \/ OpenStream \/ NextSnapshot \/ DropStream \/ Receive
    \/ AskRefresh \/ \E ok \in BOOLEAN : EndRefresh(ok)
    \/ \E f \in Fields : AnswerRefresh(f)
    \/ \E f \in Lists : RemoveLocal(f) \/ \E ok \in BOOLEAN : RemoveAnswered(f, ok)

LwSpec == LwInit /\ [][LwNext]_lwVars

-------------------------------------------------------------------------------
LwTypeOK ==
    /\ view \in 0 .. MaxChanges /\ errs \subseteq Records /\ alertLog \subseteq Records
    /\ dirty \subseteq Lists /\ stream \in {"closed", "projects", "errors", "open"}
    /\ DOMAIN gui = Fields /\ DOMAIN refresh \subseteq Fields /\ removing \subseteq Lists
    /\ stale \subseteq Fields

\* Nothing is on its way any more.
Quiet ==
    /\ stream = "open" /\ channel = << >> /\ dirty = {}
    /\ ~asking /\ removing = {}

\* A page never stays behind the daemon but for three reasons, however snapshots, pushes, removals
\* and lost streams met: when nothing is on its way, a field that is not what the daemon has was
\* written over by a refresh answered before its last push, skipped because the payload equalled
\* the one before, or emptied by a removal that failed; and was not pushed since. So this says
\* nothing of a field that a late refresh hit: that it is shown old is StreamCatchesUp, refuted.
ViewIsCurrent == Quiet => \A f \in Fields \ stale : gui[f] = Daemon(f)

\* "SSE will catch us up" (web/src/components/FocusView.vue:109, and AppShell.vue:214) and "we
\* refresh as a belt-and-suspenders in case that snapshot lags" (web/src/store.ts:453): a process that
\* stopped is shown stopped when nothing is on its way.
StreamCatchesUp == Quiet /\ view = 0 => gui["projects"] = {0}

\* "if the daemon call fails, that same SSE snapshot resurfaces the record (self-healing)"
\* (web/src/store.ts:311-312): an error the daemon still has is shown again.
FailedDismissResurfaces == Quiet => gui["errors"] = errs
================================================================================
