---------------------------- MODULE ProjectWatch ----------------------------
(***************************************************************************)
(* project-watch.ts and manager/projects.ts for one project: its file is   *)
(* written by editors while the daemon reads it (twice per reload), polls  *)
(* its stat, waits out a debounce, and applies what it read to the         *)
(* processes registered, starting and running.                             *)
(*                                                                         *)
(* A handler of the daemon runs to its end before the next, but the disk   *)
(* may change between any two of its reads: `busy` is a handler between    *)
(* two of them.  Starts and stops are those of Lifecycle in brief: a start *)
(* is due, queued or begun with the definition of that moment, of which it *)
(* has compose prepare the stack; a child is spawned with the definition   *)
(* registered by then; a child is being ended.                             *)
(***************************************************************************)
EXTENDS Naturals

CONSTANTS
  Texts,      \* what the file may hold, half-written saves included
  Valid,      \* the texts that parse
  Procs,      \* process ids
  DefOf,      \* what is executed for each process, per valid text
  NoDef,      \* not in the file; not registered; no child
  NoText,     \* no such file, or unreadable; never read
  MaxWrites   \* bound: writes of the file

Defs == UNION {{DefOf[t][p] : p \in Procs} : t \in Valid}

ASSUME WatchAssumption ==
  /\ Valid \subseteq Texts /\ NoText \notin Texts
  /\ DefOf \in [Valid -> [Procs -> Defs]]
  /\ MaxWrites \in Nat

VARIABLES
  disk, dir, stamp,   \* the file's text, whether its directory exists, its stat
  event,              \* an fs.watch event not yet delivered
  armed,              \* dirWatchers has a watch of the directory
  watched,            \* the project is loaded and its file in realPath
  lastText, seen,     \* lastText and stamps of the file (0: no stamp)
  timer,              \* its debounce timer is pending
  busy,               \* a handler between two reads of the disk
  stopped,            \* shutdown
  reg,                \* Entry.def, as far as it is executed
  run,                \* the definition the child was spawned with
  due,                \* starts queued or begun whose child is not there yet
  prep,               \* the definition start() began with: compose prepared its stack
  ending,             \* children being stopped
  changed             \* Entry.configChanged

diskVars == <<disk, dir, stamp>>
watchVars == <<armed, watched, lastText, seen, timer, stopped>>
procVars == <<reg, run, due, prep, ending, changed>>
allVars == <<diskVars, event, watchVars, busy, procVars>>

\* How far a handler is: the text it read, whether the poll began it, and the
\* stamp it took before.
Handling(at, raw, poll, taken) == [at |-> at, raw |-> raw, poll |-> poll, stamp |-> taken]

Nothing == Handling("idle", NoText, FALSE, 0)

Handler == [at    : {"idle", "read", "parse", "add", "prime", "reread"},
            raw   : Texts \cup {NoText},
            poll  : BOOLEAN,
            stamp : Nat]

WatchInit ==
  /\ disk \in Valid /\ dir = TRUE /\ stamp = 1
  /\ event = FALSE /\ armed = FALSE /\ watched = FALSE
  /\ lastText = NoText /\ seen = 0 /\ timer = FALSE
  /\ busy = Nothing /\ stopped = FALSE
  /\ reg = [p \in Procs |-> NoDef] /\ run = [p \in Procs |-> NoDef]
  /\ prep = [p \in Procs |-> NoDef] /\ due = {} /\ ending = {} /\ changed = [p \in Procs |-> FALSE]

-----------------------------------------------------------------------------
(* The disk.  An event may be lost, or come late.                           *)

Write(t) ==
  /\ stamp <= MaxWrites /\ ~stopped
  /\ disk' = t /\ dir' = TRUE /\ stamp' = stamp + 1
  /\ event' \in {event, event \/ armed}
  /\ UNCHANGED <<watchVars, busy, procVars>>

\* The window of an atomic save; the whole folder removed, or put back empty.
Unlink ==
  /\ ~stopped
  /\ disk' = NoText /\ dir' \in BOOLEAN
  /\ event' \in {event, event \/ armed}
  /\ UNCHANGED <<stamp, watchVars, busy, procVars>>

StatStamp == IF disk = NoText THEN 0 ELSE stamp

-----------------------------------------------------------------------------
(* What a reload does to the processes.                                     *)

\* What if: a watch reload applied a changed definition without a word.
FlagsNothing(p, d) == FALSE

\* A running process whose definition changed is flagged by a watch reload.
Flags(p, d) == run[p] # NoDef /\ reg[p] # d[p]

\* What if: a process that appears were started by a watch reload too.
StartsAll(fromWatch, auto, d) == {p \in auto : reg[p] = NoDef /\ d[p] # NoDef}

\* A process that appears starts by itself only when a user asked for the reload.
Starts(fromWatch, auto, d) ==
  IF fromWatch THEN {} ELSE {p \in auto : reg[p] = NoDef /\ d[p] # NoDef}

\* startMany: the first of them begins at once, the others are queued.
BeginsOne(S, d, kept) ==
  \/ S = {} /\ prep' = kept
  \/ \E p \in S : prep' = [kept EXCEPT ![p] = d[p]]

\* reconcileProject: removed processes are discarded, new ones registered,
\* changed ones restarted, or on a watch reload only flagged.
Reconcile(d, fromWatch, auto) ==
  LET removed == {p \in Procs : d[p] = NoDef}
      restarts == {p \in Procs \ removed : run[p] # NoDef /\ reg[p] # d[p] /\ ~fromWatch}
  IN /\ reg' = d
     /\ run' = [p \in Procs |-> IF p \in removed THEN NoDef ELSE run[p]]
     /\ due' = (due \ removed) \cup Starts(fromWatch, auto, d)
     /\ BeginsOne(Starts(fromWatch, auto, d), d,
                  [p \in Procs |-> IF p \in removed THEN NoDef ELSE prep[p]])
     /\ ending' = (ending \ removed) \cup restarts
     /\ changed' = [p \in Procs |-> p \notin removed /\ (changed[p] \/ (fromWatch /\ Flags(p, d)))]

\* purgeProject, and addProject's fresh entries for the definitions d.
Replace(d, auto) ==
  /\ reg' = d
  /\ run' = [p \in Procs |-> NoDef]
  /\ due' = {p \in auto : d[p] # NoDef}
  /\ BeginsOne({p \in auto : d[p] # NoDef}, d, [p \in Procs |-> NoDef])
  /\ ending' = {}
  /\ changed' = [p \in Procs |-> FALSE]

-----------------------------------------------------------------------------
(* The watcher.                                                             *)

Idle == busy = Nothing /\ ~stopped

\* syncDirs: a watch that is there stays, one that is missing is armed again.
Rearmed == armed \/ dir

\* What if: the poll took a stamp as seen although the file could not be read.
SeenAnyway(readable) == IF busy.poll THEN busy.stamp ELSE seen

\* The poll remembers a stamp only when the reload could read the file.
SeenAfter(readable) == IF busy.poll /\ readable THEN busy.stamp ELSE seen

Ends(readable, synced) ==
  /\ busy' = Nothing
  /\ seen' = SeenAfter(readable)
  /\ armed' = IF busy.poll \/ synced THEN Rearmed ELSE armed

\* An event arms the debounce; from a directory that is gone it ends the watch it
\* came from, perhaps not the one that is armed by now.
Event ==
  /\ Idle /\ event
  /\ event' = FALSE
  /\ IF dir THEN timer' = watched /\ armed' = armed
            ELSE armed' \in {FALSE, armed} /\ timer' = timer
  /\ UNCHANGED <<diskVars, watched, lastText, seen, stopped, busy, procVars>>

WatchError ==
  /\ Idle /\ armed
  /\ armed' = FALSE
  /\ UNCHANGED <<diskVars, event, watched, lastText, seen, timer, stopped, busy, procVars>>

TimerFires ==
  /\ Idle /\ timer
  /\ timer' = FALSE
  /\ busy' = Handling("read", NoText, FALSE, 0)
  /\ UNCHANGED <<diskVars, event, armed, watched, lastText, seen, stopped, procVars>>

\* The stat has changed: reload now.
PollReads ==
  /\ Idle /\ watched /\ StatStamp \notin {0, seen}
  /\ busy' = Handling("read", NoText, TRUE, StatStamp)
  /\ UNCHANGED <<diskVars, event, watchVars, procVars>>

\* It has not: only the directory's watch is looked after.
PollRearms ==
  /\ Idle /\ watched /\ StatStamp \in {0, seen}
  /\ armed' = Rearmed
  /\ UNCHANGED <<diskVars, event, watched, lastText, seen, timer, stopped, busy, procVars>>

\* reload, first read: the file is gone, or held by whoever writes it.
ReadFails ==
  /\ busy.at = "read"
  /\ Ends(FALSE, FALSE)
  /\ UNCHANGED <<diskVars, event, watched, lastText, timer, stopped, procVars>>

\* A text that is already remembered ends it.
ReadRaw ==
  /\ busy.at = "read" /\ disk # NoText
  /\ IF disk = lastText
     THEN Ends(TRUE, FALSE)
     ELSE busy' = Handling("parse", disk, busy.poll, busy.stamp) /\ UNCHANGED <<seen, armed>>
  /\ UNCHANGED <<diskVars, event, watched, lastText, timer, stopped, procVars>>

\* reload, second read: what it finds is applied if it can be read and parses;
\* the first text is remembered either way.
Parse ==
  /\ busy.at = "parse"
  /\ lastText' = busy.raw
  /\ \/ disk \in Valid /\ Reconcile(DefOf[disk], TRUE, Procs) /\ Ends(TRUE, TRUE)
     \/ UNCHANGED procVars /\ Ends(TRUE, FALSE)
  /\ UNCHANGED <<diskVars, event, watched, timer, stopped>>

-----------------------------------------------------------------------------
(* Users: load (boot included), edit, remove, shut down.                    *)

Load ==
  /\ Idle /\ disk \in Valid
  /\ busy' = Handling("add", disk, FALSE, 0)
  /\ UNCHANGED <<diskVars, event, watchVars, procVars>>

\* addProject; sync stamps a file that is new to it before it reads it.
AddProject(auto) ==
  /\ busy.at = "add"
  /\ Replace(DefOf[busy.raw], auto)
  /\ busy' = IF watched THEN Nothing ELSE Handling("prime", NoText, FALSE, StatStamp)
  /\ armed' = (watched /\ Rearmed)
  /\ UNCHANGED <<diskVars, event, watched, lastText, seen, timer, stopped>>

\* sync, second half: the file as it is now is what the manager is taken to hold.
Prime ==
  /\ busy.at = "prime"
  /\ watched' = TRUE
  /\ lastText' \in {disk, NoText}
  /\ seen' = IF lastText' = NoText THEN 0 ELSE busy.stamp
  /\ armed' = dir
  /\ busy' = Nothing
  /\ UNCHANGED <<diskVars, event, timer, stopped, procVars>>

\* An edit in the GUI writes the file and reads it back.
Edit(t) ==
  /\ Idle /\ watched /\ disk \in Valid /\ stamp <= MaxWrites
  /\ disk' = t /\ stamp' = stamp + 1
  /\ event' \in {event, event \/ armed}
  /\ busy' = Handling("reread", NoText, FALSE, 0)
  /\ UNCHANGED <<dir, watchVars, procVars>>

Reread(auto) ==
  /\ busy.at = "reread"
  /\ \/ disk \in Valid /\ Reconcile(DefOf[disk], FALSE, auto) /\ Ends(TRUE, TRUE)
     \/ UNCHANGED procVars /\ Ends(TRUE, FALSE)
  /\ UNCHANGED <<diskVars, event, watched, lastText, timer, stopped>>

\* What if: the debounce timer outlived the watch of its file.
TimerStays == timer

\* The debounce timer of a file that is watched no more.
TimerCancelled == FALSE

Unwatched ==
  /\ watched' = FALSE /\ lastText' = NoText /\ seen' = 0
  /\ timer' = TimerCancelled /\ armed' = FALSE

\* removeProject, once its stops have ended.
Remove ==
  /\ Idle /\ watched
  /\ Replace([p \in Procs |-> NoDef], {})
  /\ Unwatched
  /\ UNCHANGED <<diskVars, event, stopped, busy>>

Shutdown ==
  /\ Idle
  /\ stopped' = TRUE
  /\ Unwatched
  /\ UNCHANGED <<diskVars, event, busy, procVars>>

-----------------------------------------------------------------------------
(* The processes meanwhile.                                                 *)

\* start(), by a user, at the end of a restart or by the queue's timer: held drift is now
\* applied. The compose step is handed the definition as it is now.
Start(p) ==
  /\ Idle /\ reg[p] # NoDef /\ run[p] = NoDef /\ prep[p] = NoDef
  /\ due' = due \cup {p} /\ prep' = [prep EXCEPT ![p] = reg[p]]
  /\ changed' = [changed EXCEPT ![p] = FALSE]
  /\ UNCHANGED <<diskVars, event, watchVars, busy, reg, run, ending>>

\* A start that has begun fails, or its child is spawned: the command, directory and own
\* environment are those registered by now, the stack and what it puts into the environment
\* those of the start.
Spawn(p) ==
  /\ Idle /\ p \in due /\ prep[p] # NoDef
  /\ due' = due \ {p}
  /\ \/ run' = [run EXCEPT ![p] = reg[p]] /\ UNCHANGED prep
     \/ prep' = [prep EXCEPT ![p] = NoDef] /\ UNCHANGED run
  /\ UNCHANGED <<diskVars, event, watchVars, busy, reg, ending, changed>>

\* stop(), or the stop of a restart().
Stop(p) ==
  /\ Idle /\ reg[p] # NoDef
  /\ due' = due \ {p}
  /\ IF run[p] = NoDef THEN prep' = [prep EXCEPT ![p] = NoDef] /\ UNCHANGED ending
                       ELSE ending' = ending \cup {p} /\ UNCHANGED prep
  /\ UNCHANGED <<diskVars, event, watchVars, busy, reg, run, changed>>

Exit(p) ==
  /\ Idle /\ run[p] # NoDef
  /\ run' = [run EXCEPT ![p] = NoDef] /\ prep' = [prep EXCEPT ![p] = NoDef]
  /\ ending' = ending \ {p}
  /\ UNCHANGED <<diskVars, event, watchVars, busy, reg, due, changed>>

-----------------------------------------------------------------------------
HandlerGoesOn ==
  \/ ReadFails \/ ReadRaw \/ Parse \/ Prime
  \/ \E auto \in SUBSET Procs : AddProject(auto) \/ Reread(auto)

WatchNext ==
  \/ Unlink \/ \E t \in Texts : Write(t)
  \/ Event \/ WatchError \/ TimerFires \/ PollReads \/ PollRearms
  \/ HandlerGoesOn
  \/ Load \/ Remove \/ Shutdown \/ \E t \in Valid : Edit(t)
  \/ \E p \in Procs : Start(p) \/ Spawn(p) \/ Stop(p) \/ Exit(p)

WatchSpec == WatchInit /\ [][WatchNext]_allVars

\* A handler runs to its end; the poll's interval is served between handlers,
\* however many come; a file is not locked at each of its reads for ever.
\* Nothing is assumed of fs.watch, nor of the debounce.
WatchFairSpec ==
  WatchSpec /\ WF_allVars(HandlerGoesOn) /\ SF_allVars(PollReads) /\ SF_allVars(ReadRaw)

-----------------------------------------------------------------------------
(* Properties.                                                              *)

\* Nothing is left of a file that is watched no more, and a start is due only
\* of a registered process without a child.
WatchTypeOK ==
  /\ disk \in Texts \cup {NoText} /\ stamp \in Nat \ {0}
  /\ lastText \in Texts \cup {NoText} /\ seen \in 0..stamp /\ busy \in Handler
  /\ {dir, event, armed, watched, timer, stopped} \subseteq BOOLEAN
  /\ reg \in [Procs -> Defs \cup {NoDef}] /\ run \in [Procs -> Defs \cup {NoDef}]
  /\ changed \in [Procs -> BOOLEAN]
  /\ ~watched => lastText = NoText /\ seen = 0 /\ ~timer /\ ~armed
  /\ prep \in [Procs -> Defs \cup {NoDef}]
  /\ \A p \in Procs : prep[p] # NoDef => p \in due \/ run[p] # NoDef
  /\ due \subseteq {p \in Procs : reg[p] # NoDef /\ run[p] = NoDef}
  /\ ending \subseteq {p \in Procs : run[p] # NoDef}

\* A child whose command, directory and environment are of another definition than the
\* one the daemon shows is marked so, or is on its way out: whatever mix of reloads, edits,
\* starts and restarts. The stack that compose prepared for it is StackDriftIsFlagged.
DriftIsFlagged ==
  \A p \in Procs : run[p] \notin {NoDef, reg[p]} => changed[p] \/ p \in ending

\* lifecycle.ts: "this start uses the current def, so any held drift is now applied", and
\* projects.ts: "A compose block runs docker commands before spawning, so it is executed
\* config too". So is the stack a child was prepared with that of the definition shown, or
\* the child flagged or on its way out. (Definitions differ in their compose blocks here.)
StackDriftIsFlagged ==
  \A p \in Procs : run[p] # NoDef /\ prep[p] # reg[p] => changed[p] \/ p \in ending

\* A reload caused by the file starts nothing and ends nothing that is still in
\* the file, whatever it found there.
WatchExecutesNothing ==
  [][busy.at = "parse" =>
       /\ due' \subseteq due
       /\ ending' \subseteq ending
       /\ \A p \in Procs : run'[p] = run[p] \/ reg'[p] = NoDef]_allVars

\* The watcher looks at the last text written, with every event lost, the file
\* missing or locked for a while and writes falling between its reads.
LooksAtLast ==
  \A t \in Texts : <>[](watched /\ disk = t) => <>[](lastText = t)

\* What the head of project-watch.ts says: a change of the file shows up without
\* a restart.  (The text remembered is not always the one that was applied.)
ShowsUp ==
  \A t \in Valid : <>[](watched /\ disk = t) => <>[](reg = DefOf[t])
=============================================================================
