------------------------------ MODULE Monitoring ------------------------------
(* What manager/monitoring.ts makes of the processes: the alerts of the samples it takes, and *)
(* the lines of their output. The two share nothing but the processes.                       *)
EXTENDS Naturals, Sequences, FiniteSets

(* THE ALERTS. *)
(* Threshold alerts: the metrics loop of manager/monitoring.ts samples every running        *)
(* process at once and hands the samples to alerts.ts, which fires a rule whose metric      *)
(* stayed over its threshold for the rule's window. The sample is awaited: processes stop   *)
(* and restart, and rules are edited, while it is under way. Rules and events are files;    *)
(* the breach windows live in memory only.                                                  *)

CONSTANTS
    Sampled,      \* the processes
    RuleIds,      \* the rules ever added (randomUUID: none twice)
    Windows,      \* the values of forMs, in metrics intervals
    MaxAlerts,    \* MAX_ALERT_EVENTS
    MaxTicks,     \* a bound: metrics ticks
    MaxRules      \* a bound: calls that add, edit or remove a rule

ASSUME AlertsAssumption ==
    /\ IsFiniteSet(RuleIds) /\ Windows \subseteq Nat /\ MaxAlerts \in Nat \ {0}
    /\ MaxTicks \in Nat

VARIABLES
    now,          \* metrics ticks so far
    pidOf, pids,  \* each entry's pid (0: not running), and the pids handed out
    sampling,     \* the pids of the sample under way; empty: metricsRunning is false
    rules,        \* the Map rules: from the ids present to their records
    breach,       \* the Map breach: [since, fired] of the rules that are over
    alerts,       \* events, newest first
    unsaved, saving, alertFile,  \* eventsDirty, saveTimer, alerts-events.ndjson
    ruleCalls,    \* history: calls that changed the rules
    edited,       \* history: the tick at which a rule began to mean what it means now
    looked        \* history: per process, what each completed tick saw, oldest first

alVars == <<now, pidOf, pids, sampling, rules, breach, alerts, unsaved, saving, alertFile,
            ruleCalls, edited, looked>>

None == << >>
Rule == [proc : Sampled, window : Windows, enabled : BOOLEAN]
Alert == [rule : RuleIds, at : 1 .. MaxTicks]
Without(f, S) == [x \in DOMAIN f \ S |-> f[x]]
Values(f) == {f[x] : x \in DOMAIN f}

AlInit ==
    /\ now = 0 /\ pids = 0 /\ ruleCalls = 0
    /\ pidOf = [p \in Sampled |-> 0]
    /\ sampling = None /\ breach = None
    /\ rules \in {None} \cup [RuleIds -> [proc : Sampled, window : Windows, enabled : {TRUE}]]
    /\ alerts = << >> /\ unsaved = FALSE /\ saving = FALSE /\ alertFile = << >>
    /\ edited = [r \in RuleIds |-> 0] /\ looked = [p \in Sampled |-> << >>]

-------------------------------------------------------------------------------
(* The processes, as the rest of the manager runs them. *)

Spawned(p) ==
    /\ pidOf[p] = 0 /\ pids < MaxTicks /\ pids' = pids + 1 /\ pidOf' = [pidOf EXCEPT ![p] = pids']
    /\ UNCHANGED <<now, sampling, rules, breach, alerts, unsaved, saving, alertFile,
                   ruleCalls, edited, looked>>
Ended(p) ==
    /\ pidOf[p] # 0 /\ pidOf' = [pidOf EXCEPT ![p] = 0]
    /\ UNCHANGED <<now, pids, sampling, rules, breach, alerts, unsaved, saving, alertFile,
                   ruleCalls, edited, looked>>

-------------------------------------------------------------------------------
(* metricsTick, pollMetrics and AlertStore.evaluate. *)

Running == {p \in Sampled : pidOf[p] # 0}

\* The timer. A tick during a sample returns at once, and so does one with nothing running.
MetricsTick ==
    /\ now < MaxTicks /\ now' = now + 1
    /\ sampling' = IF sampling = None THEN [p \in Running |-> pidOf[p]] ELSE sampling
    /\ UNCHANGED <<pidOf, pids, rules, breach, alerts, unsaved, saving, alertFile,
                   ruleCalls, edited, looked>>

\* stats[e.pid!]: the pid is read again, and only the pids asked for have an answer. `hot` are
\* the processes over the threshold at this moment.
\* What if: what was sampled were taken for the entry, whatever runs there by then.
AnsweredByEntry(p) == p \in DOMAIN sampling
Answered(p) == p \in DOMAIN sampling /\ pidOf[p] \in Values(sampling)
IsOver(r, hot) == rules[r].enabled /\ Answered(rules[r].proc) /\ rules[r].proc \in hot

Breach(r) == IF r \in DOMAIN breach THEN breach[r] ELSE [since |-> now, fired |-> FALSE]
Due(r) == ~Breach(r).fired /\ now - Breach(r).since >= rules[r].window
AfterLook(r) == [since |-> Breach(r).since, fired |-> Breach(r).fired \/ Due(r)]
\* What if: a window that is open stayed open when the metric drops back.
OverOrOpen(hot) == {r \in DOMAIN rules : IsOver(r, hot) \/ r \in DOMAIN breach}
Over(hot) == {r \in DOMAIN rules : IsOver(r, hot)}

Fired(hot) == {r \in Over(hot) : Due(r)}

\* One event for each rule that fires, in the order of the rules: any, here.
Told(fired) ==
    {told \in [1 .. Cardinality(fired) -> {[rule |-> r, at |-> now] : r \in fired}] :
         \A r \in fired : [rule |-> r, at |-> now] \in Values(told)}
Capped(all) == SubSeq(all, 1, IF Len(all) < MaxAlerts THEN Len(all) ELSE MaxAlerts)

Evaluate(hot) ==
    /\ breach' = [r \in Over(hot) |-> AfterLook(r)]
    /\ \E told \in Told(Fired(hot)) : alerts' = Capped(told \o alerts)
    /\ unsaved' = (unsaved \/ Fired(hot) # {}) /\ saving' = (saving \/ Fired(hot) # {})

\* A run that was sampled, and is the one that runs now, is what a look is about.
SampleArrives ==
    \E hot \in SUBSET Sampled :
        /\ sampling # None /\ sampling' = None
        /\ Evaluate(hot)
        /\ looked' = [p \in Sampled |-> Append(looked[p], [at |-> now, over |->
                         p \in hot /\ p \in DOMAIN sampling /\ sampling[p] = pidOf[p]])]
        /\ UNCHANGED <<now, pidOf, pids, rules, alertFile, ruleCalls, edited>>

-------------------------------------------------------------------------------
(* Rules and events, as the routes, the CLI and a reload change them. *)

RulesCall ==
    /\ ruleCalls < MaxRules /\ ruleCalls' = ruleCalls + 1
    /\ UNCHANGED <<now, pidOf, pids, sampling, alerts, unsaved, saving, alertFile, looked>>

AddRule(r, p, w) ==
    /\ RulesCall /\ r \notin DOMAIN rules /\ edited[r] = 0
    /\ rules' = [x \in DOMAIN rules \cup {r} |->
                    IF x = r THEN [proc |-> p, window |-> w, enabled |-> TRUE] ELSE rules[x]]
    /\ edited' = [edited EXCEPT ![r] = now]
    /\ UNCHANGED breach
\* What if: an edit kept the partial window of the old definition.
ReopenKept(r) == UNCHANGED breach
Reopen(r) == breach' = Without(breach, {r})
UpdateRule(r, p, w, on) ==
    /\ RulesCall /\ r \in DOMAIN rules
    /\ rules' = [rules EXCEPT ![r] = [proc |-> p, window |-> w, enabled |-> on]]
    /\ edited' = [edited EXCEPT ![r] = now]
    /\ Reopen(r)
RemoveRule(r) ==
    /\ RulesCall /\ r \in DOMAIN rules
    /\ rules' = Without(rules, {r}) /\ breach' = Without(breach, {r})
    /\ UNCHANGED edited
RemoveRulesForProcess(p) ==
    LET gone == {r \in DOMAIN rules : rules[r].proc = p}
    IN  /\ RulesCall /\ gone # {}
        /\ rules' = Without(rules, gone) /\ breach' = Without(breach, gone)
        /\ UNCHANGED edited
ClearEvents ==
    /\ alerts # << >> /\ alerts' = << >> /\ unsaved' = TRUE /\ saving' = TRUE
    /\ UNCHANGED <<now, pidOf, pids, sampling, rules, breach, alertFile, ruleCalls, edited,
                   looked>>

\* The debounced save; a failed write is not tried again.
SaveEvents ==
    /\ saving /\ saving' = FALSE /\ unsaved' = FALSE
    /\ alertFile' \in {alertFile, IF unsaved THEN alerts ELSE alertFile}
    /\ UNCHANGED <<now, pidOf, pids, sampling, rules, breach, alerts, ruleCalls, edited,
                   looked>>

\* The daemon dies and starts again: rules and events are read back, windows begin anew.
Reload == breach' = None /\ alerts' = alertFile
DaemonRestarts ==
    /\ Reload
    /\ pidOf' = [p \in Sampled |-> 0] /\ sampling' = None /\ unsaved' = FALSE /\ saving' = FALSE
    /\ edited' = [r \in RuleIds |-> IF r \in DOMAIN rules THEN now ELSE edited[r]]
    /\ looked' = [p \in Sampled |-> << >>]
    /\ UNCHANGED <<now, pids, rules, alertFile, ruleCalls>>

AlNext ==
    \/ \E p \in Sampled : Spawned(p) \/ Ended(p) \/ RemoveRulesForProcess(p)
    \/ MetricsTick \/ SampleArrives
    \/ \E r \in RuleIds, p \in Sampled, w \in Windows :
           AddRule(r, p, w) \/ \E on \in BOOLEAN : UpdateRule(r, p, w, on)
    \/ \E r \in RuleIds : RemoveRule(r)
    \/ ClearEvents \/ SaveEvents \/ DaemonRestarts

AlSpec == AlInit /\ [][AlNext]_alVars

-------------------------------------------------------------------------------
AlTypeOK ==
    /\ now \in 0 .. MaxTicks /\ pidOf \in [Sampled -> 0 .. MaxTicks] /\ pids \in 0 .. MaxTicks
    /\ DOMAIN sampling \subseteq Sampled /\ Values(sampling) \subseteq 1 .. pids
    /\ DOMAIN rules \subseteq RuleIds /\ Values(rules) \subseteq Rule
    /\ DOMAIN breach \subseteq DOMAIN rules
    /\ Values(breach) \subseteq [since : 1 .. now, fired : BOOLEAN]
    /\ alerts \in Seq(Alert) /\ Len(alerts) <= MaxAlerts
    /\ alertFile \in Seq(Alert) /\ Len(alertFile) <= MaxAlerts
    /\ unsaved \in BOOLEAN /\ (unsaved => saving)

\* The rule was over at every completed look of its window, since it means what it means.
Sustained(r) ==
    LET seen == looked'[rules[r].proc]
    IN  \E i \in DOMAIN seen :
            /\ edited[r] <= seen[i].at /\ now - seen[i].at >= rules[r].window
            /\ \A j \in i .. Len(seen) : seen[j].over

\* Since its last event the rule was seen not over, or was given a new meaning.
Calmed(r) ==
    LET seen == looked[rules[r].proc]
        last == {alerts[i].at : i \in {k \in DOMAIN alerts : alerts[k].rule = r}}
    IN  \A t \in last : edited[r] >= t \/ \E i \in DOMAIN seen : seen[i].at > t /\ ~seen[i].over

\* "A rule fires the instant its metric has stayed over threshold for a continuous forMs window
\* - and then stays quiet until the metric drops back under threshold and breaches again, so
\* one sustained incident is one event" (alerts.ts:163-166), whatever is edited, stopped or
\* restarted while a sample is under way.
OneEventPerBreach ==
    [][\A r \in RuleIds :
          /\ \E p \in Sampled : Len(looked'[p]) > Len(looked[p])
          /\ [rule |-> r, at |-> now] \in Values(alerts') \ Values(alerts)
          => Sustained(r) /\ Calmed(r)]_alVars

\* A process that is stopped "is simply absent from `running`, which the store reads as 'not
\* breaching'" (monitoring.ts:95-96): a tick that looks at nothing leaves no window open.
StoppedIsNotBreaching == [][MetricsTick /\ Running = {} => breach' = None]_alVars

-------------------------------------------------------------------------------
(* THE LOGS. *)
(* What becomes of a line of output: addLog (manager/monitoring.ts) keeps it in the entry's *)
(* log, queues it for the GUI in LogBuffer's ring (log-buffer.ts) and for the disk in       *)
(* BufferedLogWriter (log-vault.ts), whose files rotate. Each queue has a timer of its own  *)
(* and a limit; disk calls may fail, the daemon may die, and a project may be removed       *)
(* between any two of these. Lines are numbered in the order they were written.             *)

CONSTANTS
    Logged,        \* the process ids
    MaxLogs,       \* MAX_LOGS: lines kept in memory per process
    MaxPending,    \* MAX_PENDING_WRITE_LINES, over all processes
    MaxQueued,     \* MAX_PENDING_LOGS: the capacity of the ring
    MaxFile,       \* MAX_BYTES, in lines
    MaxLines       \* a bound: lines written

ASSUME LogVaultAssumption ==
    {MaxLogs, MaxPending, MaxQueued, MaxFile} \subseteq Nat \ {0} /\ MaxLines \in Nat

Keep == 2          \* KEEP_ROTATIONS

VARIABLES
    owner,         \* history: whose line each line written is
    entries,       \* the processes registered
    memory,        \* Entry.logs
    ring, head, count, ringTimer,   \* LogBuffer
    pending, pendingLines, writeTimer,  \* BufferedLogWriter
    files,         \* per process: <id>.log, .1 and .2, at 0, 1 and 2
    unsent,        \* history: lines written since the ring was flushed
    gone           \* history: lines that a failed append, a crash or a removal took

writerVars == <<pending, pendingLines, writeTimer, files>>
ringVars == <<ring, head, count, ringTimer, unsent>>
lvVars == <<owner, entries, memory, ringVars, writerVars, gone>>

Newest(s, n) == IF Len(s) <= n THEN s ELSE SubSeq(s, Len(s) - n + 1, Len(s))
Unwritten == {i \in Logged : pending[i] # << >>}
Lines(s) == {s[k] : k \in DOMAIN s}

LvInit ==
    /\ owner = << >> /\ entries = Logged /\ memory = [i \in Logged |-> << >>]
    /\ ring = [k \in 0 .. MaxQueued - 1 |-> 0] /\ head = 0 /\ count = 0 /\ ringTimer = FALSE
    /\ pending = [i \in Logged |-> << >>] /\ pendingLines = 0 /\ writeTimer = FALSE
    /\ files = [i \in Logged |-> [k \in 0 .. Keep |-> << >>]]
    /\ unsent = << >> /\ gone = {}

-------------------------------------------------------------------------------
(* log-vault.ts: one batch appended, the file rotated first when it is full. *)

\* rotate(): .2 is removed, then .1 and the file move up; each of the three calls may fail,
\* and the first failure ends the rotation.
Rotations(f) ==
    LET dropped == [f EXCEPT ![Keep] = << >>]
        shifted == [dropped EXCEPT ![2] = f[1], ![1] = << >>]
    IN  {f, dropped, shifted, [shifted EXCEPT ![1] = f[0], ![0] = << >>]}
\* What appendLog may leave: nothing rotated because there is room, or a rotation; and the
\* lines appended, or, when the disk refuses them, not.
Appended(f, lines) ==
    LET ready == IF Len(f[0]) >= MaxFile THEN Rotations(f) ELSE {f}
    IN  {[r EXCEPT ![0] = @ \o lines] : r \in ready} \cup ready

\* flush(): the timer is cleared, the buckets are taken and appended one by one.
FlushOf(buckets) ==
    LET left(i) == IF buckets[i] = << >> THEN {files[i]} ELSE Appended(files[i], buckets[i])
    IN  /\ writeTimer' = FALSE /\ pending' = [i \in Logged |-> << >>] /\ pendingLines' = 0
        /\ files' \in {f \in [Logged -> UNION {left(i) : i \in Logged}] :
                          \A i \in Logged : f[i] \in left(i)}
        /\ gone' = gone \cup UNION {Lines(buckets[i]) \ Lines(files'[i][0]) : i \in Logged}

\* push(): the timer starts with the first line and the limit flushes at once.
Queue(buckets, n) ==
    IF n >= MaxPending THEN FlushOf(buckets)
    ELSE /\ pending' = buckets /\ pendingLines' = n /\ writeTimer' = TRUE
         /\ UNCHANGED <<files, gone>>

-------------------------------------------------------------------------------
(* log-buffer.ts: the ring for the GUI. *)

\* pushMany(): a line goes to the slot after the newest one; a full ring sheds its oldest.
\* What if: a full ring kept its head.
PushOneStill(r, line) ==
    [ring  |-> [r.ring EXCEPT ![(r.head + r.count) % MaxQueued] = line], head |-> r.head,
     count |-> IF r.count < MaxQueued THEN r.count + 1 ELSE r.count]
PushOne(r, line) ==
    LET full == r.count = MaxQueued
    IN  [ring  |-> [r.ring EXCEPT ![(r.head + r.count) % MaxQueued] = line],
         head  |-> IF full THEN (r.head + 1) % MaxQueued ELSE r.head,
         count |-> IF full THEN r.count ELSE r.count + 1]
Pushed(r, lines) ==
    LET one == PushOne(r, lines[1]) IN IF Len(lines) = 1 THEN one ELSE PushOne(one, lines[2])
\* flush(): oldest first, the indices wrapping round.
Queued == [k \in 1 .. count |-> ring[(head + k - 1) % MaxQueued]]

FlushRing ==
    /\ ringTimer /\ ringTimer' = FALSE /\ head' = 0 /\ count' = 0 /\ unsent' = << >>
    /\ UNCHANGED <<owner, entries, memory, ring, writerVars, gone>>

-------------------------------------------------------------------------------
\* addLog: one chunk of output, of one line or two.
AddLog(i, k) ==
    LET lines == [j \in 1 .. k |-> Len(owner) + j]
        after == Pushed([ring |-> ring, head |-> head, count |-> count], lines)
    IN  /\ i \in entries /\ Len(owner) + k <= MaxLines
        /\ owner' = owner \o [j \in 1 .. k |-> i]
        /\ memory' = [memory EXCEPT ![i] = Newest(@ \o lines, MaxLogs)]
        /\ ring' = after.ring /\ head' = after.head /\ count' = after.count
        /\ ringTimer' = TRUE /\ unsent' = unsent \o lines
        /\ Queue([pending EXCEPT ![i] = @ \o lines], pendingLines + k)
        /\ UNCHANGED entries

\* The writer's timer, a reader of the file (getLogFileTail, diagnoseProcess), dispose().
FlushWrites ==
    /\ Unwritten # {} /\ FlushOf(pending)
    /\ UNCHANGED <<owner, entries, memory, ringVars>>

\* removeProject, once its stops are done: deleteLogs and the entry. Nothing is flushed.
RemoveProject(i) ==
    /\ i \in entries /\ entries' = entries \ {i} /\ memory' = [memory EXCEPT ![i] = << >>]
    /\ files' = [files EXCEPT ![i] = [k \in 0 .. Keep |-> << >>]]
    /\ gone' = gone \cup UNION {Lines(files[i][k]) : k \in 0 .. Keep}
    /\ UNCHANGED <<owner, ringVars, pending, pendingLines, writeTimer>>
ProjectBack(i) ==
    /\ i \notin entries /\ entries' = entries \cup {i}
    /\ UNCHANGED <<owner, memory, ringVars, writerVars, gone>>

\* The daemon dies: what was queued is gone, the files stay.
DaemonDies ==
    /\ entries' = Logged /\ memory' = [i \in Logged |-> << >>]
    /\ head' = 0 /\ count' = 0 /\ ringTimer' = FALSE /\ unsent' = << >>
    /\ pending' = [i \in Logged |-> << >>] /\ pendingLines' = 0 /\ writeTimer' = FALSE
    /\ gone' = gone \cup UNION {Lines(pending[i]) : i \in Logged}
    /\ UNCHANGED <<owner, ring, files>>

LvNext ==
    \/ \E i \in Logged : RemoveProject(i) \/ ProjectBack(i) \/ \E k \in 1 .. 2 : AddLog(i, k)
    \/ FlushWrites \/ FlushRing \/ DaemonDies

LvSpec == LvInit /\ [][LvNext]_lvVars

-------------------------------------------------------------------------------
LvTypeOK ==
    /\ owner \in Seq(Logged) /\ Len(owner) <= MaxLines /\ entries \subseteq Logged
    /\ DOMAIN memory = Logged
    /\ \A i \in Logged : memory[i] \in Seq(1 .. MaxLines) /\ Len(memory[i]) <= MaxLogs
    /\ ring \in [0 .. MaxQueued - 1 -> 0 .. MaxLines]
    /\ head \in 0 .. MaxQueued - 1 /\ count \in 0 .. MaxQueued
    /\ (ringTimer <=> count > 0) /\ (writeTimer <=> Unwritten # {})
    /\ pendingLines = Cardinality(UNION {{i} \X DOMAIN pending[i] : i \in Logged})
    /\ pendingLines < MaxPending

\* All that is kept of a process's output, oldest first: what tailLog reads, then the queue.
Kept(i) == files[i][2] \o files[i][1] \o files[i][0] \o pending[i]

\* Of a process's output no line is kept twice, none is out of order, and none is missing
\* between the oldest line kept and the newest one written, but those a disk error, a crash or
\* a removal took: rotation sheds from the old end only (log-vault.ts:49-125).
VaultKeepsOrder ==
    \A i \in Logged :
        /\ \A a, b \in DOMAIN Kept(i) : a < b => Kept(i)[a] < Kept(i)[b]
        /\ \A n \in DOMAIN owner :
               owner[n] = i /\ n \notin Lines(Kept(i)) \cup gone => \A m \in Lines(Kept(i)) : n < m

\* What waits for the GUI is the newest lines, as many as fit, oldest first: the ring's
\* indices never lose, repeat or reorder a line (log-buffer.ts:30-53).
RingHoldsTheNewest == Queued = Newest(unsent, MaxQueued)

LinesStayInOrder == VaultKeepsOrder /\ RingHoldsTheNewest

\* "no reader can ever reach these again - don't leave them on disk" (projects.ts:165): a
\* process that is gone has no file once nothing is queued.
RemovedLeavesNoLogs ==
    Unwritten = {} => \A i \in Logged \ entries : \A k \in 0 .. Keep : files[i][k] = << >>
================================================================================
