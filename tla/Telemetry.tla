------------------------------ MODULE Telemetry ------------------------------
(* What the daemon keeps of its own run, of its processes' failures and of what they use: its *)
(* log in files, the errors, and the measured CPU time. None of them reads another.           *)
EXTENDS Integers, FiniteSets

(* THE DAEMON'S LOG. log-file.mjs: how it is rolled into KEEP gzipped generations while      *)
(* every step of that may fail, or be the last thing a dying daemon did. One daemon writes   *)
(* at a time here.                                                                           *)

CONSTANTS KEEP, MaxBytes, MaxLogged    \* generations, the size a line is rolled at, a bound

ASSUME DgAssumption == KEEP \in Nat \ {0} /\ {MaxBytes, MaxLogged} \subseteq Nat

VARIABLES
    log,        \* the lines of daemon.log: numbers, in the order they were written
    gens,       \* generation -> [lines, whole]; no lines means no file
    lineNo,     \* lines written so far
    fd,         \* does the daemon have the log open?
    alive, written,
    rolling     \* what rotateLog does next: "no", "drop", a shift i, "gzip" or "unlink"

dgVars == <<log, gens, lineNo, fd, alive, written, rolling>>

NoFile == [lines |-> {}, whole |-> TRUE]

DgInit ==
    /\ log = {} /\ gens = [i \in 1 .. KEEP |-> NoFile] /\ lineNo = 0
    /\ fd = FALSE /\ alive = FALSE /\ written = 0 /\ rolling = <<"no">>

-------------------------------------------------------------------------------
\* initFileLogging, openLogFile: a log too big is rolled before it is opened.
Boots ==
    /\ ~alive /\ alive' = TRUE /\ fd' = FALSE
    /\ rolling' = IF Cardinality(log) > MaxBytes THEN <<"drop">> ELSE <<"open">>
    /\ written' = 0 /\ UNCHANGED <<log, gens, lineNo>>

\* The file opened, at start or after a roll: what is counted is what is there, or, after a roll
\* of the running daemon, nothing, also when the roll failed.
OpensLog ==
    /\ rolling = <<"open">> /\ rolling' = <<"no">> /\ fd' = TRUE
    /\ written' = IF written > MaxBytes THEN 0 ELSE Cardinality(log)
    /\ UNCHANGED <<log, gens, lineNo, alive>>

\* writeLine. A line that cannot be written ends the logging of this run.
Writes ==
    /\ fd /\ lineNo < MaxLogged
    /\ IF written > MaxBytes
       THEN /\ fd' = FALSE /\ rolling' = <<"drop">> /\ UNCHANGED <<log, lineNo, written>>
       ELSE /\ UNCHANGED rolling
            /\ \/ /\ log' = log \cup {lineNo + 1} /\ lineNo' = lineNo + 1 /\ written' = written + 1
                  /\ UNCHANGED fd
               \/ fd' = FALSE /\ UNCHANGED <<log, lineNo, written>>
    /\ UNCHANGED <<gens, alive>>

\* rotateLog, one file operation at a time.
RollDrop ==
    /\ rolling = <<"drop">> /\ gens' = [gens EXCEPT ![KEEP] = NoFile]
    /\ rolling' = IF KEEP > 1 THEN <<"shift", KEEP - 1>> ELSE <<"gzip">>
    /\ UNCHANGED <<log, lineNo, fd, alive, written>>

\* moveIfPresent, from the oldest generation to the newest.
RollShift ==
    /\ rolling[1] = "shift"
    /\ LET i == rolling[2] IN
       /\ gens' = IF gens[i] = NoFile THEN gens
                  ELSE [gens EXCEPT ![i + 1] = gens[i], ![i] = NoFile]
       /\ rolling' = IF i > 1 THEN <<"shift", i - 1>> ELSE <<"gzip">>
    /\ UNCHANGED <<log, lineNo, fd, alive, written>>
\* What if: the log were removed whether or not its copy was written.
UnlinksAnyway(whole) == <<"unlink">>
Copied(whole) == IF whole THEN <<"unlink">> ELSE <<"open">>
RollGzip ==
    /\ rolling = <<"gzip">>
    /\ \E whole \in BOOLEAN :
           /\ gens' = [gens EXCEPT ![1] = [lines |-> log, whole |-> whole]]
           /\ rolling' = Copied(whole)
    /\ UNCHANGED <<log, lineNo, fd, alive, written>>
RollUnlink ==
    /\ rolling = <<"unlink">> /\ log' = {} /\ rolling' = <<"open">>
    /\ UNCHANGED <<gens, lineNo, fd, alive, written>>

\* Any of them throws: the caller opens whatever is there.
RollFails ==
    /\ rolling[1] \in {"drop", "shift", "gzip", "unlink"} /\ rolling' = <<"open">>
    /\ UNCHANGED <<log, gens, lineNo, fd, alive, written>>

\* A crash, between two operations or in the middle of writing the copy.
Dies ==
    /\ alive /\ alive' = FALSE /\ fd' = FALSE /\ rolling' = <<"no">>
    /\ gens' \in IF rolling = <<"gzip">>
                 THEN {gens, [gens EXCEPT ![1] = [lines |-> log, whole |-> FALSE]]} ELSE {gens}
    /\ UNCHANGED <<log, lineNo, written>>

DgNext ==
    \/ Boots \/ OpensLog \/ Writes
    \/ RollDrop \/ RollShift \/ RollGzip \/ RollUnlink \/ RollFails \/ Dies

-------------------------------------------------------------------------------
DgTypeOK ==
    /\ log \subseteq 1 .. MaxLogged /\ lineNo \in 0 .. MaxLogged
    /\ \A i \in 1 .. KEEP : gens[i].lines \subseteq 1 .. MaxLogged
    /\ fd => alive /\ rolling = <<"no">>

Kept == log \cup UNION {gens[i].lines : i \in {j \in 1 .. KEEP : gens[j].whole}}

\* However often a roll fails or a daemon dies in one: of the lines since the oldest that can
\* still be read none is missing, and an older generation never holds the newer lines.
LogKeepsItsLines ==
    /\ \A a \in Kept, n \in 1 .. lineNo : a < n => n \in Kept
    /\ \A i, j \in 1 .. KEEP : i < j /\ gens[i].lines # {} =>
           \A b \in gens[j].lines : \E a \in gens[i].lines : a >= b
    /\ \A i \in 1 .. KEEP : \A b \in gens[i].lines : b \in log \/ \A a \in log : a >= b

-------------------------------------------------------------------------------
(* THE ERRORS. errors.ts, and how the manager serves it: records of error output, kept by    *)
(* fingerprint and saved a moment after a change, of which a GUI sees those of this daemon   *)
(* session and of a process's current run. The list is pushed by the monitoring tick when it *)
(* is marked as changed, and sent whole when a client connects.                              *)

CONSTANTS
    Prints, Failing,    \* fingerprints, and the processes they are of
    PrintOf,            \* Prints -> Failing
    MaxErrors, MaxNow   \* the records kept, and a bound: of the clock

ASSUME ElAssumption ==
    /\ IsFiniteSet(Prints) /\ PrintOf \in [Prints -> Failing]
    /\ MaxErrors \in Nat /\ MaxNow \in Nat /\ MaxNow >= 2

VARIABLES
    now,
    recs,           \* fingerprint -> lastSeen, or 0 for no record
    onFile,         \* errors.ndjson, in the same form
    saveTimer, saveFailed,
    errorsDirty,
    bootedAt,
    startedAt,      \* process -> when its current run began, or 0
    stream,         \* is a client connected?
    errors          \* the fingerprints it shows

elVars == <<now, recs, onFile, saveTimer, saveFailed, errorsDirty, bootedAt, startedAt, stream,
            errors>>

ElInit ==
    /\ now = 2 /\ bootedAt = 2 /\ onFile \in [Prints -> {0, 1}] /\ recs = onFile
    /\ Cardinality({f \in Prints : onFile[f] # 0}) <= MaxErrors
    /\ saveTimer = FALSE /\ saveFailed = FALSE /\ errorsDirty = FALSE
    /\ startedAt = [p \in Failing |-> 0] /\ stream = FALSE /\ errors = {}

Recorded == {f \in Prints : recs[f] # 0}

\* isErrorActive, and listErrors. What if: only the run were looked at.
ActiveByRun(f) == startedAt[PrintOf[f]] <= recs[f]
isErrorActive(f) == bootedAt <= recs[f] /\ startedAt[PrintOf[f]] <= recs[f]
listErrors == {f \in Recorded : isErrorActive(f)}

\* scheduleSave() and onChange().
\* What if: a change were not announced.
SavesOnly == saveTimer' = TRUE /\ UNCHANGED errorsDirty
Changes == saveTimer' = TRUE /\ errorsDirty' = TRUE

\* record(): one more is one too many when all places are taken, and the oldest goes.
Records(f) ==
    LET seen == [recs EXCEPT ![f] = now]
        kept == {g \in Prints : seen[g] # 0}
    IN  /\ Changes
        /\ IF Cardinality(kept) <= MaxErrors THEN recs' = seen
           ELSE \E g \in kept : /\ \A h \in kept : seen[g] <= seen[h]
                                /\ recs' = [seen EXCEPT ![g] = 0]
record(f) ==
    Records(f) /\ UNCHANGED <<now, onFile, saveFailed, bootedAt, startedAt, stream, errors>>

\* clear(processId), clear() and dismiss(), for the fingerprints in F.
Drops(F) ==
    /\ Changes /\ recs' = [f \in Prints |-> IF f \in F THEN 0 ELSE recs[f]]
    /\ UNCHANGED <<now, onFile, saveFailed, bootedAt, startedAt, stream, errors>>
clear == Drops(Prints) \/ \E p \in Failing : Drops({f \in Prints : PrintOf[f] = p})
dismiss(f) == recs[f] # 0 /\ Drops({f})

\* spawnEntry, finishProcess, and handleExit of a crash, which is recorded first.
starts(p) ==
    /\ startedAt[p] = 0 /\ startedAt' = [startedAt EXCEPT ![p] = now]
    /\ UNCHANGED <<now, recs, onFile, saveTimer, saveFailed, errorsDirty, bootedAt, stream, errors>>
ends(p) ==
    /\ startedAt[p] # 0 /\ startedAt' = [startedAt EXCEPT ![p] = 0]
    /\ \/ UNCHANGED <<recs, saveTimer, errorsDirty>>
       \/ \E f \in Prints : PrintOf[f] = p /\ Records(f)
    /\ UNCHANGED <<now, onFile, saveFailed, bootedAt, stream, errors>>

\* The timer's save, which nobody tries again when it fails.
save ==
    /\ saveTimer /\ saveTimer' = FALSE
    /\ \/ onFile' = recs /\ saveFailed' = FALSE
       \/ saveFailed' = TRUE /\ UNCHANGED onFile
    /\ UNCHANGED <<now, recs, errorsDirty, bootedAt, startedAt, stream, errors>>

\* The monitoring tick's flush, and registerRealtime's snapshot.
tick ==
    /\ errorsDirty /\ errorsDirty' = FALSE
    /\ errors' = IF stream THEN listErrors ELSE errors
    /\ UNCHANGED <<now, recs, onFile, saveTimer, saveFailed, bootedAt, startedAt, stream>>
connects ==
    /\ ~stream /\ stream' = TRUE /\ errors' = listErrors
    /\ UNCHANGED <<now, recs, onFile, saveTimer, saveFailed, errorsDirty, bootedAt, startedAt>>

\* The daemon goes down, whatever is unsaved, and comes up again: load(), then bootedAt.
reboots ==
    /\ now < MaxNow /\ now' = now + 1 /\ bootedAt' = now + 1 /\ recs' = onFile
    /\ saveTimer' = FALSE /\ saveFailed' = FALSE /\ errorsDirty' = FALSE
    /\ startedAt' = [p \in Failing |-> 0] /\ stream' = FALSE /\ UNCHANGED <<onFile, errors>>
passes ==
    /\ now < MaxNow /\ now' = now + 1
    /\ UNCHANGED <<recs, onFile, saveTimer, saveFailed, errorsDirty, bootedAt, startedAt, stream,
                   errors>>

ElNext ==
    \/ \E f \in Prints : record(f) \/ dismiss(f)
    \/ \E p \in Failing : starts(p) \/ ends(p)
    \/ clear \/ save \/ tick \/ connects \/ reboots \/ passes

-------------------------------------------------------------------------------
ElTypeOK ==
    /\ recs \in [Prints -> 0 .. MaxNow] /\ onFile \in [Prints -> 0 .. MaxNow]
    /\ startedAt \in [Failing -> 0 .. MaxNow] /\ errors \subseteq Prints
    /\ Cardinality(Recorded) <= MaxErrors

\* Between two pushes a client shows only errors of this session that are still recorded, and all
\* those of the current runs; and what is not on disk will be, unless the last save failed.
ErrorsAreKept ==
    /\ stream /\ ~errorsDirty =>
           /\ \A f \in errors : recs[f] >= bootedAt
           /\ \A f \in listErrors : startedAt[PrintOf[f]] # 0 => f \in errors
    /\ recs # onFile => saveTimer \/ saveFailed

\* base.ts:131-132: "The GUI only ever sees CURRENT errors - recorded this daemon session, and
\* (for a process that has since (re)started) only from its current run."
OnlyCurrentAreSeen == stream /\ ~errorsDirty => errors \subseteq listErrors

-------------------------------------------------------------------------------
(* WHAT THE PROCESSES USE. *)
(* metrics.ts with the Win32 sampler: what a managed process is said to use is measured over  *)
(* its whole tree of processes, as differences between readings of each one's CPU time. The   *)
(* processes of the machine and their numbers, which are used again, are external. A sample   *)
(* takes no time; memory, which is read afresh each time, is left out.                        *)

CONSTANTS Pids,      \* process numbers
          Nobody,    \* no process
          FromBoot,    \* the parent of the first ones
          MaxUse,    \* a bound: CPU time that is used, in all
          MaxBirths  \* a bound: processes that begin
ASSUME MetricsAssumption == IsFiniteSet(Pids) /\ {MaxUse, MaxBirths} \subseteq Nat

VARIABLES
    parent,     \* the number each process has for its parent, or Nobody when there is no process
    used,       \* its CPU time so far
    last,       \* the sampler's history: the reading of each number, or -1
    sampled,    \* history: what was said of each process, in all,
    begun,      \*   its CPU time when the differences began,
    tracked,    \*   whether every sample since has found it
    births, worked   \* the bounds

saidVars == <<sampled, begun, tracked>>
mxBounds == <<births, worked>>
mxVars == <<parent, used, last, saidVars, mxBounds>>

Exists(p) == parent[p] # Nobody

MxInit ==
    /\ parent = [p \in Pids |-> Nobody] /\ used = [p \in Pids |-> 0]
    /\ last = [p \in Pids |-> -1] /\ sampled = used /\ begun = used
    /\ tracked = [p \in Pids |-> FALSE] /\ births = 0 /\ worked = 0

\* A process begins, under a number that may have been another's; it may end with children left.
Begins(p, q) ==
    /\ ~Exists(p) /\ births < MaxBirths /\ births' = births + 1
    /\ q = FromBoot \/ (q \in Pids \ {p} /\ Exists(q))
    /\ parent' = [parent EXCEPT ![p] = q] /\ used' = [used EXCEPT ![p] = 0]
    /\ sampled' = [sampled EXCEPT ![p] = 0] /\ begun' = [begun EXCEPT ![p] = 0]
    /\ tracked' = [tracked EXCEPT ![p] = FALSE]
    /\ UNCHANGED <<last, worked>>
Vanishes(p) ==
    /\ Exists(p) /\ parent' = [parent EXCEPT ![p] = Nobody]
    /\ UNCHANGED <<used, last, saidVars, mxBounds>>
Works(p) ==
    /\ Exists(p) /\ worked < MaxUse /\ worked' = worked + 1 /\ used' = [used EXCEPT ![p] = @ + 1]
    /\ UNCHANGED <<parent, last, saidVars, births>>

\* The root and everything below it. A number may lead back to an ancestor: each is there once.
descendants(root, children) ==
    LET Below[n \in 0 .. Cardinality(Pids)] ==
            IF n = 0 THEN {root}
            ELSE Below[n - 1] \cup UNION {children[p] : p \in Below[n - 1]}
    IN  Below[Cardinality(Pids)]

\* By the parent each process names, whether or not that one still lives: of some processes only
\* or of none if it fails.
snapshotWin32Children(listed) == [q \in Pids |-> {p \in listed : parent[p] = q}]

\* What if: the history of a process was kept only if its time could be read.
RememberedIfRead(found, read) == found \cap read
Remembered(found, read) == found

\* The difference to the last reading, never less than nothing: a number's old history may be
\* that of a process that used more.
Difference(p) == IF last[p] = -1 THEN 0 ELSE IF used[p] > last[p] THEN used[p] - last[p] ELSE 0

\* One sample of some roots. Of the processes in their trees those that open are `found` and have
\* their history kept; of these the times of `read` are had. A process in two trees is read
\* twice at one moment: the second reading adds nothing.
sampleWin32Pids(roots, listed) ==
    LET trees == UNION {descendants(r, snapshotWin32Children(listed)) : r \in roots}
    IN  \E found \in SUBSET {p \in trees : Exists(p)} : \E read \in SUBSET found :
        /\ last' = [p \in Pids |-> IF p \in read THEN used[p]
                                   ELSE IF p \in Remembered(found, read) THEN last[p] ELSE -1]
        /\ sampled' = [p \in Pids |-> IF p \in read THEN sampled[p] + Difference(p) ELSE sampled[p]]
        /\ begun' = [p \in Pids |-> IF p \in read /\ ~tracked[p]
                                    THEN used[p] - sampled'[p] ELSE begun[p]]
        /\ tracked' = [p \in Pids |-> p \in found /\ (p \in read \/ tracked[p])]
        /\ UNCHANGED <<parent, used, mxBounds>>

MxNext ==
    \/ \E p \in Pids : Vanishes(p) \/ Works(p) \/ \E q \in Pids \cup {FromBoot} : Begins(p, q)
    \/ \E roots \in SUBSET Pids \ {{}}, listed \in SUBSET Pids : sampleWin32Pids(roots, listed)

MxSpec == MxInit /\ [][MxNext]_mxVars

MxTypeOK ==
    /\ parent \in [Pids -> Pids \cup {Nobody, FromBoot}] /\ last \in [Pids -> -1 .. MaxUse]
    /\ births \in 0 .. MaxBirths /\ worked \in 0 .. MaxUse

\* No CPU time is said twice, whatever trees overlap, whatever numbers are used again and whatever
\* readings fail; and while each sample finds a process, all of its time is said: a reading that
\* fails once "can't evict it and force a spurious 0%" (metrics.ts:211-212).
UsageAddsUp ==
    \A p \in Pids : Exists(p) =>
        /\ sampled[p] \in 0 .. used[p]
        /\ tracked[p] => last[p] # -1 /\ sampled[p] = last[p] - begun[p]
================================================================================
