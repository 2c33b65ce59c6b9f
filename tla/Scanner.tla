------------------------------- MODULE Scanner -------------------------------
(* scan.ts: the walk that looks for .devwebui files and package roots, and who may ask for   *)
(* one. At most one walk runs at a time; identical requests without an abort signal share it. A *)
(* walk keeps a number of directories in flight, and ends when it has seen everything, found *)
(* enough, run out of time or lost its caller, whatever its reads are doing by then.         *)
EXTENDS Naturals, FiniteSets

CONSTANTS
    Dirs, Roots,     \* the directories, and those a walk begins at (one may lie below another)
    Children,        \* Dirs -> the subdirectories that are not pruned or excluded
    FilesIn,         \* Dirs -> its number of .devwebui files
    Packages,        \* the directories with a package.json whose scripts can be detected
    Limits,          \* the caps a request may ask for: all that two requests differ in here
    MaxDepth, Concurrency,
    Callers, MaxWalks

ASSUME ScannerAssumption ==
    /\ Roots \subseteq Dirs /\ Roots # {} /\ Children \in [Dirs -> SUBSET Dirs]
    \* a directory is in one other: links are not followed
    /\ \A d, e \in Dirs : d # e => Children[d] \cap Children[e] = {}
    /\ FilesIn \in [Dirs -> Nat]
    /\ {MaxDepth, Concurrency} \cup Limits \subseteq Nat \ {0}

VARIABLES
    walks,      \* the walks asked for, in order: scanChain
    inflight,   \* request -> the walk that its callers without a signal share, or 0
    asks        \* caller -> [walk, limit, signal, gone]

scanVars == <<walks, inflight, asks>>

Walk == [stage : {"queued", "walking", "settled"}, limit : Limits, aborted : BOOLEAN,
         queue : SUBSET (Dirs \X Nat),
         active : SUBSET [dir : Dirs, depth : Nat, at : {"readdir", "describe", "detect"},
                          subs : SUBSET (Dirs \X Nat)],
         seen : SUBSET Dirs, found : SUBSET (Dirs \X Nat), collected : Nat,
         truncated : BOOLEAN, timedOut : BOOLEAN, unread : SUBSET Dirs]

\* What if: a root were not marked as seen.
SeenNone == {}
SeenFirst == Roots
NewWalk(limit) ==
    [stage |-> "queued", limit |-> limit, aborted |-> FALSE,
     queue |-> Roots \X {0}, active |-> {}, seen |-> SeenFirst, found |-> {}, collected |-> 0,
     truncated |-> FALSE, timedOut |-> FALSE, unread |-> {}]

ScanInit ==
    /\ walks = [w \in {} |-> 0] /\ inflight = [n \in Limits |-> 0]
    /\ asks = [c \in Callers |-> [walk |-> 0, limit |-> 0, signal |-> FALSE, gone |-> FALSE]]

Count == Cardinality(DOMAIN walks)

-------------------------------------------------------------------------------
(* Who walks. *)

\* scanForDevWebUI: a caller that cannot abort joins the walk in flight for the same request.
\* What if: one that can did so as well.
JoinsAny(limit, signal) == inflight[limit] # 0
Joins(limit, signal) == inflight[limit] # 0 /\ ~signal
Takes(c, w, limit, signal) ==
    asks' = [asks EXCEPT ![c] = [walk |-> w, limit |-> limit, signal |-> signal, gone |-> FALSE]]
Ask(c, limit, signal) ==
    /\ asks[c].walk = 0
    /\ IF Joins(limit, signal)
       THEN Takes(c, inflight[limit], limit, signal) /\ UNCHANGED <<walks, inflight>>
       ELSE /\ Count < MaxWalks /\ Takes(c, Count + 1, limit, signal)
            /\ walks' = [w \in DOMAIN walks \cup {Count + 1} |->
                             IF w = Count + 1 THEN NewWalk(limit) ELSE walks[w]]
            /\ inflight' = IF signal THEN inflight ELSE [inflight EXCEPT ![limit] = Count + 1]

\* settle(), and the finally that ends the sharing.
Stores(w, s) ==
    /\ walks' = [walks EXCEPT ![w] = s]
    /\ inflight' = [n \in Limits |->
                        IF s.stage = "settled" /\ inflight[n] = w THEN 0 ELSE inflight[n]]

Put(w, s) == Stores(w, s) /\ UNCHANGED asks

\* What no read looks at again is dropped here.
Settle(s) == [s EXCEPT !.stage = "settled", !.queue = {}, !.seen = {}]

-------------------------------------------------------------------------------
(* The walk. *)
Stopped(s) == s.stage = "settled" \/ s.timedOut \/ s.truncated

\* pump(): the budget and the cap are looked at first (`late` says whether the budget is gone);
\* then directories are taken, in any order here, while there is room.
Pumped(s, late) ==
    IF s.stage = "settled" THEN {s}
    ELSE IF late THEN {Settle([s EXCEPT !.timedOut = TRUE])}
    ELSE IF s.collected >= s.limit THEN {Settle([s EXCEPT !.truncated = TRUE])}
    ELSE LET room == Concurrency - Cardinality(s.active)
             n == IF Cardinality(s.queue) < room THEN Cardinality(s.queue) ELSE room
             Taken == {T \in SUBSET s.queue : Cardinality(T) = n}
             Begun(q) == [dir |-> q[1], depth |-> q[2], at |-> "readdir", subs |-> {}]
             Fly(T) == [s EXCEPT !.queue = @ \ T, !.active = @ \cup {Begun(q) : q \in T}]
         IN  {IF t.active = {} /\ t.queue = {} THEN Settle(t) ELSE t : t \in {Fly(T) : T \in Taken}}

\* The baton is passed when the walk before has settled. A caller that has gone already ends it.
\* What if: a walk did not wait.
StartsAtOnce(w) == TRUE
MayStart(w) == \A v \in DOMAIN walks : v < w => walks[v].stage = "settled"
Begin(w) ==
    /\ walks[w].stage = "queued" /\ MayStart(w)
    /\ IF walks[w].aborted
       THEN Put(w, Settle([walks[w] EXCEPT !.timedOut = TRUE]))
       ELSE \E s \in Pumped([walks[w] EXCEPT !.stage = "walking"], FALSE) : Put(w, s)

\* The end of scanDir(): what it returns joins the queue, and the pump runs.
Returns(w, s, a, subs) ==
    LET t == [s EXCEPT !.active = @ \ {a}, !.queue = IF s.stage = "settled" THEN @ ELSE @ \cup subs]
    IN  \E late \in BOOLEAN : \E u \in Pumped(t, late) : Put(w, u)

\* resolveSubdir over the entries: subdirectories within the depth that were not seen.
Subdirs(s, a) == IF a.depth + 1 > MaxDepth THEN {} ELSE Children[a.dir] \ s.seen

Goes(s, a, b) == [s EXCEPT !.active = (@ \ {a}) \cup {b}]

\* readdir() answers: the entries are sorted out, and the files of the directory described.
Reads(w, a) ==
    /\ a \in walks[w].active /\ a.at = "readdir"
    /\ LET s == walks[w]
           subs == Subdirs(s, a)
       IN  \/ /\ ~Stopped(s)
              /\ Put(w, [Goes(s, a, [a EXCEPT !.at = "describe", !.subs = subs \X {a.depth + 1}])
                         EXCEPT !.seen = @ \cup subs])
           \/ ~Stopped(s) /\ Returns(w, [s EXCEPT !.unread = @ \cup {a.dir}], a, {})
           \/ Stopped(s) /\ Returns(w, s, a, {})

\* collectFiles: up to the cap. Then a package root without files of its own is looked into.
\* What if: the cap were looked at only between directories.
FitsAll(s, n) == n
Fits(s, n) == IF s.collected + n <= s.limit THEN n ELSE s.limit - s.collected
Collect(s, a) ==
    LET n == IF Stopped(s) THEN 0 ELSE Fits(s, FilesIn[a.dir]) IN
    [s EXCEPT !.found = @ \cup ({a.dir} \X (1 .. n)), !.collected = @ + n,
              !.truncated = @ \/ (~Stopped(s) /\ n < FilesIn[a.dir])]
Describes(w, a) ==
    /\ a \in walks[w].active /\ a.at = "describe"
    /\ LET s == Collect(walks[w], a)
           looks == /\ a.dir \in Packages /\ FilesIn[a.dir] = 0
                    /\ ~Stopped(s) /\ s.collected < s.limit
       IN  IF looks THEN Put(w, Goes(s, a, [a EXCEPT !.at = "detect"]))
           ELSE Returns(w, s, a, a.subs)

\* detectPackageRoot after its await: others may have filled the cap meanwhile.
Detects(w, a) ==
    /\ a \in walks[w].active /\ a.at = "detect"
    /\ LET s == walks[w]
           t == IF s.stage = "settled" \/ s.timedOut THEN s
                ELSE IF s.collected < s.limit
                THEN [s EXCEPT !.found = @ \cup {<<a.dir, 0>>}, !.collected = @ + 1]
                ELSE [s EXCEPT !.truncated = TRUE]
       IN  Returns(w, t, a, a.subs)

\* The watchdog timer, and the caller's disconnect.
Watchdog(w) ==
    /\ walks[w].stage = "walking" /\ Put(w, Settle([walks[w] EXCEPT !.timedOut = TRUE]))
Leaves(c) ==
    /\ asks[c].walk # 0 /\ asks[c].signal /\ ~asks[c].gone
    /\ asks' = [asks EXCEPT ![c].gone = TRUE]
    /\ LET w == asks[c].walk
           t == [walks[w] EXCEPT !.aborted = TRUE]
       IN  CASE walks[w].stage = "queued"  -> Stores(w, t)
             [] walks[w].stage = "walking" -> Stores(w, Settle([t EXCEPT !.timedOut = TRUE]))
             [] walks[w].stage = "settled" -> UNCHANGED <<walks, inflight>>

ScanNext ==
    \/ \E c \in Callers :
           Leaves(c) \/ \E limit \in Limits, signal \in BOOLEAN : Ask(c, limit, signal)
    \/ \E w \in DOMAIN walks :
           \/ Begin(w) \/ Watchdog(w)
           \/ \E a \in walks[w].active : Reads(w, a) \/ Describes(w, a) \/ Detects(w, a)

ScanSpec == ScanInit /\ [][ScanNext]_scanVars

-------------------------------------------------------------------------------
ScanTypeOK ==
    /\ \A w \in DOMAIN walks : walks[w] \in Walk
    /\ inflight \in [Limits -> DOMAIN walks \cup {0}]
    /\ \A c \in Callers : asks[c].walk \in DOMAIN walks \cup {0}

\* The directories a walk must have come through: a way leads down to them from a root, by
\* way of directories that could be read, within the depth.
IsWay(way, k, unread) ==
    /\ way[0] \in Roots
    /\ \A i \in 1 .. k : way[i] \in Children[way[i - 1]] /\ way[i - 1] \notin unread
Levels(s) ==
    {d \in Dirs : \E k \in 0 .. MaxDepth : \E way \in [0 .. k -> Dirs] :
         way[k] = d /\ IsWay(way, k, s.unread)}

ToFind(d) == {d} \X (IF FilesIn[d] = 0 /\ d \in Packages THEN {0} ELSE 1 .. FilesIn[d])

\* A walk finds nothing twice and no more than the cap; one that reports neither a truncation nor
\* a timeout has found everything there is in the directories it could read; and it is cut short
\* by a disconnect only of the caller it belongs to. A caller has the walk it asked for, and one
\* walk runs at a time.
ScansAreTrue ==
    /\ \A w \in DOMAIN walks : LET s == walks[w] IN
           /\ s.collected = Cardinality(s.found) /\ s.collected <= s.limit
           /\ s.stage = "settled" /\ ~s.truncated /\ ~s.timedOut =>
                  s.found = UNION {ToFind(d) : d \in Levels(s) \ s.unread}
           /\ s.aborted => \A c \in Callers : asks[c].walk = w => asks[c].gone
    /\ \A c \in Callers : asks[c].walk # 0 => walks[asks[c].walk].limit = asks[c].limit
    /\ Cardinality({w \in DOMAIN walks : walks[w].stage = "walking"}) <= 1

\* Every scan asked for is answered, though a read may hang for ever: the watchdog ends the walk
\* and passes the baton.
EveryScanSettles ==
    \A c \in Callers : asks[c].walk # 0 ~> \E w \in DOMAIN walks :
        asks[c].walk = w /\ walks[w].stage = "settled"
================================================================================
