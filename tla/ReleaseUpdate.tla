----------------------------- MODULE ReleaseUpdate -----------------------------
(* The self-update of a compiled daemon (server/src/github-updater.ts): look the release   *)
(* up, apply the cooldown, download and check it in a staging folder, and swap it over the *)
(* running executable. The update timer and the routes of clicks share the staging folder  *)
(* and the executable and do not know of each other; the process may die at any step.      *)
EXTENDS Integers

CONSTANTS Appliers,    \* the applies that may run at once
          MaxRelease   \* releases are the versions 1 .. MaxRelease; 0 is the first install

ASSUME ReleaseUpdateConstants == MaxRelease \in Nat

Versions == 0 .. MaxRelease
NoFile   == -1               \* no such file
Partial  == MaxRelease + 1   \* a file that was moved while it was still being extracted
Works(v) == v \in Versions

VARIABLES
    latest, adoptable, \* the newest release; the one the cooldown lets this install adopt
    running,           \* the version of the daemon that runs; NoFile when none does
    exe,               \* the executable on disk
    olds,              \* <<a, v>>: the executable v that applier a left as <executable>.old-*
    staged,            \* the candidate in .update-staging
    whole,             \* that candidate is completely extracted
    where, offered,    \* where each applier is; the version its check offered
    swapping,          \* the applier between the two renames of its swap
    stagedBy,          \* history: the applier that writes or wrote what is in .update-staging
    mangled            \* history: one swapped in what another had not completely extracted

netVars  == <<latest, adoptable>>
diskVars == <<exe, olds, staged, whole>>
mixUps == <<stagedBy, mangled>>
ruVars == <<netVars, running, diskVars, where, offered, swapping, mixUps>>

---------------------------------------------------------------------------------------
RuInit ==
    /\ latest = 0 /\ adoptable = 0 /\ running = 0
    /\ exe = 0 /\ olds = {} /\ staged = NoFile /\ whole = FALSE
    /\ where = [a \in Appliers |-> "idle"] /\ offered = [a \in Appliers |-> 0]
    /\ swapping = {} /\ stagedBy = {} /\ mangled = FALSE

\* A release is published; the cooldown lets another one through, or none that it did (a
\* release is withdrawn, or the owner sets a longer cooldown).
PublishRelease ==
    /\ latest < MaxRelease /\ latest' = latest + 1
    /\ UNCHANGED <<adoptable, running, diskVars, where, offered, swapping, mixUps>>

LetThrough ==
    /\ \E v \in 0 .. latest : adoptable' = v
    /\ UNCHANGED <<latest, running, diskVars, where, offered, swapping, mixUps>>

\* The daemon's code runs while it lives; the swap is one synchronous piece of it.
Runnable(a) == running # NoFile /\ swapping = {}
MoveTo(a, l) == where' = [where EXCEPT ![a] = l]

\* checkForUpdate (always fresh in an apply): the adoptable release, when it is newer.
CheckRelease(a) ==
    /\ Runnable(a) /\ where[a] = "idle" /\ adoptable > running
    /\ MoveTo(a, "resolve") /\ offered' = [offered EXCEPT ![a] = adoptable]
    /\ UNCHANGED <<netVars, running, diskVars, swapping, mixUps>>

\* resolveUpdateAssets looks the release up again and refuses another one than was offered.
Resolve(a) ==
    /\ Runnable(a) /\ where[a] = "resolve"
    /\ MoveTo(a, IF adoptable = offered[a] THEN "download" ELSE "idle")
    /\ UNCHANGED <<netVars, running, diskVars, offered, swapping, mixUps>>

\* downloadAndStageUpdate empties the staging folder and downloads; ...
Download(a) ==
    /\ Runnable(a) /\ where[a] = "download" /\ MoveTo(a, "verify")
    /\ staged' = NoFile /\ whole' = FALSE /\ stagedBy' = {a}
    /\ UNCHANGED <<netVars, running, exe, olds, offered, swapping, mangled>>

\* What if: nobody waited for the unpacking and its self-check.
UnpackUnawaited(a) ==
    /\ Runnable(a) /\ where[a] = "verify" /\ MoveTo(a, "checking")
    /\ staged' = offered[a] /\ whole' = FALSE /\ stagedBy' = {a}
    /\ UNCHANGED <<netVars, running, exe, olds, offered, swapping, mangled>>

\* ... only what matches the published checksum is unpacked, which takes a while: ...
Verify(a) ==
    /\ Runnable(a) /\ where[a] = "verify" /\ MoveTo(a, "extract")
    /\ staged' = offered[a] /\ whole' = FALSE /\ stagedBy' = {a}
    /\ UNCHANGED <<netVars, running, exe, olds, offered, swapping, mangled>>

\* ... the file it writes is completed even when it was moved away meanwhile; ...
Extract(a) ==
    /\ Runnable(a) /\ where[a] = "extract" /\ MoveTo(a, "extracted")
    /\ whole' = (staged # NoFile)
    /\ exe' = IF exe = Partial /\ staged = NoFile THEN offered[a] ELSE exe
    /\ UNCHANGED <<netVars, running, olds, staged, offered, swapping, mixUps>>

\* ... and the candidate, if it is there, is run to print its version.
SelfCheck(a) ==
    /\ Runnable(a) /\ where[a] = "extracted"
    /\ MoveTo(a, IF staged = offered[a] /\ whole THEN "checking" ELSE "idle")
    /\ UNCHANGED <<netVars, running, diskVars, offered, swapping, mixUps>>

\* A lookup, download, checksum, extraction or self-check fails: nothing was moved aside.
ApplyFails(a) ==
    /\ Runnable(a) /\ where[a] \in {"resolve", "verify", "extract", "checking"}
    /\ MoveTo(a, "idle")
    /\ UNCHANGED <<netVars, running, diskVars, offered, swapping, mixUps>>

\* What if: the executable were deleted to make room.
DeleteFirst(a) ==
    /\ Runnable(a) /\ where[a] = "checking" /\ exe # NoFile
    /\ exe' = NoFile /\ swapping' = {a} /\ MoveTo(a, "moved")
    /\ UNCHANGED <<netVars, running, olds, staged, whole, offered, mixUps>>

\* installStagedUpdate: rename the executable aside, ...
MoveAside(a) ==
    /\ Runnable(a) /\ where[a] = "checking" /\ exe # NoFile
    /\ olds' = olds \cup {<<a, exe>>} /\ exe' = NoFile
    /\ swapping' = {a} /\ MoveTo(a, "moved")
    /\ UNCHANGED <<netVars, running, staged, whole, offered, mixUps>>

\* ... move the candidate into its place, wait for chmod, ...
MoveIn(a) ==
    /\ swapping = {a} /\ staged # NoFile
    /\ exe' = IF whole THEN staged ELSE Partial
    /\ staged' = NoFile /\ whole' = FALSE
    /\ swapping' = {} /\ stagedBy' = {} /\ MoveTo(a, "chmod")
    /\ mangled' = (mangled \/ (~whole /\ stagedBy # {a}))
    /\ UNCHANGED <<netVars, running, olds, offered>>

\* ... and delete the staging folder: the daemon now relaunches.
Finish(a) ==
    /\ Runnable(a) /\ where[a] = "chmod" /\ MoveTo(a, "idle")
    /\ staged' = NoFile /\ whole' = FALSE /\ stagedBy' = {}
    /\ UNCHANGED <<netVars, running, exe, olds, offered, swapping, mangled>>

\* The move or the deletion fails: the executable this apply moved aside is put back.
PutBack(a) ==
    /\ \/ swapping = {a}
       \/ Runnable(a) /\ where[a] = "chmod"
    /\ \E v \in Versions \cup {Partial} :
           <<a, v>> \in olds /\ exe' = v /\ olds' = olds \ {<<a, v>>}
    /\ swapping' = {} /\ MoveTo(a, "idle")
    /\ UNCHANGED <<netVars, running, staged, whole, offered, mixUps>>

\* The process dies: killed, or to make way for its successor.
Die ==
    /\ running # NoFile /\ running' = NoFile /\ swapping' = {}
    /\ where' = [a \in Appliers |-> "idle"]
    /\ UNCHANGED <<netVars, diskVars, offered, mixUps>>

\* It starts again if there is a program to start, and deletes the leftovers of updates
\* (cleanupStaleUpdateArtifacts; an old executable that is still locked stays).
Boot ==
    /\ running = NoFile /\ Works(exe) /\ running' = exe
    /\ staged' = NoFile /\ whole' = FALSE /\ stagedBy' = {}
    /\ \E locked \in SUBSET olds : olds' = locked
    /\ UNCHANGED <<netVars, exe, where, offered, swapping, mangled>>

---------------------------------------------------------------------------------------
RuNext ==
    \/ PublishRelease \/ LetThrough \/ Die \/ Boot
    \/ \E a \in Appliers :
          \/ CheckRelease(a) \/ Resolve(a) \/ Download(a) \/ Verify(a) \/ Extract(a) \/ SelfCheck(a)
          \/ ApplyFails(a) \/ MoveAside(a) \/ MoveIn(a) \/ Finish(a) \/ PutBack(a)

RuSpec == RuInit /\ [][RuNext]_ruVars

---------------------------------------------------------------------------------------
OnDisk == Versions \cup {NoFile, Partial}

\* What each piece of state holds.
RuTypeOK ==
    /\ latest \in Versions /\ adoptable \in 0 .. latest /\ running \in Versions \cup {NoFile}
    /\ exe \in OnDisk /\ staged \in Versions \cup {NoFile} /\ whole \in BOOLEAN
    /\ olds \subseteq Appliers \X (Versions \cup {Partial})
    /\ where \in [Appliers -> {"idle", "resolve", "download", "verify", "extract", "extracted",
                            "checking", "moved", "chmod"}]
    /\ offered \in [Appliers -> Versions] /\ swapping \in SUBSET Appliers
    /\ stagedBy \in SUBSET Appliers /\ mangled \in BOOLEAN

\* Wherever the process dies, between the two renames included, and however many applies there
\* are at once, a complete program of some version is on disk, in place or moved aside, unless an
\* apply swapped in the candidate that another one was still extracting.
AVersionSurvives == mangled \/ Works(exe) \/ \E o \in olds : Works(o[2])

\* github-updater.ts:513: "The candidate must already be staged + verified" when it is swapped
\* over the running executable (refuted: a second apply, by a click, empties the folder and
\* extracts anew after the first one's self-check).
InstallsOnlyVerified == [][\A a \in Appliers : MoveIn(a) => whole /\ staged = offered[a]]_ruVars
================================================================================
