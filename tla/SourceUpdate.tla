----------------------------- MODULE SourceUpdate -----------------------------
(* The self-update of a source checkout (server/src/updater-engine*.mjs): check the      *)
(* remote, take local edits the update already carries, fast-forward, install and build, *)
(* and roll back when a step fails. Every git call is a step of its own: a developer     *)
(* works in the same checkout and may edit, stage or commit between any two of them.     *)
(* One apply at a time: a click's apply beside the timer's (AutoUpdate,                  *)
(* AppliesNeverOverlap) is left out here, so what is shown is shown of an apply that no  *)
(* other one overlaps.                                                                   *)
EXTENDS Integers, FiniteSets

CONSTANTS Files,      \* the tracked files that matter
          MaxTip,     \* the remote branch is the commits 0 .. MaxTip, a first-parent line
          Touches,    \* Touches[c]: the files commit c changes
          Removes,    \* Removes[c] \subseteq Touches[c]: the files commit c deletes
          Programs,   \* the program files among them, on Windows; {} elsewhere
          Steps,      \* how many install and build steps are due
          Faults      \* the git commands and steps that may fail

Commits == 0 .. MaxTip

ASSUME SourceUpdateConstants ==
    /\ MaxTip \in Nat /\ Steps \in Nat \ {0} /\ Programs \subseteq Files
    /\ Touches \in [Commits -> SUBSET Files]
    /\ \A c \in Commits : Removes[c] \subseteq Touches[c]

Absent == -1     \* the file does not exist
Own  == -2     \* content only the developer has
Broken == -1   \* what was built is no commit's

VARIABLES
    cooldown,        \* whether the engine was created with cooldownDays > 0; never changes
    tip, aged,       \* the remote branch's head; its newest commit older than the cooldown
    head,            \* HEAD: the remote commit it is based on and the files of local commits
    index, work,     \* the content of each file in git's index and on disk
    stash,           \* files whose own content a git stash or the reflog holds
    copies, moving,  \* the moved-aside copy of each program; the programs moved by this apply
    built,           \* the commit the installed dependencies and the build belong to
    pc,              \* where applyRecording is
    run,             \* what the apply remembers: HEAD, dirtiness and the remote commit of the
                     \* check, its target, the edits it takes as its own, the next step
    written, late,   \* history: files the developer wrote, and those written out of sight
    deleted,         \* history: files the developer deleted
    told             \* history: a broken checkout was reported

remoteVars == <<cooldown, tip, aged>>
treeVars   == <<head, index, work, stash, copies, moving>>
asideVars  == <<copies, moving>>
devVars    == <<written, late, deleted>>
suVars == <<remoteVars, treeVars, built, pc, run, devVars, told>>

---------------------------------------------------------------------------------------
\* The content of f in commit c: that of the last commit up to c that touches it.
Blob(f, c) ==
    LET touching == {0} \cup {d \in 1 .. c : f \in Touches[d]}
        d == CHOOSE d \in touching : \A e \in touching : e <= d
    IN  IF f \in Removes[d] THEN Absent ELSE d

BlobIn(f, h) == IF f \in h.own THEN Own ELSE Blob(f, h.base)
TreeOf(h) == [f \in Files |-> BlobIn(f, h)]

\* git status: what differs between HEAD, the index and the disk.
Dirty == {f \in Files : index[f] # BlobIn(f, head) \/ work[f] # BlobIn(f, head)}

\* A remote commit is HEAD's ancestor; HEAD is a remote commit's ancestor.
BehindHead(c) == c <= head.base
AheadOfHead(c) == head.own = {} /\ head.base <= c

\* editsAlreadyIn: there are edits, none is staged, and each is the target's content.
EditsAlreadyIn(t) ==
    /\ Dirty # {}
    /\ \A f \in Dirty : index[f] = BlobIn(f, head) /\ work[f] = Blob(f, t)

\* git's two-way merge: a path the fast-forward changes is clean, or staged as the target's.
CanFastForward(c) ==
    /\ AheadOfHead(c)
    /\ \A f \in Files : Blob(f, head.base) # Blob(f, c) =>
           \/ index[f] = Blob(f, head.base) /\ work[f] = index[f]
           \/ index[f] = Blob(f, c)

\* Files whose own content can still be found: on disk, staged, committed or stashed.
Reachable ==
    stash \cup head.own \cup {f \in Files : Own \in {work[f], index[f]}}
          \cup {f \in Programs : copies[f] = Own}

---------------------------------------------------------------------------------------
\* Between applies nothing is remembered.
NoRun == [cur |-> [base |-> 0, own |-> {}], dirty |-> FALSE, seen |-> 0, target |-> 0,
          landed |-> {}, step |-> 1]

SuInit ==
    /\ cooldown \in BOOLEAN /\ tip = 0 /\ aged = 0
    /\ head = [base |-> 0, own |-> {}]
    /\ index = TreeOf(head) /\ work = TreeOf(head)
    /\ stash = {} /\ copies = [f \in Programs |-> Absent] /\ moving = {} /\ built = 0
    /\ pc = "idle" /\ run = NoRun
    /\ written = {} /\ late = {} /\ deleted = {} /\ told = FALSE

\* The remote gets a commit, or one grows old enough for the cooldown.
Push == tip < MaxTip /\ tip' = tip + 1
        /\ UNCHANGED <<cooldown, aged, treeVars, built, pc, run, devVars, told>>
Age == cooldown /\ aged < tip /\ aged' = aged + 1
       /\ UNCHANGED <<cooldown, tip, treeVars, built, pc, run, devVars, told>>

---------------------------------------------------------------------------------------
\* The developer. After the rollback's `git status` nothing looks at the tree again, and a
\* program written between the check's status and its move ends up in the copy only.
Blind(f) ==
    \/ pc \in {"rbReset", "rbCheckout", "rbUnstage", "rbUnlink"}
    \/ f \in Programs /\ pc \in {"remote", "fetch", "settle", "applicable", "stage", "compare",
                               "sweep", "aside", "asideBack"}

DevEdit(f) ==
    /\ f \notin written
    /\ work' = [work EXCEPT ![f] = Own]
    /\ written' = written \cup {f}
    /\ late' = IF Blind(f) THEN late \cup {f} ELSE late
    /\ UNCHANGED <<remoteVars, head, index, stash, asideVars, built, pc, run, deleted, told>>

\* A patch made by hand in the checkout that later lands upstream as commit c.
DevPatch(f, c) ==
    /\ pc = "idle" /\ f \notin Dirty /\ work[f] # Own
    /\ work' = [work EXCEPT ![f] = Blob(f, c)]
    /\ deleted' = IF Blob(f, c) = Absent THEN deleted \cup {f} ELSE deleted
    /\ UNCHANGED <<remoteVars, head, index, stash, asideVars, built, pc, run, written, late, told>>

DevStage(f) ==
    /\ work[f] = Own /\ index[f] # Own
    /\ index' = [index EXCEPT ![f] = Own]
    /\ UNCHANGED <<remoteVars, head, work, stash, asideVars, built, pc, run, devVars, told>>

\* A commit leaves the branch only by the rollback's reset; git's reflog still has it, so
\* it counts as stashed from the start.
DevCommit ==
    /\ \E f \in Files : index[f] = Own /\ f \notin head.own
    /\ \A f \in Files : index[f] \in {BlobIn(f, head), Own}
    /\ head' = [head EXCEPT !.own = {f \in Files : index[f] = Own}]
    /\ stash' = stash \cup head'.own
    /\ UNCHANGED <<remoteVars, index, work, asideVars, built, pc, run, devVars, told>>

---------------------------------------------------------------------------------------
\* applyUpdate: a throw and a return both leave the checkout as it is and forget the run.
End == pc' = "idle" /\ run' = NoRun
GoesTo(l) == pc' = l /\ UNCHANGED run
GotoWith(l, r) == pc' = l /\ run' = r

\* applyUpdate begins, by the timer's pass or a click, with no other one under way.
StartApply ==
    /\ pc = "idle" /\ GoesTo("status")
    /\ UNCHANGED <<remoteVars, treeVars, built, devVars, told>>

\* checkForUpdate: HEAD and dirtiness in one `git status` ...
ReadStatus ==
    /\ pc = "status"
    /\ GotoWith("remote", [run EXCEPT !.cur = head, !.dirty = Dirty # {}])
    /\ UNCHANGED <<remoteVars, treeVars, built, devVars, told>>

\* ... the remote branch's commit by ls-remote ...
ReadRemote ==
    /\ pc = "remote"
    /\ GotoWith("fetch", [run EXCEPT !.seen = tip])
    /\ UNCHANGED <<remoteVars, treeVars, built, devVars, told>>

\* ... and, after a fetch that may bring a later one, the commit to move to and whether
\* HEAD fast-forwards: the aged commit under a cooldown, else the fetched head.
Fetch ==
    /\ pc = "fetch"
    /\ LET wanted == IF cooldown /\ ~BehindHead(run.seen) THEN aged ELSE run.seen
           proven == IF cooldown THEN wanted ELSE tip
       IN  IF ~BehindHead(wanted) /\ AheadOfHead(proven)
           THEN GotoWith("settle", [run EXCEPT !.target = wanted])
           ELSE End
    /\ UNCHANGED <<remoteVars, treeVars, built, devVars, told>>

\* settleStatus: a dirty tree is refused unless its edits are already the target's.
Settle ==
    /\ pc = "settle"
    /\ IF run.dirty /\ ~EditsAlreadyIn(run.target) THEN End ELSE GoesTo("applicable")
    /\ UNCHANGED <<remoteVars, treeVars, built, devVars, told>>

\* applicableEdits reads the edits once more, and these are the ones it takes.
Applicable ==
    /\ pc = "applicable"
    /\ \/ ~run.dirty /\ GoesTo("sweep")
       \/ run.dirty /\ EditsAlreadyIn(run.target)
          /\ GotoWith("stage", [run EXCEPT !.landed = Dirty])
       \/ run.dirty /\ ~EditsAlreadyIn(run.target) /\ End
    /\ UNCHANGED <<remoteVars, treeVars, built, devVars, told>>

\* Any read of the check fails (git, ls-remote, fetch): nothing has been touched.
CheckFails ==
    /\ "check" \in Faults /\ pc \in {"status", "remote", "fetch", "settle", "applicable"}
    /\ End
    /\ UNCHANGED <<remoteVars, treeVars, built, devVars, told>>

---------------------------------------------------------------------------------------
\* advance: stage the landed edits, compare them with the target, then fast-forward.
Stage ==
    /\ pc = "stage" /\ GoesTo("compare")
    /\ index' = [f \in Files |-> IF f \in run.landed THEN work[f] ELSE index[f]]
    /\ UNCHANGED <<remoteVars, head, work, stash, asideVars, built, devVars, told>>

Compare ==
    /\ pc = "compare"
    /\ GoesTo(IF \A f \in run.landed : index[f] = Blob(f, run.target) THEN "sweep" ELSE "unstage")
    /\ UNCHANGED <<remoteVars, treeVars, built, devVars, told>>

\* moveAsideRunningPrograms: delete the copies of earlier applies that no program still
\* runs from, ...
AsideSweep ==
    /\ pc = "sweep" /\ GoesTo("aside")
    /\ \E running \in SUBSET Programs :
           copies' = [f \in Programs |-> IF f \in running THEN copies[f] ELSE Absent]
    /\ UNCHANGED <<remoteVars, head, index, work, stash, moving, built, devVars, told>>

\* ... rename each program the fetched commit (or the cooldown's) changes; one that cannot
\* be renamed is left where it is, ...
AsideMove ==
    /\ pc = "aside"
    /\ \E t \in IF cooldown THEN {run.target} ELSE run.seen .. tip :
       \E moved \in SUBSET {f \in Programs : Blob(f, t) # BlobIn(f, head) /\ work[f] # Absent} :
           /\ moving' = moved
           /\ copies' = [f \in Programs |-> IF f \in moved THEN work[f] ELSE copies[f]]
           /\ work' = [f \in Files |-> IF f \in moved THEN Absent ELSE work[f]]
           /\ GoesTo(IF moved = {} THEN "advance" ELSE "asideBack")
    /\ UNCHANGED <<remoteVars, head, index, stash, built, devVars, told>>

\* ... and put those paths back as HEAD has them.
AsideCheckout ==
    /\ pc = "asideBack" /\ GoesTo("advance")
    /\ index' = [f \in Files |-> IF f \in moving THEN BlobIn(f, head) ELSE index[f]]
    /\ work' = [f \in Files |-> IF f \in moving THEN BlobIn(f, head) ELSE work[f]]
    /\ moving' = {}
    /\ UNCHANGED <<remoteVars, head, stash, copies, built, devVars, told>>

\* When that checkout fails the copies are renamed back; one that cannot be is named.
AsideFails ==
    /\ "aside" \in Faults /\ pc = "asideBack"
    /\ \E back \in SUBSET moving :
           /\ work' = [f \in Files |-> IF f \in back THEN copies[f] ELSE work[f]]
           /\ copies' = [f \in Programs |-> IF f \in back THEN Absent ELSE copies[f]]
           /\ told' = (told \/ back # moving)
    /\ moving' = {}
    /\ IF run.landed = {} THEN End ELSE GoesTo("unstage")
    /\ UNCHANGED <<remoteVars, head, index, stash, built, devVars>>

\* Under a cooldown the checked commit itself is merged; a pull takes what the branch has now.
\* What if: the cooldown only decided whether to announce.
AdvanceToTip == tip

AdvanceTo == IF cooldown THEN run.target ELSE tip

Advance ==
    /\ pc = "advance" /\ GoesTo("steps")
    /\ \/ BehindHead(AdvanceTo) /\ UNCHANGED <<head, index, work>>
       \/ /\ ~BehindHead(AdvanceTo) /\ CanFastForward(AdvanceTo)
          /\ head' = [base |-> AdvanceTo, own |-> {}]
          /\ LET moved == {f \in Files : Blob(f, head.base) # Blob(f, AdvanceTo)}
                 to(t, f) == IF f \in moved /\ t[f] = Blob(f, head.base)
                             THEN Blob(f, AdvanceTo) ELSE t[f]
             IN  /\ index' = [f \in Files |-> to(index, f)]
                 /\ work' = [f \in Files |-> to(work, f)]
    /\ UNCHANGED <<remoteVars, stash, asideVars, built, devVars, told>>

\* A failed advance moved nothing; staged landed paths are unstaged again.
AdvanceFails ==
    /\ pc \in {"stage", "advance"}
    /\ \/ "advance" \in Faults
       \/ pc = "advance" /\ ~BehindHead(AdvanceTo) /\ ~CanFastForward(AdvanceTo)
    /\ IF run.landed = {} THEN End ELSE GoesTo("unstage")
    /\ UNCHANGED <<remoteVars, treeVars, built, devVars, told>>

Unstage ==
    /\ pc = "unstage" /\ End
    /\ \/ index' = [f \in Files |-> IF f \in run.landed THEN BlobIn(f, head) ELSE index[f]]
       \/ "unstage" \in Faults /\ UNCHANGED index
    /\ UNCHANGED <<remoteVars, head, work, stash, asideVars, built, devVars, told>>

\* What if: a failed step were tried again, ...
StepRetries ==
    /\ "steps" \in Faults /\ pc = "steps"
    /\ GotoWith("steps", [run EXCEPT !.step = 1]) /\ built' = Broken
    /\ UNCHANGED <<remoteVars, treeVars, devVars, told>>

\* runDueSteps: a step that starts spoils the previous build, the last one completes the new.
RunStep ==
    /\ pc = "steps"
    /\ IF run.step < Steps
       THEN GotoWith("steps", [run EXCEPT !.step = @ + 1]) /\ built' = Broken
       ELSE End /\ built' = head.base
    /\ UNCHANGED <<remoteVars, treeVars, devVars, told>>

StepFails ==
    /\ "steps" \in Faults /\ pc = "steps"
    /\ GotoWith("rbStatus", [run EXCEPT !.step = 1]) /\ built' = Broken
    /\ UNCHANGED <<remoteVars, treeVars, devVars, told>>

---------------------------------------------------------------------------------------
\* rollbackAfterFailedUpdate: read the tree, stash what changed, reset, restore, rebuild.
RbStatus ==
    /\ pc = "rbStatus" /\ GoesTo(IF Dirty = {} THEN "rbReset" ELSE "rbStash")
    /\ UNCHANGED <<remoteVars, treeVars, built, devVars, told>>

RbStash ==
    /\ pc = "rbStash" /\ GoesTo("rbReset")
    /\ stash' = stash \cup {f \in Files : Own \in {work[f], index[f]}}
    /\ index' = TreeOf(head) /\ work' = TreeOf(head)
    /\ UNCHANGED <<remoteVars, head, asideVars, built, devVars, told>>

\* ... a stash that failed did not end the rollback, ...
RbGoesOn ==
    /\ pc \in {"rbStatus", "rbStash"} /\ pc \in Faults /\ GoesTo("rbReset")
    /\ UNCHANGED <<remoteVars, treeVars, built, devVars, told>>

\* Without a readable tree or a stash nothing is reset, and without a reset nothing rebuilt.
RbFails ==
    /\ pc \in {"rbStatus", "rbStash", "rbReset"} /\ pc \in Faults
    /\ End /\ told' = TRUE
    /\ UNCHANGED <<remoteVars, treeVars, built, devVars>>

\* ... the reset forgot the edits that had landed, ...
RbResetOnly ==
    /\ pc = "rbReset" /\ GoesTo("rbSteps")
    /\ head' = run.cur /\ index' = TreeOf(run.cur) /\ work' = TreeOf(run.cur)
    /\ UNCHANGED <<remoteVars, stash, asideVars, built, devVars, told>>

RbReset ==
    /\ pc = "rbReset" /\ GoesTo(IF run.landed = {} THEN "rbSteps" ELSE "rbCheckout")
    /\ head' = run.cur /\ index' = TreeOf(run.cur) /\ work' = TreeOf(run.cur)
    /\ UNCHANGED <<remoteVars, stash, asideVars, built, devVars, told>>

\* restoreLandedEdits: the kept files from the target, unstaged; the deleted ones deleted.
Kept == {f \in run.landed : Blob(f, run.target) # Absent}

RbCheckout ==
    /\ pc = "rbCheckout" /\ GoesTo("rbUnstage")
    /\ index' = [f \in Files |-> IF f \in Kept THEN Blob(f, run.target) ELSE index[f]]
    /\ work' = [f \in Files |-> IF f \in Kept THEN Blob(f, run.target) ELSE work[f]]
    /\ UNCHANGED <<remoteVars, head, stash, asideVars, built, devVars, told>>

RbUnstage ==
    /\ pc = "rbUnstage" /\ GoesTo("rbUnlink")
    /\ index' = [f \in Files |-> IF f \in Kept THEN BlobIn(f, head) ELSE index[f]]
    /\ UNCHANGED <<remoteVars, head, work, stash, asideVars, built, devVars, told>>

\* The deleted ones one by one: each may stay, and the next is still tried.
RbUnlink ==
    /\ pc = "rbUnlink"
    /\ \E stay \in SUBSET (run.landed \ Kept) :
           /\ stay # {} => "restore" \in Faults
           /\ GoesTo(IF stay = {} THEN "rbSteps" ELSE "rbBare")
           /\ work' = [f \in Files |-> IF f \in run.landed \ (Kept \cup stay) THEN Absent ELSE work[f]]
    /\ UNCHANGED <<remoteVars, head, index, stash, asideVars, built, devVars, told>>

\* A restore that fails, or does not find the checkout's folder, stops there, and the rollback
\* goes on without saying so.
RbRestoreFails ==
    /\ "restore" \in Faults /\ pc \in {"rbCheckout", "rbUnstage", "rbUnlink"} /\ GoesTo("rbBare")
    /\ UNCHANGED <<remoteVars, treeVars, built, devVars, told>>

\* ... a rebuild of the old version that fails said "rolled back", ...
RbStepsSilent ==
    /\ pc \in {"rbSteps", "rbBare"}
    /\ \/ run.step < Steps /\ GotoWith(pc, [run EXCEPT !.step = @ + 1]) /\ UNCHANGED built
       \/ run.step = Steps /\ End /\ built' = head.base
       \/ "steps" \in Faults /\ End /\ built' = Broken
    /\ UNCHANGED <<remoteVars, treeVars, devVars, told>>

RbSteps ==
    /\ pc \in {"rbSteps", "rbBare"}
    /\ \/ run.step < Steps /\ GotoWith(pc, [run EXCEPT !.step = @ + 1]) /\ UNCHANGED <<built, told>>
       \/ run.step = Steps /\ End /\ built' = head.base /\ UNCHANGED told
       \/ "steps" \in Faults /\ End /\ built' = Broken /\ told' = TRUE
    /\ UNCHANGED <<remoteVars, treeVars, devVars>>

---------------------------------------------------------------------------------------
ApplyStep ==
    \/ ReadStatus \/ ReadRemote \/ Fetch \/ Settle \/ Applicable \/ CheckFails
    \/ Stage \/ Compare \/ AsideSweep \/ AsideMove \/ AsideCheckout \/ AsideFails
    \/ Advance \/ AdvanceFails \/ Unstage \/ RunStep \/ StepFails
    \/ RbStatus \/ RbStash \/ RbFails \/ RbReset
    \/ RbCheckout \/ RbUnstage \/ RbUnlink \/ RbRestoreFails \/ RbSteps

Developer ==
    \/ \E f \in Files : DevEdit(f) \/ DevStage(f) \/ \E c \in Commits : DevPatch(f, c)
    \/ DevCommit

SuNext == Push \/ Age \/ StartApply \/ ApplyStep \/ Developer

SuSpec == SuInit /\ [][SuNext]_suVars /\ WF_suVars(ApplyStep)

---------------------------------------------------------------------------------------
\* What each piece of state holds.
SuTypeOK ==
    /\ cooldown \in BOOLEAN /\ tip \in Commits /\ aged \in 0 .. tip
    /\ head \in [base : 0 .. tip, own : SUBSET Files]
    /\ run \in [cur : [base : 0 .. tip, own : SUBSET Files], dirty : BOOLEAN, seen : 0 .. tip,
                target : 0 .. tip, landed : SUBSET Files, step : 1 .. Steps]
    /\ index \in [Files -> Commits \cup {Absent, Own}]
    /\ work \in [Files -> Commits \cup {Absent, Own}]
    /\ built \in Commits \cup {Broken}
    /\ copies \in [Programs -> Commits \cup {Absent, Own}] /\ moving \subseteq Programs
    /\ stash \subseteq written /\ late \subseteq written /\ deleted \subseteq Files
    /\ told \in BOOLEAN

\* No update destroys a developer's edit: whatever the apply and its rollback do, an edit
\* made at a moment the engine still looks at the tree can be found afterwards
\* (updater-engine-rollback.mjs: "a half-updated checkout is recoverable by hand, a
\* deleted edit is not").
EditsSurvive == written \ late \subseteq Reachable

\* Taken at its word, that comment covers every edit, also one written between the
\* rollback's `git status` or stash and its reset.
NoEditDeleted == written \subseteq Reachable

\* A checkout whose dependencies and build are not those of its HEAD was reported as such:
\* an apply that says nothing, or says "updated" or "rolled back", leaves none behind, and
\* none with a program file missing that is not staged as deleted, unless the developer
\* deleted it.
HalfUpdatedIsReported ==
    /\ pc = "idle"
    /\ \/ built # head.base
       \/ \E f \in Programs \ deleted : work[f] = Absent /\ index[f] # Absent
    => told

\* A rollback whose restore did not fail gives back the local edits the update had taken as its own,
\* unless the developer has changed them since (the previous version runs as before).
LandedEditsComeBack ==
    [][pc = "rbSteps" /\ pc' = "idle" =>
          \A f \in run.landed : work[f] \in {Blob(f, run.target), Own}]_suVars

\* Under a cooldown HEAD never moves to a commit the cooldown still holds back, whatever
\* is pushed between the check and the advance.
HeldBackIsNotAdopted == [][cooldown /\ head'.base > head.base => head'.base <= aged]_suVars

\* Every apply ends: each git command and step has a deadline.
ApplyEnds == pc # "idle" ~> pc = "idle"
================================================================================
