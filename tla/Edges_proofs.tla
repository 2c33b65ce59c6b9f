----------------------------- MODULE Edges_proofs -----------------------------
(***************************************************************************)
(* Theorems about the specification MCEdges.Spec, for every value of its   *)
(* constants: first the parts that Gates_proofs leaves, each with its      *)
(* inductive invariant (Projects, Commands with the shared boot,           *)
(* SettingsSync, Desktop, ComposePrepare, the measuring of Telemetry, and  *)
(* the dialog and the panels of ProjectPages), then their composition: a   *)
(* step is one part's, the others keep what they had, and the invariants   *)
(* checked by the runs of MCEdges follow from the parts' own.              *)
(***************************************************************************)
EXTENDS MCEdges, Gates_proofs

---------------------------------------------------------------------------------------
(* Projects. What was chosen last is on disk or in memory, whichever the next step reads; while
   the daemon is up the toggles, what is saved and what was chosen are one. *)

ChosenIsKept == <<toggle, mainToggle>> = <<chosen, chosenMain>>
ProjectsInv ==
  /\ ProjectsTypeOK /\ ChoicesLast /\ ShownComesBack

\* What a daemon finds at its first start.
LEMMA ProjectsInvInit == ProjectsInit => ProjectsInv
<1> SUFFICES ASSUME ProjectsInit PROVE ProjectsInv
  OBVIOUS
<1>1. /\ saved \in [Procs -> Choices] /\ savedMain \in [Paths -> Choices]
      /\ toggle \in [Procs -> Choices] /\ mainToggle \in [Paths -> Choices]
      /\ managed \in [Paths -> SUBSET Locals] /\ removing \in [Paths -> SUBSET Removals]
      /\ files \in [Paths -> SUBSET Locals]
  BY DEF ProjectsInit, Choices
<1>2. ProjectsTypeOK
  BY <1>1 DEF ProjectsInit, ProjectsTypeOK
<1> QED BY <1>2 DEF ProjectsInit, ProjectsInv, ChoicesLast, ShownComesBack

\* One value of a function changed.
LEMMA OnesFunctions ==
  ASSUME NEW S, NEW T, NEW f \in [S -> T], NEW x \in S, NEW v \in T
  PROVE  [f EXCEPT ![x] = v] \in [S -> T]
OBVIOUS

\* The choices after a change of the toggles, and the user's with it.
ChoicesTyped ==
  /\ saved \in [Procs -> Choices] /\ savedMain \in [Paths -> Choices]
  /\ toggle \in [Procs -> Choices] /\ mainToggle \in [Paths -> Choices] /\ unsaved \in BOOLEAN
ChoicesFollow ==
  /\ toggle = chosen /\ mainToggle = chosenMain
  /\ ~unsaved => saved = chosen /\ savedMain = chosenMain

\* persist(): what is saved is what the toggles are.
LEMMA PersistFollows ==
  ASSUME ProjectsInv, NEW t \in [Procs -> Choices], NEW m \in [Paths -> Choices], Persist(t, m)
  PROVE  /\ ChoicesTyped' /\ toggle' = t /\ mainToggle' = m
         /\ chosen' = t /\ chosenMain' = m => ChoicesFollow'
BY DEF ProjectsInv, ProjectsTypeOK, Persist, ChoicesTyped, ChoicesFollow

\* A removal forgets the choices for what is removed, in memory and on disk.
LEMMA ForgettingFollows ==
  ASSUME ProjectsInv, daemon = "up", NEW xs, NEW ps, Forgets(xs, ps), Unchosen(xs, ps)
  PROVE  ChoicesTyped' /\ ChoicesFollow'
<1> DEFINE t == [x \in Procs |-> IF x \in xs THEN "unset" ELSE toggle[x]]
           m == [p \in Paths |-> IF p \in ps THEN "unset" ELSE mainToggle[p]]
<1>1. toggle = chosen /\ mainToggle = chosenMain
  BY DEF ProjectsInv, ChoicesLast
<1>2. chosen' = t /\ chosenMain' = m
  BY <1>1 DEF Unchosen
<1>3. t \in [Procs -> Choices] /\ m \in [Paths -> Choices]
  BY DEF ProjectsInv, ProjectsTypeOK, Choices
<1>4. ~unsaved => saved = chosen /\ savedMain = chosenMain
  BY DEF ProjectsInv, ChoicesLast
<1>5. ChoicesTyped
  BY DEF ProjectsInv, ProjectsTypeOK, ChoicesTyped
<1>6. (t = toggle /\ m = mainToggle /\ ChoicesStay) \/ Persist(t, m)
  BY DEF Forgets
<1> HIDE DEF t, m
<1>7. CASE Persist(t, m)
  BY <1>2, <1>3, <1>7, PersistFollows
<1>8. CASE t = toggle /\ m = mainToggle /\ ChoicesStay
  BY <1>1, <1>2, <1>4, <1>5, <1>8 DEF ChoicesStay, ChoicesTyped, ChoicesFollow
<1> QED BY <1>6, <1>7, <1>8

\* What is managed, wanted, remembered and gone: the part of the invariant beside the choices.
KeptWell ==
  /\ files \in [Paths -> SUBSET Locals] /\ remembered \subseteq Paths /\ gone \subseteq Paths
  /\ daemon \in {"up", "down", "crashed"} /\ {safe, launches} \subseteq BOOLEAN
  /\ managed \in [Paths -> SUBSET Locals]
  /\ wanted \subseteq UNION {Of(p, managed[p]) : p \in Paths}
  /\ removing \in [Paths -> SUBSET Removals]
  /\ daemon # "up" => managed = [p \in Paths |-> {}]
  /\ ShownComesBack

\* The invariant from its parts.
LEMMA InvParts == (KeptWell /\ ChoicesTyped /\ ChoicesLast)' => ProjectsInv'
BY DEF ProjectsInv, KeptWell, ProjectsTypeOK, ChoicesTyped

\* Choices that are saved as they were chosen last.
LEMMA FollowingLasts == ChoicesFollow' => ChoicesLast'
BY DEF ChoicesFollow, ChoicesLast

\* A step that touches no choice loses none.
LEMMA StayingLasts ==
  ASSUME ProjectsInv, ChoicesStay, UNCHANGED <<chosen, chosenMain>>, daemon' = "up" => daemon = "up"
  PROVE  ChoicesTyped' /\ ChoicesLast'
BY DEF ProjectsInv, ProjectsTypeOK, ChoicesStay, ChoicesTyped, ChoicesLast

\* What is wanted is of a project that is managed.
LEMMA WantedManaged ==
  ASSUME ProjectsInv, NEW x
  PROVE  x \in wanted <=> x \in wanted /\ x \in Procs /\ x = <<x[1], x[2]>> /\ x[1] \in Paths
                                        /\ x[2] \in managed[x[1]]
<1> SUFFICES ASSUME x \in wanted
             PROVE  x \in Procs /\ x = <<x[1], x[2]>> /\ x[1] \in Paths /\ x[2] \in managed[x[1]]
  OBVIOUS
<1>1. PICK p \in Paths : x \in {p} \X managed[p]
  BY DEF ProjectsInv, ProjectsTypeOK, Of
<1>2. managed[p] \subseteq Locals
  BY DEF ProjectsInv, ProjectsTypeOK
<1> QED BY <1>1, <1>2 DEF Procs

\* A process of a managed project is a managed process.
LEMMA ManagedWanted ==
  ASSUME NEW man, NEW p \in Paths, NEW x \in Of(p, man[p])
  PROVE  x \in UNION {Of(q, man[q]) : q \in Paths}
OBVIOUS

\* A process of a project bears the project's path.
LEMMA OfIs == ASSUME NEW p, NEW ls, NEW x \in Of(p, ls) PROVE x = <<p, x[2]>> /\ x[1] = p /\ x[2] \in ls
BY DEF Of

\* A project is given the processes `ls`; what runs of others goes on.
LEMMA ManagedAnew ==
  ASSUME ProjectsInv, NEW p \in Paths, NEW ls \in SUBSET Locals, NEW more,
         managed' = [managed EXCEPT ![p] = ls], more \subseteq Of(p, ls),
         wanted' \subseteq wanted \cup more,
         \A x \in wanted' : x[1] = p => x[2] \in ls
  PROVE  /\ managed' \in [Paths -> SUBSET Locals] /\ managed'[p] = ls
         /\ \A q \in Paths : q # p => managed'[q] = managed[q]
         /\ wanted' \subseteq UNION {Of(q, managed'[q]) : q \in Paths}
<1>1. managed \in [Paths -> SUBSET Locals]
  BY DEF ProjectsInv, ProjectsTypeOK
<1>2. /\ managed' \in [Paths -> SUBSET Locals] /\ managed'[p] = ls
      /\ \A q \in Paths : q # p => managed'[q] = managed[q]
  BY <1>1
<1>3. ASSUME NEW x \in wanted' PROVE x \in UNION {Of(q, managed'[q]) : q \in Paths}
  <2>1. CASE x \in more
    <3>1. x \in Of(p, managed'[p])
      BY <1>2, <2>1
    <3> QED BY <3>1
  <2>2. CASE x \in wanted
    <3>1. x = <<x[1], x[2]>> /\ x[1] \in Paths /\ x[2] \in managed[x[1]]
      BY <2>2, WantedManaged
    <3>2. x[2] \in managed'[x[1]]
      BY <1>2, <1>3, <3>1
    <3>3. x \in Of(x[1], managed'[x[1]])
      BY <3>1, <3>2 DEF Of
    <3> QED BY <3>1, <3>3
  <2> QED BY <1>3, <2>1, <2>2
<1> QED BY <1>2, <1>3

\* What a removal has taken is a removal.
LEMMA TakenTyped ==
  ASSUME ProjectsInv, NEW p \in Paths, NEW r \in removing[p]
  PROVE  [own |-> FALSE, ids |-> Taken(r, p)] \in Removals
<1>1. r \in Removals /\ managed[p] \subseteq Locals
  BY DEF ProjectsInv, ProjectsTypeOK
<1>2. Taken(r, p) \in SUBSET Locals
  <2>1. CASE r.own
    BY <1>1, <2>1 DEF Taken
  <2>2. CASE ~r.own
    <3>1. r.ids \in SUBSET Locals
      <4>1. r = [own |-> TRUE, ids |-> {}] \/ r \in [own : {FALSE}, ids : SUBSET Locals]
        BY <1>1 DEF Removals
      <4>2. r # [own |-> TRUE, ids |-> {}]
        BY <2>2
      <4> QED BY <4>1, <4>2
    <3> QED BY <2>2, <3>1 DEF Taken
  <2> QED BY <2>1, <2>2
<1> QED BY <1>2 DEF Removals

\* addProject: what is managed and wanted after it.
LEMMA AddTyped ==
  ASSUME ProjectsInv, daemon = "up", NEW p \in Paths, NEW ls \in SUBSET Locals, ls # {}, NEW autostart,
         addProject(p, ls, autostart), UNCHANGED worldVars,
         remembered' = remembered \cup {p}, gone' = gone \ {p}, files' \in [Paths -> SUBSET Locals]
  PROVE  /\ ProjectsInv'
         /\ \A x \in wanted' \ wanted : autostart /\ x[1] = p /\ On(x)
<1>1. /\ Forgets(Of(p, managed[p] \ ls), {}) /\ Unchosen(Of(p, managed[p] \ ls), {})
      /\ managed' = [managed EXCEPT ![p] = ls]
      /\ wanted' = (wanted \ Of(p, managed[p]))
                    \cup (IF autostart THEN AutostartOf(toggle', mainToggle', Of(p, ls)) ELSE {})
      /\ removing' = [removing EXCEPT ![p] = Replaced(p)]
  BY DEF addProject, ForgetsGone
<1>2. ChoicesTyped' /\ ChoicesFollow'
  BY <1>1, ForgettingFollows
<1>3. AutostartOf(toggle', mainToggle', Of(p, ls)) \subseteq Of(p, ls)
  BY DEF AutostartOf
<1>4. \A x \in wanted' : x[1] = p => x[2] \in ls
  <2>1. ASSUME NEW x \in wanted, x \notin Of(p, managed[p]), x[1] = p PROVE FALSE
    <3>1. x = <<p, x[2]>> /\ x[2] \in managed[p]
      BY <2>1, WantedManaged
    <3> QED BY <2>1, <3>1 DEF Of
  <2> QED BY <1>1, <1>3, <2>1, OfIs
<1>5. /\ managed' \in [Paths -> SUBSET Locals] /\ managed'[p] = ls
      /\ \A q \in Paths : q # p => managed'[q] = managed[q]
      /\ wanted' \subseteq UNION {Of(q, managed'[q]) : q \in Paths}
  <2>1. wanted' \subseteq wanted \cup Of(p, ls)
    BY <1>1, <1>3
  <2> QED BY <1>1, <1>4, <2>1, ManagedAnew
<1>6. removing' \in [Paths -> SUBSET Removals]
  <2>1. Replaced(p) \subseteq Removals
    BY TakenTyped DEF Replaced
  <2> QED BY <1>1, <2>1 DEF ProjectsInv, ProjectsTypeOK
<1>7. ShownComesBack'
  <2>1. ASSUME NEW q \in Paths, managed'[q] # {} PROVE q \in remembered'
    BY <1>5, <2>1 DEF ProjectsInv, ShownComesBack
  <2>2. ASSUME NEW q \in gone' PROVE q \notin remembered' /\ managed'[q] = {}
    <3>1. q \in gone /\ q # p /\ q \in Paths
      BY DEF ProjectsInv, ProjectsTypeOK
    <3> QED BY <1>5, <3>1 DEF ProjectsInv, ShownComesBack
  <2> QED BY <2>1, <2>2 DEF ShownComesBack
<1>8. KeptWell'
  BY <1>5, <1>6, <1>7 DEF ProjectsInv, ProjectsTypeOK, KeptWell, worldVars
<1>9. ProjectsInv'
  BY <1>2, <1>8, FollowingLasts, InvParts
<1>10. ASSUME NEW x \in wanted' \ wanted PROVE autostart /\ x[1] = p /\ On(x)
  <2>1. autostart /\ x \in AutostartOf(toggle', mainToggle', Of(p, ls))
    BY <1>1
  <2>2. x[1] = p
    BY <1>3, <2>1, OfIs
  <2>3. toggle' = chosen' /\ mainToggle' = chosenMain'
    BY <1>2 DEF ChoicesFollow
  <2> QED BY <2>1, <2>2, <2>3 DEF AutostartOf, On
<1> QED BY <1>9, <1>10

\* loadProject: a project loaded again is first removed; what was running is started only
\* when it is switched on.
LEMMA LoadKeeps ==
  ASSUME ProjectsInv, NEW p \in Paths, NEW ls \in SUBSET Locals, loadProject(p, ls),
         files' \in [Paths -> SUBSET Locals]
  PROVE  /\ ProjectsInv' /\ daemon = "up" /\ daemon' = "up"
         /\ \A x \in wanted' \ wanted : On(x) /\ x[1] \in remembered
<1>1. /\ daemon = "up" /\ ls # {} /\ addProject(p, ls, p \in remembered)
      /\ remembered' = remembered \cup {p} /\ gone' = gone \ {p} /\ UNCHANGED worldVars
  BY DEF loadProject
<1>2. ProjectsInv' /\ \A x \in wanted' \ wanted : (p \in remembered) /\ x[1] = p /\ On(x)
  BY <1>1, AddTyped
<1>3. daemon' = "up"
  BY <1>1 DEF worldVars
<1> QED BY <1>1, <1>2, <1>3

\* reconcileProject: entries that came, went or stayed, and what runs of them.
LEMMA ReconcileKeeps ==
  ASSUME ProjectsInv, daemon = "up", NEW p \in Paths, NEW ls \in SUBSET Locals, NEW fromWatch,
         reconcileProject(p, ls, fromWatch), managed[p] # {},
         UNCHANGED <<remembered, gone, daemon, safe, launches>>, files' \in [Paths -> SUBSET Locals]
  PROVE  /\ ProjectsInv'
         /\ \A x \in wanted' \ wanted : On(x) /\ x[1] \in remembered
<1> DEFINE more == IF fromWatch THEN {}
                   ELSE AutostartOf(toggle', mainToggle', Of(p, ls \ managed[p]))
<1>1. /\ Forgets(Of(p, managed[p] \ ls), {}) /\ Unchosen(Of(p, managed[p] \ ls), {})
      /\ managed' = [managed EXCEPT ![p] = ls]
      /\ wanted' = (wanted \ Of(p, managed[p] \ ls)) \cup more
      /\ UNCHANGED removing
  BY DEF reconcileProject, ForgetsGone, Discarded
<1>2. ChoicesTyped' /\ ChoicesFollow'
  BY <1>1, ForgettingFollows
<1>3. more \subseteq Of(p, ls)
  BY DEF AutostartOf, Of
<1>4. \A x \in more : On(x) /\ x[1] = p
  <2>1. toggle' = chosen' /\ mainToggle' = chosenMain'
    BY <1>2 DEF ChoicesFollow
  <2> QED BY <1>3, <2>1, OfIs DEF AutostartOf, On
<1> HIDE DEF more
<1>5. \A x \in wanted' : x[1] = p => x[2] \in ls
  <2>1. ASSUME NEW x \in wanted, x \notin Of(p, managed[p] \ ls), x[1] = p, x[2] \notin ls
        PROVE FALSE
    <3>1. x = <<p, x[2]>> /\ x[2] \in managed[p]
      BY <2>1, WantedManaged
    <3> QED BY <2>1, <3>1 DEF Of
  <2> QED BY <1>1, <1>3, <2>1, OfIs
<1>6. /\ managed' \in [Paths -> SUBSET Locals] /\ managed'[p] = ls
      /\ \A q \in Paths : q # p => managed'[q] = managed[q]
      /\ wanted' \subseteq UNION {Of(q, managed'[q]) : q \in Paths}
  <2>1. wanted' \subseteq wanted \cup more
    BY <1>1
  <2> QED BY <1>1, <1>3, <1>5, <2>1, ManagedAnew
<1>7. p \in remembered /\ p \notin gone
  BY DEF ProjectsInv, ShownComesBack
<1>8. ShownComesBack'
  <2>1. ASSUME NEW q \in gone PROVE q # p /\ q \in Paths
    BY <1>7 DEF ProjectsInv, ProjectsTypeOK
  <2> QED BY <1>6, <1>7, <2>1 DEF ProjectsInv, ShownComesBack
<1>9. KeptWell'
  BY <1>1, <1>6, <1>8 DEF ProjectsInv, ProjectsTypeOK, KeptWell
<1>10. ProjectsInv'
  BY <1>2, <1>9, FollowingLasts, InvParts
<1> QED BY <1>1, <1>4, <1>7, <1>10

\* A removal that was waiting for exits ends.
LEMMA RemoveEndsKeeps ==
  ASSUME ProjectsInv, NEW p \in Paths, NEW r \in removing[p], RemoveEnds(p, r)
  PROVE  ProjectsInv' /\ wanted' \subseteq wanted /\ daemon = "up" /\ UNCHANGED daemon
<1>1. /\ daemon = "up" /\ UNCHANGED <<files, daemon, safe, launches>>
      /\ Forgets(Of(p, Taken(r, p)), {p}) /\ Unchosen(Of(p, Taken(r, p)), {p})
      /\ managed' = [managed EXCEPT ![p] = {}] /\ wanted' = wanted \ Of(p, Locals)
      /\ removing' = [removing EXCEPT ![p] =
                        {[own |-> FALSE, ids |-> Taken(o, p)] : o \in removing[p] \ {r}}]
      /\ remembered' = remembered \ {p} /\ gone' = gone \cup {p}
  BY DEF RemoveEnds, Unregisters, worldVars
<1>2. ChoicesTyped' /\ ChoicesFollow'
  BY <1>1, ForgettingFollows
<1>3. \A x \in wanted' : x[1] # p
  <2>1. ASSUME NEW x \in wanted, x \notin Of(p, Locals), x[1] = p PROVE FALSE
    <3>1. x \in Procs /\ x = <<p, x[2]>>
      BY <2>1, WantedManaged
    <3> QED BY <2>1, <3>1 DEF Of, Procs
  <2> QED BY <1>1, <2>1
<1>4. /\ managed' \in [Paths -> SUBSET Locals] /\ managed'[p] = {}
      /\ \A q \in Paths : q # p => managed'[q] = managed[q]
      /\ wanted' \subseteq UNION {Of(q, managed'[q]) : q \in Paths}
  <2>1. wanted' \subseteq wanted \cup {} /\ {} \subseteq Of(p, {}) /\ {} \in SUBSET Locals
    BY <1>1
  <2> QED BY <1>1, <1>3, <2>1, ManagedAnew
<1>5. removing' \in [Paths -> SUBSET Removals]
  <2>1. {[own |-> FALSE, ids |-> Taken(o, p)] : o \in removing[p] \ {r}} \subseteq Removals
    BY TakenTyped
  <2> QED BY <1>1, <2>1 DEF ProjectsInv, ProjectsTypeOK
<1>6. ShownComesBack'
  BY <1>1, <1>4 DEF ProjectsInv, ShownComesBack
<1>7. KeptWell'
  BY <1>1, <1>4, <1>5, <1>6 DEF ProjectsInv, ProjectsTypeOK, KeptWell
<1> QED BY <1>1, <1>2, <1>7, FollowingLasts, InvParts

\* What a start makes wanted was asked for.
LEMMA StartTheseKeeps ==
  ASSUME ProjectsInv, NEW xs \in SUBSET Procs, StartThese(xs)
  PROVE  ProjectsInv' /\ StartThese(wanted' \ wanted) /\ UNCHANGED daemon
         /\ \A x \in wanted' \ wanted : x \in xs /\ x[1] \in remembered
<1>1. /\ daemon = "up" /\ wanted' = wanted \cup {x \in xs : x[2] \in managed[x[1]]}
      /\ UNCHANGED <<diskVars, choiceVars, worldVars, managed, removing>>
  BY DEF StartThese
<1>2. \A x \in xs : x = <<x[1], x[2]>> /\ x[1] \in Paths
  BY DEF Procs
<1>3. wanted' \subseteq UNION {Of(q, managed[q]) : q \in Paths}
  <2>1. ASSUME NEW x \in xs, x[2] \in managed[x[1]] PROVE x \in UNION {Of(q, managed[q]) : q \in Paths}
    <3>1. x \in Of(x[1], managed[x[1]])
      BY <1>2, <2>1 DEF Of
    <3> QED BY <1>2, <3>1
  <2> QED BY <1>1, <2>1 DEF ProjectsInv, ProjectsTypeOK
<1>4. ProjectsInv'
  <2>1. KeptWell'
    BY <1>1, <1>3 DEF ProjectsInv, ProjectsTypeOK, KeptWell, ShownComesBack, diskVars, worldVars
  <2>2. ChoicesTyped' /\ ChoicesLast'
    BY <1>1, StayingLasts DEF choiceVars, worldVars, ChoicesStay
  <2> QED BY <2>1, <2>2, InvParts
<1>5. wanted' = wanted \cup {x \in wanted' \ wanted : x[2] \in managed[x[1]]}
  BY <1>1
<1>6. StartThese(wanted' \ wanted)
  BY <1>1, <1>5 DEF StartThese
<1>7. \A x \in wanted' \ wanted : x \in xs /\ x[1] \in remembered
  BY <1>1, <1>2 DEF ProjectsInv, ShownComesBack
<1> QED BY <1>1, <1>4, <1>6, <1>7 DEF worldVars

\* A stop makes nothing wanted.
LEMMA StopTheseKeeps ==
  ASSUME ProjectsInv, NEW xs, StopThese(xs)
  PROVE  ProjectsInv' /\ wanted' \subseteq wanted /\ UNCHANGED daemon
<1>1. /\ daemon = "up" /\ wanted' = wanted \ xs
      /\ UNCHANGED <<diskVars, choiceVars, worldVars, managed, removing>>
  BY DEF StopThese
<1>2. KeptWell'
  BY <1>1 DEF ProjectsInv, ProjectsTypeOK, KeptWell, ShownComesBack, diskVars, worldVars
<1>3. ChoicesTyped' /\ ChoicesLast'
  BY <1>1, StayingLasts DEF choiceVars, worldVars, ChoicesStay
<1> QED BY <1>1, <1>2, <1>3, InvParts DEF worldVars

\* A removal begins by stopping.
LEMMA RemoveBeginsKeeps ==
  ASSUME ProjectsInv, NEW p \in Paths, RemoveBegins(p)
  PROVE  ProjectsInv' /\ wanted' \subseteq wanted /\ UNCHANGED daemon
<1>1. /\ daemon = "up" /\ wanted' = wanted \ Of(p, managed[p])
      /\ removing' = [removing EXCEPT ![p] = removing[p] \cup {[own |-> TRUE, ids |-> {}]}]
      /\ UNCHANGED <<diskVars, choiceVars, worldVars, managed>>
  BY DEF RemoveBegins
<1>2. removing' \in [Paths -> SUBSET Removals]
  BY <1>1 DEF ProjectsInv, ProjectsTypeOK, Removals
<1>3. KeptWell'
  BY <1>1, <1>2 DEF ProjectsInv, ProjectsTypeOK, KeptWell, ShownComesBack, diskVars, worldVars
<1>4. ChoicesTyped' /\ ChoicesLast'
  BY <1>1, StayingLasts DEF choiceVars, worldVars, ChoicesStay
<1> QED BY <1>1, <1>3, <1>4, InvParts DEF worldVars

\* An editor writes a project file.
LEMMA EditOnDiskKeeps ==
  ASSUME ProjectsInv, NEW p \in Paths, NEW ls \in SUBSET Locals, EditOnDisk(p, ls)
  PROVE  ProjectsInv' /\ UNCHANGED <<wanted, daemon>>
<1>1. /\ files' = [files EXCEPT ![p] = ls]
      /\ UNCHANGED <<remembered, gone, choiceVars, daemon, safe, launches, managed, wanted, removing>>
  BY DEF EditOnDisk
<1>2. KeptWell'
  BY <1>1 DEF ProjectsInv, ProjectsTypeOK, KeptWell, ShownComesBack
<1>3. ChoicesTyped' /\ ChoicesLast'
  BY <1>1, StayingLasts DEF choiceVars, ChoicesStay
<1> QED BY <1>1, <1>2, <1>3, InvParts

\* The user's switches, of a process or of a whole project, are saved at once.
LEMMA ToggleKeeps ==
  ASSUME ProjectsInv,
         \/ \E x \in Procs, c \in {"on", "off"} : setProcessEnabled(x, c)
         \/ \E p \in Paths, c \in {"on", "off"} : setProjectEnabled(p, c)
  PROVE  ProjectsInv' /\ UNCHANGED <<wanted, daemon>>
<1>1. toggle = chosen /\ mainToggle = chosenMain /\ daemon = "up"
      /\ toggle \in [Procs -> Choices] /\ mainToggle \in [Paths -> Choices]
  BY DEF ProjectsInv, ChoicesLast, ProjectsTypeOK, setProcessEnabled, setProjectEnabled
<1>2. \E t \in [Procs -> Choices], m \in [Paths -> Choices] :
         Persist(t, m) /\ chosen' = t /\ chosenMain' = m
  <2>1. ASSUME NEW x \in Procs, NEW c \in {"on", "off"}, setProcessEnabled(x, c)
        PROVE  <1>2!:
    <3>1. [toggle EXCEPT ![x] = c] \in [Procs -> Choices]
      BY <1>1 DEF Choices
    <3>2. /\ Persist([toggle EXCEPT ![x] = c], mainToggle)
          /\ chosen' = [toggle EXCEPT ![x] = c] /\ chosenMain' = mainToggle
      BY <1>1, <2>1 DEF setProcessEnabled
    <3> QED BY <1>1, <3>1, <3>2
  <2>2. ASSUME NEW p \in Paths, NEW c \in {"on", "off"}, setProjectEnabled(p, c)
        PROVE  <1>2!:
    <3>1. [mainToggle EXCEPT ![p] = c] \in [Paths -> Choices]
      BY <1>1 DEF Choices
    <3>2. /\ Persist(toggle, [mainToggle EXCEPT ![p] = c])
          /\ chosenMain' = [mainToggle EXCEPT ![p] = c] /\ chosen' = toggle
      BY <1>1, <2>2 DEF setProjectEnabled
    <3> QED BY <1>1, <3>1, <3>2
  <2> QED BY <2>1, <2>2
<1>3. ChoicesTyped' /\ ChoicesFollow'
  BY <1>2, PersistFollows
<1>4. UNCHANGED <<diskVars, daemon, safe, launches, managed, wanted, removing>>
  BY DEF setProcessEnabled, setProjectEnabled
<1>5. KeptWell'
  BY <1>4 DEF ProjectsInv, ProjectsTypeOK, KeptWell, ShownComesBack, diskVars
<1> QED BY <1>3, <1>4, <1>5, FollowingLasts, InvParts

\* Nothing is wanted while no daemon runs.
LEMMA NothingWanted == ASSUME ProjectsInv, daemon # "up" PROVE wanted = {}
BY WantedManaged DEF ProjectsInv, ProjectsTypeOK

\* A daemon that boots starts what is switched on, or in safe mode nothing.
LEMMA BootKeeps ==
  ASSUME ProjectsInv, NEW wish \in BOOLEAN, DaemonBoots(wish)
  PROVE  /\ ProjectsInv' /\ daemon # "up" /\ daemon' = "up"
         /\ \A x \in wanted' \ wanted : On(x) /\ x[1] \in remembered
         /\ wanted' = {x \in Procs : launches /\ ~safe' /\ x[2] \in managed'[x[1]] /\ On(x)}
<1> DEFINE all == UNION {Of(p, managed'[p]) : p \in Paths}
<1>1. /\ daemon # "up" /\ daemon' = "up" /\ safe' = (wish \/ daemon = "crashed")
      /\ toggle' = saved /\ mainToggle' = savedMain
      /\ managed' = [p \in Paths |-> IF p \in remembered THEN files[p] ELSE {}]
      /\ wanted' = IF launches /\ ~safe' THEN AutostartOf(saved, savedMain, all) ELSE {}
      /\ chosen' = (IF unsaved THEN saved ELSE chosen) /\ unsaved' = FALSE
      /\ chosenMain' = (IF unsaved THEN savedMain ELSE chosenMain)
      /\ UNCHANGED <<diskVars, saved, savedMain, launches, removing>>
  BY DEF DaemonBoots
<1>2. chosen' = saved /\ chosenMain' = savedMain
  BY <1>1 DEF ProjectsInv, ChoicesLast
<1>3. ChoicesTyped' /\ ChoicesFollow'
  BY <1>1, <1>2 DEF ProjectsInv, ProjectsTypeOK, ChoicesTyped, ChoicesFollow
<1>4. managed' \in [Paths -> SUBSET Locals] /\ \A p \in Paths : managed'[p] # {} => p \in remembered
  BY <1>1 DEF ProjectsInv, ProjectsTypeOK
<1>5. ShownComesBack'
  <2>1. \A q \in gone : q \in Paths /\ q \notin remembered
    BY DEF ProjectsInv, ProjectsTypeOK, ShownComesBack
  <2> QED BY <1>1, <1>4, <2>1 DEF ShownComesBack, diskVars
<1>6. safe' \in BOOLEAN
  BY <1>1
<1>7. wanted' \subseteq all
  BY <1>1 DEF AutostartOf
<1>8. KeptWell'
  BY <1>1, <1>4, <1>5, <1>6, <1>7 DEF ProjectsInv, ProjectsTypeOK, KeptWell, diskVars
<1>9. \A x : x \in all <=> x \in Procs /\ x[2] \in managed'[x[1]]
  <2>1. ASSUME NEW x \in all PROVE x \in Procs /\ x[2] \in managed'[x[1]]
    <3>1. PICK p \in Paths : x \in {p} \X managed'[p]
      BY DEF Of
    <3> QED BY <1>4, <3>1 DEF Procs
  <2>2. ASSUME NEW x \in Procs, x[2] \in managed'[x[1]] PROVE x \in all
    <3>1. x[1] \in Paths /\ x \in {x[1]} \X managed'[x[1]]
      BY <2>2 DEF Procs
    <3> QED BY <3>1 DEF Of
  <2> QED BY <2>1, <2>2
<1> HIDE DEF all
<1>10. \A x : On(x) <=> willAutostart(saved, savedMain, x)
  BY <1>2 DEF On
<1>11. wanted' = {x \in Procs : launches /\ ~safe' /\ x[2] \in managed'[x[1]] /\ On(x)}
  BY <1>1, <1>9, <1>10 DEF AutostartOf
<1>12. \A x \in wanted' : On(x) /\ x[1] \in remembered
  <2>1. \A x \in Procs : x[1] \in Paths
    BY DEF Procs
  <2> QED BY <1>4, <1>11, <2>1
<1> QED BY <1>1, <1>3, <1>8, <1>11, <1>12, FollowingLasts, InvParts

\* Safe mode left: what is switched on starts then.
LEMMA ExitSafeKeeps ==
  ASSUME ProjectsInv, ExitSafeMode
  PROVE  /\ ProjectsInv' /\ UNCHANGED daemon
         /\ \A x \in wanted' \ wanted : On(x) /\ x[1] \in remembered
<1> DEFINE all == UNION {Of(p, managed[p]) : p \in Paths}
<1>1. /\ daemon = "up" /\ safe' = FALSE
      /\ wanted' = wanted \cup (IF launches THEN AutostartOf(toggle, mainToggle, all) ELSE {})
      /\ UNCHANGED <<diskVars, choiceVars, daemon, launches, managed, removing>>
  BY DEF ExitSafeMode
<1>2. \A x \in all : x[1] \in Paths /\ managed[x[1]] # {}
  <2>1. ASSUME NEW x \in all PROVE x[1] \in Paths /\ managed[x[1]] # {}
    <3>1. PICK p \in Paths : x \in {p} \X managed[p]
      BY DEF Of
    <3> QED BY <3>1
  <2> QED BY <2>1
<1>3. wanted' \subseteq all
  BY <1>1 DEF AutostartOf, ProjectsInv, ProjectsTypeOK
<1>4. toggle = chosen' /\ mainToggle = chosenMain'
  BY <1>1 DEF ProjectsInv, ChoicesLast, choiceVars
<1>5. \A x \in wanted' \ wanted : On(x) /\ x[1] \in remembered
  BY <1>1, <1>2, <1>4 DEF AutostartOf, On, ProjectsInv, ShownComesBack
<1>6. KeptWell'
  BY <1>1, <1>3 DEF ProjectsInv, ProjectsTypeOK, KeptWell, ShownComesBack, diskVars
<1>7. ChoicesTyped' /\ ChoicesLast'
  BY <1>1, StayingLasts DEF choiceVars, ChoicesStay
<1> QED BY <1>1, <1>5, <1>6, <1>7, InvParts

\* A daemon that ends, by itself or by a crash, loses no choice.
LEMMA EndKeeps ==
  ASSUME ProjectsInv, ShutsDown \/ Crashes
  PROVE  ProjectsInv' /\ wanted' \subseteq wanted /\ daemon' # "up"
<1>1. /\ daemon = "up" /\ daemon' \in {"down", "crashed"} /\ wanted' = {} /\ safe' = FALSE
      /\ managed' = [p \in Paths |-> {}] /\ removing' = [p \in Paths |-> {}]
      /\ UNCHANGED <<diskVars, launches>>
  BY DEF ShutsDown, Crashes, Gone
<1>2. /\ managed' \in [Paths -> SUBSET Locals] /\ removing' \in [Paths -> SUBSET Removals]
      /\ \A p \in Paths : managed'[p] = {}
  BY <1>1
<1>3. KeptWell'
  BY <1>1, <1>2 DEF ProjectsInv, ProjectsTypeOK, KeptWell, ShownComesBack, diskVars
<1>4. CASE UNCHANGED choiceVars
  <2>1. ChoicesTyped' /\ ChoicesLast'
    BY <1>1, <1>4, StayingLasts DEF choiceVars, ChoicesStay
  <2> QED BY <1>1, <1>3, <2>1, InvParts
<1>5. ASSUME NEW p \in Paths, NEW r \in removing[p],
             Forgets(Of(p, Taken(r, p)), {p}), Unchosen(Of(p, Taken(r, p)), {p})
      PROVE  ProjectsInv'
  <2>1. ChoicesTyped' /\ ChoicesFollow'
    BY <1>1, <1>5, ForgettingFollows
  <2> QED BY <1>3, <2>1, FollowingLasts, InvParts
<1> QED BY <1>1, <1>4, <1>5 DEF ShutsDown, Crashes

\* What every step keeps, and what it may start.
StartsUnderstood ==
  /\ \A x \in wanted' \ wanted : StartThese(wanted' \ wanted) \/ (On(x) /\ x[1] \in remembered)
  /\ daemon # "up" /\ daemon' = "up" =>
        wanted' = {x \in Procs : launches /\ ~safe' /\ x[2] \in managed'[x[1]] /\ On(x)}

\* So every step of the projects keeps the choices and starts nothing unasked.
LEMMA ProjectsStep == ASSUME ProjectsInv, ProjectsNext PROVE ProjectsInv' /\ StartsUnderstood
<1>1. ASSUME NEW p \in Paths, LoadProject(p) PROVE ProjectsInv' /\ StartsUnderstood
  <2>1. loadProject(p, files[p]) /\ files' = files /\ files[p] \in SUBSET Locals
        /\ files' \in [Paths -> SUBSET Locals]
    BY <1>1 DEF LoadProject, ProjectsInv, ProjectsTypeOK
  <2> QED BY <2>1, LoadKeeps DEF StartsUnderstood
<1>2. ASSUME NEW p \in Paths, WatchReloads(p) PROVE ProjectsInv' /\ StartsUnderstood
  <2>1. /\ daemon = "up" /\ managed[p] # {} /\ reconcileProject(p, files[p], TRUE)
        /\ UNCHANGED <<remembered, gone, daemon, safe, launches>> /\ files[p] \in SUBSET Locals
        /\ files' \in [Paths -> SUBSET Locals]
    BY <1>2 DEF WatchReloads, ProjectsInv, ProjectsTypeOK, diskVars, worldVars
  <2> QED BY <2>1, ReconcileKeeps DEF StartsUnderstood
<1>3. ASSUME NEW p \in Paths, NEW ls \in SUBSET Locals, EditInGui(p, ls)
      PROVE  ProjectsInv' /\ StartsUnderstood
  <2>1. /\ daemon = "up" /\ managed[p] # {} /\ reconcileProject(p, ls, FALSE)
        /\ UNCHANGED <<remembered, gone, daemon, safe, launches>>
        /\ files' \in [Paths -> SUBSET Locals]
    BY <1>3 DEF EditInGui, ProjectsInv, ProjectsTypeOK
  <2> QED BY <2>1, ReconcileKeeps DEF StartsUnderstood
<1>4. ASSUME NEW p \in Paths,
             \/ RemoveBegins(p) \/ \E r \in removing[p] : RemoveEnds(p, r)
             \/ \E ls \in SUBSET Locals : EditOnDisk(p, ls)
             \/ \E c \in {"on", "off"} : setProjectEnabled(p, c)
             \/ StopThese(Of(p, Locals))
      PROVE  ProjectsInv' /\ StartsUnderstood
  <2>1. ProjectsInv' /\ wanted' \subseteq wanted /\ daemon' = daemon
    BY <1>4, RemoveBeginsKeeps, RemoveEndsKeeps, EditOnDiskKeeps, ToggleKeeps, StopTheseKeeps
  <2> QED BY <2>1 DEF StartsUnderstood
<1>5. ASSUME NEW xs \in SUBSET Procs, StartThese(xs) PROVE ProjectsInv' /\ StartsUnderstood
  BY <1>5, StartTheseKeeps DEF StartsUnderstood
<1>6. \A p \in Paths : Of(p, Locals) \in SUBSET Procs
  BY DEF Of, Procs
<1>7. ASSUME NEW x \in Procs, \/ StopThese({x}) \/ \E c \in {"on", "off"} : setProcessEnabled(x, c)
      PROVE  ProjectsInv' /\ StartsUnderstood
  <2>1. ProjectsInv' /\ wanted' \subseteq wanted /\ daemon' = daemon
    BY <1>7, ToggleKeeps, StopTheseKeeps
  <2> QED BY <2>1 DEF StartsUnderstood
<1>8. ASSUME NEW wish \in BOOLEAN, DaemonBoots(wish) PROVE ProjectsInv' /\ StartsUnderstood
  BY <1>8, BootKeeps DEF StartsUnderstood
<1>9. CASE ExitSafeMode
  BY <1>9, ExitSafeKeeps DEF StartsUnderstood
<1>10. CASE StopThese(Procs)
  BY <1>10, StopTheseKeeps DEF StartsUnderstood
<1>11. CASE ShutsDown \/ Crashes
  BY <1>11, EndKeeps DEF StartsUnderstood
<1> QED BY <1>1, <1>2, <1>3, <1>4, <1>5, <1>6, <1>7, <1>8, <1>9, <1>10, <1>11 DEF ProjectsNext

\* And a step of something else.
LEMMA ProjectsStutter == ASSUME ProjectsInv, UNCHANGED projectVars PROVE ProjectsInv' /\ StartsUnderstood
BY DEF projectVars, ProjectsInv, ProjectsTypeOK, ChoicesLast, ShownComesBack, StartsUnderstood

---------------------------------------------------------------------------------------
(* Commands. A command keeps to the processes and projects it named, and one that ended names
   none; whatever it does to the projects is a step of theirs. *)

Phases == {"idle", "look", "boot", "list", "load", "open", "scan", "existing", "each", "resolve",
           "act"}
ShellTypes ==
  /\ verb \in [Shells -> Verbs] /\ on \in [Shells -> SUBSET Procs] /\ phase \in [Shells -> Phases]
  /\ todo \in [Shells -> SUBSET Paths] /\ found \in [Shells -> SUBSET Paths]
  /\ seen \in [Shells -> SUBSET Paths] /\ making \in [Shells -> SUBSET Paths]
ShellKeeps(c) ==
  /\ making[c] \subseteq todo[c] /\ (phase[c] # "each" => making[c] = {})
  /\ phase[c] = "idle" \/ verb[c] = "boot" => on[c] = {}
ShellsInv == ShellTypes /\ \A c \in Shells : ShellKeeps(c)
CommandsInv == ProjectsInv /\ ShellsInv /\ commands \in 0 .. MaxCommands

\* At first no command runs.
LEMMA CommandsInvInit == CommandsInit => CommandsInv
<1> SUFFICES ASSUME CommandsInit PROVE CommandsInv
  OBVIOUS
<1>1. ProjectsInv /\ commands \in 0 .. MaxCommands
  BY ProjectsInvInit, CommandsAssumption DEF CommandsInit
<1>2. ShellTypes /\ \A c \in Shells : ShellKeeps(c)
  BY DEF CommandsInit, ShellTypes, ShellKeeps, Phases, Verbs
<1> QED BY <1>1, <1>2 DEF CommandsInv, ShellsInv

\* A shell that ends or goes on; the others stay where they are.
OthersStay(c) ==
  \A d \in Shells \ {c} :
    /\ verb'[d] = verb[d] /\ on'[d] = on[d] /\ phase'[d] = phase[d] /\ todo'[d] = todo[d]
    /\ found'[d] = found[d] /\ seen'[d] = seen[d] /\ making'[d] = making[d]

\* A step of one shell leaves the others' commands alone.
LEMMA ShellMoves ==
  ASSUME ShellsInv, NEW c \in Shells, ShellTypes', OthersStay(c), ShellKeeps(c)'
  PROVE  ShellsInv'
BY DEF ShellsInv, ShellKeeps, OthersStay

\* A command ends.
LEMMA EndsKeeps ==
  ASSUME ShellsInv, NEW c \in Shells, CommandEnds(c)
  PROVE  ShellsInv' /\ OthersStay(c)
<1> USE DEF ShellsInv
<1>1. /\ phase' = [phase EXCEPT ![c] = "idle"] /\ on' = [on EXCEPT ![c] = {}]
      /\ seen' = [seen EXCEPT ![c] = {}] /\ todo' = [todo EXCEPT ![c] = {}]
      /\ found' = [found EXCEPT ![c] = {}] /\ making' = [making EXCEPT ![c] = {}] /\ verb' = verb
  BY DEF CommandEnds, GoesTo
<1>2. ShellTypes' /\ OthersStay(c) /\ on'[c] = {} /\ making'[c] = {}
  BY <1>1 DEF ShellTypes, Phases, OthersStay
<1> QED BY <1>2, ShellMoves DEF ShellKeeps

\* A command goes on and changes nothing but where it is.
LEMMA OnlyKeeps ==
  ASSUME ShellsInv, NEW c \in Shells, NEW where \in Phases, Only(c, where), phase[c] # "each",
         where = "idle" => on[c] = {}
  PROVE  ShellsInv' /\ OthersStay(c) /\ todo' = todo
<1> USE DEF ShellsInv
<1>1. phase' = [phase EXCEPT ![c] = where] /\ UNCHANGED <<verb, on, todo, found, seen, making>>
  BY DEF Only, GoesTo
<1>2. ShellTypes' /\ OthersStay(c)
  BY <1>1 DEF ShellTypes, OthersStay
<1>3. ShellKeeps(c)'
  <2>1. phase'[c] = where
    BY <1>1 DEF ShellTypes
  <2> QED BY <1>1, <2>1 DEF ShellKeeps
<1> QED BY <1>1, <1>2, <1>3, ShellMoves

\* Where a command goes once a daemon is there.
LEMMA AfterLookGoes ==
  ASSUME NEW v \in Verbs
  PROVE  AfterLook(v) \in Phases /\ (AfterLook(v) = "idle" => v = "boot")
BY DEF AfterLook, Verbs, Openers, Actions, Bulk, Phases

\* What a step may do to the projects.
ProjectsGo == ProjectsInv' /\ StartsUnderstood

\* A step that leaves the projects alone.
LEMMA ProjectsStay == ASSUME ProjectsInv, UNCHANGED projectVars PROVE ProjectsGo /\ wanted' = wanted
BY ProjectsStutter DEF ProjectsGo, projectVars

\* A folder adds without running what nobody had seen.
AddsQuietly ==
  \A c \in Shells : verb[c] = "folder" /\ phase[c] = "each" /\ todo'[c] # todo[c] =>
      \A x \in wanted' \ wanted : x[1] \in remembered /\ (x[1] \in seen[c] \/ On(x))

CommandKeeps == CommandsInv' /\ StartsUnderstood /\ AddsQuietly

\* Steps that pass no project of a folder.
LEMMA NothingPassed ==
  ASSUME CommandsInv, NEW c \in Shells, ShellsInv', OthersStay(c), ProjectsGo,
         phase[c] # "each" \/ todo'[c] = todo[c] \/ wanted' \subseteq wanted, UNCHANGED commands
  PROVE  CommandKeeps
BY DEF CommandKeeps, CommandsInv, ProjectsGo, AddsQuietly, OthersStay

\* A command is given.
LEMMA InvokeKeeps ==
  ASSUME CommandsInv, NEW c \in Shells, NEW v \in Verbs, NEW xs \in SUBSET Procs, Invoke(c, v, xs)
  PROVE  CommandKeeps
<1>1. /\ phase[c] = "idle" /\ commands < MaxCommands /\ commands' = commands + 1
      /\ v = "boot" => xs = {}
      /\ verb' = [verb EXCEPT ![c] = v] /\ on' = [on EXCEPT ![c] = xs]
      /\ phase' = [phase EXCEPT ![c] = "look"]
      /\ UNCHANGED <<todo, found, seen, making>> /\ UNCHANGED projectVars
  BY DEF Invoke, GoesTo
<1>2. ShellTypes' /\ OthersStay(c) /\ verb'[c] = v /\ on'[c] = xs /\ phase'[c] = "look"
  BY <1>1 DEF CommandsInv, ShellsInv, ShellTypes, Phases, OthersStay
<1>3. ShellKeeps(c)'
  <2>1. making[c] \subseteq todo[c] /\ making[c] = {}
    BY <1>1 DEF CommandsInv, ShellsInv, ShellKeeps
  <2> QED BY <1>1, <1>2, <2>1 DEF ShellKeeps
<1>4. ShellsInv'
  BY <1>2, <1>3, ShellMoves DEF CommandsInv
<1>5. commands' \in 0 .. MaxCommands
  BY <1>1, CommandsAssumption DEF CommandsInv
<1>6. ProjectsInv' /\ StartsUnderstood
  BY <1>1, ProjectsStay DEF CommandsInv, ProjectsGo
<1>7. AddsQuietly
  BY <1>1 DEF AddsQuietly
<1> QED BY <1>4, <1>5, <1>6, <1>7 DEF CommandKeeps, CommandsInv

\* The steps before the first request, and those of a shortcut.
LEMMA LooksKeep ==
  ASSUME CommandsInv, NEW c \in Shells, findLive(c) \/ bootDaemon(c) \/ Unreachable(c)
                        \/ listProjects(c) \/ loadMissing(c) \/ startOpened(c)
  PROVE  CommandKeeps
<1>0. /\ ProjectsInv /\ ShellsInv /\ verb[c] \in Verbs /\ on[c] \in SUBSET Procs
      /\ verb[c] = "boot" => on[c] = {}
  BY DEF CommandsInv, ShellsInv, ShellTypes, ShellKeeps
<1>1. CASE findLive(c)
  <2>1. phase[c] = "look" /\ UNCHANGED commands /\ UNCHANGED projectVars
    BY <1>1 DEF findLive
  <2>2. \/ Only(c, AfterLook(verb[c])) /\ verb[c] # "boot"
        \/ Only(c, "boot")
        \/ CommandEnds(c)
    BY <1>1 DEF findLive
  <2>3. ShellsInv' /\ OthersStay(c)
    <3>1. AfterLook(verb[c]) \in Phases /\ "boot" \in Phases
      BY <1>0, AfterLookGoes DEF Phases
    <3> QED BY <1>0, <2>1, <2>2, <3>1, AfterLookGoes, OnlyKeeps, EndsKeeps
  <2>4. ProjectsGo /\ wanted' = wanted
    BY <1>0, <2>1, ProjectsStay
  <2> QED BY <2>1, <2>3, <2>4, NothingPassed
<1>2. CASE bootDaemon(c)
  <2>1. phase[c] = "boot" /\ UNCHANGED commands
    BY <1>2 DEF bootDaemon
  <2>2. Only(c, AfterLook(verb[c])) \/ CommandEnds(c)
    BY <1>2 DEF bootDaemon
  <2>3. ShellsInv' /\ OthersStay(c)
    BY <1>0, <2>1, <2>2, AfterLookGoes, OnlyKeeps, EndsKeeps
  <2>4. ProjectsGo
    <3>1. DaemonBoots(FALSE) \/ UNCHANGED projectVars
      BY <1>2 DEF bootDaemon
    <3>2. CASE DaemonBoots(FALSE)
      BY <1>0, <3>2, BootKeeps DEF ProjectsGo, StartsUnderstood
    <3> QED BY <1>0, <3>1, <3>2, ProjectsStay
  <2> QED BY <2>1, <2>3, <2>4, NothingPassed
<1>3. CASE Unreachable(c)
  <2>1. CommandEnds(c) /\ UNCHANGED commands /\ UNCHANGED projectVars
    BY <1>3 DEF Unreachable
  <2> QED BY <1>0, <2>1, EndsKeeps, ProjectsStay, NothingPassed
<1>4. CASE listProjects(c)
  <2>1. /\ phase[c] = "list" /\ UNCHANGED commands /\ UNCHANGED projectVars
        /\ Only(c, "open") \/ Only(c, "load")
    BY <1>4 DEF listProjects
  <2>2. ShellsInv' /\ OthersStay(c)
    <3>1. "open" \in Phases /\ "load" \in Phases
      BY DEF Phases
    <3> QED BY <1>0, <2>1, <3>1, OnlyKeeps
  <2> QED BY <1>0, <2>1, <2>2, ProjectsStay, NothingPassed
<1>5. CASE loadMissing(c)
  <2>1. /\ phase[c] = "load" /\ UNCHANGED commands
        /\ \/ Only(c, "open") /\ \E p \in ProjectsOf(on[c]) : LoadProject(p)
           \/ CommandEnds(c) /\ UNCHANGED projectVars
    BY <1>5 DEF loadMissing
  <2>2. ShellsInv' /\ OthersStay(c)
    <3>1. "open" \in Phases
      BY DEF Phases
    <3> QED BY <1>0, <2>1, <3>1, OnlyKeeps, EndsKeeps
  <2>3. ASSUME NEW p \in ProjectsOf(on[c]), LoadProject(p) PROVE ProjectsGo
    <3>1. p \in Paths
      BY <1>0 DEF ProjectsOf, Procs
    <3>2. ProjectsNext
      BY <2>3, <3>1 DEF ProjectsNext
    <3> QED BY <1>0, <3>2, ProjectsStep DEF ProjectsGo
  <2> QED BY <1>0, <2>1, <2>2, <2>3, ProjectsStay, NothingPassed
<1>6. CASE startOpened(c)
  <2>1. phase[c] = "open" /\ CommandEnds(c) /\ StartThese(on[c]) /\ UNCHANGED commands
    BY <1>6 DEF startOpened
  <2>2. ProjectsGo
    BY <1>0, <2>1, StartTheseKeeps DEF ProjectsGo, StartsUnderstood
  <2> QED BY <1>0, <2>1, <2>2, EndsKeeps, NothingPassed
<1> QED BY <1>1, <1>2, <1>3, <1>4, <1>5, <1>6

\* The commands for a process, for all processes and for the daemon.
LEMMA ActsKeep ==
  ASSUME CommandsInv, NEW c \in Shells, resolveProcessId(c) \/ processAction(c) \/ bulk(c)
  PROVE  CommandKeeps
<1>0. ProjectsInv /\ ShellsInv /\ on[c] \in SUBSET Procs
  BY DEF CommandsInv, ShellsInv, ShellTypes
<1>1. CASE resolveProcessId(c)
  <2> DEFINE matches == {x \in on[c] : IsManaged(x)}
  <2>1. /\ phase[c] = "resolve" /\ UNCHANGED commands /\ UNCHANGED projectVars
        /\ \/ CommandEnds(c)
           \/ /\ GoesTo(c, "act") /\ on' = [on EXCEPT ![c] = matches]
              /\ UNCHANGED <<verb, todo, found, seen, making>> /\ Cardinality(matches) = 1
    BY <1>1 DEF resolveProcessId
  <2>2. ASSUME GoesTo(c, "act"), on' = [on EXCEPT ![c] = matches],
               UNCHANGED <<verb, todo, found, seen, making>>
        PROVE  ShellsInv' /\ OthersStay(c)
    <3>1. matches \in SUBSET Procs
      BY <1>0
    <3> HIDE DEF matches
    <3>2. ShellTypes' /\ OthersStay(c) /\ phase'[c] = "act" /\ on'[c] = matches
      BY <1>0, <2>2, <3>1 DEF GoesTo, ShellsInv, ShellTypes, OthersStay, Phases
    <3>3. verb[c] = "boot" => matches = {}
      BY <1>0 DEF ShellsInv, ShellKeeps, matches
    <3>4. making[c] = {}
      BY <1>0, <2>1 DEF ShellsInv, ShellKeeps
    <3>5. ShellKeeps(c)'
      BY <2>2, <3>2, <3>3, <3>4 DEF ShellKeeps
    <3> QED BY <1>0, <3>2, <3>5, ShellMoves
  <2>3. ShellsInv' /\ OthersStay(c)
    BY <1>0, <2>1, <2>2, EndsKeeps
  <2> QED BY <1>0, <2>1, <2>3, ProjectsStay, NothingPassed
<1>2. CASE processAction(c)
  <2>1. phase[c] = "act" /\ CommandEnds(c) /\ UNCHANGED commands
    BY <1>2 DEF processAction
  <2>2. \/ UNCHANGED projectVars
        \/ \E x \in Procs : \/ StartThese({x}) \/ StopThese({x})
                            \/ setProcessEnabled(x, "on") \/ setProcessEnabled(x, "off")
    BY <1>0, <1>2 DEF processAction
  <2>3. ProjectsGo
    <3>1. UNCHANGED projectVars \/ ProjectsNext
      BY <2>2 DEF ProjectsNext
    <3> QED BY <1>0, <3>1, ProjectsStay, ProjectsStep DEF ProjectsGo
  <2> QED BY <1>0, <2>1, <2>3, EndsKeeps, NothingPassed
<1>3. CASE bulk(c)
  <2>1. phase[c] = "act" /\ CommandEnds(c) /\ UNCHANGED commands
    BY <1>3 DEF bulk
  <2>2. ProjectsNext
    BY <1>3 DEF bulk, ProjectsNext
  <2> QED BY <1>0, <2>1, <2>2, EndsKeeps, NothingPassed, ProjectsStep DEF ProjectsGo
<1> QED BY <1>1, <1>2, <1>3

\* A folder's projects, one by one.
LEMMA PassedKeeps ==
  ASSUME ShellsInv, NEW c \in Shells, NEW p \in Paths, Passed(c, p),
         making' \in [Shells -> SUBSET Paths], \A d \in Shells \ {c} : making'[d] = making[d],
         making'[c] = {}
  PROVE  ShellsInv' /\ OthersStay(c)
<1>1. todo' = [todo EXCEPT ![c] = todo[c] \ {p}] /\ UNCHANGED <<verb, phase, on, found, seen>>
  BY DEF Passed
<1>2. ShellTypes' /\ OthersStay(c)
  BY <1>1 DEF ShellsInv, ShellTypes, OthersStay
<1>3. ShellKeeps(c)'
  BY <1>1 DEF ShellsInv, ShellKeeps
<1> QED BY <1>2, <1>3, ShellMoves

\* A dropped folder, project by project: only what was there before is started.
LEMMA FoldersKeep ==
  ASSUME CommandsInv, NEW c \in Shells,
         \/ scanFolder(c) \/ listExisting(c) \/ folderEnds(c)
         \/ \E p \in Paths : \/ startExisting(c, p) \/ addFoundProject(c, p)
                             \/ \E ls \in SUBSET Locals : scaffold(c, p, ls)
  PROVE  CommandKeeps
<1>0. /\ ProjectsInv /\ ShellsInv /\ ShellTypes /\ on[c] \in SUBSET Procs
      /\ files \in [Paths -> SUBSET Locals]
  BY DEF CommandsInv, ShellsInv, ShellTypes, ProjectsInv, ProjectsTypeOK
<1>1. CASE scanFolder(c)
  <2>1. /\ phase[c] = "scan" /\ phase' = [phase EXCEPT ![c] = "existing"]
        /\ todo' = [todo EXCEPT ![c] = ProjectsOf(on[c])]
        /\ found' = [found EXCEPT ![c] = {p \in ProjectsOf(on[c]) : files[p] # {}}]
        /\ UNCHANGED <<verb, on, seen, making>> /\ UNCHANGED commands /\ UNCHANGED projectVars
    BY <1>1 DEF scanFolder, GoesTo
  <2>2. ProjectsOf(on[c]) \subseteq Paths
    BY <1>0 DEF ProjectsOf, Procs
  <2>3. ShellTypes' /\ OthersStay(c) /\ phase'[c] = "existing"
    BY <1>0, <2>1, <2>2 DEF ShellTypes, OthersStay, Phases
  <2>4. making[c] = {} /\ (verb[c] = "boot" => on[c] = {})
    BY <1>0, <2>1 DEF ShellsInv, ShellKeeps
  <2>5. ShellKeeps(c)'
    BY <2>1, <2>3, <2>4 DEF ShellKeeps
  <2>6. ShellsInv'
    BY <1>0, <2>3, <2>5, ShellMoves
  <2> QED BY <1>0, <2>1, <2>3, <2>6, ProjectsStay, NothingPassed
<1>2. CASE listExisting(c)
  <2>1. /\ phase[c] = "existing" /\ phase' = [phase EXCEPT ![c] = "each"]
        /\ seen' = [seen EXCEPT ![c] = Present]
        /\ UNCHANGED <<verb, on, todo, found, making>> /\ UNCHANGED commands
        /\ UNCHANGED projectVars
    BY <1>2 DEF listExisting, GoesTo
  <2>2. Present \subseteq Paths
    BY DEF Present
  <2>3. ShellTypes' /\ OthersStay(c) /\ phase'[c] = "each"
    BY <1>0, <2>1, <2>2 DEF ShellTypes, OthersStay, Phases
  <2>4. making[c] = {} /\ (verb[c] = "boot" => on[c] = {})
    BY <1>0, <2>1 DEF ShellsInv, ShellKeeps
  <2>5. ShellKeeps(c)'
    BY <2>1, <2>3, <2>4 DEF ShellKeeps
  <2>6. ShellsInv'
    BY <1>0, <2>3, <2>5, ShellMoves
  <2> QED BY <1>0, <2>1, <2>3, <2>6, ProjectsStay, NothingPassed
<1>3. CASE folderEnds(c)
  <2>1. CommandEnds(c) /\ UNCHANGED commands /\ UNCHANGED projectVars
    BY <1>3 DEF folderEnds
  <2> QED BY <1>0, <2>1, EndsKeeps, ProjectsStay, NothingPassed
<1>4. ASSUME NEW p \in Paths, startExisting(c, p) PROVE CommandKeeps
  <2>1. /\ phase[c] = "each" /\ making[c] = {} /\ p \in seen[c] /\ Passed(c, p)
        /\ UNCHANGED making /\ UNCHANGED commands /\ StartThese(Of(p, Locals))
    BY <1>4 DEF startExisting
  <2>2. Of(p, Locals) \in SUBSET Procs /\ \A x \in Of(p, Locals) : x[1] = p
    BY DEF Of, Procs
  <2>3. /\ ProjectsInv' /\ StartThese(wanted' \ wanted) /\ UNCHANGED daemon
        /\ \A x \in wanted' \ wanted : x[1] = p /\ x[1] \in remembered
    BY <1>0, <2>1, <2>2, StartTheseKeeps
  <2>4. StartsUnderstood
    BY <2>3 DEF StartsUnderstood
  <2>5. ShellsInv' /\ OthersStay(c)
    BY <1>0, <2>1, PassedKeeps DEF ShellTypes
  <2>6. AddsQuietly
    BY <2>1, <2>3, <2>5 DEF AddsQuietly, OthersStay
  <2> QED BY <2>1, <2>3, <2>4, <2>5, <2>6 DEF CommandKeeps, CommandsInv
<1>5. ASSUME NEW p \in Paths, addFoundProject(c, p) PROVE CommandKeeps
  <2>1. phase[c] = "each" /\ making[c] = {} /\ UNCHANGED commands /\ p \in todo[c]
    BY <1>5 DEF addFoundProject
  <2>2. CASE LoadProject(p) /\ Passed(c, p) /\ UNCHANGED making
    <3>1. loadProject(p, files[p]) /\ files' \in [Paths -> SUBSET Locals] /\ files[p] \in SUBSET Locals
      BY <1>0, <2>2 DEF LoadProject
    <3>2. /\ ProjectsInv' /\ daemon = "up" /\ daemon' = "up"
          /\ \A x \in wanted' \ wanted : On(x) /\ x[1] \in remembered
      BY <1>0, <3>1, LoadKeeps
    <3>3. ShellsInv' /\ OthersStay(c)
      BY <1>0, <2>1, <2>2, PassedKeeps DEF ShellTypes
    <3> QED BY <2>1, <3>2, <3>3
            DEF CommandKeeps, CommandsInv, StartsUnderstood, AddsQuietly
  <2>3. CASE UNCHANGED projectVars /\ Passed(c, p) /\ UNCHANGED making
    <3>1. ShellsInv' /\ OthersStay(c)
      BY <1>0, <2>1, <2>3, PassedKeeps DEF ShellTypes
    <3> QED BY <1>0, <2>1, <2>3, <3>1, ProjectsStay, NothingPassed
  <2>4. CASE /\ UNCHANGED projectVars /\ making' = [making EXCEPT ![c] = {p}]
             /\ UNCHANGED <<verb, phase, on, todo, found, seen>>
    <3>1. ShellTypes' /\ OthersStay(c) /\ making'[c] = {p}
      BY <1>0, <2>4 DEF ShellTypes, OthersStay
    <3>2. ShellKeeps(c)'
      BY <1>0, <2>1, <2>4, <3>1 DEF ShellKeeps, ShellsInv
    <3>3. ShellsInv'
      BY <1>0, <3>1, <3>2, ShellMoves
    <3> QED BY <1>0, <2>1, <2>4, <3>1, <3>3, ProjectsStay, NothingPassed
  <2> QED BY <1>5, <2>2, <2>3, <2>4 DEF addFoundProject
<1>6. ASSUME NEW p \in Paths, NEW ls \in SUBSET Locals, scaffold(c, p, ls) PROVE CommandKeeps
  <2>1. /\ phase[c] = "each" /\ Passed(c, p) /\ making' = [making EXCEPT ![c] = {}]
        /\ UNCHANGED commands
    BY <1>6 DEF scaffold
  <2>2. ShellsInv' /\ OthersStay(c)
    <3>1. /\ making' \in [Shells -> SUBSET Paths] /\ making'[c] = {}
          /\ \A d \in Shells \ {c} : making'[d] = making[d]
      BY <1>0, <2>1 DEF ShellTypes
    <3> QED BY <1>0, <2>1, <3>1, PassedKeeps
  <2>3. CASE files' = [files EXCEPT ![p] = ls] /\ loadProject(p, ls)
    <3>1. files' \in [Paths -> SUBSET Locals]
      BY <1>0, <2>3
    <3>2. /\ ProjectsInv' /\ daemon = "up" /\ daemon' = "up"
          /\ \A x \in wanted' \ wanted : On(x) /\ x[1] \in remembered
      BY <1>0, <2>3, <3>1, LoadKeeps
    <3> QED BY <2>1, <2>2, <3>2
            DEF CommandKeeps, CommandsInv, StartsUnderstood, AddsQuietly
  <2>4. CASE UNCHANGED projectVars
    BY <1>0, <2>1, <2>2, <2>4, ProjectsStay, NothingPassed
  <2> QED BY <1>6, <2>3, <2>4 DEF scaffold
<1> QED BY <1>1, <1>2, <1>3, <1>4, <1>5, <1>6

\* So every step of the commands, and what goes on beside them.
LEMMA CommandsStep == ASSUME CommandsInv, CommandsNext PROVE CommandKeeps
<1>1. ASSUME NEW c \in Shells, CommandStep(c) PROVE CommandKeeps
  BY <1>1, LooksKeep, ActsKeep, FoldersKeep DEF CommandStep
<1>2. ASSUME NEW c \in Shells, NEW v \in Verbs, NEW xs \in SUBSET Procs, Invoke(c, v, xs)
      PROVE  CommandKeeps
  BY <1>2, InvokeKeeps
<1>3. CASE Beside
  <2>1. UNCHANGED shellVars /\ UNCHANGED commands /\ ProjectsNext
    BY <1>3 DEF Beside, ProjectsNext
  <2>2. ShellsInv' /\ AddsQuietly
    BY <2>1 DEF CommandsInv, ShellsInv, ShellTypes, ShellKeeps, AddsQuietly, shellVars
  <2> QED BY <2>1, <2>2, ProjectsStep DEF CommandKeeps, CommandsInv
<1> QED BY <1>1, <1>2, <1>3 DEF CommandsNext

\* And a step of something else.
LEMMA CommandsStutter == ASSUME CommandsInv, UNCHANGED commandVars PROVE CommandKeeps
<1>1. UNCHANGED shellVars /\ UNCHANGED commands /\ UNCHANGED projectVars
  BY DEF commandVars
<1>2. ShellsInv' /\ AddsQuietly
  BY <1>1 DEF CommandsInv, ShellsInv, ShellTypes, ShellKeeps, AddsQuietly, shellVars
<1> QED BY <1>1, <1>2, ProjectsStay DEF CommandKeeps, CommandsInv, ProjectsGo

\* So what the user chose and added is kept.
LEMMA CommandsInvMeaning ==
  CommandsInv => ProjectsTypeOK /\ CommandsTypeOK /\ ChoicesLast /\ ShownComesBack
<1> SUFFICES ASSUME CommandsInv PROVE CommandsTypeOK
  BY DEF CommandsInv, ProjectsInv
<1>1. /\ ShellTypes /\ commands \in 0 .. MaxCommands /\ \A c \in Shells : ShellKeeps(c)
  BY DEF CommandsInv, ShellsInv
<1>2. \A c \in Shells : /\ making[c] \subseteq todo[c] /\ seen[c] \subseteq Paths
                        /\ phase[c] = "idle" => on[c] = {}
  BY <1>1 DEF ShellTypes, ShellKeeps
<1>3. {todo[c] : c \in Shells} \cup {found[c] : c \in Shells} \subseteq SUBSET Paths
  BY <1>1 DEF ShellTypes
<1> QED BY <1>1, <1>2, <1>3 DEF CommandsTypeOK, ShellTypes, Phases

---------------------------------------------------------------------------------------
(* Commands, the shared boot. While nothing answers, either nobody has the lock, or one launcher
   leads: its daemon is the only one, and comes up before any wait on it ends. *)

BootStages ==
  {"idle", "opens", "stats", "waits", "unlinks", "spawns first", "spawns", "leads", "boots", "done"}
BootTypes ==
  /\ time \in 0 .. MaxTime /\ stage \in [Launchers -> BootStages] /\ since \in [Launchers -> Nat]
  /\ DOMAIN daemons \subseteq Launchers
  /\ answering \subseteq checked /\ checked \subseteq DOMAIN daemons

\* Nobody has the lock yet, and so nobody has gone past it.
NoBoot ==
  /\ lock = << >> /\ DOMAIN daemons = {}
  /\ \A l \in Launchers : stage[l] \in {"idle", "opens"}

\* The launcher L got the lock: its daemon is the only one, and comes up before any wait ends.
Locked == lock # << >> /\ lock[1] \in Nat /\ time <= lock[1] + MaxBoot /\ lock[1] <= time
Leads(L) ==
  \/ stage[L] = "spawns first" /\ lock[1] = time /\ DOMAIN daemons = {}
  \/ /\ stage[L] = "leads" /\ since[L] = lock[1]
     /\ DOMAIN daemons = {L} /\ daemons[L] = lock[1]
     /\ L \notin checked => time = lock[1]
Follows(L) ==
  \A l \in Launchers \ {L} :
     /\ stage[l] \in {"idle", "opens", "stats", "waits"}
     /\ stage[l] = "waits" => lock[1] <= since[l]
OneBoot(L) == Locked /\ Leads(L) /\ Follows(L)

\* While nothing answers; and once something does, it is the only one that may.
BootInv ==
  /\ BootTypes
  /\ MaxBoot < BootWait =>
       /\ answering = {} => NoBoot \/ \E L \in Launchers : OneBoot(L)
       /\ \A d, e \in checked : d = e

\* At first nobody has the lock and nothing answers.
LEMMA BootInvInit == BootInit => BootInv
<1> SUFFICES ASSUME BootInit PROVE BootInv
  OBVIOUS
<1>1. BootTypes
  BY BootLockAssumption DEF BootInit, BootTypes, BootStages
<1>2. NoBoot /\ checked = {}
  BY DEF BootInit, NoBoot
<1> QED BY <1>1, <1>2 DEF BootInv

\* A lock that was written has a time.
LEMMA Lock1 == /\ \A t : <<t>> # << >> /\ <<t>>[1] = t
OBVIOUS

\* While something answers no daemon passes the guard.
LEMMA OnceServed ==
  ASSUME BootInv, BootNext, BootTypes', answering # {} PROVE BootInv'
<1>1. answering' # {} /\ checked' = checked
  BY DEF BootNext, BootTick, Probe, TakesLock, OpensLock, Stats, WaitEnds, Unlinks, Spawns,
         BootEnds, Guards, GoesLive
<1> QED BY <1>1 DEF BootInv

\* Each step keeps its variables in their sets.
LEMMA BootTypesStep == BootTypes /\ BootNext => BootTypes'
<1> SUFFICES ASSUME BootTypes, BootNext PROVE BootTypes'
  OBVIOUS
<1>0. time \in Nat /\ MaxTime \in Nat
  BY BootLockAssumption DEF BootTypes
<1>1. CASE BootTick
  BY <1>0, <1>1 DEF BootTick, BootTypes
<1>a. ASSUME NEW l \in Launchers, stage'[l] \in BootStages, stage' = [stage EXCEPT ![l] = stage'[l]]
      PROVE  stage' \in [Launchers -> BootStages]
  BY <1>a DEF BootTypes
<1>b. ASSUME NEW l \in Launchers, since' = [since EXCEPT ![l] = time]
      PROVE  since' \in [Launchers -> Nat]
  BY <1>0, <1>b DEF BootTypes
<1>2. ASSUME NEW l \in Launchers, Probe(l) \/ TakesLock(l) \/ Stats(l) \/ WaitEnds(l)
                                  \/ Unlinks(l) \/ BootEnds(l)
      PROVE  BootTypes'
  <2>1. stage' = [stage EXCEPT ![l] = stage'[l]] /\ stage'[l] \in BootStages
    BY <1>2 DEF BootTypes, BootStages, Probe, TakesLock, OpensLock, Stats, WaitEnds, Unlinks, BootEnds, Goes
  <2>2. UNCHANGED since \/ since' = [since EXCEPT ![l] = time]
    BY <1>2 DEF Probe, TakesLock, OpensLock, Stats, WaitEnds, Unlinks, BootEnds, Waits
  <2>3. UNCHANGED <<time, daemons, checked, answering>>
    BY <1>2 DEF Probe, TakesLock, OpensLock, Stats, WaitEnds, Unlinks, BootEnds
  <2>4. stage' \in [Launchers -> BootStages]
    BY <1>a, <2>1
  <2>5. since' \in [Launchers -> Nat]
    BY <1>b, <2>2 DEF BootTypes
  <2> QED BY <2>3, <2>4, <2>5 DEF BootTypes
<1>3. ASSUME NEW l \in Launchers, Spawns(l) PROVE BootTypes'
  <2>1. stage' = [stage EXCEPT ![l] = stage'[l]] /\ stage'[l] \in BootStages
    BY <1>3 DEF BootTypes, BootStages, Spawns, Goes
  <2>2. since' = [since EXCEPT ![l] = time] /\ DOMAIN daemons' = DOMAIN daemons \cup {l}
        /\ UNCHANGED <<time, checked, answering>>
    BY <1>3 DEF Spawns, Waits
  <2>4. stage' \in [Launchers -> BootStages]
    BY <1>a, <2>1
  <2>5. since' \in [Launchers -> Nat]
    BY <1>b, <2>2
  <2> QED BY <2>2, <2>4, <2>5 DEF BootTypes
<1>4. ASSUME NEW d \in DOMAIN daemons, Guards(d) \/ GoesLive(d) PROVE BootTypes'
  BY <1>4 DEF Guards, GoesLive, BootTypes
<1> QED BY <1>1, <1>2, <1>3, <1>4 DEF BootNext

\* Before anyone has the lock.
LEMMA NobodyBoots ==
  ASSUME BootInv, BootNext, BootTypes', MaxBoot < BootWait, answering = {}, NoBoot
  PROVE  checked = {} /\ checked' = {} /\ answering' = {}
         /\ (NoBoot \/ \E L \in Launchers : OneBoot(L))'
<1>1. DOMAIN daemons = {} /\ checked = {}
  BY DEF NoBoot, BootInv, BootTypes
<1>2. CASE BootTick
  BY <1>1, <1>2 DEF BootTick, NoBoot
<1>3. ASSUME NEW l \in Launchers, Probe(l) PROVE NoBoot' /\ checked' = {} /\ answering' = {}
  BY <1>1, <1>3 DEF Probe, Goes, NoBoot, BootInv, BootTypes
<1>4. ASSUME NEW l \in Launchers, OpensLock(l)
      PROVE  OneBoot(l)' /\ checked' = {} /\ answering' = {}
  <2>1. /\ lock' = <<time>> /\ stage' = [stage EXCEPT ![l] = "spawns first"]
        /\ UNCHANGED <<time, since, daemons, checked, answering>>
    BY <1>4 DEF OpensLock, NoBoot, Goes
  <2>2. time \in Nat /\ MaxBoot \in Nat
    BY BootLockAssumption DEF BootInv, BootTypes
  <2>3. lock' # << >> /\ lock'[1] = time
    BY <2>1, Lock1
  <2>4. /\ stage'[l] = "spawns first"
        /\ \A k \in Launchers \ {l} : stage'[k] \in {"idle", "opens"}
    BY <2>1 DEF NoBoot, BootInv, BootTypes
  <2>5. DOMAIN daemons' = {}
    BY <2>1 DEF NoBoot
  <2>9. time' = time
    BY <2>1
  <2>6. Locked'
    BY <2>9, <2>2, <2>3 DEF Locked
  <2>7. Leads(l)'
    BY <2>1, <2>3, <2>4, <2>5 DEF Leads
  <2>8. Follows(l)'
    BY <2>4 DEF Follows
  <2> QED BY <1>1, <2>1, <2>6, <2>7, <2>8 DEF OneBoot
<1> QED BY <1>1, <1>2, <1>3, <1>4
        DEF BootNext, TakesLock, Stats, WaitEnds, Unlinks, Spawns, BootEnds, NoBoot

\* While the daemon of L boots.
LEMMA LeaderBoots ==
  ASSUME BootInv, BootNext, BootTypes', MaxBoot < BootWait, answering = {},
         NEW L \in Launchers, OneBoot(L)
  PROVE  checked' \subseteq {L} /\ (answering' = {} => OneBoot(L)')
<1> DEFINE t == lock[1]
<1>a. /\ t \in Nat /\ time <= t + MaxBoot /\ t <= time /\ lock # << >>
  BY DEF OneBoot, Locked
<1>b. time \in Nat /\ checked \subseteq DOMAIN daemons
  BY BootLockAssumption DEF BootInv, BootTypes
<1>c. DOMAIN daemons \subseteq {L}
  BY DEF OneBoot, Leads
<1>d. /\ {BootWait, SharedWait, LockStale, MaxBoot} \subseteq Nat
      /\ BootWait <= SharedWait /\ SharedWait < LockStale
  BY BootLockAssumption
<1>1. /\ t \in Nat /\ time \in Nat /\ time <= t + MaxBoot /\ t <= time
      /\ checked \subseteq {L} /\ DOMAIN daemons \subseteq {L}
      /\ {BootWait, SharedWait, LockStale, MaxBoot} \subseteq Nat /\ lock # << >>
      /\ BootWait <= SharedWait /\ SharedWait < LockStale
  BY <1>a, <1>b, <1>c, <1>d
<1>2. CASE BootTick
  <2>1. time' = time + 1 /\ UNCHANGED <<lock, stage, since, daemons, checked, answering>>
        /\ stage[L] # "spawns first"
        /\ \A d \in DOMAIN daemons : d \in checked /\ time < daemons[d] + MaxBoot
    BY <1>2 DEF BootTick
  <2>2. L \in checked /\ time < t + MaxBoot
    BY <2>1 DEF OneBoot, Locked, Leads, Follows
  <2>3. Locked'
    <3>1. time' = time + 1 /\ lock' = lock /\ time + 1 <= t + MaxBoot /\ MaxBoot \in Nat
      <4>1. time' = time + 1 /\ lock' = lock
        BY <2>1
      <4>2. MaxBoot \in Nat
        BY <1>d
      <4> QED BY <1>a, <1>b, <2>2, <4>1, <4>2
    <3> QED BY <1>a, <1>b, <3>1 DEF Locked
  <2>4. Leads(L)'
    BY <1>1, <2>1, <2>2 DEF OneBoot, Leads
  <2>5. Follows(L)'
    BY <2>1 DEF OneBoot, Follows
  <2>6. checked' \subseteq {L}
    BY <1>1, <2>1
  <2> QED BY <2>3, <2>4, <2>5, <2>6 DEF OneBoot
<1>3. ASSUME NEW l \in Launchers, Probe(l) \/ TakesLock(l) \/ Stats(l) PROVE OneBoot(L)'
  <2>1. l # L /\ stage[l] \in {"idle", "opens", "stats"}
    BY <1>3 DEF Probe, TakesLock, OpensLock, Stats, OneBoot, Leads, Follows
  <2>2. /\ UNCHANGED <<time, lock, daemons, checked, answering>>
        /\ \/ UNCHANGED since
           \/ stage[l] = "stats" /\ since' = [since EXCEPT ![l] = time]
    BY <1>1, <1>3 DEF Probe, TakesLock, OpensLock, Stats, Goes, Waits
  <2>3. \E s \in {"opens", "stats", "waits"} : /\ stage' = [stage EXCEPT ![l] = s]
                                               /\ s = "waits" => since'[l] = time
    BY <1>1, <1>3 DEF Probe, TakesLock, OpensLock, Stats, Goes, Waits, BootInv, BootTypes
  <2>4. PICK s \in {"opens", "stats", "waits"} :
          stage' = [stage EXCEPT ![l] = s] /\ (s = "waits" => since'[l] = time)
    BY <2>3
  <2>5. /\ \A k \in Launchers \ {l} : stage'[k] = stage[k] /\ since'[k] = since[k]
        /\ stage'[l] = s
    <3>1. stage \in [Launchers -> BootStages] /\ since \in [Launchers -> Nat]
      BY DEF BootInv, BootTypes
    <3>2. stage' = [stage EXCEPT ![l] = s]
      BY <2>4
    <3>3. UNCHANGED since \/ since' = [since EXCEPT ![l] = time]
      BY <2>2
    <3>4. \A k \in Launchers \ {l} : since'[k] = since[k]
      BY <3>1, <3>3
    <3>5. stage'[l] = s /\ \A k \in Launchers \ {l} : stage'[k] = stage[k]
      BY <3>1, <3>2
    <3> QED BY <3>4, <3>5
  <2>6. \A k \in Launchers \ {L} : /\ stage'[k] \in {"idle", "opens", "stats", "waits"}
                                   /\ stage'[k] = "waits" => lock[1] <= since'[k]
    <3>1. ASSUME NEW k \in Launchers \ {L}
          PROVE  /\ stage'[k] \in {"idle", "opens", "stats", "waits"}
                 /\ stage'[k] = "waits" => lock[1] <= since'[k]
      <4>1. CASE k = l
        <5>1. stage'[k] = s /\ (s = "waits" => since'[k] = time)
          BY <2>4, <2>5, <4>1
        <5> QED BY <1>a, <5>1
      <4>2. CASE k # l
        BY <1>1, <2>5, <4>2 DEF OneBoot, Follows
      <4> QED BY <4>1, <4>2
    <3> QED BY <3>1
  <2> QED BY <1>1, <2>1, <2>2, <2>5, <2>6 DEF OneBoot, Locked, Leads, Follows
<1>4. ASSUME NEW l \in Launchers, WaitEnds(l) \/ Unlinks(l) PROVE FALSE
  <2>1. stage[l] \in {"waits", "unlinks"}
    BY <1>4 DEF WaitEnds, Unlinks
  <2>2. l # L
    BY <2>1 DEF OneBoot, Locked, Leads, Follows
  <2>3. stage[l] = "waits" /\ t <= since[l] /\ since[l] \in Nat
    BY <2>1, <2>2 DEF OneBoot, Locked, Leads, Follows, BootInv, BootTypes
  <2>4. time >= since[l] + SharedWait
    BY <1>4, <2>3 DEF WaitEnds, Unlinks
  <2> QED BY <1>1, <2>3, <2>4
<1>5. ASSUME NEW l \in Launchers, BootEnds(l) PROVE FALSE
  <2>1. l = L /\ since[l] = t
    BY <1>5 DEF BootEnds, OneBoot, Leads, Follows
  <2> QED BY <1>1, <1>5, <2>1 DEF BootEnds
<1>6. ASSUME NEW l \in Launchers, Spawns(l) PROVE OneBoot(L)'
  <2>1. l = L /\ stage[l] = "spawns first" /\ t = time /\ DOMAIN daemons = {}
    BY <1>6 DEF Spawns, OneBoot, Leads, Follows
  <2>2. /\ daemons' = [d \in {L} |-> time] /\ since' = [since EXCEPT ![L] = time]
        /\ stage' = [stage EXCEPT ![L] = "leads"]
        /\ UNCHANGED <<time, lock, checked, answering>>
    BY <1>6, <2>1 DEF Spawns, Goes, Waits
  <2>3. /\ DOMAIN daemons' = {L} /\ daemons'[L] = time /\ since'[L] = time /\ stage'[L] = "leads"
        /\ \A k \in Launchers \ {L} : stage'[k] = stage[k] /\ since'[k] = since[k]
    BY <2>2 DEF BootInv, BootTypes
  <2> QED BY <1>1, <2>1, <2>2, <2>3 DEF OneBoot, Locked, Leads, Follows
<1>7. ASSUME NEW d \in DOMAIN daemons, Guards(d) PROVE OneBoot(L)' /\ checked' \subseteq {L}
  <2>1. d = L /\ checked' \subseteq {L} /\ L \in checked'
        /\ UNCHANGED <<time, lock, stage, since, daemons, answering>>
    BY <1>1, <1>7 DEF Guards
  <2> QED BY <2>1 DEF OneBoot, Locked, Leads, Follows
<1>8. ASSUME NEW d \in DOMAIN daemons, GoesLive(d) PROVE answering' # {} /\ checked' = checked
  BY <1>8 DEF GoesLive
<1>9. ~(\E d \in DOMAIN daemons : Guards(d)) => checked' = checked
  BY DEF BootNext, BootTick, Probe, TakesLock, OpensLock, Stats, WaitEnds, Unlinks, Spawns,
         BootEnds, GoesLive
<1> QED BY <1>1, <1>2, <1>3, <1>4, <1>5, <1>6, <1>7, <1>8, <1>9 DEF BootNext

\* So one launcher leads until its daemon answers, and nobody boots after that.
LEMMA BootInvInductive == BootInv /\ [BootNext]_bootVars => BootInv'
<1>1. ASSUME BootInv, BootNext PROVE BootInv'
  <2>1. BootTypes'
    BY <1>1, BootTypesStep DEF BootInv
  <2>2. CASE answering # {}
    BY <1>1, <2>1, <2>2, OnceServed
  <2>3. CASE answering = {} /\ MaxBoot < BootWait
    <3>1. CASE NoBoot
      BY <1>1, <2>1, <2>3, <3>1, NobodyBoots DEF BootInv
    <3>2. CASE \E L \in Launchers : OneBoot(L)
      BY <1>1, <2>1, <2>3, <3>2, LeaderBoots DEF BootInv
    <3> QED BY <1>1, <2>3, <3>1, <3>2 DEF BootInv
  <2> QED BY <2>1, <2>2, <2>3 DEF BootInv
<1>2. BootInv /\ UNCHANGED bootVars => BootInv'
  BY DEF bootVars, BootInv, BootTypes, NoBoot, OneBoot, Locked, Leads, Follows
<1> QED BY <1>1, <1>2

\* So at most one daemon answers.
LEMMA BootInvMeaning == BootInv => BootTypeOK /\ OneDaemonServes
<1> SUFFICES ASSUME BootInv PROVE BootTypeOK /\ OneDaemonServes
  OBVIOUS
<1>1. BootTypeOK
  BY DEF BootInv, BootTypes, BootTypeOK
<1>2. ASSUME MaxBoot < BootWait PROVE Cardinality(answering) <= 1
  <2>1. \A d, e \in answering : d = e
    BY <1>2 DEF BootInv, BootTypes
  <2>2. CASE answering = {}
    BY <2>2, FS_EmptySet
  <2>3. CASE answering # {}
    <3>1. PICK d : answering = {d}
      BY <2>1, <2>3
    <3> QED BY <3>1, FS_Singleton
  <2> QED BY <2>2, <2>3
<1> QED BY <1>1, <1>2 DEF OneDaemonServes

---------------------------------------------------------------------------------------
(* ProjectPages, the dialog. The scan of the current generation is the only one that may write, and it belongs
   to the dialog as it was last opened. *)

ScanInv ==
  /\ scanGen \in Nat /\ scanGen <= MaxScans + session /\ session \in 0 .. MaxOpens
  /\ \A s \in scans : s.gen \in Nat /\ s.gen <= scanGen /\ s.tier \in 0 .. 2
  /\ \A s, t \in scans : s.gen = scanGen /\ t.gen = scanGen => s = t
  /\ \A s \in scans : s.gen = scanGen => s.session = session /\ caption \in {Machine, s.root}
  /\ scanning \in BOOLEAN /\ deepening \in BOOLEAN
  /\ scanning = TRUE <=> \E s \in scans : s.gen = scanGen
  /\ deepening = TRUE => scanning = TRUE
ResultInv == result # Absent => result.session = session /\ caption \in {Machine, result.scope}
ShapeInv ==
  /\ shown \in BOOLEAN /\ scanMode \in BOOLEAN /\ step \in {"add", "scaffold", "takeover"}
  /\ field \in Folders \cup {"", "url"} /\ caption \in Folders \cup {Machine, Event}
AskInv == busy => shown = TRUE /\ ask.session = session
DropInv == dropGen \in 0 .. MaxDrops /\ (note.kind = "drop" => note.gen = dropGen)
DlInv == ScanInv /\ ResultInv /\ ShapeInv /\ AskInv /\ DropInv

Numbers == MaxOpens \in Nat /\ MaxScans \in Nat /\ MaxDrops \in Nat

\* The dialog is closed and nothing was scanned.
LEMMA DlInvInit == DlInit => DlInv
<1> SUFFICES ASSUME DlInit PROVE DlInv
  OBVIOUS
<1>0. Numbers
  BY AddDialogAssumption DEF Numbers
<1>1. ScanInv
  <2>1. scanGen = 0 /\ session = 0 /\ scans = {} /\ scanning = FALSE /\ deepening = FALSE
    BY DEF DlInit
  <2>2. scanGen \in Nat /\ scanGen <= MaxScans + session /\ session \in 0 .. MaxOpens
    BY <1>0, <2>1 DEF Numbers
  <2> QED BY <2>1, <2>2 DEF ScanInv
<1>2. ResultInv /\ ShapeInv /\ AskInv
  BY DEF DlInit, ResultInv, ShapeInv, AskInv, busy, Machine
<1>3. DropInv
  <2>1. dropGen \in 0 .. MaxDrops
    <3>1. dropGen = 0
      BY DEF DlInit
    <3> QED BY <1>0, <3>1 DEF Numbers
  <2>2. note.kind = "none"
    BY DEF DlInit, Absent
  <2> QED BY <2>1, <2>2 DEF DropInv
<1> QED BY <1>1, <1>2, <1>3 DEF DlInv

\* A scan begins: every other one is of an earlier generation.
LEMMA ScansKeeps ==
  ASSUME ScanInv, NEW root \in Folders \cup {Machine, Event}, NEW e, NEW gen \in Nat, NEW opening,
         scanGen < gen, Scans(root, e, gen, opening), session' = opening, session <= opening,
         opening \in 0 .. MaxOpens
  PROVE  /\ ScanInv' /\ ResultInv' /\ caption' = root /\ step' = "add" /\ note' = Absent
<1>0. Numbers
  BY AddDialogAssumption DEF Numbers
<1> DEFINE new == [gen |-> gen, root |-> root, explicit |-> e,
                   tier |-> IF root = Machine THEN 1 ELSE 0, session |-> opening]
<1>1. /\ gen <= MaxScans /\ result' = Absent /\ step' = "add" /\ note' = Absent /\ caption' = root
      /\ scanning' = TRUE /\ deepening' = FALSE /\ scanGen' = gen /\ scans' = scans \cup {new}
  BY DEF Scans
<1>2. new.gen = gen /\ new.root = root /\ new.session = opening /\ new.tier \in 0 .. 2
  OBVIOUS
<1> HIDE DEF new
<1>3. \A s \in scans : s.gen \in Nat /\ s.gen < gen /\ s.tier \in 0 .. 2
  BY DEF ScanInv
<1>4. \A s \in scans' : s.gen = gen => s = new
  BY <1>1, <1>3
<1>5. scanGen' \in Nat /\ scanGen' <= MaxScans + session'
  BY <1>0, <1>1 DEF Numbers
<1>6. \A s \in scans' : s.gen \in Nat /\ s.gen <= scanGen' /\ s.tier \in 0 .. 2
  BY <1>1, <1>2, <1>3
<1>7. ScanInv'
  BY <1>1, <1>2, <1>4, <1>5, <1>6 DEF ScanInv
<1> QED BY <1>1, <1>7 DEF ResultInv

\* A scan that is awaited no more, or goes deeper.
LEMMA DialogEndsKeeps ==
  ASSUME ScanInv, NEW s \in scans, NEW more, ScanEnds(s, more), UNCHANGED <<scanGen, session, caption>>,
         more = {} \/ (s.gen = scanGen /\ more = {[s EXCEPT !.tier = 2]})
  PROVE  ScanInv'
<1>1. CASE more = {}
  <2>1. scans' = scans \ {s} /\ (IF s.gen = scanGen THEN scanning' = FALSE /\ deepening' = FALSE
                                 ELSE UNCHANGED <<scanning, deepening>>)
    BY <1>1 DEF ScanEnds
  <2>2. scanning' = TRUE <=> \E t \in scans' : t.gen = scanGen
    BY <2>1 DEF ScanInv
  <2>3. \A t \in scans' : t \in scans
    BY <2>1
  <2>4. scanning' \in BOOLEAN /\ deepening' \in BOOLEAN /\ (deepening' = TRUE => scanning' = TRUE)
    BY <2>1 DEF ScanInv
  <2> QED BY <2>2, <2>3, <2>4 DEF ScanInv
<1>2. CASE s.gen = scanGen /\ more = {[s EXCEPT !.tier = 2]}
  <2> DEFINE d == [s EXCEPT !.tier = 2]
  <2>1. scans' = (scans \ {s}) \cup {d} /\ deepening' = TRUE /\ UNCHANGED scanning
    BY <1>2 DEF ScanEnds
  <2>2. d.gen = s.gen /\ d.session = s.session /\ d.root = s.root /\ (d.tier = 2 \/ d.tier = s.tier)
    OBVIOUS
  <2> HIDE DEF d
  <2>3. scanning = TRUE
    BY <1>2 DEF ScanInv
  <2>4. \A t \in scans' : t.gen = scanGen => t = d
    BY <1>2, <2>1 DEF ScanInv
  <2>5. \A t \in scans' : t.gen \in Nat /\ t.gen <= scanGen /\ t.tier \in 0 .. 2
    BY <2>1, <2>2 DEF ScanInv
  <2>6. d.session = session /\ caption \in {Machine, d.root}
    BY <1>2, <2>2 DEF ScanInv
  <2>7. d \in scans' /\ d.gen = scanGen
    BY <1>2, <2>1, <2>2
  <2> QED BY <2>1, <2>3, <2>4, <2>5, <2>6, <2>7 DEF ScanInv
<1> QED BY <1>1, <1>2

\* Steps that leave the scans alone; a caption that names no folder suits any.
LEMMA ScansStay ==
  ASSUME ScanInv, ResultInv, UNCHANGED <<scanState, session>>,
         \/ UNCHANGED <<caption, result>>
         \/ caption' = "" /\ result' = Absent
  PROVE  ScanInv' /\ ResultInv'
<1>1. caption' = caption \/ caption' = Machine
  BY DEF Machine
<1>2. ScanInv'
  BY <1>1 DEF ScanInv, scanState
<1> QED BY <1>2 DEF ResultInv

\* Each opening, scan, event, answer, drop and closing.
LEMMA DlInvStep == ASSUME DlInv, DlNext PROVE DlInv'
<1>0. ScanInv /\ ResultInv /\ ShapeInv /\ AskInv /\ DropInv /\ Numbers
  BY AddDialogAssumption DEF DlInv, Numbers
<1>1. ASSUME NEW how \in {"add", "scan", "prefill"}, Opens(how) PROVE DlInv'
  <2>1. /\ ~shown /\ session < MaxOpens /\ shown' = TRUE /\ session' = session + 1 /\ field' = ""
        /\ scanMode' = (how # "add") /\ ask' = Absent /\ UNCHANGED dropGen
    BY <1>1 DEF Opens
  <2>2. session + 1 \in 0 .. MaxOpens /\ session \in Nat /\ scanGen \in Nat
    <3>1. session \in 0 .. MaxOpens /\ scanGen \in Nat
      BY <1>0 DEF ScanInv
    <3>2. session < MaxOpens /\ MaxOpens \in Nat
      BY <1>0, <2>1 DEF Numbers
    <3> QED BY <3>1, <3>2
  <2>3. ScanInv' /\ ResultInv' /\ caption' = "" /\ step' = "add" /\ note' = Absent
    <3>1. CASE how = "scan"
      <4>1. Scans(Machine, FALSE, scanGen + 2, session + 1)
        BY <1>1, <3>1 DEF Opens
      <4>2. scanGen + 2 \in Nat /\ scanGen < scanGen + 2 /\ session <= session + 1
        BY <2>2
      <4> QED BY <1>0, <2>1, <2>2, <4>1, <4>2, ScansKeeps DEF Machine
    <3>2. CASE how # "scan"
      <4>1. /\ result' \in {Absent, [kind |-> "scan", scope |-> Machine, session |-> session + 1]}
            /\ caption' = "" /\ step' = "add" /\ note' = Absent
            /\ scanning' = FALSE /\ deepening' = FALSE /\ scanGen' = scanGen + 1
            /\ UNCHANGED scans
        BY <1>1, <3>2 DEF Opens
      <4>2. \A s \in scans : s.gen \in Nat /\ s.gen < scanGen'
        <5>1. \A s \in scans : s.gen \in Nat /\ s.gen <= scanGen
          BY <1>0 DEF ScanInv
        <5>2. scanGen' = scanGen + 1 /\ scanGen \in Nat
          BY <2>2, <4>1
        <5> QED BY <5>1, <5>2
      <4>3. scanGen' \in Nat /\ scanGen' <= MaxScans + session'
        <5>1. scanGen <= MaxScans + session /\ MaxScans \in Nat
          BY <1>0 DEF ScanInv, Numbers
        <5>2. session' = session + 1 /\ scanGen' = scanGen + 1
          BY <2>1, <4>1
        <5> QED BY <2>2, <5>1, <5>2
      <4>4. \A s \in scans' : s.gen \in Nat /\ s.gen <= scanGen' /\ s.tier \in 0 .. 2 /\ s.gen # scanGen'
        <5>1. \A s \in scans : s.tier \in 0 .. 2
          BY <1>0 DEF ScanInv
        <5>2. \A s \in scans' : s \in scans
          BY <4>1
        <5> QED BY <4>2, <4>3, <5>1, <5>2
      <4>5. ScanInv'
        BY <2>1, <2>2, <4>1, <4>3, <4>4 DEF ScanInv
      <4>6. ResultInv'
        <5>1. CASE result' = Absent
          BY <5>1 DEF ResultInv
        <5>2. CASE result' = [kind |-> "scan", scope |-> Machine, session |-> session + 1]
          <6>1. result'.session = session' /\ caption' \in {Machine, result'.scope}
            BY <2>1, <4>1, <5>2 DEF Machine
          <6> QED BY <6>1 DEF ResultInv
        <5> QED BY <4>1, <5>1, <5>2
      <4> QED BY <4>1, <4>5, <4>6
    <3> QED BY <3>1, <3>2
  <2>4. ShapeInv' /\ AskInv'
    BY <2>1, <2>3 DEF ShapeInv, AskInv, busy, Machine
  <2>5. DropInv'
    BY <1>0, <2>1, <2>3 DEF DropInv, Absent
  <2> QED BY <2>3, <2>4, <2>5 DEF DlInv
<1>2. ASSUME NEW root \in Folders \cup {Event}, Scans(root, TRUE, scanGen + 1, session),
             UNCHANGED <<shown, session, field, scanMode, dropGen, ask, asks, reads>>
      PROVE  DlInv'
  <2>1. scanGen + 1 \in Nat /\ scanGen < scanGen + 1 /\ session \in 0 .. MaxOpens /\ session <= session
    BY <1>0 DEF ScanInv, Numbers
  <2>2. /\ ScanInv' /\ ResultInv' /\ caption' = root /\ step' = "add" /\ note' = Absent
    BY <1>0, <1>2, <2>1, ScansKeeps
  <2>3. ShapeInv' /\ AskInv'
    BY <1>0, <1>2, <2>2 DEF ShapeInv, AskInv, busy
  <2>4. DropInv'
    BY <1>0, <1>2, <2>2 DEF DropInv, Absent
  <2> QED BY <2>2, <2>3, <2>4 DEF DlInv
<1>3. CASE ScanButton
  BY <1>2, <1>3 DEF ScanButton
<1>4. ASSUME NEW f \in Folders, ScanFolder(f) PROVE DlInv'
  BY <1>2, <1>4 DEF ScanFolder
<1>5. ASSUME NEW s \in scans, ScanAnswers(s) PROVE DlInv'
  <2>1. /\ result' = (IF live(s) THEN [kind |-> "scan", scope |-> s.root, session |-> s.session] ELSE result)
        /\ ScanEnds(s, IF s.tier = 1 /\ live(s) THEN {[s EXCEPT !.tier = 2]} ELSE {})
        /\ UNCHANGED <<shown, session, field, scanMode, scanGen, dropGen, caption, step, note, ask>>
    BY <1>5 DEF ScanAnswers
  <2>2. ScanInv'
    <3>1. live(s) => s.gen = scanGen
      BY DEF live
    <3>2. CASE s.tier = 1 /\ live(s)
      BY <1>0, <2>1, <3>1, <3>2, DialogEndsKeeps
    <3>3. CASE ~(s.tier = 1 /\ live(s))
      BY <1>0, <2>1, <3>3, DialogEndsKeeps
    <3> QED BY <3>2, <3>3
  <2>3. ResultInv'
    <3>1. CASE live(s)
      <4>1. s.session = session /\ caption \in {Machine, s.root}
        BY <1>0, <3>1 DEF ScanInv, live
      <4> QED BY <2>1, <3>1, <4>1 DEF ResultInv
    <3>2. CASE ~live(s)
      BY <1>0, <2>1, <3>2 DEF ResultInv
    <3> QED BY <3>1, <3>2
  <2> QED BY <1>0, <2>1, <2>2, <2>3 DEF DlInv, ShapeInv, AskInv, DropInv, busy
<1>6. ASSUME NEW s \in scans, ScanFails(s) PROVE DlInv'
  <2>1. /\ ScanEnds(s, {}) /\ UNCHANGED <<shown, session, field, scanMode, scanGen, dropGen, messages, ask>>
    BY <1>6 DEF ScanFails
  <2>2. ScanInv'
    BY <1>0, <2>1, DialogEndsKeeps DEF messages
  <2> QED BY <1>0, <2>1, <2>2 DEF DlInv, ShapeInv, AskInv, DropInv, ResultInv, busy, messages
<1>7. CASE Closes
  <2>1. /\ ~busy /\ shown' = FALSE /\ UNCHANGED <<session, field, scanMode, scanState, dropGen, messages, ask>>
    BY <1>7 DEF Closes, MayClose
  <2>2. ScanInv' /\ ResultInv'
    BY <1>0, <2>1, ScansStay DEF messages
  <2> QED BY <1>0, <2>1, <2>2 DEF DlInv, ShapeInv, AskInv, DropInv, busy, messages
<1>8. ASSUME NEW v \in Folders \cup {"", "url"}, Types(v) PROVE DlInv'
  <2>1. field' = v /\ UNCHANGED <<shown, session, scanMode, scanState, dropGen, messages, ask>>
    BY <1>8 DEF Types
  <2>2. ScanInv' /\ ResultInv'
    BY <1>0, <2>1, ScansStay DEF messages
  <2> QED BY <1>0, <2>1, <2>2 DEF DlInv, ShapeInv, AskInv, DropInv, busy, messages
\* A step that clears what the dialog says.
<1>9. ASSUME clearMessages, UNCHANGED <<scanState, session, shown>>, scanMode' \in BOOLEAN,
             field' \in Folders \cup {"", "url"}, dropGen' \in 0 .. MaxDrops, AskInv'
      PROVE  DlInv'
  <2>1. caption' = "" /\ result' = Absent /\ step' = "add" /\ note' = Absent
    BY <1>9 DEF clearMessages
  <2>2. ScanInv' /\ ResultInv'
    BY <1>0, <1>9, <2>1, ScansStay
  <2>3. ShapeInv' /\ DropInv'
    BY <1>0, <1>9, <2>1 DEF ShapeInv, DropInv, Absent, Machine
  <2> QED BY <1>9, <2>2, <2>3 DEF DlInv
<1>10. ASSUME NEW op, Asks(op) PROVE AskInv' /\ UNCHANGED <<scanState, session, shown, scanMode>> /\ scanMode' \in BOOLEAN
  BY <1>0, <1>10 DEF Asks, AskInv, ShapeInv, busy
<1>11. CASE addManually
  <2>1. AskInv' /\ field' \in Folders \cup {"", "url"} /\ dropGen' \in 0 .. MaxDrops
    BY <1>0, <1>11 DEF addManually, AskInv, busy, ShapeInv, DropInv
  <2> QED BY <1>9, <1>11, <2>1 DEF addManually
<1>12. CASE submit \/ browseFile
  <2>1. clearMessages /\ UNCHANGED <<field, dropGen>> /\ \E op : Asks(op)
    BY <1>12 DEF submit, browseFile, Submits
  <2>2. field' \in Folders \cup {"", "url"} /\ dropGen' \in 0 .. MaxDrops
    BY <1>0, <2>1 DEF ShapeInv, DropInv
  <2> QED BY <1>9, <1>10, <2>1, <2>2
<1>13. ASSUME NEW f \in Folders, dropPath(f) PROVE DlInv'
  <2>1. /\ clearMessages /\ dropGen < MaxDrops /\ dropGen' = dropGen + 1 /\ field' = f
        /\ \/ Asks("load")
           \/ UNCHANGED <<shown, session, scanMode, scanState, ask, asks, reads>>
    BY <1>13 DEF dropPath
  <2>2. dropGen' \in 0 .. MaxDrops
    BY <1>0, <2>1 DEF DropInv, Numbers
  <2>3. AskInv' /\ UNCHANGED <<scanState, session, shown>> /\ scanMode' \in BOOLEAN
    <3>1. CASE Asks("load")
      BY <1>10, <3>1
    <3>2. CASE UNCHANGED <<shown, session, scanMode, scanState, ask, asks, reads>>
      BY <1>0, <3>2 DEF AskInv, busy, ShapeInv
    <3> QED BY <2>1, <3>1, <3>2
  <2> QED BY <1>9, <2>1, <2>2, <2>3
<1>14. CASE onDrop
  <2>1. /\ clearMessages /\ dropGen < MaxDrops /\ dropGen' = dropGen + 1
        /\ UNCHANGED <<shown, session, field, scanMode, scanState, ask>>
    BY <1>14 DEF onDrop
  <2>2. dropGen' \in 0 .. MaxDrops
    BY <1>0, <2>1 DEF DropInv, Numbers
  <2>3. AskInv' /\ scanMode' \in BOOLEAN /\ field' \in Folders \cup {"", "url"}
    BY <1>0, <2>1 DEF AskInv, busy, ShapeInv
  <2> QED BY <1>9, <2>1, <2>2, <2>3
<1>15. CASE addFound \/ createScaffold \/ takeOver
  <2>1. /\ (note' = Absent \/ note' = note) /\ UNCHANGED <<field, dropGen, result, caption, step>> /\ \E op : Asks(op)
    BY <1>15 DEF addFound, createScaffold, takeOver, messages
  <2>2. AskInv' /\ UNCHANGED <<scanState, session, shown, scanMode>>
    BY <1>10, <2>1
  <2>3. ScanInv' /\ ResultInv'
    BY <1>0, <2>1, <2>2, ScansStay
  <2>4. ShapeInv'
    BY <1>0, <2>1, <2>2 DEF ShapeInv
  <2>5. DropInv'
    <3>1. note'.kind = "drop" => note' = note
      BY <2>1 DEF Absent
    <3> QED BY <1>0, <2>1, <3>1 DEF DropInv
  <2> QED BY <2>2, <2>3, <2>4, <2>5 DEF DlInv
<1>16. CASE finishTakeOver
  <2>1. /\ ~busy /\ step' = "add" /\ shown' = FALSE
        /\ UNCHANGED <<session, field, scanMode, scanState, dropGen, result, caption, note, ask>>
    BY <1>16 DEF finishTakeOver
  <2>2. ScanInv' /\ ResultInv'
    BY <1>0, <2>1, ScansStay
  <2> QED BY <1>0, <2>1, <2>2 DEF DlInv, ShapeInv, AskInv, DropInv, busy
<1>17. ASSUME NEW out, RequestAnswers(out) PROVE DlInv'
  <2>1. /\ ask' = Absent /\ step' = StepAfter(ask.kind, out) /\ scanMode' \in BOOLEAN
        /\ shown' \in BOOLEAN /\ (field' \in Folders \/ field' = field)
        /\ note' = (IF out = "cloned" THEN [kind |-> "cloned", session |-> ask.session] ELSE note)
        /\ UNCHANGED <<session, scanState, dropGen, result, caption>>
    BY <1>17 DEF RequestAnswers
  <2>2. ScanInv' /\ ResultInv'
    BY <1>0, <2>1, ScansStay
  <2>3. step' \in {"add", "scaffold", "takeover"}
    <3>1. step \in {"add", "scaffold", "takeover"}
      BY <1>0 DEF ShapeInv
    <3>2. StepAfter(ask.kind, out) \in {"scaffold", "takeover", "add", step}
      BY DEF StepAfter
    <3> QED BY <2>1, <3>1, <3>2
  <2>4. ShapeInv' /\ AskInv'
    BY <1>0, <2>1, <2>3 DEF ShapeInv, AskInv, busy
  <2>5. DropInv'
    BY <1>0, <2>1 DEF DropInv
  <2> QED BY <2>2, <2>4, <2>5 DEF DlInv
<1>18. ASSUME NEW d \in reads, DropRead(d) PROVE DlInv'
  <2>1. /\ note' = (IF d.gen = dropGen THEN [kind |-> "drop", gen |-> d.gen] ELSE note)
        /\ UNCHANGED <<shown, session, field, scanMode, scanState, dropGen, result, caption, step, ask>>
    BY <1>18 DEF DropRead, Speaks
  <2>2. ScanInv' /\ ResultInv'
    BY <1>0, <2>1, ScansStay
  <2>3. DropInv'
    BY <1>0, <2>1 DEF DropInv
  <2> QED BY <1>0, <2>1, <2>2, <2>3 DEF DlInv, ShapeInv, AskInv, busy
<1> QED BY <1>1, <1>3, <1>4, <1>5, <1>6, <1>7, <1>8, <1>11, <1>12, <1>13, <1>14, <1>15, <1>16, <1>17, <1>18 DEF DlNext

\* So only the current scan writes.
LEMMA DlInvInductive == DlInv /\ [DlNext]_dlVars => DlInv'
<1>1. DlInv /\ UNCHANGED dlVars => DlInv'
  BY DEF dlVars, scanState, messages, DlInv, ScanInv, ResultInv, ShapeInv, AskInv, DropInv, busy
<1> QED BY <1>1, DlInvStep

\* So a result and its caption are of what was asked in this opening.
LEMMA DlInvMeaning == DlInv => DlTypeOK /\ DialogTellsTheTruth
<1> SUFFICES ASSUME DlInv PROVE DlTypeOK /\ DialogTellsTheTruth
  OBVIOUS
<1>0. Numbers
  BY AddDialogAssumption DEF Numbers
<1>1. scanGen \in 0 .. MaxScans + MaxOpens
  <2>1. /\ scanGen \in Nat /\ scanGen <= MaxScans + session /\ session \in 0 .. MaxOpens
    BY DEF DlInv, ScanInv
  <2> QED BY <1>0, <2>1 DEF Numbers
<1>2. DlTypeOK
  BY <1>1 DEF DlInv, ScanInv, ShapeInv, DropInv, DlTypeOK
<1>3. DialogTellsTheTruth
  BY DEF DlInv, ScanInv, ResultInv, AskInv, DropInv, DialogTellsTheTruth
<1> QED BY <1>2, <1>3

---------------------------------------------------------------------------------------
(* SettingsSync. A step leaves the setting that is this machine's own to the user, and the one
   in the account's document to the document's other machines. *)

Said == PrefValues \cup {"none"}
SyncLooks == Appearances \cup {"none"}
AwaitsOf == {"idle", "create", "ask", "identity", "delete", "revoke"}
SettingsSet == [{"pref", "own"} -> PrefValues]

SyInv ==
  /\ settings \in SettingsSet /\ goesBy \in PrefValues
  /\ appearance \in SyncLooks /\ {enabled, token, identity, foreign} \subseteq BOOLEAN
  /\ engines \in Nat /\ engines <= MaxEngines /\ engine \in Nat /\ engine <= engines
  /\ debounced \subseteq 1 .. engines /\ lastApplied \in Said
  /\ awaits \in [Callers -> AwaitsOf] /\ toTell \in [Callers -> Said]
  /\ doc.pref \in Said /\ doc.appearance \in SyncLooks
  /\ requests \in Nat

\* No account is connected and nothing awaits an answer.
LEMMA SyInvInit == SyInit => SyInv
<1> SUFFICES ASSUME SyInit PROVE SyInv
  OBVIOUS
<1>1. settings \in SettingsSet
  <2>1. settings = [pref |-> "x", own |-> "x"]
    BY DEF SyInit
  <2>2. [pref |-> "x", own |-> "x"] \in [pref : PrefValues, own : PrefValues]
    BY DEF PrefValues
  <2>3. [pref : PrefValues, own : PrefValues] = SettingsSet
    BY DEF SettingsSet
  <2> QED BY <2>1, <2>2, <2>3
<1>2. goesBy \in PrefValues /\ lastApplied \in Said
  BY DEF SyInit, PrefValues, Said
<1>3. doc.pref \in Said /\ doc.appearance \in SyncLooks /\ appearance \in SyncLooks
  BY DEF SyInit, NoDoc, Said, SyncLooks
<1>4. engines \in Nat /\ engines <= MaxEngines /\ engine \in Nat /\ engine <= engines /\ requests \in Nat
  BY SyncAssumption DEF SyInit
<1>5. debounced \subseteq 1 .. engines /\ {enabled, token, identity, foreign} \subseteq BOOLEAN
  BY DEF SyInit
<1>6. awaits \in [Callers -> AwaitsOf] /\ toTell \in [Callers -> Said]
  BY DEF SyInit, AwaitsOf, Said
<1> QED BY <1>1, <1>2, <1>3, <1>4, <1>5, <1>6 DEF SyInv

OwnStep ==
  /\ settings'.own # settings.own => UNCHANGED doc /\ requests' # requests
  /\ doc'.own # doc.own => doc' = NoDoc \/ foreign' # foreign

\* What is written into the account's document.
LEMMA SentKeepsOwn ==
  SyInv => Sent.own = doc.own /\ Sent.pref \in Said /\ Sent.appearance \in SyncLooks
BY DEF Sent, collectPrefs, SyInv, SettingsSet, Said, SyncLooks

\* What is taken from it.
LEMMA TakenKeepsOwn ==
  SyInv => applyPrefs(doc) \in SettingsSet /\ applyPrefs(doc).own = settings.own
<1> SUFFICES ASSUME SyInv PROVE applyPrefs(doc) \in SettingsSet /\ applyPrefs(doc).own = settings.own
  OBVIOUS
<1> DEFINE v == IF doc.pref = "none" THEN settings.pref ELSE doc.pref
<1>1. settings \in [{"pref", "own"} -> PrefValues] /\ v \in PrefValues
  BY DEF SyInv, SettingsSet, Said
<1>2. applyPrefs(doc) = [settings EXCEPT !["pref"] = v]
  BY DEF applyPrefs
<1> HIDE DEF v
<1>3. [settings EXCEPT !["pref"] = v] \in [{"pref", "own"} -> PrefValues]
  BY <1>1
<1>4. [settings EXCEPT !["pref"] = v]["own"] = settings["own"]
  BY <1>1
<1> QED BY <1>2, <1>3, <1>4 DEF SettingsSet

\* How a call goes on.
LEMMA AwaitsKeeps ==
  ASSUME SyInv, NEW c \in Callers, NEW what, NEW s \in AwaitsOf, Awaits(c, what, s)
  PROVE  awaits' \in [Callers -> AwaitsOf]
BY DEF Awaits, SyInv

\* A call that ends says what became of it.
LEMMA FinishesKeeps ==
  ASSUME SyInv, NEW c \in Callers, NEW what \in Said, Finishes(c, what)
  PROVE  awaits' \in [Callers -> AwaitsOf] /\ toTell' \in [Callers -> Said] /\ goesBy' \in PrefValues
<1>1. awaits' \in [Callers -> AwaitsOf]
  <2>1. Awaits(c, "none", "idle") /\ "idle" \in AwaitsOf
    BY DEF Finishes, AwaitsOf
  <2> QED BY <2>1, AwaitsKeeps
<1> QED BY <1>1 DEF Finishes, SyInv, Said

\* A call goes on with the engine it got.
LEMMA UsesKeeps ==
  ASSUME SyInv, NEW c \in Callers, NEW what, NEW e \in Nat, Uses(c, what, e), 1 <= e, e <= engines',
         engines' \in Nat, engines <= engines'
  PROVE  awaits' \in [Callers -> AwaitsOf] /\ debounced' \subseteq 1 .. engines'
<1>1. awaits' \in [Callers -> AwaitsOf]
  <2>1. \E s \in {"delete", "idle", "ask"} : Awaits(c, what, s)
    BY DEF Uses
  <2>2. {"delete", "idle", "ask"} \subseteq AwaitsOf
    BY DEF AwaitsOf
  <2> QED BY <2>1, <2>2, AwaitsKeeps
<1>2. debounced \subseteq 1 .. engines'
  BY DEF SyInv
<1>3. debounced' \subseteq debounced \cup {e}
  BY DEF Uses
<1> QED BY <1>1, <1>2, <1>3

\* The engine is looked up, or made once.
LEMMA EngineKeeps ==
  ASSUME SyInv, NEW c \in Callers, NEW what, syncEngine(c, what)
  PROVE  /\ awaits' \in [Callers -> AwaitsOf] /\ UNCHANGED <<toTell, engine, engines>>
         /\ debounced' \subseteq 1 .. engines
<1>1. UNCHANGED <<toTell, engine, engines>>
  BY DEF syncEngine
<1>2. CASE engine = 0
  <2>1. Awaits(c, what, "create") /\ UNCHANGED debounced /\ "create" \in AwaitsOf
    BY <1>2 DEF syncEngine, AwaitsOf
  <2> QED BY <1>1, <2>1, AwaitsKeeps DEF SyInv
<1>3. CASE engine # 0
  <2>1. Uses(c, what, engine) /\ engine \in Nat /\ 1 <= engine /\ engine <= engines'
        /\ engines' \in Nat /\ engines <= engines'
    BY <1>1, <1>3 DEF syncEngine, SyInv
  <2>2. awaits' \in [Callers -> AwaitsOf] /\ debounced' \subseteq 1 .. engines'
    BY <2>1, UsesKeeps
  <2> QED BY <1>1, <2>2
<1> QED BY <1>2, <1>3

\* Requests are counted.
LEMMA RequestedCounts == ASSUME SyInv, NEW c, Requested(c) PROVE requests' \in Nat
BY DEF Requested, SyInv

SyGoes == SyInv' /\ OwnStep

\* Each request, answer, debounced push, pull and write of another machine.
LEMMA SyStep == ASSUME SyInv, SyNext PROVE SyGoes
<1> USE DEF SyGoes
<1>1. ASSUME NEW c \in Callers, NEW l \in SyncLooks, enable(c, l),
             UNCHANGED <<settings, goesBy, identity, doc, foreign>>, token' \in BOOLEAN,
             requests' \in Nat
      PROVE  SyGoes
  <2>1. /\ enabled' = TRUE /\ appearance' = (IF l = "none" THEN appearance ELSE l)
        /\ \/ lastApplied' = "none" /\ syncEngine(c, "enable")
           \/ UNCHANGED <<lastApplied, callVars, engine, engines, debounced>>
    BY <1>1 DEF enable
  <2>2. lastApplied' \in Said /\ appearance' \in SyncLooks
    BY <2>1 DEF SyInv, Said
  <2>3. CASE syncEngine(c, "enable")
    BY <1>1, <2>1, <2>2, <2>3, EngineKeeps DEF SyInv, OwnStep
  <2>4. CASE UNCHANGED <<lastApplied, callVars, engine, engines, debounced>>
    BY <1>1, <2>1, <2>2, <2>4 DEF SyInv, OwnStep, callVars
  <2> QED BY <2>1, <2>3, <2>4
<1>2. ASSUME NEW c \in Callers, NEW l \in Appearances, TurnOn(c, l) PROVE SyGoes
  <2>1. l \in SyncLooks /\ requests' \in Nat /\ token' \in BOOLEAN
    BY <1>2, RequestedCounts DEF TurnOn, SyncLooks, SyInv
  <2> QED BY <1>1, <1>2, <2>1 DEF TurnOn
<1>3. ASSUME NEW c \in Callers, NEW l \in Appearances, updateAppearance(c, l) PROVE SyGoes
  <2>1. /\ requests' \in Nat /\ appearance' = l
        /\ UNCHANGED <<settings, goesBy, enabled, token, identity, lastApplied, doc, foreign>>
        /\ syncEngine(c, "appear") \/ UNCHANGED <<callVars, engine, engines, debounced>>
    BY <1>3, RequestedCounts DEF updateAppearance
  <2>2. l \in SyncLooks
    BY DEF SyncLooks
  <2>3. CASE syncEngine(c, "appear")
    BY <2>1, <2>2, <2>3, EngineKeeps DEF SyInv, OwnStep
  <2> QED BY <2>1, <2>2, <2>3 DEF SyInv, OwnStep, callVars
<1>4. ASSUME NEW c \in Callers, SignsIn(c) PROVE SyGoes
  <2>1. /\ requests' \in Nat /\ token' = TRUE /\ identity' \in BOOLEAN
        /\ UNCHANGED <<settings, goesBy, doc, foreign>>
        /\ enable(c, "none") \/ UNCHANGED <<appearance, enabled, engineVars, callVars>>
    BY <1>4, RequestedCounts DEF SignsIn
  <2>2. CASE enable(c, "none")
    <3>1. /\ enabled' = TRUE /\ appearance' = appearance
          /\ lastApplied' = "none" /\ syncEngine(c, "enable")
      BY <2>1, <2>2 DEF enable
    <3> QED BY <2>1, <3>1, EngineKeeps DEF SyInv, OwnStep, Said
  <2> QED BY <2>1, <2>2 DEF SyInv, OwnStep, callVars, engineVars
<1>5. ASSUME NEW c \in Callers, pullNow(c) \/ pushNow(c) PROVE SyGoes
  <2>1. /\ requests' \in Nat /\ UNCHANGED <<settings, goesBy, stateVars, doc, foreign>>
        /\ lastApplied' \in Said
    BY <1>5, RequestedCounts DEF pullNow, pushNow, Said, SyInv
  <2>2. /\ awaits' \in [Callers -> AwaitsOf] /\ UNCHANGED <<toTell, engine, engines>>
        /\ debounced' \subseteq 1 .. engines
    <3>1. \E what \in {"pull", "push"} : syncEngine(c, what)
      BY <1>5 DEF pullNow, pushNow
    <3> QED BY <3>1, EngineKeeps
  <2> QED BY <2>1, <2>2 DEF SyInv, OwnStep, stateVars
<1>6. ASSUME NEW c \in Callers, Creates(c) PROVE SyGoes
  <2>1. /\ engines < MaxEngines /\ engines' = engines + 1 /\ engine' = engines'
        /\ Uses(c, wants[c], engine')
        /\ UNCHANGED <<settings, goesBy, stateVars, lastApplied, toTell, doc, foreign, requests>>
    BY <1>6 DEF Creates
  <2>2. /\ engines' \in Nat /\ engines' <= MaxEngines /\ engine' \in Nat /\ 1 <= engine'
        /\ engine' <= engines' /\ engines <= engines'
    BY <2>1, SyncAssumption DEF SyInv
  <2>3. awaits' \in [Callers -> AwaitsOf] /\ debounced' \subseteq 1 .. engines'
    BY <2>1, <2>2, UsesKeeps
  <2> QED BY <2>1, <2>2, <2>3 DEF SyInv, OwnStep, stateVars
<1>7. ASSUME NEW c \in Callers, AccountAnswers(c) PROVE SyGoes
  <2>1. /\ UNCHANGED <<enabled, token, identity, engine, engines, debounced, foreign, requests>>
        /\ \/ doc' = Sent /\ UNCHANGED <<settings, appearance, lastApplied>>
           \/ UNCHANGED doc /\ UNCHANGED <<settings, appearance, lastApplied>>
           \/ UNCHANGED doc /\ Takes(doc)
        /\ \E what \in {"none", lastApplied'} : Known(c, what)
    BY <1>7 DEF AccountAnswers
  <2>2. /\ settings' \in SettingsSet /\ appearance' \in SyncLooks /\ lastApplied' \in Said
        /\ settings'.own = settings.own
    <3>1. CASE UNCHANGED <<settings, appearance, lastApplied>>
      BY <3>1 DEF SyInv
    <3>2. CASE Takes(doc)
      <4>1. applyPrefs(doc).pref \in PrefValues
        BY TakenKeepsOwn DEF SettingsSet
      <4> QED BY <3>2, <4>1, TakenKeepsOwn DEF Takes, SyInv, SyncLooks, Said
    <3> QED BY <2>1, <3>1, <3>2
  <2>3. doc'.pref \in Said /\ doc'.appearance \in SyncLooks /\ doc'.own = doc.own
    BY <2>1, SentKeepsOwn DEF SyInv
  <2>4. awaits' \in [Callers -> AwaitsOf] /\ toTell' \in [Callers -> Said] /\ goesBy' \in PrefValues
    <3>1. PICK what \in {"none", lastApplied'} : Known(c, what)
      BY <2>1
    <3>2. what \in Said
      BY <2>2 DEF Said
    <3>3. CASE Finishes(c, what)
      BY <3>2, <3>3, FinishesKeeps
    <3>4. CASE /\ Awaits(c, wants[c], "identity") /\ UNCHANGED goesBy
               /\ toTell' = [toTell EXCEPT ![c] = what]
      <4>1. "identity" \in AwaitsOf
        BY DEF AwaitsOf
      <4>2. awaits' \in [Callers -> AwaitsOf]
        BY <3>4, <4>1, AwaitsKeeps
      <4> QED BY <3>2, <3>4, <4>2 DEF SyInv
    <3> QED BY <3>1, <3>3, <3>4 DEF Known
  <2> QED BY <2>1, <2>2, <2>3, <2>4 DEF SyInv, OwnStep
<1>8. ASSUME NEW c \in Callers, AskFails(c) PROVE SyGoes
  <2>1. /\ Finishes(c, "none") /\ "none" \in Said
        /\ UNCHANGED <<settings, stateVars, engineVars, doc, foreign, requests>>
    BY <1>8 DEF AskFails, Said
  <2> QED BY <2>1, FinishesKeeps DEF SyInv, OwnStep, stateVars, engineVars
<1>9. ASSUME NEW c \in Callers, backfillIdentity(c) PROVE SyGoes
  <2>1. /\ identity' \in BOOLEAN
        /\ Finishes(c, lastApplied) \/ Finishes(c, toTell[c])
        /\ UNCHANGED <<settings, appearance, enabled, token, engineVars, doc, foreign, requests>>
    BY <1>9 DEF backfillIdentity, SyInv
  <2>2. lastApplied \in Said /\ toTell[c] \in Said
    BY DEF SyInv
  <2>3. awaits' \in [Callers -> AwaitsOf] /\ toTell' \in [Callers -> Said] /\ goesBy' \in PrefValues
    BY <2>1, <2>2, FinishesKeeps
  <2> QED BY <2>1, <2>3 DEF SyInv, OwnStep, engineVars
<1>10. ASSUME NEW c \in Callers, Deletes(c) PROVE SyGoes
  <2>1. /\ Awaits(c, "forget", "revoke") /\ doc' \in {doc, NoDoc} /\ "revoke" \in AwaitsOf
        /\ UNCHANGED <<settings, goesBy, stateVars, engineVars, toTell, foreign, requests>>
    BY <1>10 DEF Deletes, AwaitsOf
  <2>2. awaits' \in [Callers -> AwaitsOf]
    BY <2>1, AwaitsKeeps
  <2>3. doc'.pref \in Said /\ doc'.appearance \in SyncLooks
    BY <2>1 DEF SyInv, NoDoc, Said, SyncLooks
  <2> QED BY <2>1, <2>2, <2>3 DEF SyInv, OwnStep, stateVars, engineVars
<1>11. ASSUME NEW c \in Callers, Revokes(c) PROVE SyGoes
  <2>1. /\ Cleared /\ Finishes(c, "none") /\ "none" \in Said
        /\ UNCHANGED <<settings, enabled, engines, debounced, lastApplied, doc, foreign, requests>>
    BY <1>11 DEF Revokes, Said
  <2>2. awaits' \in [Callers -> AwaitsOf] /\ toTell' \in [Callers -> Said] /\ goesBy' \in PrefValues
    BY <2>1, FinishesKeeps
  <2>3. /\ engine' \in Nat /\ engine' <= engines' /\ appearance' \in SyncLooks
        /\ token' \in BOOLEAN /\ identity' \in BOOLEAN
    <3>1. CASE Cleared
      <4>1. 0 \in Nat /\ 0 <= engines /\ engines' = engines
        BY <2>1 DEF SyInv
      <4>2. "none" \in SyncLooks
        BY DEF SyncLooks
      <4> QED BY <3>1, <4>1, <4>2 DEF Cleared
    <3> QED BY <2>1, <3>1 DEF SyInv
  <2> QED BY <2>1, <2>2, <2>3 DEF SyInv, OwnStep
<1>12. ASSUME NEW c \in Callers, Restarts(c) PROVE SyGoes
  <2>1. /\ requests' = requests + 1
        /\ (doc' = Sent \/ UNCHANGED doc)
        /\ debounced' = {} /\ engine' = 0 /\ UNCHANGED engines /\ goesBy' = settings.pref
        /\ toTell' = [d \in Callers |-> "none"]
        /\ awaits' = [d \in Callers |-> IF enabled /\ d = c THEN "create" ELSE "idle"]
        /\ lastApplied' = "none" /\ UNCHANGED <<settings, stateVars, foreign>>
    BY <1>12 DEF Restarts
  <2>2. doc'.pref \in Said /\ doc'.appearance \in SyncLooks /\ doc'.own = doc.own
    BY <2>1, SentKeepsOwn DEF SyInv
  <2>3. awaits' \in [Callers -> AwaitsOf] /\ toTell' \in [Callers -> Said]
    BY <2>1 DEF AwaitsOf, Said
  <2>4. goesBy' \in PrefValues
    BY <2>1 DEF SyInv, SettingsSet
  <2>5. engine' \in Nat /\ engine' <= engines' /\ requests' \in Nat /\ lastApplied' \in Said
    BY <2>1 DEF SyInv, Said
  <2>6. debounced' \subseteq 1 .. engines'
    BY <2>1
  <2> QED BY <2>1, <2>2, <2>3, <2>4, <2>5, <2>6 DEF SyInv, OwnStep, stateVars
<1>13. ASSUME NEW c \in Callers, NEW forget \in BOOLEAN, disable(c, forget) PROVE SyGoes
  <2>1. /\ requests' \in Nat /\ enabled' = FALSE /\ debounced' = debounced \ {engine}
        /\ UNCHANGED <<settings, goesBy, lastApplied, engines, toTell, doc, foreign>>
        /\ \/ engine' = 0 /\ UNCHANGED <<appearance, token, identity, wants, awaits>>
           \/ Cleared /\ UNCHANGED <<wants, awaits>>
           \/ /\ \E s \in {"create", "delete"} : Awaits(c, "forget", s)
              /\ UNCHANGED <<appearance, token, identity, engine>>
    BY <1>13, RequestedCounts DEF disable
  <2>2. awaits' \in [Callers -> AwaitsOf]
    <3>1. {"create", "delete"} \subseteq AwaitsOf
      BY DEF AwaitsOf
    <3> QED BY <2>1, <3>1, AwaitsKeeps DEF SyInv
  <2>3. /\ engine' \in Nat /\ engine' <= engines' /\ appearance' \in SyncLooks
        /\ token' \in BOOLEAN /\ identity' \in BOOLEAN
    <3>1. CASE Cleared
      <4>1. 0 \in Nat /\ 0 <= engines /\ engines' = engines
        BY <2>1 DEF SyInv
      <4>2. "none" \in SyncLooks
        BY DEF SyncLooks
      <4> QED BY <3>1, <4>1, <4>2 DEF Cleared
    <3> QED BY <2>1, <3>1 DEF SyInv
  <2>4. debounced' \subseteq 1 .. engines'
    BY <2>1 DEF SyInv
  <2> QED BY <2>1, <2>2, <2>3, <2>4 DEF SyInv, OwnStep
<1>14. ASSUME NEW e, PushFires(e) PROVE SyGoes
  <2>1. /\ debounced' = debounced \ {e}
        /\ (doc' = Sent \/ UNCHANGED doc)
        /\ UNCHANGED <<settings, goesBy, stateVars, engine, engines, lastApplied, callVars>>
        /\ UNCHANGED <<foreign, requests>>
    BY <1>14 DEF PushFires
  <2>2. doc'.pref \in Said /\ doc'.appearance \in SyncLooks /\ doc'.own = doc.own
    BY <2>1, SentKeepsOwn DEF SyInv
  <2>3. debounced' \subseteq 1 .. engines'
    BY <2>1 DEF SyInv
  <2> QED BY <2>1, <2>2, <2>3 DEF SyInv, OwnStep, stateVars, callVars
<1>15. ASSUME NEW key \in {"pref", "own"}, NEW v \in PrefValues, PutSettings(key, v) PROVE SyGoes
  <2>1. /\ requests' = requests + 1 /\ settings' = [settings EXCEPT ![key] = v]
        /\ goesBy' = settings'.pref /\ UNCHANGED <<stateVars, engineVars, callVars, doc, foreign>>
    BY <1>15 DEF PutSettings
  <2>2. settings' \in SettingsSet
    BY <2>1 DEF SyInv, SettingsSet
  <2> QED BY <2>1, <2>2 DEF SyInv, OwnStep, stateVars, engineVars, callVars, SettingsSet
<1>16. ASSUME NEW p \in PrefValues, NEW o \in PrefValues, NEW l \in Appearances,
              OtherWrites([pref |-> p, own |-> o, appearance |-> l])
       PROVE  SyGoes
  <2>1. /\ doc' = [pref |-> p, own |-> o, appearance |-> l] /\ foreign' = TRUE
        /\ UNCHANGED <<settings, goesBy, stateVars, engineVars, callVars, requests>>
    BY <1>16 DEF OtherWrites
  <2>2. doc'.pref \in Said /\ doc'.appearance \in SyncLooks
    BY <2>1 DEF Said, SyncLooks
  <2>3. foreign' # foreign
    BY <1>16 DEF OtherWrites, SyInv
  <2> QED BY <2>1, <2>2, <2>3 DEF SyInv, OwnStep, stateVars, engineVars, callVars
<1> QED BY <1>2, <1>3, <1>4, <1>5, <1>6, <1>7, <1>8, <1>9, <1>10, <1>11, <1>12, <1>13, <1>14,
           <1>15, <1>16 DEF SyNext

\* And a step of something else.
LEMMA SyStutter == ASSUME SyInv, UNCHANGED syVars PROVE SyGoes
BY DEF syVars, stateVars, engineVars, callVars, SyInv, SyGoes, OwnStep

\* So every variable of the sync stays in its type.
LEMMA SyInvMeaning == SyInv => SyTypeOK
BY SyncAssumption DEF SyInv, SyTypeOK, SyncLooks, AwaitsOf, SettingsSet

---------------------------------------------------------------------------------------
(* Desktop: the tray. A host that came past the lock holds it; an icon has a host that waits or loops;
   and a daemon that is up and may have an icon has begun a host. *)

Past == {"look", "prepare", "icon", "wait", "loop"}
Spots == Past \cup {"none", "claim", "box", "gone"}
Stages == {"none", "boot", "place", "probe", "decide", "up", "dead"}
IsServed(d) == daemonAt[d] \in {"place", "probe", "decide", "up"}
TrayBegun == \E h \in TrayHosts : hostAt[h] # "none"

HostInv ==
  /\ hostAt \in [TrayHosts -> Spots] /\ mutex \in TrayHosts \cup {NoHost} /\ ended \subseteq TrayHosts
  /\ \A h \in TrayHosts : hostAt[h] \in Past => mutex = h
  /\ \A h \in TrayHosts : mutex = h => hostAt[h] \in Past \cup {"box"}
  /\ ended = {} => /\ \A h \in TrayHosts : mutex = h => hostAt[h] # "box"
                   /\ \A h \in TrayHosts : hostAt[h] \in {"box", "gone"} => mutex # NoHost

IconInv ==
  /\ shell \cup told \cup iconShown \subseteq TrayHosts
  /\ \A h \in iconShown : hostAt[h] \in {"wait", "loop"}
  /\ taskbar => iconShown \subseteq shell \cup told

DaemonInv ==
  /\ daemonAt \in [TrayDaemons -> Stages] /\ toolkit \subseteq Whole
  /\ probed \in [TrayDaemons -> {"none", "yes", "no", "unknown"}]
  /\ hideIcon => hidden
  /\ \A c, d \in TrayDaemons : IsServed(c) /\ IsServed(d) => c = d
  /\ \A d \in TrayDaemons : daemonAt[d] = "decide" /\ probed[d] = "yes" => TrayBegun
  /\ \A d \in TrayDaemons : daemonAt[d] = "up" /\ compiled /\ toolkit = Whole /\ ~hidden => TrayBegun

TsInv == HostInv /\ IconInv /\ DaemonInv

\* Before a daemon starts there is no host and no icon.
LEMMA TsInvInit == TsInit => TsInv
<1> SUFFICES ASSUME TsInit PROVE TsInv
  OBVIOUS
<1>1. HostInv
  BY TrayStartAssumption DEF TsInit, HostInv, Spots, Past
<1>2. IconInv
  BY DEF TsInit, IconInv
<1>3. DaemonInv
  BY DEF TsInit, DaemonInv, Stages, IsServed, Whole
<1> QED BY <1>1, <1>2, <1>3 DEF TsInv

\* One host goes on.
LEMMA TrayGoesOn ==
  ASSUME HostInv, NEW h \in TrayHosts, NEW place \in Spots, HostGoes(h, place)
  PROVE  /\ hostAt' \in [TrayHosts -> Spots]
         /\ \A g \in TrayHosts : hostAt'[g] = IF g = h THEN place ELSE hostAt[g]
         /\ (place # "none" => TrayBegun')
BY DEF HostInv, HostGoes, TrayBegun

\* What the daemons' part needs of the hosts' steps.
LEMMA DaemonsStay ==
  ASSUME DaemonInv, TrayBegun => TrayBegun', UNCHANGED <<compiled, daemonAt, probed, toolkit, hideIcon, hidden>>
  PROVE  DaemonInv'
BY DEF DaemonInv, IsServed

\* The icon of one host is brought in line with the setting.
LEMMA SyncKeeps ==
  ASSUME IconInv, NEW h \in TrayHosts, hostAt'[h] \in {"wait", "loop"},
         \A g \in TrayHosts : g # h => hostAt'[g] = hostAt[g],
         \/ sync_icon_visibility(h, FALSE) /\ told' \in {told, told \ {h}}
         \/ sync_icon_visibility(h, h \in iconShown) /\ told' = told,
         UNCHANGED taskbar
  PROVE  IconInv'
<1>1. \/ iconShown' = iconShown \ {h} /\ shell' \in {shell, shell \ {h}} /\ told' \in {told, told \ {h}}
      \/ taskbar /\ iconShown' = iconShown \cup {h} /\ shell' = shell \cup {h} /\ told' \in {told, told \ {h}}
      \/ UNCHANGED <<iconShown, shell, told>>
  BY DEF sync_icon_visibility, Added
<1>2. CASE iconShown' = iconShown \ {h} /\ shell' \in {shell, shell \ {h}} /\ told' \in {told, told \ {h}}
  BY <1>2 DEF IconInv
<1>3. CASE taskbar /\ iconShown' = iconShown \cup {h} /\ shell' = shell \cup {h} /\ told' \in {told, told \ {h}}
  BY <1>3 DEF IconInv
<1>4. CASE UNCHANGED <<iconShown, shell, told>>
  BY <1>4 DEF IconInv
<1> QED BY <1>1, <1>2, <1>3, <1>4

\* Each launch, check, claim of the lock, icon, probe and end.
LEMMA TsInvStep == ASSUME TsInv, TsNext PROVE TsInv'
<1>0. HostInv /\ IconInv /\ DaemonInv /\ NoHost \notin TrayHosts
  BY TrayStartAssumption DEF TsInv
<1>1. ASSUME NEW h \in TrayHosts, Launches(h) PROVE TsInv'
  <2>1. PICK place \in {"claim", "box"} : HostGoes(h, place) /\ ended' \in {ended, ended \cup {h}} /\ (place = "box" => ended' # {})
    BY <1>1 DEF Launches
  <2>2. /\ hostAt[h] = "none"
        /\ UNCHANGED <<compiled, mutex, daemonAt, probed, toolkit, hideIcon, iconVars, hidden>>
    BY <1>1 DEF Launches
  <2>3. place \in Spots /\ place \notin Past
    BY DEF Spots, Past
  <2>4. /\ hostAt' \in [TrayHosts -> Spots] /\ TrayBegun'
        /\ \A g \in TrayHosts : hostAt'[g] = IF g = h THEN place ELSE hostAt[g]
    BY <1>0, <2>1, <2>3, TrayGoesOn
  <2>5. HostInv'
    <3>1. mutex # h
      BY <1>0, <2>2 DEF HostInv, Past
    <3> QED BY <1>0, <2>1, <2>2, <2>3, <2>4, <3>1 DEF HostInv
  <2>6. IconInv'
    BY <1>0, <2>2, <2>4 DEF IconInv, iconVars
  <2> QED BY <1>0, <2>2, <2>4, <2>5, <2>6, DaemonsStay DEF TsInv
<1>2. ASSUME NEW h \in TrayHosts, HostSteps(h) PROVE TsInv'
  <2>1. UNCHANGED <<compiled, ended, daemonAt, probed, toolkit, hideIcon, iconVars, hidden>>
    BY <1>2 DEF HostSteps
  <2>2. PICK place \in {"look", "gone", "box", "icon", "prepare"} : HostGoes(h, place) /\ hostAt[h] \in {"claim", "look", "box"}
    BY <1>2 DEF HostSteps, claim_single_instance, open_running_host, LooksForDaemon, ClosesBox
  <2>3. place \in Spots /\ place # "none"
    BY DEF Spots, Past
  <2>4. /\ hostAt' \in [TrayHosts -> Spots] /\ TrayBegun'
        /\ \A g \in TrayHosts : hostAt'[g] = IF g = h THEN place ELSE hostAt[g]
    BY <1>0, <2>2, <2>3, TrayGoesOn
  <2>5. HostInv'
    <3>1. CASE claim_single_instance(h)
      <4>1. mutex = NoHost /\ mutex' = h /\ hostAt'[h] = "look"
        BY <1>0, <3>1, <2>4 DEF claim_single_instance, HostGoes, HostInv
      <4> QED BY <1>0, <2>1, <2>4, <4>1 DEF HostInv, Past
    <3>2. CASE open_running_host(h)
      <4>1. mutex # NoHost /\ mutex' = mutex /\ hostAt'[h] \in {"gone", "box"} /\ hostAt[h] = "claim"
        BY <1>0, <3>2, <2>4 DEF open_running_host, HostGoes, HostInv
      <4>2. mutex # h
        BY <1>0, <4>1 DEF HostInv, Past
      <4> QED BY <1>0, <2>1, <2>4, <4>1, <4>2 DEF HostInv, Past
    <3>3. CASE LooksForDaemon(h)
      <4>1. mutex' = mutex /\ hostAt'[h] \in {"icon", "prepare"} /\ hostAt[h] = "look"
        BY <1>0, <3>3, <2>4 DEF LooksForDaemon, HostGoes, HostInv
      <4>2. mutex = h
        BY <1>0, <4>1 DEF HostInv, Past
      <4> QED BY <1>0, <2>1, <2>4, <4>1, <4>2 DEF HostInv, Past
    <3>4. CASE ClosesBox(h)
      <4>1. mutex' = (IF mutex = h THEN NoHost ELSE mutex) /\ hostAt'[h] = "gone" /\ hostAt[h] = "box"
        BY <1>0, <3>4, <2>4 DEF ClosesBox, HostGoes, HostInv
      <4>2. ASSUME NEW g \in TrayHosts, hostAt'[g] \in Past PROVE mutex' = g
        BY <1>0, <2>4, <4>1, <4>2 DEF HostInv, Past
      <4>3. ended = {} => mutex # h /\ mutex' # NoHost
        BY <1>0, <4>1 DEF HostInv
      <4> QED BY <1>0, <2>1, <2>4, <4>1, <4>2, <4>3 DEF HostInv
    <3> QED BY <1>2, <3>1, <3>2, <3>3, <3>4 DEF HostSteps
  <2>6. IconInv'
    BY <1>0, <2>1, <2>2, <2>4 DEF IconInv, iconVars
  <2> QED BY <1>0, <2>1, <2>4, <2>5, <2>6, DaemonsStay DEF TsInv
<1>3. ASSUME NEW h \in TrayHosts, bootstrap_and_spawn_daemon(h) PROVE TsInv'
  <2>1. /\ hostAt[h] = "prepare"
        /\ UNCHANGED <<compiled, mutex, probed, toolkit, hideIcon, iconVars, hidden>>
    BY <1>3 DEF bootstrap_and_spawn_daemon
  <2>2. PICK place \in {"icon", "box"} : HostGoes(h, place) /\ ended' \in {ended, ended \cup {h}} /\ (place = "box" => ended' # {})
    BY <1>3 DEF bootstrap_and_spawn_daemon
  <2>3. place \in Spots /\ place # "none"
    BY DEF Spots, Past
  <2>4. /\ hostAt' \in [TrayHosts -> Spots] /\ TrayBegun'
        /\ \A g \in TrayHosts : hostAt'[g] = IF g = h THEN place ELSE hostAt[g]
    BY <1>0, <2>2, <2>3, TrayGoesOn
  <2>5. HostInv'
    <3>1. mutex = h
      BY <1>0, <2>1 DEF HostInv, Past
    <3> QED BY <1>0, <2>1, <2>2, <2>4, <3>1 DEF HostInv, Past
  <2>6. IconInv'
    BY <1>0, <2>1, <2>4 DEF IconInv, iconVars
  <2>7. DaemonInv'
    <3>1. \/ \E d \in TrayDaemons : daemonAt[d] = "none" /\ daemonAt' = [daemonAt EXCEPT ![d] = "boot"]
          \/ UNCHANGED daemonAt
      BY <1>3 DEF bootstrap_and_spawn_daemon
    <3>2. daemonAt' \in [TrayDaemons -> Stages] /\ \A d \in TrayDaemons : daemonAt'[d] \in {daemonAt[d], "boot"}
      BY <1>0, <3>1 DEF DaemonInv, Stages
    <3> QED BY <1>0, <2>1, <2>4, <3>2 DEF DaemonInv, IsServed
  <2> QED BY <2>5, <2>6, <2>7 DEF TsInv
<1>4. ASSUME NEW h \in TrayHosts, IconSteps(h) PROVE TsInv'
  <2>1. UNCHANGED <<compiled, daemonAt, probed, toolkit, hideIcon, hidden>>
    BY <1>4 DEF IconSteps
  <2>2. CASE create_tray_window(h) \/ Ticks(h) \/ on_taskbar_created(h)
    <3>1. /\ hostAt' \in [TrayHosts -> Spots] /\ TrayBegun' /\ UNCHANGED <<mutex, ended, taskbar>>
          /\ \A g \in TrayHosts : g # h => hostAt'[g] = hostAt[g]
          /\ hostAt[h] \in {"icon", "loop"} /\ hostAt'[h] \in {"wait", "loop"}
      <4>1. CASE create_tray_window(h)
        <5>1. HostGoes(h, "wait") /\ hostAt[h] = "icon" /\ UNCHANGED <<mutex, ended, taskbar>> /\ "wait" \in Spots
          BY <4>1 DEF create_tray_window, Spots, Past
        <5> QED BY <1>0, <5>1, TrayGoesOn
      <4>2. CASE Ticks(h) \/ on_taskbar_created(h)
        <5>1. hostAt[h] = "loop" /\ UNCHANGED <<hostAt, mutex, ended, taskbar>>
          BY <4>2 DEF Ticks, on_taskbar_created, hostVars
        <5> QED BY <1>0, <5>1 DEF HostInv, TrayBegun
      <4> QED BY <2>2, <4>1, <4>2
    <3>2. HostInv'
      <4>1. mutex = h
        BY <1>0, <3>1 DEF HostInv, Past
      <4> QED BY <1>0, <3>1, <4>1 DEF HostInv, Past
    <3>3. IconInv'
      <4>1. \/ sync_icon_visibility(h, FALSE) /\ told' \in {told, told \ {h}}
            \/ sync_icon_visibility(h, h \in iconShown) /\ told' = told
        BY <2>2 DEF create_tray_window, Ticks, on_taskbar_created
      <4> QED BY <1>0, <3>1, <4>1, SyncKeeps
    <3> QED BY <1>0, <2>1, <3>1, <3>2, <3>3, DaemonsStay DEF TsInv
  <2>3. CASE run_tray(h)
    <3>1. hostAt[h] = "wait" /\ HostGoes(h, "loop") /\ UNCHANGED <<iconVars, mutex, ended>> /\ "loop" \in Spots
      BY <2>3 DEF run_tray, Spots, Past
    <3>2. /\ hostAt' \in [TrayHosts -> Spots] /\ TrayBegun'
          /\ \A g \in TrayHosts : hostAt'[g] = IF g = h THEN "loop" ELSE hostAt[g]
      BY <1>0, <3>1, TrayGoesOn
    <3>3. HostInv'
      <4>1. mutex = h
        BY <1>0, <3>1 DEF HostInv, Past
      <4> QED BY <1>0, <3>1, <3>2, <4>1 DEF HostInv, Past
    <3>4. IconInv'
      BY <1>0, <3>1, <3>2 DEF IconInv, iconVars
    <3> QED BY <1>0, <2>1, <3>2, <3>3, <3>4, DaemonsStay DEF TsInv
  <2>4. CASE Quits(h)
    <3>1. /\ hostAt[h] = "loop" /\ HostGoes(h, "gone") /\ mutex' = NoHost /\ ended' = ended \cup {h}
          /\ shell' = shell \ {h} /\ iconShown' = iconShown \ {h} /\ told' = told \ {h}
          /\ UNCHANGED taskbar /\ "gone" \in Spots
      BY <2>4 DEF Quits, Spots
    <3>2. /\ hostAt' \in [TrayHosts -> Spots] /\ TrayBegun'
          /\ \A g \in TrayHosts : hostAt'[g] = IF g = h THEN "gone" ELSE hostAt[g]
      BY <1>0, <3>1, TrayGoesOn
    <3>3. HostInv'
      <4>1. mutex = h
        BY <1>0, <3>1 DEF HostInv, Past
      <4> QED BY <1>0, <3>1, <3>2, <4>1 DEF HostInv, Past
    <3>4. IconInv'
      BY <1>0, <3>1, <3>2 DEF IconInv
    <3> QED BY <1>0, <2>1, <3>2, <3>3, <3>4, DaemonsStay DEF TsInv
  <2> QED BY <1>4, <2>2, <2>3, <2>4 DEF IconSteps
<1>5. CASE ExplorerEnds \/ ExplorerComes
  <2>1. /\ UNCHANGED <<compiled, hostAt, mutex, ended, daemonAt, probed, toolkit, hideIcon, iconShown, hidden>>
        /\ \/ taskbar' = FALSE /\ shell' = {} /\ told' = told
           \/ told' = {h \in TrayHosts : hostAt[h] \in {"wait", "loop"}} /\ shell' = shell
    BY <1>5 DEF ExplorerEnds, ExplorerComes, hostVars
  <2>2. HostInv' /\ (TrayBegun => TrayBegun')
    BY <1>0, <2>1 DEF HostInv, TrayBegun
  <2>3. IconInv'
    BY <1>0, <2>1 DEF IconInv
  <2> QED BY <1>0, <2>1, <2>2, <2>3, DaemonsStay DEF TsInv
<1>6. CASE PutHideIcon
  <2>1. hidden' = TRUE /\ UNCHANGED <<compiled, hostAt, mutex, ended, daemonAt, probed, toolkit, iconVars>>
    BY <1>6 DEF PutHideIcon, hostVars
  <2> QED BY <1>0, <2>1 DEF TsInv, HostInv, IconInv, DaemonInv, IsServed, TrayBegun, iconVars
<1>7. ASSUME NEW d \in TrayDaemons, DaemonSteps(d) PROVE TsInv'
  <2>1. probed' = [probed EXCEPT ![d] = "none"] /\ UNCHANGED <<compiled, hostAt, mutex, ended, toolkit, hideIcon, iconVars, hidden>>
    BY <1>7 DEF DaemonSteps, hostVars
  <2>2. HostInv' /\ IconInv' /\ TrayBegun' = TrayBegun
    BY <1>0, <2>1 DEF HostInv, IconInv, TrayBegun, iconVars
  <2>3. PICK s \in {"boot", "dead", "place"} : daemonAt' = [daemonAt EXCEPT ![d] = s] /\ (s = "place" => ~Serving)
    BY <1>7 DEF DaemonSteps, Starts, DaemonBootsUp, DaemonDies
  <2>4. /\ daemonAt' \in [TrayDaemons -> Stages] /\ \A c \in TrayDaemons : daemonAt'[c] = IF c = d THEN s ELSE daemonAt[c]
        /\ probed' \in [TrayDaemons -> {"none", "yes", "no", "unknown"}]
        /\ \A c \in TrayDaemons : probed'[c] = IF c = d THEN "none" ELSE probed[c]
    BY <1>0, <2>1, <2>3 DEF DaemonInv, Stages
  <2>5. ASSUME NEW b \in TrayDaemons, NEW c \in TrayDaemons, IsServed(b)', IsServed(c)' PROVE b = c
    BY <1>0, <2>3, <2>4, <2>5 DEF DaemonInv, IsServed, Serving
  <2>6. DaemonInv'
    BY <1>0, <2>1, <2>2, <2>4, <2>5 DEF DaemonInv
  <2> QED BY <2>2, <2>6 DEF TsInv
<1>8. ASSUME NEW d \in TrayDaemons, materializeTrayToolkit(d) PROVE TsInv'
  <2>1. /\ daemonAt[d] = "place" /\ daemonAt' = [daemonAt EXCEPT ![d] = "probe"] /\ toolkit' \in {toolkit, toolkit \cup {"exe"}, Whole}
        /\ UNCHANGED <<compiled, hostAt, mutex, ended, probed, hideIcon, iconVars, hidden>>
    BY <1>8 DEF materializeTrayToolkit, hostVars
  <2>2. HostInv' /\ IconInv' /\ TrayBegun' = TrayBegun
    BY <1>0, <2>1 DEF HostInv, IconInv, TrayBegun, iconVars
  <2>3. /\ daemonAt' \in [TrayDaemons -> Stages] /\ toolkit' \subseteq Whole
        /\ \A c \in TrayDaemons : daemonAt'[c] = IF c = d THEN "probe" ELSE daemonAt[c]
    BY <1>0, <2>1 DEF DaemonInv, Stages, Whole
  <2>4. \A c \in TrayDaemons : daemonAt'[c] # "up"
    BY <1>0, <2>1, <2>3 DEF DaemonInv, IsServed
  <2>5. \A c \in TrayDaemons : IsServed(c)' = IsServed(c)
    BY <2>1, <2>3 DEF IsServed
  <2>6. DaemonInv'
    BY <1>0, <2>1, <2>2, <2>3, <2>4, <2>5 DEF DaemonInv
  <2> QED BY <2>2, <2>6 DEF TsInv
<1>9. ASSUME NEW d \in TrayDaemons, trayHostProcessState(d) PROVE TsInv'
  <2>1. /\ daemonAt[d] = "probe" /\ UNCHANGED <<compiled, hostAt, mutex, ended, toolkit, hideIcon, iconVars, hidden>>
        /\ \/ /\ daemonAt' = [daemonAt EXCEPT ![d] = "decide"]
              /\ \E said \in {"unknown", "yes", "no"} : probed' = [probed EXCEPT ![d] = said] /\ (said = "yes" => TrayBegun)
           \/ ~Structural /\ daemonAt' = [daemonAt EXCEPT ![d] = "up"] /\ UNCHANGED probed
    BY <1>9 DEF trayHostProcessState, hostVars, Process, TrayBegun
  <2>2. HostInv' /\ IconInv' /\ TrayBegun' = TrayBegun
    BY <1>0, <2>1 DEF HostInv, IconInv, TrayBegun, iconVars
  <2>3. PICK s \in {"decide", "up"} : daemonAt' = [daemonAt EXCEPT ![d] = s] /\ (s = "up" => ~Structural)
    BY <2>1
  <2>4. daemonAt' \in [TrayDaemons -> Stages] /\ \A c \in TrayDaemons : daemonAt'[c] = IF c = d THEN s ELSE daemonAt[c]
    BY <1>0, <2>3 DEF DaemonInv, Stages
  <2>5. \A c \in TrayDaemons : IsServed(c)' = IsServed(c)
    BY <2>1, <2>4 DEF IsServed
  <2>6. /\ probed' \in [TrayDaemons -> {"none", "yes", "no", "unknown"}]
        /\ \A c \in TrayDaemons : daemonAt'[c] = "decide" /\ probed'[c] = "yes" => TrayBegun
    BY <1>0, <2>1, <2>4 DEF DaemonInv
  <2>7. \A c \in TrayDaemons : daemonAt'[c] = "up" /\ compiled /\ toolkit = Whole /\ ~hidden => TrayBegun
    BY <1>0, <2>3, <2>4 DEF DaemonInv, Structural
  <2>8. DaemonInv'
    BY <1>0, <2>1, <2>2, <2>4, <2>5, <2>6, <2>7 DEF DaemonInv
  <2> QED BY <2>2, <2>8 DEF TsInv
<1>10. ASSUME NEW d \in TrayDaemons, startTrayHostIfMissing(d) PROVE TsInv'
  <2>1. /\ daemonAt[d] = "decide" /\ daemonAt' = [daemonAt EXCEPT ![d] = "up"]
        /\ probed' = [probed EXCEPT ![d] = "none"]
        /\ UNCHANGED <<compiled, mutex, ended, toolkit, hideIcon, iconVars, hidden>>
    BY <1>10 DEF startTrayHostIfMissing
  <2>2. \/ Missing(d) /\ \E h \in TrayHosts : hostAt[h] = "none" /\ HostGoes(h, "claim")
        \/ ~Missing(d) /\ UNCHANGED hostAt
    BY <1>10 DEF startTrayHostIfMissing
  <2>3. HostInv' /\ IconInv' /\ TrayBegun'
    <3>1. ASSUME NEW h \in TrayHosts, hostAt[h] = "none", HostGoes(h, "claim") PROVE HostInv' /\ IconInv' /\ TrayBegun'
      <4>1. "claim" \in Spots /\ "claim" \notin Past
        BY DEF Spots, Past
      <4>2. /\ hostAt' \in [TrayHosts -> Spots] /\ TrayBegun'
            /\ \A g \in TrayHosts : hostAt'[g] = IF g = h THEN "claim" ELSE hostAt[g]
        BY <1>0, <3>1, <4>1, TrayGoesOn
      <4>3. mutex # h
        BY <1>0, <3>1 DEF HostInv, Past
      <4>4. HostInv'
        BY <1>0, <2>1, <4>1, <4>2, <4>3 DEF HostInv
      <4>5. IconInv'
        BY <1>0, <2>1, <3>1, <4>2 DEF IconInv, iconVars
      <4> QED BY <4>2, <4>4, <4>5
    <3>2. CASE ~Missing(d) /\ UNCHANGED hostAt
      <4>1. TrayBegun
        BY <1>0, <2>1, <3>2 DEF Missing, DaemonInv
      <4> QED BY <1>0, <2>1, <3>2, <4>1 DEF HostInv, IconInv, TrayBegun, iconVars
    <3> QED BY <2>2, <3>1, <3>2
  <2>4. /\ daemonAt' \in [TrayDaemons -> Stages] /\ \A c \in TrayDaemons : daemonAt'[c] = IF c = d THEN "up" ELSE daemonAt[c]
        /\ probed' \in [TrayDaemons -> {"none", "yes", "no", "unknown"}]
    BY <1>0, <2>1 DEF DaemonInv, Stages
  <2>5. \A c \in TrayDaemons : IsServed(c)' = IsServed(c)
    BY <2>1, <2>4 DEF IsServed
  <2>6. DaemonInv'
    BY <1>0, <2>1, <2>3, <2>4, <2>5 DEF DaemonInv
  <2> QED BY <2>3, <2>6 DEF TsInv
<1> QED BY <1>1, <1>2, <1>3, <1>4, <1>5, <1>6, <1>7, <1>8, <1>9, <1>10 DEF TsNext

\* So a host past the lock holds it, and an icon has its host.
LEMMA TsInvInductive == TsInv /\ [TsNext]_tsVars => TsInv'
<1>1. TsInv /\ UNCHANGED tsVars => TsInv'
  BY DEF tsVars, hostVars, iconVars, TsInv, HostInv, IconInv, DaemonInv, IsServed, TrayBegun
<1> QED BY <1>1, TsInvStep

\* So the taskbar knows every icon, and a tray that can come has been begun.
LEMMA TsInvMeaning == TsInv => TsTypeOK /\ IconIsKnown /\ TrayComes
<1> SUFFICES ASSUME TsInv PROVE TsTypeOK /\ IconIsKnown /\ TrayComes
  OBVIOUS
<1>0. NoHost \notin TrayHosts
  BY TrayStartAssumption
<1>1. TsTypeOK
  BY <1>0 DEF TsInv, HostInv, IconInv, DaemonInv, TsTypeOK, Spots, Past, Stages, Process
<1>2. IconIsKnown
  BY DEF TsInv, HostInv, IconInv, IconIsKnown, Past
<1>3. ASSUME ended = {}, TrayBegun PROVE \E h \in TrayHosts : Process(h) /\ hostAt[h] # "box"
  <2>1. PICK h \in TrayHosts : hostAt[h] # "none"
    BY <1>3 DEF TrayBegun
  <2>2. CASE hostAt[h] \in {"box", "gone"}
    <3>1. mutex \in TrayHosts /\ hostAt[mutex] \in Past
      BY <1>0, <1>3, <2>2 DEF TsInv, HostInv
    <3> QED BY <3>1 DEF Process, Past
  <2>3. CASE hostAt[h] \notin {"box", "gone"}
    BY <2>1, <2>3 DEF Process
  <2> QED BY <2>2, <2>3
<1>4. TrayComes
  BY <1>3 DEF TrayComes, TsInv, DaemonInv
<1> QED BY <1>1, <1>2, <1>4

---------------------------------------------------------------------------------------
(* Desktop: the windows. What Chromium has placed for a view is the user's shape as far as one is known;
   and a panel that saves a mode turned on was touched. *)

ViewWindows == [view : Views, shape : Usable]
PanelStates == {"shut", "loading", "open", "saving"}

\* What Chromium has placed is the user's shape, as far as that is known, or the view's first
\* size or junk.
PlacedWell(v) ==
  IF shapeChosen[v] = "none" THEN placed[v] \in {"none", v, "sliver", "flat"}
  ELSE placed[v] = shapeChosen[v] /\ shapeChosen[v] \in {"mine", "max"}

WindowsInv ==
  /\ window \in [Windows -> ViewWindows \cup {Shut}]
  /\ placed \in [Views -> Usable \cup {"none", "sliver", "flat"}]
  /\ shapeChosen \in [Views -> {"none", "mine", "max"}]
  /\ \A v \in Views : PlacedWell(v)
  /\ asking \subseteq Open
PanelsInv ==
  /\ panel \in [Panels -> PanelStates] /\ portable \in BOOLEAN
  /\ was \in [Panels -> BOOLEAN] /\ is \in [Panels -> BOOLEAN]
  /\ \A p \in Panels : /\ is[p] /\ ~was[p] => p \in touched
                       /\ panel[p] = "saving" => p \in touched /\ was[p] = is[p]
AwInv == WindowsInv /\ PanelsInv

\* Before the first launch no window was placed.
LEMMA AwInvInit == AwInit => AwInv
<1> SUFFICES ASSUME AwInit PROVE AwInv
  OBVIOUS
<1>1. WindowsInv
  BY DEF AwInit, WindowsInv, PlacedWell, Open, Views, Usable
<1>2. PanelsInv
  BY DEF AwInit, PanelsInv, PanelStates
<1> QED BY <1>1, <1>2 DEF AwInv

\* A closed window shows no view.
LEMMA ShutIsNoView == \A x \in ViewWindows : x # Shut /\ x.view \in Views /\ x.shape \in Usable
<1>1. ASSUME NEW x \in ViewWindows PROVE x # Shut /\ x.view \in Views /\ x.shape \in Usable
  <2>1. x.view \in Views /\ x.shape \in Usable
    BY DEF ViewWindows
  <2>2. Shut.view = "none" /\ "none" \notin Views
    BY DEF Shut, Views
  <2> QED BY <2>1, <2>2
<1> QED BY <1>1

\* An open window shows a view in a usable shape.
LEMMA OpenWindows ==
  ASSUME WindowsInv, NEW w \in Windows, window[w] # Shut
  PROVE  window[w] \in ViewWindows /\ window[w].view \in Views /\ window[w].shape \in Usable
BY ShutIsNoView DEF WindowsInv

ShapeStays ==
  \A w \in Windows : window[w] = Shut /\ window'[w] # Shut =>
      LET v == window'[w].view IN
      \/ window'[w].shape = (IF shapeChosen[v] = "none" THEN v ELSE shapeChosen[v])
      \/ shapeChosen[v] = "max" /\ Open # {}

\* A view that opens.
LEMMA OpensKeeps ==
  ASSUME WindowsInv, NEW w \in Windows, NEW v \in Views, NEW by \in {"tray", "daemon"},
         OpensView(w, v, by), UNCHANGED shapeChosen, asking' \subseteq asking
  PROVE  WindowsInv' /\ ShapeStays
<1> DEFINE hint == windowSizeHintFor(v)
<1>1. PICK shape \in Shapes(v, by) :
        /\ window[w] = Shut
        /\ window' = [window EXCEPT
                      ![w] = [view |-> v, shape |-> IF hint = "none" THEN shape ELSE hint]]
        /\ placed' = IF hint \in {"none", shape} THEN placed ELSE [placed EXCEPT ![v] = hint]
  BY DEF OpensView, applyWindowSizeHint
<1>2. /\ placed \in [Views -> Usable \cup {"none", "sliver", "flat"}] /\ PlacedWell(v)
      /\ window \in [Windows -> ViewWindows \cup {Shut}] /\ shapeChosen[v] \in {"none", "mine", "max"}
  BY DEF WindowsInv
<1>3. \/ placed[v] = "max" /\ hint = "none" /\ shapeChosen[v] = "max"
      \/ /\ placed[v] = "mine" /\ hint = "mine" /\ shapeChosen[v] = "mine"
      \/ /\ shapeChosen[v] = "none" /\ hint = v
  BY <1>2 DEF windowSizeHintFor, PlacedWell, Usable, Views
<1>4. hint = "none" => \/ Open # {} /\ shape \in Usable
                       \/ Open = {} /\ shape = "max"
  <2>1. ASSUME hint = "none", Open # {} PROVE shape \in Usable
    BY <2>1, OpenWindows DEF Shapes, Open
  <2>2. ASSUME hint = "none", Open = {} PROVE shape = "max"
    <3>1. placed[v] = "max"
      BY <1>3, <2>2 DEF Views
    <3> QED BY <2>2, <3>1 DEF Shapes, windowSizeArg, remembered_placement, hasRememberedBounds, Usable
  <2> QED BY <2>1, <2>2
<1> DEFINE got == IF hint = "none" THEN shape ELSE hint
<1>5. got \in Usable /\ (\/ got = (IF shapeChosen[v] = "none" THEN v ELSE shapeChosen[v])
                         \/ shapeChosen[v] = "max" /\ Open # {})
  BY <1>3, <1>4 DEF Usable, Views
<1>6. placed' \in [Views -> Usable \cup {"none", "sliver", "flat"}] /\ PlacedWell(v)'
      /\ \A u \in Views : u # v => placed'[u] = placed[u]
  <2>1. CASE placed' = placed
    BY <1>2, <2>1 DEF PlacedWell
  <2>2. CASE hint # "none" /\ placed' = [placed EXCEPT ![v] = hint]
    <3>1. hint \in Usable
      BY <1>3, <2>2 DEF Usable, Views
    <3>2. placed'[v] = hint /\ placed' \in [Views -> Usable \cup {"none", "sliver", "flat"}]
          /\ \A u \in Views : u # v => placed'[u] = placed[u]
      BY <1>2, <2>2, <3>1
    <3> QED BY <1>3, <2>2, <3>2 DEF PlacedWell
  <2> QED BY <1>1, <2>1, <2>2
<1>7. \A u \in Views : PlacedWell(u)'
  <2>1. ASSUME NEW u \in Views, u # v PROVE PlacedWell(u)'
    BY <1>6, <2>1 DEF PlacedWell, WindowsInv
  <2> QED BY <1>6, <2>1
<1> HIDE DEF hint, got
<1>8. /\ window' = [window EXCEPT ![w] = [view |-> v, shape |-> got]]
      /\ [view |-> v, shape |-> got] \in ViewWindows
  BY <1>1, <1>5 DEF ViewWindows, got
<1>9. /\ window' \in [Windows -> ViewWindows \cup {Shut}]
      /\ window'[w] = [view |-> v, shape |-> got]
      /\ \A u \in Windows : u # w => window'[u] = window[u]
  BY <1>2, <1>8
<1>10. asking' \subseteq Open'
  <2>1. \A u \in Open : u \in Windows /\ window'[u] # Shut
    BY <1>1, <1>9 DEF Open
  <2> QED BY <2>1 DEF WindowsInv, Open
<1>11. WindowsInv'
  BY <1>6, <1>7, <1>9, <1>10 DEF WindowsInv
<1>12. ShapeStays
  <2>1. ASSUME NEW u \in Windows, window[u] = Shut, window'[u] # Shut
        PROVE  \/ window'[u].shape = (IF shapeChosen[window'[u].view] = "none" THEN window'[u].view
                                      ELSE shapeChosen[window'[u].view])
               \/ shapeChosen[window'[u].view] = "max" /\ Open # {}
    <3>1. u = w
      BY <1>9, <2>1
    <3>2. window'[u].view = v /\ window'[u].shape = got
      BY <1>9, <3>1
    <3> QED BY <1>5, <3>2
  <2> QED BY <2>1 DEF ShapeStays
<1> QED BY <1>11, <1>12

\* A step that opens no window.
LEMMA NothingOpens ==
  ASSUME UNCHANGED window PROVE ShapeStays
BY DEF ShapeStays

AwGoes == AwInv' /\ ShapeStays

\* Windows that are opened, focused, shaped by the user and closed.
LEMMA WindowsSteps ==
  ASSUME AwInv,
         \E w \in Windows :
           \/ open_ui(w) \/ openFocus(w) \/ openDashboard(w) \/ Opened(w) \/ Shuts(w)
           \/ \E shape \in {"mine", "max"} : Shaped(w, shape)
  PROVE  AwGoes
<1>0. WindowsInv /\ PanelsInv /\ Views = {"dashboard", "focus"}
  BY DEF AwInv, Views
<1>1. PanelsInv'
  <2>1. UNCHANGED panelVars
    BY DEF open_ui, openFocus, openDashboard, Opened, Shuts, Shaped
  <2> QED BY <1>0, <2>1 DEF PanelsInv, panelVars
<1>2. ASSUME NEW w \in Windows, NEW v \in Views, NEW by \in {"tray", "daemon"}, OpensView(w, v, by),
             UNCHANGED shapeChosen, asking' \subseteq asking
      PROVE  AwGoes
  BY <1>0, <1>1, <1>2, OpensKeeps DEF AwGoes, AwInv
<1>3. ASSUME NEW w \in Windows, open_ui(w) \/ openFocus(w) PROVE AwGoes
  BY <1>0, <1>2, <1>3 DEF open_ui, openFocus
<1>4. ASSUME NEW w \in Windows, openDashboard(w) PROVE AwGoes
  <2>1. /\ window[w].view = "focus" /\ asking' = asking \cup {w}
        /\ UNCHANGED <<window, placed, shapeChosen>>
    BY <1>4 DEF openDashboard
  <2>2. window[w] # Shut
    BY <2>1 DEF Shut
  <2>3. WindowsInv'
    BY <1>0, <2>1, <2>2 DEF WindowsInv, PlacedWell, Open
  <2> QED BY <1>1, <2>1, <2>3, NothingOpens DEF AwGoes, AwInv
<1>5. ASSUME NEW w \in Windows, Opened(w) PROVE AwGoes
  <2>1. /\ asking' \subseteq asking /\ UNCHANGED shapeChosen
        /\ \/ \E x \in Windows : OpensView(x, "dashboard", "daemon")
           \/ UNCHANGED <<window, placed>>
    BY <1>5 DEF Opened
  <2>2. ASSUME UNCHANGED <<window, placed>> PROVE AwGoes
    <3>1. WindowsInv'
      BY <1>0, <2>1, <2>2 DEF WindowsInv, PlacedWell, Open
    <3> QED BY <1>1, <2>2, <3>1, NothingOpens DEF AwGoes, AwInv
  <2> QED BY <1>0, <1>2, <2>1, <2>2
<1>6. ASSUME NEW w \in Windows, Shuts(w) PROVE AwGoes
  <2>1. /\ window' = [window EXCEPT ![w] = Shut] /\ asking' = asking \ {w}
        /\ UNCHANGED <<placed, shapeChosen>>
    BY <1>6 DEF Shuts
  <2>2. /\ window' \in [Windows -> ViewWindows \cup {Shut}] /\ window'[w] = Shut
        /\ \A u \in Windows : u # w => window'[u] = window[u]
    BY <1>0, <2>1 DEF WindowsInv
  <2>3. asking' \subseteq Open'
    BY <1>0, <2>1, <2>2 DEF WindowsInv, Open
  <2>4. WindowsInv'
    BY <1>0, <2>1, <2>2, <2>3 DEF WindowsInv, PlacedWell
  <2>5. ShapeStays
    BY <2>2 DEF ShapeStays
  <2> QED BY <1>1, <2>4, <2>5 DEF AwGoes, AwInv
<1>7. ASSUME NEW w \in Windows, NEW shape \in {"mine", "max"}, Shaped(w, shape) PROVE AwGoes
  <2> DEFINE v == window[w].view
  <2>1. /\ window[w] # Shut /\ window' = [window EXCEPT ![w] = [window[w] EXCEPT !.shape = shape]]
        /\ placed' = [placed EXCEPT ![v] = shape] /\ shapeChosen' = [shapeChosen EXCEPT ![v] = shape]
        /\ UNCHANGED asking
    BY <1>7 DEF Shaped
  <2>2. window[w] \in ViewWindows /\ v \in Views
    BY <1>0, <2>1, OpenWindows
  <2>3. [window[w] EXCEPT !.shape = shape] \in ViewWindows
    BY <2>2 DEF ViewWindows, Usable
  <2> HIDE DEF v
  <2>4. /\ window' \in [Windows -> ViewWindows \cup {Shut}] /\ window'[w] \in ViewWindows
        /\ \A u \in Windows : u # w => window'[u] = window[u]
    BY <1>0, <2>1, <2>3 DEF WindowsInv
  <2>5. \A u \in Windows : window[u] = Shut <=> window'[u] = Shut
    BY <2>1, <2>4, ShutIsNoView
  <2>6. /\ placed' \in [Views -> Usable \cup {"none", "sliver", "flat"}]
        /\ shapeChosen' \in [Views -> {"none", "mine", "max"}]
        /\ placed'[v] = shape /\ shapeChosen'[v] = shape
        /\ \A u \in Views : u # v => placed'[u] = placed[u] /\ shapeChosen'[u] = shapeChosen[u]
    BY <1>0, <2>1, <2>2 DEF WindowsInv, Usable
  <2>7. \A u \in Views : PlacedWell(u)'
    <3>1. ASSUME NEW u \in Views PROVE PlacedWell(u)'
      <4>1. CASE u = v
        BY <2>6, <4>1 DEF PlacedWell
      <4>2. CASE u # v
        BY <1>0, <2>6, <4>2 DEF PlacedWell, WindowsInv
      <4> QED BY <4>1, <4>2
    <3> QED BY <3>1
  <2>8. WindowsInv'
    BY <1>0, <2>1, <2>4, <2>5, <2>6, <2>7 DEF WindowsInv, Open
  <2> QED BY <1>1, <2>5, <2>8 DEF AwGoes, AwInv, ShapeStays
<1> QED BY <1>3, <1>4, <1>5, <1>6, <1>7

\* A placement that Chromium left behind and no user chose.
LEMMA JunkKeeps ==
  ASSUME AwInv, NEW v \in Views, NEW rect \in {"sliver", "flat"}, Junk(v, rect) PROVE AwGoes
<1>1. /\ placed' = [placed EXCEPT ![v] = rect] /\ shapeChosen' = [shapeChosen EXCEPT ![v] = "none"]
      /\ UNCHANGED <<window, panelVars, asking>>
  BY DEF Junk
<1>2. /\ placed' \in [Views -> Usable \cup {"none", "sliver", "flat"}]
      /\ shapeChosen' \in [Views -> {"none", "mine", "max"}]
      /\ placed'[v] = rect /\ shapeChosen'[v] = "none"
      /\ \A u \in Views : u # v => placed'[u] = placed[u] /\ shapeChosen'[u] = shapeChosen[u]
  BY <1>1 DEF AwInv, WindowsInv
<1>3. \A u \in Views : PlacedWell(u)'
  <2>1. ASSUME NEW u \in Views PROVE PlacedWell(u)'
    <3>1. CASE u = v
      BY <1>2, <3>1 DEF PlacedWell
    <3>2. CASE u # v
      BY <1>2, <3>2 DEF PlacedWell, AwInv, WindowsInv
    <3> QED BY <3>1, <3>2
  <2> QED BY <2>1
<1>4. WindowsInv'
  BY <1>1, <1>2, <1>3 DEF AwInv, WindowsInv, Open
<1>5. PanelsInv'
  BY <1>1 DEF AwInv, PanelsInv, panelVars
<1> QED BY <1>1, <1>4, <1>5, NothingOpens DEF AwGoes, AwInv

\* The settings panels: loaded, touched, saved, and the window that comes up then.
LEMMA PanelsSteps ==
  ASSUME AwInv, NEW p \in Panels,
         \/ Loads(p) \/ Loaded(p) \/ Hydrates(p) \/ Touches(p) \/ savePanel(p) \/ Pops(p) \/ Leaves(p)
  PROVE  AwGoes
<1>0. WindowsInv /\ PanelsInv
  BY DEF AwInv
<1>1. ASSUME UNCHANGED <<window, placed, shapeChosen, asking>>, PanelsInv' PROVE AwGoes
  <2>1. WindowsInv'
    BY <1>0, <1>1 DEF WindowsInv, PlacedWell, Open
  <2> QED BY <1>1, <2>1, NothingOpens DEF AwGoes, AwInv
<1>2. CASE Loads(p)
  <2>1. PanelsInv'
    BY <1>0, <1>2 DEF PanelsInv, Loads, PanelStates
  <2> QED BY <1>1, <1>2, <2>1 DEF Loads
<1>3. CASE Loaded(p)
  <2>1. PanelsInv'
    BY <1>0, <1>3 DEF PanelsInv, Loaded, PanelStates
  <2> QED BY <1>1, <1>3, <2>1 DEF Loaded
<1>4. CASE Hydrates(p)
  <2>1. PanelsInv'
    BY <1>0, <1>4 DEF PanelsInv, Hydrates
  <2> QED BY <1>1, <1>4, <2>1 DEF Hydrates
<1>5. CASE Touches(p)
  <2>1. PanelsInv'
    BY <1>0, <1>5 DEF PanelsInv, Touches
  <2> QED BY <1>1, <1>5, <2>1 DEF Touches
<1>6. CASE savePanel(p)
  <2>1. PanelsInv'
    BY <1>0, <1>6 DEF PanelsInv, savePanel, turningPortableOn, PanelStates
  <2> QED BY <1>1, <1>6, <2>1 DEF savePanel
<1>7. CASE Pops(p)
  <2>1. PanelsInv'
    BY <1>0, <1>7 DEF PanelsInv, Pops, PanelStates
  <2>2. CASE UNCHANGED <<window, placed>>
    BY <1>1, <1>7, <2>1, <2>2 DEF Pops
  <2>3. ASSUME NEW w \in Windows, OpensView(w, "dashboard", "daemon") PROVE AwGoes
    <3>1. "dashboard" \in Views /\ UNCHANGED shapeChosen /\ asking' \subseteq asking
      BY <1>7 DEF Pops, Views
    <3> QED BY <1>0, <2>1, <2>3, <3>1, OpensKeeps DEF AwGoes, AwInv
  <2> QED BY <1>7, <2>2, <2>3 DEF Pops
<1>8. CASE Leaves(p)
  <2>1. PanelsInv'
    BY <1>0, <1>8 DEF PanelsInv, Leaves, PanelStates
  <2> QED BY <1>1, <1>8, <2>1 DEF Leaves
<1> QED BY <1>2, <1>3, <1>4, <1>5, <1>6, <1>7, <1>8

\* So every step of the windows and the panels.
LEMMA AwStep == ASSUME AwInv, [AwNext]_awVars PROVE AwGoes
<1>1. CASE UNCHANGED awVars
  BY <1>1 DEF awVars, AwInv, WindowsInv, PanelsInv, PlacedWell, Open, AwGoes, ShapeStays
<1>2. CASE AwNext
  BY <1>2, WindowsSteps, JunkKeeps, PanelsSteps DEF AwNext
<1> QED BY <1>1, <1>2

\* So a window comes up only for a mode that was turned on.
LEMMA AwInvMeaning == AwInv => AwTypeOK /\ PopsOnlyWhenTurned
<1> SUFFICES ASSUME AwInv PROVE AwTypeOK /\ PopsOnlyWhenTurned
  OBVIOUS
<1>1. \A w \in Open : window[w].view \in Views /\ window[w].shape \in Usable
  BY OpenWindows DEF AwInv, Open
<1> QED BY <1>1 DEF AwInv, WindowsInv, PanelsInv, PanelStates, AwTypeOK, PopsOnlyWhenTurned

---------------------------------------------------------------------------------------
(* ComposePrepare. From the probe of the ports on, every service of the block that no one else
   altered is up and well, or completed, and answered on what it publishes. *)

CStates == {"none", "runs", "zero", "died"}
HStates == {"none", "starting", "healthy", "unhealthy"}
CSteps == {"idle", "config", "list", "up", "health", "ports", "ready", "failed"}

BoxInv ==
  /\ container \in [Service -> CStates] /\ health \in [Service -> HStates] /\ serves \subseteq Service
  /\ \A s \in Service : ~Runs(s) => s \notin serves /\ health[s] = "none"
RunInv ==
  /\ block.services \subseteq Service
  /\ prepareAt \in CSteps /\ before \subseteq Service /\ started \subseteq Service
  /\ before \cap theirs = {} /\ started \cap theirs = {}
  /\ prepareAt \in {"idle", "config", "list", "up"} => started = {}
WellNow(s) ==
  \/ Completed(s)
  \/ /\ Runs(s) /\ s \in liveServices /\ health[s] \in {"none", "healthy"}
     /\ s \in answered => s \in serves
PortInv ==
  /\ answered \subseteq Service /\ liveServices \subseteq Service
  /\ prepareAt \in {"idle", "config", "list", "up", "health"} => answered = {}
  /\ prepareAt \in {"ports", "ready"} => \A s \in block.services \ altered : WellNow(s)
  /\ prepareAt = "ready" => liveServices \cap Publishers \subseteq answered /\ composeEnv = connectionEnv
CpInv == BoxInv /\ RunInv /\ PortInv

\* Before a process with a compose block starts.
LEMMA CpInvInit == CpInit => CpInv
<1> SUFFICES ASSUME CpInit PROVE CpInv OBVIOUS
<1>1. BoxInv
  <2>1. Publishers \subseteq Service BY ComposePrepareAssumption
  <2> QED BY <2>1 DEF CpInit, BoxInv, CStates, HStates, Runs
<1>2. RunInv BY DEF CpInit, RunInv, CSteps
<1>3. PortInv BY DEF CpInit, PortInv
<1> QED BY <1>1, <1>2, <1>3 DEF CpInv

\* Containers that go up.
LEMMA UpKeeps ==
  ASSUME BoxInv, NEW S \in SUBSET Service, GoUp(S) PROVE BoxInv'
<1>1. container' \in [Service -> CStates] BY DEF BoxInv, GoUp, CStates
<1>2. health' \in [Service -> HStates] BY DEF BoxInv, GoUp, HStates
<1>3. ASSUME NEW s \in Service, ~Runs(s)' PROVE s \notin serves' /\ health'[s] = "none"
  <2>1. s \notin S /\ container'[s] = container[s] BY <1>3 DEF GoUp, Runs
  <2>2. health'[s] = health[s] /\ serves' = serves BY <2>1 DEF GoUp
  <2> QED BY <1>3, <2>1, <2>2 DEF BoxInv, Runs
<1> QED BY <1>1, <1>2, <1>3 DEF BoxInv, GoUp

\* Containers that end.
LEMMA StackStopKeeps ==
  ASSUME BoxInv, NEW S \in SUBSET Service, NEW how \in {"zero", "died"}, StoppedAs(S, how)
  PROVE  BoxInv'
<1>1. container' \in [Service -> CStates] BY DEF BoxInv, StoppedAs, CStates
<1>2. health' \in [Service -> HStates] BY DEF BoxInv, StoppedAs, HStates
<1>3. ASSUME NEW s \in Service, ~Runs(s)' PROVE s \notin serves' /\ health'[s] = "none"
  <2>1. CASE s \in S BY <2>1 DEF StoppedAs
  <2>2. CASE s \notin S
    <3>1. container'[s] = container[s] /\ health'[s] = health[s] BY <2>2 DEF StoppedAs
    <3> QED BY <1>3, <3>1 DEF BoxInv, Runs, StoppedAs
  <2> QED BY <2>1, <2>2
<1> QED BY <1>1, <1>2, <1>3 DEF BoxInv, StoppedAs

\* What containers do by themselves; those of others count as altered.
LEMMA ContainersKeep ==
  ASSUME CpInv, NEW s \in Service, Containers(s) PROVE CpInv'
<1> USE DEF CpInv
<1>0. /\ UNCHANGED <<block, prepareAt, before, liveServices, answered, started, composeEnv>>
      BY DEF Containers, runVars
<1>1. BoxInv' /\ theirs' \subseteq theirs /\ altered \subseteq altered'
      /\ (\A t \in Service : Runs(t) /\ t \notin altered' => 
             \/ Completed(t)'
             \/ /\ Runs(t)' /\ (t \in serves => t \in serves')
                /\ health[t] \in {"none", "healthy"} => health'[t] \in {"none", "healthy"})
      /\ (\A t \in Service : Completed(t) /\ t \notin altered' => Completed(t)')
  <2>1. CASE Passes(s)
    <3>1. health' = [health EXCEPT ![s] = "healthy"] /\ Runs(s)
          /\ UNCHANGED <<container, serves, theirs, altered>> BY <2>1 DEF Passes
    <3>2. health' \in [Service -> HStates] BY <3>1 DEF BoxInv, HStates
    <3>3. \A t \in Service : health'[t] = IF t = s THEN "healthy" ELSE health[t] BY <3>1 DEF BoxInv
    <3>4. BoxInv' BY <3>1, <3>2, <3>3 DEF BoxInv, Runs
    <3> QED BY <3>1, <3>3, <3>4 DEF Runs, Completed
  <2>2. CASE Serves(s)
    <3>1. serves' = serves \cup {s} /\ Runs(s) /\ UNCHANGED <<container, health, theirs, altered>>
          BY <2>2 DEF Serves
    <3>2. BoxInv' BY <3>1 DEF BoxInv, Runs
    <3> QED BY <3>1, <3>2 DEF Runs, Completed
  <2>3. CASE JobEnds(s)
    <3>1. BoxInv' BY <2>3, StackStopKeeps DEF JobEnds
    <3>2. container'[s] = "zero" BY <2>3 DEF JobEnds, StoppedAs
    <3>3. \A t \in Service \ {s} : container'[t] = container[t] /\ health'[t] = health[t]
                                  /\ (t \in serves => t \in serves') BY <2>3 DEF JobEnds, StoppedAs
    <3>4. theirs' \subseteq theirs /\ altered' = altered /\ Runs(s) BY <2>3 DEF JobEnds
    <3> QED BY <3>1, <3>2, <3>3, <3>4 DEF Runs, Completed
  <2>4. CASE Ails(s)
    <3>1. health' = [health EXCEPT ![s] = "unhealthy"] /\ Runs(s) /\ altered' = altered \cup {s}
          /\ UNCHANGED <<container, serves, theirs>> BY <2>4 DEF Ails
    <3>2. health' \in [Service -> HStates] BY <3>1 DEF BoxInv, HStates
    <3>3. \A t \in Service : health'[t] = IF t = s THEN "unhealthy" ELSE health[t] BY <3>1 DEF BoxInv
    <3>4. BoxInv' BY <3>1, <3>2, <3>3 DEF BoxInv, Runs
    <3> QED BY <3>1, <3>3, <3>4 DEF Runs, Completed
  <2>5. CASE Exits(s)
    <3>1. PICK how \in {"zero", "died"} : StoppedAs({s}, how) BY <2>5 DEF Exits
    <3>2. BoxInv' BY <3>1, StackStopKeeps
    <3>3. \A t \in Service \ {s} : container'[t] = container[t] /\ health'[t] = health[t]
                                  /\ (t \in serves => t \in serves') BY <3>1 DEF StoppedAs
    <3>4. theirs' \subseteq theirs /\ altered' = altered \cup {s} BY <2>5 DEF Exits
    <3> QED BY <3>2, <3>3, <3>4 DEF Runs, Completed
  <2>6. CASE UserUps(s)
    <3>1. GoUp({s}) /\ altered' = altered \cup {s} /\ theirs' = theirs BY <2>6 DEF UserUps
    <3>2. BoxInv' BY <3>1, UpKeeps
    <3>3. \A t \in Service \ {s} : container'[t] = container[t] /\ health'[t] = health[t]
                                  /\ (t \in serves => t \in serves') BY <3>1 DEF GoUp
    <3> QED BY <3>1, <3>2, <3>3 DEF Runs, Completed
  <2> QED BY <2>1, <2>2, <2>3, <2>4, <2>5, <2>6 DEF Containers
<1>2. RunInv' BY <1>0, <1>1 DEF RunInv
<1>3. ASSUME prepareAt \in {"ports", "ready"}, NEW t \in block.services \ altered' PROVE WellNow(t)'
  <2>1. t \in Service /\ WellNow(t) BY <1>1, <1>3 DEF RunInv, PortInv
  <2>2. CASE Completed(t) BY <1>1, <1>3, <2>1, <2>2 DEF WellNow
  <2>3. CASE ~Completed(t)
    <3>1. Runs(t) /\ t \in liveServices /\ health[t] \in {"none", "healthy"}
          /\ (t \in answered => t \in serves) BY <2>1, <2>3 DEF WellNow
    <3> QED BY <1>0, <1>1, <1>3, <2>1, <3>1 DEF WellNow
  <2> QED BY <2>2, <2>3
<1>4. connectionEnv' = connectionEnv BY <1>0 DEF connectionEnv
<1>5. PortInv' BY <1>0, <1>3, <1>4 DEF PortInv
<1> QED BY <1>1, <1>2, <1>5

\* So each step of the preparation, and each container beside it.
LEMMA CpInvInductive == CpInv /\ [CpNext]_cpVars => CpInv'
<1> SUFFICES ASSUME CpInv, [CpNext]_cpVars PROVE CpInv' OBVIOUS
<1> USE DEF CpInv
<1>1. CASE Prepare \/ DockerFails \/ loadComposeConfig
  <2>1. /\ UNCHANGED <<block, boxVars, runVars, seenVars>>
        /\ prepareAt' \in {"config", "failed", "list"}
        /\ prepareAt' = "config" => prepareAt = "idle"
        /\ prepareAt' = "list" => prepareAt = "config"
        BY <1>1 DEF Prepare, DockerFails, loadComposeConfig
  <2>2. UNCHANGED <<block, container, health, serves, before, liveServices, answered, started, composeEnv, theirs, altered>>
        BY <2>1 DEF boxVars, runVars, seenVars
  <2>3. BoxInv' BY <2>2 DEF BoxInv, Runs
  <2>4. RunInv' BY <2>1, <2>2 DEF RunInv, CSteps
  <2>5. PortInv' BY <2>1, <2>2 DEF PortInv
  <2> QED BY <2>3, <2>4, <2>5
<1>2. CASE listComposeServices
  <2>1. UNCHANGED <<block, container, health, serves, answered, liveServices, started>> /\ prepareAt = "list" /\ prepareAt' = "up"
        BY <1>2 DEF listComposeServices, boxVars
  <2>2. before' \subseteq Service /\ before' \cap theirs' = {} BY <1>2 DEF listComposeServices, RunInv, Down
  <2>3. BoxInv' BY <2>1 DEF BoxInv, Runs
  <2>4. RunInv' BY <2>1, <2>2 DEF RunInv, CSteps
  <2>5. PortInv' BY <2>1 DEF PortInv
  <2> QED BY <2>3, <2>4, <2>5
<1>3. CASE upWantedServices
  <2>1. UNCHANGED <<block, before, liveServices, answered, theirs, altered>> /\ prepareAt = "up"
        BY <1>3 DEF upWantedServices, seenVars
  <2>2. prepareAt' \in {"health", "failed"} /\ started' \in {started, before} BY <1>3 DEF upWantedServices, NotRunning
  <2>3. BoxInv'
    <3>1. CASE UNCHANGED boxVars BY <3>1 DEF boxVars, BoxInv, Runs
    <3>2. CASE ~UNCHANGED boxVars
      <4>1. \E S \in SUBSET block.services : GoUp(S) BY <1>3, <3>2 DEF upWantedServices
      <4> QED BY <4>1, UpKeeps DEF RunInv
    <3> QED BY <3>1, <3>2
  <2>4. RunInv' BY <2>1, <2>2 DEF RunInv, CSteps
  <2>5. PortInv' BY <2>1, <2>2 DEF PortInv
  <2> QED BY <2>3, <2>4, <2>5
<1>4. CASE waitForHealthy
  <2>1. UNCHANGED <<block, container, health, serves, before, answered, started, theirs>> /\ prepareAt = "health" /\ altered' = {}
        BY <1>4 DEF waitForHealthy, boxVars
  <2>2. prepareAt' \in {"health", "failed", "ports"} /\ liveServices' \subseteq Service
        BY <1>4 DEF waitForHealthy, RunInv, PortInv
  <2>3. BoxInv' BY <2>1 DEF BoxInv, Runs
  <2>4. RunInv' BY <2>1, <2>2 DEF RunInv, CSteps
  <2>5. ASSUME prepareAt' = "ports", NEW s \in block.services PROVE WellNow(s)'
    <3>1. Dropped = {} /\ ~healthPending(s) /\ liveServices' = {r \in block.services : Runs(r)}
          BY <1>4, <2>5 DEF waitForHealthy
    <3>2. Runs(s) \/ Completed(s) BY <3>1 DEF Dropped, Down
    <3>3. s \in Service /\ answered = {} BY <2>1 DEF RunInv, PortInv
    <3>4. health[s] \in {"none", "healthy"} BY <3>1, <3>3 DEF BoxInv, HStates, healthPending
    <3> QED BY <2>1, <3>1, <3>2, <3>3, <3>4 DEF WellNow, Runs, Completed
  <2>6. PortInv' BY <2>1, <2>2, <2>5 DEF PortInv
  <2> QED BY <2>3, <2>4, <2>6
<1>5. CASE waitForPort
  <2>1. UNCHANGED <<block, container, health, serves, before, liveServices, started, theirs, altered>> /\ prepareAt = "ports"
        BY <1>5 DEF waitForPort, boxVars, seenVars
  <2>2. prepareAt' \in {"failed", "ports"} /\ answered' \subseteq answered \cup serves
        BY <1>5 DEF waitForPort, composePortReady
  <2>3. BoxInv' BY <2>1 DEF BoxInv, Runs
  <2>4. RunInv' BY <2>1, <2>2 DEF RunInv, CSteps
  <2>5. ASSUME NEW s \in block.services \ altered PROVE WellNow(s)'
    <3>1. WellNow(s) BY <2>1 DEF PortInv
    <3> QED BY <2>1, <2>2, <3>1 DEF WellNow, Runs, Completed
  <2>6. PortInv' BY <2>1, <2>2, <2>5 DEF PortInv, BoxInv
  <2> QED BY <2>3, <2>4, <2>6
<1>6. CASE PrepareEnds
  <2>1. UNCHANGED <<block, container, health, serves, before, liveServices, answered, started, theirs, altered>>
        /\ prepareAt = "ports" /\ prepareAt' = "ready"
        BY <1>6 DEF PrepareEnds, boxVars, seenVars
  <2>2. NextPort = {} /\ composeEnv' = connectionEnv BY <1>6 DEF PrepareEnds
  <2>3. BoxInv' BY <2>1 DEF BoxInv, Runs
  <2>4. RunInv' BY <2>1 DEF RunInv, CSteps
  <2>5. ASSUME NEW s \in block.services \ altered PROVE WellNow(s)'
    <3>1. WellNow(s) BY <2>1 DEF PortInv
    <3> QED BY <2>1, <3>1 DEF WellNow, Runs, Completed
  <2>6. connectionEnv' = connectionEnv BY <2>1 DEF connectionEnv
  <2>7. PortInv' BY <2>1, <2>2, <2>5, <2>6 DEF PortInv, NextPort
  <2> QED BY <2>3, <2>4, <2>7
<1>7. CASE stopComposeServices
  <2>1. block' = block /\ prepareAt' = "idle" /\ before' = {} /\ liveServices' = {} /\ answered' = {} /\ started' = {} /\ theirs' = {}
        BY <1>7 DEF stopComposeServices
  <2>2. BoxInv'
    <3>1. CASE UNCHANGED boxVars BY <3>1 DEF boxVars, BoxInv, Runs
    <3>2. CASE ~UNCHANGED boxVars
      <4>1. \E how \in {"zero", "died"} : StoppedAs(started, how) BY <1>7, <3>2 DEF stopComposeServices
      <4> QED BY <4>1, StackStopKeeps DEF RunInv
    <3> QED BY <3>1, <3>2
  <2>3. RunInv' BY <2>1 DEF RunInv, CSteps
  <2>4. PortInv' BY <2>1 DEF PortInv
  <2> QED BY <2>2, <2>3, <2>4
<1>8. CASE \E s \in Service : Containers(s) BY <1>8, ContainersKeep
<1>9. CASE UNCHANGED cpVars
  <2>1. UNCHANGED <<block, prepareAt, container, health, serves, before, liveServices, answered, started, composeEnv, theirs, altered>>
        BY <1>9 DEF cpVars, boxVars, runVars, seenVars
  <2>2. BoxInv' BY <2>1 DEF BoxInv, Runs
  <2>3. RunInv' BY <2>1 DEF RunInv
  <2>4. connectionEnv' = connectionEnv BY <2>1 DEF connectionEnv
  <2>5. ASSUME NEW s PROVE WellNow(s)' <=> WellNow(s) BY <2>1 DEF WellNow, Runs, Completed
  <2>6. PortInv' BY <2>1, <2>4, <2>5 DEF PortInv
  <2> QED BY <2>2, <2>3, <2>6
<1> QED BY <1>1, <1>2, <1>3, <1>4, <1>5, <1>6, <1>7, <1>8, <1>9 DEF CpNext

\* The environment names the first published service of its kind.
LEMMA FirstClaims ==
  ASSUME CpInv, prepareAt = "ready", NEW k \in Keys,
         NEW s \in (block.services \cap Publishers) \ altered, Key[s] = k, Runs(s)
  PROVE  composeEnv[k] \in 1..s
<1> DEFINE S == {r \in liveServices \cap Publishers : Key[r] = k}
<1>1. s \in Service /\ WellNow(s) BY DEF CpInv, RunInv, PortInv
<1>2. s \in liveServices BY <1>1 DEF WellNow, Runs, Completed
<1>3. s \in S BY <1>2
<1>4. S \in SUBSET Service BY DEF CpInv, PortInv
<1>5. S \in SUBSET Nat BY <1>4 DEF Service
<1>6. \E r \in S : \A q \in S : r <= q BY <1>3, <1>5, FirstExists
<1>7. Claims(k, S) \in S /\ \A q \in S : Claims(k, S) <= q BY <1>6 DEF Claims
<1>8. composeEnv[k] = Claims(k, S) BY <1>3 DEF CpInv, PortInv, connectionEnv
<1>9. Claims(k, S) <= s /\ Claims(k, S) \in Service BY <1>3, <1>4, <1>7
<1> HIDE DEF S
<1> QED BY <1>1, <1>8, <1>9, ComposePrepareAssumption DEF Service

\* So a stack that is reported ready is.
LEMMA CpInvMeaning == CpInv => CpTypeOK /\ StackIsReady
<1> SUFFICES ASSUME CpInv PROVE CpTypeOK /\ StackIsReady OBVIOUS
<1>1. CpTypeOK BY DEF CpInv, BoxInv, RunInv, PortInv, CpTypeOK, CStates, HStates
<1>2. ASSUME prepareAt = "ready", NEW s \in block.services \ altered
      PROVE  \/ Completed(s)
             \/ /\ Runs(s) /\ health[s] \in {"none", "healthy"}
                /\ s \in Publishers => s \in serves
  <2>1. WellNow(s) BY <1>2 DEF CpInv, PortInv
  <2>2. liveServices \cap Publishers \subseteq answered BY <1>2 DEF CpInv, PortInv
  <2> QED BY <2>1, <2>2 DEF WellNow
<1>3. started \cap theirs = {} BY DEF CpInv, RunInv
<1>4. StackIsReady BY <1>2, <1>3, FirstClaims DEF StackIsReady
<1> QED BY <1>1, <1>4

---------------------------------------------------------------------------------------
(* Telemetry, what the processes use. What was counted for a process is never more than it
   used, and for a tracked one the difference of its last sample and its first. *)

MxInv ==
  /\ births \in 0 .. MaxBirths /\ worked \in 0 .. MaxUse
  /\ parent \in [Pids -> Pids \cup {Nobody, FromBoot}]
  /\ used \in [Pids -> 0 .. worked] /\ last \in [Pids -> -1 .. worked]
  /\ sampled \in [Pids -> Nat] /\ begun \in [Pids -> Int] /\ tracked \in [Pids -> BOOLEAN]
  /\ \A p \in Pids :
        /\ sampled[p] <= used[p] /\ (last[p] # -1 => sampled[p] <= last[p])
        /\ tracked[p] => last[p] # -1 /\ last[p] <= used[p] /\ sampled[p] = last[p] - begun[p]

\* Nothing was sampled.
LEMMA MxInvInit == MxInit => MxInv
BY MetricsAssumption DEF MxInit, MxInv

\* What a sample adds is no more than the process used.
LEMMA DifferenceBounded ==
  ASSUME MxInv, NEW p \in Pids
  PROVE  /\ Difference(p) \in Nat /\ sampled[p] + Difference(p) <= used[p]
         /\ sampled[p] + Difference(p) \in Nat
         /\ tracked[p] => sampled[p] + Difference(p) = used[p] - begun[p]
<1>1. /\ used[p] \in Nat /\ last[p] \in -1 .. worked /\ sampled[p] \in Nat /\ worked \in Nat
      /\ begun[p] \in Int /\ sampled[p] <= used[p] /\ (last[p] # -1 => sampled[p] <= last[p])
      /\ tracked[p] => last[p] # -1 /\ last[p] <= used[p] /\ sampled[p] = last[p] - begun[p]
  BY MetricsAssumption DEF MxInv
<1> QED BY <1>1 DEF Difference

\* So with every birth, end, work and sample.
LEMMA MxInvInductive == MxInv /\ [MxNext]_mxVars => MxInv'
<1> SUFFICES ASSUME MxInv, [MxNext]_mxVars PROVE MxInv'
  OBVIOUS
<1> USE MetricsAssumption
<1>1. ASSUME NEW p \in Pids, Vanishes(p) PROVE MxInv'
  BY <1>1 DEF MxInv, Vanishes, saidVars, mxBounds
<1>2. ASSUME NEW p \in Pids, Works(p) PROVE MxInv'
  BY <1>2 DEF MxInv, Works, saidVars
<1>3. ASSUME NEW p \in Pids, NEW q \in Pids \cup {FromBoot}, Begins(p, q) PROVE MxInv'
  BY <1>3 DEF MxInv, Begins
<1>4. ASSUME NEW roots, NEW listed, sampleWin32Pids(roots, listed) PROVE MxInv'
  <2>1. PICK scanned, read :
        /\ read \subseteq scanned
        /\ last' = [p \in Pids |-> IF p \in read THEN used[p]
                                   ELSE IF p \in Remembered(scanned, read) THEN last[p] ELSE -1]
        /\ sampled' = [p \in Pids |-> IF p \in read THEN sampled[p] + Difference(p) ELSE sampled[p]]
        /\ begun' = [p \in Pids |-> IF p \in read /\ ~tracked[p]
                                    THEN used[p] - sampled'[p] ELSE begun[p]]
        /\ tracked' = [p \in Pids |-> p \in scanned /\ (p \in read \/ tracked[p])]
        /\ UNCHANGED <<parent, used, mxBounds>>
    BY <1>4 DEF sampleWin32Pids
  <2>2. UNCHANGED <<parent, used, births, worked>>
    BY <2>1 DEF mxBounds
  <2>3. sampled' \in [Pids -> Nat]
    BY <2>1, DifferenceBounded DEF MxInv
  <2>4. last' \in [Pids -> -1 .. worked] /\ tracked' \in [Pids -> BOOLEAN]
    BY <2>1 DEF MxInv
  <2>5. begun' \in [Pids -> Int]
    BY <2>1, <2>3 DEF MxInv
  <2>6. ASSUME NEW p \in Pids
        PROVE  /\ sampled'[p] <= used[p] /\ (last'[p] # -1 => sampled'[p] <= last'[p])
               /\ tracked'[p] => /\ last'[p] # -1 /\ last'[p] <= used[p]
                                 /\ sampled'[p] = last'[p] - begun'[p]
    <3>1. /\ used[p] \in 0 .. worked /\ last[p] \in -1 .. worked /\ sampled[p] \in Nat
          /\ begun[p] \in Int /\ worked \in Nat /\ tracked[p] \in BOOLEAN
          /\ sampled[p] <= used[p] /\ (last[p] # -1 => sampled[p] <= last[p])
          /\ tracked[p] => last[p] # -1 /\ last[p] <= used[p] /\ sampled[p] = last[p] - begun[p]
      BY DEF MxInv
    <3>2. CASE p \in read
      <4>1. /\ last'[p] = used[p] /\ sampled'[p] = sampled[p] + Difference(p)
            /\ begun'[p] = IF tracked[p] THEN begun[p] ELSE used[p] - sampled'[p]
        BY <2>1, <3>2
      <4> QED BY <3>1, <4>1, DifferenceBounded
    <3>3. CASE p \notin read
      <4>1. /\ last'[p] \in {last[p], -1} /\ sampled'[p] = sampled[p] /\ begun'[p] = begun[p]
            /\ tracked'[p] => tracked[p] /\ last'[p] = last[p]
        BY <2>1, <3>3 DEF Remembered
      <4> QED BY <3>1, <4>1
    <3> QED BY <3>2, <3>3
  <2> QED BY <2>2, <2>3, <2>4, <2>5, <2>6 DEF MxInv
<1> QED BY <1>1, <1>2, <1>3, <1>4 DEF MxNext, mxVars, MxInv, saidVars, mxBounds

\* So what is counted adds up.
LEMMA MxInvMeaning == MxInv => MxTypeOK /\ UsageAddsUp
BY MetricsAssumption DEF MxInv, MxTypeOK, UsageAddsUp

\* A process's CPU time is counted once, whatever pids are used again (metrics.ts).
THEOREM NoTimeIsSaidTwice == MxSpec => []UsageAddsUp
BY MxInvInit, MxInvInductive, MxInvMeaning, PTL DEF MxSpec

---------------------------------------------------------------------------------------
(* ProjectPages, the panels. Every list, served, pushed or shown, has each project once, and the last list
   on the stream is the daemon's; a project the page lacks is on its way, was hidden by a late
   answer or has a removal that is not done, and a name the page shows was the project's, is
   being given or was put back. *)

PanelNames == {0, 1, 2}
Lists == Seq([id : Named, name : PanelNames])
Single(list) == \A i, j \in DOMAIN list : list[i].id = list[j].id => i = j
Lawful(list) == list \in Lists /\ Single(list)
PanelAsks ==
  [op : {"remove", "update", "refresh"}, id : Named, name : PanelNames, undo : PanelNames,
   place : Nat \ {0}, n : Nat, at : {"way", "done", "refused"}, list : Lists]
Carries(list, names) ==
  Lawful(list) /\ \A i \in DOMAIN list : list[i].name \in names[list[i].id]
Served(list) == Carries(list, had)
LastIs(lists, list) == lists # << >> => lists[Len(lists)] = list

ListInv ==
  /\ Lawful(projects) /\ Lawful(panels) /\ Served(projects)
  /\ pushed \in Seq(Lists) /\ \A k \in DOMAIN pushed : Served(pushed[k])
  /\ LastIs(pushed, projects) /\ had \in [Named -> SUBSET PanelNames]
RequestInv ==
  /\ unsettled \subseteq PanelAsks
  /\ \A r \in unsettled :
       /\ r.op = "update" => r.undo \in had[r.id] \/ r.id \in restored
       /\ r.op = "update" /\ r.at = "done" => r.name \in had[r.id]
       /\ r.op = "refresh" /\ r.at = "done" => Served(r.list)
Excused(id, name, names, back, kept) ==
  \/ name \in names[id] \/ id \in back
  \/ \E r \in kept : r.op = "update" /\ r.id = id /\ r.name = name
Absence(id, coming, late, kept) ==
  \/ coming # << >> \/ id \in late
  \/ \E r \in kept : r.op = "remove" /\ r.id = id /\ r.at # "done"
ShownInv ==
  /\ \A id \in IdsOf(projects) \ IdsOf(panels) : Absence(id, pushed, crossed, unsettled)
  /\ \A i \in DOMAIN panels : Excused(panels[i].id, panels[i].name, had, restored, unsettled)
PanelInv ==
  /\ ListInv /\ RequestInv /\ ShownInv
  /\ doings \in 0 .. MaxAsked /\ others \in 0 .. MaxOthers

\* Where a project is in a list that has it.
LEMMA PlaceIs ==
  ASSUME NEW list \in Lists, NEW id, id \in IdsOf(list)
  PROVE  Place(list, id) \in DOMAIN list /\ Place(list, id) \in Nat \ {0} /\ list[Place(list, id)].id = id
<1>1. \E i \in DOMAIN list : list[i].id = id BY DEF IdsOf
<1>2. DOMAIN list = 1 .. Len(list) /\ Len(list) \in Nat BY DEF Lists
<1> QED BY <1>1, <1>2 DEF Place

\* The two parts a list is cut into.
LEMMA Halves ==
  ASSUME NEW S, NEW s \in Seq(S), NEW a \in 0 .. Len(s), NEW b \in 1 .. Len(s) + 1
  PROVE  /\ SubSeq(s, 1, a) \in Seq(S) /\ Len(SubSeq(s, 1, a)) = a
         /\ \A i \in 1 .. a : SubSeq(s, 1, a)[i] = s[i]
         /\ SubSeq(s, b, Len(s)) \in Seq(S) /\ Len(SubSeq(s, b, Len(s))) = Len(s) - b + 1
         /\ \A i \in 1 .. Len(s) - b + 1 : SubSeq(s, b, Len(s))[i] = s[b + i - 1]
<1>0. Len(s) \in Nat /\ \A i \in 1 .. Len(s) : s[i] \in S OBVIOUS
<1>1. /\ Len(SubSeq(s, 1, a)) = a /\ \A i \in 1 .. a : SubSeq(s, 1, a)[i] = s[i]
      /\ SubSeq(s, 1, a) \in Seq(S)
  <2>1. Len(SubSeq(s, 1, a)) = a BY <1>0
  <2>2. \A i \in 1 .. a : SubSeq(s, 1, a)[i] = s[i] BY <1>0
  <2>3. SubSeq(s, 1, a) \in Seq(S) BY <1>0, SubSeqProperties
  <2> QED BY <2>1, <2>2, <2>3
<1>2. /\ Len(SubSeq(s, b, Len(s))) = Len(s) - b + 1
      /\ \A i \in 1 .. Len(s) - b + 1 : SubSeq(s, b, Len(s))[i] = s[b + i - 1]
      /\ SubSeq(s, b, Len(s)) \in Seq(S)
  <2>1. Len(SubSeq(s, b, Len(s))) = Len(s) - b + 1 BY <1>0, SubSeqProperties
  <2>2. \A i \in 1 .. Len(s) - b + 1 : SubSeq(s, b, Len(s))[i] = s[b + i - 1] BY <1>0, <2>1, SubSeqProperties
  <2>3. SubSeq(s, b, Len(s)) \in Seq(S) BY <1>0, SubSeqProperties
  <2> QED BY <2>1, <2>2, <2>3
<1> QED BY <1>1, <1>2

\* Two lists joined.
LEMMA JoinIs ==
  ASSUME NEW S, NEW s \in Seq(S), NEW t \in Seq(S)
  PROVE  /\ s \o t \in Seq(S) /\ Len(s \o t) = Len(s) + Len(t)
         /\ \A i \in 1 .. Len(s) : (s \o t)[i] = s[i]
         /\ \A i \in Len(s) + 1 .. Len(s) + Len(t) : (s \o t)[i] = t[i - Len(s)]
OBVIOUS

\* A list without one project has the others, in their order.
LEMMA LessIs ==
  ASSUME NEW list, Lawful(list), NEW id
  PROVE  /\ Lawful(Less(list, id)) /\ IdsOf(Less(list, id)) = IdsOf(list) \ {id}
         /\ \A i \in DOMAIN Less(list, id) : \E j \in DOMAIN list : Less(list, id)[i] = list[j]
<1> DEFINE pos == Place(list, id)
           new == Less(list, id)
<1>0. list \in Lists /\ Len(list) \in Nat /\ DOMAIN list = 1 .. Len(list) BY DEF Lawful, Lists
<1>1. CASE id \notin IdsOf(list) BY <1>1, <1>0 DEF Less
<1>2. CASE id \in IdsOf(list)
  <2>1. pos \in 1 .. Len(list) /\ list[pos].id = id BY <1>0, <1>2, PlaceIs
  <2>2. new = SubSeq(list, 1, pos - 1) \o SubSeq(list, pos + 1, Len(list)) BY <1>2 DEF Less
  <2> HIDE DEF pos
  <2>3. /\ new \in Lists /\ Len(new) = Len(list) - 1
        /\ \A i \in 1 .. pos - 1 : new[i] = list[i]
        /\ \A i \in pos .. Len(list) - 1 : new[i] = list[i + 1]
    <3> DEFINE S == [id : Named, name : PanelNames]
               s == SubSeq(list, 1, pos - 1)
               t == SubSeq(list, pos + 1, Len(list))
    <3>1. list \in Seq(S) /\ pos - 1 \in 0 .. Len(list) /\ pos + 1 \in 1 .. Len(list) + 1
          /\ Len(list) - (pos + 1) + 1 = Len(list) - pos
      BY <1>0, <2>1 DEF Lists
    <3> HIDE DEF S
    <3>2. /\ s \in Seq(S) /\ Len(s) = pos - 1 /\ \A i \in 1 .. pos - 1 : s[i] = list[i]
          /\ t \in Seq(S) /\ Len(t) = Len(list) - pos /\ \A i \in 1 .. Len(list) - pos : t[i] = list[pos + 1 + i - 1]
      BY <3>1, Halves
    <3> HIDE DEF s, t
    <3>3. new = s \o t BY <2>2 DEF s, t
    <3>4. /\ new \in Seq(S) /\ Len(new) = Len(list) - 1
          /\ \A i \in 1 .. pos - 1 : new[i] = s[i]
          /\ \A i \in pos .. Len(list) - 1 : new[i] = t[i - (pos - 1)]
      <4>1. /\ s \o t \in Seq(S) /\ Len(s \o t) = Len(s) + Len(t)
            /\ \A i \in 1 .. Len(s) : (s \o t)[i] = s[i]
            /\ \A i \in Len(s) + 1 .. Len(s) + Len(t) : (s \o t)[i] = t[i - Len(s)]
        BY <3>2, JoinIs
      <4>2. Len(s) + Len(t) = Len(list) - 1 /\ Len(s) + 1 = pos BY <1>0, <2>1, <3>2
      <4> QED BY <3>2, <3>3, <4>1, <4>2
    <3>5. ASSUME NEW i \in pos .. Len(list) - 1 PROVE new[i] = list[i + 1]
      <4>1. i - (pos - 1) \in 1 .. Len(list) - pos /\ pos + 1 + (i - (pos - 1)) - 1 = i + 1 BY <1>0, <2>1
      <4> QED BY <3>2, <3>4, <4>1
    <3> QED BY <3>2, <3>4, <3>5 DEF S, Lists
  <2> HIDE DEF new
  <2>4. DOMAIN new = 1 .. Len(list) - 1 BY <2>3, <1>0 DEF Lists
  <2>5. ASSUME NEW i \in DOMAIN new
        PROVE  \E j \in 1 .. Len(list) : new[i] = list[j] /\ j # pos /\ (j = IF i < pos THEN i ELSE i + 1)
    BY <1>0, <2>1, <2>3, <2>4, <2>5
  <2>6. ASSUME NEW j \in 1 .. Len(list), j # pos PROVE \E i \in DOMAIN new : new[i] = list[j]
    <3>1. CASE j < pos BY <3>1, <2>1, <2>3, <2>4, <1>0, <2>6
    <3>2. CASE j > pos
      <4>1. j - 1 \in pos .. Len(list) - 1 /\ (j - 1) + 1 = j BY <3>2, <2>1, <1>0, <2>6
      <4>2. new[j - 1] = list[j] BY <4>1, <2>3
      <4>3. j - 1 \in DOMAIN new BY <4>1, <2>4, <2>1, <1>0
      <4> QED BY <4>2, <4>3
    <3> QED BY <3>1, <3>2, <2>6, <2>1, <1>0
  <2>7. \A i, j \in 1 .. Len(list) : list[i].id = list[j].id => i = j BY <1>0 DEF Lawful, Single
  <2>8. Single(new)
    <3>1. SUFFICES ASSUME NEW i \in DOMAIN new, NEW k \in DOMAIN new, new[i].id = new[k].id PROVE i = k
      BY DEF Single
    <3>2. PICK a \in 1 .. Len(list) : new[i] = list[a] /\ (a = IF i < pos THEN i ELSE i + 1) BY <2>5
    <3>3. PICK b \in 1 .. Len(list) : new[k] = list[b] /\ (b = IF k < pos THEN k ELSE k + 1) BY <2>5
    <3>4. a = b BY <3>1, <3>2, <3>3, <2>7
    <3> QED BY <3>2, <3>3, <3>4, <2>4, <2>1, <1>0
  <2>9. IdsOf(new) \subseteq IdsOf(list) \ {id}
    <3>1. ASSUME NEW i \in DOMAIN new PROVE new[i].id \in IdsOf(list) \ {id}
      BY <2>5, <2>7, <2>1, <1>0 DEF IdsOf
    <3> QED BY <3>1 DEF IdsOf
  <2>10. IdsOf(list) \ {id} \subseteq IdsOf(new)
    <3>1. ASSUME NEW j \in 1 .. Len(list), list[j].id # id PROVE list[j].id \in IdsOf(new)
      BY <3>1, <2>6, <2>1 DEF IdsOf
    <3> QED BY <3>1, <1>0 DEF IdsOf
  <2>11. Lawful(new) BY <2>3, <2>8 DEF Lawful
  <2>12. \A i \in DOMAIN new : \E j \in DOMAIN list : new[i] = list[j]
    <3>1. ASSUME NEW i \in DOMAIN new PROVE \E j \in DOMAIN list : new[i] = list[j]
      <4>1. PICK j \in 1 .. Len(list) : new[i] = list[j] BY <2>5
      <4> QED BY <4>1, <1>0
    <3> QED BY <3>1
  <2>13. IdsOf(new) = IdsOf(list) \ {id} BY <2>9, <2>10
  <2> QED BY <2>11, <2>12, <2>13 DEF new
<1> QED BY <1>1, <1>2

\* A list with one project renamed.
LEMMA WithNameIs ==
  ASSUME NEW list, Lawful(list), NEW id, NEW name \in PanelNames
  PROVE  /\ Lawful(WithName(list, id, name)) /\ IdsOf(WithName(list, id, name)) = IdsOf(list)
         /\ DOMAIN WithName(list, id, name) = DOMAIN list
         /\ \A i \in DOMAIN list :
              /\ WithName(list, id, name)[i].id = list[i].id
              /\ WithName(list, id, name)[i].name = IF list[i].id = id THEN name ELSE list[i].name
<1> DEFINE new == WithName(list, id, name)
<1>0. list \in Lists /\ Len(list) \in Nat /\ DOMAIN list = 1 .. Len(list) /\ \A i \in DOMAIN list : list[i] \in [id : Named, name : PanelNames]
  <2>1. list \in Lists BY DEF Lawful
  <2> DEFINE S == [id : Named, name : PanelNames]
  <2>2. list \in Seq(S) BY <2>1 DEF Lists
  <2> HIDE DEF S
  <2>3. Len(list) \in Nat /\ DOMAIN list = 1 .. Len(list) /\ \A i \in DOMAIN list : list[i] \in S BY <2>2
  <2> QED BY <2>1, <2>3 DEF S
<1>1. DOMAIN new = DOMAIN list
      /\ \A i \in DOMAIN list : new[i] = IF list[i].id = id THEN [list[i] EXCEPT !.name = name] ELSE list[i]
      BY DEF WithName
<1> HIDE DEF new
<1>2. \A i \in DOMAIN list : new[i] \in [id : Named, name : PanelNames] /\ new[i].id = list[i].id
           /\ new[i].name = IF list[i].id = id THEN name ELSE list[i].name
      BY <1>0, <1>1
<1>3. new = [i \in 1 .. Len(list) |-> new[i]]
  BY <1>0 DEF WithName, new
<1>4. new \in Lists BY <1>0, <1>2, <1>3 DEF Lists
<1>5. Single(new) BY <1>1, <1>2 DEF Lawful, Single
<1>6. IdsOf(new) = IdsOf(list) BY <1>1, <1>2 DEF IdsOf
<1> QED BY <1>1, <1>2, <1>4, <1>5, <1>6 DEF Lawful, new

\* A list with a project put back where it was.
LEMMA PutIs ==
  ASSUME Lawful(panels), NEW r \in PanelAsks
  PROVE  /\ Lawful(PutBack(r)) /\ IdsOf(PutBack(r)) = IdsOf(panels) \cup {r.id}
         /\ \A i \in DOMAIN PutBack(r) :
               (\E j \in DOMAIN panels : PutBack(r)[i] = panels[j]) \/ PutBack(r)[i].id = r.id
<1> DEFINE b == IF r.place > Len(panels) THEN Len(panels) ELSE r.place - 1
           e == [id |-> r.id, name |-> r.undo]
           new == PutBack(r)
<1>0. panels \in Lists /\ Len(panels) \in Nat /\ DOMAIN panels = 1 .. Len(panels) BY DEF Lawful, Lists
<1>1. CASE r.id \in IdsOf(panels) BY <1>1, <1>0 DEF PutBack
<1>2. CASE r.id \notin IdsOf(panels)
  <2>1. b \in 0 .. Len(panels) BY <1>0 DEF PanelAsks
  <2>2. e \in [id : Named, name : PanelNames] /\ e.id = r.id BY DEF PanelAsks
  <2>3. new = SubSeq(panels, 1, b) \o << e >> \o SubSeq(panels, b + 1, Len(panels))
    BY <1>2 DEF PutBack, PutAgain
  <2> HIDE DEF b, e, new
  <2>4. /\ new \in Lists /\ Len(new) = Len(panels) + 1
        /\ \A i \in 1 .. b : new[i] = panels[i]
        /\ new[b + 1] = e
        /\ \A i \in b + 2 .. Len(panels) + 1 : new[i] = panels[i - 1]
    <3> DEFINE S == [id : Named, name : PanelNames]
               s == SubSeq(panels, 1, b)
               t == SubSeq(panels, b + 1, Len(panels))
    <3>1. panels \in Seq(S) /\ b + 1 \in 1 .. Len(panels) + 1 /\ e \in S
          /\ Len(panels) - (b + 1) + 1 = Len(panels) - b
      BY <1>0, <2>1, <2>2 DEF Lists
    <3> HIDE DEF S
    <3>2. /\ s \in Seq(S) /\ Len(s) = b /\ \A i \in 1 .. b : s[i] = panels[i]
          /\ t \in Seq(S) /\ Len(t) = Len(panels) - b /\ \A i \in 1 .. Len(panels) - b : t[i] = panels[b + 1 + i - 1]
      <4> DEFINE c == b + 1
      <4>1. c \in 1 .. Len(panels) + 1 BY <3>1
      <4> HIDE DEF c
      <4>2. /\ s \in Seq(S) /\ Len(s) = b /\ \A i \in 1 .. b : s[i] = panels[i]
            /\ SubSeq(panels, c, Len(panels)) \in Seq(S)
            /\ Len(SubSeq(panels, c, Len(panels))) = Len(panels) - c + 1
            /\ \A i \in 1 .. Len(panels) - c + 1 : SubSeq(panels, c, Len(panels))[i] = panels[c + i - 1]
        BY <2>1, <3>1, <4>1, Halves
      <4> QED BY <3>1, <4>2 DEF c
    <3> HIDE DEF s, t
    <3>3. << e >> \in Seq(S) /\ Len(<< e >>) = 1 /\ << e >>[1] = e BY <3>1
    <3>4. /\ s \o << e >> \in Seq(S) /\ Len(s \o << e >>) = b + 1
          /\ \A i \in 1 .. b : (s \o << e >>)[i] = s[i]
          /\ (s \o << e >>)[b + 1] = e
      BY <2>1, <3>2, <3>3, JoinIs
    <3>5. /\ new \in Seq(S) /\ Len(new) = Len(panels) + 1
          /\ \A i \in 1 .. b + 1 : new[i] = (s \o << e >>)[i]
          /\ \A i \in b + 2 .. Len(panels) + 1 : new[i] = t[i - (b + 1)]
      <4>1. new = (s \o << e >>) \o t BY <2>3 DEF s, t
      <4> QED BY <1>0, <2>1, <3>2, <3>4, <4>1, JoinIs
    <3>6. ASSUME NEW i \in b + 2 .. Len(panels) + 1 PROVE new[i] = panels[i - 1]
      <4>1. i - (b + 1) \in 1 .. Len(panels) - b /\ b + 1 + (i - (b + 1)) - 1 = i - 1 BY <1>0, <2>1
      <4> QED BY <3>2, <3>5, <4>1
    <3>7. \A i \in 1 .. b : new[i] = panels[i] BY <2>1, <3>2, <3>4, <3>5
    <3>8. new[b + 1] = e BY <2>1, <3>4, <3>5
    <3> QED BY <3>5, <3>6, <3>7, <3>8 DEF S, Lists
  <2>5. DOMAIN new = 1 .. Len(panels) + 1 BY <2>4, <1>0 DEF Lists
  <2>6. ASSUME NEW i \in DOMAIN new, i # b + 1
        PROVE  \E j \in 1 .. Len(panels) : new[i] = panels[j] /\ (j = IF i <= b THEN i ELSE i - 1)
    <3>1. CASE i <= b BY <1>0, <2>1, <2>4, <2>5, <2>6, <3>1
    <3>2. CASE i > b
      <4>1. i \in b + 2 .. Len(panels) + 1 /\ i - 1 \in 1 .. Len(panels) BY <1>0, <2>1, <2>5, <2>6, <3>2
      <4>2. new[i] = panels[i - 1] BY <2>4, <4>1
      <4> QED BY <3>2, <4>1, <4>2, <2>1
    <3> QED BY <3>1, <3>2, <2>1, <2>5, <1>0
  <2>7. ASSUME NEW j \in 1 .. Len(panels) PROVE \E i \in DOMAIN new : new[i] = panels[j]
    <3>1. CASE j <= b BY <3>1, <2>1, <2>4, <2>5, <1>0
    <3>2. CASE j > b
      <4>1. j + 1 \in b + 2 .. Len(panels) + 1 /\ (j + 1) - 1 = j BY <3>2, <2>1, <1>0
      <4>2. new[j + 1] = panels[j] BY <4>1, <2>4
      <4>3. j + 1 \in DOMAIN new BY <4>1, <2>5, <2>1, <1>0
      <4> QED BY <4>2, <4>3
    <3> QED BY <3>1, <3>2, <2>1, <1>0
  <2>8. \A i, j \in 1 .. Len(panels) : panels[i].id = panels[j].id => i = j BY <1>0 DEF Lawful, Single
  <2>9. \A j \in 1 .. Len(panels) : panels[j].id # r.id BY <1>0, <1>2 DEF IdsOf
  <2>10. Single(new)
    <3>1. SUFFICES ASSUME NEW i \in DOMAIN new, NEW k \in DOMAIN new, new[i].id = new[k].id PROVE i = k
      BY DEF Single
    <3>2. CASE i = b + 1 \/ k = b + 1 BY <3>1, <3>2, <2>2, <2>4, <2>6, <2>9
    <3>3. CASE i # b + 1 /\ k # b + 1
      <4>2. PICK x \in 1 .. Len(panels) : new[i] = panels[x] /\ (x = IF i <= b THEN i ELSE i - 1) BY <2>6, <3>3
      <4>3. PICK y \in 1 .. Len(panels) : new[k] = panels[y] /\ (y = IF k <= b THEN k ELSE k - 1) BY <2>6, <3>3
      <4>4. x = y BY <3>1, <4>2, <4>3, <2>8
      <4> QED BY <3>3, <4>2, <4>3, <4>4, <2>5, <2>1, <1>0
    <3> QED BY <3>2, <3>3
  <2>11. b + 1 \in DOMAIN new BY <2>1, <2>5, <1>0
  <2>12. IdsOf(new) = IdsOf(panels) \cup {r.id}
    <3>1. ASSUME NEW i \in DOMAIN new PROVE new[i].id \in IdsOf(panels) \cup {r.id}
      BY <2>2, <2>4, <2>6, <1>0 DEF IdsOf
    <3>2. ASSUME NEW j \in DOMAIN panels PROVE panels[j].id \in IdsOf(new) BY <1>0, <2>7 DEF IdsOf
    <3>3. r.id \in IdsOf(new) BY <2>2, <2>4, <2>11 DEF IdsOf
    <3> QED BY <3>1, <3>2, <3>3 DEF IdsOf
  <2> QED BY <2>2, <2>4, <2>6, <2>10, <2>12, <1>0 DEF Lawful, new
<1> QED BY <1>1, <1>2

PanelStep(list) ==
  Lawful(list) /\ emitProjects(list)

\* The daemon pushes its list after a change.
LEMMA EmitsKeep ==
  ASSUME PanelInv, NEW list, PanelStep(list), UNCHANGED panels
  PROVE  /\ ListInv' /\ had' \in [Named -> SUBSET PanelNames]
         /\ \A id \in Named : had[id] \subseteq had'[id]
         /\ \A l : Served(l) => Carries(l, had')
         /\ projects' = list /\ Lawful(list) /\ pushed' # << >>
<1>0. ListInv /\ Lawful(list) /\ projects' = list
      /\ pushed' = Append(pushed, list)
  BY DEF PanelInv, PanelStep, emitProjects
<1> DEFINE news(id) == {list[i].name : i \in {j \in DOMAIN list : list[j].id = id}}
<1>1. had' = [id \in Named |-> had[id] \cup news(id)] BY DEF PanelStep, emitProjects
<1>2. list \in Lists /\ Len(list) \in Nat /\ DOMAIN list = 1 .. Len(list)
      /\ \A i \in DOMAIN list : list[i].id \in Named /\ list[i].name \in PanelNames
  <2>1. list \in Lists BY <1>0 DEF Lawful
  <2> DEFINE S == [id : Named, name : PanelNames]
  <2>2. list \in Seq(S) BY <2>1 DEF Lists
  <2> HIDE DEF S
  <2>3. Len(list) \in Nat /\ DOMAIN list = 1 .. Len(list) /\ \A i \in DOMAIN list : list[i] \in S BY <2>2
  <2> QED BY <2>1, <2>3 DEF S
<1>3. \A id \in Named : news(id) \subseteq PanelNames BY <1>2
<1>4. \A i \in DOMAIN list : list[i].name \in news(list[i].id) OBVIOUS
<1> HIDE DEF news
<1>5. had \in [Named -> SUBSET PanelNames] BY <1>0 DEF ListInv
<1>6. had' \in [Named -> SUBSET PanelNames] BY <1>1, <1>3, <1>5
<1>7. \A id \in Named : had'[id] = had[id] \cup news(id) BY <1>1
<1>8. Carries(list, had')
  <2>1. \A i \in DOMAIN list : list[i].name \in had'[list[i].id] BY <1>2, <1>4, <1>7
  <2> QED BY <1>0, <2>1 DEF Carries
<1>9. ASSUME NEW l, Served(l) PROVE Carries(l, had')
  <2>1. l \in Lists /\ Lawful(l)
            /\ \A i \in DOMAIN l : l[i].name \in had[l[i].id] BY <1>9 DEF Served, Carries, Lawful
  <2>2. \A i \in DOMAIN l : l[i].id \in Named
    <3> DEFINE S == [id : Named, name : PanelNames]
    <3>1. l \in Seq(S) BY <2>1 DEF Lists
    <3> HIDE DEF S
    <3>2. \A i \in DOMAIN l : l[i] \in S BY <3>1
    <3> QED BY <3>2 DEF S
  <2>3. \A i \in DOMAIN l : l[i].name \in had'[l[i].id] BY <1>7, <2>1, <2>2
  <2> QED BY <2>1, <2>3 DEF Carries
<1>10. pushed' \in Seq(Lists) /\ \A k \in DOMAIN pushed' : Carries(pushed'[k], had')
  <2>1. pushed \in Seq(Lists) /\ \A k \in DOMAIN pushed : Served(pushed[k]) BY <1>0 DEF ListInv
  <2>2. \A k \in DOMAIN pushed : Carries(pushed[k], had') BY <1>9, <2>1
  <2>3. DOMAIN pushed' = 1 .. Len(pushed) + 1 /\ pushed'[Len(pushed) + 1] = list
        /\ \A k \in 1 .. Len(pushed) : pushed'[k] = pushed[k] BY <1>0, <2>1
  <2>4. Len(pushed) \in Nat /\ DOMAIN pushed = 1 .. Len(pushed) BY <2>1
  <2>5. ASSUME NEW k \in DOMAIN pushed' PROVE Carries(pushed'[k], had')
    <3>1. CASE k = Len(pushed) + 1
      <4>1. pushed'[k] = list BY <3>1, <2>3
      <4> QED BY <4>1, <1>8
    <3>2. CASE k \in DOMAIN pushed
      <4>1. pushed'[k] = pushed[k] BY <3>2, <2>3, <2>4
      <4> QED BY <4>1, <2>2, <3>2
    <3> QED BY <3>1, <3>2, <2>3, <2>4
  <2> QED BY <1>0, <1>2, <2>1, <2>5
<1>12. pushed' # << >> /\ LastIs(pushed', projects')
  <2>1. pushed \in Seq(Lists) BY <1>0 DEF ListInv
  <2>2. Len(pushed') = Len(pushed) + 1 /\ pushed'[Len(pushed) + 1] = list /\ Len(pushed) \in Nat BY <1>0, <2>1
  <2>3. pushed' # << >> BY <2>2
  <2> QED BY <1>0, <2>2, <2>3 DEF LastIs
<1>11. Lawful(panels') BY <1>0 DEF ListInv
<1>13. ListInv' BY <1>0, <1>6, <1>8, <1>10, <1>11, <1>12 DEF ListInv, Served
<1> QED BY <1>0, <1>6, <1>7, <1>9, <1>12, <1>13

\* What stays as it is when a request is exchanged for its next next.
LEMMA BecomesIs ==
  ASSUME PanelInv, NEW r \in unsettled, NEW next \in PanelAsks, Becomes(r, next)
  PROVE  /\ unsettled' \subseteq PanelAsks /\ next \in unsettled'
         /\ \A q \in unsettled' : q = next \/ q \in unsettled
         /\ \A q \in unsettled : q = r \/ q \in unsettled'
BY DEF PanelInv, RequestInv, Becomes

\* The list a page takes over is right for the panels.
LEMMA TakesList ==
  ASSUME PanelInv, NEW list, Served(list), panels' = list, UNCHANGED <<projects, pushed, had>>
  PROVE  /\ ListInv'
         /\ \A i \in DOMAIN panels' : panels'[i].name \in had'[panels'[i].id]
BY DEF PanelInv, ListInv, Served, Carries
Grows ==
  /\ \A id \in Named : had[id] \subseteq had'[id]
  /\ restored \subseteq restored'

\* A name that was excused stays so.
LEMMA StaysExcused ==
  ASSUME Grows, NEW id \in Named, NEW name, Excused(id, name, had, restored, unsettled),
         \A q \in unsettled : q.op = "update" /\ q.id = id /\ q.name = name =>
             \/ \E p \in unsettled' : p.op = "update" /\ p.id = q.id /\ p.name = q.name
             \/ q.name \in had'[q.id] \/ q.id \in restored'
  PROVE  Excused(id, name, had', restored', unsettled')
BY DEF Grows, Excused

\* An entry of a list.
LEMMA EntryIs ==
  ASSUME NEW list, Lawful(list), NEW i \in DOMAIN list
  PROVE  list[i].id \in Named /\ list[i].name \in PanelNames /\ list[i].id \in IdsOf(list)
<1> DEFINE S == [id : Named, name : PanelNames]
<1>1. list \in Seq(S) BY DEF Lawful, Lists
<1> HIDE DEF S
<1>2. list[i] \in S BY <1>1
<1> QED BY <1>2 DEF S, IdsOf

\* A page that was just loaded shows what the daemon has.
LEMMA PanelInvInit == PpInit => PanelInv
<1> SUFFICES ASSUME PpInit PROVE PanelInv OBVIOUS
<1>1. projects = [i \in DOMAIN Listed |-> [id |-> Listed[i], name |-> 0]] /\ panels = projects
      /\ pushed = << >> /\ unsettled = {} /\ restored = {} /\ crossed = {} /\ had = [id \in Named |-> {0}]
      /\ doings = 0 /\ others = 0 BY DEF PpInit
<1>2. Listed \in Seq(Named)
  <2> DEFINE First == {Listed[i] : i \in DOMAIN Listed}
  <2>1. Listed \in Seq(First) /\ First \subseteq Named BY PanelsAssumption DEF Named
  <2> HIDE DEF First
  <2> QED BY <2>1
<1>3. DOMAIN Listed = 1 .. Len(Listed) /\ Len(Listed) \in Nat /\ \A i \in DOMAIN Listed : Listed[i] \in Named
  BY <1>2
<1>4. projects \in Lists
  <2> DEFINE S == [id : Named, name : PanelNames]
  <2>1. \A i \in 1 .. Len(Listed) : [id |-> Listed[i], name |-> 0] \in S BY <1>3 DEF PanelNames
  <2> HIDE DEF S
  <2>2. projects = [i \in 1 .. Len(Listed) |-> [id |-> Listed[i], name |-> 0]] BY <1>1, <1>3
  <2>3. projects \in [1 .. Len(Listed) -> S] BY <2>1, <2>2
  <2>4. projects \in Seq(S) BY <1>3, <2>3, SeqDef
  <2> QED BY <2>4 DEF S, Lists
<1>5. \A i \in DOMAIN Listed : projects[i].id = Listed[i] /\ projects[i].name = 0 BY <1>1
<1>6. DOMAIN projects = DOMAIN Listed BY <1>1
<1>7. Single(projects) BY <1>5, <1>6, PanelsAssumption DEF Single
<1>8. Served(projects) BY <1>1, <1>3, <1>4, <1>5, <1>6, <1>7 DEF Served, Carries, Lawful
<1>9. had \in [Named -> SUBSET PanelNames] BY <1>1 DEF PanelNames
<1>10. ListInv BY <1>1, <1>4, <1>7, <1>8, <1>9 DEF ListInv, Lawful, LastIs
<1>11. RequestInv BY <1>1 DEF RequestInv
<1>12. \A i \in DOMAIN panels : Excused(panels[i].id, panels[i].name, had, restored, unsettled)
  BY <1>1, <1>3, <1>5, <1>6 DEF Excused
<1>13. ShownInv BY <1>1, <1>12 DEF ShownInv
<1> QED BY <1>1, <1>10, <1>11, <1>13, PanelsAssumption DEF PanelInv

\* A request that is sent.
LEMMA RequestIs ==
  ASSUME PanelInv, NEW op \in {"remove", "update"}, NEW id \in Named, NEW name \in PanelNames,
         id \in IdsOf(panels), Sends(op, id, name, panels[Place(panels, id)].name)
  PROVE  \E e \in PanelAsks :
           /\ unsettled' = unsettled \cup {e} /\ e.op = op /\ e.id = id /\ e.name = name /\ e.at = "way"
           /\ e.undo = panels[Place(panels, id)].name
<1>1. panels \in Lists /\ Lawful(panels) BY DEF PanelInv, ListInv, Lawful
<1>2. Place(panels, id) \in DOMAIN panels /\ Place(panels, id) \in Nat \ {0} BY <1>1, PlaceIs
<1>3. panels[Place(panels, id)].name \in PanelNames BY <1>1, <1>2, EntryIs
<1>4. doings' \in Nat BY PanelsAssumption DEF PanelInv, Sends
<1> DEFINE e == [op |-> op, id |-> id, name |-> name, undo |-> panels[Place(panels, id)].name,
           place |-> Place(panels, id), n |-> doings', at |-> "way", list |-> << >>]
<1>5. << >> \in Lists BY DEF Lists
<1>6. e \in PanelAsks BY <1>2, <1>3, <1>4, <1>5 DEF PanelAsks
<1>7. unsettled' = unsettled \cup {e} BY DEF Sends
<1> QED BY <1>6, <1>7

\* The page takes a project away before the daemon answered.
LEMMA RemovingKeeps ==
  ASSUME PanelInv, NEW id \in Named, removeProject(id) PROVE PanelInv'
<1>0. Lawful(panels) /\ ListInv /\ RequestInv /\ ShownInv BY DEF PanelInv, ListInv
<1>1. /\ id \in IdsOf(panels) /\ panels' = Less(panels, id)
      /\ UNCHANGED <<projects, pushed, had, restored, crossed, others>> /\ doings < MaxAsked /\ doings' = doings + 1
      /\ Sends("remove", id, 0, panels[Place(panels, id)].name)
  BY DEF removeProject, Sends, daemonList
<1>2. PICK e \in PanelAsks : unsettled' = unsettled \cup {e} /\ e.op = "remove" /\ e.id = id /\ e.at = "way"
  BY <1>1, RequestIs DEF PanelNames
<1>3. /\ Lawful(panels') /\ IdsOf(panels') = IdsOf(panels) \ {id}
      /\ \A i \in DOMAIN panels' : \E j \in DOMAIN panels : panels'[i] = panels[j]
  BY <1>0, <1>1, LessIs
<1>4. ListInv' BY <1>0, <1>1, <1>3 DEF ListInv, Served
<1>5. RequestInv' BY <1>0, <1>1, <1>2 DEF RequestInv, Served
<1>6. ASSUME NEW i \in DOMAIN panels' PROVE Excused(panels'[i].id, panels'[i].name, had', restored', unsettled')
  <2>1. PICK j \in DOMAIN panels : panels'[i] = panels[j] BY <1>3
  <2>2. Excused(panels[j].id, panels[j].name, had, restored, unsettled) BY <1>0 DEF ShownInv
  <2> QED BY <1>1, <1>2, <2>1, <2>2 DEF Excused
<1>7. ASSUME NEW p \in IdsOf(projects') \ IdsOf(panels') PROVE Absence(p, pushed', crossed', unsettled')
  BY <1>0, <1>1, <1>2, <1>3, <1>7 DEF ShownInv, Absence
<1>8. doings' \in 0 .. MaxAsked /\ others' \in 0 .. MaxOthers BY <1>1, PanelsAssumption DEF PanelInv
<1> QED BY <1>4, <1>5, <1>6, <1>7, <1>8 DEF PanelInv, ShownInv

\* The page renames a project before the daemon answered.
LEMMA RenamingKeeps ==
  ASSUME PanelInv, NEW id \in Named, updateProject(id, 1) PROVE PanelInv'
<1>0. Lawful(panels) /\ ListInv /\ RequestInv /\ ShownInv BY DEF PanelInv, ListInv
<1>1. /\ id \in IdsOf(panels) /\ panels' = WithName(panels, id, 1)
      /\ ~\E r \in unsettled : r.op = "update" /\ r.id = id
      /\ UNCHANGED <<projects, pushed, had, restored, crossed, others>> /\ doings < MaxAsked /\ doings' = doings + 1
      /\ Sends("update", id, 1, panels[Place(panels, id)].name)
  BY DEF updateProject, Sends, daemonList
<1>2. PICK e \in PanelAsks : unsettled' = unsettled \cup {e} /\ e.op = "update" /\ e.id = id /\ e.at = "way"
                        /\ e.name = 1 /\ e.undo = panels[Place(panels, id)].name
  BY <1>1, RequestIs DEF PanelNames
<1>3. /\ Lawful(panels') /\ IdsOf(panels') = IdsOf(panels) /\ DOMAIN panels' = DOMAIN panels
      /\ \A i \in DOMAIN panels : panels'[i].id = panels[i].id
                                 /\ panels'[i].name = IF panels[i].id = id THEN 1 ELSE panels[i].name
  BY <1>0, <1>1, WithNameIs DEF PanelNames
<1>4. ListInv' BY <1>0, <1>1, <1>3 DEF ListInv, Served
<1>5. e.undo \in had[id] \/ id \in restored
  <2>1. panels \in Lists BY <1>0 DEF Lawful
  <2>2. Place(panels, id) \in DOMAIN panels /\ panels[Place(panels, id)].id = id BY <1>1, <2>1, PlaceIs
  <2>3. Excused(panels[Place(panels, id)].id, panels[Place(panels, id)].name, had, restored, unsettled)
    BY <1>0, <2>2 DEF ShownInv
  <2> QED BY <1>1, <1>2, <2>2, <2>3 DEF Excused
<1>6. RequestInv' BY <1>0, <1>1, <1>2, <1>5 DEF RequestInv, Served
<1>7. ASSUME NEW i \in DOMAIN panels' PROVE Excused(panels'[i].id, panels'[i].name, had', restored', unsettled')
  <2>2. Excused(panels[i].id, panels[i].name, had, restored, unsettled) BY <1>0, <1>3 DEF ShownInv
  <2> QED BY <1>1, <1>2, <1>3, <2>2 DEF Excused
<1>8. ASSUME NEW p \in IdsOf(projects') \ IdsOf(panels') PROVE Absence(p, pushed', crossed', unsettled')
  BY <1>0, <1>1, <1>2, <1>3, <1>8 DEF ShownInv, Absence
<1>9. doings' \in 0 .. MaxAsked /\ others' \in 0 .. MaxOthers BY <1>1, PanelsAssumption DEF PanelInv
<1> QED BY <1>4, <1>6, <1>7, <1>8, <1>9 DEF PanelInv, ShownInv

\* A change of the list by the daemon keeps what the page is excused for.
LEMMA ShownKeeps ==
  ASSUME PanelInv, NEW list, PanelStep(list), UNCHANGED <<panels, restored, crossed, doings>>,
         others' \in 0 .. MaxOthers, RequestInv',
         \A q \in unsettled : \E p \in unsettled' : p.op = q.op /\ p.id = q.id /\ p.name = q.name
  PROVE  PanelInv'
<1>0. Lawful(panels) /\ ListInv /\ RequestInv /\ ShownInv BY DEF PanelInv, ListInv
<1>1. /\ ListInv' /\ \A id \in Named : had[id] \subseteq had'[id]
      /\ projects' = list /\ pushed' # << >> BY EmitsKeep
<1>3. ASSUME NEW i \in DOMAIN panels' PROVE Excused(panels'[i].id, panels'[i].name, had', restored', unsettled')
  <2>1. Excused(panels[i].id, panels[i].name, had, restored, unsettled) BY <1>0, <1>3 DEF ShownInv
  <2>2. panels[i].id \in Named BY <1>0, <1>3, EntryIs
  <2>3. Grows BY <1>1 DEF Grows
  <2>4. Excused(panels[i].id, panels[i].name, had', restored', unsettled') BY <2>1, <2>2, <2>3, StaysExcused
  <2> QED BY <2>4
<1>4. ASSUME NEW p \in IdsOf(projects') \ IdsOf(panels') PROVE Absence(p, pushed', crossed', unsettled')
  BY <1>1 DEF Absence
<1>5. doings' \in 0 .. MaxAsked BY DEF PanelInv
<1> QED BY <1>1, <1>3, <1>4, <1>5 DEF PanelInv, ShownInv

\* The daemon's list without a project.
LEMMA ListWithout ==
  ASSUME PanelInv, NEW id PROVE Lawful(Less(projects, id)) /\ IdsOf(Less(projects, id)) = IdsOf(projects) \ {id}
BY LessIs DEF PanelInv, ListInv

\* The daemon's list with a project renamed.
LEMMA ListRenamed ==
  ASSUME PanelInv, NEW id, NEW name \in PanelNames
  PROVE  Lawful(WithName(projects, id, name)) /\ IdsOf(WithName(projects, id, name)) = IdsOf(projects)
BY WithNameIs DEF PanelInv, ListInv

\* The daemon's list with a project more.
LEMMA ListWith ==
  ASSUME PanelInv, NEW id \in Named, id \notin IdsOf(projects)
  PROVE  Lawful(Append(projects, [id |-> id, name |-> 2]))
<1> DEFINE S == [id : Named, name : PanelNames]
           e == [id |-> id, name |-> 2]
           new == Append(projects, e)
<1>1. Lawful(projects) /\ projects \in Seq(S) BY DEF PanelInv, ListInv, Lawful, Lists
<1>2. e \in S BY DEF PanelNames
<1>3. e.id = id OBVIOUS
<1> HIDE DEF S, e
<1>4. /\ new \in Seq(S) /\ DOMAIN new = 1 .. Len(projects) + 1 /\ Len(projects) \in Nat
      /\ DOMAIN projects = 1 .. Len(projects) /\ new[Len(projects) + 1] = e
      /\ \A i \in DOMAIN projects : new[i] = projects[i]
  BY <1>1, <1>2
<1> HIDE DEF new
<1>5. ASSUME NEW i \in DOMAIN new PROVE i = Len(projects) + 1 \/ i \in DOMAIN projects BY <1>4
<1>6. \A i \in DOMAIN projects : projects[i].id # id BY DEF IdsOf
<1>7. ASSUME NEW i \in DOMAIN new, NEW j \in DOMAIN new, new[i].id = new[j].id PROVE i = j
  <2>1. CASE i \in DOMAIN projects /\ j \in DOMAIN projects
    BY <1>1, <1>4, <1>7, <2>1 DEF Lawful, Single
  <2>2. CASE i = Len(projects) + 1 /\ j = Len(projects) + 1 BY <2>2
  <2>3. CASE i = Len(projects) + 1 /\ j \in DOMAIN projects BY <1>3, <1>4, <1>6, <1>7, <2>3
  <2>4. CASE j = Len(projects) + 1 /\ i \in DOMAIN projects BY <1>3, <1>4, <1>6, <1>7, <2>4
  <2> QED BY <1>5, <2>1, <2>2, <2>3, <2>4
<1>8. Single(new) BY <1>7 DEF Single
<1>9. Lawful(new) BY <1>4, <1>8 DEF Lawful, Lists, S
<1> QED BY <1>9 DEF new, e

\* Another client adds, removes or renames a project.
LEMMA OthersKeep ==
  ASSUME PanelInv, NEW id \in Named, Others(id) PROVE PanelInv'
<1>0. RequestInv BY DEF PanelInv
<1>1. UNCHANGED <<panels, restored, crossed, doings, unsettled>> /\ others' \in 0 .. MaxOthers
  BY PanelsAssumption DEF PanelInv, Others
<1>2. \/ emitProjects(Less(projects, id)) \/ emitProjects(WithName(projects, id, 2))
      \/ id \notin IdsOf(projects) /\ emitProjects(Append(projects, [id |-> id, name |-> 2]))
  BY DEF Others
<1>3. \E list : PanelStep(list)
  <2>1. CASE emitProjects(Less(projects, id)) BY <2>1, ListWithout DEF PanelStep
  <2>2. CASE emitProjects(WithName(projects, id, 2)) BY <2>2, ListRenamed DEF PanelStep, PanelNames
  <2>3. CASE id \notin IdsOf(projects) /\ emitProjects(Append(projects, [id |-> id, name |-> 2]))
    BY <2>3, ListWith DEF PanelStep
  <2> QED BY <1>2, <2>1, <2>2, <2>3
<1>4. PICK list : PanelStep(list) BY <1>3
<1>5. /\ ListInv' /\ \A p \in Named : had[p] \subseteq had'[p]
      /\ \A l : Served(l) => Carries(l, had')
      /\ projects' = list BY <1>1, <1>4, EmitsKeep
<1>6. RequestInv'
  <2>2. unsettled' = unsettled /\ restored' = restored /\ \A r \in unsettled : r.id \in Named BY <1>0, <1>1 DEF RequestInv, PanelAsks
  <2> QED BY <1>0, <1>5, <2>2 DEF RequestInv, Served
<1> QED BY <1>1, <1>4, <1>6, ShownKeeps

\* The daemon handles a request.
LEMMA HandlingKeeps ==
  ASSUME PanelInv, NEW r \in unsettled, Handles(r) PROVE PanelInv'
<1>0. ListInv /\ RequestInv /\ r \in PanelAsks /\ r.at = "way" /\ unsettled \subseteq PanelAsks
      /\ UNCHANGED <<panels, restored, crossed, doings, others>> BY DEF PanelInv, Handles, RequestInv
<1>1. ASSUME NEW next \in PanelAsks, Becomes(r, next), next.op = r.op, next.id = r.id, next.name = r.name, next.undo = r.undo,
             \/ \E list : PanelStep(list)
             \/ UNCHANGED daemonList /\ (next.op = "remove" => next.at # "done"),
             /\ next.op = "update" /\ next.at = "done" => next.name \in had'[next.id]
             /\ next.op = "refresh" /\ next.at = "done" => Carries(next.list, had')
      PROVE  PanelInv'
  <2>1. /\ unsettled' \subseteq PanelAsks /\ next \in unsettled'
        /\ \A q \in unsettled' : q = next \/ q \in unsettled
        /\ \A q \in unsettled : q = r \/ q \in unsettled'
    BY <1>1, BecomesIs
  <2>2. \A q \in unsettled : \E p \in unsettled' : p.op = q.op /\ p.id = q.id /\ p.name = q.name
    BY <1>1, <2>1
  <2>3. /\ \A p \in Named : had[p] \subseteq had'[p]
        /\ \A l : Served(l) => Carries(l, had')
    <3>1. CASE \E list : PanelStep(list)
      <4>1. PICK list : PanelStep(list) BY <3>1
      <4>2. projects' = list /\ (\A p \in Named : had[p] \subseteq had'[p])
            /\ (\A l : Served(l) => Carries(l, had')) BY <1>0, <4>1, EmitsKeep
      <4> QED BY <4>1, <4>2 DEF PanelStep
    <3>2. CASE UNCHANGED daemonList BY <3>2 DEF daemonList, Served
    <3> QED BY <1>1, <3>1, <3>2
  <2>4. RequestInv'
    <3>1. ASSUME NEW q \in unsettled' 
          PROVE /\ q.op = "update" => q.undo \in had'[q.id] \/ q.id \in restored'
                /\ q.op = "update" /\ q.at = "done" => q.name \in had'[q.id]
                /\ q.op = "refresh" /\ q.at = "done" => Carries(q.list, had')
      <4>1. CASE q = next
        <5>1. r.op = "update" => r.undo \in had[r.id] \/ r.id \in restored BY <1>0 DEF RequestInv
        <5>2. r.id \in Named BY <1>0 DEF PanelAsks
        <5> QED BY <1>0, <1>1, <2>3, <4>1, <5>1, <5>2
      <4>2. CASE q \in unsettled
        <5>1. q.id \in Named BY <1>0, <4>2 DEF PanelAsks
        <5> QED BY <1>0, <2>3, <4>2, <5>1 DEF RequestInv
      <4> QED BY <2>1, <4>1, <4>2
    <3> QED BY <2>1, <3>1 DEF RequestInv, Served
  <2>5. CASE \E list : PanelStep(list)
    <3>1. PICK list : PanelStep(list) BY <2>5
    <3>2. others' \in 0 .. MaxOthers BY <1>0 DEF PanelInv
    <3> QED BY <1>0, <2>2, <2>4, <3>1, <3>2, ShownKeeps
  <2>6. CASE UNCHANGED daemonList /\ (next.op = "remove" => next.at # "done")
    <3>1. UNCHANGED <<projects, pushed, had, panels, restored, crossed, doings, others>> BY <1>0, <2>6 DEF daemonList
    <3>2. ListInv' BY <1>0, <3>1 DEF ListInv, Served
    <3>3. ShownInv BY DEF PanelInv
    <3>4. ASSUME NEW i \in DOMAIN panels' PROVE Excused(panels'[i].id, panels'[i].name, had', restored', unsettled')
      <4>1. Excused(panels[i].id, panels[i].name, had, restored, unsettled) BY <3>1, <3>3, <3>4 DEF ShownInv
      <4> QED BY <2>2, <3>1, <4>1 DEF Excused
    <3>5. ASSUME NEW p \in IdsOf(projects') \ IdsOf(panels') PROVE Absence(p, pushed', crossed', unsettled')
      <4>1. Absence(p, pushed, crossed, unsettled) BY <3>1, <3>3, <3>5 DEF ShownInv
      <4>2. \A q \in unsettled : q.op = "remove" /\ q.at # "done" =>
              \E n \in unsettled' : n.op = "remove" /\ n.id = q.id /\ n.at # "done"
        BY <1>1, <2>1, <2>6
      <4> QED BY <3>1, <4>1, <4>2 DEF Absence
    <3> QED BY <2>4, <3>1, <3>2, <3>4, <3>5 DEF PanelInv, ShownInv
  <2> QED BY <1>1, <2>5, <2>6
<1>2. ASSUME NEW pos \in {"done", "refused"}
      PROVE  LET s == [r EXCEPT !.at = pos] IN
             s \in PanelAsks /\ s.op = r.op /\ s.id = r.id /\ s.name = r.name /\ s.undo = r.undo /\ s.at = pos
  BY <1>0 DEF PanelAsks
<1>3. CASE r.op = "remove" /\ handleProjectAction(r)
  <2>1. CASE emitProjects(Less(projects, r.id)) /\ Becomes(r, [r EXCEPT !.at = "done"])
    <3>1. PanelStep(Less(projects, r.id)) BY <2>1, ListWithout DEF PanelStep
    <3> QED BY <1>1, <1>2, <1>3, <2>1, <3>1
  <2>2. CASE UNCHANGED daemonList /\ Becomes(r, [r EXCEPT !.at = "refused"])
    BY <1>1, <1>2, <1>3, <2>2
  <2> QED BY <1>3, <2>1, <2>2 DEF handleProjectAction
<1>4. CASE r.op = "update" /\ handleProjectUpdate(r)
  <2>1. CASE r.id \in IdsOf(projects) /\ emitProjects(WithName(projects, r.id, r.name)) /\ Becomes(r, [r EXCEPT !.at = "done"])
    <3>0. r.name \in PanelNames /\ r.id \in Named BY <1>0 DEF PanelAsks
    <3>1. PanelStep(WithName(projects, r.id, r.name)) BY <2>1, <3>0, ListRenamed DEF PanelStep
    <3>2. r.name \in had'[r.id]
      <4>1. PICK i \in DOMAIN projects : projects[i].id = r.id BY <2>1 DEF IdsOf
      <4>2. Lawful(projects) BY <1>0 DEF ListInv
      <4>3. /\ DOMAIN projects' = DOMAIN projects /\ projects'[i].id = r.id /\ projects'[i].name = r.name
        BY <2>1, <3>0, <4>1, <4>2, WithNameIs DEF emitProjects
      <4>4. ListInv' BY <1>0, <3>1, EmitsKeep
      <4> QED BY <4>1, <4>3, <4>4 DEF ListInv, Served, Carries
    <3> QED BY <1>1, <1>2, <1>4, <2>1, <3>1, <3>2
  <2>2. CASE UNCHANGED daemonList /\ Becomes(r, [r EXCEPT !.at = "refused"])
    BY <1>1, <1>2, <1>4, <2>2
  <2> QED BY <1>4, <2>1, <2>2 DEF handleProjectUpdate
<1>5. CASE r.op = "refresh" /\ UNCHANGED daemonList /\ Becomes(r, [r EXCEPT !.at = "done", !.list = projects])
  <2>1. LET s == [r EXCEPT !.at = "done", !.list = projects] IN
        s \in PanelAsks /\ s.op = r.op /\ s.id = r.id /\ s.name = r.name /\ s.undo = r.undo /\ s.at = "done" /\ s.list = projects
    BY <1>0 DEF PanelAsks, ListInv, Lawful
  <2>2. Carries(projects, had') BY <1>0, <1>5 DEF ListInv, Served, daemonList
  <2> QED BY <1>1, <1>5, <2>1, <2>2
<1> QED BY <1>3, <1>4, <1>5 DEF Handles

\* A request is settled: its next next, or none.
LEMMA SettlingKeeps ==
  ASSUME PanelInv, NEW r \in unsettled, Settles(r) PROVE PanelInv'
<1>0. ListInv /\ RequestInv /\ ShownInv /\ Lawful(panels) /\ r \in PanelAsks /\ unsettled \subseteq PanelAsks
      /\ UNCHANGED <<projects, pushed, had, doings, others>> BY DEF PanelInv, Settles, RequestInv, ListInv, daemonList
<1>1. doings' \in 0 .. MaxAsked /\ others' \in 0 .. MaxOthers BY <1>0 DEF PanelInv
<1>2. CASE r.at = "done" /\ r.op # "refresh" /\ UNCHANGED <<panels, restored, crossed>>
           /\ Becomes(r, [r EXCEPT !.op = "refresh", !.at = "way"])
  <2> DEFINE next == [r EXCEPT !.op = "refresh", !.at = "way"]
  <2>1. next \in PanelAsks /\ next.op = "refresh" /\ next.at = "way" BY <1>0 DEF PanelAsks
  <2> HIDE DEF next
  <2>2. /\ unsettled' \subseteq PanelAsks /\ next \in unsettled'
        /\ \A q \in unsettled' : q = next \/ q \in unsettled
        /\ \A q \in unsettled : q = r \/ q \in unsettled'
    BY <1>2, <2>1, BecomesIs DEF next
  <2>3. RequestInv' BY <1>0, <1>2, <2>1, <2>2 DEF RequestInv, Served
  <2>4. ListInv' BY <1>0, <1>2 DEF ListInv, Served
  <2>5. ASSUME NEW i \in DOMAIN panels' PROVE Excused(panels'[i].id, panels'[i].name, had', restored', unsettled')
    <3>1. Excused(panels[i].id, panels[i].name, had, restored, unsettled) BY <1>0, <1>2, <2>5 DEF ShownInv
    <3>2. r.op = "update" => r.name \in had[r.id] BY <1>0, <1>2 DEF RequestInv
    <3> QED BY <1>0, <1>2, <2>2, <3>1, <3>2 DEF Excused
  <2>6. ASSUME NEW p \in IdsOf(projects') \ IdsOf(panels') PROVE Absence(p, pushed', crossed', unsettled')
    <3>1. Absence(p, pushed, crossed, unsettled) BY <1>0, <1>2, <2>6 DEF ShownInv
    <3>2. \A q \in unsettled : q.at # "done" => q \in unsettled' BY <1>2, <2>2
    <3> QED BY <1>0, <1>2, <3>1, <3>2 DEF Absence
  <2> QED BY <1>1, <2>3, <2>4, <2>5, <2>6 DEF PanelInv, ShownInv
<1>3. ASSUME unsettled' = unsettled \ {r} /\ restored \subseteq restored',
             \/ /\ r.at = "done" /\ r.op = "refresh" /\ panels' = r.list /\ UNCHANGED restored
                /\ crossed' = crossed \cup (IdsOf(panels) \ IdsOf(r.list))
             \/ r.op = "remove" /\ panels' = PutBack(r) /\ restored' = restored \cup {r.id} /\ UNCHANGED crossed
             \/ r.op = "update" /\ panels' = RollBack(r) /\ UNCHANGED <<restored, crossed>>
             \/ r.op = "refresh" /\ UNCHANGED <<panels, restored, crossed>>
      PROVE  PanelInv'
  <2>1. RequestInv' BY <1>0, <1>3 DEF RequestInv, Served
  <2>6. \A q \in unsettled : q.op = "remove" /\ r.op # "remove" => q \in unsettled' BY <1>3
  <2>2. CASE /\ r.at = "done" /\ r.op = "refresh" /\ panels' = r.list /\ UNCHANGED restored
             /\ crossed' = crossed \cup (IdsOf(panels) \ IdsOf(r.list))
    <3>1. Served(r.list) BY <1>0, <2>2 DEF RequestInv
    <3>3. ASSUME NEW p \in IdsOf(projects') \ IdsOf(panels') PROVE Absence(p, pushed', crossed', unsettled')
      <4>1. p \in IdsOf(panels) \/ Absence(p, pushed, crossed, unsettled) BY <1>0, <3>3 DEF ShownInv
      <4> QED BY <1>0, <2>2, <2>6, <3>3, <4>1 DEF Absence
    <3>2. /\ ListInv'
          /\ \A i \in DOMAIN panels' : panels'[i].name \in had'[panels'[i].id]
      BY <1>0, <2>2, <3>1, TakesList
    <3> QED BY <1>1, <2>1, <3>2, <3>3 DEF PanelInv, ShownInv, Excused
  <2>3. CASE r.op = "remove" /\ panels' = PutBack(r) /\ restored' = restored \cup {r.id} /\ UNCHANGED crossed
    <3>1. /\ Lawful(panels') /\ IdsOf(panels') = IdsOf(panels) \cup {r.id}
          /\ \A i \in DOMAIN panels' : (\E j \in DOMAIN panels : panels'[i] = panels[j]) \/ panels'[i].id = r.id
      BY <1>0, <2>3, PutIs
    <3>2. ListInv' BY <1>0, <3>1 DEF ListInv, Served
    <3>3. ASSUME NEW i \in DOMAIN panels' PROVE Excused(panels'[i].id, panels'[i].name, had', restored', unsettled')
      <4>1. CASE panels'[i].id = r.id BY <2>3, <4>1 DEF Excused
      <4>2. CASE \E j \in DOMAIN panels : panels'[i] = panels[j]
        <5>1. PICK j \in DOMAIN panels : panels'[i] = panels[j] BY <4>2
        <5>2. Excused(panels[j].id, panels[j].name, had, restored, unsettled) BY <1>0 DEF ShownInv
        <5> QED BY <1>0, <1>3, <2>3, <5>1, <5>2 DEF Excused
      <4> QED BY <3>1, <4>1, <4>2
    <3>4. ASSUME NEW p \in IdsOf(projects') \ IdsOf(panels') PROVE Absence(p, pushed', crossed', unsettled')
      <4>1. Absence(p, pushed, crossed, unsettled) /\ p # r.id BY <1>0, <3>1, <3>4 DEF ShownInv
      <4> QED BY <1>0, <1>3, <2>3, <4>1 DEF Absence
    <3> QED BY <1>1, <2>1, <3>2, <3>3, <3>4 DEF PanelInv, ShownInv
  <2>4. CASE r.op = "update" /\ panels' = RollBack(r) /\ UNCHANGED <<restored, crossed>>
    <3>0. r.undo \in PanelNames /\ (r.undo \in had[r.id] \/ r.id \in restored) BY <1>0, <2>4 DEF RequestInv, PanelAsks
    <3>1. /\ Lawful(panels') /\ IdsOf(panels') = IdsOf(panels) /\ DOMAIN panels' = DOMAIN panels
          /\ \A i \in DOMAIN panels : panels'[i].id = panels[i].id
                                     /\ panels'[i].name = IF panels[i].id = r.id THEN r.undo ELSE panels[i].name
      BY <1>0, <2>4, <3>0, WithNameIs DEF RollBack
    <3>2. ListInv' BY <1>0, <3>1 DEF ListInv, Served
    <3>3. ASSUME NEW i \in DOMAIN panels' PROVE Excused(panels'[i].id, panels'[i].name, had', restored', unsettled')
      <4>1. CASE panels[i].id = r.id BY <1>0, <2>4, <3>0, <3>1, <4>1 DEF Excused
      <4>2. CASE panels[i].id # r.id
        <5>2. Excused(panels[i].id, panels[i].name, had, restored, unsettled) BY <1>0, <3>1 DEF ShownInv
        <5> QED BY <1>0, <1>3, <2>4, <3>1, <4>2, <5>2 DEF Excused
      <4> QED BY <4>1, <4>2
    <3>4. ASSUME NEW p \in IdsOf(projects') \ IdsOf(panels') PROVE Absence(p, pushed', crossed', unsettled')
      <4>1. Absence(p, pushed, crossed, unsettled) BY <1>0, <3>1, <3>4 DEF ShownInv
      <4> QED BY <1>0, <2>4, <2>6, <4>1 DEF Absence
    <3> QED BY <1>1, <2>1, <3>2, <3>3, <3>4 DEF PanelInv, ShownInv
  <2>5. CASE r.op = "refresh" /\ UNCHANGED <<panels, restored, crossed>>
    <3>2. ListInv' BY <1>0, <2>5 DEF ListInv, Served
    <3>3. ASSUME NEW i \in DOMAIN panels' PROVE Excused(panels'[i].id, panels'[i].name, had', restored', unsettled')
      <4>1. Excused(panels[i].id, panels[i].name, had, restored, unsettled) BY <1>0, <2>5 DEF ShownInv
      <4> QED BY <1>0, <1>3, <2>5, <4>1 DEF Excused
    <3>4. ASSUME NEW p \in IdsOf(projects') \ IdsOf(panels') PROVE Absence(p, pushed', crossed', unsettled')
      <4>1. Absence(p, pushed, crossed, unsettled) BY <1>0, <2>5, <3>4 DEF ShownInv
      <4> QED BY <1>0, <2>5, <2>6, <4>1 DEF Absence
    <3> QED BY <1>1, <2>1, <3>2, <3>3, <3>4 DEF PanelInv, ShownInv
  <2> QED BY <1>3, <2>2, <2>3, <2>4, <2>5
<1> QED BY <1>2, <1>3 DEF Settles

\* A pushed list reaches the page.
LEMMA ShowingKeeps ==
  ASSUME PanelInv, Shown PROVE PanelInv'
<1>0. ListInv /\ RequestInv /\ pushed # << >> /\ panels' = Head(pushed) /\ pushed' = Tail(pushed)
      /\ UNCHANGED <<projects, had, unsettled, restored, doings, others>> BY DEF PanelInv, Shown
<1>1. pushed \in Seq(Lists) /\ \A k \in DOMAIN pushed : Served(pushed[k]) BY <1>0 DEF ListInv
<1>2. Head(pushed) = pushed[1] /\ 1 \in DOMAIN pushed BY <1>0, <1>1
<1>3. /\ Tail(pushed) \in Seq(Lists) /\ \A k \in DOMAIN Tail(pushed) : k + 1 \in DOMAIN pushed /\ Tail(pushed)[k] = pushed[k + 1]
  BY <1>0, <1>1
<1>4. Served(panels') BY <1>0, <1>1, <1>2
<1>8. Len(pushed) \in Nat /\ Len(Tail(pushed)) = Len(pushed) - 1 BY <1>0, <1>1
<1>9. LastIs(pushed', projects')
  <2>1. ASSUME Tail(pushed) # << >> PROVE Tail(pushed)[Len(Tail(pushed))] = projects
    <3>1. Len(Tail(pushed)) \in DOMAIN Tail(pushed) BY <1>3, <2>1
    <3>2. Tail(pushed)[Len(Tail(pushed))] = pushed[Len(Tail(pushed)) + 1] BY <1>3, <3>1
    <3>3. Len(Tail(pushed)) + 1 = Len(pushed) BY <1>8
    <3> QED BY <1>0, <3>2, <3>3 DEF ListInv, LastIs
  <2> QED BY <1>0, <2>1 DEF LastIs
<1>5. ListInv' BY <1>0, <1>1, <1>3, <1>4, <1>9 DEF ListInv, Served, Carries
<1>6. RequestInv' BY <1>0 DEF RequestInv, Served
<1>10. pushed' = << >> => panels' = projects
  <2>1. ASSUME Tail(pushed) = << >> PROVE pushed[1] = projects
    <3>4. Len(<< >>) = 0 OBVIOUS
    <3>2. Len(Tail(pushed)) = 0 BY <2>1, <3>4, Zenon
    <3>1. Len(pushed) = 1 BY <1>8, <3>2
    <3> QED BY <1>0, <3>1 DEF ListInv, LastIs
  <2> QED BY <1>0, <1>2, <2>1
<1>7. ShownInv' BY <1>0, <1>4, <1>10 DEF ShownInv, Served, Carries, Excused, Absence
<1> QED BY <1>0, <1>5, <1>6, <1>7 DEF PanelInv

\* So whatever crosses on the way.
LEMMA PanelInvInductive == PanelInv /\ [PanelsNext]_panelListVars => PanelInv'
<1> SUFFICES ASSUME PanelInv, [PanelsNext]_panelListVars PROVE PanelInv' OBVIOUS
<1>1. CASE PanelsNext
  BY <1>1, RemovingKeeps, RenamingKeeps, OthersKeep, HandlingKeeps, SettlingKeeps, ShowingKeeps DEF PanelsNext
<1>2. CASE UNCHANGED panelListVars
  BY <1>2 DEF panelListVars, daemonList, PanelInv, ListInv, RequestInv, ShownInv, Served
<1> QED BY <1>1, <1>2

\* So when nothing is on its way, the page shows the projects there are, but for those a late
\* answer hid.
LEMMA PanelInvMeaning == PanelInv => PanelsTypeOK /\ PanelsMatch
<1> SUFFICES ASSUME PanelInv PROVE PanelsTypeOK /\ PanelsMatch OBVIOUS
<1>1. Lawful(projects) /\ Lawful(panels) /\ ShownInv BY DEF PanelInv, ListInv
<1>2. IdsOf(projects) \subseteq Named BY <1>1, EntryIs DEF IdsOf
<1>3. IdsOf(panels) \subseteq Named BY <1>1, EntryIs DEF IdsOf
<1>4. PanelsTypeOK BY <1>2, <1>3 DEF PanelInv, PanelsTypeOK
<1>5. PanelsMatch BY <1>1 DEF ShownInv, Absence, Excused, PanelsMatch, Lawful, Single
<1> QED BY <1>4, <1>5

---------------------------------------------------------------------------------------
(* All parts together, as module MCEdges composes them. *)

GatesInv == AuthInv /\ McpInv /\ ProxyInv /\ PromptInv /\ RoutesInv
AskingInv == BootInv /\ CommandsInv /\ DlInv /\ SyInv
FilesInv == PfInv /\ DgInv /\ ElInv /\ ToInv
DeskInv == TsInv /\ AwInv /\ CpInv /\ MxInv /\ PanelInv
EdgesInv == GatesInv /\ AskingInv /\ FilesInv /\ DeskInv

\* Each part begins as described above.
LEMMA EdgesInitially == Init => EdgesInv
<1> SUFFICES ASSUME Init PROVE EdgesInv
  OBVIOUS
<1>1. /\ AuthInit /\ BootInit /\ PfInit /\ McpInit /\ DgInit /\ DlInit /\ ProxyInit /\ PromptInit
      /\ ElInit /\ CommandsInit /\ SyInit /\ TsInit /\ AwInit /\ MxInit /\ PpInit
  BY DEF Init
<1>2. CpInit /\ ToInit /\ RoutesInit
  BY DEF Init
<1>3. GatesInv
  BY <1>1, <1>2, AuthInvInit, McpInvInit, ProxyInvInit, PromptInvInit, RoutesInvInit DEF GatesInv
<1>4. AskingInv
  BY <1>1, BootInvInit, CommandsInvInit, DlInvInit, SyInvInit DEF AskingInv
<1>5. FilesInv
  BY <1>1, <1>2, PfInvInit, DgInvInit, ElInvInit, ToInvInit DEF FilesInv
<1>6. DeskInv
  BY <1>1, <1>2, TsInvInit, AwInvInit, CpInvInit, MxInvInit, PanelInvInit DEF DeskInv
<1> QED BY <1>3, <1>4, <1>5, <1>6 DEF EdgesInv

\* A step of the commands, or of the projects with no command under way.
ProjectsMove ==
  CommandsNext \/ (ProjectsNext /\ UNCHANGED <<shellVars, commands>>) \/ UNCHANGED commandVars

\* A step is one part's, and the others do not move.
LEMMA OneEdgeMoves ==
  ASSUME [Next]_allEdges
  PROVE  /\ [AuthNext]_authVars /\ [RoutesNext]_routeVars /\ [McpNext]_mcpVars
         /\ [ProxyNext]_proxyVars /\ [PromptNext]_promptVars
         /\ [BootNext]_bootVars /\ ProjectsMove /\ [DlNext]_dlVars /\ [SyNext]_syVars
         /\ [PfNext]_pfVars /\ [DgNext]_dgVars /\ [ElNext]_elVars /\ [ToNext]_toVars
         /\ [TsNext]_tsVars /\ [AwNext]_awVars /\ [CpNext]_cpVars /\ [MxNext]_mxVars
         /\ [PanelsNext]_panelListVars
<1> DEFINE GatesMove == /\ [AuthNext]_authVars /\ [RoutesNext]_routeVars /\ [McpNext]_mcpVars
                        /\ [ProxyNext]_proxyVars /\ [PromptNext]_promptVars
           AskingMove == [BootNext]_bootVars /\ ProjectsMove /\ [DlNext]_dlVars /\ [SyNext]_syVars
           FilesMove == [PfNext]_pfVars /\ [DgNext]_dgVars /\ [ElNext]_elVars /\ [ToNext]_toVars
           DeskMove == /\ [TsNext]_tsVars /\ [AwNext]_awVars /\ [CpNext]_cpVars /\ [MxNext]_mxVars
                       /\ [PanelsNext]_panelListVars
<1>1. UNCHANGED gateVars => GatesMove
  BY DEF gateVars
<1>2. UNCHANGED userVars => AskingMove
  BY DEF userVars, ProjectsMove
<1>3. UNCHANGED fileVars => FilesMove
  BY DEF fileVars
<1>4. UNCHANGED deskVars => DeskMove
  BY DEF deskVars
<1>5. Gates => GatesMove
  BY DEF Gates, AuthNext
<1>6. Asking => AskingMove
  BY DEF Asking, ProjectsMove
<1>7. Files => FilesMove
  BY DEF Files
<1>8. Desk => DeskMove
  BY DEF Desk
<1> HIDE DEF GatesMove, AskingMove, FilesMove, DeskMove
<1>9. GatesMove /\ AskingMove /\ FilesMove /\ DeskMove
  <2>1. CASE Next
    <3>1. /\ Gates \/ UNCHANGED gateVars
          /\ Asking \/ UNCHANGED userVars
          /\ Files \/ UNCHANGED fileVars
          /\ Desk \/ UNCHANGED deskVars
      BY <2>1 DEF Next
    <3> QED BY <3>1, <1>1, <1>2, <1>3, <1>4, <1>5, <1>6, <1>7, <1>8
  <2>2. CASE UNCHANGED allEdges
    BY <2>2, <1>1, <1>2, <1>3, <1>4 DEF allEdges
  <2> QED BY <2>1, <2>2
<1> QED BY <1>9 DEF GatesMove, AskingMove, FilesMove, DeskMove

\* The projects, under the commands or by themselves.
LEMMA ProjectsMoveKeeps == ASSUME CommandsInv, ProjectsMove PROVE CommandKeeps
<1>1. CASE ProjectsNext /\ UNCHANGED <<shellVars, commands>>
  <2>1. UNCHANGED shellVars /\ UNCHANGED commands
    BY <1>1
  <2>2. ShellsInv' /\ AddsQuietly
    BY <2>1 DEF CommandsInv, ShellsInv, ShellTypes, ShellKeeps, AddsQuietly, shellVars
  <2> QED BY <1>1, <2>1, <2>2, ProjectsStep DEF CommandKeeps, CommandsInv
<1> QED BY <1>1, CommandsStep, CommandsStutter DEF ProjectsMove

\* Each part keeps its invariant, whichever moves.
LEMMA EdgesStep == ASSUME EdgesInv, [Next]_allEdges PROVE EdgesInv'
<1>1. GatesInv'
  BY OneEdgeMoves, AuthInvInductive, McpInvInductive, ProxyInvInductive, PromptInvInductive,
     RoutesInvInductive
     DEF EdgesInv, GatesInv
<1>2. AskingInv'
  BY OneEdgeMoves, BootInvInductive, ProjectsMoveKeeps, DlInvInductive, SyStep, SyStutter
     DEF EdgesInv, AskingInv, CommandKeeps, SyGoes
<1>3. FilesInv'
  BY OneEdgeMoves, PfInvInductive, DgInvInductive, ElInvInductive, ToInvInductive
     DEF EdgesInv, FilesInv
<1>4. DeskInv'
  BY OneEdgeMoves, TsInvInductive, AwStep, CpInvInductive, MxInvInductive, PanelInvInductive
     DEF EdgesInv, DeskInv, AwGoes
<1> QED BY <1>1, <1>2, <1>3, <1>4 DEF EdgesInv

\* What the invariants say together.
LEMMA EdgesInvMeaning ==
  EdgesInv => EdgesTypeOK /\ OnceOnly /\ NothingIsMissed /\ EditsKeepTheRest /\ WhatIsSaidIsTrue
              /\ ProjectsAreKept /\ CallsReachTheirHandlers
<1> SUFFICES ASSUME EdgesInv
    PROVE  EdgesTypeOK /\ OnceOnly /\ NothingIsMissed /\ EditsKeepTheRest /\ WhatIsSaidIsTrue
           /\ ProjectsAreKept /\ CallsReachTheirHandlers
  OBVIOUS
<1>1. /\ AuthTypeOK /\ EachIsSpentOnce /\ McpTypeOK /\ AnsweredOnce /\ ProxyTypeOK
      /\ SocketKeepsOrder /\ PromptTypeOK /\ RulesFireInOrder
      /\ RoutesTypeOK /\ CallsReachTheirHandlers
  BY AuthInvMeaning, McpInvMeaning, ProxyInvMeaning, PromptInvMeaning
     DEF EdgesInv, GatesInv, RoutesInv
<1>2. /\ BootTypeOK /\ OneDaemonServes /\ ProjectsTypeOK /\ CommandsTypeOK /\ ChoicesLast
      /\ ShownComesBack /\ DlTypeOK /\ DialogTellsTheTruth /\ SyTypeOK
  BY BootInvMeaning, CommandsInvMeaning, DlInvMeaning, SyInvMeaning DEF EdgesInv, AskingInv
<1>3. /\ PfTypeOK /\ EditsKeepTheRest /\ DgTypeOK /\ LogKeepsItsLines /\ ElTypeOK /\ ErrorsAreKept
      /\ ToTypeOK /\ RestoreBringsBack
  BY PfInvMeaning, DgInvMeaning, ElInvMeaning, ToInvMeaning DEF EdgesInv, FilesInv
<1>4. /\ TsTypeOK /\ IconIsKnown /\ TrayComes /\ AwTypeOK /\ PopsOnlyWhenTurned /\ CpTypeOK
      /\ StackIsReady /\ MxTypeOK /\ UsageAddsUp /\ PanelsTypeOK /\ PanelsMatch
  BY TsInvMeaning, AwInvMeaning, CpInvMeaning, MxInvMeaning, PanelInvMeaning DEF EdgesInv, DeskInv
<1> QED BY <1>1, <1>2, <1>3, <1>4
        DEF EdgesTypeOK, OnceOnly, NothingIsMissed, WhatIsSaidIsTrue, ProjectsAreKept

\* Every variable of the parts stays in its type.
THEOREM EdgesTypesHold == Spec => []EdgesTypeOK
BY EdgesInitially, EdgesStep, EdgesInvMeaning, PTL DEF Spec

\* A pairing code, a ticket and a cookie let one client in (local-auth.ts), a request is answered
\* once (mcp-stdio.mjs), launchers started together leave one daemon serving as long as a boot is
\* shorter than the waits (cli.ts), and CPU time is counted once (metrics.ts).
THEOREM NothingIsHadTwice == Spec => []OnceOnly
BY EdgesInitially, EdgesStep, EdgesInvMeaning, PTL DEF Spec

\* Messages reach the dev server in their order (port-proxy.ts), rules fire in theirs
\* and, while no chunk ends within an escape sequence, as the whole output would have them fire
\* (prompt-answers.ts), no line of the log since the oldest is lost (log-file.mjs), and a client
\* shows the errors of the current runs (errors.ts).
THEOREM NothingIsEverMissed == Spec => []NothingIsMissed
BY EdgesInitially, EdgesStep, EdgesInvMeaning, PTL DEF Spec

\* An edit of a project file leaves what it is not about as it was, whatever was typed into a
\* form, written by an agent or by hand meanwhile (ProcessForm.vue, projects/file-store.ts).
THEOREM EditsLeaveTheRest == Spec => []EditsKeepTheRest
BY EdgesInitially, EdgesStep, EdgesInvMeaning, PTL DEF Spec

\* The dialog, the tray, a window that comes up and a stack reported ready say what is so
\* (AddProjectDialog.vue, tray-bootstrap.mjs, manager/compose.ts). On a page whose stream is quiet
\* each project the daemon has is shown, once, but for one whose removal is asked for and one that
\* a refresh hid that was answered before the project came; and no failed rename is (store.ts).
THEOREM WhatIsSaidIsAlwaysTrue == Spec => []WhatIsSaidIsTrue
BY EdgesInitially, EdgesStep, EdgesInvMeaning, PTL DEF Spec

\* Whatever the ids, each call runs the handler it was written for (shared/routes.ts,
\* http/index.ts, http/*-routes.ts), unless the daemon wants a credential the client lacks.
THEOREM EachCallHasItsHandler == Spec => []CallsReachTheirHandlers
BY EdgesInitially, EdgesStep, EdgesInvMeaning, PTL DEF Spec

\* What the user chose and added is there again after every reload, edit, crash and launch
\* (state.ts, manager/projects.ts), and what was taken over comes back (takeover.ts).
THEOREM ProjectsAreNeverLost == Spec => []ProjectsAreKept
BY EdgesInitially, EdgesStep, EdgesInvMeaning, PTL DEF Spec

\* What a step may do against the user's choices.
StepDecides == StartsUnderstood /\ AddsQuietly /\ OwnStep /\ ShapeStays

\* No step decides for the user.
LEMMA EdgesStepDecides == ASSUME EdgesInv, [Next]_allEdges PROVE StepDecides
<1>1. CommandKeeps
  BY OneEdgeMoves, ProjectsMoveKeeps DEF EdgesInv, AskingInv
<1>2. SyGoes
  BY OneEdgeMoves, SyStep, SyStutter DEF EdgesInv, AskingInv
<1>3. AwGoes
  BY OneEdgeMoves, AwStep DEF EdgesInv, DeskInv
<1> QED BY <1>1, <1>2, <1>3 DEF StepDecides, CommandKeeps, SyGoes, AwGoes

\* Nothing starts that no one started or switched on, a setting of this machine alone stays its
\* own, and a window comes up in the shape it was last given.
THEOREM TheUserDecides == Spec => UserDecides
<1>1. StepDecides => /\ [StartsUnderstood]_projectVars /\ [AddsQuietly]_commandVars
                     /\ [OwnStep]_syVars /\ [ShapeStays]_awVars
  BY DEF StepDecides
<1> QED BY <1>1, EdgesInitially, EdgesStep, EdgesStepDecides, PTL
        DEF Spec, UserDecides, LaunchFollowsChoices, AddsWithoutRunning, OwnStays, UserSizeStays,
            StartsUnderstood, AddsQuietly, OwnStep, ShapeStays
================================================================================
