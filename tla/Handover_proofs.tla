--------------------------- MODULE Handover_proofs ---------------------------
(* Theorems about the runs of the daemon, the tray that starts and stops them and the      *)
(* watchdog's policy, for every number of runs, faults and daemons and every time limit.   *)
EXTENDS MCHandover, FiniteSetTheorems, WellFoundedInduction, TLAPS

\* A set of naturals that has a member has a first one.
LEMMA FirstExists ==
  ASSUME NEW S \in SUBSET Nat, S # {}
  PROVE  \E x \in S : \A y \in S : x <= y
<1> DEFINE R == {ss \in Nat \X Nat : ss[1] < ss[2]}
<1>1. IsWellFoundedOn(R, Nat)
  BY NatLessThanWellFounded DEF OpToRel
<1>2. \E x \in S : \A y \in S : ~(<<y, x>> \in R)
  <2> HIDE DEF R
  <2> QED BY <1>1, WFMin, Zenon
<1>3. PICK x \in S : \A y \in S : ~(<<y, x>> \in R)
  BY <1>2
<1>4. ASSUME NEW y \in S PROVE x <= y
  <2>1. x \in Nat /\ y \in Nat
    OBVIOUS
  <2>2. ~(<<y, x>> \in R)
    BY <1>3
  <2>3. ~(y < x)
    BY <2>1, <2>2
  <2> QED BY <2>1, <2>3
<1> QED BY <1>4

---------------------------------------------------------------------------------------
(* Handover: crashes and the pointer file. *)

\* The invariant behind the crash reports: a run's file is there while it is armed, is its
\* own, and one from before the last boot is of a run that is over.
ArmedLeavesAFile == \A r \in Runs : Armed(r) => r \in files \ before
FilesAreOfRuns == \A r \in files : Armed(r) \/ Gone(r)
OldFilesAreOfTheGone == \A r \in before : r \in files /\ Gone(r)
CrashesAreOver == \A r \in crashed \cup reported : r \in Runs /\ Gone(r)
CrashInv ==
    /\ ArmedLeavesAFile /\ FilesAreOfRuns /\ OldFilesAreOfTheGone /\ CrashesAreOver
    /\ CrashIsReported

\* A run that has probed has a port.
HasAPort ==
    \A r \in Runs : at[r] \in {"arm", "publish", "bind", "serve", "hand", "drain", "swept"}
        => chosen[r] \in Ports

\* The invariant behind the pointer. Until two are past the guard there is one such run, and
\* the pointer names it from before it binds; a successor waits for the only one.
Named == {"bind", "serve", "hand"}
OneIsPast == ~beside => \A r, s \in Past : r = s
LoneIsNamed == ~beside => \A r \in Runs : at[r] \in Named => runtime = r
LastLeads == last \in Runs \cup {0} /\ (last # 0 /\ at[last] \in Named => runtime = last)
HeirsWait ==
    \A r \in Runs : at[r] = "wait" =>
        heir[r] \in Runs /\ desired[r] = chosen[heir[r]]
        /\ at[heir[r]] \in {"hand", "drain", "swept", "gone"}
OneBoots == ~overlapped => \A r, s \in Runs : at[r] \in Booting /\ at[s] \in Booting => r = s
WaitsForTheLast ==
    ~overlapped /\ ~beside => \A r \in Runs, s \in Past : at[r] = "wait" => s = heir[r]
Excused == beside => overlapped \/ missed
PointerInv ==
    /\ OneIsPast /\ LoneIsNamed /\ LastLeads /\ HeirsWait /\ OneBoots /\ WaitsForTheLast
    /\ Excused

HoInv == HoTypeOK /\ HasAPort /\ CrashInv

LEMMA RunsAreNaturals == MaxRun \in Nat \ {0} /\ Runs \subseteq Nat /\ Ports \subseteq Nat /\ 1 \in Ports /\ 0 \notin Runs
BY HandoverConstants DEF Runs, Ports

\* The run that begins next is one that has not begun.
LEMMA NewbornIsNone ==
  ASSUME \E r \in Runs : at[r] = "none"
  PROVE  Newborn \in Runs /\ at[Newborn] = "none"
<1> DEFINE T == {r \in Runs : at[r] = "none"}
<1>1. T \in SUBSET Nat /\ T # {}
  BY RunsAreNaturals
<1>2. PICK x \in T : \A y \in T : x <= y
  <2> HIDE DEF T
  <2> QED BY <1>1, FirstExists
<1>3. x \in Runs /\ at[x] = "none" /\ \A s \in Runs : at[s] = "none" => x <= s
  BY <1>2
<1> QED BY <1>3, Zenon DEF Newborn

LEMMA HoInitially == HoInit => HoInv
<1> SUFFICES ASSUME HoInit PROVE HoInv
  OBVIOUS
<1> USE RunsAreNaturals
<1>1. HoTypeOK
  <2>1. at = [r \in Runs |-> "none"] /\ desired = [r \in Runs |-> 1]
    BY Zenon DEF HoInit
  <2>2. chosen = [r \in Runs |-> 0] /\ heir = [r \in Runs |-> 0]
    BY Zenon DEF HoInit
  <2>3. runtime = 0 /\ files = {} /\ before = {}
    BY Zenon DEF HoInit
  <2> QED BY <2>1, <2>2, <2>3 DEF HoTypeOK
<1>2. HasAPort
  BY DEF HoInit, HasAPort
<1>3. CrashInv
  BY DEF HoInit, CrashInv, ArmedLeavesAFile, FilesAreOfRuns, OldFilesAreOfTheGone, CrashesAreOver,
     CrashIsReported, Armed
<1> QED BY <1>1, <1>2, <1>3 DEF HoInv

\* A step of one run that touches no file and leaves the run neither armed nor gone unless it was.
LEMMA QuietStep ==
  ASSUME HoInv, NEW r \in Runs, NEW to, at[r] # "gone", to # "gone",
         at' = [at EXCEPT ![r] = to], 
         Armed(r) <=> to \in {"publish", "bind", "serve", "hand"},
         UNCHANGED <<files, before, crashed, reported>>
  PROVE  CrashInv'
<1>1. \A s \in Runs : /\ Armed(s)' <=> Armed(s) 
                      /\ Gone(s)' <=> Gone(s)
  BY DEF HoInv, HoTypeOK, Armed, Gone
<1>2. files \subseteq Runs
  BY DEF HoInv, HoTypeOK
<1>3. ArmedLeavesAFile' /\ FilesAreOfRuns' /\ OldFilesAreOfTheGone' /\ CrashesAreOver'
  BY <1>1, <1>2 DEF HoInv, CrashInv, ArmedLeavesAFile, FilesAreOfRuns, OldFilesAreOfTheGone,
     CrashesAreOver
<1>4. {s \in files \ before : Gone(s)}' = {s \in files \ before : Gone(s)}
  BY <1>1, <1>2
<1>5. CrashIsReported'
  BY <1>4 DEF HoInv, CrashInv, CrashIsReported
<1> QED BY <1>3, <1>5 DEF CrashInv

LEMMA LaunchKeeps ==
  ASSUME HoInv, Launch
  PROVE  HoInv'
<1> USE RunsAreNaturals
<1>1. Newborn \in Runs /\ at[Newborn] = "none"
  BY NewbornIsNone DEF Launch, Begin
<1>2. /\ at' = [at EXCEPT ![Newborn] = "guard"]
      /\ UNCHANGED <<desired, chosen, heir, runtime, files, before, crashed, reported>>
  BY DEF Launch, Others
<1> HIDE DEF Newborn
<1>3. HoTypeOK'
  BY <1>1, <1>2 DEF HoInv, HoTypeOK, Booting
<1>4. HasAPort'
  BY <1>1, <1>2 DEF HoInv, HoTypeOK, HasAPort
<1>5. CrashInv'
  BY <1>1, <1>2, QuietStep DEF Armed
<1> QED BY <1>3, <1>4, <1>5 DEF HoInv

LEMMA RelaunchKeeps ==
  ASSUME HoInv, NEW r \in Runs, Relaunch(r)
  PROVE  HoInv'
<1> USE RunsAreNaturals
<1>1. Newborn \in Runs /\ at[Newborn] = "none"
  BY NewbornIsNone DEF Relaunch, Begin
<1>2. PICK n \in Runs : n = Newborn
  BY <1>1
<1>3. /\ at[r] = "serve" /\ at[n] = "none" /\ at' = [at EXCEPT ![r] = "hand", ![n] = "wait"]
      /\ desired' = [desired EXCEPT ![n] = chosen[r]]
      /\ heir' = [heir EXCEPT ![n] = r]
      /\ UNCHANGED <<chosen, runtime, files, before, crashed, reported>>
  BY <1>1, <1>2 DEF Relaunch, Others
<1>4. chosen[r] \in Ports /\ r # n
  BY <1>3 DEF HoInv, HasAPort
<1>5. HoTypeOK'
  <2>1. at' \in [Runs -> Booting \cup {"none", "serve", "hand", "drain", "swept", "gone"}]
    BY <1>3 DEF HoInv, HoTypeOK, Booting
  <2>2. desired' \in [Runs -> Ports] /\ heir' \in [Runs -> Runs \cup {0}]
    BY <1>3, <1>4 DEF HoInv, HoTypeOK
  <2> QED BY <1>3, <2>1, <2>2 DEF HoInv, HoTypeOK
<1>6. HasAPort'
  BY <1>3, <1>4 DEF HoInv, HoTypeOK, HasAPort
<1>7. \A s \in Runs : (Armed(s)' <=> Armed(s)) /\ (Gone(s)' <=> Gone(s))
  BY <1>3, <1>4 DEF HoInv, HoTypeOK, Armed, Gone
<1>8. files \subseteq Runs
  BY DEF HoInv, HoTypeOK
<1>9. ArmedLeavesAFile' /\ FilesAreOfRuns' /\ OldFilesAreOfTheGone' /\ CrashesAreOver'
  BY <1>3, <1>7, <1>8 DEF HoInv, CrashInv, ArmedLeavesAFile, FilesAreOfRuns, OldFilesAreOfTheGone,
     CrashesAreOver
<1>10. {s \in files \ before : Gone(s)}' = {s \in files \ before : Gone(s)}
  BY <1>3, <1>7, <1>8
<1>11. CrashIsReported'
  BY <1>3, <1>10 DEF HoInv, CrashInv, CrashIsReported
<1> QED BY <1>5, <1>6, <1>9, <1>11 DEF HoInv, CrashInv

\* A run that goes on, with no file touched.
LEMMA GoesOn ==
  ASSUME HoInv, NEW r \in Runs,
         \/ at[r] = "guard" /\ at' = [at EXCEPT ![r] = "probe"] /\ chosen' = chosen
         \/ at[r] = "wait" /\ at' = [at EXCEPT ![r] = "probe"] /\ chosen' = chosen
         \/ at[r] = "probe" /\ at' = [at EXCEPT ![r] = "arm"]
            /\ \E p \in Ports : chosen' = [chosen EXCEPT ![r] = p]
         \/ at[r] = "publish" /\ at' = [at EXCEPT ![r] = "bind"] /\ chosen' = chosen
         \/ at[r] = "bind" /\ at' = [at EXCEPT ![r] = "serve"] /\ chosen' = chosen
         \/ at[r] = "drain" /\ at' = [at EXCEPT ![r] = "swept"] /\ chosen' = chosen,
         UNCHANGED <<desired, heir, files, before, crashed, reported>>,
         runtime' = 0 \/ runtime' = runtime \/ runtime' = r
  PROVE  HoInv'
<1> USE RunsAreNaturals
<1> DEFINE to == at'[r]
<1>1. at \in [Runs -> Booting \cup {"none", "serve", "hand", "drain", "swept", "gone"}]
  BY DEF HoInv, HoTypeOK
<1>2. \/ at[r] = "guard" /\ at' = [at EXCEPT ![r] = "probe"]
      \/ at[r] = "wait" /\ at' = [at EXCEPT ![r] = "probe"]
      \/ at[r] = "probe" /\ at' = [at EXCEPT ![r] = "arm"]
      \/ at[r] = "publish" /\ at' = [at EXCEPT ![r] = "bind"]
      \/ at[r] = "bind" /\ at' = [at EXCEPT ![r] = "serve"]
      \/ at[r] = "drain" /\ at' = [at EXCEPT ![r] = "swept"]
  BY Zenon
<1>3. at' = [at EXCEPT ![r] = to]
  BY <1>1, <1>2
<1>4. \/ at[r] = "guard" /\ to = "probe" 
      \/ at[r] = "wait" /\ to = "probe"
      \/ at[r] = "probe" /\ to = "arm" 
      \/ at[r] = "publish" /\ to = "bind"
      \/ at[r] = "bind" /\ to = "serve" 
      \/ at[r] = "drain" /\ to = "swept"
  BY ONLY <1>1, <1>2, r \in Runs
<1>5. chosen' = chosen \/ \E p \in Ports : chosen' = [chosen EXCEPT ![r] = p]
  BY Zenon
<1>6. at[r] = "probe" => \E p \in Ports : chosen' = [chosen EXCEPT ![r] = p]
  OBVIOUS
<1> HIDE DEF to
<1>7. chosen' \in [Runs -> Ports \cup {0}] /\ (to = "arm" => chosen'[r] \in Ports)
      /\ \A s \in Runs : chosen[s] \in Ports => chosen'[s] \in Ports
  BY <1>4, <1>5, <1>6 DEF HoInv, HoTypeOK
<1>8. HoTypeOK'
  BY <1>3, <1>4, <1>7 DEF HoInv, HoTypeOK, Booting
<1>9. HasAPort'
  BY <1>3, <1>4, <1>7 DEF HoInv, HoTypeOK, HasAPort
<1>10. CrashInv'
  BY <1>3, <1>4, QuietStep DEF Armed
<1> QED BY <1>8, <1>9, <1>10 DEF HoInv

LEMMA BootKeeps ==
  ASSUME HoInv, NEW r \in Runs, AwaitPort(r) \/ Probe(r) \/ Publish(r) \/ Bind(r) \/ Sweep(r)
  PROVE  HoInv'
<1>1. UNCHANGED <<desired, heir, files, before, crashed, reported>>
  BY DEF AwaitPort, Probe, Publish, Bind, Sweep, KeepFiles, Others
<1>2. CASE AwaitPort(r)
  <2>1. at[r] = "wait" /\ at' = [at EXCEPT ![r] = "probe"] /\ chosen' = chosen /\ runtime' = runtime
    BY <1>2 DEF AwaitPort, Move
  <2> QED BY <1>1, <2>1, GoesOn
<1>3. CASE Probe(r)
  <2>1. at[r] = "probe" /\ at' = [at EXCEPT ![r] = "arm"] /\ runtime' = runtime
    BY <1>3 DEF Probe, Move
  <2>2. \E p \in Ports : chosen' = [chosen EXCEPT ![r] = p]
    BY <1>3 DEF Probe
  <2> QED BY <1>1, <2>1, <2>2, GoesOn
<1>4. CASE Publish(r)
  BY <1>1, <1>4, GoesOn DEF Publish, Move
<1>5. CASE Bind(r)
  BY <1>1, <1>5, GoesOn DEF Bind, Move
<1>6. CASE Sweep(r)
  BY <1>1, <1>6, GoesOn DEF Sweep, Move, ClearPointer
<1> QED BY <1>2, <1>3, <1>4, <1>5, <1>6

\* A run that ends: with its file when it was armed, and never with the file of another.
LEMMA EndsKeeps ==
  ASSUME HoInv, NEW r \in Runs, at[r] # "gone", at' = [at EXCEPT ![r] = "gone"],
         UNCHANGED <<desired, heir, files, before, reported, chosen>>,
         crashed' = IF Armed(r) THEN crashed \cup {r} ELSE crashed,
         runtime' = 0 \/ runtime' = runtime
  PROVE  HoInv'
<1>1. HoTypeOK'
  BY DEF HoInv, HoTypeOK, Booting
<1>2. HasAPort'
  BY DEF HoInv, HoTypeOK, HasAPort
<1>3. /\ \A s \in Runs \ {r} : (Armed(s)' <=> Armed(s)) /\ (Gone(s)' <=> Gone(s))
      /\ Gone(r)' /\ ~Armed(r)' /\ ~Gone(r)
  BY DEF HoInv, HoTypeOK, Armed, Gone
<1>4. files \subseteq Runs
  BY DEF HoInv, HoTypeOK
<1>5. ArmedLeavesAFile' /\ FilesAreOfRuns' /\ OldFilesAreOfTheGone' /\ CrashesAreOver'
  BY <1>3, <1>4 DEF HoInv, CrashInv, ArmedLeavesAFile, FilesAreOfRuns, OldFilesAreOfTheGone,
     CrashesAreOver
<1>6. CASE Armed(r)
  <2>1. r \in files \ before /\ crashed' = crashed \cup {r}
    BY <1>6 DEF HoInv, CrashInv, ArmedLeavesAFile
  <2>2. {s \in files \ before : Gone(s)}' = {s \in files \ before : Gone(s)} \cup {r}
    BY <1>3, <1>4, <2>1
  <2>3. CrashIsReported'
    BY <2>1, <2>2 DEF HoInv, CrashInv, CrashIsReported
  <2> QED BY <1>1, <1>2, <1>5, <2>3 DEF HoInv, CrashInv
<1>7. CASE ~Armed(r)
  <2>1. r \notin files /\ crashed' = crashed
    BY <1>3, <1>7 DEF HoInv, CrashInv, FilesAreOfRuns
  <2>2. {s \in files \ before : Gone(s)}' = {s \in files \ before : Gone(s)}
    BY <1>3, <1>4, <2>1
  <2>3. CrashIsReported'
    BY <2>1, <2>2 DEF HoInv, CrashInv, CrashIsReported
  <2> QED BY <1>1, <1>2, <1>5, <2>3 DEF HoInv, CrashInv
<1> QED BY <1>6, <1>7

LEMMA EndKeeps ==
  ASSUME HoInv, NEW r \in Runs, BindFails(r) \/ Exit(r) \/ Dies(r)
  PROVE  HoInv'
<1>1. CASE BindFails(r)
  <2>1. at[r] = "bind" /\ Armed(r)
    BY <1>1 DEF BindFails, Move, Armed
  <2> QED BY <1>1, <2>1, EndsKeeps DEF BindFails, Move, ClearPointer
<1>2. CASE Exit(r)
  <2>1. at[r] = "swept" /\ ~Armed(r)
    BY <1>2 DEF Exit, Move, Armed
  <2> QED BY <1>2, <2>1, EndsKeeps DEF Exit, Move, ClearPointer, KeepFiles, Others
<1>3. CASE Dies(r)
  BY <1>3, EndsKeeps DEF Dies, ClearPointer
<1> QED BY <1>1, <1>2, <1>3

LEMMA GuardKeeps ==
  ASSUME HoInv, NEW r \in Runs, Guard(r)
  PROVE  HoInv'
<1>1. /\ at[r] = "guard" /\ UNCHANGED <<desired, heir, files, before, crashed, reported, runtime, chosen>>
      /\ at' = [at EXCEPT ![r] = "probe"] \/ at' = [at EXCEPT ![r] = "gone"]
  BY DEF Guard, Move, KeepFiles, Others
<1>2. CASE at' = [at EXCEPT ![r] = "probe"]
  BY <1>1, <1>2, GoesOn
<1>3. CASE at' = [at EXCEPT ![r] = "gone"]
  <2>1. ~Armed(r)
    BY <1>1 DEF Armed
  <2> QED BY <1>1, <1>3, <2>1, EndsKeeps
<1> QED BY <1>1, <1>2, <1>3

\* The boot that reads the run files reports each that a gone run left, and keeps the others.
LEMMA ArmKeeps ==
  ASSUME HoInv, NEW r \in Runs, Arm(r)
  PROVE  HoInv'
<1> DEFINE found == {s \in files \ before : Gone(s)}
<1>1. /\ at[r] = "arm" /\ at' = [at EXCEPT ![r] = "publish"]
      /\ reported' = reported \cup found
      /\ files' = {s \in files \ before : ~Gone(s)} \cup {r} /\ before' = {}
      /\ UNCHANGED <<desired, chosen, heir, runtime, crashed>>
  BY DEF Arm, Move
<1>2. files \subseteq Runs
  BY DEF HoInv, HoTypeOK
<1>3. HoTypeOK'
  BY <1>1, <1>2 DEF HoInv, HoTypeOK, Booting
<1>4. HasAPort'
  BY <1>1 DEF HoInv, HoTypeOK, HasAPort
<1>5. /\ \A s \in Runs \ {r} : (Armed(s)' <=> Armed(s)) /\ (Gone(s)' <=> Gone(s))
      /\ ~Gone(r)' /\ Armed(r)' /\ ~Gone(r)
  BY <1>1 DEF HoInv, HoTypeOK, Armed, Gone
<1>6. ArmedLeavesAFile'
  <2> SUFFICES ASSUME NEW s \in Runs, Armed(s)' PROVE s \in files' \ before'
    BY DEF ArmedLeavesAFile
  <2>1. s # r => Armed(s) /\ ~Gone(s)
    BY <1>5 DEF Armed, Gone
  <2> QED BY <1>1, <2>1 DEF HoInv, CrashInv, ArmedLeavesAFile
<1>7. FilesAreOfRuns' /\ OldFilesAreOfTheGone'
  BY <1>1, <1>2, <1>5 DEF HoInv, CrashInv, FilesAreOfRuns, OldFilesAreOfTheGone
<1>8. CrashesAreOver'
  BY <1>1, <1>2, <1>5 DEF HoInv, CrashInv, CrashesAreOver
<1>9. {s \in files \ before : Gone(s)}' = {}
  BY <1>1, <1>2, <1>5
<1>10. reported' \cap files' = {}
  BY <1>1, <1>5 DEF HoInv, CrashInv, CrashesAreOver, CrashIsReported
<1>11. CrashIsReported'
  BY <1>1, <1>9, <1>10 DEF HoInv, CrashInv, CrashIsReported
<1> QED BY <1>3, <1>4, <1>6, <1>7, <1>8, <1>11 DEF HoInv, CrashInv

LEMMA ShutdownKeeps ==
  ASSUME HoInv, NEW r \in Runs, Shutdown(r)
  PROVE  HoInv'
<1>1. /\ at[r] \in {"serve", "hand"} /\ at' = [at EXCEPT ![r] = "drain"] /\ files' = files \ {r}
      /\ UNCHANGED <<desired, chosen, heir, runtime, before, crashed, reported>>
  BY DEF Shutdown, Move
<1>2. files \subseteq Runs
  BY DEF HoInv, HoTypeOK
<1>3. /\ \A s \in Runs \ {r} : (Armed(s)' <=> Armed(s)) /\ (Gone(s)' <=> Gone(s))
      /\ ~Gone(r)' /\ ~Armed(r)' /\ ~Gone(r)
  BY <1>1 DEF HoInv, HoTypeOK, Armed, Gone
<1>4. r \notin before
  BY <1>3 DEF HoInv, CrashInv, OldFilesAreOfTheGone
<1>5. HoTypeOK'
  BY <1>1, <1>2, <1>4 DEF HoInv, HoTypeOK, Booting
<1>6. HasAPort'
  BY <1>1 DEF HoInv, HoTypeOK, HasAPort
<1>7. ArmedLeavesAFile' /\ FilesAreOfRuns' /\ OldFilesAreOfTheGone' /\ CrashesAreOver'
  BY <1>1, <1>2, <1>3, <1>4 DEF HoInv, CrashInv, ArmedLeavesAFile, FilesAreOfRuns,
     OldFilesAreOfTheGone, CrashesAreOver
<1>8. {s \in files \ before : Gone(s)}' = {s \in files \ before : Gone(s)}
  BY <1>1, <1>2, <1>3
<1>9. CrashIsReported'
  BY <1>1, <1>8 DEF HoInv, CrashInv, CrashIsReported
<1> QED BY <1>5, <1>6, <1>7, <1>9 DEF HoInv, CrashInv

LEMMA RebootKeeps ==
  ASSUME HoInv, Reboot
  PROVE  HoInv'
<1>1. /\ at' = [r \in Runs |-> IF at[r] = "none" THEN "none" ELSE "gone"]
      /\ before' = files /\ crashed' = crashed \cap reported
      /\ UNCHANGED <<desired, chosen, heir, runtime, files, reported>>
  BY DEF Reboot
<1>2. files \subseteq Runs /\ before \subseteq files
  BY DEF HoInv, HoTypeOK
<1>3. \A r \in Runs : (Gone(r) \/ Armed(r) => Gone(r)') /\ ~Armed(r)'
  BY <1>1 DEF Armed, Gone
<1>4. HoTypeOK'
  BY <1>1, <1>2 DEF HoInv, HoTypeOK, Booting
<1>5. HasAPort'
  BY <1>1 DEF HasAPort
<1>6. ArmedLeavesAFile' /\ FilesAreOfRuns' /\ OldFilesAreOfTheGone' /\ CrashesAreOver'
  BY <1>1, <1>2, <1>3 DEF HoInv, CrashInv, ArmedLeavesAFile, FilesAreOfRuns, OldFilesAreOfTheGone,
     CrashesAreOver
<1>7. CrashIsReported'
  BY <1>1 DEF HoInv, CrashInv, CrashIsReported
<1> QED BY <1>4, <1>5, <1>6, <1>7 DEF HoInv, CrashInv

LEMMA HoStep == HoInv /\ [HoNext]_hoVars => HoInv'
<1> SUFFICES ASSUME HoInv, [HoNext]_hoVars PROVE HoInv'
  OBVIOUS
<1>1. CASE Launch \/ Reboot
  BY <1>1, LaunchKeeps, RebootKeeps
<1>2. CASE ForeignTurns \/ UNCHANGED hoVars
  <2>1. UNCHANGED <<at, desired, chosen, heir, runtime, files, before, crashed, reported>>
    BY <1>2 DEF ForeignTurns, hoVars
  <2> QED BY <2>1 DEF HoInv, HoTypeOK, HasAPort, CrashInv, ArmedLeavesAFile, FilesAreOfRuns,
                      OldFilesAreOfTheGone, CrashesAreOver, CrashIsReported, Armed, Gone
<1>3. ASSUME NEW r \in Runs, Boots(r) \/ Relaunch(r) \/ Shutdown(r) \/ Sweep(r) \/ Exit(r) \/ Dies(r)
      PROVE  HoInv'
  BY <1>3, GuardKeeps, BootKeeps, ArmKeeps, EndKeeps, RelaunchKeeps, ShutdownKeeps DEF Boots
<1> QED BY <1>1, <1>2, <1>3 DEF HoNext

---------------------------------------------------------------------------------------
\* The pointer's invariant, step by step.
LEMMA PointerInitially == HoInit => PointerInv
BY RunsAreNaturals DEF HoInit, PointerInv, OneIsPast, LoneIsNamed, LastLeads, HeirsWait, OneBoots,
   WaitsForTheLast, Excused, Past, Named, Booting

\* A step that moves one run on, past no guard and not to the bind, and takes the pointer from
\* it at most.
LEMMA PointerMoves ==
  ASSUME HoInv, PointerInv, NEW r \in Runs, NEW to, at' = [at EXCEPT ![r] = to],
         Past' \subseteq Past,
         to \in Booting => at[r] \in Booting /\ to # "wait",
         to \in Named => at[r] \in Named,
         at[r] \in {"hand", "drain", "swept", "gone"} => to \in {"drain", "swept", "gone"},
         \A s \in Runs : at[s] \in {"hand", "drain", "swept", "gone"} => chosen'[s] = chosen[s],
         runtime' = runtime \/ (runtime = r /\ to \notin Named),
         UNCHANGED <<desired, heir, overlapped, missed, beside, last>>
  PROVE  PointerInv'
<1>1. \A s \in Runs : at'[s] = IF s = r THEN to ELSE at[s]
  BY DEF HoInv, HoTypeOK
<1>2. OneIsPast' /\ WaitsForTheLast'
  BY <1>1 DEF PointerInv, OneIsPast, WaitsForTheLast, Booting
<1>3. LoneIsNamed' /\ LastLeads'
  BY <1>1 DEF PointerInv, LoneIsNamed, LastLeads
<1>4. HeirsWait'
  BY <1>1 DEF PointerInv, HeirsWait, Booting
<1>5. OneBoots' /\ Excused'
  BY <1>1 DEF PointerInv, OneBoots, Excused
<1> QED BY <1>2, <1>3, <1>4, <1>5 DEF PointerInv

\* A run begins only with nobody in its boot, or it is an overlap.
LEMMA PointerBegins ==
  ASSUME HoInv, PointerInv, Launch \/ \E r \in Runs : Relaunch(r)
  PROVE  PointerInv'
<1>1. at \in [Runs -> Booting \cup {"none", "serve", "hand", "drain", "swept", "gone"}]
  BY DEF HoInv, HoTypeOK
<1>2. /\ \E r \in Runs : at[r] = "none"
      /\ overlapped' = (overlapped \/ \E r \in Runs : at[r] \in Booting)
  BY DEF Launch, Relaunch, Begin
<1>3. PICK n \in Runs : n = Newborn /\ at[n] = "none"
  BY <1>2, NewbornIsNone
<1>4. UNCHANGED <<runtime, chosen, missed, beside, last>>
  BY DEF Launch, Relaunch, Apart
<1>5. CASE Launch
  <2>1. at' = [at EXCEPT ![n] = "guard"] /\ UNCHANGED <<desired, heir>>
    BY <1>3, <1>5 DEF Launch
  <2>2. Past' = Past
    BY <1>1, <1>3, <2>1 DEF Past
  <2>3. OneIsPast' /\ LoneIsNamed' /\ LastLeads' /\ HeirsWait'
    BY <1>1, <1>3, <1>4, <2>1, <2>2 DEF PointerInv, OneIsPast, LoneIsNamed, LastLeads, HeirsWait,
       Named
  <2>4. OneBoots' /\ WaitsForTheLast' /\ Excused'
    BY <1>1, <1>2, <1>3, <1>4, <2>1, <2>2 DEF PointerInv, OneBoots, WaitsForTheLast, Excused, Booting
  <2> QED BY <2>3, <2>4 DEF PointerInv
<1>6. ASSUME NEW r \in Runs, Relaunch(r)
      PROVE  PointerInv'
  <2>1. /\ at[r] = "serve" /\ at' = [at EXCEPT ![r] = "hand", ![n] = "wait"]
        /\ desired' = [desired EXCEPT ![n] = chosen[r]] /\ heir' = [heir EXCEPT ![n] = r]
    BY <1>3, <1>6 DEF Relaunch
  <2>2. Past' = Past /\ r \in Past
    BY <1>1, <1>3, <2>1 DEF Past
  <2>3. OneIsPast' /\ LoneIsNamed' /\ LastLeads'
    BY <1>1, <1>3, <1>4, <2>1, <2>2 DEF PointerInv, OneIsPast, LoneIsNamed, LastLeads, Named
  <2>4. HeirsWait'
    BY <1>1, <1>3, <1>4, <2>1 DEF PointerInv, HeirsWait, HoInv, HoTypeOK
  <2>5. OneBoots' /\ Excused'
    BY <1>1, <1>2, <1>3, <1>4, <2>1 DEF PointerInv, OneBoots, Excused, Booting
  <2>6. WaitsForTheLast'
    BY <1>1, <1>2, <1>3, <1>4, <2>1, <2>2 DEF PointerInv, OneIsPast, WaitsForTheLast, Booting, HoInv,
       HoTypeOK
  <2> QED BY <2>3, <2>4, <2>5, <2>6 DEF PointerInv
<1> QED BY <1>5, <1>6

\* A run that passes its guard, or stops waiting for the port, is beside nobody, or two booted
\* at once, or the guard's probe missed.
LEMMA PointerPasses ==
  ASSUME HoInv, PointerInv, NEW r \in Runs, at[r] \in {"guard", "wait"},
         at' = [at EXCEPT ![r] = "probe"], Passes,
         UNCHANGED <<desired, chosen, heir, runtime, overlapped, last>>,
         missed \in BOOLEAN, missed => missed',
         \A s \in Past : ~overlapped /\ ~beside => missed'
  PROVE  PointerInv'
<1>1. at \in [Runs -> Booting \cup {"none", "serve", "hand", "drain", "swept", "gone"}]
  BY DEF HoInv, HoTypeOK
<1>2. Past' = Past \cup {r} /\ beside' = (Past # {})
  BY <1>1 DEF Past, Passes
<1>3. OneIsPast'
  BY <1>2 DEF OneIsPast
<1>4. LoneIsNamed' /\ LastLeads'
  BY <1>1, <1>2 DEF PointerInv, LoneIsNamed, LastLeads, Named, Past
<1>5. HeirsWait' /\ OneBoots'
  BY <1>1 DEF PointerInv, HeirsWait, OneBoots, Booting
<1>6. WaitsForTheLast'
  BY <1>1, <1>2 DEF PointerInv, OneBoots, WaitsForTheLast, Booting
<1>7. Excused'
  BY <1>2 DEF PointerInv, Excused
<1> QED BY <1>3, <1>4, <1>5, <1>6, <1>7 DEF PointerInv

LEMMA PointerBoots ==
  ASSUME HoInv, PointerInv, missed \in BOOLEAN, NEW r \in Runs, Boots(r)
  PROVE  PointerInv'
<1> USE RunsAreNaturals
<1>1. at \in [Runs -> Booting \cup {"none", "serve", "hand", "drain", "swept", "gone"}]
  BY DEF HoInv, HoTypeOK
<1>2. ASSUME NEW s \in Past, ~overlapped, at[r] \in {"guard", "wait"}
      PROVE  s \in Runs /\ at[s] \in {"serve", "hand"}
  BY <1>1, <1>2 DEF PointerInv, OneBoots, Past, Booting
<1>3. CASE Guard(r)
  <2>1. /\ at[r] = "guard"
        /\ UNCHANGED <<desired, chosen, heir, runtime, overlapped, last>>
    BY <1>3 DEF Guard, Move, KeepFiles
  <2>2. CASE at' = [at EXCEPT ![r] = "gone"] /\ UNCHANGED <<missed, beside>>
    <3>1. Past' \subseteq Past
      BY <1>1, <2>2 DEF Past
    <3> QED BY <2>1, <2>2, <3>1, PointerMoves DEF Booting, Named
  <2>3. CASE at' = [at EXCEPT ![r] = "probe"] /\ missed' = (missed \/ Seen) /\ Passes
    <3>1. ASSUME NEW s \in Past, ~overlapped, ~beside
          PROVE  Seen
      <4>1. s \in Runs /\ at[s] \in {"serve", "hand"}
        BY <1>2, <2>1, <3>1
      <4>2. runtime = s
        BY <3>1, <4>1 DEF PointerInv, LoneIsNamed, Named
      <4> QED BY <4>1, <4>2 DEF Seen, Served
    <3> QED BY <2>1, <2>3, <3>1, PointerPasses
  <2> QED BY <1>3, <2>2, <2>3 DEF Guard, Move
<1>4. CASE AwaitPort(r)
  <2>1. /\ at[r] = "wait" /\ at' = [at EXCEPT ![r] = "probe"] /\ Passes
        /\ UNCHANGED <<desired, chosen, heir, runtime, overlapped, missed, last>>
        /\ ~Bound(desired[r]) \/ at[heir[r]] # "hand"
    BY <1>4 DEF AwaitPort, Move, KeepFiles
  <2>2. ASSUME NEW s \in Past, ~overlapped, ~beside
        PROVE  FALSE
    <3>1. s \in Runs /\ at[s] \in {"serve", "hand"}
      BY <1>2, <2>1, <2>2
    <3>2. s = heir[r] /\ at[s] = "hand" /\ desired[r] = chosen[s]
      BY <2>1, <2>2, <3>1 DEF PointerInv, WaitsForTheLast, HeirsWait
    <3> QED BY <2>1, <3>1, <3>2 DEF Bound, Served
  <2> QED BY <2>1, <2>2, PointerPasses
<1>5. CASE Publish(r)
  <2>1. /\ at[r] = "publish" /\ at' = [at EXCEPT ![r] = "bind"] /\ runtime' = r /\ last' = r
        /\ UNCHANGED <<desired, chosen, heir, overlapped, missed, beside>>
    BY <1>5 DEF Publish, Move, KeepFiles
  <2>2. Past' = Past /\ r \in Past
    BY <1>1, <2>1 DEF Past
  <2>3. LoneIsNamed'
    BY <1>1, <2>1, <2>2 DEF PointerInv, OneIsPast, LoneIsNamed, Named, Past
  <2>4. LastLeads' /\ HeirsWait'
    BY <1>1, <2>1 DEF PointerInv, LastLeads, HeirsWait
  <2>5. OneIsPast' /\ OneBoots' /\ WaitsForTheLast' /\ Excused'
    BY <1>1, <2>1, <2>2 DEF PointerInv, OneIsPast, OneBoots, WaitsForTheLast, Excused, Booting
  <2> QED BY <2>3, <2>4, <2>5 DEF PointerInv
<1>6. CASE Probe(r)
  <2>1. /\ at[r] = "probe" /\ at' = [at EXCEPT ![r] = "arm"]
        /\ \E p \in Ports : chosen' = [chosen EXCEPT ![r] = p]
        /\ UNCHANGED <<desired, heir, runtime, overlapped, missed, beside, last>>
    BY <1>6 DEF Probe, Move, Apart, KeepFiles
  <2>2. Past' \subseteq Past
    BY <1>1, <2>1 DEF Past
  <2>3. \A s \in Runs : s # r => chosen'[s] = chosen[s]
    BY <2>1 DEF HoInv, HoTypeOK
  <2> QED BY <2>1, <2>2, <2>3, PointerMoves DEF Booting, Named
<1>7. CASE Arm(r) \/ Bind(r) \/ BindFails(r)
  <2>1. PICK to \in {"publish", "serve", "gone"} :
            /\ at' = [at EXCEPT ![r] = to]
            /\ \/ to = "publish" /\ at[r] = "arm"
               \/ to # "publish" /\ at[r] = "bind"
            /\ runtime' = runtime \/ (runtime = r /\ to = "gone")
    BY <1>7, Zenon DEF Arm, Bind, BindFails, Move, ClearPointer
  <2>2. UNCHANGED <<desired, chosen, heir, overlapped, missed, beside, last>>
    BY <1>7 DEF Arm, Bind, BindFails, Apart, KeepFiles
  <2>3. Past' \subseteq Past
    BY <1>1, <2>1 DEF Past
  <2> QED BY <2>1, <2>2, <2>3, PointerMoves DEF Booting, Named
<1> QED BY <1>3, <1>4, <1>5, <1>6, <1>7 DEF Boots

LEMMA PointerEnds ==
  ASSUME HoInv, PointerInv, NEW r \in Runs, Shutdown(r) \/ Sweep(r) \/ Exit(r) \/ Dies(r)
  PROVE  PointerInv'
<1>1. at \in [Runs -> Booting \cup {"none", "serve", "hand", "drain", "swept", "gone"}]
  BY DEF HoInv, HoTypeOK
<1>2. /\ \/ at' = [at EXCEPT ![r] = "drain"]
         \/ at' = [at EXCEPT ![r] = "swept"]
         \/ at' = [at EXCEPT ![r] = "gone"]
      /\ runtime' = runtime \/ runtime = r
  BY DEF Shutdown, Sweep, Exit, Dies, Move, ClearPointer
<1>3. UNCHANGED <<desired, chosen, heir, overlapped, missed, beside, last>>
  BY DEF Shutdown, Sweep, Exit, Dies, Apart, KeepFiles
<1>4. Past' \subseteq Past
  BY <1>1, <1>2 DEF Past
<1> QED BY <1>2, <1>3, <1>4, PointerMoves DEF Booting, Named

LEMMA PointerSettles ==
  ASSUME HoInv, PointerInv, Reboot \/ ForeignTurns \/ UNCHANGED hoVars
  PROVE  PointerInv'
<1>1. UNCHANGED <<desired, chosen, heir, runtime, overlapped, missed, beside, last>>
  BY DEF Reboot, ForeignTurns, Apart, hoVars
<1>2. CASE Reboot
  <2>1. \A r \in Runs : at'[r] \in {"none", "gone"}
    BY <1>2 DEF Reboot
  <2>2. Past' = {}
    BY <2>1 DEF Past
  <2> QED BY <1>1, <2>1, <2>2 DEF PointerInv, OneIsPast, LoneIsNamed, LastLeads, HeirsWait, OneBoots,
             WaitsForTheLast, Excused, Named, Booting
<1>3. CASE ForeignTurns \/ UNCHANGED hoVars
  <2>1. UNCHANGED at /\ UNCHANGED Past
    BY <1>3 DEF ForeignTurns, hoVars, Past
  <2> QED BY <1>1, <2>1 DEF PointerInv, OneIsPast, LoneIsNamed, LastLeads, HeirsWait, OneBoots,
             WaitsForTheLast, Excused
<1> QED BY <1>2, <1>3

MissedOrNot == missed \in BOOLEAN

LEMMA PointerStep ==
  HoInv /\ MissedOrNot /\ PointerInv /\ [HoNext]_hoVars => PointerInv' /\ MissedOrNot'
<1> SUFFICES ASSUME HoInv, MissedOrNot, PointerInv, [HoNext]_hoVars
             PROVE  PointerInv' /\ MissedOrNot'
  OBVIOUS
<1>1. PointerInv'
  BY PointerBegins, PointerBoots, PointerEnds, PointerSettles DEF HoNext, MissedOrNot
<1>2. missed' = missed \/ missed' = (missed \/ Seen)
  BY Zenon DEF HoNext, hoVars, Launch, Relaunch, Reboot, ForeignTurns, Boots, Guard, AwaitPort,
     Probe, Arm, Publish, Bind, BindFails, Shutdown, Sweep, Exit, Dies, Apart
<1>3. MissedOrNot'
  BY <1>2 DEF MissedOrNot
<1> QED BY <1>1, <1>3

\* Every run that ends without a shutdown puts exactly one later boot in safe mode, and
\* nothing else does (crash-sentinel.ts), across handovers, kills and reboots of the machine.
THEOREM CrashesAreReported == HoSpec => []CrashIsReported
<1>1. HoInv => CrashIsReported
  BY DEF HoInv, CrashInv
<1> QED BY <1>1, HoInitially, HoStep, PTL DEF HoSpec

---------------------------------------------------------------------------------------
(* TrayHost: the newest wrapper. *)

\* The types, with the worker's record and the Quit's stages.
Stages == {"none", "boot", "serve", "frozen", "dead"}
Places == {"none", "build", "check", "stop", "gone?", "kill", "create", "store", "await"}
QuitStages == {"run", "ask", "reap", "force", "leave", "gone"}
Daemons ==
    /\ gen \in [Gens -> Stages] /\ port \in [Gens -> 0 .. MaxGen] /\ pointer \in 0 .. MaxGen
    /\ mine \subseteq Gens /\ child \in 0 .. MaxGen /\ watched \subseteq Gens
WorkerHasAPlace == worker \in [at : Places, url : 0 .. MaxGen]
BusyIsWorking == busy = (worker.at # "none")
ThTypes == Daemons /\ WorkerHasAPlace /\ ui \in QuitStages /\ BusyIsWorking

\* Daemons come into being in order, so the newest wrapper is the latest of this tray's, and
\* a worker about to store one has made one.
BornInOrder == \A g, h \in Gens : gen[g] = "none" /\ g < h => gen[h] = "none"
MineAreBorn == \A g \in mine : gen[g] # "none"
StoresWhatItMade == worker.at = "store" => mine # {}
Wrappers == BornInOrder /\ MineAreBorn /\ StoresWhatItMade
Latest(g) == g \in mine /\ \A h \in mine : h <= g

\* CHILD_PID names it (NewestIsReached, its first two parts).
SlotNamesTheLatest ==
    \A g \in mine : Latest(g) /\ Running(g)
        => child = g \/ worker.at = "store" \/ ui \in {"force", "leave", "gone"}
SlotIsMine == child # 0 => child \in mine /\ \A g \in mine : g > child => worker.at = "store"
Slot == SlotNamesTheLatest /\ SlotIsMine

\* A Quit that met no restart under way finds the worker before its last look at `cancel`,
\* which it then heeds; so nothing is spawned any more, and what the reaping killed is dead.
Calm == ~raced
Canceled == cancel
QuitIsCalm == ui # "run" /\ Calm => Canceled /\ worker.at \in {"none", "build", "check"}
QuitReaches == ui \in {"force", "leave", "gone"} /\ Calm => \A g \in mine : Latest(g) => ~Running(g)

ThInv == ThTypes /\ Wrappers /\ Slot /\ QuitIsCalm /\ QuitReaches

LEMMA GensAreNaturals == MaxGen \in Nat \ {0} /\ Gens \subseteq Nat /\ 1 \in Gens /\ 0 \notin Gens /\ Gens \subseteq 0 .. MaxGen
BY TrayHostConstants DEF Gens

---------------------------------------------------------------------------------------
\* A set of daemons that has a member has a last one.
LEMMA LastExists ==
  ASSUME NEW S \in SUBSET Gens, S # {}
  PROVE  \E x \in S : \A y \in S : y <= x
<1> USE GensAreNaturals
<1> DEFINE T == {MaxGen - d : d \in S}
<1>1. T \subseteq Nat
  BY DEF Gens
<1>2. T # {}
  OBVIOUS
<1>3. PICK x \in T : \A y \in T : x <= y
  <2> HIDE DEF T
  <2> QED BY <1>1, <1>2, FirstExists
<1>4. PICK d \in S : x = MaxGen - d
  OBVIOUS
<1>5. ASSUME NEW e \in S PROVE e <= d
  <2>1. MaxGen - d <= MaxGen - e
    BY <1>3, <1>4
  <2> QED BY <2>1 DEF Gens
<1> QED BY <1>5

LEMMA NewestOwn ==
  ASSUME mine \in SUBSET Gens, mine # {}
  PROVE  Max(mine) \in mine /\ Latest(Max(mine)) /\ \A g : Latest(g) <=> g = Max(mine)
<1> USE GensAreNaturals
<1>1. mine \subseteq Gens
  OBVIOUS
<1>2. \E x \in mine : \A y \in mine : x >= y
  <2>1. PICK x \in mine : \A y \in mine : y <= x
    BY <1>1, LastExists
  <2> QED BY <1>1, <2>1
<1>3. Max(mine) \in mine /\ \A y \in mine : Max(mine) >= y
  BY <1>2, Zenon DEF Max
<1>4. Latest(Max(mine))
  BY <1>1, <1>3 DEF Latest
<1>5. ASSUME NEW g, Latest(g) PROVE g = Max(mine)
  <2>1. g \in mine /\ Max(mine) <= g /\ Max(mine) >= g
    BY <1>3, <1>5 DEF Latest
  <2>2. g \in Nat /\ Max(mine) \in Nat
    BY <1>1, <1>3, <2>1
  <2> QED BY <2>1, <2>2
<1> QED BY <1>3, <1>4, <1>5

\* The daemon that begins next comes after every one there was.
LEMMA NewestIsNext ==
  ASSUME ThInv, Unborn # {}
  PROVE  /\ Newest \in Gens /\ gen[Newest] = "none" /\ Newest \notin mine
         /\ \A h \in Gens : gen[h] # "none" => h < Newest
         /\ \A h \in Gens : gen[h] = "none" => Newest <= h
<1> USE GensAreNaturals
<1>1. \E x \in Unborn : \A y \in Unborn : x <= y
  BY FirstExists DEF Unborn
<1>2. Newest \in Unborn /\ \A y \in Unborn : Newest <= y
  BY <1>1, Zenon DEF Newest, Min
<1> HIDE DEF Newest
<1>3. Newest \in Gens /\ gen[Newest] = "none" /\ \A h \in Gens : gen[h] = "none" => Newest <= h
  BY <1>2 DEF Unborn
<1>4. ASSUME NEW h \in Gens, gen[h] # "none" PROVE h < Newest
  BY <1>3, <1>4 DEF ThInv, Wrappers, BornInOrder
<1>5. Newest \notin mine
  BY <1>3 DEF ThInv, Wrappers, MineAreBorn
<1> QED BY <1>3, <1>4, <1>5

\* A daemon that boots finds a port: one more is tried than there are other daemons.
LEMMA FreePort ==
  ASSUME ThTypes, NEW g \in Gens, gen[g] = "boot"
  PROVE  \E p \in 1 .. MaxGen : Owners({p}) = {} /\ \A q \in 1 .. (p - 1) : Owners({q}) # {}
<1> USE GensAreNaturals
<1> DEFINE P == {p \in 1 .. MaxGen : Owners({p}) = {}}
<1>1. P # {}
  <2> SUFFICES ASSUME \A p \in 1 .. MaxGen : Owners({p}) # {} PROVE FALSE
    OBVIOUS
  <2> DEFINE f == [p \in 1 .. MaxGen |-> CHOOSE h \in Gens : h \in Owners({p})]
  <2>1. ASSUME NEW p \in 1 .. MaxGen
        PROVE  f[p] \in Gens \ {g} /\ port[f[p]] = p
    <3>1. \E h \in Gens : h \in Owners({p})
      BY DEF Owners
    <3>2. f[p] \in Gens /\ f[p] \in Owners({p})
      BY <3>1
    <3> HIDE DEF f
    <3> QED BY <3>2 DEF Owners
  <2>2. f \in [1 .. MaxGen -> Gens \ {g}]
    BY <2>1
  <2>3. /\ IsFiniteSet(1 .. MaxGen) /\ Cardinality(1 .. MaxGen) = MaxGen
    <3>1. 1 \in Int /\ MaxGen \in Int /\ ~(1 > MaxGen)
      OBVIOUS
    <3>2. IsFiniteSet(1 .. MaxGen) /\ Cardinality(1 .. MaxGen) = MaxGen - 1 + 1
      BY <3>1, FS_Interval
    <3> QED BY <3>1, <3>2
  <2>4. IsFiniteSet(Gens \ {g}) /\ Cardinality(Gens \ {g}) = MaxGen - 1
    BY <2>3, FS_RemoveElement DEF Gens
  <2>5. PICK p, q \in 1 .. MaxGen : p # q /\ f[p] = f[q]
    <3>1. Cardinality(Gens \ {g}) < Cardinality(1 .. MaxGen)
      BY <2>3, <2>4
    <3> HIDE DEF f
    <3> QED BY <2>2, <2>3, <2>4, <3>1, FS_PigeonHole
  <2> HIDE DEF f
  <2> QED BY <2>1, <2>5
<1>2. P \in SUBSET Nat
  OBVIOUS
<1>3. PICK p \in P : \A q \in P : p <= q
  <2> HIDE DEF P
  <2> QED BY <1>1, <1>2, FirstExists
<1>4. ASSUME NEW q \in 1 .. (p - 1) PROVE Owners({q}) # {}
  BY <1>3
<1> QED BY <1>4

LEMMA TypesAreKept == ThTypes => ThTypeOK
<1> SUFFICES ASSUME ThTypes PROVE ThTypeOK
  OBVIOUS
<1>1. worker.at \in Places
  BY DEF ThTypes, WorkerHasAPlace
<1> QED BY <1>1, Zenon DEF ThTypes, Daemons, Stages, Places, BusyIsWorking, ThTypeOK

---------------------------------------------------------------------------------------
LEMMA ThInitially == ThInit => ThInv
<1> SUFFICES ASSUME ThInit PROVE ThInv
  OBVIOUS
<1> USE GensAreNaturals
<1>1. /\ port = [g \in Gens |-> IF g = 1 THEN 1 ELSE 0] /\ worker = [at |-> "none", url |-> 0]
      /\ ui = "run"
  BY Zenon DEF ThInit
<1>2. \/ /\ gen = [g \in Gens |-> IF g = 1 THEN "serve" ELSE "none"]
         /\ pointer = 1 /\ mine = {} /\ child = 0 /\ watched = {}
      \/ /\ gen = [g \in Gens |-> IF g = 1 THEN "boot" ELSE "none"]
         /\ pointer = 0 /\ mine = {1} /\ child = 1 /\ watched = {1}
  BY Zenon DEF ThInit
<1>3. Daemons
  BY <1>1, <1>2 DEF Daemons, Stages
<1>4. WorkerHasAPlace /\ ui \in QuitStages
  BY <1>1 DEF WorkerHasAPlace, Places, QuitStages
<1>5. BusyIsWorking
  <2>1. ~(worker.at # "none")
    BY <1>1
  <2>2. busy = FALSE
    BY Zenon DEF ThInit
  <2> QED BY <2>1, <2>2, Zenon DEF BusyIsWorking
<1>6. Wrappers
  BY <1>1, <1>2 DEF Wrappers, BornInOrder, MineAreBorn, StoresWhatItMade
<1>7. Slot
  BY <1>1, <1>2 DEF Slot, SlotNamesTheLatest, SlotIsMine, Latest
<1>8. QuitIsCalm /\ QuitReaches
  BY <1>1 DEF QuitIsCalm, QuitReaches
<1> QED BY <1>3, <1>4, <1>5, <1>6, <1>7, <1>8 DEF ThInv, ThTypes

\* A step that spawns nothing of the tray's own and neither fills nor empties the slot.
LEMMA Carries ==
  ASSUME ThInv, ThTypes', UNCHANGED <<mine, child, cancel, ui, raced>>, BornInOrder',
         \A g \in mine : gen'[g] # "none" /\ (Running(g)' => Running(g)),
         worker'.at = "store" <=> worker.at = "store",
         ui # "run" /\ Calm /\ Canceled => worker'.at = worker.at \/ worker'.at = "none"
  PROVE  ThInv'
<1>1. (Calm' <=> Calm) /\ (Canceled' <=> Canceled)
  BY Zenon DEF Calm, Canceled
<1>2. \A g : Latest(g)' <=> Latest(g)
  BY DEF Latest
<1>3. Wrappers'
  BY DEF ThInv, Wrappers, MineAreBorn, StoresWhatItMade
<1>4. Slot'
  BY <1>2 DEF ThInv, Slot, SlotNamesTheLatest, SlotIsMine
<1>5. QuitIsCalm'
  BY <1>1 DEF ThInv, QuitIsCalm
<1>6. QuitReaches'
  BY <1>1, <1>2 DEF ThInv, QuitReaches
<1> QED BY <1>3, <1>4, <1>5, <1>6 DEF ThInv

\* Deaths and thaws bring no daemon into being, nor back to life.
LEMMA NoneBorn ==
  ASSUME ThInv, gen' \in [Gens -> Stages],
         \A g \in Gens : /\ gen'[g] = "none" <=> gen[g] = "none"
                         /\ Running(g)' => Running(g)
  PROVE  /\ BornInOrder' /\ \A g \in mine : gen'[g] # "none" /\ (Running(g)' => Running(g))
<1>1. BornInOrder'
  BY DEF ThInv, Wrappers, BornInOrder
<1> QED BY <1>1 DEF ThInv, Wrappers, MineAreBorn, ThTypes, Daemons

LEMMA KilledOnly ==
  ASSUME ThInv, NEW gs, Kill(gs)
  PROVE  /\ gen' \in [Gens -> Stages]
         /\ \A g \in Gens : (gen'[g] = "none" <=> gen[g] = "none") /\ (Running(g)' => Running(g))
         /\ \A g \in gs \cap Gens : ~Running(g)'
  BY DEF ThInv, ThTypes, Daemons, Stages, Kill, Running

LEMMA ClosedOnly ==
  ASSUME ThInv, NEW g \in Gens, gen[g] \in {"serve", "frozen"}, Close(g)
  PROVE  /\ gen' \in [Gens -> Stages] /\ port' \in [Gens -> 0 .. MaxGen] /\ pointer' \in 0 .. MaxGen
         /\ \A h \in Gens : (gen'[h] = "none" <=> gen[h] = "none") /\ (Running(h)' => Running(h))
  BY GensAreNaturals DEF ThInv, ThTypes, Daemons, Stages, Close, Running

LEMMA TypesCarry ==
  ASSUME ThInv, gen' \in [Gens -> Stages], port' \in [Gens -> 0 .. MaxGen],
         pointer' \in 0 .. MaxGen,
         UNCHANGED <<mine, child, worker, busy, ui>>, watched' \subseteq Gens
  PROVE  ThTypes'
<1>1. Daemons' /\ WorkerHasAPlace' /\ ui' \in QuitStages
  BY DEF ThInv, ThTypes, Daemons, WorkerHasAPlace
<1>2. BusyIsWorking'
  BY Zenon DEF ThInv, ThTypes, BusyIsWorking
<1> QED BY <1>1, <1>2 DEF ThTypes

LEMMA BindsKeeps ==
  ASSUME ThInv, NEW g \in Gens, Binds(g)
  PROVE  ThInv'
<1> USE GensAreNaturals
<1>1. UNCHANGED <<mine, child, watched, worker, busy, cancel, ui, raced>>
  BY Zenon DEF Binds, thTray
<1>2. gen[g] = "boot" /\ gen' = [gen EXCEPT ![g] = "serve"]
  BY DEF Binds
<1>3. PICK free \in 1 .. MaxGen : port' = [port EXCEPT ![g] = free] /\ pointer' = free
  <2> DEFINE free == CHOOSE p \in 1 .. MaxGen : Owners({p}) = {} /\ \A q \in 1 .. (p - 1) : Owners({q}) # {}
  <2>1. free \in 1 .. MaxGen
    BY <1>2, FreePort, Zenon DEF ThInv
  <2>2. port' = [port EXCEPT ![g] = free] /\ pointer' = free
    BY Zenon DEF Binds
  <2> QED BY <2>1, <2>2
<1>4. gen' \in [Gens -> Stages] /\ port' \in [Gens -> 0 .. MaxGen] /\ pointer' \in 0 .. MaxGen
  BY <1>2, <1>3 DEF ThInv, ThTypes, Daemons, Stages
<1>5. \A h \in Gens : (gen'[h] = "none" <=> gen[h] = "none") /\ (Running(h)' => Running(h))
  BY <1>2 DEF ThInv, ThTypes, Daemons, Running
<1>6. ThTypes'
  BY <1>1, <1>4, TypesCarry DEF ThInv, ThTypes, Daemons
<1> QED BY <1>1, <1>4, <1>5, <1>6, NoneBorn, Carries

LEMMA TurnKeeps ==
  ASSUME ThInv, NEW g \in Gens, NEW from \in {"boot", "serve", "frozen"},
         NEW to \in {"serve", "frozen", "dead"}, Turn(g, from, to)
  PROVE  ThInv'
<1>1. UNCHANGED <<port, pointer, mine, child, watched, worker, busy, cancel, ui, raced>>
  BY Zenon DEF Turn, thTray
<1>2. gen[g] = from /\ gen' = [gen EXCEPT ![g] = to]
  BY DEF Turn
<1>3. gen' \in [Gens -> Stages]
  BY <1>2 DEF ThInv, ThTypes, Daemons, Stages
<1>4. \A h \in Gens : (gen'[h] = "none" <=> gen[h] = "none") /\ (Running(h)' => Running(h))
  BY <1>2 DEF ThInv, ThTypes, Daemons, Running
<1>5. ThTypes'
  BY <1>1, <1>3, TypesCarry DEF ThInv, ThTypes, Daemons
<1> QED BY <1>1, <1>3, <1>4, <1>5, NoneBorn, Carries

LEMMA ShutDownKeeps ==
  ASSUME ThInv, NEW g \in Gens, ShutDown(g)
  PROVE  ThInv'
<1>1. UNCHANGED <<mine, child, watched, worker, busy, cancel, ui, raced>>
  BY Zenon DEF ShutDown, thTray
<1>2. /\ gen' \in [Gens -> Stages] /\ port' \in [Gens -> 0 .. MaxGen] /\ pointer' \in 0 .. MaxGen
      /\ \A h \in Gens : (gen'[h] = "none" <=> gen[h] = "none") /\ (Running(h)' => Running(h))
  BY ClosedOnly DEF ShutDown
<1>3. ThTypes'
  BY <1>1, <1>2, TypesCarry DEF ThInv, ThTypes, Daemons
<1> QED BY <1>1, <1>2, <1>3, NoneBorn, Carries

LEMMA BornNext ==
  ASSUME ThInv, Unborn # {}, \A g \in Gens : gen'[g] = "none" <=> gen[g] = "none" /\ g # Newest
  PROVE  BornInOrder'
<1> USE GensAreNaturals
<1>1. PICK n \in Gens : n = Newest /\ \A h \in Gens : gen[h] = "none" => n <= h
  BY NewestIsNext
<1>2. ASSUME NEW g \in Gens, NEW h \in Gens, gen'[g] = "none", g < h
      PROVE  gen'[h] = "none"
  BY <1>1, <1>2 DEF ThInv, Wrappers, BornInOrder
<1> QED BY <1>2 DEF BornInOrder

LEMMA SelfRelaunchKeeps ==
  ASSUME ThInv, NEW g \in Gens, SelfRelaunch(g)
  PROVE  ThInv'
<1> USE GensAreNaturals
<1>1. UNCHANGED <<port, mine, child, watched, worker, busy, cancel, ui, raced>>
  BY Zenon DEF SelfRelaunch, thTray
<1>2. PICK n \in Gens : n = Newest /\ gen[n] = "none" /\ n \notin mine
  BY NewestIsNext DEF SelfRelaunch
<1>3. /\ gen[g] = "serve" /\ Unborn # {} /\ gen' = [gen EXCEPT ![g] = "dead", ![n] = "boot"]
      /\ pointer' = IF pointer = port[g] THEN 0 ELSE pointer
  BY <1>2 DEF SelfRelaunch
<1>4. gen' \in [Gens -> Stages] /\ pointer' \in 0 .. MaxGen
  BY <1>3 DEF ThInv, ThTypes, Daemons, Stages
<1>5. BornInOrder'
  BY <1>2, <1>3, BornNext DEF ThInv, ThTypes, Daemons
<1>6. \A h \in mine : gen'[h] # "none" /\ (Running(h)' => Running(h))
  BY <1>2, <1>3 DEF ThInv, ThTypes, Daemons, Wrappers, MineAreBorn, Running
<1>7. ThTypes'
  BY <1>1, <1>4, TypesCarry DEF ThInv, ThTypes, Daemons
<1> QED BY <1>1, <1>5, <1>6, <1>7, Carries

\* The slot is emptied only for a wrapper that has ended.
LEMMA ChildEndedKeeps ==
  ASSUME ThInv, NEW g \in Gens, ChildEnded(g)
  PROVE  ThInv'
<1> USE GensAreNaturals
<1>1. UNCHANGED <<gen, port, pointer, mine, worker, busy, cancel, ui, raced>>
  BY Zenon DEF ChildEnded, thDaemons, thTray
<1>2. ~Running(g) /\ watched' \subseteq watched /\ child' = IF child = g THEN 0 ELSE child
  BY DEF ChildEnded
<1>3. Daemons' /\ WorkerHasAPlace' /\ ui' \in QuitStages
  BY <1>1, <1>2 DEF ThInv, ThTypes, Daemons, WorkerHasAPlace
<1>4. BusyIsWorking' 
  BY <1>1, Zenon DEF ThInv, ThTypes, BusyIsWorking
<1>5. (\A h : Latest(h)' <=> Latest(h)) /\ \A h \in mine : Running(h)' <=> Running(h)
  BY <1>1 DEF Latest, Running
<1>6. Wrappers'
  BY <1>1 DEF ThInv, Wrappers, BornInOrder, MineAreBorn, StoresWhatItMade
<1>7. Slot'
  BY <1>1, <1>2, <1>5 DEF ThInv, Slot, SlotNamesTheLatest, SlotIsMine
<1>8. (Calm' <=> Calm) /\ (Canceled' <=> Canceled)
  BY <1>1, Zenon DEF Calm, Canceled
<1>9. QuitIsCalm' /\ QuitReaches'
  BY <1>1, <1>5, <1>8 DEF ThInv, QuitIsCalm, QuitReaches
<1> QED BY <1>3, <1>4, <1>6, <1>7, <1>9 DEF ThInv, ThTypes

---------------------------------------------------------------------------------------
LEMMA StartWorkerKeeps ==
  ASSUME ThInv, NEW rebuild \in BOOLEAN, StartWorker(rebuild)
  PROVE  ThInv'
<1> USE GensAreNaturals
<1>1. UNCHANGED <<gen, port, pointer, mine, child, watched, ui, raced>>
  BY Zenon DEF StartWorker, thDaemons
<1>2. worker' = [at |-> "build", url |-> 0] \/ worker' = [at |-> "check", url |-> 0]
  BY Zenon DEF StartWorker
<1>3. busy' = TRUE
  BY Zenon DEF StartWorker
<1>4. worker.at = "none"
  <2>1. ~busy
    BY Zenon DEF StartWorker
  <2> QED BY <2>1, Zenon DEF ThInv, ThTypes, BusyIsWorking
<1>5. worker'.at # "none" /\ worker'.at # "store"
  BY <1>2
<1>6. ui = "run"
  BY Zenon DEF StartWorker
<1>7. Daemons' /\ WorkerHasAPlace' /\ ui' \in QuitStages
  BY <1>1, <1>2 DEF ThInv, ThTypes, Daemons, WorkerHasAPlace, Places
<1>8. BusyIsWorking'
  BY <1>3, <1>5, Zenon DEF BusyIsWorking
<1>9. (\A h : Latest(h)' <=> Latest(h)) /\ \A h \in mine : Running(h)' <=> Running(h)
  BY <1>1 DEF Latest, Running
<1>10. Wrappers'
  BY <1>1, <1>5 DEF ThInv, Wrappers, BornInOrder, MineAreBorn, StoresWhatItMade
<1>11. Slot'
  BY <1>1, <1>4, <1>5, <1>9 DEF ThInv, Slot, SlotNamesTheLatest, SlotIsMine
<1>12. QuitIsCalm' /\ QuitReaches'
  BY <1>1, <1>6 DEF QuitIsCalm, QuitReaches
<1> QED BY <1>7, <1>8, <1>10, <1>11, <1>12 DEF ThInv, ThTypes

\* What the worker does between its start and its end, the spawn aside.
LEMMA Works ==
  ASSUME ThInv, gen' \in [Gens -> Stages], port' \in [Gens -> 0 .. MaxGen],
         pointer' \in 0 .. MaxGen,
         \A g \in Gens : (gen'[g] = "none" <=> gen[g] = "none") /\ (Running(g)' => Running(g)),
         UNCHANGED <<mine, child, watched, cancel, ui, raced>>,
         worker' \in [at : Places, url : 0 .. MaxGen], BusyIsWorking', worker.at # "store",
         worker'.at # "store",
         worker.at \in {"none", "build", "check"} /\ Canceled => worker'.at = "none"
  PROVE  ThInv'
<1>1. Daemons' /\ WorkerHasAPlace' /\ ui' \in QuitStages
  BY DEF ThInv, ThTypes, Daemons, WorkerHasAPlace
<1>2. ThTypes'
  BY <1>1 DEF ThTypes
<1>3. ui # "run" /\ Calm /\ Canceled => worker'.at = worker.at \/ worker'.at = "none"
  BY DEF ThInv, QuitIsCalm
<1> QED BY <1>2, <1>3, NoneBorn, Carries

LEMMA GoesTo ==
  ASSUME ThInv, NEW place \in Places \ {"none"}, worker.at # "none", Goto(place)
  PROVE  /\ worker' \in [at : Places, url : 0 .. MaxGen] /\ worker'.at = place /\ BusyIsWorking'
         /\ UNCHANGED <<cancel, ui, raced>>
<1>1. worker' = [worker EXCEPT !.at = place] 
  BY DEF Goto
<1>2. worker' \in [at : Places, url : 0 .. MaxGen] /\ worker'.at = place
  BY <1>1 DEF ThInv, ThTypes, WorkerHasAPlace
<1>3. worker.at # "none" /\ worker'.at # "none"
  BY <1>2
<1>4. BusyIsWorking'
  BY <1>3, Zenon DEF Goto, ThInv, ThTypes, BusyIsWorking
<1>5. UNCHANGED <<cancel, ui, raced>>
  BY Zenon DEF Goto
<1> QED BY <1>2, <1>4, <1>5

LEMMA IsDone ==
  ASSUME Done
  PROVE  /\ worker' \in [at : Places, url : 0 .. MaxGen] /\ worker'.at = "none" /\ BusyIsWorking'
         /\ UNCHANGED <<cancel, ui, raced>>
<1>1. worker' = [at |-> "none", url |-> 0]
  BY Zenon DEF Done
<1>2. worker' \in [at : Places, url : 0 .. MaxGen] /\ worker'.at = "none"
  BY <1>1, GensAreNaturals DEF Places
<1>3. BusyIsWorking'
  BY <1>2, Zenon DEF Done, BusyIsWorking
<1>4. UNCHANGED <<cancel, ui, raced>>
  BY Zenon DEF Done
<1> QED BY <1>2, <1>3, <1>4

LEMMA UrlType == ThInv => LiveUrl \in 0 .. MaxGen
BY GensAreNaturals DEF LiveUrl, ThInv, ThTypes, Daemons

LEMMA DaemonsStay ==
  ASSUME ThInv, UNCHANGED thDaemons
  PROVE  /\ gen' \in [Gens -> Stages] /\ port' \in [Gens -> 0 .. MaxGen] /\ pointer' \in 0 .. MaxGen
         /\ \A g \in Gens : (gen'[g] = "none" <=> gen[g] = "none") /\ (Running(g)' => Running(g))
BY DEF thDaemons, ThInv, ThTypes, Daemons, Running

LEMMA BuildCheckKeep ==
  ASSUME ThInv, Build \/ Check
  PROVE  ThInv'
<1>1. UNCHANGED thDaemons /\ UNCHANGED <<mine, child, watched>> /\ worker.at \in {"build", "check"}
  BY DEF Build, Check, At
<1>2. CASE Done
  BY <1>1, <1>2, IsDone, DaemonsStay, Works
<1>3. CASE ~Done
  <2>1. PICK place \in {"check", "stop"} : Goto(place) /\ ~Canceled
    BY <1>3, Zenon DEF Build, Check, Canceled
  <2>2. place \in Places \ {"none"} /\ place # "store" /\ worker.at # "none" /\ worker.at # "store"
    BY <1>1, <2>1 DEF Places
  <2>3. /\ worker' \in [at : Places, url : 0 .. MaxGen] /\ worker'.at = place /\ BusyIsWorking'
        /\ UNCHANGED <<cancel, ui, raced>>
    BY <2>1, <2>2, GoesTo
  <2> QED BY <1>1, <2>1, <2>2, <2>3, DaemonsStay, Works
<1> QED BY <1>2, <1>3

LEMMA StopKeeps ==
  ASSUME ThInv, StopNobody \/ StopWaits \/ StopKills
  PROVE  ThInv'
<1>1. UNCHANGED <<mine, child, watched>> /\ worker.at \in {"stop", "gone?", "kill"}
  BY DEF StopNobody, StopWaits, StopKills, At
<1>2. PICK place \in {"create", "kill"} : Goto(place)
  BY Zenon DEF StopNobody, StopWaits, StopKills
<1>3. place \in Places \ {"none"} /\ place # "store" /\ worker.at # "none" /\ worker.at # "store"
      /\ worker.at \notin {"none", "build", "check"}
  BY <1>1, <1>2 DEF Places
<1>4. /\ worker' \in [at : Places, url : 0 .. MaxGen] /\ worker'.at = place /\ BusyIsWorking'
      /\ UNCHANGED <<cancel, ui, raced>>
  BY <1>2, <1>3, GoesTo
<1>5. /\ gen' \in [Gens -> Stages] /\ port' \in [Gens -> 0 .. MaxGen] /\ pointer' \in 0 .. MaxGen
      /\ \A g \in Gens : (gen'[g] = "none" <=> gen[g] = "none") /\ (Running(g)' => Running(g))
  <2>1. CASE StopKills
    <3>1. Kill(Owners({1, worker.url})) /\ UNCHANGED <<port, pointer>>
      BY <2>1 DEF StopKills
    <3>2. gen' \in [Gens -> Stages] 
          /\ \A g \in Gens : (gen'[g] = "none" <=> gen[g] = "none") /\ (Running(g)' => Running(g))
      BY <3>1, KilledOnly
    <3> QED BY <3>1, <3>2 DEF ThInv, ThTypes, Daemons
  <2>2. CASE StopNobody \/ StopWaits
    <3>1. UNCHANGED thDaemons
      BY <2>2, Zenon DEF StopNobody, StopWaits
    <3> QED BY <3>1, DaemonsStay
  <2> QED BY <2>1, <2>2
<1> QED BY <1>1, <1>3, <1>4, <1>5, Works

LEMMA StopAsksKeeps ==
  ASSUME ThInv, StopAsks
  PROVE  ThInv'
<1>1. UNCHANGED <<mine, child, watched, cancel, ui, raced>>
  BY Zenon DEF StopAsks
<1>2. UNCHANGED busy
  BY Zenon DEF StopAsks
<1>3. worker.at = "stop"
  BY Zenon DEF StopAsks, At
<1>4. PICK place \in {"gone?", "kill"} : worker' = [at |-> place, url |-> LiveUrl]
  BY Zenon DEF StopAsks
<1>5. worker' \in [at : Places, url : 0 .. MaxGen] /\ worker'.at = place
  BY <1>4, UrlType DEF Places
<1>6. worker.at # "none" /\ worker'.at # "none" /\ worker.at # "store" /\ worker'.at # "store"
      /\ worker.at \notin {"none", "build", "check"}
  BY <1>3, <1>5
<1>7. BusyIsWorking'
  BY <1>2, <1>6, Zenon DEF ThInv, ThTypes, BusyIsWorking
<1>8. /\ gen' \in [Gens -> Stages] /\ port' \in [Gens -> 0 .. MaxGen] /\ pointer' \in 0 .. MaxGen
      /\ \A g \in Gens : (gen'[g] = "none" <=> gen[g] = "none") /\ (Running(g)' => Running(g))
  <2>1. CASE UNCHANGED thDaemons
    BY <2>1, DaemonsStay
  <2>2. CASE ~UNCHANGED thDaemons
    <3>1. /\ LiveUrl # 0 /\ \E g \in Owners({LiveUrl}) : Close(g)
      BY <2>2, Zenon DEF StopAsks
    <3>2. PICK g \in Owners({LiveUrl}) : Close(g)
      BY <3>1
    <3>3. g \in Gens /\ gen[g] \in {"serve", "frozen"}
      BY <3>2 DEF Owners
    <3> QED BY <3>2, <3>3, ClosedOnly
  <2> QED BY <2>1, <2>2
<1> QED BY <1>1, <1>5, <1>6, <1>7, <1>8, Works

LEMMA AwaitKeeps ==
  ASSUME ThInv, Await
  PROVE  ThInv'
<1>1. UNCHANGED thDaemons /\ UNCHANGED <<mine, child, watched>> /\ worker.at = "await" /\ Done
  BY DEF Await, At
<1> QED BY <1>1, IsDone, DaemonsStay, Works

\* A restart spawns the daemon, and only then stores who it is.
LEMMA CreateKeeps ==
  ASSUME ThInv, Create
  PROVE  ThInv'
<1> USE GensAreNaturals
<1>1. worker.at = "create" /\ Unborn # {}
  BY DEF Create, At
<1>2. PICK n \in Gens : /\ n = Newest /\ gen[n] = "none" /\ n \notin mine
                        /\ \A h \in Gens : gen[h] # "none" => h < n
  BY <1>1, NewestIsNext
<1>3. /\ gen' = [gen EXCEPT ![n] = "boot"] /\ mine' = mine \cup {n} /\ Goto("store")
      /\ UNCHANGED <<port, pointer, child, watched>>
  BY <1>2 DEF Create
<1>4. "store" \in Places \ {"none"} /\ worker.at # "none"
  BY <1>1 DEF Places
<1>5. /\ worker' \in [at : Places, url : 0 .. MaxGen] /\ worker'.at = "store" /\ BusyIsWorking'
      /\ UNCHANGED <<cancel, ui, raced>>
  BY <1>3, <1>4, GoesTo
<1>6. ThTypes'
  <2>1. Daemons' /\ WorkerHasAPlace' /\ ui' \in QuitStages
    BY <1>3, <1>5 DEF ThInv, ThTypes, Daemons, Stages, WorkerHasAPlace
  <2> QED BY <1>5, <2>1 DEF ThTypes
<1>7. Wrappers'
  <2>1. BornInOrder'
    BY <1>1, <1>2, <1>3, BornNext DEF ThInv, ThTypes, Daemons
  <2> QED BY <1>3, <2>1 DEF ThInv, ThTypes, Daemons, Wrappers, MineAreBorn, StoresWhatItMade
<1>8. Slot'
  BY <1>3, <1>5 DEF ThInv, Slot, SlotNamesTheLatest, SlotIsMine
<1>9. QuitIsCalm' /\ QuitReaches'
  <2>1. (Calm' <=> Calm) /\ ~(ui # "run" /\ Calm)
    <3>1. Calm' <=> Calm
      BY <1>5, Zenon DEF Calm
    <3> QED BY <1>1, <3>1 DEF ThInv, QuitIsCalm
  <2> QED BY <1>5, <2>1 DEF QuitIsCalm, QuitReaches
<1> QED BY <1>6, <1>7, <1>8, <1>9 DEF ThInv

LEMMA StoreKeeps ==
  ASSUME ThInv, Store
  PROVE  ThInv'
<1> USE GensAreNaturals
<1>1. worker.at = "store" /\ UNCHANGED <<gen, port, pointer, mine>>
  BY Zenon DEF Store, At, thDaemons
<1>2. mine \in SUBSET Gens /\ mine # {}
  BY <1>1 DEF ThInv, ThTypes, Daemons, Wrappers, StoresWhatItMade
<1>3. PICK m \in mine : m = Max(mine) /\ Latest(m) /\ \A g : Latest(g) <=> g = m
  BY <1>2, NewestOwn
<1>4. child' = m /\ watched' = watched \cup {m} /\ worker' = [worker EXCEPT !.at = "await"]
  BY <1>3 DEF Store
<1>5. UNCHANGED <<busy, cancel, ui, raced>>
  BY Zenon DEF Store
<1>6. worker' \in [at : Places, url : 0 .. MaxGen] /\ worker'.at = "await"
  BY <1>4 DEF ThInv, ThTypes, WorkerHasAPlace, Places
<1>7. Daemons' /\ WorkerHasAPlace' /\ ui' \in QuitStages
  BY <1>1, <1>2, <1>4, <1>5, <1>6 DEF ThInv, ThTypes, Daemons, WorkerHasAPlace
<1>8. BusyIsWorking'
  <2>1. worker.at # "none" /\ worker'.at # "none"
    BY <1>1, <1>6
  <2> QED BY <1>5, <2>1, Zenon DEF ThInv, ThTypes, BusyIsWorking
<1>9. Wrappers'
  BY <1>1, <1>6 DEF ThInv, Wrappers, BornInOrder, MineAreBorn, StoresWhatItMade
<1>10. \A g : Latest(g)' <=> g = m
  BY <1>1, <1>3 DEF Latest
<1>11. Slot'
  <2>1. SlotNamesTheLatest'
    BY <1>4, <1>10 DEF SlotNamesTheLatest
  <2>2. SlotIsMine'
    BY <1>1, <1>2, <1>3, <1>4 DEF SlotIsMine, Latest
  <2> QED BY <2>1, <2>2 DEF Slot
<1>12. QuitIsCalm' /\ QuitReaches'
  <2>1. (Calm' <=> Calm) /\ ~(ui # "run" /\ Calm)
    <3>1. Calm' <=> Calm
      BY <1>5, Zenon DEF Calm
    <3> QED BY <1>1, <3>1 DEF ThInv, QuitIsCalm
  <2> QED BY <1>5, <2>1 DEF QuitIsCalm, QuitReaches
<1> QED BY <1>7, <1>8, <1>9, <1>11, <1>12 DEF ThInv, ThTypes

---------------------------------------------------------------------------------------
\* A revive comes when no worker runs: its wrapper takes the slot, or the old one is killed.
LEMMA ReviveKeeps ==
  ASSUME ThInv, Revive
  PROVE  ThInv'
<1> USE GensAreNaturals
<1>1. UNCHANGED <<port, pointer, worker, busy, cancel, ui, raced>>
  BY Zenon DEF Revive, thTray
<1>2. worker.at = "none" /\ ui = "run" /\ Unborn # {}
  <2>1. ~busy /\ ui = "run" /\ Unborn # {}
    BY Zenon DEF Revive
  <2>2. worker.at = "none"
    BY <2>1, Zenon DEF ThInv, ThTypes, BusyIsWorking
  <2> QED BY <2>1, <2>2
<1>3. PICK n \in Gens : /\ n = Newest /\ gen[n] = "none" /\ n \notin mine
                        /\ \A h \in Gens : gen[h] # "none" => h < n
  BY <1>2, NewestIsNext
<1>4. WorkerHasAPlace' /\ ui' \in QuitStages
  BY <1>1 DEF ThInv, ThTypes, WorkerHasAPlace
<1>5. BusyIsWorking'
  BY <1>1, Zenon DEF ThInv, ThTypes, BusyIsWorking
<1>6. QuitIsCalm' /\ QuitReaches'
  BY <1>1, <1>2 DEF QuitIsCalm, QuitReaches
<1> DEFINE reaped == ({child} \cap Gens) \cup Owners({1, pointer} \ {0})
<1>7. \/ /\ gen' = [g \in Gens |-> IF g \in reaped /\ Running(g) THEN "dead"
                                   ELSE IF g = n THEN "boot" ELSE gen[g]]
         /\ mine' = mine \cup {n} /\ child' = n /\ watched' = watched \cup {n}
      \/ Kill({child}) /\ child' = 0 /\ UNCHANGED <<mine, watched>>
  BY <1>3, Zenon DEF Revive
<1>8. CASE Kill({child}) /\ child' = 0 /\ UNCHANGED <<mine, watched>>
  <2>1. /\ gen' \in [Gens -> Stages]
        /\ \A g \in Gens : (gen'[g] = "none" <=> gen[g] = "none") /\ (Running(g)' => Running(g))
        /\ \A g \in {child} \cap Gens : ~Running(g)'
    BY <1>8, KilledOnly
  <2>2. Daemons'
    BY <1>1, <1>8, <2>1 DEF ThInv, ThTypes, Daemons
  <2>3. \A g : Latest(g)' <=> Latest(g)
    BY <1>8 DEF Latest
  <2>4. Wrappers'
    BY <1>1, <1>2, <1>8, <2>1, NoneBorn DEF ThInv, Wrappers, MineAreBorn, StoresWhatItMade
  <2>5. Slot'
    BY <1>1, <1>2, <1>8, <2>1, <2>3 DEF ThInv, ThTypes, Daemons, Slot, SlotNamesTheLatest,
       SlotIsMine
  <2> QED BY <1>4, <1>5, <1>6, <2>2, <2>4, <2>5 DEF ThInv, ThTypes
<1>9. CASE /\ gen' = [g \in Gens |-> IF g \in reaped /\ Running(g) THEN "dead"
                                     ELSE IF g = n THEN "boot" ELSE gen[g]]
           /\ mine' = mine \cup {n} /\ child' = n /\ watched' = watched \cup {n}
  <2>1. ~Running(n)
    BY <1>3 DEF Running
  <2>2. \A g \in Gens : gen'[g] = "none" <=> gen[g] = "none" /\ g # n
    BY <1>9, <2>1 DEF Running
  <2>3. gen' \in [Gens -> Stages]
    BY <1>9 DEF ThInv, ThTypes, Daemons, Stages
  <2>4. Daemons'
    BY <1>1, <1>9, <2>3 DEF ThInv, ThTypes, Daemons
  <2>5. BornInOrder'
    BY <1>2, <1>3, <2>2, BornNext
  <2>6. Wrappers'
    BY <1>1, <1>2, <1>3, <1>9, <2>2, <2>5 DEF ThInv, ThTypes, Daemons, Wrappers, MineAreBorn,
       StoresWhatItMade
  <2>7. \A h \in mine' : h <= n
    BY <1>3, <1>9 DEF ThInv, ThTypes, Daemons, Wrappers, MineAreBorn
  <2>8. SlotNamesTheLatest'
    <3> SUFFICES ASSUME NEW g \in mine', Latest(g)' PROVE g = n
      BY <1>9 DEF SlotNamesTheLatest
    <3>1. n <= g /\ g <= n /\ g \in Nat
      BY <1>9, <2>4, <2>7 DEF Latest, Daemons
    <3> QED BY <3>1
  <2>9. SlotIsMine'
    <3> SUFFICES ASSUME NEW g \in mine', g > n PROVE FALSE
      BY <1>9 DEF SlotIsMine
    <3>1. g <= n /\ g \in Nat
      BY <2>4, <2>7 DEF Daemons
    <3> QED BY <3>1
  <2> QED BY <1>4, <1>5, <1>6, <2>4, <2>6, <2>8, <2>9 DEF ThInv, ThTypes, Slot
<1> QED BY <1>7, <1>8, <1>9

\* A step of the Quit spawns nothing and moves no worker.
LEMMA QuitKeeps ==
  ASSUME ThInv, Quit
  PROVE  ThInv'
<1>1. UNCHANGED <<gen, port, pointer, mine, child, watched, worker, busy>>
  BY Zenon DEF Quit, thDaemons
<1>2. ui = "run" /\ ui' = "ask"
  BY Zenon DEF Quit
<1>3. Daemons' /\ WorkerHasAPlace' /\ ui' \in QuitStages
  BY <1>1, <1>2 DEF ThInv, ThTypes, Daemons, WorkerHasAPlace, QuitStages
<1>4. BusyIsWorking'
  BY <1>1, Zenon DEF ThInv, ThTypes, BusyIsWorking
<1>5. (\A h : Latest(h)' <=> Latest(h)) /\ \A h \in mine : Running(h)' <=> Running(h)
  BY <1>1 DEF Latest, Running
<1>6. Wrappers'
  BY <1>1 DEF ThInv, Wrappers, BornInOrder, MineAreBorn, StoresWhatItMade
<1>7. Slot'
  BY <1>1, <1>2, <1>5 DEF ThInv, Slot, SlotNamesTheLatest, SlotIsMine
<1>8. Canceled' /\ (Calm' => worker'.at \in {"none", "build", "check"})
  <2>1. Canceled'
    BY Zenon DEF Quit, Canceled
  <2>2. Calm' => worker.at \in {"none", "build", "check"}
    BY Zenon DEF Quit, Calm
  <2> QED BY <1>1, <2>1, <2>2
<1>9. QuitIsCalm' /\ QuitReaches'
  BY <1>2, <1>8 DEF QuitIsCalm, QuitReaches
<1> QED BY <1>3, <1>4, <1>6, <1>7, <1>9 DEF ThInv, ThTypes

LEMMA QuitGoesOn ==
  ASSUME ThInv, gen' \in [Gens -> Stages], port' \in [Gens -> 0 .. MaxGen],
         pointer' \in 0 .. MaxGen,
         \A g \in Gens : (gen'[g] = "none" <=> gen[g] = "none") /\ (Running(g)' => Running(g)),
         UNCHANGED <<mine, watched, worker, busy, cancel, raced>>, ui # "run", ui' # "run",
         ui' \in QuitStages,
         child' = child \/ (child' = 0 /\ ui' = "force"),
         ui \in {"force", "leave", "gone"} => ui' \in {"force", "leave", "gone"}, 
         ui' \in {"force", "leave", "gone"} =>
             \/ ui \in {"force", "leave", "gone"}
             \/ \A g \in mine : child = g => ~Running(g)'
  PROVE  ThInv'
<1> USE GensAreNaturals
<1>1. Daemons' /\ WorkerHasAPlace'
  BY DEF ThInv, ThTypes, Daemons, WorkerHasAPlace
<1>2. BusyIsWorking'
  BY Zenon DEF ThInv, ThTypes, BusyIsWorking
<1>3. (\A h : Latest(h)' <=> Latest(h))
  BY DEF Latest
<1>4. Wrappers'
  BY NoneBorn DEF ThInv, Wrappers, MineAreBorn, StoresWhatItMade
<1>5. mine \subseteq Gens
  BY DEF ThInv, ThTypes, Daemons
<1>6. Slot'
  BY <1>3, <1>5 DEF ThInv, Slot, SlotNamesTheLatest, SlotIsMine
<1>7. (Calm' <=> Calm) /\ (Canceled' <=> Canceled)
  BY Zenon DEF Calm, Canceled
<1>8. QuitIsCalm'
  BY <1>7 DEF ThInv, QuitIsCalm
<1>9. QuitReaches'
  <2> SUFFICES ASSUME ui' \in {"force", "leave", "gone"}, Calm', NEW g \in mine', Latest(g)'
               PROVE  ~Running(g)'
    BY DEF QuitReaches
  <2>1. worker.at # "store"
    BY <1>7 DEF ThInv, QuitIsCalm
  <2> QED BY <1>3, <1>5, <1>7, <2>1 DEF ThInv, QuitReaches, Slot, SlotNamesTheLatest
<1> QED BY <1>1, <1>2, <1>4, <1>6, <1>8, <1>9 DEF ThInv, ThTypes

LEMMA QuitStepsKeep ==
  ASSUME ThInv, QuitAsks \/ QuitReaps \/ QuitForces \/ QuitLeaves
  PROVE  ThInv'
<1>1. UNCHANGED <<mine, watched, worker, busy, cancel, raced>>
  BY Zenon DEF QuitAsks, QuitReaps, QuitForces, QuitLeaves
<1>2. CASE QuitAsks
  <2>1. ui = "ask" /\ ui' = "reap" /\ child' = child
    BY <1>2 DEF QuitAsks
  <2>2. UNCHANGED thDaemons \/ \E g \in Gens : gen[g] = "serve" /\ Close(g)
    BY <1>2, Zenon DEF QuitAsks
  <2>3. /\ gen' \in [Gens -> Stages] /\ port' \in [Gens -> 0 .. MaxGen] /\ pointer' \in 0 .. MaxGen
        /\ \A g \in Gens : (gen'[g] = "none" <=> gen[g] = "none") /\ (Running(g)' => Running(g))
    BY <2>2, DaemonsStay, ClosedOnly
  <2>4. ui # "run" /\ ui' # "run" /\ ui' \in QuitStages
    BY <2>1 DEF QuitStages
  <2> QED BY <1>1, <2>1, <2>3, <2>4, QuitGoesOn
<1>3. CASE QuitReaps
  <2>1. ui = "reap" /\ ui' = "force" /\ child' = 0 /\ Kill({child}) /\ UNCHANGED <<port, pointer>>
    BY <1>3 DEF QuitReaps
  <2>2. /\ gen' \in [Gens -> Stages]
        /\ \A g \in Gens : (gen'[g] = "none" <=> gen[g] = "none") /\ (Running(g)' => Running(g))
        /\ \A g \in {child} \cap Gens : ~Running(g)'
    BY <2>1, KilledOnly
  <2>3. port' \in [Gens -> 0 .. MaxGen] /\ pointer' \in 0 .. MaxGen /\ \A g \in mine : child = g => ~Running(g)'
    BY <2>1, <2>2 DEF ThInv, ThTypes, Daemons
  <2>4. ui # "run" /\ ui' # "run" /\ ui' \in QuitStages
    BY <2>1 DEF QuitStages
  <2> QED BY <1>1, <2>1, <2>2, <2>3, <2>4, QuitGoesOn
<1>4. CASE QuitForces
  <2>1. ui = "force" /\ ui' = "leave" /\ UNCHANGED <<port, pointer, child>>
    BY <1>4 DEF QuitForces
  <2>2. gen' = gen \/ Kill(Owners({1, LiveUrl}))
    BY <1>4, Zenon DEF QuitForces
  <2>3. gen' \in [Gens -> Stages]
        /\ \A g \in Gens : (gen'[g] = "none" <=> gen[g] = "none") /\ (Running(g)' => Running(g))
    BY <2>2, KilledOnly DEF ThInv, ThTypes, Daemons, Running
  <2>4. port' \in [Gens -> 0 .. MaxGen] /\ pointer' \in 0 .. MaxGen
    BY <2>1 DEF ThInv, ThTypes, Daemons
  <2>5. ui # "run" /\ ui' # "run" /\ ui' \in QuitStages
    BY <2>1 DEF QuitStages
  <2> QED BY <1>1, <2>1, <2>3, <2>4, <2>5, QuitGoesOn
<1>5. CASE QuitLeaves
  <2>1. ui = "leave" /\ ui' = "gone" /\ UNCHANGED thDaemons /\ UNCHANGED child
    BY <1>5 DEF QuitLeaves
  <2>2. ui # "run" /\ ui' # "run" /\ ui' \in QuitStages
    BY <2>1 DEF QuitStages
  <2> QED BY <1>1, <2>1, <2>2, DaemonsStay, QuitGoesOn
<1> QED BY <1>2, <1>3, <1>4, <1>5

LEMMA ThStep == ThInv /\ [ThNext]_thVars => ThInv'
<1> SUFFICES ASSUME ThInv, [ThNext]_thVars PROVE ThInv'
  OBVIOUS
<1>1. ASSUME NEW g \in Gens,
             \/ Binds(g) \/ ShutDown(g) \/ SelfRelaunch(g) \/ ChildEnded(g)
             \/ Turn(g, "serve", "frozen") \/ Turn(g, "frozen", "serve")
             \/ \E from \in {"boot", "serve", "frozen"} : Turn(g, from, "dead")
      PROVE  ThInv'
  BY <1>1, BindsKeeps, ShutDownKeeps, SelfRelaunchKeeps, ChildEndedKeeps, TurnKeeps
<1>2. ASSUME NEW rebuild \in BOOLEAN, StartWorker(rebuild)
      PROVE  ThInv'
  BY <1>2, StartWorkerKeeps
<1>3. CASE Build \/ Check \/ StopNobody \/ StopAsks \/ StopWaits \/ StopKills \/ Create \/ Store \/ Await
  BY <1>3, BuildCheckKeep, StopKeeps, StopAsksKeeps, CreateKeeps, StoreKeeps, AwaitKeeps
<1>4. CASE Revive \/ Quit \/ SentinelTick
  BY <1>4, ReviveKeeps, QuitKeeps, Zenon DEF SentinelTick
<1>5. CASE QuitAsks \/ QuitReaps \/ QuitForces \/ QuitLeaves
  BY <1>5, QuitStepsKeep
<1>6. CASE UNCHANGED thVars
  <2>1. UNCHANGED <<gen, port, pointer, mine, child, watched, worker, busy, cancel, ui, raced>>
    BY <1>6, Zenon DEF thVars
  <2>2. UNCHANGED thDaemons
    BY <2>1 DEF thDaemons
  <2>3. ThTypes'
    BY <2>1, <2>2, DaemonsStay, TypesCarry DEF ThInv, ThTypes, Daemons
  <2> QED BY <2>1, <2>2, <2>3, DaemonsStay, NoneBorn, Carries
<1> QED BY <1>1, <1>2, <1>3, <1>4, <1>5, <1>6, Zenon DEF ThNext

LEMMA ThInvReaches == ThInv => NewestIsReached
<1> SUFFICES ASSUME ThInv PROVE NewestIsReached
  OBVIOUS
<1>1. mine \subseteq Gens
  BY DEF ThInv, ThTypes, Daemons
<1>2. ASSUME NEW g \in mine, g = Max(mine) PROVE Latest(g)
  BY <1>1, <1>2, NewestOwn
<1>3. \A g \in mine : g = Max(mine) /\ Running(g)
          => child = g \/ worker.at = "store" \/ ui \in {"force", "leave", "gone"}
  BY <1>2 DEF ThInv, Slot, SlotNamesTheLatest
<1>4. child # 0 => child \in mine /\ \A g \in mine : g > child => worker.at = "store"
  BY DEF ThInv, Slot, SlotIsMine
<1>5. ui = "gone" /\ Calm => \A g \in mine : g = Max(mine) => ~Running(g)
  BY <1>2 DEF ThInv, QuitReaches
<1>6. ui = "gone" /\ ~raced => \A g \in mine : g = Max(mine) => ~Running(g)
  BY <1>5, Zenon DEF Calm
<1> QED BY <1>3, <1>4, <1>6, Zenon DEF NewestIsReached

---------------------------------------------------------------------------------------
(* Watchdog: the crash-loop breaker. *)

Dogs == [misses : 0 .. ReviveAfterMisses, grace : 0 .. ReviveGrace, paused : BOOLEAN,
         revives : SUBSET (0 .. CrashLoopWindow),
         silent : Ages(BusyPatience), healthy : Ages(CrashLoopWindow)]

\* The watchdog's record of its revives has all that count: none was cleared that is still
\* inside the window, since a daemon healthy for h has not been revived for h.
Recorded == Inside(recent) \subseteq w.revives
HealthySince == w.healthy # Never => \A age \in recent : age >= w.healthy
Bounded == Cardinality(recent) <= CrashLoopMax
WdInv == WdTypeOK /\ Recorded /\ HealthySince /\ Bounded

LEMMA Limits ==
  /\ ReviveAfterMisses \in Nat \ {0} /\ BusyPatience \in Nat \ {0} /\ ReviveGrace \in Nat \ {0}
  /\ CrashLoopWindow \in Nat \ {0} /\ CrashLoopMax \in Nat \ {0} /\ MaxLate \in Nat \ {0}
BY WatchdogConstants

\* Ages grow up to their limit, keep their order, and an old enough one does not come back.
LEMMA OlderAges ==
  ASSUME NEW limit \in Nat, NEW dt \in Nat
  PROVE  /\ \A a \in Ages(limit) : Older(a, dt, limit) \in Ages(limit) /\ (Older(a, dt, limit) = Never <=> a = Never)
         /\ \A a \in 0 .. limit : Older(a, dt, limit) \in 0 .. limit
         /\ \A a, b \in 0 .. limit : a <= b => Older(a, dt, limit) <= Older(b, dt, limit)
         /\ \A a \in 0 .. limit : Older(a, dt, limit) < limit => a < limit
BY DEF Older, Ages, Never

LEMMA FinitelyManyAges ==
  ASSUME NEW S \in SUBSET (0 .. CrashLoopWindow)
  PROVE  IsFiniteSet(S)
<1>1. CrashLoopWindow \in Int /\ 0 \in Int
  BY Limits
<1>2. IsFiniteSet(0 .. CrashLoopWindow)
  BY <1>1, FS_Interval
<1> QED BY <1>2, FS_Subset

\* A set of ages never has more members when they have aged, or when only some are kept.
LEMMA FewerWhenOlder ==
  ASSUME NEW S \in SUBSET (0 .. CrashLoopWindow), NEW dt
  PROVE  Cardinality(Inside(OlderAll(S, dt))) <= Cardinality(S) /\ Cardinality(Inside(S)) <= Cardinality(S)
<1>1. IsFiniteSet(S)
  BY FinitelyManyAges
<1> DEFINE f == [a \in S |-> Older(a, dt, CrashLoopWindow)]
<1>2. f \in Surjection(S, OlderAll(S, dt))
  <2>1. f \in [S -> OlderAll(S, dt)]
    BY DEF OlderAll
  <2>2. ASSUME NEW b \in OlderAll(S, dt)
        PROVE  \E a \in S : f[a] = b
    BY <2>2 DEF OlderAll
  <2> QED BY <2>1, <2>2 DEF Surjection
<1>3. IsFiniteSet(OlderAll(S, dt)) /\ Cardinality(OlderAll(S, dt)) <= Cardinality(S)
  BY <1>1, <1>2, FS_Surjection
<1>4. Inside(OlderAll(S, dt)) \subseteq OlderAll(S, dt) /\ Inside(S) \subseteq S
  BY DEF Inside
<1>5. Cardinality(Inside(OlderAll(S, dt))) <= Cardinality(OlderAll(S, dt)) /\ Cardinality(Inside(S)) <= Cardinality(S)
  BY <1>1, <1>3, <1>4, FS_Subset
<1>6. IsFiniteSet(Inside(OlderAll(S, dt))) /\ IsFiniteSet(Inside(S))
  BY <1>1, <1>3, <1>4, FS_Subset
<1>7. /\ Cardinality(S) \in Nat /\ Cardinality(OlderAll(S, dt)) \in Nat
      /\ Cardinality(Inside(OlderAll(S, dt))) \in Nat /\ Cardinality(Inside(S)) \in Nat
  BY <1>1, <1>3, <1>6, FS_CardinalityType
<1> QED BY <1>3, <1>5, <1>7

LEMMA WdInitially == WdInit => WdInv
<1> USE Limits
<1>1. Cardinality({}) = 0
  BY FS_EmptySet
<1>2. ASSUME WdInit
      PROVE  WdTypeOK
  <2>1. w = [misses |-> 0, grace |-> 0, paused |-> FALSE, revives |-> {}, silent |-> Never, healthy |-> Never]
    BY <1>2, Zenon DEF WdInit
  <2>2. w \in Dogs
    BY <2>1 DEF Dogs, Ages
  <2>3. daemon \in {"up", "slow", "down"} /\ recent \subseteq 0 .. CrashLoopWindow
    BY <1>2 DEF WdInit
  <2>4. working \in BOOLEAN /\ started \in BOOLEAN
    BY <1>2, Zenon DEF WdInit
  <2> QED BY <2>2, <2>3, <2>4, Zenon DEF WdTypeOK, Dogs
<1>3. ASSUME WdInit
      PROVE  Recorded /\ HealthySince
  <2>1. recent = {}
    BY <1>3 DEF WdInit
  <2>2. Recorded
    BY <2>1 DEF Recorded, Inside
  <2>3. HealthySince
    BY <2>1, Zenon DEF HealthySince
  <2> QED BY <2>2, <2>3
<1>4. WdInit => Bounded
  BY <1>1 DEF WdInit, Bounded
<1> QED BY <1>2, <1>3, <1>4 DEF WdInv

\* What the record of a dog of age dt keeps.
Kept(dog, dt) == Inside(OlderAll(recent, dt)) \subseteq dog.revives
KeptHealth(dog, dt) ==
    dog.healthy # Never => \A age \in Inside(OlderAll(recent, dt)) : age >= dog.healthy

LEMMA AgedDog ==
  ASSUME NEW dt \in 1 .. MaxLate, WdInv
  PROVE  Aged(dt) \in Dogs /\ Kept(Aged(dt), dt) /\ KeptHealth(Aged(dt), dt)
<1> USE Limits
<1>1. w \in Dogs /\ recent \subseteq 0 .. CrashLoopWindow
  BY DEF WdInv, WdTypeOK, Dogs
<1>2. dt \in Nat
  OBVIOUS
<1>3. PICK s, h, g, R : /\ s = Older(w.silent, dt, BusyPatience)
                        /\ h = Older(w.healthy, dt, CrashLoopWindow)
                        /\ g = (IF w.grace > dt THEN w.grace - dt ELSE 0)
                        /\ R = OlderAll(w.revives, dt)
  OBVIOUS
<1>4. Aged(dt) = [misses |-> w.misses, grace |-> g, paused |-> w.paused, revives |-> R,
                  silent |-> s, healthy |-> h]
  <2>1. Aged(dt) = [w EXCEPT !.silent = s, !.healthy = h, !.grace = g, !.revives = R]
    BY <1>3 DEF Aged
  <2> QED BY <1>1, <2>1 DEF Dogs
<1>5. h \in Ages(CrashLoopWindow)
  BY <1>1, <1>2, <1>3, OlderAges DEF Dogs
<1>6. s \in Ages(BusyPatience)
  BY <1>1, <1>2, <1>3, OlderAges DEF Dogs
<1>7. R \subseteq 0 .. CrashLoopWindow
  BY <1>1, <1>2, <1>3, OlderAges DEF Dogs, OlderAll
<1>8. g \in 0 .. ReviveGrace
  BY <1>1, <1>2, <1>3 DEF Dogs
<1>9. Aged(dt) \in Dogs
  BY <1>1, <1>4, <1>5, <1>6, <1>7, <1>8 DEF Dogs
<1>10. Kept(Aged(dt), dt)
  <2> SUFFICES ASSUME NEW age \in Inside(OlderAll(recent, dt))
               PROVE  age \in OlderAll(w.revives, dt)
    BY <1>3, <1>4 DEF Kept
  <2>1. PICK a \in recent : age = Older(a, dt, CrashLoopWindow) /\ age < CrashLoopWindow
    BY DEF Inside, OlderAll
  <2>2. a < CrashLoopWindow
    BY <1>1, <1>2, <2>1, OlderAges
  <2>3. a \in w.revives
    BY <2>1, <2>2 DEF WdInv, Recorded, Inside
  <2> QED BY <2>1, <2>3 DEF OlderAll
<1>11. KeptHealth(Aged(dt), dt)
  <2> SUFFICES ASSUME Aged(dt).healthy # Never, NEW age \in Inside(OlderAll(recent, dt))
               PROVE  age >= Aged(dt).healthy
    BY DEF KeptHealth
  <2>1. PICK a \in recent : age = Older(a, dt, CrashLoopWindow) /\ age < CrashLoopWindow
    BY DEF Inside, OlderAll
  <2>2. w.healthy # Never /\ w.healthy \in 0 .. CrashLoopWindow
    <3>1. w.healthy \in Ages(CrashLoopWindow) /\ h # Never
      BY <1>1, <1>4 DEF Dogs
    <3>2. w.healthy # Never
      BY <1>2, <1>3, <3>1, OlderAges
    <3> QED BY <3>1, <3>2 DEF Ages
  <2>3. a >= w.healthy
    BY <2>2 DEF WdInv, HealthySince
  <2>4. h = Older(w.healthy, dt, CrashLoopWindow) /\ Aged(dt).healthy = h
    BY <1>3, <1>4
  <2>5. a \in 0 .. CrashLoopWindow /\ w.healthy <= a /\ w.healthy \in 0 .. CrashLoopWindow
    BY <1>1, <2>2, <2>3
  <2>6. Older(w.healthy, dt, CrashLoopWindow) <= Older(a, dt, CrashLoopWindow)
    BY <1>2, <2>5, OlderAges
  <2>7. /\ Older(w.healthy, dt, CrashLoopWindow) \in 0 .. CrashLoopWindow
        /\ Older(a, dt, CrashLoopWindow) \in 0 .. CrashLoopWindow
    BY <1>2, <2>5, OlderAges
  <2> QED BY <2>1, <2>4, <2>6, <2>7
<1> QED BY <1>9, <1>10, <1>11

\* What a tick leaves has all that its verdict turns on.
LEMMA HeardDog ==
  ASSUME NEW dt \in 1 .. MaxLate, WdInv
  PROVE  Heard(dt) \in Dogs /\ Kept(Heard(dt), dt) /\ KeptHealth(Heard(dt), dt)
<1> USE Limits
<1>1. Aged(dt) \in Dogs /\ Kept(Aged(dt), dt) /\ KeptHealth(Aged(dt), dt)
  BY AgedDog
<1>2. PICK h : h = GetOrInsert(Aged(dt).healthy)
  OBVIOUS
<1>3. h \in 0 .. CrashLoopWindow /\ (Aged(dt).healthy # Never => h = Aged(dt).healthy) /\ (Aged(dt).healthy = Never => h = 0)
  BY <1>1, <1>2 DEF Dogs, Ages, GetOrInsert, Never
<1>4. Heard(dt) = [misses |-> 0, grace |-> Aged(dt).grace, paused |-> Aged(dt).paused,
                   revives |-> Aged(dt).revives, silent |-> Never, healthy |-> h]
  <2>1. Heard(dt) = [Aged(dt) EXCEPT !.misses = 0, !.silent = Never, !.healthy = h]
    BY <1>2 DEF Heard
  <2> QED BY <1>1, <2>1 DEF Dogs
<1>5. Heard(dt) \in Dogs
  BY <1>1, <1>3, <1>4 DEF Dogs, Ages
<1>6. Kept(Heard(dt), dt)
  BY <1>1, <1>4 DEF Kept
<1>7. KeptHealth(Heard(dt), dt)
  <2> SUFFICES ASSUME NEW age \in Inside(OlderAll(recent, dt))
               PROVE  age >= h
    BY <1>4 DEF KeptHealth
  <2>1. age \in Nat
    BY OlderAges DEF WdInv, WdTypeOK, Inside, OlderAll
  <2>2. CASE Aged(dt).healthy = Never
    BY <1>3, <2>1, <2>2
  <2>3. CASE Aged(dt).healthy # Never
    BY <1>1, <1>3, <2>3 DEF KeptHealth
  <2> QED BY <2>2, <2>3
<1> QED BY <1>5, <1>6, <1>7

LEMMA MissedDog ==
  ASSUME NEW dt \in 1 .. MaxLate, WdInv
  PROVE  Missed(dt) \in Dogs /\ Kept(Missed(dt), dt) /\ KeptHealth(Missed(dt), dt)
<1> USE Limits
<1>1. Aged(dt) \in Dogs /\ Kept(Aged(dt), dt) /\ KeptHealth(Aged(dt), dt)
  BY AgedDog
<1>2. PICK s, m : s = GetOrInsert(Aged(dt).silent)
                  /\ m = (IF Aged(dt).misses < ReviveAfterMisses THEN Aged(dt).misses + 1 ELSE Aged(dt).misses)
  OBVIOUS
<1>3. s \in Ages(BusyPatience) /\ m \in 0 .. ReviveAfterMisses
  BY <1>1, <1>2 DEF Dogs, Ages, GetOrInsert, Never
<1>4. Missed(dt) = [misses |-> m, grace |-> Aged(dt).grace, paused |-> Aged(dt).paused,
                    revives |-> Aged(dt).revives, silent |-> s, healthy |-> Aged(dt).healthy]
  <2>1. Missed(dt) = [Aged(dt) EXCEPT !.silent = s, !.misses = m]
    BY <1>2 DEF Missed
  <2> QED BY <1>1, <2>1 DEF Dogs
<1>5. Missed(dt) \in Dogs
  BY <1>1, <1>3, <1>4 DEF Dogs
<1> QED BY <1>1, <1>4, <1>5 DEF Kept, KeptHealth

\* A verdict that is no revive keeps the invariant when what it leaves has all that counts.
LEMMA NoRevive ==
  ASSUME NEW dt \in 1 .. MaxLate, WdInv, w' \in Dogs, Kept(w', dt), KeptHealth(w', dt),
         recent' = Inside(OlderAll(recent, dt)),
         daemon' \in {"up", "slow", "down"}, working' \in BOOLEAN, started' \in BOOLEAN
  PROVE  WdInv'
<1> USE Limits
<1>1. recent \subseteq 0 .. CrashLoopWindow
  BY DEF WdInv, WdTypeOK
<1>2. OlderAll(recent, dt) \subseteq 0 .. CrashLoopWindow
  BY <1>1, OlderAges DEF OlderAll
<1>3. WdTypeOK'
  BY <1>2 DEF WdTypeOK, Dogs, Inside
<1>4. Recorded' /\ HealthySince'
  BY DEF Kept, KeptHealth, Recorded, HealthySince, Inside
<1>5. Cardinality(Inside(OlderAll(recent, dt))) <= Cardinality(recent)
  BY <1>1, FewerWhenOlder
<1>6. IsFiniteSet(recent) /\ IsFiniteSet(Inside(OlderAll(recent, dt)))
  BY <1>1, <1>2, FinitelyManyAges DEF Inside
<1>7. Cardinality(recent) \in Nat /\ Cardinality(Inside(OlderAll(recent, dt))) \in Nat
  BY <1>6, FS_CardinalityType
<1>8. Bounded'
  BY <1>5, <1>7 DEF WdInv, Bounded
<1> QED BY <1>3, <1>4, <1>8 DEF WdInv

LEMMA AliveKeeps ==
  ASSUME NEW dt \in 1 .. MaxLate, WdInv, Alive(dt),
         recent' = Inside(OlderAll(recent, dt)) \cup (IF verdict' = "revive" THEN {0} ELSE {})
  PROVE  WdInv'
<1> USE Limits
<1>1. Heard(dt) \in Dogs /\ Kept(Heard(dt), dt) /\ KeptHealth(Heard(dt), dt)
  BY HeardDog
<1>2. daemon' \in {"up", "slow", "down"} /\ working' \in BOOLEAN /\ started' \in BOOLEAN
  BY DEF Alive, WdInv, WdTypeOK
<1>3. CASE Heard(dt).paused /\ Heard(dt).healthy >= CrashLoopWindow
  <2>1. w' = Rearm(Heard(dt)) /\ verdict' = "rearmed"
    BY <1>3 DEF Alive, Decide
  <2>2. recent' = Inside(OlderAll(recent, dt))
    BY <2>1
  <2>3. w' = [misses |-> Heard(dt).misses, grace |-> Heard(dt).grace, paused |-> FALSE,
              revives |-> {}, silent |-> Heard(dt).silent, healthy |-> Heard(dt).healthy]
    BY <1>1, <2>1 DEF Dogs, Rearm
  <2>4. w' \in Dogs /\ KeptHealth(w', dt)
    BY <1>1, <2>3 DEF Dogs, KeptHealth
  <2>5. Inside(OlderAll(recent, dt)) = {}
    <3> SUFFICES ASSUME NEW age \in Inside(OlderAll(recent, dt)) PROVE FALSE
      OBVIOUS
    <3>1. Heard(dt).healthy # Never
      BY <1>3 DEF Never
    <3>2. age >= Heard(dt).healthy
      BY <1>1, <3>1 DEF KeptHealth
    <3>3. age \in Int /\ age < CrashLoopWindow
      BY OlderAges DEF WdInv, WdTypeOK, Inside, OlderAll
    <3>4. Heard(dt).healthy \in Int
      BY <1>1 DEF Dogs, Ages, Never
    <3> QED BY <1>3, <3>2, <3>3, <3>4
  <2>6. Kept(w', dt)
    BY <2>5 DEF Kept
  <2> QED BY <1>2, <2>2, <2>4, <2>6, NoRevive
<1>4. CASE ~(Heard(dt).paused /\ Heard(dt).healthy >= CrashLoopWindow)
  <2>1. w' = Heard(dt) /\ verdict' = "alive"
    BY <1>4 DEF Alive, Decide
  <2>2. recent' = Inside(OlderAll(recent, dt))
    BY <2>1
  <2> QED BY <1>1, <1>2, <2>1, <2>2, NoRevive
<1> QED BY <1>3, <1>4

LEMMA UnhealthyDog ==
  ASSUME NEW dog \in Dogs, NEW dt, Kept(dog, dt)
  PROVE  /\ Unhealthy(dog) = [misses |-> dog.misses, grace |-> dog.grace, paused |-> dog.paused,
                              revives |-> dog.revives, silent |-> dog.silent, healthy |-> Never]
         /\ Unhealthy(dog) \in Dogs /\ Kept(Unhealthy(dog), dt) /\ KeptHealth(Unhealthy(dog), dt)
<1>1. Unhealthy(dog) = [misses |-> dog.misses, grace |-> dog.grace, paused |-> dog.paused,
                        revives |-> dog.revives, silent |-> dog.silent, healthy |-> Never]
  BY DEF Unhealthy, Dogs
<1>2. Unhealthy(dog) \in Dogs
  BY <1>1 DEF Dogs, Ages
<1> QED BY <1>1, <1>2 DEF Kept, KeptHealth

LEMMA SilentKeeps ==
  ASSUME NEW dt \in 1 .. MaxLate, WdInv, Hiccup(dt) \/ BusyNotDead(dt) \/ NotMine(dt) \/ Wait(dt),
         recent' = Inside(OlderAll(recent, dt)) \cup (IF verdict' = "revive" THEN {0} ELSE {})
  PROVE  WdInv'
<1> USE Limits
<1>1. Missed(dt) \in Dogs /\ Kept(Missed(dt), dt) /\ KeptHealth(Missed(dt), dt)
  BY MissedDog
<1>2. daemon' \in {"up", "slow", "down"} /\ working' \in BOOLEAN /\ started' \in BOOLEAN
  BY DEF Hiccup, BusyNotDead, NotMine, Wait, WdInv, WdTypeOK
<1> DEFINE dog == Unhealthy(Missed(dt))
<1>3. /\ dog \in Dogs /\ Kept(dog, dt) /\ KeptHealth(dog, dt)
  BY <1>1, UnhealthyDog
<1>4. CASE Hiccup(dt) \/ BusyNotDead(dt)
  <2>1. w' = Missed(dt) /\ (verdict' = "hiccup" \/ verdict' = "slow")
    BY <1>4 DEF Hiccup, BusyNotDead, Decide
  <2>2. recent' = Inside(OlderAll(recent, dt))
    BY <2>1
  <2> QED BY <1>1, <1>2, <2>1, <2>2, NoRevive
<1>5. CASE NotMine(dt)
  <2>1. w' = [dog EXCEPT !.misses = 0] /\ (verdict' = "busy" \/ verdict' = "not ours")
    BY <1>5 DEF NotMine, Decide
  <2>2. recent' = Inside(OlderAll(recent, dt))
    BY <2>1
  <2>3. w' = [misses |-> 0, grace |-> dog.grace, paused |-> dog.paused,
              revives |-> dog.revives, silent |-> dog.silent, healthy |-> dog.healthy]
    BY <1>3, <2>1 DEF Dogs
  <2>4. w' \in Dogs
    BY <1>3, <2>3 DEF Dogs
  <2>5. Kept(w', dt) /\ KeptHealth(w', dt)
    BY <1>3, <2>3 DEF Kept, KeptHealth
  <2> QED BY <1>2, <2>2, <2>4, <2>5, NoRevive
<1>6. CASE Wait(dt)
  <2>1. w' = dog /\ (verdict' = "grace" \/ verdict' = "paused")
    BY <1>6 DEF Wait, Decide
  <2>2. recent' = Inside(OlderAll(recent, dt))
    BY <2>1
  <2> QED BY <1>2, <1>3, <2>1, <2>2, NoRevive
<1> QED BY <1>4, <1>5, <1>6

\* A revive needs room in the record, and so there is room among the recent ones.
LEMMA JudgeKeeps ==
  ASSUME NEW dt \in 1 .. MaxLate, WdInv, Judge(dt),
         recent' = Inside(OlderAll(recent, dt)) \cup (IF verdict' = "revive" THEN {0} ELSE {})
  PROVE  WdInv'
<1> USE Limits
<1>1. Missed(dt) \in Dogs /\ Kept(Missed(dt), dt)
  BY MissedDog
<1>2. daemon' \in {"up", "slow", "down"} /\ working' \in BOOLEAN /\ started' \in BOOLEAN
  BY DEF Judge, Decide, WdInv, WdTypeOK
<1>3. PICK was : was = Unhealthy(Missed(dt))
  OBVIOUS
<1>4. was \in Dogs /\ Kept(was, dt) /\ KeptHealth(was, dt) /\ was.healthy = Never
  BY <1>1, <1>3, UnhealthyDog
<1>5. PICK dog : dog = [was EXCEPT !.revives = Inside(was.revives)]
  OBVIOUS
<1>6. dog = [misses |-> was.misses, grace |-> was.grace, paused |-> was.paused,
             revives |-> Inside(was.revives), silent |-> was.silent, healthy |-> Never]
  BY <1>4, <1>5 DEF Dogs
<1>7. dog \in Dogs
  BY <1>4, <1>6 DEF Dogs, Inside, Ages
<1>8. Kept(dog, dt) /\ KeptHealth(dog, dt)
  BY <1>4, <1>6 DEF Kept, KeptHealth, Inside
<1>9. CASE Cardinality(dog.revives) >= CrashLoopMax
  <2>1. w' = [dog EXCEPT !.paused = TRUE] /\ verdict' = "crash loop"
    BY <1>3, <1>5, <1>9, Zenon DEF Judge, Decide
  <2>2. recent' = Inside(OlderAll(recent, dt))
    BY <2>1
  <2>3. w' = [misses |-> dog.misses, grace |-> dog.grace, paused |-> TRUE,
              revives |-> dog.revives, silent |-> dog.silent, healthy |-> dog.healthy]
    BY <1>7, <2>1 DEF Dogs
  <2>4. w' \in Dogs
    BY <1>7, <2>3 DEF Dogs
  <2>5. Kept(w', dt) /\ KeptHealth(w', dt)
    BY <1>8, <2>3 DEF Kept, KeptHealth
  <2> QED BY <1>2, <2>2, <2>4, <2>5, NoRevive
<1>10. CASE ~(Cardinality(dog.revives) >= CrashLoopMax)
  <2>1. /\ w' = [dog EXCEPT !.revives = dog.revives \cup {0}, !.grace = ReviveGrace, !.misses = 0, !.silent = Never]
        /\ verdict' = "revive"
    BY <1>3, <1>5, <1>10, Zenon DEF Judge, Decide
  <2>2. recent' = Inside(OlderAll(recent, dt)) \cup {0}
    BY <2>1
  <2>3. w' = [misses |-> 0, grace |-> ReviveGrace, paused |-> dog.paused,
              revives |-> dog.revives \cup {0}, silent |-> Never, healthy |-> Never]
    BY <1>6, <1>7, <2>1 DEF Dogs
  <2>4. w' \in Dogs
    BY <1>7, <2>3 DEF Dogs, Ages
  <2>5. Inside(OlderAll(recent, dt)) \subseteq 0 .. CrashLoopWindow
    BY OlderAges DEF Inside, OlderAll, WdInv, WdTypeOK
  <2>6. WdTypeOK'
    BY <1>2, <2>2, <2>4, <2>5 DEF WdTypeOK, Dogs
  <2>7. Recorded' /\ HealthySince'
    BY <1>8, <2>2, <2>3 DEF Kept, Recorded, HealthySince, Inside
  <2>8. Inside(OlderAll(recent, dt)) \subseteq dog.revives /\ dog.revives \subseteq 0 .. CrashLoopWindow
    BY <1>7, <1>8 DEF Kept, Dogs
  <2>9. IsFiniteSet(dog.revives) /\ IsFiniteSet(Inside(OlderAll(recent, dt)))
    BY <2>8, <2>5, FinitelyManyAges
  <2>10. Cardinality(Inside(OlderAll(recent, dt))) <= Cardinality(dog.revives)
    BY <2>8, <2>9, FS_Subset
  <2>11. /\ Cardinality(dog.revives) \in Nat /\ Cardinality(Inside(OlderAll(recent, dt))) \in Nat
    BY <2>9, FS_CardinalityType
  <2>12. \/ Cardinality(recent') = Cardinality(Inside(OlderAll(recent, dt)))
         \/ Cardinality(recent') = Cardinality(Inside(OlderAll(recent, dt))) + 1
    BY <2>2, <2>9, FS_AddElement
  <2>13. Bounded'
    BY <1>10, <2>10, <2>11, <2>12 DEF Bounded
  <2> QED BY <2>6, <2>7, <2>13 DEF WdInv
<1> QED BY <1>9, <1>10

LEMMA WdStep == WdInv /\ [WdNext]_wdVars => WdInv'
<1> SUFFICES ASSUME WdInv, [WdNext]_wdVars PROVE WdInv'
  OBVIOUS
<1> USE Limits
<1>1. ASSUME NEW dt \in 1 .. MaxLate, Tick(dt)
      PROVE  WdInv'
  BY <1>1, AliveKeeps, SilentKeeps, JudgeKeeps DEF Tick
<1>2. CASE ManualRestart
  <2>1. Cardinality({}) = 0
    BY FS_EmptySet
  <2>2. w' = [misses |-> w.misses, grace |-> w.grace, paused |-> FALSE,
              revives |-> {}, silent |-> w.silent, healthy |-> w.healthy]
    BY <1>2 DEF ManualRestart, Rearm, WdInv, WdTypeOK
  <2>3. recent' = {} /\ working' = TRUE /\ UNCHANGED started /\ daemon' \in {"down", daemon}
    BY <1>2 DEF ManualRestart
  <2>4. WdTypeOK'
    BY <2>2, <2>3 DEF WdInv, WdTypeOK
  <2>5. Recorded'
    BY <2>3 DEF Recorded, Inside
  <2>6. HealthySince'
    BY <2>3, Zenon DEF HealthySince
  <2>7. Bounded'
    BY <2>1, <2>3 DEF Bounded
  <2> QED BY <2>4, <2>5, <2>6, <2>7 DEF WdInv
<1>3. CASE WorkerEnds \/ DaemonTurns \/ UNCHANGED wdVars
  <2>1. /\ UNCHANGED <<w, recent>> /\ daemon' \in {"up", "slow", "down"}
        /\ working' \in BOOLEAN /\ started' \in BOOLEAN
    BY <1>3 DEF WorkerEnds, DaemonTurns, wdVars, WdInv, WdTypeOK
  <2>2. WdTypeOK'
    BY <2>1 DEF WdInv, WdTypeOK
  <2>3. Recorded' /\ HealthySince' /\ Bounded'
    BY <2>1 DEF WdInv, Recorded, HealthySince, Bounded, Inside
  <2> QED BY <2>2, <2>3 DEF WdInv
<1> QED BY <1>1, <1>2, <1>3 DEF WdNext

LEMMA WdInvTrips == WdInv => BreakerTrips
<1> SUFFICES ASSUME WdInv PROVE BreakerTrips
  OBVIOUS
<1> USE Limits
<1>1. recent \in SUBSET (0 .. CrashLoopWindow) /\ Inside(recent) \in SUBSET (0 .. CrashLoopWindow)
  BY DEF WdInv, WdTypeOK, Inside
<1>2. Cardinality(Inside(recent)) <= Cardinality(recent)
  BY <1>1, FinitelyManyAges, FS_Subset DEF Inside
<1>3. Cardinality(recent) \in Nat /\ Cardinality(Inside(recent)) \in Nat
  BY <1>1, FinitelyManyAges, FS_CardinalityType
<1> QED BY <1>2, <1>3 DEF WdInv, Bounded, BreakerTrips

\* No crash-loop window between two manual Restarts holds more than CrashLoopMax revives
\* (watchdog.rs), although a daemon that stays up clears the record of them.
THEOREM BreakerAlwaysTrips == WdSpec => []BreakerTrips
<1>1. WdInit => WdInv
  BY WdInitially
<1>2. WdInv /\ [WdNext]_wdVars => WdInv'
  BY WdStep
<1>3. WdInv => BreakerTrips
  BY WdInvTrips
<1> QED BY <1>1, <1>2, <1>3, PTL DEF WdSpec

---------------------------------------------------------------------------------------
(* The parts together. *)

Parts == HoInv /\ ThInv /\ WdInv

LEMMA PartsInitially == Init => Parts
BY HoInitially, ThInitially, WdInitially DEF Init, Parts

\* A step is one part's, and the others do not move.
LEMMA OnePartMoves ==
  [Next]_<<part, hoVars, thVars, wdVars>> => [HoNext]_hoVars /\ [ThNext]_thVars /\ [WdNext]_wdVars
BY DEF Next

LEMMA PartsStep == Parts /\ [Next]_<<part, hoVars, thVars, wdVars>> => Parts'
BY OnePartMoves, HoStep, ThStep, WdStep DEF Parts

\* The types of the three parts hold.
THEOREM HandoverTypesHold == Spec => []HandoverTypeOK
<1>1. Parts => HandoverTypeOK
  BY TypesAreKept DEF Parts, HoInv, ThInv, WdInv, HandoverTypeOK
<1> QED BY <1>1, PartsInitially, PartsStep, PTL DEF Spec

\* Clients find the daemon that serves by runtime.json, unless two are alive past their guard:
\* then the last to write the file keeps it, and two booted at once or a guard's one probe had
\* missed a live daemon (instance-pointer.mjs). The tray reaches the newest one it spawned.
THEOREM DaemonIsAlwaysFound == Spec => []DaemonIsFound
<1>1. Init => PointerInv /\ MissedOrNot
  BY PointerInitially DEF Init, HoInit, MissedOrNot
<1>2. /\ Parts /\ PointerInv /\ MissedOrNot
      /\ [Next]_<<part, hoVars, thVars, wdVars>>
      => PointerInv' /\ MissedOrNot'
  BY OnePartMoves, PointerStep DEF Parts
<1>3. PointerInv => PointerLeads
  BY DEF PointerInv, LoneIsNamed, LastLeads, Excused, Named, PointerLeads
<1>4. Parts /\ PointerInv => DaemonIsFound
  BY <1>3, ThInvReaches DEF Parts, DaemonIsFound
<1> QED BY <1>1, <1>2, <1>4, PartsInitially, PartsStep, PTL DEF Spec
================================================================================
