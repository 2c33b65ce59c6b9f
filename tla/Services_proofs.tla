---------------------------- MODULE Services_proofs ----------------------------
(***************************************************************************)
(* Theorems about what the daemon does beside its processes, for every     *)
(* number of tabs, questions, texts, rules, samples, lines, events, walks  *)
(* and callers: the questions to the tabs (BrowserBridge), the watch of a  *)
(* project's file (ProjectWatch), the lines of the logs and the alert      *)
(* rules (Monitoring), and the view of a page (LiveView). First each part  *)
(* by itself, then the composition of module MCServices with the scanner.  *)
(***************************************************************************)
EXTENDS MCServices, Scanner_proofs, SequenceTheorems

---------------------------------------------------------------------------------------
(* BrowserBridge. The inductive invariant counts: a request that waits has fewer answers
   than connected tabs it counts on, so that one of these is yet to answer. *)

\* What is true of one request while the tabs C are connected.
Sound(q, C) ==
  /\ q \in Question
  /\ q.tabIds \cup q.answers \subseteq q.sent
  /\ q.at = "pending" => q.tabIds \subseteq C /\ Cardinality(q.answers) < Cardinality(q.tabIds)
  /\ q.timedOut => q.answers # q.sent

BridgeInv ==
  /\ tabs \subseteq Tabs /\ Cardinality(tabs) <= MaxTabs
  /\ order \in [Tabs -> Nat]
  /\ req \in [Reqs -> Question]
  /\ \A r \in Reqs : Sound(req[r], tabs)
  /\ sends \subseteq Reqs \X Tabs

LEMMA CountsOfTabs ==
  ASSUME NEW S \in SUBSET Tabs
  PROVE  IsFiniteSet(S) /\ Cardinality(S) \in Nat
BY BridgeAssumption, FS_Subset, FS_CardinalityType

\* Fewer answers than tabs: some tab is still to answer.
LEMMA SomebodyLeft ==
  ASSUME NEW q, NEW C, Sound(q, C), q.at = "pending"
  PROVE  \E t \in C \cap q.tabIds : t \notin q.answers
<1>1. /\ q.tabIds \in SUBSET Tabs /\ q.answers \in SUBSET Tabs
      /\ q.tabIds \subseteq C /\ Cardinality(q.answers) < Cardinality(q.tabIds)
  BY DEF Sound, Question
<1>2. /\ IsFiniteSet(q.answers)
      /\ Cardinality(q.tabIds) \in Nat /\ Cardinality(q.answers) \in Nat
  BY <1>1, CountsOfTabs
<1>3. ~(q.tabIds \subseteq q.answers)
  BY <1>1, <1>2, FS_Subset
<1> QED BY <1>1, <1>3

LEMMA SettledSound ==
  ASSUME NEW q \in Question, NEW C, NEW timedOut \in BOOLEAN,
         q.tabIds \cup q.answers \subseteq q.sent, timedOut => q.answers # q.sent
  PROVE  Sound(Settled(q, timedOut), C)
BY DEF Sound, Settled, Question

\* A pending request that counts only on connected tabs is sound once the
\* number of its answers has been looked at.
LEMMA CountedSound ==
  ASSUME NEW q \in Question, NEW C, q.at = "pending", q.timedOut = FALSE,
         q.tabIds \cup q.answers \subseteq q.sent, q.tabIds \subseteq C
  PROVE  Sound(SettledIfEnough(q), C)
<1>1. CASE Enough(q)
  BY <1>1, SettledSound DEF SettledIfEnough
<1>2. CASE ~Enough(q)
  <2>1. Cardinality(q.tabIds) \in Nat /\ Cardinality(q.answers) \in Nat
    BY CountsOfTabs DEF Question
  <2>2. Cardinality(q.answers) < Cardinality(q.tabIds)
    BY <1>2, <2>1 DEF Enough
  <2> QED BY <1>2, <2>2 DEF SettledIfEnough, Sound
<1> QED BY <1>1, <1>2

LEMMA ForgottenSound ==
  ASSUME NEW q, NEW C, NEW T, Sound(q, C)
  PROVE  Sound(Forgotten(q, T), C \ T)
<1>1. CASE q.at = "pending" /\ q.tabIds \cap T # {}
  <2> DEFINE s == [at |-> "pending", sent |-> q.sent, tabIds |-> q.tabIds \ T,
                   answers |-> q.answers, timedOut |-> FALSE]
  <2>1. /\ s \in Question /\ s.at = "pending" /\ s.timedOut = FALSE
        /\ s.tabIds \cup s.answers \subseteq s.sent /\ s.tabIds \subseteq C \ T
    BY <1>1 DEF Sound, Question
  <2>2. Forgotten(q, T) = SettledIfEnough(s)
    BY <1>1 DEF Forgotten
  <2> HIDE DEF s
  <2> QED BY <2>1, <2>2, CountedSound
<1>2. CASE ~(q.at = "pending" /\ q.tabIds \cap T # {})
  <2>1. Forgotten(q, T) = q
    BY <1>2 DEF Forgotten
  <2> QED BY <1>2, <2>1 DEF Sound
<1> QED BY <1>1, <1>2

LEMMA MoreTabsSound ==
  ASSUME NEW q, NEW C, NEW D, C \subseteq D, Sound(q, C)
  PROVE  Sound(q, D)
BY DEF Sound

\* Forgetting the tabs of T in every request.
LEMMA ForgetSound ==
  ASSUME NEW Q, NEW C, NEW T, \A r \in Reqs : Sound(Q[r], C)
  PROVE  /\ Forget(Q, T) \in [Reqs -> Question]
         /\ \A r \in Reqs : Sound(Forget(Q, T)[r], C \ T)
<1>1. \A r \in Reqs : Forget(Q, T)[r] = Forgotten(Q[r], T)
  BY DEF Forget
<1>2. \A r \in Reqs : Sound(Forgotten(Q[r], T), C \ T)
  BY ForgottenSound
<1>3. \A r \in Reqs : Forgotten(Q[r], T) \in Question
  BY <1>2 DEF Sound
<1> QED BY <1>1, <1>2, <1>3 DEF Forget

\* One element more makes a set larger by one at most.
LEMMA OneTabMore ==
  ASSUME NEW X, NEW x, IsFiniteSet(X)
  PROVE  /\ Cardinality(X) \in Nat
         /\ Cardinality(X \cup {x}) <= Cardinality(X) + 1
<1>1. Cardinality(X) \in Nat
  BY FS_CardinalityType
<1>2. Cardinality(X \cup {x}) = Cardinality(X) \/ Cardinality(X \cup {x}) = Cardinality(X) + 1
  <2>1. CASE x \in X
    <3>1. X \cup {x} = X
      BY <2>1
    <3> QED BY <3>1
  <2>2. CASE x \notin X
    BY <2>2, FS_AddElement
  <2> QED BY <2>1, <2>2
<1> QED BY <1>1, <1>2

\* A finite set has an element of least rank: the one below which fewest lie,
\* since inclusion is well founded on its subsets.
LEMMA LeastExists ==
  ASSUME NEW X, NEW f, IsFiniteSet(X), X # {}, \A x \in X : f[x] \in Nat
  PROVE  \E u \in X : \A v \in X : f[u] <= f[v]
<1> DEFINE UpTo(u) == {v \in X : f[v] <= f[u]}
           T == {UpTo(u) : u \in X}
           R == StrictSubsetOrdering(X)
<1>1. IsWellFoundedOn(R, FiniteSubsetsOf(X))
  BY FS_StrictSubsetOrderingWellFounded
<1>2. T \subseteq FiniteSubsetsOf(X) /\ T # {}
  <2>1. FiniteSubsetsOf(X) = SUBSET X
    BY FS_FiniteSubsetsOfFinite
  <2>2. T \subseteq SUBSET X
    OBVIOUS
  <2>3. T # {}
    OBVIOUS
  <2> QED BY <2>1, <2>2, <2>3
<1>3. \E D \in T : \A E \in T : <<E, D>> \notin R
  <2> HIDE DEF T, R
  <2> QED BY <1>1, <1>2, WFMin
<1>4. PICK u \in X : \A v \in X : <<UpTo(v), UpTo(u)>> \notin R
  BY <1>3
<1>5. ASSUME NEW v \in X, ~(f[u] <= f[v])
      PROVE  FALSE
  <2>1. f[v] < f[u] /\ f[u] \in Nat /\ f[v] \in Nat
    BY <1>5
  <2>2. UpTo(v) \subseteq UpTo(u)
    BY <2>1
  <2>3. u \in UpTo(u) /\ u \notin UpTo(v)
    BY <2>1
  <2>4. <<UpTo(v), UpTo(u)>> \in R
    BY <2>2, <2>3 DEF StrictSubsetOrdering
  <2> QED BY <1>4, <2>4
<1> QED BY <1>5

\* Where the limit is reached the oldest tab exists, so one tab makes room.
LEMMA RoomMade ==
  ASSUME BridgeInv, NEW t \in Tabs
  PROVE  Cardinality((tabs \ MakesRoom) \cup {t}) <= MaxTabs
<1>1. tabs \in SUBSET Tabs /\ IsFiniteSet(tabs) /\ Cardinality(tabs) \in Nat
      /\ MaxTabs \in Nat \ {0}
  BY CountsOfTabs, BridgeAssumption DEF BridgeInv
<1>2. CASE Cardinality(tabs) >= MaxTabs
  <2>1. tabs # {}
    BY <1>1, <1>2, FS_EmptySet
  <2>4. \E u \in tabs : \A v \in tabs : order[u] <= order[v]
    <3>1. \A u \in tabs : order[u] \in Nat
      BY <1>1 DEF BridgeInv
    <3> QED BY <1>1, <2>1, <3>1, LeastExists
  <2>5. Oldest \in tabs
    BY <2>4 DEF Oldest
  <2>6. MakesRoom = {Oldest}
    BY <1>2 DEF MakesRoom
  <2>7. IsFiniteSet(tabs \ {Oldest}) /\ Cardinality(tabs \ {Oldest}) = Cardinality(tabs) - 1
    BY <1>1, <2>5, FS_RemoveElement
  <2>8. Cardinality((tabs \ {Oldest}) \cup {t}) <= Cardinality(tabs)
    <3>1. Cardinality(tabs \ {Oldest}) <= Cardinality(tabs) - 1
      BY <1>1, <2>7
    <3>2. Cardinality((tabs \ {Oldest}) \cup {t}) <= Cardinality(tabs \ {Oldest}) + 1
      BY <2>7, OneTabMore
    <3>3. Cardinality((tabs \ {Oldest}) \cup {t}) \in Nat /\ Cardinality(tabs \ {Oldest}) \in Nat
      BY <1>1, CountsOfTabs
    <3> QED BY <1>1, <3>1, <3>2, <3>3
  <2>9. Cardinality((tabs \ {Oldest}) \cup {t}) \in Nat
    BY <1>1, CountsOfTabs
  <2> QED BY <1>1, <2>6, <2>8, <2>9 DEF BridgeInv
<1>3. CASE ~(Cardinality(tabs) >= MaxTabs)
  <2>1. (tabs \ MakesRoom) \cup {t} = tabs \cup {t}
    BY <1>3 DEF MakesRoom
  <2>2. Cardinality(tabs \cup {t}) <= Cardinality(tabs) + 1
    BY <1>1, OneTabMore
  <2>3. Cardinality(tabs \cup {t}) \in Nat
    BY <1>1, CountsOfTabs
  <2> QED BY <1>1, <1>3, <2>1, <2>2, <2>3
<1> QED BY <1>2, <1>3

LEMMA FewerTabs ==
  ASSUME BridgeInv, NEW T
  PROVE  tabs \ T \subseteq Tabs /\ Cardinality(tabs \ T) <= MaxTabs
<1>1. tabs \in SUBSET Tabs /\ IsFiniteSet(tabs) /\ Cardinality(tabs) \in Nat
  BY CountsOfTabs DEF BridgeInv
<1>2. Cardinality(tabs \ T) \in Nat /\ Cardinality(tabs \ T) <= Cardinality(tabs)
  BY <1>1, CountsOfTabs, FS_Subset
<1> QED BY <1>1, <1>2, BridgeAssumption DEF BridgeInv

-----------------------------------------------------------------------------
LEMMA ConnectInv ==
  ASSUME BridgeInv, NEW t \in Tabs, Connect(t)
  PROVE  BridgeInv'
<1>1. tabs' = (tabs \ MakesRoom) \cup {t} /\ req' = Forget(req, MakesRoom) /\ sends' = sends
  BY DEF Connect
<1>2. tabs' \subseteq Tabs /\ Cardinality(tabs') <= MaxTabs
  BY <1>1, RoomMade DEF BridgeInv
<1>3. order' \in [Tabs -> Nat]
  <2>1. Cardinality({u \in Tabs : order[u] # 0}) \in Nat
    BY CountsOfTabs
  <2> QED BY <2>1 DEF Connect, BridgeInv
<1>4. /\ req' \in [Reqs -> Question]
      /\ \A r \in Reqs : Sound(req'[r], tabs \ MakesRoom)
  BY <1>1, ForgetSound DEF BridgeInv
<1>5. \A r \in Reqs : Sound(req'[r], tabs')
  BY <1>1, <1>4, MoreTabsSound
<1> QED BY <1>1, <1>2, <1>3, <1>4, <1>5 DEF BridgeInv

LEMMA GoneInv ==
  ASSUME BridgeInv, NEW T, tabs' = tabs \ T, req' = Forget(req, T),
         order' = order, sends' \subseteq sends
  PROVE  BridgeInv'
<1>1. tabs' \subseteq Tabs /\ Cardinality(tabs') <= MaxTabs
  BY FewerTabs
<1>2. req' \in [Reqs -> Question] /\ \A r \in Reqs : Sound(req'[r], tabs')
  BY ForgetSound DEF BridgeInv
<1> QED BY <1>1, <1>2 DEF BridgeInv

LEMMA RequestInv ==
  ASSUME BridgeInv, NEW r \in Reqs, NEW T \in SUBSET Tabs, NEW Dead \in SUBSET Tabs,
         Request(r, T, Dead)
  PROVE  BridgeInv'
<1> DEFINE q == [at |-> "pending", sent |-> T, tabIds |-> T, answers |-> {}, timedOut |-> FALSE]
           Q == [req EXCEPT ![r] = q]
<1>1. /\ T # {} /\ T \subseteq tabs /\ req' = Forget(Q, Dead) /\ tabs' = tabs \ Dead
      /\ sends' = sends \cup ({r} \X (T \ Dead)) /\ order' = order
  BY DEF Request
<1>2. Sound(q, tabs)
  <2>1. Cardinality({}) = 0 /\ Cardinality(T) \in Nat /\ Cardinality(T) # 0
    BY <1>1, CountsOfTabs, FS_EmptySet
  <2> QED BY <1>1, <2>1 DEF Sound, Question
<1>3. \A s \in Reqs : Q[s] = q \/ Q[s] = req[s]
  BY DEF BridgeInv
<1>4. \A s \in Reqs : Sound(Q[s], tabs)
  <2> HIDE DEF q, Q
  <2> QED BY <1>2, <1>3 DEF BridgeInv
<1> HIDE DEF q, Q
<1>5. req' \in [Reqs -> Question] /\ \A s \in Reqs : Sound(req'[s], tabs')
  BY <1>1, <1>4, ForgetSound
<1>6. tabs' \subseteq Tabs /\ Cardinality(tabs') <= MaxTabs
  BY <1>1, FewerTabs
<1>7. sends' \subseteq Reqs \X Tabs
  BY <1>1 DEF BridgeInv
<1> QED BY <1>1, <1>5, <1>6, <1>7 DEF BridgeInv

LEMMA SendEndsInv ==
  ASSUME BridgeInv, NEW r \in Reqs, NEW t \in Tabs, NEW ok \in BOOLEAN, SendEnds(r, t, ok)
  PROVE  BridgeInv'
<1>1. sends' \subseteq sends /\ order' = order
  BY DEF SendEnds
<1>2. CASE ok \/ t \notin tabs
  BY <1>1, <1>2 DEF SendEnds, BridgeInv
<1>3. CASE ~ok /\ t \in tabs
  <2>1. tabs' = tabs \ {t} /\ req' = Forget(req, {t})
    BY <1>3 DEF SendEnds
  <2> QED BY <1>1, <2>1, GoneInv
<1> QED BY <1>2, <1>3

\* One request changes, the tabs stay.
LEMMA OneRequestInv ==
  ASSUME BridgeInv, NEW r \in Reqs, NEW q, Sound(q, tabs), req' = [req EXCEPT ![r] = q],
         UNCHANGED <<tabs, order, sends>>
  PROVE  BridgeInv'
<1>1. q \in Question
  BY DEF Sound
<1>2. \A s \in Reqs : req'[s] = q \/ req'[s] = req[s]
  BY DEF BridgeInv
<1> QED BY <1>1, <1>2 DEF BridgeInv

LEMMA ReplyInv ==
  ASSUME BridgeInv, NEW r \in Reqs, NEW t \in Tabs, Reply(r, t)
  PROVE  BridgeInv'
<1> DEFINE q == [at |-> "pending", sent |-> req[r].sent, tabIds |-> req[r].tabIds,
                 answers |-> req[r].answers \cup {t}, timedOut |-> FALSE]
<1>1. /\ Accepts(r, t) /\ req' = [req EXCEPT ![r] = SettledIfEnough(q)]
      /\ UNCHANGED <<tabs, order, sends>>
  BY DEF Reply
<1>2. /\ q \in Question /\ q.at = "pending" /\ q.timedOut = FALSE
      /\ q.tabIds \cup q.answers \subseteq q.sent /\ q.tabIds \subseteq tabs
  BY <1>1 DEF Accepts, Pending, BridgeInv, Sound, Question
<1> HIDE DEF q
<1> QED BY <1>1, <1>2, CountedSound, OneRequestInv

LEMMA TimesOutInv ==
  ASSUME BridgeInv, NEW r \in Reqs, TimesOut(r)
  PROVE  BridgeInv'
<1>1. /\ req[r].at = "pending" /\ req' = [req EXCEPT ![r] = Settled(req[r], TRUE)]
      /\ UNCHANGED <<tabs, order, sends>>
  BY DEF TimesOut, Pending
<1>2. Sound(req[r], tabs)
  BY DEF BridgeInv
<1>3. req[r].answers # req[r].sent
  <2>1. PICK t \in tabs \cap req[r].tabIds : t \notin req[r].answers
    BY <1>1, <1>2, SomebodyLeft
  <2> QED BY <1>2, <2>1 DEF Sound
<1>4. Sound(Settled(req[r], TRUE), tabs)
  BY <1>2, <1>3, SettledSound DEF Sound
<1> QED BY <1>1, <1>4, OneRequestInv

LEMMA BridgeInvInductive ==
  /\ BridgeInit => BridgeInv
  /\ BridgeInv /\ [BridgeNext]_bridgeVars => BridgeInv'
<1>1. BridgeInit => BridgeInv
  <2> SUFFICES ASSUME BridgeInit PROVE BridgeInv
    OBVIOUS
  <2>1. Sound(Unasked, {})
    BY DEF Sound, Unasked, Question
  <2>2. Unasked \in Question
    BY <2>1 DEF Sound
  <2>3. Cardinality({}) <= MaxTabs
    BY FS_EmptySet, BridgeAssumption
  <2> QED BY <2>1, <2>2, <2>3 DEF BridgeInit, BridgeInv
<1>2. BridgeInv /\ [BridgeNext]_bridgeVars => BridgeInv'
  <2> SUFFICES ASSUME BridgeInv, [BridgeNext]_bridgeVars PROVE BridgeInv'
    OBVIOUS
  <2>1. ASSUME NEW t \in Tabs, Disconnect(t) PROVE BridgeInv'
    BY <2>1, GoneInv DEF Disconnect
  <2>2. CASE UNCHANGED bridgeVars
    BY <2>2 DEF bridgeVars, BridgeInv
  <2> QED BY <2>1, <2>2, ConnectInv, RequestInv, SendEndsInv, ReplyInv, TimesOutInv
          DEF BridgeNext
<1> QED BY <1>1, <1>2

-----------------------------------------------------------------------------
\* The limit on tabs and the bookkeeping of requests hold for every number of
\* tabs and requests.
THEOREM BridgeTypeCorrect == BridgeSpec => []BridgeTypeOK
<1>1. BridgeInv => BridgeTypeOK
  BY DEF BridgeInv, BridgeTypeOK, Sound
<1> QED BY <1>1, BridgeInvInductive, PTL DEF BridgeSpec

\* No request ever waits for tabs that have all answered or gone.
THEOREM NobodyWaitsInVain == BridgeSpec => []WaitsForSomebody
<1>1. BridgeInv => WaitsForSomebody
  BY SomebodyLeft DEF BridgeInv, WaitsForSomebody, Pending
<1> QED BY <1>1, BridgeInvInductive, PTL DEF BridgeSpec

\* A request that timed out lacks an answer it had asked for.
THEOREM TimeoutsArePartial == BridgeSpec => []TimedOutIsPartial
<1>1. BridgeInv => TimedOutIsPartial
  BY DEF BridgeInv, TimedOutIsPartial, Sound
<1> QED BY <1>1, BridgeInvInductive, PTL DEF BridgeSpec

\* A settled request never changes again.
THEOREM SettledForGood == BridgeSpec => SettlesOnce
<1>1. BridgeInv /\ [BridgeNext]_bridgeVars
        => \A r \in Reqs : req[r].at \in {"resolved", "rejected"} => req'[r] = req[r]
  <2> SUFFICES ASSUME BridgeInv, [BridgeNext]_bridgeVars, NEW r \in Reqs,
                      req[r].at \in {"resolved", "rejected"}
               PROVE  req'[r] = req[r]
    OBVIOUS
  <2>1. \A Q, T : Q[r] = req[r] => Forget(Q, T)[r] = req[r]
    BY DEF Forget, Forgotten
  <2>2. ASSUME NEW t \in Tabs, Connect(t) \/ Disconnect(t) PROVE req'[r] = req[r]
    BY <2>1, <2>2 DEF Connect, Disconnect
  <2>3. ASSUME NEW s \in Reqs, NEW T \in SUBSET Tabs, NEW Dead \in SUBSET Tabs,
               Request(s, T, Dead)
        PROVE  req'[r] = req[r]
    <3> DEFINE Q == [req EXCEPT ![s] = [at |-> "pending", sent |-> T, tabIds |-> T,
                                        answers |-> {}, timedOut |-> FALSE]]
    <3>1. s # r /\ req' = Forget(Q, Dead)
      BY <2>3 DEF Request
    <3>2. Q[r] = req[r]
      BY <3>1 DEF BridgeInv
    <3> HIDE DEF Q
    <3> QED BY <2>1, <3>1, <3>2
  <2>4. ASSUME NEW s \in Reqs, NEW t \in Tabs, NEW ok \in BOOLEAN, SendEnds(s, t, ok)
        PROVE  req'[r] = req[r]
    BY <2>1, <2>4 DEF SendEnds
  <2>5. ASSUME NEW s \in Reqs, NEW t \in Tabs, Reply(s, t) PROVE req'[r] = req[r]
    BY <2>5 DEF Reply, Accepts, Pending, BridgeInv
  <2>6. ASSUME NEW s \in Reqs, TimesOut(s) PROVE req'[r] = req[r]
    BY <2>6 DEF TimesOut, Pending, BridgeInv
  <2>7. CASE UNCHANGED bridgeVars
    BY <2>7 DEF bridgeVars
  <2> QED BY <2>2, <2>3, <2>4, <2>5, <2>6, <2>7 DEF BridgeNext
<1> QED BY <1>1, BridgeInvInductive, PTL DEF BridgeSpec, SettlesOnce

---------------------------------------------------------------------------------------
(* ProjectWatch. *)

\* What a handler between two reads relies on: the file it reads is watched,
\* and the stamp it took is not from the future.
HandlerOK ==
  /\ busy.stamp <= stamp
  /\ busy.poll => busy.at \in {"read", "parse"}
  /\ busy.at \in {"read", "parse", "reread"} => watched
  /\ busy.at = "prime" => ~watched
  /\ busy.at = "parse" => busy.raw \in Texts
  /\ busy.at = "add" => busy.raw \in Valid

FileInv ==
  /\ disk \in Texts \cup {NoText} /\ stamp \in Nat \ {0}
  /\ lastText \in Texts \cup {NoText} /\ seen \in 0..stamp /\ busy \in Handler
  /\ {dir, event, armed, watched, timer, stopped} \subseteq BOOLEAN
  /\ ~watched => lastText = NoText /\ seen = 0 /\ ~timer /\ ~armed
  /\ HandlerOK

\* What compose prepared is that of a start that has begun or of its child.
PrepOK ==
  /\ prep \in [Procs -> Defs \cup {NoDef}]
  /\ \A p \in Procs : prep[p] # NoDef => p \in due \/ run[p] # NoDef

\* An id that is not registered runs nothing.
NothingUnknownRuns == \A p \in Procs : reg[p] = NoDef => run[p] = NoDef

ProcInv ==
  /\ reg \in [Procs -> Defs \cup {NoDef}] /\ run \in [Procs -> Defs \cup {NoDef}]
  /\ changed \in [Procs -> BOOLEAN]
  /\ due \subseteq {p \in Procs : reg[p] # NoDef /\ run[p] = NoDef}
  /\ ending \subseteq {p \in Procs : run[p] # NoDef}
  /\ NothingUnknownRuns
  /\ PrepOK
  /\ DriftIsFlagged

LEMMA InvImplies ==
  FileInv /\ ProcInv => WatchTypeOK /\ DriftIsFlagged
BY DEF FileInv, ProcInv, PrepOK, WatchTypeOK

-----------------------------------------------------------------------------
(* The processes.                                                           *)

\* Of those that are queued one begins at most, with its definition.
LEMMA OnlyThosePrepared ==
  ASSUME NEW S \in SUBSET Procs, NEW d \in [Procs -> Defs \cup {NoDef}],
         NEW kept \in [Procs -> Defs \cup {NoDef}], BeginsOne(S, d, kept)
  PROVE  /\ prep' \in [Procs -> Defs \cup {NoDef}]
         /\ \A p \in Procs : prep'[p] # NoDef => p \in S \/ kept[p] # NoDef
BY DEF BeginsOne

\* A reload, whoever asked for it, leaves no child of another definition
\* without a flag or a restart.
LEMMA ReconcileKeeps ==
  ASSUME ProcInv, NEW d \in [Procs -> Defs \cup {NoDef}], NEW fromWatch \in BOOLEAN,
         NEW auto \in SUBSET Procs, Reconcile(d, fromWatch, auto)
  PROVE  ProcInv'
<1>1. reg' = d /\ reg' \in [Procs -> Defs \cup {NoDef}]
  BY DEF Reconcile
<1>2. \A p \in Procs : run'[p] = IF d[p] = NoDef THEN NoDef ELSE run[p]
  BY DEF Reconcile
<1>3. run' \in [Procs -> Defs \cup {NoDef}]
  BY DEF Reconcile, ProcInv
<1>4. changed' \in [Procs -> BOOLEAN]
  BY DEF Reconcile, ProcInv, Flags
<1>5. due' \subseteq {p \in Procs : reg'[p] # NoDef /\ run'[p] = NoDef}
  <2>1. due' \subseteq {p \in Procs : d[p] # NoDef /\ (p \in due \/ reg[p] = NoDef)}
    BY DEF Reconcile, Starts, ProcInv
  <2> QED BY <2>1, <1>1, <1>2 DEF ProcInv, NothingUnknownRuns
<1>6. ending' \subseteq {p \in Procs : run'[p] # NoDef}
  BY <1>2 DEF Reconcile, ProcInv
<1>7. NothingUnknownRuns'
  BY <1>1, <1>2 DEF NothingUnknownRuns
<1>8. DriftIsFlagged'
  <2> SUFFICES ASSUME NEW p \in Procs, run'[p] # NoDef, run'[p] # reg'[p]
               PROVE  changed'[p] \/ p \in ending'
    BY DEF DriftIsFlagged
  <2>1. d[p] # NoDef /\ run'[p] = run[p] /\ reg'[p] = d[p]
    BY <1>1, <1>2
  <2>2. CASE reg[p] = d[p]
    <3>1. changed[p] \/ p \in ending
      BY <2>1, <2>2 DEF ProcInv, DriftIsFlagged
    <3> QED BY <2>1, <3>1 DEF Reconcile
  <2>3. CASE reg[p] # d[p]
    BY <2>1, <2>3 DEF Reconcile, Flags
  <2> QED BY <2>2, <2>3
<1>9. PrepOK'
  <2> DEFINE New == Starts(fromWatch, auto, d)
             StillUp == [p \in Procs |-> IF d[p] = NoDef THEN NoDef ELSE prep[p]]
  <2>1. New \in SUBSET Procs /\ New \subseteq due'
    BY DEF Reconcile, Starts
  <2>2. StillUp = [p \in Procs |-> IF p \in {q \in Procs : d[q] = NoDef} THEN NoDef ELSE prep[p]]
    OBVIOUS
  <2>3. StillUp \in [Procs -> Defs \cup {NoDef}] /\ BeginsOne(New, d, StillUp)
    BY <2>2 DEF Reconcile, ProcInv, PrepOK
  <2> HIDE DEF New, StillUp
  <2>4. /\ prep' \in [Procs -> Defs \cup {NoDef}]
        /\ \A p \in Procs : prep'[p] # NoDef => p \in New \/ StillUp[p] # NoDef
    BY <2>1, <2>3, OnlyThosePrepared
  <2>5. ASSUME NEW p \in Procs, prep'[p] # NoDef, p \notin due'
        PROVE  run'[p] # NoDef
    <3>1. StillUp[p] # NoDef
      BY <2>1, <2>4, <2>5
    <3>2. d[p] # NoDef /\ prep[p] # NoDef
      BY <3>1 DEF StillUp
    <3>3. p \notin due
      BY <2>5, <3>2 DEF Reconcile
    <3> QED BY <1>2, <3>2, <3>3 DEF ProcInv, PrepOK
  <2> QED BY <2>4, <2>5 DEF PrepOK
<1> QED BY <1>1, <1>3, <1>4, <1>5, <1>6, <1>7, <1>8, <1>9 DEF ProcInv

LEMMA ReplaceKeeps ==
  ASSUME NEW d \in [Procs -> Defs \cup {NoDef}], NEW auto \in SUBSET Procs, Replace(d, auto)
  PROVE  ProcInv'
<1>1. PrepOK'
  <2> DEFINE New == {p \in auto : d[p] # NoDef}
             StillUp == [p \in Procs |-> NoDef]
  <2>1. /\ New \in SUBSET Procs /\ due' = New /\ BeginsOne(New, d, StillUp)
        /\ StillUp \in [Procs -> Defs \cup {NoDef}] /\ \A p \in Procs : StillUp[p] = NoDef
    BY DEF Replace
  <2> HIDE DEF New, StillUp
  <2> QED BY <2>1, OnlyThosePrepared DEF PrepOK
<1> QED BY <1>1 DEF Replace, ProcInv, NothingUnknownRuns, DriftIsFlagged

LEMMA ProcessStepKeeps ==
  ASSUME ProcInv, NEW p \in Procs, Start(p) \/ Spawn(p) \/ Stop(p) \/ Exit(p)
  PROVE  ProcInv'
<1>1. CASE Start(p)
  BY <1>1 DEF Start, ProcInv, PrepOK, NothingUnknownRuns, DriftIsFlagged
<1>2. CASE Spawn(p)
  BY <1>2 DEF Spawn, ProcInv, PrepOK, NothingUnknownRuns, DriftIsFlagged
<1>3. CASE Stop(p)
  BY <1>3 DEF Stop, ProcInv, PrepOK, NothingUnknownRuns, DriftIsFlagged
<1>4. CASE Exit(p)
  BY <1>4 DEF Exit, ProcInv, PrepOK, NothingUnknownRuns, DriftIsFlagged
<1> QED BY <1>1, <1>2, <1>3, <1>4

LEMMA SameProcs ==
  ASSUME ProcInv, UNCHANGED procVars
  PROVE  ProcInv'
BY DEF ProcInv, PrepOK, procVars, NothingUnknownRuns, DriftIsFlagged

LEMMA DefsOfTexts ==
  ASSUME NEW t \in Valid
  PROVE  DefOf[t] \in [Procs -> Defs \cup {NoDef}]
BY WatchAssumption

-----------------------------------------------------------------------------
(* The file.                                                                *)

LEMMA DiskStepKeeps ==
  ASSUME FileInv, Unlink \/ \E t \in Texts : Write(t)
  PROVE  FileInv'
<1>1. CASE Unlink
  BY <1>1 DEF Unlink, FileInv, HandlerOK, watchVars
<1>2. CASE \E t \in Texts : Write(t)
  <2>1. PICK t \in Texts : Write(t)
    BY <1>2
  <2>2. disk' \in Texts \cup {NoText} /\ stamp' \in Nat \ {0} /\ stamp <= stamp'
    BY <2>1 DEF Write, FileInv
  <2>3. UNCHANGED <<watchVars, busy>>
    BY <2>1 DEF Write
  <2>4. busy' \in Handler /\ busy.stamp \in Nat
    BY <2>3 DEF FileInv, Handler
  <2>5. HandlerOK'
    BY <2>2, <2>3, <2>4 DEF FileInv, HandlerOK, watchVars
  <2>6. {dir', event', armed', watched', timer', stopped'} \subseteq BOOLEAN
    BY <2>1 DEF Write, FileInv, watchVars
  <2>7. lastText' \in Texts \cup {NoText} /\ seen' \in 0..stamp'
    BY <2>2, <2>3 DEF FileInv, watchVars
  <2>8. ~watched' => lastText' = NoText /\ seen' = 0 /\ ~timer' /\ ~armed'
    BY <2>3 DEF FileInv, watchVars
  <2> QED BY <2>2, <2>4, <2>5, <2>6, <2>7, <2>8 DEF FileInv
<1> QED BY <1>1, <1>2

LEMMA SameFile ==
  ASSUME FileInv, UNCHANGED <<diskVars, event, watchVars, busy>>
  PROVE  FileInv'
BY DEF FileInv, HandlerOK, diskVars, watchVars

LEMMA IdleIsHandler == Nothing \in Handler /\ Nothing.at = "idle" /\ ~Nothing.poll /\ Nothing.stamp = 0
BY DEF Nothing, Handling, Handler

LEMMA StatIsPast == FileInv => StatStamp \in 0..stamp
BY DEF FileInv, StatStamp

LEMMA EndsKeeps ==
  ASSUME FileInv, NEW readable \in BOOLEAN, NEW synced \in BOOLEAN, Ends(readable, synced),
         watched, lastText' \in Texts \cup {NoText},
         UNCHANGED <<diskVars, event, watched, timer, stopped>>
  PROVE  FileInv'
<1>1. busy' \in Handler /\ HandlerOK'
  BY IdleIsHandler DEF Ends, FileInv, HandlerOK, diskVars
<1>2. seen' \in 0..stamp
  BY DEF Ends, SeenAfter, FileInv, HandlerOK, Handler
<1>3. armed' \in BOOLEAN
  BY DEF Ends, Rearmed, FileInv
<1> QED BY <1>1, <1>2, <1>3 DEF FileInv, diskVars

\* The watcher's own steps, between handlers.
LEMMA WatcherStepKeeps ==
  ASSUME FileInv, Event \/ WatchError \/ TimerFires \/ PollReads \/ PollRearms
  PROVE  FileInv'
<1>1. CASE Event
  BY <1>1 DEF Event, FileInv, HandlerOK, diskVars, Idle
<1>2. CASE WatchError
  BY <1>2 DEF WatchError, FileInv, HandlerOK, diskVars
<1>3. CASE TimerFires
  <2>1. watched /\ stamp \in Nat
    BY <1>3 DEF TimerFires, FileInv
  <2>2. busy' \in Handler /\ HandlerOK'
    BY <1>3, <2>1 DEF TimerFires, diskVars, Handling, Handler, HandlerOK
  <2> QED BY <1>3, <2>1, <2>2 DEF TimerFires, FileInv, diskVars
<1>4. CASE PollReads
  <2>1. stamp \in Nat /\ StatStamp \in 0..stamp
    BY StatIsPast DEF FileInv
  <2>2. busy' \in Handler /\ HandlerOK'
    BY <1>4, <2>1 DEF PollReads, diskVars, watchVars, Handling, Handler, HandlerOK
  <2> QED BY <1>4, <2>2 DEF PollReads, FileInv, diskVars, watchVars
<1>5. CASE PollRearms
  BY <1>5 DEF PollRearms, Rearmed, FileInv, HandlerOK, diskVars
<1> QED BY <1>1, <1>2, <1>3, <1>4, <1>5

\* The rest of a handler.
LEMMA HandlerStepKeeps ==
  ASSUME FileInv, HandlerGoesOn
  PROVE  FileInv'
<1>1. CASE ReadFails
  <2>1. watched
    BY <1>1 DEF ReadFails, FileInv, HandlerOK
  <2> QED BY <1>1, <2>1, EndsKeeps DEF ReadFails, FileInv
<1>2. CASE ReadRaw
  <2>1. watched
    BY <1>2 DEF ReadRaw, FileInv, HandlerOK
  <2>2. CASE disk = lastText
    BY <1>2, <2>1, <2>2, EndsKeeps DEF ReadRaw, FileInv
  <2>3. CASE disk # lastText
    <3>1. /\ busy' = Handling("parse", disk, busy.poll, busy.stamp)
          /\ UNCHANGED <<diskVars, event, watchVars>>
      BY <1>2, <2>3 DEF ReadRaw, watchVars
    <3>2. disk \in Texts
      BY <1>2 DEF ReadRaw, FileInv
    <3>3. busy.poll \in BOOLEAN /\ busy.stamp \in 0..stamp
      BY DEF FileInv, HandlerOK, Handler
    <3>4. busy' \in Handler /\ HandlerOK'
      BY <2>1, <3>1, <3>2, <3>3 DEF diskVars, watchVars, FileInv, Handling, Handler, HandlerOK
    <3> QED BY <3>1, <3>4 DEF FileInv, diskVars, watchVars
  <2> QED BY <2>2, <2>3
<1>3. CASE Parse
  <2>1. watched /\ busy.raw \in Texts
    BY <1>3 DEF Parse, FileInv, HandlerOK
  <2>2. Ends(TRUE, TRUE) \/ Ends(TRUE, FALSE)
    BY <1>3 DEF Parse
  <2> QED BY <1>3, <2>1, <2>2, EndsKeeps DEF Parse
<1>4. CASE Prime
  <2>1. busy' \in Handler /\ HandlerOK'
    BY <1>4, IdleIsHandler DEF Prime, FileInv, HandlerOK, diskVars
  <2>2. seen' \in 0..stamp
    BY <1>4 DEF Prime, FileInv, HandlerOK, Handler
  <2> QED BY <1>4, <2>1, <2>2 DEF Prime, FileInv, diskVars
<1>5. CASE \E auto \in SUBSET Procs : AddProject(auto)
  <2>1. PICK auto \in SUBSET Procs : AddProject(auto)
    BY <1>5
  <2>2. CASE watched
    <3>1. busy' \in Handler /\ HandlerOK'
      BY <2>1, <2>2, IdleIsHandler DEF AddProject, FileInv, HandlerOK, diskVars
    <3> QED BY <2>1, <2>2, <3>1 DEF AddProject, Rearmed, FileInv, diskVars
  <2>3. CASE ~watched
    <3>1. stamp \in Nat /\ StatStamp \in 0..stamp
      BY StatIsPast DEF FileInv
    <3>2. busy' \in Handler /\ HandlerOK'
      BY <2>1, <2>3, <3>1 DEF AddProject, diskVars, Handling, Handler, HandlerOK
    <3> QED BY <2>1, <2>3, <3>2 DEF AddProject, FileInv, diskVars
  <2> QED BY <2>2, <2>3
<1>6. CASE \E auto \in SUBSET Procs : Reread(auto)
  <2>1. PICK auto \in SUBSET Procs : Reread(auto)
    BY <1>6
  <2>2. watched /\ lastText' \in Texts \cup {NoText}
    BY <2>1 DEF Reread, FileInv, HandlerOK
  <2>3. Ends(TRUE, TRUE) \/ Ends(TRUE, FALSE)
    BY <2>1 DEF Reread
  <2> QED BY <2>1, <2>2, <2>3, EndsKeeps DEF Reread
<1> QED BY <1>1, <1>2, <1>3, <1>4, <1>5, <1>6 DEF HandlerGoesOn

LEMMA UnwatchedKeeps ==
  ASSUME FileInv, Idle, Unwatched, UNCHANGED <<diskVars, event, busy>>, stopped' \in BOOLEAN
  PROVE  FileInv'
<1>1. busy' \in Handler /\ HandlerOK'
  BY IdleIsHandler DEF Idle, FileInv, HandlerOK, diskVars
<1>2. lastText' = NoText /\ seen' = 0 /\ ~timer' /\ ~armed'
  BY DEF Unwatched, TimerCancelled
<1>3. {dir', event', armed', watched', timer', stopped'} \subseteq BOOLEAN
  BY DEF Unwatched, TimerCancelled, FileInv, diskVars
<1> QED BY <1>1, <1>2, <1>3 DEF FileInv, diskVars

LEMMA UserStepKeeps ==
  ASSUME FileInv, Load \/ Remove \/ Shutdown \/ \E t \in Valid : Edit(t)
  PROVE  FileInv'
<1>1. CASE Load
  <2>1. disk \in Valid /\ disk \in Texts /\ stamp \in Nat
    BY <1>1, WatchAssumption DEF Load, FileInv
  <2>2. busy' \in Handler /\ HandlerOK'
    BY <1>1, <2>1 DEF Load, diskVars, watchVars, Handling, Handler, HandlerOK
  <2> QED BY <1>1, <2>2 DEF Load, FileInv, diskVars, watchVars
<1>2. CASE Remove
  BY <1>2, UnwatchedKeeps DEF Remove, FileInv
<1>3. CASE Shutdown
  BY <1>3, UnwatchedKeeps DEF Shutdown
<1>4. CASE \E t \in Valid : Edit(t)
  <2>1. PICK t \in Valid : Edit(t)
    BY <1>4
  <2>2. disk' \in Texts /\ stamp' \in Nat \ {0} /\ stamp \in Nat /\ stamp <= stamp'
    BY <2>1, WatchAssumption DEF Edit, FileInv
  <2>3. watched /\ UNCHANGED <<dir, watchVars>> /\ event' \in BOOLEAN
    BY <2>1 DEF Edit, FileInv
  <2>4. busy' \in Handler /\ HandlerOK'
    BY <2>1, <2>2, <2>3 DEF Edit, watchVars, Handling, Handler, HandlerOK
  <2>5. lastText' \in Texts \cup {NoText} /\ seen' \in 0..stamp'
    BY <2>2, <2>3 DEF FileInv, watchVars
  <2> QED BY <2>2, <2>3, <2>4, <2>5 DEF FileInv, watchVars
<1> QED BY <1>1, <1>2, <1>3, <1>4

-----------------------------------------------------------------------------
(* Each step of the specification.                                          *)

LEMMA InitEstablishes ==
  WatchInit => FileInv /\ ProcInv
<1> SUFFICES ASSUME WatchInit
             PROVE  FileInv /\ ProcInv
  OBVIOUS
<1>1. FileInv
  <2>1. busy \in Handler /\ HandlerOK
    BY IdleIsHandler DEF WatchInit, HandlerOK
  <2>2. {dir, event, armed, watched, timer, stopped} \subseteq BOOLEAN
    BY DEF WatchInit
  <2> QED BY <2>1, <2>2, WatchAssumption DEF WatchInit, FileInv
<1>2. ProcInv
  BY DEF WatchInit, ProcInv, PrepOK, NothingUnknownRuns, DriftIsFlagged
<1> QED BY <1>1, <1>2

LEMMA FileStep ==
  ASSUME FileInv, [WatchNext]_allVars
  PROVE  FileInv'
<1>1. CASE \E p \in Procs : Start(p) \/ Spawn(p) \/ Stop(p) \/ Exit(p)
  BY <1>1, SameFile DEF Start, Spawn, Stop, Exit
<1>2. CASE UNCHANGED allVars
  BY <1>2, SameFile DEF allVars
<1> QED BY <1>1, <1>2, DiskStepKeeps, WatcherStepKeeps, HandlerStepKeeps, UserStepKeeps
        DEF WatchNext

LEMMA ProcStep ==
  ASSUME FileInv, ProcInv, [WatchNext]_allVars
  PROVE  ProcInv'
<1>1. CASE \/ Unlink \/ \E t \in Texts : Write(t)
           \/ Event \/ WatchError \/ TimerFires \/ PollReads \/ PollRearms
           \/ ReadFails \/ ReadRaw \/ Prime
           \/ Load \/ Shutdown \/ \E t \in Valid : Edit(t)
           \/ UNCHANGED allVars
  <2>1. UNCHANGED procVars
    BY <1>1 DEF Unlink, Write, Event, WatchError, TimerFires, PollReads, PollRearms,
                ReadFails, ReadRaw, Prime, Load, Shutdown, Edit, allVars
  <2> QED BY <2>1, SameProcs
<1>2. CASE Parse
  <2>1. CASE disk \in Valid /\ Reconcile(DefOf[disk], TRUE, Procs)
    <3>1. DefOf[disk] \in [Procs -> Defs \cup {NoDef}]
      BY <2>1, DefsOfTexts
    <3> QED BY <2>1, <3>1, ReconcileKeeps
  <2> QED BY <1>2, <2>1, SameProcs DEF Parse
<1>3. CASE \E auto \in SUBSET Procs : AddProject(auto)
  <2>1. PICK auto \in SUBSET Procs : AddProject(auto)
    BY <1>3
  <2>2. busy.raw \in Valid
    BY <2>1 DEF AddProject, FileInv, HandlerOK
  <2>3. DefOf[busy.raw] \in [Procs -> Defs \cup {NoDef}]
    BY <2>2, DefsOfTexts
  <2> QED BY <2>1, <2>3, ReplaceKeeps DEF AddProject
<1>4. CASE \E auto \in SUBSET Procs : Reread(auto)
  <2>1. PICK auto \in SUBSET Procs : Reread(auto)
    BY <1>4
  <2>2. CASE disk \in Valid /\ Reconcile(DefOf[disk], FALSE, auto)
    <3>1. DefOf[disk] \in [Procs -> Defs \cup {NoDef}]
      BY <2>2, DefsOfTexts
    <3> QED BY <2>2, <3>1, ReconcileKeeps
  <2> QED BY <2>1, <2>2, SameProcs DEF Reread
<1>5. CASE Remove
  <2>1. [p \in Procs |-> NoDef] \in [Procs -> Defs \cup {NoDef}]
    OBVIOUS
  <2> QED BY <1>5, <2>1, ReplaceKeeps DEF Remove
<1>6. CASE \E p \in Procs : Start(p) \/ Spawn(p) \/ Stop(p) \/ Exit(p)
  BY <1>6, ProcessStepKeeps
<1> QED BY <1>1, <1>2, <1>3, <1>4, <1>5, <1>6 DEF WatchNext, HandlerGoesOn

LEMMA WatchInvariant == WatchSpec => [](FileInv /\ ProcInv)
<1>1. (FileInv /\ ProcInv) /\ [WatchNext]_allVars => (FileInv /\ ProcInv)'
  BY FileStep, ProcStep
<1> QED BY InitEstablishes, <1>1, PTL DEF WatchSpec

-----------------------------------------------------------------------------
(* The theorems.                                                            *)

\* A file that is watched no more leaves no text, stamp, timer or watch behind,
\* and a start is due only where a registered process has no child.
THEOREM WatchTypeCorrect == WatchSpec => []WatchTypeOK
BY WatchInvariant, InvImplies, PTL

\* Whatever was written, read, edited, started, stopped and restarted in which
\* order: a child whose command, directory and environment are of another
\* definition than the daemon shows is flagged (Entry.configChanged) or being
\* ended. Of the stack compose prepared for it the same is refuted.
THEOREM DriftAlwaysFlagged == WatchSpec => []DriftIsFlagged
BY WatchInvariant, InvImplies, PTL

\* A reload caused by the file never executes anything (reconcileProject with
\* fromWatch): it starts nothing and ends only what is no longer in the file.
THEOREM ReloadExecutesNothing == WatchSpec => WatchExecutesNothing
<1> DEFINE Silently ==
      /\ due' \subseteq due
      /\ ending' \subseteq ending
      /\ \A p \in Procs : run'[p] = run[p] \/ reg'[p] = NoDef
<1>1. ASSUME FileInv, ProcInv, [WatchNext]_allVars, busy.at = "parse"
      PROVE  Silently
  <2>1. ~Idle
    BY <1>1, IdleIsHandler DEF Idle
  <2>2. CASE Parse
    <3>1. CASE Reconcile(DefOf[disk], TRUE, Procs)
      BY <3>1 DEF Reconcile, Starts
    <3>2. CASE UNCHANGED procVars
      BY <3>2 DEF procVars
    <3> QED BY <2>2, <3>1, <3>2 DEF Parse
  <2>3. CASE Unlink \/ (\E t \in Texts : Write(t)) \/ UNCHANGED allVars
    BY <2>3 DEF Unlink, Write, allVars, procVars
  <2> QED
    BY <1>1, <2>1, <2>2, <2>3
    DEF WatchNext, HandlerGoesOn, Event, WatchError, TimerFires, PollReads, PollRearms,
        ReadFails, ReadRaw, Prime, AddProject, Reread, Load, Remove, Shutdown, Edit,
        Start, Spawn, Stop, Exit
<1>2. FileInv /\ ProcInv /\ [WatchNext]_allVars => [busy.at = "parse" => Silently]_allVars
  BY <1>1
<1> QED BY WatchInvariant, <1>2, PTL DEF WatchSpec, WatchExecutesNothing

---------------------------------------------------------------------------------------
(* Monitoring, the logs: the ring for the GUI. *)

\* The indices of the ring wrap round once at most.
LEMMA Wraps ==
  ASSUME NEW m \in Nat \ {0}, NEW n \in Nat, n < 2 * m
  PROVE  n % m = IF n < m THEN n ELSE n - m
<1>1. CASE n < m
  BY <1>1
<1>2. CASE n >= m
  BY <1>2
<1> QED BY <1>1, <1>2

LEMMA Capacities ==
  /\ MaxLogs \in Nat \ {0} /\ MaxPending \in Nat \ {0}
  /\ MaxQueued \in Nat \ {0} /\ MaxFile \in Nat \ {0}
  /\ MaxLines \in Nat
BY LogVaultAssumption

SlotAt(i) == i % MaxQueued

LEMMA WrapsAt ==
  ASSUME NEW i \in Nat, i < 2 * MaxQueued
  PROVE  SlotAt(i) = (IF i < MaxQueued THEN i ELSE i - MaxQueued) /\ SlotAt(i) \in 0 .. MaxQueued - 1
<1>1. SlotAt(i) = IF i < MaxQueued THEN i ELSE i - MaxQueued
  BY Capacities, Wraps DEF SlotAt
<1> QED BY <1>1, Capacities

\* A ring r holds the newest of the lines u, slot by slot.
Slots(r, u) ==
  /\ r.ring \in [0 .. MaxQueued - 1 -> 0 .. MaxLines]
  /\ r.head \in 0 .. MaxQueued - 1
  /\ r.count = (IF Len(u) <= MaxQueued THEN Len(u) ELSE MaxQueued)
  /\ \A k \in 1 .. r.count : r.ring[SlotAt(r.head + k - 1)] = u[Len(u) - r.count + k]

LEMMA PushKeepsSlots ==
  ASSUME NEW r, NEW u \in Seq(0 .. MaxLines), Slots(r, u), NEW x \in 0 .. MaxLines
  PROVE  Slots(PushOne(r, x), Append(u, x))
<1> DEFINE m == MaxQueued
           n == r.count
           h == r.head
           R == r.ring
           t == SlotAt(h + n)
           v == Append(u, x)
           s == PushOne(r, x)
           N == Len(u)
<1>1. /\ m \in Nat \ {0} /\ n \in 0 .. m /\ h \in 0 .. m - 1 /\ N \in Nat
      /\ R \in [0 .. m - 1 -> 0 .. MaxLines]
      /\ n = (IF N <= m THEN N ELSE m)
      /\ \A k \in 1 .. n : R[SlotAt(h + k - 1)] = u[N - n + k]
  <2>1. m \in Nat \ {0} /\ N \in Nat
    BY Capacities
  <2>2. h \in 0 .. m - 1 /\ R \in [0 .. m - 1 -> 0 .. MaxLines] /\ n = (IF N <= m THEN N ELSE m)
    BY DEF Slots
  <2>3. \A k \in 1 .. n : R[SlotAt(h + k - 1)] = u[N - n + k]
    BY Zenon DEF Slots
  <2>4. n \in 0 .. m
    <3> HIDE DEF n, N, m
    <3> QED BY <2>1, <2>2
  <2> QED BY <2>1, <2>2, <2>3, <2>4
<1>2. /\ v \in Seq(0 .. MaxLines) /\ Len(v) = N + 1 /\ v[N + 1] = x
      /\ \A k \in 1 .. N : v[k] = u[k]
  OBVIOUS
<1>3. /\ s.ring = [R EXCEPT ![t] = x]
      /\ s.head = (IF n = m THEN SlotAt(h + 1) ELSE h)
      /\ s.count = (IF n = m THEN n ELSE n + 1)
  BY DEF PushOne, SlotAt
<1> SUFFICES /\ s.ring \in [0 .. m - 1 -> 0 .. MaxLines]
             /\ s.count = (IF Len(v) <= m THEN Len(v) ELSE m)
             /\ s.head \in 0 .. m - 1
             /\ \A k \in 1 .. s.count : s.ring[SlotAt(s.head + k - 1)] = v[Len(v) - s.count + k]
  BY DEF Slots
<1> HIDE DEF m, n, h, R, t, v, s, N
<1>4. \A i \in Nat : i < 2 * m => /\ SlotAt(i) = (IF i < m THEN i ELSE i - m)
                                  /\ SlotAt(i) \in 0 .. m - 1
  BY WrapsAt DEF m
<1>5. t = (IF h + n < m THEN h + n ELSE h + n - m) /\ t \in 0 .. m - 1
  <2>1. h + n \in Nat /\ h + n < 2 * m
    BY <1>1
  <2>2. t = SlotAt(h + n)
    BY DEF t
  <2> QED BY <1>1, <1>4, <2>1, <2>2
<1>6. s.ring \in [0 .. m - 1 -> 0 .. MaxLines] /\ s.ring[t] = x
      /\ \A j \in 0 .. m - 1 : j # t => s.ring[j] = R[j]
  BY <1>1, <1>3, <1>5
<1>7. h + 1 <= m /\ SlotAt(h + 1) = (IF h + 1 < m THEN h + 1 ELSE 0) /\ SlotAt(h + 1) \in 0 .. m - 1
  <2>1. CASE h + 1 < m
    <3>1. h + 1 \in Nat /\ h + 1 < 2 * m
      BY <1>1, <2>1
    <3> QED BY <1>1, <1>4, <2>1, <3>1
  <2>2. CASE h + 1 = m
    <3>1. CASE m = 1
      BY <1>1, <2>2, <3>1 DEF SlotAt, m
    <3>2. CASE m > 1
      <4>1. h + 1 \in Nat /\ h + 1 < 2 * m
        BY <1>1, <2>2, <3>2
      <4> QED BY <1>1, <1>4, <2>2, <4>1
    <3> QED BY <1>1, <3>1, <3>2
  <2> QED BY <1>1, <2>1, <2>2
<1>8. CASE n = m
  <2>1. s.count = m /\ s.head = (IF h + 1 < m THEN h + 1 ELSE 0) /\ s.head \in 0 .. m - 1
    BY <1>1, <1>3, <1>7, <1>8
  <2>2. t = h
    BY <1>1, <1>5, <1>8
  <2>3. ASSUME NEW k \in 1 .. m
        PROVE  s.ring[SlotAt(s.head + k - 1)] = v[N + 1 - m + k]
    <3>1. s.head + k - 1 \in Nat /\ s.head + k - 1 < 2 * m
      BY <1>1, <2>1
    <3>2. SlotAt(s.head + k - 1) = (IF s.head + k - 1 < m THEN s.head + k - 1 ELSE s.head + k - 1 - m)
          /\ SlotAt(s.head + k - 1) \in 0 .. m - 1
      BY <1>1, <1>4, <2>1, <3>1
    <3>3. CASE k = m
      <4>1. SlotAt(s.head + k - 1) = t
        BY <1>1, <2>1, <2>2, <3>2, <3>3
      <4> QED BY <1>1, <1>2, <1>6, <3>3, <4>1
    <3>4. CASE k # m
      <4>1. k + 1 \in 1 .. m /\ k + 1 \in 1 .. n
        BY <1>1, <1>8, <3>4
      <4>6. h + (k + 1) - 1 \in Nat /\ h + (k + 1) - 1 < 2 * m
        BY <1>1, <4>1
      <4>2. SlotAt(h + (k + 1) - 1) = (IF h + k < m THEN h + k ELSE h + k - m)
        BY <1>1, <1>4, <4>1, <4>6
      <4>3. SlotAt(s.head + k - 1) = SlotAt(h + (k + 1) - 1) /\ SlotAt(s.head + k - 1) # t
        <5>1. CASE h + 1 < m
          <6>1. s.head + k - 1 = h + (k + 1) - 1
            BY <1>1, <2>1, <5>1
          <6>2. h + k # t /\ h + k - m # t
            BY <1>1, <2>2, <3>4
          <6> QED BY <4>2, <6>1, <6>2
        <5>2. CASE h + 1 = m
          <6>1. s.head = 0 /\ SlotAt(s.head + k - 1) = k - 1
            BY <1>1, <2>1, <3>2, <5>2
          <6>2. SlotAt(h + (k + 1) - 1) = k - 1 /\ k - 1 # t
            BY <1>1, <2>2, <3>4, <4>2, <5>2
          <6> QED BY <6>1, <6>2
        <5> QED BY <1>1, <1>7, <5>1, <5>2
      <4>4. R[SlotAt(h + (k + 1) - 1)] = u[N - n + (k + 1)]
        BY <1>1, <4>1
      <4>5. N - n + (k + 1) = N + 1 - m + k /\ N + 1 - m + k \in 1 .. N
        BY <1>1, <1>8, <4>1
      <4> QED BY <1>2, <1>6, <3>2, <4>3, <4>4, <4>5
    <3> QED BY <3>3, <3>4
  <2> QED BY <1>1, <1>2, <1>6, <1>8, <2>1, <2>3
<1>9. CASE n < m
  <2>1. s.count = n + 1 /\ s.head = h /\ n = N
    BY <1>1, <1>3, <1>9
  <2>2. ASSUME NEW k \in 1 .. n + 1
        PROVE  s.ring[SlotAt(h + k - 1)] = v[k]
    <3>1. CASE k = n + 1
      <4>1. h + k - 1 = h + n
        BY <1>1, <3>1
      <4> QED BY <1>2, <1>6, <2>1, <3>1, <4>1 DEF t
    <3>2. CASE k # n + 1
      <4>1. k \in 1 .. n /\ k \in 1 .. m
        BY <1>1, <1>9, <3>2
      <4>2. SlotAt(h + k - 1) # t /\ SlotAt(h + k - 1) \in 0 .. m - 1
        <5>1. h + k - 1 \in Nat /\ h + k - 1 < 2 * m
          BY <1>1, <4>1
        <5> QED BY <1>1, <1>4, <1>5, <1>9, <4>1, <5>1
      <4>3. R[SlotAt(h + k - 1)] = u[N - n + k] /\ N - n + k = k
        BY <1>1, <2>1, <4>1
      <4> QED BY <1>1, <1>2, <1>6, <2>1, <4>1, <4>2, <4>3
    <3> QED BY <3>1, <3>2
  <2>3. Len(v) - s.count = 0 /\ Len(v) <= m
    BY <1>1, <1>2, <1>9, <2>1
  <2>4. \A k \in 1 .. s.count : s.ring[SlotAt(s.head + k - 1)] = v[Len(v) - s.count + k]
    <3> SUFFICES ASSUME NEW k \in 1 .. n + 1
                 PROVE  s.ring[SlotAt(h + k - 1)] = v[Len(v) - s.count + k]
      BY <2>1
    <3>1. Len(v) - s.count + k = k
      BY <2>3
    <3> QED BY <2>2, <3>1
  <2> QED BY <1>1, <1>2, <1>6, <2>1, <2>3, <2>4
<1>10. n = m \/ n < m
  BY <1>1
<1> QED BY <1>8, <1>9, <1>10, Zenon

\* One or two lines of a chunk.
LEMMA ChunkKeepsSlots ==
  ASSUME NEW r, NEW u \in Seq(0 .. MaxLines), Slots(r, u), NEW n \in Nat, NEW k \in 1 .. 2,
         n + k <= MaxLines
  PROVE  Slots(Pushed(r, [j \in 1 .. k |-> n + j]), u \o [j \in 1 .. k |-> n + j])
<1> DEFINE l == [j \in 1 .. k |-> n + j]
           v == Append(u, n + 1)
<1>1. l \in Seq(0 .. MaxLines) /\ Len(l) = k /\ l[1] = n + 1 /\ (k = 2 => l[2] = n + 2)
  BY Capacities
<1>2. v \in Seq(0 .. MaxLines) /\ Slots(PushOne(r, n + 1), v)
  <2>1. n + 1 \in 0 .. MaxLines
    BY Capacities
  <2> QED BY <2>1, PushKeepsSlots
<1>3. CASE k = 1
  <2>1. u \o l = v
    BY <1>1, <1>3
  <2>2. Pushed(r, l) = PushOne(r, n + 1)
    BY <1>1, <1>3 DEF Pushed
  <2> QED BY <1>2, <2>1, <2>2
<1>4. CASE k = 2
  <2>1. u \o l = Append(v, n + 2)
    BY <1>1, <1>4
  <2>2. Pushed(r, l) = PushOne(PushOne(r, n + 1), n + 2)
    BY <1>1, <1>4 DEF Pushed
  <2>3. Slots(PushOne(PushOne(r, n + 1), n + 2), Append(v, n + 2))
    <3>1. n + 2 \in 0 .. MaxLines
      BY <1>4
    <3> HIDE DEF v
    <3> QED BY <1>2, <3>1, PushKeepsSlots
  <2> QED BY <2>1, <2>2, <2>3
<1> QED BY <1>3, <1>4

RingInv ==
  /\ unsent \in Seq(0 .. MaxLines)
  /\ Slots([ring |-> ring, head |-> head, count |-> count], unsent)
  /\ ringTimer <=> count > 0

LEMMA RingMeaning == RingInv => RingHoldsTheNewest
<1> SUFFICES ASSUME RingInv PROVE RingHoldsTheNewest
  OBVIOUS
<1> DEFINE N == Len(unsent)
           m == MaxQueued
<1>1. /\ N \in Nat /\ m \in Nat \ {0} /\ unsent \in Seq(0 .. MaxLines)
      /\ count = (IF N <= m THEN N ELSE m)
      /\ \A k \in 1 .. count : ring[SlotAt(head + k - 1)] = unsent[N - count + k]
  BY Capacities DEF RingInv, Slots
<1>2. Queued = [k \in 1 .. count |-> unsent[N - count + k]]
  BY <1>1, Zenon DEF Queued, SlotAt
<1>3. CASE N <= m
  <2>1. Queued = [k \in 1 .. N |-> unsent[k]]
    BY <1>1, <1>2, <1>3
  <2> QED BY <1>1, <1>3, <2>1 DEF RingHoldsTheNewest, Newest
<1>4. CASE N > m
  <2>1. SubSeq(unsent, N - m + 1, N) = [k \in 1 .. m |-> unsent[N - m + k]]
    BY <1>1, <1>4
  <2>2. Newest(unsent, m) = SubSeq(unsent, N - m + 1, N)
    BY <1>1, <1>4 DEF Newest
  <2>3. count = m
    BY <1>1, <1>4
  <2> QED BY <1>2, <2>1, <2>2, <2>3, Zenon DEF RingHoldsTheNewest
<1> QED BY <1>1, <1>3, <1>4

LEMMA RingInit == LvInit => RingInv
BY Capacities DEF LvInit, RingInv, Slots

LEMMA RingStep ==
  ASSUME RingInv, owner \in Seq(Logged), [LvNext]_lvVars
  PROVE  RingInv'
<1>1. ASSUME NEW i \in Logged, NEW k \in 1 .. 2, AddLog(i, k) PROVE RingInv'
  <2> DEFINE r == [ring |-> ring, head |-> head, count |-> count]
             l == [j \in 1 .. k |-> Len(owner) + j]
             a == Pushed(r, l)
  <2>1. /\ ring' = a.ring /\ head' = a.head /\ count' = a.count
        /\ ringTimer' = TRUE /\ unsent' = unsent \o l
    BY <1>1 DEF AddLog
  <2>2. Len(owner) \in Nat /\ Len(owner) + k <= MaxLines /\ l \in Seq(0 .. MaxLines) /\ Len(l) = k
    BY <1>1, Capacities DEF AddLog
  <2>3. Slots(a, unsent')
    BY <2>1, <2>2, ChunkKeepsSlots DEF RingInv
  <2>4. unsent' \in Seq(0 .. MaxLines) /\ Len(unsent') > 0
    BY <2>1, <2>2 DEF RingInv
  <2>5. Slots([ring |-> ring', head |-> head', count |-> count'], unsent')
    <3> HIDE DEF a
    <3> QED BY <2>1, <2>3 DEF Slots
  <2>6. count' > 0
    BY <2>4, <2>5, Capacities DEF Slots
  <2> QED BY <2>1, <2>4, <2>5, <2>6 DEF RingInv
<1>2. CASE FlushRing
  BY <1>2, Capacities DEF FlushRing, RingInv, Slots
<1>3. CASE DaemonDies
  BY <1>3, Capacities DEF DaemonDies, RingInv, Slots
<1>4. ASSUME UNCHANGED ringVars PROVE RingInv'
  BY <1>4 DEF RingInv, ringVars
<1>5. ASSUME NEW i \in Logged, RemoveProject(i) \/ ProjectBack(i) PROVE UNCHANGED ringVars
  BY <1>5 DEF RemoveProject, ProjectBack, ringVars
<1>6. CASE FlushWrites
  BY <1>4, <1>6 DEF FlushWrites
<1>7. CASE UNCHANGED lvVars
  BY <1>4, <1>7 DEF lvVars
<1> QED BY <1>1, <1>2, <1>3, <1>4, <1>5, <1>6, <1>7 DEF LvNext

---------------------------------------------------------------------------------------
(* Monitoring, the logs: the files and the lines queued for them. *)

\* What is appended and what is kept of a sequence.
LEMMA NewestEffect ==
  ASSUME NEW S, NEW s \in Seq(S), NEW n \in Nat
  PROVE  Newest(s, n) \in Seq(S) /\ Len(Newest(s, n)) <= n
<1>1. CASE Len(s) <= n
  BY <1>1 DEF Newest
<1>2. CASE ~(Len(s) <= n)
  <2>1. Newest(s, n) = SubSeq(s, Len(s) - n + 1, Len(s))
    BY <1>2 DEF Newest
  <2>2. Len(s) - n + 1 \in Int /\ Len(s) \in Int
        /\ \A i \in Len(s) - n + 1 .. Len(s) : s[i] \in S
    BY <1>2
  <2>3. SubSeq(s, Len(s) - n + 1, Len(s)) \in Seq(S)
    BY <2>2, SubSeqProperties
  <2>4. Len(SubSeq(s, Len(s) - n + 1, Len(s)))
          = IF Len(s) - n + 1 <= Len(s) THEN Len(s) - (Len(s) - n + 1) + 1 ELSE 0
    BY <2>2, SubSeqProperties
  <2>5. Len(SubSeq(s, Len(s) - n + 1, Len(s))) <= n
    BY <2>4
  <2> QED BY <2>1, <2>3, <2>5
<1> QED BY <1>1, <1>2

\* Lines in order, and all of some before all of others.
Rising(s) == \A a, b \in DOMAIN s : a < b => s[a] < s[b]
Lower(S, T) == \A x \in S, y \in T : x < y

LEMMA NoLines == Lines(<< >>) = {} /\ Rising(<< >>) /\ << >> \in Seq(Nat)
BY DEF Lines, Rising

LEMMA LinesAreNaturals ==
  ASSUME NEW s \in Seq(Nat)
  PROVE  Lines(s) \subseteq Nat
BY DEF Lines

LEMMA Concatenated ==
  ASSUME NEW s \in Seq(Nat), NEW t \in Seq(Nat)
  PROVE  /\ s \o t \in Seq(Nat) /\ Lines(s \o t) = Lines(s) \cup Lines(t)
         /\ Rising(s) /\ Rising(t) /\ Lower(Lines(s), Lines(t)) => Rising(s \o t)
<1> DEFINE c == s \o t
<1>1. /\ c \in Seq(Nat) /\ Len(c) = Len(s) + Len(t) /\ Len(s) \in Nat /\ Len(t) \in Nat
      /\ \A k \in 1 .. Len(s) : c[k] = s[k]
      /\ \A k \in 1 .. Len(t) : c[Len(s) + k] = t[k]
      /\ DOMAIN s = 1 .. Len(s) /\ DOMAIN t = 1 .. Len(t) /\ DOMAIN c = 1 .. Len(c)
  OBVIOUS
<1> HIDE DEF c
<1>2. ASSUME NEW k \in 1 .. Len(c), k > Len(s)
      PROVE  k - Len(s) \in 1 .. Len(t) /\ c[k] = t[k - Len(s)]
  <2>1. k - Len(s) \in 1 .. Len(t) /\ Len(s) + (k - Len(s)) = k
    BY <1>1, <1>2
  <2> QED BY <1>1, <2>1
<1>3. Lines(c) = Lines(s) \cup Lines(t)
  <2>1. ASSUME NEW k \in DOMAIN c PROVE c[k] \in Lines(s) \cup Lines(t)
    <3>1. CASE k <= Len(s)
      BY <1>1, <3>1 DEF Lines
    <3>2. CASE k > Len(s)
      BY <1>1, <1>2, <3>2 DEF Lines
    <3> QED BY <1>1, <3>1, <3>2
  <2>2. ASSUME NEW k \in DOMAIN s PROVE s[k] \in Lines(c)
    <3>1. k \in DOMAIN c /\ c[k] = s[k]
      BY <1>1
    <3> QED BY <3>1 DEF Lines
  <2>3. ASSUME NEW k \in DOMAIN t PROVE t[k] \in Lines(c)
    <3>1. Len(s) + k \in DOMAIN c /\ c[Len(s) + k] = t[k]
      BY <1>1
    <3> QED BY <3>1 DEF Lines
  <2> QED BY <2>1, <2>2, <2>3 DEF Lines
<1>4. ASSUME Rising(s), Rising(t), Lower(Lines(s), Lines(t)),
             NEW a \in DOMAIN c, NEW b \in DOMAIN c, a < b
      PROVE  c[a] < c[b]
  <2>1. CASE b <= Len(s)
    <3>1. a \in DOMAIN s /\ b \in DOMAIN s /\ c[a] = s[a] /\ c[b] = s[b]
      BY <1>1, <1>4, <2>1
    <3> QED BY <1>4, <3>1 DEF Rising
  <2>2. CASE a > Len(s)
    <3>1. b > Len(s) /\ a - Len(s) < b - Len(s)
      BY <1>1, <1>4, <2>2
    <3>2. a - Len(s) \in DOMAIN t /\ c[a] = t[a - Len(s)]
      BY <1>1, <1>2, <2>2
    <3>3. b - Len(s) \in DOMAIN t /\ c[b] = t[b - Len(s)]
      BY <1>1, <1>2, <3>1
    <3>4. t[a - Len(s)] < t[b - Len(s)]
      BY <1>4, <3>1, <3>2, <3>3 DEF Rising
    <3> QED BY <3>2, <3>3, <3>4
  <2>3. CASE a <= Len(s) /\ b > Len(s)
    <3>1. c[a] \in Lines(s)
      BY <1>1, <2>3 DEF Lines
    <3>2. c[b] \in Lines(t)
      BY <1>1, <1>2, <2>3 DEF Lines
    <3> QED BY <1>4, <3>1, <3>2 DEF Lower
  <2> QED BY <1>1, <2>1, <2>2, <2>3
<1>5. Rising(s) /\ Rising(t) /\ Lower(Lines(s), Lines(t)) => Rising(c)
  BY <1>4 DEF Rising
<1> QED BY <1>1, <1>3, <1>5 DEF c

\* The files f of a process and its queue b, oldest lines first.
AllLines(f, b) == Lines(f[2]) \cup Lines(f[1]) \cup Lines(f[0]) \cup Lines(b)
Segments(f, b) ==
  /\ Rising(f[2]) /\ Rising(f[1]) /\ Rising(f[0]) /\ Rising(b)
  /\ Lower(Lines(f[2]), Lines(f[1])) /\ Lower(Lines(f[2]), Lines(f[0]))
  /\ Lower(Lines(f[1]), Lines(f[0])) /\ Lower(Lines(f[2]), Lines(b))
  /\ Lower(Lines(f[1]), Lines(b)) /\ Lower(Lines(f[0]), Lines(b))
\* Of the lines of process i in own, those that are neither kept nor gone are the oldest.
Complete(i, f, b, g, own) ==
  \A n \in DOMAIN own : own[n] = i /\ n \notin g => n \in AllLines(f, b) \/ \A m \in AllLines(f, b) : n < m
Vault(i, f, b, g, own) ==
  /\ f \in [0 .. Keep -> Seq(Nat)] /\ b \in Seq(Nat) /\ AllLines(f, b) \subseteq DOMAIN own
  /\ Segments(f, b) /\ Complete(i, f, b, g, own)

FilesOf(x, y, z) == [k \in 0 .. Keep |-> IF k = 2 THEN x ELSE IF k = 1 THEN y ELSE z]

LEMMA FilesOfAll ==
  /\ \A x, y, z : /\ FilesOf(x, y, z)[2] = x /\ FilesOf(x, y, z)[1] = y /\ FilesOf(x, y, z)[0] = z
                  /\ x \in Seq(Nat) /\ y \in Seq(Nat) /\ z \in Seq(Nat)
                       => FilesOf(x, y, z) \in [0 .. Keep -> Seq(Nat)]
  /\ \A f \in [0 .. Keep -> Seq(Nat)] : f = FilesOf(f[2], f[1], f[0])
BY DEF FilesOf, Keep

\* A failing rotation sheds no line but those of .2, and puts none out of order.
LEMMA RotationKeeps ==
  ASSUME NEW i, NEW f, NEW b, NEW g, NEW own \in Seq(Logged), Vault(i, f, b, g, own),
         NEW r \in Rotations(f)
  PROVE  Vault(i, r, b, g, own)
<1>1. /\ f \in [0 .. Keep -> Seq(Nat)]
      /\ f[0] \in Seq(Nat) /\ f[1] \in Seq(Nat) /\ f[2] \in Seq(Nat) /\ << >> \in Seq(Nat)
  BY NoLines DEF Vault, Keep
<1>2. r = f \/ r = FilesOf(<< >>, f[1], f[0]) \/ r = FilesOf(f[1], << >>, f[0])
      \/ r = FilesOf(f[1], f[0], << >>)
  BY <1>1 DEF Rotations, FilesOf, Keep
<1>3. DOMAIN own \subseteq Nat /\ Lines(b) \subseteq Nat
      /\ Lines(f[0]) \subseteq Nat /\ Lines(f[1]) \subseteq Nat /\ Lines(f[2]) \subseteq Nat
  BY <1>1, LinesAreNaturals DEF Vault
<1>4. ASSUME NEW x, NEW y, NEW z, r = FilesOf(x, y, z), x \in Seq(Nat), y \in Seq(Nat), z \in Seq(Nat),
             AllLines(r, b) \subseteq AllLines(f, b), Segments(r, b),
             AllLines(f, b) \ AllLines(r, b) \subseteq Lines(f[2]),
             AllLines(r, b) \cap Lines(f[2]) = {} \/ AllLines(r, b) = AllLines(f, b)
      PROVE  Vault(i, r, b, g, own)
  <2>1. Complete(i, r, b, g, own)
    <3> SUFFICES ASSUME NEW n \in DOMAIN own, own[n] = i, n \notin g, n \notin AllLines(r, b),
                        NEW m \in AllLines(r, b)
                 PROVE  n < m
      BY DEF Complete
    <3>1. CASE n \in AllLines(f, b)
      <4>1. n \in Lines(f[2]) /\ m \in AllLines(f, b) /\ m \notin Lines(f[2])
        BY <1>4, <3>1
      <4> QED BY <4>1 DEF Vault, Segments, Lower, AllLines
    <3>2. CASE n \notin AllLines(f, b)
      BY <1>4, <3>2 DEF Vault, Complete
    <3> QED BY <3>1, <3>2
  <2>2. r \in [0 .. Keep -> Seq(Nat)]
    BY <1>4, FilesOfAll
  <2> QED BY <1>4, <2>1, <2>2 DEF Vault
<1>5. Segments(f, b)
  BY DEF Vault
<1>6. CASE r = FilesOf(<< >>, f[1], f[0])
  <2>1. r[2] = << >> /\ r[1] = f[1] /\ r[0] = f[0]
    BY <1>6, FilesOfAll
  <2>2. Segments(r, b)
    BY <1>5, <2>1, NoLines DEF Segments, Lower
  <2>3. AllLines(r, b) \subseteq AllLines(f, b) /\ AllLines(f, b) \ AllLines(r, b) \subseteq Lines(f[2])
    BY <2>1, NoLines DEF AllLines
  <2>4. AllLines(r, b) \cap Lines(f[2]) = {}
    BY <1>3, <1>5, <2>1, NoLines DEF AllLines, Segments, Lower
  <2> QED BY <1>1, <1>4, <1>6, <2>2, <2>3, <2>4
<1>7. CASE r = FilesOf(f[1], << >>, f[0])
  <2>1. r[2] = f[1] /\ r[1] = << >> /\ r[0] = f[0]
    BY <1>7, FilesOfAll
  <2>2. Segments(r, b)
    BY <1>5, <2>1, NoLines DEF Segments, Lower
  <2>3. AllLines(r, b) \subseteq AllLines(f, b) /\ AllLines(f, b) \ AllLines(r, b) \subseteq Lines(f[2])
    BY <2>1, NoLines DEF AllLines
  <2>4. AllLines(r, b) \cap Lines(f[2]) = {}
    BY <1>3, <1>5, <2>1, NoLines DEF AllLines, Segments, Lower
  <2> QED BY <1>1, <1>4, <1>7, <2>2, <2>3, <2>4
<1>8. CASE r = FilesOf(f[1], f[0], << >>)
  <2>1. r[2] = f[1] /\ r[1] = f[0] /\ r[0] = << >>
    BY <1>8, FilesOfAll
  <2>2. Segments(r, b)
    BY <1>5, <2>1, NoLines DEF Segments, Lower
  <2>3. AllLines(r, b) \subseteq AllLines(f, b) /\ AllLines(f, b) \ AllLines(r, b) \subseteq Lines(f[2])
    BY <2>1, NoLines DEF AllLines
  <2>4. AllLines(r, b) \cap Lines(f[2]) = {}
    BY <1>3, <1>5, <2>1, NoLines DEF AllLines, Segments, Lower
  <2> QED BY <1>1, <1>4, <1>8, <2>2, <2>3, <2>4
<1> QED BY <1>2, <1>6, <1>7, <1>8

\* A batch that is appended, or lost and said to be gone.
LEMMA AppendKeeps ==
  ASSUME NEW i, NEW f, NEW b, NEW g, NEW own \in Seq(Logged), Vault(i, f, b, g, own),
         NEW h \in Appended(f, b), NEW e, g \cup (Lines(b) \ Lines(h[0])) \subseteq e
  PROVE  Vault(i, h, << >>, e, own)
<1>1. PICK r : Vault(i, r, b, g, own) /\ (h = r \/ h = [r EXCEPT ![0] = @ \o b])
  <2>1. PICK r \in Rotations(f) \cup {f} : h = r \/ h = [r EXCEPT ![0] = @ \o b]
    BY DEF Appended
  <2> QED BY <2>1, RotationKeeps
<1>2. /\ r \in [0 .. Keep -> Seq(Nat)] /\ b \in Seq(Nat) /\ Segments(r, b)
      /\ r[0] \in Seq(Nat) /\ r[1] \in Seq(Nat) /\ r[2] \in Seq(Nat)
      /\ AllLines(r, b) \subseteq DOMAIN own
  BY <1>1 DEF Vault, Keep
<1>3. CASE h = r
  <2>1. Segments(h, << >>)
    BY <1>2, <1>3, NoLines DEF Segments, Lower
  <2>2. AllLines(h, << >>) \subseteq AllLines(r, b) /\ AllLines(r, b) = AllLines(h, << >>) \cup Lines(b)
        /\ Lines(h[0]) \subseteq AllLines(h, << >>)
    BY <1>3, NoLines DEF AllLines
  <2>3. Complete(i, h, << >>, e, own)
    BY <1>1, <2>2 DEF Complete, Vault
  <2> QED BY <1>2, <1>3, <2>1, <2>2, <2>3, NoLines DEF Vault
<1>4. CASE h = [r EXCEPT ![0] = @ \o b]
  <2>1. h[2] = r[2] /\ h[1] = r[1] /\ h[0] = r[0] \o b /\ h \in [0 .. Keep -> Seq(Nat)]
    BY <1>2, <1>4, Concatenated DEF Keep
  <2>2. Lines(h[0]) = Lines(r[0]) \cup Lines(b) /\ Rising(h[0])
    BY <1>2, <2>1, Concatenated DEF Segments
  <2>3. Segments(h, << >>)
    BY <1>2, <2>1, <2>2, NoLines DEF Segments, Lower
  <2>4. AllLines(h, << >>) = AllLines(r, b)
    BY <2>1, <2>2, NoLines DEF AllLines
  <2>5. Complete(i, h, << >>, e, own)
    BY <1>1, <2>4 DEF Complete, Vault
  <2> QED BY <1>2, <2>1, <2>3, <2>4, <2>5, NoLines DEF Vault
<1> QED BY <1>1, <1>3, <1>4

---------------------------------------------------------------------------------------
(* Monitoring, the logs: what is queued is counted. *)

LinesQueued(p) == UNION {{i} \X DOMAIN p[i] : i \in Logged}
NoneWaits == [i \in Logged |-> << >>]

WriterInv ==
  /\ pending \in [Logged -> Seq(Nat)]
  /\ IsFiniteSet(LinesQueued(pending)) /\ pendingLines = Cardinality(LinesQueued(pending))
  /\ pendingLines < MaxPending
  /\ writeTimer <=> Unwritten # {}

LEMMA NothingWaits ==
  /\ NoneWaits \in [Logged -> Seq(Nat)]
  /\ IsFiniteSet(LinesQueued(NoneWaits)) /\ Cardinality(LinesQueued(NoneWaits)) = 0
<1>1. LinesQueued(NoneWaits) = {}
  BY DEF LinesQueued, NoneWaits
<1> QED BY <1>1, NoLines, FS_EmptySet DEF NoneWaits

\* A chunk of k lines for process i.
LEMMA MoreWaits ==
  ASSUME NEW p \in [Logged -> Seq(Nat)], IsFiniteSet(LinesQueued(p)), NEW i \in Logged,
         NEW l \in Seq(Nat), NEW k \in 1 .. 2, Len(l) = k
  PROVE  LET q == [p EXCEPT ![i] = @ \o l]
         IN  /\ q \in [Logged -> Seq(Nat)] /\ q[i] # << >>
             /\ IsFiniteSet(LinesQueued(q)) /\ Cardinality(LinesQueued(q)) = Cardinality(LinesQueued(p)) + k
<1> DEFINE q == [p EXCEPT ![i] = @ \o l]
           n == Len(p[i])
           W == LinesQueued(p)
           one == W \cup {<<i, n + 1>>}
<1>1. p[i] \o l \in Seq(Nat) /\ Len(p[i] \o l) = n + k /\ n \in Nat /\ DOMAIN p[i] = 1 .. n
      /\ DOMAIN (p[i] \o l) = 1 .. n + k
  BY Concatenated
<1>2. q \in [Logged -> Seq(Nat)] /\ q[i] = p[i] \o l /\ q[i] # << >>
      /\ \A j \in Logged : j # i => q[j] = p[j]
  <2>1. q \in [Logged -> Seq(Nat)] /\ q[i] = p[i] \o l /\ \A j \in Logged : j # i => q[j] = p[j]
    BY <1>1
  <2> QED BY <1>1, <2>1
<1>3. \A x : x \in LinesQueued(q) <=> x \in W \/ \E m \in n + 1 .. n + k : x = <<i, m>>
  <2> HIDE DEF q
  <2>1. \A x : x \in LinesQueued(q) <=> \E j \in Logged : \E m \in DOMAIN q[j] : x = <<j, m>>
    BY DEF LinesQueued
  <2>2. \A x : x \in W <=> \E j \in Logged : \E m \in DOMAIN p[j] : x = <<j, m>>
    BY DEF LinesQueued
  <2>3. DOMAIN q[i] = DOMAIN p[i] \cup (n + 1 .. n + k)
    BY <1>1, <1>2
  <2> QED BY <1>2, <2>1, <2>2, <2>3
<1>4. \A m : <<i, m>> \in W => m \in 1 .. n
  BY <1>1 DEF LinesQueued
<1>5. IsFiniteSet(one) /\ Cardinality(one) = Cardinality(W) + 1 /\ <<i, n + 2>> \notin one
  <2>1. <<i, n + 1>> \notin W /\ <<i, n + 2>> \notin W /\ n + 1 # n + 2
    BY <1>1, <1>4
  <2>2. IsFiniteSet(one) /\ Cardinality(one) = Cardinality(W) + 1
    <3> HIDE DEF W
    <3> QED BY <2>1, FS_AddElement DEF W
  <2> QED BY <2>1, <2>2
<1>6. Cardinality(W) \in Nat
  BY FS_CardinalityType
<1>7. IsFiniteSet(LinesQueued(q)) /\ Cardinality(LinesQueued(q)) = Cardinality(W) + k
  <2> HIDE DEF q, W, n
  <2>1. CASE k = 1
    <3>1. \A x : (\E m \in n + 1 .. n + k : x = <<i, m>>) <=> x = <<i, n + 1>>
      BY <1>1, <2>1
    <3>2. LinesQueued(q) = one
      BY <1>3, <3>1
    <3> QED BY <1>5, <2>1, <3>2
  <2>2. CASE k = 2
    <3>1. \A m : m \in n + 1 .. n + k <=> m = n + 1 \/ m = n + 2
      BY <1>1, <2>2
    <3>2. \A x : (\E m \in n + 1 .. n + k : x = <<i, m>>) <=> x = <<i, n + 1>> \/ x = <<i, n + 2>>
      BY <3>1
    <3>3. LinesQueued(q) = one \cup {<<i, n + 2>>}
      BY <1>3, <3>2
    <3>4. IsFiniteSet(one \cup {<<i, n + 2>>})
          /\ Cardinality(one \cup {<<i, n + 2>>}) = Cardinality(one) + 1
      <4> HIDE DEF one
      <4> QED BY <1>5, FS_AddElement
    <3> QED BY <1>5, <1>6, <2>2, <3>3, <3>4
  <2> QED BY <2>1, <2>2
<1> QED BY <1>2, <1>7

---------------------------------------------------------------------------------------
(* Monitoring, the logs: its steps. *)

FilesAreSequences == files \in [Logged -> [0 .. Keep -> Seq(Nat)]]
VaultInv == \A i \in Logged : Vault(i, files[i], pending[i], gone, owner)

\* A flush writes what it can, and counts what it cannot as gone.
LEMMA FlushEffect ==
  ASSUME FilesAreSequences, NEW b \in [Logged -> Seq(Nat)], NEW own \in Seq(Logged),
         \A i \in Logged : Vault(i, files[i], b[i], gone, own), FlushOf(b)
  PROVE  /\ FilesAreSequences' /\ WriterInv'
         /\ \A i \in Logged : Vault(i, files'[i], pending'[i], gone', own)
<1> DEFINE left(i) == IF b[i] = << >> THEN {files[i]} ELSE Appended(files[i], b[i])
<1>1. /\ writeTimer' = FALSE /\ pending' = NoneWaits /\ pendingLines' = 0
      /\ gone' = gone \cup UNION {Lines(b[i]) \ Lines(files'[i][0]) : i \in Logged}
      /\ files' \in [Logged -> UNION {left(i) : i \in Logged}]
      /\ \A i \in Logged : files'[i] \in left(i)
  BY DEF FlushOf, NoneWaits
<1>2. ASSUME NEW i \in Logged
      PROVE  Vault(i, files'[i], << >>, gone', own)
  <2>1. gone \cup (Lines(b[i]) \ Lines(files'[i][0])) \subseteq gone'
    BY <1>1
  <2>2. CASE b[i] = << >>
    <3>1. files'[i] = files[i] /\ Vault(i, files[i], << >>, gone, own)
      BY <1>1, <2>2
    <3> QED BY <2>1, <3>1 DEF Vault, Complete
  <2>3. CASE b[i] # << >>
    <3>1. files'[i] \in Appended(files[i], b[i])
      BY <1>1, <2>3
    <3> QED BY <2>1, <3>1, AppendKeeps
  <2> QED BY <2>2, <2>3
<1>3. \A i \in Logged : files'[i] \in [0 .. Keep -> Seq(Nat)]
  BY <1>2 DEF Vault
<1>4. FilesAreSequences'
  BY <1>1, <1>3 DEF FilesAreSequences
<1>5. \A i \in Logged : pending'[i] = << >>
  BY <1>1 DEF NoneWaits
<1>6. WriterInv'
  <2>1. Unwritten' = {}
    BY <1>5 DEF Unwritten
  <2>2. /\ pending' \in [Logged -> Seq(Nat)] /\ IsFiniteSet(LinesQueued(pending'))
        /\ pendingLines' = Cardinality(LinesQueued(pending')) /\ pendingLines' < MaxPending
    BY <1>1, NothingWaits, Capacities
  <2> QED BY <1>1, <2>1, <2>2 DEF WriterInv
<1> QED BY <1>2, <1>4, <1>5, <1>6

LEMMA QueueEffect ==
  ASSUME FilesAreSequences, NEW b \in [Logged -> Seq(Nat)], NEW own \in Seq(Logged),
         \A i \in Logged : Vault(i, files[i], b[i], gone, own),
         IsFiniteSet(LinesQueued(b)), NEW n, n = Cardinality(LinesQueued(b)), Queue(b, n),
         \E i \in Logged : b[i] # << >>
  PROVE  /\ FilesAreSequences' /\ WriterInv'
         /\ \A i \in Logged : Vault(i, files'[i], pending'[i], gone', own)
<1>1. n \in Nat /\ MaxPending \in Nat
  BY FS_CardinalityType, Capacities
<1>2. CASE n >= MaxPending
  BY <1>2, FlushEffect DEF Queue
<1>3. CASE ~(n >= MaxPending)
  <2>1. /\ pending' = b /\ pendingLines' = n /\ writeTimer' = TRUE
        /\ files' = files /\ gone' = gone
    BY <1>3 DEF Queue
  <2>2. Unwritten' # {}
    BY <2>1 DEF Unwritten
  <2>3. n < MaxPending
    BY <1>1, <1>3
  <2>4. WriterInv'
    BY <2>1, <2>2, <2>3 DEF WriterInv
  <2> QED BY <2>1, <2>4 DEF FilesAreSequences
<1> QED BY <1>2, <1>3

\* The lines of a chunk are newer than all there are.
LEMMA ChunkIsNewest ==
  ASSUME NEW i \in Logged, NEW k \in 1 .. 2, NEW own \in Seq(Logged), NEW j \in Logged,
         NEW f, NEW b, NEW g, Vault(j, f, b, g, own)
  PROVE  LET l == [n \in 1 .. k |-> Len(own) + n]
             o == own \o [n \in 1 .. k |-> i]
         IN  /\ o \in Seq(Logged) /\ Len(o) = Len(own) + k
             /\ Vault(j, f, IF j = i THEN b \o l ELSE b, g, o)
<1> DEFINE l == [n \in 1 .. k |-> Len(own) + n]
           o == own \o [n \in 1 .. k |-> i]
           N == Len(own)
           c == IF j = i THEN b \o l ELSE b
<1>1. /\ N \in Nat /\ o \in Seq(Logged) /\ Len(o) = N + k
      /\ DOMAIN own = 1 .. N /\ DOMAIN o = 1 .. N + k
      /\ \A n \in 1 .. N : o[n] = own[n]
      /\ \A n \in N + 1 .. N + k : o[n] = i
  <2>1. [n \in 1 .. k |-> i] \in Seq(Logged) /\ Len([n \in 1 .. k |-> i]) = k
    OBVIOUS
  <2> QED BY <2>1
<1>2. l \in Seq(Nat) /\ Lines(l) = N + 1 .. N + k /\ Rising(l)
  <2>1. l \in Seq(Nat) /\ DOMAIN l = 1 .. k /\ \A n \in 1 .. k : l[n] = N + n
    BY <1>1
  <2>2. ASSUME NEW n \in N + 1 .. N + k PROVE n \in Lines(l)
    <3>1. n - N \in 1 .. k /\ l[n - N] = n
      BY <1>1, <2>1
    <3> QED BY <2>1, <3>1 DEF Lines
  <2>3. ASSUME NEW n \in 1 .. k PROVE l[n] \in N + 1 .. N + k
    BY <1>1, <2>1
  <2>4. ASSUME NEW n \in 1 .. k, NEW m \in 1 .. k, n < m PROVE l[n] < l[m]
    BY <1>1, <2>1, <2>4
  <2> HIDE DEF l, N
  <2>5. Lines(l) \subseteq N + 1 .. N + k
    BY <2>1, <2>3 DEF Lines
  <2> QED BY <2>1, <2>2, <2>4, <2>5 DEF Rising
<1>3. /\ f \in [0 .. Keep -> Seq(Nat)] /\ b \in Seq(Nat) /\ AllLines(f, b) \subseteq 1 .. N
      /\ Segments(f, b) /\ Complete(j, f, b, g, own)
  BY <1>1 DEF Vault
<1> HIDE DEF l, o, N
<1>4. /\ c \in Seq(Nat) /\ Lines(c) = Lines(b) \cup (IF j = i THEN N + 1 .. N + k ELSE {})
      /\ Rising(c)
  <2>1. CASE j = i
    <3>1. Lower(Lines(b), Lines(l))
      BY <1>1, <1>2, <1>3 DEF Lower, AllLines
    <3> QED BY <1>2, <1>3, <2>1, <3>1, Concatenated DEF Segments
  <2>2. CASE j # i
    BY <1>3, <2>2 DEF Segments
  <2> QED BY <2>1, <2>2
<1>5. ASSUME NEW S, S \subseteq 1 .. N, Lower(S, Lines(b)) PROVE Lower(S, Lines(c))
  BY <1>1, <1>4, <1>5 DEF Lower
<1>6. Segments(f, c)
  BY <1>3, <1>4, <1>5 DEF Segments, AllLines
<1>7. /\ AllLines(f, c) \subseteq 1 .. N + k
      /\ AllLines(f, c) = AllLines(f, b) \cup (IF j = i THEN N + 1 .. N + k ELSE {})
  <2>1. AllLines(f, c) = AllLines(f, b) \cup (IF j = i THEN N + 1 .. N + k ELSE {})
    BY <1>4 DEF AllLines
  <2> QED BY <1>1, <1>3, <2>1
<1>8. Complete(j, f, c, g, o)
  <2> SUFFICES ASSUME NEW n \in 1 .. N + k, o[n] = j, n \notin g, n \notin AllLines(f, c),
                      NEW m \in AllLines(f, c)
               PROVE  n < m
    BY <1>1 DEF Complete
  <2>1. n \in 1 .. N
    BY <1>1, <1>7
  <2>2. CASE m \in AllLines(f, b)
    BY <1>1, <1>3, <1>7, <2>1, <2>2 DEF Complete
  <2>3. CASE m \in N + 1 .. N + k
    BY <1>1, <2>1, <2>3
  <2> QED BY <1>7, <2>2, <2>3
<1>9. Vault(j, f, c, g, o)
  BY <1>1, <1>3, <1>4, <1>6, <1>7, <1>8 DEF Vault
<1> QED BY <1>1, <1>9 DEF o, N, l

MemoryInv ==
  /\ owner \in Seq(Logged) /\ Len(owner) <= MaxLines /\ entries \subseteq Logged
  /\ memory \in [Logged -> Seq(1 .. MaxLines)] /\ \A i \in Logged : Len(memory[i]) <= MaxLogs

LvInv == MemoryInv /\ RingInv /\ WriterInv /\ FilesAreSequences /\ VaultInv

LEMMA NothingKept ==
  ASSUME NEW i, NEW g, NEW own \in Seq(Logged), \A n \in DOMAIN own : own[n] # i
  PROVE  Vault(i, [k \in 0 .. Keep |-> << >>], << >>, g, own)
<1> DEFINE f == [k \in 0 .. Keep |-> << >>]
<1>1. f \in [0 .. Keep -> Seq(Nat)] /\ f[0] = << >> /\ f[1] = << >> /\ f[2] = << >>
  BY DEF Keep
<1> HIDE DEF f
<1>2. AllLines(f, << >>) = {} /\ Segments(f, << >>)
  BY <1>1, NoLines DEF AllLines, Segments, Lower
<1>3. Vault(i, f, << >>, g, own)
  BY <1>1, <1>2, NoLines DEF Vault, Complete
<1> QED BY <1>3 DEF f

LEMMA LvInvInit == LvInit => LvInv
<1> SUFFICES ASSUME LvInit PROVE LvInv
  OBVIOUS
<1>1. RingInv
  BY RingInit
<1>2. owner = << >> /\ << >> \in Seq(Logged) /\ << >> \in Seq(1 .. MaxLines) /\ Len(<< >>) = 0
      /\ \A n \in DOMAIN << >> : FALSE
  BY DEF LvInit
<1>3. MemoryInv
  BY <1>2, Capacities DEF LvInit, MemoryInv
<1>4. pending = NoneWaits /\ Unwritten = {}
  BY DEF LvInit, NoneWaits, Unwritten
<1>5. WriterInv
  BY <1>4, NothingWaits, Capacities DEF LvInit, WriterInv
<1>6. FilesAreSequences
  BY NoLines DEF LvInit, FilesAreSequences
<1>7. VaultInv
  BY <1>2, NothingKept DEF LvInit, VaultInv
<1> QED BY <1>1, <1>3, <1>5, <1>6, <1>7 DEF LvInv

LEMMA AddLogStep ==
  ASSUME LvInv, NEW i \in Logged, NEW k \in 1 .. 2, AddLog(i, k)
  PROVE  MemoryInv' /\ WriterInv' /\ FilesAreSequences' /\ VaultInv'
<1> DEFINE l == [n \in 1 .. k |-> Len(owner) + n]
           b == [pending EXCEPT ![i] = @ \o l]
           o == owner \o [n \in 1 .. k |-> i]
<1>1. /\ owner \in Seq(Logged) /\ Len(owner) \in Nat /\ Len(owner) + k <= MaxLines
      /\ owner' = o /\ entries' = entries
      /\ memory' = [memory EXCEPT ![i] = Newest(@ \o l, MaxLogs)]
      /\ Queue(b, pendingLines + k)
      /\ pending \in [Logged -> Seq(Nat)]
  BY DEF AddLog, LvInv, MemoryInv, WriterInv
<1>2. l \in Seq(Nat) /\ l \in Seq(1 .. MaxLines) /\ Len(l) = k
  BY <1>1, Capacities
<1>3. ASSUME NEW j \in Logged
      PROVE  /\ o \in Seq(Logged) /\ Len(o) = Len(owner) + k
             /\ Vault(j, files[j], IF j = i THEN pending[j] \o l ELSE pending[j], gone, o)
  <2>1. Vault(j, files[j], pending[j], gone, owner)
    BY DEF LvInv, VaultInv
  <2> QED BY <1>1, <2>1, ChunkIsNewest
<1>4. /\ b \in [Logged -> Seq(Nat)] /\ b[i] # << >> /\ IsFiniteSet(LinesQueued(b))
      /\ pendingLines + k = Cardinality(LinesQueued(b))
  BY <1>1, <1>2, MoreWaits DEF LvInv, WriterInv
<1>5. \A j \in Logged : Vault(j, files[j], b[j], gone, o)
  BY <1>1, <1>3
<1>6. o \in Seq(Logged) /\ Len(o) = Len(owner) + k
  BY <1>3
<1>7. memory[i] \o l \in Seq(1 .. MaxLines)
  BY <1>2 DEF LvInv, MemoryInv
<1>8. Newest(memory[i] \o l, MaxLogs) \in Seq(1 .. MaxLines)
      /\ Len(Newest(memory[i] \o l, MaxLogs)) <= MaxLogs
  BY <1>7, NewestEffect, Capacities
<1> HIDE DEF b, o, l
<1>9. FilesAreSequences' /\ WriterInv' /\ VaultInv'
  <2>1. FilesAreSequences
    BY DEF LvInv
  <2>2. FilesAreSequences' /\ WriterInv'
        /\ \A j \in Logged : Vault(j, files'[j], pending'[j], gone', o)
    BY <1>1, <1>4, <1>5, <1>6, <2>1, QueueEffect
  <2> QED BY <1>1, <2>2 DEF VaultInv
<1>10. MemoryInv'
  <2>1. memory' \in [Logged -> Seq(1 .. MaxLines)]
        /\ \A j \in Logged : Len(memory'[j]) <= MaxLogs
    BY <1>1, <1>8 DEF LvInv, MemoryInv
  <2> QED BY <1>1, <1>6, <2>1 DEF LvInv, MemoryInv
<1> QED BY <1>9, <1>10

LEMMA LvInvInductive ==
  ASSUME LvInv, [LvNext]_lvVars
  PROVE  LvInv'
<1>1. RingInv'
  BY RingStep DEF LvInv, MemoryInv
<1>2. ASSUME NEW i \in Logged, NEW k \in 1 .. 2, AddLog(i, k) PROVE LvInv'
  BY <1>1, <1>2, AddLogStep DEF LvInv
<1>3. CASE FlushWrites
  <2>1. /\ FlushOf(pending) /\ owner' = owner /\ entries' = entries /\ memory' = memory
    BY <1>3 DEF FlushWrites
  <2>2. FilesAreSequences /\ pending \in [Logged -> Seq(Nat)] /\ owner \in Seq(Logged)
        /\ \A i \in Logged : Vault(i, files[i], pending[i], gone, owner)
    BY DEF LvInv, WriterInv, MemoryInv, VaultInv
  <2>3. FilesAreSequences' /\ WriterInv'
        /\ \A i \in Logged : Vault(i, files'[i], pending'[i], gone', owner)
    BY <2>1, <2>2, FlushEffect
  <2>4. VaultInv' /\ MemoryInv'
    BY <2>1, <2>3 DEF VaultInv, MemoryInv, LvInv
  <2> QED BY <1>1, <2>3, <2>4 DEF LvInv
<1>4. ASSUME NEW i \in Logged, RemoveProject(i) PROVE LvInv'
  <2> DEFINE none == [k \in 0 .. Keep |-> << >>]
  <2>1. /\ entries' = entries \ {i} /\ memory' = [memory EXCEPT ![i] = << >>]
        /\ files' = [files EXCEPT ![i] = none]
        /\ gone' = gone \cup UNION {Lines(files[i][k]) : k \in 0 .. Keep}
        /\ owner' = owner /\ pending' = pending
        /\ pendingLines' = pendingLines /\ writeTimer' = writeTimer
    BY <1>4 DEF RemoveProject
  <2>2. none \in [0 .. Keep -> Seq(Nat)] /\ none[0] = << >> /\ none[1] = << >> /\ none[2] = << >>
    BY NoLines DEF Keep
  <2> HIDE DEF none
  <2>3. FilesAreSequences'
    BY <2>1, <2>2 DEF FilesAreSequences, LvInv
  <2>4. ASSUME NEW j \in Logged PROVE Vault(j, files'[j], pending[j], gone', owner)
    <3>1. Vault(j, files[j], pending[j], gone, owner) /\ gone \subseteq gone'
      BY <2>1 DEF LvInv, VaultInv
    <3>2. CASE j # i
      BY <2>1, <3>1, <3>2 DEF LvInv, FilesAreSequences, Vault, Complete
    <3>3. CASE j = i
      <4>1. files'[j] = none
        BY <2>1, <3>3 DEF LvInv, FilesAreSequences
      <4>2. AllLines(none, pending[j]) = Lines(pending[j])
        BY <2>2, NoLines DEF AllLines
      <4>3. AllLines(files[j], pending[j]) \subseteq gone' \cup Lines(pending[j])
        BY <2>1, <3>3 DEF AllLines, Keep
      <4>4. Segments(none, pending[j])
        BY <2>2, <3>1, NoLines DEF Segments, Lower, Vault
      <4>5. Complete(j, none, pending[j], gone', owner)
        <5> SUFFICES ASSUME NEW n \in DOMAIN owner, owner[n] = j, n \notin gone',
                            n \notin Lines(pending[j]), NEW m \in Lines(pending[j])
                     PROVE  n < m
          BY <4>2 DEF Complete
        <5>1. n \notin gone /\ n \notin AllLines(files[j], pending[j])
          BY <3>1, <4>3
        <5>2. m \in AllLines(files[j], pending[j])
          BY DEF AllLines
        <5> QED BY <3>1, <5>1, <5>2 DEF Vault, Complete
      <4>6. Lines(pending[j]) \subseteq DOMAIN owner /\ pending[j] \in Seq(Nat)
        BY <3>1 DEF Vault, AllLines
      <4> QED BY <2>2, <4>1, <4>2, <4>4, <4>5, <4>6 DEF Vault
    <3> QED BY <3>2, <3>3
  <2>5. VaultInv'
    BY <2>1, <2>4 DEF VaultInv
  <2>6. WriterInv'
    BY <2>1 DEF WriterInv, LvInv, Unwritten
  <2>7. MemoryInv'
    <3>1. << >> \in Seq(1 .. MaxLines) /\ Len(<< >>) <= MaxLogs
      BY Capacities
    <3> QED BY <2>1, <3>1 DEF MemoryInv, LvInv
  <2> QED BY <1>1, <2>3, <2>5, <2>6, <2>7 DEF LvInv
<1>5. CASE DaemonDies
  <2>1. /\ entries' = Logged /\ memory' = [i \in Logged |-> << >>]
        /\ pending' = NoneWaits /\ pendingLines' = 0 /\ writeTimer' = FALSE
        /\ gone' = gone \cup UNION {Lines(pending[i]) : i \in Logged}
        /\ owner' = owner /\ files' = files
    BY <1>5 DEF DaemonDies, NoneWaits
  <2>2. Unwritten' = {} /\ \A i \in Logged : pending'[i] = << >>
    BY <2>1 DEF Unwritten, NoneWaits
  <2>3. WriterInv'
    BY <2>1, <2>2, NothingWaits, Capacities DEF WriterInv
  <2>4. ASSUME NEW i \in Logged PROVE Vault(i, files[i], << >>, gone', owner)
    <3>1. Vault(i, files[i], pending[i], gone, owner)
      BY DEF LvInv, VaultInv
    <3>2. gone \cup Lines(pending[i]) \subseteq gone'
      BY <2>1
    <3>3. AllLines(files[i], << >>) \subseteq AllLines(files[i], pending[i])
          /\ AllLines(files[i], pending[i]) = AllLines(files[i], << >>) \cup Lines(pending[i])
      BY NoLines DEF AllLines
    <3>4. Segments(files[i], << >>)
      BY <3>1, NoLines DEF Vault, Segments, Lower
    <3>5. Complete(i, files[i], << >>, gone', owner)
      BY <3>1, <3>2, <3>3 DEF Vault, Complete
    <3> QED BY <3>1, <3>3, <3>4, <3>5, NoLines DEF Vault
  <2>5. VaultInv'
    BY <2>1, <2>2, <2>4 DEF VaultInv
  <2>6. MemoryInv'
    <3>1. << >> \in Seq(1 .. MaxLines) /\ Len(<< >>) <= MaxLogs
      BY Capacities
    <3> QED BY <2>1, <3>1 DEF MemoryInv, LvInv
  <2>7. FilesAreSequences'
    BY <2>1 DEF FilesAreSequences, LvInv
  <2> QED BY <1>1, <2>3, <2>5, <2>6, <2>7 DEF LvInv
<1>6. ASSUME UNCHANGED <<owner, memory, writerVars, gone>>, entries' \subseteq Logged PROVE LvInv'
  BY <1>1, <1>6 DEF LvInv, MemoryInv, WriterInv, Unwritten, FilesAreSequences, VaultInv, writerVars
<1>7. CASE FlushRing
  BY <1>6, <1>7 DEF FlushRing, LvInv, MemoryInv, writerVars
<1>8. ASSUME NEW i \in Logged, ProjectBack(i) PROVE LvInv'
  BY <1>6, <1>8 DEF ProjectBack, LvInv, MemoryInv, writerVars
<1>9. CASE UNCHANGED lvVars
  BY <1>6, <1>9 DEF lvVars, LvInv, MemoryInv
<1> QED BY <1>2, <1>3, <1>4, <1>5, <1>7, <1>8, <1>9 DEF LvNext

LEMMA LvInvMeaning ==
  ASSUME LvInv
  PROVE  LvTypeOK /\ LinesStayInOrder
<1>1. LvTypeOK
  <2>1. ring \in [0 .. MaxQueued - 1 -> 0 .. MaxLines] /\ head \in 0 .. MaxQueued - 1
        /\ count \in 0 .. MaxQueued /\ (ringTimer <=> count > 0)
    <3>1. unsent \in Seq(0 .. MaxLines) /\ count = (IF Len(unsent) <= MaxQueued THEN Len(unsent) ELSE MaxQueued)
      BY DEF LvInv, RingInv, Slots
    <3>2. count \in 0 .. MaxQueued
      BY <3>1, Capacities
    <3> QED BY <3>2 DEF LvInv, RingInv, Slots
  <2>2. (writeTimer <=> Unwritten # {}) /\ pendingLines < MaxPending
        /\ pendingLines = Cardinality(UNION {{i} \X DOMAIN pending[i] : i \in Logged})
    BY DEF LvInv, WriterInv, LinesQueued
  <2> QED BY <2>1, <2>2 DEF LvInv, MemoryInv, LvTypeOK
<1>2. RingHoldsTheNewest
  BY RingMeaning DEF LvInv
<1>3. ASSUME NEW i \in Logged
      PROVE  /\ Rising(Kept(i)) /\ Lines(Kept(i)) = AllLines(files[i], pending[i])
             /\ Complete(i, files[i], pending[i], gone, owner)
  <2> DEFINE x == files[i][2]
             y == files[i][1]
             z == files[i][0]
             b == pending[i]
  <2>1. /\ x \in Seq(Nat) /\ y \in Seq(Nat) /\ z \in Seq(Nat) /\ b \in Seq(Nat)
        /\ Segments(files[i], b) /\ Complete(i, files[i], b, gone, owner)
    BY DEF LvInv, VaultInv, Vault, Keep
  <2>2. /\ Rising(x) /\ Rising(y) /\ Rising(z) /\ Rising(b)
        /\ Lower(Lines(x), Lines(y)) /\ Lower(Lines(x), Lines(z)) /\ Lower(Lines(y), Lines(z))
        /\ Lower(Lines(x), Lines(b)) /\ Lower(Lines(y), Lines(b)) /\ Lower(Lines(z), Lines(b))
    BY <2>1 DEF Segments
  <2> HIDE DEF x, y, z, b
  <2>3. x \o y \in Seq(Nat) /\ Lines(x \o y) = Lines(x) \cup Lines(y) /\ Rising(x \o y)
    BY <2>1, <2>2, Concatenated
  <2>4. Lower(Lines(x \o y), Lines(z))
    BY <2>2, <2>3 DEF Lower
  <2>5. /\ (x \o y) \o z \in Seq(Nat) /\ Rising((x \o y) \o z)
        /\ Lines((x \o y) \o z) = Lines(x) \cup Lines(y) \cup Lines(z)
    BY <2>1, <2>2, <2>3, <2>4, Concatenated
  <2>6. Lower(Lines((x \o y) \o z), Lines(b))
    BY <2>2, <2>5 DEF Lower
  <2>7. /\ Rising(((x \o y) \o z) \o b)
        /\ Lines(((x \o y) \o z) \o b) = Lines(x) \cup Lines(y) \cup Lines(z) \cup Lines(b)
    BY <2>1, <2>2, <2>5, <2>6, Concatenated
  <2>8. Kept(i) = ((x \o y) \o z) \o b
    BY DEF Kept, x, y, z, b
  <2>9. AllLines(files[i], pending[i]) = Lines(x) \cup Lines(y) \cup Lines(z) \cup Lines(b)
    BY DEF AllLines, x, y, z, b
  <2> QED BY <2>1, <2>7, <2>8, <2>9 DEF b
<1>4. VaultKeepsOrder
  BY <1>3 DEF VaultKeepsOrder, Rising, Complete
<1> QED BY <1>1, <1>2, <1>4 DEF LinesStayInOrder

\* LinesStayInOrder: whatever timers, limits, failing disk calls, removals and deaths of the
\* daemon do between two lines, the files and the queue of a process keep its lines in order
\* and shed only the oldest, and the ring for the GUI holds the newest (log-vault.ts:49-120,
\* log-buffer.ts:30-53).
THEOREM NoLineIsMisplaced == LvSpec => []LinesStayInOrder
<1>1. LvInit => LvInv
  BY LvInvInit
<1>2. LvInv /\ [LvNext]_lvVars => LvInv'
  BY LvInvInductive
<1>3. LvInv => LinesStayInOrder
  BY LvInvMeaning
<1> QED BY <1>1, <1>2, <1>3, PTL DEF LvSpec

---------------------------------------------------------------------------------------
(* LiveView: what the page will have shown when nothing is on its way. *)

FieldValues == {{v} : v \in Nat} \cup SUBSET Records
EventTexts == (Fields \cup {"status", "[]"}) \X FieldValues
ViewEvents == [field : Fields, value : FieldValues, text : EventTexts]

\* The last event about f in c says v; c says nothing about f.
LastSays(f, c, v) ==
  \A k \in DOMAIN c :
     c[k].field = f /\ (\A j \in DOMAIN c : j > k => c[j].field # f) => c[k].value = v
Silent(f, c) == \A k \in DOMAIN c : c[k].field # f

\* The open stream owes its snapshot of f, or the next tick a push of it.
Owed(f) ==
  \/ stream = "closed"
  \/ stream = "projects" /\ f # "projects"
  \/ stream = "errors" /\ f = "alerts"
PageIsCurrent(f) ==
  /\ LastSays(f, channel, Daemon(f))
  /\ Silent(f, channel) => gui[f] = Daemon(f) \/ f \in stale \/ f \in removing
OnItsWay == \A f \in Fields : Owed(f) \/ f \in dirty \/ PageIsCurrent(f)

ViewTypes ==
  /\ LwTypeOK
  /\ changes \in 0 .. MaxChanges
  /\ channel \in Seq(ViewEvents)

ViewInv == ViewTypes /\ OnItsWay

LEMMA ViewInvMeaning == ViewInv => LwTypeOK /\ ViewIsCurrent
<1> SUFFICES ASSUME ViewInv, Quiet, NEW f \in Fields, f \notin stale PROVE gui[f] = Daemon(f)
  BY DEF ViewInv, ViewTypes, ViewIsCurrent
<1>1. PageIsCurrent(f)
  BY DEF ViewInv, OnItsWay, Owed, Quiet
<1>2. Silent(f, channel)
  BY DEF Quiet, Silent
<1> QED BY <1>1, <1>2 DEF PageIsCurrent, Quiet

LEMMA DaemonHasValues ==
  ASSUME LwTypeOK, NEW f \in Fields
  PROVE  Daemon(f) \in FieldValues /\ Snapshot(f) \in ViewEvents
         /\ Snapshot(f).field = f /\ Snapshot(f).value = Daemon(f)
<1>1. Daemon(f) \in FieldValues /\ {} \in FieldValues
  <2>1. /\ view \in Nat /\ errs \in SUBSET Records /\ alertLog \in SUBSET Records
        /\ {} \in SUBSET Records
    BY LiveViewAssumption DEF LwTypeOK
  <2>2. {view} \in FieldValues /\ errs \in FieldValues /\ alertLog \in FieldValues /\ {} \in FieldValues
    BY <2>1 DEF FieldValues
  <2> QED BY <2>2 DEF Daemon
<1>2. Text(f) \in EventTexts
  BY <1>1 DEF Text, EventTexts
<1> QED BY <1>1, <1>2 DEF Snapshot, ViewEvents

\* One event more.
LEMMA OneEventMore ==
  ASSUME NEW c \in Seq(ViewEvents), NEW e \in ViewEvents
  PROVE  /\ Append(c, e) \in Seq(ViewEvents)
         /\ LastSays(e.field, Append(c, e), e.value) /\ ~Silent(e.field, Append(c, e))
         /\ \A f, v : f # e.field => /\ LastSays(f, c, v) => LastSays(f, Append(c, e), v)
                                     /\ Silent(f, Append(c, e)) => Silent(f, c)
<1> DEFINE d == Append(c, e)
           n == Len(c)
<1>1. /\ d \in Seq(ViewEvents) /\ n \in Nat /\ DOMAIN c = 1 .. n /\ DOMAIN d = 1 .. n + 1
      /\ d[n + 1] = e /\ \A k \in 1 .. n : d[k] = c[k]
  OBVIOUS
<1> HIDE DEF d, n
<1>2. LastSays(e.field, d, e.value)
  <2> SUFFICES ASSUME NEW k \in DOMAIN d, \A j \in DOMAIN d : j > k => d[j].field # e.field
               PROVE  d[k].value = e.value
    BY DEF LastSays
  <2>1. k = n + 1
    <3>1. n + 1 \in DOMAIN d /\ ~(n + 1 > k)
      BY <1>1
    <3> QED BY <1>1, <3>1
  <2> QED BY <1>1, <2>1
<1>3. ~Silent(e.field, d)
  BY <1>1 DEF Silent
<1>4. ASSUME NEW f, NEW v, f # e.field, LastSays(f, c, v) PROVE LastSays(f, d, v)
  <2> SUFFICES ASSUME NEW k \in DOMAIN d, d[k].field = f,
                      \A j \in DOMAIN d : j > k => d[j].field # f
               PROVE  d[k].value = v
    BY DEF LastSays
  <2>1. k \in DOMAIN c /\ c[k] = d[k]
    BY <1>1, <1>4
  <2>2. \A j \in DOMAIN c : j > k => c[j].field # f
    BY <1>1
  <2> QED BY <1>4, <2>1, <2>2 DEF LastSays
<1>5. ASSUME NEW f, Silent(f, d) PROVE Silent(f, c)
  BY <1>1, <1>5 DEF Silent
<1> QED BY <1>1, <1>2, <1>3, <1>4, <1>5 DEF d

\* The first event taken off.
LEMMA OneLess ==
  ASSUME NEW c \in Seq(ViewEvents), c # << >>
  PROVE  /\ Tail(c) \in Seq(ViewEvents) /\ c[1] \in ViewEvents
         /\ \A f, v : LastSays(f, c, v) => LastSays(f, Tail(c), v)
         /\ \A f, v : LastSays(f, c, v) /\ Silent(f, Tail(c)) /\ c[1].field = f => c[1].value = v
         /\ \A f : Silent(f, Tail(c)) /\ c[1].field # f => Silent(f, c)
<1> DEFINE t == Tail(c)
           n == Len(c)
<1>1. /\ t \in Seq(ViewEvents) /\ n \in Nat \ {0} /\ DOMAIN c = 1 .. n /\ DOMAIN t = 1 .. n - 1
      /\ c[1] \in ViewEvents /\ \A k \in 1 .. n - 1 : t[k] = c[k + 1]
  OBVIOUS
<1> HIDE DEF t, n
<1>2. ASSUME NEW k \in 2 .. n PROVE k - 1 \in 1 .. n - 1 /\ t[k - 1] = c[k]
  <2>1. k - 1 \in 1 .. n - 1 /\ (k - 1) + 1 = k
    BY <1>1
  <2> QED BY <1>1, <2>1
<1>3. ASSUME NEW f, NEW v, LastSays(f, c, v) PROVE LastSays(f, t, v)
  <2> SUFFICES ASSUME NEW k \in DOMAIN t, t[k].field = f,
                      \A j \in DOMAIN t : j > k => t[j].field # f
               PROVE  t[k].value = v
    BY DEF LastSays
  <2>1. k + 1 \in DOMAIN c /\ c[k + 1] = t[k]
    BY <1>1
  <2>2. ASSUME NEW j \in DOMAIN c, j > k + 1 PROVE c[j].field # f
    <3>1. j \in 2 .. n /\ j - 1 > k
      BY <1>1, <2>2
    <3> QED BY <1>1, <1>2, <3>1
  <2> QED BY <1>3, <2>1, <2>2 DEF LastSays
<1>4. ASSUME NEW f, Silent(f, t), NEW j \in 2 .. n PROVE c[j].field # f
  BY <1>1, <1>2, <1>4 DEF Silent
<1>5. ASSUME NEW f, NEW v, LastSays(f, c, v), Silent(f, t), c[1].field = f PROVE c[1].value = v
  <2>1. 1 \in DOMAIN c /\ \A j \in DOMAIN c : j > 1 => j \in 2 .. n
    BY <1>1
  <2> QED BY <1>4, <1>5, <2>1 DEF LastSays
<1>6. ASSUME NEW f, Silent(f, t), c[1].field # f PROVE Silent(f, c)
  <2>1. \A j \in DOMAIN c : j = 1 \/ j \in 2 .. n
    BY <1>1
  <2> QED BY <1>4, <1>6, <2>1 DEF Silent
<1> QED BY <1>1, <1>3, <1>5, <1>6 DEF t

\* The same for a list of them, as broadcast() appends it.
LEMMA OneMoreBroadcast ==
  ASSUME NEW c \in Seq(ViewEvents), NEW e \in ViewEvents
  PROVE  c \o << e >> = Append(c, e) /\ c \o << >> = c
OBVIOUS

LEMMA NothingSaid ==
  << >> \in Seq(ViewEvents) /\ \A f, v : LastSays(f, << >>, v) /\ Silent(f, << >>)
BY DEF LastSays, Silent

LEMMA ViewInvInit == LwInit => ViewInv
<1> SUFFICES ASSUME LwInit PROVE ViewInv
  OBVIOUS
<1>1. /\ view = 0 /\ errs = {} /\ alertLog = {} /\ dirty = {} /\ stream = "closed"
      /\ channel = << >> /\ DOMAIN gui = Fields /\ DOMAIN refresh = {} /\ removing = {}
      /\ changes = 0 /\ stale = {}
  BY DEF LwInit
<1>2. 0 \in 0 .. MaxChanges
  BY LiveViewAssumption
<1>3. LwTypeOK
  BY <1>1, <1>2 DEF LwTypeOK
<1>4. ViewTypes
  BY <1>1, <1>2, <1>3, NothingSaid DEF ViewTypes
<1>5. OnItsWay
  BY <1>1 DEF OnItsWay, Owed
<1> QED BY <1>4, <1>5 DEF ViewInv

\* A field whose part of the state is left alone, whatever is said of others.
LEMMA StaysCurrent ==
  ASSUME NEW f \in Fields, PageIsCurrent(f),
         Daemon(f)' = Daemon(f), gui'[f] = gui[f], f \in stale => f \in stale',
         f \in removing => f \in removing',
         \A v : LastSays(f, channel, v) => LastSays(f, channel', v),
         Silent(f, channel') => Silent(f, channel)
  PROVE  PageIsCurrent(f)'
BY DEF PageIsCurrent

\* A step that leaves the channel alone keeps what it does not touch.
LEMMA Elsewhere ==
  ASSUME OnItsWay, UNCHANGED wireVars, NEW f \in Fields, f \in dirty => f \in dirty',
         Daemon(f)' = Daemon(f), gui'[f] = gui[f], f \in stale => f \in stale',
         f \in removing => f \in removing'
  PROVE  (Owed(f) \/ f \in dirty \/ PageIsCurrent(f))'
<1>1. Owed(f)' <=> Owed(f)
  BY DEF Owed, wireVars
<1>2. channel' = channel
  BY DEF wireVars
<1>3. CASE PageIsCurrent(f)
  BY <1>2, <1>3, StaysCurrent
<1> QED BY <1>1, <1>3 DEF OnItsWay

LEMMA StatusStep == ViewInv /\ StatusChanges => ViewInv'
<1> SUFFICES ASSUME ViewInv, StatusChanges PROVE ViewInv'
  OBVIOUS
<1> DEFINE e == [field |-> "projects", value |-> {view'}, text |-> <<"status", {view'}>>]
<1>1. /\ changes \in Nat /\ changes' = changes + 1 /\ changes' \in 0 .. MaxChanges
      /\ view' \in 0 .. MaxChanges /\ view' \in Nat
  BY LiveViewAssumption DEF StatusChanges, Change, ViewInv, ViewTypes
<1>2. /\ errs' = errs /\ alertLog' = alertLog /\ dirty' = dirty /\ stream' = stream
      /\ gui' = gui /\ refresh' = refresh /\ removing' = removing /\ stale' = stale
      /\ channel' = IF Listening THEN channel \o << e >> ELSE channel
  BY DEF StatusChanges, Broadcast, pageVars, askVars
<1>3. e \in ViewEvents /\ e.field = "projects" /\ e.value = {view'}
  <2>1. {view'} \in FieldValues
    BY <1>1 DEF FieldValues
  <2>2. <<"status", {view'}>> \in EventTexts /\ "projects" \in Fields
    BY <2>1 DEF EventTexts, Fields
  <2> QED BY <2>1, <2>2 DEF ViewEvents
<1>4. channel \in Seq(ViewEvents)
  BY DEF ViewInv, ViewTypes
<1> HIDE DEF e
<1>5. channel' = (IF Listening THEN Append(channel, e) ELSE channel) /\ channel' \in Seq(ViewEvents)
  BY <1>2, <1>3, <1>4, OneEventMore, OneMoreBroadcast
<1>6. ViewTypes'
  BY <1>1, <1>2, <1>5 DEF ViewInv, ViewTypes, LwTypeOK
<1>7. ASSUME NEW f \in Fields PROVE (Owed(f) \/ f \in dirty \/ PageIsCurrent(f))'
  <2>1. Owed(f)' <=> Owed(f)
    BY <1>2 DEF Owed
  <2>2. Owed(f) \/ f \in dirty \/ PageIsCurrent(f)
    BY DEF ViewInv, OnItsWay
  <2>3. CASE ~Listening
    BY <1>2, <2>3 DEF Listening, Owed
  <2>4. CASE Listening /\ f = "projects"
    <3>1. LastSays(f, channel', {view'}) /\ ~Silent(f, channel')
      BY <1>3, <1>4, <1>5, <2>4, OneEventMore
    <3>2. Daemon(f)' = {view'}
      BY <2>4 DEF Daemon
    <3> QED BY <3>1, <3>2 DEF PageIsCurrent
  <2>5. CASE Listening /\ f # "projects"
    <3>1. /\ \A v : LastSays(f, channel, v) => LastSays(f, channel', v)
          /\ Silent(f, channel') => Silent(f, channel)
      BY <1>3, <1>4, <1>5, <2>5, OneEventMore
    <3>2. Daemon(f)' = Daemon(f)
      BY <1>2, <2>5 DEF Daemon
    <3>3. PageIsCurrent(f) => PageIsCurrent(f)'
      BY <1>2, <3>1, <3>2, StaysCurrent
    <3> QED BY <1>2, <2>1, <2>2, <3>3
  <2> QED BY <2>3, <2>4, <2>5
<1> QED BY <1>6, <1>7 DEF ViewInv, OnItsWay

LEMMA ListsStep == ViewInv /\ (ErrorsChange \/ AlertsChange) => ViewInv'
<1> SUFFICES ASSUME ViewInv, ErrorsChange \/ AlertsChange PROVE ViewInv'
  OBVIOUS
<1>1. changes' \in 0 .. MaxChanges
  BY LiveViewAssumption DEF ErrorsChange, AlertsChange, Change, ViewInv, ViewTypes
<1>2. PICK g \in Lists : /\ dirty' = dirty \cup {g}
                         /\ errs' \subseteq Records /\ alertLog' \subseteq Records
                         /\ g # "errors" => errs' = errs
                         /\ g # "alerts" => alertLog' = alertLog
  BY DEF ErrorsChange, AlertsChange, Lists, ViewInv, ViewTypes, LwTypeOK
<1>3. /\ UNCHANGED wireVars /\ view' = view /\ gui' = gui /\ refresh' = refresh
      /\ removing' = removing /\ stale' = stale
  BY DEF ErrorsChange, AlertsChange, pageVars, askVars
<1>4. stream' = stream /\ channel' = channel
  BY <1>3 DEF wireVars
<1>5. ViewTypes'
  BY <1>1, <1>2, <1>3, <1>4 DEF ViewInv, ViewTypes, LwTypeOK
<1>6. ASSUME NEW f \in Fields PROVE (Owed(f) \/ f \in dirty \/ PageIsCurrent(f))'
  <2>1. CASE f = g
    BY <1>2, <2>1
  <2>2. CASE f # g
    <3>1. Daemon(f)' = Daemon(f)
      BY <1>2, <1>3, <2>2 DEF Daemon, Fields
    <3> QED BY <1>2, <1>3, <3>1, Elsewhere DEF ViewInv
  <2> QED BY <2>1, <2>2
<1> QED BY <1>5, <1>6 DEF ViewInv, OnItsWay

LEMMA TickStep == ViewInv /\ Tick => ViewInv'
<1> SUFFICES ASSUME ViewInv, Tick PROVE ViewInv'
  OBVIOUS
<1> DEFINE E == Snapshot("errors")
           F == Snapshot("alerts")
           ch1 == IF "errors" \in dirty THEN Append(channel, E) ELSE channel
           ch2 == IF "alerts" \in dirty THEN Append(ch1, F) ELSE ch1
<1>1. /\ view' = view /\ errs' = errs /\ alertLog' = alertLog /\ stream' = stream
      /\ gui' = gui /\ refresh' = refresh /\ removing' = removing /\ stale' = stale
      /\ changes' = changes /\ dirty' = {}
      /\ channel' = IF Listening THEN channel \o (Dirty["errors"] \o Dirty["alerts"])
                    ELSE channel
  BY DEF Tick, Broadcast, pageVars, askVars, lwHistory
<1>2. /\ E \in ViewEvents /\ E.field = "errors" /\ E.value = Daemon("errors")
      /\ F \in ViewEvents /\ F.field = "alerts" /\ F.value = Daemon("alerts")
  BY DaemonHasValues DEF ViewInv, ViewTypes, Fields
<1>3. channel \in Seq(ViewEvents) /\ dirty \subseteq Lists
  BY DEF ViewInv, ViewTypes, LwTypeOK
<1>4. /\ Dirty["errors"] = IF "errors" \in dirty THEN << E >> ELSE << >>
      /\ Dirty["alerts"] = IF "alerts" \in dirty THEN << F >> ELSE << >>
  BY DEF Dirty, Lists
<1>5. \A f \in Fields : Daemon(f)' = Daemon(f)
  BY <1>1 DEF Daemon
<1> HIDE DEF E, F
<1>6. channel \o (Dirty["errors"] \o Dirty["alerts"]) = ch2
  <2>1. CASE "errors" \in dirty /\ "alerts" \in dirty
    <3>1. channel \o (<< E >> \o << F >>) = Append(Append(channel, E), F)
      BY <1>2, <1>3
    <3> QED BY <1>4, <2>1, <3>1
  <2>2. CASE "errors" \in dirty /\ "alerts" \notin dirty
    <3>1. channel \o (<< E >> \o << >>) = Append(channel, E)
      BY <1>2, <1>3
    <3> QED BY <1>4, <2>2, <3>1
  <2>3. CASE "errors" \notin dirty /\ "alerts" \in dirty
    <3>1. channel \o (<< >> \o << F >>) = Append(channel, F)
      BY <1>2, <1>3
    <3> QED BY <1>4, <2>3, <3>1
  <2>4. CASE "errors" \notin dirty /\ "alerts" \notin dirty
    <3>1. channel \o (<< >> \o << >>) = channel
      BY <1>3
    <3> QED BY <1>4, <2>4, <3>1
  <2> QED BY <2>1, <2>2, <2>3, <2>4
<1>7. /\ ch1 \in Seq(ViewEvents)
      /\ "errors" \in dirty => LastSays("errors", ch1, Daemon("errors")) /\ ~Silent("errors", ch1)
      /\ \A f, v : f # "errors" \/ "errors" \notin dirty =>
            /\ LastSays(f, channel, v) => LastSays(f, ch1, v)
            /\ Silent(f, ch1) => Silent(f, channel)
  BY <1>2, <1>3, OneEventMore
<1> HIDE DEF ch1
<1>8. /\ ch2 \in Seq(ViewEvents)
      /\ "alerts" \in dirty => LastSays("alerts", ch2, Daemon("alerts")) /\ ~Silent("alerts", ch2)
      /\ \A f, v : f # "alerts" \/ "alerts" \notin dirty =>
            /\ LastSays(f, ch1, v) => LastSays(f, ch2, v)
            /\ Silent(f, ch2) => Silent(f, ch1)
  BY <1>2, <1>7, OneEventMore
<1> HIDE DEF ch2
<1>9. channel' \in Seq(ViewEvents) /\ (Listening => channel' = ch2)
  BY <1>1, <1>3, <1>6, <1>8
<1>10. ViewTypes'
  BY <1>1, <1>9 DEF ViewInv, ViewTypes, LwTypeOK
<1>11. ASSUME NEW f \in Fields PROVE (Owed(f) \/ f \in dirty \/ PageIsCurrent(f))'
  <2>1. Owed(f)' <=> Owed(f)
    BY <1>1 DEF Owed
  <2>2. Owed(f) \/ f \in dirty \/ PageIsCurrent(f)
    BY DEF ViewInv, OnItsWay
  <2>3. CASE ~Listening
    BY <1>1, <2>3 DEF Listening, Owed
  <2>4. CASE Listening /\ f \in dirty
    <3>1. LastSays(f, ch2, Daemon(f)) /\ ~Silent(f, ch2)
      <4>1. CASE f = "errors"
        BY <1>7, <1>8, <2>4, <4>1
      <4>2. CASE f = "alerts"
        BY <1>8, <2>4, <4>2
      <4> QED BY <1>3, <2>4, <4>1, <4>2 DEF Lists
    <3> QED BY <1>5, <1>9, <2>4, <3>1 DEF PageIsCurrent
  <2>5. CASE Listening /\ f \notin dirty
    <3>1. /\ \A v : LastSays(f, channel, v) => LastSays(f, ch2, v)
          /\ Silent(f, ch2) => Silent(f, channel)
      BY <1>7, <1>8, <2>5
    <3>2. PageIsCurrent(f) => PageIsCurrent(f)'
      BY <1>1, <1>5, <1>9, <2>5, <3>1, StaysCurrent
    <3> QED BY <2>1, <2>2, <2>5, <3>2
  <2> QED BY <2>3, <2>4, <2>5
<1> QED BY <1>10, <1>11 DEF ViewInv, OnItsWay

\* The stream's handler: what it wrote last is what the daemon has, the rest it still owes.
LEMMA SnapshotStep == ViewInv /\ (OpenStream \/ NextSnapshot \/ DropStream) => ViewInv'
<1> SUFFICES ASSUME ViewInv, OpenStream \/ NextSnapshot \/ DropStream PROVE ViewInv'
  OBVIOUS
<1>1. /\ view' = view /\ errs' = errs /\ alertLog' = alertLog /\ dirty' = dirty
      /\ gui' = gui /\ refresh' = refresh /\ removing' = removing /\ stale' = stale
      /\ changes' = changes /\ stream' \in {"closed", "projects", "errors", "open"}
  BY DEF OpenStream, NextSnapshot, DropStream, daemonVars, pageVars, askVars, lwHistory
<1>2. \A f \in Fields : Daemon(f)' = Daemon(f)
  BY <1>1 DEF Daemon
<1>3. channel \in Seq(ViewEvents)
  BY DEF ViewInv, ViewTypes
<1>4. (channel' \in Seq(ViewEvents)) => ViewTypes'
  BY <1>1 DEF ViewInv, ViewTypes, LwTypeOK
<1>5. CASE DropStream
  <2>1. stream' = "closed" /\ channel' \in Seq(ViewEvents)
    BY <1>5, NothingSaid DEF DropStream
  <2>2. OnItsWay'
    BY <2>1 DEF OnItsWay, Owed
  <2> QED BY <1>4, <2>1, <2>2 DEF ViewInv
<1>6. ASSUME NEW g \in Fields, NEW c \in Seq(ViewEvents), channel' = Append(c, Snapshot(g)),
             \A f \in Fields : f = g \/ Owed(f)' \/ (c = channel /\ ~Owed(f))
      PROVE  ViewInv'
  <2>1. Snapshot(g) \in ViewEvents /\ Snapshot(g).field = g /\ Snapshot(g).value = Daemon(g)
    BY DaemonHasValues DEF ViewInv, ViewTypes
  <2>2. /\ channel' \in Seq(ViewEvents) /\ LastSays(g, channel', Daemon(g)) /\ ~Silent(g, channel')
        /\ \A f, v : f # g => /\ LastSays(f, c, v) => LastSays(f, channel', v)
                              /\ Silent(f, channel') => Silent(f, c)
    BY <1>6, <2>1, OneEventMore
  <2>3. ASSUME NEW f \in Fields PROVE (Owed(f) \/ f \in dirty \/ PageIsCurrent(f))'
    <3>1. CASE f = g
      BY <1>2, <2>2, <3>1 DEF PageIsCurrent
    <3>2. CASE f # g /\ c = channel /\ ~Owed(f)
      <4>1. PageIsCurrent(f) => PageIsCurrent(f)'
        BY <1>1, <1>2, <2>2, <3>2, StaysCurrent
      <4> QED BY <1>1, <3>2, <4>1 DEF ViewInv, OnItsWay
    <3> QED BY <1>6, <3>1, <3>2
  <2> QED BY <1>4, <2>2, <2>3 DEF ViewInv, OnItsWay
<1>7. CASE OpenStream
  <2>1. channel' = Append(<< >>, Snapshot("projects")) /\ stream' = "projects"
    BY <1>7 DEF OpenStream
  <2>2. \A f \in Fields : f = "projects" \/ Owed(f)'
    BY <2>1 DEF Owed
  <2> QED BY <1>6, <2>1, <2>2, NothingSaid DEF Fields
<1>8. CASE NextSnapshot /\ stream = "projects"
  <2>1. channel' = Append(channel, Snapshot("errors")) /\ stream' = "errors"
    BY <1>8 DEF NextSnapshot
  <2>2. \A f \in Fields : f = "errors" \/ Owed(f)' \/ ~Owed(f)
    BY <1>8, <2>1 DEF Owed, Fields
  <2> QED BY <1>3, <1>6, <2>1, <2>2 DEF Fields
<1>9. CASE NextSnapshot /\ stream = "errors"
  <2>1. channel' = Append(channel, Snapshot("alerts")) /\ stream' = "open"
    BY <1>9 DEF NextSnapshot
  <2>2. \A f \in Fields : f = "alerts" \/ ~Owed(f)
    BY <1>9 DEF Owed, Fields
  <2> QED BY <1>3, <1>6, <2>1, <2>2 DEF Fields
<1> QED BY <1>5, <1>7, <1>8, <1>9 DEF NextSnapshot

LEMMA ReceiveStep == ViewInv /\ Receive => ViewInv'
<1> SUFFICES ASSUME ViewInv, Receive PROVE ViewInv'
  OBVIOUS
<1> DEFINE e == channel[1]
           g == e.field
<1>1. /\ view' = view /\ errs' = errs /\ alertLog' = alertLog /\ dirty' = dirty
      /\ stream' = stream /\ refresh' = refresh /\ removing' = removing /\ changes' = changes
      /\ channel # << >> /\ channel' = Tail(channel)
  BY DEF Receive, daemonVars, askVars
<1>2. \/ gui' = gui /\ stale' = IF gui[g] # e.value THEN stale \cup {g} ELSE stale
      \/ gui' = [gui EXCEPT ![g] = e.value] /\ stale' = stale \ {g}
  BY DEF Receive
<1>3. channel \in Seq(ViewEvents) /\ DOMAIN gui = Fields /\ stale \subseteq Fields
  BY DEF ViewInv, ViewTypes, LwTypeOK
<1>4. /\ channel' \in Seq(ViewEvents) /\ e \in ViewEvents
      /\ \A f, v : LastSays(f, channel, v) => LastSays(f, channel', v)
      /\ \A f, v : LastSays(f, channel, v) /\ Silent(f, channel') /\ g = f => e.value = v
      /\ \A f : Silent(f, channel') /\ g # f => Silent(f, channel)
  BY <1>1, <1>3, OneLess
<1>5. g \in Fields
  BY <1>4 DEF ViewEvents
<1> HIDE DEF e
<1>6. \A f \in Fields : Daemon(f)' = Daemon(f) /\ (Owed(f)' <=> Owed(f))
  BY <1>1 DEF Daemon, Owed
<1>7. ViewTypes'
  BY <1>1, <1>2, <1>3, <1>4, <1>5 DEF ViewInv, ViewTypes, LwTypeOK
<1>8. ASSUME NEW f \in Fields, PageIsCurrent(f) PROVE PageIsCurrent(f)'
  <2>1. CASE f = g
    <3>1. LastSays(f, channel', Daemon(f)')
      BY <1>4, <1>6, <1>8 DEF PageIsCurrent
    <3>2. ASSUME Silent(f, channel') PROVE gui'[f] = Daemon(f)' \/ f \in stale'
      <4>1. e.value = Daemon(f)
        BY <1>4, <1>8, <2>1, <3>2 DEF PageIsCurrent
      <4> QED BY <1>2, <1>3, <1>6, <2>1, <4>1
    <3> QED BY <3>1, <3>2 DEF PageIsCurrent
  <2>2. CASE f # g
    <3>1. gui'[f] = gui[f] /\ (f \in stale => f \in stale')
      BY <1>2, <1>3, <2>2
    <3> QED BY <1>1, <1>4, <1>6, <1>8, <2>2, <3>1, StaysCurrent
  <2> QED BY <2>1, <2>2
<1>9. OnItsWay'
  BY <1>1, <1>6, <1>8 DEF ViewInv, OnItsWay
<1> QED BY <1>7, <1>9 DEF ViewInv

LEMMA RefreshStep ==
  ViewInv /\ (AskRefresh \/ (\E ok \in BOOLEAN : EndRefresh(ok))
              \/ (\E f \in Fields : AnswerRefresh(f))) => ViewInv'
<1> SUFFICES ASSUME ViewInv, AskRefresh \/ (\E ok \in BOOLEAN : EndRefresh(ok))
                             \/ (\E f \in Fields : AnswerRefresh(f))
             PROVE  ViewInv'
  OBVIOUS
<1>1. /\ UNCHANGED <<daemonVars, wireVars>> /\ removing' = removing
      /\ changes' \in 0 .. MaxChanges /\ DOMAIN refresh' \subseteq Fields
  <2>1. changes \in 0 .. MaxChanges /\ DOMAIN refresh \subseteq Fields
    BY DEF ViewInv, ViewTypes, LwTypeOK
  <2>2. CASE AskRefresh
    BY LiveViewAssumption, <2>1, <2>2 DEF AskRefresh, Change
  <2>3. ASSUME NEW ok \in BOOLEAN, EndRefresh(ok)
        PROVE  /\ UNCHANGED <<daemonVars, wireVars>> /\ removing' = removing
               /\ changes' = changes /\ DOMAIN refresh' = {}
    BY <2>3 DEF EndRefresh
  <2>4. ASSUME NEW f \in Fields, AnswerRefresh(f)
        PROVE  /\ UNCHANGED <<daemonVars, wireVars>> /\ removing' = removing
               /\ changes' = changes /\ DOMAIN refresh' = DOMAIN refresh \cup {f}
    BY <2>4 DEF AnswerRefresh, lwHistory
  <2> QED BY <2>1, <2>2, <2>3, <2>4
<1>2. /\ view' = view /\ errs' = errs /\ alertLog' = alertLog /\ dirty' = dirty
      /\ UNCHANGED wireVars /\ stream' = stream /\ channel' = channel
  BY <1>1 DEF daemonVars, wireVars
<1>3. \A f \in Fields : Daemon(f)' = Daemon(f)
  BY <1>2 DEF Daemon
<1>4. CASE gui' = gui /\ stale' = stale
  <2>1. ViewTypes'
    BY <1>1, <1>2, <1>4 DEF ViewInv, ViewTypes, LwTypeOK
  <2> QED BY <1>1, <1>2, <1>3, <1>4, <2>1, Elsewhere DEF ViewInv, OnItsWay
<1>5. CASE /\ gui' = refresh /\ DOMAIN refresh = Fields
           /\ stale' = {f \in Fields : refresh[f] # Daemon(f)}
  <2>1. ViewTypes'
    BY <1>1, <1>2, <1>5 DEF ViewInv, ViewTypes, LwTypeOK
  <2>2. ASSUME NEW f \in Fields PROVE (Owed(f) \/ f \in dirty \/ PageIsCurrent(f))'
    <3>1. Owed(f)' <=> Owed(f)
      BY <1>2 DEF Owed
    <3>2. gui'[f] = Daemon(f)' \/ f \in stale'
      BY <1>3, <1>5
    <3>3. PageIsCurrent(f) => PageIsCurrent(f)'
      BY <1>2, <1>3, <3>2 DEF PageIsCurrent
    <3> QED BY <1>2, <3>1, <3>3 DEF ViewInv, OnItsWay
  <2> QED BY <2>1, <2>2 DEF ViewInv, OnItsWay
<1> QED BY <1>4, <1>5 DEF AskRefresh, EndRefresh, AnswerRefresh, pageVars, lwHistory

LEMMA RemoveStep ==
  ViewInv /\ (\E f \in Lists : RemoveLocal(f) \/ \E ok \in BOOLEAN : RemoveAnswered(f, ok))
  => ViewInv'
<1> SUFFICES ASSUME ViewInv, NEW g \in Lists, NEW ok \in BOOLEAN,
                    RemoveLocal(g) \/ RemoveAnswered(g, ok)
             PROVE  ViewInv'
  OBVIOUS
<1>1. g \in Fields /\ Lists \subseteq Fields /\ DOMAIN gui = Fields
  BY DEF Fields, Lists, ViewInv, ViewTypes, LwTypeOK
<1>2. UNCHANGED wireVars /\ stream' = stream /\ channel' = channel /\ view' = view
      /\ refresh' = refresh /\ changes' = changes
  BY DEF RemoveLocal, RemoveAnswered, wireVars, daemonVars, lwHistory
<1>3. CASE RemoveLocal(g)
  <2>1. /\ errs' = errs /\ alertLog' = alertLog /\ dirty' = dirty /\ stale' = stale
        /\ gui' = [gui EXCEPT ![g] = {}] /\ removing' = removing \cup {g}
    BY <1>3 DEF RemoveLocal, daemonVars, lwHistory
  <2>2. ViewTypes'
    BY <1>1, <1>2, <2>1 DEF ViewInv, ViewTypes, LwTypeOK
  <2>3. ASSUME NEW f \in Fields PROVE (Owed(f) \/ f \in dirty \/ PageIsCurrent(f))'
    <3>1. Daemon(f)' = Daemon(f)
      BY <1>2, <2>1 DEF Daemon
    <3>2. CASE f # g
      BY <1>1, <1>2, <2>1, <3>1, <3>2, Elsewhere DEF ViewInv
    <3>3. CASE f = g
      <4>1. Owed(f)' <=> Owed(f)
        BY <1>2 DEF Owed
      <4>2. PageIsCurrent(f) => PageIsCurrent(f)'
        BY <1>2, <2>1, <3>1, <3>3 DEF PageIsCurrent
      <4> QED BY <2>1, <4>1, <4>2 DEF ViewInv, OnItsWay
    <3> QED BY <3>2, <3>3
  <2> QED BY <2>2, <2>3 DEF ViewInv, OnItsWay
<1>4. CASE RemoveAnswered(g, ok)
  <2>1. /\ errs' = (IF ok /\ g = "errors" THEN {} ELSE errs)
        /\ alertLog' = (IF ok /\ g = "alerts" THEN {} ELSE alertLog)
        /\ dirty' = (IF ok THEN dirty \cup {g} ELSE dirty)
        /\ stale' = (IF ok \/ Daemon(g) = gui[g] THEN stale ELSE stale \cup {g})
        /\ removing' = removing \ {g} /\ gui' = gui
    BY <1>4 DEF RemoveAnswered, pageVars
  <2>2. ViewTypes'
    BY <1>1, <1>2, <2>1 DEF ViewInv, ViewTypes, LwTypeOK
  <2>3. ASSUME NEW f \in Fields PROVE (Owed(f) \/ f \in dirty \/ PageIsCurrent(f))'
    <3>1. CASE f # g
      <4>1. Daemon(f)' = Daemon(f)
        BY <1>2, <2>1, <3>1 DEF Daemon, Fields
      <4>2. /\ f \in dirty => f \in dirty'
            /\ f \in stale => f \in stale'
            /\ f \in removing => f \in removing'
        BY <2>1, <3>1
      <4> QED BY <1>2, <2>1, <4>1, <4>2, Elsewhere DEF ViewInv
    <3>2. CASE f = g /\ ok
      BY <2>1, <3>2
    <3>3. CASE f = g /\ ~ok
      <4>1. Owed(f)' <=> Owed(f)
        BY <1>2 DEF Owed
      <4>2. Daemon(f)' = Daemon(f)
        BY <1>2, <2>1, <3>3 DEF Daemon
      <4>3. gui'[f] = Daemon(f)' \/ f \in stale'
        BY <2>1, <3>3, <4>2
      <4>4. PageIsCurrent(f) => PageIsCurrent(f)'
        BY <1>2, <4>2, <4>3 DEF PageIsCurrent
      <4> QED BY <2>1, <4>1, <4>4, <3>3 DEF ViewInv, OnItsWay
    <3> QED BY <3>1, <3>2, <3>3
  <2> QED BY <2>2, <2>3 DEF ViewInv, OnItsWay
<1> QED BY <1>3, <1>4

LEMMA ViewInvInductive == ViewInv /\ [LwNext]_lwVars => ViewInv'
<1> SUFFICES ASSUME ViewInv, [LwNext]_lwVars PROVE ViewInv'
  OBVIOUS
<1>1. CASE UNCHANGED lwVars
  BY <1>1 DEF lwVars, ViewInv, ViewTypes, LwTypeOK, OnItsWay, Owed, PageIsCurrent, Daemon
<1>2. CASE LwNext
  BY <1>2, StatusStep, ListsStep, TickStep, SnapshotStep, ReceiveStep, RefreshStep, RemoveStep
     DEF LwNext
<1> QED BY <1>1, <1>2

\* When nothing is on its way the page shows what the daemon has.
THEOREM PageShowsTheDaemon == LwSpec => []ViewIsCurrent
<1>1. LwInit => ViewInv
  BY ViewInvInit
<1>2. ViewInv /\ [LwNext]_lwVars => ViewInv'
  BY ViewInvInductive
<1>3. ViewInv => ViewIsCurrent
  BY ViewInvMeaning
<1> QED BY <1>1, <1>2, <1>3, PTL DEF LwSpec

---------------------------------------------------------------------------------------
(* Monitoring, the alerts: what the open windows remember, and what each rule has been told of. *)

Looks == [at : Nat, over : BOOLEAN]

AlertTypes ==
  /\ now \in 0 .. MaxTicks /\ pids \in 0 .. MaxTicks /\ pidOf \in [Sampled -> 0 .. pids]
  /\ DOMAIN sampling \subseteq Sampled /\ \A p \in DOMAIN sampling : sampling[p] \in 1 .. pids
  /\ DOMAIN rules \subseteq RuleIds /\ \A r \in DOMAIN rules : rules[r] \in Rule
  /\ DOMAIN breach \subseteq DOMAIN rules
  /\ \A r \in DOMAIN breach : breach[r] \in [since : 1 .. now, fired : BOOLEAN]
  /\ alerts \in Seq(Alert) /\ Len(alerts) <= MaxAlerts
  /\ alertFile \in Seq(Alert) /\ Len(alertFile) <= MaxAlerts
  /\ looked \in [Sampled -> Seq(Looks)] /\ edited \in [RuleIds -> 0 .. now]
Saves == unsaved \in BOOLEAN /\ (unsaved => saving)

\* Every event is of the past, and of an earlier look when one is under way.
Past ==
  /\ \A k \in DOMAIN alerts : alerts[k].at <= now
  /\ \A k \in DOMAIN alertFile : alertFile[k].at <= now
  /\ sampling # None => now >= 1 /\ \A k \in DOMAIN alerts : alerts[k].at < now

\* A pid is one process's.
OnePid ==
  /\ \A p, q \in Sampled : pidOf[p] = pidOf[q] /\ pidOf[p] # 0 => p = q
  /\ \A p \in Sampled, q \in DOMAIN sampling : sampling[q] = pidOf[p] => p = q

\* Every look from the i-th on was over.
OverFrom(looks, i) == \A j \in i .. Len(looks) : looks[j].over
\* An open window: over at each look since it opened, which was after the last edit.
Remembers(r) ==
  /\ edited[r] <= breach[r].since
  /\ \E i \in DOMAIN looked[rules[r].proc] :
        /\ looked[rules[r].proc][i].at = breach[r].since
        /\ OverFrom(looked[rules[r].proc], i)
WindowsRemember == \A r \in DOMAIN breach : Remembers(r)

\* Since t the rule r was given a new meaning, or its process was seen not over.
CalmSince(r, t) ==
  \/ edited[r] >= t
  \/ \E i \in DOMAIN looked[rules[r].proc] :
        looked[rules[r].proc][i].at > t /\ ~looked[rules[r].proc][i].over
HasFired(r) == r \in DOMAIN breach /\ breach[r].fired
Told1(r, t) == (HasFired(r) \/ CalmSince(r, t)) /\ (rules[r].enabled \/ edited[r] >= t)
EventsTold ==
  \A r \in DOMAIN rules : \A k \in DOMAIN alerts : alerts[k].rule = r => Told1(r, alerts[k].at)

AlertInv == AlertTypes /\ Saves /\ Past /\ OnePid /\ WindowsRemember /\ EventsTold

LEMMA AlertInvMeaning == AlertInv => AlTypeOK
<1> SUFFICES ASSUME AlertInv PROVE AlTypeOK
  OBVIOUS
<1>1. pidOf \in [Sampled -> 0 .. MaxTicks]
  <2>1. pids \in Nat /\ pids <= MaxTicks /\ pidOf \in [Sampled -> 0 .. pids]
    BY AlertsAssumption DEF AlertInv, AlertTypes
  <2>2. \A p \in Sampled : pidOf[p] \in 0 .. MaxTicks
    BY <2>1, AlertsAssumption
  <2> QED BY <2>1, <2>2
<1>2. Values(sampling) \subseteq 1 .. pids /\ Values(rules) \subseteq Rule
      /\ Values(breach) \subseteq [since : 1 .. now, fired : BOOLEAN]
  BY DEF AlertInv, AlertTypes, Values
<1> QED BY <1>1, <1>2 DEF AlertInv, AlertTypes, Saves, AlTypeOK

LEMMA AlertInvInit == AlInit => AlertInv
<1> SUFFICES ASSUME AlInit PROVE AlertInv
  OBVIOUS
<1>1. /\ now = 0 /\ pids = 0 /\ pidOf = [p \in Sampled |-> 0] /\ sampling = None
      /\ breach = None /\ alerts = << >> /\ alertFile = << >> /\ unsaved = FALSE
      /\ edited = [r \in RuleIds |-> 0] /\ looked = [p \in Sampled |-> << >>]
  BY DEF AlInit
<1>2. DOMAIN None = {} /\ << >> \in Seq(Alert) /\ << >> \in Seq(Looks) /\ Len(<< >>) = 0
      /\ DOMAIN << >> = {}
  BY DEF None
<1>3. DOMAIN rules \subseteq RuleIds /\ \A r \in DOMAIN rules : rules[r] \in Rule
  <2>1. CASE rules = None
    BY <1>2, <2>1
  <2>2. CASE rules \in [RuleIds -> [proc : Sampled, window : Windows, enabled : {TRUE}]]
    <3>1. \A r \in RuleIds : rules[r] \in [proc : Sampled, window : Windows, enabled : {TRUE}]
      BY <2>2
    <3>2. [proc : Sampled, window : Windows, enabled : {TRUE}] \subseteq Rule
      BY DEF Rule
    <3> QED BY <2>2, <3>1, <3>2
  <2> QED BY <2>1, <2>2 DEF AlInit
<1>4. AlertTypes
  BY <1>1, <1>2, <1>3, AlertsAssumption DEF AlertTypes
<1>5. Saves /\ Past /\ OnePid /\ WindowsRemember /\ EventsTold
  BY <1>1, <1>2 DEF Saves, Past, OnePid, WindowsRemember, EventsTold
<1> QED BY <1>4, <1>5 DEF AlertInv

LEMMA Elements ==
  ASSUME NEW S, NEW s \in Seq(S), NEW k \in DOMAIN s
  PROVE  s[k] \in S
OBVIOUS

LEMMA EventTimes ==
  ASSUME AlertInv
  PROVE  /\ now \in Nat
         /\ \A k \in DOMAIN alerts : alerts[k].at \in Nat /\ alerts[k].at <= now
         /\ \A k \in DOMAIN alertFile : alertFile[k].at \in Nat /\ alertFile[k].at <= now
<1>1. \A a \in Alert : a.at \in Nat
  BY AlertsAssumption DEF Alert
<1>2. alerts \in Seq(Alert) /\ alertFile \in Seq(Alert) /\ now \in Nat
  BY AlertsAssumption DEF AlertInv, AlertTypes
<1>3. /\ \A k \in DOMAIN alerts : alerts[k] \in Alert
      /\ \A k \in DOMAIN alertFile : alertFile[k] \in Alert
  BY <1>2, Elements
<1> QED BY <1>1, <1>2, <1>3 DEF AlertInv, Past

\* The processes, as the rest of the manager runs them.
LEMMA ProcessesStep ==
  AlertInv /\ (\E p \in Sampled : Spawned(p) \/ Ended(p)) => AlertInv'
<1> SUFFICES ASSUME AlertInv, NEW p \in Sampled, Spawned(p) \/ Ended(p) PROVE AlertInv'
  OBVIOUS
<1>1. UNCHANGED <<now, sampling, rules, breach, alerts, unsaved, saving, alertFile, edited,
                  looked>>
  BY DEF Spawned, Ended
<1>2. /\ pids \in Nat /\ pids' \in 0 .. MaxTicks /\ pids' \in Nat /\ pids' >= pids
      /\ pidOf \in [Sampled -> 0 .. pids]
  BY AlertsAssumption DEF Spawned, Ended, AlertInv, AlertTypes
<1>3. PICK n \in {0, pids + 1} : /\ pidOf' = [pidOf EXCEPT ![p] = n]
                                 /\ n # 0 => pids' = pids + 1
  BY DEF Spawned, Ended
<1>4. /\ \A q \in Sampled : pidOf[q] \in 0 .. pids
      /\ \A q \in Sampled : pidOf'[q] = IF q = p THEN n ELSE pidOf[q]
      /\ \A q \in DOMAIN sampling : sampling[q] \in 1 .. pids
  BY <1>2, <1>3 DEF AlertInv, AlertTypes
<1>5. AlertTypes'
  <2>1. \A q \in Sampled : pidOf'[q] \in 0 .. pids'
    BY <1>2, <1>3, <1>4
  <2>2. \A q \in DOMAIN sampling : sampling[q] \in 1 .. pids'
    BY <1>2, <1>4
  <2>3. pidOf' \in [Sampled -> 0 .. pids']
    BY <1>2, <1>3, <2>1
  <2> QED BY <1>1, <1>2, <2>2, <2>3 DEF AlertInv, AlertTypes
<1>6. OnePid'
  <2>1. \A x1, x2 \in Sampled : pidOf'[x1] = pidOf'[x2] /\ pidOf'[x1] # 0 => x1 = x2
    BY <1>2, <1>4 DEF AlertInv, OnePid
  <2>2. \A x1 \in Sampled, x2 \in DOMAIN sampling : sampling[x2] = pidOf'[x1] => x1 = x2
    BY <1>2, <1>4 DEF AlertInv, OnePid
  <2> QED BY <1>1, <2>1, <2>2 DEF OnePid
<1>7. Saves' /\ Past' /\ WindowsRemember' /\ EventsTold'
  BY <1>1 DEF AlertInv, Saves, Past, WindowsRemember, EventsTold, Remembers, Told1, HasFired,
              CalmSince
<1> QED BY <1>5, <1>6, <1>7 DEF AlertInv

LEMMA TimerStep == AlertInv /\ MetricsTick => AlertInv'
<1> SUFFICES ASSUME AlertInv, MetricsTick PROVE AlertInv'
  OBVIOUS
<1>1. /\ UNCHANGED <<pidOf, pids, rules, breach, alerts, unsaved, saving, alertFile, edited,
                     looked>>
      /\ now \in Nat /\ now' = now + 1 /\ now' \in 0 .. MaxTicks
      /\ sampling' = IF sampling = None THEN [p \in Running |-> pidOf[p]] ELSE sampling
  BY AlertsAssumption DEF MetricsTick, AlertInv, AlertTypes
<1>2. /\ pids \in Nat /\ \A p \in Sampled : pidOf[p] \in 0 .. pids
  BY AlertsAssumption DEF AlertInv, AlertTypes
<1>3. /\ DOMAIN sampling' \subseteq Sampled /\ \A p \in DOMAIN sampling' : sampling'[p] \in 1 .. pids
      /\ \A p \in Sampled, q \in DOMAIN sampling' : sampling'[q] = pidOf[p] => p = q
  <2>1. CASE sampling = None
    <3>1. sampling' = [p \in Running |-> pidOf[p]] /\ Running \subseteq Sampled
          /\ \A p \in Running : pidOf[p] # 0
      BY <1>1, <2>1 DEF Running
    <3> QED BY <1>2, <3>1 DEF AlertInv, OnePid
  <2>2. CASE sampling # None
    BY <1>1, <2>2 DEF AlertInv, AlertTypes, OnePid
  <2> QED BY <2>1, <2>2
<1>4. AlertTypes'
  <2>1. \A r \in DOMAIN breach : breach[r] \in [since : 1 .. now', fired : BOOLEAN]
    <3>1. [since : 1 .. now, fired : BOOLEAN] \subseteq [since : 1 .. now', fired : BOOLEAN]
      <4>1. 1 .. now \subseteq 1 .. now'
        BY <1>1
      <4> QED BY <4>1
    <3> QED BY <3>1 DEF AlertInv, AlertTypes
  <2>2. edited \in [RuleIds -> 0 .. now']
    <3>1. edited \in [RuleIds -> 0 .. now] /\ 0 .. now \subseteq 0 .. now'
      BY <1>1 DEF AlertInv, AlertTypes
    <3> QED BY <3>1
  <2> QED BY <1>1, <1>3, <2>1, <2>2 DEF AlertInv, AlertTypes
<1>5. Past'
  <2>1. /\ \A k \in DOMAIN alerts : alerts[k].at \in Nat /\ alerts[k].at <= now
        /\ \A k \in DOMAIN alertFile : alertFile[k].at \in Nat /\ alertFile[k].at <= now
    BY EventTimes
  <2> QED BY <1>1, <2>1 DEF Past
<1>6. OnePid'
  BY <1>1, <1>3 DEF AlertInv, OnePid
<1>7. Saves' /\ WindowsRemember' /\ EventsTold'
  BY <1>1 DEF AlertInv, Saves, WindowsRemember, EventsTold, Remembers, Told1, HasFired,
              CalmSince
<1> QED BY <1>4, <1>5, <1>6, <1>7 DEF AlertInv

\* The rules: one that means something else begins anew, one that is left alone goes on.
LEMMA RulesChange ==
  ASSUME AlertInv,
         UNCHANGED <<now, pidOf, pids, sampling, alerts, unsaved, saving, alertFile, looked>>,
         edited' \in [RuleIds -> 0 .. now], DOMAIN rules' \subseteq RuleIds,
         DOMAIN breach' \subseteq DOMAIN breach \cap DOMAIN rules',
         \A r \in DOMAIN rules' :
            /\ rules'[r] \in Rule
            /\ \/ edited'[r] = now /\ r \notin DOMAIN breach'
               \/ /\ r \in DOMAIN rules /\ rules'[r] = rules[r] /\ edited'[r] = edited[r]
                  /\ r \in DOMAIN breach => r \in DOMAIN breach' /\ breach'[r] = breach[r]
  PROVE  AlertInv'
<1>1. now \in Nat /\ \A k \in DOMAIN alerts : alerts[k].at \in Nat /\ alerts[k].at <= now
  BY EventTimes
<1>2. \A r \in DOMAIN breach' : r \in DOMAIN breach /\ breach'[r] = breach[r]
                                /\ rules'[r] = rules[r] /\ edited'[r] = edited[r]
  OBVIOUS
<1>3. AlertTypes'
  BY <1>2 DEF AlertInv, AlertTypes
<1>4. Saves' /\ Past' /\ OnePid'
  BY DEF AlertInv, Saves, Past, OnePid
<1>5. WindowsRemember'
  BY <1>2 DEF AlertInv, WindowsRemember, Remembers
<1>6. ASSUME NEW r \in DOMAIN rules', NEW k \in DOMAIN alerts, alerts[k].rule = r
      PROVE  Told1(r, alerts[k].at)'
  <2>1. CASE edited'[r] = now
    BY <1>1, <2>1 DEF Told1, CalmSince
  <2>2. CASE /\ r \in DOMAIN rules /\ rules'[r] = rules[r] /\ edited'[r] = edited[r]
             /\ r \in DOMAIN breach => r \in DOMAIN breach' /\ breach'[r] = breach[r]
    <3>1. Told1(r, alerts[k].at)
      BY <1>6, <2>2 DEF AlertInv, EventsTold
    <3> QED BY <2>2, <3>1 DEF Told1, CalmSince, HasFired
  <2> QED BY <2>1, <2>2
<1>7. EventsTold'
  BY <1>6 DEF EventsTold
<1> QED BY <1>3, <1>4, <1>5, <1>7 DEF AlertInv

LEMMA RulesStep ==
  ASSUME AlertInv,
         \/ \E p \in Sampled : RemoveRulesForProcess(p)
         \/ \E r \in RuleIds, p \in Sampled, w \in Windows :
                AddRule(r, p, w) \/ \E on \in BOOLEAN : UpdateRule(r, p, w, on)
         \/ \E r \in RuleIds : RemoveRule(r)
  PROVE  AlertInv' /\ looked' = looked
<1>1. UNCHANGED <<now, pidOf, pids, sampling, alerts, unsaved, saving, alertFile, looked>>
  BY DEF RemoveRulesForProcess, AddRule, UpdateRule, RemoveRule, RulesCall
<1>2. /\ now \in Nat /\ edited \in [RuleIds -> 0 .. now] /\ DOMAIN rules \subseteq RuleIds
      /\ \A r \in DOMAIN rules : rules[r] \in Rule
      /\ DOMAIN breach \subseteq DOMAIN rules
  BY EventTimes DEF AlertInv, AlertTypes
<1>3. \A r \in RuleIds : [edited EXCEPT ![r] = now] \in [RuleIds -> 0 .. now]
  BY <1>2
<1>4. ASSUME NEW lost, rules' = Without(rules, lost), breach' = Without(breach, lost),
             edited' = edited
      PROVE  AlertInv'
  <2>1. /\ DOMAIN rules' = DOMAIN rules \ lost /\ DOMAIN breach' = DOMAIN breach \ lost
        /\ \A r \in DOMAIN rules' : rules'[r] = rules[r]
        /\ \A r \in DOMAIN breach' : breach'[r] = breach[r]
    BY <1>4 DEF Without
  <2> QED BY <1>1, <1>2, <1>4, <2>1, RulesChange
<1>5. ASSUME NEW r \in RuleIds, NEW p \in Sampled, NEW w \in Windows, AddRule(r, p, w)
      PROVE  AlertInv'
  <2>1. /\ r \notin DOMAIN rules /\ edited' = [edited EXCEPT ![r] = now] /\ breach' = breach
        /\ DOMAIN rules' = DOMAIN rules \cup {r}
        /\ rules'[r] = [proc |-> p, window |-> w, enabled |-> TRUE]
        /\ \A x \in DOMAIN rules : rules'[x] = rules[x]
    BY <1>5 DEF AddRule
  <2>2. rules'[r] \in Rule
    BY <2>1 DEF Rule
  <2>3. edited'[r] = now /\ \A x \in DOMAIN rules : edited'[x] = edited[x]
    BY <1>2, <2>1
  <2> QED BY <1>1, <1>2, <1>3, <2>1, <2>2, <2>3, RulesChange
<1>6. ASSUME NEW r \in RuleIds, NEW p \in Sampled, NEW w \in Windows, NEW on \in BOOLEAN,
             UpdateRule(r, p, w, on)
      PROVE  AlertInv'
  <2>1. /\ r \in DOMAIN rules /\ edited' = [edited EXCEPT ![r] = now]
        /\ breach' = Without(breach, {r})
        /\ rules' = [rules EXCEPT ![r] = [proc |-> p, window |-> w, enabled |-> on]]
    BY <1>6 DEF UpdateRule, Reopen
  <2>2. [proc |-> p, window |-> w, enabled |-> on] \in Rule
    BY DEF Rule
  <2>3. /\ DOMAIN rules' = DOMAIN rules /\ rules'[r] \in Rule
        /\ \A x \in DOMAIN rules : x # r => rules'[x] = rules[x]
    BY <2>1, <2>2
  <2>4. edited'[r] = now /\ \A x \in DOMAIN rules : x # r => edited'[x] = edited[x]
    BY <1>2, <2>1
  <2>5. /\ DOMAIN breach' = DOMAIN breach \ {r}
        /\ \A x \in DOMAIN breach' : breach'[x] = breach[x]
    BY <2>1 DEF Without
  <2>6. edited' \in [RuleIds -> 0 .. now]
    BY <1>3, <2>1
  <2> QED BY <1>1, <1>2, <2>3, <2>4, <2>5, <2>6, RulesChange
<1> QED BY <1>1, <1>4, <1>5, <1>6 DEF RemoveRulesForProcess, RemoveRule

LEMMA SavesStep ==
  AlertInv /\ (ClearEvents \/ SaveEvents) => AlertInv' /\ looked' = looked
<1> SUFFICES ASSUME AlertInv, ClearEvents \/ SaveEvents PROVE AlertInv' /\ looked' = looked
  OBVIOUS
<1>1. UNCHANGED <<now, pidOf, pids, sampling, rules, breach, ruleCalls, edited, looked>>
  BY DEF ClearEvents, SaveEvents
<1>2. /\ alerts' = alerts \/ alerts' = << >>
      /\ alertFile' = alerts \/ alertFile' = alertFile
  BY DEF ClearEvents, SaveEvents
<1>3. << >> \in Seq(Alert) /\ Len(<< >>) = 0 /\ DOMAIN << >> = {} /\ 0 <= MaxAlerts
  BY AlertsAssumption
<1>4. AlertTypes'
  BY <1>1, <1>2, <1>3 DEF AlertInv, AlertTypes
<1>5. Past' /\ OnePid' /\ WindowsRemember' /\ EventsTold'
  BY <1>1, <1>2, <1>3 DEF AlertInv, Past, OnePid, WindowsRemember, EventsTold, Remembers,
                          Told1, HasFired, CalmSince
<1>6. Saves'
  BY DEF ClearEvents, SaveEvents, Saves
<1> QED BY <1>1, <1>4, <1>5, <1>6 DEF AlertInv

LEMMA RestartStep ==
  ASSUME AlertInv, DaemonRestarts
  PROVE  AlertInv' /\ \A p \in Sampled : looked'[p] = << >>
<1>1. /\ UNCHANGED <<now, pids, rules, alertFile>>
      /\ breach' = None /\ alerts' = alertFile /\ sampling' = None /\ unsaved' = FALSE
      /\ pidOf' = [p \in Sampled |-> 0] /\ looked' = [p \in Sampled |-> << >>]
      /\ edited' = [r \in RuleIds |-> IF r \in DOMAIN rules THEN now ELSE edited[r]]
  BY DEF DaemonRestarts, Reload
<1>2. DOMAIN None = {} /\ << >> \in Seq(Looks)
  BY DEF None
<1>3. /\ now \in Nat /\ pids \in Nat
      /\ \A k \in DOMAIN alertFile : alertFile[k].at \in Nat /\ alertFile[k].at <= now
  BY EventTimes, AlertsAssumption DEF AlertInv, AlertTypes
<1>4. edited' \in [RuleIds -> 0 .. now] /\ \A r \in DOMAIN rules : edited'[r] = now
  BY <1>1, <1>3 DEF AlertInv, AlertTypes
<1>5. AlertTypes'
  BY <1>1, <1>2, <1>3, <1>4 DEF AlertInv, AlertTypes
<1>6. Saves' /\ Past' /\ OnePid' /\ WindowsRemember'
  BY <1>1, <1>2, <1>3 DEF Saves, Past, OnePid, WindowsRemember
<1>7. EventsTold'
  BY <1>1, <1>3, <1>4 DEF EventsTold, Told1, CalmSince
<1> QED BY <1>1, <1>5, <1>6, <1>7 DEF AlertInv

---------------------------------------------------------------------------------------
(* OnlyDue look. *)

LEMMA CappedKeeps ==
  ASSUME NEW s \in Seq(Alert)
  PROVE  /\ Capped(s) \in Seq(Alert) /\ Len(Capped(s)) <= MaxAlerts
         /\ \A k \in DOMAIN Capped(s) : k \in DOMAIN s /\ Capped(s)[k] = s[k]
<1> DEFINE n == IF Len(s) < MaxAlerts THEN Len(s) ELSE MaxAlerts
<1>1. n \in Nat /\ n <= Len(s) /\ n <= MaxAlerts /\ Len(s) \in Nat
  BY AlertsAssumption
<1>2. Capped(s) = SubSeq(s, 1, n)
  BY DEF Capped
<1> HIDE DEF n
<1>3. /\ SubSeq(s, 1, n) \in Seq(Alert) /\ Len(SubSeq(s, 1, n)) = n
      /\ \A k \in 1 .. n : SubSeq(s, 1, n)[k] = s[k]
  BY <1>1
<1> QED BY <1>1, <1>2, <1>3

LEMMA JoinKeeps ==
  ASSUME NEW S, NEW s \in Seq(S), NEW t \in Seq(S), NEW k \in DOMAIN (s \o t)
  PROVE  \/ k \in DOMAIN s /\ (s \o t)[k] = s[k]
         \/ k - Len(s) \in DOMAIN t /\ (s \o t)[k] = t[k - Len(s)]
OBVIOUS

\* The events of a look: those there were, and one now of each rule that fires.
LEMMA EventsAfter ==
  ASSUME AlertInv, now \in 1 .. MaxTicks, NEW hot \in SUBSET Sampled, Evaluate(hot)
  PROVE  /\ alerts' \in Seq(Alert) /\ Len(alerts') <= MaxAlerts
         /\ \A k \in DOMAIN alerts' :
               \/ alerts'[k].rule \in Fired(hot) /\ alerts'[k].at = now
               \/ \E i \in DOMAIN alerts : alerts'[k] = alerts[i]
<1> DEFINE F == Fired(hot)
           New == {[rule |-> r, at |-> now] : r \in F}
<1>1. PICK told \in Told(F) : alerts' = Capped(told \o alerts)
  BY DEF Evaluate
<1>2. F \subseteq RuleIds /\ IsFiniteSet(F) /\ Cardinality(F) \in Nat
  <2>1. F \subseteq RuleIds
    BY DEF Fired, Over, AlertInv, AlertTypes
  <2> QED BY <2>1, AlertsAssumption, FS_Subset, FS_CardinalityType
<1>3. New \subseteq Alert /\ \A e \in New : e.rule \in F /\ e.at = now
  BY <1>2 DEF Alert
<1>4. told \in [1 .. Cardinality(F) -> New]
  BY <1>1 DEF Told
<1>5. told \in Seq(Alert) /\ \A i \in DOMAIN told : told[i].rule \in F /\ told[i].at = now
  <2>1. told \in [1 .. Cardinality(F) -> Alert]
    BY <1>3, <1>4
  <2>2. told \in Seq(Alert)
    BY <1>2, <2>1
  <2> QED BY <1>3, <1>4, <2>2
<1>6. alerts \in Seq(Alert) /\ told \o alerts \in Seq(Alert)
  BY <1>5 DEF AlertInv, AlertTypes
<1> HIDE DEF F
<1>7. ASSUME NEW k \in DOMAIN alerts'
      PROVE  \/ alerts'[k].rule \in F /\ alerts'[k].at = now
             \/ \E i \in DOMAIN alerts : alerts'[k] = alerts[i]
  <2>1. k \in DOMAIN (told \o alerts) /\ alerts'[k] = (told \o alerts)[k]
    BY <1>1, <1>6, CappedKeeps
  <2>2. \/ k \in DOMAIN told /\ (told \o alerts)[k] = told[k]
        \/ k - Len(told) \in DOMAIN alerts /\ (told \o alerts)[k] = alerts[k - Len(told)]
    BY <1>5, <1>6, <2>1, JoinKeeps
  <2> QED BY <1>5, <2>1, <2>2
<1>8. alerts' \in Seq(Alert) /\ Len(alerts') <= MaxAlerts
  BY <1>1, <1>6, CappedKeeps
<1> QED BY <1>7, <1>8 DEF F

\* The process p is over the threshold in the run that was sampled and runs now.
SeenOver(p, hot) == p \in hot /\ p \in DOMAIN sampling /\ sampling[p] = pidOf[p]

\* A rule that is enabled is over exactly when its process was seen over.
LEMMA OverIsSeen ==
  ASSUME AlertInv, NEW hot \in SUBSET Sampled, NEW r \in DOMAIN rules
  PROVE  /\ r \in Over(hot) => SeenOver(rules[r].proc, hot) /\ rules[r].enabled
         /\ r \notin Over(hot) => ~rules[r].enabled \/ ~SeenOver(rules[r].proc, hot)
<1> DEFINE p == rules[r].proc
<1>1. p \in Sampled
  BY DEF AlertInv, AlertTypes, Rule
<1>2. DOMAIN sampling \subseteq Sampled
      /\ \A q \in DOMAIN sampling : sampling[q] = pidOf[p] => p = q
  BY <1>1 DEF AlertInv, AlertTypes, OnePid
<1> HIDE DEF p
<1>3. Answered(p) => p \in DOMAIN sampling /\ sampling[p] = pidOf[p]
  BY <1>2 DEF Answered, Values
<1>4. p \in DOMAIN sampling /\ sampling[p] = pidOf[p] => Answered(p)
  BY DEF Answered, Values
<1>5. r \in Over(hot) <=> rules[r].enabled /\ Answered(p) /\ p \in hot
  BY DEF Over, IsOver, p
<1> QED BY <1>3, <1>4, <1>5 DEF SeenOver, p

\* What a look adds to what was seen of a process.
LEMMA LookAdded ==
  ASSUME NEW looks \in Seq(Looks), NEW l \in Looks
  PROVE  /\ Append(looks, l) \in Seq(Looks) /\ Len(Append(looks, l)) = Len(looks) + 1
         /\ Len(looks) + 1 \in DOMAIN Append(looks, l) /\ Append(looks, l)[Len(looks) + 1] = l
         /\ Len(looks) \in Nat
         /\ \A i \in DOMAIN looks : i \in DOMAIN Append(looks, l) /\ Append(looks, l)[i] = looks[i]
         /\ l.over => OverFrom(Append(looks, l), Len(looks) + 1)
         /\ l.over => \A i \in DOMAIN looks : OverFrom(looks, i) => OverFrom(Append(looks, l), i)
<1> DEFINE n == Len(looks)
           t == Append(looks, l)
<1>1. /\ n \in Nat /\ DOMAIN looks = 1 .. n /\ t \in Seq(Looks) /\ Len(t) = n + 1
      /\ DOMAIN t = 1 .. n + 1 /\ t[n + 1] = l /\ \A i \in 1 .. n : t[i] = looks[i]
  OBVIOUS
<1> HIDE DEF n, t
<1>2. l.over => OverFrom(t, n + 1)
  BY <1>1 DEF OverFrom
<1>3. ASSUME l.over, NEW i \in DOMAIN looks, OverFrom(looks, i) PROVE OverFrom(t, i)
  <2> SUFFICES ASSUME NEW j \in i .. n + 1 PROVE t[j].over
    BY <1>1 DEF OverFrom
  <2>1. CASE j = n + 1
    BY <1>1, <1>3, <2>1
  <2>2. CASE j # n + 1
    <3>1. j \in i .. n /\ j \in 1 .. n
      BY <1>1, <2>2
    <3>2. looks[j].over
      BY <1>3, <3>1 DEF OverFrom, n
    <3> QED BY <1>1, <3>1, <3>2
  <2> QED BY <2>1, <2>2
<1>4. n + 1 \in DOMAIN t /\ \A i \in DOMAIN looks : i \in DOMAIN t /\ t[i] = looks[i]
  BY <1>1
<1> QED BY <1>1, <1>2, <1>3, <1>4 DEF n, t

\* What a look does, in the words of the invariant.
LookedWith(hot) ==
  /\ now \in 1 .. MaxTicks /\ sampling # None /\ sampling' = None
  /\ UNCHANGED <<now, pidOf, pids, rules, alertFile, edited>>
  /\ Evaluate(hot)
  /\ \A p \in Sampled : \E l \in Looks :
        /\ l.at = now /\ (l.over <=> SeenOver(p, hot))
        /\ looked'[p] = Append(looked[p], l)

LEMMA SampleLooks ==
  ASSUME AlertInv, SampleArrives
  PROVE  /\ \E hot \in SUBSET Sampled : LookedWith(hot)
         /\ looked' \in [Sampled -> Seq(Looks)]
<1>1. PICK hot \in SUBSET Sampled :
         /\ sampling # None /\ sampling' = None /\ Evaluate(hot)
         /\ looked' = [p \in Sampled |-> Append(looked[p], [at |-> now, over |->
                         p \in hot /\ p \in DOMAIN sampling /\ sampling[p] = pidOf[p]])]
         /\ UNCHANGED <<now, pidOf, pids, rules, alertFile, ruleCalls, edited>>
  BY DEF SampleArrives
<1>2. now \in Nat /\ now \in 1 .. MaxTicks
  BY <1>1, AlertsAssumption DEF AlertInv, AlertTypes, Past
<1>3. ASSUME NEW p \in Sampled
      PROVE  \E l \in Looks : /\ l.at = now /\ (l.over <=> SeenOver(p, hot))
                              /\ looked'[p] = Append(looked[p], l)
  <2> DEFINE l == [at |-> now, over |->
                     p \in hot /\ p \in DOMAIN sampling /\ sampling[p] = pidOf[p]]
  <2>1. l \in Looks
    BY <1>2 DEF Looks
  <2>2. l.at = now
    OBVIOUS
  <2>3. l.over <=> SeenOver(p, hot)
    BY DEF SeenOver
  <2>4. looked'[p] = Append(looked[p], l)
    BY <1>1
  <2> QED BY <2>1, <2>2, <2>3, <2>4
<1>4. \A p \in Sampled : looked'[p] \in Seq(Looks)
  <2>1. \A p \in Sampled : looked[p] \in Seq(Looks)
    BY DEF AlertInv, AlertTypes
  <2> QED BY <1>3, <2>1, LookAdded
<1>5. looked' \in [Sampled -> Seq(Looks)]
  BY <1>1, <1>4
<1> QED BY <1>1, <1>2, <1>3, <1>5 DEF LookedWith

\* The windows after a look.
LEMMA WindowsAfter ==
  ASSUME AlertInv, NEW hot \in SUBSET Sampled, LookedWith(hot)
  PROVE  /\ DOMAIN breach' = Over(hot) /\ Over(hot) \subseteq DOMAIN rules
         /\ \A r \in Over(hot) :
               /\ breach'[r] \in [since : 1 .. now, fired : BOOLEAN]
               /\ r \in DOMAIN breach => breach'[r].since = breach[r].since
               /\ r \notin DOMAIN breach => breach'[r].since = now
               /\ r \in Fired(hot) \/ HasFired(r) => breach'[r].fired
         /\ \A r \in Fired(hot) :
               r \in Over(hot) /\ ~HasFired(r) /\ now - breach'[r].since >= rules[r].window
<1>1. breach' = [r \in Over(hot) |-> AfterLook(r)] /\ Over(hot) \subseteq DOMAIN rules
  BY DEF LookedWith, Evaluate, Over
<1>2. now \in 1 .. now
  BY AlertsAssumption DEF LookedWith
<1>3. ASSUME NEW r \in Over(hot)
      PROVE  /\ breach'[r] = AfterLook(r) /\ Breach(r) \in [since : 1 .. now, fired : BOOLEAN]
             /\ r \in DOMAIN breach => Breach(r) = breach[r]
             /\ r \notin DOMAIN breach => Breach(r).since = now
  <2>1. [since |-> now, fired |-> FALSE] \in [since : 1 .. now, fired : BOOLEAN]
    BY <1>2
  <2> QED BY <1>1, <2>1 DEF Breach, AlertInv, AlertTypes
<1>4. ASSUME NEW r \in Over(hot)
      PROVE  /\ AfterLook(r) \in [since : 1 .. now, fired : BOOLEAN]
             /\ AfterLook(r).since = Breach(r).since
             /\ AfterLook(r).fired <=> Breach(r).fired \/ Due(r)
  BY <1>3 DEF AfterLook
<1>5. \A r \in Fired(hot) : r \in Over(hot) /\ Due(r)
  BY DEF Fired
<1>6. ASSUME NEW r \in Over(hot), Due(r)
      PROVE  ~HasFired(r) /\ now - Breach(r).since >= rules[r].window
  BY <1>3, <1>6 DEF Due, HasFired
<1>7. ASSUME NEW r \in Over(hot), r \in Fired(hot) \/ HasFired(r) PROVE breach'[r].fired
  BY <1>3, <1>4, <1>5, <1>7 DEF HasFired
<1>8. DOMAIN breach' = Over(hot)
  BY <1>1
<1>9. \A r \in Over(hot) : breach'[r].since = Breach(r).since
  BY <1>3, <1>4
<1>10. ASSUME NEW r \in Over(hot)
       PROVE  /\ breach'[r] \in [since : 1 .. now, fired : BOOLEAN]
              /\ r \in DOMAIN breach => breach'[r].since = breach[r].since
              /\ r \notin DOMAIN breach => breach'[r].since = now
              /\ r \in Fired(hot) \/ HasFired(r) => breach'[r].fired
  BY <1>3, <1>4, <1>7, <1>9
<1>11. ASSUME NEW r \in Fired(hot)
       PROVE  r \in Over(hot) /\ ~HasFired(r) /\ now - breach'[r].since >= rules[r].window
  BY <1>5, <1>6, <1>9
<1> QED BY <1>1, <1>8, <1>10, <1>11

LEMMA LookRemembers ==
  ASSUME AlertInv, NEW hot \in SUBSET Sampled, LookedWith(hot)
  PROVE  WindowsRemember'
<1> SUFFICES ASSUME NEW r \in Over(hot) PROVE Remembers(r)'
  BY WindowsAfter DEF WindowsRemember
<1> DEFINE p == rules[r].proc
<1>1. r \in DOMAIN rules /\ p \in Sampled /\ SeenOver(p, hot)
  BY OverIsSeen, WindowsAfter DEF AlertInv, AlertTypes, Rule
<1>2. PICK l \in Looks : l.at = now /\ (l.over <=> SeenOver(p, hot))
                         /\ looked'[p] = Append(looked[p], l)
  BY <1>1 DEF LookedWith
<1>3. looked[p] \in Seq(Looks) /\ rules' = rules /\ edited' = edited /\ r \in RuleIds
  BY <1>1 DEF AlertInv, AlertTypes, LookedWith
<1>4. edited[r] <= now
  BY <1>3, EventTimes DEF AlertInv, AlertTypes
<1> HIDE DEF p
<1>5. l.over
  BY <1>1, <1>2
<1>6. CASE r \in DOMAIN breach
  <2>1. PICK i \in DOMAIN looked[p] : looked[p][i].at = breach[r].since
                                      /\ OverFrom(looked[p], i) /\ edited[r] <= breach[r].since
    BY <1>6 DEF AlertInv, WindowsRemember, Remembers, p
  <2>2. i \in DOMAIN looked'[p] /\ looked'[p][i].at = breach[r].since /\ OverFrom(looked'[p], i)
    BY <1>2, <1>3, <1>5, <2>1, LookAdded
  <2>3. breach'[r].since = breach[r].since
    BY <1>6, WindowsAfter
  <2> QED BY <1>3, <2>1, <2>2, <2>3 DEF Remembers, p
<1>7. CASE r \notin DOMAIN breach
  <2>1. Len(looked[p]) + 1 \in DOMAIN looked'[p] /\ OverFrom(looked'[p], Len(looked[p]) + 1)
        /\ looked'[p][Len(looked[p]) + 1].at = now
    BY <1>2, <1>3, <1>5, LookAdded
  <2>2. breach'[r].since = now
    BY <1>7, WindowsAfter
  <2> QED BY <1>3, <1>4, <2>1, <2>2 DEF Remembers, p
<1> QED BY <1>6, <1>7

LEMMA LookTells ==
  ASSUME AlertInv, NEW hot \in SUBSET Sampled, LookedWith(hot)
  PROVE  EventsTold'
<1> SUFFICES ASSUME NEW r \in DOMAIN rules, NEW k \in DOMAIN alerts', NEW t,
                    alerts'[k].rule = r, alerts'[k].at = t
             PROVE  Told1(r, t)'
  BY DEF EventsTold, LookedWith
<1> DEFINE p == rules[r].proc
<1>1. p \in Sampled /\ looked[p] \in Seq(Looks) /\ rules' = rules /\ edited' = edited
      /\ r \in RuleIds
  BY DEF AlertInv, AlertTypes, Rule, LookedWith
<1>2. PICK l \in Looks : l.at = now /\ (l.over <=> SeenOver(p, hot))
                         /\ looked'[p] = Append(looked[p], l)
  BY <1>1 DEF LookedWith
<1>3. \/ r \in Fired(hot) /\ t = now
      \/ \E i \in DOMAIN alerts : alerts'[k] = alerts[i]
  BY EventsAfter DEF LookedWith
<1>4. HasFired(r)' <=> r \in Over(hot) /\ breach'[r].fired
  BY WindowsAfter DEF HasFired
<1>5. CASE r \in Fired(hot) /\ t = now
  <2>1. r \in Over(hot) /\ HasFired(r)'
    BY <1>4, <1>5, WindowsAfter
  <2>2. rules[r].enabled
    BY <2>1, OverIsSeen
  <2> QED BY <1>1, <2>1, <2>2 DEF Told1
<1>6. ASSUME NEW i \in DOMAIN alerts, alerts'[k] = alerts[i] PROVE Told1(r, t)'
  <2>1. Told1(r, t) /\ t < now
    BY <1>6 DEF AlertInv, EventsTold, Past, LookedWith
  <2>2. \A j \in DOMAIN looked[p] : j \in DOMAIN looked'[p] /\ looked'[p][j] = looked[p][j]
    BY <1>1, <1>2, LookAdded
  <2>3. CalmSince(r, t) => CalmSince(r, t)'
    BY <1>1, <2>2 DEF CalmSince
  <2>4. CASE HasFired(r) /\ r \in Over(hot)
    BY <1>1, <1>4, <2>1, <2>4, WindowsAfter DEF Told1
  <2>5. CASE r \notin Over(hot) /\ rules[r].enabled
    <3>1. ~l.over
      BY <1>2, <2>5, OverIsSeen
    <3>2. Len(looked[p]) + 1 \in DOMAIN looked'[p] /\ looked'[p][Len(looked[p]) + 1] = l
      BY <1>1, <1>2, LookAdded
    <3>3. CalmSince(r, t)'
      BY <1>1, <1>2, <2>1, <3>1, <3>2 DEF CalmSince
    <3> QED BY <1>1, <2>5, <3>3 DEF Told1
  <2>6. CASE ~rules[r].enabled
    BY <1>1, <2>1, <2>6 DEF Told1, CalmSince
  <2>7. CASE CalmSince(r, t)
    BY <1>1, <2>1, <2>3, <2>7 DEF Told1
  <2> QED BY <2>1, <2>4, <2>5, <2>6, <2>7 DEF Told1
<1> QED BY <1>3, <1>5, <1>6

LEMMA SampleStep == AlertInv /\ SampleArrives => AlertInv'
<1> SUFFICES ASSUME AlertInv, SampleArrives PROVE AlertInv'
  OBVIOUS
<1>1. PICK hot \in SUBSET Sampled : LookedWith(hot)
  BY SampleLooks
<1>2. looked' \in [Sampled -> Seq(Looks)]
  BY SampleLooks
<1>3. UNCHANGED <<now, pidOf, pids, rules, alertFile, edited>> /\ sampling' = None
      /\ now \in 1 .. MaxTicks /\ now \in Nat
  BY <1>1, EventTimes DEF LookedWith
<1>4. DOMAIN None = {}
  BY DEF None
<1>5. /\ alerts' \in Seq(Alert) /\ Len(alerts') <= MaxAlerts
      /\ \A k \in DOMAIN alerts' :
            \/ alerts'[k].rule \in Fired(hot) /\ alerts'[k].at = now
            \/ \E i \in DOMAIN alerts : alerts'[k] = alerts[i]
  BY <1>1, EventsAfter DEF LookedWith
<1>6. /\ DOMAIN breach' \subseteq DOMAIN rules
      /\ \A r \in DOMAIN breach' : breach'[r] \in [since : 1 .. now, fired : BOOLEAN]
  BY <1>1, WindowsAfter
<1>7. AlertTypes'
  BY <1>2, <1>3, <1>4, <1>5, <1>6 DEF AlertInv, AlertTypes
<1>8. Past'
  BY <1>3, <1>5, EventTimes DEF Past
<1>9. OnePid'
  BY <1>3, <1>4 DEF AlertInv, OnePid
<1>10. Saves'
  <2>1. unsaved' = (unsaved \/ Fired(hot) # {}) /\ saving' = (saving \/ Fired(hot) # {})
    BY <1>1 DEF LookedWith, Evaluate
  <2>2. unsaved' \in BOOLEAN
    BY <2>1
  <2>3. unsaved' => saving'
    BY <2>1 DEF AlertInv, Saves
  <2> QED BY <2>2, <2>3 DEF Saves
<1> QED BY <1>1, <1>7, <1>8, <1>9, <1>10, LookRemembers, LookTells DEF AlertInv

LEMMA AlertInvInductive == AlertInv /\ [AlNext]_alVars => AlertInv'
<1> SUFFICES ASSUME AlertInv, [AlNext]_alVars PROVE AlertInv'
  OBVIOUS
<1>1. CASE UNCHANGED alVars
  BY <1>1 DEF alVars, AlertInv, AlertTypes, Saves, Past, OnePid, WindowsRemember, Remembers,
              EventsTold, Told1, HasFired, CalmSince
<1>2. CASE AlNext
  BY <1>2, ProcessesStep, TimerStep, SampleStep, RulesStep, SavesStep, RestartStep DEF AlNext
<1> QED BY <1>1, <1>2

\* An event is of a breach that lasted, and of one that was not reported before.
LEMMA LookIsRight ==
  ASSUME AlertInv, SampleArrives, NEW r \in RuleIds,
         [rule |-> r, at |-> now] \in Values(alerts') \ Values(alerts)
  PROVE  Sustained(r) /\ Calmed(r)
<1>1. PICK hot \in SUBSET Sampled : LookedWith(hot)
  BY SampleLooks
<1>2. PICK k \in DOMAIN alerts' : alerts'[k] = [rule |-> r, at |-> now]
  BY DEF Values
<1>3. ~\E i \in DOMAIN alerts : alerts'[k] = alerts[i]
  BY <1>2 DEF Values
<1>4. r \in Fired(hot)
  <2>1. alerts'[k].rule \in Fired(hot)
    BY <1>1, <1>3, EventsAfter DEF LookedWith
  <2> QED BY <1>2, <2>1
<1>5. r \in Over(hot) /\ ~HasFired(r) /\ now - breach'[r].since >= rules[r].window
      /\ r \in DOMAIN rules /\ r \in DOMAIN breach'
  BY <1>1, <1>4, WindowsAfter
<1>6. Remembers(r)' /\ rules' = rules /\ edited' = edited
  BY <1>1, <1>5, LookRemembers DEF WindowsRemember, LookedWith
<1>7. Sustained(r)
  BY <1>5, <1>6 DEF Remembers, Sustained, OverFrom
<1>8. Calmed(r)
  <2> SUFFICES ASSUME NEW i \in DOMAIN alerts, alerts[i].rule = r
               PROVE  CalmSince(r, alerts[i].at)
    BY DEF Calmed, CalmSince
  <2>1. Told1(r, alerts[i].at)
    BY <1>5 DEF AlertInv, EventsTold
  <2> QED BY <1>5, <2>1 DEF Told1
<1> QED BY <1>7, <1>8

LEMMA OnlyLooksLook ==
  ASSUME AlertInv, [AlNext]_alVars, NEW p \in Sampled, Len(looked'[p]) > Len(looked[p])
  PROVE  SampleArrives
<1>1. looked[p] \in Seq(Looks) /\ Len(looked[p]) \in Nat /\ Len(<< >>) = 0
  BY DEF AlertInv, AlertTypes
<1>2. looked' # looked /\ looked'[p] # << >>
  BY <1>1
<1> QED BY <1>2, RulesStep, SavesStep, RestartStep DEF AlNext, alVars, Spawned, Ended, MetricsTick

\* A rule fires once for a breach that lasted its window: never for one that did not last,
\* and never again before its process was seen calm or the rule was edited (alerts.ts).
THEOREM OneEventForABreach == AlSpec => OneEventPerBreach
<1> DEFINE OnlyDue == \A r \in RuleIds :
                  /\ \E p \in Sampled : Len(looked'[p]) > Len(looked[p])
                  /\ [rule |-> r, at |-> now] \in Values(alerts') \ Values(alerts)
                  => Sustained(r) /\ Calmed(r)
<1>1. AlInit => AlertInv
  BY AlertInvInit
<1>2. AlertInv /\ [AlNext]_alVars => AlertInv'
  BY AlertInvInductive
<1>3. AlertInv /\ [AlNext]_alVars => [OnlyDue]_alVars
  BY LookIsRight, OnlyLooksLook
<1> QED BY <1>1, <1>2, <1>3, PTL DEF AlSpec, OneEventPerBreach

---------------------------------------------------------------------------------------
(* The parts together. *)

ServicesInv ==
  BridgeInv /\ FileInv /\ ProcInv /\ AlertInv /\ LvInv /\ ViewInv /\ ScanInv

LEMMA ServicesInitially == Init => ServicesInv
BY BridgeInvInductive, InitEstablishes, AlertInvInit, LvInvInit, ViewInvInit, ScanInvInit
   DEF Init, ServicesInv

\* A step is one part's, and the others do not move.
LEMMA OneServiceMoves ==
  [Next]_<<part, bridgeVars, allVars, alVars, lvVars, lwVars, scanVars>>
  => /\ [BridgeNext]_bridgeVars /\ [WatchNext]_allVars /\ [AlNext]_alVars
     /\ [LvNext]_lvVars /\ [LwNext]_lwVars /\ [ScanNext]_scanVars
BY DEF Next

LEMMA ServicesStep ==
  ServicesInv /\ [Next]_<<part, bridgeVars, allVars, alVars, lvVars, lwVars, scanVars>>
  => ServicesInv'
BY OneServiceMoves, BridgeInvInductive, FileStep, ProcStep, AlertInvInductive, LvInvInductive,
   ViewInvInductive, ScanInvInductive
   DEF ServicesInv

\* Every variable of the services stays in its type, whatever the tabs, the editors of a
\* project's file, the timers, the streams and the reads of the disk do.
THEOREM ServicesTypesHold == Spec => []ServicesTypeOK
<1>1. ServicesInv => ServicesTypeOK
  <2>1. BridgeInv => BridgeTypeOK
    BY DEF BridgeInv, BridgeTypeOK, Sound
  <2> QED BY <2>1, InvImplies, AlertInvMeaning, LvInvMeaning, ViewInvMeaning, ScanInvMeaning
          DEF ServicesInv, ServicesTypeOK
<1> QED BY <1>1, ServicesInitially, ServicesStep, PTL DEF Spec

\* What the daemon shows and reports is what happened: its logs keep their lines in order
\* (log-buffer.ts, log-vault.ts), a page that is owed nothing shows the daemon's state
\* (store.ts), and a scan that claims to be complete is (scan.ts).
THEOREM ReportsAreAlwaysTrue == Spec => []ReportsAreTrue
<1>1. ServicesInv => ReportsAreTrue
  BY LvInvMeaning, ViewInvMeaning, ScanInvMeaning DEF ServicesInv, ReportsAreTrue
<1> QED BY <1>1, ServicesInitially, ServicesStep, PTL DEF Spec
=============================================================================
