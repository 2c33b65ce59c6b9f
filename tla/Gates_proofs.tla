----------------------------- MODULE Gates_proofs -----------------------------
(***************************************************************************)
(* Theorems about the doors and the books of the daemon, for every number  *)
(* of devices, requests, chunks, rules, lines and files: the pairing of    *)
(* devices (LocalAuth), the MCP server's registry and the proxied socket   *)
(* (Relays), the canned answers (PromptAnswers), the project file and the  *)
(* autostart that is taken over (ProjectFile), the two logs (Telemetry)    *)
(* and the routes of every call (Routes). Each part has an inductive       *)
(* invariant; module Edges_proofs puts them together.                      *)
(***************************************************************************)
EXTENDS LocalAuth, ProjectFile, Relays, PromptAnswers, Telemetry, Routes, TLAPS,
        FiniteSetTheorems, SequenceTheorems, WellFoundedInduction

---------------------------------------------------------------------------------------
(* Sequences and the sets of their entries: what several parts need of both. *)

Entries(s) == {s[k] : k \in DOMAIN s}
Injective(s) == \A j, k \in DOMAIN s : s[j] = s[k] => j = k

\* A sequence with one entry more.
LEMMA Appended ==
  ASSUME NEW S, NEW s \in Seq(S), NEW e \in S
  PROVE  /\ Append(s, e) \in Seq(S) /\ Len(Append(s, e)) = Len(s) + 1 /\ Len(s) \in Nat
         /\ DOMAIN s = 1 .. Len(s) /\ DOMAIN Append(s, e) = 1 .. Len(s) + 1
         /\ \A k \in DOMAIN s : Append(s, e)[k] = s[k]
         /\ Append(s, e)[Len(s) + 1] = e
         /\ Entries(Append(s, e)) = Entries(s) \cup {e}
<1>1. /\ Append(s, e) \in Seq(S) /\ Len(Append(s, e)) = Len(s) + 1 /\ Len(s) \in Nat
      /\ DOMAIN s = 1 .. Len(s) /\ DOMAIN Append(s, e) = 1 .. Len(s) + 1
      /\ \A k \in DOMAIN s : Append(s, e)[k] = s[k]
      /\ Append(s, e)[Len(s) + 1] = e
  BY AppendProperties, LenProperties
<1>2. Entries(Append(s, e)) = Entries(s) \cup {e}
  <2>1. \A k \in DOMAIN Append(s, e) : k \in DOMAIN s \/ k = Len(s) + 1
    BY <1>1
  <2> QED BY <1>1, <2>1 DEF Entries
<1> QED BY <1>1, <1>2

\* No entry is there twice when a new one is put behind.
LEMMA InjectiveAppended ==
  ASSUME NEW S, NEW s \in Seq(S), NEW e \in S, Injective(s), e \notin Entries(s)
  PROVE  Injective(Append(s, e))
<1>1. \A k \in DOMAIN Append(s, e) : k \in DOMAIN s \/ k = Len(s) + 1
  BY Appended
<1>2. \A k \in DOMAIN s : s[k] # e
  BY DEF Entries
<1> QED BY Appended, <1>1, <1>2 DEF Injective

\* A sequence without its first entry.
LEMMA TailTaken ==
  ASSUME NEW S, NEW s \in Seq(S), s # << >>
  PROVE  /\ Len(s) \in Nat /\ 1 \in DOMAIN s /\ s[1] \in S /\ DOMAIN s = 1 .. Len(s)
         /\ Tail(s) \in Seq(S) /\ DOMAIN Tail(s) = 1 .. Len(s) - 1
         /\ \A k \in DOMAIN Tail(s) : k + 1 \in DOMAIN s /\ Tail(s)[k] = s[k + 1]
         /\ Entries(s) = {s[1]} \cup Entries(Tail(s))
<1>1. /\ Len(s) \in Nat /\ 1 \in DOMAIN s /\ s[1] \in S /\ DOMAIN s = 1 .. Len(s)
      /\ Tail(s) \in Seq(S) /\ DOMAIN Tail(s) = 1 .. Len(s) - 1
      /\ \A k \in DOMAIN Tail(s) : k + 1 \in DOMAIN s /\ Tail(s)[k] = s[k + 1]
  BY HeadTailProperties, EmptySeq, LenProperties
<1>2. \A k \in DOMAIN s : k = 1 \/ (k - 1 \in DOMAIN Tail(s) /\ s[k] = Tail(s)[k - 1])
  BY <1>1
<1>3. Entries(s) \subseteq {s[1]} \cup Entries(Tail(s))
  BY <1>2 DEF Entries
<1>4. {s[1]} \cup Entries(Tail(s)) \subseteq Entries(s)
  BY <1>1 DEF Entries
<1> QED BY <1>1, <1>3, <1>4

\* How often an entry is in a sequence that has none twice.
LEMMA HowOften ==
  ASSUME NEW s, Injective(s), NEW n
  PROVE  Cardinality({k \in DOMAIN s : s[k] = n}) = IF n \in Entries(s) THEN 1 ELSE 0
<1>1. CASE n \in Entries(s)
  <2>1. PICK k \in DOMAIN s : s[k] = n
    BY <1>1 DEF Entries
  <2>2. {j \in DOMAIN s : s[j] = n} = {k}
    BY <2>1 DEF Injective
  <2> QED BY <1>1, <2>2, FS_Singleton
<1>2. CASE n \notin Entries(s)
  <2>1. {j \in DOMAIN s : s[j] = n} = {}
    BY <1>2 DEF Entries
  <2> QED BY <1>2, <2>1, FS_EmptySet
<1> QED BY <1>1, <1>2

\* A set of naturals that is not empty has a least one.
LEMMA FirstExists ==
  ASSUME NEW S \in SUBSET Nat, S # {}
  PROVE  \E x \in S : \A y \in S : x <= y
<1> DEFINE R == {ss \in Nat \X Nat : ss[1] < ss[2]}
<1>1. IsWellFoundedOn(R, Nat)
  BY NatLessThanWellFounded DEF OpToRel
<1>2. \E x \in S : \A y \in S : ~(<<y, x>> \in R)
  <2> HIDE DEF R
  <2> QED BY <1>1, WFMin, Zenon
<1>3. PICK x \in S : \A y \in S : ~(<<y, x>> \in R)
  BY <1>2
<1>4. ASSUME NEW y \in S PROVE x <= y
  <2>1. x \in Nat /\ y \in Nat
    OBVIOUS
  <2>2. ~(<<y, x>> \in R)
    BY <1>3
  <2>3. ~(y < x)
    BY <2>1, <2>2
  <2> QED BY <2>1, <2>3
<1> QED BY <1>4

\* What holds of nothing and passes from each number to the next holds up to n.
LEMMA CountsUp ==
  ASSUME NEW n \in Nat, NEW S, 0 \in S, \A k \in 1 .. n : k - 1 \in S => k \in S
  PROVE  \A k \in 0 .. n : k \in S
<1> DEFINE Bad == {k \in 0 .. n : k \notin S}
<1>1. SUFFICES ASSUME Bad # {} PROVE FALSE
  OBVIOUS
<1>2. \E m \in Bad : \A j \in Bad : m <= j
  <2>1. Bad \in SUBSET Nat
    OBVIOUS
  <2> HIDE DEF Bad
  <2> QED BY <1>1, <2>1, FirstExists
<1>3. PICK m \in Bad : \A j \in Bad : m <= j
  BY <1>2
<1>4. m \in 1 .. n /\ m - 1 \in 0 .. n /\ ~(m <= m - 1)
  OBVIOUS
<1>5. m - 1 \in S
  BY <1>3, <1>4
<1> QED BY <1>3, <1>4, <1>5

---------------------------------------------------------------------------------------
(* LocalAuth. The histories of the model (what was opened, mistyped, paired, minted and spent,
   and when) are tied to the sets the code keeps: a wrong code still in the window is in
   "failures", a paired request is no longer pending, a spent ticket no longer live. *)

\* Where room was made, one more makes at most as many as there may be.
LEMMA RoomIsMade ==
  ASSUME NEW S \in SUBSET Nat, IsFiniteSet(S), NEW most \in Nat \ {0}, NEW n
  PROVE  /\ MakeRoom(S, most) \subseteq S /\ IsFiniteSet(MakeRoom(S, most) \cup {n})
         /\ Cardinality(MakeRoom(S, most) \cup {n}) <= most
<1> DEFINE T == MakeRoom(S, most)
<1>1. T \subseteq S
  BY DEF MakeRoom
<1>2. IsFiniteSet(T) /\ Cardinality(T) \in Nat
  BY <1>1, FS_Subset, FS_CardinalityType
<1>3. Cardinality(T) < most
  <2>1. CASE T = {}
    BY <2>1, FS_EmptySet
  <2>2. CASE T # {}
    <3>1. PICK x \in T : \A y \in T : x <= y
      <4>1. T \in SUBSET Nat
        BY <1>1
      <4> QED BY <2>2, <4>1, FirstExists
    <3>2. T \subseteq {y \in S : y >= x}
      BY <1>1, <3>1
    <3>3. Cardinality({y \in S : y >= x}) < most
      BY <3>1 DEF MakeRoom
    <3>4. IsFiniteSet({y \in S : y >= x})
      BY FS_Subset
    <3>5. Cardinality({y \in S : y >= x}) \in Nat
      BY <3>4, FS_CardinalityType
    <3>6. Cardinality(T) <= Cardinality({y \in S : y >= x})
      BY <3>2, <3>4, FS_Subset
    <3> QED BY <1>2, <3>3, <3>5, <3>6
  <2> QED BY <2>1, <2>2
<1>4. IsFiniteSet(T \cup {n}) /\ Cardinality(T \cup {n}) <= Cardinality(T) + 1
  BY <1>2, FS_AddElement
<1>5. Cardinality(T \cup {n}) \in Nat
  BY <1>4, FS_CardinalityType
<1> QED BY <1>1, <1>2, <1>3, <1>4, <1>5

---------------------------------------------------------------------------------------
Times == Nat \X Nat     \* what is kept of a code: <<the request, when>>

\* The wrong codes of a request, and those of a window of time.
WrongFor(w, r) == {k \in DOMAIN w : w[k][1] = r}
WrongWithin(w, t) == {k \in DOMAIN w : t <= w[k][2] /\ w[k][2] < t + FailureWindow}

PairingTypes ==
  /\ clock \in Nat /\ clock <= MaxClock /\ opened \in Seq(Nat)
  /\ wrong \in Seq(Times) /\ paired \in Seq(Times)
  /\ \A k \in DOMAIN wrong : wrong[k][1] \in DOMAIN opened /\ wrong[k][2] <= clock
  /\ \A k \in DOMAIN paired : paired[k][1] \in DOMAIN opened
  /\ pending \in [DOMAIN pending -> Nat] /\ DOMAIN pending \subseteq DOMAIN opened
  /\ clients \subseteq DOMAIN opened /\ failures \subseteq DOMAIN wrong

\* An open request was never paired, and its wrong codes are counted.
RequestsCounted ==
  /\ Cardinality(DOMAIN pending) <= MaxPending
  /\ \A r \in DOMAIN pending :
       /\ pending[r] < MaxAttempts /\ Cardinality(WrongFor(wrong, r)) = pending[r]
       /\ \A k \in DOMAIN paired : paired[k][1] # r
  /\ \A r \in DOMAIN opened : Cardinality(WrongFor(wrong, r)) <= MaxAttempts
  /\ \A j, k \in DOMAIN paired : paired[j][1] = paired[k][1] => j = k
  /\ \A k \in DOMAIN paired : paired[k][2] < opened[paired[k][1]] + PairingTtl

\* Every wrong code of the last window is held against the next.
FailuresCounted ==
  /\ Cardinality(failures) <= MaxFailures
  /\ \A k \in DOMAIN wrong : clock - wrong[k][2] < FailureWindow => k \in failures
  /\ \A t \in Nat : Cardinality(WrongWithin(wrong, t)) <= MaxFailures

TicketsCounted ==
  /\ minted \in Seq(Nat) /\ spent \in Seq(Times)
  /\ tickets \subseteq DOMAIN minted /\ Cardinality(tickets) <= MaxStreamTickets
  /\ \A k \in DOMAIN spent :
       /\ spent[k][1] \in DOMAIN minted /\ spent[k][1] \notin tickets
       /\ spent[k][2] < minted[spent[k][1]] + TicketTtl
  /\ \A j, k \in DOMAIN spent : spent[j][1] = spent[k][1] => j = k

CookieTypes == cookie \in {"none", "old", "new"} /\ leaving \in {"no", "read", "done"}

AuthInv == PairingTypes /\ RequestsCounted /\ FailuresCounted /\ TicketsCounted /\ CookieTypes

\* A daemon that starts has nothing pending and nothing spent.
LEMMA AuthInvInit == AuthInit => AuthInv
<1> SUFFICES ASSUME AuthInit PROVE AuthInv
  OBVIOUS
<1>0. MaxClock \in Nat
  BY LocalAuthAssumption
<1>1. << >> \in Seq(Nat) /\ << >> \in Seq(Times) /\ DOMAIN << >> = {}
  BY EmptySeq
<1>2. WrongFor(<< >>, 0) = {} /\ \A t : WrongWithin(<< >>, t) = {}
  BY <1>1 DEF WrongFor, WrongWithin
<1>3. PairingTypes
  BY <1>0, <1>1 DEF AuthInit, PairingTypes
<1>4. RequestsCounted
  BY <1>1, FS_EmptySet, LocalAuthAssumption DEF AuthInit, RequestsCounted
<1>5. FailuresCounted
  BY <1>1, <1>2, FS_EmptySet, LocalAuthAssumption DEF AuthInit, FailuresCounted
<1>6. TicketsCounted
  BY <1>1, FS_EmptySet, LocalAuthAssumption DEF AuthInit, TicketsCounted
<1> QED BY <1>3, <1>4, <1>5, <1>6 DEF AuthInv, AuthInit, CookieTypes

\* The entries of the histories are finitely many.
LEMMA AuthFinite ==
  ASSUME PairingTypes
  PROVE  /\ IsFiniteSet(DOMAIN opened) /\ IsFiniteSet(DOMAIN pending) /\ IsFiniteSet(failures)
         /\ IsFiniteSet(DOMAIN wrong) /\ DOMAIN opened \subseteq Nat /\ DOMAIN wrong \subseteq Nat
         /\ \A r : IsFiniteSet(WrongFor(wrong, r)) /\ Cardinality(WrongFor(wrong, r)) \in Nat
         /\ \A t : IsFiniteSet(WrongWithin(wrong, t))
                   /\ Cardinality(WrongWithin(wrong, t)) \in Nat
<1>1. /\ DOMAIN opened = 1 .. Len(opened) /\ Len(opened) \in Nat
      /\ DOMAIN wrong = 1 .. Len(wrong) /\ Len(wrong) \in Nat
  BY LenProperties DEF PairingTypes
<1>2. IsFiniteSet(DOMAIN opened) /\ IsFiniteSet(DOMAIN wrong)
  BY <1>1, FS_Interval
<1>3. IsFiniteSet(DOMAIN pending)
  BY <1>2, FS_Subset DEF PairingTypes
<1>4. IsFiniteSet(failures)
  BY <1>2, FS_Subset DEF PairingTypes
<1>5. \A r : WrongFor(wrong, r) \subseteq DOMAIN wrong /\ WrongWithin(wrong, r) \subseteq DOMAIN wrong
  BY DEF WrongFor, WrongWithin
<1>6. \A r : IsFiniteSet(WrongFor(wrong, r)) /\ IsFiniteSet(WrongWithin(wrong, r))
  BY <1>2, <1>5, FS_Subset
<1> QED BY <1>1, <1>2, <1>3, <1>4, <1>6, FS_CardinalityType

\* The clock only moves entries out of their windows.
LEMMA TickKeeps == AuthInv /\ AuthTick => AuthInv'
<1> SUFFICES ASSUME AuthInv, AuthTick PROVE AuthInv'
  OBVIOUS
<1>0. MaxClock \in Nat
  BY LocalAuthAssumption
<1>1. clock' = clock + 1 /\ clock < MaxClock /\ clock \in Nat
      /\ UNCHANGED <<pending, failures, clients, tickets, cookie, leaving, opened, wrong, paired,
                   minted, spent, overtaken>>
  BY DEF AuthTick, AuthInv, PairingTypes
<1>2. \A k \in DOMAIN wrong : wrong[k] \in Nat \X Nat
  BY DEF AuthInv, PairingTypes, Times
<1>3. PairingTypes'
  BY <1>0, <1>1, <1>2 DEF AuthInv, PairingTypes
<1>4. RequestsCounted' /\ TicketsCounted' /\ CookieTypes'
  BY <1>1 DEF AuthInv, RequestsCounted, TicketsCounted, CookieTypes
<1>5. FailuresCounted'
  <2>1. ASSUME NEW k \in DOMAIN wrong, (clock + 1) - wrong[k][2] < FailureWindow
        PROVE  clock - wrong[k][2] < FailureWindow
    <3>1. wrong[k][2] \in Nat /\ FailureWindow \in Nat
      BY <1>2, LocalAuthAssumption
    <3> QED BY <1>1, <2>1, <3>1
  <2>2. \A k \in DOMAIN wrong : clock' - wrong[k][2] < FailureWindow => k \in failures
    <3>1. clock' = clock + 1
      BY <1>1
    <3>2. \A k \in DOMAIN wrong : clock - wrong[k][2] < FailureWindow => k \in failures
      BY DEF AuthInv, FailuresCounted
    <3> QED BY <2>1, <3>1, <3>2
  <2>3. \A t \in Nat : Cardinality(WrongWithin(wrong, t)) <= MaxFailures
    BY DEF AuthInv, FailuresCounted
  <2>4. Cardinality(failures) <= MaxFailures
    BY DEF AuthInv, FailuresCounted
  <2>5. wrong' = wrong /\ failures' = failures
    BY <1>1
  <2> QED BY <2>2, <2>3, <2>4, <2>5 DEF FailuresCounted
<1> QED BY <1>3, <1>4, <1>5 DEF AuthInv

\* Pruning drops nothing that counts.
LEMMA Pruned ==
  ASSUME AuthInv
  PROVE  /\ OpenNow \subseteq DOMAIN pending /\ IsFiniteSet(OpenNow)
         /\ \A S \in SUBSET OpenNow : IsFiniteSet(S) /\ Cardinality(S) <= MaxPending
         /\ FailedNow \subseteq failures /\ IsFiniteSet(FailedNow)
         /\ Cardinality(FailedNow) \in Nat /\ Cardinality(FailedNow) <= MaxFailures
         /\ \A k \in DOMAIN wrong : clock - wrong[k][2] < FailureWindow => k \in FailedNow
<1>1. OpenNow \subseteq DOMAIN pending /\ FailedNow \subseteq failures
  BY DEF OpenNow, FailedNow
<1>2. IsFiniteSet(DOMAIN pending) /\ IsFiniteSet(failures)
  BY AuthFinite DEF AuthInv
<1>3. MaxPending \in Nat /\ MaxFailures \in Nat
  BY LocalAuthAssumption
<1>4. ASSUME NEW S \in SUBSET OpenNow PROVE IsFiniteSet(S) /\ Cardinality(S) <= MaxPending
  <2>1. IsFiniteSet(S) /\ Cardinality(S) <= Cardinality(DOMAIN pending)
    BY <1>1, <1>2, FS_Subset
  <2>2. Cardinality(DOMAIN pending) \in Nat /\ Cardinality(S) \in Nat
    BY <1>2, <2>1, FS_CardinalityType
  <2> QED BY <1>3, <2>1, <2>2 DEF AuthInv, RequestsCounted
<1>5. IsFiniteSet(FailedNow) /\ Cardinality(FailedNow) <= Cardinality(failures)
  BY <1>1, <1>2, FS_Subset
<1>6. Cardinality(FailedNow) \in Nat /\ Cardinality(failures) \in Nat
  BY <1>2, <1>5, FS_CardinalityType
<1>7. Cardinality(FailedNow) <= MaxFailures
  BY <1>3, <1>5, <1>6 DEF AuthInv, FailuresCounted
<1>8. \A k \in DOMAIN wrong : clock - wrong[k][2] < FailureWindow => k \in FailedNow
  BY DEF AuthInv, FailuresCounted, FailedNow
<1> QED BY <1>1, <1>4, <1>5, <1>6, <1>7, <1>8

\* startPairing: what is pending is pruned, and a request is put behind it.
LEMMA StartKeeps == AuthInv /\ StartPairing => AuthInv'
<1> SUFFICES ASSUME AuthInv, StartPairing PROVE AuthInv'
  OBVIOUS
<1> DEFINE room == MakeRoom(OpenNow, MaxPending)  n == Len(opened) + 1
<1>1. /\ opened' = Append(opened, clock) /\ failures' = FailedNow
      /\ pending' = [r \in room \cup {n} |-> IF r \in OpenNow THEN pending[r] ELSE 0]
      /\ UNCHANGED <<clock, clients, wrong, paired>>
      /\ UNCHANGED <<tickets, cookie, leaving, minted, spent>>
  BY DEF StartPairing
<1>2. /\ opened \in Seq(Nat) /\ clock \in Nat /\ wrong \in Seq(Times) /\ paired \in Seq(Times)
      /\ pending \in [DOMAIN pending -> Nat] /\ DOMAIN pending \subseteq DOMAIN opened
  BY DEF AuthInv, PairingTypes
<1>3. /\ opened' \in Seq(Nat) /\ DOMAIN opened = 1 .. Len(opened) /\ Len(opened) \in Nat
      /\ DOMAIN opened' = 1 .. n /\ \A r \in DOMAIN opened : opened'[r] = opened[r]
  BY <1>1, <1>2, Appended
<1>4. room \subseteq OpenNow /\ Cardinality(room \cup {n}) <= MaxPending
  <2>1. OpenNow \in SUBSET Nat /\ IsFiniteSet(OpenNow)
    BY <1>2, Pruned, AuthFinite DEF AuthInv
  <2>2. MaxPending \in Nat \ {0}
    BY LocalAuthAssumption
  <2> QED BY <2>1, <2>2, RoomIsMade
<1>5. /\ DOMAIN pending' = room \cup {n} /\ n \in DOMAIN opened' /\ n \notin DOMAIN opened
      /\ DOMAIN opened \subseteq DOMAIN opened'
  BY <1>1, <1>3
<1>6. \A r \in room : r \in DOMAIN pending /\ r \in DOMAIN opened /\ pending'[r] = pending[r]
  BY <1>1, <1>2, <1>4, Pruned
<1>7. pending'[n] = 0
  BY <1>1, <1>2, <1>5, Pruned
<1> HIDE DEF room, n
<1>8. pending' \in [DOMAIN pending' -> Nat]
  <2>1. \A r \in room \cup {n} : (IF r \in OpenNow THEN pending[r] ELSE 0) \in Nat
    BY <1>2, Pruned
  <2> QED BY <1>1, <2>1
<1>9. PairingTypes'
  <2>1. DOMAIN pending' \subseteq DOMAIN opened'
    BY <1>5, <1>6
  <2>2. failures' \subseteq DOMAIN wrong
    BY <1>1, Pruned DEF AuthInv, PairingTypes
  <2> QED BY <1>1, <1>2, <1>3, <1>5, <1>8, <2>1, <2>2 DEF AuthInv, PairingTypes
<1>10. WrongFor(wrong, n) = {} /\ \A k \in DOMAIN paired : paired[k][1] # n
  BY <1>5 DEF WrongFor, AuthInv, PairingTypes
<1>11. RequestsCounted'
  <2>1. MaxAttempts \in Nat \ {0}
    BY LocalAuthAssumption
  <2>2. Cardinality(WrongFor(wrong, n)) = 0
    BY <1>10, FS_EmptySet
  <2>3. ASSUME NEW r \in DOMAIN pending'
        PROVE  /\ pending'[r] < MaxAttempts /\ Cardinality(WrongFor(wrong, r)) = pending'[r]
               /\ \A k \in DOMAIN paired : paired[k][1] # r
    <3>1. CASE r = n
      BY <1>7, <1>10, <2>1, <2>2, <3>1
    <3>2. CASE r # n
      BY <1>5, <1>6, <3>2 DEF AuthInv, RequestsCounted
    <3> QED BY <3>1, <3>2
  <2>4. \A r \in DOMAIN opened' : Cardinality(WrongFor(wrong, r)) <= MaxAttempts
    <3>1. \A r \in DOMAIN opened' : r = n \/ r \in DOMAIN opened
      BY <1>3 DEF n
    <3> QED BY <2>1, <2>2, <3>1 DEF AuthInv, RequestsCounted
  <2>5. \A k \in DOMAIN paired : paired[k][2] < opened'[paired[k][1]] + PairingTtl
    BY <1>3 DEF AuthInv, PairingTypes, RequestsCounted
  <2>6. \A j, k \in DOMAIN paired : paired[j][1] = paired[k][1] => j = k
    BY DEF AuthInv, RequestsCounted
  <2>7. Cardinality(DOMAIN pending') <= MaxPending
    BY <1>4, <1>5
  <2> QED BY <1>1, <2>3, <2>4, <2>5, <2>6, <2>7 DEF RequestsCounted
<1>12. FailuresCounted'
  BY <1>1, Pruned DEF AuthInv, FailuresCounted
<1>13. TicketsCounted' /\ CookieTypes'
  BY <1>1 DEF AuthInv, TicketsCounted, CookieTypes
<1> QED BY <1>9, <1>11, <1>12, <1>13 DEF AuthInv

\* What stays open after pruning is as it was.
LEMMA StillOpen ==
  ASSUME AuthInv, NEW left \in SUBSET OpenNow, UNCHANGED <<opened, wrong>>,
         pending' = [r \in left |-> pending[r]]
  PROVE  /\ DOMAIN pending' = left /\ pending' \in [DOMAIN pending' -> Nat]
         /\ DOMAIN pending' \subseteq DOMAIN opened /\ Cardinality(DOMAIN pending') <= MaxPending
         /\ \A r \in left : /\ pending'[r] < MaxAttempts
                            /\ Cardinality(WrongFor(wrong, r)) = pending'[r]
                            /\ \A k \in DOMAIN paired : paired[k][1] # r
<1>1. DOMAIN pending' = left /\ \A r \in left : pending'[r] = pending[r] /\ r \in DOMAIN pending
  BY Pruned
<1>2. pending \in [DOMAIN pending -> Nat] /\ DOMAIN pending \subseteq DOMAIN opened
  BY DEF AuthInv, PairingTypes
<1>3. pending' \in [DOMAIN pending' -> Nat]
  BY <1>1, <1>2
<1> QED BY <1>1, <1>2, <1>3, Pruned DEF AuthInv, RequestsCounted

\* A code for a request that is not pending, or while too many codes were wrong.
LEMMA RefusesKeeps ==
  ASSUME AuthInv, NEW req, Refuses(req), UNCHANGED <<clock, opened>>
  PROVE  (PairingTypes /\ RequestsCounted /\ FailuresCounted)'
<1>1. /\ pending' = [r \in OpenNow |-> pending[r]] /\ failures' = FailedNow
      /\ UNCHANGED <<clock, opened, clients, wrong, paired>>
  BY DEF Refuses, Keeping
<1>2. /\ DOMAIN pending' = OpenNow /\ pending' \in [DOMAIN pending' -> Nat]
      /\ DOMAIN pending' \subseteq DOMAIN opened /\ Cardinality(DOMAIN pending') <= MaxPending
      /\ \A r \in OpenNow : /\ pending'[r] < MaxAttempts
                            /\ Cardinality(WrongFor(wrong, r)) = pending'[r]
                            /\ \A k \in DOMAIN paired : paired[k][1] # r
  BY <1>1, StillOpen
<1>3. failures' \subseteq DOMAIN wrong
  BY <1>1, Pruned DEF AuthInv, PairingTypes
<1>4. PairingTypes'
  BY <1>1, <1>2, <1>3 DEF AuthInv, PairingTypes
<1>5. RequestsCounted'
  BY <1>1, <1>2 DEF AuthInv, RequestsCounted
<1>6. FailuresCounted'
  BY <1>1, Pruned DEF AuthInv, FailuresCounted
<1> QED BY <1>4, <1>5, <1>6

\* The right code: the request is spent and its client is in.
LEMMA PairsKeeps ==
  ASSUME AuthInv, NEW req, Pairs(req), UNCHANGED <<clock, opened>>
  PROVE  (PairingTypes /\ RequestsCounted /\ FailuresCounted)'
<1> DEFINE left == OpenNow \ {req}  e == <<req, clock>>
<1>1. /\ pending' = [r \in left |-> pending[r]] /\ failures' = FailedNow
      /\ UNCHANGED <<clock, opened, wrong>> /\ clients' = clients \cup {req}
      /\ paired' = Append(paired, e) /\ req \in OpenNow
  BY DEF Pairs, Keeping
<1>2. /\ DOMAIN pending' = left /\ pending' \in [DOMAIN pending' -> Nat]
      /\ DOMAIN pending' \subseteq DOMAIN opened /\ Cardinality(DOMAIN pending') <= MaxPending
      /\ \A r \in left : /\ pending'[r] < MaxAttempts
                            /\ Cardinality(WrongFor(wrong, r)) = pending'[r]
                            /\ \A k \in DOMAIN paired : paired[k][1] # r
  BY <1>1, StillOpen
<1>3. failures' \subseteq DOMAIN wrong
  BY <1>1, Pruned DEF AuthInv, PairingTypes
<1>4. /\ req \in DOMAIN pending /\ req \in DOMAIN opened /\ req \in Nat /\ clock \in Nat
      /\ e \in Times /\ paired \in Seq(Times)
      /\ \A k \in DOMAIN paired : paired[k][1] # req
  <2>1. req \in DOMAIN pending /\ req \in DOMAIN opened /\ clock \in Nat /\ paired \in Seq(Times)
    BY <1>1, Pruned DEF AuthInv, PairingTypes
  <2>2. req \in Nat
    BY <2>1, AuthFinite DEF AuthInv
  <2> QED BY <2>1, <2>2 DEF AuthInv, RequestsCounted, Times
<1>5. /\ paired' \in Seq(Times) /\ Len(paired) \in Nat
      /\ DOMAIN paired = 1 .. Len(paired) /\ DOMAIN paired' = 1 .. Len(paired) + 1
      /\ \A k \in DOMAIN paired : paired'[k] = paired[k]
      /\ paired'[Len(paired) + 1] = e
  BY <1>1, <1>4, Appended
<1>6. e[1] = req /\ e[2] = clock
  OBVIOUS
<1> HIDE DEF left, e
<1>7. \A k \in DOMAIN paired' : k \in DOMAIN paired \/ k = Len(paired) + 1
  BY <1>5
<1>8. PairingTypes'
  <2>1. \A k \in DOMAIN paired' : paired'[k][1] \in DOMAIN opened
    BY <1>4, <1>5, <1>6, <1>7 DEF AuthInv, PairingTypes
  <2> QED BY <1>1, <1>2, <1>3, <1>4, <1>5, <2>1 DEF AuthInv, PairingTypes
<1>9. RequestsCounted'
  <2>1. ASSUME NEW r \in left PROVE \A k \in DOMAIN paired' : paired'[k][1] # r
    <3>1. r # req
      BY DEF left
    <3> QED BY <1>2, <1>5, <1>6, <1>7, <3>1
  <2>2. \A j, k \in DOMAIN paired' : paired'[j][1] = paired'[k][1] => j = k
    BY <1>4, <1>5, <1>6, <1>7 DEF AuthInv, RequestsCounted
  <2>3. \A k \in DOMAIN paired' : paired'[k][2] < opened[paired'[k][1]] + PairingTtl
    <3>1. clock < opened[req] + PairingTtl
      <4>1. opened[req] \in Nat
        BY <1>4 DEF AuthInv, PairingTypes
      <4>2. opened[req] + PairingTtl > clock
        BY <1>1 DEF OpenNow
      <4> QED BY <1>4, <4>1, <4>2, LocalAuthAssumption
    <3> QED BY <1>5, <1>6, <1>7, <3>1 DEF AuthInv, RequestsCounted
  <2>4. \A r \in DOMAIN opened : Cardinality(WrongFor(wrong, r)) <= MaxAttempts
    BY DEF AuthInv, RequestsCounted
  <2> QED BY <1>1, <1>2, <2>1, <2>2, <2>3, <2>4 DEF RequestsCounted
<1>10. FailuresCounted'
  BY <1>1, Pruned DEF AuthInv, FailuresCounted
<1> QED BY <1>8, <1>9, <1>10

\* A wrong code is counted for its request and in the window.
LEMMA MistypesKeeps ==
  ASSUME AuthInv, NEW req, Mistypes(req), UNCHANGED <<clock, opened>>
  PROVE  (PairingTypes /\ RequestsCounted /\ FailuresCounted)'
<1> DEFINE e == <<req, clock>>  n == Len(wrong) + 1
<1>1. /\ pending' = [r \in Guessed(req) |-> IF r = req THEN pending[r] + 1 ELSE pending[r]]
      /\ failures' = FailedNow \cup {n} /\ Cardinality(FailedNow) < MaxFailures
      /\ UNCHANGED <<clock, opened, clients, paired>>
      /\ wrong' = Append(wrong, e) /\ req \in OpenNow
  BY DEF Mistypes
<1>2. /\ req \in DOMAIN pending /\ req \in DOMAIN opened /\ clock \in Nat
      /\ wrong \in Seq(Times) /\ pending \in [DOMAIN pending -> Nat]
      /\ DOMAIN pending \subseteq DOMAIN opened
  BY <1>1, Pruned DEF AuthInv, PairingTypes
<1>3. req \in Nat
  BY <1>2, AuthFinite DEF AuthInv
<1>4. e \in Times
  BY <1>2, <1>3 DEF Times
<1>5. /\ wrong' \in Seq(Times) /\ Len(wrong) \in Nat
      /\ DOMAIN wrong = 1 .. Len(wrong) /\ DOMAIN wrong' = 1 .. Len(wrong) + 1
      /\ \A k \in DOMAIN wrong : wrong'[k] = wrong[k]
      /\ wrong'[Len(wrong) + 1] = e
  BY <1>1, <1>2, <1>4, Appended
<1>6. e[1] = req /\ e[2] = clock
  OBVIOUS
<1>7. /\ \A k \in DOMAIN wrong' : k \in DOMAIN wrong \/ k = n
      /\ n \in DOMAIN wrong' /\ n \notin DOMAIN wrong /\ wrong'[n] = e
  BY <1>5
<1> HIDE DEF e, n
<1>8. Guessed(req) \subseteq OpenNow /\ (req \in Guessed(req) => pending[req] + 1 < MaxAttempts)
  <2>1. pending[req] \in Nat /\ MaxAttempts \in Nat
    BY <1>2, LocalAuthAssumption
  <2> QED BY <2>1 DEF Guessed
<1>9. /\ DOMAIN pending' = Guessed(req) /\ DOMAIN pending' \subseteq DOMAIN opened
      /\ \A r \in Guessed(req) : r \in DOMAIN pending /\
            pending'[r] = IF r = req THEN pending[r] + 1 ELSE pending[r]
  BY <1>1, <1>2, <1>8, Pruned
<1>10. pending' \in [DOMAIN pending' -> Nat]
  <2>1. \A r \in Guessed(req) : (IF r = req THEN pending[r] + 1 ELSE pending[r]) \in Nat
    BY <1>2, <1>9
  <2> QED BY <1>1, <2>1
<1>11. PairingTypes'
  <2>1. \A k \in DOMAIN wrong' : wrong'[k][1] \in DOMAIN opened /\ wrong'[k][2] <= clock
    <3>1. ASSUME NEW k \in DOMAIN wrong'
          PROVE  wrong'[k][1] \in DOMAIN opened /\ wrong'[k][2] <= clock
      <4>1. CASE k = n
        BY <1>2, <1>6, <1>7, <4>1
      <4>2. CASE k # n
        <5>1. k \in DOMAIN wrong /\ wrong'[k] = wrong[k]
          BY <1>5, <1>7, <4>2
        <5> QED BY <5>1 DEF AuthInv, PairingTypes
      <4> QED BY <4>1, <4>2
    <3> QED BY <3>1
  <2>2. failures' \subseteq DOMAIN wrong'
    BY <1>1, <1>5, <1>7, Pruned DEF AuthInv, PairingTypes
  <2> QED BY <1>1, <1>5, <1>9, <1>10, <2>1, <2>2 DEF AuthInv, PairingTypes
<1>12. \A r : WrongFor(wrong', r) = IF r = req THEN WrongFor(wrong, r) \cup {n}
                                    ELSE WrongFor(wrong, r)
  BY <1>5, <1>6, <1>7 DEF WrongFor
<1>13. /\ \A r : r # req => Cardinality(WrongFor(wrong', r)) = Cardinality(WrongFor(wrong, r))
       /\ Cardinality(WrongFor(wrong', req)) = Cardinality(WrongFor(wrong, req)) + 1
  <2>1. n \notin WrongFor(wrong, req) /\ IsFiniteSet(WrongFor(wrong, req))
    BY <1>7, AuthFinite DEF WrongFor, AuthInv
  <2>2. Cardinality(WrongFor(wrong, req) \cup {n}) = Cardinality(WrongFor(wrong, req)) + 1
    BY <2>1, FS_AddElement
  <2> QED BY <1>12, <2>2
<1>14. RequestsCounted'
  <2>1. pending[req] \in Nat /\ pending[req] < MaxAttempts /\ MaxAttempts \in Nat
        /\ Cardinality(WrongFor(wrong, req)) = pending[req]
    BY <1>2, LocalAuthAssumption DEF AuthInv, RequestsCounted
  <2>2. ASSUME NEW r \in DOMAIN pending'
        PROVE  /\ pending'[r] < MaxAttempts /\ Cardinality(WrongFor(wrong', r)) = pending'[r]
               /\ \A k \in DOMAIN paired : paired[k][1] # r
    <3>1. CASE r = req
      BY <1>2, <1>8, <1>9, <1>13, <2>1, <3>1 DEF AuthInv, RequestsCounted
    <3>2. CASE r # req
      BY <1>9, <1>13, <3>2 DEF AuthInv, RequestsCounted
    <3> QED BY <3>1, <3>2
  <2>3. \A r \in DOMAIN opened : Cardinality(WrongFor(wrong', r)) <= MaxAttempts
    BY <1>13, <2>1 DEF AuthInv, RequestsCounted
  <2>4. Cardinality(DOMAIN pending') <= MaxPending
    BY <1>8, <1>9, Pruned
  <2> QED BY <1>1, <2>2, <2>3, <2>4 DEF AuthInv, RequestsCounted
<1>15. FailuresCounted'
  <2>1. MaxFailures \in Nat /\ FailureWindow \in Nat
    BY LocalAuthAssumption
  <2>2. Cardinality(FailedNow) + 1 <= MaxFailures /\ Cardinality(FailedNow) \in Nat
        /\ IsFiniteSet(FailedNow)
    BY <1>1, <2>1, Pruned
  <2>3. Cardinality(failures') <= MaxFailures
    <3>1. /\ Cardinality(FailedNow \cup {n}) \in {Cardinality(FailedNow), Cardinality(FailedNow) + 1}
      BY <2>2, FS_AddElement
    <3> QED BY <1>1, <2>1, <2>2, <3>1
  <2>4. \A k \in DOMAIN wrong' : clock - wrong'[k][2] < FailureWindow => k \in failures'
    BY <1>1, <1>5, <1>7, Pruned
  <2>5. ASSUME NEW t \in Nat PROVE Cardinality(WrongWithin(wrong', t)) <= MaxFailures
    <3>1. CASE t <= clock /\ clock < t + FailureWindow
      <4>1. WrongWithin(wrong, t) \subseteq FailedNow
        <5>1. ASSUME NEW k \in WrongWithin(wrong, t) PROVE k \in FailedNow
          <6>1. k \in DOMAIN wrong /\ wrong[k] \in Nat \X Nat /\ t <= wrong[k][2]
            BY <1>2 DEF WrongWithin, Times
          <6>2. clock - wrong[k][2] < FailureWindow
            BY <1>2, <2>1, <3>1, <6>1
          <6> QED BY <6>1, <6>2, Pruned
        <5> QED BY <5>1
      <4>2. WrongWithin(wrong', t) \subseteq FailedNow \cup {n}
        BY <1>5, <1>7, <4>1 DEF WrongWithin
      <4>3. IsFiniteSet(FailedNow \cup {n})
        BY <2>2, FS_AddElement
      <4>4. Cardinality(WrongWithin(wrong', t)) <= Cardinality(FailedNow \cup {n})
            /\ IsFiniteSet(WrongWithin(wrong', t))
        BY <4>2, <4>3, FS_Subset
      <4>5. Cardinality(WrongWithin(wrong', t)) \in Nat /\ Cardinality(FailedNow \cup {n}) \in Nat
        BY <4>3, <4>4, FS_CardinalityType
      <4>6. Cardinality(FailedNow \cup {n}) <= MaxFailures
        BY <1>1, <2>3
      <4> QED BY <2>1, <4>4, <4>5, <4>6
    <3>2. CASE ~(t <= clock /\ clock < t + FailureWindow)
      <4>1. WrongWithin(wrong', t) = WrongWithin(wrong, t)
        BY <1>5, <1>6, <1>7, <3>2 DEF WrongWithin
      <4> QED BY <4>1 DEF AuthInv, FailuresCounted
    <3> QED BY <3>1, <3>2
  <2> QED BY <1>1, <2>3, <2>4, <2>5 DEF FailuresCounted
<1> QED BY <1>11, <1>14, <1>15

\* mintStreamTicket: room is made by dropping the oldest live tickets.
LEMMA MintKeeps == AuthInv /\ MintStreamTicket => AuthInv'
<1> SUFFICES ASSUME AuthInv, MintStreamTicket PROVE AuthInv'
  OBVIOUS
<1> DEFINE live == {t \in tickets : Lives(t)}  room == MakeRoom(live, MaxStreamTickets)
           n == Len(minted) + 1
<1>1. /\ minted' = Append(minted, clock) /\ tickets' = room \cup {n}
      /\ UNCHANGED <<clock, pending, failures, clients, cookie, leaving, opened, wrong, paired,
                     spent>>
  BY DEF MintStreamTicket
<1>2. minted \in Seq(Nat) /\ clock \in Nat /\ tickets \subseteq DOMAIN minted
  BY DEF AuthInv, PairingTypes, TicketsCounted
<1>3. /\ minted' \in Seq(Nat) /\ Len(minted) \in Nat /\ DOMAIN minted = 1 .. Len(minted)
      /\ DOMAIN minted' = 1 .. n /\ \A r \in DOMAIN minted : minted'[r] = minted[r]
  BY <1>1, <1>2, Appended
<1>4. room \subseteq live /\ Cardinality(room \cup {n}) <= MaxStreamTickets
  <2>1. live \in SUBSET Nat
    BY <1>2, <1>3
  <2>2. IsFiniteSet(live)
    <3>1. IsFiniteSet(DOMAIN minted)
      BY <1>3, FS_Interval
    <3>2. live \subseteq DOMAIN minted
      BY <1>2
    <3> QED BY <3>1, <3>2, FS_Subset
  <2>3. MaxStreamTickets \in Nat \ {0}
    BY LocalAuthAssumption
  <2> QED BY <2>1, <2>2, <2>3, RoomIsMade
<1>5. live \subseteq tickets
  OBVIOUS
<1> HIDE DEF live, room, n
<1>6. n \in DOMAIN minted' /\ n \notin DOMAIN minted /\ DOMAIN minted \subseteq DOMAIN minted'
  BY <1>3 DEF n
<1>7. TicketsCounted'
  <2>1. tickets' \subseteq DOMAIN minted'
    BY <1>1, <1>2, <1>4, <1>5, <1>6
  <2>2. ASSUME NEW k \in DOMAIN spent
        PROVE  /\ spent[k][1] \in DOMAIN minted' /\ spent[k][1] \notin tickets'
               /\ spent[k][2] < minted'[spent[k][1]] + TicketTtl
    BY <1>1, <1>3, <1>4, <1>5, <1>6 DEF AuthInv, TicketsCounted
  <2> QED BY <1>1, <1>3, <1>4, <2>1, <2>2 DEF AuthInv, TicketsCounted
<1>8. PairingTypes' /\ RequestsCounted' /\ FailuresCounted' /\ CookieTypes'
  BY <1>1 DEF AuthInv, PairingTypes, RequestsCounted, FailuresCounted, CookieTypes
<1> QED BY <1>7, <1>8 DEF AuthInv

\* consumeStreamTicket: a ticket is gone when it is looked up, expired or not.
LEMMA ConsumeKeeps ==
  ASSUME AuthInv, NEW t \in DOMAIN minted, ConsumeStreamTicket(t) PROVE AuthInv'
<1> DEFINE e == <<t, clock>>
<1>1. /\ t \in tickets /\ tickets' = tickets \ {t}
      /\ spent' = IF Lives(t) THEN Append(spent, e) ELSE spent
      /\ UNCHANGED <<clock, pending, failures, clients, cookie, leaving, opened, wrong, paired,
                     minted>>
  BY DEF ConsumeStreamTicket, LetIn
<1>2. /\ minted \in Seq(Nat) /\ clock \in Nat /\ tickets \subseteq DOMAIN minted
      /\ spent \in Seq(Times)
  BY DEF AuthInv, PairingTypes, TicketsCounted
<1>3. t \in Nat /\ e \in Times /\ IsFiniteSet(tickets) /\ minted[t] \in Nat
  <2>1. Len(minted) \in Nat /\ DOMAIN minted = 1 .. Len(minted)
    BY <1>2, LenProperties
  <2>2. IsFiniteSet(DOMAIN minted)
    BY <2>1, FS_Interval
  <2>3. minted[t] \in Nat
    BY <1>2
  <2> QED BY <1>2, <2>1, <2>2, <2>3, FS_Subset DEF Times
<1>4. Cardinality(tickets') <= MaxStreamTickets
  <2>1. Cardinality(tickets') = Cardinality(tickets) - 1 /\ Cardinality(tickets) \in Nat
    BY <1>1, <1>3, FS_RemoveElement, FS_CardinalityType
  <2>2. MaxStreamTickets \in Nat /\ Cardinality(tickets) <= MaxStreamTickets
    BY LocalAuthAssumption DEF AuthInv, TicketsCounted
  <2> QED BY <2>1, <2>2
<1>5. e[1] = t /\ e[2] = clock
  OBVIOUS
<1> HIDE DEF e
<1>6. TicketsCounted'
  <2>1. CASE ~Lives(t)
    BY <1>1, <1>4, <2>1 DEF AuthInv, TicketsCounted
  <2>2. CASE Lives(t)
    <3>1. /\ spent' \in Seq(Times) /\ Len(spent) \in Nat
          /\ DOMAIN spent = 1 .. Len(spent) /\ DOMAIN spent' = 1 .. Len(spent) + 1
          /\ \A k \in DOMAIN spent : spent'[k] = spent[k]
          /\ spent'[Len(spent) + 1] = e
      BY <1>1, <1>2, <1>3, <2>2, Appended
    <3>2. \A k \in DOMAIN spent' : k \in DOMAIN spent \/ k = Len(spent) + 1
      BY <3>1
    <3>3. clock < minted[t] + TicketTtl
      <4>1. minted[t] + TicketTtl > clock
        BY <2>2 DEF Lives
      <4> QED BY <1>2, <1>3, <4>1, LocalAuthAssumption
    <3>4. \A k \in DOMAIN spent' :
            /\ spent'[k][1] \in DOMAIN minted /\ spent'[k][1] \notin tickets'
            /\ spent'[k][2] < minted[spent'[k][1]] + TicketTtl
      BY <1>1, <1>2, <1>5, <3>1, <3>2, <3>3 DEF AuthInv, TicketsCounted
    <3>5. \A j, k \in DOMAIN spent' : spent'[j][1] = spent'[k][1] => j = k
      BY <1>1, <1>5, <3>1, <3>2 DEF AuthInv, TicketsCounted
    <3> QED BY <1>1, <1>2, <1>4, <3>1, <3>4, <3>5 DEF TicketsCounted
  <2> QED BY <2>1, <2>2
<1>7. PairingTypes' /\ RequestsCounted' /\ FailuresCounted' /\ CookieTypes'
  BY <1>1 DEF AuthInv, PairingTypes, RequestsCounted, FailuresCounted, CookieTypes
<1> QED BY <1>6, <1>7 DEF AuthInv

\* Whatever happens to pairing, tickets and cookie, the histories stay tied to what is kept.
LEMMA AuthInvInductive == AuthInv /\ [AuthNext]_authVars => AuthInv'
<1> SUFFICES ASSUME AuthInv, [AuthNext]_authVars PROVE AuthInv'
  OBVIOUS
<1>1. CASE AuthTick
  BY <1>1, TickKeeps
<1>2. CASE StartPairing
  BY <1>2, StartKeeps
<1>3. ASSUME NEW req \in 1 .. MaxOpened, CompletePairing(req) PROVE AuthInv'
  <2>1. UNCHANGED <<clock, opened>> /\ UNCHANGED <<tickets, cookie, leaving, minted, spent>>
    BY <1>3 DEF CompletePairing
  <2>2. (PairingTypes /\ RequestsCounted /\ FailuresCounted)'
    BY <1>3, <2>1, RefusesKeeps, PairsKeeps, MistypesKeeps DEF CompletePairing
  <2>3. TicketsCounted' /\ CookieTypes'
    BY <2>1 DEF AuthInv, TicketsCounted, CookieTypes
  <2> QED BY <2>2, <2>3 DEF AuthInv
<1>4. ASSUME NEW req \in clients, RevokePairedClient(req) PROVE AuthInv'
  BY <1>4 DEF RevokePairedClient, AuthInv, PairingTypes, RequestsCounted, FailuresCounted,
              TicketsCounted, CookieTypes
<1>5. CASE MintStreamTicket
  BY <1>5, MintKeeps
<1>6. ASSUME NEW t \in DOMAIN minted, ConsumeStreamTicket(t) PROVE AuthInv'
  BY <1>6, ConsumeKeeps
<1>7. CASE WriteCookieFile \/ OldDaemonLeaves
  BY <1>7 DEF WriteCookieFile, OldDaemonLeaves, RemoveCookieFile, AuthInv, PairingTypes,
     RequestsCounted, FailuresCounted, TicketsCounted, CookieTypes
<1>8. CASE UNCHANGED authVars
  BY <1>8 DEF authVars, AuthInv, PairingTypes, RequestsCounted, FailuresCounted,
              TicketsCounted, CookieTypes
<1> QED BY <1>1, <1>2, <1>3, <1>4, <1>5, <1>6, <1>7, <1>8
        DEF AuthNext, PairingNext, TicketNext, CookieNext

\* So codes, tickets and the cookie are spent once, and in time.
LEMMA AuthInvMeaning == AuthInv => AuthTypeOK /\ EachIsSpentOnce
<1> SUFFICES ASSUME AuthInv PROVE AuthTypeOK /\ EachIsSpentOnce
  OBVIOUS
<1>1. AuthTypeOK
  BY DEF AuthTypeOK, AuthInv, PairingTypes, RequestsCounted, FailuresCounted, TicketsCounted,
         CookieTypes
<1>2. \A r \in DOMAIN opened : Cardinality({k \in DOMAIN wrong : wrong[k][1] = r}) <= MaxAttempts
  BY DEF AuthInv, RequestsCounted, WrongFor
<1>3. \A t \in 0 .. MaxClock : Cardinality({k \in DOMAIN wrong :
           t <= wrong[k][2] /\ wrong[k][2] < t + FailureWindow}) <= MaxFailures
  BY DEF AuthInv, FailuresCounted, WrongWithin
<1>4. \A j, k \in DOMAIN paired : paired[j][1] = paired[k][1] => j = k
  BY DEF AuthInv, RequestsCounted
<1>5. \A k \in DOMAIN paired : paired[k][2] < opened[paired[k][1]] + PairingTtl
  BY DEF AuthInv, RequestsCounted
<1>6. \A j, k \in DOMAIN spent : spent[j][1] = spent[k][1] => j = k
  BY DEF AuthInv, TicketsCounted
<1>7. \A k \in DOMAIN spent : spent[k][2] < minted[spent[k][1]] + TicketTtl
  BY DEF AuthInv, TicketsCounted
<1> QED BY <1>1, <1>2, <1>3, <1>4, <1>5, <1>6, <1>7 DEF EachIsSpentOnce

---------------------------------------------------------------------------------------
(* Relays, MCP. Each request is in flight, in line or answered, in one of these places only, and
   what the registry holds under an id is in flight. *)

\* Each request is in flight, in line or answered, in one place only.
Places ==
  /\ DOMAIN asked = active \cup Entries(waiting) \cup Entries(replies)
  /\ active \cap Entries(waiting) = {} /\ active \cap Entries(replies) = {}
  /\ Entries(waiting) \cap Entries(replies) = {}
  /\ Injective(replies)
  /\ \A j, k \in DOMAIN waiting : j < k => waiting[j] < waiting[k]

\* What is registered under an id is in flight, and has that id.
RegistryHolds ==
  /\ registry \in [DOMAIN registry -> active] /\ DOMAIN registry \subseteq Ids
  /\ \A i \in DOMAIN registry : asked[registry[i]] = i
  /\ \A n \in active \cup Entries(waiting) : asked[n] \in Ids

McpInv ==
  /\ stdin \in {"open", "closed"} /\ mcpServer \in {"reading", "draining", "done"}
  /\ asked \in Seq(Ids \cup {"null"}) /\ waiting \in Seq(Nat) /\ replies \in Seq(Nat)
  /\ aborted \subseteq active /\ Cardinality(active) <= MaxInFlight
  /\ waiting # << >> => Cardinality(active) = MaxInFlight
  /\ mcpServer = "done" => active = {} /\ waiting = << >>
  /\ Places /\ RegistryHolds

\* At the start nothing was read and no slot is taken.
LEMMA McpInvInit == McpInit => McpInv
<1> SUFFICES ASSUME McpInit PROVE McpInv
  OBVIOUS
<1>1. DOMAIN << >> = {} /\ << >> \in Seq(Nat) /\ << >> \in Seq(Ids \cup {"null"})
  OBVIOUS
<1> QED BY <1>1, FS_EmptySet, McpAssumption
        DEF McpInit, McpInv, Places, RegistryHolds, Entries, Injective

\* The slots taken are finitely many.
LEMMA SlotsCounted ==
  ASSUME McpInv PROVE IsFiniteSet(active) /\ Cardinality(active) \in Nat /\ Len(asked) \in Nat
                      /\ DOMAIN asked = 1 .. Len(asked)
<1>1. Len(asked) \in Nat /\ DOMAIN asked = 1 .. Len(asked) /\ active \subseteq DOMAIN asked
  BY LenProperties DEF McpInv, Places
<1>2. IsFiniteSet(1 .. Len(asked))
  BY <1>1, FS_Interval
<1> QED BY <1>1, <1>2, FS_Subset, FS_CardinalityType

\* A request takes a free slot, or is answered as one too many.
LEMMA ReadRequestStep == ASSUME McpInv, NEW i \in Ids, ReadRequest(i) PROVE McpInv'
<1> DEFINE n == Len(asked) + 1
<1>1. /\ asked' \in Seq(Ids \cup {"null"}) /\ Len(asked') = n /\ n \in Nat
      /\ DOMAIN asked' = DOMAIN asked \cup {n} /\ n \notin DOMAIN asked
      /\ asked'[n] = i /\ \A m \in DOMAIN asked : asked'[m] = asked[m] /\ m < n
  BY Appended, SlotsCounted DEF ReadRequest, McpInv
<1>2. UNCHANGED <<stdin, mcpServer, aborted, replies>> /\ mcpServer = "reading"
  BY DEF ReadRequest, Reads
<1>3. CASE Cardinality(active) < MaxInFlight
  <2>1. /\ active' = active \cup {n} /\ waiting' = waiting /\ registry' = With(registry, i, n)
    BY <1>1, <1>3 DEF ReadRequest
  <2>2. waiting = << >> /\ Entries(waiting) = {}
    BY <1>3, SlotsCounted, McpAssumption DEF McpInv, Entries
  <2>3. Cardinality(active') = Cardinality(active) + 1
    <3>1. n \notin active
      BY <1>1 DEF McpInv, Places
    <3> QED BY <2>1, <3>1, SlotsCounted, FS_AddElement
  <2>4. Places'
    BY <1>1, <1>2, <2>1 DEF McpInv, Places
  <2>5. RegistryHolds'
    BY <1>1, <1>2, <2>1 DEF McpInv, Places, RegistryHolds, With, Entries
  <2> QED BY <1>1, <1>2, <1>3, <2>1, <2>2, <2>3, <2>4, <2>5, SlotsCounted, McpAssumption DEF McpInv
<1>4. CASE ~(Cardinality(active) < MaxInFlight)
  <2>1. waiting' = Append(waiting, n) /\ UNCHANGED <<active, registry>>
    BY <1>1, <1>4 DEF ReadRequest
  <2>2. /\ waiting' \in Seq(Nat) /\ Entries(waiting') = Entries(waiting) \cup {n}
        /\ Len(waiting) \in Nat /\ DOMAIN waiting = 1 .. Len(waiting)
        /\ DOMAIN waiting' = 1 .. Len(waiting) + 1 /\ waiting'[Len(waiting) + 1] = n
        /\ \A k \in DOMAIN waiting : waiting'[k] = waiting[k]
    <3>1. waiting \in Seq(Nat)
      BY DEF McpInv
    <3>2. n \in Nat /\ waiting' = Append(waiting, n)
      BY <1>1, <2>1
    <3> HIDE DEF n
    <3> QED BY <3>1, <3>2, Appended
  <2>3. Cardinality(active) = MaxInFlight
    BY <1>4, SlotsCounted, McpAssumption DEF McpInv
  <2>4. \A j, k \in DOMAIN waiting' : j < k => waiting'[j] < waiting'[k]
    <3>1. \A k \in DOMAIN waiting : waiting[k] < n
      BY <1>1 DEF McpInv, Places, Entries
    <3>2. \A j, k \in DOMAIN waiting : j < k => waiting[j] < waiting[k]
      BY DEF McpInv, Places
    <3> SUFFICES ASSUME NEW j \in DOMAIN waiting', NEW k \in DOMAIN waiting', j < k
                 PROVE  waiting'[j] < waiting'[k]
      OBVIOUS
    <3>3. j \in DOMAIN waiting
      BY <2>2
    <3>4. k \in DOMAIN waiting \/ k = Len(waiting) + 1
      BY <2>2
    <3> QED BY <2>2, <3>1, <3>2, <3>3, <3>4
  <2>5. Places'
    BY <1>1, <1>2, <2>1, <2>2, <2>4 DEF McpInv, Places
  <2>6. RegistryHolds'
    BY <1>1, <1>2, <2>1, <2>2 DEF McpInv, Places, RegistryHolds
  <2> QED BY <1>1, <1>2, <2>1, <2>2, <2>3, <2>5, <2>6, McpAssumption DEF McpInv
<1> QED BY <1>3, <1>4

\* A message that is no request is answered at once.
LEMMA ReadBadStep == McpInv /\ ReadBad => McpInv'
<1> SUFFICES ASSUME McpInv, ReadBad PROVE McpInv'
  OBVIOUS
<1> DEFINE n == Len(asked) + 1
<1>1. /\ asked' \in Seq(Ids \cup {"null"}) /\ Len(asked') = n /\ n \in Nat
      /\ DOMAIN asked' = DOMAIN asked \cup {n} /\ n \notin DOMAIN asked
      /\ \A m \in DOMAIN asked : asked'[m] = asked[m]
  BY Appended, SlotsCounted DEF ReadBad, McpInv
<1>2. /\ UNCHANGED <<stdin, mcpServer, active, aborted, waiting, registry>>
      /\ mcpServer = "reading" /\ replies' = Append(replies, n)
  BY <1>1 DEF ReadBad, Reads
<1>3. replies' \in Seq(Nat) /\ Entries(replies') = Entries(replies) \cup {n}
  <2>1. replies \in Seq(Nat)
    BY DEF McpInv
  <2> QED BY <1>1, <1>2, <2>1, Appended
<1>4. Injective(replies')
  <2>1. n \notin Entries(replies)
    BY <1>1 DEF McpInv, Places
  <2> QED BY <1>1, <1>2, <2>1, InjectiveAppended DEF McpInv, Places
<1>5. Places'
  <2>1. Entries(waiting') = Entries(waiting) /\ DOMAIN waiting' = DOMAIN waiting
    BY <1>2
  <2> QED BY <1>1, <1>2, <1>3, <1>4, <2>1 DEF McpInv, Places
<1>6. RegistryHolds'
  <2>1. active \cup Entries(waiting) \subseteq DOMAIN asked /\ Entries(waiting') = Entries(waiting)
    BY <1>2 DEF McpInv, Places
  <2> QED BY <1>1, <1>2, <2>1 DEF McpInv, RegistryHolds
<1> QED BY <1>1, <1>2, <1>3, <1>5, <1>6 DEF McpInv

\* A request that ends gives its slot back with its answer.
LEMMA FinishStep == ASSUME McpInv, NEW n \in active, Finish(n) PROVE McpInv'
<1>1. /\ replies' = Append(replies, n) /\ aborted' = aborted \ {n}
      /\ UNCHANGED <<stdin, mcpServer, asked>> /\ mcpServer # "done"
  BY DEF Finish, McpInv
<1>2. n \in Nat /\ n \in DOMAIN asked
  BY SlotsCounted DEF McpInv, Places
<1>3. replies' \in Seq(Nat) /\ Entries(replies') = Entries(replies) \cup {n}
  <2>1. replies \in Seq(Nat)
    BY DEF McpInv
  <2> QED BY <1>1, <1>2, <2>1, Appended
<1>4. Injective(replies')
  BY <1>1, <1>2, InjectiveAppended DEF McpInv, Places
<1>5. /\ IsFiniteSet(active \ {n}) /\ Cardinality(active \ {n}) = Cardinality(active) - 1
      /\ Cardinality(active) \in Nat
  BY SlotsCounted, FS_RemoveElement
<1> DEFINE left == Without(registry, asked[n])
<1>6. /\ left \in [DOMAIN left -> active \ {n}] /\ DOMAIN left \subseteq Ids
      /\ \A i \in DOMAIN left : asked[left[i]] = i
  BY DEF Without, McpInv, RegistryHolds
<1>7. CASE waiting = << >>
  <2>1. active' = active \ {n} /\ registry' = left /\ waiting' = waiting
    BY <1>7 DEF Finish
  <2>2. Entries(waiting) = {} /\ Entries(waiting') = {}
    BY <1>7, <2>1 DEF Entries
  <2>3. Places'
    BY <1>1, <1>2, <1>3, <1>4, <2>1, <2>2 DEF McpInv, Places
  <2>4. RegistryHolds'
    BY <1>1, <1>6, <2>1, <2>2 DEF McpInv, RegistryHolds
  <2> QED BY <1>1, <1>3, <1>5, <1>7, <2>1, <2>3, <2>4, McpAssumption DEF McpInv
<1>8. CASE waiting # << >>
  <2> DEFINE m == waiting[1]
  <2>1. /\ active' = (active \ {n}) \cup {m} /\ waiting' = Tail(waiting)
        /\ registry' = With(left, asked[m], m)
    BY <1>8 DEF Finish
  <2>2. /\ waiting' \in Seq(Nat) /\ Entries(waiting) = {m} \cup Entries(waiting')
        /\ \A k \in DOMAIN waiting' : k \in Nat /\ k + 1 \in DOMAIN waiting
                                      /\ waiting'[k] = waiting[k + 1]
        /\ 1 \in DOMAIN waiting
    BY <1>8, <2>1, TailTaken DEF McpInv
  <2>3. m \in Entries(waiting) /\ m \notin Entries(waiting') /\ m \notin active
    <3>1. \A k \in DOMAIN waiting' : waiting[1] < waiting'[k]
      BY <2>2 DEF McpInv, Places
    <3>2. m \in Nat
      BY <2>2, ElementOfSeq DEF McpInv
    <3> QED BY <2>2, <3>1, <3>2 DEF Entries, McpInv, Places
  <2>4. \A j, k \in DOMAIN waiting' : j < k => waiting'[j] < waiting'[k]
    BY <2>2 DEF McpInv, Places
  <2>5. Places'
    BY <1>1, <1>2, <1>3, <1>4, <2>1, <2>2, <2>3, <2>4 DEF McpInv, Places
  <2>6. RegistryHolds'
    <3>1. asked[m] \in Ids /\ \A k \in active' \cup Entries(waiting') : asked[k] \in Ids
      BY <2>1, <2>2, <2>3 DEF McpInv, RegistryHolds
    <3> QED BY <1>1, <1>6, <2>1, <3>1 DEF RegistryHolds, With
  <2>7. Cardinality(active') = Cardinality(active)
    <3>1. m \notin active \ {n}
      BY <2>3
    <3>2. Cardinality(active') = Cardinality(active \ {n}) + 1
      BY <1>5, <2>1, <3>1, FS_AddElement
    <3> QED BY <1>5, <3>2
  <2> QED BY <1>1, <1>3, <1>8, <2>1, <2>2, <2>5, <2>6, <2>7 DEF McpInv
<1> QED BY <1>7, <1>8

\* Reading, cancelling and finishing keep every request in a slot or answered.
LEMMA McpInvInductive == McpInv /\ [McpNext]_mcpVars => McpInv'
<1> SUFFICES ASSUME McpInv, [McpNext]_mcpVars PROVE McpInv'
  OBVIOUS
<1>1. ASSUME NEW i \in Ids, ReadCancel(i) PROVE McpInv'
  BY <1>1 DEF ReadCancel, McpInv, Places, RegistryHolds
<1>2. CASE CloseInput
  BY <1>2 DEF CloseInput, McpInv, Places, RegistryHolds
<1>3. CASE Drain
  BY <1>3 DEF Drain, Drained, McpInv, Places, RegistryHolds, Entries
<1>4. CASE UNCHANGED mcpVars
  BY <1>4 DEF mcpVars, McpInv, Places, RegistryHolds
<1> QED BY <1>1, <1>2, <1>3, <1>4, ReadRequestStep, ReadBadStep, FinishStep DEF McpNext

\* So no request is answered twice.
LEMMA McpInvMeaning == McpInv => McpTypeOK /\ AnsweredOnce
<1> SUFFICES ASSUME McpInv PROVE McpTypeOK /\ AnsweredOnce
  OBVIOUS
<1>1. McpTypeOK
  BY DEF McpInv, McpTypeOK, Places, RegistryHolds
<1>2. Injective(waiting) /\ Injective(replies)
  <2>1. waiting \in Seq(Nat) /\ \A j, k \in DOMAIN waiting : j < k => waiting[j] < waiting[k]
    BY DEF McpInv, Places
  <2>2. \A j, k \in DOMAIN waiting : j \in Nat /\ k \in Nat /\ waiting[j] \in Nat /\ waiting[k] \in Nat
    BY <2>1, LenProperties
  <2> QED BY <2>1, <2>2 DEF Injective, McpInv, Places
<1>3. \A n \in DOMAIN asked :
        /\ Count(n) = IF n \in Entries(replies) THEN 1 ELSE 0
        /\ Cardinality({k \in DOMAIN waiting : waiting[k] = n})
             = IF n \in Entries(waiting) THEN 1 ELSE 0
  BY <1>2, HowOften DEF Count
<1>4. \A n \in DOMAIN asked : Count(n) + (IF n \in active THEN 1 ELSE 0)
               + Cardinality({k \in DOMAIN waiting : waiting[k] = n}) = 1
  BY <1>3 DEF McpInv, Places
<1>5. mcpServer = "done" => \A n \in DOMAIN asked : Count(n) = 1
  BY <1>3 DEF McpInv, Places, Entries
<1> QED BY <1>1, <1>4, <1>5 DEF AnsweredOnce, McpInv, Places

---------------------------------------------------------------------------------------
(* Relays, the proxy. What the upstream was given and what is held back are together what the client
   sent, in that order, until the upstream is closed. *)

Sixth == <<"v6", "v4">>
Orders == {Loopbacks, Sixth}
UpTo(n) == [k \in 1 .. n |-> k]

ProxyInv ==
  /\ listens \subseteq Families /\ answeredOn \in Families \cup {"none"} /\ at \in 0 .. 2
  /\ order \in Orders /\ up \in {"none", "connecting", "open", "closed"}
  /\ sent \in 0 .. MaxSent /\ given \in Seq(Nat) /\ queue \in Seq(Nat)
  /\ client[1] \in {"none", "open", "left", "closed"}
  /\ given \o queue = UpTo(sent)
  /\ up = "open" => queue = << >>
  /\ up = "connecting" => at \in {1, 2}
  /\ client = <<"closed", 1011>> /\ queue # << >> => at = 2
  /\ up \in {"connecting", "open"} => client = <<"open">>
  /\ reply \in {"none", "ok", "502"} /\ (reply = "502" => triedAll = Families)
  /\ \/ http = <<"idle">> /\ (reply = "none" => triedAll = {})
     \/ http \in Orders /\ reply = "none" /\ triedAll = {}
     \/ http = <<"v4">> /\ reply = "none" /\ triedAll = {"v6"}
     \/ http = <<"v6">> /\ reply = "none" /\ triedAll = {"v4"}

\* The messages up to one more.
LEMMA UpToNext ==
  ASSUME NEW n \in Nat
  PROVE  UpTo(n) \in Seq(Nat) /\ Append(UpTo(n), n + 1) = UpTo(n + 1)
<1>1. UpTo(n) \in Seq(Nat) /\ Len(UpTo(n)) = n /\ UpTo(n + 1) \in Seq(Nat)
  BY DEF UpTo
<1>2. /\ Append(UpTo(n), n + 1) \in Seq(Nat) /\ Len(Append(UpTo(n), n + 1)) = n + 1
      /\ \A k \in 1 .. n : Append(UpTo(n), n + 1)[k] = UpTo(n)[k]
      /\ Append(UpTo(n), n + 1)[n + 1] = n + 1
  BY <1>1, AppendProperties
<1>3. Len(UpTo(n + 1)) = n + 1 /\ \A k \in 1 .. n + 1 : UpTo(n + 1)[k] = k
  BY DEF UpTo
<1>4. \A k \in 1 .. n : UpTo(n)[k] = k
  BY DEF UpTo
<1>5. \A k \in 1 .. n + 1 : k \in 1 .. n \/ k = n + 1
  OBVIOUS
<1>6. \A k \in 1 .. n + 1 : Append(UpTo(n), n + 1)[k] = UpTo(n + 1)[k]
  BY <1>2, <1>3, <1>4, <1>5
<1> QED BY <1>1, <1>2, <1>3, <1>6, SeqEqual

\* A message put behind those held back comes behind all that were sent.
LEMMA ConcatAppended ==
  ASSUME NEW g \in Seq(Nat), NEW q \in Seq(Nat), NEW e \in Nat
  PROVE  g \o Append(q, e) = Append(g \o q, e)
<1>1. g \o Append(q, e) \in Seq(Nat) /\ Append(g \o q, e) \in Seq(Nat)
  BY ConcatProperties, AppendProperties
<1>2. Len(g \o Append(q, e)) = Len(Append(g \o q, e))
  BY ConcatProperties, AppendProperties
<1>3. \A k \in 1 .. Len(g \o Append(q, e)) : (g \o Append(q, e))[k] = Append(g \o q, e)[k]
  OBVIOUS
<1> QED BY <1>1, <1>2, <1>3, SeqEqual

\* Before the socket is opened nothing is sent, held back or given.
LEMMA ProxyInvInit == ProxyInit => ProxyInv
<1> SUFFICES ASSUME ProxyInit PROVE ProxyInv
  OBVIOUS
<1>0. MaxSent \in Nat
  BY ProxyAssumption
<1>1. given = << >> /\ queue = << >> /\ sent = 0 /\ client = <<"none">> /\ up = "none" /\ at = 0
  BY DEF ProxyInit
<1>2. given \o queue = UpTo(sent)
  BY <1>1 DEF UpTo
<1> QED BY <1>0, <1>1, <1>2 DEF ProxyInit, ProxyInv, Orders

\* Each step of the relay hands on what is first, or holds back what is last.
LEMMA ProxyInvStep == ASSUME ProxyInv, ProxyNext PROVE ProxyInv'
<1> DEFINE Socket == <<order, at, up, client, sent, queue, given>>
<1> DEFINE Web == <<http, reply, triedAll>>
<1>0. /\ given \in Seq(Nat) /\ queue \in Seq(Nat) /\ given \o queue = UpTo(sent)
      /\ sent \in 0 .. MaxSent /\ sent \in Nat
  BY DEF ProxyInv
<1>1. CASE ServerMoves
  BY <1>1 DEF ServerMoves, ProxyInv
<1>2. CASE SocketOpens
  <2>1. order' \in Orders
    BY <1>2 DEF SocketOpens, loopbackOrder, Orders, Sixth
  <2>2. queue = queue' /\ at' = 1 /\ up' = "connecting" /\ client' = <<"open">>
    BY <1>2 DEF SocketOpens
  <2>3. client' # <<"closed", 1011>> /\ client'[1] = "open"
    BY <2>2
  <2> QED BY <1>2, <2>1, <2>2, <2>3 DEF SocketOpens, ProxyInv
<1>3. CASE UpOpens
  <2>1. /\ up' = "open" /\ queue' = << >> /\ given' = given \o queue /\ client = <<"open">>
        /\ UNCHANGED <<listens, order, at, client, sent, http, reply, triedAll>>
    BY <1>3 DEF UpOpens, ProxyInv
  <2>2. given' \in Seq(Nat) /\ queue' \in Seq(Nat) /\ given' \o queue' = UpTo(sent)
    <3>1. given \o queue \in Seq(Nat)
      BY <1>0, ConcatProperties
    <3> QED BY <1>0, <2>1, <3>1, ConcatEmptySeq
  <2>3. answeredOn' \in Families
    BY <1>3 DEF UpOpens, ProxyInv
  <2> QED BY <2>1, <2>2, <2>3 DEF ProxyInv
<1>4. CASE UpFails
  <2>1. Len(order) = 2
    BY DEF ProxyInv, Orders, Loopbacks, Sixth
  <2>2. at \in {1, 2} /\ UNCHANGED <<listens, answeredOn, order, sent, given, queue, Web>>
    BY <1>4 DEF UpFails, ProxyInv, Held
  <2>3. CASE at < 2
    <3>1. at' = 2 /\ UNCHANGED <<up, client>>
      BY <1>4, <2>1, <2>2, <2>3 DEF UpFails
    <3> QED BY <2>2, <3>1 DEF ProxyInv
  <2>4. CASE ~(at < 2)
    <3>1. at' = 2 /\ up' = "closed" /\ client' = <<"closed", 1011>>
      BY <1>4, <2>1, <2>2, <2>4 DEF UpFails
    <3> QED BY <2>2, <3>1 DEF ProxyInv
  <2> QED BY <2>3, <2>4
<1>5. ASSUME NEW code \in {1000, 1001, 1006, 1008, 3000, 4999}, UpCloses(code) PROVE ProxyInv'
  <2>1. /\ queue = << >> /\ up' = "closed" /\ client' = <<"closed", relayCloseCode(code)>>
        /\ UNCHANGED <<listens, answeredOn, order, at, sent, queue, given, Web>>
    BY <1>5 DEF UpCloses, ProxyInv
  <2> QED BY <2>1 DEF ProxyInv
<1>6. CASE ClientSends
  <2>1. /\ sent' = sent + 1 /\ sent \in Nat /\ sent' \in 0 .. MaxSent /\ client = <<"open">>
        /\ UNCHANGED <<listens, answeredOn, order, at, up, client, Web>>
    BY <1>6, ProxyAssumption DEF ClientSends, ProxyInv
  <2>2. client # <<"closed", 1011>>
    BY <2>1
  <2>3. given' \in Seq(Nat) /\ queue' \in Seq(Nat) /\ given' \o queue' = UpTo(sent')
        /\ (up = "open" => queue' = << >>)
    <3>1. Append(UpTo(sent), sent') = UpTo(sent') /\ sent' \in Nat
      <4>1. Append(UpTo(sent), sent + 1) = UpTo(sent + 1)
        BY <1>0, UpToNext
      <4>2. sent' = sent + 1 /\ sent' \in Nat
        BY <1>0, <2>1
      <4> HIDE DEF UpTo
      <4> QED BY <4>1, <4>2
    <3>2. CASE up = "open"
      <4>1. queue = << >> /\ given = UpTo(sent)
        <5>1. queue = << >>
          BY <3>2 DEF ProxyInv
        <5> QED BY <1>0, <5>1, ConcatEmptySeq
      <4>2. given' = Append(given, sent') /\ queue' = << >>
        BY <1>6, <3>2, <4>1 DEF ClientSends
      <4>3. given' = UpTo(sent') /\ given' \in Seq(Nat)
        BY <3>1, <4>1, <4>2, <2>1, UpToNext DEF ProxyInv
      <4> QED BY <4>2, <4>3, ConcatEmptySeq
    <3>3. CASE up # "open"
      <4>1. given' = given /\ queue' = Append(queue, sent')
        BY <1>6, <3>3 DEF ClientSends
      <4>2. given' \in Seq(Nat) /\ queue' \in Seq(Nat)
        BY <1>0, <3>1, <4>1, AppendProperties
      <4>3. given' \o queue' = Append(given \o queue, sent')
        BY <1>0, <3>1, <4>1, ConcatAppended
      <4> QED BY <1>0, <3>1, <3>3, <4>2, <4>3
    <3> QED BY <3>2, <3>3
  <2> QED BY <2>1, <2>2, <2>3 DEF ProxyInv
<1>7. CASE ClientCloses
  <2>1. /\ up' = "closed" /\ client' = <<"left">>
        /\ UNCHANGED <<listens, answeredOn, order, at, sent, queue, given, Web>>
    BY <1>7 DEF ClientCloses
  <2>2. client' # <<"closed", 1011>>
    BY <2>1
  <2> QED BY <2>1, <2>2 DEF ProxyInv
<1>8. CASE ForwardStarts
  <2>1. /\ http = <<"idle">> /\ reply = "none" /\ http' = loopbackOrder
        /\ UNCHANGED <<listens, answeredOn, Socket, reply, triedAll>>
    BY <1>8 DEF ForwardStarts
  <2>2. http' \in Orders /\ triedAll = {}
    <3>1. <<"idle">> # <<"v4">> /\ <<"idle">> # <<"v6">> /\ <<"idle">> \notin Orders
      BY DEF Orders, Loopbacks, Sixth
    <3> QED BY <2>1, <3>1 DEF loopbackOrder, Orders, Sixth, ProxyInv
  <2> QED BY <2>1, <2>2 DEF ProxyInv
<1>9. ASSUME http # <<"idle">> PROVE /\ http[1] \in Families /\ reply = "none"
                                     /\ \/ http \in Orders /\ triedAll = {}
                                        \/ http = <<"v4">> /\ triedAll = {"v6"}
                                        \/ http = <<"v6">> /\ triedAll = {"v4"}
  BY <1>9 DEF ProxyInv, Orders, Loopbacks, Sixth, Families
<1>10. CASE FetchAnswers
  BY <1>9, <1>10 DEF FetchAnswers, ProxyInv
<1>11. CASE FetchFails
  <2>1. /\ http # <<"idle">> /\ triedAll' = triedAll \cup {http[1]}
        /\ UNCHANGED <<listens, answeredOn, Socket>>
    BY <1>11 DEF FetchFails
  <2>2. IF Tail(http) = << >> THEN reply' = "502" /\ http' = <<"idle">>
        ELSE http' = Tail(http) /\ UNCHANGED reply
    BY <1>11 DEF FetchFails, TriesNext
  <2>3. CASE http \in Orders /\ triedAll = {}
    <3>1. \/ http[1] = "v4" /\ Tail(http) = <<"v6">>
          \/ http[1] = "v6" /\ Tail(http) = <<"v4">>
      <4>1. CASE http = <<"v4", "v6">>
        BY <4>1
      <4>2. CASE http = <<"v6", "v4">>
        BY <4>2
      <4> QED BY <2>3, <4>1, <4>2 DEF Orders, Loopbacks, Sixth
    <3>2. http' = Tail(http) /\ reply' = "none"
      BY <1>9, <2>1, <2>2, <3>1
    <3> QED BY <2>1, <2>3, <3>1, <3>2 DEF ProxyInv
  <2>4. CASE http = <<"v4">> /\ triedAll = {"v6"}
    <3>1. Tail(http) = << >> /\ http[1] = "v4"
      BY <2>4
    <3> QED BY <2>1, <2>2, <2>4, <3>1 DEF ProxyInv, Families
  <2>5. CASE http = <<"v6">> /\ triedAll = {"v4"}
    <3>1. Tail(http) = << >> /\ http[1] = "v6"
      BY <2>5
    <3> QED BY <2>1, <2>2, <2>5, <3>1 DEF ProxyInv, Families
  <2> QED BY <1>9, <2>1, <2>3, <2>4, <2>5
<1> QED BY <1>1, <1>2, <1>3, <1>4, <1>5, <1>6, <1>7, <1>8, <1>10, <1>11 DEF ProxyNext

\* So it is with every step of the proxy, and of its HTTP requests.
LEMMA ProxyInvInductive == ProxyInv /\ [ProxyNext]_proxyVars => ProxyInv'
<1>1. ProxyInv /\ UNCHANGED proxyVars => ProxyInv'
  BY DEF proxyVars, ProxyInv
<1> QED BY <1>1, ProxyInvStep

\* So the upstream gets what the client sent, in order and without a gap.
LEMMA ProxyInvMeaning == ProxyInv => ProxyTypeOK /\ SocketKeepsOrder
<1> SUFFICES ASSUME ProxyInv PROVE ProxyTypeOK /\ SocketKeepsOrder
  OBVIOUS
<1>1. given \o queue = [k \in 1 .. sent |-> k]
  BY DEF ProxyInv, UpTo
<1>2. up = "open" => queue = << >> /\ client = <<"open">>
  BY DEF ProxyInv
<1> QED BY <1>1, <1>2 DEF ProxyInv, ProxyTypeOK, SocketKeepsOrder

---------------------------------------------------------------------------------------
(* PromptAnswers. The buffer a process's output is matched against is, as long as nothing was
   cut off by its limit, the rest of the output after the last answer; so a pass over the rules
   in their order finds what a reference that reads the whole output would find. *)

Texts == Seq(Letters)
Rules == [expect : Texts, optional : BOOLEAN]

\* Where a text stands in another.
StandsAt(text, what, k) == k \in Len(what) .. Len(text) /\ SubSeq(text, k - Len(what) + 1, k) = what

\* Where an expected text ends in the output: at its first occurrence, or nowhere.
LEMMA EndsIs ==
  ASSUME NEW text \in Texts, NEW what \in Texts, what # << >>
  PROVE  /\ Ends(text, what) \in 0 .. Len(text)
         /\ Ends(text, what) > 0 => StandsAt(text, what, Ends(text, what))
         /\ \A k : StandsAt(text, what, k) => 0 < Ends(text, what) /\ Ends(text, what) <= k
<1> DEFINE Found == {k \in Len(what) .. Len(text) : SubSeq(text, k - Len(what) + 1, k) = what}
<1>1. Len(what) \in Nat \ {0} /\ Len(text) \in Nat BY EmptySeq, LenProperties DEF Texts
<1>2. Found \in SUBSET Nat
  <2>1. \A k \in Len(what) .. Len(text) : k \in Nat BY <1>1
  <2> QED BY <2>1
<1>5. \A k : k \in Found <=> StandsAt(text, what, k) BY DEF StandsAt
<1>3. CASE Found = {}
  <2>1. Ends(text, what) = 0 BY <1>3 DEF Ends
  <2> QED BY <1>1, <1>3, <1>5, <2>1
<1>4. CASE Found # {}
  <2> DEFINE e == CHOOSE k \in Found : \A j \in Found : k <= j
  <2>1. Ends(text, what) = e BY <1>4 DEF Ends
  <2>2. \E k \in Found : \A j \in Found : k <= j
    <3> HIDE DEF Found
    <3> QED BY <1>2, <1>4, FirstExists
  <2>3. e \in Found /\ \A j \in Found : e <= j
    <3> HIDE DEF Found
    <3> QED BY <2>2
  <2>4. e \in Len(what) .. Len(text) BY <2>3
  <2> HIDE DEF Found, e
  <2>5. e \in 0 .. Len(text) /\ e > 0 BY <1>1, <2>4
  <2>6. StandsAt(text, what, e) BY <1>5, <2>3
  <2>7. \A k : StandsAt(text, what, k) => e <= k BY <1>5, <2>3
  <2> QED BY <2>1, <2>5, <2>6, <2>7
<1> QED BY <1>3, <1>4

\* A piece of a text is a text, as long as it says.
LEMMA CutText ==
  ASSUME NEW text \in Texts, NEW a \in 1 .. Len(text) + 1, NEW b \in 0 .. Len(text)
  PROVE  /\ SubSeq(text, a, b) \in Texts
         /\ Len(SubSeq(text, a, b)) = (IF a <= b THEN b - a + 1 ELSE 0)
         /\ \A i \in 1 .. Len(SubSeq(text, a, b)) : SubSeq(text, a, b)[i] = text[a + i - 1]
<1>1. Len(text) \in Nat BY DEF Texts
<1>2. SubSeq(text, a, b) \in Texts BY <1>1, SubSeqProperties DEF Texts
<1>3. Len(SubSeq(text, a, b)) = (IF a <= b THEN b - a + 1 ELSE 0) BY <1>1, SubSeqProperties DEF Texts
<1>4. \A i \in 1 .. Len(SubSeq(text, a, b)) : SubSeq(text, a, b)[i] = text[a + i - 1] BY <1>1, <1>3, SubSeqProperties DEF Texts
<1> QED BY <1>2, <1>3, <1>4

\* Two texts with the same letters are one.
LEMMA SameTexts ==
  ASSUME NEW s \in Texts, NEW t \in Texts, Len(s) = Len(t), \A i \in 1 .. Len(s) : s[i] = t[i]
  PROVE  s = t
BY SeqEqual DEF Texts

\* A text with more output behind it.
LEMMA Longer ==
  ASSUME NEW text \in Texts, NEW more \in Texts
  PROVE  /\ text \o more \in Texts /\ Len(text \o more) = Len(text) + Len(more) /\ Len(text) \in Nat /\ Len(more) \in Nat
         /\ \A i \in 1 .. Len(text) : (text \o more)[i] = text[i]
         /\ \A i \in Len(text) + 1 .. Len(text) + Len(more) : (text \o more)[i] = more[i - Len(text)]
BY ConcatProperties DEF Texts

\* What stands in a text stands there still when the text goes on.
LEMMA EndsLonger ==
  ASSUME NEW text \in Texts, NEW more \in Texts, NEW what \in Texts, what # << >>, Ends(text, what) > 0
  PROVE  Ends(text \o more, what) = Ends(text, what)
<1> DEFINE all == text \o more
<1>1. /\ all \in Texts /\ Len(all) = Len(text) + Len(more) /\ Len(text) \in Nat /\ Len(more) \in Nat
      /\ \A i \in 1 .. Len(text) : all[i] = text[i]
  BY Longer
<1> HIDE DEF all
<1>2. Len(what) \in Nat \ {0} BY EmptySeq, LenProperties DEF Texts
<1>3. \A k \in Len(what) .. Len(text) : SubSeq(all, k - Len(what) + 1, k) = SubSeq(text, k - Len(what) + 1, k)
  <2> SUFFICES ASSUME NEW k \in Len(what) .. Len(text)
               PROVE  SubSeq(all, k - Len(what) + 1, k) = SubSeq(text, k - Len(what) + 1, k)
    OBVIOUS
  <2> DEFINE a == k - Len(what) + 1
  <2>1. a \in 1 .. Len(text) /\ k \in 0 .. Len(text) /\ a <= k BY <1>1, <1>2
  <2>2. a \in 1 .. Len(text) + 1 /\ a \in 1 .. Len(all) + 1 /\ k \in 0 .. Len(all) BY <1>1, <2>1
  <2> HIDE DEF a
  <2>3. /\ SubSeq(all, a, k) \in Texts /\ Len(SubSeq(all, a, k)) = k - a + 1
        /\ \A i \in 1 .. Len(SubSeq(all, a, k)) : SubSeq(all, a, k)[i] = all[a + i - 1]
    BY <1>1, <2>1, <2>2, CutText
  <2>4. /\ SubSeq(text, a, k) \in Texts /\ Len(SubSeq(text, a, k)) = k - a + 1
        /\ \A i \in 1 .. Len(SubSeq(text, a, k)) : SubSeq(text, a, k)[i] = text[a + i - 1]
    BY <1>1, <2>1, <2>2, CutText
  <2>5. \A i \in 1 .. k - a + 1 : a + i - 1 \in 1 .. Len(text) BY <1>1, <2>1
  <2>6. \A i \in 1 .. Len(SubSeq(all, a, k)) : SubSeq(all, a, k)[i] = SubSeq(text, a, k)[i]
    BY <1>1, <2>3, <2>4, <2>5
  <2>7. SubSeq(all, a, k) = SubSeq(text, a, k) BY <2>3, <2>4, <2>6, SameTexts
  <2> QED BY <2>7 DEF a
<1>4. Ends(text, what) \in 0 .. Len(text) /\ StandsAt(text, what, Ends(text, what)) BY EndsIs
<1>5. StandsAt(all, what, Ends(text, what)) BY <1>1, <1>2, <1>3, <1>4 DEF StandsAt
<1>6. Ends(all, what) > 0 /\ Ends(all, what) <= Ends(text, what) /\ Ends(all, what) \in 0 .. Len(all)
      /\ StandsAt(all, what, Ends(all, what)) BY <1>1, <1>5, EndsIs
<1>7. StandsAt(text, what, Ends(all, what))
  <2>1. Ends(all, what) \in Len(what) .. Len(text) BY <1>1, <1>2, <1>4, <1>6 DEF StandsAt
  <2> QED BY <1>3, <1>6, <2>1 DEF StandsAt
<1>8. Ends(text, what) <= Ends(all, what) BY <1>7, EndsIs
<1> QED BY <1>1, <1>4, <1>6, <1>8 DEF all

\* The walk: where it begins, and that each step of it is a visit.
Begun(text) == [on |-> TRUE, armed |-> << >>, buffer |-> text, fired |-> fired]
IsWalk(w, m, text) ==
  w = [k \in 0 .. m |-> IF k = 0 THEN Begun(text) ELSE Visit(w[k - 1], armed[k])]

\* The pass over the armed rules, rule by rule: the recursion of Walk, unfolded.
LEMMA WalkIs ==
  ASSUME Len(armed) \in Nat, NEW text
  PROVE  \E w : /\ w[0] = Begun(text) /\ \A k \in 1 .. Len(armed) : w[k] = Visit(w[k - 1], armed[k])
               /\ Walk(text) = w[Len(armed)]
<1> DEFINE Unwalked == {m \in 0 .. Len(armed) : ~\E w : IsWalk(w, m, text)}
<1>1. Unwalked = {}
  <2>1. SUFFICES ASSUME Unwalked # {} PROVE FALSE OBVIOUS
  <2>2. Unwalked \in SUBSET Nat OBVIOUS
  <2>3. \E m \in Unwalked : \A j \in Unwalked : m <= j
    <3> HIDE DEF Unwalked
    <3> QED BY <2>1, <2>2, FirstExists
  <2>4. PICK m \in Unwalked : \A j \in Unwalked : m <= j BY <2>3
  <2>5. m \in 0 .. Len(armed) /\ ~\E w : IsWalk(w, m, text) OBVIOUS
  <2>6. CASE m = 0
    <3>1. IsWalk([k \in 0 .. 0 |-> Begun(text)], 0, text) BY DEF IsWalk
    <3> QED BY <2>5, <2>6, <3>1
  <2>7. CASE m # 0
    <3>1. m - 1 \in 0 .. Len(armed) /\ ~(m <= m - 1) /\ m \in Nat \ {0} BY <2>5, <2>7
    <3>2. m - 1 \notin Unwalked BY <2>4, <3>1
    <3>3. PICK g : IsWalk(g, m - 1, text) BY <3>1, <3>2
    <3> DEFINE h == [k \in 0 .. m |-> IF k = m THEN Visit(g[m - 1], armed[m]) ELSE g[k]]
    <3>4. \A k \in 0 .. m - 1 : h[k] = g[k] BY <3>1
    <3>5. \A k \in 0 .. m - 1 : g[k] = IF k = 0 THEN Begun(text) ELSE Visit(g[k - 1], armed[k])
      BY <3>3 DEF IsWalk
    <3>6. ASSUME NEW k \in 0 .. m PROVE h[k] = IF k = 0 THEN Begun(text) ELSE Visit(h[k - 1], armed[k])
      <4>1. CASE k = m
        <5>1. h[k] = Visit(g[m - 1], armed[m]) BY <4>1
        <5>2. h[m - 1] = g[m - 1] BY <3>1, <3>4
        <5> QED BY <3>1, <4>1, <5>1, <5>2
      <4>2. CASE k # m
        <5>1. k \in 0 .. m - 1 /\ (k # 0 => k - 1 \in 0 .. m - 1) BY <3>1, <4>2
        <5>2. h[k] = g[k] /\ (k # 0 => h[k - 1] = g[k - 1]) BY <3>4, <5>1
        <5> QED BY <3>5, <5>1, <5>2
      <4> QED BY <4>1, <4>2
    <3>7. h = [k \in 0 .. m |-> h[k]] OBVIOUS
    <3> HIDE DEF h
    <3>8. h = [k \in 0 .. m |-> IF k = 0 THEN Begun(text) ELSE Visit(h[k - 1], armed[k])] BY <3>6, <3>7
    <3> QED BY <2>5, <3>8 DEF IsWalk
  <2> QED BY <2>6, <2>7
<1>2. \E w : IsWalk(w, Len(armed), text) BY <1>1
<1>3. \E w : IsWalk(w, Len(armed), text) /\ Walk(text) = w[Len(armed)] BY <1>2 DEF IsWalk, Walk, Begun
<1>4. PICK w : IsWalk(w, Len(armed), text) /\ Walk(text) = w[Len(armed)] BY <1>3
<1>5. w[0] = Begun(text) /\ \A k \in 1 .. Len(armed) : w[k] = Visit(w[k - 1], armed[k])
  BY <1>4 DEF IsWalk
<1> QED BY <1>4, <1>5

\* A text is stripped letter by letter: the recursion of stripAnsi, unfolded.
Opening(text, k) == k \in 1 .. Len(text) - 1 /\ text[k] = Csi /\ text[k + 1] = Sgr
NextPlain(before, text, k) ==
  IF Opening(text, k) \/ Opening(text, k - 1) THEN before ELSE Append(before, text[k])
IsPlain(g, text, m) == g = [k \in 0 .. m |-> IF k = 0 THEN << >> ELSE NextPlain(g[k - 1], text, k)]

\* What is left of a text without its escape sequences is a text.
LEMMA Stripped == ASSUME NEW text \in Texts PROVE stripAnsi(text) \in Texts
<1> DEFINE Unwalked == {m \in 0 .. Len(text) : ~\E g : IsPlain(g, text, m)}
<1>0. Len(text) \in Nat /\ << >> \in Texts BY DEF Texts
<1>1. Unwalked = {}
  <2>1. SUFFICES ASSUME Unwalked # {} PROVE FALSE OBVIOUS
  <2>2. Unwalked \in SUBSET Nat OBVIOUS
  <2>3. \E m \in Unwalked : \A j \in Unwalked : m <= j
    <3> HIDE DEF Unwalked
    <3> QED BY <2>1, <2>2, FirstExists
  <2>4. PICK m \in Unwalked : \A j \in Unwalked : m <= j BY <2>3
  <2>5. m \in 0 .. Len(text) /\ ~\E g : IsPlain(g, text, m) OBVIOUS
  <2>6. CASE m = 0
    <3>1. IsPlain([k \in 0 .. 0 |-> << >>], text, 0) BY DEF IsPlain
    <3> QED BY <2>5, <2>6, <3>1
  <2>7. CASE m # 0
    <3>1. m - 1 \in 0 .. Len(text) /\ ~(m <= m - 1) /\ m \in Nat \ {0} BY <1>0, <2>5, <2>7
    <3>2. m - 1 \notin Unwalked BY <2>4, <3>1
    <3>3. PICK g : IsPlain(g, text, m - 1) BY <3>1, <3>2
    <3> DEFINE h == [k \in 0 .. m |-> IF k = m THEN NextPlain(g[m - 1], text, m) ELSE g[k]]
    <3>4. \A k \in 0 .. m - 1 : h[k] = g[k] BY <3>1
    <3>5. \A k \in 0 .. m - 1 : g[k] = IF k = 0 THEN << >> ELSE NextPlain(g[k - 1], text, k)
      BY <3>3 DEF IsPlain
    <3>6. ASSUME NEW k \in 0 .. m PROVE h[k] = IF k = 0 THEN << >> ELSE NextPlain(h[k - 1], text, k)
      <4>1. CASE k = m
        <5>1. h[k] = NextPlain(g[m - 1], text, m) BY <4>1
        <5>2. h[m - 1] = g[m - 1] BY <3>1, <3>4
        <5> QED BY <3>1, <4>1, <5>1, <5>2
      <4>2. CASE k # m
        <5>1. k \in 0 .. m - 1 /\ (k # 0 => k - 1 \in 0 .. m - 1) BY <3>1, <4>2
        <5>2. h[k] = g[k] /\ (k # 0 => h[k - 1] = g[k - 1]) BY <3>4, <5>1
        <5> QED BY <3>5, <5>1, <5>2
      <4> QED BY <4>1, <4>2
    <3>7. h = [k \in 0 .. m |-> h[k]] OBVIOUS
    <3> HIDE DEF h
    <3>8. h = [k \in 0 .. m |-> IF k = 0 THEN << >> ELSE NextPlain(h[k - 1], text, k)] BY <3>6, <3>7
    <3> QED BY <2>5, <3>8 DEF IsPlain
  <2> QED BY <2>6, <2>7
<1>2. \E g : IsPlain(g, text, Len(text)) BY <1>0, <1>1
<1>3. \E g : IsPlain(g, text, Len(text)) /\ stripAnsi(text) = g[Len(text)]
  BY <1>2 DEF IsPlain, NextPlain, Opening, stripAnsi
<1>4. PICK g : IsPlain(g, text, Len(text)) /\ stripAnsi(text) = g[Len(text)] BY <1>3
<1>5. g[0] = << >> /\ \A k \in 1 .. Len(text) : g[k] = NextPlain(g[k - 1], text, k)
  BY <1>0, <1>4 DEF IsPlain
<1> DEFINE S == {k \in 0 .. Len(text) : g[k] \in Texts}
<1>6. 0 \in S BY <1>0, <1>5
<1>7. ASSUME NEW k \in 1 .. Len(text), k - 1 \in S PROVE k \in S
  <2>1. text[k] \in Letters BY LenProperties DEF Texts
  <2>2. g[k - 1] \in Texts /\ k \in 0 .. Len(text) BY <1>7
  <2>3. Append(g[k - 1], text[k]) \in Texts BY <2>1, <2>2, AppendProperties DEF Texts
  <2>4. g[k] \in {g[k - 1], Append(g[k - 1], text[k])} BY <1>5 DEF NextPlain
  <2> QED BY <2>2, <2>3, <2>4
<1>8. \A k \in 0 .. Len(text) : k \in S
  <2> HIDE DEF S
  <2> QED BY <1>0, <1>6, <1>7, CountsUp
<1> QED BY <1>0, <1>4, <1>8

\* Where the answers end: at nothing for no rule, and begin each rule to the next.
NextEnd(rs, text, i, begin) ==
  LET rest == SubSeq(text, begin + 1, Len(text))
      end == Ends(rest, rs[i].expect)
  IN  IF rs[i].expect = << >> THEN begin ELSE IF end > 0 THEN begin + end ELSE Len(text) + 1
IsRead(g, rs, text, m) ==
  g = [i \in 0 .. m |-> IF i = 0 THEN 0 ELSE NextEnd(rs, text, i, g[i - 1])]

\* The reference that reads the whole output, rule by rule, unfolded.
LEMMA AnswerEndsIs ==
  ASSUME NEW rs, Len(rs) \in Nat, NEW text
  PROVE  /\ AnswerEnds(rs, text)[0] = 0
         /\ \A i \in 1 .. Len(rs) : AnswerEnds(rs, text)[i] = NextEnd(rs, text, i, AnswerEnds(rs, text)[i - 1])
<1> DEFINE Unwalked == {m \in 0 .. Len(rs) : ~\E w : IsRead(w, rs, text, m)}
<1>1. Unwalked = {}
  <2>1. SUFFICES ASSUME Unwalked # {} PROVE FALSE OBVIOUS
  <2>2. Unwalked \in SUBSET Nat OBVIOUS
  <2>3. \E m \in Unwalked : \A j \in Unwalked : m <= j
    <3> HIDE DEF Unwalked
    <3> QED BY <2>1, <2>2, FirstExists
  <2>4. PICK m \in Unwalked : \A j \in Unwalked : m <= j BY <2>3
  <2>5. m \in 0 .. Len(rs) /\ ~\E w : IsRead(w, rs, text, m) OBVIOUS
  <2>6. CASE m = 0
    <3>1. IsRead([k \in 0 .. 0 |-> 0], rs, text, 0) BY DEF IsRead
    <3> QED BY <2>5, <2>6, <3>1
  <2>7. CASE m # 0
    <3>1. m - 1 \in 0 .. Len(rs) /\ ~(m <= m - 1) /\ m \in Nat \ {0} BY <2>5, <2>7
    <3>2. m - 1 \notin Unwalked BY <2>4, <3>1
    <3>3. PICK g : IsRead(g, rs, text, m - 1) BY <3>1, <3>2
    <3> DEFINE h == [k \in 0 .. m |-> IF k = m THEN NextEnd(rs, text, m, g[m - 1]) ELSE g[k]]
    <3>4. \A k \in 0 .. m - 1 : h[k] = g[k] BY <3>1
    <3>5. \A k \in 0 .. m - 1 : g[k] = IF k = 0 THEN 0 ELSE NextEnd(rs, text, k, g[k - 1])
      BY <3>3 DEF IsRead
    <3>6. ASSUME NEW k \in 0 .. m PROVE h[k] = IF k = 0 THEN 0 ELSE NextEnd(rs, text, k, h[k - 1])
      <4>1. CASE k = m
        <5>1. h[k] = NextEnd(rs, text, m, g[m - 1]) BY <4>1
        <5>2. h[m - 1] = g[m - 1] BY <3>1, <3>4
        <5> QED BY <3>1, <4>1, <5>1, <5>2
      <4>2. CASE k # m
        <5>1. k \in 0 .. m - 1 /\ (k # 0 => k - 1 \in 0 .. m - 1) BY <3>1, <4>2
        <5>2. h[k] = g[k] /\ (k # 0 => h[k - 1] = g[k - 1]) BY <3>4, <5>1
        <5> QED BY <3>5, <5>1, <5>2
      <4> QED BY <4>1, <4>2
    <3>7. h = [k \in 0 .. m |-> h[k]] OBVIOUS
    <3> HIDE DEF h
    <3>8. h = [k \in 0 .. m |-> IF k = 0 THEN 0 ELSE NextEnd(rs, text, k, h[k - 1])] BY <3>6, <3>7
    <3> QED BY <2>5, <3>8 DEF IsRead
  <2> QED BY <2>6, <2>7
<1>2. \E w : IsRead(w, rs, text, Len(rs)) BY <1>1
<1>3. IsRead(AnswerEnds(rs, text), rs, text, Len(rs)) BY <1>2 DEF IsRead, AnswerEnds, NextEnd
<1> DEFINE g == AnswerEnds(rs, text)
<1> HIDE DEF g
<1>4. g[0] = 0 /\ \A i \in 1 .. Len(rs) : g[i] = NextEnd(rs, text, i, g[i - 1])
  BY <1>3 DEF IsRead, g
<1> QED BY <1>4 DEF g

Rest(text, c) == SubSeq(text, c + 1, Len(text))

\* The rest of a text after its first letters.
LEMMA RestIs ==
  ASSUME NEW text \in Texts, NEW c \in 0 .. Len(text)
  PROVE  /\ Rest(text, c) \in Texts /\ Len(Rest(text, c)) = Len(text) - c
         /\ \A i \in 1 .. Len(text) - c : Rest(text, c)[i] = text[c + i]
<1>1. Len(text) \in Nat BY DEF Texts
<1>2. c + 1 \in 1 .. Len(text) + 1 /\ Len(text) \in 0 .. Len(text) BY <1>1
<1> DEFINE a == c + 1
<1>3. a \in 1 .. Len(text) + 1 BY <1>2
<1> HIDE DEF a
<1>4. /\ SubSeq(text, a, Len(text)) \in Texts
      /\ Len(SubSeq(text, a, Len(text))) = (IF a <= Len(text) THEN Len(text) - a + 1 ELSE 0)
      /\ \A i \in 1 .. Len(SubSeq(text, a, Len(text))) : SubSeq(text, a, Len(text))[i] = text[a + i - 1]
  BY <1>1, <1>2, <1>3, CutText
<1>5. Len(SubSeq(text, a, Len(text))) = Len(text) - c BY <1>1, <1>4 DEF a
<1>6. \A i \in 1 .. Len(text) - c : a + i - 1 = c + i BY <1>1 DEF a
<1> QED BY <1>4, <1>5, <1>6 DEF Rest, a

\* More output lengthens the rest by itself.
LEMMA RestLonger ==
  ASSUME NEW text \in Texts, NEW more \in Texts, NEW c \in 0 .. Len(text)
  PROVE  Rest(text \o more, c) = Rest(text, c) \o more
<1> DEFINE all == text \o more
           s == Rest(all, c)
           t == Rest(text, c)
           u == t \o more
<1>1. /\ all \in Texts /\ Len(all) = Len(text) + Len(more) /\ Len(text) \in Nat /\ Len(more) \in Nat
      /\ \A i \in 1 .. Len(text) : all[i] = text[i]
      /\ \A i \in Len(text) + 1 .. Len(text) + Len(more) : all[i] = more[i - Len(text)]
  BY Longer
<1> HIDE DEF all
<1>2. c \in 0 .. Len(all) BY <1>1
<1>3. /\ s \in Texts /\ Len(s) = Len(all) - c /\ \A i \in 1 .. Len(all) - c : s[i] = all[c + i]
  BY <1>1, <1>2, RestIs
<1>4. /\ t \in Texts /\ Len(t) = Len(text) - c /\ \A i \in 1 .. Len(text) - c : t[i] = text[c + i]
  BY RestIs
<1> HIDE DEF s, t
<1>5. /\ u \in Texts /\ Len(u) = Len(t) + Len(more)
      /\ \A i \in 1 .. Len(t) : u[i] = t[i]
      /\ \A i \in Len(t) + 1 .. Len(t) + Len(more) : u[i] = more[i - Len(t)]
  BY <1>4, Longer
<1> HIDE DEF u
<1>6. Len(s) = Len(u) BY <1>1, <1>3, <1>4, <1>5
<1>7. ASSUME NEW i \in 1 .. Len(s) PROVE s[i] = u[i]
  <2>1. i \in 1 .. Len(all) - c /\ s[i] = all[c + i] BY <1>1, <1>3
  <2>2. CASE i <= Len(text) - c
    <3>1. c + i \in 1 .. Len(text) /\ i \in 1 .. Len(t) /\ i \in 1 .. Len(text) - c BY <1>1, <1>4, <2>1, <2>2
    <3> QED BY <1>1, <1>4, <1>5, <2>1, <3>1
  <2>3. CASE i > Len(text) - c
    <3>1. c + i \in Len(text) + 1 .. Len(text) + Len(more) /\ i \in Len(t) + 1 .. Len(t) + Len(more)
          /\ (c + i) - Len(text) = i - Len(t)
      BY <1>1, <1>4, <2>1, <2>3
    <3> QED BY <1>1, <1>5, <2>1, <3>1
  <2> QED BY <1>1, <2>1, <2>2, <2>3
<1>8. s = u BY <1>3, <1>5, <1>6, <1>7, SameTexts
<1> QED BY <1>8 DEF s, u, t, all

\* The rest of a rest.
LEMMA RestOfRest ==
  ASSUME NEW text \in Texts, NEW c \in 0 .. Len(text), NEW e \in 0 .. Len(text) - c
  PROVE  Rest(Rest(text, c), e) = Rest(text, c + e)
<1> DEFINE s == Rest(text, c)
           t == Rest(s, e)
           u == Rest(text, c + e)
<1>0. Len(text) \in Nat BY DEF Texts
<1>1. /\ s \in Texts /\ Len(s) = Len(text) - c /\ \A i \in 1 .. Len(text) - c : s[i] = text[c + i]
  BY RestIs
<1> HIDE DEF s
<1>2. e \in 0 .. Len(s) /\ c + e \in 0 .. Len(text) BY <1>0, <1>1
<1>3. /\ t \in Texts /\ Len(t) = Len(s) - e /\ \A i \in 1 .. Len(s) - e : t[i] = s[e + i]
  BY <1>1, <1>2, RestIs
<1>4. /\ u \in Texts /\ Len(u) = Len(text) - (c + e) /\ \A i \in 1 .. Len(text) - (c + e) : u[i] = text[c + e + i]
  BY <1>2, RestIs
<1> HIDE DEF t, u
<1>5. Len(t) = Len(u) BY <1>0, <1>1, <1>3, <1>4
<1>6. ASSUME NEW i \in 1 .. Len(t) PROVE t[i] = u[i]
  <2>1. e + i \in 1 .. Len(text) - c /\ i \in 1 .. Len(s) - e /\ i \in 1 .. Len(text) - (c + e) /\ c + (e + i) = c + e + i
    BY <1>0, <1>1, <1>3
  <2> QED BY <1>1, <1>3, <1>4, <2>1
<1>7. t = u BY <1>3, <1>4, <1>5, <1>6, SameTexts
<1> QED BY <1>7 DEF s, t, u

\* A rule expects a text and is optional or not.
LEMMA ExpectIs ==
  ASSUME NEW rs \in Seq(Rules), NEW i \in 1 .. Len(rs)
  PROVE  rs[i].expect \in Texts /\ rs[i].optional \in BOOLEAN
<1>1. rs[i] \in Rules BY LenProperties
<1> QED BY <1>1 DEF Rules

\* The end of one more answer lies in the text, or one past it when there is none.
LEMMA NextEndIs ==
  ASSUME NEW rs \in Seq(Rules), NEW text \in Texts, NEW i \in 1 .. Len(rs), NEW c \in 0 .. Len(text) + 1
  PROVE  /\ NextEnd(rs, text, i, c) \in 0 .. Len(text) + 1
         /\ c = Len(text) + 1 => NextEnd(rs, text, i, c) = Len(text) + 1
<1>0. Len(text) \in Nat BY DEF Texts
<1>1. rs[i].expect \in Texts BY ExpectIs
<1>2. CASE c = Len(text) + 1
  <2>1. SubSeq(text, c + 1, Len(text)) = << >> BY <1>0, <1>2, SubSeqProperties DEF Texts
  <2>2. << >> \in Texts /\ Len(<< >>) = 0 BY DEF Texts
  <2>3. rs[i].expect # << >> => Ends(<< >>, rs[i].expect) = 0
    <3>1. ASSUME rs[i].expect # << >> PROVE Ends(<< >>, rs[i].expect) = 0
      <4>1. Ends(<< >>, rs[i].expect) \in 0 .. 0 BY <1>1, <2>2, <3>1, EndsIs
      <4> QED BY <4>1
    <3> QED BY <3>1
  <2>4. NextEnd(rs, text, i, c) = IF rs[i].expect = << >> THEN c
                                  ELSE IF Ends(<< >>, rs[i].expect) > 0 THEN c + Ends(<< >>, rs[i].expect)
                                  ELSE Len(text) + 1
    BY <2>1 DEF NextEnd
  <2>5. NextEnd(rs, text, i, c) = Len(text) + 1 BY <1>2, <2>3, <2>4
  <2> QED BY <1>0, <2>5
<1>3. CASE c # Len(text) + 1
  <2>1. c \in 0 .. Len(text) BY <1>0, <1>3
  <2>2. Rest(text, c) \in Texts /\ Len(Rest(text, c)) = Len(text) - c BY <2>1, RestIs
  <2>3. rs[i].expect # << >> => Ends(Rest(text, c), rs[i].expect) \in 0 .. Len(text) - c
    BY <1>1, <2>2, EndsIs
  <2>4. CASE rs[i].expect # << >>
    <3>1. NextEnd(rs, text, i, c) = IF Ends(Rest(text, c), rs[i].expect) > 0
                                    THEN c + Ends(Rest(text, c), rs[i].expect) ELSE Len(text) + 1
      BY <2>4 DEF NextEnd, Rest
    <3> QED BY <1>0, <1>3, <2>1, <2>3, <2>4, <3>1
  <2>5. CASE rs[i].expect = << >> BY <1>3, <2>5 DEF NextEnd
  <2> QED BY <2>4, <2>5
<1> QED BY <1>2, <1>3

\* So do all ends of the reference.
LEMMA EndsInRange ==
  ASSUME NEW rs \in Seq(Rules), NEW text \in Texts
  PROVE  \A i \in 0 .. Len(rs) : AnswerEnds(rs, text)[i] \in 0 .. Len(text) + 1
<1> DEFINE g == AnswerEnds(rs, text)
           Bad == {i \in 0 .. Len(rs) : g[i] \notin 0 .. Len(text) + 1}
<1>0. Len(text) \in Nat /\ Len(rs) \in Nat BY DEF Texts
<1>1. g[0] = 0 /\ \A i \in 1 .. Len(rs) : g[i] = NextEnd(rs, text, i, g[i - 1]) BY <1>0, AnswerEndsIs
<1> HIDE DEF g
<1>2. Bad = {}
  <2>1. SUFFICES ASSUME Bad # {} PROVE FALSE OBVIOUS
  <2>2. Bad \in SUBSET Nat OBVIOUS
  <2>3. \E m \in Bad : \A j \in Bad : m <= j
    <3> HIDE DEF Bad
    <3> QED BY <2>1, <2>2, FirstExists
  <2>4. PICK m \in Bad : \A j \in Bad : m <= j BY <2>3
  <2>5. m # 0 BY <1>0, <1>1
  <2>6. m \in 1 .. Len(rs) /\ m - 1 \in 0 .. Len(rs) /\ ~(m <= m - 1) BY <1>0, <2>5
  <2>7. g[m - 1] \in 0 .. Len(text) + 1 BY <2>4, <2>6
  <2>8. NextEnd(rs, text, m, g[m - 1]) \in 0 .. Len(text) + 1 BY <2>6, <2>7, NextEndIs
  <2> QED BY <1>1, <2>6, <2>8
<1> QED BY <1>2 DEF g

\* Behind a rule that is not answered none is.
LEMMA LateStays ==
  ASSUME NEW rs \in Seq(Rules), NEW text \in Texts, NEW m \in 0 .. Len(rs),
         AnswerEnds(rs, text)[m] = Len(text) + 1
  PROVE  \A i \in m .. Len(rs) : AnswerEnds(rs, text)[i] = Len(text) + 1
<1> DEFINE g == AnswerEnds(rs, text)
           Bad == {i \in m .. Len(rs) : g[i] # Len(text) + 1}
<1>0. Len(text) \in Nat /\ Len(rs) \in Nat BY DEF Texts
<1>1. \A i \in 1 .. Len(rs) : g[i] = NextEnd(rs, text, i, g[i - 1]) BY <1>0, AnswerEndsIs
<1>2. g[m] = Len(text) + 1 OBVIOUS
<1> HIDE DEF g
<1>3. Bad = {}
  <2>1. SUFFICES ASSUME Bad # {} PROVE FALSE OBVIOUS
  <2>2. Bad \in SUBSET Nat OBVIOUS
  <2>3. \E k \in Bad : \A j \in Bad : k <= j
    <3> HIDE DEF Bad
    <3> QED BY <2>1, <2>2, FirstExists
  <2>4. PICK k \in Bad : \A j \in Bad : k <= j BY <2>3
  <2>5. k # m BY <1>2
  <2>6. k \in 1 .. Len(rs) /\ k - 1 \in m .. Len(rs) /\ ~(k <= k - 1) BY <1>0, <2>5
  <2>7. g[k - 1] = Len(text) + 1 BY <2>4, <2>6
  <2>9. g[k - 1] \in 0 .. Len(text) + 1 BY <1>0, <2>7
  <2>8. NextEnd(rs, text, k, g[k - 1]) = Len(text) + 1 BY <2>6, <2>7, <2>9, NextEndIs
  <2> QED BY <1>1, <2>6, <2>8
<1> QED BY <1>3 DEF g

\* What an output answers it answers where it did when it goes on.
LEMMA EndsStay ==
  ASSUME NEW rs \in Seq(Rules), NEW text \in Texts, NEW more \in Texts
  PROVE  \A i \in 0 .. Len(rs) : AnswerEnds(rs, text)[i] <= Len(text)
             => AnswerEnds(rs, text \o more)[i] = AnswerEnds(rs, text)[i]
<1> DEFINE all == text \o more
           g == AnswerEnds(rs, text)
           h == AnswerEnds(rs, all)
           Bad == {i \in 0 .. Len(rs) : g[i] <= Len(text) /\ h[i] # g[i]}
<1>0. Len(text) \in Nat /\ Len(rs) \in Nat BY DEF Texts
<1>1. g[0] = 0 /\ \A i \in 1 .. Len(rs) : g[i] = NextEnd(rs, text, i, g[i - 1]) BY <1>0, AnswerEndsIs
<1>2. h[0] = 0 /\ \A i \in 1 .. Len(rs) : h[i] = NextEnd(rs, all, i, h[i - 1]) BY <1>0, AnswerEndsIs
<1>3. \A i \in 0 .. Len(rs) : g[i] \in 0 .. Len(text) + 1 BY EndsInRange
<1> HIDE DEF g, h
<1>4. Bad = {}
  <2>1. SUFFICES ASSUME Bad # {} PROVE FALSE OBVIOUS
  <2>2. Bad \in SUBSET Nat OBVIOUS
  <2>3. \E k \in Bad : \A j \in Bad : k <= j
    <3> HIDE DEF Bad
    <3> QED BY <2>1, <2>2, FirstExists
  <2>4. PICK k \in Bad : \A j \in Bad : k <= j BY <2>3
  <2>5. k # 0 BY <1>1, <1>2
  <2>6. k \in 1 .. Len(rs) /\ k - 1 \in 0 .. Len(rs) /\ ~(k <= k - 1) BY <1>0, <2>5
  <2> DEFINE c == g[k - 1]
             what == rs[k].expect
  <2>7. c \in 0 .. Len(text)
    <3>1. c \in 0 .. Len(text) + 1 BY <1>3, <2>6
    <3>2. c # Len(text) + 1 BY <1>0, <1>1, <2>4, <2>6, <3>1, NextEndIs
    <3> QED BY <1>0, <3>1, <3>2
  <2>8. h[k - 1] = c BY <1>0, <2>4, <2>6, <2>7
  <2>9. what \in Texts BY <2>6, ExpectIs
  <2>10. g[k] = NextEnd(rs, text, k, c) /\ h[k] = NextEnd(rs, all, k, c) BY <1>1, <1>2, <2>6, <2>8
  <2>11. what # << >> BY <2>4, <2>10 DEF NextEnd
  <2>12. g[k] = IF Ends(Rest(text, c), what) > 0 THEN c + Ends(Rest(text, c), what) ELSE Len(text) + 1
    BY <2>10, <2>11 DEF NextEnd, Rest
  <2>13. h[k] = IF Ends(Rest(all, c), what) > 0 THEN c + Ends(Rest(all, c), what) ELSE Len(all) + 1
    BY <2>10, <2>11 DEF NextEnd, Rest
  <2>14. Ends(Rest(text, c), what) > 0 BY <1>0, <2>4, <2>12
  <2>15. Rest(all, c) = Rest(text, c) \o more BY <2>7, RestLonger
  <2>16. Rest(text, c) \in Texts BY <2>7, RestIs
  <2>17. Ends(Rest(all, c), what) = Ends(Rest(text, c), what) BY <2>9, <2>11, <2>14, <2>15, <2>16, EndsLonger
  <2> HIDE DEF all
  <2> QED BY <2>4, <2>12, <2>13, <2>14, <2>17
<1> HIDE DEF all
<1>5. \A i \in 0 .. Len(rs) : g[i] <= Len(text) => h[i] = g[i] BY <1>4
<1> QED BY <1>5 DEF g, h, all

Required(i) == ~rules[i].optional
Straight == \A i \in DOMAIN rules : Required(i)
Upward(q) == \A j, k \in DOMAIN q : j < k => q[j] < q[k]
Ordered(q) == \A j, k \in DOMAIN q : Required(q[j]) /\ Required(q[k]) /\ j < k => q[j] < q[k]
Precede(q, r) == \A j \in DOMAIN q, k \in DOMAIN r : Required(q[j]) /\ Required(r[k]) => q[j] < r[k]

RuleInv ==
  /\ rules \in Seq(Rules) /\ armed \in Seq(DOMAIN rules) /\ fired \in Seq(DOMAIN rules)
  /\ Len(armed) + Len(fired) = Len(rules)
  /\ Entries(armed) \cup Entries(fired) = DOMAIN rules
  /\ Injective(fired) /\ Upward(armed) /\ Entries(armed) \cap Entries(fired) = {}
  /\ Ordered(fired) /\ Precede(fired, armed)
TextInv ==
  /\ buffer \in Texts /\ Len(buffer) <= MaxBuffer /\ output \in Texts /\ fed \in 0 .. MaxFed
\* How far the walk over the whole text is when no rule is optional.
ReadsOn(text, pend, buf, done) ==
  /\ \A k \in DOMAIN done : done[k] = k /\ AnswerEnds(rules, text)[k] <= Len(text)
  /\ \A k \in DOMAIN pend : pend[k] = Len(done) + k
  /\ pend # << >> => /\ buf = Rest(text, AnswerEnds(rules, text)[Len(done)])
                    /\ ~Matches(Len(done) + 1, buf)
PromptInv ==
  /\ RuleInv /\ TextInv
  /\ Straight /\ Len(output) <= MaxBuffer => ReadsOn(output, armed, buffer, fired)

\* The walk after its first k rules.
WalksOn(w, k, text) ==
  /\ w \in [on : BOOLEAN, armed : Seq(DOMAIN rules), buffer : Texts, fired : Seq(DOMAIN rules)]
  /\ Len(w.armed) + Len(w.fired) = Len(fired) + k
  /\ Entries(w.armed) \cup Entries(w.fired) = Entries(fired) \cup {armed[j] : j \in 1 .. k}
  /\ Entries(w.armed) \subseteq {armed[j] : j \in 1 .. k}
  /\ Injective(w.fired) /\ Upward(w.armed) /\ Entries(w.armed) \cap Entries(w.fired) = {}
  /\ Ordered(w.fired) /\ Precede(w.fired, w.armed)
  /\ \A i \in DOMAIN w.fired, j \in k + 1 .. Len(armed) :
        Required(w.fired[i]) /\ Required(armed[j]) => w.fired[i] < armed[j]
  /\ w.on => \A i \in DOMAIN w.armed : ~Required(w.armed[i])
  /\ Len(w.buffer) <= Len(text)

\* A pass begins with nothing fired and nothing cut.
LEMMA GoesBegins == ASSUME RuleInv, NEW text \in Texts PROVE WalksOn(Begun(text), 0, text)
<1> DEFINE w == Begun(text)
<1>0. w.on = TRUE /\ w.armed = << >> /\ w.buffer = text /\ w.fired = fired BY DEF Begun
<1>1. w \in [on : BOOLEAN, armed : Seq(DOMAIN rules), buffer : Texts, fired : Seq(DOMAIN rules)]
  BY DEF Begun, RuleInv
<1> HIDE DEF w
<1>2. DOMAIN w.armed = {} /\ Entries(w.armed) = {} /\ Len(w.armed) = 0 BY <1>0 DEF Entries
<1>3. {armed[j] : j \in 1 .. 0} = {} OBVIOUS
<1>4. \A i \in DOMAIN w.fired, j \in 1 .. Len(armed) :
        Required(w.fired[i]) /\ Required(armed[j]) => w.fired[i] < armed[j]
  BY <1>0 DEF RuleInv, Precede
<1>5. Len(fired) \in Nat /\ Len(text) \in Nat BY DEF RuleInv, Texts
<1>6. Upward(w.armed) /\ Precede(w.fired, w.armed) BY <1>2 DEF Upward, Precede
<1> QED BY <1>0, <1>1, <1>2, <1>3, <1>4, <1>5, <1>6 DEF WalksOn, RuleInv, w

\* What is left of the buffer after a rule matched is no longer than before.
LEMMA CutIs ==
  ASSUME RuleInv, NEW i \in DOMAIN rules, NEW text \in Texts, Matches(i, text)
  PROVE  Cut(i, text) \in Texts /\ Len(Cut(i, text)) <= Len(text)
<1>0. Len(text) \in Nat BY DEF Texts
<1>1. rules[i].expect \in Texts BY ExpectIs DEF RuleInv
<1>2. CASE rules[i].expect = << >> BY <1>0, <1>2 DEF Cut
<1>3. CASE rules[i].expect # << >>
  <2>1. Ends(text, rules[i].expect) \in 0 .. Len(text) BY <1>1, <1>3, EndsIs
  <2>2. Cut(i, text) = Rest(text, Ends(text, rules[i].expect)) BY <1>3 DEF Cut, Rest
  <2> QED BY <1>0, <2>1, <2>2, RestIs
<1> QED BY <1>2, <1>3

\* A pass that visits one more armed rule: it fires and cuts the buffer, or stays armed.
LEMMA GoesOn ==
  ASSUME RuleInv, NEW text \in Texts, NEW k \in 1 .. Len(armed), NEW w, WalksOn(w, k - 1, text)
  PROVE  WalksOn(Visit(w, armed[k]), k, text)
<1> DEFINE i == armed[k]
           v == Visit(w, i)
           D == DOMAIN rules
<1>0. /\ Len(armed) \in Nat /\ DOMAIN armed = 1 .. Len(armed) /\ Len(text) \in Nat /\ Len(fired) \in Nat
      /\ D = 1 .. Len(rules) /\ Len(rules) \in Nat
  BY DEF RuleInv, Texts
<1>1. i \in D BY <1>0 DEF RuleInv
<1>2. /\ w \in [on : BOOLEAN, armed : Seq(D), buffer : Texts, fired : Seq(D)]
      /\ w.armed \in Seq(D) /\ w.fired \in Seq(D) /\ w.buffer \in Texts /\ w.on \in BOOLEAN
      /\ Len(w.armed) \in Nat /\ Len(w.fired) \in Nat
  BY DEF WalksOn
<1>3. {armed[j] : j \in 1 .. k} = {armed[j] : j \in 1 .. k - 1} \cup {i}
  <2>1. \A j \in 1 .. k : j \in 1 .. k - 1 \/ j = k BY <1>0
  <2>2. \A j \in 1 .. k - 1 : j \in 1 .. k BY <1>0
  <2>3. k \in 1 .. k BY <1>0
  <2> QED BY <2>1, <2>2, <2>3
<1>4. \A j \in 1 .. k - 1 : armed[j] < i
  <2>1. Upward(armed) BY DEF RuleInv
  <2>2. k \in DOMAIN armed /\ \A j \in 1 .. k - 1 : j \in DOMAIN armed /\ j < k BY <1>0
  <2> QED BY <2>1, <2>2 DEF Upward
<1>5. \A j \in k + 1 .. Len(armed) : i < armed[j]
  <2>1. Upward(armed) BY DEF RuleInv
  <2>2. k \in DOMAIN armed /\ \A j \in k + 1 .. Len(armed) : j \in DOMAIN armed /\ k < j BY <1>0
  <2> QED BY <2>1, <2>2 DEF Upward
<1>6. i \notin Entries(w.armed) /\ i \notin Entries(w.fired)
  <2>1. i \notin Entries(fired) BY <1>0 DEF RuleInv, Entries
  <2>2. i \notin {armed[j] : j \in 1 .. k - 1}
    <3>1. \A j \in 1 .. k - 1 : armed[j] \in D /\ armed[j] < i BY <1>0, <1>4 DEF RuleInv
    <3> QED BY <1>0, <1>1, <3>1
  <2> QED BY <2>1, <2>2 DEF WalksOn
<1>7. \A x \in DOMAIN w.armed : w.armed[x] \in D /\ w.armed[x] < i
  <2>1. \A x \in DOMAIN w.armed : w.armed[x] \in {armed[j] : j \in 1 .. k - 1} BY DEF WalksOn, Entries
  <2> QED BY <1>0, <1>2, <1>4, <2>1
<1>8. \A x \in DOMAIN w.fired : Required(w.fired[x]) /\ Required(i) => w.fired[x] < i
  <2>1. k \in (k - 1) + 1 .. Len(armed) BY <1>0
  <2> QED BY <2>1 DEF WalksOn
<1>9. \A j \in k + 1 .. Len(armed) : j \in (k - 1) + 1 .. Len(armed) BY <1>0
<1>10. Entries(w.armed) \cup Entries(w.fired) \cup {i} = Entries(fired) \cup {armed[j] : j \in 1 .. k}
  BY <1>3 DEF WalksOn
<1>11. Len(w.armed) + Len(w.fired) + 1 = Len(fired) + k BY <1>0, <1>2 DEF WalksOn
<1> HIDE DEF i, D
<1>12. CASE w.on /\ Matches(i, w.buffer)
  <2>1. v = [w EXCEPT !.buffer = Cut(i, w.buffer), !.fired = Append(w.fired, i)] BY <1>12 DEF Visit
  <2>2. Cut(i, w.buffer) \in Texts /\ Len(Cut(i, w.buffer)) <= Len(w.buffer) BY <1>1, <1>2, <1>12, CutIs DEF D
  <2>3. /\ Append(w.fired, i) \in Seq(D) /\ Len(Append(w.fired, i)) = Len(w.fired) + 1
        /\ DOMAIN w.fired = 1 .. Len(w.fired) /\ DOMAIN Append(w.fired, i) = 1 .. Len(w.fired) + 1
        /\ \A x \in DOMAIN w.fired : Append(w.fired, i)[x] = w.fired[x]
        /\ Append(w.fired, i)[Len(w.fired) + 1] = i
        /\ Entries(Append(w.fired, i)) = Entries(w.fired) \cup {i}
    BY <1>1, <1>2, Appended
  <2>4. v \in [on : BOOLEAN, armed : Seq(D), buffer : Texts, fired : Seq(D)]
        /\ v.on = w.on /\ v.armed = w.armed /\ v.buffer = Cut(i, w.buffer) /\ v.fired = Append(w.fired, i)
    BY <1>2, <2>1, <2>2, <2>3
  <2> HIDE DEF v
  <2>5. Injective(v.fired) BY <1>1, <1>2, <1>6, <2>4, InjectiveAppended DEF WalksOn
  <2>6. \A x \in DOMAIN v.fired : (x \in DOMAIN w.fired /\ v.fired[x] = w.fired[x]) \/ (x = Len(w.fired) + 1 /\ v.fired[x] = i)
    BY <1>2, <2>3, <2>4
  <2>7. Ordered(v.fired)
    <3> SUFFICES ASSUME NEW x \in DOMAIN v.fired, NEW y \in DOMAIN v.fired, Required(v.fired[x]),
                        Required(v.fired[y]), x < y
                 PROVE  v.fired[x] < v.fired[y]
      BY DEF Ordered
    <3>1. CASE y = Len(w.fired) + 1
      <4>1. x \in DOMAIN w.fired /\ y \notin DOMAIN w.fired BY <1>2, <2>3, <2>4, <3>1
      <4> QED BY <1>8, <2>6, <4>1
    <3>2. CASE y \in DOMAIN w.fired
      <4>1. x \in DOMAIN w.fired BY <1>2, <2>3, <2>4, <3>2
      <4>2. v.fired[x] = w.fired[x] /\ v.fired[y] = w.fired[y] BY <2>3, <2>4, <3>2, <4>1
      <4> QED BY <3>2, <4>1, <4>2 DEF WalksOn, Ordered
    <3> QED BY <2>6, <3>1, <3>2
  <2>8. \A x \in DOMAIN v.armed : ~Required(v.armed[x]) BY <1>12, <2>4 DEF WalksOn
  <2>9. Precede(v.fired, v.armed) BY <2>8 DEF Precede
  <2>10. ASSUME NEW x \in DOMAIN v.fired, NEW j \in k + 1 .. Len(armed), Required(v.fired[x]), Required(armed[j])
         PROVE  v.fired[x] < armed[j]
    <3>1. CASE v.fired[x] = i BY <1>5, <2>10, <3>1 DEF i
    <3>2. CASE x \in DOMAIN w.fired /\ v.fired[x] = w.fired[x] BY <1>9, <2>10, <3>2 DEF WalksOn
    <3> QED BY <2>6, <3>1, <3>2
  <2>11. Entries(v.armed) \subseteq {armed[j] : j \in 1 .. k} BY <1>3, <2>4 DEF WalksOn
  <2>12. Entries(v.armed) \cap Entries(v.fired) = {} BY <1>6, <2>3, <2>4 DEF WalksOn
  <2>13. Entries(v.armed) \cup Entries(v.fired) = Entries(fired) \cup {armed[j] : j \in 1 .. k} BY <1>10, <2>3, <2>4
  <2>14. Len(v.armed) + Len(v.fired) = Len(fired) + k BY <1>2, <1>11, <2>3, <2>4
  <2>15. Len(v.buffer) <= Len(text)
    <3>1. Len(w.buffer) \in Nat /\ Len(Cut(i, w.buffer)) \in Nat /\ Len(w.buffer) <= Len(text) BY <1>2, <2>2 DEF WalksOn, Texts
    <3> QED BY <1>0, <2>2, <2>4, <3>1
  <2>16. Upward(v.armed) BY <2>4 DEF WalksOn
  <2> QED BY <2>4, <2>5, <2>7, <2>8, <2>9, <2>10, <2>11, <2>12, <2>13, <2>14, <2>15, <2>16 DEF WalksOn, D, v, i
<1>13. CASE ~(w.on /\ Matches(i, w.buffer))
  <2>1. v = [w EXCEPT !.armed = Append(w.armed, i), !.on = w.on /\ rules[i].optional] BY <1>13 DEF Visit
  <2>3. /\ Append(w.armed, i) \in Seq(D) /\ Len(Append(w.armed, i)) = Len(w.armed) + 1
        /\ DOMAIN w.armed = 1 .. Len(w.armed) /\ DOMAIN Append(w.armed, i) = 1 .. Len(w.armed) + 1
        /\ \A x \in DOMAIN w.armed : Append(w.armed, i)[x] = w.armed[x]
        /\ Append(w.armed, i)[Len(w.armed) + 1] = i
        /\ Entries(Append(w.armed, i)) = Entries(w.armed) \cup {i}
    BY <1>1, <1>2, Appended
  <2>4. v \in [on : BOOLEAN, armed : Seq(D), buffer : Texts, fired : Seq(D)]
        /\ v.armed = Append(w.armed, i) /\ v.buffer = w.buffer /\ v.fired = w.fired
        /\ v.on = (w.on /\ rules[i].optional)
    BY <1>2, <2>1, <2>3
  <2> HIDE DEF v
  <2>6. \A x \in DOMAIN v.armed : (x \in DOMAIN w.armed /\ v.armed[x] = w.armed[x]) \/ (x = Len(w.armed) + 1 /\ v.armed[x] = i)
    BY <1>2, <2>3, <2>4
  <2>7. Upward(v.armed)
    <3> SUFFICES ASSUME NEW x \in DOMAIN v.armed, NEW y \in DOMAIN v.armed, x < y
                 PROVE  v.armed[x] < v.armed[y]
      BY DEF Upward
    <3>1. CASE y = Len(w.armed) + 1
      <4>1. x \in DOMAIN w.armed /\ y \notin DOMAIN w.armed BY <1>2, <2>3, <2>4, <3>1
      <4> QED BY <1>7, <2>6, <4>1
    <3>2. CASE y \in DOMAIN w.armed
      <4>1. x \in DOMAIN w.armed BY <1>2, <2>3, <2>4, <3>2
      <4>2. v.armed[x] = w.armed[x] /\ v.armed[y] = w.armed[y] BY <2>3, <2>4, <3>2, <4>1
      <4> QED BY <3>2, <4>1, <4>2 DEF WalksOn, Upward
    <3> QED BY <2>6, <3>1, <3>2
  <2>8. v.on => \A x \in DOMAIN v.armed : ~Required(v.armed[x])
    <3>1. ASSUME v.on, NEW x \in DOMAIN v.armed PROVE ~Required(v.armed[x])
      <4>1. w.on /\ ~Required(i) BY <2>4, <3>1 DEF Required
      <4> QED BY <2>6, <4>1 DEF WalksOn
    <3> QED BY <3>1
  <2>9. Precede(v.fired, v.armed)
    <3> SUFFICES ASSUME NEW x \in DOMAIN v.fired, NEW y \in DOMAIN v.armed, Required(v.fired[x]), Required(v.armed[y])
                 PROVE  v.fired[x] < v.armed[y]
      BY DEF Precede
    <3>1. CASE v.armed[y] = i BY <1>8, <2>4, <3>1
    <3>2. CASE y \in DOMAIN w.armed /\ v.armed[y] = w.armed[y] BY <2>4, <3>2 DEF WalksOn, Precede
    <3> QED BY <2>6, <3>1, <3>2
  <2>10. \A x \in DOMAIN v.fired, j \in k + 1 .. Len(armed) :
            Required(v.fired[x]) /\ Required(armed[j]) => v.fired[x] < armed[j]
    BY <1>9, <2>4 DEF WalksOn
  <2>11. Entries(v.armed) \subseteq {armed[j] : j \in 1 .. k} BY <1>3, <2>3, <2>4 DEF WalksOn
  <2>12. Entries(v.armed) \cap Entries(v.fired) = {} BY <1>6, <2>3, <2>4 DEF WalksOn
  <2>13. Entries(v.armed) \cup Entries(v.fired) = Entries(fired) \cup {armed[j] : j \in 1 .. k} BY <1>10, <2>3, <2>4
  <2>14. Len(v.armed) + Len(v.fired) = Len(fired) + k BY <1>2, <1>11, <2>3, <2>4
  <2>15. Injective(v.fired) /\ Ordered(v.fired) /\ Len(v.buffer) <= Len(text) BY <2>4 DEF WalksOn
  <2> QED BY <2>4, <2>7, <2>8, <2>9, <2>10, <2>11, <2>12, <2>13, <2>14, <2>15 DEF WalksOn, D, v, i
<1> QED BY <1>12, <1>13 DEF v, i

\* The walk over rules none of which is optional, in a text that is read at once.
GoesStraight(w, k, text) ==
  /\ \A j \in DOMAIN w.fired : w.fired[j] = j /\ AnswerEnds(rules, text)[j] <= Len(text)
  /\ \A j \in DOMAIN w.armed : w.armed[j] = Len(w.fired) + j
  /\ w.buffer = Rest(text, AnswerEnds(rules, text)[Len(w.fired)])
  /\ w.on => w.armed = << >>
  /\ ~w.on => ~Matches(Len(w.fired) + 1, w.buffer)

\* The reference agrees with the buffer about the next rule to fire.
LEMMA Answered ==
  ASSUME RuleInv, NEW text \in Texts, NEW m \in 0 .. Len(rules) - 1,
         AnswerEnds(rules, text)[m] \in 0 .. Len(text)
  PROVE  LET c == AnswerEnds(rules, text)[m] IN
         /\ Matches(m + 1, Rest(text, c)) =>
              /\ AnswerEnds(rules, text)[m + 1] \in 0 .. Len(text)
              /\ Cut(m + 1, Rest(text, c)) = Rest(text, AnswerEnds(rules, text)[m + 1])
         /\ ~Matches(m + 1, Rest(text, c)) => AnswerEnds(rules, text)[m + 1] = Len(text) + 1
<1> DEFINE g == AnswerEnds(rules, text)
           c == g[m]
           what == rules[m + 1].expect
           rest == Rest(text, c)
<1>0. Len(text) \in Nat /\ Len(rules) \in Nat /\ rules \in Seq(Rules) BY DEF Texts, RuleInv
<1>1. m + 1 \in 1 .. Len(rules) /\ (m + 1) - 1 = m BY <1>0
<1>2. g[m + 1] = NextEnd(rules, text, m + 1, g[m]) BY <1>0, <1>1, AnswerEndsIs
<1>3. what \in Texts BY <1>0, <1>1, ExpectIs
<1>4. c \in 0 .. Len(text) OBVIOUS
<1> HIDE DEF g
<1>5. rest \in Texts /\ Len(rest) = Len(text) - c BY <1>4, RestIs
<1>6. CASE what = << >>
  <2>1. g[m + 1] = c /\ Matches(m + 1, rest) /\ Cut(m + 1, rest) = rest BY <1>2, <1>6 DEF NextEnd, Matches, Cut
  <2> QED BY <1>4, <2>1 DEF g
<1>7. CASE what # << >>
  <2> DEFINE e == Ends(rest, what)
  <2>1. e \in 0 .. Len(text) - c BY <1>3, <1>5, <1>7, EndsIs
  <2>2. g[m + 1] = IF e > 0 THEN c + e ELSE Len(text) + 1 BY <1>2, <1>7 DEF NextEnd, Rest
  <2>3. Matches(m + 1, rest) <=> e > 0 BY <1>7 DEF Matches
  <2>4. Cut(m + 1, rest) = Rest(rest, e) BY <1>7 DEF Cut, Rest
  <2> HIDE DEF e
  <2>5. Rest(rest, e) = Rest(text, c + e) BY <1>4, <2>1, RestOfRest
  <2>6. c + e \in 0 .. Len(text) BY <1>0, <1>4, <2>1
  <2> QED BY <2>2, <2>3, <2>4, <2>5, <2>6 DEF g
<1> QED BY <1>6, <1>7

\* Rules that must come in order: a pass fires the next one as the reference does.
LEMMA StraightOn ==
  ASSUME RuleInv, Straight, NEW text \in Texts, NEW k \in 1 .. Len(armed), NEW w,
         NEW kept, WalksOn(w, k - 1, kept),
         GoesStraight(w, k - 1, text), \A j \in DOMAIN armed : armed[j] = Len(fired) + j
  PROVE  GoesStraight(Visit(w, armed[k]), k, text)
<1> DEFINE i == armed[k]
           v == Visit(w, i)
           D == DOMAIN rules
           g == AnswerEnds(rules, text)
           m == Len(w.fired)
<1>0. /\ Len(armed) \in Nat /\ DOMAIN armed = 1 .. Len(armed) /\ Len(text) \in Nat /\ Len(fired) \in Nat
      /\ D = 1 .. Len(rules) /\ Len(rules) \in Nat /\ Len(armed) + Len(fired) = Len(rules)
      /\ rules \in Seq(Rules)
  BY DEF RuleInv, Texts
<1>1. i \in D /\ i = Len(fired) + k
  <2>1. armed \in Seq(D) /\ k \in DOMAIN armed BY <1>0 DEF RuleInv
  <2> HIDE DEF D
  <2>2. armed[k] \in D BY <2>1
  <2> QED BY <2>1, <2>2
<1>2. /\ w \in [on : BOOLEAN, armed : Seq(D), buffer : Texts, fired : Seq(D)]
      /\ w.armed \in Seq(D) /\ w.fired \in Seq(D) /\ w.on \in BOOLEAN
      /\ Len(w.armed) \in Nat /\ m \in Nat /\ DOMAIN w.fired = 1 .. m
  BY DEF WalksOn
<1>3. Len(w.armed) + m = Len(fired) + (k - 1) BY DEF WalksOn
<1>4. g[m] \in 0 .. Len(text)
  <2>1. m \in 0 .. Len(rules) BY <1>0, <1>2, <1>3
  <2>2. g[m] \in 0 .. Len(text) + 1 BY <1>0, <2>1, EndsInRange
  <2>3. g[0] = 0 BY <1>0, AnswerEndsIs
  <2>4. m # 0 => g[m] <= Len(text) BY <1>2 DEF GoesStraight
  <2> HIDE DEF g
  <2> QED BY <1>0, <2>2, <2>3, <2>4
<1>5. /\ \A j \in DOMAIN w.fired : w.fired[j] = j /\ g[j] <= Len(text)
      /\ \A j \in DOMAIN w.armed : w.armed[j] = m + j
      /\ w.buffer = Rest(text, g[m])
      /\ w.on => w.armed = << >>
      /\ ~w.on => ~Matches(m + 1, w.buffer)
  BY DEF GoesStraight
<1>6. ~rules[i].optional BY <1>1 DEF Straight, Required
<1>7. w.on => i = m + 1
  <2>1. ASSUME w.on PROVE i = m + 1
    <3>1. Len(w.armed) = 0 BY <1>5, <2>1
    <3> QED BY <1>0, <1>1, <1>2, <1>3, <3>1
  <2> QED BY <2>1
<1>8. i = m + Len(w.armed) + 1 BY <1>0, <1>1, <1>2, <1>3
<1>9. CASE w.on /\ Matches(i, w.buffer)
  <2>1. v = [w EXCEPT !.buffer = Cut(i, w.buffer), !.fired = Append(w.fired, i)] BY <1>9 DEF Visit
  <2>2. v.on = w.on /\ v.armed = w.armed /\ v.buffer = Cut(i, w.buffer) /\ v.fired = Append(w.fired, i)
    BY <1>2, <2>1
  <2>3. /\ Len(Append(w.fired, i)) = m + 1 /\ DOMAIN Append(w.fired, i) = 1 .. m + 1
        /\ \A x \in DOMAIN w.fired : Append(w.fired, i)[x] = w.fired[x]
        /\ Append(w.fired, i)[m + 1] = i
    BY <1>1, <1>2, Appended
  <2>4. m \in 0 .. Len(rules) - 1 BY <1>0, <1>1, <1>2, <1>7, <1>9
  <2>5. g[m + 1] \in 0 .. Len(text) /\ Cut(m + 1, Rest(text, g[m])) = Rest(text, g[m + 1])
    BY <1>4, <1>5, <1>7, <1>9, <2>4, Answered
  <2> HIDE DEF v, g, m, i
  <2>6. ASSUME NEW j \in DOMAIN v.fired PROVE v.fired[j] = j /\ g[j] <= Len(text)
    <3>1. CASE j = m + 1 BY <1>0, <1>7, <1>9, <2>2, <2>3, <2>5, <3>1
    <3>2. CASE j # m + 1
      <4>1. j \in DOMAIN w.fired BY <1>2, <2>2, <2>3, <3>2
      <4> QED BY <1>5, <2>2, <2>3, <4>1
    <3> QED BY <3>1, <3>2
  <2>7. v.armed = << >> BY <1>5, <1>9, <2>2
  <2>8. v.buffer = Rest(text, g[Len(v.fired)]) BY <1>5, <1>7, <1>9, <2>2, <2>3, <2>5
  <2>9. v.on BY <1>9, <2>2
  <2> QED BY <2>6, <2>7, <2>8, <2>9 DEF GoesStraight, v, g, i
<1>10. CASE ~(w.on /\ Matches(i, w.buffer))
  <2>1. v = [w EXCEPT !.armed = Append(w.armed, i), !.on = w.on /\ rules[i].optional] BY <1>10 DEF Visit
  <2>2. v.on = (w.on /\ rules[i].optional) /\ v.armed = Append(w.armed, i) /\ v.buffer = w.buffer /\ v.fired = w.fired
    BY <1>2, <2>1
  <2>3. ~v.on BY <1>6, <2>2
  <2>4. /\ DOMAIN w.armed = 1 .. Len(w.armed) /\ DOMAIN Append(w.armed, i) = 1 .. Len(w.armed) + 1
        /\ \A x \in DOMAIN w.armed : Append(w.armed, i)[x] = w.armed[x]
        /\ Append(w.armed, i)[Len(w.armed) + 1] = i
    BY <1>1, <1>2, Appended
  <2>5. ~Matches(m + 1, v.buffer) BY <1>5, <1>7, <1>10, <2>2
  <2> HIDE DEF v, g, m, i
  <2>6. ASSUME NEW j \in DOMAIN v.armed PROVE v.armed[j] = m + j
    <3>1. CASE j = Len(w.armed) + 1 BY <1>2, <1>8, <2>2, <2>4, <3>1
    <3>2. CASE j # Len(w.armed) + 1
      <4>1. j \in DOMAIN w.armed BY <1>2, <2>2, <2>4, <3>2
      <4> QED BY <1>5, <2>2, <2>4, <4>1
    <3> QED BY <3>1, <3>2
  <2>7. m = Len(v.fired) BY <2>2 DEF m
  <2> QED BY <1>5, <2>2, <2>3, <2>5, <2>6, <2>7 DEF GoesStraight, v, g, i
<1> QED BY <1>9, <1>10 DEF v, i

\* What the buffer keeps is its end, and never more than its limit.
LEMMA KeepIs ==
  ASSUME NEW text \in Texts
  PROVE  Keep(text, MaxBuffer) \in Texts /\ Len(Keep(text, MaxBuffer)) <= MaxBuffer
<1>1. Len(text) \in Nat /\ MaxBuffer \in Nat BY PromptAssumption DEF Texts
<1>2. CASE Len(text) <= MaxBuffer BY <1>2 DEF Keep
<1>3. CASE ~(Len(text) <= MaxBuffer)
  <2> DEFINE c == Len(text) - MaxBuffer
  <2>1. c \in 0 .. Len(text) BY <1>1, <1>3
  <2>2. Keep(text, MaxBuffer) = Rest(text, c) BY <1>3 DEF Keep, Rest
  <2> HIDE DEF c
  <2>3. Keep(text, MaxBuffer) \in Texts /\ Len(Keep(text, MaxBuffer)) = Len(text) - c BY <2>1, <2>2, RestIs
  <2> QED BY <1>1, <2>3 DEF c
<1> QED BY <1>2, <1>3

\* The walk as a whole.
LEMMA WalkEnds ==
  ASSUME RuleInv, NEW text \in Texts
  PROVE  /\ WalksOn(Walk(text), Len(armed), text)
         /\ \A whole \in Texts :
              Straight /\ GoesStraight(Begun(text), 0, whole) /\ (\A j \in DOMAIN armed : armed[j] = Len(fired) + j)
              => GoesStraight(Walk(text), Len(armed), whole)
<1>0. Len(armed) \in Nat BY DEF RuleInv
<1>1. PICK w : /\ w[0] = Begun(text) /\ \A k \in 1 .. Len(armed) : w[k] = Visit(w[k - 1], armed[k])
               /\ Walk(text) = w[Len(armed)]
  BY <1>0, WalkIs
<1>2. \A k \in 0 .. Len(armed) : WalksOn(w[k], k, text)
  <2> DEFINE S == {k \in 0 .. Len(armed) : WalksOn(w[k], k, text)}
  <2>1. 0 \in S BY <1>0, <1>1, GoesBegins
  <2>2. ASSUME NEW k \in 1 .. Len(armed), k - 1 \in S PROVE k \in S
    BY <1>0, <1>1, <2>2, GoesOn
  <2>3. \A k \in 0 .. Len(armed) : k \in S
    <3> HIDE DEF S
    <3> QED BY <1>0, <2>1, <2>2, CountsUp
  <2> QED BY <2>3
<1>3. ASSUME NEW whole \in Texts, Straight, GoesStraight(Begun(text), 0, whole),
             \A j \in DOMAIN armed : armed[j] = Len(fired) + j
      PROVE  GoesStraight(Walk(text), Len(armed), whole)
  <2> DEFINE S == {k \in 0 .. Len(armed) : GoesStraight(w[k], k, whole)}
  <2>1. 0 \in S BY <1>0, <1>1, <1>3
  <2>2. ASSUME NEW k \in 1 .. Len(armed), k - 1 \in S PROVE k \in S
    <3>1. GoesStraight(w[k - 1], k - 1, whole) /\ k - 1 \in 0 .. Len(armed) BY <2>2
    <3>2. WalksOn(w[k - 1], k - 1, text) BY <1>2, <3>1
    <3>3. GoesStraight(Visit(w[k - 1], armed[k]), k, whole) BY <1>3, <3>1, <3>2, StraightOn
    <3> QED BY <1>0, <1>1, <3>3
  <2>3. \A k \in 0 .. Len(armed) : k \in S
    <3> HIDE DEF S
    <3> QED BY <1>0, <2>1, <2>2, CountsUp
  <2>4. Len(armed) \in S BY <1>0, <2>3
  <2> QED BY <1>1, <2>4
<1> QED BY <1>0, <1>1, <1>2, <1>3

\* A chunk of output: the buffer grows, is passed over and is cut to its limit.
LEMMA FeedKeeps ==
  ASSUME PromptInv, NEW chunk \in Chunks, Feed(chunk) PROVE PromptInv'
<1> DEFINE piece == stripAnsi(chunk)
<1>00. chunk \in Texts BY PromptAssumption DEF Texts
<1>0. /\ RuleInv /\ TextInv /\ piece \in Texts /\ rules' = rules /\ output' = output \o piece
      /\ fed' = fed + 1 /\ fed < MaxFed /\ MaxFed \in Nat /\ MaxBuffer \in Nat
  BY <1>00, PromptAssumption, Stripped DEF PromptInv, Feed, Texts
<1> HIDE DEF piece
<1>1. output \in Texts /\ buffer \in Texts /\ Len(buffer) <= MaxBuffer /\ fed \in 0 .. MaxFed BY <1>0 DEF TextInv
<1>2. output' \in Texts /\ Len(output') = Len(output) + Len(piece) /\ Len(output) \in Nat /\ Len(piece) \in Nat
  BY <1>0, <1>1, Longer
<1>3. fed' \in 0 .. MaxFed BY <1>0, <1>1
<1>4. rules \in Seq(Rules) /\ Len(rules) \in Nat /\ DOMAIN rules = 1 .. Len(rules)
      /\ DOMAIN fired = 1 .. Len(fired) /\ Len(fired) \in 0 .. Len(rules) /\ Len(armed) \in Nat
      /\ DOMAIN armed = 1 .. Len(armed)
  BY <1>0 DEF RuleInv
<1> DEFINE g == AnswerEnds(rules, output)
           h == AnswerEnds(rules, output')
<1>5. \A i \in 0 .. Len(rules) : g[i] <= Len(output) => h[i] = g[i] BY <1>0, <1>1, <1>4, EndsStay
<1>6. CASE armed = << >>
  <2>1. UNCHANGED <<armed, buffer, fired>> BY <1>6 DEF Feed
  <2>2. RuleInv' BY <1>0, <2>1 DEF RuleInv, Ordered, Precede, Required
  <2>3. TextInv' BY <1>1, <1>2, <1>3, <2>1 DEF TextInv
  <2>4. ASSUME Straight, Len(output') <= MaxBuffer PROVE ReadsOn(output, armed, buffer, fired)
    <3>1. Len(output) <= MaxBuffer BY <1>0, <1>2, <2>4
    <3> QED BY <2>4, <3>1 DEF PromptInv
  <2>5. ASSUME Straight', Len(output') <= MaxBuffer PROVE ReadsOn(output', armed, buffer, fired)
    <3>1. Straight BY <1>0, <2>5 DEF Straight, Required
    <3>2. \A k \in DOMAIN fired : fired[k] = k /\ g[k] <= Len(output) BY <2>4, <2>5, <3>1 DEF ReadsOn
    <3> HIDE DEF g, h
    <3>3. ASSUME NEW k \in DOMAIN fired PROVE fired[k] = k /\ h[k] <= Len(output')
      <4>1. k \in 0 .. Len(rules) /\ g[k] <= Len(output) BY <1>4, <3>2
      <4>2. h[k] = g[k] BY <1>5, <4>1
      <4>3. h[k] \in 0 .. Len(output') + 1 BY <1>2, <1>4, <4>1, EndsInRange DEF h
      <4> QED BY <1>2, <3>2, <4>1, <4>2, <4>3
    <3>4. DOMAIN armed = {} BY <1>6
    <3> QED BY <1>6, <3>3, <3>4 DEF ReadsOn, h
  <2>6. Straight' /\ Len(output)' <= MaxBuffer => ReadsOn(output, armed, buffer, fired)'
    BY <1>0, <2>1, <2>5 DEF ReadsOn, Matches
  <2> QED BY <2>2, <2>3, <2>6 DEF PromptInv
<1>7. CASE armed # << >>
  <2> DEFINE text == Keep(buffer \o piece, MaxBuffer)
             w == Walk(text)
  <2>1. armed' = w.armed /\ buffer' = w.buffer /\ fired' = w.fired BY <1>7 DEF Feed, piece
  <2>2. buffer \o piece \in Texts BY <1>0, <1>1, Longer
  <2>3. text \in Texts /\ Len(text) <= MaxBuffer BY <2>2, KeepIs
  <2> HIDE DEF text
  <2>4. WalksOn(w, Len(armed), text) BY <1>0, <2>3, WalkEnds
  <2> HIDE DEF w
  <2>5. RuleInv'
    <3>1. {armed[j] : j \in 1 .. Len(armed)} = Entries(armed) BY <1>4 DEF Entries
    <3>2. Len(w.armed) + Len(w.fired) = Len(rules) BY <1>0, <1>4, <2>4 DEF WalksOn, RuleInv
    <3>3. Entries(w.armed) \cup Entries(w.fired) = DOMAIN rules BY <1>0, <2>4, <3>1 DEF WalksOn, RuleInv
    <3>4. w.armed \in Seq(DOMAIN rules) /\ w.fired \in Seq(DOMAIN rules) BY <2>4 DEF WalksOn
    <3>5. /\ Injective(w.fired) /\ Upward(w.armed) /\ Entries(w.armed) \cap Entries(w.fired) = {}
          /\ Ordered(w.fired) /\ Precede(w.fired, w.armed)
      BY <2>4 DEF WalksOn
    <3> QED BY <1>0, <1>4, <2>1, <3>2, <3>3, <3>4, <3>5 DEF RuleInv, Ordered, Precede, Required
  <2>6. TextInv'
    <3>1. w.buffer \in Texts /\ Len(w.buffer) <= Len(text) BY <2>4 DEF WalksOn
    <3>2. Len(w.buffer) \in Nat /\ Len(text) \in Nat BY <2>3, <3>1 DEF Texts
    <3> QED BY <1>0, <1>2, <1>3, <2>1, <2>3, <3>1, <3>2 DEF TextInv
  <2>7. ASSUME Straight, Len(output') <= MaxBuffer PROVE ReadsOn(output', w.armed, w.buffer, w.fired)
    <3> DEFINE m == Len(fired)
    <3>0. Len(output) <= MaxBuffer BY <1>0, <1>2, <2>7
    <3>1. ReadsOn(output, armed, buffer, fired) BY <2>7, <3>0 DEF PromptInv
    <3>2. /\ \A k \in DOMAIN fired : fired[k] = k /\ g[k] <= Len(output)
          /\ \A k \in DOMAIN armed : armed[k] = m + k
          /\ buffer = Rest(output, g[m])
      BY <1>7, <3>1 DEF ReadsOn
    <3>3. g[m] \in 0 .. Len(output)
      <4>1. g[m] \in 0 .. Len(output) + 1 BY <1>1, <1>4, EndsInRange
      <4>2. g[0] = 0 BY <1>4, AnswerEndsIs
      <4> HIDE DEF g
      <4> QED BY <1>2, <1>4, <3>2, <4>1, <4>2
    <3>4. h[m] = g[m]
      <4> HIDE DEF g, h
      <4> QED BY <1>2, <1>4, <1>5, <3>3
    <3>5. Rest(output', g[m]) = buffer \o piece
      <4> HIDE DEF g
      <4> QED BY <1>0, <1>1, <3>2, <3>3, RestLonger
    <3>6. Len(buffer \o piece) <= MaxBuffer
      <4> HIDE DEF g
      <4>1. Len(buffer) = Len(output) - g[m] BY <1>1, <3>2, <3>3, RestIs
      <4>2. Len(buffer \o piece) = Len(buffer) + Len(piece) BY <1>0, <1>1, Longer
      <4>3. g[m] \in Nat /\ g[m] <= Len(output) /\ Len(output) + Len(piece) <= MaxBuffer BY <1>0, <1>2, <2>7, <3>3
      <4>4. (Len(output) - g[m]) + Len(piece) <= MaxBuffer BY <1>0, <1>2, <4>3
      <4> QED BY <4>1, <4>2, <4>4
    <3>7. text = buffer \o piece BY <3>6 DEF text, Keep
    <3>8. \A k \in DOMAIN fired : h[k] <= Len(output')
      <4> HIDE DEF g, h
      <4>1. \A k \in DOMAIN fired : k \in 0 .. Len(rules) /\ g[k] <= Len(output) BY <1>4, <3>2
      <4>2. \A k \in 0 .. Len(rules) : g[k] \in 0 .. Len(output) + 1 BY <1>1, <1>4, EndsInRange DEF g
      <4> QED BY <1>2, <1>5, <4>1, <4>2
    <3>9. GoesStraight(Begun(text), 0, output')
      <4> DEFINE b == Begun(text)
      <4>1. b.on = TRUE /\ b.armed = << >> /\ b.buffer = text /\ b.fired = fired BY DEF Begun
      <4> HIDE DEF b
      <4>2. DOMAIN b.armed = {} BY <4>1
      <4> QED BY <3>2, <3>4, <3>5, <3>7, <3>8, <4>1, <4>2 DEF GoesStraight, b
    <3>10. GoesStraight(w, Len(armed), output')
      BY <1>0, <1>2, <2>3, <2>7, <3>2, <3>9, WalkEnds DEF w
    <3>11. w.armed # << >> => ~w.on BY <3>10 DEF GoesStraight
    <3> QED BY <3>10, <3>11 DEF GoesStraight, ReadsOn
  <2>8. Straight' /\ Len(output)' <= MaxBuffer => ReadsOn(output, armed, buffer, fired)'
    <3>1. Straight' => Straight BY <1>0 DEF Straight, Required
    <3> QED BY <1>0, <2>1, <2>7, <3>1 DEF ReadsOn, Matches
  <2> QED BY <2>5, <2>6, <2>8 DEF PromptInv
<1> QED BY <1>6, <1>7

\* So the rules and the buffer stay as described, whatever is printed.
LEMMA PromptInvInductive == PromptInv /\ [PromptNext]_promptVars => PromptInv'
<1>1. ASSUME PromptInv, UNCHANGED promptVars PROVE PromptInv'
  BY <1>1 DEF promptVars, PromptInv, RuleInv, TextInv, ReadsOn, Straight, Ordered, Precede, Required, Matches
<1> QED BY <1>1, FeedKeeps DEF PromptNext

\* A process that starts has all its leading rules armed and an empty buffer.
LEMMA PromptInvInit == PromptInit => PromptInv
<1> SUFFICES ASSUME PromptInit PROVE PromptInv OBVIOUS
<1>1. rules \in RuleLists /\ buffer = << >> /\ output = << >> /\ fed = 0 BY DEF PromptInit
<1>2. rules \in Seq(Rules) BY <1>1, PromptAssumption DEF Rules, Texts
<1>3. PICK n \in 0 .. Len(rules) : /\ Leading(n) /\ fired = [i \in 1 .. n |-> i]
                                  /\ armed = [k \in 1 .. Len(rules) - n |-> k + n]
  BY DEF PromptInit
<1>4. Len(rules) \in Nat /\ DOMAIN rules = 1 .. Len(rules) /\ Len(rules) - n \in Nat BY <1>2
<1>5. fired \in Seq(DOMAIN rules) /\ Len(fired) = n /\ DOMAIN fired = 1 .. n /\ \A k \in 1 .. n : fired[k] = k
  <2>1. fired \in [1 .. n -> DOMAIN rules] BY <1>3, <1>4
  <2> QED BY <1>3, <1>4, <2>1, SeqDef
<1>6. armed \in Seq(DOMAIN rules) /\ Len(armed) = Len(rules) - n /\ DOMAIN armed = 1 .. Len(rules) - n
      /\ \A k \in 1 .. Len(rules) - n : armed[k] = k + n
  <2>1. armed \in [1 .. Len(rules) - n -> DOMAIN rules] BY <1>3, <1>4
  <2> QED BY <1>3, <1>4, <2>1, SeqDef
<1>7. Entries(fired) = 1 .. n BY <1>5 DEF Entries
<1>8. Entries(armed) = n + 1 .. Len(rules)
  <2>1. ASSUME NEW i \in n + 1 .. Len(rules) PROVE i \in Entries(armed)
    <3>1. i - n \in 1 .. Len(rules) - n /\ (i - n) + n = i BY <1>4
    <3> QED BY <1>6, <3>1 DEF Entries
  <2>2. ASSUME NEW k \in DOMAIN armed PROVE armed[k] \in n + 1 .. Len(rules)
    <3>1. k \in 1 .. Len(rules) - n /\ armed[k] = k + n BY <1>6
    <3>2. k + n \in n + 1 .. Len(rules) BY <1>4, <3>1
    <3> QED BY <3>1, <3>2
  <2> QED BY <2>1, <2>2 DEF Entries
<1>9. RuleInv
  <2>1. Entries(armed) \cup Entries(fired) = DOMAIN rules /\ Entries(armed) \cap Entries(fired) = {}
    BY <1>4, <1>7, <1>8
  <2>2. Injective(fired) /\ Ordered(fired) BY <1>5 DEF Injective, Ordered
  <2>3. Upward(armed)
    <3>1. n \in Nat /\ \A j, k \in Nat : j < k => j + n < k + n BY <1>4
    <3>2. ASSUME NEW j \in DOMAIN armed PROVE j \in Nat /\ armed[j] = j + n
      <4>1. j \in 1 .. Len(rules) - n BY <1>6
      <4> QED BY <1>4, <1>6, <4>1
    <3> QED BY <3>1, <3>2 DEF Upward
  <2>4. Precede(fired, armed) BY <1>4, <1>5, <1>6 DEF Precede
  <2> QED BY <1>2, <1>4, <1>5, <1>6, <2>1, <2>2, <2>3, <2>4 DEF RuleInv
<1>10. << >> \in Texts /\ Len(<< >>) = 0 BY DEF Texts
<1>11. TextInv BY <1>1, <1>10, PromptAssumption DEF TextInv
<1>12. ReadsOn(output, armed, buffer, fired)
  <2> DEFINE g == AnswerEnds(rules, output)
  <2>1. g[0] = 0 /\ \A i \in 1 .. Len(rules) : g[i] = NextEnd(rules, output, i, g[i - 1]) BY <1>4, AnswerEndsIs
  <2> HIDE DEF g
  <2>2. \A k \in 0 .. n : g[k] = 0
    <3> DEFINE S == {k \in 0 .. n : g[k] = 0}
    <3>1. 0 \in S BY <1>4, <2>1
    <3>2. ASSUME NEW k \in 1 .. n, k - 1 \in S PROVE k \in S
      <4>1. rules[k].expect = << >> /\ k \in 1 .. Len(rules) /\ g[k - 1] = 0 BY <1>3, <1>4, <3>2 DEF Leading
      <4>2. g[k] = g[k - 1] BY <2>1, <4>1 DEF NextEnd
      <4> QED BY <1>4, <4>1, <4>2
    <3>3. \A k \in 0 .. n : k \in S
      <4> HIDE DEF S
      <4> QED BY <3>1, <3>2, CountsUp
    <3> QED BY <3>3
  <2>3. ASSUME armed # << >> PROVE buffer = Rest(output, g[n]) /\ ~Matches(n + 1, buffer)
    <3>1. n < Len(rules)
      <4>1. Len(armed) # 0 BY <1>6, <2>3, EmptySeq
      <4>2. Len(armed) = Len(rules) - n BY <1>6
      <4>3. Len(rules) - n # 0 BY <4>1, <4>2
      <4>4. \A a, b \in Nat : b \in 0 .. a /\ a - b # 0 => b < a OBVIOUS
      <4>5. n \in Nat /\ Len(rules) \in Nat BY <1>4
      <4> QED BY <4>3, <4>4, <4>5
    <3>2. rules[n + 1].expect # << >> BY <1>3, <3>1 DEF Leading
    <3>3. rules[n + 1].expect \in Texts BY <1>2, <1>4, <3>1, ExpectIs
    <3>4. Ends(<< >>, rules[n + 1].expect) \in 0 .. 0 BY <1>10, <3>2, <3>3, EndsIs
    <3>5. ~Matches(n + 1, buffer) BY <1>1, <3>2, <3>4 DEF Matches
    <3>6. g[n] = 0 BY <1>4, <2>2
    <3>7. Rest(<< >>, 0) = << >>
      <4>1. Rest(<< >>, 0) \in Texts /\ Len(Rest(<< >>, 0)) = 0 BY <1>10, RestIs
      <4> QED BY <4>1, EmptySeq DEF Texts
    <3> QED BY <1>1, <3>5, <3>6, <3>7
  <2>4. \A k \in DOMAIN fired : fired[k] = k /\ g[k] <= Len(output)
    BY <1>1, <1>4, <1>5, <1>10, <2>2
  <2>5. \A k \in DOMAIN armed : armed[k] = n + k BY <1>4, <1>6
  <2> QED BY <1>5, <2>3, <2>4, <2>5 DEF ReadsOn, g
<1> QED BY <1>9, <1>11, <1>12 DEF PromptInv

\* So required rules fire in their order, each where a reader of the whole output would.
LEMMA PromptInvMeaning == PromptInv => PromptTypeOK /\ RulesFireInOrder
<1> SUFFICES ASSUME PromptInv PROVE PromptTypeOK /\ RulesFireInOrder OBVIOUS
<1>0. RuleInv /\ TextInv BY DEF PromptInv
<1>1. PromptTypeOK BY <1>0 DEF PromptTypeOK, RuleInv, TextInv, Entries
<1>2. \A j, k \in DOMAIN fired : fired[j] = fired[k] => j = k BY <1>0 DEF RuleInv, Injective
<1>3. \A j, k \in DOMAIN fired :
           ~rules[fired[j]].optional /\ ~rules[fired[k]].optional /\ j < k => fired[j] < fired[k]
  BY <1>0 DEF RuleInv, Ordered, Required
<1>4. ASSUME InOrder, Len(output) <= MaxBuffer PROVE AnsweredBy(output)
  <2>1. ReadsOn(output, armed, buffer, fired) BY <1>4 DEF PromptInv, InOrder, Straight, Required
  <2>2. /\ rules \in Seq(Rules) /\ Len(rules) \in Nat /\ DOMAIN rules = 1 .. Len(rules) /\ output \in Texts
        /\ DOMAIN fired = 1 .. Len(fired) /\ Len(fired) \in 0 .. Len(rules) /\ Len(output) \in Nat
        /\ armed \in Seq(DOMAIN rules) /\ Len(armed) + Len(fired) = Len(rules) /\ Len(armed) \in Nat
    BY <1>0 DEF RuleInv, TextInv, Texts
  <2> DEFINE g == AnswerEnds(rules, output)
             m == Len(fired)
  <2>3. ASSUME NEW i \in DOMAIN rules, i <= m PROVE g[i] <= Len(output)
    BY <2>1, <2>2, <2>3 DEF ReadsOn
  <2>4. ASSUME NEW i \in DOMAIN rules, ~(i <= m) PROVE g[i] = Len(output) + 1
    <3>1. m \in 0 .. Len(rules) - 1 /\ m + 1 \in 0 .. Len(rules) /\ i \in m + 1 .. Len(rules) BY <2>2, <2>4
    <3>2. armed # << >> BY <2>2, <3>1, EmptySeq
    <3>3. ~Matches(m + 1, Rest(output, g[m])) BY <2>1, <3>2 DEF ReadsOn
    <3>4. g[m] \in 0 .. Len(output)
      <4>1. g[m] \in 0 .. Len(output) + 1 BY <2>2, EndsInRange
      <4>2. g[0] = 0 BY <2>2, AnswerEndsIs
      <4>3. m # 0 => g[m] <= Len(output) BY <2>1, <2>2 DEF ReadsOn
      <4> HIDE DEF g
      <4> QED BY <2>2, <4>1, <4>2, <4>3
    <3>5. g[m + 1] = Len(output) + 1 BY <1>0, <2>2, <3>1, <3>3, <3>4, Answered
    <3> QED BY <2>2, <3>1, <3>5, LateStays
  <2>5. \A i \in DOMAIN rules : i <= m <=> g[i] <= Len(output)
    <3> HIDE DEF g
    <3> QED BY <2>2, <2>3, <2>4
  <2> QED BY <2>1, <2>5 DEF ReadsOn, AnsweredBy
<1> QED BY <1>1, <1>2, <1>3, <1>4 DEF RulesFireInOrder

---------------------------------------------------------------------------------------
(* ProjectFile. Every entry carries the edit that wrote it, no later than the last edit, and
   the entries with fields the page does not know are those that were annotated by hand. *)

FormKeys == {"port", "links", "waitForPort", "starred", "who", "extra"}
Parts == {"at", "id", "typed", "fields"}

\* FormRecords of a file with these ids: their links, and who they are.
FormRecords(P, known) ==
  /\ DOMAIN P \subseteq LocalIds /\ DOMAIN P # {}
  /\ \A i \in DOMAIN P : /\ DOMAIN P[i] = FormKeys /\ P[i].links \subseteq LocalIds
                         /\ P[i].links \subseteq (DOMAIN P \cup known) \ {i}
  /\ \A i, j \in DOMAIN P : P[i].who = P[j].who => i = j
Older(P, n) == \A i \in DOMAIN P : P[i].who[2] \in Nat /\ P[i].who[2] <= n

FileInv ==
  /\ FormRecords(file, unknown) /\ Older(file, edits) /\ edits \in Nat
  /\ \A i \in DOMAIN file : file[i].extra \in BOOLEAN /\ (file[i].extra = TRUE <=> file[i].who \in annotated)
  /\ \A w \in annotated : w[2] \in Nat /\ w[2] <= edits
  /\ toggles \subseteq DOMAIN file
FormInv ==
  form = << >> \/ \E f : /\ form = <<f>> /\ DOMAIN f = Parts /\ f.id \in LocalIds
                         /\ DOMAIN f.fields = Fields /\ f.fields.links \subseteq LocalIds
PfInv == FileInv /\ FormInv

\* The file the page finds first.
LEMMA PfInvInit == PfInit => PfInv
<1> SUFFICES ASSUME PfInit PROVE PfInv
  OBVIOUS
<1>1. DOMAIN file = FirstIds /\ \A i \in FirstIds : file[i] = Record(<<i, 0>>)
  BY DEF PfInit
<1>2. \A w : DOMAIN Record(w) = FormKeys /\ Record(w).links = {} /\ Record(w).who = w /\ Record(w).extra = FALSE
  BY DEF Record, FormKeys
<1>3. FormRecords(file, unknown)
  <2>1. \A i \in FirstIds : DOMAIN file[i] = FormKeys /\ file[i].links = {} /\ file[i].who = <<i, 0>>
    BY <1>1, <1>2
  <2>2. ASSUME NEW i, NEW j, <<i, 0>> = <<j, 0>> PROVE i = j
    BY <2>2
  <2>3. \A i, j \in FirstIds : file[i].who = file[j].who => i = j
    BY <2>1, <2>2
  <2> QED BY <1>1, <2>1, <2>3, ProjectFileAssumption DEF FormRecords
<1>4. Older(file, edits) /\ edits \in Nat
  BY <1>1, <1>2 DEF Older, PfInit
<1>5. FileInv
  BY <1>1, <1>2, <1>3, <1>4 DEF FileInv, PfInit
<1> QED BY <1>5 DEF PfInv, FormInv, PfInit

\* FileWritten with the keys that ride along, and read again.
LEMMA FileWritten ==
  ASSUME FileInv, NEW P, NEW E, FormRecords(P, unknown'), edits' = edits + 1, Older(P, edits'),
         \A i \in DOMAIN P : i \in E <=> P[i].who \in annotated, writeRaw(P, E), UNCHANGED annotated
  PROVE  FileInv'
<1>1. /\ DOMAIN file' = DOMAIN P /\ toggles' = toggles \cap DOMAIN P
      /\ \A i \in DOMAIN P : file'[i] = [P[i] EXCEPT !.extra = i \in E]
  BY DEF writeRaw, ForgetGone
<1>2. ASSUME NEW i \in DOMAIN P
      PROVE /\ DOMAIN file'[i] = FormKeys /\ file'[i].links = P[i].links /\ file'[i].who = P[i].who
            /\ file'[i].extra = (i \in E)
  <2>1. DOMAIN P[i] = FormKeys
    BY DEF FormRecords
  <2> QED BY <1>1, <2>1 DEF FormKeys
<1>3. FormRecords(file', unknown')
  BY <1>1, <1>2 DEF FormRecords
<1>4. Older(file', edits') /\ edits' \in Nat
  BY <1>1, <1>2 DEF Older, FileInv
<1>5. ASSUME NEW i \in DOMAIN file' PROVE file'[i].extra \in BOOLEAN /\ (file'[i].extra = TRUE <=> file'[i].who \in annotated)
  <2>1. /\ i \in DOMAIN P /\ file'[i].extra = (i \in E) /\ file'[i].who = P[i].who
        /\ (i \in E <=> P[i].who \in annotated)
    BY <1>1, <1>2
  <2>2. CASE i \in E
    <3>1. (i \in E) = TRUE
      BY <2>2
    <3>2. file'[i].extra = TRUE
      BY <2>1, <3>1
    <3> QED BY <2>1, <2>2, <3>2
  <2>3. CASE i \notin E
    <3>1. (i \in E) = FALSE
      BY <2>3
    <3>2. file'[i].extra = FALSE
      BY <2>1, <3>1
    <3> QED BY <2>1, <2>3, <3>2
  <2> QED BY <2>2, <2>3
<1>6. \A w \in annotated' : w[2] \in Nat /\ w[2] <= edits'
  BY DEF FileInv
<1> QED BY <1>1, <1>3, <1>4, <1>5, <1>6 DEF FileInv

\* The entries with fields the page does not know are those that were annotated by hand.
LEMMA ExtrasAre == FileInv => \A i \in DOMAIN file : i \in Extras <=> file[i].who \in annotated
BY DEF FileInv, Extras

\* A record put in the place of, or beside, those of the file.
LEMMA Merged ==
  ASSUME NEW id, NEW given1, NEW stored, DOMAIN stored = FormKeys, DOMAIN given1 \subseteq Fields, NEW L,
         "links" \in DOMAIN given1 => given1["links"] \subseteq L, stored.links \subseteq L
  PROVE  LET r == clean(id, mergeOmitted(given1, stored))
         IN  DOMAIN r = FormKeys /\ r.who = stored.who /\ r.links \subseteq L \ {id}
<1> DEFINE m == mergeOmitted(given1, stored)
<1>1. DOMAIN m = FormKeys /\ m["who"] = stored["who"] /\ m["links"] \subseteq L
  BY DEF mergeOmitted, FormKeys, Fields
<1> HIDE DEF m
<1>2. clean(id, m) = [m EXCEPT !["links"] = m["links"] \ {id}]
  BY DEF clean
<1>3. DOMAIN clean(id, m) = FormKeys /\ clean(id, m)["who"] = m["who"] /\ clean(id, m)["links"] = m["links"] \ {id}
  BY <1>1, <1>2 DEF FormKeys
<1> QED BY <1>1, <1>3 DEF m

\* What is given1 of a form, or of an update that carries no field.
LEMMA FormSentIs ==
  ASSUME NEW fields
  PROVE  /\ DOMAIN AsJson(fields) \subseteq Fields
         /\ "links" \in DOMAIN AsJson(fields) => AsJson(fields)["links"] = fields["links"]
BY DEF AsJson

\* addProcessToFile: a new entry, with a new id, leaves the others as they are.
LEMMA AddKeeps ==
  ASSUME FileInv, NEW id \in LocalIds, NEW given1, DOMAIN given1 \subseteq Fields, NEW who,
         edits' = edits + 1, UNCHANGED annotated, addProcessToFile(id, given1, who), who[2] = edits',
         unknown \subseteq unknown',
         "links" \in DOMAIN given1 => given1["links"] \subseteq LocalIds \cap (unknown' \cup DOMAIN file')
  PROVE  FileInv'
<1> DEFINE new == clean(id, mergeOmitted(given1, Record(who)))
           P == [i \in DOMAIN file \cup {id} |-> IF i = id THEN new ELSE file[i]]
<1>1. id \notin DOMAIN file /\ writeRaw(P, Extras)
  BY DEF addProcessToFile
<1>2. DOMAIN file' = DOMAIN file \cup {id}
  BY <1>1 DEF writeRaw
<1>3. DOMAIN new = FormKeys /\ new.who = who /\ new.links \subseteq (LocalIds \cap (unknown' \cup DOMAIN file')) \ {id}
  <2>1. DOMAIN Record(who) = FormKeys /\ Record(who).who = who /\ Record(who).links = {}
    BY DEF Record, FormKeys
  <2> QED BY <2>1, Merged
<1> HIDE DEF new
<1>4. DOMAIN P = DOMAIN file' /\ P[id] = new /\ \A i \in DOMAIN file : P[i] = file[i]
  BY <1>1, <1>2
<1> HIDE DEF P
<1>5. edits \in Nat /\ edits' \in Nat /\ edits < edits'
  BY DEF FileInv
<1>6. \A i \in DOMAIN file : file[i].who # who
  BY <1>5 DEF FileInv, Older
<1>7. who \notin annotated
  BY <1>5 DEF FileInv
<1>8. FormRecords(P, unknown')
  BY <1>2, <1>3, <1>4, <1>6 DEF FileInv, FormRecords
<1>9. Older(P, edits')
  BY <1>2, <1>3, <1>4, <1>5 DEF FileInv, Older
<1>10. \A i \in DOMAIN P : i \in Extras <=> P[i].who \in annotated
  <2>1. id \notin Extras
    BY <1>1 DEF Extras
  <2> QED BY <1>2, <1>3, <1>4, <1>7, <2>1, ExtrasAre
<1> QED BY <1>1, <1>8, <1>9, <1>10, FileWritten

\* updateProcessInFile: the entry is replaced, under its old id or a new one.
LEMMA UpdateKeeps ==
  ASSUME FileInv, NEW localId, NEW id \in LocalIds, NEW given1, DOMAIN given1 \subseteq Fields,
         edits' = edits + 1, UNCHANGED annotated, updateProcessInFile(localId, id, given1),
         unknown \subseteq unknown',
         "links" \in DOMAIN given1 => given1["links"] \subseteq LocalIds /\ given1["links"] \subseteq unknown' \cup DOMAIN file'
  PROVE  FileInv'
<1> DEFINE stored == clean(id, mergeOmitted(given1, file[localId]))
           P == [i \in (DOMAIN file \ {localId}) \cup {id} |-> IF i = id THEN stored ELSE file[i]]
           Q == [i \in DOMAIN P |-> clean(i, [P[i] EXCEPT !.links = Follow(@, localId, id)])]
           L == LocalIds \cap (unknown' \cup DOMAIN file \cup {id})
<1>1. /\ localId \in DOMAIN file /\ (id # localId => id \notin DOMAIN file)
      /\ IF id = localId THEN writeRaw(P, Extras) ELSE writeRaw(Q, Carry(localId, id))
  BY DEF updateProcessInFile
<1>2. DOMAIN file' = (DOMAIN file \ {localId}) \cup {id}
  BY <1>1 DEF writeRaw
<1>3. DOMAIN stored = FormKeys /\ stored.who = file[localId].who /\ stored.links \subseteq L \ {id}
  <2>1. DOMAIN file[localId] = FormKeys /\ file[localId].links \subseteq L
    BY <1>1 DEF FileInv, FormRecords
  <2>2. "links" \in DOMAIN given1 => given1["links"] \subseteq L
    BY <1>1, <1>2
  <2> HIDE DEF L
  <2> QED BY <2>1, <2>2, Merged
<1> HIDE DEF stored
<1>4. /\ DOMAIN P = (DOMAIN file \ {localId}) \cup {id} /\ P[id] = stored
      /\ \A i \in DOMAIN file : i # localId => P[i] = file[i]
  BY <1>1
<1> HIDE DEF P
<1>5. edits \in Nat /\ edits' \in Nat /\ edits < edits'
  BY DEF FileInv
<1>6. \A i \in DOMAIN P : DOMAIN P[i] = FormKeys /\ P[i].links \subseteq L \ {i}
  BY <1>1, <1>3, <1>4 DEF FileInv, FormRecords
<1>7. \A i, j \in DOMAIN P : P[i].who = P[j].who => i = j
  BY <1>1, <1>3, <1>4 DEF FileInv, FormRecords
<1>8. Older(P, edits')
  BY <1>1, <1>3, <1>4, <1>5 DEF FileInv, Older
<1>9. DOMAIN P \subseteq LocalIds /\ DOMAIN P # {}
  BY <1>4 DEF FileInv, FormRecords
<1>10. CASE id = localId
  <2>1. FormRecords(P, unknown')
    BY <1>1, <1>4, <1>6, <1>7, <1>9, <1>10 DEF FormRecords
  <2>2. \A i \in DOMAIN P : i \in Extras <=> P[i].who \in annotated
    BY <1>1, <1>3, <1>4, <1>10, ExtrasAre
  <2> QED BY <1>1, <1>8, <1>10, <2>1, <2>2, FileWritten
<1>11. CASE id # localId
  <2>1. /\ DOMAIN Q = DOMAIN P
        /\ \A i \in DOMAIN P : /\ DOMAIN Q[i] = FormKeys /\ Q[i].who = P[i].who
                               /\ Q[i].links = Follow(P[i].links, localId, id) \ {i}
    <3>1. ASSUME NEW i \in DOMAIN P
          PROVE /\ DOMAIN Q[i] = FormKeys /\ Q[i].who = P[i].who
                /\ Q[i].links = Follow(P[i].links, localId, id) \ {i}
      <4> DEFINE r == [P[i] EXCEPT !.links = Follow(@, localId, id)]
      <4>1. DOMAIN r = FormKeys /\ r.who = P[i].who /\ r.links = Follow(P[i].links, localId, id)
        BY <1>6 DEF FormKeys
      <4>2. Q[i] = clean(i, r)
        OBVIOUS
      <4> HIDE DEF r, Q
      <4> QED BY <4>1, <4>2 DEF clean, FormKeys
    <3> QED BY <3>1
  <2> HIDE DEF Q
  <2>2. \A i \in DOMAIN Q : Q[i].links \subseteq LocalIds /\ Q[i].links \subseteq (DOMAIN Q \cup unknown') \ {i}
    <3>1. ASSUME NEW i \in DOMAIN P
          PROVE /\ Follow(P[i].links, localId, id) \subseteq LocalIds
                /\ Follow(P[i].links, localId, id) \subseteq DOMAIN P \cup unknown'
      BY <1>4, <1>6 DEF Follow
    <3> QED BY <2>1, <3>1
  <2>3. FormRecords(Q, unknown') /\ Older(Q, edits')
    BY <1>7, <1>8, <1>9, <2>1, <2>2 DEF FormRecords, Older
  <2>4. \A i \in DOMAIN Q : i \in Carry(localId, id) <=> Q[i].who \in annotated
    <3>1. id \notin Extras
      BY <1>1, <1>11 DEF Extras
    <3>2. \A i \in DOMAIN P : i # id => i \in DOMAIN file /\ i # localId
      BY <1>4
    <3> QED BY <1>1, <1>3, <1>4, <1>11, <2>1, <3>1, <3>2, ExtrasAre DEF Carry
  <2> QED BY <1>1, <1>11, <2>3, <2>4, FileWritten DEF Q
<1> QED BY <1>10, <1>11

\* removeProcessFromFile: the entry and the links to it go.
LEMMA RemoveKeeps ==
  ASSUME FileInv, NEW localId, edits' = edits + 1, UNCHANGED <<annotated, unknown>>,
         removeProcessFromFile(localId)
  PROVE  FileInv'
<1> DEFINE P == [i \in DOMAIN file \ {localId} |-> [file[i] EXCEPT !.links = @ \ {localId}]]
<1>1. Cardinality(DOMAIN file) > 1 /\ localId \in DOMAIN file /\ writeRaw(P, Extras)
  BY DEF removeProcessFromFile
<1>2. DOMAIN file \ {localId} # {}
  <2>1. ASSUME DOMAIN file = {localId} PROVE FALSE
    <3>1. Cardinality({localId}) = 1
      BY FS_Singleton
    <3>2. Cardinality({localId}) > 1
      BY <1>1, <2>1
    <3> QED BY <3>1, <3>2
  <2> QED BY <1>1, <2>1
<1>3. /\ DOMAIN P = DOMAIN file \ {localId}
      /\ \A i \in DOMAIN P : /\ DOMAIN P[i] = FormKeys /\ P[i].who = file[i].who
                             /\ P[i].links = file[i].links \ {localId}
  BY DEF FormKeys, FileInv, FormRecords
<1> HIDE DEF P
<1>4. FormRecords(P, unknown')
  BY <1>2, <1>3 DEF FileInv, FormRecords
<1>5. Older(P, edits')
  BY <1>3 DEF FileInv, Older
<1>6. \A i \in DOMAIN P : i \in Extras <=> P[i].who \in annotated
  BY <1>3, ExtrasAre
<1> QED BY <1>1, <1>4, <1>5, <1>6, FileWritten

\* A star set or taken off changes nothing else of the entry.
LEMMA StarKeeps ==
  ASSUME FileInv, NEW id \in DOMAIN file, NEW b, edits' = edits + 1, UNCHANGED <<annotated, unknown>>,
         writeRaw([file EXCEPT ![id].starred = b], Extras)
  PROVE  FileInv'
<1> DEFINE P == [file EXCEPT ![id].starred = b]
<1>3. /\ DOMAIN P = DOMAIN file
      /\ \A i \in DOMAIN P : DOMAIN P[i] = FormKeys /\ P[i].who = file[i].who /\ P[i].links = file[i].links
  BY DEF FormKeys, FileInv, FormRecords
<1> HIDE DEF P
<1>4. FormRecords(P, unknown')
  BY <1>3 DEF FileInv, FormRecords
<1>5. Older(P, edits')
  BY <1>3 DEF FileInv, Older
<1>6. \A i \in DOMAIN P : i \in Extras <=> P[i].who \in annotated
  BY <1>3, ExtrasAre
<1> QED BY <1>4, <1>5, <1>6, FileWritten DEF P

\* A field written by hand into an entry, which the page does not know.
LEMMA AnnotateKeeps == ASSUME FileInv, NEW id \in LocalIds, Annotate(id) PROVE FileInv'
<1>1. /\ id \in DOMAIN file /\ edits' = edits + 1 /\ edits \in Nat
      /\ file' = [file EXCEPT ![id].extra = TRUE] /\ annotated' = annotated \cup {file[id].who}
      /\ UNCHANGED <<toggles, unknown>>
  BY DEF Annotate, Edit, FileInv
<1>2. /\ DOMAIN file' = DOMAIN file
      /\ \A i \in DOMAIN file : /\ DOMAIN file'[i] = FormKeys /\ file'[i].who = file[i].who /\ file'[i].links = file[i].links
                                /\ file'[i].extra = IF i = id THEN TRUE ELSE file[i].extra
  BY <1>1 DEF FormKeys, FileInv, FormRecords
<1>3. FormRecords(file', unknown')
  BY <1>1, <1>2 DEF FileInv, FormRecords
<1>4. Older(file', edits') /\ edits' \in Nat
  BY <1>1, <1>2 DEF FileInv, Older
<1>5. ASSUME NEW i \in DOMAIN file
      PROVE  file'[i].extra \in BOOLEAN /\ (file'[i].extra = TRUE <=> file'[i].who \in annotated')
  <2>1. CASE i = id
    <3>1. file'[i].extra = TRUE
      BY <1>2, <2>1
    <3>2. file'[i].who \in annotated'
      <4>1. file'[i].who = file[i].who
        BY <1>2
      <4>2. file[id].who \in annotated'
        BY <1>1
      <4> QED BY <2>1, <4>1, <4>2
    <3> QED BY <3>1, <3>2
  <2>2. CASE i # id
    <3>1. file[i].who # file[id].who
      BY <1>1, <2>2 DEF FileInv, FormRecords
    <3> QED BY <1>1, <1>2, <2>2, <3>1 DEF FileInv
  <2> QED BY <2>1, <2>2
<1>6. \A w \in annotated' : w[2] \in Nat /\ w[2] <= edits'
  BY <1>1 DEF FileInv, Older
<1> QED BY <1>1, <1>2, <1>3, <1>4, <1>5, <1>6 DEF FileInv

\* Each edit by the page, the agent or by hand.
LEMMA PfInvStep == ASSUME PfInv, PfNext PROVE PfInv'
<1>0. FileInv /\ FormInv
  BY DEF PfInv
<1>1. CASE TypeInForm
  <2>1. PICK f : /\ form = <<f>> /\ DOMAIN f = Parts /\ f.id \in LocalIds
                 /\ DOMAIN f.fields = Fields /\ f.fields.links \subseteq LocalIds
    BY <1>0, <1>1 DEF TypeInForm, FormInv
  <2>2. /\ form[1] = f /\ UNCHANGED <<file, toggles, edits, annotated, unknown, emptied>>
        /\ \/ \E id \in LocalIds : Typed([f EXCEPT !.id = id], "id")
           \/ \E p : Typed([f EXCEPT !.fields.port = p], "port")
           \/ \E i \in DOMAIN file : \/ Typed([f EXCEPT !.fields.links = Flip(@, i)], "links")
                                     \/ \E w : Typed([f EXCEPT !.fields.waitForPort = w], "waitForPort")
    BY <1>1, <2>1 DEF TypeInForm
  <2>3. ASSUME NEW g, NEW what, Typed(g, what), DOMAIN g = Parts, g.id \in LocalIds,
               DOMAIN g.fields = Fields, g.fields.links \subseteq LocalIds
        PROVE  FormInv'
    <3> DEFINE h == [g EXCEPT !.typed = @ \cup {what}]
    <3>1. DOMAIN h = Parts /\ h.id = g.id /\ h.fields = g.fields
      BY <2>3 DEF Parts
    <3>2. form' = <<h>>
      BY <2>3 DEF Typed
    <3> HIDE DEF h
    <3> QED BY <2>3, <3>1, <3>2 DEF FormInv
  <2>4. ASSUME NEW id \in LocalIds, Typed([f EXCEPT !.id = id], "id") PROVE FormInv'
    <3> DEFINE g == [f EXCEPT !.id = id]
    <3>1. DOMAIN g = Parts /\ g.id = id /\ g.fields = f.fields
      BY <2>1 DEF Parts
    <3> HIDE DEF g
    <3> QED BY <2>1, <2>3, <2>4, <3>1 DEF g
  <2>5. ASSUME NEW p, Typed([f EXCEPT !.fields.port = p], "port") PROVE FormInv'
    <3> DEFINE g == [f EXCEPT !.fields.port = p]
    <3>1. DOMAIN g = Parts /\ g.id = f.id /\ DOMAIN g.fields = Fields /\ g.fields.links = f.fields.links
      BY <2>1 DEF Parts, Fields
    <3> HIDE DEF g
    <3> QED BY <2>1, <2>3, <2>5, <3>1 DEF g
  <2>6. ASSUME NEW w, Typed([f EXCEPT !.fields.waitForPort = w], "waitForPort") PROVE FormInv'
    <3> DEFINE g == [f EXCEPT !.fields.waitForPort = w]
    <3>1. DOMAIN g = Parts /\ g.id = f.id /\ DOMAIN g.fields = Fields /\ g.fields.links = f.fields.links
      BY <2>1 DEF Parts, Fields
    <3> HIDE DEF g
    <3> QED BY <2>1, <2>3, <2>6, <3>1 DEF g
  <2>7. ASSUME NEW i \in DOMAIN file, Typed([f EXCEPT !.fields.links = Flip(@, i)], "links") PROVE FormInv'
    <3> DEFINE g == [f EXCEPT !.fields.links = Flip(@, i)]
    <3>0. i \in LocalIds
      BY <1>0 DEF FileInv, FormRecords
    <3>1. DOMAIN g = Parts /\ g.id = f.id /\ DOMAIN g.fields = Fields /\ g.fields.links = Flip(f.fields.links, i)
      BY <2>1 DEF Parts, Fields
    <3>2. Flip(f.fields.links, i) \subseteq LocalIds
      BY <2>1, <3>0 DEF Flip
    <3> HIDE DEF g
    <3> QED BY <2>1, <2>3, <2>7, <3>1, <3>2 DEF g
  <2>8. FormInv'
    BY <2>2, <2>4, <2>5, <2>6, <2>7
  <2> QED BY <1>0, <2>2, <2>8 DEF PfInv, FileInv
<1>2. CASE SaveForm
  <2>1. PICK f : /\ form = <<f>> /\ DOMAIN f = Parts /\ f.id \in LocalIds
                 /\ DOMAIN f.fields = Fields /\ f.fields.links \subseteq LocalIds
    BY <1>0, <1>2 DEF SaveForm, FormInv
  <2>2. /\ edits' = edits + 1 /\ form' = << >> /\ UNCHANGED annotated
        /\ IF f.at = "new" THEN addProcessToFile(f.id, AsJson(f.fields), <<f.id, edits'>>)
           ELSE updateProcessInFile(f.at, f.id, AsJson(f.fields))
        /\ unknown' = unknown \cup (f.fields.links \ DOMAIN file')
    BY <1>2, <2>1 DEF SaveForm, Edit
  <2>3. FormInv'
    BY <2>2 DEF FormInv
  <2> DEFINE given1 == AsJson(f.fields)
  <2>4. /\ DOMAIN given1 \subseteq Fields /\ unknown \subseteq unknown'
        /\ "links" \in DOMAIN given1 => /\ given1["links"] \subseteq LocalIds
                                      /\ given1["links"] \subseteq unknown' \cup DOMAIN file'
    BY <2>1, <2>2, FormSentIs
  <2> HIDE DEF given1
  <2>5. CASE f.at = "new"
    <3>1. addProcessToFile(f.id, given1, <<f.id, edits'>>) /\ <<f.id, edits'>>[2] = edits'
      BY <2>2, <2>5 DEF given1
    <3> QED BY <1>0, <2>1, <2>2, <2>3, <2>4, <3>1, AddKeeps DEF PfInv
  <2>6. CASE f.at # "new"
    <3>1. updateProcessInFile(f.at, f.id, given1)
      BY <2>2, <2>6 DEF given1
    <3> QED BY <1>0, <2>1, <2>2, <2>3, <2>4, <3>1, UpdateKeeps DEF PfInv
  <2> QED BY <2>5, <2>6
<1>3. CASE CancelForm
  BY <1>0, <1>3 DEF CancelForm, PfInv, FileInv, FormInv
<1>4. ASSUME NEW id \in LocalIds, OpenForm(id) \/ NewForm(id) PROVE PfInv'
  <2>1. UNCHANGED <<file, toggles, edits, annotated, unknown, emptied>>
    BY <1>4 DEF OpenForm, NewForm
  <2>2. CASE OpenForm(id)
    <3> DEFINE f == [at |-> id, id |-> id, typed |-> {}, fields |-> [g \in Fields |-> file[id][g]]]
    <3>1. form' = <<f>> /\ id \in DOMAIN file
      BY <2>2 DEF OpenForm
    <3>2. DOMAIN f = Parts /\ f.id = id /\ DOMAIN f.fields = Fields /\ f.fields.links = file[id].links
      BY DEF Parts, Fields
    <3>3. file[id].links \subseteq LocalIds
      BY <1>0, <3>1 DEF FileInv, FormRecords
    <3> HIDE DEF f
    <3>4. FormInv'
      BY <3>1, <3>2, <3>3 DEF FormInv
    <3> QED BY <1>0, <2>1, <3>4 DEF PfInv, FileInv
  <2>3. CASE NewForm(id)
    <3> DEFINE f == [at |-> "new", id |-> id, typed |-> {}, fields |-> Empty]
    <3>1. form' = <<f>>
      BY <2>3 DEF NewForm
    <3>2. DOMAIN f = Parts /\ f.id = id /\ DOMAIN f.fields = Fields /\ f.fields.links = {}
      BY DEF Parts, Fields, Empty
    <3> HIDE DEF f
    <3>4. FormInv'
      BY <3>1, <3>2 DEF FormInv
    <3> QED BY <1>0, <2>1, <3>4 DEF PfInv, FileInv
  <2> QED BY <1>4, <2>2, <2>3
<1>5. ASSUME NEW id \in LocalIds, setEnabledOverride(id) PROVE PfInv'
  BY <1>0, <1>5 DEF setEnabledOverride, PfInv, FileInv, FormInv
<1>6. ASSUME NEW id \in LocalIds, Remove(id) PROVE PfInv'
  <2>1. edits' = edits + 1 /\ removeProcessFromFile(id) /\ UNCHANGED <<form, annotated, unknown>>
    BY <1>6 DEF Remove, Edit
  <2> QED BY <1>0, <2>1, RemoveKeeps DEF PfInv, FormInv
<1>7. ASSUME NEW id \in LocalIds, BareUpdate(id) PROVE PfInv'
  <2>1. edits' = edits + 1 /\ updateProcessInFile(id, id, AsJson(Empty)) /\ UNCHANGED <<form, annotated, unknown>>
    BY <1>7 DEF BareUpdate, Edit
  <2>2. DOMAIN AsJson(Empty) \subseteq Fields /\ "links" \notin DOMAIN AsJson(Empty)
    BY DEF AsJson
  <2> QED BY <1>0, <2>1, <2>2, UpdateKeeps DEF PfInv, FormInv
<1>8. ASSUME NEW id \in LocalIds, Annotate(id) PROVE PfInv'
  BY <1>0, <1>8, AnnotateKeeps DEF PfInv, FormInv, Annotate
<1>9. ASSUME NEW id \in LocalIds, NEW b \in BOOLEAN, setProcessStarred(id, b) PROVE PfInv'
  <2>1. /\ edits' = edits + 1 /\ id \in DOMAIN file /\ writeRaw([file EXCEPT ![id].starred = b], Extras)
        /\ UNCHANGED <<form, annotated, unknown>>
    BY <1>9 DEF setProcessStarred, Edit
  <2> QED BY <1>0, <2>1, StarKeeps DEF PfInv, FormInv
<1> QED BY <1>1, <1>2, <1>3, <1>4, <1>5, <1>6, <1>7, <1>8, <1>9 DEF PfNext

\* So the file and the forms over it stay as described.
LEMMA PfInvInductive == PfInv /\ [PfNext]_pfVars => PfInv'
<1>1. PfInv /\ UNCHANGED pfVars => PfInv'
  BY DEF pfVars, PfInv, FileInv, FormInv
<1> QED BY <1>1, PfInvStep

\* So an edit leaves what it is not about as it was.
LEMMA PfInvMeaning == PfInv => PfTypeOK /\ EditsKeepTheRest
<1> SUFFICES ASSUME PfInv PROVE PfTypeOK /\ EditsKeepTheRest
  OBVIOUS
<1>1. Len(form) <= 1
  <2>1. CASE form = << >>
    BY <2>1
  <2>2. ASSUME NEW f, form = <<f>> PROVE Len(form) <= 1
    BY <2>2
  <2> QED BY <2>1, <2>2 DEF PfInv, FormInv
<1> QED BY <1>1 DEF PfInv, FileInv, FormRecords, PfTypeOK, EditsKeepTheRest

---------------------------------------------------------------------------------------
(* Telemetry, the daemon's own log. The lines of a generation are an unbroken run, no newer than
   those of the generations before it, and what can still be read is an unbroken run up to the
   last line; a generation that a roll is about to overwrite has nothing that is not elsewhere. *)

LogFile == [lines : SUBSET Nat, whole : BOOLEAN]
Plain == {<<"no">>, <<"open">>, <<"drop">>, <<"gzip">>, <<"unlink">>}

\* What is on disk.
Upwards(L, top) == \A a \in L, n \in 1 .. top : a < n => n \in L
Unbroken(L) == \A a, c \in L, n \in Nat : a < n /\ n < c => n \in L
NoneNewer(L, M) == L # {} => \A b \in M : \E a \in L : a >= b
BehindLog(M) == \A b \in M : b \in log \/ \A a \in log : a >= b

DiskInv ==
  /\ gens \in [1 .. KEEP -> LogFile] /\ lineNo \in Nat /\ lineNo <= MaxLogged
  /\ log \subseteq 1 .. lineNo /\ Upwards(log, lineNo)
  /\ \A i \in 1 .. KEEP : /\ gens[i].lines \subseteq 1 .. lineNo /\ Unbroken(gens[i].lines)
                          /\ BehindLog(gens[i].lines)
  /\ \A i, j \in 1 .. KEEP : i < j => NoneNewer(gens[i].lines, gens[j].lines)
  /\ Upwards(Kept, lineNo)

RollInv ==
  /\ rolling \in Plain \/ \E i \in 1 .. KEEP - 1 : rolling = <<"shift", i>> /\ gens[i + 1] = NoFile
  /\ rolling = <<"gzip">> => gens[1] = NoFile
  /\ rolling = <<"unlink">> => gens[1].lines = log /\ gens[1].whole = TRUE
  /\ fd => alive /\ rolling = <<"no">>
  /\ rolling # <<"no">> => alive

DgInv == DiskInv /\ RollInv

InKept(n) == n \in log \/ \E i \in 1 .. KEEP : gens[i].whole /\ n \in gens[i].lines

\* What can still be read of the log, line by line.
LEMMA KeptIs == \A n : n \in Kept <=> InKept(n)
BY DEF Kept, InKept

\* And after a step.
LEMMA KeptWillBe == \A n : n \in Kept' <=> InKept(n)'
BY DEF Kept, InKept

\* A generation without a file has no lines.
LEMMA NoFileIs == NoFile \in LogFile /\ NoFile.lines = {}
BY DEF NoFile, LogFile

\* The first boot finds no log.
LEMMA DgInvInit == DgInit => DgInv
<1> SUFFICES ASSUME DgInit PROVE DgInv
  OBVIOUS
<1>1. /\ log = {} /\ lineNo = 0 /\ rolling = <<"no">> /\ fd = FALSE
      /\ gens \in [1 .. KEEP -> LogFile] /\ \A i \in 1 .. KEEP : gens[i].lines = {}
  BY NoFileIs DEF DgInit
<1>2. DiskInv
  BY <1>1, DgAssumption, KeptIs DEF DiskInv, Upwards, Unbroken, BehindLog, NoneNewer, InKept
<1> QED BY <1>1, <1>2 DEF DgInv, RollInv, Plain

\* Steps that leave the files alone.
LEMMA DiskStays == ASSUME DiskInv, UNCHANGED <<log, gens, lineNo>> PROVE DiskInv'
BY DEF DiskInv, Upwards, Unbroken, BehindLog, NoneNewer, Kept

\* The oldest generation goes.
LEMMA DropKeeps ==
  ASSUME DiskInv, gens' = [gens EXCEPT ![KEEP] = NoFile], UNCHANGED <<log, lineNo>>
  PROVE  DiskInv' /\ gens'[KEEP] = NoFile
<1>0. KEEP \in 1 .. KEEP /\ KEEP \in Nat
  BY DgAssumption
<1>1. /\ gens' \in [1 .. KEEP -> LogFile]
      /\ \A i \in 1 .. KEEP : gens'[i] = IF i = KEEP THEN NoFile ELSE gens[i]
  BY <1>0, NoFileIs DEF DiskInv
<1>2. ASSUME NEW i \in 1 .. KEEP
      PROVE /\ gens'[i].lines \subseteq 1 .. lineNo /\ Unbroken(gens'[i].lines)
            /\ BehindLog(gens'[i].lines)
  BY <1>1, NoFileIs DEF DiskInv, Unbroken, BehindLog
<1>3. ASSUME NEW i \in 1 .. KEEP, NEW j \in 1 .. KEEP, i < j
      PROVE  NoneNewer(gens'[i].lines, gens'[j].lines)
  BY <1>1, <1>3, NoFileIs DEF DiskInv, NoneNewer
<1>4. ASSUME NEW a \in Kept', NEW n \in 1 .. lineNo, a < n
      PROVE  n \in Kept'
  <2>1. a \in Kept /\ (a \in log \/ \E i \in 1 .. KEEP : i # KEEP /\ gens[i].whole /\ a \in gens[i].lines)
    BY <1>1, KeptIs, KeptWillBe, NoFileIs DEF InKept
  <2>2. n \in Kept
    BY <1>4, <2>1 DEF DiskInv, Upwards
  <2>3. CASE n \in log
    BY <2>3, KeptWillBe DEF InKept
  <2>4. CASE \E j \in 1 .. KEEP : j # KEEP /\ gens[j].whole /\ n \in gens[j].lines
    BY <1>1, <2>4, KeptWillBe DEF InKept
  <2>5. CASE n \in gens[KEEP].lines /\ n \notin log
    <3>1. a \notin log
      <4>1. BehindLog(gens[KEEP].lines) /\ log \subseteq Nat /\ n \in Nat
        BY <1>0 DEF DiskInv
      <4>2. \A b \in log : b >= n
        BY <2>5, <4>1 DEF BehindLog
      <4>3. ASSUME a \in log PROVE FALSE
        <5>1. a \in Nat /\ a >= n /\ n \in Nat
          BY <4>1, <4>2, <4>3
        <5>2. a < n
          BY <1>4
        <5> QED BY <5>1, <5>2
      <4> QED BY <4>3
    <3>2. PICK i \in 1 .. KEEP : i # KEEP /\ gens[i].whole /\ a \in gens[i].lines
      BY <2>1, <3>1
    <3>3. i < KEEP
      BY <1>0, <3>2
    <3>4. \E c \in gens[i].lines : c >= n
      BY <1>0, <2>5, <3>2, <3>3 DEF DiskInv, NoneNewer
    <3>5. n \in gens[i].lines
      BY <1>4, <3>2, <3>4 DEF DiskInv, Unbroken
    <3> QED BY <1>1, <3>2, <3>5, KeptWillBe DEF InKept
  <2> QED BY <2>2, <2>3, <2>4, <2>5, KeptIs DEF InKept
<1> QED BY <1>0, <1>1, <1>2, <1>3, <1>4 DEF DiskInv, Upwards, BehindLog

\* A generation is renamed to the next one, of which there is none.
LEMMA ShiftKeeps ==
  ASSUME DiskInv, NEW s \in 1 .. KEEP - 1, gens[s + 1] = NoFile,
         gens' = IF gens[s] = NoFile THEN gens ELSE [gens EXCEPT ![s + 1] = gens[s], ![s] = NoFile],
         UNCHANGED <<log, lineNo>>
  PROVE  DiskInv' /\ gens'[s] = NoFile
<1>0. s \in 1 .. KEEP /\ s + 1 \in 1 .. KEEP /\ s # s + 1 /\ KEEP \in Nat
  BY DgAssumption
<1>1. CASE gens[s] = NoFile
  BY <1>1, DiskStays
<1>2. CASE gens[s] # NoFile
  <2>1. /\ gens' \in [1 .. KEEP -> LogFile]
        /\ \A i \in 1 .. KEEP : gens'[i] = IF i = s THEN NoFile ELSE IF i = s + 1 THEN gens[s] ELSE gens[i]
    BY <1>0, <1>2, NoFileIs DEF DiskInv
  <2>2. ASSUME NEW i \in 1 .. KEEP
        PROVE /\ gens'[i].lines \subseteq 1 .. lineNo /\ Unbroken(gens'[i].lines)
              /\ BehindLog(gens'[i].lines)
    BY <1>0, <2>1, NoFileIs DEF DiskInv, Unbroken, BehindLog
  <2>3. ASSUME NEW i \in 1 .. KEEP, NEW j \in 1 .. KEEP, i < j
        PROVE  NoneNewer(gens'[i].lines, gens'[j].lines)
    <3>0. \A k, l \in 1 .. KEEP : k < l => NoneNewer(gens[k].lines, gens[l].lines)
      BY DEF DiskInv
    <3>1. CASE i = s \/ j = s
      BY <2>1, <3>1, NoFileIs DEF NoneNewer
    <3>2. CASE i = s + 1
      <4>1. s < j /\ gens'[i] = gens[s] /\ gens'[j] = gens[j]
        BY <1>0, <2>1, <2>3, <3>2
      <4> QED BY <1>0, <3>0, <4>1
    <3>3. CASE j = s + 1 /\ i # s
      <4>1. i < s /\ gens'[j] = gens[s] /\ gens'[i] = gens[i]
        BY <1>0, <2>1, <2>3, <3>3
      <4> QED BY <1>0, <3>0, <4>1
    <3>4. CASE i \notin {s, s + 1} /\ j \notin {s, s + 1}
      BY <2>1, <2>3, <3>0, <3>4
    <3> QED BY <3>1, <3>2, <3>3, <3>4
  <2>4. ASSUME NEW n PROVE n \in Kept' <=> n \in Kept
    <3>1. (\E i \in 1 .. KEEP : gens'[i].whole /\ n \in gens'[i].lines)
          <=> (\E i \in 1 .. KEEP : gens[i].whole /\ n \in gens[i].lines)
      <4>1. ASSUME NEW i \in 1 .. KEEP, gens'[i].whole, n \in gens'[i].lines
            PROVE  \E k \in 1 .. KEEP : gens[k].whole /\ n \in gens[k].lines
        BY <1>0, <2>1, <4>1, NoFileIs
      <4>2. ASSUME NEW i \in 1 .. KEEP, gens[i].whole, n \in gens[i].lines
            PROVE  \E k \in 1 .. KEEP : gens'[k].whole /\ n \in gens'[k].lines
        <5>1. i # s + 1
          BY <4>2, NoFileIs
        <5>2. CASE i = s
          <6>1. gens'[s + 1] = gens[i]
            BY <1>0, <2>1, <5>2
          <6> QED BY <1>0, <4>2, <6>1
        <5>3. CASE i # s
          <6>1. gens'[i] = gens[i]
            BY <2>1, <5>1, <5>3
          <6> QED BY <4>2, <6>1
        <5> QED BY <5>2, <5>3
      <4> QED BY <4>1, <4>2
    <3> QED BY <3>1, KeptIs, KeptWillBe DEF InKept
  <2> QED BY <1>0, <2>1, <2>2, <2>3, <2>4 DEF DiskInv, Upwards, BehindLog
<1> QED BY <1>1, <1>2

\* The log is copied, whole or not, to where there was nothing.
LEMMA CopyKeeps ==
  ASSUME DiskInv, gens[1] = NoFile, NEW w \in BOOLEAN,
         gens' = [gens EXCEPT ![1] = [lines |-> log, whole |-> w]], UNCHANGED <<log, lineNo>>
  PROVE  DiskInv' /\ gens'[1].lines = log /\ gens'[1].whole = w
<1> DEFINE copy == [lines |-> log, whole |-> w]
<1>0. 1 \in 1 .. KEEP /\ KEEP \in Nat /\ copy \in LogFile /\ copy.lines = log /\ copy.whole = w
  <2>1. log \subseteq Nat
    BY DEF DiskInv
  <2> QED BY <2>1, DgAssumption DEF LogFile
<1>1. gens' = [gens EXCEPT ![1] = copy]
  OBVIOUS
<1> HIDE DEF copy
<1>2. gens' \in [1 .. KEEP -> LogFile] /\ \A i \in 1 .. KEEP : gens'[i] = IF i = 1 THEN copy ELSE gens[i]
  BY <1>0, <1>1 DEF DiskInv
<1>3. Unbroken(log) /\ log \subseteq 1 .. lineNo /\ BehindLog(log)
  <2>1. ASSUME NEW a \in log, NEW c \in log, NEW n \in Nat, a < n, n < c PROVE n \in log
    <3>1. a \in 1 .. lineNo /\ c \in 1 .. lineNo /\ lineNo \in Nat
      BY DEF DiskInv
    <3>2. n \in 1 .. lineNo
      BY <2>1, <3>1
    <3> QED BY <2>1, <3>2 DEF DiskInv, Upwards
  <2> QED BY <2>1 DEF Unbroken, DiskInv, BehindLog
<1>4. ASSUME NEW i \in 1 .. KEEP
      PROVE /\ gens'[i].lines \subseteq 1 .. lineNo /\ Unbroken(gens'[i].lines)
            /\ BehindLog(gens'[i].lines)
  BY <1>0, <1>2, <1>3 DEF DiskInv
<1>5. ASSUME NEW i \in 1 .. KEEP, NEW j \in 1 .. KEEP, i < j
      PROVE  NoneNewer(gens'[i].lines, gens'[j].lines)
  <2>1. j # 1 /\ gens'[j] = gens[j]
    BY <1>2, <1>5
  <2>2. CASE i = 1
    <3>1. BehindLog(gens[j].lines) /\ gens[j].lines \subseteq Nat
      BY DEF DiskInv
    <3>2. ASSUME log # {}, NEW b \in gens[j].lines PROVE \E a \in log : a >= b
      <4>1. b \in Nat /\ log \subseteq Nat
        BY <3>1 DEF DiskInv
      <4>2. CASE b \in log
        BY <4>1, <4>2
      <4>3. CASE \A a \in log : a >= b
        BY <3>2, <4>3
      <4> QED BY <3>1, <4>2, <4>3 DEF BehindLog
    <3> QED BY <1>0, <1>2, <2>1, <2>2, <3>2 DEF NoneNewer
  <2>3. CASE i # 1
    BY <1>2, <1>5, <2>1, <2>3 DEF DiskInv
  <2> QED BY <2>2, <2>3
<1>6. ASSUME NEW n PROVE n \in Kept' <=> n \in Kept
  <2>1. InKept(n)' => InKept(n)
    BY <1>0, <1>2 DEF InKept
  <2>2. InKept(n) => InKept(n)'
    BY <1>0, <1>2, NoFileIs DEF InKept
  <2> QED BY <2>1, <2>2, KeptIs, KeptWillBe
<1> QED BY <1>0, <1>2, <1>4, <1>5, <1>6 DEF DiskInv, Upwards, BehindLog

\* The log goes once its copy is whole.
LEMMA UnlinkKeeps ==
  ASSUME DiskInv, gens[1].lines = log, gens[1].whole = TRUE, log' = {}, UNCHANGED <<gens, lineNo>>
  PROVE  DiskInv'
<1>0. 1 \in 1 .. KEEP
  BY DgAssumption
<1>1. ASSUME NEW n PROVE n \in Kept' <=> n \in Kept
  BY <1>0, KeptIs, KeptWillBe DEF InKept
<1> QED BY <1>1 DEF DiskInv, Upwards, Unbroken, BehindLog, NoneNewer

\* A line is written.
LEMMA WriteKeeps ==
  ASSUME DiskInv, lineNo < MaxLogged, log' = log \cup {lineNo + 1}, lineNo' = lineNo + 1, UNCHANGED gens
  PROVE  DiskInv'
<1>0. lineNo \in Nat /\ lineNo' \in Nat /\ lineNo' <= MaxLogged /\ MaxLogged \in Nat
  BY DgAssumption DEF DiskInv
<1>1. \A n \in 1 .. lineNo' : n \in 1 .. lineNo \/ n = lineNo + 1
  BY <1>0
<1>2. 1 .. lineNo \subseteq 1 .. lineNo' /\ lineNo + 1 \in 1 .. lineNo'
  BY <1>0
<1>3. log' \subseteq 1 .. lineNo' /\ Upwards(log', lineNo')
  <2>1. log \subseteq 1 .. lineNo
    BY DEF DiskInv
  <2>2. ASSUME NEW a \in log', NEW n \in 1 .. lineNo', a < n PROVE n \in log'
    <3>1. CASE n = lineNo + 1
      BY <3>1
    <3>2. CASE n \in 1 .. lineNo
      <4>1. a \in log
        BY <1>0, <2>2, <3>2
      <4> QED BY <2>2, <3>2, <4>1 DEF DiskInv, Upwards
    <3> QED BY <1>1, <3>1, <3>2
  <2> QED BY <1>2, <2>1, <2>2 DEF Upwards
<1>4. ASSUME NEW i \in 1 .. KEEP
      PROVE /\ gens'[i].lines \subseteq 1 .. lineNo' /\ Unbroken(gens'[i].lines)
            /\ BehindLog(gens[i].lines)'
  <2>1. gens[i].lines \subseteq 1 .. lineNo /\ Unbroken(gens[i].lines) /\ BehindLog(gens[i].lines)
    BY DEF DiskInv
  <2>2. ASSUME NEW b \in gens[i].lines PROVE b \in log' \/ \A a \in log' : a >= b
    <3>1. b \in 1 .. lineNo
      BY <2>1
    <3>2. lineNo + 1 >= b
      BY <1>0, <3>1
    <3> QED BY <2>1, <3>2 DEF BehindLog
  <2>3. gens'[i].lines = gens[i].lines
    OBVIOUS
  <2>4. BehindLog(gens[i].lines)'
    BY <2>2, <2>3 DEF BehindLog
  <2>5. Unbroken(gens'[i].lines)
    BY <2>1, <2>3 DEF Unbroken
  <2>6. gens'[i].lines \subseteq 1 .. lineNo'
    BY <1>2, <2>1, <2>3
  <2> QED BY <2>4, <2>5, <2>6
<1>5. \A n : n \in Kept' <=> n \in Kept \/ n = lineNo + 1
  BY KeptIs, KeptWillBe DEF InKept
<1>6. ASSUME NEW a \in Kept', NEW n \in 1 .. lineNo', a < n PROVE n \in Kept'
  <2>1. CASE n = lineNo + 1
    BY <1>5, <2>1
  <2>2. CASE n \in 1 .. lineNo
    <3>1. a \in Kept
      BY <1>0, <1>5, <1>6, <2>2
    <3>2. n \in Kept
      BY <1>6, <2>2, <3>1 DEF DiskInv, Upwards
    <3> QED BY <1>5, <3>2
  <2> QED BY <1>1, <2>1, <2>2
<1>7. gens' \in [1 .. KEEP -> LogFile] /\ \A i, j \in 1 .. KEEP : i < j => NoneNewer(gens'[i].lines, gens'[j].lines)
  BY DEF DiskInv
<1> QED BY <1>0, <1>3, <1>4, <1>6, <1>7 DEF DiskInv, Upwards, BehindLog

\* Each operation of a roll, its failure, and a death in the middle of it.
LEMMA DgInvStep == ASSUME DgInv, DgNext PROVE DgInv'
<1>0. DiskInv /\ RollInv /\ KEEP \in Nat /\ 1 \in 1 .. KEEP
  BY DgAssumption DEF DgInv
<1>1. CASE Boots \/ OpensLog
  <2>1. /\ UNCHANGED <<log, gens, lineNo>> /\ alive' = TRUE /\ rolling' \in {<<"drop">>, <<"open">>, <<"no">>}
        /\ (fd' => rolling' = <<"no">>)
    BY <1>0, <1>1 DEF Boots, OpensLog, RollInv
  <2> QED BY <1>0, <2>1, DiskStays DEF DgInv, RollInv, Plain
<1>2. CASE Writes
  <2>0. fd /\ alive /\ rolling = <<"no">> /\ UNCHANGED <<gens, alive>>
    BY <1>0, <1>2 DEF Writes, RollInv
  <2>1. CASE UNCHANGED <<log, lineNo>> /\ fd' = FALSE /\ rolling' \in {<<"drop">>, <<"no">>}
    BY <1>0, <2>0, <2>1, DiskStays DEF DgInv, RollInv, Plain
  <2>2. CASE lineNo < MaxLogged /\ log' = log \cup {lineNo + 1} /\ lineNo' = lineNo + 1 /\ UNCHANGED <<fd, rolling>>
    BY <1>0, <2>0, <2>2, WriteKeeps DEF DgInv, RollInv
  <2> QED BY <1>2, <2>0, <2>1, <2>2 DEF Writes
<1>3. CASE RollDrop
  <2>1. /\ gens' = [gens EXCEPT ![KEEP] = NoFile] /\ rolling = <<"drop">>
        /\ rolling' = (IF KEEP > 1 THEN <<"shift", KEEP - 1>> ELSE <<"gzip">>)
        /\ UNCHANGED <<log, lineNo, fd, alive>>
    BY <1>3 DEF RollDrop
  <2>2. DiskInv' /\ gens'[KEEP] = NoFile
    BY <1>0, <2>1, DropKeeps
  <2>3. CASE KEEP > 1
    <3>1. KEEP - 1 \in 1 .. KEEP - 1 /\ KEEP - 1 + 1 = KEEP /\ rolling' = <<"shift", KEEP - 1>>
      BY <1>0, <2>1, <2>3
    <3>2. gens'[KEEP - 1 + 1] = NoFile /\ alive' /\ ~fd'
      BY <1>0, <2>1, <2>2, <3>1 DEF RollInv
    <3> QED BY <2>2, <3>1, <3>2 DEF DgInv, RollInv
  <2>4. CASE ~(KEEP > 1)
    <3>1. KEEP = 1 /\ rolling' = <<"gzip">> /\ alive' /\ ~fd'
      BY <1>0, <2>1, <2>4, DgAssumption DEF RollInv
    <3> QED BY <2>2, <3>1 DEF DgInv, RollInv, Plain
  <2> QED BY <2>3, <2>4
<1>4. CASE RollShift
  <2>1. PICK s \in 1 .. KEEP - 1 : rolling = <<"shift", s>> /\ gens[s + 1] = NoFile
    BY <1>0, <1>4 DEF RollShift, RollInv, Plain
  <2>2. /\ gens' = (IF gens[s] = NoFile THEN gens ELSE [gens EXCEPT ![s + 1] = gens[s], ![s] = NoFile])
        /\ rolling' = (IF s > 1 THEN <<"shift", s - 1>> ELSE <<"gzip">>)
        /\ UNCHANGED <<log, lineNo, fd, alive>>
    BY <1>4, <2>1 DEF RollShift
  <2>3. DiskInv' /\ gens'[s] = NoFile
    BY <1>0, <2>1, <2>2, ShiftKeeps
  <2>4. alive' /\ ~fd'
    BY <1>0, <2>1, <2>2 DEF RollInv
  <2>5. CASE s > 1
    <3>1. s - 1 \in 1 .. KEEP - 1 /\ s - 1 + 1 = s /\ rolling' = <<"shift", s - 1>>
      BY <1>0, <2>2, <2>5
    <3> QED BY <2>3, <2>4, <3>1 DEF DgInv, RollInv
  <2>6. CASE ~(s > 1)
    <3>1. s = 1 /\ rolling' = <<"gzip">>
      BY <2>2, <2>6
    <3> QED BY <2>3, <2>4, <3>1 DEF DgInv, RollInv, Plain
  <2> QED BY <2>5, <2>6
<1>5. CASE RollGzip
  <2>1. PICK w \in BOOLEAN : gens' = [gens EXCEPT ![1] = [lines |-> log, whole |-> w]] /\ rolling' = Copied(w)
    BY <1>5 DEF RollGzip
  <2>2. rolling = <<"gzip">> /\ gens[1] = NoFile /\ UNCHANGED <<log, lineNo, fd, alive>> /\ alive' /\ ~fd'
    BY <1>0, <1>5 DEF RollGzip, RollInv
  <2>3. DiskInv' /\ gens'[1].lines = log /\ gens'[1].whole = w
    BY <1>0, <2>1, <2>2, CopyKeeps
  <2> QED BY <2>1, <2>2, <2>3 DEF DgInv, RollInv, Plain, Copied
<1>6. CASE RollUnlink
  <2>1. /\ rolling = <<"unlink">> /\ log' = {} /\ rolling' = <<"open">>
        /\ UNCHANGED <<gens, lineNo, fd, alive>>
    BY <1>6 DEF RollUnlink
  <2>2. DiskInv' /\ alive' /\ ~fd'
    BY <1>0, <2>1, UnlinkKeeps DEF RollInv
  <2> QED BY <2>1, <2>2 DEF DgInv, RollInv, Plain
<1>7. CASE RollFails
  <2>1. rolling' = <<"open">> /\ rolling # <<"no">> /\ UNCHANGED <<log, gens, lineNo, fd, alive>>
    BY <1>7 DEF RollFails
  <2> QED BY <1>0, <2>1, DiskStays DEF DgInv, RollInv, Plain
<1>8. CASE Dies
  <2>1. /\ alive' = FALSE /\ fd' = FALSE /\ rolling' = <<"no">> /\ UNCHANGED <<log, lineNo>>
        /\ \/ gens' = gens
           \/ rolling = <<"gzip">> /\ gens' = [gens EXCEPT ![1] = [lines |-> log, whole |-> FALSE]]
    BY <1>8 DEF Dies
  <2>2. DiskInv'
    BY <1>0, <2>1, DiskStays, CopyKeeps DEF RollInv
  <2> QED BY <2>1, <2>2 DEF DgInv, RollInv, Plain
<1> QED BY <1>1, <1>2, <1>3, <1>4, <1>5, <1>6, <1>7, <1>8 DEF DgNext

\* So the generations stay in order.
LEMMA DgInvInductive == DgInv /\ [DgNext]_dgVars => DgInv'
<1>1. DgInv /\ UNCHANGED dgVars => DgInv'
  BY DiskStays DEF dgVars, DgInv, RollInv
<1> QED BY <1>1, DgInvStep

\* So of the lines since the oldest that can be read none is missing.
LEMMA DgInvMeaning == DgInv => DgTypeOK /\ LogKeepsItsLines
<1> SUFFICES ASSUME DgInv PROVE DgTypeOK /\ LogKeepsItsLines
  OBVIOUS
<1>1. lineNo \in 0 .. MaxLogged /\ 1 .. lineNo \subseteq 1 .. MaxLogged
  BY DgAssumption DEF DgInv, DiskInv
<1>2. DgTypeOK
  BY <1>1 DEF DgInv, DiskInv, RollInv, DgTypeOK
<1>3. LogKeepsItsLines
  BY DEF DgInv, DiskInv, LogKeepsItsLines, Upwards, NoneNewer, BehindLog
<1> QED BY <1>2, <1>3

---------------------------------------------------------------------------------------
(* Telemetry, the errors. While the list is not marked as changed, what a client shows is of this
   session, and what it lacks was recorded before its process's current run. *)

ErrorTimes == 0 .. MaxNow
Filed == {f \in Prints : onFile[f] # 0}

ElInv ==
  /\ now \in 2 .. MaxNow /\ bootedAt \in 0 .. now
  /\ recs \in [Prints -> ErrorTimes] /\ onFile \in [Prints -> ErrorTimes] /\ startedAt \in [Failing -> ErrorTimes]
  /\ errors \subseteq Prints /\ \A p \in Failing : startedAt[p] <= now
  /\ Cardinality(Recorded) <= MaxErrors /\ Cardinality(Filed) <= MaxErrors
  /\ stream /\ ~errorsDirty =>
         /\ \A f \in errors : recs[f] >= bootedAt
         /\ \A f \in Recorded : bootedAt <= recs[f] /\ f \notin errors =>
                recs[f] < now /\ (startedAt[PrintOf[f]] # 0 => recs[f] < startedAt[PrintOf[f]])
  /\ recs # onFile => saveTimer \/ saveFailed

\* The first boot loads what is on disk.
LEMMA ElInvInit == ElInit => ElInv
BY ElAssumption DEF ElInit, ElInv, Recorded, Filed, ErrorTimes

\* A record more, and the oldest less when there are too many.
LEMMA RecordsKeeps ==
  ASSUME ElInv, NEW f \in Prints, Records(f)
  PROVE  /\ recs' \in [Prints -> ErrorTimes] /\ Cardinality(Recorded') <= MaxErrors
         /\ saveTimer' = TRUE /\ errorsDirty' = TRUE
<1> DEFINE seen == [recs EXCEPT ![f] = now]
           kept == {g \in Prints : seen[g] # 0}
<1>1. seen \in [Prints -> ErrorTimes]
  BY DEF ElInv, ErrorTimes
<1>2. /\ saveTimer' = TRUE /\ errorsDirty' = TRUE
      /\ IF Cardinality(kept) <= MaxErrors THEN recs' = seen
         ELSE \E g \in kept : recs' = [seen EXCEPT ![g] = 0]
  BY DEF Records, Changes
<1>3. IsFiniteSet(Recorded) /\ IsFiniteSet(kept)
  BY ElAssumption, FS_Subset DEF Recorded
<1>4. kept \subseteq Recorded \cup {f} /\ Cardinality(kept) <= MaxErrors + 1
  <2>1. \A g \in Prints : seen[g] = IF g = f THEN now ELSE recs[g]
    BY DEF ElInv
  <2>2. kept \subseteq Recorded \cup {f}
    BY <2>1 DEF Recorded
  <2>3. /\ IsFiniteSet(Recorded \cup {f})
        /\ Cardinality(Recorded \cup {f}) <= Cardinality(Recorded) + 1
        /\ Cardinality(Recorded) \in Nat
    <3>1. Cardinality(Recorded) \in Nat /\ Cardinality(Recorded \cup {f}) \in Nat
      BY <1>3, FS_AddElement, FS_CardinalityType
    <3>2. CASE f \in Recorded
      <4>1. Recorded \cup {f} = Recorded
        BY <3>2
      <4> QED BY <1>3, <3>1, <4>1
    <3>3. CASE f \notin Recorded
      <4>1. /\ IsFiniteSet(Recorded \cup {f})
            /\ Cardinality(Recorded \cup {f}) = Cardinality(Recorded) + 1
        BY <1>3, <3>3, FS_AddElement
      <4> QED BY <3>1, <4>1
    <3> QED BY <3>2, <3>3
  <2>4. Cardinality(kept) <= Cardinality(Recorded \cup {f}) /\ Cardinality(kept) \in Nat
        /\ Cardinality(Recorded \cup {f}) \in Nat
    BY <1>3, <2>2, <2>3, FS_Subset, FS_CardinalityType
  <2>5. Cardinality(Recorded) <= MaxErrors
    BY DEF ElInv
  <2> QED BY <2>2, <2>3, <2>4, <2>5, ElAssumption
<1>5. CASE Cardinality(kept) <= MaxErrors
  <2>1. recs' = seen
    BY <1>2, <1>5
  <2>2. Recorded' = kept
    BY <2>1 DEF Recorded
  <2> QED BY <1>1, <1>2, <1>5, <2>1, <2>2
<1>6. CASE ~(Cardinality(kept) <= MaxErrors)
  <2>1. PICK g \in kept : recs' = [seen EXCEPT ![g] = 0]
    BY <1>2, <1>6
  <2>2. recs' \in [Prints -> ErrorTimes] /\ \A h \in Prints : recs'[h] = IF h = g THEN 0 ELSE seen[h]
    BY <1>1, <2>1, ElAssumption DEF ErrorTimes
  <2>3. Recorded' = kept \ {g}
    BY <2>2 DEF Recorded
  <2>4. Cardinality(kept \ {g}) = Cardinality(kept) - 1 /\ Cardinality(kept) \in Nat
    BY <1>3, FS_RemoveElement, FS_CardinalityType
  <2> QED BY <1>2, <1>4, <2>2, <2>3, <2>4, ElAssumption
<1> QED BY <1>5, <1>6

\* A change of the records shows nowhere until it is pushed.
LEMMA ErrorChangeKeeps ==
  ASSUME ElInv, recs' \in [Prints -> ErrorTimes], Cardinality(Recorded') <= MaxErrors, saveTimer' = TRUE,
         errorsDirty' = TRUE, startedAt' \in [Failing -> ErrorTimes], \A p \in Failing : startedAt'[p] <= now,
         UNCHANGED <<now, onFile, bootedAt, errors>>
  PROVE  ElInv'
<1>1. Filed' = Filed
  BY DEF Filed
<1> QED BY <1>1 DEF ElInv

\* Records are dropped by the user, and the list is marked as changed.
LEMMA DropsKeeps == ASSUME ElInv, NEW F, Drops(F) PROVE ElInv'
<1>1. /\ saveTimer' = TRUE /\ errorsDirty' = TRUE
      /\ recs' = [g \in Prints |-> IF g \in F THEN 0 ELSE recs[g]]
      /\ UNCHANGED <<now, onFile, saveFailed, bootedAt, startedAt, stream, errors>>
  BY DEF Drops, Changes
<1>2. recs' \in [Prints -> ErrorTimes]
  BY <1>1, ElAssumption DEF ElInv, ErrorTimes
<1>3. Recorded' \subseteq Recorded
  BY <1>1 DEF Recorded
<1>4. IsFiniteSet(Recorded)
  BY ElAssumption, FS_Subset DEF Recorded
<1>5. Cardinality(Recorded') <= Cardinality(Recorded) /\ Cardinality(Recorded') \in Nat /\ Cardinality(Recorded) \in Nat
  BY <1>3, <1>4, FS_Subset, FS_CardinalityType
<1>6. Cardinality(Recorded') <= MaxErrors
  BY <1>5, ElAssumption DEF ElInv
<1> QED BY <1>1, <1>2, <1>6, ErrorChangeKeeps DEF ElInv

\* Each record, run, save, push, connection and reboot.
LEMMA ElInvStep == ASSUME ElInv, ElNext PROVE ElInv'
<1>0. MaxNow \in Nat /\ \A f \in Prints : PrintOf[f] \in Failing
  BY ElAssumption
<1>1. ASSUME NEW f \in Prints, record(f) PROVE ElInv'
  BY <1>1, RecordsKeeps, ErrorChangeKeeps DEF record, ElInv
<1>2. ASSUME NEW f \in Prints, dismiss(f) PROVE ElInv'
  BY <1>2, DropsKeeps DEF dismiss
<1>3. ASSUME NEW p \in Failing, starts(p) PROVE ElInv'
  <2>1. /\ startedAt' = [startedAt EXCEPT ![p] = now]
        /\ UNCHANGED <<now, recs, onFile, saveTimer, saveFailed, errorsDirty, bootedAt, stream, errors>>
    BY <1>3 DEF starts
  <2>2. /\ startedAt' \in [Failing -> ErrorTimes] /\ \A q \in Failing : startedAt'[q] <= now
        /\ \A q \in Failing : startedAt'[q] = IF q = p THEN now ELSE startedAt[q]
    BY <2>1, <1>0 DEF ElInv, ErrorTimes
  <2>3. Recorded' = Recorded /\ Filed' = Filed
    BY <2>1 DEF Recorded, Filed
  <2>4. ASSUME stream, ~errorsDirty, NEW f \in Recorded, bootedAt <= recs[f], f \notin errors
        PROVE  recs[f] < now /\ (startedAt'[PrintOf[f]] # 0 => recs[f] < startedAt'[PrintOf[f]])
    BY <1>0, <2>2, <2>4 DEF ElInv, Recorded
  <2> QED BY <2>1, <2>2, <2>3, <2>4 DEF ElInv
<1>4. ASSUME NEW p \in Failing, ends(p) PROVE ElInv'
  <2>1. /\ startedAt' = [startedAt EXCEPT ![p] = 0]
        /\ UNCHANGED <<now, onFile, saveFailed, bootedAt, stream, errors>>
    BY <1>4 DEF ends
  <2>2. /\ startedAt' \in [Failing -> ErrorTimes] /\ \A q \in Failing : startedAt'[q] <= now
        /\ \A q \in Failing : startedAt'[q] = IF q = p THEN 0 ELSE startedAt[q]
    BY <2>1, <1>0 DEF ElInv, ErrorTimes
  <2>3. CASE UNCHANGED <<recs, saveTimer, errorsDirty>>
    <3>1. Recorded' = Recorded /\ Filed' = Filed
      BY <2>1, <2>3 DEF Recorded, Filed
    <3>2. ASSUME stream, ~errorsDirty, NEW f \in Recorded, bootedAt <= recs[f], f \notin errors
          PROVE  recs[f] < now /\ (startedAt'[PrintOf[f]] # 0 => recs[f] < startedAt'[PrintOf[f]])
      BY <1>0, <2>2, <3>2 DEF ElInv, Recorded
    <3> QED BY <2>1, <2>2, <2>3, <3>1, <3>2 DEF ElInv
  <2>4. CASE \E f \in Prints : PrintOf[f] = p /\ Records(f)
    BY <2>1, <2>2, <2>4, RecordsKeeps, ErrorChangeKeeps
  <2> QED BY <1>4, <2>3, <2>4 DEF ends
<1>5. CASE clear
  BY <1>5, DropsKeeps DEF clear
<1>6. CASE save
  <2>1. /\ UNCHANGED <<now, recs, errorsDirty, bootedAt, startedAt, stream, errors>>
        /\ onFile' \in {recs, onFile} /\ (recs' # onFile' => saveFailed')
    BY <1>6 DEF save
  <2>2. Recorded' = Recorded /\ Filed' \in {Recorded, Filed}
    BY <2>1 DEF Recorded, Filed
  <2> QED BY <2>1, <2>2 DEF ElInv
<1>7. CASE tick \/ connects
  <2>1. /\ UNCHANGED <<now, recs, onFile, saveTimer, saveFailed, bootedAt, startedAt>>
        /\ (stream' => errors' = listErrors) /\ errors' \in {errors, listErrors}
    BY <1>7 DEF tick, connects
  <2>2. Recorded' = Recorded /\ Filed' = Filed
    BY <2>1 DEF Recorded, Filed
  <2>3. errors' \subseteq Prints
    BY <2>1 DEF ElInv, listErrors, Recorded
  <2>4. ASSUME stream', NEW f \in errors' PROVE recs[f] >= bootedAt
    BY <2>1, <2>4 DEF listErrors, isErrorActive, ElInv, Recorded
  <2>5. ASSUME stream', NEW f \in Recorded, bootedAt <= recs[f], f \notin errors'
        PROVE  recs[f] < startedAt[PrintOf[f]] /\ startedAt[PrintOf[f]] <= now
    <3>1. errors' = listErrors /\ f \in Prints /\ PrintOf[f] \in Failing
      BY <1>0, <2>1, <2>5 DEF Recorded
    <3>2. ~(startedAt[PrintOf[f]] <= recs[f])
      BY <2>5, <3>1 DEF listErrors, isErrorActive
    <3>3. startedAt[PrintOf[f]] \in Nat /\ recs[f] \in Nat /\ startedAt[PrintOf[f]] <= now
      BY <1>0, <3>1 DEF ElInv, ErrorTimes
    <3> QED BY <3>2, <3>3
  <2>6. ASSUME stream', NEW f \in Recorded, bootedAt <= recs[f], f \notin errors'
        PROVE  recs[f] < now /\ recs[f] < startedAt[PrintOf[f]]
    <3>1. startedAt[PrintOf[f]] \in Nat /\ recs[f] \in Nat /\ now \in Nat
      BY <1>0 DEF ElInv, ErrorTimes, Recorded
    <3> QED BY <2>5, <2>6, <3>1
  <2> QED BY <2>1, <2>2, <2>3, <2>4, <2>6 DEF ElInv
<1>8. CASE reboots
  <2>1. /\ now < MaxNow /\ now' = now + 1 /\ bootedAt' = now + 1 /\ recs' = onFile
        /\ startedAt' = [p \in Failing |-> 0] /\ stream' = FALSE /\ UNCHANGED <<onFile, errors>>
    BY <1>8 DEF reboots
  <2>2. Recorded' = Filed /\ Filed' = Filed
    BY <2>1 DEF Recorded, Filed
  <2>3. startedAt' \in [Failing -> ErrorTimes] /\ \A p \in Failing : startedAt'[p] <= now'
    BY <2>1, <1>0 DEF ErrorTimes, ElInv
  <2>4. now' \in 2 .. MaxNow /\ bootedAt' \in 0 .. now'
    BY <2>1, <1>0 DEF ElInv
  <2> QED BY <2>1, <2>2, <2>3, <2>4 DEF ElInv
<1>9. CASE passes
  <2>1. /\ now < MaxNow /\ now' = now + 1
        /\ UNCHANGED <<recs, onFile, saveTimer, saveFailed, errorsDirty, bootedAt, startedAt, stream, errors>>
    BY <1>9 DEF passes
  <2>2. Recorded' = Recorded /\ Filed' = Filed
    BY <2>1 DEF Recorded, Filed
  <2>3. now' \in 2 .. MaxNow /\ bootedAt' \in 0 .. now' /\ \A p \in Failing : startedAt'[p] <= now'
    <3>1. \A p \in Failing : startedAt[p] \in Nat /\ startedAt[p] <= now
      BY <1>0 DEF ElInv, ErrorTimes
    <3>2. now' \in 2 .. MaxNow /\ bootedAt' \in 0 .. now' /\ now \in Nat
      BY <2>1, <1>0 DEF ElInv
    <3> QED BY <2>1, <3>1, <3>2
  <2>4. ASSUME stream, ~errorsDirty, NEW f \in Recorded, bootedAt <= recs[f], f \notin errors
        PROVE  recs[f] < now' /\ (startedAt[PrintOf[f]] # 0 => recs[f] < startedAt[PrintOf[f]])
    <3>1. recs[f] < now /\ (startedAt[PrintOf[f]] # 0 => recs[f] < startedAt[PrintOf[f]])
      BY <2>4 DEF ElInv
    <3>2. recs[f] \in Nat /\ now \in Nat
      BY <1>0 DEF ElInv, ErrorTimes, Recorded
    <3> QED BY <2>1, <3>1, <3>2
  <2> QED BY <2>1, <2>2, <2>3, <2>4 DEF ElInv
<1> QED BY <1>1, <1>2, <1>3, <1>4, <1>5, <1>6, <1>7, <1>8, <1>9 DEF ElNext

\* So a list that is not marked as changed is the one the client has.
LEMMA ElInvInductive == ElInv /\ [ElNext]_elVars => ElInv'
<1>1. ElInv /\ UNCHANGED elVars => ElInv'
  BY DEF elVars, ElInv, Recorded, Filed
<1> QED BY <1>1, ElInvStep

\* So a client shows the errors of this session, and what is unsaved will be saved.
LEMMA ElInvMeaning == ElInv => ElTypeOK /\ ErrorsAreKept
<1> SUFFICES ASSUME ElInv PROVE ElTypeOK /\ ErrorsAreKept
  OBVIOUS
<1>1. ElTypeOK
  BY DEF ElInv, ElTypeOK, ErrorTimes
<1>2. ASSUME stream, ~errorsDirty, NEW f \in listErrors, startedAt[PrintOf[f]] # 0 PROVE f \in errors
  BY <1>2, ElAssumption DEF listErrors, isErrorActive, ElInv, Recorded, ErrorTimes
<1>3. stream /\ ~errorsDirty => \A f \in errors : recs[f] >= bootedAt
  BY DEF ElInv
<1>4. recs # onFile => saveTimer \/ saveFailed
  BY DEF ElInv
<1> QED BY <1>1, <1>2, <1>3, <1>4 DEF ErrorsAreKept

---------------------------------------------------------------------------------------
(* The taking over. The backup holds what the files said before the take-over it belongs to. *)

\* Of a file that no take-over has come upon there is no backup; of one that was come upon there
\* is, and it is the text found then, unless the file was written without one.
BackupOf(f) ==
  /\ pristine[f] = NoText => backup[f] = NoText /\ f \notin unbacked
  /\ pristine[f] # NoText /\ f \notin unbacked => backup[f] = pristine[f]
ToInv ==
  /\ typing \in 0 .. MaxTyping
  /\ {vscode, backup, pristine} \subseteq [VsFiles -> VsText \cup {NoText}]
  /\ unbacked \subseteq VsFiles
  /\ \A f \in VsFiles : BackupOf(f)

\* Before a take-over nothing is retired.
LEMMA ToInvInit == ToInit => ToInv
BY TakeOverAssumption DEF ToInit, ToInv, Written, VsText, NoTexts, BackupOf

\* A file that is not there has nothing to retire.
LEMMA NothingIsRetired == Retired(NoText) = NoText
<1> DEFINE TriggerTexts == [plain : BOOLEAN, veiled : BOOLEAN, version : Nat]
<1>1. NoText \in TriggerTexts /\ NoText.plain = FALSE
  BY TakeOverAssumption DEF NoText
<1>2. Retired(NoText) \in TriggerTexts
  BY <1>1 DEF Retired
<1>3. /\ Retired(NoText).plain = FALSE /\ Retired(NoText).veiled = NoText.veiled
      /\ Retired(NoText).version = NoText.version
  BY <1>1 DEF Retired
<1> QED BY <1>1, <1>2, <1>3

\* A text whose trigger is retired is a text of the folder.
LEMMA RetiredText == \A t \in VsText \cup {NoText} : Retired(t) \in VsText \cup {NoText}
<1>1. \A t \in VsText : Retired(t) \in VsText
  BY DEF Retired, VsText
<1> QED BY <1>1, NothingIsRetired

\* A take-over that fails in the middle leaves a backup of what it found, or counts the file
\* among those it has written without one.
LEMMA ToInvInductive == ToInv /\ [ToNext]_toVars => ToInv'
<1> SUFFICES ASSUME ToInv, [ToNext]_toVars PROVE ToInv'
  OBVIOUS
<1> USE DEF ToInv
<1>1. ASSUME NEW readable, NEW backed, NEW wrote, takeOverAutostart(readable, backed, wrote)
      PROVE  ToInv'
  <2> DEFINE changes == {f \in detectAutostartTriggers \cap readable :
                              Retired(vscode[f]) # vscode[f]}
             upon == changes \cap (backed \cup wrote)
  <2>1. /\ vscode' = [f \in VsFiles |->
               IF f \in changes \cap wrote THEN Retired(vscode[f]) ELSE vscode[f]]
        /\ backup' = [f \in VsFiles |->
               IF f \in changes \cap backed THEN backupOnce(f) ELSE backup[f]]
        /\ pristine' = [f \in VsFiles |->
               IF f \in upon /\ pristine[f] = NoText THEN vscode[f] ELSE pristine[f]]
        /\ unbacked' = unbacked \cup {f \in changes \cap wrote : backup'[f] = NoText}
        /\ typing' = typing
    BY <1>1 DEF takeOverAutostart
  <2>2. changes \subseteq VsFiles
    BY DEF detectAutostartTriggers
  <2>3. \A f \in changes : vscode[f] # NoText
    BY NothingIsRetired
  <2> HIDE DEF changes, upon
  <2>4. vscode' \in [VsFiles -> VsText \cup {NoText}]
    <3>1. \A f \in VsFiles : /\ vscode[f] \in VsText \cup {NoText}
                             /\ Retired(vscode[f]) \in VsText \cup {NoText}
      BY RetiredText
    <3> QED BY <2>1, <3>1
  <2>5. /\ backup' \in [VsFiles -> VsText \cup {NoText}]
        /\ pristine' \in [VsFiles -> VsText \cup {NoText}]
    BY <2>1 DEF backupOnce
  <2>6. unbacked' \subseteq VsFiles
    BY <2>1, <2>2
  <2>7. ASSUME NEW f \in VsFiles PROVE BackupOf(f)'
    <3>1. /\ backup'[f] = IF f \in changes /\ f \in backed /\ backup[f] = NoText
                           THEN vscode[f] ELSE backup[f]
          /\ pristine'[f] = IF f \in upon /\ pristine[f] = NoText THEN vscode[f] ELSE pristine[f]
      BY <2>1 DEF backupOnce
    <3>2. f \in upon <=> f \in changes /\ (f \in backed \/ f \in wrote)
      BY DEF upon
    <3>3. f \in unbacked' <=> f \in unbacked \/ (f \in changes /\ f \in wrote /\ backup'[f] = NoText)
      BY <2>1
    <3>4. f \in changes => vscode[f] # NoText
      BY <2>3
    <3>5. BackupOf(f)
      OBVIOUS
    <3> HIDE DEF ToInv
    <3>6. CASE f \in changes
      BY <3>1, <3>2, <3>3, <3>4, <3>5, <3>6 DEF BackupOf
    <3>7. CASE f \notin changes
      BY <3>1, <3>2, <3>3, <3>5, <3>7 DEF BackupOf
    <3> QED BY <3>6, <3>7
  <2> QED BY <2>1, <2>4, <2>5, <2>6, <2>7
<1>2. ASSUME NEW copied, NEW back, restoreAutostart(copied, back) PROVE ToInv'
  <2>1. /\ vscode' = [f \in VsFiles |-> IF f \in copied THEN backup[f] ELSE vscode[f]]
        /\ backup' = [f \in VsFiles |-> IF f \in back THEN NoText ELSE backup[f]]
        /\ pristine' = [f \in VsFiles |-> IF f \in back THEN NoText ELSE pristine[f]]
        /\ unbacked' = unbacked \ back /\ typing' = typing
    BY <1>2 DEF restoreAutostart, Removed
  <2>2. \A f \in VsFiles : BackupOf(f)'
    BY <2>1 DEF BackupOf
  <2>3. {vscode', backup', pristine'} \subseteq [VsFiles -> VsText \cup {NoText}]
    BY <2>1
  <2>4. typing' \in 0 .. MaxTyping /\ unbacked' \subseteq VsFiles
    BY <2>1
  <2> QED BY <2>2, <2>3, <2>4
<1>3. ASSUME NEW f \in VsFiles, Type(f) PROVE ToInv'
  <2>1. UNCHANGED <<backup, pristine, unbacked>>
    BY <1>3 DEF Type
  <2>2. vscode' \in [VsFiles -> VsText \cup {NoText}] /\ typing' \in 0 .. MaxTyping
    BY <1>3, TakeOverAssumption DEF Type, Written
  <2>3. \A g \in VsFiles : BackupOf(g)'
    BY <2>1 DEF BackupOf
  <2>4. {vscode', backup', pristine'} \subseteq [VsFiles -> VsText \cup {NoText}]
    BY <2>1, <2>2
  <2>5. unbacked' \subseteq VsFiles
    BY <2>1
  <2> QED BY <2>2, <2>3, <2>4, <2>5
<1>4. CASE UNCHANGED toVars
  BY <1>4 DEF toVars, BackupOf
<1> QED BY <1>1, <1>2, <1>3, <1>4 DEF ToNext

\* So a restore brings the former texts back.
LEMMA ToInvMeaning == ToInv => ToTypeOK /\ RestoreBringsBack
BY DEF ToInv, BackupOf, ToTypeOK, RestoreBringsBack

\* A restore brings back what the first take-over since the last one found, whatever was edited,
\* taken over again and failed since; but not the text of a file that was written although its
\* backup had failed (takeover.ts).
THEOREM OriginalsComeBack == ToSpec => []RestoreBringsBack
BY ToInvInit, ToInvInductive, ToInvMeaning, PTL DEF ToSpec

---------------------------------------------------------------------------------------
(* Routes. The table of the registrations is written out as rows, a row telling which words a
   path has that fits it. Two rows that one path fits are an action and a registration before
   it, and no action is called like one of those. So the first that fits is the one meant. *)

\* The table of the registrations: method, route and the words of its path that are fixed;
\* first the routes whose path is one word, two words and three.
OneRows ==
  {<<"GET", "stream", "stream">>, <<"GET", "health", "health">>, <<"GET", "updates", "updates">>,
   <<"POST", "shutdown", "shutdown">>, <<"GET", "settings", "settings">>,
   <<"PUT", "settings", "settings">>, <<"POST", "portableWindow", "portable-window">>,
   <<"GET", "errors", "errors">>, <<"GET", "safeMode", "safe-mode">>,
   <<"POST", "openInEditor", "open-in-editor">>, <<"GET", "projects", "projects">>,
   <<"GET", "processes", "processes">>, <<"GET", "runtimeServices", "runtime-services">>}
ProjectRows ==
  {<<"POST", "projectsBrowse", "projects", "browse">>, <<"POST", "projectsLoad", "projects", "load">>,
   <<"POST", "projectsScaffold", "projects", "scaffold">>,
   <<"POST", "projectsTakeOver", "projects", "take-over">>,
   <<"POST", "projectsRestoreAutostart", "projects", "restore-autostart">>,
   <<"POST", "projectsClone", "projects", "clone">>,
   <<"POST", "projectsBrowseFolder", "projects", "browse-folder">>,
   <<"GET", "projectsSuggestDest", "projects", "suggest-dest">>,
   <<"POST", "projectsScan", "projects", "scan">>, <<"GET", "projectsIgnored", "projects", "ignored">>,
   <<"POST", "projectsIgnore", "projects", "ignore">>,
   <<"POST", "projectsUnignore", "projects", "unignore">>}
OtherRows ==
  {<<"POST", "updatesApply", "updates", "apply">>, <<"POST", "errorsClear", "errors", "clear">>,
   <<"POST", "errorsDismiss", "errors", "dismiss">>, <<"POST", "safeModeExit", "safe-mode", "exit">>,
   <<"POST", "startAll", "processes", "start-all">>, <<"POST", "stopAll", "processes", "stop-all">>,
   <<"GET", "authMe", "auth", "me">>, <<"POST", "authLogout", "auth", "logout">>,
   <<"GET", "settingsSync", "settings", "sync">>, <<"PUT", "settingsSync", "settings", "sync">>,
   <<"GET", "alertRules", "alerts", "rules">>, <<"POST", "alertRules", "alerts", "rules">>,
   <<"GET", "alertEvents", "alerts", "events">>,
   <<"GET", "browserClient", "browser", "client.js">>,
   <<"GET", "browserConnect", "browser", "connect">>, <<"POST", "browserReply", "browser", "reply">>,
   <<"GET", "browserTabs", "browser", "tabs">>, <<"POST", "browserQuery", "browser", "query">>,
   <<"GET", "pairingStatus", "pairing", "status">>, <<"POST", "pairingRequest", "pairing", "request">>,
   <<"POST", "pairingVerify", "pairing", "verify">>, <<"GET", "pairingCodes", "pairing", "codes">>,
   <<"GET", "pairingClients", "pairing", "clients">>,
   <<"POST", "pairingStreamTicket", "pairing", "stream-ticket">>}
TwoRows == ProjectRows \cup OtherRows
ThreeRows ==
  {<<"POST", "settingsSyncPull", "settings", "sync", "pull">>,
   <<"POST", "settingsSyncPush", "settings", "sync", "push">>,
   <<"POST", "alertEventsClear", "alerts", "events", "clear">>}
\* The routes with a star: in the second place, in the third, in both, and longer.
UpdateRows == {<<"PUT", "projectUpdate", "projects">>}
ItemRows ==
  {<<"PUT", "alertRule", "alerts", "rules">>, <<"DELETE", "alertRule", "alerts", "rules">>,
   <<"DELETE", "pairingClient", "pairing", "clients">>}
PartRows ==
  {<<"POST", "projectProcesses", "projects", "processes">>,
   <<"POST", "projectShortcut", "projects", "shortcut">>,
   <<"GET", "processLogs", "processes", "logs">>, <<"GET", "processLogFile", "processes", "logfile">>,
   <<"POST", "processFreePort", "processes", "free-port">>,
   <<"GET", "processDiagnose", "processes", "diagnose">>,
   <<"POST", "processShortcut", "processes", "shortcut">>}
ActionRows == {<<"POST", "projectAction", "projects">>, <<"POST", "processAction", "processes">>}
EntryRows == {<<"PUT", "projectProcess">>, <<"DELETE", "projectProcess">>}

\* The registration of method m and route r is one that the path q fits.
Row(m, r, q) ==
  \/ Len(q) = 1 /\ <<m, r, q[1]>> \in OneRows
  \/ Len(q) = 2 /\ (<<m, r, q[1], q[2]>> \in TwoRows \/ <<m, r, q[1]>> \in UpdateRows)
  \/ Len(q) = 3 /\ (\/ <<m, r, q[1], q[2], q[3]>> \in ThreeRows
                    \/ <<m, r, q[1], q[2]>> \in ItemRows
                    \/ <<m, r, q[1], q[3]>> \in PartRows
                    \/ <<m, r, q[1]>> \in ActionRows)
  \/ Len(q) = 4 /\ <<m, r>> \in EntryRows
  \/ Len(q) = 5 /\ <<m, r>> = <<"POST", "projectProcessStar">>

\* What it is to match a pattern of one, two, three or more words.
LEMMA MatchesOne ==
  ASSUME NEW q, NEW a, a # "*", MatchesPath(q, <<a>>) PROVE Len(q) = 1 /\ q[1] = a
BY DEF MatchesPath, Stars

\* The second word of a pattern of two may be a star.
LEMMA MatchesTwo ==
  ASSUME NEW q, NEW a, NEW b, a # "*", MatchesPath(q, <<a, b>>)
  PROVE  Len(q) = 2 /\ q[1] = a /\ (b # "*" => q[2] = b)
BY DEF MatchesPath, Stars

\* So may the second and the third of a pattern of three.
LEMMA MatchesThree ==
  ASSUME NEW q, NEW a, NEW b, NEW c, a # "*", MatchesPath(q, <<a, b, c>>)
  PROVE  Len(q) = 3 /\ q[1] = a /\ (b # "*" => q[2] = b) /\ (c # "*" => q[3] = c)
BY DEF MatchesPath, Stars

\* Of a longer pattern only the length is needed.
LEMMA MatchesMore ==
  ASSUME NEW q, NEW p, MatchesPath(q, p) PROVE Len(q) = Len(p)
BY DEF MatchesPath

\* The list u is s, of length m, and then t, of length n.
Joins(u, s, t, m, n) ==
  /\ Len(u) = m + n
  /\ \A i \in 1 .. m : u[i] = s[i]
  /\ \A j \in 1 .. n : u[m + j] = t[j]

\* Two lists one after the other.
LEMMA Joined ==
  ASSUME NEW S, NEW s \in Seq(S), NEW t \in Seq(S), NEW m, NEW n, Len(s) = m, Len(t) = n
  PROVE  s \o t \in Seq(S) /\ Joins(s \o t, s, t, m, n)
BY DEF Joins

\* Registered, by its parts.
LEMMA RegisteredIs ==
  /\ Len(Registered) = 68 /\ DOMAIN Registered = 1 .. 68
  /\ Registered[1] = Realtime[1]
  /\ \A j \in 1 .. 13 : Registered[1 + j] = System[j]
  /\ \A j \in 1 .. 13 : Registered[14 + j] = ProjectRoutes[j]
  /\ \A j \in 1 .. 17 : Registered[27 + j] = ProcessRoutes[j]
  /\ \A j \in 1 .. 6 : Registered[44 + j] = ConnectionsRoutes[j]
  /\ \A j \in 1 .. 6 : Registered[50 + j] = AlertRoutes[j]
  /\ \A j \in 1 .. 5 : Registered[56 + j] = BrowserRoutes[j]
  /\ \A j \in 1 .. 7 : Registered[61 + j] = PairingRoutes[j]
<1> DEFINE S == {Realtime[1]} \cup {System[i] : i \in 1 .. 13} \cup {ProjectRoutes[i] : i \in 1 .. 13}
                \cup {ProcessRoutes[i] : i \in 1 .. 17} \cup {ConnectionsRoutes[i] : i \in 1 .. 6}
                \cup {AlertRoutes[i] : i \in 1 .. 6} \cup {BrowserRoutes[i] : i \in 1 .. 5}
                \cup {PairingRoutes[i] : i \in 1 .. 7}
           A == Realtime \o System
           B == A \o ProjectRoutes
           C == B \o ProcessRoutes
           D == C \o ConnectionsRoutes
           E == D \o AlertRoutes
           F == E \o BrowserRoutes
<1>1. Realtime \in Seq(S) /\ Len(Realtime) = 1
  <2>1. Realtime[1] \in S
    OBVIOUS
  <2> HIDE DEF S
  <2> QED BY <2>1 DEF Realtime
<1>2. System \in Seq(S) /\ Len(System) = 13
  <2>1. \A i \in 1 .. 13 : System[i] \in S
    OBVIOUS
  <2> HIDE DEF S
  <2> QED BY <2>1 DEF System
<1>3. ProjectRoutes \in Seq(S) /\ Len(ProjectRoutes) = 13
  <2>1. \A i \in 1 .. 13 : ProjectRoutes[i] \in S
    OBVIOUS
  <2> HIDE DEF S
  <2> QED BY <2>1 DEF ProjectRoutes
<1>4. ProcessRoutes \in Seq(S) /\ Len(ProcessRoutes) = 17
  <2>1. \A i \in 1 .. 17 : ProcessRoutes[i] \in S
    OBVIOUS
  <2> HIDE DEF S
  <2> QED BY <2>1 DEF ProcessRoutes
<1>5. ConnectionsRoutes \in Seq(S) /\ Len(ConnectionsRoutes) = 6
  <2>1. \A i \in 1 .. 6 : ConnectionsRoutes[i] \in S
    OBVIOUS
  <2> HIDE DEF S
  <2> QED BY <2>1 DEF ConnectionsRoutes
<1>6. AlertRoutes \in Seq(S) /\ Len(AlertRoutes) = 6
  <2>1. \A i \in 1 .. 6 : AlertRoutes[i] \in S
    OBVIOUS
  <2> HIDE DEF S
  <2> QED BY <2>1 DEF AlertRoutes
<1>7. BrowserRoutes \in Seq(S) /\ Len(BrowserRoutes) = 5
  <2>1. \A i \in 1 .. 5 : BrowserRoutes[i] \in S
    OBVIOUS
  <2> HIDE DEF S
  <2> QED BY <2>1 DEF BrowserRoutes
<1>8. PairingRoutes \in Seq(S) /\ Len(PairingRoutes) = 7
  <2>1. \A i \in 1 .. 7 : PairingRoutes[i] \in S
    OBVIOUS
  <2> HIDE DEF S
  <2> QED BY <2>1 DEF PairingRoutes
<1>9. Registered = F \o PairingRoutes
  BY DEF Registered
<1> HIDE DEF S
<1>a. A \in Seq(S) /\ Len(A) = 14 /\ Joins(A, Realtime, System, 1, 13)
  <2>1. A \in Seq(S) /\ Joins(A, Realtime, System, 1, 13)
    BY <1>1, <1>2, Joined
  <2>2. Len(A) = 14
    BY <2>1 DEF Joins
  <2> QED BY <2>1, <2>2
<1> HIDE DEF A
<1>b. B \in Seq(S) /\ Len(B) = 27 /\ Joins(B, A, ProjectRoutes, 14, 13)
  <2>1. B \in Seq(S) /\ Joins(B, A, ProjectRoutes, 14, 13)
    BY <1>a, <1>3, Joined
  <2>2. Len(B) = 27
    BY <2>1 DEF Joins
  <2> QED BY <2>1, <2>2
<1> HIDE DEF B
<1>c. C \in Seq(S) /\ Len(C) = 44 /\ Joins(C, B, ProcessRoutes, 27, 17)
  <2>1. C \in Seq(S) /\ Joins(C, B, ProcessRoutes, 27, 17)
    BY <1>b, <1>4, Joined
  <2>2. Len(C) = 44
    BY <2>1 DEF Joins
  <2> QED BY <2>1, <2>2
<1> HIDE DEF C
<1>d. D \in Seq(S) /\ Len(D) = 50 /\ Joins(D, C, ConnectionsRoutes, 44, 6)
  <2>1. D \in Seq(S) /\ Joins(D, C, ConnectionsRoutes, 44, 6)
    BY <1>c, <1>5, Joined
  <2>2. Len(D) = 50
    BY <2>1 DEF Joins
  <2> QED BY <2>1, <2>2
<1> HIDE DEF D
<1>e. E \in Seq(S) /\ Len(E) = 56 /\ Joins(E, D, AlertRoutes, 50, 6)
  <2>1. E \in Seq(S) /\ Joins(E, D, AlertRoutes, 50, 6)
    BY <1>d, <1>6, Joined
  <2>2. Len(E) = 56
    BY <2>1 DEF Joins
  <2> QED BY <2>1, <2>2
<1> HIDE DEF E
<1>f. F \in Seq(S) /\ Len(F) = 61 /\ Joins(F, E, BrowserRoutes, 56, 5)
  <2>1. F \in Seq(S) /\ Joins(F, E, BrowserRoutes, 56, 5)
    BY <1>e, <1>7, Joined
  <2>2. Len(F) = 61
    BY <2>1 DEF Joins
  <2> QED BY <2>1, <2>2
<1> HIDE DEF F
<1>g. Registered \in Seq(S) /\ Len(Registered) = 68 /\ Joins(Registered, F, PairingRoutes, 61, 7)
  <2>1. Registered \in Seq(S) /\ Joins(Registered, F, PairingRoutes, 61, 7)
    BY <1>f, <1>8, <1>9, Joined
  <2>2. Len(Registered) = 68
    BY <2>1 DEF Joins
  <2> QED BY <2>1, <2>2
<1>h. /\ Joins(A, Realtime, System, 1, 13) /\ Joins(B, A, ProjectRoutes, 14, 13)
      /\ Joins(C, B, ProcessRoutes, 27, 17) /\ Joins(D, C, ConnectionsRoutes, 44, 6)
      /\ Joins(E, D, AlertRoutes, 50, 6) /\ Joins(F, E, BrowserRoutes, 56, 5)
      /\ Joins(Registered, F, PairingRoutes, 61, 7)
  BY <1>a, <1>b, <1>c, <1>d, <1>e, <1>f, <1>g
<1>i. Registered[1] = Realtime[1] /\ \A j \in 1 .. 13 : Registered[1 + j] = System[j]
  BY <1>h DEF Joins
<1>j. \A j \in 1 .. 13 : Registered[14 + j] = ProjectRoutes[j]
  BY <1>h DEF Joins
<1>k. \A j \in 1 .. 17 : Registered[27 + j] = ProcessRoutes[j]
  BY <1>h DEF Joins
<1>l. /\ \A j \in 1 .. 6 : Registered[44 + j] = ConnectionsRoutes[j]
      /\ \A j \in 1 .. 6 : Registered[50 + j] = AlertRoutes[j]
  BY <1>h DEF Joins
<1>m. /\ \A j \in 1 .. 5 : Registered[56 + j] = BrowserRoutes[j]
      /\ \A j \in 1 .. 7 : Registered[61 + j] = PairingRoutes[j]
  BY <1>h DEF Joins
<1>n. DOMAIN Registered = 1 .. 68
  BY <1>g
<1> QED BY <1>g, <1>i, <1>j, <1>k, <1>l, <1>m, <1>n

\* The patterns of the routes whose path is one word.
LEMMA PatternsOfOne ==
  /\ PatternOf("health") = <<"health">> /\ PatternOf("shutdown") = <<"shutdown">>
  /\ PatternOf("settings") = <<"settings">> /\ PatternOf("portableWindow") = <<"portable-window">>
  /\ PatternOf("updates") = <<"updates">> /\ PatternOf("errors") = <<"errors">>
  /\ PatternOf("safeMode") = <<"safe-mode">> /\ PatternOf("openInEditor") = <<"open-in-editor">>
  /\ PatternOf("projects") = <<"projects">> /\ PatternOf("processes") = <<"processes">>
  /\ PatternOf("runtimeServices") = <<"runtime-services">> /\ PatternOf("stream") = <<"stream">>
BY DEF PatternOf, Fixed

\* Those of two words below "projects".
LEMMA PatternsOfProjects ==
  /\ PatternOf("projectsLoad") = <<"projects", "load">>
  /\ PatternOf("projectsScan") = <<"projects", "scan">>
  /\ PatternOf("projectsIgnored") = <<"projects", "ignored">>
  /\ PatternOf("projectsIgnore") = <<"projects", "ignore">>
  /\ PatternOf("projectsUnignore") = <<"projects", "unignore">>
  /\ PatternOf("projectsClone") = <<"projects", "clone">>
  /\ PatternOf("projectsScaffold") = <<"projects", "scaffold">>
  /\ PatternOf("projectsBrowse") = <<"projects", "browse">>
  /\ PatternOf("projectsBrowseFolder") = <<"projects", "browse-folder">>
  /\ PatternOf("projectsSuggestDest") = <<"projects", "suggest-dest">>
  /\ PatternOf("projectsTakeOver") = <<"projects", "take-over">>
  /\ PatternOf("projectsRestoreAutostart") = <<"projects", "restore-autostart">>
BY DEF PatternOf, Fixed

\* The other patterns of two words.
LEMMA PatternsOfTwo ==
  /\ PatternOf("updatesApply") = <<"updates", "apply">>
  /\ PatternOf("errorsClear") = <<"errors", "clear">>
  /\ PatternOf("errorsDismiss") = <<"errors", "dismiss">>
  /\ PatternOf("safeModeExit") = <<"safe-mode", "exit">>
  /\ PatternOf("alertRules") = <<"alerts", "rules">>
  /\ PatternOf("alertEvents") = <<"alerts", "events">> /\ PatternOf("authMe") = <<"auth", "me">>
  /\ PatternOf("authLogout") = <<"auth", "logout">>
  /\ PatternOf("settingsSync") = <<"settings", "sync">>
  /\ PatternOf("pairingStatus") = <<"pairing", "status">>
  /\ PatternOf("pairingRequest") = <<"pairing", "request">>
  /\ PatternOf("pairingVerify") = <<"pairing", "verify">>
  /\ PatternOf("pairingCodes") = <<"pairing", "codes">>
  /\ PatternOf("pairingClients") = <<"pairing", "clients">>
  /\ PatternOf("pairingStreamTicket") = <<"pairing", "stream-ticket">>
  /\ PatternOf("startAll") = <<"processes", "start-all">>
  /\ PatternOf("stopAll") = <<"processes", "stop-all">>
  /\ PatternOf("browserClient") = <<"browser", "client.js">>
  /\ PatternOf("browserConnect") = <<"browser", "connect">>
  /\ PatternOf("browserReply") = <<"browser", "reply">>
  /\ PatternOf("browserTabs") = <<"browser", "tabs">>
  /\ PatternOf("browserQuery") = <<"browser", "query">>
BY DEF PatternOf, Fixed

\* The patterns of three words.
LEMMA PatternsOfThree ==
  /\ PatternOf("alertEventsClear") = <<"alerts", "events", "clear">>
  /\ PatternOf("settingsSyncPull") = <<"settings", "sync", "pull">>
  /\ PatternOf("settingsSyncPush") = <<"settings", "sync", "push">>
BY DEF PatternOf, Fixed

\* The patterns with a star.
LEMMA PatternsWithStars ==
  /\ PatternOf("processAction") = <<"processes", "*", "*">>
  /\ PatternOf("processLogs") = <<"processes", "*", "logs">>
  /\ PatternOf("processLogFile") = <<"processes", "*", "logfile">>
  /\ PatternOf("processFreePort") = <<"processes", "*", "free-port">>
  /\ PatternOf("processDiagnose") = <<"processes", "*", "diagnose">>
  /\ PatternOf("processShortcut") = <<"processes", "*", "shortcut">>
  /\ PatternOf("pairingClient") = <<"pairing", "clients", "*">>
  /\ PatternOf("alertRule") = <<"alerts", "rules", "*">>
  /\ PatternOf("projectUpdate") = <<"projects", "*">>
  /\ PatternOf("projectAction") = <<"projects", "*", "*">>
  /\ PatternOf("projectProcesses") = <<"projects", "*", "processes">>
  /\ PatternOf("projectProcess") = <<"projects", "*", "processes", "*">>
  /\ PatternOf("projectProcessStar") = <<"projects", "*", "processes", "*", "star">>
  /\ PatternOf("projectShortcut") = <<"projects", "*", "shortcut">>
BY DEF PatternOf, Fixed, Parametric

\* A pattern is a list.
IsPattern(p) == Len(p) \in Nat /\ DOMAIN p = 1 .. Len(p)

\* Every list of words is a pattern.
LEMMA TuplesArePatterns ==
  /\ \A a : IsPattern(<<a>>)
  /\ \A a, b : IsPattern(<<a, b>>)
  /\ \A a, b, c : IsPattern(<<a, b, c>>)
  /\ \A a, b, c, d : IsPattern(<<a, b, c, d>>)
  /\ \A a, b, c, d, e : IsPattern(<<a, b, c, d, e>>)
BY DEF IsPattern

\* What is built from a pattern fits it.
LEMMA BuiltFits ==
  ASSUME NEW p, NEW vs, IsPattern(p) PROVE MatchesPath(build(p, vs), p)
<1> DEFINE f == build(p, vs)
<1>1. f = [i \in 1 .. Len(p) |-> f[i]]
  BY DEF build, IsPattern
<1>2. f \in Seq({f[i] : i \in 1 .. Len(p)})
  BY <1>1 DEF IsPattern
<1>3. Len(f) = Len(p)
  BY <1>1, <1>2 DEF IsPattern
<1>4. \A i \in DOMAIN p \ Stars(p) : f[i] = p[i]
  BY DEF build
<1> QED BY <1>3, <1>4 DEF MatchesPath

\* The third word of an action's path is its second value.
LEMMA ThirdIsSecond ==
  ASSUME NEW a, NEW vs, a # "*" PROVE build(<<a, "*", "*">>, vs)[3] = vs[2]
<1> DEFINE p == <<a, "*", "*">>
<1>1. Stars(p) = {2, 3}
  BY DEF Stars
<1>2. {j \in Stars(p) : j <= 3} = {2, 3}
  BY <1>1
<1>3. Cardinality({2, 3}) = 2
  <2>1. IsFiniteSet({2}) /\ Cardinality({2}) = 1
    BY FS_Singleton
  <2>2. {2, 3} = {2} \cup {3} /\ 3 \notin {2}
    OBVIOUS
  <2>3. Cardinality({2} \cup {3}) = 2
    BY <2>1, <2>2, FS_AddElement
  <2> QED BY <2>2, <2>3
<1>4. DOMAIN p = 1 .. 3
  OBVIOUS
<1>5. build(p, vs) = [i \in DOMAIN p |-> IF i \in Stars(p)
                                          THEN vs[Cardinality({j \in Stars(p) : j <= i})] ELSE p[i]]
  BY DEF build
<1> HIDE DEF p
<1>6. build(p, vs)[3] = vs[Cardinality({j \in Stars(p) : j <= 3})]
  BY <1>1, <1>4, <1>5
<1> QED BY <1>2, <1>3, <1>6 DEF p

\* A path with no star is its pattern.
LEMMA NoStars ==
  ASSUME NEW p, NEW vs, Stars(p) = {}, p = [i \in DOMAIN p |-> p[i]] PROVE build(p, vs) = p
BY DEF build

\* So for a path of two words.
LEMMA NoStar2 ==
  ASSUME NEW vs, NEW a, NEW b, a # "*", b # "*" PROVE build(<<a, b>>, vs) = <<a, b>>
<1>1. Stars(<<a, b>>) = {}
  BY DEF Stars
<1>2. <<a, b>> = [i \in DOMAIN <<a, b>> |-> <<a, b>>[i]]
  OBVIOUS
<1> QED BY <1>1, <1>2, NoStars

\* And for a path of one.
LEMMA NoStar1 ==
  ASSUME NEW vs, NEW a, a # "*" PROVE build(<<a>>, vs) = <<a>>
<1>1. Stars(<<a>>) = {}
  BY DEF Stars
<1>2. <<a>> = [i \in DOMAIN <<a>> |-> <<a>>[i]]
  OBVIOUS
<1> QED BY <1>1, <1>2, NoStars

\* Whatever fits the pattern of r is a path of the table's row of m and r.
Suits(m, r) == \A q : MatchesPath(q, PatternOf(r)) => Row(m, r, q)

\* The row of the stream (http/core.ts).
LEMMA SuitRealtime ==
  \A j \in 1 .. 1 : Suits(Realtime[j][1], Realtime[j][2])
<1>1. Suits("GET", "stream")
  BY PatternsOfOne, MatchesOne DEF Suits, Row, OneRows
<1> QED BY <1>1 DEF Realtime

\* The rows of the daemon itself (http/core.ts).
LEMMA SuitSystem ==
  \A j \in 1 .. 13 : Suits(System[j][1], System[j][2])
<1>1. /\ Suits("GET", "health") /\ Suits("GET", "updates") /\ Suits("POST", "shutdown")
      /\ Suits("GET", "settings") /\ Suits("PUT", "settings") /\ Suits("POST", "portableWindow")
      /\ Suits("GET", "errors") /\ Suits("GET", "safeMode") /\ Suits("POST", "openInEditor")
  BY PatternsOfOne, MatchesOne DEF Suits, Row, OneRows
<1>2. /\ Suits("POST", "updatesApply") /\ Suits("POST", "errorsClear")
      /\ Suits("POST", "errorsDismiss") /\ Suits("POST", "safeModeExit")
  BY PatternsOfTwo, MatchesTwo DEF Suits, Row, TwoRows, OtherRows
<1> QED BY <1>1, <1>2 DEF System

\* The rows of project-routes.ts.
LEMMA SuitProjectRoutes ==
  \A j \in 1 .. 13 : Suits(ProjectRoutes[j][1], ProjectRoutes[j][2])
<1>1. Suits("GET", "projects")
  BY PatternsOfOne, MatchesOne DEF Suits, Row, OneRows
<1>2. /\ Suits("POST", "projectsBrowse") /\ Suits("POST", "projectsLoad")
      /\ Suits("POST", "projectsScaffold") /\ Suits("POST", "projectsTakeOver")
      /\ Suits("POST", "projectsRestoreAutostart") /\ Suits("POST", "projectsClone")
      /\ Suits("POST", "projectsBrowseFolder") /\ Suits("GET", "projectsSuggestDest")
      /\ Suits("POST", "projectsScan") /\ Suits("GET", "projectsIgnored")
      /\ Suits("POST", "projectsIgnore") /\ Suits("POST", "projectsUnignore")
  BY PatternsOfProjects, MatchesTwo DEF Suits, Row, TwoRows, ProjectRows
<1> QED BY <1>1, <1>2 DEF ProjectRoutes

\* The rows of process-routes.ts.
LEMMA SuitProcessRoutes ==
  \A j \in 1 .. 17 : Suits(ProcessRoutes[j][1], ProcessRoutes[j][2])
<1>1. /\ Suits("PUT", "projectUpdate") /\ Suits("POST", "projectProcesses")
      /\ Suits("PUT", "projectProcess") /\ Suits("DELETE", "projectProcess")
      /\ Suits("POST", "projectProcessStar") /\ Suits("POST", "projectShortcut")
      /\ Suits("POST", "projectAction") /\ Suits("GET", "processLogs")
      /\ Suits("GET", "processLogFile") /\ Suits("POST", "processFreePort")
      /\ Suits("GET", "processDiagnose") /\ Suits("POST", "processShortcut")
      /\ Suits("POST", "processAction")
  BY PatternsWithStars, MatchesTwo, MatchesThree, MatchesMore
     DEF Suits, Row, UpdateRows, ItemRows, PartRows, ActionRows, EntryRows
<1>2. Suits("GET", "processes") /\ Suits("GET", "runtimeServices")
  BY PatternsOfOne, MatchesOne DEF Suits, Row, OneRows
<1>3. Suits("POST", "startAll") /\ Suits("POST", "stopAll")
  BY PatternsOfTwo, MatchesTwo DEF Suits, Row, TwoRows, OtherRows
<1> QED BY <1>1, <1>2, <1>3 DEF ProcessRoutes

\* The rows of connections-routes.ts.
LEMMA SuitConnectionsRoutes ==
  \A j \in 1 .. 6 : Suits(ConnectionsRoutes[j][1], ConnectionsRoutes[j][2])
<1>1. /\ Suits("GET", "authMe") /\ Suits("POST", "authLogout") /\ Suits("GET", "settingsSync")
      /\ Suits("PUT", "settingsSync")
  BY PatternsOfTwo, MatchesTwo DEF Suits, Row, TwoRows, OtherRows
<1>2. Suits("POST", "settingsSyncPull") /\ Suits("POST", "settingsSyncPush")
  BY PatternsOfThree, MatchesThree DEF Suits, Row, ThreeRows
<1> QED BY <1>1, <1>2 DEF ConnectionsRoutes

\* The rows of alert-routes.ts.
LEMMA SuitAlertRoutes ==
  \A j \in 1 .. 6 : Suits(AlertRoutes[j][1], AlertRoutes[j][2])
<1>1. /\ Suits("GET", "alertRules") /\ Suits("POST", "alertRules")
      /\ Suits("GET", "alertEvents")
  BY PatternsOfTwo, MatchesTwo DEF Suits, Row, TwoRows, OtherRows
<1>2. Suits("PUT", "alertRule") /\ Suits("DELETE", "alertRule")
  BY PatternsWithStars, MatchesTwo, MatchesThree, MatchesMore
     DEF Suits, Row, UpdateRows, ItemRows, PartRows, ActionRows, EntryRows
<1>3. Suits("POST", "alertEventsClear")
  BY PatternsOfThree, MatchesThree DEF Suits, Row, ThreeRows
<1> QED BY <1>1, <1>2, <1>3 DEF AlertRoutes

\* The rows of browser-routes.ts.
LEMMA SuitBrowserRoutes ==
  \A j \in 1 .. 5 : Suits(BrowserRoutes[j][1], BrowserRoutes[j][2])
<1>1. /\ Suits("GET", "browserClient") /\ Suits("GET", "browserConnect")
      /\ Suits("POST", "browserReply") /\ Suits("GET", "browserTabs")
      /\ Suits("POST", "browserQuery")
  BY PatternsOfTwo, MatchesTwo DEF Suits, Row, TwoRows, OtherRows
<1> QED BY <1>1 DEF BrowserRoutes

\* The rows of pairing-routes.ts.
LEMMA SuitPairingRoutes ==
  \A j \in 1 .. 7 : Suits(PairingRoutes[j][1], PairingRoutes[j][2])
<1>1. /\ Suits("GET", "pairingStatus") /\ Suits("POST", "pairingRequest")
      /\ Suits("POST", "pairingVerify") /\ Suits("GET", "pairingCodes")
      /\ Suits("GET", "pairingClients") /\ Suits("POST", "pairingStreamTicket")
  BY PatternsOfTwo, MatchesTwo DEF Suits, Row, TwoRows, OtherRows
<1>2. Suits("DELETE", "pairingClient")
  BY PatternsWithStars, MatchesTwo, MatchesThree, MatchesMore
     DEF Suits, Row, UpdateRows, ItemRows, PartRows, ActionRows, EntryRows
<1> QED BY <1>1, <1>2 DEF PairingRoutes

\* Every route of the shared table has a pattern.
LEMMA RoutesArePatterns ==
  ASSUME NEW r \in DOMAIN Fixed \cup DOMAIN Parametric PROVE IsPattern(PatternOf(r))
<1>1. \A x \in DOMAIN Fixed : IsPattern(Fixed[x])
  BY TuplesArePatterns DEF Fixed
<1>2. \A x \in DOMAIN Parametric : IsPattern(Parametric[x])
  BY TuplesArePatterns DEF Parametric
<1> QED BY <1>1, <1>2 DEF PatternOf

\* Every registration is of a route of the shared table.
LEMMA RegistrationsAreRoutes ==
  ASSUME NEW i \in DOMAIN Registered
  PROVE  Registered[i][2] \in DOMAIN Fixed \cup DOMAIN Parametric
<1> DEFINE Names == DOMAIN Fixed \cup DOMAIN Parametric
<1> SUFFICES Registered[i][2] \in Names
  OBVIOUS
<1>1. \A j \in 1 .. 1 : Realtime[j][2] \in Names
  BY DEF Realtime, Fixed, Parametric
<1>2. \A j \in 1 .. 13 : System[j][2] \in Names
  BY DEF System, Fixed, Parametric
<1>3. \A j \in 1 .. 13 : ProjectRoutes[j][2] \in Names
  BY DEF ProjectRoutes, Fixed, Parametric
<1>4. \A j \in 1 .. 17 : ProcessRoutes[j][2] \in Names
  BY DEF ProcessRoutes, Fixed, Parametric
<1>5. \A j \in 1 .. 6 : ConnectionsRoutes[j][2] \in Names
  BY DEF ConnectionsRoutes, Fixed, Parametric
<1>6. \A j \in 1 .. 6 : AlertRoutes[j][2] \in Names
  BY DEF AlertRoutes, Fixed, Parametric
<1>7. \A j \in 1 .. 5 : BrowserRoutes[j][2] \in Names
  BY DEF BrowserRoutes, Fixed, Parametric
<1>8. \A j \in 1 .. 7 : PairingRoutes[j][2] \in Names
  BY DEF PairingRoutes, Fixed, Parametric
<1> HIDE DEF Names
<1>9. \/ i = 1 \/ i - 1 \in 1 .. 13 \/ i - 14 \in 1 .. 13 \/ i - 27 \in 1 .. 17
      \/ i - 44 \in 1 .. 6 \/ i - 50 \in 1 .. 6 \/ i - 56 \in 1 .. 5 \/ i - 61 \in 1 .. 7
  BY RegisteredIs
<1>10. i \in Nat
  BY RegisteredIs
<1>11. CASE i = 1
  BY <1>11, RegisteredIs, <1>1
<1>12. CASE i - 1 \in 1 .. 13
  <2>1. Registered[1 + (i - 1)] = System[i - 1] /\ 1 + (i - 1) = i
    BY <1>10, <1>12, RegisteredIs
  <2> QED BY <1>12, <2>1, <1>2
<1>13. CASE i - 14 \in 1 .. 13
  <2>1. Registered[14 + (i - 14)] = ProjectRoutes[i - 14] /\ 14 + (i - 14) = i
    BY <1>10, <1>13, RegisteredIs
  <2> QED BY <1>13, <2>1, <1>3
<1>14. CASE i - 27 \in 1 .. 17
  <2>1. Registered[27 + (i - 27)] = ProcessRoutes[i - 27] /\ 27 + (i - 27) = i
    BY <1>10, <1>14, RegisteredIs
  <2> QED BY <1>14, <2>1, <1>4
<1>15. CASE i - 44 \in 1 .. 6
  <2>1. Registered[44 + (i - 44)] = ConnectionsRoutes[i - 44] /\ 44 + (i - 44) = i
    BY <1>10, <1>15, RegisteredIs
  <2> QED BY <1>15, <2>1, <1>5
<1>16. CASE i - 50 \in 1 .. 6
  <2>1. Registered[50 + (i - 50)] = AlertRoutes[i - 50] /\ 50 + (i - 50) = i
    BY <1>10, <1>16, RegisteredIs
  <2> QED BY <1>16, <2>1, <1>6
<1>17. CASE i - 56 \in 1 .. 5
  <2>1. Registered[56 + (i - 56)] = BrowserRoutes[i - 56] /\ 56 + (i - 56) = i
    BY <1>10, <1>17, RegisteredIs
  <2> QED BY <1>17, <2>1, <1>7
<1>18. CASE i - 61 \in 1 .. 7
  <2>1. Registered[61 + (i - 61)] = PairingRoutes[i - 61] /\ 61 + (i - 61) = i
    BY <1>10, <1>18, RegisteredIs
  <2> QED BY <1>18, <2>1, <1>8
<1> QED BY <1>9, <1>11, <1>12, <1>13, <1>14, <1>15, <1>16, <1>17, <1>18

\* Whatever fits the i-th registration is a path of its row.
LEMMA RowOf ==
  ASSUME NEW i \in DOMAIN Registered PROVE Suits(Registered[i][1], Registered[i][2])
<1>1. \/ i = 1 \/ i - 1 \in 1 .. 13 \/ i - 14 \in 1 .. 13 \/ i - 27 \in 1 .. 17
      \/ i - 44 \in 1 .. 6 \/ i - 50 \in 1 .. 6 \/ i - 56 \in 1 .. 5 \/ i - 61 \in 1 .. 7
  BY RegisteredIs
<1>2. i \in Nat
  BY RegisteredIs
<1>3. CASE i = 1
  BY <1>3, RegisteredIs, SuitRealtime
<1>4. CASE i - 1 \in 1 .. 13
  <2>1. Registered[1 + (i - 1)] = System[i - 1] /\ 1 + (i - 1) = i
    BY <1>2, <1>4, RegisteredIs
  <2> QED BY <1>4, <2>1, SuitSystem
<1>5. CASE i - 14 \in 1 .. 13
  <2>1. Registered[14 + (i - 14)] = ProjectRoutes[i - 14] /\ 14 + (i - 14) = i
    BY <1>2, <1>5, RegisteredIs
  <2> QED BY <1>5, <2>1, SuitProjectRoutes
<1>6. CASE i - 27 \in 1 .. 17
  <2>1. Registered[27 + (i - 27)] = ProcessRoutes[i - 27] /\ 27 + (i - 27) = i
    BY <1>2, <1>6, RegisteredIs
  <2> QED BY <1>6, <2>1, SuitProcessRoutes
<1>7. CASE i - 44 \in 1 .. 6
  <2>1. Registered[44 + (i - 44)] = ConnectionsRoutes[i - 44] /\ 44 + (i - 44) = i
    BY <1>2, <1>7, RegisteredIs
  <2> QED BY <1>7, <2>1, SuitConnectionsRoutes
<1>8. CASE i - 50 \in 1 .. 6
  <2>1. Registered[50 + (i - 50)] = AlertRoutes[i - 50] /\ 50 + (i - 50) = i
    BY <1>2, <1>8, RegisteredIs
  <2> QED BY <1>8, <2>1, SuitAlertRoutes
<1>9. CASE i - 56 \in 1 .. 5
  <2>1. Registered[56 + (i - 56)] = BrowserRoutes[i - 56] /\ 56 + (i - 56) = i
    BY <1>2, <1>9, RegisteredIs
  <2> QED BY <1>9, <2>1, SuitBrowserRoutes
<1>10. CASE i - 61 \in 1 .. 7
  <2>1. Registered[61 + (i - 61)] = PairingRoutes[i - 61] /\ 61 + (i - 61) = i
    BY <1>2, <1>10, RegisteredIs
  <2> QED BY <1>10, <2>1, SuitPairingRoutes
<1> QED BY <1>1, <1>3, <1>4, <1>5, <1>6, <1>7, <1>8, <1>9, <1>10

\* The routes that two registrations of one method may both be fit for: the actions, and
\* those registered before them.
LEMMA OneRow ==
  ASSUME NEW m, NEW r, NEW s, NEW q, Row(m, r, q), Row(m, s, q)
  PROVE  \/ r = s
         \/ r \in {"projectProcesses", "projectShortcut"} /\ s = "projectAction"
         \/ r \in {"processFreePort", "processShortcut"} /\ s = "processAction"
         \/ r = "projectAction" /\ q[3] \in {"processes", "shortcut"}
         \/ r = "processAction" /\ q[3] \in {"free-port", "shortcut"}
<1>1. CASE Len(q) = 1
  BY <1>1 DEF Row, OneRows
<1>2. CASE Len(q) = 2
  BY <1>2 DEF Row, TwoRows, ProjectRows, OtherRows, UpdateRows
<1>3. CASE Len(q) = 3
  BY <1>3 DEF Row, ThreeRows, ItemRows, PartRows, ActionRows
<1>4. CASE Len(q) = 4 \/ Len(q) = 5
  BY <1>4 DEF Row, EntryRows
<1> QED BY <1>1, <1>2, <1>3, <1>4 DEF Row

\* No route has the name of a refusal.
LEMMA RowsAreRoutes ==
  ASSUME NEW m, NEW r, NEW q, Row(m, r, q)
  PROVE  r \notin {"nothing yet", "forbidden", "unauthorized", "not found"}
BY DEF Row, OneRows, TwoRows, ProjectRows, OtherRows, UpdateRows, ThreeRows, ItemRows, PartRows, ActionRows,
       EntryRows

\* A path of an open route is no other's.
LEMMA OpenIsOpen ==
  ASSUME NEW m, NEW r, NEW o \in OPEN_ROUTES, Row(m, r, Fixed[o]) PROVE r = o
<1>1. /\ Fixed["health"] = <<"health">> /\ Fixed["pairingStatus"] = <<"pairing", "status">>
      /\ Fixed["pairingRequest"] = <<"pairing", "request">>
      /\ Fixed["pairingVerify"] = <<"pairing", "verify">>
  BY DEF Fixed
<1>2. CASE o = "health"
  BY <1>1, <1>2 DEF Row, OneRows
<1>3. CASE o \in {"pairingStatus", "pairingRequest", "pairingVerify"}
  BY <1>1, <1>3 DEF Row, TwoRows, ProjectRows, OtherRows, UpdateRows
<1> QED BY <1>2, <1>3 DEF OPEN_ROUTES

\* The number of each registration.
LEMMA NumberRealtime == Registered[1] = <<"GET", "stream">>
BY RegisteredIs DEF Realtime

\* The numbers of the system routes.
LEMMA NumberSystem ==
  /\ Registered[2] = <<"GET", "health">> /\ Registered[3] = <<"GET", "updates">>
  /\ Registered[4] = <<"POST", "updatesApply">> /\ Registered[5] = <<"POST", "shutdown">>
  /\ Registered[6] = <<"GET", "settings">> /\ Registered[7] = <<"PUT", "settings">>
  /\ Registered[8] = <<"POST", "portableWindow">> /\ Registered[9] = <<"GET", "errors">>
  /\ Registered[10] = <<"POST", "errorsClear">> /\ Registered[11] = <<"POST", "errorsDismiss">>
  /\ Registered[12] = <<"GET", "safeMode">> /\ Registered[13] = <<"POST", "safeModeExit">>
  /\ Registered[14] = <<"POST", "openInEditor">>
<1>1. \A i \in 2 .. 14 : Registered[i] = System[i - 1]
  <2> TAKE i \in 2 .. 14
  <2>1. i - 1 \in 1 .. 13 /\ 1 + (i - 1) = i
    OBVIOUS
  <2> QED BY <2>1, RegisteredIs
<1> QED BY <1>1 DEF System

\* The numbers of the project routes.
LEMMA NumberProjectRoutes ==
  /\ Registered[15] = <<"GET", "projects">> /\ Registered[16] = <<"POST", "projectsBrowse">>
  /\ Registered[17] = <<"POST", "projectsLoad">>
  /\ Registered[18] = <<"POST", "projectsScaffold">>
  /\ Registered[19] = <<"POST", "projectsTakeOver">>
  /\ Registered[20] = <<"POST", "projectsRestoreAutostart">>
  /\ Registered[21] = <<"POST", "projectsClone">>
  /\ Registered[22] = <<"POST", "projectsBrowseFolder">>
  /\ Registered[23] = <<"GET", "projectsSuggestDest">>
  /\ Registered[24] = <<"POST", "projectsScan">> /\ Registered[25] = <<"GET", "projectsIgnored">>
  /\ Registered[26] = <<"POST", "projectsIgnore">>
  /\ Registered[27] = <<"POST", "projectsUnignore">>
<1>1. \A i \in 15 .. 27 : Registered[i] = ProjectRoutes[i - 14]
  <2> TAKE i \in 15 .. 27
  <2>1. i - 14 \in 1 .. 13 /\ 14 + (i - 14) = i
    OBVIOUS
  <2> QED BY <2>1, RegisteredIs
<1> QED BY <1>1 DEF ProjectRoutes

\* The numbers of the process routes.
LEMMA NumberProcessRoutes ==
  /\ Registered[28] = <<"PUT", "projectUpdate">>
  /\ Registered[29] = <<"POST", "projectProcesses">>
  /\ Registered[30] = <<"PUT", "projectProcess">>
  /\ Registered[31] = <<"DELETE", "projectProcess">>
  /\ Registered[32] = <<"POST", "projectProcessStar">>
  /\ Registered[33] = <<"POST", "projectShortcut">>
  /\ Registered[34] = <<"POST", "projectAction">> /\ Registered[35] = <<"GET", "processes">>
  /\ Registered[36] = <<"GET", "processLogs">> /\ Registered[37] = <<"GET", "processLogFile">>
  /\ Registered[38] = <<"POST", "startAll">> /\ Registered[39] = <<"POST", "stopAll">>
  /\ Registered[40] = <<"POST", "processFreePort">>
  /\ Registered[41] = <<"GET", "runtimeServices">>
  /\ Registered[42] = <<"GET", "processDiagnose">>
  /\ Registered[43] = <<"POST", "processShortcut">>
  /\ Registered[44] = <<"POST", "processAction">>
<1>1. \A i \in 28 .. 44 : Registered[i] = ProcessRoutes[i - 27]
  <2> TAKE i \in 28 .. 44
  <2>1. i - 27 \in 1 .. 17 /\ 27 + (i - 27) = i
    OBVIOUS
  <2> QED BY <2>1, RegisteredIs
<1> QED BY <1>1 DEF ProcessRoutes

\* The numbers of the connections routes.
LEMMA NumberConnectionsRoutes ==
  /\ Registered[45] = <<"GET", "authMe">> /\ Registered[46] = <<"POST", "authLogout">>
  /\ Registered[47] = <<"GET", "settingsSync">> /\ Registered[48] = <<"PUT", "settingsSync">>
  /\ Registered[49] = <<"POST", "settingsSyncPull">>
  /\ Registered[50] = <<"POST", "settingsSyncPush">>
<1>1. \A i \in 45 .. 50 : Registered[i] = ConnectionsRoutes[i - 44]
  <2> TAKE i \in 45 .. 50
  <2>1. i - 44 \in 1 .. 6 /\ 44 + (i - 44) = i
    OBVIOUS
  <2> QED BY <2>1, RegisteredIs
<1> QED BY <1>1 DEF ConnectionsRoutes

\* The numbers of the alert routes.
LEMMA NumberAlertRoutes ==
  /\ Registered[51] = <<"GET", "alertRules">> /\ Registered[52] = <<"POST", "alertRules">>
  /\ Registered[53] = <<"PUT", "alertRule">> /\ Registered[54] = <<"DELETE", "alertRule">>
  /\ Registered[55] = <<"GET", "alertEvents">> /\ Registered[56] = <<"POST", "alertEventsClear">>
<1>1. \A i \in 51 .. 56 : Registered[i] = AlertRoutes[i - 50]
  <2> TAKE i \in 51 .. 56
  <2>1. i - 50 \in 1 .. 6 /\ 50 + (i - 50) = i
    OBVIOUS
  <2> QED BY <2>1, RegisteredIs
<1> QED BY <1>1 DEF AlertRoutes

\* The numbers of the browser routes.
LEMMA NumberBrowserRoutes ==
  /\ Registered[57] = <<"GET", "browserClient">> /\ Registered[58] = <<"GET", "browserConnect">>
  /\ Registered[59] = <<"POST", "browserReply">> /\ Registered[60] = <<"GET", "browserTabs">>
  /\ Registered[61] = <<"POST", "browserQuery">>
<1>1. \A i \in 57 .. 61 : Registered[i] = BrowserRoutes[i - 56]
  <2> TAKE i \in 57 .. 61
  <2>1. i - 56 \in 1 .. 5 /\ 56 + (i - 56) = i
    OBVIOUS
  <2> QED BY <2>1, RegisteredIs
<1> QED BY <1>1 DEF BrowserRoutes

\* The numbers of the pairing routes.
LEMMA NumberPairingRoutes ==
  /\ Registered[62] = <<"GET", "pairingStatus">> /\ Registered[63] = <<"POST", "pairingRequest">>
  /\ Registered[64] = <<"POST", "pairingVerify">> /\ Registered[65] = <<"GET", "pairingCodes">>
  /\ Registered[66] = <<"GET", "pairingClients">>
  /\ Registered[67] = <<"POST", "pairingStreamTicket">>
  /\ Registered[68] = <<"DELETE", "pairingClient">>
<1>1. \A i \in 62 .. 68 : Registered[i] = PairingRoutes[i - 61]
  <2> TAKE i \in 62 .. 68
  <2>1. i - 61 \in 1 .. 7 /\ 61 + (i - 61) = i
    OBVIOUS
  <2> QED BY <2>1, RegisteredIs
<1> QED BY <1>1 DEF PairingRoutes

\* There is a registration of method m and route r.
Registers(m, r) == \E i \in DOMAIN Registered : Registered[i] = <<m, r>>

\* The registrations by their method and route.
LEMMA HasRealtime == Registers("GET", "stream")
BY NumberRealtime, RegisteredIs DEF Registers

\* The system routes are registered.
LEMMA HasSystem ==
  /\ Registers("GET", "health") /\ Registers("GET", "updates")
  /\ Registers("POST", "updatesApply") /\ Registers("POST", "shutdown")
  /\ Registers("GET", "settings") /\ Registers("PUT", "settings")
  /\ Registers("POST", "portableWindow") /\ Registers("GET", "errors")
  /\ Registers("POST", "errorsClear") /\ Registers("POST", "errorsDismiss")
  /\ Registers("GET", "safeMode") /\ Registers("POST", "safeModeExit")
  /\ Registers("POST", "openInEditor")
BY NumberSystem, RegisteredIs DEF Registers

\* The project routes are registered.
LEMMA HasProjectRoutes ==
  /\ Registers("GET", "projects") /\ Registers("POST", "projectsBrowse")
  /\ Registers("POST", "projectsLoad") /\ Registers("POST", "projectsScaffold")
  /\ Registers("POST", "projectsTakeOver") /\ Registers("POST", "projectsRestoreAutostart")
  /\ Registers("POST", "projectsClone") /\ Registers("POST", "projectsBrowseFolder")
  /\ Registers("GET", "projectsSuggestDest") /\ Registers("POST", "projectsScan")
  /\ Registers("GET", "projectsIgnored") /\ Registers("POST", "projectsIgnore")
  /\ Registers("POST", "projectsUnignore")
BY NumberProjectRoutes, RegisteredIs DEF Registers

\* The process routes are registered.
LEMMA HasProcessRoutes ==
  /\ Registers("PUT", "projectUpdate") /\ Registers("POST", "projectProcesses")
  /\ Registers("PUT", "projectProcess") /\ Registers("DELETE", "projectProcess")
  /\ Registers("POST", "projectProcessStar") /\ Registers("POST", "projectShortcut")
  /\ Registers("POST", "projectAction") /\ Registers("GET", "processes")
  /\ Registers("GET", "processLogs") /\ Registers("GET", "processLogFile")
  /\ Registers("POST", "startAll") /\ Registers("POST", "stopAll")
  /\ Registers("POST", "processFreePort") /\ Registers("GET", "runtimeServices")
  /\ Registers("GET", "processDiagnose") /\ Registers("POST", "processShortcut")
  /\ Registers("POST", "processAction")
BY NumberProcessRoutes, RegisteredIs DEF Registers

\* The connections routes are registered.
LEMMA HasConnectionsRoutes ==
  /\ Registers("GET", "authMe") /\ Registers("POST", "authLogout")
  /\ Registers("GET", "settingsSync") /\ Registers("PUT", "settingsSync")
  /\ Registers("POST", "settingsSyncPull") /\ Registers("POST", "settingsSyncPush")
BY NumberConnectionsRoutes, RegisteredIs DEF Registers

\* The alert routes are registered.
LEMMA HasAlertRoutes ==
  /\ Registers("GET", "alertRules") /\ Registers("POST", "alertRules")
  /\ Registers("PUT", "alertRule") /\ Registers("DELETE", "alertRule")
  /\ Registers("GET", "alertEvents") /\ Registers("POST", "alertEventsClear")
BY NumberAlertRoutes, RegisteredIs DEF Registers

\* The browser routes are registered.
LEMMA HasBrowserRoutes ==
  /\ Registers("GET", "browserClient") /\ Registers("GET", "browserConnect")
  /\ Registers("POST", "browserReply") /\ Registers("GET", "browserTabs")
  /\ Registers("POST", "browserQuery")
BY NumberBrowserRoutes, RegisteredIs DEF Registers

\* The pairing routes are registered.
LEMMA HasPairingRoutes ==
  /\ Registers("GET", "pairingStatus") /\ Registers("POST", "pairingRequest")
  /\ Registers("POST", "pairingVerify") /\ Registers("GET", "pairingCodes")
  /\ Registers("GET", "pairingClients") /\ Registers("POST", "pairingStreamTicket")
  /\ Registers("DELETE", "pairingClient")
BY NumberPairingRoutes, RegisteredIs DEF Registers

\* A call asks for a registration, and an action for one that its handler knows.
IsCall(c) ==
  /\ Registers(c[1], c[2])
  /\ c[2] = "projectAction" => \E as \in SUBSET PROJECT_ACTIONS : c[3] = <<ProjectIds, as>>
  /\ c[2] = "processAction" => \E as \in SUBSET PROCESS_ACTIONS : c[3] = <<ProcessIds, as>>

\* Each call of an MCP tool is registered (mcp.ts).
LEMMA ToolsAreCalls == \A c \in Tools : IsCall(c)
<1>1. \A c \in BrowserTools : IsCall(c)
  BY HasBrowserRoutes DEF BrowserTools, Get, Post, IsCall
<1>2. \A c \in ProjectTools : IsCall(c)
  BY HasProjectRoutes, HasProcessRoutes DEF ProjectTools, Get, Post, OnProject, PROJECT_ACTIONS, IsCall
<1>3. \A c \in EntryTools : IsCall(c)
  BY HasProcessRoutes DEF EntryTools, Entry, StarCall, IsCall
<1>4. \A c \in ProcessTools : IsCall(c)
  BY HasProcessRoutes DEF ProcessTools, Post, OnProcess, PROCESS_ACTIONS, IsCall
<1>5. \A c \in ErrorTools : IsCall(c)
  BY HasSystem DEF ErrorTools, Get, Post, IsCall
<1>6. \A c \in AlertTools : IsCall(c)
  BY HasAlertRoutes DEF AlertTools, Get, Post, Rule, IsCall
<1>7. \A c \in ToggleTools : IsCall(c)
  BY HasProjectRoutes, HasProcessRoutes DEF ToggleTools, Post, OnProcess, OnProject, PROCESS_ACTIONS, PROJECT_ACTIONS, IsCall
<1> QED BY <1>1, <1>2, <1>3, <1>4, <1>5, <1>6, <1>7 DEF Tools

\* Each call of the GUI is registered (web/src/api.ts).
LEMMA GuiAreCalls == \A c \in Gui : IsCall(c)
<1>1. \A c \in GuiReads : IsCall(c)
  BY HasSystem, HasProjectRoutes, HasProcessRoutes, HasConnectionsRoutes, HasAlertRoutes, HasPairingRoutes DEF GuiReads, Get, IsCall
<1>2. \A c \in GuiActions : IsCall(c)
  BY HasSystem, HasProcessRoutes DEF GuiActions, Post, OnProcess, OnProject, PROCESS_ACTIONS, PROJECT_ACTIONS, IsCall
<1>3. \A c \in GuiPairing : IsCall(c)
  BY HasPairingRoutes DEF GuiPairing, Post, IsCall
<1>4. \A c \in GuiAlerts : IsCall(c)
  BY HasAlertRoutes DEF GuiAlerts, Post, Rule, IsCall
<1>5. \A c \in GuiSettings : IsCall(c)
  BY HasSystem, HasProcessRoutes DEF GuiSettings, Post, IsCall
<1>6. \A c \in GuiProjects : IsCall(c)
  BY HasProjectRoutes, HasProcessRoutes DEF GuiProjects, Post, OnProject, Entry, StarCall, PROJECT_ACTIONS, IsCall
<1>7. \A c \in GuiSync : IsCall(c)
  BY HasConnectionsRoutes DEF GuiSync, Post, IsCall
<1> QED BY <1>1, <1>2, <1>3, <1>4, <1>5, <1>6, <1>7 DEF Gui

\* Each call of the command line is registered (cli.ts).
LEMMA CliAreCalls == \A c \in Cli : IsCall(c)
<1>1. \A c \in CliPairing : IsCall(c)
  BY HasPairingRoutes DEF CliPairing, Get, IsCall
<1>2. \A c \in CliAlerts : IsCall(c)
  BY HasAlertRoutes DEF CliAlerts, Get, Post, Rule, IsCall
<1>3. \A c \in CliVerbs : IsCall(c)
  BY HasSystem, HasProjectRoutes, HasProcessRoutes DEF CliVerbs, Get, Post, OnProcess, OnProject, PROCESS_ACTIONS, PROJECT_ACTIONS, IsCall
<1> QED BY <1>1, <1>2, <1>3 DEF Cli

\* What a call asks for fits the row of its method and route.
LEMMA CallsFit ==
  ASSUME NEW c, IsCall(c), NEW vs
  PROVE  \E i \in DOMAIN Registered :
           /\ Registered[i] = <<c[1], c[2]>>
           /\ MatchesPath(build(PatternOf(c[2]), vs), PatternOf(c[2]))
           /\ Row(c[1], c[2], build(PatternOf(c[2]), vs))
<1>1. PICK i \in DOMAIN Registered : Registered[i] = <<c[1], c[2]>>
  BY DEF IsCall, Registers
<1>2. Registered[i][1] = c[1] /\ Registered[i][2] = c[2]
  BY <1>1
<1>3. IsPattern(PatternOf(c[2]))
  BY <1>2, RegistrationsAreRoutes, RoutesArePatterns
<1>4. MatchesPath(build(PatternOf(c[2]), vs), PatternOf(c[2]))
  BY <1>3, BuiltFits
<1>5. Suits(c[1], c[2])
  BY <1>2, RowOf
<1> QED BY <1>1, <1>4, <1>5 DEF Suits

\* The values of a pair of stars.
LEMMA ValuesOfTwo ==
  ASSUME NEW S, NEW T, NEW vs \in Values(<<S, T>>) PROVE vs[1] \in S /\ vs[2] \in T
BY DEF Values

\* A request begins before the guards.
LEMMA RoutesTypesInit == RoutesInit => RoutesTypeOK
BY DEF RoutesInit, RoutesTypeOK

\* It ends at a registration or at one of the refusals.
LEMMA RoutesTypesInductive == RoutesTypeOK /\ [RoutesNext]_routeVars => RoutesTypeOK'
<1> SUFFICES ASSUME RoutesTypeOK, [RoutesNext]_routeVars PROVE RoutesTypeOK'
  OBVIOUS
<1>1. CASE UNCHANGED routeVars
  BY <1>1 DEF routeVars, RoutesTypeOK
<1>2. CASE loopbackGuard \/ localAuth
  BY <1>2 DEF loopbackGuard, localAuth, RoutesTypeOK
<1>3. CASE Routed
  BY <1>3 DEF Routed, RoutesTypeOK
<1> QED BY <1>1, <1>2, <1>3 DEF RoutesNext

\* The places of the registrations that share paths.
LEMMA PlacesOfActions ==
  ASSUME NEW i \in DOMAIN Registered
  PROVE  /\ Registered[i][2] = "projectProcesses" => i = 29
         /\ Registered[i][2] = "projectShortcut" => i = 33
         /\ Registered[i][2] = "projectAction" => i = 34
         /\ Registered[i][2] = "processFreePort" => i = 40
         /\ Registered[i][2] = "processShortcut" => i = 43
         /\ Registered[i][2] = "processAction" => i = 44
<1>1. i \in 1 .. 14 \/ i \in 15 .. 27 \/ i \in 28 .. 44 \/ i \in 45 .. 56 \/ i \in 57 .. 68
  BY RegisteredIs
<1>2. CASE i \in 1 .. 14
  BY <1>2, NumberRealtime, NumberSystem
<1>3. CASE i \in 15 .. 27
  BY <1>3, NumberProjectRoutes
<1>4. CASE i \in 28 .. 44
  BY <1>4, NumberProcessRoutes
<1>5. CASE i \in 45 .. 56
  BY <1>5, NumberConnectionsRoutes, NumberAlertRoutes
<1>6. CASE i \in 57 .. 68
  BY <1>6, NumberBrowserRoutes, NumberPairingRoutes
<1> QED BY <1>1, <1>2, <1>3, <1>4, <1>5, <1>6

\* The request is one of the calls, with values for its stars.
Brings(c, vs) ==
  /\ IsCall(c) /\ vs \in Values(c[3])
  /\ request = <<c[1], build(PatternOf(c[2]), vs)>> /\ meant = <<c[1], c[2], vs>>
Asked == \E c, vs : Brings(c, vs)

\* A request fits the registration it was meant for.
LEMMA AskedFits ==
  ASSUME Asked
  PROVE  /\ request[1] = meant[1] /\ Row(request[1], meant[2], request[2])
         /\ \E i \in DOMAIN Registered : Fits(i) /\ Registered[i][2] = meant[2]
<1>1. PICK c, vs : Brings(c, vs)
  BY DEF Asked
<1>2. /\ request[1] = c[1] /\ request[2] = build(PatternOf(c[2]), vs) /\ meant[1] = c[1]
      /\ meant[2] = c[2] /\ IsCall(c)
  BY <1>1 DEF Brings
<1>3. PICK i \in DOMAIN Registered :
        /\ Registered[i] = <<c[1], c[2]>>
        /\ MatchesPath(build(PatternOf(c[2]), vs), PatternOf(c[2]))
        /\ Row(c[1], c[2], build(PatternOf(c[2]), vs))
  BY <1>2, CallsFit
<1>4. Registered[i][1] = c[1] /\ Registered[i][2] = c[2]
  BY <1>3
<1>5. Fits(i)
  BY <1>2, <1>3, <1>4 DEF Fits
<1> QED BY <1>2, <1>3, <1>4, <1>5

\* An action is one that its handler knows, and the third word of the path.
LEMMA AskedActs ==
  ASSUME Asked
  PROVE  /\ meant[2] = "projectAction" =>
              meant[3][2] \in PROJECT_ACTIONS /\ request[2][3] = meant[3][2]
         /\ meant[2] = "processAction" =>
              meant[3][2] \in PROCESS_ACTIONS /\ request[2][3] = meant[3][2]
<1>1. PICK c, vs : Brings(c, vs)
  BY DEF Asked
<1>2. /\ request[2] = build(PatternOf(c[2]), vs) /\ meant[2] = c[2] /\ meant[3] = vs
      /\ IsCall(c) /\ vs \in Values(c[3])
  BY <1>1 DEF Brings
<1>3. ASSUME c[2] = "projectAction"
      PROVE  vs[2] \in PROJECT_ACTIONS /\ request[2][3] = vs[2]
  <2>1. PICK as \in SUBSET PROJECT_ACTIONS : c[3] = <<ProjectIds, as>>
    BY <1>2, <1>3 DEF IsCall
  <2>2. vs[2] \in as
    BY <1>2, <2>1, ValuesOfTwo
  <2>3. PatternOf(c[2]) = <<"projects", "*", "*">>
    BY <1>3, PatternsWithStars
  <2>4. build(<<"projects", "*", "*">>, vs)[3] = vs[2]
    BY ThirdIsSecond
  <2>5. request[2][3] = vs[2]
    BY <1>2, <2>3, <2>4, Zenon
  <2> QED BY <2>1, <2>2, <2>5
<1>4. ASSUME c[2] = "processAction"
      PROVE  vs[2] \in PROCESS_ACTIONS /\ request[2][3] = vs[2]
  <2>1. PICK as \in SUBSET PROCESS_ACTIONS : c[3] = <<ProcessIds, as>>
    BY <1>2, <1>4 DEF IsCall
  <2>2. vs[2] \in as
    BY <1>2, <2>1, ValuesOfTwo
  <2>3. PatternOf(c[2]) = <<"processes", "*", "*">>
    BY <1>4, PatternsWithStars
  <2>4. build(<<"processes", "*", "*">>, vs)[3] = vs[2]
    BY ThirdIsSecond
  <2>5. request[2][3] = vs[2]
    BY <1>2, <2>3, <2>4, Zenon
  <2> QED BY <2>1, <2>2, <2>5
<1> QED BY <1>2, <1>3, <1>4

\* The gate lets exactly the calls of the open routes pass without a credential.
LEMMA AskedOpen ==
  ASSUME Asked
  PROVE  request[2] \in {Fixed[r] : r \in OPEN_ROUTES} <=> meant[2] \in OPEN_ROUTES
<1>1. ASSUME request[2] \in {Fixed[r] : r \in OPEN_ROUTES} PROVE meant[2] \in OPEN_ROUTES
  <2>1. PICK r \in OPEN_ROUTES : request[2] = Fixed[r]
    BY <1>1
  <2> QED BY <2>1, AskedFits, OpenIsOpen
<1>2. ASSUME meant[2] \in OPEN_ROUTES PROVE request[2] = Fixed[meant[2]]
  <2>1. PICK c, vs : Brings(c, vs)
    BY DEF Asked
  <2>2. request[2] = build(PatternOf(meant[2]), vs)
    BY <2>1 DEF Brings
  <2>3. /\ PatternOf("health") = <<"health">> /\ PatternOf("pairingStatus") = <<"pairing", "status">>
        /\ PatternOf("pairingRequest") = <<"pairing", "request">>
        /\ PatternOf("pairingVerify") = <<"pairing", "verify">>
    BY PatternsOfOne, PatternsOfTwo
  <2>4. build(PatternOf(meant[2]), vs) = PatternOf(meant[2])
    BY <1>2, <2>3, NoStar1, NoStar2 DEF OPEN_ROUTES
  <2>5. OPEN_ROUTES \subseteq DOMAIN Fixed
    BY DEF OPEN_ROUTES, Fixed
  <2> QED BY <1>2, <2>2, <2>4, <2>5 DEF PatternOf
<1> QED BY <1>1, <1>2

\* The first registration that fits is the one that was meant.
LEMMA TheFirstIsMeant ==
  ASSUME Asked, NEW i \in DOMAIN Registered, Fits(i),
         \A j \in DOMAIN Registered : Fits(j) => i <= j
  PROVE  Registered[i][2] = meant[2]
<1>1. PICK k \in DOMAIN Registered : Fits(k) /\ Registered[k][2] = meant[2]
  BY AskedFits
<1>2. Row(request[1], Registered[i][2], request[2]) /\ Row(request[1], meant[2], request[2])
  BY RowOf, AskedFits DEF Fits, Suits
<1>3. i <= k
  BY <1>1
<1>4. meant[2] = "projectAction" => request[2][3] \notin {"processes", "shortcut"}
  BY AskedActs DEF PROJECT_ACTIONS
<1>5. meant[2] = "processAction" => request[2][3] \notin {"free-port", "shortcut"}
  BY AskedActs DEF PROCESS_ACTIONS
<1>6. \/ meant[2] = Registered[i][2]
      \/ /\ meant[2] \in {"projectProcesses", "projectShortcut"}
         /\ Registered[i][2] = "projectAction"
      \/ /\ meant[2] \in {"processFreePort", "processShortcut"}
         /\ Registered[i][2] = "processAction"
  BY <1>2, <1>4, <1>5, OneRow
<1> QED BY <1>1, <1>3, <1>6, PlacesOfActions

\* The inductive invariant: whose call it is, and that whoever passed a gate had to.
RoutesInv ==
  /\ RoutesTypeOK /\ Asked
  /\ hop \in {"auth", "routes"} => from # "page"
  /\ hop = "routes" => ~required \/ knows \/ meant[2] \in OPEN_ROUTES
  /\ CallsReachTheirHandlers

\* A request begins as a call, before any gate.
LEMMA RoutesInvInit == RoutesInit => RoutesInv
<1> SUFFICES ASSUME RoutesInit PROVE RoutesInv
  OBVIOUS
<1>1. Asked
  <2>1. PICK call \in CallsOf[from] : \E vs \in Values(call[3]) :
          /\ request = <<call[1], build(PatternOf(call[2]), vs)>>
          /\ meant = <<call[1], call[2], vs>>
    BY DEF RoutesInit
  <2>2. CallsOf[from] \in {Gui, Tools, Cli}
    <3>1. from \in {"gui", "mcp", "cli", "page"}
      BY DEF RoutesInit
    <3> QED BY <3>1 DEF CallsOf
  <2>3. IsCall(call)
    BY <2>1, <2>2, GuiAreCalls, ToolsAreCalls, CliAreCalls
  <2> QED BY <2>1, <2>3 DEF Asked, Brings
<1>2. hop = "guard"
  BY DEF RoutesInit
<1> QED BY <1>1, <1>2, RoutesTypesInit DEF RoutesInv, CallsReachTheirHandlers

\* The gates and the routing keep it: the handler that runs is the one that was meant.
LEMMA RoutesInvInductive == ASSUME RoutesInv, [RoutesNext]_routeVars PROVE RoutesInv'
<1>1. RoutesTypeOK'
  BY RoutesTypesInductive DEF RoutesInv
<1>2. /\ meant[2] = "projectAction" => meant[3][2] \in PROJECT_ACTIONS
      /\ meant[2] = "processAction" => meant[3][2] \in PROCESS_ACTIONS
  BY AskedActs DEF RoutesInv
<1>3. meant[2] \notin {"forbidden", "unauthorized", "not found"}
  BY AskedFits, RowsAreRoutes DEF RoutesInv
<1>4. UNCHANGED <<from, request, meant, required, knows>>
  BY DEF RoutesNext, routeVars, loopbackGuard, localAuth, Routed
<1>5. Asked'
  BY <1>4 DEF RoutesInv, Asked, Brings
<1>6. CASE loopbackGuard
  BY <1>1, <1>2, <1>3, <1>5, <1>6 DEF loopbackGuard, RoutesInv, CallsReachTheirHandlers
<1>7. CASE localAuth
  <2>1. request[2] \in {Fixed[r] : r \in OPEN_ROUTES} <=> meant[2] \in OPEN_ROUTES
    BY AskedOpen DEF RoutesInv
  <2> QED BY <1>1, <1>2, <1>3, <1>5, <1>7, <2>1
      DEF localAuth, RoutesInv, CallsReachTheirHandlers
<1>8. CASE Routed
  <2>1. reached' = meant[2]
    <3>1. {i \in DOMAIN Registered : Fits(i)} # {}
      BY AskedFits DEF RoutesInv
    <3>2. PICK i \in DOMAIN Registered :
            /\ Fits(i) /\ \A j \in DOMAIN Registered : Fits(j) => i <= j
            /\ reached' = Registered[i][2]
      BY <1>8, <3>1 DEF Routed
    <3> QED BY <3>2, TheFirstIsMeant DEF RoutesInv
  <2>2. hop = "routes" /\ hop' = "over"
    BY <1>8 DEF Routed
  <2> QED BY <1>1, <1>2, <1>4, <1>5, <2>1, <2>2 DEF RoutesInv, CallsReachTheirHandlers
<1>9. CASE UNCHANGED routeVars
  BY <1>9, <1>1, <1>5 DEF routeVars, RoutesInv, CallsReachTheirHandlers
<1> QED BY <1>6, <1>7, <1>8, <1>9 DEF RoutesNext
================================================================================
