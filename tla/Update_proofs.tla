----------------------------- MODULE Update_proofs -----------------------------
(***************************************************************************)
(* Theorems about the three parts of the daemon's self-update, for every   *)
(* number of passes, releases, commits, files and steps, and every set of  *)
(* faults: the timer (AutoUpdate), the swap of a compiled executable       *)
(* (ReleaseUpdate) and the update of a source checkout (SourceUpdate).     *)
(* First each part by itself, then the composition of module MCUpdate.     *)
(***************************************************************************)
EXTENDS MCUpdate, WellFoundedInduction, TLAPS

-----------------------------------------------------------------------------
(* The update timer.                                                        *)

Loops == [enabled : BOOLEAN, notify : BOOLEAN, started : BOOLEAN, ticking : BOOLEAN,
          timer : BOOLEAN, live : 0 .. 1]

LoopOf(e, n, s, k, h, v) ==
  [enabled |-> e, notify |-> n, started |-> s, ticking |-> k, timer |-> h, live |-> v]

\* The updates of AutoUpdate, field by field.
LEMMA LoopUpdates ==
  ASSUME NEW l \in Loops, NEW b \in BOOLEAN, NEW c \in BOOLEAN, NEW v \in 0 .. 1
  PROVE  /\ [l EXCEPT !.enabled = b] = LoopOf(b, l.notify, l.started, l.ticking, l.timer, l.live)
         /\ [l EXCEPT !.notify = b] = LoopOf(l.enabled, b, l.started, l.ticking, l.timer, l.live)
         /\ [l EXCEPT !.started = b] = LoopOf(l.enabled, l.notify, b, l.ticking, l.timer, l.live)
         /\ [l EXCEPT !.ticking = b] = LoopOf(l.enabled, l.notify, l.started, b, l.timer, l.live)
         /\ [l EXCEPT !.timer = b, !.live = v] =
              LoopOf(l.enabled, l.notify, l.started, l.ticking, b, v)
         /\ [l EXCEPT !.live = v, !.timer = b, !.ticking = c] =
              LoopOf(l.enabled, l.notify, l.started, c, b, v)
<1>1. ASSUME NEW m \in Loops, NEW d \in BOOLEAN, NEW w \in 0 .. 1
      PROVE  /\ [m EXCEPT !.enabled = d] = LoopOf(d, m.notify, m.started, m.ticking, m.timer, m.live)
             /\ [m EXCEPT !.notify = d] = LoopOf(m.enabled, d, m.started, m.ticking, m.timer, m.live)
             /\ [m EXCEPT !.started = d] = LoopOf(m.enabled, m.notify, d, m.ticking, m.timer, m.live)
             /\ [m EXCEPT !.ticking = d] = LoopOf(m.enabled, m.notify, m.started, d, m.timer, m.live)
             /\ [m EXCEPT !.timer = d] = LoopOf(m.enabled, m.notify, m.started, m.ticking, d, m.live)
             /\ [m EXCEPT !.live = w] = LoopOf(m.enabled, m.notify, m.started, m.ticking, m.timer, w)
  BY DEF Loops, LoopOf
<1> DEFINE h == [l EXCEPT !.timer = b]
           x == [l EXCEPT !.live = v]
           y == [x EXCEPT !.timer = b]
<1>2. h \in Loops /\ h = LoopOf(l.enabled, l.notify, l.started, l.ticking, b, l.live)
  BY <1>1 DEF Loops, LoopOf
<1>3. x \in Loops /\ x = LoopOf(l.enabled, l.notify, l.started, l.ticking, l.timer, v)
  BY <1>1 DEF Loops, LoopOf
<1>4. y = LoopOf(x.enabled, x.notify, x.started, x.ticking, b, x.live)
  <2>1. x \in Loops
    BY <1>3
  <2> HIDE DEF x
  <2> QED BY <1>1, <2>1, Zenon
<1>5. y \in Loops /\ y = LoopOf(l.enabled, l.notify, l.started, l.ticking, b, v)
  <2> HIDE DEF x, y
  <2> QED BY <1>3, <1>4 DEF Loops, LoopOf
<1>6. /\ [l EXCEPT !.timer = b, !.live = v] = [h EXCEPT !.live = v]
      /\ [l EXCEPT !.live = v, !.timer = b, !.ticking = c] = [y EXCEPT !.ticking = c]
  BY Zenon
<1> HIDE DEF h, x, y
<1>7. [h EXCEPT !.live = v] = LoopOf(l.enabled, l.notify, l.started, l.ticking, b, v)
  BY <1>1, <1>2 DEF LoopOf
<1>8. [y EXCEPT !.ticking = c] = LoopOf(l.enabled, l.notify, l.started, c, b, v)
  BY <1>1, <1>5 DEF LoopOf
<1> QED BY <1>1, <1>6, <1>7, <1>8

\* A loop with the handle and the number of armed timeouts set, all else alike.
Rearmed(l, m, timer, live) ==
  /\ m \in Loops /\ m.timer = timer /\ m.live = live
  /\ m.enabled = l.enabled /\ m.notify = l.notify
  /\ m.started = l.started /\ m.ticking = l.ticking

\* The handle names the one armed timeout, and none is armed in a tick or when stopped.
Handled(l) ==
  /\ l \in Loops /\ l.live = (IF l.timer THEN 1 ELSE 0)
  /\ l.timer => l.started /\ ~l.ticking

\* LoopIsArmed of any loop.
Armed(l) == Handled(l) /\ (l.timer <=> l.started /\ Wanted(l) /\ ~l.ticking)

LEMMA ArmedMeaning ==
  ASSUME loop \in Loops
  PROVE  LoopIsArmed <=> Armed(loop)
<1>1. loop.timer \in BOOLEAN /\ loop.live \in 0 .. 1
  BY DEF Loops
<1>2. (loop.timer = (loop.live = 1)) <=> (loop.timer <=> loop.live = 1)
  BY <1>1
<1> QED BY <1>1, <1>2 DEF LoopIsArmed, Armed, Handled

LEMMA ScheduleEffect ==
  ASSUME NEW l \in Loops, l.live = 0
  PROVE  Rearmed(l, Schedule(l), TRUE, 1)
<1>1. Schedule(l) = [l EXCEPT !.timer = TRUE, !.live = 1]
  BY DEF Schedule
<1>2. [l EXCEPT !.timer = TRUE, !.live = 1]
        = LoopOf(l.enabled, l.notify, l.started, l.ticking, TRUE, 1)
  BY TRUE \in BOOLEAN, FALSE \in BOOLEAN, 1 \in 0 .. 1, LoopUpdates, Zenon
<1>3. Schedule(l) = LoopOf(l.enabled, l.notify, l.started, l.ticking, TRUE, 1)
  BY <1>1, <1>2, Zenon
<1> QED BY <1>3 DEF Rearmed, Loops, LoopOf

LEMMA ClearTimerEffect ==
  ASSUME NEW l, Handled(l)
  PROVE  Rearmed(l, ClearTimer(l), FALSE, 0)
<1>1. CASE l.timer
  <2>1. l \in Loops /\ l.live - 1 = 0
    BY <1>1 DEF Handled
  <2>2. ClearTimer(l) = [l EXCEPT !.timer = FALSE, !.live = 0]
    BY <1>1, <2>1 DEF ClearTimer
  <2>3. ClearTimer(l) = LoopOf(l.enabled, l.notify, l.started, l.ticking, FALSE, 0)
    BY <2>1, <2>2, FALSE \in BOOLEAN, 0 \in 0 .. 1, LoopUpdates, Zenon
  <2> QED BY <2>1, <2>3 DEF Rearmed, Loops, LoopOf
<1>2. CASE ~l.timer
  BY <1>2 DEF ClearTimer, Rearmed, Loops, Handled
<1> QED BY <1>1, <1>2

\* Reconcile arms or clears the timer of a handled loop, whatever was just switched.
LEMMA ReconcileArms ==
  ASSUME NEW l, Handled(l)
  PROVE  Armed(Reconcile(l))
<1>0. l \in Loops
  BY DEF Handled
<1>1. CASE l.started /\ Wanted(l) /\ ~l.timer /\ ~l.ticking
  BY <1>0, <1>1, ScheduleEffect DEF Reconcile, Handled, Armed, Rearmed, Wanted
<1>2. CASE l.started /\ ~Wanted(l)
  BY <1>2, ClearTimerEffect DEF Reconcile, Handled, Armed, Rearmed, Wanted
<1>3. CASE ~l.started \/ (Wanted(l) /\ (l.timer \/ l.ticking))
  BY <1>3 DEF Reconcile, Handled, Armed
<1> QED BY <1>1, <1>2, <1>3

LEMMA RetimeArms ==
  ASSUME NEW l, Armed(l)
  PROVE  Armed(Retime(l))
<1> DEFINE c == ClearTimer(l)
<1>1. CASE l.started /\ Wanted(l) /\ ~l.ticking
  <2>1. Rearmed(l, c, FALSE, 0)
    BY ClearTimerEffect DEF Armed
  <2>2. Rearmed(c, Schedule(c), TRUE, 1)
    BY <2>1, ScheduleEffect DEF Rearmed
  <2> HIDE DEF c
  <2>3. Armed(Schedule(c))
    BY <1>1, <2>1, <2>2 DEF Armed, Handled, Rearmed, Wanted
  <2> QED BY <1>1, <2>3 DEF Retime, c
<1>2. CASE ~(l.started /\ Wanted(l) /\ ~l.ticking)
  BY <1>2 DEF Retime
<1> QED BY <1>1, <1>2

\* A switch or the start of the loop, before it is reconciled.
LEMMA SwitchedIsHandled ==
  ASSUME NEW l, Handled(l), NEW on \in BOOLEAN
  PROVE  /\ Handled([l EXCEPT !.enabled = on]) /\ Handled([l EXCEPT !.notify = on])
         /\ ~l.started => Handled([l EXCEPT !.started = TRUE])
<1>0. l \in Loops
  BY DEF Handled
<1>1. TRUE \in BOOLEAN
  OBVIOUS
<1>2. /\ [l EXCEPT !.enabled = on] = LoopOf(on, l.notify, l.started, l.ticking, l.timer, l.live)
      /\ [l EXCEPT !.notify = on] = LoopOf(l.enabled, on, l.started, l.ticking, l.timer, l.live)
      /\ [l EXCEPT !.started = TRUE] =
           LoopOf(l.enabled, l.notify, TRUE, l.ticking, l.timer, l.live)
  BY <1>0, <1>1, 0 \in 0 .. 1, LoopUpdates, Zenon
<1> QED BY <1>0, <1>2 DEF Handled, Loops, LoopOf

\* The passes: at most one, `ticking` while there is one, `applying` while it applies.
OnePass ==
  /\ \A p, q \in Passes : pass[p] # "none" /\ pass[q] # "none" => p = q
  /\ applying <=> (\E p \in Passes : pass[p] = "apply")
  /\ loop.ticking <=> (\E p \in Passes : pass[p] # "none")

PassTypes ==
  /\ applying \in BOOLEAN /\ pass \in [Passes -> {"none", "check", "apply", "over"}]
  /\ clicked \in {"none", "apply"}

AuInv == Armed(loop) /\ PassTypes /\ OnePass

LEMMA AuInvMeaning == AuInv <=> AuTypeOK /\ OneLoop
<1>1. loop \in Loops /\ PassTypes <=> AuTypeOK
  BY DEF Loops, PassTypes, AuTypeOK
<1>2. ASSUME loop \in Loops, applying \in BOOLEAN PROVE OnePass <=> PassesDoNotOverlap
  <2>1. loop.ticking \in BOOLEAN
    BY <1>2 DEF Loops
  <2>2. /\ (applying = (\E p \in Passes : pass[p] = "apply"))
               <=> (applying <=> (\E p \in Passes : pass[p] = "apply"))
        /\ (loop.ticking = (\E p \in Passes : pass[p] # "none"))
               <=> (loop.ticking <=> (\E p \in Passes : pass[p] # "none"))
    BY <1>2, <2>1, Zenon
  <2> QED BY <2>2 DEF OnePass, PassesDoNotOverlap
<1>3. AuInv => loop \in Loops /\ applying \in BOOLEAN
  BY DEF AuInv, Armed, Handled, PassTypes
<1>4. AuTypeOK => loop \in Loops /\ applying \in BOOLEAN
  BY DEF AuTypeOK, Loops
<1> QED BY <1>1, <1>2, <1>3, <1>4, ArmedMeaning DEF AuInv, OneLoop

LEMMA AuInvInductive ==
  /\ AuInit => AuInv
  /\ AuInv /\ [AuNext]_auVars => AuInv'
<1>1. AuInit => AuInv
  <2> SUFFICES ASSUME AuInit PROVE AuInv
    OBVIOUS
  <2>1. loop = [enabled |-> FALSE, notify |-> TRUE, started |-> FALSE, ticking |-> FALSE,
                timer |-> FALSE, live |-> 0]
    BY DEF AuInit
  <2>2. Armed(loop)
    BY <2>1 DEF Armed, Handled, Loops, Wanted
  <2> QED BY <2>1, <2>2 DEF AuInit, AuInv, PassTypes, OnePass
<1>2. ASSUME AuInv, [AuNext]_auVars PROVE AuInv'
  <2>0. loop \in Loops /\ Handled(loop) /\ Armed(loop) /\ PassTypes /\ OnePass
    BY <1>2 DEF AuInv, Armed, Handled
  <2>1. ASSUME Armed(loop'), loop'.ticking = loop.ticking, UNCHANGED <<applying, pass, clicked>>
        PROVE  AuInv'
    BY <2>0, <2>1 DEF AuInv, PassTypes, OnePass
  <2>2. ASSUME NEW l, Handled(l) PROVE Reconcile(l).ticking = l.ticking
    <3>1. l \in Loops
      BY <2>2 DEF Handled
    <3> QED BY <3>1 DEF Reconcile, Schedule, ClearTimer, Loops
  <2>3. ASSUME NEW enabled \in BOOLEAN, NEW notify \in BOOLEAN, PutSettings(enabled, notify)
        PROVE  AuInv'
    <3> DEFINE a == [loop EXCEPT !.enabled = enabled]
               b == Reconcile(a)
               c == Retime(b)
               d == [c EXCEPT !.notify = notify]
    <3>1. Handled(a) /\ a.ticking = loop.ticking
      BY <2>0, SwitchedIsHandled DEF Loops
    <3>2. Armed(b) /\ b.ticking = a.ticking
      BY <3>1, <2>2, ReconcileArms
    <3>3. Armed(c) /\ c.ticking = b.ticking
      BY <3>2, RetimeArms DEF Retime, Schedule, ClearTimer, Armed, Handled, Loops
    <3>4. Handled(d) /\ d.ticking = c.ticking
      BY <3>3, SwitchedIsHandled DEF Armed, Handled, Loops
    <3>5. Armed(Reconcile(d)) /\ Reconcile(d).ticking = d.ticking
      BY <3>4, <2>2, ReconcileArms
    <3>6. loop' = Reconcile(d) /\ UNCHANGED <<applying, pass, clicked>>
      BY <2>3 DEF PutSettings, SetNotify, SetEnabled
    <3> QED BY <2>1, <3>1, <3>2, <3>3, <3>4, <3>5, <3>6
  <2>4. CASE StartLoop
    <3> DEFINE a == [loop EXCEPT !.started = TRUE]
    <3>1. Handled(a) /\ a.ticking = loop.ticking
      BY <2>0, <2>4, SwitchedIsHandled DEF StartLoop, Loops
    <3> QED BY <2>1, <2>2, <2>4, <3>1, ReconcileArms DEF StartLoop
  <2>5. CASE StopLoop
    <3> DEFINE a == [loop EXCEPT !.started = FALSE]
    <3>1. a = LoopOf(loop.enabled, loop.notify, FALSE, loop.ticking, loop.timer, loop.live)
      BY <2>0, FALSE \in BOOLEAN, 0 \in 0 .. 1, LoopUpdates, Zenon
    <3>2. loop' = ClearTimer(a) /\ UNCHANGED <<applying, pass, clicked>>
      BY <2>5 DEF StopLoop
    <3>3. a \in Loops /\ a.live = (IF a.timer THEN 1 ELSE 0) /\ ~a.started /\ a.ticking = loop.ticking
      BY <2>0, <3>1 DEF Handled, Loops, LoopOf
    <3> HIDE DEF a
    <3>4. Rearmed(a, ClearTimer(a), FALSE, 0)
      <4>1. CASE a.timer
        <5>1. ClearTimer(a) = [a EXCEPT !.timer = FALSE, !.live = 0]
          BY <3>3, <4>1 DEF ClearTimer
        <5>2. ClearTimer(a) = LoopOf(a.enabled, a.notify, a.started, a.ticking, FALSE, 0)
          BY <3>3, <5>1, FALSE \in BOOLEAN, 0 \in 0 .. 1, LoopUpdates, Zenon
        <5> QED BY <3>3, <5>2 DEF Rearmed, Loops, LoopOf
      <4>2. CASE ~a.timer
        BY <3>3, <4>2 DEF ClearTimer, Rearmed, Loops
      <4> QED BY <4>1, <4>2
    <3>5. Armed(loop') /\ loop'.ticking = loop.ticking
      BY <3>2, <3>3, <3>4 DEF Armed, Handled, Rearmed, Wanted
    <3> QED BY <2>1, <3>2, <3>5
  <2>6. CASE Click \/ ClickEnds
    BY <2>0, <2>6 DEF AuInv, PassTypes, OnePass, Click, ClickEnds
  <2>7. ASSUME NEW p \in Passes, Fire(p) PROVE AuInv'
    <3>1. loop.timer /\ loop.live = 1 /\ ~loop.ticking
      BY <2>0, <2>7 DEF Fire, Handled, Loops
    <3>2. loop' = LoopOf(loop.enabled, loop.notify, loop.started, TRUE, FALSE, 0)
      <4>1. loop' = [loop EXCEPT !.live = 0, !.timer = FALSE, !.ticking = TRUE]
        BY <2>7, <3>1 DEF Fire
      <4> QED
        BY <2>0, <4>1, TRUE \in BOOLEAN, FALSE \in BOOLEAN, 0 \in 0 .. 1, LoopUpdates, Zenon
    <3>3. Armed(loop') /\ loop'.ticking
      BY <2>0, <3>2 DEF Armed, Handled, Loops, LoopOf
    <3>4. PassTypes'
      BY <2>0, <2>7 DEF Fire, PassTypes
    <3>5. \A q \in Passes : pass[q] = "none"
      BY <2>0, <3>1 DEF OnePass
    <3>6. ~applying
      BY <2>0, <3>5 DEF OnePass
    <3>7. OnePass'
      BY <2>0, <2>7, <3>3, <3>5, <3>6 DEF Fire, OnePass, PassTypes
    <3> QED BY <3>3, <3>4, <3>7 DEF AuInv
  <2>8. ASSUME NEW p \in Passes, Applied(p) PROVE AuInv'
    BY <2>0, <2>8 DEF AuInv, PassTypes, OnePass, Applied
  <2>9. ASSUME NEW p \in Passes, EndTick(p) PROVE AuInv'
    <3> DEFINE a == [loop EXCEPT !.ticking = FALSE]
    <3>1. a = LoopOf(loop.enabled, loop.notify, loop.started, FALSE, loop.timer, loop.live)
      BY <2>0, FALSE \in BOOLEAN, 0 \in 0 .. 1, LoopUpdates, Zenon
    <3>2. loop.ticking /\ ~loop.timer /\ loop.live = 0
      BY <2>0, <2>9 DEF EndTick, OnePass, Handled
    <3>3. a \in Loops /\ ~a.timer /\ a.live = 0 /\ ~a.ticking
      BY <2>0, <3>1, <3>2 DEF Loops, LoopOf
    <3>4. loop' = IF a.started /\ Wanted(a) /\ ~a.timer THEN Schedule(a) ELSE a
      BY <2>9 DEF EndTick
    <3>5. Rearmed(a, Schedule(a), TRUE, 1)
      BY <3>3, ScheduleEffect
    <3> HIDE DEF a
    <3>6. Armed(loop') /\ ~loop'.ticking
      BY <3>3, <3>4, <3>5 DEF Armed, Handled, Rearmed, Wanted
    <3>7. PassTypes' /\ OnePass'
      BY <2>0, <2>9, <3>6 DEF EndTick, OnePass, PassTypes
    <3> QED BY <3>6, <3>7 DEF AuInv
  <2>10. ASSUME NEW p \in Passes, NEW yes \in BOOLEAN, Answered(p, yes) PROVE AuInv'
    BY <2>0, <2>10 DEF AuInv, PassTypes, OnePass, Answered
  <2>11. CASE UNCHANGED auVars
    BY <2>0, <2>11 DEF AuInv, PassTypes, OnePass, auVars
  <2> QED BY <1>2, <2>3, <2>4, <2>5, <2>6, <2>7, <2>8, <2>9, <2>10, <2>11 DEF AuNext
<1> QED BY <1>1, <1>2

\* Whatever the order of ticks, toggles, cadence changes, stop and start, and for any
\* number of calls in flight, one timeout is armed exactly while the loop is wanted and
\* not in a tick, ticks never overlap, and `applying` is the pass that applies.
THEOREM TimerIsOneLoop == AuSpec => []OneLoop
BY AuInvInductive, AuInvMeaning, PTL DEF AuSpec

---------------------------------------------------------------------------------------
\* A set of naturals below a bound that has a member has a largest one.
LEMMA LargestExists ==
  ASSUME NEW c \in Nat, NEW S \in SUBSET (0 .. c), S # {}
  PROVE  \E d \in S : \A e \in S : e <= d
<1> DEFINE T == {c - d : d \in S}
           R == {ss \in Nat \X Nat : ss[1] < ss[2]}
<1>0. IsWellFoundedOn(R, Nat)
  BY NatLessThanWellFounded DEF OpToRel
<1>1. T \subseteq Nat
  <2>1. ASSUME NEW d \in S PROVE c - d \in Nat
    <3>1. d \in 0 .. c
      OBVIOUS
    <3> QED BY <3>1
  <2> QED BY <2>1
<1>2. T # {}
  OBVIOUS
<1>3. \E x \in T : \A y \in T : ~(<<y, x>> \in R)
  <2> HIDE DEF R, T
  <2> QED BY <1>0, <1>1, <1>2, WFMin, Zenon
<1>4. PICK x \in T : \A y \in T : ~(<<y, x>> \in R)
  BY <1>3
<1>5. \A y \in T : ~(y < x)
  BY <1>1, <1>4
<1>6. PICK d \in S : x = c - d
  OBVIOUS
<1>7. \A e \in S : e <= d
  <2> SUFFICES ASSUME NEW e \in S PROVE e <= d
    OBVIOUS
  <2>1. ~(c - e < c - d)
    BY <1>5, <1>6
  <2>2. d \in Int /\ e \in Int
    OBVIOUS
  <2> QED BY <2>1, <2>2
<1> QED BY <1>7
\* The content of a file in a commit is a commit's, or it has none.
LEMMA BlobType ==
  ASSUME NEW f, NEW c \in Commits
  PROVE  Blob(f, c) \in Commits \cup {Absent} /\ Blob(f, c) # Own
<1> DEFINE touching == {0} \cup {d \in 1 .. c : f \in Touches[d]}
           d == CHOOSE d \in touching : \A e \in touching : e <= d
<1>1. c \in Nat /\ touching \in SUBSET (0 .. c) /\ touching # {} /\ 0 .. c \subseteq Commits
  BY SourceUpdateConstants DEF Commits
<1>2. \E e \in touching : \A g \in touching : g <= e
  <2> HIDE DEF touching
  <2> QED BY <1>1, LargestExists
<1>3. d \in 0 .. c
  BY <1>1, <1>2
<1>4. Blob(f, c) = IF f \in Removes[d] THEN Absent ELSE d
  BY DEF Blob
<1>5. d \in Commits /\ d >= 0
  BY <1>1, <1>3
<1> HIDE DEF d
<1> QED BY <1>4, <1>5 DEF Absent, Own

Contents == Commits \cup {Absent, Own}
Heads(t) == [base : 0 .. t, own : SUBSET Files]

\* What HEAD holds of a file is a content, the developer's own where HEAD says so.
LEMMA BlobInType ==
  ASSUME NEW t \in Commits, NEW h \in Heads(t), NEW f \in Files
  PROVE  BlobIn(f, h) \in Contents /\ (BlobIn(f, h) = Own <=> f \in h.own)
<1>1. h.base \in Commits
  BY SourceUpdateConstants DEF Heads, Commits
<1>2. Blob(f, h.base) \in Commits \cup {Absent} /\ Blob(f, h.base) # Own
  BY <1>1, BlobType
<1> QED BY <1>2 DEF BlobIn, Contents

LEMMA TreeType ==
  ASSUME NEW t \in Commits, NEW h \in Heads(t)
  PROVE  TreeOf(h) \in [Files -> Contents] /\ \A f \in Files : TreeOf(h)[f] = BlobIn(f, h)
BY BlobInType DEF TreeOf
Runs(t) == [cur : Heads(t), dirty : BOOLEAN, seen : 0 .. t, target : 0 .. t,
            landed : SUBSET Files, step : 1 .. Steps]

\* What an apply remembers, field by field, after each of its writes.
LEMMA RunFields ==
  ASSUME NEW t \in Commits, NEW r \in Runs(t), NEW c \in Heads(t), NEW d \in BOOLEAN,
         NEW s \in 0 .. t, NEW l \in SUBSET Files, NEW k \in 1 .. Steps
  PROVE  /\ LET n == [r EXCEPT !.cur = c, !.dirty = d]
            IN  /\ n \in Runs(t) /\ n.cur = c /\ n.dirty = d /\ n.seen = r.seen
                /\ n.target = r.target /\ n.landed = r.landed
         /\ LET n == [r EXCEPT !.seen = s]
            IN  /\ n \in Runs(t) /\ n.cur = r.cur /\ n.dirty = r.dirty
                /\ n.target = r.target /\ n.landed = r.landed
         /\ LET n == [r EXCEPT !.target = s]
            IN  /\ n \in Runs(t) /\ n.cur = r.cur /\ n.dirty = r.dirty
                /\ n.target = s /\ n.landed = r.landed
         /\ LET n == [r EXCEPT !.landed = l]
            IN  /\ n \in Runs(t) /\ n.cur = r.cur /\ n.dirty = r.dirty
                /\ n.target = r.target /\ n.landed = l
         /\ LET n == [r EXCEPT !.step = k]
            IN  /\ n \in Runs(t) /\ n.cur = r.cur /\ n.dirty = r.dirty
                /\ n.target = r.target /\ n.landed = r.landed
<1>2. [r EXCEPT !.cur = c, !.dirty = d] \in Runs(t)
  BY DEF Runs
<1>3. [r EXCEPT !.cur = c, !.dirty = d].cur = c /\ [r EXCEPT !.cur = c, !.dirty = d].seen = r.seen
      /\ [r EXCEPT !.cur = c, !.dirty = d].target = r.target
      /\ [r EXCEPT !.cur = c, !.dirty = d].landed = r.landed
  BY DEF Runs
<1>4. [r EXCEPT !.cur = c, !.dirty = d].dirty = d
  BY DEF Runs
<1>5. [r EXCEPT !.seen = s] \in Runs(t) /\ [r EXCEPT !.target = s] \in Runs(t)
      /\ [r EXCEPT !.landed = l] \in Runs(t) /\ [r EXCEPT !.step = k] \in Runs(t)
  BY DEF Runs
<1>6. [r EXCEPT !.seen = s].dirty = r.dirty /\ [r EXCEPT !.target = s].dirty = r.dirty
      /\ [r EXCEPT !.landed = l].dirty = r.dirty /\ [r EXCEPT !.step = k].dirty = r.dirty
  BY DEF Runs
<1>7. [r EXCEPT !.seen = s].cur = r.cur /\ [r EXCEPT !.target = s].cur = r.cur
      /\ [r EXCEPT !.landed = l].cur = r.cur /\ [r EXCEPT !.step = k].cur = r.cur
  BY DEF Runs
<1>8. [r EXCEPT !.seen = s].target = r.target /\ [r EXCEPT !.target = s].target = s
      /\ [r EXCEPT !.landed = l].target = r.target /\ [r EXCEPT !.step = k].target = r.target
  BY DEF Runs
<1>9. [r EXCEPT !.seen = s].landed = r.landed /\ [r EXCEPT !.target = s].landed = r.landed
      /\ [r EXCEPT !.landed = l].landed = l /\ [r EXCEPT !.step = k].landed = r.landed
  BY DEF Runs
<1> QED BY <1>2, <1>3, <1>4, <1>5, <1>6, <1>7, <1>8, <1>9

LEMMA NoRunType ==
  ASSUME NEW t \in Commits
  PROVE  NoRun \in Runs(t)
BY SourceUpdateConstants DEF NoRun, Runs, Heads, Commits

\* The type invariant with its sets named.
TypeNamed ==
    /\ cooldown \in BOOLEAN /\ tip \in Commits /\ aged \in 0 .. tip
    /\ head \in Heads(tip) /\ run \in Runs(tip)
    /\ index \in [Files -> Contents] /\ work \in [Files -> Contents]
    /\ built \in Commits \cup {Broken}
    /\ copies \in [Programs -> Contents] /\ moving \subseteq Programs
    /\ stash \subseteq written /\ late \subseteq written /\ deleted \subseteq Files
    /\ told \in BOOLEAN

LEMMA TypeIsNamed == SuTypeOK <=> TypeNamed
BY DEF SuTypeOK, TypeNamed, Heads, Runs, Contents

\* Each step leaves what an apply remembers well-typed.
RunAfter(r) ==
    \/ r = run
    \/ r = NoRun
    \/ r = [run EXCEPT !.cur = head, !.dirty = Dirty # {}]
    \/ r = [run EXCEPT !.seen = tip]
    \/ \E t \in 0 .. tip : r = [run EXCEPT !.target = t]
    \/ r = [run EXCEPT !.landed = Dirty]
    \/ \E k \in 1 .. Steps : r = [run EXCEPT !.step = k]

LEMMA RunStays ==
  ASSUME TypeNamed, SuNext
  PROVE  RunAfter(run')
<1>1. Steps \in Nat \ {0} /\ MaxTip \in Nat
  BY SourceUpdateConstants
<1>2. run.step \in 1 .. Steps /\ run.seen \in 0 .. tip /\ tip \in Nat /\ aged \in 0 .. tip
  BY SourceUpdateConstants DEF TypeNamed, Runs, Commits
<1>3. CASE Push \/ Age \/ Developer
  <2>1. CASE Push \/ Age
    BY <2>1 DEF Push, Age, RunAfter
  <2>2. CASE DevCommit
    BY <2>2 DEF DevCommit, RunAfter
  <2>3. ASSUME NEW f \in Files, DevEdit(f) \/ DevStage(f) \/ \E c \in Commits : DevPatch(f, c)
        PROVE  RunAfter(run')
    BY <2>3 DEF DevEdit, DevStage, DevPatch, RunAfter
  <2> QED BY <1>3, <2>1, <2>2, <2>3 DEF Developer
<1>4. CASE ReadStatus
  BY <1>4 DEF ReadStatus, GotoWith, RunAfter
<1>5. CASE Fetch
  BY <1>5, <1>2 DEF Fetch, GotoWith, End, RunAfter
<1>6. CASE RunStep
  <2>1. CASE run.step < Steps
    <3>1. run.step + 1 \in 1 .. Steps /\ run' = [run EXCEPT !.step = run.step + 1]
      BY <1>1, <1>2, <1>6, <2>1 DEF RunStep, GotoWith
    <3> QED BY <3>1 DEF RunAfter
  <2>2. CASE ~(run.step < Steps)
    BY <1>6, <2>2 DEF RunStep, End, RunAfter
  <2> QED BY <2>1, <2>2
<1>7. CASE RbSteps
  <2>1. CASE run.step < Steps /\ run' = [run EXCEPT !.step = run.step + 1]
    <3>1. run.step + 1 \in 1 .. Steps
      BY <1>1, <1>2, <2>1
    <3> QED BY <3>1, <2>1 DEF RunAfter
  <2>2. CASE run' = NoRun
    BY <2>2 DEF RunAfter
  <2> QED BY <1>7, <2>1, <2>2 DEF RbSteps, End, GotoWith
<1>8. CASE StepFails
  <2>1. 1 \in 1 .. Steps
    BY <1>1
  <2> QED BY <1>8, <2>1 DEF StepFails, GotoWith, RunAfter
<1>9. CASE ReadRemote
  BY <1>9 DEF ReadRemote, GotoWith, RunAfter
<1>10. CASE Applicable
  BY <1>10 DEF Applicable, GoesTo, GotoWith, End, RunAfter
<1>11. CASE StartApply \/ Settle \/ CheckFails \/ Stage \/ Compare \/ AsideSweep \/ AsideMove
            \/ AsideCheckout \/ AsideFails \/ Advance \/ AdvanceFails \/ Unstage
  BY <1>11 DEF StartApply, Settle, CheckFails, Stage, Compare, AsideSweep, AsideMove,
     AsideCheckout, AsideFails, Advance, AdvanceFails, Unstage, GoesTo, End, RunAfter
<1>12. CASE RbStatus \/ RbStash \/ RbFails \/ RbReset \/ RbCheckout \/ RbUnstage \/ RbUnlink
            \/ RbRestoreFails
  BY <1>12 DEF RbStatus, RbStash, RbFails, RbReset, RbCheckout, RbUnstage, RbUnlink,
     RbRestoreFails, GoesTo, End, RunAfter
<1> QED BY <1>3, <1>4, <1>5, <1>6, <1>7, <1>8, <1>9, <1>10, <1>11, <1>12 DEF SuNext, ApplyStep

LEMMA RunStaysTyped ==
  ASSUME TypeNamed, NEW r, RunAfter(r)
  PROVE  r \in Runs(tip)
<1>1. tip \in Commits /\ run \in Runs(tip) /\ head \in Heads(tip) /\ tip \in 0 .. tip
  BY SourceUpdateConstants DEF TypeNamed, Commits
<1>2. (Dirty # {}) \in BOOLEAN /\ Dirty \in SUBSET Files
  BY DEF Dirty
<1>3. CASE r = [run EXCEPT !.cur = head, !.dirty = Dirty # {}]
  <2> DEFINE d == Dirty # {}
  <2>1. \A b \in BOOLEAN : [run EXCEPT !.cur = head, !.dirty = b] \in Runs(tip)
    BY <1>1 DEF Runs
  <2>2. d \in BOOLEAN
    BY <1>2
  <2>3. r = [run EXCEPT !.cur = head, !.dirty = d]
    BY <1>3
  <2> HIDE DEF d
  <2> QED BY <2>1, <2>2, <2>3
<1>4. CASE r = NoRun
  BY <1>1, <1>4, NoRunType
<1>5. CASE r # NoRun /\ ~(r = [run EXCEPT !.cur = head, !.dirty = Dirty # {}])
  <2>1. \/ r = run
        \/ r = [run EXCEPT !.seen = tip]
        \/ \E t \in 0 .. tip : r = [run EXCEPT !.target = t]
        \/ r = [run EXCEPT !.landed = Dirty]
        \/ \E k \in 1 .. Steps : r = [run EXCEPT !.step = k]
    BY <1>5 DEF RunAfter
  <2> QED BY <1>1, <1>2, <2>1 DEF Runs
<1> QED BY <1>3, <1>4, <1>5

\* Own content is the developer's, wherever it is.
OwnIsWritten ==
    /\ written \subseteq Files
    /\ \A f \in Files : Own \in {index[f], work[f]} => f \in written
    /\ \A f \in Programs : copies[f] = Own => f \in written

\* What HEAD or the check's HEAD has committed can be found, and the check's HEAD is no
\* later than HEAD.
CommittedIsStashed ==
    head.own \subseteq stash /\ run.cur.own \subseteq stash /\ run.cur.base <= head.base

SuCore == TypeNamed /\ OwnIsWritten /\ CommittedIsStashed

\* What the steps that only read, decide or build leave alone.
ReadsOnly == UNCHANGED <<cooldown, tip, aged, head, index, work, stash, copies, moving,
                         written, late, deleted>>
ReadingSteps ==
    \/ StartApply \/ ReadStatus \/ ReadRemote \/ Fetch \/ Settle \/ Applicable \/ CheckFails
    \/ Compare \/ AdvanceFails \/ RunStep \/ StepFails
    \/ RbStatus \/ RbFails \/ RbRestoreFails \/ RbSteps
WritingSteps ==
    \/ Stage \/ AsideSweep \/ AsideMove \/ AsideCheckout \/ AsideFails \/ Advance \/ Unstage
    \/ RbStash \/ RbReset \/ RbCheckout \/ RbUnstage \/ RbUnlink

LEMMA StepKinds ==
  SuNext <=> Push \/ Age \/ ReadingSteps \/ WritingSteps \/ Developer
BY DEF SuNext, ApplyStep, ReadingSteps, WritingSteps

LEMMA ReadingStepsRead ==
  ASSUME ReadingSteps
  PROVE  ReadsOnly
<1>1. CASE StartApply \/ ReadStatus \/ ReadRemote \/ Fetch \/ Settle \/ Applicable \/ CheckFails
  BY <1>1 DEF StartApply, ReadStatus, ReadRemote, Fetch, Settle, Applicable, CheckFails, ReadsOnly,
     remoteVars, treeVars, asideVars, devVars
<1>2. CASE Compare \/ AdvanceFails \/ RunStep \/ StepFails
  BY <1>2 DEF Compare, AdvanceFails, RunStep, StepFails, ReadsOnly,
     remoteVars, treeVars, asideVars, devVars
<1>3. CASE RbStatus \/ RbFails \/ RbRestoreFails \/ RbSteps
  BY <1>3 DEF RbStatus, RbFails, RbRestoreFails, RbSteps, ReadsOnly,
     remoteVars, treeVars, asideVars, devVars
<1> QED BY <1>1, <1>2, <1>3 DEF ReadingSteps

\* The flags a step writes, and the build, stay in their types.
LEMMA FlagsStayTyped ==
  ASSUME TypeNamed, SuNext
  PROVE  built' \in Commits \cup {Broken} /\ told' \in BOOLEAN
<1>0. built \in Commits \cup {Broken} /\ told \in BOOLEAN /\ head.base \in Commits
  BY SourceUpdateConstants DEF TypeNamed, Heads, Commits
<1>1. CASE Push \/ Age
  BY <1>0, <1>1 DEF Push, Age
<1>2. CASE DevCommit
  BY <1>0, <1>2 DEF DevCommit
<1>3. ASSUME NEW f \in Files, DevEdit(f) \/ DevStage(f) \/ \E c \in Commits : DevPatch(f, c)
      PROVE  built' \in Commits \cup {Broken} /\ told' \in BOOLEAN
  BY <1>0, <1>3 DEF DevEdit, DevStage, DevPatch
<1>4. CASE StartApply \/ ReadStatus \/ ReadRemote \/ Fetch \/ Settle \/ Applicable \/ CheckFails
            \/ Compare \/ AdvanceFails \/ RbStatus \/ RbRestoreFails
  BY <1>0, <1>4 DEF StartApply, ReadStatus, ReadRemote, Fetch, Settle, Applicable, CheckFails,
     Compare, AdvanceFails, RbStatus, RbRestoreFails
<1>5. CASE RunStep \/ StepFails
  BY <1>0, <1>5 DEF RunStep, StepFails
<1>6. CASE RbFails \/ RbSteps
  <2>1. built' \in Commits \cup {Broken}
    BY <1>0, <1>6 DEF RbFails, RbSteps
  <2>2. told' = told \/ told' = TRUE
    BY <1>6, Zenon DEF RbFails, RbSteps
  <2> QED BY <1>0, <2>1, <2>2
<1>7. CASE AsideFails
  <2>1. \E back \in SUBSET moving : told' = (told \/ back # moving)
    BY <1>7, Zenon DEF AsideFails
  <2>2. built' = built
    BY <1>7 DEF AsideFails
  <2> QED BY <1>0, <2>1, <2>2
<1>8. CASE Stage \/ AsideSweep \/ AsideMove \/ AsideCheckout \/ Advance \/ Unstage
            \/ RbStash \/ RbReset \/ RbCheckout \/ RbUnstage \/ RbUnlink
  BY <1>0, <1>8 DEF Stage, AsideSweep, AsideMove, AsideCheckout, Advance, Unstage, RbStash, RbReset,
     RbCheckout, RbUnstage, RbUnlink
<1> QED BY <1>1, <1>2, <1>3, <1>4, <1>5, <1>6, <1>7, <1>8 DEF SuNext, ApplyStep, Developer

\* What an apply remembers of the check's HEAD is found, and no later than HEAD.
LEMMA RunKeepsCommits ==
  ASSUME SuCore, NEW r, RunAfter(r)
  PROVE  r \in Runs(tip) /\ r.cur.own \subseteq stash /\ r.cur.base <= head.base
<1>1. r \in Runs(tip)
  BY RunStaysTyped DEF SuCore
<1>2. r.cur \in {run.cur, head, NoRun.cur}
  <2>1. tip \in Commits /\ run \in Runs(tip) /\ head \in Heads(tip) /\ tip \in 0 .. tip
        /\ Dirty \in SUBSET Files
    BY SourceUpdateConstants DEF SuCore, TypeNamed, Commits, Dirty
  <2>2. CASE r = [run EXCEPT !.cur = head, !.dirty = Dirty # {}]
    BY <2>1, <2>2 DEF Runs
  <2>3. CASE r = run \/ r = NoRun
    BY <2>3
  <2>4. CASE \/ r = [run EXCEPT !.seen = tip]
             \/ \E t \in 0 .. tip : r = [run EXCEPT !.target = t]
             \/ r = [run EXCEPT !.landed = Dirty]
             \/ \E k \in 1 .. Steps : r = [run EXCEPT !.step = k]
    BY <2>1, <2>4 DEF Runs
  <2> QED BY <2>2, <2>3, <2>4 DEF RunAfter
<1>3. head.base >= 0 /\ head.base \in Int /\ head.base <= head.base
  BY SourceUpdateConstants DEF SuCore, TypeNamed, Heads, Commits
<1> QED BY <1>1, <1>2, <1>3 DEF SuCore, CommittedIsStashed, NoRun

LEMMA CoreWhenReading ==
  ASSUME SuCore, SuNext, ReadsOnly
  PROVE  SuCore'
<1>1. run' \in Runs(tip) /\ run'.cur.own \subseteq stash /\ run'.cur.base <= head.base
  BY RunStays, RunKeepsCommits DEF SuCore
<1>2. built' \in Commits \cup {Broken} /\ told' \in BOOLEAN
  BY FlagsStayTyped DEF SuCore
<1>3. TypeNamed'
  BY <1>1, <1>2 DEF SuCore, TypeNamed, ReadsOnly
<1>4. OwnIsWritten' /\ CommittedIsStashed'
  BY <1>1 DEF SuCore, OwnIsWritten, CommittedIsStashed, ReadsOnly
<1> QED BY <1>3, <1>4 DEF SuCore

LEMMA CoreWhenRemoteMoves ==
  ASSUME SuCore, Push \/ Age
  PROVE  SuCore'
<1>1. tip \in Nat /\ MaxTip \in Nat /\ aged \in 0 .. tip /\ tip \in 0 .. MaxTip
  BY SourceUpdateConstants DEF SuCore, TypeNamed, Commits
<1>2. tip' \in Commits /\ aged' \in 0 .. tip' /\ tip' \in Nat /\ tip <= tip'
  BY <1>1 DEF Push, Age, Commits
<1>3. 0 .. tip \subseteq 0 .. tip'
  BY <1>1, <1>2
<1>4. UNCHANGED <<cooldown, head, index, work, stash, copies, moving, built, pc, run, written, late,
                  deleted, told>>
  BY DEF Push, Age, treeVars, asideVars, devVars
<1>5. head' \in Heads(tip') /\ run' \in Runs(tip')
  BY <1>3, <1>4 DEF SuCore, TypeNamed, Heads, Runs
<1>6. TypeNamed'
  BY <1>2, <1>4, <1>5 DEF SuCore, TypeNamed
<1> QED BY <1>4, <1>6 DEF SuCore, OwnIsWritten, CommittedIsStashed

LEMMA CoreWhenDeveloping ==
  ASSUME SuCore, Developer
  PROVE  SuCore'
<1>0. TypeNamed /\ \A f \in Files, c \in Commits : Blob(f, c) \in Contents /\ Blob(f, c) # Own
  BY BlobType DEF SuCore, Contents
<1>1. ASSUME NEW f \in Files, DevEdit(f) PROVE SuCore'
  <2>1. UNCHANGED <<cooldown, tip, aged, head, index, stash, copies, moving, built, pc, run, deleted, told>>
        /\ work' = [work EXCEPT ![f] = Own] /\ written' = written \cup {f}
        /\ (late' = late \cup {f} \/ late' = late)
    BY <1>1 DEF DevEdit, remoteVars, asideVars
  <2>2. TypeNamed'
    BY <1>0, <2>1 DEF TypeNamed, Contents
  <2> QED BY <1>0, <2>1, <2>2 DEF SuCore, TypeNamed, OwnIsWritten, CommittedIsStashed
<1>2. ASSUME NEW f \in Files, DevStage(f) PROVE SuCore'
  <2>1. UNCHANGED <<cooldown, tip, aged, head, work, stash, copies, moving, built, pc, run, written, late,
                    deleted, told>>
        /\ index' = [index EXCEPT ![f] = Own] /\ work[f] = Own
    BY <1>2 DEF DevStage, remoteVars, asideVars, devVars
  <2>2. TypeNamed'
    BY <1>0, <2>1 DEF TypeNamed, Contents
  <2> QED BY <1>0, <2>1, <2>2 DEF SuCore, TypeNamed, OwnIsWritten, CommittedIsStashed
<1>3. ASSUME NEW f \in Files, NEW c \in Commits, DevPatch(f, c) PROVE SuCore'
  <2>1. UNCHANGED <<cooldown, tip, aged, head, index, stash, copies, moving, built, pc, run, written, late, told>>
        /\ work' = [work EXCEPT ![f] = Blob(f, c)]
        /\ (deleted' = deleted \cup {f} \/ deleted' = deleted)
    BY <1>3 DEF DevPatch, remoteVars, asideVars
  <2>2. TypeNamed'
    BY <1>0, <2>1 DEF TypeNamed
  <2> QED BY <1>0, <2>1, <2>2 DEF SuCore, TypeNamed, OwnIsWritten, CommittedIsStashed
<1>4. CASE DevCommit
  <2> DEFINE own == {f \in Files : index[f] = Own}
  <2>1. UNCHANGED <<cooldown, tip, aged, index, work, copies, moving, built, pc, run, written, late,
                    deleted, told>>
        /\ head' = [head EXCEPT !.own = own] /\ stash' = stash \cup head'.own
    BY <1>4 DEF DevCommit, remoteVars, asideVars, devVars
  <2>2. head' \in Heads(tip) /\ head'.own = own /\ head'.base = head.base
    BY <1>0, <2>1 DEF TypeNamed, Heads
  <2>3. own \subseteq written
    BY DEF SuCore, OwnIsWritten
  <2> HIDE DEF own
  <2>4. TypeNamed'
    BY <1>0, <2>1, <2>2, <2>3 DEF TypeNamed
  <2> QED BY <2>1, <2>2, <2>3, <2>4 DEF SuCore, OwnIsWritten, CommittedIsStashed
<1> QED BY <1>1, <1>2, <1>3, <1>4 DEF Developer

\* The steps that write the checkout: only HEAD, the index, the disk, the stash, the copies
\* and what is moved aside.
LEMMA WritingStepsWrite ==
  ASSUME WritingSteps
  PROVE  UNCHANGED <<cooldown, tip, aged, written, late, deleted, built>>
<1>1. CASE Stage \/ AsideSweep \/ AsideMove \/ AsideCheckout \/ AsideFails \/ Advance \/ Unstage
  BY <1>1 DEF Stage, AsideSweep, AsideMove, AsideCheckout, AsideFails, Advance, Unstage,
     remoteVars, devVars
<1>2. CASE RbStash \/ RbReset \/ RbCheckout \/ RbUnstage \/ RbUnlink
  BY <1>2 DEF RbStash, RbReset, RbCheckout, RbUnstage, RbUnlink, remoteVars, devVars
<1> QED BY <1>1, <1>2 DEF WritingSteps

\* A step that changes the checkout keeps the core when what it writes are contents that
\* are not the developer's own, or were own before.
LEMMA CoreWhenWriting ==
  ASSUME SuCore, SuNext, WritingSteps,
         head' \in Heads(tip), head'.own \subseteq stash', run'.cur.own \subseteq stash',
         run'.cur.base <= head'.base,
         index' \in [Files -> Contents], work' \in [Files -> Contents],
         copies' \in [Programs -> Contents], moving' \subseteq Programs, stash' \subseteq written,
         \A f \in Files : Own \in {index'[f], work'[f]} => f \in written,
         \A f \in Programs : copies'[f] = Own => f \in written
  PROVE  SuCore'
<1>1. run' \in Runs(tip) /\ built' \in Commits \cup {Broken} /\ told' \in BOOLEAN
  BY RunStays, RunStaysTyped, FlagsStayTyped DEF SuCore
<1>2. UNCHANGED <<cooldown, tip, aged, written, late, deleted>>
  BY WritingStepsWrite
<1>3. TypeNamed'
  BY <1>1, <1>2 DEF SuCore, TypeNamed
<1> QED BY <1>2, <1>3 DEF SuCore, OwnIsWritten, CommittedIsStashed

LEMMA CoreHolds ==
  ASSUME SuCore, SuNext
  PROVE  SuCore'
<1>0. TypeNamed /\ OwnIsWritten /\ CommittedIsStashed /\ Programs \subseteq Files
      /\ stash \subseteq written
  BY SourceUpdateConstants DEF SuCore, TypeNamed
<1>1. run' \in Runs(tip) /\ run'.cur.own \subseteq stash /\ run'.cur.base <= head.base
  BY RunStays, RunKeepsCommits DEF SuCore
<1>2. /\ head \in Heads(tip) /\ run \in Runs(tip) /\ run.cur \in Heads(tip) /\ tip \in Commits
      /\ index \in [Files -> Contents] /\ work \in [Files -> Contents]
      /\ copies \in [Programs -> Contents] /\ moving \subseteq Programs /\ Absent \in Contents
      /\ head.base \in Commits
  BY <1>0, SourceUpdateConstants DEF TypeNamed, Runs, Heads, Contents, Commits
<1>3. \A f \in Files, c \in Commits : Blob(f, c) \in Contents /\ Blob(f, c) # Own
  BY BlobType DEF Contents
<1>4. \A f \in Files : /\ BlobIn(f, head) \in Contents /\ (BlobIn(f, head) = Own => f \in written)
                      /\ BlobIn(f, run.cur) \in Contents /\ (BlobIn(f, run.cur) = Own => f \in written)
  BY <1>0, <1>2, BlobInType DEF CommittedIsStashed
<1>5. \A f \in Files : Absent # Own /\ TreeOf(head)[f] = BlobIn(f, head) /\ TreeOf(run.cur)[f] = BlobIn(f, run.cur)
  BY <1>2, TreeType DEF Absent, Own
<1>6. TreeOf(head) \in [Files -> Contents] /\ TreeOf(run.cur) \in [Files -> Contents]
  BY <1>2, TreeType
<1>7. run.target \in Commits /\ run.target \in 0 .. tip /\ 0 .. tip \subseteq Commits
  BY <1>2, SourceUpdateConstants DEF Runs, Commits
<1>a. CASE ReadingSteps
  BY <1>a, ReadingStepsRead, CoreWhenReading
<1>b. CASE Push \/ Age
  BY <1>b, CoreWhenRemoteMoves
<1>c. CASE Developer
  BY <1>c, CoreWhenDeveloping
<1>d. CASE WritingSteps
  <2>1. CASE Stage
    <3>1. UNCHANGED <<head, work, stash, copies, moving>>
          /\ index' = [f \in Files |-> IF f \in run.landed THEN work[f] ELSE index[f]]
      BY <2>1 DEF Stage, asideVars
    <3> QED BY <1>0, <1>1, <1>2, <1>d, <3>1, CoreWhenWriting DEF OwnIsWritten, CommittedIsStashed
  <2>2. CASE AsideSweep
    <3>1. UNCHANGED <<head, index, work, stash, moving>>
          /\ \E held \in SUBSET Programs :
                copies' = [f \in Programs |-> IF f \in held THEN copies[f] ELSE Absent]
      BY <2>2 DEF AsideSweep
    <3> QED BY <1>0, <1>1, <1>2, <1>5, <1>d, <3>1, CoreWhenWriting DEF OwnIsWritten, CommittedIsStashed
  <2>3. CASE AsideMove
    <3>1. PICK moved \in SUBSET Programs :
             /\ moving' = moved
             /\ copies' = [f \in Programs |-> IF f \in moved THEN work[f] ELSE copies[f]]
             /\ work' = [f \in Files |-> IF f \in moved THEN Absent ELSE work[f]]
             /\ UNCHANGED <<head, index, stash>>
      BY <2>3 DEF AsideMove
    <3> QED BY <1>0, <1>1, <1>2, <1>5, <1>d, <3>1, CoreWhenWriting DEF OwnIsWritten, CommittedIsStashed
  <2>4. CASE AsideCheckout
    <3>1. /\ UNCHANGED <<head, stash, copies>> /\ moving' = {}
          /\ index' = [f \in Files |-> IF f \in moving THEN BlobIn(f, head) ELSE index[f]]
          /\ work' = [f \in Files |-> IF f \in moving THEN BlobIn(f, head) ELSE work[f]]
      BY <2>4 DEF AsideCheckout
    <3> QED BY <1>0, <1>1, <1>2, <1>4, <1>d, <3>1, CoreWhenWriting DEF OwnIsWritten, CommittedIsStashed
  <2>5. CASE AsideFails
    <3>1. PICK back \in SUBSET moving :
             /\ work' = [f \in Files |-> IF f \in back THEN copies[f] ELSE work[f]]
             /\ copies' = [f \in Programs |-> IF f \in back THEN Absent ELSE copies[f]]
             /\ UNCHANGED <<head, index, stash>> /\ moving' = {}
      BY <2>5 DEF AsideFails
    <3> QED BY <1>0, <1>1, <1>2, <1>5, <1>d, <3>1, CoreWhenWriting DEF OwnIsWritten, CommittedIsStashed
  <2>6. CASE Advance
    <3>1. UNCHANGED <<stash, copies, moving, run>>
      BY <2>6 DEF Advance, asideVars, GoesTo
    <3>2. CASE UNCHANGED <<head, index, work>>
      BY <1>0, <1>1, <1>2, <1>d, <3>1, <3>2, CoreWhenWriting DEF OwnIsWritten, CommittedIsStashed
    <3>3. CASE ~UNCHANGED <<head, index, work>>
      <4> DEFINE to == AdvanceTo
      <4>1. /\ to \in 0 .. tip /\ ~BehindHead(to) /\ head' = [base |-> to, own |-> {}]
            /\ index' = [f \in Files |-> IF Blob(f, head.base) # Blob(f, to) /\ index[f] = Blob(f, head.base)
                                        THEN Blob(f, to) ELSE index[f]]
            /\ work' = [f \in Files |-> IF Blob(f, head.base) # Blob(f, to) /\ work[f] = Blob(f, head.base)
                                       THEN Blob(f, to) ELSE work[f]]
        <5>1. to \in 0 .. tip
          BY <1>2, <1>7, SourceUpdateConstants DEF AdvanceTo, Commits
        <5> QED BY <2>6, <3>3, <5>1 DEF Advance
      <4> HIDE DEF to
      <4>2. head' \in Heads(tip) /\ head'.own = {} /\ head'.base = to /\ to \in Commits
        BY <1>7, <4>1 DEF Heads
      <4>3. run'.cur.base <= head'.base
        <5>1. head.base <= to /\ head.base \in Int /\ to \in Int /\ run.cur.base \in Int
          BY <1>2, <1>7, <4>1, SourceUpdateConstants DEF BehindHead, Commits, Heads
        <5> QED BY <1>1, <3>1, <4>2, <5>1
      <4>4. index' \in [Files -> Contents] /\ work' \in [Files -> Contents]
        BY <1>2, <1>3, <4>1, <4>2
      <4>5. \A f \in Files : Own \in {index'[f], work'[f]} => f \in written
        BY <1>0, <1>3, <4>1, <4>2 DEF OwnIsWritten
      <4> QED BY <1>0, <1>1, <1>2, <1>d, <3>1, <4>2, <4>3, <4>4, <4>5, CoreWhenWriting DEF OwnIsWritten
    <3> QED BY <3>2, <3>3
  <2>7. CASE Unstage
    <3>1. /\ UNCHANGED <<head, work, stash, copies, moving>>
          /\ \/ index' = [f \in Files |-> IF f \in run.landed THEN BlobIn(f, head) ELSE index[f]]
             \/ index' = index
      BY <2>7 DEF Unstage, asideVars
    <3> QED BY <1>0, <1>1, <1>2, <1>4, <1>d, <3>1, CoreWhenWriting DEF OwnIsWritten, CommittedIsStashed
  <2>8. CASE RbStash
    <3>1. /\ UNCHANGED <<head, copies, moving>> /\ index' = TreeOf(head) /\ work' = TreeOf(head)
          /\ stash' = stash \cup {f \in Files : Own \in {work[f], index[f]}}
      BY <2>8 DEF RbStash, asideVars
    <3>2. stash \subseteq stash' /\ stash' \subseteq written
      BY <1>0, <3>1 DEF OwnIsWritten
    <3>3. \A f \in Files : Own \in {index'[f], work'[f]} => f \in written
      BY <1>4, <1>5, <3>1
    <3> QED BY <1>0, <1>1, <1>2, <1>6, <1>d, <3>1, <3>2, <3>3, CoreWhenWriting DEF OwnIsWritten, CommittedIsStashed
  <2>9. CASE RbReset
    <3>1. /\ UNCHANGED <<stash, copies, moving>> /\ index' = TreeOf(run.cur) /\ work' = TreeOf(run.cur)
          /\ head' = run.cur /\ run' = run
      BY <2>9 DEF RbReset, asideVars, GoesTo
    <3>2. \A f \in Files : Own \in {index'[f], work'[f]} => f \in written
      BY <1>4, <1>5, <3>1
    <3>3. run'.cur.base <= head'.base
      BY <1>2, <3>1, SourceUpdateConstants DEF Heads, Commits
    <3> QED BY <1>0, <1>1, <1>2, <1>6, <1>d, <3>1, <3>2, <3>3, CoreWhenWriting DEF OwnIsWritten, CommittedIsStashed
  <2>10. CASE RbCheckout
    <3>1. /\ UNCHANGED <<head, stash, copies, moving>>
          /\ index' = [f \in Files |-> IF f \in Kept THEN Blob(f, run.target) ELSE index[f]]
          /\ work' = [f \in Files |-> IF f \in Kept THEN Blob(f, run.target) ELSE work[f]]
      BY <2>10 DEF RbCheckout, asideVars
    <3> QED BY <1>0, <1>1, <1>2, <1>3, <1>7, <1>d, <3>1, CoreWhenWriting DEF OwnIsWritten, CommittedIsStashed
  <2>11. CASE RbUnstage
    <3>1. /\ UNCHANGED <<head, work, stash, copies, moving>>
          /\ index' = [f \in Files |-> IF f \in Kept THEN BlobIn(f, head) ELSE index[f]]
      BY <2>11 DEF RbUnstage, asideVars
    <3> QED BY <1>0, <1>1, <1>2, <1>4, <1>d, <3>1, CoreWhenWriting DEF OwnIsWritten, CommittedIsStashed
  <2>12. CASE RbUnlink
    <3>1. PICK stay \in SUBSET (run.landed \ Kept) :
             work' = [f \in Files |-> IF f \in run.landed \ (Kept \cup stay) THEN Absent ELSE work[f]]
      BY <2>12 DEF RbUnlink
    <3>2. UNCHANGED <<head, index, stash, copies, moving>>
      BY <2>12 DEF RbUnlink, asideVars
    <3> QED BY <1>0, <1>1, <1>2, <1>5, <1>d, <3>1, <3>2, CoreWhenWriting DEF OwnIsWritten, CommittedIsStashed
  <2> QED BY <1>d, <2>1, <2>2, <2>3, <2>4, <2>5, <2>6, <2>7, <2>8, <2>9, <2>10, <2>11, <2>12
          DEF WritingSteps
<1> QED BY <1>a, <1>b, <1>c, <1>d, StepKinds

---------------------------------------------------------------------------------------
\* Edits the engine could still see when they were made, and where they are: on disk or
\* stashed; all stashed where the rollback overwrites the tree, and a program's stashed
\* before it may be moved aside.
Seen == written \ late
EditsKept ==
    /\ \A f \in Seen : f \in stash \/ work[f] = Own
    /\ pc \in {"rbReset", "rbCheckout", "rbUnstage", "rbUnlink"} => Seen \subseteq stash
    /\ pc \in {"remote", "fetch", "settle"} /\ ~run.dirty => Seen \cap Programs \subseteq stash
    /\ pc \in {"applicable", "stage", "compare", "sweep", "aside", "asideBack"}
          => Seen \cap Programs \subseteq stash

\* An edit in a file that git calls clean has been committed.
LEMMA CleanIsCommitted ==
  ASSUME SuCore, EditsKept, NEW f \in Seen, f \notin Dirty
  PROVE  f \in stash
<1>1. f \in Files
  BY DEF SuCore, OwnIsWritten, Seen
<1>2. CASE work[f] = Own
  <2>1. BlobIn(f, head) = Own
    BY <1>1, <1>2 DEF Dirty
  <2>2. f \in head.own
    BY <1>1, <2>1, BlobInType DEF SuCore, TypeNamed
  <2> QED BY <2>2 DEF SuCore, CommittedIsStashed
<1> QED BY <1>2 DEF EditsKept

LEMMA EditsKeptWhenReading ==
  ASSUME SuCore, EditsKept, ReadingSteps
  PROVE  EditsKept'
<1>0. ReadsOnly /\ Seen' = Seen /\ stash' = stash /\ work' = work
  BY ReadingStepsRead DEF ReadsOnly, Seen
<1>1. \A f \in Seen : f \notin Dirty => f \in stash
  BY CleanIsCommitted
<1>2. \A f \in Seen' : f \in stash' \/ work'[f] = Own
  BY <1>0 DEF EditsKept
<1>3. CASE StartApply \/ CheckFails \/ RunStep
  BY <1>0, <1>2, <1>3 DEF StartApply, CheckFails, RunStep, GoesTo, GotoWith, End, EditsKept
<1>4. CASE ReadStatus
  <2>1. run' = [run EXCEPT !.cur = head, !.dirty = Dirty # {}] /\ pc' = "remote"
    BY <1>4 DEF ReadStatus, GotoWith
  <2>2. ~run'.dirty => Dirty = {}
    <3>1. (Dirty # {}) \in BOOLEAN /\ head \in Heads(tip) /\ run \in Runs(tip) /\ tip \in Commits
      BY DEF SuCore, TypeNamed
    <3> DEFINE d == Dirty # {}
    <3>2. ASSUME NEW b \in BOOLEAN PROVE [run EXCEPT !.cur = head, !.dirty = b].dirty = b
      BY <3>1 DEF Runs
    <3>3. d \in BOOLEAN /\ run' = [run EXCEPT !.cur = head, !.dirty = d]
      BY <2>1
    <3>4. run'.dirty = d
      <4> HIDE DEF d
      <4> QED BY <3>2, <3>3
    <3> QED BY <3>4
  <2>3. ~run'.dirty => Seen \subseteq stash
    BY <1>1, <2>2
  <2> QED BY <1>0, <1>2, <2>1, <2>3 DEF EditsKept
<1>5. CASE ReadRemote \/ Fetch
  <2>1. pc \in {"remote", "fetch"} /\ pc' \in {"fetch", "settle", "idle"}
    BY <1>5 DEF ReadRemote, Fetch, GotoWith, End
  <2>2. pc' # "idle" => run'.dirty = run.dirty
    <3>1. pc' # "idle" => \E t \in 0 .. tip :
             run' = [run EXCEPT !.seen = t] \/ run' = [run EXCEPT !.target = t]
      BY <1>5, SourceUpdateConstants
         DEF ReadRemote, Fetch, GotoWith, End, SuCore, TypeNamed, Runs, Commits
    <3>2. ASSUME NEW t \in 0 .. tip, run' = [run EXCEPT !.seen = t] \/ run' = [run EXCEPT !.target = t]
          PROVE  run'.dirty = run.dirty
      BY <3>2 DEF SuCore, TypeNamed, Runs
    <3> QED BY <3>1, <3>2, Zenon
  <2> QED BY <1>0, <1>2, <2>1, <2>2 DEF EditsKept
<1>6. CASE Settle
  <2>1. \/ pc' = "idle"
        \/ pc = "settle" /\ pc' = "applicable" /\ (~run.dirty \/ EditsAlreadyIn(run.target))
    BY <1>6 DEF Settle, GoesTo, End
  <2>2. EditsAlreadyIn(run.target) => Seen \subseteq stash
    <3>1. ASSUME EditsAlreadyIn(run.target), NEW f \in Seen, f \in Dirty PROVE f \in stash
      <4>1. run.target \in Commits
        BY SourceUpdateConstants DEF SuCore, TypeNamed, Runs, Commits
      <4>2. work[f] = Blob(f, run.target) /\ Blob(f, run.target) # Own
        BY <3>1, <4>1, BlobType DEF EditsAlreadyIn
      <4> QED BY <4>2 DEF EditsKept
    <3> QED BY <1>1, <3>1
  <2> QED BY <1>0, <1>2, <2>1, <2>2 DEF EditsKept
<1>7. CASE Applicable \/ Compare \/ AdvanceFails
  <2>1. /\ pc \in {"applicable", "stage", "compare", "advance"}
        /\ pc' \in {"sweep", "stage", "idle", "unstage"}
        /\ pc = "advance" => pc' \in {"idle", "unstage"}
    BY <1>7 DEF Applicable, Compare, AdvanceFails, GoesTo, GotoWith, End
  <2> QED BY <1>0, <1>2, <2>1 DEF EditsKept
<1>8. CASE StepFails \/ RbFails \/ RbSteps \/ RbRestoreFails
  <2>1. pc' \in {"rbStatus", "idle", "rbSteps", "rbBare"}
    BY <1>8 DEF StepFails, RbFails, RbSteps, RbRestoreFails, GoesTo, GotoWith, End
  <2> QED BY <1>0, <1>2, <2>1 DEF EditsKept
<1>9. CASE RbStatus
  <2>1. pc' = "rbStash" \/ (pc' = "rbReset" /\ Dirty = {})
    BY <1>9 DEF RbStatus, GoesTo
  <2> QED BY <1>0, <1>1, <1>2, <2>1 DEF EditsKept
<1> QED BY <1>3, <1>4, <1>5, <1>6, <1>7, <1>8, <1>9 DEF ReadingSteps

LEMMA EditsKeptWhenWriting ==
  ASSUME SuCore, EditsKept, WritingSteps
  PROVE  EditsKept'
<1>0. Seen' = Seen
  BY WritingStepsWrite DEF Seen
<1>1. Seen \subseteq Files /\ Programs \subseteq Files /\ work \in [Files -> Contents]
  BY SourceUpdateConstants DEF SuCore, TypeNamed, OwnIsWritten, Seen
<1>2. CASE Stage \/ AsideSweep
  <2>1. UNCHANGED <<work, stash>> /\ pc \in {"stage", "sweep"} /\ pc' \in {"compare", "aside"}
    BY <1>2 DEF Stage, AsideSweep, GoesTo
  <2> QED BY <1>0, <2>1 DEF EditsKept
<1>3. CASE AsideMove \/ AsideCheckout \/ AsideFails
  <2>1. /\ stash' = stash /\ pc \in {"aside", "asideBack"}
        /\ pc' \in {"advance", "asideBack", "idle", "unstage"}
    BY <1>3 DEF AsideMove, AsideCheckout, AsideFails, GoesTo, End
  <2>2. \A f \in Files \ Programs : work'[f] = work[f]
    BY <1>1, <1>3 DEF AsideMove, AsideCheckout, AsideFails, SuCore, TypeNamed
  <2>3. Seen \cap Programs \subseteq stash
    BY <2>1 DEF EditsKept
  <2> QED BY <1>0, <1>1, <2>1, <2>2, <2>3 DEF EditsKept
<1>4. CASE Advance
  <2>1. stash' = stash /\ pc' = "steps"
    BY <1>4 DEF Advance, GoesTo
  <2>2. \A f \in Files : work[f] = Own => work'[f] = Own
    <3>1. \A f \in Files : Blob(f, head.base) # Own
      BY BlobType, SourceUpdateConstants DEF SuCore, TypeNamed, Heads, Commits
    <3> QED BY <1>4, <3>1 DEF Advance
  <2> QED BY <1>0, <1>1, <2>1, <2>2 DEF EditsKept
<1>5. CASE Unstage
  <2>1. UNCHANGED <<work, stash>> /\ pc' = "idle"
    BY <1>5 DEF Unstage, End
  <2> QED BY <1>0, <2>1 DEF EditsKept
<1>6. CASE RbStash
  <2>1. stash' = stash \cup {f \in Files : Own \in {work[f], index[f]}} /\ pc' = "rbReset"
    BY <1>6 DEF RbStash, GoesTo
  <2> QED BY <1>0, <1>1, <2>1 DEF EditsKept
<1>7. CASE RbReset \/ RbCheckout \/ RbUnstage \/ RbUnlink
  <2>1. /\ stash' = stash /\ pc \in {"rbReset", "rbCheckout", "rbUnstage", "rbUnlink"}
        /\ pc' \in {"rbSteps", "rbBare", "rbCheckout", "rbUnstage", "rbUnlink"}
    BY <1>7 DEF RbReset, RbCheckout, RbUnstage, RbUnlink, GoesTo
  <2> QED BY <1>0, <2>1 DEF EditsKept
<1> QED BY <1>2, <1>3, <1>4, <1>5, <1>6, <1>7 DEF WritingSteps

LEMMA EditsKeptWhenDeveloping ==
  ASSUME SuCore, EditsKept, Developer
  PROVE  EditsKept'
<1>0. work \in [Files -> Contents] /\ Seen \subseteq Files
  BY DEF SuCore, TypeNamed, OwnIsWritten, Seen
<1>1. ASSUME NEW f \in Files, DevEdit(f) PROVE EditsKept'
  <2>1. UNCHANGED <<stash, pc, run>> /\ work' = [work EXCEPT ![f] = Own]
    BY <1>1 DEF DevEdit
  <2>2. IF Blind(f) THEN Seen' \subseteq Seen ELSE Seen' \subseteq Seen \cup {f}
    BY <1>1 DEF DevEdit, Seen
  <2>3. \A g \in Seen' : g \in stash' \/ work'[g] = Own
    BY <1>0, <2>1, <2>2 DEF EditsKept
  <2>4. CASE Blind(f)
    BY <2>1, <2>2, <2>3, <2>4 DEF EditsKept
  <2>5. CASE ~Blind(f)
    BY <2>1, <2>2, <2>3, <2>5 DEF EditsKept, Blind
  <2> QED BY <2>4, <2>5
<1>2. ASSUME NEW f \in Files, NEW c \in Commits, DevPatch(f, c) PROVE EditsKept'
  <2>1. UNCHANGED <<stash, pc, run, written, late>> /\ work' = [work EXCEPT ![f] = Blob(f, c)]
        /\ work[f] # Own
    BY <1>2 DEF DevPatch
  <2> QED BY <1>0, <2>1 DEF EditsKept, Seen
<1>3. ASSUME NEW f \in Files, DevStage(f) PROVE EditsKept'
  BY <1>3 DEF DevStage, devVars, EditsKept, Seen
<1>4. CASE DevCommit
  BY <1>4 DEF DevCommit, devVars, EditsKept, Seen
<1> QED BY <1>1, <1>2, <1>3, <1>4 DEF Developer

LEMMA EditsKeptHolds ==
  ASSUME SuCore, EditsKept, SuNext
  PROVE  EditsKept'
<1>1. CASE Push \/ Age
  BY <1>1 DEF Push, Age, treeVars, devVars, EditsKept, Seen
<1> QED BY <1>1, StepKinds, EditsKeptWhenReading, EditsKeptWhenWriting, EditsKeptWhenDeveloping

---------------------------------------------------------------------------------------
\* What is known of a checkout nothing was reported about: away from the steps and the
\* rollback the build is HEAD's, ...
RollingBack == {"rbStatus", "rbStash", "rbReset", "rbCheckout", "rbUnstage", "rbUnlink",
                "rbSteps", "rbBare"}
BuildKnown == ~told /\ pc \notin RollingBack \cup {"steps"} => built = head.base

\* ... a program that is missing is missing from HEAD and the index too, unless it is moved
\* aside, and then it has its copy, ...
MissingKnown ==
    ~told => \A f \in Programs \ deleted :
        work[f] = Absent /\ ~(pc = "asideBack" /\ f \in moving)
            => BlobIn(f, head) = Absent /\ index[f] = Absent
CopiesKnown ==
    /\ pc # "asideBack" => moving = {}
    /\ pc = "asideBack" => \A f \in moving : copies[f] # Absent

\* ... and a deletion the update took over was the developer's.
LandedKnown ==
    /\ pc \in {"idle", "status", "remote", "fetch", "settle", "applicable"} => run.landed = {}
    /\ ~told => \A f \in run.landed \cap Programs : Blob(f, run.target) = Absent => f \in deleted

LEMMA ToldStays ==
  ASSUME TypeNamed, SuNext, ~told'
  PROVE  ~told
<1>1. CASE Push \/ Age \/ Developer
  <2>1. CASE Push \/ Age \/ DevCommit
    BY <2>1 DEF Push, Age, DevCommit
  <2>2. ASSUME NEW f \in Files, DevEdit(f) \/ DevStage(f) \/ \E c \in Commits : DevPatch(f, c)
        PROVE  ~told
    BY <2>2 DEF DevEdit, DevStage, DevPatch
  <2> QED BY <1>1, <2>1, <2>2 DEF Developer
<1>2. CASE StartApply \/ ReadStatus \/ ReadRemote \/ Fetch \/ Settle \/ Applicable \/ CheckFails
            \/ Compare \/ AdvanceFails \/ RunStep \/ StepFails \/ RbStatus \/ RbRestoreFails
  BY <1>2 DEF StartApply, ReadStatus, ReadRemote, Fetch, Settle, Applicable, CheckFails,
     Compare, AdvanceFails, RunStep, StepFails, RbStatus, RbRestoreFails
<1>3. CASE Stage \/ AsideSweep \/ AsideMove \/ AsideCheckout \/ Advance \/ Unstage
            \/ RbStash \/ RbReset \/ RbCheckout \/ RbUnstage \/ RbUnlink
  BY <1>3 DEF Stage, AsideSweep, AsideMove, AsideCheckout, Advance, Unstage, RbStash, RbReset,
     RbCheckout, RbUnstage, RbUnlink
<1>4. CASE AsideFails
  BY <1>4, Zenon DEF AsideFails
<1>5. CASE RbFails \/ RbSteps
  BY <1>5, Zenon DEF RbFails, RbSteps
<1> QED BY <1>1, <1>2, <1>3, <1>4, <1>5 DEF SuNext, ApplyStep

LEMMA BuildKnownHolds ==
  ASSUME SuCore, BuildKnown, SuNext
  PROVE  BuildKnown'
<1> SUFFICES ASSUME ~told', pc' \notin RollingBack \cup {"steps"} PROVE built' = head'.base
  BY DEF BuildKnown
<1>0. ~told /\ (pc \notin RollingBack \cup {"steps"} => built = head.base)
  BY ToldStays DEF SuCore, BuildKnown
<1>1. CASE Push \/ Age
  BY <1>0, <1>1 DEF Push, Age, treeVars
<1>2. CASE Developer
  <2>1. CASE DevCommit
    <3>1. head'.base = head.base
      BY <2>1 DEF DevCommit, SuCore, TypeNamed, Heads
    <3> QED BY <1>0, <2>1, <3>1 DEF DevCommit
  <2>2. ASSUME NEW f \in Files, DevEdit(f) \/ DevStage(f) \/ \E c \in Commits : DevPatch(f, c)
        PROVE  built' = head'.base
    BY <1>0, <2>2 DEF DevEdit, DevStage, DevPatch
  <2> QED BY <1>2, <2>1, <2>2 DEF Developer
<1>3. CASE StartApply \/ ReadStatus \/ ReadRemote \/ Fetch \/ Settle \/ Applicable \/ CheckFails
            \/ Compare \/ AdvanceFails
  <2>1. built' = built /\ head' = head /\ pc \notin RollingBack \cup {"steps"}
    BY <1>3 DEF StartApply, ReadStatus, ReadRemote, Fetch, Settle, Applicable, CheckFails,
       Compare, AdvanceFails, treeVars, RollingBack
  <2> QED BY <1>0, <2>1
<1>4. CASE Stage \/ AsideSweep \/ AsideMove \/ AsideCheckout \/ AsideFails \/ Unstage
  <2>1. built' = built /\ head' = head /\ pc \notin RollingBack \cup {"steps"}
    BY <1>4 DEF Stage, AsideSweep, AsideMove, AsideCheckout, AsideFails, Unstage, RollingBack
  <2> QED BY <1>0, <2>1
<1>5. CASE RunStep \/ RbSteps
  <2>1. head' = head
    BY <1>5 DEF RunStep, RbSteps, treeVars
  <2>2. pc' \in RollingBack \cup {"steps"} \/ built' = head.base \/ told' = TRUE
    BY <1>5, Zenon DEF RunStep, RbSteps, GotoWith, RollingBack
  <2> QED BY <2>1, <2>2
<1>6. CASE RbFails
  BY <1>6 DEF RbFails
<1>7. CASE Advance \/ StepFails \/ RbStatus \/ RbStash \/ RbReset \/ RbCheckout \/ RbUnstage
            \/ RbUnlink \/ RbRestoreFails
  BY <1>7 DEF Advance, StepFails, RbStatus, RbStash, RbReset, RbCheckout, RbUnstage, RbUnlink,
     RbRestoreFails, GoesTo, GotoWith, RollingBack
<1> QED BY <1>1, <1>2, <1>3, <1>4, <1>5, <1>6, <1>7, StepKinds DEF ReadingSteps, WritingSteps

LEMMA CopiesKnownHolds ==
  ASSUME SuCore, CopiesKnown, SuNext
  PROVE  CopiesKnown'
<1>0. Programs \subseteq Files /\ copies \in [Programs -> Contents] /\ moving \subseteq Programs
  BY SourceUpdateConstants DEF SuCore, TypeNamed
<1>1. CASE Push \/ Age
  BY <1>1 DEF Push, Age, treeVars, asideVars, CopiesKnown
<1>2. CASE Developer
  <2>1. CASE DevCommit
    BY <2>1 DEF DevCommit, asideVars, CopiesKnown
  <2>2. ASSUME NEW f \in Files, DevEdit(f) \/ DevStage(f) \/ \E c \in Commits : DevPatch(f, c)
        PROVE  CopiesKnown'
    BY <2>2 DEF DevEdit, DevStage, DevPatch, asideVars, CopiesKnown
  <2> QED BY <1>2, <2>1, <2>2 DEF Developer
<1>3. CASE ReadingSteps
  <2>1. UNCHANGED <<moving, copies>>
    BY <1>3, ReadingStepsRead DEF ReadsOnly
  <2>2. pc # "asideBack" /\ pc' # "asideBack"
    <3>1. CASE StartApply \/ ReadStatus \/ ReadRemote \/ Fetch \/ Settle \/ Applicable \/ CheckFails
                \/ Compare \/ AdvanceFails
      BY <3>1 DEF StartApply, ReadStatus, ReadRemote, Fetch, Settle, Applicable, CheckFails, Compare,
         AdvanceFails, GoesTo, GotoWith, End
    <3>2. CASE RunStep \/ StepFails \/ RbStatus \/ RbFails \/ RbRestoreFails \/ RbSteps
      BY <3>2 DEF RunStep, StepFails, RbStatus, RbFails, RbRestoreFails, RbSteps, GoesTo, GotoWith, End
    <3> QED BY <1>3, <3>1, <3>2 DEF ReadingSteps
  <2> QED BY <2>1, <2>2 DEF CopiesKnown
<1>4. CASE AsideMove
  <2>1. PICK moved \in SUBSET {f \in Programs : work[f] # Absent} :
           /\ moving' = moved
           /\ copies' = [f \in Programs |-> IF f \in moved THEN work[f] ELSE copies[f]]
           /\ pc' = IF moved = {} THEN "advance" ELSE "asideBack"
    BY <1>4 DEF AsideMove, GoesTo
  <2> QED BY <2>1 DEF CopiesKnown
<1>5. CASE AsideCheckout \/ AsideFails
  <2>1. moving' = {} /\ pc' # "asideBack"
    BY <1>5 DEF AsideCheckout, AsideFails, GoesTo, End
  <2> QED BY <2>1 DEF CopiesKnown
<1>6. CASE Stage \/ AsideSweep \/ Advance \/ Unstage
            \/ RbStash \/ RbReset \/ RbCheckout \/ RbUnstage \/ RbUnlink
  <2>1. moving' = moving /\ pc # "asideBack" /\ pc' # "asideBack"
    BY <1>6 DEF Stage, AsideSweep, Advance, Unstage, RbStash, RbReset, RbCheckout, RbUnstage, RbUnlink,
       asideVars, GoesTo, End
  <2> QED BY <2>1 DEF CopiesKnown
<1> QED BY <1>1, <1>2, <1>3, <1>4, <1>5, <1>6, StepKinds DEF WritingSteps

\* MissingKnown of one program.
MissingIsKnown(f) ==
    work[f] = Absent /\ ~(pc = "asideBack" /\ f \in moving)
        => BlobIn(f, head) = Absent /\ index[f] = Absent

LEMMA MissingKnownHolds ==
  ASSUME SuCore, MissingKnown, CopiesKnown, LandedKnown, SuNext
  PROVE  MissingKnown'
<1> SUFFICES ASSUME ~told', NEW f \in Programs \ deleted' PROVE MissingIsKnown(f)'
  BY DEF MissingKnown, MissingIsKnown
<1>1. deleted \subseteq deleted'
  <2>1. CASE Push \/ Age \/ DevCommit
    BY <2>1 DEF Push, Age, DevCommit, devVars
  <2>2. ASSUME NEW g \in Files, DevEdit(g) \/ DevStage(g) \/ \E c \in Commits : DevPatch(g, c)
        PROVE  deleted \subseteq deleted'
    BY <2>2 DEF DevEdit, DevStage, DevPatch, devVars
  <2>3. CASE ReadingSteps
    BY <2>3, ReadingStepsRead DEF ReadsOnly
  <2>4. CASE WritingSteps
    BY <2>4, WritingStepsWrite
  <2> QED BY <2>1, <2>2, <2>3, <2>4, StepKinds DEF Developer
<1>2. ~told /\ f \in Programs \ deleted /\ f \in Files
  BY <1>1, ToldStays, SourceUpdateConstants DEF SuCore
<1>3. MissingIsKnown(f)
  BY <1>2 DEF MissingKnown, MissingIsKnown
<1>4. /\ TypeNamed /\ head \in Heads(tip) /\ head.base \in Commits /\ tip \in Commits /\ run.cur \in Heads(tip)
      /\ index \in [Files -> Contents] /\ work \in [Files -> Contents]
      /\ copies \in [Programs -> Contents] /\ moving \subseteq Programs /\ Own # Absent
  BY SourceUpdateConstants DEF SuCore, TypeNamed, Runs, Heads, Commits, Own, Absent
<1>5. pc # "asideBack" => moving = {}
  BY DEF CopiesKnown
<1>a. CASE Push \/ Age
  BY <1>3, <1>a DEF Push, Age, treeVars, asideVars, MissingIsKnown
<1>b. CASE ReadingSteps
  <2>1. UNCHANGED <<head, index, work, moving>>
    BY <1>b, ReadingStepsRead DEF ReadsOnly
  <2>2. pc # "asideBack"
    BY <1>b DEF ReadingSteps, StartApply, ReadStatus, ReadRemote, Fetch, Settle, Applicable, CheckFails,
       Compare, AdvanceFails, RunStep, StepFails, RbStatus, RbFails, RbRestoreFails, RbSteps
  <2> QED BY <1>3, <2>1, <2>2 DEF MissingIsKnown
<1>c. CASE Developer
  <2>1. ASSUME NEW g \in Files, DevEdit(g) PROVE MissingIsKnown(f)'
    <3>1. work' = [work EXCEPT ![g] = Own] /\ UNCHANGED <<head, index, moving, pc>>
      BY <2>1 DEF DevEdit, asideVars
    <3> QED BY <1>2, <1>3, <1>4, <3>1 DEF MissingIsKnown
  <2>2. ASSUME NEW g \in Files, DevStage(g) PROVE MissingIsKnown(f)'
    <3>1. index' = [index EXCEPT ![g] = Own] /\ work[g] = Own /\ UNCHANGED <<head, work, moving, pc>>
      BY <2>2 DEF DevStage, asideVars
    <3> QED BY <1>2, <1>3, <1>4, <3>1 DEF MissingIsKnown
  <2>3. ASSUME NEW g \in Files, NEW c \in Commits, DevPatch(g, c) PROVE MissingIsKnown(f)'
    <3>1. work' = [work EXCEPT ![g] = Blob(g, c)] /\ UNCHANGED <<head, index, moving, pc>>
          /\ (Blob(g, c) = Absent => g \in deleted')
      BY <2>3 DEF DevPatch, asideVars
    <3> QED BY <1>2, <1>3, <1>4, <3>1 DEF MissingIsKnown
  <2>4. CASE DevCommit
    <3>1. /\ \A g \in Files : index[g] \in {BlobIn(g, head), Own}
          /\ head' = [head EXCEPT !.own = {g \in Files : index[g] = Own}]
          /\ UNCHANGED <<index, work, moving, pc>>
      BY <2>4 DEF DevCommit, asideVars
    <3>2. head'.base = head.base /\ head'.own = {g \in Files : index[g] = Own}
      BY <1>4, <3>1 DEF Heads
    <3> QED BY <1>2, <1>3, <1>4, <3>1, <3>2 DEF MissingIsKnown, BlobIn
  <2> QED BY <1>c, <2>1, <2>2, <2>3, <2>4 DEF Developer
<1>d. CASE Stage
  <2>1. /\ index' = [g \in Files |-> IF g \in run.landed THEN work[g] ELSE index[g]]
        /\ UNCHANGED <<head, work, moving>> /\ pc # "asideBack"
    BY <1>d DEF Stage, asideVars
  <2> QED BY <1>2, <1>3, <1>4, <2>1 DEF MissingIsKnown
<1>e. CASE AsideSweep
  <2>1. UNCHANGED <<head, index, work, moving>> /\ pc # "asideBack"
    BY <1>e DEF AsideSweep
  <2> QED BY <1>3, <2>1 DEF MissingIsKnown
<1>f. CASE AsideMove
  <2>1. PICK moved \in SUBSET Programs :
           /\ moving' = moved /\ pc' = (IF moved = {} THEN "advance" ELSE "asideBack") /\ pc # "asideBack"
           /\ work' = [g \in Files |-> IF g \in moved THEN Absent ELSE work[g]] /\ UNCHANGED <<head, index>>
    BY <1>f DEF AsideMove, GoesTo
  <2> QED BY <1>2, <1>3, <1>4, <2>1 DEF MissingIsKnown
<1>g. CASE AsideCheckout
  <2>1. /\ moving' = {} /\ head' = head /\ pc' # "asideBack"
        /\ index' = [g \in Files |-> IF g \in moving THEN BlobIn(g, head) ELSE index[g]]
        /\ work' = [g \in Files |-> IF g \in moving THEN BlobIn(g, head) ELSE work[g]]
    BY <1>g DEF AsideCheckout, GoesTo
  <2> QED BY <1>2, <1>3, <1>4, <2>1 DEF MissingIsKnown
<1>h. CASE AsideFails
  <2>1. PICK back \in SUBSET moving :
           /\ work' = [g \in Files |-> IF g \in back THEN copies[g] ELSE work[g]]
           /\ told' = (told \/ back # moving)
    BY <1>h, Zenon DEF AsideFails
  <2>2. back = moving
    BY <2>1
  <2>3. UNCHANGED <<head, index>> /\ pc = "asideBack"
    BY <1>h DEF AsideFails
  <2>4. \A g \in moving : copies[g] # Absent
    BY <2>3 DEF CopiesKnown
  <2> QED BY <1>2, <1>3, <1>4, <2>1, <2>2, <2>3, <2>4 DEF MissingIsKnown
<1>i. CASE Advance
  <2> DEFINE to == AdvanceTo
  <2>1. pc # "asideBack" /\ pc' # "asideBack"
    BY <1>i DEF Advance, GoesTo
  <2>2. CASE UNCHANGED <<head, index, work>>
    BY <1>3, <2>1, <2>2 DEF MissingIsKnown
  <2>3. CASE ~UNCHANGED <<head, index, work>>
    <3>1. /\ CanFastForward(to) /\ head' = [base |-> to, own |-> {}]
          /\ index' = [g \in Files |-> IF Blob(g, head.base) # Blob(g, to) /\ index[g] = Blob(g, head.base)
                                      THEN Blob(g, to) ELSE index[g]]
          /\ work' = [g \in Files |-> IF Blob(g, head.base) # Blob(g, to) /\ work[g] = Blob(g, head.base)
                                     THEN Blob(g, to) ELSE work[g]]
      BY <1>i, <2>3 DEF Advance
    <3> HIDE DEF to
    <3>2. head.own = {} /\ (Blob(f, head.base) # Blob(f, to) =>
             \/ index[f] = Blob(f, head.base) /\ work[f] = index[f]
             \/ index[f] = Blob(f, to))
      BY <1>2, <3>1, Zenon DEF CanFastForward, AheadOfHead
    <3>3. BlobIn(f, head) = Blob(f, head.base) /\ BlobIn(f, head)' = Blob(f, to)
      BY <3>1, <3>2 DEF BlobIn
    <3> QED BY <1>2, <1>3, <1>4, <2>1, <3>1, <3>2, <3>3 DEF MissingIsKnown
  <2> QED BY <2>2, <2>3
<1>j. CASE Unstage
  <2>1. /\ \/ index' = [g \in Files |-> IF g \in run.landed THEN BlobIn(g, head) ELSE index[g]]
           \/ index' = index
        /\ UNCHANGED <<head, work, moving>> /\ pc # "asideBack"
    BY <1>j DEF Unstage, asideVars
  <2> QED BY <1>2, <1>3, <1>4, <2>1 DEF MissingIsKnown
<1>k. CASE RbStash \/ RbReset
  <2>1. \E h \in Heads(tip) : head' = h /\ index' = TreeOf(h) /\ work' = TreeOf(h)
    BY <1>4, <1>k DEF RbStash, RbReset
  <2> QED BY <1>2, <1>4, <2>1, TreeType DEF MissingIsKnown
<1>l. CASE RbCheckout
  <2>1. /\ index' = [g \in Files |-> IF g \in Kept THEN Blob(g, run.target) ELSE index[g]]
        /\ work' = [g \in Files |-> IF g \in Kept THEN Blob(g, run.target) ELSE work[g]]
        /\ UNCHANGED <<head, moving>> /\ pc # "asideBack"
    BY <1>l DEF RbCheckout, asideVars
  <2> QED BY <1>2, <1>3, <1>4, <2>1 DEF MissingIsKnown, Kept
<1>m. CASE RbUnstage
  <2>1. /\ index' = [g \in Files |-> IF g \in Kept THEN BlobIn(g, head) ELSE index[g]]
        /\ UNCHANGED <<head, work, moving>> /\ pc # "asideBack"
    BY <1>m DEF RbUnstage, asideVars
  <2> QED BY <1>2, <1>3, <1>4, <2>1 DEF MissingIsKnown
<1>n. CASE RbUnlink
  <2>1. PICK stay \in SUBSET (run.landed \ Kept) :
           work' = [g \in Files |-> IF g \in run.landed \ (Kept \cup stay) THEN Absent ELSE work[g]]
    BY <1>n DEF RbUnlink
  <2>3. UNCHANGED <<head, index, moving>> /\ pc # "asideBack"
    BY <1>n DEF RbUnlink, asideVars
  <2>2. f \notin run.landed \ Kept
    BY <1>2 DEF Kept, LandedKnown
  <2> QED BY <1>2, <1>3, <1>4, <2>1, <2>2, <2>3 DEF MissingIsKnown
<1> QED BY <1>a, <1>b, <1>c, <1>d, <1>e, <1>f, <1>g, <1>h, <1>i, <1>j, <1>k, <1>l, <1>m, <1>n, StepKinds
        DEF WritingSteps

\* Which steps change the target and the edits the update took as its own.
LEMMA TargetAndLanded ==
  ASSUME SuCore, SuNext
  PROVE  \/ UNCHANGED <<run.target, run.landed>>
         \/ run' = NoRun /\ pc' = "idle"
         \/ Fetch /\ run'.landed = run.landed /\ pc' = "settle"
         \/ Applicable /\ run'.target = run.target /\ run'.landed = Dirty /\ pc' = "stage"
            /\ EditsAlreadyIn(run.target)
<1>0. /\ tip \in Commits /\ run \in Runs(tip) /\ head \in Heads(tip) /\ tip \in 0 .. tip
      /\ aged \in 0 .. tip /\ Dirty \in SUBSET Files /\ run.seen \in 0 .. tip
      /\ TypeNamed
  BY SourceUpdateConstants DEF SuCore, TypeNamed, Commits, Dirty, Runs
<1>1. CASE Fetch
  <2>1. \/ run' = NoRun /\ pc' = "idle"
        \/ pc' = "settle" /\ \E t \in 0 .. tip : run' = [run EXCEPT !.target = t]
    BY <1>0, <1>1 DEF Fetch, GotoWith, End
  <2>2. ASSUME NEW t \in 0 .. tip, run' = [run EXCEPT !.target = t] PROVE run'.landed = run.landed
    BY <1>0, <2>2 DEF Runs
  <2> QED BY <1>1, <2>1, <2>2
<1>2. CASE Applicable
  <2>1. \/ UNCHANGED run
        \/ run' = NoRun /\ pc' = "idle"
        \/ pc' = "stage" /\ run' = [run EXCEPT !.landed = Dirty] /\ EditsAlreadyIn(run.target)
    BY <1>2 DEF Applicable, GoesTo, GotoWith, End
  <2>2. run' = [run EXCEPT !.landed = Dirty] => run'.target = run.target /\ run'.landed = Dirty
    BY <1>0 DEF Runs
  <2> QED BY <1>2, <2>1, <2>2
<1>3. CASE ReadStatus
  <2>1. run' = [run EXCEPT !.cur = head, !.dirty = Dirty # {}]
    BY <1>3 DEF ReadStatus, GotoWith
  <2>2. run'.target = run.target /\ run'.landed = run.landed
    BY <1>0, <2>1 DEF Runs
  <2> QED BY <2>2
<1>4. CASE ReadRemote
  <2>1. run' = [run EXCEPT !.seen = tip]
    BY <1>4 DEF ReadRemote, GotoWith
  <2> QED BY <1>0, <2>1 DEF Runs
<1>5. CASE RunStep \/ StepFails \/ RbSteps
  <2>1. \/ run' = NoRun /\ pc' = "idle"
        \/ run' = [run EXCEPT !.step = run.step + 1]
        \/ run' = [run EXCEPT !.step = 1]
    BY <1>5 DEF RunStep, StepFails, RbSteps, GotoWith, End
  <2>2. ASSUME NEW k, run' = [run EXCEPT !.step = k] PROVE UNCHANGED <<run.target, run.landed>>
    BY <1>0, <2>2 DEF Runs
  <2> QED BY <2>1, <2>2
<1>6. CASE StartApply \/ Settle \/ CheckFails \/ Compare \/ AdvanceFails
            \/ RbStatus \/ RbFails \/ RbRestoreFails
  BY <1>6 DEF StartApply, Settle, CheckFails, Compare, AdvanceFails, RbStatus, RbFails, RbRestoreFails,
     GoesTo, End
<1>7. CASE WritingSteps
  BY <1>7 DEF WritingSteps, Stage, AsideSweep, AsideMove, AsideCheckout, AsideFails, Advance, Unstage,
     RbStash, RbReset, RbCheckout, RbUnstage, RbUnlink, GoesTo, End
<1>8. CASE Push \/ Age \/ DevCommit
  BY <1>8 DEF Push, Age, DevCommit
<1>9. CASE Developer
  <2>1. ASSUME NEW f \in Files, DevEdit(f) \/ DevStage(f) \/ \E c \in Commits : DevPatch(f, c)
        PROVE  run' = run
    BY <2>1 DEF DevEdit, DevStage, DevPatch
  <2> QED BY <1>8, <1>9, <2>1 DEF Developer
<1> QED BY <1>1, <1>2, <1>3, <1>4, <1>5, <1>6, <1>7, <1>8, <1>9, StepKinds DEF ReadingSteps

\* An apply enters its check only from rest, and every apply ends with nothing remembered.
Checking == {"idle", "status", "remote", "fetch", "settle", "applicable"}

LEMMA CheckComesFirst ==
  ASSUME SuNext, pc' \in Checking, run' # NoRun
  PROVE  pc \in Checking
<1>1. CASE Push \/ Age \/ DevCommit
  BY <1>1 DEF Push, Age, DevCommit
<1>2. ASSUME NEW f \in Files, DevEdit(f) \/ DevStage(f) \/ \E c \in Commits : DevPatch(f, c)
      PROVE  pc \in Checking
  BY <1>2 DEF DevEdit, DevStage, DevPatch
<1>3. CASE StartApply \/ ReadStatus \/ ReadRemote \/ Fetch \/ Settle \/ Applicable \/ CheckFails
  BY <1>3 DEF StartApply, ReadStatus, ReadRemote, Fetch, Settle, Applicable, CheckFails, Checking
<1>4. CASE Compare \/ AdvanceFails \/ RunStep \/ StepFails
            \/ RbStatus \/ RbFails \/ RbRestoreFails \/ RbSteps
  BY <1>4 DEF Compare, AdvanceFails, RunStep, StepFails, RbStatus, RbFails, RbRestoreFails, RbSteps,
     GoesTo, GotoWith, End, Checking
<1>5. CASE WritingSteps
  BY <1>5 DEF WritingSteps, Stage, AsideSweep, AsideMove, AsideCheckout, AsideFails, Advance, Unstage,
     RbStash, RbReset, RbCheckout, RbUnstage, RbUnlink, GoesTo, End, Checking
<1> QED BY <1>1, <1>2, <1>3, <1>4, <1>5, StepKinds DEF ReadingSteps, Developer

LEMMA DeletedGrows ==
  ASSUME SuNext
  PROVE  deleted \subseteq deleted'
<1>1. CASE Push \/ Age \/ DevCommit
  BY <1>1 DEF Push, Age, DevCommit, devVars
<1>2. ASSUME NEW g \in Files, DevEdit(g) \/ DevStage(g) \/ \E c \in Commits : DevPatch(g, c)
      PROVE  deleted \subseteq deleted'
  BY <1>2 DEF DevEdit, DevStage, DevPatch, devVars
<1>3. CASE ReadingSteps
  BY <1>3, ReadingStepsRead DEF ReadsOnly
<1>4. CASE WritingSteps
  BY <1>4, WritingStepsWrite
<1> QED BY <1>1, <1>2, <1>3, <1>4, StepKinds DEF Developer

LEMMA LandedKnownHolds ==
  ASSUME SuCore, MissingKnown, CopiesKnown, LandedKnown, SuNext
  PROVE  LandedKnown'
<1>1. pc' \in Checking => run'.landed = {}
  <2>1. NoRun.landed = {}
    BY DEF NoRun
  <2>2. pc \in Checking => run.landed = {}
    BY DEF LandedKnown, Checking
  <2> QED BY <2>1, <2>2, CheckComesFirst, TargetAndLanded DEF Checking
<1>2. ASSUME ~told', NEW f \in run'.landed \cap Programs, Blob(f, run'.target) = Absent PROVE f \in deleted'
  <2>0. ~told /\ deleted \subseteq deleted'
    BY <1>2, ToldStays, DeletedGrows DEF SuCore
  <2>1. CASE UNCHANGED <<run.target, run.landed>>
    BY <1>2, <2>0, <2>1 DEF LandedKnown
  <2>2. CASE run' = NoRun
    BY <1>2, <2>2 DEF NoRun
  <2>3. CASE Fetch /\ run'.landed = run.landed
    <3>1. run'.landed = {}
      BY <2>3 DEF Fetch, LandedKnown
    <3> QED BY <1>2, <3>1
  <2>4. CASE Applicable /\ run'.target = run.target /\ run'.landed = Dirty /\ EditsAlreadyIn(run.target)
    <3>1. f \in Dirty /\ index[f] = BlobIn(f, head) /\ work[f] = Absent
      BY <1>2, <2>4 DEF EditsAlreadyIn
    <3>2. pc # "asideBack"
      BY <2>4 DEF Applicable
    <3>3. CASE f \notin deleted
      BY <1>2, <2>0, <3>1, <3>2, <3>3 DEF MissingKnown, Dirty
    <3> QED BY <2>0, <3>3
  <2> QED BY <2>1, <2>2, <2>3, <2>4, TargetAndLanded
<1> QED BY <1>1, <1>2 DEF LandedKnown, Checking

---------------------------------------------------------------------------------------
\* Once the check is over, a cooldown's target is one that has aged.
TargetKnown ==
    cooldown /\ pc \notin {"idle", "status", "remote", "fetch"} => run.target <= aged

\* The cooldown is the engine's for good, and commits only grow older.
LEMMA RemoteGrows ==
  ASSUME SuCore, SuNext
  PROVE  cooldown' = cooldown /\ aged <= aged' /\ aged' \in Int
<1>0. aged \in Int /\ aged <= aged
  BY SourceUpdateConstants DEF SuCore, TypeNamed
<1>1. CASE Push \/ Age
  BY <1>0, <1>1 DEF Push, Age
<1>2. CASE DevCommit
  BY <1>0, <1>2 DEF DevCommit, remoteVars
<1>3. ASSUME NEW g \in Files, DevEdit(g) \/ DevStage(g) \/ \E c \in Commits : DevPatch(g, c)
      PROVE  cooldown' = cooldown /\ aged' = aged
  BY <1>3 DEF DevEdit, DevStage, DevPatch, remoteVars
<1>4. CASE ReadingSteps
  BY <1>0, <1>4, ReadingStepsRead DEF ReadsOnly
<1>5. CASE WritingSteps
  BY <1>0, <1>5, WritingStepsWrite
<1> QED BY <1>0, <1>1, <1>2, <1>3, <1>4, <1>5, StepKinds DEF Developer

LEMMA TargetKnownHolds ==
  ASSUME SuCore, TargetKnown, SuNext
  PROVE  TargetKnown'
<1> SUFFICES ASSUME cooldown', pc' \notin {"idle", "status", "remote", "fetch"}
             PROVE  run'.target <= aged'
  BY DEF TargetKnown
<1>0. /\ aged \in Int /\ run.target \in Int /\ run.seen \in 0 .. tip /\ run \in Runs(tip) /\ tip \in Nat
      /\ aged \in 0 .. tip
  BY SourceUpdateConstants DEF SuCore, TypeNamed, Runs, Commits
<1>1. cooldown' = cooldown /\ aged <= aged' /\ aged' \in Int
  BY RemoteGrows
<1>c. cooldown
  BY <1>1, Zenon
<1>2. CASE Fetch
  <2>1. ~BehindHead(IF ~BehindHead(run.seen) THEN aged ELSE run.seen)
        /\ run' = [run EXCEPT !.target = IF ~BehindHead(run.seen) THEN aged ELSE run.seen]
        /\ aged' = aged
    BY <1>c, <1>2, Zenon DEF Fetch, GotoWith, End, remoteVars
  <2>2. run' = [run EXCEPT !.target = aged]
    BY <2>1
  <2> QED BY <1>0, <2>1, <2>2 DEF Runs
<1>3. CASE ~Fetch
  <2>1. run' # NoRun \/ pc' # "idle"
    OBVIOUS
  <2>2. run'.target = run.target
    BY <1>3, TargetAndLanded
  <2>3. pc \notin {"idle", "status", "remote", "fetch"}
    <3>1. CASE Push \/ Age \/ DevCommit
      BY <3>1 DEF Push, Age, DevCommit
    <3>2. ASSUME NEW f \in Files, DevEdit(f) \/ DevStage(f) \/ \E c \in Commits : DevPatch(f, c)
          PROVE  pc' = pc
      BY <3>2 DEF DevEdit, DevStage, DevPatch
    <3>3. CASE ReadingSteps
      BY <1>3, <3>3 DEF ReadingSteps, StartApply, ReadStatus, ReadRemote, Settle, Applicable, CheckFails,
         Compare, AdvanceFails, RunStep, StepFails, RbStatus, RbFails, RbRestoreFails, RbSteps,
         GoesTo, GotoWith, End
    <3>4. CASE WritingSteps
      BY <3>4 DEF WritingSteps, Stage, AsideSweep, AsideMove, AsideCheckout, AsideFails, Advance, Unstage,
         RbStash, RbReset, RbCheckout, RbUnstage, RbUnlink
    <3> QED BY <3>1, <3>2, <3>3, <3>4, StepKinds DEF Developer
  <2>4. run.target <= aged
    BY <1>c, <2>3 DEF TargetKnown
  <2> QED BY <1>0, <1>1, <2>2, <2>4
<1> QED BY <1>2, <1>3

\* What the rollback's restore has put back: the kept files from its checkout on, the
\* deleted ones when it is through.
IsRestored(f) == work[f] \in {Blob(f, run.target), Own}
RestoredKnown ==
    /\ pc \in {"rbUnstage", "rbUnlink"} => \A f \in Kept : IsRestored(f)
    /\ pc = "rbSteps" => \A f \in run.landed : IsRestored(f)

LEMMA RestoredKnownHolds ==
  ASSUME SuCore, RestoredKnown, SuNext
  PROVE  RestoredKnown'
<1>0. /\ run \in Runs(tip) /\ run.landed \subseteq Files /\ work \in [Files -> Contents]
      /\ Kept \subseteq run.landed
  BY DEF SuCore, TypeNamed, Runs, Kept
<1>1. CASE pc' \notin {"rbUnstage", "rbUnlink", "rbSteps"}
  BY <1>1 DEF RestoredKnown
<1>2. CASE pc' \in {"rbUnstage", "rbUnlink", "rbSteps"}
  <2>1. UNCHANGED <<run.target, run.landed>>
    BY <1>2, TargetAndLanded
  <2>2. Kept' = Kept
    BY <2>1 DEF Kept
  <2>3. CASE pc' = pc /\ \A f \in Files : work'[f] = work[f] \/ work'[f] = Own
    <3>1. \A f \in Files : IsRestored(f) => IsRestored(f)'
      BY <2>1, <2>3 DEF IsRestored
    <3> QED BY <1>0, <2>1, <2>2, <2>3, <3>1 DEF RestoredKnown
  <2>4. CASE Push \/ Age \/ DevCommit
    <3>1. pc' = pc /\ work' = work
      BY <2>4 DEF Push, Age, DevCommit, treeVars
    <3> QED BY <2>3, <3>1
  <2>5. ASSUME NEW f \in Files, DevEdit(f) \/ DevStage(f) \/ \E c \in Commits : DevPatch(f, c)
        PROVE  RestoredKnown'
    <3>1. pc' = pc /\ \A g \in Files : work'[g] = work[g] \/ work'[g] = Own
      BY <1>0, <1>2, <2>5 DEF DevEdit, DevStage, DevPatch
    <3> QED BY <2>3, <3>1
  <2>6. CASE ReadingSteps
    <3>1. pc' = pc
      BY <1>2, <2>6 DEF ReadingSteps, StartApply, ReadStatus, ReadRemote, Fetch, Settle, Applicable,
         CheckFails, Compare, AdvanceFails, RunStep, StepFails, RbStatus, RbFails, RbRestoreFails, RbSteps,
         GoesTo, GotoWith, End
    <3>2. work' = work
      BY <2>6, ReadingStepsRead DEF ReadsOnly
    <3> QED BY <2>3, <3>1, <3>2
  <2>7. CASE RbReset
    <3>1. run.landed = {} /\ pc' = "rbSteps"
      BY <1>2, <2>7 DEF RbReset, GoesTo
    <3> QED BY <2>1, <3>1 DEF RestoredKnown
  <2>8. CASE RbCheckout
    <3>1. /\ work' = [f \in Files |-> IF f \in Kept THEN Blob(f, run.target) ELSE work[f]] /\ pc' = "rbUnstage"
      BY <2>8 DEF RbCheckout, GoesTo
    <3>2. \A f \in Kept : IsRestored(f)'
      BY <1>0, <2>1, <3>1 DEF IsRestored
    <3> QED BY <2>2, <3>1, <3>2 DEF RestoredKnown
  <2>9. CASE RbUnstage
    <3>1. work' = work /\ pc = "rbUnstage" /\ pc' = "rbUnlink"
      BY <2>9 DEF RbUnstage, GoesTo
    <3> QED BY <2>1, <2>2, <3>1 DEF RestoredKnown, IsRestored
  <2>10. CASE RbUnlink
    <3>1. PICK stay \in SUBSET (run.landed \ Kept) :
             /\ work' = [f \in Files |-> IF f \in run.landed \ (Kept \cup stay) THEN Absent ELSE work[f]]
             /\ pc = "rbUnlink" /\ pc' = IF stay = {} THEN "rbSteps" ELSE "rbBare"
      BY <2>10 DEF RbUnlink, GoesTo
    <3>2. CASE stay # {}
      BY <3>1, <3>2 DEF RestoredKnown
    <3>3. CASE stay = {}
      <4>1. /\ work' = [f \in Files |-> IF f \in run.landed \ Kept THEN Absent ELSE work[f]]
            /\ pc = "rbUnlink" /\ pc' = "rbSteps"
        BY <3>1, <3>3
      <4>2. \A f \in Kept : IsRestored(f)'
        BY <1>0, <2>1, <4>1 DEF RestoredKnown, IsRestored
      <4>3. \A f \in run.landed \ Kept : IsRestored(f)'
        BY <1>0, <2>1, <4>1 DEF IsRestored, Kept
      <4> QED BY <2>1, <4>1, <4>2, <4>3 DEF RestoredKnown
    <3> QED BY <3>2, <3>3
  <2>11. CASE Stage \/ AsideSweep \/ AsideMove \/ AsideCheckout \/ AsideFails \/ Advance \/ Unstage \/ RbStash
    BY <1>2, <2>11 DEF Stage, AsideSweep, AsideMove, AsideCheckout, AsideFails, Advance, Unstage, RbStash,
       GoesTo, End
  <2> QED BY <2>4, <2>5, <2>6, <2>7, <2>8, <2>9, <2>10, <2>11, StepKinds DEF WritingSteps, Developer
<1> QED BY <1>1, <1>2

---------------------------------------------------------------------------------------
\* The invariant of the update: its types and where own content is, where the edits are, and
\* what is known of the build, the programs, the landed edits, the target and the restore.
SuInv ==
    /\ SuCore
    /\ EditsKept
    /\ BuildKnown
    /\ MissingKnown /\ CopiesKnown /\ LandedKnown
    /\ TargetKnown
    /\ RestoredKnown

LEMMA SuInvInit ==
  ASSUME SuInit
  PROVE  SuInv
<1>1. /\ tip = 0 /\ aged = 0 /\ 0 \in Commits /\ 0 \in 0 .. tip /\ head = [base |-> 0, own |-> {}]
      /\ cooldown \in BOOLEAN
  BY SourceUpdateConstants DEF SuInit, Commits
<1>2. tip \in Commits /\ head \in Heads(tip) /\ head.own = {} /\ head.base = 0
  BY <1>1 DEF Heads
<1>3. /\ index \in [Files -> Contents] /\ work \in [Files -> Contents]
      /\ \A f \in Files : index[f] = BlobIn(f, head) /\ work[f] = BlobIn(f, head) /\ BlobIn(f, head) # Own
  BY <1>2, TreeType, BlobInType DEF SuInit
<1>4. run = NoRun /\ run \in Runs(tip) /\ run.cur.own = {} /\ run.cur.base = 0 /\ run.landed = {}
  BY <1>2, NoRunType DEF SuInit, NoRun
<1>5. /\ stash = {} /\ copies = [f \in Programs |-> Absent] /\ moving = {} /\ built = 0 /\ pc = "idle"
      /\ written = {} /\ late = {} /\ deleted = {} /\ told = FALSE
  BY DEF SuInit
<1>6. Absent \in Contents /\ Absent # Own /\ Programs \subseteq Files
  BY SourceUpdateConstants DEF Contents, Absent, Own
<1>7. TypeNamed
  BY <1>1, <1>2, <1>3, <1>4, <1>5, <1>6 DEF TypeNamed
<1>8. SuCore
  BY <1>2, <1>3, <1>4, <1>5, <1>6, <1>7 DEF SuCore, OwnIsWritten, CommittedIsStashed
<1>9. EditsKept /\ CopiesKnown /\ TargetKnown /\ RestoredKnown
  BY <1>5 DEF EditsKept, Seen, CopiesKnown, TargetKnown, RestoredKnown
<1>10. BuildKnown /\ LandedKnown
  BY <1>2, <1>4, <1>5 DEF BuildKnown, LandedKnown
<1>11. MissingKnown
  BY <1>3, <1>5, <1>6 DEF MissingKnown
<1> QED BY <1>8, <1>9, <1>10, <1>11 DEF SuInv

LEMMA SuInvInductive ==
  ASSUME SuInv, [SuNext]_suVars
  PROVE  SuInv'
<1>1. CASE SuNext
  BY <1>1, CoreHolds, EditsKeptHolds, BuildKnownHolds, MissingKnownHolds, CopiesKnownHolds,
     LandedKnownHolds, TargetKnownHolds, RestoredKnownHolds DEF SuInv
<1>2. CASE UNCHANGED suVars
  <2>1. UNCHANGED <<cooldown, tip, aged, head, index, work, stash, copies, moving, built, pc, run, written, late,
                    deleted, told>>
    BY <1>2 DEF suVars, remoteVars, treeVars, devVars
  <2>2. SuCore'
    BY <2>1 DEF SuInv, SuCore, TypeNamed, OwnIsWritten, CommittedIsStashed
  <2>3. EditsKept' /\ BuildKnown' /\ MissingKnown'
    BY <2>1 DEF SuInv, EditsKept, Seen, BuildKnown, MissingKnown
  <2>4. CopiesKnown' /\ LandedKnown' /\ RestoredKnown' /\ TargetKnown'
    BY <2>1, Zenon DEF SuInv, CopiesKnown, LandedKnown, TargetKnown, RestoredKnown, Kept, IsRestored
  <2> QED BY <2>2, <2>3, <2>4 DEF SuInv
<1> QED BY <1>1, <1>2

\* What the invariant says of the checkout.
LEMMA SuInvMeaning ==
  ASSUME SuInv
  PROVE  SuTypeOK /\ EditsSurvive /\ HalfUpdatedIsReported
<1>1. SuTypeOK
  BY TypeIsNamed DEF SuInv, SuCore
<1>2. EditsSurvive
  BY DEF EditsSurvive, SuInv, SuCore, OwnIsWritten, EditsKept, Seen, Reachable
<1>3. HalfUpdatedIsReported
  <2> SUFFICES ASSUME pc = "idle", ~told
               PROVE  /\ built = head.base
                      /\ \A f \in Programs \ deleted : ~(work[f] = Absent /\ index[f] # Absent)
    BY DEF HalfUpdatedIsReported
  <2>1. built = head.base
    BY DEF SuInv, BuildKnown, RollingBack
  <2>2. \A f \in Programs \ deleted : ~(work[f] = Absent /\ index[f] # Absent)
    BY DEF SuInv, MissingKnown
  <2> QED BY <2>1, <2>2
<1> QED BY <1>1, <1>2, <1>3

LEMMA SuInvHolds == SuSpec => []SuInv
<1>1. SuInit => SuInv
  BY SuInvInit
<1>2. SuInv /\ [SuNext]_suVars => SuInv'
  BY SuInvInductive
<1> QED BY <1>1, <1>2, PTL DEF SuSpec

\* A rollback whose restore ran ends with the landed edits back.
LEMMA RollbackGivesBack ==
  ASSUME SuInv, [SuNext]_suVars
  PROVE  [pc = "rbSteps" /\ pc' = "idle" =>
             \A f \in run.landed : work[f] \in {Blob(f, run.target), Own}]_suVars
BY DEF SuInv, RestoredKnown, IsRestored

\* HEAD moves forward only by the advance, and then to the check's target.
LEMMA AdvanceIsAged ==
  ASSUME SuInv, [SuNext]_suVars
  PROVE  [cooldown /\ head'.base > head.base => head'.base <= aged]_suVars
<1> SUFFICES ASSUME SuNext, cooldown, head'.base > head.base PROVE head'.base <= aged
  OBVIOUS
<1>0. head.base \in Int /\ ~(head.base > head.base) /\ run.cur.base \in Int /\ run.cur.base <= head.base
  BY SourceUpdateConstants DEF SuInv, SuCore, TypeNamed, Heads, Runs, CommittedIsStashed
<1>1. head' # head
  BY <1>0
<1>2. Advance \/ DevCommit \/ RbReset
  <2>1. ~ReadingSteps
    BY <1>1, ReadingStepsRead DEF ReadsOnly
  <2>2. ~(Push \/ Age)
    BY <1>1 DEF Push, Age, treeVars
  <2>3. ~(\E f \in Files : DevEdit(f) \/ DevStage(f) \/ \E c \in Commits : DevPatch(f, c))
    BY <1>1 DEF DevEdit, DevStage, DevPatch
  <2>4. ~(Stage \/ AsideSweep \/ AsideMove \/ AsideCheckout \/ AsideFails \/ Unstage \/ RbStash
            \/ RbCheckout \/ RbUnstage \/ RbUnlink)
    BY <1>1 DEF Stage, AsideSweep, AsideMove, AsideCheckout, AsideFails, Unstage, RbStash,
       RbCheckout, RbUnstage, RbUnlink
  <2> QED BY <2>1, <2>2, <2>3, <2>4, StepKinds DEF WritingSteps, Developer
<1>3. CASE Advance
  <2>1. head' = [base |-> AdvanceTo, own |-> {}] /\ pc = "advance"
    BY <1>1, <1>3 DEF Advance
  <2>2. AdvanceTo = run.target
    BY Zenon DEF AdvanceTo
  <2>3. run.target <= aged
    BY <2>1 DEF SuInv, TargetKnown
  <2> QED BY <2>1, <2>2, <2>3
<1>4. CASE DevCommit
  BY <1>0, <1>4 DEF DevCommit, SuInv, SuCore, TypeNamed, Heads
<1>5. CASE RbReset
  BY <1>0, <1>5 DEF RbReset
<1> QED BY <1>2, <1>3, <1>4, <1>5

\* For any history of the branch, any developer and any failing command: a checkout at rest
\* nothing was reported about has the build of its HEAD, and no program file is missing that
\* the developer did not delete or stage as deleted.
THEOREM HalfUpdatesAreReported == SuSpec => []HalfUpdatedIsReported
<1>1. SuInv => HalfUpdatedIsReported
  BY SuInvMeaning
<1> QED BY <1>1, SuInvHolds, PTL

\* For any number of files and commits, no update destroys an edit made at a moment the
\* engine still looks at the tree.
THEOREM EditsAreNeverLost == SuSpec => []EditsSurvive
<1>1. SuInv => EditsSurvive
  BY SuInvMeaning
<1> QED BY <1>1, SuInvHolds, PTL

\* A rollback whose restore ran ends with every landed edit back, or newer.
THEOREM RollbackRestores == SuSpec => LandedEditsComeBack
<1>1. SuInv /\ [SuNext]_suVars =>
         [pc = "rbSteps" /\ pc' = "idle" =>
             \A f \in run.landed : work[f] \in {Blob(f, run.target), Own}]_suVars
  BY RollbackGivesBack
<1> QED BY <1>1, SuInvHolds, PTL DEF SuSpec, LandedEditsComeBack

\* A commit the cooldown holds back is never HEAD's, whatever is pushed meanwhile.
THEOREM CooldownIsKept == SuSpec => HeldBackIsNotAdopted
<1>1. SuInv /\ [SuNext]_suVars => [cooldown /\ head'.base > head.base => head'.base <= aged]_suVars
  BY AdvanceIsAged
<1> QED BY <1>1, SuInvHolds, PTL DEF SuSpec, HeldBackIsNotAdopted

---------------------------------------------------------------------------------------
\* Until an apply has swapped in what another one was extracting, no file is incomplete, whatever
\* was moved aside runs, and without an executable there is one moved aside. A candidate that its
\* apply has checked, and no other apply has put another in its place, is whole.
NothingPartial ==
    mangled \/ /\ exe # Partial
               /\ \A o \in olds : Works(o[2])
               /\ exe = NoFile => olds # {}
CandidateReady ==
    /\ \A a \in Appliers :
           where[a] \in {"checking", "moved"} /\ stagedBy = {a} => staged = NoFile \/ whole
    /\ \A a \in swapping : where[a] = "moved"
    /\ running = NoFile => \A a \in Appliers : where[a] = "idle"
RuInv == RuTypeOK /\ NothingPartial /\ CandidateReady

\* The files a version, no file and a half-moved file are told apart by.
LEMMA FilesDiffer ==
  /\ NoFile \notin Versions /\ Partial \notin Versions /\ NoFile # Partial
  /\ \A v \in OnDisk : v # NoFile /\ v # Partial => Works(v)
  /\ \A v : Works(v) <=> v \in Versions
BY ReleaseUpdateConstants DEF NoFile, Partial, Versions, OnDisk, Works

LEMMA RuInvInit == RuInit => RuInv
<1> SUFFICES ASSUME RuInit PROVE RuInv
  OBVIOUS
<1>1. 0 \in Versions /\ 0 \in 0 .. 0
  BY ReleaseUpdateConstants DEF Versions
<1>2. RuTypeOK
  BY <1>1 DEF RuInit, RuTypeOK, OnDisk
<1>3. NothingPartial /\ CandidateReady
  BY <1>1, FilesDiffer DEF RuInit, NothingPartial, CandidateReady
<1> QED BY <1>2, <1>3 DEF RuInv

LEMMA MixUpsTyped ==
  ASSUME RuTypeOK, [RuNext]_ruVars
  PROVE  stagedBy' \in SUBSET Appliers /\ mangled' \in BOOLEAN
<1>1. stagedBy' \in {stagedBy, {}} \cup {{a} : a \in Appliers}
  BY DEF RuNext, PublishRelease, LetThrough, CheckRelease, Resolve, Download, Verify, Extract, SelfCheck,
     ApplyFails, MoveAside, MoveIn, Finish, PutBack, Die, Boot, ruVars, mixUps
<1>2. mangled' = mangled \/ \E a \in Appliers : MoveIn(a)
  BY DEF RuNext, PublishRelease, LetThrough, CheckRelease, Resolve, Download, Verify, Extract, SelfCheck,
     ApplyFails, MoveAside, Finish, PutBack, Die, Boot, ruVars, mixUps
<1>3. ASSUME NEW a \in Appliers, MoveIn(a) PROVE mangled' \in BOOLEAN
  <2>1. mangled' = (mangled \/ (~whole /\ stagedBy # {a}))
    BY <1>3 DEF MoveIn
  <2> QED BY <2>1
<1> QED BY <1>1, <1>2, <1>3 DEF RuTypeOK

LEMMA RuTypeInductive ==
  ASSUME RuTypeOK, [RuNext]_ruVars
  PROVE  RuTypeOK'
<1>0. stagedBy' \in SUBSET Appliers /\ mangled' \in BOOLEAN
  BY MixUpsTyped
<1>1. CASE PublishRelease \/ LetThrough
  <2>1. latest' \in Versions /\ adoptable' \in 0 .. latest'
    BY <1>1, ReleaseUpdateConstants DEF PublishRelease, LetThrough, RuTypeOK, Versions
  <2>2. UNCHANGED <<running, exe, olds, staged, whole, where, offered, swapping>>
    BY <1>1 DEF PublishRelease, LetThrough, diskVars
  <2> QED BY <1>0, <2>1, <2>2 DEF RuTypeOK
<1>2. CASE Die
  BY <1>0, <1>2 DEF Die, netVars, diskVars, RuTypeOK
<1>3. CASE Boot
  <2>1. /\ staged' = NoFile /\ whole' = FALSE /\ running' = exe /\ exe \in Versions /\ olds' \subseteq olds
        /\ UNCHANGED <<latest, adoptable, exe, where, offered, swapping>>
    BY <1>3, FilesDiffer DEF Boot, netVars
  <2> QED BY <1>0, <2>1 DEF RuTypeOK
<1>4. ASSUME NEW a \in Appliers, CheckRelease(a) \/ Resolve(a) \/ SelfCheck(a) \/ ApplyFails(a)
      PROVE  RuTypeOK'
  <2>1. PICK l \in {"idle", "resolve", "download", "checking"} : where' = [where EXCEPT ![a] = l]
    BY <1>4 DEF CheckRelease, Resolve, SelfCheck, ApplyFails, MoveTo
  <2>2. /\ UNCHANGED <<latest, adoptable, running, exe, olds, staged, whole, swapping>>
        /\ offered' \in [Appliers -> Versions]
    BY <1>4, ReleaseUpdateConstants
       DEF CheckRelease, Resolve, SelfCheck, ApplyFails, netVars, diskVars, RuTypeOK, Versions
  <2> QED BY <1>0, <2>1, <2>2 DEF RuTypeOK
<1>5. ASSUME NEW a \in Appliers, Download(a) \/ Verify(a) \/ Extract(a) \/ Finish(a)
      PROVE  RuTypeOK'
  <2>1. PICK l \in {"idle", "verify", "extract", "extracted"} : where' = [where EXCEPT ![a] = l]
    BY <1>5 DEF Download, Verify, Extract, Finish, MoveTo
  <2>2. /\ UNCHANGED <<latest, adoptable, running, olds, offered, swapping>>
        /\ staged' \in Versions \cup {NoFile} /\ exe' \in OnDisk
    BY <1>5 DEF Download, Verify, Extract, Finish, netVars, RuTypeOK, OnDisk
  <2>3. whole' \in BOOLEAN
    <3>1. whole' = FALSE \/ whole' = (staged # NoFile)
      BY <1>5, Zenon DEF Download, Verify, Extract, Finish
    <3> QED BY <3>1
  <2> QED BY <1>0, <2>1, <2>2, <2>3 DEF RuTypeOK
<1>6. ASSUME NEW a \in Appliers, MoveAside(a) PROVE RuTypeOK'
  <2>1. /\ olds' = olds \cup {<<a, exe>>} /\ exe' = NoFile /\ exe # NoFile /\ swapping' = {a}
        /\ where' = [where EXCEPT ![a] = "moved"]
        /\ UNCHANGED <<latest, adoptable, running, staged, whole, offered>>
    BY <1>6 DEF MoveAside, MoveTo, netVars
  <2> QED BY <1>0, <2>1 DEF RuTypeOK, OnDisk
<1>7. ASSUME NEW a \in Appliers, MoveIn(a) PROVE RuTypeOK'
  <2>1. /\ exe' = staged \/ exe' = Partial
        /\ staged' = NoFile /\ whole' = FALSE /\ swapping' = {}
        /\ where' = [where EXCEPT ![a] = "chmod"]
        /\ UNCHANGED <<latest, adoptable, running, olds, offered>>
    BY <1>7, Zenon DEF MoveIn, MoveTo, netVars
  <2> QED BY <1>0, <2>1 DEF RuTypeOK, OnDisk
<1>8. ASSUME NEW a \in Appliers, PutBack(a) PROVE RuTypeOK'
  <2>1. PICK v \in Versions \cup {Partial} : exe' = v /\ olds' = olds \ {<<a, v>>}
    BY <1>8 DEF PutBack
  <2>2. /\ swapping' = {} /\ where' = [where EXCEPT ![a] = "idle"]
        /\ UNCHANGED <<latest, adoptable, running, staged, whole, offered>>
    BY <1>8 DEF PutBack, MoveTo, netVars
  <2> QED BY <1>0, <2>1, <2>2 DEF RuTypeOK, OnDisk
<1>9. CASE UNCHANGED ruVars
  BY <1>0, <1>9 DEF ruVars, netVars, diskVars, RuTypeOK
<1> QED BY <1>1, <1>2, <1>3, <1>4, <1>5, <1>6, <1>7, <1>8, <1>9 DEF RuNext

LEMMA RuInvInductive ==
  ASSUME RuInv, [RuNext]_ruVars
  PROVE  RuInv'
<1>0. /\ RuTypeOK /\ NothingPartial /\ CandidateReady /\ RuTypeOK'
  BY RuTypeInductive DEF RuInv
<1>1. CASE PublishRelease \/ LetThrough
  <2>1. UNCHANGED <<running, exe, olds, staged, whole, where, offered, swapping, stagedBy, mangled>>
    BY <1>1 DEF PublishRelease, LetThrough, diskVars, mixUps
  <2> QED BY <1>0, <2>1 DEF RuInv, NothingPartial, CandidateReady
<1>2. CASE Die
  <2>1. /\ where' = [a \in Appliers |-> "idle"] /\ swapping' = {}
        /\ UNCHANGED <<exe, olds, staged, whole, mangled, stagedBy>>
    BY <1>2 DEF Die, diskVars, mixUps
  <2> QED BY <1>0, <2>1 DEF RuInv, NothingPartial, CandidateReady
<1>3. CASE Boot
  <2>1. /\ staged' = NoFile /\ running' = exe /\ exe \in Versions /\ olds' \subseteq olds
        /\ UNCHANGED <<exe, where, swapping, mangled>>
    BY <1>3, FilesDiffer DEF Boot, netVars
  <2>2. NothingPartial'
    BY <1>0, <2>1, FilesDiffer DEF NothingPartial
  <2>3. CandidateReady'
    BY <1>0, <2>1, FilesDiffer DEF CandidateReady
  <2> QED BY <1>0, <2>2, <2>3 DEF RuInv
<1>4. ASSUME NEW a \in Appliers, CheckRelease(a) \/ Resolve(a) \/ ApplyFails(a)
      PROVE  RuInv'
  <2>1. PICK l \in {"idle", "resolve", "download"} : where' = [where EXCEPT ![a] = l]
    BY <1>4 DEF CheckRelease, Resolve, ApplyFails, MoveTo
  <2>2. /\ UNCHANGED <<running, exe, olds, staged, whole, swapping, stagedBy, mangled>>
        /\ running # NoFile /\ swapping = {}
    BY <1>4 DEF CheckRelease, Resolve, ApplyFails, diskVars, Runnable, mixUps
  <2>3. NothingPartial'
    BY <1>0, <2>2 DEF NothingPartial
  <2>4. CandidateReady'
    BY <1>0, <2>1, <2>2 DEF RuTypeOK, CandidateReady
  <2> QED BY <1>0, <2>3, <2>4 DEF RuInv
<1>5. ASSUME NEW a \in Appliers, Download(a) \/ Verify(a) PROVE RuInv'
  <2>1. PICK l \in {"verify", "extract"} : where' = [where EXCEPT ![a] = l]
    BY <1>5 DEF Download, Verify, MoveTo
  <2>2. /\ UNCHANGED <<running, exe, olds, swapping, mangled>> /\ running # NoFile
        /\ stagedBy' = {a} /\ swapping = {}
    BY <1>5 DEF Download, Verify, netVars, Runnable
  <2>3. NothingPartial'
    BY <1>0, <2>2 DEF NothingPartial
  <2>4. CandidateReady'
    BY <1>0, <2>1, <2>2 DEF RuTypeOK, CandidateReady
  <2> QED BY <1>0, <2>3, <2>4 DEF RuInv
<1>6. ASSUME NEW a \in Appliers, Extract(a) PROVE RuInv'
  <2>1. /\ where' = [where EXCEPT ![a] = "extracted"] /\ whole' = (staged # NoFile)
        /\ UNCHANGED <<running, olds, staged, swapping, stagedBy, mangled>>
        /\ running # NoFile /\ swapping = {}
    BY <1>6 DEF Extract, MoveTo, netVars, Runnable, mixUps
  <2>2. ~mangled => exe' = exe
    BY <1>0, <1>6 DEF Extract, NothingPartial
  <2>3. NothingPartial'
    BY <1>0, <2>1, <2>2 DEF NothingPartial
  <2>4. CandidateReady'
    <3>1. staged' = NoFile \/ whole'
      BY <2>1
    <3>2. /\ \A b \in swapping' : where'[b] = "moved"
          /\ running' = NoFile => \A b \in Appliers : where'[b] = "idle"
      BY <1>0, <2>1
    <3> QED BY <3>1, <3>2 DEF CandidateReady
  <2> QED BY <1>0, <2>3, <2>4 DEF RuInv
<1>7. ASSUME NEW a \in Appliers, SelfCheck(a) PROVE RuInv'
  <2>1. /\ where' = [where EXCEPT ![a] = IF staged = offered[a] /\ whole THEN "checking" ELSE "idle"]
        /\ UNCHANGED <<running, exe, olds, staged, whole, swapping, stagedBy, mangled>>
        /\ running # NoFile /\ swapping = {}
    BY <1>7 DEF SelfCheck, MoveTo, netVars, diskVars, Runnable, mixUps
  <2>2. NothingPartial'
    BY <1>0, <2>1 DEF NothingPartial
  <2>3. CandidateReady'
    BY <1>0, <2>1 DEF RuTypeOK, CandidateReady
  <2> QED BY <1>0, <2>2, <2>3 DEF RuInv
<1>8. ASSUME NEW a \in Appliers, MoveAside(a) PROVE RuInv'
  <2>1. /\ olds' = olds \cup {<<a, exe>>} /\ exe' = NoFile /\ exe # NoFile /\ swapping' = {a}
        /\ where[a] = "checking" /\ where' = [where EXCEPT ![a] = "moved"] /\ running # NoFile
        /\ UNCHANGED <<running, staged, whole, stagedBy, mangled>>
    BY <1>8 DEF MoveAside, MoveTo, netVars, Runnable, mixUps
  <2>2. NothingPartial'
    <3>1. SUFFICES ASSUME ~mangled PROVE exe' # Partial /\ olds' # {} /\ \A o \in olds' : Works(o[2])
      BY <2>1 DEF NothingPartial
    <3>2. exe' # Partial /\ olds' # {}
      BY <2>1, FilesDiffer
    <3>3. exe \in Versions
      BY <1>0, <2>1, <3>1, FilesDiffer DEF RuTypeOK, NothingPartial
    <3>4. ASSUME NEW o \in olds' PROVE Works(o[2])
      BY <1>0, <2>1, <3>1, <3>3, <3>4, FilesDiffer DEF NothingPartial
    <3> QED BY <3>2, <3>4
  <2>3. CandidateReady'
    BY <1>0, <2>1 DEF RuTypeOK, CandidateReady
  <2> QED BY <1>0, <2>2, <2>3 DEF RuInv
<1>9. ASSUME NEW a \in Appliers, MoveIn(a) PROVE RuInv'
  <2>1. where[a] = "moved" /\ staged # NoFile /\ running # NoFile
    BY <1>0, <1>9 DEF MoveIn, CandidateReady
  <2>2. /\ whole => exe' = staged
        /\ staged' = NoFile /\ swapping' = {}
        /\ where' = [where EXCEPT ![a] = "chmod"]
        /\ mangled' <=> mangled \/ (~whole /\ stagedBy # {a})
        /\ UNCHANGED <<running, olds>>
    BY <1>9, Zenon DEF MoveIn, MoveTo, netVars
  <2>3. ~mangled' => ~mangled /\ whole
    BY <1>0, <2>1, <2>2 DEF CandidateReady
  <2>4. staged \in Versions
    BY <1>0, <2>1 DEF RuTypeOK
  <2>5. NothingPartial'
    BY <1>0, <2>2, <2>3, <2>4, FilesDiffer DEF NothingPartial
  <2>6. CandidateReady'
    BY <1>0, <2>1, <2>2 DEF RuTypeOK, CandidateReady
  <2> QED BY <1>0, <2>5, <2>6 DEF RuInv
<1>10. ASSUME NEW a \in Appliers, Finish(a) PROVE RuInv'
  <2>1. /\ where' = [where EXCEPT ![a] = "idle"] /\ staged' = NoFile
        /\ UNCHANGED <<running, exe, olds, swapping, mangled>>
        /\ running # NoFile /\ swapping = {}
    BY <1>10 DEF Finish, MoveTo, Runnable
  <2>2. NothingPartial'
    BY <1>0, <2>1 DEF NothingPartial
  <2>3. CandidateReady'
    BY <1>0, <2>1 DEF RuTypeOK, CandidateReady
  <2> QED BY <1>0, <2>2, <2>3 DEF RuInv
<1>11. ASSUME NEW a \in Appliers, PutBack(a) PROVE RuInv'
  <2>1. PICK v \in Versions \cup {Partial} : <<a, v>> \in olds /\ exe' = v /\ olds' = olds \ {<<a, v>>}
    BY <1>11 DEF PutBack
  <2>2. ~mangled => v \in Versions
    BY <1>0, <2>1, FilesDiffer DEF NothingPartial
  <2>3. /\ swapping' = {} /\ where' = [where EXCEPT ![a] = "idle"]
        /\ UNCHANGED <<running, staged, whole, stagedBy, mangled>>
    BY <1>11 DEF PutBack, MoveTo, netVars, mixUps
  <2>4. NothingPartial'
    BY <1>0, <2>1, <2>2, <2>3, FilesDiffer DEF NothingPartial
  <2>5. CandidateReady'
    BY <1>0, <2>3 DEF RuTypeOK, CandidateReady
  <2> QED BY <1>0, <2>4, <2>5 DEF RuInv
<1>12. CASE UNCHANGED ruVars
  BY <1>0, <1>12 DEF ruVars, diskVars, mixUps, RuInv, NothingPartial, CandidateReady
<1> QED BY <1>1, <1>2, <1>3, <1>4, <1>5, <1>6, <1>7, <1>8, <1>9, <1>10, <1>11, <1>12 DEF RuNext

LEMMA RuInvMeaning ==
  ASSUME RuInv
  PROVE  RuTypeOK /\ AVersionSurvives
<1>1. CASE mangled
  BY <1>1 DEF RuInv, AVersionSurvives
<1>2. CASE ~mangled /\ exe = NoFile
  <2>1. PICK o \in olds : TRUE
    BY <1>2 DEF RuInv, NothingPartial
  <2> QED BY <1>2, <2>1 DEF RuInv, NothingPartial, AVersionSurvives
<1>3. CASE ~mangled /\ exe # NoFile
  BY <1>3, FilesDiffer DEF RuInv, RuTypeOK, NothingPartial, AVersionSurvives
<1> QED BY <1>1, <1>2, <1>3

\* However many applies there are at once, wherever the process dies a complete program is on
\* disk, unless an apply swapped in the candidate that another was still extracting.
THEOREM AVersionIsLeft == RuSpec => []AVersionSurvives
<1>1. RuInit => RuInv
  BY RuInvInit
<1>2. RuInv /\ [RuNext]_ruVars => RuInv'
  BY RuInvInductive
<1>3. RuInv => AVersionSurvives
  BY RuInvMeaning
<1> QED BY <1>1, <1>2, <1>3, PTL DEF RuSpec
---------------------------------------------------------------------------------------

\* A step of the three parts is a step of one and a stutter of the others.
LEMMA StepOfOnePart ==
  [Next]_<<part, suVars, auVars, ruVars>> => [SuNext]_suVars /\ [AuNext]_auVars /\ [RuNext]_ruVars
BY DEF Next

\* Every variable of the self-update stays in its type, for any number of files, commits,
\* steps, releases, passes and appliers.
THEOREM UpdateTypesHold == Spec => []UpdateTypeOK
<1>1. Init => SuInv /\ AuInv /\ RuTypeOK
  BY SuInvInit, AuInvInductive, RuInvInit DEF Init, RuInv
<1>2. SuInv /\ AuInv /\ RuTypeOK /\ [Next]_<<part, suVars, auVars, ruVars>> => (SuInv /\ AuInv /\ RuTypeOK)'
  BY StepOfOnePart, SuInvInductive, AuInvInductive, RuTypeInductive
<1>3. SuInv /\ AuInv /\ RuTypeOK => UpdateTypeOK
  BY SuInvMeaning, AuInvMeaning DEF UpdateTypeOK
<1> QED BY <1>1, <1>2, <1>3, PTL DEF Spec

\* An update that fails in any of its steps costs neither a local edit nor the installed program,
\* unless an apply of a release swapped in the candidate that another was still extracting.
THEOREM FailuresCostNothing == Spec => []NothingIsLost
<1>1. Init => SuInv /\ RuInv
  BY SuInvInit, RuInvInit DEF Init
<1>2. SuInv /\ RuInv /\ [Next]_<<part, suVars, auVars, ruVars>> => (SuInv /\ RuInv)'
  BY StepOfOnePart, SuInvInductive, RuInvInductive
<1>3. SuInv /\ RuInv => NothingIsLost
  BY SuInvMeaning, RuInvMeaning DEF NothingIsLost
<1> QED BY <1>1, <1>2, <1>3, PTL DEF Spec
=============================================================================
