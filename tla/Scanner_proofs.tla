---------------------------- MODULE Scanner_proofs ----------------------------
(***************************************************************************)
(* Theorems about Scanner, for every forest of directories, roots, caps,   *)
(* depth, concurrency and callers. A walk is honest as long as it neither  *)
(* was cut short nor reached its cap: whatever it has read it came to by a *)
(* shortest way, everything below it has been seen, and what it is done    *)
(* with was found. A walk that then has nothing left to do has found all   *)
(* that its roots lead to.                                                 *)
(***************************************************************************)
EXTENDS Scanner, FiniteSetTheorems, FunctionTheorems, WellFoundedInduction, TLAPS

---------------------------------------------------------------------------------------
(* Scanner: what a walk knows of the directories it has seen. *)

Stages == {"queued", "walking", "settled"}
Active == [dir : Dirs, depth : Nat, at : {"readdir", "describe", "detect"},
            subs : SUBSET (Dirs \X Nat)]

\* Where a directory that was seen and is not done with waits: in the queue, below one that is
\* being looked into, or in flight; before its entries were read (Ahead), or after.
InQueue(s) == {q[1] : q \in s.queue}
Below1(s) == {d \in Dirs : \E a \in s.active : \E x \in a.subs : x[1] = d}
InFlight(s) == {a.dir : a \in s.active}
Unread(s) == {d \in Dirs : \E a \in s.active : a.dir = d /\ a.at = "readdir"}
Waiting(s) == InQueue(s) \cup Below1(s) \cup InFlight(s)
Ahead(s) == InQueue(s) \cup Below1(s) \cup Unread(s)
HasRead(s) == s.seen \ (Ahead(s) \cup s.unread)
FoundIn(s) == {f[1] : f \in s.found}

\* A directory waits in one place.
Apart(s) ==
  /\ \A a, b \in s.active : a.dir = b.dir => a = b
  /\ \A x, y \in s.queue : x[1] = y[1] => x = y
  /\ \A a \in s.active, x \in s.queue : a.dir # x[1]
  /\ \A a, b \in s.active : \A x \in b.subs : x[1] # a.dir
  /\ \A a \in s.active : \A x \in a.subs, y \in s.queue : x[1] # y[1]
  /\ \A a, b \in s.active : \A x \in a.subs, y \in b.subs : x[1] = y[1] => a = b /\ x = y
\* Nothing was found yet where it waits; what is in flight is at one of three places.
Fresh(s) ==
  /\ Waiting(s) \subseteq s.seen \ FoundIn(s)
  /\ FoundIn(s) \subseteq s.seen
  /\ \A a \in s.active :
        /\ a.at = "readdir" => a.subs = {}
        /\ a.at = "detect" => FilesIn[a.dir] = 0 /\ a.dir \in Packages

\* A way of k steps leads down to d, through directories of S only.
Way(S, d, k) ==
  \E way \in [0 .. k -> Dirs] :
     /\ way[k] = d /\ way[0] \in Roots
     /\ \A i \in 1 .. k : way[i] \in Children[way[i - 1]] /\ way[i - 1] \in S
\* The walk came to d by a way of n steps, and there is no shorter one.
Depth(s, d, n) ==
  /\ n \in 0 .. MaxDepth /\ Way(HasRead(s), d, n)
  /\ \A k \in Nat : Way(Dirs, d, k) => n <= k
DepthsAreRight(s) ==
  /\ \A x \in s.queue : Depth(s, x[1], x[2])
  /\ \A a \in s.active : Depth(s, a.dir, a.depth) /\ \A x \in a.subs : Depth(s, x[1], x[2])

\* What was done is done: it was read with all that lies below it, and what is there was found.
GoneThrough(s) ==
  /\ Roots \subseteq s.seen
  /\ s.unread \subseteq s.seen \ Waiting(s)
  /\ \A d \in s.seen \ (Waiting(s) \cup s.unread) : ToFind(d) \subseteq s.found
  /\ \A d \in HasRead(s), k \in Nat : k < MaxDepth /\ Way(Dirs, d, k) => Children[d] \subseteq s.seen
  /\ \A f \in s.found : \E d \in HasRead(s), k \in 0 .. MaxDepth :
        f \in ToFind(d) /\ Way(HasRead(s), d, k)
Honest(s) == DepthsAreRight(s) /\ GoneThrough(s)

Counted(s) ==
  /\ s \in Walk
  /\ IsFiniteSet(s.found) /\ s.collected = Cardinality(s.found) /\ s.collected <= s.limit
Full(s) == s.truncated \/ s.collected >= s.limit
Live(s) ==
  /\ Counted(s) /\ s.stage # "settled" /\ ~s.timedOut
  /\ Apart(s) /\ Fresh(s) /\ (Honest(s) \/ Full(s))
FoundAll(s) == s.found = UNION {ToFind(d) : d \in Levels(s) \ s.unread}
WalkInv(s) ==
  /\ Counted(s)
  /\ s.stage # "settled" => Live(s)
  /\ s.stage = "settled" /\ ~s.truncated /\ ~s.timedOut => FoundAll(s)

---------------------------------------------------------------------------------------
(* Ways. *)

LEMMA WayMono ==
  ASSUME NEW S, NEW T, S \subseteq T, NEW d, NEW k, Way(S, d, k)
  PROVE  Way(T, d, k)
BY DEF Way

LEMMA WayOfRoot == \A S : \A d \in Roots : Way(S, d, 0)
<1> SUFFICES ASSUME NEW S, NEW d \in Roots PROVE Way(S, d, 0)
  OBVIOUS
<1> DEFINE w == [i \in 0 .. 0 |-> d]
<1>1. w \in [0 .. 0 -> Dirs] /\ w[0] = d
  BY ScannerAssumption
<1>2. 1 .. 0 = {}
  OBVIOUS
<1> QED BY <1>1, <1>2 DEF Way

LEMMA WayInDirs ==
  ASSUME NEW S, NEW d, NEW k \in Nat, Way(S, d, k)
  PROVE  d \in Dirs
BY DEF Way

\* A set of naturals that has a member has a first one.
LEMMA FirstExists ==
  ASSUME NEW S \in SUBSET Nat, S # {}
  PROVE  \E x \in S : \A y \in S : x <= y
<1> DEFINE R == {ss \in Nat \X Nat : ss[1] < ss[2]}
<1>1. IsWellFoundedOn(R, Nat)
  BY NatLessThanWellFounded DEF OpToRel
<1>2. \E x \in S : \A y \in S : ~(<<y, x>> \in R)
  <2> HIDE DEF R
  <2> QED BY <1>1, WFMin, Zenon
<1>3. PICK x \in S : \A y \in S : ~(<<y, x>> \in R)
  BY <1>2
<1>4. ASSUME NEW y \in S PROVE x <= y
  <2>1. x \in Nat /\ y \in Nat
    OBVIOUS
  <2>2. ~(<<y, x>> \in R)
    BY <1>3
  <2>3. ~(y < x)
    BY <2>1, <2>2
  <2> QED BY <2>1, <2>3
<1> QED BY <1>4

\* One step more.
LEMMA WayOn ==
  ASSUME NEW S, NEW d \in S, NEW k \in Nat, Way(S, d, k), NEW c \in Children[d], c \in Dirs
  PROVE  Way(S, c, k + 1)
<1>1. PICK w \in [0 .. k -> Dirs] :
        /\ w[k] = d /\ w[0] \in Roots
        /\ \A i \in 1 .. k : w[i] \in Children[w[i - 1]] /\ w[i - 1] \in S
  BY DEF Way
<1> DEFINE v == [i \in 0 .. k + 1 |-> IF i = k + 1 THEN c ELSE w[i]]
<1>2. /\ v \in [0 .. k + 1 -> Dirs] /\ v[k + 1] = c /\ v[0] \in Roots
      /\ \A i \in 0 .. k : v[i] = w[i]
  BY <1>1
<1> HIDE DEF v
<1>3. ASSUME NEW i \in 1 .. k + 1 PROVE v[i] \in Children[v[i - 1]] /\ v[i - 1] \in S
  <2>1. CASE i = k + 1
    BY <1>1, <1>2, <2>1
  <2>2. CASE i # k + 1
    <3>1. i \in 1 .. k /\ i \in 0 .. k /\ i - 1 \in 0 .. k
      BY <2>2
    <3> QED BY <1>1, <1>2, <3>1
  <2> QED BY <2>1, <2>2
<1> QED BY <1>2, <1>3 DEF Way

\* One step less: a way to c that is no root comes from the directory c is in.
LEMMA WayBack ==
  ASSUME NEW c \in Dirs, c \notin Roots, NEW d \in Dirs, c \in Children[d],
         NEW S \in SUBSET Dirs, NEW k \in Nat, Way(S, c, k)
  PROVE  k - 1 \in Nat /\ Way(S, d, k - 1) /\ d \in S
<1>1. PICK w \in [0 .. k -> Dirs] :
        /\ w[k] = c /\ w[0] \in Roots
        /\ \A i \in 1 .. k : w[i] \in Children[w[i - 1]] /\ w[i - 1] \in S
  BY DEF Way
<1>2. k \in 1 .. k /\ k - 1 \in Nat /\ k - 1 \in 0 .. k
  BY <1>1
<1>3. w[k - 1] = d /\ d \in S
  <2>1. w[k - 1] \in Dirs /\ c \in Children[w[k - 1]] /\ w[k - 1] \in S
    BY <1>1, <1>2
  <2> QED BY <2>1, ScannerAssumption
<1> DEFINE v == [i \in 0 .. k - 1 |-> w[i]]
<1>4. /\ v \in [0 .. k - 1 -> Dirs] /\ v[k - 1] = d /\ v[0] \in Roots
      /\ \A i \in 0 .. k - 1 : v[i] = w[i]
  BY <1>1, <1>2, <1>3
<1> HIDE DEF v
<1>5. ASSUME NEW i \in 1 .. k - 1 PROVE v[i] \in Children[v[i - 1]] /\ v[i - 1] \in S
  <2>1. i \in 1 .. k /\ i \in 0 .. k - 1 /\ i - 1 \in 0 .. k - 1
    OBVIOUS
  <2> QED BY <1>1, <1>4, <2>1
<1> QED BY <1>2, <1>3, <1>4, <1>5 DEF Way

\* The first part of a way is one.
LEMMA WayUpTo ==
  ASSUME NEW S, NEW k \in Nat, NEW w \in [0 .. k -> Dirs], w[0] \in Roots,
         \A i \in 1 .. k : w[i] \in Children[w[i - 1]] /\ w[i - 1] \in S, NEW j \in 0 .. k
  PROVE  Way(S, w[j], j)
<1> DEFINE v == [i \in 0 .. j |-> w[i]]
<1>1. /\ v \in [0 .. j -> Dirs] /\ v[j] = w[j] /\ v[0] \in Roots
      /\ \A i \in 0 .. j : v[i] = w[i]
  OBVIOUS
<1> HIDE DEF v
<1>2. ASSUME NEW i \in 1 .. j PROVE v[i] \in Children[v[i - 1]] /\ v[i - 1] \in S
  <2>1. i \in 1 .. k /\ i \in 0 .. j /\ i - 1 \in 0 .. j
    OBVIOUS
  <2> QED BY <1>1, <2>1
<1> QED BY <1>1, <1>2 DEF Way

\* The directories that may be found in.
LEMMA LevelsAreWays ==
  ASSUME NEW s
  PROVE  Levels(s) = {d \in Dirs : \E k \in 0 .. MaxDepth : Way(Dirs \ s.unread, d, k)}
<1>1. ASSUME NEW k \in 0 .. MaxDepth, NEW d \in Dirs
      PROVE  (\E way \in [0 .. k -> Dirs] : way[k] = d /\ IsWay(way, k, s.unread))
             <=> Way(Dirs \ s.unread, d, k)
  <2>1. ASSUME NEW way \in [0 .. k -> Dirs], NEW i \in 1 .. k PROVE way[i - 1] \in Dirs
    <3>1. i - 1 \in 0 .. k
      OBVIOUS
    <3> QED BY <3>1
  <2> QED BY <2>1 DEF IsWay, Way
<1> QED BY <1>1 DEF Levels

\* A walk that has nothing left to do has found what its results say.
LEMMA NothingLeft ==
  ASSUME NEW s, s \in Walk, Honest(s), s.queue = {}, s.active = {}
  PROVE  FoundAll(s)
<1>1. InQueue(s) = {} /\ Below1(s) = {} /\ InFlight(s) = {} /\ Unread(s) = {}
  BY DEF InQueue, Below1, InFlight, Unread
<1>2. Waiting(s) = {} /\ HasRead(s) = s.seen \ s.unread /\ s.seen \subseteq Dirs
  BY <1>1 DEF Waiting, Ahead, HasRead, Walk
<1>3. /\ Roots \subseteq s.seen /\ s.unread \subseteq s.seen
      /\ \A d \in s.seen \ s.unread : ToFind(d) \subseteq s.found
      /\ \A d \in s.seen \ s.unread, k \in Nat :
            k < MaxDepth /\ Way(Dirs, d, k) => Children[d] \subseteq s.seen
      /\ \A f \in s.found : \E d \in s.seen \ s.unread, k \in 0 .. MaxDepth :
            f \in ToFind(d) /\ Way(s.seen \ s.unread, d, k)
  BY <1>2 DEF Honest, GoneThrough
<1> DEFINE S == Dirs \ s.unread
<1>4. ASSUME NEW f \in s.found PROVE \E d \in Levels(s) \ s.unread : f \in ToFind(d)
  <2>1. PICK d \in s.seen \ s.unread, k \in 0 .. MaxDepth :
            f \in ToFind(d) /\ Way(s.seen \ s.unread, d, k)
    BY <1>3
  <2>2. Way(S, d, k) /\ d \in Dirs
    BY <1>2, <2>1, WayMono
  <2> QED BY <2>1, <2>2, LevelsAreWays
<1>5. ASSUME NEW d \in Levels(s) \ s.unread PROVE ToFind(d) \subseteq s.found
  <2>1. PICK k \in 0 .. MaxDepth : Way(S, d, k)
    BY LevelsAreWays
  <2>2. PICK w \in [0 .. k -> Dirs] :
           /\ w[k] = d /\ w[0] \in Roots
           /\ \A i \in 1 .. k : w[i] \in Children[w[i - 1]] /\ w[i - 1] \in S
    BY <2>1 DEF Way
  <2>3. k \in Nat /\ k <= MaxDepth /\ MaxDepth \in Nat
    BY ScannerAssumption
  <2>4. ASSUME NEW j \in 0 .. k, w[j] \notin s.seen PROVE FALSE
    <3> DEFINE Bad == {i \in 0 .. k : w[i] \notin s.seen}
    <3>1. PICK i \in Bad : \A x \in Bad : i <= x
      <4>1. Bad \subseteq Nat /\ Bad # {}
        BY <2>3, <2>4
      <4> QED BY <4>1, FirstExists
    <3>2. i \in 1 .. k /\ i - 1 \in 0 .. k /\ i - 1 \notin Bad
      BY <1>3, <2>2, <2>3, <3>1
    <3>3. w[i - 1] \in s.seen \ s.unread
      BY <2>2, <3>2
    <3>4. Way(Dirs, w[i - 1], i - 1)
      <4>1. Way(S, w[i - 1], i - 1)
        BY <2>2, <2>3, <3>2, WayUpTo
      <4> QED BY <4>1, WayMono
    <3>5. i - 1 \in Nat /\ i - 1 < MaxDepth
      BY <2>3, <3>2
    <3>6. w[i] \in s.seen
      BY <1>3, <2>2, <3>2, <3>3, <3>4, <3>5
    <3> QED BY <3>1, <3>6
  <2>5. d \in s.seen
    BY <2>2, <2>3, <2>4
  <2> QED BY <1>3, <2>5
<1> QED BY <1>4, <1>5 DEF FoundAll

---------------------------------------------------------------------------------------
(* The fields of a walk. *)

LEMMA WalkFields ==
  ASSUME NEW s \in Walk
  PROVE  /\ s.stage \in Stages /\ s.limit \in Limits /\ s.limit \in Nat \ {0}
         /\ s.queue \subseteq Dirs \X Nat /\ s.active \subseteq Active /\ s.seen \subseteq Dirs
         /\ s.found \subseteq Dirs \X Nat /\ s.collected \in Nat /\ s.unread \subseteq Dirs
         /\ \A x \in s.queue : x[1] \in Dirs /\ x[2] \in Nat /\ x = <<x[1], x[2]>>
         /\ \A a \in s.active : a.dir \in Dirs /\ a.depth \in Nat /\ a.subs \subseteq Dirs \X Nat
         /\ \A a \in s.active : \A x \in a.subs : x[1] \in Dirs /\ x[2] \in Nat
         /\ FoundIn(s) \subseteq Dirs /\ InQueue(s) \subseteq Dirs /\ InFlight(s) \subseteq Dirs
<1>1. /\ s.stage \in Stages /\ s.limit \in Limits
      /\ s.queue \subseteq Dirs \X Nat /\ s.active \subseteq Active /\ s.seen \subseteq Dirs
      /\ s.found \subseteq Dirs \X Nat /\ s.collected \in Nat /\ s.unread \subseteq Dirs
  BY DEF Walk, Stages, Active
<1>2. \A x \in Dirs \X Nat : x[1] \in Dirs /\ x[2] \in Nat /\ x = <<x[1], x[2]>>
  OBVIOUS
<1>3. \A a \in Active : a.dir \in Dirs /\ a.depth \in Nat /\ a.subs \subseteq Dirs \X Nat
  BY DEF Active
<1>4. \A a \in s.active : \A x \in a.subs : x \in Dirs \X Nat
  BY <1>1, <1>3
<1>5. FoundIn(s) \subseteq Dirs /\ InQueue(s) \subseteq Dirs /\ InFlight(s) \subseteq Dirs
  BY <1>1, <1>2, <1>3 DEF FoundIn, InQueue, InFlight
<1> QED BY <1>1, <1>2, <1>3, <1>4, <1>5, ScannerAssumption

\* A walk that ends keeps what it reports; what it is to be is given.
LEMMA SettleFields ==
  ASSUME NEW s \in Walk
  PROVE  /\ Settle(s) \in Walk /\ Settle(s).stage = "settled"
         /\ Settle(s).limit = s.limit /\ Settle(s).aborted = s.aborted
         /\ Settle(s).found = s.found /\ Settle(s).collected = s.collected
         /\ Settle(s).unread = s.unread /\ Settle(s).active = s.active
         /\ Settle(s).truncated = s.truncated /\ Settle(s).timedOut = s.timedOut
BY DEF Settle, Walk

LEMMA CutShort ==
  ASSUME NEW s, Counted(s)
  PROVE  /\ [s EXCEPT !.timedOut = TRUE] \in Walk /\ [s EXCEPT !.truncated = TRUE] \in Walk
         /\ \A t \in {Settle([s EXCEPT !.timedOut = TRUE]), Settle([s EXCEPT !.truncated = TRUE])} :
               WalkInv(t) /\ t.stage = "settled" /\ t.limit = s.limit /\ t.aborted = s.aborted
<1> DEFINE a == [s EXCEPT !.timedOut = TRUE]
           b == [s EXCEPT !.truncated = TRUE]
<1>1. /\ a \in Walk /\ a.limit = s.limit /\ a.aborted = s.aborted /\ a.found = s.found
      /\ a.collected = s.collected /\ a.timedOut
  BY DEF Counted, Walk
<1>2. /\ b \in Walk /\ b.limit = s.limit /\ b.aborted = s.aborted /\ b.found = s.found
      /\ b.collected = s.collected /\ b.truncated
  BY DEF Counted, Walk
<1> HIDE DEF a, b
<1>3. ASSUME NEW c \in {a, b}
      PROVE  WalkInv(Settle(c)) /\ Settle(c).stage = "settled" /\ Settle(c).limit = s.limit
             /\ Settle(c).aborted = s.aborted
  <2>1. /\ c \in Walk /\ c.limit = s.limit /\ c.aborted = s.aborted /\ c.found = s.found
        /\ c.collected = s.collected /\ (c.timedOut \/ c.truncated)
    BY <1>1, <1>2
  <2>2. /\ Settle(c) \in Walk /\ Settle(c).stage = "settled"
        /\ Settle(c).limit = s.limit /\ Settle(c).aborted = s.aborted
        /\ Settle(c).found = s.found /\ Settle(c).collected = s.collected
        /\ Settle(c).truncated = c.truncated /\ Settle(c).timedOut = c.timedOut
    BY <2>1, SettleFields
  <2>3. Settle(c).timedOut \/ Settle(c).truncated
    BY <2>1, <2>2
  <2>4. Counted(Settle(c))
    BY <2>2 DEF Counted
  <2> QED BY <2>2, <2>3, <2>4 DEF WalkInv
<1> QED BY <1>1, <1>2, <1>3 DEF a, b

\* A depth stays one as more is read.
LEMMA DepthStays ==
  ASSUME NEW s, NEW t, HasRead(s) \subseteq HasRead(t), NEW d, NEW n, Depth(s, d, n)
  PROVE  Depth(t, d, n)
BY WayMono DEF Depth

---------------------------------------------------------------------------------------
(* The pump. *)

Begun(q) == [dir |-> q[1], depth |-> q[2], at |-> "readdir", subs |-> {}]
Fly(s, T) == [s EXCEPT !.queue = @ \ T, !.active = @ \cup {Begun(q) : q \in T}]

LEMMA FlyFields ==
  ASSUME NEW s \in Walk, NEW T \in SUBSET s.queue
  PROVE  /\ Fly(s, T) \in Walk /\ Fly(s, T).queue = s.queue \ T
         /\ Fly(s, T).active = s.active \cup {Begun(q) : q \in T}
         /\ Fly(s, T).stage = s.stage /\ Fly(s, T).limit = s.limit
         /\ Fly(s, T).aborted = s.aborted /\ Fly(s, T).seen = s.seen
         /\ Fly(s, T).found = s.found /\ Fly(s, T).collected = s.collected
         /\ Fly(s, T).truncated = s.truncated /\ Fly(s, T).timedOut = s.timedOut
         /\ Fly(s, T).unread = s.unread
<1>1. \A q \in s.queue : q[1] \in Dirs /\ q[2] \in Nat
  BY WalkFields
<1>2. {} \in SUBSET (Dirs \X Nat)
  OBVIOUS
<1>3. \A q \in T : Begun(q) \in Active
  BY <1>1, <1>2 DEF Begun, Active
<1>4. s.active \cup {Begun(q) : q \in T} \in SUBSET Active /\ s.queue \ T \in SUBSET (Dirs \X Nat)
  BY <1>3, WalkFields
<1> HIDE DEF Begun
<1> QED BY <1>4 DEF Fly, Walk, Active

LEMMA BegunFields ==
  ASSUME NEW q
  PROVE  Begun(q).dir = q[1] /\ Begun(q).depth = q[2] /\ Begun(q).at = "readdir"
         /\ Begun(q).subs = {}
BY DEF Begun

LEMMA FlyKeeps ==
  ASSUME NEW s \in Walk, Apart(s), Fresh(s), NEW T \in SUBSET s.queue
  PROVE  /\ Apart(Fly(s, T)) /\ Fresh(Fly(s, T))
         /\ Waiting(Fly(s, T)) = Waiting(s) /\ HasRead(Fly(s, T)) = HasRead(s)
         /\ Honest(s) => Honest(Fly(s, T))
<1> DEFINE t == Fly(s, T)
<1>1. /\ t \in Walk /\ t.queue = s.queue \ T /\ t.active = s.active \cup {Begun(q) : q \in T}
      /\ t.seen = s.seen /\ t.found = s.found /\ t.unread = s.unread
  BY FlyFields
<1> HIDE DEF t
<1>2. /\ \A q : Begun(q).dir = q[1] /\ Begun(q).depth = q[2] /\ Begun(q).at = "readdir"
      /\ \A q : Begun(q).subs = {}
  BY BegunFields
<1>3. \A a \in t.active : \/ a \in s.active
                          \/ \E q \in T : a = Begun(q) /\ q \in s.queue
  BY <1>1
<1>4. InQueue(t) \cup InFlight(t) = InQueue(s) \cup InFlight(s)
  <2>1. InQueue(s) = InQueue(t) \cup {q[1] : q \in T}
    BY <1>1 DEF InQueue
  <2>2. InFlight(t) = InFlight(s) \cup {q[1] : q \in T}
    BY <1>1, <1>2 DEF InFlight
  <2> QED BY <2>1, <2>2
<1>5. Below1(t) = Below1(s)
  BY <1>1, <1>2, <1>3 DEF Below1
<1>6. InQueue(t) \cup Unread(t) = InQueue(s) \cup Unread(s)
  <2>1. InQueue(s) = InQueue(t) \cup {q[1] : q \in T}
    BY <1>1 DEF InQueue
  <2>2. \A q \in T : q[1] \in Dirs
    BY WalkFields
  <2>3. Unread(t) = Unread(s) \cup {q[1] : q \in T}
    BY <1>1, <1>2, <1>3, <2>2 DEF Unread
  <2> QED BY <2>1, <2>3
<1>7. Waiting(t) = Waiting(s) /\ Ahead(t) = Ahead(s) /\ HasRead(t) = HasRead(s)
  BY <1>1, <1>4, <1>5, <1>6 DEF Waiting, Ahead, HasRead
<1>8. Apart(t)
  <2>1. \A a, b \in t.active : a.dir = b.dir => a = b
    BY <1>2, <1>3 DEF Apart
  <2>2. \A a \in t.active, x \in t.queue : a.dir # x[1]
    BY <1>1, <1>2, <1>3 DEF Apart
  <2>3. \A a \in t.active : a \in s.active \/ a.subs = {}
    BY <1>2, <1>3
  <2>4. \A a, b \in t.active : \A x \in b.subs : x[1] # a.dir
    BY <1>2, <1>3, <2>3 DEF Apart
  <2>5. \A a \in t.active : \A x \in a.subs, y \in t.queue : x[1] # y[1]
    BY <1>1, <2>3 DEF Apart
  <2>6. \A a, b \in t.active : \A x \in a.subs, y \in b.subs : x[1] = y[1] => a = b /\ x = y
    BY <2>3 DEF Apart
  <2> QED BY <1>1, <2>1, <2>2, <2>4, <2>5, <2>6 DEF Apart
<1>9. Fresh(t)
  <2>1. FoundIn(t) = FoundIn(s)
    BY <1>1 DEF FoundIn
  <2>2. ASSUME NEW a \in t.active
        PROVE  /\ a.at = "readdir" => a.subs = {}
               /\ a.at = "detect" => FilesIn[a.dir] = 0 /\ a.dir \in Packages
    BY <1>2, <1>3 DEF Fresh
  <2> QED BY <1>1, <1>7, <2>1, <2>2 DEF Fresh
<1>10. ASSUME Honest(s) PROVE Honest(t)
  <2>1. \A x \in s.queue : Depth(t, x[1], x[2])
    BY <1>7, <1>10, DepthStays DEF Honest, DepthsAreRight
  <2>2. \A a \in s.active : Depth(t, a.dir, a.depth) /\ \A x \in a.subs : Depth(t, x[1], x[2])
    BY <1>7, <1>10, DepthStays DEF Honest, DepthsAreRight
  <2>3. DepthsAreRight(t)
    BY <1>1, <1>2, <1>3, <2>1, <2>2 DEF DepthsAreRight
  <2>4. GoneThrough(t)
    BY <1>1, <1>7, <1>10 DEF Honest, GoneThrough
  <2> QED BY <2>3, <2>4 DEF Honest
<1> QED BY <1>7, <1>8, <1>9, <1>10 DEF t

\* What the pump makes of a walk is a walk that goes on, or one that ended as it should.
LEMMA PumpKeeps ==
  ASSUME NEW s, Live(s), NEW late \in BOOLEAN, NEW u \in Pumped(s, late)
  PROVE  WalkInv(u) /\ u.limit = s.limit /\ u.aborted = s.aborted
         /\ u.stage \in {s.stage, "settled"}
<1>1. s \in Walk /\ Counted(s)
  BY DEF Live, Counted
<1>2. CASE late
  <2>1. u = Settle([s EXCEPT !.timedOut = TRUE])
    BY <1>2 DEF Pumped, Live
  <2> QED BY <1>1, <2>1, CutShort
<1>3. CASE ~late /\ s.collected >= s.limit
  <2>1. u = Settle([s EXCEPT !.truncated = TRUE])
    BY <1>3 DEF Pumped, Live
  <2> QED BY <1>1, <2>1, CutShort
<1>4. CASE ~late /\ ~(s.collected >= s.limit)
  <2>1. PICK T \in SUBSET s.queue :
           u = IF Fly(s, T).active = {} /\ Fly(s, T).queue = {} THEN Settle(Fly(s, T)) ELSE Fly(s, T)
    BY <1>4, Zenon DEF Pumped, Live, Fly, Begun
  <2> DEFINE t == Fly(s, T)
  <2>2. /\ t \in Walk /\ t.stage = s.stage /\ t.limit = s.limit /\ t.aborted = s.aborted
        /\ t.found = s.found /\ t.collected = s.collected
        /\ t.truncated = s.truncated /\ t.timedOut = s.timedOut
    BY <1>1, FlyFields
  <2>3. Apart(t) /\ Fresh(t) /\ (Honest(s) => Honest(t))
    BY <1>1, FlyKeeps DEF Live
  <2> HIDE DEF t
  <2>4. Counted(t)
    BY <1>1, <2>2 DEF Counted
  <2>5. Live(t)
    BY <2>2, <2>3, <2>4 DEF Live, Full
  <2>6. CASE t.active = {} /\ t.queue = {}
    <3>1. u = Settle(t)
      BY <2>1, <2>6 DEF t
    <3>2. /\ u \in Walk /\ u.stage = "settled" /\ u.limit = t.limit /\ u.aborted = t.aborted
          /\ u.found = t.found /\ u.collected = t.collected /\ u.unread = t.unread
          /\ u.truncated = t.truncated
      BY <2>2, <3>1, SettleFields
    <3>3. Counted(u)
      BY <2>4, <3>2 DEF Counted
    <3>4. ASSUME ~u.truncated PROVE FoundAll(u)
      <4>1. Honest(t)
        BY <1>4, <2>2, <2>3, <3>2, <3>4 DEF Live, Full
      <4>2. FoundAll(t)
        BY <2>2, <2>6, <4>1, NothingLeft
      <4> QED BY <3>2, <4>2 DEF FoundAll, Levels
    <3> QED BY <2>2, <3>2, <3>3, <3>4 DEF WalkInv
  <2>7. CASE ~(t.active = {} /\ t.queue = {})
    <3>1. u = t
      BY <2>1, <2>7 DEF t
    <3> QED BY <2>2, <2>5, <3>1 DEF WalkInv, Live
  <2> QED BY <2>6, <2>7
<1> QED BY <1>2, <1>3, <1>4

---------------------------------------------------------------------------------------
(* A directory is read, described, looked into and left. *)

\* Where a waits, nothing else does.
LEMMA Alone ==
  ASSUME NEW s \in Walk, Apart(s), Fresh(s), NEW a \in s.active
  PROVE  /\ a.dir \in Dirs /\ a.dir \in s.seen /\ a.dir \in Waiting(s) /\ a.dir \notin FoundIn(s)
         /\ a.dir \notin InQueue(s) /\ a.dir \notin Below1(s)
         /\ \A b \in s.active \ {a} : b.dir # a.dir
         /\ a.dir \in Ahead(s) <=> a.at = "readdir"
<1>1. a.dir \in Dirs /\ a.dir \in InFlight(s)
  BY WalkFields DEF InFlight
<1>2. a.dir \notin InQueue(s) /\ a.dir \notin Below1(s) /\ \A b \in s.active \ {a} : b.dir # a.dir
  BY DEF Apart, InQueue, Below1
<1>3. a.dir \in Unread(s) <=> a.at = "readdir"
  BY <1>1, <1>2 DEF Unread
<1> QED BY <1>1, <1>2, <1>3 DEF Waiting, Ahead, Fresh

LEMMA LeaveKeeps ==
  ASSUME NEW s \in Walk, NEW t \in Walk, Apart(s), Fresh(s), NEW a \in s.active,
         t.active = s.active \ {a}, t.queue = s.queue \cup a.subs, t.seen = s.seen,
         FoundIn(t) \subseteq FoundIn(s) \cup {a.dir}
  PROVE  /\ Apart(t) /\ Fresh(t)
         /\ Waiting(t) = Waiting(s) \ {a.dir} /\ Ahead(t) = Ahead(s) \ {a.dir}
<1>1. /\ a.dir \in Dirs /\ a.dir \in s.seen /\ a.dir \in Waiting(s) /\ a.dir \notin FoundIn(s)
      /\ a.dir \notin InQueue(s) /\ a.dir \notin Below1(s)
      /\ \A b \in s.active \ {a} : b.dir # a.dir
  BY Alone
<1> DEFINE N == {x[1] : x \in a.subs}
<1>2. InQueue(t) = InQueue(s) \cup N
  BY DEF InQueue
<1>3. N \subseteq Dirs /\ N \subseteq Below1(s)
  BY WalkFields DEF Below1
<1>4. Below1(s) = Below1(t) \cup N
  BY <1>3 DEF Below1
<1>5. InFlight(t) = InFlight(s) \ {a.dir} /\ Unread(t) = Unread(s) \ {a.dir}
  BY <1>1 DEF InFlight, Unread
<1>6. Waiting(t) = Waiting(s) \ {a.dir} /\ Ahead(t) = Ahead(s) \ {a.dir}
  BY <1>1, <1>2, <1>3, <1>4, <1>5 DEF Waiting, Ahead
<1>7. Apart(t)
  <2>1. \A x, y \in t.queue : x[1] = y[1] => x = y
    BY DEF Apart
  <2>2. \A c \in t.active, x \in t.queue : c.dir # x[1]
    BY DEF Apart
  <2>3. \A c \in t.active : \A x \in c.subs, y \in t.queue : x[1] # y[1]
    BY DEF Apart
  <2> QED BY <2>1, <2>2, <2>3 DEF Apart
<1>8. Fresh(t)
  BY <1>1, <1>6 DEF Fresh
<1> QED BY <1>6, <1>7, <1>8

LEMMA LeaveHonest ==
  ASSUME NEW s \in Walk, NEW t \in Walk, Apart(s), Fresh(s), Honest(s), NEW a \in s.active,
         t.active = s.active \ {a}, t.queue = s.queue \cup a.subs, t.seen = s.seen,
         FoundIn(t) \subseteq FoundIn(s) \cup {a.dir},
         \/ a.at = "readdir" /\ t.unread = s.unread \cup {a.dir} /\ t.found = s.found
         \/ /\ a.at # "readdir" /\ t.unread = s.unread
            /\ s.found \subseteq t.found /\ ToFind(a.dir) \subseteq t.found
            /\ t.found \subseteq s.found \cup ToFind(a.dir)
  PROVE  Honest(t)
<1>1. Waiting(t) = Waiting(s) \ {a.dir} /\ Ahead(t) = Ahead(s) \ {a.dir}
  BY LeaveKeeps
<1>2. /\ a.dir \in Dirs /\ a.dir \in s.seen /\ a.dir \in Waiting(s)
      /\ a.dir \in Ahead(s) <=> a.at = "readdir"
  BY Alone
<1>3. HasRead(t) = HasRead(s)
  BY <1>1, <1>2 DEF HasRead
<1>4. a.dir \notin s.unread /\ (a.at # "readdir" => a.dir \in HasRead(s))
  BY <1>2 DEF HasRead, Honest, GoneThrough
<1>5. DepthsAreRight(t)
  <2>1. \A x \in s.queue : Depth(t, x[1], x[2])
    BY <1>3, DepthStays DEF Honest, DepthsAreRight
  <2>2. \A b \in s.active : Depth(t, b.dir, b.depth) /\ \A x \in b.subs : Depth(t, x[1], x[2])
    BY <1>3, DepthStays DEF Honest, DepthsAreRight
  <2> QED BY <2>1, <2>2 DEF DepthsAreRight
<1>6. t.unread \subseteq t.seen \ Waiting(t)
  BY <1>1, <1>2 DEF Honest, GoneThrough
<1>7. \A d \in t.seen \ (Waiting(t) \cup t.unread) : ToFind(d) \subseteq t.found
  BY <1>1, <1>2 DEF Honest, GoneThrough
<1>8. ASSUME NEW f \in t.found
      PROVE  \E d \in HasRead(t), k \in 0 .. MaxDepth : f \in ToFind(d) /\ Way(HasRead(t), d, k)
  <2>1. CASE f \in s.found
    BY <1>3, <2>1 DEF Honest, GoneThrough
  <2>2. CASE f \notin s.found
    <3>1. a.dir \in HasRead(t) /\ f \in ToFind(a.dir)
      BY <1>3, <1>4, <1>8, <2>2
    <3>2. a.depth \in 0 .. MaxDepth /\ Way(HasRead(t), a.dir, a.depth)
      BY <1>3 DEF Honest, DepthsAreRight, Depth
    <3> QED BY <3>1, <3>2
  <2> QED BY <2>1, <2>2
<1>9. GoneThrough(t)
  BY <1>3, <1>6, <1>7, <1>8 DEF Honest, GoneThrough
<1> QED BY <1>5, <1>9 DEF Honest

\* The subdirectories of a, each with its depth.
SubsOf(s, a) == Subdirs(s, a) \X {a.depth + 1}

\* readdir() has answered.
LEMMA ReadKeeps ==
  ASSUME NEW s \in Walk, NEW t \in Walk, NEW a \in s.active, a.at = "readdir", NEW b,
         Apart(s), Fresh(s),
         b.dir = a.dir, b.depth = a.depth, b.at = "describe",
         b.subs = SubsOf(s, a),
         t.active = (s.active \ {a}) \cup {b}, t.queue = s.queue,
         t.seen = s.seen \cup Subdirs(s, a), t.found = s.found, t.unread = s.unread
  PROVE  Apart(t) /\ Fresh(t) /\ (Honest(s) => Honest(t))
<1> DEFINE N == Subdirs(s, a)
           n == a.depth
<1>1. /\ a.dir \in Dirs /\ a.dir \in s.seen /\ a.dir \in Waiting(s) /\ a.dir \notin FoundIn(s)
      /\ a.dir \notin InQueue(s) /\ a.dir \notin Below1(s)
      /\ \A c \in s.active \ {a} : c.dir # a.dir
  BY Alone
<1>2. /\ N \subseteq Dirs /\ N \cap s.seen = {} /\ N \subseteq Children[a.dir] /\ n \in Nat
      /\ MaxDepth \in Nat /\ (N # {} => n + 1 <= MaxDepth)
      /\ n + 1 <= MaxDepth => Children[a.dir] \subseteq s.seen \cup N
  BY <1>1, WalkFields, ScannerAssumption DEF Subdirs
<1>3. a.subs = {} /\ Waiting(s) \subseteq s.seen \ FoundIn(s) /\ FoundIn(s) \subseteq s.seen
  BY DEF Fresh
<1> HIDE DEF N, n
<1>4. \A x \in b.subs : x[1] \in N /\ x[2] = n + 1 /\ x = <<x[1], n + 1>>
  BY DEF N, n, SubsOf
<1>5. \A c \in N : <<c, n + 1>> \in b.subs
  BY DEF N, n, SubsOf
<1>6. \A c \in t.active : c \in s.active \/ c = b
  OBVIOUS
<1>7. Below1(t) = Below1(s) \cup N
  <2>1. \A d \in Below1(t) : d \in Below1(s) \cup N
    BY <1>4, <1>6 DEF Below1
  <2>2. \A d \in Below1(s) : d \in Below1(t)
    BY <1>3 DEF Below1
  <2>3. \A d \in N : d \in Below1(t)
    <3> SUFFICES ASSUME NEW d \in N PROVE d \in Below1(t)
      OBVIOUS
    <3>1. <<d, n + 1>>[1] = d /\ b \in t.active
      OBVIOUS
    <3> QED BY <1>2, <1>5, <3>1 DEF Below1
  <2> QED BY <2>1, <2>2, <2>3
<1>8. InFlight(t) = InFlight(s) /\ Unread(t) = Unread(s) \ {a.dir} /\ InQueue(t) = InQueue(s)
  <2>1. InFlight(t) = InFlight(s)
    BY DEF InFlight
  <2>2. Unread(t) = Unread(s) \ {a.dir}
    BY <1>1 DEF Unread
  <2> QED BY <2>1, <2>2 DEF InQueue
<1>9. Waiting(t) = Waiting(s) \cup N /\ Ahead(t) = (Ahead(s) \ {a.dir}) \cup N
  BY <1>1, <1>7, <1>8 DEF Waiting, Ahead
<1>10. t.seen = s.seen \cup N
  BY DEF N
<1>11. ASSUME NEW c \in s.active
       PROVE  c.dir \in Waiting(s) /\ \A x \in c.subs : x[1] \in Waiting(s) /\ x[1] \in Dirs
  BY WalkFields DEF Waiting, InFlight, Below1
<1>12. \A x \in s.queue : x[1] \in Waiting(s)
  BY DEF Waiting, InQueue
<1>13. \A d \in N : d \notin Waiting(s)
  BY <1>2, <1>3
<1>14. Apart(t)
  <2>1. \A c, e \in t.active : c.dir = e.dir => c = e
    BY <1>1, <1>6 DEF Apart
  <2>2. \A c \in t.active, x \in t.queue : c.dir # x[1]
    BY <1>6 DEF Apart
  <2>3. \A c, e \in t.active : \A x \in e.subs : x[1] # c.dir
    BY <1>4, <1>6, <1>11, <1>13 DEF Apart
  <2>4. \A c \in t.active : \A x \in c.subs, y \in t.queue : x[1] # y[1]
    BY <1>4, <1>6, <1>12, <1>13 DEF Apart
  <2>5. \A c, e \in t.active : \A x \in c.subs, y \in e.subs : x[1] = y[1] => c = e /\ x = y
    <3> SUFFICES ASSUME NEW c \in t.active, NEW e \in t.active, NEW x \in c.subs, NEW y \in e.subs,
                        x[1] = y[1]
                 PROVE  c = e /\ x = y
      OBVIOUS
    <3>1. CASE c \in s.active /\ e \in s.active
      BY <3>1 DEF Apart
    <3>2. CASE c = b /\ e = b
      BY <1>4, <3>2
    <3>3. CASE c = b /\ e \in s.active
      BY <1>4, <1>11, <1>13, <3>3
    <3>4. CASE c \in s.active /\ e = b
      BY <1>4, <1>11, <1>13, <3>4
    <3> QED BY <1>6, <3>1, <3>2, <3>3, <3>4
  <2> QED BY <2>1, <2>2, <2>3, <2>4, <2>5 DEF Apart
<1>15. Fresh(t)
  <2>1. FoundIn(t) = FoundIn(s)
    BY DEF FoundIn
  <2>2. Waiting(t) \subseteq t.seen \ FoundIn(t) /\ FoundIn(t) \subseteq t.seen
    BY <1>2, <1>3, <1>9, <1>10, <2>1
  <2>3. \A c \in t.active : /\ c.at = "readdir" => c.subs = {}
                            /\ c.at = "detect" => FilesIn[c.dir] = 0 /\ c.dir \in Packages
    BY <1>6 DEF Fresh
  <2> QED BY <2>2, <2>3 DEF Fresh
<1>16. ASSUME Honest(s) PROVE Honest(t)
  <2>1. a.dir \notin s.unread /\ Roots \subseteq s.seen /\ s.unread \subseteq s.seen \ Waiting(s)
    BY <1>1, <1>16 DEF Honest, GoneThrough
  <2>2. a.dir \in Ahead(s)
    BY Alone
  <2>3. HasRead(t) = HasRead(s) \cup {a.dir}
    BY <1>1, <1>2, <1>9, <1>10, <2>1, <2>2 DEF HasRead
  <2>4. n \in 0 .. MaxDepth /\ Way(HasRead(t), a.dir, n)
        /\ \A k \in Nat : Way(Dirs, a.dir, k) => n <= k
    BY <1>16, <2>3, DepthStays DEF Honest, DepthsAreRight, Depth, n
  <2>5. ASSUME NEW c \in N PROVE Depth(t, c, n + 1)
    <3>1. c \in Dirs /\ c \in Children[a.dir] /\ c \notin Roots
      BY <1>2, <2>1
    <3>2. Way(HasRead(t), c, n + 1)
      BY <1>2, <2>3, <2>4, <3>1, WayOn
    <3>3. ASSUME NEW k \in Nat, Way(Dirs, c, k) PROVE n + 1 <= k
      <4>1. k - 1 \in Nat /\ Way(Dirs, a.dir, k - 1)
        BY <1>1, <3>1, <3>3, WayBack
      <4>2. n <= k - 1
        BY <2>4, <4>1
      <4> QED BY <1>2, <4>1, <4>2
    <3>4. n + 1 \in 0 .. MaxDepth
      BY <1>2
    <3> QED BY <3>2, <3>3, <3>4 DEF Depth
  <2>6. DepthsAreRight(t)
    <3>1. \A x \in s.queue : Depth(t, x[1], x[2])
      BY <1>16, <2>3, DepthStays DEF Honest, DepthsAreRight
    <3>2. \A c \in s.active : Depth(t, c.dir, c.depth) /\ \A x \in c.subs : Depth(t, x[1], x[2])
      BY <1>16, <2>3, DepthStays DEF Honest, DepthsAreRight
    <3>3. \A x \in b.subs : Depth(t, x[1], x[2])
      BY <1>4, <2>5
    <3>4. Depth(t, b.dir, b.depth)
      BY <3>2
    <3> QED BY <1>6, <3>1, <3>2, <3>3, <3>4 DEF DepthsAreRight
  <2>7. ASSUME NEW d \in HasRead(t), NEW k \in Nat, k < MaxDepth, Way(Dirs, d, k)
        PROVE  Children[d] \subseteq t.seen
    <3>1. CASE d = a.dir
      <4>1. n <= k
        BY <2>4, <2>7, <3>1
      <4>2. n + 1 <= MaxDepth
        BY <1>2, <2>7, <4>1
      <4> QED BY <1>2, <1>10, <3>1, <4>2
    <3>2. CASE d # a.dir
      BY <1>10, <1>16, <2>3, <2>7, <3>2 DEF Honest, GoneThrough
    <3> QED BY <3>1, <3>2
  <2>8. ASSUME NEW f \in t.found
        PROVE  \E d \in HasRead(t), k \in 0 .. MaxDepth : f \in ToFind(d) /\ Way(HasRead(t), d, k)
    <3>1. PICK d \in HasRead(s), k \in 0 .. MaxDepth : f \in ToFind(d) /\ Way(HasRead(s), d, k)
      BY <1>16, <2>8 DEF Honest, GoneThrough
    <3> QED BY <2>3, <3>1, WayMono
  <2>9. \A d \in t.seen \ (Waiting(t) \cup t.unread) : ToFind(d) \subseteq t.found
    BY <1>9, <1>10, <1>16 DEF Honest, GoneThrough
  <2>10. Roots \subseteq t.seen /\ t.unread \subseteq t.seen \ Waiting(t)
    BY <1>2, <1>9, <1>10, <2>1
  <2>11. GoneThrough(t)
    BY <2>7, <2>8, <2>9, <2>10 DEF GoneThrough
  <2> QED BY <2>6, <2>11 DEF Honest
<1> QED BY <1>14, <1>15, <1>16

\* From describing to detecting: nothing but that changes.
LEMMA DetectNext ==
  ASSUME NEW s \in Walk, NEW t \in Walk, NEW a \in s.active, a.at = "describe", NEW b,
         Apart(s), Fresh(s), FilesIn[a.dir] = 0, a.dir \in Packages,
         b.dir = a.dir, b.depth = a.depth, b.at = "detect", b.subs = a.subs,
         t.active = (s.active \ {a}) \cup {b}, t.queue = s.queue,
         t.seen = s.seen, t.found = s.found, t.unread = s.unread
  PROVE  Apart(t) /\ Fresh(t) /\ (Honest(s) => Honest(t))
<1>1. \A c \in t.active : c \in s.active \/ c = b
  OBVIOUS
<1>2. \A c \in t.active : \E e \in s.active :
         c.dir = e.dir /\ c.depth = e.depth /\ c.subs = e.subs /\ (c.at = "readdir" => c = e)
  BY <1>1
<1>3. \A e \in s.active : \E c \in t.active :
         c.dir = e.dir /\ c.depth = e.depth /\ c.subs = e.subs /\ (e.at = "readdir" => c = e)
  OBVIOUS
<1>4. /\ InFlight(t) = InFlight(s) /\ Below1(t) = Below1(s) /\ Unread(t) = Unread(s)
      /\ InQueue(t) = InQueue(s) /\ FoundIn(t) = FoundIn(s)
  <2>1. InFlight(t) = InFlight(s)
    BY <1>2, <1>3 DEF InFlight
  <2>2. Below1(t) = Below1(s)
    BY <1>2, <1>3 DEF Below1
  <2>3. Unread(t) = Unread(s)
    BY <1>2, <1>3 DEF Unread
  <2> QED BY <2>1, <2>2, <2>3 DEF InQueue, FoundIn
<1>5. Waiting(t) = Waiting(s) /\ Ahead(t) = Ahead(s) /\ HasRead(t) = HasRead(s)
  BY <1>4 DEF Waiting, Ahead, HasRead
<1>6. \A c \in s.active \ {a} : c.dir # a.dir
  BY Alone
<1>7. Apart(t)
  <2>1. \A c, e \in t.active : c.dir = e.dir => c = e
    BY <1>1, <1>6 DEF Apart
  <2>2. \A c \in t.active, x \in t.queue : c.dir # x[1]
    BY <1>2 DEF Apart
  <2>3. \A c, e \in t.active : \A x \in e.subs : x[1] # c.dir
    BY <1>2 DEF Apart
  <2>4. \A c \in t.active : \A x \in c.subs, y \in t.queue : x[1] # y[1]
    BY <1>2 DEF Apart
  <2>5. \A c, e \in t.active : \A x \in c.subs, y \in e.subs : x[1] = y[1] => c.dir = e.dir /\ x = y
    BY <1>2 DEF Apart
  <2> QED BY <2>1, <2>2, <2>3, <2>4, <2>5 DEF Apart
<1>8. Fresh(t)
  BY <1>1, <1>4, <1>5 DEF Fresh
<1>9. ASSUME Honest(s) PROVE Honest(t)
  <2>1. \A x \in s.queue : Depth(t, x[1], x[2])
    BY <1>5, <1>9, DepthStays DEF Honest, DepthsAreRight
  <2>2. \A c \in s.active : Depth(t, c.dir, c.depth) /\ \A x \in c.subs : Depth(t, x[1], x[2])
    BY <1>5, <1>9, DepthStays DEF Honest, DepthsAreRight
  <2>3. DepthsAreRight(t)
    BY <1>2, <2>1, <2>2 DEF DepthsAreRight
  <2> QED BY <1>5, <1>9, <2>3 DEF Honest, GoneThrough
<1> QED BY <1>7, <1>8, <1>9

\* What a directory leaves behind when it is done with.
Left(s, a, subs) ==
  [s EXCEPT !.active = @ \ {a}, !.queue = IF s.stage = "settled" THEN @ ELSE @ \cup subs]

LEMMA LeftFields ==
  ASSUME NEW s \in Walk, NEW a, NEW subs \in SUBSET (Dirs \X Nat), NEW t, t = Left(s, a, subs)
  PROVE  /\ t \in Walk /\ t.active = s.active \ {a} /\ t.stage = s.stage /\ t.limit = s.limit
         /\ s.stage # "settled" => t.queue = s.queue \cup subs
         /\ t.aborted = s.aborted /\ t.seen = s.seen /\ t.found = s.found
         /\ t.collected = s.collected /\ t.truncated = s.truncated /\ t.timedOut = s.timedOut
         /\ t.unread = s.unread
<1>1. (IF s.stage = "settled" THEN s.queue ELSE s.queue \cup subs) \in SUBSET (Dirs \X Nat)
  BY WalkFields
<1>2. s.active \ {a} \in SUBSET Active
  BY WalkFields
<1> QED BY <1>1, <1>2 DEF Left, Walk, Active

\* A walk that has ended: what is still in flight changes nothing.
LEMMA EndedKeeps ==
  ASSUME NEW s, WalkInv(s), s.stage = "settled", NEW a, NEW subs \in SUBSET (Dirs \X Nat),
         NEW late \in BOOLEAN, NEW u \in Pumped(Left(s, a, subs), late)
  PROVE  WalkInv(u) /\ u.limit = s.limit /\ u.aborted = s.aborted /\ u.stage = "settled"
<1>0. PICK t : t = Left(s, a, subs)
  OBVIOUS
<1>1. s \in Walk /\ Counted(s)
  BY DEF WalkInv, Counted
<1>2. /\ t \in Walk /\ t.stage = s.stage /\ t.limit = s.limit
      /\ t.aborted = s.aborted /\ t.found = s.found
      /\ t.collected = s.collected /\ t.truncated = s.truncated /\ t.timedOut = s.timedOut
      /\ t.unread = s.unread
  BY <1>0, <1>1, LeftFields
<1>3. u = t
  BY <1>0, <1>2 DEF Pumped
<1>4. Counted(t)
  BY <1>1, <1>2 DEF Counted
<1>5. FoundAll(s) => FoundAll(t)
  BY <1>2 DEF FoundAll, Levels
<1> QED BY <1>2, <1>3, <1>4, <1>5 DEF WalkInv

\* n files of one directory more.
FirstOf(d, n) == {d} \X (1 .. n)
NoneOf(S, d) == \A x \in S : x[1] # d

LEMMA SomeMore ==
  ASSUME NEW S, IsFiniteSet(S), NEW d, NoneOf(S, d), NEW n \in Nat,
         NEW T, T = FirstOf(d, n)
  PROVE  IsFiniteSet(S \cup T) /\ Cardinality(S \cup T) = Cardinality(S) + n
<1> DEFINE f == [i \in 1 .. n |-> <<d, i>>]
<1>1. IsFiniteSet(1 .. n) /\ Cardinality(1 .. n) = n
  BY FS_Interval
<1>2. f \in Bijection(1 .. n, T)
  <2>1. f \in [1 .. n -> T] /\ \A i \in 1 .. n : f[i] = <<d, i>>
    BY DEF FirstOf
  <2>2. \A i, j \in 1 .. n : f[i] = f[j] => i = j
    BY <2>1
  <2>3. \A x \in T : \E i \in 1 .. n : f[i] = x
    BY <2>1 DEF FirstOf
  <2> HIDE DEF f
  <2> QED BY <2>1, <2>2, <2>3 DEF Bijection, Injection, Surjection, IsInjective
<1>3. IsFiniteSet(T) /\ Cardinality(T) = n
  BY <1>1, <1>2, FS_Bijection DEF ExistsBijection
<1>4. S \cap T = {}
  BY DEF FirstOf, NoneOf
<1>5. Cardinality({}) = 0 /\ Cardinality(S) \in Nat
  BY FS_EmptySet, FS_CardinalityType
<1>6. IsFiniteSet(S \cup T) /\ Cardinality(S \cup T) = Cardinality(S) + Cardinality(T) - 0
  BY <1>3, <1>4, <1>5, FS_Union
<1> QED BY <1>3, <1>5, <1>6

\* What collectFiles makes of a walk.
LEMMA CollectFields ==
  ASSUME NEW s, Counted(s), NEW a \in s.active, NEW c, c = Collect(s, a)
  PROVE  /\ c \in Walk /\ c.stage = s.stage /\ c.limit = s.limit /\ c.aborted = s.aborted
         /\ c.queue = s.queue /\ c.active = s.active /\ c.seen = s.seen
         /\ c.timedOut = s.timedOut /\ c.unread = s.unread
         /\ Stopped(s) => c.found = s.found /\ c.collected = s.collected
                          /\ c.truncated = s.truncated
         /\ ~Stopped(s) => \E n \in Nat :
               /\ n <= FilesIn[a.dir] /\ s.collected + n <= s.limit
               /\ c.found = s.found \cup ({a.dir} \X (1 .. n)) /\ c.collected = s.collected + n
               /\ c.truncated <=> n < FilesIn[a.dir]
<1> DEFINE F == FilesIn[a.dir]
           n == IF Stopped(s) THEN 0 ELSE Fits(s, F)
           tr == s.truncated \/ (~Stopped(s) /\ n < F)
<1>1. s \in Walk /\ a.dir \in Dirs /\ F \in Nat
  BY WalkFields, ScannerAssumption DEF Counted
<1>2. s.collected \in Nat /\ s.limit \in Nat /\ s.collected <= s.limit
  BY <1>1, WalkFields DEF Counted
<1>3. n \in Nat /\ n <= F /\ s.collected + n <= s.limit
  BY <1>1, <1>2 DEF Fits
<1>4. c = [s EXCEPT !.found = @ \cup ({a.dir} \X (1 .. n)), !.collected = @ + n, !.truncated = tr]
  BY DEF Collect
<1>5. Stopped(s) => n = 0
  OBVIOUS
<1> HIDE DEF n
<1>6. tr \in BOOLEAN
  OBVIOUS
<1>7. s.found \cup ({a.dir} \X (1 .. n)) \in SUBSET (Dirs \X Nat) /\ s.collected + n \in Nat
  BY <1>1, <1>2, <1>3, WalkFields
<1>8. /\ c \in Walk /\ c.stage = s.stage /\ c.limit = s.limit /\ c.aborted = s.aborted
      /\ c.queue = s.queue /\ c.active = s.active /\ c.seen = s.seen
      /\ c.timedOut = s.timedOut /\ c.unread = s.unread
      /\ c.found = s.found \cup ({a.dir} \X (1 .. n)) /\ c.collected = s.collected + n
      /\ c.truncated = tr
  <2> HIDE DEF tr
  <2> QED BY <1>1, <1>4, <1>6, <1>7 DEF Walk
<1>9. ASSUME Stopped(s)
      PROVE  c.found = s.found /\ c.collected = s.collected /\ c.truncated = s.truncated
  <2>1. n = 0 /\ 1 .. n = {}
    BY <1>5, <1>9
  <2>2. c.found = s.found /\ c.collected = s.collected
    BY <1>2, <1>8, <2>1
  <2>3. s.truncated \in BOOLEAN
    BY <1>1 DEF Walk
  <2>4. tr = s.truncated
    BY <1>9, <2>3
  <2> QED BY <1>8, <2>2, <2>4
<1>10. ~Stopped(s) => (c.truncated <=> n < F)
  BY <1>8 DEF Stopped
<1> HIDE DEF tr
<1> QED BY <1>3, <1>8, <1>9, <1>10

\* describe() has answered, and the directory is left.
LEMMA DescribedKeeps ==
  ASSUME NEW s, Live(s), NEW a \in s.active, a.at = "describe", NEW c, c = Collect(s, a),
         ~(a.dir \in Packages /\ FilesIn[a.dir] = 0 /\ ~Stopped(c) /\ c.collected < c.limit),
         NEW t, t = Left(c, a, a.subs)
  PROVE  Live(t) /\ t.limit = s.limit /\ t.aborted = s.aborted /\ t.stage = s.stage
<1>1. s \in Walk /\ Counted(s) /\ Apart(s) /\ Fresh(s) /\ s.stage # "settled" /\ ~s.timedOut
  BY DEF Live, Counted
<1>2. /\ a.subs \in SUBSET (Dirs \X Nat) /\ a.dir \in Dirs /\ FilesIn[a.dir] \in Nat
      /\ a.dir \notin FoundIn(s) /\ a.dir \in s.seen
  BY <1>1, WalkFields, Alone, ScannerAssumption
<1>3. /\ c \in Walk /\ c.stage = s.stage /\ c.limit = s.limit /\ c.aborted = s.aborted
      /\ c.queue = s.queue /\ c.active = s.active /\ c.seen = s.seen
      /\ c.timedOut = s.timedOut /\ c.unread = s.unread
  BY <1>1, CollectFields
<1>4. /\ t \in Walk /\ t.active = s.active \ {a} /\ t.stage = s.stage /\ t.limit = s.limit
      /\ t.queue = s.queue \cup a.subs /\ t.aborted = s.aborted /\ t.seen = s.seen
      /\ t.found = c.found /\ t.collected = c.collected /\ t.truncated = c.truncated
      /\ t.timedOut = s.timedOut /\ t.unread = s.unread
  BY <1>1, <1>2, <1>3, LeftFields
<1>5. CASE Stopped(s)
  <2>1. c.found = s.found /\ c.collected = s.collected /\ c.truncated = s.truncated
    BY <1>1, <1>5, CollectFields
  <2>2. FoundIn(t) = FoundIn(s)
    BY <1>4, <2>1 DEF FoundIn
  <2>3. Apart(t) /\ Fresh(t)
    BY <1>1, <1>4, <2>2, LeaveKeeps
  <2>4. s.truncated
    BY <1>1, <1>5 DEF Stopped
  <2>5. Counted(t)
    BY <1>1, <1>4, <2>1 DEF Counted
  <2> QED BY <1>1, <1>4, <2>1, <2>3, <2>4, <2>5 DEF Live, Full
<1>6. CASE ~Stopped(s)
  <2>1. PICK n \in Nat :
               /\ n <= FilesIn[a.dir] /\ s.collected + n <= s.limit
               /\ c.found = s.found \cup ({a.dir} \X (1 .. n)) /\ c.collected = s.collected + n
               /\ c.truncated <=> n < FilesIn[a.dir]
    BY <1>1, <1>6, CollectFields
  <2>2. FoundIn(t) \subseteq FoundIn(s) \cup {a.dir}
    BY <1>4, <2>1 DEF FoundIn
  <2>3. Apart(t) /\ Fresh(t)
    BY <1>1, <1>4, <2>2, LeaveKeeps
  <2>4. Counted(t)
    <3>1. NoneOf(s.found, a.dir)
      BY <1>2 DEF FoundIn, NoneOf
    <3>2. IsFiniteSet(s.found) /\ Cardinality(s.found) = s.collected
      BY <1>1 DEF Counted
    <3>3. PICK T : T = FirstOf(a.dir, n)
      OBVIOUS
    <3>4. IsFiniteSet(s.found \cup T) /\ Cardinality(s.found \cup T) = s.collected + n
      BY <3>1, <3>2, <3>3, SomeMore
    <3>5. t.found = s.found \cup T
      BY <1>4, <2>1, <3>3 DEF FirstOf
    <3> QED BY <1>4, <2>1, <3>4, <3>5 DEF Counted
  <2>5. ASSUME ~Full(t) PROVE Honest(t)
    <3>1. s.collected \in Nat /\ s.limit \in Nat /\ t.collected < t.limit /\ ~t.truncated
      BY <1>1, <1>4, <2>1, <2>5, WalkFields DEF Full
    <3>2. s.collected < s.limit /\ ~s.truncated
      BY <1>4, <1>6, <2>1, <3>1 DEF Stopped
    <3>3. Honest(s)
      BY <3>1, <3>2 DEF Live, Full
    <3>4. n = FilesIn[a.dir] /\ ~c.truncated
      BY <1>2, <1>4, <2>1, <3>1
    <3>5. ~Stopped(c) /\ c.collected < c.limit
      BY <1>1, <1>3, <1>4, <3>1, <3>4 DEF Stopped
    <3>6. ~(FilesIn[a.dir] = 0 /\ a.dir \in Packages)
      BY <3>5
    <3>7. ToFind(a.dir) = {a.dir} \X (1 .. n)
      BY <3>4, <3>6 DEF ToFind
    <3> QED BY <1>1, <1>4, <2>1, <2>2, <3>3, <3>7, LeaveHonest
  <2> QED BY <1>1, <1>4, <2>3, <2>4, <2>5 DEF Live
<1> QED BY <1>5, <1>6

\* A package root that nobody described: it is looked into before it is left.
Looking(a) == [a EXCEPT !.at = "detect"]
LEMMA LooksKeeps ==
  ASSUME NEW s, Live(s), NEW a \in s.active, a.at = "describe", NEW c, c = Collect(s, a),
         a.dir \in Packages, FilesIn[a.dir] = 0, ~Stopped(c),
         NEW t, t = Goes(c, a, Looking(a))
  PROVE  Live(t) /\ t.limit = s.limit /\ t.aborted = s.aborted /\ t.stage = s.stage
<1>1. s \in Walk /\ Counted(s) /\ Apart(s) /\ Fresh(s) /\ s.stage # "settled" /\ ~s.timedOut
  BY DEF Live, Counted
<1>2. /\ c \in Walk /\ c.stage = s.stage /\ c.limit = s.limit /\ c.aborted = s.aborted
      /\ c.queue = s.queue /\ c.active = s.active /\ c.seen = s.seen
      /\ c.timedOut = s.timedOut /\ c.unread = s.unread
  BY <1>1, CollectFields
<1>3. c.found = s.found /\ c.collected = s.collected /\ (s.truncated => c.truncated)
  <2>1. CASE Stopped(s)
    BY <1>1, <2>1, CollectFields
  <2>2. CASE ~Stopped(s)
    <3>1. PICK n \in Nat :
               /\ n <= FilesIn[a.dir] /\ s.collected + n <= s.limit
               /\ c.found = s.found \cup ({a.dir} \X (1 .. n)) /\ c.collected = s.collected + n
      BY <1>1, <2>2, CollectFields
    <3>2. n = 0 /\ 1 .. n = {} /\ s.collected \in Nat
      BY <1>1, <3>1, WalkFields
    <3> QED BY <2>2, <3>1, <3>2 DEF Stopped
  <2> QED BY <2>1, <2>2
<1>4. PICK b : b = Looking(a)
  OBVIOUS
<1>5. a \in Active
  BY <1>1, WalkFields
<1>6. b \in Active /\ b.dir = a.dir /\ b.depth = a.depth /\ b.at = "detect" /\ b.subs = a.subs
  BY <1>4, <1>5 DEF Active, Looking
<1>7. (c.active \ {a}) \cup {b} \in SUBSET Active
  BY <1>2, <1>6, WalkFields
<1>8. /\ t \in Walk /\ t.active = (s.active \ {a}) \cup {b} /\ t.stage = s.stage
      /\ t.limit = s.limit /\ t.queue = s.queue /\ t.aborted = s.aborted /\ t.seen = s.seen
      /\ t.found = s.found /\ t.collected = s.collected /\ t.truncated = c.truncated
      /\ t.timedOut = s.timedOut /\ t.unread = s.unread
  <2>1. t = [c EXCEPT !.active = (c.active \ {a}) \cup {b}]
    BY <1>2, <1>4 DEF Goes, Walk
  <2> QED BY <1>2, <1>3, <1>7, <2>1 DEF Walk, Active
<1>9. Apart(t) /\ Fresh(t) /\ (Honest(s) => Honest(t))
  BY <1>1, <1>6, <1>8, DetectNext
<1>10. Counted(t)
  BY <1>1, <1>8 DEF Counted
<1>11. Full(s) => Full(t)
  BY <1>3, <1>8 DEF Full
<1> QED BY <1>1, <1>8, <1>9, <1>10, <1>11 DEF Live

LEMMA OneFoundMore ==
  ASSUME NEW S, IsFiniteSet(S), NEW x, x \notin S
  PROVE  IsFiniteSet(S \cup {x}) /\ Cardinality(S \cup {x}) = Cardinality(S) + 1
BY FS_AddElement

\* A package root is looked into: the cap is looked at again, and the directory left.
LEMMA DetectedKeeps ==
  ASSUME NEW s, Live(s), NEW a \in s.active, a.at = "detect", NEW c \in Walk,
         c.stage = s.stage, c.limit = s.limit, c.aborted = s.aborted, c.queue = s.queue,
         c.active = s.active, c.seen = s.seen, c.timedOut = s.timedOut, c.unread = s.unread,
         \/ /\ s.collected < s.limit /\ c.truncated = s.truncated
            /\ c.found = s.found \cup {<<a.dir, 0>>} /\ c.collected = s.collected + 1
         \/ c.truncated /\ c.found = s.found /\ c.collected = s.collected,
         NEW t, t = Left(c, a, a.subs)
  PROVE  Live(t) /\ t.limit = s.limit /\ t.aborted = s.aborted /\ t.stage = s.stage
<1>1. s \in Walk /\ Counted(s) /\ Apart(s) /\ Fresh(s) /\ s.stage # "settled" /\ ~s.timedOut
  BY DEF Live, Counted
<1>2. /\ a.subs \in SUBSET (Dirs \X Nat) /\ a.dir \in Dirs
      /\ a.dir \notin FoundIn(s) /\ FilesIn[a.dir] = 0 /\ a.dir \in Packages
  BY <1>1, WalkFields, Alone DEF Fresh
<1>3. /\ t \in Walk /\ t.active = s.active \ {a} /\ t.stage = s.stage /\ t.limit = s.limit
      /\ t.queue = s.queue \cup a.subs /\ t.aborted = s.aborted /\ t.seen = s.seen
      /\ t.found = c.found /\ t.collected = c.collected /\ t.truncated = c.truncated
      /\ t.timedOut = s.timedOut /\ t.unread = s.unread
  BY <1>1, <1>2, LeftFields
<1>4. CASE c.truncated /\ c.found = s.found /\ c.collected = s.collected
  <2>1. FoundIn(t) = FoundIn(s)
    BY <1>3, <1>4 DEF FoundIn
  <2>2. Apart(t) /\ Fresh(t)
    BY <1>1, <1>3, <2>1, LeaveKeeps
  <2>3. Counted(t)
    BY <1>1, <1>3, <1>4 DEF Counted
  <2> QED BY <1>1, <1>3, <1>4, <2>2, <2>3 DEF Live, Full
<1>5. CASE /\ s.collected < s.limit /\ c.truncated = s.truncated
           /\ c.found = s.found \cup {<<a.dir, 0>>} /\ c.collected = s.collected + 1
  <2>1. FoundIn(t) \subseteq FoundIn(s) \cup {a.dir}
    BY <1>3, <1>5 DEF FoundIn
  <2>2. Apart(t) /\ Fresh(t)
    BY <1>1, <1>3, <2>1, LeaveKeeps
  <2>3. s.collected \in Nat /\ s.limit \in Nat
    BY <1>1, WalkFields
  <2>4. Counted(t)
    <3>1. PICK x : x = <<a.dir, 0>>
      OBVIOUS
    <3>2. x \notin s.found
      BY <1>2, <3>1 DEF FoundIn
    <3>3. IsFiniteSet(s.found) /\ Cardinality(s.found) = s.collected
      BY <1>1 DEF Counted
    <3>4. IsFiniteSet(s.found \cup {x}) /\ Cardinality(s.found \cup {x}) = s.collected + 1
      BY <3>2, <3>3, OneFoundMore
    <3> QED BY <1>3, <1>5, <2>3, <3>1, <3>4 DEF Counted
  <2>5. ASSUME ~Full(t) PROVE Honest(t)
    <3>1. Honest(s)
      BY <1>3, <1>5, <2>3, <2>5 DEF Live, Full
    <3>2. ToFind(a.dir) = {<<a.dir, 0>>}
      <4>1. ToFind(a.dir) = {a.dir} \X {0}
        BY <1>2 DEF ToFind
      <4> QED BY <4>1
    <3> QED BY <1>1, <1>3, <1>5, <2>1, <3>1, <3>2, LeaveHonest
  <2> QED BY <1>1, <1>3, <2>2, <2>4, <2>5 DEF Live
<1> QED BY <1>4, <1>5

\* readdir() failed, or answered a walk that had enough: the directory is left.
LEMMA UnreadKeeps ==
  ASSUME NEW s, Live(s), NEW a \in s.active, a.at = "readdir", NEW c \in Walk,
         c.stage = s.stage, c.limit = s.limit, c.aborted = s.aborted, c.queue = s.queue,
         c.active = s.active, c.seen = s.seen, c.timedOut = s.timedOut, c.found = s.found,
         c.collected = s.collected, c.truncated = s.truncated,
         c.unread = s.unread \cup {a.dir} \/ s.truncated,
         NEW t, t = Left(c, a, {})
  PROVE  Live(t) /\ t.limit = s.limit /\ t.aborted = s.aborted /\ t.stage = s.stage
<1>1. s \in Walk /\ Counted(s) /\ Apart(s) /\ Fresh(s) /\ s.stage # "settled" /\ ~s.timedOut
  BY DEF Live, Counted
<1>2. a.subs = {} /\ {} \in SUBSET (Dirs \X Nat)
  BY <1>1 DEF Fresh
<1>0. t = Left(c, a, a.subs) /\ a.subs \in SUBSET (Dirs \X Nat)
  BY <1>2
<1>3. /\ t \in Walk /\ t.active = s.active \ {a} /\ t.stage = s.stage /\ t.limit = s.limit
      /\ t.queue = s.queue \cup a.subs /\ t.aborted = s.aborted /\ t.seen = s.seen
      /\ t.found = s.found /\ t.collected = s.collected /\ t.truncated = s.truncated
      /\ t.timedOut = s.timedOut /\ t.unread = c.unread
  BY <1>0, <1>1, LeftFields
<1>4. FoundIn(t) = FoundIn(s)
  BY <1>3 DEF FoundIn
<1>5. Apart(t) /\ Fresh(t)
  BY <1>1, <1>3, <1>4, LeaveKeeps
<1>6. Counted(t)
  BY <1>1, <1>3 DEF Counted
<1>7. ASSUME ~Full(t) PROVE Honest(t)
  <2>1. Honest(s) /\ ~s.truncated
    BY <1>3, <1>7 DEF Live, Full
  <2> QED BY <1>1, <1>3, <1>4, <2>1, LeaveHonest
<1> QED BY <1>1, <1>3, <1>5, <1>6, <1>7 DEF Live

\* The entries are sorted out: the subdirectories wait with their directory.
Sorted(s, a) == [a EXCEPT !.at = "describe", !.subs = SubsOf(s, a)]
Read(s, a, b) == [Goes(s, a, b) EXCEPT !.seen = @ \cup Subdirs(s, a)]
LEMMA SortedFields ==
  ASSUME NEW s \in Walk, NEW a \in s.active, NEW b, b = Sorted(s, a),
         NEW t, t = Read(s, a, b)
  PROVE  /\ b.dir = a.dir /\ b.depth = a.depth /\ b.at = "describe" /\ b.subs = SubsOf(s, a)
         /\ t \in Walk /\ t.active = (s.active \ {a}) \cup {b} /\ t.stage = s.stage
         /\ t.limit = s.limit /\ t.queue = s.queue /\ t.aborted = s.aborted
         /\ t.seen = s.seen \cup Subdirs(s, a)
         /\ t.found = s.found /\ t.collected = s.collected /\ t.truncated = s.truncated
         /\ t.timedOut = s.timedOut /\ t.unread = s.unread
<1>2. a \in Active /\ a.depth \in Nat /\ a.dir \in Dirs
  BY WalkFields
<1>3. PICK N : N = Subdirs(s, a)
  OBVIOUS
<1>4. N \subseteq Dirs
  BY <1>2, <1>3, ScannerAssumption DEF Subdirs
<1>5. PICK M : M = SubsOf(s, a)
  OBVIOUS
<1>6. M \in SUBSET (Dirs \X Nat)
  BY <1>2, <1>3, <1>4, <1>5 DEF SubsOf
<1>7. b = [a EXCEPT !.at = "describe", !.subs = M]
  BY <1>5 DEF Sorted
<1>8. b \in Active /\ b.dir = a.dir /\ b.depth = a.depth /\ b.at = "describe" /\ b.subs = M
  BY <1>2, <1>6, <1>7 DEF Active
<1>9. (s.active \ {a}) \cup {b} \in SUBSET Active /\ s.seen \cup N \in SUBSET Dirs
  BY <1>4, <1>8, WalkFields
<1>10. t = [s EXCEPT !.active = (s.active \ {a}) \cup {b}, !.seen = s.seen \cup N]
  BY <1>3 DEF Read, Goes, Walk
<1>11. /\ t \in Walk /\ t.active = (s.active \ {a}) \cup {b} /\ t.stage = s.stage
       /\ t.limit = s.limit /\ t.queue = s.queue /\ t.aborted = s.aborted
       /\ t.seen = s.seen \cup N
       /\ t.found = s.found /\ t.collected = s.collected /\ t.truncated = s.truncated
       /\ t.timedOut = s.timedOut /\ t.unread = s.unread
  BY <1>9, <1>10 DEF Walk, Active
<1> QED BY <1>3, <1>5, <1>8, <1>11

LEMMA ReadLive ==
  ASSUME NEW s, Live(s), NEW a \in s.active, a.at = "readdir", NEW b, NEW t \in Walk,
         b.dir = a.dir, b.depth = a.depth, b.at = "describe", b.subs = SubsOf(s, a),
         t.active = (s.active \ {a}) \cup {b}, t.stage = s.stage,
         t.limit = s.limit, t.queue = s.queue, t.aborted = s.aborted,
         t.seen = s.seen \cup Subdirs(s, a),
         t.found = s.found, t.collected = s.collected, t.truncated = s.truncated,
         t.timedOut = s.timedOut, t.unread = s.unread
  PROVE  Live(t)
<1>1. s \in Walk /\ Counted(s) /\ Apart(s) /\ Fresh(s) /\ s.stage # "settled" /\ ~s.timedOut
  BY DEF Live, Counted
<1>2. Apart(t) /\ Fresh(t) /\ (Honest(s) => Honest(t))
  BY <1>1, ReadKeeps
<1>3. Counted(t)
  BY <1>1 DEF Counted
<1> QED BY <1>1, <1>2, <1>3 DEF Live, Full

---------------------------------------------------------------------------------------
(* The steps of a walk. *)

\* What a step of a walk makes of it.
Follows(s, u) ==
  /\ WalkInv(u) /\ u.limit = s.limit /\ u.aborted = s.aborted
  /\ u.stage \in {s.stage, "settled"}

LEMMA ReturnsFollow ==
  ASSUME NEW w, NEW s, NEW c, NEW a, NEW subs, Returns(w, c, a, subs),
         \/ /\ Live(Left(c, a, subs)) /\ Left(c, a, subs).limit = s.limit
            /\ Left(c, a, subs).aborted = s.aborted /\ Left(c, a, subs).stage = s.stage
         \/ /\ WalkInv(c) /\ c.stage = "settled" /\ subs \in SUBSET (Dirs \X Nat)
            /\ c.limit = s.limit /\ c.aborted = s.aborted
  PROVE  \E u : Follows(s, u) /\ Put(w, u)
<1>1. PICK late \in BOOLEAN : \E u \in Pumped(Left(c, a, subs), late) : Put(w, u)
  BY Zenon DEF Returns, Left
<1>2. PICK u \in Pumped(Left(c, a, subs), late) : Put(w, u)
  BY <1>1
<1>3. CASE /\ Live(Left(c, a, subs)) /\ Left(c, a, subs).limit = s.limit
           /\ Left(c, a, subs).aborted = s.aborted /\ Left(c, a, subs).stage = s.stage
  <2>1. PICK t : t = Left(c, a, subs)
    OBVIOUS
  <2>2. Live(t) /\ t.limit = s.limit /\ t.aborted = s.aborted /\ t.stage = s.stage
        /\ u \in Pumped(t, late)
    BY <1>2, <1>3, <2>1, Zenon
  <2>3. WalkInv(u) /\ u.limit = t.limit /\ u.aborted = t.aborted /\ u.stage \in {t.stage, "settled"}
    BY <2>2, PumpKeeps, Zenon
  <2>4. Follows(s, u)
    BY <2>2, <2>3, Zenon DEF Follows
  <2> QED BY <1>2, <2>4, Zenon
<1>4. CASE /\ WalkInv(c) /\ c.stage = "settled" /\ subs \in SUBSET (Dirs \X Nat)
           /\ c.limit = s.limit /\ c.aborted = s.aborted
  <2>1. WalkInv(u) /\ u.limit = c.limit /\ u.aborted = c.aborted /\ u.stage = "settled"
    BY <1>2, <1>4, EndedKeeps
  <2>2. Follows(s, u)
    BY <1>4, <2>1, Zenon DEF Follows
  <2> QED BY <1>2, <2>2, Zenon
<1> QED BY <1>3, <1>4, Zenon

LEMMA LiveFollows ==
  ASSUME NEW s, NEW t, Live(t), t.limit = s.limit, t.aborted = s.aborted, t.stage = s.stage
  PROVE  Follows(s, t)
BY DEF Follows, WalkInv, Live

LEMMA ReadsFollow ==
  ASSUME NEW w, NEW s, s = walks[w], WalkInv(s), NEW a \in s.active, Reads(w, a)
  PROVE  \E u : Follows(s, u) /\ Put(w, u)
<1>1. a.at = "readdir" /\ s \in Walk
  BY DEF Reads, WalkInv, Counted
<1>2. {} \in SUBSET (Dirs \X Nat) /\ a.dir \in Dirs /\ s.unread \subseteq Dirs
  BY <1>1, WalkFields
<1>3. CASE s.stage = "settled"
  <2>1. Returns(w, s, a, {})
    BY <1>3 DEF Reads, Stopped
  <2> QED BY <1>2, <1>3, <2>1, ReturnsFollow
<1>4. CASE s.stage # "settled"
  <2>1. Live(s) /\ ~s.timedOut
    BY <1>4 DEF WalkInv, Live
  <2>2. CASE ~Stopped(s) /\ Put(w, Read(s, a, Sorted(s, a)))
    <3>1. PICK b : b = Sorted(s, a)
      OBVIOUS
    <3>2. PICK t : t = Read(s, a, b)
      OBVIOUS
    <3>3. /\ b.dir = a.dir /\ b.depth = a.depth /\ b.at = "describe" /\ b.subs = SubsOf(s, a)
          /\ t \in Walk /\ t.active = (s.active \ {a}) \cup {b} /\ t.stage = s.stage
          /\ t.limit = s.limit /\ t.queue = s.queue /\ t.aborted = s.aborted
          /\ t.seen = s.seen \cup Subdirs(s, a)
          /\ t.found = s.found /\ t.collected = s.collected /\ t.truncated = s.truncated
          /\ t.timedOut = s.timedOut /\ t.unread = s.unread
      BY <1>1, <3>1, <3>2, SortedFields
    <3>4. Live(t)
      BY <1>1, <2>1, <3>3, ReadLive
    <3>5. Follows(s, t)
      BY <3>3, <3>4, LiveFollows
    <3>6. Put(w, t)
      BY <2>2, <3>1, <3>2, Zenon
    <3> QED BY <3>5, <3>6, Zenon
  <2>3. CASE ~Stopped(s) /\ Returns(w, [s EXCEPT !.unread = @ \cup {a.dir}], a, {})
    <3>1. PICK c : c = [s EXCEPT !.unread = @ \cup {a.dir}]
      OBVIOUS
    <3>2. s.unread \cup {a.dir} \in SUBSET Dirs
      BY <1>2
    <3>3. /\ c \in Walk /\ c.stage = s.stage /\ c.limit = s.limit /\ c.aborted = s.aborted
          /\ c.queue = s.queue /\ c.active = s.active /\ c.seen = s.seen
          /\ c.timedOut = s.timedOut /\ c.found = s.found
          /\ c.collected = s.collected /\ c.truncated = s.truncated
          /\ c.unread = s.unread \cup {a.dir}
      BY <1>1, <3>1, <3>2 DEF Walk
    <3>4. PICK t : t = Left(c, a, {})
      OBVIOUS
    <3>5. Live(t) /\ t.limit = s.limit /\ t.aborted = s.aborted /\ t.stage = s.stage
      BY <1>1, <2>1, <3>3, <3>4, UnreadKeeps
    <3>6. Returns(w, c, a, {})
      BY <2>3, <3>1, Zenon
    <3> QED BY <3>4, <3>5, <3>6, ReturnsFollow, Zenon
  <2>4. CASE Stopped(s) /\ Returns(w, s, a, {})
    <3>1. s.truncated
      BY <1>4, <2>1, <2>4 DEF Stopped
    <3>2. PICK t : t = Left(s, a, {})
      OBVIOUS
    <3>3. Live(t) /\ t.limit = s.limit /\ t.aborted = s.aborted /\ t.stage = s.stage
      BY <1>1, <2>1, <3>1, <3>2, UnreadKeeps
    <3> QED BY <2>4, <3>2, <3>3, ReturnsFollow, Zenon
  <2>5. \/ /\ ~Stopped(s)
           /\ Put(w, Read(s, a, Sorted(s, a)))
        \/ ~Stopped(s) /\ Returns(w, [s EXCEPT !.unread = @ \cup {a.dir}], a, {})
        \/ Stopped(s) /\ Returns(w, s, a, {})
    BY Zenon DEF Reads, Read, Sorted, SubsOf
  <2> QED BY <2>2, <2>3, <2>4, <2>5, Zenon
<1> QED BY <1>3, <1>4, Zenon

LEMMA DescribesFollow ==
  ASSUME NEW w, NEW s, s = walks[w], WalkInv(s), NEW a \in s.active, Describes(w, a)
  PROVE  \E u : Follows(s, u) /\ Put(w, u)
<1>1. a.at = "describe" /\ s \in Walk /\ Counted(s)
  BY DEF Describes, WalkInv, Counted
<1>2. PICK c : c = Collect(s, a)
  OBVIOUS
<1>3. /\ c \in Walk /\ c.stage = s.stage /\ c.limit = s.limit /\ c.aborted = s.aborted
      /\ c.timedOut = s.timedOut /\ c.unread = s.unread
      /\ Stopped(s) => c.found = s.found /\ c.collected = s.collected
                       /\ c.truncated = s.truncated
  BY <1>1, <1>2, CollectFields
<1>4. a.subs \in SUBSET (Dirs \X Nat)
  BY <1>1, WalkFields
<1>5. \/ /\ a.dir \in Packages /\ FilesIn[a.dir] = 0 /\ ~Stopped(c) /\ c.collected < c.limit
         /\ Put(w, Goes(c, a, Looking(a)))
      \/ /\ ~(a.dir \in Packages /\ FilesIn[a.dir] = 0 /\ ~Stopped(c) /\ c.collected < c.limit)
         /\ Returns(w, c, a, a.subs)
  BY <1>2, Zenon DEF Describes, Looking
<1>6. CASE s.stage = "settled"
  <2>1. Stopped(c) /\ Stopped(s)
    BY <1>3, <1>6 DEF Stopped
  <2>2. Counted(c) /\ (FoundAll(s) => FoundAll(c))
    BY <1>1, <1>3, <2>1 DEF Counted, FoundAll, Levels
  <2>3. WalkInv(c)
    BY <1>3, <1>6, <2>1, <2>2 DEF WalkInv
  <2>4. Returns(w, c, a, a.subs)
    BY <1>5, <2>1, Zenon
  <2> QED BY <1>3, <1>4, <1>6, <2>3, <2>4, ReturnsFollow
<1>7. CASE s.stage # "settled"
  <2>1. Live(s)
    BY <1>7 DEF WalkInv
  <2>2. CASE /\ a.dir \in Packages /\ FilesIn[a.dir] = 0 /\ ~Stopped(c) /\ c.collected < c.limit
             /\ Put(w, Goes(c, a, Looking(a)))
    <3>1. PICK t : t = Goes(c, a, Looking(a))
      OBVIOUS
    <3>2. Live(t) /\ t.limit = s.limit /\ t.aborted = s.aborted /\ t.stage = s.stage
      BY <1>1, <1>2, <2>1, <2>2, <3>1, LooksKeeps
    <3>3. Follows(s, t)
      BY <3>2, LiveFollows
    <3>4. Put(w, t)
      BY <2>2, <3>1, Zenon
    <3> QED BY <3>3, <3>4, Zenon
  <2>3. CASE /\ ~(a.dir \in Packages /\ FilesIn[a.dir] = 0 /\ ~Stopped(c) /\ c.collected < c.limit)
             /\ Returns(w, c, a, a.subs)
    <3>1. PICK t : t = Left(c, a, a.subs)
      OBVIOUS
    <3>2. Live(t) /\ t.limit = s.limit /\ t.aborted = s.aborted /\ t.stage = s.stage
      BY <1>1, <1>2, <2>1, <2>3, <3>1, DescribedKeeps
    <3> QED BY <2>3, <3>1, <3>2, ReturnsFollow, Zenon
  <2> QED BY <1>5, <2>2, <2>3, Zenon
<1> QED BY <1>6, <1>7, Zenon

LEMMA DetectsFollow ==
  ASSUME NEW w, NEW s, s = walks[w], WalkInv(s), NEW a \in s.active, Detects(w, a)
  PROVE  \E u : Follows(s, u) /\ Put(w, u)
<1>1. a.at = "detect" /\ s \in Walk /\ Counted(s)
  BY DEF Detects, WalkInv, Counted
<1>2. a.subs \in SUBSET (Dirs \X Nat) /\ a.dir \in Dirs
      /\ s.collected \in Nat /\ s.found \subseteq Dirs \X Nat
  BY <1>1, WalkFields
<1>3. \/ (s.stage = "settled" \/ s.timedOut) /\ Returns(w, s, a, a.subs)
      \/ /\ ~(s.stage = "settled" \/ s.timedOut) /\ s.collected < s.limit
         /\ Returns(w, [s EXCEPT !.found = @ \cup {<<a.dir, 0>>}, !.collected = @ + 1], a, a.subs)
      \/ /\ ~(s.stage = "settled" \/ s.timedOut)
         /\ Returns(w, [s EXCEPT !.truncated = TRUE], a, a.subs)
  BY Zenon DEF Detects
<1>4. CASE s.stage = "settled" \/ s.timedOut
  <2>1. s.stage = "settled"
    BY <1>4 DEF WalkInv, Live
  <2>2. Returns(w, s, a, a.subs)
    BY <1>3, <1>4, Zenon
  <2> QED BY <1>2, <2>1, <2>2, ReturnsFollow
<1>5. CASE ~(s.stage = "settled" \/ s.timedOut)
  <2>1. Live(s)
    BY <1>5 DEF WalkInv
  <2>2. PICK c : /\ Returns(w, c, a, a.subs)
                 /\ \/ /\ s.collected < s.limit
                       /\ c = [s EXCEPT !.found = @ \cup {<<a.dir, 0>>}, !.collected = @ + 1]
                    \/ c = [s EXCEPT !.truncated = TRUE]
    BY <1>3, <1>5, Zenon
  <2>3. s.found \cup {<<a.dir, 0>>} \in SUBSET (Dirs \X Nat) /\ s.collected + 1 \in Nat
    BY <1>2
  <2>4. /\ c \in Walk /\ c.stage = s.stage /\ c.limit = s.limit /\ c.aborted = s.aborted
        /\ c.queue = s.queue /\ c.active = s.active /\ c.seen = s.seen
        /\ c.timedOut = s.timedOut /\ c.unread = s.unread
        /\ \/ /\ s.collected < s.limit /\ c.truncated = s.truncated
              /\ c.found = s.found \cup {<<a.dir, 0>>} /\ c.collected = s.collected + 1
           \/ c.truncated /\ c.found = s.found /\ c.collected = s.collected
    <3>1. CASE /\ s.collected < s.limit
               /\ c = [s EXCEPT !.found = @ \cup {<<a.dir, 0>>}, !.collected = @ + 1]
      BY <1>1, <2>3, <3>1 DEF Walk
    <3>2. CASE c = [s EXCEPT !.truncated = TRUE]
      BY <1>1, <3>2 DEF Walk
    <3> QED BY <2>2, <3>1, <3>2, Zenon
  <2>5. PICK t : t = Left(c, a, a.subs)
    OBVIOUS
  <2>6. Live(t) /\ t.limit = s.limit /\ t.aborted = s.aborted /\ t.stage = s.stage
    BY <1>1, <2>1, <2>4, <2>5, DetectedKeeps
  <2>7. Returns(w, c, a, a.subs)
    BY <2>2
  <2> QED BY <2>5, <2>6, <2>7, ReturnsFollow, Zenon
<1> QED BY <1>4, <1>5, Zenon

---------------------------------------------------------------------------------------
(* The walks and who asked for them. *)

AskType(D) == [walk : D \cup {0}, limit : Limits \cup {0}, signal : BOOLEAN, gone : BOOLEAN]
\* Who has a walk asked for its cap; one that can abort is alone in it, and it is aborted only
\* when all who have it are gone.
Asked(W, A) ==
  /\ \A c \in Callers : A[c].walk # 0 => W[A[c].walk].limit = A[c].limit
  /\ \A c, d \in Callers : A[c].walk # 0 /\ A[c].walk = A[d].walk /\ A[c].signal => c = d
  /\ \A w \in DOMAIN W : W[w].aborted => \A c \in Callers : A[c].walk = w => A[c].gone
\* The walk shared for a request is one for it, that nobody can abort.
Shared(W, I, A) ==
  \A l \in Limits : I[l] # 0 =>
     /\ W[I[l]].limit = l /\ ~W[I[l]].aborted
     /\ \A c \in Callers : A[c].walk = I[l] => ~A[c].signal
InTurn(W) ==
  \A v, w \in DOMAIN W : v < w /\ W[w].stage = "walking" => W[v].stage = "settled"
ScanInv ==
  /\ \E n \in Nat : DOMAIN walks = 1 .. n
  /\ \A w \in DOMAIN walks : WalkInv(walks[w])
  /\ inflight \in [Limits -> DOMAIN walks \cup {0}]
  /\ asks \in [Callers -> AskType(DOMAIN walks)]
  /\ Asked(walks, asks) /\ Shared(walks, inflight, asks) /\ InTurn(walks)

LEMMA NewIsLive ==
  ASSUME NEW l \in Limits, NEW s, s = NewWalk(l)
  PROVE  Live(s) /\ s.limit = l /\ ~s.aborted /\ s.stage = "queued"
<1>1. /\ s.stage = "queued" /\ s.limit = l /\ s.aborted = FALSE /\ s.queue = Roots \X {0}
      /\ s.active = {} /\ s.seen = Roots /\ s.found = {} /\ s.collected = 0
      /\ s.truncated = FALSE /\ s.timedOut = FALSE /\ s.unread = {}
  BY DEF NewWalk, SeenFirst
<1>2. s \in Walk
  <2>1. Roots \X {0} \in SUBSET (Dirs \X Nat) /\ Roots \in SUBSET Dirs
    BY ScannerAssumption
  <2> QED BY <2>1 DEF NewWalk, SeenFirst, Walk
<1>3. \A x \in s.queue : x[1] \in Roots /\ x[2] = 0 /\ x = <<x[1], 0>>
  BY <1>1
<1>4. InQueue(s) = Roots
  <2>1. \A r \in Roots : <<r, 0>> \in s.queue /\ <<r, 0>>[1] = r
    BY <1>1
  <2> QED BY <1>3, <2>1 DEF InQueue
<1>5. Below1(s) = {} /\ InFlight(s) = {} /\ Unread(s) = {} /\ FoundIn(s) = {}
  BY <1>1 DEF Below1, InFlight, Unread, FoundIn
<1>6. Waiting(s) = Roots /\ Ahead(s) = Roots /\ HasRead(s) = {}
  BY <1>1, <1>4, <1>5 DEF Waiting, Ahead, HasRead
<1>7. Apart(s) /\ Fresh(s)
  <2>1. \A x, y \in s.queue : x[1] = y[1] => x = y
    BY <1>3
  <2>2. Apart(s)
    BY <1>1, <2>1 DEF Apart
  <2> QED BY <1>1, <1>5, <1>6, <2>2 DEF Fresh
<1>8. Counted(s)
  BY <1>1, <1>2, FS_EmptySet, ScannerAssumption DEF Counted
<1>9. DepthsAreRight(s)
  <2>1. 0 \in 0 .. MaxDepth /\ \A k \in Nat : 0 <= k
    BY ScannerAssumption
  <2>2. \A r \in Roots : Depth(s, r, 0)
    BY <2>1, WayOfRoot DEF Depth
  <2>3. \A x \in s.queue : Depth(s, x[1], x[2])
    BY <1>3, <2>2
  <2> QED BY <1>1, <2>3 DEF DepthsAreRight
<1>10. GoneThrough(s)
  BY <1>1, <1>6 DEF GoneThrough
<1> QED BY <1>1, <1>7, <1>8, <1>9, <1>10 DEF Live, Honest

LEMMA ScanInvInit == ScanInit => ScanInv
<1> SUFFICES ASSUME ScanInit PROVE ScanInv
  OBVIOUS
<1>1. DOMAIN walks = {} /\ DOMAIN walks = 1 .. 0
  BY DEF ScanInit
<1>2. /\ inflight \in [Limits -> DOMAIN walks \cup {0}] /\ \A l \in Limits : inflight[l] = 0
      /\ asks \in [Callers -> AskType(DOMAIN walks)] /\ \A c \in Callers : asks[c].walk = 0
  BY DEF ScanInit, AskType
<1>3. Asked(walks, asks) /\ Shared(walks, inflight, asks) /\ InTurn(walks)
  BY <1>1, <1>2 DEF Asked, Shared, InTurn
<1> QED BY <1>1, <1>2, <1>3 DEF ScanInv

\* A walk changed by itself.
LEMMA StoresKeeps ==
  ASSUME ScanInv, NEW w \in DOMAIN walks, NEW s, s = walks[w], NEW u, WalkInv(u),
         u.limit = s.limit, u.aborted = s.aborted,
         u.stage = "walking" => s.stage = "walking" \/ MayStart(w),
         s.stage = "settled" => u.stage = "settled", Put(w, u)
  PROVE  ScanInv'
<1>1. PICK n \in Nat : DOMAIN walks = 1 .. n
  BY DEF ScanInv
<1>2. /\ DOMAIN walks' = DOMAIN walks /\ walks'[w] = u
      /\ \A v \in DOMAIN walks : v # w => walks'[v] = walks[v]
      /\ asks' = asks
      /\ inflight' = [l \in Limits |->
            IF u.stage = "settled" /\ inflight[l] = w THEN 0 ELSE inflight[l]]
  BY DEF Put, Stores
<1>3. \A v \in DOMAIN walks : walks'[v].limit = walks[v].limit /\ walks'[v].aborted = walks[v].aborted
  BY <1>2
<1>4. inflight' \in [Limits -> DOMAIN walks \cup {0}]
      /\ \A l \in Limits : inflight'[l] = 0 \/ inflight'[l] = inflight[l]
  BY <1>2 DEF ScanInv
<1>5. \A v \in DOMAIN walks : WalkInv(walks'[v])
  BY <1>2 DEF ScanInv
<1>6. asks \in [Callers -> AskType(DOMAIN walks)]
      /\ \A c \in Callers : asks[c].walk # 0 => asks[c].walk \in DOMAIN walks
  BY DEF ScanInv, AskType
<1>7. Asked(walks', asks)
  BY <1>2, <1>3, <1>6 DEF ScanInv, Asked
<1>8. Shared(walks', inflight', asks)
  <2>1. \A l \in Limits : inflight[l] # 0 => inflight[l] \in DOMAIN walks
    BY DEF ScanInv
  <2> QED BY <1>3, <1>4, <2>1 DEF ScanInv, Shared
<1>9. InTurn(walks')
  <2> SUFFICES ASSUME NEW x \in DOMAIN walks, NEW y \in DOMAIN walks, x < y,
                      walks'[y].stage = "walking"
               PROVE  walks'[x].stage = "settled"
    BY <1>2 DEF InTurn
  <2>1. walks[x].stage = "settled"
    <3>1. CASE y # w
      BY <1>2, <3>1 DEF ScanInv, InTurn
    <3>2. CASE y = w
      <4>1. u.stage = "walking"
        BY <1>2, <3>2
      <4>2. s.stage = "walking" \/ MayStart(w)
        BY <4>1
      <4> QED BY <3>2, <4>2 DEF ScanInv, InTurn, MayStart
    <3> QED BY <3>1, <3>2
  <2> QED BY <1>2, <2>1
<1> QED BY <1>1, <1>2, <1>4, <1>5, <1>6, <1>7, <1>8, <1>9 DEF ScanInv

LEMMA BeginKeeps ==
  ASSUME ScanInv, NEW w \in DOMAIN walks, Begin(w)
  PROVE  ScanInv'
<1> DEFINE s == walks[w]
<1>1. s.stage = "queued" /\ MayStart(w) /\ WalkInv(s)
  BY DEF Begin, ScanInv
<1> HIDE DEF s
<1>2. Live(s) /\ Counted(s) /\ s \in Walk
  BY <1>1 DEF WalkInv, Live, Counted
<1>3. CASE s.aborted /\ Put(w, Settle([s EXCEPT !.timedOut = TRUE]))
  <2>1. PICK u : u = Settle([s EXCEPT !.timedOut = TRUE])
    OBVIOUS
  <2>2. WalkInv(u) /\ u.stage = "settled" /\ u.limit = s.limit /\ u.aborted = s.aborted
    BY <1>2, <2>1, CutShort
  <2>3. Put(w, u) /\ u.stage # "walking"
    BY <1>3, <2>1, <2>2
  <2> QED BY <2>2, <2>3, StoresKeeps DEF s
<1>4. CASE \E u \in Pumped([s EXCEPT !.stage = "walking"], FALSE) : Put(w, u)
  <2>1. PICK u \in Pumped([s EXCEPT !.stage = "walking"], FALSE) : Put(w, u)
    BY <1>4
  <2>2. PICK t : t = [s EXCEPT !.stage = "walking"]
    OBVIOUS
  <2>3. /\ t \in Walk /\ t.stage = "walking" /\ t.limit = s.limit /\ t.queue = s.queue
        /\ t.aborted = s.aborted /\ t.active = s.active
        /\ t.seen = s.seen /\ t.found = s.found /\ t.collected = s.collected
        /\ t.truncated = s.truncated /\ t.timedOut = s.timedOut /\ t.unread = s.unread
    BY <1>2, <2>2 DEF Walk
  <2>4. Counted(t) /\ Apart(t)
    BY <1>2, <2>3 DEF Counted, Live, Apart
  <2>5. /\ InQueue(t) = InQueue(s) /\ Below1(t) = Below1(s) /\ InFlight(t) = InFlight(s)
        /\ Unread(t) = Unread(s) /\ FoundIn(t) = FoundIn(s)
    BY <2>3 DEF InQueue, Below1, InFlight, Unread, FoundIn
  <2>6. Waiting(t) = Waiting(s) /\ HasRead(t) = HasRead(s)
    BY <2>3, <2>5 DEF Waiting, Ahead, HasRead
  <2>7. Fresh(t)
    BY <1>2, <2>3, <2>5, <2>6 DEF Live, Fresh
  <2>8. ASSUME Honest(s) PROVE Honest(t)
    <3>1. \A d, n : Depth(s, d, n) => Depth(t, d, n)
      BY <2>6, DepthStays
    <3>2. DepthsAreRight(t)
      BY <2>3, <2>8, <3>1 DEF Honest, DepthsAreRight
    <3>3. GoneThrough(t)
      BY <2>3, <2>6, <2>8 DEF Honest, GoneThrough
    <3> QED BY <3>2, <3>3 DEF Honest
  <2>9. Live(t)
    BY <1>2, <2>3, <2>4, <2>7, <2>8 DEF Live, Full
  <2>10. u \in Pumped(t, FALSE)
    BY <2>1, <2>2
  <2>11. WalkInv(u) /\ u.limit = s.limit /\ u.aborted = s.aborted
    BY <2>3, <2>9, <2>10, PumpKeeps
  <2> QED BY <1>1, <2>1, <2>11, StoresKeeps DEF s
<1> QED BY <1>3, <1>4, Zenon DEF Begin, s

LEMMA FollowsKeep ==
  ASSUME ScanInv, NEW w \in DOMAIN walks, NEW u, Follows(walks[w], u), Put(w, u)
  PROVE  ScanInv'
<1>1. /\ WalkInv(u) /\ u.limit = walks[w].limit /\ u.aborted = walks[w].aborted
      /\ u.stage \in {walks[w].stage, "settled"}
  BY DEF Follows
<1>2. /\ u.stage = "walking" => walks[w].stage = "walking"
      /\ walks[w].stage = "settled" => u.stage = "settled"
  BY <1>1
<1> QED BY <1>1, <1>2, StoresKeeps

LEMMA WatchdogKeeps ==
  ASSUME ScanInv, NEW w \in DOMAIN walks, Watchdog(w)
  PROVE  ScanInv'
<1>1. PICK s : s = walks[w]
  OBVIOUS
<1>2. PICK u : u = Settle([s EXCEPT !.timedOut = TRUE])
  OBVIOUS
<1>3. Counted(s)
  BY <1>1 DEF ScanInv, WalkInv
<1>4. WalkInv(u) /\ u.stage = "settled" /\ u.limit = s.limit /\ u.aborted = s.aborted
  BY <1>2, <1>3, CutShort
<1>5. Put(w, u)
  BY <1>1, <1>2, Zenon DEF Watchdog
<1>6. Follows(walks[w], u)
  BY <1>1, <1>4 DEF Follows
<1> QED BY <1>5, <1>6, FollowsKeep

LEMMA WalkStepKeeps ==
  ASSUME ScanInv, NEW w \in DOMAIN walks, NEW a \in walks[w].active,
         Reads(w, a) \/ Describes(w, a) \/ Detects(w, a)
  PROVE  ScanInv'
<1>1. WalkInv(walks[w])
  BY DEF ScanInv
<1>2. \E u : Follows(walks[w], u) /\ Put(w, u)
  BY <1>1, ReadsFollow, DescribesFollow, DetectsFollow
<1> QED BY <1>2, FollowsKeep

\* A caller that joins a walk, or asks for one of its own.
LEMMA AskKeeps ==
  ASSUME ScanInv, NEW c \in Callers, NEW l \in Limits, NEW sig \in BOOLEAN, Ask(c, l, sig)
  PROVE  ScanInv'
<1>1. PICK n \in Nat : DOMAIN walks = 1 .. n
  BY DEF ScanInv
<1>2. /\ \A w \in DOMAIN walks : WalkInv(walks[w])
      /\ inflight \in [Limits -> DOMAIN walks \cup {0}]
      /\ asks \in [Callers -> AskType(DOMAIN walks)]
      /\ Asked(walks, asks) /\ Shared(walks, inflight, asks) /\ InTurn(walks)
  BY DEF ScanInv
<1>3. asks[c].walk = 0
  BY DEF Ask
<1>4. \A d \in Callers : asks[d].walk \in DOMAIN walks \cup {0}
  BY <1>2 DEF AskType
<1>5. CASE Joins(l, sig)
  <2>1. PICK r : r = [walk |-> inflight[l], limit |-> l, signal |-> sig, gone |-> FALSE]
    OBVIOUS
  <2>2. /\ asks' = [asks EXCEPT ![c] = r] /\ walks' = walks /\ inflight' = inflight
        /\ inflight[l] # 0 /\ ~sig
    BY <1>5, <2>1, Zenon DEF Ask, Takes, Joins
  <2>3. sig = FALSE
    BY <2>2, Zenon
  <2>4. r.walk = inflight[l] /\ r.limit = l /\ ~r.signal /\ ~r.gone
        /\ r \in AskType(DOMAIN walks)
    BY <1>2, <2>1, <2>3 DEF AskType
  <2>5. /\ asks' \in [Callers -> AskType(DOMAIN walks)] /\ asks'[c] = r
        /\ \A d \in Callers : d # c => asks'[d] = asks[d]
    BY <1>2, <2>2, <2>4
  <2>6. /\ inflight[l] \in DOMAIN walks /\ walks[inflight[l]].limit = l
        /\ ~walks[inflight[l]].aborted
        /\ \A d \in Callers : asks[d].walk = inflight[l] => ~asks[d].signal
    BY <1>2, <2>2 DEF Shared
  <2>7. Asked(walks, asks')
    <3>1. \A d \in Callers : asks'[d].walk # 0 => walks[asks'[d].walk].limit = asks'[d].limit
      BY <1>2, <2>4, <2>5, <2>6 DEF Asked
    <3>2. \A d, e \in Callers :
            asks'[d].walk # 0 /\ asks'[d].walk = asks'[e].walk /\ asks'[d].signal => d = e
      BY <1>2, <2>4, <2>5, <2>6 DEF Asked
    <3>3. \A w \in DOMAIN walks :
            walks[w].aborted => \A d \in Callers : asks'[d].walk = w => asks'[d].gone
      BY <1>2, <2>4, <2>5, <2>6 DEF Asked
    <3> QED BY <3>1, <3>2, <3>3 DEF Asked
  <2>8. Shared(walks, inflight, asks')
    BY <1>2, <2>4, <2>5 DEF Shared
  <2> QED BY <1>1, <1>2, <2>2, <2>5, <2>7, <2>8 DEF ScanInv
<1>6. CASE ~Joins(l, sig)
  <2>1. Count = n
    BY <1>1, FS_Interval DEF Count
  <2>2. PICK m : m = n + 1
    OBVIOUS
  <2>3. m \in Nat /\ m # 0 /\ m \notin DOMAIN walks /\ DOMAIN walks \cup {m} = 1 .. m
        /\ \A w \in DOMAIN walks : w < m
    BY <1>1, <2>2
  <2>4. PICK r : r = [walk |-> m, limit |-> l, signal |-> sig, gone |-> FALSE]
    OBVIOUS
  <2>5. PICK s : s = NewWalk(l)
    OBVIOUS
  <2>6. /\ asks' = [asks EXCEPT ![c] = r]
        /\ walks' = [w \in DOMAIN walks \cup {m} |-> IF w = m THEN s ELSE walks[w]]
        /\ \/ sig /\ inflight' = inflight
           \/ ~sig /\ inflight' = [inflight EXCEPT ![l] = m]
    BY <1>6, <2>1, <2>2, <2>4, <2>5, Zenon DEF Ask, Takes
  <2>7. r.walk = m /\ r.limit = l /\ r.signal = sig /\ r \in AskType(DOMAIN walks \cup {m})
    BY <2>4 DEF AskType
  <2>8. /\ DOMAIN walks' = DOMAIN walks \cup {m} /\ walks'[m] = s
        /\ \A w \in DOMAIN walks : walks'[w] = walks[w]
    BY <2>3, <2>6
  <2>9. /\ asks' \in [Callers -> AskType(DOMAIN walks \cup {m})] /\ asks'[c] = r
        /\ \A d \in Callers : d # c => asks'[d] = asks[d] /\ asks'[d].walk # m
    BY <1>2, <1>4, <2>3, <2>6, <2>7 DEF AskType
  <2>10. Live(s) /\ s.limit = l /\ ~s.aborted /\ s.stage = "queued"
    BY <2>5, NewIsLive
  <2>11. \A w \in DOMAIN walks' : WalkInv(walks'[w])
    <3>1. WalkInv(s)
      BY <2>10 DEF WalkInv, Live
    <3> QED BY <1>2, <2>8, <3>1
  <2>12. Asked(walks', asks')
    <3>1. \A d \in Callers : asks'[d].walk # 0 => walks'[asks'[d].walk].limit = asks'[d].limit
      BY <1>2, <1>4, <2>7, <2>8, <2>9, <2>10 DEF Asked
    <3>2. \A d, e \in Callers :
            asks'[d].walk # 0 /\ asks'[d].walk = asks'[e].walk /\ asks'[d].signal => d = e
      BY <1>2, <2>7, <2>9 DEF Asked
    <3>3. \A w \in DOMAIN walks' :
            walks'[w].aborted => \A d \in Callers : asks'[d].walk = w => asks'[d].gone
      BY <1>2, <2>3, <2>7, <2>8, <2>9, <2>10 DEF Asked
    <3> QED BY <3>1, <3>2, <3>3 DEF Asked
  <2>13. InTurn(walks')
    BY <1>1, <1>2, <2>3, <2>8, <2>10 DEF InTurn
  <2>14. CASE sig /\ inflight' = inflight
    <3>1. inflight' = inflight
      BY <2>14, Zenon
    <3>2. inflight' \in [Limits -> DOMAIN walks' \cup {0}]
      BY <1>2, <2>8, <3>1
    <3>3. Shared(walks', inflight', asks')
      BY <1>2, <2>3, <2>7, <2>8, <2>9, <3>1 DEF Shared
    <3> QED BY <2>3, <2>8, <2>9, <2>11, <2>12, <2>13, <3>2, <3>3 DEF ScanInv
  <2>15. CASE ~sig /\ inflight' = [inflight EXCEPT ![l] = m]
    <3>1. inflight' = [inflight EXCEPT ![l] = m] /\ ~r.signal
      BY <2>7, <2>15, Zenon
    <3>2. /\ inflight' \in [Limits -> DOMAIN walks' \cup {0}] /\ inflight'[l] = m
          /\ \A k \in Limits : k # l => inflight'[k] = inflight[k]
      BY <1>2, <2>8, <3>1
    <3>3. Shared(walks', inflight', asks')
      <4> SUFFICES ASSUME NEW k \in Limits, inflight'[k] # 0
                   PROVE  /\ walks'[inflight'[k]].limit = k /\ ~walks'[inflight'[k]].aborted
                          /\ \A d \in Callers : asks'[d].walk = inflight'[k] => ~asks'[d].signal
        BY DEF Shared
      <4>1. CASE k = l
        BY <2>7, <2>8, <2>9, <2>10, <3>1, <3>2, <4>1
      <4>2. CASE k # l
        BY <1>2, <2>3, <2>7, <2>8, <2>9, <3>2, <4>2 DEF Shared
      <4> QED BY <4>1, <4>2
    <3> QED BY <2>3, <2>8, <2>9, <2>11, <2>12, <2>13, <3>2, <3>3 DEF ScanInv
  <2> QED BY <2>6, <2>14, <2>15, Zenon
<1> QED BY <1>5, <1>6, Zenon

\* A caller that goes aborts the walk it is alone in.
LEMMA LeavesKeeps ==
  ASSUME ScanInv, NEW c \in Callers, Leaves(c)
  PROVE  ScanInv'
<1>1. PICK n \in Nat : DOMAIN walks = 1 .. n
  BY DEF ScanInv
<1>2. /\ \A w \in DOMAIN walks : WalkInv(walks[w])
      /\ inflight \in [Limits -> DOMAIN walks \cup {0}]
      /\ asks \in [Callers -> AskType(DOMAIN walks)]
      /\ Asked(walks, asks) /\ Shared(walks, inflight, asks) /\ InTurn(walks)
  BY DEF ScanInv
<1>3. PICK w : w = asks[c].walk
  OBVIOUS
<1>4. PICK s : s = walks[w]
  OBVIOUS
<1>5. PICK t : t = [s EXCEPT !.aborted = TRUE]
  OBVIOUS
<1>6. /\ w # 0 /\ asks[c].signal /\ asks' = [asks EXCEPT ![c].gone = TRUE]
      /\ \/ s.stage = "queued" /\ Stores(w, t)
         \/ s.stage = "walking" /\ Stores(w, Settle([t EXCEPT !.timedOut = TRUE]))
         \/ s.stage = "settled" /\ UNCHANGED <<walks, inflight>>
  <2>1. w \in DOMAIN walks /\ WalkInv(s)
    BY <1>2, <1>3, <1>4 DEF Leaves, AskType
  <2>2. s.stage \in Stages
    BY <2>1, WalkFields DEF WalkInv, Counted
  <2>3. s.stage = "queued" \/ s.stage = "walking" \/ s.stage = "settled"
    BY <2>2 DEF Stages
  <2>4. asks[c].walk # 0 /\ asks[c].signal /\ asks' = [asks EXCEPT ![c].gone = TRUE]
    BY DEF Leaves
  <2>5. CASE s.stage = "queued"
    BY <1>3, <1>4, <1>5, <2>5 DEF Leaves
  <2>6. CASE s.stage = "walking"
    BY <1>3, <1>4, <1>5, <2>6 DEF Leaves
  <2>7. CASE s.stage = "settled"
    BY <1>3, <1>4, <1>5, <2>7 DEF Leaves
  <2> QED BY <1>3, <2>3, <2>4, <2>5, <2>6, <2>7, Zenon
<1>7. w \in DOMAIN walks /\ WalkInv(s)
  BY <1>2, <1>3, <1>4, <1>6 DEF AskType
<1>8. /\ asks' \in [Callers -> AskType(DOMAIN walks)] /\ asks'[c].gone
      /\ \A d \in Callers : /\ asks'[d].walk = asks[d].walk /\ asks'[d].limit = asks[d].limit
                            /\ asks'[d].signal = asks[d].signal
                            /\ asks[d].gone => asks'[d].gone
  BY <1>2, <1>6 DEF AskType
<1>9. \A d \in Callers : asks[d].walk = w => d = c
  BY <1>2, <1>3, <1>6 DEF Asked
<1>10. \A l \in Limits : inflight[l] # w
  BY <1>2, <1>3, <1>6 DEF Shared
<1>11. CASE s.stage = "settled" /\ UNCHANGED <<walks, inflight>>
  <2>1. Asked(walks, asks')
    BY <1>2, <1>8 DEF Asked
  <2>2. Shared(walks, inflight, asks')
    BY <1>2, <1>8 DEF Shared
  <2> QED BY <1>1, <1>2, <1>8, <1>11, <2>1, <2>2 DEF ScanInv
<1>12. ASSUME NEW u, Stores(w, u), WalkInv(u), u.limit = s.limit,
              u.stage = s.stage \/ u.stage = "settled"
       PROVE  ScanInv'
  <2>1. /\ DOMAIN walks' = DOMAIN walks /\ walks'[w] = u
        /\ \A v \in DOMAIN walks : v # w => walks'[v] = walks[v]
    BY <1>7, <1>12 DEF Stores
  <2>2. inflight' = inflight
    BY <1>2, <1>10, <1>12 DEF Stores
  <2>3. \A v \in DOMAIN walks : walks'[v].limit = walks[v].limit
    BY <1>4, <1>12, <2>1
  <2>4. \A d \in Callers : asks[d].walk # 0 => asks[d].walk \in DOMAIN walks
    BY <1>2 DEF AskType
  <2>5. Asked(walks', asks')
    <3>1. \A d \in Callers : asks'[d].walk # 0 => walks'[asks'[d].walk].limit = asks'[d].limit
      BY <1>2, <1>8, <2>3, <2>4 DEF Asked
    <3>2. \A d, e \in Callers :
            asks'[d].walk # 0 /\ asks'[d].walk = asks'[e].walk /\ asks'[d].signal => d = e
      BY <1>2, <1>8 DEF Asked
    <3>3. \A v \in DOMAIN walks' :
            walks'[v].aborted => \A d \in Callers : asks'[d].walk = v => asks'[d].gone
      BY <1>2, <1>8, <1>9, <2>1 DEF Asked
    <3> QED BY <3>1, <3>2, <3>3 DEF Asked
  <2>6. Shared(walks', inflight', asks')
    <3> SUFFICES ASSUME NEW l \in Limits, inflight[l] # 0
                 PROVE  /\ walks'[inflight[l]].limit = l /\ ~walks'[inflight[l]].aborted
                        /\ \A d \in Callers : asks'[d].walk = inflight[l] => ~asks'[d].signal
      BY <2>2 DEF Shared
    <3>1. inflight[l] \in DOMAIN walks /\ walks'[inflight[l]] = walks[inflight[l]]
      BY <1>2, <1>10, <2>1
    <3> QED BY <1>2, <1>8, <3>1 DEF Shared
  <2>7. InTurn(walks')
    <3> SUFFICES ASSUME NEW x \in DOMAIN walks, NEW y \in DOMAIN walks, x < y,
                        walks'[y].stage = "walking"
                 PROVE  walks'[x].stage = "settled"
      BY <2>1 DEF InTurn
    <3>1. walks[y].stage = "walking"
      BY <1>4, <1>12, <2>1
    <3>2. walks[x].stage = "settled"
      BY <1>2, <3>1 DEF InTurn
    <3> QED BY <1>4, <1>12, <2>1, <3>2
  <2>8. \A v \in DOMAIN walks' : WalkInv(walks'[v])
    BY <1>2, <1>12, <2>1
  <2> QED BY <1>1, <1>2, <1>8, <2>1, <2>2, <2>5, <2>6, <2>7, <2>8 DEF ScanInv
<1>13. /\ t \in Walk /\ t.stage = s.stage /\ t.limit = s.limit /\ t.queue = s.queue
       /\ t.active = s.active
       /\ t.seen = s.seen /\ t.found = s.found /\ t.collected = s.collected
       /\ t.truncated = s.truncated /\ t.timedOut = s.timedOut /\ t.unread = s.unread
  BY <1>5, <1>7 DEF WalkInv, Counted, Walk
<1>14. Counted(t)
  BY <1>7, <1>13 DEF WalkInv, Counted
<1>15. CASE s.stage = "queued" /\ Stores(w, t)
  <2>1. Live(s)
    BY <1>7, <1>15 DEF WalkInv
  <2>2. Apart(t)
    BY <1>13, <2>1 DEF Live, Apart
  <2>3. /\ InQueue(t) = InQueue(s) /\ Below1(t) = Below1(s) /\ InFlight(t) = InFlight(s)
        /\ Unread(t) = Unread(s) /\ FoundIn(t) = FoundIn(s)
    BY <1>13 DEF InQueue, Below1, InFlight, Unread, FoundIn
  <2>4. Waiting(t) = Waiting(s) /\ HasRead(t) = HasRead(s)
    BY <1>13, <2>3 DEF Waiting, Ahead, HasRead
  <2>5. Fresh(t)
    BY <1>13, <2>1, <2>3, <2>4 DEF Live, Fresh
  <2>6. ASSUME Honest(s) PROVE Honest(t)
    <3>1. \A d, k : Depth(s, d, k) => Depth(t, d, k)
      BY <2>4, DepthStays
    <3>2. DepthsAreRight(t)
      BY <1>13, <2>6, <3>1 DEF Honest, DepthsAreRight
    <3>3. GoneThrough(t)
      BY <1>13, <2>4, <2>6 DEF Honest, GoneThrough
    <3> QED BY <3>2, <3>3 DEF Honest
  <2>7. Live(t)
    BY <1>13, <1>14, <2>1, <2>2, <2>5, <2>6 DEF Live, Full
  <2>8. WalkInv(t)
    BY <1>14, <2>7 DEF WalkInv, Live
  <2> QED BY <1>12, <1>13, <1>15, <2>8
<1>16. CASE s.stage = "walking" /\ Stores(w, Settle([t EXCEPT !.timedOut = TRUE]))
  <2>1. PICK u : u = Settle([t EXCEPT !.timedOut = TRUE])
    OBVIOUS
  <2>2. WalkInv(u) /\ u.stage = "settled" /\ u.limit = t.limit
    BY <1>14, <2>1, CutShort
  <2>3. Stores(w, u)
    BY <1>16, <2>1, Zenon
  <2> QED BY <1>12, <1>13, <2>2, <2>3
<1> QED BY <1>6, <1>11, <1>15, <1>16, Zenon

---------------------------------------------------------------------------------------
(* The walks at every state. *)

\* No step of the scanner breaks what is known of its walks.
LEMMA ScanInvInductive == ScanInv /\ [ScanNext]_scanVars => ScanInv'
<1> SUFFICES ASSUME ScanInv, [ScanNext]_scanVars PROVE ScanInv'
  OBVIOUS
<1>1. ASSUME NEW c \in Callers, Leaves(c) PROVE ScanInv'
  BY <1>1, LeavesKeeps
<1>2. ASSUME NEW c \in Callers, NEW l \in Limits, NEW sig \in BOOLEAN, Ask(c, l, sig)
      PROVE  ScanInv'
  BY <1>2, AskKeeps
<1>3. ASSUME NEW w \in DOMAIN walks, Begin(w) PROVE ScanInv'
  BY <1>3, BeginKeeps
<1>4. ASSUME NEW w \in DOMAIN walks, Watchdog(w) PROVE ScanInv'
  BY <1>4, WatchdogKeeps
<1>5. ASSUME NEW w \in DOMAIN walks, NEW a \in walks[w].active,
             Reads(w, a) \/ Describes(w, a) \/ Detects(w, a)
      PROVE  ScanInv'
  BY <1>5, WalkStepKeeps
<1>6. CASE UNCHANGED scanVars
  BY <1>6 DEF scanVars, ScanInv
<1> QED BY <1>1, <1>2, <1>3, <1>4, <1>5, <1>6, Zenon DEF ScanNext

\* What is known of the walks says that their results are true.
LEMMA ScanInvMeaning == ScanInv => ScanTypeOK /\ ScansAreTrue
<1> SUFFICES ASSUME ScanInv PROVE ScanTypeOK /\ ScansAreTrue
  OBVIOUS
<1>1. \A w \in DOMAIN walks : WalkInv(walks[w]) /\ Counted(walks[w]) /\ walks[w] \in Walk
  BY DEF ScanInv, WalkInv, Counted
<1>2. ScanTypeOK
  BY <1>1 DEF ScanInv, ScanTypeOK, AskType
<1>3. ASSUME NEW w \in DOMAIN walks
      PROVE  /\ walks[w].collected = Cardinality(walks[w].found)
             /\ walks[w].collected <= walks[w].limit
             /\ walks[w].stage = "settled" /\ ~walks[w].truncated /\ ~walks[w].timedOut =>
                   walks[w].found = UNION {ToFind(d) : d \in Levels(walks[w]) \ walks[w].unread}
             /\ walks[w].aborted => \A c \in Callers : asks[c].walk = w => asks[c].gone
  <2>1. PICK s : s = walks[w]
    OBVIOUS
  <2>2. WalkInv(s) /\ Counted(s) /\ (s.aborted => \A c \in Callers : asks[c].walk = w => asks[c].gone)
    BY <1>1, <2>1 DEF ScanInv, Asked
  <2>3. /\ s.collected = Cardinality(s.found) /\ s.collected <= s.limit
        /\ s.stage = "settled" /\ ~s.truncated /\ ~s.timedOut =>
              s.found = UNION {ToFind(d) : d \in Levels(s) \ s.unread}
    BY <2>2, Zenon DEF WalkInv, Counted, FoundAll
  <2> QED BY <2>1, <2>2, <2>3, Zenon
<1>4. \A c \in Callers : asks[c].walk # 0 => walks[asks[c].walk].limit = asks[c].limit
  BY DEF ScanInv, Asked
<1>5. Cardinality({w \in DOMAIN walks : walks[w].stage = "walking"}) <= 1
  <2> DEFINE R == {w \in DOMAIN walks : walks[w].stage = "walking"}
  <2>1. \A v, w \in R : v = w
    <3> SUFFICES ASSUME NEW v \in R, NEW w \in R PROVE v = w
      OBVIOUS
    <3>1. v \in Nat /\ w \in Nat
      BY DEF ScanInv
    <3>2. ~(v < w) /\ ~(w < v)
      BY DEF ScanInv, InTurn
    <3> QED BY <3>1, <3>2
  <2> HIDE DEF R
  <2>2. Cardinality(R) <= 1
    <3>1. CASE R = {}
      BY <3>1, FS_EmptySet
    <3>2. CASE R # {}
      <4>1. PICK w : R = {w}
        BY <2>1, <3>2
      <4> QED BY <4>1, FS_Singleton
    <3> QED BY <3>1, <3>2
  <2> QED BY <2>2 DEF R
<1> QED BY <1>2, <1>3, <1>4, <1>5, Zenon DEF ScansAreTrue

\* What a scan reports is what there is: a walk that says it is complete has found every project
\* file and package root in the directories that could be read within the depth, and nothing
\* else; none exceeds its cap, and a disconnect ends only the walk of the caller that went
\* (scanForDevWebUI and its scanDir, resolveSubdir, collectFiles, detectPackageRoot and pump).
THEOREM ScansTellTheTruth == ScanSpec => [](ScanTypeOK /\ ScansAreTrue)
<1>1. ScanInit => ScanInv
  BY ScanInvInit
<1>2. ScanInv /\ [ScanNext]_scanVars => ScanInv'
  BY ScanInvInductive
<1>3. ScanInv => ScanTypeOK /\ ScansAreTrue
  BY ScanInvMeaning
<1> QED BY <1>1, <1>2, <1>3, PTL DEF ScanSpec
=============================================================================
