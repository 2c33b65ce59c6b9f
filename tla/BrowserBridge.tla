---------------------------- MODULE BrowserBridge ----------------------------
(***************************************************************************)
(* browser-bridge.ts: a question is fanned out to the live tabs of a dev   *)
(* app, and settled when the tabs have answered, when those that have not  *)
(* are gone, or when its time is up.  Tabs connect, answer and vanish at   *)
(* any moment, during several questions at once.                           *)
(***************************************************************************)
EXTENDS Integers, FiniteSets

CONSTANTS
  Tabs,      \* the tab ids ever handed out (randomUUID: none twice)
  Reqs,      \* the request ids ever handed out
  MaxTabs    \* MAX_TABS

ASSUME BridgeAssumption ==
  IsFiniteSet(Tabs) /\ MaxTabs \in Nat \ {0}

VARIABLES
  tabs,     \* the connected tabs
  order,    \* the connections so far, each tab with its number: the Map's order
  req,      \* per request: its Pending record, and how it ended
  sends     \* the sends under way, as pairs <<request, tab>>

bridgeVars == <<tabs, order, req, sends>>

Question == [at       : {"new", "pending", "resolved", "rejected"},
             sent     : SUBSET Tabs,   \* targets
             tabIds   : SUBSET Tabs,   \* those it still counts on
             answers  : SUBSET Tabs,
             timedOut : BOOLEAN]

Unasked == [at |-> "new", sent |-> {}, tabIds |-> {}, answers |-> {}, timedOut |-> FALSE]

BridgeInit ==
  /\ tabs = {}
  /\ order = [t \in Tabs |-> 0]
  /\ req = [r \in Reqs |-> Unasked]
  /\ sends = {}

-----------------------------------------------------------------------------
Pending(r) == req[r].at = "pending"

\* What if: a request without an answer were left open.
LeftOpen(q, timedOut) ==
  IF q.answers = {} THEN q ELSE [q EXCEPT !.at = "resolved", !.timedOut = timedOut]

\* settle: the timer is cleared and the request forgotten; with no answer at
\* all the promise rejects.
Settled(q, timedOut) ==
  [at |-> IF q.answers = {} THEN "rejected" ELSE "resolved",
   sent |-> q.sent, tabIds |-> q.tabIds, answers |-> q.answers, timedOut |-> timedOut]

\* What if: one answer more were waited for.
MoreAnswers(q) == Cardinality(q.answers) > Cardinality(q.tabIds)

\* Enough answers for the number of tabs it counts on.
Enough(q) == Cardinality(q.answers) >= Cardinality(q.tabIds)

SettledIfEnough(q) == IF Enough(q) THEN Settled(q, FALSE) ELSE q

\* What if: a closed tab were left in the requests that wait for it.
NotForgotten(q, T) == q

\* disconnect for every tab of T, as one pending request sees it.
Forgotten(q, T) ==
  IF q.at = "pending" /\ q.tabIds \cap T # {}
  THEN SettledIfEnough([at |-> "pending", sent |-> q.sent, tabIds |-> q.tabIds \ T,
                        answers |-> q.answers, timedOut |-> FALSE])
  ELSE q

Forget(Q, T) == [r \in Reqs |-> Forgotten(Q[r], T)]

-----------------------------------------------------------------------------
Oldest == CHOOSE t \in tabs : \A u \in tabs : order[t] <= order[u]

\* What if: the limit were never enforced.
NeverFull == {}

\* The tab that has to make room for a new one.
MakesRoom == IF Cardinality(tabs) >= MaxTabs THEN {Oldest} ELSE {}

Connect(t) ==
  /\ order[t] = 0
  /\ tabs' = (tabs \ MakesRoom) \cup {t}
  /\ order' = [order EXCEPT ![t] = Cardinality({u \in Tabs : order[u] # 0}) + 1]
  /\ req' = Forget(req, MakesRoom)
  /\ UNCHANGED sends

\* The page's event stream is aborted.
Disconnect(t) ==
  /\ t \in tabs
  /\ tabs' = tabs \ {t}
  /\ req' = Forget(req, {t})
  /\ UNCHANGED <<order, sends>>

\* request: a filter that matches the tabs T; those of Dead throw at once.
Request(r, T, Dead) ==
  /\ req[r].at = "new" /\ T # {} /\ T \subseteq tabs /\ Dead \subseteq T
  /\ req' = Forget([req EXCEPT ![r] = [at |-> "pending", sent |-> T, tabIds |-> T,
                                       answers |-> {}, timedOut |-> FALSE]], Dead)
  /\ tabs' = tabs \ Dead
  /\ sends' = sends \cup ({r} \X (T \ Dead))
  /\ UNCHANGED order

\* A send ends; a failed one drops its tab, whatever has become of the request.
SendEnds(r, t, ok) ==
  /\ <<r, t>> \in sends
  /\ sends' = sends \ {<<r, t>>}
  /\ tabs' = IF ok THEN tabs ELSE tabs \ {t}
  /\ req' = IF ok \/ t \notin tabs THEN req ELSE Forget(req, {t})
  /\ UNCHANGED order

\* What if: an answer were counted for a request that has already settled.
AcceptsLate(r, t) == req[r].at # "new" /\ t \in tabs /\ t \notin req[r].answers

\* Answers that reply() takes: the others are refused and change nothing.
Accepts(r, t) == Pending(r) /\ t \in tabs /\ t \in req[r].tabIds /\ t \notin req[r].answers

Reply(r, t) ==
  /\ Accepts(r, t)
  /\ req' = [req EXCEPT ![r] = SettledIfEnough(
               [at |-> "pending", sent |-> @.sent, tabIds |-> @.tabIds,
                answers |-> @.answers \cup {t}, timedOut |-> FALSE])]
  /\ UNCHANGED <<tabs, order, sends>>

\* The timer that settle has not cleared.
TimesOut(r) ==
  /\ Pending(r)
  /\ req' = [req EXCEPT ![r] = Settled(@, TRUE)]
  /\ UNCHANGED <<tabs, order, sends>>

BridgeNext ==
  \/ \E t \in Tabs : Connect(t) \/ Disconnect(t)
  \/ \E r \in Reqs, T \in SUBSET Tabs, Dead \in SUBSET Tabs : Request(r, T, Dead)
  \/ \E r \in Reqs, t \in Tabs, ok \in BOOLEAN : SendEnds(r, t, ok)
  \/ \E r \in Reqs, t \in Tabs : Reply(r, t)
  \/ \E r \in Reqs : TimesOut(r)

BridgeSpec == BridgeInit /\ [][BridgeNext]_bridgeVars

\* Timers fire; no page has to answer.
BridgeFairSpec == BridgeSpec /\ \A r \in Reqs : WF_bridgeVars(TimesOut(r))

-----------------------------------------------------------------------------
(* Properties.                                                              *)

\* At most MaxTabs tabs are kept, and a request counts only on tabs it was sent
\* to and takes answers only from them.
BridgeTypeOK ==
  /\ tabs \subseteq Tabs /\ Cardinality(tabs) <= MaxTabs
  /\ order \in [Tabs -> Nat]
  /\ req \in [Reqs -> Question]
  /\ \A r \in Reqs : req[r].tabIds \cup req[r].answers \subseteq req[r].sent
  /\ sends \subseteq Reqs \X Tabs

\* A request that waits, waits for somebody: a tab that is connected and has
\* not answered.  No caller sits out the timeout for tabs that have all
\* answered or gone, by whatever way they went.
WaitsForSomebody ==
  \A r \in Reqs : Pending(r) => \E t \in tabs \cap req[r].tabIds : t \notin req[r].answers

\* timedOut means what its comment says, that the answers are partial: a tab
\* the question was sent to did not answer.
TimedOutIsPartial ==
  \A r \in Reqs : req[r].timedOut => req[r].answers # req[r].sent

\* A promise settles once: late answers, failing sends, closing tabs and timers
\* change nothing about a request that has ended.
SettlesOnce ==
  [][\A r \in Reqs : req[r].at \in {"resolved", "rejected"} => req'[r] = req[r]]_bridgeVars

\* Every question is settled in the end, though no tab need answer.
EveryRequestSettles == \A r \in Reqs : Pending(r) ~> ~Pending(r)

\* What the head of browser-bridge.ts says: a request resolves before its
\* timeout only when every tab has answered (or gone).  (It does not: a tab
\* that answered and then closed is counted against one that is still to come.)
ResolvesWhenAllAnswered ==
  \A r \in Reqs : req[r].at = "resolved" /\ ~req[r].timedOut
                    => req[r].sent \cap tabs \subseteq req[r].answers
=============================================================================
