------------------------------- MODULE LocalAuth -------------------------------
(* server/src/local-auth.ts: pairing requests with their codes and the window of wrong      *)
(* codes, the paired clients, single-use stream tickets, and the cookie file that one       *)
(* daemon writes at boot while its predecessor may still be removing its own.               *)
(* Requests, wrong codes and tickets are numbered in the order they come, so that a Map kept *)
(* in insertion order is a set of numbers; the clock ticks.                                 *)
EXTENDS Naturals, Sequences, FiniteSets

CONSTANTS
    MaxPending, MaxAttempts, MaxFailures,   \* MAX_PENDING, MAX_ATTEMPTS_PER_REQUEST, ...
    PairingTtl, FailureWindow,              \* in ticks
    TicketTtl, MaxStreamTickets,
    MaxOpened, MaxMinted, MaxClock          \* bounds: requests, tickets, ticks

ASSUME LocalAuthAssumption ==
    /\ {MaxPending, MaxAttempts, MaxFailures, MaxStreamTickets} \subseteq Nat \ {0}
    /\ {PairingTtl, FailureWindow, TicketTtl} \subseteq Nat \ {0} /\ MaxClock \in Nat

VARIABLES
    clock,
    pending,        \* the open requests -> how often a wrong code was typed for it
    failures,       \* the wrong codes whose times are in the window
    clients,        \* the requests whose client is in paired-clients.json
    tickets,        \* the live tickets
    cookie,         \* whose secret .cookie holds: "none", "old" or "new"
    leaving,        \* removeCookieFile of the old daemon: "no", "read" (still its own) or "done"
    opened, wrong, paired, minted, spent, overtaken  \* history: see the properties

authVars == <<clock, pending, failures, clients, tickets, cookie, leaving, opened, wrong, paired,
              minted, spent, overtaken>>

AuthInit ==
    /\ clock = 0 /\ pending = [r \in {} |-> 0] /\ failures = {} /\ clients = {} /\ tickets = {}
    /\ cookie = "old" /\ leaving = "no" /\ overtaken = FALSE
    /\ opened = << >> /\ wrong = << >> /\ paired = << >> /\ minted = << >> /\ spent = << >>

\* prunePending: expired requests and wrong codes that left the window.
OpenNow == {r \in DOMAIN pending : opened[r] + PairingTtl > clock}
FailedNow == {k \in failures : clock - wrong[k][2] < FailureWindow}

\* The newest of `S`, so that one more makes at most `most`.
\* What if: room were made only beyond the limit.
MakeRoomLate(S, most) == {x \in S : Cardinality({y \in S : y >= x}) <= most}
MakeRoom(S, most) == {x \in S : Cardinality({y \in S : y >= x}) < most}

AuthTick ==
    /\ clock < MaxClock /\ clock' = clock + 1
    /\ UNCHANGED <<pending, failures, clients, tickets, cookie, leaving, opened, wrong, paired,
                   minted, spent, overtaken>>

StartPairing ==
    /\ Len(opened) < MaxOpened /\ opened' = Append(opened, clock)
    /\ pending' = [r \in MakeRoom(OpenNow, MaxPending) \cup {Len(opened) + 1} |->
                     IF r \in OpenNow THEN pending[r] ELSE 0]
    /\ failures' = FailedNow
    /\ UNCHANGED <<clock, clients, tickets, cookie, leaving, wrong, paired, minted, spent,
                   overtaken>>

\* completePairing: refused with the code unread, paired, or one more wrong code - the last one
\* a request is given drops it.
Keeping(left) == pending' = [r \in left |-> pending[r]]
Refuses(req) ==
    /\ Cardinality(FailedNow) >= MaxFailures \/ req \notin OpenNow
    /\ Keeping(OpenNow) /\ failures' = FailedNow /\ UNCHANGED <<clients, wrong, paired>>
Pairs(req) ==
    /\ Cardinality(FailedNow) < MaxFailures /\ req \in OpenNow
    /\ Keeping(OpenNow \ {req}) /\ failures' = FailedNow
    /\ clients' = clients \cup {req} /\ paired' = Append(paired, <<req, clock>>)
    /\ UNCHANGED wrong
\* What if: a request kept its code after the last guess.
GuessedKeep(req) == OpenNow
Guessed(req) == IF pending[req] + 1 >= MaxAttempts THEN OpenNow \ {req} ELSE OpenNow
Mistypes(req) ==
    /\ Cardinality(FailedNow) < MaxFailures /\ req \in OpenNow
    /\ pending' = [r \in Guessed(req) |-> IF r = req THEN pending[r] + 1 ELSE pending[r]]
    /\ wrong' = Append(wrong, <<req, clock>>) /\ failures' = FailedNow \cup {Len(wrong) + 1}
    /\ UNCHANGED <<clients, paired>>
CompletePairing(req) ==
    /\ Refuses(req) \/ Pairs(req) \/ Mistypes(req)
    /\ UNCHANGED <<clock, tickets, cookie, leaving, opened, minted, spent, overtaken>>

RevokePairedClient(req) ==
    /\ req \in clients /\ clients' = clients \ {req}
    /\ UNCHANGED <<clock, pending, failures, tickets, cookie, leaving, opened, wrong, paired,
                   minted, spent, overtaken>>

\* Tickets: minted by an authorized request, spent by the stream route.
Lives(t) == minted[t] + TicketTtl > clock
MintStreamTicket ==
    /\ Len(minted) < MaxMinted /\ minted' = Append(minted, clock)
    /\ tickets' = MakeRoom({t \in tickets : Lives(t)}, MaxStreamTickets) \cup {Len(minted) + 1}
    /\ UNCHANGED <<clock, pending, failures, clients, cookie, leaving, opened, wrong, paired,
                   spent, overtaken>>
\* What if: an expired ticket was found in the map and let in.
LetInFound(t) == TRUE
LetIn(t) == Lives(t)
ConsumeStreamTicket(t) ==
    /\ t \in tickets /\ tickets' = tickets \ {t}
    /\ spent' = IF LetIn(t) THEN Append(spent, <<t, clock>>) ELSE spent
    /\ UNCHANGED <<clock, pending, failures, clients, cookie, leaving, opened, wrong, paired,
                   minted, overtaken>>

\* The successor boots; the old daemon removes the file it still owns, in two calls.
WriteCookieFile ==
    /\ cookie # "new" /\ ~overtaken /\ cookie' = "new" /\ overtaken' = TRUE
    /\ UNCHANGED <<clock, pending, failures, clients, tickets, leaving, opened, wrong, paired,
                   minted, spent>>
RemoveCookieFile ==
    \/ /\ leaving = "no" /\ leaving' = IF cookie = "old" THEN "read" ELSE "done"
       /\ UNCHANGED cookie
    \/ /\ leaving = "read" /\ leaving' = "done" /\ cookie' = "none"
OldDaemonLeaves ==
    /\ RemoveCookieFile
    /\ UNCHANGED <<clock, pending, failures, clients, tickets, opened, wrong, paired, minted,
                   spent, overtaken>>

\* The three share nothing but the clock.
PairingNext ==
    \/ AuthTick \/ StartPairing
    \/ \E req \in 1 .. MaxOpened : CompletePairing(req)
    \/ \E req \in clients : RevokePairedClient(req)
TicketNext ==
    \/ AuthTick \/ MintStreamTicket
    \/ \E t \in DOMAIN minted : ConsumeStreamTicket(t)
CookieNext == WriteCookieFile \/ OldDaemonLeaves
AuthNext == PairingNext \/ TicketNext \/ CookieNext

-------------------------------------------------------------------------------
AuthTypeOK ==
    /\ clock \in 0 .. MaxClock /\ Cardinality(DOMAIN pending) <= MaxPending
    /\ Cardinality(tickets) <= MaxStreamTickets /\ Cardinality(failures) <= MaxFailures
    /\ clients \cup DOMAIN pending \subseteq DOMAIN opened
    /\ cookie \in {"none", "old", "new"} /\ leaving \in {"no", "read", "done"}

\* A request pairs one client, before it expires; no request takes more than its guesses, and no
\* window of time more than MaxFailures, over however many requests they were spread. A ticket
\* opens one stream, before it expires.
EachIsSpentOnce ==
    /\ \A j, k \in DOMAIN paired : paired[j][1] = paired[k][1] => j = k
    /\ \A k \in DOMAIN paired : paired[k][2] < opened[paired[k][1]] + PairingTtl
    /\ \A r \in DOMAIN opened : Cardinality({k \in DOMAIN wrong : wrong[k][1] = r}) <= MaxAttempts
    /\ \A t \in 0 .. MaxClock : Cardinality({k \in DOMAIN wrong :
           t <= wrong[k][2] /\ wrong[k][2] < t + FailureWindow}) <= MaxFailures
    /\ \A j, k \in DOMAIN spent : spent[j][1] = spent[k][1] => j = k
    /\ \A k \in DOMAIN spent : spent[k][2] < minted[spent[k][1]] + TicketTtl

\* "removing that would lock the CLI out of it" (server/src/local-auth.ts:94-95): the file of
\* the daemon that took over stays, however the old one's removal is timed.
SuccessorKeepsCookie == overtaken => cookie = "new"
================================================================================
