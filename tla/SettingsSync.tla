----------------------------- MODULE SettingsSync -----------------------------
(* connections.ts and http/connections-routes.ts: signing in to a Connections account and     *)
(* keeping the portable settings and the appearance in a document of that account. Requests   *)
(* of the GUI, the callback of a sign-in and the boot share the daemon's state and an engine  *)
(* of the @cnct/connect package, and wait in between for its answers. The package, the        *)
(* account and the other machines are external: they are what this code uses of them.         *)
EXTENDS Naturals

CONSTANTS Callers,      \* requests that can be under way at once
          MaxRequests,  \* how many are made
          MaxEngines    \* how many engines are built

ASSUME SyncAssumption == {MaxRequests, MaxEngines} \subseteq Nat

VARIABLES
    settings,         \* settings.json: a key of PREF_KEYS and one of NEVER_SYNCED
    goesBy,           \* what the manager goes by, of the former
    appearance,       \* the one last said by the GUI or pulled; "none" at first
    enabled, token, identity,  \* connections.json: sync is on; a session is held, and whose
    engine, engines,  \* the engine in use, 0 when none; how many were built
    debounced,        \* engines whose debounced push is still to come
    lastApplied,      \* what the last pull took, of the settings; "none" when nothing
    wants, awaits,    \* what each call wants and waits for; "idle" when there is none
    toTell,           \* what it is to tell the manager
    doc,              \* the account's document, or NoDoc
    foreign, requests \* another machine wrote the document; how many requests were made

stateVars == <<appearance, enabled, token, identity>>
engineVars == <<engine, engines, debounced, lastApplied>>
callVars == <<wants, awaits, toTell>>
syVars == <<settings, goesBy, stateVars, engineVars, callVars, doc, foreign, requests>>

PrefValues == {"x", "y"}
Appearances == {"light", "dark"}
NoDoc == [pref |-> "none", own |-> "none", appearance |-> "none"]

SyInit ==
    /\ settings = [pref |-> "x", own |-> "x"] /\ goesBy = "x" /\ appearance = "none"
    /\ enabled = FALSE /\ token = FALSE /\ identity = FALSE
    /\ engine = 0 /\ engines = 0 /\ debounced = {} /\ lastApplied = "none"
    /\ wants = [c \in Callers |-> "none"] /\ awaits = [c \in Callers |-> "idle"]
    /\ toTell = [c \in Callers |-> "none"]
    /\ doc = NoDoc /\ foreign = FALSE /\ requests = 0

\* What if: everything of the settings is sent.
SendsAll == settings
\* What is sent of the settings: the keys of the allowlist.
collectPrefs == [pref |-> settings.pref, own |-> "none"]
Sent == [pref |-> collectPrefs.pref,
         own  |-> IF collectPrefs.own = "none" THEN doc.own ELSE collectPrefs.own,
         appearance |-> IF appearance = "none" THEN doc.appearance ELSE appearance]

\* What is taken of a document: its keys of the allowlist, whatever else it holds.
applyPrefs(d) == [settings EXCEPT !.pref = IF d.pref = "none" THEN @ ELSE d.pref]
Takes(d) ==
    /\ settings' = applyPrefs(d) /\ lastApplied' = applyPrefs(d).pref
    /\ appearance' = IF d.appearance = "none" THEN appearance ELSE d.appearance

\* What a call wants and, as s says, waits for.
Awaits(c, what, s) ==
    /\ awaits' = [awaits EXCEPT ![c] = s]
    /\ wants' = [wants EXCEPT ![c] = IF s = "idle" THEN "none" ELSE what]
\* A call that ends tells the manager what it toTell.
Finishes(c, what) ==
    /\ Awaits(c, "none", "idle") /\ toTell' = [toTell EXCEPT ![c] = "none"]
    /\ goesBy' = IF what = "none" THEN goesBy ELSE what
Requested(c) == awaits[c] = "idle" /\ requests < MaxRequests /\ requests' = requests + 1

\* With an engine a request goes out at once, if there is a session; a push of the appearance
\* only waits for its debounce.
Uses(c, what, e) ==
    /\ Awaits(c, what, IF what = "forget" THEN "delete"
                       ELSE IF what = "appear" \/ ~token' THEN "idle" ELSE "ask")
    /\ debounced' = IF what = "appear" THEN debounced \cup {e} ELSE debounced
\* The engine at hand, or a new one, for which the package is loaded first.
syncEngine(c, what) ==
    /\ UNCHANGED <<toTell, engine, engines>>
    /\ IF engine = 0 THEN Awaits(c, what, "create") /\ UNCHANGED debounced
       ELSE Uses(c, what, engine)
Creates(c) ==
    /\ awaits[c] = "create" /\ engines < MaxEngines
    /\ UNCHANGED <<settings, goesBy, stateVars, lastApplied, toTell, doc, foreign, requests>>
    /\ engines' = engines + 1 /\ engine' = engines' /\ Uses(c, wants[c], engine')

\* Turning sync on, with the appearance of the GUI that does so.
enable(c, l) ==
    /\ enabled' = TRUE /\ appearance' = (IF l = "none" THEN appearance ELSE l)
    /\ IF token' THEN lastApplied' = "none" /\ syncEngine(c, "enable")
       ELSE UNCHANGED <<lastApplied, callVars, engine, engines, debounced>>
TurnOn(c, l) ==
    /\ Requested(c) /\ UNCHANGED <<settings, goesBy, token, identity, doc, foreign>>
    /\ enable(c, l)

\* The callback of a sign-in, which goes on as turning on does if sync was on before.
SignsIn(c) ==
    /\ Requested(c) /\ ~token /\ token' = TRUE /\ identity' \in BOOLEAN
    /\ IF enabled THEN enable(c, "none")
       ELSE UNCHANGED <<appearance, enabled, engineVars, callVars>>
    /\ UNCHANGED <<settings, goesBy, doc, foreign>>

pullNow(c) ==
    /\ Requested(c) /\ UNCHANGED <<settings, goesBy, stateVars, doc, foreign>>
    /\ lastApplied' = "none" /\ syncEngine(c, "pull")
pushNow(c) ==
    /\ Requested(c) /\ UNCHANGED <<settings, goesBy, stateVars, lastApplied, doc, foreign>>
    /\ syncEngine(c, "push")

updateAppearance(c, l) ==
    /\ Requested(c) /\ appearance' = l
    /\ UNCHANGED <<settings, goesBy, enabled, token, identity, lastApplied, doc, foreign>>
    /\ IF enabled /\ token THEN syncEngine(c, "appear")
       ELSE UNCHANGED <<callVars, engine, engines, debounced>>

\* The answer of the account. An empty one is seeded by turning on, and left alone by a pull.
Known(c, what) ==
    IF identity THEN Finishes(c, what)
    ELSE /\ Awaits(c, wants[c], "identity") /\ UNCHANGED goesBy
         /\ toTell' = [toTell EXCEPT ![c] = what]
AccountAnswers(c) ==
    /\ awaits[c] = "ask"
    /\ UNCHANGED <<enabled, token, identity, engine, engines, debounced, foreign, requests>>
    /\ IF wants[c] = "push" \/ (wants[c] = "enable" /\ doc = NoDoc)
       THEN doc' = Sent /\ UNCHANGED <<settings, appearance, lastApplied>>
       ELSE /\ UNCHANGED doc
            /\ IF doc = NoDoc THEN UNCHANGED <<settings, appearance, lastApplied>>
               ELSE Takes(doc)
    /\ Known(c, IF wants[c] = "push" THEN "none" ELSE lastApplied')
\* No package, no network, no session any more.
AskFails(c) ==
    /\ awaits[c] \in {"create", "ask"} /\ wants[c] # "forget" /\ Finishes(c, "none")
    /\ UNCHANGED <<settings, stateVars, engineVars, doc, foreign, requests>>
\* Who the session is of is asked for if it is not known. A pull looks only now at what was
\* applied.
backfillIdentity(c) ==
    /\ awaits[c] = "identity" /\ identity' \in {identity, TRUE}
    /\ Finishes(c, IF wants[c] = "pull" THEN lastApplied ELSE toTell[c])
    /\ UNCHANGED <<settings, appearance, enabled, token, engineVars, doc, foreign, requests>>

PushFires(e) ==
    /\ e \in debounced /\ debounced' = debounced \ {e}
    /\ UNCHANGED <<settings, goesBy, stateVars, engine, engines, lastApplied, callVars>>
    /\ UNCHANGED <<foreign, requests>>
    /\ \/ token /\ doc' = Sent
       \/ UNCHANGED doc

\* Turning sync off ends the debounce. Forgetting deletes the document, ends the session there,
\* whether or not that works, and then clears what is held here.
Cleared == appearance' = "none" /\ token' = FALSE /\ identity' = FALSE /\ engine' = 0
disable(c, forget) ==
    /\ Requested(c) /\ enabled' = FALSE /\ debounced' = debounced \ {engine}
    /\ UNCHANGED <<settings, goesBy, lastApplied, engines, toTell, doc, foreign>>
    /\ IF ~forget THEN engine' = 0 /\ UNCHANGED <<appearance, token, identity, wants, awaits>>
       ELSE IF ~token THEN Cleared /\ UNCHANGED <<wants, awaits>>
       ELSE /\ Awaits(c, "forget", IF engine = 0 THEN "create" ELSE "delete")
            /\ UNCHANGED <<appearance, token, identity, engine>>
Deletes(c) ==
    /\ awaits[c] = "delete" \/ (awaits[c] = "create" /\ wants[c] = "forget")
    /\ Awaits(c, "forget", "revoke")
    /\ doc' \in {doc, NoDoc}
    /\ UNCHANGED <<settings, goesBy, stateVars, engineVars, toTell, foreign, requests>>
Revokes(c) ==
    /\ awaits[c] = "revoke" /\ Cleared /\ Finishes(c, "none")
    /\ UNCHANGED <<settings, enabled, engines, debounced, lastApplied, doc, foreign, requests>>

\* The GUI changes a setting; the daemon goes by it at once.
PutSettings(key, v) ==
    /\ requests < MaxRequests /\ requests' = requests + 1
    /\ settings' = [settings EXCEPT ![key] = v] /\ goesBy' = settings'.pref
    /\ UNCHANGED <<stateVars, engineVars, callVars, doc, foreign>>

\* Another machine of the account, perhaps with another version's keys.
OtherWrites(d) ==
    /\ ~foreign /\ doc' = d /\ foreign' = TRUE
    /\ UNCHANGED <<settings, goesBy, stateVars, engineVars, callVars, requests>>

\* A shutdown sends what is debounced, or fails to; the next boot pulls if sync is on.
Restarts(c) ==
    /\ requests < MaxRequests /\ requests' = requests + 1
    /\ \/ engine \in debounced /\ enabled /\ token /\ doc' = Sent
       \/ UNCHANGED doc
    /\ debounced' = {} /\ engine' = 0 /\ UNCHANGED engines /\ goesBy' = settings.pref
    /\ toTell' = [d \in Callers |-> "none"]
    /\ wants' = [d \in Callers |-> IF enabled /\ d = c THEN "pull" ELSE "none"]
    /\ awaits' = [d \in Callers |-> IF enabled /\ d = c THEN "create" ELSE "idle"]
    /\ lastApplied' = "none" /\ UNCHANGED <<settings, stateVars, foreign>>

SyNext ==
    \/ \E c \in Callers :
           \/ \E l \in Appearances : TurnOn(c, l) \/ updateAppearance(c, l)
           \/ SignsIn(c) \/ pullNow(c) \/ pushNow(c) \/ Creates(c) \/ AccountAnswers(c) \/ AskFails(c)
           \/ backfillIdentity(c) \/ Deletes(c) \/ Revokes(c) \/ Restarts(c)
           \/ \E forget \in BOOLEAN : disable(c, forget)
    \/ \E e \in 1 .. MaxEngines : PushFires(e)
    \/ \E key \in {"pref", "own"}, v \in PrefValues : PutSettings(key, v)
    \/ \E p, o \in PrefValues, l \in Appearances : OtherWrites([pref |-> p, own |-> o, appearance |-> l])

SySpec == SyInit /\ [][SyNext]_syVars

SyTypeOK ==
    /\ settings \in [{"pref", "own"} -> PrefValues] /\ goesBy \in PrefValues
    /\ appearance \in Appearances \cup {"none"}
    /\ {enabled, token, identity, foreign} \subseteq BOOLEAN
    /\ engine \in 0 .. engines /\ engines \in 0 .. MaxEngines
    /\ debounced \subseteq 1 .. engines
    /\ awaits \in [Callers -> {"idle", "create", "ask", "identity", "delete", "revoke"}]

\* A setting that is never synced changes only when the user of this machine changes it, and
\* this machine never writes one into the account's document: collectPrefs and applyPrefs go by
\* the same allowlist.
OwnStays ==
    [][/\ settings'.own # settings.own => UNCHANGED doc /\ requests' # requests
       /\ doc'.own # doc.own => doc' = NoDoc \/ foreign' # foreign]_syVars
================================================================================
