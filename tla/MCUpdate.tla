------------------------------- MODULE MCUpdate -------------------------------
(* The three parts of the daemon's self-update in one run. They share no state (a daemon   *)
(* updates a source checkout or a compiled release, never both, and the timer waits for    *)
(* whichever it is), so each behaviour is one part's.                                      *)
EXTENDS SourceUpdate, AutoUpdate, ReleaseUpdate

CONSTANTS f1, f2, a1, a2
VARIABLE part

\* Commit 1 changes f1; commit 2 changes f1 again and deletes f2.
TwoCommits == [c \in 0 .. MaxTip |-> IF c = 1 THEN {f1} ELSE IF c = 2 THEN {f1, f2} ELSE {}]
OneRemoved == [c \in 0 .. MaxTip |-> IF c = 2 THEN {f2} ELSE {}]

Init == part \in {"source", "timer", "release"} /\ SuInit /\ AuInit /\ RuInit

\* A bound: a behaviour in which an apply swapped in what another one was extracting, of which
\* AVersionSurvives says nothing more, goes no further.
Next ==
    \/ part = "source"  /\ SuNext /\ UNCHANGED <<part, auVars, ruVars>>
    \/ part = "timer"   /\ AuNext /\ UNCHANGED <<part, suVars, ruVars>>
    \/ part = "release" /\ ~mangled /\ RuNext /\ UNCHANGED <<part, suVars, auVars>>

Spec == Init /\ [][Next]_<<part, suVars, auVars, ruVars>> /\ WF_suVars(ApplyStep)

\* The type invariants of the three parts.
UpdateTypeOK == SuTypeOK /\ AuTypeOK /\ RuTypeOK

\* An update that fails, in any of its steps, costs neither a local edit of the checkout nor
\* the installed program, also when several releases are applied at once: it, the copy set aside
\* or the new one can be run, unless an apply swapped in what another was still extracting.
NothingIsLost == EditsSurvive /\ AVersionSurvives
================================================================================
