------------------------------ MODULE PromptAnswers ----------------------------
(* server/src/prompt-answers.ts: a process's expect/send rules, walked against the output   *)
(* as it arrives in chunks. A prompt is a sequence of letters, a rule what it waits for     *)
(* (empty: nothing) and whether it is optional; the rules are given in file order. Colours  *)
(* are escape sequences: one letter that opens them and the letter that ends them.           *)
EXTENDS Naturals, Sequences

CONSTANTS
    Letters,
    Csi, Sgr,       \* those that open and end an escape sequence
    RuleLists,      \* the rule lists tried: sequences of [expect, optional]
    Chunks,         \* the chunks of output
    MaxBuffer,      \* MAX_BUFFER
    MaxFed          \* a bound: chunks fed
ASSUME PromptAssumption ==
    /\ \A rs \in RuleLists : rs \in Seq([expect : Seq(Letters), optional : BOOLEAN])
    /\ {Csi, Sgr} \subseteq Letters /\ Csi # Sgr /\ Chunks \subseteq Seq(Letters)
    /\ {MaxBuffer, MaxFed} \subseteq Nat

VARIABLES
    rules,          \* the process's rules
    armed,          \* the indices still pending, in order
    buffer,         \* output kept for matching
    fired,          \* the indices fired, in order
    printed, fed,   \* history: everything the process wrote, and in how many chunks
    output          \* history: what was left of the chunks without their escape sequences

promptVars == <<rules, armed, buffer, fired, printed, fed, output>>

\* A text without the escape sequences that stand in it whole.
stripAnsi(text) ==
    LET Opens(k) == k \in 1 .. Len(text) - 1 /\ text[k] = Csi /\ text[k + 1] = Sgr
        plain[k \in 0 .. Len(text)] ==
            IF k = 0 THEN << >>
            ELSE IF Opens(k) \/ Opens(k - 1) THEN plain[k - 1] ELSE Append(plain[k - 1], text[k])
    IN  plain[Len(text)]

\* Where `what` ends in `text`, first; 0 when it is not there. matchEnd is that, and 0 letters
\* into the buffer for a rule that waits for nothing.
Ends(text, what) ==
    LET Found == {k \in Len(what) .. Len(text) : SubSeq(text, k - Len(what) + 1, k) = what}
    IN  IF Found = {} THEN 0 ELSE CHOOSE k \in Found : \A j \in Found : k <= j
Matches(i, text) == rules[i].expect = << >> \/ Ends(text, rules[i].expect) > 0
Keep(text, n) == IF Len(text) <= n THEN text ELSE SubSeq(text, Len(text) - n + 1, Len(text))
\* What if: an answered prompt stayed in the buffer.
CutNothing(i, text) == text
Cut(i, text) ==
    IF rules[i].expect = << >> THEN text
    ELSE SubSeq(text, Ends(text, rules[i].expect) + 1, Len(text))

\* The walk reaches a pending rule: a match is consumed, an optional rule passed over, and at a
\* required one the walk stops.
Visit(walk, i) ==
    IF walk.on /\ Matches(i, walk.buffer)
    THEN [walk EXCEPT !.buffer = Cut(i, walk.buffer), !.fired = Append(walk.fired, i)]
    ELSE [walk EXCEPT !.armed = Append(walk.armed, i), !.on = walk.on /\ rules[i].optional]
Walk(text) ==
    LET walk[k \in 0 .. Len(armed)] ==
            IF k = 0 THEN [on |-> TRUE, armed |-> << >>, buffer |-> text, fired |-> fired]
            ELSE Visit(walk[k - 1], armed[k])
    IN  walk[Len(armed)]

\* start(): the leading rules that wait for nothing fire when the process spawns.
Leading(n) ==
    /\ \A i \in 1 .. n : rules[i].expect = << >>
    /\ n < Len(rules) => rules[n + 1].expect # << >>
PromptInit ==
    /\ rules \in RuleLists /\ buffer = << >> /\ printed = << >> /\ fed = 0 /\ output = << >>
    /\ \E n \in 0 .. Len(rules) :
           /\ Leading(n) /\ fired = [i \in 1 .. n |-> i]
           /\ armed = [k \in 1 .. Len(rules) - n |-> k + n]

\* feed(): one chunk, stripped by itself; nothing is kept once no rule is pending.
Feed(chunk) ==
    /\ fed < MaxFed /\ fed' = fed + 1 /\ printed' = printed \o chunk
    /\ output' = output \o stripAnsi(chunk)
    /\ IF armed = << >> THEN UNCHANGED <<armed, buffer, fired>>
       ELSE LET w == Walk(Keep(buffer \o stripAnsi(chunk), MaxBuffer)) IN
                armed' = w.armed /\ buffer' = w.buffer /\ fired' = w.fired
    /\ UNCHANGED rules

PromptNext == \E chunk \in Chunks : Feed(chunk)

-------------------------------------------------------------------------------
PromptTypeOK ==
    /\ Len(buffer) <= MaxBuffer /\ fed \in 0 .. MaxFed
    /\ Len(armed) + Len(fired) = Len(rules)
    /\ {armed[k] : k \in DOMAIN armed} \cup {fired[k] : k \in DOMAIN fired} = DOMAIN rules

\* Where the answers to the rules end in an output that is read at once; behind its end for a
\* rule that it does not answer.
AnswerEnds(rs, text) ==
    LET ends[i \in 0 .. Len(rs)] ==
            IF i = 0 THEN 0
            ELSE LET rest == SubSeq(text, ends[i - 1] + 1, Len(text))
                     end == Ends(rest, rs[i].expect)
                 IN  IF rs[i].expect = << >> THEN ends[i - 1]
                     ELSE IF end > 0 THEN ends[i - 1] + end ELSE Len(text) + 1
    IN  ends

\* The rules that fired, in their order, are those that a text answers, no letter of it
\* answering two of them.
AnsweredBy(text) ==
    /\ \A k \in DOMAIN fired : fired[k] = k
    /\ \A i \in DOMAIN rules : i <= Len(fired) <=> AnswerEnds(rules, text)[i] <= Len(text)
InOrder == \A i \in DOMAIN rules : ~rules[i].optional

\* A rule fires once; a required rule fires after every required rule before it; and where no
\* rule is optional, how the output was cut into chunks makes no difference, as long as no cut
\* went through an escape sequence: the whole output, read without them, answers the rules that
\* fired.
RulesFireInOrder ==
    /\ \A j, k \in DOMAIN fired : fired[j] = fired[k] => j = k
    /\ \A j, k \in DOMAIN fired :
           ~rules[fired[j]].optional /\ ~rules[fired[k]].optional /\ j < k => fired[j] < fired[k]
    /\ InOrder /\ Len(output) <= MaxBuffer /\ output = stripAnsi(printed)
       => AnsweredBy(stripAnsi(printed))

\* Wherever the output is cut, the rules are answered by what it says (refuted: the halves of an
\* escape sequence stay in the buffer and hide the prompt they stand in).
PromptsAreSeenAcrossChunks ==
    InOrder /\ Len(printed) <= MaxBuffer => AnsweredBy(stripAnsi(printed))
================================================================================
