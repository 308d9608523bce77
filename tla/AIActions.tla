----------------------------- MODULE AIActions -----------------------------
(***************************************************************************)
(* An action of the language model on one finding: run_ai_action of        *)
(* app/routers/ai.py with the prompt and the check of its answer of        *)
(* app/ai/prompts.py, for concurrent requests about reports of a branch    *)
(* that moves.  The source is read through the provider of the report; the *)
(* model is the environment (GeminiProvider is what comes between).        *)
(*                                                                         *)
(* A finding's id is made from its rule, file, line and title: analyses of *)
(* the same code, and of other code, give the same id.                     *)
(***************************************************************************)
EXTENDS SourceViewer, SequencesExt

CONSTANTS
    Asks, SignedIn,    \* POSTs to /ai, and those of a signed-in user
    Findings,          \* finding id -> [line, end], line 0 when it is in no file; the
                       \*   end is the line when there is none or it is before it
    Targets,           \* pairs of a finding id and an action that are asked for
    Length, Width,     \* commit -> lines of the file the findings are in, and
                       \*   characters of each, the newline among them
    Outputs,           \* what the model may answer
    MaxContextLines,   \* prompts.MAX_CONTEXT_LINES
    MaxContextChars,   \* prompts.MAX_CONTEXT_CHARS
    CacheCapacity

Actions == {"explain", "propose_fix", "generate_test"}

OutputKinds == {"empty", "echoes the delimiter", "insufficient", "prose", "diff", "sections"}

ASSUME TargetsAssumption ==
    /\ SignedIn \subseteq Asks /\ Outputs \subseteq OutputKinds
    /\ Targets \subseteq (DOMAIN Findings) \X Actions
ASSUME FindingsAssumption ==
    \A f \in DOMAIN Findings :
        Findings[f].line \in Nat /\ Findings[f].end \in Nat /\ Findings[f].line <= Findings[f].end
ASSUME ContextAssumption ==
    /\ Length \in [Commits -> Nat \ {0}] /\ Width \in [Commits -> Nat \ {0}]
    /\ MaxContextLines \in Nat \ {0} /\ MaxContextChars \in Nat \ {0}
    /\ CacheCapacity \in Nat \ {0}

VARIABLES
    ask,               \* request -> where it is and what it knows
    cache,             \* answers, the one longest unused first
    \* history
    used               \* keys in the order of their last use

vars == <<githubVars, viewed, ask, cache, used>>

AskSteps == {"idle", "read", "complete", "answered", "failed"}
Nothing == [kind |-> "nothing"]
Unasked == [step |-> "idle", report |-> NoCommit, key |-> <<>>, sent |-> Nothing]
Ended(step, answer) == [step |-> step, sent |-> Nothing, answer |-> answer]

Init ==
    /\ GitHubInit /\ ViewerInit
    /\ ask = [q \in Asks |-> Unasked]
    /\ cache = <<>>
    /\ used = <<>>

-----------------------------------------------------------------------------
(* The cache: an OrderedDict keyed by finding and action.                  *)
Keys(answers) == {answers[i].key : i \in DOMAIN answers}
Cached(key) == CHOOSE a \in ToSet(cache) : a.key = key
At(keys, key) == CHOOSE i \in DOMAIN keys : keys[i] = key
Dropped(keys, key) == IF key \in ToSet(keys) THEN RemoveAt(keys, At(keys, key)) ELSE keys
MoveToEnd(keys, key) == Append(Dropped(keys, key), key)

InOrder(answers) == [i \in DOMAIN answers |-> answers[i].key]
Without(answers, key) ==
    IF key \in Keys(answers) THEN RemoveAt(answers, At(InOrder(answers), key)) ELSE answers

(* Faulty variant of AfterHit: a hit does not count as a use.              *)
AfterHitUnmoved(key) == cache

AfterHit(key) == Append(Without(cache, key), Cached(key))

AfterPut(answer) ==
    LET all == Append(Without(cache, answer.key), answer)
    IN  SubSeq(all, 1 + (IF Len(all) > CacheCapacity THEN Len(all) - CacheCapacity ELSE 0), Len(all))

-----------------------------------------------------------------------------
(* The window of lines around a finding, in a file of n lines.             *)
Window(finding, n) ==
    LET span == finding.end - finding.line + 1
        padded == finding.line - (MaxContextLines - span) \div 2
        from == IF span >= MaxContextLines THEN finding.line
                ELSE IF padded < 1 THEN 1 ELSE padded
        to == IF n < from + MaxContextLines - 1 THEN n ELSE from + MaxContextLines - 1
    IN  [first |-> IF to < 1 THEN 1 ELSE IF from < to THEN from ELSE to, last |-> to]

(* clamp_context, of a window that is within the number of lines: the      *)
(* lines of which something is left.                                       *)
Clamp(lines, width) ==
    LET room == (MaxContextChars + width - 1) \div width
    IN  IF lines.last - lines.first < room THEN lines
        ELSE [lines EXCEPT !.last = lines.first + room - 1]

(* Findings are in the code that was analysed, and quote it when they have *)
(* a line of it.                                                           *)
FindingsOf(r) == {f \in DOMAIN Findings : Findings[f].end <= Length[analysis[r].tree]}
HasSnippet(f) == Findings[f].line > 0
NeedsSource == {"propose_fix", "generate_test"}

(* validate_output.  An answer that says what is missing passes for every  *)
(* action.                                                                 *)
IsValid(action, output) ==
    CASE output \in {"empty", "echoes the delimiter"} -> FALSE
      [] output = "insufficient" -> TRUE
      [] action = "propose_fix" -> output = "diff"
      [] action = "explain" -> output = "sections"
      [] OTHER -> TRUE

-----------------------------------------------------------------------------
(* Up to the first await nothing comes between: is there a model, does the *)
(* report have the finding, is there an answer.                            *)
Ask(q) ==
    /\ ask[q].step = "idle"
    /\ \E r \in Made, key \in Targets :
          \/ /\ key[1] \in FindingsOf(r) /\ key \in Keys(cache)
             /\ ask' = [ask EXCEPT ![q] = Ended("answered", Cached(key))]
             /\ cache' = AfterHit(key)
             /\ used' = MoveToEnd(used, key)
          \/ /\ key[1] \in FindingsOf(r) /\ key \notin Keys(cache)
             /\ ask' = [ask EXCEPT ![q] = [step |-> "read", report |-> r, key |-> key, sent |-> Nothing]]
             /\ UNCHANGED <<cache, used>>
          \/ /\ key[1] \notin FindingsOf(r)
             /\ ask' = [ask EXCEPT ![q] = Ended("failed", Nothing)]
             /\ UNCHANGED <<cache, used>>
    /\ UNCHANGED <<githubVars, viewed>>

(* AIUnavailableError, before anything is looked at.                       *)
AskUnavailable(q) ==
    /\ ask[q].step = "idle" /\ Trouble
    /\ ask' = [ask EXCEPT ![q] = Ended("failed", Nothing)]
    /\ UNCHANGED <<head, private, gone, analysis, moved, viewed, cache, used>>

(* _wider_source: whatever keeps the file from being read leaves the lines *)
(* the finding quotes, and an action that needs source stops without any.  *)
Send(q, sent) ==
    ask' = [ask EXCEPT ![q] = IF sent.kind = "nothing" /\ @.key[2] \in NeedsSource
                              THEN Ended("failed", Nothing)
                              ELSE [@ EXCEPT !.sent = sent, !.step = "complete"]]

Snippet(q) ==
    IF HasSnippet(ask[q].key[1]) THEN [kind |-> "snippet", of |-> analysis[ask[q].report].tree]
                                 ELSE Nothing

Wider(q) ==
    LET commit == ReadAt(ask[q].report, q \in SignedIn)
        lines == Window(Findings[ask[q].key[1]], Length[commit])
    IN  [kind |-> "window", of |-> commit, described |-> lines, lines |-> Clamp(lines, Width[commit])]

Readable(q) ==
    /\ Findings[ask[q].key[1]].line > 0
    /\ ReadAt(ask[q].report, q \in SignedIn) # NoCommit

(* Faulty variant of ReadWider: tries until the file can be read.          *)
ReadWiderInsists(q) ==
    /\ ask[q].step = "read"
    /\ \/ Readable(q) /\ Send(q, Wider(q))
       \/ Findings[ask[q].key[1]].line = 0 /\ Send(q, Snippet(q))
    /\ UNCHANGED <<githubVars, viewed, cache, used>>

ReadWider(q) ==
    /\ ask[q].step = "read"
    /\ \/ Readable(q) /\ Send(q, Wider(q)) /\ UNCHANGED troubles
       \/ ~ Readable(q) /\ Send(q, Snippet(q)) /\ UNCHANGED troubles
       \/ Trouble /\ Send(q, Snippet(q))
    /\ UNCHANGED <<head, private, gone, analysis, moved, viewed, cache, used>>

Answer(q, output) == [kind |-> output, key |-> ask[q].key, of |-> ask[q].sent.kind]

(* Faulty variant of Answered: kept before it is looked at.                *)
AnsweredUnseen(q, output) ==
    /\ cache' = AfterPut(Answer(q, output))
    /\ used' = MoveToEnd(used, ask[q].key)
    /\ ask' = [ask EXCEPT ![q] = IF IsValid(@.key[2], output) THEN Ended("answered", Answer(q, output))
                                                            ELSE Ended("failed", Nothing)]

Answered(q, output) ==
    IF IsValid(ask[q].key[2], output)
    THEN /\ cache' = AfterPut(Answer(q, output))
         /\ used' = MoveToEnd(used, ask[q].key)
         /\ ask' = [ask EXCEPT ![q] = Ended("answered", Answer(q, output))]
    ELSE /\ ask' = [ask EXCEPT ![q] = Ended("failed", Nothing)]
         /\ UNCHANGED <<cache, used>>

(* The model answers in its own time; the answer is checked, kept and      *)
(* returned in one go.                                                     *)
Complete(q) ==
    /\ ask[q].step = "complete"
    /\ \E output \in Outputs : Answered(q, output)
    /\ UNCHANGED <<githubVars, viewed>>

(* Every model of the chain fails.                                         *)
CompleteFails(q) ==
    /\ ask[q].step = "complete" /\ Trouble
    /\ ask' = [ask EXCEPT ![q] = Ended("failed", Nothing)]
    /\ UNCHANGED <<head, private, gone, analysis, moved, viewed, cache, used>>

AskStep(q) == Ask(q) \/ AskUnavailable(q) \/ ReadWider(q) \/ Complete(q) \/ CompleteFails(q)

Next ==
    \/ GitHubStep /\ UNCHANGED <<viewed, ask, cache, used>>
    \/ \E v \in Viewings : View(v) /\ UNCHANGED <<ask, cache, used>>
    \/ \E q \in Asks : AskStep(q)

Spec == Init /\ [][Next]_vars

(* GitHub answers within github_timeout_seconds and the model within the   *)
(* timeouts of the provider, whose CompletesEnd this is.                   *)
FairSpec == Spec /\ \A q \in Asks : WF_vars(ReadWider(q)) /\ WF_vars(Complete(q))
-----------------------------------------------------------------------------
Sent == {q \in Asks : ask[q].step = "complete" /\ ask[q].sent.kind # "nothing"}
FindingOf(q) == Findings[ask[q].key[1]]

(* What the model is sent, and what a reader is shown, is the code that    *)
(* was analysed, unless the branch moved between the two requests of the   *)
(* analysis; and the lines of it that are sent have the finding among      *)
(* them, if the window is not cut: line 47 is line 47.                     *)
SentIsAnalysed ==
    /\ \A v \in Shown :
        viewed[v].report \notin moved => viewed[v].of = analysis[viewed[v].report].tree
    /\ \A q \in Sent :
        LET sent == ask[q].sent
        IN  /\ ask[q].report \notin moved => sent.of = analysis[ask[q].report].tree
            /\ sent.kind = "window" =>
                  /\ 1 <= sent.described.first /\ sent.described.last <= Length[sent.of]
                  /\ sent.described.last - sent.described.first < MaxContextLines
                  /\ sent.lines = sent.described /\ FindingOf(q).line <= Length[sent.of] =>
                        FindingOf(q).line \in sent.lines.first..sent.lines.last

(* _wider_source centres the window because clamp_context "truncates from  *)
(* the start, so a window that overflowed would lose the very lines the    *)
(* finding points at".                                                     *)
FindingIsSent ==
    \A q \in Sent :
        ask[q].sent.kind = "window" /\ FindingOf(q).line <= Length[ask[q].sent.of] =>
            FindingOf(q).line \in ask[q].sent.lines.first..ask[q].sent.lines.last

(* The cache has the answers that were used last, as many as fit, and one  *)
(* for each key, however requests for the same overlap: two that both miss *)
(* leave one answer.                                                       *)
CacheKeepsLatest ==
    /\ InOrder(cache) = SubSeq(used, 1 + Len(used) - Len(cache), Len(used))
    /\ Len(cache) = (IF Len(used) < CacheCapacity THEN Len(used) ELSE CacheCapacity)

(* An answer that is kept, and one that is shown, has the form its action  *)
(* asks for and was not written about nothing: a rejected answer is not    *)
(* given to the next who asks.                                             *)
OnlyValidAnswers ==
    \A a \in ToSet(cache) \cup {ask[q].answer : q \in {q \in Asks : ask[q].step = "answered"}} :
        /\ a.kind # "nothing" /\ IsValid(a.key[2], a.kind)
        /\ a.key[2] \in NeedsSource => a.of # "nothing"

(* Whoever asks is answered or told why not.                               *)
AsksEnd == \A q \in Asks : ask[q].step # "idle" ~> ask[q].step \in {"answered", "failed"}
=============================================================================
