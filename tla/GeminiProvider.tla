--------------------------- MODULE GeminiProvider ---------------------------
(***************************************************************************)
(* Calls to the language model: the routing over a chain of models of      *)
(* app/ai/gemini.py and the CircuitBreaker of app/ai/provider.py, shared by *)
(* every request of the process.                                           *)
(*                                                                         *)
(* The provider is reached by await, so calls that were let through before *)
(* the circuit opened go on while it is open.  What Gemini answers, and    *)
(* when, is up to the environment.                                         *)
(***************************************************************************)
EXTENDS Naturals, Sequences, FiniteSets

CONSTANTS
    Calls,             \* requests that may call the provider at a time
    Chain,             \* the models to try in order, primary first
    FailureThreshold,  \* ai_circuit_failure_threshold
    Cooldown           \* ai_circuit_cooldown_seconds, in ticks of the clock

Models == {Chain[i] : i \in DOMAIN Chain}

ASSUME ChainAssumption == Chain \in Seq(Models) /\ Chain # <<>>
ASSUME ThresholdAssumption == FailureThreshold \in Nat
ASSUME CooldownAssumption == Cooldown \in Nat
ASSUME CallsAssumption == IsFiniteSet(Calls)

VARIABLES
    breaker,      \* the CircuitBreaker
    unreachable,  \* models that answered 404
    call,         \* where each call stands
    heard,        \* history: the models whose text the caller received
    earned        \* history: what happened since a success or a cooldown

vars == <<breaker, unreachable, call, heard, earned>>

Primary == Chain[1]

Idle == [way |-> "none", left |-> <<>>, produced |-> FALSE]
Ways == {"complete", "stream"}
Attempting == [way : Ways, left : Seq(Models) \ {<<>>}, produced : BOOLEAN]

\* opened: _opened_at is set; elapsed: the time since, up to the cooldown.
Breakers == [failures : Nat, opened : BOOLEAN, elapsed : 0..Cooldown]

TypeOK ==
    /\ breaker \in Breakers
    /\ unreachable \subseteq Models
    /\ call \in [Calls -> Attempting \cup {Idle}]
    /\ heard \in [Calls -> SUBSET Models]
    /\ earned \in [failed : Nat, signalled : BOOLEAN]

-----------------------------------------------------------------------------
(* CircuitBreaker.                                                         *)

Threshold == IF FailureThreshold > 1 THEN FailureThreshold ELSE 1

Closed == [failures |-> 0, opened |-> FALSE, elapsed |-> 0]

CooledDown(b) == b.opened /\ b.elapsed >= Cooldown
IsOpen(b) == b.opened /\ ~CooledDown(b)

\* Faulty variant: the cooldown opens the way and keeps the count.
AfterLookKeepsCount(b) ==
    IF CooledDown(b) THEN [b EXCEPT !.opened = FALSE, !.elapsed = 0] ELSE b

\* Faulty variant: a look at an open circuit starts its cooldown again.
AfterLookRestarts(b) == IF CooledDown(b) THEN Closed ELSE [b EXCEPT !.elapsed = 0]

\* is_open closes the circuit when it is read after the cooldown.
AfterLook(b) == IF CooledDown(b) THEN Closed ELSE b

RecordSuccess(b) == Closed

RecordFailure(b) ==
    IF b.failures + 1 >= Threshold
    THEN [failures |-> b.failures + 1, opened |-> TRUE, elapsed |-> 0]
    ELSE [b EXCEPT !.failures = @ + 1]

TripNow(b) == [failures |-> Threshold, opened |-> TRUE, elapsed |-> 0]

-----------------------------------------------------------------------------
(* GeminiProvider.                                                         *)

Nothing == [failed |-> 0, signalled |-> FALSE]

Init ==
    /\ breaker = Closed
    /\ unreachable = {}
    /\ call = [c \in Calls |-> Idle]
    /\ heard = [c \in Calls |-> {}]
    /\ earned = Nothing

\* _attempts: the reachable models, or the primary when there are none.
Attempts ==
    LET usable == SelectSeq(Chain, LAMBDA m : m \notin unreachable)
    IN  IF usable = <<>> THEN <<Primary>> ELSE usable

\* status, as /health and the AI endpoint ask for it.
Status ==
    /\ breaker' = AfterLook(breaker)
    /\ earned' = IF CooledDown(breaker) THEN Nothing ELSE earned
    /\ UNCHANGED <<unreachable, call, heard>>

\* Faulty variant: the guard looks at the circuit and lets everyone through.
BeginUnguarded(c) ==
    /\ call[c] = Idle
    /\ breaker' = AfterLook(breaker)
    /\ earned' = IF CooledDown(breaker) THEN Nothing ELSE earned
    /\ \E way \in Ways :
          call' = [call EXCEPT ![c] = [way |-> way, left |-> Attempts, produced |-> FALSE]]
    /\ heard' = [heard EXCEPT ![c] = {}]
    /\ UNCHANGED unreachable

\* complete or stream: _guard, then the first request of the chain.  A call that
\* finds the circuit open is refused and leaves no trace.
Begin(c) ==
    /\ call[c] = Idle
    /\ ~IsOpen(breaker)
    /\ breaker' = AfterLook(breaker)
    /\ earned' = IF CooledDown(breaker) THEN Nothing ELSE earned
    /\ \E way \in Ways :
          call' = [call EXCEPT ![c] = [way |-> way, left |-> Attempts, produced |-> FALSE]]
    /\ heard' = [heard EXCEPT ![c] = {}]
    /\ UNCHANGED unreachable

Ongoing(c) == call[c] # Idle
Model(c) == Head(call[c].left)

\* A chunk with text in it arrives and is handed to the caller.
Chunk(c) ==
    /\ Ongoing(c)
    /\ call[c].way = "stream"
    /\ call' = [call EXCEPT ![c].produced = TRUE]
    /\ heard' = [heard EXCEPT ![c] = @ \cup {Model(c)}]
    /\ UNCHANGED <<breaker, unreachable, earned>>

\* The model answered to the end.
Succeed(c) ==
    /\ Ongoing(c)
    /\ breaker' = RecordSuccess(breaker)
    /\ earned' = Nothing
    /\ call' = [call EXCEPT ![c] = Idle]
    /\ UNCHANGED <<unreachable, heard>>

\* _fatal: the failure is the key's, or no model of the chain is left.
Fatal(c) ==
    /\ breaker' = TripNow(breaker)
    /\ earned' = [earned EXCEPT !.signalled = TRUE]
    /\ call' = [call EXCEPT ![c] = Idle]
    /\ UNCHANGED heard

\* _exhausted: the call failed as a whole.
Exhausted(c) ==
    /\ breaker' = RecordFailure(breaker)
    /\ earned' = [earned EXCEPT !.failed = @ + 1]
    /\ call' = [call EXCEPT ![c] = Idle]
    /\ UNCHANGED heard

\* Request the next model of the chain.
NextModel(c) ==
    /\ call' = [call EXCEPT ![c].left = Tail(@), ![c].produced = FALSE]
    /\ UNCHANGED <<breaker, heard, earned>>

\* Faulty variant: every model that fails counts as a failure of the provider.
RouteCountsEachModel(c) ==
    IF call[c].produced \/ Len(call[c].left) = 1 THEN Exhausted(c)
    ELSE /\ breaker' = RecordFailure(breaker)
         /\ call' = [call EXCEPT ![c].left = Tail(@)]
         /\ UNCHANGED <<heard, earned>>

\* Faulty variant: a stream that broke off goes on with the next model.
RouteAfterText(c) == IF Len(call[c].left) = 1 THEN Exhausted(c) ELSE NextModel(c)

\* Faulty variant: a model that failed goes to the back of the queue.
RouteRoundRobin(c) ==
    IF call[c].produced THEN Exhausted(c)
    ELSE /\ call' = [call EXCEPT ![c].left = Append(Tail(@), Head(@))]
         /\ UNCHANGED <<breaker, heard, earned>>

\* What follows a failure of one model: never another one once the caller holds
\* part of an answer.
Route(c) ==
    IF call[c].produced \/ Len(call[c].left) = 1 THEN Exhausted(c) ELSE NextModel(c)

\* 429, 401, 403: the quota or the key.
KeyRefused(c) ==
    /\ Ongoing(c)
    /\ Fatal(c)
    /\ UNCHANGED unreachable

\* 404: _note_unreachable, then the next model unless none is left at all.
ModelMissing(c) ==
    /\ Ongoing(c)
    /\ unreachable' = unreachable \cup {Model(c)}
    /\ IF Models \subseteq unreachable' THEN Fatal(c) ELSE Route(c)

\* A timeout, a fault of Google's, or anything else.
AttemptFails(c) ==
    /\ Ongoing(c)
    /\ Route(c)
    /\ UNCHANGED unreachable

\* The caller of a stream stops listening: nothing is recorded.
Abandon(c) ==
    /\ Ongoing(c)
    /\ call[c].way = "stream"
    /\ call' = [call EXCEPT ![c] = Idle]
    /\ UNCHANGED <<breaker, unreachable, heard, earned>>

\* Time passes.  Nothing looks at the clock while the circuit is closed.
Tick ==
    /\ IsOpen(breaker)
    /\ breaker' = [breaker EXCEPT !.elapsed = @ + 1]
    /\ UNCHANGED <<unreachable, call, heard, earned>>

Answered(c) == Succeed(c) \/ KeyRefused(c) \/ ModelMissing(c) \/ AttemptFails(c)

Next ==
    \/ \E c \in Calls : Begin(c) \/ Chunk(c) \/ Answered(c) \/ Abandon(c)
    \/ Status
    \/ Tick

(* Time passes, and asyncio.wait_for ends every attempt of complete in     *)
(* bounded time.  stream has no timeout, and nobody is obliged to call or  *)
(* to ask for the status.                                                  *)
Fairness ==
    /\ WF_vars(Tick)
    /\ \A c \in Calls : WF_vars(call[c].way = "complete" /\ Answered(c))

Spec == Init /\ [][Next]_vars
FairSpec == Spec /\ Fairness

-----------------------------------------------------------------------------
(* Properties.                                                             *)

\* The circuit is open, or waiting to be found cooled down, exactly when the
\* count is at the threshold: no order of late failures, successes and looks at
\* the status leaves a closed circuit that one failure would open again.
CountMatchesCircuit == breaker.opened <=> breaker.failures >= Threshold

\* What is counted beyond the threshold are the calls that were already under way
\* when the circuit opened: an open circuit lets no new call through.
LateFailuresAreBounded == breaker.failures < Threshold + Cardinality(Calls)

\* "A single model failing is a routing event, not a provider failure": the
\* circuit is open only after a signal about the key or the whole chain, or after
\* that many calls that failed as a whole with no success in between.
CircuitIsEarned == breaker.opened => earned.signalled \/ earned.failed >= Threshold

\* "Restarting on another model would splice two different responses together":
\* a caller hears one model, whatever breaks off in the middle.
OneVoice == \A c \in Calls : \A m, n \in heard[c] : m = n

\* "Failures must not latch permanently": whatever fails, and whenever, again and
\* again the provider is available to whoever asks.
NeverLatches == []<>(~IsOpen(AfterLook(breaker)))

\* Every complete comes back with an answer or an error.
CompletesEnd == \A c \in Calls : (call[c].way = "complete") ~> (call[c].way # "complete")

=============================================================================
