----------------------- MODULE GeminiProvider_proofs -----------------------
(***************************************************************************)
(* What the circuit breaker and the routing of GeminiProvider guarantee,    *)
(* for any chain of models, any threshold, any cooldown and any number of   *)
(* concurrent calls.                                                       *)
(***************************************************************************)
EXTENDS GeminiProvider, FiniteSetTheorems, TLAPS

\* The threshold that max(1, ...) makes of the setting is a positive number.
LEMMA ThresholdType == Threshold \in Nat \ {0}
  BY ThresholdAssumption DEF Threshold

-----------------------------------------------------------------------------
(* The circuit: count and switch move together.                            *)

CircuitInv ==
    /\ breaker \in Breakers
    /\ earned \in [failed : Nat, signalled : BOOLEAN]
    /\ CountMatchesCircuit
    /\ ~earned.signalled => earned.failed = breaker.failures

\* Each operation of CircuitBreaker keeps its type and the agreement.
Sound(b) == b \in Breakers /\ (b.opened <=> b.failures >= Threshold)

LEMMA ClosedIsSound == Sound(Closed)
  BY ThresholdType, CooldownAssumption DEF Sound, Closed, Breakers

LEMMA AfterLookIsSound == ASSUME NEW b, Sound(b) PROVE Sound(AfterLook(b))
  BY ClosedIsSound DEF AfterLook

LEMMA RecordFailureIsSound == ASSUME NEW b, Sound(b) PROVE Sound(RecordFailure(b))
  <1>1. CASE b.failures + 1 >= Threshold
    BY <1>1, ThresholdType, CooldownAssumption DEF Sound, RecordFailure, Breakers
  <1>2. CASE ~(b.failures + 1 >= Threshold)
    BY <1>2, ThresholdType DEF Sound, RecordFailure, Breakers
  <1> QED BY <1>1, <1>2

LEMMA TripNowIsSound == ASSUME NEW b PROVE Sound(TripNow(b))
  BY ThresholdType, CooldownAssumption DEF Sound, TripNow, Breakers

LEMMA CircuitInit == Init => CircuitInv
  BY ClosedIsSound DEF Init, CircuitInv, CountMatchesCircuit, Nothing, Sound, Closed

LEMMA CircuitStep == CircuitInv /\ [Next]_vars => CircuitInv'
  <1> SUFFICES ASSUME CircuitInv, [Next]_vars PROVE CircuitInv'
    OBVIOUS
  <1>0. Sound(breaker)
    BY DEF CircuitInv, Sound, CountMatchesCircuit
  <1>a. ASSUME Sound(breaker'), earned' \in [failed : Nat, signalled : BOOLEAN],
               ~earned'.signalled => earned'.failed = breaker'.failures
        PROVE  CircuitInv'
    BY <1>a DEF CircuitInv, Sound, CountMatchesCircuit
  <1>b. ASSUME breaker' = AfterLook(breaker),
               earned' = IF CooledDown(breaker) THEN Nothing ELSE earned
        PROVE  CircuitInv'
    BY <1>a, <1>b, <1>0, AfterLookIsSound DEF CircuitInv, AfterLook, Nothing, Closed
  <1>c. ASSUME UNCHANGED <<breaker, earned>> PROVE CircuitInv'
    BY <1>a, <1>c, <1>0 DEF CircuitInv
  <1>d. ASSUME NEW c \in Calls, Exhausted(c) PROVE CircuitInv'
    <2>1. breaker'.failures = breaker.failures + 1
      BY <1>d DEF Exhausted, RecordFailure, CircuitInv, Breakers
    <2>2. Sound(breaker')
      BY <1>d, <1>0, RecordFailureIsSound DEF Exhausted
    <2> QED BY <1>a, <1>d, <2>1, <2>2 DEF Exhausted, CircuitInv, Breakers
  <1>e. ASSUME NEW c \in Calls, Fatal(c) PROVE CircuitInv'
    BY <1>a, <1>e, TripNowIsSound DEF Fatal, CircuitInv
  <1>f. ASSUME NEW c \in Calls, Route(c) PROVE CircuitInv'
    BY <1>c, <1>d, <1>f DEF Route, NextModel
  <1>1. ASSUME NEW c \in Calls, Begin(c) PROVE CircuitInv'
    BY <1>b, <1>1 DEF Begin
  <1>2. ASSUME NEW c \in Calls, Chunk(c) PROVE CircuitInv'
    BY <1>c, <1>2 DEF Chunk
  <1>3. ASSUME NEW c \in Calls, Succeed(c) PROVE CircuitInv'
    BY <1>a, <1>3, ClosedIsSound DEF Succeed, RecordSuccess, Nothing, Closed
  <1>4. ASSUME NEW c \in Calls, KeyRefused(c) PROVE CircuitInv'
    BY <1>e, <1>4 DEF KeyRefused
  <1>5. ASSUME NEW c \in Calls, ModelMissing(c) PROVE CircuitInv'
    BY <1>e, <1>f, <1>5 DEF ModelMissing
  <1>6. ASSUME NEW c \in Calls, AttemptFails(c) PROVE CircuitInv'
    BY <1>f, <1>6 DEF AttemptFails
  <1>7. ASSUME NEW c \in Calls, Abandon(c) PROVE CircuitInv'
    BY <1>c, <1>7 DEF Abandon
  <1>8. CASE Status
    BY <1>b, <1>8 DEF Status
  <1>9. CASE Tick
    <2>1. breaker'.failures = breaker.failures /\ breaker'.opened = breaker.opened
      BY <1>9 DEF Tick, CircuitInv, Breakers
    <2>2. breaker' \in Breakers
      BY <1>9, CooldownAssumption DEF Tick, CircuitInv, Breakers, IsOpen, CooledDown
    <2> QED BY <1>a, <1>0, <1>9, <2>1, <2>2 DEF Tick, Sound, CircuitInv
  <1>10. CASE UNCHANGED vars
    BY <1>c, <1>10 DEF vars
  <1> QED
    BY <1>1, <1>2, <1>3, <1>4, <1>5, <1>6, <1>7, <1>8, <1>9, <1>10 DEF Next, Answered

\* The count and the switch of the circuit breaker agree in every reachable state,
\* however the calls that share it interleave.
THEOREM CircuitAgrees == Spec => []CountMatchesCircuit
  <1>1. CircuitInv => CountMatchesCircuit
    BY DEF CircuitInv
  <1> QED BY <1>1, CircuitInit, CircuitStep, PTL DEF Spec

\* The circuit opens only for a signal about the key or the chain, or for as many
\* failed calls in a row as the threshold says.
THEOREM OpensWhenEarned == Spec => []CircuitIsEarned
  <1>1. CircuitInv => CircuitIsEarned
    BY ThresholdType DEF CircuitInv, CountMatchesCircuit, CircuitIsEarned, Breakers
  <1> QED BY <1>1, CircuitInit, CircuitStep, PTL DEF Spec

-----------------------------------------------------------------------------
(* A stream speaks with one voice.                                         *)

Shape == {"way", "left", "produced"}

\* Until the current model has produced text the caller has heard nobody.
VoiceInv ==
    /\ call = [c \in Calls |-> call[c]]
    /\ heard = [c \in Calls |-> heard[c]]
    /\ \A c \in Calls : call[c] = [f \in Shape |-> call[c][f]]
    /\ \A c \in Calls : Ongoing(c) /\ ~call[c].produced => heard[c] = {}
    /\ \A c \in Calls : Ongoing(c) /\ call[c].produced => heard[c] \subseteq {Model(c)}
    /\ OneVoice

LEMMA VoiceInit == Init => VoiceInv
  <1> SUFFICES ASSUME Init PROVE VoiceInv
    OBVIOUS
  <1>1. \A c \in Calls : call[c] = Idle /\ heard[c] = {}
    BY DEF Init
  <1>2. Idle = [f \in Shape |-> Idle[f]]
    BY DEF Idle, Shape
  <1> QED BY <1>1, <1>2 DEF Init, VoiceInv, Ongoing, OneVoice

LEMMA VoiceStep == VoiceInv /\ [Next]_vars => VoiceInv'
  <1> SUFFICES ASSUME VoiceInv, [Next]_vars PROVE VoiceInv'
    OBVIOUS
  \* A step that changes one call.
  <1>a. ASSUME NEW c \in Calls,
               call' = [call EXCEPT ![c] = call'[c]],
               heard' = [heard EXCEPT ![c] = heard'[c]],
               call'[c] = [f \in Shape |-> call'[c][f]],
               call'[c] # Idle /\ ~call'[c].produced => heard'[c] = {},
               call'[c] # Idle /\ call'[c].produced =>
                  heard'[c] \subseteq {Head(call'[c].left)},
               \A m, n \in heard'[c] : m = n
        PROVE  VoiceInv'
    <2>1. \A d \in Calls \ {c} : call'[d] = call[d] /\ heard'[d] = heard[d]
      BY <1>a DEF VoiceInv
    <2>2. call' = [d \in Calls |-> call'[d]] /\ heard' = [d \in Calls |-> heard'[d]]
      BY <1>a DEF VoiceInv
    <2>3. \A d \in Calls : call'[d] = [f \in Shape |-> call'[d][f]]
      BY <1>a, <2>1 DEF VoiceInv
    <2>4. \A d \in Calls : call'[d] # Idle /\ ~call'[d].produced => heard'[d] = {}
      BY <1>a, <2>1 DEF VoiceInv, Ongoing
    <2>5. \A d \in Calls : call'[d] # Idle /\ call'[d].produced =>
                              heard'[d] \subseteq {Head(call'[d].left)}
      BY <1>a, <2>1 DEF VoiceInv, Ongoing, Model
    <2>6. \A d \in Calls : \A m, n \in heard'[d] : m = n
      BY <1>a, <2>1 DEF VoiceInv, OneVoice
    <2> QED BY <2>2, <2>3, <2>4, <2>5, <2>6 DEF VoiceInv, Ongoing, Model, OneVoice
  <1>b. ASSUME UNCHANGED <<call, heard>> PROVE VoiceInv'
    BY <1>b DEF VoiceInv, Ongoing, Model, OneVoice
  <1>c. Idle = [f \in Shape |-> Idle[f]]
    BY DEF Idle, Shape
  <1>d. ASSUME NEW c \in Calls, call' = [call EXCEPT ![c] = Idle], UNCHANGED heard
        PROVE  VoiceInv'
    <2>1. call'[c] = Idle /\ call' = [call EXCEPT ![c] = call'[c]]
      BY <1>d DEF VoiceInv
    <2>2. heard' = [heard EXCEPT ![c] = heard'[c]]
      BY <1>d DEF VoiceInv
    <2>3. \A m, n \in heard'[c] : m = n
      BY <1>d DEF VoiceInv, OneVoice
    <2> QED BY <1>a, <1>c, <2>1, <2>2, <2>3
  <1>e. ASSUME NEW c \in Calls, Ongoing(c), Route(c) PROVE VoiceInv'
    <2>1. CASE call[c].produced \/ Len(call[c].left) = 1
      BY <1>d, <1>e, <2>1 DEF Route, Exhausted
    <2>2. CASE ~(call[c].produced \/ Len(call[c].left) = 1)
      <3> DEFINE r == [call[c] EXCEPT !.left = Tail(@), !.produced = FALSE]
      <3>1. call' = [call EXCEPT ![c] = r] /\ UNCHANGED heard
        BY <1>e, <2>2 DEF Route, NextModel, VoiceInv
      <3>2. r = [f \in Shape |-> r[f]] /\ ~r.produced
        BY DEF VoiceInv, Shape
      <3>3. heard'[c] = {} /\ heard' = [heard EXCEPT ![c] = heard'[c]]
        BY <1>e, <2>2, <3>1 DEF VoiceInv
      <3>4. call'[c] = r
        BY <3>1 DEF VoiceInv
      <3> HIDE DEF r
      <3> QED BY <1>a, <3>1, <3>2, <3>3, <3>4
    <2> QED BY <2>1, <2>2
  <1>1. ASSUME NEW c \in Calls, Begin(c) PROVE VoiceInv'
    <2>1. PICK way \in Ways :
            call' = [call EXCEPT ![c] = [way |-> way, left |-> Attempts, produced |-> FALSE]]
      BY <1>1 DEF Begin
    <2> DEFINE r == [way |-> way, left |-> Attempts, produced |-> FALSE]
    <2>2. r = [f \in Shape |-> r[f]] /\ ~r.produced
      BY DEF Shape
    <2>3. heard' = [heard EXCEPT ![c] = {}] /\ heard'[c] = {}
      BY <1>1 DEF Begin, VoiceInv
    <2>4. call'[c] = r
      BY <2>1 DEF VoiceInv
    <2> HIDE DEF r
    <2> QED BY <1>a, <2>1, <2>2, <2>3, <2>4 DEF r
  <1>2. ASSUME NEW c \in Calls, Chunk(c) PROVE VoiceInv'
    <2> DEFINE r == [call[c] EXCEPT !.produced = TRUE]
               h == heard[c] \cup {Model(c)}
    <2>1. call' = [call EXCEPT ![c] = r] /\ heard' = [heard EXCEPT ![c] = h]
      BY <1>2 DEF Chunk
    <2>2. r = [f \in Shape |-> r[f]] /\ r.produced /\ r.left = call[c].left
      BY DEF VoiceInv, Shape
    <2>3. h \subseteq {Head(r.left)}
      BY <1>2, <2>2 DEF Chunk, VoiceInv, Model
    <2>4. call'[c] = r /\ heard'[c] = h
      BY <2>1 DEF VoiceInv
    <2>5. call' = [call EXCEPT ![c] = call'[c]] /\ heard' = [heard EXCEPT ![c] = heard'[c]]
      BY <2>1, <2>4
    <2>6. \A m, n \in heard'[c] : m = n
      BY <2>3, <2>4
    <2>7. heard'[c] \subseteq {Head(call'[c].left)} /\ call'[c].produced
      BY <2>2, <2>3, <2>4
    <2>8. call'[c] = [f \in Shape |-> call'[c][f]]
      BY <2>2, <2>4
    <2> QED BY <1>a, <2>5, <2>6, <2>7, <2>8
  <1>3. ASSUME NEW c \in Calls, Succeed(c) PROVE VoiceInv'
    BY <1>d, <1>3 DEF Succeed
  <1>4. ASSUME NEW c \in Calls, KeyRefused(c) PROVE VoiceInv'
    BY <1>d, <1>4 DEF KeyRefused, Fatal
  <1>5. ASSUME NEW c \in Calls, ModelMissing(c) PROVE VoiceInv'
    BY <1>d, <1>e, <1>5 DEF ModelMissing, Fatal
  <1>6. ASSUME NEW c \in Calls, AttemptFails(c) PROVE VoiceInv'
    BY <1>e, <1>6 DEF AttemptFails
  <1>7. ASSUME NEW c \in Calls, Abandon(c) PROVE VoiceInv'
    BY <1>d, <1>7 DEF Abandon
  <1>8. CASE Status \/ Tick \/ UNCHANGED vars
    BY <1>b, <1>8 DEF Status, Tick, vars
  <1> QED
    BY <1>1, <1>2, <1>3, <1>4, <1>5, <1>6, <1>7, <1>8 DEF Next, Answered

\* Whatever breaks off in the middle of a stream, its caller holds text of one
\* model only.
THEOREM SpeaksWithOneVoice == Spec => []OneVoice
  <1>1. VoiceInv => OneVoice
    BY DEF VoiceInv
  <1> QED BY <1>1, VoiceInit, VoiceStep, PTL DEF Spec

-----------------------------------------------------------------------------
(* How far late failures can push the count.                               *)

Underway == {c \in Calls : Ongoing(c)}

\* Whoever can still fail while the circuit is open was let through before.
LateInv ==
    breaker.opened => breaker.failures + Cardinality(Underway) < Threshold + Cardinality(Calls)

LEMMA CallsCounted ==
    ASSUME NEW S \in SUBSET Calls
    PROVE  /\ IsFiniteSet(S) /\ Cardinality(S) \in Nat /\ Cardinality(Calls) \in Nat
           /\ Cardinality(S) <= Cardinality(Calls)
           /\ \A c \in S : Cardinality(S \ {c}) = Cardinality(S) - 1
  BY CallsAssumption, FS_Subset, FS_CardinalityType, FS_RemoveElement

LEMMA FewerCounted ==
    ASSUME NEW S \in SUBSET Calls, NEW T \in SUBSET S
    PROVE  Cardinality(T) <= Cardinality(S)
  BY CallsCounted, FS_Subset

LEMMA LateStep == VoiceInv /\ CircuitInv /\ LateInv /\ [Next]_vars => LateInv'
  <1> SUFFICES ASSUME VoiceInv, CircuitInv, LateInv, [Next]_vars PROVE LateInv'
    OBVIOUS
  <1>0. /\ breaker.failures \in Nat /\ breaker.opened \in BOOLEAN
        /\ breaker.opened <=> breaker.failures >= Threshold
        /\ Threshold \in Nat
        /\ Underway \in SUBSET Calls /\ Underway' \in SUBSET Calls
        /\ Cardinality(Underway) \in Nat /\ Cardinality(Underway') \in Nat
        /\ Cardinality(Calls) \in Nat
    BY ThresholdType, CallsCounted DEF CircuitInv, CountMatchesCircuit, Breakers, Underway
  \* A step that lets nobody in and counts nothing.
  <1>a. ASSUME Underway' \subseteq Underway, breaker'.opened => breaker.opened,
               breaker'.failures = breaker.failures
        PROVE  LateInv'
    <2>1. Cardinality(Underway') <= Cardinality(Underway)
      BY <1>0, <1>a, FewerCounted
    <2> QED BY <1>0, <1>a, <2>1 DEF LateInv
  \* A step that leaves the circuit closed.
  <1>b. ASSUME ~breaker'.opened PROVE LateInv'
    BY <1>b DEF LateInv
  <1>c. ASSUME NEW c \in Calls, Ongoing(c), call' = [call EXCEPT ![c] = Idle]
        PROVE  /\ c \in Underway /\ Underway' = Underway \ {c}
               /\ Cardinality(Underway') = Cardinality(Underway) - 1
               /\ Cardinality(Underway') < Cardinality(Calls)
    <2>1. \A d \in Calls : call'[d] = IF d = c THEN Idle ELSE call[d]
      BY <1>c DEF VoiceInv
    <2>2. c \in Underway /\ Underway' = Underway \ {c}
      BY <1>c, <2>1 DEF Underway, Ongoing
    <2>3. /\ Cardinality(Underway \ {c}) = Cardinality(Underway) - 1
          /\ Cardinality(Underway) <= Cardinality(Calls)
      BY <1>0, <2>2, CallsCounted
    <2> QED BY <1>0, <2>2, <2>3
  <1>d. ASSUME NEW c \in Calls, Ongoing(c), Exhausted(c) PROVE LateInv'
    <2>1. breaker'.failures = breaker.failures + 1
      BY <1>d DEF Exhausted, RecordFailure, CircuitInv, Breakers
    <2>2. /\ Cardinality(Underway') = Cardinality(Underway) - 1
          /\ Cardinality(Underway') < Cardinality(Calls)
      BY <1>c, <1>d DEF Exhausted
    <2>3. CASE breaker.opened
      BY <1>0, <2>1, <2>2, <2>3 DEF LateInv
    <2>4. CASE ~breaker.opened
      BY <1>0, <2>1, <2>2, <2>4 DEF LateInv
    <2> QED BY <1>0, <2>3, <2>4
  <1>e. ASSUME NEW c \in Calls, Ongoing(c), Fatal(c) PROVE LateInv'
    <2>1. breaker'.failures = Threshold
      BY <1>e DEF Fatal, TripNow
    <2>2. Cardinality(Underway') < Cardinality(Calls)
      BY <1>c, <1>e DEF Fatal
    <2> QED BY <1>0, <2>1, <2>2 DEF LateInv
  <1>f. ASSUME NEW c \in Calls, Ongoing(c), Route(c) PROVE LateInv'
    <2>1. CASE Exhausted(c)
      BY <1>d, <1>f, <2>1
    <2>2. CASE NextModel(c)
      <3>1. \A d \in Calls : d # c => call'[d] = call[d]
        BY <2>2 DEF NextModel, VoiceInv
      <3>2. Underway' \subseteq Underway /\ breaker' = breaker
        BY <1>f, <2>2, <3>1 DEF NextModel, Underway, Ongoing
      <3> QED BY <1>a, <3>2
    <2> QED BY <1>f, <2>1, <2>2 DEF Route
  <1>1. ASSUME NEW c \in Calls, Begin(c) PROVE LateInv'
    <2>1. ~breaker'.opened
      BY <1>1 DEF Begin, AfterLook, IsOpen, Closed
    <2> QED BY <1>b, <2>1
  <1>2. ASSUME NEW c \in Calls, Chunk(c) PROVE LateInv'
    <2>1. \A d \in Calls : d # c => call'[d] = call[d]
      BY <1>2 DEF Chunk, VoiceInv
    <2>2. Underway' \subseteq Underway /\ breaker' = breaker
      BY <1>2, <2>1 DEF Chunk, Underway, Ongoing
    <2> QED BY <1>a, <2>2
  <1>3. ASSUME NEW c \in Calls, Succeed(c) PROVE LateInv'
    BY <1>b, <1>3 DEF Succeed, RecordSuccess, Closed
  <1>4. ASSUME NEW c \in Calls, KeyRefused(c) PROVE LateInv'
    BY <1>e, <1>4 DEF KeyRefused
  <1>5. ASSUME NEW c \in Calls, ModelMissing(c) PROVE LateInv'
    BY <1>e, <1>f, <1>5 DEF ModelMissing
  <1>6. ASSUME NEW c \in Calls, AttemptFails(c) PROVE LateInv'
    BY <1>f, <1>6 DEF AttemptFails
  <1>7. ASSUME NEW c \in Calls, Abandon(c) PROVE LateInv'
    <2>1. Underway' = Underway \ {c} /\ breaker' = breaker
      BY <1>c, <1>7 DEF Abandon
    <2> QED BY <1>a, <2>1
  <1>8. CASE Status
    <2>1. Underway' = Underway
      BY <1>8 DEF Status, Underway, Ongoing
    <2>2. breaker' = breaker \/ ~breaker'.opened
      BY <1>8 DEF Status, AfterLook, Closed
    <2> QED BY <1>a, <1>b, <2>1, <2>2
  <1>9. CASE Tick
    <2>1. breaker'.failures = breaker.failures /\ breaker'.opened = breaker.opened
      BY <1>9 DEF Tick, CircuitInv, Breakers
    <2>2. Underway' = Underway
      BY <1>9 DEF Tick, Underway, Ongoing
    <2> QED BY <1>a, <2>1, <2>2
  <1>10. CASE UNCHANGED vars
    <2>1. Underway' = Underway /\ breaker' = breaker
      BY <1>10 DEF vars, Underway, Ongoing
    <2> QED BY <1>a, <2>1
  <1> QED
    BY <1>1, <1>2, <1>3, <1>4, <1>5, <1>6, <1>7, <1>8, <1>9, <1>10 DEF Next, Answered

\* Calls let through before the circuit opened and failing after it can push the
\* count no further than there are calls (record_failure, trip_now, _guard).
THEOREM LateFailuresStayBounded == Spec => []LateFailuresAreBounded
  <1>1. CircuitInv /\ LateInv => LateFailuresAreBounded
    <2> SUFFICES ASSUME CircuitInv, LateInv PROVE LateFailuresAreBounded
      OBVIOUS
    <2>1. /\ breaker.failures \in Nat /\ Threshold \in Nat /\ Cardinality(Calls) \in Nat
          /\ Cardinality(Underway) \in Nat
      BY ThresholdType, CallsCounted DEF CircuitInv, Breakers, Underway
    <2> QED
      BY <2>1 DEF CircuitInv, CountMatchesCircuit, LateInv, LateFailuresAreBounded
  <1>2. Init => LateInv
    BY DEF Init, Closed, LateInv
  <1> QED
    BY <1>1, <1>2, VoiceInit, VoiceStep, CircuitInit, CircuitStep, LateStep, PTL DEF Spec
=============================================================================
