------------------------ MODULE CircuitBreakerProofs ------------------------
(***************************************************************************)
(* The safety properties of CircuitBreaker, and that it implements         *)
(* BreakerPolicy, for every set of callers and every choice of thresholds  *)
(* and timeouts.                                                           *)
(***************************************************************************)
EXTENDS CircuitBreaker, TLAPS

(* The three invariants need one another: the range of the counts follows  *)
(* from the thresholds being acted on, and the age of the failure agrees   *)
(* with the age of the opening only while it is known to be a number.      *)
IInv == TypeOK /\ ThresholdsActedOn /\ TimeoutRunsFromOpening

(* What the four handlers of the code do to the breaker, whatever action   *)
(* of a caller they are part of.                                           *)
Handler == UpdateState \/ OnSuccess \/ OnFailure \/ ToClosed

LEMMA HandlerInv ==
  ASSUME IInv, Handler, Watch, inFlight' \subseteq Callers
  PROVE  IInv'
<1> USE BreakerAssumption DEF IInv, TypeOK, ThresholdsActedOn, TimeoutRunsFromOpening,
                              Age, Watch, breaker
<1>1. CASE UpdateState
  BY <1>1 DEF UpdateState, Recovered, TrialExpired, ToHalfOpen, ToOpen
<1>2. CASE OnSuccess
  BY <1>2 DEF OnSuccess, LateSuccess, ToClosed
<1>3. CASE OnFailure
  BY <1>3 DEF OnFailure, LateFailure, ToOpen
<1>4. CASE ToClosed
  BY <1>4 DEF ToClosed
<1> QED
  BY <1>1, <1>2, <1>3, <1>4 DEF Handler

(* The clock: the age of the failure and of the opening grow together.     *)
LEMMA TickInv ==
  ASSUME IInv, Tick
  PROVE  IInv'
BY BreakerAssumption DEF IInv, TypeOK, ThresholdsActedOn, TimeoutRunsFromOpening,
                         Age, Tick, Older

LEMMA StepInv ==
  ASSUME IInv, [Next]_vars
  PROVE  IInv'
<1>1. ASSUME NEW c \in Callers, BeginCall(c)
      PROVE  IInv'
  BY <1>1, HandlerInv DEF BeginCall, Handler, IInv, TypeOK
<1>2. ASSUME NEW c \in Callers, CallSucceeds(c)
      PROVE  IInv'
  BY <1>2, HandlerInv DEF CallSucceeds, Handler, IInv, TypeOK
<1>3. ASSUME NEW c \in Callers, CallFails(c)
      PROVE  IInv'
  BY <1>3, HandlerInv DEF CallFails, Handler, IInv, TypeOK
<1>4. ASSUME NEW c \in Callers, CallEscapes(c)
      PROVE  IInv'
  BY <1>4 DEF CallEscapes, breaker, IInv, TypeOK, ThresholdsActedOn, TimeoutRunsFromOpening
<1>5. CASE ReadState
  BY <1>5, HandlerInv DEF ReadState, Handler, IInv, TypeOK
<1>6. CASE Reset
  BY <1>6, HandlerInv DEF Reset, Handler, IInv, TypeOK
<1>7. CASE Tick
  BY <1>7, TickInv
<1>8. CASE UNCHANGED vars
  BY <1>8 DEF vars, breaker, IInv, TypeOK, ThresholdsActedOn, TimeoutRunsFromOpening
<1> QED
  BY <1>1, <1>2, <1>3, <1>4, <1>5, <1>6, <1>7, <1>8 DEF Next, EndCall

LEMMA Invariance == Spec => []IInv
<1>1. Init => IInv
  BY BreakerAssumption DEF Init, IInv, TypeOK, ThresholdsActedOn, TimeoutRunsFromOpening, Age
<1>2. IInv /\ [Next]_vars => IInv'
  BY StepInv
<1> QED
  BY <1>1, <1>2, PTL DEF Spec

-----------------------------------------------------------------------------
(* The counters and ages stay within their bounds.                         *)
THEOREM TypeCorrect == Spec => []TypeOK
<1>1. IInv => TypeOK
  BY DEF IInv
<1> QED
  BY <1>1, Invariance, PTL

(* No result of a call, however late, carries a count past its threshold,  *)
(* and no state lacks the timestamp that ends it.                          *)
THEOREM ThresholdsAreActedOn == Spec => []ThresholdsActedOn
<1>1. IInv => ThresholdsActedOn
  BY DEF IInv
<1> QED
  BY <1>1, Invariance, PTL

(* _last_failure_time of an open circuit is the time it opened.            *)
THEOREM TimeoutStartsAtOpening == Spec => []TimeoutRunsFromOpening
<1>1. IInv => TimeoutRunsFromOpening
  BY DEF IInv
<1> QED
  BY <1>1, Invariance, PTL

(* call() lets nobody through before recovery_timeout has passed: of all   *)
(* steps only BeginCall adds a caller, and out of the open state it does   *)
(* so only once _update_state has found the timeout over.                  *)
THEOREM FailsFast == Spec => FailFast
<1> DEFINE Admitted(c) == state = "open" /\ c \in inFlight' \ inFlight
<1>1. ASSUME IInv, Next, NEW c \in Callers, Admitted(c)
      PROVE  openedAge = RecoveryTimeout
  <2>1. BeginCall(c)
    BY <1>1 DEF Next, BeginCall, EndCall, CallSucceeds, CallFails, CallEscapes,
                ReadState, Reset, Tick
  <2>2. state' # "open"
    BY <1>1, <2>1 DEF BeginCall
  <2>3. Recovered
    BY <1>1, <2>1, <2>2 DEF BeginCall, UpdateState, TrialExpired, breaker
  <2> QED
    BY <1>1, <2>3, BreakerAssumption
       DEF Recovered, IInv, TypeOK, Age, TimeoutRunsFromOpening
<1>2. IInv /\ [Next]_vars
        => [\A c \in Callers : Admitted(c) => openedAge = RecoveryTimeout]_vars
  BY <1>1
<1> QED
  BY <1>2, Invariance, PTL DEF Spec, FailFast

(* Why OpenEnds and TrialEnds: with time passing and callers calling, a    *)
(* clock that only goes forward reaches its timeout, and _update_state     *)
(* finds it there.                                                         *)
THEOREM PeriodsAreNotProlonged == Spec => PeriodsRunOut
<1> DEFINE Forward ==
      /\ state = "open" /\ state' = "open" => failureAge' \in {failureAge, failureAge + 1}
      /\ state = "half_open" /\ state' = "half_open"
           => /\ halfOpenAge' \in {halfOpenAge, halfOpenAge + 1}
              /\ successCount' >= successCount
<1>1. ASSUME IInv, Next
      PROVE  Forward
  <2>1. successCount \in Nat /\ (state = "open" => failureAge \in Nat)
        /\ (state = "half_open" => halfOpenAge \in Nat)
    BY <1>1, BreakerAssumption DEF IInv, TypeOK, ThresholdsActedOn, Age
  <2>2. CASE UpdateState
    BY <2>1, <2>2 DEF UpdateState, Recovered, TrialExpired, ToHalfOpen, ToOpen, breaker
  <2>3. CASE OnSuccess
    BY <2>1, <2>3 DEF OnSuccess, LateSuccess, ToClosed, breaker
  <2>4. CASE OnFailure
    BY <2>1, <2>4 DEF OnFailure, LateFailure, ToOpen, breaker
  <2>5. CASE ToClosed \/ UNCHANGED breaker
    BY <2>1, <2>5 DEF ToClosed, breaker
  <2>6. CASE Tick
    BY <2>1, <2>6 DEF Tick, Older
  <2> QED
    BY <1>1, <2>2, <2>3, <2>4, <2>5, <2>6
       DEF Next, BeginCall, EndCall, CallSucceeds, CallFails, CallEscapes, ReadState, Reset
<1>2. IInv /\ [Next]_vars => [Forward]_vars
  BY <1>1
<1> QED
  BY <1>2, Invariance, PTL DEF Spec, PeriodsRunOut

-----------------------------------------------------------------------------
(* Cooling, as the policy sees it.                                         *)
Cooling == state = "open" /\ failureAge # RecoveryTimeout

(* A handler maps to one transition of the policy, or to none, by the      *)
(* state it leaves and the state it enters.                                *)
LEMMA BeginRefines ==
  ASSUME IInv, NEW c \in Callers, BeginCall(c)
  PROVE  [Policy!Next]_(Policy!vars)
<1> USE BreakerAssumption
<1>1. c \notin inFlight /\ UpdateState
  BY DEF BeginCall
<1>2. CASE Recovered /\ ToHalfOpen
  <2>1. Mode = "open" /\ ~Cooling
    BY <1>2 DEF Recovered, Mode, Cooling, IInv, TypeOK, Age
  <2>2. Mode' = "trial" /\ ~Cooling' /\ inFlight' = inFlight \cup {c}
    BY <1>2 DEF ToHalfOpen, Mode, Cooling, BeginCall
  <2> QED
    BY <1>1, <2>1, <2>2 DEF Cooling, Policy!Next, Policy!StartTrial
<1>3. CASE TrialExpired /\ ToOpen
  <2>1. Mode # "open" /\ Mode' = "open" /\ Cooling' /\ inFlight' = inFlight
    BY <1>3 DEF TrialExpired, ToOpen, Mode, Cooling, BeginCall
  <2> QED
    BY <2>1 DEF Cooling, Policy!Next, Policy!Trip
<1>4. CASE UNCHANGED breaker
  <2>1. UNCHANGED <<Mode, Cooling>>
    BY <1>4 DEF breaker, Mode, Cooling
  <2>2. CASE state = "open"
    BY <1>4, <2>1, <2>2 DEF BeginCall, breaker, Cooling, Policy!vars
  <2>3. CASE state # "open"
    <3>1. Mode # "open" /\ inFlight' = inFlight \cup {c}
      BY <1>4, <2>3 DEF BeginCall, breaker, Mode, IInv, TypeOK
    <3> QED
      BY <1>1, <2>1, <3>1 DEF Cooling, Policy!Next, Policy!Enter
  <2> QED
    BY <2>2, <2>3
<1> QED
  BY <1>1, <1>2, <1>3, <1>4 DEF UpdateState

LEMMA EndRefines ==
  ASSUME IInv, NEW c \in Callers, EndCall(c)
  PROVE  [Policy!Next]_(Policy!vars)
<1> USE BreakerAssumption
<1>1. c \in inFlight /\ inFlight' = inFlight \ {c}
  BY DEF EndCall, CallSucceeds, CallFails, CallEscapes
<1>2. CASE UNCHANGED <<Mode, Cooling>>
  BY <1>1, <1>2 DEF Cooling, Policy!Next, Policy!Leave
<1>3. CASE state = "half_open" /\ ToClosed
  <2>1. Mode = "trial" /\ Mode' = "closed" /\ ~Cooling /\ ~Cooling'
    BY <1>3 DEF ToClosed, Mode, Cooling
  <2> QED
    BY <1>1, <2>1 DEF Cooling, Policy!Next, Policy!Pass
<1>4. CASE state # "open" /\ ToOpen
  <2>1. Mode # "open" /\ Mode' = "open" /\ Cooling'
    BY <1>4 DEF ToOpen, Mode, Cooling, IInv, TypeOK
  <2> QED
    BY <1>1, <2>1 DEF Cooling, Policy!Next, Policy!Trip
<1>5. CASE state' = state /\ (state = "open" => failureAge' = failureAge)
  BY <1>2, <1>5 DEF Mode, Cooling
<1>6. CASE CallSucceeds(c)
  BY <1>3, <1>5, <1>6 DEF CallSucceeds, OnSuccess, LateSuccess, breaker
<1>7. CASE CallFails(c)
  BY <1>4, <1>5, <1>7 DEF CallFails, OnFailure, LateFailure, breaker
<1>8. CASE CallEscapes(c)
  BY <1>5, <1>8 DEF CallEscapes, breaker
<1> QED
  BY <1>6, <1>7, <1>8 DEF EndCall

LEMMA OtherRefines ==
  ASSUME IInv, ReadState \/ Reset \/ Tick \/ UNCHANGED vars
  PROVE  [Policy!Next]_(Policy!vars)
<1> USE BreakerAssumption
<1>1. CASE UNCHANGED <<Mode, Cooling, inFlight>>
  BY <1>1 DEF Cooling, Policy!vars
<1>2. CASE ReadState
  <2>1. CASE Recovered /\ ToHalfOpen
    <3>1. Mode = "open" /\ ~Cooling /\ Mode' = "trial" /\ ~Cooling'
      BY <2>1 DEF Recovered, ToHalfOpen, Mode, Cooling, IInv, TypeOK, Age
    <3> QED
      BY <1>2, <3>1 DEF ReadState, Cooling, Policy!Next, Policy!StartTrial
  <2>2. CASE TrialExpired /\ ToOpen
    <3>1. Mode # "open" /\ Mode' = "open" /\ Cooling'
      BY <2>2 DEF TrialExpired, ToOpen, Mode, Cooling
    <3> QED
      BY <1>2, <3>1 DEF ReadState, Cooling, Policy!Next, Policy!Trip
  <2>3. CASE UNCHANGED breaker
    BY <1>1, <1>2, <2>3 DEF ReadState, breaker, Mode, Cooling
  <2> QED
    BY <1>2, <2>1, <2>2, <2>3 DEF ReadState, UpdateState
<1>3. CASE Reset
  <2>1. Mode' = "closed" /\ ~Cooling' /\ inFlight' = inFlight
    BY <1>3 DEF Reset, ToClosed, Mode, Cooling
  <2> QED
    BY <2>1 DEF Cooling, Policy!Next, Policy!Reset
<1>4. CASE Tick
  <2>1. Mode' = Mode /\ inFlight' = inFlight /\ (Cooling' => Cooling)
    BY <1>4 DEF Tick, Older, Mode, Cooling
  <2>2. CASE Cooling' = Cooling
    BY <1>1, <2>1, <2>2
  <2>3. CASE Cooling /\ ~Cooling'
    BY <2>1, <2>3 DEF Cooling, Policy!Next, Policy!Cool
  <2> QED
    BY <2>1, <2>2, <2>3 DEF Cooling
<1>5. CASE UNCHANGED vars
  BY <1>1, <1>5 DEF vars, breaker, Mode, Cooling
<1> QED
  BY <1>2, <1>3, <1>4, <1>5

(* Every behaviour of the breaker is one the policy allows.                *)
THEOREM RefinesPolicy == Spec => ImplementsPolicy
<1>1. Init => Policy!Init
  BY DEF Init, Mode, Policy!Init
<1>2. IInv /\ [Next]_vars => [Policy!Next]_(Policy!vars)
  BY BeginRefines, EndRefines, OtherRefines DEF Next
<1> QED
  BY <1>1, <1>2, Invariance, PTL DEF Spec, ImplementsPolicy, Policy!Spec

=============================================================================
