--------------------------- MODULE CircuitBreaker ---------------------------
(***************************************************************************)
(* CircuitBreaker of src/backend/core/resilience/circuit_breaker.py, with  *)
(* several callers on one event loop.  call() suspends only while it       *)
(* awaits the protected function, so a call is two actions: the check that *)
(* admits it, and the handler of its result, which runs in whatever state  *)
(* the breaker has by then.                                                *)
(*                                                                         *)
(* The code compares two timestamps with time.time().  The model keeps     *)
(* their ages, and lets an age stop at the only limit it is compared with. *)
(***************************************************************************)
EXTENDS Integers

CONSTANTS
  Callers,           \* the coroutines that call the protected function
  FailureThreshold,  \* failure_threshold
  SuccessThreshold,  \* success_threshold
  RecoveryTimeout,   \* recovery_timeout, in ticks
  HalfOpenTimeout,   \* half_open_timeout, in ticks
  None               \* Python's None

ASSUME BreakerAssumption ==
  /\ FailureThreshold \in Nat \ {0}
  /\ SuccessThreshold \in Nat \ {0}
  /\ RecoveryTimeout \in Nat \ {0}
  /\ HalfOpenTimeout \in Nat \ {0}
  /\ None \notin Int

VARIABLES
  state,         \* _state
  failureCount,  \* _failure_count
  successCount,  \* _success_count
  failureAge,    \* age of _last_failure_time, at most RecoveryTimeout
  halfOpenAge,   \* age of _half_open_start, at most HalfOpenTimeout
  inFlight,      \* the callers suspended in await func()
  openedAge      \* history: time since the circuit last became open

breaker == <<state, failureCount, successCount, failureAge, halfOpenAge>>
vars == <<breaker, inFlight, openedAge>>

Init ==
  /\ state = "closed"
  /\ failureCount = 0
  /\ successCount = 0
  /\ failureAge = None
  /\ halfOpenAge = None
  /\ inFlight = {}
  /\ openedAge = None

-----------------------------------------------------------------------------
(* Mutation of ToOpen: the time is not recorded.                           *)
ToOpenWithoutTime == state' = "open" /\ UNCHANGED <<successCount, failureAge, halfOpenAge>>

(* _transition_to_open                                                     *)
ToOpen ==
  /\ state' = "open"
  /\ failureAge' = 0
  /\ UNCHANGED <<successCount, halfOpenAge>>

(* _transition_to_closed                                                   *)
ToClosed ==
  /\ state' = "closed"
  /\ failureCount' = 0
  /\ successCount' = 0
  /\ failureAge' = None
  /\ halfOpenAge' = None

(* Mutation of ToHalfOpen: the counters of the last trial are kept.        *)
ToHalfOpenKeepsCounters ==
  /\ state' = "half_open"
  /\ halfOpenAge' = 0
  /\ UNCHANGED <<failureCount, successCount, failureAge>>

(* _transition_to_half_open                                                *)
ToHalfOpen ==
  /\ state' = "half_open"
  /\ successCount' = 0
  /\ failureCount' = 0
  /\ halfOpenAge' = 0
  /\ UNCHANGED failureAge

(* Mutation of Recovered: a tick too early.                                *)
RecoveredEarly == state = "open" /\ failureAge # None /\ failureAge + 1 >= RecoveryTimeout

(* The conditions of _update_state.                                        *)
Recovered == state = "open" /\ failureAge # None /\ failureAge >= RecoveryTimeout

(* Mutation of TrialExpired: a trial has no time limit.                    *)
TrialNeverExpires == FALSE

TrialExpired == state = "half_open" /\ halfOpenAge # None /\ halfOpenAge >= HalfOpenTimeout

(* _update_state                                                           *)
UpdateState ==
  \/ Recovered /\ ToHalfOpen
  \/ TrialExpired /\ ToOpen /\ UNCHANGED failureCount
  \/ ~Recovered /\ ~TrialExpired /\ UNCHANGED breaker

(* Mutations of LateSuccess and LateFailure: the state at the end of a     *)
(* call is not looked at.                                                  *)
LateSuccessCloses  == ToClosed
LateFailureCounts  == failureCount' = failureCount + 1 /\ UNCHANGED <<state, successCount, failureAge, halfOpenAge>>
LateFailureReopens == ToOpen /\ UNCHANGED failureCount

(* Calls that were let through earlier and end while the circuit is open.  *)
LateSuccess == UNCHANGED breaker
LateFailure == UNCHANGED breaker

(* _on_success                                                             *)
OnSuccess ==
  \/ /\ state = "half_open"
     /\ successCount + 1 >= SuccessThreshold
     /\ ToClosed
  \/ /\ state = "half_open"
     /\ successCount + 1 < SuccessThreshold
     /\ successCount' = successCount + 1
     /\ UNCHANGED <<state, failureCount, failureAge, halfOpenAge>>
  \/ /\ state = "closed"
     /\ failureCount' = 0
     /\ UNCHANGED <<state, successCount, failureAge, halfOpenAge>>
  \/ state = "open" /\ LateSuccess

(* _on_failure: the count that opens the circuit is kept.                  *)
OnFailure ==
  \/ state = "half_open" /\ ToOpen /\ UNCHANGED failureCount
  \/ /\ state = "closed"
     /\ failureCount' = failureCount + 1
     /\ \/ failureCount + 1 >= FailureThreshold /\ ToOpen
        \/ failureCount + 1 < FailureThreshold /\ UNCHANGED <<state, successCount, failureAge, halfOpenAge>>
  \/ state = "open" /\ LateFailure

-----------------------------------------------------------------------------
Watch == openedAge' = IF state # "open" /\ state' = "open" THEN 0 ELSE openedAge

(* call(), up to the await: rejected in the open state.                    *)
BeginCall(c) ==
  /\ c \notin inFlight
  /\ UpdateState
  /\ inFlight' = IF state' = "open" THEN inFlight ELSE inFlight \cup {c}
  /\ Watch

(* call(), after the await.                                                *)
CallSucceeds(c) ==
  /\ c \in inFlight
  /\ OnSuccess
  /\ inFlight' = inFlight \ {c}
  /\ Watch

CallFails(c) ==
  /\ c \in inFlight
  /\ OnFailure
  /\ inFlight' = inFlight \ {c}
  /\ Watch

(* An exception that is not expected_exception, or the caller's            *)
(* cancellation: call() records nothing.                                   *)
CallEscapes(c) ==
  /\ c \in inFlight
  /\ inFlight' = inFlight \ {c}
  /\ UNCHANGED <<breaker, openedAge>>

EndCall(c) == CallSucceeds(c) \/ CallFails(c) \/ CallEscapes(c)

(* The state property.                                                     *)
ReadState == UpdateState /\ UNCHANGED inFlight /\ Watch

(* reset(), by an operator or by CircuitBreakerRegistry.reset_all.         *)
Reset == ToClosed /\ UNCHANGED inFlight /\ Watch

Older(age, limit) == IF age = None \/ age = limit THEN age ELSE age + 1

(* The clock.                                                              *)
Tick ==
  /\ failureAge' = Older(failureAge, RecoveryTimeout)
  /\ halfOpenAge' = Older(halfOpenAge, HalfOpenTimeout)
  /\ openedAge' = Older(openedAge, RecoveryTimeout)
  /\ UNCHANGED <<state, failureCount, successCount, inFlight>>

Next ==
  \/ \E c \in Callers : BeginCall(c) \/ EndCall(c)
  \/ ReadState
  \/ Reset
  \/ Tick

Spec == Init /\ [][Next]_vars

(* Time passes, callers keep calling, and every protected call ends: the   *)
(* HTTP calls behind the breaker have a timeout.  Nobody has to read the   *)
(* state or reset the breaker, and no call has to succeed.                 *)
Fairness ==
  /\ WF_vars(Tick)
  /\ \A c \in Callers : WF_vars(BeginCall(c)) /\ WF_vars(EndCall(c))

FairSpec == Spec /\ Fairness

-----------------------------------------------------------------------------
Age(limit) == 0..limit \cup {None}

TypeOK ==
  /\ state \in {"closed", "open", "half_open"}
  /\ failureCount \in 0..FailureThreshold
  /\ successCount \in 0..SuccessThreshold
  /\ failureAge \in Age(RecoveryTimeout)
  /\ halfOpenAge \in Age(HalfOpenTimeout)
  /\ inFlight \subseteq Callers
  /\ openedAge \in Age(RecoveryTimeout)

(* No threshold is ever passed unnoticed, whatever the state in which the  *)
(* results of calls begun earlier arrive, and the timestamp without which  *)
(* the current state would never be left is there.                         *)
ThresholdsActedOn ==
  /\ state = "closed" => failureCount < FailureThreshold /\ successCount = 0
  /\ state = "half_open" => /\ failureCount = 0
                            /\ successCount < SuccessThreshold
                            /\ halfOpenAge # None
  /\ state = "open" => failureAge # None

(* The recovery timeout of an open circuit runs from the moment it opened: *)
(* results that arrive while it is open neither postpone recovery nor      *)
(* bring it forward.                                                       *)
TimeoutRunsFromOpening == state = "open" => failureAge = openedAge

(* Nobody is let through an open circuit before recovery_timeout has       *)
(* passed since it opened, however it came to be open.                     *)
FailFast ==
  [][\A c \in Callers : state = "open" /\ c \in inFlight' \ inFlight
       => openedAge = RecoveryTimeout]_vars

(* The clock of a period is never set back while the period lasts: calls   *)
(* that begin, end late or fail during it, and reads of the state, can     *)
(* end it but not prolong it.                                              *)
PeriodsRunOut ==
  [][/\ state = "open" /\ state' = "open" => failureAge' \in {failureAge, failureAge + 1}
     /\ state = "half_open" /\ state' = "half_open"
          => /\ halfOpenAge' \in {halfOpenAge, halfOpenAge + 1}
             /\ successCount' >= successCount]_vars

(* A breaker that is in use does not stay open for ever.                   *)
OpenEnds == state = "open" ~> state # "open"

(* A trial ends, even if its calls neither succeed nor fail.               *)
TrialEnds == state = "half_open" ~> state # "half_open"

Mode == CASE state = "closed"    -> "closed"
          [] state = "open"      -> "open"
          [] state = "half_open" -> "trial"

(* The breaker keeps what BreakerPolicy promises.                          *)
Policy == INSTANCE BreakerPolicy WITH
            mode    <- Mode,
            cooling <- state = "open" /\ failureAge # RecoveryTimeout,
            through <- inFlight

ImplementsPolicy == Policy!Spec

=============================================================================
