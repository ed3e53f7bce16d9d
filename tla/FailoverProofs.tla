---------------------------- MODULE FailoverProofs ----------------------------
(***************************************************************************)
(* Proofs about Failover, for any number of callers and endpoints and      *)
(* every selection strategy.  The strategies enter by one fact only: what  *)
(* Select returns is healthy (SelectsHealthy).                             *)
(***************************************************************************)
EXTENDS Failover, FiniteSetTheorems, TLAPS

(* What the locals of an execution are at each of its suspension points.   *)
LocalsFollow ==
  \A c \in Callers :
    /\ pc[c] = "idle" => ep[c] = 0
    /\ pc[c] # "idle" => ep[c] \in Endpoints
    /\ pc[c] = "sleeping" => attempt[c] < MaxRetries
    /\ pc[c] = "idle" => attempt[c] = 0

IInv ==
  /\ TypeOK
  /\ LocalsFollow
  /\ ConnectionsCounted
  /\ FailedOut

-----------------------------------------------------------------------------
(* get_endpoint returns healthy endpoints only.                            *)
LEMMA SelectsHealthy ==
  ASSUME NEW c, NEW conn, NEW e \in Select(c, conn)
  PROVE  e \in healthy
<1>1. CASE strategy = "round_robin"
  BY <1>1 DEF Select, RoundRobin
<1>2. CASE strategy = "priority"
  BY <1>2 DEF Select, RoundRobin, Top
<1>3. CASE strategy = "least_connections"
  BY <1>3 DEF Select, First, Least
<1>4. CASE strategy = "consistent_hash"
  BY <1>4 DEF Select, First, Least, OnRing
<1>5. CASE strategy \notin {"round_robin", "priority", "least_connections", "consistent_hash"}
  BY <1>5 DEF Select
<1> QED
  BY <1>1, <1>2, <1>3, <1>4, <1>5

(* The executions of the other callers that hold e.                        *)
Others(c, e) == Holders(e) \ {c}

CountsOthers(c, conn) ==
  /\ conn \in [Endpoints -> Nat]
  /\ \A e \in Endpoints : conn[e] = Cardinality(Others(c, e))

LEMMA HoldersFinite ==
  ASSUME NEW c, NEW e
  PROVE  IsFiniteSet(Holders(e)) /\ IsFiniteSet(Others(c, e))
BY FailoverAssumption, FS_Subset DEF Holders, Others

(* Before an execution begins, and once it released its connection, the    *)
(* counts are those of the other callers.                                  *)
LEMMA IdleCounts ==
  ASSUME IInv, NEW c \in Callers, pc[c] = "idle"
  PROVE  CountsOthers(c, connections)
<1>1. ASSUME NEW e \in Endpoints PROVE Others(c, e) = Holders(e)
  <2>1. ep[c] = 0 /\ e # 0
    BY FailoverAssumption DEF IInv, LocalsFollow, Endpoints
  <2> QED
    BY <2>1 DEF Others, Holders
<1> QED
  BY <1>1 DEF IInv, TypeOK, ConnectionsCounted, CountsOthers

LEMMA ReleaseCounts ==
  ASSUME IInv, NEW c \in Callers, pc[c] # "idle"
  PROVE  CountsOthers(c, Release(c))
<1> DEFINE f == ep[c]
<1>1. f \in Endpoints
  BY DEF IInv, LocalsFollow
<1>2. connections \in [Endpoints -> Nat]
  BY DEF IInv, TypeOK
<1>3. \A e \in Endpoints : connections[e] = Cardinality(Holders(e))
  BY DEF IInv, ConnectionsCounted
<1>4. c \in Holders(f)
  BY DEF Holders
<1>5. /\ Cardinality(Others(c, f)) = Cardinality(Holders(f)) - 1
      /\ Cardinality(Others(c, f)) \in Nat
  BY <1>4, HoldersFinite, FS_RemoveElement, FS_CardinalityType DEF Others
<1>6. ASSUME NEW e \in Endpoints, e # f PROVE Others(c, e) = Holders(e)
  BY <1>6 DEF Others, Holders
<1>7. Release(c) = [connections EXCEPT ![f] = @ - 1]
  BY DEF Release
<1> HIDE DEF f
<1>8. \A e \in Endpoints : Release(c)[e] = Cardinality(Others(c, e))
  BY <1>1, <1>2, <1>3, <1>5, <1>6, <1>7
<1>9. Release(c) \in [Endpoints -> Nat]
  <2>1. connections[f] - 1 \in Nat
    BY <1>1, <1>3, <1>5
  <2> QED
    BY <1>1, <1>2, <1>7, <2>1
<1> QED
  BY <1>8, <1>9 DEF CountsOthers

(* An execution that ends leaves the counts to the others.                 *)
LEMMA LeaveCounts ==
  ASSUME IInv, NEW c \in Callers, Leave(c), CountsOthers(c, connections')
  PROVE  ConnectionsCounted'
<1>1. ASSUME NEW e \in Endpoints PROVE Holders(e)' = Others(c, e)
  <2>1. ep' = [ep EXCEPT ![c] = 0] /\ e # 0 /\ ep \in [Callers -> 0..N]
    BY FailoverAssumption DEF Leave, IInv, TypeOK, Endpoints
  <2> QED
    BY <2>1 DEF Others, Holders
<1> QED
  BY <1>1 DEF CountsOthers, ConnectionsCounted

(* An attempt adds its own connection to those of the others.              *)
LEMMA TryCounts ==
  ASSUME IInv, NEW c \in Callers, NEW conn, CountsOthers(c, conn), Try(c, conn)
  PROVE  ConnectionsCounted' /\ connections' \in [Endpoints -> Nat]
<1>1. CASE healthy = {}
  BY <1>1, LeaveCounts DEF Try, CountsOthers
<1>2. CASE healthy # {}
  <2>1. PICK f \in Select(c, conn) : /\ ep' = [ep EXCEPT ![c] = f]
                                     /\ connections' = [conn EXCEPT ![f] = @ + 1]
    BY <1>2 DEF Try
  <2>2. f \in Endpoints
    BY <2>1, SelectsHealthy DEF IInv, TypeOK
  <2>3. ep \in [Callers -> 0..N] /\ conn \in [Endpoints -> Nat]
    BY DEF IInv, TypeOK, CountsOthers
  <2>4. Holders(f)' = Others(c, f) \cup {c} /\ c \notin Others(c, f)
    BY <2>1, <2>3 DEF Others, Holders
  <2>5. Cardinality(Holders(f)') = Cardinality(Others(c, f)) + 1
    BY <2>4, HoldersFinite, FS_AddElement
  <2>6. ASSUME NEW e \in Endpoints, e # f PROVE Holders(e)' = Others(c, e)
    BY <2>1, <2>3, <2>6 DEF Others, Holders
  <2>7. \A e \in Endpoints : connections'[e] = Cardinality(Holders(e)')
    BY <2>1, <2>2, <2>3, <2>5, <2>6 DEF CountsOthers
  <2>8. connections' \in [Endpoints -> Nat]
    BY <2>1, <2>2, <2>3
  <2> QED
    BY <2>7, <2>8 DEF ConnectionsCounted
<1> QED
  BY <1>1, <1>2

-----------------------------------------------------------------------------
LEMMA InitInv == Init => IInv
<1> SUFFICES ASSUME Init PROVE IInv
  OBVIOUS
<1>1. TypeOK /\ LocalsFollow /\ FailedOut
  BY FailoverAssumption DEF Init, TypeOK, LocalsFollow, FailedOut, Endpoints
<1>2. \A e \in Endpoints : Holders(e) = {}
  BY FailoverAssumption DEF Init, Holders, Endpoints
<1>3. ConnectionsCounted
  BY <1>2, FS_EmptySet DEF Init, ConnectionsCounted
<1> QED
  BY <1>1, <1>3 DEF IInv

(* The attempts of an execution, from its first or after a delay.          *)
LEMMA TryInv ==
  ASSUME IInv, NEW c \in Callers, NEW conn, CountsOthers(c, conn), Try(c, conn),
         pc[c] # "calling", UNCHANGED <<strategy, healthy, failures, loopVars>>
  PROVE  IInv'
<1>1. attempt[c] + 1 \in 1..MaxRetries
  <2>1. attempt[c] \in Nat /\ pc[c] \in {"idle", "sleeping"}
    BY FailoverAssumption DEF IInv, TypeOK
  <2> QED
    BY <2>1, FailoverAssumption DEF IInv, LocalsFollow
<1>2. CASE healthy = {}
  <2>1. Leave(c) /\ UNCHANGED index
    BY <1>2 DEF Try
  <2>2. TypeOK' /\ LocalsFollow' /\ FailedOut'
    BY <2>1, TryCounts, FailoverAssumption
    DEF Leave, IInv, TypeOK, LocalsFollow, FailedOut, loopVars
  <2> QED
    BY <2>2, TryCounts DEF IInv
<1>3. CASE healthy # {}
  <2>1. PICK f \in Select(c, conn) : ep' = [ep EXCEPT ![c] = f]
    BY <1>3 DEF Try
  <2>2. f \in Endpoints
    BY SelectsHealthy DEF IInv, TypeOK
  <2>3. /\ pc' = [pc EXCEPT ![c] = "calling"]
        /\ attempt' = [attempt EXCEPT ![c] = attempt[c] + 1]
        /\ index' = IF Turns THEN (index + 1) % Period ELSE index
    BY <1>3 DEF Try, NextAttempt
  <2>4. index' \in 0..(Period - 1)
    BY <2>3, FailoverAssumption DEF IInv, TypeOK
  <2>5. TypeOK'
    BY <1>1, <2>1, <2>2, <2>3, <2>4, TryCounts DEF IInv, TypeOK, loopVars, Endpoints
  <2>6. LocalsFollow'
    BY <2>1, <2>2, <2>3 DEF IInv, TypeOK, LocalsFollow
  <2>7. FailedOut'
    BY DEF IInv, FailedOut
  <2> QED
    BY <2>5, <2>6, <2>7, TryCounts DEF IInv
<1> QED
  BY <1>2, <1>3

(* The steps in which an execution ends in the way given by failures' and  *)
(* healthy': it leaves and releases its connection.                        *)
LEMMA LeaveInv ==
  ASSUME IInv, NEW c \in Callers, pc[c] # "idle", Leave(c), connections' = Release(c),
         UNCHANGED <<strategy, index, loopVars>>,
         healthy' \subseteq Endpoints, failures' \in [Endpoints -> 0..MaxFailures],
         FailedOut'
  PROVE  IInv'
<1>1. ConnectionsCounted' /\ connections' \in [Endpoints -> Nat]
  BY ReleaseCounts, LeaveCounts DEF CountsOthers
<1>2. TypeOK'
  BY <1>1, FailoverAssumption DEF Leave, IInv, TypeOK, loopVars
<1>3. LocalsFollow'
  BY DEF Leave, IInv, TypeOK, LocalsFollow
<1> QED
  BY <1>1, <1>2, <1>3 DEF IInv

LEMMA CallRaisesInv ==
  ASSUME IInv, NEW c \in Callers, CallRaises(c)
  PROVE  IInv'
<1> DEFINE f == ep[c]
<1>1. f \in Endpoints /\ pc[c] # "idle"
  BY DEF IInv, LocalsFollow, CallRaises
<1>2. Bump(f) \in 0..MaxFailures
  BY <1>1, FailoverAssumption DEF Bump, IInv, TypeOK
<1>3. /\ failures' = [failures EXCEPT ![f] = Bump(f)]
      /\ healthy' = IF Bump(f) >= MaxFailures THEN healthy \ {f} ELSE healthy
      /\ UNCHANGED <<strategy, index, loopVars>>
  BY DEF CallRaises
<1> HIDE DEF f
<1>4. healthy' \subseteq Endpoints /\ failures' \in [Endpoints -> 0..MaxFailures]
  BY <1>1, <1>2, <1>3 DEF IInv, TypeOK
<1>5. FailedOut'
  BY <1>1, <1>2, <1>3, FailoverAssumption DEF IInv, TypeOK, FailedOut
<1>6. CASE attempt[c] = MaxRetries /\ connections' = Release(c) /\ Leave(c)
  BY <1>1, <1>3, <1>4, <1>5, <1>6, LeaveInv
<1>7. CASE /\ attempt[c] < MaxRetries
           /\ pc' = [pc EXCEPT ![c] = "sleeping"]
           /\ UNCHANGED <<connections, ep, attempt>>
  <2>1. TypeOK'
    BY <1>3, <1>4, <1>7 DEF IInv, TypeOK, loopVars
  <2>2. LocalsFollow'
    BY <1>1, <1>7 DEF IInv, TypeOK, LocalsFollow
  <2>3. ConnectionsCounted'
    BY <1>7 DEF IInv, ConnectionsCounted, Holders
  <2> QED
    BY <1>5, <2>1, <2>2, <2>3 DEF IInv
<1> QED
  BY <1>6, <1>7 DEF CallRaises

(* The loop's steps touch no execution.                                    *)
LEMMA LoopInv ==
  ASSUME IInv,
         \/ \E e \in Endpoints : CheckPasses(e) \/ CheckFails(e)
         \/ StartChecks \/ Sweep \/ StopChecks
  PROVE  IInv'
<1>1. UNCHANGED <<strategy, index, connections, callerVars>>
  BY DEF CheckPasses, CheckFails, StartChecks, Sweep, StopChecks
<1>2. LocalsFollow' /\ ConnectionsCounted'
  BY <1>1 DEF IInv, LocalsFollow, ConnectionsCounted, Holders, callerVars
<1>3. ASSUME NEW e \in Endpoints, CheckPasses(e) PROVE TypeOK' /\ FailedOut'
  BY <1>1, <1>3, FailoverAssumption DEF CheckPasses, IInv, TypeOK, FailedOut, callerVars
<1>4. ASSUME NEW e \in Endpoints, CheckFails(e) PROVE TypeOK' /\ FailedOut'
  BY <1>1, <1>4, FailoverAssumption DEF CheckFails, Bump, IInv, TypeOK, FailedOut, callerVars
<1>5. ASSUME StartChecks \/ Sweep \/ StopChecks PROVE TypeOK' /\ FailedOut'
  BY <1>1, <1>5, FailoverAssumption
  DEF StartChecks, ToCheck, Sweep, StopChecks, IInv, TypeOK, FailedOut, callerVars
<1>6. TypeOK' /\ FailedOut'
  BY <1>3, <1>4, <1>5
<1> QED
  BY <1>2, <1>6 DEF IInv

LEMMA StepInv == IInv /\ [Next]_vars => IInv'
<1> SUFFICES ASSUME IInv, [Next]_vars PROVE IInv'
  OBVIOUS
<1>1. ASSUME NEW c \in Callers, Execute(c) PROVE IInv'
  BY <1>1, IdleCounts, TryInv DEF Execute
<1>2. ASSUME NEW c \in Callers, CallReturns(c) PROVE IInv'
  <2>1. ep[c] \in Endpoints /\ pc[c] # "idle"
    BY <1>2 DEF CallReturns, IInv, LocalsFollow
  <2>2. failures' \in [Endpoints -> 0..MaxFailures] /\ FailedOut'
    BY <1>2, <2>1, FailoverAssumption DEF CallReturns, IInv, TypeOK, FailedOut
  <2> QED
    BY <1>2, <2>1, <2>2, LeaveInv DEF CallReturns, IInv, TypeOK
<1>3. ASSUME NEW c \in Callers, CallRaises(c) PROVE IInv'
  BY <1>3, CallRaisesInv
<1>4. ASSUME NEW c \in Callers, Retry(c) PROVE IInv'
  BY <1>4, ReleaseCounts, TryInv DEF Retry
<1>5. ASSUME NEW c \in Callers, Cancelled(c) PROVE IInv'
  BY <1>5, LeaveInv DEF Cancelled, IInv, TypeOK, FailedOut
<1>6. CASE UNCHANGED vars
  BY <1>6 DEF vars, callerVars, loopVars, IInv, TypeOK, LocalsFollow,
              ConnectionsCounted, Holders, FailedOut
<1> QED
  BY <1>1, <1>2, <1>3, <1>4, <1>5, <1>6, LoopInv DEF Next, Caller

LEMMA Invariance == Spec => []IInv
BY InitInv, StepInv, PTL DEF Spec

-----------------------------------------------------------------------------
(* The locals, counters and sets of the manager keep their types; in       *)
(* particular no connection count is ever negative.                        *)
THEOREM TypeCorrect == Spec => []TypeOK
<1>1. IInv => TypeOK
  BY DEF IInv
<1> QED
  BY <1>1, Invariance, PTL

(* active_connections is the number of executions holding the endpoint,    *)
(* however the others ended.                                               *)
THEOREM ConnectionsAreCounted == Spec => []ConnectionsCounted
<1>1. IInv => ConnectionsCounted
  BY DEF IInv
<1> QED
  BY <1>1, Invariance, PTL

(* An endpoint with max_consecutive_failures failures is out already: the  *)
(* sweep of _check_all_endpoints never finds one to mark.                  *)
THEOREM FailedAreOut == Spec => []FailedOut
<1>1. IInv => FailedOut
  BY DEF IInv
<1> QED
  BY <1>1, Invariance, PTL

(* No strategy calls an endpoint that is out, and only its own health      *)
(* check brings it back.                                                   *)
THEOREM OutAreLeftAlone == Spec => OutIsLeftAlone
<1> DEFINE Alone == \A e \in Endpoints : e \notin healthy =>
                      /\ connections'[e] <= connections[e]
                      /\ e \in healthy' => e \in checking
<1>1. IInv /\ [Next]_vars => [Alone]_vars
  <2> SUFFICES ASSUME IInv, Next, NEW e \in Endpoints, e \notin healthy
               PROVE  /\ connections'[e] <= connections[e]
                      /\ e \in healthy' => e \in checking
    BY DEF Alone
  <2>1. connections \in [Endpoints -> Nat] /\ healthy \subseteq Endpoints
    BY DEF IInv, TypeOK
  <2>2. ASSUME NEW c \in Callers, NEW conn, Try(c, conn),
               conn \in {connections, Release(c)}, UNCHANGED healthy
        PROVE  connections'[e] <= connections[e] /\ e \notin healthy'
    <3>1. conn[e] <= connections[e]
      BY <2>1, <2>2 DEF Release
    <3>2. ASSUME NEW f \in Select(c, conn), connections' = [conn EXCEPT ![f] = @ + 1]
          PROVE  connections'[e] = conn[e]
      <4>1. f # e
        BY SelectsHealthy
      <4>2. conn \in [Endpoints -> Int]
        BY <2>1, <2>2 DEF Release
      <4> QED
        BY <3>2, <4>1, <4>2
    <3> QED
      BY <2>2, <3>1, <3>2 DEF Try
  <2>3. ASSUME NEW c \in Callers, Release(c) = connections' PROVE connections'[e] <= connections[e]
    BY <2>1, <2>3 DEF Release
  <2>4. ASSUME NEW c \in Callers, Execute(c) \/ Retry(c)
        PROVE  connections'[e] <= connections[e] /\ e \notin healthy'
    BY <2>2, <2>4 DEF Execute, Retry
  <2>5. ASSUME NEW c \in Callers, CallReturns(c) \/ CallRaises(c) \/ Cancelled(c)
        PROVE  connections'[e] <= connections[e] /\ e \notin healthy'
    <3>1. healthy' \subseteq healthy
      BY <2>5 DEF CallReturns, CallRaises, Cancelled
    <3>2. connections' = Release(c) \/ connections' = connections
      BY <2>5 DEF CallReturns, CallRaises, Cancelled
    <3> QED
      BY <2>1, <2>3, <3>1, <3>2
  <2>6. CASE \/ \E d \in Endpoints : CheckPasses(d) \/ CheckFails(d)
             \/ StartChecks \/ Sweep \/ StopChecks
    BY <2>1, <2>6 DEF CheckPasses, CheckFails, StartChecks, Sweep, StopChecks
  <2> QED
    BY <2>4, <2>5, <2>6 DEF Next, Caller
<1>2. [][Alone]_vars => OutIsLeftAlone
  BY PTL DEF OutIsLeftAlone
<1> QED
  BY <1>1, <1>2, Invariance, PTL DEF Spec

-----------------------------------------------------------------------------
(* The variant of the loop over attempts: with the fairness of the event   *)
(* loop, this is why ExecutionEnds.                                        *)
THEOREM ExecutionsWearOff == Spec => [](\A c \in Callers : StepsLeft(c) \in Nat) /\ ExecutionWearsOff
<1> DEFINE Moves(c) == pc[c] # "idle" /\ pc'[c] # "idle" /\ <<pc[c], attempt[c]>>' # <<pc[c], attempt[c]>>
           Wears == \A c \in Callers : Moves(c) => StepsLeft(c)' < StepsLeft(c)
<1>1. IInv => \A c \in Callers : StepsLeft(c) \in Nat
  BY FailoverAssumption DEF IInv, TypeOK, StepsLeft
<1>2. ASSUME IInv, Next, NEW c \in Callers, Moves(c)
      PROVE  StepsLeft(c)' < StepsLeft(c)
  <2>1. attempt[c] \in 0..MaxRetries /\ MaxRetries \in Nat
    BY <1>2, FailoverAssumption DEF IInv, TypeOK
  <2>2. pc \in [Callers -> {"idle", "calling", "sleeping"}] /\ attempt \in [Callers -> 0..MaxRetries]
    BY <1>2 DEF IInv, TypeOK
  <2>3. CASE \E d \in Callers \ {c} : Execute(d) \/ Caller(d) \/ Cancelled(d)
    BY <1>2, <2>2, <2>3 DEF Execute, Caller, CallReturns, CallRaises, Retry, Cancelled, Try, Leave
  <2>4. CASE Execute(c) \/ CallReturns(c) \/ Cancelled(c)
    BY <1>2, <2>2, <2>4 DEF Execute, CallReturns, Cancelled, Leave
  <2>5. CASE CallRaises(c)
    <3>1. pc[c] = "calling" /\ pc'[c] = "sleeping" /\ attempt'[c] = attempt[c]
      BY <1>2, <2>2, <2>5 DEF CallRaises, Leave
    <3> QED
      BY <2>1, <3>1 DEF StepsLeft
  <2>6. CASE Retry(c)
    <3>1. pc[c] = "sleeping" /\ pc'[c] = "calling" /\ attempt'[c] = attempt[c] + 1
      BY <1>2, <2>2, <2>6 DEF Retry, Try, NextAttempt, Leave
    <3> QED
      BY <2>1, <3>1 DEF StepsLeft
  <2>7. CASE \/ \E e \in Endpoints : CheckPasses(e) \/ CheckFails(e)
             \/ StartChecks \/ Sweep \/ StopChecks
    BY <1>2, <2>7 DEF CheckPasses, CheckFails, StartChecks, Sweep, StopChecks, callerVars
  <2> QED
    BY <1>2, <2>3, <2>4, <2>5, <2>6, <2>7 DEF Next, Caller
<1>3. IInv /\ [Next]_vars => [Wears]_vars
  BY <1>2
<1> QED
  BY <1>1, <1>3, Invariance, PTL DEF Spec, ExecutionWearsOff

=============================================================================
