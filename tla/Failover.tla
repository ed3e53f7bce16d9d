------------------------------ MODULE Failover ------------------------------
(***************************************************************************)
(* FailoverManager and Endpoint of                                         *)
(* src/backend/core/resilience/failover.py: callers that execute a         *)
(* function with failover, and the health-check loop, on one event loop.   *)
(*                                                                         *)
(* An execution suspends while it awaits the function and while it sleeps  *)
(* before its next attempt; the loop suspends while it gathers its checks  *)
(* and while it sleeps.  The skip of recently checked endpoints never      *)
(* applies: a round begins a whole health_check_interval after the last    *)
(* check ended, and half of it is enough to be checked again.              *)
(***************************************************************************)
EXTENDS Integers, FiniteSets

CONSTANTS
  Callers,      \* coroutines that call execute_with_failover
  N,            \* number of endpoints: endpoint e is self.endpoints[e - 1]
  Priority,     \* priority of each endpoint
  Checked,      \* endpoints that have a health_check
  Distance,     \* distance of each endpoint from each caller's key on the hash ring
  Strategies,   \* the strategies a manager may be built with
  MaxFailures,  \* max_consecutive_failures
  MaxRetries,   \* max_retries
  Period        \* _current_index is kept modulo Period

Endpoints == 1..N

ASSUME FailoverAssumption ==
  /\ IsFiniteSet(Callers)
  /\ N \in Nat \ {0}
  /\ Priority \in [Endpoints -> Nat]
  /\ Checked \subseteq Endpoints
  /\ Distance \in [Callers -> [Endpoints -> Nat]]
  /\ Strategies \subseteq {"round_robin", "random", "weighted", "priority",
                           "least_connections", "consistent_hash"}
  /\ MaxFailures \in Nat \ {0}
  /\ MaxRetries \in Nat \ {0}
  /\ Period \in Nat \ {0}

VARIABLES
  strategy,     \* strategy
  index,        \* _current_index
  healthy,      \* the endpoints with is_healthy
  failures,     \* consecutive_failures, at most MaxFailures
  connections,  \* active_connections
  pc,           \* where each caller's execution is suspended
  ep,           \* its local variable endpoint, 0 when there is none
  attempt,      \* its local variable attempt, from 1
  loop,         \* where the health-check loop is suspended
  checking      \* endpoints whose check_health is suspended

callerVars == <<pc, ep, attempt>>
loopVars == <<loop, checking>>
vars == <<strategy, index, healthy, failures, connections, callerVars, loopVars>>

Init ==
  /\ strategy \in Strategies
  /\ index = 0
  /\ healthy = Endpoints
  /\ failures = [e \in Endpoints |-> 0]
  /\ connections = [e \in Endpoints |-> 0]
  /\ pc = [c \in Callers |-> "idle"]
  /\ ep = [c \in Callers |-> 0]
  /\ attempt = [c \in Callers |-> 0]
  /\ loop = "sleeping"
  /\ checking = {}

-----------------------------------------------------------------------------
(* Selections among the endpoints of S: the one at _current_index modulo   *)
(* their number, those with the least f, those of the highest priority,    *)
(* the first in the order of self.endpoints.                               *)
RoundRobin(S) == {e \in S : Cardinality({d \in S : d < e}) = index % Cardinality(S)}
Least(S, f)   == {e \in S : \A d \in S : f[e] <= f[d]}
Top(S)        == {e \in S : \A d \in S : Priority[d] <= Priority[e]}
First(S)      == {e \in S : \A d \in S : e <= d}

(* The remainders of the counter by the lengths it is used with survive    *)
(* the modulus.                                                            *)
ASSUME PeriodAssumption ==
  \A S \in (SUBSET Endpoints) \ {{}} :
    /\ "priority" \in Strategies => Period % Cardinality(Top(S)) = 0
    /\ "round_robin" \in Strategies => Period % Cardinality(S) = 0

(* Mutation of OnRing: the owner of the key, healthy or not.               *)
OnRingOwner(c) == Least(Endpoints, Distance[c])

(* _consistent_hash_select: the first healthy endpoint from the key on.    *)
OnRing(c) == Least(healthy, Distance[c])

(* get_endpoint: what it may return, given the connection counts.          *)
Select(c, conn) ==
  CASE strategy = "round_robin"       -> RoundRobin(healthy)
    [] strategy = "priority"          -> RoundRobin(Top(healthy))
    [] strategy = "least_connections" -> First(Least(healthy, conn))
    [] strategy = "consistent_hash"   -> First(OnRing(c))
    [] OTHER                          -> healthy  \* random, weighted

Turns == strategy \in {"round_robin", "priority"}

(* Mutations of Release: the connection is also released in the except     *)
(* clause, or not released by a caller that slept; and of Bump: a failed   *)
(* call is not counted.                                                    *)
ReleaseTwice(c)    == [connections EXCEPT ![ep[c]] = IF pc[c] = "sleeping" THEN @ - 2 ELSE @ - 1]
ReleaseReturned(c) == IF pc[c] = "sleeping" THEN connections ELSE [connections EXCEPT ![ep[c]] = @ - 1]
BumpNothing(e)     == failures[e]

(* finally: endpoint.active_connections -= 1                               *)
Release(c) == [connections EXCEPT ![ep[c]] = @ - 1]

(* One more failure.  The count matters only up to MaxFailures.            *)
Bump(e) == IF failures[e] < MaxFailures THEN failures[e] + 1 ELSE MaxFailures

(* The execution of c ends: its locals are gone.                           *)
Leave(c) ==
  /\ pc' = [pc EXCEPT ![c] = "idle"]
  /\ ep' = [ep EXCEPT ![c] = 0]
  /\ attempt' = [attempt EXCEPT ![c] = 0]

(* Mutation of NextAttempt: range(max_retries) starts over.                *)
NextAttemptAgain(c) == 1

NextAttempt(c) == attempt[c] + 1

(* An iteration of the loop over attempts, up to the await: conn holds the *)
(* counts once the connection of the attempt before is released.           *)
Try(c, conn) ==
  \/ /\ healthy # {}
     /\ \E e \in Select(c, conn) :
          /\ ep' = [ep EXCEPT ![c] = e]
          /\ connections' = [conn EXCEPT ![e] = @ + 1]
     /\ index' = IF Turns THEN (index + 1) % Period ELSE index
     /\ pc' = [pc EXCEPT ![c] = "calling"]
     /\ attempt' = [attempt EXCEPT ![c] = NextAttempt(c)]
  \/ /\ healthy = {}
     /\ Leave(c)
     /\ connections' = conn
     /\ UNCHANGED index

Execute(c) ==
  /\ pc[c] = "idle"
  /\ Try(c, connections)
  /\ UNCHANGED <<strategy, healthy, failures, loopVars>>

(* The function returned.  A success clears the count and nothing else: it *)
(* does not make the endpoint healthy.                                     *)
CallReturns(c) ==
  /\ pc[c] = "calling"
  /\ failures' = [failures EXCEPT ![ep[c]] = 0]
  /\ connections' = Release(c)
  /\ Leave(c)
  /\ UNCHANGED <<strategy, index, healthy, loopVars>>

(* The function raised.  The connection is held while the caller sleeps.   *)
CallRaises(c) ==
  /\ pc[c] = "calling"
  /\ failures' = [failures EXCEPT ![ep[c]] = Bump(ep[c])]
  /\ healthy' = IF Bump(ep[c]) >= MaxFailures THEN healthy \ {ep[c]} ELSE healthy
  /\ \/ /\ attempt[c] < MaxRetries
        /\ pc' = [pc EXCEPT ![c] = "sleeping"]
        /\ UNCHANGED <<connections, ep, attempt>>
     \/ /\ attempt[c] = MaxRetries
        /\ connections' = Release(c)
        /\ Leave(c)
  /\ UNCHANGED <<strategy, index, loopVars>>

(* The brief delay is over: release the connection and try again.          *)
Retry(c) ==
  /\ pc[c] = "sleeping"
  /\ Try(c, Release(c))
  /\ UNCHANGED <<strategy, healthy, failures, loopVars>>

(* The task of the caller is cancelled: only the finally clause runs.      *)
Cancelled(c) ==
  /\ pc[c] # "idle"
  /\ connections' = Release(c)
  /\ Leave(c)
  /\ UNCHANGED <<strategy, index, healthy, failures, loopVars>>

-----------------------------------------------------------------------------
(* Mutation of ToCheck: endpoints that are out are not checked.            *)
ToCheckHealthy == Checked \cap healthy

(* The endpoints whose check suspends; the others return True at once and  *)
(* change nothing.                                                         *)
ToCheck == Checked

(* _check_all_endpoints, up to the gather.                                 *)
StartChecks ==
  /\ loop = "sleeping"
  /\ loop' = "checking"
  /\ checking' = ToCheck
  /\ UNCHANGED <<strategy, index, healthy, failures, connections, callerVars>>

(* Mutation of CheckPasses: the count of failures is left alone.           *)
CheckPassesKeepsCount(e) ==
  /\ e \in checking
  /\ checking' = checking \ {e}
  /\ healthy' = healthy \cup {e}
  /\ UNCHANGED <<strategy, index, failures, connections, callerVars, loop>>

(* check_health of e ends: the check returned True, or it did not, or      *)
(* raised.                                                                 *)
CheckPasses(e) ==
  /\ e \in checking
  /\ checking' = checking \ {e}
  /\ healthy' = healthy \cup {e}
  /\ failures' = [failures EXCEPT ![e] = 0]
  /\ UNCHANGED <<strategy, index, connections, callerVars, loop>>

CheckFails(e) ==
  /\ e \in checking
  /\ checking' = checking \ {e}
  /\ healthy' = healthy \ {e}
  /\ failures' = [failures EXCEPT ![e] = Bump(e)]
  /\ UNCHANGED <<strategy, index, connections, callerVars, loop>>

(* The gather returned: mark endpoints with too many failures, and sleep.  *)
Sweep ==
  /\ loop = "checking"
  /\ checking = {}
  /\ healthy' = {e \in healthy : failures[e] < MaxFailures}
  /\ loop' = "sleeping"
  /\ UNCHANGED <<strategy, index, failures, connections, callerVars, checking>>

(* stop(): the loop's task is cancelled, and with it the checks it awaits. *)
StopChecks ==
  /\ loop # "stopped"
  /\ loop' = "stopped"
  /\ checking' = {}
  /\ UNCHANGED <<strategy, index, healthy, failures, connections, callerVars>>

Caller(c) == CallReturns(c) \/ CallRaises(c) \/ Retry(c)

Next ==
  \/ \E c \in Callers : Execute(c) \/ Caller(c) \/ Cancelled(c)
  \/ \E e \in Endpoints : CheckPasses(e) \/ CheckFails(e)
  \/ StartChecks \/ Sweep \/ StopChecks

Spec == Init /\ [][Next]_vars

(* Calls and checks end, for their requests have timeouts, and the event   *)
(* loop runs what is ready.  Nobody has to call, to cancel or to stop.     *)
Fairness ==
  /\ \A c \in Callers : WF_vars(Caller(c))
  /\ \A e \in Endpoints : WF_vars(CheckPasses(e) \/ CheckFails(e))
  /\ WF_vars(StartChecks \/ Sweep)

FairSpec == Spec /\ Fairness

-----------------------------------------------------------------------------
TypeOK ==
  /\ strategy \in Strategies
  /\ index \in 0..(Period - 1)
  /\ healthy \subseteq Endpoints
  /\ failures \in [Endpoints -> 0..MaxFailures]
  /\ connections \in [Endpoints -> Nat]
  /\ pc \in [Callers -> {"idle", "calling", "sleeping"}]
  /\ ep \in [Callers -> 0..N]
  /\ attempt \in [Callers -> 0..MaxRetries]
  /\ loop \in {"sleeping", "checking", "stopped"}
  /\ checking \subseteq Checked

Holders(e) == {c \in Callers : ep[c] = e}

(* The connection count of an endpoint is the number of executions that    *)
(* call it or wait to leave it, whichever way the others ended: returned,  *)
(* raised, gave up or cancelled.  Least-connections relies on it.          *)
ConnectionsCounted == \A e \in Endpoints : connections[e] = Cardinality(Holders(e))

(* An endpoint that has failed max_consecutive_failures times in a row, as *)
(* counted by callers and checks together, is out, at once and not only    *)
(* when the loop sweeps.                                                   *)
FailedOut == \A e \in Endpoints : failures[e] >= MaxFailures => e \notin healthy

(* No call is made to an endpoint that is out, and while a caller sleeps   *)
(* or calls, its endpoint may go out but only a passed check, never the    *)
(* success of a late call, brings it back.                                 *)
OutIsLeftAlone ==
  [][\A e \in Endpoints : e \notin healthy =>
       /\ connections'[e] <= connections[e]
       /\ e \in healthy' => e \in checking]_vars

(* An execution ends.                                                      *)
ExecutionEnds == \A c \in Callers : pc[c] # "idle" ~> pc[c] = "idle"

(* The steps an execution has left, at most: two for each further attempt, *)
(* the await of the function and the sleep, and one if it is in the await. *)
StepsLeft(c) == 2 * (MaxRetries - attempt[c]) + (IF pc[c] = "calling" THEN 1 ELSE 0)

(* Every step of an execution that does not end it leaves it fewer, so the *)
(* function is awaited MaxRetries times at most, whatever the endpoints,   *)
(* the loop and the other callers do meanwhile.                            *)
ExecutionWearsOff ==
  [][\A c \in Callers : pc[c] # "idle" /\ pc'[c] # "idle" /\ <<pc[c], attempt[c]>>' # <<pc[c], attempt[c]>>
       => StepsLeft(c)' < StepsLeft(c)]_vars

Fails(e) == CheckFails(e) \/ \E c \in Callers : ep[c] = e /\ CallRaises(c)

(* An endpoint that has a health check and stops failing comes back for    *)
(* good, as long as the loop runs.                                         *)
SoundComesBack ==
  \A e \in Checked :
    <>[][~Fails(e)]_vars => <>[](e \in healthy \/ loop = "stopped")

Spares(e) == CheckPasses(e) \/ \E c \in Callers : ep[c] = e /\ (CallReturns(c) \/ Cancelled(c))

(* An endpoint that only fails is no longer called: it is put out, with or *)
(* without a health check.                                                 *)
BrokenIsLeft ==
  \A e \in Endpoints :
    <>[][~Spares(e)]_vars => <>[](e \notin healthy \/ connections[e] = 0)

-----------------------------------------------------------------------------
(* What the documentation says and the code does not do.                   *)

(* "Try next endpoint": the attempt after a failure goes to another        *)
(* endpoint when another one is healthy.                                   *)
RetryMovesOn ==
  [][\A c \in Callers :
       pc[c] = "sleeping" /\ pc'[c] = "calling" /\ healthy \ {ep[c]} # {}
         => ep'[c] # ep[c]]_vars

=============================================================================
