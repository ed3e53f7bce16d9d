---------------------------- MODULE WebhookIntake ----------------------------
(***************************************************************************)
(* The processor of incoming webhooks: class WebhookProcessor of           *)
(* src/backend/core/external_api/webhooks.py, as the endpoints of          *)
(* modules/inflow_wrapper/api/webhooks.py and its OnlyFans twin use it.    *)
(*                                                                         *)
(* Requests put events on one asyncio.Queue, a pool of workers takes them  *)
(* and runs their handlers, and stop() waits for the queue to be joined    *)
(* before it cancels the workers.  Neither start() nor stop() asks whether *)
(* the other, or another call of its own kind, is under way.  A step is    *)
(* what a task does between two suspensions; asyncio is that of Python     *)
(* 3.11, whose event loop runs what is ready in the order it became so.    *)
(***************************************************************************)
EXTENDS Naturals, Sequences, FiniteSets

CONSTANTS
  Workers,   \* tasks that run _worker
  Batches,   \* the sets of tasks a call of start() may create: bounds a run
  Stoppers,  \* calls of stop() under way at one time
  Events,    \* the events that are accepted, each once: bounds a run
  None       \* no event

ASSUME IntakeAssumption ==
  /\ IsFiniteSet(Workers)
  /\ Batches \subseteq SUBSET Workers
  /\ None \notin Events

VARIABLES
  running,     \* self.running
  pool,        \* self.workers
  queue,       \* self.queue
  unfinished,  \* its count of unfinished tasks
  pc,          \* where each worker is: "gone" before and after its life
  item,        \* the event it has taken
  cancelling,  \* workers whose cancel() has not been delivered
  stop,        \* where each stop() is: "joining", "joined" once it is woken
               \* and until it goes on, "gathering"
  awaited,     \* the workers it gathers
  accepted,    \* events put on the queue
  handled,     \* history: events whose handler returned or raised
  owed         \* history: events accepted and not handled when it was called

stops  == <<stop, awaited, owed>>
events == <<queue, unfinished, item, accepted, handled>>
vars   == <<running, pool, pc, cancelling, stops, events>>

Init ==
  /\ running = FALSE
  /\ pool = {}
  /\ queue = <<>>
  /\ unfinished = 0
  /\ pc = [w \in Workers |-> "gone"]
  /\ item = [w \in Workers |-> None]
  /\ cancelling = {}
  /\ stop = [s \in Stoppers |-> "idle"]
  /\ awaited = [s \in Stoppers |-> {}]
  /\ accepted = {}
  /\ handled = {}
  /\ owed = [s \in Stoppers |-> {}]

-----------------------------------------------------------------------------
(* The endpoint has verified and parsed an event for which it has a        *)
(* handler: add_webhook.  Nothing asks whether the processor is running.   *)
AddWebhook(e) ==
  /\ e \notin accepted
  /\ accepted' = accepted \cup {e}
  /\ queue' = Append(queue, e)
  /\ unfinished' = unfinished + 1
  /\ UNCHANGED <<running, pool, pc, item, cancelling, stops, handled>>

(* start(), at any time: new workers join those there are.  The tasks of a *)
(* batch stand for new ones once nobody remembers them.                    *)
Start(b) ==
  /\ \A w \in b : pc[w] = "gone" /\ w \notin pool /\ \A s \in Stoppers : w \notin awaited[s]
  /\ running' = TRUE
  /\ pool' = pool \cup b
  /\ pc' = [w \in Workers |-> IF w \in b THEN "created" ELSE pc[w]]
  /\ UNCHANGED <<cancelling, stops, events>>

(* "while self.running": the worker waits for an event or leaves.          *)
LoopTop == IF running THEN "waiting" ELSE "gone"

(* The first step of a worker.                                             *)
Begin(w) ==
  /\ pc[w] = "created"
  /\ w \notin cancelling
  /\ pc' = [pc EXCEPT ![w] = LoopTop]
  /\ UNCHANGED <<running, pool, cancelling, stops, events>>

(* The getter inside wait_for takes the next event, also one that was      *)
(* called off by stop() a moment ago.                                      *)
Take(w) ==
  /\ pc[w] = "waiting"
  /\ queue # <<>>
  /\ pc' = [pc EXCEPT ![w] = "holding"]
  /\ item' = [item EXCEPT ![w] = Head(queue)]
  /\ queue' = Tail(queue)
  /\ UNCHANGED <<running, pool, unfinished, cancelling, stops, accepted, handled>>

(* wait_for returns the event and the handler begins.  A cancellation that *)
(* finds the getter done is swallowed by wait_for.  A stop() that is woken *)
(* goes first: it became ready before an event put since could be taken.   *)
Resume(w) ==
  /\ pc[w] = "holding"
  /\ \A s \in Stoppers : stop[s] # "joined"
  /\ pc' = [pc EXCEPT ![w] = "handling"]
  /\ cancelling' = cancelling \ {w}
  /\ UNCHANGED <<running, pool, stops, events>>

(* Mutation of WaitTimeout: break instead of continue.                     *)
WaitTimeoutBreaks(w) ==
  /\ pc[w] = "waiting"
  /\ pc' = [pc EXCEPT ![w] = "gone"]
  /\ cancelling' = cancelling \ {w}
  /\ UNCHANGED <<running, pool, stops, events>>

(* The wait times out.  The worker waits anew while self.running, which    *)
(* changes nothing, and leaves otherwise, whatever is in the queue.        *)
WaitTimeout(w) ==
  /\ pc[w] = "waiting"
  /\ ~running
  /\ pc' = [pc EXCEPT ![w] = "gone"]
  /\ cancelling' = cancelling \ {w}
  /\ UNCHANGED <<running, pool, stops, events>>

(* Mutations of TaskDone: called a second time for an event, or only when  *)
(* the handler does not raise.                                             *)
TaskDoneTwice   == unfinished - 2
TaskDoneSkipped == unfinished

(* queue.task_done().                                                      *)
TaskDone == unfinished - 1

(* The handler returns or raises, which is printed.  The task_done() that  *)
(* brings the count to zero wakes every stop() that joins.                 *)
HandlerEnds(w) ==
  /\ pc[w] = "handling"
  /\ handled' = handled \cup {item[w]}
  /\ item' = [item EXCEPT ![w] = None]
  /\ unfinished' = TaskDone
  /\ pc' = [pc EXCEPT ![w] = LoopTop]
  /\ stop' = [s \in Stoppers |-> IF stop[s] = "joining" /\ TaskDone = 0
                                   THEN "joined" ELSE stop[s]]
  /\ UNCHANGED <<running, pool, queue, cancelling, awaited, accepted, owed>>

(* CancelledError is raised where the worker is suspended, and ends it.    *)
(* An event it was handling is given up without task_done().               *)
CancelArrives(w) ==
  /\ w \in cancelling
  /\ pc[w] # "holding"
  /\ cancelling' = cancelling \ {w}
  /\ pc' = [pc EXCEPT ![w] = "gone"]
  /\ item' = [item EXCEPT ![w] = None]
  /\ UNCHANGED <<running, pool, queue, unfinished, stops, accepted, handled>>

Alive == {w \in Workers : pc[w] # "gone"}

(* stop() after queue.join(): every worker of the pool that has not left   *)
(* is cancelled.  gather() of no workers does not suspend.                 *)
CancelPool(s) ==
  /\ cancelling' = cancelling \cup (pool \cap Alive)
  /\ awaited' = [awaited EXCEPT ![s] = pool]
  /\ stop' = [stop EXCEPT ![s] = IF pool = {} THEN "idle" ELSE "gathering"]

(* Mutation of Stop: the workers are cancelled without queue.join().       *)
StopCancelsFirst(s) ==
  /\ stop[s] = "idle"
  /\ running' = FALSE
  /\ owed' = [owed EXCEPT ![s] = accepted \ handled]
  /\ CancelPool(s)
  /\ UNCHANGED <<pool, pc, events>>

(* stop(), at any time, up to queue.join(), which does not suspend if      *)
(* nothing is unfinished.                                                  *)
Stop(s) ==
  /\ stop[s] = "idle"
  /\ running' = FALSE
  /\ owed' = [owed EXCEPT ![s] = accepted \ handled]
  /\ IF unfinished = 0
       THEN CancelPool(s)
       ELSE stop' = [stop EXCEPT ![s] = "joining"] /\ UNCHANGED <<cancelling, awaited>>
  /\ UNCHANGED <<pool, pc, events>>

(* join() returns, also if an event was put since stop() was woken.        *)
StopResumes(s) ==
  /\ stop[s] = "joined"
  /\ CancelPool(s)
  /\ UNCHANGED <<running, pool, pc, owed, events>>

(* gather() returns once every worker it was given has left; then          *)
(* self.workers.clear(), which forgets those a start() has added meanwhile.*)
Gathered(s) ==
  /\ stop[s] = "gathering"
  /\ \A w \in awaited[s] : pc[w] = "gone"
  /\ stop' = [stop EXCEPT ![s] = "idle"]
  /\ awaited' = [awaited EXCEPT ![s] = {}]
  /\ pool' = {}
  /\ UNCHANGED <<running, pc, cancelling, owed, events>>

WorkerStep(w) ==
  \/ Begin(w) \/ Take(w) \/ Resume(w)
  \/ WaitTimeout(w) \/ HandlerEnds(w) \/ CancelArrives(w)

StopperStep(s) == StopResumes(s) \/ Gathered(s)

Next ==
  \/ \E e \in Events : AddWebhook(e)
  \/ \E b \in Batches : Start(b)
  \/ \E s \in Stoppers : Stop(s) \/ StopperStep(s)
  \/ \E w \in Workers : WorkerStep(w)

Spec == Init /\ [][Next]_vars

(* The event loop runs every task that is ready, and handlers end.  Nobody *)
(* has to send events, start or stop.                                      *)
Fairness ==
  /\ \A w \in Workers : WF_vars(WorkerStep(w))
  /\ \A s \in Stoppers : WF_vars(StopperStep(s))

FairSpec == Spec /\ Fairness

-----------------------------------------------------------------------------
Queued  == {queue[i] : i \in 1..Len(queue)}
Holders == {w \in Workers : pc[w] \in {"holding", "handling"}}
Held    == {item[w] : w \in Holders}

TypeOK ==
  /\ running \in BOOLEAN
  /\ pool \subseteq Workers
  /\ queue \in Seq(Events)
  /\ unfinished \in Nat
  /\ pc \in [Workers -> {"created", "waiting", "holding", "handling", "gone"}]
  /\ item \in [Workers -> Events \cup {None}]
  /\ cancelling \subseteq Workers
  /\ stop \in [Stoppers -> {"idle", "joining", "joined", "gathering"}]
  /\ awaited \in [Stoppers -> SUBSET Workers]
  /\ accepted \subseteq Events
  /\ handled \subseteq Events
  /\ owed \in [Stoppers -> SUBSET Events]

(* An accepted event is in the queue, in the hands of one worker, or       *)
(* handled, and never in two of these: none is lost to a cancellation, and *)
(* none is handled twice.                                                  *)
OnePlace ==
  /\ accepted = Queued \cup Held \cup handled
  /\ Queued \cap Held = {}
  /\ (Queued \cup Held) \cap handled = {}
  /\ \A i, k \in 1..Len(queue) : queue[i] = queue[k] => i = k
  /\ \A v, w \in Holders : item[v] = item[w] => v = w

(* What join() counts is what is left to do.                               *)
Counted == unfinished = Len(queue) + Cardinality(Holders)

(* When a stop() cancels the workers, and when it returns, every event     *)
(* accepted before it was called has been handled.                         *)
StopDrains == \A s \in Stoppers : stop[s] # "joining" => owed[s] \subseteq handled

(* No stop() ever interrupts a handler, not even that of an event accepted *)
(* while it was cancelling the workers, or of a worker started since.      *)
NeverInterrupted == \A w \in cancelling : pc[w] # "handling"

(* Every worker has left and a stop() still waits for the queue.           *)
Stranded(s) == stop[s] = "joining" /\ Alive = {}

(* That happens over a backlog only: stop() was called while events were   *)
(* queued behind busy workers, who left after the event in hand since      *)
(* self.running was FALSE.  With nothing queued, somebody is still there   *)
(* to call the last task_done().                                           *)
StrandedOverBacklog == \A s \in Stoppers : Stranded(s) => queue # <<>>

(* The events of a backlog are taken in the order they were accepted: none *)
(* that waits is overtaken.                                                *)
NoOvertaking ==
  [][\A i \in 1..Len(queue), n \in 1..Len(queue') : queue'[n] = queue[i] => n <= i]_vars

(* Between a stop() and the next start() a worker handles at most one more *)
(* event: the one it waits for or has taken.                               *)
Course == [created |-> 0, waiting |-> 1, holding |-> 2, handling |-> 3, gone |-> 4]

OneEventAfterStop ==
  [][~running /\ ~running'
       => \A w \in Workers : pc'[w] # pc[w] => Course[pc'[w]] > Course[pc[w]]]_vars

(* Every accepted event is handled, also one accepted before start() or    *)
(* left over by an earlier stop(), if in the end the processor is running  *)
(* with a pool.  (A stop() still under way when start() is called takes    *)
(* the new workers with it or forgets them, and leaves no pool.)           *)
EventsAreHandled ==
  \A e \in Events : <>[](running /\ pool # {}) => (e \in accepted ~> e \in handled)

(* A stop() gets past the join, however many others are under way, unless  *)
(* it is stranded over a backlog.                                          *)
JoinEnds ==
  \A s \in Stoppers :
    stop[s] = "joining" ~> stop[s] # "joining" \/ (Stranded(s) /\ queue # <<>>)

=============================================================================
