---------------------------- MODULE SyncScheduler ----------------------------
(***************************************************************************)
(* The in-memory scheduler of provider syncs: SyncScheduler of             *)
(* src/backend/services/sync_scheduler.py and the endpoints that drive it. *)
(*                                                                         *)
(* The program is one asyncio event loop.  An action below is what one     *)
(* coroutine does between two suspension points: the workers               *)
(* (_sync_worker), the task each worker creates for its job                *)
(* (_execute_sync), the scheduler loop, the request handlers and stop().   *)
(* A task is cancelled in two steps, as asyncio does it: cancel() only     *)
(* records the request, and CancelledError is raised at the await where    *)
(* the task is suspended when it next runs.                                *)
(***************************************************************************)
EXTENDS Naturals, Sequences

CONSTANTS
  Workers,  \* the max_concurrent_syncs worker coroutines
  Keys,     \* API keys with sync enabled
  Jobs,     \* the fresh uuid4 values SyncJob draws: bounds the jobs of a run
  None      \* Python's None

ASSUME NoneAssumption == None \notin Jobs \cup Keys

VARIABLES
  running,     \* _running
  status,      \* SyncJob.status of every job in _jobs; "absent": not in _jobs
  key,         \* SyncJob.api_key_id
  delayed,     \* jobs scheduled with delay_seconds > 0
  queue,       \* _job_queue
  active,      \* the keys of _active_syncs
  pc,          \* where each worker coroutine is suspended
  job,         \* the local variable job of each worker
  task,        \* where the task that executes a job is suspended
  cancelling,  \* tasks whose cancel() was called and not yet delivered
  stopping,    \* where stop() is suspended
  awaited,     \* the tasks stop() gathers
  byLoop,      \* history: jobs the scheduler loop created
  withdrawn,   \* history: jobs cancel_sync returned True for
  committed    \* history: jobs whose db.commit() returned

jobVars  == <<status, key, delayed, byLoop>>
taskVars == <<task, committed>>
stopVars == <<running, stopping, awaited>>
vars == <<running, status, key, delayed, queue, active, pc, job, task,
          cancelling, stopping, awaited, byLoop, withdrawn, committed>>

Live     == {"scheduled", "running"}
Statuses == Live \cup {"completed", "failed", "cancelled"}
Over     == {"done", "cancelled"}  \* the task finished, or ended in CancelledError

-----------------------------------------------------------------------------
(* start() has run, and each worker waits for its first job.               *)
Init ==
  /\ running = TRUE
  /\ status = [j \in Jobs |-> "absent"]
  /\ key = [j \in Jobs |-> None]
  /\ delayed = {}
  /\ queue = <<>>
  /\ active = {}
  /\ pc = [w \in Workers |-> "waiting"]
  /\ job = [w \in Workers |-> None]
  /\ task = [j \in Jobs |-> "none"]
  /\ cancelling = {}
  /\ stopping = "no"
  /\ awaited = {}
  /\ byLoop = {}
  /\ withdrawn = {}
  /\ committed = {}

(* Mutations of Fresh: no default for the id; the id of a finished job.    *)
FreshIsNone   == None
FreshIsReused == CHOOSE j \in Jobs : status[j] \in {"absent", "completed"}

(* The uuid of the next SyncJob, as long as the bound Jobs leaves one.     *)
CanCreate == \E j \in Jobs : status[j] = "absent"
Fresh     == CHOOSE j \in Jobs : status[j] = "absent"

(* schedule_sync: a fresh job is recorded, and queued only without delay.  *)
(* It suspends nowhere: the queue is unbounded, so put() does not wait.    *)
Schedule(k, later) ==
  /\ CanCreate
  /\ key' = [key EXCEPT ![Fresh] = k]
  /\ delayed' = IF later THEN delayed \cup {Fresh} ELSE delayed
  /\ queue' = IF later THEN queue ELSE Append(queue, Fresh)

(* The endpoints that call schedule_sync: they look at no other job.       *)
ClientSchedule(k, later) ==
  /\ running
  /\ Schedule(k, later)
  /\ status' = [status EXCEPT ![Fresh] = "scheduled"]
  /\ UNCHANGED <<active, pc, job, cancelling, byLoop, withdrawn, taskVars, stopVars>>

(* cancel_sync: the status is overwritten whatever it was.  Cancelling a   *)
(* task that is over is a no-op.                                           *)
ClientCancel(j) ==
  /\ running
  /\ status[j] # "absent"
  /\ status' = [status EXCEPT ![j] = "cancelled"]
  /\ cancelling' = IF j \in active /\ task[j] \notin Over
                     THEN cancelling \cup {j} ELSE cancelling
  /\ withdrawn' = withdrawn \cup {j}
  /\ UNCHANGED <<key, delayed, byLoop, queue, active, pc, job, taskVars, stopVars>>

(* Mutation of Scheduled: a job that is already running is overlooked.     *)
ScheduledOnly(k) == \E j \in Jobs : key[j] = k /\ status[j] = "scheduled"

(* Check if already scheduled or running.                                  *)
Scheduled(k) == \E j \in Jobs : key[j] = k /\ status[j] \in Live

(* _check_and_schedule_sync, for a key the loop found due.  The scan of    *)
(* _jobs and schedule_sync run without a suspension between them.          *)
LoopCheck(k) ==
  /\ running
  /\ ~Scheduled(k)
  /\ Schedule(k, FALSE)
  /\ status' = [status EXCEPT ![Fresh] = "scheduled"]
  /\ byLoop' = byLoop \cup {Fresh}
  /\ UNCHANGED <<active, pc, job, cancelling, withdrawn, taskVars, stopVars>>

-----------------------------------------------------------------------------
(* Mutation of NextIteration: while True.                                  *)
NextIterationForever(w) == pc' = [pc EXCEPT ![w] = "waiting"]

(* while self._running, tested when an iteration ends: the worker goes     *)
(* straight on to wait for its next job, or leaves.                        *)
NextIteration(w) == pc' = [pc EXCEPT ![w] = IF running THEN "waiting" ELSE "exited"]

(* Mutation of Available: a cancelled job is not taken, nor removed.       *)
AvailableLive == queue # <<>> /\ status[Head(queue)] = "scheduled"

(* _job_queue.get() has an item to return.                                 *)
Available == queue # <<>>

(* The getter that wait_for runs removes the head of the queue; the worker *)
(* itself resumes in a later iteration of the event loop.                  *)
Take(w) ==
  /\ pc[w] = "waiting"
  /\ Available
  /\ job' = [job EXCEPT ![w] = Head(queue)]
  /\ queue' = Tail(queue)
  /\ pc' = [pc EXCEPT ![w] = "got"]
  /\ UNCHANGED <<active, cancelling, withdrawn, jobVars, taskVars, stopVars>>

(* wait_for gives up after five seconds: except TimeoutError: continue.    *)
(* An item may have arrived by then; the cancelled getter leaves it alone. *)
WaitTimeout(w) ==
  /\ pc[w] = "waiting"
  /\ NextIteration(w)
  /\ UNCHANGED <<queue, active, job, cancelling, withdrawn, jobVars, taskVars, stopVars>>

(* The worker creates the job's task and registers it; it looks neither at *)
(* _running nor at the job's status.                                       *)
BeginJob(w) ==
  /\ pc[w] = "got"
  /\ task' = [task EXCEPT ![job[w]] = "created"]
  /\ active' = active \cup {job[w]}
  /\ pc' = [pc EXCEPT ![w] = "awaiting"]
  /\ UNCHANGED <<queue, job, cancelling, withdrawn, committed, jobVars, stopVars>>

(* Mutation of Breaks: except Exception: break.                            *)
BreaksOnFailure(j) == task[j] = "cancelled" \/ status[j] = "failed"

(* A task that ended in CancelledError raises it where it is awaited, and  *)
(* except CancelledError breaks the worker's loop.                         *)
Breaks(j) == task[j] = "cancelled"

(* await task returns or raises; finally pops _active_syncs.  The worker's *)
(* local variable is dead once it waits again.                             *)
TaskJoined(w) ==
  /\ pc[w] = "awaiting"
  /\ task[job[w]] \in Over
  /\ active' = active \ {job[w]}
  /\ \/ Breaks(job[w]) /\ pc' = [pc EXCEPT ![w] = "exited"] /\ UNCHANGED job
     \/ ~Breaks(job[w]) /\ NextIteration(w) /\ job' = [job EXCEPT ![w] = None]
  /\ UNCHANGED <<queue, cancelling, withdrawn, jobVars, taskVars, stopVars>>

Worker(w) ==
  \/ Take(w)
  \/ WaitTimeout(w)
  \/ BeginJob(w)
  \/ TaskJoined(w)

-----------------------------------------------------------------------------
(* The first step of _execute_sync.                                        *)
TaskStart(j) ==
  /\ task[j] = "created"
  /\ j \notin cancelling
  /\ status' = [status EXCEPT ![j] = "running"]
  /\ task' = [task EXCEPT ![j] = "syncing"]
  /\ UNCHANGED <<key, delayed, byLoop, queue, active, pc, job, cancelling,
                 withdrawn, committed, stopVars>>

(* Everything inside the inner try succeeded and was committed.            *)
SyncCommits(j) ==
  /\ task[j] = "syncing"
  /\ j \notin cancelling
  /\ committed' = committed \cup {j}
  /\ status' = [status EXCEPT ![j] = "completed"]
  /\ task' = [task EXCEPT ![j] = "closing"]
  /\ UNCHANGED <<key, delayed, byLoop, queue, active, pc, job, cancelling,
                 withdrawn, stopVars>>

(* Mutation of SyncRaises: the verdict is written in the finally clause.   *)
SyncRaisesReportsSuccess(j) ==
  /\ task[j] = "syncing"
  /\ j \notin cancelling
  /\ status' = [status EXCEPT ![j] = "completed"]
  /\ task' = [task EXCEPT ![j] = "closing"]
  /\ UNCHANGED <<key, delayed, byLoop, queue, active, pc, job, cancelling,
                 withdrawn, committed, stopVars>>

(* An exception inside the inner try: rolled back and raised again, but    *)
(* the break in the finally clause discards it, so the status stays.       *)
SyncRaises(j) ==
  /\ task[j] = "syncing"
  /\ j \notin cancelling
  /\ task' = [task EXCEPT ![j] = "closing"]
  /\ UNCHANGED <<queue, active, pc, job, cancelling, withdrawn, committed,
                 jobVars, stopVars>>

(* await db.close() in the finally clause returns; break ends the loop.    *)
CloseReturns(j) ==
  /\ task[j] = "closing"
  /\ j \notin cancelling
  /\ task' = [task EXCEPT ![j] = "done"]
  /\ UNCHANGED <<queue, active, pc, job, cancelling, withdrawn, committed,
                 jobVars, stopVars>>

(* await db.close() raises before the break is reached: the only error the *)
(* outer except clause ever sees.  The job is FAILED, and a fresh job is   *)
(* scheduled as its retry, with a delay.  retry_count is 0 on every fresh  *)
(* job, so the test retry_count < max_retries (1 < 3) always holds.        *)
CloseRaises(j) ==
  /\ task[j] = "closing"
  /\ j \notin cancelling
  /\ Schedule(key[j], TRUE)
  /\ status' = [status EXCEPT ![j] = "failed", ![Fresh] = "scheduled"]
  /\ task' = [task EXCEPT ![j] = "done"]
  /\ UNCHANGED <<active, pc, job, cancelling, withdrawn, committed, byLoop, stopVars>>

(* CancelledError reaches the task.  Inside the inner try the break in the *)
(* finally clause discards it like any other exception; before the first   *)
(* step, and at await db.close(), nothing catches it and the task ends     *)
(* cancelled.                                                              *)
CancelDelivered(j) ==
  /\ j \in cancelling
  /\ cancelling' = cancelling \ {j}
  /\ task' = [task EXCEPT ![j] = IF @ = "syncing" THEN "closing" ELSE "cancelled"]
  /\ UNCHANGED <<queue, active, pc, job, withdrawn, committed, jobVars, stopVars>>

Execute(j) ==
  \/ TaskStart(j)
  \/ SyncCommits(j)
  \/ SyncRaises(j)
  \/ CloseReturns(j)
  \/ CloseRaises(j)
  \/ CancelDelivered(j)

-----------------------------------------------------------------------------
(* stop(), up to the await of the cancelled scheduler task.                *)
StopBegin ==
  /\ running
  /\ running' = FALSE
  /\ stopping' = "loop"
  /\ UNCHANGED <<awaited, queue, active, pc, job, cancelling, withdrawn,
                 jobVars, taskVars>>

(* The scheduler task ended; cancel the registered tasks and gather them.  *)
StopCancelsSyncs ==
  /\ stopping = "loop"
  /\ cancelling' = cancelling \cup {j \in active : task[j] \notin Over}
  /\ awaited' = active
  /\ stopping' = "gather"
  /\ UNCHANGED <<running, queue, active, pc, job, withdrawn, jobVars, taskVars>>

StopReturns ==
  /\ stopping = "gather"
  /\ \A j \in awaited : task[j] \in Over
  /\ stopping' = "returned"
  /\ UNCHANGED <<running, awaited, queue, active, pc, job, cancelling, withdrawn,
                 jobVars, taskVars>>

Stop == StopBegin \/ StopCancelsSyncs \/ StopReturns

-----------------------------------------------------------------------------
Next ==
  \/ \E k \in Keys, later \in BOOLEAN : ClientSchedule(k, later)
  \/ \E j \in Jobs : ClientCancel(j)
  \/ \E k \in Keys : LoopCheck(k)
  \/ \E w \in Workers : Worker(w)
  \/ \E j \in Jobs : Execute(j)
  \/ Stop

Spec == Init /\ [][Next]_vars

(* The event loop runs every coroutine that can go on, and a sync ends:    *)
(* each of its requests has a timeout.  Nobody has to schedule, cancel or  *)
(* stop anything.                                                          *)
Fairness ==
  /\ \A w \in Workers : WF_vars(Worker(w))
  /\ \A j \in Jobs : WF_vars(Execute(j))
  /\ WF_vars(StopCancelsSyncs \/ StopReturns)

FairSpec == Spec /\ Fairness

-----------------------------------------------------------------------------
Queued(j) == \E i \in 1..Len(queue) : queue[i] = j

TypeOK ==
  /\ running \in BOOLEAN
  /\ status \in [Jobs -> Statuses \cup {"absent"}]
  /\ key \in [Jobs -> Keys \cup {None}]
  /\ delayed \subseteq Jobs
  /\ queue \in Seq(Jobs)
  /\ active \subseteq Jobs
  /\ pc \in [Workers -> {"waiting", "got", "awaiting", "exited"}]
  /\ job \in [Workers -> Jobs \cup {None}]
  /\ task \in [Jobs -> {"none", "created", "syncing", "closing"} \cup Over]
  /\ cancelling \subseteq Jobs
  /\ stopping \in {"no", "loop", "gather", "returned"}
  /\ awaited \subseteq Jobs
  /\ byLoop \subseteq Jobs
  /\ withdrawn \subseteq Jobs
  /\ committed \subseteq Jobs

(* A job has one owner at a time: it is in the queue once, or in the hands *)
(* of one worker that has not finished it, and _active_syncs holds exactly *)
(* the jobs workers await.  _active_syncs is keyed by job id, so a job     *)
(* executed twice would lose the handle of one of its tasks.               *)
OneOwner ==
  /\ \A i, n \in 1..Len(queue) : queue[i] = queue[n] => i = n
  /\ \A j \in Jobs : Queued(j) => task[j] = "none" /\ \A w \in Workers : job[w] # j
  /\ \A v, w \in Workers : job[v] = job[w] /\ job[v] # None => v = w
  /\ active = {j \in Jobs : \E w \in Workers : pc[w] = "awaiting" /\ job[w] = j}

(* While the scheduler runs, a worker leaves the pool only because a       *)
(* client cancelled the job it was executing, each cancelled job costing   *)
(* at most the one worker that held it: no failing sync, no failing close  *)
(* and no timeout shrinks the pool.                                        *)
PoolShrinksOnlyByCancel ==
  running => \A w \in Workers :
    pc[w] = "exited" => /\ job[w] \in withdrawn
                        /\ task[job[w]] = "cancelled"
                        /\ \A v \in Workers \ {w} : job[v] # job[w]

(* Once the task of a job is over, the job's status tells what happened to *)
(* its sync: COMPLETED only if its commit returned; RUNNING only if it did *)
(* not; FAILED only if a delayed retry for the same key stands in _jobs;   *)
(* SCHEDULED only if stop() cancelled the task before its first step;      *)
(* CANCELLED only if a client asked for it.                                *)
VerdictMatchesOutcome ==
  \A j \in Jobs : task[j] \in Over =>
    /\ status[j] # "absent"
    /\ status[j] = "completed" => j \in committed
    /\ status[j] = "running"   => j \notin committed
    /\ status[j] = "failed"    => \E r \in delayed \ {j} : key[r] = key[j]
    /\ status[j] = "scheduled" => stopping \in {"gather", "returned"}
    /\ status[j] = "cancelled" => j \in withdrawn

(* The scheduler loop never runs a key twice at once: of the jobs it       *)
(* created for one key and that no client cancelled, one at most is live.  *)
LoopSingleFlight ==
  \A i, j \in byLoop \ withdrawn :
    key[i] = key[j] /\ status[i] \in Live /\ status[j] \in Live => i = j

(* The status of a job whose task is over is written by nobody but         *)
(* cancel_sync: a late step of the executor, the loop or stop() never      *)
(* rewrites a verdict already reported to a client.                        *)
VerdictsStand ==
  [][\A j \in Jobs : task[j] \in Over /\ status'[j] # status[j]
       => status'[j] = "cancelled" /\ j \in withdrawn']_vars

(* A job goes through its execution once: no second worker, no client and  *)
(* no late step of stop() sets its task back.                              *)
Stage == [none |-> 0, created |-> 1, syncing |-> 2, closing |-> 3, done |-> 4, cancelled |-> 4]

ExecutedOnce ==
  [][\A j \in Jobs : task'[j] # task[j] => Stage[task'[j]] > Stage[task[j]]]_vars

(* Jobs leave the queue in the order in which they entered it: no job that *)
(* waits is overtaken, so each of the jobs before it is taken once before. *)
NoOvertaking ==
  [][\A i \in 1..Len(queue), n \in 1..Len(queue') : queue'[n] = queue[i] => n <= i]_vars

(* After stop() was called a worker only goes forward: it begins at most   *)
(* one more job, the one it is waiting for or has taken, and leaves.       *)
Course == [waiting |-> 0, got |-> 1, awaiting |-> 2, exited |-> 3]

OneJobAfterStop ==
  [][~running => \A w \in Workers : pc'[w] # pc[w] => Course[pc'[w]] > Course[pc[w]]]_vars

(* A queued job is eventually taken, unless cancellations or stop() have   *)
(* emptied the pool.                                                       *)
QueuedJobsAreTaken ==
  \A j \in Jobs : Queued(j) ~> (~Queued(j) \/ \A w \in Workers : pc[w] = "exited")

(* After stop() every worker leaves its loop and no sync is left running.  *)
StopDrainsPool ==
  ~running ~> (active = {} /\ \A w \in Workers : pc[w] = "exited")

-----------------------------------------------------------------------------
(* What the documentation says and the code does not do.                   *)

(* cancel_sync: "Cancel a scheduled sync job."  A cancelled job that no    *)
(* worker had begun is never executed.                                     *)
CancelledNeverStarts ==
  [][\A j \in Jobs : j \in withdrawn /\ status[j] = "cancelled"
       => status'[j] # "running"]_vars

(* "Schedule retry if not exceeded": a sync that failed is recorded as     *)
(* failed, so no job stays RUNNING after its task returned.                *)
FailedSyncIsRecorded ==
  \A j \in Jobs : task[j] = "done" => status[j] # "running"

-----------------------------------------------------------------------------
(* "Check for scheduled jobs every minute": what becomes of a job with a   *)
(* delay, which every retry is.                                            *)

(* Nothing ever reads a delayed job back: it is SCHEDULED for good, unless *)
(* a client cancels it.                                                    *)
DelayedNeverRuns ==
  \A j \in delayed : /\ task[j] = "none"
                     /\ status[j] = "scheduled" \/ j \in withdrawn

(* And since it is SCHEDULED, the scheduler loop finds its key busy: after *)
(* one db.close() that raised, the loop syncs that key no more.            *)
DelayBlocksKey ==
  [][\A j \in delayed : \A i \in byLoop' \ byLoop : key'[i] = key[j] => j \in withdrawn]_vars

=============================================================================
