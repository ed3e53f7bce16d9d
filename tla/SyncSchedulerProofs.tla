------------------------ MODULE SyncSchedulerProofs ------------------------
(***************************************************************************)
(* The safety properties of SyncScheduler, for any number of workers,      *)
(* keys and jobs.                                                          *)
(***************************************************************************)
EXTENDS SyncScheduler, TLAPS

(* A uuid not drawn yet occurs nowhere.                                    *)
AbsentOccursNowhere ==
  \A j \in Jobs : status[j] = "absent" =>
    /\ task[j] = "none"
    /\ ~Queued(j)
    /\ \A w \in Workers : job[w] # j
    /\ j \notin delayed \cup byLoop

(* What a worker's local variable holds, by where the worker is.           *)
WorkersHold ==
  \A w \in Workers :
    /\ pc[w] = "waiting"  => job[w] = None
    /\ pc[w] = "got"      => job[w] \in Jobs /\ task[job[w]] = "none"
    /\ pc[w] = "awaiting" => job[w] \in Jobs /\ task[job[w]] # "none"
    /\ pc[w] = "exited"   => job[w] = None \/ task[job[w]] \in Over

(* How far a task is says what the status of its job can be.               *)
StatusFollowsTask ==
  \A j \in Jobs :
    /\ task[j] \in {"none", "created"}    => status[j] \in {"absent", "scheduled", "cancelled"}
    /\ task[j] \in {"syncing", "closing"} => status[j] # "scheduled"
    /\ j \in committed => /\ task[j] \in {"closing"} \cup Over
                          /\ status[j] \in {"completed", "failed", "cancelled"}
    /\ status[j] = "completed" => j \in committed
    /\ status[j] = "cancelled" => j \in withdrawn
    /\ status[j] = "failed"    => \E r \in delayed \ {j} : key[r] = key[j]

(* Where requests to cancel a task come from: only from clients while the  *)
(* scheduler runs, and from stop() once it gathers the tasks.              *)
CancelsAreAsked ==
  /\ running <=> stopping = "no"
  /\ \A j \in Jobs :
       /\ j \in cancelling => task[j] \in {"created", "syncing", "closing"}
       /\ running /\ (j \in cancelling \/ task[j] = "cancelled") => j \in withdrawn
       /\ j \in cancelling /\ task[j] = "created"
            => status[j] = "cancelled" \/ stopping \in {"gather", "returned"}
       /\ task[j] \in Over /\ status[j] = "scheduled"
            => stopping \in {"gather", "returned"}

IInv ==
  /\ TypeOK
  /\ OneOwner
  /\ AbsentOccursNowhere
  /\ WorkersHold
  /\ StatusFollowsTask
  /\ CancelsAreAsked
  /\ LoopSingleFlight
  /\ PoolShrinksOnlyByCancel

-----------------------------------------------------------------------------
LEMMA FreshIsAbsent ==
  ASSUME CanCreate
  PROVE  Fresh \in Jobs /\ status[Fresh] = "absent"
BY DEF CanCreate, Fresh

Distinct == \A i, n \in 1..Len(queue) : queue[i] = queue[n] => i = n

(* put() adds one job to the queue.                                        *)
LEMMA QueueAppend ==
  ASSUME queue \in Seq(Jobs), NEW x \in Jobs, queue' = Append(queue, x), ~Queued(x), Distinct
  PROVE  /\ queue' \in Seq(Jobs)
         /\ Distinct'
         /\ \A j \in Jobs : Queued(j)' => Queued(j) \/ j = x
BY DEF Queued, Distinct

(* get() removes one job, which is nowhere else in the queue.              *)
LEMMA QueueTail ==
  ASSUME queue \in Seq(Jobs), queue # <<>>, queue' = Tail(queue), Distinct
  PROVE  /\ queue' \in Seq(Jobs)
         /\ Head(queue) \in Jobs
         /\ Queued(Head(queue))
         /\ Distinct'
         /\ \A j \in Jobs : Queued(j)' => Queued(j) /\ j # Head(queue)
<1>1. /\ queue' \in Seq(Jobs)
      /\ Head(queue) \in Jobs
      /\ Head(queue) = queue[1]
      /\ Len(queue) \in Nat \ {0}
      /\ Len(queue') = Len(queue) - 1
      /\ \A i \in 1..Len(queue') : queue'[i] = queue[i + 1]
  OBVIOUS
<1>2. Queued(Head(queue))
  BY <1>1 DEF Queued
<1>3. \A i \in 1..Len(queue') : i + 1 \in 1..Len(queue) /\ i + 1 # 1
  BY <1>1
<1>4. Distinct'
  BY <1>1, <1>3 DEF Distinct
<1>5. \A j \in Jobs : Queued(j)' => Queued(j) /\ j # Head(queue)
  BY <1>1, <1>3 DEF Queued, Distinct
<1> QED
  BY <1>1, <1>2, <1>4, <1>5

-----------------------------------------------------------------------------
(* schedule_sync, wherever it is called from.                              *)
LEMMA ScheduleInv ==
  ASSUME IInv, NEW k \in Keys, NEW later \in BOOLEAN,
         ClientSchedule(k, later) \/ (LoopCheck(k) /\ later = FALSE)
  PROVE  IInv'
<1> DEFINE f == Fresh
<1>1. /\ Schedule(k, later)
      /\ status' = [status EXCEPT ![f] = "scheduled"]
      /\ UNCHANGED <<running, active, pc, job, task, cancelling, stopping, awaited, withdrawn, committed>>
  BY DEF ClientSchedule, LoopCheck, taskVars, stopVars
<1>2. /\ f \in Jobs
      /\ status[f] = "absent"
      /\ task[f] = "none"
      /\ ~Queued(f)
      /\ \A w \in Workers : job[w] # f
      /\ f \notin delayed \cup byLoop \cup cancelling \cup committed
  BY <1>1, FreshIsAbsent DEF Schedule, IInv, AbsentOccursNowhere, CancelsAreAsked, StatusFollowsTask, Over
<1>3. byLoop' = byLoop \/ (byLoop' = byLoop \cup {f} /\ ~Scheduled(k))
  BY DEF ClientSchedule, LoopCheck, taskVars, stopVars
<1>4. /\ queue' \in Seq(Jobs)
      /\ Distinct'
      /\ \A j \in Jobs : Queued(j)' => Queued(j) \/ j = f
  BY <1>1, <1>2, QueueAppend DEF Schedule, IInv, TypeOK, OneOwner, Distinct, Queued
<1> HIDE DEF f
<1>5. TypeOK'
  BY <1>1, <1>2, <1>3, <1>4 DEF Schedule, f, IInv, TypeOK, Statuses, Live
<1>6. OneOwner'
  BY <1>1, <1>2, <1>4 DEF IInv, OneOwner, Distinct
<1>7. AbsentOccursNowhere'
  BY <1>1, <1>2, <1>3, <1>4 DEF Schedule, f, IInv, TypeOK, AbsentOccursNowhere
<1>8. WorkersHold'
  BY <1>1 DEF IInv, WorkersHold
<1>9. StatusFollowsTask'
  <2>1. \A j \in Jobs : j # f => status'[j] = status[j] /\ key'[j] = key[j]
    BY <1>1, <1>2 DEF Schedule, f, IInv, TypeOK
  <2>2. status'[f] = "scheduled" /\ delayed \subseteq delayed'
    BY <1>1, <1>2 DEF Schedule, IInv, TypeOK
  <2> QED
    BY <1>1, <1>2, <2>1, <2>2 DEF IInv, StatusFollowsTask, TypeOK, Over
<1>10. CancelsAreAsked'
  BY <1>1, <1>2 DEF IInv, CancelsAreAsked, TypeOK, Over
<1>11. LoopSingleFlight'
  <2>1. \A j \in Jobs : j # f => status'[j] = status[j] /\ key'[j] = key[j]
    BY <1>1, <1>2 DEF Schedule, f, IInv, TypeOK
  <2>2. key'[f] = k /\ withdrawn' = withdrawn
    BY <1>1, <1>2 DEF Schedule, f, IInv, TypeOK
  <2> QED
    BY <1>2, <1>3, <2>1, <2>2 DEF IInv, LoopSingleFlight, TypeOK, Scheduled
<1>12. PoolShrinksOnlyByCancel'
  BY <1>1 DEF IInv, PoolShrinksOnlyByCancel
<1> QED
  BY <1>5, <1>6, <1>7, <1>8, <1>9, <1>10, <1>11, <1>12 DEF IInv

(* cancel_sync                                                             *)
LEMMA ClientCancelInv ==
  ASSUME IInv, NEW j \in Jobs, ClientCancel(j)
  PROVE  IInv'
<1> USE DEF IInv, ClientCancel, jobVars, taskVars, stopVars
<1>1. TypeOK'
  BY DEF TypeOK, Statuses
<1>2. OneOwner' /\ WorkersHold'
  BY DEF OneOwner, WorkersHold, Queued
<1>3. AbsentOccursNowhere'
  BY DEF AbsentOccursNowhere, TypeOK, Queued
<1>4. StatusFollowsTask'
  BY DEF StatusFollowsTask, TypeOK
<1>5. CancelsAreAsked'
  <2>1. j \in active => task[j] # "none"
    BY DEF OneOwner, WorkersHold
  <2> QED
    BY <2>1 DEF CancelsAreAsked, TypeOK, Over
<1>6. LoopSingleFlight' /\ PoolShrinksOnlyByCancel'
  BY DEF LoopSingleFlight, PoolShrinksOnlyByCancel, TypeOK
<1> QED
  BY <1>1, <1>2, <1>3, <1>4, <1>5, <1>6

(* _job_queue.get()                                                        *)
LEMMA TakeInv ==
  ASSUME IInv, NEW w \in Workers, Take(w)
  PROVE  IInv'
<1> DEFINE h == Head(queue)
<1>1. /\ pc[w] = "waiting"
      /\ job' = [job EXCEPT ![w] = h]
      /\ pc' = [pc EXCEPT ![w] = "got"]
      /\ UNCHANGED <<active, cancelling, withdrawn, jobVars, taskVars, stopVars>>
  BY DEF Take
<1>2. /\ queue' \in Seq(Jobs)
      /\ h \in Jobs /\ h # None
      /\ Queued(h)
      /\ Distinct'
      /\ \A j \in Jobs : Queued(j)' => Queued(j) /\ j # h
  BY QueueTail, NoneAssumption DEF Take, Available, IInv, TypeOK, OneOwner, Distinct
<1> HIDE DEF h
<1>3. /\ task[h] = "none"
      /\ status[h] # "absent"
      /\ \A v \in Workers : job[v] # h
  BY <1>2 DEF IInv, OneOwner, AbsentOccursNowhere
<1> USE DEF IInv, jobVars, taskVars, stopVars
<1>4. TypeOK'
  BY <1>1, <1>2 DEF TypeOK
<1>5. OneOwner'
  BY <1>1, <1>2, <1>3 DEF OneOwner, Distinct, TypeOK
<1>6. AbsentOccursNowhere'
  BY <1>1, <1>2, <1>3 DEF AbsentOccursNowhere, TypeOK
<1>7. WorkersHold'
  BY <1>1, <1>2, <1>3 DEF WorkersHold, TypeOK
<1>8. StatusFollowsTask' /\ CancelsAreAsked' /\ LoopSingleFlight'
  BY <1>1 DEF StatusFollowsTask, CancelsAreAsked, LoopSingleFlight
<1>9. PoolShrinksOnlyByCancel'
  BY <1>1, <1>2, <1>3 DEF PoolShrinksOnlyByCancel, TypeOK
<1> QED
  BY <1>4, <1>5, <1>6, <1>7, <1>8, <1>9

(* except TimeoutError: continue                                           *)
LEMMA WaitTimeoutInv ==
  ASSUME IInv, NEW w \in Workers, WaitTimeout(w)
  PROVE  IInv'
<1> USE DEF IInv, WaitTimeout, NextIteration, jobVars, taskVars, stopVars
<1>1. TypeOK' /\ OneOwner'
  BY DEF TypeOK, OneOwner, Queued
<1>2. AbsentOccursNowhere' /\ WorkersHold'
  BY DEF AbsentOccursNowhere, WorkersHold, TypeOK, Queued
<1>3. StatusFollowsTask' /\ CancelsAreAsked' /\ LoopSingleFlight'
  BY DEF StatusFollowsTask, CancelsAreAsked, LoopSingleFlight
<1>4. PoolShrinksOnlyByCancel'
  BY DEF PoolShrinksOnlyByCancel, TypeOK
<1> QED
  BY <1>1, <1>2, <1>3, <1>4

(* create_task, and the entry in _active_syncs                             *)
LEMMA BeginJobInv ==
  ASSUME IInv, NEW w \in Workers, BeginJob(w)
  PROVE  IInv'
<1> USE DEF IInv, BeginJob, jobVars, stopVars
<1>1. job[w] \in Jobs /\ job[w] # None /\ task[job[w]] = "none"
  BY NoneAssumption DEF WorkersHold
<1>2. status[job[w]] \in {"scheduled", "cancelled"} /\ ~Queued(job[w])
  BY <1>1 DEF StatusFollowsTask, AbsentOccursNowhere, OneOwner
<1>3. TypeOK'
  BY <1>1 DEF TypeOK
<1>4. OneOwner'
  BY <1>1, <1>2 DEF OneOwner, TypeOK, Queued
<1>5. AbsentOccursNowhere'
  BY <1>1, <1>2 DEF AbsentOccursNowhere, TypeOK, Queued
<1>6. WorkersHold'
  BY <1>1 DEF WorkersHold, OneOwner, TypeOK, Over
<1>7. StatusFollowsTask'
  BY <1>1, <1>2 DEF StatusFollowsTask, TypeOK, Over
<1>8. CancelsAreAsked'
  BY <1>1 DEF CancelsAreAsked, TypeOK, Over
<1>9. LoopSingleFlight' /\ PoolShrinksOnlyByCancel'
  BY <1>1 DEF LoopSingleFlight, PoolShrinksOnlyByCancel, TypeOK
<1> QED
  BY <1>3, <1>4, <1>5, <1>6, <1>7, <1>8, <1>9

(* The worker resumes after await task.                                    *)
LEMMA TaskJoinedInv ==
  ASSUME IInv, NEW w \in Workers, TaskJoined(w)
  PROVE  IInv'
<1> USE DEF IInv, TaskJoined, Breaks, NextIteration, jobVars, taskVars, stopVars
<1>1. job[w] \in Jobs /\ job[w] # None /\ task[job[w]] \in Over
  BY NoneAssumption DEF WorkersHold
<1>2. TypeOK'
  BY DEF TypeOK
<1>3. OneOwner'
  <2>1. /\ pc'[w] # "awaiting" /\ job'[w] \in {job[w], None}
        /\ \A v \in Workers \ {w} : pc'[v] = pc[v] /\ job'[v] = job[v]
    BY DEF TypeOK
  <2>2. active' = {j \in Jobs : \E v \in Workers : pc'[v] = "awaiting" /\ job'[v] = j}
    BY <1>1, <2>1 DEF OneOwner
  <2> QED
    BY <1>1, <2>1, <2>2, NoneAssumption DEF OneOwner, Queued
<1>4. AbsentOccursNowhere'
  BY NoneAssumption DEF AbsentOccursNowhere, TypeOK, Queued
<1>5. WorkersHold'
  BY <1>1 DEF WorkersHold, TypeOK
<1>6. StatusFollowsTask' /\ CancelsAreAsked' /\ LoopSingleFlight'
  BY DEF StatusFollowsTask, CancelsAreAsked, LoopSingleFlight
<1>7. PoolShrinksOnlyByCancel'
  <2>1. task[job[w]] = "cancelled" /\ running => job[w] \in withdrawn
    BY <1>1 DEF CancelsAreAsked
  <2> QED
    BY <1>1, <2>1, NoneAssumption DEF PoolShrinksOnlyByCancel, OneOwner, TypeOK
<1> QED
  BY <1>2, <1>3, <1>4, <1>5, <1>6, <1>7

(* A step of the task itself: it changes its own status, and nothing that  *)
(* the workers hold.                                                       *)
LEMMA TaskStepInv ==
  ASSUME IInv, NEW j \in Jobs,
         TaskStart(j) \/ SyncCommits(j) \/ SyncRaises(j) \/ CloseReturns(j) \/ CancelDelivered(j)
  PROVE  IInv'
<1>1. /\ UNCHANGED <<running, key, delayed, queue, active, pc, job, stopping, awaited,
                    byLoop, withdrawn>>
      /\ task[j] \in {"created", "syncing", "closing"}
      /\ \/ /\ task[j] = "created" /\ j \notin cancelling
            /\ status' = [status EXCEPT ![j] = "running"]
            /\ task' = [task EXCEPT ![j] = "syncing"]
            /\ UNCHANGED <<committed, cancelling>>
         \/ /\ task[j] = "syncing" /\ j \notin cancelling
            /\ status' = [status EXCEPT ![j] = "completed"]
            /\ task' = [task EXCEPT ![j] = "closing"]
            /\ committed' = committed \cup {j}
            /\ UNCHANGED cancelling
         \/ /\ task[j] = "syncing"
            /\ task' = [task EXCEPT ![j] = "closing"]
            /\ cancelling' = cancelling \ {j}
            /\ UNCHANGED <<status, committed>>
         \/ /\ task[j] = "closing" /\ j \notin cancelling
            /\ task' = [task EXCEPT ![j] = "done"]
            /\ UNCHANGED <<status, committed, cancelling>>
         \/ /\ task[j] \in {"created", "closing"} /\ j \in cancelling
            /\ task' = [task EXCEPT ![j] = "cancelled"]
            /\ cancelling' = cancelling \ {j}
            /\ UNCHANGED <<status, committed>>
  <2>1. j \notin cancelling => cancelling \ {j} = cancelling
    OBVIOUS
  <2>2. j \in cancelling => task[j] \in {"created", "syncing", "closing"}
    BY DEF IInv, CancelsAreAsked
  <2> QED
    BY <2>1, <2>2 DEF TaskStart, SyncCommits, SyncRaises, CloseReturns, CancelDelivered,
                      jobVars, stopVars, IInv, TypeOK
<1>2. status[j] # "absent"
  BY <1>1 DEF IInv, AbsentOccursNowhere
<1> USE DEF IInv
<1>3. TypeOK'
  BY <1>1 DEF TypeOK, Statuses, Live, Over
<1>4. OneOwner'
  BY <1>1 DEF OneOwner, TypeOK, Queued
<1>5. AbsentOccursNowhere'
  BY <1>1, <1>2 DEF AbsentOccursNowhere, TypeOK, Queued
<1>6. WorkersHold'
  BY <1>1 DEF WorkersHold, TypeOK, Over
<1>7. StatusFollowsTask'
  BY <1>1, <1>2 DEF StatusFollowsTask, TypeOK, Over
<1>8. CancelsAreAsked'
  BY <1>1, <1>2 DEF CancelsAreAsked, StatusFollowsTask, TypeOK, Over
<1>9. LoopSingleFlight'
  BY <1>1, <1>2 DEF LoopSingleFlight, StatusFollowsTask, TypeOK, Live
<1>10. PoolShrinksOnlyByCancel'
  BY <1>1, NoneAssumption DEF PoolShrinksOnlyByCancel, WorkersHold, TypeOK, Over
<1> QED
  BY <1>3, <1>4, <1>5, <1>6, <1>7, <1>8, <1>9, <1>10

(* The retry of a job whose session could not be closed.                   *)
LEMMA CloseRaisesInv ==
  ASSUME IInv, NEW j \in Jobs, CloseRaises(j)
  PROVE  IInv'
<1> DEFINE f == Fresh
<1>1. /\ task[j] = "closing" /\ j \notin cancelling
      /\ key' = [key EXCEPT ![f] = key[j]]
      /\ delayed' = delayed \cup {f}
      /\ status' = [status EXCEPT ![j] = "failed", ![f] = "scheduled"]
      /\ task' = [task EXCEPT ![j] = "done"]
      /\ UNCHANGED <<running, queue, active, pc, job, cancelling, stopping, awaited,
                    byLoop, withdrawn, committed>>
  BY DEF CloseRaises, Schedule, stopVars
<1>2. f \in Jobs /\ status[f] = "absent"
  BY FreshIsAbsent DEF CloseRaises, Schedule
<1> HIDE DEF f
<1>3. /\ status[j] # "absent" /\ f # j
      /\ task[f] = "none" /\ ~Queued(f)
      /\ \A w \in Workers : job[w] # f
      /\ f \notin delayed \cup byLoop \cup cancelling \cup committed
  BY <1>1, <1>2 DEF IInv, AbsentOccursNowhere, CancelsAreAsked, StatusFollowsTask, Over
<1>4. /\ status'[j] = "failed" /\ status'[f] = "scheduled"
      /\ key'[j] = key[j] /\ key'[f] = key[j]
      /\ task'[j] = "done" /\ task'[f] = "none"
      /\ \A i \in Jobs : i # f => key'[i] = key[i]
      /\ \A i \in Jobs \ {j, f} : status'[i] = status[i]
      /\ \A i \in Jobs \ {j} : task'[i] = task[i]
  BY <1>1, <1>2, <1>3 DEF IInv, TypeOK
<1> USE DEF IInv
<1>5. TypeOK'
  BY <1>1, <1>2 DEF TypeOK, Statuses, Live, Over
<1>6. OneOwner'
  BY <1>1, <1>4 DEF OneOwner, Queued
<1>7. AbsentOccursNowhere'
  BY <1>1, <1>3, <1>4 DEF AbsentOccursNowhere, Queued
<1>8. WorkersHold'
  BY <1>1, <1>4 DEF WorkersHold, Over
<1>9. StatusFollowsTask'
  BY <1>1, <1>2, <1>3, <1>4 DEF StatusFollowsTask, TypeOK, Over
<1>10. CancelsAreAsked'
  BY <1>1, <1>2, <1>3, <1>4 DEF CancelsAreAsked, TypeOK, Over
<1>11. LoopSingleFlight'
  BY <1>1, <1>2, <1>3, <1>4 DEF LoopSingleFlight, TypeOK, Live
<1>12. PoolShrinksOnlyByCancel'
  BY <1>1, <1>4, NoneAssumption DEF PoolShrinksOnlyByCancel, WorkersHold, TypeOK
<1> QED
  BY <1>5, <1>6, <1>7, <1>8, <1>9, <1>10, <1>11, <1>12

(* stop()                                                                  *)
LEMMA StopInv ==
  ASSUME IInv, Stop
  PROVE  IInv'
<1>1. /\ UNCHANGED <<queue, active, pc, job, withdrawn, jobVars, taskVars>>
      /\ ~running'
      /\ stopping' \in {"loop", "gather", "returned"}
      /\ awaited' \in {awaited, active}
      /\ running' \in BOOLEAN
      /\ stopping \in {"gather", "returned"} => stopping' \in {"gather", "returned"}
      /\ \/ UNCHANGED cancelling
         \/ /\ cancelling' = cancelling \cup {j \in active : task[j] \notin Over}
            /\ stopping' = "gather"
  <2>1. CASE StopBegin
    BY <2>1 DEF StopBegin, jobVars, taskVars, IInv, CancelsAreAsked
  <2>2. CASE StopCancelsSyncs
    BY <2>2 DEF StopCancelsSyncs, jobVars, taskVars, IInv, TypeOK, CancelsAreAsked
  <2>3. CASE StopReturns
    BY <2>3 DEF StopReturns, jobVars, taskVars, IInv, TypeOK, CancelsAreAsked
  <2> QED
    BY <2>1, <2>2, <2>3 DEF Stop
<1> USE DEF IInv, jobVars, taskVars
<1>2. TypeOK'
  BY <1>1 DEF TypeOK
<1>3. OneOwner' /\ AbsentOccursNowhere' /\ WorkersHold'
  BY <1>1 DEF OneOwner, AbsentOccursNowhere, WorkersHold, Queued
<1>4. StatusFollowsTask' /\ LoopSingleFlight' /\ PoolShrinksOnlyByCancel'
  BY <1>1 DEF StatusFollowsTask, LoopSingleFlight, PoolShrinksOnlyByCancel
<1>5. CancelsAreAsked'
  <2>1. \A j \in active : task[j] # "none"
    BY DEF OneOwner, WorkersHold
  <2> QED
    BY <1>1, <2>1 DEF CancelsAreAsked, TypeOK, Over
<1> QED
  BY <1>2, <1>3, <1>4, <1>5

-----------------------------------------------------------------------------
LEMMA StepInv ==
  ASSUME IInv, [Next]_vars
  PROVE  IInv'
<1>1. CASE \E k \in Keys, later \in BOOLEAN : ClientSchedule(k, later)
  BY <1>1, ScheduleInv
<1>2. CASE \E j \in Jobs : ClientCancel(j)
  BY <1>2, ClientCancelInv
<1>3. CASE \E k \in Keys : LoopCheck(k)
  BY <1>3, ScheduleInv
<1>4. CASE \E w \in Workers : Worker(w)
  BY <1>4, TakeInv, WaitTimeoutInv, BeginJobInv, TaskJoinedInv DEF Worker
<1>5. CASE \E j \in Jobs : Execute(j)
  BY <1>5, TaskStepInv, CloseRaisesInv DEF Execute
<1>6. CASE Stop
  BY <1>6, StopInv
<1>7. CASE UNCHANGED vars
  BY <1>7 DEF vars, IInv, TypeOK, OneOwner, AbsentOccursNowhere, WorkersHold, Queued,
              StatusFollowsTask, CancelsAreAsked, LoopSingleFlight, PoolShrinksOnlyByCancel
<1> QED
  BY <1>1, <1>2, <1>3, <1>4, <1>5, <1>6, <1>7 DEF Next

LEMMA Invariance == Spec => []IInv
<1>1. Init => IInv
  <2> SUFFICES ASSUME Init
               PROVE  IInv
    OBVIOUS
  <2>1. TypeOK /\ OneOwner
    BY NoneAssumption DEF Init, TypeOK, OneOwner, Queued
  <2>2. AbsentOccursNowhere /\ WorkersHold /\ StatusFollowsTask /\ CancelsAreAsked
    BY NoneAssumption DEF Init, AbsentOccursNowhere, WorkersHold, StatusFollowsTask,
                          CancelsAreAsked, Queued, Over
  <2>3. LoopSingleFlight /\ PoolShrinksOnlyByCancel
    BY DEF Init, LoopSingleFlight, PoolShrinksOnlyByCancel
  <2> QED
    BY <2>1, <2>2, <2>3 DEF IInv
<1>2. IInv /\ [Next]_vars => IInv'
  BY StepInv
<1> QED
  BY <1>1, <1>2, PTL DEF Spec

-----------------------------------------------------------------------------
(* Every variable keeps to its range.                                      *)
THEOREM TypeCorrect == Spec => []TypeOK
<1>1. IInv => TypeOK
  BY DEF IInv
<1> QED
  BY <1>1, Invariance, PTL

(* No job is queued twice, held by two workers, or executed twice, and     *)
(* _active_syncs names exactly the jobs that workers await.                *)
THEOREM JobsHaveOneOwner == Spec => []OneOwner
<1>1. IInv => OneOwner
  BY DEF IInv
<1> QED
  BY <1>1, Invariance, PTL

(* Only a client's cancellation costs the running pool a worker.           *)
THEOREM OnlyCancelShrinksPool == Spec => []PoolShrinksOnlyByCancel
<1>1. IInv => PoolShrinksOnlyByCancel
  BY DEF IInv
<1> QED
  BY <1>1, Invariance, PTL

(* _check_and_schedule_sync never has two live jobs of its own for a key   *)
(* unless a client cancelled one of them.                                  *)
THEOREM LoopIsSingleFlight == Spec => []LoopSingleFlight
<1>1. IInv => LoopSingleFlight
  BY DEF IInv
<1> QED
  BY <1>1, Invariance, PTL

(* The status left behind by a finished task agrees with what it did: a    *)
(* consequence of how status, task and cancellation requests constrain one *)
(* another while the task runs.                                            *)
THEOREM VerdictsMatchOutcomes == Spec => []VerdictMatchesOutcome
<1>1. IInv => VerdictMatchesOutcome
  BY DEF IInv, VerdictMatchesOutcome, AbsentOccursNowhere, StatusFollowsTask, CancelsAreAsked, Over
<1> QED
  BY <1>1, Invariance, PTL

(* Nobody but cancel_sync rewrites the status of a job whose task is over: *)
(* the executor's writes belong to tasks under way, and schedule_sync      *)
(* writes only fresh jobs, whose task does not exist.                      *)
THEOREM VerdictsStandForEver == Spec => VerdictsStand
<1> DEFINE Rewritten(j) == task[j] \in Over /\ status'[j] # status[j]
           Withdrawn(j) == status'[j] = "cancelled" /\ j \in withdrawn'
<1>1. ASSUME IInv, Next, NEW j \in Jobs, Rewritten(j)
      PROVE  Withdrawn(j)
  <2>1. CanCreate => task[Fresh] = "none" /\ Fresh \in Jobs
    BY <1>1, FreshIsAbsent DEF IInv, AbsentOccursNowhere
  <2>2. status \in [Jobs -> Statuses \cup {"absent"}]
    BY <1>1 DEF IInv, TypeOK
  <2>3. ASSUME NEW k \in Keys, NEW later \in BOOLEAN, ClientSchedule(k, later) \/ LoopCheck(k)
        PROVE  Withdrawn(j)
    BY <1>1, <2>1, <2>2, <2>3 DEF ClientSchedule, LoopCheck, Schedule, Over
  <2>4. ASSUME NEW i \in Jobs, ClientCancel(i)
        PROVE  Withdrawn(j)
    BY <1>1, <2>2, <2>4 DEF ClientCancel
  <2>5. ASSUME NEW w \in Workers, Worker(w)
        PROVE  Withdrawn(j)
    BY <1>1, <2>5 DEF Worker, Take, WaitTimeout, BeginJob, TaskJoined, jobVars
  <2>6. ASSUME NEW i \in Jobs, Execute(i)
        PROVE  Withdrawn(j)
    BY <1>1, <2>1, <2>2, <2>6
       DEF Execute, TaskStart, SyncCommits, SyncRaises, CloseReturns, CloseRaises,
           CancelDelivered, Schedule, jobVars, Over
  <2>7. CASE Stop
    BY <1>1, <2>7 DEF Stop, StopBegin, StopCancelsSyncs, StopReturns, jobVars
  <2> QED
    BY <1>1, <2>3, <2>4, <2>5, <2>6, <2>7 DEF Next
<1>2. IInv /\ [Next]_vars => [\A j \in Jobs : Rewritten(j) => Withdrawn(j)]_vars
  BY <1>1
<1> QED
  BY <1>2, Invariance, PTL DEF Spec, VerdictsStand

(* Only the worker that took a job out of the queue creates its task, and  *)
(* while it has the job there is no task yet; every other step takes the   *)
(* task it finds further.                                                  *)
THEOREM JobsRunOnce == Spec => ExecutedOnce
<1> DEFINE Later(j) == task'[j] # task[j] => Stage[task'[j]] > Stage[task[j]]
<1>1. ASSUME IInv, Next, NEW j \in Jobs
      PROVE  Later(j)
  <2>1. task \in [Jobs -> {"none", "created", "syncing", "closing"} \cup Over]
    BY <1>1 DEF IInv, TypeOK
  <2>2. ASSUME NEW w \in Workers, Worker(w)
        PROVE  Later(j)
    <3>1. CASE BeginJob(w)
      <4>1. job[w] \in Jobs /\ task[job[w]] = "none"
        BY <1>1, <3>1 DEF BeginJob, IInv, WorkersHold
      <4> QED
        BY <2>1, <3>1, <4>1 DEF BeginJob, Stage
    <3>2. CASE Take(w) \/ WaitTimeout(w) \/ TaskJoined(w)
      BY <3>2 DEF Take, WaitTimeout, TaskJoined, taskVars
    <3> QED
      BY <2>2, <3>1, <3>2 DEF Worker
  <2>3. ASSUME NEW i \in Jobs, Execute(i)
        PROVE  Later(j)
    <3>1. CASE CancelDelivered(i)
      <4>1. task[i] \in {"created", "syncing", "closing"}
        BY <1>1, <3>1 DEF CancelDelivered, IInv, CancelsAreAsked
      <4> QED
        BY <2>1, <3>1, <4>1 DEF CancelDelivered, Stage
    <3>2. CASE TaskStart(i)
      BY <2>1, <3>2 DEF TaskStart, Stage
    <3>3. CASE SyncCommits(i) \/ SyncRaises(i)
      BY <2>1, <3>3 DEF SyncCommits, SyncRaises, Stage
    <3>4. CASE CloseReturns(i) \/ CloseRaises(i)
      <4>1. task[i] = "closing" /\ task' = [task EXCEPT ![i] = "done"]
        BY <3>4 DEF CloseReturns, CloseRaises
      <4> QED
        BY <2>1, <4>1 DEF Stage
    <3> QED
      BY <2>3, <3>1, <3>2, <3>3, <3>4 DEF Execute
  <2>4. CASE \/ \E k \in Keys, later \in BOOLEAN : ClientSchedule(k, later)
             \/ \E i \in Jobs : ClientCancel(i)
             \/ \E k \in Keys : LoopCheck(k)
             \/ Stop
    BY <2>4 DEF ClientSchedule, ClientCancel, LoopCheck, Stop, StopBegin, StopCancelsSyncs,
                StopReturns, taskVars
  <2> QED
    BY <1>1, <2>2, <2>3, <2>4 DEF Next
<1>2. IInv /\ [Next]_vars => [\A j \in Jobs : Later(j)]_vars
  BY <1>1
<1> QED
  BY <1>2, Invariance, PTL DEF Spec, ExecutedOnce

-----------------------------------------------------------------------------
(* A delayed job is in no worker's reach: it is neither queued nor held.   *)
Parked ==
  \A j \in delayed :
    /\ task[j] = "none"
    /\ ~Queued(j)
    /\ \A w \in Workers : job[w] # j
    /\ status[j] = "scheduled" \/ (status[j] = "cancelled" /\ j \in withdrawn)

LEMMA ScheduleParks ==
  ASSUME IInv, Parked, NEW k, NEW later \in BOOLEAN, Schedule(k, later),
         UNCHANGED <<job, withdrawn>>,
         \A j \in delayed \cup {Fresh} : task'[j] = task[j],
         \A j \in delayed \ {Fresh} : status'[j] = status[j],
         status'[Fresh] = "scheduled"
  PROVE  Parked'
<1> DEFINE f == Fresh
<1>1. f \in Jobs /\ status[f] = "absent"
  BY FreshIsAbsent DEF Schedule
<1>2. task[f] = "none" /\ ~Queued(f) /\ (\A w \in Workers : job[w] # f) /\ f \notin delayed
  BY <1>1 DEF IInv, AbsentOccursNowhere
<1>3. delayed' = IF later THEN delayed \cup {f} ELSE delayed
  BY DEF Schedule
<1>4. queue' = IF later THEN queue ELSE Append(queue, f)
  BY DEF Schedule
<1>5. delayed \subseteq Jobs /\ queue \in Seq(Jobs) /\ Distinct
  BY DEF IInv, TypeOK, OneOwner, Distinct
<1>6. /\ status'[f] = "scheduled" /\ \A j \in delayed \ {f} : status'[j] = status[j]
      /\ \A j \in delayed \cup {f} : task'[j] = task[j]
  OBVIOUS
<1> HIDE DEF f
<1>7. \A j \in Jobs : Queued(j)' => Queued(j) \/ (j = f /\ ~later)
  BY <1>1, <1>2, <1>4, <1>5, QueueAppend DEF Queued
<1>8. ASSUME NEW j \in delayed'
      PROVE  /\ task'[j] = "none"
             /\ ~Queued(j)'
             /\ \A w \in Workers : job'[w] # j
             /\ status'[j] = "scheduled" \/ (status'[j] = "cancelled" /\ j \in withdrawn')
  <2>1. CASE j = f
    <3>1. later
      BY <1>2, <1>3, <2>1
    <3> QED
      BY <1>1, <1>2, <1>6, <1>7, <2>1, <3>1
  <2>2. CASE j # f
    BY <1>3, <1>5, <1>6, <1>7, <2>2 DEF Parked
  <2> QED
    BY <2>1, <2>2
<1> QED
  BY <1>8 DEF Parked

LEMMA StepParks ==
  ASSUME IInv, Parked, [Next]_vars
  PROVE  Parked'
<1>1. delayed \subseteq Jobs /\ status \in [Jobs -> Statuses \cup {"absent"}]
  BY DEF IInv, TypeOK
<1>2. CanCreate => Fresh \in Jobs /\ Fresh \notin delayed /\ status[Fresh] = "absent"
  BY FreshIsAbsent DEF IInv, AbsentOccursNowhere
<1>3. ASSUME NEW k \in Keys, NEW later \in BOOLEAN, ClientSchedule(k, later)
      PROVE  Parked'
  <2>1. Schedule(k, later) /\ status' = [status EXCEPT ![Fresh] = "scheduled"]
    BY <1>3 DEF ClientSchedule
  <2>2. UNCHANGED <<task, job, withdrawn>>
    BY <1>3 DEF ClientSchedule, taskVars
  <2> QED
    BY <1>1, <1>2, <2>1, <2>2, ScheduleParks DEF Schedule
<1>4. ASSUME NEW k \in Keys, LoopCheck(k)
      PROVE  Parked'
  <2>1. Schedule(k, FALSE) /\ status' = [status EXCEPT ![Fresh] = "scheduled"]
    BY <1>4 DEF LoopCheck
  <2>2. UNCHANGED <<task, job, withdrawn>>
    BY <1>4 DEF LoopCheck, taskVars
  <2> QED
    BY <1>1, <1>2, <2>1, <2>2, ScheduleParks DEF Schedule
<1>5. ASSUME NEW i \in Jobs, ClientCancel(i)
      PROVE  Parked'
  BY <1>1, <1>5 DEF ClientCancel, Parked, taskVars, Queued
<1>6. ASSUME NEW w \in Workers, Worker(w)
      PROVE  Parked'
  <2>1. CASE Take(w)
    <3>1. /\ Queued(Head(queue))
          /\ \A j \in Jobs : Queued(j)' => Queued(j)
      BY <2>1, QueueTail DEF Take, Available, IInv, TypeOK, OneOwner, Distinct
    <3> QED
      BY <1>1, <2>1, <3>1 DEF Take, Parked, IInv, TypeOK, taskVars, jobVars
  <2>2. CASE BeginJob(w)
    BY <1>1, <2>2 DEF BeginJob, Parked, Queued, jobVars, IInv, TypeOK
  <2>3. CASE WaitTimeout(w)
    BY <2>3 DEF WaitTimeout, Parked, Queued, taskVars, jobVars
  <2>4. CASE TaskJoined(w)
    <3>1. \A v \in Workers : job'[v] \in {job[v], None}
      BY <2>4 DEF TaskJoined, IInv, TypeOK
    <3> QED
      BY <1>1, <2>4, <3>1, NoneAssumption DEF TaskJoined, Parked, Queued, taskVars, jobVars
  <2> QED
    BY <1>6, <2>1, <2>2, <2>3, <2>4 DEF Worker
<1>7. ASSUME NEW i \in Jobs, Execute(i)
      PROVE  Parked'
  <2>1. CASE CloseRaises(i)
    <3>1. /\ Schedule(key[i], TRUE)
          /\ status' = [status EXCEPT ![i] = "failed", ![Fresh] = "scheduled"]
          /\ task' = [task EXCEPT ![i] = "done"]
          /\ task[i] = "closing"
          /\ UNCHANGED <<job, withdrawn>>
      BY <2>1 DEF CloseRaises
    <3>2. i \notin delayed /\ i # Fresh
      BY <1>2, <3>1 DEF Schedule, Parked, IInv, AbsentOccursNowhere
    <3>3. task \in [Jobs -> {"none", "created", "syncing", "closing"} \cup Over]
      BY DEF IInv, TypeOK
    <3>4. CanCreate
      BY <3>1 DEF Schedule
    <3>5. \A j \in delayed \cup {Fresh} : task'[j] = task[j]
      BY <1>1, <1>2, <3>1, <3>2, <3>3, <3>4
    <3>6. status'[Fresh] = "scheduled" /\ \A j \in delayed \ {Fresh} : status'[j] = status[j]
      BY <1>1, <1>2, <3>1, <3>2, <3>4
    <3> QED
      BY <3>1, <3>5, <3>6, ScheduleParks
  <2>2. CASE \/ TaskStart(i) \/ SyncCommits(i) \/ SyncRaises(i) \/ CloseReturns(i)
             \/ CancelDelivered(i)
    <3>1. i \notin delayed
      BY <2>2 DEF TaskStart, SyncCommits, SyncRaises, CloseReturns, CancelDelivered, Parked,
                  IInv, CancelsAreAsked
    <3>2. /\ UNCHANGED <<delayed, queue, job, withdrawn>>
          /\ \A j \in delayed : task'[j] = task[j] /\ status'[j] = status[j]
      BY <1>1, <2>2, <3>1 DEF TaskStart, SyncCommits, SyncRaises, CloseReturns, CancelDelivered,
                              IInv, TypeOK, jobVars
    <3> QED
      BY <3>2 DEF Parked, Queued
  <2> QED
    BY <1>7, <2>1, <2>2 DEF Execute
<1>8. CASE Stop \/ UNCHANGED vars
  BY <1>8 DEF Stop, StopBegin, StopCancelsSyncs, StopReturns, Parked, Queued, taskVars, jobVars, vars
<1> QED
  BY <1>3, <1>4, <1>5, <1>6, <1>7, <1>8 DEF Next

LEMMA ParkedAlways == Spec => [](IInv /\ Parked)
<1>1. Init => Parked
  BY DEF Init, Parked
<1>2. IInv /\ Parked /\ [Next]_vars => Parked'
  BY StepParks
<1> QED
  BY <1>1, <1>2, Invariance, PTL DEF Spec

(* "Check for scheduled jobs every minute" promises more: the code has no  *)
(* path from a delayed job to the queue, and this is every behaviour's.    *)
THEOREM DelayedJobsNeverRun == Spec => []DelayedNeverRuns
<1>1. Parked => DelayedNeverRuns
  BY DEF Parked, DelayedNeverRuns
<1> QED
  BY <1>1, ParkedAlways, PTL

(* The retry that is never run stands in the way of every later sync of    *)
(* its key: Scheduled(k) is true from then on.                             *)
THEOREM DelayedJobsBlockTheirKey == Spec => DelayBlocksKey
<1> DEFINE Blocks == \A j \in delayed : \A i \in byLoop' \ byLoop :
                       key'[i] = key[j] => j \in withdrawn
<1>1. ASSUME IInv, Parked, Next
      PROVE  Blocks
  <2>1. ASSUME NEW k \in Keys, LoopCheck(k)
        PROVE  Blocks
    <3>1. byLoop' \ byLoop \subseteq {Fresh} /\ Fresh \in Jobs /\ key'[Fresh] = k
      BY <1>1, <2>1, FreshIsAbsent DEF LoopCheck, Schedule, IInv, TypeOK
    <3>2. \A j \in delayed : key[j] = k => status[j] # "scheduled"
      BY <1>1, <2>1 DEF LoopCheck, Scheduled, Live, IInv, TypeOK
    <3> QED
      BY <1>1, <3>1, <3>2 DEF Parked
  <2>2. CASE ~ \E k \in Keys : LoopCheck(k)
    <3>1. byLoop' = byLoop
      BY <1>1, <2>2
         DEF Next, ClientSchedule, ClientCancel, Worker, Take, WaitTimeout, BeginJob, TaskJoined,
             Execute, TaskStart, SyncCommits, SyncRaises, CloseReturns, CloseRaises,
             CancelDelivered, Stop, StopBegin, StopCancelsSyncs, StopReturns, jobVars
    <3> QED
      BY <3>1
  <2> QED
    BY <2>1, <2>2
<1>2. IInv /\ Parked /\ [Next]_vars => [Blocks]_vars
  BY <1>1
<1> QED
  BY <1>2, ParkedAlways, PTL DEF Spec, DelayBlocksKey

-----------------------------------------------------------------------------
(* The jobs that stay in the queue keep their order, and a job that enters *)
(* it goes behind them.                                                    *)
THEOREM JobsAreNotOvertaken == Spec => NoOvertaking
<1> DEFINE InOrder == \A i \in 1..Len(queue), n \in 1..Len(queue') :
                        queue'[n] = queue[i] => n <= i
<1>1. ASSUME IInv, [Next]_vars
      PROVE  InOrder
  <2>1. queue \in Seq(Jobs) /\ Distinct
    BY <1>1 DEF IInv, TypeOK, OneOwner, Distinct
  <2>2. CASE queue' = queue
    BY <2>1, <2>2 DEF Distinct
  <2>3. ASSUME NEW x \in Jobs, ~Queued(x), queue' = Append(queue, x)
        PROVE  InOrder
    <3>1. ASSUME NEW i \in 1..Len(queue), NEW n \in 1..Len(queue'), queue'[n] = queue[i]
          PROVE  n <= i
      <4>1. (n \in 1..Len(queue) /\ queue'[n] = queue[n]) \/ queue'[n] = x
        BY <2>1, <2>3
      <4>2. queue[i] # x
        BY <2>3 DEF Queued
      <4>3. n = i
        BY <2>1, <3>1, <4>1, <4>2 DEF Distinct
      <4> QED
        BY <4>3
    <3> QED
      BY <3>1
  <2>4. CASE queue # <<>> /\ queue' = Tail(queue)
    <3>1. \A n \in 1..Len(queue') : queue'[n] = queue[n + 1] /\ n + 1 \in 1..Len(queue)
      BY <2>1, <2>4
    <3>2. ASSUME NEW i \in 1..Len(queue), NEW n \in 1..Len(queue'), queue'[n] = queue[i]
          PROVE  n <= i
      <4>1. n + 1 = i
        BY <2>1, <3>1, <3>2 DEF Distinct
      <4> QED
        BY <4>1
    <3> QED
      BY <3>2
  <2>5. ASSUME NEW k, NEW later, Schedule(k, later)
        PROVE  InOrder
    <3>1. Fresh \in Jobs /\ ~Queued(Fresh)
      BY <1>1, <2>5, FreshIsAbsent DEF Schedule, IInv, AbsentOccursNowhere
    <3>2. queue' = queue \/ queue' = Append(queue, Fresh)
      BY <2>5 DEF Schedule
    <3> QED
      BY <2>2, <2>3, <3>1, <3>2
  <2>6. CASE \/ \E k \in Keys, later \in BOOLEAN : ClientSchedule(k, later)
             \/ \E k \in Keys : LoopCheck(k)
             \/ \E i \in Jobs : CloseRaises(i)
    BY <2>5, <2>6 DEF ClientSchedule, LoopCheck, CloseRaises
  <2>7. CASE \E w \in Workers : Take(w)
    BY <2>4, <2>7 DEF Take, Available
  <2>8. CASE \/ \E i \in Jobs : ClientCancel(i)
             \/ \E w \in Workers : WaitTimeout(w) \/ BeginJob(w) \/ TaskJoined(w)
             \/ \E i \in Jobs : TaskStart(i) \/ SyncCommits(i) \/ SyncRaises(i)
                                \/ CloseReturns(i) \/ CancelDelivered(i)
             \/ Stop
             \/ UNCHANGED vars
    <3>1. queue' = queue
      BY <2>8 DEF ClientCancel, WaitTimeout, BeginJob, TaskJoined, TaskStart, SyncCommits,
                  SyncRaises, CloseReturns, CancelDelivered, Stop, StopBegin,
                  StopCancelsSyncs, StopReturns, vars
    <3> QED
      BY <2>2, <3>1
  <2> QED
    BY <1>1, <2>6, <2>7, <2>8 DEF Next, Worker, Execute
<1>2. IInv /\ [Next]_vars => [InOrder]_vars
  BY <1>1
<1> QED
  BY <1>2, Invariance, PTL DEF Spec, NoOvertaking

(* "while self._running" is read at the end of every iteration, so none    *)
(* begins after stop().                                                    *)
THEOREM WorkersWindDown == Spec => OneJobAfterStop
<1> DEFINE Forward(w) == pc'[w] # pc[w] => Course[pc'[w]] > Course[pc[w]]
<1>1. ASSUME IInv, Next, ~running, NEW w \in Workers
      PROVE  Forward(w)
  <2>1. pc \in [Workers -> {"waiting", "got", "awaiting", "exited"}]
    BY <1>1 DEF IInv, TypeOK
  <2>2. ASSUME NEW v \in Workers, Worker(v)
        PROVE  Forward(w)
    <3>1. CASE Take(v)
      BY <2>1, <3>1 DEF Take, Course
    <3>2. CASE WaitTimeout(v)
      BY <1>1, <2>1, <3>2 DEF WaitTimeout, NextIteration, Course
    <3>3. CASE BeginJob(v)
      BY <2>1, <3>3 DEF BeginJob, Course
    <3>4. CASE TaskJoined(v)
      <4>1. pc[v] = "awaiting" /\ pc' = [pc EXCEPT ![v] = "exited"]
        BY <1>1, <3>4 DEF TaskJoined, NextIteration
      <4> QED
        BY <2>1, <4>1 DEF Course
    <3> QED
      BY <2>2, <3>1, <3>2, <3>3, <3>4 DEF Worker
  <2>3. ASSUME NEW i \in Jobs, Execute(i)
        PROVE  Forward(w)
    BY <2>3 DEF Execute, TaskStart, SyncCommits, SyncRaises, CloseReturns, CloseRaises,
                CancelDelivered
  <2>4. CASE \/ \E k \in Keys, later \in BOOLEAN : ClientSchedule(k, later)
             \/ \E i \in Jobs : ClientCancel(i)
             \/ \E k \in Keys : LoopCheck(k)
             \/ Stop
    BY <2>4 DEF ClientSchedule, ClientCancel, LoopCheck, Stop, StopBegin, StopCancelsSyncs,
                StopReturns
  <2> QED
    BY <1>1, <2>2, <2>3, <2>4 DEF Next
<1>2. IInv /\ [Next]_vars => [~running => \A w \in Workers : Forward(w)]_vars
  BY <1>1
<1> QED
  BY <1>2, Invariance, PTL DEF Spec, OneJobAfterStop

=============================================================================
