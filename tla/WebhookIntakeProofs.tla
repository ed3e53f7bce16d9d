------------------------- MODULE WebhookIntakeProofs -------------------------
(***************************************************************************)
(* Proofs about WebhookIntake, for any finite set of workers, any batches  *)
(* of them, any events and any calls of stop().  The heart of the argument *)
(* is Counted: the number join() waits for is that of the events queued or *)
(* in hand, so when it is zero nobody handles an event; and nobody begins  *)
(* to before the stop() this wakes has cancelled the workers (Woken).      *)
(***************************************************************************)
EXTENDS WebhookIntake, FiniteSetTheorems, TLAPS

(* A worker has an event exactly while it holds or handles one.            *)
Frames == \A w \in Workers : w \in Holders <=> item[w] # None

(* Cancellations are pending only for workers that have not begun to       *)
(* handle an event.                                                        *)
CancelsFollow == \A w \in cancelling : pc[w] \in {"created", "waiting", "holding"}

(* Between the last task_done() and the cancellation nobody handles.       *)
Woken == (\E s \in Stoppers : stop[s] = "joined") => \A w \in Workers : pc[w] # "handling"

OwedAccepted == \A s \in Stoppers : owed[s] \subseteq accepted

(* A stop() is in join() only as long as there is something to wait for:   *)
(* the task_done() that brings the count to zero wakes it at once.         *)
JoinWaits == (\E s \in Stoppers : stop[s] = "joining") => unfinished # 0

IInv ==
  /\ TypeOK
  /\ OnePlace
  /\ Counted
  /\ Frames
  /\ CancelsFollow
  /\ Woken
  /\ OwedAccepted
  /\ JoinWaits
  /\ StopDrains

-----------------------------------------------------------------------------
LEMMA HoldersFinite == IsFiniteSet(Holders) /\ Cardinality(Holders) \in Nat
<1>1. Holders \subseteq Workers
  BY DEF Holders
<1> QED
  BY <1>1, IntakeAssumption, FS_Subset, FS_CardinalityType

(* put() adds the event at the end of the queue.                           *)
LEMMA PutAdds ==
  ASSUME TypeOK, NEW e \in Events, queue' = Append(queue, e)
  PROVE  /\ queue' \in Seq(Events)
         /\ Len(queue') = Len(queue) + 1
         /\ Queued' = Queued \cup {e}
         /\ \A i \in 1..Len(queue) : queue'[i] = queue[i]
         /\ queue'[Len(queue) + 1] = e
<1>1. queue \in Seq(Events)
  BY DEF TypeOK
<1>2. Len(queue') = Len(queue) + 1 /\ queue' \in Seq(Events)
  BY <1>1
<1>3. \A i \in 1..Len(queue) : queue'[i] = queue[i]
  BY <1>1
<1>4. queue'[Len(queue) + 1] = e
  BY <1>1
<1>5. Len(queue) \in Nat
  BY <1>1
<1>6. 1..Len(queue') = 1..Len(queue) \cup {Len(queue) + 1}
  BY <1>2, <1>5
<1> QED
  BY <1>2, <1>3, <1>4, <1>6 DEF Queued

(* The getter takes the first event of the queue.                          *)
LEMMA GetRemoves ==
  ASSUME TypeOK, queue # <<>>, queue' = Tail(queue),
         \A i, k \in 1..Len(queue) : queue[i] = queue[k] => i = k
  PROVE  /\ queue' \in Seq(Events)
         /\ Head(queue) \in Events
         /\ Len(queue') = Len(queue) - 1
         /\ Queued = Queued' \cup {Head(queue)}
         /\ Head(queue) \notin Queued'
         /\ \A i, k \in 1..Len(queue') : queue'[i] = queue'[k] => i = k
<1>1. queue \in Seq(Events) /\ Len(queue) \in Nat \ {0}
  BY DEF TypeOK
<1>2. Len(queue') = Len(queue) - 1 /\ queue' \in Seq(Events) /\ Head(queue) \in Events
  BY <1>1
<1>3. \A i \in 1..Len(queue') : queue'[i] = queue[i + 1] /\ i + 1 \in 1..Len(queue)
  BY <1>1, <1>2
<1>4. Head(queue) = queue[1] /\ 1 \in 1..Len(queue)
  BY <1>1
<1>5. \A i \in 1..Len(queue) : i = 1 \/ (i - 1 \in 1..Len(queue') /\ queue'[i - 1] = queue[i])
  BY <1>1, <1>2, <1>3
<1>6. Queued = Queued' \cup {Head(queue)}
  <2>1. Queued' \subseteq Queued
    BY <1>3 DEF Queued
  <2>2. Queued \subseteq Queued' \cup {Head(queue)}
    BY <1>4, <1>5 DEF Queued
  <2> QED
    BY <2>1, <2>2, <1>4 DEF Queued
<1>7. Head(queue) \notin Queued'
  <2>1. ASSUME NEW i \in 1..Len(queue'), queue'[i] = Head(queue) PROVE FALSE
    <3>1. i + 1 = 1
      BY <2>1, <1>3, <1>4
    <3> QED
      BY <3>1
  <2> QED
    BY <2>1 DEF Queued
<1>8. \A i, k \in 1..Len(queue') : queue'[i] = queue'[k] => i = k
  <2>1. ASSUME NEW i \in 1..Len(queue'), NEW k \in 1..Len(queue'), queue'[i] = queue'[k]
        PROVE  i = k
    <3>1. i + 1 = k + 1
      BY <2>1, <1>3
    <3> QED
      BY <3>1
  <2> QED
    BY <2>1
<1> QED
  BY <1>2, <1>6, <1>7, <1>8

-----------------------------------------------------------------------------
(* A step that moves no event keeps the accounts.                          *)
LEMMA NothingMoves ==
  ASSUME OnePlace, Counted,
         UNCHANGED <<queue, unfinished, item, accepted, handled>>,
         Holders' = Holders
  PROVE  OnePlace' /\ Counted'
<1>1. Held' = Held /\ Queued' = Queued
  BY DEF Held, Queued
<1> QED
  BY <1>1 DEF OnePlace, Counted

LEMMA AddWebhookInv ==
  ASSUME IInv, NEW e \in Events, AddWebhook(e)
  PROVE  IInv'
<1> USE DEF AddWebhook, stops
<1>1. Holders' = Holders /\ Held' = Held
  BY DEF Holders, Held
<1>2. /\ queue' \in Seq(Events)
      /\ Len(queue') = Len(queue) + 1
      /\ Queued' = Queued \cup {e}
      /\ \A i \in 1..Len(queue) : queue'[i] = queue[i]
      /\ queue'[Len(queue) + 1] = e
  BY PutAdds DEF IInv
<1>3. Len(queue) \in Nat
  BY DEF IInv, TypeOK
<1>4. e \notin Queued /\ e \notin Held /\ e \notin handled
  BY DEF IInv, OnePlace
<1>5. \A i, k \in 1..Len(queue') : queue'[i] = queue'[k] => i = k
  <2>1. \A i \in 1..Len(queue') : i \in 1..Len(queue) \/ i = Len(queue) + 1
    BY <1>2, <1>3
  <2>2. \A i \in 1..Len(queue) : queue[i] # e
    BY <1>4 DEF Queued
  <2>3. \A i, k \in 1..Len(queue) : queue[i] = queue[k] => i = k
    BY DEF IInv, OnePlace
  <2> QED
    BY <1>2, <2>1, <2>2, <2>3
<1>6. OnePlace'
  <2>1. accepted' = Queued' \cup Held' \cup handled'
    BY <1>1, <1>2 DEF IInv, OnePlace
  <2>2. Queued' \cap Held' = {} /\ (Queued' \cup Held') \cap handled' = {}
    BY <1>1, <1>2, <1>4 DEF IInv, OnePlace
  <2>3. \A v, w \in Holders' : item'[v] = item'[w] => v = w
    BY <1>1 DEF IInv, OnePlace
  <2> QED
    BY <2>1, <2>2, <2>3, <1>5 DEF OnePlace
<1>7. Counted'
  BY <1>1, <1>2, <1>3, HoldersFinite DEF IInv, Counted
<1>8. TypeOK'
  BY <1>2 DEF IInv, TypeOK
<1>9. Frames'
  BY <1>1 DEF IInv, Frames
<1>10. CancelsFollow' /\ Woken' /\ OwedAccepted' /\ StopDrains'
  BY DEF IInv, CancelsFollow, Woken, OwedAccepted, StopDrains, stops
<1>11. JoinWaits'
  BY DEF IInv, TypeOK, JoinWaits, stops
<1> QED
  BY <1>6, <1>7, <1>8, <1>9, <1>10, <1>11 DEF IInv

LEMMA StartInv ==
  ASSUME IInv, NEW b \in Batches, Start(b)
  PROVE  IInv'
<1> USE DEF Start, stops, events
<1>1. b \subseteq Workers /\ \A w \in b : pc[w] = "gone" /\ pc'[w] = "created"
  BY IntakeAssumption
<1>2. \A w \in Workers : w \notin b => pc'[w] = pc[w]
  OBVIOUS
<1>3. Holders' = Holders
  BY <1>1, <1>2 DEF Holders
<1>4. OnePlace' /\ Counted'
  BY <1>3, NothingMoves DEF IInv
<1>5. TypeOK'
  BY <1>1 DEF IInv, TypeOK
<1>6. Frames'
  BY <1>3 DEF IInv, Frames
<1>7. CancelsFollow' /\ Woken'
  BY <1>1, <1>2 DEF IInv, TypeOK, CancelsFollow, Woken
<1>8. OwedAccepted' /\ JoinWaits' /\ StopDrains'
  BY DEF IInv, OwedAccepted, JoinWaits, StopDrains
<1> QED
  BY <1>4, <1>5, <1>6, <1>7, <1>8 DEF IInv

(* A worker that has no event moves between points where it has none.      *)
LEMMA EmptyHandedInv ==
  ASSUME IInv, NEW w \in Workers, w \notin Holders,
         NEW at \in {"waiting", "gone"},
         pc' = [pc EXCEPT ![w] = at],
         cancelling' \subseteq cancelling,
         w \in cancelling' => at = "waiting",
         UNCHANGED <<running, pool, stops, events>>
  PROVE  IInv'
<1> USE DEF stops, events
<1>1. pc \in [Workers -> {"created", "waiting", "holding", "handling", "gone"}]
  BY DEF IInv, TypeOK
<1>2. Holders' = Holders
  BY <1>1 DEF Holders
<1>3. OnePlace' /\ Counted'
  BY <1>2, NothingMoves DEF IInv
<1>4. TypeOK'
  BY <1>1 DEF IInv, TypeOK
<1>5. Frames'
  BY <1>2 DEF IInv, Frames
<1>6. CancelsFollow' /\ Woken'
  BY <1>1 DEF IInv, CancelsFollow, Woken
<1>7. OwedAccepted' /\ JoinWaits' /\ StopDrains'
  BY DEF IInv, OwedAccepted, JoinWaits, StopDrains
<1> QED
  BY <1>3, <1>4, <1>5, <1>6, <1>7 DEF IInv

LEMMA BeginInv ==
  ASSUME IInv, NEW w \in Workers, Begin(w)
  PROVE  IInv'
<1>1. LoopTop \in {"waiting", "gone"} /\ pc' = [pc EXCEPT ![w] = LoopTop]
  BY DEF Begin, LoopTop
<1>2. w \notin Holders /\ w \notin cancelling'
  BY DEF Begin, Holders
<1> QED
  BY <1>1, <1>2, EmptyHandedInv DEF Begin

LEMMA WaitTimeoutInv ==
  ASSUME IInv, NEW w \in Workers, WaitTimeout(w)
  PROVE  IInv'
<1>1. w \notin Holders /\ w \notin cancelling'
  BY DEF WaitTimeout, Holders
<1> QED
  BY <1>1, EmptyHandedInv DEF WaitTimeout

LEMMA CancelArrivesInv ==
  ASSUME IInv, NEW w \in Workers, CancelArrives(w)
  PROVE  IInv'
<1>1. pc[w] \in {"created", "waiting"}
  BY DEF IInv, CancelsFollow, CancelArrives
<1>2. w \notin Holders /\ w \notin cancelling'
  BY <1>1 DEF CancelArrives, Holders
<1>3. item' = item
  BY <1>2 DEF IInv, Frames, TypeOK, CancelArrives
<1> QED
  BY <1>1, <1>2, <1>3, EmptyHandedInv DEF CancelArrives, events

LEMMA TakeInv ==
  ASSUME IInv, NEW w \in Workers, Take(w)
  PROVE  IInv'
<1> USE DEF Take, stops
<1> DEFINE e == Head(queue)
<1>1. /\ queue' \in Seq(Events)
      /\ e \in Events
      /\ Len(queue') = Len(queue) - 1
      /\ Queued = Queued' \cup {e}
      /\ e \notin Queued'
      /\ \A i, k \in 1..Len(queue') : queue'[i] = queue'[k] => i = k
  BY GetRemoves DEF IInv, OnePlace
<1>2. /\ pc \in [Workers -> {"created", "waiting", "holding", "handling", "gone"}]
      /\ item \in [Workers -> Events \cup {None}]
  BY DEF IInv, TypeOK
<1>3. w \notin Holders /\ Holders' = Holders \cup {w}
  BY <1>2 DEF Holders
<1>4. item'[w] = e /\ \A v \in Workers : v # w => item'[v] = item[v]
  BY <1>2
<1> HIDE DEF e
<1>5. Held' = Held \cup {e}
  <2>1. Held' = {item'[v] : v \in Holders \cup {w}}
    BY <1>3 DEF Held
  <2>2. \A v \in Holders : item'[v] = item[v]
    BY <1>3, <1>4 DEF Holders
  <2> QED
    BY <2>1, <2>2, <1>4 DEF Held
<1>6. e \notin Held /\ e \notin handled
  BY <1>1 DEF IInv, OnePlace
<1>7. OnePlace'
  <2>1. accepted' = Queued' \cup Held' \cup handled'
    BY <1>1, <1>5 DEF IInv, OnePlace
  <2>2. Queued' \cap Held' = {} /\ (Queued' \cup Held') \cap handled' = {}
    BY <1>1, <1>5 DEF IInv, OnePlace
  <2>3. ASSUME NEW u \in Holders', NEW v \in Holders', item'[u] = item'[v]
        PROVE  u = v
    <3>1. CASE u # w /\ v # w
      BY <3>1, <2>3, <1>3, <1>4 DEF IInv, OnePlace, Holders
    <3>2. CASE u = w /\ v # w
      BY <3>2, <2>3, <1>3, <1>4, <1>6 DEF Held, Holders
    <3>3. CASE u # w /\ v = w
      BY <3>3, <2>3, <1>3, <1>4, <1>6 DEF Held, Holders
    <3> QED
      BY <3>1, <3>2, <3>3
  <2> QED
    BY <1>1, <2>1, <2>2, <2>3 DEF OnePlace
<1>8. Counted'
  <2>1. Cardinality(Holders') = Cardinality(Holders) + 1
    BY <1>3, HoldersFinite, FS_AddElement
  <2>2. Len(queue) \in Nat
    BY DEF IInv, TypeOK
  <2> QED
    BY <2>1, <2>2, <1>1, HoldersFinite DEF IInv, Counted
<1>9. TypeOK'
  <2>1. item' \in [Workers -> Events \cup {None}]
    BY <1>1, <1>2 DEF e
  <2> QED
    BY <1>1, <1>2, <2>1 DEF IInv, TypeOK
<1>10. Frames'
  <2>1. e # None
    BY <1>1, IntakeAssumption
  <2> QED
    BY <2>1, <1>2, <1>3, <1>4 DEF IInv, Frames
<1>11. CancelsFollow' /\ Woken'
  BY <1>2 DEF IInv, CancelsFollow, Woken
<1>12. OwedAccepted' /\ JoinWaits' /\ StopDrains'
  BY DEF IInv, OwedAccepted, JoinWaits, StopDrains
<1> QED
  BY <1>7, <1>8, <1>9, <1>10, <1>11, <1>12 DEF IInv

LEMMA ResumeInv ==
  ASSUME IInv, NEW w \in Workers, Resume(w)
  PROVE  IInv'
<1> USE DEF Resume, stops, events
<1>1. pc \in [Workers -> {"created", "waiting", "holding", "handling", "gone"}]
  BY DEF IInv, TypeOK
<1>2. Holders' = Holders
  BY <1>1 DEF Holders
<1>3. OnePlace' /\ Counted'
  BY <1>2, NothingMoves DEF IInv
<1>4. TypeOK'
  BY <1>1 DEF IInv, TypeOK
<1>5. Frames'
  BY <1>2 DEF IInv, Frames
<1>6. CancelsFollow' /\ Woken'
  BY <1>1 DEF IInv, CancelsFollow, Woken
<1>7. OwedAccepted' /\ JoinWaits' /\ StopDrains'
  BY DEF IInv, OwedAccepted, JoinWaits, StopDrains
<1> QED
  BY <1>3, <1>4, <1>5, <1>6, <1>7 DEF IInv

(* When the count is zero nobody has an event and none is queued.          *)
LEMMA ZeroMeansDone ==
  ASSUME IInv, unfinished = 0
  PROVE  Holders = {} /\ accepted = handled
<1>1. Len(queue) \in Nat
  BY DEF IInv, TypeOK
<1>2. Len(queue) = 0 /\ Cardinality(Holders) = 0
  BY <1>1, HoldersFinite DEF IInv, Counted
<1>3. Holders = {}
  BY <1>2, HoldersFinite, FS_EmptySet
<1>4. Queued = {} /\ Held = {}
  BY <1>2, <1>3 DEF Queued, Held
<1> QED
  BY <1>3, <1>4 DEF IInv, OnePlace

(* All of HandlerEnds but the end of the join.                             *)
LEMMA HandlerEndsAccounts ==
  ASSUME IInv, NEW w \in Workers, HandlerEnds(w)
  PROVE  /\ TypeOK' /\ OnePlace' /\ Counted'
         /\ Holders' = Holders \ {w}
         /\ \A v \in Workers : v \in Holders' <=> item'[v] # None
<1> USE DEF HandlerEnds
<1> DEFINE e == item[w]
<1>1. /\ pc \in [Workers -> {"created", "waiting", "holding", "handling", "gone"}]
      /\ item \in [Workers -> Events \cup {None}]
  BY DEF IInv, TypeOK
<1>2. w \in Holders /\ Holders' = Holders \ {w}
  BY <1>1 DEF Holders, LoopTop
<1>3. item'[w] = None /\ \A v \in Workers : v # w => item'[v] = item[v]
  BY <1>1
<1>4. e # None /\ e \in Events /\ e \in Held
  BY <1>1, <1>2 DEF IInv, Frames, Held
<1>5. \A u, v \in Holders : item[u] = item[v] => u = v
  BY DEF IInv, OnePlace
<1>6. Held' = Held \ {e}
  <2>1. Held' = {item[v] : v \in Holders \ {w}}
    <3>1. \A v \in Holders \ {w} : item'[v] = item[v]
      BY <1>3 DEF Holders
    <3> QED
      BY <1>2, <3>1 DEF Held
  <2>2. \A v \in Holders \ {w} : item[v] # e
    BY <1>2, <1>5
  <2> QED
    BY <2>1, <2>2 DEF Held
<1>7. Queued' = Queued
  BY DEF Queued
<1>8. OnePlace'
  <2>1. accepted' = Queued' \cup Held' \cup handled'
    BY <1>4, <1>6, <1>7 DEF IInv, OnePlace
  <2>2. Queued' \cap Held' = {} /\ (Queued' \cup Held') \cap handled' = {}
    BY <1>4, <1>6, <1>7 DEF IInv, OnePlace
  <2>3. \A u, v \in Holders' : item'[u] = item'[v] => u = v
    BY <1>2, <1>3, <1>5 DEF Holders
  <2> QED
    BY <2>1, <2>2, <2>3 DEF IInv, OnePlace
<1>9. /\ Cardinality(Holders') = Cardinality(Holders) - 1
      /\ Cardinality(Holders') \in Nat
  BY <1>2, HoldersFinite, FS_RemoveElement, FS_CardinalityType
<1>10. Len(queue) \in Nat /\ unfinished \in Nat
  BY DEF IInv, TypeOK
<1>11. Counted'
  BY <1>9, <1>10, HoldersFinite DEF IInv, Counted, TaskDone
<1>12. unfinished' \in Nat
  BY <1>9, <1>10, <1>11 DEF Counted
<1>13. TypeOK'
  <2>1. pc' \in [Workers -> {"created", "waiting", "holding", "handling", "gone"}]
    BY <1>1 DEF LoopTop
  <2>2. item' \in [Workers -> Events \cup {None}]
    BY <1>1
  <2>3. handled' \subseteq Events
    BY <1>4 DEF IInv, TypeOK
  <2>4. stop' \in [Stoppers -> {"idle", "joining", "joined", "gathering"}]
    BY DEF IInv, TypeOK
  <2> QED
    BY <2>1, <2>2, <2>3, <2>4, <1>12 DEF IInv, TypeOK
<1>14. \A v \in Workers : v \in Holders' <=> item'[v] # None
  BY <1>2, <1>3 DEF IInv, Frames
<1> QED
  BY <1>2, <1>8, <1>11, <1>13, <1>14

LEMMA HandlerEndsInv ==
  ASSUME IInv, NEW w \in Workers, HandlerEnds(w)
  PROVE  IInv'
<1>1. /\ TypeOK' /\ OnePlace' /\ Counted'
      /\ Holders' = Holders \ {w}
      /\ \A v \in Workers : v \in Holders' <=> item'[v] # None
  BY HandlerEndsAccounts
<1> USE DEF HandlerEnds
<1>2. /\ pc \in [Workers -> {"created", "waiting", "holding", "handling", "gone"}]
      /\ \A v \in Workers : pc'[v] = "handling" => v # w /\ pc[v] = "handling"
  BY DEF IInv, TypeOK, LoopTop
<1>3. Frames'
  BY <1>1 DEF Frames
<1>4. OwedAccepted'
  BY DEF IInv, OwedAccepted
<1>5. CancelsFollow'
  <2>1. w \notin cancelling
    BY DEF IInv, CancelsFollow
  <2> QED
    BY <1>2, <2>1 DEF IInv, CancelsFollow, TypeOK
<1>6. CASE TaskDone = 0
  <2>1. Holders' = {} /\ accepted' = handled'
    <3>1. unfinished' = 0 /\ Len(queue') \in Nat
      BY <1>1, <1>6 DEF TypeOK
    <3>2. IsFiniteSet(Holders') /\ Cardinality(Holders') \in Nat
      BY <1>1, HoldersFinite, FS_RemoveElement, FS_CardinalityType
    <3>3. Len(queue') = 0 /\ Cardinality(Holders') = 0
      BY <1>1, <3>1, <3>2 DEF Counted
    <3>4. Holders' = {}
      BY <3>2, <3>3, FS_EmptySet
    <3>5. Queued' = {} /\ Held' = {}
      BY <3>3, <3>4 DEF Queued, Held
    <3> QED
      BY <1>1, <3>4, <3>5 DEF OnePlace
  <2>2. StopDrains'
    BY <2>1, <1>4 DEF StopDrains, OwedAccepted
  <2>3. Woken'
    BY <2>1 DEF Woken, Holders
  <2>4. JoinWaits'
    BY <1>6 DEF JoinWaits
  <2> QED
    BY <1>1, <1>3, <1>4, <1>5, <2>2, <2>3, <2>4 DEF IInv
<1>7. CASE TaskDone # 0
  <2>1. \A s \in Stoppers : stop'[s] = stop[s]
    BY <1>7
  <2>2. StopDrains'
    BY <2>1 DEF IInv, StopDrains
  <2>3. Woken'
    BY <2>1, <1>2 DEF IInv, Woken
  <2>4. JoinWaits'
    BY <1>7 DEF JoinWaits
  <2> QED
    BY <1>1, <1>3, <1>4, <1>5, <2>2, <2>3, <2>4 DEF IInv
<1> QED
  BY <1>6, <1>7

(* Nobody handles an event when a stop() cancels the workers.              *)
LEMMA CancelPoolInv ==
  ASSUME IInv, NEW s \in Stoppers, CancelPool(s),
         \A w \in Workers : pc[w] # "handling",
         \/ owed' = owed /\ owed[s] \subseteq handled
         \/ owed' = [owed EXCEPT ![s] = accepted \ handled] /\ accepted = handled,
         running' \in BOOLEAN,
         UNCHANGED <<pool, pc, events>>
  PROVE  IInv'
<1> USE DEF CancelPool, events
<1>1. Holders' = Holders
  BY DEF Holders
<1>2. OnePlace' /\ Counted'
  BY <1>1, NothingMoves DEF IInv
<1>3. TypeOK'
  BY DEF IInv, TypeOK, Alive
<1>4. Frames'
  BY <1>1 DEF IInv, Frames
<1>5. CancelsFollow' /\ Woken'
  BY DEF IInv, TypeOK, CancelsFollow, Woken, Alive
<1>6. OwedAccepted'
  BY DEF IInv, TypeOK, OwedAccepted
<1>7. \A t \in Stoppers : stop'[t] \in {"joining", "joined"} => stop'[t] = stop[t]
  BY DEF IInv, TypeOK
<1>8. JoinWaits'
  BY <1>7 DEF IInv, JoinWaits
<1>9. StopDrains'
  <2>1. owed'[s] \subseteq handled
    BY DEF IInv, TypeOK
  <2>2. \A t \in Stoppers : t # s => stop'[t] = stop[t] /\ owed'[t] = owed[t]
    BY DEF IInv, TypeOK
  <2> QED
    BY <2>1, <2>2 DEF IInv, StopDrains
<1> QED
  BY <1>2, <1>3, <1>4, <1>5, <1>6, <1>8, <1>9 DEF IInv

LEMMA StopInv ==
  ASSUME IInv, NEW s \in Stoppers, Stop(s)
  PROVE  IInv'
<1> USE DEF Stop
<1>1. CASE unfinished = 0
  <2>1. accepted = handled /\ \A w \in Workers : pc[w] # "handling"
    BY <1>1, ZeroMeansDone DEF Holders
  <2> QED
    BY <1>1, <2>1, CancelPoolInv
<1>2. CASE unfinished # 0
  <2>1. Holders' = Holders
    BY DEF Holders
  <2>2. OnePlace' /\ Counted'
    BY <2>1, NothingMoves DEF IInv, events
  <2>3. /\ stop' = [stop EXCEPT ![s] = "joining"]
        /\ owed' = [owed EXCEPT ![s] = accepted \ handled]
        /\ UNCHANGED <<pool, pc, queue, unfinished, item, accepted, handled, cancelling, awaited>>
    BY <1>2 DEF events
  <2>4. TypeOK'
    BY <2>3 DEF IInv, TypeOK
  <2>5. Frames' /\ CancelsFollow'
    BY <2>1, <2>3 DEF IInv, Frames, CancelsFollow
  <2>6. Woken' /\ JoinWaits'
    BY <1>2, <2>3 DEF IInv, TypeOK, Woken, JoinWaits
  <2>7. OwedAccepted' /\ StopDrains'
    BY <2>3 DEF IInv, TypeOK, OwedAccepted, StopDrains
  <2> QED
    BY <2>2, <2>4, <2>5, <2>6, <2>7 DEF IInv
<1> QED
  BY <1>1, <1>2

LEMMA StopResumesInv ==
  ASSUME IInv, NEW s \in Stoppers, StopResumes(s)
  PROVE  IInv'
<1>1. \A w \in Workers : pc[w] # "handling"
  BY DEF IInv, Woken, StopResumes
<1>2. owed[s] \subseteq handled
  BY DEF IInv, StopDrains, StopResumes
<1>3. running' \in BOOLEAN
  BY DEF IInv, TypeOK, StopResumes
<1> QED
  BY <1>1, <1>2, <1>3, CancelPoolInv DEF StopResumes

LEMMA GatheredInv ==
  ASSUME IInv, NEW s \in Stoppers, Gathered(s)
  PROVE  IInv'
<1> USE DEF Gathered, events
<1>1. Holders' = Holders
  BY DEF Holders
<1>2. OnePlace' /\ Counted'
  BY <1>1, NothingMoves DEF IInv
<1>3. TypeOK'
  BY DEF IInv, TypeOK
<1>4. Frames' /\ CancelsFollow'
  BY <1>1 DEF IInv, Frames, CancelsFollow
<1>5. Woken' /\ OwedAccepted' /\ JoinWaits' /\ StopDrains'
  BY DEF IInv, TypeOK, Woken, OwedAccepted, JoinWaits, StopDrains
<1> QED
  BY <1>2, <1>3, <1>4, <1>5 DEF IInv

LEMMA StutterInv ==
  ASSUME IInv, UNCHANGED vars
  PROVE  IInv'
<1> USE DEF vars, stops, events
<1>1. Holders' = Holders
  BY DEF Holders
<1>2. OnePlace' /\ Counted'
  BY <1>1, NothingMoves DEF IInv
<1> QED
  BY <1>1, <1>2 DEF IInv, TypeOK, Frames, CancelsFollow, Woken, OwedAccepted, JoinWaits,
                    StopDrains

-----------------------------------------------------------------------------
LEMMA InitInv == Init => IInv
<1> SUFFICES ASSUME Init PROVE IInv
  OBVIOUS
<1> USE DEF Init
<1>1. Holders = {} /\ Held = {} /\ Queued = {}
  BY DEF Holders, Held, Queued
<1>2. Cardinality(Holders) = 0
  BY <1>1, FS_EmptySet
<1>3. TypeOK
  <2>1. queue \in Seq(Events) /\ unfinished \in Nat
    OBVIOUS
  <2>2. pc \in [Workers -> {"created", "waiting", "holding", "handling", "gone"}]
    OBVIOUS
  <2>3. item \in [Workers -> Events \cup {None}]
    OBVIOUS
  <2>4. stop \in [Stoppers -> {"idle", "joining", "joined", "gathering"}]
    OBVIOUS
  <2>5. awaited \in [Stoppers -> SUBSET Workers] /\ owed \in [Stoppers -> SUBSET Events]
    OBVIOUS
  <2>6. {pool, cancelling} \subseteq SUBSET Workers /\ {accepted, handled} \subseteq SUBSET Events
    OBVIOUS
  <2>7. running \in BOOLEAN
    OBVIOUS
  <2> QED
    BY <2>1, <2>2, <2>3, <2>4, <2>5, <2>6, <2>7 DEF TypeOK
<1>6. Frames
  BY <1>1 DEF Frames
<1>4. OnePlace
  BY <1>1 DEF OnePlace
<1>5. Counted
  BY <1>2 DEF Counted
<1> QED
  BY <1>3, <1>4, <1>5, <1>6 DEF IInv, CancelsFollow, Woken, OwedAccepted, JoinWaits, StopDrains

LEMMA StepInv == IInv /\ [Next]_vars => IInv'
<1> SUFFICES ASSUME IInv, [Next]_vars PROVE IInv'
  OBVIOUS
<1>1. ASSUME NEW e \in Events, AddWebhook(e) PROVE IInv'
  BY <1>1, AddWebhookInv
<1>2. ASSUME NEW b \in Batches, Start(b) PROVE IInv'
  BY <1>2, StartInv
<1>3. ASSUME NEW s \in Stoppers, Stop(s) PROVE IInv'
  BY <1>3, StopInv
<1>4. ASSUME NEW s \in Stoppers, StopperStep(s) PROVE IInv'
  BY <1>4, StopResumesInv, GatheredInv DEF StopperStep
<1>5. ASSUME NEW w \in Workers, WorkerStep(w) PROVE IInv'
  BY <1>5, BeginInv, TakeInv, ResumeInv, WaitTimeoutInv, HandlerEndsInv, CancelArrivesInv
     DEF WorkerStep
<1>6. CASE UNCHANGED vars
  BY <1>6, StutterInv
<1> QED
  BY <1>1, <1>2, <1>3, <1>4, <1>5, <1>6 DEF Next

(* The inductive invariant holds, and with it the accounts of the queue.   *)
THEOREM Invariance == Spec => []IInv
BY InitInv, StepInv, PTL DEF Spec

(* Every variable keeps its type; in particular task_done() is never       *)
(* called once too often, which would raise ValueError.                    *)
THEOREM TypeCorrect == Spec => []TypeOK
<1>1. IInv => TypeOK
  BY DEF IInv
<1> QED
  BY <1>1, Invariance, PTL

(* No event is lost, held by two workers or handled twice.                 *)
THEOREM EventInOnePlace == Spec => []OnePlace
<1>1. IInv => OnePlace
  BY DEF IInv
<1> QED
  BY <1>1, Invariance, PTL

(* A stop() cancels the workers only when all that it owes is handled,     *)
(* however many calls of start() and stop() overlap.                       *)
THEOREM StopLeavesNothing == Spec => []StopDrains
<1>1. IInv => StopDrains
  BY DEF IInv
<1> QED
  BY <1>1, Invariance, PTL

(* The cancellation of a worker never hits a handler.                      *)
THEOREM HandlersAreSafe == Spec => []NeverInterrupted
<1>1. IInv => NeverInterrupted
  BY DEF IInv, CancelsFollow, NeverInterrupted
<1> QED
  BY <1>1, Invariance, PTL

(* When all workers have left, what a stop() still waits for can only be   *)
(* in the queue: Counted and JoinWaits together.                           *)
THEOREM OnlyBacklogStrands == Spec => []StrandedOverBacklog
<1>1. IInv => StrandedOverBacklog
  <2> SUFFICES ASSUME IInv, NEW s \in Stoppers, Stranded(s), queue = <<>>
               PROVE  FALSE
    BY DEF StrandedOverBacklog
  <2>1. Holders = {}
    BY DEF Holders, Stranded, Alive
  <2>2. Cardinality(Holders) = 0 /\ Len(queue) = 0
    BY <2>1, FS_EmptySet
  <2>3. unfinished = 0
    BY <2>2 DEF IInv, Counted
  <2> QED
    BY <2>3 DEF IInv, JoinWaits, Stranded
<1> QED
  BY <1>1, Invariance, PTL

-----------------------------------------------------------------------------
(* The events that stay in the queue keep their order, and add_webhook     *)
(* puts a new one behind them.                                             *)
THEOREM EventsAreNotOvertaken == Spec => NoOvertaking
<1> DEFINE InOrder == \A i \in 1..Len(queue), n \in 1..Len(queue') :
                        queue'[n] = queue[i] => n <= i
<1>1. ASSUME IInv, [Next]_vars
      PROVE  InOrder
  <2>1. /\ queue \in Seq(Events)
        /\ \A i, n \in 1..Len(queue) : queue[i] = queue[n] => i = n
    BY <1>1 DEF IInv, TypeOK, OnePlace
  <2>2. CASE queue' = queue
    BY <2>1, <2>2
  <2>3. ASSUME NEW e \in Events, AddWebhook(e)
        PROVE  InOrder
    <3>1. ASSUME NEW i \in 1..Len(queue), NEW n \in 1..Len(queue'), queue'[n] = queue[i]
          PROVE  n <= i
      <4>1. (n \in 1..Len(queue) /\ queue'[n] = queue[n]) \/ queue'[n] = e
        BY <2>1, <2>3 DEF AddWebhook
      <4>2. queue[i] # e
        BY <1>1, <2>3 DEF AddWebhook, IInv, OnePlace, Queued
      <4>3. n = i
        BY <2>1, <3>1, <4>1, <4>2
      <4> QED
        BY <4>3
    <3> QED
      BY <3>1
  <2>4. ASSUME NEW w \in Workers, Take(w)
        PROVE  InOrder
    <3>1. \A n \in 1..Len(queue') : queue'[n] = queue[n + 1] /\ n + 1 \in 1..Len(queue)
      BY <2>1, <2>4 DEF Take
    <3>2. ASSUME NEW i \in 1..Len(queue), NEW n \in 1..Len(queue'), queue'[n] = queue[i]
          PROVE  n <= i
      <4>1. n + 1 = i
        BY <2>1, <3>1, <3>2
      <4> QED
        BY <4>1
    <3> QED
      BY <3>2
  <2>5. CASE \/ \E w \in Workers : \/ Begin(w) \/ Resume(w) \/ WaitTimeout(w)
                                 \/ HandlerEnds(w) \/ CancelArrives(w)
             \/ \E b \in Batches : Start(b)
             \/ \E s \in Stoppers : Stop(s) \/ StopperStep(s)
             \/ UNCHANGED vars
    <3>1. queue' = queue
      BY <2>5 DEF Begin, Resume, WaitTimeout, HandlerEnds, CancelArrives, Start, Stop,
                  StopperStep, StopResumes, Gathered, vars, events
    <3> QED
      BY <2>2, <3>1
  <2> QED
    BY <1>1, <2>3, <2>4, <2>5 DEF Next, WorkerStep
<1>2. IInv /\ [Next]_vars => [InOrder]_vars
  BY <1>1
<1> QED
  BY <1>2, Invariance, PTL DEF Spec, NoOvertaking

(* "while self.running" is read when a worker begins and after each event. *)
THEOREM WorkersWindDown == Spec => OneEventAfterStop
<1> DEFINE Forward(w) == pc'[w] # pc[w] => Course[pc'[w]] > Course[pc[w]]
           Stopped    == ~running /\ ~running'
<1>1. ASSUME IInv, Next, Stopped, NEW w \in Workers
      PROVE  Forward(w)
  <2>1. pc \in [Workers -> {"created", "waiting", "holding", "handling", "gone"}]
    BY <1>1 DEF IInv, TypeOK
  <2>2. LoopTop = "gone"
    BY <1>1 DEF LoopTop
  <2>3. ASSUME NEW v \in Workers, WorkerStep(v)
        PROVE  Forward(w)
    <3>1. CASE Begin(v) \/ HandlerEnds(v)
      <4>1. pc[v] \in {"created", "handling"} /\ pc' = [pc EXCEPT ![v] = "gone"]
        BY <2>2, <3>1 DEF Begin, HandlerEnds
      <4> QED
        BY <2>1, <4>1 DEF Course
    <3>2. CASE Take(v)
      BY <2>1, <3>2 DEF Take, Course
    <3>3. CASE Resume(v)
      BY <2>1, <3>3 DEF Resume, Course
    <3>4. CASE WaitTimeout(v) \/ CancelArrives(v)
      <4>1. pc[v] \in {"created", "waiting"} /\ pc' = [pc EXCEPT ![v] = "gone"]
        BY <1>1, <3>4 DEF WaitTimeout, CancelArrives, IInv, CancelsFollow
      <4> QED
        BY <2>1, <4>1 DEF Course
    <3> QED
      BY <2>3, <3>1, <3>2, <3>3, <3>4 DEF WorkerStep
  <2>4. CASE (\E e \in Events : AddWebhook(e)) \/ (\E s \in Stoppers : Stop(s) \/ StopperStep(s))
    BY <2>4 DEF AddWebhook, Stop, StopperStep, StopResumes, Gathered
  <2>5. CASE \E b \in Batches : Start(b)
    BY <1>1, <2>5 DEF Start
  <2> QED
    BY <1>1, <2>3, <2>4, <2>5 DEF Next
<1>2. IInv /\ [Next]_vars => [Stopped => \A w \in Workers : Forward(w)]_vars
  BY <1>1
<1> QED
  BY <1>2, Invariance, PTL DEF Spec, OneEventAfterStop

=============================================================================
