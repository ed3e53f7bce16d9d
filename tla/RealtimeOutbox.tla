--------------------------- MODULE RealtimeOutbox ---------------------------
(***************************************************************************)
(* The outgoing queue of the web client: queueMessage, flushMessageQueue   *)
(* and emitWithAck of src/frontend/src/services/realtimeService.ts, with   *)
(* the connection events that start a flush.                               *)
(*                                                                         *)
(* A flush takes the whole queue and awaits the acknowledgement of one     *)
(* message after the other; several flushes may be under way.  JavaScript  *)
(* runs to completion, so an action is what happens from one event (user,  *)
(* socket or timer) to the next time everything is suspended.              *)
(*                                                                         *)
(* connect() on a socket that is not connected replaces it and leaves the  *)
(* old one, with all its handlers, to reconnect by itself: a stray.        *)
(***************************************************************************)
EXTENDS Naturals, Sequences

CONSTANTS
  M,           \* messages are submitted in the order 1..M: bounds a run
  MaxAttempts  \* 3

ASSUME OutboxAssumption == M \in Nat /\ MaxAttempts \in Nat \ {0}

Msgs == 1..M

VARIABLES
  next,       \* the next message to be submitted
  queue,      \* messageQueue
  flights,    \* for each flush under way, the messages it has not settled;
              \* the first one is emitted and awaits its acknowledgement
  attempts,   \* message.attempts
  delivered,  \* messages of 'messageDelivered' events
  failed,     \* messages of 'messageDeliveryFailed' events
  link,       \* this.socket: "none", "down" or "up"
  stray,      \* a replaced socket: "none", "down" or "up"
  online,     \* connectionState is CONNECTED
  air,        \* messages on their way to the server
  live,       \* awaited messages whose connection still stands
  received    \* history: messages the server received

linkVars == <<link, stray, online>>
vars == <<next, queue, flights, attempts, delivered, failed, linkVars, air, live, received>>

Init ==
  /\ next = 1
  /\ queue = <<>>
  /\ flights = {}
  /\ attempts = [m \in Msgs |-> 0]
  /\ delivered = {}
  /\ failed = {}
  /\ link = "none"
  /\ stray = "none"
  /\ online = FALSE
  /\ air = {}
  /\ live = {}
  /\ received = {}

-----------------------------------------------------------------------------
Elems(s) == {s[i] : i \in 1..Len(s)}

(* Mutation of Taken: the queue is not emptied by the flush.               *)
TakenKept(q) == q

(* What a flush of the queue q leaves in it.                               *)
Taken(q) == <<>>

(* flushMessageQueue, up to its first await, given that the queue is q,    *)
(* the flushes under way fs, and the connection up.                        *)
Flush(q, fs) ==
  IF q = <<>>
    THEN queue' = q /\ flights' = fs /\ UNCHANGED <<air, live>>
    ELSE /\ queue' = Taken(q)
         /\ flights' = fs \cup {q}
         /\ air' = air \cup {Head(q)}
         /\ live' = live \cup {Head(q)}

(* queueMessage: the message is flushed at once, with what is in the queue *)
(* already, if the socket is connected.                                    *)
QueueMessage ==
  /\ next \in Msgs
  /\ next' = next + 1
  /\ \/ link = "up" /\ Flush(Append(queue, next), flights)
     \/ link # "up" /\ queue' = Append(queue, next) /\ UNCHANGED <<flights, air, live>>
  /\ UNCHANGED <<attempts, delivered, failed, linkVars, received>>

(* Mutations of Retries and Count: <= instead of <; attempts not counted.  *)
RetriesOneMore(m) == attempts[m] < MaxAttempts
CountNothing(ms)  == attempts

(* message.attempts < 3, once this attempt is counted.                     *)
Retries(m) == attempts[m] + 1 < MaxAttempts

(* The attempts after each message of ms has failed once more.             *)
Count(ms) == [m \in Msgs |-> IF m \in Elems(ms) THEN attempts[m] + 1 ELSE attempts[m]]

(* The catch clause for the messages ms, one after the other.              *)
Miss(ms) ==
  /\ attempts' = Count(ms)
  /\ failed' = failed \cup {m \in Elems(ms) : ~Retries(m)}

(* Those of the messages ms that go back into the queue, in their order.   *)
Requeued(ms) ==
  LET kept[i \in 0..Len(ms)] ==
        IF i = 0 THEN <<>>
        ELSE IF Retries(ms[i]) THEN Append(kept[i - 1], ms[i]) ELSE kept[i - 1]
  IN  kept[Len(ms)]

(* The promise of the first message of the flush f is settled.  The flush  *)
(* goes on to its next message; when the socket is not connected,          *)
(* emitWithAck throws at once for every message that is left.              *)
Settle(f, missed) ==
  LET rest == Tail(f)
      lost == missed \o (IF link = "up" THEN <<>> ELSE rest)
  IN  /\ Miss(lost)
      /\ queue' = queue \o Requeued(lost)
      /\ IF link = "up" /\ rest # <<>>
           THEN /\ flights' = (flights \ {f}) \cup {rest}
                /\ air' = air \cup {Head(rest)}
                /\ live' = (live \ {Head(f)}) \cup {Head(rest)}
           ELSE /\ flights' = flights \ {f}
                /\ live' = live \ {Head(f)}
                /\ UNCHANGED air
      /\ UNCHANGED <<next, linkVars, received>>

(* The server has received this emission of m, and can still answer it.    *)
Answered(m) == m \in live /\ m \notin air

(* The acknowledgement arrives: resolve, 'messageDelivered'.               *)
Ack(f) ==
  /\ Answered(Head(f))
  /\ delivered' = delivered \cup {Head(f)}
  /\ Settle(f, <<>>)

(* The response carries an error.                                          *)
Refused(f) ==
  /\ Answered(Head(f))
  /\ Settle(f, <<Head(f)>>)
  /\ UNCHANGED delivered

(* The timer of emitWithAck fires.  The emission may still arrive.         *)
AckTimeout(f) ==
  /\ Settle(f, <<Head(f)>>)
  /\ UNCHANGED delivered

(* The server receives a message.                                          *)
Receive(m) ==
  /\ m \in air
  /\ air' = air \ {m}
  /\ received' = received \cup {m}
  /\ UNCHANGED <<next, queue, flights, attempts, delivered, failed, linkVars, live>>

-----------------------------------------------------------------------------
(* Mutation of Announce: nothing is flushed.                               *)
AnnounceOnly == online' = TRUE /\ UNCHANGED <<queue, flights, air, live>>

(* updateConnectionState(CONNECTED): only a change of state flushes, and   *)
(* only if this.socket is the one that is connected.                       *)
Announce ==
  /\ online' = TRUE
  /\ IF ~online /\ link' = "up" THEN Flush(queue, flights)
                                ELSE UNCHANGED <<queue, flights, air, live>>

messages == <<next, attempts, delivered, failed, received>>

(* connect(): a socket that is not connected is replaced.  At most one is  *)
(* abandoned in a run.                                                     *)
Connect ==
  /\ link # "up"
  /\ link = "down" => stray = "none"
  /\ stray' = IF link = "down" THEN "down" ELSE stray
  /\ link' = "down"
  /\ online' = FALSE
  /\ UNCHANGED <<messages, queue, flights, air, live>>

(* disconnect(): the current socket and its handlers are gone.             *)
Disconnect ==
  /\ link # "none"
  /\ link' = "none"
  /\ online' = FALSE
  /\ air' = {}
  /\ live' = {}
  /\ UNCHANGED <<messages, queue, flights, stray>>

(* 'connect' of this.socket, by connect() or by socket.io's reconnection.  *)
SocketUp ==
  /\ link = "down"
  /\ link' = "up"
  /\ Announce
  /\ UNCHANGED <<messages, stray>>

(* 'disconnect' of this.socket: what is on its way is lost, and no answer  *)
(* comes any more.                                                         *)
SocketDown ==
  /\ link = "up"
  /\ link' = "down"
  /\ online' = FALSE
  /\ air' = {}
  /\ live' = {}
  /\ UNCHANGED <<messages, queue, flights, stray>>

(* The same events of a socket that connect() has replaced.                *)
StrayUp ==
  /\ stray = "down"
  /\ stray' = "up"
  /\ UNCHANGED link
  /\ Announce
  /\ UNCHANGED messages

StrayDown ==
  /\ stray = "up"
  /\ stray' = "down"
  /\ online' = FALSE
  /\ UNCHANGED <<messages, queue, flights, air, live, link>>

(* 'connect_error' of either socket, or the timeout of waitForConnection.  *)
(* The timer of a connect() that was followed by disconnect() fires as     *)
(* well; with this.socket up or gone that would change online alone, which *)
(* the next step that looks at it would find FALSE anyway.                 *)
ConnectError ==
  /\ link = "down" \/ stray = "down"
  /\ online' = FALSE
  /\ UNCHANGED <<messages, queue, flights, air, live, link, stray>>

Next ==
  \/ QueueMessage
  \/ \E f \in flights : Ack(f) \/ Refused(f) \/ AckTimeout(f)
  \/ \E m \in Msgs : Receive(m)
  \/ Connect \/ Disconnect \/ SocketUp \/ SocketDown
  \/ StrayUp \/ StrayDown \/ ConnectError

Spec == Init /\ [][Next]_vars

(* The timer of an awaited message fires unless it is answered first.  The *)
(* network and the user owe nothing.                                       *)
Settles(m) == \E f \in flights : Head(f) = m /\ (Ack(f) \/ Refused(f) \/ AckTimeout(f))
Fairness   == \A m \in Msgs : WF_vars(Settles(m))

FairSpec == Spec /\ Fairness

-----------------------------------------------------------------------------
InFlight == UNION {Elems(f) : f \in flights}
Pending  == (1..next - 1) \ (delivered \cup failed)

TypeOK ==
  /\ next \in 1..M + 1
  /\ queue \in Seq(Msgs)
  /\ \A f \in flights : f \in Seq(Msgs) /\ f # <<>>
  /\ attempts \in [Msgs -> 0..MaxAttempts]
  /\ delivered \subseteq Msgs
  /\ failed \subseteq Msgs
  /\ link \in {"none", "down", "up"}
  /\ stray \in {"none", "down", "up"}
  /\ online \in BOOLEAN
  /\ air \subseteq Msgs
  /\ live \subseteq Msgs
  /\ received \subseteq Msgs

(* However many flushes run at once, a message that is neither delivered   *)
(* nor given up is in the queue or in one flush, and there once: none is   *)
(* lost between two flushes, and none is emitted by two of them.           *)
OnePlace ==
  /\ Pending = Elems(queue) \cup InFlight
  /\ Elems(queue) \cap InFlight = {}
  /\ \A f, g \in flights : f # g => Elems(f) \cap Elems(g) = {}
  /\ \A s \in flights \cup {queue} : \A i, n \in 1..Len(s) : s[i] = s[n] => i = n

(* As long as connect() has replaced no socket, no message waits untried   *)
(* while the connection is up: what was queued offline went out with it.   *)
NothingWaitsUntried ==
  link = "up" /\ stray = "none" => \A m \in Elems(queue) : attempts[m] > 0

(* No attempt is in vain: a message that leaves the flushes was reported,  *)
(* or has one attempt less to go, of which there are MaxAttempts.          *)
FlightsUseAttempts ==
  [][\A m \in InFlight \ InFlight' :
       m \in delivered' \cup failed' \/ attempts'[m] = attempts[m] + 1]_vars

(* With a connection that keeps coming back, every message is delivered or *)
(* reported as failed in the end.                                          *)
EveryoneIsTold ==
  []<>(link = "up") /\ []<>(link = "down") /\ [](stray = "none")
    => \A m \in Msgs : m \in Pending ~> m \in delivered \cup failed

Fate == [m \in Msgs |-> CASE m >= next -> "new"
                          [] m \in delivered -> "delivered"
                          [] m \in failed -> "failed"
                          [] OTHER -> "pending"]

(* The outbox keeps what AckedChannel promises.                            *)
Channel == INSTANCE AckedChannel WITH fate <- Fate

ImplementsChannel == Channel!Spec

(* The only ways out of the queue are the submission of another message    *)
(* and a change of the connection state to CONNECTED: while neither        *)
(* happens, what was put back for a retry stays where it is, however long  *)
(* the connection lasts.                                                   *)
OnlyFlushesEmptyQueue ==
  [][\A m \in Elems(queue) \ Elems(queue') : next' = next + 1 \/ (~online /\ online')]_vars

-----------------------------------------------------------------------------
(* What the comments say and the code does not do.                         *)

(* "Re-queue for retry": a message put back in the queue is tried again    *)
(* while the connection lasts.                                             *)
RequeuedIsRetried ==
  \A m \in Msgs : m \in Elems(queue) /\ link = "up" ~> m \notin Elems(queue) \/ link # "up"

=============================================================================
