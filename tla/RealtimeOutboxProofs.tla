------------------------ MODULE RealtimeOutboxProofs ------------------------
(***************************************************************************)
(* The safety properties of RealtimeOutbox, and that it implements         *)
(* AckedChannel, for any number of messages and of attempts.               *)
(***************************************************************************)
EXTENDS RealtimeOutbox, WellFoundedInduction, TLAPS

(* A set of numbers that is not empty has a least one.                     *)
LEMMA LeastNumber ==
  ASSUME NEW T, T \subseteq Nat, T # {}
  PROVE  \E x \in T : \A y \in T : x <= y
<1> DEFINE R == {p \in Nat \X Nat : p[1] < p[2]}
<1>1. IsWellFoundedOn(R, Nat)
  BY NatLessThanWellFounded, Zenon DEF OpToRel
<1>2. \E x \in T : \A y \in T : <<y, x>> \notin R
  <2> HIDE DEF R
  <2> QED
    BY <1>1, WFMin, Zenon
<1>3. PICK x \in T : \A y \in T : <<y, x>> \notin R
  BY <1>2
<1>4. ASSUME NEW y \in T
      PROVE  x <= y
  <2>1. <<y, x>> \notin R /\ <<y, x>> \in Nat \X Nat
    BY <1>3, <1>4
  <2>2. ~ (y < x)
    BY <2>1
  <2> QED
    BY <2>2, <1>3
<1> QED
  BY <1>4

(* Induction, for a property that is given as the set of numbers that      *)
(* have it.                                                                *)
LEMMA NumberInduction ==
  ASSUME NEW P, 0 \in P, \A n \in P \cap Nat : n + 1 \in P
  PROVE  Nat \subseteq P
<1> SUFFICES ASSUME Nat \ P # {}
             PROVE  FALSE
  OBVIOUS
<1>1. PICK x \in Nat \ P : \A y \in Nat \ P : x <= y
  BY LeastNumber
<1>2. x # 0 /\ x - 1 \in Nat /\ x - 1 \in P
  BY <1>1
<1>3. (x - 1) + 1 \in P
  BY <1>2
<1> QED
  BY <1>1, <1>2, <1>3

-----------------------------------------------------------------------------
(* No message is twice in s.                                               *)
Distinct(s) == \A i, n \in 1..Len(s) : s[i] = s[n] => i = n

LEMMA AppendElems ==
  ASSUME NEW s \in Seq(Msgs), NEW m \in Msgs
  PROVE  /\ Append(s, m) \in Seq(Msgs)
         /\ Append(s, m) # <<>>
         /\ Elems(Append(s, m)) = Elems(s) \cup {m}
         /\ Distinct(s) /\ m \notin Elems(s) => Distinct(Append(s, m))
BY DEF Elems, Distinct

LEMMA ConcatElems ==
  ASSUME NEW s \in Seq(Msgs), NEW t \in Seq(Msgs)
  PROVE  /\ s \o t \in Seq(Msgs)
         /\ Elems(s \o t) = Elems(s) \cup Elems(t)
         /\ Distinct(s) /\ Distinct(t) /\ Elems(s) \cap Elems(t) = {} => Distinct(s \o t)
<1> USE DEF Elems, Distinct
<1>1. s \o t \in Seq(Msgs)
  OBVIOUS
<1>2. \A i \in 1..Len(s \o t) : \/ i \in 1..Len(s) /\ (s \o t)[i] = s[i]
                                \/ i - Len(s) \in 1..Len(t) /\ (s \o t)[i] = t[i - Len(s)]
  OBVIOUS
<1>3. Elems(s \o t) \subseteq Elems(s) \cup Elems(t)
  BY <1>2
<1>4. \A i \in 1..Len(s) : i \in 1..Len(s \o t) /\ (s \o t)[i] = s[i]
  OBVIOUS
<1>5. \A i \in 1..Len(t) : i + Len(s) \in 1..Len(s \o t) /\ (s \o t)[i + Len(s)] = t[i]
  OBVIOUS
<1>6. Elems(s) \cup Elems(t) \subseteq Elems(s \o t)
  BY <1>4, <1>5
<1>7. ASSUME Distinct(s), Distinct(t), Elems(s) \cap Elems(t) = {}
      PROVE  Distinct(s \o t)
  <2> SUFFICES ASSUME NEW i \in 1..Len(s \o t), NEW n \in 1..Len(s \o t),
                      (s \o t)[i] = (s \o t)[n]
               PROVE  i = n
    OBVIOUS
  <2> DEFINE InS(k) == k \in 1..Len(s) /\ (s \o t)[k] = s[k]
             InT(k) == k - Len(s) \in 1..Len(t) /\ (s \o t)[k] = t[k - Len(s)]
  <2>1. (InS(i) \/ InT(i)) /\ (InS(n) \/ InT(n))
    BY <1>2
  <2>2. i \in Int /\ n \in Int /\ Len(s) \in Int
    OBVIOUS
  <2>3. CASE InS(i) /\ InS(n)
    BY <1>7, <2>3
  <2>4. CASE InT(i) /\ InT(n)
    <3>1. i - Len(s) = n - Len(s)
      BY <1>7, <2>4
    <3> QED
      BY <2>2, <3>1
  <2>5. \A k : InS(k) => (s \o t)[k] \in Elems(s)
    OBVIOUS
  <2>6. \A k : InT(k) => (s \o t)[k] \in Elems(t)
    OBVIOUS
  <2>7. (s \o t)[i] \notin Elems(s) \cap Elems(t)
    BY <1>7
  <2> HIDE DEF InS, InT, Elems, Distinct
  <2> QED
    BY <2>1, <2>3, <2>4, <2>5, <2>6, <2>7
<1> QED
  BY <1>1, <1>3, <1>6, <1>7

LEMMA TailElems ==
  ASSUME NEW s \in Seq(Msgs), s # <<>>
  PROVE  /\ Head(s) \in Msgs
         /\ Tail(s) \in Seq(Msgs)
         /\ Elems(s) = {Head(s)} \cup Elems(Tail(s))
         /\ Distinct(s) => Distinct(Tail(s)) /\ Head(s) \notin Elems(Tail(s))
<1> USE DEF Elems, Distinct
<1>1. Len(s) \in Nat \ {0} /\ Head(s) = s[1] /\ Tail(s) \in Seq(Msgs) /\ Len(Tail(s)) = Len(s) - 1
  OBVIOUS
<1>2. \A i \in 1..Len(Tail(s)) : i + 1 \in 1..Len(s) /\ Tail(s)[i] = s[i + 1]
  OBVIOUS
<1>3. \A i \in 1..Len(s) : i = 1 \/ (i - 1 \in 1..Len(Tail(s)) /\ Tail(s)[i - 1] = s[i])
  OBVIOUS
<1>4. Elems(s) = {Head(s)} \cup Elems(Tail(s))
  <2>1. \A i \in 1..Len(s) : s[i] \in {Head(s)} \cup Elems(Tail(s))
    BY <1>1, <1>3
  <2>2. \A i \in 1..Len(Tail(s)) : Tail(s)[i] \in Elems(s)
    BY <1>2
  <2>3. Head(s) \in Elems(s)
    BY <1>1
  <2> QED
    BY ONLY <2>1, <2>2, <2>3 DEF Elems
<1>5. ASSUME Distinct(s)
      PROVE  Distinct(Tail(s)) /\ Head(s) \notin Elems(Tail(s))
  BY <1>1, <1>2, <1>5
<1> QED
  BY <1>1, <1>4, <1>5

LEMMA EmptyElems == <<>> \in Seq(Msgs) /\ Elems(<<>>) = {} /\ Distinct(<<>>)
BY DEF Elems, Distinct

LEMMA SingleElems ==
  ASSUME NEW m \in Msgs
  PROVE  <<m>> \in Seq(Msgs) /\ Elems(<<m>>) = {m} /\ Distinct(<<m>>)
BY DEF Elems, Distinct

-----------------------------------------------------------------------------
(* f is the function that Requeued(ms) defines by recursion.               *)
Keeps(f, ms, n) ==
  f = [i \in 0..n |->
         IF i = 0 THEN <<>>
         ELSE IF Retries(ms[i]) THEN Append(f[i - 1], ms[i]) ELSE f[i - 1]]

(* The recursion of Requeued has a solution.                               *)
LEMMA KeepsExists ==
  ASSUME NEW ms \in Seq(Msgs)
  PROVE  \E f : Keeps(f, ms, Len(ms)) /\ Requeued(ms) = f[Len(ms)]
<1> DEFINE P == {n \in Nat : \E f : Keeps(f, ms, n)}
<1>1. 0 \in P
  <2>1. Keeps([i \in 0..0 |-> <<>>], ms, 0)
    BY DEF Keeps
  <2> QED
    BY <2>1
<1>2. ASSUME NEW n \in P \cap Nat
      PROVE  n + 1 \in P
  <2>1. PICK f : Keeps(f, ms, n)
    BY <1>2
  <2> DEFINE g == [i \in 0..n + 1 |->
                     IF i <= n THEN f[i]
                     ELSE IF Retries(ms[i]) THEN Append(f[n], ms[i]) ELSE f[n]]
  <2>2. \A i \in 0..n : f[i] = IF i = 0 THEN <<>>
                              ELSE IF Retries(ms[i]) THEN Append(f[i - 1], ms[i])
                              ELSE f[i - 1]
    BY <2>1, Zenon DEF Keeps
  <2>3. ASSUME NEW i \in 0..n + 1
        PROVE  g[i] = IF i = 0 THEN <<>>
                      ELSE IF Retries(ms[i]) THEN Append(g[i - 1], ms[i])
                      ELSE g[i - 1]
    <3>1. CASE i \in 0..n
      BY <2>2, <3>1
    <3>2. CASE i = n + 1
      BY <3>2
    <3> QED
      BY <3>1, <3>2
  <2>4. Keeps(g, ms, n + 1)
    <3> HIDE DEF g
    <3>1. g = [i \in 0..n + 1 |-> g[i]]
      BY DEF g
    <3> QED
      BY <2>3, <3>1, Zenon DEF Keeps
  <2> QED
    BY <2>4
<1>3. Len(ms) \in P
  <2> HIDE DEF P
  <2> QED
    BY <1>1, <1>2, NumberInduction
<1>4. \E f : Keeps(f, ms, Len(ms))
  BY <1>3
<1> QED
  BY <1>4 DEF Keeps, Requeued

(* What goes back into the queue are those messages that have an attempt   *)
(* left, each as often as it was missed.                                   *)
LEMMA RequeuedElems ==
  ASSUME NEW ms \in Seq(Msgs)
  PROVE  /\ Requeued(ms) \in Seq(Msgs)
         /\ Elems(Requeued(ms)) = {m \in Elems(ms) : Retries(m)}
         /\ Distinct(ms) => Distinct(Requeued(ms))
<1>1. PICK f : Keeps(f, ms, Len(ms)) /\ Requeued(ms) = f[Len(ms)]
  BY KeepsExists
<1> DEFINE First(n) == {ms[i] : i \in 1..n}
           Good(n) == /\ f[n] \in Seq(Msgs)
                      /\ Elems(f[n]) = {m \in First(n) : Retries(m)}
                      /\ Distinct(ms) => Distinct(f[n])
           P == {n \in Nat : n <= Len(ms) => Good(n)}
<1>2. 0 \in P
  <2>1. f[0] = <<>> /\ First(0) = {}
    BY <1>1 DEF Keeps
  <2>2. Good(0)
    BY <2>1, EmptyElems
  <2> QED
    BY <2>2
<1>3. ASSUME NEW n \in P \cap Nat
      PROVE  n + 1 \in P
  <2> SUFFICES ASSUME n + 1 <= Len(ms)
               PROVE  Good(n + 1)
    OBVIOUS
  <2>1. Good(n) /\ n + 1 \in 1..Len(ms) /\ ms[n + 1] \in Msgs
    BY <1>3
  <2>2. f[n + 1] = IF Retries(ms[n + 1]) THEN Append(f[n], ms[n + 1]) ELSE f[n]
    <3>1. n + 1 \in 0..Len(ms) /\ n + 1 # 0 /\ (n + 1) - 1 = n
      BY <2>1
    <3>2. f[n + 1] = IF Retries(ms[n + 1]) THEN Append(f[(n + 1) - 1], ms[n + 1])
                     ELSE f[(n + 1) - 1]
      BY <1>1, <3>1, Zenon DEF Keeps
    <3> QED
      BY <3>1, <3>2
  <2>3. First(n + 1) = First(n) \cup {ms[n + 1]}
    OBVIOUS
  <2>4. Distinct(ms) => ms[n + 1] \notin First(n)
    BY <2>1 DEF Distinct
  <2> HIDE DEF First
  <2>5. CASE Retries(ms[n + 1])
    BY <2>1, <2>2, <2>3, <2>4, <2>5, AppendElems
  <2>6. CASE ~Retries(ms[n + 1])
    BY <2>1, <2>2, <2>3, <2>6
  <2> QED
    BY <2>5, <2>6
<1>4. Good(Len(ms))
  <2>1. Len(ms) \in P
    <3> HIDE DEF P
    <3> QED
      BY <1>2, <1>3, NumberInduction
  <2> QED
    BY <2>1
<1> QED
  BY <1>1, <1>4 DEF Elems

-----------------------------------------------------------------------------
(* A message is reported once, as delivered or as failed, and only after   *)
(* it was submitted.                                                       *)
ToldOnce ==
  /\ delivered \cup failed \subseteq 1..next - 1
  /\ delivered \cap failed = {}

(* The last attempt is reported as it fails, so every message that has no  *)
(* report has an attempt left: this bounds the attempts.                   *)
AttemptLeft == \A m \in Msgs \ (delivered \cup failed) : attempts[m] < MaxAttempts

(* A message that can be acknowledged is on its way or has arrived, so an  *)
(* acknowledgement tells the truth.                                        *)
LiveWasSent ==
  /\ live \subseteq air \cup received
  /\ air \subseteq 1..next - 1

(* Without a stray, connectionState does not say CONNECTED for a socket    *)
(* that is not: the next connect event is a change of state, and flushes.  *)
DownIsOffline == link # "up" /\ stray = "none" => ~online

IInv ==
  /\ TypeOK
  /\ OnePlace
  /\ NothingWaitsUntried
  /\ ToldOnce
  /\ AttemptLeft
  /\ LiveWasSent
  /\ DownIsOffline

-----------------------------------------------------------------------------
(* All messages of the flushes fs; InFlight is All(flights).               *)
All(fs) == UNION {Elems(f) : f \in fs}

Typed(q, fs) ==
  /\ q \in Seq(Msgs)
  /\ \A f \in fs : f \in Seq(Msgs) /\ f # <<>>

Apart(q, fs) ==
  /\ Elems(q) \cap All(fs) = {}
  /\ \A f, g \in fs : f # g => Elems(f) \cap Elems(g) = {}
  /\ \A s \in fs \cup {q} : Distinct(s)

LEMMA OnePlaceParts ==
  OnePlace <=> Pending = Elems(queue) \cup All(flights) /\ Apart(queue, flights)
BY DEF OnePlace, InFlight, All, Apart, Distinct

LEMMA OnePlacePartsNext ==
  OnePlace' <=> Pending' = Elems(queue') \cup All(flights') /\ Apart(queue', flights')
BY DEF OnePlace, InFlight, All, Apart, Distinct

(* A flush moves the whole queue to a place of its own.                    *)
LEMMA FlushFacts ==
  ASSUME NEW q, NEW fs, Typed(q, fs), Apart(q, fs), Flush(q, fs)
  PROVE  /\ Typed(queue', flights')
         /\ Apart(queue', flights')
         /\ queue' = <<>>
         /\ All(flights') = Elems(q) \cup All(fs)
         /\ air' \subseteq air \cup Elems(q)
         /\ air \subseteq air'
         /\ live' \subseteq live \cup air'
<1>1. CASE q = <<>>
  BY <1>1, EmptyElems DEF Flush, Typed
<1>2. CASE q # <<>>
  <2>1. /\ queue' = <<>>
        /\ flights' = fs \cup {q}
        /\ air' = air \cup {Head(q)}
        /\ live' = live \cup {Head(q)}
    BY <1>2 DEF Flush, Taken
  <2>2. All(flights') = Elems(q) \cup All(fs)
    BY <2>1 DEF All
  <2>3. Head(q) \in Elems(q)
    BY <1>2, TailElems DEF Typed
  <2>4. \A f \in fs : Elems(f) \subseteq All(fs)
    BY DEF All
  <2>5. Apart(queue', flights')
    BY <2>1, <2>4, EmptyElems DEF Apart
  <2>6. Typed(queue', flights')
    BY <1>2, <2>1 DEF Typed
  <2> QED
    BY <2>1, <2>2, <2>3, <2>5, <2>6
<1> QED
  BY <1>1, <1>2

(* The messages that fail when the flush f goes on: missed is its first    *)
(* one or nothing, and all that are left fail with a socket that is down.  *)
Lost(f, missed) == missed \o (IF link = "up" THEN <<>> ELSE Tail(f))

(* The messages that stay in the flush f.                                  *)
Stay(f) == IF link = "up" THEN Elems(Tail(f)) ELSE {}

LEMMA LostElems ==
  ASSUME NEW f \in Seq(Msgs), f # <<>>, Distinct(f),
         NEW missed \in {<<>>, <<Head(f)>>}
  PROVE  /\ Lost(f, missed) \in Seq(Msgs)
         /\ Elems(Lost(f, missed)) = Elems(missed) \cup (Elems(Tail(f)) \ Stay(f))
         /\ Distinct(Lost(f, missed))
         /\ Elems(missed) \subseteq {Head(f)}
<1>1. /\ Head(f) \in Msgs
      /\ Tail(f) \in Seq(Msgs)
      /\ Distinct(Tail(f))
      /\ Head(f) \notin Elems(Tail(f))
  BY TailElems
<1>2. /\ missed \in Seq(Msgs)
      /\ Elems(missed) \subseteq {Head(f)}
      /\ Distinct(missed)
  <2>1. CASE missed = <<>>
    BY <2>1, EmptyElems
  <2>2. CASE missed = <<Head(f)>>
    BY <1>1, <2>2, SingleElems
  <2> QED
    BY <2>1, <2>2
<1>3. \A t \in {<<>>, Tail(f)} : /\ t \in Seq(Msgs)
                                 /\ Distinct(t)
                                 /\ Elems(t) \subseteq Elems(Tail(f))
  BY <1>1, EmptyElems, Zenon
<1>4. PICK t \in {<<>>, Tail(f)} : t = (IF link = "up" THEN <<>> ELSE Tail(f))
  OBVIOUS
<1>5. Elems(t) = Elems(Tail(f)) \ Stay(f)
  BY <1>4, EmptyElems DEF Stay
<1>6. Elems(missed) \cap Elems(t) = {}
  BY <1>1, <1>2, <1>3
<1>7. /\ missed \o t \in Seq(Msgs)
      /\ Elems(missed \o t) = Elems(missed) \cup Elems(t)
      /\ Distinct(missed \o t)
  <2>1. t \in Seq(Msgs) /\ Distinct(t)
    BY <1>3
  <2> QED
    BY <1>2, <1>6, <2>1, ConcatElems
<1> QED
  BY <1>2, <1>4, <1>5, <1>7 DEF Lost

(* A flush that goes on: what it keeps stays in flight, what is missed     *)
(* goes back into the queue or is given up, and everything else stays      *)
(* where it is.                                                            *)
LEMMA SettleFacts ==
  ASSUME Typed(queue, flights), Apart(queue, flights), NEW f \in flights,
         NEW missed \in {<<>>, <<Head(f)>>}, Settle(f, missed)
  PROVE  LET lost == Elems(Lost(f, missed))
         IN  /\ Typed(queue', flights')
             /\ Apart(queue', flights')
             /\ Elems(queue') = Elems(queue) \cup {m \in lost : Retries(m)}
             /\ All(flights') = (All(flights) \ Elems(f)) \cup Stay(f)
             /\ attempts' = [m \in Msgs |-> IF m \in lost THEN attempts[m] + 1
                                            ELSE attempts[m]]
             /\ failed' = failed \cup {m \in lost : ~Retries(m)}
             /\ air' \subseteq air \cup Stay(f)
             /\ air \subseteq air'
             /\ live' \subseteq live \cup air'
<1> DEFINE lost == Elems(Lost(f, missed))
           back == Requeued(Lost(f, missed))
<1>1. f \in Seq(Msgs) /\ f # <<>> /\ Distinct(f)
  BY DEF Typed, Apart
<1>2. /\ Tail(f) \in Seq(Msgs)
      /\ Elems(f) = {Head(f)} \cup Elems(Tail(f))
      /\ Head(f) \notin Elems(Tail(f))
      /\ Distinct(Tail(f))
  BY <1>1, TailElems
<1>3. /\ Lost(f, missed) \in Seq(Msgs)
      /\ lost = Elems(missed) \cup (Elems(Tail(f)) \ Stay(f))
      /\ Distinct(Lost(f, missed))
      /\ Elems(missed) \subseteq {Head(f)}
  BY <1>1, LostElems
<1>4. /\ back \in Seq(Msgs)
      /\ Elems(back) = {m \in lost : Retries(m)}
      /\ Distinct(back)
  BY <1>3, RequeuedElems
<1>5. queue' = queue \o back
  BY DEF Settle, Lost
<1>6. Elems(f) \subseteq All(flights) /\ Stay(f) \subseteq Elems(Tail(f))
  BY DEF All, Stay
<1>7. Elems(queue) \cap Elems(back) = {}
  BY <1>2, <1>3, <1>4, <1>6 DEF Apart
<1>8. /\ queue' \in Seq(Msgs)
      /\ Elems(queue') = Elems(queue) \cup Elems(back)
      /\ Distinct(queue')
  BY <1>4, <1>5, <1>7, ConcatElems DEF Typed, Apart
<1>9. \A g \in flights \ {f} : Elems(g) \cap Elems(f) = {} /\ Elems(g) \subseteq All(flights)
  BY DEF Apart, All
<1>10. All(flights \ {f}) = All(flights) \ Elems(f)
  BY <1>9 DEF All
<1>11. CASE link = "up" /\ Tail(f) # <<>>
  <2>1. /\ flights' = (flights \ {f}) \cup {Tail(f)}
        /\ air' = air \cup {Head(Tail(f))}
        /\ live' = (live \ {Head(f)}) \cup {Head(Tail(f))}
    BY <1>11 DEF Settle
  <2>2. Stay(f) = Elems(Tail(f)) /\ Head(Tail(f)) \in Elems(Tail(f))
    <3>1. Head(Tail(f)) \in Elems(Tail(f))
      <4>1. Tail(f) \in Seq(Msgs) /\ Tail(f) # <<>>
        BY <1>2, <1>11
      <4>2. Head(Tail(f)) = Tail(f)[1] /\ 1 \in 1..Len(Tail(f))
        BY ONLY <4>1
      <4> QED
        BY ONLY <4>2 DEF Elems
    <3> QED
      BY <1>11, <3>1 DEF Stay
  <2>3. All(flights') = All(flights \ {f}) \cup Elems(Tail(f))
    BY <2>1 DEF All
  <2>4. Typed(queue', flights')
    BY <1>2, <1>8, <1>11, <2>1 DEF Typed
  <2>5. Elems(back) \subseteq {Head(f)}
    BY <1>3, <1>4, <2>2
  <2>6. Elems(queue') \cap All(flights') = {}
    <3>1. Head(f) \notin All(flights')
      BY <1>2, <1>10, <2>3
    <3>2. All(flights') \subseteq All(flights)
      BY <1>2, <1>6, <1>10, <2>3
    <3> QED
      BY <1>8, <2>5, <3>1, <3>2 DEF Apart
  <2>7. \A g, h \in flights' : g # h => Elems(g) \cap Elems(h) = {}
    BY <1>2, <1>9, <2>1 DEF Apart
  <2>8. \A s \in flights' \cup {queue'} : Distinct(s)
    BY <1>2, <1>8, <2>1 DEF Apart
  <2>9. Apart(queue', flights')
    BY <2>6, <2>7, <2>8 DEF Apart
  <2> QED
    BY <1>4, <1>8, <1>10, <2>1, <2>2, <2>3, <2>4, <2>9 DEF Settle, Miss, Count, Lost
<1>12. CASE ~(link = "up" /\ Tail(f) # <<>>)
  <2>1. flights' = flights \ {f} /\ air' = air /\ live' = live \ {Head(f)}
    BY <1>12 DEF Settle
  <2>2. Stay(f) = {}
    BY <1>12, EmptyElems DEF Stay
  <2>3. Typed(queue', flights')
    BY <1>8, <2>1 DEF Typed
  <2>4. Elems(queue') \cap All(flights') = {}
    BY <1>2, <1>3, <1>4, <1>8, <1>10, <2>1 DEF Apart
  <2>5. Apart(queue', flights')
    BY <1>8, <2>1, <2>4 DEF Apart
  <2> QED
    BY <1>4, <1>8, <1>10, <2>1, <2>2, <2>3, <2>5 DEF Settle, Miss, Count, Lost
<1> QED
  BY <1>11, <1>12

(* Of the messages of a flush that goes on, one at most is done; the       *)
(* others are lost or stay.                                                *)
LEMMA FlightParts ==
  ASSUME NEW f \in Seq(Msgs), f # <<>>, Distinct(f),
         NEW missed \in {<<>>, <<Head(f)>>}
  PROVE  LET done == {Head(f)} \ Elems(missed)
             lost == Elems(Lost(f, missed))
         IN  /\ Elems(f) = done \cup lost \cup Stay(f)
             /\ done \cap lost = {} /\ done \cap Stay(f) = {} /\ lost \cap Stay(f) = {}
<1>1. /\ Elems(f) = {Head(f)} \cup Elems(Tail(f))
      /\ Head(f) \notin Elems(Tail(f))
  BY TailElems
<1>2. /\ Elems(Lost(f, missed)) = Elems(missed) \cup (Elems(Tail(f)) \ Stay(f))
      /\ Elems(missed) \subseteq {Head(f)}
  BY LostElems
<1>3. Stay(f) \subseteq Elems(Tail(f))
  BY DEF Stay
<1> QED
  BY <1>1, <1>2, <1>3

(* The three ways an awaited attempt ends.                                 *)
Ends(f) == Ack(f) \/ Refused(f) \/ AckTimeout(f)

LEMMA EndsSettle ==
  ASSUME NEW f \in flights, Ends(f)
  PROVE  \E missed \in {<<>>, <<Head(f)>>} :
           /\ Settle(f, missed)
           /\ delivered' = delivered \cup ({Head(f)} \ Elems(missed))
           /\ missed = <<>> => Answered(Head(f))
<1>1. CASE Ack(f)
  BY <1>1, EmptyElems DEF Ack
<1>2. CASE Refused(f) \/ AckTimeout(f)
  <2>1. Settle(f, <<Head(f)>>) /\ delivered' = delivered
    BY <1>2 DEF Refused, AckTimeout
  <2>2. {Head(f)} \ Elems(<<Head(f)>>) = {} /\ <<Head(f)>> # <<>>
    BY DEF Elems
  <2> QED
    BY <2>1, <2>2
<1> QED
  BY <1>1, <1>2 DEF Ends

-----------------------------------------------------------------------------
LEMMA InitInv == Init => IInv
<1> SUFFICES ASSUME Init
             PROVE  IInv
  OBVIOUS
<1> USE OutboxAssumption DEF Init, Msgs
<1>1. Elems(queue) = {} /\ InFlight = {} /\ Pending = {}
  BY EmptyElems DEF InFlight, Pending
<1>2. OnePlace
  BY <1>1, EmptyElems DEF OnePlace
<1>3. TypeOK
  <2>1. queue \in Seq(Msgs) /\ next \in 1..M + 1
    BY EmptyElems
  <2>2. attempts \in [Msgs -> 0..MaxAttempts]
    OBVIOUS
  <2> QED
    BY <2>1, <2>2 DEF TypeOK
<1>4. NothingWaitsUntried /\ AttemptLeft /\ DownIsOffline
  BY DEF NothingWaitsUntried, AttemptLeft, DownIsOffline
<1>5. ToldOnce /\ LiveWasSent
  BY DEF ToldOnce, LiveWasSent
<1> QED
  BY <1>2, <1>3, <1>4, <1>5 DEF IInv

LEMMA QueueMessageInv ==
  ASSUME IInv, QueueMessage
  PROVE  IInv'
<1> USE OutboxAssumption DEF IInv, Msgs
<1>1. /\ next \in 1..M /\ next' = next + 1
      /\ UNCHANGED <<attempts, delivered, failed, linkVars, received>>
  BY DEF QueueMessage
<1>2. Typed(queue, flights) /\ Apart(queue, flights)
  BY OnePlaceParts DEF Typed, TypeOK
<1>3. Pending = Elems(queue) \cup All(flights)
  BY OnePlaceParts
<1>4. next \notin Pending /\ Pending' = Pending \cup {next}
  BY <1>1 DEF Pending, ToldOnce, TypeOK
<1> DEFINE q == Append(queue, next)
<1>5. /\ q \in Seq(Msgs) /\ q # <<>>
      /\ Elems(q) = Elems(queue) \cup {next}
      /\ Distinct(q)
  BY <1>1, <1>2, <1>3, <1>4, AppendElems DEF Typed, Apart
<1>6. Typed(q, flights) /\ Apart(q, flights)
  BY <1>2, <1>3, <1>4, <1>5 DEF Typed, Apart
<1> HIDE DEF q
<1>7. CASE link = "up" /\ Flush(q, flights)
  <2>1. /\ Typed(queue', flights') /\ Apart(queue', flights')
        /\ queue' = <<>> /\ Elems(queue') = {}
        /\ All(flights') = Elems(q) \cup All(flights)
        /\ air' \subseteq air \cup Elems(q)
        /\ air \subseteq air'
        /\ live' \subseteq live \cup air'
    BY <1>6, <1>7, FlushFacts, EmptyElems
  <2>2. OnePlace'
    BY <1>3, <1>4, <1>5, <2>1, OnePlacePartsNext
  <2>3. air' \subseteq 1..next' - 1 /\ live' \subseteq Msgs
    <3>1. Elems(q) \subseteq 1..next' - 1
      BY <1>1, <1>3, <1>4, <1>5 DEF Pending
    <3>2. 1..next' - 1 \subseteq Msgs /\ air \subseteq 1..next' - 1
      BY <1>1 DEF LiveWasSent
    <3> QED
      BY <2>1, <3>1, <3>2 DEF TypeOK
  <2>4. TypeOK'
    BY <1>1, <2>1, <2>3 DEF TypeOK, Typed, linkVars
  <2>5. NothingWaitsUntried'
    BY <2>1 DEF NothingWaitsUntried
  <2>6. LiveWasSent'
    BY <1>1, <2>1, <2>3 DEF LiveWasSent
  <2>7. ToldOnce' /\ AttemptLeft' /\ DownIsOffline'
    BY <1>1 DEF ToldOnce, AttemptLeft, DownIsOffline, linkVars, TypeOK
  <2> QED
    BY <2>2, <2>4, <2>5, <2>6, <2>7
<1>8. CASE link # "up" /\ queue' = q /\ UNCHANGED <<flights, air, live>>
  <2>1. OnePlace'
    BY <1>3, <1>4, <1>5, <1>6, <1>8, OnePlacePartsNext
  <2>2. TypeOK'
    BY <1>1, <1>5, <1>8 DEF TypeOK, linkVars
  <2>3. NothingWaitsUntried'
    BY <1>1, <1>8 DEF NothingWaitsUntried, linkVars
  <2>4. LiveWasSent' /\ ToldOnce' /\ AttemptLeft' /\ DownIsOffline'
    BY <1>1, <1>8 DEF LiveWasSent, ToldOnce, AttemptLeft, DownIsOffline, linkVars, TypeOK
  <2> QED
    BY <2>1, <2>2, <2>3, <2>4
<1> QED
  BY <1>7, <1>8 DEF QueueMessage, q

LEMMA EndsInv ==
  ASSUME IInv, NEW f \in flights, Ends(f)
  PROVE  IInv'
<1> USE OutboxAssumption DEF IInv, Msgs
<1>1. PICK missed \in {<<>>, <<Head(f)>>} :
        /\ Settle(f, missed)
        /\ delivered' = delivered \cup ({Head(f)} \ Elems(missed))
        /\ missed = <<>> => Answered(Head(f))
  BY EndsSettle
<1> DEFINE done == {Head(f)} \ Elems(missed)
           lost == Elems(Lost(f, missed))
<1>2. UNCHANGED <<next, linkVars, received>>
  BY <1>1 DEF Settle
<1>3. Typed(queue, flights) /\ Apart(queue, flights)
  BY OnePlaceParts DEF Typed, TypeOK
<1>4. Pending = Elems(queue) \cup All(flights)
  BY OnePlaceParts
<1>5. f \in Seq(Msgs) /\ f # <<>> /\ Distinct(f)
  BY <1>3 DEF Typed, Apart
<1>6. /\ Elems(f) = done \cup lost \cup Stay(f)
      /\ done \cap lost = {} /\ done \cap Stay(f) = {} /\ lost \cap Stay(f) = {}
  BY <1>5, FlightParts
<1>7. /\ Typed(queue', flights') /\ Apart(queue', flights')
      /\ Elems(queue') = Elems(queue) \cup {m \in lost : Retries(m)}
      /\ All(flights') = (All(flights) \ Elems(f)) \cup Stay(f)
      /\ attempts' = [m \in Msgs |-> IF m \in lost THEN attempts[m] + 1 ELSE attempts[m]]
      /\ failed' = failed \cup {m \in lost : ~Retries(m)}
      /\ air' \subseteq air \cup Stay(f) /\ air \subseteq air'
      /\ live' \subseteq live \cup air'
  BY <1>1, <1>3, SettleFacts
<1>8. Elems(f) \subseteq All(flights) /\ Elems(f) \cap Elems(queue) = {}
  BY <1>3 DEF All, Apart
<1>9. delivered' = delivered \cup done
  BY <1>1
<1> HIDE DEF done, lost
<1>10. Elems(f) \subseteq Pending /\ Pending \subseteq 1..next - 1 /\ 1..next - 1 \subseteq Msgs
  BY <1>4, <1>8 DEF Pending, TypeOK
<1>11. Pending' = Pending \ (done \cup {m \in lost : ~Retries(m)})
  BY <1>2, <1>7, <1>9 DEF Pending
<1>12. OnePlace'
  <2>1. Pending' = Elems(queue') \cup All(flights')
    BY <1>4, <1>6, <1>7, <1>8, <1>11
  <2> QED
    BY <1>7, <2>1, OnePlacePartsNext
<1>13. ToldOnce'
  <2>1. done \cup lost \subseteq Pending /\ done \cap lost = {}
    BY <1>6, <1>10
  <2>2. Pending \cap (delivered \cup failed) = {}
    BY DEF Pending
  <2> QED
    BY <1>2, <1>7, <1>9, <1>10, <2>1, <2>2 DEF ToldOnce
<1>14. \A m \in lost : m \in Msgs /\ attempts[m] \in 0..MaxAttempts - 1
  <2>1. lost \subseteq Msgs \ (delivered \cup failed)
    BY <1>6, <1>10 DEF Pending
  <2> QED
    BY <2>1 DEF AttemptLeft, TypeOK
<1>15. attempts' \in [Msgs -> 0..MaxAttempts]
  BY <1>7, <1>14 DEF TypeOK
<1>16. TypeOK'
  <2>1. done \cup lost \cup Stay(f) \subseteq Msgs
    BY <1>6, <1>10
  <2>2. delivered' \subseteq Msgs /\ failed' \subseteq Msgs /\ air' \subseteq Msgs /\ live' \subseteq Msgs
    BY <1>7, <1>9, <2>1 DEF TypeOK
  <2> QED
    BY <1>2, <1>7, <1>15, <2>2 DEF TypeOK, Typed, linkVars
<1>17. NothingWaitsUntried'
  <2>1. \A m \in lost : attempts'[m] > 0
    BY <1>7, <1>14
  <2>2. \A m \in Elems(queue) : m \in Msgs /\ attempts'[m] >= attempts[m] /\ attempts[m] \in Nat
    BY <1>4, <1>7, <1>10 DEF TypeOK
  <2>3. link' = link /\ stray' = stray
    BY <1>2 DEF linkVars
  <2> SUFFICES ASSUME link = "up", stray = "none", NEW m \in Elems(queue')
               PROVE  attempts'[m] > 0
    BY <2>3 DEF NothingWaitsUntried
  <2>4. CASE m \in lost
    BY <2>1, <2>4
  <2>5. CASE m \in Elems(queue)
    <3>1. attempts[m] > 0
      BY <2>5 DEF NothingWaitsUntried
    <3>2. attempts'[m] >= attempts[m] /\ attempts[m] \in Nat /\ attempts'[m] \in Nat
      BY <1>10, <1>4, <1>15, <2>2, <2>5
    <3> QED
      BY <3>1, <3>2
  <2> QED
    BY <1>7, <2>4, <2>5
<1>18. AttemptLeft'
  <2> SUFFICES ASSUME NEW m \in Msgs, m \notin delivered', m \notin failed'
               PROVE  attempts'[m] < MaxAttempts
    BY DEF AttemptLeft
  <2>1. m \notin delivered /\ m \notin failed
    BY <1>7, <1>9
  <2>2. CASE m \in lost
    BY <1>7, <2>2 DEF Retries
  <2>3. CASE m \notin lost
    BY <1>7, <2>1, <2>3 DEF AttemptLeft
  <2> QED
    BY <2>2, <2>3
<1>19. LiveWasSent'
  BY <1>2, <1>6, <1>7, <1>10 DEF LiveWasSent
<1>20. DownIsOffline'
  BY <1>2 DEF DownIsOffline, linkVars
<1> QED
  BY <1>12, <1>13, <1>16, <1>17, <1>18, <1>19, <1>20

LEMMA ReceiveInv ==
  ASSUME IInv, NEW m \in Msgs, Receive(m)
  PROVE  IInv'
<1>1. /\ m \in air /\ air' = air \ {m} /\ received' = received \cup {m}
      /\ UNCHANGED <<next, queue, flights, attempts, delivered, failed, linkVars, live>>
  BY DEF Receive
<1>2. TypeOK'
  BY <1>1 DEF IInv, TypeOK, linkVars
<1>3. OnePlace' /\ NothingWaitsUntried'
  BY <1>1 DEF IInv, OnePlace, Pending, InFlight, NothingWaitsUntried, linkVars
<1>4. ToldOnce' /\ AttemptLeft' /\ LiveWasSent' /\ DownIsOffline'
  BY <1>1 DEF IInv, ToldOnce, AttemptLeft, LiveWasSent, DownIsOffline, linkVars
<1> QED
  BY <1>2, <1>3, <1>4 DEF IInv

(* An event of a socket that moves no message: what was on its way may be  *)
(* lost.                                                                   *)
LEMMA LinkInv ==
  ASSUME IInv,
         Connect \/ Disconnect \/ SocketDown \/ StrayDown \/ ConnectError \/ UNCHANGED vars
  PROVE  IInv'
<1>1. /\ UNCHANGED <<next, queue, flights, attempts, delivered, failed, received>>
      /\ UNCHANGED <<air, live>> \/ (air' = {} /\ live' = {})
  BY DEF Connect, Disconnect, SocketDown, StrayDown, ConnectError, messages, vars
<1>2. /\ link' \in {link, "none", "down"}
      /\ stray' = stray \/ stray' = "down"
      /\ ~online' \/ (link' = link /\ stray' = stray /\ online' = online)
  BY DEF Connect, Disconnect, SocketDown, StrayDown, ConnectError, vars, linkVars
<1>3. online' \in BOOLEAN
  BY DEF Connect, Disconnect, SocketDown, StrayDown, ConnectError, vars, linkVars, IInv, TypeOK
<1>4. TypeOK'
  BY <1>1, <1>2, <1>3 DEF IInv, TypeOK
<1>5. OnePlace' /\ ToldOnce' /\ AttemptLeft' /\ LiveWasSent'
  BY <1>1 DEF IInv, OnePlace, Pending, InFlight, ToldOnce, AttemptLeft, LiveWasSent
<1>6. NothingWaitsUntried' /\ DownIsOffline'
  BY <1>1, <1>2 DEF IInv, NothingWaitsUntried, DownIsOffline
<1> QED
  BY <1>4, <1>5, <1>6 DEF IInv

(* A socket that comes up.  Without a stray, the announcement of the       *)
(* current one is a change of state, and takes the queue with it.          *)
LEMMA AnnounceInv ==
  ASSUME IInv, SocketUp \/ StrayUp
  PROVE  IInv'
<1>1. /\ UNCHANGED messages /\ Announce
      /\ link' \in {link, "up"}
      /\ stray' \in {stray, "up"}
      /\ stray' = "none" => link = "down" /\ link' = "up" /\ stray = "none"
  BY DEF SocketUp, StrayUp
<1>2. Typed(queue, flights) /\ Apart(queue, flights) /\ Pending = Elems(queue) \cup All(flights)
  BY OnePlaceParts DEF IInv, Typed, TypeOK
<1>3. online' = TRUE /\ Pending' = Pending
  BY <1>1 DEF Announce, messages, Pending
<1>4. ToldOnce' /\ AttemptLeft' /\ DownIsOffline'
  BY <1>1 DEF IInv, ToldOnce, AttemptLeft, DownIsOffline, messages
<1>5. CASE UNCHANGED <<queue, flights, air, live>> /\ stray' # "none"
  <2>1. TypeOK' /\ LiveWasSent'
    BY <1>1, <1>3, <1>5 DEF IInv, TypeOK, LiveWasSent, messages
  <2>2. OnePlace'
    BY <1>2, <1>3, <1>5, OnePlacePartsNext
  <2>3. NothingWaitsUntried'
    BY <1>5 DEF NothingWaitsUntried
  <2> QED
    BY <1>4, <2>1, <2>2, <2>3 DEF IInv
<1>6. CASE Flush(queue, flights)
  <2>1. /\ Typed(queue', flights') /\ Apart(queue', flights')
        /\ queue' = <<>> /\ Elems(queue') = {}
        /\ All(flights') = Elems(queue) \cup All(flights)
        /\ air' \subseteq air \cup Elems(queue)
        /\ air \subseteq air'
        /\ live' \subseteq live \cup air'
    BY <1>2, <1>6, FlushFacts, EmptyElems
  <2>2. OnePlace'
    BY <1>2, <1>3, <2>1, OnePlacePartsNext
  <2>3. NothingWaitsUntried'
    BY <2>1 DEF NothingWaitsUntried
  <2>4. Elems(queue) \subseteq 1..next - 1
    BY <1>2 DEF Pending
  <2>5. LiveWasSent'
    BY <1>1, <2>1, <2>4 DEF IInv, LiveWasSent, messages
  <2>6. 1..next - 1 \subseteq Msgs
    BY OutboxAssumption DEF IInv, TypeOK, Msgs
  <2>7. TypeOK'
    <3>1. air' \subseteq Msgs /\ live' \subseteq Msgs
      BY <2>1, <2>4, <2>6 DEF IInv, TypeOK
    <3> QED
      BY <1>1, <1>3, <2>1, <3>1 DEF IInv, TypeOK, Typed, messages
  <2> QED
    BY <1>4, <2>2, <2>3, <2>5, <2>7 DEF IInv
<1>7. \/ UNCHANGED <<queue, flights, air, live>> /\ stray' # "none"
      \/ Flush(queue, flights)
  BY <1>1 DEF Announce, IInv, DownIsOffline
<1> QED
  BY <1>5, <1>6, <1>7

LEMMA StepInv ==
  ASSUME IInv, [Next]_vars
  PROVE  IInv'
<1>1. CASE QueueMessage
  BY <1>1, QueueMessageInv
<1>2. ASSUME NEW f \in flights, Ack(f) \/ Refused(f) \/ AckTimeout(f)
      PROVE  IInv'
  BY <1>2, EndsInv DEF Ends
<1>3. ASSUME NEW m \in Msgs, Receive(m)
      PROVE  IInv'
  BY <1>3, ReceiveInv
<1>4. CASE Connect \/ Disconnect \/ SocketDown \/ StrayDown \/ ConnectError \/ UNCHANGED vars
  BY <1>4, LinkInv
<1>5. CASE SocketUp \/ StrayUp
  BY <1>5, AnnounceInv
<1> QED
  BY <1>1, <1>2, <1>3, <1>4, <1>5 DEF Next

LEMMA Invariance == Spec => []IInv
<1>1. IInv /\ [Next]_vars => IInv'
  BY StepInv
<1> QED
  BY <1>1, InitInv, PTL DEF Spec

-----------------------------------------------------------------------------
(* Every variable of the client stays within its type: no message is tried *)
(* more than MaxAttempts times.                                            *)
THEOREM TypeCorrect == Spec => []TypeOK
<1>1. IInv => TypeOK
  BY DEF IInv
<1> QED
  BY <1>1, Invariance, PTL

(* flushMessageQueue: however many flushes overlap, and whatever drops     *)
(* under them, a message without a report is in the queue or in one flush, *)
(* once.                                                                   *)
THEOREM MessagesHaveOnePlace == Spec => []OnePlace
<1>1. IInv => OnePlace
  BY DEF IInv
<1> QED
  BY <1>1, Invariance, PTL

(* updateConnectionState: with one socket, no message queued while it was  *)
(* down is still untried once it is up.                                    *)
THEOREM QueuedGoOut == Spec => []NothingWaitsUntried
<1>1. IInv => NothingWaitsUntried
  BY DEF IInv
<1> QED
  BY <1>1, Invariance, PTL

-----------------------------------------------------------------------------
(* A message that has its place is pending in the channel.                 *)
LEMMA FateOfPending ==
  ASSUME IInv
  PROVE  \A m \in Msgs : Fate[m] = "pending" <=> m \in Pending
BY DEF Fate, Pending, IInv, ToldOnce, TypeOK, Msgs

LEMMA QueueMessageRefines ==
  ASSUME IInv, QueueMessage
  PROVE  Channel!Next
<1>1. /\ next \in Msgs /\ next' = next + 1
      /\ UNCHANGED <<attempts, delivered, failed, received>>
  BY DEF QueueMessage
<1>2. Fate[next] = "new" /\ next \notin delivered /\ next \notin failed
  BY <1>1 DEF Fate, IInv, ToldOnce, Msgs
<1>3. ASSUME NEW m \in Msgs
      PROVE  Fate'[m] = [Fate EXCEPT ![next] = "pending"][m]
  <2>1. m >= next' <=> m >= next /\ m # next
    BY <1>1 DEF Msgs
  <2>2. CASE m = next
    BY <1>1, <1>2, <2>1, <2>2 DEF Fate
  <2>3. CASE m # next
    BY <1>1, <2>1, <2>3 DEF Fate
  <2> QED
    BY <2>2, <2>3
<1>4. Fate' = [Fate EXCEPT ![next] = "pending"]
  BY <1>3 DEF Fate
<1> QED
  BY <1>1, <1>2, <1>4 DEF Channel!Next, Channel!Submit

(* An attempt that ends is a report: the acknowledged message is delivered,*)
(* and it was received; those that are lost have missed an attempt.        *)
LEMMA EndsRefines ==
  ASSUME IInv, NEW f \in flights, Ends(f)
  PROVE  Channel!Next
<1>1. PICK missed \in {<<>>, <<Head(f)>>} :
        /\ Settle(f, missed)
        /\ delivered' = delivered \cup ({Head(f)} \ Elems(missed))
        /\ missed = <<>> => Answered(Head(f))
  BY EndsSettle
<1> DEFINE done == {Head(f)} \ Elems(missed)
           lost == Elems(Lost(f, missed))
<1>2. UNCHANGED <<next, received>>
  BY <1>1 DEF Settle
<1>3. Typed(queue, flights) /\ Apart(queue, flights)
  BY OnePlaceParts DEF IInv, Typed, TypeOK
<1>4. f \in Seq(Msgs) /\ f # <<>> /\ Distinct(f)
  BY <1>3 DEF Typed, Apart
<1>5. Elems(f) = done \cup lost \cup Stay(f) /\ done \cap lost = {}
  BY <1>4, FlightParts
<1>6. /\ attempts' = [m \in Msgs |-> IF m \in lost THEN attempts[m] + 1 ELSE attempts[m]]
      /\ failed' = failed \cup {m \in lost : ~Retries(m)}
  BY <1>1, <1>3, SettleFacts
<1>7. Elems(f) \subseteq Pending /\ Pending \subseteq Msgs
  BY OnePlaceParts, OutboxAssumption DEF IInv, All, Pending, TypeOK, Msgs
<1>8. done \subseteq received
  <2>1. CASE missed = <<>>
    BY <1>1, <2>1 DEF Answered, IInv, LiveWasSent
  <2>2. CASE missed = <<Head(f)>>
    BY <2>2 DEF Elems
  <2> QED
    BY <2>1, <2>2
<1>9. delivered' = delivered \cup done
  BY <1>1
<1> HIDE DEF done, lost
<1>10. \A m \in done \cup lost : Fate[m] = "pending"
  BY <1>5, <1>7, FateOfPending
<1>11. ASSUME NEW m \in Msgs
       PROVE  Fate'[m] = CASE m \in done -> "delivered"
                           [] m \in lost /\ attempts[m] + 1 >= MaxAttempts -> "failed"
                           [] OTHER -> Fate[m]
  <2>1. m \in done \cup lost => m < next /\ m \notin delivered /\ m \notin failed
    BY <1>5, <1>7 DEF Pending, IInv, TypeOK, Msgs
  <2>2. m \in lost => (Retries(m) <=> ~(attempts[m] + 1 >= MaxAttempts))
    BY OutboxAssumption DEF Retries, IInv, TypeOK
  <2>3. m \in next..M => m >= next
    BY DEF IInv, TypeOK, Msgs
  <2>4. CASE m \in done
    BY <1>2, <1>5, <1>6, <1>9, <2>1, <2>4 DEF Fate, IInv, TypeOK, Msgs
  <2>5. CASE m \in lost /\ ~Retries(m)
    BY <1>2, <1>5, <1>6, <1>9, <2>1, <2>2, <2>5 DEF Fate, IInv, TypeOK, Msgs
  <2>6. CASE m \in lost /\ Retries(m)
    BY <1>2, <1>5, <1>6, <1>9, <2>1, <2>2, <2>6 DEF Fate, IInv, TypeOK, Msgs
  <2>7. CASE m \notin done /\ m \notin lost
    BY <1>2, <1>6, <1>9, <2>7 DEF Fate
  <2> QED
    BY <2>4, <2>5, <2>6, <2>7
<1>12. Fate' = [m \in Msgs |-> CASE m \in done -> "delivered"
                                 [] m \in lost /\ attempts[m] + 1 >= MaxAttempts -> "failed"
                                 [] OTHER -> Fate[m]]
  BY <1>11 DEF Fate
<1>13. Channel!Report(done, lost)
  BY <1>2, <1>5, <1>6, <1>8, <1>10, <1>12 DEF Channel!Report
<1>14. done \in SUBSET Msgs /\ lost \in SUBSET Msgs
  BY <1>5, <1>7
<1> QED
  BY <1>13, <1>14 DEF Channel!Next

LEMMA ReceiveRefines ==
  ASSUME IInv, NEW m \in Msgs, Receive(m)
  PROVE  Channel!Next
<1>1. /\ m \in air /\ received' = received \cup {m}
      /\ UNCHANGED <<next, attempts, delivered, failed>>
  BY DEF Receive
<1>2. m < next
  BY <1>1 DEF IInv, LiveWasSent, TypeOK, Msgs
<1>3. Fate[m] # "new" /\ Fate' = Fate
  BY <1>1, <1>2 DEF Fate, IInv, TypeOK, Msgs
<1> QED
  BY <1>1, <1>3 DEF Channel!Next, Channel!Receive

(* Every behaviour of the outbox, whatever its connections do, is one of a *)
(* channel that reports truly, finally, and gives up only after            *)
(* MaxAttempts attempts.                                                   *)
THEOREM RefinesChannel == Spec => ImplementsChannel
<1>1. Init => Channel!Init
  <2> SUFFICES ASSUME Init
               PROVE  Channel!Init
    OBVIOUS
  <2>1. Fate = [m \in Msgs |-> "new"]
    BY DEF Init, Fate, Msgs
  <2> QED
    BY <2>1 DEF Init, Channel!Init
<1>2. ASSUME IInv, [Next]_vars
      PROVE  [Channel!Next]_(Channel!vars)
  <2>1. CASE UNCHANGED messages
    BY <2>1 DEF messages, Fate, Channel!vars
  <2>2. CASE QueueMessage
    BY <1>2, <2>2, QueueMessageRefines
  <2>3. ASSUME NEW f \in flights, Ack(f) \/ Refused(f) \/ AckTimeout(f)
        PROVE  Channel!Next
    BY <1>2, <2>3, EndsRefines DEF Ends
  <2>4. ASSUME NEW m \in Msgs, Receive(m)
        PROVE  Channel!Next
    BY <1>2, <2>4, ReceiveRefines
  <2>5. CASE \/ Connect \/ Disconnect \/ SocketUp \/ SocketDown
             \/ StrayUp \/ StrayDown \/ ConnectError \/ UNCHANGED vars
    BY <2>1, <2>5 DEF Connect, Disconnect, SocketUp, SocketDown, StrayUp, StrayDown,
                      ConnectError, messages, vars
  <2> QED
    BY <1>2, <2>2, <2>3, <2>4, <2>5 DEF Next
<1> QED
  BY <1>1, <1>2, Invariance, PTL DEF Spec, ImplementsChannel, Channel!Spec

-----------------------------------------------------------------------------
(* What an event of the connection or of the server does not take out of   *)
(* the queue, an attempt that ends does not either: it only adds to it.    *)
THEOREM RequeuedWaits == Spec => OnlyFlushesEmptyQueue
<1> DEFINE Stays == \A m \in Elems(queue) \ Elems(queue') :
                      next' = next + 1 \/ (~online /\ online')
<1>1. ASSUME IInv, [Next]_vars
      PROVE  [Stays]_vars
  <2>1. CASE QueueMessage
    BY <2>1 DEF QueueMessage
  <2>2. ASSUME NEW f \in flights, Ack(f) \/ Refused(f) \/ AckTimeout(f)
        PROVE  Stays
    <3>1. Typed(queue, flights) /\ Apart(queue, flights)
      BY <1>1, OnePlaceParts DEF IInv, Typed, TypeOK
    <3>2. PICK missed \in {<<>>, <<Head(f)>>} : Settle(f, missed)
      BY <2>2, EndsSettle DEF Ends
    <3>3. Elems(queue) \subseteq Elems(queue')
      BY <3>1, <3>2, SettleFacts
    <3> QED
      BY <3>3
  <2>3. CASE SocketUp \/ StrayUp
    <3>1. Announce
      BY <2>3 DEF SocketUp, StrayUp
    <3>2. CASE ~online
      BY <3>1, <3>2 DEF Announce
    <3>3. CASE online
      BY <3>1, <3>3 DEF Announce
    <3> QED
      BY <3>2, <3>3
  <2>4. CASE \/ \E m \in Msgs : Receive(m)
             \/ Connect \/ Disconnect \/ SocketDown \/ StrayDown \/ ConnectError
    BY <2>4 DEF Receive, Connect, Disconnect, SocketDown, StrayDown, ConnectError
  <2> QED
    BY <1>1, <2>1, <2>2, <2>3, <2>4 DEF Next
<1> QED
  BY <1>1, Invariance, PTL DEF Spec, OnlyFlushesEmptyQueue

(* Every way an attempt ends costs the flush that message, and the message *)
(* an attempt, unless it was delivered; nothing else takes a message from  *)
(* a flush.                                                                *)
THEOREM FlushesDoNotDropMessages == Spec => FlightsUseAttempts
<1> DEFINE Costs == \A m \in InFlight \ InFlight' :
                      m \in delivered' \cup failed' \/ attempts'[m] = attempts[m] + 1
<1>1. ASSUME IInv, [Next]_vars
      PROVE  Costs
  <2>1. /\ Typed(queue, flights) /\ Apart(queue, flights)
        /\ InFlight = All(flights) /\ InFlight' = All(flights')
    BY <1>1, OnePlaceParts DEF IInv, Typed, TypeOK, InFlight, All
  <2>2. CASE QueueMessage
    <3>1. CASE Flush(Append(queue, next), flights)
      <4>1. next \in Msgs /\ next \notin Elems(queue) \cup All(flights)
        BY <1>1, <2>1, <2>2 DEF QueueMessage, IInv, OnePlace, Pending, TypeOK, Msgs
      <4>2. /\ Append(queue, next) \in Seq(Msgs)
            /\ Elems(Append(queue, next)) = Elems(queue) \cup {next}
            /\ Distinct(Append(queue, next))
        BY <2>1, <4>1, AppendElems DEF Typed, Apart
      <4>3. Typed(Append(queue, next), flights) /\ Apart(Append(queue, next), flights)
        BY <2>1, <4>1, <4>2 DEF Typed, Apart
      <4>4. All(flights) \subseteq All(flights')
        BY <3>1, <4>3, FlushFacts
      <4> QED
        BY <2>1, <4>4
    <3>2. CASE UNCHANGED flights
      BY <2>1, <3>2
    <3> QED
      BY <2>2, <3>1, <3>2 DEF QueueMessage
  <2>3. ASSUME NEW f \in flights, Ends(f)
        PROVE  Costs
    <3>1. PICK missed \in {<<>>, <<Head(f)>>} :
            /\ Settle(f, missed)
            /\ delivered' = delivered \cup ({Head(f)} \ Elems(missed))
      BY <2>3, EndsSettle
    <3> DEFINE lost == Elems(Lost(f, missed))
               done == {Head(f)} \ Elems(missed)
    <3>2. /\ All(flights') = (All(flights) \ Elems(f)) \cup Stay(f)
          /\ attempts' = [m \in Msgs |-> IF m \in lost THEN attempts[m] + 1 ELSE attempts[m]]
      BY <2>1, <3>1, SettleFacts
    <3>3. Elems(f) = done \cup lost \cup Stay(f)
      BY <2>1, FlightParts DEF Typed, Apart
    <3>4. All(flights) \subseteq Msgs
      BY <1>1, <2>1, OutboxAssumption DEF IInv, OnePlace, Pending, TypeOK, Msgs
    <3>5. done \subseteq delivered'
      BY <3>1
    <3> HIDE DEF lost, done
    <3> QED
      BY <2>1, <3>2, <3>3, <3>4, <3>5
  <2>4. CASE SocketUp \/ StrayUp
    <3>1. Flush(queue, flights) \/ UNCHANGED flights
      BY <2>4 DEF SocketUp, StrayUp, Announce
    <3>2. All(flights) \subseteq All(flights')
      BY <2>1, <3>1, FlushFacts DEF All
    <3> QED
      BY <2>1, <3>2
  <2>5. CASE \/ \E m \in Msgs : Receive(m)
             \/ Connect \/ Disconnect \/ SocketDown \/ StrayDown \/ ConnectError
             \/ UNCHANGED vars
    <3>1. UNCHANGED flights
      BY <2>5 DEF Receive, Connect, Disconnect, SocketDown, StrayDown, ConnectError, vars
    <3> QED
      BY <2>1, <3>1
  <2> QED
    BY <1>1, <2>2, <2>3, <2>4, <2>5 DEF Next, Ends
<1>2. IInv /\ [Next]_vars => [Costs]_vars
  BY <1>1
<1> QED
  BY <1>2, Invariance, PTL DEF Spec, FlightsUseAttempts

-----------------------------------------------------------------------------
(* AckedChannel's theorems, for the fate of the client's messages.         *)
Kept == INSTANCE AckedChannelProofs WITH fate <- Fate

LEMMA KeepsChannel == Spec => Kept!Spec
<1>1. Channel!Init => Kept!Init
  BY DEF Channel!Init, Kept!Init
<1>2. Channel!Next => Kept!Next
  BY DEF Channel!Next, Kept!Next, Channel!Submit, Kept!Submit,
         Channel!Receive, Kept!Receive, Channel!Report, Kept!Report
<1>3. [Channel!Next]_(Channel!vars) => [Kept!Next]_(Kept!vars)
  BY <1>2 DEF Channel!vars, Kept!vars
<1> QED
  BY <1>1, <1>3, RefinesChannel, PTL DEF ImplementsChannel, Channel!Spec, Kept!Spec

(* The fate of a message in the channel is the report its user has.        *)
FateTells ==
  /\ \A m \in delivered : m \in Msgs /\ Fate[m] = "delivered"
  /\ \A m \in failed : m \in Msgs /\ Fate[m] = "failed"
  /\ \A m \in Msgs : /\ Fate[m] = "delivered" => m \in delivered
                     /\ Fate[m] = "failed" => m \in failed

LEMMA FateOfReported ==
  ASSUME IInv
  PROVE  FateTells
<1>1. \A m \in delivered : m \in Msgs /\ Fate[m] = "delivered"
  BY DEF IInv, ToldOnce, TypeOK, Fate, Msgs
<1>2. ASSUME NEW m \in failed
      PROVE  m \in Msgs /\ Fate[m] = "failed"
  <2>1. m \in Msgs /\ ~(m >= next) /\ m \notin delivered
    BY DEF IInv, ToldOnce, TypeOK, Msgs
  <2> QED
    BY <2>1 DEF Fate
<1>3. \A m \in Msgs : /\ Fate[m] = "delivered" => m \in delivered
                      /\ Fate[m] = "failed" => m \in failed
  BY DEF Fate
<1> QED
  BY <1>1, <1>2, <1>3 DEF FateTells

(* What the user of the queue is told is true: a 'messageDelivered' event  *)
(* is of a message the server received, a 'messageDeliveryFailed' event of *)
(* one that used up its attempts.                                          *)
ToldTheTruth ==
  /\ delivered \subseteq received
  /\ \A m \in failed : attempts[m] = MaxAttempts

THEOREM ReportsAreHonest == Spec => []ToldTheTruth
<1>1. Kept!Spec => [](Kept!ReportsAreTrue /\ Kept!NothingGivenUpEarly)
  BY OutboxAssumption, Kept!ChannelIsHonest
<1>2. ASSUME IInv, Kept!ReportsAreTrue, Kept!NothingGivenUpEarly
      PROVE  ToldTheTruth
  BY <1>2, FateOfReported DEF ToldTheTruth, FateTells, Kept!ReportsAreTrue, Kept!NothingGivenUpEarly
<1> QED
  BY <1>1, <1>2, KeepsChannel, Invariance, PTL

(* And it is told once: no message is given both events, and none is tried *)
(* again after its event, although a flush may still have been under way   *)
(* when the connection dropped.                                            *)
ToldForGood ==
  [][/\ \A m \in delivered : m \in delivered' \ failed'
     /\ \A m \in failed : m \in failed' \ delivered'
     /\ \A m \in delivered \cup failed : attempts'[m] = attempts[m]]_vars

THEOREM ReportsStand == Spec => ToldForGood
<1> DEFINE Stand == /\ \A m \in delivered : m \in delivered' \ failed'
                    /\ \A m \in failed : m \in failed' \ delivered'
                    /\ \A m \in delivered \cup failed : attempts'[m] = attempts[m]
           Final == \A m \in Msgs : Fate[m] \in {"delivered", "failed"}
                      => Fate'[m] = Fate[m] /\ attempts'[m] = attempts[m]
<1>1. Kept!Spec => [][Final]_(Kept!vars)
  BY OutboxAssumption, Kept!ChannelIsFinal DEF Kept!ReportsAreFinal
<1>2. ASSUME FateTells, FateTells', [Final]_(Kept!vars)
      PROVE  Stand
  <2>1. Final
    BY <1>2 DEF Kept!vars
  <2>2. ASSUME NEW m \in delivered \cup failed
        PROVE  m \in Msgs /\ Fate'[m] = Fate[m] /\ attempts'[m] = attempts[m]
    BY <1>2, <2>1 DEF FateTells
  <2> HIDE DEF Final
  <2>3. ASSUME NEW m \in delivered
        PROVE  m \in delivered' \ failed'
    <3>1. m \in Msgs /\ Fate'[m] = "delivered"
      BY <1>2, <2>2 DEF FateTells
    <3>2. m \in delivered'
      BY <1>2, <3>1 DEF FateTells
    <3>3. m \notin failed'
      BY <1>2, <3>1 DEF FateTells
    <3> QED
      BY <3>2, <3>3
  <2>4. ASSUME NEW m \in failed
        PROVE  m \in failed' \ delivered'
    BY <1>2, <2>2 DEF FateTells
  <2> QED
    BY <2>2, <2>3, <2>4
<1>3. IInv => FateTells
  BY FateOfReported
<1>4. FateTells /\ FateTells' /\ [Final]_(Kept!vars) => [Stand]_vars
  BY <1>2
<1> QED
  BY <1>1, <1>3, <1>4, KeepsChannel, Invariance, PTL DEF ToldForGood

=============================================================================
