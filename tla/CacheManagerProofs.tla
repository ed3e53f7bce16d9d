-------------------------- MODULE CacheManagerProofs --------------------------
(***************************************************************************)
(* Proofs about CacheManager, for any callers and processes.               *)
(***************************************************************************)
EXTENDS CacheManager, TLAPS

RemoverPlaces == {"members", "scan", "erase", "srem", "drop", "clean"}
ValuePlaces   == {"ttl", "fill", "fillForever", "store", "setex", "sadd"}

(* What a caller is doing and what it holds at each place.                 *)
Frame(c) ==
  /\ pc[c] = "idle" <=> op[c] = "none"
  /\ pc[c] \in RemoverPlaces <=> op[c] \in {"delete", "pattern", "tag"}
  /\ pc[c] \in {"members", "drop", "clean"} => op[c] = "tag"
  /\ pc[c] \in ValuePlaces <=> val[c] # None
  /\ pc[c] \in {"recheck", "release"} => op[c] = "locked"
  /\ pc[c] = "lock" => op[c] = "single"
  /\ val[c] = "back" => pc[c] \in {"ttl", "fill", "fillForever"}

Frames == \A c \in Callers : Frame(c)

(* A factory that was called is still on its way to Redis, under the lock, *)
(* or what it returned is there and is not None.                           *)
RunIsStored ==
  ran => \/ Hit(redis)
         \/ \E c \in Callers : Inside(c) /\ pc[c] \in {"compute", "store", "setex"}

(* Under the lock nobody has a None in his hands unless it is known that   *)
(* the factory is to run again.                                            *)
NullsAreKnown == \A c \in Callers : Inside(c) /\ val[c] = "null" => ~ran

(* A reader whose answer to ttl will not be positive knows that it is torn.*)
TornAreKnown ==
  \A c \in Callers :
    /\ pc[c] = "ttl" /\ (redis = None \/ redis.last) => c \in torn
    /\ pc[c] = "fillForever" => c \in torn

(* While nobody is writing, the tag has the key, or there is nothing of it *)
(* to have, or it is known that the tag was lost.                          *)
NothingUntracked ==
  ~tagged /\ ~untracked /\ Writers = {} =>
    /\ redis = None
    /\ \A p \in Processes : mem[p] = None
    /\ \A c \in Callers : pc[c] \notin {"ttl", "fill", "fillForever"}

(* What is due is due to the one removal under way, which has not passed   *)
(* the place where it is removed; and nothing is brought back to Redis.    *)
Owes(c, places) ==
  /\ Removers = {c}
  /\ pc[c] \in places
  /\ pc[c] = "members" => tagged

Duty ==
  /\ redis # None => redis.s # "back"
  /\ redis # None /\ redis.s = "due" =>
       \E c \in Callers : Owes(c, {"members", "scan", "erase"})
  /\ \A p \in Processes :
       mem[p] # None /\ mem[p].s = "due" =>
         \E c \in Callers : /\ Owes(c, {"members", "erase", "drop"})
                            /\ op[c] = "tag"
                            /\ home[c] = p

IInv ==
  /\ TypeOK
  /\ Frames
  /\ SingleFlight
  /\ RunIsStored
  /\ TornAreKnown
  /\ NothingUntracked
  /\ Duty
  /\ NullsAreKnown

-----------------------------------------------------------------------------
(* Remark and Excuse keep what an entry is but for its standing.           *)
LEMMA MemoryRemarked ==
  ASSUME NEW e \in {None} \cup MemoryEntries, NEW s \in Standings
  PROVE  /\ Remark(e, s) \in {None} \cup MemoryEntries
         /\ Remark(e, s) = None <=> e = None
         /\ e # None => /\ Remark(e, s).s = IF e.s = "null" THEN "null" ELSE s
                        /\ Remark(e, s).mortal = e.mortal
  BY CacheAssumption DEF Remark, Hit, MemoryEntries, Standings

LEMMA RedisRemarked ==
  ASSUME NEW e \in {None} \cup RedisEntries, NEW s \in Standings
  PROVE  /\ Remark(e, s) \in {None} \cup RedisEntries
         /\ Remark(e, s) = None <=> e = None
         /\ e # None => /\ Remark(e, s).s = IF e.s = "null" THEN "null" ELSE s
                        /\ Remark(e, s).last = e.last
  BY CacheAssumption DEF Remark, Hit, RedisEntries, Standings

LEMMA MemoryExcused ==
  ASSUME NEW e \in {None} \cup MemoryEntries
  PROVE  /\ Excuse(e) \in {None} \cup MemoryEntries
         /\ Excuse(e) = None <=> e = None
         /\ e # None => Excuse(e).s # "due" /\ Excuse(e).mortal = e.mortal
<1>1. e # None => Excused(e.s) \in Standings \ {"due", "back"}
  BY DEF Excused, MemoryEntries, Standings
<1> QED
  BY <1>1, MemoryRemarked DEF Excuse

LEMMA RedisExcused ==
  ASSUME NEW e \in {None} \cup RedisEntries
  PROVE  /\ Excuse(e) \in {None} \cup RedisEntries
         /\ Excuse(e) = None <=> e = None
         /\ e # None => /\ Excuse(e).s \notin {"due", "back"}
                        /\ Excuse(e).s = "null" <=> e.s = "null"
                        /\ Excuse(e).last = e.last
<1>1. e # None => /\ Excused(e.s) \in Standings \ {"due", "back"}
                  /\ e.s = "null" <=> Excused(e.s) = "null"
  BY DEF Excused, RedisEntries, Standings
<1> QED
  BY <1>1, RedisRemarked DEF Excuse

(* What is stored is an entry, and not a due one.                          *)
LEMMA EntriesMade ==
  ASSUME NEW s \in {"free", "back", "null"}, NEW m \in BOOLEAN
  PROVE  /\ Entry(s, m) \in MemoryEntries
         /\ Entry(s, m) # None
         /\ Entry(s, m).s # "due"
         /\ Entry(s, m).mortal = m
         /\ RedisEntry(s) \in RedisEntries
         /\ RedisEntry(s) # None
         /\ RedisEntry(s).s = s
         /\ RedisEntry(s).last = FALSE
<1>1. Entry(s, m) \in MemoryEntries
  BY DEF Entry, MemoryEntries, Standings
<1>2. RedisEntry(s) \in RedisEntries
  BY DEF RedisEntry, RedisEntries, Standings
<1>3. Entry(s, m).s = s /\ Entry(s, m).mortal = m
  BY DEF Entry
<1>4. RedisEntry(s).s = s /\ RedisEntry(s).last = FALSE
  BY DEF RedisEntry
<1>5. None \notin MemoryEntries /\ None \notin RedisEntries
  BY CacheAssumption
<1> QED
  BY <1>1, <1>2, <1>3, <1>4, <1>5

-----------------------------------------------------------------------------
(* The initial states, then one lemma per action; the steps of each are    *)
(* the conjuncts of IInv in their order.                                   *)
USE CacheAssumption DEF IInv, Go, Hold, Leave, Hit, Null, levels, tags, locking, caller

LEMMA InitInv == Init => IInv
<1> SUFFICES ASSUME Init PROVE IInv
  OBVIOUS
<1> USE DEF Init
<1>1. TypeOK
  BY DEF TypeOK, Ops, Places, Standings
<1>2. Frames
  BY DEF Frames, Frame, RemoverPlaces, ValuePlaces, TypeOK, Standings
<1>3. SingleFlight
  BY DEF SingleFlight, Inside, TypeOK, Frames, Frame
<1>4. RunIsStored
  BY DEF RunIsStored, SingleFlight, Inside, TypeOK, Frames, Frame
<1>5. TornAreKnown
  BY DEF TornAreKnown, TypeOK, Frames, Frame
<1>6. NothingUntracked
  BY DEF NothingUntracked, Writers, TypeOK, Frames, Frame, ValuePlaces
<1>7. Duty
  BY DEF Duty, Owes, Removers, TypeOK, Frames, Frame, RemoverPlaces
<1>8. NullsAreKnown
  BY DEF NullsAreKnown
<1> QED BY <1>1, <1>2, <1>3, <1>4, <1>5, <1>6, <1>7, <1>8

-----------------------------------------------------------------------------
(* A factory call under the lock leaves no None in the hands of its owner, *)
(* and nobody else is inside.                                              *)
LEMMA CallLeavesNoNull ==
  ASSUME IInv, NEW c \in Callers,
         ran' = (ran \/ Inside(c)),
         val'[c] # "null",
         \A d \in Callers : d # c => val'[d] = val[d],
         UNCHANGED <<op, overdue>>
  PROVE  NullsAreKnown'
<1> SUFFICES ASSUME NEW d \in Callers, Inside(d)', val'[d] = "null", ran'
             PROVE  FALSE
  BY DEF NullsAreKnown
<1>1. d # c /\ Inside(d) /\ val[d] = "null"
  BY DEF Inside
<1>2. Inside(c)
  BY <1>1 DEF NullsAreKnown
<1> QED
  BY <1>1, <1>2 DEF SingleFlight

(* Reads.                                                                  *)
LEMMA GetInv ==
  ASSUME IInv, NEW c \in Callers, NEW o \in {"single", "plain"}, Get(c, o)
  PROVE  IInv'
<1> USE DEF Get, Missed
<1>1. TypeOK'
  BY DEF TypeOK, Ops, Places, Standings
<1>2. Frames'
  BY DEF Frames, Frame, RemoverPlaces, ValuePlaces, TypeOK, Standings
<1>3. SingleFlight'
  BY DEF SingleFlight, Inside, TypeOK, Frames, Frame
<1>4. RunIsStored'
  BY DEF RunIsStored, SingleFlight, Inside, TypeOK, Frames, Frame
<1>5. TornAreKnown'
  BY DEF TornAreKnown, TypeOK, Frames, Frame
<1>6. NothingUntracked'
  BY DEF NothingUntracked, Writers, TypeOK, Frames, Frame, ValuePlaces
<1>7. Duty'
  BY DEF Duty, Owes, Removers, TypeOK, Frames, Frame, RemoverPlaces
<1>8. NullsAreKnown'
  BY DEF NullsAreKnown, SingleFlight, Inside, TypeOK, Frames, Frame, ValuePlaces
<1> QED BY <1>1, <1>2, <1>3, <1>4, <1>5, <1>6, <1>7, <1>8

LEMMA RedisGetInv ==
  ASSUME IInv, NEW c \in Callers, RedisGet(c)
  PROVE  IInv'
<1> USE DEF RedisGet, AfterMiss, Missed
<1>a. redis # None => redis.s \in Standings
  BY DEF TypeOK, RedisEntries
<1>b. redis # None => (IF redis.s = "due" THEN "back" ELSE redis.s) \in {"free", "back", "null"}
  BY <1>a DEF Standings
<1>c. val' \in [Callers -> {None, "free", "back", "null"}]
  BY <1>b DEF TypeOK
<1>d. pc' \in [Callers -> Places]
  BY DEF TypeOK, Places
<1>e. ran' \in BOOLEAN
  BY DEF TypeOK
<1>f. torn' \subseteq Callers
  BY DEF TypeOK
<1>1. TypeOK'
  BY <1>c, <1>d, <1>e, <1>f DEF TypeOK
<1>2. Frames'
  BY <1>b DEF Frames, Frame, RemoverPlaces, ValuePlaces, TypeOK, Standings
<1>3. SingleFlight'
  BY DEF SingleFlight, Inside, TypeOK, Frames, Frame
<1>4. RunIsStored'
  BY DEF RunIsStored, SingleFlight, Inside, TypeOK, Frames, Frame
<1>5. TornAreKnown'
  BY DEF TornAreKnown, TypeOK, Frames, Frame
<1>6. NothingUntracked'
  BY DEF NothingUntracked, Writers, TypeOK, Frames, Frame, ValuePlaces
<1>7. Duty'
  BY DEF Duty, Owes, Removers, TypeOK, Frames, Frame, RemoverPlaces
<1>8. NullsAreKnown'
  <2>0. \A d \in Callers : Inside(d)' = Inside(d)
    BY DEF Inside
  <2>1. CASE redis = None
    <3>1. val'[c] # "null"
      BY <2>1 DEF Frames, Frame, ValuePlaces, Standings
    <3> QED
      BY <2>1, <3>1, CallLeavesNoNull
  <2>2. CASE redis # None
    <3>1. val'[c] = "null" => redis.s = "null"
      BY <2>2 DEF TypeOK
    <3>2. Inside(c) /\ redis.s = "null" => ~ran
      BY DEF RunIsStored, SingleFlight
    <3>3. \A d \in Callers : d # c => val'[d] = val[d]
      BY DEF TypeOK
    <3> QED
      BY <2>0, <2>2, <3>1, <3>2, <3>3 DEF NullsAreKnown
  <2> QED
    BY <2>1, <2>2
<1> QED BY <1>1, <1>2, <1>3, <1>4, <1>5, <1>6, <1>7, <1>8

LEMMA RedisTtlInv ==
  ASSUME IInv, NEW c \in Callers, RedisTtl(c)
  PROVE  IInv'
<1> USE DEF RedisTtl
<1>1. TypeOK'
  BY DEF TypeOK, Ops, Places, Standings
<1>2. Frames'
  BY DEF Frames, Frame, RemoverPlaces, ValuePlaces, TypeOK, Standings
<1>3. SingleFlight'
  BY DEF SingleFlight, Inside, TypeOK, Frames, Frame
<1>4. RunIsStored'
  BY DEF RunIsStored, SingleFlight, Inside, TypeOK, Frames, Frame
<1>5. TornAreKnown'
  BY DEF TornAreKnown, TypeOK, Frames, Frame
<1>6. NothingUntracked'
  BY DEF NothingUntracked, Writers, TypeOK, Frames, Frame, ValuePlaces
<1>7. Duty'
  BY DEF Duty, Owes, Removers, TypeOK, Frames, Frame, RemoverPlaces
<1>8. NullsAreKnown'
  BY DEF NullsAreKnown, SingleFlight, Inside, TypeOK, Frames, Frame, ValuePlaces
<1> QED BY <1>1, <1>2, <1>3, <1>4, <1>5, <1>6, <1>7, <1>8

LEMMA FillInv ==
  ASSUME IInv, NEW c \in Callers, Fill(c)
  PROVE  IInv'
<1> USE DEF Fill, Shelve, AfterMiss, Missed
<1>a. val[c] \in {"free", "back", "null"}
  BY DEF Frames, Frame, ValuePlaces, TypeOK
<1>b. /\ Entry(val[c], pc[c] = "fill") \in MemoryEntries
      /\ Entry(val[c], pc[c] = "fill").s # "due"
      /\ Entry(val[c], TRUE) \in MemoryEntries
      /\ Entry(val[c], TRUE).s # "due"
      /\ RedisEntry(val[c]) \in RedisEntries
      /\ RedisEntry(val[c]).s = val[c]
      /\ RedisEntry(val[c]).last = FALSE
  BY <1>a, EntriesMade
<1>1. TypeOK'
  BY <1>b DEF TypeOK, Ops, Places, Standings
<1>2. Frames'
  BY DEF Frames, Frame, RemoverPlaces, ValuePlaces, TypeOK, Standings
<1>3. SingleFlight'
  BY DEF SingleFlight, Inside, TypeOK, Frames, Frame
<1>4. RunIsStored'
  BY DEF RunIsStored, SingleFlight, Inside, TypeOK, Frames, Frame
<1>5. TornAreKnown'
  BY DEF TornAreKnown, TypeOK, Frames, Frame
<1>6. NothingUntracked'
  BY DEF NothingUntracked, Writers, TypeOK, Frames, Frame, ValuePlaces
<1>7. Duty'
  BY <1>b DEF Duty, Owes, Removers, TypeOK, Frames, Frame, RemoverPlaces
<1>8. NullsAreKnown'
  <2>1. CASE val[c] = "null"
    <3>1. val'[c] # "null" /\ \A d \in Callers : d # c => val'[d] = val[d]
      BY <2>1 DEF TypeOK, Standings
    <3> QED
      BY <2>1, <3>1, CallLeavesNoNull
  <2>2. CASE val[c] # "null"
    BY <2>2 DEF NullsAreKnown, Inside, TypeOK, Standings
  <2> QED
    BY <2>1, <2>2
<1> QED BY <1>1, <1>2, <1>3, <1>4, <1>5, <1>6, <1>7, <1>8

LEMMA GetFailsInv ==
  ASSUME IInv, NEW c \in Callers, GetFails(c)
  PROVE  IInv'
<1> USE DEF GetFails, Missed
<1>1. TypeOK'
  BY DEF TypeOK, Ops, Places, Standings
<1>2. Frames'
  BY DEF Frames, Frame, RemoverPlaces, ValuePlaces, TypeOK, Standings
<1>3. SingleFlight'
  BY DEF SingleFlight, Inside, TypeOK, Frames, Frame
<1>4. RunIsStored'
  BY DEF RunIsStored, SingleFlight, Inside, TypeOK, Frames, Frame
<1>5. TornAreKnown'
  BY DEF TornAreKnown, TypeOK, Frames, Frame
<1>6. NothingUntracked'
  BY DEF NothingUntracked, Writers, TypeOK, Frames, Frame, ValuePlaces
<1>7. Duty'
  BY DEF Duty, Owes, Removers, TypeOK, Frames, Frame, RemoverPlaces
<1>8. NullsAreKnown'
  BY DEF NullsAreKnown, SingleFlight, Inside, TypeOK, Frames, Frame, ValuePlaces
<1> QED BY <1>1, <1>2, <1>3, <1>4, <1>5, <1>6, <1>7, <1>8

-----------------------------------------------------------------------------
(* The lock.                                                               *)
LEMMA AcquireInv ==
  ASSUME IInv, NEW c \in Callers, Acquire(c)
  PROVE  IInv'
<1> USE DEF Acquire
<1>1. TypeOK'
  BY DEF TypeOK, Ops, Places, Standings
<1>2. Frames'
  BY DEF Frames, Frame, RemoverPlaces, ValuePlaces, TypeOK, Standings
<1>3. SingleFlight'
  BY DEF SingleFlight, Inside, TypeOK, Frames, Frame
<1>4. RunIsStored'
  BY DEF RunIsStored, SingleFlight, Inside, TypeOK, Frames, Frame
<1>5. TornAreKnown'
  BY DEF TornAreKnown, TypeOK, Frames, Frame
<1>6. NothingUntracked'
  BY DEF NothingUntracked, Writers, TypeOK, Frames, Frame, ValuePlaces
<1>7. Duty'
  BY DEF Duty, Owes, Removers, TypeOK, Frames, Frame, RemoverPlaces
<1>8. NullsAreKnown'
  BY DEF NullsAreKnown, SingleFlight, Inside, TypeOK, Frames, Frame, ValuePlaces, Standings
<1> QED BY <1>1, <1>2, <1>3, <1>4, <1>5, <1>6, <1>7, <1>8

LEMMA AcquireFailsInv ==
  ASSUME IInv, NEW c \in Callers, AcquireFails(c)
  PROVE  IInv'
<1> USE DEF AcquireFails
<1>1. TypeOK'
  BY DEF TypeOK, Ops, Places, Standings
<1>2. Frames'
  BY DEF Frames, Frame, RemoverPlaces, ValuePlaces, TypeOK, Standings
<1>3. SingleFlight'
  BY DEF SingleFlight, Inside, TypeOK, Frames, Frame
<1>4. RunIsStored'
  BY DEF RunIsStored, SingleFlight, Inside, TypeOK, Frames, Frame
<1>5. TornAreKnown'
  BY DEF TornAreKnown, TypeOK, Frames, Frame
<1>6. NothingUntracked'
  BY DEF NothingUntracked, Writers, TypeOK, Frames, Frame, ValuePlaces
<1>7. Duty'
  BY DEF Duty, Owes, Removers, TypeOK, Frames, Frame, RemoverPlaces
<1>8. NullsAreKnown'
  BY DEF NullsAreKnown, SingleFlight, Inside, TypeOK, Frames, Frame, ValuePlaces
<1> QED BY <1>1, <1>2, <1>3, <1>4, <1>5, <1>6, <1>7, <1>8

LEMMA RecheckInv ==
  ASSUME IInv, NEW c \in Callers, Recheck(c)
  PROVE  IInv'
<1> USE DEF Recheck, AfterMiss, Missed
<1>1. TypeOK'
  BY DEF TypeOK, Ops, Places, Standings
<1>2. Frames'
  BY DEF Frames, Frame, RemoverPlaces, ValuePlaces, TypeOK, Standings
<1>3. SingleFlight'
  BY DEF SingleFlight, Inside, TypeOK, Frames, Frame
<1>4. RunIsStored'
  BY DEF RunIsStored, SingleFlight, Inside, TypeOK, Frames, Frame
<1>5. TornAreKnown'
  BY DEF TornAreKnown, TypeOK, Frames, Frame
<1>6. NothingUntracked'
  BY DEF NothingUntracked, Writers, TypeOK, Frames, Frame, ValuePlaces
<1>7. Duty'
  BY DEF Duty, Owes, Removers, TypeOK, Frames, Frame, RemoverPlaces
<1>8. NullsAreKnown'
  <2>1. val[c] # "null"
    BY DEF Frames, Frame, ValuePlaces, Standings
  <2>2. CASE Null(mem[home[c]])
    BY <2>1, <2>2, CallLeavesNoNull
  <2>3. CASE ~Null(mem[home[c]])
    BY <2>3 DEF NullsAreKnown, Inside
  <2> QED
    BY <2>2, <2>3
<1> QED BY <1>1, <1>2, <1>3, <1>4, <1>5, <1>6, <1>7, <1>8

LEMMA ReleaseInv ==
  ASSUME IInv, NEW c \in Callers, Release(c)
  PROVE  IInv'
<1> USE DEF Release
<1>1. TypeOK'
  BY DEF TypeOK, Ops, Places, Standings
<1>2. Frames'
  BY DEF Frames, Frame, RemoverPlaces, ValuePlaces, TypeOK, Standings
<1>3. SingleFlight'
  BY DEF SingleFlight, Inside, TypeOK, Frames, Frame
<1>4. RunIsStored'
  BY DEF RunIsStored, SingleFlight, Inside, TypeOK, Frames, Frame
<1>5. TornAreKnown'
  BY DEF TornAreKnown, TypeOK, Frames, Frame
<1>6. NothingUntracked'
  BY DEF NothingUntracked, Writers, TypeOK, Frames, Frame, ValuePlaces
<1>7. Duty'
  BY DEF Duty, Owes, Removers, TypeOK, Frames, Frame, RemoverPlaces
<1>8. NullsAreKnown'
  BY DEF NullsAreKnown, SingleFlight, Inside, TypeOK, Frames, Frame, ValuePlaces
<1> QED BY <1>1, <1>2, <1>3, <1>4, <1>5, <1>6, <1>7, <1>8

LEMMA ReleaseFailsInv ==
  ASSUME IInv, NEW c \in Callers, ReleaseFails(c)
  PROVE  IInv'
<1> USE DEF ReleaseFails
<1>1. TypeOK'
  BY DEF TypeOK, Ops, Places, Standings
<1>2. Frames'
  BY DEF Frames, Frame, RemoverPlaces, ValuePlaces, TypeOK, Standings
<1>3. SingleFlight'
  BY DEF SingleFlight, Inside, TypeOK, Frames, Frame
<1>4. RunIsStored'
  BY DEF RunIsStored, SingleFlight, Inside, TypeOK, Frames, Frame
<1>5. TornAreKnown'
  BY DEF TornAreKnown, TypeOK, Frames, Frame
<1>6. NothingUntracked'
  BY DEF NothingUntracked, Writers, TypeOK, Frames, Frame, ValuePlaces
<1>7. Duty'
  BY DEF Duty, Owes, Removers, TypeOK, Frames, Frame, RemoverPlaces
<1>8. NullsAreKnown'
  BY DEF NullsAreKnown, SingleFlight, Inside, TypeOK, Frames, Frame, ValuePlaces
<1> QED BY <1>1, <1>2, <1>3, <1>4, <1>5, <1>6, <1>7, <1>8

-----------------------------------------------------------------------------
(* Computations and writes.  A value in hand is never due.                 *)
LEMMA WriteInv ==
  ASSUME IInv, NEW c \in Callers, Write(c)
  PROVE  IInv'
<1> USE DEF Write
<1>1. TypeOK'
  BY DEF TypeOK, Ops, Places, Standings
<1>2. Frames'
  BY DEF Frames, Frame, RemoverPlaces, ValuePlaces, TypeOK, Standings
<1>3. SingleFlight'
  BY DEF SingleFlight, Inside, TypeOK, Frames, Frame
<1>4. RunIsStored'
  BY DEF RunIsStored, SingleFlight, Inside, TypeOK, Frames, Frame
<1>5. TornAreKnown'
  BY DEF TornAreKnown, TypeOK, Frames, Frame
<1>6. NothingUntracked'
  BY DEF NothingUntracked, Writers, TypeOK, Frames, Frame, ValuePlaces
<1>7. Duty'
  BY DEF Duty, Owes, Removers, TypeOK, Frames, Frame, RemoverPlaces
<1>8. NullsAreKnown'
  BY DEF NullsAreKnown, SingleFlight, Inside, TypeOK, Frames, Frame, ValuePlaces
<1> QED BY <1>1, <1>2, <1>3, <1>4, <1>5, <1>6, <1>7, <1>8

LEMMA ComputeInv ==
  ASSUME IInv, NEW c \in Callers, Compute(c)
  PROVE  IInv'
<1> USE DEF Compute
<1>1. TypeOK'
  BY DEF TypeOK, Ops, Places, Standings
<1>2. Frames'
  BY DEF Frames, Frame, RemoverPlaces, ValuePlaces, TypeOK, Standings
<1>3. SingleFlight'
  BY DEF SingleFlight, Inside, TypeOK, Frames, Frame
<1>4. RunIsStored'
  BY DEF RunIsStored, SingleFlight, Inside, TypeOK, Frames, Frame
<1>5. TornAreKnown'
  BY DEF TornAreKnown, TypeOK, Frames, Frame
<1>6. NothingUntracked'
  BY DEF NothingUntracked, Writers, TypeOK, Frames, Frame, ValuePlaces
<1>7. Duty'
  BY DEF Duty, Owes, Removers, TypeOK, Frames, Frame, RemoverPlaces
<1>8. NullsAreKnown'
  BY DEF NullsAreKnown, SingleFlight, Inside, TypeOK, Frames, Frame, ValuePlaces
<1> QED BY <1>1, <1>2, <1>3, <1>4, <1>5, <1>6, <1>7, <1>8

LEMMA ComputeRaisesInv ==
  ASSUME IInv, NEW c \in Callers, ComputeRaises(c)
  PROVE  IInv'
<1> USE DEF ComputeRaises
<1>1. TypeOK'
  BY DEF TypeOK, Ops, Places, Standings
<1>2. Frames'
  BY DEF Frames, Frame, RemoverPlaces, ValuePlaces, TypeOK, Standings
<1>3. SingleFlight'
  BY DEF SingleFlight, Inside, TypeOK, Frames, Frame
<1>4. RunIsStored'
  BY DEF RunIsStored, SingleFlight, Inside, TypeOK, Frames, Frame
<1>5. TornAreKnown'
  BY DEF TornAreKnown, TypeOK, Frames, Frame
<1>6. NothingUntracked'
  BY DEF NothingUntracked, Writers, TypeOK, Frames, Frame, ValuePlaces
<1>7. Duty'
  BY DEF Duty, Owes, Removers, TypeOK, Frames, Frame, RemoverPlaces
<1>8. NullsAreKnown'
  BY DEF NullsAreKnown, SingleFlight, Inside, TypeOK, Frames, Frame, ValuePlaces
<1> QED BY <1>1, <1>2, <1>3, <1>4, <1>5, <1>6, <1>7, <1>8

LEMMA StoreInv ==
  ASSUME IInv, NEW c \in Callers, Store(c)
  PROVE  IInv'
<1> USE DEF Store, Shelve
<1>a. val[c] \in {"free", "null"}
  BY DEF Frames, Frame, ValuePlaces, TypeOK
<1>b. /\ Entry(val[c], pc[c] = "fill") \in MemoryEntries
      /\ Entry(val[c], pc[c] = "fill").s # "due"
      /\ Entry(val[c], TRUE) \in MemoryEntries
      /\ Entry(val[c], TRUE).s # "due"
      /\ RedisEntry(val[c]) \in RedisEntries
      /\ RedisEntry(val[c]).s = val[c]
      /\ RedisEntry(val[c]).last = FALSE
  BY <1>a, EntriesMade
<1>c. \A d \in Callers, places \in SUBSET RemoverPlaces :
        Owes(d, places) => Owes(d, places)' /\ op'[d] = op[d]
  BY DEF Owes, Removers, RemoverPlaces, TypeOK
<1>d. \A p \in Processes :
        mem'[p] # None /\ mem'[p].s = "due" => mem[p] # None /\ mem[p].s = "due"
  BY <1>b DEF TypeOK
<1>1. TypeOK'
  BY <1>b DEF TypeOK, Ops, Places, Standings
<1>2. Frames'
  BY DEF Frames, Frame, RemoverPlaces, ValuePlaces, TypeOK, Standings
<1>3. SingleFlight'
  BY DEF SingleFlight, Inside, TypeOK, Frames, Frame
<1>4. RunIsStored'
  BY DEF RunIsStored, SingleFlight, Inside, TypeOK, Frames, Frame
<1>5. TornAreKnown'
  BY DEF TornAreKnown, TypeOK, Frames, Frame
<1>6. NothingUntracked'
  BY DEF NothingUntracked, Writers, TypeOK, Frames, Frame, ValuePlaces
<1>7. Duty'
  BY <1>b, <1>c, <1>d DEF Duty, RemoverPlaces
<1>8. NullsAreKnown'
  BY DEF NullsAreKnown, SingleFlight, Inside, TypeOK, Frames, Frame, ValuePlaces
<1> QED BY <1>1, <1>2, <1>3, <1>4, <1>5, <1>6, <1>7, <1>8

LEMMA SetExInv ==
  ASSUME IInv, NEW c \in Callers, SetEx(c)
  PROVE  IInv'
<1> USE DEF SetEx
<1>a. val[c] \in {"free", "null"}
  BY DEF Frames, Frame, ValuePlaces, TypeOK
<1>b. /\ Entry(val[c], pc[c] = "fill") \in MemoryEntries
      /\ Entry(val[c], pc[c] = "fill").s # "due"
      /\ Entry(val[c], TRUE) \in MemoryEntries
      /\ Entry(val[c], TRUE).s # "due"
      /\ RedisEntry(val[c]) \in RedisEntries
      /\ RedisEntry(val[c]).s = val[c]
      /\ RedisEntry(val[c]).last = FALSE
  BY <1>a, EntriesMade
<1>1. TypeOK'
  BY <1>b DEF TypeOK, Ops, Places, Standings
<1>2. Frames'
  BY DEF Frames, Frame, RemoverPlaces, ValuePlaces, TypeOK, Standings
<1>3. SingleFlight'
  BY DEF SingleFlight, Inside, TypeOK, Frames, Frame
<1>4. RunIsStored'
  BY <1>b DEF RunIsStored, SingleFlight, Inside, TypeOK, Frames, Frame
<1>5. TornAreKnown'
  BY <1>b DEF TornAreKnown, TypeOK, Frames, Frame
<1>6. NothingUntracked'
  BY DEF NothingUntracked, Writers, TypeOK, Frames, Frame, ValuePlaces
<1>7. Duty'
  BY <1>a, <1>b DEF Duty, Owes, Removers, TypeOK, Frames, Frame, RemoverPlaces
<1>8. NullsAreKnown'
  BY DEF NullsAreKnown, SingleFlight, Inside, TypeOK, Frames, Frame, ValuePlaces
<1> QED BY <1>1, <1>2, <1>3, <1>4, <1>5, <1>6, <1>7, <1>8

LEMMA SAddInv ==
  ASSUME IInv, NEW c \in Callers, SAdd(c)
  PROVE  IInv'
<1> USE DEF SAdd
<1>1. TypeOK'
  BY DEF TypeOK, Ops, Places, Standings
<1>2. Frames'
  BY DEF Frames, Frame, RemoverPlaces, ValuePlaces, TypeOK, Standings
<1>3. SingleFlight'
  BY DEF SingleFlight, Inside, TypeOK, Frames, Frame
<1>4. RunIsStored'
  BY DEF RunIsStored, SingleFlight, Inside, TypeOK, Frames, Frame
<1>5. TornAreKnown'
  BY DEF TornAreKnown, TypeOK, Frames, Frame
<1>6. NothingUntracked'
  BY DEF NothingUntracked, Writers, TypeOK, Frames, Frame, ValuePlaces
<1>7. Duty'
  BY DEF Duty, Owes, Removers, TypeOK, Frames, Frame, RemoverPlaces
<1>8. NullsAreKnown'
  BY DEF NullsAreKnown, SingleFlight, Inside, TypeOK, Frames, Frame, ValuePlaces, Standings
<1> QED BY <1>1, <1>2, <1>3, <1>4, <1>5, <1>6, <1>7, <1>8

LEMMA SetFailsInv ==
  ASSUME IInv, NEW c \in Callers, SetFails(c)
  PROVE  IInv'
<1> USE DEF SetFails
<1>a. val[c] \in {"free", "null"}
  BY DEF Frames, Frame, ValuePlaces, TypeOK
<1>b. /\ Entry(val[c], pc[c] = "fill") \in MemoryEntries
      /\ Entry(val[c], pc[c] = "fill").s # "due"
      /\ Entry(val[c], TRUE) \in MemoryEntries
      /\ Entry(val[c], TRUE).s # "due"
      /\ RedisEntry(val[c]) \in RedisEntries
      /\ RedisEntry(val[c]).s = val[c]
      /\ RedisEntry(val[c]).last = FALSE
  BY <1>a, EntriesMade
<1>c. \A d \in Callers, places \in SUBSET RemoverPlaces :
        Owes(d, places) => Owes(d, places)' /\ op'[d] = op[d]
  BY DEF Owes, Removers, RemoverPlaces, TypeOK, Frames, Frame
<1>d. redis' # None /\ redis'.s = "due" => redis # None /\ redis.s = "due"
  BY <1>a, <1>b DEF TypeOK
<1>e. redis' # None => redis'.s # "back"
  BY <1>a, <1>b DEF Duty
<1>1. TypeOK'
  BY <1>b DEF TypeOK, Ops, Places, Standings
<1>2. Frames'
  BY DEF Frames, Frame, RemoverPlaces, ValuePlaces, TypeOK, Standings
<1>3. SingleFlight'
  BY DEF SingleFlight, Inside, TypeOK, Frames, Frame
<1>4. RunIsStored'
  BY <1>b DEF RunIsStored, SingleFlight, Inside, TypeOK, Frames, Frame
<1>5. TornAreKnown'
  BY <1>b DEF TornAreKnown, TypeOK, Frames, Frame
<1>6. NothingUntracked'
  BY DEF NothingUntracked, Writers, TypeOK, Frames, Frame, ValuePlaces
<1>7. Duty'
  BY <1>c, <1>d, <1>e DEF Duty, RemoverPlaces
<1>8. NullsAreKnown'
  BY DEF NullsAreKnown, SingleFlight, Inside, TypeOK, Frames, Frame, ValuePlaces
<1> QED BY <1>1, <1>2, <1>3, <1>4, <1>5, <1>6, <1>7, <1>8

-----------------------------------------------------------------------------
(* The removals: how each begins, its steps, and its failure.              *)
LEMMA RemoveByKeyInv ==
  ASSUME IInv, NEW c \in Callers, NEW o \in {"delete", "pattern"}, RemoveByKey(c, o)
  PROVE  IInv'
<1> USE DEF RemoveByKey, HandsAreExcused, Excused
<1>a. \A r \in {"delete", "pattern", "tag"} : Marked(r) \in {"due", "free"}
  BY DEF Marked, Standings
<1>b. /\ Remark(redis, Marked(o)) \in {None} \cup RedisEntries
      /\ Remark(redis, Marked(o)) = None <=> redis = None
      /\ redis # None => /\ Remark(redis, Marked(o)).s =
                              IF redis.s = "null" THEN "null" ELSE Marked(o)
                         /\ Remark(redis, Marked(o)).last = redis.last
  BY <1>a, RedisRemarked DEF TypeOK, Standings
<1>c. \A p \in Processes :
        /\ Excuse(mem[p]) \in {None} \cup MemoryEntries
        /\ Excuse(mem[p]) = None <=> mem[p] = None
        /\ Excuse(mem[p]) # None => Excuse(mem[p]).s # "due"
  BY MemoryExcused DEF TypeOK
<1>1. TypeOK'
  BY <1>b, <1>c DEF TypeOK, Ops, Places, Standings
<1>2. Frames'
  BY DEF Frames, Frame, RemoverPlaces, ValuePlaces, TypeOK, Standings
<1>3. SingleFlight'
  BY DEF SingleFlight, Inside, TypeOK, Frames, Frame
<1>4. RunIsStored'
  BY <1>a, <1>b, <1>c DEF RunIsStored, SingleFlight, Inside, TypeOK, Frames, Frame
<1>5. TornAreKnown'
  BY <1>b, <1>c DEF TornAreKnown, TypeOK, Frames, Frame
<1>6. NothingUntracked'
  BY <1>b, <1>c DEF NothingUntracked, Writers, TypeOK, Frames, Frame, ValuePlaces
<1>7. Duty'
  BY <1>b, <1>c DEF Duty, Owes, Removers, TypeOK, Frames, Frame, RemoverPlaces, Marked
<1>8. NullsAreKnown'
  BY DEF NullsAreKnown, SingleFlight, Inside, TypeOK, Frames, Frame, ValuePlaces
<1> QED BY <1>1, <1>2, <1>3, <1>4, <1>5, <1>6, <1>7, <1>8

LEMMA RemoveByTagInv ==
  ASSUME IInv, NEW c \in Callers, RemoveByTag(c)
  PROVE  IInv'
<1> USE DEF RemoveByTag, HandsAreExcused, Excused
<1>a. Marked("tag") \in {"due", "free"}
  BY DEF Marked, Standings
<1>b. /\ Remark(redis, Marked("tag")) \in {None} \cup RedisEntries
      /\ Remark(redis, Marked("tag")) = None <=> redis = None
      /\ redis # None => /\ Remark(redis, Marked("tag")).s =
                              IF redis.s = "null" THEN "null" ELSE Marked("tag")
                         /\ Remark(redis, Marked("tag")).last = redis.last
  BY <1>a, RedisRemarked DEF TypeOK, Standings
<1>c. \A p \in Processes :
        /\ Excuse(mem[p]) \in {None} \cup MemoryEntries
        /\ Excuse(mem[p]) = None <=> mem[p] = None
        /\ Excuse(mem[p]) # None => Excuse(mem[p]).s # "due"
  BY MemoryExcused DEF TypeOK
<1>d. /\ Remark(mem[home[c]], Marked("tag")) \in {None} \cup MemoryEntries
      /\ Remark(mem[home[c]], Marked("tag")) = None <=> mem[home[c]] = None
      /\ mem[home[c]] # None => Remark(mem[home[c]], Marked("tag")).s \in {"null", Marked("tag")}
  BY <1>a, MemoryRemarked DEF TypeOK, Standings
<1>1. TypeOK'
  BY <1>b, <1>c, <1>d DEF TypeOK, Ops, Places, Standings
<1>2. Frames'
  BY DEF Frames, Frame, RemoverPlaces, ValuePlaces, TypeOK, Standings
<1>3. SingleFlight'
  BY DEF SingleFlight, Inside, TypeOK, Frames, Frame
<1>4. RunIsStored'
  BY <1>a, <1>b, <1>c, <1>d DEF RunIsStored, SingleFlight, Inside, TypeOK, Frames, Frame
<1>5. TornAreKnown'
  BY <1>b, <1>c, <1>d DEF TornAreKnown, TypeOK, Frames, Frame
<1>6. NothingUntracked'
  BY <1>b, <1>c, <1>d DEF NothingUntracked, Writers, TypeOK, Frames, Frame, ValuePlaces
<1>7. Duty'
  BY <1>b, <1>c, <1>d DEF Duty, Owes, Removers, TypeOK, Frames, Frame, RemoverPlaces,
                          Marked, NothingUntracked
<1>8. NullsAreKnown'
  BY DEF NullsAreKnown, SingleFlight, Inside, TypeOK, Frames, Frame, ValuePlaces
<1> QED BY <1>1, <1>2, <1>3, <1>4, <1>5, <1>6, <1>7, <1>8

LEMMA MembersInv ==
  ASSUME IInv, NEW c \in Callers, Members(c)
  PROVE  IInv'
<1> USE DEF Members
<1>1. TypeOK'
  BY DEF TypeOK, Ops, Places, Standings
<1>2. Frames'
  BY DEF Frames, Frame, RemoverPlaces, ValuePlaces, TypeOK, Standings
<1>3. SingleFlight'
  BY DEF SingleFlight, Inside, TypeOK, Frames, Frame
<1>4. RunIsStored'
  BY DEF RunIsStored, SingleFlight, Inside, TypeOK, Frames, Frame
<1>5. TornAreKnown'
  BY DEF TornAreKnown, TypeOK, Frames, Frame
<1>6. NothingUntracked'
  BY DEF NothingUntracked, Writers, TypeOK, Frames, Frame, ValuePlaces
<1>7. Duty'
  BY DEF Duty, Owes, Removers, TypeOK, Frames, Frame, RemoverPlaces
<1>8. NullsAreKnown'
  BY DEF NullsAreKnown, SingleFlight, Inside, TypeOK, Frames, Frame, ValuePlaces
<1> QED BY <1>1, <1>2, <1>3, <1>4, <1>5, <1>6, <1>7, <1>8

LEMMA ScanInv ==
  ASSUME IInv, NEW c \in Callers, Scan(c)
  PROVE  IInv'
<1> USE DEF Scan
<1>1. TypeOK'
  BY DEF TypeOK, Ops, Places, Standings
<1>2. Frames'
  BY DEF Frames, Frame, RemoverPlaces, ValuePlaces, TypeOK, Standings
<1>3. SingleFlight'
  BY DEF SingleFlight, Inside, TypeOK, Frames, Frame
<1>4. RunIsStored'
  BY DEF RunIsStored, SingleFlight, Inside, TypeOK, Frames, Frame
<1>5. TornAreKnown'
  BY DEF TornAreKnown, TypeOK, Frames, Frame
<1>6. NothingUntracked'
  BY DEF NothingUntracked, Writers, TypeOK, Frames, Frame, ValuePlaces
<1>7. Duty'
  BY DEF Duty, Owes, Removers, TypeOK, Frames, Frame, RemoverPlaces
<1>8. NullsAreKnown'
  BY DEF NullsAreKnown, SingleFlight, Inside, TypeOK, Frames, Frame, ValuePlaces
<1> QED BY <1>1, <1>2, <1>3, <1>4, <1>5, <1>6, <1>7, <1>8

LEMMA EraseInv ==
  ASSUME IInv, NEW c \in Callers, Erase(c)
  PROVE  IInv'
<1> USE DEF Erase, Gone, AtTtl
<1>1. TypeOK'
  BY DEF TypeOK, Ops, Places, Standings
<1>2. Frames'
  BY DEF Frames, Frame, RemoverPlaces, ValuePlaces, TypeOK, Standings
<1>3. SingleFlight'
  BY DEF SingleFlight, Inside, TypeOK, Frames, Frame
<1>4. RunIsStored'
  BY DEF RunIsStored, SingleFlight, Inside, TypeOK, Frames, Frame
<1>5. TornAreKnown'
  BY DEF TornAreKnown, TypeOK, Frames, Frame
<1>6. NothingUntracked'
  BY DEF NothingUntracked, Writers, TypeOK, Frames, Frame, ValuePlaces
<1>7. Duty'
  BY DEF Duty, Owes, Removers, TypeOK, Frames, Frame, RemoverPlaces
<1>8. NullsAreKnown'
  BY DEF NullsAreKnown, SingleFlight, Inside, TypeOK, Frames, Frame, ValuePlaces
<1> QED BY <1>1, <1>2, <1>3, <1>4, <1>5, <1>6, <1>7, <1>8

LEMMA SRemInv ==
  ASSUME IInv, NEW c \in Callers, SRem(c)
  PROVE  IInv'
<1> USE DEF SRem, Untag, Tracked
<1>1. TypeOK'
  BY DEF TypeOK, Ops, Places, Standings
<1>2. Frames'
  BY DEF Frames, Frame, RemoverPlaces, ValuePlaces, TypeOK, Standings
<1>3. SingleFlight'
  BY DEF SingleFlight, Inside, TypeOK, Frames, Frame
<1>4. RunIsStored'
  BY DEF RunIsStored, SingleFlight, Inside, TypeOK, Frames, Frame
<1>5. TornAreKnown'
  BY DEF TornAreKnown, TypeOK, Frames, Frame
<1>6. NothingUntracked'
  BY DEF NothingUntracked, Writers, TypeOK, Frames, Frame, ValuePlaces
<1>7. Duty'
  BY DEF Duty, Owes, Removers, TypeOK, Frames, Frame, RemoverPlaces
<1>8. NullsAreKnown'
  BY DEF NullsAreKnown, SingleFlight, Inside, TypeOK, Frames, Frame, ValuePlaces
<1> QED BY <1>1, <1>2, <1>3, <1>4, <1>5, <1>6, <1>7, <1>8

LEMMA DropInv ==
  ASSUME IInv, NEW c \in Callers, Drop(c)
  PROVE  IInv'
<1> USE DEF Drop, Shelve
<1>1. TypeOK'
  BY DEF TypeOK, Ops, Places, Standings
<1>2. Frames'
  BY DEF Frames, Frame, RemoverPlaces, ValuePlaces, TypeOK, Standings
<1>3. SingleFlight'
  BY DEF SingleFlight, Inside, TypeOK, Frames, Frame
<1>4. RunIsStored'
  BY DEF RunIsStored, SingleFlight, Inside, TypeOK, Frames, Frame
<1>5. TornAreKnown'
  BY DEF TornAreKnown, TypeOK, Frames, Frame
<1>6. NothingUntracked'
  BY DEF NothingUntracked, Writers, TypeOK, Frames, Frame, ValuePlaces
<1>7. Duty'
  BY DEF Duty, Owes, Removers, TypeOK, Frames, Frame, RemoverPlaces
<1>8. NullsAreKnown'
  BY DEF NullsAreKnown, SingleFlight, Inside, TypeOK, Frames, Frame, ValuePlaces
<1> QED BY <1>1, <1>2, <1>3, <1>4, <1>5, <1>6, <1>7, <1>8

LEMMA CleanInv ==
  ASSUME IInv, NEW c \in Callers, Clean(c)
  PROVE  IInv'
<1> USE DEF Clean, Untag, Tracked
<1>1. TypeOK'
  BY DEF TypeOK, Ops, Places, Standings
<1>2. Frames'
  BY DEF Frames, Frame, RemoverPlaces, ValuePlaces, TypeOK, Standings
<1>3. SingleFlight'
  BY DEF SingleFlight, Inside, TypeOK, Frames, Frame
<1>4. RunIsStored'
  BY DEF RunIsStored, SingleFlight, Inside, TypeOK, Frames, Frame
<1>5. TornAreKnown'
  BY DEF TornAreKnown, TypeOK, Frames, Frame
<1>6. NothingUntracked'
  BY DEF NothingUntracked, Writers, TypeOK, Frames, Frame, ValuePlaces
<1>7. Duty'
  BY DEF Duty, Owes, Removers, TypeOK, Frames, Frame, RemoverPlaces
<1>8. NullsAreKnown'
  BY DEF NullsAreKnown, SingleFlight, Inside, TypeOK, Frames, Frame, ValuePlaces
<1> QED BY <1>1, <1>2, <1>3, <1>4, <1>5, <1>6, <1>7, <1>8

LEMMA RemovalFailsInv ==
  ASSUME IInv, NEW c \in Callers, RemovalFails(c)
  PROVE  IInv'
<1> USE DEF RemovalFails, Gone, AtTtl, Untag, Tracked, HandsAreExcused, Excused
<1>a. /\ Excuse(redis) \in {None} \cup RedisEntries
      /\ Excuse(redis) = None <=> redis = None
      /\ redis # None => /\ Excuse(redis).s \notin {"due", "back"}
                         /\ Excuse(redis).s = "null" <=> redis.s = "null"
                         /\ Excuse(redis).last = redis.last
  BY RedisExcused DEF TypeOK
<1>b. \A p \in Processes :
        /\ Excuse(mem[p]) \in {None} \cup MemoryEntries
        /\ Excuse(mem[p]) = None <=> mem[p] = None
        /\ Excuse(mem[p]) # None => Excuse(mem[p]).s # "due"
  BY MemoryExcused DEF TypeOK
<1>1. TypeOK'
  BY <1>a, <1>b DEF TypeOK, Ops, Places, Standings
<1>2. Frames'
  BY DEF Frames, Frame, RemoverPlaces, ValuePlaces, TypeOK, Standings
<1>3. SingleFlight'
  BY DEF SingleFlight, Inside, TypeOK, Frames, Frame
<1>4. RunIsStored'
  BY <1>a, <1>b DEF RunIsStored, SingleFlight, Inside, TypeOK, Frames, Frame
<1>5. TornAreKnown'
  BY <1>a, <1>b DEF TornAreKnown, TypeOK, Frames, Frame
<1>6. NothingUntracked'
  BY <1>a, <1>b DEF NothingUntracked, Writers, TypeOK, Frames, Frame, ValuePlaces
<1>7. Duty'
  BY <1>a, <1>b DEF Duty, Owes, Removers, TypeOK, Frames, Frame, RemoverPlaces
<1>8. NullsAreKnown'
  BY DEF NullsAreKnown, SingleFlight, Inside, TypeOK, Frames, Frame, ValuePlaces
<1> QED BY <1>1, <1>2, <1>3, <1>4, <1>5, <1>6, <1>7, <1>8

-----------------------------------------------------------------------------
(* What happens around the callers.                                        *)
LEMMA LockExpiresInv ==
  ASSUME IInv, LockExpires
  PROVE  IInv'
<1> USE DEF LockExpires
<1>1. TypeOK'
  BY DEF TypeOK, Ops, Places, Standings
<1>2. Frames'
  BY DEF Frames, Frame, RemoverPlaces, ValuePlaces, TypeOK, Standings
<1>3. SingleFlight'
  BY DEF SingleFlight, Inside, TypeOK, Frames, Frame
<1>4. RunIsStored'
  BY DEF RunIsStored, SingleFlight, Inside, TypeOK, Frames, Frame
<1>5. TornAreKnown'
  BY DEF TornAreKnown, TypeOK, Frames, Frame
<1>6. NothingUntracked'
  BY DEF NothingUntracked, Writers, TypeOK, Frames, Frame, ValuePlaces
<1>7. Duty'
  BY DEF Duty, Owes, Removers, TypeOK, Frames, Frame, RemoverPlaces
<1>8. NullsAreKnown'
  BY DEF NullsAreKnown, SingleFlight, Inside, TypeOK, Frames, Frame, ValuePlaces
<1> QED BY <1>1, <1>2, <1>3, <1>4, <1>5, <1>6, <1>7, <1>8

LEMMA MemoryExpiresInv ==
  ASSUME IInv, NEW p \in Processes, MemoryExpires(p)
  PROVE  IInv'
<1> USE DEF MemoryExpires
<1>1. TypeOK'
  BY DEF TypeOK, Ops, Places, Standings
<1>2. Frames'
  BY DEF Frames, Frame, RemoverPlaces, ValuePlaces, TypeOK, Standings
<1>3. SingleFlight'
  BY DEF SingleFlight, Inside, TypeOK, Frames, Frame
<1>4. RunIsStored'
  BY DEF RunIsStored, SingleFlight, Inside, TypeOK, Frames, Frame
<1>5. TornAreKnown'
  BY DEF TornAreKnown, TypeOK, Frames, Frame
<1>6. NothingUntracked'
  BY DEF NothingUntracked, Writers, TypeOK, Frames, Frame, ValuePlaces
<1>7. Duty'
  BY DEF Duty, Owes, Removers, TypeOK, Frames, Frame, RemoverPlaces
<1>8. NullsAreKnown'
  BY DEF NullsAreKnown, SingleFlight, Inside, TypeOK, Frames, Frame, ValuePlaces
<1> QED BY <1>1, <1>2, <1>3, <1>4, <1>5, <1>6, <1>7, <1>8

LEMMA RedisAgesInv ==
  ASSUME IInv, RedisAges
  PROVE  IInv'
<1> USE DEF RedisAges, AtTtl
<1>a. /\ redis' \in RedisEntries
      /\ redis'.s = redis.s
  BY DEF TypeOK, RedisEntries
<1>1. TypeOK'
  BY <1>a DEF TypeOK, Ops, Places, Standings
<1>2. Frames'
  BY DEF Frames, Frame, RemoverPlaces, ValuePlaces, TypeOK, Standings
<1>3. SingleFlight'
  BY DEF SingleFlight, Inside, TypeOK, Frames, Frame
<1>4. RunIsStored'
  BY <1>a DEF RunIsStored, SingleFlight, Inside, TypeOK, Frames, Frame
<1>5. TornAreKnown'
  BY <1>a DEF TornAreKnown, TypeOK, Frames, Frame
<1>6. NothingUntracked'
  BY <1>a DEF NothingUntracked, Writers, TypeOK, Frames, Frame, ValuePlaces
<1>7. Duty'
  BY <1>a DEF Duty, Owes, Removers, TypeOK, Frames, Frame, RemoverPlaces
<1>8. NullsAreKnown'
  BY DEF NullsAreKnown, SingleFlight, Inside, TypeOK, Frames, Frame, ValuePlaces
<1> QED BY <1>1, <1>2, <1>3, <1>4, <1>5, <1>6, <1>7, <1>8

LEMMA RedisExpiresInv ==
  ASSUME IInv, RedisExpires
  PROVE  IInv'
<1> USE DEF RedisExpires, Gone, AtTtl
<1>1. TypeOK'
  BY DEF TypeOK, Ops, Places, Standings
<1>2. Frames'
  BY DEF Frames, Frame, RemoverPlaces, ValuePlaces, TypeOK, Standings
<1>3. SingleFlight'
  BY DEF SingleFlight, Inside, TypeOK, Frames, Frame
<1>4. RunIsStored'
  BY DEF RunIsStored, SingleFlight, Inside, TypeOK, Frames, Frame
<1>5. TornAreKnown'
  BY DEF TornAreKnown, TypeOK, Frames, Frame
<1>6. NothingUntracked'
  BY DEF NothingUntracked, Writers, TypeOK, Frames, Frame, ValuePlaces
<1>7. Duty'
  BY DEF Duty, Owes, Removers, TypeOK, Frames, Frame, RemoverPlaces
<1>8. NullsAreKnown'
  BY DEF NullsAreKnown, SingleFlight, Inside, TypeOK, Frames, Frame, ValuePlaces
<1> QED BY <1>1, <1>2, <1>3, <1>4, <1>5, <1>6, <1>7, <1>8

LEMMA CrashInv ==
  ASSUME IInv, NEW p \in Processes, Crash(p)
  PROVE  IInv'
<1> USE DEF Crash, Excused
<1>a. /\ Excuse(redis) \in {None} \cup RedisEntries
      /\ Excuse(redis) = None <=> redis = None
      /\ redis # None => /\ Excuse(redis).s \notin {"due", "back"}
                         /\ Excuse(redis).s = "null" <=> redis.s = "null"
                         /\ Excuse(redis).last = redis.last
  BY RedisExcused DEF TypeOK
<1>b. \A q \in Processes :
        /\ Excuse(mem[q]) \in {None} \cup MemoryEntries
        /\ Excuse(mem[q]) = None <=> mem[q] = None
        /\ Excuse(mem[q]) # None => Excuse(mem[q]).s # "due"
  BY MemoryExcused DEF TypeOK
<1>1. TypeOK'
  BY <1>a, <1>b DEF TypeOK, Ops, Places, Standings
<1>2. Frames'
  BY DEF Frames, Frame, RemoverPlaces, ValuePlaces, TypeOK, Standings
<1>3. SingleFlight'
  BY DEF SingleFlight, Inside, TypeOK, Frames, Frame
<1>4. RunIsStored'
  BY <1>a, <1>b DEF RunIsStored, SingleFlight, Inside, TypeOK, Frames, Frame
<1>5. TornAreKnown'
  BY <1>a, <1>b DEF TornAreKnown, TypeOK, Frames, Frame
<1>6. NothingUntracked'
  BY <1>a, <1>b DEF NothingUntracked, Writers, TypeOK, Frames, Frame, ValuePlaces
<1>7. Duty'
  BY <1>a, <1>b DEF Duty, Owes, Removers, TypeOK, Frames, Frame, RemoverPlaces
<1>8. NullsAreKnown'
  BY DEF NullsAreKnown, SingleFlight, Inside, TypeOK, Frames, Frame, ValuePlaces
<1> QED BY <1>1, <1>2, <1>3, <1>4, <1>5, <1>6, <1>7, <1>8

-----------------------------------------------------------------------------
LEMMA StepInv == IInv /\ [Next]_vars => IInv'
<1> SUFFICES ASSUME IInv, [Next]_vars PROVE IInv'
  OBVIOUS
<1>1. ASSUME NEW c \in Callers, Begin(c) PROVE IInv'
  BY <1>1, GetInv, WriteInv, RemoveByKeyInv, RemoveByTagInv DEF Begin
<1>2. ASSUME NEW c \in Callers, Proceed(c) PROVE IInv'
  <2>1. CASE Reading(c)
    BY <2>1, RedisGetInv, RedisTtlInv, FillInv DEF Reading
  <2>2. CASE Locking(c)
    BY <2>2, AcquireInv, RecheckInv, ReleaseInv DEF Locking
  <2>3. CASE Writing(c)
    BY <2>3, ComputeInv, StoreInv, SetExInv, SAddInv DEF Writing
  <2>4. CASE Removing(c)
    BY <2>4, MembersInv, ScanInv, EraseInv, SRemInv, DropInv, CleanInv DEF Removing
  <2> QED BY <1>2, <2>1, <2>2, <2>3, <2>4 DEF Proceed
<1>3. ASSUME NEW c \in Callers, Fault(c) PROVE IInv'
  BY <1>3, GetFailsInv, AcquireFailsInv, ReleaseFailsInv, ComputeRaisesInv,
     SetFailsInv, RemovalFailsInv DEF Fault
<1>4. CASE Environment
  BY <1>4, LockExpiresInv, RedisAgesInv, RedisExpiresInv, MemoryExpiresInv, CrashInv
  DEF Environment
<1>5. CASE UNCHANGED vars
  <2> USE <1>5 DEF vars
  <2>1. TypeOK'
    BY DEF TypeOK
  <2>2. Frames' /\ SingleFlight' /\ RunIsStored' /\ NullsAreKnown' /\ TornAreKnown'
    BY DEF Frames, Frame, SingleFlight, RunIsStored, NullsAreKnown, TornAreKnown, Inside
  <2>3. NothingUntracked' /\ Duty'
    BY DEF NothingUntracked, Duty, Owes, Writers, Removers
  <2> QED BY <2>1, <2>2, <2>3
<1> QED BY <1>1, <1>2, <1>3, <1>4, <1>5 DEF Next

(* The inductive invariant holds in every reachable state.                 *)
THEOREM Invariance == Spec => []IInv
  BY InitInv, StepInv, PTL DEF Spec

(* Every reachable state is well typed, for any callers and processes.     *)
THEOREM TypeCorrect == Spec => []TypeOK
<1>1. IInv => TypeOK
  OBVIOUS
<1> QED BY <1>1, Invariance, PTL

(* Nobody but its owner is inside the lock of get_or_set, and a latecomer  *)
(* never releases the lock of its successor.                               *)
THEOREM OwnersOnly == Spec => []SingleFlight
<1>1. IInv => SingleFlight
  OBVIOUS
<1> QED BY <1>1, Invariance, PTL

(* Once an undisturbed removal is over, nothing that it found in Redis or  *)
(* in the memory of its process is still in its place, and nothing read    *)
(* during it gets back to Redis.  To memory it may: NothingBroughtBack is  *)
(* false.                                                                  *)
THEOREM RemovalsStick == Spec => []RemovalSticks
<1>1. IInv => RemovalSticks
  BY DEF Duty, Owes, RemovalSticks
<1> QED BY <1>1, Invariance, PTL

(* While the lock holds, get_or_set calls the factory again only if its    *)
(* last call returned None, or what it returned was lost since or is       *)
(* hidden by a None in memory.                                             *)
THEOREM OneFactoryCall == Spec => FactoryRunsOnce
<1> DEFINE Step(c) ==
      /\ Inside(c)
      /\ pc[c] # "compute" /\ pc'[c] = "compute"
      => ~ran \/ ~ran' \/ Null(mem[home[c]])
<1>1. ASSUME IInv, Next, NEW c \in Callers PROVE Step(c)
  <2>1. ASSUME RedisGet(c) PROVE Step(c)
    <3>1. pc[c] = "asked" /\ (pc'[c] = "compute" => redis = None)
      BY <1>1, <2>1 DEF RedisGet, TypeOK
    <3>2. Inside(c) /\ redis = None => ~ran
      BY <1>1, <3>1 DEF RunIsStored, SingleFlight
    <3> QED BY <3>1, <3>2
  <2>2. ASSUME GetFails(c) PROVE Step(c)
    BY <2>2 DEF GetFails
  <2>3. ASSUME pc[c] = "idle" PROVE Step(c)
    BY <1>1, <2>3 DEF Inside, Frames, Frame
  <2>4. ASSUME Fill(c) PROVE Step(c)
    <3>1. pc'[c] = "compute" => val[c] = "null"
      BY <1>1, <2>4 DEF Fill, TypeOK
    <3> QED BY <1>1, <3>1 DEF NullsAreKnown
  <2>5. ASSUME Recheck(c) PROVE Step(c)
    BY <1>1, <2>5 DEF Recheck, TypeOK
  <2>6. ASSUME pc[c] # "compute", pc'[c] = "compute"
        PROVE  pc[c] = "idle" \/ RedisGet(c) \/ Fill(c) \/ Recheck(c) \/ GetFails(c)
    <3> USE <1>1, <2>6 DEF TypeOK
    <3>1. ASSUME NEW d \in Callers, Begin(d) PROVE pc[c] = "idle"
      BY <3>1 DEF Begin, Get, Write, RemoveByKey, RemoveByTag
    <3>2. ASSUME NEW d \in Callers, Reading(d) PROVE RedisGet(c) \/ Fill(c)
      BY <3>2 DEF Reading, RedisGet, AfterMiss, RedisTtl, Fill
    <3>3. ASSUME NEW d \in Callers, Locking(d) PROVE Recheck(c)
      BY <3>3 DEF Locking, Acquire, AfterMiss, Recheck, Release
    <3>4. ASSUME NEW d \in Callers, Writing(d) PROVE FALSE
      BY <3>4 DEF Writing, Compute, Store, SetEx, SAdd
    <3>5. ASSUME NEW d \in Callers, Removing(d) PROVE FALSE
      BY <3>5 DEF Removing, Members, Scan, Erase, SRem, Drop, Clean
    <3>6. ASSUME NEW d \in Callers, Fault(d) PROVE GetFails(c)
      BY <3>6 DEF Fault, GetFails, AcquireFails, ReleaseFails, ComputeRaises,
                  SetFails, RemovalFails
    <3>7. CASE Environment
      BY <3>7 DEF Environment, LockExpires, RedisAges, RedisExpires, MemoryExpires, Crash
    <3> QED BY <3>1, <3>2, <3>3, <3>4, <3>5, <3>6, <3>7 DEF Next, Proceed
  <2> QED BY <2>1, <2>2, <2>3, <2>4, <2>5, <2>6
<1>2. ASSUME UNCHANGED vars, NEW c \in Callers PROVE Step(c)
  BY <1>2 DEF vars
<1>3. IInv /\ [Next]_vars => [\A c \in Callers : Step(c)]_vars
  BY <1>1, <1>2
<1> QED BY <1>3, Invariance, PTL DEF Spec, FactoryRunsOnce

(* An entry of memory that never expires comes from a torn read.           *)
THEOREM EndlessAreTorn == Spec => ForeverOnlyIfTorn
<1> DEFINE Step(p) ==
      /\ mem'[p] # mem[p] /\ mem'[p] # None
      /\ ~mem'[p].mortal
      => \/ mem[p] # None /\ ~mem[p].mortal
         \/ \E c \in torn : home[c] = p /\ pc[c] = "fillForever"
<1>1. ASSUME IInv, Next, NEW p \in Processes PROVE Step(p)
  <2> USE DEF TypeOK
  <2>e. Excuse(mem[p]) # None /\ ~Excuse(mem[p]).mortal => mem[p] # None /\ ~mem[p].mortal
    BY <1>1, MemoryExcused
  <2>1. ASSUME NEW c \in Callers, Begin(c) PROVE Step(p)
    <3>1. Remark(mem[p], Marked("tag")) # None /\ ~Remark(mem[p], Marked("tag")).mortal
            => mem[p] # None /\ ~mem[p].mortal
      BY <1>1, MemoryRemarked DEF Marked, Standings
    <3> QED BY <1>1, <2>1, <2>e, <3>1 DEF Begin, Get, Write, RemoveByKey, RemoveByTag
  <2>2. ASSUME NEW c \in Callers, Proceed(c) PROVE Step(p)
    <3>1. CASE Fill(c)
      <4>1. mem'[p] # mem[p] => home[c] = p /\ mem'[p] = Entry(val[c], pc[c] = "fill")
        BY <1>1, <3>1 DEF Fill, Shelve
      <4>2. pc[c] = "fillForever" => c \in torn
        BY <1>1 DEF TornAreKnown
      <4>3. Entry(val[c], pc[c] = "fill").mortal = (pc[c] = "fill")
        BY DEF Entry
      <4>4. ~mem'[p].mortal /\ mem'[p] # mem[p] => pc[c] = "fillForever"
        BY <3>1, <4>1, <4>3 DEF Fill
      <4> QED BY <4>1, <4>2, <4>4
    <3>2. CASE Store(c)
      <4>1. mem'[p] # mem[p] => mem'[p] = Entry(val[c], TRUE)
        BY <1>1, <3>2 DEF Store, Shelve
      <4> QED BY <4>1 DEF Entry
    <3>3. CASE Drop(c)
      BY <1>1, <3>3 DEF Drop, Shelve
    <3>4. ASSUME ~Fill(c), ~Store(c), ~Drop(c) PROVE mem' = mem
      BY <2>2, <3>4 DEF Proceed, Reading, Locking, Writing, Removing, RedisGet, RedisTtl,
         Acquire, Recheck, Release, Compute, SetEx, SAdd, Members, Scan, Erase, SRem, Clean
    <3> QED BY <3>1, <3>2, <3>3, <3>4
  <2>3. ASSUME NEW c \in Callers, Fault(c) PROVE Step(p)
    BY <2>e, <2>3 DEF Fault, GetFails, AcquireFails, ReleaseFails, ComputeRaises,
                      SetFails, RemovalFails
  <2>4. CASE Environment
    BY <1>1, <2>e, <2>4
    DEF Environment, LockExpires, RedisAges, RedisExpires, MemoryExpires, Crash
  <2> QED BY <1>1, <2>1, <2>2, <2>3, <2>4 DEF Next
<1>2. ASSUME UNCHANGED vars, NEW p \in Processes PROVE Step(p)
  BY <1>2 DEF vars
<1>3. IInv /\ [Next]_vars => [\A p \in Processes : Step(p)]_vars
  BY <1>1, <1>2
<1> QED BY <1>3, Invariance, PTL DEF Spec, ForeverOnlyIfTorn

===============================================================================
