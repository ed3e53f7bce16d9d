----------------------------- MODULE CacheManager -----------------------------
(***************************************************************************)
(* One key of the two-level cache of src/backend/core/cache_manager.py: a  *)
(* dictionary in the memory of each process in front of Redis, which the   *)
(* processes share, with a set of keys per tag, a lock against stampedes   *)
(* and three ways to remove the key.  Redis is reached by network: a step  *)
(* is one command taking effect there, or what a caller does with the      *)
(* reply up to its next command.                                           *)
(*                                                                         *)
(* Values are known by their standing alone: "due" to go, since a removal  *)
(* of the key began undisturbed after they were stored; "back" if they     *)
(* were due when a read took them out of Redis; "free" if no removal owes  *)
(* anything for them, because they were computed since, were in a caller's *)
(* hands when it began, or because it was disturbed.  "null" is a result   *)
(* that is None: it is stored like any other, and every reader takes it    *)
(* for a miss.                                                             *)
(***************************************************************************)
EXTENDS Naturals, FiniteSets

CONSTANTS
  Callers,    \* calls in progress at one time
  Processes,  \* web and Celery processes, each with its cache_manager
  None,       \* no entry, no value, no owner
  Ownerless   \* the token of a caller that is gone

Standings     == {"free", "due", "back", "null"}
MemoryEntries == [s : Standings, mortal : BOOLEAN]
RedisEntries  == [s : Standings, last : BOOLEAN]

ASSUME CacheAssumption ==
  /\ None \notin Callers \cup Standings \cup MemoryEntries \cup RedisEntries
  /\ Ownerless \notin Callers \cup {None}

VARIABLES
  mem,       \* _memory_cache of each process
  redis,     \* the key in Redis
  tagged,    \* the key is in the set of its tag in Redis
  known,     \* processes whose _cache_tags has the key
  lock,      \* owner of the lock in Redis
  home,      \* the process of each caller
  op,        \* its operation: "single" is get_or_set, "locked" once it has
             \* the lock, "plain" whatever else reads or writes
  pc,        \* and where it is
  val,       \* the standing of the value in its hands
  torn,      \* history: readers whose key went, or was about to, under them
  overdue,   \* history: callers whose lock has expired
  ran,       \* history: a factory was called under the lock, nothing lost since
  untracked  \* history: the tag does not have the key, by a fault or an overlap

vars == <<mem, redis, tagged, known, lock, home, op, pc, val,
          torn, overdue, ran, untracked>>

levels  == <<mem, redis>>
tags    == <<tagged, known, untracked>>
locking == <<lock, overdue, ran>>
caller  == <<op, pc, val, torn>>

Init ==
  /\ mem = [p \in Processes |-> None]
  /\ redis = None
  /\ tagged = FALSE
  /\ known = {}
  /\ lock = None
  /\ home \in [Callers -> Processes]
  /\ op = [c \in Callers |-> "none"]
  /\ pc = [c \in Callers |-> "idle"]
  /\ val = [c \in Callers |-> None]
  /\ torn = {}
  /\ overdue = {}
  /\ ran = FALSE
  /\ untracked = FALSE

-----------------------------------------------------------------------------
Go(c, where)   == pc' = [pc EXCEPT ![c] = where]
Hold(c, s)     == val' = [val EXCEPT ![c] = s]
Shelve(c, e)   == mem' = [mem EXCEPT ![home[c]] = e]
AtTtl          == {c \in Callers : pc[c] = "ttl"}
Entry(s, m)    == [s |-> s, mortal |-> m]
RedisEntry(s)  == [s |-> s, last |-> FALSE]

(* There is an entry, and its reader does, or does not, take it for a miss.*)
Null(e) == e # None /\ e.s = "null"
Hit(e)  == e # None /\ e.s # "null"

(* The operation is over, or the lock is left first.                       *)
Leave(c) ==
  /\ IF op[c] = "locked"
       THEN Go(c, "release") /\ UNCHANGED op
       ELSE Go(c, "idle") /\ op' = [op EXCEPT ![c] = "none"]
  /\ Hold(c, None)
  /\ torn' = torn \ {c}

(* The caller is inside the lock and the lock has not expired under it.    *)
Inside(c) == op[c] = "locked" /\ c \notin overdue

(* What follows a read that returns None: get_or_set takes the lock and,   *)
(* having it, calls the factory; cache_aside calls the function.           *)
Missed(o) == IF o = "single" THEN "lock" ELSE "compute"

AfterMiss(c) ==
  /\ Go(c, Missed(op[c]))
  /\ ran' = (ran \/ Inside(c))

(* get() of get_or_set and of cache_aside.  A hit in memory returns at     *)
(* once and changes nothing, an expired entry counts as none, and a None   *)
(* in memory is returned without a look at Redis.                          *)
Get(c, o) ==
  /\ pc[c] = "idle"
  /\ ~Hit(mem[home[c]])
  /\ op' = [op EXCEPT ![c] = o]
  /\ Go(c, IF mem[home[c]] = None THEN "asked" ELSE Missed(o))
  /\ UNCHANGED <<levels, tags, locking, home, val, torn>>

(* redis.get: a hit is followed by a second command, ttl.                  *)
RedisGet(c) ==
  /\ pc[c] = "asked"
  /\ IF redis = None
       THEN AfterMiss(c) /\ UNCHANGED <<val, torn>>
       ELSE /\ Go(c, "ttl")
            /\ Hold(c, IF redis.s = "due" THEN "back" ELSE redis.s)
            /\ torn' = IF redis.last THEN torn \cup {c} ELSE torn
            /\ UNCHANGED ran
  /\ UNCHANGED <<levels, tags, lock, overdue, home, op>>

(* Mutation of RedisTtl: the answer is not looked at.                      *)
RedisTtlIgnored(c) ==
  /\ pc[c] = "ttl"
  /\ Go(c, "fillForever")
  /\ UNCHANGED <<levels, tags, locking, home, op, val, torn>>

(* redis.ttl answers -2 for a key that is gone and rounds the last half    *)
(* second to 0; both make an entry that never expires.                     *)
RedisTtl(c) ==
  /\ pc[c] = "ttl"
  /\ Go(c, IF redis = None \/ redis.last THEN "fillForever" ELSE "fill")
  /\ UNCHANGED <<levels, tags, locking, home, op, val, torn>>

(* The reply to ttl has come: the value goes to memory and get() returns.  *)
Fill(c) ==
  /\ pc[c] \in {"fill", "fillForever"}
  /\ Shelve(c, Entry(val[c], pc[c] = "fill"))
  /\ IF val[c] = "null"
       THEN AfterMiss(c) /\ Hold(c, None) /\ torn' = torn \ {c} /\ UNCHANGED op
       ELSE Leave(c) /\ UNCHANGED ran
  /\ UNCHANGED <<redis, tags, lock, overdue, home>>

(* Either command raises: the error is logged and the read is a miss.      *)
GetFails(c) ==
  /\ pc[c] \in {"asked", "ttl"}
  /\ Go(c, Missed(op[c]))
  /\ ran' = (ran /\ ~Inside(c))
  /\ Hold(c, None)
  /\ torn' = torn \ {c}
  /\ UNCHANGED <<levels, tags, lock, overdue, home, op>>

-----------------------------------------------------------------------------
(* RedisLock, which polls until the key is free.                           *)
Acquire(c) ==
  /\ pc[c] = "lock"
  /\ lock = None
  /\ lock' = c
  /\ op' = [op EXCEPT ![c] = "locked"]
  /\ Go(c, "recheck")
  /\ UNCHANGED <<levels, tags, overdue, ran, home, val, torn>>

(* The attempt raises, perhaps after it took effect.                       *)
AcquireFails(c) ==
  /\ pc[c] = "lock"
  /\ lock' \in {lock} \cup (IF lock = None THEN {Ownerless} ELSE {})
  /\ Leave(c)
  /\ UNCHANGED <<levels, tags, overdue, ran, home>>

(* Mutation of Recheck: no second look after the lock was acquired.        *)
RecheckNothing(c) ==
  /\ pc[c] = "recheck"
  /\ Go(c, "compute")
  /\ ran' = (ran \/ Inside(c))
  /\ UNCHANGED <<levels, tags, lock, overdue, home, op, val, torn>>

(* The second get() of get_or_set, in memory.                              *)
Recheck(c) ==
  /\ pc[c] = "recheck"
  /\ IF Null(mem[home[c]])
       THEN AfterMiss(c)
       ELSE Go(c, IF mem[home[c]] = None THEN "asked" ELSE "release") /\ UNCHANGED ran
  /\ UNCHANGED <<levels, tags, lock, overdue, home, op, val, torn>>

(* Mutation of Release: the key is deleted whoever owns it.                *)
ReleaseAnyones(c) ==
  /\ pc[c] = "release"
  /\ lock' = None
  /\ overdue' = overdue \ {c}
  /\ Go(c, "idle")
  /\ op' = [op EXCEPT ![c] = "none"]
  /\ UNCHANGED <<levels, tags, ran, home, val, torn>>

(* The lock is released by its token: one that has expired, and may be     *)
(* another's by now, is left alone and LockNotOwnedError is raised.        *)
Release(c) ==
  /\ pc[c] = "release"
  /\ lock' = IF lock = c THEN None ELSE lock
  /\ overdue' = overdue \ {c}
  /\ Go(c, "idle")
  /\ op' = [op EXCEPT ![c] = "none"]
  /\ UNCHANGED <<levels, tags, ran, home, val, torn>>

(* The command does not get through: the lock stays until it expires.      *)
ReleaseFails(c) ==
  /\ pc[c] = "release"
  /\ lock' = IF lock = c THEN Ownerless ELSE lock
  /\ overdue' = overdue \ {c}
  /\ Go(c, "idle")
  /\ op' = [op EXCEPT ![c] = "none"]
  /\ UNCHANGED <<levels, tags, ran, home, val, torn>>

(* Mutation of LockExpires: the lock has no timeout.                       *)
LockExpiresNever == FALSE /\ UNCHANGED vars

(* timeout=30.                                                             *)
LockExpires ==
  /\ lock # None
  /\ lock' = None
  /\ overdue' = overdue \cup ({lock} \cap Callers)
  /\ ran' = (ran /\ lock \notin Callers)
  /\ UNCHANGED <<levels, tags, home, caller>>

-----------------------------------------------------------------------------
(* A write-through or write-behind call or a refresh task begins to        *)
(* compute the value, whatever the cache holds.                            *)
Write(c) ==
  /\ pc[c] = "idle"
  /\ op' = [op EXCEPT ![c] = "plain"]
  /\ Go(c, "compute")
  /\ UNCHANGED <<levels, tags, locking, home, val, torn>>

(* The factory or function reads its data and returns a value or None.     *)
Compute(c) ==
  /\ pc[c] = "compute"
  /\ \E result \in {"free", "null"} :
       /\ Hold(c, result)
       /\ ran' = (ran /\ (result = "null" => ~Inside(c)))
  /\ Go(c, "store")
  /\ UNCHANGED <<levels, tags, lock, overdue, home, op, torn>>

(* Mutation of ComputeRaises: the failed result is stored.                 *)
ComputeRaisesStored(c) ==
  /\ pc[c] = "compute"
  /\ Go(c, "store")
  /\ UNCHANGED <<levels, tags, locking, home, op, val, torn>>

(* It raises; nothing is stored.                                           *)
ComputeRaises(c) ==
  /\ pc[c] = "compute"
  /\ ran' = (ran /\ ~Inside(c))
  /\ Leave(c)
  /\ UNCHANGED <<levels, tags, lock, overdue, home>>

(* set(): first memory,                                                    *)
Store(c) ==
  /\ pc[c] = "store"
  /\ Shelve(c, Entry(val[c], TRUE))
  /\ Go(c, "setex")
  /\ UNCHANGED <<redis, tags, locking, home, op, val, torn>>

(* then redis.setex, where a None replaces what others stored,             *)
SetEx(c) ==
  /\ pc[c] = "setex"
  /\ redis' = RedisEntry(val[c])
  /\ ran' = (ran /\ val[c] # "null")
  /\ Go(c, "sadd")
  /\ UNCHANGED <<mem, tags, lock, overdue, home, op, val, torn>>

(* then redis.sadd for the tag, noted in _cache_tags when it returns.      *)
SAdd(c) ==
  /\ pc[c] = "sadd"
  /\ tagged' = TRUE
  /\ untracked' = FALSE
  /\ known' = known \cup {home[c]}
  /\ Leave(c)
  /\ UNCHANGED <<levels, locking, home>>

(* A command of set() raises, perhaps after it took effect: set() returns  *)
(* FALSE, which no caller looks at.                                        *)
SetFails(c) ==
  /\ pc[c] \in {"setex", "sadd"}
  /\ redis'  \in {redis} \cup (IF pc[c] = "setex" THEN {RedisEntry(val[c])} ELSE {})
  /\ tagged' \in {tagged} \cup (IF pc[c] = "sadd" THEN {TRUE} ELSE {})
  /\ untracked' = ~tagged'
  /\ ran' = (ran /\ ~Inside(c) /\ (Null(redis') => redis' = redis))
  /\ Leave(c)
  /\ UNCHANGED <<mem, known, lock, overdue, home>>

-----------------------------------------------------------------------------
Writers  == {c \in Callers : pc[c] \in {"setex", "sadd"}}
Removers == {c \in Callers : op[c] \in {"delete", "pattern", "tag"}}

(* The standing of what is stored once a removal begins: due if it has the *)
(* key for itself and, by tag, unless the tag is known to miss it.         *)
Marked(o) ==
  IF Writers = {} /\ Removers = {} /\ (o = "tag" => tagged \/ ~untracked)
    THEN "due" ELSE "free"

Remark(e, s) == IF Hit(e) THEN [e EXCEPT !.s = s] ELSE e

(* Of a disturbed removal nothing is asked, nor of one for what is in      *)
(* somebody's hands when it begins.                                        *)
Excused(v) == IF v \in {"due", "back"} THEN "free" ELSE v
Excuse(e)  == IF e = None THEN None ELSE Remark(e, Excused(e.s))

HandsAreExcused == val' = [c \in Callers |-> Excused(val[c])]

(* delete() and invalidate_pattern() begin with the memory of the process. *)
RemoveByKey(c, o) ==
  /\ pc[c] = "idle"
  /\ op' = [op EXCEPT ![c] = o]
  /\ Go(c, IF o = "delete" THEN "erase" ELSE "scan")
  /\ redis' = Remark(redis, Marked(o))
  /\ mem' = [p \in Processes |-> IF p = home[c] THEN None ELSE Excuse(mem[p])]
  /\ HandsAreExcused
  /\ UNCHANGED <<tags, locking, home, torn>>

(* invalidate_by_tag() begins with the set in Redis.                       *)
RemoveByTag(c) ==
  /\ pc[c] = "idle"
  /\ op' = [op EXCEPT ![c] = "tag"]
  /\ Go(c, "members")
  /\ redis' = Remark(redis, Marked("tag"))
  /\ mem' = [p \in Processes |-> IF p = home[c] THEN Remark(mem[p], Marked("tag"))
                                                ELSE Excuse(mem[p])]
  /\ HandsAreExcused
  /\ UNCHANGED <<tags, locking, home, torn>>

(* redis.smembers: no keys, nothing to do.                                 *)
Members(c) ==
  /\ pc[c] = "members"
  /\ IF tagged THEN Go(c, "erase") /\ UNCHANGED <<op, val, torn>> ELSE Leave(c)
  /\ UNCHANGED <<levels, tags, locking, home>>

(* The scan finds the key or not.                                          *)
Scan(c) ==
  /\ pc[c] = "scan"
  /\ IF redis # None THEN Go(c, "erase") /\ UNCHANGED <<op, val, torn>> ELSE Leave(c)
  /\ UNCHANGED <<levels, tags, locking, home>>

(* The key is gone from Redis.                                             *)
Gone ==
  /\ redis' = None
  /\ ran' = (ran /\ redis = None)

(* redis.delete(key); delete() goes on only if this process tracks a tag.  *)
Erase(c) ==
  /\ pc[c] = "erase"
  /\ Gone
  /\ CASE op[c] = "tag" -> Go(c, "drop")
       [] op[c] = "delete" /\ home[c] \in known -> Go(c, "srem")
       [] OTHER -> Go(c, "idle")
  /\ op' = IF pc'[c] = "idle" THEN [op EXCEPT ![c] = "none"] ELSE op
  /\ torn' = torn \cup AtTtl
  /\ UNCHANGED <<mem, tags, lock, overdue, home, val>>

(* Something of the key is left that only the tag would reach.             *)
Tracked ==
  \/ redis # None
  \/ \E p \in Processes : mem[p] # None
  \/ \E c \in Callers : val[c] # None

Untag ==
  /\ tagged' = FALSE
  /\ untracked' = (untracked \/ Tracked)

(* redis.srem, and del _cache_tags[key] when it returns.                  *)
SRem(c) ==
  /\ pc[c] = "srem"
  /\ Untag
  /\ known' = known \ {home[c]}
  /\ Leave(c)
  /\ UNCHANGED <<levels, locking, home>>

(* Mutation of Drop: memory is left alone.                                 *)
DropNothing(c) ==
  /\ pc[c] = "drop"
  /\ Go(c, "clean")
  /\ UNCHANGED <<levels, tags, locking, home, op, val, torn>>

(* invalidate_by_tag() pops the key from memory after Redis answered,      *)
Drop(c) ==
  /\ pc[c] = "drop"
  /\ Shelve(c, None)
  /\ Go(c, "clean")
  /\ UNCHANGED <<redis, tags, locking, home, op, val, torn>>

(* and deletes the tag's set, with what was added to it meanwhile.         *)
Clean(c) ==
  /\ pc[c] = "clean"
  /\ Untag
  /\ Leave(c)
  /\ UNCHANGED <<levels, known, locking, home>>

(* A command of a removal raises, perhaps after it took effect.            *)
RemovalFails(c) ==
  /\ pc[c] \in {"members", "scan", "erase", "srem", "clean"}
  /\ mem' = [p \in Processes |-> Excuse(mem[p])]
  /\ HandsAreExcused
  /\ \/ redis' = Excuse(redis) /\ UNCHANGED <<ran, torn>>
     \/ pc[c] = "erase" /\ Gone /\ torn' = torn \cup AtTtl
  /\ IF pc[c] \in {"srem", "clean"}
       THEN \/ Untag
            \/ UNCHANGED <<tagged, untracked>>
       ELSE UNCHANGED <<tagged, untracked>>
  /\ Go(c, "idle")
  /\ op' = [op EXCEPT ![c] = "none"]
  /\ UNCHANGED <<known, lock, overdue, home>>

-----------------------------------------------------------------------------
(* Time passes: an entry of memory expires, unless it never does;          *)
MemoryExpires(p) ==
  /\ mem[p] # None
  /\ mem[p].mortal
  /\ mem' = [mem EXCEPT ![p] = None]
  /\ UNCHANGED <<redis, tags, locking, home, caller>>

(* the key enters its last half second in Redis;                           *)
RedisAges ==
  /\ redis # None
  /\ ~redis.last
  /\ redis' = [redis EXCEPT !.last = TRUE]
  /\ torn' = torn \cup AtTtl
  /\ UNCHANGED <<mem, tags, locking, home, op, pc, val>>

(* and expires there.                                                      *)
RedisExpires ==
  /\ redis # None
  /\ redis.last
  /\ Gone
  /\ torn' = torn \cup AtTtl
  /\ UNCHANGED <<mem, tags, lock, overdue, home, op, pc, val>>

(* A process is killed and comes back: its memory is empty, its callers    *)
(* are gone, and a lock of theirs stays until it expires.                  *)
Crash(p) ==
  LET Dead == {c \in Callers : home[c] = p} IN
  /\ mem' = [q \in Processes |-> IF q = p THEN None ELSE Excuse(mem[q])]
  /\ redis' = Excuse(redis)
  /\ known' = known \ {p}
  /\ untracked' = (untracked \/ (~tagged /\ Writers \cap Dead # {}))
  /\ op' = [c \in Callers |-> IF c \in Dead THEN "none" ELSE op[c]]
  /\ pc' = [c \in Callers |-> IF c \in Dead THEN "idle" ELSE pc[c]]
  /\ val' = [c \in Callers |-> IF c \in Dead THEN None ELSE Excused(val[c])]
  /\ torn' = torn \ Dead
  /\ overdue' = overdue \ Dead
  /\ lock' = IF lock \in Dead THEN Ownerless ELSE lock
  /\ ran' = FALSE
  /\ UNCHANGED <<tagged, home>>

-----------------------------------------------------------------------------
Begin(c) ==
  \/ \E o \in {"single", "plain"} : Get(c, o)
  \/ Write(c)
  \/ \E o \in {"delete", "pattern"} : RemoveByKey(c, o)
  \/ RemoveByTag(c)

Reading(c)  == RedisGet(c) \/ RedisTtl(c) \/ Fill(c)
Locking(c)  == Acquire(c) \/ Recheck(c) \/ Release(c)
Writing(c)  == Compute(c) \/ Store(c) \/ SetEx(c) \/ SAdd(c)
Removing(c) == \/ Members(c) \/ Scan(c) \/ Erase(c)
               \/ SRem(c) \/ Drop(c) \/ Clean(c)

(* What a caller does as soon as it is let.                                *)
Proceed(c) == Reading(c) \/ Locking(c) \/ Writing(c) \/ Removing(c)

Fault(c) ==
  \/ GetFails(c) \/ AcquireFails(c) \/ ReleaseFails(c)
  \/ ComputeRaises(c) \/ SetFails(c) \/ RemovalFails(c)

Environment ==
  \/ LockExpires \/ RedisAges \/ RedisExpires
  \/ \E p \in Processes : MemoryExpires(p) \/ Crash(p)

Next ==
  \/ \E c \in Callers : Begin(c) \/ Proceed(c) \/ Fault(c)
  \/ Environment

Spec == Init /\ [][Next]_vars

(* Redis answers, computations end and the lock expires after its timeout. *)
(* Nobody has to call, entries need not expire and nothing has to fail.    *)
Fairness ==
  /\ \A c \in Callers : WF_vars(Proceed(c))
  /\ WF_vars(LockExpires)

FairSpec == Spec /\ Fairness

-----------------------------------------------------------------------------
Ops == {"none", "plain", "single", "locked", "delete", "pattern", "tag"}

Places == {"idle", "asked", "ttl", "fill", "fillForever", "lock", "recheck",
           "release", "compute", "store", "setex", "sadd",
           "members", "scan", "erase", "srem", "drop", "clean"}

TypeOK ==
  /\ mem \in [Processes -> {None} \cup MemoryEntries]
  /\ redis \in {None} \cup RedisEntries
  /\ tagged \in BOOLEAN
  /\ known \subseteq Processes
  /\ lock \in Callers \cup {None, Ownerless}
  /\ home \in [Callers -> Processes]
  /\ op \in [Callers -> Ops]
  /\ pc \in [Callers -> Places]
  /\ val \in [Callers -> {None, "free", "back", "null"}]
  /\ torn \subseteq Callers
  /\ overdue \subseteq Callers
  /\ ran \in BOOLEAN
  /\ untracked \in BOOLEAN

(* A caller that is past the acquisition of the lock owns it until it      *)
(* releases it or the lock expires under it: a caller that comes late      *)
(* never takes the lock away from its successor, and nobody else is in.    *)
SingleFlight ==
  \A c \in Callers : Inside(c) => lock = c

(* "prevent cache stampede": while the lock holds, the factory is called   *)
(* again only if its last call returned None, or if what it returned was   *)
(* lost since - removed, expired in Redis, overwritten there by a None, or *)
(* not stored because something failed - or is hidden from this caller by  *)
(* a None in the memory of its process.                                    *)
FactoryRunsOnce ==
  [][\A c \in Callers :
       /\ Inside(c)
       /\ pc[c] # "compute" /\ pc'[c] = "compute"
       => ~ran \/ ~ran' \/ Null(mem[home[c]])]_vars

(* When a removal is over that began undisturbed and did not fail, nothing *)
(* that it found in Redis or in the memory of its process is still there,  *)
(* and Redis does not get it back.  (A read during the removal may put it  *)
(* back in memory, and a write that was computed before may follow.)       *)
RemovalSticks ==
  /\ redis # None =>
       /\ redis.s # "back"
       /\ redis.s = "due" => Removers # {}
  /\ \A p \in Processes :
       mem[p] # None /\ mem[p].s = "due" => \E c \in Removers : home[c] = p

(* "Delete value from cache." (delete): once the removal is over, memory   *)
(* has nothing that a read took from Redis while it was under way.  The    *)
(* code empties memory first and Redis after.                              *)
NothingBroughtBack ==
  \A p \in Processes : mem[p] # None /\ mem[p].s = "back" => Removers # {}

(* An entry of memory that never expires, as no caller asks for, comes     *)
(* only from a read between whose two commands the key was removed,        *)
(* expired, or entered its last half second.                               *)
ForeverOnlyIfTorn ==
  [][\A p \in Processes :
       /\ mem'[p] # mem[p] /\ mem'[p] # None
       /\ ~mem'[p].mortal
       => \/ mem[p] # None /\ ~mem[p].mortal
          \/ \E c \in torn : home[c] = p /\ pc[c] = "fillForever"]_vars

Cached == \A p \in Processes : Hit(mem[p])

(* Nobody waits for the lock for ever while the value stays in memory,     *)
(* whatever happened to those who had the lock.                            *)
WaitersEnd ==
  \A c \in Callers : ~<>[](Cached /\ pc[c] = "lock")

=============================================================================
