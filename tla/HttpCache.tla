----------------------------- MODULE HttpCache ------------------------------
(***************************************************************************)
(* The shared read path of findata.http_client: get_json and get_bytes     *)
(* with their LRU cache, their single-flight lock per key and their retry  *)
(* loop, run by several tasks of one event loop.  A step of a task is what *)
(* it does between two awaits.                                             *)
(***************************************************************************)
EXTENDS Integers, Sequences

CONSTANTS
  Callers,     \* tasks of the event loop that call get_json / get_bytes
  Keys,        \* cache keys: hashes of kind, URL and parameters
  NullKeys,    \* the keys whose upstream may answer the JSON value null
  Ttls,        \* the cache_ttl arguments callers pass
  Retries,     \* the retries arguments callers pass
  MaxTtl,      \* an upper bound of Ttls
  MaxSize,     \* MAX_CACHE_SIZE
  MaxTime,     \* bound: the clock stops here
  MaxClears,   \* bound: how often clear_cache is called
  NoKey        \* not a key

ASSUME CallersAssumption == NoKey \notin Keys /\ NullKeys \subseteq Keys
ASSUME TtlsAssumption    == Ttls \subseteq Int /\ MaxTtl \in Int /\ \A t \in Ttls : t <= MaxTtl
ASSUME RetriesAssumption == Retries \subseteq Int
ASSUME BoundsAssumption  == MaxSize \in Nat /\ MaxTime \in Nat /\ MaxClears \in Nat

VARIABLES
  now,      \* time.time()
  cache,    \* _cache, an OrderedDict: the entries, least recently used first
  clears,   \* calls of clear_cache so far; with a key it identifies a lock
  pc,       \* where each task is
  call,     \* the arguments of each task's running call
  ahead,    \* ahead[c]: the tasks that hold c's lock or wait for it before c
  attempt,  \* the retry loop's attempt number
  reply,    \* what the upstream answered the task's request
  out       \* the last answer the task's calls returned

vars == <<now, cache, clears, pc, call, ahead, attempt, reply, out>>

NoCall   == [key |-> NoKey, ttl |-> 0, tries |-> 1, era |-> 0]
NoReply  == [asOf |-> 0, null |-> FALSE]
NoAnswer == [key |-> NoKey, asOf |-> 0, at |-> 0]

Entry  == [key : Keys, at : Nat, ttl : Ttls, asOf : Nat, null : BOOLEAN]
Call   == [key : Keys, ttl : Ttls, tries : Nat, era : Nat]
Reply  == [asOf : Nat, null : BOOLEAN]
Answer == [key : Keys, asOf : Nat, at : Nat]
States == {"idle", "queued", "sent", "replied", "backoff"}
-----------------------------------------------------------------------------
(* The cache.                                                              *)

Has(k)     == \E i \in 1..Len(cache) : cache[i].key = k
IndexOf(k) == CHOOSE i \in 1..Len(cache) : cache[i].key = k
Held(k)    == cache[IndexOf(k)]

\* MUTANT of Fresh: the entry is still served in the second its ttl ends.
Fresh_Inclusive(e) == now - e.at <= e.ttl

Fresh(e)   == now - e.at < e.ttl

\* _cache_get answers None both for a miss and for a cached JSON null.
Usable(k)  == Has(k) /\ Fresh(Held(k)) /\ ~Held(k).null

\* The entries of the others, in their order.
Without(k) ==
  IF Has(k)
  THEN SubSeq(cache, 1, IndexOf(k) - 1) \o SubSeq(cache, IndexOf(k) + 1, Len(cache))
  ELSE cache

\* MUTANT of Evicted: eviction starts one entry late.
Evicted_OneLate(s) == IF Len(s) > MaxSize + 1 THEN SubSeq(s, Len(s) - MaxSize, Len(s)) ELSE s

\* popitem(last=False) until at most MaxSize entries are left.
Evicted(s) == IF Len(s) > MaxSize THEN SubSeq(s, Len(s) - MaxSize + 1, Len(s)) ELSE s

\* What a lookup leaves: a fresh entry moves to the end, an expired one goes.
LookedUp(k) ==
  IF Has(k) /\ Fresh(Held(k)) THEN Append(Without(k), Held(k)) ELSE Without(k)

\* What a write leaves.
Stored(e) ==
  IF e.ttl <= 0 THEN cache ELSE Evicted(Append(Without(e.key), e))

AnswerOf(e) == [key |-> e.key, asOf |-> e.asOf, at |-> e.at]
-----------------------------------------------------------------------------
(* The lock of a key: an asyncio.Lock serves its waiters in FIFO order, and *)
(* _locks forgets every lock when clear_cache runs.                         *)

InLock(c) == pc[c] # "idle"

Shares(d, k, e) == InLock(d) /\ call[d].key = k /\ call[d].era = e

\* MUTANT of Leave: the release wakes every waiter instead of the first.
Leave_WakesAll(c) ==
  /\ pc' = [pc EXCEPT ![c] = "idle"]
  /\ call' = [call EXCEPT ![c] = NoCall]
  /\ attempt' = [attempt EXCEPT ![c] = 0]
  /\ reply' = [reply EXCEPT ![c] = NoReply]
  /\ ahead' = [d \in Callers |-> IF c \in ahead[d] THEN {} ELSE ahead[d]]

\* MUTANT of Leave: an exception leaves the lock locked.
Leave_KeepsLock(c) ==
  /\ pc' = [pc EXCEPT ![c] = "idle"]
  /\ call' = [call EXCEPT ![c] = NoCall]
  /\ attempt' = [attempt EXCEPT ![c] = 0]
  /\ reply' = [reply EXCEPT ![c] = NoReply]
  /\ ahead' = [ahead EXCEPT ![c] = {}]

\* c leaves the lock, or the queue for it, and its call is over.
Leave(c) ==
  /\ pc' = [pc EXCEPT ![c] = "idle"]
  /\ call' = [call EXCEPT ![c] = NoCall]
  /\ attempt' = [attempt EXCEPT ![c] = 0]
  /\ reply' = [reply EXCEPT ![c] = NoReply]
  /\ ahead' = [d \in Callers |-> IF d = c THEN {} ELSE ahead[d] \ {c}]
-----------------------------------------------------------------------------
Init ==
  /\ now = 0
  /\ cache = << >>
  /\ clears = 0
  /\ pc = [c \in Callers |-> "idle"]
  /\ call = [c \in Callers |-> NoCall]
  /\ ahead = [c \in Callers |-> {}]
  /\ attempt = [c \in Callers |-> 0]
  /\ reply = [c \in Callers |-> NoReply]
  /\ out = [c \in Callers |-> NoAnswer]

\* A call that finds its answer in the cache returns at once.
CallHit(c, k) ==
  /\ pc[c] = "idle"
  /\ Usable(k)
  /\ cache' = LookedUp(k)
  /\ out' = [out EXCEPT ![c] = AnswerOf(Held(k))]
  /\ UNCHANGED <<now, clears, pc, call, ahead, attempt, reply>>

\* Another call joins the lock of its key.  A free lock is taken without an
\* await, and the second lookup then sees what the first one saw.
CallMiss(c, k, ttl, retries) ==
  LET line == {d \in Callers : Shares(d, k, clears)} IN
  /\ pc[c] = "idle"
  /\ ~Usable(k)
  /\ cache' = LookedUp(k)
  /\ call' = [call EXCEPT ![c] = [key |-> k, ttl |-> ttl, era |-> clears,
                                  tries |-> IF retries > 1 THEN retries ELSE 1]]
  /\ ahead' = [ahead EXCEPT ![c] = line]
  /\ pc' = [pc EXCEPT ![c] = IF line = {} THEN "sent" ELSE "queued"]
  /\ UNCHANGED <<now, clears, attempt, reply, out>>

\* The lock reaches a waiter: it looks in the cache again and returns ...
AdmitHit(c) ==
  LET k == call[c].key IN
  /\ pc[c] = "queued"
  /\ ahead[c] = {}
  /\ Usable(k)
  /\ cache' = LookedUp(k)
  /\ out' = [out EXCEPT ![c] = AnswerOf(Held(k))]
  /\ Leave(c)
  /\ UNCHANGED <<now, clears>>

\* MUTANT of AdmitMiss: no second lookup under the lock.
AdmitMiss_NoRecheck(c) ==
  /\ pc[c] = "queued"
  /\ ahead[c] = {}
  /\ pc' = [pc EXCEPT ![c] = "sent"]
  /\ UNCHANGED <<now, cache, clears, call, ahead, attempt, reply, out>>

\* ... or sends its own request.
AdmitMiss(c) ==
  LET k == call[c].key IN
  /\ pc[c] = "queued"
  /\ ahead[c] = {}
  /\ ~Usable(k)
  /\ cache' = LookedUp(k)
  /\ pc' = [pc EXCEPT ![c] = "sent"]
  /\ UNCHANGED <<now, clears, call, ahead, attempt, reply, out>>

\* The upstream produces its answer, which is then on its way.
Respond(c, null) ==
  /\ pc[c] = "sent"
  /\ null => call[c].key \in NullKeys
  /\ pc' = [pc EXCEPT ![c] = "replied"]
  /\ reply' = [reply EXCEPT ![c] = [asOf |-> now, null |-> null]]
  /\ UNCHANGED <<now, cache, clears, call, ahead, attempt, out>>

\* The answer is received, stored under the caller's ttl, and returned.
Receive(c) ==
  LET e == [key |-> call[c].key, at |-> now, ttl |-> call[c].ttl,
            asOf |-> reply[c].asOf, null |-> reply[c].null] IN
  /\ pc[c] = "replied"
  /\ cache' = Stored(e)
  /\ out' = [out EXCEPT ![c] = AnswerOf(e)]
  /\ Leave(c)
  /\ UNCHANGED <<now, clears>>

\* MUTANT of Fail: one attempt too many.
Fail_OneMore(c, retryable) ==
  /\ pc[c] \in {"sent", "replied"}
  /\ IF retryable /\ attempt[c] < call[c].tries
     THEN /\ pc' = [pc EXCEPT ![c] = "backoff"]
          /\ attempt' = [attempt EXCEPT ![c] = @ + 1]
          /\ reply' = [reply EXCEPT ![c] = NoReply]
          /\ UNCHANGED <<call, ahead>>
     ELSE Leave(c)
  /\ UNCHANGED <<now, cache, clears, out>>

\* An attempt fails.  A transport error, a 5xx or a 429 is retried after a
\* sleep while attempts are left; anything else is raised out of the lock.
Fail(c, retryable) ==
  /\ pc[c] \in {"sent", "replied"}
  /\ IF retryable /\ attempt[c] < call[c].tries - 1
     THEN /\ pc' = [pc EXCEPT ![c] = "backoff"]
          /\ attempt' = [attempt EXCEPT ![c] = @ + 1]
          /\ reply' = [reply EXCEPT ![c] = NoReply]
          /\ UNCHANGED <<call, ahead>>
     ELSE Leave(c)
  /\ UNCHANGED <<now, cache, clears, out>>

\* The sleep between two attempts, made under the lock, is over.
Wake(c) ==
  /\ pc[c] = "backoff"
  /\ pc' = [pc EXCEPT ![c] = "sent"]
  /\ UNCHANGED <<now, cache, clears, call, ahead, attempt, reply, out>>

\* The task is cancelled at the await it is suspended in.  CancelledError is
\* no Exception: the retry loop lets it through and the lock is released.
Cancel(c) ==
  /\ InLock(c)
  /\ Leave(c)
  /\ UNCHANGED <<now, cache, clears, out>>

ClearCache ==
  /\ clears < MaxClears
  /\ cache' = << >>
  /\ clears' = clears + 1
  /\ UNCHANGED <<now, pc, call, ahead, attempt, reply, out>>

Tick ==
  /\ now < MaxTime
  /\ now' = now + 1
  /\ UNCHANGED <<cache, clears, pc, call, ahead, attempt, reply, out>>

\* What a task does on its own account once it has called.
Progress(c) ==
  \/ AdmitHit(c)
  \/ AdmitMiss(c)
  \/ \E null \in BOOLEAN : Respond(c, null)
  \/ Receive(c)
  \/ \E retryable \in BOOLEAN : Fail(c, retryable)
  \/ Wake(c)

Next ==
  \/ \E c \in Callers :
       \/ \E k \in Keys : CallHit(c, k)
       \/ \E k \in Keys, ttl \in Ttls, retries \in Retries : CallMiss(c, k, ttl, retries)
       \/ Progress(c)
       \/ Cancel(c)
  \/ ClearCache
  \/ Tick

Spec == Init /\ [][Next]_vars

\* The event loop runs every task that can run, and the client's timeouts end
\* every request; nothing makes a caller call, cancel or clear.
FairSpec == Spec /\ \A c \in Callers : WF_vars(Progress(c))
-----------------------------------------------------------------------------
(* Properties.                                                             *)

\* The types of the variables; and of the retry loop: a call never makes more
\* than max(retries, 1) attempts, and starts each time with its first.
TypeOK ==
  /\ now \in Nat
  /\ cache \in Seq(Entry)
  /\ clears \in Nat
  /\ pc \in [Callers -> States]
  /\ call \in [Callers -> Call \cup {NoCall}]
  /\ ahead \in [Callers -> SUBSET Callers]
  /\ attempt \in [Callers -> Nat]
  /\ reply \in [Callers -> Reply]
  /\ out \in [Callers -> Answer \cup {NoAnswer}]
  /\ \A c \in Callers : IF InLock(c)
                        THEN call[c] \in Call /\ attempt[c] < call[c].tries
                        ELSE attempt[c] = 0

\* A task that holds its lock and has a request under way, being received or
\* waiting to be retried.
Flying(c) == pc[c] \in {"sent", "replied", "backoff"}

\* _lock_for, "the event-loop-scoped single-flight lock": two calls for one key
\* never fetch at the same time, whoever waits, fails, retries or is cancelled,
\* unless clear_cache dropped the lock between them.
SingleFlight ==
  \A c, d \in Callers :
    c # d /\ Flying(c) /\ Flying(d) /\ call[c].era = call[d].era => call[c].key # call[d].key

\* _cache is a dictionary with a cap: one entry per key and at most MaxSize of
\* them, after any mix of lookups, writes, expiries and evictions.
CacheIsLru ==
  /\ Len(cache) <= MaxSize
  /\ \A i, j \in 1..Len(cache) : cache[i].key = cache[j].key => i = j

\* The second lookup, under the lock, is what makes callers share a fetch: as
\* long as the cache was not cleared, no request for a key is under way, not
\* even one being retried, while a usable answer for that key is cached.
NoNeedlessRequest ==
  clears = 0 => \A c \in Callers : Flying(c) => ~Usable(call[c].key)

\* Every call of get_json or get_bytes ends, with an answer or an exception,
\* also behind callers whose fetches all fail after all their retries.
EveryCallEnds == \A c \in Callers : InLock(c) ~> ~InLock(c)

\* Reads are bounded-stale and never go back in time (see CachedRead).
Reads ==
  INSTANCE CachedRead WITH
    asked  <- [c \in Callers |-> call[c].key],
    answer <- out

ReadsAreMonotonic == Reads!Spec
-----------------------------------------------------------------------------
(* The inductive invariant behind them.                                    *)

\* The lock is a total order on the tasks that share it, with the flying one,
\* if any, first.
LockOrder ==
  /\ \A c \in Callers : ~InLock(c) => call[c] = NoCall /\ ahead[c] = {}
  /\ \A c \in Callers : InLock(c) => call[c].era <= clears
  /\ \A c \in Callers : Flying(c) => ahead[c] = {}
  /\ \A c, d \in Callers :
       c # d /\ InLock(c) /\ Shares(d, call[c].key, call[c].era)
         => c \in ahead[d] \/ d \in ahead[c]

\* Nothing in the cache or among the answers comes from the future.
TimesAreOrdered ==
  /\ \A i \in 1..Len(cache) : cache[i].asOf <= cache[i].at /\ cache[i].at <= now
  /\ \A c \in Callers : reply[c].asOf <= now /\ out[c].asOf <= now

\* Without clear_cache: while a key is being fetched the cache holds nothing for
\* it but a null, and what it holds or receives is no older than any answer
\* given for the same key.
NewestLast ==
  clears = 0 =>
    /\ \A c \in Callers, i \in 1..Len(cache) :
         Flying(c) /\ cache[i].key = call[c].key => cache[i].null
    /\ \A c \in Callers, i \in 1..Len(cache) :
         out[c].key = cache[i].key => cache[i].null \/ out[c].asOf <= cache[i].asOf
    /\ \A c, d \in Callers :
         pc[c] = "replied" /\ out[d].key = call[c].key => out[d].asOf <= reply[c].asOf

ClearsBounded == clears <= MaxClears
=============================================================================
