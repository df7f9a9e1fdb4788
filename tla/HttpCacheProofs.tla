-------------------------- MODULE HttpCacheProofs ---------------------------
(***************************************************************************)
(* Theorems about HttpCache, for any tasks, keys, ttls, retries and cache  *)
(* size.                                                                   *)
(***************************************************************************)
EXTENDS HttpCache, SequenceTheorems, TLAPS

\* The entries of t are entries of s, and t is not longer than s.
Within(t, s) ==
  /\ Len(t) <= Len(s)
  /\ \A i \in 1..Len(t) : \E j \in 1..Len(s) : t[i] = s[j]

\* No two entries of s are for one key.
Distinct(s) == \A i, j \in 1..Len(s) : s[i].key = s[j].key => i = j
-----------------------------------------------------------------------------
(* The OrderedDict.                                                        *)

\* A key the cache holds has an entry at its index.
LEMMA HeldIsEntry ==
  ASSUME NEW k, Has(k)
  PROVE  /\ IndexOf(k) \in 1..Len(cache)
         /\ cache[IndexOf(k)].key = k
BY DEF Has, IndexOf

\* Removing a key's entry (del, move_to_end, overwriting) keeps the others only.
LEMMA WithoutFacts ==
  ASSUME NEW k, cache \in Seq(Entry)
  PROVE  /\ Without(k) \in Seq(Entry)
         /\ Within(Without(k), cache)
         /\ Has(k) => Len(Without(k)) = Len(cache) - 1
         /\ Distinct(cache) => /\ Distinct(Without(k))
                               /\ \A i \in 1..Len(Without(k)) : Without(k)[i].key # k
<1>1. CASE ~Has(k)
  BY <1>1 DEF Has, Without, Within
<1>2. CASE Has(k)
  <2> DEFINE n == IndexOf(k)
             a == SubSeq(cache, 1, n - 1)
             b == SubSeq(cache, n + 1, Len(cache))
  <2>1. n \in 1..Len(cache) /\ cache[n].key = k
    BY <1>2, HeldIsEntry
  <2>2. Without(k) = a \o b
    BY <1>2 DEF Without
  <2> HIDE DEF n
  <2>3. /\ a \in Seq(Entry) /\ Len(a) = n - 1
        /\ \A i \in 1..n - 1 : a[i] = cache[i]
    BY <2>1
  <2>4. /\ b \in Seq(Entry) /\ Len(b) = Len(cache) - n
        /\ \A i \in 1..Len(cache) - n : b[i] = cache[n + i]
    BY <2>1
  <2> HIDE DEF a, b
  <2>5. /\ Without(k) \in Seq(Entry)
        /\ Len(Without(k)) = Len(cache) - 1
        /\ \A i \in 1..Len(cache) - 1 :
             Without(k)[i] = IF i < n THEN cache[i] ELSE cache[i + 1]
    <3>1. a \o b \in Seq(Entry) /\ Len(a \o b) = Len(a) + Len(b)
      BY <2>3, <2>4, ConcatProperties
    <3>2. \A i \in 1..Len(a) + Len(b) :
            (a \o b)[i] = IF i <= Len(a) THEN a[i] ELSE b[i - Len(a)]
      BY <2>3, <2>4, ConcatProperties
    <3>3. Len(a) + Len(b) = Len(cache) - 1
      BY <2>1, <2>3, <2>4
    <3>4. ASSUME NEW i \in 1..Len(cache) - 1
          PROVE  (a \o b)[i] = IF i < n THEN cache[i] ELSE cache[i + 1]
      <4>1. i \in 1..Len(a) + Len(b)
        BY <3>3
      <4>2. CASE i < n
        BY <2>1, <2>3, <3>2, <4>1, <4>2
      <4>3. CASE ~(i < n)
        <5>1. i - Len(a) \in 1..Len(cache) - n /\ n + (i - Len(a)) = i + 1
          BY <2>1, <2>3, <4>3
        <5>2. QED
          BY <2>1, <2>3, <2>4, <3>2, <4>1, <4>3, <5>1
      <4>4. QED
        BY <4>2, <4>3
    <3>5. QED
      BY <2>2, <3>1, <3>3, <3>4
  <2>6. Within(Without(k), cache)
    BY <2>1, <2>5 DEF Within
  <2>7. Distinct(cache) => Distinct(Without(k))
    BY <2>1, <2>5 DEF Distinct
  <2>8. Distinct(cache) => \A i \in 1..Len(Without(k)) : Without(k)[i].key # k
    BY <2>1, <2>5 DEF Distinct
  <2>9. QED
    BY <2>5, <2>6, <2>7, <2>8
<1>3. QED
  BY <1>1, <1>2

\* A lookup drops or moves entries, and leaves no usable entry where it found none.
LEMMA LookedUpFacts ==
  ASSUME NEW k, cache \in Seq(Entry), Distinct(cache)
  PROVE  /\ LookedUp(k) \in Seq(Entry)
         /\ Within(LookedUp(k), cache)
         /\ Distinct(LookedUp(k))
         /\ ~Usable(k) => \A i \in 1..Len(LookedUp(k)) :
                            LookedUp(k)[i].key = k => LookedUp(k)[i].null
<1> DEFINE w == Without(k)
<1>1. /\ w \in Seq(Entry) /\ Within(w, cache) /\ Distinct(w)
      /\ \A i \in 1..Len(w) : w[i].key # k
      /\ Has(k) => Len(w) = Len(cache) - 1
  BY WithoutFacts
<1>2. CASE Has(k) /\ Fresh(Held(k))
  <2> DEFINE e == Held(k)
             t == Append(w, e)
  <2>1. IndexOf(k) \in 1..Len(cache) /\ e \in Entry /\ e = cache[IndexOf(k)] /\ e.key = k
    BY <1>2, HeldIsEntry DEF Held
  <2>2. LookedUp(k) = t
    BY <1>2 DEF LookedUp
  <2>3. ~Usable(k) => e.null
    BY <1>2 DEF Usable
  <2> HIDE DEF w, e
  <2>4. /\ t \in Seq(Entry) /\ Len(t) = Len(w) + 1
        /\ \A i \in 1..Len(w) : t[i] = w[i]
        /\ t[Len(w) + 1] = e
    BY <1>1, <2>1, AppendProperties
  <2> HIDE DEF t
  <2>5. Within(t, cache)
    BY <1>1, <1>2, <2>1, <2>4 DEF Within
  <2>6. Distinct(t)
    BY <1>1, <2>1, <2>4 DEF Distinct
  <2>7. ~Usable(k) => \A i \in 1..Len(t) : t[i].key = k => t[i].null
    BY <1>1, <2>3, <2>4
  <2>8. QED
    BY <2>2, <2>4, <2>5, <2>6, <2>7
<1>3. CASE ~(Has(k) /\ Fresh(Held(k)))
  BY <1>1, <1>3 DEF LookedUp
<1>4. QED
  BY <1>2, <1>3

\* A write keeps the dictionary's cap and adds no entry but its own.
LEMMA StoredFacts ==
  ASSUME NEW e \in Entry, cache \in Seq(Entry), Distinct(cache), Len(cache) <= MaxSize
  PROVE  /\ Stored(e) \in Seq(Entry)
         /\ Len(Stored(e)) <= MaxSize
         /\ Distinct(Stored(e))
         /\ \A i \in 1..Len(Stored(e)) :
              Stored(e)[i] = e \/ \E j \in 1..Len(cache) : Stored(e)[i] = cache[j]
<1> DEFINE w == Without(e.key)
           t == Append(w, e)
           m == Len(t) - MaxSize
<1>1. /\ w \in Seq(Entry) /\ Within(w, cache) /\ Distinct(w)
      /\ \A i \in 1..Len(w) : w[i].key # e.key
  BY WithoutFacts
<1> HIDE DEF w
<1>2. /\ t \in Seq(Entry) /\ Len(t) = Len(w) + 1
      /\ \A i \in 1..Len(w) : t[i] = w[i]
      /\ t[Len(w) + 1] = e
  BY <1>1, AppendProperties
<1> HIDE DEF t
<1>3. Distinct(t)
  BY <1>1, <1>2 DEF Distinct
<1>4. \A i \in 1..Len(t) : t[i] = e \/ \E j \in 1..Len(cache) : t[i] = cache[j]
  <2>1. ASSUME NEW i \in 1..Len(t), i # Len(w) + 1
        PROVE  \E j \in 1..Len(cache) : t[i] = cache[j]
    <3>1. i \in 1..Len(w) /\ t[i] = w[i]
      BY <1>2, <2>1
    <3>2. QED
      BY <1>1, <3>1 DEF Within
  <2>2. QED
    BY <1>2, <2>1
<1>5. CASE e.ttl <= 0
  BY <1>5 DEF Stored
<1>6. CASE ~(e.ttl <= 0) /\ ~(Len(t) > MaxSize)
  <2>1. Stored(e) = t
    BY <1>6 DEF Stored, Evicted, t, w
  <2>2. Len(t) <= MaxSize
    BY <1>2, <1>6, BoundsAssumption
  <2>3. QED
    BY <1>2, <1>3, <1>4, <2>1, <2>2
<1>7. CASE ~(e.ttl <= 0) /\ Len(t) > MaxSize
  <2> DEFINE r == SubSeq(t, m + 1, Len(t))
  <2>1. Stored(e) = r
    BY <1>7 DEF Stored, Evicted, t, w
  <2>2. m \in Nat /\ m + 1 \in 1..Len(t) + 1 /\ Len(t) - m = MaxSize
    BY <1>2, <1>7, BoundsAssumption
  <2> HIDE DEF m
  <2>3. /\ r \in Seq(Entry) /\ Len(r) = Len(t) - m
        /\ \A i \in 1..Len(t) - m : r[i] = t[m + i]
    BY <1>2, <2>2
  <2> HIDE DEF r
  <2>4. Distinct(r)
    BY <1>2, <1>3, <2>2, <2>3 DEF Distinct
  <2>5. \A i \in 1..Len(r) : r[i] = e \/ \E j \in 1..Len(cache) : r[i] = cache[j]
    BY <1>2, <1>4, <2>2, <2>3
  <2>6. QED
    BY <2>1, <2>2, <2>3, <2>4, <2>5, BoundsAssumption
<1>8. QED
  BY <1>5, <1>6, <1>7
-----------------------------------------------------------------------------
(* Type correctness.                                                       *)

\* Leaving the lock keeps the per-task variables typed.
LEMMA LeaveTyped ==
  ASSUME TypeOK, NEW c \in Callers, Leave(c)
  PROVE  /\ pc' \in [Callers -> States]
         /\ call' \in [Callers -> Call \cup {NoCall}]
         /\ ahead' \in [Callers -> SUBSET Callers]
         /\ attempt' \in [Callers -> Nat]
         /\ reply' \in [Callers -> Reply]
         /\ \A d \in Callers : IF InLock(d)'
                               THEN call'[d] \in Call /\ attempt'[d] < call'[d].tries
                               ELSE attempt'[d] = 0
BY DEF TypeOK, Leave, States, Reply, NoReply, InLock

\* What the cache answers is an answer.
LEMMA AnswerTyped ==
  ASSUME TypeOK, NEW k \in Keys, Has(k)
  PROVE  AnswerOf(Held(k)) \in Answer
<1>1. Held(k) \in Entry
  BY HeldIsEntry DEF Held, TypeOK
<1>2. QED
  BY <1>1 DEF AnswerOf, Answer, Entry

\* A failed attempt either goes to sleep, with the lock, or ends the call.
LEMMA FailCases ==
  ASSUME NEW c \in Callers, NEW retryable \in BOOLEAN, Fail(c, retryable)
  PROVE  \/ /\ InLock(c) /\ Flying(c) /\ attempt[c] < call[c].tries - 1
            /\ pc' = [pc EXCEPT ![c] = "backoff"]
            /\ attempt' = [attempt EXCEPT ![c] = @ + 1]
            /\ reply' = [reply EXCEPT ![c] = NoReply]
            /\ UNCHANGED <<now, cache, clears, call, ahead, out>>
         \/ /\ InLock(c)
            /\ Leave(c)
            /\ UNCHANGED <<now, cache, clears, out>>
BY DEF Fail, InLock, Flying

\* The shape of the dictionary, and the types, are preserved together: the cap
\* of a write needs the cap before it.
WellFormed == TypeOK /\ CacheIsLru

\* At import, with an empty cache and no lock, everything has its type.
THEOREM WellFormedInit == Init => WellFormed
BY BoundsAssumption DEF Init, WellFormed, TypeOK, CacheIsLru, States, Reply, NoReply, InLock

\* Every step keeps the types and the dictionary well formed.
LEMMA WellFormedStep == WellFormed /\ [Next]_vars => WellFormed'
<1> SUFFICES ASSUME TypeOK, CacheIsLru, [Next]_vars
             PROVE  TypeOK' /\ CacheIsLru'
  BY DEF WellFormed
<1>0. cache \in Seq(Entry) /\ Distinct(cache) /\ Len(cache) <= MaxSize
  BY DEF TypeOK, CacheIsLru, Distinct
<1>a. ASSUME NEW k, cache' = LookedUp(k)
      PROVE  cache' \in Seq(Entry) /\ CacheIsLru'
  <2>1. LookedUp(k) \in Seq(Entry) /\ Within(LookedUp(k), cache) /\ Distinct(LookedUp(k))
    BY <1>0, LookedUpFacts
  <2>2. Len(LookedUp(k)) <= MaxSize
    BY <1>0, <2>1, BoundsAssumption DEF Within
  <2>3. QED
    BY <1>a, <2>1, <2>2 DEF CacheIsLru, Distinct
<1>b. ASSUME cache' = cache
      PROVE  CacheIsLru'
  BY <1>b DEF CacheIsLru
<1>1. ASSUME NEW c \in Callers, NEW k \in Keys, CallHit(c, k)
      PROVE  TypeOK' /\ CacheIsLru'
  <2>1. AnswerOf(Held(k)) \in Answer
    BY <1>1, AnswerTyped DEF CallHit, Usable
  <2>2. QED
    BY <1>1, <1>a, <2>1 DEF CallHit, TypeOK, InLock
<1>2. ASSUME NEW c \in Callers, NEW k \in Keys, NEW ttl \in Ttls, NEW retries \in Retries,
             CallMiss(c, k, ttl, retries)
      PROVE  TypeOK' /\ CacheIsLru'
  <2>1. call'[c] \in Call /\ call'[c].tries > 0
    BY <1>2, RetriesAssumption DEF CallMiss, TypeOK, Call
  <2>2. call' \in [Callers -> Call \cup {NoCall}] /\ ahead' \in [Callers -> SUBSET Callers]
    BY <1>2, <2>1 DEF CallMiss, TypeOK
  <2>3. pc' \in [Callers -> States] /\ pc'[c] # "idle" /\ attempt' = attempt /\ attempt[c] = 0
    BY <1>2 DEF CallMiss, TypeOK, States, InLock
  <2>4. \A d \in Callers \ {c} : pc'[d] = pc[d] /\ call'[d] = call[d]
    BY <1>2 DEF CallMiss, TypeOK
  <2>5. \A d \in Callers : IF InLock(d)'
                           THEN call'[d] \in Call /\ attempt'[d] < call'[d].tries
                           ELSE attempt'[d] = 0
    BY <2>1, <2>3, <2>4 DEF TypeOK, InLock
  <2>6. cache' \in Seq(Entry) /\ CacheIsLru' /\ UNCHANGED <<now, clears, attempt, reply, out>>
    BY <1>2, <1>a DEF CallMiss
  <2>7. QED
    BY <2>2, <2>3, <2>5, <2>6 DEF TypeOK
<1>3. ASSUME NEW c \in Callers, AdmitHit(c)
      PROVE  TypeOK' /\ CacheIsLru'
  <2>1. call[c].key \in Keys
    BY <1>3 DEF AdmitHit, TypeOK, InLock, Call
  <2>2. AnswerOf(Held(call[c].key)) \in Answer
    BY <1>3, <2>1, AnswerTyped DEF AdmitHit, Usable
  <2>3. QED
    BY <1>3, <1>a, <2>2, LeaveTyped DEF AdmitHit, TypeOK
<1>4. ASSUME NEW c \in Callers, AdmitMiss(c)
      PROVE  TypeOK' /\ CacheIsLru'
  BY <1>4, <1>a DEF AdmitMiss, TypeOK, InLock, States
<1>5. ASSUME NEW c \in Callers, NEW null \in BOOLEAN, Respond(c, null)
      PROVE  TypeOK' /\ CacheIsLru'
  BY <1>5, <1>b DEF Respond, TypeOK, InLock, States, Reply
<1>6. ASSUME NEW c \in Callers, Receive(c)
      PROVE  TypeOK' /\ CacheIsLru'
  <2> DEFINE e == [key |-> call[c].key, at |-> now, ttl |-> call[c].ttl,
                   asOf |-> reply[c].asOf, null |-> reply[c].null]
  <2>1. e \in Entry
    BY <1>6 DEF Receive, TypeOK, InLock, Call, Entry, Reply
  <2>2. AnswerOf(e) \in Answer
    BY <2>1 DEF AnswerOf, Answer, Entry
  <2>3. cache' = Stored(e) /\ out' = [out EXCEPT ![c] = AnswerOf(e)] /\ Leave(c)
    BY <1>6 DEF Receive
  <2> HIDE DEF e
  <2>4. cache' \in Seq(Entry) /\ CacheIsLru'
    BY <1>0, <2>1, <2>3, StoredFacts DEF CacheIsLru, Distinct
  <2>5. QED
    BY <1>6, <2>2, <2>3, <2>4, LeaveTyped DEF Receive, TypeOK
<1>7. ASSUME NEW c \in Callers, NEW retryable \in BOOLEAN, Fail(c, retryable)
      PROVE  TypeOK' /\ CacheIsLru'
  <2>1. CASE Leave(c) /\ UNCHANGED <<now, cache, clears, out>>
    BY <1>b, <2>1, LeaveTyped DEF TypeOK
  <2>2. CASE ~(Leave(c) /\ UNCHANGED <<now, cache, clears, out>>)
    <3>1. NoReply \in Reply
      BY DEF NoReply, Reply
    <3>2. /\ InLock(c) /\ pc' = [pc EXCEPT ![c] = "backoff"]
          /\ attempt' = [attempt EXCEPT ![c] = @ + 1] /\ attempt[c] < call[c].tries - 1
          /\ reply' = [reply EXCEPT ![c] = NoReply]
          /\ UNCHANGED <<now, cache, clears, call, ahead, out>>
      BY <1>7, <2>2, FailCases
    <3>3. call[c].tries \in Nat /\ attempt[c] \in Nat
      BY <3>2 DEF TypeOK, Call
    <3>4. attempt' \in [Callers -> Nat] /\ attempt'[c] < call[c].tries
      BY <3>2, <3>3 DEF TypeOK
    <3>5. \A d \in Callers : IF InLock(d)'
                             THEN call'[d] \in Call /\ attempt'[d] < call'[d].tries
                             ELSE attempt'[d] = 0
      BY <3>2, <3>4 DEF TypeOK, InLock
    <3>6. pc' \in [Callers -> States] /\ reply' \in [Callers -> Reply]
      BY <3>1, <3>2 DEF TypeOK, States
    <3>7. QED
      BY <1>b, <3>2, <3>4, <3>5, <3>6 DEF TypeOK
  <2>3. QED
    BY <2>1, <2>2
<1>8. ASSUME NEW c \in Callers, Wake(c)
      PROVE  TypeOK' /\ CacheIsLru'
  BY <1>8, <1>b DEF Wake, TypeOK, InLock, States
<1>9. ASSUME NEW c \in Callers, Cancel(c)
      PROVE  TypeOK' /\ CacheIsLru'
  BY <1>9, <1>b, LeaveTyped DEF Cancel, TypeOK
<1>10. CASE ClearCache
  BY <1>10, BoundsAssumption DEF ClearCache, TypeOK, CacheIsLru, InLock
<1>11. CASE Tick
  BY <1>11, <1>b DEF Tick, TypeOK, InLock
<1>12. CASE UNCHANGED vars
  BY <1>12, <1>b DEF vars, TypeOK, InLock
<1>13. QED
  BY <1>1, <1>2, <1>3, <1>4, <1>5, <1>6, <1>7, <1>8, <1>9, <1>10, <1>11, <1>12
     DEF Next, Progress

\* The variables of the cache, the lock and the retry loop keep their types.
THEOREM TypeCorrect == Spec => []TypeOK
BY WellFormedInit, WellFormedStep, PTL DEF Spec, WellFormed

\* _cache never holds two entries for a key, nor more than MaxSize of them.
THEOREM CacheIsAlwaysLru == Spec => []CacheIsLru
BY WellFormedInit, WellFormedStep, PTL DEF Spec, WellFormed
-----------------------------------------------------------------------------
(* Single flight.                                                          *)

\* The lock order holds initially, when nobody is in a lock.
THEOREM LockOrderInit == Init => LockOrder
BY DEF Init, LockOrder, InLock, Flying, Shares

\* Leaving the lock keeps the order of those who stay.
LEMMA LeaveKeepsLockOrder ==
  ASSUME TypeOK, LockOrder, NEW c \in Callers, Leave(c), clears' = clears
  PROVE  LockOrder'
BY DEF TypeOK, LockOrder, Leave, InLock, Flying, Shares

\* So does a step of a task that stays, first in line if it now flies.
LEMMA StayKeepsLockOrder ==
  ASSUME TypeOK, LockOrder, NEW c \in Callers, InLock(c), NEW s \in States \ {"idle"},
         pc' = [pc EXCEPT ![c] = s], s = "queued" \/ ahead[c] = {},
         UNCHANGED <<call, ahead, clears>>
  PROVE  LockOrder'
<1>1. \A d \in Callers : InLock(d)' <=> InLock(d)
  BY DEF TypeOK, InLock, States
<1>2. \A d \in Callers : Flying(d)' => ahead[d] = {}
  BY DEF TypeOK, LockOrder, Flying, States
<1>3. QED
  BY <1>1, <1>2 DEF LockOrder, Shares

\* Every step keeps each lock a total order with the flying task first.
LEMMA LockOrderStep == TypeOK /\ LockOrder /\ [Next]_vars => LockOrder'
<1> SUFFICES ASSUME TypeOK, LockOrder, [Next]_vars
             PROVE  LockOrder'
  OBVIOUS
<1>a. ASSUME UNCHANGED <<pc, call, ahead>>, clears' \in Nat, clears <= clears'
      PROVE  LockOrder'
  BY <1>a DEF LockOrder, InLock, Flying, Shares, TypeOK, Call
<1>1. ASSUME NEW c \in Callers, NEW k \in Keys, CallHit(c, k)
      PROVE  LockOrder'
  BY <1>1, <1>a DEF CallHit, TypeOK
<1>2. ASSUME NEW c \in Callers, NEW k \in Keys, NEW ttl \in Ttls, NEW retries \in Retries,
             CallMiss(c, k, ttl, retries)
      PROVE  LockOrder'
  <2> DEFINE line == {d \in Callers : Shares(d, k, clears)}
  <2>1. /\ pc[c] = "idle" /\ clears' = clears /\ clears \in Nat
        /\ call' = [call EXCEPT ![c] = [key |-> k, ttl |-> ttl, era |-> clears,
                                        tries |-> IF retries > 1 THEN retries ELSE 1]]
        /\ ahead' = [ahead EXCEPT ![c] = line]
        /\ pc' = [pc EXCEPT ![c] = IF line = {} THEN "sent" ELSE "queued"]
    BY <1>2 DEF CallMiss, TypeOK
  <2>2. /\ call'[c].key = k /\ call'[c].era = clears
        /\ ahead'[c] = line
        /\ InLock(c)' /\ (Flying(c)' => line = {})
    BY <2>1 DEF TypeOK, InLock, Flying
  <2>3. \A d \in Callers \ {c} :
          /\ call'[d] = call[d] /\ ahead'[d] = ahead[d]
          /\ InLock(d)' <=> InLock(d)
          /\ Flying(d)' <=> Flying(d)
    BY <2>1 DEF TypeOK, InLock, Flying
  <2>4. \A d \in Callers \ {c} : Shares(d, k, clears)' => d \in line
    BY <2>1, <2>3 DEF Shares
  <2> HIDE DEF line
  <2>5. \A d \in Callers : /\ ~InLock(d)' => call'[d] = NoCall /\ ahead'[d] = {}
                           /\ InLock(d)' => call'[d].era <= clears'
                           /\ Flying(d)' => ahead'[d] = {}
    BY <2>1, <2>2, <2>3 DEF LockOrder
  <2>6. ASSUME NEW a \in Callers, NEW b \in Callers, a # b, InLock(a)',
               Shares(b, call[a].key, call[a].era)'
        PROVE  a \in ahead'[b] \/ b \in ahead'[a]
    <3>1. CASE a = c
      BY <2>1, <2>2, <2>4, <2>6, <3>1 DEF Shares
    <3>2. CASE b = c
      <4>1. Shares(a, k, clears)'
        BY <2>1, <2>2, <2>6, <3>2 DEF Shares
      <4>2. QED
        BY <2>2, <2>4, <2>6, <3>2, <4>1
    <3>3. CASE a # c /\ b # c
      BY <2>3, <2>6, <3>3 DEF LockOrder, Shares
    <3>4. QED
      BY <3>1, <3>2, <3>3
  <2>7. QED
    BY <2>5, <2>6 DEF LockOrder
<1>3. ASSUME NEW c \in Callers, AdmitHit(c)
      PROVE  LockOrder'
  BY <1>3, LeaveKeepsLockOrder DEF AdmitHit
<1>4. ASSUME NEW c \in Callers, AdmitMiss(c)
      PROVE  LockOrder'
  BY <1>4, StayKeepsLockOrder DEF AdmitMiss, InLock, States
<1>5. ASSUME NEW c \in Callers, NEW null \in BOOLEAN, Respond(c, null)
      PROVE  LockOrder'
  <2>1. ahead[c] = {}
    BY <1>5 DEF Respond, LockOrder, Flying
  <2>2. QED
    BY <1>5, <2>1, StayKeepsLockOrder DEF Respond, InLock, States
<1>6. ASSUME NEW c \in Callers, Receive(c)
      PROVE  LockOrder'
  BY <1>6, LeaveKeepsLockOrder DEF Receive
<1>7. ASSUME NEW c \in Callers, NEW retryable \in BOOLEAN, Fail(c, retryable)
      PROVE  LockOrder'
  <2>1. CASE Leave(c) /\ clears' = clears
    BY <2>1, LeaveKeepsLockOrder
  <2>2. CASE ~(Leave(c) /\ clears' = clears)
    <3>1. /\ InLock(c) /\ Flying(c) /\ pc' = [pc EXCEPT ![c] = "backoff"]
          /\ UNCHANGED <<call, ahead, clears>>
      BY <1>7, <2>2, FailCases
    <3>2. ahead[c] = {}
      BY <3>1 DEF LockOrder
    <3>3. QED
      BY <3>1, <3>2, StayKeepsLockOrder DEF States
  <2>3. QED
    BY <2>1, <2>2
<1>8. ASSUME NEW c \in Callers, Wake(c)
      PROVE  LockOrder'
  <2>1. ahead[c] = {}
    BY <1>8 DEF Wake, LockOrder, Flying
  <2>2. QED
    BY <1>8, <2>1, StayKeepsLockOrder DEF Wake, InLock, States
<1>9. ASSUME NEW c \in Callers, Cancel(c)
      PROVE  LockOrder'
  BY <1>9, LeaveKeepsLockOrder DEF Cancel
<1>10. CASE ClearCache
  BY <1>10, <1>a DEF ClearCache, TypeOK
<1>11. CASE Tick
  BY <1>11, <1>a DEF Tick, TypeOK
<1>12. CASE UNCHANGED vars
  BY <1>12, <1>a DEF vars, TypeOK
<1>13. QED
  BY <1>1, <1>2, <1>3, <1>4, <1>5, <1>6, <1>7, <1>8, <1>9, <1>10, <1>11, <1>12
     DEF Next, Progress

\* Two tasks that share a lock cannot both be first in line.
LEMMA LockOrderImpliesSingleFlight == TypeOK /\ LockOrder => SingleFlight
BY DEF TypeOK, LockOrder, SingleFlight, Flying, InLock, Shares

\* The lock of a key is a total order on its tasks, in every reachable state.
LEMMA LockOrderAlways == Spec => []LockOrder
BY LockOrderInit, LockOrderStep, TypeCorrect, PTL DEF Spec

\* The lock of a key is single-flight: for any number of tasks, keys, retries
\* and cancellations, two calls of one era never fetch one key together.
THEOREM SingleFlightAlways == Spec => []SingleFlight
BY LockOrderAlways, TypeCorrect, LockOrderImpliesSingleFlight, PTL
-----------------------------------------------------------------------------
(* Bounded staleness and monotonic reads.                                  *)

Safe == WellFormed /\ LockOrder /\ TimesAreOrdered /\ NewestLast /\ ClearsBounded

\* At import nothing is cached, flying or answered: the whole invariant holds.
LEMMA SafeInit == Init => Safe
BY WellFormedInit, LockOrderInit, BoundsAssumption
   DEF Init, Safe, TimesAreOrdered, NewestLast, ClearsBounded, Flying, NoReply, NoAnswer

\* The answer a hit returns is the one usable entry of its key.
LEMMA HitFacts ==
  ASSUME WellFormed, TimesAreOrdered, NEW k \in Keys, Usable(k)
  PROVE  /\ Held(k) \in Entry /\ Held(k).key = k
         /\ \E j \in 1..Len(cache) : Held(k) = cache[j]
         /\ Held(k).asOf <= Held(k).at /\ Held(k).at <= now
         /\ now - Held(k).at < Held(k).ttl
         /\ \A i \in 1..Len(cache) : cache[i].key = k => cache[i] = Held(k)
         /\ ~Held(k).null
<1>1. IndexOf(k) \in 1..Len(cache) /\ cache[IndexOf(k)].key = k
  BY HeldIsEntry DEF Usable
<1>2. Fresh(Held(k)) /\ ~Held(k).null
  BY DEF Usable
<1>3. QED
  BY <1>1, <1>2 DEF Held, Fresh, WellFormed, TypeOK, CacheIsLru, TimesAreOrdered

\* Entries and answers keep their order in time.
LEMMA TimesAreOrderedStep == WellFormed /\ TimesAreOrdered /\ [Next]_vars => TimesAreOrdered'
<1> SUFFICES ASSUME WellFormed, TimesAreOrdered, [Next]_vars
             PROVE  TimesAreOrdered'
  OBVIOUS
<1>0. /\ TypeOK /\ cache \in Seq(Entry) /\ Distinct(cache) /\ Len(cache) <= MaxSize
      /\ now \in Nat
  BY DEF WellFormed, TypeOK, CacheIsLru, Distinct
<1>a. ASSUME NEW k, cache' = LookedUp(k), now' = now
      PROVE  \A i \in 1..Len(cache') : cache'[i].asOf <= cache'[i].at /\ cache'[i].at <= now'
  <2>1. Within(LookedUp(k), cache)
    BY <1>0, LookedUpFacts
  <2>2. QED
    BY <1>a, <2>1 DEF Within, TimesAreOrdered
<1>b. ASSUME NEW c \in Callers, Leave(c), now' = now
      PROVE  \A d \in Callers : reply'[d].asOf <= now'
  BY <1>0, <1>b DEF Leave, NoReply, TimesAreOrdered, TypeOK
<1>1. ASSUME NEW c \in Callers, NEW k \in Keys, CallHit(c, k)
      PROVE  TimesAreOrdered'
  <2>1. AnswerOf(Held(k)).asOf <= now
    BY <1>0, <1>1, HitFacts DEF CallHit, AnswerOf, Entry
  <2>2. QED
    BY <1>0, <1>1, <1>a, <2>1 DEF CallHit, TimesAreOrdered, TypeOK
<1>2. ASSUME NEW c \in Callers, NEW k \in Keys, NEW ttl \in Ttls, NEW retries \in Retries,
             CallMiss(c, k, ttl, retries)
      PROVE  TimesAreOrdered'
  BY <1>2, <1>a DEF CallMiss, TimesAreOrdered
<1>3. ASSUME NEW c \in Callers, AdmitHit(c)
      PROVE  TimesAreOrdered'
  <2>1. call[c].key \in Keys
    BY <1>0, <1>3 DEF AdmitHit, TypeOK, InLock, Call
  <2>2. AnswerOf(Held(call[c].key)).asOf <= now
    BY <1>0, <1>3, <2>1, HitFacts DEF AdmitHit, AnswerOf, Entry
  <2>3. QED
    BY <1>0, <1>3, <1>a, <1>b, <2>2 DEF AdmitHit, TimesAreOrdered, TypeOK
<1>4. ASSUME NEW c \in Callers, AdmitMiss(c)
      PROVE  TimesAreOrdered'
  BY <1>4, <1>a DEF AdmitMiss, TimesAreOrdered
<1>5. ASSUME NEW c \in Callers, NEW null \in BOOLEAN, Respond(c, null)
      PROVE  TimesAreOrdered'
  BY <1>0, <1>5 DEF Respond, TimesAreOrdered, TypeOK
<1>6. ASSUME NEW c \in Callers, Receive(c)
      PROVE  TimesAreOrdered'
  <2> DEFINE e == [key |-> call[c].key, at |-> now, ttl |-> call[c].ttl,
                   asOf |-> reply[c].asOf, null |-> reply[c].null]
  <2>1. e \in Entry /\ e.asOf <= e.at /\ e.at <= now /\ AnswerOf(e).asOf <= now
    BY <1>0, <1>6 DEF Receive, TypeOK, InLock, Call, Entry, Reply, TimesAreOrdered, AnswerOf
  <2>2. cache' = Stored(e) /\ out' = [out EXCEPT ![c] = AnswerOf(e)] /\ Leave(c) /\ now' = now
    BY <1>6 DEF Receive
  <2> HIDE DEF e
  <2>3. \A i \in 1..Len(Stored(e)) :
          Stored(e)[i] = e \/ \E j \in 1..Len(cache) : Stored(e)[i] = cache[j]
    BY <1>0, <2>1, StoredFacts
  <2>4. QED
    BY <1>0, <1>b, <2>1, <2>2, <2>3 DEF TimesAreOrdered, TypeOK
<1>7. ASSUME NEW c \in Callers, NEW retryable \in BOOLEAN, Fail(c, retryable)
      PROVE  TimesAreOrdered'
  <2>1. UNCHANGED <<now, cache, out>>
    BY <1>7, FailCases
  <2>2. \A d \in Callers : reply'[d] = reply[d] \/ reply'[d] = NoReply
    BY <1>0, <1>7, FailCases DEF TypeOK, Leave
  <2>3. QED
    BY <1>0, <2>1, <2>2 DEF TimesAreOrdered, NoReply
<1>8. ASSUME NEW c \in Callers, Wake(c)
      PROVE  TimesAreOrdered'
  BY <1>8 DEF Wake, TimesAreOrdered
<1>9. ASSUME NEW c \in Callers, Cancel(c)
      PROVE  TimesAreOrdered'
  BY <1>9, <1>b DEF Cancel, TimesAreOrdered
<1>10. CASE ClearCache
  BY <1>10 DEF ClearCache, TimesAreOrdered
<1>11. CASE Tick
  <2>1. \A i \in 1..Len(cache) : cache[i].at \in Nat
    <3>1. \A i \in 1..Len(cache) : cache[i] \in Entry
      BY <1>0
    <3>2. QED
      BY <3>1 DEF Entry
  <2>2. \A c \in Callers : reply[c].asOf \in Nat /\ out[c].asOf \in Nat
    BY <1>0 DEF TypeOK, Reply, Answer, NoAnswer
  <2>3. QED
    BY <1>0, <1>11, <2>1, <2>2 DEF Tick, TimesAreOrdered
<1>12. CASE UNCHANGED vars
  BY <1>12 DEF vars, TimesAreOrdered
<1>13. QED
  BY <1>1, <1>2, <1>3, <1>4, <1>5, <1>6, <1>7, <1>8, <1>9, <1>10, <1>11, <1>12
     DEF Next, Progress

\* clear_cache alone counts clears, up to the bound.
LEMMA ClearsBoundedStep == ClearsBounded /\ WellFormed /\ [Next]_vars => ClearsBounded'
<1>1. [Next]_vars => clears' = clears \/ ClearCache
  BY FailCases
     DEF vars, Next, Progress, CallHit, CallMiss, AdmitHit, AdmitMiss, Respond, Receive,
         Fail, Wake, Cancel, Tick
<1>2. WellFormed /\ ClearCache => ClearsBounded'
  BY BoundsAssumption DEF WellFormed, TypeOK, ClearCache, ClearsBounded
<1>3. QED
  BY <1>1, <1>2 DEF ClearsBounded

\* Without clear_cache there is one era, so two flying tasks have two keys.
LEMMA FlyingApart ==
  ASSUME Safe, clears = 0, NEW c \in Callers, NEW d \in Callers, c # d, Flying(c), Flying(d)
  PROVE  call[c].key # call[d].key
<1>1. SingleFlight
  BY LockOrderImpliesSingleFlight DEF Safe, WellFormed
<1>2. call[c].era = 0 /\ call[d].era = 0
  BY DEF Safe, WellFormed, TypeOK, LockOrder, InLock, Flying, Call
<1>3. QED
  BY <1>1, <1>2 DEF SingleFlight

\* A task that finds a usable answer in the cache keeps the order of answers:
\* nobody is fetching that key, and the answer is the newest given for it.
LEMMA HitKeepsNewestLast ==
  ASSUME Safe, NEW c \in Callers, NEW k \in Keys, Usable(k), clears' = clears,
         cache' = LookedUp(k), out' = [out EXCEPT ![c] = AnswerOf(Held(k))],
         \A d \in Callers : Flying(d)' => /\ Flying(d) /\ pc'[d] = pc[d]
                                          /\ call'[d] = call[d] /\ reply'[d] = reply[d]
  PROVE  NewestLast'
<1> SUFFICES ASSUME clears = 0
             PROVE  NewestLast'
  BY DEF NewestLast
<1>0. /\ WellFormed /\ TypeOK /\ TimesAreOrdered /\ NewestLast
      /\ cache \in Seq(Entry) /\ Distinct(cache)
  BY DEF Safe, WellFormed, TypeOK, CacheIsLru, Distinct
<1>1. Within(LookedUp(k), cache)
  BY <1>0, LookedUpFacts
<1> DEFINE h == Held(k)
<1>2. /\ h.key = k /\ ~h.null
      /\ \E j \in 1..Len(cache) : h = cache[j]
      /\ \A i \in 1..Len(cache) : cache[i].key = k => cache[i] = h
      /\ h \in Entry
  BY <1>0, HitFacts
<1> HIDE DEF h
<1>3. /\ out'[c].key = k /\ out'[c].asOf = h.asOf
      /\ \A d \in Callers \ {c} : out'[d] = out[d]
  BY <1>0, <1>2 DEF TypeOK, AnswerOf, h
<1>4. \A d \in Callers : Flying(d) => call[d].key # k
  BY <1>0, <1>2 DEF NewestLast
<1>5. ASSUME NEW d \in Callers, NEW i \in 1..Len(cache'), Flying(d)',
             cache'[i].key = call'[d].key
      PROVE  cache'[i].null
  <2>1. PICK j \in 1..Len(cache) : cache'[i] = cache[j]
    BY <1>1 DEF Within
  <2>2. Flying(d) /\ cache[j].key = call[d].key
    BY <1>5, <2>1
  <2>3. cache[j].null
    BY <1>0, <2>2 DEF NewestLast
  <2>4. QED
    BY <2>1, <2>3
<1>6. ASSUME NEW d \in Callers, NEW i \in 1..Len(cache'), out'[d].key = cache'[i].key
      PROVE  cache'[i].null \/ out'[d].asOf <= cache'[i].asOf
  <2>1. PICK j \in 1..Len(cache) : cache'[i] = cache[j]
    BY <1>1 DEF Within
  <2>2. CASE d = c
    BY <1>2, <1>3, <1>6, <2>1, <2>2 DEF Entry
  <2>3. CASE d # c
    BY <1>0, <1>3, <1>6, <2>1, <2>3 DEF NewestLast
  <2>4. QED
    BY <2>2, <2>3
<1>7. ASSUME NEW b \in Callers, NEW d \in Callers, pc'[b] = "replied",
             out'[d].key = call'[b].key
      PROVE  out'[d].asOf <= reply'[b].asOf
  <2>1. Flying(b)'
    BY <1>7 DEF Flying
  <2>2. /\ Flying(b) /\ pc[b] = "replied" /\ call'[b] = call[b] /\ reply'[b] = reply[b]
    BY <1>7, <2>1
  <2>3. d # c
    BY <1>3, <1>4, <1>7, <2>2
  <2>4. QED
    BY <1>0, <1>3, <1>7, <2>2, <2>3 DEF NewestLast
<1>8. QED
  BY <1>5, <1>6, <1>7 DEF NewestLast

\* A task that finds no usable answer, and may now fetch, keeps it too: its
\* lookup left nothing but a null for the key.
LEMMA MissKeepsNewestLast ==
  ASSUME Safe, NEW c \in Callers, NEW k \in Keys, ~Usable(k), clears' = clears,
         cache' = LookedUp(k), out' = out,
         Flying(c)' => call'[c].key = k,
         \A d \in Callers \ {c} : Flying(d)' => Flying(d) /\ call'[d] = call[d],
         \A d \in Callers : pc'[d] = "replied" => /\ pc[d] = "replied"
                                                  /\ call'[d] = call[d]
                                                  /\ reply'[d] = reply[d]
  PROVE  NewestLast'
<1> SUFFICES ASSUME clears = 0
             PROVE  NewestLast'
  BY DEF NewestLast
<1>0. NewestLast /\ cache \in Seq(Entry) /\ Distinct(cache)
  BY DEF Safe, WellFormed, TypeOK, CacheIsLru, Distinct
<1>1. /\ Within(cache', cache)
      /\ \A i \in 1..Len(cache') : cache'[i].key = k => cache'[i].null
  BY <1>0, LookedUpFacts
<1>2. ASSUME NEW d \in Callers, NEW i \in 1..Len(cache'), Flying(d)',
             cache'[i].key = call'[d].key
      PROVE  cache'[i].null
  <2>1. CASE d = c
    BY <1>1, <1>2, <2>1
  <2>2. CASE d # c
    <3>1. PICK j \in 1..Len(cache) : cache'[i] = cache[j]
      BY <1>1 DEF Within
    <3>2. Flying(d) /\ cache[j].key = call[d].key
      BY <1>2, <2>2, <3>1
    <3>3. cache[j].null
      BY <1>0, <3>2 DEF NewestLast
    <3>4. QED
      BY <3>1, <3>3
  <2>3. QED
    BY <2>1, <2>2
<1>3. ASSUME NEW d \in Callers, NEW i \in 1..Len(cache'), out'[d].key = cache'[i].key
      PROVE  cache'[i].null \/ out'[d].asOf <= cache'[i].asOf
  <2>1. PICK j \in 1..Len(cache) : cache'[i] = cache[j]
    BY <1>1 DEF Within
  <2>2. QED
    BY <1>0, <1>3, <2>1 DEF NewestLast
<1>4. ASSUME NEW b \in Callers, NEW d \in Callers, pc'[b] = "replied",
             out'[d].key = call'[b].key
      PROVE  out'[d].asOf <= reply'[b].asOf
  <2>1. /\ pc[b] = "replied" /\ call'[b] = call[b] /\ reply'[b] = reply[b]
    BY <1>4
  <2>2. QED
    BY <1>0, <1>4, <2>1 DEF NewestLast
<1>5. QED
  BY <1>2, <1>3, <1>4 DEF NewestLast

\* So does a step that touches neither the cache nor the answers and starts no
\* fetch.
LEMMA QuietKeepsNewestLast ==
  ASSUME NewestLast, UNCHANGED <<cache, out, clears>>,
         \A d \in Callers : Flying(d)' => Flying(d) /\ call'[d] = call[d],
         \A d \in Callers : pc'[d] = "replied" => pc[d] = "replied" /\ reply'[d] = reply[d]
  PROVE  NewestLast'
<1>1. \A d \in Callers : pc'[d] = "replied" => call'[d] = call[d]
  BY DEF Flying
<1>2. clears = 0 => \A c \in Callers, i \in 1..Len(cache) :
        Flying(c)' /\ cache[i].key = call'[c].key => cache[i].null
  BY DEF NewestLast
<1>3. clears = 0 => \A c, d \in Callers :
        pc'[c] = "replied" /\ out[d].key = call'[c].key => out[d].asOf <= reply'[c].asOf
  BY <1>1 DEF NewestLast
<1>4. QED
  BY <1>2, <1>3 DEF NewestLast

\* Receiving an answer makes it the newest one of its key.
LEMMA ReceiveKeepsNewestLast ==
  ASSUME Safe, NEW c \in Callers, Receive(c)
  PROVE  NewestLast'
<1> SUFFICES ASSUME clears = 0
             PROVE  NewestLast'
  BY DEF NewestLast, Receive
<1> DEFINE e == [key |-> call[c].key, at |-> now, ttl |-> call[c].ttl,
                 asOf |-> reply[c].asOf, null |-> reply[c].null]
           k == call[c].key
<1>0. /\ NewestLast /\ TypeOK /\ Distinct(cache) /\ Len(cache) <= MaxSize /\ cache \in Seq(Entry)
  BY DEF Safe, WellFormed, CacheIsLru, Distinct, TypeOK
<1>1. /\ e \in Entry /\ e.key = k /\ e.asOf = reply[c].asOf /\ reply[c].asOf \in Nat
  BY <1>0 DEF Receive, TypeOK, InLock, Call, Entry, Reply
<1>2. /\ cache' = Stored(e) /\ out' = [out EXCEPT ![c] = AnswerOf(e)] /\ Leave(c)
      /\ pc[c] = "replied"
  BY DEF Receive
<1> HIDE DEF e
<1>3. \A i \in 1..Len(cache') : cache'[i] = e \/ \E j \in 1..Len(cache) : cache'[i] = cache[j]
  BY <1>0, <1>1, <1>2, StoredFacts
<1>4. /\ out'[c].key = k /\ out'[c].asOf = reply[c].asOf
      /\ \A d \in Callers \ {c} : out'[d] = out[d]
  BY <1>0, <1>1, <1>2 DEF TypeOK, AnswerOf
<1>5. \A d \in Callers : Flying(d)' => /\ d # c /\ Flying(d) /\ pc'[d] = pc[d]
                                       /\ call'[d] = call[d] /\ reply'[d] = reply[d]
  BY <1>0, <1>2 DEF TypeOK, Leave, Flying
<1>6. Flying(c)
  BY <1>2 DEF Flying
<1>7. \A d \in Callers : Flying(d)' => call'[d].key # k
  BY <1>5, <1>6, FlyingApart
<1>8. ASSUME NEW d \in Callers, NEW i \in 1..Len(cache'), Flying(d)',
             cache'[i].key = call'[d].key
      PROVE  cache'[i].null
  <2>1. cache'[i] # e
    BY <1>1, <1>7, <1>8
  <2>2. PICK j \in 1..Len(cache) : cache'[i] = cache[j]
    BY <1>3, <2>1
  <2>3. cache[j].null
    BY <1>0, <1>5, <1>8, <2>2 DEF NewestLast
  <2>4. QED
    BY <2>2, <2>3
<1>9. ASSUME NEW d \in Callers, NEW i \in 1..Len(cache'), out'[d].key = cache'[i].key
      PROVE  cache'[i].null \/ out'[d].asOf <= cache'[i].asOf
  <2>1. CASE cache'[i] = e
    <3>1. CASE d = c
      BY <1>1, <1>4, <2>1, <3>1
    <3>2. CASE d # c
      BY <1>0, <1>1, <1>2, <1>4, <1>9, <2>1, <3>2 DEF NewestLast
    <3>3. QED
      BY <3>1, <3>2
  <2>2. CASE cache'[i] # e
    <3>1. PICK j \in 1..Len(cache) : cache'[i] = cache[j]
      BY <1>3, <2>2
    <3>2. CASE d = c
      BY <1>0, <1>4, <1>6, <1>9, <3>1, <3>2 DEF NewestLast
    <3>3. CASE d # c
      BY <1>0, <1>4, <1>9, <3>1, <3>3 DEF NewestLast
    <3>4. QED
      BY <3>2, <3>3
  <2>3. QED
    BY <2>1, <2>2
<1>10. ASSUME NEW b \in Callers, NEW d \in Callers, pc'[b] = "replied",
              out'[d].key = call'[b].key
       PROVE  out'[d].asOf <= reply'[b].asOf
  <2>1. Flying(b)'
    BY <1>10 DEF Flying
  <2>2. d # c
    BY <1>4, <1>7, <1>10, <2>1
  <2>3. pc[b] = "replied" /\ out[d].key = call[b].key
    BY <1>4, <1>5, <1>10, <2>1, <2>2
  <2>4. QED
    BY <1>0, <1>4, <1>5, <2>1, <2>2, <2>3 DEF NewestLast
<1>11. QED
  BY <1>8, <1>9, <1>10 DEF NewestLast

\* Every step keeps the order of answers.
LEMMA NewestLastStep == Safe /\ [Next]_vars => NewestLast'
<1> SUFFICES ASSUME Safe, [Next]_vars
             PROVE  NewestLast'
  OBVIOUS
<1>0. WellFormed /\ TypeOK /\ LockOrder /\ TimesAreOrdered /\ NewestLast
  BY DEF Safe, WellFormed
<1>a. ASSUME NEW c \in Callers, Leave(c)
      PROVE  \A d \in Callers : /\ d # c => /\ pc'[d] = pc[d] /\ call'[d] = call[d]
                                            /\ reply'[d] = reply[d]
                                /\ ~Flying(c)' /\ pc'[c] = "idle"
  BY <1>0, <1>a DEF Leave, TypeOK, Flying
<1>1. ASSUME NEW c \in Callers, NEW k \in Keys, CallHit(c, k)
      PROVE  NewestLast'
  BY <1>1, HitKeepsNewestLast DEF CallHit, Flying
<1>2. ASSUME NEW c \in Callers, NEW k \in Keys, NEW ttl \in Ttls, NEW retries \in Retries,
             CallMiss(c, k, ttl, retries)
      PROVE  NewestLast'
  <2>1. call'[c].key = k /\ (pc'[c] = "sent" \/ pc'[c] = "queued")
    BY <1>0, <1>2 DEF CallMiss, TypeOK
  <2>2. \A d \in Callers \ {c} : pc'[d] = pc[d] /\ call'[d] = call[d]
    BY <1>0, <1>2 DEF CallMiss, TypeOK
  <2>3. /\ ~Usable(k) /\ cache' = LookedUp(k)
        /\ UNCHANGED <<clears, out, reply>>
    BY <1>2 DEF CallMiss
  <2>4. QED
    BY <2>1, <2>2, <2>3, MissKeepsNewestLast DEF Flying
<1>3. ASSUME NEW c \in Callers, AdmitHit(c)
      PROVE  NewestLast'
  <2>1. call[c].key \in Keys
    BY <1>0, <1>3 DEF AdmitHit, TypeOK, InLock, Call
  <2>2. /\ Usable(call[c].key) /\ clears' = clears /\ cache' = LookedUp(call[c].key)
        /\ out' = [out EXCEPT ![c] = AnswerOf(Held(call[c].key))]
        /\ Leave(c)
    BY <1>3 DEF AdmitHit
  <2>3. \A d \in Callers : Flying(d)' => /\ Flying(d) /\ pc'[d] = pc[d]
                                         /\ call'[d] = call[d] /\ reply'[d] = reply[d]
    BY <1>a, <2>2 DEF Flying
  <2>4. QED
    BY <2>1, <2>2, <2>3, HitKeepsNewestLast
<1>4. ASSUME NEW c \in Callers, AdmitMiss(c)
      PROVE  NewestLast'
  <2>1. call[c].key \in Keys
    BY <1>0, <1>4 DEF AdmitMiss, TypeOK, InLock, Call
  <2>2. /\ pc'[c] = "sent" /\ call'[c].key = call[c].key
        /\ \A d \in Callers \ {c} : pc'[d] = pc[d] /\ call'[d] = call[d]
    BY <1>0, <1>4 DEF AdmitMiss, TypeOK
  <2>3. /\ ~Usable(call[c].key) /\ cache' = LookedUp(call[c].key)
        /\ UNCHANGED <<clears, out, reply>>
    BY <1>4 DEF AdmitMiss
  <2>4. QED
    BY <2>1, <2>2, <2>3, MissKeepsNewestLast DEF Flying
<1>5. ASSUME NEW c \in Callers, NEW null \in BOOLEAN, Respond(c, null)
      PROVE  NewestLast'
  <2>1. /\ pc[c] = "sent" /\ reply'[c].asOf = now /\ UNCHANGED <<cache, out, clears, call>>
        /\ \A d \in Callers \ {c} : pc'[d] = pc[d] /\ reply'[d] = reply[d]
    BY <1>0, <1>5 DEF Respond, TypeOK
  <2>2. \A d \in Callers : Flying(d)' => Flying(d)
    BY <2>1 DEF Flying
  <2>3. clears = 0 => \A b, d \in Callers :
          pc'[b] = "replied" /\ out[d].key = call[b].key => out[d].asOf <= reply'[b].asOf
    BY <1>0, <2>1 DEF NewestLast, TimesAreOrdered
  <2>4. clears = 0 => \A b \in Callers, i \in 1..Len(cache) :
          Flying(b)' /\ cache[i].key = call[b].key => cache[i].null
    BY <1>0, <2>2 DEF NewestLast
  <2>5. QED
    BY <1>0, <2>1, <2>3, <2>4 DEF NewestLast
<1>6. ASSUME NEW c \in Callers, Receive(c)
      PROVE  NewestLast'
  BY <1>6, ReceiveKeepsNewestLast
<1>7. ASSUME NEW c \in Callers, NEW retryable \in BOOLEAN, Fail(c, retryable)
      PROVE  NewestLast'
  <2>1. UNCHANGED <<cache, out, clears>>
    BY <1>7, FailCases
  <2>2. \A d \in Callers \ {c} : pc'[d] = pc[d] /\ call'[d] = call[d] /\ reply'[d] = reply[d]
    BY <1>0, <1>7, <1>a, FailCases DEF TypeOK
  <2>3. Flying(c)' => Flying(c) /\ call'[c] = call[c] /\ pc'[c] # "replied"
    BY <1>0, <1>7, <1>a, FailCases DEF TypeOK
  <2>4. pc'[c] # "replied"
    BY <2>3 DEF Flying
  <2>5. QED
    BY <1>0, <2>1, <2>2, <2>3, <2>4, QuietKeepsNewestLast DEF Flying
<1>8. ASSUME NEW c \in Callers, Wake(c)
      PROVE  NewestLast'
  <2>1. /\ pc[c] = "backoff" /\ pc'[c] = "sent"
        /\ \A d \in Callers \ {c} : pc'[d] = pc[d]
        /\ UNCHANGED <<cache, out, clears, call, reply>>
    BY <1>0, <1>8 DEF Wake, TypeOK
  <2>2. QED
    BY <1>0, <2>1, QuietKeepsNewestLast DEF Flying
<1>9. ASSUME NEW c \in Callers, Cancel(c)
      PROVE  NewestLast'
  <2>1. Leave(c) /\ UNCHANGED <<cache, out, clears>>
    BY <1>9 DEF Cancel
  <2>2. QED
    BY <1>0, <1>a, <2>1, QuietKeepsNewestLast DEF Flying
<1>10. CASE ClearCache
  BY <1>0, <1>10 DEF ClearCache, NewestLast, TypeOK
<1>11. CASE Tick
  BY <1>0, <1>11, QuietKeepsNewestLast DEF Tick, Flying
<1>12. CASE UNCHANGED vars
  BY <1>0, <1>12, QuietKeepsNewestLast DEF vars, Flying
<1>13. QED
  BY <1>1, <1>2, <1>3, <1>4, <1>5, <1>6, <1>7, <1>8, <1>9, <1>10, <1>11, <1>12
     DEF Next, Progress

\* The whole invariant.
LEMMA SafeAlways == Spec => []Safe
<1>1. Safe /\ [Next]_vars => Safe'
  BY WellFormedStep, LockOrderStep, TimesAreOrderedStep, NewestLastStep, ClearsBoundedStep
     DEF Safe, WellFormed
<1>2. QED
  BY SafeInit, <1>1, PTL DEF Spec

\* While a key is being fetched, the cache holds no usable answer for it: the
\* second lookup makes waiting callers share the fetch.
THEOREM NoNeedlessRequestAlways == Spec => []NoNeedlessRequest
<1>1. Safe => NoNeedlessRequest
  <2> SUFFICES ASSUME Safe, clears = 0, NEW c \in Callers, Flying(c), Usable(call[c].key)
               PROVE  FALSE
    BY DEF NoNeedlessRequest
  <2>1. Held(call[c].key) = cache[IndexOf(call[c].key)] /\ ~Held(call[c].key).null
    BY DEF Held, Usable
  <2>2. IndexOf(call[c].key) \in 1..Len(cache) /\ cache[IndexOf(call[c].key)].key = call[c].key
    BY HeldIsEntry DEF Usable
  <2>3. QED
    BY <2>1, <2>2 DEF Safe, NewestLast
<1>2. QED
  BY <1>1, SafeAlways, PTL

\* An answer from the cache is one CachedRead allows.
LEMMA HitIsReply ==
  ASSUME Safe, clears = 0, NEW c \in Callers, NEW k \in Keys, Usable(k),
         call[c].key \in {NoKey, k}, now' = now,
         out' = [out EXCEPT ![c] = AnswerOf(Held(k))], call'[c].key = NoKey,
         \A d \in Callers \ {c} : call'[d] = call[d]
  PROVE  Reads!Next
<1> DEFINE a == AnswerOf(Held(k))
<1>0. WellFormed /\ TypeOK /\ TimesAreOrdered /\ NewestLast
  BY DEF Safe, WellFormed
<1>1. /\ Held(k) \in Entry /\ Held(k).key = k /\ ~Held(k).null
      /\ \E j \in 1..Len(cache) : Held(k) = cache[j]
      /\ Held(k).asOf <= Held(k).at /\ Held(k).at <= now
      /\ now - Held(k).at < Held(k).ttl
  BY <1>0, HitFacts
<1>2. /\ a.key = k /\ a.asOf = Held(k).asOf /\ a.at = Held(k).at
      /\ a \in [key : Keys, asOf : Nat, at : Nat]
  BY <1>1 DEF AnswerOf, Entry
<1>3. now \in Nat /\ Held(k).ttl \in Int /\ Held(k).ttl <= MaxTtl /\ MaxTtl \in Int
  BY <1>0, <1>1, TtlsAssumption DEF TypeOK, Entry
<1>4. now - a.at < MaxTtl /\ a.asOf <= a.at /\ a.at <= now
  BY <1>1, <1>2, <1>3
<1>5. a \in Reads!Answers
  BY <1>2, <1>3, <1>4 DEF Reads!Answers, AnswerOf
<1>6. \A d \in Callers : out[d].key = k => out[d].asOf <= a.asOf
  BY <1>0, <1>1, <1>2 DEF NewestLast
<1>7. PICK x \in Reads!Answers : x = a
  BY <1>5
<1> HIDE DEF a
<1>8. Reads!Reply(c, x)
  BY <1>2, <1>4, <1>6, <1>7 DEF Reads!Reply, a
<1>9. QED
  BY <1>8 DEF Reads!Next

\* Every step of HttpCache is a step of CachedRead or leaves its state alone.
LEMMA StepIsRead ==
  ASSUME Safe, clears = 0, clears' = 0, [Next]_vars
  PROVE  [Reads!Next]_(Reads!readVars)
<1>0. WellFormed /\ TypeOK /\ LockOrder /\ TimesAreOrdered /\ NewestLast
  BY DEF Safe, WellFormed
<1> DEFINE key  == [c \in Callers |-> call[c].key]
           nkey == [c \in Callers |-> call'[c].key]
<1>k. key' = nkey
  OBVIOUS
<1>a. ASSUME UNCHANGED <<now, out>>, \A d \in Callers : call'[d].key = call[d].key
      PROVE  UNCHANGED Reads!readVars
  BY <1>a DEF Reads!readVars
<1>b. ASSUME NEW c \in Callers, Leave(c)
      PROVE  call'[c].key = NoKey /\ \A d \in Callers \ {c} : call'[d] = call[d]
  BY <1>0, <1>b DEF Leave, NoCall, TypeOK
<1>c. ASSUME NEW c \in Callers, InLock(c), Leave(c), UNCHANGED <<now, out>>
      PROVE  Reads!Next
  <2>1. call[c].key \in Keys
    BY <1>0, <1>c DEF TypeOK, Call
  <2>2. key[c] # NoKey /\ nkey = [key EXCEPT ![c] = NoKey]
    BY <1>b, <1>c, <2>1, CallersAssumption
  <2>3. Reads!GiveUp(c)
    BY <1>c, <1>k, <2>2 DEF Reads!GiveUp
  <2>4. QED
    BY <2>3 DEF Reads!Next
<1>1. ASSUME NEW c \in Callers, NEW k \in Keys, CallHit(c, k)
      PROVE  Reads!Next
  <2>1. call[c].key = NoKey /\ call' = call /\ now' = now /\ Usable(k)
        /\ out' = [out EXCEPT ![c] = AnswerOf(Held(k))]
    BY <1>0, <1>1 DEF CallHit, LockOrder, InLock, NoCall
  <2>2. QED
    BY <2>1, HitIsReply
<1>2. ASSUME NEW c \in Callers, NEW k \in Keys, NEW ttl \in Ttls, NEW retries \in Retries,
             CallMiss(c, k, ttl, retries)
      PROVE  Reads!Next
  <2>1. call[c].key = NoKey /\ UNCHANGED <<now, out>>
    BY <1>0, <1>2 DEF CallMiss, LockOrder, InLock, NoCall
  <2>2. call'[c].key = k /\ \A d \in Callers \ {c} : call'[d] = call[d]
    BY <1>0, <1>2 DEF CallMiss, TypeOK
  <2>3. key[c] = NoKey /\ nkey = [key EXCEPT ![c] = k]
    BY <2>1, <2>2
  <2>4. Reads!Ask(c, k)
    BY <1>k, <2>1, <2>3 DEF Reads!Ask
  <2>5. QED
    BY <2>4 DEF Reads!Next
<1>3. ASSUME NEW c \in Callers, AdmitHit(c)
      PROVE  Reads!Next
  <2>1. call[c].key \in Keys
    BY <1>0, <1>3 DEF AdmitHit, TypeOK, InLock, Call
  <2>2. /\ Usable(call[c].key) /\ now' = now /\ Leave(c)
        /\ out' = [out EXCEPT ![c] = AnswerOf(Held(call[c].key))]
    BY <1>3 DEF AdmitHit
  <2>3. QED
    BY <1>b, <2>1, <2>2, HitIsReply
<1>4. ASSUME NEW c \in Callers, AdmitMiss(c)
      PROVE  UNCHANGED Reads!readVars
  BY <1>4, <1>a DEF AdmitMiss
<1>5. ASSUME NEW c \in Callers, NEW null \in BOOLEAN, Respond(c, null)
      PROVE  UNCHANGED Reads!readVars
  BY <1>5, <1>a DEF Respond
<1>6. ASSUME NEW c \in Callers, Receive(c)
      PROVE  Reads!Next
  <2> DEFINE given == [key |-> call[c].key, asOf |-> reply[c].asOf, at |-> now]
  <2>1. /\ pc[c] = "replied" /\ now' = now /\ Leave(c)
        /\ out' = [out EXCEPT ![c] = given]
    BY <1>6 DEF Receive, AnswerOf
  <2>2. /\ call[c].key \in Keys /\ reply[c].asOf \in Nat /\ reply[c].asOf <= now /\ now \in Nat
    BY <1>0, <2>1 DEF TypeOK, InLock, Call, Reply, TimesAreOrdered
  <2>3. given \in Reads!Answers
    BY <2>2 DEF Reads!Answers
  <2>4. nkey = [key EXCEPT ![c] = NoKey]
    BY <1>b, <2>1
  <2>5. \A d \in Callers : out[d].key = given.key => out[d].asOf <= given.asOf
    BY <1>0, <2>1 DEF NewestLast
  <2>6. given.key = key[c] /\ given.asOf <= given.at /\ given.at = now
    BY <2>2
  <2>7. PICK x \in Reads!Answers : x = given
    BY <2>3
  <2> HIDE DEF given
  <2>8. Reads!Reply(c, x)
    BY <1>k, <2>1, <2>4, <2>5, <2>6, <2>7 DEF Reads!Reply
  <2>9. QED
    BY <2>8 DEF Reads!Next
<1>7. ASSUME NEW c \in Callers, NEW retryable \in BOOLEAN, Fail(c, retryable)
      PROVE  Reads!Next \/ UNCHANGED Reads!readVars
  BY <1>7, <1>a, <1>c, FailCases
<1>8. ASSUME NEW c \in Callers, Wake(c)
      PROVE  UNCHANGED Reads!readVars
  BY <1>8, <1>a DEF Wake
<1>9. ASSUME NEW c \in Callers, Cancel(c)
      PROVE  Reads!Next
  BY <1>9, <1>c DEF Cancel
<1>10. CASE ClearCache
  BY <1>10, <1>a DEF ClearCache
<1>11. CASE Tick
  BY <1>11 DEF Tick, Reads!Tick, Reads!Next
<1>12. CASE UNCHANGED vars
  BY <1>12, <1>a DEF vars
<1>13. QED
  BY <1>1, <1>2, <1>3, <1>4, <1>5, <1>6, <1>7, <1>8, <1>9, <1>10, <1>11, <1>12
     DEF Next, Progress

\* A process that never calls clear_cache, as no module of the package does,
\* gives every reader bounded-stale answers that never go back in time.
THEOREM ReadsAreMonotonicAlways ==
  ASSUME MaxClears = 0
  PROVE  Spec => ReadsAreMonotonic
<1>1. Init => Reads!Init
  BY DEF Init, Reads!Init, NoCall, NoAnswer, Reads!NoAnswer
<1>2. Safe => clears = 0
  BY DEF Safe, WellFormed, TypeOK, ClearsBounded
<1>3. Safe' => clears' = 0
  BY DEF Safe, WellFormed, TypeOK, ClearsBounded
<1>4. Safe /\ Safe' /\ [Next]_vars => [Reads!Next]_(Reads!readVars)
  BY <1>2, <1>3, StepIsRead
<1>5. QED
  BY <1>1, <1>4, SafeAlways, PTL DEF Spec, ReadsAreMonotonic, Reads!Spec
=============================================================================
