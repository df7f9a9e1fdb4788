---------------------------- MODULE SourceProofs ----------------------------
(* Proofs about the sources that keep, or walk over, what they give in parts: *)
(* ImaHistory, for any number of calls, days and slots; PageWalk, for any     *)
(* list, page size, page caps and ttl; Registry, for any companies, funds and *)
(* insurers; and CsvScan, for any file, chunks, needles and limit.            *)
EXTENDS ImaHistory, PageWalk, Registry, CsvScan, FiniteSetTheorems,
        SequenceTheorems, WellFoundedInduction, NaturalsInduction, TLAPS
-----------------------------------------------------------------------------
(* The IMA history.                                                           *)

DayStates == {"waiting", "posting", "data", "none", "unread", "failed"}
DayRows == {"not cached", "data", "none", "unread"}
Call == [phase : {"idle", "running", "answered", "raised"}, since : Nat,
         days : UNION {[D -> DayStates] : D \in SUBSET Days},
         sentAt : UNION {[D -> Nat] : D \in SUBSET Days}]

\* What a call has of its days: a POST is under way for at most an hour, a day
\* with data was published, and a day without was not one ttl before the call.
CallSound(h) ==
  /\ h.since <= hour /\ DOMAIN h.sentAt = DOMAIN h.days
  /\ \A d \in DOMAIN h.days :
       /\ h.days[d] = "posting" => h.since <= h.sentAt[d] /\ h.sentAt[d] <= hour /\ hour <= h.sentAt[d] + 1
       /\ h.days[d] = "data" => publishedAt[d] <= hour
       /\ h.days[d] = "none" => publishedAt[d] > h.since - DayTtl

\* A day kept without data was not published when it was kept.
CacheSound ==
  \A d \in Days :
    /\ dayCache[d].loaded <= hour
    /\ dayCache[d].rows = "data" => publishedAt[d] <= hour
    /\ dayCache[d].rows = "none" => publishedAt[d] >= dayCache[d].loaded

ImaSound ==
  /\ hour \in 0 .. MaxHours /\ publishedAt \in [Days -> 0 .. Never]
  /\ dayCache \in [Days -> [loaded : Nat, rows : DayRows]]
  /\ history \in [ImaCallers -> Call]
  /\ CacheSound /\ \A c \in ImaCallers : CallSound(history[c])

LEMMA Numbers == MaxHours \in Nat /\ Never \in Nat /\ Never = MaxHours + 1 /\ DayTtl \in Nat \ {0}
BY ImaAssumption DEF Never

\* What the invariant says of the numbers of a state, one by one.
LEMMA Types ==
  ASSUME ImaSound
  PROVE  /\ hour \in Nat /\ hour <= MaxHours
         /\ \A d \in Days : dayCache[d].loaded \in Nat /\ publishedAt[d] \in Nat
         /\ \A c \in ImaCallers : /\ history[c] \in Call /\ CallSound(history[c]) /\ history[c].since \in Nat
                                 /\ DOMAIN history[c].days \subseteq Days
<1>a. hour \in 0 .. MaxHours
  BY DEF ImaSound
<1>1. hour \in Nat /\ hour <= MaxHours
  BY <1>a, Numbers
<1>2. \A n \in 0 .. Never : n \in Nat
  BY Numbers
<1>3. ASSUME NEW d \in Days PROVE dayCache[d].loaded \in Nat /\ publishedAt[d] \in Nat
  <2>1. publishedAt[d] \in 0 .. Never
    BY DEF ImaSound
  <2>2. dayCache[d] \in [loaded : Nat, rows : DayRows]
    BY DEF ImaSound
  <2> QED BY <1>2, <2>1, <2>2
<1>4. ASSUME NEW c \in ImaCallers
      PROVE  /\ history[c] \in Call /\ CallSound(history[c]) /\ history[c].since \in Nat
             /\ DOMAIN history[c].days \subseteq Days
  <2>1. history[c] \in Call /\ CallSound(history[c])
    BY DEF ImaSound
  <2>2. history[c].since \in Nat /\ \E D \in SUBSET Days : history[c].days \in [D -> DayStates]
    BY <2>1 DEF Call
  <2> QED BY <2>1, <2>2
<1> QED BY <1>1, <1>3, <1>4

\* A step of one call that leaves everything else alone.
LEMMA OneCallMoves ==
  ASSUME ImaSound, NEW c \in ImaCallers, NEW new \in Call, CallSound(new),
         history' = [history EXCEPT ![c] = new], UNCHANGED <<hour, publishedAt>>,
         dayCache' \in [Days -> [loaded : Nat, rows : DayRows]], CacheSound'
  PROVE  ImaSound'
<1>1. history' \in [ImaCallers -> Call]
  BY DEF ImaSound
<1>2. \A b \in ImaCallers : history'[b] = new \/ history'[b] = history[b]
  BY DEF ImaSound
<1>3. ASSUME NEW b \in ImaCallers PROVE CallSound(history[b])'
  <2>1. CallSound(history'[b])
    BY <1>2 DEF ImaSound
  <2> QED BY <2>1 DEF CallSound
<1> QED BY <1>1, <1>3 DEF ImaSound

\* Giving one day of a call a state and a time leaves the others alone.
LEMMA DayBecomesSound ==
  ASSUME NEW h \in Call, NEW d \in DOMAIN h.days, NEW s \in DayStates, NEW at \in Nat,
         DOMAIN h.sentAt = DOMAIN h.days,
         NEW g, g = DayBecomes(h, d, s, at)
  PROVE  /\ g \in Call /\ g.since = h.since
         /\ DOMAIN g.days = DOMAIN h.days /\ DOMAIN g.sentAt = DOMAIN h.days
         /\ g.days[d] = s /\ g.sentAt[d] = at
         /\ \A e \in DOMAIN h.days : e # d => g.days[e] = h.days[e] /\ g.sentAt[e] = h.sentAt[e]
<1> DEFINE days == [h.days EXCEPT ![d] = s]
           sentAt == [h.sentAt EXCEPT ![d] = at]
<1>1. PICK D \in SUBSET Days : h.days \in [D -> DayStates]
  BY DEF Call
<1>2. PICK E \in SUBSET Days : h.sentAt \in [E -> Nat]
  BY DEF Call
<1>3. E = D
  BY <1>1, <1>2
<1>4. /\ days \in [D -> DayStates] /\ sentAt \in [D -> Nat] /\ days[d] = s /\ sentAt[d] = at
      /\ \A e \in D : e # d => days[e] = h.days[e] /\ sentAt[e] = h.sentAt[e]
  BY <1>1, <1>2, <1>3
<1>5. g = [phase |-> h.phase, since |-> h.since, days |-> days, sentAt |-> sentAt]
  BY DEF DayBecomes
<1> HIDE DEF days, sentAt
<1>6. g \in Call /\ g.since = h.since /\ g.days = days /\ g.sentAt = sentAt
  BY <1>4, <1>5 DEF Call
<1>7. DOMAIN g.days = DOMAIN h.days /\ DOMAIN g.sentAt = DOMAIN h.days
  BY <1>1, <1>4, <1>6
<1> QED BY <1>1, <1>4, <1>6, <1>7

\* A day that becomes what the rest of the state allows keeps its call sound.
LEMMA DayMoves ==
  ASSUME ImaSound, NEW c \in ImaCallers, NEW d \in DOMAIN history[c].days, NEW s \in DayStates, NEW at \in Nat,
         s = "posting" => at = hour,
         s = "data" => publishedAt[d] <= hour,
         s = "none" => publishedAt[d] > history[c].since - DayTtl,
         NEW g, g = DayBecomes(history[c], d, s, at)
  PROVE  g \in Call /\ CallSound(g)
<1> DEFINE h == history[c]
<1>1. h \in Call /\ CallSound(h)
  BY DEF ImaSound
<1>2. /\ h.since <= hour /\ DOMAIN h.sentAt = DOMAIN h.days
      /\ \A e \in DOMAIN h.days :
           /\ h.days[e] = "posting" => h.since <= h.sentAt[e] /\ h.sentAt[e] <= hour /\ hour <= h.sentAt[e] + 1
           /\ h.days[e] = "data" => publishedAt[e] <= hour
           /\ h.days[e] = "none" => publishedAt[e] > h.since - DayTtl
  BY <1>1 DEF CallSound
<1>3. h.since \in Nat /\ hour \in Nat
  BY Types
<1> HIDE DEF h
<1>4. /\ g \in Call /\ g.since = h.since
      /\ DOMAIN g.days = DOMAIN h.days /\ DOMAIN g.sentAt = DOMAIN h.days
      /\ g.days[d] = s /\ g.sentAt[d] = at
      /\ \A e \in DOMAIN h.days : e # d => g.days[e] = h.days[e] /\ g.sentAt[e] = h.sentAt[e]
  BY <1>1, <1>2, DayBecomesSound DEF h
<1>6. ASSUME NEW e \in DOMAIN g.days
      PROVE /\ g.days[e] = "posting" => g.since <= g.sentAt[e] /\ g.sentAt[e] <= hour /\ hour <= g.sentAt[e] + 1
            /\ g.days[e] = "data" => publishedAt[e] <= hour
            /\ g.days[e] = "none" => publishedAt[e] > g.since - DayTtl
  <2>1. CASE e = d
    BY <1>2, <1>3, <1>4, <2>1 DEF h
  <2>2. CASE e # d
    BY <1>2, <1>4, <2>2
  <2> QED BY <2>1, <2>2
<1> QED BY <1>2, <1>4, <1>6 DEF CallSound

-----------------------------------------------------------------------------
LEMMA ImaInitSound == ASSUME ImaInit PROVE ImaSound
<1> USE DEF ImaInit
<1>1. hour \in 0 .. MaxHours /\ publishedAt \in [Days -> 0 .. Never]
  BY Numbers
<1>2. dayCache \in [Days -> [loaded : Nat, rows : DayRows]] /\ CacheSound
  <2>1. NoDay \in [loaded : Nat, rows : DayRows] /\ NoDay.rows = "not cached" /\ NoDay.loaded = 0
    BY DEF NoDay, DayRows
  <2>2. \A d \in Days : dayCache[d] = NoDay
    OBVIOUS
  <2>3. dayCache \in [Days -> [loaded : Nat, rows : DayRows]]
    BY <2>1
  <2>0. 0 <= hour
    OBVIOUS
  <2>4. \A d \in Days : /\ dayCache[d].loaded <= hour
                        /\ dayCache[d].rows # "data" /\ dayCache[d].rows # "none"
    <3> SUFFICES ASSUME NEW d \in Days
                 PROVE dayCache[d].loaded <= hour /\ dayCache[d].rows # "data" /\ dayCache[d].rows # "none"
      OBVIOUS
    <3>1. dayCache[d].loaded = 0 /\ dayCache[d].rows = "not cached"
      BY <2>1, <2>2
    <3> QED BY <3>1, <2>0
  <2>5. CacheSound
    BY <2>4 DEF CacheSound
  <2> QED BY <2>3, <2>5
<1>3. NoCall \in Call /\ CallSound(NoCall)
  <2>3. NoCall \in Call
    <3>1. [d \in {} |-> "waiting"] \in [{} -> DayStates] /\ [d \in {} |-> 0] \in [{} -> Nat]
      BY DEF DayStates
    <3> QED BY <3>1 DEF NoCall, Call
  <2> QED BY <2>3 DEF CallSound, NoCall
<1> QED BY <1>1, <1>2, <1>3 DEF ImaSound

\* Time and publication: what was true of the days stays true.
LEMMA PublishSound == ASSUME ImaSound, Publish PROVE ImaSound'
<1>1. PICK p \in Days : publishedAt[p] = Never /\ publishedAt' = [publishedAt EXCEPT ![p] = hour]
  BY DEF Publish
<1>2. hour' = hour /\ dayCache' = dayCache /\ history' = history
  BY DEF Publish
<1>a. hour \in Nat /\ hour <= MaxHours
  BY Types
<1>3. hour \in Nat /\ hour < Never /\ hour \in 0 .. MaxHours /\ hour \in 0 .. Never
  BY <1>a, Numbers
<1>b. publishedAt \in [Days -> 0 .. Never]
  BY DEF ImaSound
<1>4. publishedAt' \in [Days -> 0 .. Never] /\ publishedAt'[p] = hour /\ \A d \in Days : d # p => publishedAt'[d] = publishedAt[d]
  BY <1>1, <1>3, <1>b
<1>5. CacheSound'
  <2> SUFFICES ASSUME NEW d \in Days
               PROVE /\ dayCache[d].loaded <= hour
                     /\ dayCache[d].rows = "data" => publishedAt'[d] <= hour
                     /\ dayCache[d].rows = "none" => publishedAt'[d] >= dayCache[d].loaded
    BY <1>2 DEF CacheSound
  <2>1. /\ dayCache[d].loaded <= hour
        /\ dayCache[d].rows = "data" => publishedAt[d] <= hour
        /\ dayCache[d].rows = "none" => publishedAt[d] >= dayCache[d].loaded
    BY DEF ImaSound, CacheSound
  <2> QED BY <1>3, <1>4, <2>1
<1>6. ASSUME NEW c \in ImaCallers PROVE CallSound(history[c])'
  <2> DEFINE h == history[c]
  <2>1. h \in Call /\ CallSound(h) /\ h.since \in Nat /\ DOMAIN h.days \subseteq Days
    BY Types
  <2> SUFFICES ASSUME NEW d \in DOMAIN h.days
               PROVE /\ h.days[d] = "data" => publishedAt'[d] <= hour
                     /\ h.days[d] = "none" => publishedAt'[d] > h.since - DayTtl
    BY <1>2, <2>1 DEF CallSound
  <2> HIDE DEF h
  <2>2. CASE d = p
    BY <1>3, <1>4, <2>1, <2>2, Numbers DEF CallSound
  <2>3. CASE d # p
    BY <1>4, <2>1, <2>3 DEF CallSound
  <2> QED BY <2>2, <2>3
<1> QED BY <1>2, <1>4, <1>5, <1>6 DEF ImaSound

LEMMA HourSound == ASSUME ImaSound, Hour PROVE ImaSound'
<1>1. hour < MaxHours /\ hour' = hour + 1 /\ publishedAt' = publishedAt /\ dayCache' = dayCache /\ history' = history
  BY DEF Hour
<1>2. hour \in Nat /\ hour' \in 0 .. MaxHours
  BY <1>1, Types, Numbers
<1>3. CacheSound'
  <2> SUFFICES ASSUME NEW d \in Days
               PROVE /\ dayCache[d].loaded <= hour + 1
                     /\ dayCache[d].rows = "data" => publishedAt[d] <= hour + 1
                     /\ dayCache[d].rows = "none" => publishedAt[d] >= dayCache[d].loaded
    BY <1>1 DEF CacheSound
  <2>1. dayCache[d].loaded \in Nat /\ publishedAt[d] \in Nat
    BY Types
  <2>2. /\ dayCache[d].loaded <= hour
        /\ dayCache[d].rows = "data" => publishedAt[d] <= hour
        /\ dayCache[d].rows = "none" => publishedAt[d] >= dayCache[d].loaded
    BY DEF ImaSound, CacheSound
  <2> QED BY <1>2, <2>1, <2>2
<1>4. ASSUME NEW c \in ImaCallers PROVE CallSound(history[c])'
  <2> DEFINE h == history[c]
  <2>1. h \in Call /\ CallSound(h) /\ h.since \in Nat /\ DOMAIN h.days \subseteq Days
    BY Types
  <2>2. \A d \in DOMAIN h.days : h.days[d] = "posting" => h.sentAt[d] = hour
    BY DEF Hour, InState
  <2>3. \A d \in DOMAIN h.days : publishedAt[d] \in Nat
    BY <2>1, Types
  <2>4. h.since <= hour /\ DOMAIN h.sentAt = DOMAIN h.days
    BY <2>1 DEF CallSound
  <2> SUFFICES /\ h.since <= hour + 1
               /\ \A d \in DOMAIN h.days :
                    /\ h.days[d] = "posting" => h.since <= h.sentAt[d] /\ h.sentAt[d] <= hour + 1 /\ hour + 1 <= h.sentAt[d] + 1
                    /\ h.days[d] = "data" => publishedAt[d] <= hour + 1
                    /\ h.days[d] = "none" => publishedAt[d] > h.since - DayTtl
    BY <1>1, <2>4 DEF CallSound
  <2> HIDE DEF h
  <2> QED BY <1>2, <2>1, <2>2, <2>3, <2>4 DEF CallSound
<1> QED BY <1>1, <1>2, <1>3, <1>4 DEF ImaSound

-----------------------------------------------------------------------------
\* What the steps of one call share: the call and its day.
LEMMA EnterHitSound == ASSUME ImaSound, NEW c \in ImaCallers, NEW d \in Days, EnterHit(c, d) PROVE ImaSound'
<1> DEFINE g == DayBecomes(history[c], d, dayCache[d].rows, 0)
<1>1. /\ d \in DOMAIN history[c].days /\ dayCache[d].rows # "not cached" /\ hour - dayCache[d].loaded < DayTtl
      /\ history' = [history EXCEPT ![c] = g] /\ hour' = hour /\ publishedAt' = publishedAt /\ dayCache' = dayCache
  BY DEF EnterHit, Admitted, FreshDay, InState
<1> HIDE DEF g
<1>2. dayCache[d].rows \in {"data", "none", "unread"} /\ dayCache[d].rows \in DayStates
  BY <1>1 DEF ImaSound, DayStates, DayRows
<1>3. /\ hour \in Nat /\ dayCache[d].loaded \in Nat /\ publishedAt[d] \in Nat
      /\ history[c].since \in Nat /\ CallSound(history[c])
  BY Types
<1>4. /\ history[c].since <= hour
      /\ dayCache[d].rows = "data" => publishedAt[d] <= hour
      /\ dayCache[d].rows = "none" => publishedAt[d] >= dayCache[d].loaded
  BY <1>3 DEF CallSound, ImaSound, CacheSound
<1>5. dayCache[d].rows = "none" => publishedAt[d] > history[c].since - DayTtl
  BY <1>1, <1>3, <1>4, Numbers
<1>6. g \in Call /\ CallSound(g)
  BY <1>1, <1>2, <1>4, <1>5, DayMoves DEF g
<1>7. dayCache' \in [Days -> [loaded : Nat, rows : DayRows]] /\ CacheSound'
  BY <1>1 DEF ImaSound, CacheSound
<1> QED BY <1>1, <1>6, <1>7, OneCallMoves

LEMMA EnterMissSound == ASSUME ImaSound, NEW c \in ImaCallers, NEW d \in Days, EnterMiss(c, d) PROVE ImaSound'
<1> DEFINE g == DayBecomes(history[c], d, "posting", hour)
<1>1. /\ d \in DOMAIN history[c].days
      /\ history' = [history EXCEPT ![c] = g] /\ hour' = hour /\ publishedAt' = publishedAt
      /\ dayCache' = [dayCache EXCEPT ![d] = NoDay]
  BY DEF EnterMiss, Admitted, InState
<1> HIDE DEF g
<1>2. hour \in Nat /\ "posting" \in DayStates
  BY Types DEF DayStates
<1>3. g \in Call /\ CallSound(g)
  BY <1>1, <1>2, DayMoves DEF g
<1>4. NoDay \in [loaded : Nat, rows : DayRows] /\ NoDay.rows = "not cached" /\ NoDay.loaded = 0
  BY DEF NoDay, DayRows
<1>5. dayCache' \in [Days -> [loaded : Nat, rows : DayRows]]
  BY <1>1, <1>4 DEF ImaSound
<1>6. CacheSound'
  <2> SUFFICES ASSUME NEW e \in Days
               PROVE /\ dayCache'[e].loaded <= hour
                     /\ dayCache'[e].rows = "data" => publishedAt[e] <= hour
                     /\ dayCache'[e].rows = "none" => publishedAt[e] >= dayCache'[e].loaded
    BY <1>1 DEF CacheSound
  <2>1. CASE e = d
    <3>1. dayCache'[e] = NoDay
      BY <1>1, <2>1 DEF ImaSound
    <3>2. dayCache'[e].rows = "not cached" /\ dayCache'[e].loaded = 0
      BY <3>1, <1>4
    <3>3. dayCache'[e].loaded <= hour
      <4>1. 0 <= hour
        BY <1>2
      <4> QED BY <3>2, <4>1
    <3> QED BY <3>2, <3>3
  <2>2. CASE e # d
    BY <1>1, <2>2 DEF ImaSound, CacheSound
  <2> QED BY <2>1, <2>2
<1> QED BY <1>1, <1>3, <1>5, <1>6, OneCallMoves

LEMMA DayComesSound == ASSUME ImaSound, NEW c \in ImaCallers, NEW d \in Days, DayComes(c, d) PROVE ImaSound'
<1>1. PICK h \in history[c].sentAt[d] .. hour :
        LET shown == IF Published(d, h) THEN "data" ELSE "none" IN
        /\ dayCache' = [dayCache EXCEPT ![d] = [loaded |-> hour, rows |-> shown]]
        /\ history' = [history EXCEPT ![c] = DayBecomes(history[c], d, shown, 0)]
  BY DEF DayComes
<1> DEFINE shown == IF Published(d, h) THEN "data" ELSE "none"
           g == DayBecomes(history[c], d, shown, 0)
           entry == [loaded |-> hour, rows |-> shown]
<1>2. /\ d \in DOMAIN history[c].days /\ history[c].days[d] = "posting"
      /\ hour' = hour /\ publishedAt' = publishedAt
  BY DEF DayComes, InState
<1>3. /\ hour \in Nat /\ publishedAt[d] \in Nat /\ history[c].since \in Nat /\ CallSound(history[c])
      /\ history[c] \in Call
  BY Types
<1>4. history[c].since <= history[c].sentAt[d] /\ history[c].sentAt[d] <= hour /\ hour <= history[c].sentAt[d] + 1
  BY <1>2, <1>3 DEF CallSound
<1>5. history[c].sentAt[d] \in Nat
  <2>1. PICK E \in SUBSET Days : history[c].sentAt \in [E -> Nat]
    BY <1>3 DEF Call
  <2>2. DOMAIN history[c].sentAt = DOMAIN history[c].days
    BY <1>3 DEF CallSound
  <2> QED BY <1>2, <2>1, <2>2
<1>6. h \in Nat /\ history[c].sentAt[d] <= h /\ h <= hour
  BY <1>3, <1>5
<1>7. shown \in {"data", "none"} /\ shown \in DayStates
  BY DEF DayStates
<1>8. shown = "data" => publishedAt[d] <= hour
  BY <1>3, <1>6 DEF Published
<1>9. shown = "none" => publishedAt[d] > history[c].since - DayTtl /\ publishedAt[d] >= hour
  BY <1>3, <1>4, <1>5, <1>6, Numbers DEF Published
<1>10. dayCache' = [dayCache EXCEPT ![d] = entry] /\ history' = [history EXCEPT ![c] = g]
  BY <1>1
<1>11. entry.loaded = hour /\ entry.rows = shown /\ entry \in [loaded : Nat, rows : DayRows]
  BY <1>3, <1>7 DEF DayRows
<1> HIDE DEF shown, g, entry
<1>12. g \in Call /\ CallSound(g)
  BY <1>2, <1>7, <1>8, <1>9, DayMoves DEF g
<1>13. dayCache' \in [Days -> [loaded : Nat, rows : DayRows]]
  BY <1>10, <1>11 DEF ImaSound
<1>14. CacheSound'
  <2> SUFFICES ASSUME NEW e \in Days
               PROVE /\ dayCache'[e].loaded <= hour
                     /\ dayCache'[e].rows = "data" => publishedAt[e] <= hour
                     /\ dayCache'[e].rows = "none" => publishedAt[e] >= dayCache'[e].loaded
    BY <1>2 DEF CacheSound
  <2>1. CASE e = d
    <3>1. dayCache'[e] = entry
      BY <1>10, <2>1 DEF ImaSound
    <3>2. dayCache'[e].rows = shown /\ dayCache'[e].loaded = hour
      BY <3>1, <1>11
    <3>3. dayCache'[e].loaded <= hour
      BY <3>2, <1>3
    <3>4. dayCache'[e].rows = "none" => publishedAt[e] >= dayCache'[e].loaded
      BY <3>2, <2>1, <1>9
    <3>5. dayCache'[e].rows = "data" => publishedAt[e] <= hour
      BY <3>2, <2>1, <1>8
    <3> QED BY <3>3, <3>4, <3>5
  <2>2. CASE e # d
    BY <1>10, <2>2 DEF ImaSound, CacheSound
  <2> QED BY <2>1, <2>2
<1> QED BY <1>2, <1>10, <1>12, <1>13, <1>14, OneCallMoves

LEMMA HeaderMissingSound ==
  ASSUME ImaSound, NEW c \in ImaCallers, NEW d \in Days, HeaderMissing(c, d) PROVE ImaSound'
<1> DEFINE g == DayBecomes(history[c], d, "unread", 0)
           entry == [loaded |-> hour, rows |-> "unread"]
<1>1. /\ d \in DOMAIN history[c].days /\ "unread" \in DayStates
      /\ history' = [history EXCEPT ![c] = g] /\ dayCache' = [dayCache EXCEPT ![d] = entry]
      /\ hour' = hour /\ publishedAt' = publishedAt
  BY DEF HeaderMissing, InState, DayStates
<1>2. hour \in Nat
  BY Types
<1>3. entry \in [loaded : Nat, rows : DayRows] /\ entry.rows = "unread" /\ entry.loaded = hour
  BY <1>2 DEF DayRows
<1> HIDE DEF g, entry
<1>4. g \in Call /\ CallSound(g)
  BY <1>1, DayMoves DEF g
<1>5. dayCache' \in [Days -> [loaded : Nat, rows : DayRows]]
  BY <1>1, <1>3 DEF ImaSound
<1>6. CacheSound'
  <2> SUFFICES ASSUME NEW e \in Days
               PROVE /\ dayCache'[e].loaded <= hour
                     /\ dayCache'[e].rows = "data" => publishedAt[e] <= hour
                     /\ dayCache'[e].rows = "none" => publishedAt[e] >= dayCache'[e].loaded
    BY <1>1 DEF CacheSound
  <2>1. CASE e = d
    <3>1. dayCache'[e].rows = "unread" /\ dayCache'[e].loaded = hour
      BY <1>1, <1>3, <2>1 DEF ImaSound
    <3> QED BY <1>2, <3>1
  <2>2. CASE e # d
    BY <1>1, <2>2 DEF ImaSound, CacheSound
  <2> QED BY <2>1, <2>2
<1> QED BY <1>1, <1>4, <1>5, <1>6, OneCallMoves

LEMMA PostFailsSound == ASSUME ImaSound, NEW c \in ImaCallers, NEW d \in Days, PostFails(c, d) PROVE ImaSound'
<1> DEFINE g == DayBecomes(history[c], d, "failed", 0)
<1>1. /\ d \in DOMAIN history[c].days /\ "failed" \in DayStates
      /\ history' = [history EXCEPT ![c] = g] /\ hour' = hour /\ publishedAt' = publishedAt /\ dayCache' = dayCache
  BY DEF PostFails, InState, DayStates
<1> HIDE DEF g
<1>2. g \in Call /\ CallSound(g)
  BY <1>1, DayMoves DEF g
<1>3. dayCache' \in [Days -> [loaded : Nat, rows : DayRows]] /\ CacheSound'
  BY <1>1 DEF ImaSound, CacheSound
<1> QED BY <1>1, <1>2, <1>3, OneCallMoves

\* The cache of the days, left alone, is as sound as it was.
LEMMA CacheStands ==
  ASSUME ImaSound, UNCHANGED <<hour, publishedAt, dayCache>>
  PROVE  dayCache' \in [Days -> [loaded : Nat, rows : DayRows]] /\ CacheSound'
BY DEF ImaSound, CacheSound

LEMMA AskHistorySound == ASSUME ImaSound, NEW c \in ImaCallers, AskHistory(c) PROVE ImaSound'
<1>1. PICK days \in SUBSET Days :
        history' = [history EXCEPT ![c] =
          [phase |-> "running", since |-> hour, days |-> [d \in days |-> "waiting"], sentAt |-> [d \in days |-> 0]]]
  <2>1. PICK start \in Days, end \in Days :
          history' = [history EXCEPT ![c] =
            [phase |-> "running", since |-> hour,
             days |-> [d \in {d \in Days : start <= d /\ d <= end} |-> "waiting"],
             sentAt |-> [d \in {d \in Days : start <= d /\ d <= end} |-> 0]]]
    BY DEF AskHistory
  <2> QED BY <2>1
<1>2. UNCHANGED <<hour, publishedAt, dayCache>>
  BY DEF AskHistory
<1> DEFINE waits == [d \in days |-> "waiting"]
           zeros == [d \in days |-> 0]
           g == [phase |-> "running", since |-> hour, days |-> waits, sentAt |-> zeros]
<1>3. waits \in [days -> DayStates] /\ zeros \in [days -> Nat] /\ \A d \in days : waits[d] = "waiting"
  BY DEF DayStates
<1>4. hour \in Nat
  BY Types
<1>5. history' = [history EXCEPT ![c] = g]
  BY <1>1
<1> HIDE DEF waits, zeros
<1>6. g \in Call /\ g.since = hour /\ g.days = waits /\ g.sentAt = zeros
  BY <1>3, <1>4 DEF Call
<1> HIDE DEF g
<1>9. g.since <= hour
  BY <1>4, <1>6
<1>10. CallSound(g)
  BY <1>3, <1>6, <1>9 DEF CallSound
<1> QED BY <1>2, <1>5, <1>6, <1>10, CacheStands, OneCallMoves

LEMMA AnswerHistorySound == ASSUME ImaSound, NEW c \in ImaCallers, AnswerHistory(c) PROVE ImaSound'
<1> DEFINE h == history[c]
           g == [history[c] EXCEPT !.phase = "answered"]
<1>1. UNCHANGED <<hour, publishedAt, dayCache>> /\ history' = [history EXCEPT ![c] = g]
  BY DEF AnswerHistory
<1>2. h \in Call /\ CallSound(h)
  BY Types
<1>3. g \in Call /\ g.since = h.since /\ g.days = h.days /\ g.sentAt = h.sentAt
  BY <1>2 DEF Call
<1> HIDE DEF h, g
<1>4. CallSound(g)
  BY <1>2, <1>3 DEF CallSound
<1> QED BY <1>1, <1>3, <1>4, CacheStands, OneCallMoves

LEMMA CancelHistorySound == ASSUME ImaSound, NEW c \in ImaCallers, CancelHistory(c) PROVE ImaSound'
<1>1. UNCHANGED <<hour, publishedAt, dayCache>> /\ history' = [history EXCEPT ![c] = Cancelled]
  BY DEF CancelHistory
<1> DEFINE none == [d \in {} |-> "waiting"]
           zeros == [d \in {} |-> 0]
<1>2. none \in [{} -> DayStates] /\ zeros \in [{} -> Nat]
  BY DEF DayStates
<1>3. Cancelled = [phase |-> "raised", since |-> 0, days |-> none, sentAt |-> zeros]
  BY DEF Cancelled, NoCall
<1> HIDE DEF none, zeros
<1>4. Cancelled \in Call /\ Cancelled.since = 0 /\ Cancelled.days = none /\ Cancelled.sentAt = zeros
  BY <1>2, <1>3 DEF Call
<1>5. DOMAIN Cancelled.days = {} /\ DOMAIN Cancelled.sentAt = {}
  BY <1>2, <1>4
<1>8. Cancelled.since <= hour
  <2>1. 0 <= hour
    BY Types
  <2> QED BY <2>1, <1>4
<1>9. CallSound(Cancelled)
  BY <1>5, <1>8 DEF CallSound
<1> QED BY <1>1, <1>4, <1>9, CacheStands, OneCallMoves

LEMMA RowIsGarbageSound == ASSUME ImaSound, NEW c \in ImaCallers, NEW d \in Days, RowIsGarbage(c, d) PROVE ImaSound'
<1> DEFINE h == history[c]
           rest == (InState(c, "waiting") \cup InState(c, "posting")) \ {d}
           days == [e \in rest |-> h.days[e]]
           sentAt == [e \in rest |-> h.sentAt[e]]
           g == [phase |-> "raised", since |-> h.since, days |-> days, sentAt |-> sentAt]
<1>1. UNCHANGED <<hour, publishedAt, dayCache>> /\ history' = [history EXCEPT ![c] = g]
  BY DEF RowIsGarbage
<1>2. h \in Call /\ CallSound(h) /\ DOMAIN h.days \subseteq Days
  BY Types
<1>3. rest \subseteq DOMAIN h.days
  BY DEF InState
<1> HIDE DEF h, rest
<1>4. days \in [rest -> DayStates] /\ sentAt \in [rest -> Nat]
  <2>1. PICK D \in SUBSET Days : h.days \in [D -> DayStates]
    BY <1>2 DEF Call
  <2>2. PICK E \in SUBSET Days : h.sentAt \in [E -> Nat]
    BY <1>2 DEF Call
  <2>3. E = D
    BY <1>2, <2>1, <2>2 DEF CallSound
  <2> QED BY <1>3, <2>1, <2>2, <2>3
<1>5. \A e \in rest : days[e] = h.days[e] /\ sentAt[e] = h.sentAt[e]
  OBVIOUS
<1> HIDE DEF days, sentAt
<1>6. g \in Call /\ g.since = h.since /\ g.days = days /\ g.sentAt = sentAt
  <2>1. rest \in SUBSET Days /\ h.since \in Nat
    BY <1>2, <1>3 DEF Call
  <2> QED BY <1>4, <2>1 DEF Call
<1>7. DOMAIN g.days = rest /\ DOMAIN g.sentAt = rest
  BY <1>4, <1>6
<1> HIDE DEF g
<1>10. CallSound(g)
  BY <1>2, <1>3, <1>5, <1>6, <1>7 DEF CallSound
<1> QED BY <1>1, <1>6, <1>10, CacheStands, OneCallMoves DEF h

-----------------------------------------------------------------------------
\* ImaSound is kept by every step, and by the steps that do nothing.
LEMMA ImaStep == ASSUME ImaSound, [ImaNext]_imaVars PROVE ImaSound'
<1>1. CASE Publish
  BY <1>1, PublishSound
<1>2. CASE Hour
  BY <1>2, HourSound
<1>3. ASSUME NEW c \in ImaCallers, AskHistory(c) \/ AnswerHistory(c) \/ CancelHistory(c) PROVE ImaSound'
  BY <1>3, AskHistorySound, AnswerHistorySound, CancelHistorySound
<1>4. ASSUME NEW c \in ImaCallers, NEW d \in Days,
             \/ EnterHit(c, d) \/ EnterMiss(c, d) \/ DayComes(c, d) \/ HeaderMissing(c, d)
             \/ PostFails(c, d) \/ RowIsGarbage(c, d)
      PROVE  ImaSound'
  BY <1>4, EnterHitSound, EnterMissSound, DayComesSound, HeaderMissingSound, PostFailsSound, RowIsGarbageSound
<1>5. CASE UNCHANGED imaVars
  BY <1>5 DEF imaVars, ImaSound, CacheSound, CallSound
<1> QED BY <1>1, <1>2, <1>3, <1>4, <1>5 DEF ImaNext

\* A day that was lost to a page that could not be read: where it is kept, or was
\* taken from, such a page came at most one ttl before.
UnreadSound ==
  /\ unreadAt \in [Days -> Int] /\ \A d \in Days : unreadAt[d] <= hour
  /\ \A d \in Days : dayCache[d].rows = "unread" => unreadAt[d] >= dayCache[d].loaded
  /\ \A c \in ImaCallers : \A d \in DOMAIN history[c].days :
       history[c].days[d] = "unread" => unreadAt[d] > history[c].since - DayTtl

\* A step that loses no day keeps what is known of those that were lost.
LEMMA UnreadStays ==
  ASSUME ImaSound, UnreadSound, unreadAt' = unreadAt, hour' \in {hour, hour + 1},
         \A d \in Days : dayCache'[d].rows = "unread" => dayCache'[d] = dayCache[d],
         \A c \in ImaCallers : \A d \in DOMAIN history'[c].days : history'[c].days[d] = "unread" =>
           \/ unreadAt[d] > history'[c].since - DayTtl
           \/ /\ d \in DOMAIN history[c].days /\ history[c].days[d] = "unread"
              /\ history'[c].since = history[c].since
  PROVE  UnreadSound'
<1>1. hour \in Nat
  BY Types
<1>2. unreadAt \in [Days -> Int]
  BY DEF UnreadSound
<1>3. ASSUME NEW d \in Days PROVE unreadAt[d] <= hour'
  BY <1>1, <1>2 DEF UnreadSound
<1>4. ASSUME NEW d \in Days, dayCache'[d].rows = "unread" PROVE unreadAt[d] >= dayCache'[d].loaded
  BY <1>4 DEF UnreadSound
<1>5. ASSUME NEW c \in ImaCallers, NEW d \in DOMAIN history'[c].days, history'[c].days[d] = "unread"
      PROVE  unreadAt[d] > history'[c].since - DayTtl
  BY <1>5 DEF UnreadSound
<1> QED BY <1>2, <1>3, <1>4, <1>5 DEF UnreadSound

\* The same for a step that gives one day of one call a new state.
LEMMA UnreadDay ==
  ASSUME ImaSound, UnreadSound, UNCHANGED <<hour, unreadAt>>, NEW c \in ImaCallers, NEW d \in DOMAIN history[c].days,
         NEW s \in DayStates, NEW at \in Nat, history' = [history EXCEPT ![c] = DayBecomes(history[c], d, s, at)],
         s = "unread" => unreadAt[d] > history[c].since - DayTtl,
         \A e \in Days : dayCache'[e].rows = "unread" => dayCache'[e] = dayCache[e]
  PROVE  UnreadSound'
<1> DEFINE g == DayBecomes(history[c], d, s, at)
<1>1. history[c] \in Call /\ DOMAIN history[c].sentAt = DOMAIN history[c].days
  BY Types DEF CallSound
<1>2. /\ g.since = history[c].since /\ DOMAIN g.days = DOMAIN history[c].days /\ g.days[d] = s
      /\ \A e \in DOMAIN g.days : e # d => g.days[e] = history[c].days[e]
  BY <1>1, DayBecomesSound
<1>3. history' = [history EXCEPT ![c] = g] /\ history \in [ImaCallers -> Call]
  BY DEF ImaSound
<1> HIDE DEF g
<1>4. history'[c] = g /\ \A b \in ImaCallers : b # c => history'[b] = history[b]
  BY <1>3
<1>5. ASSUME NEW b \in ImaCallers, NEW e \in DOMAIN history'[b].days, history'[b].days[e] = "unread"
      PROVE  \/ unreadAt[e] > history'[b].since - DayTtl
             \/ /\ e \in DOMAIN history[b].days /\ history[b].days[e] = "unread"
                /\ history'[b].since = history[b].since
  <2>1. CASE b = c /\ e = d
    BY <1>2, <1>4, <1>5, <2>1
  <2>2. CASE b = c /\ e # d
    BY <1>2, <1>4, <1>5, <2>2
  <2>3. CASE b # c
    BY <1>4, <1>5, <2>3
  <2> QED BY <2>1, <2>2, <2>3
<1> QED BY <1>5, UnreadStays

LEMMA UnreadComes ==
  ASSUME ImaSound, UnreadSound, NEW c \in ImaCallers, NEW d \in Days, HeaderMissing(c, d) PROVE UnreadSound'
<1> DEFINE g == DayBecomes(history[c], d, "unread", 0)
           entry == [loaded |-> hour, rows |-> "unread"]
<1>1. /\ d \in DOMAIN history[c].days /\ "unread" \in DayStates
      /\ history' = [history EXCEPT ![c] = g] /\ dayCache' = [dayCache EXCEPT ![d] = entry]
      /\ unreadAt' = [unreadAt EXCEPT ![d] = hour] /\ hour' = hour
  BY DEF HeaderMissing, InState, DayStates
<1>2. hour \in Nat /\ \A b \in ImaCallers : history[b].since \in Nat /\ DOMAIN history[b].days \subseteq Days
  BY Types
<1>3. \A b \in ImaCallers : history[b].since <= hour /\ DOMAIN history[b].sentAt = DOMAIN history[b].days
  BY Types DEF CallSound
<1>4. history[c] \in Call /\ history \in [ImaCallers -> Call] /\ unreadAt \in [Days -> Int]
  BY DEF ImaSound, UnreadSound
<1>5. g.since = history[c].since /\ DOMAIN g.days = DOMAIN history[c].days /\ \A e \in DOMAIN g.days : e # d => g.days[e] = history[c].days[e]
  BY <1>1, <1>3, <1>4, DayBecomesSound
<1>6. entry.loaded = hour
  OBVIOUS
<1> HIDE DEF g, entry
<1>7. unreadAt' \in [Days -> Int] /\ unreadAt'[d] = hour /\ \A e \in Days : e # d => unreadAt'[e] = unreadAt[e]
  BY <1>1, <1>2, <1>4
<1>8. history'[c] = g /\ \A b \in ImaCallers : b # c => history'[b] = history[b]
  BY <1>1, <1>4
<1>9. \A e \in Days : unreadAt[e] <= hour /\ unreadAt'[e] <= hour /\ unreadAt[e] \in Int /\ unreadAt'[e] >= unreadAt[e]
  BY <1>2, <1>4, <1>7 DEF UnreadSound
<1>10. ASSUME NEW e \in Days, dayCache'[e].rows = "unread" PROVE unreadAt'[e] >= dayCache'[e].loaded
  <2>1. CASE e = d
    <3>1. dayCache'[e] = entry
      BY <1>1, <2>1 DEF ImaSound
    <3> QED BY <1>2, <1>6, <1>7, <2>1, <3>1
  <2>2. CASE e # d
    <3>1. dayCache'[e] = dayCache[e]
      BY <1>1, <2>2 DEF ImaSound
    <3> QED BY <1>7, <1>10, <2>2, <3>1 DEF UnreadSound
  <2> QED BY <2>1, <2>2
<1>11. ASSUME NEW b \in ImaCallers, NEW e \in DOMAIN history'[b].days, history'[b].days[e] = "unread"
       PROVE  unreadAt'[e] > history'[b].since - DayTtl
  <2>1. /\ history'[b].since = history[b].since /\ e \in DOMAIN history[b].days
        /\ e # d => history[b].days[e] = "unread" \/ e = d
    <3>1. CASE b = c
      BY <1>5, <1>8, <1>11, <3>1
    <3>2. CASE b # c
      BY <1>8, <1>11, <3>2
    <3> QED BY <3>1, <3>2
  <2>2. e \in Days /\ history[b].since \in Nat /\ history[b].since <= hour
    BY <1>2, <1>3, <2>1
  <2>3. CASE e = d
    BY <1>2, <1>7, <2>1, <2>2, <2>3, Numbers
  <2>4. CASE e # d
    <3>1. unreadAt[e] > history[b].since - DayTtl
      BY <2>1, <2>4 DEF UnreadSound
    <3> QED BY <1>7, <2>1, <2>2, <2>4, <3>1
  <2> QED BY <2>3, <2>4
<1> QED BY <1>1, <1>7, <1>9, <1>10, <1>11 DEF UnreadSound

LEMMA UnreadInit == ASSUME ImaInit PROVE UnreadSound
<1>1. unreadAt \in [Days -> Int] /\ \A d \in Days : unreadAt[d] <= hour
  BY Numbers DEF ImaInit
<1>2. \A d \in Days : dayCache[d].rows = "not cached"
  BY DEF ImaInit, NoDay
<1>3. \A c \in ImaCallers : DOMAIN history[c].days = {}
  BY DEF ImaInit, NoCall
<1> QED BY <1>1, <1>2, <1>3 DEF UnreadSound

LEMMA UnreadStep == ASSUME ImaSound, UnreadSound, [ImaNext]_imaVars PROVE UnreadSound'
<1>1. CASE Publish \/ Hour \/ UNCHANGED imaVars
  <2>1. /\ unreadAt' = unreadAt /\ hour' \in {hour, hour + 1} /\ dayCache' = dayCache /\ history' = history
    BY <1>1 DEF Publish, Hour, imaVars
  <2> QED BY <2>1, UnreadStays
<1>2. ASSUME NEW c \in ImaCallers, AskHistory(c) \/ AnswerHistory(c) \/ CancelHistory(c) PROVE UnreadSound'
  <2>1. UNCHANGED <<hour, unreadAt, dayCache>> /\ history \in [ImaCallers -> Call]
    BY <1>2 DEF AskHistory, AnswerHistory, CancelHistory, ImaSound
  <2>2. \A b \in ImaCallers : b # c => history'[b] = history[b]
    BY <1>2, <2>1 DEF AskHistory, AnswerHistory, CancelHistory
  <2>3. \/ \A d \in DOMAIN history'[c].days : history'[c].days[d] # "unread"
        \/ history'[c].days = history[c].days /\ history'[c].since = history[c].since
    <3>1. CASE AskHistory(c)
      BY <2>1, <3>1 DEF AskHistory
    <3>2. CASE AnswerHistory(c)
      BY <2>1, <3>2 DEF AnswerHistory, Call
    <3>3. CASE CancelHistory(c)
      BY <2>1, <3>3 DEF CancelHistory, Cancelled, NoCall
    <3> QED BY <1>2, <3>1, <3>2, <3>3
  <2> QED BY <2>1, <2>2, <2>3, UnreadStays
<1>3. ASSUME NEW c \in ImaCallers, NEW d \in Days, EnterHit(c, d) PROVE UnreadSound'
  <2>1. /\ UNCHANGED <<hour, unreadAt, dayCache>> /\ d \in DOMAIN history[c].days
        /\ dayCache[d].rows # "not cached" /\ hour - dayCache[d].loaded < DayTtl
        /\ history' = [history EXCEPT ![c] = DayBecomes(history[c], d, dayCache[d].rows, 0)]
    BY <1>3 DEF EnterHit, Admitted, FreshDay, InState
  <2>2. /\ hour \in Nat /\ dayCache[d].loaded \in Nat /\ history[c].since \in Nat /\ history[c].since <= hour
        /\ unreadAt[d] \in Int
    BY Types DEF CallSound, UnreadSound
  <2>3. dayCache[d].rows \in DayStates
    BY <2>1 DEF ImaSound, DayStates, DayRows
  <2>4. dayCache[d].rows = "unread" => unreadAt[d] >= dayCache[d].loaded
    BY DEF UnreadSound
  <2>5. dayCache[d].rows = "unread" => unreadAt[d] > history[c].since - DayTtl
    BY <2>1, <2>2, <2>4, Numbers
  <2> QED BY <2>1, <2>3, <2>5, UnreadDay
<1>4. ASSUME NEW c \in ImaCallers, NEW d \in Days, EnterMiss(c, d) PROVE UnreadSound'
  <2>1. /\ UNCHANGED <<hour, unreadAt>> /\ d \in DOMAIN history[c].days /\ "posting" \in DayStates
        /\ dayCache' = [dayCache EXCEPT ![d] = NoDay]
        /\ history' = [history EXCEPT ![c] = DayBecomes(history[c], d, "posting", hour)]
    BY <1>4 DEF EnterMiss, Admitted, InState, DayStates
  <2>2. \A e \in Days : dayCache'[e].rows = "unread" => dayCache'[e] = dayCache[e]
    BY <2>1 DEF ImaSound, NoDay
  <2>3. hour \in Nat
    BY Types
  <2> QED BY <2>1, <2>2, <2>3, UnreadDay
<1>5. ASSUME NEW c \in ImaCallers, NEW d \in Days, DayComes(c, d) PROVE UnreadSound'
  <2>1. PICK shown \in {"data", "none"} :
          /\ dayCache' = [dayCache EXCEPT ![d] = [loaded |-> hour, rows |-> shown]]
          /\ history' = [history EXCEPT ![c] = DayBecomes(history[c], d, shown, 0)]
    BY <1>5 DEF DayComes
  <2>2. UNCHANGED <<hour, unreadAt>> /\ d \in DOMAIN history[c].days /\ shown \in DayStates
    BY <1>5 DEF DayComes, InState, DayStates
  <2>3. \A e \in Days : dayCache'[e].rows = "unread" => dayCache'[e] = dayCache[e]
    BY <2>1 DEF ImaSound
  <2> QED BY <2>1, <2>2, <2>3, UnreadDay
<1>6. ASSUME NEW c \in ImaCallers, NEW d \in Days, PostFails(c, d) PROVE UnreadSound'
  <2>1. /\ UNCHANGED <<hour, unreadAt, dayCache>> /\ d \in DOMAIN history[c].days /\ "failed" \in DayStates
        /\ history' = [history EXCEPT ![c] = DayBecomes(history[c], d, "failed", 0)]
    BY <1>6 DEF PostFails, InState, DayStates
  <2> QED BY <2>1, UnreadDay
<1>7. ASSUME NEW c \in ImaCallers, NEW d \in Days, RowIsGarbage(c, d) PROVE UnreadSound'
  <2>1. UNCHANGED <<hour, unreadAt, dayCache>> /\ history \in [ImaCallers -> Call]
    BY <1>7 DEF RowIsGarbage, ImaSound
  <2>2. \A b \in ImaCallers : b # c => history'[b] = history[b]
    BY <1>7, <2>1 DEF RowIsGarbage
  <2>3. \A e \in DOMAIN history'[c].days : history'[c].days[e] # "unread"
    BY <1>7, <2>1 DEF RowIsGarbage, InState
  <2> QED BY <2>1, <2>2, <2>3, UnreadStays
<1> QED BY <1>1, <1>2, <1>3, <1>4, <1>5, <1>6, <1>7, UnreadComes DEF ImaNext

\* The invariant itself: every cached day and every call under way is sound.
THEOREM ImaSoundAlways == ImaSpec => []ImaSound
<1>1. ImaInit => ImaSound
  BY ImaInitSound
<1>2. ImaSound /\ [ImaNext]_imaVars => ImaSound'
  BY ImaStep
<1> QED BY <1>1, <1>2, PTL DEF ImaSpec
LEMMA UnreadSoundAlways == ImaSpec => []UnreadSound
<1>1. ImaInit => UnreadSound
  BY UnreadInit
<1>2. ImaSound /\ UnreadSound /\ [ImaNext]_imaVars => UnreadSound'
  BY UnreadStep
<1> QED BY <1>1, <1>2, ImaSoundAlways, PTL DEF ImaSpec

\* The variables of the history have their types, for any days and callers.
THEOREM ImaTypeCorrect == ImaSpec => []ImaTypeOK
<1>1. ImaSound => ImaTypeOK
  BY DEF ImaSound, ImaTypeOK, CacheSound, Call, DayRows
<1> QED BY <1>1, ImaSoundAlways, PTL

\* get_ima_history invents no day and hides a published one for a ttl at most,
\* after it was published or after a page of it could not be read.
THEOREM HiddenAtMostADayAlways == ImaSpec => []HiddenAtMostADay
<1>1. ASSUME ImaSound, UnreadSound PROVE HiddenAtMostADay
  <2> SUFFICES ASSUME NEW c \in ImaCallers, NEW d \in DOMAIN history[c].days
               PROVE /\ history[c].days[d] = "data" => Published(d, hour)
                     /\ history[c].days[d] = "none" => ~Published(d, history[c].since - DayTtl)
    BY <1>1 DEF HiddenAtMostADay, UnreadSound
  <2>1. /\ history[c].days[d] = "data" => publishedAt[d] <= hour
        /\ history[c].days[d] = "none" => publishedAt[d] > history[c].since - DayTtl
    BY <1>1 DEF ImaSound, CallSound
  <2>2. publishedAt[d] \in Nat /\ history[c].since \in Nat
    BY <1>1, Types
  <2> QED BY <2>1, <2>2, Numbers DEF Published
<1> QED BY <1>1, ImaSoundAlways, UnreadSoundAlways, PTL

-----------------------------------------------------------------------------
(* The walks over lists given page by page.                                   *)

LEMMA PageNumbers ==
  /\ PageSize \in Nat \ {0} /\ PageTtl \in Nat \ {0} /\ MaxClock \in Nat /\ MaxChanges \in Nat
  /\ walk \in Walks => LastPage \in Nat \ {0}
<1>1. /\ PageSize \in Nat \ {0} /\ PageTtl \in Nat \ {0} /\ MaxClock \in Nat /\ MaxChanges \in Nat
      /\ SiconfiPages \in Nat \ {0} /\ PortfolioPages \in Nat \ {0} /\ EntesPages \in Nat \ {0}
  BY PageAssumption
<1>2. walk \in Walks => LastPage \in Nat \ {0}
  BY <1>1 DEF Walks, LastPage
<1> QED BY <1>1, <1>2

LEMMA LeastOfTwo == \A m, n \in Int : Min({m, n}) = IF m <= n THEN m ELSE n
BY DEF Min

LEMMA MostOfTwo == \A m, n \in Int : Max({m, n}) = IF m >= n THEN m ELSE n
BY DEF Max

\* The first k pages of a list, one after the other.
Prefix(list, k) == SubSeq(list, 1, Min({k * PageSize, Len(list)}))

\* Where the first k pages of a list end.
LEMMA PageEnds ==
  \A list \in Seq(Nat), k \in Nat :
    /\ k * PageSize \in Nat /\ Len(list) \in Nat
    /\ (k + 1) * PageSize = k * PageSize + PageSize
    /\ Min({k * PageSize, Len(list)}) = IF k * PageSize <= Len(list) THEN k * PageSize ELSE Len(list)
<1> TAKE list \in Seq(Nat), k \in Nat
<1> DEFINE end == k * PageSize
<1>1. end \in Nat /\ Len(list) \in Nat /\ (k + 1) * PageSize = end + PageSize
  BY PageNumbers
<1> HIDE DEF end
<1>2. Min({end, Len(list)}) = IF end <= Len(list) THEN end ELSE Len(list)
  BY <1>1, LeastOfTwo
<1> QED BY <1>1, <1>2 DEF end

\* The first k pages have k * PageSize rows, or they are the whole list.
LEMMA PrefixLength ==
  \A list \in Seq(Nat), k \in Nat :
    /\ Prefix(list, k) \in Seq(Nat)
    /\ Len(list) <= k * PageSize => Prefix(list, k) = list
    /\ Len(list) > k * PageSize => Len(Prefix(list, k)) = k * PageSize
<1> TAKE list \in Seq(Nat), k \in Nat
<1> DEFINE end == k * PageSize
           stop == Min({end, Len(list)})
<1>1. end \in Nat /\ Len(list) \in Nat /\ stop = IF end <= Len(list) THEN end ELSE Len(list)
  BY PageEnds
<1>a. \A i \in 1 .. Len(list) : list[i] \in Nat
  BY ElementOfSeq
<1> HIDE DEF end, stop
<1>b. \A i \in 1 .. stop : list[i] \in Nat
  BY <1>1, <1>a
<1>2. SubSeq(list, 1, stop) \in Seq(Nat) /\ Len(SubSeq(list, 1, stop)) = IF 1 <= stop THEN stop - 1 + 1 ELSE 0
  BY <1>1, <1>b, SubSeqProperties
<1>3. Len(list) <= end => SubSeq(list, 1, stop) = list
  BY <1>1, SubSeqFull
<1>4. Len(list) > end => Len(SubSeq(list, 1, stop)) = end
  BY <1>1, <1>2
<1> QED BY <1>2, <1>3, <1>4 DEF end, stop, Prefix

LEMMA NoPages == \A list \in Seq(Nat) : Prefix(list, 0) = << >>
<1> TAKE list \in Seq(Nat)
<1>1. 0 * PageSize = 0 /\ Len(list) \in Nat
  BY PageNumbers
<1>2. Min({0, Len(list)}) = 0
  BY <1>1, LeastOfTwo
<1>3. Prefix(list, 0) = SubSeq(list, 1, 0)
  BY <1>1, <1>2 DEF Prefix
<1> QED BY <1>3, SubSeqEmpty

\* The next page of a list continues the pages before it.
LEMMA PageFollows ==
  \A list \in Seq(Nat), k \in Nat :
    /\ PageOf(list, k + 1) \in Seq(Nat)
    /\ Prefix(list, k) \o PageOf(list, k + 1) = Prefix(list, k + 1)
<1> TAKE list \in Seq(Nat), k \in Nat
<1> DEFINE from == k * PageSize
           to == (k + 1) * PageSize
           stop == Min({to, Len(list)})
<1>1. /\ from \in Nat /\ to \in Nat /\ to = from + PageSize /\ PageSize \in Nat \ {0} /\ Len(list) \in Nat
      /\ stop = IF to <= Len(list) THEN to ELSE Len(list)
      /\ Min({from, Len(list)}) = IF from <= Len(list) THEN from ELSE Len(list)
  <2>1. k + 1 \in Nat
    OBVIOUS
  <2> QED BY <2>1, PageEnds, PageNumbers
<1>2. PageOf(list, k + 1) = SubSeq(list, from + 1, stop)
  <2>1. (k + 1) - 1 = k
    OBVIOUS
  <2> QED BY <2>1 DEF PageOf
<1>3. Prefix(list, k) = SubSeq(list, 1, Min({from, Len(list)})) /\ Prefix(list, k + 1) = SubSeq(list, 1, stop)
  BY DEF Prefix
<1>a. \A i \in 1 .. Len(list) : list[i] \in Nat
  BY ElementOfSeq
<1> HIDE DEF from, to, stop
<1>4. SubSeq(list, from + 1, stop) \in Seq(Nat)
  <2>1. \A i \in from + 1 .. stop : list[i] \in Nat
    BY <1>1, <1>a
  <2> QED BY <1>1, <2>1, SubSeqProperties
<1>5. CASE from <= Len(list)
  <2>1. /\ 1 \in 1 .. Len(list) + 1 /\ from \in 1 - 1 .. Len(list) /\ stop \in from .. Len(list)
    BY <1>1, <1>5
  <2>2. SubSeq(list, 1, from) \o SubSeq(list, from + 1, stop) = SubSeq(list, 1, stop)
    BY <2>1, ConcatAdjacentSubSeq
  <2> QED BY <1>1, <1>2, <1>3, <1>4, <1>5, <2>2
<1>6. CASE from > Len(list)
  <2>1. stop = Len(list) /\ Min({from, Len(list)}) = Len(list) /\ stop < from + 1
    BY <1>1, <1>6
  <2>2. SubSeq(list, from + 1, stop) = << >>
    BY <1>1, <2>1, SubSeqEmpty
  <2>3. list \o << >> = list /\ SubSeq(list, 1, Len(list)) = list
    BY ConcatEmptySeq, SubSeqFull
  <2> QED BY <1>2, <1>3, <1>4, <2>1, <2>2, <2>3
<1> QED BY <1>1, <1>5, <1>6

\* A division and what it leaves.
LEMMA DivisionLeaves == \A m, p \in Nat : p # 0 => m \div p \in Int /\ m < (m \div p) * p + p
OBVIOUS

\* As many pages as the first one tells hold the whole list.
LEMMA TotalIsEnough ==
  \A list \in Seq(Nat), k \in Nat : k >= TotalPages(list) => Len(list) <= k * PageSize
<1> TAKE list \in Seq(Nat), k \in Nat
<1> DEFINE many == Len(list)
           total == (many + PageSize - 1) \div PageSize
<1>1. many \in Nat /\ PageSize \in Nat \ {0}
  BY PageNumbers
<1>2. TotalPages(list) = Max({1, total})
  BY DEF TotalPages
<1> HIDE DEF many
<1>3. total \in Int /\ many + PageSize - 1 < total * PageSize + PageSize
  <2>1. many + PageSize - 1 \in Nat
    BY <1>1
  <2> QED BY <1>1, <2>1, DivisionLeaves
<1> HIDE DEF total
<1>4. Max({1, total}) >= total
  BY <1>3, MostOfTwo
<1>5. ASSUME k >= TotalPages(list) PROVE many <= k * PageSize
  <2>1. k >= total
    <3>1. Max({1, total}) \in Int
      BY <1>3, MostOfTwo
    <3> QED BY <1>2, <1>3, <1>4, <1>5, <3>1
  <2>2. k * PageSize >= total * PageSize
    BY <1>1, <1>3, <2>1
  <2>3. total * PageSize \in Int /\ k * PageSize \in Int
    BY <1>1, <1>3
  <2> QED BY <1>1, <1>3, <2>2, <2>3
<1> QED BY <1>5 DEF many

-----------------------------------------------------------------------------
\* The list and the cached pages: a page is of a version that was current when
\* it was kept, and a version is replaced once.
PagesSound ==
  /\ walk \in Walks /\ state \in {"idle", "walking", "done", "failed"}
  /\ clock \in Nat /\ clock <= MaxClock
  /\ versions \in Seq(Seq(Nat)) /\ Len(versions) >= 1 /\ Len(versions) <= MaxChanges + 1
  /\ replaced \in Seq(Nat) /\ Len(replaced) = Len(versions) - 1
  /\ \A v \in DOMAIN replaced : replaced[v] <= clock
  /\ pages \in Seq([version : Nat, at : Nat])
  /\ \A i \in DOMAIN pages :
       /\ pages[i].version \in DOMAIN versions /\ pages[i].at <= clock
       /\ pages[i].version \in DOMAIN replaced => replaced[pages[i].version] >= pages[i].at

\* The walk: what it read was current less than one ttl before it began, and what
\* it gathered is, when no page is of another version, the list up to its page.
WalkSound ==
  /\ began \in Nat /\ began <= clock
  /\ read \in Seq(Nat) /\ gathered \in Seq(Nat)
  /\ \A i \in DOMAIN read : read[i] \in DOMAIN versions
  /\ \A i \in DOMAIN read : read[i] \in DOMAIN replaced => replaced[read[i]] > began - PageTtl
  /\ Len(read) <= LastPage /\ (~InWorker => Len(read) <= Len(pages))
  /\ state = "walking" => Len(read) < LastPage
  /\ state = "done" => Len(read) >= 1 /\ EndsAfter(read)
  /\ read = << >> => gathered = << >>
  /\ read # << >> /\ OneVersion => gathered = Prefix(versions[read[1]], Len(read))

PageSound == PagesSound /\ WalkSound

LEMMA PageInitSound == ASSUME PageInit PROVE PageSound
<1> USE DEF PageInit
<1>1. PICK size \in Sizes : versions = << [i \in 1 .. size |-> i] >>
  OBVIOUS
<1>2. size \in Nat
  BY PageAssumption
<1> DEFINE first == [i \in 1 .. size |-> i]
<1>3. first \in Seq(Nat)
  BY <1>2
<1> HIDE DEF first
<1>4. versions = << first >>
  BY <1>1 DEF first
<1>5. versions \in Seq(Seq(Nat)) /\ Len(versions) = 1
  <2>1. \A T, e : e \in T => <<e>> \in Seq(T) /\ Len(<<e>>) = 1
    OBVIOUS
  <2> QED BY <1>3, <1>4, <2>1
<1>6. PagesSound
  BY <1>5, PageNumbers DEF PagesSound
<1>7. WalkSound
  BY PageNumbers DEF WalkSound
<1> QED BY <1>6, <1>7 DEF PageSound

\* What stands while only the list, the clock or the cached pages move.
LEMMA ListGrows ==
  ASSUME PageSound, ListChanges
  PROVE  /\ versions' \in Seq(Seq(Nat)) /\ Len(versions') = Len(versions) + 1
         /\ Len(versions) <= MaxChanges
         /\ \A v \in DOMAIN versions : v \in DOMAIN versions' /\ versions'[v] = versions[v]
         /\ replaced' \in Seq(Nat) /\ Len(replaced') = Len(replaced) + 1
         /\ replaced'[Len(versions)] = clock
         /\ \A v \in DOMAIN replaced' : v \in DOMAIN versions
         /\ \A v \in DOMAIN replaced' : v # Len(versions) => v \in DOMAIN replaced /\ replaced'[v] = replaced[v]
<1> DEFINE list == Last(versions)
           new == 10 + Len(versions)
<1>1. /\ versions \in Seq(Seq(Nat)) /\ Len(versions) \in Nat /\ Len(versions) >= 1 /\ clock \in Nat
      /\ replaced \in Seq(Nat) /\ Len(replaced) = Len(versions) - 1
  BY LenProperties DEF PageSound, PagesSound
<1>2. list \in Seq(Nat) /\ new \in Nat
  <2>1. Len(versions) \in 1 .. Len(versions)
    BY <1>1
  <2> QED BY <1>1, <2>1, ElementOfSeq DEF Last
<1> HIDE DEF list, new
<1>3. PICK next \in {<<new>> \o list, Append(list, new)} \cup (IF list = << >> THEN {} ELSE {Tail(list)}) :
        versions' = Append(versions, next)
  BY DEF ListChanges, list, new
<1>4. next \in Seq(Nat)
  <2>1. <<new>> \in Seq(Nat)
    BY <1>2
  <2>2. <<new>> \o list \in Seq(Nat)
    BY <1>2, <2>1, ConcatProperties
  <2>3. Append(list, new) \in Seq(Nat)
    BY <1>2, AppendProperties
  <2>4. list # << >> => Tail(list) \in Seq(Nat)
    BY <1>2, HeadTailProperties
  <2> QED BY <1>3, <2>2, <2>3, <2>4
<1>5. /\ versions' \in Seq(Seq(Nat)) /\ Len(versions') = Len(versions) + 1
      /\ \A v \in 1 .. Len(versions) : versions'[v] = versions[v]
  BY <1>1, <1>3, <1>4, AppendProperties
<1>6. replaced' = Append(replaced, clock) /\ Len(versions) <= MaxChanges
  BY DEF ListChanges
<1>7. /\ replaced' \in Seq(Nat) /\ Len(replaced') = Len(replaced) + 1
      /\ \A v \in 1 .. Len(replaced) : replaced'[v] = replaced[v]
      /\ replaced'[Len(replaced) + 1] = clock
  BY <1>1, <1>6, AppendProperties
<1>8. /\ DOMAIN versions = 1 .. Len(versions) /\ DOMAIN versions' = 1 .. Len(versions')
      /\ DOMAIN replaced = 1 .. Len(replaced) /\ DOMAIN replaced' = 1 .. Len(replaced')
  BY <1>1, <1>5, <1>7, LenProperties
<1>9. \A v \in DOMAIN versions : v \in DOMAIN versions' /\ versions'[v] = versions[v]
  BY <1>1, <1>5, <1>8
<1>10. replaced'[Len(versions)] = clock
  BY <1>1, <1>7
<1>11. \A v \in DOMAIN replaced' : v \in DOMAIN versions
  BY <1>1, <1>7, <1>8
<1>12. ASSUME NEW v \in DOMAIN replaced', v # Len(versions) PROVE v \in DOMAIN replaced /\ replaced'[v] = replaced[v]
  <2>1. v \in 1 .. Len(replaced)
    BY <1>1, <1>7, <1>8, <1>12
  <2> QED BY <1>7, <1>8, <2>1
<1> QED BY <1>5, <1>6, <1>7, <1>9, <1>10, <1>11, <1>12

LEMMA ListChangesSound == ASSUME PageSound, ListChanges PROVE PageSound'
<1> USE DEF PageSound
<1>1. UNCHANGED <<walk, clock, pages, read, gathered, began, limit, state>>
  BY DEF ListChanges
<1>2. Len(versions) \in Nat /\ Len(replaced) \in Nat /\ clock \in Nat /\ MaxChanges \in Nat
  BY LenProperties, PageNumbers DEF PagesSound
<1>3. PagesSound'
  <2>1. /\ Len(versions') >= 1 /\ Len(versions') <= MaxChanges + 1 /\ Len(replaced') = Len(versions') - 1
    <3>1. Len(versions') = Len(versions) + 1 /\ Len(versions) <= MaxChanges /\ Len(replaced') = Len(replaced) + 1
      BY ListGrows
    <3>2. Len(replaced) = Len(versions) - 1
      BY DEF PagesSound
    <3> QED BY <1>2, <3>1, <3>2
  <2>2. ASSUME NEW v \in DOMAIN replaced' PROVE replaced'[v] <= clock
    <3>1. \A w \in DOMAIN replaced : replaced[w] <= clock
      BY DEF PagesSound
    <3>2. CASE v = Len(versions)
      BY <1>2, <3>2, ListGrows
    <3>3. CASE v # Len(versions)
      BY <2>2, <3>1, <3>3, ListGrows
    <3> QED BY <3>2, <3>3
  <2>3. ASSUME NEW i \in DOMAIN pages
        PROVE  /\ pages[i].version \in DOMAIN versions' /\ pages[i].at <= clock
               /\ pages[i].version \in DOMAIN replaced' => replaced'[pages[i].version] >= pages[i].at
    <3>1. pages[i].version \in DOMAIN versions /\ pages[i].at <= clock /\ pages[i].at \in Nat
      <4>1. pages \in Seq([version : Nat, at : Nat]) /\ DOMAIN pages = 1 .. Len(pages)
        BY LenProperties DEF PagesSound
      <4>2. pages[i] \in [version : Nat, at : Nat]
        BY <2>3, <4>1, ElementOfSeq
      <4> QED BY <2>3, <4>2 DEF PagesSound
    <3>2. pages[i].version \in DOMAIN replaced => replaced[pages[i].version] >= pages[i].at
      BY <2>3 DEF PagesSound
    <3> HIDE DEF PageSound
    <3>3. pages[i].version \in DOMAIN replaced' => replaced'[pages[i].version] >= pages[i].at
      <4>1. CASE pages[i].version = Len(versions)
        BY <1>2, <3>1, <4>1, ListGrows
      <4>2. CASE pages[i].version # Len(versions)
        BY <3>2, <4>2, ListGrows
      <4> QED BY <4>1, <4>2
    <3> QED BY <3>1, <3>3, ListGrows
  <2> QED BY <1>1, <2>1, <2>2, <2>3, ListGrows DEF PagesSound
<1>4. WalkSound'
  <2>1. \A i \in DOMAIN read : read[i] \in DOMAIN versions /\ read[i] \in DOMAIN versions'
          /\ versions'[read[i]] = versions[read[i]]
    BY ListGrows DEF WalkSound
  <2>2. ASSUME NEW i \in DOMAIN read, read[i] \in DOMAIN replaced' PROVE replaced'[read[i]] > began - PageTtl
    <3>1. began \in Nat /\ began <= clock /\ PageTtl \in Nat \ {0}
      BY PageNumbers DEF WalkSound
    <3>2. CASE read[i] = Len(versions)
      <4>1. replaced'[read[i]] = clock
        BY <3>2, ListGrows
      <4> QED BY <1>2, <3>1, <4>1
    <3>3. CASE read[i] # Len(versions)
      <4>1. read[i] \in DOMAIN replaced /\ replaced'[read[i]] = replaced[read[i]]
        BY <2>2, <3>3, ListGrows
      <4> QED BY <4>1 DEF WalkSound
    <3> QED BY <3>2, <3>3
  <2>3. LastPage' = LastPage /\ (InWorker' <=> InWorker) /\ (OneVersion' <=> OneVersion)
    BY <1>1 DEF LastPage, InWorker, OneVersion
  <2>4. read \in Seq(Nat) /\ Len(read) \in Nat /\ DOMAIN read = 1 .. Len(read) /\ (read # << >> => Len(read) >= 1)
    BY LenProperties, EmptySeq DEF WalkSound
  <2>5. state = "done" => EndsAfter(read)'
    <3> SUFFICES ASSUME state = "done" PROVE EndsAfter(read)'
      OBVIOUS
    <3>1. EndsAfter(read) /\ Len(read) >= 1
      BY DEF WalkSound
    <3>2. versions'[read[1]] = versions[read[1]] /\ versions'[read[Len(read)]] = versions[read[Len(read)]]
      BY <2>1, <2>4, <3>1
    <3>3. read' = read /\ walk' = walk
      BY <1>1
    <3> QED BY <2>3, <3>1, <3>2, <3>3 DEF EndsAfter, Last
  <2>6. read # << >> /\ OneVersion => gathered = Prefix(versions'[read[1]], Len(read))
    <3>1. read # << >> => versions'[read[1]] = versions[read[1]]
      BY <2>1, <2>4
    <3> QED BY <3>1 DEF WalkSound
  <2> QED BY <1>1, <2>1, <2>2, <2>3, <2>5, <2>6 DEF WalkSound, Prefix
<1> QED BY <1>3, <1>4

LEMMA PageTickSound == ASSUME PageSound, PageTick PROVE PageSound'
<1> USE DEF PageSound
<1>1. /\ clock < MaxClock /\ clock' = clock + 1
      /\ UNCHANGED <<walk, versions, replaced, pages, read, gathered, began, limit, state>>
  BY DEF PageTick
<1>2. clock \in Nat /\ clock' \in Nat /\ clock' >= clock /\ clock' <= MaxClock
  BY <1>1, PageNumbers DEF PagesSound
<1>3. PagesSound'
  <2>1. ASSUME NEW v \in DOMAIN replaced PROVE replaced[v] <= clock'
    <3>1. replaced[v] \in Nat /\ replaced[v] <= clock
      BY LenProperties, ElementOfSeq DEF PagesSound
    <3> QED BY <1>2, <3>1
  <2>2. ASSUME NEW i \in DOMAIN pages PROVE pages[i].at <= clock'
    <3>1. pages[i] \in [version : Nat, at : Nat]
      BY LenProperties, ElementOfSeq DEF PagesSound
    <3>2. pages[i].at \in Nat /\ pages[i].at <= clock
      BY <3>1 DEF PagesSound
    <3> QED BY <1>2, <3>2
  <2> QED BY <1>1, <1>2, <2>1, <2>2 DEF PagesSound
<1>4. WalkSound'
  <2>1. began \in Nat /\ began <= clock'
    BY <1>2 DEF WalkSound
  <2>2. LastPage' = LastPage /\ (InWorker' <=> InWorker) /\ (OneVersion' <=> OneVersion)
        /\ (EndsAfter(read)' <=> EndsAfter(read))
    BY <1>1 DEF LastPage, InWorker, OneVersion, EndsAfter, Last
  <2> QED BY <1>1, <2>1, <2>2 DEF WalkSound, Prefix
<1> QED BY <1>3, <1>4

LEMMA BeginSound == ASSUME PageSound, Begin PROVE PageSound'
<1> USE DEF PageSound
<1>1. /\ state' = "walking" /\ read' = << >> /\ gathered' = << >> /\ began' = clock
      /\ UNCHANGED <<walk, clock, versions, replaced, pages>>
  BY DEF Begin
<1>2. PagesSound'
  BY <1>1 DEF PagesSound
<1>3. WalkSound'
  <2>1. LastPage' = LastPage /\ LastPage \in Nat \ {0}
    BY <1>1, PageNumbers DEF LastPage, PagesSound
  <2>2. began' \in Nat /\ began' <= clock'
    BY <1>1 DEF PagesSound
  <2>3. read' \in Seq(Nat) /\ gathered' \in Seq(Nat) /\ Len(read') = 0 /\ DOMAIN read' = {}
    BY <1>1
  <2>4. Len(read') <= Len(pages')
    BY <1>1, <2>3, LenProperties DEF PagesSound
  <2> QED BY <1>1, <2>1, <2>2, <2>3, <2>4 DEF WalkSound
<1> QED BY <1>2, <1>3

LEMMA ReadFailsSound == ASSUME PageSound, ReadFails PROVE PageSound'
<1> USE DEF PageSound
<1>1. /\ state = "walking" /\ state' = "failed"
      /\ UNCHANGED <<walk, clock, versions, replaced, pages, read, gathered, began, limit>>
  BY DEF ReadFails
<1>2. PagesSound'
  BY <1>1 DEF PagesSound
<1>3. WalkSound'
  <2>1. LastPage' = LastPage /\ (InWorker' <=> InWorker) /\ (OneVersion' <=> OneVersion)
    BY <1>1 DEF LastPage, InWorker, OneVersion
  <2> QED BY <1>1, <2>1 DEF WalkSound, Prefix
<1> QED BY <1>2, <1>3

\* A page taken continues what was gathered, if it is of the version of the others.
LEMMA TookSound ==
  ASSUME PageSound, state = "walking", NEW v \in DOMAIN versions, Took(v),
         v \in DOMAIN replaced => replaced[v] > began - PageTtl,
         ~InWorker => Len(read) + 1 <= Len(pages')
  PROVE  WalkSound'
<1> USE DEF PageSound
<1>1. /\ read' = Append(read, v) /\ gathered' = gathered \o PageOf(versions[v], Len(read) + 1)
      /\ state' = IF EndsAfter(read') THEN "done" ELSE "walking"
      /\ UNCHANGED <<walk, clock, versions, replaced, began, limit>>
  BY DEF Took
<1>2. /\ versions \in Seq(Seq(Nat)) /\ DOMAIN versions = 1 .. Len(versions) /\ Len(versions) \in Nat
      /\ read \in Seq(Nat) /\ gathered \in Seq(Nat) /\ Len(read) \in Nat /\ DOMAIN read = 1 .. Len(read)
      /\ (read = << >> => Len(read) = 0) /\ (read # << >> => Len(read) >= 1)
  BY LenProperties, EmptySeq DEF PagesSound, WalkSound
<1>3. v \in Nat /\ versions[v] \in Seq(Nat)
  BY <1>2, ElementOfSeq
<1>4. /\ read' \in Seq(Nat) /\ Len(read') = Len(read) + 1 /\ DOMAIN read' = 1 .. Len(read) + 1
      /\ \A i \in 1 .. Len(read) : read'[i] = read[i]
      /\ read'[Len(read) + 1] = v
  BY <1>1, <1>2, <1>3, AppendProperties, LenProperties
<1>5. gathered' \in Seq(Nat)
  BY <1>1, <1>2, <1>3, PageFollows, ConcatProperties
<1>6. ASSUME NEW i \in DOMAIN read'
      PROVE  /\ read'[i] \in DOMAIN versions
             /\ read'[i] \in DOMAIN replaced => replaced[read'[i]] > began - PageTtl
  <2>1. CASE i = Len(read) + 1
    BY <1>4, <2>1
  <2>2. CASE i # Len(read) + 1
    <3>1. i \in DOMAIN read /\ read'[i] = read[i]
      <4>1. i \in 1 .. Len(read) + 1
        BY <1>4
      <4>2. i \in 1 .. Len(read)
        BY <1>2, <2>2, <4>1
      <4> QED BY <1>2, <1>4, <4>2
    <3> QED BY <3>1 DEF WalkSound
  <2> QED BY <2>1, <2>2
<1>7. LastPage' = LastPage /\ LastPage \in Nat
  BY <1>1, PageNumbers DEF LastPage, PagesSound
<1>8. EndsAfter(read)' <=> EndsAfter(read')
  BY <1>1, <1>7 DEF EndsAfter, Last
<1>9. Len(read') <= LastPage /\ (state' = "walking" => Len(read') < LastPage)
  <2>1. Len(read) < LastPage
    BY DEF WalkSound
  <2>2. Len(read') = LastPage => EndsAfter(read')
    BY DEF EndsAfter
  <2>3. state' = "walking" => Len(read') # LastPage
    BY <1>1, <2>2
  <2> QED BY <1>2, <1>4, <1>7, <2>1, <2>3
<1>10. state' = "done" => Len(read') >= 1 /\ EndsAfter(read')
  BY <1>1, <1>2, <1>4
<1>11. ASSUME OneVersion' PROVE gathered' = Prefix(versions[read'[1]], Len(read'))
  <2>1. \A i \in DOMAIN read' : read'[i] = read'[1]
    BY <1>11 DEF OneVersion
  <2>2. read'[1] = v
    <3>1. Len(read) + 1 \in DOMAIN read'
      BY <1>2, <1>4
    <3> QED BY <1>4, <2>1, <3>1
  <2>3. gathered = Prefix(versions[v], Len(read))
    <3>1. CASE read = << >>
      <4>1. gathered = << >> /\ Len(read) = 0
        BY <1>2, <3>1 DEF WalkSound
      <4> QED BY <1>3, <4>1, NoPages
    <3>2. CASE read # << >>
      <4>1. \A i \in DOMAIN read : i \in DOMAIN read' /\ read'[i] = read[i]
        BY <1>2, <1>4
      <4>2. \A i \in DOMAIN read : read[i] = v
        BY <2>1, <2>2, <4>1
      <4>3. 1 \in DOMAIN read
        BY <1>2, <3>2
      <4>4. OneVersion /\ read[1] = v
        BY <4>2, <4>3 DEF OneVersion
      <4> QED BY <3>2, <4>4 DEF WalkSound
    <3> QED BY <3>1, <3>2
  <2> QED BY <1>1, <1>2, <1>3, <1>4, <2>2, <2>3, PageFollows
<1>12. began' \in Nat /\ began' <= clock'
  BY <1>1 DEF WalkSound
<1>14. ~InWorker' => Len(read') <= Len(pages')
  BY <1>1, <1>4 DEF InWorker
<1>13. read' # << >>
  BY <1>1, <1>2, <1>3, AppendProperties
<1> QED BY <1>1, <1>4, <1>5, <1>6, <1>7, <1>8, <1>9, <1>10, <1>11, <1>12, <1>13, <1>14 DEF WalkSound, Prefix

LEMMA ReadHitSound == ASSUME PageSound, ReadHit PROVE PageSound'
<1> USE DEF PageSound
<1> DEFINE i == Len(read) + 1
           v == pages[i].version
<1>1. /\ state = "walking" /\ i \in DOMAIN pages /\ clock - pages[i].at < PageTtl /\ Took(v) /\ pages' = pages
  BY DEF ReadHit, FreshPage
<1>2. pages[i] \in [version : Nat, at : Nat]
  BY <1>1, LenProperties, ElementOfSeq DEF PagesSound
<1>3. v \in DOMAIN versions /\ (v \in DOMAIN replaced => replaced[v] >= pages[i].at /\ replaced[v] \in Nat)
  BY <1>1, LenProperties, ElementOfSeq DEF PagesSound
<1>4. began \in Nat /\ began <= clock /\ clock \in Nat /\ PageTtl \in Nat
  BY PageNumbers DEF PagesSound, WalkSound
<1>5. v \in DOMAIN replaced => replaced[v] > began - PageTtl
  <2>1. pages[i].at \in Nat
    BY <1>2
  <2> HIDE DEF v, i
  <2> QED BY <1>1, <1>3, <1>4, <2>1
<1> HIDE DEF v
<1>6. WalkSound'
  <2>1. Len(read) + 1 <= Len(pages')
    BY <1>1, LenProperties DEF PagesSound
  <2> QED BY <1>1, <1>3, <1>5, <2>1, TookSound
<1>7. PagesSound'
  <2>1. state' \in {"done", "walking"} /\ UNCHANGED <<walk, clock, versions, replaced, pages>>
    BY <1>1 DEF Took
  <2> QED BY <2>1 DEF PagesSound
<1> QED BY <1>6, <1>7

LEMMA ReadMissSound == ASSUME PageSound, ReadMiss PROVE PageSound'
<1> USE DEF PageSound
<1> DEFINE i == Len(read) + 1
           entry == [version |-> Len(versions), at |-> clock]
           kept == [j \in 1 .. Max({i, Len(pages)}) |-> IF j = i THEN entry ELSE pages[j]]
<1>1. /\ state = "walking" /\ Took(Len(versions))
      /\ IF InWorker THEN pages' = pages ELSE pages' = kept
  BY DEF ReadMiss
<1>2. /\ Len(versions) \in Nat /\ Len(versions) >= 1 /\ DOMAIN versions = 1 .. Len(versions)
      /\ DOMAIN replaced = 1 .. Len(versions) - 1 /\ clock \in Nat
      /\ i \in Nat \ {0} /\ Len(pages) \in Nat /\ DOMAIN pages = 1 .. Len(pages)
  <2>1. /\ versions \in Seq(Seq(Nat)) /\ Len(versions) >= 1 /\ replaced \in Seq(Nat) /\ clock \in Nat
        /\ Len(replaced) = Len(versions) - 1 /\ pages \in Seq([version : Nat, at : Nat]) /\ read \in Seq(Nat)
    BY DEF PagesSound, WalkSound
  <2> HIDE DEF PageSound
  <2>2. Len(read) \in Nat /\ Len(versions) \in Nat /\ Len(pages) \in Nat
    BY <2>1, LenProperties
  <2>3. DOMAIN versions = 1 .. Len(versions) /\ DOMAIN replaced = 1 .. Len(replaced) /\ DOMAIN pages = 1 .. Len(pages)
    BY <2>1, LenProperties
  <2> QED BY <2>1, <2>2, <2>3
<1>3. Len(versions) \in DOMAIN versions /\ Len(versions) \notin DOMAIN replaced
  BY <1>2
<1>4. state' \in {"done", "walking"} /\ UNCHANGED <<walk, clock, versions, replaced>>
  BY <1>1 DEF Took
<1>5. CASE InWorker
  <2>1. pages' = pages
    BY <1>1, <1>5
  <2>2. WalkSound'
    BY <1>1, <1>3, <1>5, TookSound
  <2>3. PagesSound'
    BY <1>4, <2>1 DEF PagesSound
  <2> QED BY <2>2, <2>3
<1>6. CASE ~InWorker
  <2>1. ASSUME NEW p, p = entry
        PROVE  /\ p \in [version : Nat, at : Nat] /\ p.version \in DOMAIN versions /\ p.at <= clock
               /\ p.version \in DOMAIN replaced => replaced[p.version] >= p.at
    BY <1>2, <1>3, <2>1
  <2>2. ASSUME NEW j \in DOMAIN pages
        PROVE  /\ pages[j] \in [version : Nat, at : Nat] /\ pages[j].version \in DOMAIN versions /\ pages[j].at <= clock
               /\ pages[j].version \in DOMAIN replaced => replaced[pages[j].version] >= pages[j].at
    BY LenProperties, ElementOfSeq DEF PagesSound
  <2>3. i <= Len(pages) + 1
    BY <1>6 DEF WalkSound
  <2> DEFINE most == Max({i, Len(pages)})
  <2> HIDE DEF i
  <2>4. most \in Nat /\ most >= i /\ most = IF i >= Len(pages) THEN i ELSE Len(pages)
    BY <1>2, MostOfTwo
  <2>5. DOMAIN kept = 1 .. most /\ \A j \in 1 .. most : kept[j] = IF j = i THEN entry ELSE pages[j]
    OBVIOUS
  <2>6. kept = [j \in 1 .. most |-> kept[j]]
    OBVIOUS
  <2>7. pages' = kept
    BY <1>1, <1>6
  <2> HIDE DEF most
  <2>a. i \in Int /\ Len(pages) \in Int /\ most \in Int
    <3>1. i \in Nat /\ Len(pages) \in Nat
      BY <1>2
    <3>2. most \in Nat
      BY <2>4
    <3> QED BY <3>1, <3>2
  <2> HIDE DEF kept, entry
  <2> HIDE DEF PageSound
  <2>8. ASSUME NEW j \in 1 .. most PROVE j = i \/ j \in DOMAIN pages
    <3>1. most = i \/ most = Len(pages)
      BY <2>4
    <3>2. j <= Len(pages) \/ j = i
      BY <2>a, <2>3, <3>1
    <3> QED BY <1>2, <3>2
  <2>9. ASSUME NEW j \in 1 .. most
        PROVE  /\ kept[j] \in [version : Nat, at : Nat] /\ kept[j].version \in DOMAIN versions /\ kept[j].at <= clock
               /\ kept[j].version \in DOMAIN replaced => replaced[kept[j].version] >= kept[j].at
    <3>1. CASE j = i
      BY <2>1, <2>5, <3>1
    <3>2. CASE j # i
      BY <2>2, <2>5, <2>8, <3>2
    <3> QED BY <3>1, <3>2
  <2>10. kept \in Seq([version : Nat, at : Nat])
    <3> DEFINE Page == [version : Nat, at : Nat]
    <3>2. \A j \in 1 .. most : kept[j] \in Page
      BY <2>9
    <3> HIDE DEF Page
    <3>1. [j \in 1 .. most |-> kept[j]] \in Seq(Page)
      BY <2>4, <3>2, IsASeq
    <3> USE DEF Page
    <3> QED BY <2>6, <3>1
  <2>11. Len(kept) = most
    BY <2>4, <2>5, <2>10, LenProperties
  <2>12. PagesSound'
    BY <1>4, <2>5, <2>7, <2>9, <2>10 DEF PageSound, PagesSound
  <2>13. WalkSound'
    <3>1. Len(read) + 1 <= Len(pages')
      BY <2>4, <2>7, <2>11 DEF i
    <3> QED BY <1>1, <1>3, <3>1, TookSound
  <2> QED BY <2>12, <2>13 DEF PageSound
<1> QED BY <1>5, <1>6

LEMMA PageStep == ASSUME PageSound, [PageNext]_pageVars PROVE PageSound'
<1>1. CASE UNCHANGED pageVars
  <2>1. /\ UNCHANGED <<walk, clock, versions, replaced, pages, read, gathered, began, state>>
        /\ LastPage' = LastPage
    BY <1>1 DEF pageVars, LastPage
  <2>2. EndsAfter(read)' <=> EndsAfter(read)
    BY <2>1 DEF EndsAfter, Last
  <2> QED BY <2>1, <2>2 DEF PageSound, PagesSound, WalkSound, InWorker, OneVersion, Prefix
<1> QED BY <1>1, ListChangesSound, PageTickSound, BeginSound, ReadHitSound, ReadMissSound, ReadFailsSound DEF PageNext

LEMMA PageInvariant == PageSpec => []PageSound
<1>1. PageInit => PageSound
  BY PageInitSound
<1>2. PageSound /\ [PageNext]_pageVars => PageSound'
  BY PageStep
<1> QED BY <1>1, <1>2, PTL DEF PageSpec

\* A walk, its pages and the versions of its list are of their types: no page is
\* of a version that never was, and no walk reads beyond its last page.
THEOREM WalksAreTyped == PageSpec => []PageTypeOK
<1>1. PageSound => PageTypeOK
  <2> SUFFICES ASSUME PageSound PROVE PageTypeOK
    OBVIOUS
  <2>1. clock \in 0 .. MaxClock
    BY PageNumbers DEF PageSound, PagesSound
  <2> QED BY <2>1 DEF PageSound, PagesSound, WalkSound, PageTypeOK
<1> QED BY <1>1, PageInvariant, PTL

\* What a walk that ended has read, when all of it is of one version.
LEMMA WalkOfOneVersion ==
  ASSUME PageSound, state = "done", OneVersion
  PROVE  /\ versions[read[1]] \in Seq(Nat) /\ Len(read) \in Nat \ {0} /\ Last(read) = read[1]
         /\ gathered = Prefix(versions[read[1]], Len(read))
         /\ LastPage \in Nat /\ Len(read) <= LastPage /\ EndsAfter(read)
<1>1. /\ read \in Seq(Nat) /\ Len(read) \in Nat \ {0} /\ DOMAIN read = 1 .. Len(read) /\ read # << >>
      /\ versions \in Seq(Seq(Nat)) /\ DOMAIN versions = 1 .. Len(versions)
  BY LenProperties, EmptySeq DEF PageSound, PagesSound, WalkSound
<1>2. 1 \in DOMAIN read /\ Len(read) \in DOMAIN read
  BY <1>1
<1>3. versions[read[1]] \in Seq(Nat)
  BY <1>1, <1>2, ElementOfSeq DEF PageSound, WalkSound
<1>4. Last(read) = read[1]
  BY <1>2 DEF OneVersion, Last
<1>5. LastPage \in Nat
  BY PageNumbers DEF PageSound, PagesSound
<1> QED BY <1>1, <1>3, <1>4, <1>5 DEF PageSound, WalkSound

\* The rows returned are some of those that match, and all of them unless there
\* are more that match than the limit.
LEMMA ReturnedAreFirst ==
  ASSUME gathered \in Seq(Nat)
  PROVE  /\ IsFiniteSet(Matched(gathered)) /\ Cardinality(Matched(gathered)) \in Nat /\ Cardinality(Returned) \in Nat
         /\ Returned \subseteq Matched(gathered)
         /\ ~CutToLimit => Returned = Matched(gathered)
<1>1. DOMAIN gathered = 1 .. Len(gathered) /\ Len(gathered) \in Nat
  BY LenProperties
<1>2. IsFiniteSet(DOMAIN gathered)
  BY <1>1, FS_Interval
<1>3. Matched(gathered) \subseteq DOMAIN gathered /\ Returned \subseteq Matched(gathered)
  BY DEF Matched, Returned
<1>4. IsFiniteSet(Matched(gathered)) /\ Cardinality(Matched(gathered)) \in Nat
  BY <1>2, <1>3, FS_Subset, FS_CardinalityType
<1>5. /\ IsFiniteSet(Returned) /\ Cardinality(Returned) <= Cardinality(Matched(gathered))
      /\ Cardinality(Matched(gathered)) = Cardinality(Returned) => Matched(gathered) = Returned
  BY <1>3, <1>4, FS_Subset
<1>6. Cardinality(Returned) \in Nat
  BY <1>5, FS_CardinalityType
<1>7. ~CutToLimit => Returned = Matched(gathered)
  BY <1>4, <1>5, <1>6 DEF CutToLimit
<1> QED BY <1>3, <1>4, <1>6, <1>7

\* The Worker's envelope, of a walk during which the list does not change: it says
\* truncated exactly if a row that matches may be missing, for any page size, page
\* cap, list, filter and limit.
THEOREM EnvelopeIsAlwaysHonest == PageSpec => []EnvelopeIsHonest
<1>1. PageSound => EnvelopeIsHonest
  <2> SUFFICES ASSUME PageSound, state = "done", InWorker, OneVersion
               PROVE  LET list == versions[read[1]] IN
                      /\ Complete(read) <=> gathered = list
                      /\ ~Truncated => Returned = Matched(list)
                      /\ Truncated => Cardinality(Returned) < Cardinality(Matched(gathered)) \/ Len(gathered) < Len(list)
    BY DEF EnvelopeIsHonest
  <2> DEFINE list == versions[read[1]]
             end == Len(read) * PageSize
  <2>1. list \in Seq(Nat) /\ gathered = Prefix(list, Len(read)) /\ Last(read) = read[1] /\ Len(read) \in Nat
    BY WalkOfOneVersion
  <2>2. end \in Nat /\ Len(list) \in Nat
    BY <2>1, PageEnds
  <2>3. (Len(list) <= end => gathered = list) /\ (Len(list) > end => Len(gathered) = end)
    BY <2>1, PrefixLength
  <2>4. Complete(read) <=> Len(list) <= end
    <3>1. Complete(read) <=> ~(Len(list) > end)
      BY <2>1 DEF Complete, HasMore
    <3> HIDE DEF end, list
    <3> QED BY <2>2, <3>1
  <2> HIDE DEF end, list
  <2>5. Complete(read) <=> gathered = list
    BY <2>2, <2>3, <2>4
  <2>6. gathered \in Seq(Nat)
    BY <2>1, PrefixLength
  <2>7. ASSUME ~Truncated PROVE Returned = Matched(list)
    BY <2>5, <2>6, <2>7, ReturnedAreFirst DEF Truncated
  <2>8. ASSUME Truncated
        PROVE  Cardinality(Returned) < Cardinality(Matched(gathered)) \/ Len(gathered) < Len(list)
    <3>1. CASE CutToLimit
      BY <2>6, <3>1, ReturnedAreFirst DEF CutToLimit
    <3>2. CASE ~Complete(read)
      BY <2>2, <2>3, <2>4, <3>2
    <3> QED BY <2>8, <3>1, <3>2 DEF Truncated
  <2> QED BY <2>5, <2>7, <2>8 DEF list
<1> QED BY <1>1, PageInvariant, PTL

\* The walks in Python: the whole list up to the page cap if the pages are of one
\* version, no page that was replaced a ttl or more before the walk began, and no
\* mixed list unless it changed since then, for any bounds and any list.
THEOREM WalkIsAlwaysWhole == PageSpec => []WalkIsWhole
<1>1. PageSound => WalkIsWhole
  <2> SUFFICES ASSUME PageSound, state = "done", ~InWorker PROVE WalkIsWhole
    BY DEF WalkIsWhole
  <2>1. ASSUME OneVersion
        PROVE  gathered = Prefix(versions[read[1]], LastPage)
    <3> DEFINE list == versions[read[1]]
               k == Len(read)
    <3>1. /\ list \in Seq(Nat) /\ gathered = Prefix(list, k) /\ Last(read) = read[1] /\ k \in Nat
          /\ LastPage \in Nat /\ k <= LastPage /\ EndsAfter(read)
      BY <2>1, WalkOfOneVersion
    <3>2. k = LastPage \/ k >= TotalPages(list) \/ ~HasMore(list, k)
      BY <3>1 DEF EndsAfter
    <3> HIDE DEF list, k
    <3>3. CASE k = LastPage
      BY <3>1, <3>3 DEF list
    <3>4. CASE k >= TotalPages(list) \/ ~HasMore(list, k)
      <4>1. Len(list) \in Nat /\ k * PageSize \in Nat /\ LastPage * PageSize \in Nat
        BY <3>1, PageEnds
      <4>2. Len(list) <= k * PageSize
        BY <3>1, <3>4, <4>1, TotalIsEnough DEF HasMore
      <4>3. k * PageSize <= LastPage * PageSize
        BY <3>1, PageNumbers
      <4>4. Len(list) <= LastPage * PageSize
        BY <4>1, <4>2, <4>3
      <4>5. Prefix(list, k) = list /\ Prefix(list, LastPage) = list
        BY <3>1, <4>2, <4>4, PrefixLength
      <4> QED BY <3>1, <4>5 DEF list
    <3> QED BY <3>2, <3>3, <3>4
  <2>2. ASSUME ~OneVersion
        PROVE  \E v \in DOMAIN replaced : replaced[v] > began - PageTtl
    <3>1. PICK i \in DOMAIN read : read[i] # read[1]
      BY <2>2 DEF OneVersion
    <3>2. /\ Len(versions) \in Nat /\ DOMAIN versions = 1 .. Len(versions)
          /\ DOMAIN replaced = 1 .. (Len(versions) - 1)
          /\ DOMAIN read = 1 .. Len(read) /\ Len(read) \in Nat
      BY LenProperties DEF PageSound, PagesSound, WalkSound
    <3>3. 1 \in DOMAIN read
      BY <3>1, <3>2
    <3>4. read[i] \in 1 .. Len(versions) /\ read[1] \in 1 .. Len(versions)
      BY <3>1, <3>2, <3>3 DEF PageSound, WalkSound
    <3>5. read[i] \in DOMAIN replaced \/ read[1] \in DOMAIN replaced
      BY <3>1, <3>2, <3>4
    <3> QED BY <3>1, <3>3, <3>5 DEF PageSound, WalkSound
  <2>3. \A i \in DOMAIN read : read[i] \in DOMAIN replaced => replaced[read[i]] > began - PageTtl
    BY DEF PageSound, WalkSound
  <2>4. OneVersion => gathered = SubSeq(versions[read[1]], 1, Min({LastPage * PageSize, Len(versions[read[1]])}))
    BY <2>1 DEF Prefix
  <2> QED BY <2>2, <2>3, <2>4 DEF WalkIsWhole
<1> QED BY <1>1, PageInvariant, PTL

-----------------------------------------------------------------------------
(* The offline registry.                                                      *)

\* A registry has nothing, or what all its sources gave to one build.
WholeOrEmpty(f) == f.meta \/ f.entities # {} => f.meta /\ f.entities \in Wholes

\* What a build has gathered by the step it is to take, if B3 gave it tickers of some.
Gathered(s, some) ==
  CASE s = "companies" -> {} [] s = "funds" -> WithTickers(some) [] s = "insurers" -> WithTickers(some) \cup Funds
    [] s \in {"meta", "finalize"} -> WithTickers(some) \cup Funds \cup Insurers

RegistryFile == [tables : BOOLEAN, entities : SUBSET Entities, meta : BOOLEAN]

RegistrySound ==
  /\ step \in {"idle", "create", "companies", "funds", "insurers", "meta", "finalize"}
  /\ file \in RegistryFile /\ pending \in RegistryFile
  /\ WholeOrEmpty(file)
  /\ step = "create" => file = Nothing
  /\ step \notin {"idle", "create"} =>
       \E some \in SUBSET Companies : pending.entities = Gathered(step, some)
  /\ step = "finalize" => pending.meta
  /\ looked.kind \in {"none", "raised", "too_short", "entities"}

\* What any part of a build gathers is of some whole registry.
LEMMA PartsOfWholes ==
  \A some \in SUBSET Companies :
    LET all == WithTickers(some) \cup Funds \cup Insurers IN
    all \in Wholes /\ all \subseteq Entities
<1> TAKE some \in SUBSET Companies
<1>1. WithTickers(some) \cup Funds \cup Insurers \in Wholes
  BY DEF Wholes
<1>2. \A S, x : x \in S => x \subseteq UNION S
  OBVIOUS
<1> QED BY <1>1, <1>2 DEF Entities

LEMMA EmptyFile == Nothing \in RegistryFile /\ WholeOrEmpty(Nothing)
BY DEF Nothing, RegistryFile, WholeOrEmpty

LEMMA RegistryInitSound == ASSUME RegistryInit PROVE RegistrySound
<1> DEFINE all == WithTickers(Companies) \cup Funds \cup Insurers
<1>1. all \in Wholes /\ all \subseteq Entities
  BY PartsOfWholes
<1> HIDE DEF all
<1>2. /\ file = [tables |-> TRUE, entities |-> all, meta |-> TRUE] /\ step = "idle" /\ looked = NotLooked
      /\ pending = Nothing
  BY DEF RegistryInit, all
<1>3. WholeOrEmpty(file) /\ file \in RegistryFile
  BY <1>1, <1>2 DEF WholeOrEmpty, RegistryFile
<1> QED BY <1>2, <1>3, EmptyFile DEF RegistrySound, NotLooked

LEMMA UnlinkSound == ASSUME RegistrySound, Unlink PROVE RegistrySound'
<1>1. file' = Nothing /\ step' = "create" /\ looked' = looked /\ pending' = pending
  BY DEF Unlink
<1> QED BY <1>1, EmptyFile DEF RegistrySound

LEMMA CreateSound == ASSUME RegistrySound, Create PROVE RegistrySound'
<1>1. /\ step = "create" /\ step' = "companies" /\ looked' = looked
      /\ file' = [file EXCEPT !.tables = TRUE] /\ pending' = file'
  BY DEF Create
<1>2. file' = [tables |-> TRUE, entities |-> {}, meta |-> FALSE]
  <2>1. file = [tables |-> FALSE, entities |-> {}, meta |-> FALSE]
    BY <1>1 DEF RegistrySound, Nothing
  <2> QED BY <1>1, <2>1
<1>3. file' \in RegistryFile /\ WholeOrEmpty(file')
  BY <1>2 DEF RegistryFile, WholeOrEmpty
<1>4. pending'.entities = Gathered(step', {})
  BY <1>1, <1>2 DEF Gathered
<1> QED BY <1>1, <1>3, <1>4 DEF RegistrySound

\* A step of the build adds to what is gathered, and leaves the file alone.
LEMMA GatherSound ==
  ASSUME RegistrySound, NEW s \in {"funds", "insurers", "meta"}, step' = s, NEW more,
         pending' = [pending EXCEPT !.entities = @ \cup more], UNCHANGED <<file, looked>>,
         \E some \in SUBSET Companies : pending.entities \cup more = Gathered(s, some)
  PROVE  RegistrySound'
<1>1. PICK some \in SUBSET Companies : pending.entities \cup more = Gathered(s, some)
  OBVIOUS
<1>2. Gathered(s, some) \subseteq Entities
  BY PartsOfWholes DEF Gathered
<1>3. pending' \in RegistryFile /\ pending'.entities = Gathered(s, some)
  BY <1>1, <1>2 DEF RegistrySound, RegistryFile
<1> QED BY <1>3 DEF RegistrySound

LEMMA BuildSound ==
  ASSUME RegistrySound, BuildCompanies \/ BuildFunds \/ BuildSusep
  PROVE  RegistrySound'
<1>1. CASE BuildCompanies
  <2>1. step = "companies" /\ step' = "funds" /\ UNCHANGED <<file, looked>>
    BY <1>1 DEF BuildCompanies
  <2>2. PICK some \in SUBSET Companies : pending' = [pending EXCEPT !.entities = @ \cup WithTickers(some)]
    BY <1>1 DEF BuildCompanies
  <2>3. pending.entities = {}
    BY <2>1 DEF RegistrySound, Gathered
  <2>4. pending.entities \cup WithTickers(some) = Gathered("funds", some)
    BY <2>3 DEF Gathered
  <2> QED BY <2>1, <2>2, <2>4, GatherSound
<1>2. CASE BuildFunds
  <2>1. /\ step = "funds" /\ step' = "insurers" /\ UNCHANGED <<file, looked>>
        /\ pending' = [pending EXCEPT !.entities = @ \cup Funds]
    BY <1>2 DEF BuildFunds
  <2>2. PICK some \in SUBSET Companies : pending.entities = Gathered("funds", some)
    BY <2>1 DEF RegistrySound
  <2>3. pending.entities \cup Funds = Gathered("insurers", some)
    BY <2>2 DEF Gathered
  <2> QED BY <2>1, <2>3, GatherSound
<1>3. CASE BuildSusep
  <2>1. /\ step = "insurers" /\ step' = "meta" /\ UNCHANGED <<file, looked>>
        /\ pending' = [pending EXCEPT !.entities = @ \cup Insurers]
    BY <1>3 DEF BuildSusep
  <2>2. PICK some \in SUBSET Companies : pending.entities = Gathered("insurers", some)
    BY <2>1 DEF RegistrySound
  <2>3. pending.entities \cup Insurers = Gathered("meta", some)
    BY <2>2 DEF Gathered
  <2> QED BY <2>1, <2>3, GatherSound
<1> QED BY <1>1, <1>2, <1>3

LEMMA WriteMetaSound == ASSUME RegistrySound, WriteMeta PROVE RegistrySound'
<1>1. /\ step = "meta" /\ step' = "finalize" /\ UNCHANGED <<file, looked>>
      /\ pending' = [pending EXCEPT !.meta = TRUE]
  BY DEF WriteMeta
<1>2. pending' \in RegistryFile /\ pending'.meta /\ pending'.entities = pending.entities
  BY <1>1 DEF RegistrySound, RegistryFile
<1>3. \A some : Gathered("meta", some) = Gathered("finalize", some)
  BY DEF Gathered
<1> QED BY <1>1, <1>2, <1>3 DEF RegistrySound

LEMMA FinalizeSound == ASSUME RegistrySound, Finalize PROVE RegistrySound'
<1>1. step = "finalize" /\ step' = "idle" /\ file' = pending /\ pending' = Nothing /\ looked' = looked
  BY DEF Finalize
<1>2. PICK some \in SUBSET Companies : pending.entities = Gathered("finalize", some)
  BY <1>1 DEF RegistrySound
<1>3. pending.entities \in Wholes
  BY <1>2, PartsOfWholes DEF Gathered
<1>4. WholeOrEmpty(file')
  BY <1>1, <1>3 DEF RegistrySound, WholeOrEmpty
<1> QED BY <1>1, <1>4, EmptyFile DEF RegistrySound

LEMMA AbortSound == ASSUME RegistrySound, Abort PROVE RegistrySound'
<1>1. step' = "idle" /\ pending' = Nothing /\ UNCHANGED <<file, looked>>
  BY DEF Abort
<1> QED BY <1>1, EmptyFile DEF RegistrySound

\* A lookup leaves the registry and the build alone.
LEMMA LookupSound == ASSUME RegistrySound, Lookup \/ LookupLocked PROVE RegistrySound'
<1>1. UNCHANGED <<file, pending, step>>
  BY DEF Lookup, LookupLocked
<1>2. looked'.kind \in {"none", "raised", "too_short", "entities"}
  <2>1. \A k : [NotLooked EXCEPT !.kind = k].kind = k
    BY DEF NotLooked
  <2>2. ASSUME Lookup PROVE looked'.kind \in {"too_short", "raised", "entities"}
    <3> DEFINE Found(e, q) ==
          \E found \in SUBSET (Hits[q] \cap file.entities) :
            looked' = [kind |-> "entities", typed |-> {e} \cap file.entities, found |-> found]
    <3>1. PICK e \in Entities : \E q \in Typed[e] :
            looked' = [NotLooked EXCEPT !.kind = "too_short"] \/ looked' = [NotLooked EXCEPT !.kind = "raised"] \/ Found(e, q)
      BY <2>2 DEF Lookup
    <3>2. PICK q \in Typed[e] :
            looked' = [NotLooked EXCEPT !.kind = "too_short"] \/ looked' = [NotLooked EXCEPT !.kind = "raised"] \/ Found(e, q)
      BY <3>1
    <3>3. Found(e, q) => looked'.kind = "entities"
      OBVIOUS
    <3> QED BY <2>1, <3>2, <3>3
  <2>3. LookupLocked => looked'.kind = "raised"
    BY <2>1 DEF LookupLocked
  <2> QED BY <2>2, <2>3
<1> QED BY <1>1, <1>2 DEF RegistrySound

LEMMA RegistryStep == ASSUME RegistrySound, [RegistryNext]_registryVars PROVE RegistrySound'
<1>1. CASE UNCHANGED registryVars
  BY <1>1 DEF registryVars, RegistrySound
<1> QED BY <1>1, UnlinkSound, CreateSound, BuildSound, WriteMetaSound, FinalizeSound, AbortSound, LookupSound
        DEF RegistryNext

LEMMA RegistryInvariant == RegistrySpec => []RegistrySound
<1>1. RegistryInit => RegistrySound
  BY RegistryInitSound
<1>2. RegistrySound /\ [RegistryNext]_registryVars => RegistrySound'
  BY RegistryStep
<1> QED BY <1>1, <1>2, PTL DEF RegistrySpec

\* The registry's variables have their types: what is committed is always some of
\* the entities that the sources list.
THEOREM RegistryIsTyped == RegistrySpec => []RegistryTypeOK
<1>1. RegistrySound => RegistryTypeOK
  BY DEF RegistrySound, RegistryTypeOK, RegistryFile
<1> QED BY <1>1, RegistryInvariant, PTL

\* A registry with any entity, or with meta data, is that of one build with all its
\* sources, wherever builds failed or were killed: never the half of one.
THEOREM RegistryIsNeverHalf == RegistrySpec => [](file.meta \/ file.entities # {} => file.meta /\ file.entities \in Wholes)
<1>1. RegistrySound => (file.meta \/ file.entities # {} => file.meta /\ file.entities \in Wholes)
  BY DEF RegistrySound, WholeOrEmpty
<1> QED BY <1>1, RegistryInvariant, PTL

\* A registry has finitely many entities.
LEMMA FilesAreFinite == ASSUME RegistrySound PROVE IsFiniteSet(file.entities) /\ file.entities \subseteq Entities
<1>1. CASE file.entities = {}
  BY <1>1, FS_EmptySet
<1>2. CASE file.entities # {}
  <2>1. file.entities \in Wholes
    BY <1>2 DEF RegistrySound, WholeOrEmpty
  <2>2. PICK some \in SUBSET Companies : file.entities = WithTickers(some) \cup Funds \cup Insurers
    BY <2>1 DEF Wholes
  <2>3. IsFiniteSet(WithTickers(some))
    <3> DEFINE f == [c \in Companies |-> [c EXCEPT !.codes = IF c \in some THEN @ ELSE @ \ c.tickers]]
    <3>1. f \in Surjection(Companies, WithTickers(some))
      <4>1. WithTickers(some) = {f[c] : c \in Companies}
        BY DEF WithTickers
      <4>2. DOMAIN f = Companies /\ f = [c \in Companies |-> f[c]]
        OBVIOUS
      <4> HIDE DEF f
      <4> QED BY <4>1, <4>2 DEF Surjection
    <3> HIDE DEF f
    <3> QED BY <3>1, FS_Surjection, RegistryAssumption
  <2>4. IsFiniteSet(WithTickers(some) \cup Funds \cup Insurers)
    <3>1. IsFiniteSet(WithTickers(some) \cup Funds)
      BY <2>3, FS_Union, RegistryAssumption
    <3> QED BY <3>1, FS_Union, RegistryAssumption
  <2> QED BY <2>2, <2>4, PartsOfWholes
<1> QED BY <1>1, <1>2

\* The last lookup found what was typed, unless the limit was full.
LastFound == looked.kind = "entities" => looked.typed \subseteq looked.found \/ Cardinality(looked.found) = LookupLimit

LEMMA LookupFound == ASSUME TypedMatches, RegistrySound, Lookup PROVE LastFound'
<1> DEFINE Answered(e, q) ==
        LET hits == Hits[q] \cap file.entities IN
        IF _normalize_query(q) = {} THEN looked' = [NotLooked EXCEPT !.kind = "too_short"]
        ELSE IF ~file.tables THEN looked' = [NotLooked EXCEPT !.kind = "raised"]
        ELSE \E found \in SUBSET hits :
               /\ Cardinality(found) = Min({LookupLimit, Cardinality(hits)})
               /\ looked' = [kind |-> "entities", typed |-> {e} \cap file.entities, found |-> found]
<1>a. PICK e \in Entities : \E q \in Typed[e] : Answered(e, q)
  BY DEF Lookup
<1>b. PICK q \in Typed[e] : Answered(e, q)
  BY <1>a
<1>1. Answered(e, q)
  BY <1>b
<1> DEFINE hits == Hits[q] \cap file.entities
<1>2. \A k : [NotLooked EXCEPT !.kind = k].kind = k
  BY DEF NotLooked
<1>3. CASE _normalize_query(q) = {} \/ ~file.tables
  <2>1. looked'.kind \in {"too_short", "raised"}
    BY <1>1, <1>2, <1>3
  <2> QED BY <2>1 DEF LastFound
<1>4. CASE _normalize_query(q) # {} /\ file.tables
  <2>1. PICK found \in SUBSET hits :
          /\ Cardinality(found) = Min({LookupLimit, Cardinality(hits)})
          /\ looked' = [kind |-> "entities", typed |-> {e} \cap file.entities, found |-> found]
    BY <1>1, <1>4
  <2>2. {e} \cap file.entities \subseteq hits
    <3>1. q \in UNION {Typed[a] : a \in Entities}
      OBVIOUS
    <3>2. Hits[q] = {a \in Entities : Match(q, a)}
      BY <3>1 DEF Hits
    <3>3. Match(q, e)
      BY <1>4 DEF TypedMatches
    <3> QED BY <3>2, <3>3
  <2>3. IsFiniteSet(hits) /\ Cardinality(hits) \in Nat
    <3>1. IsFiniteSet(hits)
      BY FilesAreFinite, FS_Subset
    <3> QED BY <3>1, FS_CardinalityType
  <2> HIDE DEF hits
  <2>4. /\ Cardinality(found) = Cardinality(hits) => found = hits
    BY <2>1, <2>3, FS_Subset
  <2>5. Cardinality(found) = LookupLimit \/ Cardinality(found) = Cardinality(hits)
    BY <2>1, <2>3, RegistryAssumption DEF Min
  <2>6. looked'.typed = {e} \cap file.entities /\ looked'.found = found
    BY <2>1
  <2> QED BY <2>2, <2>4, <2>5, <2>6 DEF LastFound
<1> QED BY <1>3, <1>4

\* Whatever the sources list, if what is typed of an entity matches it: a lookup
\* finds what was typed unless the limit is full, whatever builds have done, and
\* the registry is always empty or that of one whole build.
THEOREM LookupsAlwaysFind == ASSUME TypedMatches PROVE RegistrySpec => []LookupFinds
<1>1. RegistryInit => LastFound
  BY DEF RegistryInit, LastFound, NotLooked
<1>2. RegistrySound /\ LastFound /\ [RegistryNext]_registryVars => LastFound'
  <2> SUFFICES ASSUME RegistrySound, LastFound, [RegistryNext]_registryVars PROVE LastFound'
    OBVIOUS
  <2>1. CASE Lookup
    BY <2>1, LookupFound
  <2>2. CASE LookupLocked
    <3>1. looked'.kind = "raised"
      BY <2>2 DEF LookupLocked, NotLooked
    <3> QED BY <3>1 DEF LastFound
  <2>3. CASE looked' = looked
    BY <2>3 DEF LastFound
  <2>4. Lookup \/ LookupLocked \/ looked' = looked
    BY DEF RegistryNext, registryVars, Unlink, Create, BuildCompanies, BuildFunds, BuildSusep, WriteMeta, Finalize, Abort
  <2> QED BY <2>1, <2>2, <2>3, <2>4
<1>3. RegistrySound /\ LastFound => LookupFinds
  BY DEF RegistrySound, WholeOrEmpty, LastFound, LookupFinds
<1> QED BY <1>1, <1>2, <1>3, RegistryInvariant, PTL DEF RegistrySpec
-----------------------------------------------------------------------------
(* The scan of a CSV file.                                                    *)

\* A set of natural numbers that is not empty has a least element.
LEMMA LeastNumber == \A T \in SUBSET Nat : T # {} => \E x \in T : \A y \in T : x <= y
<1> TAKE T \in SUBSET Nat
<1> HAVE T # {}
<1> DEFINE R == OpToRel(<, Nat)
<1>1. IsWellFoundedOn(R, Nat)
  BY NatLessThanWellFounded
<1>2. \A x, y \in Nat : x < y => <<x, y>> \in R
  BY DEF OpToRel
<1> HIDE DEF R
<1>3. PICK x \in T : \A y \in T : ~ (<<y, x>> \in R)
  BY <1>1, WFMin
<1>4. \A y \in T : ~ (y < x)
  BY <1>2, <1>3
<1> QED BY <1>4

\* The fold of TakeByte is the loop over the bytes: it goes through a state per byte.
Taken(s, bytes) == FoldLeft(TakeByte, s, bytes)

StatesBetween(g, s, bytes) ==
  /\ g[0] = s /\ g[Len(bytes)] = Taken(s, bytes)
  /\ \A i \in 1 .. Len(bytes) : g[i] = TakeByte(g[i - 1], bytes[i])

LEMMA BytesOneByOne == \A s : \A bytes \in Seq(Bytes) : \E g : StatesBetween(g, s, bytes)
<1> TAKE s
<1> TAKE bytes \in Seq(Bytes)
<1> DEFINE n == Len(bytes)
           Step(f, S) == IF S = {} THEN s ELSE TakeByte(f[S \ {Max(S)}], bytes[Max(S)])
           IsFold(f, m) == f = [S \in SUBSET (1 .. m) |-> Step(f, S)]
           iter == CHOOSE f : IsFold(f, n)
<1>1. n \in Nat /\ DOMAIN bytes = 1 .. n
  BY LenProperties
<1>2. FoldLeft(TakeByte, s, bytes) = iter[DOMAIN bytes]
  <2> DEFINE other == CHOOSE f : f = [S \in SUBSET (DOMAIN bytes) |->
                        IF S = {} THEN s ELSE LET x == Max(S) IN TakeByte(f[S \ {x}], bytes[x])]
  <2>1. FoldLeft(TakeByte, s, bytes) = other[DOMAIN bytes]
    BY DEF FoldLeft, MapThenFoldSet
  <2>2. other = iter
    BY <1>1
  <2> QED BY <2>1, <2>2
<1> HIDE DEF n
<1>3. \E f : IsFold(f, 0)
  <2>1. 1 .. 0 = {} /\ SUBSET (1 .. 0) = {{}}
    OBVIOUS
  <2>2. IsFold([S \in {{}} |-> s], 0)
    BY <2>1
  <2> QED BY <2>2
<1>4. ASSUME NEW m \in Nat, \E f : IsFold(f, m) PROVE \E f : IsFold(f, m + 1)
  <2>1. PICK f : IsFold(f, m)
    BY <1>4
  <2> DEFINE h == [S \in SUBSET (1 .. m + 1) |->
                     IF m + 1 \in S THEN TakeByte(f[S \ {m + 1}], bytes[m + 1]) ELSE f[S]]
  <2>2. ASSUME NEW S \in SUBSET (1 .. m + 1) PROVE h[S] = Step(h, S)
    <3>1. CASE m + 1 \in S
      <4>1. Max(S) = m + 1
        <5>1. \A y \in S : y \in Int /\ m + 1 >= y
          OBVIOUS
        <5>2. \A x \in S : (\A y \in S : x >= y) => x = m + 1
          BY <3>1, <5>1
        <5> QED BY <3>1, <5>1, <5>2 DEF Max
      <4>2. S \ {m + 1} \in SUBSET (1 .. m + 1) /\ m + 1 \notin S \ {m + 1}
        OBVIOUS
      <4>3. h[S] = TakeByte(f[S \ {m + 1}], bytes[m + 1]) /\ h[S \ {m + 1}] = f[S \ {m + 1}]
        BY <3>1, <4>2
      <4> HIDE DEF h
      <4> QED BY <3>1, <4>1, <4>3
    <3>2. CASE m + 1 \notin S
      <4>1. S \in SUBSET (1 .. m)
        BY <3>2
      <4>2. f[S] = Step(f, S)
        BY <2>1, <4>1
      <4>3. \A T \in SUBSET (1 .. m) : h[T] = f[T]
        OBVIOUS
      <4>4. S \ {Max(S)} \in SUBSET (1 .. m)
        BY <4>1
      <4> HIDE DEF h
      <4>5. h[S] = f[S] /\ h[S \ {Max(S)}] = f[S \ {Max(S)}]
        BY <4>1, <4>3, <4>4
      <4> QED BY <4>2, <4>5
    <3> QED BY <3>1, <3>2
  <2>3. IsFold(h, m + 1)
    <3>1. h = [S \in SUBSET (1 .. m + 1) |-> h[S]]
      OBVIOUS
    <3> HIDE DEF h
    <3> QED BY <2>2, <3>1
  <2> QED BY <2>3
<1> HIDE DEF IsFold
<1>5. \E f : IsFold(f, n)
  <2> DEFINE without == {m \in Nat : ~ \E f : IsFold(f, m)}
  <2> SUFFICES without = {}
    BY <1>1
  <2>1. ASSUME without # {} PROVE FALSE
    <3>1. PICK m \in without : \A k \in without : m <= k
      BY <2>1, LeastNumber
    <3>2. m # 0
      BY <1>3
    <3>3. m - 1 \in Nat /\ m - 1 \notin without
      BY <3>1, <3>2
    <3>4. m - 1 + 1 = m
      OBVIOUS
    <3>5. \E f : IsFold(f, m - 1 + 1)
      BY <1>4, <3>3
    <3> QED BY <3>4, <3>5
  <2> QED BY <2>1
<1>6. IsFold(iter, n)
  BY <1>5
<1> HIDE DEF iter
<1>7. \A S \in SUBSET (1 .. n) : iter[S] = Step(iter, S)
  BY <1>6 DEF IsFold
<1> DEFINE g == [i \in 0 .. n |-> iter[1 .. i]]
<1>8. g[0] = s
  <2>1. 1 .. 0 = {}
    OBVIOUS
  <2>2. iter[{}] = s
    BY <1>7
  <2> QED BY <1>1, <2>1, <2>2
<1>9. ASSUME NEW i \in 1 .. n PROVE g[i] = TakeByte(g[i - 1], bytes[i])
  <2>1. /\ 1 .. i \in SUBSET (1 .. n) /\ 1 .. i # {} /\ (1 .. i) \ {i} = 1 .. (i - 1)
        /\ i \in 0 .. n /\ i - 1 \in 0 .. n
    <3>1. i \in Nat /\ i >= 1 /\ i <= n
      BY <1>1
    <3>2. 1 .. i \in SUBSET (1 .. n)
      BY <1>1, <3>1
    <3>3. i \in 1 .. i /\ i \in 0 .. n /\ i - 1 \in 0 .. n
      BY <1>1, <3>1
    <3>4. (1 .. i) \ {i} = 1 .. (i - 1)
      BY <3>1
    <3> QED BY <3>2, <3>3, <3>4
  <2>2. Max(1 .. i) = i
    <3>1. i \in 1 .. i /\ \A y \in 1 .. i : i >= y
      BY <2>1
    <3>2. \A x \in 1 .. i : (\A y \in 1 .. i : x >= y) => x = i
      BY <3>1
    <3> QED BY <3>1, <3>2 DEF Max
  <2>3. iter[1 .. i] = Step(iter, 1 .. i)
    BY <1>7, <2>1
  <2> QED BY <2>1, <2>2, <2>3
<1>10. g[n] = iter[1 .. n]
  BY <1>1
<1> HIDE DEF g
<1>11. Taken(s, bytes) = g[n]
  BY <1>1, <1>2, <1>10 DEF Taken
<1>12. StatesBetween(g, s, bytes)
  BY <1>8, <1>9, <1>11 DEF n, StatesBetween
<1> QED BY <1>12

\* What ends a line: the places of the line feeds, and that before the file.
LEMMA EndsAre ==
  \A f \in Seq(Bytes) :
    /\ Len(f) \in Nat /\ DOMAIN f = 1 .. Len(f) /\ 0 \in Ends(f) /\ Ends(f) \subseteq Nat
    /\ \A i \in Ends(f) : i \in Nat /\ i <= Len(f)
    /\ \A i \in 1 .. Len(f) : i \in Ends(f) <=> f[i] = LF
<1> TAKE f \in Seq(Bytes)
<1>1. Len(f) \in Nat /\ DOMAIN f = 1 .. Len(f)
  BY LenProperties
<1>2. ASSUME NEW i \in Ends(f) PROVE i \in Nat /\ i <= Len(f)
  <2>1. i = 0 \/ i \in 1 .. Len(f)
    BY <1>1 DEF Ends
  <2> QED BY <1>1, <2>1
<1>3. ASSUME NEW i \in 1 .. Len(f) PROVE i \in Ends(f) <=> f[i] = LF
  <2>1. i # 0
    BY <1>1
  <2> QED BY <1>1, <2>1 DEF Ends
<1> QED BY <1>1, <1>2, <1>3 DEF Ends

\* Where a line ends: at the next line feed, or behind the file.
LEMMA UntilIs ==
  \A f \in Seq(Bytes) : \A i \in Ends(f) :
    /\ Until(f, i) \in Nat /\ Until(f, i) > i /\ Until(f, i) <= Len(f) + 1
    /\ Until(f, i) = Len(f) + 1 \/ Until(f, i) \in Ends(f)
    /\ \A j \in Ends(f) : j > i => Until(f, i) <= j
<1> TAKE f \in Seq(Bytes)
<1> TAKE i \in Ends(f)
<1> DEFINE T == {j \in Ends(f) : j > i} \cup {Len(f) + 1}
<1>1. T \in SUBSET Nat /\ T # {}
  BY EndsAre
<1>2. PICK x \in T : \A y \in T : x <= y
  BY <1>1, LeastNumber
<1>3. Until(f, i) = Min(T)
  BY DEF Until
<1>4. Min(T) \in T /\ \A y \in T : Min(T) <= y
  <2> HIDE DEF T
  <2> QED BY <1>2 DEF Min
<1>5. i \in Nat /\ i <= Len(f) /\ Len(f) \in Nat
  BY EndsAre
<1>6. Min(T) > i
  BY <1>4, <1>5
<1>7. Len(f) + 1 \in T /\ \A j \in Ends(f) : j > i => j \in T
  OBVIOUS
<1>8. Min(T) = Len(f) + 1 \/ Min(T) \in Ends(f)
  BY <1>4
<1>9. Min(T) \in Nat
  BY <1>1, <1>4
<1> HIDE DEF T
<1> QED BY <1>3, <1>4, <1>6, <1>7, <1>8, <1>9

\* The lines that have ended by byte n, and those of them that are due.
LinesCame(f, n) == {i \in Lines(f) : Until(f, i) <= n}
DueCame(f, n) == {i \in Due(f) : Until(f, i) <= n}
PlaceIn(D, i) == Cardinality({j \in D : j <= i})

LEMMA DueIsFinite ==
  \A f \in Seq(Bytes) :
    /\ Due(f) \subseteq Lines(f) /\ Lines(f) \subseteq Ends(f)
    /\ IsFiniteSet(Due(f)) /\ Cardinality(Due(f)) \in Nat
    /\ \A D \in SUBSET Due(f) : IsFiniteSet(D) /\ Cardinality(D) \in Nat /\ Cardinality(D) <= Cardinality(Due(f))
<1> TAKE f \in Seq(Bytes)
<1>1. Due(f) \subseteq Lines(f) /\ Lines(f) \subseteq Ends(f)
  BY DEF Due, Lines
<1>2. Ends(f) \in SUBSET Nat /\ Len(f) \in Nat /\ \A i \in Ends(f) : i <= Len(f)
  BY EndsAre
<1>3. IsFiniteSet(Ends(f))
  BY <1>2, FS_BoundedSetOfNaturals
<1>4. IsFiniteSet(Due(f))
  BY <1>1, <1>3, FS_Subset
<1> QED BY <1>1, <1>4, FS_Subset, FS_CardinalityType

\* Places in a set and in the set with a greater number.
LEMMA PlacesStay ==
  ASSUME NEW D \in SUBSET Nat, IsFiniteSet(D), NEW e \in Nat, \A j \in D : j < e
  PROVE  /\ Cardinality(D \cup {e}) = Cardinality(D) + 1
         /\ PlaceIn(D \cup {e}, e) = Cardinality(D) + 1
         /\ \A i \in D : /\ PlaceIn(D \cup {e}, i) = PlaceIn(D, i)
                         /\ PlaceIn(D, i) \in 1 .. Cardinality(D)
<1>1. Cardinality(D) \in Nat /\ e \notin D
  BY FS_CardinalityType
<1>0. \A j \in D : j \in Nat /\ j < e /\ j <= e
  OBVIOUS
<1>2. Cardinality(D \cup {e}) = Cardinality(D) + 1
  BY <1>1, FS_AddElement
<1>3. {j \in D \cup {e} : j <= e} = D \cup {e}
  <2>1. \A j \in D \cup {e} : j <= e
    BY <1>0
  <2> QED BY <2>1
<1>4. ASSUME NEW i \in D
      PROVE PlaceIn(D \cup {e}, i) = PlaceIn(D, i) /\ PlaceIn(D, i) \in 1 .. Cardinality(D)
  <2> DEFINE U == {j \in D : j <= i}
  <2>1. {j \in D \cup {e} : j <= i} = U
    <3>1. i \in Nat /\ i < e /\ ~ (e <= i)
      BY <1>0
    <3> QED BY <3>1
  <2>2. U \in SUBSET D /\ i \in U
    OBVIOUS
  <2> HIDE DEF U
  <2>3. IsFiniteSet(U) /\ Cardinality(U) <= Cardinality(D)
    BY <2>2, FS_Subset
  <2>4. Cardinality(U) \in Nat /\ Cardinality(U) # 0
    BY <2>2, <2>3, FS_CardinalityType, FS_EmptySet
  <2>5. Cardinality(U) \in 1 .. Cardinality(D)
    BY <1>1, <2>3, <2>4
  <2> QED BY <2>1, <2>5 DEF PlaceIn, U
<1> QED BY <1>2, <1>3, <1>4 DEF PlaceIn

\* The line that ends at m = n + 1 is the last one that has come by then.
LastEnd(f, n, e) == e \in Ends(f) /\ e <= n /\ \A j \in Ends(f) : j <= n => j <= e
LastLine(f, n, m, e) == n \in Nat /\ m = n + 1 /\ LastEnd(f, n, e) /\ Until(f, e) = m

LEMMA LineCame ==
  \A f \in Seq(Bytes) : \A n, m, e : LastLine(f, n, m, e) =>
         /\ LinesCame(f, m) = IF e \in Lines(f) THEN LinesCame(f, n) \cup {e} ELSE LinesCame(f, n)
         /\ DueCame(f, m) = IF e \in Due(f) THEN DueCame(f, n) \cup {e} ELSE DueCame(f, n)
         /\ \A j \in LinesCame(f, n) : j < e
         /\ e \in Due(f) <=> e \in Lines(f) /\ Wanting(LineAt(f, e)) /\ LinesCame(f, n) # {}
<1> SUFFICES ASSUME NEW f \in Seq(Bytes), NEW n, NEW m, NEW e, LastLine(f, n, m, e)
             PROVE /\ LinesCame(f, m) = IF e \in Lines(f) THEN LinesCame(f, n) \cup {e} ELSE LinesCame(f, n)
                   /\ DueCame(f, m) = IF e \in Due(f) THEN DueCame(f, n) \cup {e} ELSE DueCame(f, n)
                   /\ \A j \in LinesCame(f, n) : j < e
                   /\ e \in Due(f) <=> e \in Lines(f) /\ Wanting(LineAt(f, e)) /\ LinesCame(f, n) # {}
  OBVIOUS
<1>0. /\ n \in Nat /\ m = n + 1 /\ e \in Ends(f) /\ e <= n /\ Until(f, e) = m
      /\ \A j \in Ends(f) : j <= n => j <= e
  BY DEF LastLine, LastEnd
<1>1. ASSUME NEW i \in Ends(f) PROVE Until(f, i) <= m <=> Until(f, i) <= n \/ i = e
  <2>1. i \in Nat /\ e \in Nat /\ Until(f, i) \in Nat /\ Until(f, i) > i
    BY <1>0, EndsAre, UntilIs
  <2>2. i < e => Until(f, i) <= e
    BY <1>0, UntilIs
  <2>3. i > e => i > n
    BY <1>0, <2>1
  <2> QED BY <1>0, <2>1, <2>2, <2>3
<1>2. \A i \in Lines(f) : i \in Ends(f)
  BY DueIsFinite
<1>3. \A i \in Due(f) : i \in Ends(f)
  BY DueIsFinite
<1>4. LinesCame(f, m) = IF e \in Lines(f) THEN LinesCame(f, n) \cup {e} ELSE LinesCame(f, n)
  BY <1>1, <1>2 DEF LinesCame
<1>5. DueCame(f, m) = IF e \in Due(f) THEN DueCame(f, n) \cup {e} ELSE DueCame(f, n)
  BY <1>1, <1>3 DEF DueCame
<1>6. ASSUME NEW j \in LinesCame(f, n) PROVE j < e
  <2>1. j \in Ends(f) /\ Until(f, j) <= n
    BY <1>2 DEF LinesCame
  <2>2. j \in Nat /\ e \in Nat /\ Until(f, j) \in Nat /\ Until(f, j) > j
    BY <1>0, <2>1, EndsAre, UntilIs
  <2>3. j <= e /\ j # e
    BY <1>0, <2>1, <2>2
  <2> QED BY <2>2, <2>3
<1>7. ASSUME NEW h \in Lines(f), h < e PROVE h \in LinesCame(f, n)
  <2>1. h \in Ends(f) /\ h \in Nat /\ e \in Nat /\ Until(f, h) \in Nat
    BY <1>0, <1>2, EndsAre, UntilIs
  <2>2. Until(f, h) <= e
    BY <1>0, <1>7, <2>1, UntilIs
  <2> QED BY <1>0, <2>1, <2>2 DEF LinesCame
<1>8. e \in Due(f) <=> e \in Lines(f) /\ Wanting(LineAt(f, e)) /\ LinesCame(f, n) # {}
  <2>1. (\E h \in Lines(f) : h < e) <=> LinesCame(f, n) # {}
    BY <1>6, <1>7 DEF LinesCame
  <2> QED BY <1>0, <2>1 DEF Due
<1> QED BY <1>4, <1>5, <1>6, <1>8

\* What has been read by byte n of a file: the bytes of the line that has not
\* ended, whether a line has, and the rows, which are the first of those due.
IsScan(s) ==
  /\ s = [header |-> s.header, rows |-> s.rows, line |-> s.line]
  /\ s.header \in Seq(Bytes) /\ s.rows \in Seq(Seq(Bytes)) /\ s.line \in Seq(Bytes)
LineIs(f, s, n) == \E e \in Ends(f) : LastEnd(f, n, e) /\ s.line = SubSeq(f, e + 1, n)
HeaderIs(f, s, n) == s.header = NoHeader <=> LinesCame(f, n) = {}
AsManyAs(lim, D) == IF Cardinality(D) <= lim THEN Cardinality(D) ELSE lim
RowsAre(f, lim, s, n) ==
  /\ Len(s.rows) = AsManyAs(lim, DueCame(f, n))
  /\ \A i \in DueCame(f, n) :
       PlaceIn(DueCame(f, n), i) <= lim => s.rows[PlaceIn(DueCame(f, n), i)] = LineAt(f, i)
Follows(f, lim, s, n) == IsScan(s) /\ LineIs(f, s, n) /\ HeaderIs(f, s, n) /\ RowsAre(f, lim, s, n)

\* The bytes between two places of a file.
LEMMA Between ==
  \A f \in Seq(Bytes) : \A i, n \in Nat : i <= n /\ n <= Len(f) =>
    /\ SubSeq(f, i + 1, n) \in Seq(Bytes) /\ Len(SubSeq(f, i + 1, n)) = n - i
    /\ \A k \in 1 .. n - i : SubSeq(f, i + 1, n)[k] = f[i + k]
<1> TAKE f \in Seq(Bytes)
<1> TAKE i, n \in Nat
<1> HAVE i <= n /\ n <= Len(f)
<1>1. Len(f) \in Nat /\ DOMAIN f = 1 .. Len(f)
  BY EndsAre
<1>2. \A k \in i + 1 .. n : f[k] \in Bytes
  <2> TAKE k \in i + 1 .. n
  <2>1. k \in 1 .. Len(f)
    BY <1>1
  <2> QED BY <2>1, ElementOfSeq
<1>3. i + 1 \in Int /\ n \in Int
  OBVIOUS
<1> DEFINE part == SubSeq(f, i + 1, n)
<1>4. /\ part \in Seq(Bytes) /\ Len(part) = IF i + 1 <= n THEN n - (i + 1) + 1 ELSE 0
      /\ \A k \in 1 .. n - (i + 1) + 1 : part[k] = f[i + 1 + k - 1]
  BY <1>2, <1>3, SubSeqProperties
<1> HIDE DEF part
<1>5. Len(part) = n - i
  BY <1>4
<1>6. ASSUME NEW k \in 1 .. n - i PROVE part[k] = f[i + k]
  <2>1. k \in 1 .. n - (i + 1) + 1 /\ i + 1 + k - 1 = i + k
    OBVIOUS
  <2> QED BY <1>4, <2>1
<1> QED BY <1>4, <1>5, <1>6 DEF part

\* One byte more.
LEMMA OneMore ==
  \A f \in Seq(Bytes) : \A i, n \in Nat : i <= n /\ n + 1 <= Len(f) =>
    SubSeq(f, i + 1, n + 1) = Append(SubSeq(f, i + 1, n), f[n + 1])
<1> TAKE f \in Seq(Bytes)
<1> TAKE i, n \in Nat
<1> HAVE i <= n /\ n + 1 <= Len(f)
<1> DEFINE less == SubSeq(f, i + 1, n)
           more == SubSeq(f, i + 1, n + 1)
<1>1. Len(f) \in Nat
  BY EndsAre
<1>2. /\ less \in Seq(Bytes) /\ Len(less) = n - i
      /\ \A k \in 1 .. n - i : less[k] = f[i + k]
  BY <1>1, Between
<1>3. /\ more \in Seq(Bytes) /\ Len(more) = n + 1 - i
      /\ \A k \in 1 .. n + 1 - i : more[k] = f[i + k]
  BY <1>1, Between
<1>4. f[n + 1] \in Bytes
  BY <1>1, ElementOfSeq
<1> HIDE DEF less, more
<1> DEFINE longer == Append(less, f[n + 1])
<1>5. /\ longer \in Seq(Bytes) /\ Len(longer) = n - i + 1
      /\ \A k \in 1 .. n - i : longer[k] = less[k]
      /\ longer[n - i + 1] = f[n + 1]
  BY <1>2, <1>4, AppendProperties
<1> HIDE DEF longer
<1>6. ASSUME NEW k \in 1 .. n + 1 - i PROVE more[k] = longer[k]
  <2>1. CASE k \in 1 .. n - i
    BY <1>2, <1>3, <1>5, <2>1
  <2>2. CASE k = n - i + 1
    <3>1. i + k = n + 1
      BY <2>2
    <3> QED BY <1>3, <1>5, <2>2, <3>1
  <2>3. k \in 1 .. n - i \/ k = n - i + 1
    OBVIOUS
  <2> QED BY <2>1, <2>2, <2>3
<1>7. Len(more) = Len(longer)
  BY <1>3, <1>5
<1>8. more = longer
  BY <1>3, <1>5, <1>6, <1>7, SeqEqual
<1> QED BY <1>8 DEF more, less, longer

\* A line without its carriage return.
LEMMA BareIs ==
  \A line \in Seq(Bytes) :
    /\ Bare(line) \in Seq(Bytes)
    /\ Bare(line) # line => line # << >> /\ Last(line) = CR /\ line = Append(Bare(line), CR)
<1> TAKE line \in Seq(Bytes)
<1>1. CASE line # << >> /\ Last(line) = CR
  <2>1. Len(line) \in Nat /\ Len(line) # 0 /\ Len(line) - 1 \in Nat
    BY <1>1, LenProperties, EmptySeq
  <2>2. SubSeq(line, 0 + 1, Len(line)) = Append(SubSeq(line, 0 + 1, Len(line) - 1), line[Len(line)])
    <3>1. 0 <= Len(line) - 1 /\ Len(line) - 1 + 1 = Len(line) /\ Len(line) <= Len(line)
      BY <2>1
    <3> QED BY <2>1, <3>1, OneMore
  <2>3. SubSeq(line, 0 + 1, Len(line)) = line
    <3>1. 0 + 1 = 1
      OBVIOUS
    <3> QED BY <3>1, SubSeqFull
  <2>4. SubSeq(line, 0 + 1, Len(line) - 1) \in Seq(Bytes)
    BY <2>1, Between
  <2>5. Bare(line) = SubSeq(line, 0 + 1, Len(line) - 1) /\ line[Len(line)] = CR
    <3>1. 0 + 1 = 1
      OBVIOUS
    <3> QED BY <1>1, <3>1 DEF Bare, Front, Last
  <2>6. line = Append(Bare(line), CR)
    BY <2>2, <2>3, <2>5
  <2> QED BY <1>1, <2>4, <2>5, <2>6
<1>2. CASE ~ (line # << >> /\ Last(line) = CR)
  BY <1>2 DEF Bare
<1> QED BY <1>1, <1>2

\* A line of a file is a sequence of bytes.
LEMMA LinesAre ==
  \A f \in Seq(Bytes) : \A i \in Ends(f) :
    SubSeq(f, i + 1, Until(f, i) - 1) \in Seq(Bytes) /\ LineAt(f, i) \in Seq(Bytes)
<1> TAKE f \in Seq(Bytes)
<1> TAKE i \in Ends(f)
<1>1. i \in Nat /\ Until(f, i) \in Nat /\ Until(f, i) > i /\ Until(f, i) <= Len(f) + 1 /\ Len(f) \in Nat
  BY EndsAre, UntilIs
<1>2. Until(f, i) - 1 \in Nat /\ i <= Until(f, i) - 1 /\ Until(f, i) - 1 <= Len(f)
  BY <1>1
<1>3. SubSeq(f, i + 1, Until(f, i) - 1) \in Seq(Bytes)
  BY <1>1, <1>2, Between
<1> QED BY <1>3, BareIs DEF LineAt

\* What a visit does to a state of the scan.
LEMMA VisitIs ==
  ASSUME rowLimit \in Nat, NEW s, IsScan(s), NEW line \in Seq(Bytes)
  PROVE  /\ IsScan(Visit(s, line)) /\ Visit(s, line).line = s.line
         /\ Len(s.rows) \in Nat
         /\ Visit(s, line).header = (IF line # << >> /\ Len(s.rows) < rowLimit /\ s.header = NoHeader
                                     THEN line ELSE s.header)
         /\ Visit(s, line).rows = (IF line # << >> /\ Len(s.rows) < rowLimit /\ s.header # NoHeader /\ Wanting(line)
                                   THEN Append(s.rows, line) ELSE s.rows)
<1>1. Len(s.rows) \in Nat /\ (Len(s.rows) >= rowLimit <=> ~ (Len(s.rows) < rowLimit))
  BY LenProperties DEF IsScan
<1>2. Append(s.rows, line) \in Seq(Seq(Bytes))
  BY AppendProperties DEF IsScan
<1>3. CASE line = << >> \/ Len(s.rows) >= rowLimit
  BY <1>1, <1>3 DEF Visit, IsScan
<1>4. CASE ~ (line = << >> \/ Len(s.rows) >= rowLimit) /\ s.header = NoHeader
  <2>1. Visit(s, line) = [s EXCEPT !.header = line]
    BY <1>4 DEF Visit
  <2>2. Visit(s, line) = [header |-> line, rows |-> s.rows, line |-> s.line]
    BY <2>1 DEF IsScan
  <2> QED BY <1>1, <1>4, <2>2 DEF IsScan
<1>5. CASE ~ (line = << >> \/ Len(s.rows) >= rowLimit) /\ s.header # NoHeader /\ Wanting(line)
  <2>1. Visit(s, line) = [s EXCEPT !.rows = Append(@, line)]
    BY <1>5 DEF Visit
  <2>2. Visit(s, line) = [header |-> s.header, rows |-> Append(s.rows, line), line |-> s.line]
    BY <2>1 DEF IsScan
  <2> QED BY <1>1, <1>2, <1>5, <2>2 DEF IsScan
<1>6. CASE ~ (line = << >> \/ Len(s.rows) >= rowLimit) /\ s.header # NoHeader /\ ~ Wanting(line)
  BY <1>1, <1>6 DEF Visit, IsScan
<1> QED BY <1>3, <1>4, <1>5, <1>6

\* The rows after a line has been visited, as it stands in the file or not.
RowsWith(f, s, m, e, line) ==
  /\ Len(Visit(s, line).rows) = AsManyAs(rowLimit, DueCame(f, m))
  /\ \A i \in DueCame(f, m) : PlaceIn(DueCame(f, m), i) <= rowLimit =>
       Visit(s, line).rows[PlaceIn(DueCame(f, m), i)] = IF i = e THEN line ELSE LineAt(f, i)

LEMMA RowsGrow ==
  ASSUME rowLimit \in Nat \ {0}
  PROVE  \A f \in Seq(Bytes) : \A n, m, e, s : \A line \in Seq(Bytes) :
           /\ LastLine(f, n, m, e) /\ IsScan(s) /\ RowsAre(f, rowLimit, s, n)
           /\ e \in Due(f) <=> line # << >> /\ s.header # NoHeader /\ Wanting(line)
           => RowsWith(f, s, m, e, line)
<1> SUFFICES ASSUME NEW f \in Seq(Bytes), NEW n, NEW m, NEW e, NEW s, NEW line \in Seq(Bytes),
                    LastLine(f, n, m, e), IsScan(s), RowsAre(f, rowLimit, s, n),
                    e \in Due(f) <=> line # << >> /\ s.header # NoHeader /\ Wanting(line)
             PROVE  RowsWith(f, s, m, e, line)
  OBVIOUS
<1> DEFINE D == DueCame(f, n)
           E == DueCame(f, m)
           all == Visit(s, line).rows
<1>0. e \in Ends(f)
  BY DEF LastEnd, LastLine
<1>1. /\ E = IF e \in Due(f) THEN D \cup {e} ELSE D
      /\ \A j \in LinesCame(f, n) : j < e
  BY LineCame
<1>2. D \in SUBSET Due(f) /\ D \in SUBSET Nat /\ e \in Nat
  BY <1>0, DueIsFinite, EndsAre DEF DueCame
<1>3. IsFiniteSet(D) /\ Cardinality(D) \in Nat
  BY <1>2, DueIsFinite
<1>4. \A j \in D : j \in LinesCame(f, n)
  BY DueIsFinite DEF DueCame, LinesCame
<1>5. \A j \in D : j < e /\ j # e
  BY <1>1, <1>2, <1>4
<1>6. s.rows \in Seq(Seq(Bytes)) /\ Len(s.rows) \in Nat
  BY LenProperties DEF IsScan
<1>7. /\ Len(s.rows) = AsManyAs(rowLimit, D)
      /\ \A i \in D : PlaceIn(D, i) <= rowLimit => s.rows[PlaceIn(D, i)] = LineAt(f, i)
  BY DEF RowsAre
<1>8. all = (IF e \in Due(f) /\ Len(s.rows) < rowLimit THEN Append(s.rows, line) ELSE s.rows)
  BY VisitIs
<1>9. CASE e \notin Due(f)
  <2>1. E = D /\ all = s.rows
    BY <1>1, <1>8, <1>9
  <2> HIDE DEF RowsWith, D, E, all
  <2>2. Len(all) = AsManyAs(rowLimit, E)
    BY <1>7, <2>1
  <2>3. \A i \in E : PlaceIn(E, i) <= rowLimit => all[PlaceIn(E, i)] = IF i = e THEN line ELSE LineAt(f, i)
    BY <1>5, <1>7, <2>1
  <2> QED BY <2>2, <2>3 DEF RowsWith, D, E, all
<1>10. CASE e \in Due(f)
  <2>1. E = D \cup {e}
    BY <1>1, <1>10
  <2> HIDE DEF RowsWith, D, E, all
  <2>2. /\ Cardinality(E) = Cardinality(D) + 1 /\ PlaceIn(E, e) = Cardinality(D) + 1
        /\ \A i \in D : PlaceIn(E, i) = PlaceIn(D, i) /\ PlaceIn(D, i) \in 1 .. Cardinality(D)
    <3>1. \A j \in D : j < e
      BY <1>5
    <3>2. /\ Cardinality(D \cup {e}) = Cardinality(D) + 1 /\ PlaceIn(D \cup {e}, e) = Cardinality(D) + 1
          /\ \A i \in D : PlaceIn(D \cup {e}, i) = PlaceIn(D, i) /\ PlaceIn(D, i) \in 1 .. Cardinality(D)
      BY <1>2, <1>3, <3>1, PlacesStay
    <3> QED BY <2>1, <3>2
  <2>3. CASE Cardinality(D) < rowLimit
    <3>1. Len(s.rows) = Cardinality(D)
      BY <1>3, <1>7, <2>3 DEF AsManyAs
    <3>2. all = Append(s.rows, line)
      BY <1>8, <1>10, <2>3, <3>1
    <3>3. /\ Len(all) = Cardinality(D) + 1 /\ all[Cardinality(D) + 1] = line
          /\ \A k \in 1 .. Cardinality(D) : all[k] = s.rows[k]
      BY <1>6, <3>1, <3>2, AppendProperties
    <3>4. Len(all) = AsManyAs(rowLimit, E)
      BY <1>3, <2>2, <2>3, <3>3 DEF AsManyAs
    <3>5. \A i \in D : PlaceIn(E, i) <= rowLimit => all[PlaceIn(E, i)] = LineAt(f, i)
      BY <1>7, <2>2, <3>3
    <3>6. all[PlaceIn(E, e)] = line
      BY <2>2, <3>3
    <3>7. \A i \in E : PlaceIn(E, i) <= rowLimit => all[PlaceIn(E, i)] = IF i = e THEN line ELSE LineAt(f, i)
      BY <1>5, <2>1, <3>5, <3>6
    <3> QED BY <3>4, <3>7 DEF RowsWith, E, all
  <2>4. CASE ~ (Cardinality(D) < rowLimit)
    <3>1. Len(s.rows) = rowLimit
      BY <1>3, <1>7, <2>4 DEF AsManyAs
    <3>2. all = s.rows
      BY <1>8, <3>1
    <3>3. Len(all) = AsManyAs(rowLimit, E)
      BY <1>3, <2>2, <2>4, <3>1, <3>2 DEF AsManyAs
    <3>4. ~ (PlaceIn(E, e) <= rowLimit)
      BY <1>3, <2>2, <2>4
    <3>5. \A i \in D : PlaceIn(E, i) <= rowLimit => all[PlaceIn(E, i)] = LineAt(f, i)
      BY <1>7, <2>2, <3>2
    <3>6. \A i \in E : PlaceIn(E, i) <= rowLimit => all[PlaceIn(E, i)] = IF i = e THEN line ELSE LineAt(f, i)
      BY <1>5, <2>1, <3>4, <3>5
    <3> QED BY <3>3, <3>6 DEF RowsWith, E, all
  <2> QED BY <2>3, <2>4
<1> QED BY <1>9, <1>10

\* A line that ends by a line feed or by the end of a stored file.
LEMMA LineEnds ==
  ASSUME rowLimit \in Nat \ {0}
  PROVE  \A f \in Seq(Bytes) : \A n, m, e, s :
           LastLine(f, n, m, e) /\ IsScan(s) /\ HeaderIs(f, s, n) /\ RowsAre(f, rowLimit, s, n)
           => HeaderIs(f, Visit(s, LineAt(f, e)), m) /\ RowsAre(f, rowLimit, Visit(s, LineAt(f, e)), m)
<1> SUFFICES ASSUME NEW f \in Seq(Bytes), NEW n, NEW m, NEW e, NEW s,
                    LastLine(f, n, m, e), IsScan(s), HeaderIs(f, s, n), RowsAre(f, rowLimit, s, n)
             PROVE  HeaderIs(f, Visit(s, LineAt(f, e)), m) /\ RowsAre(f, rowLimit, Visit(s, LineAt(f, e)), m)
  OBVIOUS
<1> DEFINE line == LineAt(f, e)
           t == Visit(s, line)
<1>1. line \in Seq(Bytes) /\ (e \in Lines(f) <=> line # << >>)
  BY LinesAre DEF Lines, LastLine, LastEnd
<1>2. /\ LinesCame(f, m) = IF e \in Lines(f) THEN LinesCame(f, n) \cup {e} ELSE LinesCame(f, n)
      /\ e \in Due(f) <=> e \in Lines(f) /\ Wanting(line) /\ LinesCame(f, n) # {}
  BY LineCame
<1>3. e \in Due(f) <=> line # << >> /\ s.header # NoHeader /\ Wanting(line)
  BY <1>1, <1>2 DEF HeaderIs
<1> HIDE DEF line
<1>4. RowsWith(f, s, m, e, line)
  BY <1>1, <1>3, RowsGrow
<1>5. t.header = IF line # << >> /\ Len(s.rows) < rowLimit /\ s.header = NoHeader THEN line ELSE s.header
  BY <1>1, VisitIs
<1> HIDE DEF t
<1>6. RowsAre(f, rowLimit, t, m)
  BY <1>4 DEF RowsAre, RowsWith, t, line
<1>7. s.header = NoHeader => Len(s.rows) < rowLimit
  <2>1. HAVE s.header = NoHeader
  <2>2. LinesCame(f, n) = {} /\ DueCame(f, n) = {}
    BY <2>1, DueIsFinite DEF HeaderIs, DueCame, LinesCame
  <2>3. Len(s.rows) = 0
    BY <2>2, FS_EmptySet DEF RowsAre, AsManyAs
  <2> QED BY <2>3
<1>8. t.header = NoHeader <=> LinesCame(f, m) = {}
  BY <1>1, <1>2, <1>5, <1>7 DEF HeaderIs, NoHeader
<1> QED BY <1>6, <1>8 DEF t, line, HeaderIs

\* Only the bytes of the line change.
LEMMA LineChanges ==
  \A s, x : IsScan(s) => [s EXCEPT !.line = x] = [header |-> s.header, rows |-> s.rows, line |-> x]
<1> TAKE s, x
<1> HAVE IsScan(s)
<1>1. s = [header |-> s.header, rows |-> s.rows, line |-> s.line]
  BY DEF IsScan
<1> QED BY <1>1

\* One byte of the file, and what has been read follows it.
LEMMA ByteFollows ==
  ASSUME rowLimit \in Nat \ {0}
  PROVE  \A f \in Seq(Bytes) : \A n, m, s :
           n \in Nat /\ m = n + 1 /\ m <= Len(f) /\ Follows(f, rowLimit, s, n)
           => Follows(f, rowLimit, TakeByte(s, f[m]), m)
<1> SUFFICES ASSUME NEW f \in Seq(Bytes), NEW n \in Nat, NEW m, m = n + 1, m <= Len(f), NEW s,
                    Follows(f, rowLimit, s, n)
             PROVE  Follows(f, rowLimit, TakeByte(s, f[m]), m)
  OBVIOUS
<1>1. IsScan(s) /\ LineIs(f, s, n) /\ HeaderIs(f, s, n) /\ RowsAre(f, rowLimit, s, n)
  BY DEF Follows
<1>2. PICK e \in Ends(f) : LastEnd(f, n, e) /\ s.line = SubSeq(f, e + 1, n)
  BY <1>1 DEF LineIs
<1>3. /\ e \in Nat /\ e <= n /\ Len(f) \in Nat /\ m \in Nat /\ m \in 1 .. Len(f) /\ n <= Len(f)
      /\ \A j \in Ends(f) : j <= n => j <= e
  BY <1>2, EndsAre DEF LastEnd
<1>4. m \in Ends(f) <=> f[m] = LF
  BY <1>3, EndsAre
<1>5. f[m] \in Bytes
  BY <1>3, ElementOfSeq
<1>6. CASE f[m] # LF
  <2> DEFINE t == [s EXCEPT !.line = Append(@, f[m])]
  <2>1. TakeByte(s, f[m]) = t
    BY <1>6 DEF TakeByte
  <2>2. t = [header |-> s.header, rows |-> s.rows, line |-> Append(s.line, f[m])]
    BY <1>1, LineChanges
  <2>3. Append(s.line, f[m]) \in Seq(Bytes)
    BY <1>1, <1>5, AppendProperties DEF IsScan
  <2> HIDE DEF t
  <2>4. IsScan(t)
    BY <1>1, <2>2, <2>3 DEF IsScan
  <2>5. ASSUME NEW j \in Ends(f) PROVE j <= m => j <= e
    <3>1. j \in Nat /\ j # m
      BY <1>4, <1>6, EndsAre
    <3> QED BY <1>3, <3>1
  <2>6. t.line = SubSeq(f, e + 1, m)
    <3>1. SubSeq(f, e + 1, n + 1) = Append(SubSeq(f, e + 1, n), f[n + 1])
      BY <1>3, OneMore
    <3> QED BY <1>2, <2>2, <3>1
  <2>7. LineIs(f, t, m)
    <3>1. LastEnd(f, m, e)
      BY <1>3, <2>5 DEF LastEnd
    <3> QED BY <2>6, <3>1 DEF LineIs
  <2>8. ASSUME NEW i \in Ends(f) PROVE Until(f, i) <= m <=> Until(f, i) <= n
    <3>1. Until(f, i) \in Nat /\ (Until(f, i) = Len(f) + 1 \/ Until(f, i) \in Ends(f))
      BY UntilIs
    <3>2. Until(f, i) # m
      BY <1>3, <1>4, <1>6, <3>1
    <3> QED BY <3>1, <3>2
  <2>9. LinesCame(f, m) = LinesCame(f, n) /\ DueCame(f, m) = DueCame(f, n)
    <3>1. \A i \in Lines(f) : i \in Ends(f)
      BY DueIsFinite
    <3>2. \A i \in Due(f) : i \in Ends(f)
      BY DueIsFinite
    <3>3. LinesCame(f, m) = LinesCame(f, n)
      BY <2>8, <3>1 DEF LinesCame
    <3>4. DueCame(f, m) = DueCame(f, n)
      BY <2>8, <3>2 DEF DueCame
    <3> QED BY <3>3, <3>4
  <2>10. t.header = s.header /\ t.rows = s.rows
    BY <2>2
  <2>11. HeaderIs(f, t, m) /\ RowsAre(f, rowLimit, t, m)
    BY <1>1, <2>9, <2>10 DEF HeaderIs, RowsAre
  <2> QED BY <2>1, <2>4, <2>7, <2>11 DEF Follows
<1>7. CASE f[m] = LF
  <2> DEFINE u == Visit(s, Bare(s.line))
             t == [u EXCEPT !.line = << >>]
  <2>1. TakeByte(s, f[m]) = t
    BY <1>7 DEF TakeByte
  <2>2. Until(f, e) = m
    <3>1. Until(f, e) \in Nat /\ Until(f, e) > e /\ Until(f, e) <= m
      BY <1>3, <1>4, <1>7, UntilIs
    <3>2. Until(f, e) = Len(f) + 1 \/ Until(f, e) \in Ends(f)
      BY UntilIs
    <3>3. Until(f, e) <= n => Until(f, e) <= e
      BY <1>3, <3>1, <3>2
    <3> QED BY <1>3, <3>1, <3>3
  <2>3. LastLine(f, n, m, e)
    BY <1>2, <2>2 DEF LastLine
  <2>4. Bare(s.line) = LineAt(f, e)
    <3>1. Until(f, e) - 1 = n
      BY <2>2
    <3> QED BY <1>2, <3>1 DEF LineAt
  <2>5. HeaderIs(f, u, m) /\ RowsAre(f, rowLimit, u, m)
    BY <1>1, <2>3, <2>4, LineEnds
  <2>6. IsScan(u)
    <3>1. Bare(s.line) \in Seq(Bytes)
      BY <2>4, LinesAre
    <3> QED BY <1>1, <3>1, VisitIs
  <2> HIDE DEF u
  <2>7. t = [header |-> u.header, rows |-> u.rows, line |-> << >>]
    BY <2>6, LineChanges
  <2> HIDE DEF t
  <2>8. IsScan(t)
    <3>1. << >> \in Seq(Bytes)
      OBVIOUS
    <3> QED BY <2>6, <2>7, <3>1 DEF IsScan
  <2>9. t.header = u.header /\ t.rows = u.rows /\ t.line = << >>
    BY <2>7
  <2>10. HeaderIs(f, t, m) /\ RowsAre(f, rowLimit, t, m)
    BY <2>5, <2>9 DEF HeaderIs, RowsAre
  <2>11. LineIs(f, t, m)
    <3>1. LastEnd(f, m, m)
      BY <1>3, <1>4, <1>7 DEF LastEnd
    <3>2. SubSeq(f, m + 1, m) = << >>
      BY <1>3, SubSeqEmpty
    <3> QED BY <1>3, <1>4, <1>7, <2>9, <3>1, <3>2 DEF LineIs
  <2> QED BY <2>1, <2>8, <2>10, <2>11 DEF Follows
<1> QED BY <1>6, <1>7

\* A chunk of the file, wherever it ends.
LEMMA ChunkFollows ==
  ASSUME rowLimit \in Nat \ {0}
  PROVE  \A f, chunk \in Seq(Bytes) : \A n, m, s :
           /\ n \in Nat /\ m = n + Len(chunk) /\ m <= Len(f) /\ Follows(f, rowLimit, s, n)
           /\ \A i \in 1 .. Len(chunk) : chunk[i] = f[n + i]
           => Follows(f, rowLimit, Taken(s, chunk), m)
<1> SUFFICES ASSUME NEW f \in Seq(Bytes), NEW chunk \in Seq(Bytes), NEW n \in Nat, NEW m, NEW s,
                    m = n + Len(chunk), m <= Len(f), Follows(f, rowLimit, s, n),
                    \A i \in 1 .. Len(chunk) : chunk[i] = f[n + i]
             PROVE  Follows(f, rowLimit, Taken(s, chunk), m)
  OBVIOUS
<1>0. PICK g : StatesBetween(g, s, chunk)
  BY BytesOneByOne
<1>1. /\ g[0] = s /\ g[Len(chunk)] = Taken(s, chunk)
      /\ \A i \in 1 .. Len(chunk) : g[i] = TakeByte(g[i - 1], chunk[i])
  BY <1>0 DEF StatesBetween
<1>2. Len(chunk) \in Nat /\ Len(f) \in Nat
  BY EndsAre
<1> DEFINE behind == {i \in 0 .. Len(chunk) : ~ Follows(f, rowLimit, g[i], n + i)}
<1>3. ASSUME behind # {} PROVE FALSE
  <2>1. behind \in SUBSET Nat
    OBVIOUS
  <2>2. PICK i \in behind : \A j \in behind : i <= j
    <3> HIDE DEF behind
    <3> QED BY <1>3, <2>1, LeastNumber
  <2>3. i \in 0 .. Len(chunk) /\ i \in Nat /\ ~ Follows(f, rowLimit, g[i], n + i)
    BY <1>2
  <2>4. i # 0
    <3>1. n + 0 = n
      OBVIOUS
    <3> QED BY <1>1, <2>3, <3>1
  <2>5. i \in 1 .. Len(chunk) /\ i - 1 \in 0 .. Len(chunk) /\ ~ (i <= i - 1)
    BY <1>2, <2>3, <2>4
  <2>6. Follows(f, rowLimit, g[i - 1], n + (i - 1))
    BY <2>2, <2>5
  <2>7. n + (i - 1) \in Nat /\ n + i = n + (i - 1) + 1 /\ n + i <= Len(f)
    BY <1>2, <2>5
  <2>8. Follows(f, rowLimit, TakeByte(g[i - 1], f[n + i]), n + i)
    <3> DEFINE a == n + (i - 1)
               b == n + i
    <3>1. a \in Nat /\ b = a + 1 /\ b <= Len(f) /\ Follows(f, rowLimit, g[i - 1], a)
      BY <2>6, <2>7
    <3> HIDE DEF a, b
    <3>2. Follows(f, rowLimit, TakeByte(g[i - 1], f[b]), b)
      BY <3>1, ByteFollows
    <3> QED BY <3>2 DEF b
  <2>9. g[i] = TakeByte(g[i - 1], f[n + i])
    BY <1>1, <2>5
  <2> QED BY <2>3, <2>8, <2>9
<1>4. Follows(f, rowLimit, g[Len(chunk)], n + Len(chunk))
  <2>1. Len(chunk) \in 0 .. Len(chunk)
    BY <1>2
  <2> QED BY <1>3, <2>1
<1> QED BY <1>1, <1>4

\* Nothing read follows the beginning of a file.
LEMMA NothingFollows ==
  \A f \in Seq(Bytes) : \A lim \in Nat :
    Follows(f, lim, [header |-> << >>, rows |-> << >>, line |-> << >>], 0)
<1> TAKE f \in Seq(Bytes)
<1> TAKE lim \in Nat
<1> DEFINE s == [header |-> << >>, rows |-> << >>, line |-> << >>]
<1>1. IsScan(s)
  BY DEF IsScan
<1>2. 0 \in Ends(f) /\ LastEnd(f, 0, 0)
  BY EndsAre DEF LastEnd
<1>3. SubSeq(f, 0 + 1, 0) = << >>
  BY SubSeqEmpty
<1>4. LineIs(f, s, 0)
  BY <1>2, <1>3 DEF LineIs
<1>5. \A i \in Ends(f) : ~ (Until(f, i) <= 0)
  BY EndsAre, UntilIs
<1>6. LinesCame(f, 0) = {} /\ DueCame(f, 0) = {}
  BY <1>5, DueIsFinite DEF LinesCame, DueCame
<1>7. HeaderIs(f, s, 0)
  BY <1>6 DEF HeaderIs, NoHeader
<1>8. RowsAre(f, lim, s, 0)
  <2>1. AsManyAs(lim, {}) = 0
    BY FS_EmptySet DEF AsManyAs
  <2>2. Len(s.rows) = 0
    OBVIOUS
  <2> HIDE DEF s
  <2> QED BY <1>6, <2>1, <2>2 DEF RowsAre
<1> QED BY <1>1, <1>4, <1>7, <1>8 DEF Follows

\* A carriage return at the end of a line is in no needle.
LEMMA ReturnIsNoMatter ==
  /\ \A x \in Seq(Bytes) : Wanting(Append(x, CR)) <=> Wanting(x)
  /\ ~ Wanting(<< >>)
<1>1. ASSUME NEW x \in Seq(Bytes), NEW needle \in Needles, needle # << >>
      PROVE lineContains(Append(x, CR), needle) <=> lineContains(x, needle)
  <2> DEFINE y == Append(x, CR)
             L == Len(needle)
             N == Len(x)
  <2>1. needle \in Seq(Bytes) /\ CR \notin ToSet(needle) /\ CR \in Bytes
    BY CsvAssumption DEF Bytes
  <2>2. L \in Nat /\ L # 0 /\ DOMAIN needle = 1 .. L /\ N \in Nat
    BY <1>1, <2>1, EmptySeq, LenProperties
  <2>3. y \in Seq(Bytes) /\ Len(y) = N + 1 /\ y[N + 1] = CR /\ \A k \in 1 .. N : y[k] = x[k]
    BY <2>1, AppendProperties
  <2> HIDE DEF y, L, N
  <2>4. ASSUME NEW i \in 0 .. N - L PROVE SubSeq(y, i + 1, i + L) = SubSeq(x, i + 1, i + L)
    <3> DEFINE m == i + L
               a == SubSeq(y, i + 1, m)
               b == SubSeq(x, i + 1, m)
    <3>1. i \in Nat /\ m \in Nat /\ i <= m /\ m <= N /\ m <= N + 1
      BY <2>2
    <3> HIDE DEF m
    <3>2. a \in Seq(Bytes) /\ Len(a) = m - i /\ \A k \in 1 .. m - i : a[k] = y[i + k]
      BY <2>3, <3>1, Between
    <3>3. b \in Seq(Bytes) /\ Len(b) = m - i /\ \A k \in 1 .. m - i : b[k] = x[i + k]
      BY <3>1, Between DEF N
    <3>4. ASSUME NEW k \in 1 .. m - i PROVE y[i + k] = x[i + k]
      <4>1. i + k \in 1 .. N
        BY <2>2, <3>1
      <4> QED BY <2>3, <4>1
    <3> HIDE DEF a, b
    <3>5. Len(a) = Len(b) /\ \A k \in 1 .. Len(a) : a[k] = b[k]
      BY <3>2, <3>3, <3>4
    <3>6. a = b
      BY <3>2, <3>3, <3>5, SeqEqual
    <3> QED BY <3>6 DEF a, b, m
  <2>5. ASSUME SubSeq(y, N + 1 - L + 1, N + 1 - L + L) = needle, L <= N + 1 PROVE FALSE
    <3> DEFINE i == N + 1 - L
               a == SubSeq(y, i + 1, i + L)
    <3>1. i \in Nat /\ i + L \in Nat /\ i <= i + L /\ i + L <= N + 1 /\ L \in 1 .. i + L - i /\ i + L = N + 1
      BY <2>2, <2>5
    <3>2. \A k \in 1 .. i + L - i : a[k] = y[i + k]
      <4> HIDE DEF i
      <4> QED BY <2>3, <3>1, Between
    <3>3. a[L] = CR
      BY <2>3, <3>1, <3>2
    <3>4. needle[L] = CR /\ L \in DOMAIN needle
      BY <2>2, <2>5, <3>3
    <3> QED BY <2>1, <3>4 DEF ToSet
  <2>6. ASSUME NEW i \in 0 .. N + 1 - L, SubSeq(y, i + 1, i + L) = needle PROVE i \in 0 .. N - L
    <3>1. CASE i = N + 1 - L
      <4>1. L <= N + 1
        BY <2>2, <3>1
      <4> QED BY <2>5, <2>6, <3>1, <4>1
    <3>2. CASE i # N + 1 - L
      BY <2>2, <3>2
    <3> QED BY <3>1, <3>2
  <2>7. \A i \in 0 .. N - L : i \in 0 .. N + 1 - L
    BY <2>2
  <2>8. lineContains(y, needle) <=> \E i \in 0 .. N + 1 - L : SubSeq(y, i + 1, i + L) = needle
    <3>1. lineContains(y, needle) <=> \E i \in 0 .. Len(y) - L : SubSeq(y, i + 1, i + L) = needle
      BY DEF lineContains, L
    <3>2. Len(y) = N + 1
      BY <2>3
    <3> DEFINE At(i) == SubSeq(y, i + 1, i + L) = needle
    <3>3. (\E i \in 0 .. Len(y) - L : At(i)) <=> \E i \in 0 .. N + 1 - L : At(i)
      <4>1. 0 .. Len(y) - L = 0 .. N + 1 - L
        BY <2>2, <3>2
      <4> HIDE DEF At
      <4> QED BY <4>1
    <3> QED BY <3>1, <3>3
  <2>9. lineContains(x, needle) <=> \E i \in 0 .. N - L : SubSeq(x, i + 1, i + L) = needle
    BY DEF lineContains, L, N
  <2>10. (\E i \in 0 .. N + 1 - L : SubSeq(y, i + 1, i + L) = needle)
         <=> \E i \in 0 .. N - L : SubSeq(x, i + 1, i + L) = needle
    BY <2>4, <2>6, <2>7
  <2> QED BY <2>8, <2>9, <2>10 DEF y
<1>2. ASSUME NEW x \in Seq(Bytes) PROVE Wanting(Append(x, CR)) <=> Wanting(x)
  BY <1>1 DEF Wanting
<1>3. ASSUME NEW needle \in Needles, needle # << >> PROVE ~ lineContains(<< >>, needle)
  <2>1. Len(needle) \in Nat /\ Len(needle) # 0
    BY <1>3, CsvAssumption, EmptySeq, LenProperties
  <2>2. Len(<< >>) = 0
    OBVIOUS
  <2>3. 0 .. 0 - Len(needle) = {}
    BY <2>1
  <2> QED BY <2>2, <2>3 DEF lineContains
<1>4. ~ Wanting(<< >>)
  BY <1>3 DEF Wanting
<1> QED BY <1>2, <1>4

\* The rows are the first of those due, one that a carriage return follows at the
\* end of the file apart.
WholeIs(f, lim, kept) ==
  /\ Len(kept) = AsManyAs(lim, Due(f))
  /\ \A i \in Due(f) : PlaceIn(Due(f), i) <= lim =>
       \/ kept[PlaceIn(Due(f), i)] = LineAt(f, i)
       \/ /\ kept[PlaceIn(Due(f), i)] = Append(LineAt(f, i), CR)
          /\ Until(f, i) = Len(f) + 1 /\ Last(f) = CR

\* Behind the file every line has come, the last of them last.
LEMMA AllCome ==
  \A f \in Seq(Bytes) :
    /\ DueCame(f, Len(f) + 1) = Due(f)
    /\ \A e : LastEnd(f, Len(f), e) => LastLine(f, Len(f), Len(f) + 1, e)
<1> TAKE f \in Seq(Bytes)
<1>1. Len(f) \in Nat
  BY EndsAre
<1>2. \A i \in Due(f) : Until(f, i) <= Len(f) + 1
  BY DueIsFinite, UntilIs
<1>3. ASSUME NEW e, LastEnd(f, Len(f), e) PROVE Until(f, e) = Len(f) + 1
  <2>1. e \in Ends(f) /\ \A j \in Ends(f) : j <= e
    BY <1>3, EndsAre DEF LastEnd
  <2>2. Until(f, e) \in Nat /\ e \in Nat /\ Until(f, e) > e /\ (Until(f, e) = Len(f) + 1 \/ Until(f, e) \in Ends(f))
    BY <2>1, EndsAre, UntilIs
  <2> QED BY <2>1, <2>2
<1> QED BY <1>1, <1>2, <1>3 DEF DueCame, LastLine

\* A stored file, with its end as the end of a line.
LEMMA StoredIsWhole ==
  ASSUME rowLimit \in Nat \ {0}
  PROVE  \A f \in Seq(Bytes) : \A s : Follows(f, rowLimit, s, Len(f)) =>
           WholeIs(f, rowLimit, TakeByte(s, LF).rows) /\ IsScan(TakeByte(s, LF))
<1> SUFFICES ASSUME NEW f \in Seq(Bytes), NEW s, Follows(f, rowLimit, s, Len(f))
             PROVE  WholeIs(f, rowLimit, TakeByte(s, LF).rows) /\ IsScan(TakeByte(s, LF))
  OBVIOUS
<1>1. IsScan(s) /\ LineIs(f, s, Len(f)) /\ HeaderIs(f, s, Len(f)) /\ RowsAre(f, rowLimit, s, Len(f))
  BY DEF Follows
<1>2. PICK e \in Ends(f) : LastEnd(f, Len(f), e) /\ s.line = SubSeq(f, e + 1, Len(f))
  BY <1>1 DEF LineIs
<1>3. LastLine(f, Len(f), Len(f) + 1, e) /\ DueCame(f, Len(f) + 1) = Due(f)
  BY <1>2, AllCome
<1>4. Bare(s.line) = LineAt(f, e)
  <2>1. Until(f, e) - 1 = Len(f)
    BY <1>3, EndsAre DEF LastLine
  <2> QED BY <1>2, <2>1 DEF LineAt
<1> DEFINE u == Visit(s, Bare(s.line))
<1>5. RowsAre(f, rowLimit, u, Len(f) + 1)
  BY <1>1, <1>3, <1>4, LineEnds
<1>6. IsScan(u)
  <2>1. Bare(s.line) \in Seq(Bytes)
    BY <1>4, LinesAre
  <2> QED BY <1>1, <2>1, VisitIs
<1>7. TakeByte(s, LF) = [u EXCEPT !.line = << >>]
  BY DEF TakeByte
<1> HIDE DEF u
<1>8. TakeByte(s, LF) = [header |-> u.header, rows |-> u.rows, line |-> << >>]
  BY <1>6, <1>7, LineChanges
<1>9. IsScan(TakeByte(s, LF))
  <2>1. << >> \in Seq(Bytes)
    OBVIOUS
  <2> QED BY <1>6, <1>8, <2>1 DEF IsScan
<1>10. TakeByte(s, LF).rows = u.rows
  BY <1>8
<1>11. WholeIs(f, rowLimit, u.rows)
  BY <1>3, <1>5 DEF RowsAre, WholeIs
<1> QED BY <1>9, <1>10, <1>11

\* A stream, its last line as it is.
LEMMA StreamIsWhole ==
  ASSUME rowLimit \in Nat \ {0}
  PROVE  \A f \in Seq(Bytes) : \A s : Follows(f, rowLimit, s, Len(f)) =>
           WholeIs(f, rowLimit, Visit(s, s.line).rows) /\ IsScan(Visit(s, s.line))
<1> SUFFICES ASSUME NEW f \in Seq(Bytes), NEW s, Follows(f, rowLimit, s, Len(f))
             PROVE  WholeIs(f, rowLimit, Visit(s, s.line).rows) /\ IsScan(Visit(s, s.line))
  OBVIOUS
<1> DEFINE n == Len(f)
           raw == s.line
<1>1. IsScan(s) /\ LineIs(f, s, n) /\ HeaderIs(f, s, n) /\ RowsAre(f, rowLimit, s, n)
  BY DEF Follows
<1>2. PICK e \in Ends(f) : LastEnd(f, n, e) /\ raw = SubSeq(f, e + 1, n)
  BY <1>1 DEF LineIs
<1>3. LastLine(f, n, n + 1, e) /\ DueCame(f, n + 1) = Due(f)
  BY <1>2, AllCome
<1>4. Bare(raw) = LineAt(f, e) /\ Until(f, e) = n + 1
  <2>1. Until(f, e) = n + 1 /\ Until(f, e) - 1 = n
    BY <1>3, EndsAre DEF LastLine
  <2> QED BY <1>2, <2>1 DEF LineAt
<1>5. raw \in Seq(Bytes)
  BY <1>1 DEF IsScan
<1>6. raw = LineAt(f, e) \/ (raw = Append(LineAt(f, e), CR) /\ Last(f) = CR)
  <2>1. raw # Bare(raw) => raw # << >> /\ Last(raw) = CR /\ raw = Append(Bare(raw), CR)
    BY <1>5, BareIs
  <2>2. ASSUME raw # << >>, Last(raw) = CR PROVE Last(f) = CR
    <3>1. e \in Nat /\ n \in Nat /\ e <= n
      BY <1>2, EndsAre DEF LastEnd
    <3>2. Len(raw) = n - e /\ \A k \in 1 .. n - e : raw[k] = f[e + k]
      BY <1>2, <3>1, Between
    <3>3. Len(raw) # 0
      BY <1>5, <2>2, EmptySeq
    <3>4. n - e \in 1 .. n - e /\ e + (n - e) = n
      BY <3>1, <3>2, <3>3
    <3>5. raw[n - e] = f[n] /\ raw[n - e] = CR
      BY <2>2, <3>2, <3>4 DEF Last
    <3> QED BY <3>5 DEF Last
  <2> HIDE DEF raw
  <2>3. CASE raw = Bare(raw)
    BY <1>4, <2>3
  <2>4. CASE raw # Bare(raw)
    BY <1>4, <2>1, <2>2, <2>4
  <2> QED BY <2>3, <2>4
<1>7. e \in Due(f) <=> LineAt(f, e) # << >> /\ Wanting(LineAt(f, e)) /\ s.header # NoHeader
  <2>1. e \in Due(f) <=> e \in Lines(f) /\ Wanting(LineAt(f, e)) /\ LinesCame(f, n) # {}
    BY <1>3, LineCame
  <2> QED BY <1>1, <2>1 DEF HeaderIs, Lines
<1>8. LineAt(f, e) \in Seq(Bytes)
  BY LinesAre
<1>9. Wanting(raw) <=> Wanting(LineAt(f, e))
  <2>1. Wanting(Append(LineAt(f, e), CR)) <=> Wanting(LineAt(f, e))
    BY <1>8, ReturnIsNoMatter
  <2> HIDE DEF raw
  <2>2. CASE raw = LineAt(f, e)
    BY <2>2
  <2>3. CASE raw = Append(LineAt(f, e), CR)
    BY <2>1, <2>3
  <2> QED BY <1>6, <2>2, <2>3
<1>10. (Wanting(raw) => raw # << >>) /\ (Wanting(LineAt(f, e)) => LineAt(f, e) # << >>)
  BY ReturnIsNoMatter
<1>11. e \in Due(f) <=> raw # << >> /\ s.header # NoHeader /\ Wanting(raw)
  BY <1>7, <1>9, <1>10
<1> HIDE DEF raw
<1>12. RowsWith(f, s, n + 1, e, raw)
  BY <1>1, <1>3, <1>5, <1>11, RowsGrow
<1>13. IsScan(Visit(s, raw))
  BY <1>1, <1>5, VisitIs
<1> DEFINE kept == Visit(s, raw).rows
<1>14. /\ Len(kept) = AsManyAs(rowLimit, Due(f))
       /\ \A i \in Due(f) : PlaceIn(Due(f), i) <= rowLimit =>
            kept[PlaceIn(Due(f), i)] = IF i = e THEN raw ELSE LineAt(f, i)
  BY <1>3, <1>12 DEF RowsWith
<1> HIDE DEF kept
<1>15. WholeIs(f, rowLimit, kept)
  <2>1. ASSUME NEW i \in Due(f), PlaceIn(Due(f), i) <= rowLimit
        PROVE \/ kept[PlaceIn(Due(f), i)] = LineAt(f, i)
              \/ /\ kept[PlaceIn(Due(f), i)] = Append(LineAt(f, i), CR)
                 /\ Until(f, i) = Len(f) + 1 /\ Last(f) = CR
    <3>1. kept[PlaceIn(Due(f), i)] = IF i = e THEN raw ELSE LineAt(f, i)
      BY <1>14, <2>1
    <3>2. CASE i = e
      BY <1>4, <1>6, <3>1, <3>2
    <3>3. CASE i # e
      BY <3>1, <3>3
    <3> QED BY <3>2, <3>3
  <2> QED BY <1>14, <2>1 DEF WholeIs
<1> QED BY <1>13, <1>15 DEF kept, raw

\* A scan that has as many rows as it may: no line to come has a place among them.
LEMMA StoppedIsWhole ==
  ASSUME rowLimit \in Nat \ {0}
  PROVE  \A f \in Seq(Bytes) : \A n \in Nat : \A s :
           Follows(f, rowLimit, s, n) /\ Len(s.rows) >= rowLimit => WholeIs(f, rowLimit, s.rows)
<1> SUFFICES ASSUME NEW f \in Seq(Bytes), NEW n \in Nat, NEW s, Follows(f, rowLimit, s, n), Len(s.rows) >= rowLimit
             PROVE  WholeIs(f, rowLimit, s.rows)
  OBVIOUS
<1> DEFINE D == DueCame(f, n)
           E == Due(f)
<1>1. /\ Len(s.rows) = AsManyAs(rowLimit, D)
      /\ \A i \in D : PlaceIn(D, i) <= rowLimit => s.rows[PlaceIn(D, i)] = LineAt(f, i)
  BY DEF Follows, RowsAre
<1>2. D \in SUBSET E /\ E \in SUBSET Nat /\ \A i \in E : i \in Ends(f)
  BY DueIsFinite, EndsAre DEF DueCame
<1>3. /\ Cardinality(D) \in Nat /\ Cardinality(E) \in Nat /\ IsFiniteSet(D) /\ IsFiniteSet(E)
      /\ Cardinality(D) <= Cardinality(E)
  BY <1>2, DueIsFinite
<1>4. Cardinality(D) >= rowLimit
  BY <1>1, <1>3 DEF AsManyAs
<1>5. Len(s.rows) = AsManyAs(rowLimit, E)
  BY <1>1, <1>3, <1>4 DEF AsManyAs
<1>6. ASSUME NEW i \in D, NEW j \in E, j <= i PROVE j \in D
  <2>1. i \in Ends(f) /\ j \in Ends(f) /\ Until(f, i) <= n
    BY <1>2 DEF DueCame
  <2>2. Until(f, i) \in Nat /\ Until(f, j) \in Nat /\ i \in Nat /\ j \in Nat /\ Until(f, i) > i
    BY <2>1, EndsAre, UntilIs
  <2>3. j < i => Until(f, j) <= i
    BY <2>1, UntilIs
  <2>4. Until(f, j) <= n
    BY <1>6, <2>1, <2>2, <2>3
  <2> QED BY <2>4 DEF DueCame
<1> HIDE DEF D, E
<1>7. ASSUME NEW i \in D PROVE PlaceIn(E, i) = PlaceIn(D, i) /\ i \in E
  <2>1. {j \in E : j <= i} = {j \in D : j <= i}
    BY <1>2, <1>6
  <2> QED BY <1>2, <2>1 DEF PlaceIn
<1>8. ASSUME NEW i \in E, i \notin D PROVE ~ (PlaceIn(E, i) <= rowLimit)
  <2> DEFINE U == {j \in E : j <= i}
  <2>1. \A j \in D : j \in Nat /\ i \in Nat /\ j <= i /\ j # i
    <3> TAKE j \in D
    <3>1. j \in Nat /\ i \in Nat /\ ~ (i <= j)
      BY <1>2, <1>6, <1>8
    <3> QED BY <3>1
  <2>2. D \cup {i} \in SUBSET U
    BY <1>2, <2>1
  <2>3. IsFiniteSet(U) /\ Cardinality(U) \in Nat
    BY <1>3, FS_Subset, FS_CardinalityType
  <2>4. Cardinality(D \cup {i}) = Cardinality(D) + 1
    BY <1>3, <1>8, FS_AddElement
  <2> HIDE DEF U
  <2>5. Cardinality(D \cup {i}) <= Cardinality(U)
    BY <2>2, <2>3, FS_Subset
  <2>6. ~ (Cardinality(U) <= rowLimit)
    BY <1>3, <1>4, <2>3, <2>4, <2>5
  <2> QED BY <2>6 DEF U, PlaceIn
<1>9. \A i \in E : PlaceIn(E, i) <= rowLimit => s.rows[PlaceIn(E, i)] = LineAt(f, i)
  BY <1>1, <1>7, <1>8
<1> QED BY <1>5, <1>9 DEF WholeIs, E

\* What every step of a scan keeps.
CsvShape ==
  /\ csv \in Seq(Bytes) /\ came \in 0 .. Len(csv) /\ rowLimit \in Nat \ {0}
  /\ IsScan(Sofar) /\ Len(rows) <= rowLimit /\ LF \notin ToSet(leftover)
  /\ scan \in {"closed", "stored", "deflated", "stopped", "done"}
CsvFollows ==
  /\ scan \in {"closed", "stored"} => came = 0 /\ leftover = << >> /\ header = << >> /\ rows = << >>
  /\ scan \in {"deflated", "stopped"} => Follows(csv, rowLimit, Sofar, came)
  /\ scan = "stopped" => Len(rows) >= rowLimit
  /\ scan = "done" => WholeIs(csv, rowLimit, rows)
CsvSound == CsvShape /\ CsvFollows

\* A line that has not ended holds no line feed.
LEMMA NoFeedLeft ==
  \A f \in Seq(Bytes) : \A n \in Nat : \A s : n <= Len(f) /\ LineIs(f, s, n) => LF \notin ToSet(s.line)
<1> TAKE f \in Seq(Bytes)
<1> TAKE n \in Nat
<1> TAKE s
<1> HAVE n <= Len(f) /\ LineIs(f, s, n)
<1>1. PICK e \in Ends(f) : LastEnd(f, n, e) /\ s.line = SubSeq(f, e + 1, n)
  BY DEF LineIs
<1>2. e \in Nat /\ e <= n /\ Len(f) \in Nat /\ \A j \in Ends(f) : j <= n => j <= e
  BY <1>1, EndsAre DEF LastEnd
<1>3. s.line \in Seq(Bytes) /\ Len(s.line) = n - e /\ \A k \in 1 .. n - e : s.line[k] = f[e + k]
  BY <1>1, <1>2, Between
<1>4. ASSUME NEW k \in 1 .. n - e PROVE s.line[k] # LF
  <2>1. e + k \in 1 .. Len(f) /\ e + k <= n /\ ~ (e + k <= e)
    BY <1>2
  <2>2. f[e + k] # LF
    BY <1>2, <2>1, EndsAre
  <2> QED BY <1>3, <2>2
<1>5. DOMAIN s.line = 1 .. n - e
  BY <1>3, LenProperties
<1> QED BY <1>4, <1>5 DEF ToSet

\* The rows kept are never more than the limit.
LEMMA NeverMore ==
  \A f \in Seq(Bytes) : \A lim, n \in Nat : \A kept :
    /\ Len(kept) = AsManyAs(lim, DueCame(f, n)) => Len(kept) <= lim
    /\ WholeIs(f, lim, kept) => Len(kept) <= lim
<1> TAKE f \in Seq(Bytes)
<1> TAKE lim, n \in Nat
<1> TAKE kept
<1>1. Cardinality(Due(f)) \in Nat /\ DueCame(f, n) \in SUBSET Due(f) /\ Cardinality(DueCame(f, n)) \in Nat
  BY DueIsFinite DEF DueCame
<1> QED BY <1>1 DEF AsManyAs, WholeIs

LEMMA CsvFirst == CsvInit => CsvSound
<1> HAVE CsvInit
<1>1. IsScan(Sofar)
  BY DEF CsvInit, IsScan, Sofar, NoHeader
<1> QED BY <1>1 DEF CsvInit, CsvSound, CsvShape, CsvFollows, NoHeader, ToSet

LEMMA CsvStep == CsvSound /\ [CsvNext]_csvVars => CsvSound'
<1> SUFFICES ASSUME CsvSound, [CsvNext]_csvVars PROVE CsvSound'
  OBVIOUS
<1>0. /\ csv \in Seq(Bytes) /\ came \in Nat /\ came <= Len(csv) /\ rowLimit \in Nat \ {0} /\ rowLimit \in Nat
      /\ IsScan(Sofar) /\ Len(rows) <= rowLimit /\ LF \notin ToSet(leftover) /\ Len(csv) \in Nat
      /\ scan \in {"closed", "stored", "deflated", "stopped", "done"}
  BY EndsAre DEF CsvSound, CsvShape
<1>1. CASE OpenFile
  <2>1. PICK n \in 0 .. MaxFile : csv' \in [1 .. n -> Bytes]
    BY <1>1 DEF OpenFile
  <2>2. csv' \in Seq(Bytes)
    <3>1. n \in Nat
      BY CsvAssumption
    <3> QED BY <2>1, <3>1, SeqDef
  <2>3. Len(csv') \in Nat
    BY <2>2, EndsAre
  <2>4. /\ came' = 0 /\ leftover' = << >> /\ header' = << >> /\ rows' = << >>
        /\ scan' \in {"stored", "deflated"} /\ rowLimit' \in Nat \ {0}
    BY <1>1, CsvAssumption DEF OpenFile, CsvSound, CsvFollows
  <2>5. Sofar' = [header |-> << >>, rows |-> << >>, line |-> << >>]
    BY <2>4 DEF Sofar
  <2>6. Follows(csv', rowLimit', Sofar', came')
    <3>1. rowLimit' \in Nat
      BY <2>4
    <3> QED BY <2>2, <2>4, <2>5, <3>1, NothingFollows
  <2>7. IsScan(Sofar')
    BY <2>6 DEF Follows
  <2>8. CsvShape'
    <3>1. came' \in 0 .. Len(csv') /\ Len(rows') <= rowLimit' /\ LF \notin ToSet(leftover')
      BY <2>3, <2>4 DEF ToSet
    <3> QED BY <2>2, <2>4, <2>7, <3>1 DEF CsvShape, IsScan
  <2>9. CsvFollows'
    BY <2>4, <2>6 DEF CsvFollows
  <2> QED BY <2>8, <2>9 DEF CsvSound
<1>2. CASE ScanStored
  <2> DEFINE all == TakeByte(TakeChunk(csv), LF)
  <2>1. /\ scan = "stored" /\ scan' = "done" /\ header' = all.header /\ rows' = all.rows /\ came' = Len(csv)
        /\ csv' = csv /\ leftover' = leftover /\ rowLimit' = rowLimit
    BY <1>2 DEF ScanStored
  <2>2. came = 0 /\ leftover = << >> /\ header = << >> /\ rows = << >>
    BY <2>1 DEF CsvSound, CsvFollows
  <2>3. Follows(csv, rowLimit, Sofar, 0)
    <3>1. Sofar = [header |-> << >>, rows |-> << >>, line |-> << >>]
      BY <2>2 DEF Sofar
    <3> QED BY <1>0, <3>1, NothingFollows
  <2>4. Follows(csv, rowLimit, Taken(Sofar, csv), Len(csv))
    <3>1. Len(csv) = 0 + Len(csv) /\ Len(csv) <= Len(csv) /\ \A i \in 1 .. Len(csv) : csv[i] = csv[0 + i]
      BY <1>0
    <3> QED BY <1>0, <2>3, <3>1, ChunkFollows
  <2>5. all = TakeByte(Taken(Sofar, csv), LF)
    BY DEF TakeChunk, Taken
  <2> HIDE DEF all
  <2>6. WholeIs(csv, rowLimit, all.rows) /\ IsScan(all)
    BY <1>0, <2>4, <2>5, StoredIsWhole
  <2>7. Sofar' = [header |-> all.header, rows |-> all.rows, line |-> << >>]
    BY <2>1, <2>2 DEF Sofar
  <2>8. IsScan(Sofar')
    <3>1. << >> \in Seq(Bytes)
      OBVIOUS
    <3> QED BY <2>6, <2>7, <3>1 DEF IsScan
  <2>9. Len(all.rows) <= rowLimit
    BY <1>0, <2>6, NeverMore
  <2>10. CsvShape'
    <3>1. came' \in 0 .. Len(csv') /\ Len(rows') <= rowLimit' /\ LF \notin ToSet(leftover')
      BY <1>0, <2>1, <2>9
    <3> QED BY <1>0, <2>1, <2>8, <3>1 DEF CsvShape, IsScan
  <2>11. CsvFollows'
    BY <2>1, <2>6 DEF CsvFollows
  <2> QED BY <2>10, <2>11 DEF CsvSound
<1>3. CASE ReadChunk
  <2>1. PICK n \in came + 1 .. Len(csv) :
          LET now == TakeChunk(SubSeq(csv, came + 1, n)) IN
          /\ came' = n /\ header' = now.header /\ rows' = now.rows /\ leftover' = now.line
          /\ scan' = IF Len(rows') >= rowLimit THEN "stopped" ELSE "deflated"
    BY <1>3 DEF ReadChunk
  <2> DEFINE chunk == SubSeq(csv, came + 1, n)
             now == TakeChunk(chunk)
  <2>2. /\ scan = "deflated" /\ csv' = csv /\ rowLimit' = rowLimit
        /\ came' = n /\ header' = now.header /\ rows' = now.rows /\ leftover' = now.line
        /\ scan' = IF Len(rows') >= rowLimit THEN "stopped" ELSE "deflated"
    BY <1>3, <2>1 DEF ReadChunk
  <2>3. n \in Nat /\ came <= n /\ n <= Len(csv)
    BY <1>0
  <2>4. /\ chunk \in Seq(Bytes) /\ Len(chunk) = n - came
        /\ \A k \in 1 .. n - came : chunk[k] = csv[came + k]
    BY <1>0, <2>3, Between
  <2>5. now = Taken(Sofar, chunk)
    BY DEF TakeChunk, Taken
  <2> HIDE DEF now, chunk
  <2>6. Follows(csv, rowLimit, now, n)
    <3>1. n = came + Len(chunk)
      BY <1>0, <2>3, <2>4
    <3>2. \A k \in 1 .. Len(chunk) : chunk[k] = csv[came + k]
      BY <2>4
    <3>3. Follows(csv, rowLimit, Sofar, came)
      BY <2>2 DEF CsvSound, CsvFollows
    <3>4. Follows(csv, rowLimit, Taken(Sofar, chunk), n)
      BY <1>0, <2>3, <2>4, <3>1, <3>2, <3>3, ChunkFollows
    <3> QED BY <2>5, <3>4
  <2>7. IsScan(now) /\ LineIs(csv, now, n) /\ RowsAre(csv, rowLimit, now, n)
    BY <2>6 DEF Follows
  <2>8. Sofar' = now
    BY <2>2, <2>7 DEF Sofar, IsScan
  <2>9. LF \notin ToSet(now.line) /\ Len(now.rows) <= rowLimit
    BY <1>0, <2>3, <2>7, NoFeedLeft, NeverMore DEF RowsAre
  <2>10. CsvShape'
    <3>1. came' \in 0 .. Len(csv') /\ Len(rows') <= rowLimit' /\ LF \notin ToSet(leftover')
      BY <2>2, <2>3, <2>9
    <3>2. scan' \in {"closed", "stored", "deflated", "stopped", "done"}
      BY <2>2
    <3> QED BY <1>0, <2>2, <2>7, <2>8, <3>1, <3>2 DEF CsvShape, IsScan
  <2>11. CsvFollows'
    <3>1. Follows(csv', rowLimit', Sofar', came')
      BY <2>2, <2>6, <2>8
    <3>2. scan' = "stopped" => Len(rows') >= rowLimit'
      BY <2>2
    <3> QED BY <2>2, <3>1, <3>2 DEF CsvFollows
  <2> QED BY <2>10, <2>11 DEF CsvSound
<1>4. CASE StreamEnds
  <2> DEFINE all == Visit(Sofar, leftover)
  <2>1. /\ scan = "deflated" /\ came = Len(csv) /\ scan' = "done" /\ header' = all.header /\ rows' = all.rows
        /\ csv' = csv /\ came' = came /\ leftover' = leftover /\ rowLimit' = rowLimit
    BY <1>4 DEF StreamEnds
  <2>2. Follows(csv, rowLimit, Sofar, Len(csv))
    BY <2>1 DEF CsvSound, CsvFollows
  <2>3. Sofar.line = leftover
    BY DEF Sofar
  <2>4. WholeIs(csv, rowLimit, all.rows) /\ IsScan(all)
    <3>1. all = Visit(Sofar, Sofar.line)
      BY <2>3
    <3> HIDE DEF all
    <3> QED BY <1>0, <2>2, <3>1, StreamIsWhole
  <2> HIDE DEF all
  <2>5. Sofar' = [header |-> all.header, rows |-> all.rows, line |-> leftover]
    BY <2>1 DEF Sofar
  <2>6. IsScan(Sofar')
    BY <1>0, <2>3, <2>4, <2>5 DEF IsScan
  <2>7. Len(all.rows) <= rowLimit
    BY <1>0, <2>4, NeverMore
  <2>8. CsvShape'
    <3>1. came' \in 0 .. Len(csv') /\ Len(rows') <= rowLimit' /\ LF \notin ToSet(leftover')
      BY <1>0, <2>1, <2>7
    <3> QED BY <1>0, <2>1, <2>6, <3>1 DEF CsvShape, IsScan
  <2>9. CsvFollows'
    BY <2>1, <2>4 DEF CsvFollows
  <2> QED BY <2>8, <2>9 DEF CsvSound
<1>5. CASE UNCHANGED csvVars
  <2>1. /\ csv' = csv /\ came' = came /\ leftover' = leftover /\ header' = header /\ rows' = rows
        /\ rowLimit' = rowLimit /\ scan' = scan
    BY <1>5 DEF csvVars
  <2>2. Sofar' = Sofar
    BY <2>1 DEF Sofar
  <2>3. CsvShape'
    BY <2>1, <2>2 DEF CsvSound, CsvShape, IsScan
  <2>4. CsvFollows'
    BY <2>1, <2>2 DEF CsvSound, CsvFollows
  <2> QED BY <2>3, <2>4 DEF CsvSound
<1> QED BY <1>1, <1>2, <1>3, <1>4, <1>5 DEF CsvNext

\* The bytes that have come are those of the file, a line that has not ended holds
\* no line feed, and no scan keeps more rows than it may (collectLines).
THEOREM ScansAreTyped == CsvSpec => []CsvTypeOK
<1>1. CsvSound => CsvTypeOK
  BY DEF CsvSound, CsvShape, CsvTypeOK
<1> QED BY <1>1, CsvFirst, CsvStep, PTL DEF CsvSpec

\* Wherever the chunks of a file end, and whether it is stored or deflated, the
\* rows are the first ones that hold a needle, each whole.
THEOREM ScanIsAlwaysWhole == CsvSpec => []ScanIsWhole
<1>1. ASSUME CsvSound, scan \in {"stopped", "done"} PROVE WholeIs(csv, rowLimit, rows)
  <2>1. CASE scan = "done"
    BY <1>1, <2>1 DEF CsvSound, CsvFollows
  <2>2. CASE scan = "stopped"
    <3>1. csv \in Seq(Bytes) /\ came \in Nat /\ rowLimit \in Nat \ {0}
      BY <1>1, EndsAre DEF CsvSound, CsvShape
    <3>2. Follows(csv, rowLimit, Sofar, came) /\ Len(rows) >= rowLimit /\ Sofar.rows = rows
      BY <1>1, <2>2 DEF CsvSound, CsvFollows, Sofar
    <3> QED BY <3>1, <3>2, StoppedIsWhole
  <2> QED BY <1>1, <2>1, <2>2
<1>2. ASSUME CsvSound, scan \in {"stopped", "done"}
      PROVE  /\ Len(rows) = Min({rowLimit, Cardinality(Due(csv))})
             /\ \A i \in Due(csv) :
                  LET place == Cardinality({j \in Due(csv) : j <= i}) IN
                  place <= rowLimit =>
                    \/ rows[place] = LineAt(csv, i)
                    \/ rows[place] = Append(LineAt(csv, i), CR) /\ Until(csv, i) = Len(csv) + 1 /\ Last(csv) = CR
  <2>1. WholeIs(csv, rowLimit, rows)
    BY <1>1, <1>2
  <2>2. csv \in Seq(Bytes) /\ rowLimit \in Nat /\ Cardinality(Due(csv)) \in Nat
    BY <1>2, DueIsFinite DEF CsvSound, CsvShape
  <2>3. Min({rowLimit, Cardinality(Due(csv))}) = AsManyAs(rowLimit, Due(csv))
    <3>1. rowLimit \in Int /\ Cardinality(Due(csv)) \in Int
      BY <2>2
    <3> QED BY <2>2, <3>1, LeastOfTwo DEF AsManyAs
  <2> QED BY <2>1, <2>3 DEF WholeIs, PlaceIn
<1>3. CsvSound => ScanIsWhole
  BY <1>2 DEF ScanIsWhole
<1> QED BY <1>3, CsvFirst, CsvStep, PTL DEF CsvSpec
=============================================================================
