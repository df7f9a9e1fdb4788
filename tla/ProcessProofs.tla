--------------------------- MODULE ProcessProofs ----------------------------
(* Proofs about what a process keeps: ParsedCache implements CachedRead, for  *)
(* any number of tasks and any two ttls; and ClientLife, for any number of    *)
(* tasks, loops and clients.                                                  *)
EXTENDS ParsedCache, ClientLife, TLAPS
-----------------------------------------------------------------------------
(* The parsed-data caches.                                                    *)

\* The inductive invariant.
Safe == TypeOK /\ LoadedFresh /\ NewestLast

\* What an answer of the HTTP layer is, wherever it comes from.
LEMMA ReplyFacts ==
  ASSUME Safe, NEW c \in Callers, NEW a \in Http!Answers, Http!Reply(c, a)
  PROVE  /\ a \in Answer
         /\ a # NoData
         /\ a.asOf <= a.at /\ a.at <= now
         /\ a.at = now \/ now - a.at < HttpTtl
         /\ now' = now
         /\ asked' = [asked EXCEPT ![c] = NoKey]
         /\ fetched' = [fetched EXCEPT ![c] = a]
         /\ \A d \in Callers : fetched[d].asOf <= a.asOf
<1>1. now \in Nat /\ fetched \in [Callers -> Answer \cup {NoData}]
  BY DEF Safe, TypeOK
<1>2. /\ a.key = Url /\ a.asOf \in Nat /\ a.at \in Nat
      /\ a.asOf <= now /\ a.at <= now
      /\ a \in Answer
  BY <1>1 DEF Http!Answers, Answer
<1>3. a # NoData
  BY <1>2, UrlAssumption DEF NoData, Http!NoAnswer
<1>4. \A d \in Callers : fetched[d].asOf <= a.asOf
  <2> TAKE d \in Callers
  <2>1. CASE fetched[d] = NoData
    BY <2>1, <1>2 DEF NoData, Http!NoAnswer
  <2>2. CASE fetched[d] \in Answer
    BY <2>2, <1>2 DEF Http!Reply, Answer
  <2> QED BY <2>1, <2>2, <1>1
<1> QED BY <1>2, <1>3, <1>4 DEF Http!Reply

\* A fresh TTLCache holds nothing.
LEMMA SafeInit == Init => Safe
<1> SUFFICES ASSUME Init PROVE Safe
  OBVIOUS
<1>1. TypeOK
  BY DEF Init, Http!Init, TypeOK, NoData, Http!NoAnswer
<1>2. LoadedFresh /\ NewestLast
  BY DEF Init, Http!Init, LoadedFresh, NewestLast, NoData, Http!NoAnswer
<1> QED BY <1>1, <1>2 DEF Safe

\* Every answer of the HTTP layer keeps the newest one the newest.
LEMMA NewestGrows ==
  ASSUME Safe, NEW c \in Callers, NEW a \in Http!Answers, Http!Reply(c, a)
  PROVE  \A d \in Callers : out[d].asOf <= a.asOf
<1> TAKE d \in Callers
<1>1. PICK e \in Callers : out[d].asOf <= fetched[e].asOf
  BY DEF Safe, NewestLast
<1>2. fetched[e].asOf <= a.asOf /\ a.asOf \in Nat
  BY ReplyFacts DEF Answer
<1>3. out[d].asOf \in Nat /\ fetched[e].asOf \in Nat
  BY DEF Safe, TypeOK, Answer, NoData, Http!NoAnswer
<1> QED BY <1>1, <1>2, <1>3

\* Every step keeps the invariant: one case per action.
LEMMA SafeNext == Safe /\ [Next]_vars => Safe'
<1> SUFFICES ASSUME Safe, [Next]_vars PROVE Safe'
  OBVIOUS
<1>n. /\ now \in Nat /\ loadedAt \in Nat
      /\ data \in Answer \cup {NoData}
      /\ data.asOf \in Nat /\ data.at \in Nat
      /\ NoData.asOf = 0 /\ NoData.at = 0
  BY DEF Safe, TypeOK, Answer, NoData, Http!NoAnswer
<1>1. ASSUME NEW c \in Callers, GetHit(c) PROVE Safe'
  <2>1. data # NoData
    BY <1>1 DEF GetHit, Fresh
  <2>2. TypeOK' /\ LoadedFresh'
    BY <1>1, <2>1 DEF GetHit, Safe, TypeOK, LoadedFresh
  <2>3. NewestLast'
    <3>1. \A d \in Callers : out'[d] = data \/ out'[d] = out[d]
      BY <1>1 DEF GetHit, Safe, TypeOK
    <3>2. \A d \in Callers : data'= NoData \/ out'[d].asOf <= data'.asOf
      BY <1>1, <1>n, <3>1 DEF GetHit, Safe, NewestLast
    <3>3. \A d \in Callers : \E e \in Callers : out'[d].asOf <= fetched'[e].asOf
      BY <1>1, <2>1, <3>1 DEF GetHit, Safe, NewestLast
    <3>4. data' = NoData \/ \E e \in Callers : data'.asOf <= fetched'[e].asOf
      BY <1>1 DEF GetHit, Safe, NewestLast
    <3> QED BY <3>2, <3>3, <3>4 DEF NewestLast
  <2> QED BY <2>2, <2>3 DEF Safe
<1>2. ASSUME NEW c \in Callers, GetLoad(c) PROVE Safe'
  <2>1. /\ asked' = [asked EXCEPT ![c] = Url]
        /\ UNCHANGED <<now, data, loadedAt, fetched, out>>
    BY <1>2 DEF GetLoad, Http!Ask
  <2>2. TypeOK' /\ LoadedFresh' /\ NewestLast'
    BY <2>1 DEF Safe, TypeOK, LoadedFresh, NewestLast
  <2> QED BY <2>2 DEF Safe
<1>3. ASSUME NEW c \in Callers, NEW a \in Http!Answers, Load(c, a) PROVE Safe'
  <2>1. Http!Reply(c, a) /\ data' = a /\ loadedAt' = now /\ out' = [out EXCEPT ![c] = a]
    BY <1>3 DEF Load, Set
  <2>2. /\ a \in Answer
        /\ a # NoData
        /\ a.asOf <= a.at /\ a.at <= now
        /\ a.at = now \/ now - a.at < HttpTtl
        /\ now' = now
        /\ asked' = [asked EXCEPT ![c] = NoKey]
        /\ fetched' = [fetched EXCEPT ![c] = a]
        /\ a.asOf \in Nat /\ a.at \in Nat
    BY <2>1, ReplyFacts DEF Answer
  <2>3. TypeOK'
    BY <1>n, <2>1, <2>2 DEF Safe, TypeOK
  <2>4. LoadedFresh'
    BY <2>1, <2>2 DEF LoadedFresh
  <2>5. fetched'[c] = a
    BY <2>2 DEF Safe, TypeOK
  <2>6. \A d \in Callers : out'[d].asOf <= a.asOf
    BY <2>1, <2>2, NewestGrows DEF Safe, TypeOK
  <2>7. NewestLast'
    BY <2>1, <2>2, <2>5, <2>6 DEF NewestLast
  <2> QED BY <2>3, <2>4, <2>7 DEF Safe
<1>4. ASSUME NEW c \in Callers, LoadFails(c) PROVE Safe'
  <2>1. /\ asked' = [asked EXCEPT ![c] = NoKey]
        /\ UNCHANGED <<now, data, loadedAt, fetched, out>>
    BY <1>4 DEF LoadFails, Http!GiveUp
  <2>2. TypeOK' /\ LoadedFresh' /\ NewestLast'
    BY <2>1 DEF Safe, TypeOK, LoadedFresh, NewestLast
  <2> QED BY <2>2 DEF Safe
<1>5. CASE Invalidate
  <2>1. TypeOK' /\ LoadedFresh' /\ NewestLast'
    BY <1>5, <1>n DEF Invalidate, Safe, TypeOK, LoadedFresh, NewestLast
  <2> QED BY <2>1 DEF Safe
<1>6. CASE Tick
  <2>1. now' = now + 1 /\ UNCHANGED <<data, loadedAt, asked, fetched, out>>
    BY <1>6 DEF Tick, Http!Tick
  <2>2. TypeOK' /\ LoadedFresh' /\ NewestLast'
    BY <2>1, <1>n DEF Safe, TypeOK, LoadedFresh, NewestLast
  <2> QED BY <2>2 DEF Safe
<1>7. CASE UNCHANGED vars
  <2>1. TypeOK' /\ LoadedFresh' /\ NewestLast'
    BY <1>7 DEF vars, Safe, TypeOK, LoadedFresh, NewestLast
  <2> QED BY <2>1 DEF Safe
<1> QED BY <1>1, <1>2, <1>3, <1>4, <1>5, <1>6, <1>7 DEF Next

\* The invariant holds however loads overlap, fail or follow an invalidate.
LEMMA SafeAlways == Spec => []Safe
BY SafeInit, SafeNext, PTL DEF Spec

\* Serving what is held is a reply of the stacked read: recent enough, and no
\* older than anything served before.
LEMMA HitIsReply ==
  ASSUME Safe, NEW c \in Callers, GetHit(c)
  PROVE  \E a \in Stacked!Answers : Stacked!Reply(c, a)
<1>1. /\ data \in Answer /\ data # NoData
      /\ now - loadedAt < Ttl
      /\ asked[c] = NoKey
      /\ out' = [out EXCEPT ![c] = data]
      /\ UNCHANGED <<now, asked>>
  BY DEF GetHit, Fresh, Safe, TypeOK
<1>2. /\ now \in Nat /\ loadedAt \in Nat /\ data.asOf \in Nat /\ data.at \in Nat
      /\ data.asOf <= data.at /\ data.at <= loadedAt /\ loadedAt <= now
      /\ data.key = Url
  BY <1>1 DEF Safe, TypeOK, Answer
<1>3. data \in Stacked!Answers
  BY <1>1, <1>2 DEF Stacked!Answers, Answer
<1>4. now - data.at < HttpTtl + Ttl
  BY <1>1, <1>2, TtlsAssumption DEF Safe, LoadedFresh
<1>5. \A d \in Callers : out[d].asOf <= data.asOf
  BY <1>1 DEF Safe, NewestLast
<1>6. asked' = [asked EXCEPT ![c] = NoKey]
  BY <1>1 DEF Safe, TypeOK
<1>7. Stacked!Reply(c, data)
  BY <1>1, <1>2, <1>4, <1>5, <1>6 DEF Stacked!Reply
<1> QED BY <1>3, <1>7

\* So is serving what was just loaded.
LEMMA LoadIsReply ==
  ASSUME Safe, NEW c \in Callers, NEW a \in Http!Answers, Load(c, a)
  PROVE  \E b \in Stacked!Answers : Stacked!Reply(c, b)
<1>1. Http!Reply(c, a) /\ out' = [out EXCEPT ![c] = a]
  BY DEF Load
<1>2. /\ a \in Answer
      /\ a.asOf <= a.at /\ a.at <= now
      /\ a.at = now \/ now - a.at < HttpTtl
      /\ now' = now
      /\ asked' = [asked EXCEPT ![c] = NoKey]
      /\ asked[c] \in {NoKey, a.key}
  BY <1>1, ReplyFacts DEF Http!Reply
<1>3. a.asOf \in Nat /\ a.at \in Nat /\ now \in Nat
  BY <1>2 DEF Answer, Safe, TypeOK
<1>4. a.at = now \/ now - a.at < HttpTtl + Ttl
  BY <1>2, <1>3, TtlsAssumption
<1>5. a \in Stacked!Answers
  BY DEF Stacked!Answers, Http!Answers
<1>6. Stacked!Reply(c, a)
  BY <1>1, <1>2, <1>4, NewestGrows DEF Stacked!Reply
<1> QED BY <1>5, <1>6

\* Every step of get_or_load is a step of the stacked read, or a stutter.
LEMMA StepIsRead ==
  ASSUME Safe, [Next]_vars
  PROVE  [Stacked!Next]_(Stacked!readVars)
<1>1. ASSUME NEW c \in Callers, GetHit(c) PROVE Stacked!Next
  BY <1>1, HitIsReply DEF Stacked!Next
<1>2. ASSUME NEW c \in Callers, GetLoad(c) PROVE Stacked!Next
  <2>1. Stacked!Ask(c, Url)
    BY <1>2 DEF GetLoad, Http!Ask, Stacked!Ask
  <2> QED BY <2>1 DEF Stacked!Next
<1>3. ASSUME NEW c \in Callers, NEW a \in Http!Answers, Load(c, a) PROVE Stacked!Next
  BY <1>3, LoadIsReply DEF Stacked!Next
<1>4. ASSUME NEW c \in Callers, LoadFails(c) PROVE Stacked!Next
  <2>1. Stacked!GiveUp(c)
    BY <1>4 DEF LoadFails, Http!GiveUp, Stacked!GiveUp
  <2> QED BY <2>1 DEF Stacked!Next
<1>5. CASE Tick
  BY <1>5 DEF Tick, Http!Tick, Stacked!Tick, Stacked!Next
<1>6. CASE Invalidate \/ UNCHANGED vars
  BY <1>6 DEF Invalidate, vars, Stacked!readVars
<1> QED BY <1>1, <1>2, <1>3, <1>4, <1>5, <1>6 DEF Next

\* Every variable keeps its type, and loads are never older than what they hold.
THEOREM ParsedTypeCorrect == Spec => []TypeOK
BY SafeAlways, PTL DEF Safe

\* A TTLCache over the HTTP cache is one bounded-stale, monotonic read whose bound
\* is the sum of the two ttls.
THEOREM StackedReadsAreMonotonicAlways == Spec => StackedReadsAreMonotonic
<1>1. Init => Stacked!Init
  BY DEF Init, Http!Init, Stacked!Init, NoData, Http!NoAnswer, Stacked!NoAnswer
<1>2. Safe /\ [Next]_vars => [Stacked!Next]_(Stacked!readVars)
  BY StepIsRead
<1> QED BY <1>1, <1>2, SafeAlways, PTL DEF Spec, StackedReadsAreMonotonic, Stacked!Spec

-----------------------------------------------------------------------------
(* The shared clients: both properties follow from where a client and its     *)
(* connections were made.                                                     *)

Client == [closed : BOOLEAN, madeIn : Nat, madeInClose : BOOLEAN, idle : SUBSET Nat]

\* The types of the variables, in the form the provers need.
ClientTypes ==
  /\ idOf \in Seq(LoopIds) /\ loop \in Nat /\ loop \in {0, Len(idOf)}
  /\ clients \in Seq(Client) /\ client \in 0 .. Len(clients) /\ closing \in 0 .. Len(clients)
  /\ \A k \in DOMAIN clients : clients[k].madeIn \in 1 .. Len(idOf) /\ clients[k].idle \subseteq 1 .. Len(idOf)
  /\ task \in [Tasks -> [phase : {"idle", "asking"}, client : Nat, attempts : Nat]]
  /\ \A t \in Tasks : task[t].client <= Len(clients) /\ task[t].attempts < MaxAttempts
  /\ clientLoopId \in LoopIds \cup {NoId}

\* _client_loop_id is the id of the loop _client was made in, and whatever is
\* made while a close is under way says so.
OneClient ==
  /\ client # 0 => clientLoopId = idOf[clients[client].madeIn]
  /\ closing # 0 /\ client # 0 =>
       clients[client].closed \/ clients[client].madeInClose \/ clients[client].madeIn # loop
  /\ OnlyClosingLosesClients

\* The loops _client's connections keep alive have one id, and no two loops that
\* are alive share theirs.
OneLoop ==
  /\ client # 0 => \A l \in clients[client].idle : idOf[l] = clientLoopId
  /\ \A l, m \in Alive : idOf[l] = idOf[m] => l = m

\* A task asks over a client whose connections are of the running loop.
OwnConnections ==
  /\ loop = 0 => \A t \in Tasks : task[t].phase = "idle"
  /\ \A t \in Tasks : task[t].phase = "asking" =>
       /\ task[t].client # 0 /\ clients[task[t].client].idle \subseteq {loop}
       /\ task[t].client = client => clientLoopId = idOf[loop]
  /\ ~usedForeign

ClientSound == ClientTypes /\ OneClient /\ OneLoop /\ OwnConnections

LEMMA ClientSoundInit == ClientInit => ClientSound
<1> SUFFICES ASSUME ClientInit PROVE ClientSound
  OBVIOUS
<1>1. ClientTypes
  BY ClientAssumption DEF ClientInit, ClientTypes, NoTask
<1>2. OneClient /\ OneLoop /\ OwnConnections
  BY DEF ClientInit, OneClient, OneLoop, OwnConnections, OnlyClosingLosesClients, Alive, NoTask
<1> QED BY <1>1, <1>2 DEF ClientSound

\* A new loop has an id that no loop has which is still alive, and no client was
\* made in it.
LEMMA StartLoopSound == ASSUME ClientSound, StartLoop PROVE ClientSound'
<1>1. PICK id \in LoopIds \ {idOf[l] : l \in Alive} : idOf' = Append(idOf, id)
  BY DEF StartLoop
<1>2. /\ Len(idOf') = Len(idOf) + 1 /\ idOf' \in Seq(LoopIds) /\ loop' = Len(idOf) + 1
      /\ \A l \in 1 .. Len(idOf) : idOf'[l] = idOf[l]
      /\ idOf'[loop'] = id /\ Len(idOf) \in Nat
  BY <1>1 DEF ClientSound, ClientTypes, StartLoop
<1>3. ClientTypes'
  BY <1>2 DEF ClientSound, ClientTypes, StartLoop
<1>4. OneClient'
  <2>1. client # 0 => client \in DOMAIN clients /\ clients[client].madeIn \in 1 .. Len(idOf)
    BY DEF ClientSound, ClientTypes
  <2> QED BY <1>2, <2>1 DEF ClientSound, ClientTypes, OneClient, OnlyClosingLosesClients, StartLoop
<1>5. Alive \subseteq 1 .. Len(idOf) /\ Alive' = Alive \cup {loop'}
  BY <1>2 DEF ClientSound, ClientTypes, StartLoop, Alive
<1>6. OneLoop'
  <2>1. client # 0 => clients[client].idle \subseteq Alive
    BY DEF Alive
  <2>2. client' # 0 => \A l \in clients'[client'].idle : idOf'[l] = clientLoopId'
    BY <1>2, <1>5, <2>1 DEF ClientSound, OneLoop, StartLoop
  <2>3. \A l \in Alive : idOf'[l] = idOf[l] /\ idOf[l] # id
    BY <1>1, <1>2, <1>5
  <2>4. ASSUME NEW l \in Alive', NEW m \in Alive', idOf'[l] = idOf'[m] PROVE l = m
    <3>1. CASE l \in Alive /\ m \in Alive
      BY <2>3, <2>4, <3>1 DEF ClientSound, OneLoop
    <3>2. CASE l = loop' \/ m = loop'
      BY <1>2, <1>5, <2>3, <2>4, <3>2
    <3> QED BY <1>5, <3>1, <3>2
  <2> QED BY <2>2, <2>4 DEF OneLoop
<1>7. OwnConnections'
  BY <1>2 DEF ClientSound, OwnConnections, StartLoop
<1> QED BY <1>3, <1>4, <1>6, <1>7 DEF ClientSound

LEMMA EndLoopSound == ASSUME ClientSound, EndLoop PROVE ClientSound'
<1>1. ClientTypes'
  BY ClientAssumption DEF ClientSound, ClientTypes, EndLoop, NoTask
<1>2. OneClient'
  BY DEF ClientSound, ClientTypes, OneClient, OnlyClosingLosesClients, EndLoop
<1>3. Alive' \subseteq Alive
  BY DEF Alive, EndLoop
<1>4. OneLoop' /\ OwnConnections'
  BY <1>3 DEF ClientSound, OneLoop, OwnConnections, EndLoop, NoTask
<1> QED BY <1>1, <1>2, <1>4 DEF ClientSound

\* The client of the running loop is used again; its connections are of a loop
\* with the same id, which is the running one.
LEMMA TakeOldSound == ASSUME ClientSound, NEW t \in Tasks, Take(t), ReusesClient PROVE ClientSound'
<1>1. /\ client # 0 /\ clientLoopId = idOf[loop] /\ loop # 0
      /\ UNCHANGED <<client, clientLoopId, clients, loop, idOf, closing, usedForeign>>
      /\ task' = [task EXCEPT ![t] = [phase |-> "asking", client |-> client, attempts |-> 0]]
  BY DEF Take, ReusesClient
<1>2. ClientTypes'
  BY <1>1, ClientAssumption DEF ClientSound, ClientTypes
<1>3. OneClient' /\ OneLoop'
  BY <1>1 DEF ClientSound, OneClient, OnlyClosingLosesClients, OneLoop, Alive
<1>4. clients[client].idle \subseteq {loop}
  BY <1>1 DEF ClientSound, OneLoop, Alive
<1>5. OwnConnections'
  BY <1>1, <1>4 DEF ClientSound, ClientTypes, OwnConnections
<1> QED BY <1>2, <1>3, <1>5 DEF ClientSound

\* A new client is made; the one before it was made in another loop, is closed,
\* or was not _client any more.
LEMMA TakeNewSound == ASSUME ClientSound, NEW t \in Tasks, Take(t), ~ReusesClient PROVE ClientSound'
<1> DEFINE new == [closed |-> FALSE, madeIn |-> loop, madeInClose |-> (closing # 0), idle |-> {}]
           n == Len(clients)
<1>1. /\ clients' = Append(clients, new) /\ client' = Len(clients') /\ clientLoopId' = idOf[loop]
      /\ task' = [task EXCEPT ![t] = [phase |-> "asking", client |-> client', attempts |-> 0]]
      /\ loop # 0 /\ UNCHANGED <<loop, idOf, closing, usedForeign>>
  BY DEF Take
<1>2. loop \in 1 .. Len(idOf) /\ loop \in Nat /\ n \in Nat /\ new \in Client
  BY <1>1 DEF ClientSound, ClientTypes, Client
<1>3. new.idle = {} /\ new.closed = FALSE /\ new.madeIn = loop /\ (closing # 0 => new.madeInClose)
  OBVIOUS
<1> HIDE DEF new
<1>4. /\ clients' \in Seq(Client) /\ client' = n + 1 /\ Len(clients') = n + 1 /\ clients'[client'] = new
      /\ \A k \in 1 .. n : clients'[k] = clients[k]
      /\ DOMAIN clients' = 1 .. n + 1 /\ DOMAIN clients = 1 .. n
  BY <1>1, <1>2 DEF ClientSound, ClientTypes
<1> HIDE DEF n
<1>5. ClientTypes'
  <2>1. /\ idOf' \in Seq(LoopIds) /\ loop' \in Nat /\ loop' \in {0, Len(idOf')}
        /\ clientLoopId' \in LoopIds \cup {NoId}
    BY <1>1, <1>2 DEF ClientSound, ClientTypes
  <2>2. clients' \in Seq(Client) /\ client' \in 0 .. Len(clients') /\ closing' \in 0 .. Len(clients')
    BY <1>1, <1>2, <1>4 DEF ClientSound, ClientTypes, n
  <2>3. \A k \in DOMAIN clients' :
          clients'[k].madeIn \in 1 .. Len(idOf') /\ clients'[k].idle \subseteq 1 .. Len(idOf')
    BY <1>1, <1>2, <1>3, <1>4 DEF ClientSound, ClientTypes
  <2>4. task' \in [Tasks -> [phase : {"idle", "asking"}, client : Nat, attempts : Nat]]
    BY <1>1, <1>2, <1>4 DEF ClientSound, ClientTypes
  <2>5. \A u \in Tasks : task'[u].client <= Len(clients') /\ task'[u].attempts < MaxAttempts
    BY <1>1, <1>2, <1>4, ClientAssumption DEF ClientSound, ClientTypes, n
  <2> QED BY <2>1, <2>2, <2>3, <2>4, <2>5 DEF ClientTypes
<1>6. OneClient'
  <2>1. clientLoopId' = idOf'[clients'[client'].madeIn]
    BY <1>1, <1>3, <1>4
  <2>2. closing' # 0 => clients'[client'].madeInClose
    BY <1>1, <1>3, <1>4
  <2>3. \A k \in 1 .. n :
          clients[k].closed \/ clients[k].madeInClose \/ clients[k].madeIn # loop
    <3> TAKE k \in 1 .. n
    <3>1. CASE k = client
      <4>1. client # 0
        BY <1>2, <3>1
      <4>2. clients[client].closed \/ clientLoopId # idOf[loop]
        BY <4>1 DEF ReusesClient
      <4>3. clientLoopId = idOf[clients[client].madeIn]
        BY <4>1 DEF ClientSound, OneClient
      <4> QED BY <3>1, <4>2, <4>3
    <3>2. CASE k # client
      BY <1>4, <3>2 DEF ClientSound, OneClient, OnlyClosingLosesClients
    <3> QED BY <3>1, <3>2
  <2>4. OnlyClosingLosesClients'
    BY <1>1, <1>2, <1>4, <2>3 DEF OnlyClosingLosesClients
  <2> QED BY <2>1, <2>2, <2>4 DEF OneClient
<1>7. OneLoop'
  <2>1. Alive' = {loop}
    BY <1>1, <1>2, <1>3, <1>4 DEF Alive
  <2> QED BY <1>3, <1>4, <2>1 DEF OneLoop
<1>8. OwnConnections'
  <2>1. \A u \in Tasks : task[u].phase = "asking" => task[u].client \in 1 .. n
    BY <1>2 DEF ClientSound, ClientTypes, OwnConnections, n
  <2>2. \A u \in Tasks : u # t => task'[u] = task[u]
    BY <1>1 DEF ClientSound, ClientTypes
  <2>3. task'[t].client = client' /\ task'[t].phase = "asking"
    BY <1>1 DEF ClientSound, ClientTypes
  <2>4. ASSUME NEW u \in Tasks, task'[u].phase = "asking"
        PROVE  /\ task'[u].client # 0 /\ clients'[task'[u].client].idle \subseteq {loop'}
               /\ task'[u].client = client' => clientLoopId' = idOf'[loop']
    <3>1. CASE u = t
      BY <1>1, <1>2, <1>3, <1>4, <2>3, <3>1
    <3>2. CASE u # t
      BY <1>1, <1>4, <2>1, <2>2, <2>4, <3>2 DEF ClientSound, OwnConnections
    <3> QED BY <3>1, <3>2
  <2> QED BY <1>1, <2>4 DEF ClientSound, OwnConnections
<1> QED BY <1>5, <1>6, <1>7, <1>8 DEF ClientSound

\* The client's connections stay those of the running loop.
LEMMA AnsweredSound == ASSUME ClientSound, NEW t \in Tasks, Answered(t) PROVE ClientSound'
<1> DEFINE k == task[t].client
<1>1. /\ k \in DOMAIN clients /\ ~clients[k].closed /\ loop # 0 /\ loop \in 1 .. Len(idOf)
      /\ clients[k].idle \subseteq {loop} /\ clients[k].idle \cup {loop} = {loop}
      /\ k = client => clientLoopId = idOf[loop]
  BY DEF ClientSound, ClientTypes, OwnConnections, Answered
<1>2. /\ clients' = [clients EXCEPT ![k].idle = @ \cup {loop}] /\ task' = [task EXCEPT ![t] = NoTask]
      /\ UNCHANGED <<loop, idOf, client, clientLoopId, closing>> /\ ~usedForeign'
  BY <1>1 DEF Answered, ClientSound, OwnConnections
<1> HIDE DEF k
<1>3. /\ DOMAIN clients' = DOMAIN clients /\ Len(clients') = Len(clients) /\ clients' \in Seq(Client)
      /\ \A j \in DOMAIN clients : j # k => clients'[j] = clients[j]
      /\ clients'[k].idle = {loop} /\ clients'[k].closed = clients[k].closed
      /\ clients'[k].madeIn = clients[k].madeIn /\ clients'[k].madeInClose = clients[k].madeInClose
  <2> DEFINE old == clients[k]
             new == [old EXCEPT !.idle = old.idle \cup {loop}]
  <2>1. old \in Client /\ loop \in Nat
    BY <1>1 DEF ClientSound, ClientTypes
  <2>2. /\ new \in Client /\ new.idle = {loop} /\ new.closed = old.closed
        /\ new.madeIn = old.madeIn /\ new.madeInClose = old.madeInClose
    BY <1>1, <2>1 DEF Client
  <2>3. clients' = [clients EXCEPT ![k] = new] /\ clients \in Seq(Client)
    BY <1>2 DEF ClientSound, ClientTypes
  <2> HIDE DEF new
  <2> QED BY <1>1, <2>2, <2>3
<1>4. ClientTypes'
  <2>1. task' \in [Tasks -> [phase : {"idle", "asking"}, client : Nat, attempts : Nat]]
    BY <1>2 DEF ClientSound, ClientTypes, NoTask
  <2>2. \A u \in Tasks : task'[u].client <= Len(clients') /\ task'[u].attempts < MaxAttempts
    BY <1>2, <1>3, ClientAssumption DEF ClientSound, ClientTypes, NoTask
  <2>3. \A j \in DOMAIN clients' :
          clients'[j].madeIn \in 1 .. Len(idOf') /\ clients'[j].idle \subseteq 1 .. Len(idOf')
    BY <1>1, <1>2, <1>3 DEF ClientSound, ClientTypes
  <2> QED BY <1>2, <1>3, <2>1, <2>2, <2>3 DEF ClientSound, ClientTypes
<1>5. OneClient'
  <2>1. OnlyClosingLosesClients'
    BY <1>1, <1>2, <1>3 DEF ClientSound, OneClient, OnlyClosingLosesClients
  <2>2. client # 0 => client \in DOMAIN clients
    BY DEF ClientSound, ClientTypes
  <2> QED BY <1>1, <1>2, <1>3, <2>1, <2>2 DEF ClientSound, OneClient
<1>6. OneLoop'
  <2>1. client # 0 => client \in DOMAIN clients
    BY DEF ClientSound, ClientTypes
  <2>2. Alive' \subseteq Alive
    BY <1>1, <1>2, <1>3, <2>1 DEF Alive
  <2> QED BY <1>1, <1>2, <1>3, <2>1, <2>2 DEF ClientSound, OneLoop
<1>7. OwnConnections'
  <2>1. \A u \in Tasks : task'[u].phase = "asking" => task'[u] = task[u]
    BY <1>2 DEF ClientSound, ClientTypes, NoTask
  <2>2. \A u \in Tasks : task[u].phase = "asking" => task[u].client \in DOMAIN clients
    BY DEF ClientSound, ClientTypes, OwnConnections
  <2> QED BY <1>1, <1>2, <1>3, <2>1, <2>2 DEF ClientSound, OwnConnections
<1> QED BY <1>4, <1>5, <1>6, <1>7 DEF ClientSound

\* Neither a failed attempt nor a closed client changes any client.
LEMMA FailedSound ==
  ASSUME ClientSound, NEW t \in Tasks, AttemptFails(t) \/ ClientIsClosed(t)
  PROVE  ClientSound'
<1>1. UNCHANGED <<loop, idOf, client, clientLoopId, clients, closing, usedForeign>>
  BY DEF AttemptFails, ClientIsClosed
<1>2. /\ task' \in [Tasks -> [phase : {"idle", "asking"}, client : Nat, attempts : Nat]]
      /\ \A u \in Tasks : /\ task'[u].attempts < MaxAttempts /\ task'[u].client <= Len(clients)
                          /\ task'[u].phase = "asking" =>
                               task[u].phase = "asking" /\ task'[u].client = task[u].client
  <2>1. CASE AttemptFails(t)
    <3> DEFINE again == [task[t] EXCEPT !.attempts = task[t].attempts + 1]
    <3>1. /\ task \in [Tasks -> [phase : {"idle", "asking"}, client : Nat, attempts : Nat]]
          /\ \A u \in Tasks : task[u].client <= Len(clients) /\ task[u].attempts < MaxAttempts
          /\ task[t].phase = "asking"
      BY <2>1 DEF ClientSound, ClientTypes, AttemptFails
    <3>2. CASE task[t].attempts + 1 < MaxAttempts
      <4>1. task' = [task EXCEPT ![t] = again]
        BY <2>1, <3>2 DEF AttemptFails
      <4>2. /\ again \in [phase : {"idle", "asking"}, client : Nat, attempts : Nat]
            /\ again.phase = "asking" /\ again.client = task[t].client /\ again.attempts < MaxAttempts
        BY <3>1, <3>2
      <4> HIDE DEF again
      <4> QED BY <3>1, <4>1, <4>2
    <3>3. CASE ~(task[t].attempts + 1 < MaxAttempts)
      <4>1. task' = [task EXCEPT ![t] = NoTask]
        BY <2>1, <3>3 DEF AttemptFails
      <4>2. /\ NoTask \in [phase : {"idle", "asking"}, client : Nat, attempts : Nat]
            /\ NoTask.phase = "idle" /\ NoTask.client = 0 /\ NoTask.attempts = 0
        BY DEF NoTask
      <4>3. Len(clients) \in Nat /\ MaxAttempts \in Nat \ {0}
        BY ClientAssumption DEF ClientSound, ClientTypes
      <4> QED BY <3>1, <4>1, <4>2, <4>3
    <3> QED BY <3>2, <3>3
  <2>2. CASE ClientIsClosed(t)
    BY <2>2, ClientAssumption DEF ClientSound, ClientTypes, ClientIsClosed, NoTask
  <2> QED BY <2>1, <2>2
<1>3. ClientTypes'
  BY <1>1, <1>2 DEF ClientSound, ClientTypes
<1>4. OneClient' /\ OneLoop'
  BY <1>1 DEF ClientSound, OneClient, OnlyClosingLosesClients, OneLoop, Alive
<1>5. loop = 0 => \A u \in Tasks : task'[u].phase = "idle"
  BY DEF ClientSound, OwnConnections, AttemptFails, ClientIsClosed
<1>6. OwnConnections'
  BY <1>1, <1>2, <1>5 DEF ClientSound, OwnConnections
<1> QED BY <1>3, <1>4, <1>6 DEF ClientSound

\* Closing drops connections and marks the client closed.
LEMMA CloseStartsSound == ASSUME ClientSound, CloseStarts PROVE ClientSound'
<1>1. /\ client \in DOMAIN clients /\ clients' \in Seq(Client) /\ DOMAIN clients' = DOMAIN clients
      /\ Len(clients') = Len(clients)
      /\ \A j \in DOMAIN clients : j # client => clients'[j] = clients[j]
      /\ clients'[client].closed /\ clients'[client].idle = {}
      /\ clients'[client].madeIn = clients[client].madeIn
  <2> DEFINE old == clients[client]
             new == [old EXCEPT !.closed = TRUE, !.idle = {}]
  <2>1. client \in DOMAIN clients /\ clients \in Seq(Client) /\ old \in Client
    BY DEF ClientSound, ClientTypes, CloseStarts
  <2>2. new \in Client /\ new.idle = {} /\ new.closed /\ new.madeIn = old.madeIn
    BY <2>1 DEF Client
  <2>3. clients' = [clients EXCEPT ![client] = new]
    BY <2>1 DEF CloseStarts
  <2> HIDE DEF new
  <2> QED BY <2>1, <2>2, <2>3
<1>2. closing' = client /\ UNCHANGED <<loop, idOf, client, clientLoopId, task, usedForeign>>
  BY DEF CloseStarts
<1>3. ClientTypes'
  <2>1. \A j \in DOMAIN clients' :
          clients'[j].madeIn \in 1 .. Len(idOf') /\ clients'[j].idle \subseteq 1 .. Len(idOf')
    BY <1>1, <1>2 DEF ClientSound, ClientTypes
  <2> QED BY <1>1, <1>2, <2>1 DEF ClientSound, ClientTypes
<1>4. OneClient'
  BY <1>1, <1>2 DEF ClientSound, OneClient, OnlyClosingLosesClients
<1>5. Alive' \subseteq Alive
  BY <1>1, <1>2 DEF Alive
<1>6. OneLoop'
  BY <1>1, <1>2, <1>5 DEF ClientSound, OneLoop
<1>7. \A u \in Tasks : task[u].phase = "asking" => task[u].client \in DOMAIN clients
  BY DEF ClientSound, ClientTypes, OwnConnections
<1>8. OwnConnections'
  BY <1>1, <1>2, <1>7 DEF ClientSound, OwnConnections
<1> QED BY <1>3, <1>4, <1>6, <1>8 DEF ClientSound

\* What _client holds when a close ends is closed, or was made in another loop,
\* or was made while the close waited.
LEMMA CloseEndsSound == ASSUME ClientSound, CloseEnds PROVE ClientSound'
<1>1. client' = 0 /\ closing' = 0 /\ clientLoopId' = NoId /\ UNCHANGED <<loop, idOf, clients, task, usedForeign>>
  BY DEF CloseEnds
<1>2. ClientTypes'
  BY <1>1 DEF ClientSound, ClientTypes
<1>3. OneClient'
  BY <1>1 DEF ClientSound, ClientTypes, OneClient, OnlyClosingLosesClients, CloseEnds
<1>4. OneLoop' /\ OwnConnections'
  BY <1>1 DEF ClientSound, OneLoop, OwnConnections, Alive
<1> QED BY <1>2, <1>3, <1>4 DEF ClientSound

LEMMA ClientSoundNext == ClientSound /\ [ClientNext]_clientVars => ClientSound'
<1> SUFFICES ASSUME ClientSound, [ClientNext]_clientVars PROVE ClientSound'
  OBVIOUS
<1>1. CASE StartLoop \/ EndLoop \/ CloseStarts \/ CloseEnds
  BY <1>1, StartLoopSound, EndLoopSound, CloseStartsSound, CloseEndsSound
<1>2. ASSUME NEW t \in Tasks, Take(t) \/ Answered(t) \/ AttemptFails(t) \/ ClientIsClosed(t)
      PROVE  ClientSound'
  BY <1>2, TakeOldSound, TakeNewSound, AnsweredSound, FailedSound
<1>3. CASE UNCHANGED clientVars
  BY <1>3 DEF clientVars, ClientSound, ClientTypes, OneClient, OnlyClosingLosesClients, OneLoop, Alive,
     OwnConnections
<1> QED BY <1>1, <1>2, <1>3 DEF ClientNext

LEMMA ClientSoundAlways == ClientSpec => []ClientSound
BY ClientSoundInit, ClientSoundNext, PTL DEF ClientSpec

\* Every variable of the client's life keeps its type.
THEOREM ClientTypeCorrect == ClientSpec => []ClientTypeOK
<1>1. ClientSound => ClientTypeOK
  BY DEF ClientSound, ClientTypes, ClientTypeOK
<1> QED BY <1>1, ClientSoundAlways, PTL

\* However ids are used again, no request of _get_client's client goes over a
\* connection of another loop.
THEOREM NoForeignConnectionAlways == ClientSpec => []NoForeignConnection
<1>1. ClientSound => NoForeignConnection
  BY DEF ClientSound, OwnConnections, NoForeignConnection
<1> QED BY <1>1, ClientSoundAlways, PTL

\* Only close_client loses open clients, and only those made while it waited.
THEOREM OnlyClosingLosesClientsAlways == ClientSpec => []OnlyClosingLosesClients
<1>1. ClientSound => OnlyClosingLosesClients
  BY DEF ClientSound, OneClient
<1> QED BY <1>1, ClientSoundAlways, PTL
=============================================================================
