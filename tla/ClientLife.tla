----------------------------- MODULE ClientLife -----------------------------
(* The shared httpx client of http_client.py over the event loops of one      *)
(* process: each command line question runs a loop of its own, a server one   *)
(* loop until its lifespan ends with close_client. A loop is told apart only  *)
(* by its id(), which is used again once the loop's object is gone; an idle   *)
(* connection of a client keeps the loop it was opened in alive.              *)
EXTENDS Integers, Sequences, FiniteSets

CONSTANTS Tasks,          \* tasks of one loop that make requests
          LoopIds,        \* the values id() may have
          MaxLoops, MaxClients, MaxAttempts   \* bounds; MaxAttempts is "retries"

ASSUME ClientAssumption ==
  /\ MaxLoops \in Nat \ {0} /\ MaxClients \in Nat \ {0} /\ MaxAttempts \in Nat \ {0}
  /\ Cardinality(LoopIds) > 1

VARIABLES loop,           \* the number of the running loop, 0 when none runs
          idOf,           \* id() of every loop started so far
          client,         \* _client: the number of a client, 0 for None
          clientLoopId,   \* _client_loop_id
          clients,        \* every client made: is_closed, the loop it was made in, whether a
                          \* close was under way then, the loops of its idle connections
          task,           \* for each task: the client it took and the attempts made
          closing,        \* the client that close_client awaits, 0 for none
          usedForeign     \* a request went over a connection of another loop

clientVars == <<loop, idOf, client, clientLoopId, clients, task, closing, usedForeign>>

NoTask == [phase |-> "idle", client |-> 0, attempts |-> 0]
NoId == "no id"

ClientInit ==
  /\ loop = 0 /\ idOf = << >> /\ client = 0 /\ clientLoopId = NoId /\ clients = << >>
  /\ task = [t \in Tasks |-> NoTask] /\ closing = 0 /\ usedForeign = FALSE

\* The loops that still exist: the running one, and those the idle connections
\* of the client in the module's variable lead to.
Alive == ({loop} \ {0}) \cup (IF client = 0 THEN {} ELSE clients[client].idle)

StartLoop ==
  /\ loop = 0 /\ Len(idOf) < MaxLoops
  /\ \E id \in LoopIds \ {idOf[l] : l \in Alive} : idOf' = Append(idOf, id)
  /\ loop' = Len(idOf')
  /\ UNCHANGED <<client, clientLoopId, clients, task, closing, usedForeign>>

\* asyncio.run cancels what is left of the loop's tasks, close_client too.
EndLoop ==
  /\ loop # 0
  /\ loop' = 0 /\ task' = [t \in Tasks |-> NoTask] /\ closing' = 0
  /\ UNCHANGED <<idOf, client, clientLoopId, clients, usedForeign>>

ReusesClient_AnyLoop == client # 0 /\ ~clients[client].closed   \* (mutant) the loop is not compared
ReusesClient_Never == FALSE             \* (mutant) a client for every request
ReusesClient == client # 0 /\ ~clients[client].closed /\ clientLoopId = idOf[loop]

\* _get_client, once for all attempts of a request.
Take(t) ==
  /\ loop # 0 /\ task[t].phase = "idle"
  /\ IF ReusesClient THEN UNCHANGED <<client, clientLoopId, clients>>
     ELSE /\ Len(clients) < MaxClients
          /\ clients' = Append(clients, [closed |-> FALSE, madeIn |-> loop,
                                         madeInClose |-> closing # 0, idle |-> {}])
          /\ client' = Len(clients') /\ clientLoopId' = idOf[loop]
  /\ task' = [task EXCEPT ![t] = [phase |-> "asking", client |-> client', attempts |-> 0]]
  /\ UNCHANGED <<loop, idOf, closing, usedForeign>>

\* An attempt goes over an idle connection of the client or a new one, which is
\* idle when the answer is read.
Answered(t) ==
  LET k == task[t].client IN
  /\ task[t].phase = "asking" /\ ~clients[k].closed
  /\ \E over \in clients[k].idle \cup {loop} :
       usedForeign' = (usedForeign \/ over # loop)
  /\ clients' = [clients EXCEPT ![k].idle = @ \cup {loop}]
  /\ task' = [task EXCEPT ![t] = NoTask]
  /\ UNCHANGED <<loop, idOf, client, clientLoopId, closing>>

\* A transport error or a 5xx status: the task sleeps and tries again with the
\* client it took.
AttemptFails(t) ==
  /\ task[t].phase = "asking" /\ ~clients[task[t].client].closed
  /\ IF task[t].attempts + 1 < MaxAttempts
     THEN task' = [task EXCEPT ![t].attempts = @ + 1]
     ELSE task' = [task EXCEPT ![t] = NoTask]
  /\ UNCHANGED <<loop, idOf, client, clientLoopId, clients, closing, usedForeign>>

\* A closed client raises RuntimeError, which is not retried.
ClientIsClosed(t) ==
  /\ task[t].phase = "asking" /\ clients[task[t].client].closed
  /\ task' = [task EXCEPT ![t] = NoTask]
  /\ UNCHANGED <<loop, idOf, client, clientLoopId, clients, closing, usedForeign>>

\* aclose marks the client closed at once and then waits for its connections.
CloseStarts ==
  /\ loop # 0 /\ closing = 0 /\ client # 0 /\ ~clients[client].closed
  /\ clients' = [clients EXCEPT ![client].closed = TRUE, ![client].idle = {}]
  /\ closing' = client
  /\ UNCHANGED <<loop, idOf, client, clientLoopId, task, usedForeign>>

\* The variable becomes None whichever client it holds by now.
CloseEnds ==
  /\ closing # 0
  /\ closing' = 0 /\ client' = 0 /\ clientLoopId' = NoId
  /\ UNCHANGED <<loop, idOf, clients, task, usedForeign>>

ClientNext ==
  \/ StartLoop \/ EndLoop \/ CloseStarts \/ CloseEnds
  \/ \E t \in Tasks : Take(t) \/ Answered(t) \/ AttemptFails(t) \/ ClientIsClosed(t)

ClientSpec == ClientInit /\ [][ClientNext]_clientVars

-----------------------------------------------------------------------------
ClientTypeOK ==
  /\ loop \in {0, Len(idOf)} /\ \A l \in DOMAIN idOf : idOf[l] \in LoopIds
  /\ client \in 0 .. Len(clients) /\ closing \in 0 .. Len(clients)
  /\ clientLoopId \in LoopIds \cup {NoId}
  /\ \A k \in DOMAIN clients : clients[k].madeIn \in DOMAIN idOf /\ clients[k].idle \subseteq DOMAIN idOf
  /\ \A t \in Tasks : task[t].client \in 0 .. Len(clients) /\ task[t].attempts < MaxAttempts

\* No request goes over a connection of another loop, although a new loop may
\* have the id of an old one: a client with such a connection keeps the old
\* loop's id from being used again.
NoForeignConnection == ~usedForeign

\* A client that is neither closed nor in _client was made in an earlier loop,
\* or while close_client waited for another one: in one loop there is one pool,
\* and close_client loses only what was made behind its back.
OnlyClosingLosesClients ==
  \A k \in DOMAIN clients :
    clients[k].closed \/ client = k \/ clients[k].madeInClose \/ clients[k].madeIn # loop
=============================================================================
