----------------------------- MODULE CvmListing -----------------------------
(***************************************************************************)
(* list_files of findata.sources.cvm._directory: one TTLCache holds one    *)
(* dictionary with the listings of all CVM directories.  A task adds its   *)
(* listing to the dictionary it saw before it fetched, and sets that       *)
(* dictionary again.  Dictionaries are objects: tasks that saw the same    *)
(* one share it.                                                           *)
(***************************************************************************)
EXTENDS Integers

CONSTANTS
  Callers,   \* tasks that call list_files
  Keys,      \* CVM directories
  Dicts,     \* dictionary objects: one more than there are tasks
  None,      \* no directory, no dictionary
  Ttl,       \* the TTLCache's ttl, 6 hours
  MaxTime    \* bound: the clock stops here

VARIABLES
  now,       \* time.time()
  content,   \* content[d][k]: when the listing of k in d was fetched, or Absent
  data,      \* _listing_cache._data
  loadedAt,  \* _listing_cache._loaded_at
  pc,        \* the directory each task is fetching, or None
  seen,      \* cached_dict of each fetching task, or None
  out        \* the listing served last: when it was fetched, when it was served

vars == <<now, content, data, loadedAt, pc, seen, out>>

Absent == -1
Empty  == [k \in Keys |-> Absent]

\* What get answers: a dictionary or None.
Get == IF data # None /\ now - loadedAt < Ttl THEN data ELSE None

\* The current dictionary, if any, lists k.
Lists(k) == Get # None /\ content[Get][k] # Absent

InUse(d) == d = data \/ \E c \in Callers : seen[c] = d

Init ==
  /\ now = 0
  /\ content = [d \in Dicts |-> Empty]
  /\ data = None
  /\ loadedAt = 0
  /\ pc = [c \in Callers |-> None]
  /\ seen = [c \in Callers |-> None]
  /\ out = [fetched |-> 0, served |-> 0]

\* The directory is in the dictionary.
ListHit(c, k) ==
  /\ pc[c] = None
  /\ Lists(k)
  /\ out' = [fetched |-> content[Get][k], served |-> now]
  /\ UNCHANGED <<now, content, data, loadedAt, pc, seen>>

\* It is not, or there is no dictionary, and a new one is made: the fetch starts.
ListMiss(c, k) ==
  /\ pc[c] = None
  /\ ~Lists(k)
  /\ pc' = [pc EXCEPT ![c] = k]
  /\ \E d \in Dicts :
       /\ IF Get = None THEN ~InUse(d) ELSE d = Get
       /\ content' = IF Get = None THEN [content EXCEPT ![d] = Empty] ELSE content
       /\ seen' = [seen EXCEPT ![c] = d]
  /\ UNCHANGED <<now, data, loadedAt, out>>

\* The fetch ends: the listing goes into the dictionary seen before it, and that
\* dictionary becomes the current one, as of now.
Finish(c) ==
  /\ pc[c] # None
  /\ content' = [content EXCEPT ![seen[c]][pc[c]] = now]
  /\ data' = seen[c]
  /\ loadedAt' = now
  /\ out' = [fetched |-> now, served |-> now]
  /\ pc' = [pc EXCEPT ![c] = None]
  /\ seen' = [seen EXCEPT ![c] = None]
  /\ UNCHANGED now

\* The fetch raises, or the task is cancelled.
FetchFails(c) ==
  /\ pc[c] # None
  /\ pc' = [pc EXCEPT ![c] = None]
  /\ seen' = [seen EXCEPT ![c] = None]
  /\ UNCHANGED <<now, content, data, loadedAt, out>>

Tick ==
  /\ now < MaxTime
  /\ now' = now + 1
  /\ UNCHANGED <<content, data, loadedAt, pc, seen, out>>

Next ==
  \/ \E c \in Callers :
       \/ \E k \in Keys : ListHit(c, k) \/ ListMiss(c, k)
       \/ Finish(c)
       \/ FetchFails(c)
  \/ Tick

Spec == Init /\ [][Next]_vars
-----------------------------------------------------------------------------
(* Properties.                                                             *)

\* "Cache HTML directory listings for 6h": a listing served was fetched less than
\* six hours before, whichever directories are listed in between.
ListingsExpire ==
  out.served = out.fetched \/ out.served - out.fetched < Ttl
=============================================================================
