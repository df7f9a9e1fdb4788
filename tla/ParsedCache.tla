---------------------------- MODULE ParsedCache -----------------------------
(***************************************************************************)
(* TTLCache.get_or_load over the HTTP read path: the parsed bonds, fund    *)
(* catalogue, fund register, companies and IMA snapshot that findata       *)
(* sources keep.  The loader makes one read, of one URL, through           *)
(* findata.http_client, which enters as its abstract specification         *)
(* CachedRead.  TTLCache has no lock, so loads overlap.                    *)
(***************************************************************************)
EXTENDS Integers

CONSTANTS
  Callers,   \* tasks that call get_or_load
  Url,       \* what the loader reads
  NoKey,     \* reads nothing
  HttpTtl,   \* the cache_ttl the loader gives the HTTP cache
  Ttl,       \* the TTLCache's own ttl
  MaxTime    \* bound: the clock stops here

ASSUME UrlAssumption  == Url # NoKey
ASSUME TtlsAssumption == HttpTtl \in Nat /\ Ttl \in Nat /\ MaxTime \in Nat

VARIABLES
  now,       \* time.time()
  data,      \* _data: what was parsed, named by the answer it was parsed from
  loadedAt,  \* _loaded_at
  asked,     \* asked[c]: the read c's loader is in
  fetched,   \* fetched[c]: the last answer of the HTTP layer to c
  out        \* out[c]: what c's last get_or_load returned

vars == <<now, data, loadedAt, asked, fetched, out>>

\* The HTTP read path below.
Http == INSTANCE CachedRead WITH Keys <- {Url}, MaxTtl <- HttpTtl, answer <- fetched

NoData == Http!NoAnswer

\* get answers the value, and not None.
Fresh == data # NoData /\ now - loadedAt < Ttl

\* MUTANT of Set: the end of the value's life is noted, not its beginning.
Set_Expiry(a) ==
  /\ data' = a
  /\ loadedAt' = now + Ttl

Set(a) ==
  /\ data' = a
  /\ loadedAt' = now

Init ==
  /\ Http!Init
  /\ data = NoData
  /\ loadedAt = 0
  /\ out = [c \in Callers |-> NoData]

\* MUTANT of GetHit: a hit starts the value's life anew.
GetHit_Touches(c) ==
  /\ asked[c] = NoKey
  /\ Fresh
  /\ out' = [out EXCEPT ![c] = data]
  /\ loadedAt' = now
  /\ UNCHANGED <<now, data, asked, fetched>>

GetHit(c) ==
  /\ asked[c] = NoKey
  /\ Fresh
  /\ out' = [out EXCEPT ![c] = data]
  /\ UNCHANGED <<now, data, loadedAt, asked, fetched>>

\* The loader starts a read that has to wait.
GetLoad(c) ==
  /\ asked[c] = NoKey
  /\ ~Fresh
  /\ Http!Ask(c, Url)
  /\ UNCHANGED <<data, loadedAt, out>>

\* The loader's read is answered, at once or after a wait.  Parsing and storing
\* follow without an await.
Load(c, a) ==
  /\ asked[c] = NoKey => ~Fresh
  /\ Http!Reply(c, a)
  /\ Set(a)
  /\ out' = [out EXCEPT ![c] = a]

\* The read or the parser raises, or the task is cancelled.
LoadFails(c) ==
  /\ Http!GiveUp(c)
  /\ UNCHANGED <<data, loadedAt, out>>

Invalidate ==
  /\ data' = NoData
  /\ loadedAt' = 0
  /\ UNCHANGED <<now, asked, fetched, out>>

Tick ==
  /\ now < MaxTime
  /\ Http!Tick
  /\ UNCHANGED <<data, loadedAt, out>>

Next ==
  \/ \E c \in Callers :
       \/ GetHit(c)
       \/ GetLoad(c)
       \/ \E a \in Http!Answers : Load(c, a)
       \/ LoadFails(c)
  \/ Invalidate
  \/ Tick

Spec == Init /\ [][Next]_vars
-----------------------------------------------------------------------------
(* Properties.                                                             *)

Answer == [key : {Url}, asOf : Nat, at : Nat]

\* The types of the variables; and of the times: a value is loaded after its
\* content was received, and never in the future.
TypeOK ==
  /\ now \in Nat
  /\ data \in Answer \cup {NoData}
  /\ loadedAt \in Nat
  /\ data.asOf <= data.at /\ data.at <= loadedAt /\ loadedAt <= now
  /\ asked \in [Callers -> {Url, NoKey}]
  /\ fetched \in [Callers -> Answer \cup {NoData}]
  /\ out \in [Callers -> Answer \cup {NoData}]

\* Two caches on top of each other are one cache: what get_or_load returns is
\* never older than the two ttls together, and never older than what any task
\* was given before, however loads overlap, fail, or follow an invalidate.
Stacked ==
  INSTANCE CachedRead WITH Keys <- {Url}, MaxTtl <- HttpTtl + Ttl, answer <- out

StackedReadsAreMonotonic == Stacked!Spec
-----------------------------------------------------------------------------
(* The inductive invariant behind them.                                    *)

\* The value held is at most HttpTtl old when it is loaded.
LoadedFresh == data = NoData \/ data.at = loadedAt \/ loadedAt - data.at < HttpTtl

\* Nothing served is newer than what is held, and nothing served or held is newer
\* than the newest answer of the HTTP layer.
NewestLast ==
  /\ \A c \in Callers : data = NoData \/ out[c].asOf <= data.asOf
  /\ \A c \in Callers : \E d \in Callers : out[c].asOf <= fetched[d].asOf
  /\ data = NoData \/ \E d \in Callers : data.asOf <= fetched[d].asOf
=============================================================================
