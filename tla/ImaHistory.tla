----------------------------- MODULE ImaHistory -----------------------------
(* get_ima_history: one POST to ANBIMA for every weekday of a range, a few at *)
(* a time, each day's answer kept for 24 hours whatever it was. Calls overlap *)
(* and share the days' cache; each has a semaphore of its own. What a day's   *)
(* rows say is left out: a day has data or has none, or its page could not be *)
(* read, which the code takes for none.                                       *)
EXTENDS Integers, FiniteSets, FiniteSetsExt

CONSTANTS ImaCallers,     \* tasks that ask for one history each
          Days,           \* the weekdays, as consecutive numbers
          Slots,          \* _IMA_HISTORY_CONCURRENCY
          DayTtl,         \* _IMA_HISTORY_CACHE_TTL
          MaxHours        \* bound on the time

ASSUME ImaAssumption ==
  /\ Days \subseteq Nat /\ IsFiniteSet(Days)
  /\ Slots \in Nat \ {0} /\ DayTtl \in Nat \ {0} /\ MaxHours \in Nat

VARIABLES hour,           \* time.time()
          publishedAt,    \* when each day was published (Never: not yet, or a holiday)
          dayCache,       \* _ima_history_cache: for each day the answer and its time
          history,        \* for each task its call
          unreadAt        \* history: when the last page of each day came that was not read

imaVars == <<hour, publishedAt, dayCache, history, unreadAt>>

Never == MaxHours + 1
NoDay == [loaded |-> 0, rows |-> "not cached"]
\* "waiting" for the semaphore; "posting" since the hour of sentAt; then what
\* the call has of the day: "data", "none", "unread" or "failed".
NoCall == [phase |-> "idle", since |-> 0, days |-> [d \in {} |-> "waiting"], sentAt |-> [d \in {} |-> 0]]
Cancelled == [NoCall EXCEPT !.phase = "raised"]
InState(c, s) == {d \in DOMAIN history[c].days : history[c].days[d] = s}

ImaInit ==
  /\ hour = 0 /\ publishedAt = [d \in Days |-> Never]
  /\ dayCache = [d \in Days |-> NoDay]
  /\ history = [c \in ImaCallers |-> NoCall]
  /\ unreadAt = [d \in Days |-> -DayTtl]    \* never: too long ago for any call

Published(d, h) == publishedAt[d] <= h
FreshDay(d) == dayCache[d].rows # "not cached" /\ hour - dayCache[d].loaded < DayTtl

\* The call h with a new state for one of its days.
DayBecomes(h, d, state, at) ==
  [phase |-> h.phase, since |-> h.since,
   days |-> [h.days EXCEPT ![d] = state], sentAt |-> [h.sentAt EXCEPT ![d] = at]]

\* ANBIMA publishes a day, once and for all.
Publish ==
  /\ \E d \in Days :
       publishedAt[d] = Never /\ publishedAt' = [publishedAt EXCEPT ![d] = hour]
  /\ UNCHANGED <<hour, unreadAt, dayCache, history>>

\* end < start asks for no day at all.
AskHistory(c) ==
  /\ history[c].phase = "idle"
  /\ \E start, end \in Days :
       LET days == {d \in Days : start <= d /\ d <= end} IN
       history' = [history EXCEPT ![c] =
         [phase |-> "running", since |-> hour, days |-> [d \in days |-> "waiting"],
          sentAt |-> [d \in days |-> 0]]]
  /\ UNCHANGED <<hour, publishedAt, unreadAt, dayCache>>

\* The semaphore is given in the order of the days. A day in the cache takes it
\* for a moment only; an entry that is too old is deleted.
Admitted(c, d) ==
  /\ d \in InState(c, "waiting")
  /\ d = Min(InState(c, "waiting"))
  /\ Cardinality(InState(c, "posting")) < Slots

EnterHit(c, d) ==
  /\ Admitted(c, d) /\ FreshDay(d)
  /\ history' = [history EXCEPT ![c] = DayBecomes(history[c], d, dayCache[d].rows, 0)]
  /\ UNCHANGED <<hour, publishedAt, unreadAt, dayCache>>

EnterMiss(c, d) ==
  /\ Admitted(c, d) /\ ~FreshDay(d)
  /\ dayCache' = [dayCache EXCEPT ![d] = NoDay]
  /\ history' = [history EXCEPT ![c] = DayBecomes(history[c], d, "posting", hour)]
  /\ UNCHANGED <<hour, publishedAt, unreadAt>>

\* What ANBIMA says was true at some moment since the POST.
DayComes(c, d) ==
  /\ d \in InState(c, "posting")
  /\ \E h \in history[c].sentAt[d] .. hour :
       LET rows == IF Published(d, h) THEN "data" ELSE "none" IN
       /\ dayCache' = [dayCache EXCEPT ![d] = [loaded |-> hour, rows |-> rows]]
       /\ history' = [history EXCEPT ![c] = DayBecomes(history[c], d, rows, 0)]
  /\ UNCHANGED <<hour, publishedAt, unreadAt>>

\* An answer with status 200 but without the header row, whatever it is: no line
\* of it is read as data, and the empty list is kept for the day like any other.
HeaderMissing(c, d) ==
  /\ d \in InState(c, "posting")
  /\ dayCache' = [dayCache EXCEPT ![d] = [loaded |-> hour, rows |-> "unread"]]
  /\ history' = [history EXCEPT ![c] = DayBecomes(history[c], d, "unread", 0)]
  /\ unreadAt' = [unreadAt EXCEPT ![d] = hour]
  /\ UNCHANGED <<hour, publishedAt>>

PostFails_Cached(c, d) ==               \* (mutant) the failed day is kept as a day without data
  /\ d \in InState(c, "posting")
  /\ dayCache' = [dayCache EXCEPT ![d] = [loaded |-> hour, rows |-> "none"]]
  /\ history' = [history EXCEPT ![c] = DayBecomes(history[c], d, "none", 0)]
  /\ UNCHANGED <<hour, publishedAt, unreadAt>>

\* A failure of the POST is logged and the day is answered without rows.
PostFails(c, d) ==
  /\ d \in InState(c, "posting")
  /\ history' = [history EXCEPT ![c] = DayBecomes(history[c], d, "failed", 0)]
  /\ UNCHANGED <<hour, publishedAt, unreadAt, dayCache>>

AnswerHistory(c) ==
  /\ history[c].phase = "running" /\ InState(c, "waiting") \cup InState(c, "posting") = {}
  /\ history' = [history EXCEPT ![c].phase = "answered"]
  /\ UNCHANGED <<hour, publishedAt, unreadAt, dayCache>>

\* A row whose date cannot be read: the exception ends the call, the day is not
\* kept. The call's other days may still be asked for and kept until its client
\* is closed; with the client closed they fail.
RowIsGarbage(c, d) ==
  LET rest == (InState(c, "waiting") \cup InState(c, "posting")) \ {d} IN
  /\ history[c].phase = "running" /\ d \in InState(c, "posting")
  /\ history' = [history EXCEPT ![c] =
       [phase |-> "raised", since |-> history[c].since,
        days |-> [e \in rest |-> history[c].days[e]], sentAt |-> [e \in rest |-> history[c].sentAt[e]]]]
  /\ UNCHANGED <<hour, publishedAt, unreadAt, dayCache>>

\* A cancelled call cancels all its days.
CancelHistory(c) ==
  /\ history[c].phase = "running"
  /\ history' = [history EXCEPT ![c] = Cancelled]
  /\ UNCHANGED <<hour, publishedAt, unreadAt, dayCache>>

\* A POST is given up after 30 seconds: none of them lasts longer than an hour.
Hour ==
  /\ hour < MaxHours
  /\ \A c \in ImaCallers : \A d \in InState(c, "posting") : history[c].sentAt[d] = hour
  /\ hour' = hour + 1
  /\ UNCHANGED <<publishedAt, unreadAt, dayCache, history>>

ImaNext ==
  \/ Publish \/ Hour
  \/ \E c \in ImaCallers :
       \/ AskHistory(c) \/ AnswerHistory(c) \/ CancelHistory(c)
       \/ \E d \in Days :
            \/ EnterHit(c, d) \/ EnterMiss(c, d) \/ DayComes(c, d) \/ HeaderMissing(c, d)
            \/ PostFails(c, d) \/ RowIsGarbage(c, d)

ImaSpec == ImaInit /\ [][ImaNext]_imaVars

-----------------------------------------------------------------------------
ImaTypeOK ==
  /\ hour \in 0 .. MaxHours
  /\ publishedAt \in [Days -> 0 .. Never]
  /\ \A d \in Days : dayCache[d].rows \in {"not cached", "data", "none", "unread"} /\ dayCache[d].loaded <= hour
  /\ \A c \in ImaCallers : history[c].phase \in {"idle", "running", "answered", "raised"}

\* A history never has a day that was not published, and a day it says nothing
\* of, although its POST did not fail, was published at most one ttl before the
\* call began: an empty answer is kept like any other, but a failure never is.
\* The exception is a page that came with status 200 but could not be read, which
\* hides a day however long it has been published; it came at most one ttl before
\* the call began, too.
HiddenAtMostADay ==
  \A c \in ImaCallers : \A d \in DOMAIN history[c].days :
    /\ history[c].days[d] = "data" => Published(d, hour)
    /\ history[c].days[d] = "none" => ~Published(d, history[c].since - DayTtl)
    /\ history[c].days[d] = "unread" => unreadAt[d] > history[c].since - DayTtl
=============================================================================
