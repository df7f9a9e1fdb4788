----------------------------- MODULE CachedRead -----------------------------
(***************************************************************************)
(* What findata.http_client promises the sources that call get_json and    *)
(* get_bytes: a read answers with what the upstream held for the key that  *)
(* was asked, received less than MaxTtl ago, and the answers for one key   *)
(* never go back in time.  HttpCache is shown to implement it.             *)
(***************************************************************************)
EXTENDS Integers

CONSTANTS
  Callers,   \* tasks of the event loop that read through the cache
  Keys,      \* what can be asked: one URL with its parameters
  NoKey,     \* "asks nothing"
  MaxTtl     \* the longest time an answer may be reused

VARIABLES
  now,       \* the wall clock
  asked,     \* asked[c]: the key c waits for, or NoKey
  answer     \* answer[c]: the last answer c was given, or NoAnswer

readVars == <<now, asked, answer>>

\* No answer yet: a record, so that its fields can be compared with an answer's.
NoAnswer == [key |-> NoKey, asOf |-> 0, at |-> 0]

\* What an answer is about: the key, when the upstream produced the content
\* (asOf) and when it was received (at).
Answers == [key : Keys, asOf : 0..now, at : 0..now]

Init ==
  /\ now = 0
  /\ asked = [c \in Callers |-> NoKey]
  /\ answer = [c \in Callers |-> NoAnswer]

Tick ==
  /\ now' = now + 1
  /\ UNCHANGED <<asked, answer>>

Ask(c, k) ==
  /\ asked[c] = NoKey
  /\ asked' = [asked EXCEPT ![c] = k]
  /\ UNCHANGED <<now, answer>>

\* The answer is for the key, recent, and no older than any answer given for it.
Reply(c, a) ==
  /\ asked[c] \in {NoKey, a.key}
  /\ a.asOf <= a.at
  /\ a.at = now \/ now - a.at < MaxTtl
  /\ \A d \in Callers : answer[d].key = a.key => answer[d].asOf <= a.asOf
  /\ asked' = [asked EXCEPT ![c] = NoKey]
  /\ answer' = [answer EXCEPT ![c] = a]
  /\ UNCHANGED now

\* The read raises, or its task is cancelled.
GiveUp(c) ==
  /\ asked[c] # NoKey
  /\ asked' = [asked EXCEPT ![c] = NoKey]
  /\ UNCHANGED <<now, answer>>

Next ==
  \/ Tick
  \/ \E c \in Callers :
       \/ \E k \in Keys : Ask(c, k)
       \/ \E a \in Answers : Reply(c, a)
       \/ GiveUp(c)

Spec == Init /\ [][Next]_readVars
=============================================================================
