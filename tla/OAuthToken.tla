----------------------------- MODULE OAuthToken -----------------------------
(***************************************************************************)
(* OAuth2ClientCredentials of findata.auth.oauth2: one cached token, one   *)
(* lock, and the tasks that call get_token while tokens expire, requests   *)
(* fail, tasks are cancelled and reset() drops the token.  The token       *)
(* endpoint counts a token's life from the moment it issues it, the client *)
(* from the moment it receives it.  A life may be of any length, none and  *)
(* negative ones included, and the endpoint need not say how long it is.   *)
(***************************************************************************)
EXTENDS Integers

CONSTANTS
  Callers,     \* tasks that call get_token
  Lifetimes,   \* how long the endpoint's tokens live
  Default,     \* the life assumed when the answer has no expires_in
  MaxLifetime, \* an upper bound of Lifetimes and Default
  Margin,      \* safety_margin of is_expired
  Latency,     \* the longest time a token is on its way to the client
  Grace,       \* the longest time from get_token's return to the token's use
  MaxTime,     \* bound: the clock stops here
  MaxResets    \* bound: how often reset is called

\* int(expires_in) is any integer.
ASSUME LifetimesAssumption ==
  /\ Lifetimes \subseteq Int /\ Default \in Int /\ MaxLifetime \in Nat
  /\ \A l \in Lifetimes \cup {Default} : l <= MaxLifetime
\* The safety margin covers a token's way to the client and on to a server.
ASSUME MarginAssumption ==
  /\ Margin \in Nat /\ Latency \in Nat /\ Grace \in Nat
  /\ Latency + Grace <= Margin
ASSUME BoundsAssumption == MaxTime \in Nat /\ MaxResets \in Nat

VARIABLES
  now,      \* time.time()
  token,    \* _token
  resets,   \* calls of reset so far
  pc,       \* where each task is
  ahead,    \* ahead[c]: the tasks that hold _lock or wait for it before c
  since,    \* since[c]: resets when c's running call started, 0 without one
  reply,    \* the token on its way to c
  out       \* the token the latest call to succeed returned, and when

vars == <<now, token, resets, pc, ahead, since, reply, out>>

\* An answer of the endpoint: when the token was issued, how long it lives, how
\* long the client takes it to live, and the number of resets before it. A token
\* has, moreover, the time at which the client believes it to end; fresh is said
\* of one that get_token returns to the call that asked for it.
NoReply == [issued |-> 0, life |-> 0, ttl |-> 0, era |-> 0]
NoToken == [issued |-> 0, life |-> 0, ttl |-> 0, era |-> 0, expires |-> 0]
NothingOut ==
  [issued |-> 0, life |-> Grace + 1, ttl |-> 0, era |-> 0, at |-> 0, since |-> 0, fresh |-> FALSE]

States == {"idle", "queued", "sent", "replied"}
-----------------------------------------------------------------------------
\* MUTANT of IsExpired: the safety margin is forgotten.
IsExpired_NoMargin(t) == now >= t.expires

\* is_expired: less than the margin is left; expires = 0 stands for no token.
IsExpired(t) == now + Margin >= t.expires

InLock(c) == pc[c] # "idle"

\* A free lock is taken without an await; a held one is queued for.
Line(c) == {d \in Callers : d # c /\ InLock(d)}

\* MUTANT of Leave: the release wakes every waiter instead of the first.
Leave_WakesAll(c) ==
  /\ pc' = [pc EXCEPT ![c] = "idle"]
  /\ since' = [since EXCEPT ![c] = 0]
  /\ reply' = [reply EXCEPT ![c] = NoReply]
  /\ ahead' = [d \in Callers |-> {}]

\* MUTANT of Leave: an exception leaves the lock locked.
Leave_KeepsLock(c) ==
  /\ pc' = [pc EXCEPT ![c] = "idle"]
  /\ since' = [since EXCEPT ![c] = 0]
  /\ reply' = [reply EXCEPT ![c] = NoReply]
  /\ ahead' = [ahead EXCEPT ![c] = {}]

\* c leaves the lock, or the queue for it, and its call is over.
Leave(c) ==
  /\ pc' = [pc EXCEPT ![c] = "idle"]
  /\ since' = [since EXCEPT ![c] = 0]
  /\ reply' = [reply EXCEPT ![c] = NoReply]
  /\ ahead' = [d \in Callers |-> IF d = c THEN {} ELSE ahead[d] \ {c}]

\* What get_token returns to c.
Handed(t, s, fresh) ==
  [issued |-> t.issued, life |-> t.life, ttl |-> t.ttl, era |-> t.era,
   at |-> now, since |-> s, fresh |-> fresh]

Init ==
  /\ now = 0
  /\ token = NoToken
  /\ resets = 0
  /\ pc = [c \in Callers |-> "idle"]
  /\ ahead = [c \in Callers |-> {}]
  /\ since = [c \in Callers |-> 0]
  /\ reply = [c \in Callers |-> NoReply]
  /\ out = NothingOut

\* The lock is free and the token still good.
GetHit(c) ==
  /\ pc[c] = "idle"
  /\ Line(c) = {}
  /\ ~IsExpired(token)
  /\ out' = Handed(token, resets, FALSE)
  /\ UNCHANGED <<now, token, resets, pc, ahead, since, reply>>

\* The lock is free and there is no good token: the caller asks for one.
GetMiss(c) ==
  /\ pc[c] = "idle"
  /\ Line(c) = {}
  /\ IsExpired(token)
  /\ since' = [since EXCEPT ![c] = resets]
  /\ pc' = [pc EXCEPT ![c] = "sent"]
  /\ UNCHANGED <<now, token, resets, ahead, reply, out>>

\* The lock is held: whatever the token, the caller waits.
GetQueued(c) ==
  /\ pc[c] = "idle"
  /\ Line(c) # {}
  /\ since' = [since EXCEPT ![c] = resets]
  /\ pc' = [pc EXCEPT ![c] = "queued"]
  /\ ahead' = [ahead EXCEPT ![c] = Line(c)]
  /\ UNCHANGED <<now, token, resets, reply, out>>

\* The lock reaches a waiter, which finds the token of the one before it ...
AdmitHit(c) ==
  /\ pc[c] = "queued"
  /\ ahead[c] = {}
  /\ ~IsExpired(token)
  /\ out' = Handed(token, since[c], FALSE)
  /\ Leave(c)
  /\ UNCHANGED <<now, token, resets>>

\* MUTANT of AdmitMiss: the waiter refreshes without looking at the token.
AdmitMiss_NoRecheck(c) ==
  /\ pc[c] = "queued"
  /\ ahead[c] = {}
  /\ pc' = [pc EXCEPT ![c] = "sent"]
  /\ UNCHANGED <<now, token, resets, ahead, since, reply, out>>

\* ... or none, and asks for one.
AdmitMiss(c) ==
  /\ pc[c] = "queued"
  /\ ahead[c] = {}
  /\ IsExpired(token)
  /\ pc' = [pc EXCEPT ![c] = "sent"]
  /\ UNCHANGED <<now, token, resets, ahead, since, reply, out>>

\* The endpoint issues a token, which is then on its way. The answer says how
\* long it lives, or does not.
Issue(c, life) ==
  /\ pc[c] = "sent"
  /\ pc' = [pc EXCEPT ![c] = "replied"]
  /\ \E ttl \in {life, Default} :
       reply' = [reply EXCEPT ![c] = [issued |-> now, life |-> life, ttl |-> ttl, era |-> resets]]
  /\ UNCHANGED <<now, token, resets, ahead, since, out>>

\* MUTANT of Received: the margin is added to the expiry as well.
Received_AddsMargin(r) ==
  [issued |-> r.issued, life |-> r.life, ttl |-> r.ttl, era |-> r.era, expires |-> now + r.ttl + Margin]

\* The OAuth2Token made of an answer.
Received(r) ==
  [issued |-> r.issued, life |-> r.life, ttl |-> r.ttl, era |-> r.era, expires |-> now + r.ttl]

\* The token arrives and is stored over whatever reset left, then returned: not
\* even is_expired is asked about it.
Receive(c) ==
  /\ pc[c] = "replied"
  /\ token' = Received(reply[c])
  /\ out' = Handed(Received(reply[c]), since[c], TRUE)
  /\ Leave(c)
  /\ UNCHANGED <<now, resets>>

\* The request times out, is refused, or its answer has no usable token.
Fail(c) ==
  /\ pc[c] \in {"sent", "replied"}
  /\ Leave(c)
  /\ UNCHANGED <<now, token, resets, out>>

\* The task is cancelled at the await it is suspended in.
Cancel(c) ==
  /\ InLock(c)
  /\ Leave(c)
  /\ UNCHANGED <<now, token, resets, out>>

\* reset takes no lock.
Reset ==
  /\ resets < MaxResets
  /\ token' = NoToken
  /\ resets' = resets + 1
  /\ UNCHANGED <<now, pc, ahead, since, reply, out>>

Tick ==
  /\ now < MaxTime
  /\ \A c \in Callers : pc[c] = "replied" => now < reply[c].issued + Latency
  /\ now' = now + 1
  /\ UNCHANGED <<token, resets, pc, ahead, since, reply, out>>

Progress(c) ==
  \/ AdmitHit(c)
  \/ AdmitMiss(c)
  \/ \E life \in Lifetimes : Issue(c, life)
  \/ Receive(c)
  \/ Fail(c)

Next ==
  \/ \E c \in Callers : GetHit(c) \/ GetMiss(c) \/ GetQueued(c) \/ Progress(c) \/ Cancel(c)
  \/ Reset
  \/ Tick

Spec == Init /\ [][Next]_vars

\* The event loop runs every task that can run, and the request's timeout of
\* 15 s ends it; nothing makes a caller call, cancel or reset.
FairSpec == Spec /\ \A c \in Callers : WF_vars(Progress(c))
-----------------------------------------------------------------------------
(* Properties.                                                             *)

Replies == [issued : Nat, life : Int, ttl : Int, era : Nat]
Tokens == [issued : Nat, life : Int, ttl : Int, era : Nat, expires : Int]

\* The types of the variables; and of the token: no token is kept for longer
\* than the longest life the endpoint gave or the client assumes.
TypeOK ==
  /\ now \in Nat
  /\ token \in Tokens /\ token.expires <= now + MaxLifetime
  /\ resets \in Nat
  /\ pc \in [Callers -> States]
  /\ ahead \in [Callers -> SUBSET Callers]
  /\ since \in [Callers -> Nat]
  /\ reply \in [Callers -> Replies]
  /\ out \in [issued : Nat, life : Int, ttl : Int, era : Nat, at : Nat, since : Nat, fresh : BOOLEAN]
  /\ \A c \in Callers : pc[c] = "replied" =>
       reply[c].life \in Lifetimes /\ reply[c].ttl \in {reply[c].life, Default}

Refreshing(c) == pc[c] \in {"sent", "replied"}

\* The lock of get_token: at most one task asks the endpoint at any time,
\* whoever waits, fails or is cancelled, and whenever the token is reset.
OneRefreshAtATime ==
  \A c, d \in Callers : Refreshing(c) /\ Refreshing(d) => c = d

\* "refreshing if necessary": nobody asks for a token while a good one is
\* cached, also when it arrived after the asking task started to wait.
RefreshOnlyWhenNeeded == \A c \in Callers : Refreshing(c) => IsExpired(token)

\* "cached in-process with a safety margin so we never present an expired token
\* to the upstream": a token handed out is accepted until Grace later, although
\* the client counts its life from too late a moment. The code has two exceptions:
\* the call that asked for a token gets it unchecked, however short its life; and
\* a life that the endpoint did not say is taken to be Default.
NeverPresentsExpired ==
  \/ out.at + Grace < out.issued + out.life
  \/ out.fresh /\ out.life <= Latency + Grace
  \/ out.ttl = Default /\ out.life < Default

\* Every get_token ends, with a token or an exception, also behind a queue of
\* callers whose own requests all fail.
EveryGetEnds == \A c \in Callers : InLock(c) ~> ~InLock(c)

\* reset: "Drop the cached token (forcing the next call to refresh)": a call made
\* after a reset returns a token issued after that reset.
ResetForcesRefresh == out.since <= out.era
-----------------------------------------------------------------------------
(* The inductive invariant behind them.                                    *)

\* The lock is a total order on the tasks in it, with the refreshing one, if
\* any, first.
LockOrder ==
  /\ \A c \in Callers : ~InLock(c) => ahead[c] = {}
  /\ \A c \in Callers : Refreshing(c) => ahead[c] = {}
  /\ \A c, d \in Callers : c # d /\ InLock(c) /\ InLock(d) => c \in ahead[d] \/ d \in ahead[c]

\* The client believes in a token whose life it was told for at most Latency too
\* long.
ExpiryIsLate ==
  /\ token.ttl <= token.life => token.expires <= token.issued + token.life + Latency
  /\ token.ttl <= token.life \/ token.ttl = Default
  /\ \A c \in Callers :
       pc[c] = "replied" => reply[c].issued <= now /\ now <= reply[c].issued + Latency
=============================================================================
