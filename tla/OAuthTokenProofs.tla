-------------------------- MODULE OAuthTokenProofs --------------------------
(***************************************************************************)
(* Proofs about OAuthToken, for any number of tasks, any lifetimes, stated *)
(* or not, any delays that the margin covers, and any number of resets.    *)
(***************************************************************************)
EXTENDS OAuthToken, TLAPS

\* What get_token may have returned.
Outs == [issued : Nat, life : Int, ttl : Int, era : Nat, at : Nat, since : Nat, fresh : BOOLEAN]

\* The inductive invariant.
Safe ==
  /\ TypeOK
  /\ LockOrder
  /\ ExpiryIsLate
  /\ RefreshOnlyWhenNeeded
  /\ NeverPresentsExpired

\* The lock's order leaves room for one refreshing task: of two, one would wait
\* for the other.
LEMMA OneRefresh ==
  ASSUME LockOrder
  PROVE  OneRefreshAtATime
BY DEF LockOrder, OneRefreshAtATime, Refreshing, InLock

\* What every step that ends a call keeps of the lock's order and of the types.
LEMMA LeaveFacts ==
  ASSUME TypeOK, LockOrder, NEW c \in Callers, InLock(c), Leave(c)
  PROVE  /\ LockOrder'
         /\ pc' \in [Callers -> States]
         /\ ahead' \in [Callers -> SUBSET Callers]
         /\ since' \in [Callers -> Nat]
         /\ reply' \in [Callers -> Replies]
         /\ \A d \in Callers : pc'[d] = "replied" =>
                d # c /\ pc[d] = "replied" /\ reply'[d] = reply[d]
         /\ \A d \in Callers : Refreshing(d)' => d # c /\ Refreshing(d)
<1>1. NoReply \in Replies
  BY DEF NoReply, Replies
<1>2. /\ pc' \in [Callers -> States]
      /\ ahead' \in [Callers -> SUBSET Callers]
      /\ since' \in [Callers -> Nat]
      /\ reply' \in [Callers -> Replies]
  BY <1>1 DEF TypeOK, Leave, States
<1>3. LockOrder'
  BY DEF TypeOK, LockOrder, Leave, Refreshing, InLock, States
<1>4. /\ \A d \in Callers : pc'[d] = "replied" =>
                d # c /\ pc[d] = "replied" /\ reply'[d] = reply[d]
      /\ \A d \in Callers : Refreshing(d)' => d # c /\ Refreshing(d)
  BY DEF TypeOK, Leave, Refreshing
<1> QED BY <1>2, <1>3, <1>4

\* A token that is not believed expired is accepted for longer than Grace, unless
\* its life was not said and is shorter than assumed.
LEMMA GoodTokenLives ==
  ASSUME TypeOK, ExpiryIsLate, ~IsExpired(token)
  PROVE  \/ now + Grace < token.issued + token.life
         \/ token.ttl = Default /\ token.life < Default
<1>1. /\ now \in Nat /\ token.expires \in Int /\ token.issued \in Nat
      /\ token.life \in Int /\ token.ttl \in Int
  BY DEF TypeOK, Tokens
<1>2. CASE token.ttl <= token.life
  <2>1. token.expires <= token.issued + token.life + Latency
    BY <1>2 DEF ExpiryIsLate
  <2> QED BY <1>1, <2>1, MarginAssumption DEF IsExpired
<1>3. CASE ~(token.ttl <= token.life)
  BY <1>1, <1>3 DEF ExpiryIsLate
<1> QED BY <1>2, <1>3

\* A token just received is accepted for longer than Grace unless its life is too
\* short, and its expiry, if it was said, is believed at most Latency too late.
LEMMA ReceivedLives ==
  ASSUME TypeOK, ExpiryIsLate, NEW c \in Callers, pc[c] = "replied"
  PROVE  LET t == Received(reply[c]) IN
         /\ t \in Tokens
         /\ t.expires <= now + MaxLifetime
         /\ t.ttl <= t.life => t.expires <= t.issued + t.life + Latency
         /\ t.ttl <= t.life \/ t.ttl = Default
         /\ now + Grace < t.issued + t.life \/ t.life <= Latency + Grace
<1>1. /\ now \in Nat
      /\ reply[c].issued \in Nat /\ reply[c].era \in Nat
      /\ reply[c].life \in Lifetimes /\ reply[c].life \in Int
      /\ reply[c].ttl \in {reply[c].life, Default} /\ reply[c].ttl \in Int
      /\ now <= reply[c].issued + Latency
  BY DEF TypeOK, Replies, ExpiryIsLate
<1>2. reply[c].ttl <= MaxLifetime
  BY <1>1, LifetimesAssumption
<1>3. Received(reply[c]) \in Tokens
  BY <1>1 DEF Received, Tokens
<1>4. /\ Received(reply[c]).expires = now + reply[c].ttl /\ Received(reply[c]).ttl = reply[c].ttl
      /\ Received(reply[c]).issued = reply[c].issued /\ Received(reply[c]).life = reply[c].life
  BY DEF Received
<1> QED BY <1>1, <1>2, <1>3, <1>4, LifetimesAssumption, MarginAssumption

\* A fresh OAuth2ClientCredentials has no token and an unlocked lock.
LEMMA SafeInit == Init => Safe
<1> SUFFICES ASSUME Init PROVE Safe
  OBVIOUS
<1>1. TypeOK
  BY LifetimesAssumption, MarginAssumption
  DEF Init, TypeOK, NoToken, Tokens, NoReply, Replies, NothingOut, States
<1>2. LockOrder /\ ExpiryIsLate /\ RefreshOnlyWhenNeeded
  BY MarginAssumption DEF Init, NoToken, LockOrder, ExpiryIsLate, RefreshOnlyWhenNeeded, Refreshing, InLock
<1>3. NeverPresentsExpired
  BY MarginAssumption DEF Init, NeverPresentsExpired, NothingOut
<1> QED BY <1>1, <1>2, <1>3 DEF Safe

\* Every step keeps the invariant: one case per action.
LEMMA SafeNext == Safe /\ [Next]_vars => Safe'
<1> SUFFICES ASSUME Safe, [Next]_vars PROVE Safe'
  OBVIOUS
<1> USE DEF Safe
<1>n. /\ now \in Nat /\ resets \in Nat
      /\ token.expires \in Int /\ token.issued \in Nat /\ token.life \in Int
      /\ token.ttl \in Int /\ token.era \in Nat /\ token \in Tokens
  BY DEF TypeOK, Tokens
<1>1. ASSUME NEW c \in Callers, GetHit(c) PROVE Safe'
  <2>1. out' \in Outs
    BY <1>1, <1>n DEF GetHit, Handed, Outs
  <2>2. TypeOK'
    BY <1>1, <2>1 DEF GetHit, TypeOK, Outs
  <2>3. NeverPresentsExpired'
    BY <1>1, GoodTokenLives DEF GetHit, Handed, NeverPresentsExpired
  <2>4. LockOrder' /\ ExpiryIsLate' /\ RefreshOnlyWhenNeeded'
    BY <1>1 DEF GetHit, LockOrder, ExpiryIsLate, RefreshOnlyWhenNeeded, Refreshing, InLock, IsExpired
  <2> QED BY <2>2, <2>3, <2>4
<1>2. ASSUME NEW c \in Callers, GetMiss(c) PROVE Safe'
  <2>1. TypeOK' /\ NeverPresentsExpired' /\ ExpiryIsLate'
    BY <1>2 DEF GetMiss, TypeOK, NeverPresentsExpired, ExpiryIsLate, States
  <2>2. \A d \in Callers : d # c => pc[d] = "idle"
    BY <1>2 DEF GetMiss, Line, InLock
  <2>3. LockOrder'
    BY <1>2, <2>2 DEF GetMiss, TypeOK, LockOrder, Refreshing, InLock
  <2>4. RefreshOnlyWhenNeeded'
    BY <1>2 DEF GetMiss, RefreshOnlyWhenNeeded, IsExpired
  <2> QED BY <2>1, <2>3, <2>4
<1>3. ASSUME NEW c \in Callers, GetQueued(c) PROVE Safe'
  <2>1. Line(c) \in SUBSET Callers
    BY DEF Line
  <2>2. TypeOK' /\ NeverPresentsExpired' /\ ExpiryIsLate'
    BY <1>3, <2>1 DEF GetQueued, TypeOK, NeverPresentsExpired, ExpiryIsLate, States
  <2>3. LockOrder'
    BY <1>3 DEF GetQueued, TypeOK, LockOrder, Line, Refreshing, InLock
  <2>4. RefreshOnlyWhenNeeded'
    BY <1>3 DEF GetQueued, TypeOK, RefreshOnlyWhenNeeded, Refreshing, IsExpired
  <2> QED BY <2>2, <2>3, <2>4
<1>4. ASSUME NEW c \in Callers, AdmitHit(c) PROVE Safe'
  <2>1. InLock(c) /\ Leave(c)
    BY <1>4 DEF AdmitHit, InLock
  <2>2. out' \in Outs
    BY <1>4, <1>n DEF AdmitHit, Handed, TypeOK, Outs
  <2>3. TypeOK'
    BY <1>4, <2>1, <2>2, LeaveFacts DEF AdmitHit, TypeOK, Outs
  <2>4. NeverPresentsExpired'
    BY <1>4, GoodTokenLives DEF AdmitHit, Handed, NeverPresentsExpired
  <2>5. ExpiryIsLate' /\ RefreshOnlyWhenNeeded'
    BY <1>4, <2>1, LeaveFacts DEF AdmitHit, ExpiryIsLate, RefreshOnlyWhenNeeded, IsExpired
  <2> QED BY <2>1, <2>3, <2>4, <2>5, LeaveFacts
<1>5. ASSUME NEW c \in Callers, AdmitMiss(c) PROVE Safe'
  <2>1. TypeOK' /\ NeverPresentsExpired' /\ ExpiryIsLate'
    BY <1>5 DEF AdmitMiss, TypeOK, NeverPresentsExpired, ExpiryIsLate, States
  <2>2. LockOrder'
    BY <1>5 DEF AdmitMiss, TypeOK, LockOrder, Refreshing, InLock
  <2>3. RefreshOnlyWhenNeeded'
    BY <1>5 DEF AdmitMiss, RefreshOnlyWhenNeeded, IsExpired
  <2> QED BY <2>1, <2>2, <2>3
<1>6. ASSUME NEW c \in Callers, NEW life \in Lifetimes, Issue(c, life) PROVE Safe'
  <2>1. PICK ttl \in {life, Default} :
          reply' = [reply EXCEPT ![c] = [issued |-> now, life |-> life, ttl |-> ttl, era |-> resets]]
    BY <1>6 DEF Issue
  <2>2. life \in Int /\ ttl \in Int
    BY LifetimesAssumption
  <2>3. [issued |-> now, life |-> life, ttl |-> ttl, era |-> resets] \in Replies
    BY <2>2, <1>n DEF Replies
  <2>4. reply' \in [Callers -> Replies]
    BY <2>1, <2>3 DEF TypeOK
  <2>5. \A d \in Callers : pc'[d] = "replied" =>
          reply'[d].life \in Lifetimes /\ reply'[d].ttl \in {reply'[d].life, Default}
    BY <1>6, <2>1 DEF Issue, TypeOK
  <2>6. TypeOK' /\ NeverPresentsExpired'
    BY <1>6, <2>4, <2>5 DEF Issue, TypeOK, NeverPresentsExpired, States
  <2>7. ExpiryIsLate'
    BY <1>6, <2>1, <1>n, MarginAssumption DEF Issue, TypeOK, ExpiryIsLate
  <2>8. LockOrder' /\ RefreshOnlyWhenNeeded'
    BY <1>6 DEF Issue, TypeOK, LockOrder, RefreshOnlyWhenNeeded, Refreshing, InLock, IsExpired
  <2> QED BY <2>6, <2>7, <2>8
<1>7. ASSUME NEW c \in Callers, Receive(c) PROVE Safe'
  <2>1. InLock(c) /\ Leave(c) /\ pc[c] = "replied"
    BY <1>7 DEF Receive, InLock
  <2>2. LockOrder'
    BY <2>1, LeaveFacts
  <2> DEFINE t == Received(reply[c])
  <2>3. /\ t \in Tokens
        /\ t.expires <= now + MaxLifetime
        /\ t.ttl <= t.life => t.expires <= t.issued + t.life + Latency
        /\ t.ttl <= t.life \/ t.ttl = Default
        /\ now + Grace < t.issued + t.life \/ t.life <= Latency + Grace
    BY <2>1, ReceivedLives
  <2>4. token' = t /\ out' = Handed(t, since[c], TRUE) /\ now' = now /\ resets' = resets
    BY <1>7 DEF Receive
  <2> HIDE DEF t
  <2>5. out' \in Outs
    BY <2>3, <2>4, <1>n DEF Handed, TypeOK, Tokens, Outs
  <2>6. TypeOK'
    BY <2>1, <2>3, <2>4, <2>5, LeaveFacts DEF TypeOK, Outs
  <2>7. NeverPresentsExpired'
    BY <2>3, <2>4 DEF Handed, NeverPresentsExpired
  <2>8. ExpiryIsLate'
    BY <2>1, <2>3, <2>4, LeaveFacts DEF ExpiryIsLate
  <2>9. RefreshOnlyWhenNeeded'
    BY <2>1, LeaveFacts, OneRefresh DEF RefreshOnlyWhenNeeded, OneRefreshAtATime, Refreshing
  <2> QED BY <2>2, <2>6, <2>7, <2>8, <2>9
<1>8. ASSUME NEW c \in Callers, Fail(c) \/ Cancel(c) PROVE Safe'
  <2>1. InLock(c) /\ Leave(c) /\ UNCHANGED <<now, token, resets, out>>
    BY <1>8 DEF Fail, Cancel, InLock
  <2>2. LockOrder' /\ TypeOK'
    BY <2>1, LeaveFacts DEF TypeOK
  <2>3. ExpiryIsLate' /\ RefreshOnlyWhenNeeded' /\ NeverPresentsExpired'
    BY <2>1, LeaveFacts DEF ExpiryIsLate, RefreshOnlyWhenNeeded, NeverPresentsExpired, IsExpired
  <2> QED BY <2>2, <2>3
<1>9. CASE Reset
  <2>1. TypeOK' /\ NeverPresentsExpired' /\ ExpiryIsLate'
    BY <1>9, <1>n, LifetimesAssumption, MarginAssumption
    DEF Reset, TypeOK, Tokens, NeverPresentsExpired, ExpiryIsLate, NoToken
  <2>2. LockOrder' /\ RefreshOnlyWhenNeeded'
    BY <1>9, <1>n, MarginAssumption
    DEF Reset, LockOrder, RefreshOnlyWhenNeeded, Refreshing, InLock, IsExpired, NoToken
  <2> QED BY <2>1, <2>2
<1>10. CASE Tick
  <2>1. TypeOK' /\ NeverPresentsExpired'
    BY <1>10, <1>n, LifetimesAssumption DEF Tick, TypeOK, NeverPresentsExpired
  <2>2. ASSUME NEW c \in Callers, pc'[c] = "replied"
        PROVE  reply'[c].issued <= now' /\ now' <= reply'[c].issued + Latency
    <3>1. reply[c].issued <= now /\ now < reply[c].issued + Latency /\ reply[c].issued \in Nat
      BY <1>10, <2>2 DEF Tick, ExpiryIsLate, TypeOK, Replies
    <3> QED BY <1>10, <3>1, <1>n, MarginAssumption DEF Tick
  <2>3. ExpiryIsLate'
    BY <1>10, <2>2 DEF Tick, ExpiryIsLate
  <2>4. LockOrder' /\ RefreshOnlyWhenNeeded'
    BY <1>10, <1>n, MarginAssumption
    DEF Tick, LockOrder, RefreshOnlyWhenNeeded, Refreshing, InLock, IsExpired
  <2> QED BY <2>1, <2>3, <2>4
<1>11. CASE UNCHANGED vars
  BY <1>11 DEF vars, TypeOK, LockOrder, ExpiryIsLate, RefreshOnlyWhenNeeded,
    NeverPresentsExpired, Refreshing, InLock, IsExpired
<1> QED BY <1>1, <1>2, <1>3, <1>4, <1>5, <1>6, <1>7, <1>8, <1>9, <1>10, <1>11
  DEF Next, Progress

\* The invariant holds whoever waits, fails, is cancelled or resets.
LEMMA SafeAlways == Spec => []Safe
BY SafeInit, SafeNext, PTL DEF Spec

\* No token is kept for longer than the longest life, told or assumed, and every
\* variable keeps its type.
THEOREM TokenTypeCorrect == Spec => []TypeOK
BY SafeAlways, PTL DEF Safe

\* get_token's lock admits one refreshing task, for any number of tasks.
THEOREM OneRefreshAtATimeAlways == Spec => []OneRefreshAtATime
<1>1. Safe => OneRefreshAtATime
  BY OneRefresh DEF Safe
<1> QED BY <1>1, SafeAlways, PTL

\* Nobody refreshes a token that is still good.
THEOREM RefreshOnlyWhenNeededAlways == Spec => []RefreshOnlyWhenNeeded
BY SafeAlways, PTL DEF Safe

\* The safety margin covers both delays the client does not see, the token's way
\* from the endpoint and its way to the server it is used at, whenever their sum
\* is at most the margin: whatever lives the endpoint gives, a token presented after
\* its end was too short-lived for the call that asked for it, or its life was not
\* said and is shorter than assumed.
THEOREM NeverPresentsExpiredAlways == Spec => []NeverPresentsExpired
BY SafeAlways, PTL DEF Safe
=============================================================================
