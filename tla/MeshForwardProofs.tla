------------------------- MODULE MeshForwardProofs --------------------------
(***************************************************************************)
(* Requests that an Edge forwards to its peers, for any number of          *)
(* requests, peers, connections and faults.                                *)
(*                                                                         *)
(* A payload goes onto one stream (PayloadInv), because only a stream that *)
(* is open takes it, and no request is tried again after that.             *)
(*                                                                         *)
(* Whoever waits for the lock of a peer is in its queue, and whoever       *)
(* connects is at its head, has found no usable connection, and no attempt *)
(* has failed in this cool-down (PoolInv). So nobody connects a second     *)
(* time in a cool-down, and nobody replaces a connection that works.       *)
(*                                                                         *)
(* Nothing is claimed of what the lists of routes contain: a request takes *)
(* them as they come.                                                      *)
(***************************************************************************)
EXTENDS MeshForward, SequenceTheorems, FiniteSetTheorems, WellFoundedInduction, TLAPS

\* RemoveFirst leaves out one occurrence of an element that is in the sequence.
LEMMA RemoveFirstIs ==
    ASSUME NEW S, NEW s \in Seq(S), NEW e, \E i \in 1..Len(s) : s[i] = e
    PROVE  \E i \in 1..Len(s) : s[i] = e /\ RemoveFirst(s, e) = SubSeq(s, 1, i-1) \o SubSeq(s, i+1, Len(s))
<1> DEFINE I == {i \in 1..Len(s) : s[i] = e}
<1>1. I # {} /\ I \subseteq Nat
  OBVIOUS
<1>2. PICK x \in I : \A y \in I : ~(<<y, x>> \in OpToRel(<, Nat))
  BY Zenon, <1>1, WFMin, NatLessThanWellFounded
<1>3. \A y \in I : ~(y < x)
  BY Zenon, <1>1, <1>2 DEF OpToRel
<1>4. \A y \in I : x <= y
  BY <1>1, <1>3
<1>5. Min(I) \in I
  BY Zenon, <1>4 DEF Min
<1>6. RemoveFirst(s, e) = RemoveAt(s, Min(I))
  BY Zenon, <1>1 DEF RemoveFirst, SelectInSeq
<1> QED
  BY Zenon, <1>5, <1>6 DEF RemoveAt

Has(q, x) == \E i \in 1..Len(q) : q[i] = x

\* A waiter that leaves takes nobody else's place.
LEMMA RemoveFirstKeeps ==
    ASSUME NEW S, NEW s \in Seq(S), NEW e
    PROVE  /\ RemoveFirst(s, e) \in Seq(S)
           /\ \A x : x # e /\ Has(s, x) => Has(RemoveFirst(s, e), x)
           /\ s # <<>> /\ Head(s) # e =>
                RemoveFirst(s, e) # <<>> /\ Head(RemoveFirst(s, e)) = Head(s)
<1>1. CASE ~Has(s, e)
  BY Zenon, <1>1 DEF RemoveFirst, Has
<1>2. CASE Has(s, e)
  <2>1. PICK i \in 1..Len(s) :
          s[i] = e /\ RemoveFirst(s, e) = SubSeq(s, 1, i-1) \o SubSeq(s, i+1, Len(s))
    BY Zenon, <1>2, RemoveFirstIs DEF Has
  <2> DEFINE a == SubSeq(s, 1, i-1)
             b == SubSeq(s, i+1, Len(s))
  <2>2. Len(s) \in Nat /\ i \in Nat
    OBVIOUS
  <2>3. a \in Seq(S) /\ Len(a) = i - 1 /\ \A k \in 1..(i - 1) : a[k] = s[k]
    BY <2>1, <2>2
  <2>4. b \in Seq(S) /\ Len(b) = Len(s) - i /\ \A k \in 1..(Len(s) - i) : b[k] = s[k + i]
    BY <2>1, <2>2
  <2> HIDE DEF a, b
  <2>5. /\ a \o b \in Seq(S) /\ Len(a \o b) = Len(s) - 1
        /\ \A k \in 1..(i - 1) : (a \o b)[k] = s[k]
        /\ \A k \in i..(Len(s) - 1) : (a \o b)[k] = s[k + 1]
    <3>0. a \o b \in Seq(S) /\ Len(a \o b) = Len(a) + Len(b)
      BY Zenon, <2>3, <2>4, ConcatProperties
    <3>1. a \o b \in Seq(S) /\ Len(a \o b) = Len(s) - 1
      BY <2>2, <2>3, <2>4, <3>0
    <3>2. ASSUME NEW k \in 1..(i - 1) PROVE (a \o b)[k] = s[k]
      BY <2>2, <2>3, <2>4, <3>1
    <3>3. ASSUME NEW k \in i..(Len(s) - 1) PROVE (a \o b)[k] = s[k + 1]
      <4>1. (a \o b)[k] = b[k - Len(a)]
        BY <2>2, <2>3, <2>4
      <4>2. k - Len(a) \in 1..(Len(s) - i) /\ (k - Len(a)) + i = k + 1
        BY <2>2, <2>3
      <4> QED
        BY Zenon, <2>4, <4>1, <4>2
    <3> QED
      BY Zenon, <3>1, <3>2, <3>3
  <2>6. ASSUME NEW x, x # e, NEW k \in 1..Len(s), s[k] = x
        PROVE  Has(a \o b, x)
    <3>1. CASE k < i
      <4>1. k \in 1..(i - 1) /\ k \in 1..Len(a \o b)
        BY <2>2, <2>5, <3>1
      <4> QED
        BY Zenon, <2>5, <2>6, <4>1 DEF Has
    <3>2. CASE k > i
      <4>1. k - 1 \in i..(Len(s) - 1) /\ k - 1 \in 1..Len(a \o b) /\ (k - 1) + 1 = k
        BY <2>2, <2>5, <3>2
      <4> QED
        BY Zenon, <2>5, <2>6, <4>1 DEF Has
    <3> QED
      BY <2>1, <2>2, <2>6, <3>1, <3>2
  <2>7. s # <<>> /\ Head(s) # e => a \o b # <<>> /\ Head(a \o b) = Head(s)
    BY <2>1, <2>2, <2>3, <2>5
  <2> QED
    BY Zenon, <2>1, <2>5, <2>6, <2>7 DEF Has, a, b
<1> QED
  BY Zenon, <1>1, <1>2

\* The holder of a lock that releases it takes nobody else's place.
LEMMA TailKeeps ==
    ASSUME NEW S, NEW s \in Seq(S), NEW x, Has(s, x), x # Head(s)
    PROVE  Has(Tail(s), x)
<1>1. PICK i \in 1..Len(s) : s[i] = x
  BY Zenon DEF Has
<1>2. Len(s) \in Nat /\ s # <<>> /\ i # 1
  BY <1>1
<1>3. Len(Tail(s)) = Len(s) - 1 /\ \A k \in 1..Len(Tail(s)) : Tail(s)[k] = s[k + 1]
  BY <1>2
<1>4. i - 1 \in 1..Len(Tail(s)) /\ (i - 1) + 1 = i
  BY <1>2, <1>3
<1> QED
  BY Zenon, <1>1, <1>3, <1>4 DEF Has

\* A waiter is added behind the others.
LEMMA AppendKeeps ==
    ASSUME NEW S, NEW s \in Seq(S), NEW e \in S
    PROVE  /\ Append(s, e) \in Seq(S) /\ Has(Append(s, e), e)
           /\ \A x : Has(s, x) => Has(Append(s, e), x)
           /\ s # <<>> => Append(s, e) # <<>> /\ Head(Append(s, e)) = Head(s)
<1>1. /\ Append(s, e) \in Seq(S) /\ Len(Append(s, e)) = Len(s) + 1 /\ Len(s) \in Nat
      /\ Append(s, e)[Len(s) + 1] = e
      /\ \A k \in 1..Len(s) : Append(s, e)[k] = s[k]
  OBVIOUS
<1>2. \A x : Has(s, x) => Has(Append(s, e), x)
  BY <1>1 DEF Has
<1>3. Has(Append(s, e), e)
  BY <1>1 DEF Has
<1>4. s # <<>> => Append(s, e) # <<>> /\ Head(Append(s, e)) = Head(s)
  BY <1>1
<1> QED
  BY Zenon, <1>1, <1>2, <1>3, <1>4

---------------------------------------------------------------------------
(* What has been sent *)

PayloadInv ==
    /\ pc \in [Requests -> Stages] /\ DOMAIN payload = Requests
    /\ \A r \in Requests :
        /\ pc[r] \notin {"streaming", "done"} => payload[r] = {}
        /\ \E p : payload[r] \subseteq {p}

\* Every step keeps PayloadInv: a payload goes onto a stream that was opened for it,
\* and a request that is tried again has sent none.
LEMMA PayloadStep == PayloadInv /\ [Next]_vars => PayloadInv'
<1> USE DEF Goto, Stages, exchange
<1> SUFFICES ASSUME PayloadInv, [Next]_vars PROVE PayloadInv'
  BY Zenon
<1>1. ASSUME NEW r \in Requests, NEW stage \in Stages,
             UNCHANGED payload, pc' = [pc EXCEPT ![r] = stage],
             pc[r] \in {"streaming", "done"} => stage = "done"
      PROVE  PayloadInv'
  BY Zenon, <1>1 DEF PayloadInv
<1>2. ASSUME NEW r \in Requests, TryNext(r), UNCHANGED payload, pc[r] \notin {"streaming", "done"}
      PROVE  PayloadInv'
  BY Zenon, <1>1, <1>2 DEF TryNext
<1>3. ASSUME UNCHANGED <<pc, payload>> PROVE PayloadInv'
  BY Zenon, <1>3 DEF PayloadInv
<1>4. ASSUME NEW r \in Requests, Route(r) PROVE PayloadInv'
  BY Zenon, <1>1, <1>4 DEF Route
<1>5. ASSUME NEW r \in Requests, StreamEnds(r) \/ ClientLeaves(r) PROVE PayloadInv'
  BY Zenon, <1>1, <1>5 DEF StreamEnds, EndsStream, ClientLeaves
<1>6. ASSUME NEW r \in Requests, Accepted(r) PROVE PayloadInv'
  BY Zenon, <1>6 DEF Accepted, PayloadInv
<1>7. ASSUME NEW r \in Requests, IngressStep(r) PROVE PayloadInv'
  <2>1. CASE FailedRecently(r) \/ FailedMeanwhile(r) \/ ConnectFails(r) \/ CoolDown(r) \/ Timeout(r)
    BY Zenon, <1>2, <2>1 DEF FailedRecently, FailedMeanwhile, ConnectFails, CoolDown, Timeout
  <2>2. CASE UsePooled(r) \/ WaitForLock(r) \/ ConnectedMeanwhile(r) \/ Connect(r) \/ Connected(r)
             \/ Send(r) \/ StreamFails(r) \/ TimeoutSilent(r)
    BY Zenon, <1>1, <2>2
    DEF UsePooled, WaitForLock, ConnectedMeanwhile, Connect, Connected, Send, StreamFails, TimeoutSilent
  <2>3. CASE GetSlots(r) \/ Rejected(r)
    BY Zenon, <1>1, <1>2, <2>3 DEF GetSlots, Rejected
  <2> QED
    BY Zenon, <1>6, <1>7, <2>1, <2>2, <2>3 DEF IngressStep
<1>8. CASE \/ \E r \in Requests, p \in Peers : PeerStep(r, p)
           \/ \E p \in Peers, c \in Conns : ConnectionCloses(p, c)
           \/ \E p \in Peers : CooldownEnds(p)
           \/ UNCHANGED vars
  BY Zenon, <1>3, <1>8
  DEF PeerStep, PeerRejects, PeerOpens, PeerAccepts, PeerAbandons, peerUnchanged,
      ConnectionCloses, CooldownEnds, vars
<1> QED
  BY Zenon, <1>4, <1>5, <1>7, <1>8 DEF Next

\* However the peers' answers, the time-outs and the retries interleave, the
\* client's bytes reach one peer at most.
THEOREM MeshPayloadOnce == Spec => []PayloadOnce
<1>1. Init => PayloadInv
  BY Zenon DEF Init, PayloadInv, Stages
<1>2. PayloadInv => PayloadOnce
  <2> SUFFICES ASSUME PayloadInv, NEW r \in Requests PROVE Cardinality(payload[r]) <= 1
    BY Zenon DEF PayloadOnce
  <2>1. PICK p : payload[r] \subseteq {p}
    BY Zenon DEF PayloadInv
  <2>2. payload[r] = {} \/ payload[r] = {p}
    BY Zenon, <2>1
  <2>3. Cardinality({}) = 0 /\ Cardinality({p}) = 1
    BY Zenon, FS_EmptySet, FS_Singleton
  <2> QED
    BY <2>2, <2>3
<1> QED
  BY <1>1, <1>2, PayloadStep, PTL DEF Spec

---------------------------------------------------------------------------
(* The pool of connections *)

PoolTypes ==
    /\ pool \in [Peers -> Conns \cup {NoConn}]
    /\ made \in [Peers -> 0..MaxConns]
    /\ open \in [Peers -> SUBSET Conns]
    /\ locks \in [Peers -> Seq(Requests)]
    /\ pc \in [Requests -> Stages]
    /\ DOMAIN routes = Requests
    /\ refusals \in [Peers -> Nat]

\* Whoever waits for a lock is in its queue.
Queued(r, p) == pc[r] = "lock" /\ Peer(r) = p => Has(locks[p], r)

\* Whoever connects is first in the queue; there is no connection to the peer
\* yet, and nobody has failed to make one in this cool-down.
Alone(r, p) ==
    pc[r] = "connecting" /\ Peer(r) = p =>
        /\ locks[p] # <<>> /\ Head(locks[p]) = r
        /\ ~Usable(p) /\ refusals[p] = 0

Attempts(p) == refusals[p] = 0 \/ (refusals[p] = 1 /\ p \in cooling)

PoolInv ==
    /\ PoolTypes
    /\ \A p \in Peers :
        Attempts(p) /\ \A r \in Requests : Queued(r, p) /\ Alone(r, p)

\* A step that makes no connection usable, leaves the locks alone, and lets
\* nobody wait or connect who did not before.
LEMMA QuietKeeps ==
    ASSUME PoolInv, PoolTypes', UNCHANGED <<locks, refusals>>, cooling \subseteq cooling',
           \A p \in Peers : Usable(p)' => Usable(p),
           \A r \in Requests : \/ pc'[r] = pc[r] /\ routes'[r] = routes[r]
                               \/ pc'[r] \notin {"lock", "connecting"}
    PROVE  PoolInv'
<1>1. ASSUME NEW p \in Peers PROVE Attempts(p)'
  BY Zenon DEF PoolInv, Attempts
<1>2. ASSUME NEW p \in Peers, NEW r \in Requests PROVE Queued(r, p)' /\ Alone(r, p)'
  BY Zenon DEF PoolInv, Queued, Alone, Peer
<1> QED
  BY Zenon, <1>1, <1>2 DEF PoolInv

\* Forwarding a request to a peer that is connected, and giving up on one.
LEMMA ExchangeKeeps ==
    ASSUME PoolInv, NEW r \in Requests,
           \/ Route(r) \/ UsePooled(r) \/ FailedRecently(r) \/ GetSlots(r) \/ Send(r)
           \/ CoolDown(r) \/ Timeout(r) \/ Accepted(r) \/ Rejected(r) \/ StreamEnds(r)
    PROVE  PoolInv'
<1> USE DEF Route, UsePooled, FailedRecently, GetSlots, Send, CoolDown, Timeout, Accepted,
            Rejected, StreamEnds, EndsStream, TryNext, Goto, pooled
<1>1. UNCHANGED <<pool, made, open, locks, refusals>> /\ cooling \subseteq cooling'
  BY Zenon
<1>2. /\ pc' \in [Requests -> Stages] /\ pc'[r] \notin {"lock", "connecting"}
      /\ \A x \in Requests \ {r} : pc'[x] = pc[x]
  BY Zenon DEF PoolInv, PoolTypes, Stages
<1>3. DOMAIN routes' = Requests /\ \A x \in Requests \ {r} : routes'[x] = routes[x]
  BY Zenon DEF PoolInv, PoolTypes
<1>4. PoolTypes'
  BY Zenon, <1>1, <1>2, <1>3 DEF PoolInv, PoolTypes
<1>5. \A p \in Peers : Usable(p)' => Usable(p)
  BY Zenon, <1>1 DEF Usable
<1> QED
  BY Zenon, <1>1, <1>2, <1>3, <1>4, <1>5, QuietKeeps

\* connection_failed and connection_unresponsive: the connection is closed by
\* then, and only that connection is removed.
LEMMA EvictKeeps ==
    ASSUME PoolInv, NEW r \in Requests, StreamFails(r) \/ TimeoutSilent(r)
    PROVE  PoolInv' /\ \A p \in Peers : Usable(p) /\ pool'[p] # pool[p] => pool[p] \notin open'[p]
<1> USE DEF StreamFails, TimeoutSilent, Goto
<1>1. /\ UNCHANGED <<made, locks, routes, refusals, cooling>>
      /\ pc' \in [Requests -> Stages] /\ pc'[r] \notin {"lock", "connecting"}
      /\ \A x \in Requests \ {r} : pc'[x] = pc[x]
  BY Zenon DEF PoolInv, PoolTypes, Stages
<1>2. /\ open' \in [Peers -> SUBSET Conns] /\ pool' \in [Peers -> Conns \cup {NoConn}]
      /\ \A p \in Peers : open'[p] \subseteq open[p]
  <2>1. open' = open \/ open' = [open EXCEPT ![Peer(r)] = @ \ {conn[r]}]
    BY Zenon
  <2>2. pool' = [pool EXCEPT ![Peer(r)] = IF Evicts(r) THEN NoConn ELSE @]
    BY Zenon DEF Evict
  <2> QED
    BY ZenonT(30), <2>1, <2>2 DEF PoolInv, PoolTypes
<1>3. ASSUME NEW p \in Peers, pool'[p] # pool[p]
      PROVE  pool'[p] = NoConn /\ pool[p] \notin open'[p]
  BY <1>3 DEF PoolInv, PoolTypes, Evict, Evicts, IsOpen
<1>4. PoolTypes'
  BY Zenon, <1>1, <1>2 DEF PoolInv, PoolTypes
<1>5. \A p \in Peers : Usable(p)' => Usable(p)
  BY Zenon, <1>2, <1>3 DEF Usable
<1>6. PoolInv'
  BY Zenon, <1>1, <1>4, <1>5, QuietKeeps
<1> QED
  BY Zenon, <1>3, <1>6

\* lock().await queues.
LEMMA WaitForLockKeeps ==
    ASSUME PoolInv, NEW r \in Requests, WaitForLock(r)
    PROVE  PoolInv'
<1>1. /\ UNCHANGED <<pool, made, open, cooling, routes, refusals>>
      /\ pc' = [pc EXCEPT ![r] = "lock"]
      /\ locks' = [locks EXCEPT ![Peer(r)] = Append(@, r)]
  BY Zenon DEF WaitForLock, Goto, pooled
<1>2. PoolTypes'
  BY Zenon, <1>1, AppendKeeps DEF PoolInv, PoolTypes, Stages
<1>3. ASSUME NEW p \in Peers
      PROVE  /\ locks'[p] = IF p = Peer(r) THEN Append(locks[p], r) ELSE locks[p]
             /\ locks[p] \in Seq(Requests)
  BY Zenon, <1>1 DEF PoolInv, PoolTypes
<1>4. ASSUME NEW p \in Peers
      PROVE  /\ \A x : Has(locks[p], x) => Has(locks'[p], x)
             /\ p = Peer(r) => Has(locks'[p], r)
             /\ locks[p] # <<>> => locks'[p] # <<>> /\ Head(locks'[p]) = Head(locks[p])
  <2>1. CASE p = Peer(r)
    <3>1. locks'[p] = Append(locks[p], r) /\ locks[p] \in Seq(Requests)
      BY Zenon, <1>3, <2>1
    <3> QED
      BY <3>1, AppendKeeps
  <2>2. CASE p # Peer(r)
    BY Zenon, <1>3, <2>2
  <2> QED
    BY Zenon, <2>1, <2>2
<1>5. ASSUME NEW p \in Peers, NEW x \in Requests PROVE Queued(x, p)' /\ Alone(x, p)'
  <2>1. Queued(x, p) /\ Alone(x, p) /\ x \in DOMAIN pc
    BY Zenon DEF PoolInv, PoolTypes
  <2>2. Peer(x)' = Peer(x) /\ (Usable(p)' <=> Usable(p)) /\ refusals' = refusals
    BY Zenon, <1>1 DEF Peer, Usable
  <2>3. pc'[x] = IF x = r THEN "lock" ELSE pc[x]
    BY Zenon, <1>1, <2>1
  <2>4. Queued(x, p)'
    BY Zenon, <1>4, <2>1, <2>2, <2>3 DEF Queued
  <2>5. Alone(x, p)'
    BY Zenon, <1>4, <2>1, <2>2, <2>3 DEF Alone
  <2> QED
    BY Zenon, <2>4, <2>5
<1> QED
  BY Zenon, <1>1, <1>2, <1>5 DEF PoolInv, Attempts

\* What releasing a lock by the first in its queue leaves to the others: they
\* are still queued, and none of them was connecting to that peer.
LEMMA UnlockLeaves ==
    ASSUME PoolInv, NEW r \in Requests, pc[r] \in {"lock", "connecting"},
           Peer(r) \in Peers => HoldsLock(r), Unlock(r)
    PROVE  /\ locks' \in [Peers -> Seq(Requests)]
           /\ \A p \in Peers, x \in Requests \ {r} :
                /\ Has(locks[p], x) => Has(locks'[p], x)
                /\ pc[x] = "connecting" /\ Peer(x) = p => p # Peer(r) /\ locks'[p] = locks[p]
<1>1. locks' = [locks EXCEPT ![Peer(r)] = Tail(@)]
  BY Zenon DEF Unlock
<1>2. ASSUME NEW p \in Peers
      PROVE  locks[p] \in Seq(Requests) /\ locks'[p] = IF p = Peer(r) THEN Tail(locks[p]) ELSE locks[p]
  BY Zenon, <1>1 DEF PoolInv, PoolTypes
<1>3. ASSUME Peer(r) \in Peers PROVE locks[Peer(r)] # <<>> /\ Head(locks[Peer(r)]) = r
  <2>1. Queued(r, Peer(r)) /\ Alone(r, Peer(r))
    BY Zenon, <1>3 DEF PoolInv
  <2> QED
    BY <1>2, <1>3, <2>1 DEF Queued, Alone, Has, HoldsLock
<1>4. locks' \in [Peers -> Seq(Requests)]
  <2>1. ASSUME NEW p \in Peers PROVE locks'[p] \in Seq(Requests)
    BY Zenon, <1>2, <1>3, HeadTailProperties
  <2> QED
    BY Zenon, <1>1, <2>1 DEF PoolInv, PoolTypes
<1>5. ASSUME NEW p \in Peers, NEW x \in Requests \ {r}, Has(locks[p], x)
      PROVE  Has(locks'[p], x)
  BY Zenon, <1>2, <1>3, <1>5, TailKeeps
<1>6. ASSUME NEW p \in Peers, NEW x \in Requests \ {r}, pc[x] = "connecting", Peer(x) = p
      PROVE  p # Peer(r) /\ locks'[p] = locks[p]
  <2>1. Alone(x, p)
    BY Zenon DEF PoolInv
  <2> QED
    BY Zenon, <1>2, <1>3, <1>6, <2>1 DEF Alone
<1> QED
  BY Zenon, <1>4, <1>5, <1>6

\* Behind the lock: somebody has connected, or failed to.
LEMMA MeanwhileKeeps ==
    ASSUME PoolInv, NEW r \in Requests, ConnectedMeanwhile(r) \/ FailedMeanwhile(r)
    PROVE  PoolInv'
<1> USE DEF ConnectedMeanwhile, FailedMeanwhile, TryNext, Goto, pooled
<1>1. /\ UNCHANGED <<pool, made, open, cooling, refusals>>
      /\ pc[r] = "lock" /\ HoldsLock(r) /\ Unlock(r)
  BY Zenon
<1>2. /\ pc' \in [Requests -> Stages] /\ pc'[r] \notin {"lock", "connecting"}
      /\ DOMAIN routes' = Requests
      /\ \A x \in Requests \ {r} : pc'[x] = pc[x] /\ routes'[x] = routes[x]
  BY Zenon DEF PoolInv, PoolTypes, Stages
<1>3. PoolTypes'
  BY Zenon, <1>1, <1>2, UnlockLeaves DEF PoolInv, PoolTypes
<1>4. ASSUME NEW p \in Peers, NEW x \in Requests PROVE Queued(x, p)' /\ Alone(x, p)'
  BY <1>1, <1>2, UnlockLeaves DEF PoolInv, Queued, Alone, Peer, Usable
<1> QED
  BY Zenon, <1>1, <1>3, <1>4 DEF PoolInv, Attempts

\* The lock is held, the pool has no usable connection and the peer does not
\* cool down: the attempt begins.
LEMMA ConnectKeeps ==
    ASSUME PoolInv, NEW r \in Requests, Connect(r)
    PROVE  PoolInv'
<1>1. /\ UNCHANGED <<pool, made, open, cooling, locks, routes, refusals>>
      /\ pc' = [pc EXCEPT ![r] = "connecting"] /\ pc[r] = "lock" /\ HoldsLock(r)
      /\ ~Usable(Peer(r)) /\ Peer(r) \notin cooling
  BY Zenon DEF Connect, Cooled, Goto, pooled
<1>2. PoolTypes'
  BY Zenon, <1>1 DEF PoolInv, PoolTypes, Stages
<1>3. ASSUME NEW p \in Peers, NEW x \in Requests PROVE Queued(x, p)'
  BY Zenon, <1>1 DEF PoolInv, PoolTypes, Queued, Peer
<1>4. ASSUME NEW p \in Peers, NEW x \in Requests PROVE Alone(x, p)'
  <2>1. CASE x # r
    BY Zenon, <1>1, <2>1 DEF PoolInv, PoolTypes, Alone, Peer, Usable
  <2>2. CASE x = r /\ Peer(r) = p
    <3>1. Has(locks[p], r) /\ locks[p] \in Seq(Requests) /\ refusals[p] = 0
      BY Zenon, <1>1, <2>2 DEF PoolInv, PoolTypes, Queued, Attempts
    <3>2. locks[p] # <<>> /\ Head(locks[p]) = r
      BY <1>1, <2>2, <3>1 DEF Has, HoldsLock
    <3> QED
      BY Zenon, <1>1, <2>2, <3>1, <3>2 DEF Alone, Peer, Usable
  <2> QED
    BY Zenon, <1>1, <2>1, <2>2 DEF Alone, Peer
<1> QED
  BY Zenon, <1>1, <1>2, <1>3, <1>4 DEF PoolInv, Attempts

\* connect succeeds.  Nobody else was connecting to this peer, and nothing
\* usable is replaced.
LEMMA ConnectedKeeps ==
    ASSUME PoolInv, NEW r \in Requests, Connected(r)
    PROVE  PoolInv' /\ \A p \in Peers : pool'[p] # pool[p] => ~Usable(p)
<1> DEFINE q == Peer(r)
           c == NextConn(q)
<1>1. /\ pc[r] = "connecting" /\ pc' = [pc EXCEPT ![r] = "slots"] /\ Unlock(r)
      /\ made[q] < MaxConns /\ made' = [made EXCEPT ![q] = c]
      /\ open' = [open EXCEPT ![q] = @ \cup {c}] /\ pool' = [pool EXCEPT ![q] = c]
      /\ cooling' = cooling \ {q} /\ refusals' = [refusals EXCEPT ![q] = 0]
      /\ UNCHANGED routes
  BY Zenon DEF Connected, Goto
<1>2. q \in Peers => Alone(r, q) /\ HoldsLock(r)
  BY Zenon, <1>1 DEF PoolInv, Alone, HoldsLock
<1>3. q \in Peers => c \in Conns /\ c \in 0..MaxConns
  BY <1>1, ConstantsAssumption DEF PoolInv, PoolTypes, NextConn, Conns
<1> HIDE DEF c
<1>4. /\ locks' \in [Peers -> Seq(Requests)]
      /\ \A p \in Peers, x \in Requests \ {r} :
           /\ Has(locks[p], x) => Has(locks'[p], x)
           /\ pc[x] = "connecting" /\ Peer(x) = p => p # q /\ locks'[p] = locks[p]
  BY Zenon, <1>1, <1>2, UnlockLeaves
<1>5. PoolTypes'
  <2>1. pool' \in [Peers -> Conns \cup {NoConn}] /\ open' \in [Peers -> SUBSET Conns]
    BY Zenon, <1>1, <1>3 DEF PoolInv, PoolTypes
  <2>2. made' \in [Peers -> 0..MaxConns] /\ refusals' \in [Peers -> Nat]
    BY Zenon, <1>1, <1>3 DEF PoolInv, PoolTypes
  <2>3. pc' \in [Requests -> Stages] /\ DOMAIN routes' = Requests
    BY Zenon, <1>1 DEF PoolInv, PoolTypes, Stages
  <2> QED
    BY Zenon, <1>4, <2>1, <2>2, <2>3 DEF PoolTypes
<1>6. \A p \in Peers \ {q} : /\ pool'[p] = pool[p] /\ open'[p] = open[p]
                             /\ refusals'[p] = refusals[p] /\ (p \in cooling' <=> p \in cooling)
  BY Zenon, <1>1 DEF PoolInv, PoolTypes
<1>7. ASSUME NEW p \in Peers PROVE Attempts(p)'
  BY Zenon, <1>1, <1>6 DEF PoolInv, PoolTypes, Attempts
<1>8. ASSUME NEW p \in Peers, NEW x \in Requests PROVE Queued(x, p)' /\ Alone(x, p)'
  BY <1>1, <1>4, <1>6 DEF PoolInv, PoolTypes, Queued, Alone, Peer, Usable
<1>9. ASSUME NEW p \in Peers, pool'[p] # pool[p] PROVE ~Usable(p)
  BY Zenon, <1>1, <1>2, <1>6, <1>9 DEF Alone
<1> QED
  BY Zenon, <1>5, <1>7, <1>8, <1>9 DEF PoolInv

\* connect fails, for the first time in this cool-down.
LEMMA ConnectFailsKeeps ==
    ASSUME PoolInv, NEW r \in Requests, ConnectFails(r)
    PROVE  PoolInv'
<1> DEFINE q == Peer(r)
<1>1. /\ pc[r] = "connecting" /\ Unlock(r) /\ TryNext(r)
      /\ cooling' = cooling \cup {q} /\ refusals' = [refusals EXCEPT ![q] = @ + 1]
      /\ UNCHANGED <<pool, made, open>>
  BY Zenon DEF ConnectFails
<1>2. q \in Peers => refusals[q] = 0 /\ HoldsLock(r)
  BY Zenon, <1>1 DEF PoolInv, Alone, HoldsLock
<1>3. /\ locks' \in [Peers -> Seq(Requests)]
      /\ \A p \in Peers, x \in Requests \ {r} :
           /\ Has(locks[p], x) => Has(locks'[p], x)
           /\ pc[x] = "connecting" /\ Peer(x) = p => p # q /\ locks'[p] = locks[p]
  BY Zenon, <1>1, <1>2, UnlockLeaves
<1>4. /\ pc' \in [Requests -> Stages] /\ pc'[r] \notin {"lock", "connecting"}
      /\ DOMAIN routes' = Requests
      /\ \A x \in Requests \ {r} : pc'[x] = pc[x] /\ routes'[x] = routes[x]
  BY Zenon, <1>1 DEF TryNext, Goto, PoolInv, PoolTypes, Stages
<1>5. PoolTypes'
  <2>1. refusals' \in [Peers -> Nat]
    <3> HIDE DEF q
    <3>1. refusals \in [Peers -> Nat]
      BY Zenon DEF PoolInv, PoolTypes
    <3>2. refusals' = [p \in Peers |-> IF p = q THEN refusals[p] + 1 ELSE refusals[p]]
      BY Zenon, <1>1, <3>1
    <3>3. \A p \in Peers : refusals[p] \in Nat
      BY Zenon, <3>1
    <3> QED
      BY <3>2, <3>3
  <2> QED
    BY Zenon, <1>1, <1>3, <1>4, <2>1 DEF PoolInv, PoolTypes
<1>6. ASSUME NEW p \in Peers PROVE Attempts(p)' /\ (p # q => refusals'[p] = refusals[p])
  BY <1>1, <1>2 DEF PoolInv, PoolTypes, Attempts
<1>7. ASSUME NEW p \in Peers, NEW x \in Requests PROVE Queued(x, p)' /\ Alone(x, p)'
  <2>1. Queued(x, p) /\ Alone(x, p)
    BY Zenon DEF PoolInv
  <2>2. CASE x = r
    BY Zenon, <1>4, <2>2 DEF Queued, Alone
  <2>3. CASE x # r
    <3>1. pc'[x] = pc[x] /\ Peer(x)' = Peer(x) /\ (Usable(p)' <=> Usable(p))
      BY Zenon, <1>1, <1>4, <2>3 DEF Peer, Usable
    <3>2. Queued(x, p)'
      BY Zenon, <1>3, <2>1, <2>3, <3>1 DEF Queued
    <3>3. Alone(x, p)'
      BY Zenon, <1>3, <1>6, <2>1, <2>3, <3>1 DEF Alone
    <3> QED
      BY Zenon, <3>2, <3>3
  <2> QED
    BY Zenon, <2>2, <2>3
<1> QED
  BY Zenon, <1>5, <1>6, <1>7 DEF PoolInv

\* The task of a client that has gone gives back the lock, or its place.
LEMMA ClientLeavesKeeps ==
    ASSUME PoolInv, NEW r \in Requests, ClientLeaves(r)
    PROVE  PoolInv'
<1>1. /\ UNCHANGED <<pool, made, open, cooling, routes, refusals>>
      /\ pc' = [pc EXCEPT ![r] = "done"]
      /\ locks' = [locks EXCEPT ![Peer(r)] = RemoveFirst(@, r)]
  BY Zenon DEF ClientLeaves, Goto, pooled
<1>2. ASSUME NEW p \in Peers
      PROVE  /\ locks'[p] \in Seq(Requests)
             /\ \A x : x # r /\ Has(locks[p], x) => Has(locks'[p], x)
             /\ locks[p] # <<>> /\ Head(locks[p]) # r =>
                  locks'[p] # <<>> /\ Head(locks'[p]) = Head(locks[p])
  <2>1. locks[p] \in Seq(Requests)
    BY Zenon DEF PoolInv, PoolTypes
  <2>2. CASE p = Peer(r)
    <3>1. locks'[p] = RemoveFirst(locks[p], r)
      BY Zenon, <1>1, <2>2 DEF PoolInv, PoolTypes
    <3> QED
      BY <2>1, <3>1, RemoveFirstKeeps
  <2>3. CASE p # Peer(r)
    BY Zenon, <1>1, <2>1, <2>3 DEF PoolInv, PoolTypes
  <2> QED
    BY Zenon, <2>2, <2>3
<1>3. locks' \in [Peers -> Seq(Requests)]
  BY Zenon, <1>1, <1>2 DEF PoolInv, PoolTypes
<1>4. PoolTypes'
  BY Zenon, <1>1, <1>3 DEF PoolInv, PoolTypes, Stages
<1>5. ASSUME NEW p \in Peers, NEW x \in Requests PROVE Queued(x, p)' /\ Alone(x, p)'
  BY Zenon, <1>1, <1>2 DEF PoolInv, PoolTypes, Queued, Alone, Peer, Usable
<1> QED
  BY Zenon, <1>1, <1>4, <1>5 DEF PoolInv, Attempts

\* The handlers of the peers, a connection that closes, and time.
LEMMA OutsideKeeps ==
    ASSUME PoolInv,
           \/ \E r \in Requests, p \in Peers : PeerStep(r, p)
           \/ \E p \in Peers, c \in Conns : ConnectionCloses(p, c)
           \/ \E p \in Peers : CooldownEnds(p)
           \/ UNCHANGED vars
    PROVE  PoolInv' /\ UNCHANGED pool
<1>1. CASE \E p \in Peers : CooldownEnds(p)
  <2>1. PICK q \in Peers : CooldownEnds(q)
    BY Zenon, <1>1
  <2>2. /\ UNCHANGED <<pool, made, open, locks, pc, routes>>
        /\ cooling' = cooling \ {q} /\ refusals' = [refusals EXCEPT ![q] = 0]
    BY Zenon, <2>1 DEF CooldownEnds
  <2>3. PoolTypes'
    BY Zenon, <2>2 DEF PoolInv, PoolTypes
  <2>4. ASSUME NEW p \in Peers
        PROVE  Attempts(p)' /\ \A x \in Requests : Queued(x, p)' /\ Alone(x, p)'
    BY Zenon, <2>2 DEF PoolInv, PoolTypes, Attempts, Queued, Alone, Peer, Usable
  <2> QED
    BY Zenon, <2>2, <2>3, <2>4 DEF PoolInv
<1>2. CASE ~\E p \in Peers : CooldownEnds(p)
  <2>1. UNCHANGED <<pool, made, locks, pc, routes, cooling, refusals>>
    BY ZenonT(30), <1>2 DEF PeerStep, PeerRejects, PeerOpens, PeerAccepts, PeerAbandons, peerUnchanged,
                ConnectionCloses, vars, pooled
  <2>2. open' = open \/ \E p \in Peers, c \in Conns : open' = [open EXCEPT ![p] = @ \ {c}]
    BY Zenon, <1>2 DEF PeerStep, PeerRejects, PeerOpens, PeerAccepts, PeerAbandons, peerUnchanged,
                ConnectionCloses, vars, pooled
  <2>3. open' \in [Peers -> SUBSET Conns] /\ \A p \in Peers : open'[p] \subseteq open[p]
    BY Zenon, <2>2 DEF PoolInv, PoolTypes
  <2>4. PoolTypes'
    BY Zenon, <2>1, <2>3 DEF PoolInv, PoolTypes
  <2>5. \A p \in Peers : Usable(p)' => Usable(p)
    BY Zenon, <2>1, <2>3 DEF Usable
  <2> QED
    BY Zenon, <2>1, <2>4, <2>5, QuietKeeps
<1> QED
  BY Zenon, <1>1, <1>2

\* PoolInv holds in every reachable state.
LEMMA PoolInvariant == Spec => []PoolInv
<1>1. Init => PoolInv
  BY SMTT(30), ConstantsAssumption DEF Init, PoolInv, PoolTypes, Stages, Attempts, Queued, Alone
<1>2. PoolInv /\ [Next]_vars => PoolInv'
  BY Zenon, ExchangeKeeps, EvictKeeps, WaitForLockKeeps, MeanwhileKeeps, ConnectKeeps, ConnectedKeeps,
     ConnectFailsKeeps, ClientLeavesKeeps, OutsideKeeps
  DEF Next, IngressStep
<1> QED
  BY <1>1, <1>2, PTL DEF Spec

\* Requests that queue for the lock of a peer never repeat an attempt that has
\* failed in this cool-down, for any number of requests and peers.
THEOREM MeshOneAttempt == Spec => []OneAttemptPerCooldown
<1>1. PoolInv => OneAttemptPerCooldown
  <2>1. ASSUME PoolInv, NEW p \in Peers PROVE refusals[p] <= 1
    BY <2>1 DEF PoolInv, Attempts
  <2> QED
    BY Zenon, <2>1 DEF OneAttemptPerCooldown
<1> QED
  BY <1>1, PoolInvariant, PTL

\* A pooled connection that is open stays in the pool: neither a late failure
\* of an older one nor a second connect replaces it.
THEOREM MeshLiveConnectionKept == Spec => LiveConnectionKept
<1> DEFINE Kept == \A p \in Peers : Usable(p) /\ pool'[p] # pool[p] => pool[p] \notin open'[p]
<1>1. ASSUME PoolInv, Next PROVE Kept
  <2>1. ASSUME NEW r \in Requests, IngressStep(r) PROVE Kept
    <3>1. CASE StreamFails(r) \/ TimeoutSilent(r)
      BY Zenon, <1>1, <3>1, EvictKeeps
    <3>2. CASE Connected(r)
      BY Zenon, <1>1, <3>2, ConnectedKeeps
    <3>3. CASE UNCHANGED pool
      BY Zenon, <3>3
    <3> QED
      BY Zenon, <2>1, <3>1, <3>2, <3>3
      DEF IngressStep, UsePooled, FailedRecently, WaitForLock, ConnectedMeanwhile, FailedMeanwhile,
          Connect, ConnectFails, GetSlots, Send, CoolDown, Timeout, Accepted, Rejected, pooled
  <2>2. CASE UNCHANGED pool
    BY Zenon, <2>2
  <2> QED
    BY Zenon, <1>1, <2>1, <2>2, OutsideKeeps DEF Next, Route, StreamEnds, ClientLeaves, pooled
<1>2. PoolInv /\ [Next]_vars => [Kept]_vars
  BY Zenon, <1>1
<1> QED
  BY <1>2, PoolInvariant, PTL DEF Spec, LiveConnectionKept

=============================================================================
