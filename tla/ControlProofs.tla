--------------------------- MODULE ControlProofs ---------------------------
(***************************************************************************)
(* What the Edges keep in Valkey about hostnames, for any number of Edges, *)
(* tenants, hostnames, handlers, claims and refreshes, and any failures.   *)
(*                                                                         *)
(* Routes: whoever has taken a snapshot holds publish_lock (LockInv), so   *)
(* that no withdrawal comes between a snapshot and its publication         *)
(* (GoneInv), a later snapshot always expires later (ExpiryInv), and the   *)
(* requests a publication covers were made before its snapshot (CoverInv). *)
(*                                                                         *)
(* Ownership: an answer under way is at most AnswerDelay old and was true  *)
(* when the script ran (GrantedInv), so that a confirmation is stored at   *)
(* most that late. While no administrator interferes an owner never        *)
(* changes, and whatever was granted, confirmed or accepted still is the   *)
(* owner's (OwnedInv).                                                     *)
(***************************************************************************)
EXTENDS ControlPlane, TLAPS

---------------------------------------------------------------------------
(* Routes *)

\* Between a snapshot, or the one of stop, and the end of the lock's guard.
Critical == {"snapshot", "sending", "withdrawing all", "removing info"}

Stages == Critical \cup {"start", "registered", "requested", "serving", "withdrawing",
                         "withdrawn", "done", "stopping"}

Types ==
    /\ current \in [Tenants -> Handlers \cup {None}]
    /\ routes \in [Handlers -> 0..TTL] /\ own \in SUBSET Handlers
    /\ own_left \in 0..TTL /\ info_left \in 0..TTL
    /\ requests \in Nat /\ covered \in Nat /\ covering \in Nat
    /\ stopped \in BOOLEAN /\ subscribed \in BOOLEAN /\ notified \in BOOLEAN
    /\ queue \in Seq(Tasks) /\ pc \in [Tasks -> Stages] /\ request \in [Tasks -> Nat]
    /\ sent \in [ads : SUBSET Handlers, left : 0..TTL]
    /\ sync \in {"wait", "fetched", "failed"} /\ fetched \in 0..TTL /\ table \in 0..TTL

LockInv == \A t \in Tasks : pc[t] \in Critical => HoldsLock(t)

\* A registration that is withdrawn is gone from the registry, from Valkey and
\* from the snapshot that is being published.
GoneInv ==
    \A h \in Handlers :
        /\ pc[h] \in {"withdrawing", "withdrawn", "done"} => current[TenantOf[h]] # h
        /\ pc[h] = "withdrawn" =>
             /\ routes[h] = 0
             /\ \A t \in Tasks : pc[t] = "sending" => h \notin sent.ads

StopInv ==
    /\ pc[Ticker] \in {"withdrawing all", "removing info"} => stopped
    /\ stopped => \A t \in Tasks : pc[t] \notin {"snapshot", "sending"}

\* A request up to `covered` was made by a registration that is advertised,
\* one up to `covering` by one that is in the snapshot.
CoverInv ==
    /\ covered <= requests
    /\ \A t \in Tasks :
         /\ request[t] <= requests
         /\ pc[t] \in {"snapshot", "sending"} => covered <= covering /\ covering <= requests
    /\ \A h \in Handlers : pc[h] = "requested" /\ current[TenantOf[h]] = h =>
         /\ request[h] <= covered /\ ~stopped => h \in own \/ own_left = 0
         /\ \A t \in Tasks : pc[t] = "sending" /\ request[h] <= covering => h \in sent.ads

\* What is being published expires after everything in Valkey.
ExpiryInv ==
    /\ OwnSetCoversRoutes
    /\ \A t \in Tasks : pc[t] = "sending" => \A h \in Handlers : routes[h] <= sent.left

\* A peer without a message waiting has read nothing that Valkey drops earlier.
PeerInv ==
    subscribed /\ ~notified =>
        /\ sync = "fetched" => fetched <= routes[Watched]
        /\ sync = "wait" => table <= routes[Watched]

IInv == Types /\ LockInv /\ GoneInv /\ StopInv /\ CoverInv /\ ExpiryInv /\ PeerInv

---------------------------------------------------------------------------
(* The lock *)

\* A new waiter does not change who holds the lock.
LEMMA AppendHead ==
    ASSUME NEW S, NEW q \in Seq(S), NEW x \in S
    PROVE  /\ Append(q, x) \in Seq(S)
           /\ q # <<>> => Append(q, x) # <<>> /\ Head(Append(q, x)) = Head(q)
OBVIOUS

\* Whoever holds the lock keeps everybody else out of the critical steps.
LEMMA Exclusive ==
    ASSUME IInv, NEW t \in Tasks, HoldsLock(t), NEW u \in Tasks, u # t
    PROVE  pc[u] \notin Critical
BY Zenon DEF IInv, LockInv, HoldsLock

\* Handlers and the ticker are tasks, and every handler has a tenant.
LEMMA TaskFacts ==
    /\ Handlers \subseteq Tasks /\ Ticker \in Tasks /\ Ticker \notin Handlers
    /\ None \notin Tasks /\ TTL \in Nat /\ TTL > 0 /\ Watched \in Handlers
    /\ \A h \in Handlers : TenantOf[h] \in Tenants
BY ConstantsAssumption DEF Tasks, Handlers, Ticker

\* When the guard is dropped nobody is in a critical step.
LEMMA UnlockFrees ==
    ASSUME IInv, NEW t \in Tasks, HoldsLock(t), Unlock,
           NEW stage \in Stages \ Critical, Goto(t, stage)
    PROVE  /\ queue' \in Seq(Tasks) /\ pc' \in [Tasks -> Stages] /\ LockInv'
           /\ pc'[t] = stage /\ \A u \in Tasks \ {t} : pc'[u] = pc[u]
           /\ \A u \in Tasks : pc'[u] \notin Critical
<1>1. queue \in Seq(Tasks) /\ queue # <<>> /\ pc \in [Tasks -> Stages]
  BY Zenon DEF IInv, Types, HoldsLock
<1>2. queue' \in Seq(Tasks)
  BY <1>1 DEF Unlock
<1>3. pc' \in [Tasks -> Stages] /\ pc'[t] = stage /\ \A u \in Tasks \ {t} : pc'[u] = pc[u]
  BY Zenon, <1>1 DEF Goto
<1>4. \A u \in Tasks : pc'[u] \notin Critical
  BY Zenon, <1>3, Exclusive
<1> QED
  BY Zenon, <1>2, <1>3, <1>4 DEF LockInv

\* So it is when advertise_now or stop returns, and their locals are gone.
LEMMA ReleaseFrees ==
    ASSUME IInv, NEW t \in Tasks, HoldsLock(t), Release(t),
           NEW stage \in Stages \ Critical, Goto(t, stage)
    PROVE  /\ queue' \in Seq(Tasks) /\ pc' \in [Tasks -> Stages] /\ LockInv'
           /\ pc'[t] = stage /\ \A u \in Tasks \ {t} : pc'[u] = pc[u] /\ request'[u] = request[u]
           /\ \A u \in Tasks : pc'[u] \notin Critical
           /\ request' \in [Tasks -> Nat] /\ request'[t] = 0 /\ covering' \in Nat
           /\ sent' \in [ads : SUBSET Handlers, left : 0..TTL]
<1>1. Unlock
  BY Zenon DEF Release
<1>2. request' \in [Tasks -> Nat] /\ request'[t] = 0 /\ \A u \in Tasks \ {t} : request'[u] = request[u]
  BY Zenon DEF Release, IInv, Types
<1>3. covering' \in Nat /\ sent' \in [ads : SUBSET Handlers, left : 0..TTL]
  BY TaskFacts DEF Release
<1> QED
  BY Zenon, <1>1, <1>2, <1>3, UnlockFrees

---------------------------------------------------------------------------
(* The Valkey commands *)

\* ROUTES_REPLACE_SCRIPT with a snapshot that expires after every route.
LEMMA ReplaceGives ==
    ASSUME IInv, NEW ads \in SUBSET Handlers, NEW left \in 0..TTL,
           \A h \in Handlers : routes[h] <= left,
           ReplaceRoutes(ads, left), UNCHANGED <<subscribed, sync, fetched, table>>
    PROVE  /\ routes' \in [Handlers -> 0..TTL] /\ own' = ads /\ own_left' \in 0..TTL
           /\ notified' \in BOOLEAN
           /\ OwnSetCoversRoutes' /\ PeerInv'
           /\ \A h \in Handlers : h \notin ads /\ routes[h] = 0 => routes'[h] = 0
           /\ ads = {} => own_left' = own_left
<1> USE DEF IInv
<1>1. /\ routes' = [h \in Handlers |-> IF h \in ads THEN left ELSE IF h \in own THEN 0 ELSE routes[h]]
      /\ own' = ads /\ own_left' = OwnExpiry(ads)
      /\ notified' = (notified \/ (subscribed /\ Notifies(ads, {h \in own \ ads : routes[h] > 0})))
  BY Zenon DEF ReplaceRoutes
<1>2. routes \in [Handlers -> 0..TTL] /\ own \in SUBSET Handlers /\ own_left \in 0..TTL
  BY Zenon DEF Types
<1>3. routes' \in [Handlers -> 0..TTL] /\ own_left' \in 0..TTL
  BY <1>1, <1>2, TaskFacts DEF OwnExpiry
<1>4. \A h \in Handlers : routes'[h] = IF h \in ads THEN left ELSE IF h \in own THEN 0 ELSE routes[h]
  BY Zenon, <1>1
<1>5. \A h \in Handlers : h \notin own => routes[h] = 0
  BY <1>2, TaskFacts DEF ExpiryInv, OwnSetCoversRoutes
<1>6. OwnSetCoversRoutes'
  BY <1>1, <1>2, <1>4, <1>5, TaskFacts DEF OwnSetCoversRoutes, OwnExpiry
<1>7. notified' \in BOOLEAN
  BY Zenon, <1>1
<1>8. subscribed /\ ~notified' => routes[Watched] <= routes'[Watched]
  <2>1. CASE Watched \in own \ ads /\ routes[Watched] > 0
    BY Zenon, <1>1, <2>1 DEF Notifies
  <2>2. CASE ~(Watched \in own \ ads /\ routes[Watched] > 0)
    BY <1>2, <1>4, <1>5, <2>2, TaskFacts
  <2> QED
    BY Zenon, <2>1, <2>2
<1>9. PeerInv'
  <2>1. notified => notified'
    BY Zenon, <1>1
  <2>2. /\ routes[Watched] \in Nat /\ routes'[Watched] \in Nat
        /\ fetched \in Nat /\ table \in Nat
    BY <1>2, <1>3, TaskFacts DEF Types
  <2> QED
    BY <1>8, <2>1, <2>2 DEF PeerInv
<1>10. ads = {} => own_left' = own_left
  BY Zenon, <1>1 DEF OwnExpiry
<1> QED
  BY Zenon, <1>1, <1>3, <1>4, <1>5, <1>6, <1>7, <1>9, <1>10

\* withdraw_routes, which tells every subscriber.
LEMMA RemoveGives ==
    ASSUME IInv, NEW ads \in SUBSET Handlers,
           RemoveRoutes(ads), UNCHANGED <<own_left, subscribed, sync, fetched, table>>
    PROVE  /\ routes' \in [Handlers -> 0..TTL] /\ own' = own \ ads /\ notified' \in BOOLEAN
           /\ OwnSetCoversRoutes' /\ PeerInv'
           /\ \A h \in Handlers : routes'[h] <= routes[h] /\ (h \in ads => routes'[h] = 0)
<1> USE DEF IInv
<1>1. /\ routes' = [h \in Handlers |-> IF h \in ads THEN 0 ELSE routes[h]]
      /\ own' = own \ ads /\ notified' = (notified \/ subscribed)
  BY Zenon DEF RemoveRoutes
<1>2. routes \in [Handlers -> 0..TTL] /\ own_left \in 0..TTL
  BY Zenon DEF Types
<1>3. /\ routes' \in [Handlers -> 0..TTL]
      /\ \A h \in Handlers : routes'[h] = IF h \in ads THEN 0 ELSE routes[h]
  BY <1>1, <1>2, TaskFacts
<1>4. OwnSetCoversRoutes'
  BY <1>1, <1>2, <1>3 DEF ExpiryInv, OwnSetCoversRoutes
<1>5. PeerInv' /\ notified' \in BOOLEAN
  BY Zenon, <1>1 DEF PeerInv
<1> QED
  BY <1>1, <1>2, <1>3, <1>4, <1>5, TaskFacts

---------------------------------------------------------------------------
(* The steps of a task *)

\* A new request is above everything that is covered.
LEMMA RequestKeeps == ASSUME IInv, NEW t \in Tasks, Request(t) PROVE IInv'
<1> USE DEF IInv
<1>1. /\ pc[t] \in {"registered", "start"} /\ pc' \in [Tasks -> Stages] /\ pc'[t] = "requested"
      /\ \A u \in Tasks \ {t} : pc'[u] = pc[u] /\ request'[u] = request[u]
      /\ request' \in [Tasks -> Nat] /\ request'[t] = requests + 1 /\ requests' = requests + 1
      /\ UNCHANGED <<current, valkey, published, covered, stopped, queue, covering, sent, notified, peer>>
  BY DEF Request, Goto, Types, Stages
<1>2. Types'
  BY Zenon, <1>1 DEF Types, valkey, peer
<1>3. LockInv' /\ GoneInv' /\ StopInv'
  <2>1. LockInv'
    BY Zenon, <1>1 DEF LockInv, HoldsLock, Critical
  <2>2. GoneInv'
    BY <1>1, TaskFacts DEF GoneInv, valkey
  <2>3. StopInv'
    BY Zenon, <1>1, TaskFacts DEF StopInv
  <2> QED
    BY Zenon, <2>1, <2>2, <2>3
<1>4. CoverInv'
  <2>1. covered \in Nat /\ requests \in Nat /\ covering \in Nat /\ request \in [Tasks -> Nat]
    BY Zenon DEF Types
  <2> QED
    BY <1>1, <2>1, TaskFacts DEF CoverInv, valkey
<1>5. ExpiryInv' /\ PeerInv'
  BY Zenon, <1>1 DEF ExpiryInv, OwnSetCoversRoutes, PeerInv, valkey, peer
<1> QED
  BY Zenon, <1>2, <1>3, <1>4, <1>5

\* A task that only queues for the lock, and may move on to wait for it.
LEMMA QueueKeeps ==
    ASSUME IInv, NEW t \in Tasks, queue' = Append(queue, t),
           pc' \in [Tasks -> Stages], \A u \in Tasks \ {t} : pc'[u] = pc[u],
           pc'[t] # pc[t] => pc'[t] \in {"withdrawing", "stopping"},
           pc'[t] = "withdrawing" => t \in Handlers /\ current'[TenantOf[t]] # t,
           current' \in [Tenants -> Handlers \cup {None}],
           \A n \in Tenants : current'[n] \in {current[n], None},
           UNCHANGED <<valkey, state, request, covering, sent, notified, peer>>
    PROVE  IInv'
<1> USE DEF IInv
<1>1. queue' \in Seq(Tasks) /\ (queue # <<>> => queue' # <<>> /\ Head(queue') = Head(queue))
  BY AppendHead DEF Types
<1>2. Types'
  BY Zenon, <1>1 DEF Types, valkey, state, peer
<1>3. LockInv'
  BY Zenon, <1>1 DEF LockInv, HoldsLock, Critical
<1>4. GoneInv'
  BY TaskFacts DEF GoneInv, valkey
<1>5. StopInv' /\ ExpiryInv' /\ PeerInv'
  BY Zenon, TaskFacts DEF StopInv, ExpiryInv, OwnSetCoversRoutes, PeerInv, valkey, state, peer
<1>6. CoverInv'
  BY TaskFacts DEF CoverInv, valkey, state
<1> QED
  BY Zenon, <1>2, <1>3, <1>4, <1>5, <1>6

\* Queueing for the lock, for a withdrawal or for stop.
LEMMA LockKeeps == ASSUME IInv, NEW t \in Tasks, Lock(t) PROVE IInv'
BY Zenon, QueueKeeps DEF Lock, IInv, Types

\* stop queues for the lock.
LEMMA StoppingKeeps == ASSUME IInv, Stopping PROVE IInv'
<1>1. pc' \in [Tasks -> Stages] /\ pc'[Ticker] = "stopping"
      /\ \A u \in Tasks \ {Ticker} : pc'[u] = pc[u]
  BY Zenon, TaskFacts DEF Stopping, Goto, IInv, Types, Stages
<1> QED
  BY Zenon, <1>1, TaskFacts, QueueKeeps DEF Stopping, IInv, Types

\* The registration is gone before its withdrawal queues for the lock.
LEMMA DisconnectKeeps == ASSUME IInv, NEW h \in Handlers, Disconnect(h) PROVE IInv'
<1>1. CASE current[TenantOf[h]] = h
  <2>1. /\ queue' = Append(queue, h) /\ current' = [current EXCEPT ![TenantOf[h]] = None]
        /\ UNCHANGED <<valkey, state, request, covering, sent, notified, peer>>
    BY Zenon, <1>1 DEF Disconnect
  <2>2. /\ pc' \in [Tasks -> Stages] /\ pc'[h] = "withdrawing"
        /\ \A u \in Tasks \ {h} : pc'[u] = pc[u]
    BY Zenon, <1>1, TaskFacts DEF Disconnect, Goto, IInv, Types, Stages
  <2>3. /\ current' \in [Tenants -> Handlers \cup {None}] /\ current'[TenantOf[h]] = None
        /\ \A n \in Tenants : current'[n] \in {current[n], None}
    BY Zenon, <2>1, TaskFacts DEF IInv, Types
  <2>4. h \in Tasks /\ None # h
    BY Zenon, TaskFacts
  <2> QED
    BY Zenon, <2>1, <2>2, <2>3, <2>4, QueueKeeps
<1>2. CASE current[TenantOf[h]] # h
  <2> USE DEF IInv
  <2>1. /\ pc' \in [Tasks -> Stages] /\ pc[h] = "serving" /\ pc'[h] = "done"
        /\ \A u \in Tasks \ {h} : pc'[u] = pc[u]
        /\ UNCHANGED <<current, queue, valkey, state, request, covering, sent, notified, peer>>
    BY Zenon, <1>2, TaskFacts DEF Disconnect, Goto, Types, Stages
  <2>2. Types' /\ LockInv'
    BY Zenon, <2>1, TaskFacts DEF Types, LockInv, HoldsLock, Critical, valkey, state, peer
  <2>3. GoneInv' /\ StopInv'
    BY Zenon, <1>2, <2>1, TaskFacts DEF GoneInv, StopInv, valkey, state
  <2>4. CoverInv'
    BY Zenon, <2>1, TaskFacts DEF CoverInv, valkey, state
  <2>5. ExpiryInv' /\ PeerInv'
    BY Zenon, <2>1, TaskFacts DEF ExpiryInv, OwnSetCoversRoutes, PeerInv, valkey, peer
  <2> QED
    BY Zenon, <2>2, <2>3, <2>4, <2>5
<1> QED
  BY Zenon, <1>1, <1>2

\* A new registration replaces the one before it, whose request is void.
LEMMA RegisterKeeps == ASSUME IInv, NEW h \in Handlers, Register(h) PROVE IInv'
<1> USE DEF IInv
<1>1. /\ pc[h] = "start" /\ pc' \in [Tasks -> Stages] /\ pc'[h] = "registered"
      /\ \A u \in Tasks \ {h} : pc'[u] = pc[u]
      /\ UNCHANGED <<queue, valkey, state, request, covering, sent, notified, peer>>
  BY Zenon, TaskFacts DEF Register, Goto, Types, Stages
<1>2. /\ current' \in [Tenants -> Handlers \cup {None}]
      /\ \A n \in Tenants : current'[n] = IF n = TenantOf[h] THEN h ELSE current[n]
  BY Zenon, TaskFacts DEF Register, Types
<1>3. Types' /\ LockInv'
  BY Zenon, <1>1, <1>2, TaskFacts DEF Types, LockInv, HoldsLock, Critical, valkey, state, peer
<1>4. GoneInv' /\ StopInv'
  <2>1. GoneInv'
    BY <1>1, <1>2, TaskFacts DEF GoneInv, valkey
  <2>2. StopInv'
    BY Zenon, <1>1, TaskFacts DEF StopInv, state
  <2> QED
    BY Zenon, <2>1, <2>2
<1>5. CoverInv'
  BY SMTT(30), <1>1, <1>2, TaskFacts DEF CoverInv, valkey, state
<1>6. ExpiryInv' /\ PeerInv'
  BY Zenon, <1>1, TaskFacts DEF ExpiryInv, OwnSetCoversRoutes, PeerInv, valkey, peer
<1> QED
  BY Zenon, <1>3, <1>4, <1>5, <1>6

\* advertise_now returns without a publication.
LEMMA ReturnKeeps ==
    ASSUME IInv, NEW t \in Tasks, pc[t] = "requested", HoldsLock(t), Release(t),
           Goto(t, AfterAdvertise(t)), info_left' \in 0..TTL,
           UNCHANGED <<current, routes, own, own_left, state, notified, peer>>
    PROVE  IInv'
<1> USE DEF IInv
<1>1. AfterAdvertise(t) \in Stages \ Critical /\ AfterAdvertise(t) \in {"start", "serving"}
  BY Zenon DEF AfterAdvertise, Stages, Critical
<1>2. /\ queue' \in Seq(Tasks) /\ pc' \in [Tasks -> Stages] /\ LockInv'
      /\ pc'[t] \in {"start", "serving"}
      /\ \A u \in Tasks \ {t} : pc'[u] = pc[u] /\ request'[u] = request[u]
      /\ \A u \in Tasks : pc'[u] \notin Critical
      /\ request' \in [Tasks -> Nat] /\ request'[t] = 0 /\ covering' \in Nat
      /\ sent' \in [ads : SUBSET Handlers, left : 0..TTL]
  BY Zenon, <1>1, ReleaseFrees
<1>3. Types'
  BY Zenon, <1>2 DEF Types, state, peer
<1>4. GoneInv' /\ StopInv'
  BY ZenonT(30), <1>2, TaskFacts DEF GoneInv, StopInv, Critical, state
<1>5. CoverInv'
  <2>1. requests \in Nat /\ UNCHANGED <<requests, covered, stopped>>
    BY Zenon DEF Types, state
  <2>2. \A u \in Tasks : request'[u] <= requests /\ pc'[u] \notin {"snapshot", "sending"}
    <3>1. \A u \in Tasks : pc'[u] \notin {"snapshot", "sending"}
      BY Zenon, <1>2 DEF Critical
    <3>2. request'[t] <= requests
      BY <1>2, <2>1
    <3>3. \A u \in Tasks \ {t} : request'[u] <= requests
      BY Zenon, <1>2 DEF CoverInv
    <3> QED
      BY Zenon, <3>1, <3>2, <3>3
  <2>3. \A h \in Handlers : pc'[h] = "requested" /\ current[TenantOf[h]] = h =>
          (request'[h] <= covered /\ ~stopped => h \in own \/ own_left = 0)
    BY Zenon, <1>2, TaskFacts DEF CoverInv
  <2> QED
    BY Zenon, <2>1, <2>2, <2>3, TaskFacts DEF CoverInv
<1>6. ExpiryInv' /\ PeerInv'
  BY Zenon, <1>2, TaskFacts DEF ExpiryInv, OwnSetCoversRoutes, PeerInv, Critical, peer
<1> QED
  BY Zenon, <1>2, <1>3, <1>4, <1>5, <1>6

\* The request was covered, or the Edge has stopped.
LEMMA SkipKeeps == ASSUME IInv, NEW t \in Tasks, Skip(t) PROVE IInv'
BY Zenon, ReturnKeeps DEF Skip, valkey, IInv, Types

\* The requests so far will be covered; nobody else is publishing.
LEMMA PublishInfoKeeps == ASSUME IInv, NEW t \in Tasks, PublishInfo(t) PROVE IInv'
<1>1. /\ pc[t] = "requested" /\ HoldsLock(t) /\ ~stopped
      /\ UNCHANGED <<current, routes, own, own_left, state, notified, peer>>
  BY Zenon DEF PublishInfo, Skips
<1>2. info_left' \in 0..TTL
  BY TaskFacts DEF PublishInfo, IInv, Types
<1>3. CASE Release(t) /\ Goto(t, AfterAdvertise(t))
  BY Zenon, <1>1, <1>2, <1>3, ReturnKeeps
<1>4. CASE covering' = requests /\ Goto(t, "snapshot") /\ UNCHANGED <<queue, request, sent>>
  <2> USE DEF IInv
  <2>1. /\ pc' \in [Tasks -> Stages] /\ pc'[t] = "snapshot"
        /\ \A u \in Tasks \ {t} : pc'[u] = pc[u] /\ pc[u] \notin Critical
    BY Zenon, <1>1, <1>4, Exclusive DEF Goto, Types, Stages, Critical
  <2>2. Types' /\ LockInv'
    BY Zenon, <1>1, <1>2, <1>4, <2>1 DEF Types, LockInv, HoldsLock, state, peer
  <2>3. GoneInv' /\ StopInv'
    BY ZenonT(30), <1>1, <1>4, <2>1, TaskFacts DEF GoneInv, StopInv, Critical, state
  <2>4. CoverInv'
    <3>1. requests \in Nat /\ UNCHANGED <<requests, covered, stopped>>
      BY Zenon, <1>1 DEF Types, state
    <3>2. \A u \in Tasks : pc'[u] # "sending" /\ request'[u] <= requests
      BY Zenon, <1>4, <2>1 DEF CoverInv, Critical
    <3>3. \A h \in Handlers : pc'[h] = "requested" /\ current[TenantOf[h]] = h =>
            (request'[h] <= covered /\ ~stopped => h \in own \/ own_left = 0)
      BY Zenon, <1>4, <2>1, TaskFacts DEF CoverInv
    <3>4. covered <= requests /\ covering' = requests
      BY Zenon, <1>4 DEF CoverInv
    <3> QED
      BY <1>1, <3>1, <3>2, <3>3, <3>4, TaskFacts DEF CoverInv
  <2>5. ExpiryInv' /\ PeerInv'
    BY Zenon, <1>1, <1>4, <2>1, TaskFacts DEF ExpiryInv, OwnSetCoversRoutes, PeerInv, Critical, peer
  <2> QED
    BY Zenon, <2>2, <2>3, <2>4, <2>5
<1> QED
  BY Zenon, <1>3, <1>4 DEF PublishInfo

\* The snapshot holds every registration that is current, and expires last.
LEMMA SnapshotKeeps == ASSUME IInv, NEW t \in Tasks, Snapshot(t) PROVE IInv'
<1> USE DEF IInv
<1>1. /\ pc[t] = "snapshot" /\ sent'.ads = LocalAds /\ sent'.left = TTL
      /\ sent' \in [ads : SUBSET Handlers, left : 0..TTL]
      /\ UNCHANGED <<current, valkey, state, queue, request, covering, notified, peer>>
  BY TaskFacts DEF Snapshot, LocalAds
<1>2. HoldsLock(t)
  BY Zenon, <1>1 DEF LockInv, Critical
<1>3. /\ pc' \in [Tasks -> Stages] /\ pc'[t] = "sending"
      /\ \A u \in Tasks \ {t} : pc'[u] = pc[u] /\ pc[u] \notin Critical
  BY Zenon, <1>2, Exclusive DEF Snapshot, Goto, Types, Stages, Critical
<1>4. Types' /\ LockInv'
  BY Zenon, <1>1, <1>2, <1>3 DEF Types, LockInv, HoldsLock, valkey, state, peer
<1>5. GoneInv'
  BY Zenon, <1>1, <1>3, TaskFacts DEF GoneInv, LocalAds, valkey
<1>6. StopInv'
  BY Zenon, <1>1, <1>3, TaskFacts DEF StopInv, Critical, state
<1>7. CoverInv'
  <2>1. \A h \in Handlers : pc'[h] = "requested" => pc[h] = "requested"
    BY Zenon, <1>3, TaskFacts
  <2>2. \A h \in Handlers : current[TenantOf[h]] = h => h \in sent'.ads
    BY Zenon, <1>1 DEF LocalAds
  <2>3. \A u \in Tasks : pc'[u] \in {"snapshot", "sending"} => covered <= covering /\ covering <= requests
    BY Zenon, <1>1, <1>3 DEF CoverInv, Critical
  <2> QED
    BY Zenon, <1>1, <2>1, <2>2, <2>3 DEF CoverInv, valkey, state
<1>8. ExpiryInv'
  <2>1. \A h \in Handlers : routes[h] <= TTL
    BY TaskFacts DEF Types
  <2> QED
    BY Zenon, <1>1, <2>1 DEF ExpiryInv, OwnSetCoversRoutes, valkey
<1>9. PeerInv'
  BY Zenon, <1>1 DEF PeerInv, valkey, peer
<1> QED
  BY Zenon, <1>4, <1>5, <1>6, <1>7, <1>8, <1>9

\* The publication, whether its answer arrives or not: what a covered request
\* stands for is in the snapshot.
LEMMA PublishRoutesKeeps == ASSUME IInv, NEW t \in Tasks, PublishRoutes(t) PROVE IInv'
<1> USE DEF IInv
<1>1. /\ pc[t] = "sending" /\ HoldsLock(t)
      /\ UNCHANGED <<current, info_left, requests, stopped, peer>>
      /\ sent.ads \in SUBSET Handlers /\ sent.left \in 0..TTL
      /\ \A h \in Handlers : routes[h] <= sent.left
  BY Zenon DEF PublishRoutes, LockInv, Critical, ExpiryInv, Types
<1>2. AfterAdvertise(t) \in Stages \ Critical /\ AfterAdvertise(t) \in {"start", "serving"}
  BY Zenon DEF AfterAdvertise, Stages, Critical
<1>3. /\ queue' \in Seq(Tasks) /\ pc' \in [Tasks -> Stages] /\ LockInv'
      /\ pc'[t] \in {"start", "serving"}
      /\ \A u \in Tasks \ {t} : pc'[u] = pc[u] /\ request'[u] = request[u]
      /\ \A u \in Tasks : pc'[u] \notin Critical
      /\ request' \in [Tasks -> Nat] /\ request'[t] = 0 /\ covering' \in Nat
      /\ sent' \in [ads : SUBSET Handlers, left : 0..TTL]
  BY ZenonT(30), <1>1, <1>2, ReleaseFrees DEF PublishRoutes
<1>4. covered' \in {covered, covering} /\ covered \in Nat /\ covering \in Nat /\ requests \in Nat
      /\ covered <= covering /\ covering <= requests
  BY Zenon, <1>1 DEF PublishRoutes, CoveredByPublish, CoverInv, Types
<1>5. /\ routes' \in [Handlers -> 0..TTL] /\ own' \in SUBSET Handlers /\ own_left' \in 0..TTL
      /\ notified' \in BOOLEAN /\ OwnSetCoversRoutes' /\ PeerInv'
      /\ \A h \in Handlers : h \notin sent.ads /\ routes[h] = 0 => routes'[h] = 0
  <2>1. CASE ReplaceRoutes(sent.ads, sent.left)
    BY Zenon, <1>1, <2>1, ReplaceGives DEF peer
  <2>2. CASE UNCHANGED <<routes, own, own_left, notified>>
    BY Zenon, <1>1, <2>2 DEF Types, ExpiryInv, OwnSetCoversRoutes, PeerInv, peer
  <2> QED
    BY Zenon, <2>1, <2>2 DEF PublishRoutes
<1>6. Types'
  BY Zenon, <1>1, <1>3, <1>4, <1>5 DEF Types, peer
<1>7. GoneInv'
  BY Zenon, <1>1, <1>3, <1>5, TaskFacts DEF GoneInv, Critical
<1>8. StopInv'
  BY Zenon, <1>1, <1>3, TaskFacts DEF StopInv, Critical
<1>9. CoverInv'
  <2>1. \A u \in Tasks : request'[u] <= requests
    <3>1. \A u \in Tasks \ {t} : request'[u] <= requests
      BY Zenon, <1>3 DEF CoverInv
    <3> QED
      BY <1>3, <1>4, <3>1
  <2>2. covered' <= requests
    BY <1>4
  <2>3. ASSUME NEW h \in Handlers, pc'[h] = "requested", current[TenantOf[h]] = h, request'[h] <= covered'
        PROVE  h \in own' \/ own_left' = 0
    <3>1. pc[h] = "requested" /\ request[h] \in Nat /\ request[h] <= covered'
      BY Zenon, <1>3, <2>3, TaskFacts DEF Types
    <3>2. request[h] <= covering
      BY <1>4, <3>1
    <3>3. h \in sent.ads
      BY Zenon, <1>1, <2>3, <3>1, <3>2 DEF CoverInv
    <3>4. CASE ReplaceRoutes(sent.ads, sent.left)
      BY Zenon, <3>3, <3>4 DEF ReplaceRoutes
    <3>5. CASE UNCHANGED <<own, own_left>> /\ covered' = covered
      <4>1. ~stopped
        BY Zenon, <1>1 DEF StopInv
      <4> QED
        BY Zenon, <2>3, <3>1, <3>5, <4>1 DEF CoverInv
    <3> QED
      BY Zenon, <3>4, <3>5 DEF PublishRoutes, Executed
  <2>4. \A u \in Tasks : pc'[u] \notin {"snapshot", "sending"}
    BY Zenon, <1>3 DEF Critical
  <2> QED
    BY Zenon, <1>1, <2>1, <2>2, <2>3, <2>4, TaskFacts DEF CoverInv
<1>10. ExpiryInv'
  BY Zenon, <1>3, <1>5 DEF ExpiryInv, Critical
<1> QED
  BY Zenon, <1>3, <1>5, <1>6, <1>7, <1>8, <1>9, <1>10

\* The lock is held, so nobody is about to publish the registration again.
LEMMA WithdrawKeeps == ASSUME IInv, NEW h \in Handlers, Withdraw(h) PROVE IInv'
<1> USE DEF IInv
<1>1. /\ pc[h] = "withdrawing" /\ HoldsLock(h) /\ Unlock
      /\ UNCHANGED <<current, own_left, info_left, requests, covered, stopped, request,
                     covering, sent, peer>>
  BY Zenon DEF Withdraw, WithdrawsLocked
<1>2. PICK stage \in {"withdrawn", "done"} :
        Goto(h, stage) /\ (stage = "withdrawn" => RemoveRoutes({h}))
  BY Zenon DEF Withdraw, Executed
<1>3. RemoveRoutes({h}) \/ UNCHANGED <<routes, own, notified>>
  BY Zenon DEF Withdraw
<1>4. stage \in Stages \ Critical /\ h \in Tasks
  BY Zenon, TaskFacts DEF Stages, Critical
<1>5. /\ queue' \in Seq(Tasks) /\ pc' \in [Tasks -> Stages] /\ LockInv' /\ pc'[h] = stage
      /\ \A u \in Tasks \ {h} : pc'[u] = pc[u]
      /\ \A u \in Tasks : pc'[u] \notin Critical
  BY Zenon, <1>1, <1>2, <1>4, UnlockFrees
<1>6. /\ routes' \in [Handlers -> 0..TTL] /\ own' \in {own, own \ {h}} /\ notified' \in BOOLEAN
      /\ OwnSetCoversRoutes' /\ PeerInv'
      /\ \A g \in Handlers : routes'[g] <= routes[g]
      /\ stage = "withdrawn" => routes'[h] = 0
  <2>1. CASE RemoveRoutes({h})
    BY Zenon, <1>1, <2>1, RemoveGives DEF peer
  <2>2. CASE UNCHANGED <<routes, own, notified>> /\ stage # "withdrawn"
    BY SMTT(30), <1>1, <2>2, TaskFacts DEF Types, ExpiryInv, OwnSetCoversRoutes, PeerInv, peer
  <2> QED
    BY Zenon, <1>2, <1>3, <2>1, <2>2
<1>7. Types'
  BY Zenon, <1>1, <1>5, <1>6 DEF Types, peer
<1>8. GoneInv'
  <2>1. \A g \in Handlers : routes[g] \in 0..TTL /\ routes'[g] \in 0..TTL
    BY Zenon, <1>6 DEF Types
  <2>2. \A g \in Handlers : routes[g] = 0 => routes'[g] = 0
    BY <1>6, <2>1, TaskFacts
  <2> QED
    BY Zenon, <1>1, <1>5, <1>6, <2>2, TaskFacts DEF GoneInv, Critical
<1>9. StopInv'
  BY Zenon, <1>1, <1>5, TaskFacts DEF StopInv, Critical
<1>10. CoverInv'
  <2>1. \A g \in Handlers : pc'[g] = "requested" => pc[g] = "requested" /\ g # h
    BY Zenon, <1>1, <1>5, TaskFacts
  <2>2. \A u \in Tasks : pc'[u] \notin {"snapshot", "sending"}
    BY Zenon, <1>5 DEF Critical
  <2> QED
    BY Zenon, <1>1, <1>6, <2>1, <2>2, TaskFacts DEF CoverInv
<1>11. ExpiryInv'
  BY Zenon, <1>5, <1>6 DEF ExpiryInv, Critical
<1> QED
  BY Zenon, <1>5, <1>6, <1>7, <1>8, <1>9, <1>10, <1>11

\* The flag is set while nobody publishes.
LEMMA StopKeeps == ASSUME IInv, Stop PROVE IInv'
<1> USE DEF IInv
<1>1. /\ pc[Ticker] = "stopping" /\ HoldsLock(Ticker) /\ stopped' = TRUE
      /\ sent' \in [ads : SUBSET Handlers, left : 0..TTL]
      /\ UNCHANGED <<current, valkey, requests, covered, queue, request, covering, notified, peer>>
  <2>1. [ads |-> LocalAds, left |-> 0] \in [ads : SUBSET Handlers, left : 0..TTL]
    BY TaskFacts DEF LocalAds
  <2> QED
    BY Zenon, <2>1 DEF Stop
<1>2. /\ pc' \in [Tasks -> Stages] /\ pc'[Ticker] = "withdrawing all"
      /\ \A u \in Tasks \ {Ticker} : pc'[u] = pc[u] /\ pc[u] \notin Critical
  BY Zenon, <1>1, Exclusive, TaskFacts DEF Stop, Goto, Types, Stages, Critical
<1>3. \A u \in Tasks : pc'[u] \notin {"snapshot", "sending"}
  BY Zenon, <1>2 DEF Critical
<1>4. Types' /\ LockInv'
  BY Zenon, <1>1, <1>2 DEF Types, LockInv, HoldsLock, valkey, peer
<1>5. GoneInv' /\ StopInv'
  BY Zenon, <1>1, <1>2, <1>3, TaskFacts DEF GoneInv, StopInv, valkey
<1>6. CoverInv'
  BY Zenon, <1>1, <1>3, TaskFacts DEF CoverInv, valkey
<1>7. ExpiryInv' /\ PeerInv'
  BY Zenon, <1>1, <1>3 DEF ExpiryInv, OwnSetCoversRoutes, PeerInv, valkey, peer
<1> QED
  BY Zenon, <1>4, <1>5, <1>6, <1>7

\* stop withdraws what is registered.
LEMMA StopWithdrawsKeeps == ASSUME IInv, StopWithdraws PROVE IInv'
<1> USE DEF IInv
<1>1. /\ pc[Ticker] = "withdrawing all" /\ HoldsLock(Ticker) /\ stopped /\ sent.ads \in SUBSET Handlers
      /\ UNCHANGED <<current, own_left, info_left, requests, covered, stopped, queue,
                     request, covering, sent, peer>>
  BY Zenon, TaskFacts DEF StopWithdraws, LockInv, Critical, StopInv, Types
<1>2. /\ pc' \in [Tasks -> Stages] /\ pc'[Ticker] = "removing info"
      /\ \A u \in Tasks \ {Ticker} : pc'[u] = pc[u] /\ pc[u] \notin Critical
  BY Zenon, <1>1, Exclusive, TaskFacts DEF StopWithdraws, Goto, Types, Stages, Critical
<1>3. \A u \in Tasks : pc'[u] \notin {"snapshot", "sending"}
  BY Zenon, <1>2 DEF Critical
<1>4. /\ routes' \in [Handlers -> 0..TTL] /\ own' \in SUBSET Handlers /\ notified' \in BOOLEAN
      /\ OwnSetCoversRoutes' /\ PeerInv'
      /\ \A g \in Handlers : routes'[g] <= routes[g]
  <2>1. CASE RemoveRoutes(sent.ads)
    <3>1. own' = own \ sent.ads
      BY Zenon, <2>1 DEF RemoveRoutes
    <3> QED
      BY Zenon, <1>1, <2>1, <3>1, RemoveGives DEF peer, Types
  <2>2. CASE UNCHANGED <<routes, own, notified>>
    <3>1. \A g \in Handlers : routes[g] \in 0..TTL
      BY Zenon DEF Types
    <3>2. OwnSetCoversRoutes' /\ PeerInv'
      BY Zenon, <1>1, <2>2 DEF ExpiryInv, OwnSetCoversRoutes, PeerInv, peer
    <3>3. routes' \in [Handlers -> 0..TTL] /\ own' \in SUBSET Handlers /\ notified' \in BOOLEAN
      BY Zenon, <2>2 DEF Types
    <3> QED
      BY <2>2, <3>1, <3>2, <3>3, TaskFacts
  <2> QED
    BY Zenon, <2>1, <2>2 DEF StopWithdraws
<1>5. Types' /\ LockInv'
  BY Zenon, <1>1, <1>2, <1>4 DEF Types, LockInv, HoldsLock, peer
<1>6. GoneInv'
  <2>1. \A g \in Handlers : routes[g] = 0 => routes'[g] = 0
    <3>1. \A g \in Handlers : routes[g] \in 0..TTL /\ routes'[g] \in 0..TTL
      BY Zenon, <1>4 DEF Types
    <3> QED
      BY <1>4, <3>1, TaskFacts
  <2> QED
    BY Zenon, <1>1, <1>2, <1>3, <2>1, TaskFacts DEF GoneInv
<1>7. StopInv' /\ CoverInv'
  BY Zenon, <1>1, <1>2, <1>3, TaskFacts DEF StopInv, CoverInv
<1>8. ExpiryInv'
  BY Zenon, <1>3, <1>4 DEF ExpiryInv
<1> QED
  BY Zenon, <1>4, <1>5, <1>6, <1>7, <1>8

\* stop ends with the Edge's address.
LEMMA StopRemovesInfoKeeps == ASSUME IInv, StopRemovesInfo PROVE IInv'
<1> USE DEF IInv
<1>1. /\ pc[Ticker] = "removing info" /\ HoldsLock(Ticker) /\ stopped
      /\ UNCHANGED <<current, routes, own, own_left, state, notified, peer>>
  BY Zenon, TaskFacts DEF StopRemovesInfo, LockInv, Critical, StopInv
<1>2. info_left' \in 0..TTL
  <2>1. info_left' \in {0, info_left}
    BY Zenon DEF StopRemovesInfo
  <2> QED
    BY <2>1, TaskFacts DEF Types
<1>3. "done" \in Stages \ Critical /\ Ticker \in Tasks
  BY Zenon, TaskFacts DEF Stages, Critical
<1>4. /\ queue' \in Seq(Tasks) /\ pc' \in [Tasks -> Stages] /\ LockInv' /\ pc'[Ticker] = "done"
      /\ \A u \in Tasks \ {Ticker} : pc'[u] = pc[u] /\ request'[u] = request[u]
      /\ \A u \in Tasks : pc'[u] \notin Critical
      /\ request' \in [Tasks -> Nat] /\ request'[Ticker] = 0 /\ covering' \in Nat
      /\ sent' \in [ads : SUBSET Handlers, left : 0..TTL]
  BY Zenon, <1>1, <1>3, ReleaseFrees DEF StopRemovesInfo
<1>5. Types'
  BY Zenon, <1>1, <1>2, <1>4 DEF Types, state, peer
<1>6. GoneInv' /\ StopInv'
  BY Zenon, <1>1, <1>4, TaskFacts DEF GoneInv, StopInv, Critical, state
<1>7. CoverInv'
  <2>1. \A u \in Tasks : request'[u] <= requests
    <3>1. \A u \in Tasks \ {Ticker} : request'[u] <= requests
      BY Zenon, <1>4 DEF CoverInv
    <3>2. requests \in Nat
      BY Zenon DEF Types
    <3> QED
      BY <1>4, <3>1, <3>2
  <2>2. \A u \in Tasks : pc'[u] \notin {"snapshot", "sending"}
    BY Zenon, <1>4 DEF Critical
  <2> QED
    BY Zenon, <1>1, <2>1, <2>2, TaskFacts DEF CoverInv, state
<1>8. ExpiryInv' /\ PeerInv'
  BY Zenon, <1>1, <1>4, TaskFacts DEF ExpiryInv, OwnSetCoversRoutes, PeerInv, Critical, peer
<1> QED
  BY Zenon, <1>4, <1>5, <1>6, <1>7, <1>8

---------------------------------------------------------------------------
(* The peer, the shutdown token and time *)

\* A sync starts from what Valkey holds, and a failed one keeps the old table.
LEMMA PeerKeeps == ASSUME IInv, PeerStep PROVE IInv'
<1> USE DEF IInv
<1>1. UNCHANGED <<current, valkey, state, queue, pc, request, covering, sent>>
  BY Zenon DEF PeerStep, FetchRoutes, SubscriptionEnds, ReplaceTable, SyncFails
<1>2. LockInv' /\ GoneInv' /\ StopInv'
  BY Zenon, <1>1 DEF LockInv, HoldsLock, GoneInv, StopInv, valkey, state
<1>3. CoverInv' /\ ExpiryInv'
  BY Zenon, <1>1 DEF CoverInv, ExpiryInv, OwnSetCoversRoutes, valkey, state
<1>4. routes[Watched] \in 0..TTL /\ fetched \in 0..TTL /\ table \in 0..TTL /\ 0 \in 0..TTL
      /\ info_left \in 0..TTL
  BY TaskFacts DEF Types
<1>5. CASE FetchRoutes
  <2>1. /\ fetched' = routes[Watched] /\ table' = table /\ sync' = "fetched"
        /\ subscribed' \in BOOLEAN /\ notified' \in BOOLEAN
    BY Zenon, <1>5 DEF FetchRoutes, Types
  <2>2. Types'
    BY Zenon, <1>1, <1>4, <2>1 DEF Types, valkey, state
  <2>3. PeerInv'
    BY <1>1, <1>4, <2>1, TaskFacts DEF PeerInv, valkey
  <2> QED
    BY Zenon, <1>2, <1>3, <2>2, <2>3
<1>6. CASE SubscriptionEnds
  <2>1. subscribed' = FALSE /\ notified' = FALSE /\ UNCHANGED <<sync, fetched, table>>
    BY Zenon, <1>6 DEF SubscriptionEnds
  <2>2. Types' /\ PeerInv'
    BY Zenon, <1>1, <2>1 DEF Types, PeerInv, valkey, state
  <2> QED
    BY Zenon, <1>2, <1>3, <2>2
<1>7. CASE ReplaceTable
  <2>1. /\ sync = "fetched" /\ sync' = "wait" /\ fetched' = 0 /\ table' \in {fetched, 0}
        /\ UNCHANGED <<subscribed, notified>>
    BY Zenon, <1>7 DEF ReplaceTable
  <2>2. Types'
    BY Zenon, <1>1, <1>4, <2>1 DEF Types, valkey, state
  <2>3. PeerInv'
    BY <1>1, <1>4, <2>1, TaskFacts DEF PeerInv, valkey
  <2> QED
    BY Zenon, <1>2, <1>3, <2>2, <2>3
<1>8. CASE SyncFails
  <2>1. sync' = "failed" /\ fetched' = 0 /\ UNCHANGED <<subscribed, notified, table>>
    BY Zenon, <1>8 DEF SyncFails
  <2>2. Types' /\ PeerInv'
    BY Zenon, <1>1, <1>4, <2>1 DEF Types, PeerInv, valkey, state
  <2> QED
    BY Zenon, <1>2, <1>3, <2>2
<1> QED
  BY Zenon, <1>5, <1>6, <1>7, <1>8 DEF PeerStep

\* Whatever expires later now does so a tick later as well.
LEMMA OlderKeeps ==
    ASSUME NEW a \in 0..TTL, NEW b \in 0..TTL
    PROVE  /\ Older(a) \in 0..TTL /\ (a <= b => Older(a) <= Older(b)) /\ Older(a) <= a
           /\ (Older(a) > 0 => a > 0)
BY TaskFacts DEF Older

\* Time passes.
LEMMA TickKeeps == ASSUME IInv, Tick PROVE IInv'
<1> USE DEF IInv
<1>1. /\ routes' = [h \in Handlers |-> Older(routes[h])] /\ own_left' = Older(own_left)
      /\ own' = (IF own_left' = 0 THEN {} ELSE own) /\ info_left' = Older(info_left)
      /\ sent' = [sent EXCEPT !.left = Older(@)]
      /\ fetched' = Older(fetched) /\ table' = Older(table)
      /\ UNCHANGED <<current, state, queue, pc, request, covering, notified, subscribed, sync>>
  BY Zenon DEF Tick
<1>2. /\ routes \in [Handlers -> 0..TTL] /\ own_left \in 0..TTL /\ info_left \in 0..TTL
      /\ sent \in [ads : SUBSET Handlers, left : 0..TTL] /\ fetched \in 0..TTL /\ table \in 0..TTL
      /\ own \in SUBSET Handlers
  BY Zenon DEF Types
<1>3. /\ routes' \in [Handlers -> 0..TTL] /\ \A h \in Handlers : routes'[h] = Older(routes[h])
      /\ own_left' \in 0..TTL /\ info_left' \in 0..TTL /\ fetched' \in 0..TTL /\ table' \in 0..TTL
  BY Zenon, <1>1, <1>2, OlderKeeps
<1>4. /\ sent' \in [ads : SUBSET Handlers, left : 0..TTL]
      /\ sent'.ads = sent.ads /\ sent'.left = Older(sent.left)
  <2>1. sent.left \in 0..TTL /\ Older(sent.left) \in 0..TTL
    BY Zenon, <1>2, OlderKeeps
  <2> QED
    BY Zenon, <1>1, <1>2, <2>1
<1>5. Types'
  BY Zenon, <1>1, <1>2, <1>3, <1>4 DEF Types, state
<1>6. LockInv' /\ StopInv'
  BY Zenon, <1>1 DEF LockInv, HoldsLock, StopInv, state
<1>7. GoneInv'
  <2>1. \A h \in Handlers : routes[h] = 0 => routes'[h] = 0
    BY <1>3 DEF Older
  <2> QED
    BY Zenon, <1>1, <1>4, <2>1 DEF GoneInv
<1>8. CoverInv'
  <2>1. \A h \in Handlers : h \in own \/ own_left = 0 => h \in own' \/ own_left' = 0
    BY <1>1 DEF Older
  <2> QED
    BY Zenon, <1>1, <1>4, <2>1 DEF CoverInv, state
<1>9. ExpiryInv'
  <2>1. OwnSetCoversRoutes'
    <3> SUFFICES ASSUME NEW h \in Handlers, routes'[h] > 0 PROVE h \in own' /\ routes'[h] <= own_left'
      BY Zenon DEF OwnSetCoversRoutes
    <3>1. routes[h] \in 0..TTL /\ routes'[h] = Older(routes[h]) /\ routes'[h] \in 0..TTL
      BY Zenon, <1>2, <1>3
    <3>2. routes[h] > 0
      BY Zenon, <3>1, OlderKeeps
    <3>3. h \in own /\ routes[h] <= own_left
      BY Zenon, <3>2 DEF ExpiryInv, OwnSetCoversRoutes
    <3>4. routes'[h] <= own_left'
      BY Zenon, <1>1, <1>2, <3>1, <3>3, OlderKeeps
    <3>5. own_left' # 0
      BY SMTT(30), <1>3, <3>1, <3>4, TaskFacts
    <3> QED
      BY Zenon, <1>1, <3>3, <3>4, <3>5
  <2>2. ASSUME NEW t \in Tasks, pc[t] = "sending", NEW h \in Handlers PROVE routes'[h] <= sent'.left
    <3>1. routes[h] \in 0..TTL /\ sent.left \in 0..TTL /\ routes[h] <= sent.left
      BY Zenon, <1>2, <2>2 DEF ExpiryInv
    <3> QED
      BY Zenon, <1>3, <1>4, <3>1, OlderKeeps
  <2> QED
    BY Zenon, <1>1, <2>1, <2>2 DEF ExpiryInv
<1>10. PeerInv'
  <2>1. Watched \in Handlers /\ routes[Watched] \in 0..TTL /\ routes'[Watched] = Older(routes[Watched])
    BY Zenon, <1>2, <1>3, TaskFacts
  <2>2. /\ fetched <= routes[Watched] => fetched' <= routes'[Watched]
        /\ table <= routes[Watched] => table' <= routes'[Watched]
    BY Zenon, <1>1, <1>2, <2>1, OlderKeeps
  <2> QED
    BY Zenon, <1>1, <2>2 DEF PeerInv
<1> QED
  BY Zenon, <1>5, <1>6, <1>7, <1>8, <1>9, <1>10

---------------------------------------------------------------------------
(* The theorems *)

\* Nothing is registered, advertised or queued at first.
LEMMA InitHolds == Init => IInv
<1> SUFFICES ASSUME Init PROVE IInv
  BY Zenon
<1>1. Types
  <2>1. 0 \in 0..TTL /\ <<>> \in Seq(Tasks) /\ "start" \in Stages
    BY TaskFacts DEF Stages
  <2>2. current \in [Tenants -> Handlers \cup {None}] /\ routes \in [Handlers -> 0..TTL]
    BY Zenon, <2>1 DEF Init, Nothing
  <2>3. pc \in [Tasks -> Stages] /\ request \in [Tasks -> Nat]
        /\ sent \in [ads : SUBSET Handlers, left : 0..TTL]
    BY Zenon, <2>1 DEF Init
  <2> QED
    BY Zenon, <2>1, <2>2, <2>3 DEF Init, Types
<1>2. LockInv /\ GoneInv /\ StopInv
  BY Zenon, TaskFacts DEF Init, LockInv, GoneInv, StopInv, Critical, Nothing
<1>3. CoverInv /\ ExpiryInv /\ PeerInv
  BY TaskFacts DEF Init, CoverInv, ExpiryInv, OwnSetCoversRoutes, PeerInv, Nothing
<1> QED
  BY Zenon, <1>1, <1>2, <1>3 DEF IInv

\* A step that leaves all of the invariant's variables alone.
LEMMA StutterKeeps ==
    ASSUME IInv, UNCHANGED <<current, valkey, state, queue, pc, request, covering, sent,
                             notified, peer>>
    PROVE  IInv'
<1> USE DEF IInv, valkey, state, peer
<1>1. Types' /\ PeerInv'
  BY Zenon DEF Types, PeerInv
<1>2. LockInv' /\ GoneInv' /\ StopInv'
  BY Zenon DEF LockInv, HoldsLock, GoneInv, StopInv
<1>3. CoverInv' /\ ExpiryInv'
  BY Zenon DEF CoverInv, ExpiryInv, OwnSetCoversRoutes
<1> QED
  BY Zenon, <1>1, <1>2, <1>3

\* Every step keeps the invariant.
LEMMA StepKeeps == IInv /\ [Next]_vars => IInv'
<1> SUFFICES ASSUME IInv, [Next]_vars PROVE IInv'
  BY Zenon
<1>1. CASE UNCHANGED vars
  BY Zenon, <1>1, StutterKeeps DEF vars
<1>2. ASSUME NEW t \in Tasks, TaskStep(t) PROVE IInv'
  BY Zenon, <1>2, RequestKeeps, LockKeeps, SkipKeeps, PublishInfoKeeps, SnapshotKeeps, PublishRoutesKeeps,
     WithdrawKeeps, StopKeeps, StopWithdrawsKeeps, StopRemovesInfoKeeps DEF TaskStep
<1>3. CASE Shutdown
  BY Zenon, <1>3, StutterKeeps DEF Shutdown
<1> QED
  BY Zenon, <1>1, <1>2, <1>3, RegisterKeeps, DisconnectKeeps, StoppingKeeps, PeerKeeps, TickKeeps DEF Next

\* IInv holds in every reachable state.
LEMMA Invariant == RouteSpec => []IInv
BY InitHolds, StepKeeps, PTL DEF RouteSpec

\* The next ROUTES_REPLACE_SCRIPT finds every visible route of the Edge in the
\* set of its own members.
THEOREM OwnSetComplete == RouteSpec => []OwnSetCoversRoutes
<1>1. IInv => OwnSetCoversRoutes
  BY Zenon DEF IInv, ExpiryInv
<1> QED
  BY <1>1, Invariant, PTL

\* A withdrawn generation is not advertised again by a publication, a refresh
\* or a snapshot taken before.
THEOREM NeverBack == RouteSpec => []WithdrawnStaysGone
<1>1. IInv => WithdrawnStaysGone
  BY Zenon DEF IInv, GoneInv, WithdrawnStaysGone
<1> QED
  BY <1>1, Invariant, PTL

\* A peer in sync, with no message waiting, uses no route that was taken out
\* of Valkey before its time.
THEOREM PeersForget == RouteSpec => []PeerForgetsWithdrawn
<1>1. ASSUME IInv PROVE PeerForgetsWithdrawn
  <2>1. routes[Watched] \in 0..TTL /\ table \in 0..TTL /\ PeerInv
    BY Zenon, <1>1, TaskFacts DEF IInv, Types
  <2> QED
    BY <2>1, TaskFacts DEF PeerInv, PeerForgetsWithdrawn
<1> QED
  BY <1>1, Invariant, PTL

\* Whoever returns from advertise_now because its request was covered is
\* advertised.
THEOREM CoveredIsAdvertised == RouteSpec => CoalescedIsPublished
<1> DEFINE A == \A h \in Handlers : Skip(h) /\ ~stopped /\ h \in LocalAds => h \in own \/ own_left = 0
<1>1. ASSUME IInv PROVE A
  <2> SUFFICES ASSUME NEW h \in Handlers, Skip(h), ~stopped, h \in LocalAds
               PROVE  h \in own \/ own_left = 0
    BY Zenon
  <2>1. pc[h] = "requested" /\ covered >= request[h] /\ current[TenantOf[h]] = h
    BY Zenon DEF Skip, Skips, LocalAds
  <2>2. request[h] <= covered
    BY Zenon, <1>1, <2>1, TaskFacts DEF IInv, Types
  <2> QED
    BY Zenon, <1>1, <2>1, <2>2 DEF IInv, CoverInv
<1>2. IInv /\ [Next]_vars => [A]_vars
  BY Zenon, <1>1
<1> QED
  BY <1>2, Invariant, PTL DEF RouteSpec, CoalescedIsPublished

\* Once stop has set its flag the Edge advertises no route and no address.
THEOREM SilentAfterStop == RouteSpec => NothingAfterStop
<1> DEFINE A == stopped => /\ \A h \in Handlers : routes'[h] <= routes[h]
                           /\ info_left' <= info_left
<1>1. ASSUME IInv, Next PROVE A
  <2> SUFFICES ASSUME stopped PROVE (\A h \in Handlers : routes'[h] <= routes[h]) /\ info_left' <= info_left
    BY Zenon
  <2>1. /\ routes \in [Handlers -> 0..TTL] /\ info_left \in 0..TTL /\ own_left \in 0..TTL
        /\ sent.ads \in SUBSET Handlers /\ \A t \in Tasks : pc[t] \notin {"snapshot", "sending"}
    BY Zenon, <1>1 DEF IInv, Types, StopInv
  <2>2. \A h \in Handlers : routes[h] <= routes[h] /\ info_left <= info_left /\ 0 <= routes[h]
    BY <2>1, TaskFacts
  <2>3. info_left <= info_left /\ 0 <= info_left
    BY <2>1, TaskFacts
  <2>4. CASE UNCHANGED <<routes, info_left>>
    BY Zenon, <2>2, <2>3, <2>4
  <2>5. ASSUME NEW t \in Tasks, TaskStep(t) PROVE A
    <3>1. CASE Request(t) \/ Lock(t) \/ Skip(t) \/ Stop
      BY Zenon, <2>4, <3>1 DEF Request, Lock, Skip, Stop, valkey
    <3>2. ~PublishInfo(t) /\ ~Snapshot(t) /\ ~PublishRoutes(t)
      BY Zenon, <2>1 DEF PublishInfo, Skips, Snapshot, PublishRoutes
    <3>3. CASE StopRemovesInfo
      <4>1. routes' = routes /\ info_left' \in {0, info_left}
        BY Zenon, <3>3 DEF StopRemovesInfo
      <4> QED
        BY Zenon, <2>2, <2>3, <4>1
    <3>4. ASSUME NEW ads \in SUBSET Handlers, RemoveRoutes(ads), info_left' = info_left PROVE A
      <4>1. \A h \in Handlers : routes'[h] \in {0, routes[h]}
        BY Zenon, <3>4 DEF RemoveRoutes
      <4> QED
        BY Zenon, <2>2, <2>3, <3>4, <4>1
    <3>5. CASE t \in Handlers /\ Withdraw(t)
      <4>1. info_left' = info_left /\ (RemoveRoutes({t}) \/ routes' = routes)
        BY Zenon, <3>5 DEF Withdraw
      <4> QED
        BY Zenon, <2>4, <3>4, <3>5, <4>1
    <3>6. CASE StopWithdraws
      <4>1. info_left' = info_left /\ (RemoveRoutes(sent.ads) \/ routes' = routes)
        BY Zenon, <3>6 DEF StopWithdraws
      <4> QED
        BY Zenon, <2>1, <2>4, <3>4, <4>1
    <3> QED
      BY Zenon, <2>5, <3>1, <3>2, <3>3, <3>5, <3>6 DEF TaskStep
  <2>6. CASE \/ \E h \in Handlers : Register(h) \/ Disconnect(h)
             \/ Shutdown \/ Stopping \/ PeerStep
    BY Zenon, <2>4, <2>6 DEF Register, Disconnect, Shutdown, Stopping, PeerStep, FetchRoutes,
                      SubscriptionEnds, ReplaceTable, SyncFails, valkey
  <2>7. CASE Tick
    BY Zenon, <2>1, <2>7, OlderKeeps DEF Tick
  <2> QED
    BY Zenon, <1>1, <2>5, <2>6, <2>7 DEF Next
<1>2. IInv /\ [Next]_vars => [A]_vars
  BY Zenon, <1>1
<1> QED
  BY <1>2, Invariant, PTL DEF RouteSpec, NothingAfterStop

---------------------------------------------------------------------------
(* Hostnames *)

ClaimStages == {"idle", "sent", "conflict", "granted", "error", "accepted", "rejected", "left"}

\* The claims that have an Edge and a tenant.
Live == {"sent", "conflict", "granted", "error", "accepted"}

OwnershipTypeOK ==
    /\ owner \in [Hostnames -> Owners \cup {NoTenant}]
    /\ confirmed \in [Edges -> [Hostnames -> [tenant : Owners \cup {NoTenant}, age : 0..Long]]]
    /\ claimPc \in [Claims -> ClaimStages]
    /\ claim \in [Claims -> [edge : Edges \cup {NoTenant}, tenant : Owners \cup {NoTenant},
                             hostnames : SUBSET Hostnames, waited : Nat]]
    /\ late \subseteq [tenant : Owners, hostnames : SUBSET Hostnames]
    /\ since \in [Owners -> [Hostnames -> 0..Long]]
    /\ admin \in Nat

LiveInv ==
    \A c \in Claims : claimPc[c] \in Live => claim[c].edge \in Edges /\ claim[c].tenant \in Owners

\* The history says of the present owner that it is one.
SinceInv == \A t \in Owners, h \in Hostnames : owner[h] = t => since[t][h] = 0

\* What a granted claim will confirm was true when Valkey ran its script.
GrantedInv ==
    \A c \in Claims :
        /\ claimPc[c] = "sent" => claim[c].waited = 0
        /\ claimPc[c] = "granted" =>
             /\ claim[c].waited <= AnswerDelay
             /\ \A h \in claim[c].hostnames : since[claim[c].tenant][h] <= claim[c].waited

\* Without the administrator an owner stays the owner.
OwnedInv ==
    admin = 0 =>
        /\ \A c \in Claims : claimPc[c] \in {"granted", "accepted"} =>
             \A h \in claim[c].hostnames : owner[h] = claim[c].tenant
        /\ \A e \in Edges, h \in Hostnames :
             confirmed[e][h].tenant # NoTenant => owner[h] = confirmed[e][h].tenant

OwnershipInv ==
    OwnershipTypeOK /\ LiveInv /\ SinceInv /\ GrantedInv /\ ConfirmationWasTrue /\ OwnedInv

---------------------------------------------------------------------------

\* Ages have room for the cache time and an answer's delay.
LEMMA LongIsLong ==
    /\ Long \in Nat /\ CacheTTL \in Nat /\ AnswerDelay \in Nat
    /\ CacheTTL + AnswerDelay < Long
BY OwnershipAssumption DEF Long

\* CLAIM_SCRIPT gives all the hostnames to the tenant, or changes nothing, and
\* never takes one from its owner.
LEMMA ScriptGives ==
    ASSUME OwnershipInv, NEW token, token.tenant \in Owners, token.hostnames \subseteq Hostnames,
           ClaimScript(token)
    PROVE  /\ owner' \in [Hostnames -> Owners \cup {NoTenant}]
           /\ since' \in [Owners -> [Hostnames -> 0..Long]]
           /\ SinceInv'
           /\ \A t \in Owners, h \in Hostnames : since'[t][h] <= since[t][h]
           /\ \A h \in Hostnames : owner[h] # NoTenant => owner'[h] = owner[h]
           /\ ~TakenByOther(token) => \A h \in token.hostnames : owner'[h] = token.tenant
<1>1. owner' \in [Hostnames -> Owners \cup {NoTenant}]
  BY Zenon DEF ClaimScript, SetNX, OwnershipInv, OwnershipTypeOK
<1>2. /\ \A h \in Hostnames : owner[h] # NoTenant => owner'[h] = owner[h]
      /\ ~TakenByOther(token) => \A h \in token.hostnames : owner'[h] = token.tenant
  BY Zenon DEF ClaimScript, SetNX, TakenByOther, OwnershipInv, OwnershipTypeOK
<1>3. since' = [t \in Owners |-> [h \in Hostnames |-> IF owner'[h] = t THEN 0 ELSE since[t][h]]]
  BY Zenon DEF ClaimScript, Owned
<1>4. since \in [Owners -> [Hostnames -> 0..Long]] /\ Long \in Nat
  BY Zenon, LongIsLong DEF OwnershipInv, OwnershipTypeOK
<1>5. \A t \in Owners, h \in Hostnames :
        since'[t][h] = (IF owner'[h] = t THEN 0 ELSE since[t][h]) /\ since[t][h] \in 0..Long
  BY Zenon, <1>3, <1>4
<1>6. since' \in [Owners -> [Hostnames -> 0..Long]]
  BY <1>3, <1>4
<1>7. \A t \in Owners, h \in Hostnames : since'[t][h] <= since[t][h]
  BY <1>4, <1>5
<1>8. SinceInv'
  BY Zenon, <1>5 DEF SinceInv
<1> QED
  BY Zenon, <1>1, <1>2, <1>6, <1>7, <1>8

---------------------------------------------------------------------------
(* The steps *)

\* A step of one claim that leaves Valkey and the caches alone, and does not
\* end in a grant or an acceptance.
LEMMA MoveKeeps ==
    ASSUME OwnershipInv, NEW c \in Claims, NEW stage \in ClaimStages \ {"granted", "accepted"},
           claimPc' = [claimPc EXCEPT ![c] = stage],
           claim' \in [Claims -> [edge : Edges \cup {NoTenant}, tenant : Owners \cup {NoTenant},
                                  hostnames : SUBSET Hostnames, waited : Nat]],
           \A d \in Claims \ {c} : claim'[d] = claim[d],
           stage \in Live => claim'[c].edge \in Edges /\ claim'[c].tenant \in Owners,
           stage = "sent" => claim'[c].waited = 0,
           late' \subseteq [tenant : Owners, hostnames : SUBSET Hostnames], UNCHANGED <<owner, confirmed, since, admin>>
    PROVE  OwnershipInv'
<1> USE DEF OwnershipInv
<1>1. claimPc' \in [Claims -> ClaimStages] /\ claimPc'[c] = stage
      /\ \A d \in Claims \ {c} : claimPc'[d] = claimPc[d]
  BY Zenon DEF OwnershipTypeOK
<1>2. OwnershipTypeOK'
  BY Zenon, <1>1 DEF OwnershipTypeOK
<1>3. LiveInv' /\ GrantedInv' /\ OwnedInv'
  BY <1>1 DEF LiveInv, GrantedInv, OwnedInv
<1>4. SinceInv' /\ ConfirmationWasTrue'
  BY Zenon DEF SinceInv, ConfirmationWasTrue
<1> QED
  BY Zenon, <1>2, <1>3, <1>4

\* A claim is sent.
LEMMA SendKeeps == ASSUME OwnershipInv, NEW c \in Claims, Send(c) PROVE OwnershipInv'
<1>1. PICK e \in Edges, token \in Tokens :
        claim' = [claim EXCEPT ![c] = [edge |-> e, tenant |-> token.tenant,
                                       hostnames |-> token.hostnames, waited |-> 0]]
  BY Zenon DEF Send
<1>2. token.tenant \in Owners /\ token.hostnames \in SUBSET Hostnames
  BY Zenon, OwnershipAssumption
<1>3. claim \in [Claims -> [edge : Edges \cup {NoTenant}, tenant : Owners \cup {NoTenant},
                            hostnames : SUBSET Hostnames, waited : Nat]]
  BY Zenon DEF OwnershipInv, OwnershipTypeOK
<1>4. /\ claim' \in [Claims -> [edge : Edges \cup {NoTenant}, tenant : Owners \cup {NoTenant},
                                hostnames : SUBSET Hostnames, waited : Nat]]
      /\ \A d \in Claims \ {c} : claim'[d] = claim[d]
      /\ claim'[c].edge = e /\ claim'[c].tenant = token.tenant /\ claim'[c].waited = 0
  BY Zenon, <1>1, <1>2, <1>3
<1>5. "sent" \in ClaimStages \ {"granted", "accepted"}
  BY Zenon DEF ClaimStages
<1> QED
  BY Zenon, <1>2, <1>4, <1>5, MoveKeeps DEF Send, ClaimGoto, OwnershipInv, OwnershipTypeOK

\* A claim without an answer, a refused one and one whose Connector left.
LEMMA EndKeeps ==
    ASSUME OwnershipInv, NEW c \in Claims, Unavailable(c) \/ Refuse(c) \/ Leave(c) PROVE OwnershipInv'
<1>1. claim \in [Claims -> [edge : Edges \cup {NoTenant}, tenant : Owners \cup {NoTenant},
                            hostnames : SUBSET Hostnames, waited : Nat]]
      /\ late \subseteq [tenant : Owners, hostnames : SUBSET Hostnames]
  BY Zenon DEF OwnershipInv, OwnershipTypeOK
<1>2. CASE Unavailable(c)
  <2>1. claim[c].edge \in Edges /\ claim[c].tenant \in Owners
    BY Zenon, <1>2 DEF Unavailable, OwnershipInv, LiveInv, Live
  <2>2. /\ claim' \in [Claims -> [edge : Edges \cup {NoTenant}, tenant : Owners \cup {NoTenant},
                                  hostnames : SUBSET Hostnames, waited : Nat]]
        /\ \A d \in Claims \ {c} : claim'[d] = claim[d]
        /\ claim'[c].edge = claim[c].edge /\ claim'[c].tenant = claim[c].tenant
    BY Zenon, <1>1, <1>2 DEF Unavailable
  <2>3. "error" \in ClaimStages \ {"granted", "accepted"}
    BY Zenon DEF ClaimStages
  <2>4. late' \subseteq [tenant : Owners, hostnames : SUBSET Hostnames]
    BY <1>1, <1>2, <2>1 DEF Unavailable
  <2> QED
    BY Zenon, <1>2, <2>4, <2>1, <2>2, <2>3, MoveKeeps DEF Unavailable, ClaimGoto
<1>3. CASE Refuse(c) \/ Leave(c)
  <2>1. claim' = [claim EXCEPT ![c] = NoClaim] /\ UNCHANGED <<owner, confirmed, late, since, admin>>
    BY Zenon, <1>3 DEF Refuse, Leave
  <2>2. PICK stage \in {"rejected", "left"} : claimPc' = [claimPc EXCEPT ![c] = stage]
    BY Zenon, <1>3 DEF Refuse, Leave, ClaimGoto
  <2>3. /\ claim' \in [Claims -> [edge : Edges \cup {NoTenant}, tenant : Owners \cup {NoTenant},
                                  hostnames : SUBSET Hostnames, waited : Nat]]
        /\ \A d \in Claims \ {c} : claim'[d] = claim[d]
    BY Zenon, <1>1, <2>1 DEF NoClaim
  <2>4. stage \in ClaimStages \ {"granted", "accepted"} /\ stage \notin Live /\ stage # "sent"
    BY Zenon DEF ClaimStages, Live
  <2> QED
    BY Zenon, <1>1, <2>1, <2>2, <2>3, <2>4, MoveKeeps
<1> QED
  BY Zenon, <1>2, <1>3

\* The script ran for a claim or for a command nobody waits for: what was
\* true of the other claims and of the caches still is.
LEMMA ScriptKeeps ==
    ASSUME OwnershipInv, NEW token, token.tenant \in Owners, token.hostnames \subseteq Hostnames,
           ClaimScript(token), UNCHANGED <<confirmed, claim, admin>>
    PROVE  /\ ConfirmationWasTrue'
           /\ \A c \in Claims : claimPc[c] = "granted" =>
                \A h \in claim[c].hostnames : since'[claim[c].tenant][h] <= claim[c].waited
           /\ admin = 0 =>
                /\ \A c \in Claims : claimPc[c] \in {"granted", "accepted"} =>
                     \A h \in claim[c].hostnames : owner'[h] = claim[c].tenant
                /\ \A e \in Edges, h \in Hostnames :
                     confirmed[e][h].tenant # NoTenant => owner'[h] = confirmed[e][h].tenant
<1>1. /\ since \in [Owners -> [Hostnames -> 0..Long]] /\ since' \in [Owners -> [Hostnames -> 0..Long]]
      /\ \A t \in Owners, h \in Hostnames : since'[t][h] <= since[t][h]
      /\ \A h \in Hostnames : owner[h] # NoTenant => owner'[h] = owner[h]
  BY Zenon, ScriptGives DEF OwnershipInv, OwnershipTypeOK
<1>2. \A t \in Owners, h \in Hostnames : since[t][h] \in Nat /\ since'[t][h] \in Nat
  BY <1>1, LongIsLong
<1>3. /\ \A e \in Edges, h \in Hostnames :
           confirmed[e][h].tenant \in Owners \cup {NoTenant} /\ confirmed[e][h].age \in Nat
      /\ \A c \in Claims : claim[c].hostnames \subseteq Hostnames /\ claim[c].waited \in Nat
  BY LongIsLong DEF OwnershipInv, OwnershipTypeOK
<1>4. \A c \in Claims : claimPc[c] \in {"granted", "accepted"} => claim[c].tenant \in Owners
  BY Zenon DEF OwnershipInv, LiveInv, Live
<1>5. ConfirmationWasTrue'
  BY <1>1, <1>2, <1>3, LongIsLong DEF OwnershipInv, ConfirmationWasTrue
<1>6. \A c \in Claims : claimPc[c] = "granted" =>
        \A h \in claim[c].hostnames : since'[claim[c].tenant][h] <= claim[c].waited
  BY <1>1, <1>2, <1>3, <1>4 DEF OwnershipInv, GrantedInv
<1>7. NoTenant \notin Owners
  BY Zenon, OwnershipAssumption
<1> QED
  BY <1>1, <1>3, <1>4, <1>5, <1>6, <1>7 DEF OwnershipInv, OwnedInv

\* Valkey runs the script of a claim.
LEMMA ExecuteKeeps == ASSUME OwnershipInv, NEW c \in Claims, Execute(c) PROVE OwnershipInv'
<1> USE DEF OwnershipInv
<1> DEFINE stage == IF TakenByOther(claim[c]) THEN "conflict" ELSE "granted"
<1>1. /\ claimPc[c] = "sent" /\ ClaimScript(claim[c]) /\ UNCHANGED <<confirmed, claim, late, admin>>
      /\ claimPc' = [claimPc EXCEPT ![c] = stage]
  BY Zenon DEF Execute, ClaimGoto
<1>2. claim[c].edge \in Edges /\ claim[c].tenant \in Owners /\ claim[c].hostnames \subseteq Hostnames
      /\ claim[c].waited = 0
  BY Zenon, <1>1 DEF OwnershipTypeOK, LiveInv, Live, GrantedInv
<1>3. /\ claimPc' \in [Claims -> ClaimStages] /\ claimPc'[c] = stage
      /\ \A d \in Claims \ {c} : claimPc'[d] = claimPc[d]
  BY Zenon, <1>1 DEF OwnershipTypeOK, ClaimStages
<1>4. /\ owner' \in [Hostnames -> Owners \cup {NoTenant}]
      /\ since' \in [Owners -> [Hostnames -> 0..Long]]
      /\ SinceInv'
      /\ stage = "granted" => \A h \in claim[c].hostnames : owner'[h] = claim[c].tenant
  BY Zenon, <1>1, <1>2, ScriptGives
<1>5. /\ ConfirmationWasTrue'
      /\ \A d \in Claims : claimPc[d] = "granted" =>
           \A h \in claim[d].hostnames : since'[claim[d].tenant][h] <= claim[d].waited
      /\ admin = 0 =>
           /\ \A d \in Claims : claimPc[d] \in {"granted", "accepted"} =>
                \A h \in claim[d].hostnames : owner'[h] = claim[d].tenant
           /\ \A e \in Edges, h \in Hostnames :
                confirmed[e][h].tenant # NoTenant => owner'[h] = confirmed[e][h].tenant
  BY Zenon, <1>1, <1>2, ScriptKeeps
<1>6. OwnershipTypeOK'
  BY Zenon, <1>1, <1>3, <1>4 DEF OwnershipTypeOK
<1>7. LiveInv'
  BY Zenon, <1>1, <1>2, <1>3 DEF LiveInv
<1>8. GrantedInv'
  <2>1. stage = "granted" => \A h \in claim[c].hostnames : since'[claim[c].tenant][h] = 0
    BY Zenon, <1>2, <1>4 DEF SinceInv
  <2>2. 0 <= AnswerDelay /\ stage # "sent"
    BY LongIsLong
  <2> HIDE DEF stage
  <2> QED
    BY <1>1, <1>2, <1>3, <1>5, <2>1, <2>2 DEF GrantedInv
<1>9. OwnedInv'
  <2>1. stage # "accepted"
    BY Zenon
  <2> HIDE DEF stage
  <2> QED
    BY Zenon, <1>1, <1>3, <1>4, <1>5, <2>1 DEF OwnedInv
<1> QED
  BY Zenon, <1>4, <1>5, <1>6, <1>7, <1>8, <1>9

\* Valkey runs a command the Edge gave up on: it may give the hostnames to the
\* tenant, but takes none from its owner.
LEMMA ExecuteLateKeeps == ASSUME OwnershipInv, NEW token \in Tokens, ExecuteLate(token) PROVE OwnershipInv'
<1> USE DEF OwnershipInv
<1>1. /\ ClaimScript(token) /\ late' \subseteq late /\ UNCHANGED <<confirmed, claimPc, claim, admin>>
      /\ token.tenant \in Owners /\ token.hostnames \subseteq Hostnames
  BY Zenon, OwnershipAssumption DEF ExecuteLate
<1>2. /\ owner' \in [Hostnames -> Owners \cup {NoTenant}]
      /\ since' \in [Owners -> [Hostnames -> 0..Long]]
      /\ SinceInv'
  BY Zenon, <1>1, ScriptGives
<1>3. /\ ConfirmationWasTrue'
      /\ \A d \in Claims : claimPc[d] = "granted" =>
           \A h \in claim[d].hostnames : since'[claim[d].tenant][h] <= claim[d].waited
      /\ admin = 0 =>
           /\ \A d \in Claims : claimPc[d] \in {"granted", "accepted"} =>
                \A h \in claim[d].hostnames : owner'[h] = claim[d].tenant
           /\ \A e \in Edges, h \in Hostnames :
                confirmed[e][h].tenant # NoTenant => owner'[h] = confirmed[e][h].tenant
  BY Zenon, <1>1, ScriptKeeps
<1>4. OwnershipTypeOK' /\ LiveInv'
  BY Zenon, <1>1, <1>2 DEF OwnershipTypeOK, LiveInv
<1>5. GrantedInv' /\ OwnedInv'
  BY Zenon, <1>1, <1>3 DEF GrantedInv, OwnedInv
<1> QED
  BY Zenon, <1>2, <1>3, <1>4, <1>5

\* The answer arrives: the confirmations are as old as the answer's way.
LEMMA ConfirmKeeps == ASSUME OwnershipInv, NEW c \in Claims, Confirm(c) PROVE OwnershipInv'
<1> USE DEF OwnershipInv
<1> DEFINE edge == claim[c].edge
           tenant == claim[c].tenant
           names == claim[c].hostnames
<1>1. /\ claimPc[c] = "granted" /\ edge \in Edges /\ tenant \in Owners /\ names \subseteq Hostnames
      /\ \A h \in names : since[tenant][h] <= AnswerDelay
  <2>1. claimPc[c] = "granted" /\ edge \in Edges /\ tenant \in Owners /\ names \subseteq Hostnames
        /\ claim[c].waited \in Nat
    BY Zenon DEF Confirm, LiveInv, Live, OwnershipTypeOK
  <2>2. \A h \in names : since[tenant][h] \in Nat
    BY <2>1, LongIsLong DEF OwnershipTypeOK
  <2> QED
    BY <2>1, <2>2, LongIsLong DEF GrantedInv
<1>2. confirmed \in [Edges -> [Hostnames -> [tenant : Owners \cup {NoTenant}, age : 0..Long]]]
  BY Zenon DEF OwnershipTypeOK
<1>3. /\ confirmed' \in [Edges -> [Hostnames -> [tenant : Owners \cup {NoTenant}, age : 0..Long]]]
      /\ \A e \in Edges, h \in Hostnames :
           confirmed'[e][h] = IF e = edge /\ h \in names
                                THEN [tenant |-> tenant, age |-> 0] ELSE confirmed[e][h]
  <2>1. [tenant |-> tenant, age |-> 0] \in [tenant : Owners \cup {NoTenant}, age : 0..Long]
    BY <1>1, LongIsLong
  <2>2. confirmed' = [confirmed EXCEPT ![edge] =
                        [h \in Hostnames |-> IF h \in names THEN [tenant |-> tenant, age |-> 0]
                                             ELSE confirmed[edge][h]]]
    BY Zenon, <1>1, <1>2 DEF Confirm
  <2> QED
    BY Zenon, <1>1, <1>2, <2>1, <2>2
<1>4. /\ claim' \in [Claims -> [edge : Edges \cup {NoTenant}, tenant : Owners \cup {NoTenant},
                                hostnames : SUBSET Hostnames, waited : Nat]]
      /\ \A d \in Claims \ {c} : claim'[d] = claim[d]
      /\ claim'[c].edge = edge /\ claim'[c].tenant = tenant /\ claim'[c].hostnames = names
  BY Zenon DEF Confirm, OwnershipTypeOK
<1>5. /\ claimPc' \in [Claims -> ClaimStages] /\ claimPc'[c] = "accepted"
      /\ \A d \in Claims \ {c} : claimPc'[d] = claimPc[d]
      /\ UNCHANGED <<owner, late, since, admin>>
  BY Zenon DEF Confirm, ClaimGoto, OwnershipTypeOK, ClaimStages
<1> HIDE DEF edge, tenant, names
<1>6. OwnershipTypeOK' /\ SinceInv'
  BY Zenon, <1>3, <1>4, <1>5 DEF OwnershipTypeOK, SinceInv
<1>7. LiveInv' /\ GrantedInv'
  BY Zenon, <1>1, <1>4, <1>5 DEF LiveInv, GrantedInv
<1>8. ConfirmationWasTrue'
  <2> SUFFICES ASSUME NEW e \in Edges, NEW h \in Hostnames, confirmed'[e][h].age <= CacheTTL,
                      confirmed'[e][h].tenant # NoTenant
               PROVE  since[confirmed'[e][h].tenant][h] <= confirmed'[e][h].age + AnswerDelay
    BY Zenon, <1>5 DEF ConfirmationWasTrue
  <2>1. CASE e = edge /\ h \in names
    BY <1>1, <1>3, <2>1, LongIsLong
  <2>2. CASE ~(e = edge /\ h \in names)
    BY Zenon, <1>3, <2>2 DEF ConfirmationWasTrue
  <2> QED
    BY Zenon, <2>1, <2>2
<1>9. OwnedInv'
  <2> SUFFICES ASSUME admin = 0 PROVE OwnedInv'
    BY Zenon, <1>5 DEF OwnedInv
  <2>1. \A h \in names : owner[h] = tenant
    BY Zenon, <1>1 DEF OwnedInv, names, tenant
  <2>2. \A e \in Edges, h \in Hostnames :
          confirmed'[e][h].tenant # NoTenant => owner[h] = confirmed'[e][h].tenant
    BY <1>3, <2>1 DEF OwnedInv
  <2>3. \A d \in Claims : claimPc'[d] \in {"granted", "accepted"} =>
          \A h \in claim'[d].hostnames : owner[h] = claim'[d].tenant
    BY <1>4, <1>5, <2>1 DEF OwnedInv
  <2> QED
    BY Zenon, <1>5, <2>2, <2>3 DEF OwnedInv
<1> QED
  BY Zenon, <1>6, <1>7, <1>8, <1>9

\* Without an answer the cache decides: what it still holds is not too old.
LEMMA FallbackAccepts ==
    ASSUME OwnershipInv, NEW c \in Claims, Fallback(c)
    PROVE  /\ claim[c].edge \in Edges /\ claim[c].tenant \in Owners
           /\ confirmed' \in [Edges -> [Hostnames -> [tenant : Owners \cup {NoTenant}, age : 0..Long]]]
           /\ \A e \in Edges, h \in Hostnames :
                confirmed'[e][h] \in {confirmed[e][h], Unconfirmed}
           /\ claimPc'[c] = "accepted" =>
                \A h \in claim[c].hostnames :
                   /\ confirmed[claim[c].edge][h].age <= CacheTTL
                   /\ confirmed[claim[c].edge][h].tenant = claim[c].tenant
<1> DEFINE edge == claim[c].edge
           cache == [h \in Hostnames |-> Retain(confirmed[edge][h])]
<1>1. edge \in Edges /\ claim[c].tenant \in Owners /\ claim[c].hostnames \subseteq Hostnames
  BY Zenon DEF Fallback, OwnershipInv, LiveInv, Live, OwnershipTypeOK
<1>2. confirmed \in [Edges -> [Hostnames -> [tenant : Owners \cup {NoTenant}, age : 0..Long]]]
  BY Zenon DEF OwnershipInv, OwnershipTypeOK
<1>3. \A h \in Hostnames :
        /\ Retain(confirmed[edge][h]) \in {confirmed[edge][h], Unconfirmed}
        /\ Retain(confirmed[edge][h]) # Unconfirmed => confirmed[edge][h].age <= CacheTTL
  BY Zenon DEF Retain
<1>4. Unconfirmed \in [tenant : Owners \cup {NoTenant}, age : 0..Long] /\ Unconfirmed.tenant = NoTenant
  BY LongIsLong DEF Unconfirmed
<1>5. \A h \in Hostnames : cache[h] = Retain(confirmed[edge][h])
  BY Zenon
<1>6. cache \in [Hostnames -> [tenant : Owners \cup {NoTenant}, age : 0..Long]]
  BY <1>1, <1>2, <1>3, <1>4
<1>7. confirmed' = [confirmed EXCEPT ![edge] = cache]
      /\ (claimPc'[c] = "accepted" => AllConfirmed(c, cache))
  BY Zenon DEF Fallback, ClaimGoto, OwnershipInv, OwnershipTypeOK
<1> HIDE DEF cache
<1>8. \A e \in Edges, h \in Hostnames : confirmed'[e][h] \in {confirmed[e][h], Unconfirmed}
  BY Zenon, <1>1, <1>2, <1>3, <1>5, <1>7
<1>9. confirmed' \in [Edges -> [Hostnames -> [tenant : Owners \cup {NoTenant}, age : 0..Long]]]
  BY Zenon, <1>1, <1>2, <1>6, <1>7
<1>10. claimPc'[c] = "accepted" =>
         \A h \in claim[c].hostnames :
            confirmed[edge][h].age <= CacheTTL /\ confirmed[edge][h].tenant = claim[c].tenant
  <2> SUFFICES ASSUME claimPc'[c] = "accepted", NEW h \in claim[c].hostnames
               PROVE  confirmed[edge][h].age <= CacheTTL /\ confirmed[edge][h].tenant = claim[c].tenant
    BY Zenon
  <2>1. h \in Hostnames /\ cache[h].tenant = claim[c].tenant
    BY Zenon, <1>1, <1>7 DEF AllConfirmed
  <2>2. cache[h] # Unconfirmed
    BY Zenon, <1>1, <1>4, <2>1, OwnershipAssumption
  <2> QED
    BY Zenon, <1>3, <1>5, <2>1, <2>2
<1> QED
  BY Zenon, <1>1, <1>8, <1>9, <1>10

\* The retain drops confirmations, and a claim is accepted on what is left.
LEMMA FallbackKeeps == ASSUME OwnershipInv, NEW c \in Claims, Fallback(c) PROVE OwnershipInv'
<1> USE DEF OwnershipInv
<1>1. /\ claim[c].edge \in Edges /\ claim[c].tenant \in Owners
      /\ confirmed' \in [Edges -> [Hostnames -> [tenant : Owners \cup {NoTenant}, age : 0..Long]]]
      /\ \A e \in Edges, h \in Hostnames : confirmed'[e][h] \in {confirmed[e][h], Unconfirmed}
      /\ claimPc'[c] = "accepted" =>
           \A h \in claim[c].hostnames : confirmed[claim[c].edge][h].tenant = claim[c].tenant
  BY Zenon, FallbackAccepts
<1>2. PICK stage \in {"accepted", "rejected"} :
        /\ claimPc' = [claimPc EXCEPT ![c] = stage]
        /\ stage = "accepted" => claim' = claim
        /\ stage = "rejected" => claim' = [claim EXCEPT ![c] = NoClaim]
  <2> DEFINE cache == [h \in Hostnames |-> Retain(confirmed[claim[c].edge][h])]
  <2>1. IF AllConfirmed(c, cache)
          THEN ClaimGoto(c, "accepted") /\ UNCHANGED claim
          ELSE ClaimGoto(c, "rejected") /\ claim' = [claim EXCEPT ![c] = NoClaim]
    BY Zenon DEF Fallback
  <2> HIDE DEF cache
  <2> QED
    BY Zenon, <2>1 DEF ClaimGoto
<1>3. UNCHANGED <<owner, late, since, admin>>
  BY Zenon DEF Fallback
<1>4. /\ claimPc' \in [Claims -> ClaimStages] /\ claimPc'[c] = stage
      /\ \A d \in Claims \ {c} : claimPc'[d] = claimPc[d]
  BY Zenon, <1>2 DEF OwnershipTypeOK, ClaimStages
<1>5. /\ claim' \in [Claims -> [edge : Edges \cup {NoTenant}, tenant : Owners \cup {NoTenant},
                                hostnames : SUBSET Hostnames, waited : Nat]]
      /\ \A d \in Claims \ {c} : claim'[d] = claim[d]
  BY <1>2 DEF OwnershipTypeOK, NoClaim
<1>6. OwnershipTypeOK' /\ SinceInv'
  BY Zenon, <1>1, <1>3, <1>4, <1>5 DEF OwnershipTypeOK, SinceInv
<1>7. LiveInv' /\ GrantedInv'
  BY Zenon, <1>1, <1>2, <1>3, <1>4, <1>5 DEF LiveInv, GrantedInv, Live
<1>8. ConfirmationWasTrue'
  BY <1>1, <1>3 DEF ConfirmationWasTrue, Unconfirmed
<1>9. OwnedInv'
  <2> SUFFICES ASSUME admin = 0 PROVE OwnedInv'
    BY Zenon, <1>3 DEF OwnedInv
  <2>1. \A e \in Edges, h \in Hostnames :
          confirmed'[e][h].tenant # NoTenant => owner[h] = confirmed'[e][h].tenant
    <3>1. Unconfirmed.tenant = NoTenant
      BY Zenon DEF Unconfirmed
    <3> QED
      BY <1>1, <3>1 DEF OwnedInv
  <2>2. stage = "accepted" => \A h \in claim[c].hostnames : owner[h] = claim[c].tenant
    BY <1>1, <1>4, OwnershipAssumption DEF OwnedInv, OwnershipTypeOK
  <2>3. \A d \in Claims : claimPc'[d] \in {"granted", "accepted"} =>
          \A h \in claim'[d].hostnames : owner[h] = claim'[d].tenant
    BY <1>2, <1>4, <1>5, <2>2 DEF OwnedInv
  <2> QED
    BY Zenon, <1>3, <2>1, <2>3 DEF OwnedInv
<1> QED
  BY Zenon, <1>6, <1>7, <1>8, <1>9

\* The administrator changes an owner, whose ownership becomes history.
LEMMA ChangeKeeps ==
    ASSUME OwnershipInv, NEW h \in Hostnames, NEW expected \in Owners, NEW new \in Owners \cup {NoTenant},
           ChangeOwner(h, expected, new)
    PROVE  OwnershipInv'
<1> USE DEF OwnershipInv
<1>1. /\ owner' \in [Hostnames -> Owners \cup {NoTenant}] /\ admin' \in Nat /\ admin' # 0
      /\ UNCHANGED <<confirmed, claimPc, claim, late>>
  BY DEF ChangeOwner, OwnershipTypeOK
<1>2. /\ since' = [t \in Owners |-> [k \in Hostnames |-> IF owner'[k] = t THEN 0 ELSE since[t][k]]]
      /\ since \in [Owners -> [Hostnames -> 0..Long]] /\ Long \in Nat
  BY Zenon, LongIsLong DEF ChangeOwner, Owned, OwnershipTypeOK
<1>3. /\ since' \in [Owners -> [Hostnames -> 0..Long]]
      /\ \A t \in Owners, k \in Hostnames : since'[t][k] = IF owner'[k] = t THEN 0 ELSE since[t][k]
  BY <1>2
<1>4. \A t \in Owners, k \in Hostnames :
        since'[t][k] \in Nat /\ since[t][k] \in Nat /\ since'[t][k] <= since[t][k]
  BY <1>2, <1>3
<1>5. OwnershipTypeOK' /\ LiveInv' /\ OwnedInv'
  BY Zenon, <1>1, <1>3 DEF OwnershipTypeOK, LiveInv, OwnedInv
<1>6. SinceInv'
  BY Zenon, <1>3 DEF SinceInv
<1>7. GrantedInv'
  <2>1. \A c \in Claims : claim[c].hostnames \subseteq Hostnames /\ claim[c].waited \in Nat
    BY Zenon DEF OwnershipTypeOK
  <2>2. \A c \in Claims : claimPc[c] = "granted" => claim[c].tenant \in Owners
    BY Zenon DEF LiveInv, Live
  <2> QED
    BY <1>1, <1>4, <2>1, <2>2 DEF GrantedInv
<1>8. ConfirmationWasTrue'
  <2>1. \A e \in Edges, k \in Hostnames :
          confirmed[e][k].tenant \in Owners \cup {NoTenant} /\ confirmed[e][k].age \in Nat
    BY LongIsLong DEF OwnershipTypeOK
  <2> QED
    BY <1>1, <1>4, <2>1, LongIsLong DEF ConfirmationWasTrue
<1> QED
  BY Zenon, <1>5, <1>6, <1>7, <1>8

\* Time passes for the answers, the caches and the history alike.
LEMMA OwnershipTickKeeps == ASSUME OwnershipInv, OwnershipTick PROVE OwnershipInv'
<1> USE DEF OwnershipInv
<1>1. /\ confirmed' = [e \in Edges |-> [h \in Hostnames |->
                         [confirmed[e][h] EXCEPT !.age = OlderAge(@)]]]
      /\ claim' = [c \in Claims |-> IF claimPc[c] \in {"granted", "conflict"}
                                      THEN [claim[c] EXCEPT !.waited = @ + 1] ELSE claim[c]]
      /\ since' = [t \in Owners |-> [h \in Hostnames |->
                     IF owner[h] = t THEN 0 ELSE OlderAge(since[t][h])]]
      /\ UNCHANGED <<owner, claimPc, late, admin>>
  BY Zenon DEF OwnershipTick
<1>2. \A a \in 0..Long : OlderAge(a) \in 0..Long /\ OlderAge(a) <= a + 1 /\ (a < Long => OlderAge(a) = a + 1)
                         /\ (a = Long => OlderAge(a) = Long)
  BY LongIsLong DEF OlderAge
<1>3. /\ confirmed \in [Edges -> [Hostnames -> [tenant : Owners \cup {NoTenant}, age : 0..Long]]]
      /\ since \in [Owners -> [Hostnames -> 0..Long]]
      /\ claim \in [Claims -> [edge : Edges \cup {NoTenant}, tenant : Owners \cup {NoTenant},
                               hostnames : SUBSET Hostnames, waited : Nat]]
  BY Zenon DEF OwnershipTypeOK
<1>4. \A e \in Edges, h \in Hostnames :
        /\ confirmed[e][h].age \in 0..Long /\ confirmed[e][h].tenant \in Owners \cup {NoTenant}
        /\ confirmed'[e][h].tenant = confirmed[e][h].tenant
        /\ confirmed'[e][h].age = OlderAge(confirmed[e][h].age)
  <2> SUFFICES ASSUME NEW e \in Edges, NEW h \in Hostnames
               PROVE  /\ confirmed[e][h].age \in 0..Long
                      /\ confirmed[e][h].tenant \in Owners \cup {NoTenant}
                      /\ confirmed'[e][h].tenant = confirmed[e][h].tenant
                      /\ confirmed'[e][h].age = OlderAge(confirmed[e][h].age)
    BY Zenon
  <2>1. confirmed[e][h] \in [tenant : Owners \cup {NoTenant}, age : 0..Long]
    BY Zenon, <1>3
  <2>2. confirmed'[e][h] = [confirmed[e][h] EXCEPT !.age = OlderAge(@)]
    BY Zenon, <1>1
  <2> QED
    BY Zenon, <2>1, <2>2
<1>5. confirmed' \in [Edges -> [Hostnames -> [tenant : Owners \cup {NoTenant}, age : 0..Long]]]
  <2>1. \A e \in Edges, h \in Hostnames :
          [confirmed[e][h] EXCEPT !.age = OlderAge(@)] \in [tenant : Owners \cup {NoTenant}, age : 0..Long]
    <3> SUFFICES ASSUME NEW e \in Edges, NEW h \in Hostnames
                 PROVE  [confirmed[e][h] EXCEPT !.age = OlderAge(@)]
                          \in [tenant : Owners \cup {NoTenant}, age : 0..Long]
      BY Zenon
    <3>1. /\ confirmed[e][h] \in [tenant : Owners \cup {NoTenant}, age : 0..Long]
          /\ OlderAge(confirmed[e][h].age) \in 0..Long
      BY Zenon, <1>2, <1>3
    <3> QED
      BY Zenon, <3>1
  <2> QED
    BY Zenon, <1>1, <2>1
<1>6. /\ \A t \in Owners, h \in Hostnames :
           since[t][h] \in 0..Long /\ since'[t][h] = IF owner[h] = t THEN 0 ELSE OlderAge(since[t][h])
      /\ since' \in [Owners -> [Hostnames -> 0..Long]]
  <2>1. 0 \in 0..Long
    BY LongIsLong
  <2>2. \A t \in Owners, h \in Hostnames : since[t][h] \in 0..Long /\ OlderAge(since[t][h]) \in 0..Long
    BY Zenon, <1>2, <1>3
  <2> QED
    BY Zenon, <1>1, <2>1, <2>2
<1>7. \A t \in Owners, h \in Hostnames : since[t][h] \in Nat /\ since'[t][h] \in Nat /\ since'[t][h] <= since[t][h] + 1
  BY <1>2, <1>6, LongIsLong
<1>8. /\ claim' \in [Claims -> [edge : Edges \cup {NoTenant}, tenant : Owners \cup {NoTenant},
                                hostnames : SUBSET Hostnames, waited : Nat]]
      /\ \A c \in Claims :
           /\ claim'[c].edge = claim[c].edge /\ claim'[c].tenant = claim[c].tenant
           /\ claim'[c].hostnames = claim[c].hostnames
           /\ claim'[c].waited = IF claimPc[c] \in {"granted", "conflict"}
                                   THEN claim[c].waited + 1 ELSE claim[c].waited
  <2> DEFINE Record == [edge : Edges \cup {NoTenant}, tenant : Owners \cup {NoTenant},
                        hostnames : SUBSET Hostnames, waited : Nat]
  <2>1. ASSUME NEW c \in Claims
        PROVE  /\ claim'[c] \in Record
               /\ claim'[c].edge = claim[c].edge /\ claim'[c].tenant = claim[c].tenant
               /\ claim'[c].hostnames = claim[c].hostnames
               /\ claim'[c].waited = IF claimPc[c] \in {"granted", "conflict"}
                                       THEN claim[c].waited + 1 ELSE claim[c].waited
    <3>1. claim[c] \in Record /\ claim[c].waited + 1 \in Nat
      BY <1>3
    <3>2. CASE claimPc[c] \in {"granted", "conflict"}
      <4>1. claim'[c] = [claim[c] EXCEPT !.waited = @ + 1]
        BY Zenon, <1>1, <3>2
      <4> QED
        BY Zenon, <3>1, <3>2, <4>1
    <3>3. CASE claimPc[c] \notin {"granted", "conflict"}
      <4>1. claim'[c] = claim[c]
        BY Zenon, <1>1, <3>3
      <4> QED
        BY Zenon, <3>1, <3>3, <4>1
    <3> QED
      BY Zenon, <3>2, <3>3
  <2>2. claim' = [c \in Claims |-> claim'[c]]
    BY Zenon, <1>1
  <2> HIDE DEF Record
  <2>3. claim' \in [Claims -> Record]
    BY Zenon, <2>1, <2>2
  <2> QED
    BY Zenon, <2>1, <2>3 DEF Record
<1>9. OwnershipTypeOK' /\ LiveInv' /\ SinceInv'
  BY Zenon, <1>1, <1>5, <1>6, <1>8 DEF OwnershipTypeOK, LiveInv, SinceInv
<1>10. GrantedInv'
  <2> SUFFICES ASSUME NEW c \in Claims
               PROVE  /\ claimPc[c] = "sent" => claim'[c].waited = 0
                      /\ claimPc[c] = "granted" =>
                           /\ claim'[c].waited <= AnswerDelay
                           /\ \A h \in claim'[c].hostnames : since'[claim'[c].tenant][h] <= claim'[c].waited
    BY Zenon, <1>1 DEF GrantedInv
  <2>1. claimPc[c] = "sent" => claim'[c].waited = 0
    BY Zenon, <1>8 DEF GrantedInv
  <2>2. ASSUME claimPc[c] = "granted"
        PROVE  /\ claim'[c].waited <= AnswerDelay
               /\ \A h \in claim'[c].hostnames : since'[claim'[c].tenant][h] <= claim'[c].waited
    <3>1. claim[c].waited < AnswerDelay /\ claim[c].waited \in Nat /\ claim[c].tenant \in Owners
          /\ claim[c].hostnames \subseteq Hostnames
      BY Zenon, <1>3, <2>2 DEF OwnershipTick, LiveInv, Live
    <3>2. claim'[c].waited = claim[c].waited + 1
      BY Zenon, <1>8, <2>2
    <3>3. \A h \in claim[c].hostnames : since'[claim[c].tenant][h] <= claim[c].waited + 1
      BY <1>7, <2>2, <3>1 DEF GrantedInv
    <3> QED
      BY <1>8, <3>1, <3>2, <3>3, LongIsLong
  <2> QED
    BY Zenon, <2>1, <2>2
<1>11. ConfirmationWasTrue'
  <2> SUFFICES ASSUME NEW e \in Edges, NEW h \in Hostnames, confirmed'[e][h].age <= CacheTTL,
                      confirmed'[e][h].tenant # NoTenant
               PROVE  since'[confirmed'[e][h].tenant][h] <= confirmed'[e][h].age + AnswerDelay
    BY Zenon DEF ConfirmationWasTrue
  <2> DEFINE a == confirmed[e][h].age
             t == confirmed[e][h].tenant
  <2>1. a \in 0..Long /\ t \in Owners /\ confirmed'[e][h].age = OlderAge(a) /\ confirmed'[e][h].tenant = t
    BY Zenon, <1>4
  <2>2. ConfirmationWasTrue /\ (a <= CacheTTL => since[t][h] <= a + AnswerDelay)
    BY Zenon, <2>1, OwnershipAssumption DEF ConfirmationWasTrue
  <2> HIDE DEF a, t
  <2>3. a \in Nat /\ a <= CacheTTL /\ OlderAge(a) = a + 1
    BY <1>2, <2>1, LongIsLong
  <2>4. since[t][h] \in Nat /\ since'[t][h] \in Nat /\ since'[t][h] <= since[t][h] + 1
    BY Zenon, <1>7, <2>1
  <2> QED
    BY <2>1, <2>2, <2>3, <2>4, LongIsLong
<1>12. OwnedInv'
  BY <1>1, <1>4, <1>8 DEF OwnedInv
<1> QED
  BY Zenon, <1>9, <1>10, <1>11, <1>12

---------------------------------------------------------------------------
(* The theorems *)

\* Nothing is owned, claimed or confirmed at first.
LEMMA OwnershipInitHolds == OwnershipInit => OwnershipInv
<1> SUFFICES ASSUME OwnershipInit PROVE OwnershipInv
  BY Zenon
<1>1. Unconfirmed \in [tenant : Owners \cup {NoTenant}, age : 0..Long] /\ Unconfirmed.tenant = NoTenant
  BY LongIsLong DEF Unconfirmed
<1>2. NoClaim \in [edge : Edges \cup {NoTenant}, tenant : Owners \cup {NoTenant},
                   hostnames : SUBSET Hostnames, waited : Nat]
  BY Zenon DEF NoClaim
<1>3. OwnershipTypeOK
  BY <1>1, <1>2, LongIsLong DEF OwnershipInit, OwnershipTypeOK, ClaimStages
<1>4. LiveInv /\ SinceInv /\ GrantedInv
  BY Zenon, OwnershipAssumption DEF OwnershipInit, LiveInv, SinceInv, GrantedInv, Live
<1>5. ConfirmationWasTrue /\ OwnedInv
  BY Zenon, <1>1 DEF OwnershipInit, ConfirmationWasTrue, OwnedInv
<1> QED
  BY Zenon, <1>3, <1>4, <1>5 DEF OwnershipInv

\* Every step keeps the invariant.
LEMMA OwnershipStepKeeps == OwnershipInv /\ [OwnershipNext]_ownershipVars => OwnershipInv'
<1> SUFFICES ASSUME OwnershipInv, [OwnershipNext]_ownershipVars PROVE OwnershipInv'
  BY Zenon
<1>1. CASE UNCHANGED ownershipVars
  BY Zenon, <1>1 DEF ownershipVars, OwnershipInv, OwnershipTypeOK, LiveInv, SinceInv, GrantedInv,
              ConfirmationWasTrue, OwnedInv
<1>2. ASSUME NEW c \in Claims, ClaimStep(c) PROVE OwnershipInv'
  BY Zenon, <1>2, SendKeeps, ExecuteKeeps, EndKeeps, ConfirmKeeps, FallbackKeeps DEF ClaimStep
<1>3. CASE OwnerCommand
  BY Zenon, <1>3, ChangeKeeps DEF OwnerCommand, ReleaseHostname, TransferHostname
<1> QED
  BY Zenon, <1>1, <1>2, <1>3, ExecuteLateKeeps, OwnershipTickKeeps DEF OwnershipNext

\* OwnershipInv holds in every reachable state.
LEMMA OwnershipInvariant == OwnershipSpec => []OwnershipInv
BY OwnershipInitHolds, OwnershipStepKeeps, PTL DEF OwnershipSpec

\* Two Edges never accept different tenants for a hostname while no
\* administrator interferes, not even on their caches during an outage.
THEOREM NeverShared == OwnershipSpec => []NoSharedHostname
<1>1. OwnershipInv => NoSharedHostname
  BY DEF OwnershipInv, OwnedInv, NoSharedHostname
<1> QED
  BY <1>1, OwnershipInvariant, PTL

\* A cached confirmation was true at most its age and an answer's delay ago.
THEOREM ConfirmationsTrue == OwnershipSpec => []ConfirmationWasTrue
<1>1. OwnershipInv => ConfirmationWasTrue
  BY Zenon DEF OwnershipInv
<1> QED
  BY <1>1, OwnershipInvariant, PTL

\* A tenant is accepted only if it was the owner not longer ago than the
\* cache keeps a confirmation, plus an answer's delay.
THEOREM AcceptedOwners == OwnershipSpec => AcceptedWasOwner
<1> DEFINE A == \A c \in Claims :
                  claimPc[c] # "accepted" /\ claimPc'[c] = "accepted" =>
                      \A h \in claim[c].hostnames :
                          since[claim[c].tenant][h] <= CacheTTL + AnswerDelay
<1>1. ASSUME OwnershipInv, OwnershipNext PROVE A
  <2> SUFFICES ASSUME NEW c \in Claims, claimPc[c] # "accepted", claimPc'[c] = "accepted",
                      NEW h \in claim[c].hostnames
               PROVE  since[claim[c].tenant][h] <= CacheTTL + AnswerDelay
    BY Zenon
  <2>1. claimPc \in [Claims -> ClaimStages] /\ h \in Hostnames
    BY Zenon, <1>1 DEF OwnershipInv, OwnershipTypeOK
  <2>2. Confirm(c) \/ Fallback(c)
    <3>1. CASE UNCHANGED claimPc
      BY Zenon, <3>1
    <3>2. ASSUME NEW d \in Claims, ClaimStep(d) PROVE Confirm(c) \/ Fallback(c)
      BY Zenon, <2>1, <3>2 DEF ClaimStep, Send, Execute, Unavailable, Refuse, Leave, Confirm, Fallback, ClaimGoto
    <3> QED
      BY Zenon, <1>1, <3>1, <3>2 DEF OwnershipNext, ExecuteLate, OwnerCommand, ReleaseHostname,
                              TransferHostname, ChangeOwner, OwnershipTick
  <2>3. claim[c].tenant \in Owners
    BY Zenon, <1>1, <2>2, FallbackAccepts DEF Confirm, OwnershipInv, LiveInv, Live
  <2>4. since[claim[c].tenant][h] \in Nat
    BY <1>1, <2>1, <2>3, LongIsLong DEF OwnershipInv, OwnershipTypeOK
  <2>5. CASE Confirm(c)
    <3>1. /\ claim[c].waited \in Nat /\ claim[c].waited <= AnswerDelay
          /\ since[claim[c].tenant][h] <= claim[c].waited
      BY Zenon, <1>1, <2>5 DEF Confirm, OwnershipInv, OwnershipTypeOK, GrantedInv
    <3> QED
      BY <2>4, <3>1, LongIsLong
  <2>6. CASE Fallback(c)
    <3> DEFINE stored == confirmed[claim[c].edge][h]
    <3>1. claim[c].edge \in Edges /\ stored.age <= CacheTTL /\ stored.tenant = claim[c].tenant
      BY Zenon, <1>1, <2>6, FallbackAccepts
    <3>2. stored.age \in Nat
      BY <1>1, <2>1, <3>1, LongIsLong DEF OwnershipInv, OwnershipTypeOK
    <3>3. since[claim[c].tenant][h] <= stored.age + AnswerDelay
      BY Zenon, <1>1, <2>1, <2>3, <3>1, OwnershipAssumption DEF OwnershipInv, ConfirmationWasTrue
    <3> HIDE DEF stored
    <3> QED
      BY <2>4, <3>1, <3>2, <3>3, LongIsLong
  <2> QED
    BY Zenon, <2>2, <2>5, <2>6
<1>2. OwnershipInv /\ [OwnershipNext]_ownershipVars => [A]_ownershipVars
  BY Zenon, <1>1
<1> QED
  BY <1>2, OwnershipInvariant, PTL DEF OwnershipSpec, AcceptedWasOwner

---------------------------------------------------------------------------
(* The composition *)

\* The routes and the claims on hostnames have keys of their own in Valkey, so
\* a behaviour of the control plane is one of each: what is proved above of
\* either component holds where both are (RouteAdvertiser, claim_hostnames).
THEOREM ControlRefinesBoth == ControlSpec => RouteSpec /\ OwnershipSpec
<1>1. ControlInit => Init /\ OwnershipInit
  BY Zenon DEF ControlInit
<1>2. [ControlNext]_<<plane, vars, ownershipVars>> => [Next]_vars /\ [OwnershipNext]_ownershipVars
  BY Zenon DEF ControlNext
<1> QED
  BY <1>1, <1>2, PTL DEF ControlSpec, RouteSpec, OwnershipSpec
=============================================================================
