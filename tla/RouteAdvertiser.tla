-------------------------- MODULE RouteAdvertiser --------------------------
(***************************************************************************)
(* How an Edge advertises the routes of its Connectors in Valkey, and how  *)
(* a peer Edge copies them into its route table (mesh/routes.rs and the    *)
(* route commands of valkey.rs).                                           *)
(*                                                                         *)
(* A registration contributes one advertisement, which names it by its     *)
(* generation; it stands for the registration's hostnames and protocols.   *)
(* Handlers are numbered in the order in which they register, so a handler *)
(* is its generation and its advertisement.                                *)
(*                                                                         *)
(* An expiry is kept as the time that is left until it; TTL counts route   *)
(* refresh intervals, and Tick lets one pass.  An entry with no time left  *)
(* is invisible to every reader.  The peer treats advertisements one by    *)
(* one, so its table is followed for one of them.                          *)
(***************************************************************************)
EXTENDS Integers, Sequences, FiniteSets

CONSTANTS
    Tenants,
    NumHandlers,
    TenantOf,      \* the tenant of each handler's token
    Watched,       \* the advertisement whose copy in the peer's table is followed
    TTL,           \* mesh.route_ttl in refresh intervals
    MaxTicks,      \* bound on the refreshes of the ticker
    MaxFailures,   \* bound on the Valkey commands that fail
    None,          \* no registration
    NoDigest       \* no route set was published yet

Handlers == 1..NumHandlers

Ticker == 0

Tasks == Handlers \cup {Ticker}

ASSUME ConstantsAssumption ==
    /\ NumHandlers \in Nat
    /\ TenantOf \in [Handlers -> Tenants]
    /\ Watched \in Handlers
    /\ TTL \in Nat \ {0}
    /\ MaxTicks \in Nat
    /\ MaxFailures \in Nat
    /\ None \notin Tasks
    /\ \A ads \in SUBSET Handlers : NoDigest # ads

VARIABLES
    current,        \* the registry: tenant -> the registration a snapshot finds
    routes,         \* Valkey's route set: time left of every advertisement
    own,            \* Valkey's set of the members this Edge advertised ...
    own_left,       \* ... and the time left of that set
    info_left,      \* time left of the Edge's published address
    published,      \* published_routes: the set whose digest was stored
    requests,       \* advertise_requests
    covered,        \* PublishState.covered
    stopped,        \* PublishState.stopped
    queue,          \* the waiters of publish_lock; the first one holds it
    pc,
    request,        \* the request number of a task in advertise_now
    covering,       \* the lock holder's local variable covered
    sent,           \* the lock holder's snapshot, and the time it has left
    ticks,
    failures,
    shutdown,       \* the shutdown token
    subscribed,     \* the peer's subscription to route changes
    notified,       \* a change message the peer has not consumed
    sync,           \* where the peer's sync is
    fetched,        \* time left of the watched route as the peer has read it
    table           \* its time left in the peer's route table

valkey == <<routes, own, own_left, info_left>>
state == <<published, requests, covered, stopped>>
peer == <<subscribed, sync, fetched, table>>
vars == <<current, valkey, state, queue, pc, request, covering, sent, ticks,
          failures, shutdown, notified, peer>>

Nothing == [h \in Handlers |-> 0]

Init ==
    /\ current = [t \in Tenants |-> None]
    /\ routes = Nothing
    /\ own = {}
    /\ own_left = 0
    /\ info_left = 0
    /\ published = NoDigest
    /\ requests = 0
    /\ covered = 0
    /\ stopped = FALSE
    /\ queue = <<>>
    /\ pc = [t \in Tasks |-> "start"]
    /\ request = [t \in Tasks |-> 0]
    /\ covering = 0
    /\ sent = [ads |-> {}, left |-> 0]
    /\ ticks = 0
    /\ failures = 0
    /\ shutdown = FALSE
    /\ subscribed = TRUE
    /\ notified = FALSE
    /\ sync = "wait"
    /\ fetched = 0
    /\ table = 0

---------------------------------------------------------------------------
(* publish_lock: a tokio mutex, which serves its waiters in order *)

Goto(t, stage) == pc' = [pc EXCEPT ![t] = stage]

HoldsLock(t) == queue # <<>> /\ Head(queue) = t

\* Dropping the guard hands the lock to the next waiter.
Unlock == queue' = Tail(queue)

\* The guard is dropped and the locals of advertise_now or stop with it.
Release(t) ==
    /\ Unlock
    /\ request' = [request EXCEPT ![t] = 0]
    /\ covering' = 0
    /\ sent' = [ads |-> {}, left |-> 0]

\* What follows advertise_now in the task.
AfterAdvertise(t) == IF t = Ticker THEN "start" ELSE "serving"

---------------------------------------------------------------------------
(* Valkey commands: executed and answered, executed but the answer lost, or
   not executed at all *)

Outcomes == {"ok", "answer lost", "not executed"}

Executed(outcome) == outcome # "not executed"

\* A command that does not answer counts against the bound.
Answers(outcome) ==
    /\ outcome # "ok" => failures < MaxFailures
    /\ failures' = IF outcome = "ok" THEN failures ELSE failures + 1

\* Mutant: the script publishes on the caller's changed flag only.
ChangedFlagOnly(ads, removed) == ads # published /\ ads # {}

\* ROUTES_REPLACE_SCRIPT publishes if it removed a route or if the caller says
\* that a nonempty set differs from the last one it published.
Notifies(ads, removed) == removed # {} \/ (ads # published /\ ads # {})

\* Mutant: the own set keeps the expiry it had.
OwnExpiryKept(ads) == IF own_left = 0 THEN TTL ELSE own_left

\* PEXPIRE of the own set when at least one member is advertised.
OwnExpiry(ads) == IF ads # {} THEN TTL ELSE own_left

\* ROUTES_REPLACE_SCRIPT: drops the own members that are no longer desired and
\* advertises the desired ones until the expiry of the snapshot.
ReplaceRoutes(ads, left) ==
    LET removed == {h \in own \ ads : routes[h] > 0}
    IN  /\ routes' = [h \in Handlers |->
                        IF h \in ads THEN left
                        ELSE IF h \in own THEN 0 ELSE routes[h]]
        /\ own' = ads
        /\ own_left' = OwnExpiry(ads)
        /\ notified' = (notified \/ (subscribed /\ Notifies(ads, removed)))

\* withdraw_routes: one atomic pipeline, which always publishes a change.
RemoveRoutes(ads) ==
    /\ routes' = [h \in Handlers |-> IF h \in ads THEN 0 ELSE routes[h]]
    /\ own' = own \ ads
    /\ notified' = (notified \/ subscribed)

---------------------------------------------------------------------------
(* advertise_now *)

\* A handler that has registered, or the ticker, takes a request number.
Request(t) ==
    /\ \/ t \in Handlers /\ pc[t] = "registered"
       \/ t = Ticker /\ pc[t] = "start" /\ ticks < MaxTicks
    /\ requests' = requests + 1
    /\ request' = [request EXCEPT ![t] = requests + 1]
    /\ ticks' = IF t = Ticker THEN ticks + 1 ELSE ticks
    /\ Goto(t, "requested")
    /\ UNCHANGED <<current, valkey, published, covered, stopped, queue, covering,
                   sent, failures, shutdown, notified, peer>>

\* lock().await: requests may queue up in another order than they were issued.
Lock(t) ==
    /\ pc[t] = "requested"
    /\ \A i \in DOMAIN queue : queue[i] # t
    /\ queue' = Append(queue, t)
    /\ UNCHANGED <<current, valkey, state, pc, request, covering, sent, ticks,
                   failures, shutdown, notified, peer>>

\* Mutant: the routes are advertised again while the Edge drains.
SkipCoveredOnly(t) == covered >= request[t]

Skips(t) == stopped \/ covered >= request[t]

\* The Edge has stopped, or a publish since the request covered it.
Skip(t) ==
    /\ pc[t] = "requested"
    /\ HoldsLock(t)
    /\ Skips(t)
    /\ Release(t)
    /\ Goto(t, AfterAdvertise(t))
    /\ UNCHANGED <<current, valkey, state, ticks, failures, shutdown, notified, peer>>

\* The requests issued so far are covered; then publish_edge_info, on whose
\* failure advertise_now gives up.
PublishInfo(t) ==
    /\ pc[t] = "requested"
    /\ HoldsLock(t)
    /\ ~Skips(t)
    /\ \E outcome \in Outcomes :
        /\ Answers(outcome)
        /\ info_left' = IF Executed(outcome) THEN TTL ELSE info_left
        /\ IF outcome = "ok"
             THEN /\ covering' = requests
                  /\ Goto(t, "snapshot")
                  /\ UNCHANGED <<queue, request, sent>>
             ELSE Release(t) /\ Goto(t, AfterAdvertise(t))
    /\ UNCHANGED <<current, routes, own, own_left, state, ticks, shutdown, notified, peer>>

LocalAds == {h \in Handlers : current[TenantOf[h]] = h}

\* local_ads, and what publish_routes computes before it sends the command.
Snapshot(t) ==
    /\ pc[t] = "snapshot"
    /\ sent' = [ads |-> LocalAds, left |-> TTL]
    /\ Goto(t, "sending")
    /\ UNCHANGED <<current, valkey, state, queue, request, covering, ticks,
                   failures, shutdown, notified, peer>>

\* Mutant: the requests issued during the publish count as covered.
CoveredUntilNow == requests

CoveredByPublish == covering

\* publish_routes: only a confirmed publish stores the digest and covers the
\* requests that were issued before the snapshot.
PublishRoutes(t) ==
    /\ pc[t] = "sending"
    /\ \E outcome \in Outcomes :
        /\ Answers(outcome)
        /\ IF Executed(outcome)
             THEN ReplaceRoutes(sent.ads, sent.left)
             ELSE UNCHANGED <<routes, own, own_left, notified>>
        /\ IF outcome = "ok"
             THEN published' = sent.ads /\ covered' = CoveredByPublish
             ELSE UNCHANGED <<published, covered>>
    /\ Release(t)
    /\ Goto(t, AfterAdvertise(t))
    /\ UNCHANGED <<current, info_left, requests, stopped, ticks, shutdown, peer>>

---------------------------------------------------------------------------
(* Connectors come and go *)

\* register: the newest registration of a tenant is the current one.
Register(h) ==
    /\ pc[h] = "start"
    /\ \A g \in Handlers : g < h => pc[g] # "start"
    /\ current' = [current EXCEPT ![TenantOf[h]] = h]
    /\ Goto(h, "registered")
    /\ UNCHANGED <<valkey, state, queue, request, covering, sent, ticks,
                   failures, shutdown, notified, peer>>

\* remove: only the current registration is removed; withdraw_registration then
\* queues for the lock.
Disconnect(h) ==
    /\ pc[h] = "serving"
    /\ IF current[TenantOf[h]] = h
         THEN /\ current' = [current EXCEPT ![TenantOf[h]] = None]
              /\ queue' = Append(queue, h)
              /\ Goto(h, "withdrawing")
         ELSE Goto(h, "done") /\ UNCHANGED <<current, queue>>
    /\ UNCHANGED <<valkey, state, request, covering, sent, ticks,
                   failures, shutdown, notified, peer>>

\* Mutant: routes are withdrawn without the lock.
WithdrawsUnlocked(h) == TRUE

WithdrawsLocked(h) == HoldsLock(h)

\* withdraw_registration: a failure is logged only.
Withdraw(h) ==
    /\ pc[h] = "withdrawing"
    /\ WithdrawsLocked(h)
    /\ \E outcome \in Outcomes :
        /\ Answers(outcome)
        /\ IF Executed(outcome) THEN RemoveRoutes({h}) ELSE UNCHANGED <<routes, own, notified>>
        /\ published' = IF outcome = "ok" THEN NoDigest ELSE published
        /\ Goto(h, IF outcome = "ok" THEN "withdrawn" ELSE "done")
    /\ Unlock
    /\ UNCHANGED <<current, own_left, info_left, requests, covered, stopped, request,
                   covering, sent, ticks, shutdown, peer>>

---------------------------------------------------------------------------
(* Shutdown *)

Shutdown ==
    /\ ~shutdown
    /\ shutdown' = TRUE
    /\ UNCHANGED <<current, valkey, state, queue, pc, request, covering, sent, ticks,
                   failures, notified, peer>>

\* run: the select sees the token between two refreshes and calls stop.
Stopping ==
    /\ shutdown
    /\ pc[Ticker] = "start"
    /\ queue' = Append(queue, Ticker)
    /\ Goto(Ticker, "stopping")
    /\ UNCHANGED <<current, valkey, state, request, covering, sent, ticks,
                   failures, shutdown, notified, peer>>

\* stop: the flag is set and the snapshot taken as soon as the lock is held.
Stop ==
    /\ pc[Ticker] = "stopping"
    /\ HoldsLock(Ticker)
    /\ stopped' = TRUE
    /\ sent' = [ads |-> LocalAds, left |-> 0]
    /\ Goto(Ticker, "withdrawing all")
    /\ UNCHANGED <<current, valkey, published, requests, covered, queue, request,
                   covering, ticks, failures, shutdown, notified, peer>>

\* withdraw_routes returns at once when there is nothing to withdraw.
StopWithdraws ==
    /\ pc[Ticker] = "withdrawing all"
    /\ \/ /\ sent.ads = {}
          /\ UNCHANGED <<routes, own, notified, published, failures>>
       \/ /\ sent.ads # {}
          /\ \E outcome \in Outcomes :
              /\ Answers(outcome)
              /\ IF Executed(outcome)
                   THEN RemoveRoutes(sent.ads)
                   ELSE UNCHANGED <<routes, own, notified>>
              /\ published' = IF outcome = "ok" THEN NoDigest ELSE published
    /\ Goto(Ticker, "removing info")
    /\ UNCHANGED <<current, own_left, info_left, requests, covered, stopped, queue,
                   request, covering, sent, ticks, shutdown, peer>>

\* remove_edge_info: a failure is ignored.
StopRemovesInfo ==
    /\ pc[Ticker] = "removing info"
    /\ \E outcome \in Outcomes :
        /\ Answers(outcome)
        /\ info_left' = IF Executed(outcome) THEN 0 ELSE info_left
    /\ Release(Ticker)
    /\ Goto(Ticker, "done")
    /\ UNCHANGED <<current, routes, own, own_left, state, ticks, shutdown, notified, peer>>

---------------------------------------------------------------------------
(* RouteSync of a peer *)

\* The peer wakes up by a change message, because its subscription ended, or by
\* its refresh timer, which also tries to restore a subscription that ended.
\* After that, sync reads the route set.
FetchRoutes ==
    /\ sync \in {"wait", "failed"}
    /\ \/ notified /\ notified' = FALSE /\ UNCHANGED subscribed
       \/ \E again \in BOOLEAN : subscribed' = (subscribed \/ again) /\ UNCHANGED notified
    /\ fetched' = routes[Watched]
    /\ sync' = "fetched"
    /\ UNCHANGED <<current, valkey, state, queue, pc, request, covering, sent, ticks,
                   failures, shutdown, table>>

\* The connection of the subscription breaks: messages are lost from now on.
SubscriptionEnds ==
    /\ subscribed
    /\ failures < MaxFailures
    /\ failures' = failures + 1
    /\ subscribed' = FALSE
    /\ notified' = FALSE
    /\ UNCHANGED <<current, valkey, state, queue, pc, request, covering, sent, ticks,
                   shutdown, sync, fetched, table>>

\* live_edges and fetch_edge_infos, then the whole table is replaced.  An Edge
\* without a heartbeat (live is FALSE) or an address is left out.
ReplaceTable ==
    /\ sync = "fetched"
    /\ \E live \in BOOLEAN :
        table' = IF live /\ info_left > 0 THEN fetched ELSE 0
    /\ fetched' = 0
    /\ sync' = "wait"
    /\ UNCHANGED <<current, valkey, state, queue, pc, request, covering, sent, ticks,
                   failures, shutdown, notified, subscribed>>

\* One of the reads fails: the cached routes are kept until they expire.
SyncFails ==
    /\ sync = "fetched"
    /\ failures < MaxFailures
    /\ failures' = failures + 1
    /\ fetched' = 0
    /\ sync' = "failed"
    /\ UNCHANGED <<current, valkey, state, queue, pc, request, covering, sent, ticks,
                   shutdown, notified, subscribed, table>>

---------------------------------------------------------------------------

Older(left) == IF left > 0 THEN left - 1 ELSE 0

\* Time passes: whatever has an expiry comes closer to it.
Tick ==
    /\ routes' = [h \in Handlers |-> Older(routes[h])]
    /\ own_left' = Older(own_left)
    /\ own' = IF own_left' = 0 THEN {} ELSE own
    /\ info_left' = Older(info_left)
    /\ sent' = [sent EXCEPT !.left = Older(@)]
    /\ fetched' = Older(fetched)
    /\ table' = Older(table)
    /\ UNCHANGED <<current, state, queue, pc, request, covering, ticks, failures,
                   shutdown, notified, subscribed, sync>>

\* The steps a task of the Edge takes by itself.
TaskStep(t) ==
    \/ Request(t) \/ Lock(t) \/ Skip(t)
    \/ PublishInfo(t) \/ Snapshot(t) \/ PublishRoutes(t)
    \/ t \in Handlers /\ Withdraw(t)
    \/ t = Ticker /\ (Stop \/ StopWithdraws \/ StopRemovesInfo)

PeerStep == FetchRoutes \/ SubscriptionEnds \/ ReplaceTable \/ SyncFails

Next ==
    \/ \E t \in Tasks : TaskStep(t)
    \/ \E h \in Handlers : Register(h) \/ Disconnect(h)
    \/ Shutdown \/ Stopping
    \/ PeerStep
    \/ Tick

RouteSpec == Init /\ [][Next]_vars

---------------------------------------------------------------------------
(* Properties *)

\* Every route that peers can still see is in the Edge's own set, and that set
\* outlives it: the next publish finds everything it has to remove.
OwnSetCoversRoutes ==
    \A h \in Handlers : routes[h] > 0 => h \in own /\ routes[h] <= own_left

\* Once withdraw_registration has withdrawn a generation, no publish, refresh
\* or late snapshot brings it back.
WithdrawnStaysGone ==
    \A h \in Handlers : pc[h] = "withdrawn" => routes[h] = 0

\* A peer whose last sync succeeded and who has no change message waiting uses
\* no route that was withdrawn or replaced in Valkey before its time.
PeerForgetsWithdrawn ==
    sync = "wait" /\ subscribed /\ ~notified /\ table > 0 => routes[Watched] > 0

\* A caller of advertise_now that returns because its request was covered has
\* its own registration among the routes the Edge has advertised (unless that
\* registration is no longer current, or the routes expired meanwhile).
CoalescedIsPublished ==
    [][\A h \in Handlers :
          Skip(h) /\ ~stopped /\ h \in LocalAds => h \in own \/ own_left = 0]_vars

\* After stop has set its flag, no route of this Edge appears again, and its
\* address is not published again.
NothingAfterStop ==
    [][stopped => /\ \A h \in Handlers : routes'[h] <= routes[h]
                  /\ info_left' <= info_left]_vars
=============================================================================
