---------------------------- MODULE MeshForward ----------------------------
(***************************************************************************)
(* How an ingress Edge forwards requests to peer Edges: the candidates of  *)
(* a request and its retries (router.rs), the pool of peer connections     *)
(* with its cool-down (mesh/transport.rs), and the exchange of a forward   *)
(* request with the handler of the peer (mesh/forward.rs).                 *)
(*                                                                         *)
(* What the peer checks before it opens a tunnel is reduced to its answer, *)
(* and the stream budgets are the module PermitTable: here a request gets  *)
(* its slots or times out.                                                 *)
(***************************************************************************)
EXTENDS Integers, Sequences, FiniteSets, SequencesExt

CONSTANTS
    Peers,
    Ranked,        \* the peers as a sequence: the order of RouteTable::replace
    NumRequests,
    Advertisers,   \* the peers that advertise the hostname of a request
    MaxConns,      \* bound on the connections made to a peer
    NoConn         \* no connection to a peer is pooled

Requests == 1..NumRequests

Conns == 1..MaxConns

ASSUME ConstantsAssumption ==
    /\ Ranked \in Seq(Peers)
    /\ IsInjective(Ranked)
    /\ NumRequests \in Nat
    /\ Advertisers \in [Requests -> SUBSET Peers]
    /\ MaxConns \in Nat
    /\ NoConn \notin Conns

VARIABLES
    pool,         \* PeerPool.connections: peer -> connection or NoConn
    made,         \* connections made to a peer so far; they are numbered
    open,         \* peer -> the connections to it that are open
    cooling,      \* PeerPool.cooldown: the peers whose cool-down has not ended
    locks,        \* PeerPool.connect_locks: the waiters; the first one holds it
    pc,           \* where the ingress is with a request
    routes,       \* the candidates that are left; the first one is being tried
    conn,         \* the connection a request uses
    evicted,      \* connection_failed has removed the pooled connection
    remote,       \* request -> peer -> where the peer's handler is
    dropped,      \* request -> the peers whose stream the ingress has dropped
    payload,      \* request -> the peers the client's bytes were sent to
    refusals      \* peer -> failed attempts to connect since it last cooled down

pooled == <<pool, made, open, cooling>>
exchange == <<remote, dropped, payload>>
vars == <<pooled, locks, pc, routes, conn, evicted, exchange, refusals>>

Stages == {"idle", "try", "lock", "connecting", "slots", "opening", "waiting",
           "cooling", "streaming", "done", "failed"}

Init ==
    /\ pool = [p \in Peers |-> NoConn]
    /\ made = [p \in Peers |-> 0]
    /\ open = [p \in Peers |-> {}]
    /\ cooling = {}
    /\ locks = [p \in Peers |-> <<>>]
    /\ pc = [r \in Requests |-> "idle"]
    /\ routes = [r \in Requests |-> <<>>]
    /\ conn = [r \in Requests |-> NoConn]
    /\ evicted = [r \in Requests |-> FALSE]
    /\ remote = [r \in Requests |-> [p \in Peers |-> "none"]]
    /\ dropped = [r \in Requests |-> {}]
    /\ payload = [r \in Requests |-> {}]
    /\ refusals = [p \in Peers |-> 0]

Peer(r) == Head(routes[r])

Goto(r, stage) == pc' = [pc EXCEPT ![r] = stage]

\* Mutant: the guard is kept.
StaysLocked(r) == UNCHANGED locks

Unlock(r) == locks' = [locks EXCEPT ![Peer(r)] = Tail(@)]

\* A retryable failure: the next candidate is tried, if there is one.
TryNext(r) ==
    /\ routes' = [routes EXCEPT ![r] = Tail(@)]
    /\ conn' = [conn EXCEPT ![r] = NoConn]
    /\ Goto(r, IF Len(routes[r]) > 1 THEN "try" ELSE "failed")

Drop(r) == dropped' = [dropped EXCEPT ![r] = @ \cup {Peer(r)}]

---------------------------------------------------------------------------
(* Router::route *)

\* The unexpired candidates that are not cooling down.
Route(r) ==
    /\ pc[r] = "idle"
    /\ \E unexpired \in SUBSET Advertisers[r] :
        LET candidates == SelectSeq(Ranked, LAMBDA p : p \in unexpired \ cooling)
        IN  /\ routes' = [routes EXCEPT ![r] = candidates]
            /\ Goto(r, IF candidates = <<>> THEN "failed" ELSE "try")
    /\ UNCHANGED <<pooled, locks, conn, evicted, exchange, refusals>>

---------------------------------------------------------------------------
(* PeerPool::connection *)

Usable(p) == pool[p] # NoConn /\ pool[p] \in open[p]

UsePooled(r) ==
    /\ pc[r] = "try"
    /\ Usable(Peer(r))
    /\ conn' = [conn EXCEPT ![r] = pool[Peer(r)]]
    /\ Goto(r, "slots")
    /\ UNCHANGED <<pooled, locks, routes, evicted, exchange, refusals>>

FailedRecently(r) ==
    /\ pc[r] = "try"
    /\ ~Usable(Peer(r))
    /\ Peer(r) \in cooling
    /\ TryNext(r)
    /\ UNCHANGED <<pooled, locks, evicted, exchange, refusals>>

\* lock().await: a tokio mutex, which serves its waiters in order.
WaitForLock(r) ==
    /\ pc[r] = "try"
    /\ ~Usable(Peer(r))
    /\ Peer(r) \notin cooling
    /\ locks' = [locks EXCEPT ![Peer(r)] = Append(@, r)]
    /\ Goto(r, "lock")
    /\ UNCHANGED <<pooled, routes, conn, evicted, exchange, refusals>>

HoldsLock(r) == Head(locks[Peer(r)]) = r

\* Somebody connected while this request waited.
ConnectedMeanwhile(r) ==
    /\ pc[r] = "lock"
    /\ HoldsLock(r)
    /\ Usable(Peer(r))
    /\ conn' = [conn EXCEPT ![r] = pool[Peer(r)]]
    /\ Unlock(r)
    /\ Goto(r, "slots")
    /\ UNCHANGED <<pooled, routes, evicted, exchange, refusals>>

\* Mutant: the cool-down is not looked at again.
NeverCooled(r) == FALSE

\* The check behind the lock: somebody failed to connect meanwhile.
Cooled(r) == Peer(r) \in cooling

FailedMeanwhile(r) ==
    /\ pc[r] = "lock"
    /\ HoldsLock(r)
    /\ ~Usable(Peer(r))
    /\ Cooled(r)
    /\ Unlock(r)
    /\ TryNext(r)
    /\ UNCHANGED <<pooled, evicted, exchange, refusals>>

Connect(r) ==
    /\ pc[r] = "lock"
    /\ HoldsLock(r)
    /\ ~Usable(Peer(r))
    /\ ~Cooled(r)
    /\ Goto(r, "connecting")
    /\ UNCHANGED <<pooled, locks, routes, conn, evicted, exchange, refusals>>

\* The stable id of a new connection.
NextConn(p) == made[p] + 1

\* connect: the cool-down is lifted, then the connection is pooled.
Connected(r) ==
    LET p == Peer(r)
        c == NextConn(p)
    IN  /\ pc[r] = "connecting"
        /\ made[p] < MaxConns
        /\ made' = [made EXCEPT ![p] = c]
        /\ open' = [open EXCEPT ![p] = @ \cup {c}]
        /\ cooling' = cooling \ {p}
        /\ refusals' = [refusals EXCEPT ![p] = 0]
        /\ pool' = [pool EXCEPT ![p] = c]
        /\ conn' = [conn EXCEPT ![r] = c]
        /\ Unlock(r)
        /\ Goto(r, "slots")
        /\ UNCHANGED <<routes, evicted, exchange>>

\* Unreachable, timed out, or another identity: the peer cools down.
ConnectFails(r) ==
    /\ pc[r] = "connecting"
    /\ cooling' = cooling \cup {Peer(r)}
    /\ refusals' = [refusals EXCEPT ![Peer(r)] = @ + 1]
    /\ Unlock(r)
    /\ TryNext(r)
    /\ UNCHANGED <<pool, made, open, evicted, exchange>>

---------------------------------------------------------------------------
(* open_remote_stream *)

\* The slots of the tenant and the peer, or a time-out.
GetSlots(r) ==
    /\ pc[r] = "slots"
    /\ \/ Goto(r, "opening") /\ UNCHANGED <<routes, conn>>
       \/ TryNext(r)
    /\ UNCHANGED <<pooled, locks, evicted, exchange, refusals>>

IsOpen(r) == conn[r] \in open[Peer(r)]

\* open_bi and the request.
Send(r) ==
    /\ pc[r] = "opening"
    /\ IsOpen(r)
    /\ remote' = [remote EXCEPT ![r][Peer(r)] = "sent"]
    /\ Goto(r, "waiting")
    /\ UNCHANGED <<pooled, locks, routes, conn, evicted, dropped, payload, refusals>>

\* Mutant: the pool forgets its connection, whichever one has failed.
EvictsAny(r) == pool[Peer(r)] # NoConn

\* remove_if with the closure that compares the connections.
Evicts(r) == pool[Peer(r)] = conn[r]

Evict(r) ==
    /\ evicted' = [evicted EXCEPT ![r] = Evicts(r)]
    /\ pool' = [pool EXCEPT ![Peer(r)] = IF Evicts(r) THEN NoConn ELSE @]

\* The connection was closed below the exchange: connection_failed begins.
StreamFails(r) ==
    /\ pc[r] \in {"opening", "waiting"}
    /\ ~IsOpen(r)
    /\ Evict(r)
    /\ Drop(r)
    /\ Goto(r, "cooling")
    /\ UNCHANGED <<made, open, cooling, locks, routes, conn, remote, payload, refusals>>

\* The rest of connection_failed; another task may have connected in between.
CoolDown(r) ==
    /\ pc[r] = "cooling"
    /\ cooling' = IF evicted[r] \/ pool[Peer(r)] = NoConn
                    THEN cooling \cup {Peer(r)} ELSE cooling
    /\ evicted' = [evicted EXCEPT ![r] = FALSE]
    /\ TryNext(r)
    /\ UNCHANGED <<pool, made, open, locks, exchange, refusals>>

\* accept_timeout has passed, or the stream fails on a connection that is open:
\* connection_failed then returns at once.  The stream is dropped.
Timeout(r) ==
    /\ pc[r] \in {"opening", "waiting"}
    /\ Drop(r)
    /\ TryNext(r)
    /\ UNCHANGED <<pooled, locks, evicted, remote, payload, refusals>>

\* It has passed, and nothing at all was received: connection_unresponsive
\* closes the connection for all its streams.
TimeoutSilent(r) ==
    /\ pc[r] = "waiting"
    /\ IsOpen(r)
    /\ open' = [open EXCEPT ![Peer(r)] = @ \ {conn[r]}]
    /\ Evict(r)
    /\ Drop(r)
    /\ Goto(r, "cooling")
    /\ UNCHANGED <<made, cooling, locks, routes, conn, remote, payload, refusals>>

\* The answer arrives.
Accepted(r) ==
    /\ pc[r] = "waiting"
    /\ IsOpen(r)
    /\ remote[r][Peer(r)] = "accepted"
    /\ payload' = [payload EXCEPT ![r] = @ \cup {Peer(r)}]
    /\ Goto(r, "streaming")
    /\ UNCHANGED <<pooled, locks, routes, conn, evicted, remote, dropped, refusals>>

Rejected(r) ==
    /\ pc[r] = "waiting"
    /\ IsOpen(r)
    /\ \/ remote[r][Peer(r)] = "rejected" /\ TryNext(r)
       \/ remote[r][Peer(r)] = "refused" /\ Goto(r, "failed") /\ UNCHANGED <<routes, conn>>
    /\ UNCHANGED <<pooled, locks, evicted, exchange, refusals>>

\* Mutant: a broken stream is tried on the next candidate.
RetriesStream(r) == TryNext(r)

\* The client or the peer ends the stream, or its connection breaks.
EndsStream(r) == Goto(r, "done") /\ UNCHANGED <<routes, conn>>

StreamEnds(r) ==
    /\ pc[r] = "streaming"
    /\ EndsStream(r)
    /\ Drop(r)
    /\ UNCHANGED <<pooled, locks, evicted, remote, payload, refusals>>

\* The client goes away, and the task that routes its request is dropped at
\* one of its awaits: with the lock or its place in the queue, and its stream.
ClientLeaves(r) ==
    /\ pc[r] \in {"lock", "connecting", "slots", "opening", "waiting"}
    /\ locks' = [locks EXCEPT ![Peer(r)] = RemoveFirst(@, r)]
    /\ Drop(r)
    /\ Goto(r, "done")
    /\ UNCHANGED <<pooled, routes, conn, evicted, remote, payload, refusals>>

---------------------------------------------------------------------------
(* handle_forward of a peer *)

At(r, p, stage) == remote' = [remote EXCEPT ![r][p] = stage]

peerUnchanged == <<pooled, locks, pc, routes, conn, evicted, dropped, payload, refusals>>

\* The checks of the request fail, or no tunnel is opened in time.  NoRoute and
\* Overloaded let the ingress try another Edge, the other reasons do not.
PeerRejects(r, p) ==
    /\ remote[r][p] = "sent"
    /\ \E answer \in {"rejected", "refused"} : At(r, p, answer)
    /\ UNCHANGED peerUnchanged

\* The tunnel is opened: the Connector has the ConnectRequest.
PeerOpens(r, p) ==
    /\ remote[r][p] = "sent"
    /\ At(r, p, "opened")
    /\ UNCHANGED peerUnchanged

\* The response is written; whether the ingress still reads it is not known.
PeerAccepts(r, p) ==
    /\ remote[r][p] = "opened"
    /\ At(r, p, "accepted")
    /\ UNCHANGED peerUnchanged

\* The ingress has dropped the stream: the wait or the write ends.
PeerAbandons(r, p) ==
    /\ remote[r][p] \in {"sent", "opened"}
    /\ p \in dropped[r]
    /\ At(r, p, "ended")
    /\ UNCHANGED peerUnchanged

---------------------------------------------------------------------------

\* A connection breaks or the peer closes it.
ConnectionCloses(p, c) ==
    /\ c \in open[p]
    /\ open' = [open EXCEPT ![p] = @ \ {c}]
    /\ UNCHANGED <<pool, made, cooling, locks, pc, routes, conn, evicted, exchange, refusals>>

CooldownEnds(p) ==
    /\ p \in cooling
    /\ cooling' = cooling \ {p}
    /\ refusals' = [refusals EXCEPT ![p] = 0]
    /\ UNCHANGED <<pool, made, open, locks, pc, routes, conn, evicted, exchange>>

\* The steps of the ingress that something always ends: a time-out, an answer
\* or the runtime.
IngressStep(r) ==
    \/ UsePooled(r) \/ FailedRecently(r) \/ WaitForLock(r)
    \/ ConnectedMeanwhile(r) \/ FailedMeanwhile(r) \/ Connect(r)
    \/ Connected(r) \/ ConnectFails(r) \/ GetSlots(r) \/ Send(r)
    \/ StreamFails(r) \/ CoolDown(r) \/ Timeout(r) \/ TimeoutSilent(r)
    \/ Accepted(r) \/ Rejected(r)

PeerStep(r, p) ==
    PeerRejects(r, p) \/ PeerOpens(r, p) \/ PeerAccepts(r, p) \/ PeerAbandons(r, p)

Next ==
    \/ \E r \in Requests : Route(r) \/ IngressStep(r) \/ StreamEnds(r) \/ ClientLeaves(r)
    \/ \E r \in Requests, p \in Peers : PeerStep(r, p)
    \/ \E p \in Peers, c \in Conns : ConnectionCloses(p, c)
    \/ \E p \in Peers : CooldownEnds(p)

Spec == Init /\ [][Next]_vars

\* Every wait of the ingress has a time-out; peers owe nothing.
FairSpec == Spec /\ \A r \in Requests : WF_vars(IngressStep(r))

---------------------------------------------------------------------------
(* Properties *)

\* The bytes of a request are sent to one peer at most, however many peers
\* accepted it, and a stream that breaks is not replayed anywhere else.
PayloadOnce == \A r \in Requests : Cardinality(payload[r]) <= 1

\* Requests that queue behind a failed attempt to connect do not repeat it:
\* within one cool-down a peer is tried once.
OneAttemptPerCooldown == \A p \in Peers : refusals[p] <= 1

\* A failure that is seen on a closed connection, however late, never removes a
\* live connection from the pool.
LiveConnectionKept ==
    [][\A p \in Peers : Usable(p) /\ pool'[p] # pool[p] => pool[p] \notin open'[p]]_vars

\* A request never waits for ever: it is streaming, done or has failed in the
\* end, whatever the peers do and in whatever order requests queue for a peer.
RequestIsAnswered ==
    \A r \in Requests : pc[r] = "try" ~> pc[r] \in {"streaming", "done", "failed"}

---------------------------------------------------------------------------
(* What a comment says, and the code does not do *)

\* router.rs:106 says that only failures from before the peer accepted the
\* request are retried on another candidate.  A time-out does not know whether
\* the peer has accepted: its answer may be under way.
RetriedBeforeAcceptance ==
    [][\A r \in Requests :
          pc[r] = "waiting" /\ pc'[r] = "try" => remote[r][Peer(r)] # "accepted"]_vars
=============================================================================
