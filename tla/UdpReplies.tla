----------------------------- MODULE UdpReplies -----------------------------
(***************************************************************************)
(* UDP datagrams through the tunnel and back.  The ingress Edge gives a    *)
(* datagram to its own Connector or over the mesh to a peer, and both keep *)
(* a table that says where the reply belongs (UdpReplyTable).  Request ids *)
(* come from one counter per process and start over after a restart.       *)
(*                                                                         *)
(* QUIC datagrams are lost and reordered, and are gone with their          *)
(* connection.  A mesh connection is known by its number: one that broke   *)
(* is never current again.  The candidates of a remote route are           *)
(* abstracted to one peer.  An entry may expire at any time.               *)
(***************************************************************************)
EXTENDS Integers, FiniteSets

CONSTANTS
    Sources,         \* client addresses
    Numbers,         \* the datagrams of a client
    Ingress, Peer,   \* the two Edges
    MaxReplies,      \* udp_max_pending_replies, per Connector
    MaxPending,      \* max_pending_udp_replies of the ingress Edge
    MaxBreaks,       \* bound on broken mesh connections
    MaxReplaced,     \* bound on replaced Connectors, per Edge
    MaxRestarts      \* bound on restarts of the two processes

Datagrams == Sources \X Numbers
Sender(d) == d[1]
UdpEdges == {Ingress, Peer}

ASSUME UdpAssumption == Ingress # Peer

VARIABLES
    received,        \* datagrams that have reached the ingress Edge
    forwarding,      \* forward_datagram tasks, with the Edge they are for
    requestId,       \* REQUEST_COUNTER of a process
    link,            \* the current connection between the Edges
    breaks,          \* counts broken connections
    toPeer, fromPeer,            \* datagrams on the mesh connection
    pending,         \* udp_replies of the ingress Edge
    table,           \* per Edge, udp_reply_map of its Connector's registration
    toConnector, fromConnector,  \* datagrams on the Connector's connection
    replaced,        \* counts replaced Connectors
    restarts,
    delivered        \* how often a client got the reply to a datagram

meshPath == <<link, breaks, toPeer, fromPeer>>
connectorPath == <<table, toConnector, fromConnector, replaced>>
udpVars == <<received, forwarding, requestId, meshPath, pending, connectorPath, restarts, delivered>>

None(f) == [e \in UdpEdges |-> f]

UdpInit ==
    /\ received = {} /\ forwarding = {} /\ pending = {}
    /\ requestId = None(1)
    /\ link = 1 /\ breaks = 0
    /\ toPeer = {} /\ fromPeer = {}
    /\ table = None({}) /\ toConnector = None({}) /\ fromConnector = None({})
    /\ replaced = None(0) /\ restarts = 0
    /\ delivered = [x \in Sources \X Datagrams |-> 0]

NextId(e) == requestId' = [requestId EXCEPT ![e] = @ + 1]

---------------------------------------------------------------------------
(* UdpReplyTable: entries are records with an id and an expired flag *)

Fresh(entries) == {x \in entries : ~x.expired}

\* insert: expired entries are dropped only when the table is full.
Purged(entries, max) == IF Cardinality(entries) >= max THEN Fresh(entries) ELSE entries
HasRoom(entries, max) == Cardinality(Purged(entries, max)) < max

\* take, and take_if once the peer has been accepted: the entry leaves the
\* table, and is used only if it has not expired.
Without(entries, id) == {x \in entries : x.id # id}
Taken(entries, id) == {x \in Fresh(entries) : x.id = id}

Aged(entries) == {[x EXCEPT !.expired = TRUE] : x \in entries}

---------------------------------------------------------------------------
(* The request *)

\* serve_udp: a datagram is dropped (policy, no route, backlog) or a task is
\* spawned to forward it to the local Connector or to the peer.
ReceiveDatagram(d) ==
    /\ d \notin received
    /\ received' = received \cup {d}
    /\ forwarding' \in {forwarding} \cup {forwarding \cup {<<d, e>>} : e \in UdpEdges}
    /\ UNCHANGED <<requestId, meshPath, pending, connectorPath, restarts, delivered>>

\* forward_datagram gives up before an id is taken: no connection to the peer.
DropForward(f) ==
    /\ forwarding' = forwarding \ {f}
    /\ UNCHANGED <<received, requestId, meshPath, pending, connectorPath, restarts, delivered>>

\* The entry is stored in the table of the Connector, then the datagram is
\* sent.  Nothing is sent when the table is full, and the entry is removed again
\* when the datagram is too large or cannot be sent.
ToConnector(e, to, d) ==
    /\ NextId(e)
    /\ \/ /\ HasRoom(table[e], MaxReplies)
          /\ table' = [table EXCEPT ![e] =
                Purged(@, MaxReplies) \cup {[id |-> requestId[e], to |-> to, expired |-> FALSE]}]
          /\ toConnector' = [toConnector EXCEPT ![e] = @ \cup {[id |-> requestId[e], datagram |-> d]}]
       \/ table' = [table EXCEPT ![e] = Purged(@, MaxReplies)] /\ UNCHANGED toConnector
    /\ UNCHANGED <<fromConnector, replaced>>

\* tunnel::forward_udp_datagram
ForwardLocal(d) ==
    /\ <<d, Ingress>> \in forwarding
    /\ forwarding' = forwarding \ {<<d, Ingress>>}
    /\ ToConnector(Ingress, [client |-> Sender(d)], d)
    /\ UNCHANGED <<received, meshPath, pending, restarts, delivered>>

\* MeshService::forward_udp, once the pool has returned the connection; it may
\* fail like ToConnector.
ForwardToPeer(d) ==
    /\ <<d, Peer>> \in forwarding
    /\ forwarding' = forwarding \ {<<d, Peer>>}
    /\ NextId(Ingress)
    /\ \/ /\ HasRoom(pending, MaxPending)
          /\ pending' = Purged(pending, MaxPending) \cup
                {[id |-> requestId[Ingress], client |-> Sender(d), expired |-> FALSE]}
          /\ toPeer' = toPeer \cup {[id |-> requestId[Ingress], datagram |-> d]}
       \/ pending' = Purged(pending, MaxPending) /\ UNCHANGED toPeer
    /\ UNCHANGED <<received, link, breaks, fromPeer, connectorPath, restarts, delivered>>

\* handle_datagram, kind Request: the egress Edge takes an id of its own and
\* remembers the connection and the id of the ingress Edge.
PeerRequest(m) ==
    /\ toPeer' = toPeer \ {m}
    /\ ToConnector(Peer, [link |-> link, id |-> m.id], m.datagram)
    /\ UNCHANGED <<received, forwarding, link, breaks, fromPeer, pending, restarts, delivered>>

---------------------------------------------------------------------------
(* The reply *)

\* The Connector's task gets an answer from the target in time.
ConnectorAnswers(e, m) ==
    /\ toConnector' = [toConnector EXCEPT ![e] = @ \ {m}]
    /\ fromConnector' = [fromConnector EXCEPT ![e] = @ \cup {m}]
    /\ UNCHANGED <<received, forwarding, requestId, meshPath, pending, table, replaced, restarts, delivered>>

Deliver(clients, d) ==
    delivered' = [x \in Sources \X Datagrams |->
                    delivered[x] + (IF x[1] \in clients /\ x[2] = d THEN 1 ELSE 0)]

\* udp_reply_loop on the ingress Edge
ReplyToClient(m) ==
    /\ fromConnector' = [fromConnector EXCEPT ![Ingress] = @ \ {m}]
    /\ table' = [table EXCEPT ![Ingress] = Without(@, m.id)]
    /\ Deliver({x.to.client : x \in Taken(table[Ingress], m.id)}, m.datagram)
    /\ UNCHANGED <<received, forwarding, requestId, meshPath, pending, toConnector, replaced, restarts>>

\* Mutant: the reply is sent over the connection that is current now.
SendReplyPooled(to, d) ==
    fromPeer' = fromPeer \cup {[id |-> x.id, datagram |-> d] : x \in to}

\* A reply is sent over the connection of its entry, which may be gone.
SendReply(to, d) ==
    fromPeer' = fromPeer \cup {[id |-> x.id, datagram |-> d] : x \in {y \in to : y.link = link}}

\* udp_reply_loop on the egress Edge
ReplyToPeer(m) ==
    /\ fromConnector' = [fromConnector EXCEPT ![Peer] = @ \ {m}]
    /\ table' = [table EXCEPT ![Peer] = Without(@, m.id)]
    /\ SendReply({x.to : x \in Taken(table[Peer], m.id)}, m.datagram)
    /\ UNCHANGED <<received, forwarding, requestId, link, breaks, toPeer, pending, toConnector, replaced,
                   restarts, delivered>>

\* handle_datagram, kind Reply
PeerReply(m) ==
    /\ fromPeer' = fromPeer \ {m}
    /\ pending' = Without(pending, m.id)
    /\ Deliver({x.client : x \in Taken(pending, m.id)}, m.datagram)
    /\ UNCHANGED <<received, forwarding, requestId, link, breaks, toPeer, connectorPath, restarts>>

---------------------------------------------------------------------------
(* Time and faults *)

\* The entries in a table have outlived their ttl.
ExpireReplies ==
    /\ \/ \E e \in UdpEdges : Fresh(table[e]) # {} /\ table' = [table EXCEPT ![e] = Aged(@)] /\ UNCHANGED pending
       \/ Fresh(pending) # {} /\ pending' = Aged(pending) /\ UNCHANGED table
    /\ UNCHANGED <<received, forwarding, requestId, meshPath, toConnector, fromConnector, replaced, restarts, delivered>>

\* purge_expired, of udp_reply_loop and of purge_udp
PurgeReplies ==
    /\ \/ \E e \in UdpEdges : Fresh(table[e]) # table[e] /\ table' = [table EXCEPT ![e] = Fresh(@)] /\ UNCHANGED pending
       \/ Fresh(pending) # pending /\ pending' = Fresh(pending) /\ UNCHANGED table
    /\ UNCHANGED <<received, forwarding, requestId, meshPath, toConnector, fromConnector, replaced, restarts, delivered>>

\* A datagram is lost; so is a request that the target does not answer, and one
\* that the egress Edge refuses because its Connector is gone or another tenant's.
LoseDatagram ==
    /\ \/ \E m \in toPeer : toPeer' = toPeer \ {m} /\ UNCHANGED <<fromPeer, toConnector, fromConnector>>
       \/ \E m \in fromPeer : fromPeer' = fromPeer \ {m} /\ UNCHANGED <<toPeer, toConnector, fromConnector>>
       \/ \E e \in UdpEdges : \E m \in toConnector[e] :
            toConnector' = [toConnector EXCEPT ![e] = @ \ {m}] /\ UNCHANGED <<toPeer, fromPeer, fromConnector>>
       \/ \E e \in UdpEdges : \E m \in fromConnector[e] :
            fromConnector' = [fromConnector EXCEPT ![e] = @ \ {m}] /\ UNCHANGED <<toPeer, fromPeer, toConnector>>
    /\ UNCHANGED <<received, forwarding, requestId, link, breaks, pending, table, replaced, restarts, delivered>>

NewLink == link' = link + 1 /\ toPeer' = {} /\ fromPeer' = {}

\* The mesh connection breaks and the pool dials a new one.
BreakLink ==
    /\ breaks < MaxBreaks
    /\ breaks' = breaks + 1
    /\ NewLink
    /\ UNCHANGED <<received, forwarding, requestId, pending, connectorPath, restarts, delivered>>

NewConnector(e) ==
    /\ table' = [table EXCEPT ![e] = {}]
    /\ toConnector' = [toConnector EXCEPT ![e] = {}]
    /\ fromConnector' = [fromConnector EXCEPT ![e] = {}]

\* Another registration takes over, with a table of its own; a task that was
\* routed to the old one fails to send.
ReplaceConnector(e) ==
    /\ replaced[e] < MaxReplaced
    /\ replaced' = [replaced EXCEPT ![e] = @ + 1]
    /\ NewConnector(e)
    /\ forwarding' = {f \in forwarding : ~(e = Ingress /\ f[2] = Ingress)}
    /\ UNCHANGED <<received, requestId, meshPath, pending, restarts, delivered>>

\* A process restarts: tables, tasks and connections are gone, ids start over.
RestartProcess(e) ==
    /\ restarts < MaxRestarts
    /\ restarts' = restarts + 1
    /\ requestId' = [requestId EXCEPT ![e] = 1]
    /\ NewLink
    /\ NewConnector(e)
    /\ forwarding' = IF e = Ingress THEN {} ELSE forwarding
    /\ pending' = IF e = Ingress THEN {} ELSE pending
    /\ UNCHANGED <<received, breaks, replaced, delivered>>

UdpNext ==
    \/ \E d \in Datagrams : ReceiveDatagram(d) \/ ForwardLocal(d) \/ ForwardToPeer(d)
    \/ \E f \in forwarding : DropForward(f)
    \/ \E m \in toPeer : PeerRequest(m)
    \/ \E e \in UdpEdges : \E m \in toConnector[e] : ConnectorAnswers(e, m)
    \/ \E m \in fromConnector[Ingress] : ReplyToClient(m)
    \/ \E m \in fromConnector[Peer] : ReplyToPeer(m)
    \/ \E m \in fromPeer : PeerReply(m)
    \/ ExpireReplies \/ PurgeReplies \/ LoseDatagram \/ BreakLink
    \/ \E e \in UdpEdges : ReplaceConnector(e) \/ RestartProcess(e)

UdpSpec == UdpInit /\ [][UdpNext]_udpVars

---------------------------------------------------------------------------
(* Properties *)

\* A client gets the reply to a datagram of its own, and at most once, whatever
\* is lost, late, replaced or restarted, although ids are reused.
ReplyMatches ==
    \A s \in Sources, d \in Datagrams : delivered[<<s, d>>] <= (IF s = Sender(d) THEN 1 ELSE 0)
=============================================================================
