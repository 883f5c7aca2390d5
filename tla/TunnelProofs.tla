---------------------------- MODULE TunnelProofs ----------------------------
(***************************************************************************)
(* What the tunnels carry: UDP datagrams and their replies, and the        *)
(* streams between Edges with their budgets, for any number of clients,    *)
(* datagrams, losses, tenants, peers and streams, and any limits.          *)
(*                                                                         *)
(* UDP: an entry that has the id of a message under way names the client   *)
(* whose datagram that is (Matches). Ids start over in a restart, which    *)
(* takes the tables, tasks and connections with it, so that every id in    *)
(* use is older than the next one (OldIds), and an entry of the peer is    *)
(* only good for the connection it came on. A datagram is in one place     *)
(* (Places), so that it is answered once.                                  *)
(*                                                                         *)
(* Mesh streams: every clone and every permit of a semaphore belongs to    *)
(* the semaphore that the map holds NOW (RefInv), since sweep removes an   *)
(* entry only if nobody has a clone. So the permits of that semaphore and  *)
(* the holders of the key add up to its limit (CountInv).                  *)
(***************************************************************************)
EXTENDS PermitTable, UdpReplies, FiniteSetTheorems, TLAPS

---------------------------------------------------------------------------
(* UDP replies *)

Message == [id : Nat, datagram : Datagrams]
LocalEntry == [id : Nat, to : [client : Sources], expired : BOOLEAN]
PeerEntry == [id : Nat, to : [link : Nat, id : Nat], expired : BOOLEAN]
PendingEntry == [id : Nat, client : Sources, expired : BOOLEAN]

\* The messages between an Edge and its Connector, and between the Edges.
Tunnel(e) == toConnector[e] \cup fromConnector[e]
Mesh == toPeer \cup fromPeer

UdpTypes ==
    /\ forwarding \subseteq Datagrams \X UdpEdges
    /\ requestId \in [UdpEdges -> Nat] /\ link \in Nat
    /\ toPeer \subseteq Message /\ fromPeer \subseteq Message
    /\ pending \subseteq PendingEntry
    /\ DOMAIN table = UdpEdges /\ table[Ingress] \subseteq LocalEntry /\ table[Peer] \subseteq PeerEntry
    /\ DOMAIN toConnector = UdpEdges /\ DOMAIN fromConnector = UdpEdges
    /\ \A e \in UdpEdges : Tunnel(e) \subseteq Message
    /\ delivered \in [Sources \X Datagrams -> Nat]

\* Ids in use are older than the next one; an entry of the peer names an id of
\* the ingress Edge as long as its connection is current.
OldIds ==
    /\ \A e \in UdpEdges : \A x \in table[e] \cup Tunnel(e) : x.id < requestId[e]
    /\ \A x \in pending \cup Mesh : x.id < requestId[Ingress]
    /\ \A x \in table[Peer] : /\ x.to.link <= link
                              /\ x.to.link = link => x.to.id < requestId[Ingress]

\* An entry that has the id of a message leads to the client that sent it.
LocalMatch ==
    \A m \in Tunnel(Ingress), x \in table[Ingress] :
        x.id = m.id => x.to.client = Sender(m.datagram)
MeshMatch ==
    \A m \in Mesh, y \in pending : y.id = m.id => y.client = Sender(m.datagram)
PeerMatch ==
    \A m \in Tunnel(Peer), x \in table[Peer], y \in pending :
        x.id = m.id /\ x.to.link = link /\ y.id = x.to.id => y.client = Sender(m.datagram)

\* Where a datagram is: a task, or a message with an id.
Within(kind, e, i, d) ==
    \/ kind = "task" /\ i = 0 /\ <<d, e>> \in forwarding
    \/ kind = "toPeer" /\ e = Peer /\ [id |-> i, datagram |-> d] \in toPeer
    \/ kind = "fromPeer" /\ e = Ingress /\ [id |-> i, datagram |-> d] \in fromPeer
    \/ kind = "request" /\ e \in UdpEdges /\ [id |-> i, datagram |-> d] \in toConnector[e]
    \/ kind = "reply" /\ e \in UdpEdges /\ [id |-> i, datagram |-> d] \in fromConnector[e]

Kinds == {"task", "toPeer", "fromPeer", "request", "reply"}

\* It is in one place, has been received, and has not been answered.
OnePlace ==
    \A k1, k2 \in Kinds, e1, e2 \in UdpEdges, i1, i2 \in Nat, d \in Datagrams :
        Within(k1, e1, i1, d) /\ Within(k2, e2, i2, d) => k1 = k2 /\ e1 = e2 /\ i1 = i2
Unanswered ==
    \A k \in Kinds, e \in UdpEdges, i \in Nat, d \in Datagrams :
        Within(k, e, i, d) => d \in received /\ \A s \in Sources : delivered[<<s, d>>] = 0
Answered ==
    \A s \in Sources, d \in Datagrams : delivered[<<s, d>>] > 0 =>
        d \in received /\ s = Sender(d) /\ delivered[<<s, d>>] = 1

\* The peer's table has one entry for an id.
OneEntry == \A x, y \in table[Peer] : x.id = y.id => x.to = y.to

Matches == OldIds /\ OneEntry /\ LocalMatch /\ MeshMatch /\ PeerMatch
Places == OnePlace /\ Unanswered /\ Answered

UdpInv == UdpTypes /\ Matches /\ Places

---------------------------------------------------------------------------
(* Places *)

\* Datagrams are lost, and none is answered.
LEMMA LossKeepsPlaces ==
    ASSUME Places, received \subseteq received', UNCHANGED delivered,
           \A k \in Kinds, e \in UdpEdges, i \in Nat, d \in Datagrams :
                Within(k, e, i, d)' => Within(k, e, i, d)
    PROVE  Places'
<1>1. OnePlace'
  BY DEF Places, OnePlace
<1>2. Unanswered' /\ Answered'
  BY DEF Places, Unanswered, Answered
<1> QED
  BY Zenon, <1>1, <1>2 DEF Places

Leaves(k, e, i, d) == Within(k, e, i, d) /\ ~Within(k, e, i, d)'
Enters(k1, e1, i1, d1) ==
    \A k \in Kinds, e \in UdpEdges, i \in Nat, d \in Datagrams :
        Within(k, e, i, d)' => Within(k, e, i, d) \/ (k = k1 /\ e = e1 /\ i = i1 /\ d = d1)

\* One datagram moves from one place to another; others may be lost.
LEMMA MoveKeepsPlaces ==
    ASSUME Places, received \subseteq received', UNCHANGED delivered,
           NEW d0 \in Datagrams,
           NEW k0 \in Kinds, NEW e0 \in UdpEdges, NEW i0 \in Nat,
           NEW k1 \in Kinds, NEW e1 \in UdpEdges, NEW i1 \in Nat,
           Leaves(k0, e0, i0, d0), Enters(k1, e1, i1, d0)
    PROVE  Places'
<1> USE DEF Leaves, Enters
<1>1. ASSUME NEW k \in Kinds, NEW e \in UdpEdges, NEW i \in Nat, Within(k, e, i, d0)'
      PROVE  k = k1 /\ e = e1 /\ i = i1
  <2>1. CASE Within(k, e, i, d0)
    <3>1. k = k0 /\ e = e0 /\ i = i0
      BY Zenon, <2>1 DEF Places, OnePlace
    <3> QED
      BY Zenon, <1>1, <3>1
  <2> QED
    BY Zenon, <1>1, <2>1
<1>2. ASSUME NEW d \in Datagrams \ {d0}, NEW k \in Kinds, NEW e \in UdpEdges, NEW i \in Nat,
             Within(k, e, i, d)'
      PROVE  Within(k, e, i, d)
  BY Zenon, <1>2
<1>3. OnePlace'
  <2> SUFFICES ASSUME NEW x1 \in Kinds, NEW x2 \in Kinds, NEW f1 \in UdpEdges, NEW f2 \in UdpEdges,
                      NEW j1 \in Nat, NEW j2 \in Nat, NEW d \in Datagrams,
                      Within(x1, f1, j1, d)', Within(x2, f2, j2, d)'
               PROVE  x1 = x2 /\ f1 = f2 /\ j1 = j2
    BY DEF OnePlace
  <2>1. CASE d = d0
    BY Zenon, <1>1, <2>1
  <2>2. CASE d # d0
    BY <1>2, <2>2 DEF Places, OnePlace
  <2> QED
    BY Zenon, <2>1, <2>2
<1>4. Unanswered'
  <2> SUFFICES ASSUME NEW k \in Kinds, NEW e \in UdpEdges, NEW i \in Nat, NEW d \in Datagrams,
                      Within(k, e, i, d)'
               PROVE  d \in received' /\ \A s \in Sources : delivered'[<<s, d>>] = 0
    BY Zenon DEF Unanswered
  <2>1. PICK k2 \in Kinds, e2 \in UdpEdges, i2 \in Nat : Within(k2, e2, i2, d)
    BY <1>2
  <2> QED
    BY Zenon, <2>1 DEF Places, Unanswered
<1>5. Answered'
  BY Zenon DEF Places, Answered
<1> QED
  BY Zenon, <1>3, <1>4, <1>5 DEF Places

\* A message is its id and its datagram.
LEMMA MessageIs ==
    ASSUME NEW m \in Message
    PROVE  /\ m = [id |-> m.id, datagram |-> m.datagram]
           /\ m.id \in Nat /\ m.datagram \in Datagrams
BY Zenon DEF Message

---------------------------------------------------------------------------
(* Entries and ids *)

SameEntries(e) == \A x \in table'[e] : \E z \in table[e] : z.id = x.id /\ z.to = x.to
SamePending == \A y \in pending' : \E z \in pending : z.id = y.id /\ z.client = y.client

\* Entries are taken, expire and are purged, and messages lost.
LEMMA FewerKeepsMatches ==
    ASSUME Matches, UNCHANGED <<requestId, link>>, Mesh' \subseteq Mesh, SamePending,
           \A e \in UdpEdges : SameEntries(e) /\ Tunnel(e)' \subseteq Tunnel(e)
    PROVE  Matches'
<1> USE DEF Matches
<1>0. Ingress \in UdpEdges /\ Peer \in UdpEdges
  BY Zenon DEF UdpEdges
<1>1. OldIds'
  <2>1. ASSUME NEW e \in UdpEdges, NEW x \in table'[e] \cup Tunnel(e)' PROVE x.id < requestId'[e]
    BY Zenon DEF OldIds, SameEntries
  <2>2. ASSUME NEW x \in pending' \cup Mesh' PROVE x.id < requestId'[Ingress]
    BY Zenon DEF OldIds, SamePending
  <2>3. ASSUME NEW x \in table'[Peer]
        PROVE  x.to.link <= link' /\ (x.to.link = link' => x.to.id < requestId'[Ingress])
    BY <1>0 DEF OldIds, SameEntries
  <2> QED
    BY Zenon, <2>1, <2>2, <2>3 DEF OldIds
<1>2. LocalMatch'
  <2> SUFFICES ASSUME NEW m \in Tunnel(Ingress)', NEW x \in table'[Ingress], x.id = m.id
               PROVE  x.to.client = Sender(m.datagram)
    BY Zenon DEF LocalMatch
  <2>1. PICK z \in table[Ingress] : z.id = x.id /\ z.to = x.to
    BY Zenon, <1>0 DEF SameEntries
  <2>2. m \in Tunnel(Ingress)
    BY Zenon, <1>0
  <2> QED
    BY Zenon, <2>1, <2>2 DEF LocalMatch
<1>3. MeshMatch'
  BY Zenon DEF MeshMatch, SamePending
<1>4. PeerMatch'
  <2> SUFFICES ASSUME NEW m \in Tunnel(Peer)', NEW x \in table'[Peer], NEW y \in pending',
                      x.id = m.id, x.to.link = link', y.id = x.to.id
               PROVE  y.client = Sender(m.datagram)
    BY Zenon DEF PeerMatch
  <2>1. PICK z \in table[Peer] : z.id = x.id /\ z.to = x.to
    BY Zenon, <1>0 DEF SameEntries
  <2>2. PICK w \in pending : w.id = y.id /\ w.client = y.client
    BY Zenon DEF SamePending
  <2>3. m \in Tunnel(Peer)
    BY Zenon, <1>0
  <2> QED
    BY Zenon, <2>1, <2>2, <2>3 DEF PeerMatch
<1>5. OneEntry'
  BY <1>0 DEF OneEntry, SameEntries
<1> QED
  BY Zenon, <1>1, <1>2, <1>3, <1>4, <1>5

\* The peer opens a new connection: no entry of the old one matches.
LEMMA NewLinkKeepsMatches ==
    ASSUME UdpTypes, Matches, NewLink, SamePending,
           \A e \in UdpEdges : SameEntries(e) /\ Tunnel(e)' \subseteq Tunnel(e),
           \A e \in UdpEdges : requestId'[e] = requestId[e] \/ (table'[e] = {} /\ Tunnel(e)' = {}),
           requestId'[Ingress] = requestId[Ingress] \/ pending' = {}
    PROVE  Matches'
<1> USE DEF Matches
<1>0. Ingress \in UdpEdges /\ Peer \in UdpEdges /\ Mesh' = {} /\ link \in Nat /\ link' = link + 1
  BY Zenon DEF UdpEdges, Mesh, NewLink, UdpTypes
<1>1. \A x \in table'[Peer] : x.to.link <= link /\ x.to.link \in Nat
  BY <1>0 DEF SameEntries, OldIds, UdpTypes, PeerEntry
<1>2. OldIds'
  <2>1. ASSUME NEW e \in UdpEdges, NEW x \in table'[e] \cup Tunnel(e)' PROVE x.id < requestId'[e]
    BY Zenon DEF OldIds, SameEntries
  <2>2. ASSUME NEW x \in pending' \cup Mesh' PROVE x.id < requestId'[Ingress]
    BY Zenon, <1>0 DEF OldIds, SamePending
  <2>3. ASSUME NEW x \in table'[Peer]
        PROVE  x.to.link <= link' /\ (x.to.link = link' => x.to.id < requestId'[Ingress])
    BY <1>0, <1>1
  <2> QED
    BY Zenon, <2>1, <2>2, <2>3 DEF OldIds
<1>3. OneEntry'
  BY <1>0 DEF OneEntry, SameEntries
<1>4. LocalMatch'
  <2> SUFFICES ASSUME NEW m \in Tunnel(Ingress)', NEW x \in table'[Ingress], x.id = m.id
               PROVE  x.to.client = Sender(m.datagram)
    BY Zenon DEF LocalMatch
  <2>1. PICK z \in table[Ingress] : z.id = x.id /\ z.to = x.to
    BY Zenon, <1>0 DEF SameEntries
  <2>2. m \in Tunnel(Ingress)
    BY Zenon, <1>0
  <2> QED
    BY Zenon, <2>1, <2>2 DEF LocalMatch
<1>5. MeshMatch'
  BY Zenon, <1>0 DEF MeshMatch
<1>6. PeerMatch'
  BY <1>0, <1>1 DEF PeerMatch
<1> QED
  BY Zenon, <1>2, <1>3, <1>4, <1>5, <1>6

---------------------------------------------------------------------------
(* Loss, expiry and replacement *)

\* What an entry says does not change when it expires, is purged or is left in
\* the table.
LEMMA EntriesKept ==
    ASSUME NEW e \in UdpEdges, UdpTypes,
           \/ table' = table
           \/ \E f \in UdpEdges : table' = [table EXCEPT ![f] = Aged(@)]
           \/ \E f \in UdpEdges : table' = [table EXCEPT ![f] = Fresh(@)]
           \/ \E f \in UdpEdges : table' = [table EXCEPT ![f] = {}]
           \/ \E f \in UdpEdges, i \in Nat : table' = [table EXCEPT ![f] = Without(@, i)]
    PROVE  /\ SameEntries(e) /\ DOMAIN table' = UdpEdges
           /\ table'[Ingress] \subseteq LocalEntry /\ table'[Peer] \subseteq PeerEntry
<1>0. DOMAIN table = UdpEdges /\ Ingress \in UdpEdges /\ Peer \in UdpEdges
  BY Zenon DEF UdpTypes, UdpEdges
<1>1. \A f \in UdpEdges : \A x \in table[f] :
        DOMAIN x = {"id", "to", "expired"}
  BY DEF UdpTypes, UdpEdges, LocalEntry, PeerEntry
<1>2. ASSUME NEW f \in UdpEdges, NEW x \in Aged(table[f])
      PROVE  /\ \E z \in table[f] : z.id = x.id /\ z.to = x.to
             /\ f = Ingress => x \in LocalEntry
             /\ f = Peer => x \in PeerEntry
  <2>1. PICK z \in table[f] : x = [z EXCEPT !.expired = TRUE]
    BY Zenon, <1>2 DEF Aged
  <2>2. x.id = z.id /\ x.to = z.to
    BY Zenon, <1>1, <2>1
  <2>3. f = Ingress => x \in LocalEntry
    <3>1. \A y \in LocalEntry : [y EXCEPT !.expired = TRUE] \in LocalEntry
      BY Zenon DEF LocalEntry
    <3>2. f = Ingress => z \in LocalEntry
      BY Zenon DEF UdpTypes
    <3> QED
      BY Zenon, <2>1, <3>1, <3>2
  <2>4. f = Peer => x \in PeerEntry
    <3>1. \A y \in PeerEntry : [y EXCEPT !.expired = TRUE] \in PeerEntry
      BY Zenon DEF PeerEntry
    <3>2. f = Peer => z \in PeerEntry
      BY Zenon DEF UdpTypes
    <3> QED
      BY Zenon, <2>1, <3>1, <3>2
  <2> QED
    BY Zenon, <2>2, <2>3, <2>4
<1>3. CASE table' = table
  BY Zenon, <1>0, <1>3 DEF SameEntries, UdpTypes
<1>4. CASE \E f \in UdpEdges : table' = [table EXCEPT ![f] = Aged(@)]
  <2>1. PICK f \in UdpEdges : table' = [table EXCEPT ![f] = Aged(@)]
    BY Zenon, <1>4
  <2>2. DOMAIN table' = UdpEdges /\ \A g \in UdpEdges : table'[g] = IF g = f THEN Aged(table[f]) ELSE table[g]
    BY Zenon, <2>1, <1>0
  <2>3. SameEntries(e)
    BY <2>2, <1>2 DEF SameEntries
  <2>4. table'[Ingress] \subseteq LocalEntry /\ table'[Peer] \subseteq PeerEntry
    BY Zenon, <2>2, <1>2, <1>0 DEF UdpTypes
  <2> QED
    BY Zenon, <2>2, <2>3, <2>4
<1>5. ASSUME NEW f \in UdpEdges, NEW S \in SUBSET table[f], table' = [table EXCEPT ![f] = S]
      PROVE  /\ SameEntries(e) /\ DOMAIN table' = UdpEdges
             /\ table'[Ingress] \subseteq LocalEntry /\ table'[Peer] \subseteq PeerEntry
  <2>2. DOMAIN table' = UdpEdges /\ \A g \in UdpEdges : table'[g] \subseteq table[g]
    BY Zenon, <1>5, <1>0
  <2>3. SameEntries(e)
    BY Zenon, <2>2 DEF SameEntries
  <2> QED
    BY Zenon, <2>2, <2>3, <1>0 DEF UdpTypes
<1>6. \A f \in UdpEdges : Fresh(table[f]) \subseteq table[f] /\ \A i \in Nat : Without(table[f], i) \subseteq table[f]
  BY Zenon DEF Fresh, Without
<1> QED
  BY Zenon, <1>3, <1>4, <1>5, <1>6

\* A sweep or a lost entry changes no pending entry that stays, except its age.
LEMMA PendingKept ==
    ASSUME UdpTypes,
           \/ pending' \subseteq pending
           \/ pending' = Aged(pending)
    PROVE  SamePending /\ pending' \subseteq PendingEntry
<1>1. \A x \in Aged(pending) : \E z \in pending : x = [z EXCEPT !.expired = TRUE]
  BY Zenon DEF Aged
<1>2. \A z \in pending : [z EXCEPT !.expired = TRUE].id = z.id /\ [z EXCEPT !.expired = TRUE].client = z.client
                         /\ [z EXCEPT !.expired = TRUE] \in PendingEntry
  BY Zenon DEF UdpTypes, PendingEntry
<1>3. CASE pending' \subseteq pending
  BY Zenon, <1>3 DEF SamePending, UdpTypes
<1>4. CASE pending' = Aged(pending)
  <2>1. SamePending
    <3> SUFFICES ASSUME NEW y \in pending' PROVE \E z \in pending : z.id = y.id /\ z.client = y.client
      BY Zenon DEF SamePending
    <3>1. PICK z \in pending : y = [z EXCEPT !.expired = TRUE]
      BY Zenon, <1>1, <1>4
    <3> QED
      BY Zenon, <3>1, <1>2
  <2>2. pending' \subseteq PendingEntry
    BY Zenon, <1>1, <1>2, <1>4
  <2> QED
    BY Zenon, <2>1, <2>2
<1> QED
  BY Zenon, <1>3, <1>4

\* The messages that a loss leaves.
Losses ==
    /\ forwarding' \subseteq forwarding
    /\ toPeer' \subseteq toPeer /\ fromPeer' \subseteq fromPeer
    /\ DOMAIN toConnector' = UdpEdges /\ DOMAIN fromConnector' = UdpEdges
    /\ \A e \in UdpEdges : toConnector'[e] \subseteq toConnector[e] /\ fromConnector'[e] \subseteq fromConnector[e]

\* Lost messages and dropped tasks put no datagram in a second place ...
LEMMA LossesKeep ==
    ASSUME UdpInv, Losses, UNCHANGED <<received, delivered>>
    PROVE  /\ Places' /\ Mesh' \subseteq Mesh
           /\ \A e \in UdpEdges : Tunnel(e)' \subseteq Tunnel(e)
           /\ forwarding' \subseteq Datagrams \X UdpEdges
           /\ toPeer' \subseteq Message /\ fromPeer' \subseteq Message
           /\ delivered' \in [Sources \X Datagrams -> Nat]
<1>1. \A k \in Kinds, e \in UdpEdges, i \in Nat, d \in Datagrams : Within(k, e, i, d)' => Within(k, e, i, d)
  BY DEF Within, Losses, Kinds
<1>2. Places'
  BY Zenon, <1>1, LossKeepsPlaces DEF UdpInv
<1>3. Mesh' \subseteq Mesh /\ \A e \in UdpEdges : Tunnel(e)' \subseteq Tunnel(e)
  BY Zenon DEF Mesh, Tunnel, Losses
<1> QED
  BY Zenon, <1>2, <1>3 DEF UdpInv, UdpTypes, Losses

\* ... and what is left in the tunnels is messages.
LEMMA LossTypes ==
    ASSUME UdpInv, Losses
    PROVE  /\ DOMAIN toConnector' = UdpEdges /\ DOMAIN fromConnector' = UdpEdges
           /\ \A e \in UdpEdges : Tunnel(e)' \subseteq Message
BY Zenon DEF Losses, UdpInv, UdpTypes, Tunnel

\* Expiry, purging, losses and a replaced Connector keep the invariant.
LEMMA QuietKeeps ==
    ASSUME UdpInv,
           \/ \E f \in forwarding : DropForward(f)
           \/ ExpireReplies \/ PurgeReplies \/ LoseDatagram
           \/ \E e \in UdpEdges : ReplaceConnector(e)
    PROVE  UdpInv'
<1>0. UdpTypes
  BY Zenon DEF UdpInv
<1>1. Losses
  <2>1. ASSUME NEW f \in forwarding, DropForward(f) PROVE Losses
    BY Zenon, <2>1, <1>0 DEF DropForward, Losses, UdpTypes, meshPath, connectorPath
  <2>2. CASE ExpireReplies
    BY Zenon, <2>2, <1>0 DEF ExpireReplies, Losses, UdpTypes, meshPath
  <2>3. CASE PurgeReplies
    BY Zenon, <2>3, <1>0 DEF PurgeReplies, Losses, UdpTypes, meshPath
  <2>4. CASE LoseDatagram
    BY Zenon, <2>4, <1>0 DEF LoseDatagram, Losses, UdpTypes
  <2>5. ASSUME NEW e \in UdpEdges, ReplaceConnector(e) PROVE Losses
    BY Zenon, <2>5, <1>0 DEF ReplaceConnector, NewConnector, Losses, UdpTypes, meshPath
  <2> QED
    BY Zenon, <2>1, <2>2, <2>3, <2>4, <2>5
<1>2. UNCHANGED <<received, delivered, requestId, link>>
  BY Zenon DEF DropForward, ExpireReplies, PurgeReplies, LoseDatagram, ReplaceConnector, meshPath
<1>3. \/ table' = table
      \/ \E f \in UdpEdges : table' = [table EXCEPT ![f] = Aged(@)]
      \/ \E f \in UdpEdges : table' = [table EXCEPT ![f] = Fresh(@)]
      \/ \E f \in UdpEdges : table' = [table EXCEPT ![f] = {}]
  BY Zenon DEF DropForward, ExpireReplies, PurgeReplies, LoseDatagram, ReplaceConnector, NewConnector, connectorPath
<1>4. pending' \subseteq pending \/ pending' = Aged(pending)
  BY Zenon DEF DropForward, ExpireReplies, PurgeReplies, LoseDatagram, ReplaceConnector, Fresh
<1>5. SamePending /\ pending' \subseteq PendingEntry
  BY Zenon, <1>0, <1>4, PendingKept
<1>6. /\ \A e \in UdpEdges : SameEntries(e)
      /\ DOMAIN table' = UdpEdges
      /\ table'[Ingress] \subseteq LocalEntry /\ table'[Peer] \subseteq PeerEntry
  <2>1. Ingress \in UdpEdges
    BY Zenon DEF UdpEdges
  <2> QED
    BY Zenon, <1>0, <1>3, <2>1, EntriesKept
<1>7. Matches'
  BY Zenon, <1>1, <1>2, <1>5, <1>6, LossesKeep, FewerKeepsMatches DEF UdpInv
<1>8. UdpTypes'
  BY Zenon, <1>0, <1>1, <1>2, <1>5, <1>6, LossesKeep, LossTypes DEF UdpTypes
<1> QED
  BY Zenon, <1>1, <1>2, <1>7, <1>8, LossesKeep DEF UdpInv

\* So do a broken connection and a restart.
LEMMA NewLinkKeeps ==
    ASSUME UdpInv, BreakLink \/ \E e \in UdpEdges : RestartProcess(e)
    PROVE  UdpInv'
<1>0. UdpTypes /\ Ingress \in UdpEdges /\ Peer \in UdpEdges
  BY Zenon DEF UdpInv, UdpEdges
<1>1. NewLink /\ UNCHANGED <<received, delivered>>
  BY Zenon DEF BreakLink, RestartProcess
<1>2. Losses
  <2>1. CASE BreakLink
    BY Zenon, <2>1, <1>0 DEF BreakLink, NewLink, Losses, UdpTypes, connectorPath
  <2>2. ASSUME NEW e \in UdpEdges, RestartProcess(e) PROVE Losses
    BY Zenon, <2>2, <1>0 DEF RestartProcess, NewLink, NewConnector, Losses, UdpTypes
  <2> QED
    BY Zenon, <2>1, <2>2
<1>3. table' = table \/ \E f \in UdpEdges : table' = [table EXCEPT ![f] = {}]
  BY Zenon DEF BreakLink, RestartProcess, NewConnector, connectorPath
<1>4. /\ \A e \in UdpEdges : SameEntries(e)
      /\ DOMAIN table' = UdpEdges
      /\ table'[Ingress] \subseteq LocalEntry /\ table'[Peer] \subseteq PeerEntry
  BY Zenon, <1>0, <1>3, EntriesKept
<1>5. SamePending /\ pending' \subseteq PendingEntry
  <2>1. pending' \subseteq pending
    BY Zenon DEF BreakLink, RestartProcess
  <2> QED
    BY Zenon, <2>1, <1>0, PendingKept
<1>6. /\ requestId' \in [UdpEdges -> Nat]
      /\ \A e \in UdpEdges : requestId'[e] = requestId[e] \/ (table'[e] = {} /\ Tunnel(e)' = {})
      /\ requestId'[Ingress] = requestId[Ingress] \/ pending' = {}
  <2>1. CASE BreakLink
    BY Zenon, <2>1, <1>0 DEF BreakLink, UdpTypes
  <2>2. ASSUME NEW e \in UdpEdges, RestartProcess(e)
        PROVE  /\ requestId' \in [UdpEdges -> Nat]
               /\ \A f \in UdpEdges : requestId'[f] = requestId[f] \/ (table'[f] = {} /\ Tunnel(f)' = {})
               /\ requestId'[Ingress] = requestId[Ingress] \/ pending' = {}
    <3>1. requestId' = [requestId EXCEPT ![e] = 1] /\ table'[e] = {} /\ Tunnel(e)' = {}
      BY <2>2, <1>0 DEF RestartProcess, NewConnector, Tunnel, UdpTypes
    <3>2. e = Ingress => pending' = {}
      BY Zenon, <2>2 DEF RestartProcess
    <3>3. requestId' \in [UdpEdges -> Nat] /\ \A f \in UdpEdges : requestId'[f] = IF f = e THEN 1 ELSE requestId[f]
      BY Zenon, <3>1, <1>0 DEF UdpTypes
    <3> QED
      BY Zenon, <3>1, <3>2, <3>3, <1>0
  <2> QED
    BY Zenon, <2>1, <2>2
<1>7. Matches'
  BY Zenon, <1>0, <1>1, <1>2, <1>4, <1>5, <1>6, LossesKeep, NewLinkKeepsMatches DEF UdpInv
<1>8. UdpTypes'
  <2>1. link' \in Nat
    BY <1>0, <1>1 DEF NewLink, UdpTypes
  <2> QED
    BY Zenon, <2>1, <1>1, <1>2, <1>4, <1>5, <1>6, LossesKeep, LossTypes DEF UdpTypes
<1> QED
  BY Zenon, <1>1, <1>2, <1>7, <1>8, LossesKeep DEF UdpInv

---------------------------------------------------------------------------
(* The request *)

\* A received datagram was in no place before.
LEMMA ReceiveKeeps ==
    ASSUME UdpInv, NEW d \in Datagrams, ReceiveDatagram(d)
    PROVE  UdpInv'
<1>0. UdpTypes /\ Matches /\ Places
  BY Zenon DEF UdpInv
<1> USE DEF ReceiveDatagram, meshPath, connectorPath
<1>1. UdpTypes'
  BY <1>0 DEF UdpTypes, Tunnel
<1>2. Matches'
  BY <1>0 DEF Matches, OldIds, OneEntry, LocalMatch, MeshMatch, PeerMatch, Tunnel, Mesh
<1>3. PICK e \in UdpEdges : forwarding' \subseteq forwarding \cup {<<d, e>>}
  BY Zenon DEF UdpEdges
<1>4. ASSUME NEW k \in Kinds, NEW f \in UdpEdges, NEW i \in Nat, NEW x \in Datagrams, Within(k, f, i, x)'
      PROVE  Within(k, f, i, x) \/ (k = "task" /\ f = e /\ i = 0 /\ x = d)
  BY Zenon, <1>3, <1>4 DEF Within
<1>5. \A k \in Kinds, f \in UdpEdges, i \in Nat : ~Within(k, f, i, d)
  BY Zenon, <1>0 DEF Places, Unanswered
<1>6. \A s \in Sources : delivered[<<s, d>>] = 0
  BY <1>0 DEF Places, Answered, UdpTypes
<1>7. OnePlace'
  BY <1>0, <1>4, <1>5 DEF Places, OnePlace
<1>8. Unanswered'
  BY <1>0, <1>4, <1>6 DEF Places, Unanswered
<1>9. Answered'
  BY Zenon, <1>0 DEF Places, Answered
<1> QED
  BY Zenon, <1>1, <1>2, <1>7, <1>8, <1>9 DEF UdpInv, Places

\* What ToConnector leaves in the table and on the connection.
LEMMA ToConnectorIs ==
    ASSUME UdpTypes, NEW e \in UdpEdges, NEW to, NEW d \in Datagrams, ToConnector(e, to, d)
    PROVE  /\ DOMAIN table' = UdpEdges /\ DOMAIN toConnector' = UdpEdges /\ UNCHANGED fromConnector
           /\ requestId' \in [UdpEdges -> Nat] /\ requestId'[e] = requestId[e] + 1
           /\ table'[e] \subseteq table[e] \cup {[id |-> requestId[e], to |-> to, expired |-> FALSE]}
           /\ toConnector'[e] \subseteq toConnector[e] \cup {[id |-> requestId[e], datagram |-> d]}
           /\ \A f \in UdpEdges \ {e} : /\ table'[f] = table[f] /\ toConnector'[f] = toConnector[f]
                                        /\ requestId'[f] = requestId[f]
<1>1. Purged(table[e], MaxReplies) \subseteq table[e]
  BY Zenon DEF Purged, Fresh
<1> QED
  BY <1>1 DEF ToConnector, UdpTypes, NextId

\* The new entry of the local table has a fresh id, which no message has but the
\* one that is sent with it.
LEMMA ForwardLocalKeeps ==
    ASSUME UdpInv, NEW d \in Datagrams, ForwardLocal(d)
    PROVE  UdpInv'
<1> DEFINE n == requestId[Ingress]
           added == [id |-> n, to |-> [client |-> Sender(d)], expired |-> FALSE]
           msg == [id |-> n, datagram |-> d]
<1>0. /\ UdpTypes /\ Matches /\ Places
      /\ Ingress \in UdpEdges /\ Peer \in UdpEdges \ {Ingress} /\ n \in Nat /\ Sender(d) \in Sources
  BY Zenon, UdpAssumption DEF UdpInv, UdpEdges, UdpTypes, Sender, Datagrams
<1>1. /\ DOMAIN table' = UdpEdges /\ DOMAIN toConnector' = UdpEdges /\ UNCHANGED fromConnector
      /\ requestId' \in [UdpEdges -> Nat] /\ requestId'[Ingress] = n + 1 /\ requestId'[Peer] = requestId[Peer]
      /\ table'[Ingress] \subseteq table[Ingress] \cup {added} /\ table'[Peer] = table[Peer]
      /\ toConnector'[Ingress] \subseteq toConnector[Ingress] \cup {msg}
      /\ toConnector'[Peer] = toConnector[Peer]
  BY Zenon, <1>0, ToConnectorIs DEF ForwardLocal
<1>2. /\ UNCHANGED <<received, link, toPeer, fromPeer, pending, delivered>>
      /\ forwarding' = forwarding \ {<<d, Ingress>>} /\ <<d, Ingress>> \in forwarding
  BY Zenon DEF ForwardLocal, meshPath
<1>3. added \in LocalEntry /\ msg \in Message
  BY Zenon, <1>0 DEF LocalEntry, Message
<1>4. Tunnel(Ingress)' \subseteq Tunnel(Ingress) \cup {msg} /\ Tunnel(Peer)' = Tunnel(Peer) /\ Mesh' = Mesh
  BY Zenon, <1>1, <1>2 DEF Tunnel, Mesh
<1>5. UdpTypes'
  BY Zenon, <1>0, <1>1, <1>2, <1>3, <1>4 DEF UdpTypes, UdpEdges
<1>6. /\ added.id = n /\ added.to.client = Sender(d) /\ msg.id = n /\ msg.datagram = d
      /\ \A x \in table[Ingress] \cup Tunnel(Ingress) : x.id < n /\ x.id \in Nat
      /\ \A x \in pending \cup Mesh : x.id < n /\ x.id \in Nat
      /\ \A x \in table[Peer] : x.to.id \in Nat
  BY Zenon, <1>0 DEF Matches, OldIds, UdpTypes, LocalEntry, PeerEntry, Message, PendingEntry, Mesh
<1> HIDE DEF n, added, msg
<1>7. Matches'
  <2>1. OldIds'
    <3>1. ASSUME NEW e \in UdpEdges, NEW x \in table'[e] \cup Tunnel(e)' PROVE x.id < requestId'[e]
      <4>1. CASE e = Ingress
        BY <1>0, <1>1, <1>4, <1>6, <4>1
      <4>2. CASE e = Peer
        BY Zenon, <1>0, <1>1, <1>4, <4>2 DEF Matches, OldIds
      <4> QED
        BY Zenon, <4>1, <4>2 DEF UdpEdges
    <3>2. ASSUME NEW x \in pending' \cup Mesh' PROVE x.id < requestId'[Ingress]
      BY SMTT(30), <1>0, <1>1, <1>2, <1>4, <1>6
    <3>3. ASSUME NEW x \in table'[Peer]
          PROVE  x.to.link <= link' /\ (x.to.link = link' => x.to.id < requestId'[Ingress])
      <4>1. x.to.link <= link /\ (x.to.link = link => x.to.id < n)
        BY Zenon, <1>0, <1>1 DEF Matches, OldIds, n
      <4> QED
        BY <4>1, <1>0, <1>1, <1>2, <1>6
    <3> QED
      BY Zenon, <3>1, <3>2, <3>3 DEF OldIds
  <2>2. OneEntry'
    BY Zenon, <1>0, <1>1 DEF Matches, OneEntry
  <2>3. LocalMatch'
    BY SMTT(30), <1>0, <1>1, <1>4, <1>6 DEF Matches, LocalMatch
  <2>4. MeshMatch' /\ PeerMatch'
    BY <1>0, <1>1, <1>2, <1>4 DEF Matches, MeshMatch, PeerMatch
  <2> QED
    BY Zenon, <2>1, <2>2, <2>3, <2>4 DEF Matches
<1>8. Places'
  <2>1. Within("task", Ingress, 0, d) /\ ~Within("task", Ingress, 0, d)'
    BY Zenon, <1>2 DEF Within
  <2>2. ASSUME NEW k \in Kinds, NEW f \in UdpEdges, NEW i \in Nat, NEW x \in Datagrams, Within(k, f, i, x)'
        PROVE  Within(k, f, i, x) \/ (k = "request" /\ f = Ingress /\ i = n /\ x = d)
    <3>1. CASE k = "request"
      <4>1. [id |-> i, datagram |-> x] \in toConnector'[f]
        BY Zenon, <2>2, <3>1 DEF Within
      <4>2. CASE [id |-> i, datagram |-> x] \in toConnector[f]
        BY Zenon, <3>1, <4>2 DEF Within
      <4>3. CASE f = Ingress /\ [id |-> i, datagram |-> x] = msg
        BY Zenon, <3>1, <4>3 DEF msg
      <4> QED
        BY Zenon, <1>1, <4>1, <4>2, <4>3 DEF UdpEdges
    <3>2. CASE k # "request"
      BY Zenon, <1>1, <1>2, <2>2, <3>2 DEF Within
    <3> QED
      BY Zenon, <3>1, <3>2
  <2>3. "task" \in Kinds /\ "request" \in Kinds
    BY Zenon DEF Kinds
  <2>4. Leaves("task", Ingress, 0, d) /\ Enters("request", Ingress, n, d)
    BY Zenon, <2>1, <2>2 DEF Leaves, Enters
  <2> QED
    BY Zenon, <1>0, <1>2, <2>3, <2>4, MoveKeepsPlaces
<1> QED
  BY Zenon, <1>5, <1>7, <1>8 DEF UdpInv

\* So has the new pending entry of a datagram that goes to the peer.
LEMMA ForwardToPeerKeeps ==
    ASSUME UdpInv, NEW d \in Datagrams, ForwardToPeer(d)
    PROVE  UdpInv'
<1> DEFINE n == requestId[Ingress]
           added == [id |-> n, client |-> Sender(d), expired |-> FALSE]
           msg == [id |-> n, datagram |-> d]
<1>0. /\ UdpTypes /\ Matches /\ Places
      /\ Ingress \in UdpEdges /\ Peer \in UdpEdges \ {Ingress} /\ n \in Nat /\ Sender(d) \in Sources
  BY Zenon, UdpAssumption DEF UdpInv, UdpEdges, UdpTypes, Sender, Datagrams
<1>1. Purged(pending, MaxPending) \subseteq pending
  BY Zenon DEF Purged, Fresh
<1>2. /\ UNCHANGED <<received, link, fromPeer, table, toConnector, fromConnector, delivered>>
      /\ forwarding' = forwarding \ {<<d, Peer>>} /\ <<d, Peer>> \in forwarding
      /\ pending' \subseteq pending \cup {added} /\ toPeer' \subseteq toPeer \cup {msg}
      /\ requestId' = [requestId EXCEPT ![Ingress] = n + 1]
  BY ZenonT(30), <1>1 DEF ForwardToPeer, connectorPath, NextId
<1>3. added \in PendingEntry /\ msg \in Message
  BY ZenonT(30), <1>0 DEF PendingEntry, Message
<1>4. /\ requestId' \in [UdpEdges -> Nat] /\ requestId'[Ingress] = n + 1 /\ requestId'[Peer] = requestId[Peer]
      /\ \A e \in UdpEdges : Tunnel(e)' = Tunnel(e)
      /\ Mesh' \subseteq Mesh \cup {msg}
  BY SMTT(30), <1>0, <1>2 DEF UdpTypes, Tunnel, Mesh
<1>5. UdpTypes'
  BY Zenon, <1>0, <1>2, <1>3, <1>4 DEF UdpTypes
<1>6. /\ added.id = n /\ added.client = Sender(d) /\ msg.id = n /\ msg.datagram = d
      /\ \A x \in table[Ingress] \cup Tunnel(Ingress) : x.id < n /\ x.id \in Nat
      /\ \A x \in pending \cup Mesh : x.id < n /\ x.id \in Nat
      /\ \A x \in table[Peer] : x.to.id \in Nat /\ x.to.link <= link /\ (x.to.link = link => x.to.id < n)
  BY Zenon, <1>0 DEF Matches, OldIds, UdpTypes, LocalEntry, PeerEntry, Message, PendingEntry, Mesh
<1> HIDE DEF n, added, msg
<1>7. Matches'
  <2>1. OldIds'
    <3>1. ASSUME NEW e \in UdpEdges, NEW x \in table'[e] \cup Tunnel(e)' PROVE x.id < requestId'[e]
      <4>1. CASE e = Ingress
        BY <1>0, <1>2, <1>4, <1>6, <4>1
      <4>2. CASE e = Peer
        BY Zenon, <1>0, <1>2, <1>4, <4>2 DEF Matches, OldIds
      <4> QED
        BY Zenon, <4>1, <4>2 DEF UdpEdges
    <3>2. ASSUME NEW x \in pending' \cup Mesh' PROVE x.id < requestId'[Ingress]
      BY <1>0, <1>2, <1>4, <1>6
    <3>3. ASSUME NEW x \in table'[Peer]
          PROVE  x.to.link <= link' /\ (x.to.link = link' => x.to.id < requestId'[Ingress])
      BY <1>0, <1>2, <1>4, <1>6
    <3> QED
      BY Zenon, <3>1, <3>2, <3>3 DEF OldIds
  <2>2. OneEntry' /\ LocalMatch'
    BY Zenon, <1>0, <1>2, <1>4 DEF Matches, OneEntry, LocalMatch
  <2>3. MeshMatch'
    BY SMTT(30), <1>0, <1>2, <1>4, <1>6 DEF Matches, MeshMatch
  <2>4. PeerMatch'
    BY <1>0, <1>2, <1>4, <1>6 DEF Matches, PeerMatch
  <2> QED
    BY Zenon, <2>1, <2>2, <2>3, <2>4 DEF Matches
<1>8. Places'
  <2>1. Leaves("task", Peer, 0, d)
    BY Zenon, <1>2 DEF Leaves, Within
  <2>2. ASSUME NEW k \in Kinds, NEW f \in UdpEdges, NEW i \in Nat, NEW x \in Datagrams, Within(k, f, i, x)'
        PROVE  Within(k, f, i, x) \/ (k = "toPeer" /\ f = Peer /\ i = n /\ x = d)
    <3>1. CASE k = "toPeer"
      <4>1. [id |-> i, datagram |-> x] \in toPeer' /\ f = Peer
        BY Zenon, <2>2, <3>1 DEF Within
      <4>2. CASE [id |-> i, datagram |-> x] \in toPeer
        BY Zenon, <3>1, <4>1, <4>2 DEF Within
      <4>3. CASE [id |-> i, datagram |-> x] = msg
        BY Zenon, <3>1, <4>1, <4>3 DEF msg
      <4> QED
        BY Zenon, <1>2, <4>1, <4>2, <4>3
    <3>2. CASE k # "toPeer"
      BY Zenon, <1>2, <2>2, <3>2 DEF Within
    <3> QED
      BY Zenon, <3>1, <3>2
  <2>3. "task" \in Kinds /\ "toPeer" \in Kinds
    BY Zenon DEF Kinds
  <2>4. Enters("toPeer", Peer, n, d)
    BY Zenon, <2>2 DEF Enters
  <2> QED
    BY Zenon, <1>0, <1>2, <2>1, <2>3, <2>4, MoveKeepsPlaces
<1> QED
  BY Zenon, <1>5, <1>7, <1>8 DEF UdpInv

\* The new entry of the peer leads to the client that the ingress Edge remembers
\* for the id of the request.
LEMMA PeerRequestKeeps ==
    ASSUME UdpInv, NEW m \in toPeer, PeerRequest(m)
    PROVE  UdpInv'
<1> DEFINE n == requestId[Peer]
           d == m.datagram
           added == [id |-> n, to |-> [link |-> link, id |-> m.id], expired |-> FALSE]
           msg == [id |-> n, datagram |-> d]
<1>0. /\ UdpTypes /\ Matches /\ Places
      /\ Ingress \in UdpEdges \ {Peer} /\ Peer \in UdpEdges /\ n \in Nat
      /\ link \in Nat /\ m.id \in Nat /\ d \in Datagrams
      /\ m = [id |-> m.id, datagram |-> d]
  BY Zenon, UdpAssumption, MessageIs DEF UdpInv, UdpEdges, UdpTypes
<1>1. /\ DOMAIN table' = UdpEdges /\ DOMAIN toConnector' = UdpEdges /\ UNCHANGED fromConnector
      /\ requestId' \in [UdpEdges -> Nat] /\ requestId'[Peer] = n + 1 /\ requestId'[Ingress] = requestId[Ingress]
      /\ table'[Peer] \subseteq table[Peer] \cup {added} /\ table'[Ingress] = table[Ingress]
      /\ toConnector'[Peer] \subseteq toConnector[Peer] \cup {msg}
      /\ toConnector'[Ingress] = toConnector[Ingress]
  BY Zenon, <1>0, ToConnectorIs DEF PeerRequest
<1>2. /\ UNCHANGED <<received, forwarding, link, fromPeer, pending, delivered>>
      /\ toPeer' = toPeer \ {m}
  BY Zenon DEF PeerRequest
<1>3. added \in PeerEntry /\ msg \in Message
  BY Zenon, <1>0 DEF PeerEntry, Message
<1>4. Tunnel(Peer)' \subseteq Tunnel(Peer) \cup {msg} /\ Tunnel(Ingress)' = Tunnel(Ingress) /\ Mesh' \subseteq Mesh
  BY Zenon, <1>1, <1>2 DEF Tunnel, Mesh
<1>5. UdpTypes'
  BY ZenonT(30), <1>0, <1>1, <1>2, <1>3, <1>4 DEF UdpTypes, UdpEdges
<1>6. /\ added.id = n /\ added.to = [link |-> link, id |-> m.id] /\ msg.id = n /\ msg.datagram = d
      /\ added.to.link = link /\ added.to.id = m.id
      /\ \A x \in table[Peer] \cup Tunnel(Peer) : x.id < n /\ x.id \in Nat
      /\ m \in Mesh /\ m.id < requestId[Ingress]
  BY Zenon, <1>0 DEF Matches, OldIds, UdpTypes, PeerEntry, Message, Mesh
<1>7. \A y \in pending : y.id = m.id => y.client = Sender(d)
  BY Zenon, <1>0, <1>6 DEF Matches, MeshMatch
<1> HIDE DEF n, d, added, msg
<1>8. Matches'
  <2>1. OldIds'
    <3>1. ASSUME NEW e \in UdpEdges, NEW x \in table'[e] \cup Tunnel(e)' PROVE x.id < requestId'[e]
      <4>1. CASE e = Peer
        BY <1>0, <1>1, <1>4, <1>6, <4>1
      <4>2. CASE e = Ingress
        BY Zenon, <1>0, <1>1, <1>4, <4>2 DEF Matches, OldIds
      <4> QED
        BY Zenon, <4>1, <4>2 DEF UdpEdges
    <3>2. ASSUME NEW x \in pending' \cup Mesh' PROVE x.id < requestId'[Ingress]
      BY Zenon, <1>0, <1>1, <1>2, <1>4 DEF Matches, OldIds
    <3>3. ASSUME NEW x \in table'[Peer]
          PROVE  x.to.link <= link' /\ (x.to.link = link' => x.to.id < requestId'[Ingress])
      BY <1>0, <1>1, <1>2, <1>6 DEF Matches, OldIds
    <3> QED
      BY Zenon, <3>1, <3>2, <3>3 DEF OldIds
  <2>2. OneEntry'
    BY <1>0, <1>1, <1>6 DEF Matches, OneEntry
  <2>3. LocalMatch' /\ MeshMatch'
    BY Zenon, <1>0, <1>1, <1>2, <1>4 DEF Matches, LocalMatch, MeshMatch
  <2>4. PeerMatch'
    <3> SUFFICES ASSUME NEW a \in Tunnel(Peer)', NEW x \in table'[Peer], NEW y \in pending,
                        x.id = a.id, x.to.link = link, y.id = x.to.id
                 PROVE  y.client = Sender(a.datagram)
      BY Zenon, <1>2 DEF PeerMatch
    <3>1. CASE x \in table[Peer]
      <4>1. a \in Tunnel(Peer)
        BY <1>0, <1>4, <1>6, <3>1
      <4> QED
        BY Zenon, <1>0, <3>1, <4>1 DEF Matches, PeerMatch
    <3>2. CASE x = added
      <4>1. a = msg
        BY <1>0, <1>4, <1>6, <3>2
      <4> QED
        BY Zenon, <1>6, <1>7, <3>2, <4>1
    <3> QED
      BY Zenon, <1>1, <3>1, <3>2
  <2> QED
    BY Zenon, <2>1, <2>2, <2>3, <2>4 DEF Matches
<1>9. Places'
  <2>1. Leaves("toPeer", Peer, m.id, d)
    BY Zenon, <1>0, <1>2 DEF Leaves, Within
  <2>2. ASSUME NEW k \in Kinds, NEW f \in UdpEdges, NEW i \in Nat, NEW x \in Datagrams, Within(k, f, i, x)'
        PROVE  Within(k, f, i, x) \/ (k = "request" /\ f = Peer /\ i = n /\ x = d)
    <3>1. CASE k = "request"
      <4>1. [id |-> i, datagram |-> x] \in toConnector'[f]
        BY Zenon, <2>2, <3>1 DEF Within
      <4>2. CASE [id |-> i, datagram |-> x] \in toConnector[f]
        BY Zenon, <3>1, <4>2 DEF Within
      <4>3. CASE f = Peer /\ [id |-> i, datagram |-> x] = msg
        BY Zenon, <3>1, <4>3 DEF msg
      <4> QED
        BY Zenon, <1>1, <4>1, <4>2, <4>3 DEF UdpEdges
    <3>2. CASE k # "request"
      BY Zenon, <1>1, <1>2, <2>2, <3>2 DEF Within
    <3> QED
      BY Zenon, <3>1, <3>2
  <2>3. "toPeer" \in Kinds /\ "request" \in Kinds
    BY Zenon DEF Kinds
  <2>4. Enters("request", Peer, n, d)
    BY Zenon, <2>2 DEF Enters
  <2> QED
    BY Zenon, <1>0, <1>2, <2>1, <2>3, <2>4, MoveKeepsPlaces
<1> QED
  BY Zenon, <1>5, <1>8, <1>9 DEF UdpInv

---------------------------------------------------------------------------
(* The reply *)

\* A reply of the Connector has the id of its request.
LEMMA ConnectorAnswersKeeps ==
    ASSUME UdpInv, NEW e \in UdpEdges, NEW m \in toConnector[e], ConnectorAnswers(e, m)
    PROVE  UdpInv'
<1>0. UdpTypes /\ Matches /\ Places
  BY Zenon DEF UdpInv
<1>1. /\ m \in Tunnel(e)
      /\ m.id \in Nat /\ m.datagram \in Datagrams /\ m = [id |-> m.id, datagram |-> m.datagram]
  <2>1. m \in Tunnel(e)
    BY Zenon DEF Tunnel
  <2> QED
    BY Zenon, <1>0, <2>1, MessageIs DEF UdpTypes
<1>2. /\ UNCHANGED <<received, forwarding, requestId, link, toPeer, fromPeer, pending, table, delivered>>
      /\ DOMAIN toConnector' = UdpEdges /\ DOMAIN fromConnector' = UdpEdges
      /\ toConnector'[e] = toConnector[e] \ {m} /\ fromConnector'[e] = fromConnector[e] \cup {m}
      /\ \A f \in UdpEdges \ {e} : toConnector'[f] = toConnector[f] /\ fromConnector'[f] = fromConnector[f]
  BY Zenon, <1>0 DEF ConnectorAnswers, UdpTypes, meshPath
<1>3. Mesh' = Mesh /\ \A f \in UdpEdges : Tunnel(f)' \subseteq Tunnel(f)
  BY Zenon, <1>2 DEF Mesh, Tunnel
<1>4. UdpTypes'
  BY Zenon, <1>0, <1>2, <1>3 DEF UdpTypes
<1>5. Matches'
  <2>1. SamePending /\ \A f \in UdpEdges : SameEntries(f)
    BY Zenon, <1>2 DEF SamePending, SameEntries
  <2> QED
    BY Zenon, <1>0, <1>2, <1>3, <2>1, FewerKeepsMatches
<1>6. Places'
  <2>1. Leaves("request", e, m.id, m.datagram)
    BY Zenon, <1>1, <1>2 DEF Leaves, Within
  <2>2. ASSUME NEW k \in Kinds, NEW f \in UdpEdges, NEW i \in Nat, NEW x \in Datagrams, Within(k, f, i, x)'
        PROVE  Within(k, f, i, x) \/ (k = "reply" /\ f = e /\ i = m.id /\ x = m.datagram)
    <3>1. CASE k = "reply"
      <4>1. [id |-> i, datagram |-> x] \in fromConnector'[f]
        BY Zenon, <2>2, <3>1 DEF Within
      <4>2. CASE [id |-> i, datagram |-> x] \in fromConnector[f]
        BY Zenon, <3>1, <4>2 DEF Within
      <4>3. CASE f = e /\ [id |-> i, datagram |-> x] = m
        BY Zenon, <3>1, <4>3
      <4> QED
        BY Zenon, <1>2, <4>1, <4>2, <4>3
    <3>2. CASE k = "request"
      BY Zenon, <1>2, <2>2, <3>2 DEF Within
    <3>3. CASE k \notin {"reply", "request"}
      BY Zenon, <1>2, <2>2, <3>3 DEF Within
    <3> QED
      BY Zenon, <3>1, <3>2, <3>3
  <2>3. "request" \in Kinds /\ "reply" \in Kinds
    BY Zenon DEF Kinds
  <2>4. Enters("reply", e, m.id, m.datagram)
    BY Zenon, <2>2 DEF Enters
  <2> QED
    BY Zenon, <1>0, <1>1, <1>2, <2>1, <2>3, <2>4, MoveKeepsPlaces
<1> QED
  BY Zenon, <1>4, <1>5, <1>6 DEF UdpInv

\* A reply that leaves its last place goes to the sender, who has not had one.
LEMMA DeliverKeepsPlaces ==
    ASSUME UdpTypes, Places, received' = received,
           NEW d0 \in Datagrams, NEW k0 \in Kinds, NEW e0 \in UdpEdges, NEW i0 \in Nat,
           Leaves(k0, e0, i0, d0),
           \A k \in Kinds, e \in UdpEdges, i \in Nat, d \in Datagrams :
                Within(k, e, i, d)' => Within(k, e, i, d),
           NEW clients, clients \subseteq {Sender(d0)}, Deliver(clients, d0)
    PROVE  Places' /\ delivered' \in [Sources \X Datagrams -> Nat]
<1>1. \A k \in Kinds, e \in UdpEdges, i \in Nat : ~Within(k, e, i, d0)'
  BY DEF Leaves, Places, OnePlace
<1>2. d0 \in received /\ \A s \in Sources : delivered[<<s, d0>>] = 0
  BY Zenon DEF Leaves, Places, Unanswered
<1>3. ASSUME NEW s \in Sources, NEW d \in Datagrams
      PROVE  /\ delivered[<<s, d>>] \in Nat
             /\ delivered'[<<s, d>>] = delivered[<<s, d>>] + (IF s \in clients /\ d = d0 THEN 1 ELSE 0)
  <2>1. <<s, d>> \in Sources \X Datagrams /\ <<s, d>>[1] = s /\ <<s, d>>[2] = d
    BY Zenon
  <2> QED
    BY Zenon, <2>1 DEF Deliver, UdpTypes
<1>4. delivered' \in [Sources \X Datagrams -> Nat]
  BY DEF Deliver, UdpTypes
<1>5. OnePlace'
  BY SMTT(30) DEF Places, OnePlace
<1>6. Unanswered'
  <2> SUFFICES ASSUME NEW k \in Kinds, NEW e \in UdpEdges, NEW i \in Nat, NEW d \in Datagrams,
                      Within(k, e, i, d)'
               PROVE  d \in received' /\ \A s \in Sources : delivered'[<<s, d>>] = 0
    BY Zenon DEF Unanswered
  <2>1. d # d0
    BY Zenon, <1>1
  <2>2. d \in received /\ \A s \in Sources : delivered[<<s, d>>] = 0
    BY Zenon DEF Places, Unanswered
  <2> QED
    BY SMTT(30), <1>3, <2>1, <2>2
<1>7. Answered'
  <2> SUFFICES ASSUME NEW s \in Sources, NEW d \in Datagrams, delivered'[<<s, d>>] > 0
               PROVE  d \in received' /\ s = Sender(d) /\ delivered'[<<s, d>>] = 1
    BY Zenon DEF Answered
  <2>1. CASE s \in clients /\ d = d0
    BY SMTT(30), <1>2, <1>3, <2>1
  <2>2. CASE ~(s \in clients /\ d = d0)
    <3>1. delivered'[<<s, d>>] = delivered[<<s, d>>]
      BY <1>3, <2>2
    <3> QED
      BY Zenon, <3>1 DEF Places, Answered
  <2> QED
    BY Zenon, <2>1, <2>2
<1> QED
  BY Zenon, <1>4, <1>5, <1>6, <1>7 DEF Places

\* The reply of the local Connector goes to the client of the entry it names, and
\* ends the way of its datagram.
LEMMA ReplyToClientKeeps ==
    ASSUME UdpInv, NEW m \in fromConnector[Ingress], ReplyToClient(m)
    PROVE  UdpInv'
<1> DEFINE clients == {x.to.client : x \in Taken(table[Ingress], m.id)}
<1>0. UdpTypes /\ Matches /\ Places /\ Ingress \in UdpEdges
  BY Zenon DEF UdpInv, UdpEdges
<1>1. /\ m \in Tunnel(Ingress)
      /\ m.id \in Nat /\ m.datagram \in Datagrams /\ m = [id |-> m.id, datagram |-> m.datagram]
  <2>1. m \in Tunnel(Ingress)
    BY Zenon DEF Tunnel
  <2> QED
    BY Zenon, <1>0, <2>1, MessageIs DEF UdpTypes
<1>2. /\ UNCHANGED <<received, forwarding, requestId, link, toPeer, fromPeer, pending, toConnector>>
      /\ DOMAIN fromConnector' = UdpEdges
      /\ fromConnector'[Ingress] = fromConnector[Ingress] \ {m}
      /\ \A f \in UdpEdges : fromConnector'[f] \subseteq fromConnector[f]
      /\ table' = [table EXCEPT ![Ingress] = Without(@, m.id)]
      /\ Deliver(clients, m.datagram)
  BY Zenon, <1>0 DEF ReplyToClient, UdpTypes, meshPath
<1>3. clients \subseteq {Sender(m.datagram)}
  BY Zenon, <1>0, <1>1 DEF Matches, LocalMatch, Taken, Fresh
<1> HIDE DEF clients
<1>4. /\ \A e \in UdpEdges : SameEntries(e)
      /\ DOMAIN table' = UdpEdges
      /\ table'[Ingress] \subseteq LocalEntry /\ table'[Peer] \subseteq PeerEntry
  BY Zenon, <1>0, <1>1, <1>2, EntriesKept
<1>5. Mesh' = Mesh /\ SamePending /\ \A f \in UdpEdges : Tunnel(f)' \subseteq Tunnel(f)
  BY Zenon, <1>2 DEF Mesh, Tunnel, SamePending
<1>6. Matches'
  BY Zenon, <1>0, <1>2, <1>4, <1>5, FewerKeepsMatches
<1>7. Places' /\ delivered' \in [Sources \X Datagrams -> Nat]
  <2>1. Leaves("reply", Ingress, m.id, m.datagram) /\ "reply" \in Kinds
    BY Zenon, <1>0, <1>1, <1>2 DEF Leaves, Within, Kinds
  <2>2. \A k \in Kinds, e \in UdpEdges, i \in Nat, d \in Datagrams : Within(k, e, i, d)' => Within(k, e, i, d)
    BY <1>2 DEF Within
  <2> QED
    BY ZenonT(30), <1>0, <1>1, <1>2, <1>3, <2>1, <2>2, DeliverKeepsPlaces
<1>8. UdpTypes'
  BY Zenon, <1>0, <1>2, <1>4, <1>5, <1>7 DEF UdpTypes
<1> QED
  BY Zenon, <1>6, <1>7, <1>8 DEF UdpInv

\* So does a reply of the peer.
LEMMA PeerReplyKeeps ==
    ASSUME UdpInv, NEW m \in fromPeer, PeerReply(m)
    PROVE  UdpInv'
<1> DEFINE clients == {x.client : x \in Taken(pending, m.id)}
<1>0. UdpTypes /\ Matches /\ Places /\ Ingress \in UdpEdges
  BY Zenon DEF UdpInv, UdpEdges
<1>1. m \in Mesh /\ m.id \in Nat /\ m.datagram \in Datagrams /\ m = [id |-> m.id, datagram |-> m.datagram]
  BY Zenon, <1>0, MessageIs DEF UdpTypes, Mesh
<1>2. /\ UNCHANGED <<received, forwarding, requestId, link, toPeer, table, toConnector, fromConnector>>
      /\ fromPeer' = fromPeer \ {m}
      /\ pending' \subseteq pending
      /\ Deliver(clients, m.datagram)
  BY Zenon DEF PeerReply, connectorPath, Without
<1>3. clients \subseteq {Sender(m.datagram)}
  BY Zenon, <1>0, <1>1 DEF Matches, MeshMatch, Taken, Fresh
<1> HIDE DEF clients
<1>4. SamePending /\ pending' \subseteq PendingEntry
  BY Zenon, <1>0, <1>2, PendingKept
<1>5. Mesh' \subseteq Mesh /\ \A f \in UdpEdges : SameEntries(f) /\ Tunnel(f)' = Tunnel(f)
  BY Zenon, <1>2 DEF Mesh, Tunnel, SameEntries
<1>6. Matches'
  BY Zenon, <1>0, <1>2, <1>4, <1>5, FewerKeepsMatches
<1>7. Places' /\ delivered' \in [Sources \X Datagrams -> Nat]
  <2>1. Leaves("fromPeer", Ingress, m.id, m.datagram) /\ "fromPeer" \in Kinds
    BY Zenon, <1>0, <1>1, <1>2 DEF Leaves, Within, Kinds
  <2>2. \A k \in Kinds, e \in UdpEdges, i \in Nat, d \in Datagrams : Within(k, e, i, d)' => Within(k, e, i, d)
    BY <1>2 DEF Within
  <2> QED
    BY ZenonT(30), <1>0, <1>1, <1>2, <1>3, <2>1, <2>2, DeliverKeepsPlaces
<1>8. UdpTypes'
  BY Zenon, <1>0, <1>2, <1>4, <1>5, <1>7 DEF UdpTypes
<1> QED
  BY Zenon, <1>6, <1>7, <1>8 DEF UdpInv

\* The reply takes the id that the ingress Edge gave the request, when the
\* connection of the request is still there; otherwise it is lost.
LEMMA ReplyToPeerKeeps ==
    ASSUME UdpInv, NEW m \in fromConnector[Peer], ReplyToPeer(m)
    PROVE  UdpInv'
<1> DEFINE d == m.datagram
           live == {x \in Taken(table[Peer], m.id) : x.to.link = link}
<1>0. UdpTypes /\ Matches /\ Places /\ Ingress \in UdpEdges /\ Peer \in UdpEdges
  BY Zenon DEF UdpInv, UdpEdges
<1>1. m \in Tunnel(Peer) /\ m.id \in Nat /\ d \in Datagrams /\ m = [id |-> m.id, datagram |-> d]
  <2>1. m \in Tunnel(Peer)
    BY Zenon DEF Tunnel
  <2> QED
    BY Zenon, <1>0, <2>1, MessageIs DEF UdpTypes
<1>2. /\ UNCHANGED <<received, forwarding, requestId, link, toPeer, pending, toConnector, delivered>>
      /\ DOMAIN fromConnector' = UdpEdges
      /\ fromConnector'[Peer] = fromConnector[Peer] \ {m}
      /\ \A f \in UdpEdges : fromConnector'[f] \subseteq fromConnector[f]
      /\ table' = [table EXCEPT ![Peer] = Without(@, m.id)]
      /\ fromPeer' = fromPeer \cup {[id |-> x.to.id, datagram |-> d] : x \in live}
  BY Zenon, <1>0 DEF ReplyToPeer, SendReply, UdpTypes
<1>3. /\ \A e \in UdpEdges : SameEntries(e)
      /\ DOMAIN table' = UdpEdges
      /\ table'[Ingress] \subseteq LocalEntry /\ table'[Peer] \subseteq PeerEntry
  BY Zenon, <1>0, <1>1, <1>2, EntriesKept
<1>4. SamePending /\ \A f \in UdpEdges : Tunnel(f)' \subseteq Tunnel(f)
  BY Zenon, <1>2 DEF SamePending, Tunnel
<1>5. CASE live = {}
  <2>1. fromPeer' = fromPeer
    BY Zenon, <1>2, <1>5
  <2> HIDE DEF live, d
  <2>2. Mesh' = Mesh
    BY Zenon, <1>2, <2>1 DEF Mesh
  <2>3. Matches'
    BY Zenon, <1>0, <1>2, <1>3, <1>4, <2>2, FewerKeepsMatches
  <2>4. \A k \in Kinds, e \in UdpEdges, i \in Nat, x \in Datagrams : Within(k, e, i, x)' => Within(k, e, i, x)
    <3>1. /\ UNCHANGED <<forwarding, toPeer, fromPeer, toConnector>>
          /\ \A e \in UdpEdges : fromConnector'[e] \subseteq fromConnector[e]
      BY Zenon, <1>2, <2>1
    <3> QED
      BY SMTT(30), <3>1 DEF Within
  <2>5. Places'
    BY Zenon, <1>0, <1>2, <2>4, LossKeepsPlaces
  <2>6. UdpTypes'
    BY Zenon, <1>0, <1>2, <1>3, <1>4, <2>1 DEF UdpTypes
  <2> QED
    BY Zenon, <2>3, <2>5, <2>6 DEF UdpInv
<1>6. CASE live # {}
  <2>1. PICK x \in table[Peer] : x.id = m.id /\ x.to.link = link /\ x \in live
    BY Zenon, <1>6 DEF Taken, Fresh
  <2> DEFINE i1 == x.to.id
             msg == [id |-> i1, datagram |-> d]
  <2>2. i1 \in Nat /\ i1 < requestId[Ingress] /\ msg \in Message /\ msg.id = i1 /\ msg.datagram = d
    BY Zenon, <1>0, <1>1, <2>1 DEF UdpTypes, PeerEntry, Matches, OldIds, Message
  <2>3. \A y \in live : y.to = x.to
    BY Zenon, <1>0, <2>1 DEF Matches, OneEntry, Taken, Fresh
  <2>4. fromPeer' = fromPeer \cup {msg}
    BY Zenon, <1>2, <2>1, <2>3
  <2>5. \A y \in pending : y.id = i1 => y.client = Sender(d)
    BY Zenon, <1>0, <1>1, <2>1 DEF Matches, PeerMatch
  <2> HIDE DEF live, d, i1, msg
  <2>6. Mesh' = Mesh \cup {msg}
    BY ZenonT(30), <1>2, <2>4 DEF Mesh
  <2>7. UdpTypes'
    BY Zenon, <1>0, <1>2, <1>3, <1>4, <2>2, <2>4 DEF UdpTypes
  <2>8. Matches'
    <3>1. OldIds'
      <4>1. ASSUME NEW e \in UdpEdges, NEW y \in table'[e] \cup Tunnel(e)' PROVE y.id < requestId'[e]
        BY SMTT(30), <1>0, <1>2, <1>3, <1>4 DEF Matches, OldIds, SameEntries
      <4>2. ASSUME NEW y \in pending' \cup Mesh' PROVE y.id < requestId'[Ingress]
        BY Zenon, <1>0, <1>2, <2>2, <2>6 DEF Matches, OldIds
      <4>3. ASSUME NEW y \in table'[Peer]
            PROVE  y.to.link <= link' /\ (y.to.link = link' => y.to.id < requestId'[Ingress])
        BY SMTT(30), <1>0, <1>2, <1>3 DEF Matches, OldIds, SameEntries
      <4> QED
        BY Zenon, <4>1, <4>2, <4>3 DEF OldIds
    <3>2. OneEntry'
      BY <1>0, <1>3 DEF Matches, OneEntry, SameEntries
    <3>3. LocalMatch'
      BY <1>0, <1>3, <1>4 DEF Matches, LocalMatch, SameEntries
    <3>4. MeshMatch'
      BY Zenon, <1>0, <1>2, <2>2, <2>5, <2>6 DEF Matches, MeshMatch
    <3>5. PeerMatch'
      <4> SUFFICES ASSUME NEW n \in Tunnel(Peer)', NEW v \in table'[Peer], NEW y \in pending',
                          v.id = n.id, v.to.link = link', y.id = v.to.id
                   PROVE  y.client = Sender(n.datagram)
        BY Zenon DEF PeerMatch
      <4>1. PICK w \in table[Peer] : w.id = v.id /\ w.to = v.to
        BY Zenon, <1>3 DEF SameEntries, UdpEdges
      <4>2. n \in Tunnel(Peer) /\ y \in pending /\ link' = link
        BY Zenon, <1>2, <1>4 DEF UdpEdges
      <4> QED
        BY Zenon, <1>0, <4>1, <4>2 DEF Matches, PeerMatch
    <3> QED
      BY Zenon, <3>1, <3>2, <3>3, <3>4, <3>5 DEF Matches
  <2>9. Places'
    <3>1. Leaves("reply", Peer, m.id, d)
      BY Zenon, <1>0, <1>1, <1>2 DEF Leaves, Within
    <3>2. ASSUME NEW k \in Kinds, NEW f \in UdpEdges, NEW i \in Nat, NEW y \in Datagrams, Within(k, f, i, y)'
          PROVE  Within(k, f, i, y) \/ (k = "fromPeer" /\ f = Ingress /\ i = i1 /\ y = d)
      <4>1. CASE k = "fromPeer"
        <5>1. [id |-> i, datagram |-> y] \in fromPeer' /\ f = Ingress
          BY Zenon, <3>2, <4>1 DEF Within
        <5>2. CASE [id |-> i, datagram |-> y] \in fromPeer
          BY Zenon, <4>1, <5>1, <5>2 DEF Within
        <5>3. CASE [id |-> i, datagram |-> y] = msg
          BY Zenon, <4>1, <5>1, <5>3 DEF msg
        <5> QED
          BY Zenon, <2>4, <5>1, <5>2, <5>3
      <4>2. CASE k # "fromPeer"
        BY Zenon, <1>2, <3>2, <4>2 DEF Within
      <4> QED
        BY Zenon, <4>1, <4>2
    <3>3. "reply" \in Kinds /\ "fromPeer" \in Kinds
      BY Zenon DEF Kinds
    <3>4. Enters("fromPeer", Ingress, i1, d)
      BY Zenon, <3>2 DEF Enters
    <3> QED
      BY Zenon, <1>0, <1>1, <1>2, <2>2, <3>1, <3>3, <3>4, MoveKeepsPlaces
  <2> QED
    BY Zenon, <2>7, <2>8, <2>9 DEF UdpInv
<1> QED
  BY Zenon, <1>5, <1>6

---------------------------------------------------------------------------
(* The theorem *)

\* Nothing is under way at the start.
LEMMA UdpInitially ==
    ASSUME UdpInit
    PROVE  UdpInv
<1> USE DEF UdpInit, None
<1>0. Ingress \in UdpEdges /\ Peer \in UdpEdges
  BY Zenon DEF UdpEdges
<1>1. UdpTypes
  BY Zenon, <1>0 DEF UdpTypes, Tunnel
<1>2. Matches
  BY Zenon, <1>0 DEF Matches, OldIds, OneEntry, LocalMatch, MeshMatch, PeerMatch, Tunnel, Mesh
<1>3. \A k \in Kinds, e \in UdpEdges, i \in Nat, d \in Datagrams : ~Within(k, e, i, d)
  BY DEF Within
<1>4. Places
  BY <1>3 DEF Places, OnePlace, Unanswered, Answered
<1> QED
  BY Zenon, <1>1, <1>2, <1>4 DEF UdpInv

\* Other parts of the Edge leave the datagrams alone.
LEMMA UdpStutters ==
    ASSUME UdpInv, UNCHANGED udpVars
    PROVE  UdpInv'
<1> USE DEF udpVars, meshPath, connectorPath
<1>1. UdpTypes'
  BY Zenon DEF UdpInv, UdpTypes, Tunnel
<1>2. Matches'
  BY SMTT(30) DEF UdpInv, Matches, OldIds, OneEntry, LocalMatch, MeshMatch, PeerMatch, Tunnel, Mesh
<1>3. \A k \in Kinds, e \in UdpEdges, i \in Nat, d \in Datagrams : Within(k, e, i, d)' => Within(k, e, i, d)
  BY DEF Within
<1>4. Places'
  BY Zenon, <1>3, LossKeepsPlaces DEF UdpInv
<1> QED
  BY Zenon, <1>1, <1>2, <1>4 DEF UdpInv

\* A client gets the reply to a datagram of its own, and at most once, whatever
\* is lost, late, replaced or restarted (udp_reply_loop, handle_datagram).
THEOREM UdpReplyMatches == UdpSpec => []ReplyMatches
<1>1. UdpInit => UdpInv
  BY Zenon, UdpInitially
<1>2. UdpInv /\ [UdpNext]_udpVars => UdpInv'
  <2> SUFFICES ASSUME UdpInv, [UdpNext]_udpVars PROVE UdpInv'
    BY Zenon
  <2>1. CASE UNCHANGED udpVars
    BY Zenon, <2>1, UdpStutters
  <2>2. CASE UdpNext
    BY Zenon, <2>2, ReceiveKeeps, ForwardLocalKeeps, ForwardToPeerKeeps, PeerRequestKeeps, ConnectorAnswersKeeps,
       ReplyToClientKeeps, ReplyToPeerKeeps, PeerReplyKeeps, QuietKeeps, NewLinkKeeps DEF UdpNext
  <2> QED
    BY Zenon, <2>1, <2>2
<1>3. UdpInv => ReplyMatches
  <2> SUFFICES ASSUME UdpInv, NEW s \in Sources, NEW d \in Datagrams
               PROVE  delivered[<<s, d>>] <= (IF s = Sender(d) THEN 1 ELSE 0)
    BY Zenon DEF ReplyMatches
  <2>1. delivered[<<s, d>>] \in Nat
    BY Zenon DEF UdpInv, UdpTypes
  <2> QED
    BY <2>1 DEF UdpInv, Places, Answered
<1> QED
  BY <1>1, <1>2, <1>3, PTL DEF UdpSpec

---------------------------------------------------------------------------
(* Permits of mesh streams *)

\* What each stage of tenant_and_peer has.
StageInv ==
    \A t \in Tasks :
        /\ pc[t] \in {"first", "second"} <=> waits[t] # NoSem
        /\ pc[t] \in {"tenant", "second", "holding"} <=> first[t] # NoSem
        /\ pc[t] = "holding" <=> second[t] # NoSem

\* A reference is one to the semaphore that is in the map under its key.
RefInv ==
    /\ \A t \in Tasks :
        /\ pc[t] = "first" => entry[FirstKey(t)] = waits[t]
        /\ pc[t] = "second" => entry[SecondKey(t)] = waits[t]
        /\ first[t] # NoSem => entry[FirstKey(t)] = first[t]
        /\ second[t] # NoSem => entry[SecondKey(t)] = second[t]
    /\ \A j, k \in Keys : entry[j] = entry[k] /\ entry[j] # NoSem => j = k

\* The permits of a key are either available or held.
CountInv ==
    \A k \in Keys :
        entry[k] # NoSem =>
            available[entry[k]] + Cardinality(Holders(k)) = Limit[k]

PermitInv == TypeOK /\ StageInv /\ RefInv /\ CountInv

---------------------------------------------------------------------------

\* The holders of a key are finitely many.
LEMMA HoldersFinite ==
    ASSUME NEW k PROVE IsFiniteSet(Holders(k)) /\ Cardinality(Holders(k)) \in Nat
<1>1. Holders(k) \in SUBSET Tasks
  BY Zenon DEF Holders
<1>2. IsFiniteSet(Holders(k))
  BY Zenon, <1>1, FS_Subset, ConstantsAssumption
<1> QED
  BY Zenon, <1>2, FS_CardinalityType

\* The two keys of a task are keys, and are never the same one.
LEMMA TwoKeys ==
    ASSUME NEW t \in Tasks
    PROVE  /\ FirstKey(t) \in Keys /\ SecondKey(t) \in Keys
           /\ \A u \in Tasks : FirstKey(t) # SecondKey(u)
BY Zenon, ConstantsAssumption DEF FirstKey, SecondKey

\* A step that leaves the permits of every task alone changes no key's holders.
LEMMA SameHolders ==
    ASSUME first' = first, second' = second, NEW k PROVE Holders(k)' = Holders(k)
BY Zenon DEF Holders

\* Finding or creating an entry (acquire up to the clone) keeps the map
\* injective, the references of other tasks, and the counts: a new semaphore is
\* referenced by nobody, so its key has no holders.
LEMMA LookupStep ==
    ASSUME PermitInv, NEW t \in Tasks, NEW k \in Keys, Lookup(t, k),
           first' = first, second' = second
    PROVE  /\ entry' \in [Keys -> Sems \cup {NoSem}]
           /\ available' \in [Sems -> Nat]
           /\ waits' = [waits EXCEPT ![t] = entry'[k]]
           /\ entry'[k] \in Sems
           /\ \A j \in Keys : entry[j] # NoSem => entry'[j] = entry[j]
           /\ \A i, j \in Keys : entry'[i] = entry'[j] /\ entry'[i] # NoSem => i = j
           /\ CountInv'
<1> USE ConstantsAssumption
<1>1. CASE /\ entry[k] # NoSem
           /\ waits' = [waits EXCEPT ![t] = entry[k]]
           /\ UNCHANGED <<entry, available>>
  <2>1. CountInv'
    BY Zenon, <1>1, SameHolders DEF PermitInv, CountInv
  <2> QED
    BY Zenon, <1>1, <2>1 DEF PermitInv, TypeOK, RefInv
<1>2. CASE entry[k] = NoSem /\ Lookup(t, k)
  <2>1. PICK s \in Sems :
            /\ ~Referenced(s)
            /\ \A j \in Keys : entry[j] # s
            /\ entry' = [entry EXCEPT ![k] = s]
            /\ available' = [available EXCEPT ![s] = Limit[k]]
            /\ waits' = [waits EXCEPT ![t] = s]
    BY Zenon, <1>2 DEF Lookup
  <2>2. Holders(k) = {}
    BY <1>2 DEF PermitInv, RefInv, Holders, TypeOK
  <2>3. CountInv'
    <3> SUFFICES ASSUME NEW j \in Keys, entry'[j] # NoSem
                 PROVE  available'[entry'[j]] + Cardinality(Holders(j)') = Limit[j]
      BY Zenon DEF CountInv
    <3>1. CASE j = k
      <4>1. Holders(j)' = {}
        BY Zenon, <2>2, <3>1, SameHolders
      <4>2. entry'[j] = s /\ available'[s] = Limit[k]
        BY Zenon, <2>1, <3>1 DEF PermitInv, TypeOK
      <4> QED
        BY <4>1, <4>2, <3>1, FS_EmptySet
    <3>2. CASE j # k
      <4>1. entry'[j] = entry[j] /\ entry[j] # s /\ entry[j] \in Sems
        BY Zenon, <2>1, <3>2 DEF PermitInv, TypeOK
      <4>2. available'[entry[j]] = available[entry[j]]
        BY Zenon, <2>1, <4>1 DEF PermitInv, TypeOK
      <4>3. Holders(j)' = Holders(j)
        BY Zenon, SameHolders
      <4> QED
        BY Zenon, <4>1, <4>2, <4>3 DEF PermitInv, CountInv
    <3> QED
      BY Zenon, <3>1, <3>2
  <2> QED
    BY Zenon, <1>2, <2>1, <2>3 DEF PermitInv, TypeOK, RefInv
<1> QED
  BY Zenon, <1>1, <1>2 DEF Lookup

\* Taking a permit: the key of the semaphore gets one holder more.
LEMMA CountTaken ==
    ASSUME PermitInv, NEW t \in Tasks, NEW k \in Keys, NEW s \in Sems,
           entry' = entry, entry[k] = s, t \notin Holders(k), available[s] > 0,
           available' = [available EXCEPT ![s] = @ - 1],
           \A j \in Keys : Holders(j)' = IF j = k THEN Holders(j) \cup {t}
                                                ELSE Holders(j)
    PROVE  CountInv' /\ available' \in [Sems -> Nat]
<1>1. available' \in [Sems -> Nat]
  BY DEF PermitInv, TypeOK
<1>2. CountInv'
  <2> SUFFICES ASSUME NEW j \in Keys, entry[j] # NoSem
               PROVE  available'[entry[j]] + Cardinality(Holders(j)') = Limit[j]
    BY Zenon DEF CountInv
  <2>1. available[entry[j]] + Cardinality(Holders(j)) = Limit[j]
    BY Zenon DEF PermitInv, CountInv
  <2>2. entry[j] \in Sems /\ available[entry[j]] \in Nat
    BY Zenon DEF PermitInv, TypeOK
  <2>3. CASE j = k
    <3>1. Cardinality(Holders(j)') = Cardinality(Holders(j)) + 1
      BY <2>3, HoldersFinite, FS_AddElement
    <3>2. available'[entry[j]] = available[entry[j]] - 1
      BY Zenon, <2>2, <2>3 DEF PermitInv, TypeOK
    <3> QED
      BY <2>1, <2>2, <3>1, <3>2, HoldersFinite
  <2>4. CASE j # k
    <3>1. entry[j] # s
      BY Zenon, <2>4 DEF PermitInv, RefInv
    <3>2. available'[entry[j]] = available[entry[j]]
      BY Zenon, <2>2, <3>1 DEF PermitInv, TypeOK
    <3> QED
      BY Zenon, <2>1, <2>4, <3>2
  <2> QED
    BY Zenon, <2>3, <2>4
<1> QED
  BY Zenon, <1>1, <1>2

\* Giving permits back: each key of K loses one holder, each of their
\* semaphores gets one permit more.
LEMMA CountGivenBack ==
    ASSUME PermitInv, NEW t \in Tasks, NEW K \in SUBSET Keys, entry' = entry,
           \A k \in K : t \in Holders(k) /\ entry[k] \in Sems,
           available' = [s \in Sems |-> IF s \in {entry[k] : k \in K}
                                           THEN available[s] + 1 ELSE available[s]],
           \A j \in Keys : Holders(j)' = IF j \in K THEN Holders(j) \ {t}
                                                  ELSE Holders(j)
    PROVE  CountInv' /\ available' \in [Sems -> Nat]
<1>1. available' \in [Sems -> Nat]
  BY DEF PermitInv, TypeOK
<1>2. CountInv'
  <2> SUFFICES ASSUME NEW j \in Keys, entry[j] # NoSem
               PROVE  available'[entry[j]] + Cardinality(Holders(j)') = Limit[j]
    BY Zenon DEF CountInv
  <2>1. available[entry[j]] + Cardinality(Holders(j)) = Limit[j]
    BY Zenon DEF PermitInv, CountInv
  <2>2. entry[j] \in Sems /\ available[entry[j]] \in Nat
    BY Zenon DEF PermitInv, TypeOK
  <2>3. CASE j \in K
    <3>1. Cardinality(Holders(j)') = Cardinality(Holders(j)) - 1
      BY <2>3, HoldersFinite, FS_RemoveElement
    <3>2. available'[entry[j]] = available[entry[j]] + 1
      BY Zenon, <2>2, <2>3
    <3> QED
      BY <2>1, <2>2, <3>1, <3>2, HoldersFinite
  <2>4. CASE j \notin K
    <3>1. entry[j] \notin {entry[k] : k \in K}
      BY Zenon, <2>4 DEF PermitInv, RefInv
    <3>2. available'[entry[j]] = available[entry[j]]
      BY Zenon, <2>2, <3>1
    <3> QED
      BY Zenon, <2>1, <2>4, <3>2
  <2> QED
    BY Zenon, <2>3, <2>4
<1> QED
  BY Zenon, <1>1, <1>2

---------------------------------------------------------------------------
(* One lemma per action *)

\* A task that looks up its tenant refers to what the map then holds.
LEMMA LookupFirstStep == ASSUME PermitInv, NEW t \in Tasks, LookupFirst(t) PROVE PermitInv'
<1> USE ConstantsAssumption
<1> DEFINE k == FirstKey(t)
<1>1. k \in Keys
  BY Zenon, TwoKeys
<1>2. /\ Lookup(t, k) /\ first' = first /\ second' = second
      /\ pc[t] = "idle" /\ pc' = [pc EXCEPT ![t] = "first"]
  BY Zenon DEF LookupFirst, Goto
<1> HIDE DEF k
<1>3. /\ entry' \in [Keys -> Sems \cup {NoSem}]
      /\ available' \in [Sems -> Nat]
      /\ waits' = [waits EXCEPT ![t] = entry'[k]]
      /\ entry'[k] \in Sems
      /\ \A j \in Keys : entry[j] # NoSem => entry'[j] = entry[j]
      /\ \A i, j \in Keys : entry'[i] = entry'[j] /\ entry'[i] # NoSem => i = j
      /\ CountInv'
  BY Zenon, <1>1, <1>2, LookupStep
<1>4. TypeOK'
  BY Zenon, <1>2, <1>3 DEF PermitInv, TypeOK
<1>5. StageInv'
  BY Zenon, <1>2, <1>3 DEF PermitInv, TypeOK, StageInv
<1>6. RefInv'
  BY <1>2, <1>3, TwoKeys, SMTT(40) DEF PermitInv, TypeOK, StageInv, RefInv, k, FirstKey, SecondKey
<1> QED
  BY Zenon, <1>3, <1>4, <1>5, <1>6 DEF PermitInv

\* The same for its peer; the entry of its tenant is another one.
LEMMA LookupSecondStep == ASSUME PermitInv, NEW t \in Tasks, LookupSecond(t) PROVE PermitInv'
<1> USE ConstantsAssumption
<1> DEFINE k == SecondKey(t)
<1>1. k \in Keys
  BY Zenon, TwoKeys
<1>2. /\ Lookup(t, k) /\ first' = first /\ second' = second
      /\ pc[t] = "tenant" /\ pc' = [pc EXCEPT ![t] = "second"]
  BY Zenon DEF LookupSecond, Goto
<1> HIDE DEF k
<1>3. /\ entry' \in [Keys -> Sems \cup {NoSem}]
      /\ available' \in [Sems -> Nat]
      /\ waits' = [waits EXCEPT ![t] = entry'[k]]
      /\ entry'[k] \in Sems
      /\ \A j \in Keys : entry[j] # NoSem => entry'[j] = entry[j]
      /\ \A i, j \in Keys : entry'[i] = entry'[j] /\ entry'[i] # NoSem => i = j
      /\ CountInv'
  BY Zenon, <1>1, <1>2, LookupStep
<1>4. TypeOK'
  BY Zenon, <1>2, <1>3 DEF PermitInv, TypeOK
<1>5. StageInv'
  BY Zenon, <1>2, <1>3 DEF PermitInv, TypeOK, StageInv
<1>6. RefInv'
  BY <1>2, <1>3, TwoKeys, SMTT(40) DEF PermitInv, TypeOK, StageInv, RefInv, k, FirstKey, SecondKey
<1> QED
  BY Zenon, <1>3, <1>4, <1>5, <1>6 DEF PermitInv

\* The tenant has one free permit less and one holder more.
LEMMA AcquireFirstStep == ASSUME PermitInv, NEW t \in Tasks, AcquireFirst(t) PROVE PermitInv'
<1> USE ConstantsAssumption DEF AcquireFirst, Goto, HasPermit
<1>1. /\ FirstKey(t) \in Keys /\ waits[t] \in Sems
      /\ entry[FirstKey(t)] = waits[t] /\ first[t] = NoSem
  BY TwoKeys DEF PermitInv, TypeOK, StageInv, RefInv
<1>2. t \notin Holders(FirstKey(t))
  BY Zenon, <1>1, TwoKeys DEF Holders
<1>3. \A j \in Keys : Holders(j)' = IF j = FirstKey(t) THEN Holders(j) \cup {t}
                                                    ELSE Holders(j)
  BY Zenon, <1>1 DEF PermitInv, TypeOK, Holders, FirstKey, SecondKey
<1>4. CountInv' /\ available' \in [Sems -> Nat]
  BY Zenon, <1>1, <1>2, <1>3, CountTaken
<1>5. TypeOK' /\ StageInv'
  BY Zenon, <1>1, <1>4 DEF PermitInv, TypeOK, StageInv
<1>6. RefInv'
  BY Zenon, <1>1 DEF PermitInv, TypeOK, StageInv, RefInv, FirstKey, SecondKey
<1> QED
  BY Zenon, <1>4, <1>5, <1>6 DEF PermitInv

\* The peer has one free permit less and one holder more.
LEMMA AcquireSecondStep == ASSUME PermitInv, NEW t \in Tasks, AcquireSecond(t) PROVE PermitInv'
<1> USE ConstantsAssumption DEF AcquireSecond, Goto, HasPermit
<1>1. /\ SecondKey(t) \in Keys /\ waits[t] \in Sems
      /\ entry[SecondKey(t)] = waits[t] /\ second[t] = NoSem
  BY TwoKeys DEF PermitInv, TypeOK, StageInv, RefInv
<1>2. t \notin Holders(SecondKey(t))
  BY Zenon, <1>1, TwoKeys DEF Holders
<1>3. \A j \in Keys : Holders(j)' = IF j = SecondKey(t) THEN Holders(j) \cup {t}
                                                     ELSE Holders(j)
  BY Zenon, <1>1 DEF PermitInv, TypeOK, Holders, FirstKey, SecondKey
<1>4. CountInv' /\ available' \in [Sems -> Nat]
  BY Zenon, <1>1, <1>2, <1>3, CountTaken
<1>5. TypeOK' /\ StageInv'
  BY Zenon, <1>1, <1>4 DEF PermitInv, TypeOK, StageInv
<1>6. RefInv'
  BY Zenon, <1>1 DEF PermitInv, TypeOK, StageInv, RefInv, FirstKey, SecondKey
<1> QED
  BY Zenon, <1>4, <1>5, <1>6 DEF PermitInv

\* A task that gives up before it has a permit only drops its clone.
LEMMA GiveUpFirstStep == ASSUME PermitInv, NEW t \in Tasks, GiveUpFirst(t) PROVE PermitInv'
<1> USE ConstantsAssumption DEF GiveUpFirst, Goto
<1>1. TypeOK' /\ StageInv'
  BY Zenon DEF PermitInv, TypeOK, StageInv
<1>2. RefInv'
  BY Zenon DEF PermitInv, TypeOK, StageInv, RefInv, FirstKey, SecondKey
<1>3. CountInv'
  BY Zenon, SameHolders DEF PermitInv, CountInv
<1> QED
  BY Zenon, <1>1, <1>2, <1>3 DEF PermitInv

\* A task that gives up on its peer gives its tenant's permit back.
LEMMA GiveUpSecondStep == ASSUME PermitInv, NEW t \in Tasks, GiveUpSecond(t) PROVE PermitInv'
<1> USE ConstantsAssumption DEF GiveUpSecond, Goto
<1> DEFINE K == {FirstKey(t)}
<1>1. /\ FirstKey(t) \in Keys /\ first[t] \in Sems /\ second[t] = NoSem
      /\ entry[FirstKey(t)] = first[t]
  BY TwoKeys DEF PermitInv, TypeOK, StageInv, RefInv
<1>2. \A k \in K : t \in Holders(k) /\ entry[k] \in Sems
  BY Zenon, <1>1 DEF Holders
<1>3. \A j \in Keys : Holders(j)' = IF j \in K THEN Holders(j) \ {t} ELSE Holders(j)
  BY Zenon, <1>1 DEF PermitInv, TypeOK, Holders, FirstKey, SecondKey
<1>4. available' = [s \in Sems |-> IF s \in {entry[k] : k \in K}
                                      THEN available[s] + 1 ELSE available[s]]
  BY Zenon, <1>1 DEF PermitInv, TypeOK
<1>5. CountInv' /\ available' \in [Sems -> Nat]
  <2>1. K \in SUBSET Keys
    BY Zenon, <1>1
  <2>2. entry' = entry
    BY Zenon
  <2> HIDE DEF K, GiveUpSecond
  <2> QED
    BY Zenon, <1>2, <1>3, <1>4, <2>1, <2>2, CountGivenBack
<1>6. TypeOK' /\ StageInv'
  BY Zenon, <1>1, <1>5 DEF PermitInv, TypeOK, StageInv
<1>7. RefInv'
  BY Zenon, <1>1 DEF PermitInv, TypeOK, StageInv, RefInv, FirstKey, SecondKey
<1> QED
  BY Zenon, <1>5, <1>6, <1>7 DEF PermitInv

\* Both permits go back to the semaphores that the map holds.
LEMMA ReleaseStep == ASSUME PermitInv, NEW t \in Tasks, Release(t) PROVE PermitInv'
<1> USE ConstantsAssumption DEF Release, Goto
<1> DEFINE K == {FirstKey(t), SecondKey(t)}
<1>1. /\ FirstKey(t) \in Keys /\ first[t] \in Sems
      /\ entry[FirstKey(t)] = first[t]
      /\ SecondKey(t) \in Keys /\ second[t] \in Sems
      /\ entry[SecondKey(t)] = second[t]
  BY TwoKeys DEF PermitInv, TypeOK, StageInv, RefInv
<1>2. \A k \in K : t \in Holders(k) /\ entry[k] \in Sems
  BY Zenon, <1>1 DEF Holders
<1>3. \A j \in Keys : Holders(j)' = IF j \in K THEN Holders(j) \ {t} ELSE Holders(j)
  BY Zenon, <1>1 DEF PermitInv, TypeOK, Holders, FirstKey, SecondKey
<1>4. available' = [s \in Sems |-> IF s \in {entry[k] : k \in K}
                                      THEN available[s] + 1 ELSE available[s]]
  BY Zenon, <1>1 DEF PermitInv, TypeOK
<1>5. CountInv' /\ available' \in [Sems -> Nat]
  <2>1. K \in SUBSET Keys
    BY Zenon, <1>1
  <2>2. entry' = entry
    BY Zenon
  <2> HIDE DEF K, Release
  <2> QED
    BY Zenon, <1>2, <1>3, <1>4, <2>1, <2>2, CountGivenBack
<1>6. TypeOK' /\ StageInv'
  BY Zenon, <1>1, <1>5 DEF PermitInv, TypeOK, StageInv
<1>7. RefInv'
  BY Zenon, <1>1 DEF PermitInv, TypeOK, StageInv, RefInv, FirstKey, SecondKey
<1> QED
  BY Zenon, <1>5, <1>6, <1>7 DEF PermitInv

\* The entry removed is one to which nobody refers.
LEMMA SweepStep == ASSUME PermitInv, NEW k \in Keys, Sweep(k) PROVE PermitInv'
<1> USE ConstantsAssumption DEF Sweep
<1>1. TypeOK' /\ StageInv'
  BY Zenon DEF PermitInv, TypeOK, StageInv
<1>2. \A j \in Keys : entry'[j] = IF j = k THEN NoSem ELSE entry[j]
  BY Zenon DEF PermitInv, TypeOK
\* Nobody has a clone of what is removed.
<1>3. \A t \in Tasks : entry[k] \notin {waits[t], first[t], second[t]}
  BY Zenon DEF Idle, Referenced
<1>4. RefInv'
  BY <1>2, <1>3, TwoKeys DEF PermitInv, StageInv, RefInv, FirstKey, SecondKey
<1>5. CountInv'
  BY Zenon, <1>2, SameHolders DEF PermitInv, CountInv
<1> QED
  BY Zenon, <1>1, <1>4, <1>5 DEF PermitInv

---------------------------------------------------------------------------

\* Initially there is no entry, and nobody has anything.
LEMMA InitInv == Init => PermitInv
BY ConstantsAssumption DEF Init, PermitInv, TypeOK, StageInv, RefInv, CountInv

\* Every step of a task and every sweep keeps the inductive invariant.
LEMMA NextInv == PermitInv /\ [Next]_vars => PermitInv'
<1> SUFFICES ASSUME PermitInv, [Next]_vars PROVE PermitInv'
  BY Zenon
<1>1. CASE \E t \in Tasks : TaskStep(t)
  BY Zenon, <1>1, LookupFirstStep, AcquireFirstStep, GiveUpFirstStep, LookupSecondStep,
     AcquireSecondStep, GiveUpSecondStep, ReleaseStep DEF TaskStep
<1>2. CASE \E k \in Keys : Sweep(k)
  BY Zenon, <1>2, SweepStep
<1>3. CASE UNCHANGED vars
  BY <1>3, SameHolders DEF vars, PermitInv, TypeOK, StageInv, RefInv, CountInv
<1> QED
  BY Zenon, <1>1, <1>2, <1>3 DEF Next

\* The inductive invariant holds of every reachable state.
LEMMA PermitInvariant == Spec => []PermitInv
BY InitInv, NextInv, PTL DEF Spec

\* Every variable of PermitTable keeps its type: in particular a semaphore
\* never has fewer than zero permits.
THEOREM TypeCorrect == Spec => []TypeOK
<1>1. PermitInv => TypeOK
  BY Zenon DEF PermitInv
<1> QED
  BY <1>1, PermitInvariant, PTL

\* No tenant and no peer has more streams than its limit, however sweep races
\* with the tasks that acquire.
THEOREM BudgetsKept == Spec => []LimitRespected
<1>1. PermitInv => LimitRespected
  <2> SUFFICES ASSUME PermitInv, NEW k \in Keys
               PROVE  Cardinality(Holders(k)) <= Limit[k]
    BY Zenon DEF LimitRespected
  <2>1. CASE entry[k] = NoSem
    <3>1. Holders(k) = {}
      BY Zenon, <2>1, TwoKeys DEF PermitInv, RefInv, Holders
    <3> QED
      BY <3>1, FS_EmptySet, ConstantsAssumption
  <2>2. CASE entry[k] # NoSem
    <3>1. available[entry[k]] \in Nat
      BY Zenon, <2>2 DEF PermitInv, TypeOK
    <3>2. available[entry[k]] + Cardinality(Holders(k)) = Limit[k]
      BY Zenon, <2>2 DEF PermitInv, CountInv
    <3> QED
      BY <3>1, <3>2, HoldersFinite, ConstantsAssumption
  <2> QED
    BY Zenon, <2>1, <2>2
<1> QED
  BY <1>1, PermitInvariant, PTL

\* A request that waits for a slot holds no slot of a peer, so a tenant at its
\* limit keeps none of the budget that all tenants share.
THEOREM NoPeerSlotWhileWaiting == Spec => []WaitersHoldNoPeerSlot
<1>1. PermitInv => WaitersHoldNoPeerSlot
  BY Zenon, ConstantsAssumption
  DEF PermitInv, StageInv, WaitersHoldNoPeerSlot, Holders, FirstKey, SecondKey
<1> QED
  BY <1>1, PermitInvariant, PTL

\* A semaphore without permits is one whose budget is used up: neither sweep
\* nor giving up loses a permit, and what a task waits for is what the map has.
THEOREM NoPermitLost == Spec => []KeptWaitingOnlyWhenFull
<1>1. PermitInv => KeptWaitingOnlyWhenFull
  <2> SUFFICES ASSUME PermitInv, NEW t \in Tasks, NEW k \in Keys, waits[t] # NoSem, ~HasPermit(waits[t]),
                      k = IF pc[t] = "first" THEN FirstKey(t) ELSE SecondKey(t)
               PROVE  Cardinality(Holders(k)) = Limit[k]
    BY Zenon DEF KeptWaitingOnlyWhenFull
  <2>1. pc[t] \in {"first", "second"}
    BY Zenon DEF PermitInv, StageInv
  <2>2. entry[k] = waits[t]
    BY Zenon, <2>1 DEF PermitInv, RefInv
  <2>3. available[waits[t]] \in Nat /\ available[waits[t]] + Cardinality(Holders(k)) = Limit[k]
    BY Zenon, <2>2 DEF PermitInv, TypeOK, CountInv
  <2>4. Cardinality(Holders(k)) \in Nat
    BY Zenon, HoldersFinite, FS_CardinalityType
  <2> QED
    BY <2>3, <2>4 DEF HasPermit
<1> QED
  BY <1>1, PermitInvariant, PTL
=============================================================================
