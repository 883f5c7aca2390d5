---------------------- MODULE ConnectorRegistryProofs ----------------------
(***************************************************************************)
(* Proofs about ConnectorRegistry: the two indexes agree whenever the lock *)
(* is free, no lookup finds a handle that was let go, no hostname is taken *)
(* from a tenant, and a late disconnect leaves a newer registration alone. *)
(* They hold for any number of connections, tenants and hostnames.         *)
(***************************************************************************)
EXTENDS ConnectorRegistry, TLAPS

\* The stages in which a handler holds write_lock.
Locked == {"unlinking", "linking", "removing"}

\* The stages in which a handler's own handle has its generation ...
Numbered == {"unlinking", "linking", "replacing", "presence", "serving",
             "removing", "withdrawing"}

\* ... and those in which that handle may be its tenant's current one.
Current == Numbered \ {"removing", "withdrawing"}

\* The lock is held by the handler that is inside register or remove.
LockInv == \A c \in Conns : pc[c] \in Locked <=> write_lock = c

\* A handler's handle is its own, and generations are never given out twice.
HandleInv ==
    /\ \A c \in Conns :
        pc[c] \in Numbered \cup {"verified"} => /\ handle[c] # NoHandle
                                                /\ handle[c].conn = c
    /\ \A c \in Conns : pc[c] \in Numbered => handle[c].generation <= next_generation
    /\ \A c, d \in Conns :
        /\ pc[c] \in Numbered
        /\ pc[d] \in Numbered
        /\ handle[c].generation = handle[d].generation
        => c = d

\* An entry of the tenant index is the handle of a handler that registered it.
TenantInv ==
    \A t \in Tenants :
        by_tenant[t] # NoHandle =>
            /\ by_tenant[t].tenant = t
            /\ pc[by_tenant[t].conn] \in Current
            /\ handle[by_tenant[t].conn] = by_tenant[t]

\* The lock holder is about to drop h's entry x.
BeingUnlinked(x, h) ==
    \E d \in Conns :
        /\ h \in todo[d]
        /\ \/ pc[d] = "unlinking" /\ replaced[d] = x
           \/ pc[d] = "removing" /\ handle[d] = x

\* An entry of the hostname index is current, or about to be dropped.
HostnameInv ==
    \A h \in Hostnames :
        by_hostname[h] # NoHandle =>
            /\ h \in by_hostname[h].hostnames
            /\ pc[by_hostname[h].conn] \in Numbered \ {"withdrawing"}
            /\ handle[by_hostname[h].conn] = by_hostname[h]
            /\ \/ by_tenant[by_hostname[h].tenant] = by_hostname[h]
               \/ BeingUnlinked(by_hostname[h], h)

\* A current registration's hostname is routed to it, or about to be.
RoutedInv ==
    \A t \in Tenants :
        by_tenant[t] # NoHandle =>
            \A h \in by_tenant[t].hostnames :
                \/ by_hostname[h] = by_tenant[t]
                \/ LET d == by_tenant[t].conn
                   IN  pc[d] = "unlinking" \/ (pc[d] = "linking" /\ h \in todo[d])

\* What a handler inside register or remove may rely on.
WriterInv ==
    \A c \in Conns :
        /\ pc[c] \in {"unlinking", "linking"} =>
            /\ by_tenant[handle[c].tenant] = handle[c]
            /\ \A h \in handle[c].hostnames :
                by_hostname[h] # NoHandle => by_hostname[h].tenant = handle[c].tenant
        /\ pc[c] = "unlinking" =>
            /\ replaced[c] # NoHandle
            /\ replaced[c].tenant = handle[c].tenant
            /\ pc[replaced[c].conn] \in Current
            /\ handle[replaced[c].conn] = replaced[c]
        /\ pc[c] = "linking" => todo[c] \subseteq handle[c].hostnames
        /\ pc[c] = "removing" => by_tenant[handle[c].tenant] = NoHandle

\* Every registered handler on an open connection is current, or another
\* handler still has to close that connection.
ReplacedInv ==
    /\ \A c \in open :
        pc[c] \in Current =>
            \/ by_tenant[handle[c].tenant] = handle[c]
            \/ \E d \in Conns : replaced[d] = handle[c]
    /\ \A c \in Conns :
        replaced[c] # NoHandle => pc[c] \in {"unlinking", "linking", "replacing"}

\* The gauge counts the tenants, and the one a handler is just removing.
GaugeInv ==
    gauge = Cardinality({t \in Tenants : by_tenant[t] # NoHandle})
            + IF \E c \in Conns : pc[c] = "removing" THEN 1 ELSE 0

\* TypeOK without the claim that the gauge is not negative.
TypeInv ==
    /\ by_hostname \in [Hostnames -> Handle \cup {NoHandle}]
    /\ by_tenant \in [Tenants -> Handle \cup {NoHandle}]
    /\ next_generation \in Nat
    /\ write_lock \in Conns \cup {NoConn}
    /\ gauge \in Int
    /\ pc \in [Conns -> Stages]
    /\ handle \in [Conns -> Handle \cup {NoHandle}]
    /\ replaced \in [Conns -> Handle \cup {NoHandle}]
    /\ todo \in [Conns -> SUBSET Hostnames]
    /\ open \subseteq Conns
    /\ going_away \subseteq Conns
    /\ draining \subseteq Conns
    /\ present \subseteq Tenants

IInv ==
    /\ TypeInv
    /\ LockInv
    /\ HandleInv
    /\ TenantInv
    /\ HostnameInv
    /\ RoutedInv
    /\ WriterInv
    /\ ReplacedInv
    /\ GaugeInv

---------------------------------------------------------------------------
(* What the steps of a handler amount to *)

\* What the proofs use of the constants: the null values are not handles and
\* not connections, and the fields of a handle have their types.
LEMMA Constants ==
    /\ NoHandle \notin Handle
    /\ NoConn \notin Conns
    /\ \A x \in Handle : /\ x.generation \in Nat
                         /\ x.tenant \in Tenants
                         /\ x.hostnames \subseteq Hostnames
                         /\ x.conn \in Conns
BY Zenon, ConstantsAssumption DEF Handle

\* The handler of c authenticates and holds the handle new.
AuthenticatesAs(c, new) ==
    /\ new.conn = c
    /\ pc[c] = "auth"
    /\ handle' = [handle EXCEPT ![c] = new]
    /\ pc' = [pc EXCEPT ![c] = "verified"]
    /\ UNCHANGED <<registry, write_lock, replaced, todo, draining, wire, present>>

\* The handler of c registers the handle new.
RegistersAs(c, new) ==
    /\ new.conn = c
    /\ new.tenant = handle[c].tenant
    /\ new.hostnames = handle[c].hostnames
    /\ new.generation = next_generation + 1
    /\ handle[c] \in Handle
    /\ pc[c] = "verified"
    /\ write_lock = NoConn
    /\ ~Conflict(c)
    /\ write_lock' = c
    /\ next_generation' = next_generation + 1
    /\ handle' = [handle EXCEPT ![c] = new]
    /\ by_tenant' = [by_tenant EXCEPT ![new.tenant] = new]
    /\ replaced' = [replaced EXCEPT ![c] = by_tenant[new.tenant]]
    /\ \/ /\ by_tenant[new.tenant] = NoHandle
          /\ gauge' = gauge + 1
          /\ pc' = [pc EXCEPT ![c] = "linking"]
          /\ todo' = [todo EXCEPT ![c] = new.hostnames]
       \/ /\ by_tenant[new.tenant] # NoHandle
          /\ gauge' = gauge
          /\ pc' = [pc EXCEPT ![c] = "unlinking"]
          /\ todo' = [todo EXCEPT ![c] = by_tenant[new.tenant].hostnames]
    /\ UNCHANGED <<by_hostname, draining, wire, present>>

\* Authentication leaves the handler with a handle for its own connection.
LEMMA AuthenticateEffect ==
    ASSUME NEW c \in Conns, NEW token \in Tokens, Authenticate(c, token)
    PROVE  \E new \in Handle : AuthenticatesAs(c, new)
<1> DEFINE new == [generation |-> 0, tenant |-> token.tenant,
                   hostnames |-> token.hostnames, conn |-> c]
<1>1. new \in Handle /\ new.conn = c
  BY Zenon, ConstantsAssumption DEF Handle
<1>2. AuthenticatesAs(c, new)
  BY Zenon, <1>1 DEF Authenticate, AuthenticatesAs, Goto
<1> QED
  BY Zenon, <1>1, <1>2

\* register gives the handler's handle the next generation and makes it the
\* tenant's current one.
LEMMA RegisterEffect ==
    ASSUME IInv, NEW c \in Conns, Register(c)
    PROVE  \E new \in Handle : RegistersAs(c, new)
<1> DEFINE new == [handle[c] EXCEPT !.generation = next_generation + 1]
<1>1. handle[c] \in Handle
  BY Zenon DEF IInv, TypeInv, HandleInv, Register
<1>2. /\ new \in Handle
      /\ new.conn = c
      /\ new.tenant = handle[c].tenant
      /\ new.hostnames = handle[c].hostnames
      /\ new.generation = next_generation + 1
  BY <1>1 DEF IInv, TypeInv, HandleInv, Register, Handle
<1>3. RegistersAs(c, new)
  BY Zenon, <1>1, <1>2 DEF Register, RegistersAs, Goto, GaugeAfter
<1> QED
  BY Zenon, <1>2, <1>3

---------------------------------------------------------------------------
(* Every step preserves every conjunct of the inductive invariant *)

\* Every step of a handler or of a Connector keeps the types.
LEMMA TypeInvStep == ASSUME IInv, NEW c \in Conns, Step(c) PROVE TypeInv'
<1> USE Constants DEF IInv, registry, locals, wire, Locked, Numbered, Current
<1>1. CASE Accept(c) \/ Refuse(c) \/ Reject(c) \/ RegisterConflict(c)
  BY <1>1, SMTT(40) DEF Accept, Goto, Refuse, Reject, RegisterConflict, Finish, TypeInv,
              HandleInv, Stages
<1>2. CASE \E token \in Tokens : Authenticate(c, token)
  <2>1. PICK new \in Handle : AuthenticatesAs(c, new)
    BY Zenon, <1>2, AuthenticateEffect
  <2> QED
    BY Zenon, <2>1 DEF AuthenticatesAs, TypeInv, HandleInv, Stages
<1>3. CASE Register(c)
  <2>1. PICK new \in Handle : RegistersAs(c, new)
    BY Zenon, <1>3, RegisterEffect
  <2> QED
    BY <2>1, SMTT(40) DEF RegistersAs, Conflict, TypeInv, HandleInv, Stages
<1>4. CASE UnlinkPrevious(c) \/ PreviousUnlinked(c) \/ Link(c) \/ Registered(c)
  BY <1>4, SMTT(40) DEF UnlinkPrevious, RemoveIf, PreviousUnlinked, Goto, Link,
              Registered, TypeInv, HandleInv, Stages
<1>5. CASE CloseReplaced(c) \/ RegisterPresence(c) \/ PeerCloses(c) \/ PeerGoesAway(c)
  BY <1>5, SMTT(40) DEF CloseReplaced, OpenAfterReplacing, Goto, RegisterPresence,
              PeerCloses, PeerGoesAway, TypeInv, HandleInv, Stages
<1>6. CASE \E away \in BOOLEAN : Disconnect(c, away)
  BY <1>6, SMTT(40) DEF Disconnect, SelectEnds, IsCurrent, Goto, TypeInv, HandleInv,
              Stages
<1>7. CASE \/ \E away \in BOOLEAN : DisconnectReplaced(c, away)
           \/ DeregisterPresence(c)
           \/ Drained(c)
  BY <1>7, SMTT(40) DEF DisconnectReplaced, SelectEnds, IsCurrent, Finish, Goto,
              DeregisterPresence, Drained, TypeInv, HandleInv, Stages
<1>8. CASE Unlink(c) \/ Removed(c)
  BY <1>8, SMTT(40) DEF Unlink, RemoveIf, Removed, Goto, TypeInv, HandleInv, Stages
<1> QED
  BY Zenon, <1>1, <1>2, <1>3, <1>4, <1>5, <1>6, <1>7, <1>8 DEF Step, HandlerStep

\* write_lock stays with the handler that is inside register or remove, and
\* nobody else enters either.
LEMMA LockInvStep == ASSUME IInv, NEW c \in Conns, Step(c) PROVE LockInv'
<1> USE Constants DEF IInv, registry, locals, wire, Locked, Numbered, Current
<1>1. CASE Accept(c) \/ Refuse(c) \/ Reject(c) \/ RegisterConflict(c)
  BY <1>1, SMTT(40) DEF Accept, Goto, Refuse, Reject, RegisterConflict, Finish, TypeInv,
              LockInv
<1>2. CASE \E token \in Tokens : Authenticate(c, token)
  <2>1. PICK new \in Handle : AuthenticatesAs(c, new)
    BY Zenon, <1>2, AuthenticateEffect
  <2> QED
    BY Zenon, <2>1 DEF AuthenticatesAs, TypeInv, LockInv
<1>3. CASE Register(c)
  <2>1. PICK new \in Handle : RegistersAs(c, new)
    BY Zenon, <1>3, RegisterEffect
  <2> QED
    BY <2>1, SMTT(40) DEF RegistersAs, Conflict, TypeInv, LockInv
<1>4. CASE UnlinkPrevious(c) \/ PreviousUnlinked(c) \/ Link(c) \/ Registered(c)
  BY <1>4, SMTT(40) DEF UnlinkPrevious, RemoveIf, PreviousUnlinked, Goto, Link,
              Registered, TypeInv, LockInv
<1>5. CASE CloseReplaced(c) \/ RegisterPresence(c) \/ PeerCloses(c) \/ PeerGoesAway(c)
  BY Zenon, <1>5 DEF CloseReplaced, OpenAfterReplacing, Goto, RegisterPresence,
              PeerCloses, PeerGoesAway, TypeInv, LockInv
<1>6. CASE \E away \in BOOLEAN : Disconnect(c, away)
  BY <1>6, SMTT(40) DEF Disconnect, SelectEnds, IsCurrent, Goto, TypeInv, LockInv
<1>7. CASE \/ \E away \in BOOLEAN : DisconnectReplaced(c, away)
           \/ DeregisterPresence(c)
           \/ Drained(c)
  BY <1>7, SMTT(40) DEF DisconnectReplaced, SelectEnds, IsCurrent, Finish, Goto,
              DeregisterPresence, Drained, TypeInv, LockInv
<1>8. CASE Unlink(c) \/ Removed(c)
  BY Zenon, <1>8 DEF Unlink, RemoveIf, Removed, Goto, TypeInv, LockInv
<1> QED
  BY Zenon, <1>1, <1>2, <1>3, <1>4, <1>5, <1>6, <1>7, <1>8 DEF Step, HandlerStep

\* A handler keeps its own handle, and a registration gets a generation that
\* no other handler has.
LEMMA HandleInvStep == ASSUME IInv, NEW c \in Conns, Step(c) PROVE HandleInv'
<1> USE Constants DEF IInv, registry, locals, wire, Locked, Numbered, Current
<1>1. CASE Accept(c) \/ Refuse(c) \/ Reject(c) \/ RegisterConflict(c)
  BY <1>1, SMTT(40) DEF Accept, Goto, Refuse, Reject, RegisterConflict, Finish, TypeInv,
              HandleInv, LockInv
<1>2. CASE \E token \in Tokens : Authenticate(c, token)
  <2>1. PICK new \in Handle : AuthenticatesAs(c, new)
    BY Zenon, <1>2, AuthenticateEffect
  <2> QED
    BY <2>1, SMTT(40) DEF AuthenticatesAs, TypeInv, HandleInv, LockInv
<1>3. CASE Register(c)
  <2>1. PICK new \in Handle : RegistersAs(c, new)
    BY Zenon, <1>3, RegisterEffect
  <2> QED
    BY <2>1, SMTT(40) DEF RegistersAs, Conflict, TypeInv, HandleInv, LockInv
<1>4. CASE UnlinkPrevious(c) \/ PreviousUnlinked(c) \/ Link(c) \/ Registered(c)
  BY <1>4, SMTT(40) DEF UnlinkPrevious, RemoveIf, PreviousUnlinked, Goto, Link,
              Registered, TypeInv, HandleInv, LockInv
<1>5. CASE CloseReplaced(c) \/ RegisterPresence(c) \/ PeerCloses(c) \/ PeerGoesAway(c)
  BY <1>5, SMTT(40) DEF CloseReplaced, OpenAfterReplacing, Goto, RegisterPresence,
              PeerCloses, PeerGoesAway, TypeInv, HandleInv, LockInv
<1>6. CASE \E away \in BOOLEAN : Disconnect(c, away)
  BY <1>6, SMTT(40) DEF Disconnect, SelectEnds, IsCurrent, Goto, TypeInv, HandleInv,
              LockInv
<1>7. CASE \/ \E away \in BOOLEAN : DisconnectReplaced(c, away)
           \/ DeregisterPresence(c)
           \/ Drained(c)
  BY <1>7, SMTT(40) DEF DisconnectReplaced, SelectEnds, IsCurrent, Finish, Goto,
              DeregisterPresence, Drained, TypeInv, HandleInv, LockInv
<1>8. CASE Unlink(c) \/ Removed(c)
  BY <1>8, SMTT(40) DEF Unlink, RemoveIf, Removed, Goto, TypeInv, HandleInv, LockInv
<1> QED
  BY Zenon, <1>1, <1>2, <1>3, <1>4, <1>5, <1>6, <1>7, <1>8 DEF Step, HandlerStep

\* The tenant index only ever holds the handle of a handler that registered
\* it and has not removed it.
LEMMA TenantInvStep == ASSUME IInv, NEW c \in Conns, Step(c) PROVE TenantInv'
<1> USE Constants DEF IInv, registry, locals, wire, Locked, Numbered, Current
<1>1. CASE Accept(c) \/ Refuse(c) \/ Reject(c) \/ RegisterConflict(c)
  BY <1>1, SMTT(40) DEF Accept, Goto, Refuse, Reject, RegisterConflict, Finish, TypeInv,
              HandleInv, TenantInv, LockInv
<1>2. CASE \E token \in Tokens : Authenticate(c, token)
  <2>1. PICK new \in Handle : AuthenticatesAs(c, new)
    BY Zenon, <1>2, AuthenticateEffect
  <2> QED
    BY <2>1, SMTT(40) DEF AuthenticatesAs, TypeInv, HandleInv, TenantInv, LockInv
<1>3. CASE Register(c)
  <2>1. PICK new \in Handle : RegistersAs(c, new)
    BY Zenon, <1>3, RegisterEffect
  <2> QED
    BY <2>1, SMTT(40) DEF RegistersAs, Conflict, TypeInv, HandleInv, TenantInv, LockInv
<1>4. CASE UnlinkPrevious(c) \/ PreviousUnlinked(c) \/ Link(c) \/ Registered(c)
  BY <1>4, SMTT(40) DEF UnlinkPrevious, RemoveIf, PreviousUnlinked, Goto, Link,
              Registered, TypeInv, HandleInv, TenantInv, LockInv
<1>5. CASE CloseReplaced(c) \/ RegisterPresence(c) \/ PeerCloses(c) \/ PeerGoesAway(c)
  BY <1>5, SMTT(40) DEF CloseReplaced, OpenAfterReplacing, Goto, RegisterPresence,
              PeerCloses, PeerGoesAway, TypeInv, HandleInv, TenantInv, LockInv
<1>6. CASE \E away \in BOOLEAN : Disconnect(c, away)
  BY <1>6, SMTT(40) DEF Disconnect, SelectEnds, IsCurrent, Goto, TypeInv, HandleInv,
              TenantInv, LockInv
<1>7. CASE \/ \E away \in BOOLEAN : DisconnectReplaced(c, away)
           \/ DeregisterPresence(c)
           \/ Drained(c)
  BY <1>7, SMTT(40) DEF DisconnectReplaced, SelectEnds, IsCurrent, Finish, Goto,
              DeregisterPresence, Drained, TypeInv, HandleInv, TenantInv,
              LockInv
<1>8. CASE Unlink(c) \/ Removed(c)
  BY <1>8, SMTT(40) DEF Unlink, RemoveIf, Removed, Goto, TypeInv, HandleInv, TenantInv,
              LockInv
<1> QED
  BY Zenon, <1>1, <1>2, <1>3, <1>4, <1>5, <1>6, <1>7, <1>8 DEF Step, HandlerStep

\* A hostname entry belongs to its tenant's current registration, or the
\* handler that holds the lock is about to drop it.
LEMMA HostnameInvStep == ASSUME IInv, NEW c \in Conns, Step(c) PROVE HostnameInv'
<1> USE Constants DEF IInv, registry, locals, wire, Locked, Numbered, Current
<1>1. CASE Accept(c) \/ Refuse(c) \/ Reject(c) \/ RegisterConflict(c)
  BY SMT, <1>1 DEF Accept, Goto, Refuse, Reject, RegisterConflict, Finish, TypeInv,
     HostnameInv, BeingUnlinked
<1>2. CASE \E token \in Tokens : Authenticate(c, token)
  <2>1. PICK new \in Handle : AuthenticatesAs(c, new)
    BY Zenon, <1>2, AuthenticateEffect
  <2> QED
    BY SMT, <2>1 DEF AuthenticatesAs, HostnameInv, BeingUnlinked
<1>3. CASE Register(c)
  <2>1. PICK new \in Handle : RegistersAs(c, new)
    BY Zenon, <1>3, RegisterEffect
  <2> QED
    BY SMT, <2>1 DEF RegistersAs, TypeInv, HostnameInv, BeingUnlinked
<1>4. CASE UnlinkPrevious(c) \/ PreviousUnlinked(c) \/ Link(c) \/ Registered(c)
  BY SMT, <1>4 DEF UnlinkPrevious, RemoveIf, PreviousUnlinked, Goto, Link, Registered,
     TypeInv, HandleInv, HostnameInv, BeingUnlinked, WriterInv
<1>5. CASE CloseReplaced(c) \/ RegisterPresence(c) \/ PeerCloses(c) \/ PeerGoesAway(c)
  BY SMT, <1>5 DEF CloseReplaced, Goto, RegisterPresence, PeerCloses, PeerGoesAway, TypeInv,
     HostnameInv, BeingUnlinked
<1>6. CASE \E away \in BOOLEAN : Disconnect(c, away)
  BY SMT, <1>6 DEF Disconnect, SelectEnds, IsCurrent, Goto, TypeInv, HandleInv, HostnameInv,
     BeingUnlinked
<1>7. CASE \/ \E away \in BOOLEAN : DisconnectReplaced(c, away)
           \/ DeregisterPresence(c)
           \/ Drained(c)
  BY SMT, <1>7 DEF DisconnectReplaced, SelectEnds, IsCurrent, Finish, Goto,
     DeregisterPresence, Drained, TypeInv, HostnameInv, LockInv, BeingUnlinked
<1>8. CASE Unlink(c) \/ Removed(c)
  BY SMT, <1>8 DEF Unlink, RemoveIf, Removed, Goto, TypeInv, TenantInv, HostnameInv,
     LockInv, BeingUnlinked
<1> QED
  BY Zenon, <1>1, <1>2, <1>3, <1>4, <1>5, <1>6, <1>7, <1>8 DEF Step, HandlerStep

\* A hostname of a current registration is routed to it, or the handler that
\* holds the lock is about to route it.
LEMMA RoutedInvStep == ASSUME IInv, NEW c \in Conns, Step(c) PROVE RoutedInv'
<1> USE Constants DEF IInv, registry, locals, wire, Locked, Numbered, Current
<1>1. CASE Accept(c) \/ Refuse(c) \/ Reject(c) \/ RegisterConflict(c)
  BY SMT, <1>1 DEF Accept, Goto, Refuse, Reject, RegisterConflict, Finish, TypeInv,
     RoutedInv
<1>2. CASE \E token \in Tokens : Authenticate(c, token)
  <2>1. PICK new \in Handle : AuthenticatesAs(c, new)
    BY Zenon, <1>2, AuthenticateEffect
  <2> QED
    BY SMT, <2>1 DEF AuthenticatesAs, RoutedInv
<1>3. CASE Register(c)
  <2>1. PICK new \in Handle : RegistersAs(c, new)
    BY Zenon, <1>3, RegisterEffect
  <2> QED
    BY SMT, <2>1 DEF RegistersAs, TypeInv, RoutedInv
<1>4. CASE UnlinkPrevious(c) \/ PreviousUnlinked(c) \/ Link(c) \/ Registered(c)
  <2>1. CASE UnlinkPrevious(c)
    BY SMT, <2>1 DEF UnlinkPrevious, RemoveIf, TypeInv, HandleInv, TenantInv, RoutedInv, WriterInv,
       LockInv
  <2>2. CASE PreviousUnlinked(c)
    BY SMT, <2>2 DEF PreviousUnlinked, Goto, TypeInv, HandleInv, TenantInv, RoutedInv, WriterInv
  <2>3. CASE Link(c)
    BY SMT, <2>3 DEF Link, TypeInv, HandleInv, TenantInv, RoutedInv, WriterInv
  <2>4. CASE Registered(c)
    BY SMT, <2>4 DEF Registered, Goto, TypeInv, TenantInv, RoutedInv
  <2> QED
    BY Zenon, <1>4, <2>1, <2>2, <2>3, <2>4
<1>5. CASE CloseReplaced(c) \/ RegisterPresence(c) \/ PeerCloses(c) \/ PeerGoesAway(c)
  BY SMT, <1>5 DEF CloseReplaced, Goto, RegisterPresence, PeerCloses, PeerGoesAway, TypeInv,
     RoutedInv
<1>6. CASE \E away \in BOOLEAN : Disconnect(c, away)
  BY SMT, <1>6 DEF Disconnect, SelectEnds, Goto, RoutedInv
<1>7. CASE \/ \E away \in BOOLEAN : DisconnectReplaced(c, away)
           \/ DeregisterPresence(c)
           \/ Drained(c)
  BY SMT, <1>7 DEF DisconnectReplaced, SelectEnds, Finish, Goto, DeregisterPresence,
     Drained, TypeInv, RoutedInv
<1>8. CASE Unlink(c) \/ Removed(c)
  BY SMT, <1>8 DEF Unlink, RemoveIf, Removed, Goto, TypeInv, HandleInv, TenantInv, RoutedInv
<1> QED
  BY Zenon, <1>1, <1>2, <1>3, <1>4, <1>5, <1>6, <1>7, <1>8 DEF Step, HandlerStep

\* While a handler is inside register or remove, nobody else changes what it
\* has found there.
LEMMA WriterInvStep == ASSUME IInv, NEW c \in Conns, Step(c) PROVE WriterInv'
<1> USE Constants DEF IInv, registry, locals, wire, Locked, Numbered, Current
<1>1. CASE Accept(c) \/ Refuse(c) \/ Reject(c) \/ RegisterConflict(c)
  <2>1. CASE Accept(c) \/ Refuse(c)
    BY SMT, <2>1 DEF Accept, Goto, Refuse, TypeInv, WriterInv
  <2>2. CASE Reject(c) \/ RegisterConflict(c)
    BY SMT, <2>2 DEF Reject, RegisterConflict, Finish, Goto, TypeInv, WriterInv
  <2> QED
    BY Zenon, <1>1, <2>1, <2>2
<1>2. CASE \E token \in Tokens : Authenticate(c, token)
  <2>1. PICK new \in Handle : AuthenticatesAs(c, new)
    BY Zenon, <1>2, AuthenticateEffect
  <2> QED
    BY SMT, <2>1 DEF AuthenticatesAs, WriterInv
<1>3. CASE Register(c)
  <2>1. PICK new \in Handle : RegistersAs(c, new)
    BY Zenon, <1>3, RegisterEffect
  <2>2. \A d \in Conns : pc'[d] \in Locked => d = c
    BY SMT, <2>1 DEF RegistersAs, TypeInv, LockInv
  <2>3. /\ handle'[c] = new
        /\ by_tenant'[new.tenant] = new
        /\ pc'[c] # "removing"
        /\ pc'[c] = "linking" => todo'[c] = new.hostnames
    BY Zenon, <2>1 DEF RegistersAs, TypeInv
  <2>4. \A h \in new.hostnames :
           by_hostname'[h] # NoHandle => by_hostname'[h].tenant = new.tenant
    BY Zenon, <2>1 DEF RegistersAs, Conflict
  <2>5. pc'[c] = "unlinking" =>
           /\ replaced'[c] # NoHandle
           /\ replaced'[c].tenant = new.tenant
           /\ pc'[replaced'[c].conn] \in Current
           /\ handle'[replaced'[c].conn] = replaced'[c]
    BY SMT, <2>1 DEF RegistersAs, TypeInv, TenantInv
  <2> HIDE DEF IInv
  <2> QED
    BY Zenon, <2>2, <2>3, <2>4, <2>5 DEF WriterInv
<1>4. CASE UnlinkPrevious(c) \/ PreviousUnlinked(c) \/ Link(c) \/ Registered(c)
  BY SMT, <1>4 DEF UnlinkPrevious, RemoveIf, PreviousUnlinked, Goto, Link, Registered,
     TypeInv, HandleInv, WriterInv, LockInv
<1>5. CASE CloseReplaced(c) \/ RegisterPresence(c) \/ PeerCloses(c) \/ PeerGoesAway(c)
  BY SMT, <1>5 DEF CloseReplaced, Goto, RegisterPresence, PeerCloses, PeerGoesAway, TypeInv,
     WriterInv
<1>6. CASE \E away \in BOOLEAN : Disconnect(c, away)
  BY SMT, <1>6 DEF Disconnect, SelectEnds, IsCurrent, Goto, TypeInv, HandleInv, WriterInv
<1>7. CASE \/ \E away \in BOOLEAN : DisconnectReplaced(c, away)
           \/ DeregisterPresence(c)
           \/ Drained(c)
  BY SMT, <1>7 DEF DisconnectReplaced, SelectEnds, Finish, Goto, DeregisterPresence,
     Drained, TypeInv, WriterInv, LockInv
<1>8. CASE Unlink(c) \/ Removed(c)
  BY SMT, <1>8 DEF Unlink, Removed, Goto, TypeInv, WriterInv, LockInv
<1> QED
  BY Zenon, <1>1, <1>2, <1>3, <1>4, <1>5, <1>6, <1>7, <1>8 DEF Step, HandlerStep

\* A registered handler with an open connection is current, or the handler
\* that replaced it has still to close the connection.
LEMMA ReplacedInvStep == ASSUME IInv, NEW c \in Conns, Step(c) PROVE ReplacedInv'
<1> USE Constants DEF IInv, registry, locals, wire, Locked, Numbered, Current
<1>1. CASE Accept(c) \/ Refuse(c) \/ Reject(c) \/ RegisterConflict(c)
  BY SMT, <1>1 DEF Accept, Goto, Refuse, Reject, RegisterConflict, Finish, TypeInv,
     ReplacedInv
<1>2. CASE \E token \in Tokens : Authenticate(c, token)
  <2>1. PICK new \in Handle : AuthenticatesAs(c, new)
    BY Zenon, <1>2, AuthenticateEffect
  <2> QED
    BY SMT, <2>1 DEF AuthenticatesAs, ReplacedInv
<1>3. CASE Register(c)
  <2>1. PICK new \in Handle : RegistersAs(c, new)
    BY Zenon, <1>3, RegisterEffect
  <2> QED
    BY SMT, <2>1 DEF RegistersAs, TypeInv, HandleInv, ReplacedInv
<1>4. CASE UnlinkPrevious(c) \/ PreviousUnlinked(c) \/ Link(c) \/ Registered(c)
  BY SMT, <1>4 DEF UnlinkPrevious, PreviousUnlinked, Goto, Link, Registered, TypeInv,
     ReplacedInv
<1>5. CASE CloseReplaced(c) \/ RegisterPresence(c) \/ PeerCloses(c) \/ PeerGoesAway(c)
  BY SMT, <1>5 DEF CloseReplaced, OpenAfterReplacing, Goto, RegisterPresence, PeerCloses,
     PeerGoesAway, TypeInv, HandleInv, ReplacedInv
<1>6. CASE \E away \in BOOLEAN : Disconnect(c, away)
  BY SMT, <1>6 DEF Disconnect, SelectEnds, IsCurrent, Goto, TypeInv, HandleInv, ReplacedInv
<1>7. CASE \/ \E away \in BOOLEAN : DisconnectReplaced(c, away)
           \/ DeregisterPresence(c)
           \/ Drained(c)
  BY SMT, <1>7 DEF DisconnectReplaced, SelectEnds, Finish, Goto, DeregisterPresence,
     Drained, TypeInv, ReplacedInv
<1>8. CASE Unlink(c) \/ Removed(c)
  BY SMT, <1>8 DEF Unlink, Removed, Goto, TypeInv, ReplacedInv
<1> QED
  BY Zenon, <1>1, <1>2, <1>3, <1>4, <1>5, <1>6, <1>7, <1>8 DEF Step, HandlerStep

INSTANCE FiniteSetTheorems

\* The gauge changes exactly when a tenant gets its first registration and
\* when its last one has been removed.
LEMMA GaugeInvStep == ASSUME IInv, NEW c \in Conns, Step(c) PROVE GaugeInv'
<1> DEFINE Registered_ == {t \in Tenants : by_tenant[t] # NoHandle}
<1> USE Constants DEF IInv, registry, locals, wire, Locked
<1>1. IsFiniteSet(Registered_) /\ Cardinality(Registered_) \in Nat
  BY Zenon, ConstantsAssumption, FS_Subset, FS_CardinalityType
<1>2. CASE Register(c)
  <2>1. PICK new \in Handle : RegistersAs(c, new)
    BY Zenon, <1>2, RegisterEffect
  <2>2. \A d \in Conns : pc[d] # "removing" /\ pc'[d] # "removing"
    BY <2>1, SMTT(40) DEF RegistersAs, TypeInv, LockInv
  <2>3. Registered_' = Registered_ \cup {new.tenant}
    BY <2>1, SMTT(40) DEF RegistersAs, TypeInv
  <2>4. CASE by_tenant[new.tenant] = NoHandle
    <3>1. Cardinality(Registered_') = Cardinality(Registered_) + 1
      BY Zenon, <1>1, <2>3, <2>4, FS_AddElement
    <3>2. gauge' = gauge + 1
      BY Zenon, <2>1, <2>4 DEF RegistersAs
    <3> QED
      BY <1>1, <2>2, <3>1, <3>2 DEF GaugeInv
  <2>5. CASE by_tenant[new.tenant] # NoHandle
    <3>1. Registered_' = Registered_
      BY Zenon, <2>1, <2>3, <2>5 DEF RegistersAs
    <3>2. gauge' = gauge
      BY Zenon, <2>1, <2>5 DEF RegistersAs
    <3> QED
      BY Zenon, <1>1, <2>2, <3>1, <3>2 DEF GaugeInv
  <2> QED
    BY Zenon, <2>4, <2>5
<1>3. CASE \E away \in BOOLEAN : Disconnect(c, away)
  <2>1. handle[c].tenant \in Registered_
    BY <1>3, SMTT(40) DEF Disconnect, SelectEnds, IsCurrent, TypeInv, HandleInv, Numbered
  <2>2. Registered_' = Registered_ \ {handle[c].tenant}
    BY Zenon, <1>3, <2>1 DEF Disconnect, TypeInv
  <2>3. Cardinality(Registered_') = Cardinality(Registered_) - 1
    <3> HIDE DEF Registered_
    <3>1. Cardinality(Registered_ \ {handle[c].tenant}) = Cardinality(Registered_) - 1
      BY Zenon, <1>1, <2>1, FS_RemoveElement
    <3> QED
      BY Zenon, <2>2, <3>1
  <2>4. pc'[c] = "removing" /\ \A d \in Conns : pc[d] # "removing"
    BY <1>3, SMTT(40) DEF Disconnect, SelectEnds, Goto, TypeInv, LockInv
  <2>5. gauge' = gauge
    BY Zenon, <1>3 DEF Disconnect
  <2> QED
    BY <1>1, <2>3, <2>4, <2>5 DEF GaugeInv
<1>4. CASE Removed(c)
  <2>1. pc[c] = "removing" /\ \A d \in Conns : pc'[d] # "removing"
    BY Zenon, <1>4 DEF Removed, Goto, TypeInv, LockInv
  <2>2. gauge' = gauge - 1 /\ Registered_' = Registered_
    BY Zenon, <1>4 DEF Removed
  <2>3. Cardinality(Registered_') = Cardinality(Registered_)
    BY Zenon, <2>2
  <2>4. gauge = Cardinality(Registered_) + 1
    BY Zenon, <2>1 DEF GaugeInv
  <2>5. gauge' = Cardinality(Registered_')
    BY <1>1, <2>2, <2>3, <2>4
  <2> QED
    BY <1>1, <2>1, <2>3, <2>5 DEF GaugeInv
<1>5. CASE ~Register(c) /\ ~(\E away \in BOOLEAN : Disconnect(c, away)) /\ ~Removed(c)
  <2>1. Registered_' = Registered_ /\ gauge' = gauge
    BY <1>5, ZenonT(40) DEF Step, HandlerStep, Accept, Refuse, Authenticate, Reject,
       RegisterConflict, UnlinkPrevious, PreviousUnlinked, Link, Registered,
       CloseReplaced, RegisterPresence, DisconnectReplaced, Unlink,
       DeregisterPresence, Drained, PeerCloses, PeerGoesAway
  <2>2. \A d \in Conns : pc'[d] = "removing" <=> pc[d] = "removing"
    <3> DEFINE Moves(stages) ==
            pc[c] # "removing" /\ \E s \in stages : pc' = [pc EXCEPT ![c] = s]
    <3>1. pc \in [Conns -> Stages]
      BY Zenon DEF TypeInv
    <3> HIDE DEF IInv
    <3>2. CASE UNCHANGED pc
      BY Zenon, <3>2
    <3>3. CASE Accept(c) \/ Refuse(c) \/ Reject(c) \/ \E token \in Tokens : Authenticate(c, token)
      <4>1. Moves({"auth", "verified", "done"})
        BY Zenon, <3>3 DEF Accept, Refuse, Reject, Authenticate, Goto
      <4> QED
        BY Zenon, <3>1, <4>1
    <3>4. CASE PreviousUnlinked(c) \/ Registered(c) \/ CloseReplaced(c) \/ RegisterPresence(c)
      <4>1. Moves({"linking", "replacing", "presence", "serving"})
        BY Zenon, <3>4 DEF PreviousUnlinked, Registered, CloseReplaced, RegisterPresence, Goto
      <4> QED
        BY Zenon, <3>1, <4>1
    <3>5. CASE \/ RegisterConflict(c) \/ DeregisterPresence(c) \/ Drained(c)
               \/ \E away \in BOOLEAN : DisconnectReplaced(c, away)
      <4>1. Moves({"draining", "done"})
        BY Zenon, <3>5 DEF RegisterConflict, DeregisterPresence, Drained,
           DisconnectReplaced, SelectEnds, Finish, Goto
      <4> QED
        BY Zenon, <3>1, <4>1
    <3> HIDE DEF Moves
    <3> QED
      BY Zenon, <1>5, <3>2, <3>3, <3>4, <3>5 DEF Step, HandlerStep, UnlinkPrevious, Link, Unlink,
         PeerCloses, PeerGoesAway
  <2>3. (\E d \in Conns : pc'[d] = "removing") <=> (\E d \in Conns : pc[d] = "removing")
    BY Zenon, <2>2
  <2>4. Cardinality(Registered_') = Cardinality(Registered_)
    BY Zenon, <2>1
  <2> QED
    BY Zenon, <1>1, <2>1, <2>3, <2>4 DEF GaugeInv
<1> QED
  BY Zenon, <1>2, <1>3, <1>4, <1>5

---------------------------------------------------------------------------
(* The theorems *)

\* A fresh registry satisfies the inductive invariant.
LEMMA InitIInv == Init => IInv
<1> SUFFICES ASSUME Init PROVE IInv
  BY Zenon
<1> USE Constants DEF Init
<1>1. TypeInv
  BY DEF TypeInv, Stages
<1>2. LockInv /\ HandleInv /\ TenantInv /\ HostnameInv /\ RoutedInv /\ WriterInv /\ ReplacedInv
  BY Zenon DEF LockInv, HandleInv, TenantInv, HostnameInv, RoutedInv, WriterInv, ReplacedInv,
     Locked, Numbered, Current
<1>3. GaugeInv
  <2>1. {t \in Tenants : by_tenant[t] # NoHandle} = {}
    BY Zenon
  <2>2. Cardinality({t \in Tenants : by_tenant[t] # NoHandle}) = 0
    BY Zenon, <2>1, FS_EmptySet
  <2> QED
    BY <2>2 DEF GaugeInv
<1> QED
  BY Zenon, <1>1, <1>2, <1>3 DEF IInv

\* Every step of the Edge preserves the inductive invariant.
LEMMA NextIInv == IInv /\ [Next]_vars => IInv'
<1> SUFFICES ASSUME IInv, [Next]_vars PROVE IInv'
  BY Zenon
<1>1. ASSUME NEW c \in Conns, Step(c) PROVE IInv'
  BY Zenon, <1>1, TypeInvStep, LockInvStep, HandleInvStep, TenantInvStep, HostnameInvStep,
     RoutedInvStep, WriterInvStep, ReplacedInvStep, GaugeInvStep DEF IInv
<1>2. CASE UNCHANGED vars
  <2> USE DEF vars, registry, locals, wire, IInv
  <2>1. (TypeInv /\ LockInv /\ HandleInv /\ TenantInv /\ ReplacedInv)'
    BY Zenon, <1>2 DEF TypeInv, LockInv, HandleInv, TenantInv, ReplacedInv
  <2>2. HostnameInv'
    BY Zenon, <1>2 DEF HostnameInv, BeingUnlinked
  <2>3. RoutedInv'
    BY Zenon, <1>2 DEF RoutedInv, BeingUnlinked
  <2>4. WriterInv'
    BY Zenon, <1>2 DEF WriterInv
  <2>5. GaugeInv'
    BY Zenon, <1>2 DEF GaugeInv
  <2> QED
    BY Zenon, <2>1, <2>2, <2>3, <2>4, <2>5
<1> QED
  BY Zenon, <1>1, <1>2 DEF Next

\* The inductive invariant holds throughout, whatever the Connectors do.
THEOREM Inductive == Spec => []IInv
<1> QED
  BY InitIInv, NextIInv, PTL DEF Spec

\* The state keeps its types and the gauge of active connections never drops
\* below zero.
THEOREM TypeCorrect == Spec => []TypeOK
<1>1. IInv => TypeOK
  <2> SUFFICES ASSUME IInv PROVE TypeOK
    BY Zenon
  <2>1. Cardinality({t \in Tenants : by_tenant[t] # NoHandle}) \in Nat
    BY Zenon, ConstantsAssumption, FS_Subset, FS_CardinalityType
  <2>2. gauge \in Nat
    BY <2>1, SMTT(40) DEF IInv, GaugeInv
  <2> QED
    BY Zenon, <2>2 DEF IInv, TypeInv, TypeOK
<1> QED
  BY <1>1, Inductive, PTL

\* Whenever no register or remove is in progress, the hostname index and the
\* tenant index describe the same registrations.
THEOREM Agreement == Spec => []IndexesAgree
<1>1. IInv => IndexesAgree
  <2> SUFFICES ASSUME IInv, write_lock = NoConn PROVE EntriesAreCurrent /\ CurrentIsRouted
    BY Zenon DEF IndexesAgree
  <2>1. \A c \in Conns : pc[c] \notin Locked
    BY Zenon, Constants DEF IInv, LockInv
  <2>2. EntriesAreCurrent
    BY Zenon, <2>1, Constants DEF IInv, HostnameInv, BeingUnlinked, Locked, EntriesAreCurrent
  <2>3. CurrentIsRouted
    BY Zenon, <2>1, Constants DEF IInv, TypeInv, RoutedInv, Locked, CurrentIsRouted
  <2> QED
    BY Zenon, <2>2, <2>3
<1> QED
  BY <1>1, Inductive, PTL

\* No lookup and no snapshot returns a handle whose handler has removed it.
THEOREM NothingDangles == Spec => []NoDanglingHandle
<1>1. IInv => NoDanglingHandle
  BY Zenon, Constants DEF IInv, TypeInv, TenantInv, HostnameInv, Numbered, Current, NoDanglingHandle
<1> QED
  BY <1>1, Inductive, PTL

\* A handler that waits on an open connection is current or about to be closed.
THEOREM ServingCurrent == Spec => []ServingIsCurrent
<1>1. IInv => ServingIsCurrent
  BY Zenon DEF IInv, ReplacedInv, Numbered, Current, ServingIsCurrent
<1> QED
  BY <1>1, Inductive, PTL

\* Whenever no register or remove is in progress, the gauge is the number of
\* registered tenants.
THEOREM GaugeIsExact == Spec => []GaugeCountsTenants
<1>1. IInv => GaugeCountsTenants
  <2> SUFFICES ASSUME IInv, write_lock = NoConn
               PROVE  gauge = Cardinality({t \in Tenants : by_tenant[t] # NoHandle})
    BY Zenon DEF GaugeCountsTenants
  <2>1. ~ \E c \in Conns : pc[c] = "removing"
    BY Zenon, Constants DEF IInv, LockInv, Locked
  <2>2. Cardinality({t \in Tenants : by_tenant[t] # NoHandle}) \in Nat
    BY Zenon, ConstantsAssumption, FS_Subset, FS_CardinalityType
  <2> QED
    BY <2>1, <2>2 DEF IInv, GaugeInv
<1> QED
  BY <1>1, Inductive, PTL

\* No step hands a hostname that one tenant serves to another tenant.
THEOREM NotTaken == Spec => HostnameNotTaken
<1> DEFINE Kept == \A h \in Hostnames :
                      by_hostname[h] # NoHandle /\ by_hostname'[h] # NoHandle
                          => by_hostname'[h].tenant = by_hostname[h].tenant
<1>1. IInv /\ [Next]_vars => [Kept]_vars
  <2> SUFFICES ASSUME IInv, NEW c \in Conns, Step(c) PROVE Kept
    BY Zenon DEF Next
  <2>1. CASE Link(c)
    BY <2>1, Constants, SMTT(40) DEF Link, IInv, TypeInv, WriterInv
  <2>2. CASE UnlinkPrevious(c) \/ Unlink(c)
    BY Zenon, <2>2 DEF UnlinkPrevious, Unlink, RemoveIf, IInv, TypeInv
  <2>3. CASE ~Link(c) /\ ~UnlinkPrevious(c) /\ ~Unlink(c)
    <3>1. by_hostname' = by_hostname
      BY Zenon, <2>3 DEF registry, Step, HandlerStep, Accept, Refuse, Authenticate, Reject,
         RegisterConflict, Register, PreviousUnlinked, Registered, CloseReplaced,
         RegisterPresence, Disconnect, DisconnectReplaced, Removed,
         DeregisterPresence, Drained, PeerCloses, PeerGoesAway
    <3> QED
      BY Zenon, <3>1
  <2> QED
    BY Zenon, <2>1, <2>2, <2>3
<1> QED
  BY <1>1, Inductive, PTL DEF Spec, HostnameNotTaken

\* A registration is superseded only by a newer generation, and removed only
\* when its own connection ended or announced its end.
THEOREM StaleHarmless == Spec => StaleDisconnectIsHarmless
<1> DEFINE Kept == \A t \in Tenants :
                      by_tenant[t] # NoHandle /\ by_tenant'[t] # by_tenant[t] =>
                          IF by_tenant'[t] = NoHandle
                            THEN by_tenant[t].conn \notin open \/ by_tenant[t].conn \in going_away
                            ELSE by_tenant'[t].generation > by_tenant[t].generation
<1>1. IInv /\ [Next]_vars => [Kept]_vars
  <2> SUFFICES ASSUME IInv, NEW c \in Conns, Step(c) PROVE Kept
    BY Zenon DEF Next
  <2>1. CASE Register(c)
    <3>1. PICK new \in Handle : RegistersAs(c, new)
      BY Zenon, <2>1, RegisterEffect
    <3> QED
      BY <3>1, Constants, SMTT(40) DEF RegistersAs, IInv, TypeInv, TenantInv, HandleInv,
         Numbered, Current
  <2>2. CASE \E away \in BOOLEAN : Disconnect(c, away)
    <3>1. PICK away \in BOOLEAN : Disconnect(c, away)
      BY Zenon, <2>2
    <3>2. pc[c] = "serving" /\ (c \notin open \/ c \in going_away)
      BY Zenon, <3>1 DEF Disconnect, SelectEnds
    <3>3. handle[c] # NoHandle /\ handle[c] \in Handle /\ handle[c].tenant \in Tenants
      BY <3>2, Constants DEF IInv, TypeInv, HandleInv, Numbered, Handle
    <3>4. /\ by_tenant[handle[c].tenant] # NoHandle
          /\ by_tenant[handle[c].tenant].generation = handle[c].generation
      BY Zenon, <3>1 DEF Disconnect, IsCurrent
    <3>5. by_tenant[handle[c].tenant].conn = c
      BY <3>2, <3>3, <3>4, SMTT(40) DEF IInv, TypeInv, TenantInv, HandleInv, Numbered,
         Current, Handle
    <3>6. /\ by_tenant'[handle[c].tenant] = NoHandle
          /\ \A t \in Tenants \ {handle[c].tenant} : by_tenant'[t] = by_tenant[t]
      BY Zenon, <3>1, <3>3 DEF Disconnect, IInv, TypeInv
    <3> QED
      BY Zenon, <3>2, <3>5, <3>6
  <2>3. CASE ~Register(c) /\ ~(\E away \in BOOLEAN : Disconnect(c, away))
    <3>1. by_tenant' = by_tenant
      BY Zenon, <2>3 DEF registry, Step, HandlerStep, Accept, Refuse, Authenticate, Reject,
         RegisterConflict, UnlinkPrevious, PreviousUnlinked, Link, Registered,
         CloseReplaced, RegisterPresence, DisconnectReplaced, Unlink, Removed,
         DeregisterPresence, Drained, PeerCloses, PeerGoesAway
    <3> QED
      BY Zenon, <3>1
  <2> QED
    BY Zenon, <2>1, <2>2, <2>3
<1> QED
  BY <1>1, Inductive, PTL DEF Spec, StaleDisconnectIsHarmless
=============================================================================
