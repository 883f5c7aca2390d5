------------------------- MODULE ConnectorRegistry -------------------------
(***************************************************************************)
(* The Edge's registry of Connector connections together with the handler  *)
(* task that the Edge runs for every connection (quic_server.rs).          *)
(*                                                                         *)
(* The registry holds two indexes.  Writers are serialized by write_lock;  *)
(* readers take no lock, so every single index update is a step of its own *)
(* here and a reader may run between any two of them.                      *)
(*                                                                         *)
(* What a handler does with the other components is reduced to the points  *)
(* where it waits for them: hostname ownership is the module               *)
(* HostnameOwnership, route advertisements are the module RouteAdvertiser. *)
(***************************************************************************)
EXTENDS Integers, FiniteSets

CONSTANTS
    Tenants,          \* tenant ids (the sub claim of a token)
    Hostnames,        \* normalized hostnames
    Tokens,           \* the verified claims a Connector may present
    NumConns,         \* how many connections arrive; each is handled once
    MaxConnections,   \* permits of the Edge's connection semaphore
    PresenceMayFail,  \* may a presence write to Valkey get lost?
    NoHandle,         \* an absent index entry
    NoConn            \* nobody holds the write lock

\* Connections are numbered in the order in which they arrive.
Conns == 1..NumConns

Handle == [generation : Nat, tenant : Tenants,
           hostnames : SUBSET Hostnames, conn : Conns]

ASSUME ConstantsAssumption ==
    /\ NoHandle \notin Handle
    /\ IsFiniteSet(Tenants)
    /\ Tokens \subseteq [tenant : Tenants, hostnames : SUBSET Hostnames]
    /\ NumConns \in Nat
    /\ NoConn \notin Conns
    /\ MaxConnections \in Nat \ {0}
    /\ PresenceMayFail \in BOOLEAN

VARIABLES
    by_hostname,      \* hostname -> handle: what a lookup returns
    by_tenant,        \* tenant -> handle: what a snapshot returns
    next_generation,
    write_lock,       \* the connection whose handler holds the lock
    gauge,            \* the active_quic_connections metric
    pc,               \* where the handler of a connection is
    handle,           \* the handle a handler registered
    replaced,         \* the handle its registration replaced
    todo,             \* hostnames its current loop has still to visit
    open,             \* the connections that are still open
    going_away,       \* the connections whose Connector announced its shutdown
    draining,         \* the handlers that left their select by that announcement
    present           \* tenants Valkey lists as connected to this Edge

registry == <<by_hostname, by_tenant, next_generation, gauge>>
locals == <<handle, replaced, todo, draining>>
wire == <<open, going_away>>
vars == <<registry, write_lock, pc, locals, wire, present>>

Stages == {"idle", "auth", "verified", "unlinking", "linking", "replacing",
           "presence", "serving", "removing", "withdrawing", "draining", "done"}

Running == {c \in Conns : pc[c] \notin {"idle", "done"}}

Init ==
    /\ by_hostname = [h \in Hostnames |-> NoHandle]
    /\ by_tenant = [t \in Tenants |-> NoHandle]
    /\ next_generation = 0
    /\ write_lock = NoConn
    /\ gauge = 0
    /\ pc = [c \in Conns |-> "idle"]
    /\ handle = [c \in Conns |-> NoHandle]
    /\ replaced = [c \in Conns |-> NoHandle]
    /\ todo = [c \in Conns |-> {}]
    /\ open = Conns
    /\ going_away = {}
    /\ draining = {}
    /\ present = {}

Goto(c, stage) == pc' = [pc EXCEPT ![c] = stage]

\* The handler goes on to the given stage; its locals die with it.
Finish(c, stage) ==
    /\ Goto(c, stage)
    /\ handle' = IF stage = "done" THEN [handle EXCEPT ![c] = NoHandle] ELSE handle

---------------------------------------------------------------------------
(* Accepting and authenticating a connection *)

\* accept_loop: the permit is held until the handler has returned.
Accept(c) ==
    /\ pc[c] = "idle"
    /\ \A d \in Conns : d < c => pc[d] # "idle"
    /\ Cardinality(Running) < MaxConnections
    /\ Goto(c, "auth")
    /\ UNCHANGED <<registry, write_lock, locals, wire, present>>

Refuse(c) ==
    /\ pc[c] = "idle"
    /\ \A d \in Conns : d < c => pc[d] # "idle"
    /\ Cardinality(Running) >= MaxConnections
    /\ Goto(c, "done")
    /\ open' = open \ {c}
    /\ UNCHANGED <<registry, write_lock, locals, going_away, present>>

\* The token is valid and Valkey granted (or had confirmed) its hostnames.
Authenticate(c, token) ==
    /\ pc[c] = "auth"
    /\ Goto(c, "verified")
    /\ handle' = [handle EXCEPT ![c] =
                    [generation |-> 0, tenant |-> token.tenant,
                     hostnames |-> token.hostnames, conn |-> c]]
    /\ UNCHANGED <<registry, write_lock, replaced, todo, draining, wire, present>>

\* No request in time, an invalid token or hostname, or no ownership.
Reject(c) ==
    /\ pc[c] = "auth"
    /\ Goto(c, "done")
    /\ open' = open \ {c}
    /\ UNCHANGED <<registry, write_lock, locals, going_away, present>>

---------------------------------------------------------------------------
(* register: under write_lock, one step per index update *)

Conflict(c) ==
    \E h \in handle[c].hostnames :
        /\ by_hostname[h] # NoHandle
        /\ by_hostname[h].tenant # handle[c].tenant

\* A hostname is served by another tenant: nothing is changed.
RegisterConflict(c) ==
    /\ pc[c] = "verified"
    /\ write_lock = NoConn
    /\ Conflict(c)
    /\ Finish(c, "done")
    /\ open' = open \ {c}
    /\ UNCHANGED <<registry, write_lock, replaced, todo, draining, going_away, present>>

GaugeAfter(previous) == IF previous = NoHandle THEN gauge + 1 ELSE gauge

\* Takes the lock, checks, and swaps the tenant's entry for the new handle.
Register(c) ==
    LET new == [handle[c] EXCEPT !.generation = next_generation + 1]
        previous == by_tenant[handle[c].tenant]
    IN  /\ pc[c] = "verified"
        /\ write_lock = NoConn
        /\ ~Conflict(c)
        /\ write_lock' = c
        /\ next_generation' = next_generation + 1
        /\ handle' = [handle EXCEPT ![c] = new]
        /\ by_tenant' = [by_tenant EXCEPT ![new.tenant] = new]
        /\ replaced' = [replaced EXCEPT ![c] = previous]
        /\ gauge' = GaugeAfter(previous)
        /\ Goto(c, IF previous # NoHandle THEN "unlinking" ELSE "linking")
        /\ todo' = [todo EXCEPT ![c] =
                      IF previous # NoHandle THEN previous.hostnames ELSE new.hostnames]
        /\ UNCHANGED <<by_hostname, draining, wire, present>>

\* DashMap::remove_if with the closure |_, h| h.generation == generation.
RemoveIf(h, generation) ==
    by_hostname' = IF by_hostname[h] # NoHandle /\ by_hostname[h].generation = generation
                     THEN [by_hostname EXCEPT ![h] = NoHandle]
                     ELSE by_hostname

\* Drops one hostname of the replaced registration.
UnlinkPrevious(c) ==
    /\ pc[c] = "unlinking"
    /\ \E h \in todo[c] :
        /\ RemoveIf(h, replaced[c].generation)
        /\ todo' = [todo EXCEPT ![c] = @ \ {h}]
    /\ UNCHANGED <<by_tenant, next_generation, gauge, write_lock, pc, handle,
                   replaced, draining, wire, present>>

PreviousUnlinked(c) ==
    /\ pc[c] = "unlinking"
    /\ todo[c] = {}
    /\ Goto(c, "linking")
    /\ todo' = [todo EXCEPT ![c] = handle[c].hostnames]
    /\ UNCHANGED <<registry, write_lock, handle, replaced, draining, wire, present>>

\* Publishes one hostname of the new registration.
Link(c) ==
    /\ pc[c] = "linking"
    /\ \E h \in todo[c] :
        /\ by_hostname' = [by_hostname EXCEPT ![h] = handle[c]]
        /\ todo' = [todo EXCEPT ![c] = @ \ {h}]
    /\ UNCHANGED <<by_tenant, next_generation, gauge, write_lock, pc, handle,
                   replaced, draining, wire, present>>

\* The guard is dropped and register returns.
Registered(c) ==
    /\ pc[c] = "linking"
    /\ todo[c] = {}
    /\ write_lock' = NoConn
    /\ Goto(c, "replacing")
    /\ UNCHANGED <<registry, locals, wire, present>>

---------------------------------------------------------------------------
(* The rest of handle_connector *)

\* Mutant: the replaced connection is left open.
ReplacedLeftOpen(c) == open

OpenAfterReplacing(c) ==
    IF replaced[c] # NoHandle THEN open \ {replaced[c].conn} ELSE open

\* Closes the connection whose registration was replaced.
CloseReplaced(c) ==
    /\ pc[c] = "replacing"
    /\ open' = OpenAfterReplacing(c)
    /\ replaced' = [replaced EXCEPT ![c] = NoHandle]
    /\ Goto(c, "presence")
    /\ UNCHANGED <<registry, write_lock, handle, todo, draining, going_away, present>>

\* register_presence (a failure is logged only), the AuthResponse and the
\* first advertisement; then the handler waits for the connection to end.
RegisterPresence(c) ==
    /\ pc[c] = "presence"
    /\ \/ present' = present \cup {handle[c].tenant}
       \/ PresenceMayFail /\ UNCHANGED present
    /\ Goto(c, "serving")
    /\ UNCHANGED <<registry, write_lock, locals, wire>>

\* Mutant: the tenant's entry is removed whatever its generation.
IsRegistered(c) == by_tenant[handle[c].tenant] # NoHandle

\* remove_if with the closure |_, h| h.generation == generation.
IsCurrent(c) ==
    /\ by_tenant[handle[c].tenant] # NoHandle
    /\ by_tenant[handle[c].tenant].generation = handle[c].generation

\* The select ended, by connection.closed() or by a GoingAway message.
SelectEnds(c, away) ==
    /\ pc[c] = "serving"
    /\ IF away THEN c \in going_away ELSE c \notin open
    /\ write_lock = NoConn

\* remove: takes the lock and finds its generation in the tenant index.
Disconnect(c, away) ==
    /\ SelectEnds(c, away)
    /\ IsCurrent(c)
    /\ write_lock' = c
    /\ by_tenant' = [by_tenant EXCEPT ![handle[c].tenant] = NoHandle]
    /\ todo' = [todo EXCEPT ![c] = handle[c].hostnames]
    /\ draining' = IF away THEN draining \cup {c} ELSE draining
    /\ Goto(c, "removing")
    /\ UNCHANGED <<by_hostname, next_generation, gauge, handle, replaced, wire, present>>

\* remove: a newer generation holds the entry, so nothing is removed.
DisconnectReplaced(c, away) ==
    /\ SelectEnds(c, away)
    /\ ~IsCurrent(c)
    /\ Finish(c, IF away THEN "draining" ELSE "done")
    /\ UNCHANGED <<registry, write_lock, replaced, todo, draining, wire, present>>

\* Drops one hostname of the removed registration.
Unlink(c) ==
    /\ pc[c] = "removing"
    /\ \E h \in todo[c] :
        /\ RemoveIf(h, handle[c].generation)
        /\ todo' = [todo EXCEPT ![c] = @ \ {h}]
    /\ UNCHANGED <<by_tenant, next_generation, gauge, write_lock, pc, handle,
                   replaced, draining, wire, present>>

\* The gauge is adjusted, the guard dropped and remove returns true.
Removed(c) ==
    /\ pc[c] = "removing"
    /\ todo[c] = {}
    /\ gauge' = gauge - 1
    /\ write_lock' = NoConn
    /\ Goto(c, "withdrawing")
    /\ UNCHANGED <<by_hostname, by_tenant, next_generation, locals, wire, present>>

\* withdraw_registration has been awaited; then deregister_presence.
DeregisterPresence(c) ==
    /\ pc[c] = "withdrawing"
    /\ \/ present' = present \ {handle[c].tenant}
       \/ PresenceMayFail /\ UNCHANGED present
    /\ Finish(c, IF c \in draining THEN "draining" ELSE "done")
    /\ draining' = draining \ {c}
    /\ UNCHANGED <<registry, write_lock, replaced, todo, wire>>

\* A Connector that announced its shutdown closes when its streams are done.
Drained(c) ==
    /\ pc[c] = "draining"
    /\ c \notin open
    /\ Finish(c, "done")
    /\ UNCHANGED <<registry, write_lock, replaced, todo, draining, wire, present>>

---------------------------------------------------------------------------
(* The other end of the connection *)

\* The Connector closes, or QUIC times the connection out, at any time.
PeerCloses(c) ==
    /\ c \in Running \cap open
    /\ open' = open \ {c}
    /\ UNCHANGED <<registry, write_lock, pc, locals, going_away, present>>

\* A Connector announces its shutdown once its session is established.
PeerGoesAway(c) ==
    /\ pc[c] = "serving"
    /\ c \in open \ going_away
    /\ going_away' = going_away \cup {c}
    /\ UNCHANGED <<registry, write_lock, pc, locals, open, present>>

---------------------------------------------------------------------------

\* The steps a handler takes by itself once it is authenticated.
HandlerStep(c) ==
    \/ RegisterConflict(c) \/ Register(c)
    \/ UnlinkPrevious(c) \/ PreviousUnlinked(c) \/ Link(c) \/ Registered(c)
    \/ CloseReplaced(c) \/ RegisterPresence(c)
    \/ \E away \in BOOLEAN : Disconnect(c, away) \/ DisconnectReplaced(c, away)
    \/ Unlink(c) \/ Removed(c) \/ DeregisterPresence(c) \/ Drained(c)

Step(c) ==
    \/ Accept(c) \/ Refuse(c)
    \/ \E token \in Tokens : Authenticate(c, token)
    \/ Reject(c)
    \/ HandlerStep(c)
    \/ PeerCloses(c) \/ PeerGoesAway(c)

Next == \E c \in Conns : Step(c)

Spec == Init /\ [][Next]_vars

\* The runtime keeps running every task that can make progress.  Nothing is
\* assumed of the Connectors.
FairSpec == Spec /\ \A c \in Conns : WF_vars(HandlerStep(c))

---------------------------------------------------------------------------
(* Properties *)

TypeOK ==
    /\ by_hostname \in [Hostnames -> Handle \cup {NoHandle}]
    /\ by_tenant \in [Tenants -> Handle \cup {NoHandle}]
    /\ next_generation \in Nat
    /\ write_lock \in Conns \cup {NoConn}
    /\ gauge \in Nat
    /\ pc \in [Conns -> Stages]
    /\ handle \in [Conns -> Handle \cup {NoHandle}]
    /\ replaced \in [Conns -> Handle \cup {NoHandle}]
    /\ todo \in [Conns -> SUBSET Hostnames]
    /\ open \subseteq Conns
    /\ going_away \subseteq Conns
    /\ draining \subseteq Conns
    /\ present \subseteq Tenants

\* Every hostname entry belongs to its tenant's current registration, which
\* claims that hostname.
EntriesAreCurrent ==
    \A h \in Hostnames :
        by_hostname[h] # NoHandle =>
            /\ h \in by_hostname[h].hostnames
            /\ by_tenant[by_hostname[h].tenant] = by_hostname[h]

\* Every hostname of a current registration is routed to it.
CurrentIsRouted ==
    \A t \in Tenants :
        by_tenant[t] # NoHandle =>
            \A h \in by_tenant[t].hostnames : by_hostname[h] = by_tenant[t]

\* Whenever no register or remove is in progress, the hostname index and the
\* tenant index describe the same registrations.
IndexesAgree == write_lock = NoConn => EntriesAreCurrent /\ CurrentIsRouted

\* A lookup or a snapshot, at whatever moment it runs, never returns a handle
\* whose handler has finished removing it: no traffic is sent to, and no route
\* advertised for, a Connector the Edge has let go.
NoDanglingHandle ==
    \A c \in Conns :
        pc[c] \in {"withdrawing", "draining", "done"} =>
            /\ \A h \in Hostnames : by_hostname[h] # NoHandle => by_hostname[h].conn # c
            /\ \A t \in Tenants : by_tenant[t] # NoHandle => by_tenant[t].conn # c

\* A handler that waits on an open connection either holds the tenant's
\* registration or is about to have its connection closed by the handler that
\* replaced it: no Connector is left believing it serves while it gets nothing.
ServingIsCurrent ==
    \A c \in open :
        pc[c] = "serving" =>
            \/ by_tenant[handle[c].tenant] = handle[c]
            \/ \E d \in Conns : replaced[d] = handle[c]

\* The active_quic_connections gauge counts the registered tenants whenever no
\* register or remove is in progress.
GaugeCountsTenants ==
    write_lock = NoConn => gauge = Cardinality({t \in Tenants : by_tenant[t] # NoHandle})

\* No step takes a hostname that one tenant serves and hands it to another:
\* in between it must have been given up by the tenant that served it.
HostnameNotTaken ==
    [][\A h \in Hostnames :
          by_hostname[h] # NoHandle /\ by_hostname'[h] # NoHandle
              => by_hostname'[h].tenant = by_hostname[h].tenant]_vars

\* A registration leaves the tenant index only by a newer generation of the
\* tenant or because its own connection ended or announced its end: the late
\* disconnect of an older connection never removes it.
StaleDisconnectIsHarmless ==
    [][\A t \in Tenants :
          by_tenant[t] # NoHandle /\ by_tenant'[t] # by_tenant[t] =>
              IF by_tenant'[t] = NoHandle
                THEN by_tenant[t].conn \notin open \/ by_tenant[t].conn \in going_away
                ELSE by_tenant'[t].generation > by_tenant[t].generation]_vars

\* A handler whose registration was replaced terminates and gives its permit
\* back, whatever its Connector does.
ReplacedHandlerEnds ==
    \A c \in Conns :
        (\E d \in Conns : replaced[d] # NoHandle /\ replaced[d].conn = c)
            ~> pc[c] = "done"

---------------------------------------------------------------------------
(* What comments and documents say, and the code does not do *)

\* valkey.rs:402 says presence records that the tenant has a Connector on this
\* Edge.  Judged only when every handler is waiting for its Connector.
PresenceMatchesRegistry ==
    (\A c \in Conns : pc[c] \in {"idle", "auth", "serving", "draining", "done"}) =>
        present = {t \in Tenants : by_tenant[t] # NoHandle}
=============================================================================
