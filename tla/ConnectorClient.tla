-------------------------- MODULE ConnectorClient --------------------------
(***************************************************************************)
(* The Connector: one reconnect loop per Edge (run_connection), the tunnel *)
(* streams it serves, the health it reports, its heartbeat in Valkey and   *)
(* its shutdown.  A link is the loop of one process for one Edge.  All     *)
(* processes present the same token.                                       *)
(*                                                                         *)
(* Time passes in ticks.  The constants keep the order of the durations in *)
(* the code; how long a session lasted is left open.                       *)
(***************************************************************************)
EXTENDS Integers, FiniteSets

CONSTANTS
    Processes,        \* Connector processes that share the token
    Edges,
    Configurations,   \* the links, the processes with a [valkey], the Edges whose
                      \* clients open streams or send datagrams, and a bound on
                      \* connections lost or refused, beats lost and crashes
    InitialBackoff, MaxBackoff, ReplacedRetryDelay, DrainTimeout,
    MaxStreams,       \* stream permits of a process, shared by its links
    MaxDatagrams,     \* pending UDP forwards of a session
    NoLink,           \* no registration at an Edge
    Dead,             \* a registration whose connection the Connector has lost
    Free

ASSUME ConfigurationsAssumption ==
    Configurations \subseteq [links : SUBSET (Processes \X Edges),
                              beating : SUBSET Processes, busy : SUBSET Edges,
                              udp : SUBSET Edges, faults : Nat]

ASSUME ClientAssumption ==
    /\ InitialBackoff \in Nat \ {0} /\ MaxBackoff \in Nat /\ InitialBackoff <= MaxBackoff
    /\ {ReplacedRetryDelay, DrainTimeout, MaxStreams, MaxDatagrams} \subseteq Nat
    /\ NoLink \notin Processes \X Edges /\ Dead \notin (Processes \X Edges) \cup {NoLink}
    /\ Free \notin [link : Processes \X Edges, stage : {"request", "open", "told", "answered"},
                     live : BOOLEAN, closes : BOOLEAN]

Streams == Processes \X (1..MaxStreams)
Process(l) == l[1]
Edge(l) == l[2]

VARIABLES
    config,           \* one of Configurations; never changes
    pc,               \* where the loop of a link is
    backoff,
    clock,            \* what is left of a sleep or a drain
    conn,             \* the link's current connection, as far as the Edge got
    owner,            \* per Edge, whose connection is registered there
    late,             \* links with an earlier connection, lost since, that its Edge
                      \* still authenticates
    down,             \* Edges that have stopped for good
    tasks,            \* per stream permit, the stream task that holds it
    datagrams,        \* UDP forwards in flight in a session
    stopping,         \* processes that were told to shut down
    gone,             \* processes that exited or crashed
    beat, seen,       \* the heartbeat task, and the Edges it read from health
    key,              \* the Edges that the heartbeat key names; {} when absent
    since,            \* ticks since another process took the link's Edge over
    faults

links == config.links

loop == <<pc, backoff, clock>>
edge == <<conn, owner, late, down, since>>
work == <<tasks, datagrams>>
heart == <<beat, seen, key>>
vars == <<config, loop, edge, work, stopping, gone, heart, faults>>

Init ==
    /\ config \in Configurations
    /\ pc = [l \in links |-> "connect"]
    /\ backoff = [l \in links |-> InitialBackoff]
    /\ clock = [l \in links |-> 0]
    /\ conn = [l \in links |-> "none"]
    /\ owner = [e \in Edges |-> NoLink]
    /\ late = {}
    /\ down = {}
    /\ tasks = [s \in Streams |-> Free]
    /\ datagrams = [l \in links |-> 0]
    /\ stopping = {}
    /\ gone = {}
    /\ beat = [p \in Processes |-> IF p \in config.beating THEN "wait" ELSE "done"]
    /\ seen = [p \in Processes |-> {}]
    /\ key = {}
    /\ since = [l \in links |-> ReplacedRetryDelay]
    /\ faults = 0

Open == {"new", "registered", "answered"}
Sessions == {"serve", "drain"}
Goto(l, stage) == pc' = [pc EXCEPT ![l] = stage]
Fault == faults < config.faults /\ faults' = faults + 1
Lesser(a, b) == IF a < b THEN a ELSE b

\* connected_edges: run_connection sets "connected" before a session and
\* "disconnected" after it.
ConnectedEdges(p) == {Edge(l) : l \in {k \in links : Process(k) = p /\ pc[k] \in Sessions}}

\* What connections that end leave at their Edges, which hear of it later, by a
\* close frame or by the idle timeout: the registration, or a handler that goes
\* on authenticating.
LeaveBehind(ended) ==
    /\ owner' = [e \in Edges |-> IF owner[e] \in ended THEN Dead ELSE owner[e]]
    /\ late' = late \cup {l \in ended : conn[l] = "new"}

\* The Connector drops the connections of the ended links.
Close(ended) ==
    /\ conn' = [l \in links |-> IF l \in ended THEN "none" ELSE conn[l]]
    /\ LeaveBehind(ended)
    /\ UNCHANGED <<down, since>>

---------------------------------------------------------------------------
(* The reconnect loop *)

\* jittered: the backoff shortened by up to half.
Jittered(b) == (b \div 2)..(b - 1)

\* The rest of the loop's body after an attempt: report, then sleep.
Retry(l, delays) ==
    /\ Goto(l, "sleep")
    /\ \E d \in delays : clock' = [clock EXCEPT ![l] = d]
    /\ Close({l})

\* Addresses resolved, one of them answered, and the AuthRequest was sent.
Connect(l) ==
    /\ pc[l] = "connect"
    /\ Edge(l) \notin down
    /\ Process(l) \notin stopping
    /\ Goto(l, "auth")
    /\ conn' = [conn EXCEPT ![l] = "new"]
    /\ UNCHANGED <<config, backoff, clock, owner, late, down, since, work, stopping, gone, heart,
                   faults>>

\* No address was found, or every one of them failed or timed out.
ConnectFails(l) ==
    /\ pc[l] = "connect"
    /\ IF Edge(l) \in down THEN UNCHANGED faults ELSE Fault
    /\ Retry(l, Jittered(backoff[l]))
    /\ UNCHANGED <<config, backoff, work, stopping, gone, heart>>

\* The AuthResponse arrived; a session begins.
Authenticated(l) ==
    /\ pc[l] = "auth"
    /\ conn[l] = "answered"
    /\ Goto(l, "serve")
    /\ UNCHANGED <<config, backoff, clock, edge, work, stopping, gone, heart, faults>>

\* Mutant: a connection that ends during authentication ends the loop.
AuthGivesUp(l) ==
    /\ pc[l] = "auth"
    /\ conn[l] \notin Open
    /\ Goto(l, "ended")
    /\ Close({l})
    /\ UNCHANGED <<config, backoff, clock, work, stopping, gone, heart, faults>>

\* The connection ended before the response was read.
AuthFails(l) ==
    /\ pc[l] = "auth"
    /\ conn[l] \notin Open
    /\ Retry(l, Jittered(backoff[l]))
    /\ UNCHANGED <<config, backoff, work, stopping, gone, heart, faults>>

Wake(l) ==
    /\ pc[l] = "sleep"
    /\ clock[l] = 0
    /\ Process(l) \notin stopping
    /\ Goto(l, "connect")
    /\ backoff' = [backoff EXCEPT ![l] = Lesser(2 * @, MaxBackoff)]
    /\ UNCHANGED <<config, clock, edge, work, stopping, gone, heart, faults>>

\* Outside a session the loop returns as soon as shutdown was requested; an
\* unfinished connection is dropped.
Return(l) ==
    /\ pc[l] \in {"connect", "auth", "sleep"}
    /\ Process(l) \in stopping
    /\ Goto(l, "ended")
    /\ Close({l})
    /\ UNCHANGED <<config, backoff, clock, work, stopping, gone, heart, faults>>

---------------------------------------------------------------------------
(* The session: serve_streams *)

\* in_flight: the tasks this session started.
InFlight(l) == {s \in Streams : tasks[s] # Free /\ tasks[s].link = l /\ tasks[s].live}

\* What serve_streams leaves behind: its stream tasks go on without it and
\* keep their permits; the datagram tasks hold nothing that is shared.
Abandon(l) ==
    /\ tasks' = [s \in Streams |-> IF s \in InFlight(l) THEN [tasks[s] EXCEPT !.live = FALSE]
                                                       ELSE tasks[s]]
    /\ datagrams' = [datagrams EXCEPT ![l] = 0]

\* A session that lasted STABLE_SESSION resets the backoff, and one that
\* another process took over waits longer.
EndSession(l) ==
    /\ \E next \in {backoff[l], InitialBackoff} :
        /\ backoff' = [backoff EXCEPT ![l] = next]
        /\ Retry(l, IF conn[l] = "replaced" THEN {ReplacedRetryDelay} ELSE Jittered(next))
    /\ Abandon(l)
    /\ UNCHANGED <<config, stopping, gone, heart, faults>>

\* accept_bi or read_datagram returned that the connection is closed.
SessionBroken(l) ==
    /\ pc[l] \in Sessions
    /\ conn[l] \notin Open
    /\ EndSession(l)

\* Shutdown was requested: the notice is sent, or given up on.
GoAway(l) ==
    /\ pc[l] = "serve"
    /\ Process(l) \in stopping
    /\ Goto(l, "drain")
    /\ clock' = [clock EXCEPT ![l] = DrainTimeout]
    /\ UNCHANGED <<config, backoff, edge, work, stopping, gone, heart, faults>>

Drained(l) ==
    /\ pc[l] = "drain"
    /\ InFlight(l) = {}
    /\ datagrams[l] = 0
    /\ EndSession(l)

\* Mutant: the drain has no deadline.
NeverTimesOut(l) == FALSE /\ EndSession(l)

DrainTimedOut(l) ==
    /\ pc[l] = "drain"
    /\ clock[l] = 0
    /\ EndSession(l)

\* The Edge routes traffic to the link.
Routed(l) == conn[l] = "answered" /\ owner[Edge(l)] = l

\* A stream of the Edge takes a permit of the process.  Without a free one the
\* stream is dropped, which changes nothing here.
AcceptStream(l) ==
    /\ pc[l] \in Sessions
    /\ Routed(l) /\ Edge(l) \in config.busy
    /\ \E s \in Streams :
        /\ s[1] = Process(l)
        /\ tasks[s] = Free
        /\ tasks' = [tasks EXCEPT ![s] = [link |-> l, stage |-> "request", live |-> TRUE,
                                             closes |-> FALSE]]
    /\ UNCHANGED <<config, loop, edge, datagrams, stopping, gone, heart, faults>>

AcceptDatagram(l) ==
    /\ pc[l] \in Sessions
    /\ Routed(l) /\ Edge(l) \in config.udp
    /\ datagrams[l] < MaxDatagrams
    /\ datagrams' = [datagrams EXCEPT ![l] = @ + 1]
    /\ UNCHANGED <<config, loop, edge, tasks, stopping, gone, heart, faults>>

\* forward_udp_datagram ends with a reply, an error or its timeout.
DatagramDone(l) ==
    /\ datagrams[l] > 0
    /\ datagrams' = [datagrams EXCEPT ![l] = @ - 1]
    /\ UNCHANGED <<config, loop, edge, tasks, stopping, gone, heart, faults>>

---------------------------------------------------------------------------
(* A stream task: serve_stream and forward_tcp *)

Stage(s, stage) ==
    /\ tasks[s] # Free
    /\ tasks' = [tasks EXCEPT ![s].stage = stage]
    /\ UNCHANGED <<config, loop, edge, datagrams, stopping, gone, heart, faults>>

\* The task returns and its permit is free again.
StreamEnds(s) ==
    /\ tasks' = [tasks EXCEPT ![s] = Free]
    /\ UNCHANGED <<config, loop, edge, datagrams, stopping, gone, heart, faults>>

At(s, stage) == tasks[s] # Free /\ tasks[s].stage = stage

\* The ConnectRequest names a target that accepts the connection.  It is one
\* that reads what it is sent and closes once it is told the end, or one that
\* owes nothing.
TargetConnected(s) ==
    /\ At(s, "request")
    /\ \E closes \in BOOLEAN :
        tasks' = [tasks EXCEPT ![s].stage = "open", ![s].closes = closes]
    /\ UNCHANGED <<config, loop, edge, datagrams, stopping, gone, heart, faults>>

\* No valid request in time, no ingress rule, a status-code target, or no
\* connection to the target in time.
NotForwarded(s) == At(s, "request") /\ StreamEnds(s)

\* Mutant: the end of the QUIC side is not passed on to the target.
QuicSideEndsUntold(s) ==
    \/ At(s, "open") /\ Stage(s, "untold")
    \/ At(s, "answered") /\ StreamEnds(s)

\* quic_to_local ends: the client finished, or the connection is gone.  The
\* target's side is shut down, so that it sees the end.
QuicSideEnds(s) ==
    \/ At(s, "open") /\ Stage(s, "told")
    \/ At(s, "answered") /\ StreamEnds(s)

\* local_to_quic ends: the target closed, or what it sends cannot be delivered.
TargetEnds(s) ==
    \/ At(s, "open") /\ Stage(s, "answered")
    \/ At(s, "told") /\ StreamEnds(s)

---------------------------------------------------------------------------
(* The Edge, as handle_connector treats the connection *)

\* The registration replaces the tenant's previous one, whose connection is
\* closed as replaced.
EdgeRegisters(l) ==
    LET previous == owner[Edge(l)]
    IN  /\ conn[l] = "new"
        /\ owner' = [owner EXCEPT ![Edge(l)] = l]
        /\ conn' = [k \in links |-> IF k = l THEN "registered"
                                    ELSE IF k = previous THEN "replaced" ELSE conn[k]]
        /\ since' = [k \in links |-> IF k = previous THEN 0 ELSE since[k]]
        /\ UNCHANGED <<config, loop, late, down, work, stopping, gone, heart, faults>>

\* The handler of a connection that the Connector has lost gets as far, or its
\* authentication fails.  It closes the connection registered before as well,
\* even when that is a newer one of the same link.
EdgeRegistersLate(l) ==
    /\ l \in late
    /\ late' = late \ {l}
    /\ \/ UNCHANGED <<conn, owner>>
       \/ /\ owner' = [owner EXCEPT ![Edge(l)] = Dead]
          /\ conn' = [k \in links |-> IF k = owner[Edge(l)] THEN "replaced" ELSE conn[k]]
    /\ UNCHANGED <<config, loop, down, since, work, stopping, gone, heart, faults>>

\* The Edge notices that the registered connection is gone, and removes it.
EdgeNotices(e) ==
    /\ owner[e] = Dead
    /\ owner' = [owner EXCEPT ![e] = NoLink]
    /\ UNCHANGED <<config, loop, conn, late, down, since, work, stopping, gone, heart, faults>>

EdgeAnswers(l) ==
    /\ conn[l] = "registered"
    /\ conn' = [conn EXCEPT ![l] = "answered"]
    /\ UNCHANGED <<config, loop, owner, late, down, since, work, stopping, gone, heart, faults>>

\* The Edge reads the going-away notice; an older Edge never does.
EdgeHearsNotice(l) ==
    /\ pc[l] = "drain"
    /\ owner[Edge(l)] = l
    /\ owner' = [owner EXCEPT ![Edge(l)] = NoLink]
    /\ UNCHANGED <<config, loop, conn, late, down, since, work, stopping, gone, heart, faults>>

\* The connection is refused or lost.
Breaks(l) ==
    /\ conn[l] \in Open
    /\ Fault
    /\ conn' = [conn EXCEPT ![l] = "closed"]
    /\ LeaveBehind({l})
    /\ UNCHANGED <<config, loop, down, since, work, stopping, gone, heart>>

EdgeStops(e) ==
    /\ e \notin down
    /\ Fault
    /\ down' = down \cup {e}
    /\ conn' = [l \in links |-> IF Edge(l) = e /\ conn[l] \in Open THEN "closed" ELSE conn[l]]
    /\ owner' = [owner EXCEPT ![e] = NoLink]
    /\ late' = {l \in late : Edge(l) # e}
    /\ UNCHANGED <<config, loop, since, work, stopping, gone, heart>>

---------------------------------------------------------------------------
(* The heartbeat task: heartbeat_loop *)

\* Mutant: every configured Edge is named, connected or not.
NameConfigured(p) ==
    /\ beat[p] = "wait"
    /\ p \notin stopping
    /\ beat' = [beat EXCEPT ![p] = "send"]
    /\ seen' = [seen EXCEPT ![p] = {Edge(l) : l \in {k \in links : Process(k) = p}}]
    /\ UNCHANGED <<config, loop, edge, work, stopping, gone, key, faults>>

ReadHealth(p) ==
    /\ beat[p] = "wait"
    /\ p \notin stopping
    /\ beat' = [beat EXCEPT ![p] = "send"]
    /\ seen' = [seen EXCEPT ![p] = ConnectedEdges(p)]
    /\ UNCHANGED <<config, loop, edge, work, stopping, gone, key, faults>>

\* SET with a TTL, or DEL when no Edge is connected; an error reconnects.
SendBeat(p) ==
    /\ beat[p] = "send"
    /\ \/ key' = seen[p] /\ UNCHANGED faults
       \/ Fault /\ UNCHANGED key
    /\ beat' = [beat EXCEPT ![p] = "wait"]
    /\ seen' = [seen EXCEPT ![p] = {}]
    /\ UNCHANGED <<config, loop, edge, work, stopping, gone>>

\* Shutdown: the key is deleted, unless Valkey cannot be reached.
StopBeat(p) ==
    /\ beat[p] = "wait"
    /\ p \in stopping
    /\ beat' = [beat EXCEPT ![p] = "done"]
    /\ \/ key' = {} /\ UNCHANGED faults
       \/ Fault /\ UNCHANGED key
    /\ UNCHANGED <<config, loop, edge, work, stopping, gone, seen>>

\* The TTL covers four intervals: the key outlives its writer only.
KeyExpires ==
    /\ key # {}
    /\ \A p \in Processes : beat[p] = "done"
    /\ key' = {}
    /\ UNCHANGED <<config, loop, edge, work, stopping, gone, beat, seen, faults>>

---------------------------------------------------------------------------
(* The process *)

LinksOf(p) == {l \in links : Process(l) = p}

Shutdown(p) ==
    /\ p \notin stopping \cup gone
    /\ LinksOf(p) # {}
    /\ stopping' = stopping \cup {p}
    /\ UNCHANGED <<config, loop, edge, work, gone, heart, faults>>

\* Nothing of the process is left.
Terminate(p) ==
    /\ gone' = gone \cup {p}
    /\ tasks' = [s \in Streams |-> IF s[1] = p THEN Free ELSE tasks[s]]
    /\ datagrams' = [l \in links |-> IF Process(l) = p THEN 0 ELSE datagrams[l]]
    /\ beat' = [beat EXCEPT ![p] = "done"]
    /\ seen' = [seen EXCEPT ![p] = {}]
    /\ Close(LinksOf(p))

\* main returns: every connection has closed, and the heartbeat task has ended
\* or is not waited for any longer.  main waits for the connections no longer
\* than the drain timeout and five seconds; that deadline is left out, so that
\* ShutdownEnds shows it is not needed.
Exit(p) ==
    /\ p \in stopping \ gone
    /\ \A l \in LinksOf(p) : pc[l] = "ended"
    /\ Terminate(p)
    /\ UNCHANGED <<config, loop, stopping, key, faults>>

Crash(p) ==
    /\ p \notin gone
    /\ LinksOf(p) # {}
    /\ Fault
    /\ Terminate(p)
    /\ pc' = [l \in links |-> IF Process(l) = p THEN "ended" ELSE pc[l]]
    /\ stopping' = stopping \cup {p}
    /\ UNCHANGED <<config, backoff, clock, key>>

Tick ==
    /\ clock' = [l \in links |-> IF clock[l] = 0 THEN 0 ELSE clock[l] - 1]
    /\ since' = [l \in links |-> Lesser(since[l] + 1, ReplacedRetryDelay)]
    /\ <<clock, since>>' # <<clock, since>>
    /\ UNCHANGED <<config, pc, backoff, conn, owner, late, down, work, stopping, gone, heart, faults>>

---------------------------------------------------------------------------
LinkStep(l) ==
    \/ Connect(l) \/ Authenticated(l) \/ AuthFails(l) \/ Wake(l) \/ Return(l)
    \/ SessionBroken(l) \/ GoAway(l) \/ Drained(l) \/ DrainTimedOut(l)

EdgeStep(l) == EdgeRegisters(l) \/ EdgeAnswers(l)

BeatStep(p) == ReadHealth(p) \/ SendBeat(p) \/ StopBeat(p)

Next ==
    \/ \E l \in links :
        \/ LinkStep(l) \/ EdgeStep(l)
        \/ ConnectFails(l) \/ EdgeRegistersLate(l) \/ EdgeHearsNotice(l) \/ Breaks(l)
        \/ AcceptStream(l) \/ AcceptDatagram(l) \/ DatagramDone(l)
    \/ \E s \in Streams :
        TargetConnected(s) \/ NotForwarded(s) \/ QuicSideEnds(s) \/ TargetEnds(s)
    \/ \E p \in Processes : BeatStep(p) \/ Shutdown(p) \/ Exit(p) \/ Crash(p)
    \/ \E e \in Edges : EdgeNotices(e) \/ EdgeStops(e)
    \/ KeyExpires
    \/ Tick

Spec == Init /\ [][Next]_vars

\* What a stream task does whatever its client does: it gives up on a request
\* and, if its target is one that reads and closes, notices that its connection
\* is gone and ends.  forward_tcp waits for both directions without a timeout, so
\* nothing ends the task of another target.
StreamStep(s) ==
    \/ NotForwarded(s)
    \/ /\ tasks[s] # Free /\ tasks[s].closes
       /\ (~tasks[s].live /\ QuicSideEnds(s)) \/ (At(s, "told") /\ TargetEnds(s))

\* Tasks run, timers fire and the Edge answers.  No client is assumed to end a
\* stream, no datagram to be answered, no Edge to notice a lost connection, and
\* no target to close but those that were taken to be of that kind.
FairSpec ==
    /\ Spec
    /\ \A l \in Processes \X Edges :
        WF_vars(l \in links /\ (LinkStep(l) \/ EdgeStep(l)))
    /\ \A s \in Streams : WF_vars(StreamStep(s))
    /\ \A p \in Processes : WF_vars(BeatStep(p)) /\ WF_vars(Exit(p))
    /\ WF_vars(KeyExpires)
    /\ WF_vars(Tick)

---------------------------------------------------------------------------
(* Properties *)

\* A Connector that was told to shut down exits, whatever its streams, its
\* targets and its Edges do: every loop ends by itself, because no drain waits
\* beyond its deadline, and main's own deadline is not what ends the process.
ShutdownEnds == \A p \in Processes : p \in stopping ~> p \in gone

\* Only a target that neither reads nor closes keeps a permit from the others.
HeldByTarget(s) == tasks[s] # Free /\ tasks[s].stage # "request" /\ ~tasks[s].closes

\* A permit held by a stream whose session is over is given back, unless its
\* target neither reads nor closes: connections that break do not by themselves
\* use up the permits that all Edges share.
PermitsReturn ==
    \A s \in Streams :
        (tasks[s] # Free /\ ~tasks[s].live) ~> (tasks[s] = Free \/ HeldByTarget(s))

\* A loop never gives up: whatever was lost or refused, the link has a session
\* again unless its process shuts down, its Edge has stopped or another process
\* shares that Edge.
Reconnects ==
    \A l \in Processes \X Edges :
        []<>(\/ l \notin links
             \/ pc[l] \in Sessions
             \/ Process(l) \in stopping
             \/ Edge(l) \in down
             \/ \E k \in links \ {l} : Edge(k) = Edge(l))

\* Once connections stop breaking, the heartbeat key names exactly the Edges
\* that the process is connected to, and is absent when there is none: after a
\* crash that could not delete it, too.
HeartbeatTracksEdges ==
    <>[](config.beating # {} => key = UNION {ConnectedEdges(p) : p \in Processes})

\* Among the connections that present the token to an Edge one at most is open,
\* registered and not going away, and it is the one the Edge sends streams to,
\* also while the Edge has still to notice that earlier ones are gone.
OneRegistration ==
    \A l \in links :
        conn[l] \in {"registered", "answered"} /\ pc[l] # "drain" => owner[Edge(l)] = l

\* A session begins with nothing of the one before: the streams that a broken
\* session left behind keep their permits, but no later drain waits for them.
SessionsStartClean ==
    \A l \in links : pc[l] \notin Sessions => InFlight(l) = {} /\ datagrams[l] = 0

\* The delays stay between their bounds however often a session breaks, is
\* replaced or lasts long enough to reset them.
WaitsBounded ==
    \A l \in links :
        /\ backoff[l] \in InitialBackoff..MaxBackoff
        /\ pc[l] = "sleep" => clock[l] < MaxBackoff \/ clock[l] <= ReplacedRetryDelay

\* "Wait after another Connector with the same token took over this Edge
\* connection.  Reconnecting sooner would take it back and cut its streams."
TakeoverRespected ==
    [][\A l \in links :
          pc[l] # "connect" /\ pc'[l] = "connect" => since[l] >= ReplacedRetryDelay]_vars
=============================================================================
