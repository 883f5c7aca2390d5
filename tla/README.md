# Verification of Sieve Tube

TLA+ specifications of Sieve Tube, a tunnel that publishes services behind a
NAT: a *Connector* next to the services keeps QUIC connections to one or more
*Edges*, and the Edges route HTTP, TCP and UDP traffic of the outside world
through them. Edges share a control plane in Valkey and, in mesh mode, forward
traffic to each other. An Edge also obtains certificates and keeps DNS records.

## The system's parts

| Part | Module | What is hard |
| --- | --- | --- |
| Connector registry, connection handlers (`connector_registry.rs`, `quic_server.rs`) | `ConnectorRegistry` | readers without a lock between index updates; handlers of one tenant that finish in another order than they began |
| Route advertisement, a peer's sync (`mesh/routes.rs`, `valkey.rs`) | `RouteAdvertiser` | a snapshot that is written late; lost answers and notifications; expiry |
| Hostname ownership (`valkey.rs`, `quic_server.rs`, `main.rs`) | `HostnameOwnership` | answers that arrive after the owner changed; commands executed after their client gave up |
| Mesh forwarding (`router.rs`, `mesh/forward.rs`, `mesh/transport.rs`) | `MeshForward`, `PermitTable` | a retry after a time-out whose request was accepted after all; connections replaced while they are in use |
| Leases, certificate issuance (`acme.rs`, `certificate_store.rs`, lease scripts of `valkey.rs`) | `Lease`, `CertStore`, `AcmeManager`, `CertRegister` | a lease that expires under an order; a crash between two writes |
| ACME challenges (`acme.rs`, `dns/txt.rs`) | `Http01`, `TxtSolver`, `Acme` | all Edges must answer; a record set shared with others; what a crash leaves behind |
| DNS reconciler and providers (`dns/*.rs`) | `DnsPlan`, `DnsReconciler` | a writer that lost its lease; changes that are late or applied in part; edits by others |
| Connector (`quic_client.rs`, `health.rs`, `forwarder.rs`) | `ConnectorClient` | reconnecting, draining and shutting down at once; two Connectors with one token |
| Traffic policy (`policy.rs`) | `RateBuckets`, `TcpAdmission`, `HttpProxy` | a table at its limit; slots that outlive a reload; rules and plugins swapped apart |
| UDP (`tunnel.rs`, `listener.rs`, `mesh/forward.rs`) | `UdpReplies` | request ids that start over; replies over replaced connections |
| HTTP proxy and plugins (`http_proxy.rs`, `plugins/mod.rs`) | `HttpProxy` | stale routes; clients that leave while a plugin runs |
| TLS certificates (`tls.rs`) | `CertResolver` | a directory that changes while it is read |

`PROJECT.json` lists every part with what is modelled of it, and maps every
definition to the lines it stands for.

## Modules

An action is one step between two points where another task, process or machine
can act: an `await`, a lock that is taken or released, or a shared map that is
used without a lock. `MC…` modules only supply instances for TLC, `…Proofs`
modules hold theorems. Operators marked *Mutant* are variants of the definition
after them; no specification uses one, and each shows that some property notices
the mistake.

**ConnectorRegistry.** `by_hostname`, `by_tenant`, `next_generation` and
`write_lock` are the registry's fields; `gauge` is the connection metric; `present`
is the tenant's presence key in Valkey; `pc`, `handle`, `replaced` and `todo` are
the local state of a handler. A handler goes through *auth* (`Authenticate`,
`Reject`), *verified* (`Register`, `RegisterConflict`), the two loops of `register`
(`UnlinkPrevious`, `Link`, one hostname each, because readers run between them),
`CloseReplaced`, `RegisterPresence`, *serving*, and after `Disconnect` the loop of
`remove` (`Unlink`), `DeregisterPresence` and `Drained`. `PeerCloses` and
`PeerGoesAway` are the Connector's own decisions and may happen at any time.

**RouteAdvertiser.** The tasks are the handlers of registrations, the refresh
ticker, the shutdown and a peer's sync. `queue` is the fair `publish_lock`;
`requests` and `covered` coalesce calls of `advertise_now`; `Snapshot` reads the
registry and `PublishRoutes` writes what was read, with other steps in between. A
Valkey command is executed, is not, or is executed and its answer is lost. Expiry
is kept as remaining time.

**HostnameOwnership.** A claim is sent, executed and answered in separate steps. A
command whose client has given up stays in `late` and may be executed at any later
time. `since` is a history variable: how long ago a tenant was the owner.

**MeshForward, PermitTable.** `Router::route` and `open`, `PeerPool`, and both
sides of `open_remote_stream` / `handle_forward`. `connection_failed` is two steps
(`StreamFails` or `TimeoutSilent`, then `CoolDown`), because another task may
connect between them. `PermitTable` has the stream budgets: looking up a semaphore
and acquiring its permit are separate steps, and `Sweep` may run between them.

**Lease, CertStore, AcmeManager, CertRegister.** `Lease` is the three lease
scripts, each an operator on the two keys. `CertStore` has the generations on disk,
the `current` pointer and the file lock; a generation is valid until it expires
(`Valid`), and files that are damaged or cannot be read, which `load_current` would skip
as well, do not occur. `AcmeManager` is the run loop of every
Edge: wake up, take the lease, look at the store again, order, check the lease,
lock, write the directory, replace the pointer and prune, release. Orders fail,
leases run out under their holder, answers are lost, Valkey loses its data, and
Edges restart between any two steps. `CertRegister` is the abstract specification:
a register of generations that only moves forward and that every Edge follows.
`AcmeManager` implements it (`ImplementsRegister`), with `installed` as the view.

**Http01, TxtSolver.** `Http01` has the responses in Valkey, the Edges that
confirmed them, and the sync loop, with a step per response served or confirmed.
`TxtSolver` has the TXT record set, the journal that is written before a value is
added, and the cleanup of a starting Edge. Route 53 replaces the whole set in a
batch that fails if it changed; Cloudflare changes single records.

**DnsPlan, DnsReconciler.** `DnsPlan` is `decide` and what it needs: a pure function
of configuration, provider and state file. `DnsReconciler` is a round of an Edge:
become the writer, read, decide, save the intent, make the provider calls one by
one, save the result. A change at Cloudflare is several calls, at Route 53 a batch
that is pending for a while. What an Edge is told (`Reports`) differs from `zone` where
Cloudflare's records of one name have different TTLs: the set is reported with one of them.

**ConnectorClient.** A *link* is the reconnect loop of one process for one Edge:
connecting, authenticating, in session, sleeping, draining. Streams hold permits of
the process; datagrams belong to a session; the heartbeat reads the health and
writes a key that expires. The side of the Edge is reduced to `owner`, the
registration that a newer one replaces. An Edge hears of a lost connection late: until
`EdgeNotices` the registration stays as `Dead`, and a connection that was lost while its
Edge authenticated it (`late`) may still be registered, and then replaces a newer one of the
same link. (The comment at `quic_client.rs` on replaced connections has only another process
do that.) The target of a stream is, by choice, one that reads and closes once it is told the
end, or one that owes nothing.

**RateBuckets, TcpAdmission, UdpReplies, HttpProxy, CertResolver.** The bucket table
keeps next to each bucket's real content an `ideal` one that is never forgotten.
`TcpAdmission` takes and returns the two counts of a connection in separate steps.
`UdpReplies` has the tables of both Edges, the datagrams under way and the counter
of request ids. `HttpProxy` takes a request through route, rules, plugins, tunnel
and response while policies, plugins, Connectors and routes change. `CertResolver`
reads a directory pair by pair while operators change it and certificates are
installed.

### How they compose

Components that share state are one specification (`Lease` and `CertStore` in
`AcmeManager`, `Lease` and `DnsPlan` in `DnsReconciler`). Components that run side
by side without shared state are put together by `ControlPlane`, `Acme`
and `Ingress`: a variable chosen in the initial state says which one a behaviour
runs, so that one run covers all of them and no product of unrelated states is
explored. The rest meet at inputs, and each treats the other side as one that may
take any value the other module can produce: `ConnectorRegistry!Authenticate` is
a `HostnameOwnership` claim that was accepted; `RouteAdvertiser!Register` and
`Disconnect` are the update of `by_tenant` in `ConnectorRegistry`; `MeshForward!Route`
and `HttpProxy` choose among peers that a table kept by `RouteAdvertiser` can
offer; an order of `AcmeManager` succeeds or fails, as `Http01` and `TxtSolver`
allow.

## Runs

| Run | Instance | Shows |
| --- | --- | --- |
| `registry` | three connections, two tenants, overlapping tokens, two permits, presence writes that fail | the indexes agree when unlocked, a late disconnect removes nothing newer, a replaced handler ends |
| `registry_presence` | two connections of one tenant | *violated*: a late deregistration removes the presence of a reconnected tenant |
| `control` | two registrations, ticker, shutdown, a peer, one failure; or three claims on two Edges, two tenants that share a hostname, one administrative change | what was withdrawn stays so and peers drop it, coalesced requests were published, nothing is advertised after stop; no hostname has two tenants, and a transfer takes effect within a bounded time, also in an outage |
| `mesh` | two requests, two peers, two connections to each | bytes go to one peer at most, one failed attempt per cool-down, live connections stay pooled, every request is answered |
| `mesh_accept` | one request, two peers | *violated*: a request that was accepted is tried on another peer after a time-out |
| `acme` | two Edges, two faults, two generations kept; or one HTTP-01 order and one fault; or two DNS-01 orders and one fault | implements `CertRegister`; the pointer names a complete generation; no needless order; a due certificate is replaced; a confirmed response is served everywhere; responses are withdrawn; what a crash leaves is in the journal; values stay while needed; operators' values are kept |
| `dns` | two Edges, one record, two writer generations, one fault, one edit, one reconfiguration of the values, their number or the TTL | the state file explains what the provider reports; an older writer never writes after a newer; at Route 53, edits of others stand if they are not to be imported; the record converges unless a change of the TTL stopped half-way |
| `dns_partial` | the same with a change of one value and its TTL | *violated*: a change of values and TTL that stops half-way is never resumed |
| `dns_volatile` | two Edges, two faults, Valkey may lose its data during a round | *violated*: a writer that was replaced is granted its old generation again and overwrites its successor's state |
| `client` | one Connector with two Edges and one fault, or with one Edge, UDP and two faults | it reconnects, names its Edges in Valkey, exits when told to, and returns its permits unless a target neither reads nor closes |
| `client_takeover` | two Connectors with one token | *violated*: one that is taken over before its authentication was answered comes back too soon |
| `ingress` | three tasks, four semaphores; three clients in a table of two; three connections; two sources; three HTTP connections; three names | budgets, buckets, counts and plugin slots are exact; replies and requests go where they belong; certificates are kept |

The violated properties state what a comment or a document says, and are listed with
the quotation in `PROJECT.json` under *findings*. In `mesh_accept` and
`client_takeover` the consequence is limited: a request's bytes are still sent only
once, and a take-over is undone early. In `registry_presence` and `dns_partial` a record
stays wrong: the presence until the tenant's Connector reconnects, the DNS record until
somebody repairs it. In `dns_volatile` the state file forgets what the successor did, and
the next round may take the successor's change for an edit by others.

### Bounds

* Three connections are the smallest number with a replacement of a replacement;
  tokens that overlap in part give every case of the two index loops (hostname
  kept, dropped, added) and of the conflict between tenants.
* Two registrations, the ticker and `stop` are enough for a publish that is
  overtaken by a withdrawal, a coalesced request and a snapshot written late. A TTL
  counts refresh intervals (`TTL`, `MaxTicks`); `MaxFailures` bounds failing commands.
* Two Edges are needed for a stale cache on one of them. `Long` merges all ages
  beyond the cache's life time. `MaxAdmin` bounds the administrator.
* Two connections to a peer (`MaxConns`) are the least with an old one that fails
  after it was replaced. Only one of the two requests has a second candidate.
* Two faults (`MaxFaults`) are a lost lease and a crash, or a crash of each Edge;
  `MaxDue` bounds renewals, and two kept generations make every third one prune.
* One HTTP-01 order has the orderer and another Edge; two DNS-01 orders share a
  record set. One fault (`MaxHttpFaults`, `MaxTxtFaults`) is a crash or a failed call
  at any point of an order; that Valkey loses a response is not among them. The safety of both challenges is proved for any
  number of faults. `MaxAttempts` is smaller than in the code, which retries in the same way.
* Two writer generations (`MaxGeneration`) are an old writer and its successor.
  `VolatileValkey` is true in `dns_volatile` only; in the other runs Valkey loses its data
  only while nobody is in a round.
* The durations of the Connector keep the order they have in the code. Each of its
  configurations has its own links, kinds of traffic and number of faults, so that two
  faults meet all kinds of traffic on one link, and one fault meets two links. The runs
  do not ask for liveness with two processes.
* Four semaphores are one more than there are keys, so that a swept semaphore and its
  successor differ; three clients are one more than the bucket table holds.

`CHECK_DEADLOCK FALSE` stands where all handlers, claims, requests or processes
may be done. Symmetry is used in `control` only, for the Edges that claim
hostnames; that run checks no liveness.

### Fairness and time

Fairness is assumed of what the code does by itself, never of faults. Of other parties
only what is named here is assumed: providers complete a change, and the Edge that a
Connector talks to answers.

* `ConnectorRegistry`, `MeshForward`: weak fairness of a handler's and a request's
  steps; the runtime polls a task that is ready, and each wait has a time-out.
  Connectors and peers owe nothing.
* `AcmeManager`: weak fairness of each Edge's loop, of its retry delay and of the
  expiry of a lease nobody works under. Faults are bounded.
* `Http01`: weak fairness of the sync loop, of the end of an order (it has a
  time-out) and of the expiry of a response.
* `DnsReconciler`: weak fairness of a round, and strong fairness of a pending change
  becoming visible while an Edge waits for it, because the provider may be asked
  again and again.
* `ConnectorClient`: weak fairness of links, streams, heartbeat, exit, expiry and time;
  the Edge answers or the connection breaks, but need not notice a lost connection.
  `forward_tcp` waits for both directions without a time-out, so a stream is fair only in
  giving up on a request and, if its target is of the kind that closes, in ending.
  `PermitsReturn` therefore excepts the other targets by name (`HeldByTarget`): these hold
  their permit as long as they like.

`DnsReconciler` renews a lease the way the code does, by acquiring it again with the
round's own generation as the minimum; a lease that was free meanwhile comes with a higher
generation, and the round ends. It assumes that a lease does not run out between its
confirmed renewal and the local save after it, nor under a provider call, during which the
code renews it; and that a call that fails or is cut off has taken effect by then or never
does. A change that a provider makes only after the lease has passed on is thereby excluded.
`TxtSolver` assumes that the lease of an order lasts as long as the order, for which its
time to live is chosen. `HostnameOwnership` assumes that an answer takes at most
`AnswerDelay`, the response time-out of the Valkey client. `AcmeManager` lets certificates
expire in the order in which they were issued. `RateBuckets` reads the clock and takes the
tokens within one tick, and its limit is not reloaded.

## Proofs

TLAPS proves the following for every value of the constants that meets the named
assumption of the component's module: every invariant and action property that a passing
run checks, apart from those about liveness. The theorems are about the specification of
the component (`Spec`, `HttpSpec`, `TxtSpec` ...). `ControlPlane`, `Acme` and `Ingress` run
one of their components and leave the variables of the others alone, so that what holds of a
component holds there too; for the first two this is proved as well
(`ControlRefinesBoth`, `AcmeRefinesEach`). Bounds on faults, edits, restarts and the like are constants, and
the proofs hold for all of them. Each proof goes by an inductive invariant that the
component's own steps preserve, one lemma per action or group of actions.

**ConnectorRegistryProofs** (`ConstantsAssumption`: tenants are finitely many, a
token's hostnames are hostnames). `TypeCorrect`, `Agreement`, `NothingDangles`,
`ServingCurrent`, `GaugeIsExact` are the invariants of the run; `NotTaken` and
`StaleHarmless` its action properties. None of them is inductive, since the indexes
disagree inside `register` and `remove`. `IInv` adds who holds `write_lock`
(`LockInv`), that generations are unique (`HandleInv`), and what the holder has still
to unlink or link, by which each disagreement is explained (`HostnameInv`,
`RoutedInv`, `WriterInv`).

**ControlProofs.** Routes (`ConstantsAssumption`: a time to live of at least one
refresh). `OwnSetComplete`, `NeverBack`, `PeersForget`, `CoveredIsAdvertised` and
`SilentAfterStop` are the five properties of the part of `control` that advertises
routes. Whoever has a snapshot holds the lock (`LockInv`), so no withdrawal comes
between a snapshot and its publication (`GoneInv`); what is being published expires
after everything that is in Valkey (`ExpiryInv`); the requests that a publication
covers were made before its snapshot (`CoverInv`); and a peer without a message
waiting knows nothing that Valkey forgets earlier (`PeerInv`).

Hostnames (`OwnershipAssumption`): `NeverShared`: no two tenants are served for a hostname
while no administrator interferes. `ConfirmationsTrue`: a cached confirmation names who was
the owner at most its age and an answer's delay ago. `AcceptedOwners`: who is accepted was
the owner at most the cache time and an answer's delay ago. An answer under way was true
when the script ran (`GrantedInv`); without an administrator, owners stay (`OwnedInv`).

**MeshForwardProofs** (`ConstantsAssumption`). `MeshPayloadOnce`: a request has sent
nothing unless it streams or has streamed, and then to one peer (`PayloadInv`).
`MeshOneAttempt` and `MeshLiveConnectionKept` rest on one invariant (`PoolInv`): who waits
for a peer's lock is in its queue; who connects is at the head of the queue, has found no
usable connection, and nobody has failed in this cool-down. So a second attempt needs the
cool-down to end, and a new connection replaces none that is usable. What the lists of
routes contain is not claimed: the proofs hold for any list.

**ConnectionProofs** is about the connections that an Edge accepts and those that a Connector
makes. TCP (`TcpAssumption`): `TcpCounts`. A counter is the number of tasks that hold its
slot, wherever they are between taking and returning the two (`TcpInv`); a step moves one
task (`SlotHolders`), and a reload none. `TcpLimits` follows: no counter is above the largest
limit that a policy sets, also while connections admitted under an older policy last.
Connector (`ClientAssumption`: what the code's constants satisfy; `ConfigurationsAssumption`):
`ClientOneRegistration`: an open connection that is registered and not going away is the one
its Edge sends streams to, so that there is one at most, also while the Edge has not noticed
that earlier ones are gone. `ClientSessionsStartClean`: a session counts no stream of an
earlier one. `ClientWaitsBounded`: back-off and sleeps stay within their limits. They rest
on one invariant (`ClientInv`) that relates, per link, the loop, the connection, the Edge's
entry and the streams (`Owners`, `LoopConnections`, `InSession`). No run lists these three:
`client` and `client_takeover`, in whose instances they hold, ask about liveness and takeovers.

**TunnelProofs** is about what an Edge carries for others. UDP (`UdpAssumption`: two Edges):
`UdpReplyMatches`. An entry with the id of a message under way names the client that the
message belongs to, for each of the three tables on the way (`LocalMatch`, `MeshMatch`,
`PeerMatch`). This is inductive because every id in use is older than the next one
(`OldIds`), also after a restart. That a client is not answered twice needs that a datagram
is in one place only (`OnePlace`) and was not answered while it is there (`Unanswered`).
Mesh streams (`PermitTable!ConstantsAssumption`: tenants' and peers' keys differ):
`TypeCorrect`, `BudgetsKept`, `NoPeerSlotWhileWaiting`. A permit belongs to the semaphore
that the map holds now (`RefInv`), because `sweep` drops only what nobody has cloned, so
permits available and held add up to the limit (`CountInv`). `NoPermitLost` is the other
direction: who is kept waiting by a semaphore finds as many streams open as the budget
allows, so no sweep and no task that gave up has lost a permit.

**IngressProofs.** HTTP (`HttpAssumption`): `HttpPluginBudget`: the free slots of a plugin and
the places that requests and jobs hold add up to its limit (`SlotsAccounted`), and a job whose
client has left still has its places (`JobsWaitedFor`). `HttpSlotsComeBack` is the converse:
with no request in preparation and no job, all slots are free. `HttpDeliveredAsRouted` and
`HttpPluginsNotOlder`: what a request carries from stage to stage (`Staged`) is the tenant of
its first candidate, and rules that are not newer than the plugins in force.
Certificates (`CertAssumption`): `NamesStayServed`: a name keeps a certificate unless its
files were removed, and a managed name the one installed last. Nothing is installed during
a scan, so it knows what is served (`ScanInv`), and a name loses its files only by being
withdrawn (`DirInv`).
Rate limits (`BucketsAssumption`): `BoundedIsIdeal`: every client has the tokens it would
have in a table without bound, sweeps or expiry. Inductive with the types alone, because a
bucket goes only when it is full.

**AcmeProofs.** Orders (`AcmeAssumption`): `Refinement`: `Spec => ImplementsRegister`,
initial states and steps; `OnDisk`: the pointer names a generation that is on disk;
`NeededOrders`: no order is started while the active certificate is not due. The proof does
not use the lease's exclusiveness: a writer's comparison with the pointer stays true
while it holds the file lock (`WriterInv`), and the pointer is the newest generation
ever published (`StoreInv`).
HTTP-01: `Http01Confirmed`. A sync round that reads after the publication has the challenge
among what it retains, and one that began before it has not confirmed it (`Answered`); the
orderer's own response is none of its sync loop's (`OwnAnswer`).
DNS-01 (`TxtAssumption`): `TxtJournaled`, `TxtValueStays`, `TxtOperatorValues`. While an
order adds its value or relies on it, nobody else is at work on that value (`Exclusive`):
the order has its lease, and a starting Edge cleans up only what nobody else has a lease of.
A step changes the value of its own task and no other (`ReplaceDoes`).

**DnsReconcilerProofs** (`DnsAssumption`, `ForeignAssumption`, and `~VolatileValkey`, as
`dns_volatile` shows it must). `DnsWriterMovesForward`: a round that has lost the lease
cannot get its generation again (`WriterOf`), so who saves is the newest writer.
`DnsEditsStand`: without import, the sets that an Edge keeps have values of its own only
(`OursInv`), so that a batch that expects one of them fails where others have put theirs.
`DnsStateExplainsProvider`: an Edge that holds the lease knows the zone as far as its stage
needs it (`Knows`); between two Cloudflare calls the zone lies between the two ends of the
saved intent, with exactly the remaining calls to make (`OnTheWay`). What is recorded as
applied is what the provider reports (`Reports`), which is the zone unless its TTLs differ: a
change of the TTL of several values that stopped half-way may be reported as completed, and
the next round records it so.

### Only model-checked

Everything that must eventually happen (`ReplacedHandlerEnds`, `RequestIsAnswered`,
`RenewalHappens`, `ResponsesWithdrawn`, `Converges`, and the four properties of
`ConnectorClient`): liveness under fairness and `ENABLED` are beyond the prover.
What `SelectSeq` returns in `MeshForward` needs induction over data, which is beyond it too;
no property depends on it.

## Not modelled

* Configuration, health and metrics: parsing, validation and reporting. The one gauge
  that has a promise, the number of connected tenants, is in `ConnectorRegistry`.
* Mesh credentials, start-up and wiring: done once, before anything runs concurrently.
* The wire protocol, token verification, hostname normalisation, header rewriting: pure
  functions on bytes and strings, covered by the repository's unit tests.
* The exchange of one ACME order with the certificate authority and the set-up of its
  account: sequential calls of a library. An order succeeds or fails.
* The lookup that answers a challenge request, with its limit on concurrent answers: it
  changes nothing that another part reads.
* Requests, signatures, paging and parsing of the DNS providers' HTTP interfaces.
* The copying of bytes between the two sides of a stream; a stream is modelled by how
  it begins and ends. What a WebAssembly plugin returns is an input.
* Wall-clock time. Ages and remaining times count in units of the shortest period that
  matters; drift between machines is left out.

Two hazards in `PROJECT.json` have no property. Connections may register in another
order than they arrived: that happens in `registry`, and nothing in the repository says
which of two unregistered connections is the newer. And a retried request is delivered
under the policy of the first candidate's tenant although a stale table may list
another tenant for the next: no line of the repository excludes it, and
`DeliveredAsRouted` therefore speaks of the first candidate only. Three others are covered
in part, as their notes say: a provider call that takes effect after its lease, an edit
between the calls of one Cloudflare change, and a target that neither reads nor closes.

## Running

    tlc -workers 2 -config control.cfg MCControlPlane
    tlapm TunnelProofs.tla

`PROJECT.json` has the module and configuration of each run. Most leaves of the proofs name
Zenon, although SMT proves them as well: SMT's share of the work grows with the length of a
module. Each passing run takes
about three minutes or less on two cores.
