----------------------------- MODULE HttpProxy ------------------------------
(***************************************************************************)
(* The public HTTP listeners (http_proxy.rs): connections and their budget,*)
(* and for every request the route, the rules, the plugins, the tunnel and *)
(* the response, while policies are reloaded and Connectors come and go.   *)
(*                                                                         *)
(* What a message says is reduced to how the proxy goes on with it, and a  *)
(* hostname to the one that all requests name.  A policy configuration is  *)
(* known by the number of the load that compiled it.  A connection has one *)
(* request at a time: the streams of an HTTP/2 connection are like those of*)
(* several connections.                                                    *)
(***************************************************************************)
EXTENDS Integers, Sequences, FiniteSets

CONSTANTS
    HttpConns,      \* client connections
    MaxHttp,        \* http.max_connections
    Tenants,
    HttpPeers,      \* peer Edges in the order of RouteTable::replace
    Self,           \* this Edge
    Configs,        \* the policy configurations, in the order they are loaded
    Slots,          \* plugin -> max_concurrent
    Threads,        \* blocking threads, more than there are plugin slots
    HttpStarts,     \* [connectors, bounds]: who is connected at first, and how
                    \* many moves, reloads, upgrades and conns there are at most
    NoTenant, NoJob, NoClient

Plugins == DOMAIN Slots

\* What a configuration says about a policy, and the job of a request.
PolicyConfig == [enabled : BOOLEAN, enforce : BOOLEAN, plugins : Seq(Plugins)]
Job == [for : HttpConns \cup {NoClient}, set : DOMAIN Configs]

ASSUME HttpAssumption ==
    /\ Slots \in [Plugins -> Nat]
    /\ Configs \in Seq(PolicyConfig) /\ Configs # <<>>
    /\ NoClient \notin HttpConns /\ NoJob \notin Job

HttpEdges == {Self} \cup {HttpPeers[i] : i \in DOMAIN HttpPeers}

VARIABLES
    bounds,         \* what may still happen
    http,           \* connection -> where it is with its request
    upgraded,       \* connections that became tunnels
    rules,          \* Policy.compiled, by its number
    plugins,        \* Policy.plugins, by its number
    slots,          \* per load and plugin, the permits that are left
    jobs,           \* thread -> the plugin job it runs
    connectors,     \* Edge -> the tenant of its Connector
    advertised      \* peer -> the tenant in this Edge's route table

policyVars == <<rules, plugins>>
jobVars == <<slots, jobs>>
routeVars == <<connectors, advertised>>
httpVars == <<bounds, http, upgraded, policyVars, jobVars, routeVars>>

Closed == [at |-> "closed"]
KeepAlive == [at |-> "idle"]

\* PluginSet::load: every load has new semaphores.
NewSlots == [g \in DOMAIN Configs |-> Slots]

HttpInit ==
    /\ \E s \in HttpStarts : bounds = s.bounds /\ connectors = s.connectors
    /\ http = [c \in HttpConns |-> Closed]
    /\ upgraded = 0
    /\ rules = 1 /\ plugins = 1
    /\ slots = NewSlots
    /\ jobs = [t \in Threads |-> NoJob]
    /\ advertised = [e \in HttpEdges \ {Self} |-> connectors[e]]

At(c, stage) == http[c].at = stage
Continue(c, r) == http' = [http EXCEPT ![c] = r]
Spend(what) == bounds[what] > 0 /\ bounds' = [bounds EXCEPT ![what] = @ - 1]

---------------------------------------------------------------------------
(* Connections *)

\* serve_http and serve_https: beyond the budget a connection is dropped.
AcceptHttp(c) ==
    /\ At(c, "closed")
    /\ Cardinality({d \in HttpConns : ~At(d, "closed")}) < MaxHttp
    /\ Spend("conns")
    /\ \/ Continue(c, KeepAlive)
       \/ Continue(c, [at |-> "tls"])
    /\ UNCHANGED <<upgraded, policyVars, jobVars, routeVars>>

\* The handshake ends: failed, timed out, or done.
Handshake(c) ==
    /\ At(c, "tls")
    /\ Continue(c, Closed) \/ Continue(c, KeepAlive)
    /\ UNCHANGED <<bounds, upgraded, policyVars, jobVars, routeVars>>

\* Mutant: the request holds the permits, not the job.
CloseGivesSlots(c) ==
    /\ http[c].at \in {"tls", "idle", "plugins", "opening", "streaming"}
    /\ Continue(c, Closed)
    /\ jobs' = [t \in Threads |-> IF jobs[t] # NoJob /\ jobs[t].for = c
                                    THEN [jobs[t] EXCEPT !.for = NoClient] ELSE jobs[t]]
    /\ slots' = IF At(c, "plugins") THEN [slots EXCEPT ![http[c].set] = Slots] ELSE slots
    /\ UNCHANGED <<bounds, upgraded, policyVars, routeVars>>

\* The connection ends: the client closes it, a read times out, shutdown.  The
\* future of the request is dropped where it waits; a plugin job runs on.
CloseHttp(c) ==
    /\ http[c].at \in {"tls", "idle", "plugins", "opening", "streaming"}
    /\ Continue(c, Closed)
    /\ jobs' = [t \in Threads |-> IF jobs[t] # NoJob /\ jobs[t].for = c
                                    THEN [jobs[t] EXCEPT !.for = NoClient] ELSE jobs[t]]
    /\ UNCHANGED <<bounds, upgraded, policyVars, slots, routeVars>>

---------------------------------------------------------------------------
(* A request *)

\* Router::route: a local Connector always wins; otherwise the advertised
\* peers that have not expired and are not cooling down.
Candidates(usable) ==
    IF connectors[Self] # NoTenant
      THEN <<[edge |-> Self, tenant |-> connectors[Self]]>>
      ELSE LET remote == SelectSeq(HttpPeers, LAMBDA e : e \in usable /\ advertised[e] # NoTenant)
           IN  [i \in DOMAIN remote |-> [edge |-> remote[i], tenant |-> advertised[remote[i]]]]

\* Validation passes and a route is found.  Otherwise the answer is an error or
\* an ACME challenge response, and the connection is kept.
RouteRequest(c) ==
    /\ At(c, "idle")
    /\ \E usable \in SUBSET (HttpEdges \ {Self}) :
        /\ Candidates(usable) # <<>>
        /\ Continue(c, [at |-> "routed", candidates |-> Candidates(usable),
                        tenant |-> Candidates(usable)[1].tenant])
    /\ UNCHANGED <<bounds, upgraded, policyVars, jobVars, routeVars>>

Opening(c) ==
    [at |-> "opening", candidates |-> http[c].candidates, tenant |-> http[c].tenant, tried |-> 0]

\* Verdict::rejects: a refusal counts only in enforce mode.
Refused(c, g) == Continue(c, IF Configs[g].enforce THEN KeepAlive ELSE Opening(c))

\* evaluate_http loads the rules; blocked addresses and rates refuse.
ApplyRules(c) ==
    /\ At(c, "routed")
    /\ \/ ~Configs[rules].enabled /\ Continue(c, Opening(c))
       \/ Configs[rules].enabled /\ Refused(c, rules)
       \/ Configs[rules].enabled /\ Continue(c, [at |-> "ruled", rules |-> rules,
                                     candidates |-> http[c].candidates, tenant |-> http[c].tenant])
    /\ UNCHANGED <<bounds, upgraded, policyVars, jobVars, routeVars>>

\* load_plugins: a policy that is not enabled has none.
Loaded(g) == IF Configs[g].enabled THEN Configs[g].plugins ELSE <<>>

\* decide_plugins loads the plugin set.
LoadSet(c) ==
    /\ At(c, "ruled")
    /\ Continue(c, [at |-> "prepare", rules |-> http[c].rules, set |-> plugins, taken |-> 0,
                    candidates |-> http[c].candidates, tenant |-> http[c].tenant])
    /\ UNCHANGED <<bounds, upgraded, policyVars, jobVars, routeVars>>

\* The permits of the first n plugins of a set are dropped.
GiveSlots(g, n) ==
    slots' = [slots EXCEPT ![g] = [p \in Plugins |->
                @[p] + Cardinality({i \in 1..n : Loaded(g)[i] = p})]]

\* prepare takes a slot of every plugin in order; when one has none left, the
\* others are given back and the request fails as busy.
TakeSlot(c) ==
    /\ At(c, "prepare")
    /\ http[c].taken < Len(Loaded(http[c].set))
    /\ LET g == http[c].set
           p == Loaded(g)[http[c].taken + 1]
       IN  \/ /\ slots[g][p] > 0
              /\ slots' = [slots EXCEPT ![g][p] = @ - 1]
              /\ Continue(c, [http[c] EXCEPT !.taken = @ + 1])
           \/ /\ slots[g][p] = 0
              /\ GiveSlots(g, http[c].taken)
              /\ Refused(c, http[c].rules)
    /\ UNCHANGED <<bounds, upgraded, policyVars, jobs, routeVars>>

\* Without a plugin the request goes on.  Otherwise a blocking thread runs the
\* job, and the permits go with it.
SpawnJob(c) ==
    /\ At(c, "prepare")
    /\ http[c].taken = Len(Loaded(http[c].set))
    /\ \/ /\ http[c].taken = 0
          /\ Continue(c, Opening(c))
          /\ UNCHANGED jobs
       \/ /\ http[c].taken > 0
          /\ \E t \in Threads :
              /\ jobs[t] = NoJob
              /\ \A u \in Threads : jobs[u] = NoJob => t <= u
              /\ jobs' = [jobs EXCEPT ![t] = [for |-> c, set |-> http[c].set]]
          /\ Continue(c, [http[c] EXCEPT !.at = "plugins"])
    /\ UNCHANGED <<bounds, upgraded, policyVars, slots, routeVars>>

\* LoadedPlugin::evaluate; it fails on a trap, its fuel, deadline or memory.
Outcomes == {"allow", "deny", "failed"}

PluginVerdict(c, outcome) ==
    IF outcome = "allow" THEN Continue(c, Opening(c)) ELSE Refused(c, http[c].rules)

\* evaluate_prepared returns: every plugin allows, or the first that does not
\* decides.  The job is dropped, and its permits with it.
FinishJob(t) ==
    /\ jobs[t] # NoJob
    /\ jobs' = [jobs EXCEPT ![t] = NoJob]
    /\ GiveSlots(jobs[t].set, Len(Loaded(jobs[t].set)))
    /\ IF jobs[t].for = NoClient
         THEN UNCHANGED http
         ELSE \E outcome \in Outcomes : PluginVerdict(jobs[t].for, outcome)
    /\ UNCHANGED <<bounds, upgraded, policyVars, routeVars>>

---------------------------------------------------------------------------
(* The tunnel *)

\* Mutant: the peer does not compare the tenants.
ServesAny(candidate) == connectors[candidate.edge] # NoTenant

\* A handle of this Edge is good as long as its Connector is registered, and a
\* peer compares the tenant of its Connector with that of the request.
Serves(candidate) == connectors[candidate.edge] = candidate.tenant

\* Router::open with the next candidate: the stream is opened, or the failure
\* is retryable and another candidate is left, or the answer is 502 or 504.
OpenStream(c) ==
    /\ At(c, "opening")
    /\ LET candidate == http[c].candidates[http[c].tried + 1]
       IN  \/ /\ Serves(candidate)
              /\ Continue(c, [at |-> "streaming", tenant |-> http[c].tenant, tried |-> http[c].tried,
                              to |-> connectors[candidate.edge], routed |-> candidate.tenant])
           \/ /\ http[c].tried + 1 < Len(http[c].candidates)
              /\ Continue(c, [http[c] EXCEPT !.tried = @ + 1])
           \/ Continue(c, KeepAlive)
    /\ UNCHANGED <<bounds, upgraded, policyVars, jobVars, routeVars>>

\* The response is passed on, or the backend fails (502) or is late (504).
Respond(c) ==
    /\ At(c, "streaming")
    /\ Continue(c, KeepAlive)
    /\ UNCHANGED <<bounds, upgraded, policyVars, jobVars, routeVars>>

\* 101: a task of its own copies between client and backend; the connection is
\* done, and its permit is given back.
Upgrade(c) ==
    /\ At(c, "streaming")
    /\ Spend("upgrades")
    /\ upgraded' = upgraded + 1
    /\ Continue(c, Closed)
    /\ UNCHANGED <<policyVars, jobVars, routeVars>>

EndUpgrade ==
    /\ upgraded > 0
    /\ upgraded' = upgraded - 1
    /\ UNCHANGED <<bounds, http, policyVars, jobVars, routeVars>>

---------------------------------------------------------------------------
(* Reloads and routes *)

\* config_reload_loop reloads one configuration after the other.
BeginReload == rules = plugins /\ Spend("reloads") /\ plugins < Len(Configs)

\* Mutant: the rules are stored before the plugins.
StoreRulesFirst ==
    /\ \/ BeginReload /\ rules' = rules + 1 /\ UNCHANGED plugins
       \/ plugins < rules /\ plugins' = rules /\ UNCHANGED <<bounds, rules>>
    /\ UNCHANGED <<http, upgraded, jobVars, routeVars>>

\* Policy::reload, with a configuration that compiles: the plugins are stored,
\* then the rules.  Any error leaves both as they are.
StorePolicy ==
    /\ \/ BeginReload /\ plugins' = plugins + 1 /\ UNCHANGED rules
       \/ rules < plugins /\ rules' = plugins /\ UNCHANGED <<bounds, plugins>>
    /\ UNCHANGED <<http, upgraded, jobVars, routeVars>>

\* A Connector disconnects; a hostname changes hands only after that.
MoveConnector(e) ==
    /\ Spend("moves")
    /\ \E t \in Tenants \cup {NoTenant} :
        /\ connectors[e] # t
        /\ NoTenant \in {connectors[e], t}
        /\ connectors' = [connectors EXCEPT ![e] = t]
    /\ UNCHANGED <<http, upgraded, policyVars, jobVars, advertised>>

\* The route table catches up with a peer, or its route expires.
SyncRoute(e) ==
    /\ advertised[e] # connectors[e]
    /\ advertised' = [advertised EXCEPT ![e] = connectors[e]]
    /\ UNCHANGED <<bounds, http, upgraded, policyVars, jobVars, connectors>>

HttpNext ==
    \/ \E c \in HttpConns :
        \/ AcceptHttp(c) \/ Handshake(c) \/ CloseHttp(c)
        \/ RouteRequest(c) \/ ApplyRules(c) \/ LoadSet(c) \/ TakeSlot(c) \/ SpawnJob(c)
        \/ OpenStream(c) \/ Respond(c) \/ Upgrade(c)
    \/ \E t \in Threads : FinishJob(t)
    \/ EndUpgrade \/ StorePolicy
    \/ \E e \in HttpEdges : MoveConnector(e)
    \/ \E e \in HttpEdges \ {Self} : SyncRoute(e)

HttpSpec == HttpInit /\ [][HttpNext]_httpVars

---------------------------------------------------------------------------
(* Properties *)

\* A request reaches a Connector of the tenant that its route named, however
\* old the route is; and unless a candidate failed first, that is the tenant
\* that the policy was evaluated for.
DeliveredAsRouted ==
    \A c \in HttpConns : At(c, "streaming") =>
        /\ http[c].to = http[c].routed
        /\ http[c].tried = 0 => http[c].to = http[c].tenant

\* During a reload, rules never run with the plugins of an older policy: the
\* plugins that a configuration adds are in force when its rules are.
PluginsNotOlder ==
    \A c \in HttpConns : http[c].at \in {"prepare", "plugins"} => http[c].rules <= http[c].set

\* No more calls of a plugin run than its max_concurrent, also when clients go
\* away while their jobs run on.  Each load has a budget of its own.
PluginBudget ==
    \A g \in DOMAIN Configs, p \in Plugins :
        Cardinality({t \in Threads : jobs[t] # NoJob /\ jobs[t].set = g
                                        /\ \E i \in DOMAIN Loaded(g) : Loaded(g)[i] = p})
          <= Slots[p]

\* No slot is lost, whoever goes away and whatever is reloaded: while no request
\* is being prepared and no job runs, every plugin has all its slots.
SlotsComeBack ==
    (\A c \in HttpConns : ~At(c, "prepare")) /\ (\A t \in Threads : jobs[t] = NoJob)
        => slots = NewSlots
=============================================================================
