--------------------------- MODULE IngressProofs ----------------------------
(***************************************************************************)
(* What an Edge does with the requests of clients: the HTTP proxy, the     *)
(* certificates it answers with and its rate limits, for any number of     *)
(* requests, plugins, policies, reloads, names, certificates, changes of   *)
(* the directory and clients, and any limits.                              *)
(*                                                                         *)
(* HTTP: the free slots of a plugin and the places held by requests and    *)
(* by jobs add up to its limit (SlotsAccounted), also after the client     *)
(* has left (JobsWaitedFor).  What a request has decided at one stage, it  *)
(* still acts on at the next (Staged).                                     *)
(*                                                                         *)
(* Certificates: the property is about the end of a scan, and what the     *)
(* scan has read by then is older than the directory and the entries.      *)
(* That does no harm, because nothing is installed during a scan, so that  *)
(* it still knows what is served (ScanInv), and a name loses its files     *)
(* only by being withdrawn (DirInv).                                       *)
(*                                                                         *)
(* Rate limits: the tokens of clients in a bounded table of buckets are    *)
(* those of a table without bounds. A bucket may go only when it is full   *)
(* again, and a client without one starts with a full one, so that         *)
(* forgetting makes no difference: the property is inductive with the      *)
(* types alone.                                                            *)
(***************************************************************************)
EXTENDS HttpProxy, CertResolver, RateBuckets, FiniteSetTheorems, TLAPS

---------------------------------------------------------------------------
(* HTTP requests and plugin jobs *)

\* What a request has decided at each stage, with the plugin set pl in force:
\* the tenant is that of its first candidate, its rules are not newer than its
\* plugins, and it holds the slots of the first plugins of its set.
Staged(r, pl) ==
    /\ r.at \in {"routed", "ruled", "prepare", "plugins", "opening"} => r.tenant = r.candidates[1].tenant
    /\ r.at = "ruled" => r.rules \in Nat /\ r.rules <= pl
    /\ r.at = "prepare" => /\ DOMAIN r = {"at", "rules", "set", "taken", "candidates", "tenant"}
                           /\ r.set \in DOMAIN Configs /\ r.taken \in 0..Len(Loaded(r.set))
    /\ r.at \in {"prepare", "plugins"} => r.rules <= r.set
    /\ r.at = "opening" => DOMAIN r = {"at", "candidates", "tenant", "tried"} /\ r.tried \in Nat
    /\ r.at = "streaming" => r.to = r.routed /\ (r.tried = 0 => r.to = r.tenant)

\* The places of a set at which a request, or a job, holds a slot of a plugin.
FirstPlaces(g, n, p) == {i \in 1..n : Loaded(g)[i] = p}
RequestPlaces(r, g, p) == IF r.at = "prepare" /\ r.set = g THEN FirstPlaces(g, r.taken, p) ELSE {}
JobPlaces(j, g, p) == IF j # NoJob /\ j.set = g THEN FirstPlaces(g, Len(Loaded(g)), p) ELSE {}

\* The holders, and the places they have with the requests h and the jobs j.
SlotOwners == ({"request"} \X HttpConns) \cup ({"job"} \X Threads)
PlacesOf(x, h, j, g, p) ==
    IF x[1] = "request" THEN RequestPlaces(h[x[2]], g, p) ELSE JobPlaces(j[x[2]], g, p)
Batch(x, I) == {<<x, i>> : i \in I}
HeldIn(h, j, g, p) == UNION {Batch(x, PlacesOf(x, h, j, g, p)) : x \in SlotOwners}
Held(g, p) == HeldIn(http, jobs, g, p)

HttpTypes ==
    /\ DOMAIN http = HttpConns
    /\ rules \in Nat /\ plugins \in DOMAIN Configs /\ rules <= plugins
    /\ slots \in [DOMAIN Configs -> [Plugins -> Nat]]
    /\ jobs \in [Threads -> Job \cup {NoJob}]

\* A request waits for at most one job.
JobsWaitedFor ==
    \A t \in Threads : jobs[t] # NoJob /\ jobs[t].for # NoClient =>
        /\ At(jobs[t].for, "plugins")
        /\ \A u \in Threads : jobs[u] # NoJob /\ jobs[u].for = jobs[t].for => u = t

\* The slots that are left and the ones held are all the slots of a plugin.
SlotsAccounted ==
    \A g \in DOMAIN Configs, p \in Plugins :
        IsFiniteSet(Held(g, p)) /\ slots[g][p] + Cardinality(Held(g, p)) = Slots[p]

HttpInv ==
    /\ HttpTypes /\ JobsWaitedFor /\ SlotsAccounted
    /\ \A c \in HttpConns : Staged(http[c], plugins)

---------------------------------------------------------------------------
(* Slots *)

\* A set has a sequence of plugins.
LEMMA LoadedIs ==
    ASSUME NEW g \in DOMAIN Configs
    PROVE  /\ Loaded(g) \in Seq(Plugins) /\ Len(Loaded(g)) \in Nat
           /\ \A i \in 1..Len(Loaded(g)) : Loaded(g)[i] \in Plugins
<1>1. Configs[g] \in PolicyConfig
  BY HttpAssumption
<1>2. Loaded(g) \in Seq(Plugins)
  BY <1>1 DEF Loaded, PolicyConfig
<1> QED
  BY <1>2

\* Nothing counts as nothing.
LEMMA NothingCounts == IsFiniteSet({}) /\ Cardinality({}) = 0 /\ Cardinality({}) \in Nat
BY FS_EmptySet

\* What is given back and what is held add up as before.
LEMMA Balance ==
    ASSUME NEW free \in Nat, NEW held \in Nat, NEW given \in Nat, NEW total, free + held = total
    PROVE  (free + given) + (held - given + 0) = total
OBVIOUS

\* The first places of a set that have plugin p are finitely many.
LEMMA FirstPlacesCount ==
    ASSUME NEW g, NEW n \in Nat, NEW p
    PROVE  /\ IsFiniteSet(FirstPlaces(g, n, p))
           /\ Cardinality(FirstPlaces(g, n, p)) \in Nat
<1>1. IsFiniteSet(1..n)
  BY FS_Interval
<1>2. FirstPlaces(g, n, p) \in SUBSET (1..n)
  BY Zenon DEF FirstPlaces
<1> QED
  BY Zenon, <1>1, <1>2, FS_Subset, FS_CardinalityType

\* One more plugin is one more place.
LEMMA NextPlace ==
    ASSUME NEW g, NEW n \in Nat, NEW p
    PROVE  Cardinality(FirstPlaces(g, n + 1, p)) =
             Cardinality(FirstPlaces(g, n, p)) + (IF Loaded(g)[n + 1] = p THEN 1 ELSE 0)
<1>1. CASE Loaded(g)[n + 1] = p
  <2>1. FirstPlaces(g, n + 1, p) = FirstPlaces(g, n, p) \cup {n + 1} /\ n + 1 \notin FirstPlaces(g, n, p)
    BY <1>1 DEF FirstPlaces
  <2> QED
    BY <1>1, <2>1, FirstPlacesCount, FS_AddElement
<1>2. CASE Loaded(g)[n + 1] # p
  <2>1. FirstPlaces(g, n + 1, p) = FirstPlaces(g, n, p)
    BY <1>2 DEF FirstPlaces
  <2> QED
    BY <1>2, <2>1, FirstPlacesCount
<1> QED
  BY Zenon, <1>1, <1>2

\* A holder has as many slots as places.
LEMMA BatchCount ==
    ASSUME NEW x, NEW I, IsFiniteSet(I)
    PROVE  IsFiniteSet(Batch(x, I)) /\ Cardinality(Batch(x, I)) = Cardinality(I)
<1> DEFINE f == [i \in I |-> <<x, i>>]
<1>1. f \in Bijection(I, Batch(x, I))
  <2>1. f \in [I -> Batch(x, I)]
    BY Zenon DEF Batch
  <2>2. \A a, b \in I : f[a] = f[b] => a = b
    BY Zenon
  <2>3. \A e \in Batch(x, I) : \E i \in I : f[i] = e
    BY Zenon DEF Batch
  <2> HIDE DEF f
  <2>4. IsInjective(f)
    BY Zenon, <2>1, <2>2 DEF IsInjective
  <2> QED
    BY Zenon, <2>1, <2>3, <2>4 DEF Bijection, Injection, Surjection
<1>2. ExistsBijection(I, Batch(x, I))
  BY Zenon, <1>1 DEF ExistsBijection
<1> QED
  BY Zenon, <1>2, FS_Bijection

\* Some elements are replaced by others.
LEMMA SwapCount ==
    ASSUME NEW H, IsFiniteSet(H), NEW A, IsFiniteSet(A), NEW B, IsFiniteSet(B),
           A \subseteq H, H \cap B \subseteq A
    PROVE  /\ IsFiniteSet((H \ A) \cup B)
           /\ Cardinality((H \ A) \cup B) = Cardinality(H) - Cardinality(A) + Cardinality(B)
<1>1. H \cap A = A /\ (H \ A) \cap B = {}
  BY Zenon
<1>2. IsFiniteSet(H \ A) /\ Cardinality(H \ A) = Cardinality(H) - Cardinality(A)
  <2>1. IsFiniteSet(H \ A) /\ Cardinality(H \ A) = Cardinality(H) - Cardinality(H \cap A)
    BY Zenon, FS_Difference
  <2> QED
    BY Zenon, <1>1, <2>1
<1>3. /\ IsFiniteSet((H \ A) \cup B)
      /\ Cardinality((H \ A) \cup B) = Cardinality(H \ A) + Cardinality(B) - Cardinality((H \ A) \cap B)
  BY Zenon, <1>2, FS_Union
<1>4. Cardinality((H \ A) \cap B) = 0
  BY Zenon, <1>1, FS_EmptySet
<1>5. Cardinality(H) \in Nat /\ Cardinality(A) \in Nat /\ Cardinality(B) \in Nat
  BY Zenon, FS_CardinalityType
<1> QED
  BY <1>2, <1>3, <1>4, <1>5

\* Who holds a slot.
LEMMA HeldHas ==
    ASSUME NEW h, NEW j, NEW g, NEW p, NEW e
    PROVE  e \in HeldIn(h, j, g, p) <=>
             \E x \in SlotOwners : \E i \in PlacesOf(x, h, j, g, p) : e = <<x, i>>
<1>1. e \in HeldIn(h, j, g, p) <=> \E x \in SlotOwners : e \in Batch(x, PlacesOf(x, h, j, g, p))
  BY Zenon DEF HeldIn
<1>2. \A x, I : e \in Batch(x, I) <=> \E i \in I : e = <<x, i>>
  BY Zenon DEF Batch
<1> QED
  BY Zenon, <1>1, <1>2

\* A step that leaves every place to its holder.
LEMMA HeldSame ==
    ASSUME NEW g, NEW p, NEW h, NEW j, NEW h1, NEW j1,
           \A x \in SlotOwners : PlacesOf(x, h1, j1, g, p) = PlacesOf(x, h, j, g, p)
    PROVE  HeldIn(h1, j1, g, p) = HeldIn(h, j, g, p)
<1>1. \A e : e \in HeldIn(h1, j1, g, p) <=> e \in HeldIn(h, j, g, p)
  BY HeldHas
<1> QED
  BY Zenon, <1>1

\* One holder takes slots or gives some back.
LEMMA HolderSwaps ==
    ASSUME NEW g, NEW p, NEW h, NEW j, NEW h1, NEW j1, NEW x \in SlotOwners,
           \A y \in SlotOwners : y # x => PlacesOf(y, h1, j1, g, p) = PlacesOf(y, h, j, g, p),
           IsFiniteSet(HeldIn(h, j, g, p)),
           IsFiniteSet(PlacesOf(x, h, j, g, p)), IsFiniteSet(PlacesOf(x, h1, j1, g, p))
    PROVE  /\ IsFiniteSet(HeldIn(h1, j1, g, p))
           /\ Cardinality(HeldIn(h1, j1, g, p)) = Cardinality(HeldIn(h, j, g, p))
                - Cardinality(PlacesOf(x, h, j, g, p)) + Cardinality(PlacesOf(x, h1, j1, g, p))
<1> DEFINE I == PlacesOf(x, h, j, g, p)
           J == PlacesOf(x, h1, j1, g, p)
           H == HeldIn(h, j, g, p)
           H1 == HeldIn(h1, j1, g, p)
           A == Batch(x, I)
           B == Batch(x, J)
<1>1. \A e : e \in H <=> \E y \in SlotOwners : \E i \in PlacesOf(y, h, j, g, p) : e = <<y, i>>
  BY HeldHas
<1>2. \A e : e \in H1 <=> \E y \in SlotOwners : \E i \in PlacesOf(y, h1, j1, g, p) : e = <<y, i>>
  BY HeldHas
<1>3. (\A e : e \in A <=> \E i \in I : e = <<x, i>>) /\ (\A e : e \in B <=> \E i \in J : e = <<x, i>>)
  BY Zenon DEF Batch
<1> HIDE DEF H, H1, A, B
<1>4. A \subseteq H
  BY Zenon, <1>1, <1>3
<1>5. H \cap B \subseteq A
  <2> SUFFICES ASSUME NEW e \in H, NEW i \in J, e = <<x, i>>
               PROVE  e \in A
    BY Zenon, <1>3
  <2>1. PICK y \in SlotOwners : \E m \in PlacesOf(y, h, j, g, p) : e = <<y, m>>
    BY Zenon, <1>1
  <2> QED
    BY Zenon, <2>1, <1>3
<1>6. ASSUME NEW e PROVE e \in H1 <=> e \in (H \ A) \cup B
  <2>1. ASSUME NEW y \in SlotOwners \ {x}, NEW i, e = <<y, i>>
        PROVE  (e \in H1 <=> e \in H) /\ e \notin A /\ e \notin B
    <3>1. e \in H <=> i \in PlacesOf(y, h, j, g, p)
      BY <1>1, <2>1
    <3>2. e \in H1 <=> i \in PlacesOf(y, h1, j1, g, p)
      BY <1>2, <2>1
    <3> QED
      BY <1>3, <2>1, <3>1, <3>2
  <2>2. ASSUME NEW i, e = <<x, i>>
        PROVE  (e \in H1 <=> e \in B) /\ (e \in H <=> e \in A)
    <3>1. e \in H <=> i \in I
      BY <1>1, <2>2
    <3>2. e \in H1 <=> i \in J
      BY <1>2, <2>2
    <3> QED
      BY <1>3, <2>2, <3>1, <3>2
  <2>3. e \in H \/ e \in H1 \/ e \in B => \E y \in SlotOwners : \E i : e = <<y, i>>
    BY <1>1, <1>2, <1>3
  <2> QED
    BY Zenon, <2>1, <2>2, <2>3
<1>7. H1 = (H \ A) \cup B
  BY Zenon, <1>6
<1>8. IsFiniteSet(A) /\ Cardinality(A) = Cardinality(I) /\ IsFiniteSet(B) /\ Cardinality(B) = Cardinality(J)
  BY Zenon, BatchCount DEF A, B
<1>9. IsFiniteSet(H)
  BY Zenon DEF H
<1>10. IsFiniteSet(H1) /\ Cardinality(H1) = Cardinality(H) - Cardinality(I) + Cardinality(J)
  BY <1>4, <1>5, <1>7, <1>8, <1>9, SwapCount
<1> QED
  BY Zenon, <1>10 DEF H, H1

---------------------------------------------------------------------------
(* Steps of a request *)

\* A request that goes on changes nobody else's stage.
LEMMA OnlyOne ==
    ASSUME HttpTypes, NEW c \in HttpConns, NEW r, Continue(c, r)
    PROVE  /\ DOMAIN http' = HttpConns /\ http'[c] = r
           /\ \A d \in HttpConns \ {c} : http'[d] = http[d]
BY Zenon DEF HttpTypes, Continue

\* Nor anybody else's slots.
LEMMA OwnPlaces ==
    ASSUME HttpTypes, NEW c \in HttpConns, NEW r, Continue(c, r), NEW g, NEW p, NEW j
    PROVE  /\ <<"request", c>> \in SlotOwners
           /\ PlacesOf(<<"request", c>>, http, j, g, p) = RequestPlaces(http[c], g, p)
           /\ PlacesOf(<<"request", c>>, http', j, g, p) = RequestPlaces(r, g, p)
<1>1. <<"request", c>> \in SlotOwners /\ <<"request", c>>[1] = "request" /\ <<"request", c>>[2] = c
  BY Zenon DEF SlotOwners
<1> QED
  BY Zenon, <1>1, OnlyOne DEF PlacesOf

\* A step of a request leaves the places of all other holders alone.
LEMMA OtherPlaces ==
    ASSUME HttpTypes, NEW c \in HttpConns, NEW r, Continue(c, r), NEW g, NEW p, NEW j,
           NEW y \in SlotOwners, y # <<"request", c>>
    PROVE  PlacesOf(y, http', j, g, p) = PlacesOf(y, http, j, g, p)
<1>1. CASE y[1] = "request"
  <2>1. y[2] \in HttpConns \ {c}
    BY <1>1 DEF SlotOwners
  <2>2. http'[y[2]] = http[y[2]]
    BY Zenon, <2>1, OnlyOne
  <2> QED
    BY Zenon, <2>2 DEF PlacesOf
<1>2. CASE y[1] # "request"
  BY Zenon, <1>2 DEF PlacesOf
<1> QED
  BY Zenon, <1>1, <1>2

\* At most the first plugin of a set is next.
LEMMA NoPlaces ==
    ASSUME NEW r, r.at # "prepare" \/ r.taken = 0, NEW g, NEW p
    PROVE  RequestPlaces(r, g, p) = {}
BY DEF RequestPlaces, FirstPlaces

\* A request that holds no slot before and after the step and waits for no job.
LEMMA ContinueKeeps ==
    ASSUME HttpInv, NEW c \in HttpConns, NEW r, Continue(c, r), UNCHANGED <<rules, plugins, slots, jobs>>,
           http[c].at \notin {"prepare", "plugins"}, r.at # "prepare" \/ r.taken = 0, Staged(r, plugins)
    PROVE  HttpInv'
<1>0. HttpTypes /\ JobsWaitedFor /\ SlotsAccounted /\ \A d \in HttpConns : Staged(http[d], plugins)
  BY Zenon DEF HttpInv
<1>1. HttpTypes'
  BY Zenon, <1>0, OnlyOne DEF HttpTypes
<1>2. \A d \in HttpConns : Staged(http'[d], plugins')
  BY Zenon, <1>0, OnlyOne
<1>3. JobsWaitedFor'
  <2> SUFFICES ASSUME NEW t \in Threads, jobs[t] # NoJob, jobs[t].for # NoClient
               PROVE  At(jobs[t].for, "plugins")'
    BY Zenon, <1>0 DEF JobsWaitedFor
  <2>1. At(jobs[t].for, "plugins") /\ jobs[t].for \in HttpConns
    BY Zenon, <1>0 DEF JobsWaitedFor, HttpTypes, Job
  <2> QED
    BY Zenon, <1>0, <2>1, OnlyOne DEF At
<1>4. SlotsAccounted'
  <2> SUFFICES ASSUME NEW g \in DOMAIN Configs, NEW p \in Plugins
               PROVE  Held(g, p)' = Held(g, p)
    BY Zenon, <1>0 DEF SlotsAccounted
  <2>1. RequestPlaces(http[c], g, p) = {} /\ RequestPlaces(r, g, p) = {}
    BY Zenon, NoPlaces
  <2>2. \A x \in SlotOwners : PlacesOf(x, http', jobs, g, p) = PlacesOf(x, http, jobs, g, p)
    <3>1. /\ PlacesOf(<<"request", c>>, http, jobs, g, p) = {}
          /\ PlacesOf(<<"request", c>>, http', jobs, g, p) = {}
      BY <1>0, <2>1, OwnPlaces
    <3>2. \A x \in SlotOwners : x # <<"request", c>> =>
            PlacesOf(x, http', jobs, g, p) = PlacesOf(x, http, jobs, g, p)
      BY <1>0, OtherPlaces
    <3> QED
      BY Zenon, <3>1, <3>2
  <2>3. HeldIn(http', jobs, g, p) = HeldIn(http, jobs, g, p)
    BY <2>2, HeldSame
  <2> QED
    BY Zenon, <2>3 DEF Held
<1> QED
  BY Zenon, <1>1, <1>2, <1>3, <1>4 DEF HttpInv

\* A request that has decided nothing yet, or is over, owes nothing.
LEMMA PlainStages ==
    ASSUME NEW pl
    PROVE  Staged(KeepAlive, pl) /\ Staged(Closed, pl) /\ Staged([at |-> "tls"], pl)
BY Zenon DEF Staged, KeepAlive, Closed

\* A stream is opened for the tenant of the first candidate.
LEMMA OpeningIsStaged ==
    ASSUME NEW c, NEW pl, http[c].tenant = http[c].candidates[1].tenant
    PROVE  Staged(Opening(c), pl) /\ Opening(c).at = "opening"
BY Zenon DEF Staged, Opening

\* Accepting a connection, its handshake and the end of a response leave
\* nothing decided.
LEMMA ConnectionKeeps ==
    ASSUME HttpInv, NEW c \in HttpConns, AcceptHttp(c) \/ Handshake(c) \/ Respond(c) \/ Upgrade(c)
    PROVE  HttpInv'
<1>1. PICK r \in {KeepAlive, Closed, [at |-> "tls"]} : Continue(c, r)
  BY Zenon DEF AcceptHttp, Handshake, Respond, Upgrade
<1>2. http[c].at \notin {"prepare", "plugins"} /\ UNCHANGED <<rules, plugins, slots, jobs>>
  BY Zenon DEF AcceptHttp, Handshake, Respond, Upgrade, At, policyVars, jobVars
<1>3. r.at # "prepare"
  BY DEF KeepAlive, Closed
<1> QED
  BY Zenon, <1>1, <1>2, <1>3, ContinueKeeps, PlainStages

\* The tenant of a request is that of its first candidate.
LEMMA RouteRequestKeeps ==
    ASSUME HttpInv, NEW c \in HttpConns, RouteRequest(c)
    PROVE  HttpInv'
<1>1. PICK usable : Continue(c, [at |-> "routed", candidates |-> Candidates(usable),
                                 tenant |-> Candidates(usable)[1].tenant])
  BY Zenon DEF RouteRequest
<1> DEFINE r == [at |-> "routed", candidates |-> Candidates(usable), tenant |-> Candidates(usable)[1].tenant]
<1>2. http[c].at \notin {"prepare", "plugins"} /\ UNCHANGED <<rules, plugins, slots, jobs>>
  BY Zenon DEF RouteRequest, At, policyVars, jobVars
<1>3. Staged(r, plugins) /\ r.at # "prepare"
  BY Zenon DEF Staged
<1> QED
  BY Zenon, <1>1, <1>2, <1>3, ContinueKeeps

\* The rules in force are not newer than the plugins in force: StorePolicy stores
\* the plugins first.
LEMMA ApplyRulesKeeps ==
    ASSUME HttpInv, NEW c \in HttpConns, ApplyRules(c)
    PROVE  HttpInv'
<1> DEFINE ruled == [at |-> "ruled", rules |-> rules, candidates |-> http[c].candidates, tenant |-> http[c].tenant]
<1>1. http[c].at \notin {"prepare", "plugins"} /\ UNCHANGED <<rules, plugins, slots, jobs>>
  BY Zenon DEF ApplyRules, At, policyVars, jobVars
<1>2. http[c].tenant = http[c].candidates[1].tenant
  BY Zenon DEF ApplyRules, At, HttpInv, Staged
<1>3. Staged(ruled, plugins) /\ ruled.at # "prepare"
  BY Zenon, <1>2 DEF HttpInv, HttpTypes, Staged
<1>4. PICK r \in {Opening(c), KeepAlive, ruled} : Continue(c, r)
  BY Zenon DEF ApplyRules, Refused
<1>5. Staged(r, plugins) /\ r.at # "prepare"
  BY <1>2, <1>3, OpeningIsStaged, PlainStages DEF KeepAlive
<1> QED
  BY Zenon, <1>1, <1>4, <1>5, ContinueKeeps

\* The plugins are loaded after the rules, so they are not older.
LEMMA LoadSetKeeps ==
    ASSUME HttpInv, NEW c \in HttpConns, LoadSet(c)
    PROVE  HttpInv'
<1> DEFINE r == [at |-> "prepare", rules |-> http[c].rules, set |-> plugins, taken |-> 0,
                 candidates |-> http[c].candidates, tenant |-> http[c].tenant]
<1>1. /\ http[c].at \notin {"prepare", "plugins"} /\ UNCHANGED <<rules, plugins, slots, jobs>>
      /\ Continue(c, r) /\ http[c].at = "ruled"
  BY Zenon DEF LoadSet, At, policyVars, jobVars
<1>2. /\ http[c].tenant = http[c].candidates[1].tenant /\ http[c].rules <= plugins
      /\ plugins \in DOMAIN Configs /\ Len(Loaded(plugins)) \in Nat
  BY Zenon, <1>1, LoadedIs DEF HttpInv, HttpTypes, Staged
<1>3. Staged(r, plugins) /\ r.taken = 0
  BY <1>2 DEF Staged
<1> QED
  BY Zenon, <1>1, <1>3, ContinueKeeps

\* A stream goes to the first candidate that takes it.
LEMMA OpenStreamKeeps ==
    ASSUME HttpInv, NEW c \in HttpConns, OpenStream(c)
    PROVE  HttpInv'
<1> DEFINE candidate == http[c].candidates[http[c].tried + 1]
           open == [at |-> "streaming", tenant |-> http[c].tenant, tried |-> http[c].tried,
                    to |-> connectors[candidate.edge], routed |-> candidate.tenant]
           next == [http[c] EXCEPT !.tried = @ + 1]
<1>1. /\ http[c].at \notin {"prepare", "plugins"} /\ UNCHANGED <<rules, plugins, slots, jobs>>
      /\ http[c].at = "opening"
  BY Zenon DEF OpenStream, At, policyVars, jobVars
<1>2. /\ http[c].tenant = http[c].candidates[1].tenant /\ http[c].tried \in Nat
      /\ DOMAIN http[c] = {"at", "candidates", "tenant", "tried"}
  BY Zenon, <1>1 DEF HttpInv, Staged
<1>3. CASE Serves(candidate) /\ Continue(c, open)
  <2>1. /\ connectors[candidate.edge] = candidate.tenant
        /\ http[c].tried = 0 => candidate = http[c].candidates[1]
    BY SMTT(30), <1>2, <1>3 DEF Serves
  <2>2. /\ open.at = "streaming" /\ open.to = open.routed
        /\ open.tried = 0 => open.to = open.tenant
    BY Zenon, <1>2, <2>1
  <2> HIDE DEF open
  <2>3. Staged(open, plugins) /\ open.at # "prepare"
    BY Zenon, <2>2 DEF Staged
  <2> QED
    BY Zenon, <1>1, <1>3, <2>3, ContinueKeeps
<1>4. CASE Continue(c, next)
  <2>1. /\ next.at = "opening" /\ next.tenant = http[c].tenant /\ next.candidates = http[c].candidates
        /\ next.tried = http[c].tried + 1 /\ DOMAIN next = {"at", "candidates", "tenant", "tried"}
    BY Zenon, <1>1, <1>2
  <2> HIDE DEF next
  <2>2. Staged(next, plugins) /\ next.at # "prepare"
    BY <1>2, <2>1 DEF Staged
  <2> QED
    BY Zenon, <1>1, <1>4, <2>2, ContinueKeeps
<1>5. CASE Continue(c, KeepAlive)
  <2>1. KeepAlive.at # "prepare"
    BY Zenon DEF KeepAlive
  <2> QED
    BY Zenon, <1>1, <1>5, <2>1, ContinueKeeps, PlainStages
<1> QED
  BY Zenon, <1>3, <1>4, <1>5 DEF OpenStream

---------------------------------------------------------------------------
(* Slots and jobs *)

\* The client is gone; its job keeps its slots.
LEMMA CloseHttpKeeps ==
    ASSUME HttpInv, NEW c \in HttpConns, CloseHttp(c)
    PROVE  HttpInv'
<1>0. HttpTypes /\ JobsWaitedFor /\ SlotsAccounted /\ \A d \in HttpConns : Staged(http[d], plugins)
  BY Zenon DEF HttpInv
<1>1. /\ Continue(c, Closed) /\ UNCHANGED <<rules, plugins, slots>> /\ http[c].at # "prepare"
      /\ jobs' = [t \in Threads |-> IF jobs[t] # NoJob /\ jobs[t].for = c
                                      THEN [jobs[t] EXCEPT !.for = NoClient] ELSE jobs[t]]
  BY Zenon DEF CloseHttp, policyVars
<1>2. ASSUME NEW t \in Threads
      PROVE  /\ jobs'[t] \in Job \cup {NoJob}
             /\ jobs'[t] = NoJob <=> jobs[t] = NoJob
             /\ jobs[t] # NoJob => jobs'[t].set = jobs[t].set
             /\ jobs[t] # NoJob /\ jobs[t].for = c => jobs'[t].for = NoClient
             /\ jobs[t] # NoJob /\ jobs[t].for # c => jobs'[t] = jobs[t]
  <2>1. jobs[t] \in Job \cup {NoJob}
    BY Zenon, <1>0 DEF HttpTypes
  <2>2. CASE jobs[t] # NoJob /\ jobs[t].for = c
    <3>1. jobs'[t] = [jobs[t] EXCEPT !.for = NoClient] /\ jobs[t] \in Job
      BY Zenon, <1>1, <2>1, <2>2
    <3>2. jobs'[t] \in Job /\ jobs'[t].set = jobs[t].set /\ jobs'[t].for = NoClient
      BY Zenon, <3>1 DEF Job
    <3> QED
      BY Zenon, <2>2, <3>2, HttpAssumption
  <2>3. CASE ~(jobs[t] # NoJob /\ jobs[t].for = c)
    BY Zenon, <1>1, <2>1, <2>3
  <2> QED
    BY Zenon, <2>2, <2>3
<1>3. HttpTypes'
  <2>1. jobs' \in [Threads -> Job \cup {NoJob}]
    BY Zenon, <1>1, <1>2
  <2> QED
    BY Zenon, <1>0, <1>1, <2>1, OnlyOne DEF HttpTypes
<1>4. \A d \in HttpConns : Staged(http'[d], plugins')
  BY Zenon, <1>0, <1>1, OnlyOne, PlainStages
<1>5. JobsWaitedFor'
  <2> SUFFICES ASSUME NEW t \in Threads, jobs'[t] # NoJob, jobs'[t].for # NoClient
               PROVE  /\ http'[jobs'[t].for].at = "plugins"
                      /\ \A u \in Threads : jobs'[u] # NoJob /\ jobs'[u].for = jobs'[t].for => u = t
    BY Zenon DEF JobsWaitedFor, At
  <2>1. jobs[t] # NoJob /\ jobs[t].for # c /\ jobs'[t] = jobs[t]
    BY Zenon, <1>2
  <2>2. At(jobs[t].for, "plugins") /\ jobs[t].for \in HttpConns
    BY Zenon, <1>0, <2>1 DEF JobsWaitedFor, HttpTypes, Job
  <2>3. http'[jobs'[t].for].at = "plugins"
    BY Zenon, <1>0, <1>1, <2>1, <2>2, OnlyOne DEF At
  <2>4. ASSUME NEW u \in Threads, jobs'[u] # NoJob, jobs'[u].for = jobs'[t].for PROVE u = t
    <3>1. jobs[u] # NoJob /\ jobs'[u] = jobs[u]
      BY Zenon, <1>2, <2>4
    <3> QED
      BY Zenon, <1>0, <2>1, <2>4, <3>1 DEF JobsWaitedFor
  <2> QED
    BY Zenon, <2>3, <2>4
<1>6. SlotsAccounted'
  <2> SUFFICES ASSUME NEW g \in DOMAIN Configs, NEW p \in Plugins
               PROVE  Held(g, p)' = Held(g, p)
    BY Zenon, <1>0, <1>1 DEF SlotsAccounted
  <2>1. RequestPlaces(http[c], g, p) = {} /\ RequestPlaces(Closed, g, p) = {}
    BY Zenon, <1>1, NoPlaces DEF Closed
  <2>2. ASSUME NEW x \in SlotOwners PROVE PlacesOf(x, http', jobs', g, p) = PlacesOf(x, http, jobs, g, p)
    <3>1. CASE x = <<"request", c>>
      <4>1. PlacesOf(x, http, jobs, g, p) = {}
        BY <1>0, <1>1, <2>1, <3>1, OwnPlaces
      <4>2. PlacesOf(x, http', jobs', g, p) = {}
        BY <1>0, <1>1, <2>1, <3>1, OwnPlaces
      <4> QED
        BY Zenon, <4>1, <4>2
    <3>2. CASE x # <<"request", c>> /\ x[1] = "request"
      <4>1. PlacesOf(x, http', jobs', g, p) = PlacesOf(x, http, jobs', g, p)
        BY <1>0, <1>1, <3>2, OtherPlaces
      <4> QED
        BY Zenon, <3>2, <4>1 DEF PlacesOf
    <3>3. CASE x[1] # "request"
      <4>1. x[2] \in Threads
        BY Zenon, <3>3 DEF SlotOwners
      <4>2. JobPlaces(jobs'[x[2]], g, p) = JobPlaces(jobs[x[2]], g, p)
        BY Zenon, <1>2, <4>1 DEF JobPlaces
      <4> QED
        BY Zenon, <3>3, <4>2 DEF PlacesOf
    <3> QED
      BY Zenon, <3>1, <3>2, <3>3
  <2>3. HeldIn(http', jobs', g, p) = HeldIn(http, jobs, g, p)
    BY <2>2, HeldSame
  <2> QED
    BY Zenon, <2>3 DEF Held
<1> QED
  BY Zenon, <1>3, <1>4, <1>5, <1>6 DEF HttpInv

\* A request at "prepare" waits for no job.
LEMMA PreparesAlone ==
    ASSUME HttpInv, NEW c \in HttpConns, At(c, "prepare")
    PROVE  /\ http[c].set \in DOMAIN Configs /\ http[c].taken \in Nat
           /\ http[c].taken <= Len(Loaded(http[c].set)) /\ Len(Loaded(http[c].set)) \in Nat
           /\ http[c].tenant = http[c].candidates[1].tenant /\ http[c].rules <= http[c].set
           /\ DOMAIN http[c] = {"at", "rules", "set", "taken", "candidates", "tenant"}
           /\ \A t \in Threads : jobs[t] # NoJob => jobs[t].for # c
<1>1. Staged(http[c], plugins) /\ http[c].at = "prepare"
  BY Zenon DEF HttpInv, At
<1>2. http[c].set \in DOMAIN Configs
  BY Zenon, <1>1 DEF Staged
<1>3. Len(Loaded(http[c].set)) \in Nat
  BY Zenon, <1>2, LoadedIs
<1>4. \A t \in Threads : jobs[t] # NoJob => jobs[t].for # c
  BY Zenon, <1>1, HttpAssumption DEF HttpInv, JobsWaitedFor, At
<1> QED
  BY <1>1, <1>2, <1>3, <1>4 DEF Staged

\* Slots are taken and given back with the places.
LEMMA RequestAccounts ==
    ASSUME HttpInv, NEW c \in HttpConns, NEW r, Continue(c, r), UNCHANGED jobs,
           slots' \in [DOMAIN Configs -> [Plugins -> Nat]],
           \A g \in DOMAIN Configs, p \in Plugins :
              /\ IsFiniteSet(RequestPlaces(http[c], g, p)) /\ IsFiniteSet(RequestPlaces(r, g, p))
              /\ slots'[g][p] = slots[g][p] + Cardinality(RequestPlaces(http[c], g, p))
                                            - Cardinality(RequestPlaces(r, g, p))
    PROVE  SlotsAccounted'
<1>0. HttpTypes /\ SlotsAccounted
  BY Zenon DEF HttpInv
<1> SUFFICES ASSUME NEW g \in DOMAIN Configs, NEW p \in Plugins
             PROVE  IsFiniteSet(Held(g, p))' /\ slots'[g][p] + Cardinality(Held(g, p))' = Slots[p]
  BY Zenon DEF SlotsAccounted
<1> DEFINE I == RequestPlaces(http[c], g, p)
           J == RequestPlaces(r, g, p)
           x == <<"request", c>>
<1>1. /\ x \in SlotOwners
      /\ PlacesOf(x, http, jobs, g, p) = I /\ PlacesOf(x, http', jobs, g, p) = J
      /\ \A y \in SlotOwners : y # x => PlacesOf(y, http', jobs, g, p) = PlacesOf(y, http, jobs, g, p)
  BY SMTT(30), <1>0, OwnPlaces, OtherPlaces
<1>2. IsFiniteSet(I) /\ IsFiniteSet(J) /\ slots'[g][p] = slots[g][p] + Cardinality(I) - Cardinality(J)
  BY Zenon
<1>3. IsFiniteSet(HeldIn(http, jobs, g, p)) /\ slots[g][p] + Cardinality(HeldIn(http, jobs, g, p)) = Slots[p]
  BY Zenon, <1>0 DEF SlotsAccounted, Held
<1> HIDE DEF I, J, x
<1>4. /\ IsFiniteSet(HeldIn(http', jobs, g, p))
      /\ Cardinality(HeldIn(http', jobs, g, p)) = Cardinality(HeldIn(http, jobs, g, p)) - Cardinality(I) + Cardinality(J)
  BY <1>1, <1>2, <1>3, HolderSwaps
<1>5. /\ Cardinality(I) \in Nat /\ Cardinality(J) \in Nat /\ Cardinality(HeldIn(http, jobs, g, p)) \in Nat
      /\ slots[g][p] \in Nat
  BY Zenon, <1>0, <1>2, <1>3, FS_CardinalityType DEF HttpTypes
<1> QED
  BY SMTT(30), <1>2, <1>3, <1>4, <1>5 DEF Held

\* A request holds slots while it prepares its job, and at no other stage.
LEMMA RequestPlacesCount ==
    ASSUME HttpInv, NEW c \in HttpConns, NEW g, NEW p
    PROVE  /\ IsFiniteSet(RequestPlaces(http[c], g, p))
           /\ ~At(c, "prepare") => RequestPlaces(http[c], g, p) = {}
           /\ At(c, "prepare") => RequestPlaces(http[c], g, p) =
                IF g = http[c].set THEN FirstPlaces(g, http[c].taken, p) ELSE {}
<1>1. At(c, "prepare") => IsFiniteSet(FirstPlaces(g, http[c].taken, p))
  BY Zenon, PreparesAlone, FirstPlacesCount
<1> QED
  BY Zenon, <1>1, FS_EmptySet DEF RequestPlaces, At

\* A request at "prepare" goes on alone.
LEMMA PreparedKeeps ==
    ASSUME HttpInv, NEW c \in HttpConns, At(c, "prepare"), NEW r, Continue(c, r), Staged(r, plugins),
           UNCHANGED <<rules, plugins, jobs>>, slots' \in [DOMAIN Configs -> [Plugins -> Nat]],
           \A g \in DOMAIN Configs, p \in Plugins :
              /\ IsFiniteSet(RequestPlaces(r, g, p))
              /\ slots'[g][p] = slots[g][p] + Cardinality(RequestPlaces(http[c], g, p))
                                            - Cardinality(RequestPlaces(r, g, p))
    PROVE  HttpInv'
<1>0. HttpTypes /\ JobsWaitedFor /\ \A d \in HttpConns : Staged(http[d], plugins)
  BY Zenon DEF HttpInv
<1>1. HttpTypes'
  BY Zenon, <1>0, OnlyOne DEF HttpTypes
<1>2. \A d \in HttpConns : Staged(http'[d], plugins')
  BY SMTT(30), <1>0, OnlyOne
<1>3. JobsWaitedFor'
  <2> SUFFICES ASSUME NEW t \in Threads, jobs[t] # NoJob, jobs[t].for # NoClient
               PROVE  At(jobs[t].for, "plugins")'
    BY Zenon, <1>0 DEF JobsWaitedFor
  <2>1. At(jobs[t].for, "plugins") /\ jobs[t].for \in HttpConns
    BY Zenon, <1>0 DEF JobsWaitedFor, HttpTypes, Job
  <2> QED
    BY Zenon, <1>0, <2>1, OnlyOne DEF At
<1>4. SlotsAccounted'
  BY Zenon, RequestPlacesCount, RequestAccounts
<1> QED
  BY Zenon, <1>1, <1>2, <1>3, <1>4 DEF HttpInv

\* Giving back the first n places of a set frees as many slots of each plugin.
LEMMA GiveSlotsIs ==
    ASSUME HttpTypes, NEW g \in DOMAIN Configs, NEW n \in Nat, GiveSlots(g, n)
    PROVE  /\ slots' \in [DOMAIN Configs -> [Plugins -> Nat]]
           /\ \A f \in DOMAIN Configs, p \in Plugins :
                slots'[f][p] = slots[f][p] + (IF f = g THEN Cardinality(FirstPlaces(g, n, p)) ELSE 0)
<1>1. slots' = [slots EXCEPT ![g] = [p \in Plugins |-> slots[g][p] + Cardinality(FirstPlaces(g, n, p))]]
  BY Zenon DEF GiveSlots, FirstPlaces
<1>2. \A p \in Plugins : Cardinality(FirstPlaces(g, n, p)) \in Nat
  BY Zenon, FirstPlacesCount
<1>3. [p \in Plugins |-> slots[g][p] + Cardinality(FirstPlaces(g, n, p))] \in [Plugins -> Nat]
  BY <1>2 DEF HttpTypes
<1> QED
  BY <1>1, <1>3 DEF HttpTypes

\* Taking a slot of a plugin of one plugin set leaves every other count alone.
LEMMA OneSlotLess ==
    ASSUME NEW g \in DOMAIN Configs, NEW q \in Plugins, slots \in [DOMAIN Configs -> [Plugins -> Nat]],
           slots[g][q] - 1 \in Nat, slots' = [slots EXCEPT ![g][q] = @ - 1]
    PROVE  /\ slots' \in [DOMAIN Configs -> [Plugins -> Nat]]
           /\ \A f \in DOMAIN Configs, p \in Plugins :
                slots'[f][p] = slots[f][p] - (IF f = g /\ p = q THEN 1 ELSE 0)
<1> DEFINE row == [slots[g] EXCEPT ![q] = @ - 1]
<1>1. row \in [Plugins -> Nat] /\ \A p \in Plugins : row[p] = slots[g][p] - (IF p = q THEN 1 ELSE 0)
  OBVIOUS
<1>2. slots' = [slots EXCEPT ![g] = row]
  BY Zenon
<1> HIDE DEF row
<1> QED
  BY <1>1, <1>2

\* One slot is taken, or none and all that were taken are given back.
LEMMA TakeSlotKeeps ==
    ASSUME HttpInv, NEW c \in HttpConns, TakeSlot(c)
    PROVE  HttpInv'
<1> DEFINE g == http[c].set
           n == http[c].taken
           q == Loaded(g)[n + 1]
           more == [http[c] EXCEPT !.taken = @ + 1]
<1>0. HttpTypes /\ At(c, "prepare") /\ UNCHANGED <<rules, plugins, jobs>> /\ n < Len(Loaded(g))
  BY Zenon DEF HttpInv, TakeSlot, policyVars
<1>1. /\ g \in DOMAIN Configs /\ n \in Nat /\ Len(Loaded(g)) \in Nat
      /\ http[c].tenant = http[c].candidates[1].tenant /\ http[c].rules <= g
      /\ DOMAIN http[c] = {"at", "rules", "set", "taken", "candidates", "tenant"}
  BY Zenon, <1>0, PreparesAlone
<1>2. q \in Plugins
  BY SMTT(30), <1>0, <1>1, LoadedIs
<1>3. CASE slots[g][q] > 0 /\ slots' = [slots EXCEPT ![g][q] = @ - 1] /\ Continue(c, more)
  <2>1. /\ slots' \in [DOMAIN Configs -> [Plugins -> Nat]]
        /\ \A f \in DOMAIN Configs, p \in Plugins :
             slots'[f][p] = slots[f][p] - (IF f = g /\ p = q THEN 1 ELSE 0)
    <3>1. slots[g][q] - 1 \in Nat /\ slots \in [DOMAIN Configs -> [Plugins -> Nat]]
      BY <1>0, <1>1, <1>2, <1>3 DEF HttpTypes
    <3> HIDE DEF g, q
    <3> QED
      BY Zenon, <1>1, <1>2, <1>3, <3>1, OneSlotLess
  <2>2. /\ more.at = "prepare" /\ more.tenant = http[c].tenant /\ more.candidates = http[c].candidates
        /\ more.rules = http[c].rules /\ more.set = g /\ more.taken = n + 1
        /\ DOMAIN more = {"at", "rules", "set", "taken", "candidates", "tenant"}
    BY Zenon, <1>0, <1>1 DEF At
  <2> HIDE DEF more, q
  <2>3. Staged(more, plugins)
    BY <1>0, <1>1, <2>2 DEF Staged
  <2>4. ASSUME NEW f \in DOMAIN Configs, NEW p \in Plugins
        PROVE  /\ IsFiniteSet(RequestPlaces(more, f, p))
               /\ slots'[f][p] = slots[f][p] + Cardinality(RequestPlaces(http[c], f, p))
                                             - Cardinality(RequestPlaces(more, f, p))
    <3>1. CASE f = g
      <4>1. RequestPlaces(http[c], f, p) = FirstPlaces(g, n, p) /\ RequestPlaces(more, f, p) = FirstPlaces(g, n + 1, p)
        BY Zenon, <1>0, <2>2, <3>1 DEF RequestPlaces, At
      <4>2. /\ IsFiniteSet(FirstPlaces(g, n + 1, p)) /\ Cardinality(FirstPlaces(g, n, p)) \in Nat
            /\ Cardinality(FirstPlaces(g, n + 1, p)) = Cardinality(FirstPlaces(g, n, p)) + (IF q = p THEN 1 ELSE 0)
        BY <1>1, FirstPlacesCount, NextPlace DEF q
      <4>3. slots[f][p] \in Nat
        BY Zenon, <1>0 DEF HttpTypes
      <4> QED
        BY <2>1, <3>1, <4>1, <4>2, <4>3
    <3>2. CASE f # g
      <4>1. RequestPlaces(http[c], f, p) = {} /\ RequestPlaces(more, f, p) = {}
        BY Zenon, <2>2, <3>2 DEF RequestPlaces
      <4>2. slots[f][p] \in Nat
        BY Zenon, <1>0 DEF HttpTypes
      <4> QED
        BY <2>1, <3>2, <4>1, <4>2, FS_EmptySet
    <3> QED
      BY Zenon, <3>1, <3>2
  <2> QED
    BY Zenon, <1>0, <1>3, <2>1, <2>3, <2>4, PreparedKeeps
<1>4. CASE GiveSlots(g, n) /\ Refused(c, http[c].rules)
  <2>1. /\ slots' \in [DOMAIN Configs -> [Plugins -> Nat]]
        /\ \A f \in DOMAIN Configs, p \in Plugins :
             slots'[f][p] = slots[f][p] + (IF f = g THEN Cardinality(FirstPlaces(g, n, p)) ELSE 0)
    BY Zenon, <1>0, <1>1, <1>4, GiveSlotsIs
  <2>2. PICK r \in {KeepAlive, Opening(c)} : Continue(c, r)
    BY Zenon, <1>4 DEF Refused
  <2>3. Staged(r, plugins) /\ r.at # "prepare"
    <3>1. Staged(Opening(c), plugins) /\ Opening(c).at = "opening"
      BY Zenon, <1>1, OpeningIsStaged
    <3>2. Staged(KeepAlive, plugins) /\ KeepAlive.at = "idle"
      BY Zenon, PlainStages DEF KeepAlive
    <3> QED
      BY Zenon, <3>1, <3>2
  <2>4. ASSUME NEW f \in DOMAIN Configs, NEW p \in Plugins
        PROVE  /\ IsFiniteSet(RequestPlaces(r, f, p))
               /\ slots'[f][p] = slots[f][p] + Cardinality(RequestPlaces(http[c], f, p))
                                             - Cardinality(RequestPlaces(r, f, p))
    <3>1. RequestPlaces(r, f, p) = {}
      BY Zenon, <2>3, NoPlaces
    <3>2. RequestPlaces(http[c], f, p) = IF f = g THEN FirstPlaces(g, n, p) ELSE {}
      BY Zenon, <1>0 DEF RequestPlaces, At
    <3>3. slots[f][p] \in Nat /\ Cardinality(FirstPlaces(g, n, p)) \in Nat
      BY Zenon, <1>0, <1>1, FirstPlacesCount DEF HttpTypes
    <3> QED
      BY <2>1, <3>1, <3>2, <3>3, FS_EmptySet
  <2> QED
    BY Zenon, <1>0, <2>1, <2>2, <2>3, <2>4, PreparedKeeps
<1> QED
  BY Zenon, <1>3, <1>4 DEF TakeSlot

SetJob(t, v) == jobs' = [jobs EXCEPT ![t] = v]

\* A thread gets a job or ends one.
LEMMA JobPlacesChange ==
    ASSUME HttpTypes, NEW t \in Threads, NEW v, SetJob(t, v), NEW g, NEW p, NEW h
    PROVE  /\ <<"job", t>> \in SlotOwners
           /\ PlacesOf(<<"job", t>>, h, jobs, g, p) = JobPlaces(jobs[t], g, p)
           /\ PlacesOf(<<"job", t>>, h, jobs', g, p) = JobPlaces(v, g, p)
<1>1. <<"job", t>> \in SlotOwners /\ <<"job", t>>[1] # "request" /\ <<"job", t>>[2] = t
  BY Zenon DEF SlotOwners
<1>2. jobs'[t] = v
  BY Zenon DEF HttpTypes, SetJob
<1> QED
  BY Zenon, <1>1, <1>2 DEF PlacesOf

\* A step of a job leaves the places of all other holders alone.
LEMMA OtherJobPlaces ==
    ASSUME HttpTypes, NEW t \in Threads, NEW v, SetJob(t, v), NEW g, NEW p, NEW h,
           NEW y \in SlotOwners, y # <<"job", t>>
    PROVE  PlacesOf(y, h, jobs', g, p) = PlacesOf(y, h, jobs, g, p)
<1>1. CASE y[1] # "request"
  <2>1. y[2] \in Threads \ {t}
    BY <1>1 DEF SlotOwners
  <2>2. jobs'[y[2]] = jobs[y[2]]
    BY Zenon, <2>1 DEF HttpTypes, SetJob
  <2> QED
    BY Zenon, <2>2 DEF PlacesOf
<1>2. CASE y[1] = "request"
  BY Zenon, <1>2 DEF PlacesOf
<1> QED
  BY Zenon, <1>1, <1>2

\* The slots of a request go to its job.
LEMMA SpawnJobKeeps ==
    ASSUME HttpInv, NEW c \in HttpConns, SpawnJob(c)
    PROVE  HttpInv'
<1> DEFINE g == http[c].set
           n == http[c].taken
           waiting == [http[c] EXCEPT !.at = "plugins"]
           job == [for |-> c, set |-> g]
<1>0. /\ HttpTypes /\ JobsWaitedFor /\ SlotsAccounted /\ \A d \in HttpConns : Staged(http[d], plugins)
      /\ At(c, "prepare") /\ UNCHANGED <<rules, plugins, slots>> /\ n = Len(Loaded(g))
  BY Zenon DEF HttpInv, SpawnJob, policyVars
<1>1. /\ g \in DOMAIN Configs /\ n \in Nat
      /\ http[c].tenant = http[c].candidates[1].tenant /\ http[c].rules <= g
      /\ DOMAIN http[c] = {"at", "rules", "set", "taken", "candidates", "tenant"}
      /\ \A t \in Threads : jobs[t] # NoJob => jobs[t].for # c
  BY Zenon, <1>0, PreparesAlone
<1>2. CASE n = 0 /\ Continue(c, Opening(c)) /\ UNCHANGED jobs
  <2>1. Staged(Opening(c), plugins) /\ Opening(c).at = "opening"
    BY Zenon, <1>1, OpeningIsStaged
  <2>2. ASSUME NEW f \in DOMAIN Configs, NEW p \in Plugins
        PROVE  /\ IsFiniteSet(RequestPlaces(Opening(c), f, p))
               /\ slots'[f][p] = slots[f][p] + Cardinality(RequestPlaces(http[c], f, p))
                                             - Cardinality(RequestPlaces(Opening(c), f, p))
    <3>1. RequestPlaces(Opening(c), f, p) = {} /\ RequestPlaces(http[c], f, p) = {}
      BY Zenon, <1>2, <2>1, NoPlaces
    <3>2. slots[f][p] \in Nat /\ slots'[f][p] = slots[f][p]
      BY Zenon, <1>0 DEF HttpTypes
    <3> QED
      BY <3>1, <3>2, FS_EmptySet
  <2>3. slots' \in [DOMAIN Configs -> [Plugins -> Nat]]
    BY Zenon, <1>0 DEF HttpTypes
  <2> QED
    BY Zenon, <1>0, <1>2, <2>1, <2>2, <2>3, PreparedKeeps
<1>3. ASSUME NEW t \in Threads, jobs[t] = NoJob, SetJob(t, job), Continue(c, waiting)
      PROVE  HttpInv'
  <2>1. /\ waiting.at = "plugins" /\ waiting.tenant = http[c].tenant /\ waiting.candidates = http[c].candidates
        /\ waiting.rules = http[c].rules /\ waiting.set = g
    BY Zenon, <1>1
  <2>2. job \in Job /\ job # NoJob /\ job.for = c /\ job.set = g
    BY <1>1, HttpAssumption DEF Job
  <2> HIDE DEF waiting, job
  <2>3. Staged(waiting, plugins)
    BY Zenon, <1>1, <2>1 DEF Staged
  <2>4. jobs'[t] = job /\ jobs' \in [Threads -> Job \cup {NoJob}] /\ \A u \in Threads \ {t} : jobs'[u] = jobs[u]
    BY Zenon, <1>0, <1>3, <2>2 DEF HttpTypes, SetJob
  <2>5. HttpTypes'
    BY Zenon, <1>0, <1>3, <2>4, OnlyOne DEF HttpTypes
  <2>6. \A d \in HttpConns : Staged(http'[d], plugins')
    BY Zenon, <1>0, <1>3, <2>3, OnlyOne
  <2>7. JobsWaitedFor'
    <3> SUFFICES ASSUME NEW u \in Threads, jobs'[u] # NoJob, jobs'[u].for # NoClient
                 PROVE  /\ http'[jobs'[u].for].at = "plugins"
                        /\ \A w \in Threads : jobs'[w] # NoJob /\ jobs'[w].for = jobs'[u].for => w = u
      BY Zenon DEF JobsWaitedFor, At
    <3>1. http'[c].at = "plugins"
      BY Zenon, <1>0, <1>3, <2>1, OnlyOne
    <3>2. CASE u = t
      BY Zenon, <1>1, <2>2, <2>4, <3>1, <3>2
    <3>3. CASE u # t
      <4>1. /\ jobs'[u] = jobs[u] /\ jobs[u] # NoJob /\ jobs[u].for # c /\ jobs[u].for \in HttpConns
            /\ http[jobs[u].for].at = "plugins"
        BY SMTT(30), <1>0, <1>1, <2>4, <3>3 DEF JobsWaitedFor, HttpTypes, Job, At
      <4>2. http'[jobs[u].for].at = "plugins"
        BY Zenon, <1>0, <1>3, <4>1, OnlyOne
      <4>3. ASSUME NEW w \in Threads, jobs'[w] # NoJob, jobs'[w].for = jobs'[u].for PROVE w = u
        BY Zenon, <1>0, <2>2, <2>4, <4>1, <4>3 DEF JobsWaitedFor
      <4> QED
        BY Zenon, <4>1, <4>2, <4>3
    <3> QED
      BY Zenon, <3>2, <3>3
  <2>8. SlotsAccounted'
    <3> SUFFICES ASSUME NEW f \in DOMAIN Configs, NEW p \in Plugins
                 PROVE  IsFiniteSet(Held(f, p))' /\ Cardinality(Held(f, p))' = Cardinality(Held(f, p))
      BY Zenon, <1>0 DEF SlotsAccounted
    <3> DEFINE I == IF f = g THEN FirstPlaces(g, n, p) ELSE {}
    <3>1. RequestPlaces(http[c], f, p) = I /\ RequestPlaces(waiting, f, p) = {}
      BY Zenon, <1>0, <2>1 DEF RequestPlaces, At
    <3>2. JobPlaces(jobs[t], f, p) = {} /\ JobPlaces(job, f, p) = I
      BY Zenon, <1>0, <1>3, <2>2 DEF JobPlaces
    <3>3. IsFiniteSet(I) /\ Cardinality(I) \in Nat /\ IsFiniteSet({}) /\ Cardinality({}) = 0
      BY SMTT(30), <1>1, FirstPlacesCount, FS_EmptySet
    <3>4. IsFiniteSet(HeldIn(http, jobs, f, p)) /\ Cardinality(HeldIn(http, jobs, f, p)) \in Nat
      BY Zenon, <1>0, FS_CardinalityType DEF SlotsAccounted, Held
    <3> DEFINE x == <<"request", c>>
               z == <<"job", t>>
               J == {}
    <3> HIDE DEF I
    <3>5. /\ x \in SlotOwners
          /\ PlacesOf(x, http, jobs, f, p) = I /\ PlacesOf(x, http', jobs, f, p) = J
      BY <1>0, <1>3, <3>1, OwnPlaces
    <3>6. \A y \in SlotOwners : y # x => PlacesOf(y, http', jobs, f, p) = PlacesOf(y, http, jobs, f, p)
      BY <1>0, <1>3, OtherPlaces
    <3>7. /\ z \in SlotOwners
          /\ PlacesOf(z, http', jobs, f, p) = J /\ PlacesOf(z, http', jobs', f, p) = I
      BY <1>0, <1>3, <3>2, JobPlacesChange
    <3>8. \A y \in SlotOwners : y # z => PlacesOf(y, http', jobs', f, p) = PlacesOf(y, http', jobs, f, p)
      BY <1>0, <1>3, OtherJobPlaces
    <3>9. IsFiniteSet(J) /\ Cardinality(J) = 0
      BY Zenon, <3>3
    <3> HIDE DEF x, z, J
    <3>10. /\ IsFiniteSet(HeldIn(http', jobs, f, p))
          /\ Cardinality(HeldIn(http', jobs, f, p)) = Cardinality(HeldIn(http, jobs, f, p)) - Cardinality(I) + Cardinality(J)
      BY SMTT(30), <3>3, <3>9, <3>4, <3>5, <3>6, HolderSwaps
    <3>11. /\ IsFiniteSet(HeldIn(http', jobs', f, p))
           /\ Cardinality(HeldIn(http', jobs', f, p)) =
                Cardinality(HeldIn(http', jobs, f, p)) - Cardinality(J) + Cardinality(I)
      BY SMTT(30), <3>3, <3>9, <3>7, <3>8, <3>10, HolderSwaps
    <3> QED
      BY SMTT(30), <3>3, <3>9, <3>4, <3>10, <3>11 DEF Held
  <2> QED
    BY Zenon, <2>5, <2>6, <2>7, <2>8 DEF HttpInv
<1> QED
  BY Zenon, <1>2, <1>3 DEF SpawnJob, SetJob

\* A job ends: its slots are free again, and its request goes on.
LEMMA FinishJobKeeps ==
    ASSUME HttpInv, NEW t \in Threads, FinishJob(t)
    PROVE  HttpInv'
<1> DEFINE g == jobs[t].set
           n == Len(Loaded(g))
           c == jobs[t].for
<1>0. /\ HttpTypes /\ JobsWaitedFor /\ SlotsAccounted /\ \A d \in HttpConns : Staged(http[d], plugins)
      /\ jobs[t] # NoJob /\ SetJob(t, NoJob) /\ GiveSlots(g, n) /\ UNCHANGED <<rules, plugins>>
  BY Zenon DEF HttpInv, FinishJob, policyVars, SetJob
<1>1. g \in DOMAIN Configs /\ n \in Nat /\ (c # NoClient => c \in HttpConns /\ http[c].at = "plugins")
  <2>1. jobs[t] \in Job
    BY Zenon, <1>0 DEF HttpTypes
  <2>2. g \in DOMAIN Configs /\ (c # NoClient => c \in HttpConns)
    BY Zenon, <2>1 DEF Job
  <2> QED
    BY Zenon, <1>0, <2>2, LoadedIs DEF JobsWaitedFor, At
<1>2. /\ slots' \in [DOMAIN Configs -> [Plugins -> Nat]]
      /\ \A f \in DOMAIN Configs, p \in Plugins :
           slots'[f][p] = slots[f][p] + (IF f = g THEN Cardinality(FirstPlaces(g, n, p)) ELSE 0)
  BY Zenon, <1>0, <1>1, GiveSlotsIs
<1>3. /\ jobs'[t] = NoJob /\ jobs' \in [Threads -> Job \cup {NoJob}]
      /\ \A u \in Threads \ {t} : jobs'[u] = jobs[u]
  BY Zenon, <1>0 DEF HttpTypes, SetJob
<1>4. \/ UNCHANGED http /\ c = NoClient
      \/ c # NoClient /\ \E r \in {KeepAlive, Opening(c)} : Continue(c, r)
  BY Zenon DEF FinishJob, PluginVerdict, Refused
<1>5. /\ DOMAIN http' = HttpConns
      /\ \A d \in HttpConns : d # c => http'[d] = http[d]
      /\ c # NoClient => http'[c].at # "prepare" /\ Staged(http'[c], plugins)
  <2>1. CASE UNCHANGED http /\ c = NoClient
    BY Zenon, <1>0, <2>1 DEF HttpTypes
  <2>2. ASSUME c # NoClient, NEW r \in {KeepAlive, Opening(c)}, Continue(c, r)
        PROVE  /\ DOMAIN http' = HttpConns
               /\ \A d \in HttpConns : d # c => http'[d] = http[d]
               /\ http'[c].at # "prepare" /\ Staged(http'[c], plugins)
    <3>1. http[c].tenant = http[c].candidates[1].tenant
      BY Zenon, <1>0, <1>1, <2>2 DEF Staged
    <3>2. Staged(Opening(c), plugins) /\ Opening(c).at = "opening"
      BY Zenon, <3>1, OpeningIsStaged
    <3>3. Staged(KeepAlive, plugins) /\ KeepAlive.at = "idle"
      BY Zenon, PlainStages DEF KeepAlive
    <3>4. DOMAIN http' = HttpConns /\ http'[c] = r /\ \A d \in HttpConns \ {c} : http'[d] = http[d]
      BY Zenon, <1>0, <1>1, <2>2, OnlyOne
    <3>5. Staged(r, plugins) /\ r.at # "prepare"
      BY Zenon, <2>2, <3>2, <3>3
    <3> QED
      BY Zenon, <3>4, <3>5
  <2> QED
    BY Zenon, <1>4, <2>1, <2>2
<1>6. HttpTypes'
  BY Zenon, <1>0, <1>2, <1>3, <1>5 DEF HttpTypes
<1>7. \A d \in HttpConns : Staged(http'[d], plugins')
  <2>1. NoClient \notin HttpConns
    BY Zenon, HttpAssumption
  <2> QED
    BY Zenon, <1>0, <1>5, <2>1
<1>8. JobsWaitedFor'
  <2> SUFFICES ASSUME NEW u \in Threads, jobs'[u] # NoJob, jobs'[u].for # NoClient
               PROVE  /\ http'[jobs'[u].for].at = "plugins"
                      /\ \A w \in Threads : jobs'[w] # NoJob /\ jobs'[w].for = jobs'[u].for => w = u
    BY Zenon DEF JobsWaitedFor, At
  <2>1. u # t /\ jobs'[u] = jobs[u] /\ jobs[u].for \in HttpConns /\ http[jobs[u].for].at = "plugins"
    BY Zenon, <1>0, <1>3 DEF JobsWaitedFor, HttpTypes, Job, At
  <2>2. jobs[u].for # c
    BY Zenon, <1>0, <2>1 DEF JobsWaitedFor
  <2>3. http'[jobs'[u].for].at = "plugins"
    BY Zenon, <1>5, <2>1, <2>2
  <2>4. ASSUME NEW w \in Threads, jobs'[w] # NoJob, jobs'[w].for = jobs'[u].for PROVE w = u
    BY Zenon, <1>0, <1>3, <2>1, <2>4 DEF JobsWaitedFor
  <2> QED
    BY Zenon, <2>3, <2>4
<1>9. SlotsAccounted'
  <2> SUFFICES ASSUME NEW f \in DOMAIN Configs, NEW p \in Plugins
               PROVE  IsFiniteSet(Held(f, p))' /\ slots'[f][p] + Cardinality(Held(f, p))' = Slots[p]
    BY Zenon DEF SlotsAccounted
  <2> DEFINE I == IF f = g THEN FirstPlaces(g, n, p) ELSE {}
             J == {}
             z == <<"job", t>>
  <2>1. JobPlaces(jobs[t], f, p) = I /\ JobPlaces(NoJob, f, p) = {}
    BY Zenon, <1>0 DEF JobPlaces
  <2>2. IsFiniteSet(I) /\ Cardinality(I) \in Nat /\ IsFiniteSet(J) /\ Cardinality(J) = 0
    <3>1. IsFiniteSet(FirstPlaces(g, n, p)) /\ Cardinality(FirstPlaces(g, n, p)) \in Nat
      BY Zenon, <1>1, FirstPlacesCount
    <3> QED
      BY Zenon, <3>1, NothingCounts
  <2>3. /\ IsFiniteSet(HeldIn(http, jobs, f, p)) /\ Cardinality(HeldIn(http, jobs, f, p)) \in Nat
        /\ slots[f][p] + Cardinality(HeldIn(http, jobs, f, p)) = Slots[p] /\ slots[f][p] \in Nat
    BY Zenon, <1>0, FS_CardinalityType DEF SlotsAccounted, Held, HttpTypes
  <2>4. slots'[f][p] = slots[f][p] + Cardinality(I)
    BY Zenon, <1>2, <2>2
  <2>5. /\ z \in SlotOwners
        /\ PlacesOf(z, http, jobs, f, p) = I /\ PlacesOf(z, http, jobs', f, p) = J
    BY SMTT(30), <1>0, <2>1, JobPlacesChange
  <2>6. \A y \in SlotOwners : y # z => PlacesOf(y, http, jobs', f, p) = PlacesOf(y, http, jobs, f, p)
    BY <1>0, OtherJobPlaces
  <2>7. ASSUME NEW d \in HttpConns PROVE RequestPlaces(http'[d], f, p) = RequestPlaces(http[d], f, p)
    <3>1. CASE d = c
      <4>1. http'[d].at # "prepare" /\ http[d].at # "prepare"
        BY Zenon, <1>1, <1>5, <3>1, HttpAssumption
      <4> QED
        BY Zenon, <4>1, NoPlaces
    <3>2. CASE d # c
      BY Zenon, <1>5, <3>2
    <3> QED
      BY Zenon, <3>1, <3>2
  <2>8. ASSUME NEW y \in SlotOwners PROVE PlacesOf(y, http', jobs', f, p) = PlacesOf(y, http, jobs', f, p)
    <3>1. y[1] = "request" => y[2] \in HttpConns
      BY Zenon DEF SlotOwners
    <3> QED
      BY Zenon, <2>7, <3>1 DEF PlacesOf
  <2> HIDE DEF I, J, z
  <2>9. /\ IsFiniteSet(HeldIn(http, jobs', f, p))
        /\ Cardinality(HeldIn(http, jobs', f, p)) = Cardinality(HeldIn(http, jobs, f, p)) - Cardinality(I) + Cardinality(J)
    BY SMTT(30), <2>2, <2>3, <2>5, <2>6, HolderSwaps
  <2>10. HeldIn(http', jobs', f, p) = HeldIn(http, jobs', f, p)
    BY <2>8, HeldSame
  <2> QED
    BY <2>2, <2>3, <2>4, <2>9, <2>10 DEF Held
<1> QED
  BY Zenon, <1>6, <1>7, <1>8, <1>9 DEF HttpInv

---------------------------------------------------------------------------
(* Reloads and routes *)

\* New plugins come with slots that nobody holds, and are stored before the rules.
LEMMA StorePolicyKeeps ==
    ASSUME HttpInv, StorePolicy
    PROVE  HttpInv'
<1>0. HttpTypes /\ JobsWaitedFor /\ SlotsAccounted /\ \A c \in HttpConns : Staged(http[c], plugins)
  BY Zenon DEF HttpInv
<1>1. UNCHANGED <<http, slots, jobs>>
  BY Zenon DEF StorePolicy, jobVars
<1>2. /\ rules' \in Nat /\ plugins' \in DOMAIN Configs /\ rules' <= plugins'
      /\ plugins <= plugins' /\ plugins \in Nat /\ plugins' \in Nat
  <2>1. DOMAIN Configs = 1..Len(Configs) /\ Len(Configs) \in Nat
    BY HttpAssumption
  <2> QED
    BY <1>0, <2>1 DEF StorePolicy, BeginReload, HttpTypes
<1>3. HttpTypes'
  BY Zenon, <1>0, <1>1, <1>2 DEF HttpTypes
<1>4. JobsWaitedFor' /\ SlotsAccounted'
  BY Zenon, <1>0, <1>1 DEF JobsWaitedFor, SlotsAccounted, At, Held
<1>5. \A c \in HttpConns : Staged(http'[c], plugins')
  BY <1>0, <1>1, <1>2 DEF Staged
<1> QED
  BY Zenon, <1>3, <1>4, <1>5 DEF HttpInv

\* A Connector that comes or goes changes nothing that a request has decided.
LEMMA ElsewhereKeeps ==
    ASSUME HttpInv, UNCHANGED <<http, rules, plugins, slots, jobs>>
    PROVE  HttpInv'
<1>1. HttpTypes' /\ JobsWaitedFor' /\ SlotsAccounted'
  BY Zenon DEF HttpInv, HttpTypes, JobsWaitedFor, SlotsAccounted, At, Held
<1> QED
  BY Zenon, <1>1 DEF HttpInv

---------------------------------------------------------------------------
(* The theorems *)

\* HttpInv holds in every reachable state.
LEMMA HttpInvariant == HttpSpec => []HttpInv
<1>1. HttpInit => HttpInv
  <2> SUFFICES ASSUME HttpInit PROVE HttpInv
    BY Zenon
  <2>1. \A c \in HttpConns : http[c] = Closed /\ http[c].at = "closed"
    BY Zenon DEF HttpInit, Closed
  <2>2. HttpTypes
    <3>1. DOMAIN Configs = 1..Len(Configs) /\ Len(Configs) \in Nat /\ Len(Configs) > 0
      BY HttpAssumption
    <3> QED
      BY <3>1, HttpAssumption DEF HttpInit, HttpTypes, NewSlots
  <2>3. JobsWaitedFor
    BY Zenon DEF HttpInit, JobsWaitedFor
  <2>4. \A c \in HttpConns : Staged(http[c], plugins)
    BY Zenon, <2>1, PlainStages
  <2>5. ASSUME NEW g \in DOMAIN Configs, NEW p \in Plugins
        PROVE  IsFiniteSet(Held(g, p)) /\ slots[g][p] + Cardinality(Held(g, p)) = Slots[p]
    <3>1. \A x \in SlotOwners : PlacesOf(x, http, jobs, g, p) = {}
      <4>1. \A c \in HttpConns : RequestPlaces(http[c], g, p) = {}
        BY Zenon, <2>1 DEF RequestPlaces
      <4>2. \A t \in Threads : JobPlaces(jobs[t], g, p) = {}
        BY Zenon DEF HttpInit, JobPlaces
      <4>3. \A x \in SlotOwners : (x[1] = "request" /\ x[2] \in HttpConns) \/ (x[1] # "request" /\ x[2] \in Threads)
        BY Zenon DEF SlotOwners
      <4> QED
        BY Zenon, <4>1, <4>2, <4>3 DEF PlacesOf
    <3>2. Held(g, p) = {}
      BY Zenon, <3>1, HeldHas DEF Held
    <3>3. slots[g][p] = Slots[p] /\ Slots[p] \in Nat
      BY Zenon, HttpAssumption DEF HttpInit, NewSlots
    <3> QED
      BY <3>2, <3>3, FS_EmptySet
  <2> QED
    BY Zenon, <2>2, <2>3, <2>4, <2>5 DEF HttpInv, SlotsAccounted
<1>2. HttpInv /\ [HttpNext]_httpVars => HttpInv'
  <2> SUFFICES ASSUME HttpInv, [HttpNext]_httpVars PROVE HttpInv'
    BY Zenon
  <2>1. ASSUME NEW c \in HttpConns,
               \/ AcceptHttp(c) \/ Handshake(c) \/ CloseHttp(c)
               \/ RouteRequest(c) \/ ApplyRules(c) \/ LoadSet(c) \/ TakeSlot(c) \/ SpawnJob(c)
               \/ OpenStream(c) \/ Respond(c) \/ Upgrade(c)
        PROVE  HttpInv'
    BY Zenon, <2>1, ConnectionKeeps, CloseHttpKeeps, RouteRequestKeeps, ApplyRulesKeeps, LoadSetKeeps, TakeSlotKeeps,
       SpawnJobKeeps, OpenStreamKeeps
  <2>2. CASE \/ EndUpgrade \/ \E e \in HttpEdges : MoveConnector(e)
             \/ \E e \in HttpEdges \ {Self} : SyncRoute(e)
             \/ UNCHANGED httpVars
    <3>1. UNCHANGED <<http, rules, plugins, slots, jobs>>
      BY Zenon, <2>2 DEF EndUpgrade, MoveConnector, SyncRoute, httpVars, policyVars, jobVars
    <3> QED
      BY Zenon, <3>1, ElsewhereKeeps
  <2> QED
    BY Zenon, <2>1, <2>2, FinishJobKeeps, StorePolicyKeeps DEF HttpNext
<1> QED
  BY <1>1, <1>2, PTL DEF HttpSpec

\* A stream is opened to a Connector of the tenant that its route named, and
\* without a retry that is the tenant of the policy (Router::open).
THEOREM HttpDeliveredAsRouted == HttpSpec => []DeliveredAsRouted
<1>1. HttpInv => DeliveredAsRouted
  BY Zenon DEF HttpInv, Staged, DeliveredAsRouted, At
<1> QED
  BY <1>1, HttpInvariant, PTL

\* The plugins of a request are not older than its rules (Policy::reload).
THEOREM HttpPluginsNotOlder == HttpSpec => []PluginsNotOlder
<1>1. HttpInv => PluginsNotOlder
  BY Zenon DEF HttpInv, Staged, PluginsNotOlder
<1> QED
  BY <1>1, HttpInvariant, PTL

\* A plugin runs at most max_concurrent times, clients that go away included
\* (prepare, evaluate_prepared).
THEOREM HttpPluginBudget == HttpSpec => []PluginBudget
<1>1. HttpInv => PluginBudget
  <2> SUFFICES ASSUME HttpInv, NEW g \in DOMAIN Configs, NEW p \in Plugins
               PROVE  Cardinality({t \in Threads : jobs[t] # NoJob /\ jobs[t].set = g
                                        /\ \E i \in DOMAIN Loaded(g) : Loaded(g)[i] = p}) <= Slots[p]
    BY Zenon DEF PluginBudget
  <2> DEFINE T == {t \in Threads : jobs[t] # NoJob /\ jobs[t].set = g
                                        /\ \E i \in DOMAIN Loaded(g) : Loaded(g)[i] = p}
             f == [t \in T |-> <<<<"job", t>>, CHOOSE i \in DOMAIN Loaded(g) : Loaded(g)[i] = p>>]
             H == HeldIn(http, jobs, g, p)
  <2>1. IsFiniteSet(H) /\ Cardinality(H) \in Nat /\ slots[g][p] \in Nat /\ slots[g][p] + Cardinality(H) = Slots[p]
    BY Zenon, FS_CardinalityType DEF HttpInv, SlotsAccounted, HttpTypes, Held
  <2>2. ASSUME NEW t \in T PROVE f[t] \in H
    <3>1. (CHOOSE i \in DOMAIN Loaded(g) : Loaded(g)[i] = p) \in JobPlaces(jobs[t], g, p)
      BY LoadedIs DEF JobPlaces, FirstPlaces
    <3>2. <<"job", t>> \in SlotOwners /\ <<"job", t>>[1] # "request" /\ <<"job", t>>[2] = t
      BY Zenon DEF SlotOwners
    <3>3. PlacesOf(<<"job", t>>, http, jobs, g, p) = JobPlaces(jobs[t], g, p)
      BY Zenon, <3>2 DEF PlacesOf
    <3>4. f[t] = <<<<"job", t>>, CHOOSE i \in DOMAIN Loaded(g) : Loaded(g)[i] = p>>
      BY Zenon
    <3> HIDE DEF f, T
    <3> QED
      BY ZenonT(30), <3>1, <3>2, <3>3, <3>4, HeldHas
  <2>3. \A a, b \in T : f[a] = f[b] => a = b
    BY Zenon
  <2> HIDE DEF H, T
  <2>4. f \in [T -> H]
    BY Zenon, <2>2
  <2> HIDE DEF f
  <2>5. f \in Injection(T, H)
    BY Zenon, <2>3, <2>4 DEF Injection, IsInjective
  <2>6. IsFiniteSet(T) /\ Cardinality(T) <= Cardinality(H)
    BY Zenon, <2>1, <2>5, FS_Injection
  <2>7. Cardinality(T) \in Nat
    BY Zenon, <2>6, FS_CardinalityType
  <2>8. Cardinality(T) <= Slots[p]
    BY <2>1, <2>6, <2>7
  <2> QED
    BY Zenon, <2>8 DEF T
<1> QED
  BY <1>1, HttpInvariant, PTL

\* A slot is held by a request in prepare or by a job (evaluate_prepared), so
\* that all slots are back when there is neither.
THEOREM HttpSlotsComeBack == HttpSpec => []SlotsComeBack
<1>1. HttpInv => SlotsComeBack
  <2> SUFFICES ASSUME HttpInv, \A c \in HttpConns : ~At(c, "prepare"), \A t \in Threads : jobs[t] = NoJob
               PROVE  slots = NewSlots
    BY Zenon DEF SlotsComeBack
  <2>1. ASSUME NEW g \in DOMAIN Configs, NEW p \in Plugins
        PROVE  slots[g][p] = Slots[p]
    <3>1. Held(g, p) = {}
      <4>1. \A x \in SlotOwners : PlacesOf(x, http, jobs, g, p) = {}
        BY SMTT(30) DEF SlotOwners, PlacesOf, RequestPlaces, JobPlaces, At
      <4>2. \A x \in SlotOwners : Batch(x, PlacesOf(x, http, jobs, g, p)) = {}
        BY Zenon, <4>1 DEF Batch
      <4> QED
        BY Zenon, <4>2 DEF Held, HeldIn
    <3>2. slots[g][p] \in Nat /\ slots[g][p] + Cardinality(Held(g, p)) = Slots[p]
      BY Zenon DEF HttpInv, HttpTypes, SlotsAccounted
    <3> QED
      BY <3>1, <3>2, FS_EmptySet
  <2>2. slots \in [DOMAIN Configs -> [Plugins -> Nat]] /\ Slots \in [Plugins -> Nat]
    BY Zenon, HttpAssumption DEF HttpInv, HttpTypes
  <2>3. \A g \in DOMAIN Configs : slots[g] = Slots
    BY <2>1, <2>2
  <2> QED
    BY <2>2, <2>3 DEF NewSlots
<1> QED
  BY <1>1, HttpInvariant, PTL

---------------------------------------------------------------------------
(* Certificates *)

OperatorNames == CertNames \ ManagedNames

Scan == [current : [CertNames -> Entry \cup {NoCert}],
         left : SUBSET CertNames,
         next : [CertNames -> Entry \cup {NoCert}]]

CertTypes ==
    /\ entries \in [CertNames -> Entry \cup {NoCert}]
    /\ certDir \in [CertNames -> Certs \cup {Broken, NoCert}]
    /\ reload \in Scan \cup {NoReload}
    /\ installed \in [ManagedNames -> Certs \cup {NoCert}]
    /\ withdrawn \subseteq CertNames

\* Each name has one source.
SourceInv ==
    /\ \A n \in ManagedNames : entries[n] = ManagedEntry(installed[n])
    /\ \A n \in OperatorNames : entries[n] # NoCert => IsByoc(entries[n])

\* A name of an operator that is served has files, unless they were removed.
DirInv ==
    \A n \in OperatorNames \ withdrawn : entries[n] # NoCert => certDir[n] # NoCert

\* What a scan under way knows and still has to do.
ScanInv ==
    reload # NoReload =>
        /\ reload.current = entries
        /\ \A n \in ManagedNames : reload.next[n] = entries[n]
        /\ \A n \in OperatorNames :
            reload.next[n] # NoCert => IsByoc(reload.next[n])
        /\ \A n \in OperatorNames \ withdrawn :
            /\ entries[n] # NoCert => n \in reload.left \/ reload.next[n] # NoCert
            /\ reload.next[n] # NoCert => certDir[n] # NoCert

CertInv == CertTypes /\ SourceInv /\ DirInv /\ ScanInv

---------------------------------------------------------------------------

\* A scan that begins has to read every name that is served from files.
LEMMA StartKeeps == ASSUME CertInv, StartReload PROVE CertInv'
<1> USE DEF CertInv, StartReload
<1> DEFINE next == [n \in CertNames |-> IF IsByoc(entries[n]) THEN NoCert ELSE entries[n]]
<1>1. CertTypes'
  BY Zenon DEF CertTypes, Scan
<1>2. SourceInv' /\ DirInv'
  BY Zenon DEF SourceInv, DirInv, IsByoc
<1>3. /\ reload'.current = entries
      /\ reload'.left = {n \in CertNames : certDir[n] # NoCert}
      /\ reload'.next = next
  BY Zenon
<1>4. \A n \in ManagedNames : next[n] = entries[n]
  <2> SUFFICES ASSUME NEW n \in ManagedNames PROVE ~IsByoc(entries[n])
    BY Zenon DEF CertNames
  <2>1. entries[n] = NoCert \/ entries[n].source = "acme"
    <3>1. entries[n] = ManagedEntry(installed[n])
      BY Zenon DEF SourceInv
    <3>2. installed[n] = NoCert => ManagedEntry(installed[n]) = NoCert
      BY Zenon DEF ManagedEntry
    <3>3. installed[n] # NoCert => ManagedEntry(installed[n]) = [source |-> "acme", cert |-> installed[n]]
      BY Zenon DEF ManagedEntry, Sourced
    <3> HIDE DEF CertInv, StartReload
    <3> QED
      BY <3>1, <3>2, <3>3
  <2> QED
    BY Zenon, <2>1 DEF IsByoc
<1>5. \A n \in OperatorNames : next[n] = NoCert
  BY Zenon DEF SourceInv, OperatorNames
<1>6. ScanInv'
  BY Zenon, <1>3, <1>4, <1>5 DEF ScanInv, DirInv, OperatorNames, IsByoc
<1> QED
  BY Zenon, <1>1, <1>2, <1>6

\* A pair that cannot be used leaves a name what it is served with.
LEMMA ReadKeeps == ASSUME CertInv, NEW n \in CertNames, ReadPair(n) PROVE CertInv'
<1> USE DEF CertInv, ReadPair
<1>1. PairEntry(n) \in Entry \cup {NoCert}
  BY Zenon, CertAssumption DEF PairEntry, CertTypes, Scan, Entry, Sourced
<1>2. /\ reload' \in Scan /\ reload \in Scan
      /\ reload'.current = reload.current
      /\ reload'.left = reload.left \ {n}
      /\ reload'.next = [reload.next EXCEPT ![n] = PairEntry(n)]
  BY Zenon, <1>1 DEF CertTypes, Scan
<1>3. CertTypes' /\ SourceInv' /\ DirInv'
  BY Zenon, <1>2 DEF CertTypes, SourceInv, DirInv, IsByoc
<1>4. n \in ManagedNames => PairEntry(n) = entries[n]
  BY Zenon DEF PairEntry, ScanInv
<1>5. ASSUME n \in OperatorNames
      PROVE  /\ PairEntry(n) # NoCert => IsByoc(PairEntry(n))
             /\ n \notin withdrawn => /\ entries[n] # NoCert => PairEntry(n) # NoCert
                                      /\ PairEntry(n) # NoCert => certDir[n] # NoCert
  <2>1. CASE certDir[n] \in Certs
    <3>1. PairEntry(n) = Sourced("byoc", certDir[n]) /\ PairEntry(n) \in Entry
      BY Zenon, <1>5, <2>1 DEF PairEntry, OperatorNames, Sourced, Entry
    <3> QED
      BY <2>1, <3>1, CertAssumption DEF IsByoc, Sourced
  <2>2. CASE certDir[n] \notin Certs
    BY Zenon, <1>5, <2>2 DEF PairEntry, OperatorNames, ScanInv, SourceInv, DirInv, IsByoc
  <2> QED
    BY Zenon, <2>1, <2>2
<1>6. ScanInv'
  BY <1>2, <1>4, <1>5 DEF ScanInv, Scan, OperatorNames, IsByoc, CertNames
<1> QED
  BY Zenon, <1>3, <1>6

\* A reload ends: the configured certificates are swapped in, the managed ones stay.
LEMMA FinishKeeps == ASSUME CertInv, FinishReload PROVE CertInv'
<1> USE DEF CertInv, FinishReload
<1>1. CertTypes'
  BY Zenon DEF CertTypes, Scan
<1>2. SourceInv' /\ DirInv'
  BY Zenon DEF ScanInv, SourceInv, DirInv, OperatorNames, IsByoc
<1> QED
  BY Zenon, <1>1, <1>2 DEF ScanInv

\* Nothing is installed during a scan.
LEMMA InstallKeeps ==
    ASSUME CertInv, NEW n \in ManagedNames, NEW c \in Certs, InstallCert(n, c) PROVE CertInv'
<1> USE DEF CertInv, InstallCert, Installed
<1>1. CertTypes'
  BY Zenon DEF CertTypes, Sourced, Entry
<1>2. SourceInv' /\ DirInv'
  BY Zenon, CertAssumption DEF CertTypes, SourceInv, DirInv, ManagedEntry, OperatorNames, CertNames, IsByoc
<1> QED
  BY Zenon, <1>1, <1>2 DEF ScanInv

\* An edit of the files on disk touches no entry.
LEMMA EditKeeps ==
    ASSUME CertInv, NEW n \in CertNames, NEW content \in Certs \cup {Broken, NoCert},
           EditFiles(n, content)
    PROVE  CertInv'
<1> USE DEF CertInv, EditFiles
<1>1. CertTypes'
  BY Zenon DEF CertTypes
<1>2. SourceInv' /\ DirInv'
  BY Zenon DEF CertTypes, SourceInv, DirInv, IsByoc, OperatorNames
<1>3. ScanInv'
  BY Zenon DEF CertTypes, ScanInv, IsByoc, OperatorNames
<1> QED
  BY Zenon, <1>1, <1>2, <1>3

\* The invariant is inductive.
LEMMA CertInductive == CertInv /\ [CertNext]_certVars => CertInv'
<1> SUFFICES ASSUME CertInv, [CertNext]_certVars PROVE CertInv'
  BY Zenon
<1>1. CASE UNCHANGED certVars
  BY Zenon, <1>1 DEF certVars, CertInv, CertTypes, SourceInv, DirInv, ScanInv, IsByoc
<1> QED
  BY Zenon, <1>1, StartKeeps, ReadKeeps, FinishKeeps, InstallKeeps, EditKeeps DEF CertNext

\* A name that has a certificate keeps one unless its files are removed, and a
\* managed name is served with the certificate that was installed last.
THEOREM NamesStayServed == CertSpec => CertificatesKept
<1>1. CertInit => CertInv
  BY Zenon, CertAssumption
  DEF CertInit, CertInv, CertTypes, SourceInv, DirInv, ScanInv, ManagedEntry, OperatorNames, CertNames
<1> DEFINE Kept ==
      /\ \A n \in CertNames :
            entries[n] # NoCert /\ n \notin withdrawn => entries'[n] # NoCert
      /\ \A n \in ManagedNames : entries'[n] = ManagedEntry(installed'[n])
<1>2. CertInv /\ CertInv' /\ [CertNext]_certVars => [Kept]_certVars
  <2> SUFFICES ASSUME CertInv, CertInv', [CertNext]_certVars PROVE Kept \/ UNCHANGED certVars
    BY Zenon
  <2>1. \A n \in ManagedNames : entries'[n] = ManagedEntry(installed'[n])
    BY Zenon DEF CertInv, SourceInv
  <2>2. CASE FinishReload
    BY Zenon, <2>1, <2>2 DEF FinishReload, CertInv, ScanInv, OperatorNames
  <2>3. ASSUME NEW n \in ManagedNames, NEW c \in Certs, InstallCert(n, c) PROVE Kept
    <3>1. Sourced("acme", c) # NoCert
      BY CertAssumption DEF Sourced, Entry
    <3> QED
      BY Zenon, <2>1, <2>3, <3>1 DEF InstallCert, Installed, CertInv, CertTypes
  <2>4. CASE UNCHANGED entries
    BY Zenon, <2>1, <2>4
  <2> QED
    BY Zenon, <2>2, <2>3, <2>4 DEF CertNext, StartReload, ReadPair, EditFiles
<1> QED
  BY <1>1, <1>2, CertInductive, PTL DEF CertSpec, CertificatesKept

---------------------------------------------------------------------------
(* Rate limits *)

Bucket == [tokens : 0..Burst, age : Nat]

BucketTypes ==
    /\ buckets \in [Clients -> Bucket \cup {NoBucket}]
    /\ sweepIn \in Nat
    /\ inserting \in [Workers -> (Clients \X Amounts) \cup {NoTake}]
    /\ ideal \in [Clients -> 0..Burst]

BucketInv == BucketTypes /\ BucketsMatchIdeal

---------------------------------------------------------------------------

\* NoBucket is told apart from every bucket.
LEMMA NotABucket == NoBucket \notin Bucket
<1>1. SUFFICES ASSUME NoBucket \in Bucket PROVE FALSE
  BY Zenon
<1>2. NoBucket \in [tokens : Nat, age : Nat]
  BY <1>1, BucketsAssumption DEF Bucket
<1> QED
  BY Zenon, <1>2, BucketsAssumption

\* Bucket::take takes from the stored tokens what it takes from the ideal ones.
LEMMA TakeIsIdeal ==
    ASSUME NEW b \in Bucket, NEW amount \in Amounts
    PROVE  /\ BucketTake(b, amount) \in Bucket
           /\ Refilled(b) \in 0..Burst
           /\ Refilled(BucketTake(b, amount)) = Left(Refilled(b), amount)
BY BucketsAssumption DEF Bucket, BucketTake, Refilled, Left, Least

\* Taking tokens from the bucket that a client has, or gets, keeps the invariant.
LEMMA TakeKeeps ==
    ASSUME BucketInv, NEW c \in Clients, NEW amount \in Amounts, NEW b \in Bucket,
           TakeFrom(b, c, amount), b = IF c \in Stored THEN buckets[c] ELSE NewBucket,
           sweepIn' \in Nat, inserting' \in [Workers -> (Clients \X Amounts) \cup {NoTake}]
    PROVE  BucketInv'
<1>1. ideal[c] = Refilled(b)
  BY BucketsAssumption DEF BucketInv, BucketsMatchIdeal, BucketTypes, NewBucket, Refilled, Least, Stored
<1>2. /\ BucketTake(b, amount) \in Bucket
      /\ Refilled(BucketTake(b, amount)) = Left(ideal[c], amount)
      /\ ideal[c] \in 0..Burst
  BY Zenon, <1>1, TakeIsIdeal
<1>3. BucketTypes'
  <2>1. Left(ideal[c], amount) \in 0..Burst
    BY <1>2, BucketsAssumption DEF Left
  <2> QED
    BY Zenon, <1>2, <2>1 DEF BucketInv, BucketTypes, TakeFrom
<1>4. BucketsMatchIdeal'
  <2> SUFFICES ASSUME NEW d \in Clients
               PROVE  ideal'[d] = IF buckets'[d] # NoBucket THEN Refilled(buckets'[d]) ELSE Burst
    BY Zenon DEF BucketsMatchIdeal, Stored
  <2>1. CASE d = c
    BY Zenon, <2>1, <1>2, NotABucket DEF BucketInv, BucketTypes, TakeFrom
  <2>2. CASE d # c
    BY Zenon, <2>2 DEF BucketInv, BucketTypes, BucketsMatchIdeal, TakeFrom, Stored
  <2> QED
    BY Zenon, <2>1, <2>2
<1> QED
  BY Zenon, <1>3, <1>4 DEF BucketInv

\* A sweep drops full buckets only.
LEMMA SweepKeeps ==
    ASSUME BucketInv, buckets' = Swept, UNCHANGED ideal,
           sweepIn' \in Nat, inserting' \in [Workers -> (Clients \X Amounts) \cup {NoTake}]
    PROVE  BucketInv'
<1>1. BucketTypes'
  BY Zenon DEF BucketInv, BucketTypes, Swept
<1>2. ASSUME NEW c \in Stored, Expendable(buckets[c]), c \in Clients
      PROVE  ideal[c] = Burst
  BY <1>2, BucketsAssumption
  DEF BucketInv, BucketTypes, BucketsMatchIdeal, Stored, Bucket, Expendable, Greatest, FullAfter, Refilled, Least
<1>3. BucketsMatchIdeal'
  BY Zenon, <1>2 DEF BucketInv, BucketTypes, BucketsMatchIdeal, Swept, Stored
<1> QED
  BY Zenon, <1>1, <1>3 DEF BucketInv

\* One token comes back to every client, or its bucket is full.
LEMMA TickKeeps == ASSUME BucketInv, BucketTick PROVE BucketInv'
<1>1. ASSUME NEW b \in Bucket
      PROVE  LET aged == [b EXCEPT !.age = Least(@ + 1, Greatest(FullAfter, IdleTtl))]
             IN  aged \in Bucket /\ Refilled(aged) = Least(Refilled(b) + 1, Burst)
  BY <1>1, BucketsAssumption DEF Bucket, Least, Greatest, FullAfter, Refilled
<1>2. BucketTypes'
  BY <1>1, BucketsAssumption DEF BucketInv, BucketTypes, BucketTick, Stored, Least, Greatest
<1>3. BucketsMatchIdeal'
  <2> SUFFICES ASSUME NEW c \in Clients
               PROVE  ideal'[c] = IF buckets'[c] # NoBucket THEN Refilled(buckets'[c]) ELSE Burst
    BY Zenon DEF BucketsMatchIdeal, Stored
  <2>1. CASE c \in Stored
    BY Zenon, <2>1, <1>1, NotABucket DEF BucketInv, BucketTypes, BucketsMatchIdeal, BucketTick, Stored
  <2>2. CASE c \notin Stored
    BY <2>2, BucketsAssumption DEF BucketInv, BucketTypes, BucketsMatchIdeal, BucketTick, Stored, Least
  <2> QED
    BY Zenon, <2>1, <2>2
<1> QED
  BY Zenon, <1>2, <1>3 DEF BucketInv

\* Whatever the table forgets, sweeps or inserts, every client has the tokens
\* that a table without a size limit would give it.
THEOREM BoundedIsIdeal == BucketSpec => []BucketsMatchIdeal
<1>1. BucketInit => BucketInv
  BY BucketsAssumption DEF BucketInit, BucketInv, BucketTypes, BucketsMatchIdeal, Stored
<1>2. BucketInv /\ [BucketNext]_bucketVars => BucketInv'
  <2> SUFFICES ASSUME BucketInv, [BucketNext]_bucketVars PROVE BucketInv'
    BY Zenon
  <2> USE DEF BucketInv
  <2>1. ASSUME NEW w \in Workers, NEW c \in Clients, NEW amount \in Amounts, TakeStored(w, c, amount)
        PROVE  BucketInv'
    <3>1. buckets[c] \in Bucket /\ TakeFrom(buckets[c], c, amount) /\ c \in Stored
      BY Zenon, <2>1 DEF TakeStored, Stored, BucketTypes
    <3> QED
      BY Zenon, <2>1, <3>1, TakeKeeps DEF TakeStored, BucketTypes
  <2>2. ASSUME NEW w \in Workers, NEW c \in Clients, NEW amount \in Amounts, FindRoom(w, c, amount)
        PROVE  BucketInv'
    BY Zenon, <2>2 DEF FindRoom, BucketTypes, BucketsMatchIdeal, Stored
  <2>3. ASSUME NEW w \in Workers, NEW c \in Clients, NEW amount \in Amounts, SweepFull(w, c, amount)
        PROVE  BucketInv'
    BY Zenon, <2>3, SweepKeeps, BucketsAssumption DEF SweepFull, ClaimFullSweep, BucketTypes
  <2>4. ASSUME NEW w \in Workers, InsertBucket(w) PROVE BucketInv'
    <3> DEFINE c == inserting[w][1]
               b == IF c \in Stored THEN buckets[c] ELSE NewBucket
    <3>1. c \in Clients /\ inserting[w][2] \in Amounts
      BY Zenon, <2>4 DEF InsertBucket, BucketTypes
    <3>2. b \in Bucket
      BY <3>1, BucketsAssumption DEF Stored, NewBucket, Bucket, BucketTypes
    <3>3. TakeFrom(b, c, inserting[w][2])
      BY Zenon, <2>4 DEF InsertBucket
    <3> QED
      BY Zenon, <2>4, <3>1, <3>2, <3>3, TakeKeeps DEF InsertBucket, BucketTypes
  <2>5. CASE SweepBuckets
    BY Zenon, <2>5, SweepKeeps DEF SweepBuckets, BucketTypes
  <2>6. CASE BucketTick
    BY Zenon, <2>6, TickKeeps
  <2>7. CASE UNCHANGED bucketVars
    BY Zenon, <2>7 DEF bucketVars, BucketTypes, BucketsMatchIdeal, Stored
  <2> QED
    BY Zenon, <2>1, <2>2, <2>3, <2>4, <2>5, <2>6, <2>7 DEF BucketNext, RateLimited
<1> QED
  BY <1>1, <1>2, PTL DEF BucketSpec, BucketInv
=============================================================================
