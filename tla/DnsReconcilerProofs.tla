------------------------ MODULE DnsReconcilerProofs -------------------------
(***************************************************************************)
(* The reconciler of DNS records, for any number of Edges, record sets,    *)
(* faults and edits, as long as Valkey keeps its data.                     *)
(*                                                                         *)
(* The state file never goes back to an older writer, since whoever writes *)
(* has just renewed its lease, and a generation that was given to somebody *)
(* else is never renewed (WriterOf). What others have put in place stands, *)
(* because without import the sets that an Edge keeps have values of its   *)
(* own only (OursInv), and Route 53 refuses a batch whose old set is not   *)
(* there. The state file explains what is at the provider (ExplainInv):    *)
(* the intent of a change is in the file before its first call is made,    *)
(* and every call leaves the zone between the two ends of that intent      *)
(* (OnTheWay).                                                             *)
(***************************************************************************)
EXTENDS DnsReconciler, FiniteSetTheorems, TLAPS

State == [writer : Nat, rec : Managed \cup {None}]
Stages == {"run", "track", "get", "intent", "list", "change", "answered", "persist"}

Types ==
    /\ mode \in {"valkey", "single"}
    /\ desired \in Configs /\ Configured(desired)
    /\ zone \in RecordSets /\ file \in State
    /\ lease \in LeaseType /\ lease.gen <= lease.counter
    /\ pc \in [Edges -> Stages] /\ mem \in [Edges -> State] /\ gen \in [Edges -> Nat]
    /\ plan = [e \in Edges |-> plan[e]] /\ calls = [e \in Edges |-> calls[e]]

\* The change that an Edge has decided on, its intent and the calls it has left.
PlanOf(e) ==
    /\ pc[e] \in {"intent", "list", "change", "answered"} =>
        /\ plan[e].from \in RecordSets /\ Supported(plan[e].from)
        /\ plan[e].to \in Configs /\ Configured(plan[e].to)
    /\ pc[e] \in {"list", "change", "answered"} =>
        mem[e].rec # None /\ mem[e].rec.pending = PendingChange(plan[e].from, plan[e].to, FALSE)
    /\ pc[e] = "track" => Tracked(mem[e].rec)
    /\ pc[e] = "change" =>
        /\ calls[e] = [put |-> calls[e].put, del |-> calls[e].del]
        /\ calls[e].put \subseteq plan[e].to \ plan[e].from
        /\ calls[e].del \subseteq {q \in plan[e].from : q[1] \notin ValuesOf(plan[e].to)}

\* An Edge that is in a round and holds the lease with the round's generation.
Active(e) == pc[e] # "run" /\ (mode = "single" \/ HeldBy(lease, e, gen[e]))

\* One that has lost the lease cannot get its generation again, and one whose
\* provider call is under way has not lost it.
WriterOf(e) ==
    /\ mode = "single" /\ pc[e] # "run" => e = SingleWriter
    /\ mode = "valkey" /\ pc[e] # "run" => gen[e] <= lease.counter
    /\ pc[e] = "change" => Active(e)
    /\ Active(e) => file.writer <= mem[e].writer

WriterInv == Types /\ \A e \in Edges : PlanOf(e) /\ WriterOf(e)

-----------------------------------------------------------------------------
(* The decision about a record *)

\* What decide can ask for: a change only of a record set that it supports and
\* recognises, and taking over a record only where that is configured.
LEMMA DecideIs ==
    ASSUME NEW z, NEW rec, NEW d \in Configs, NEW i
    PROVE  LET action == Decide(d, i, z, rec)
           IN  /\ action \in {Leave, Adopt, Forget, NoChange, Apply(z, d)}
               /\ action.kind = "apply" =>
                    /\ action = Apply(z, d) /\ Supported(z)
                    /\ rec = None => z = {} \/ i
                    /\ rec # None => AsLeft(z, rec)
               /\ action.kind = "adopt" => i /\ z = d
               /\ action.kind = "forget" => z = {}
               /\ action.kind = "no_change" => z = d
  BY Zenon, DnsAssumption DEF Decide, Leave, Adopt, Forget, NoChange, Apply

\* A finished change leaves a record of the same type.
LEMMA KnownType ==
    ASSUME NEW rec \in Managed \cup {None}, NEW reported
    PROVE  /\ Known(rec, reported) \in Managed \cup {None}
           /\ HasPending(rec) => Completed(rec) \in Managed
  BY Zenon, DnsAssumption DEF Known, HasPending, Completed, ManagedRecord, Managed, Pending

\* The record that a decision leaves behind has the type of one.
LEMMA NotedType ==
    ASSUME NEW rec \in Managed \cup {None}, zone \in RecordSets,
           NEW action \in {Leave, Adopt, Forget, NoChange, Apply(zone, desired)}
    PROVE  Noted(rec, action) \in Managed \cup {None}
  <1> {} \in RecordSets BY Zenon DEF RecordSets
  <1>1. CASE action = Leave BY Zenon, <1>1 DEF Noted, Leave
  <1>2. CASE action = Adopt BY Zenon, <1>2, DnsAssumption DEF Noted, Adopt, ManagedRecord, Managed
  <1>3. CASE action = Forget BY Zenon, <1>3 DEF Noted, Forget
  <1>4. CASE action = NoChange BY Zenon, <1>4, DnsAssumption DEF Noted, NoChange, Managed
  <1>5. CASE action = Apply(zone, desired) BY Zenon, <1>5 DEF Noted, Apply
  <1> QED BY Zenon, <1>1, <1>2, <1>3, <1>4, <1>5

\* The record with an intent, and after a refusal.
LEMMA IntentType ==
    ASSUME NEW rec \in Managed \cup {None}, NEW action,
           action.from \in RecordSets, action.to \in RecordSets
    PROVE  /\ WithIntent(rec, action) \in Managed
           /\ WithIntent(rec, action).pending = PendingChange(action.from, action.to, FALSE)
           /\ WithIntent(rec, action) # None
  <1> DEFINE P == PendingChange(action.from, action.to, FALSE)
  <1>0. {} \in RecordSets BY Zenon DEF RecordSets
  <1>1. P \in Pending BY Zenon DEF PendingChange, Pending
  <1>2. WithIntent(rec, action) = IF rec = None THEN ManagedRecord({}, {}, P)
                                  ELSE [rec EXCEPT !.pending = P]
    BY Zenon DEF WithIntent
  <1> HIDE DEF P
  <1>3. WithIntent(rec, action) \in Managed /\ WithIntent(rec, action).pending = P
    BY <1>0, <1>1, <1>2 DEF ManagedRecord, Managed
  <1> QED BY Zenon, <1>3, DnsAssumption DEF P

-----------------------------------------------------------------------------
(* The lease *)

\* Only one Edge at a time is active.
LEMMA OneActive ==
    ASSUME WriterInv, NEW e \in Edges, NEW x \in Edges, Active(e), Active(x)
    PROVE  e = x
  BY DnsAssumption DEF WriterInv, WriterOf, Types, Active, HeldBy

\* renew_writer confirms the lease of an active Edge, and of no other.
LEMMA RenewedIs ==
    ASSUME WriterInv, NEW e \in Edges, pc[e] # "run"
    PROVE  /\ Renewed(e) <=> Active(e)
           /\ Renewed(e) => RenewedLease(e) = lease
  <1> (lease \in LeaseType /\ gen[e] \in Nat /\ gen[e] <= lease.counter) \/ mode = "single"
    BY Zenon DEF WriterInv, WriterOf, Types
  <1>1. CASE mode = "single" BY Zenon, <1>1 DEF Renewed, RenewedLease, Active
  <1>2. CASE mode # "single" /\ lease.owner = NoEdge
    BY <1>2, DnsAssumption DEF Renewed, RenewedLease, Active, HeldBy, LeaseAfterAcquire, LeaseType
  <1>3. CASE mode # "single" /\ lease.owner # NoEdge
    BY Zenon, <1>3 DEF Renewed, RenewedLease, Active, HeldBy, LeaseAfterAcquire
  <1> QED BY Zenon, <1>1, <1>2, <1>3

\* What asking for the lease does to it.
LEMMA AcquireIs ==
    ASSUME NEW l \in LeaseType, l.gen <= l.counter, NEW e \in Edges, NEW m \in Nat
    PROVE  LET after == LeaseAfterAcquire(l, e, m)
           IN  /\ after \in LeaseType /\ after.gen <= after.counter /\ l.counter <= after.counter
               /\ l.owner # NoEdge => after = l
               /\ l.owner = NoEdge => after.owner = e /\ m <= after.gen
  BY DEF LeaseAfterAcquire, LeaseType

-----------------------------------------------------------------------------
(* One step of an Edge *)

\* It leaves the other Edges alone, and asks for the lease at most.
Acts(e) ==
    /\ \A x \in Edges \ {e} :
         /\ pc'[x] = pc[x] /\ mem'[x] = mem[x] /\ gen'[x] = gen[x]
         /\ plan'[x] = plan[x] /\ calls'[x] = calls[x]
    /\ \E m \in Nat : lease' \in {lease, LeaseAfterAcquire(lease, e, m)}
    /\ UNCHANGED <<config, desired>>

\* What the step leaves in the Edge's own state has its types.
OwnTypes(e) ==
    /\ zone' \in RecordSets /\ file' \in State
    /\ pc' \in [Edges -> Stages] /\ mem' \in [Edges -> State] /\ gen' \in [Edges -> Nat]
    /\ plan' = [x \in Edges |-> plan'[x]] /\ calls' = [x \in Edges |-> calls'[x]]

EdgeStep(e) == Round(e) \/ CallFails(e) \/ ValkeyFails(e) \/ SaveFails(e) \/ Crash(e)

\* An Edge that does nothing keeps its part of the invariant, because the state
\* file changes only under an active Edge.
LEMMA BystanderKeeps ==
    ASSUME WriterInv, NEW e \in Edges, NEW x \in Edges \ {e}, Acts(e),
           file' # file => Active(e)
    PROVE  /\ PlanOf(x)' /\ WriterOf(x)'
           /\ Active(x)' => Active(x) /\ file' = file
  <1>1. PICK m \in Nat : lease' \in {lease, LeaseAfterAcquire(lease, e, m)} BY Zenon DEF Acts
  <1>2. lease \in LeaseType /\ lease.gen <= lease.counter /\ lease.owner \in Edges \cup {NoEdge}
    BY Zenon DEF WriterInv, Types, LeaseType
  <1>3. /\ lease'.counter \in Nat /\ lease.counter \in Nat /\ lease.counter <= lease'.counter
        /\ lease.owner # NoEdge => lease' = lease
        /\ lease' # lease => lease'.owner = e
    BY <1>1, <1>2, AcquireIs DEF LeaseType
  <1>4. UNCHANGED <<mode, cname>> BY Zenon DEF Acts, config
  <1>5. Active(x)' <=> Active(x) BY <1>2, <1>3, <1>4, DnsAssumption DEF Acts, Active, HeldBy
  <1>6. Active(x) => file' = file BY Zenon, OneActive
  <1>7. PlanOf(x)'
    <2>1. PlanOf(x) BY Zenon DEF WriterInv
    <2> QED BY Zenon, <2>1, <1>4 DEF PlanOf, Acts, Configured
  <1>8. WriterOf(x)'
    <2>1. WriterOf(x) /\ gen[x] \in Nat BY Zenon DEF WriterInv, Types
    <2> QED BY <2>1, <1>3, <1>4, <1>5, <1>6 DEF WriterOf, Acts
  <1> QED BY Zenon, <1>5, <1>6, <1>7, <1>8

\* The invariant after a step of an Edge, from the Edge's own part.
LEMMA OwnPartSuffices ==
    ASSUME WriterInv, NEW e \in Edges, Acts(e), OwnTypes(e), file' # file => Active(e),
           PlanOf(e)', WriterOf(e)'
    PROVE  WriterInv'
  <1>1. PICK m \in Nat : lease' \in {lease, LeaseAfterAcquire(lease, e, m)} BY Zenon DEF Acts
  <1>2. lease' \in LeaseType /\ lease'.gen <= lease'.counter
    BY Zenon, <1>1, AcquireIs DEF WriterInv, Types
  <1>3. mode' = mode /\ desired' = desired /\ cname' = cname BY Zenon DEF Acts, config
  <1>4. Types' BY Zenon, <1>2, <1>3 DEF WriterInv, Types, OwnTypes, Configured
  <1> QED BY Zenon, <1>4, BystanderKeeps DEF WriterInv

\* A round that is over leaves nothing to show.
LEMMA StopKeeps ==
    ASSUME WriterInv, NEW e \in Edges, Stop(e), gen' \in [Edges -> Nat],
           \A x \in Edges \ {e} : gen'[x] = gen[x],
           \E m \in Nat : lease' \in {lease, LeaseAfterAcquire(lease, e, m)},
           UNCHANGED <<config, desired>>, zone' \in RecordSets, file' \in State,
           file' # file => Active(e)
    PROVE  WriterInv' /\ Acts(e) /\ pc'[e] = "run" /\ mem'[e] = NoState
  <1>1. Types BY Zenon DEF WriterInv
  <1>2. pc'[e] = "run" /\ mem'[e] = NoState BY Zenon, <1>1 DEF Stop, Types
  <1>3. Acts(e) BY Zenon, <1>1 DEF Acts, Stop, Types
  <1>4. OwnTypes(e) BY Zenon, <1>1 DEF OwnTypes, Stop, Types, State, NoState, Stages
  <1>5. PlanOf(e)' BY Zenon, <1>2 DEF PlanOf
  <1>6. WriterOf(e)' BY Zenon, <1>2 DEF WriterOf, Active
  <1> QED BY Zenon, <1>2, <1>3, <1>4, <1>5, <1>6, OwnPartSuffices

-----------------------------------------------------------------------------
(* Every step keeps the writer invariant *)

\* What the proof of a step has to show: the Edge leaves the others alone, and
\* writes the state file only while it is active.
Keeps(e) == WriterInv' /\ Acts(e) /\ (file' # file => Active(e))

\* A step that asks for nothing of Valkey and saves nothing.
LEMMA QuietStep ==
    ASSUME WriterInv, NEW e \in Edges, UNCHANGED <<lease, file, gen, config, desired>>,
           NEW s \in Stages, pc' = [pc EXCEPT ![e] = s], s = "change" => Active(e),
           NEW rec \in Managed \cup {None}, mem' = [mem EXCEPT ![e].rec = rec],
           NEW a, plan' = [plan EXCEPT ![e] = a], NEW c, calls' = [calls EXCEPT ![e] = c],
           zone' \in RecordSets, pc[e] # "run", PlanOf(e)'
    PROVE  Keeps(e)
  <1>1. Types /\ mem[e] \in State BY Zenon DEF WriterInv, Types
  <1>2. mem'[e].writer = mem[e].writer /\ mem' \in [Edges -> State] BY Zenon, <1>1 DEF State, Types
  <1>3. OwnTypes(e) BY Zenon, <1>1, <1>2 DEF OwnTypes, Types
  <1>4. Acts(e) BY Zenon, <1>1 DEF Acts, Types
  <1>5. pc'[e] = s /\ gen' = gen /\ mode' = mode BY Zenon, <1>1 DEF Types, config
  <1>6. Active(e)' => Active(e) BY Zenon, <1>5 DEF Active
  <1>7. s = "change" => Active(e)' BY Zenon, <1>5 DEF Active, WriterInv, WriterOf
  <1>8. WriterOf(e)' BY Zenon, <1>2, <1>5, <1>6, <1>7 DEF WriterInv, WriterOf
  <1> QED BY Zenon, <1>3, <1>4, <1>8, OwnPartSuffices DEF Keeps

\* reconcile_provider starts: a grant comes with a generation that is not
\* below the state file's.
LEMMA BeginKeeps ==
    ASSUME WriterInv, NEW e \in Edges, Begin(e)
    PROVE  Keeps(e) /\ mem'[e].rec = file.rec /\ pc'[e] = IF Tracked(file.rec) THEN "track" ELSE "get"
  <1> DEFINE new == WriterGeneration(e)
             after == LeaseAfterAcquire(lease, e, file.writer + 1)
  <1>1. Types /\ file \in State /\ file.writer \in Nat /\ gen[e] \in Nat BY Zenon DEF WriterInv, Types, State
  <1>2. /\ after \in LeaseType /\ after.gen <= after.counter
        /\ after.gen \in Nat /\ after.counter \in Nat
        /\ mode = "valkey" => lease' = after
        /\ mode = "single" => lease' = lease
    BY <1>1, AcquireIs DEF Types, LeaseType, Begin
  <1>3. new \in Nat /\ (mode = "valkey" => new = after.gen)
    BY <1>1, <1>2 DEF WriterGeneration
  <1>4. /\ pc'[e] \in {"track", "get"} /\ gen'[e] = new /\ mem'[e].writer = new
        /\ mem'[e].rec = file.rec /\ mode' = mode /\ file' = file /\ file.writer <= new
        /\ mem'[e] \in State /\ pc'[e] = IF Tracked(file.rec) THEN "track" ELSE "get"
    BY Zenon, <1>1, <1>3 DEF Begin, Types, State, Constant, config
  <1>5. Acts(e)
    <2>1. \E m \in Nat : lease' \in {lease, LeaseAfterAcquire(lease, e, m)}
      BY <1>1, <1>2 DEF Types
    <2> QED BY Zenon, <2>1, <1>1 DEF Acts, Begin, Types, Constant
  <1>6. OwnTypes(e) BY Zenon, <1>1, <1>3, <1>4 DEF OwnTypes, Begin, Types, Stages
  <1>7. PlanOf(e)' BY Zenon, <1>4 DEF PlanOf, Tracked, HasPending
  <1>8. WriterOf(e)' BY Zenon, <1>1, <1>2, <1>3, <1>4 DEF WriterOf, Begin, MayWrite, Types
  <1> QED BY Zenon, <1>4, <1>5, <1>6, <1>7, <1>8, OwnPartSuffices DEF Keeps

\* A submitted change is in sync, or not yet.
LEMMA SyncedKeeps ==
    ASSUME WriterInv, NEW e \in Edges, Synced(e) \/ NotSynced(e)
    PROVE  Keeps(e)
  <1>1. Types /\ mem[e] \in State /\ mem[e].rec \in Managed \cup {None} /\ pc[e] = "track"
    BY Zenon DEF WriterInv, Types, State, Synced, NotSynced, Goto
  <1>2. HasPending(mem[e].rec) BY Zenon, <1>1 DEF WriterInv, PlanOf, Tracked
  <1>3. PICK s \in {"get", "persist"}, rec \in {mem[e].rec, Completed(mem[e].rec)} :
          pc' = [pc EXCEPT ![e] = s] /\ mem' = [mem EXCEPT ![e].rec = rec]
    <2>1. CASE Synced(e) BY Zenon, <2>1 DEF Synced, Goto, Remember
    <2>2. CASE NotSynced(e)
      <3>1. mem' = [mem EXCEPT ![e].rec = mem[e].rec]
        BY Zenon, <2>2, <1>1 DEF NotSynced, Types, State
      <3> QED BY Zenon, <2>2, <3>1 DEF NotSynced, Goto
    <2> QED BY Zenon, <2>1, <2>2
  <1>4. /\ UNCHANGED <<lease, file, gen, config, desired>> /\ zone' \in RecordSets
        /\ plan' = [plan EXCEPT ![e] = plan[e]] /\ calls' = [calls EXCEPT ![e] = calls[e]]
    BY Zenon, <1>1 DEF Synced, NotSynced, Constant, Types
  <1>5. rec \in Managed \cup {None} BY Zenon, <1>1, <1>2, KnownType
  <1>6. PlanOf(e)' BY Zenon, <1>1, <1>3 DEF PlanOf, Types
  <1>7. s \in Stages /\ s # "change" BY Zenon DEF Stages
  <1> QED BY Zenon, <1>1, <1>3, <1>4, <1>5, <1>6, <1>7, QuietStep

\* The decision, for what the provider reports.
Decided(e, reported) ==
    LET known == Known(mem[e].rec, reported)
        action == Decide(desired, import, zone, known)
    IN  /\ Goto(e, "get", IF action.kind = "apply" THEN "intent" ELSE "persist")
        /\ plan' = [plan EXCEPT ![e] = IF action.kind = "apply" THEN action ELSE Leave]
        /\ Remember(e, Noted(known, action))
        /\ UNCHANGED <<lease, file, zone, gen, calls, counters>> /\ Constant

LEMMA DecidedBy ==
    ASSUME NEW e, Get(e)
    PROVE  \E reported \in Reports(zone) : Decided(e, reported)
  BY Zenon DEF Get, Decided

\* reconcile_record decides.
LEMMA GetKeeps ==
    ASSUME WriterInv, NEW e \in Edges, Get(e)
    PROVE  Keeps(e)
  <1>0. PICK reported \in Reports(zone) : Decided(e, reported) BY Zenon, DecidedBy
  <1> DEFINE known == Known(mem[e].rec, reported)
             action == Decide(desired, import, zone, known)
             s == IF action.kind = "apply" THEN "intent" ELSE "persist"
             a == IF action.kind = "apply" THEN action ELSE Leave
  <1>1. Types /\ mem[e] \in State /\ mem[e].rec \in Managed \cup {None} /\ pc[e] = "get"
    BY Zenon, <1>0 DEF WriterInv, Types, State, Decided, Goto
  <1>2. /\ pc' = [pc EXCEPT ![e] = s] /\ plan' = [plan EXCEPT ![e] = a]
        /\ mem' = [mem EXCEPT ![e].rec = Noted(known, action)]
        /\ UNCHANGED <<lease, file, zone, gen, calls, config, desired>>
    BY Zenon, <1>0 DEF Decided, Goto, Remember, Constant
  <1>3. known \in Managed \cup {None} BY Zenon, <1>1, KnownType
  <1>4. /\ action \in {Leave, Adopt, Forget, NoChange, Apply(zone, desired)}
        /\ action.kind = "apply" => action = Apply(zone, desired) /\ Supported(zone)
    <2>1. desired \in Configs BY Zenon, <1>1 DEF Types
    <2> HIDE DEF known
    <2> QED BY <2>1, DecideIs
  <1> HIDE DEF known, action
  <1>5. Noted(known, action) \in Managed \cup {None} BY Zenon, <1>1, <1>3, <1>4, NotedType DEF Types
  <1>6. PlanOf(e)'
    <2>1. pc'[e] = s /\ plan'[e] = a /\ cname' = cname BY Zenon, <1>1, <1>2 DEF Types, config
    <2>2. s = "intent" => a = Apply(zone, desired) /\ Supported(zone) BY Zenon, <1>4
    <2> QED BY <2>1, <2>2, <1>1 DEF PlanOf, Apply, Types, Configured
  <1>7. s \in Stages /\ s # "change" BY Zenon DEF Stages
  <1>8. calls' = [calls EXCEPT ![e] = calls[e]] /\ zone' \in RecordSets BY Zenon, <1>1, <1>2 DEF Types
  <1> HIDE DEF s, a
  <1> QED BY Zenon, <1>1, <1>2, <1>5, <1>6, <1>7, <1>8, QuietStep

\* An Edge that stops because its lease is not confirmed.
LEMMA RestKeeps ==
    ASSUME WriterInv, NEW e \in Edges, Rest(e), zone' \in RecordSets,
           \E m \in Nat : lease' \in {lease, LeaseAfterAcquire(lease, e, m)},
           UNCHANGED <<config, desired>>, file' \in State, file' # file => Active(e)
    PROVE  Keeps(e) /\ pc'[e] = "run" /\ mem'[e] = NoState
  <1>1. Types BY Zenon DEF WriterInv
  <1>2. Stop(e) /\ gen' \in [Edges -> Nat] /\ \A x \in Edges \ {e} : gen'[x] = gen[x]
    BY Zenon, <1>1 DEF Rest, Types
  <1> QED BY Zenon, <1>2, StopKeeps DEF Keeps

\* renew_writer asks for the lease, and for nothing if there is one writer.
LEMMA RenewalAsks ==
    ASSUME WriterInv, NEW e \in Edges
    PROVE  \E m \in Nat : RenewedLease(e) \in {lease, LeaseAfterAcquire(lease, e, m)}
  <1>1. gen[e] \in Nat BY Zenon DEF WriterInv, Types
  <1> QED BY Zenon, <1>1 DEF RenewedLease

\* The intent is saved under a confirmed lease.
LEMMA IntentKeeps ==
    ASSUME WriterInv, NEW e \in Edges, Intent(e)
    PROVE  Keeps(e)
  <1>1. Types /\ mem[e] \in State /\ mem[e].rec \in Managed \cup {None} /\ pc[e] = "intent"
    BY Zenon DEF WriterInv, Types, State, Intent
  <1>2. PlanOf(e) /\ WriterOf(e) BY Zenon DEF WriterInv
  <1>3. plan[e].from \in RecordSets /\ plan[e].to \in RecordSets
    BY Zenon, <1>1, <1>2 DEF PlanOf, RecordSets
  <1> DEFINE rec == WithIntent(mem[e].rec, plan[e])
  <1>4. rec \in Managed /\ rec # None /\ rec.pending = PendingChange(plan[e].from, plan[e].to, FALSE)
    BY Zenon, <1>1, <1>3, IntentType
  <1> HIDE DEF rec
  <1>5. CASE Renewed(e)
    <2>1. /\ pc' = [pc EXCEPT ![e] = "list"] /\ mem' = [mem EXCEPT ![e].rec = rec]
          /\ file' = mem'[e]
          /\ UNCHANGED <<gen, plan, calls, zone, config, desired, lease>>
      BY Zenon, <1>1, <1>5, RenewedIs DEF Intent, Remember, Constant, rec
    <2>2. mem' \in [Edges -> State] /\ mem'[e].writer = mem[e].writer /\ mem'[e].rec = rec
      BY Zenon, <1>1, <1>4, <2>1 DEF Types, State
    <2>3. OwnTypes(e) BY Zenon, <1>1, <2>1, <2>2 DEF OwnTypes, Types, Stages
    <2>4. Acts(e) BY Zenon, <1>1, <2>1 DEF Acts, Types
    <2>5. pc'[e] = "list" /\ plan'[e] = plan[e] BY Zenon, <1>1, <2>1 DEF Types
    <2>6. cname' = cname /\ mode' = mode BY Zenon, <2>1 DEF config
    <2>7. PlanOf(e)' BY Zenon, <1>1, <1>2, <1>4, <2>2, <2>5, <2>6 DEF PlanOf, Configured
    <2>8. mem[e].writer \in Nat BY Zenon, <1>1 DEF State
    <2>9. WriterOf(e)' BY <1>1, <1>2, <2>1, <2>2, <2>5, <2>6, <2>8 DEF WriterOf, Active
    <2>10. Active(e) BY Zenon, <1>1, <1>5, RenewedIs
    <2> QED BY Zenon, <2>3, <2>4, <2>7, <2>9, <2>10, OwnPartSuffices DEF Keeps
  <1>6. CASE ~Renewed(e)
    <2>1. Rest(e) /\ file' = file /\ zone' = zone /\ lease' = RenewedLease(e)
          /\ UNCHANGED <<config, desired>>
      BY Zenon, <1>6 DEF Intent, Constant
    <2> QED BY Zenon, <1>1, <2>1, RenewalAsks, RestKeeps DEF Types
  <1> QED BY Zenon, <1>5, <1>6

\* A refusal drops the intent.
LEMMA RefuseKeeps ==
    ASSUME WriterInv, NEW e \in Edges, pc[e] \in {"list", "change"}, Refuse(e),
           UNCHANGED <<lease, file, config, desired>>
    PROVE  Keeps(e)
  <1>1. Types /\ mem[e] \in State /\ mem[e].rec \in Managed \cup {None}
    BY Zenon DEF WriterInv, Types, State
  <1>2. mem[e].rec # None BY Zenon DEF WriterInv, PlanOf
  <1>3. Refused(mem[e].rec) \in Managed \cup {None} BY Zenon, <1>1, <1>2 DEF Refused, Managed
  <1>4. /\ pc' = [pc EXCEPT ![e] = "persist"]
        /\ mem' = [mem EXCEPT ![e].rec = Refused(mem[e].rec)]
        /\ calls' = [calls EXCEPT ![e] = NoCalls]
        /\ UNCHANGED <<zone, gen, plan>>
    BY Zenon DEF Refuse, Remember
  <1>5. plan' = [plan EXCEPT ![e] = plan[e]] /\ zone' \in RecordSets BY Zenon, <1>1, <1>4 DEF Types
  <1>6. PlanOf(e)' BY Zenon, <1>1, <1>4 DEF PlanOf, Types
  <1>7. "persist" \in Stages BY Zenon DEF Stages
  <1> QED BY Zenon, <1>3, <1>4, <1>5, <1>6, <1>7, QuietStep

\* replace_while_writer begins.
LEMMA ListKeeps ==
    ASSUME WriterInv, NEW e \in Edges, List(e)
    PROVE  Keeps(e)
  <1>1. Types /\ mem[e] \in State /\ mem[e].rec \in Managed \cup {None} /\ pc[e] = "list"
    BY Zenon DEF WriterInv, Types, State, List
  <1>2. CASE ~Renewed(e)
    <2>1. Rest(e) /\ file' = file /\ zone' = zone /\ lease' = RenewedLease(e)
          /\ UNCHANGED <<config, desired>>
      BY Zenon, <1>2 DEF List, Constant
    <2> QED BY Zenon, <1>1, <2>1, RenewalAsks, RestKeeps DEF Types
  <1>3. CASE Renewed(e) /\ zone = plan[e].from /\ Supported(zone)
    <2>1. /\ pc' = [pc EXCEPT ![e] = "change"]
          /\ calls' = [calls EXCEPT ![e] = CallsFor(zone, plan[e].to)]
          /\ UNCHANGED <<zone, mem, gen, plan, file, config, desired, lease>>
      BY Zenon, <1>1, <1>3, RenewedIs DEF List, Constant
    <2>2. mem' = [mem EXCEPT ![e].rec = mem[e].rec] BY Zenon, <1>1, <2>1 DEF Types, State
    <2>3. plan' = [plan EXCEPT ![e] = plan[e]] /\ zone' \in RecordSets BY Zenon, <1>1, <2>1 DEF Types
    <2>4. PlanOf(e)'
      <3>1. PlanOf(e) BY Zenon DEF WriterInv
      <3>2. pc'[e] = "change" /\ calls'[e] = CallsFor(plan[e].from, plan[e].to) /\ cname' = cname
            /\ plan' = plan /\ mem' = mem
        BY Zenon, <1>1, <1>3, <2>1 DEF Types, config
      <3>3. /\ calls'[e] = [put |-> calls'[e].put, del |-> calls'[e].del]
            /\ calls'[e].put = plan[e].to \ plan[e].from
            /\ calls'[e].del = {q \in plan[e].from : q[1] \notin ValuesOf(plan[e].to)}
        BY <3>2 DEF CallsFor
      <3> QED BY Zenon, <1>1, <3>1, <3>2, <3>3 DEF PlanOf, Configured
    <2>5. Active(e) BY Zenon, <1>1, <1>3, RenewedIs
    <2>6. "change" \in Stages BY Zenon DEF Stages
    <2> QED BY Zenon, <1>1, <2>1, <2>2, <2>3, <2>4, <2>5, <2>6, QuietStep
  <1>4. CASE Renewed(e) /\ ~(zone = plan[e].from /\ Supported(zone))
    <2>1. Refuse(e) /\ UNCHANGED <<lease, file, config, desired>>
      BY Zenon, <1>1, <1>4, RenewedIs DEF List, Constant
    <2> QED BY Zenon, <1>1, <2>1, RefuseKeeps
  <1> QED BY Zenon, <1>2, <1>3, <1>4

\* Where a change or one of its calls can leave the zone.
LEMMA EffectType ==
    ASSUME WriterInv, NEW e \in Edges
    PROVE  CallEffect(e) \subseteq RecordSets
  <1>1. zone \in RecordSets /\ PlanOf(e) BY Zenon DEF WriterInv, Types
  <1>2. CASE pc[e] # "change" BY Zenon, <1>1, <1>2 DEF CallEffect
  <1>3. CASE pc[e] = "change"
    <2>1. /\ plan[e].from \in RecordSets /\ plan[e].to \in RecordSets
          /\ calls[e].put \in RecordSets /\ calls[e].del \in RecordSets
      BY Zenon, <1>1, <1>3 DEF PlanOf, RecordSets
    <2> QED BY Zenon, <1>1, <1>3, <2>1 DEF CallEffect, RecordSets
  <1> QED BY Zenon, <1>2, <1>3

\* Route 53 answers the batch, or one of the listed Cloudflare records or the
\* name is no longer free.
LEMMA BatchKeeps ==
    ASSUME WriterInv, NEW e \in Edges, ChangeBatch(e) \/ RecordGone(e) \/ NameTaken(e)
    PROVE  Keeps(e)
  <1>1. Types /\ mem[e] \in State /\ mem[e].rec \in Managed \cup {None} /\ pc[e] = "change"
    BY Zenon DEF WriterInv, Types, State, ChangeBatch, RecordGone, NameTaken, Goto
  <1>2. PlanOf(e) BY Zenon DEF WriterInv
  <1>3. UNCHANGED <<lease, file, config, desired>>
    BY Zenon DEF ChangeBatch, RecordGone, NameTaken, Constant
  <1>4. CASE Refuse(e) BY Zenon, <1>1, <1>3, <1>4, RefuseKeeps
  <1>5. CASE ~Refuse(e)
    <2>1. /\ pc' = [pc EXCEPT ![e] = IF adapter = "route53" THEN "answered" ELSE "persist"]
          /\ calls' = [calls EXCEPT ![e] = NoCalls]
          /\ zone' \in {zone, plan[e].to}
          /\ UNCHANGED <<mem, gen, plan>>
      BY Zenon, <1>5 DEF ChangeBatch, RecordGone, NameTaken, Goto
    <2>2. mem' = [mem EXCEPT ![e].rec = mem[e].rec] BY Zenon, <1>1, <2>1 DEF Types, State
    <2>3. plan' = [plan EXCEPT ![e] = plan[e]] /\ zone' \in RecordSets
      BY Zenon, <1>1, <1>2, <2>1 DEF Types, PlanOf, RecordSets
    <2>4. PlanOf(e)'
      <3>1. pc'[e] \in {"answered", "persist"} /\ cname' = cname /\ plan' = plan /\ mem' = mem
        BY Zenon, <1>1, <1>3, <2>1 DEF Types, config
      <3> QED BY Zenon, <1>1, <1>2, <3>1 DEF PlanOf, Configured
    <2> DEFINE s == IF adapter = "route53" THEN "answered" ELSE "persist"
    <2>5. s \in Stages /\ s # "change" /\ pc' = [pc EXCEPT ![e] = s] BY Zenon, <2>1 DEF Stages
    <2> HIDE DEF s
    <2> QED BY Zenon, <1>1, <1>3, <2>1, <2>2, <2>3, <2>4, <2>5, QuietStep
  <1> QED BY Zenon, <1>4, <1>5

\* One Cloudflare call.
LEMMA CallKeeps ==
    ASSUME WriterInv, NEW e \in Edges, NEW p, Put(e, p) \/ Delete(e, p)
    PROVE  Keeps(e)
  <1>1. Types /\ mem[e] \in State /\ mem[e].rec \in Managed \cup {None} /\ pc[e] = "change"
    BY Zenon DEF WriterInv, Types, State, Put, Delete
  <1>2. PlanOf(e) /\ WriterOf(e) BY Zenon DEF WriterInv
  <1>3. UNCHANGED <<lease, file, config, desired, mem, gen, plan>>
    BY Zenon DEF Put, Delete, Called, Constant
  <1> DEFINE s == IF calls'[e] = NoCalls THEN "answered" ELSE "change"
             c == [put |-> calls[e].put \ {p}, del |-> calls[e].del]
             d == [put |-> calls[e].put, del |-> calls[e].del \ {p}]
  <1>4. pc' = [pc EXCEPT ![e] = s] BY Zenon DEF Put, Delete, Called
  <1>5. PICK k \in {c, d} : calls' = [calls EXCEPT ![e] = k]
    <2>1. calls[e] = [put |-> calls[e].put, del |-> calls[e].del] BY Zenon, <1>1, <1>2 DEF PlanOf
    <2>2. CASE Put(e, p)
      <3>1. calls' = [calls EXCEPT ![e] = [calls[e] EXCEPT !.put = @ \ {p}]] BY Zenon, <2>2 DEF Put
      <3>2. [calls[e] EXCEPT !.put = @ \ {p}] = c BY <2>1
      <3> QED BY Zenon, <3>1, <3>2
    <2>3. CASE Delete(e, p)
      <3>1. calls' = [calls EXCEPT ![e] = [calls[e] EXCEPT !.del = @ \ {p}]] BY Zenon, <2>3 DEF Delete
      <3>2. [calls[e] EXCEPT !.del = @ \ {p}] = d BY <2>1
      <3> QED BY Zenon, <3>1, <3>2
    <2> QED BY Zenon, <2>2, <2>3
  <1>6. zone' \in RecordSets
    <2>1. zone \in RecordSets /\ plan[e].to \in RecordSets /\ calls[e].put \subseteq plan[e].to
      BY Zenon, <1>1, <1>2 DEF Types, PlanOf, RecordSets
    <2> QED BY Zenon, <2>1 DEF Put, Delete, RecordSets
  <1>7. PlanOf(e)'
    <2>1. pc'[e] \in {"change", "answered"} /\ calls'[e] = k /\ cname' = cname /\ plan' = plan
          /\ mem' = mem
      BY Zenon, <1>1, <1>3, <1>4, <1>5 DEF Types, config
    <2>2. /\ k = [put |-> k.put, del |-> k.del]
          /\ k.put \subseteq calls[e].put /\ k.del \subseteq calls[e].del
      BY <1>5
    <2> HIDE DEF c, d, s
    <2> QED BY Zenon, <1>1, <1>2, <2>1, <2>2 DEF PlanOf, Configured
  <1>8. mem' = [mem EXCEPT ![e].rec = mem[e].rec] BY Zenon, <1>1, <1>3 DEF Types, State
  <1>9. plan' = [plan EXCEPT ![e] = plan[e]] BY Zenon, <1>1, <1>3 DEF Types
  <1>10. s \in Stages /\ (s = "change" => Active(e)) BY Zenon, <1>1, <1>2 DEF Stages, WriterOf
  <1> HIDE DEF s, c, d
  <1> QED BY Zenon, <1>1, <1>3, <1>4, <1>5, <1>6, <1>7, <1>8, <1>9, <1>10, QuietStep

\* The answer of the provider is noted.
LEMMA AnsweredKeeps ==
    ASSUME WriterInv, NEW e \in Edges, Answered(e)
    PROVE  Keeps(e)
  <1>1. Types /\ mem[e] \in State /\ mem[e].rec \in Managed \cup {None} /\ pc[e] = "answered"
    BY Zenon DEF WriterInv, Types, State, Answered
  <1>2. CASE ~Renewed(e)
    <2>1. Rest(e) /\ file' = file /\ zone' = zone /\ lease' = RenewedLease(e)
          /\ UNCHANGED <<config, desired>>
      BY Zenon, <1>2 DEF Answered, Constant
    <2> QED BY Zenon, <1>1, <2>1, RenewalAsks, RestKeeps DEF Types
  <1>3. CASE Renewed(e)
    <2> DEFINE r == IF adapter = "cloudflare" THEN Completed(mem[e].rec)
                    ELSE [mem[e].rec EXCEPT !.pending.ticket = TRUE]
    <2>1. /\ pc' = [pc EXCEPT ![e] = "persist"] /\ mem' = [mem EXCEPT ![e].rec = r]
          /\ UNCHANGED <<gen, plan, calls, file, zone, config, desired, lease>>
      BY Zenon, <1>1, <1>3, RenewedIs DEF Answered, Remember, Constant
    <2>2. /\ mem[e].rec \in Managed /\ mem[e].rec.pending \in Pending /\ HasPending(mem[e].rec)
      <3>1. /\ mem[e].rec # None /\ mem[e].rec \in Managed
            /\ mem[e].rec.pending = PendingChange(plan[e].from, plan[e].to, FALSE)
        BY Zenon, <1>1 DEF WriterInv, PlanOf
      <3>2. plan[e].from \in RecordSets /\ plan[e].to \in RecordSets
        BY Zenon, <1>1 DEF WriterInv, PlanOf, RecordSets
      <3>3. PendingChange(plan[e].from, plan[e].to, FALSE) \in Pending
        BY Zenon, <3>2 DEF Pending, PendingChange
      <3> QED BY Zenon, <3>1, <3>3, DnsAssumption DEF HasPending
    <2>3. r \in Managed \cup {None}
      <3>1. Completed(mem[e].rec) \in Managed BY Zenon, <2>2, KnownType
      <3>2. [mem[e].rec.pending EXCEPT !.ticket = TRUE] \in Pending BY Zenon, <2>2 DEF Pending
      <3>3. [mem[e].rec EXCEPT !.pending = [mem[e].rec.pending EXCEPT !.ticket = TRUE]] \in Managed
        BY Zenon, <2>2, <3>2 DEF Managed
      <3> QED BY Zenon, <3>1, <3>3
    <2> HIDE DEF r
    <2>4. /\ plan' = [plan EXCEPT ![e] = plan[e]] /\ calls' = [calls EXCEPT ![e] = calls[e]]
          /\ zone' \in RecordSets
      BY Zenon, <1>1, <2>1 DEF Types
    <2>5. PlanOf(e)' BY Zenon, <1>1, <2>1 DEF PlanOf, Types
    <2>6. "persist" \in Stages BY Zenon DEF Stages
    <2> QED BY Zenon, <1>1, <2>1, <2>3, <2>4, <2>5, <2>6, QuietStep
  <1> QED BY Zenon, <1>2, <1>3

\* The last save of a round is made under a confirmed lease.
LEMMA PersistKeeps ==
    ASSUME WriterInv, NEW e \in Edges, Persist(e)
    PROVE  Keeps(e) /\ pc'[e] = "run" /\ mem'[e] = NoState
  <1>1. Types /\ mem[e] \in State /\ pc[e] = "persist" BY Zenon DEF WriterInv, Types, Persist
  <1>2. /\ Rest(e) /\ zone' = zone /\ lease' = RenewedLease(e) /\ UNCHANGED <<config, desired>>
        /\ file' \in {file, mem[e]} /\ (file' # file => Active(e))
    BY Zenon, <1>1, RenewedIs DEF Persist, Constant
  <1>3. zone' \in RecordSets /\ file' \in State BY Zenon, <1>1, <1>2 DEF Types
  <1> QED BY Zenon, <1>2, <1>3, RenewalAsks, RestKeeps

\* A provider call fails.
LEMMA CallFailsKeeps ==
    ASSUME WriterInv, NEW e \in Edges, CallFails(e)
    PROVE  Keeps(e)
  <1>1. Types /\ mem[e] \in State /\ mem[e].rec \in Managed \cup {None} /\ pc[e] # "run"
    BY Zenon DEF WriterInv, Types, State, CallFails
  <1>2. lease' = lease BY Zenon, <1>1, RenewedIs DEF CallFails
  <1>3. /\ pc' = [pc EXCEPT ![e] = "persist"] /\ calls' = [calls EXCEPT ![e] = NoCalls]
        /\ UNCHANGED <<file, mem, gen, plan, config, desired>>
    BY Zenon DEF CallFails, Constant
  <1>4. zone' \in RecordSets BY Zenon, <1>1, EffectType DEF CallFails, Types
  <1>5. mem' = [mem EXCEPT ![e].rec = mem[e].rec] /\ plan' = [plan EXCEPT ![e] = plan[e]]
    BY Zenon, <1>1, <1>3 DEF Types, State
  <1>6. PlanOf(e)' BY Zenon, <1>1, <1>3 DEF PlanOf, Types
  <1>7. "persist" \in Stages BY Zenon DEF Stages
  <1> QED BY Zenon, <1>1, <1>2, <1>3, <1>4, <1>5, <1>6, <1>7, QuietStep

\* Valkey does not answer, or the Edge dies.
LEMMA StopsKeep ==
    ASSUME WriterInv, NEW e \in Edges, ValkeyFails(e) \/ Crash(e)
    PROVE  Keeps(e) /\ pc'[e] = "run" /\ mem'[e] = NoState
  <1>1. Types /\ file.writer \in Nat /\ gen[e] \in Nat BY Zenon DEF WriterInv, Types, State
  <1>2. zone' \in RecordSets BY Zenon, <1>1, EffectType DEF ValkeyFails, Crash, Types
  <1>3. UNCHANGED <<config, desired, file>> BY Zenon DEF ValkeyFails, Crash, Constant
  <1>4. \E m \in Nat : lease' \in {lease, LeaseAfterAcquire(lease, e, m)}
    BY <1>1 DEF ValkeyFails, Crash
  <1>5. Stop(e) /\ gen' \in [Edges -> Nat] /\ \A x \in Edges \ {e} : gen'[x] = gen[x]
    BY SMTT(30), <1>1 DEF ValkeyFails, Crash, Rest, Types
  <1> QED BY Zenon, <1>1, <1>2, <1>3, <1>4, <1>5, StopKeeps DEF Keeps, Types

\* A save fails: of the intent, or at the end.
LEMMA SaveFailsKeeps ==
    ASSUME WriterInv, NEW e \in Edges, SaveFails(e)
    PROVE  Keeps(e)
  <1>1. Types /\ mem[e] \in State /\ mem[e].rec \in Managed \cup {None}
    BY Zenon DEF WriterInv, Types, State
  <1>2. UNCHANGED <<lease, file, zone, config, desired>> BY Zenon DEF SaveFails, Constant
  <1>3. CASE Goto(e, "intent", "persist") /\ Remember(e, WithIntent(mem[e].rec, plan[e]))
             /\ UNCHANGED <<gen, plan, calls>>
    <2>1. plan[e].from \in RecordSets /\ plan[e].to \in RecordSets /\ pc[e] = "intent"
      BY Zenon, <1>3 DEF WriterInv, PlanOf, RecordSets, Goto
    <2>2. WithIntent(mem[e].rec, plan[e]) \in Managed \cup {None} BY Zenon, <1>1, <2>1, IntentType
    <2>3. /\ pc' = [pc EXCEPT ![e] = "persist"]
          /\ mem' = [mem EXCEPT ![e].rec = WithIntent(mem[e].rec, plan[e])]
      BY Zenon, <1>3 DEF Goto, Remember
    <2>4. /\ plan' = [plan EXCEPT ![e] = plan[e]] /\ calls' = [calls EXCEPT ![e] = calls[e]]
          /\ zone' \in RecordSets
      BY Zenon, <1>1, <1>2, <1>3 DEF Types
    <2>5. PlanOf(e)' BY Zenon, <1>1, <2>3 DEF PlanOf, Types
    <2>6. "persist" \in Stages BY Zenon DEF Stages
    <2> QED BY Zenon, <1>2, <1>3, <2>1, <2>2, <2>3, <2>4, <2>5, <2>6, QuietStep
  <1>4. CASE Rest(e)
    <2>1. \E m \in Nat : lease' \in {lease, LeaseAfterAcquire(lease, e, m)} BY Zenon, <1>2
    <2> QED BY Zenon, <1>1, <1>2, <1>4, <2>1, RestKeeps DEF Types
  <1> QED BY Zenon, <1>3, <1>4 DEF SaveFails

\* Every step of an Edge.
LEMMA EdgeKeeps ==
    ASSUME WriterInv, NEW e \in Edges, EdgeStep(e)
    PROVE  Keeps(e)
  <1>1. CASE \E p \in calls[e].put : Put(e, p)
    <2>1. PICK p \in calls[e].put : Put(e, p) BY Zenon, <1>1
    <2> QED BY Zenon, <2>1, CallKeeps
  <1>2. CASE \E p \in calls[e].del : Delete(e, p)
    <2>1. PICK p \in calls[e].del : Delete(e, p) BY Zenon, <1>2
    <2> QED BY Zenon, <2>1, CallKeeps
  <1> QED BY Zenon, <1>1, <1>2, BeginKeeps, SyncedKeeps, GetKeeps, IntentKeeps, ListKeeps, BatchKeeps,
             AnsweredKeeps, PersistKeeps, CallFailsKeeps, StopsKeep, SaveFailsKeeps
          DEF EdgeStep, Round

\* The lease runs out, or Valkey starts again without it, while no provider
\* call depends on it.
LEMMA LeaseKeeps ==
    ASSUME WriterInv, ~VolatileValkey, LeaseRunsOut \/ LeaseLost \/ ValkeyEmptied
    PROVE  /\ WriterInv'
           /\ \A x \in Edges : Active(x)' => Active(x)
           /\ UNCHANGED <<config, desired, file, zone, pc, mem, gen, plan, calls, edits>>
  <1>1. Types /\ lease.counter \in Nat /\ lease.gen \in Nat BY Zenon DEF WriterInv, Types, LeaseType
  <1>2. UNCHANGED <<config, desired, file, zone, pc, mem, gen, plan, calls, edits>>
    BY Zenon DEF LeaseRunsOut, LeaseLost, ValkeyEmptied, Constant, Fault, counters
  <1>3. /\ lease' \in LeaseType /\ lease'.gen <= lease'.counter /\ lease'.owner = NoEdge
        /\ lease'.counter = lease.counter \/ \A x \in Edges : pc[x] = "run"
        /\ \A x \in Edges : pc[x] = "change" => lease.owner # x
    <2>1. CASE ValkeyEmptied BY <2>1 DEF ValkeyEmptied, NoLease, LeaseType
    <2>2. CASE LeaseRunsOut \/ LeaseLost
      <3>1. lease' = [lease EXCEPT !.owner = NoEdge] /\ pc[lease.owner] # "change"
        BY Zenon, <2>2 DEF LeaseRunsOut, LeaseLost, LeaseAfterExpiry
      <3> QED BY Zenon, <1>1, <3>1 DEF Types, LeaseType
    <2> QED BY Zenon, <2>1, <2>2
  <1>4. mode' = mode /\ cname' = cname BY Zenon, <1>2 DEF config
  <1>5. \A x \in Edges : Active(x)' <=> mode = "single" /\ pc[x] # "run"
    BY Zenon, <1>2, <1>3, <1>4, DnsAssumption DEF Active, HeldBy
  <1>6. \A x \in Edges : Active(x)' => Active(x) BY Zenon, <1>5 DEF Active
  <1>7. Types' BY Zenon, <1>1, <1>2, <1>3, <1>4 DEF Types, Configured
  <1>8. ASSUME NEW x \in Edges PROVE PlanOf(x)' /\ WriterOf(x)'
    <2>1. PlanOf(x) /\ WriterOf(x) BY Zenon DEF WriterInv
    <2>2. PlanOf(x)' BY Zenon, <2>1, <1>2, <1>4 DEF PlanOf, Configured
    <2>3. pc[x] = "change" => mode = "single" BY Zenon, <2>1, <1>3 DEF WriterOf, Active, HeldBy
    <2>4. WriterOf(x)' BY Zenon, <2>1, <2>3, <1>2, <1>3, <1>4, <1>5, <1>6 DEF WriterOf
    <2> QED BY Zenon, <2>2, <2>4
  <1> QED BY Zenon, <1>2, <1>6, <1>7, <1>8 DEF WriterInv

\* Others edit the record.
LEMMA EditKeeps ==
    ASSUME WriterInv, NEW set \in Foreign, Edit(set)
    PROVE  WriterInv'
  <1>1. Types BY Zenon DEF WriterInv
  <1>2. zone' \in RecordSets BY Zenon DEF Edit, RecordSets
  <1>3. UNCHANGED <<config, desired, file, lease, pc, mem, gen, plan, calls>> BY Zenon DEF Edit, Constant
  <1>4. Types' BY Zenon, <1>1, <1>2, <1>3 DEF Types, Configured, config
  <1>5. ASSUME NEW x \in Edges PROVE PlanOf(x)' /\ WriterOf(x)'
    <2>1. PlanOf(x) /\ WriterOf(x) BY Zenon DEF WriterInv
    <2> QED BY Zenon, <2>1, <1>3 DEF PlanOf, WriterOf, Active, Configured, config
  <1> QED BY Zenon, <1>4, <1>5 DEF WriterInv

\* The Edges start again with another configuration.
LEMMA ReconfigureKeeps ==
    ASSUME WriterInv, NEW c \in Configs, Reconfigure(c)
    PROVE  WriterInv' /\ \A x \in Edges : pc'[x] = "run" /\ mem'[x] = NoState
  <1>1. Types BY Zenon DEF WriterInv
  <1>2. zone' \in RecordSets BY Zenon, <1>1, EffectType DEF Reconfigure, Types
  <1>3. \A x \in Edges : pc'[x] = "run" /\ mem'[x] = NoState BY Zenon DEF Reconfigure
  <1>4. Types'
    BY Zenon, <1>1, <1>2 DEF Types, Configured, config, Reconfigure, State, NoState, Stages
  <1>5. \A x \in Edges : PlanOf(x)' /\ WriterOf(x)' BY Zenon, <1>3 DEF PlanOf, WriterOf, Active
  <1> QED BY Zenon, <1>3, <1>4, <1>5 DEF WriterInv

\* Nothing happens.
LEMMA WriterStutters ==
    ASSUME WriterInv, UNCHANGED vars
    PROVE  WriterInv'
  <1>1. UNCHANGED <<config, desired, file, zone, lease, pc, mem, gen, plan, calls>> BY Zenon DEF vars
  <1>2. Types' BY Zenon, <1>1 DEF WriterInv, Types, Configured, config
  <1>3. ASSUME NEW x \in Edges PROVE PlanOf(x)' /\ WriterOf(x)'
    <2>1. PlanOf(x) /\ WriterOf(x) BY Zenon DEF WriterInv
    <2> QED BY Zenon, <2>1, <1>1 DEF PlanOf, WriterOf, Active, Configured, config
  <1> QED BY Zenon, <1>2, <1>3 DEF WriterInv

\* The writer invariant, for a Valkey that keeps its data during rounds.
LEMMA WriterInvariant ==
    ASSUME ~VolatileValkey
    PROVE  Spec => []WriterInv
  <1>1. Init => WriterInv
    <2> SUFFICES ASSUME Init PROVE WriterInv BY Zenon
    <2>1. zone \in RecordSets BY Zenon DEF Init, RecordSets
    <2>2. Types BY <2>1 DEF Init, Types, State, NoState, Stages, NoLease, LeaseType
    <2>3. \A x \in Edges : PlanOf(x) /\ WriterOf(x) BY Zenon DEF Init, PlanOf, WriterOf, Active
    <2> QED BY Zenon, <2>2, <2>3 DEF WriterInv
  <1>2. WriterInv /\ [Next]_vars => WriterInv'
    <2> SUFFICES ASSUME WriterInv, Next \/ UNCHANGED vars PROVE WriterInv' BY Zenon
    <2>1. CASE \E e \in Edges : EdgeStep(e) BY Zenon, <2>1, EdgeKeeps DEF Keeps
    <2> QED BY Zenon, <2>1, LeaseKeeps, EditKeeps, ReconfigureKeeps, WriterStutters DEF Next, EdgeStep
  <1> QED BY <1>1, <1>2, PTL DEF Spec

\* The state file never goes back to an older writer (save_state after
\* renew_writer), for any number of Edges, lost leases, crashes and failed
\* calls, as long as Valkey keeps its data during a round.
THEOREM DnsWriterMovesForward ==
    ASSUME ~VolatileValkey
    PROVE  Spec => WriterMovesForward
  <1>1. WriterInv /\ WriterInv' /\ [Next]_vars => [file'.writer >= file.writer]_file
    <2> SUFFICES ASSUME WriterInv, Next, file' # file PROVE file'.writer >= file.writer
      BY Zenon DEF vars
    <2>1. PICK e \in Edges : EdgeStep(e)
      BY Zenon DEF Next, EdgeStep, LeaseRunsOut, LeaseLost, ValkeyEmptied, Edit, Reconfigure
    <2>2. Active(e) BY Zenon, <2>1, EdgeKeeps DEF Keeps
    <2>3. WriterOf(e) /\ mem[e] \in State /\ file \in State /\ mem \in [Edges -> State]
      BY Zenon DEF WriterInv, Types
    <2>4. file'.writer = mem[e].writer
      <3>1. CASE Intent(e) BY <3>1, <2>3 DEF Intent, Remember, State
      <3>2. CASE Persist(e) BY Zenon, <3>2 DEF Persist
      <3> QED BY Zenon, <2>1, <3>1, <3>2
           DEF EdgeStep, Round, Begin, Synced, NotSynced, Get, List, ChangeBatch, RecordGone,
               NameTaken, Put, Delete, Called, Answered, CallFails, ValkeyFails, SaveFails, Crash
    <2> QED BY Zenon, <2>2, <2>3, <2>4 DEF WriterOf, State
  <1> QED BY <1>1, WriterInvariant, PTL DEF Spec, WriterMovesForward

-----------------------------------------------------------------------------
(* Without import, the records that an Edge keeps have values of its own *)

Ours(set) == \A f \in Foreign : ValuesOf(set) \cap ValuesOf(f) = {}

OursIn(rec) ==
    rec # None => /\ Ours(rec.applied)
                  /\ rec.pending # None => Ours(rec.pending.from) /\ Ours(rec.pending.to)

OursOf(e) ==
    /\ OursIn(mem[e].rec)
    /\ pc[e] \in {"intent", "list", "change", "answered"} => Ours(plan[e].from)

OursInv == ~import => OursIn(file.rec) /\ \A e \in Edges : OursOf(e)

\* What is configured is ours, nothing is, what lies between two sets of ours
\* is, and what others put in place is not.
LEMMA OursIs ==
    /\ \A c \in Configs : Ours(c)
    /\ Ours({})
    /\ \A z, from, to : IsBetween(z, from, to) /\ Ours(from) /\ Ours(to) => Ours(z)
    /\ Configs # {} => \A f \in Foreign : ~Ours(f)
  <1>1. \A c \in Configs : Ours(c) BY Zenon, ForeignAssumption DEF Ours
  <1>2. Ours({}) BY Zenon DEF Ours, ValuesOf
  <1>3. \A z, from, to : IsBetween(z, from, to) /\ Ours(from) /\ Ours(to) => Ours(z)
    BY Zenon DEF Ours, IsBetween
  <1>4. ASSUME NEW f \in Foreign, Configs # {} PROVE ~Ours(f)
    <2>1. PICK p \in f : TRUE BY <1>4, ForeignAssumption
    <2>2. p[1] \in ValuesOf(f) BY Zenon DEF ValuesOf
    <2> QED BY Zenon, <2>2 DEF Ours
  <1> QED BY Zenon, <1>1, <1>2, <1>3, <1>4

\* What is done to a record keeps it ours.
LEMMA OursKept ==
    ASSUME NEW rec \in Managed \cup {None}, OursIn(rec)
    PROVE  /\ HasPending(rec) => OursIn(Completed(rec))
           /\ \A reported : OursIn(Known(rec, reported))
           /\ rec # None => OursIn(Refused(rec))
           /\ HasPending(rec) => OursIn([rec EXCEPT !.pending.ticket = TRUE])
  <1>1. HasPending(rec) => OursIn(Completed(rec))
    BY Zenon DEF OursIn, Completed, HasPending, ManagedRecord
  <1>2. \A reported : OursIn(Known(rec, reported)) BY Zenon, <1>1 DEF Known
  <1>3. rec # None => OursIn(Refused(rec)) BY Zenon DEF OursIn, Refused, Managed
  <1>4. HasPending(rec) => OursIn([rec EXCEPT !.pending.ticket = TRUE])
    <2> SUFFICES ASSUME HasPending(rec) PROVE OursIn([rec EXCEPT !.pending.ticket = TRUE]) BY Zenon
    <2> DEFINE P == [rec.pending EXCEPT !.ticket = TRUE]
    <2>1. rec \in Managed /\ rec.pending \in Pending BY Zenon DEF HasPending, Managed
    <2>2. P.from = rec.pending.from /\ P.to = rec.pending.to BY Zenon, <2>1 DEF Pending
    <2> HIDE DEF P
    <2>3. [rec EXCEPT !.pending = P].applied = rec.applied
          /\ [rec EXCEPT !.pending = P].pending = P
      BY Zenon, <2>1 DEF Managed
    <2>4. OursIn([rec EXCEPT !.pending = P]) BY Zenon, <2>2, <2>3 DEF OursIn, HasPending
    <2> QED BY Zenon, <2>4 DEF P
  <1> QED BY Zenon, <1>1, <1>2, <1>3, <1>4

\* ... and so does an intent of ours.
LEMMA OursIntent ==
    ASSUME NEW rec \in Managed \cup {None}, OursIn(rec), NEW action,
           action.from \in RecordSets, action.to \in RecordSets,
           Ours(action.from), Ours(action.to)
    PROVE  OursIn(WithIntent(rec, action))
  <1>1. WithIntent(rec, action).pending = PendingChange(action.from, action.to, FALSE)
    BY Zenon, IntentType
  <1>2. WithIntent(rec, action).applied = IF rec = None THEN {} ELSE rec.applied
    BY Zenon DEF WithIntent, ManagedRecord, Managed
  <1> QED BY <1>1, <1>2, OursIs DEF OursIn, PendingChange

\* Without import, decide changes and notes only what is ours.
LEMMA OursDecided ==
    ASSUME WriterInv, OursInv, ~import, NEW e \in Edges, Get(e)
    PROVE  OursOf(e)'
  <1>0. PICK reported \in Reports(zone) : Decided(e, reported) BY Zenon, DecidedBy
  <1> DEFINE known == Known(mem[e].rec, reported)
             action == Decide(desired, import, zone, known)
  <1>1. Types /\ mem[e].rec \in Managed \cup {None} /\ desired \in Configs
    BY Zenon DEF WriterInv, Types, State
  <1>2. /\ pc'[e] = IF action.kind = "apply" THEN "intent" ELSE "persist"
        /\ plan'[e] = IF action.kind = "apply" THEN action ELSE Leave
        /\ mem'[e].rec = Noted(known, action)
    BY Zenon, <1>0, <1>1 DEF Decided, Goto, Remember, Types, State
  <1>3. known \in Managed \cup {None} /\ OursIn(known)
    BY Zenon, <1>1, KnownType, OursKept DEF OursInv, OursOf
  <1> HIDE DEF known
  <1>4. /\ action \in {Leave, Adopt, Forget, NoChange, Apply(zone, desired)}
        /\ action.kind = "apply" =>
             /\ action = Apply(zone, desired)
             /\ known = None => zone = {} \/ import
             /\ known # None => AsLeft(zone, known)
        /\ action.kind = "adopt" => import
        /\ action.kind = "no_change" => zone = desired
    BY <1>1, DecideIs
  <1> HIDE DEF action
  <1>5. action.kind = "apply" => Ours(plan'[e].from)
    <2> SUFFICES ASSUME action.kind = "apply" PROVE Ours(plan'[e].from) BY Zenon
    <2>0. Apply(zone, desired).from = zone BY Zenon DEF Apply
    <2>1. plan'[e].from = zone BY Zenon, <1>2, <1>4, <2>0
    <2>2. CASE known = None BY Zenon, <1>4, <2>1, <2>2, OursIs
    <2>3. CASE known # None BY Zenon, <1>3, <1>4, <2>1, <2>3, OursIs DEF AsLeft, OursIn
    <2> QED BY Zenon, <2>2, <2>3
  <1>6. OursIn(Noted(known, action))
    <2>1. CASE action = NoChange
      <3>1. Ours(zone) BY Zenon, <1>1, <1>4, <2>1, OursIs DEF NoChange
      <3>2. known # None => OursIn([known EXCEPT !.applied = zone, !.pending = None])
        BY Zenon, <1>3, <3>1 DEF OursIn, Managed
      <3> QED BY Zenon, <1>3, <2>1, <3>2 DEF Noted, NoChange
    <2>2. CASE action = Leave BY Zenon, <1>3, <2>2 DEF Noted, Leave
    <2>3. CASE action = Adopt BY Zenon, <1>4, <2>3 DEF Adopt
    <2>4. CASE action = Forget BY Zenon, <2>4 DEF Noted, Forget, OursIn
    <2>5. CASE action = Apply(zone, desired) BY Zenon, <1>3, <2>5 DEF Noted, Apply
    <2> QED BY Zenon, <1>4, <2>1, <2>2, <2>3, <2>4, <2>5
  <1> QED BY Zenon, <1>2, <1>5, <1>6 DEF OursOf

\* What an Edge remembers after a step that does not decide comes from what it
\* or the state file had.
RecordStep(e) ==
    \/ mem'[e].rec \in {None, file.rec, mem[e].rec}
    \/ HasPending(mem[e].rec) /\ mem'[e].rec = Completed(mem[e].rec)
    \/ HasPending(mem[e].rec) /\ mem'[e].rec = [mem[e].rec EXCEPT !.pending.ticket = TRUE]
    \/ mem[e].rec # None /\ mem'[e].rec = Refused(mem[e].rec)
    \/ pc[e] = "intent" /\ mem'[e].rec = WithIntent(mem[e].rec, plan[e])

Deciding == {"intent", "list", "change", "answered"}

\* A step other than a decision keeps the change that was decided on.
LEMMA RecordSteps ==
    ASSUME WriterInv, NEW e \in Edges, EdgeStep(e), ~Get(e)
    PROVE  /\ RecordStep(e)
           /\ pc'[e] \in Deciding => pc[e] \in Deciding /\ plan'[e] = plan[e]
           /\ file' \in {file, mem[e], mem'[e]}
  <1>1. Types /\ mem[e] \in State /\ mem \in [Edges -> State] /\ pc \in [Edges -> Stages]
    BY Zenon DEF WriterInv, Types
  <1>2. PlanOf(e) BY Zenon DEF WriterInv
  <1>3. ASSUME Stop(e) PROVE mem'[e].rec = None /\ pc'[e] = "run"
    BY Zenon, <1>1, <1>3 DEF Stop, Types, NoState
  <1>4. ASSUME NEW r, Remember(e, r) PROVE mem'[e].rec = r
    BY Zenon, <1>1, <1>4 DEF Remember, State
  <1>5. CASE Begin(e)
    BY Zenon, <1>1, <1>5, BeginKeeps DEF RecordStep, Deciding, Begin
  <1>6. CASE Synced(e) \/ NotSynced(e)
    BY Zenon, <1>1, <1>2, <1>4, <1>6
       DEF RecordStep, Deciding, Synced, NotSynced, Goto, PlanOf, Tracked
  <1>7. CASE Intent(e)
    BY Zenon, <1>1, <1>3, <1>4, <1>7 DEF RecordStep, Deciding, Intent, Rest
  <1>8. CASE List(e) \/ ChangeBatch(e) \/ RecordGone(e) \/ NameTaken(e)
    <2>1. pc[e] \in {"list", "change"} /\ mem[e].rec # None
      BY Zenon, <1>2, <1>8 DEF List, ChangeBatch, RecordGone, NameTaken, Goto, PlanOf
    <2>2. file' = file BY Zenon, <1>8 DEF List, ChangeBatch, RecordGone, NameTaken
    <2>3. CASE Rest(e) BY Zenon, <2>2, <2>3, <1>3 DEF Rest, RecordStep, Deciding
    <2>4. CASE Refuse(e) BY Zenon, <2>1, <2>2, <2>4, <1>1, <1>4 DEF Refuse, RecordStep, Deciding
    <2>5. CASE mem' = mem /\ plan' = plan BY Zenon, <2>1, <2>2, <2>5 DEF RecordStep, Deciding
    <2> QED BY ZenonT(30), <1>8, <2>3, <2>4, <2>5 DEF List, ChangeBatch, RecordGone, NameTaken
  <1>9. CASE \E p : Put(e, p) \/ Delete(e, p)
    BY Zenon, <1>9 DEF Put, Delete, Called, RecordStep, Deciding
  <1>10. CASE Answered(e)
    <2>1. HasPending(mem[e].rec)
      <3>1. PendingChange(plan[e].from, plan[e].to, FALSE) \in Pending
        BY Zenon, <1>2, <1>10 DEF Answered, PlanOf, PendingChange, Pending, RecordSets
      <3> QED BY Zenon, <1>2, <1>10, <3>1, DnsAssumption DEF Answered, PlanOf, HasPending
    <2> QED BY Zenon, <1>1, <1>3, <1>4, <1>10, <2>1 DEF Answered, RecordStep, Deciding, Rest
  <1>11. CASE Persist(e)
    BY Zenon, <1>1, <1>3, <1>11 DEF Persist, Rest, RecordStep, Deciding
  <1>12. CASE CallFails(e) BY Zenon, <1>1, <1>12 DEF CallFails, RecordStep, Deciding
  <1>13. CASE ValkeyFails(e) \/ Crash(e)
    BY Zenon, <1>3, <1>13 DEF ValkeyFails, Crash, Rest, RecordStep, Deciding
  <1>14. CASE SaveFails(e)
    BY Zenon, <1>1, <1>3, <1>4, <1>14 DEF SaveFails, Goto, Rest, RecordStep, Deciding
  <1> QED BY Zenon, <1>5, <1>6, <1>7, <1>8, <1>9, <1>10, <1>11, <1>12, <1>13, <1>14 DEF EdgeStep, Round

\* A step of an Edge.
LEMMA OursEdgeKeeps ==
    ASSUME WriterInv, OursInv, NEW e \in Edges, EdgeStep(e)
    PROVE  OursInv'
  <1>1. Acts(e) /\ import' = import BY Zenon, EdgeKeeps DEF Keeps, Acts, config
  <1> SUFFICES ASSUME ~import PROVE OursIn(file.rec)' /\ \A x \in Edges : OursOf(x)'
    BY Zenon, <1>1 DEF OursInv
  <1>2. OursIn(file.rec) /\ OursOf(e) BY Zenon DEF OursInv
  <1>3. mem[e].rec \in Managed \cup {None} BY Zenon DEF WriterInv, Types, State
  <1>4. OursOf(e)'
    <2>1. CASE Get(e) BY Zenon, <2>1, OursDecided
    <2>2. CASE ~Get(e)
      <3>1. RecordStep(e) /\ (pc'[e] \in Deciding => pc[e] \in Deciding /\ plan'[e] = plan[e])
        BY Zenon, <2>2, RecordSteps
      <3>2. OursIn(mem'[e].rec)
        <4>1. CASE pc[e] = "intent" /\ mem'[e].rec = WithIntent(mem[e].rec, plan[e])
          <5>1. /\ plan[e].from \in RecordSets /\ plan[e].to \in RecordSets /\ plan[e].to \in Configs
                /\ Ours(plan[e].from)
            BY Zenon, <1>2, <4>1 DEF WriterInv, PlanOf, RecordSets, OursOf
          <5> QED BY Zenon, <1>2, <1>3, <4>1, <5>1, OursIntent, OursIs DEF OursOf
        <4>2. CASE mem'[e].rec \in {None, file.rec, mem[e].rec}
          BY Zenon, <1>2, <4>2 DEF OursOf, OursIn
        <4> QED BY Zenon, <1>2, <1>3, <3>1, <4>1, <4>2, OursKept DEF RecordStep, OursOf
      <3> QED BY Zenon, <1>2, <3>1, <3>2 DEF OursOf, Deciding
    <2> QED BY Zenon, <2>1, <2>2
  <1>5. OursIn(file.rec)'
    <2>1. file' \in {file, mem[e], mem'[e]}
      <3>1. CASE Get(e) BY ZenonT(30), <3>1 DEF Get
      <3> QED BY Zenon, <3>1, RecordSteps
    <2> QED BY Zenon, <1>2, <1>4, <2>1 DEF OursOf
  <1>6. ASSUME NEW x \in Edges \ {e} PROVE OursOf(x)'
    BY Zenon, <1>1 DEF OursInv, OursOf, Acts
  <1> QED BY Zenon, <1>4, <1>5, <1>6

\* The invariant: what an Edge keeps without import is ours.
LEMMA OursInvariant ==
    ASSUME ~VolatileValkey
    PROVE  Spec => []OursInv
  <1>1. Init => OursInv BY DEF Init, OursInv, OursOf, OursIn, NoState
  <1>2. WriterInv /\ OursInv /\ [Next]_vars => OursInv'
    <2> SUFFICES ASSUME WriterInv, OursInv, Next \/ UNCHANGED vars PROVE OursInv' BY Zenon
    <2>1. CASE \E e \in Edges : EdgeStep(e) BY Zenon, <2>1, OursEdgeKeeps
    <2>2. CASE UNCHANGED <<config, file, pc, mem, plan>>
      BY Zenon, <2>2 DEF OursInv, OursOf, config
    <2>3. CASE \E c \in Configs : Reconfigure(c)
      <3>1. \A x \in Edges : pc'[x] = "run" /\ mem'[x] = NoState BY Zenon, <2>3, ReconfigureKeeps
      <3>2. file' = file /\ import' = import BY Zenon, <2>3 DEF Reconfigure, config
      <3> QED BY <3>1, <3>2 DEF OursInv, OursOf, OursIn, NoState
    <2> QED BY Zenon, <2>1, <2>2, <2>3
         DEF Next, EdgeStep, LeaseRunsOut, LeaseLost, ValkeyEmptied, Edit, Constant, vars
  <1> QED BY <1>1, <1>2, WriterInvariant, PTL DEF Spec

\* Edits are counted, and only by themselves.
EditCount == edits \in Nat

\* Only an edit of others changes the count of edits.
LEMMA EditsCounted ==
    ASSUME [Next]_vars
    PROVE  edits' = edits \/ \E set \in Foreign : Edit(set)
  <1> SUFFICES ASSUME Next \/ UNCHANGED vars, ~\E set \in Foreign : Edit(set) PROVE edits' = edits
    BY Zenon
  <1>1. CASE UNCHANGED vars BY Zenon, <1>1 DEF vars, counters
  <1>2. CASE \E e \in Edges : Round(e)
    BY SMTT(30), <1>2 DEF Round, Begin, Synced, NotSynced, Get, Intent, List, ChangeBatch, RecordGone,
                NameTaken, Put, Delete, Called, Answered, Persist, counters
  <1>3. CASE ~\E e \in Edges : Round(e)
    BY Zenon, <1>1, <1>3 DEF Next, CallFails, ValkeyFails, SaveFails, Crash, LeaseRunsOut, LeaseLost,
                ValkeyEmptied, Reconfigure, Fault, counters
  <1> QED BY Zenon, <1>2, <1>3

\* It is a natural number.
LEMMA EditsNumber == Spec => []EditCount
  <1>1. EditCount /\ [Next]_vars => EditCount'
    <2> SUFFICES ASSUME EditCount, [Next]_vars PROVE EditCount'
      BY Zenon
    <2>1. edits' = edits \/ \E set \in Foreign : Edit(set) BY Zenon, EditsCounted
    <2> QED BY <2>1 DEF EditCount, Edit
  <1>2. Init => EditCount BY DEF Init, EditCount
  <1> QED BY <1>1, <1>2, PTL DEF Spec

\* Without import, the batch that Route 53 gets never replaces what others
\* have put in place (the conditional change of Route53Provider::replace),
\* whatever the Edge had decided before, also if the call fails, or is applied
\* although its Edge crashed.
THEOREM DnsEditsStand ==
    ASSUME ~VolatileValkey
    PROVE  Spec => EditsStand
  <1> DEFINE Stands == adapter = "route53" /\ ~import /\ zone \in Foreign /\ edits' = edits
                         => zone' = zone
  <1>1. WriterInv /\ OursInv /\ EditCount /\ [Next]_vars => [Stands]_vars
    <2> SUFFICES ASSUME WriterInv, OursInv, EditCount, Next, adapter = "route53", ~import, zone \in Foreign,
                        edits' = edits
                 PROVE  zone' = zone
      BY Zenon
    <2>1. ~Ours(zone) BY Zenon, OursIs DEF WriterInv, Types
    <2>2. ASSUME NEW e \in Edges, pc[e] = "change" PROVE zone # plan[e].from
      BY Zenon, <2>1, <2>2 DEF OursInv, OursOf
    <2>3. \A e \in Edges : CallEffect(e) = {zone} BY Zenon, <2>2 DEF CallEffect
    <2>4. ASSUME NEW e \in Edges, EdgeStep(e) PROVE zone' = zone
      <3>1. CASE ChangeBatch(e) BY Zenon, <2>2, <3>1 DEF ChangeBatch, Refuse
      <3>2. CASE Round(e) /\ ~ChangeBatch(e)
        BY Zenon, <3>2 DEF Round, Begin, Synced, NotSynced, Get, Intent, List, Refuse, RecordGone,
                    NameTaken, Put, Delete, Answered, Persist
      <3> QED BY ZenonT(30), <2>3, <2>4, <3>1, <3>2 DEF EdgeStep, CallFails, ValkeyFails, SaveFails, Crash
    <2>5. ASSUME NEW set \in Foreign, Edit(set) PROVE FALSE BY <2>5 DEF Edit, EditCount
    <2>6. CASE \E c \in Configs : Reconfigure(c) BY Zenon, <2>3, <2>6 DEF Reconfigure
    <2> QED BY Zenon, <2>4, <2>5, <2>6 DEF Next, EdgeStep, LeaseRunsOut, LeaseLost, ValkeyEmptied
  <1> QED BY <1>1, WriterInvariant, OursInvariant, EditsNumber, PTL DEF Spec, EditsStand

-----------------------------------------------------------------------------
(* A change on the way, call by call *)

\* A set with at most one element.
LEMMA AtMostOne ==
    ASSUME NEW S, IsFiniteSet(S), Cardinality(S) <= 1, NEW p \in S, NEW q \in S
    PROVE  p = q
  <1>1. IsFiniteSet(S \ {p}) /\ Cardinality(S \ {p}) = Cardinality(S) - 1 BY Zenon, FS_RemoveElement
  <1>2. Cardinality(S) \in Nat /\ Cardinality(S \ {p}) \in Nat BY Zenon, <1>1, FS_CardinalityType
  <1>3. Cardinality(S \ {p}) = 0 BY <1>1, <1>2
  <1>4. S \ {p} = {} BY Zenon, <1>1, <1>3, FS_EmptySet
  <1> QED BY Zenon, <1>4

\* A supported set has one TTL ...
LEMMA OneTtl ==
    ASSUME NEW set \in RecordSets, Supported(set), NEW s \in TtlsOf(set), NEW t \in TtlsOf(set)
    PROVE  s = t
  <1> DEFINE ttl == [x \in set |-> x[2]]
  <1>1. IsFiniteSet(set) BY Zenon, DnsAssumption, FS_Subset DEF RecordSets
  <1>2. ttl \in Surjection(set, TtlsOf(set)) BY Zenon DEF Surjection, TtlsOf
  <1>3. IsFiniteSet(TtlsOf(set)) BY Zenon, <1>1, <1>2, FS_Surjection
  <1> QED BY Zenon, <1>3, AtMostOne DEF Supported

\* ... and one pair for a value.
LEMMA OnePair ==
    ASSUME NEW set \in RecordSets, Supported(set), NEW p \in set, NEW q \in set, p[1] = q[1]
    PROVE  p = q
  <1>1. p[2] \in TtlsOf(set) /\ q[2] \in TtlsOf(set) BY Zenon DEF TtlsOf
  <1>2. p[2] = q[2] BY Zenon, <1>1, OneTtl
  <1>3. p = <<p[1], p[2]>> /\ q = <<q[1], q[2]>> BY Zenon, DnsAssumption DEF RecordSets
  <1> QED BY Zenon, <1>2, <1>3

\* The zone between two record sets, with the calls that are left.
OnTheWay(z, from, to, put, del) ==
    z = {q \in from : q \in to \/ q \in del \/ \E p \in put : p[1] = q[1]}
        \cup {p \in to \ from : p \notin put}

\* The calls belong to the change.
CallsOf(from, to, put, del) ==
    /\ from \in RecordSets /\ Supported(from) /\ to \in RecordSets /\ Supported(to)
    /\ put \subseteq to \ from
    /\ del \subseteq {q \in from : q[1] \notin ValuesOf(to)}

\* Nothing has been called.
LEMMA WayStarts ==
    ASSUME NEW from \in RecordSets, NEW to \in RecordSets, Supported(from), Supported(to)
    PROVE  OnTheWay(from, from, to, CallsFor(from, to).put, CallsFor(from, to).del)
  <1> DEFINE put == to \ from
             del == {p \in from : p[1] \notin ValuesOf(to)}
  <1>1. CallsFor(from, to).put = put /\ CallsFor(from, to).del = del BY Zenon DEF CallsFor
  <1>2. ASSUME NEW q \in from PROVE q \in to \/ q \in del \/ \E p \in put : p[1] = q[1]
    <2> SUFFICES ASSUME q[1] \in ValuesOf(to), q \notin to PROVE \E p \in put : p[1] = q[1]
      BY Zenon
    <2>1. PICK p \in to : p[1] = q[1] BY Zenon DEF ValuesOf
    <2>2. p \notin from BY Zenon, <2>1, OnePair
    <2> QED BY Zenon, <2>1, <2>2
  <1>3. OnTheWay(from, from, to, put, del)
    <2>1. {q \in from : q \in to \/ q \in del \/ \E p \in put : p[1] = q[1]} = from BY Zenon, <1>2
    <2>2. {p \in to \ from : p \notin put} = {} BY Zenon
    <2> QED BY Zenon, <2>1, <2>2 DEF OnTheWay
  <1> QED BY Zenon, <1>1, <1>3

\* A record is created or patched.
LEMMA WayPut ==
    ASSUME NEW z, NEW from, NEW to, NEW put, NEW del, CallsOf(from, to, put, del),
           OnTheWay(z, from, to, put, del), NEW p \in put
    PROVE  OnTheWay({q \in z : q[1] # p[1]} \cup {p}, from, to, put \ {p}, del)
  <1> DEFINE Z == {q \in z : q[1] # p[1]} \cup {p}
             W == {q \in from : q \in to \/ q \in del \/ \E x \in put \ {p} : x[1] = q[1]}
                  \cup {x \in to \ from : x \notin put \ {p}}
  <1>1. p \in to /\ p \notin from BY Zenon DEF CallsOf
  <1>2. \A q \in to : q[1] = p[1] => q = p BY Zenon, <1>1, OnePair DEF CallsOf
  <1>3. \A q \in del : q[1] # p[1] BY Zenon, <1>1 DEF CallsOf, ValuesOf
  <1>4. \A x \in put : x \in to BY Zenon DEF CallsOf
  <1>5. ASSUME NEW q \in Z PROVE q \in W
    <2>1. CASE q = p BY Zenon, <1>1, <2>1
    <2>2. CASE q \in z /\ q[1] # p[1] BY Zenon, <2>2 DEF OnTheWay
    <2> QED BY Zenon, <2>1, <2>2
  <1>6. ASSUME NEW q \in W PROVE q \in Z
    <2>1. CASE q \in from /\ q \in to BY Zenon, <1>1, <1>2, <2>1 DEF OnTheWay
    <2>2. CASE q \in from /\ q \in del BY Zenon, <1>3, <2>2 DEF OnTheWay
    <2>3. CASE q \in from /\ \E x \in put \ {p} : x[1] = q[1]
      <3>1. PICK x \in put \ {p} : x[1] = q[1] BY Zenon, <2>3
      <3>2. q[1] # p[1] BY Zenon, <1>2, <1>4, <3>1
      <3> QED BY Zenon, <2>3, <3>1, <3>2 DEF OnTheWay
    <2>4. CASE q \in to \ from /\ q \notin put \ {p} BY Zenon, <1>2, <2>4 DEF OnTheWay
    <2> QED BY Zenon, <2>1, <2>2, <2>3, <2>4
  <1>7. Z = W BY Zenon, <1>5, <1>6
  <1> QED BY Zenon, <1>7 DEF OnTheWay

\* An obsolete record is deleted, by its value or as it was listed.
LEMMA WayDelete ==
    ASSUME NEW z, NEW from, NEW to, NEW put, NEW del, CallsOf(from, to, put, del),
           OnTheWay(z, from, to, put, del), NEW p \in del
    PROVE  /\ {q \in z : q[1] # p[1]} = z \ {p}
           /\ OnTheWay(z \ {p}, from, to, put, del \ {p})
  <1>1. p \in from /\ p[1] \notin ValuesOf(to) BY Zenon DEF CallsOf
  <1>2. \A q \in to : q[1] # p[1] BY Zenon, <1>1 DEF ValuesOf
  <1>3. \A q \in from : q[1] = p[1] => q = p BY Zenon, <1>1, OnePair DEF CallsOf
  <1>4. \A x \in put : x \in to BY Zenon DEF CallsOf
  <1>5. \A q \in z : q \in from \/ q \in to BY Zenon DEF OnTheWay
  <1>6. {q \in z : q[1] # p[1]} = z \ {p} BY Zenon, <1>2, <1>3, <1>5
  <1>7. z \ {p} = {q \in from : q \in to \/ q \in del \ {p} \/ \E x \in put : x[1] = q[1]}
                  \cup {x \in to \ from : x \notin put}
    BY Zenon, <1>1, <1>2, <1>4 DEF OnTheWay
  <1> QED BY Zenon, <1>6, <1>7 DEF OnTheWay

\* Every call has been made.
LEMMA WayEnds ==
    ASSUME NEW z, NEW from, NEW to, OnTheWay(z, from, to, {}, {})
    PROVE  z = to
  BY Zenon DEF OnTheWay

\* What an interrupted change leaves behind is recognised (is_between).
LEMMA WayBetween ==
    ASSUME NEW z, NEW from, NEW to, NEW put, NEW del, CallsOf(from, to, put, del),
           OnTheWay(z, from, to, put, del)
    PROVE  IsBetween(z, from, to)
  <1>1. \A q \in z : q \in from \/ q \in to BY Zenon DEF OnTheWay
  <1>2. ValuesOf(z) \subseteq ValuesOf(from) \cup ValuesOf(to) BY Zenon, <1>1 DEF ValuesOf
  <1>3. TtlsOf(z) \subseteq TtlsOf(from) \cup TtlsOf(to) BY Zenon, <1>1 DEF TtlsOf
  <1>4. ASSUME NEW v \in ValuesOf(from) \cap ValuesOf(to) PROVE v \in ValuesOf(z)
    <2>1. PICK q \in from : q[1] = v BY Zenon DEF ValuesOf
    <2>2. PICK p \in to : p[1] = v BY Zenon DEF ValuesOf
    <2>3. q \in z \/ p \in z
      <3>1. CASE q \in to BY Zenon, <3>1 DEF OnTheWay
      <3>2. CASE p \in put BY Zenon, <2>1, <2>2, <3>2 DEF OnTheWay
      <3>3. CASE q \notin to /\ p \notin put
        <4>1. p \notin from BY Zenon, <2>1, <2>2, <3>3, OnePair DEF CallsOf
        <4> QED BY Zenon, <3>3, <4>1 DEF OnTheWay
      <3> QED BY Zenon, <3>1, <3>2, <3>3
    <2> QED BY Zenon, <2>1, <2>2, <2>3 DEF ValuesOf
  <1> QED BY Zenon, <1>2, <1>3, <1>4 DEF IsBetween

\* The one value of a CNAME that is still to be created, with nothing left to
\* delete or patch, finds the name free.
LEMMA WayFree ==
    ASSUME NEW z, NEW from, NEW to, NEW put, NEW del, CallsOf(from, to, put, del),
           OnTheWay(z, from, to, put, del), Cardinality(to) <= 1, del = {}, put # {},
           \A p \in put : p[1] \notin ValuesOf(from)
    PROVE  z = {}
  <1>1. IsFiniteSet(to) BY Zenon, DnsAssumption, FS_Subset DEF CallsOf, RecordSets
  <1>2. PICK p \in put : TRUE BY Zenon
  <1>3. p \in to /\ p \notin from BY Zenon DEF CallsOf
  <1>4. \A q \in to : q = p BY Zenon, <1>1, <1>3, AtMostOne
  <1>5. \A q \in from : \A x \in put : x[1] # q[1] BY Zenon DEF ValuesOf
  <1> QED BY Zenon, <1>2, <1>3, <1>4, <1>5 DEF OnTheWay

-----------------------------------------------------------------------------
(* The state file explains the zone *)

\* A record set with one TTL is reported as it is.
LEMMA ReportedAsIs ==
    ASSUME NEW set \in RecordSets, Supported(set)
    PROVE  set \in Reports(set)
  <1>1. CASE set = {} BY Zenon, <1>1 DEF Reports
  <1>2. CASE set # {}
    <2>1. PICK p \in set : TRUE BY Zenon, <1>2
    <2>2. p[2] \in TtlsOf(set) BY Zenon DEF TtlsOf
    <2>3. ASSUME NEW q \in set PROVE q = <<q[1], p[2]>>
      <3>1. q = <<q[1], q[2]>> BY Zenon, DnsAssumption DEF RecordSets
      <3>2. q[2] \in TtlsOf(set) BY Zenon DEF TtlsOf
      <3>3. q[2] = p[2] BY Zenon, <2>2, <3>2, OneTtl
      <3> QED BY Zenon, <3>1, <3>3
    <2>4. \A q \in set : q \in {<<v, p[2]>> : v \in ValuesOf(set)} BY Zenon, <2>3 DEF ValuesOf
    <2>5. \A v \in ValuesOf(set) : <<v, p[2]>> \in set BY Zenon, <2>3 DEF ValuesOf
    <2>6. set = {<<v, p[2]>> : v \in ValuesOf(set)} BY Zenon, <2>4, <2>5
    <2> QED BY Zenon, <1>2, <2>2, <2>6 DEF Reports
  <1> QED BY Zenon, <1>1, <1>2

\* A record explains a zone: what is applied is what the provider reports.  A
\* submitted change has been applied.
Explains(rec, z) ==
    IF rec = None THEN z \in Foreign \/ z = {}
    ELSE IF rec.pending = None THEN rec.applied \in Reports(z)
    ELSE /\ IsBetween(z, rec.pending.from, rec.pending.to)
         /\ rec.pending.ticket => z = rec.pending.to /\ Supported(z)

\* What an active Edge knows about the zone.
Knows(e) ==
    /\ pc[e] \in {"track", "list", "change"} => mem[e].rec = file.rec
    /\ pc[e] \in {"get", "persist"} => Explains(mem[e].rec, zone)
    /\ pc[e] \in {"intent", "list"} => zone = plan[e].from
    /\ pc[e] = "change" =>
        IF adapter = "route53" THEN zone = plan[e].from
        ELSE OnTheWay(zone, plan[e].from, plan[e].to, calls[e].put, calls[e].del)
    /\ pc[e] = "answered" => zone = plan[e].to

ExplainInv ==
    edits = 0 => Explains(file.rec, zone) /\ \A e \in Edges : Active(e) => Knows(e)

\* An intent explains the zone before, during and after the change.
LEMMA IntentExplains ==
    ASSUME NEW rec, NEW from \in RecordSets, NEW to \in RecordSets, NEW z,
           rec # None, rec.pending = PendingChange(from, to, FALSE)
    PROVE  /\ Explains(rec, z) <=> IsBetween(z, from, to)
           /\ IsBetween(from, from, to) /\ IsBetween(to, from, to)
  <1>1. PendingChange(from, to, FALSE) \in Pending BY Zenon DEF PendingChange, Pending
  <1>2. PendingChange(from, to, FALSE) # None BY Zenon, <1>1, DnsAssumption
  <1>3. Explains(rec, z) <=> IsBetween(z, from, to)
    BY <1>2 DEF Explains, PendingChange
  <1> QED BY Zenon, <1>3 DEF IsBetween

\* A finished change explains what is reported as its target.
LEMMA CompletedExplains ==
    ASSUME NEW rec \in Managed, HasPending(rec), NEW z, rec.pending.to \in Reports(z)
    PROVE  Explains(Completed(rec), z)
  <1>1. Completed(rec) \in Managed BY Zenon, KnownType
  <1>2. Completed(rec) # None BY Zenon, <1>1, DnsAssumption
  <1>3. Completed(rec).pending = None /\ Completed(rec).applied = rec.pending.to
    BY Zenon DEF Completed, ManagedRecord
  <1> QED BY Zenon, <1>2, <1>3 DEF Explains

\* What an Edge that changes the zone has to start from.
LEMMA ChangeIs ==
    ASSUME WriterInv, NEW e \in Edges, pc[e] = "change"
    PROVE  /\ CallsOf(plan[e].from, plan[e].to, calls[e].put, calls[e].del)
           /\ plan[e].from \in RecordSets /\ plan[e].to \in RecordSets
           /\ mem[e].rec # None
           /\ mem[e].rec.pending = PendingChange(plan[e].from, plan[e].to, FALSE)
           /\ Active(e)
           /\ cname => Cardinality(plan[e].to) <= 1
  <1>1. PlanOf(e) /\ WriterOf(e) BY Zenon DEF WriterInv
  <1>2. plan[e].to \in RecordSets /\ Supported(plan[e].to)
    BY Zenon, <1>1, DnsAssumption DEF PlanOf, RecordSets
  <1> QED BY Zenon, <1>1, <1>2 DEF PlanOf, WriterOf, CallsOf, Configured

\* Wherever a call may leave the zone, the state file explains it.
LEMMA EffectExplained ==
    ASSUME WriterInv, ExplainInv, edits = 0, NEW e \in Edges,
           NEW z \in {zone} \cup CallEffect(e)
    PROVE  Explains(file.rec, z)
  <1>1. Explains(file.rec, zone) BY Zenon DEF ExplainInv
  <1>2. CASE pc[e] # "change" BY Zenon, <1>1, <1>2 DEF CallEffect
  <1>3. CASE pc[e] = "change"
    <2> DEFINE from == plan[e].from
               to == plan[e].to
               put == calls[e].put
               del == calls[e].del
    <2>1. /\ CallsOf(from, to, put, del) /\ from \in RecordSets /\ to \in RecordSets
          /\ mem[e].rec # None /\ mem[e].rec.pending = PendingChange(from, to, FALSE)
          /\ Knows(e)
      BY ZenonT(30), <1>3, ChangeIs DEF ExplainInv
    <2>2. mem[e].rec = file.rec BY Zenon, <1>3, <2>1 DEF Knows
    <2> HIDE DEF from, to, put, del
    <2>3. IsBetween(z, from, to) => Explains(file.rec, z) BY Zenon, <2>1, <2>2, IntentExplains
    <2>4. CASE z = zone BY Zenon, <1>1, <2>4
    <2>5. CASE adapter = "route53" /\ z \in CallEffect(e)
      <3>1. z \in {zone, to} BY Zenon, <1>3, <2>5 DEF CallEffect, to
      <3>2. IsBetween(to, from, to) BY ZenonT(30), <2>1, IntentExplains
      <3> QED BY Zenon, <2>3, <2>4, <3>1, <3>2
    <2>6. CASE adapter # "route53" /\ z \in CallEffect(e)
      <3>1. OnTheWay(zone, from, to, put, del) BY Zenon, <1>3, <2>1, <2>6 DEF Knows, from, to, put, del
      <3>2. \/ \E p \in put : z = {q \in zone : q[1] # p[1]} \cup {p}
            \/ \E p \in del : z = zone \ {p}
        BY Zenon, <1>3, <2>6 DEF CallEffect, put, del
      <3>3. CASE \E p \in put : z = {q \in zone : q[1] # p[1]} \cup {p}
        <4>1. PICK p \in put : z = {q \in zone : q[1] # p[1]} \cup {p} BY Zenon, <3>3
        <4>2. OnTheWay(z, from, to, put \ {p}, del) BY Zenon, <2>1, <3>1, <4>1, WayPut
        <4>3. CallsOf(from, to, put \ {p}, del) BY Zenon, <2>1 DEF CallsOf
        <4> QED BY Zenon, <2>3, <4>2, <4>3, WayBetween
      <3>4. CASE \E p \in del : z = zone \ {p}
        <4>1. PICK p \in del : z = zone \ {p} BY Zenon, <3>4
        <4>2. OnTheWay(z, from, to, put, del \ {p}) BY Zenon, <2>1, <3>1, <4>1, WayDelete
        <4>3. CallsOf(from, to, put, del \ {p}) BY Zenon, <2>1 DEF CallsOf
        <4> QED BY Zenon, <2>3, <4>2, <4>3, WayBetween
      <3> QED BY Zenon, <3>2, <3>3, <3>4
    <2> QED BY Zenon, <2>4, <2>5, <2>6
  <1> QED BY Zenon, <1>2, <1>3

\* What the proof of a step has to show of its Edge.
ExplainsStill(e) == Explains(file'.rec, zone') /\ (Active(e)' => Knows(e)')

\* The start of a round and the end of a submitted change.
LEMMA BeginExplains ==
    ASSUME WriterInv, ExplainInv, edits = 0, NEW e \in Edges,
           Begin(e) \/ (Active(e) /\ (Synced(e) \/ NotSynced(e)))
    PROVE  ExplainsStill(e)
  <1>1. Types /\ Explains(file.rec, zone) BY Zenon DEF WriterInv, ExplainInv
  <1>2. CASE Begin(e)
    <2>1. /\ mem'[e].rec = file.rec /\ pc'[e] \in {"track", "get"} /\ file' = file /\ zone' = zone
      BY Zenon, <1>2, BeginKeeps DEF Begin
    <2> QED BY Zenon, <1>1, <2>1 DEF ExplainsStill, Knows
  <1>3. CASE Active(e) /\ Synced(e)
    <2>1. /\ pc[e] = "track" /\ pc'[e] = "get" /\ mem'[e].rec = Completed(mem[e].rec)
          /\ file' = file /\ zone' = zone
      BY Zenon, <1>1, <1>3 DEF Synced, Goto, Remember, Types, State
    <2>2. mem[e].rec = file.rec /\ Tracked(file.rec)
      BY ZenonT(30), <1>3, <2>1 DEF ExplainInv, Knows, WriterInv, PlanOf
    <2>3. HasPending(file.rec) /\ zone = file.rec.pending.to /\ Supported(zone)
      BY Zenon, <1>1, <2>2 DEF Explains, Tracked, HasPending
    <2>4. file.rec \in Managed BY Zenon, <1>1, <2>3 DEF Types, State, HasPending
    <2>5. zone \in Reports(zone) BY Zenon, <1>1, <2>3, ReportedAsIs DEF Types
    <2>6. Explains(Completed(file.rec), zone) BY Zenon, <2>3, <2>4, <2>5, CompletedExplains
    <2> QED BY Zenon, <1>1, <2>1, <2>2, <2>6 DEF ExplainsStill, Knows
  <1>4. CASE Active(e) /\ NotSynced(e)
    <2>1. /\ pc[e] = "track" /\ pc'[e] = "persist" /\ mem' = mem /\ file' = file /\ zone' = zone
      BY Zenon, <1>1, <1>4 DEF NotSynced, Goto, Types
    <2>2. mem[e].rec = file.rec BY ZenonT(30), <1>4, <2>1 DEF ExplainInv, Knows
    <2> QED BY Zenon, <1>1, <2>1, <2>2 DEF ExplainsStill, Knows
  <1> QED BY Zenon, <1>2, <1>3, <1>4

\* decide.
LEMMA GetExplains ==
    ASSUME WriterInv, ExplainInv, edits = 0, NEW e \in Edges, Get(e), Active(e)
    PROVE  ExplainsStill(e)
  <1>0. PICK reported \in Reports(zone) : Decided(e, reported) BY Zenon, DecidedBy
  <1> DEFINE rec == mem[e].rec
             known == Known(rec, reported)
             action == Decide(desired, import, zone, known)
  <1>1. Types /\ rec \in Managed \cup {None} /\ desired \in Configs /\ pc[e] = "get"
    BY Zenon, <1>0 DEF WriterInv, Types, State, Decided, Goto
  <1>2. /\ pc'[e] = IF action.kind = "apply" THEN "intent" ELSE "persist"
        /\ plan'[e] = IF action.kind = "apply" THEN action ELSE Leave
        /\ mem'[e].rec = Noted(known, action)
        /\ file' = file /\ zone' = zone
    BY Zenon, <1>0, <1>1 DEF Decided, Goto, Remember, Types, State
  <1>3. Explains(file.rec, zone) /\ Explains(rec, zone) BY Zenon, <1>1 DEF ExplainInv, Knows
  <1> HIDE DEF rec
  <1>4. known \in Managed \cup {None} /\ Explains(known, zone)
    <2>1. CASE known = rec BY Zenon, <1>1, <1>3, <2>1
    <2>2. CASE known # rec
      <3>1. HasPending(rec) /\ rec.pending.to \in Reports(zone) /\ known = Completed(rec)
        BY Zenon, <1>0, <2>2 DEF Known
      <3>2. rec \in Managed BY Zenon, <1>1, <3>1 DEF HasPending
      <3> QED BY Zenon, <3>1, <3>2, KnownType, CompletedExplains
    <2> QED BY Zenon, <2>1, <2>2
  <1> HIDE DEF known
  <1>5. /\ action \in {Leave, Adopt, Forget, NoChange, Apply(zone, desired)}
        /\ action.kind = "apply" => action = Apply(zone, desired)
        /\ action.kind \in {"adopt", "no_change"} => zone = desired
        /\ action.kind = "forget" => zone = {}
    BY <1>1, DecideIs
  <1> HIDE DEF action
  <1>6. Explains(Noted(known, action), zone)
    <2>0. action \in {Adopt, NoChange} => zone \in Reports(zone)
      <3>1. Adopt.kind = "adopt" /\ NoChange.kind = "no_change" BY DEF Adopt, NoChange
      <3>2. action \in {Adopt, NoChange} => zone = desired BY Zenon, <1>5, <3>1
      <3>3. zone = desired => Supported(zone) /\ zone \in RecordSets
        BY Zenon, <1>1, DnsAssumption DEF Types
      <3> QED BY Zenon, <3>2, <3>3, ReportedAsIs
    <2>1. CASE action = NoChange
      <3> DEFINE new == [known EXCEPT !.applied = zone, !.pending = None]
      <3>1. known # None => new \in Managed /\ new.applied = zone /\ new.pending = None
        BY Zenon, <1>1, <1>4 DEF Managed, Types
      <3>2. Noted(known, action) \in {known, new} /\ (Noted(known, action) = new \/ Noted(known, action) = known)
            /\ (known = None => Noted(known, action) = known)
        BY Zenon, <2>1 DEF Noted, NoChange
      <3> HIDE DEF new
      <3>3. known # None => Explains(new, zone) BY Zenon, <2>0, <2>1, <3>1, DnsAssumption DEF Explains
      <3> QED BY Zenon, <1>4, <3>2, <3>3
    <2>2. CASE action = Adopt
      <3>1. Noted(known, action) = ManagedRecord(zone, {}, None) BY Zenon, <2>2 DEF Noted, Adopt
      <3>2. ManagedRecord(zone, {}, None) \in Managed
        BY Zenon, <1>1 DEF ManagedRecord, Managed, Types, RecordSets
      <3>3. ManagedRecord(zone, {}, None).pending = None /\ ManagedRecord(zone, {}, None).applied = zone
        BY Zenon DEF ManagedRecord
      <3> QED BY Zenon, <2>0, <2>2, <3>1, <3>2, <3>3, DnsAssumption DEF Explains
    <2>3. CASE action = Forget BY Zenon, <1>5, <2>3 DEF Noted, Forget, Explains
    <2>4. CASE action = Leave BY Zenon, <1>4, <2>4 DEF Noted, Leave
    <2>5. CASE action = Apply(zone, desired) BY Zenon, <1>4, <2>5 DEF Noted, Apply
    <2> QED BY Zenon, <1>5, <2>1, <2>2, <2>3, <2>4, <2>5
  <1>7. action.kind = "apply" => plan'[e].from = zone
    <2>1. Apply(zone, desired).from = zone BY Zenon DEF Apply
    <2> QED BY Zenon, <1>2, <1>5, <2>1
  <1> QED BY ZenonT(30), <1>2, <1>3, <1>6, <1>7 DEF ExplainsStill, Knows

\* The intent is saved, or stays in memory when the save fails.
LEMMA IntentExplained ==
    ASSUME WriterInv, ExplainInv, edits = 0, NEW e \in Edges, Active(e), Intent(e) \/ SaveFails(e)
    PROVE  ExplainsStill(e)
  <1>1. Types /\ mem[e].rec \in Managed \cup {None} /\ Explains(file.rec, zone)
    BY Zenon DEF WriterInv, Types, State, ExplainInv
  <1>2. CASE pc[e] = "intent"
    <2> DEFINE rec == WithIntent(mem[e].rec, plan[e])
    <2>1. /\ plan[e].from \in RecordSets /\ plan[e].to \in RecordSets /\ zone = plan[e].from
      BY ZenonT(30), <1>2 DEF WriterInv, PlanOf, RecordSets, ExplainInv, Knows
    <2>2. rec # None /\ rec.pending = PendingChange(plan[e].from, plan[e].to, FALSE)
      BY ZenonT(30), <1>1, <2>1, IntentType
    <2>3. Explains(rec, zone) BY Zenon, <2>1, <2>2, IntentExplains
    <2>4. Renewed(e) BY Zenon, <1>2, RenewedIs
    <2>5. CASE Intent(e)
      <3>1. /\ pc'[e] = "list" /\ mem'[e].rec = rec /\ file' = mem'[e] /\ zone' = zone /\ plan' = plan
        BY ZenonT(30), <1>1, <2>4, <2>5 DEF Intent, Remember, Types, State
      <3> QED BY Zenon, <2>1, <2>3, <3>1 DEF ExplainsStill, Knows
    <2>6. CASE SaveFails(e)
      <3>1. /\ pc'[e] = "persist" /\ mem'[e].rec = rec /\ file' = file /\ zone' = zone
        BY <1>1, <1>2, <2>6 DEF SaveFails, Goto, Remember, Types, State
      <3> QED BY Zenon, <1>1, <2>3, <3>1 DEF ExplainsStill, Knows
    <2> QED BY Zenon, <2>5, <2>6
  <1>3. CASE pc[e] = "persist"
    <2>1. pc'[e] = "run" /\ file' = file /\ zone' = zone
      BY Zenon, <1>1, <1>3 DEF Intent, SaveFails, Goto, Rest, Stop, Types
    <2> QED BY Zenon, <1>1, <2>1 DEF ExplainsStill, Active
  <1> QED BY Zenon, <1>2, <1>3 DEF Intent, SaveFails, Goto

\* The provider is asked for the change that was decided on: nothing refuses it.
LEMMA ListExplains ==
    ASSUME WriterInv, ExplainInv, edits = 0, NEW e \in Edges, Active(e), List(e)
    PROVE  ExplainsStill(e)
  <1>1. Types /\ pc[e] = "list" /\ Knows(e) /\ PlanOf(e) /\ Explains(file.rec, zone)
    BY Zenon DEF List, WriterInv, ExplainInv
  <1>2. /\ zone = plan[e].from /\ plan[e].from \in RecordSets /\ Supported(plan[e].from)
        /\ plan[e].to \in RecordSets /\ Supported(plan[e].to) /\ mem[e].rec = file.rec
    BY Zenon, <1>1, DnsAssumption DEF Knows, PlanOf, RecordSets
  <1>3. Renewed(e) BY Zenon, <1>1, RenewedIs
  <1>4. /\ pc' = [pc EXCEPT ![e] = "change"]
        /\ calls' = [calls EXCEPT ![e] = CallsFor(zone, plan[e].to)]
        /\ UNCHANGED <<zone, mem, plan, file>>
    BY Zenon, <1>2, <1>3 DEF List
  <1>5. pc'[e] = "change" /\ calls'[e] = CallsFor(plan[e].from, plan[e].to) BY Zenon, <1>1, <1>2, <1>4 DEF Types
  <1>6. OnTheWay(zone, plan[e].from, plan[e].to, calls'[e].put, calls'[e].del)
    BY Zenon, <1>2, <1>5, WayStarts
  <1> QED BY Zenon, <1>1, <1>2, <1>4, <1>5, <1>6 DEF ExplainsStill, Knows

\* The batch is applied; a record that is gone leaves the intent; the name of
\* a CNAME cannot have been taken.
LEMMA BatchExplains ==
    ASSUME WriterInv, ExplainInv, edits = 0, NEW e \in Edges,
           ChangeBatch(e) \/ RecordGone(e) \/ NameTaken(e)
    PROVE  ExplainsStill(e)
  <1>1. Types /\ pc[e] = "change" /\ Explains(file.rec, zone)
    BY ZenonT(30) DEF ChangeBatch, RecordGone, NameTaken, Goto, WriterInv, ExplainInv
  <1>2. /\ CallsOf(plan[e].from, plan[e].to, calls[e].put, calls[e].del)
        /\ plan[e].from \in RecordSets /\ plan[e].to \in RecordSets
        /\ mem[e].rec # None /\ mem[e].rec.pending = PendingChange(plan[e].from, plan[e].to, FALSE)
        /\ Knows(e) /\ (cname => Cardinality(plan[e].to) <= 1)
    BY ZenonT(30), <1>1, ChangeIs DEF ExplainInv
  <1>3. mem[e].rec = file.rec BY ZenonT(30), <1>1, <1>2 DEF Knows
  <1>4. CASE ChangeBatch(e)
    <2>1. zone = plan[e].from BY Zenon, <1>1, <1>2, <1>4 DEF Knows, ChangeBatch
    <2>2. zone' = plan[e].to /\ pc'[e] = "answered" /\ plan' = plan /\ file' = file
      BY Zenon, <1>1, <1>4, <2>1 DEF ChangeBatch, Types
    <2>3. Explains(file.rec, plan[e].to) BY ZenonT(30), <1>2, <1>3, IntentExplains
    <2> QED BY ZenonT(30), <2>2, <2>3 DEF ExplainsStill, Knows
  <1>5. CASE RecordGone(e)
    <2>1. pc'[e] = "persist" /\ mem' = mem /\ file' = file /\ zone' = zone
      BY Zenon, <1>1, <1>5 DEF RecordGone, Goto, Types
    <2> QED BY Zenon, <1>1, <1>3, <2>1 DEF ExplainsStill, Knows
  <1>6. CASE NameTaken(e)
    <2>1. /\ adapter # "route53" /\ cname /\ calls[e].del = {} /\ calls[e].put # {} /\ zone # {}
          /\ \A p \in calls[e].put : p[1] \notin ValuesOf(plan[e].from)
      BY ZenonT(30), <1>6 DEF NameTaken, Listed
    <2>2. OnTheWay(zone, plan[e].from, plan[e].to, calls[e].put, calls[e].del)
      BY ZenonT(30), <1>1, <1>2, <2>1 DEF Knows
    <2>3. zone = {} BY ZenonT(30), <1>2, <2>1, <2>2, WayFree
    <2> QED BY Zenon, <2>1, <2>3
  <1> QED BY Zenon, <1>4, <1>5, <1>6

\* One Cloudflare call.
LEMMA CallExplains ==
    ASSUME WriterInv, ExplainInv, edits = 0, NEW e \in Edges, NEW p, Put(e, p) \/ Delete(e, p)
    PROVE  ExplainsStill(e)
  <1> DEFINE from == plan[e].from
             to == plan[e].to
             put == calls[e].put
             del == calls[e].del
  <1>1. Types /\ pc[e] = "change" /\ PlanOf(e) /\ adapter # "route53" /\ adapter' = adapter
    BY Zenon DEF Put, Delete, Called, Constant, config, WriterInv
  <1>2. /\ CallsOf(from, to, put, del) /\ from \in RecordSets /\ to \in RecordSets
        /\ mem[e].rec # None /\ mem[e].rec.pending = PendingChange(from, to, FALSE)
        /\ Knows(e)
    BY ZenonT(30), <1>1, ChangeIs DEF ExplainInv
  <1>3. mem[e].rec = file.rec /\ OnTheWay(zone, from, to, put, del) BY Zenon, <1>1, <1>2 DEF Knows
  <1>4. calls[e] = [put |-> put, del |-> del] BY ZenonT(30), <1>1 DEF PlanOf
  <1>5. /\ OnTheWay(zone', from, to, calls'[e].put, calls'[e].del)
        /\ CallsOf(from, to, calls'[e].put, calls'[e].del)
        /\ calls'[e] = NoCalls => calls'[e].put = {} /\ calls'[e].del = {}
    <2>1. CASE Put(e, p)
      <3>1. p \in put /\ zone' = {q \in zone : q[1] # p[1]} \cup {p} BY Zenon, <2>1 DEF Put
      <3>2. calls' = [calls EXCEPT ![e] = [calls[e] EXCEPT !.put = @ \ {p}]] BY Zenon, <2>1 DEF Put
      <3>3. calls'[e].put = put \ {p} /\ calls'[e].del = del BY Zenon, <1>1, <1>4, <3>2 DEF Types
      <3> HIDE DEF from, to, put, del
      <3>4. OnTheWay(zone', from, to, put \ {p}, del) BY Zenon, <1>2, <1>3, <3>1, WayPut
      <3>5. CallsOf(from, to, put \ {p}, del) BY Zenon, <1>2 DEF CallsOf
      <3>6. calls'[e] = NoCalls => calls'[e].put = {} /\ calls'[e].del = {} BY DEF NoCalls
      <3> QED BY Zenon, <3>3, <3>4, <3>5, <3>6
    <2>2. CASE Delete(e, p)
      <3>1. p \in del /\ zone' = {q \in zone : q[1] # p[1]} BY Zenon, <2>2 DEF Delete
      <3>2. calls' = [calls EXCEPT ![e] = [calls[e] EXCEPT !.del = @ \ {p}]] BY Zenon, <2>2 DEF Delete
      <3>3. calls'[e].put = put /\ calls'[e].del = del \ {p} BY Zenon, <1>1, <1>4, <3>2 DEF Types
      <3> HIDE DEF from, to, put, del
      <3>4. OnTheWay(zone', from, to, put, del \ {p})
        <4>1. {q \in zone : q[1] # p[1]} = zone \ {p} /\ OnTheWay(zone \ {p}, from, to, put, del \ {p})
          BY Zenon, <1>2, <1>3, <3>1, WayDelete
        <4> QED BY Zenon, <3>1, <4>1
      <3>5. CallsOf(from, to, put, del \ {p}) BY Zenon, <1>2 DEF CallsOf
      <3>6. calls'[e] = NoCalls => calls'[e].put = {} /\ calls'[e].del = {} BY DEF NoCalls
      <3> QED BY Zenon, <3>3, <3>4, <3>5, <3>6
    <2> QED BY ZenonT(30), <2>1, <2>2
  <1>6. /\ pc'[e] = IF calls'[e] = NoCalls THEN "answered" ELSE "change"
        /\ mem' = mem /\ file' = file /\ plan' = plan
    BY Zenon, <1>1 DEF Put, Delete, Called, Types
  <1>7. IsBetween(zone', from, to) BY ZenonT(30), <1>5, WayBetween
  <1>8. Explains(file.rec, zone') BY ZenonT(30), <1>2, <1>3, <1>7, IntentExplains
  <1>9. calls'[e] = NoCalls => zone' = to BY Zenon, <1>5, WayEnds
  <1> QED BY Zenon, <1>1, <1>3, <1>5, <1>6, <1>8, <1>9 DEF ExplainsStill, Knows

\* The answer, and the end of the round.
LEMMA AnsweredExplains ==
    ASSUME WriterInv, ExplainInv, edits = 0, NEW e \in Edges, Active(e), Answered(e)
    PROVE  ExplainsStill(e)
  <1>1. Types /\ pc[e] = "answered" /\ PlanOf(e) /\ Knows(e) /\ Explains(file.rec, zone)
    BY Zenon DEF Answered, WriterInv, ExplainInv
  <1>2. /\ mem[e].rec \in Managed /\ mem[e].rec # None
        /\ plan[e].from \in RecordSets /\ plan[e].to \in RecordSets
        /\ mem[e].rec.pending = PendingChange(plan[e].from, plan[e].to, FALSE)
        /\ zone = plan[e].to /\ Supported(zone)
    <2>1. plan[e].to \in Configs /\ zone = plan[e].to BY Zenon, <1>1 DEF PlanOf, Knows
    <2>2. Supported(zone) BY Zenon, <2>1, DnsAssumption
    <2> QED BY Zenon, <1>1, <2>1, <2>2 DEF PlanOf, Types, State, RecordSets
  <1>3. PendingChange(plan[e].from, plan[e].to, FALSE) \in Pending
    BY Zenon, <1>2 DEF Pending, PendingChange
  <1>4. HasPending(mem[e].rec) /\ mem[e].rec.pending.to = zone /\ mem[e].rec.pending.from = plan[e].from
    <2>1. HasPending(mem[e].rec) BY Zenon, <1>2, <1>3, DnsAssumption DEF HasPending
    <2> QED BY <1>2, <2>1 DEF PendingChange
  <1> DEFINE P == [mem[e].rec.pending EXCEPT !.ticket = TRUE]
             T == [mem[e].rec EXCEPT !.pending = P]
  <1>5. Explains(T, zone)
    <2>1. P \in Pending /\ P.from = plan[e].from /\ P.to = zone BY Zenon, <1>2, <1>3, <1>4 DEF Pending
    <2> HIDE DEF P
    <2>2. T \in Managed /\ T.pending = P BY Zenon, <1>2, <2>1 DEF Managed
    <2> HIDE DEF T
    <2>3. IsBetween(zone, plan[e].from, zone) BY Zenon DEF IsBetween
    <2> QED BY Zenon, <1>2, <2>1, <2>2, <2>3, DnsAssumption DEF Explains
  <1>6. Explains(Completed(mem[e].rec), zone)
    <2>1. zone \in Reports(zone) BY Zenon, <1>2, ReportedAsIs
    <2> QED BY Zenon, <1>2, <1>4, <2>1, CompletedExplains
  <1>7. Renewed(e) BY Zenon, <1>1, RenewedIs
  <1>8. /\ pc'[e] = "persist" /\ file' = file /\ zone' = zone
        /\ mem'[e].rec \in {Completed(mem[e].rec), T}
    BY <1>1, <1>7 DEF Answered, Remember, Types, State
  <1> QED BY Zenon, <1>1, <1>5, <1>6, <1>8 DEF ExplainsStill, Knows

\* The rounds that end here, with or without a save, and failing calls.
LEMMA EndExplains ==
    ASSUME WriterInv, ExplainInv, edits = 0, NEW e \in Edges,
           Persist(e) \/ CallFails(e) \/ ValkeyFails(e) \/ Crash(e)
    PROVE  ExplainsStill(e)
  <1>1. Types /\ Explains(file.rec, zone) BY Zenon DEF WriterInv, ExplainInv
  <1>2. CASE Persist(e)
    <2>1. pc[e] = "persist" /\ pc'[e] = "run" /\ zone' = zone BY Zenon, <1>2, PersistKeeps DEF Persist
    <2>2. file' = file \/ (file' = mem[e] /\ Active(e))
      <3>1. Renewed(e) <=> Active(e) BY Zenon, <2>1, RenewedIs
      <3>2. file' = IF Renewed(e) THEN mem[e] ELSE file BY Zenon, <1>2 DEF Persist
      <3>3. CASE Renewed(e) BY Zenon, <3>1, <3>2, <3>3
      <3>4. CASE ~Renewed(e) BY Zenon, <3>2, <3>4
      <3> QED BY Zenon, <3>3, <3>4
    <2> QED BY ZenonT(30), <1>1, <2>1, <2>2 DEF ExplainsStill, Active, ExplainInv, Knows
  <1>3. CASE ValkeyFails(e) \/ Crash(e)
    <2>1. pc'[e] = "run" BY Zenon, <1>3, StopsKeep
    <2>2. file' = file /\ zone' \in {zone} \cup CallEffect(e) BY Zenon, <1>3 DEF ValkeyFails, Crash
    <2> QED BY Zenon, <2>1, <2>2, EffectExplained DEF ExplainsStill, Active
  <1>4. CASE CallFails(e)
    <2>1. /\ pc[e] \in {"get", "list", "change"} /\ pc'[e] = "persist" /\ mem' = mem /\ file' = file
          /\ zone' \in {zone} \cup CallEffect(e)
      BY Zenon, <1>1, <1>4 DEF CallFails, Types
    <2>2. Explains(file.rec, zone') BY Zenon, <2>1, EffectExplained
    <2>3. Active(e)' => Active(e)
      <3>1. lease' = lease /\ gen' = gen /\ mode' = mode
        BY Zenon, <1>4, <2>1, RenewedIs DEF CallFails, Constant, config
      <3> QED BY Zenon, <2>1, <3>1 DEF Active
    <2>4. Active(e) => Explains(mem[e].rec, zone')
      <3>1. CASE pc[e] = "get" BY ZenonT(30), <2>1, <3>1 DEF ExplainInv, Knows, CallEffect
      <3>2. CASE pc[e] \in {"list", "change"} BY Zenon, <2>2, <3>2 DEF ExplainInv, Knows
      <3> QED BY ZenonT(30), <2>1, <3>1, <3>2
    <2> QED BY Zenon, <2>1, <2>2, <2>3, <2>4 DEF ExplainsStill, Knows
  <1> QED BY Zenon, <1>2, <1>3, <1>4

\* An Edge gets active by beginning a round only.
LEMMA StaysActive ==
    ASSUME WriterInv, NEW e \in Edges, EdgeStep(e), ~Begin(e), Active(e)'
    PROVE  Active(e)
  <1>1. Types /\ pc \in [Edges -> Stages] BY Zenon DEF WriterInv, Types
  <1>2. mode' = mode BY Zenon, EdgeKeeps DEF Keeps, Acts, config
  <1>3. ~Stop(e) BY Zenon, <1>1 DEF Stop, Active
  <1>4. pc[e] # "run"
    BY Zenon, <1>3 DEF EdgeStep, Round, Synced, NotSynced, Get, Goto, Intent, List, ChangeBatch, RecordGone,
                NameTaken, Put, Delete, Answered, Persist, CallFails, ValkeyFails, SaveFails, Crash, Rest
  <1>5. gen' = gen
    BY Zenon, <1>3 DEF EdgeStep, Round, Synced, NotSynced, Get, Intent, List, ChangeBatch, RecordGone, Refuse,
                NameTaken, Put, Delete, Called, Answered, Persist, CallFails, ValkeyFails, SaveFails,
                Crash, Rest
  <1>6. lease' = lease
    <2>1. Renewed(e) => RenewedLease(e) = lease BY Zenon, <1>4, RenewedIs
    <2> QED BY Zenon, <1>3, <2>1
         DEF EdgeStep, Round, Synced, NotSynced, Get, Intent, List, ChangeBatch, RecordGone,
             NameTaken, Put, Delete, Called, Answered, Persist, CallFails, ValkeyFails, SaveFails,
             Crash, Rest
  <1> QED BY Zenon, <1>2, <1>4, <1>5, <1>6 DEF Active

\* Only an active Edge changes the zone.
LEMMA ZoneByActive ==
    ASSUME WriterInv, NEW e \in Edges, EdgeStep(e), zone' # zone
    PROVE  Active(e)
  <1>1. pc[e] = "change"
    BY ZenonT(30) DEF EdgeStep, Round, Begin, Synced, NotSynced, Get, Intent, List, ChangeBatch, RecordGone, Refuse,
           NameTaken, Put, Delete, Answered, Persist, CallFails, ValkeyFails, SaveFails, Crash, CallEffect
  <1> QED BY Zenon, <1>1 DEF WriterInv, WriterOf

\* Every step of an Edge, for the Edge itself ...
LEMMA OwnExplains ==
    ASSUME WriterInv, ExplainInv, edits = 0, NEW e \in Edges, EdgeStep(e)
    PROVE  ExplainsStill(e)
  <1>1. CASE Begin(e)
    <2>1. Begin(e) \/ (Active(e) /\ (Synced(e) \/ NotSynced(e))) BY Zenon, <1>1
    <2> QED BY Zenon, <2>1, BeginExplains
  <1>2. CASE \E p : Put(e, p) \/ Delete(e, p)
    <2>1. PICK p : Put(e, p) \/ Delete(e, p) BY Zenon, <1>2
    <2> QED BY Zenon, <2>1, CallExplains
  <1>3. CASE ChangeBatch(e) \/ RecordGone(e) \/ NameTaken(e) BY Zenon, <1>3, BatchExplains
  <1>4. CASE Persist(e) \/ CallFails(e) \/ ValkeyFails(e) \/ Crash(e) BY Zenon, <1>4, EndExplains
  <1> DEFINE Others == Synced(e) \/ NotSynced(e) \/ Get(e) \/ Intent(e) \/ List(e) \/ Answered(e)
                       \/ SaveFails(e)
  <1>5. CASE Others /\ Active(e)
    BY Zenon, <1>5, BeginExplains, GetExplains, IntentExplained, ListExplains, AnsweredExplains
  <1>6. CASE Others /\ ~Active(e) /\ ~Begin(e)
    <2>1. zone' = zone BY Zenon, <1>6, ZoneByActive
    <2>2. file' = file BY Zenon, <1>6, EdgeKeeps DEF Keeps
    <2>3. ~Active(e)' BY Zenon, <1>6, StaysActive
    <2> QED BY Zenon, <2>1, <2>2, <2>3 DEF ExplainsStill, ExplainInv
  <1> QED BY Zenon, <1>1, <1>2, <1>3, <1>4, <1>5, <1>6 DEF EdgeStep, Round

\* ... and for the others.
LEMMA ExplainEdgeKeeps ==
    ASSUME WriterInv, ExplainInv, EditCount, NEW e \in Edges, EdgeStep(e)
    PROVE  ExplainInv'
  <1> SUFFICES ASSUME edits' = 0
               PROVE  Explains(file.rec, zone)' /\ \A x \in Edges : Active(x)' => Knows(x)'
    BY Zenon DEF ExplainInv
  <1>1. edits = 0
    BY Zenon DEF EdgeStep, Round, Begin, Synced, NotSynced, Get, Intent, List, ChangeBatch, RecordGone,
           NameTaken, Put, Delete, Called, Answered, Persist, CallFails, ValkeyFails, SaveFails,
           Crash, Fault, counters
  <1>2. ExplainsStill(e) BY Zenon, <1>1, OwnExplains
  <1>3. ASSUME NEW x \in Edges \ {e}, Active(x)' PROVE Knows(x)'
    <2>1. Keeps(e) BY Zenon, EdgeKeeps
    <2>2. Active(x) /\ file' = file BY Zenon, <1>3, <2>1, BystanderKeeps DEF Keeps
    <2>3. zone' = zone BY Zenon, <2>2, ZoneByActive, OneActive
    <2>4. Knows(x) BY Zenon, <1>1, <2>2 DEF ExplainInv
    <2>5. /\ pc'[x] = pc[x] /\ mem'[x] = mem[x] /\ plan'[x] = plan[x] /\ calls'[x] = calls[x]
          /\ adapter' = adapter
      BY Zenon, <2>1 DEF Keeps, Acts, config
    <2> QED BY Zenon, <2>2, <2>3, <2>4, <2>5 DEF Knows
  <1> QED BY Zenon, <1>2, <1>3 DEF ExplainsStill

\* The invariant behind the recovery of a round that others interrupt.
LEMMA ExplainInvariant ==
    ASSUME ~VolatileValkey
    PROVE  Spec => []ExplainInv
  <1>1. Init => ExplainInv BY DEF Init, ExplainInv, Explains, Active, NoState
  <1>2. WriterInv /\ EditCount /\ ExplainInv /\ [Next]_vars => ExplainInv'
    <2> SUFFICES ASSUME WriterInv, EditCount, ExplainInv, Next \/ UNCHANGED vars PROVE ExplainInv'
      BY Zenon
    <2>1. CASE \E e \in Edges : EdgeStep(e) BY Zenon, <2>1, ExplainEdgeKeeps
    <2>2. CASE UNCHANGED vars
      BY ZenonT(30), <2>2 DEF vars, config, counters, ExplainInv, Active, Knows
    <2>3. CASE LeaseRunsOut \/ LeaseLost \/ ValkeyEmptied
      <3>1. /\ \A x \in Edges : Active(x)' => Active(x)
            /\ UNCHANGED <<config, desired, file, zone, pc, mem, gen, plan, calls, edits>>
        BY Zenon, <2>3, LeaseKeeps
      <3> QED BY Zenon, <3>1 DEF ExplainInv, Knows, config
    <2>4. CASE \E set \in Foreign : Edit(set) BY <2>4 DEF Edit, EditCount, ExplainInv
    <2>5. CASE \E c \in Configs : Reconfigure(c)
      <3>1. \A x \in Edges : ~Active(x)' BY Zenon, <2>5, ReconfigureKeeps DEF Active
      <3>2. edits' = edits /\ file' = file /\ \E e \in Edges : zone' \in {zone} \cup CallEffect(e)
        BY Zenon, <2>5 DEF Reconfigure
      <3> QED BY Zenon, <3>1, <3>2, EffectExplained DEF ExplainInv
    <2> QED BY Zenon, <2>1, <2>2, <2>3, <2>4, <2>5 DEF Next, EdgeStep
  <1> QED BY <1>1, <1>2, WriterInvariant, EditsNumber, PTL DEF Spec

\* Unless others have edited the record, the state file explains the zone
\* (is_between, the intent that is saved before replace), wherever an Edge has
\* died, failed or lost the lease, for any number of Edges, values, calls and
\* configurations.
THEOREM DnsStateExplainsProvider ==
    ASSUME ~VolatileValkey
    PROVE  Spec => []StateExplainsProvider
  <1>1. ExplainInv => StateExplainsProvider
    BY Zenon DEF ExplainInv, Explains, StateExplainsProvider, Explained
  <1> QED BY <1>1, ExplainInvariant, PTL
=============================================================================
