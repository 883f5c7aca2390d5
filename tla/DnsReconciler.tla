--------------------------- MODULE DnsReconciler ---------------------------
(***************************************************************************)
(* The DNS reconciler: one managed record of one zone, and the Edges that  *)
(* bring it to the configured state.  They agree on a writer by a Valkey   *)
(* lease, or one of them is configured as the only one.  What they have    *)
(* done is in a state file in a directory they share; every change is saved*)
(* there as an intent before the provider is asked for it.                 *)
(*                                                                         *)
(* Assumed of time: a lease does not run out between its confirmed renewal *)
(* and the local save that follows, nor under a provider call, which is    *)
(* renewed for every third of its time to live, nor while an Edge that has *)
(* just read the state file asks for it (the two are one step here); and a *)
(* call that fails has taken effect by then or never does.                 *)
(***************************************************************************)
EXTENDS Lease, DnsPlan

CONSTANTS Configs,       \* the record sets the configuration may ask for
          Foreign,       \* the record sets others may put in place, with values
                         \* of their own
          SingleWriter,  \* the Edge that writes when there is no Valkey
          VolatileValkey, \* Valkey may lose its data during a round, too
          MaxGeneration, \* bound: no lease runs out from this generation on
          MaxFaults, MaxEdits, MaxReconfigs  \* bounds

ASSUME ForeignAssumption ==
    \A f \in Foreign, c \in Configs : f # {} /\ ValuesOf(f) \cap ValuesOf(c) = {}

\* The record sets of a run, and what the state file can hold about one.
RecordSets == SUBSET UNION (Configs \cup Foreign)
Pending == [from : RecordSets, to : RecordSets, ticket : BOOLEAN]
Managed == [applied : RecordSets, previous : RecordSets, pending : Pending \cup {None}]

\* A configured record set has one TTL.
ASSUME DnsAssumption ==
    /\ IsFiniteSet(UNION (Configs \cup Foreign))
    /\ \A p \in UNION (Configs \cup Foreign) : p = <<p[1], p[2]>>
    /\ \A c \in Configs : Supported(c)
    /\ None \notin Pending /\ None \notin Managed
    /\ NoEdge \notin Edges

VARIABLES mode,      \* WriterMode: "valkey" or "single"
          adapter,   \* the kind of provider
          cname,     \* the record is a CNAME
          import,    \* the record may be taken over
          desired,   \* the configured record set, {} when it shall be absent
          lease,     \* the writer lease
          file,      \* the state file: writer_generation and the managed record
          zone,      \* the record set at the provider
          pc,        \* where each Edge is in a round
          mem,       \* the state each Edge has in memory
          gen,       \* the writer generation of each Edge, 0 for none
          plan,      \* the change each Edge is making
          calls,     \* the provider calls it has left
          faults, edits, reconfigs

config == <<mode, adapter, cname, import>>
counters == <<faults, edits, reconfigs>>
vars == <<config, desired, lease, file, zone, pc, mem, gen, plan, calls, counters>>

NoState == [writer |-> 0, rec |-> None]
NoCalls == [put |-> {}, del |-> {}]

\* compile: a CNAME has exactly one value.
Configured(set) == cname => Cardinality(set) <= 1

Init ==
    /\ mode \in {"valkey", "single"} /\ adapter \in {"cloudflare", "route53"}
    /\ cname \in BOOLEAN /\ import \in BOOLEAN
    /\ cname => adapter = "cloudflare"   \* it makes no difference to Route 53
    /\ desired \in {c \in Configs : Configured(c)}
    /\ zone \in {{}} \cup {f \in Foreign : Configured(f)}
    /\ lease = NoLease /\ file = NoState
    /\ pc = [e \in Edges |-> "run"] /\ mem = [e \in Edges |-> NoState]
    /\ gen = [e \in Edges |-> 0]
    /\ plan = [e \in Edges |-> Leave] /\ calls = [e \in Edges |-> NoCalls]
    /\ faults = 0 /\ edits = 0 /\ reconfigs = 0

-----------------------------------------------------------------------------
(* Helpers *)

Goto(e, from, to) == pc[e] = from /\ pc' = [pc EXCEPT ![e] = to]

Fault == faults < MaxFaults /\ faults' = faults + 1 /\ UNCHANGED <<edits, reconfigs>>

\* renew_writer: the lease is acquired again, a free one too, and has to come
\* with the generation of the round.
RenewedLease(e) == IF mode = "single" THEN lease ELSE LeaseAfterAcquire(lease, e, gen[e])

Renewed(e) == mode = "single" \/ HeldBy(RenewedLease(e), e, gen[e])

\* The round is over, and what it had in memory is gone.
Stop(e) ==
    /\ pc' = [pc EXCEPT ![e] = "run"]
    /\ mem' = [mem EXCEPT ![e] = NoState]
    /\ plan' = [plan EXCEPT ![e] = Leave] /\ calls' = [calls EXCEPT ![e] = NoCalls]

\* The only writer keeps its generation from round to round.
Rest(e) == Stop(e) /\ gen' = [gen EXCEPT ![e] = IF mode = "single" THEN @ ELSE 0]

Remember(e, rec) == mem' = [mem EXCEPT ![e].rec = rec]

\* finish_pending and complete_change
Completed(rec) == ManagedRecord(rec.pending.to, rec.pending.from, None)

Constant == UNCHANGED <<config, desired>>

-----------------------------------------------------------------------------
(* reconcile_provider *)

Tracked(rec) == HasPending(rec) /\ rec.pending.ticket

\* acquire_writer: whether this Edge may write, and with which generation.
MayWrite(e) == IF mode = "single" THEN e = SingleWriter ELSE Grants(lease, e)

WriterGeneration(e) ==
    IF mode = "valkey" THEN LeaseAfterAcquire(lease, e, file.writer + 1).gen
    ELSE IF gen[e] = 0 THEN file.writer + 1 ELSE gen[e]

\* load_state and acquire_writer; a state file of a newer writer stops the
\* round.
Begin(e) ==
    LET new == WriterGeneration(e)
    IN  /\ pc[e] = "run" /\ MayWrite(e) /\ file.writer <= new
        /\ lease' = IF mode = "single" THEN lease
                    ELSE LeaseAfterAcquire(lease, e, file.writer + 1)
        /\ pc' = [pc EXCEPT ![e] = IF Tracked(file.rec) THEN "track" ELSE "get"]
        /\ gen' = [gen EXCEPT ![e] = new]
        /\ mem' = [mem EXCEPT ![e] = [file EXCEPT !.writer = new]]
        /\ UNCHANGED <<file, zone, plan, calls, counters>> /\ Constant

\* A submitted Route 53 change is finished first, once it is in sync.
Synced(e) ==
    /\ Goto(e, "track", "get")
    /\ Remember(e, Completed(mem[e].rec))
    /\ UNCHANGED <<lease, file, zone, gen, plan, calls, counters>> /\ Constant

NotSynced(e) ==
    /\ Goto(e, "track", "persist")
    /\ UNCHANGED <<lease, file, zone, mem, gen, plan, calls, counters>> /\ Constant

\* What decide is given: an interrupted change that completed, as far as the
\* reported set tells, is finished.
Known(rec, reported) ==
    IF HasPending(rec) /\ ~rec.pending.ticket /\ reported = rec.pending.to
    THEN Completed(rec) ELSE rec

\* The record after a decision that leaves the provider alone.
Noted(rec, action) ==
    CASE action.kind = "no_change" /\ rec # None /\ (rec.pending # None \/ rec.applied # zone)
              -> [rec EXCEPT !.applied = zone, !.pending = None]
      [] action.kind = "adopt" -> ManagedRecord(zone, {}, None)
      [] action.kind = "forget" -> None
      [] OTHER -> rec

\* reconcile_record reads the provider and decides.
Get(e) ==
    \E reported \in Reports(zone) :
    LET known == Known(mem[e].rec, reported)
        action == Decide(desired, import, zone, known)
    IN  /\ Goto(e, "get", IF action.kind = "apply" THEN "intent" ELSE "persist")
        /\ plan' = [plan EXCEPT ![e] = IF action.kind = "apply" THEN action ELSE Leave]
        /\ Remember(e, Noted(known, action))
        /\ UNCHANGED <<lease, file, zone, gen, calls, counters>> /\ Constant

WithIntent(rec, action) ==
    LET pending == PendingChange(action.from, action.to, FALSE)
    IN  IF rec = None THEN ManagedRecord({}, {}, pending)
        ELSE [rec EXCEPT !.pending = pending]

\* Mutant: the intent is kept in memory only.
IntentUnsaved(e) ==
    /\ pc[e] = "intent"
    /\ IF Renewed(e)
       THEN /\ pc' = [pc EXCEPT ![e] = "list"]
            /\ Remember(e, WithIntent(mem[e].rec, plan[e]))
            /\ UNCHANGED <<gen, plan, calls>>
       ELSE Rest(e)
    /\ lease' = RenewedLease(e)
    /\ UNCHANGED <<file, zone, counters>> /\ Constant

\* Persist the intent before touching the provider.
Intent(e) ==
    /\ pc[e] = "intent"
    /\ IF Renewed(e)
       THEN /\ pc' = [pc EXCEPT ![e] = "list"]
            /\ Remember(e, WithIntent(mem[e].rec, plan[e]))
            /\ file' = mem'[e]
            /\ UNCHANGED <<gen, plan, calls>>
       ELSE Rest(e) /\ UNCHANGED file
    /\ lease' = RenewedLease(e)
    /\ UNCHANGED <<zone, counters>> /\ Constant

\* A refused change has modified nothing: the intent is dropped, and with it a
\* record that has never been applied.
Refused(rec) ==
    IF rec.applied = {} /\ rec.previous = {} THEN None ELSE [rec EXCEPT !.pending = None]

Refuse(e) ==
    /\ pc' = [pc EXCEPT ![e] = "persist"]
    /\ Remember(e, Refused(mem[e].rec))
    /\ calls' = [calls EXCEPT ![e] = NoCalls]
    /\ UNCHANGED <<zone, gen, plan>>

\* Cloudflare: values to post or patch, and records to delete.
CallsFor(listed, target) ==
    [put |-> target \ listed,
     del |-> {p \in listed : p[1] \notin ValuesOf(target)}]

\* replace_while_writer: the lease once more, then replace lists the records
\* and compares.
List(e) ==
    /\ pc[e] = "list"
    /\ IF ~Renewed(e) THEN Rest(e) /\ UNCHANGED zone
       ELSE IF zone = plan[e].from /\ Supported(zone)
       THEN /\ pc' = [pc EXCEPT ![e] = "change"]
            /\ calls' = [calls EXCEPT ![e] = CallsFor(zone, plan[e].to)]
            /\ UNCHANGED <<zone, mem, gen, plan>>
       ELSE Refuse(e)
    /\ lease' = RenewedLease(e)
    /\ UNCHANGED <<file, counters>> /\ Constant

\* Mutant: the batch creates or replaces, whatever there is.
UpsertBatch(e) ==
    /\ adapter = "route53" /\ pc[e] = "change"
    /\ zone' = plan[e].to
    /\ pc' = [pc EXCEPT ![e] = "answered"]
    /\ calls' = [calls EXCEPT ![e] = NoCalls]
    /\ UNCHANGED <<mem, gen, plan, lease, file, counters>> /\ Constant

\* Route 53: one batch that deletes what was listed and creates the new set.
ChangeBatch(e) ==
    /\ adapter = "route53" /\ pc[e] = "change"
    /\ IF zone = plan[e].from
       THEN /\ zone' = plan[e].to
            /\ pc' = [pc EXCEPT ![e] = "answered"]
            /\ calls' = [calls EXCEPT ![e] = NoCalls]
            /\ UNCHANGED <<mem, gen, plan>>
       ELSE Refuse(e)
    /\ UNCHANGED <<lease, file, counters>> /\ Constant

\* After a call, the next one or the answer.
Called(e) ==
    /\ pc' = [pc EXCEPT ![e] = IF calls'[e] = NoCalls THEN "answered" ELSE "change"]
    /\ UNCHANGED <<lease, file, mem, gen, plan, counters>> /\ Constant

\* Cloudflare: a record is created, or the TTL of a listed one changed ...
PutAllowed(e) == cname => calls[e].del = {}
Listed(e, p) == p[1] \in ValuesOf(plan[e].from)
Gone(p) == p[1] \notin ValuesOf(zone)

Put(e, p) ==
    /\ adapter = "cloudflare" /\ pc[e] = "change"
    /\ p \in calls[e].put /\ PutAllowed(e)
    /\ Listed(e, p) => ~Gone(p)
    /\ (cname /\ ~Listed(e, p)) => zone = {}
    /\ zone' = {q \in zone : q[1] # p[1]} \cup {p}
    /\ calls' = [calls EXCEPT ![e].put = @ \ {p}]
    /\ Called(e)

\* ... and obsolete ones are deleted, last or, for a CNAME, first.
DeleteAllowed(e) == cname \/ calls[e].put = {}
Delete(e, p) ==
    /\ adapter = "cloudflare" /\ pc[e] = "change"
    /\ p \in calls[e].del /\ DeleteAllowed(e) /\ ~Gone(p)
    /\ zone' = {q \in zone : q[1] # p[1]}
    /\ calls' = [calls EXCEPT ![e].del = @ \ {p}]
    /\ Called(e)

\* A listed record is no longer there: an error, and the intent stays.
RecordGone(e) ==
    /\ adapter = "cloudflare"
    /\ \E p \in calls[e].put \cup calls[e].del : Listed(e, p) /\ Gone(p)
    /\ Goto(e, "change", "persist")
    /\ calls' = [calls EXCEPT ![e] = NoCalls]
    /\ UNCHANGED <<lease, file, zone, mem, gen, plan, counters>> /\ Constant

\* Another CNAME has been created: the provider reports a conflict.
NameTaken(e) ==
    /\ adapter = "cloudflare" /\ pc[e] = "change" /\ cname
    /\ calls[e].del = {} /\ calls[e].put # {} /\ zone # {}
    /\ \A p \in calls[e].put : ~Listed(e, p)
    /\ Refuse(e)
    /\ UNCHANGED <<lease, file, counters>> /\ Constant

\* The answer counts only for a writer that still holds the lease.
Answered(e) ==
    /\ pc[e] = "answered"
    /\ IF Renewed(e)
       THEN /\ pc' = [pc EXCEPT ![e] = "persist"]
            /\ Remember(e, IF adapter = "cloudflare" THEN Completed(mem[e].rec)
                           ELSE [mem[e].rec EXCEPT !.pending.ticket = TRUE])
            /\ UNCHANGED <<gen, plan, calls>>
       ELSE Rest(e)
    /\ lease' = RenewedLease(e)
    /\ UNCHANGED <<file, zone, counters>> /\ Constant

\* Mutant: the state is saved without another look at the lease.
PersistBlindly(e) ==
    /\ pc[e] = "persist"
    /\ file' = mem[e]
    /\ Rest(e)
    /\ UNCHANGED <<lease, zone, counters>> /\ Constant

\* The end of a round: a successor's state is not overwritten.
Persist(e) ==
    /\ pc[e] = "persist"
    /\ file' = IF Renewed(e) THEN mem[e] ELSE file
    /\ Rest(e)
    /\ lease' = RenewedLease(e)
    /\ UNCHANGED <<zone, counters>> /\ Constant

-----------------------------------------------------------------------------
(* Faults *)

\* A provider call fails; one that changes something may have taken effect.
\* The intent stays.
CallEffect(e) ==
    IF pc[e] # "change" THEN {zone}
    ELSE IF adapter = "route53" THEN {IF zone = plan[e].from THEN plan[e].to ELSE zone}
    ELSE {{q \in zone : q[1] # p[1]} \cup {p} : p \in {x \in calls[e].put : PutAllowed(e)}}
         \cup {zone \ {p} : p \in {x \in calls[e].del : DeleteAllowed(e)}}

CallFails(e) ==
    /\ Fault
    /\ pc[e] \in {"get", "list", "change"} /\ (pc[e] = "list" => Renewed(e))
    /\ lease' = IF pc[e] = "list" THEN RenewedLease(e) ELSE lease
    /\ zone' \in {zone} \cup CallEffect(e)
    /\ pc' = [pc EXCEPT ![e] = "persist"]
    /\ calls' = [calls EXCEPT ![e] = NoCalls]
    /\ UNCHANGED <<file, mem, gen, plan>> /\ Constant

\* Valkey cannot confirm the lease: the round stops without a save.  The
\* lease may have been granted.
ValkeyFails(e) ==
    /\ mode = "valkey" /\ Fault
    /\ pc[e] \in {"run", "intent", "list", "change", "answered", "persist"}
    /\ lease' \in {lease, LeaseAfterAcquire(lease, e, IF pc[e] = "run" THEN file.writer + 1
                                                    ELSE gen[e])}
    /\ zone' \in {zone} \cup CallEffect(e)
    /\ Rest(e)
    /\ UNCHANGED file /\ Constant

\* Saving the intent fails: nothing is asked of the provider, and the round
\* ends with another save.
SaveFails(e) ==
    /\ Fault
    /\ \/ /\ Goto(e, "intent", "persist")
          /\ Remember(e, WithIntent(mem[e].rec, plan[e]))
          /\ UNCHANGED <<gen, plan, calls>>
       \/ pc[e] = "persist" /\ Rest(e)
    /\ UNCHANGED <<lease, file, zone>> /\ Constant

Crash(e) ==
    /\ Fault
    /\ pc[e] # "run" \/ gen[e] # 0
    /\ Stop(e) /\ gen' = [gen EXCEPT ![e] = 0]
    /\ zone' \in {zone} \cup CallEffect(e)
    /\ UNCHANGED <<lease, file>> /\ Constant

\* Nobody works under the lease, and it runs out ...
LeaseRunsOut ==
    /\ lease.gen < MaxGeneration
    /\ lease.owner # NoEdge /\ pc[lease.owner] = "run"
    /\ lease' = LeaseAfterExpiry(lease)
    /\ UNCHANGED <<file, zone, pc, mem, gen, plan, calls, counters>> /\ Constant

\* ... or the round of its owner takes longer.
LeaseLost ==
    /\ Fault
    /\ lease.owner # NoEdge /\ pc[lease.owner] \notin {"run", "change"}
    /\ lease' = LeaseAfterExpiry(lease)
    /\ UNCHANGED <<file, zone, pc, mem, gen, plan, calls>> /\ Constant

\* Valkey starts again without its data, the generation counter included.
ValkeyEmptied ==
    /\ Fault
    /\ lease # NoLease /\ (VolatileValkey \/ \A e \in Edges : pc[e] = "run")
    /\ lease' = NoLease
    /\ UNCHANGED <<file, zone, pc, mem, gen, plan, calls>> /\ Constant

\* Somebody else changes the record.
Edit(set) ==
    /\ edits < MaxEdits /\ edits' = edits + 1
    /\ Configured(set)
    /\ set # zone /\ zone' = set
    /\ UNCHANGED <<lease, file, pc, mem, gen, plan, calls, faults, reconfigs>> /\ Constant

\* The Edges are stopped and started with a new configuration.
Reconfigure(c) ==
    /\ reconfigs < MaxReconfigs /\ reconfigs' = reconfigs + 1
    /\ Configured(c)
    /\ c # desired /\ desired' = c
    /\ \E e \in Edges : zone' \in {zone} \cup CallEffect(e)
    /\ pc' = [e \in Edges |-> "run"] /\ mem' = [e \in Edges |-> NoState]
    /\ gen' = [e \in Edges |-> 0]
    /\ plan' = [e \in Edges |-> Leave] /\ calls' = [e \in Edges |-> NoCalls]
    /\ UNCHANGED <<config, lease, file, faults, edits>>

-----------------------------------------------------------------------------

Round(e) ==
    \/ Begin(e) \/ Synced(e) \/ NotSynced(e) \/ Get(e) \/ Intent(e) \/ List(e)
    \/ ChangeBatch(e) \/ RecordGone(e) \/ NameTaken(e)
    \/ (\E p \in calls[e].put : Put(e, p)) \/ (\E p \in calls[e].del : Delete(e, p))
    \/ Answered(e) \/ Persist(e)

Next ==
    \/ \E e \in Edges :
          Round(e) \/ CallFails(e) \/ ValkeyFails(e) \/ SaveFails(e) \/ Crash(e)
    \/ LeaseRunsOut \/ LeaseLost \/ ValkeyEmptied
    \/ (\E set \in Foreign : Edit(set)) \/ (\E c \in Configs : Reconfigure(c))

Spec == Init /\ [][Next]_vars

\* Every Edge goes on with its rounds, and a submitted change gets in sync.
FairSpec ==
    /\ Spec
    /\ \A e \in Edges : WF_vars(Round(e)) /\ SF_vars(Synced(e))

-----------------------------------------------------------------------------
(* Properties *)

Explained ==
    IF file.rec = None THEN zone = {}
    ELSE IF file.rec.pending = None THEN file.rec.applied \in Reports(zone)
    ELSE IsBetween(zone, file.rec.pending.from, file.rec.pending.to)

\* Unless others have changed the record, the state file explains what is at
\* the provider, wherever an Edge has died or lost the lease: the next writer
\* can tell its predecessor's unfinished change from an edit by others.  What
\* is applied is what the provider reports: the set itself, but for records
\* with different TTLs, which a half-done change of the TTL leaves and which
\* reconcile_record then takes for completed.
StateExplainsProvider ==
    edits = 0 /\ (file.rec # None \/ zone \notin Foreign) => Explained

\* The state file never goes back to an older writer: one whose lease has
\* passed to a successor does not overwrite the successor's state.
WriterMovesForward == [][file'.writer >= file.writer]_file

\* Route 53: what others have put in place of a record is, unless it may be
\* imported, never changed by an Edge, not even by one that had already
\* decided.
EditsStand ==
    [][adapter = "route53" /\ ~import /\ zone \in Foreign /\ edits' = edits
           => zone' = zone]_vars

Manageable == edits = 0 /\ (zone \in Foreign => import /\ desired # {})

\* A change was interrupted between the records of one TTL and of another.
LeftMixed == ~Supported(zone) /\ \A e \in Edges : pc[e] # "change"

\* A record nobody else touches, or that may be imported, gets its configured
\* contents, whatever change was interrupted on the way, unless that one left
\* different TTLs.
Converges == Manageable ~> (zone = desired \/ ~Manageable \/ LeftMixed)

\* "May be partially applied; the pending intent lets the next run resume": an
\* intent that nobody else interferes with is not pending for ever.
PartialChangeResumed ==
    (edits = 0 /\ HasPending(file.rec)) ~> (edits # 0 \/ ~HasPending(file.rec))
=============================================================================
