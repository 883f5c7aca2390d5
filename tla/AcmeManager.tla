---------------------------- MODULE AcmeManager ----------------------------
(***************************************************************************)
(* Issuance and renewal of the certificate of one domain by several Edges  *)
(* that share the ACME state directory and coordinate through a Valkey     *)
(* lease (acme.rs).  An Edge takes the lease, looks at the store again,    *)
(* orders, checks the lease (fencing) and stores.  Orders fail, leases     *)
(* expire under their holder, answers of Valkey are lost, Valkey loses its *)
(* data and Edges restart between any two steps.                           *)
(*                                                                         *)
(* Time is kept by what it does: a lease expires, a retry delay passes, the*)
(* certificates up to some generation are due or have expired.             *)
(***************************************************************************)
EXTENDS Lease, CertStore

CONSTANTS MaxFaults,  \* bound: faults that happen in one behaviour
          MaxDue      \* bound: generations above this one never come due

ASSUME AcmeAssumption ==
    /\ NoEdge \notin Edges
    /\ KeptGenerations \in Nat \ {0} /\ MaxFaults \in Nat /\ MaxDue \in Nat

VARIABLES lease,      \* the two Valkey keys of the domain's lease
          store,      \* the shared certificate store
          pc,         \* where each Edge is in its run loop
          gen,        \* the generation each Edge works under, 0 for none
          min,        \* the lowest generation each Edge asks for, 0 for none
          installed,  \* the generation in each Edge's resolver, 0 for none
          delayed,    \* the Edges that wait for their retry delay
          status,     \* status.json holds a retry delay
          due,        \* generations up to this one are due for renewal
          expired,    \* generations up to this one have expired
          published,  \* history: the generations that have been current
          starts,     \* history: restarts of each Edge
          faults      \* faults so far

vars == <<lease, store, pc, gen, min, installed, delayed, status, due, expired,
          published, starts, faults>>

Steps == {"run", "acquire", "holding", "ordering", "fence", "lock", "write",
          "point", "release"}

TypeOK ==
    /\ lease \in LeaseType
    /\ store \in [current : Nat, gens : SUBSET Nat, lock : Edges \cup {NoEdge}]
    /\ pc \in [Edges -> Steps]
    /\ gen \in [Edges -> Nat] /\ min \in [Edges -> Nat]
    /\ installed \in [Edges -> Nat]
    /\ delayed \in SUBSET Edges /\ status \in BOOLEAN
    /\ due \in Nat /\ expired \in Nat
    /\ published \in SUBSET Nat
    /\ starts \in [Edges -> Nat]
    /\ faults \in Nat

Init ==
    /\ lease = NoLease /\ store = EmptyStore(NoEdge)
    /\ pc = [e \in Edges |-> "run"]
    /\ gen = [e \in Edges |-> 0] /\ min = [e \in Edges |-> 0]
    /\ installed = [e \in Edges |-> 0]
    /\ delayed = {} /\ status = FALSE
    /\ due = 0 /\ expired = 0
    /\ published = {} /\ starts = [e \in Edges |-> 0] /\ faults = 0

-----------------------------------------------------------------------------
(* Helpers *)

Goto(e, from, to) == pc[e] = from /\ pc' = [pc EXCEPT ![e] = to]

Fault == faults < MaxFaults /\ faults' = faults + 1

\* refresh_from_store: the certificate to serve after looking at the store.
Refreshed(serving) ==
    LET loaded == LoadCurrent(store, expired)
    IN  IF store.current \in {0, serving} \/ loaded = 0 THEN serving ELSE loaded

\* due_at: the certificate is missing, expired or in its renewal period, and
\* no retry delay is running.
Due(e, serving) == (serving = 0 \/ serving <= due) /\ e \notin delayed

\* Mutant: an error returns without releasing the lease.
FailsHolding(e) ==
    /\ pc' = [pc EXCEPT ![e] = "run"]
    /\ delayed' = delayed \cup {e}
    /\ status' = TRUE
    /\ store' = IF store.lock = e THEN [store EXCEPT !.lock = NoEdge] ELSE store
    /\ UNCHANGED <<lease, gen, min, installed, due, expired, published, starts>>

\* attempt after an error: a retry delay, persisted; the lease is released.
Fails(e) ==
    /\ pc' = [pc EXCEPT ![e] = "release"]
    /\ delayed' = delayed \cup {e}
    /\ status' = TRUE
    /\ store' = IF store.lock = e THEN [store EXCEPT !.lock = NoEdge] ELSE store
    /\ UNCHANGED <<lease, gen, min, installed, due, expired, published, starts>>

-----------------------------------------------------------------------------
(* The run loop of an Edge *)

\* One round of run for the domain: install what others stored; when an order
\* is due, read the store for the lowest generation to ask for.
Wake(e) ==
    LET serving == Refreshed(installed[e])
    IN  /\ pc[e] = "run"
        /\ installed' = [installed EXCEPT ![e] = serving]
        /\ IF Due(e, serving)
           THEN /\ pc' = [pc EXCEPT ![e] = "acquire"]
                /\ min' = [min EXCEPT ![e] = NextGeneration(store)]
           ELSE UNCHANGED <<pc, min>>
        /\ UNCHANGED <<lease, store, gen, delayed, status, due, expired,
                       published, starts, faults>>

\* coordinated_attempt takes the lease, or leaves the order to its holder.
Acquire(e) ==
    /\ Goto(e, "acquire", IF Grants(lease, e) THEN "holding" ELSE "run")
    /\ lease' = LeaseAfterAcquire(lease, e, min[e])
    /\ gen' = IF Grants(lease, e) THEN [gen EXCEPT ![e] = lease'.gen] ELSE gen
    /\ min' = [min EXCEPT ![e] = 0]
    /\ UNCHANGED <<store, installed, delayed, status, due, expired,
                   published, starts, faults>>

\* The request or its answer is lost: ordering is paused, and the lease may
\* have been granted all the same.
AcquireFails(e) ==
    /\ Fault
    /\ Goto(e, "acquire", "run")
    /\ lease' \in {lease, LeaseAfterAcquire(lease, e, min[e])}
    /\ min' = [min EXCEPT ![e] = 0]
    /\ UNCHANGED <<store, gen, installed, delayed, status, due, expired,
                   published, starts>>

\* Mutant: the store is not looked at again.
RecheckStale(e) ==
    /\ Goto(e, "holding", IF Due(e, installed[e]) THEN "ordering" ELSE "release")
    /\ UNCHANGED <<lease, store, gen, min, installed, delayed, status, due,
                   expired, published, starts, faults>>

\* With the lease: another Edge may have finished meanwhile, so look again.
Recheck(e) ==
    LET serving == Refreshed(installed[e])
    IN  /\ Goto(e, "holding", IF Due(e, serving) THEN "ordering" ELSE "release")
        /\ installed' = [installed EXCEPT ![e] = serving]
        /\ UNCHANGED <<lease, store, gen, min, delayed, status, due, expired,
                       published, starts, faults>>

\* issue: the order completes within its time-out and is cleaned up.
OrderSucceeds(e) ==
    /\ Goto(e, "ordering", "fence")
    /\ UNCHANGED <<lease, store, gen, min, installed, delayed, status, due,
                   expired, published, starts, faults>>

OrderFails(e) == pc[e] = "ordering" /\ Fault /\ Fails(e)

\* issue: a holder whose lease expired does not store its certificate.
Fence(e) ==
    \/ /\ HeldBy(lease, e, gen[e])
       /\ Goto(e, "fence", "lock")
       /\ UNCHANGED <<lease, store, gen, min, installed, delayed, status, due,
                      expired, published, starts, faults>>
    \/ /\ pc[e] = "fence" /\ ~HeldBy(lease, e, gen[e])
       /\ Fails(e) /\ UNCHANGED faults

\* check_lease returned an error, which counts as a lost lease.
FenceFails(e) == pc[e] = "fence" /\ Fault /\ Fails(e)

\* CertStore::store takes the file lock and compares.
Lock(e) ==
    /\ pc[e] = "lock" /\ store.lock = NoEdge
    /\ IF MayStore(store, gen[e])
       THEN /\ pc' = [pc EXCEPT ![e] = "write"]
            /\ store' = [store EXCEPT !.lock = e]
            /\ UNCHANGED <<lease, gen, min, installed, delayed, status, due,
                           expired, published, starts>>
       ELSE Fails(e)
    /\ UNCHANGED faults

\* Mutant: the pointer is replaced before the directory is in place.
WritePointer(e) ==
    /\ Goto(e, "write", "point")
    /\ store' = [store EXCEPT !.current = gen[e]]
    /\ UNCHANGED <<lease, gen, min, installed, delayed, status, due, expired,
                   published, starts, faults>>

\* The new generation directory appears under its final name.
Write(e) ==
    /\ Goto(e, "write", "point")
    /\ store' = WithGeneration(store, gen[e])
    /\ UNCHANGED <<lease, gen, min, installed, delayed, status, due, expired,
                   published, starts, faults>>

\* The pointer is replaced, old generations are pruned, the lock is dropped;
\* the Edge serves the certificate and forgets its failures.
Point(e) ==
    /\ Goto(e, "point", "release")
    /\ store' = [WithCurrent(store, gen[e]) EXCEPT !.lock = NoEdge]
    /\ installed' = [installed EXCEPT ![e] = gen[e]]
    /\ delayed' = delayed \ {e} /\ status' = FALSE
    /\ published' = published \cup {gen[e]}
    /\ UNCHANGED <<lease, gen, min, due, expired, starts, faults>>

\* Writing the directory or the pointer fails; a directory in place stays.
WriteFails(e) == pc[e] \in {"write", "point"} /\ Fault /\ Fails(e)

Release(e) ==
    /\ Goto(e, "release", "run")
    /\ lease' = LeaseAfterRelease(lease, e, gen[e])
    /\ gen' = [gen EXCEPT ![e] = 0]
    /\ UNCHANGED <<store, min, installed, delayed, status, due, expired,
                   published, starts, faults>>

\* release_lease fails: the error is logged and the lease is left to expire.
ReleaseFails(e) ==
    /\ Fault
    /\ Goto(e, "release", "run")
    /\ gen' = [gen EXCEPT ![e] = 0]
    /\ UNCHANGED <<lease, store, min, installed, delayed, status, due,
                   expired, published, starts>>

\* The retry delay of an Edge passes.
DelayPasses(e) ==
    /\ e \in delayed /\ pc[e] = "run"
    /\ delayed' = delayed \ {e}
    /\ UNCHANGED <<lease, store, pc, gen, min, installed, status, due, expired,
                   published, starts, faults>>

\* The process dies, or is shut down in the middle of an attempt, and starts
\* again: it loads status.json and the stored certificate; its file lock is gone.
Restart(e) ==
    /\ Fault
    /\ pc' = [pc EXCEPT ![e] = "run"]
    /\ gen' = [gen EXCEPT ![e] = 0] /\ min' = [min EXCEPT ![e] = 0]
    /\ installed' = [installed EXCEPT ![e] = Refreshed(0)]
    /\ delayed' \in {delayed \ {e}, IF status THEN delayed \cup {e} ELSE delayed \ {e}}
    /\ store' = IF store.lock = e THEN [store EXCEPT !.lock = NoEdge] ELSE store
    /\ starts' = [starts EXCEPT ![e] = @ + 1]
    /\ UNCHANGED <<lease, status, due, expired, published>>

-----------------------------------------------------------------------------
(* Time and Valkey *)

AtWork(e) == pc[e] \notin {"run", "acquire"} /\ gen[e] = lease.gen

\* A lease nobody works under runs out.
LeaseRunsOut ==
    /\ lease.owner # NoEdge /\ ~AtWork(lease.owner)
    /\ lease' = LeaseAfterExpiry(lease)
    /\ UNCHANGED <<store, pc, gen, min, installed, delayed, status, due, expired,
                   published, starts, faults>>

\* An order outlives its lease.
LeaseLost ==
    /\ Fault
    /\ lease.owner # NoEdge /\ AtWork(lease.owner)
    /\ lease' = LeaseAfterExpiry(lease)
    /\ UNCHANGED <<store, pc, gen, min, installed, delayed, status, due, expired,
                   published, starts>>

\* Valkey comes back without its data, the generation counter included.
ValkeyLosesData ==
    /\ Fault
    /\ lease # NoLease /\ lease' = NoLease
    /\ UNCHANGED <<store, pc, gen, min, installed, delayed, status, due, expired,
                   published, starts>>

\* The active certificate enters its renewal period (renewal_due_at).
BecomesDue ==
    /\ due < store.current /\ due < MaxDue
    /\ due' = due + 1
    /\ UNCHANGED <<lease, store, pc, gen, min, installed, delayed, status,
                   expired, published, starts, faults>>

Expires ==
    /\ expired < due
    /\ expired' = expired + 1
    /\ UNCHANGED <<lease, store, pc, gen, min, installed, delayed, status, due,
                   published, starts, faults>>

\* What an Edge does by itself, without a fault.
Work(e) ==
    \/ Wake(e) \/ Acquire(e) \/ Recheck(e) \/ OrderSucceeds(e) \/ Fence(e)
    \/ Lock(e) \/ Write(e) \/ Point(e) \/ Release(e)

Next ==
    \/ \E e \in Edges :
          \/ Work(e) \/ DelayPasses(e)
          \/ AcquireFails(e) \/ OrderFails(e) \/ FenceFails(e) \/ WriteFails(e)
          \/ ReleaseFails(e) \/ Restart(e)
    \/ LeaseRunsOut \/ LeaseLost \/ ValkeyLosesData \/ BecomesDue \/ Expires

Spec == Init /\ [][Next]_vars

-----------------------------------------------------------------------------
(* Properties *)

Register == INSTANCE CertRegister WITH view <- installed

\* The store and the Edges' resolvers implement the abstract register: the
\* active generation only moves forward, whoever writes with whatever stale
\* lease, and no Edge goes back to an older certificate while it runs.
ImplementsRegister == Register!RegisterSpec

\* The pointer names a generation whose directory is complete, whatever step
\* of store() an Edge dies in and whatever another one prunes.
CurrentIsOnDisk == store.current # 0 => store.current \in store.gens

\* An order is started only while the active certificate is due: an Edge that
\* waited for the lease notices that the holder before it has finished.
NoNeedlessOrder ==
    [][\A e \in Edges : pc[e] = "holding" /\ pc'[e] = "ordering"
           => store.current <= due]_vars
=============================================================================
