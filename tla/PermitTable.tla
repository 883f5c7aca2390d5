---------------------------- MODULE PermitTable ----------------------------
(***************************************************************************)
(* The stream budgets of mesh forwarding (PermitTable of mesh/forward.rs): *)
(* a semaphore per tenant and per peer, created on demand and removed by a *)
(* sweep.  A task clones its semaphore out of the map and then waits for a *)
(* permit of it, so a sweep may run while the task has only a reference.   *)
(*                                                                         *)
(* The semaphores of tokio serve their waiters in order; here any waiter   *)
(* may be served, which allows more than the code does.                    *)
(***************************************************************************)
EXTENDS Integers, FiniteSets

CONSTANTS
    Tasks,
    Keys,          \* tenant ids and peer ids
    TenantKey,     \* the tenant of each task
    PeerKey,       \* the peer of each task
    Limit,         \* max_streams_per_tenant or max_streams_per_peer of a key
    Sems,          \* the semaphores that may be allocated
    NoSem

ASSUME ConstantsAssumption ==
    /\ IsFiniteSet(Tasks)
    /\ TenantKey \in [Tasks -> Keys]
    /\ PeerKey \in [Tasks -> Keys]
    /\ \A t, u \in Tasks : TenantKey[t] # PeerKey[u]
    /\ Limit \in [Keys -> Nat]
    /\ NoSem \notin Sems

VARIABLES
    entry,        \* the maps peers and tenants: key -> semaphore
    available,    \* available_permits of a semaphore
    pc,
    waits,        \* the semaphore a task has cloned and waits for
    first,        \* the semaphore whose permit a task acquired first ...
    second        \* ... and second

vars == <<entry, available, pc, waits, first, second>>

Init ==
    /\ entry = [k \in Keys |-> NoSem]
    /\ available = [s \in Sems |-> 0]
    /\ pc = [t \in Tasks |-> "idle"]
    /\ waits = [t \in Tasks |-> NoSem]
    /\ first = [t \in Tasks |-> NoSem]
    /\ second = [t \in Tasks |-> NoSem]

Goto(t, stage) == pc' = [pc EXCEPT ![t] = stage]

\* Arc::strong_count: somebody besides the map has a clone, or a permit, which
\* owns one.
Referenced(s) == \E t \in Tasks : s \in {waits[t], first[t], second[t]}

---------------------------------------------------------------------------
(* tenant_and_peer *)

\* entry().or_insert_with().clone(), with the shard of the map locked.
Lookup(t, k) ==
    \/ /\ entry[k] # NoSem
       /\ waits' = [waits EXCEPT ![t] = entry[k]]
       /\ UNCHANGED <<entry, available>>
    \/ /\ entry[k] = NoSem
       /\ \E s \in Sems :
            /\ ~Referenced(s)
            /\ \A j \in Keys : entry[j] # s
            /\ entry' = [entry EXCEPT ![k] = s]
            /\ available' = [available EXCEPT ![s] = Limit[k]]
            /\ waits' = [waits EXCEPT ![t] = s]

\* The tenant budget comes first.
FirstKey(t) == TenantKey[t]

SecondKey(t) == PeerKey[t]

LookupFirst(t) ==
    /\ pc[t] = "idle"
    /\ Lookup(t, FirstKey(t))
    /\ Goto(t, "first")
    /\ UNCHANGED <<first, second>>

LookupSecond(t) ==
    /\ pc[t] = "tenant"
    /\ Lookup(t, SecondKey(t))
    /\ Goto(t, "second")
    /\ UNCHANGED <<first, second>>

HasPermit(s) == available[s] > 0

\* acquire_owned: the permit takes over the clone.
AcquireFirst(t) ==
    /\ pc[t] = "first"
    /\ HasPermit(waits[t])
    /\ available' = [available EXCEPT ![waits[t]] = @ - 1]
    /\ first' = [first EXCEPT ![t] = waits[t]]
    /\ waits' = [waits EXCEPT ![t] = NoSem]
    /\ Goto(t, "tenant")
    /\ UNCHANGED <<entry, second>>

AcquireSecond(t) ==
    /\ pc[t] = "second"
    /\ HasPermit(waits[t])
    /\ available' = [available EXCEPT ![waits[t]] = @ - 1]
    /\ second' = [second EXCEPT ![t] = waits[t]]
    /\ waits' = [waits EXCEPT ![t] = NoSem]
    /\ Goto(t, "holding")
    /\ UNCHANGED <<entry, first>>

\* stream_wait or the deadline has passed, or the request was abandoned, while
\* the task waits for its tenant's slot.
GiveUpFirst(t) ==
    /\ pc[t] = "first"
    /\ waits' = [waits EXCEPT ![t] = NoSem]
    /\ Goto(t, "idle")
    /\ UNCHANGED <<entry, available, first, second>>

\* The same while it waits for its peer's slot: the tenant's is given back.
GiveUpSecond(t) ==
    /\ pc[t] = "second"
    /\ available' = [available EXCEPT ![first[t]] = @ + 1]
    /\ waits' = [waits EXCEPT ![t] = NoSem]
    /\ first' = [first EXCEPT ![t] = NoSem]
    /\ Goto(t, "idle")
    /\ UNCHANGED <<entry, second>>

\* The stream, or what remains of the attempt, is dropped with its permits.
Release(t) ==
    /\ pc[t] = "holding"
    /\ available' = [s \in Sems |-> IF s \in {first[t], second[t]}
                                      THEN available[s] + 1 ELSE available[s]]
    /\ first' = [first EXCEPT ![t] = NoSem]
    /\ second' = [second EXCEPT ![t] = NoSem]
    /\ Goto(t, "idle")
    /\ UNCHANGED <<entry, waits>>

---------------------------------------------------------------------------
(* sweep *)

\* Mutant: only the permits are looked at.
AllAvailable(k) == available[entry[k]] >= Limit[k]

Idle(k) == ~Referenced(entry[k]) /\ available[entry[k]] >= Limit[k]

\* retain drops an idle entry; the shard is locked meanwhile.
Sweep(k) ==
    /\ entry[k] # NoSem
    /\ Idle(k)
    /\ entry' = [entry EXCEPT ![k] = NoSem]
    /\ UNCHANGED <<available, pc, waits, first, second>>

---------------------------------------------------------------------------

TaskStep(t) ==
    \/ LookupFirst(t) \/ AcquireFirst(t) \/ GiveUpFirst(t)
    \/ LookupSecond(t) \/ AcquireSecond(t) \/ GiveUpSecond(t)
    \/ Release(t)

Next ==
    \/ \E t \in Tasks : TaskStep(t)
    \/ \E k \in Keys : Sweep(k)

Spec == Init /\ [][Next]_vars

---------------------------------------------------------------------------
(* Properties *)

TypeOK ==
    /\ entry \in [Keys -> Sems \cup {NoSem}]
    /\ available \in [Sems -> Nat]
    /\ pc \in [Tasks -> {"idle", "first", "tenant", "second", "holding"}]
    /\ waits \in [Tasks -> Sems \cup {NoSem}]
    /\ first \in [Tasks -> Sems \cup {NoSem}]
    /\ second \in [Tasks -> Sems \cup {NoSem}]

\* The tasks that hold a slot of a tenant or of a peer.
Holders(k) == {t \in Tasks : \/ first[t] # NoSem /\ FirstKey(t) = k
                             \/ second[t] # NoSem /\ SecondKey(t) = k}

\* No tenant and no peer ever has more streams than its budget, even while
\* idle entries are swept and created again under tasks that are about to
\* acquire one of their permits.
LimitRespected == \A k \in Keys : Cardinality(Holders(k)) <= Limit[k]

\* A task that waits for a slot holds none of the peer budget, which the other
\* tenants share.
WaitersHoldNoPeerSlot ==
    \A t \in Tasks : waits[t] # NoSem => t \notin Holders(PeerKey[t])

\* No permit is lost to a sweep or to a task that gave up: a task is kept
\* waiting only while the streams of its tenant, or of its peer, are as many as
\* the budget allows.
KeptWaitingOnlyWhenFull ==
    \A t \in Tasks, k \in Keys :
        /\ waits[t] # NoSem /\ ~HasPermit(waits[t])
        /\ k = IF pc[t] = "first" THEN FirstKey(t) ELSE SecondKey(t)
        => Cardinality(Holders(k)) = Limit[k]
=============================================================================
