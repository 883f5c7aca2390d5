------------------------------- MODULE Lease -------------------------------
(***************************************************************************)
(* The Valkey leases by which Edges agree on who orders a certificate or   *)
(* writes a DNS zone.  A lease is the record of two keys: the lease itself *)
(* (owner and fencing generation) and the counter its generations come     *)
(* from.  The scripts run atomically in Valkey, so each is one operator    *)
(* from the keys before it to the keys after it.                           *)
(***************************************************************************)
EXTENDS Integers

CONSTANTS Edges,   \* the Edges that compete for the lease
          NoEdge   \* the owner of a lease nobody holds

LeaseType == [owner : Edges \cup {NoEdge}, gen : Nat, counter : Nat]

NoLease == [owner |-> NoEdge, gen |-> 0, counter |-> 0]

\* LEASE_ACQUIRE_SCRIPT: the owner keeps its generation, anybody else gets a
\* free lease with a generation above every earlier one and at least `min`.
LeaseAfterAcquire(lease, e, min) ==
    LET next == lease.counter + 1
        gen == IF next < min THEN min ELSE next
    IN  IF lease.owner = NoEdge
        THEN [owner |-> e, gen |-> gen, counter |-> gen]
        ELSE lease

\* The answer of the script: e holds the lease now, with lease.gen.
Grants(lease, e) == lease.owner \in {e, NoEdge}

\* LEASE_CHECK_SCRIPT: the value is still "<e>|<gen>".
HeldBy(lease, e, gen) == lease.owner = e /\ lease.gen = gen

\* LEASE_RELEASE_SCRIPT: deletes the lease only if the value is still the caller's.
LeaseAfterRelease(lease, e, gen) ==
    IF HeldBy(lease, e, gen) THEN [lease EXCEPT !.owner = NoEdge] ELSE lease

\* The time to live of the key passes.
LeaseAfterExpiry(lease) == [lease EXCEPT !.owner = NoEdge]
=============================================================================
