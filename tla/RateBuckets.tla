---------------------------- MODULE RateBuckets ----------------------------
(***************************************************************************)
(* A table of token buckets (BucketTable of policy.rs) under requests that *)
(* run in parallel.  The policy has four of them, for HTTP requests, TCP   *)
(* connections, UDP packets and UDP bytes, which all work like this one.   *)
(*                                                                         *)
(* One token comes back per tick.  A bucket keeps its age, the ticks since *)
(* it was updated, up to the age from which on nothing depends on it.  A   *)
(* request reads the clock and takes its tokens within one tick.           *)
(***************************************************************************)
EXTENDS Integers, FiniteSets

CONSTANTS
    Workers,         \* threads that evaluate requests
    Clients,         \* what the limit is keyed by
    Amounts,         \* tokens that a request asks for
    Burst,
    MaxEntries, IdleTtl,
    SweepInterval,   \* FULL_SWEEP_INTERVAL
    NoBucket, NoTake

ASSUME BucketsAssumption ==
    /\ Burst \in Nat /\ IdleTtl \in Nat /\ SweepInterval \in Nat
    /\ Amounts \subseteq Nat
    /\ NoBucket \notin [tokens : Nat, age : Nat]
    /\ NoTake \notin Clients \X Amounts

VARIABLES
    buckets,
    sweepIn,         \* ticks until a full table may be swept again
    inserting,       \* what a worker found no bucket, but room, for
    ideal            \* the tokens of a table that forgets nothing

bucketVars == <<buckets, sweepIn, inserting, ideal>>

BucketInit ==
    /\ buckets = [c \in Clients |-> NoBucket]
    /\ sweepIn = 0
    /\ inserting = [w \in Workers |-> NoTake]
    /\ ideal = [c \in Clients |-> Burst]

Least(a, b) == IF a < b THEN a ELSE b
Greatest(a, b) == IF a > b THEN a ELSE b

\* full_after: with one token per tick, a bucket is full again after Burst ticks.
FullAfter == Burst

Stored == {c \in Clients : buckets[c] # NoBucket}
NewBucket == [tokens |-> Burst, age |-> 0]
Refilled(b) == Least(b.tokens + b.age, Burst)
Left(tokens, amount) == IF tokens >= amount THEN tokens - amount ELSE tokens

\* Bucket::take, granted or not.
BucketTake(b, amount) == [tokens |-> Left(Refilled(b), amount), age |-> 0]

TakeFrom(b, c, amount) ==
    /\ buckets' = [buckets EXCEPT ![c] = BucketTake(b, amount)]
    /\ ideal' = [ideal EXCEPT ![c] = Left(@, amount)]

\* Mutant: a bucket is dropped when it was idle, full or not.
IdleFor(b) == b.age >= IdleTtl

Expendable(b) == b.age >= Greatest(FullAfter, IdleTtl)

Swept == [c \in Clients |-> IF c \in Stored /\ Expendable(buckets[c]) THEN NoBucket
                                                                   ELSE buckets[c]]

\* The client has a bucket, which is updated under the entry's lock.
TakeStored(w, c, amount) ==
    /\ inserting[w] = NoTake
    /\ c \in Stored
    /\ TakeFrom(buckets[c], c, amount)
    /\ UNCHANGED <<sweepIn, inserting>>

\* It has none, and there is room for one.
FindRoom(w, c, amount) ==
    /\ inserting[w] = NoTake
    /\ c \notin Stored
    /\ Cardinality(Stored) < MaxEntries
    /\ inserting' = [inserting EXCEPT ![w] = <<c, amount>>]
    /\ UNCHANGED <<buckets, sweepIn, ideal>>

ClaimFullSweep == sweepIn = 0 /\ sweepIn' = SweepInterval

\* The table is full and this worker claims the sweep.  It goes on if the
\* sweep made room, and refuses the request otherwise.  A worker that cannot
\* claim it refuses at once, which changes nothing.
SweepFull(w, c, amount) ==
    /\ inserting[w] = NoTake
    /\ c \notin Stored
    /\ Cardinality(Stored) >= MaxEntries
    /\ ClaimFullSweep
    /\ buckets' = Swept
    /\ inserting' = IF Cardinality({k \in Clients : Swept[k] # NoBucket}) < MaxEntries
                      THEN [inserting EXCEPT ![w] = <<c, amount>>] ELSE inserting
    /\ UNCHANGED ideal

\* entry().or_insert_with(): another worker may have been faster.
InsertBucket(w) ==
    /\ inserting[w] # NoTake
    /\ LET c == inserting[w][1]
       IN  TakeFrom(IF c \in Stored THEN buckets[c] ELSE NewBucket, c, inserting[w][2])
    /\ inserting' = [inserting EXCEPT ![w] = NoTake]
    /\ UNCHANGED sweepIn

\* Policy::sweep of the maintenance loop.
SweepBuckets ==
    /\ buckets' = Swept
    /\ buckets' # buckets
    /\ UNCHANGED <<sweepIn, inserting, ideal>>

BucketTick ==
    /\ inserting = [w \in Workers |-> NoTake]
    /\ buckets' = [c \in Clients |-> IF c \in Stored
                    THEN [buckets[c] EXCEPT !.age = Least(@ + 1, Greatest(FullAfter, IdleTtl))]
                    ELSE NoBucket]
    /\ sweepIn' = Greatest(sweepIn - 1, 0)
    /\ ideal' = [c \in Clients |-> Least(ideal[c] + 1, Burst)]
    /\ UNCHANGED inserting

\* A request, a connection, a packet or the bytes of a packet.
RateLimited(w) ==
    \E c \in Clients, amount \in Amounts :
        TakeStored(w, c, amount) \/ FindRoom(w, c, amount) \/ SweepFull(w, c, amount)

BucketNext ==
    \/ \E w \in Workers : RateLimited(w) \/ InsertBucket(w)
    \/ SweepBuckets
    \/ BucketTick

BucketSpec == BucketInit /\ [][BucketNext]_bucketVars

---------------------------------------------------------------------------
(* Properties *)

\* Forgetting a bucket never gives tokens away or takes them back: whatever
\* was swept, inserted twice or updated in between, every client has the tokens
\* that a table without a size limit would give it.
BucketsMatchIdeal ==
    \A c \in Clients :
        ideal[c] = IF c \in Stored THEN Refilled(buckets[c]) ELSE Burst
=============================================================================
