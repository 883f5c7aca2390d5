------------------------------ MODULE DnsPlan ------------------------------
(***************************************************************************)
(* The decision about one record: what the configuration asks for, what the*)
(* provider reports and what the state file remembers.  A record set is the*)
(* set of its <<value, ttl>> pairs, empty when there is none.              *)
(***************************************************************************)
EXTENDS Integers, FiniteSets

CONSTANT None   \* no managed record; no pending change

ValuesOf(set) == {p[1] : p \in set}
TtlsOf(set) == {p[2] : p \in set}

\* A record set that can be managed: one TTL for all values.
Supported(set) == Cardinality(TtlsOf(set)) <= 1

\* The record sets a provider may report for the records it has: Cloudflare's
\* observed gives all values the TTL of the record that is listed first, and
\* says aside that the TTLs differ.
Reports(set) ==
    IF set = {} THEN {{}} ELSE {{<<v, ttl>> : v \in ValuesOf(set)} : ttl \in TtlsOf(set)}

ManagedRecord(applied, previous, pending) ==
    [applied |-> applied, previous |-> previous, pending |-> pending]

PendingChange(from, to, ticket) == [from |-> from, to |-> to, ticket |-> ticket]

HasPending(rec) == rec # None /\ rec.pending # None

\* is_between: `actual` may be what an interrupted change left behind.
IsBetween(actual, from, to) ==
    /\ ValuesOf(actual) \subseteq ValuesOf(from) \cup ValuesOf(to)
    /\ ValuesOf(from) \cap ValuesOf(to) \subseteq ValuesOf(actual)
    /\ TtlsOf(actual) \subseteq TtlsOf(from) \cup TtlsOf(to)

\* Mutant: a pending change is not taken into account.
AsApplied(actual, rec) == actual = rec.applied

\* The record is as Sieve Tube left it.
AsLeft(actual, rec) ==
    IF rec.pending = None THEN actual = rec.applied
    ELSE IsBetween(actual, rec.pending.from, rec.pending.to)

NoChange == [kind |-> "no_change"]
Adopt == [kind |-> "adopt"]
Forget == [kind |-> "forget"]
\* Wait and Conflict: nothing is done, now or for good.
Leave == [kind |-> "leave"]
Apply(from, to) == [kind |-> "apply", from |-> from, to |-> to]

\* decide.  An absent record is one whose desired set is empty.
Decide(desired, import, actual, rec) ==
    CASE ~Supported(actual) -> Leave
      [] actual = desired ->
            IF rec = None THEN (IF actual = {} THEN NoChange
                                ELSE IF import THEN Adopt ELSE Leave)
            ELSE IF actual = {} THEN Forget ELSE NoChange
      [] OTHER ->
            IF rec = None /\ actual # {} /\ (desired = {} \/ ~import) THEN Leave
            ELSE IF rec # None /\ ~AsLeft(actual, rec) THEN Leave
            ELSE Apply(actual, desired)
=============================================================================
