----------------------------- MODULE CertStore -----------------------------
(***************************************************************************)
(* The on-disk store of one managed certificate, in a directory the Edges  *)
(* of a cluster share: the complete generations (gen-N directories), the   *)
(* `current` pointer and the owner of the file lock.                       *)
(***************************************************************************)
EXTENDS Integers, FiniteSets, FiniteSetsExt

CONSTANT KeptGenerations   \* generations kept, the active one included

EmptyStore(nobody) == [current |-> 0, gens |-> {}, lock |-> nobody]

\* A generation number above everything stored so far.
NextGeneration(store) == Max(store.gens \cup {store.current}) + 1

\* Mutant: the comparison with the pointer is missing.
MayStoreStale(store, gen) == gen \notin store.gens

\* What store() checks under the lock: a stale writer cannot roll back the
\* pointer, and a generation is written once.
MayStore(store, gen) ==
    /\ store.current # 0 => gen > store.current
    /\ gen \notin store.gens

\* The generation directory is written aside and renamed into place.
WithGeneration(store, gen) == [store EXCEPT !.gens = @ \cup {gen}]

\* Generations prune() leaves: the newest KeptGenerations - 1 below the active.
Kept(gens, active) ==
    {g \in gens : \/ g >= active
                  \/ Cardinality({h \in gens : g < h /\ h < active}) < KeptGenerations - 1}

\* The pointer is replaced, then older generations are pruned.
WithCurrent(store, gen) ==
    [store EXCEPT !.current = gen, !.gens = Kept(@, gen)]

\* parse_and_validate, as far as time goes: generations up to `expired` are not
\* valid any more.  Files are neither damaged nor unreadable here.
Valid(gen, expired) == gen > expired

\* load_current: the newest valid generation up to the active one, 0 if there
\* is none.
LoadCurrent(store, expired) ==
    LET usable == {g \in store.gens : g <= store.current /\ Valid(g, expired)}
    IN  IF usable = {} THEN 0 ELSE Max(usable)
=============================================================================
