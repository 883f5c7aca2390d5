-------------------------- MODULE ConnectionProofs --------------------------
(***************************************************************************)
(* The connections of an Edge: the TCP connections it admits, and the      *)
(* tunnels that Connectors keep to it, for any number of listeners,        *)
(* clients, connections, processes, Edges and streams, and any limits and  *)
(* delays.                                                                 *)
(*                                                                         *)
(* TCP: a counter is the number of tasks that hold its slot (TcpInv). A    *)
(* step moves one task only, so the set of holders of a slot gains or      *)
(* loses at most that task (SlotHolders).                                  *)
(*                                                                         *)
(* Connectors: the Edge and the loops agree about who is registered        *)
(* (Owners) because a loop has a connection only while it authenticates    *)
(* or serves (LoopConnections) and closes it when it sleeps or ends. A     *)
(* session that ends marks what it leaves behind (InSession), so that      *)
(* nothing of it is counted by the next one.                               *)
(***************************************************************************)
EXTENDS ConnectorClient, TcpAdmission, FiniteSetTheorems, TLAPS

---------------------------------------------------------------------------
(* TCP admission *)

TcpTypes ==
    /\ policy \in Policies
    /\ admission \in [Listeners -> Admission \cup {NoAdmission}]
    /\ connection \in [Connections -> Connection \cup {NoConnection}]
    /\ listenerActive \in [Listeners -> Int]
    /\ addressActive \in [Listeners \X Addresses -> Int]

\* Which slots an admission has taken so far.
TcpStages ==
    \A l \in Listeners : admission[l] # NoAdmission =>
        /\ admission[l].stage = "listener" => admission[l].permit = {}
        /\ admission[l].stage # "admitted" => "address" \notin admission[l].permit

TcpInv == TcpTypes /\ TcpStages /\ CountsMatchPermits

---------------------------------------------------------------------------

\* The connection tasks that hold a slot.
SlotHolders(kind, l, addresses) ==
    {c \in Connections : Holds(connection[c], kind, addresses) /\ connection[c].at = l}

One(b) == IF b THEN 1 ELSE 0

\* The task t held the slot, and no longer does as r.
GivesUp(t, r, kind, l, addresses) ==
    /\ l = t.at /\ t.from \in addresses /\ kind \in t.permit
    /\ r # NoConnection => kind \notin r.permit

\* Neither constant is a record of the tables.
LEMMA TcpRecords ==
    /\ \A r \in Admission : r \notin {NoAdmission, NoConnection}
    /\ \A r \in Connection : r \notin {NoAdmission, NoConnection}
BY Zenon, TcpAssumption

\* The holders of a slot can be counted.
LEMMA SlotHoldersFinite ==
    ASSUME NEW kind, NEW l, NEW addresses
    PROVE  /\ IsFiniteSet(SlotHolders(kind, l, addresses))
           /\ Cardinality(SlotHolders(kind, l, addresses)) \in Nat
<1>1. SlotHolders(kind, l, addresses) \in SUBSET Connections
  BY Zenon DEF SlotHolders
<1> QED
  BY Zenon, <1>1, TcpAssumption, FS_Subset, FS_CardinalityType

\* A new connection task adds the slots of its permit.
LEMMA SpawnAdds ==
    ASSUME TcpTypes, NEW l \in Listeners, NEW a \in Addresses, NEW permit \in Permit,
           Spawn(l, a, permit)
    PROVE  /\ connection' \in [Connections -> Connection \cup {NoConnection}]
           /\ \A kind, k, A :
                Cardinality(SlotHolders(kind, k, A))' =
                    Cardinality(SlotHolders(kind, k, A))
                        + One(k = l /\ a \in A /\ kind \in permit)
<1> DEFINE r == [at |-> l, from |-> a, permit |-> permit]
<1>1. PICK c \in Connections :
        connection[c] = NoConnection /\ connection' = [connection EXCEPT ![c] = r]
  BY Zenon DEF Spawn
<1>2. r \in Connection
  BY Zenon DEF Connection
<1>3. connection' \in [Connections -> Connection \cup {NoConnection}]
  BY Zenon, <1>1, <1>2 DEF TcpTypes
<1>4. ASSUME NEW kind, NEW k, NEW A
      PROVE  Cardinality(SlotHolders(kind, k, A))' =
                    Cardinality(SlotHolders(kind, k, A))
                        + One(k = l /\ a \in A /\ kind \in permit)
  <2> DEFINE S == SlotHolders(kind, k, A)
  <2>0. IsFiniteSet(S) /\ Cardinality(S) \in Nat
    BY Zenon, SlotHoldersFinite
  <2>1. c \notin S
    BY Zenon, <1>1 DEF SlotHolders, Holds
  <2>2. connection'[c] = r /\ \A d \in Connections \ {c} : connection'[d] = connection[d]
    BY Zenon, <1>1 DEF TcpTypes
  <2>3. Holds(connection'[c], kind, A) /\ connection'[c].at = k <=> k = l /\ a \in A /\ kind \in permit
    BY <2>2, <1>2, TcpRecords DEF Holds
  <2>4. CASE k = l /\ a \in A /\ kind \in permit
    <3>1. S' = S \cup {c}
      BY Zenon, <2>2, <2>3, <2>4 DEF SlotHolders
    <3> QED
      BY Zenon, <2>0, <2>1, <2>4, <3>1, FS_AddElement DEF One
  <2>5. CASE ~(k = l /\ a \in A /\ kind \in permit)
    <3>1. S' = S
      BY Zenon, <2>1, <2>2, <2>3, <2>5 DEF SlotHolders
    <3> QED
      BY <2>0, <2>5, <3>1 DEF One
  <2> QED
    BY Zenon, <2>4, <2>5
<1> QED
  BY Zenon, <1>3, <1>4

\* A task that gives up some of its slots, or ends, no longer counts for them.
LEMMA ReleaseRemoves ==
    ASSUME TcpTypes, NEW c \in Connections, connection[c] # NoConnection,
           NEW r \in Connection \cup {NoConnection},
           connection' = [connection EXCEPT ![c] = r],
           r # NoConnection => r.at = connection[c].at /\ r.from = connection[c].from
                                 /\ r.permit \subseteq connection[c].permit
    PROVE  /\ connection' \in [Connections -> Connection \cup {NoConnection}]
           /\ \A kind, k, A :
                Cardinality(SlotHolders(kind, k, A))' =
                    Cardinality(SlotHolders(kind, k, A))
                        - One(GivesUp(connection[c], r, kind, k, A))
<1>1. connection' \in [Connections -> Connection \cup {NoConnection}]
  BY Zenon DEF TcpTypes
<1>2. ASSUME NEW kind, NEW k, NEW A
      PROVE  Cardinality(SlotHolders(kind, k, A))' =
                    Cardinality(SlotHolders(kind, k, A))
                        - One(GivesUp(connection[c], r, kind, k, A))
  <2> DEFINE S == SlotHolders(kind, k, A)
             had == k = connection[c].at /\ connection[c].from \in A /\ kind \in connection[c].permit
             has == r # NoConnection /\ kind \in r.permit
  <2>1. IsFiniteSet(S) /\ Cardinality(S) \in Nat
    BY Zenon, SlotHoldersFinite
  <2>2. connection'[c] = r /\ \A d \in Connections \ {c} : connection'[d] = connection[d]
    BY Zenon DEF TcpTypes
  <2>3. connection[c] \in Connection
    BY Zenon DEF TcpTypes
  <2>4. c \in S <=> had
    BY Zenon, <2>3, TcpRecords DEF SlotHolders, Holds
  <2>5. c \in S' <=> had /\ has
    BY Zenon, <2>2, TcpRecords DEF SlotHolders, Holds
  <2>6. \A d \in Connections \ {c} : d \in S' <=> d \in S
    BY Zenon, <2>2 DEF SlotHolders
  <2>7. S \subseteq Connections /\ S' \subseteq Connections
    BY Zenon DEF SlotHolders
  <2> HIDE DEF S
  <2>8. CASE had /\ ~has
    <3>1. S' = S \ {c}
      BY Zenon, <2>5, <2>6, <2>7, <2>8
    <3>2. Cardinality(S \ {c}) = Cardinality(S) - 1
      BY Zenon, <2>1, <2>4, <2>8, FS_RemoveElement
    <3> QED
      BY Zenon, <2>8, <3>1, <3>2 DEF One, S, GivesUp
  <2>9. CASE ~(had /\ ~has)
    <3>1. S' = S
      BY <2>4, <2>5, <2>6, <2>7, <2>9
    <3> QED
      BY <2>1, <2>9, <3>1 DEF One, S, GivesUp
  <2> QED
    BY Zenon, <2>8, <2>9
<1> QED
  BY Zenon, <1>1, <1>2

\* SlotsHeld in the terms of the lemmas above, before and after a step.
LEMMA SlotsHeldIs ==
    ASSUME NEW kind, NEW l, NEW A
    PROVE  /\ SlotsHeld(kind, l, A) =
                Cardinality(SlotHolders(kind, l, A)) + One(Holds(admission[l], kind, A))
           /\ SlotsHeld(kind, l, A)' =
                Cardinality(SlotHolders(kind, l, A))' + One(Holds(admission'[l], kind, A))
BY Zenon DEF SlotsHeld, SlotHolders, One, Holds

\* A connection that is denied, or admitted without a policy, takes no slot.
LEMMA NoPermitNoSlot ==
    ASSUME TcpTypes, NEW l \in Listeners, NEW a \in Addresses,
           Spawn(l, a, {}) \/ UNCHANGED connection
    PROVE  /\ connection' \in [Connections -> Connection \cup {NoConnection}]
           /\ \A kind, k, A : Cardinality(SlotHolders(kind, k, A))' = Cardinality(SlotHolders(kind, k, A))
<1>1. CASE Spawn(l, a, {})
  <2>1. {} \in Permit
    BY Zenon DEF Permit
  <2>2. /\ connection' \in [Connections -> Connection \cup {NoConnection}]
        /\ \A kind, k, A : Cardinality(SlotHolders(kind, k, A))' =
                Cardinality(SlotHolders(kind, k, A)) + One(k = l /\ a \in A /\ kind \in {})
    BY <1>1, <2>1, SpawnAdds
  <2>3. ASSUME NEW kind, NEW k, NEW A
        PROVE  Cardinality(SlotHolders(kind, k, A))' = Cardinality(SlotHolders(kind, k, A))
    BY <2>2, SlotHoldersFinite DEF One
  <2> QED
    BY Zenon, <2>2, <2>3
<1>2. CASE UNCHANGED connection
  BY Zenon, <1>2 DEF SlotHolders, TcpTypes
<1> QED
  BY Zenon, <1>1, <1>2

\* A step that moves no slot between the tasks and the admissions keeps the counts.
LEMMA CountsKept ==
    ASSUME CountsMatchPermits, UNCHANGED <<listenerActive, addressActive>>,
           \A kind, k, A : k \in Listeners =>
                /\ Cardinality(SlotHolders(kind, k, A))' = Cardinality(SlotHolders(kind, k, A))
                /\ Holds(admission'[k], kind, A) <=> Holds(admission[k], kind, A)
    PROVE  CountsMatchPermits'
<1>1. ASSUME NEW kind, NEW k \in Listeners, NEW A
      PROVE  SlotsHeld(kind, k, A)' = SlotsHeld(kind, k, A)
  BY <1>1, SlotsHeldIs DEF One
<1>2. ASSUME NEW k \in Listeners
      PROVE  listenerActive'[k] = SlotsHeld("listener", k, Addresses)'
  BY Zenon, <1>1 DEF CountsMatchPermits
<1>3. ASSUME NEW k \in Listeners, NEW a \in Addresses
      PROVE  addressActive'[<<k, a>>] = SlotsHeld("address", k, {a})'
  BY Zenon, <1>1 DEF CountsMatchPermits
<1> QED
  BY Zenon, <1>2, <1>3 DEF CountsMatchPermits

---------------------------------------------------------------------------

\* accept: the connection that is being admitted has no slot yet.
LEMMA AcceptTcpKeeps ==
    ASSUME TcpInv, NEW l \in Listeners, NEW a \in Addresses, AcceptTcp(l, a)
    PROVE  TcpInv'
<1> USE DEF TcpInv
<1> DEFINE r == [from |-> a, policy |-> policy, stage |-> "listener", permit |-> {}]
<1>1. Spawn(l, a, {}) \/ UNCHANGED connection
  BY Zenon DEF AcceptTcp, AdmitTcp, Denied
<1>2. admission' = [admission EXCEPT ![l] = r] \/ admission' = admission
  BY Zenon DEF AcceptTcp, AdmitTcp
<1>3. r \in Admission /\ r.stage = "listener" /\ r.permit = {}
  BY Zenon DEF Admission, Permit, TcpTypes
<1> HIDE DEF r
<1>4. admission[l] = NoAdmission /\ UNCHANGED <<policy, listenerActive, addressActive>>
  BY Zenon DEF AcceptTcp
<1>5. TcpTypes'
  BY Zenon, <1>1, <1>2, <1>3, <1>4, NoPermitNoSlot DEF TcpTypes
<1>6. TcpStages'
  BY Zenon, <1>2, <1>3 DEF TcpStages, TcpTypes
<1>7. CountsMatchPermits'
  <2>1. ASSUME NEW kind, NEW k \in Listeners, NEW A
        PROVE  Holds(admission'[k], kind, A) <=> Holds(admission[k], kind, A)
    BY Zenon, <1>2, <1>3, <1>4 DEF Holds, TcpTypes
  <2> QED
    BY Zenon, <1>1, <1>4, <2>1, NoPermitNoSlot, CountsKept
<1> QED
  BY Zenon, <1>5, <1>6, <1>7

\* acquire_tcp, the slot of the listener.
LEMMA TakeListenerSlotKeeps ==
    ASSUME TcpInv, NEW l \in Listeners, TakeListenerSlot(l)
    PROVE  TcpInv'
<1> USE DEF TcpInv
<1>1. admission[l] \in Admission /\ admission[l].stage = "listener" /\ admission[l].permit = {}
  BY Zenon DEF TakeListenerSlot, TcpTypes, TcpStages
<1>2. UNCHANGED <<policy, connection, addressActive>>
  BY Zenon DEF TakeListenerSlot
<1>3. PICK st \in {"address", "denied"}, p \in {{}, {"listener"}} :
        /\ Slot(l, st, p)
        /\ p = {} => listenerActive' = listenerActive
        /\ p = {"listener"} => listenerActive' = [listenerActive EXCEPT ![l] = @ + 1]
  BY Zenon DEF TakeListenerSlot
<1>4. /\ admission'[l] \in Admission /\ admission'[l].stage = st /\ admission'[l].permit = p
      /\ admission'[l].from = admission[l].from
      /\ \A k \in Listeners \ {l} : admission'[k] = admission[k]
      /\ admission' \in [Listeners -> Admission \cup {NoAdmission}]
  BY Zenon, <1>1, <1>3 DEF Slot, Admission, Permit, TcpTypes
<1>5. TcpTypes'
  BY <1>2, <1>3, <1>4 DEF TcpTypes
<1>6. TcpStages'
  BY <1>4 DEF TcpStages
<1>7. \A kind, k, A : SlotHolders(kind, k, A)' = SlotHolders(kind, k, A)
  BY Zenon, <1>2 DEF SlotHolders
<1>8. ASSUME NEW k \in Listeners
      PROVE  listenerActive'[k] = SlotsHeld("listener", k, Addresses)'
  <2>1. listenerActive[k] = Cardinality(SlotHolders("listener", k, Addresses))
                              + One(Holds(admission[k], "listener", Addresses))
    BY SlotsHeldIs DEF CountsMatchPermits
  <2>2. SlotsHeld("listener", k, Addresses)' = Cardinality(SlotHolders("listener", k, Addresses))
                              + One(Holds(admission'[k], "listener", Addresses))
    BY <1>7, SlotsHeldIs
  <2>3. CASE k # l
    BY Zenon, <1>3, <1>4, <2>1, <2>2, <2>3 DEF TcpTypes
  <2>4. CASE k = l
    <3>1. One(Holds(admission[l], "listener", Addresses)) = 0
      BY Zenon, <1>1 DEF Holds, One
    <3>2. One(Holds(admission'[l], "listener", Addresses)) = One(p = {"listener"})
      BY Zenon, <1>4, TcpRecords DEF Holds, One, Admission
    <3>3. listenerActive'[l] = listenerActive[l] + One(p = {"listener"})
      BY <1>3 DEF One, TcpTypes
    <3> QED
      BY <2>1, <2>2, <2>4, <3>1, <3>2, <3>3, SlotHoldersFinite DEF One
  <2> QED
    BY Zenon, <2>3, <2>4
<1>9. ASSUME NEW k \in Listeners, NEW a \in Addresses
      PROVE  addressActive'[<<k, a>>] = SlotsHeld("address", k, {a})'
  <2>1. Holds(admission'[k], "address", {a}) <=> Holds(admission[k], "address", {a})
    BY <1>1, <1>4 DEF Holds
  <2>2. SlotsHeld("address", k, {a})' = SlotsHeld("address", k, {a})
    BY <1>7, <2>1, SlotsHeldIs DEF One
  <2> QED
    BY Zenon, <1>2, <2>2 DEF CountsMatchPermits
<1> QED
  BY Zenon, <1>5, <1>6, <1>8, <1>9 DEF CountsMatchPermits

\* acquire_tcp, the slot of the client address.
LEMMA TakeAddressSlotKeeps ==
    ASSUME TcpInv, NEW l \in Listeners, TakeAddressSlot(l)
    PROVE  TcpInv'
<1> USE DEF TcpInv
<1> DEFINE from == admission[l].from
           held == admission[l].permit
<1>1. /\ admission[l] \in Admission /\ admission[l].stage = "address" /\ "address" \notin held
      /\ from \in Addresses /\ held \in Permit
  BY Zenon DEF TakeAddressSlot, TcpTypes, TcpStages, Admission
<1>2. UNCHANGED <<policy, connection, listenerActive>>
  BY Zenon DEF TakeAddressSlot
<1>3. PICK st \in {"admitted", "denied"}, more \in {{}, {"address"}} :
        /\ Slot(l, st, held \cup more)
        /\ more = {} => addressActive' = addressActive
        /\ more = {"address"} => /\ addressActive' = [addressActive EXCEPT ![<<l, from>>] = @ + 1]
                                 /\ st = "admitted"
  BY Zenon DEF TakeAddressSlot
<1>4. /\ admission'[l] \in Admission /\ admission'[l].stage = st
      /\ admission'[l].permit = held \cup more /\ admission'[l].from = from
      /\ \A k \in Listeners \ {l} : admission'[k] = admission[k]
      /\ admission' \in [Listeners -> Admission \cup {NoAdmission}]
  BY Zenon, <1>1, <1>3 DEF Slot, Admission, Permit, TcpTypes
<1> HIDE DEF from, held
<1>5. TcpTypes'
  BY <1>1, <1>2, <1>3, <1>4 DEF TcpTypes
<1>6. TcpStages'
  BY Zenon, <1>1, <1>3, <1>4 DEF TcpStages
<1>7. \A kind, k, A : SlotHolders(kind, k, A)' = SlotHolders(kind, k, A)
  BY Zenon, <1>2 DEF SlotHolders
<1>8. ASSUME NEW k \in Listeners
      PROVE  listenerActive'[k] = SlotsHeld("listener", k, Addresses)'
  <2>1. Holds(admission'[k], "listener", Addresses) <=> Holds(admission[k], "listener", Addresses)
    BY <1>1, <1>3, <1>4, TcpRecords DEF Holds, held, from
  <2>2. SlotsHeld("listener", k, Addresses)' = SlotsHeld("listener", k, Addresses)
    BY Zenon, <1>7, <2>1, SlotsHeldIs DEF One
  <2> QED
    BY Zenon, <1>2, <2>2 DEF CountsMatchPermits
<1>9. ASSUME NEW k \in Listeners, NEW a \in Addresses
      PROVE  addressActive'[<<k, a>>] = SlotsHeld("address", k, {a})'
  <2>1. addressActive[<<k, a>>] = Cardinality(SlotHolders("address", k, {a}))
                              + One(Holds(admission[k], "address", {a}))
    BY SlotsHeldIs DEF CountsMatchPermits
  <2>2. SlotsHeld("address", k, {a})' = Cardinality(SlotHolders("address", k, {a}))
                              + One(Holds(admission'[k], "address", {a}))
    BY <1>7, SlotsHeldIs
  <2>3. One(Holds(admission'[k], "address", {a}))
          = One(Holds(admission[k], "address", {a})) + One(k = l /\ a = from /\ more = {"address"})
    BY <1>1, <1>3, <1>4, TcpRecords DEF Holds, One, held, from
  <2>4. addressActive'[<<k, a>>] = addressActive[<<k, a>>] + One(k = l /\ a = from /\ more = {"address"})
    BY <1>1, <1>3 DEF One, TcpTypes
  <2> QED
    BY <2>1, <2>2, <2>3, <2>4, SlotHoldersFinite DEF One
<1> QED
  BY Zenon, <1>5, <1>6, <1>8, <1>9 DEF CountsMatchPermits

\* The refused permit gives the listener's slot back; the client of a policy
\* that is not enforced goes on without one.
LEMMA DropRefusedKeeps ==
    ASSUME TcpInv, NEW l \in Listeners, DropRefused(l)
    PROVE  TcpInv'
<1> USE DEF TcpInv
<1> DEFINE held == admission[l].permit
<1>1. /\ admission[l] \in Admission /\ admission[l].from \in Addresses
      /\ held \in Permit /\ "address" \notin held
  BY Zenon DEF DropRefused, TcpTypes, TcpStages, Admission
<1>2. Spawn(l, admission[l].from, {}) \/ UNCHANGED connection
  BY Zenon DEF DropRefused, Denied
<1>3. /\ connection' \in [Connections -> Connection \cup {NoConnection}]
      /\ \A kind, k, A : Cardinality(SlotHolders(kind, k, A))' = Cardinality(SlotHolders(kind, k, A))
  BY Zenon, <1>1, <1>2, NoPermitNoSlot
<1>4. /\ admission'[l] = NoAdmission
      /\ \A k \in Listeners \ {l} : admission'[k] = admission[k]
      /\ admission' \in [Listeners -> Admission \cup {NoAdmission}]
      /\ UNCHANGED <<policy, addressActive>>
  BY Zenon DEF DropRefused, TcpTypes
<1>5. /\ listenerActive' \in [Listeners -> Int]
      /\ \A k \in Listeners : listenerActive'[k] = listenerActive[k] - One(k = l /\ "listener" \in held)
  BY DEF DropRefused, TcpTypes, One
<1>6. TcpTypes' /\ TcpStages'
  BY Zenon, <1>3, <1>4, <1>5 DEF TcpTypes, TcpStages
<1>7. ASSUME NEW k \in Listeners
      PROVE  listenerActive'[k] = SlotsHeld("listener", k, Addresses)'
  <2>1. listenerActive[k] = Cardinality(SlotHolders("listener", k, Addresses))
                              + One(Holds(admission[k], "listener", Addresses))
    BY SlotsHeldIs DEF CountsMatchPermits
  <2>2. SlotsHeld("listener", k, Addresses)' = Cardinality(SlotHolders("listener", k, Addresses))
                              + One(Holds(admission'[k], "listener", Addresses))
    BY Zenon, <1>3, SlotsHeldIs
  <2>3. One(Holds(admission'[k], "listener", Addresses))
          = One(Holds(admission[k], "listener", Addresses)) - One(k = l /\ "listener" \in held)
    BY <1>1, <1>4, TcpRecords DEF Holds, One
  <2> QED
    BY <1>5, <2>1, <2>2, <2>3, SlotHoldersFinite DEF One
<1>8. ASSUME NEW k \in Listeners, NEW a \in Addresses
      PROVE  addressActive'[<<k, a>>] = SlotsHeld("address", k, {a})'
  <2>1. Holds(admission'[k], "address", {a}) <=> Holds(admission[k], "address", {a})
    BY Zenon, <1>1, <1>4 DEF Holds
  <2>2. SlotsHeld("address", k, {a})' = SlotsHeld("address", k, {a})
    BY <1>3, <2>1, SlotsHeldIs DEF One
  <2> QED
    BY Zenon, <1>4, <2>2 DEF CountsMatchPermits
<1> QED
  BY Zenon, <1>6, <1>7, <1>8 DEF CountsMatchPermits

\* The permit moves from the accept loop to the connection task.
LEMMA SpawnAdmittedKeeps ==
    ASSUME TcpInv, NEW l \in Listeners, SpawnAdmitted(l)
    PROVE  TcpInv'
<1> USE DEF TcpInv
<1> DEFINE from == admission[l].from
           held == admission[l].permit
<1>1. admission[l] \in Admission /\ from \in Addresses /\ held \in Permit
  BY Zenon DEF SpawnAdmitted, TcpTypes, Admission
<1>2. Spawn(l, from, held)
  BY Zenon DEF SpawnAdmitted
<1>3. /\ connection' \in [Connections -> Connection \cup {NoConnection}]
      /\ \A kind, k, A : Cardinality(SlotHolders(kind, k, A))' =
            Cardinality(SlotHolders(kind, k, A)) + One(k = l /\ from \in A /\ kind \in held)
  BY <1>1, <1>2, SpawnAdds
<1>4. /\ admission'[l] = NoAdmission
      /\ \A k \in Listeners \ {l} : admission'[k] = admission[k]
      /\ admission' \in [Listeners -> Admission \cup {NoAdmission}]
      /\ UNCHANGED <<policy, listenerActive, addressActive>>
  BY Zenon DEF SpawnAdmitted, TcpTypes
<1>5. TcpTypes' /\ TcpStages'
  BY Zenon, <1>3, <1>4 DEF TcpTypes, TcpStages
<1>6. ASSUME NEW kind, NEW k \in Listeners, NEW A
      PROVE  SlotsHeld(kind, k, A)' = SlotsHeld(kind, k, A)
  <2>1. One(Holds(admission'[k], kind, A)) + One(k = l /\ from \in A /\ kind \in held)
          = One(Holds(admission[k], kind, A))
    BY <1>1, <1>4, TcpRecords DEF Holds, One
  <2>2. Cardinality(SlotHolders(kind, k, A)) \in Nat
    BY Zenon, SlotHoldersFinite
  <2> HIDE DEF from, held
  <2> QED
    BY <1>3, <2>1, <2>2, SlotsHeldIs DEF One
<1>7. ASSUME NEW k \in Listeners
      PROVE  listenerActive'[k] = SlotsHeld("listener", k, Addresses)'
  BY Zenon, <1>4, <1>6 DEF CountsMatchPermits
<1>8. ASSUME NEW k \in Listeners, NEW a \in Addresses
      PROVE  addressActive'[<<k, a>>] = SlotsHeld("address", k, {a})'
  BY <1>4, <1>6 DEF CountsMatchPermits
<1> QED
  BY Zenon, <1>5, <1>7, <1>8 DEF CountsMatchPermits

\* TcpPermit::drop, first the slot of the address.
LEMMA ReleaseAddressKeeps ==
    ASSUME TcpInv, NEW c \in Connections, ReleaseAddress(c)
    PROVE  TcpInv'
<1> USE DEF TcpInv
<1> DEFINE t == connection[c]
           r == [t EXCEPT !.permit = @ \ {"address"}]
<1>1. /\ t \in Connection /\ t.at \in Listeners /\ t.from \in Addresses
      /\ t.permit \in Permit /\ "address" \in t.permit /\ t # NoConnection
  BY Zenon DEF ReleaseAddress, TcpTypes, Connection
<1>2. /\ r \in Connection /\ r.at = t.at /\ r.from = t.from
      /\ r.permit = t.permit \ {"address"}
  BY Zenon, <1>1 DEF Connection, Permit
<1>3. /\ connection' = [connection EXCEPT ![c] = r]
      /\ addressActive' = [addressActive EXCEPT ![<<t.at, t.from>>] = @ - 1]
      /\ UNCHANGED <<policy, admission, listenerActive>>
  BY Zenon DEF ReleaseAddress
<1> HIDE DEF r
<1>4. /\ connection' \in [Connections -> Connection \cup {NoConnection}]
      /\ \A kind, k, A : Cardinality(SlotHolders(kind, k, A))' =
            Cardinality(SlotHolders(kind, k, A))
                - One(GivesUp(connection[c], r, kind, k, A))
  BY Zenon, <1>1, <1>2, <1>3, ReleaseRemoves
<1>5. TcpTypes' /\ TcpStages'
  BY <1>1, <1>3, <1>4 DEF TcpTypes, TcpStages
<1>6. ASSUME NEW kind, NEW k \in Listeners, NEW A
      PROVE  SlotsHeld(kind, k, A)' = SlotsHeld(kind, k, A)
                - One(k = t.at /\ t.from \in A /\ kind = "address")
  <2>1. Cardinality(SlotHolders(kind, k, A))' = Cardinality(SlotHolders(kind, k, A))
            - One(k = t.at /\ t.from \in A /\ kind = "address")
    BY <1>1, <1>2, <1>4, TcpRecords DEF One, GivesUp
  <2>2. Cardinality(SlotHolders(kind, k, A)) \in Nat
    BY Zenon, SlotHoldersFinite
  <2> HIDE DEF t
  <2> QED
    BY <1>3, <2>1, <2>2, SlotsHeldIs DEF One
<1> HIDE DEF t
<1>7. ASSUME NEW k \in Listeners
      PROVE  listenerActive'[k] = SlotsHeld("listener", k, Addresses)'
  BY <1>3, <1>6 DEF CountsMatchPermits, One, TcpTypes
<1>8. ASSUME NEW k \in Listeners, NEW a \in Addresses
      PROVE  addressActive'[<<k, a>>] = SlotsHeld("address", k, {a})'
  <2>1. addressActive'[<<k, a>>] = addressActive[<<k, a>>] - One(k = t.at /\ t.from \in {a})
    BY <1>1, <1>3 DEF One, TcpTypes
  <2> QED
    BY <1>6, <2>1 DEF CountsMatchPermits, One
<1> QED
  BY Zenon, <1>5, <1>7, <1>8 DEF CountsMatchPermits

\* TcpPermit::drop, then the slot of the listener.
LEMMA ReleaseListenerKeeps ==
    ASSUME TcpInv, NEW c \in Connections, ReleaseListener(c)
    PROVE  TcpInv'
<1> USE DEF TcpInv
<1> DEFINE t == connection[c]
<1>1. /\ t \in Connection /\ t.at \in Listeners /\ t.from \in Addresses
      /\ t.permit \in Permit /\ "address" \notin t.permit /\ t # NoConnection
  BY Zenon DEF ReleaseListener, TcpTypes, Connection
<1>2. /\ connection' = [connection EXCEPT ![c] = NoConnection]
      /\ UNCHANGED <<policy, admission, addressActive>>
  BY Zenon DEF ReleaseListener
<1>3. /\ connection' \in [Connections -> Connection \cup {NoConnection}]
      /\ \A kind, k, A : Cardinality(SlotHolders(kind, k, A))' =
            Cardinality(SlotHolders(kind, k, A))
                - One(GivesUp(connection[c], NoConnection, kind, k, A))
  BY Zenon, <1>1, <1>2, ReleaseRemoves
<1>4. /\ listenerActive' \in [Listeners -> Int]
      /\ \A k \in Listeners : listenerActive'[k] = listenerActive[k] - One(k = t.at /\ "listener" \in t.permit)
  BY <1>1 DEF ReleaseListener, TcpTypes, One
<1>5. TcpTypes' /\ TcpStages'
  BY Zenon, <1>2, <1>3, <1>4 DEF TcpTypes, TcpStages
<1>6. ASSUME NEW kind, NEW k \in Listeners, NEW A
      PROVE  SlotsHeld(kind, k, A)' = SlotsHeld(kind, k, A)
                - One(k = t.at /\ t.from \in A /\ kind \in t.permit)
  <2>1. Cardinality(SlotHolders(kind, k, A))' = Cardinality(SlotHolders(kind, k, A))
            - One(k = t.at /\ t.from \in A /\ kind \in t.permit)
    BY Zenon, <1>3 DEF One, GivesUp
  <2>2. Cardinality(SlotHolders(kind, k, A)) \in Nat
    BY Zenon, SlotHoldersFinite
  <2> HIDE DEF t
  <2> QED
    BY <1>2, <2>1, <2>2, SlotsHeldIs DEF One
<1> HIDE DEF t
<1>7. ASSUME NEW k \in Listeners
      PROVE  listenerActive'[k] = SlotsHeld("listener", k, Addresses)'
  <2>1. SlotsHeld("listener", k, Addresses)' = SlotsHeld("listener", k, Addresses)
            - One(k = t.at /\ "listener" \in t.permit)
    BY Zenon, <1>1, <1>6 DEF One
  <2> QED
    BY Zenon, <1>4, <2>1 DEF CountsMatchPermits
<1>8. ASSUME NEW k \in Listeners, NEW a \in Addresses
      PROVE  addressActive'[<<k, a>>] = SlotsHeld("address", k, {a})'
  <2>1. addressActive[<<k, a>>] = SlotsHeld("address", k, {a}) /\ addressActive[<<k, a>>] \in Int
    BY Zenon DEF CountsMatchPermits, TcpTypes
  <2> QED
    BY <1>1, <1>2, <1>6, <2>1 DEF One
<1> QED
  BY Zenon, <1>5, <1>7, <1>8 DEF CountsMatchPermits

\* A reload stores other limits, and takes or gives back no slot.
LEMMA ReloadTcpKeeps ==
    ASSUME TcpInv, ReloadTcp \/ UNCHANGED tcpVars
    PROVE  TcpInv'
<1> USE DEF TcpInv
<1>1. policy' \in Policies /\ UNCHANGED <<admission, connection, listenerActive, addressActive>>
  BY Zenon DEF ReloadTcp, tcpVars, TcpTypes
<1>2. TcpTypes' /\ TcpStages'
  BY Zenon, <1>1 DEF TcpTypes, TcpStages
<1>3. CountsMatchPermits'
  BY Zenon, <1>1, CountsKept DEF SlotHolders
<1> QED
  BY Zenon, <1>2, <1>3

\* The counts start at zero with no task, and every step keeps them right.
LEMMA TcpInvariant == TcpSpec => []TcpInv
<1>1. TcpInit => TcpInv
  <2> SUFFICES ASSUME TcpInit PROVE TcpInv
    BY Zenon
  <2>1. TcpTypes /\ TcpStages
    BY DEF TcpInit, TcpTypes, TcpStages
  <2>2. ASSUME NEW kind, NEW l \in Listeners, NEW A
        PROVE  SlotsHeld(kind, l, A) = 0
    <3>1. SlotHolders(kind, l, A) = {}
      BY Zenon DEF TcpInit, SlotHolders, Holds
    <3>2. ~Holds(admission[l], kind, A)
      BY Zenon DEF TcpInit, Holds
    <3>3. Cardinality(SlotHolders(kind, l, A)) = 0
      BY Zenon, <3>1, FS_EmptySet
    <3> QED
      BY <3>2, <3>3, SlotsHeldIs DEF One
  <2>3. CountsMatchPermits
    BY Zenon, <2>2 DEF CountsMatchPermits, TcpInit
  <2> QED
    BY Zenon, <2>1, <2>3 DEF TcpInv
<1>2. TcpInv /\ [TcpNext]_tcpVars => TcpInv'
  BY Zenon, AcceptTcpKeeps, TakeListenerSlotKeeps, TakeAddressSlotKeeps, DropRefusedKeeps,
     SpawnAdmittedKeeps, ReleaseAddressKeeps, ReleaseListenerKeeps, ReloadTcpKeeps
  DEF TcpNext
<1> QED
  BY <1>1, <1>2, PTL DEF TcpSpec

\* Whatever limits the reloads install and however the accept loops, the
\* refusals and the ends of the tasks interleave, the counts of TcpAdmission
\* are the slots held.
THEOREM TcpCounts == TcpSpec => []CountsMatchPermits
<1>1. TcpInv => CountsMatchPermits
  BY Zenon DEF TcpInv
<1> QED
  BY <1>1, TcpInvariant, PTL

\* A listener's count grows only while it is below the limit of the policy that
\* the admission began with.
LEMMA ListenerCountGrows ==
    ASSUME TcpInv, [TcpNext]_tcpVars, NEW l \in Listeners
    PROVE  \/ listenerActive'[l] <= listenerActive[l]
           \/ \E p \in Policies : listenerActive'[l] <= p.perListener
<1>1. listenerActive \in [Listeners -> Int] /\ admission \in [Listeners -> Admission \cup {NoAdmission}]
  BY Zenon DEF TcpInv, TcpTypes
<1>2. CASE UNCHANGED listenerActive
  BY <1>1, <1>2
<1>3. ASSUME NEW k \in Listeners, TakeListenerSlot(k), listenerActive' # listenerActive
      PROVE  \/ listenerActive'[l] <= listenerActive[l]
             \/ \E p \in Policies : listenerActive'[l] <= p.perListener
  <2> DEFINE max == admission[k].policy.perListener
  <2>1. listenerActive' = [listenerActive EXCEPT ![k] = @ + 1] /\ listenerActive[k] < max
    BY Zenon, <1>3 DEF TakeListenerSlot
  <2>2. admission[k].policy \in Policies
    BY Zenon, <1>1, <1>3 DEF TakeListenerSlot, Admission
  <2>3. max \in Nat
    BY Zenon, <2>2, TcpAssumption
  <2> HIDE DEF max
  <2>4. listenerActive'[l] <= listenerActive[l] \/ listenerActive'[l] <= max
    BY <1>1, <2>1, <2>3
  <2> QED
    BY Zenon, <2>2, <2>4 DEF max
<1>4. ASSUME NEW k \in Listeners, listenerActive' = [listenerActive EXCEPT ![k] = @ - 1]
      PROVE  listenerActive'[l] <= listenerActive[l]
  BY <1>1, <1>4
<1>5. ASSUME NEW k \in Listeners, DropRefused(k), listenerActive' # listenerActive
      PROVE  listenerActive'[l] <= listenerActive[l]
  BY Zenon, <1>4, <1>5 DEF DropRefused
<1>6. ASSUME NEW c \in Connections, ReleaseListener(c), listenerActive' # listenerActive
      PROVE  listenerActive'[l] <= listenerActive[l]
  <2>1. connection[c].at \in Listeners
    BY Zenon, <1>6 DEF ReleaseListener, TcpInv, TcpTypes, Connection
  <2> QED
    BY Zenon, <1>4, <1>6, <2>1 DEF ReleaseListener
<1> QED
  BY Zenon, <1>2, <1>3, <1>5, <1>6
  DEF TcpNext, tcpVars, AcceptTcp, TakeAddressSlot, SpawnAdmitted, ReleaseAddress, ReloadTcp

\* So does the count of a client address.
LEMMA AddressCountGrows ==
    ASSUME TcpInv, [TcpNext]_tcpVars, NEW x \in Listeners \X Addresses
    PROVE  \/ addressActive'[x] <= addressActive[x]
           \/ \E p \in Policies : addressActive'[x] <= p.perAddress
<1>1. /\ addressActive \in [Listeners \X Addresses -> Int]
      /\ admission \in [Listeners -> Admission \cup {NoAdmission}]
  BY Zenon DEF TcpInv, TcpTypes
<1>2. CASE UNCHANGED addressActive
  BY <1>1, <1>2
<1>3. ASSUME NEW k \in Listeners, TakeAddressSlot(k), addressActive' # addressActive
      PROVE  \/ addressActive'[x] <= addressActive[x]
             \/ \E p \in Policies : addressActive'[x] <= p.perAddress
  <2> DEFINE max == admission[k].policy.perAddress
             slot == <<k, admission[k].from>>
  <2>1. addressActive' = [addressActive EXCEPT ![slot] = @ + 1] /\ addressActive[slot] < max
    BY Zenon, <1>3 DEF TakeAddressSlot
  <2>2. admission[k].policy \in Policies /\ admission[k].from \in Addresses
    BY Zenon, <1>1, <1>3 DEF TakeAddressSlot, Admission
  <2>3. max \in Nat /\ slot \in Listeners \X Addresses
    BY Zenon, <2>2, TcpAssumption
  <2> HIDE DEF max, slot
  <2>4. addressActive'[x] <= addressActive[x] \/ addressActive'[x] <= max
    BY <1>1, <2>1, <2>3
  <2> QED
    BY Zenon, <2>2, <2>4 DEF max
<1>4. ASSUME NEW c \in Connections, ReleaseAddress(c)
      PROVE  addressActive'[x] <= addressActive[x]
  <2> DEFINE slot == <<connection[c].at, connection[c].from>>
  <2>1. slot \in Listeners \X Addresses /\ addressActive' = [addressActive EXCEPT ![slot] = @ - 1]
    BY Zenon, <1>4 DEF ReleaseAddress, TcpInv, TcpTypes, Connection
  <2> HIDE DEF slot
  <2> QED
    BY <1>1, <2>1
<1> QED
  BY Zenon, <1>2, <1>3, <1>4
  DEF TcpNext, tcpVars, AcceptTcp, TakeListenerSlot, DropRefused, SpawnAdmitted, ReleaseListener, ReloadTcp

\* Neither a listener nor a client has more slots than the largest limit that
\* any of the policies sets, also while connections that acquire_tcp admitted
\* under an older policy last.
THEOREM TcpLimits == ASSUME NEW max \in Nat PROVE TcpSpec => []TcpLimitsKept(max)
<1> DEFINE Within ==
      /\ (\A p \in Policies : p.perListener <= max) => \A l \in Listeners : listenerActive[l] <= max
      /\ (\A p \in Policies : p.perAddress <= max) =>
            \A x \in Listeners \X Addresses : addressActive[x] <= max
<1>1. TcpInit => Within
  BY DEF TcpInit
<1>2. TcpInv /\ TcpInv' /\ Within /\ [TcpNext]_tcpVars => Within'
  <2> SUFFICES ASSUME TcpInv, TcpInv', Within, [TcpNext]_tcpVars PROVE Within'
    BY Zenon
  <2>1. ASSUME \A p \in Policies : p.perListener <= max, NEW l \in Listeners
        PROVE  listenerActive'[l] <= max
    <3>1. listenerActive[l] <= max /\ listenerActive[l] \in Int /\ listenerActive'[l] \in Int
      BY Zenon, <2>1 DEF TcpInv, TcpTypes
    <3>2. \/ listenerActive'[l] <= listenerActive[l]
          \/ \E p \in Policies : listenerActive'[l] <= p.perListener
      BY Zenon, ListenerCountGrows
    <3> QED
      BY <2>1, <3>1, <3>2, TcpAssumption
  <2>2. ASSUME \A p \in Policies : p.perAddress <= max, NEW x \in Listeners \X Addresses
        PROVE  addressActive'[x] <= max
    <3>1. addressActive[x] <= max /\ addressActive[x] \in Int /\ addressActive'[x] \in Int
      BY Zenon, <2>2 DEF TcpInv, TcpTypes
    <3>2. \/ addressActive'[x] <= addressActive[x]
          \/ \E p \in Policies : addressActive'[x] <= p.perAddress
      BY Zenon, AddressCountGrows
    <3> QED
      BY <2>2, <3>1, <3>2, TcpAssumption
  <2> QED
    BY Zenon, <2>1, <2>2
<1>3. TcpInv /\ Within => TcpLimitsKept(max)
  BY Zenon DEF TcpInv, CountsMatchPermits, TcpLimitsKept
<1> QED
  BY <1>1, <1>2, <1>3, TcpInvariant, PTL DEF TcpSpec

---------------------------------------------------------------------------
(* The Connector: its reconnect loops, sessions and shutdown *)

\* The states of a connection as the Edge sees it, the places of the reconnect
\* loop, and a stream task.
ClientConns == {"none", "new", "registered", "answered", "replaced", "closed"}
ClientPlaces == {"connect", "auth", "serve", "drain", "sleep", "ended"}
ClientTask == [link : links, stage : {"request", "open", "told", "answered"}, live : BOOLEAN,
               closes : BOOLEAN]
Registered == {"registered", "answered"}

ClientTypes ==
    /\ config \in Configurations
    /\ pc \in [links -> ClientPlaces] /\ conn \in [links -> ClientConns]
    /\ backoff \in [links -> InitialBackoff..MaxBackoff] /\ clock \in [links -> Nat]
    /\ owner \in [Edges -> links \cup {NoLink, Dead}]
    /\ tasks \in [Streams -> ClientTask \cup {Free}] /\ datagrams \in [links -> Nat]

\* The Edge's registration and the open connections agree, where it is not that
\* of a lost one; a connection that announced its end may have lost its
\* registration already.
Owners ==
    /\ \A e \in Edges : owner[e] \in links => Edge(owner[e]) = e /\ conn[owner[e]] \in Registered
    /\ \A l \in links : conn[l] \in Registered /\ pc[l] # "drain" => owner[Edge(l)] = l

\* A loop has a connection only while it authenticates or serves.
LoopConnections ==
    \A l \in links :
        /\ pc[l] \in {"connect", "sleep", "ended"} => conn[l] = "none"
        /\ pc[l] \in Sessions => conn[l] \in {"answered", "replaced", "closed"}

\* What a session counts in flight belongs to a session that is still there.
InSession ==
    /\ \A s \in Streams : tasks[s] # Free =>
         Process(tasks[s].link) = s[1] /\ (tasks[s].live => pc[tasks[s].link] \in Sessions)
    /\ \A l \in links : datagrams[l] > 0 => pc[l] \in Sessions

Sleeps ==
    \A l \in links : pc[l] = "sleep" => clock[l] < MaxBackoff \/ clock[l] <= ReplacedRetryDelay

ClientInv == ClientTypes /\ Owners /\ LoopConnections /\ InSession /\ Sleeps

\* A link is a process and one of the Edges it is configured with (main).
LEMMA LinkHasEdge ==
    ASSUME ClientTypes, NEW l \in links
    PROVE  Edge(l) \in Edges /\ Process(l) \in Processes /\ l # NoLink /\ l # Dead
BY ConfigurationsAssumption, ClientAssumption DEF ClientTypes, links, Edge, Process

\* A configuration never changes (run_connection gets its Edge once).
LEMMA LinksStay == config' = config => links' = links
BY Zenon DEF links

LEMMA ClientInitially == Init => ClientInv
<1> SUFFICES ASSUME Init PROVE ClientInv
  BY Zenon
<1>1. ClientTypes
  BY ClientAssumption DEF Init, ClientTypes, ClientPlaces, ClientConns
<1>2. Owners
  BY Zenon, <1>1, LinkHasEdge DEF Init, Owners, Registered
<1>3. LoopConnections /\ InSession /\ Sleeps
  BY DEF Init, LoopConnections, InSession, Sleeps, Sessions
<1> QED
  BY Zenon, <1>1, <1>2, <1>3 DEF ClientInv

\* The delay before the next attempt is shorter than the backoff (jittered).
LEMMA DelayBound ==
    ASSUME NEW b \in InitialBackoff..MaxBackoff, NEW d \in Jittered(b)
    PROVE  d \in Nat /\ d < MaxBackoff
BY ClientAssumption DEF Jittered

\* A loop that drops its connection leaves its registration consistent.
LEMMA LetGo ==
    ASSUME ClientTypes, Owners, LoopConnections, config' = config, NEW l \in links,
           NEW place \in {"sleep", "ended"}, Goto(l, place), Close({l})
    PROVE  /\ pc' \in [links' -> ClientPlaces] /\ conn' \in [links' -> ClientConns]
           /\ owner' \in [Edges -> links' \cup {NoLink, Dead}]
           /\ Owners' /\ LoopConnections'
<1>1. links' = links
  BY Zenon, LinksStay
<1>2. /\ pc' \in [links -> ClientPlaces] /\ conn' \in [links -> ClientConns]
      /\ owner' \in [Edges -> links \cup {NoLink, Dead}]
  BY Zenon DEF ClientTypes, Goto, Close, LeaveBehind, ClientPlaces, ClientConns
<1>3. /\ pc'[l] = place /\ conn'[l] = "none"
      /\ \A k \in links \ {l} : pc'[k] = pc[k] /\ conn'[k] = conn[k]
      /\ \A e \in Edges : owner'[e] = IF owner[e] = l THEN Dead ELSE owner[e]
  BY Zenon DEF ClientTypes, Goto, Close, LeaveBehind
<1>4. Owners'
  <2>1. ASSUME NEW e \in Edges, owner'[e] \in links
        PROVE  Edge(owner'[e]) = e /\ conn'[owner'[e]] \in Registered
    BY Zenon, <1>2, <1>3, <2>1, LinkHasEdge DEF ClientTypes, Owners
  <2>2. ASSUME NEW k \in links, conn'[k] \in Registered, pc'[k] # "drain"
        PROVE  owner'[Edge(k)] = k
    BY Zenon, <1>2, <1>3, <2>2, LinkHasEdge DEF ClientTypes, Owners, Registered
  <2> QED
    BY Zenon, <1>1, <2>1, <2>2 DEF Owners, Edge
<1>5. LoopConnections'
  BY Zenon, <1>1, <1>3 DEF LoopConnections, Sessions
<1> QED
  BY Zenon, <1>1, <1>2, <1>4, <1>5

\* A loop that moves on outside a session disturbs no work in flight.
LEMMA OutsideSession ==
    ASSUME ClientTypes, InSession, config' = config, NEW l \in links, NEW place,
           Goto(l, place), UNCHANGED work,
           pc[l] \in Sessions => place \in Sessions
    PROVE  InSession'
<1>1. links' = links
  BY Zenon, LinksStay
<1>2. pc'[l] = place /\ \A k \in links \ {l} : pc'[k] = pc[k]
  BY Zenon DEF ClientTypes, Goto
<1>3. tasks' = tasks /\ datagrams' = datagrams
  BY Zenon DEF work
<1>4. \A k \in links : pc[k] \in Sessions => pc'[k] \in Sessions
  BY Zenon, <1>2
<1>5. \A s \in Streams : tasks[s] # Free => tasks[s].link \in links
  BY DEF ClientTypes, ClientTask
<1> QED
  BY <1>1, <1>3, <1>4, <1>5 DEF InSession, Process, Sessions

\* Connecting makes a connection that the Edge does not know yet
\* (connect_and_authenticate).
LEMMA ConnectKeeps ==
    ASSUME ClientInv, NEW l \in links, Connect(l) PROVE ClientInv'
<1>1. links' = links
  BY Zenon, LinksStay DEF Connect
<1>2. ClientTypes'
  BY Zenon, <1>1 DEF ClientInv, ClientTypes, Connect, Goto, ClientPlaces, ClientConns, ClientTask, work
<1>3. /\ pc'[l] = "auth" /\ conn'[l] = "new" /\ conn[l] = "none"
      /\ \A k \in links \ {l} : pc'[k] = pc[k] /\ conn'[k] = conn[k]
  BY Zenon DEF ClientInv, ClientTypes, LoopConnections, Connect, Goto
<1>4. Owners'
  <2>1. \A e \in Edges : owner[e] # l
    BY Zenon, <1>3, LinkHasEdge DEF ClientInv, Owners, Registered
  <2> QED
    BY <1>1, <1>3, <2>1 DEF ClientInv, ClientTypes, Owners, Connect, Edge, Registered
<1>5. LoopConnections' /\ Sleeps'
  BY Zenon, <1>1, <1>3 DEF ClientInv, LoopConnections, Sleeps, Sessions, Connect
<1>6. InSession'
  BY Zenon, OutsideSession DEF ClientInv, Connect, Sessions
<1> QED
  BY Zenon, <1>2, <1>4, <1>5, <1>6 DEF ClientInv

\* An attempt that fails outside a session, or a loop that returns, drops the
\* connection and leaves the rest alone (run_connection).
LEMMA AttemptEnds ==
    ASSUME ClientInv, NEW l \in links, config' = config, pc[l] \in {"connect", "auth", "sleep"},
           NEW place \in {"sleep", "ended"}, Goto(l, place), Close({l}),
           UNCHANGED <<backoff, work>>,
           clock' \in [links -> Nat],
           \A k \in links \ {l} : clock'[k] = clock[k],
           place = "sleep" => clock'[l] < MaxBackoff
    PROVE  ClientInv'
<1>1. links' = links
  BY Zenon, LinksStay
<1>2. Owners' /\ LoopConnections'
  BY Zenon, LetGo DEF ClientInv
<1>3. ClientTypes'
  <2>1. /\ pc' \in [links' -> ClientPlaces] /\ conn' \in [links' -> ClientConns]
        /\ owner' \in [Edges -> links' \cup {NoLink, Dead}]
    BY Zenon, LetGo DEF ClientInv
  <2> QED
    BY Zenon, <1>1, <2>1 DEF ClientInv, ClientTypes, ClientTask, work
<1>4. InSession'
  BY Zenon, OutsideSession DEF ClientInv, Sessions
<1>5. Sleeps'
  BY Zenon, <1>1 DEF ClientInv, ClientTypes, Sleeps, Goto
<1> QED
  BY Zenon, <1>2, <1>3, <1>4, <1>5 DEF ClientInv

\* The three ways in which an attempt ends without a session.
LEMMA ConnectFailsKeeps ==
    ASSUME ClientInv, NEW l \in links, ConnectFails(l) \/ AuthFails(l) PROVE ClientInv'
<1>1. PICK d \in Jittered(backoff[l]) : clock' = [clock EXCEPT ![l] = d]
  BY Zenon DEF ConnectFails, AuthFails, Retry
<1>2. d \in Nat /\ d < MaxBackoff
  BY Zenon, DelayBound DEF ClientInv, ClientTypes
<1>3. /\ clock' \in [links -> Nat] /\ clock'[l] < MaxBackoff
      /\ \A k \in links \ {l} : clock'[k] = clock[k]
  BY Zenon, <1>1, <1>2 DEF ClientInv, ClientTypes
<1> QED
  BY Zenon, <1>3, AttemptEnds DEF ConnectFails, AuthFails, Retry

LEMMA ReturnKeeps ==
    ASSUME ClientInv, NEW l \in links, Return(l) PROVE ClientInv'
<1>1. clock' \in [links -> Nat] /\ \A k \in links \ {l} : clock'[k] = clock[k]
  BY Zenon DEF ClientInv, ClientTypes, Return
<1> QED
  BY Zenon, <1>1, AttemptEnds DEF Return

\* A loop that wakes, begins a session or starts to drain keeps its connection
\* (run_connection, serve_streams).
LEMMA Moves ==
    ASSUME ClientInv, NEW l \in links, config' = config, UNCHANGED <<conn, owner, work>>,
           backoff' \in [links -> InitialBackoff..MaxBackoff], clock' \in [links -> Nat],
           \A k \in links \ {l} : clock'[k] = clock[k],
           NEW place \in ClientPlaces, Goto(l, place),
           \/ pc[l] = "sleep" /\ place = "connect"
           \/ pc[l] = "auth" /\ place = "serve" /\ conn[l] = "answered"
           \/ pc[l] = "serve" /\ place = "drain"
    PROVE  ClientInv'
<1>1. links' = links
  BY Zenon, LinksStay
<1>2. ClientTypes'
  BY Zenon, <1>1 DEF ClientInv, ClientTypes, Goto, ClientTask, work
<1>3. pc'[l] = place /\ \A k \in links \ {l} : pc'[k] = pc[k]
  BY Zenon DEF ClientInv, ClientTypes, Goto
<1>4. Owners'
  BY Zenon, <1>1, <1>3 DEF ClientInv, ClientTypes, Owners, LoopConnections, Edge, Registered
<1>5. LoopConnections' /\ Sleeps'
  BY Zenon, <1>1, <1>3 DEF ClientInv, LoopConnections, Sleeps, Sessions
<1>6. InSession'
  BY Zenon, OutsideSession DEF ClientInv, Sessions
<1> QED
  BY Zenon, <1>2, <1>4, <1>5, <1>6 DEF ClientInv

LEMMA WakeKeeps ==
    ASSUME ClientInv, NEW l \in links, Wake(l) PROVE ClientInv'
<1>1. backoff' \in [links -> InitialBackoff..MaxBackoff] /\ clock' = clock /\ clock \in [links -> Nat]
  BY ClientAssumption DEF ClientInv, ClientTypes, Wake, Lesser
<1> QED
  BY Zenon, <1>1, Moves DEF Wake, edge, ClientPlaces

LEMMA AuthenticatedKeeps ==
    ASSUME ClientInv, NEW l \in links, Authenticated(l) PROVE ClientInv'
<1>1. backoff' \in [links -> InitialBackoff..MaxBackoff] /\ clock' = clock /\ clock \in [links -> Nat]
  BY Zenon DEF ClientInv, ClientTypes, Authenticated
<1> QED
  BY Zenon, <1>1, Moves DEF Authenticated, edge, ClientPlaces

LEMMA GoAwayKeeps ==
    ASSUME ClientInv, NEW l \in links, GoAway(l) PROVE ClientInv'
<1>1. /\ backoff' \in [links -> InitialBackoff..MaxBackoff] /\ clock' \in [links -> Nat]
      /\ \A k \in links \ {l} : clock'[k] = clock[k]
  BY Zenon, ClientAssumption DEF ClientInv, ClientTypes, GoAway
<1> QED
  BY Zenon, <1>1, Moves DEF GoAway, edge, ClientPlaces

\* What a session leaves behind does not count as its own any longer
\* (serve_streams).
LEMMA AbandonKeeps ==
    ASSUME ClientTypes, InSession, config' = config, NEW l \in links, pc[l] \in Sessions,
           Goto(l, "sleep"), Abandon(l)
    PROVE  /\ tasks' \in [Streams -> ClientTask \cup {Free}]' /\ datagrams' \in [links' -> Nat]
           /\ InSession'
<1>1. links' = links
  BY Zenon, LinksStay
<1>2. pc'[l] = "sleep" /\ \A k \in links \ {l} : pc'[k] = pc[k]
  BY Zenon DEF ClientTypes, Goto
<1>3. ASSUME NEW s \in Streams
      PROVE  /\ tasks[s] = Free => tasks'[s] = Free
             /\ tasks[s] # Free =>
                 /\ tasks'[s] \in ClientTask /\ tasks'[s].link = tasks[s].link
                 /\ tasks'[s].live => tasks[s].live /\ tasks[s].link # l
  BY Zenon, ClientAssumption DEF ClientTypes, ClientTask, Abandon, InFlight
<1>4. tasks' \in [Streams -> ClientTask \cup {Free}]' /\ datagrams' \in [links' -> Nat]
  BY Zenon, <1>1, <1>3 DEF ClientTypes, ClientTask, Abandon
<1>5. InSession'
  <2>1. ASSUME NEW s \in Streams, tasks'[s] # Free
        PROVE  Process(tasks'[s].link) = s[1] /\ (tasks'[s].live => pc'[tasks'[s].link] \in Sessions)
    BY <1>2, <1>3, <2>1 DEF InSession, ClientTypes, ClientTask
  <2>2. ASSUME NEW k \in links, datagrams'[k] > 0 PROVE pc'[k] \in Sessions
    BY <1>2, <2>2 DEF InSession, ClientTypes, Abandon
  <2> QED
    BY Zenon, <1>1, <2>1, <2>2 DEF InSession, Process, Sessions
<1> QED
  BY Zenon, <1>4, <1>5

\* However a session ends, the loop sleeps with a bounded delay and without a
\* connection (run_connection).
LEMMA EndSessionKeeps ==
    ASSUME ClientInv, NEW l \in links, pc[l] \in Sessions, EndSession(l) PROVE ClientInv'
<1>1. PICK next \in {backoff[l], InitialBackoff} :
        /\ backoff' = [backoff EXCEPT ![l] = next]
        /\ Retry(l, IF conn[l] = "replaced" THEN {ReplacedRetryDelay} ELSE Jittered(next))
  BY Zenon DEF EndSession
<1>2. next \in InitialBackoff..MaxBackoff
  BY <1>1, ClientAssumption DEF ClientInv, ClientTypes
<1>3. PICK d : /\ d \in IF conn[l] = "replaced" THEN {ReplacedRetryDelay} ELSE Jittered(next)
               /\ clock' = [clock EXCEPT ![l] = d]
  BY Zenon, <1>1 DEF Retry
<1>4. d \in Nat /\ (d < MaxBackoff \/ d <= ReplacedRetryDelay)
  BY <1>2, <1>3, DelayBound, ClientAssumption
<1>5. config' = config /\ links' = links /\ Goto(l, "sleep") /\ Close({l})
  BY Zenon, <1>1, LinksStay DEF EndSession, Retry
<1>6. /\ pc' \in [links' -> ClientPlaces] /\ conn' \in [links' -> ClientConns]
      /\ owner' \in [Edges -> links' \cup {NoLink, Dead}]
      /\ Owners' /\ LoopConnections'
  BY Zenon, <1>5, LetGo DEF ClientInv
<1>7. /\ tasks' \in [Streams -> ClientTask \cup {Free}]' /\ datagrams' \in [links' -> Nat]
      /\ InSession'
  BY Zenon, <1>5, AbandonKeeps DEF ClientInv, EndSession
<1>8. ClientTypes'
  BY Zenon, <1>1, <1>2, <1>3, <1>4, <1>5, <1>6, <1>7 DEF ClientInv, ClientTypes, EndSession
<1>9. Sleeps'
  BY Zenon, <1>3, <1>4, <1>5 DEF ClientInv, ClientTypes, Sleeps, Goto
<1> QED
  BY Zenon, <1>6, <1>7, <1>8, <1>9 DEF ClientInv

\* A step that only changes stream tasks: the permit of one of them is taken,
\* moves on or is given back (serve_streams, serve_stream, forward_tcp).
LEMMA PermitStep ==
    ASSUME ClientInv, NEW s \in Streams, NEW task \in ClientTask \cup {Free},
           tasks' = [tasks EXCEPT ![s] = task],
           UNCHANGED <<config, loop, edge, datagrams>>,
           task # Free => /\ Process(task.link) = s[1]
                          /\ task.live => pc[task.link] \in Sessions
    PROVE  ClientInv'
<1>1. links' = links
  BY Zenon, LinksStay
<1>2. ClientTypes'
  BY Zenon, <1>1 DEF ClientInv, ClientTypes, ClientTask, loop, edge
<1>3. Owners' /\ LoopConnections' /\ Sleeps'
  BY Zenon, <1>1 DEF ClientInv, Owners, LoopConnections, Sleeps, loop, edge, Edge, Registered, Sessions
<1>4. tasks'[s] = task /\ \A r \in Streams \ {s} : tasks'[r] = tasks[r]
  BY Zenon DEF ClientInv, ClientTypes
<1>5. InSession'
  <2>1. pc' = pc /\ datagrams' = datagrams
    BY Zenon DEF loop
  <2> QED
    BY <1>1, <1>4, <2>1 DEF ClientInv, InSession, Process, Sessions
<1> QED
  BY Zenon, <1>2, <1>3, <1>5 DEF ClientInv

LEMMA AcceptStreamKeeps ==
    ASSUME ClientInv, NEW l \in links, AcceptStream(l) PROVE ClientInv'
<1>1. PICK s \in Streams :
        /\ s[1] = Process(l)
        /\ tasks' = [tasks EXCEPT ![s] = [link |-> l, stage |-> "request", live |-> TRUE,
                                           closes |-> FALSE]]
  BY Zenon DEF AcceptStream
<1> DEFINE task == [link |-> l, stage |-> "request", live |-> TRUE, closes |-> FALSE]
<1>2. task \in ClientTask /\ task.link = l
  BY Zenon DEF ClientTask
<1> QED
  BY Zenon, <1>1, <1>2, PermitStep DEF AcceptStream

\* The steps of a stream task.
LEMMA StreamKeeps ==
    ASSUME ClientInv, NEW s \in Streams,
           TargetConnected(s) \/ NotForwarded(s) \/ QuicSideEnds(s) \/ TargetEnds(s)
    PROVE  ClientInv'
<1>1. CASE StreamEnds(s)
  BY Zenon, <1>1, PermitStep DEF StreamEnds
<1>2. ASSUME NEW task \in ClientTask, tasks[s] # Free, tasks' = [tasks EXCEPT ![s] = task],
             task.link = tasks[s].link, task.live = tasks[s].live,
             UNCHANGED <<config, loop, edge, datagrams>>
      PROVE  ClientInv'
  BY Zenon, <1>2, PermitStep DEF ClientInv, InSession
<1>3. ASSUME NEW stage \in {"told", "answered"}, Stage(s, stage) PROVE ClientInv'
  <2> DEFINE task == [tasks[s] EXCEPT !.stage = stage]
  <2>1. tasks[s] \in ClientTask
    BY Zenon, <1>3 DEF ClientInv, ClientTypes, Stage
  <2>2. task \in ClientTask /\ task.link = tasks[s].link /\ task.live = tasks[s].live
    BY Zenon, <2>1 DEF ClientTask
  <2>3. tasks' = [tasks EXCEPT ![s] = task]
    BY Zenon, <1>3 DEF Stage
  <2> QED
    BY Zenon, <1>2, <1>3, <2>2, <2>3 DEF Stage
<1>4. CASE TargetConnected(s)
  <2>1. PICK closes \in BOOLEAN : tasks' = [tasks EXCEPT ![s].stage = "open", ![s].closes = closes]
    BY Zenon, <1>4 DEF TargetConnected
  <2> DEFINE task == [tasks[s] EXCEPT !.stage = "open", !.closes = closes]
  <2>2. tasks[s] \in ClientTask /\ tasks[s] # Free
    BY Zenon, <1>4 DEF ClientInv, ClientTypes, TargetConnected, At
  <2>3. task \in ClientTask /\ task.link = tasks[s].link /\ task.live = tasks[s].live
    BY Zenon, <2>2 DEF ClientTask
  <2>4. tasks' = [tasks EXCEPT ![s] = task]
    BY <2>1, <2>2 DEF ClientInv, ClientTypes, ClientTask
  <2> QED
    BY Zenon, <1>2, <1>4, <2>2, <2>3, <2>4 DEF TargetConnected
<1> QED
  BY Zenon, <1>1, <1>3, <1>4 DEF NotForwarded, QuicSideEnds, TargetEnds

\* Datagrams come and go within a session (serve_streams).
LEMMA DatagramKeeps ==
    ASSUME ClientInv, NEW l \in links, AcceptDatagram(l) \/ DatagramDone(l) PROVE ClientInv'
<1>1. links' = links /\ UNCHANGED <<config, loop, edge, tasks>>
  BY Zenon, LinksStay DEF AcceptDatagram, DatagramDone
<1>2. datagrams' \in [links -> Nat] /\ \A k \in links : datagrams'[k] > 0 => pc[k] \in Sessions
  BY DEF ClientInv, ClientTypes, InSession, AcceptDatagram, DatagramDone
<1>3. ClientTypes'
  BY Zenon, <1>1, <1>2 DEF ClientInv, ClientTypes, ClientTask, loop, edge
<1>4. Owners' /\ LoopConnections' /\ Sleeps'
  BY Zenon, <1>1 DEF ClientInv, Owners, LoopConnections, Sleeps, loop, edge, Edge, Registered, Sessions
<1>5. InSession'
  BY <1>1, <1>2 DEF ClientInv, InSession, loop, Process, Sessions
<1> QED
  BY Zenon, <1>3, <1>4, <1>5 DEF ClientInv

\* A step of the Edge changes connections and its registration, nothing of the
\* process (handle_connector).
LEMMA EdgeSide ==
    ASSUME ClientInv, UNCHANGED <<config, loop, work>>,
           conn' \in [links -> ClientConns], owner' \in [Edges -> links \cup {NoLink, Dead}],
           \A e \in Edges : owner'[e] \in links =>
               Edge(owner'[e]) = e /\ conn'[owner'[e]] \in Registered,
           \A l \in links : conn'[l] \in Registered /\ pc[l] # "drain" => owner'[Edge(l)] = l,
           \A l \in links :
               /\ pc[l] \in {"connect", "sleep", "ended"} => conn'[l] = "none"
               /\ pc[l] \in Sessions => conn'[l] \in {"answered", "replaced", "closed"}
    PROVE  ClientInv'
<1>1. links' = links
  BY Zenon, LinksStay
<1>2. ClientTypes'
  BY Zenon, <1>1 DEF ClientInv, ClientTypes, ClientTask, loop, work
<1>3. Owners' /\ LoopConnections' /\ Sleeps'
  BY Zenon, <1>1 DEF ClientInv, Owners, LoopConnections, Sleeps, loop, Edge, Registered, Sessions
<1>4. InSession'
  BY <1>1 DEF ClientInv, InSession, loop, work, Process, Sessions
<1> QED
  BY Zenon, <1>2, <1>3, <1>4 DEF ClientInv

\* The newest connection with the token replaces the registered one
\* (handle_connector, ConnectorRegistry::register).
LEMMA EdgeRegistersKeeps ==
    ASSUME ClientInv, NEW l \in links, EdgeRegisters(l) PROVE ClientInv'
<1> DEFINE previous == owner[Edge(l)]
<1>0. Edge(l) \in Edges /\ previous # l
  BY LinkHasEdge DEF ClientInv, ClientTypes, Owners, Registered, EdgeRegisters
<1>1. /\ owner'[Edge(l)] = l
      /\ \A e \in Edges \ {Edge(l)} : owner'[e] = owner[e]
      /\ owner' \in [Edges -> links \cup {NoLink, Dead}]
  BY Zenon, <1>0 DEF ClientInv, ClientTypes, EdgeRegisters
<1>2. \A k \in links : conn'[k] = IF k = l THEN "registered" ELSE IF k = previous THEN "replaced" ELSE conn[k]
  BY Zenon DEF EdgeRegisters
<1>3. conn' \in [links -> ClientConns]
  BY Zenon DEF ClientInv, ClientTypes, ClientConns, EdgeRegisters
<1>4. \A e \in Edges : owner'[e] \in links =>
        Edge(owner'[e]) = e /\ conn'[owner'[e]] \in Registered
  BY <1>0, <1>1, <1>2 DEF ClientInv, ClientTypes, Owners, Registered
<1>5. ASSUME NEW k \in links, conn'[k] \in Registered, pc[k] # "drain" PROVE owner'[Edge(k)] = k
  BY Zenon, <1>0, <1>1, <1>2, <1>5, LinkHasEdge DEF ClientInv, ClientTypes, Owners, Registered
<1>6. previous \in links => conn[previous] \in Registered
  BY Zenon, <1>0 DEF ClientInv, Owners
<1>7. ASSUME NEW k \in links
      PROVE  /\ pc[k] \in {"connect", "sleep", "ended"} => conn'[k] = "none"
             /\ pc[k] \in Sessions => conn'[k] \in {"answered", "replaced", "closed"}
  <2>1. conn[l] = "new"
    BY Zenon DEF EdgeRegisters
  <2> QED
    BY Zenon, <1>2, <1>6, <2>1 DEF ClientInv, LoopConnections, Registered, Sessions
<1> QED
  BY Zenon, <1>1, <1>3, <1>4, <1>5, <1>7, EdgeSide DEF EdgeRegisters

\* A lost connection that registers late replaces the registered one, and gets
\* no streams itself (handle_connector).
LEMMA EdgeRegistersLateKeeps ==
    ASSUME ClientInv, NEW l \in links, EdgeRegistersLate(l) PROVE ClientInv'
<1>1. CASE UNCHANGED <<conn, owner>>
  BY Zenon, <1>1, EdgeSide DEF ClientInv, ClientTypes, Owners, LoopConnections, EdgeRegistersLate
<1>2. CASE /\ owner' = [owner EXCEPT ![Edge(l)] = Dead]
           /\ conn' = [k \in links |-> IF k = owner[Edge(l)] THEN "replaced" ELSE conn[k]]
  <2>0. Edge(l) \in Edges /\ \A k \in links : k # Dead
    BY Zenon, LinkHasEdge DEF ClientInv
  <2>1. /\ \A e \in Edges : owner'[e] = (IF e = Edge(l) THEN Dead ELSE owner[e])
        /\ owner' \in [Edges -> links \cup {NoLink, Dead}]
    BY Zenon, <1>2, <2>0 DEF ClientInv, ClientTypes
  <2>2. /\ \A k \in links : conn'[k] = (IF k = owner[Edge(l)] THEN "replaced" ELSE conn[k])
        /\ conn' \in [links -> ClientConns]
    BY Zenon, <1>2 DEF ClientInv, ClientTypes, ClientConns
  <2>3. ASSUME NEW e \in Edges, owner'[e] \in links
        PROVE  Edge(owner'[e]) = e /\ conn'[owner'[e]] \in Registered
    <3>1. e # Edge(l) /\ owner'[e] = owner[e] /\ Edge(owner[e]) = e /\ conn[owner[e]] \in Registered
      BY Zenon, <2>0, <2>1, <2>3 DEF ClientInv, Owners
    <3>2. owner[Edge(l)] \in links => Edge(owner[Edge(l)]) = Edge(l)
      BY Zenon, <2>0 DEF ClientInv, Owners
    <3> QED
      BY Zenon, <2>2, <2>3, <3>1, <3>2
  <2>4. ASSUME NEW k \in links, conn'[k] \in Registered, pc[k] # "drain" PROVE owner'[Edge(k)] = k
    <3>1. k # owner[Edge(l)] /\ owner[Edge(k)] = k /\ Edge(k) \in Edges
      BY Zenon, <2>2, <2>4, LinkHasEdge DEF ClientInv, Owners, Registered
    <3> QED
      BY Zenon, <2>1, <3>1
  <2>5. ASSUME NEW k \in links
        PROVE  /\ pc[k] \in {"connect", "sleep", "ended"} => conn'[k] = "none"
               /\ pc[k] \in Sessions => conn'[k] \in {"answered", "replaced", "closed"}
    <3>1. k = owner[Edge(l)] => conn[k] \in Registered
      BY Zenon, <2>0 DEF ClientInv, Owners
    <3> QED
      BY Zenon, <2>2, <3>1 DEF ClientInv, LoopConnections, Registered, Sessions
  <2> QED
    BY Zenon, <2>1, <2>2, <2>3, <2>4, <2>5, EdgeSide DEF EdgeRegistersLate
<1> QED
  BY Zenon, <1>1, <1>2 DEF EdgeRegistersLate

\* The registration of a lost connection goes, and no other (handle_connector).
LEMMA EdgeNoticesKeeps ==
    ASSUME ClientInv, NEW e \in Edges, EdgeNotices(e) PROVE ClientInv'
<1>1. /\ owner' \in [Edges -> links \cup {NoLink, Dead}] /\ conn' = conn /\ conn \in [links -> ClientConns]
      /\ \A d \in Edges : owner'[d] = (IF d = e THEN NoLink ELSE owner[d])
  BY Zenon DEF ClientInv, ClientTypes, EdgeNotices
<1>2. \A k \in links : Edge(k) \in Edges /\ k # NoLink /\ k # Dead
  BY Zenon, LinkHasEdge DEF ClientInv
<1>3. \A d \in Edges : owner'[d] \in links =>
        Edge(owner'[d]) = d /\ conn'[owner'[d]] \in Registered
  BY Zenon, <1>1, <1>2 DEF ClientInv, Owners
<1>4. ASSUME NEW k \in links, conn'[k] \in Registered, pc[k] # "drain" PROVE owner'[Edge(k)] = k
  BY Zenon, <1>1, <1>2, <1>4 DEF ClientInv, Owners, EdgeNotices
<1> QED
  BY Zenon, <1>1, <1>3, <1>4, EdgeSide DEF ClientInv, LoopConnections, EdgeNotices

LEMMA EdgeAnswersKeeps ==
    ASSUME ClientInv, NEW l \in links, EdgeAnswers(l) PROVE ClientInv'
<1>1. conn' \in [links -> ClientConns]
  BY Zenon DEF ClientInv, ClientTypes, ClientConns, EdgeAnswers
<1>2. \A k \in links : conn'[k] = (IF k = l THEN "answered" ELSE conn[k])
  BY Zenon DEF ClientInv, ClientTypes, EdgeAnswers
<1>3. conn[l] = "registered" /\ owner' = owner /\ owner \in [Edges -> links \cup {NoLink, Dead}]
  BY Zenon DEF ClientInv, ClientTypes, EdgeAnswers
<1>4. \A e \in Edges : owner'[e] \in links =>
        Edge(owner'[e]) = e /\ conn'[owner'[e]] \in Registered
  BY <1>2, <1>3 DEF ClientInv, Owners, Registered
<1>5. \A k \in links : conn'[k] \in Registered /\ pc[k] # "drain" => owner'[Edge(k)] = k
  BY Zenon, <1>2, <1>3 DEF ClientInv, Owners, Registered
<1>6. \A k \in links : /\ pc[k] \in {"connect", "sleep", "ended"} => conn'[k] = "none"
                       /\ pc[k] \in Sessions => conn'[k] \in {"answered", "replaced", "closed"}
  BY Zenon, <1>2, <1>3 DEF ClientInv, LoopConnections
<1> QED
  BY Zenon, <1>1, <1>3, <1>4, <1>5, <1>6, EdgeSide DEF EdgeAnswers

\* The registration of a link that announced its end is given up
\* (wait_for_going_away).
LEMMA NoticeKeeps ==
    ASSUME ClientInv, NEW l \in links, EdgeHearsNotice(l) PROVE ClientInv'
<1>1. Edge(l) \in Edges
  BY Zenon, LinkHasEdge DEF ClientInv
<1>2. /\ owner' \in [Edges -> links \cup {NoLink, Dead}] /\ conn' = conn /\ conn \in [links -> ClientConns]
      /\ \A e \in Edges : owner'[e] = (IF e = Edge(l) THEN NoLink ELSE owner[e])
  BY Zenon, <1>1 DEF ClientInv, ClientTypes, EdgeHearsNotice
<1>3. \A e \in Edges : owner'[e] \in links =>
        Edge(owner'[e]) = e /\ conn'[owner'[e]] \in Registered
  BY Zenon, <1>2, LinkHasEdge DEF ClientInv, Owners
<1>4. ASSUME NEW k \in links, conn'[k] \in Registered, pc[k] # "drain" PROVE owner'[Edge(k)] = k
  BY Zenon, <1>2, <1>4, LinkHasEdge DEF ClientInv, Owners, EdgeHearsNotice
<1> QED
  BY Zenon, <1>2, <1>3, <1>4, EdgeSide DEF ClientInv, LoopConnections, EdgeHearsNotice

\* A connection that is lost gets no streams any more (serve_streams,
\* handle_connector's cleanup).
LEMMA BreaksKeeps ==
    ASSUME ClientInv, NEW l \in links, Breaks(l) PROVE ClientInv'
<1>1. \A k \in links : k # NoLink /\ k # Dead /\ Edge(k) \in Edges
  BY Zenon, LinkHasEdge DEF ClientInv
<1>2. /\ \A k \in links : conn'[k] = (IF k = l THEN "closed" ELSE conn[k])
      /\ conn' \in [links -> ClientConns]
  BY Zenon DEF ClientInv, ClientTypes, ClientConns, Breaks
<1>3. /\ \A e \in Edges : owner'[e] = (IF owner[e] = l THEN Dead ELSE owner[e])
      /\ owner' \in [Edges -> links \cup {NoLink, Dead}]
  BY Zenon DEF ClientInv, ClientTypes, Breaks, LeaveBehind
<1>4. \A e \in Edges : owner'[e] \in links =>
        Edge(owner'[e]) = e /\ conn'[owner'[e]] \in Registered
  BY Zenon, <1>1, <1>2, <1>3 DEF ClientInv, Owners
<1>5. ASSUME NEW k \in links, conn'[k] \in Registered, pc[k] # "drain" PROVE owner'[Edge(k)] = k
  BY Zenon, <1>1, <1>2, <1>3, <1>5 DEF ClientInv, Owners, Registered
<1>6. ASSUME NEW k \in links
      PROVE  /\ pc[k] \in {"connect", "sleep", "ended"} => conn'[k] = "none"
             /\ pc[k] \in Sessions => conn'[k] \in {"answered", "replaced", "closed"}
  BY Zenon, <1>2 DEF ClientInv, LoopConnections, Breaks, Open
<1> QED
  BY Zenon, <1>2, <1>3, <1>4, <1>5, <1>6, EdgeSide DEF Breaks

\* An Edge that stops closes its connections and forgets them (run_quic_server).
LEMMA EdgeStopsKeeps ==
    ASSUME ClientInv, NEW e \in Edges, EdgeStops(e) PROVE ClientInv'
<1>1. \A k \in links : k # NoLink /\ Edge(k) \in Edges
  BY Zenon, LinkHasEdge DEF ClientInv
<1>2. /\ \A k \in links :
           conn'[k] = (IF Edge(k) = e /\ conn[k] \in Open THEN "closed" ELSE conn[k])
      /\ conn' \in [links -> ClientConns]
  BY Zenon DEF ClientInv, ClientTypes, ClientConns, EdgeStops
<1>3. /\ \A d \in Edges : owner'[d] = (IF d = e THEN NoLink ELSE owner[d])
      /\ owner' \in [Edges -> links \cup {NoLink, Dead}]
  BY Zenon DEF ClientInv, ClientTypes, EdgeStops
<1>4. \A d \in Edges : owner'[d] \in links =>
        Edge(owner'[d]) = d /\ conn'[owner'[d]] \in Registered
  BY Zenon, <1>1, <1>2, <1>3 DEF ClientInv, Owners
<1>5. ASSUME NEW k \in links, conn'[k] \in Registered, pc[k] # "drain" PROVE owner'[Edge(k)] = k
  BY Zenon, <1>1, <1>2, <1>3, <1>5 DEF ClientInv, Owners, Registered, Open
<1>6. ASSUME NEW k \in links
      PROVE  /\ pc[k] \in {"connect", "sleep", "ended"} => conn'[k] = "none"
             /\ pc[k] \in Sessions => conn'[k] \in {"answered", "replaced", "closed"}
  BY Zenon, <1>2 DEF ClientInv, LoopConnections, Open
<1> QED
  BY Zenon, <1>2, <1>3, <1>4, <1>5, <1>6, EdgeSide DEF EdgeStops

\* The heartbeat task and a request to shut down touch no connection
\* (heartbeat_loop).
LEMMA BeatKeeps ==
    ASSUME ClientInv, (\E p \in Processes : BeatStep(p) \/ Shutdown(p)) \/ KeyExpires PROVE ClientInv'
<1>1. /\ links' = links /\ UNCHANGED <<config, loop, edge, work>>
  BY Zenon, LinksStay DEF BeatStep, ReadHealth, SendBeat, StopBeat, Shutdown, KeyExpires
<1>2. ClientTypes'
  BY Zenon, <1>1 DEF ClientInv, ClientTypes, ClientTask, loop, edge, work
<1>3. Owners' /\ LoopConnections' /\ Sleeps'
  BY Zenon, <1>1 DEF ClientInv, Owners, LoopConnections, Sleeps, loop, edge, Edge, Registered, Sessions
<1>4. InSession'
  BY <1>1 DEF ClientInv, ClientTypes, InSession, loop, work, Process, Sessions
<1> QED
  BY Zenon, <1>2, <1>3, <1>4 DEF ClientInv

\* A process that ends takes its loops, streams and connections with it
\* (main: the runtime is dropped).
LEMMA TerminateKeeps ==
    ASSUME ClientInv, NEW p \in Processes, Terminate(p), UNCHANGED <<config, backoff, clock>>,
           pc' = [l \in links |-> IF Process(l) = p THEN "ended" ELSE pc[l]]
    PROVE  ClientInv'
<1>1. links' = links
  BY Zenon, LinksStay
<1>2. \A l \in links : /\ pc'[l] = (IF Process(l) = p THEN "ended" ELSE pc[l])
                       /\ conn'[l] = (IF Process(l) = p THEN "none" ELSE conn[l])
                       /\ datagrams'[l] = (IF Process(l) = p THEN 0 ELSE datagrams[l])
  BY Zenon DEF Terminate, Close, LinksOf
<1>3. \A e \in Edges : owner'[e] = (IF owner[e] \in LinksOf(p) THEN Dead ELSE owner[e])
  BY Zenon DEF Terminate, Close, LeaveBehind
<1>4. \A s \in Streams : tasks'[s] = (IF s[1] = p THEN Free ELSE tasks[s])
  BY Zenon DEF Terminate
<1>5. ClientTypes'
  <2>1. /\ pc' \in [links -> ClientPlaces] /\ conn' \in [links -> ClientConns]
        /\ datagrams' \in [links -> Nat]
    BY Zenon DEF ClientInv, ClientTypes, Terminate, Close, ClientPlaces, ClientConns
  <2>2. owner' \in [Edges -> links \cup {NoLink, Dead}] /\ tasks' \in [Streams -> ClientTask \cup {Free}]
    BY Zenon DEF ClientInv, ClientTypes, Terminate, Close, LeaveBehind
  <2> QED
    BY Zenon, <1>1, <2>1, <2>2 DEF ClientInv, ClientTypes, ClientTask
<1>6. Owners'
  <2>1. ASSUME NEW e \in Edges, owner'[e] \in links
        PROVE  Edge(owner'[e]) = e /\ conn'[owner'[e]] \in Registered
    <3>1. owner'[e] = owner[e] /\ owner[e] \in links /\ Process(owner[e]) # p
      BY Zenon, <1>3, <2>1, LinkHasEdge DEF ClientInv, ClientTypes, LinksOf
    <3> QED
      BY Zenon, <1>2, <2>1, <3>1 DEF ClientInv, Owners
  <2>2. ASSUME NEW k \in links, conn'[k] \in Registered, pc'[k] # "drain"
        PROVE  owner'[Edge(k)] = k
    <3>1. Process(k) # p /\ owner[Edge(k)] = k
      BY Zenon, <1>2, <2>2 DEF ClientInv, Owners, Registered
    <3> QED
      BY Zenon, <1>3, <3>1, LinkHasEdge DEF ClientInv, LinksOf
  <2> QED
    BY Zenon, <1>1, <2>1, <2>2 DEF Owners, Edge
<1>7. LoopConnections' /\ Sleeps'
  BY Zenon, <1>1, <1>2 DEF ClientInv, LoopConnections, Sleeps, Sessions
<1>8. InSession'
  <2>1. ASSUME NEW s \in Streams, tasks'[s] # Free
        PROVE  Process(tasks'[s].link) = s[1] /\ (tasks'[s].live => pc'[tasks'[s].link] \in Sessions)
    <3>1. tasks'[s] = tasks[s] /\ s[1] # p /\ tasks[s].link \in links
      BY Zenon, <1>4, <2>1 DEF ClientInv, ClientTypes, ClientTask
    <3> QED
      BY <1>2, <2>1, <3>1 DEF ClientInv, InSession
  <2>2. ASSUME NEW k \in links, datagrams'[k] > 0 PROVE pc'[k] \in Sessions
    BY <1>2, <2>2 DEF ClientInv, InSession
  <2> QED
    BY Zenon, <1>1, <2>1, <2>2 DEF InSession, Process, Sessions
<1> QED
  BY Zenon, <1>5, <1>6, <1>7, <1>8 DEF ClientInv

LEMMA EndKeeps ==
    ASSUME ClientInv, NEW p \in Processes, Exit(p) \/ Crash(p) PROVE ClientInv'
<1>1. CASE Exit(p)
  <2>1. pc' = [l \in links |-> IF Process(l) = p THEN "ended" ELSE pc[l]]
    BY Zenon, <1>1 DEF ClientInv, ClientTypes, Exit, LinksOf, loop
  <2> QED
    BY Zenon, <1>1, <2>1, TerminateKeeps DEF Exit, loop
<1>2. CASE Crash(p)
  BY Zenon, <1>2, TerminateKeeps DEF Crash
<1> QED
  BY Zenon, <1>1, <1>2

LEMMA TickKeeps ==
    ASSUME ClientInv, Tick PROVE ClientInv'
<1>1. links' = links
  BY Zenon, LinksStay DEF Tick
<1>2. clock' \in [links -> Nat] /\ \A l \in links : clock'[l] <= clock[l]
  BY DEF ClientInv, ClientTypes, Tick
<1>3. ClientTypes'
  BY Zenon, <1>1, <1>2 DEF ClientInv, ClientTypes, ClientTask, Tick, work
<1>4. Owners' /\ LoopConnections'
  BY Zenon, <1>1 DEF ClientInv, Owners, LoopConnections, Tick, Edge, Registered, Sessions
<1>5. InSession'
  <2>1. UNCHANGED <<pc, tasks, datagrams>>
    BY Zenon DEF Tick, work
  <2> QED
    BY <1>1, <2>1 DEF ClientInv, InSession, Process, Sessions
<1>6. Sleeps'
  <2>1. ASSUME NEW l \in links, pc[l] = "sleep"
        PROVE  clock'[l] < MaxBackoff \/ clock'[l] <= ReplacedRetryDelay
    <3>1. clock[l] \in Nat /\ clock'[l] \in Nat /\ clock'[l] <= clock[l]
      BY Zenon, <1>2 DEF ClientInv, ClientTypes
    <3>2. clock[l] < MaxBackoff \/ clock[l] <= ReplacedRetryDelay
      BY Zenon, <2>1 DEF ClientInv, Sleeps
    <3>3. MaxBackoff \in Nat /\ ReplacedRetryDelay \in Nat
      BY Zenon, ClientAssumption
    <3> QED
      BY <3>1, <3>2, <3>3
  <2>2. pc' = pc
    BY Zenon DEF Tick
  <2> QED
    BY Zenon, <1>1, <2>1, <2>2 DEF Sleeps
<1> QED
  BY Zenon, <1>3, <1>4, <1>5, <1>6 DEF ClientInv

LEMMA ClientStutters ==
    ASSUME ClientInv, UNCHANGED vars PROVE ClientInv'
<1>1. links' = links
  BY Zenon, LinksStay DEF vars
<1> QED
  BY <1>1 DEF ClientInv, ClientTypes, ClientTask, Owners, LoopConnections, InSession, Sleeps, vars,
     loop, edge, work, Process, Edge, Registered, Sessions

\* Every step of the loops, the streams, the Edges and the processes keeps it.
LEMMA ClientInvariant == Spec => []ClientInv
<1>1. ClientInv /\ [Next]_vars => ClientInv'
  <2> SUFFICES ASSUME ClientInv, [Next]_vars PROVE ClientInv'
    BY Zenon
  <2>1. ASSUME NEW l \in links, LinkStep(l) PROVE ClientInv'
    <3>1. CASE SessionBroken(l) \/ Drained(l) \/ DrainTimedOut(l)
      BY Zenon, <3>1, EndSessionKeeps DEF SessionBroken, Drained, DrainTimedOut, Sessions
    <3> QED
      BY Zenon, <2>1, <3>1, ConnectKeeps, AuthenticatedKeeps, ConnectFailsKeeps, WakeKeeps, ReturnKeeps,
         GoAwayKeeps DEF LinkStep
  <2>2. ASSUME NEW l \in links,
               \/ EdgeStep(l) \/ ConnectFails(l) \/ EdgeRegistersLate(l) \/ EdgeHearsNotice(l)
               \/ Breaks(l)
               \/ AcceptStream(l) \/ AcceptDatagram(l) \/ DatagramDone(l)
        PROVE  ClientInv'
    BY Zenon, <2>2, EdgeRegistersKeeps, EdgeAnswersKeeps, ConnectFailsKeeps, EdgeRegistersLateKeeps, NoticeKeeps,
       BreaksKeeps, AcceptStreamKeeps, DatagramKeeps DEF EdgeStep
  <2> QED
    BY Zenon, <2>1, <2>2, StreamKeeps, BeatKeeps, EndKeeps, EdgeNoticesKeeps, EdgeStopsKeeps, TickKeeps, ClientStutters DEF Next
<1> QED
  BY <1>1, ClientInitially, PTL DEF Spec

\* Of the open connections with the token one at most is registered at an Edge
\* and not going away, and it is the one that gets the streams: whatever
\* registers after it closes it, a connection that was lost meanwhile, too
\* (handle_connector).
THEOREM ClientOneRegistration == Spec => []OneRegistration
<1>1. ClientInv => OneRegistration
  BY Zenon DEF ClientInv, Owners, OneRegistration, Registered
<1> QED
  BY <1>1, ClientInvariant, PTL

\* A new session counts nothing in flight that an earlier one left behind, so
\* its drain waits for its own streams only (serve_streams).
THEOREM ClientSessionsStartClean == Spec => []SessionsStartClean
<1>1. ClientInv => SessionsStartClean
  BY DEF ClientInv, ClientTypes, InSession, SessionsStartClean, InFlight
<1> QED
  BY <1>1, ClientInvariant, PTL

\* The backoff stays within its bounds and no sleep is longer than the largest
\* backoff or the delay after a takeover (run_connection, jittered).
THEOREM ClientWaitsBounded == Spec => []WaitsBounded
<1>1. ClientInv => WaitsBounded
  BY Zenon DEF ClientInv, ClientTypes, Sleeps, WaitsBounded
<1> QED
  BY <1>1, ClientInvariant, PTL
=============================================================================
