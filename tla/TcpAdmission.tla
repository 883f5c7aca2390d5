---------------------------- MODULE TcpAdmission ----------------------------
(***************************************************************************)
(* Admission of raw TCP connections: the accept loop of a listener         *)
(* (serve_raw_tcp), the concurrency slots of the listener and of a client  *)
(* address (admit_tcp, acquire_tcp) and their release when the connection  *)
(* task ends (TcpPermit), while reloads replace the policy.                *)
(*                                                                         *)
(* The counts are two maps; each step below is one locked update of one    *)
(* entry.                                                                  *)
(***************************************************************************)
EXTENDS Integers, FiniteSets

CONSTANTS
    Listeners, Addresses,
    Policies,       \* the configurations that a reload may install
    Connections,    \* connection tasks that may exist at once
    NoAdmission, NoConnection

Permit == SUBSET {"listener", "address"}
Admission == [from : Addresses, policy : Policies,
              stage : {"listener", "address", "denied", "admitted"}, permit : Permit]
Connection == [at : Listeners, from : Addresses, permit : Permit]

ASSUME TcpAssumption ==
    /\ IsFiniteSet(Connections)
    /\ {NoAdmission, NoConnection} \cap (Admission \cup Connection) = {}
    /\ \A p \in Policies : p.perListener \in Nat /\ p.perAddress \in Nat

VARIABLES
    policy,         \* the compiled policy in force
    admission,      \* per listener, the connection that is being admitted
    connection,     \* the connection tasks
    listenerActive, addressActive

tcpVars == <<policy, admission, connection, listenerActive, addressActive>>

TcpInit ==
    /\ policy \in Policies
    /\ admission = [l \in Listeners |-> NoAdmission]
    /\ connection = [c \in Connections |-> NoConnection]
    /\ listenerActive = [l \in Listeners |-> 0]
    /\ addressActive = [k \in Listeners \X Addresses |-> 0]

\* The accepted connection gets a task that owns the permit.
Spawn(l, address, permit) ==
    \E c \in Connections :
        /\ connection[c] = NoConnection
        /\ connection' = [connection EXCEPT ![c] =
                            [at |-> l, from |-> address, permit |-> permit]]

\* verdict.rejects(): a denied connection is closed if the policy is enforced,
\* and only recorded otherwise; it then runs without a permit.
Denied(l, address, enforce) ==
    IF enforce THEN UNCHANGED connection ELSE Spawn(l, address, {})

\* admit_tcp: a blocked address or an empty bucket denies the connection before
\* any slot is taken.
AdmitTcp(l, address) ==
    \/ /\ address \notin policy.blocked
       /\ admission' = [admission EXCEPT ![l] =
              [from |-> address, policy |-> policy, stage |-> "listener", permit |-> {}]]
       /\ UNCHANGED connection
    \/ Denied(l, address, policy.enforce) /\ UNCHANGED admission

\* accept: with the policy disabled there is no permit.
AcceptTcp(l, address) ==
    /\ admission[l] = NoAdmission
    /\ IF policy.enabled
         THEN AdmitTcp(l, address)
         ELSE Spawn(l, address, {}) /\ UNCHANGED admission
    /\ UNCHANGED <<policy, listenerActive, addressActive>>

Slot(l, stage, permit) ==
    admission' = [admission EXCEPT ![l].stage = stage, ![l].permit = permit]

TakeListenerSlot(l) ==
    /\ admission[l] # NoAdmission
    /\ admission[l].stage = "listener"
    /\ LET max == admission[l].policy.perListener
       IN  \/ max = 0 /\ Slot(l, "address", {}) /\ UNCHANGED listenerActive
           \/ /\ max # 0
              /\ listenerActive[l] < max
              /\ listenerActive' = [listenerActive EXCEPT ![l] = @ + 1]
              /\ Slot(l, "address", {"listener"})
           \/ max # 0 /\ listenerActive[l] >= max /\ Slot(l, "denied", {})
              /\ UNCHANGED listenerActive
    /\ UNCHANGED <<policy, connection, addressActive>>

TakeAddressSlot(l) ==
    /\ admission[l] # NoAdmission
    /\ admission[l].stage = "address"
    /\ LET max == admission[l].policy.perAddress
           held == admission[l].permit
           key == <<l, admission[l].from>>
       IN  \/ max = 0 /\ Slot(l, "admitted", held) /\ UNCHANGED addressActive
           \/ /\ max # 0
              /\ addressActive[key] < max
              /\ addressActive' = [addressActive EXCEPT ![key] = @ + 1]
              /\ Slot(l, "admitted", held \cup {"address"})
           \/ max # 0 /\ addressActive[key] >= max /\ Slot(l, "denied", held)
              /\ UNCHANGED addressActive
    /\ UNCHANGED <<policy, connection, listenerActive>>

\* The refused permit is dropped with the slot that it has.
DropRefused(l) ==
    /\ admission[l] # NoAdmission
    /\ admission[l].stage = "denied"
    /\ listenerActive' = IF "listener" \in admission[l].permit
                           THEN [listenerActive EXCEPT ![l] = @ - 1] ELSE listenerActive
    /\ Denied(l, admission[l].from, admission[l].policy.enforce)
    /\ admission' = [admission EXCEPT ![l] = NoAdmission]
    /\ UNCHANGED <<policy, addressActive>>

SpawnAdmitted(l) ==
    /\ admission[l] # NoAdmission
    /\ admission[l].stage = "admitted"
    /\ Spawn(l, admission[l].from, admission[l].permit)
    /\ admission' = [admission EXCEPT ![l] = NoAdmission]
    /\ UNCHANGED <<policy, listenerActive, addressActive>>

\* The task ends: there is no route, the tunnel was not opened, or both sides
\* have closed.  Drop gives the address slot back first.
ReleaseAddress(c) ==
    /\ connection[c] # NoConnection
    /\ "address" \in connection[c].permit
    /\ addressActive' = [addressActive EXCEPT ![<<connection[c].at, connection[c].from>>] = @ - 1]
    /\ connection' = [connection EXCEPT ![c].permit = @ \ {"address"}]
    /\ UNCHANGED <<policy, admission, listenerActive>>

\* Mutant: the slot is given back if the policy in force has that limit.
ReleaseConfigured(c) ==
    /\ connection[c] # NoConnection
    /\ "address" \notin connection[c].permit
    /\ listenerActive' = IF policy.perListener # 0
                           THEN [listenerActive EXCEPT ![connection[c].at] = @ - 1]
                           ELSE listenerActive
    /\ connection' = [connection EXCEPT ![c] = NoConnection]
    /\ UNCHANGED <<policy, admission, addressActive>>

ReleaseListener(c) ==
    /\ connection[c] # NoConnection
    /\ "address" \notin connection[c].permit
    /\ listenerActive' = IF "listener" \in connection[c].permit
                           THEN [listenerActive EXCEPT ![connection[c].at] = @ - 1]
                           ELSE listenerActive
    /\ connection' = [connection EXCEPT ![c] = NoConnection]
    /\ UNCHANGED <<policy, admission, addressActive>>

ReloadTcp ==
    /\ policy' \in Policies \ {policy}
    /\ UNCHANGED <<admission, connection, listenerActive, addressActive>>

TcpNext ==
    \/ \E l \in Listeners :
        \/ \E a \in Addresses : AcceptTcp(l, a)
        \/ TakeListenerSlot(l) \/ TakeAddressSlot(l) \/ DropRefused(l) \/ SpawnAdmitted(l)
    \/ \E c \in Connections : ReleaseAddress(c) \/ ReleaseListener(c)
    \/ ReloadTcp

TcpSpec == TcpInit /\ [][TcpNext]_tcpVars

---------------------------------------------------------------------------
(* Properties *)

Holds(r, kind, addresses) ==
    r \notin {NoAdmission, NoConnection} /\ r.from \in addresses /\ kind \in r.permit

\* The slots that connection tasks and the admission under way hold.
SlotsHeld(kind, l, addresses) ==
    Cardinality({c \in Connections : Holds(connection[c], kind, addresses) /\ connection[c].at = l})
    + (IF Holds(admission[l], kind, addresses) THEN 1 ELSE 0)

\* The counts that limit a listener and a client are exactly the slots held,
\* across refusals halfway and reloads that add or remove a limit: a slot that
\* is lost would lock clients out for ever, one given back twice would void the
\* limit.
CountsMatchPermits ==
    \A l \in Listeners :
        /\ listenerActive[l] = SlotsHeld("listener", l, Addresses)
        /\ \A a \in Addresses : addressActive[<<l, a>>] = SlotsHeld("address", l, {a})

\* Whatever reloads happen while connections are admitted under older policies,
\* no more slots are held at once than the largest limit of all the policies.
TcpLimitsKept(max) ==
    \A l \in Listeners :
        /\ (\A p \in Policies : p.perListener <= max) => SlotsHeld("listener", l, Addresses) <= max
        /\ (\A p \in Policies : p.perAddress <= max) =>
                \A a \in Addresses : SlotsHeld("address", l, {a}) <= max
=============================================================================
