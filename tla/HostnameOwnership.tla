------------------------- MODULE HostnameOwnership -------------------------
(***************************************************************************)
(* Ownership of hostnames in Valkey: the claims the Edges make for their   *)
(* Connectors, the confirmations each Edge caches for the time Valkey is   *)
(* unreachable, and the administrator's ownership commands (valkey.rs,     *)
(* quic_server.rs, main.rs).                                               *)
(*                                                                         *)
(* A claim is a command and its answer: Valkey executes the script at one  *)
(* moment, the Edge learns of it at a later one, and in between the owner  *)
(* may change and time may pass.                                           *)
(***************************************************************************)
EXTENDS Integers, FiniteSets

CONSTANTS
    Edges,
    Owners,        \* the tenants
    Hostnames,
    Tokens,        \* the verified claims: a tenant and its hostnames
    NumClaims,     \* how many authentications are followed
    CacheTTL,      \* OWNERSHIP_CACHE_TTL
    AnswerDelay,   \* longest time an answer takes before the client gives up
    MaxAdmin,      \* bound on the administrator's commands
    NoTenant

Claims == 1..NumClaims

\* Ages above this one are not told apart.
Long == CacheTTL + AnswerDelay + 1

ASSUME OwnershipAssumption ==
    /\ Tokens \subseteq [tenant : Owners, hostnames : SUBSET Hostnames]
    /\ NumClaims \in Nat
    /\ CacheTTL \in Nat
    /\ AnswerDelay \in Nat
    /\ MaxAdmin \in Nat
    /\ NoTenant \notin Owners

VARIABLES
    owner,        \* Valkey: hostname -> owning tenant
    confirmed,    \* edge -> hostname -> the tenant last confirmed, and when
    claimPc,      \* where a claim is
    claim,        \* its Edge and token, and how long its answer is under way
    late,         \* commands the Edge gave up on that may still reach Valkey
    since,        \* history: tenant -> hostname -> time since it was the owner
    admin         \* administrative changes made so far

ownershipVars == <<owner, confirmed, claimPc, claim, late, since, admin>>

Unconfirmed == [tenant |-> NoTenant, age |-> Long]

NoClaim == [edge |-> NoTenant, tenant |-> NoTenant, hostnames |-> {}, waited |-> 0]

OwnershipInit ==
    /\ owner = [h \in Hostnames |-> NoTenant]
    /\ confirmed = [e \in Edges |-> [h \in Hostnames |-> Unconfirmed]]
    /\ claimPc = [c \in Claims |-> "idle"]
    /\ claim = [c \in Claims |-> NoClaim]
    /\ late = {}
    /\ since = [t \in Owners |-> [h \in Hostnames |-> Long]]
    /\ admin = 0

ClaimGoto(c, stage) == claimPc' = [claimPc EXCEPT ![c] = stage]

\* The history of ownership after the owner has changed.
Owned(newOwner) ==
    since' = [t \in Owners |-> [h \in Hostnames |->
                IF newOwner[h] = t THEN 0 ELSE since[t][h]]]

---------------------------------------------------------------------------
(* claim_hostnames *)

\* A Connector presented a valid token to an Edge, which sends the script.
Send(c) ==
    /\ claimPc[c] = "idle"
    /\ \A d \in Claims : d < c => claimPc[d] # "idle"
    /\ \E e \in Edges, token \in Tokens :
        claim' = [claim EXCEPT ![c] = [edge |-> e, tenant |-> token.tenant,
                                       hostnames |-> token.hostnames, waited |-> 0]]
    /\ ClaimGoto(c, "sent")
    /\ UNCHANGED <<owner, confirmed, late, since, admin>>

\* Mutant: the script sets the hostnames without looking at their owners.
NeverTaken(token) == FALSE

\* The first loop of CLAIM_SCRIPT: a hostname has another owner.
TakenByOther(token) == \E h \in token.hostnames : owner[h] \notin {NoTenant, token.tenant}

\* Mutant: the script sets its first hostname only.
SetOne(token) ==
    IF token.hostnames = {} THEN owner
    ELSE [owner EXCEPT ![CHOOSE h \in token.hostnames : TRUE] = token.tenant]

\* Its second loop: SET NX of every hostname.
SetNX(token) ==
    [h \in Hostnames |-> IF h \in token.hostnames /\ owner[h] = NoTenant
                           THEN token.tenant ELSE owner[h]]

\* CLAIM_SCRIPT, which Valkey runs atomically.
ClaimScript(token) ==
    /\ owner' = IF TakenByOther(token) THEN owner ELSE SetNX(token)
    /\ Owned(owner')

\* Valkey runs the script of a claim that is waited for.
Execute(c) ==
    /\ claimPc[c] = "sent"
    /\ ClaimScript(claim[c])
    /\ ClaimGoto(c, IF TakenByOther(claim[c]) THEN "conflict" ELSE "granted")
    /\ UNCHANGED <<confirmed, claim, late, admin>>

\* Valkey is unreachable, or the answer does not arrive in time.  A command
\* that was not executed yet may be executed after the Edge gave up on it.
Unavailable(c) ==
    /\ claimPc[c] \in {"sent", "conflict", "granted"}
    /\ ClaimGoto(c, "error")
    /\ claim' = [claim EXCEPT ![c].waited = 0]
    /\ \/ UNCHANGED late
       \/ /\ claimPc[c] = "sent"
          /\ late' = late \cup {[tenant |-> claim[c].tenant, hostnames |-> claim[c].hostnames]}
    /\ UNCHANGED <<owner, confirmed, since, admin>>

\* Valkey runs a script nobody waits for any more.
ExecuteLate(token) ==
    /\ token \in late
    /\ ClaimScript(token)
    /\ late' = late \ {token}
    /\ UNCHANGED <<confirmed, claimPc, claim, admin>>

\* Claimed: the confirmations are stored when the answer arrives.
Confirm(c) ==
    /\ claimPc[c] = "granted"
    /\ confirmed' = [confirmed EXCEPT ![claim[c].edge] =
                       [h \in Hostnames |->
                          IF h \in claim[c].hostnames
                            THEN [tenant |-> claim[c].tenant, age |-> 0]
                            ELSE @[h]]]
    /\ ClaimGoto(c, "accepted")
    /\ claim' = [claim EXCEPT ![c].waited = 0]
    /\ UNCHANGED <<owner, late, since, admin>>

\* Conflict: the Connector is rejected; the cache is left as it is.
Refuse(c) ==
    /\ claimPc[c] = "conflict"
    /\ ClaimGoto(c, "rejected")
    /\ claim' = [claim EXCEPT ![c] = NoClaim]
    /\ UNCHANGED <<owner, confirmed, late, since, admin>>

\* Mutant: the retain is forgotten.
NeverExpires(confirmation) == confirmation

\* The retain of previously_confirmed.
Retain(confirmation) == IF confirmation.age <= CacheTTL THEN confirmation ELSE Unconfirmed

AllConfirmed(c, cache) ==
    \A h \in claim[c].hostnames : cache[h].tenant = claim[c].tenant

\* Without an answer only ownership confirmed earlier is accepted.
Fallback(c) ==
    LET cache == [h \in Hostnames |-> Retain(confirmed[claim[c].edge][h])]
    IN  /\ claimPc[c] = "error"
        /\ confirmed' = [confirmed EXCEPT ![claim[c].edge] = cache]
        /\ IF AllConfirmed(c, cache)
             THEN ClaimGoto(c, "accepted") /\ UNCHANGED claim
             ELSE ClaimGoto(c, "rejected") /\ claim' = [claim EXCEPT ![c] = NoClaim]
        /\ UNCHANGED <<owner, late, since, admin>>

\* The Connector goes away.
Leave(c) ==
    /\ claimPc[c] = "accepted"
    /\ ClaimGoto(c, "left")
    /\ claim' = [claim EXCEPT ![c] = NoClaim]
    /\ UNCHANGED <<owner, confirmed, late, since, admin>>

---------------------------------------------------------------------------
(* The owner command, run by an administrator in a process of its own: its
   compare-and-set touches Valkey only, not the caches of the Edges *)

ChangeOwner(h, expected, new) ==
    /\ admin < MaxAdmin
    /\ owner[h] = expected
    /\ owner' = [owner EXCEPT ![h] = new]
    /\ Owned(owner')
    /\ admin' = admin + 1
    /\ UNCHANGED <<confirmed, claimPc, claim, late>>

ReleaseHostname(h) == \E t \in Owners : ChangeOwner(h, t, NoTenant)

TransferHostname(h) == \E t \in Owners, u \in Owners : t # u /\ ChangeOwner(h, t, u)

\* The administrator's owner_command; get changes nothing.
OwnerCommand == \E h \in Hostnames : ReleaseHostname(h) \/ TransferHostname(h)

---------------------------------------------------------------------------

OlderAge(age) == IF age < Long THEN age + 1 ELSE Long

\* Time passes; an answer that is under way for too long has been given up.
OwnershipTick ==
    /\ \A c \in Claims : claimPc[c] \in {"granted", "conflict"} => claim[c].waited < AnswerDelay
    /\ confirmed' = [e \in Edges |-> [h \in Hostnames |->
                       [confirmed[e][h] EXCEPT !.age = OlderAge(@)]]]
    /\ claim' = [c \in Claims |->
                   IF claimPc[c] \in {"granted", "conflict"}
                     THEN [claim[c] EXCEPT !.waited = @ + 1] ELSE claim[c]]
    /\ since' = [t \in Owners |-> [h \in Hostnames |->
                   IF owner[h] = t THEN 0 ELSE OlderAge(since[t][h])]]
    /\ UNCHANGED <<owner, claimPc, late, admin>>

ClaimStep(c) ==
    \/ Send(c) \/ Execute(c) \/ Unavailable(c)
    \/ Confirm(c) \/ Refuse(c) \/ Fallback(c) \/ Leave(c)

OwnershipNext ==
    \/ \E c \in Claims : ClaimStep(c)
    \/ \E token \in Tokens : ExecuteLate(token)
    \/ OwnerCommand
    \/ OwnershipTick

OwnershipSpec == OwnershipInit /\ [][OwnershipNext]_ownershipVars

---------------------------------------------------------------------------
(* Properties *)

\* As long as no administrator interferes, the Connectors that any two Edges
\* accept for a hostname belong to one tenant, also while Valkey is down.
NoSharedHostname ==
    admin = 0 =>
        \A c, d \in Claims :
            claimPc[c] = "accepted" /\ claimPc[d] = "accepted"
                /\ claim[c].hostnames \cap claim[d].hostnames # {}
            => claim[c].tenant = claim[d].tenant

\* A cached confirmation names the tenant that owned the hostname at most its
\* own age and one answer's delay ago.
ConfirmationWasTrue ==
    \A e \in Edges, h \in Hostnames :
        LET c == confirmed[e][h]
        IN  c.age <= CacheTTL /\ c.tenant # NoTenant => since[c.tenant][h] <= c.age + AnswerDelay

\* An Edge accepts a tenant for a hostname only if the tenant was its owner not
\* longer ago than the cache keeps a confirmation, plus an answer's delay: a
\* transfer takes effect on every Edge within that time, outage or not.
AcceptedWasOwner ==
    [][\A c \in Claims :
          claimPc[c] # "accepted" /\ claimPc'[c] = "accepted" =>
              \A h \in claim[c].hostnames :
                  since[claim[c].tenant][h] <= CacheTTL + AnswerDelay]_ownershipVars
=============================================================================
