------------------------------- MODULE Http01 -------------------------------
(***************************************************************************)
(* HTTP-01 validation in a cluster.  The CA may ask any Edge, so the Edge  *)
(* that orders publishes its response in Valkey and waits until every Edge *)
(* that answers challenges has confirmed it; each Edge runs a sync loop that *)
(* serves, confirms and later drops what others have published.            *)
(*                                                                         *)
(* One order per token; the token stands for the domain, token and key     *)
(* authorization of its challenge.                                         *)
(***************************************************************************)
EXTENDS Lease, FiniteSets

CONSTANTS Tokens,        \* the challenges of the orders of one behaviour
          MaxHttpFaults  \* bound: crashes and failed Valkey calls

ASSUME Http01Assumption == NoEdge \notin Edges

VARIABLES up,          \* the Edges that run
          live,        \* Valkey: Edges whose presence has not expired
          responders,  \* Valkey: Edges announced as HTTP-01 responders
          pending,     \* Valkey: published challenges
          acks,        \* Valkey: the Edges that confirmed each challenge
          responses,   \* the challenges each Edge answers
          synced,      \* those of them its sync loop has inserted
          round,       \* what the current sync round of each Edge has read
          todo,        \* what is left of it to serve
          confirming,  \* the challenges it serves and has not confirmed yet
          syncing,     \* the Edges in the middle of a round
          hpc,         \* the step of each order
          orderer,     \* the Edge of each order that runs
          seen,        \* the live responders the order has read
          crashed,     \* history: Edges that died since a running order published
          httpFaults

httpVars == <<up, live, responders, pending, acks, responses, synced, round, todo,
              confirming, syncing, hpc, orderer, seen, crashed, httpFaults>>

HttpInit ==
    /\ up = Edges /\ live = {} /\ responders = {} /\ pending = {}
    /\ acks = [t \in Tokens |-> {}]
    /\ responses = [e \in Edges |-> {}] /\ synced = [e \in Edges |-> {}]
    /\ round = [e \in Edges |-> {}] /\ todo = [e \in Edges |-> {}]
    /\ confirming = [e \in Edges |-> {}] /\ syncing = {}
    /\ hpc = [t \in Tokens |-> "idle"]
    /\ orderer = [t \in Tokens |-> NoEdge]
    /\ seen = [t \in Tokens |-> {}] /\ crashed = [t \in Tokens |-> {}]
    /\ httpFaults = 0

HttpFault == httpFaults < MaxHttpFaults /\ httpFaults' = httpFaults + 1

Step(t, from, to) == hpc[t] = from /\ hpc' = [hpc EXCEPT ![t] = to]

valkeyState == <<live, responders, pending, acks>>
syncState == <<synced, round, todo, confirming, syncing>>

-----------------------------------------------------------------------------
(* The order: complete_order, distribute_http01, cleanup *)

\* The orderer answers the challenge itself before anybody else can.
StartOrder(t, e) ==
    /\ e \in up
    /\ Step(t, "idle", "publish")
    /\ orderer' = [orderer EXCEPT ![t] = e]
    /\ responses' = [responses EXCEPT ![e] = @ \cup {t}]
    /\ UNCHANGED <<up, valkeyState, syncState, seen, crashed, httpFaults>>

\* publish_http01, one transaction: the value and the orderer's own ack.
PublishHttp01(t) ==
    /\ Step(t, "publish", "look")
    /\ pending' = pending \cup {t}
    /\ acks' = [acks EXCEPT ![t] = {orderer[t]}]
    /\ crashed' = [crashed EXCEPT ![t] = {}]
    /\ UNCHANGED <<up, live, responders, responses, syncState, orderer, seen,
                   httpFaults>>

\* The transaction fails, or only its answer is lost.
PublishFails(t) ==
    /\ HttpFault
    /\ Step(t, "publish", "cleanup")
    /\ pending' \in {pending, pending \cup {t}}
    /\ UNCHANGED <<up, live, responders, acks, responses, syncState, orderer,
                   seen, crashed>>

\* distribute_http01 reads who has to confirm ...
Look(t) ==
    /\ Step(t, "look", "count")
    /\ seen' = [seen EXCEPT ![t] = live \cap responders]
    /\ UNCHANGED <<up, valkeyState, responses, syncState, orderer, crashed, httpFaults>>

\* ... and then who has: everybody, and the CA is told to validate.
Count(t) ==
    /\ seen[t] \subseteq acks[t]
    /\ Step(t, "count", "ready")
    /\ UNCHANGED <<up, valkeyState, responses, syncState, orderer, seen, crashed, httpFaults>>

\* Some are missing: look again.  The deadline is a time-out like that of the
\* whole order (DropOwn).
CountMissing(t) ==
    /\ ~ seen[t] \subseteq acks[t]
    /\ Step(t, "count", "look")
    /\ seen' = [seen EXCEPT ![t] = {}]
    /\ UNCHANGED <<up, valkeyState, responses, syncState, orderer, crashed, httpFaults>>

\* The order is over: validated, failed or cut off by a time-out in whatever
\* step.  cleanup drops the orderer's response ...
DropOwn(t) ==
    /\ hpc[t] \in {"publish", "look", "count", "ready", "cleanup"}
    /\ hpc' = [hpc EXCEPT ![t] = "unpublish"]
    /\ responses' = [responses EXCEPT ![orderer[t]] = @ \ {t}]
    /\ seen' = [seen EXCEPT ![t] = {}]
    /\ UNCHANGED <<up, valkeyState, syncState, orderer, crashed, httpFaults>>

OrderOver(t) ==
    /\ Step(t, "unpublish", "done")
    /\ orderer' = [orderer EXCEPT ![t] = NoEdge]
    /\ crashed' = [crashed EXCEPT ![t] = {}]

\* ... and removes the challenge from Valkey with its acks.
UnpublishHttp01(t) ==
    /\ OrderOver(t)
    /\ pending' = pending \ {t}
    /\ acks' = [acks EXCEPT ![t] = {}]
    /\ UNCHANGED <<up, live, responders, responses, syncState, seen, httpFaults>>

UnpublishFails(t) ==
    /\ HttpFault
    /\ OrderOver(t)
    /\ UNCHANGED <<up, valkeyState, responses, syncState, seen>>

\* A challenge that was left behind expires in Valkey; its time to live is
\* longer than an order may take.
PendingExpires(t) ==
    /\ hpc[t] = "done" /\ t \in pending
    /\ pending' = pending \ {t}
    /\ UNCHANGED <<up, live, responders, acks, responses, syncState, hpc, orderer,
                   seen, crashed, httpFaults>>

-----------------------------------------------------------------------------
(* The sync loop of an Edge: sync_http01_challenges *)

\* pending_http01 starts a round.  A failed read leaves everything as it is.
ReadPending(e) ==
    /\ e \in up /\ e \notin syncing
    /\ syncing' = syncing \cup {e}
    /\ round' = [round EXCEPT ![e] = pending]
    /\ todo' = [todo EXCEPT ![e] = pending]
    /\ UNCHANGED <<up, valkeyState, responses, synced, confirming, hpc, orderer,
                   seen, crashed, httpFaults>>

\* Mutant: what the loop has inserted is not remembered.
ServeUntracked(e, t) ==
    /\ e \in up /\ confirming[e] = {} /\ t \in todo[e]
    /\ todo' = [todo EXCEPT ![e] = @ \ {t}]
    /\ confirming' = [confirming EXCEPT ![e] = {t}]
    /\ responses' = [responses EXCEPT ![e] = @ \cup {t}]
    /\ UNCHANGED <<up, valkeyState, synced, round, syncing, hpc, orderer, seen,
                   crashed, httpFaults>>

\* A challenge nobody on this Edge answers yet is inserted and remembered.
Serve(e, t) ==
    /\ e \in up /\ confirming[e] = {} /\ t \in todo[e]
    /\ todo' = [todo EXCEPT ![e] = @ \ {t}]
    /\ confirming' = [confirming EXCEPT ![e] = {t}]
    /\ IF t \in responses[e]
       THEN UNCHANGED <<responses, synced>>
       ELSE /\ responses' = [responses EXCEPT ![e] = @ \cup {t}]
            /\ synced' = [synced EXCEPT ![e] = @ \cup {t}]
    /\ UNCHANGED <<up, valkeyState, round, syncing, hpc, orderer, seen, crashed,
                   httpFaults>>

\* ack_http01; a late one recreates the acks of a challenge that is gone.
Confirm(e, t) ==
    /\ e \in up /\ t \in confirming[e]
    /\ confirming' = [confirming EXCEPT ![e] = {}]
    /\ \/ acks' = [acks EXCEPT ![t] = @ \cup {e}] /\ UNCHANGED httpFaults
       \/ HttpFault /\ UNCHANGED acks
    /\ UNCHANGED <<up, live, responders, pending, responses, synced, round, todo,
                   syncing, hpc, orderer, seen, crashed>>

\* Mutant: every response that is not published is dropped, an own one too.
RetainPublished(e) ==
    /\ e \in syncing /\ todo[e] = {} /\ confirming[e] = {}
    /\ responses' = [responses EXCEPT ![e] = @ \cap round[e]]
    /\ synced' = [synced EXCEPT ![e] = @ \cap round[e]]
    /\ round' = [round EXCEPT ![e] = {}]
    /\ syncing' = syncing \ {e}
    /\ UNCHANGED <<up, valkeyState, todo, confirming, hpc, orderer, seen, crashed,
                   httpFaults>>

\* The end of a round: what is no longer published is no longer answered.
Retain(e) ==
    /\ e \in syncing /\ todo[e] = {} /\ confirming[e] = {}
    /\ responses' = [responses EXCEPT ![e] = @ \ (synced[e] \ round[e])]
    /\ synced' = [synced EXCEPT ![e] = @ \cap round[e]]
    /\ round' = [round EXCEPT ![e] = {}]
    /\ syncing' = syncing \ {e}
    /\ UNCHANGED <<up, valkeyState, todo, confirming, hpc, orderer, seen, crashed,
                   httpFaults>>

\* heartbeat_presence and heartbeat_http01_responder.
Heartbeat(e) ==
    /\ e \in up
    /\ \/ live' = live \cup {e} /\ UNCHANGED responders
       \/ responders' = responders \cup {e} /\ UNCHANGED live
    /\ UNCHANGED <<up, pending, acks, responses, syncState, hpc, orderer, seen,
                   crashed, httpFaults>>

\* The announcements of an Edge that is down expire.
AnnouncementExpires(e) ==
    /\ e \notin up
    /\ \/ e \in live /\ live' = live \ {e} /\ UNCHANGED responders
       \/ e \in responders /\ responders' = responders \ {e} /\ UNCHANGED live
    /\ UNCHANGED <<up, pending, acks, responses, syncState, hpc, orderer, seen,
                   crashed, httpFaults>>

\* A shutdown withdraws the announcements; a crash leaves them to expire.
\* Either way the responses are gone and the Edge's own orders end without
\* cleanup.
Stop(e) ==
    /\ e \in up /\ HttpFault
    /\ up' = up \ {e}
    /\ \/ UNCHANGED <<live, responders>>
       \/ live' = live \ {e} /\ responders' = responders \ {e}
    /\ responses' = [responses EXCEPT ![e] = {}]
    /\ synced' = [synced EXCEPT ![e] = {}] /\ round' = [round EXCEPT ![e] = {}]
    /\ todo' = [todo EXCEPT ![e] = {}] /\ confirming' = [confirming EXCEPT ![e] = {}]
    /\ syncing' = syncing \ {e}
    /\ hpc' = [t \in Tokens |-> IF orderer[t] = e THEN "done" ELSE hpc[t]]
    /\ seen' = [t \in Tokens |-> IF orderer[t] = e THEN {} ELSE seen[t]]
    /\ orderer' = [t \in Tokens |-> IF orderer[t] = e THEN NoEdge ELSE orderer[t]]
    /\ crashed' = [t \in Tokens |-> IF orderer'[t] = NoEdge THEN {} ELSE crashed[t] \cup {e}]
    /\ UNCHANGED <<pending, acks>>

Boot(e) ==
    /\ e \notin up /\ up' = up \cup {e}
    /\ UNCHANGED <<valkeyState, responses, syncState, hpc, orderer, seen, crashed,
                   httpFaults>>

-----------------------------------------------------------------------------

Sync(e) == ReadPending(e) \/ Retain(e) \/ \E t \in Tokens : Serve(e, t) \/ Confirm(e, t)

EndOrder(t) == DropOwn(t) \/ UnpublishHttp01(t)

HttpNext ==
    \/ \E t \in Tokens :
          \/ \E e \in Edges : StartOrder(t, e)
          \/ PublishHttp01(t) \/ PublishFails(t) \/ Look(t) \/ Count(t)
          \/ CountMissing(t) \/ EndOrder(t) \/ UnpublishFails(t) \/ PendingExpires(t)
    \/ \E e \in Edges :
          Sync(e) \/ Heartbeat(e) \/ AnnouncementExpires(e) \/ Stop(e) \/ Boot(e)

HttpSpec == HttpInit /\ [][HttpNext]_httpVars

-----------------------------------------------------------------------------
(* Properties *)

\* When the CA is told to validate, every Edge the order has counted answers
\* the challenge, and goes on answering it until the order is over: a
\* confirmation is never older than the response it stands for.  An Edge that
\* has been restarted since is the exception; it answers again after its next
\* sync round.
ConfirmedIsServed ==
    \A t \in Tokens : hpc[t] = "ready" =>
        \A e \in seen[t] \ crashed[t] : t \in responses[e]

\* After an order no Edge keeps answering for its token, also when an Edge
\* inserted it late from a round read before the challenge was removed:
\* requests for the hostname belong to the tenant again.
ResponsesWithdrawn ==
    \A t \in Tokens : (hpc[t] = "done") ~> (\A e \in Edges : t \notin responses[e])
=============================================================================
