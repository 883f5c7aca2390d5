----------------------------- MODULE AcmeProofs -----------------------------
(***************************************************************************)
(* The ACME manager, for any number of Edges, orders, generations, crashes *)
(* and failed calls.                                                       *)
(*                                                                         *)
(* HTTP-01: what an Edge has confirmed it answers, because a sync round    *)
(* that began after the publication has read the challenge, so that its    *)
(* end does not withdraw it (Answered), and because the orderer's own      *)
(* response is none of its sync loop's (OwnAnswer).                        *)
(*                                                                         *)
(* DNS-01: while an order adds its value or relies on it, nobody else      *)
(* works on that value (Exclusive): the order has the lease, and a         *)
(* starting Edge cleans up only what has been journaled before and nobody  *)
(* else has a lease of. Each step changes the value of its own task only   *)
(* (ReplaceDoes).                                                          *)
(*                                                                         *)
(* Orders: the Edges that share a certificate store implement the register *)
(* of CertRegister. Nothing there rests on the lease: it may be lost,      *)
(* expire under its holder or start over. A writer compares its generation *)
(* with the pointer under the file lock (WriterInv), and the pointer is    *)
(* the newest of all that were ever published (StoreInv), so that what is  *)
(* stored is newer than all before it, and whoever looks at the store      *)
(* never finds anything older than what it serves.                         *)
(***************************************************************************)
EXTENDS Acme, TLAPS

---------------------------------------------------------------------------
(* HTTP-01 *)

HttpSteps == {"idle", "publish", "look", "count", "ready", "cleanup", "unpublish", "done"}

\* The steps of an order between its publication and its end.
Published == {"look", "count", "ready"}

HttpTypes ==
    /\ up \subseteq Edges /\ syncing \subseteq Edges /\ pending \subseteq Tokens
    /\ live \subseteq Edges /\ responders \subseteq Edges
    /\ acks \in [Tokens -> SUBSET Edges]
    /\ responses \in [Edges -> SUBSET Tokens] /\ synced \in [Edges -> SUBSET Tokens]
    /\ round \in [Edges -> SUBSET Tokens] /\ todo \in [Edges -> SUBSET Tokens]
    /\ confirming \in [Edges -> SUBSET Tokens]
    /\ hpc \in [Tokens -> HttpSteps]
    /\ orderer \in [Tokens -> Edges \cup {NoEdge}]
    /\ seen \in [Tokens -> SUBSET Edges] /\ crashed \in [Tokens -> SUBSET Edges]

\* What is not published yet has not been read by any sync loop.
Unheard(t, e) ==
    hpc[t] \in {"idle", "publish"} =>
        t \notin pending /\ t \notin synced[e] /\ t \notin round[e] /\ t \notin confirming[e]

\* The orderer answers its own challenge, and not on behalf of its sync loop.
OwnAnswer(t) ==
    hpc[t] \in Published \cup {"publish"} =>
        /\ orderer[t] \in Edges
        /\ t \in responses[orderer[t]] /\ t \notin synced[orderer[t]]

\* The end of a round does not withdraw what is still published, since that
\* round has read it; what an Edge confirms, or has confirmed, it answers.
Answered(t, e) ==
    hpc[t] \in Published =>
        /\ t \in pending
        /\ e \in syncing /\ t \in synced[e] => t \in round[e]
        /\ t \in confirming[e] => t \in responses[e]
        /\ e \in acks[t] \ crashed[t] => t \in responses[e]

HttpInv ==
    /\ HttpTypes
    /\ \A e \in Edges : todo[e] \subseteq round[e]
    /\ \A t \in Tokens :
        /\ hpc[t] = "ready" => seen[t] \subseteq acks[t]
        /\ OwnAnswer(t)
        /\ \A e \in Edges : Unheard(t, e) /\ Answered(t, e)

\* complete_order inserts the response before anything is published.
LEMMA StartOrderKeeps ==
    ASSUME HttpInv, NEW t \in Tokens, NEW e \in Edges, StartOrder(t, e)
    PROVE  HttpInv'
<1> USE DEF HttpInv, StartOrder, Step, valkeyState, syncState
<1>1. HttpTypes'
  BY Zenon DEF HttpTypes, HttpSteps
<1>2. ASSUME NEW x \in Edges PROVE todo'[x] \subseteq round'[x]
  BY Zenon DEF HttpTypes
<1>3. ASSUME NEW u \in Tokens PROVE hpc'[u] = "ready" => seen'[u] \subseteq acks'[u]
  BY Zenon DEF HttpTypes
<1>4. ASSUME NEW u \in Tokens PROVE OwnAnswer(u)'
  BY DEF HttpTypes, OwnAnswer, Unheard, Published
<1>5. ASSUME NEW u \in Tokens, NEW x \in Edges PROVE Unheard(u, x)'
  BY DEF HttpTypes, Unheard
<1>6. ASSUME NEW u \in Tokens, NEW x \in Edges PROVE Answered(u, x)'
  BY DEF HttpTypes, OwnAnswer, Unheard, Answered, Published
<1> QED
  BY Zenon, <1>1, <1>2, <1>3, <1>4, <1>5, <1>6

\* publish_http01: the orderer, which answers, is the only one that confirmed.
LEMMA PublishHttp01Keeps ==
    ASSUME HttpInv, NEW t \in Tokens, PublishHttp01(t)
    PROVE  HttpInv'
<1> USE DEF HttpInv, PublishHttp01, Step, valkeyState, syncState
<1>1. HttpTypes'
  BY DEF HttpTypes, HttpSteps, OwnAnswer
<1>2. ASSUME NEW x \in Edges PROVE todo'[x] \subseteq round'[x]
  BY Zenon DEF HttpTypes
<1>3. ASSUME NEW u \in Tokens PROVE hpc'[u] = "ready" => seen'[u] \subseteq acks'[u]
  BY Zenon DEF HttpTypes
<1>4. ASSUME NEW u \in Tokens PROVE OwnAnswer(u)'
  BY DEF HttpTypes, OwnAnswer, Unheard, Published
<1>5. ASSUME NEW u \in Tokens, NEW x \in Edges PROVE Unheard(u, x)'
  BY DEF HttpTypes, Unheard
<1>6. ASSUME NEW u \in Tokens, NEW x \in Edges PROVE Answered(u, x)'
  BY DEF HttpTypes, OwnAnswer, Unheard, Answered, Published
<1> QED
  BY Zenon, <1>1, <1>2, <1>3, <1>4, <1>5, <1>6

\* A failed publication is followed by cleanup only.
LEMMA PublishFailsKeeps ==
    ASSUME HttpInv, NEW t \in Tokens, PublishFails(t)
    PROVE  HttpInv'
<1> USE DEF HttpInv, PublishFails, Step, HttpFault, valkeyState, syncState
<1>1. HttpTypes'
  BY Zenon DEF HttpTypes, HttpSteps
<1>2. ASSUME NEW x \in Edges PROVE todo'[x] \subseteq round'[x]
  BY Zenon DEF HttpTypes
<1>3. ASSUME NEW u \in Tokens PROVE hpc'[u] = "ready" => seen'[u] \subseteq acks'[u]
  BY Zenon DEF HttpTypes
<1>4. ASSUME NEW u \in Tokens PROVE OwnAnswer(u)'
  BY DEF HttpTypes, OwnAnswer, Unheard, Published
<1>5. ASSUME NEW u \in Tokens, NEW x \in Edges PROVE Unheard(u, x)'
  BY DEF HttpTypes, Unheard
<1>6. ASSUME NEW u \in Tokens, NEW x \in Edges PROVE Answered(u, x)'
  BY DEF HttpTypes, OwnAnswer, Unheard, Answered, Published
<1> QED
  BY Zenon, <1>1, <1>2, <1>3, <1>4, <1>5, <1>6

\* distribute_http01 reads the responders.
LEMMA LookKeeps ==
    ASSUME HttpInv, NEW t \in Tokens, Look(t)
    PROVE  HttpInv'
<1> USE DEF HttpInv, Look, Step, valkeyState, syncState
<1>1. HttpTypes'
  BY Zenon DEF HttpTypes, HttpSteps
<1>2. ASSUME NEW x \in Edges PROVE todo'[x] \subseteq round'[x]
  BY Zenon DEF HttpTypes
<1>3. ASSUME NEW u \in Tokens PROVE hpc'[u] = "ready" => seen'[u] \subseteq acks'[u]
  BY Zenon DEF HttpTypes
<1>4. ASSUME NEW u \in Tokens PROVE OwnAnswer(u)'
  BY DEF HttpTypes, OwnAnswer, Unheard, Published
<1>5. ASSUME NEW u \in Tokens, NEW x \in Edges PROVE Unheard(u, x)'
  BY DEF HttpTypes, Unheard
<1>6. ASSUME NEW u \in Tokens, NEW x \in Edges PROVE Answered(u, x)'
  BY DEF HttpTypes, OwnAnswer, Unheard, Answered, Published
<1> QED
  BY Zenon, <1>1, <1>2, <1>3, <1>4, <1>5, <1>6

\* All of them have confirmed.
LEMMA CountKeeps ==
    ASSUME HttpInv, NEW t \in Tokens, Count(t)
    PROVE  HttpInv'
<1> USE DEF HttpInv, Count, Step, valkeyState, syncState
<1>1. HttpTypes'
  BY Zenon DEF HttpTypes, HttpSteps
<1>2. ASSUME NEW x \in Edges PROVE todo'[x] \subseteq round'[x]
  BY Zenon DEF HttpTypes
<1>3. ASSUME NEW u \in Tokens PROVE hpc'[u] = "ready" => seen'[u] \subseteq acks'[u]
  BY Zenon DEF HttpTypes
<1>4. ASSUME NEW u \in Tokens PROVE OwnAnswer(u)'
  BY DEF HttpTypes, OwnAnswer, Unheard, Published
<1>5. ASSUME NEW u \in Tokens, NEW x \in Edges PROVE Unheard(u, x)'
  BY DEF HttpTypes, Unheard
<1>6. ASSUME NEW u \in Tokens, NEW x \in Edges PROVE Answered(u, x)'
  BY DEF HttpTypes, OwnAnswer, Unheard, Answered, Published
<1> QED
  BY Zenon, <1>1, <1>2, <1>3, <1>4, <1>5, <1>6

\* Some have not.
LEMMA CountMissingKeeps ==
    ASSUME HttpInv, NEW t \in Tokens, CountMissing(t)
    PROVE  HttpInv'
<1> USE DEF HttpInv, CountMissing, Step, valkeyState, syncState
<1>1. HttpTypes'
  BY Zenon DEF HttpTypes, HttpSteps
<1>2. ASSUME NEW x \in Edges PROVE todo'[x] \subseteq round'[x]
  BY Zenon DEF HttpTypes
<1>3. ASSUME NEW u \in Tokens PROVE hpc'[u] = "ready" => seen'[u] \subseteq acks'[u]
  BY Zenon DEF HttpTypes
<1>4. ASSUME NEW u \in Tokens PROVE OwnAnswer(u)'
  BY DEF HttpTypes, OwnAnswer, Unheard, Published
<1>5. ASSUME NEW u \in Tokens, NEW x \in Edges PROVE Unheard(u, x)'
  BY DEF HttpTypes, Unheard
<1>6. ASSUME NEW u \in Tokens, NEW x \in Edges PROVE Answered(u, x)'
  BY DEF HttpTypes, OwnAnswer, Unheard, Answered, Published
<1> QED
  BY Zenon, <1>1, <1>2, <1>3, <1>4, <1>5, <1>6

\* The orderer stops answering when the order is over.
LEMMA DropOwnKeeps ==
    ASSUME HttpInv, NEW t \in Tokens, DropOwn(t)
    PROVE  HttpInv'
<1> USE DEF HttpInv, DropOwn, valkeyState, syncState
<1>1. HttpTypes'
  BY Zenon DEF HttpTypes, HttpSteps
<1>2. ASSUME NEW x \in Edges PROVE todo'[x] \subseteq round'[x]
  BY Zenon DEF HttpTypes
<1>3. ASSUME NEW u \in Tokens PROVE hpc'[u] = "ready" => seen'[u] \subseteq acks'[u]
  BY Zenon DEF HttpTypes
<1>4. ASSUME NEW u \in Tokens PROVE OwnAnswer(u)'
  BY DEF HttpTypes, OwnAnswer, Unheard, Published
<1>5. ASSUME NEW u \in Tokens, NEW x \in Edges PROVE Unheard(u, x)'
  BY DEF HttpTypes, Unheard
<1>6. ASSUME NEW u \in Tokens, NEW x \in Edges PROVE Answered(u, x)'
  BY DEF HttpTypes, OwnAnswer, Unheard, Answered, Published
<1> QED
  BY Zenon, <1>1, <1>2, <1>3, <1>4, <1>5, <1>6

\* cleanup_http01 removes the challenge and its acks.
LEMMA UnpublishHttp01Keeps ==
    ASSUME HttpInv, NEW t \in Tokens, UnpublishHttp01(t)
    PROVE  HttpInv'
<1> USE DEF HttpInv, UnpublishHttp01, OrderOver, Step, valkeyState, syncState
<1>1. HttpTypes'
  BY Zenon DEF HttpTypes, HttpSteps
<1>2. ASSUME NEW x \in Edges PROVE todo'[x] \subseteq round'[x]
  BY Zenon DEF HttpTypes
<1>3. ASSUME NEW u \in Tokens PROVE hpc'[u] = "ready" => seen'[u] \subseteq acks'[u]
  BY Zenon DEF HttpTypes
<1>4. ASSUME NEW u \in Tokens PROVE OwnAnswer(u)'
  BY DEF HttpTypes, OwnAnswer, Unheard, Published
<1>5. ASSUME NEW u \in Tokens, NEW x \in Edges PROVE Unheard(u, x)'
  BY DEF HttpTypes, Unheard
<1>6. ASSUME NEW u \in Tokens, NEW x \in Edges PROVE Answered(u, x)'
  BY SMTT(30) DEF HttpTypes, OwnAnswer, Unheard, Answered, Published
<1> QED
  BY Zenon, <1>1, <1>2, <1>3, <1>4, <1>5, <1>6

\* ... or fails to.
LEMMA UnpublishFailsKeeps ==
    ASSUME HttpInv, NEW t \in Tokens, UnpublishFails(t)
    PROVE  HttpInv'
<1> USE DEF HttpInv, UnpublishFails, OrderOver, Step, HttpFault, valkeyState, syncState
<1>1. HttpTypes'
  BY Zenon DEF HttpTypes, HttpSteps
<1>2. ASSUME NEW x \in Edges PROVE todo'[x] \subseteq round'[x]
  BY Zenon DEF HttpTypes
<1>3. ASSUME NEW u \in Tokens PROVE hpc'[u] = "ready" => seen'[u] \subseteq acks'[u]
  BY Zenon DEF HttpTypes
<1>4. ASSUME NEW u \in Tokens PROVE OwnAnswer(u)'
  BY DEF HttpTypes, OwnAnswer, Unheard, Published
<1>5. ASSUME NEW u \in Tokens, NEW x \in Edges PROVE Unheard(u, x)'
  BY DEF HttpTypes, Unheard
<1>6. ASSUME NEW u \in Tokens, NEW x \in Edges PROVE Answered(u, x)'
  BY SMTT(30) DEF HttpTypes, OwnAnswer, Unheard, Answered, Published
<1> QED
  BY Zenon, <1>1, <1>2, <1>3, <1>4, <1>5, <1>6

\* Only a challenge whose order is over expires.
LEMMA PendingExpiresKeeps ==
    ASSUME HttpInv, NEW t \in Tokens, PendingExpires(t)
    PROVE  HttpInv'
<1> USE DEF HttpInv, PendingExpires, valkeyState, syncState
<1>1. HttpTypes'
  BY Zenon DEF HttpTypes, HttpSteps
<1>2. ASSUME NEW x \in Edges PROVE todo'[x] \subseteq round'[x]
  BY Zenon DEF HttpTypes
<1>3. ASSUME NEW u \in Tokens PROVE hpc'[u] = "ready" => seen'[u] \subseteq acks'[u]
  BY Zenon DEF HttpTypes
<1>4. ASSUME NEW u \in Tokens PROVE OwnAnswer(u)'
  BY Zenon DEF HttpTypes, OwnAnswer, Unheard, Published
<1>5. ASSUME NEW u \in Tokens, NEW x \in Edges PROVE Unheard(u, x)'
  BY Zenon DEF HttpTypes, Unheard
<1>6. ASSUME NEW u \in Tokens, NEW x \in Edges PROVE Answered(u, x)'
  BY Zenon DEF HttpTypes, OwnAnswer, Unheard, Answered, Published
<1> QED
  BY Zenon, <1>1, <1>2, <1>3, <1>4, <1>5, <1>6

\* A round reads every challenge that is published.
LEMMA ReadPendingKeeps ==
    ASSUME HttpInv, NEW e \in Edges, ReadPending(e)
    PROVE  HttpInv'
<1> USE DEF HttpInv, ReadPending, valkeyState, syncState
<1>1. HttpTypes'
  BY Zenon DEF HttpTypes, HttpSteps
<1>2. ASSUME NEW x \in Edges PROVE todo'[x] \subseteq round'[x]
  BY Zenon DEF HttpTypes
<1>3. ASSUME NEW u \in Tokens PROVE hpc'[u] = "ready" => seen'[u] \subseteq acks'[u]
  BY Zenon DEF HttpTypes
<1>4. ASSUME NEW u \in Tokens PROVE OwnAnswer(u)'
  BY Zenon DEF HttpTypes, OwnAnswer, Unheard, Published
<1>5. ASSUME NEW u \in Tokens, NEW x \in Edges PROVE Unheard(u, x)'
  BY DEF HttpTypes, Unheard
<1>6. ASSUME NEW u \in Tokens, NEW x \in Edges PROVE Answered(u, x)'
  BY DEF HttpTypes, OwnAnswer, Unheard, Answered, Published
<1> QED
  BY Zenon, <1>1, <1>2, <1>3, <1>4, <1>5, <1>6

\* An Edge answers a challenge before it confirms it, and a challenge of its
\* own order without taking it over.
LEMMA ServeKeeps ==
    ASSUME HttpInv, NEW t \in Tokens, NEW e \in Edges, Serve(e, t)
    PROVE  HttpInv'
<1> USE DEF HttpInv, Serve, valkeyState, syncState
<1>1. HttpTypes'
  BY SMTT(30) DEF HttpTypes, HttpSteps
<1>2. ASSUME NEW x \in Edges PROVE todo'[x] \subseteq round'[x]
  BY Zenon DEF HttpTypes
<1>3. ASSUME NEW u \in Tokens PROVE hpc'[u] = "ready" => seen'[u] \subseteq acks'[u]
  BY Zenon DEF HttpTypes
<1>4. ASSUME NEW u \in Tokens PROVE OwnAnswer(u)'
  BY DEF HttpTypes, OwnAnswer, Unheard, Published
<1>5. ASSUME NEW u \in Tokens, NEW x \in Edges PROVE Unheard(u, x)'
  BY DEF HttpTypes, Unheard
<1>6. ASSUME NEW u \in Tokens, NEW x \in Edges PROVE Answered(u, x)'
  BY SMTT(30) DEF HttpTypes, OwnAnswer, Unheard, Answered, Published
<1> QED
  BY Zenon, <1>1, <1>2, <1>3, <1>4, <1>5, <1>6

\* ack_http01 is of a challenge that the Edge answers.
LEMMA ConfirmKeeps ==
    ASSUME HttpInv, NEW t \in Tokens, NEW e \in Edges, Confirm(e, t)
    PROVE  HttpInv'
<1> USE DEF HttpInv, Confirm, HttpFault, valkeyState, syncState
<1>1. HttpTypes'
  BY SMTT(30) DEF HttpTypes, HttpSteps
<1>2. ASSUME NEW x \in Edges PROVE todo'[x] \subseteq round'[x]
  BY Zenon DEF HttpTypes
<1>3. ASSUME NEW u \in Tokens PROVE hpc'[u] = "ready" => seen'[u] \subseteq acks'[u]
  BY DEF HttpTypes
<1>4. ASSUME NEW u \in Tokens PROVE OwnAnswer(u)'
  BY Zenon DEF HttpTypes, OwnAnswer, Unheard, Published
<1>5. ASSUME NEW u \in Tokens, NEW x \in Edges PROVE Unheard(u, x)'
  BY DEF HttpTypes, Unheard
<1>6. ASSUME NEW u \in Tokens, NEW x \in Edges PROVE Answered(u, x)'
  BY SMTT(30) DEF HttpTypes, OwnAnswer, Unheard, Answered, Published
<1> QED
  BY Zenon, <1>1, <1>2, <1>3, <1>4, <1>5, <1>6

\* The end of a round withdraws only what is not published any more.
LEMMA RetainKeeps ==
    ASSUME HttpInv, NEW e \in Edges, Retain(e)
    PROVE  HttpInv'
<1> USE DEF HttpInv, Retain, valkeyState, syncState
<1>1. HttpTypes'
  BY Zenon DEF HttpTypes, HttpSteps
<1>2. ASSUME NEW x \in Edges PROVE todo'[x] \subseteq round'[x]
  BY Zenon DEF HttpTypes
<1>3. ASSUME NEW u \in Tokens PROVE hpc'[u] = "ready" => seen'[u] \subseteq acks'[u]
  BY Zenon DEF HttpTypes
<1>4. ASSUME NEW u \in Tokens PROVE OwnAnswer(u)'
  BY Zenon DEF HttpTypes, OwnAnswer, Unheard, Published
<1>5. ASSUME NEW u \in Tokens, NEW x \in Edges PROVE Unheard(u, x)'
  BY DEF HttpTypes, Unheard
<1>6. ASSUME NEW u \in Tokens, NEW x \in Edges PROVE Answered(u, x)'
  BY SMTT(30) DEF HttpTypes, OwnAnswer, Unheard, Answered, Published
<1> QED
  BY Zenon, <1>1, <1>2, <1>3, <1>4, <1>5, <1>6

\* An Edge that stops answers nothing, and is counted as crashed.
LEMMA StopKeeps ==
    ASSUME HttpInv, NEW e \in Edges, Stop(e)
    PROVE  HttpInv'
<1> USE DEF HttpInv, Stop, HttpFault, valkeyState, syncState
<1>1. HttpTypes'
  BY Zenon DEF HttpTypes, HttpSteps
<1>2. ASSUME NEW x \in Edges PROVE todo'[x] \subseteq round'[x]
  BY Zenon DEF HttpTypes
<1>3. ASSUME NEW u \in Tokens PROVE hpc'[u] = "ready" => seen'[u] \subseteq acks'[u]
  BY Zenon DEF HttpTypes
<1>4. ASSUME NEW u \in Tokens PROVE OwnAnswer(u)'
  BY Zenon DEF HttpTypes, OwnAnswer, Unheard, Published
<1>5. ASSUME NEW u \in Tokens, NEW x \in Edges PROVE Unheard(u, x)'
  BY DEF HttpTypes, Unheard
<1>6. ASSUME NEW u \in Tokens, NEW x \in Edges, hpc'[u] \in Published
      PROVE  crashed'[u] = crashed[u] \cup {e} /\ hpc[u] \in Published /\ OwnAnswer(u) /\ Answered(u, x)
  <2>1. orderer[u] # e /\ hpc'[u] = hpc[u]
    BY Zenon, <1>6 DEF HttpTypes, Published
  <2>2. orderer[u] \in Edges
    BY Zenon, <1>6, <2>1 DEF OwnAnswer
  <2>3. orderer'[u] # NoEdge
    BY Zenon, <2>1, <2>2, Http01Assumption
  <2> QED
    BY Zenon, <1>6, <2>1, <2>3
<1>7. ASSUME NEW u \in Tokens, NEW x \in Edges PROVE Answered(u, x)'
  BY Zenon, <1>6 DEF HttpTypes, Answered
<1> QED
  BY Zenon, <1>1, <1>2, <1>3, <1>4, <1>5, <1>7

\* Announcements, and the start of an Edge, concern no response.
LEMMA AnnouncementsKeep ==
    ASSUME HttpInv,
           \/ \E e \in Edges : Heartbeat(e) \/ AnnouncementExpires(e) \/ Boot(e)
           \/ UNCHANGED httpVars
    PROVE  HttpInv'
<1>1. /\ UNCHANGED <<pending, acks, responses, synced, round, todo, confirming, syncing,
                    hpc, orderer, seen, crashed>>
      /\ up' \subseteq Edges /\ live' \subseteq Edges /\ responders' \subseteq Edges
  BY Zenon DEF HttpInv, HttpTypes, Heartbeat, AnnouncementExpires, Boot, valkeyState, syncState, httpVars
<1> QED
  BY Zenon, <1>1 DEF HttpInv, HttpTypes, OwnAnswer, Unheard, Answered

\* Whenever an order tells the CA to validate, the Edges it has counted answer
\* the challenge, for any number of Edges, orders, crashes and failed calls.
THEOREM Http01Confirmed == HttpSpec => []ConfirmedIsServed
<1>1. HttpInit => HttpInv
  BY Zenon DEF HttpInit, HttpInv, HttpTypes, HttpSteps, Published, OwnAnswer, Unheard, Answered
<1>2. HttpInv /\ [HttpNext]_httpVars => HttpInv'
  BY Zenon, StartOrderKeeps, PublishHttp01Keeps, PublishFailsKeeps, LookKeeps, CountKeeps,
     CountMissingKeeps, DropOwnKeeps, UnpublishHttp01Keeps, UnpublishFailsKeeps,
     PendingExpiresKeeps, ReadPendingKeeps, ServeKeeps, ConfirmKeeps, RetainKeeps,
     StopKeeps, AnnouncementsKeep
  DEF HttpNext, Sync, EndOrder
<1>3. HttpInv => ConfirmedIsServed
  BY Zenon DEF HttpInv, Answered, Published, ConfirmedIsServed, HttpTypes
<1> QED
  BY <1>1, <1>2, <1>3, PTL DEF HttpSpec

---------------------------------------------------------------------------
(* DNS-01 *)

TxtSteps == {"idle", "get", "add", "post", "added", "unget", "remove", "drop", "gone", "failed"}

\* The steps of a task that may still put its value at the provider, or rely on it.
Adding(e) == tpc[e] \in {"get", "add", "post", "added"}

TxtTypes ==
    /\ adapter \in {"cloudflare", "route53"}
    /\ edits \in Nat
    /\ journal \subseteq started /\ started \subseteq Orders
    /\ holder \in [Orders -> Edges \cup {NoEdge}]
    /\ tpc \in [Edges -> TxtSteps]
    /\ task \in [Edges -> started \cup {NoOrder}]
    /\ entries \in [Edges -> SUBSET started]
    /\ DOMAIN current = Edges

\* An order is added by the Edge that has its lease, and while it is, nobody
\* else works on it.
Exclusive(e) ==
    Adding(e) =>
        /\ task[e] \in journal
        /\ holder[task[e]] = e
        /\ \A d \in Edges \ {e} : task[d] # task[e]

\* What a task knows of the record set.
Knows(e) ==
    /\ tpc[e] # "idle" => task[e] \in started
    /\ tpc[e] \in {"add", "post"} => task[e] \notin current[e]
    /\ tpc[e] \in {"remove", "drop"} => task[e] \in current[e]
    /\ tpc[e] = "added" => task[e] \in zone
    /\ tpc[e] = "gone" => task[e] \notin zone

TxtInv ==
    /\ TxtTypes
    /\ LeftoverIsJournaled
    /\ \A e \in Edges : Exclusive(e) /\ Knows(e)

---------------------------------------------------------------------------
(* The provider *)

\* A change that is accepted adds or removes the value of its task and nothing
\* else, with either provider.
LEMMA ChangedIs ==
    ASSUME TxtInv, NEW e \in Edges, Accepts(current[e]), tpc[e] \in {"post", "drop"}
    PROVE  Changed(current[e], Desired(e)) =
                IF tpc[e] = "post" THEN zone \cup {task[e]} ELSE zone \ {task[e]}
<1>1. Knows(e)
  BY Zenon DEF TxtInv
<1>2. CASE tpc[e] = "post"
  BY Zenon, <1>1, <1>2 DEF Knows, Changed, Accepts, Desired, Removing
<1>3. CASE tpc[e] = "drop"
  BY Zenon, <1>1, <1>3 DEF Knows, Changed, Accepts, Desired, Removing
<1> QED
  BY Zenon, <1>2, <1>3

\* A step of add or remove: what it does to the record set, and where the task
\* is afterwards.
LEMMA ReplaceDoes ==
    ASSUME TxtInv, NEW e \in Edges, Replace(e)
    PROVE  /\ \/ zone' = zone
              \/ tpc[e] = "post" /\ zone' = zone \cup {task[e]}
              \/ tpc[e] = "drop" /\ zone' = zone \ {task[e]}
           /\ UNCHANGED <<adapter, edits, journal, holder, started, task, entries>>
           /\ tpc' \in [Edges -> TxtSteps] /\ DOMAIN current' = Edges
           /\ \A d \in Edges \ {e} : tpc'[d] = tpc[d] /\ current'[d] = current[d]
           /\ Adding(e)' => Adding(e)
           /\ tpc[e] # "idle" /\ Knows(e)'
<1> USE DEF Adding, TxtSteps
<1>1. tpc \in [Edges -> TxtSteps] /\ DOMAIN current = Edges /\ Knows(e)
  BY Zenon DEF TxtInv, TxtTypes
<1>2. UNCHANGED <<adapter, edits, journal, holder, started, task, entries>>
  BY Zenon DEF Replace
<1>3. CASE ObservedSet(e)
  BY Zenon, <1>1, <1>2, <1>3 DEF ObservedSet, Removing, Knows
<1>4. ASSUME RetryOrFail(e), tpc[e] \in {"add", "remove", "post", "drop"}
      PROVE  /\ UNCHANGED <<zone, current>>
             /\ tpc' \in [Edges -> TxtSteps]
             /\ \A d \in Edges \ {e} : tpc'[d] = tpc[d]
             /\ tpc'[e] \in {"get", "unget", "failed"}
             /\ Adding(e)' => Adding(e)
  BY Zenon, <1>1, <1>4 DEF RetryOrFail, Removing
<1>5. CASE Compare(e)
  BY Zenon, <1>1, <1>2, <1>4, <1>5 DEF Compare, Removing, Knows
<1>6. CASE Submit(e)
  <2>1. CASE Accepts(current[e])
    BY SMTT(30), <1>1, <1>2, <1>6, <2>1, ChangedIs DEF Submit, Removing, Knows
  <2>2. CASE ~Accepts(current[e])
    BY Zenon, <1>1, <1>2, <1>4, <1>6, <2>2 DEF Submit, Knows
  <2> QED
    BY Zenon, <2>1, <2>2
<1>7. CASE RateLimited(e)
  <2>1. RetryOrFail(e) /\ tpc[e] \in {"add", "remove", "post", "drop"}
    BY Zenon, <1>7 DEF RateLimited
  <2>2. Knows(e)'
    BY Zenon, <1>1, <1>2, <1>4, <2>1 DEF Knows
  <2> QED
    BY Zenon, <1>1, <1>2, <1>4, <2>1, <2>2
<1>8. CASE CallFails(e)
  <2>1. /\ tpc[e] \in {"get", "unget", "add", "remove", "post", "drop"}
        /\ tpc' = [tpc EXCEPT ![e] = "failed"] /\ current' = current
    BY Zenon, <1>8 DEF CallFails
  <2>2. \/ zone' = zone
        \/ tpc[e] = "post" /\ zone' = zone \cup {task[e]}
        \/ tpc[e] = "drop" /\ zone' = zone \ {task[e]}
    BY Zenon, <1>8, ChangedIs DEF CallFails
  <2>3. Knows(e)'
    BY Zenon, <1>1, <1>2, <2>1 DEF Knows
  <2> QED
    BY Zenon, <1>1, <1>2, <2>1, <2>2, <2>3
<1> QED
  BY Zenon, <1>3, <1>5, <1>6, <1>7, <1>8 DEF Replace

---------------------------------------------------------------------------
(* One lemma per step *)

\* An order that begins has the lease and is in the journal, and nobody can be
\* working on it yet.
LEMMA JournalAddKeeps ==
    ASSUME TxtInv, NEW e \in Edges, NEW o \in Orders, JournalAdd(e, o)
    PROVE  TxtInv'
<1> USE DEF TxtInv, JournalAdd, Begin, provider
<1>1. TxtTypes' /\ LeftoverIsJournaled'
  BY Zenon DEF TxtTypes, TxtSteps, LeftoverIsJournaled
<1>2. ASSUME NEW d \in Edges PROVE Exclusive(d)'
  BY TxtAssumption DEF TxtTypes, Exclusive, Adding
<1>3. ASSUME NEW d \in Edges PROVE Knows(d)'
  BY Zenon DEF TxtTypes, Knows
<1> QED
  BY Zenon, <1>1, <1>2, <1>3

\* add and remove change their own value only, and no two tasks of which one
\* adds have the same.
LEMMA ReplaceKeeps ==
    ASSUME TxtInv, NEW e \in Edges, Replace(e)
    PROVE  TxtInv'
<1> USE DEF TxtInv
<1>1. TxtTypes'
  BY Zenon, ReplaceDoes DEF TxtTypes
<1>2. LeftoverIsJournaled'
  BY ReplaceDoes DEF LeftoverIsJournaled, Exclusive, Adding
<1>3. ASSUME NEW d \in Edges PROVE Exclusive(d)'
  BY ReplaceDoes DEF Exclusive, Adding
<1>4. ASSUME NEW d \in Edges \ {e} PROVE Knows(d)'
  BY ReplaceDoes DEF Knows, Exclusive, Adding
<1>5. Knows(e)'
  BY Zenon, ReplaceDoes
<1> QED
  BY <1>1, <1>2, <1>3, <1>4, <1>5, Zenon

\* An order that is over does not rely on its value any more.
LEMMA EndTxtOrderKeeps ==
    ASSUME TxtInv, NEW e \in Edges, EndTxtOrder(e)
    PROVE  TxtInv'
<1> USE DEF TxtInv, EndTxtOrder, provider
<1>1. TxtTypes' /\ LeftoverIsJournaled'
  BY Zenon DEF TxtTypes, TxtSteps, LeftoverIsJournaled
<1>2. ASSUME NEW d \in Edges PROVE Exclusive(d)' /\ Knows(d)'
  BY Zenon DEF TxtTypes, Exclusive, Adding, Knows
<1> QED
  BY Zenon, <1>1, <1>2

\* The journal forgets a value only when it is gone and nobody adds it.
LEMMA FinishKeeps ==
    ASSUME TxtInv, NEW e \in Edges, JournalRemove(e) \/ GiveUp(e)
    PROVE  TxtInv'
<1> USE DEF TxtInv
<1>1. /\ Finish(e) /\ UNCHANGED <<provider, started, entries>>
      /\ tpc[e] \in {"gone", "failed"}
      /\ \/ journal' = journal
         \/ tpc[e] = "gone" /\ journal' = journal \ {task[e]}
  BY Zenon DEF JournalRemove, GiveUp
<1>2. TxtTypes'
  BY Zenon, <1>1 DEF TxtTypes, TxtSteps, Finish, provider
<1>3. LeftoverIsJournaled'
  BY Zenon, <1>1 DEF LeftoverIsJournaled, Knows, provider
<1>4. ASSUME NEW d \in Edges PROVE Exclusive(d)'
  BY <1>1, TxtAssumption DEF TxtTypes, Exclusive, Adding, Finish
<1>5. ASSUME NEW d \in Edges PROVE Knows(d)'
  BY Zenon, <1>1 DEF TxtTypes, Knows, Finish, provider
<1> QED
  BY Zenon, <1>2, <1>3, <1>4, <1>5

\* A restart reads the journal and works on nothing yet.
LEMMA RestartTxtKeeps ==
    ASSUME TxtInv, NEW e \in Edges, RestartTxt(e)
    PROVE  TxtInv'
<1> USE DEF TxtInv, RestartTxt, provider
<1>1. TxtTypes' /\ LeftoverIsJournaled'
  BY Zenon DEF TxtTypes, TxtSteps, LeftoverIsJournaled
<1>2. ASSUME NEW d \in Edges PROVE Exclusive(d)'
  BY TxtAssumption DEF TxtTypes, Exclusive, Adding
<1>3. ASSUME NEW d \in Edges PROVE Knows(d)'
  BY Zenon DEF TxtTypes, Knows
<1> QED
  BY Zenon, <1>1, <1>2, <1>3

\* Only the lease of an order that was interrupted expires.
LEMMA LeaseExpiresKeeps ==
    ASSUME TxtInv, NEW o \in Orders, LeaseExpires(o)
    PROVE  TxtInv'
<1> USE DEF TxtInv, LeaseExpires, provider
<1>1. TxtTypes' /\ LeftoverIsJournaled'
  BY Zenon DEF TxtTypes, LeftoverIsJournaled
<1>2. ASSUME NEW d \in Edges PROVE Exclusive(d)' /\ Knows(d)'
  BY Zenon DEF TxtTypes, Exclusive, Adding, Knows
<1> QED
  BY Zenon, <1>1, <1>2

\* A starting Edge leaves a domain alone that another Edge has the lease of.
LEMMA EntryKeeps ==
    ASSUME TxtInv, NEW e \in Edges, NEW o \in Orders, KeepEntry(e, o) \/ CleanupEntry(e, o)
    PROVE  TxtInv'
<1> USE DEF TxtInv, KeepEntry, CleanupEntry, Begin, provider
<1>1. TxtTypes' /\ LeftoverIsJournaled'
  BY DEF TxtTypes, TxtSteps, LeftoverIsJournaled
<1>2. ASSUME NEW d \in Edges PROVE Exclusive(d)'
  BY SMTT(30), TxtAssumption DEF TxtTypes, Exclusive, Adding, Removable
<1>3. ASSUME NEW d \in Edges PROVE Knows(d)'
  BY DEF TxtTypes, Knows
<1> QED
  BY Zenon, <1>1, <1>2, <1>3

\* Operators change values of theirs only.
LEMMA EditKeeps ==
    ASSUME TxtInv, NEW v \in OperatorValues, Edit(v)
    PROVE  TxtInv'
<1> USE DEF TxtInv, Edit
<1>1. TxtTypes'
  BY DEF TxtTypes
<1>2. \A o \in Orders : o \in zone' <=> o \in zone
  BY Zenon, TxtAssumption
<1>3. LeftoverIsJournaled'
  BY Zenon, <1>2 DEF LeftoverIsJournaled, TxtTypes
<1>4. ASSUME NEW d \in Edges PROVE Exclusive(d)' /\ Knows(d)'
  BY Zenon, <1>2 DEF TxtTypes, Exclusive, Adding, Knows
<1> QED
  BY Zenon, <1>1, <1>3, <1>4

\* The inductive invariant of the solver.
LEMMA TxtInvariant == TxtSpec => []TxtInv
<1>1. TxtInit => TxtInv
  BY SMTT(30), TxtAssumption
  DEF TxtInit, TxtInv, TxtTypes, TxtSteps, LeftoverIsJournaled, Exclusive, Adding, Knows
<1>2. TxtInv /\ UNCHANGED txtVars => TxtInv'
  BY Zenon DEF txtVars, provider, TxtInv, TxtTypes, LeftoverIsJournaled, Exclusive, Adding, Knows
<1>3. TxtInv /\ [TxtNext]_txtVars => TxtInv'
  BY Zenon, <1>2, JournalAddKeeps, ReplaceKeeps, EndTxtOrderKeeps, FinishKeeps, RestartTxtKeeps,
     LeaseExpiresKeeps, EntryKeeps, EditKeeps
  DEF TxtNext
<1> QED
  BY <1>1, <1>3, PTL DEF TxtSpec

\* Whatever call fails and wherever an Edge dies, a value of the solver that is
\* at the provider is in the journal.
THEOREM TxtJournaled == TxtSpec => []LeftoverIsJournaled
<1>1. TxtInv => LeftoverIsJournaled
  BY Zenon DEF TxtInv
<1> QED
  BY <1>1, TxtInvariant, PTL

\* An order's value stays at the provider while the CA may ask for it, with
\* any number of Edges, orders of the domain and restarts.
THEOREM TxtValueStays == TxtSpec => []ValueStaysWhileNeeded
<1>1. TxtInv => ValueStaysWhileNeeded
  BY Zenon DEF TxtInv, Knows, ValueStaysWhileNeeded
<1> QED
  BY <1>1, TxtInvariant, PTL

\* The solver never adds or removes a value of an operator.
THEOREM TxtOperatorValues == TxtSpec => OperatorValuesKept
<1> DEFINE TheirsKept == edits' = edits => zone' \cap OperatorValues = zone \cap OperatorValues
<1>1. ASSUME TxtInv, TxtNext PROVE TheirsKept
  <2>1. ASSUME NEW e \in Edges, Replace(e) PROVE TheirsKept
    <3>1. tpc[e] # "idle" => task[e] \notin OperatorValues
      BY Zenon, <1>1, TxtAssumption DEF TxtInv, TxtTypes, Knows
    <3> QED
      BY Zenon, <1>1, <2>1, <3>1, ReplaceDoes
  <2>2. ASSUME NEW v \in OperatorValues, Edit(v) PROVE TheirsKept
    BY <1>1, <2>2 DEF Edit, TxtInv, TxtTypes
  <2>3. CASE zone' = zone
    BY Zenon, <2>3
  <2> QED
    BY Zenon, <1>1, <2>1, <2>2, <2>3
    DEF TxtNext, JournalAdd, KeepEntry, CleanupEntry, EndTxtOrder, JournalRemove, GiveUp,
        RestartTxt, LeaseExpires, provider
<1>2. TxtInv /\ [TxtNext]_txtVars => [TheirsKept]_txtVars
  BY Zenon, <1>1
<1> QED
  BY <1>2, TxtInvariant, PTL DEF TxtSpec, OperatorValuesKept

---------------------------------------------------------------------------
(* Orders *)

WF == INSTANCE WellFoundedInduction

Working == Steps \ {"run", "acquire"}

\* A lease that is held has a generation, and so has whoever worked under one.
LeaseInv ==
    /\ lease.owner # NoEdge => lease.gen > 0
    /\ \A e \in Edges : pc[e] \in Working => gen[e] > 0

\* The file lock is held while the directory and the pointer are written.
LockInv == \A e \in Edges : pc[e] \in {"write", "point"} <=> store.lock = e

\* The comparison made when the lock was taken still holds.
WriterInv ==
    \A e \in Edges :
        /\ pc[e] \in {"write", "point"} => gen[e] > store.current
        /\ pc[e] = "point" => gen[e] \in store.gens

\* The pointer names the newest generation that was ever published, which is
\* on disk.
StoreInv ==
    /\ CurrentIsOnDisk
    /\ \A g \in published : 0 < g /\ g <= store.current
    /\ store.current # 0 => store.current \in published
    /\ \E bound \in Nat : \A g \in store.gens : g <= bound

ServeInv ==
    /\ \A e \in Edges : installed[e] \in published \cup {0}
    /\ expired <= due

IInv == TypeOK /\ LeaseInv /\ LockInv /\ WriterInv /\ StoreInv /\ ServeInv

---------------------------------------------------------------------------
(* Operators *)

\* A bounded set of numbers has a greatest one.
LEMMA MaxExists ==
    ASSUME NEW S \in SUBSET Nat, S # {}, NEW bound \in Nat, \A g \in S : g <= bound
    PROVE  Max(S) \in S /\ \A g \in S : g <= Max(S)
<1> DEFINE T == {b \in Nat : \A g \in S : g <= b}
<1>1. T # {} /\ T \subseteq Nat
  BY Zenon
<1>2. PICK x \in T : \A y \in T : ~(<<y, x>> \in WF!OpToRel(<, Nat))
  BY Zenon, <1>1, WF!WFMin, WF!NatLessThanWellFounded
<1>3. \A y \in T : ~(y < x)
  BY Zenon, <1>2 DEF WF!OpToRel
<1>4. x \in S
  <2> SUFFICES ASSUME x \notin S PROVE FALSE
    BY Zenon
  <2>1. x \in Nat /\ \A g \in S : g < x
    OBVIOUS
  <2>2. PICK g \in S : g < x
    BY Zenon, <2>1
  <2>3. x - 1 \in Nat /\ \A h \in S : h <= x - 1
    BY <2>1, <2>2
  <2> QED
    BY <1>3, <2>1, <2>3
<1>5. \E m \in S : \A g \in S : m >= g
  BY Zenon, <1>4
<1> QED
  BY Zenon, <1>5 DEF Max

\* The number that an Edge asks for is one.
LEMMA NextIsNat ==
    ASSUME TypeOK, StoreInv PROVE NextGeneration(store) \in Nat
<1> DEFINE S == store.gens \cup {store.current}
<1>1. S \in SUBSET Nat /\ S # {} /\ store.current \in Nat
  BY Zenon DEF TypeOK
<1>2. PICK bound \in Nat : \A g \in store.gens : g <= bound
  BY Zenon DEF StoreInv
<1>3. \A g \in S : g <= bound + store.current
  BY <1>1, <1>2
<1>4. Max(S) \in Nat
  <2>1. bound + store.current \in Nat
    BY <1>1
  <2> HIDE DEF S
  <2> QED
    BY Zenon, <1>1, <1>3, <2>1, MaxExists
<1> QED
  BY <1>4 DEF NextGeneration

\* LEASE_ACQUIRE_SCRIPT never hands out generation 0.
LEMMA AcquireTyped ==
    ASSUME TypeOK, LeaseInv, NEW e \in Edges, NEW m \in Nat
    PROVE  LET l == LeaseAfterAcquire(lease, e, m)
           IN  l \in LeaseType /\ l.owner # NoEdge /\ l.gen > 0
BY AcmeAssumption DEF TypeOK, LeaseInv, LeaseType, LeaseAfterAcquire

\* load_current finds the active generation or, when that has expired, nothing.
LEMMA LoadIsCurrent ==
    ASSUME TypeOK, StoreInv
    PROVE  LoadCurrent(store, expired) = IF store.current > expired THEN store.current ELSE 0
<1> DEFINE usable == {g \in store.gens : g <= store.current /\ Valid(g, expired)}
<1>1. store.current \in Nat /\ store.gens \subseteq Nat /\ expired \in Nat
  BY Zenon DEF TypeOK
<1>2. CASE store.current > expired
  <2>1. store.current \in usable /\ \A g \in usable : store.current >= g
    BY <1>1, <1>2 DEF StoreInv, CurrentIsOnDisk, Valid
  <2>2. \A x \in usable : (\A g \in usable : x >= g) => x = store.current
    BY <1>1, <2>1
  <2>3. Max(usable) = store.current
    BY Zenon, <2>1, <2>2 DEF Max
  <2> QED
    BY Zenon, <1>2, <2>1, <2>3 DEF LoadCurrent
<1>3. CASE ~(store.current > expired)
  <2>1. usable = {}
    BY <1>1, <1>3 DEF Valid
  <2> QED
    BY Zenon, <1>3, <2>1 DEF LoadCurrent
<1> QED
  BY Zenon, <1>2, <1>3

\* refresh_from_store moves forward to the active generation or stays; and a
\* certificate that is due after it is due because the active one is.
LEMMA RefreshForward ==
    ASSUME TypeOK, StoreInv, ServeInv, NEW serving \in published \cup {0}
    PROVE  /\ Refreshed(serving) \in published \cup {0}
           /\ Refreshed(serving) # serving =>
                Refreshed(serving) \in published /\ Refreshed(serving) > serving
           /\ (Refreshed(serving) = 0 \/ Refreshed(serving) <= due) => store.current <= due
<1>1. /\ store.current \in Nat /\ expired \in Nat /\ due \in Nat /\ expired <= due
      /\ serving \in Nat /\ serving <= store.current
      /\ store.current # 0 => store.current \in published
  BY DEF TypeOK, StoreInv, ServeInv
<1>2. LoadCurrent(store, expired) = IF store.current > expired THEN store.current ELSE 0
  BY Zenon, LoadIsCurrent
<1> QED
  BY <1>1, <1>2 DEF Refreshed

---------------------------------------------------------------------------
(* The steps *)

\* A step of an Edge that stays outside the store keeps the invariant.
LEMMA AsideKeeps ==
    ASSUME IInv, NEW e \in Edges, NEW to \in Steps \ {"write", "point"},
           pc[e] \notin {"write", "point"}, pc' = [pc EXCEPT ![e] = to],
           lease' \in LeaseType, lease'.owner # NoEdge => lease'.gen > 0,
           gen' \in [Edges -> Nat], \A d \in Edges \ {e} : gen'[d] = gen[d],
           to \in Working => gen'[e] > 0,
           min' \in [Edges -> Nat], delayed' \in SUBSET Edges, status' \in BOOLEAN,
           faults' \in Nat, UNCHANGED <<store, due, expired, published, starts>>,
           installed' \in [Edges -> Nat], \A d \in Edges : installed'[d] \in published \cup {0}
    PROVE  IInv'
<1> USE DEF IInv
<1>1. TypeOK'
  BY Zenon DEF TypeOK
<1>2. LeaseInv'
  BY Zenon DEF TypeOK, LeaseInv
<1>3. LockInv' /\ WriterInv'
  BY Zenon DEF TypeOK, LockInv, WriterInv
<1>4. StoreInv' /\ ServeInv'
  BY Zenon DEF StoreInv, CurrentIsOnDisk, ServeInv
<1> QED
  BY Zenon, <1>1, <1>2, <1>3, <1>4

\* An Edge that lets go of the store, by an error or by dying, keeps it.
LEMMA LetGoKeeps ==
    ASSUME IInv, NEW e \in Edges, NEW to \in {"run", "release"},
           pc' = [pc EXCEPT ![e] = to],
           store' = IF store.lock = e THEN [store EXCEPT !.lock = NoEdge] ELSE store,
           gen' \in [Edges -> Nat], \A d \in Edges \ {e} : gen'[d] = gen[d],
           to = "release" => gen'[e] > 0,
           min' \in [Edges -> Nat], delayed' \in SUBSET Edges, status' \in BOOLEAN,
           faults' \in Nat, starts' \in [Edges -> Nat], UNCHANGED <<lease, due, expired, published>>,
           installed' \in [Edges -> Nat], \A d \in Edges : installed'[d] \in published \cup {0}
    PROVE  IInv'
<1> USE DEF IInv
<1>1. /\ store' \in [current : Nat, gens : SUBSET Nat, lock : Edges \cup {NoEdge}]
      /\ store'.current = store.current /\ store'.gens = store.gens
      /\ store'.lock = IF store.lock = e THEN NoEdge ELSE store.lock
  BY Zenon DEF TypeOK
<1>2. TypeOK'
  BY Zenon, <1>1 DEF TypeOK, Steps
<1>3. LeaseInv'
  BY Zenon DEF TypeOK, LeaseInv, Working
<1>4. LockInv' /\ WriterInv'
  BY <1>1, AcmeAssumption DEF TypeOK, LockInv, WriterInv
<1>5. StoreInv' /\ ServeInv'
  BY Zenon, <1>1 DEF StoreInv, CurrentIsOnDisk, ServeInv
<1> QED
  BY Zenon, <1>2, <1>3, <1>4, <1>5

\* An error after the lease was taken: a retry delay, and the store is let go.
LEMMA FailsKeeps ==
    ASSUME IInv, NEW e \in Edges, pc[e] \in Working, Fails(e), faults' \in Nat PROVE IInv'
<1>1. gen[e] > 0 /\ installed \in [Edges -> Nat] /\ \A d \in Edges : installed[d] \in published \cup {0}
  BY Zenon DEF IInv, LeaseInv, ServeInv, TypeOK
<1> QED
  BY Zenon, <1>1, LetGoKeeps DEF Fails, IInv, TypeOK

\* A round of the run loop serves what the store has and asks for a generation.
LEMMA WakeKeeps == ASSUME IInv, NEW e \in Edges, Wake(e) PROVE IInv'
<1> DEFINE serving == Refreshed(installed[e])
<1>1. serving \in published \cup {0} /\ serving \in Nat
  <2>1. installed[e] \in published \cup {0} /\ published \subseteq Nat
    BY Zenon DEF IInv, ServeInv, TypeOK
  <2>2. serving \in published \cup {0}
    BY Zenon, <2>1, RefreshForward DEF IInv
  <2> HIDE DEF serving
  <2> QED
    BY <2>1, <2>2
<1>2. NextGeneration(store) \in Nat
  BY Zenon, NextIsNat DEF IInv
<1>3. PICK to \in {"run", "acquire"} : pc' = [pc EXCEPT ![e] = to]
  BY Zenon DEF Wake, IInv, TypeOK
<1>4. installed' \in [Edges -> Nat] /\ \A d \in Edges : installed'[d] \in published \cup {0}
  BY Zenon, <1>1 DEF Wake, IInv, ServeInv, TypeOK
<1>5. min' \in [Edges -> Nat]
  BY Zenon, <1>2 DEF Wake, IInv, TypeOK
<1>6. pc[e] = "run" /\ to \in Steps \ {"write", "point"} /\ to \notin Working
  BY Zenon DEF Wake, Steps, Working
<1> QED
  BY Zenon, <1>3, <1>4, <1>5, <1>6, AsideKeeps DEF Wake, IInv, TypeOK, LeaseInv

\* Taking the lease, or losing the answer, leaves the store alone.
LEMMA AcquireKeeps ==
    ASSUME IInv, NEW e \in Edges, Acquire(e) \/ AcquireFails(e) PROVE IInv'
<1>1. PICK to \in {"holding", "run"} : pc' = [pc EXCEPT ![e] = to] /\ (to = "holding" => Acquire(e) /\ Grants(lease, e))
  BY Zenon DEF Acquire, AcquireFails, Goto
<1>2. min[e] \in Nat
  BY Zenon DEF IInv, TypeOK
<1>3. LeaseAfterAcquire(lease, e, min[e]) \in LeaseType /\ LeaseAfterAcquire(lease, e, min[e]).gen > 0
  BY Zenon, <1>2, AcquireTyped DEF IInv
<1>4. lease' \in LeaseType /\ (lease'.owner # NoEdge => lease'.gen > 0)
  BY Zenon, <1>3 DEF Acquire, AcquireFails, IInv, TypeOK, LeaseInv
<1>5. /\ gen' \in [Edges -> Nat] /\ \A d \in Edges \ {e} : gen'[d] = gen[d]
      /\ to = "holding" => gen'[e] > 0
  BY Zenon, <1>1, <1>3 DEF Acquire, AcquireFails, IInv, TypeOK, LeaseType
<1>6. pc[e] = "acquire" /\ to \in Steps \ {"write", "point"} /\ (to \in Working => to = "holding")
  BY Zenon DEF Acquire, AcquireFails, Goto, Steps, Working
<1>7. /\ min' \in [Edges -> Nat] /\ faults' \in Nat
      /\ UNCHANGED <<store, installed, delayed, status, due, expired, published, starts>>
  BY DEF Acquire, AcquireFails, Fault, IInv, TypeOK
<1> QED
  BY Zenon, <1>1, <1>4, <1>5, <1>6, <1>7, AsideKeeps DEF IInv, TypeOK, ServeInv

\* Looking at the store again moves the resolver at most forward.
LEMMA RecheckKeeps == ASSUME IInv, NEW e \in Edges, Recheck(e) PROVE IInv'
<1> DEFINE serving == Refreshed(installed[e])
<1>1. serving \in published \cup {0} /\ serving \in Nat
  <2>1. installed[e] \in published \cup {0} /\ published \subseteq Nat
    BY Zenon DEF IInv, ServeInv, TypeOK
  <2>2. serving \in published \cup {0}
    BY Zenon, <2>1, RefreshForward DEF IInv
  <2> HIDE DEF serving
  <2> QED
    BY <2>1, <2>2
<1>2. PICK to \in {"ordering", "release"} : pc' = [pc EXCEPT ![e] = to]
  BY Zenon DEF Recheck, Goto
<1>3. installed' \in [Edges -> Nat] /\ \A d \in Edges : installed'[d] \in published \cup {0}
  BY Zenon, <1>1 DEF Recheck, IInv, ServeInv, TypeOK
<1>4. pc[e] = "holding" /\ to \in Steps \ {"write", "point"} /\ gen[e] > 0
  <2>1. pc[e] = "holding"
    BY Zenon DEF Recheck, Goto
  <2>2. to \in Steps \ {"write", "point"}
    BY Zenon DEF Steps
  <2>3. "holding" \in Working
    BY Zenon DEF Working, Steps
  <2> QED
    BY Zenon, <2>1, <2>2, <2>3 DEF IInv, LeaseInv
<1> QED
  BY Zenon, <1>2, <1>3, <1>4, AsideKeeps DEF Recheck, IInv, TypeOK, LeaseInv

\* Ordering and fencing end at the file lock or in an error.
LEMMA OrderKeeps ==
    ASSUME IInv, NEW e \in Edges,
           OrderSucceeds(e) \/ OrderFails(e) \/ Fence(e) \/ FenceFails(e)
    PROVE  IInv'
<1>1. pc[e] \in {"ordering", "fence"} /\ pc[e] \in Working /\ gen[e] > 0
  BY Zenon DEF OrderSucceeds, OrderFails, Fence, FenceFails, Goto, Working, Steps, IInv, LeaseInv
<1>2. CASE Fails(e) /\ faults' \in Nat
  BY Zenon, <1>1, <1>2, FailsKeeps
<1>3. ASSUME NEW to \in {"fence", "lock"}, pc' = [pc EXCEPT ![e] = to],
             UNCHANGED <<lease, store, gen, min, installed, delayed, status, due,
                         expired, published, starts, faults>>
      PROVE  IInv'
  BY Zenon, <1>1, <1>3, AsideKeeps DEF IInv, TypeOK, LeaseInv, ServeInv, Steps
<1> QED
  BY <1>2, <1>3 DEF OrderSucceeds, OrderFails, Fence, FenceFails, Goto, Fault, IInv, TypeOK

\* The lock is free, so nobody else is writing, and the comparison is made.
LEMMA LockKeeps == ASSUME IInv, NEW e \in Edges, Lock(e) PROVE IInv'
<1>1. pc[e] = "lock" /\ pc[e] \in Working /\ gen[e] > 0 /\ store.lock = NoEdge
  BY Zenon DEF Lock, Working, Steps, IInv, LeaseInv
<1>2. CASE ~MayStore(store, gen[e])
  BY Zenon, <1>1, <1>2, FailsKeeps DEF Lock, IInv, TypeOK
<1>3. CASE MayStore(store, gen[e])
  <2>1. /\ store' \in [current : Nat, gens : SUBSET Nat, lock : Edges \cup {NoEdge}]
        /\ store'.current = store.current /\ store'.gens = store.gens /\ store'.lock = e
        /\ pc' = [pc EXCEPT ![e] = "write"]
    BY Zenon, <1>3 DEF Lock, IInv, TypeOK
  <2>2. gen[e] > store.current
    BY Zenon, <1>1, <1>3 DEF MayStore
  <2>3. TypeOK'
    BY Zenon, <1>3, <2>1 DEF Lock, IInv, TypeOK, Steps
  <2>4. LeaseInv'
    BY Zenon, <1>1, <1>3, <2>1 DEF Lock, IInv, TypeOK, LeaseInv
  <2>5. LockInv' /\ WriterInv'
    BY Zenon, <1>1, <1>3, <2>1, <2>2, AcmeAssumption DEF Lock, IInv, TypeOK, LockInv, WriterInv
  <2>6. StoreInv' /\ ServeInv'
    BY <1>3, <2>1 DEF Lock, IInv, StoreInv, CurrentIsOnDisk, ServeInv
  <2> QED
    BY Zenon, <2>3, <2>4, <2>5, <2>6 DEF IInv
<1> QED
  BY Zenon, <1>2, <1>3

\* The directory of the new generation appears; the pointer stays.
LEMMA WriteKeeps == ASSUME IInv, NEW e \in Edges, Write(e) PROVE IInv'
<1> USE DEF IInv
<1>1. /\ store' \in [current : Nat, gens : SUBSET Nat, lock : Edges \cup {NoEdge}]
      /\ store'.current = store.current /\ store'.lock = store.lock
      /\ store'.gens = store.gens \cup {gen[e]}
      /\ pc[e] = "write" /\ pc' = [pc EXCEPT ![e] = "point"]
  BY Zenon DEF Write, Goto, WithGeneration, TypeOK
<1>2. TypeOK'
  BY Zenon, <1>1 DEF Write, TypeOK, Steps
<1>3. LeaseInv'
  BY Zenon, <1>1 DEF Write, TypeOK, LeaseInv, Working, Steps
<1>4. LockInv' /\ WriterInv'
  BY Zenon, <1>1 DEF Write, TypeOK, LockInv, WriterInv
<1>5. \E bound \in Nat : \A g \in store'.gens : g <= bound
  <2>1. PICK bound \in Nat : \A g \in store.gens : g <= bound
    BY Zenon DEF StoreInv
  <2>2. gen[e] \in Nat /\ store.gens \subseteq Nat
    BY Zenon DEF TypeOK
  <2>3. bound + gen[e] \in Nat /\ \A g \in store'.gens : g <= bound + gen[e]
    BY <1>1, <2>1, <2>2
  <2> QED
    BY Zenon, <2>3
<1>6. StoreInv' /\ ServeInv'
  BY Zenon, <1>1, <1>5 DEF Write, StoreInv, CurrentIsOnDisk, ServeInv
<1> QED
  BY Zenon, <1>2, <1>3, <1>4, <1>6

\* The pointer moves to the generation just written, which prune() keeps.
LEMMA PointKeeps == ASSUME IInv, NEW e \in Edges, Point(e) PROVE IInv'
<1> USE DEF IInv
<1>1. gen[e] \in Nat /\ gen[e] > 0 /\ gen[e] > store.current /\ gen[e] \in store.gens
  BY Zenon DEF Point, Goto, TypeOK, LeaseInv, WriterInv, Working, Steps
<1>2. Kept(store.gens, gen[e]) \subseteq store.gens /\ gen[e] \in Kept(store.gens, gen[e])
  BY <1>1 DEF Kept
<1>3. /\ store' \in [current : Nat, gens : SUBSET Nat, lock : Edges \cup {NoEdge}]
      /\ store'.current = gen[e] /\ store'.lock = NoEdge
      /\ store'.gens = Kept(store.gens, gen[e])
      /\ pc[e] = "point" /\ pc' = [pc EXCEPT ![e] = "release"]
  <2>1. Kept(store.gens, gen[e]) \in SUBSET Nat
    BY Zenon, <1>2 DEF TypeOK
  <2> QED
    BY Zenon, <1>1, <2>1 DEF Point, Goto, WithCurrent, TypeOK
<1>4. store.lock = e /\ \A d \in Edges \ {e} : pc[d] \notin {"write", "point"}
  BY Zenon, <1>3 DEF LockInv
<1>5. TypeOK'
  BY Zenon, <1>1, <1>3 DEF Point, TypeOK, Steps
<1>6. LeaseInv'
  BY Zenon, <1>1, <1>3 DEF Point, TypeOK, LeaseInv
<1>7. LockInv' /\ WriterInv'
  BY Zenon, <1>3, <1>4, AcmeAssumption DEF TypeOK, LockInv, WriterInv
<1>8. StoreInv'
  BY <1>1, <1>2, <1>3 DEF Point, TypeOK, StoreInv, CurrentIsOnDisk
<1>9. ServeInv'
  BY Zenon DEF Point, TypeOK, ServeInv
<1> QED
  BY Zenon, <1>5, <1>6, <1>7, <1>8, <1>9

\* A failed write leaves the pointer as it was.
LEMMA WriteFailsKeeps == ASSUME IInv, NEW e \in Edges, WriteFails(e) PROVE IInv'
BY FailsKeeps DEF WriteFails, Fault, IInv, TypeOK, Working, Steps

\* The lease is released or left to expire.
LEMMA ReleaseKeeps ==
    ASSUME IInv, NEW e \in Edges, Release(e) \/ ReleaseFails(e) PROVE IInv'
<1>1. pc[e] = "release" /\ pc' = [pc EXCEPT ![e] = "run"]
  BY Zenon DEF Release, ReleaseFails, Goto
<1>2. LeaseAfterRelease(lease, e, gen[e]) \in LeaseType /\ LeaseAfterRelease(lease, e, gen[e]).gen = lease.gen
      /\ (LeaseAfterRelease(lease, e, gen[e]).owner # NoEdge => lease.owner # NoEdge)
  BY Zenon DEF LeaseAfterRelease, LeaseType, IInv, TypeOK
<1>3. lease' \in LeaseType /\ (lease'.owner # NoEdge => lease'.gen > 0)
  BY Zenon, <1>2 DEF Release, ReleaseFails, IInv, TypeOK, LeaseInv
<1>4. gen' \in [Edges -> Nat] /\ \A d \in Edges \ {e} : gen'[d] = gen[d]
  BY DEF Release, ReleaseFails, IInv, TypeOK
<1>5. "run" \in Steps \ {"write", "point"} /\ "run" \notin Working
  BY Zenon DEF Steps, Working
<1>6. faults' \in Nat /\ UNCHANGED <<store, min, installed, delayed, status, due, expired, published, starts>>
  BY DEF Release, ReleaseFails, Fault, IInv, TypeOK
<1> QED
  BY Zenon, <1>1, <1>3, <1>4, <1>5, <1>6, AsideKeeps DEF IInv, TypeOK, ServeInv

\* A restart drops the file lock and serves what load_current finds.
LEMMA RestartKeeps == ASSUME IInv, NEW e \in Edges, Restart(e) PROVE IInv'
<1> DEFINE serving == Refreshed(0)
<1>1. serving \in published \cup {0}
  BY Zenon, RefreshForward DEF IInv
<1>2. published \subseteq Nat
  BY Zenon DEF IInv, TypeOK
<1>3. installed' = [installed EXCEPT ![e] = serving]
  BY Zenon DEF Restart
<1> HIDE DEF serving
<1>4. installed' \in [Edges -> Nat] /\ \A d \in Edges : installed'[d] \in published \cup {0}
  BY <1>1, <1>2, <1>3 DEF IInv, ServeInv, TypeOK
<1>5. delayed' \in SUBSET Edges /\ faults' \in Nat /\ starts' \in [Edges -> Nat]
  BY DEF Restart, Fault, IInv, TypeOK
<1> QED
  BY Zenon, <1>4, <1>5, LetGoKeeps DEF Restart, IInv, TypeOK

\* The passing of time and the faults of Valkey touch the lease and the clocks.
LEMMA TimeKeeps ==
    ASSUME IInv, \/ \E e \in Edges : DelayPasses(e)
                 \/ LeaseRunsOut \/ LeaseLost \/ ValkeyLosesData \/ BecomesDue \/ Expires
    PROVE  IInv'
<1> DEFINE Passed == /\ UNCHANGED <<store, pc, gen, min, installed, status, published, starts>>
                     /\ lease' \in LeaseType /\ (lease'.owner # NoEdge => lease'.gen > 0)
                     /\ delayed' \in SUBSET Edges /\ faults' \in Nat
                     /\ due' \in Nat /\ expired' \in Nat /\ expired' <= due'
<1>0. TypeOK /\ LeaseInv /\ expired <= due
  BY Zenon DEF IInv, ServeInv
<1>1. ASSUME LeaseRunsOut \/ LeaseLost \/ ValkeyLosesData PROVE Passed
  <2>1. /\ UNCHANGED <<store, pc, gen, min, installed, status, published, starts, delayed, due, expired>>
        /\ lease' = LeaseAfterExpiry(lease) \/ lease' = NoLease
        /\ faults' = faults \/ Fault
    BY Zenon, <1>1 DEF LeaseRunsOut, LeaseLost, ValkeyLosesData
  <2>2. lease' \in LeaseType /\ (lease'.owner # NoEdge => lease'.gen > 0)
    BY <1>0, <2>1 DEF LeaseAfterExpiry, NoLease, LeaseType, TypeOK
  <2>3. faults' \in Nat
    BY <1>0, <2>1 DEF Fault, TypeOK
  <2> QED
    BY Zenon, <1>0, <2>1, <2>2, <2>3 DEF TypeOK
<1>2. ASSUME BecomesDue \/ Expires PROVE Passed
  <2>1. /\ UNCHANGED <<lease, store, pc, gen, min, installed, status, published, starts, delayed, faults>>
        /\ \/ due' = due + 1 /\ expired' = expired
           \/ expired < due /\ expired' = expired + 1 /\ due' = due
    BY Zenon, <1>2 DEF BecomesDue, Expires
  <2>2. due' \in Nat /\ expired' \in Nat /\ expired' <= due'
    BY <1>0, <2>1 DEF TypeOK
  <2> QED
    BY Zenon, <1>0, <2>1, <2>2 DEF TypeOK, LeaseInv
<1>3. ASSUME NEW e \in Edges, DelayPasses(e) PROVE Passed
  BY Zenon, <1>0, <1>3 DEF DelayPasses, TypeOK, LeaseInv
<1>4. Passed
  BY Zenon, <1>1, <1>2, <1>3
<1> QED
  BY Zenon, <1>4 DEF IInv, TypeOK, LeaseInv, LockInv, WriterInv, StoreInv, CurrentIsOnDisk, ServeInv

\* An empty store and a free lease satisfy the invariant.
LEMMA InitHolds == Init => IInv
<1> SUFFICES ASSUME Init PROVE IInv
  BY Zenon
<1>1. TypeOK
  BY Zenon, AcmeAssumption DEF Init, TypeOK, NoLease, EmptyStore, LeaseType, Steps
<1>2. LeaseInv /\ LockInv /\ WriterInv
  BY Zenon, AcmeAssumption DEF Init, NoLease, EmptyStore, LeaseInv, LockInv, WriterInv, Working
<1>3. StoreInv /\ ServeInv
  BY DEF Init, EmptyStore, StoreInv, CurrentIsOnDisk, ServeInv
<1> QED
  BY Zenon, <1>1, <1>2, <1>3 DEF IInv

\* Every step keeps the invariant.
LEMMA StepKeeps == IInv /\ [Next]_vars => IInv'
<1> SUFFICES ASSUME IInv, [Next]_vars PROVE IInv'
  BY Zenon
<1>1. CASE UNCHANGED vars
  BY Zenon, <1>1 DEF vars, IInv, TypeOK, LeaseInv, LockInv, WriterInv, StoreInv, CurrentIsOnDisk, ServeInv
<1>2. ASSUME NEW e \in Edges, Work(e) PROVE IInv'
  BY Zenon, <1>2, WakeKeeps, AcquireKeeps, RecheckKeeps, OrderKeeps, LockKeeps, WriteKeeps,
     PointKeeps, ReleaseKeeps DEF Work
<1>3. ASSUME NEW e \in Edges,
             AcquireFails(e) \/ OrderFails(e) \/ FenceFails(e) \/ WriteFails(e)
             \/ ReleaseFails(e) \/ Restart(e)
      PROVE IInv'
  BY Zenon, <1>3, AcquireKeeps, OrderKeeps, WriteFailsKeeps, ReleaseKeeps, RestartKeeps
<1> QED
  BY Zenon, <1>1, <1>2, <1>3, TimeKeeps DEF Next

---------------------------------------------------------------------------
(* The theorems *)

\* IInv holds in every reachable state.
LEMMA Invariant == Spec => []IInv
BY InitHolds, StepKeeps, PTL DEF Spec

\* What a round of the loop or the second look at the store does to the
\* resolver of an Edge is a step of the register, or none.
LEMMA RefreshImplements ==
    ASSUME IInv, NEW e \in Edges, installed' = [installed EXCEPT ![e] = Refreshed(installed[e])],
           UNCHANGED <<published, starts>>
    PROVE  [Register!RegisterNext]_Register!registerVars
<1> DEFINE serving == Refreshed(installed[e])
<1>1. installed[e] \in published \cup {0} /\ installed \in [Edges -> Nat]
  BY Zenon DEF IInv, ServeInv, TypeOK
<1>2. serving # installed[e] => serving \in published /\ serving > installed[e]
  BY Zenon, <1>1, RefreshForward DEF IInv
<1>3. installed' = [installed EXCEPT ![e] = serving]
  BY Zenon
<1> HIDE DEF serving
<1>4. CASE serving = installed[e]
  BY Zenon, <1>1, <1>3, <1>4 DEF Register!registerVars
<1>5. CASE serving # installed[e]
  BY Zenon, <1>2, <1>3, <1>5 DEF Register!RegisterNext, Register!Follow
<1> QED
  BY Zenon, <1>4, <1>5

\* The new generation is newer than everything that was published.
LEMMA PointImplements ==
    ASSUME IInv, NEW e \in Edges, Point(e) PROVE Register!RegisterNext
<1>1. gen[e] \in Nat \ {0} /\ gen[e] > store.current
  BY DEF Point, Goto, IInv, TypeOK, LeaseInv, WriterInv, Working, Steps
<1>2. \A p \in published : p < gen[e]
  BY <1>1 DEF IInv, TypeOK, StoreInv
<1>3. gen[e] \in published' \ published
  BY <1>1, <1>2 DEF Point
<1> QED
  BY Zenon, <1>1, <1>2, <1>3 DEF Point, Register!RegisterNext, Register!Publish

\* A restarted Edge serves something that was published, or nothing.
LEMMA RestartImplements ==
    ASSUME IInv, NEW e \in Edges, Restart(e) PROVE Register!RegisterNext
<1>1. Refreshed(0) \in published \cup {0}
  BY Zenon, RefreshForward DEF IInv
<1> QED
  BY Zenon, <1>1 DEF Restart, Register!RegisterNext, Register!Reload

\* Every step of the Edges is a step of the register or leaves it alone.
LEMMA StepImplements ==
    IInv /\ [Next]_vars => [Register!RegisterNext]_Register!registerVars
<1> SUFFICES ASSUME IInv, [Next]_vars PROVE [Register!RegisterNext]_Register!registerVars
  BY Zenon
<1>1. CASE UNCHANGED vars
  BY Zenon, <1>1 DEF vars, Register!registerVars
<1>2. ASSUME NEW e \in Edges, Wake(e) \/ Recheck(e)
      PROVE  [Register!RegisterNext]_Register!registerVars
  BY Zenon, <1>2, RefreshImplements DEF Wake, Recheck
<1>3. ASSUME NEW e \in Edges, Point(e) \/ Restart(e)
      PROVE  [Register!RegisterNext]_Register!registerVars
  BY Zenon, <1>3, PointImplements, RestartImplements
<1>4. ASSUME NEW e \in Edges,
             \/ Acquire(e) \/ AcquireFails(e) \/ OrderSucceeds(e) \/ OrderFails(e)
             \/ Fence(e) \/ FenceFails(e) \/ Lock(e) \/ Write(e) \/ WriteFails(e)
             \/ Release(e) \/ ReleaseFails(e) \/ DelayPasses(e)
      PROVE  UNCHANGED Register!registerVars
  BY Zenon, <1>4 DEF Acquire, AcquireFails, OrderSucceeds, OrderFails, Fence, FenceFails, Lock, Write,
              WriteFails, Release, ReleaseFails, DelayPasses, Fails, Register!registerVars
<1>5. CASE LeaseRunsOut \/ LeaseLost \/ ValkeyLosesData \/ BecomesDue \/ Expires
  BY Zenon, <1>5 DEF LeaseRunsOut, LeaseLost, ValkeyLosesData, BecomesDue, Expires, Register!registerVars
<1> QED
  BY Zenon, <1>1, <1>2, <1>3, <1>4, <1>5 DEF Next, Work

\* The Edges and their shared store implement the register, whatever happens
\* to the lease: the active generation only moves forward, and a running Edge
\* never goes back to an older certificate.
THEOREM Refinement == Spec => ImplementsRegister
<1>1. Init => Register!RegisterInit
  BY Zenon DEF Init, Register!RegisterInit
<1> QED
  BY <1>1, Invariant, StepImplements, PTL DEF Spec, ImplementsRegister, Register!RegisterSpec

\* The pointer always names a complete generation: store() writes the
\* directory first, and prune() keeps the active one.
THEOREM OnDisk == Spec => []CurrentIsOnDisk
<1>1. IInv => CurrentIsOnDisk
  BY Zenon DEF IInv, StoreInv
<1> QED
  BY <1>1, Invariant, PTL

\* An Edge that got the lease orders only while the active certificate is
\* due, since it looks at the store again first.
THEOREM NeededOrders == Spec => NoNeedlessOrder
<1> DEFINE Needed == \A e \in Edges : pc[e] = "holding" /\ pc'[e] = "ordering" => store.current <= due
<1>1. ASSUME IInv, Next PROVE Needed
  <2> SUFFICES ASSUME NEW e \in Edges, pc[e] = "holding", pc'[e] = "ordering"
               PROVE  store.current <= due
    BY Zenon
  <2>1. pc \in [Edges -> Steps]
    BY Zenon, <1>1 DEF IInv, TypeOK
  <2>2. PICK d \in Edges : Recheck(d) /\ d = e
    BY Zenon, <1>1, <2>1 DEF Next, Work, Wake, Acquire, Recheck, OrderSucceeds, Fence, Lock, Write, Point,
         Release, DelayPasses, AcquireFails, OrderFails, FenceFails, WriteFails, ReleaseFails,
         Restart, LeaseRunsOut, LeaseLost, ValkeyLosesData, BecomesDue, Expires, Goto, Fails
  <2>3. Refreshed(installed[e]) = 0 \/ Refreshed(installed[e]) <= due
    BY Zenon, <2>1, <2>2 DEF Recheck, Goto, Due
  <2>4. installed[e] \in published \cup {0}
    BY Zenon, <1>1 DEF IInv, ServeInv
  <2> QED
    BY Zenon, <1>1, <2>3, <2>4, RefreshForward DEF IInv
<1>2. IInv /\ [Next]_vars => [Needed]_vars
  BY Zenon, <1>1
<1> QED
  BY <1>2, Invariant, PTL DEF Spec, NoNeedlessOrder

---------------------------------------------------------------------------
(* The composition *)

\* The orders of the Edges and the two kinds of challenge share no key and no
\* file, so a behaviour of the ACME manager is one of each: what is proved above
\* of one of them holds where all are (AcmeManager, Http01Challenges, TxtChallengeSolver).
THEOREM AcmeRefinesEach == AcmeSpec => Spec /\ HttpSpec /\ TxtSpec
<1>1. AcmeInit => Init /\ HttpInit /\ TxtInit
  BY Zenon DEF AcmeInit
<1>2. [AcmeNext]_acmeVars => [Next]_vars /\ [HttpNext]_httpVars /\ [TxtNext]_txtVars
  BY Zenon DEF AcmeNext, acmeVars
<1> QED
  BY <1>1, <1>2, PTL DEF AcmeSpec, Spec, HttpSpec, TxtSpec
=============================================================================
