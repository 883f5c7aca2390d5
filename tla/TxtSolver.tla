----------------------------- MODULE TxtSolver -----------------------------
(***************************************************************************)
(* DNS-01 validation: TxtChallengeSolver adds the value of an order to the *)
(* `_acme-challenge` record set of its domain and removes it afterwards.   *)
(* Orders of one domain (a name and its wildcard, on two Edges) share the  *)
(* record set with each other and with values of operators.  A value is    *)
(* journaled before it is added; a starting Edge removes what the journal  *)
(* says was left behind, unless another Edge holds a lease of the domain.  *)
(*                                                                         *)
(* The provider is Cloudflare (one record per value, changed one by one) or*)
(* Route 53 (the whole set, replaced by a batch that fails if it changed). *)
(* Each Edge runs one task at a time: an order, or a cleanup.              *)
(***************************************************************************)
EXTENDS Lease, FiniteSets

CONSTANTS Orders,         \* orders of the domain, and the TXT value of each
          NoOrder,
          OperatorValues, \* values operators keep in the same record set
          MaxAttempts,    \* MAX_ATTEMPTS
          MaxTxtFaults,   \* bound: crashes and failed calls
          MaxEdits        \* bound: changes by operators

ASSUME TxtAssumption ==
    /\ NoOrder \notin Orders /\ NoEdge \notin Edges
    /\ Orders \cap OperatorValues = {}

VARIABLES adapter,   \* the kind of provider
          zone,      \* the values of the record set at the provider
          journal,   \* the journal file the Edges share
          holder,    \* the Edge that holds the lease of each order
          started,   \* the orders that have been started
          tpc,       \* the step of each Edge's task
          task,      \* the order it is about
          current,   \* the record set it has read
          attempt,   \* the attempt it is in
          entries,   \* what a starting Edge has left of the journal it read
          edits, txtFaults

provider == <<adapter, zone, edits>>
txtVars == <<provider, journal, holder, started, tpc, task, current, attempt,
             entries, txtFaults>>

TxtInit ==
    /\ adapter \in {"cloudflare", "route53"}
    /\ zone = OperatorValues /\ edits = 0
    /\ journal = {} /\ started = {} /\ txtFaults = 0
    /\ holder = [o \in Orders |-> NoEdge]
    /\ tpc = [e \in Edges |-> "idle"] /\ task = [e \in Edges |-> NoOrder]
    /\ current = [e \in Edges |-> {}] /\ attempt = [e \in Edges |-> 0]
    /\ entries = [e \in Edges |-> {}]

TxtFault == txtFaults < MaxTxtFaults /\ txtFaults' = txtFaults + 1

Begin(e, o, step) ==
    /\ tpc[e] = "idle"
    /\ tpc' = [tpc EXCEPT ![e] = step]
    /\ task' = [task EXCEPT ![e] = o]
    /\ attempt' = [attempt EXCEPT ![e] = 1]

\* The end of a task.  An order releases its lease, which may fail; a cleanup
\* has taken none, and one that its Edge took before it restarted stays or has
\* expired by now.
Finish(e) ==
    /\ tpc' = [tpc EXCEPT ![e] = "idle"]
    /\ task' = [task EXCEPT ![e] = NoOrder]
    /\ current' = [current EXCEPT ![e] = {}]
    /\ attempt' = [attempt EXCEPT ![e] = 0]
    /\ \/ holder' = [o \in Orders |->
                        IF o = task[e] /\ holder[o] = e THEN NoEdge ELSE holder[o]]
       \/ UNCHANGED holder

-----------------------------------------------------------------------------
(* The provider *)

\* Mutant: the set is overwritten whatever it has become.
AcceptsAny(listed) == TRUE

\* A change from the listed set to another is refused by Route 53 when the
\* set is not the listed one any more; Cloudflare changes single values.
Accepts(listed) == adapter = "cloudflare" \/ zone = listed

Changed(listed, desired) ==
    IF adapter = "cloudflare"
    THEN (zone \cup (desired \ listed)) \ (listed \ desired)
    ELSE desired

-----------------------------------------------------------------------------
(* add and remove *)

\* An order begins: it has the lease of its domain, and journals its value.
JournalAdd(e, o) ==
    /\ entries[e] = {} /\ o \notin started
    /\ Begin(e, o, "get")
    /\ started' = started \cup {o}
    /\ holder' = [holder EXCEPT ![o] = e]
    /\ journal' = journal \cup {o}
    /\ UNCHANGED <<provider, current, entries, txtFaults>>

Removing(e) == tpc[e] \in {"unget", "remove", "drop"}
Desired(e) == IF Removing(e) THEN current[e] \ {task[e]} ELSE current[e] \cup {task[e]}

\* Both read the record set first; there may be nothing to change.
ObservedSet(e) ==
    /\ tpc[e] \in {"get", "unget"}
    /\ current' = [current EXCEPT ![e] = zone]
    /\ tpc' = [tpc EXCEPT ![e] =
                  IF Removing(e) THEN (IF task[e] \in zone THEN "remove" ELSE "gone")
                  ELSE (IF task[e] \in zone THEN "added" ELSE "add")]
    /\ UNCHANGED <<zone, attempt>>

\* retry_or_fail: another attempt, or an error after the last one.
RetryOrFail(e) ==
    /\ IF attempt[e] < MaxAttempts
       THEN /\ tpc' = [tpc EXCEPT ![e] = IF Removing(e) THEN "unget" ELSE "get"]
            /\ attempt' = [attempt EXCEPT ![e] = @ + 1]
       ELSE /\ tpc' = [tpc EXCEPT ![e] = "failed"] /\ UNCHANGED attempt
    /\ UNCHANGED <<zone, current>>

\* replace lists the record set again and compares it with what was read ...
Compare(e) ==
    /\ tpc[e] \in {"add", "remove"}
    /\ IF zone = current[e]
       THEN /\ tpc' = [tpc EXCEPT ![e] = IF Removing(e) THEN "drop" ELSE "post"]
            /\ UNCHANGED <<zone, attempt, current>>
       ELSE RetryOrFail(e)

\* ... and then the change reaches the provider.
Submit(e) ==
    /\ tpc[e] \in {"post", "drop"}
    /\ IF Accepts(current[e])
       THEN /\ zone' = Changed(current[e], Desired(e))
            /\ tpc' = [tpc EXCEPT ![e] = IF Removing(e) THEN "gone" ELSE "added"]
            /\ UNCHANGED <<attempt, current>>
       ELSE RetryOrFail(e)

\* A call is refused for its rate, before anything is done, ...
RateLimited(e) ==
    /\ TxtFault
    /\ tpc[e] \in {"add", "remove", "post", "drop"}
    /\ RetryOrFail(e)

\* ... or fails in another way: a change that was sent may have been applied.
CallFails(e) ==
    /\ TxtFault
    /\ tpc[e] \in {"get", "unget", "add", "remove", "post", "drop"}
    /\ tpc' = [tpc EXCEPT ![e] = "failed"]
    /\ \/ zone' = zone
       \/ tpc[e] \in {"post", "drop"} /\ Accepts(current[e])
          /\ zone' = Changed(current[e], Desired(e))
    /\ UNCHANGED <<attempt, current>>

Replace(e) ==
    /\ \/ (ObservedSet(e) \/ Compare(e) \/ Submit(e)) /\ UNCHANGED txtFaults
       \/ RateLimited(e) \/ CallFails(e)
    /\ UNCHANGED <<adapter, edits, journal, holder, started, task, entries>>

\* The order ends, whatever its outcome, and its value is to be removed.
EndTxtOrder(e) ==
    /\ tpc[e] = "added"
    /\ tpc' = [tpc EXCEPT ![e] = "unget"]
    /\ attempt' = [attempt EXCEPT ![e] = 1]
    /\ UNCHANGED <<provider, journal, holder, started, task, current, entries, txtFaults>>

\* The value is gone and the journal forgets it; the journal may fail.
JournalRemove(e) ==
    /\ tpc[e] = "gone"
    /\ Finish(e)
    /\ \/ journal' = journal \ {task[e]} /\ UNCHANGED txtFaults
       \/ TxtFault /\ UNCHANGED journal
    /\ UNCHANGED <<provider, started, entries>>

\* Mutant: the journal forgets the value of a failed task.
GiveUpAndForget(e) ==
    /\ tpc[e] = "failed"
    /\ Finish(e)
    /\ journal' = journal \ {task[e]}
    /\ UNCHANGED <<provider, started, entries, txtFaults>>

\* After an error the value, if it is there at all, stays in the journal: a
\* failed add is not followed by a removal.
GiveUp(e) ==
    /\ tpc[e] = "failed"
    /\ Finish(e)
    /\ UNCHANGED <<provider, journal, started, entries, txtFaults>>

-----------------------------------------------------------------------------
(* Restart and cleanup *)

\* The Edge stops or dies, and starts again: cleanup_dns01 reads the journal.
\* Its leases stay until they expire.
RestartTxt(e) ==
    /\ TxtFault
    /\ tpc' = [tpc EXCEPT ![e] = "idle"] /\ task' = [task EXCEPT ![e] = NoOrder]
    /\ current' = [current EXCEPT ![e] = {}] /\ attempt' = [attempt EXCEPT ![e] = 0]
    /\ entries' = [entries EXCEPT ![e] = journal]
    /\ UNCHANGED <<provider, journal, holder, started>>

\* A lease outlives its order (order_timeout_secs + 120): only one whose order
\* has been interrupted expires.
LeaseExpires(o) ==
    /\ holder[o] # NoEdge /\ task[holder[o]] # o
    /\ holder' = [holder EXCEPT ![o] = NoEdge]
    /\ UNCHANGED <<provider, journal, started, tpc, task, current, attempt,
                   entries, txtFaults>>

\* Mutant: the journal is taken for this Edge's own.
AnyRemovable(e) == TRUE

\* No lease of the domain, of the name or its wildcard, is another Edge's.
Removable(e) == \A o \in Orders : holder[o] \in {e, NoEdge}

\* An entry of the journal that was read is kept ...
KeepEntry(e, o) ==
    /\ tpc[e] = "idle" /\ o \in entries[e] /\ ~Removable(e)
    /\ entries' = [entries EXCEPT ![e] = @ \ {o}]
    /\ UNCHANGED <<provider, journal, holder, started, tpc, task, current, attempt, txtFaults>>

\* ... or its value removed, as at the end of an order.
CleanupEntry(e, o) ==
    /\ o \in entries[e] /\ Removable(e)
    /\ Begin(e, o, "unget")
    /\ entries' = [entries EXCEPT ![e] = @ \ {o}]
    /\ UNCHANGED <<provider, journal, holder, started, current, txtFaults>>

\* An operator adds or removes a value of theirs.
Edit(v) ==
    /\ edits < MaxEdits /\ edits' = edits + 1
    /\ zone' = IF v \in zone THEN zone \ {v} ELSE zone \cup {v}
    /\ UNCHANGED <<adapter, journal, holder, started, tpc, task, current, attempt,
                   entries, txtFaults>>

TxtNext ==
    \/ \E e \in Edges, o \in Orders :
          JournalAdd(e, o) \/ KeepEntry(e, o) \/ CleanupEntry(e, o)
    \/ \E e \in Edges :
          Replace(e) \/ EndTxtOrder(e) \/ JournalRemove(e) \/ GiveUp(e) \/ RestartTxt(e)
    \/ \E o \in Orders : LeaseExpires(o)
    \/ \E v \in OperatorValues : Edit(v)

TxtSpec == TxtInit /\ [][TxtNext]_txtVars

-----------------------------------------------------------------------------
(* Properties *)

\* A value of ours that is at the provider is in the journal, whatever call
\* failed and wherever an Edge died: nothing is left behind unrecorded.
LeftoverIsJournaled == zone \cap Orders \subseteq journal

\* From its add to its end an order's value stays at the provider: neither the
\* changes of another order in the same record set nor the cleanup of a
\* starting Edge removes it.
ValueStaysWhileNeeded == \A e \in Edges : tpc[e] = "added" => task[e] \in zone

\* No step of the solver adds or removes a value of an operator.
OperatorValuesKept ==
    [][edits' = edits => zone' \cap OperatorValues = zone \cap OperatorValues]_txtVars
=============================================================================
