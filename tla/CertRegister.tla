---------------------------- MODULE CertRegister ----------------------------
(***************************************************************************)
(* What the Edges of a cluster are promised about the certificate of one   *)
(* domain: a register of generations that only moves forward, that every   *)
(* Edge follows without ever going back to an older generation.            *)
(***************************************************************************)
EXTENDS Integers

CONSTANT Edges

VARIABLES published,  \* the generations that have been the active one
          view,       \* the generation each Edge serves, 0 for none
          starts      \* how often each Edge has been started again

registerVars == <<published, view, starts>>

RegisterInit ==
    /\ published = {}
    /\ view = [e \in Edges |-> 0]
    /\ starts = [e \in Edges |-> 0]

\* A new generation becomes active.  It is newer than all before it, and the
\* Edge that ordered it serves it.
Publish(e) ==
    \E g \in published' \ published :
        /\ g \in Nat \ {0}
        /\ \A p \in published : p < g
        /\ published' = published \cup {g}
        /\ view' = [view EXCEPT ![e] = g]
        /\ UNCHANGED starts

\* An Edge picks up a newer generation that somebody has published.
Follow(e) ==
    /\ \E g \in published : g > view[e] /\ view' = [view EXCEPT ![e] = g]
    /\ UNCHANGED <<published, starts>>

\* A restarted Edge serves what the store has for it, or nothing.
Reload(e) ==
    /\ \E g \in published \cup {0} : view' = [view EXCEPT ![e] = g]
    /\ starts' = [starts EXCEPT ![e] = @ + 1]
    /\ UNCHANGED published

RegisterNext == \E e \in Edges : Publish(e) \/ Follow(e) \/ Reload(e)

RegisterSpec == RegisterInit /\ [][RegisterNext]_registerVars
=============================================================================
