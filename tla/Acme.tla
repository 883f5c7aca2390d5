-------------------------------- MODULE Acme --------------------------------
(***************************************************************************)
(* The AcmeManager of each Edge: the orders of the certificate, and the two*)
(* ways to prove control of its domain, of which the configuration selects *)
(* one.  An order waits for its challenge and neither reads the other's    *)
(* state, so a behaviour runs one part, which is chosen at the start.      *)
(***************************************************************************)
EXTENDS AcmeManager, Http01, TxtSolver

VARIABLE part   \* the orders, or settings.challenge

acmeVars == <<part, vars, httpVars, txtVars>>

\* A part that does not run starts in one state.
AcmeInit ==
    /\ part \in {"orders", "http-01", "dns-01"}
    /\ Init /\ HttpInit /\ TxtInit
    /\ part # "dns-01" => adapter = "cloudflare"

\* The manager never stops; a challenge has no step once its orders are over.
AcmeNext ==
    /\ UNCHANGED part
    /\ \/ part = "orders" /\ Next /\ UNCHANGED <<httpVars, txtVars>>
       \/ part = "http-01" /\ HttpNext /\ UNCHANGED <<vars, txtVars>>
       \/ part = "dns-01" /\ TxtNext /\ UNCHANGED <<vars, httpVars>>
       \/ part # "orders" /\ UNCHANGED <<vars, httpVars, txtVars>>

\* Every Edge keeps running its loop, retry delays included, and the key of a
\* lease has a time to live.  Sync loops run for ever, an order is ended by its
\* time-out, and a challenge that was left behind expires.  Nothing is assumed
\* of faults.
AcmeFairness ==
    /\ \A e \in Edges :
          /\ WF_vars(part = "orders" /\ (Work(e) \/ DelayPasses(e)))
          /\ WF_httpVars(part = "http-01" /\ Sync(e))
    /\ WF_vars(part = "orders" /\ LeaseRunsOut)
    /\ \A t \in Tokens :
          WF_httpVars(part = "http-01" /\ (EndOrder(t) \/ PendingExpires(t)))

AcmeSpec == AcmeInit /\ [][AcmeNext]_acmeVars /\ AcmeFairness

-----------------------------------------------------------------------------

\* A missing or due certificate is replaced in the end, also after an
\* interrupted store has left the directory of a generation behind.
RenewalHappens == (part = "orders" /\ store.current <= due) ~> (store.current > due)
=============================================================================
