------------------------ MODULE MCConnectorRegistry ------------------------
(* Instances of ConnectorRegistry for TLC. *)
EXTENDS ConnectorRegistry

CONSTANTS t1, t2, h1, h2

\* Two tokens of one tenant with overlapping hostnames, and another tenant
\* whose token conflicts with one of them only.
OverlappingTokens ==
    {[tenant |-> t1, hostnames |-> {h1}],
     [tenant |-> t1, hostnames |-> {h1, h2}],
     [tenant |-> t2, hostnames |-> {h2}]}

\* Two tokens of a single tenant.
OneTenantTokens ==
    {[tenant |-> t1, hostnames |-> {h1}],
     [tenant |-> t1, hostnames |-> {h2}]}
=============================================================================
