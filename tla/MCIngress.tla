----------------------------- MODULE MCIngress ------------------------------
\* An instance of Ingress for TLC.
EXTENDS Ingress

CONSTANTS r1, r2, r3, t1, t2, p1, s1, s2, s3, s4, ip1, ip2, ip3, edge2, edge3, waf, geo, n1, n2, n3

---------------------------------------------------------------------------
(* PermitTable *)

\* Two requests of one tenant and one of another, all to the same peer.
TenantOf == [t \in Tasks |-> IF t = r3 THEN t2 ELSE t1]

PeerOf == [t \in Tasks |-> p1]

\* The tenants are narrower than the peer they share.
Budgets == [k \in Keys |-> IF k = p1 THEN 2 ELSE 1]

---------------------------------------------------------------------------
(* TcpAdmission *)

TcpPolicy(enforce, blocked, perListener, perAddress) ==
    [enabled |-> TRUE, enforce |-> enforce, blocked |-> blocked,
     perListener |-> perListener, perAddress |-> perAddress]

\* Both limits, one of them in monitor mode, the other with a blocked address,
\* and no policy.
TcpPolicies ==
    {TcpPolicy(TRUE, {}, 2, 1), TcpPolicy(FALSE, {}, 1, 0), TcpPolicy(TRUE, {ip1}, 0, 2),
     [TcpPolicy(TRUE, {}, 0, 0) EXCEPT !.enabled = FALSE]}

---------------------------------------------------------------------------
(* HttpProxy *)

\* A policy with a plugin, one that is switched off, and one in monitor mode
\* with two plugins.
PolicyLoads == <<[enabled |-> TRUE, enforce |-> TRUE, plugins |-> <<waf>>],
                 [enabled |-> FALSE, enforce |-> TRUE, plugins |-> <<waf>>],
                 [enabled |-> TRUE, enforce |-> FALSE, plugins |-> <<waf, geo>>]>>

PluginSlots == [p \in {waf, geo} |-> IF p = waf THEN 2 ELSE 1]

PeersInOrder == <<edge2, edge3>>

\* One request while Connectors come and go, or up to four connections to a
\* local Connector while the policy is reloaded.
Starts ==
    {[connectors |-> f, bounds |-> [moves |-> 3, reloads |-> 0, upgrades |-> 1, conns |-> 1]] :
        f \in [HttpEdges -> Tenants \cup {NoTenant}]}
    \cup
    {[connectors |-> [e \in HttpEdges |-> IF e = Self THEN t1 ELSE NoTenant],
      bounds |-> [moves |-> 0, reloads |-> 2, upgrades |-> 0, conns |-> 4]]}
=============================================================================
