--------------------------- MODULE MCControlPlane ---------------------------
\* An instance of ControlPlane for TLC.
EXTENDS ControlPlane, TLC

CONSTANTS t1, t2, h1, h2, e1, e2

\* The second handler replaces the first.
OneTenant == [h \in Handlers |-> t1]

\* Two tenants whose tokens share a hostname.
SharedHostname ==
    {[tenant |-> t1, hostnames |-> {h1, h2}], [tenant |-> t2, hostnames |-> {h2}]}

\* The Edges that claim hostnames are interchangeable.
EdgeSymmetry == Permutations(Edges)
=============================================================================
