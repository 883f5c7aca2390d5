--------------------------- MODULE MCMeshForward ---------------------------
\* Instances of MeshForward for TLC.
EXTENDS MeshForward

CONSTANTS p1, p2

TwoPeers == <<p1, p2>>

\* One hostname is served behind two peers, the others behind the first only.
FirstBehindBoth == [r \in Requests |-> IF r = 1 THEN {p1, p2} ELSE {p1}]
=============================================================================
