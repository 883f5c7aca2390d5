------------------------- MODULE MCConnectorClient -------------------------
(* Instances of ConnectorClient for TLC. *)
EXTENDS ConnectorClient

CONSTANTS p1, p2, e1, e2

\* One process: connected to two Edges, with streams from both, or with a
\* heartbeat; and connected to one Edge with all kinds of traffic and one fault
\* more.
OneProcess ==
    LET both == {<<p1, e1>>, <<p1, e2>>}
    IN  {[links |-> both, beating |-> {}, busy |-> {e1, e2}, udp |-> {}, faults |-> 1],
         [links |-> both, beating |-> {p1}, busy |-> {}, udp |-> {}, faults |-> 1],
         [links |-> {<<p1, e1>>}, beating |-> {p1}, busy |-> {e1}, udp |-> {e1}, faults |-> 2]}

\* Two processes with one token at one Edge.
SharedToken ==
    {[links |-> {<<p1, e1>>, <<p2, e1>>}, beating |-> {}, busy |-> {e1}, udp |-> {e1},
      faults |-> 1]}
=============================================================================
