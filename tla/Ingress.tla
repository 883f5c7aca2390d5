------------------------------ MODULE Ingress -------------------------------
(***************************************************************************)
(* What an Edge keeps about the traffic it lets in: the stream budgets of  *)
(* the mesh, the rate limits, the admission of TCP connections, the UDP    *)
(* replies, the HTTP proxy and its certificates.  The parts share no       *)
(* state, so a behaviour runs one of them, which is chosen at the start.   *)
(***************************************************************************)
EXTENDS PermitTable, RateBuckets, TcpAdmission, UdpReplies, HttpProxy, CertResolver

VARIABLE part

ingressVars == <<part, vars, bucketVars, tcpVars, udpVars, httpVars, certVars>>

Parts == {"permits", "buckets", "tcp", "udp", "http", "certs"}

\* A part that does not run starts in one state.
IngressInit ==
    /\ part \in Parts
    /\ Init /\ BucketInit /\ TcpInit /\ UdpInit /\ HttpInit /\ CertInit
    /\ part # "tcp" => policy = CHOOSE p \in Policies : TRUE
    /\ part # "http" => [connectors |-> connectors, bounds |-> bounds] = CHOOSE s \in HttpStarts : TRUE

IngressNext ==
    /\ UNCHANGED part
    /\ \/ part = "permits" /\ Next /\ UNCHANGED <<bucketVars, tcpVars, udpVars, httpVars, certVars>>
       \/ part = "buckets" /\ BucketNext /\ UNCHANGED <<vars, tcpVars, udpVars, httpVars, certVars>>
       \/ part = "tcp" /\ TcpNext /\ UNCHANGED <<vars, bucketVars, udpVars, httpVars, certVars>>
       \/ part = "udp" /\ UdpNext /\ UNCHANGED <<vars, bucketVars, tcpVars, httpVars, certVars>>
       \/ part = "http" /\ HttpNext /\ UNCHANGED <<vars, bucketVars, tcpVars, udpVars, certVars>>
       \/ part = "certs" /\ CertNext /\ UNCHANGED <<vars, bucketVars, tcpVars, udpVars, httpVars>>

IngressSpec == IngressInit /\ [][IngressNext]_ingressVars
=============================================================================
