-------------------------- MODULE MCDnsReconciler --------------------------
(* Instances of DnsReconciler for TLC. *)
EXTENDS DnsReconciler

CONSTANTS e1, e2

\* An address record, another with two values, and none; one TTL.
OneTtl == {{<<"a", 1>>}, {<<"b", 1>>, <<"c", 1>>}, {}}
\* The values change, alone or together with the TTL.
AllChanges == {{<<"a", 1>>}, {<<"a", 2>>, <<"b", 2>>}, {<<"c", 1>>}, {}}
\* A change of the value and of the TTL.
TwoTtls == {{<<"a", 1>>}, {<<"b", 2>>}}

OthersRecord == {{<<"x", 1>>}}
=============================================================================
