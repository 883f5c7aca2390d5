------------------------------ MODULE MCAcme -------------------------------
(* Instances of Acme for TLC. *)
EXTENDS Acme

CONSTANTS e1, e2, t1, o1, o2, w1
=============================================================================
