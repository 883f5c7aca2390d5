---------------------------- MODULE ControlPlane ----------------------------
(***************************************************************************)
(* What the Edges keep in Valkey about hostnames: who owns one             *)
(* (HostnameOwnership) and where its Connector is (RouteAdvertiser).  The  *)
(* two have their own keys and meet only in the registry of an Edge, so a  *)
(* behaviour runs one of them; which one is chosen at the start.           *)
(***************************************************************************)
EXTENDS RouteAdvertiser, HostnameOwnership

VARIABLE plane

ControlInit == plane \in {"routes", "ownership"} /\ Init /\ OwnershipInit

ControlNext ==
    /\ UNCHANGED plane
    /\ \/ plane = "routes" /\ Next /\ UNCHANGED ownershipVars
       \/ plane = "ownership" /\ OwnershipNext /\ UNCHANGED vars

ControlSpec == ControlInit /\ [][ControlNext]_<<plane, vars, ownershipVars>>
=============================================================================
