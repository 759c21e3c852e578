--------------------------- MODULE MCDeliveryQueue ---------------------------
(***************************************************************************)
(* Instances of DeliveryQueue for TLC.                                     *)
(***************************************************************************)
EXTENDS DeliveryQueue, TLC

CONSTANTS d1, d2, d3, e1, ep1, ws1

\* The deliveries of one event to one endpoint.
MCEventOf == [d \in Delivery |-> e1]
MCEndpointOf == [d \in Delivery |-> ep1]
MCWorkspaceOf == [ep \in Endpoint |-> ws1]

Symmetry == Permutations(Worker) \cup Permutations(Delivery) \cup Permutations(Key)

=============================================================================
