--------------------------- MODULE MCClaimRotation ---------------------------
(***************************************************************************)
(* Instances of ClaimRotation for TLC.                                     *)
(***************************************************************************)
EXTENDS ClaimRotation

CONSTANTS d1, d2, d3, ep1, ep2, ws1

\* Two endpoints of one workspace: one with a backlog of two, one with one.
MCEndpointOf == [d \in Delivery |-> IF d = d3 THEN ep2 ELSE ep1]
MCWorkspaceOf == [ep \in Endpoint |-> ws1]

=============================================================================
