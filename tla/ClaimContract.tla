---------------------------- MODULE ClaimContract ----------------------------
(***************************************************************************)
(* What claim_deliveries promises the queue, without statements, snapshots *)
(* or locks: a call takes effect at once, or not at all.  The deliveries   *)
(* it hands out can all be claimed at that time and are within the limits  *)
(* of the call and the capacity left on their endpoints.  ClaimDeliveries  *)
(* of DeliveryQueue takes its leases on these terms.                       *)
(***************************************************************************)
EXTENDS Integers, FiniteSets

CONSTANTS
  Delivery, Endpoint, Workspace,
  EndpointOf, WorkspaceOf,  \* the endpoint of a delivery, the workspace of an endpoint
  MaxConcurrency, BatchLimit, WorkspaceLimit, EndpointLimit

VARIABLE row  \* "ready", "live", "expired" or "closed"

OfEndpoint(S, ep) == {d \in S : EndpointOf[d] = ep}
OfWorkspace(S, ws) == {d \in S : WorkspaceOf[EndpointOf[d]] = ws}

Eligible == {d \in Delivery : row[d] \in {"ready", "expired"}}
LiveLeases(ep) == OfEndpoint({d \in Delivery : row[d] = "live"}, ep)

\* A call may lease all of S.
WithinLimits(S) ==
  /\ Cardinality(S) <= BatchLimit
  /\ \A ws \in Workspace : Cardinality(OfWorkspace(S, ws)) <= WorkspaceLimit
  /\ \A ep \in Endpoint :
       OfEndpoint(S, ep) # {} =>
         /\ Cardinality(OfEndpoint(S, ep)) <= EndpointLimit
         /\ Cardinality(LiveLeases(ep)) + Cardinality(OfEndpoint(S, ep)) <= MaxConcurrency

Claim(S) ==
  /\ S \subseteq Eligible
  /\ WithinLimits(S)
  /\ row' = [d \in Delivery |-> IF d \in S THEN "live" ELSE row[d]]

Change(d, from, to) == row[d] \in from /\ row' = [row EXCEPT ![d] = to]

\* A lease runs out, a delivery is decided or put off, a delivery is due again.
Expire(d) == Change(d, {"live"}, "expired")
Close(d)  == Change(d, {"ready", "live", "expired"}, "closed")
Reopen(d) == Change(d, {"closed"}, "ready")

Init == row = [d \in Delivery |-> "ready"]

Next ==
  \/ \E S \in SUBSET Delivery : Claim(S)
  \/ \E d \in Delivery : Expire(d) \/ Close(d) \/ Reopen(d)

Spec == Init /\ [][Next]_row

=============================================================================
