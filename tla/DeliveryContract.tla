-------------------------- MODULE DeliveryContract --------------------------
(***************************************************************************)
(* What the delivery queue promises, without leases, workers, snapshots or *)
(* rows: every delivery is queued, granted to one holder at a time, or     *)
(* decided.  A grant takes a new fencing token; only the holder of the     *)
(* current token can record an outcome, once; a decision is left only by   *)
(* reopening an undelivered delivery as its next run.                      *)
(***************************************************************************)
EXTENDS Integers

CONSTANTS
  Delivery,
  MaxRun      \* a delivery is reopened at most MaxRun - 1 times

VARIABLES
  phase,      \* "queued", "granted", "delivered" or "undelivered"
  run,        \* the current run of a delivery
  token,      \* the last token granted, or consumed to revoke a grant
  outcomes    \* the outcomes recorded, each with the token it was recorded under

vars == <<phase, run, token, outcomes>>

Init ==
  /\ phase = [d \in Delivery |-> "queued"]
  /\ run = [d \in Delivery |-> 1]
  /\ token = [d \in Delivery |-> 0]
  /\ outcomes = [d \in Delivery |-> {}]

\* A holder gets the delivery; a previous holder, if any, loses it.
Grant(d) ==
  /\ phase[d] \in {"queued", "granted"}
  /\ phase'[d] = "granted"
  /\ token'[d] = token[d] + 1
  /\ run'[d] = run[d] /\ outcomes'[d] = outcomes[d]

\* The holder records its outcome and gives the grant back.
Settle(d) ==
  /\ phase[d] = "granted"
  /\ \/ /\ phase'[d] = "delivered"
        /\ outcomes'[d] = outcomes[d] \cup {<<token[d], "success">>}
     \/ /\ phase'[d] = "undelivered"
        /\ outcomes'[d] = outcomes[d] \cup {<<token[d], "permanent_failure">>}
     \/ /\ phase'[d] \in {"queued", "undelivered"}
        /\ outcomes'[d] = outcomes[d] \cup {<<token[d], "retry">>}
  /\ token'[d] = token[d] /\ run'[d] = run[d]

\* The system gives up: the attempts are exhausted, or the payload expired and
\* the token of whoever held the delivery is revoked.
Withdraw(d) ==
  /\ phase[d] \in {"queued", "granted"}
  /\ phase'[d] = "undelivered"
  /\ token'[d] \in {token[d], token[d] + 1}
  /\ run'[d] = run[d] /\ outcomes'[d] = outcomes[d]

\* A replay.
Reopen(d) ==
  /\ phase[d] = "undelivered"
  /\ run[d] < MaxRun
  /\ phase'[d] = "queued"
  /\ run'[d] = run[d] + 1
  /\ token'[d] = token[d] /\ outcomes'[d] = outcomes[d]

Stay(d) ==
  /\ phase'[d] = phase[d] /\ run'[d] = run[d]
  /\ token'[d] = token[d] /\ outcomes'[d] = outcomes[d]

Move(d) == Grant(d) \/ Settle(d) \/ Withdraw(d) \/ Reopen(d)

\* One transaction may move several deliveries at once.
Next == \A d \in Delivery : Move(d) \/ Stay(d)

Spec == Init /\ [][Next]_vars

=============================================================================
