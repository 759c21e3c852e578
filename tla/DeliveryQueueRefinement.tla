----------------------- MODULE DeliveryQueueRefinement -----------------------
(***************************************************************************)
(* The proof that DeliveryQueue implements DeliveryContract: every         *)
(* transaction grants, settles, withdraws or reopens the deliveries it     *)
(* changes, and leaves the phase, the run, the token and the outcomes of   *)
(* all others alone.                                                       *)
(***************************************************************************)
EXTENDS DeliveryQueueProofs

\* The attempts of a delivery that carry an outcome.
Completions(d) == {a \in attempts : a.delivery = d /\ a.state = "completed"}

-----------------------------------------------------------------------------
\* The outcomes of a delivery are a function of its completed attempts.
LEMMA SameCompletions ==
  ASSUME NEW d \in Delivery, Completions(d)' = Completions(d)
  PROVE  OutcomesOf(d)' = OutcomesOf(d)
  <1>1. OutcomesOf(d) = {<<a.fencing_token, a.outcome>> : a \in Completions(d)}
    BY DEF OutcomesOf, Completions
  <1>2. OutcomesOf(d)' = {<<a.fencing_token, a.outcome>> : a \in Completions(d)'}
    BY DEF OutcomesOf, Completions
  <1>3. QED
    BY <1>1, <1>2

\* The phase of a row of each status.
LEMMA PhaseOfStatus ==
  ASSUME NEW row
  PROVE  /\ row.status \in Waiting => Phase(row) = "queued"
         /\ row.status = "processing" => Phase(row) = "granted"
         /\ row.status = "succeeded" => Phase(row) = "delivered"
         /\ row.status \in Undelivered => Phase(row) = "undelivered"
  BY DEF Phase, Waiting, Undelivered

\* The initial rows are the contract's initial state.
LEMMA InitRefines == Init => Contract!Init
  <1> SUFFICES ASSUME Init PROVE Contract!Init
    OBVIOUS
  <1>1. \A d \in Delivery : Phase(deliveries[d]) = "queued" /\ OutcomesOf(d) = {}
    BY PhaseOfStatus DEF Init, Waiting, OutcomesOf
  <1>2. \A d \in Delivery : deliveries[d].run_number = 1 /\ deliveries[d].fencing_token = 0
    BY DEF Init
  <1>3. QED
    BY <1>1, <1>2 DEF Contract!Init

\* A claim grants the deliveries it leases and withdraws the exhausted ones.
LEMMA ClaimRefines ==
  ASSUME QueueInv, NEW w \in Worker, NEW R \in SUBSET Exhausted, NEW S \in SUBSET Eligible,
         ClaimDeliveries(w, R, S), NEW d \in Delivery
  PROVE  Contract!Move(d) \/ Contract!Stay(d)
  <1> USE DEF QueueInv
  <1>1. deliveries[d] \in DeliveryRow /\ deliveries \in [Delivery -> DeliveryRow]
    BY DEF TypeOK
  <1>2. OutcomesOf(d)' = OutcomesOf(d)
    <2>1. \A a \in attempts : a.state = "completed" => ~IsOpenAttempt(a)
      BY DEF IsOpenAttempt
    <2>2. \A a \in attempts : Abandoned(a).state = "abandoned"
      BY DEF Abandoned, TypeOK, AttemptRow
    <2>3. \A x \in S : NewAttempt(x).state = "started"
      BY DEF NewAttempt
    <2>4. Completions(d)' = Completions(d)
      BY <2>1, <2>2, <2>3 DEF ClaimDeliveries, Completions
    <2>5. QED
      BY <2>4, SameCompletions
  <1>3. CASE d \in R
    <2>1. deliveries'[d] = DeadLettered(deliveries[d])
      BY <1>3 DEF ClaimDeliveries
    <2>2. /\ deliveries'[d].status = "dead_letter"
          /\ deliveries'[d].run_number = deliveries[d].run_number
          /\ deliveries'[d].fencing_token = deliveries[d].fencing_token
      BY <1>1, <2>1 DEF DeadLettered, DeliveryRow
    <2>3. Phase(deliveries[d]) \in {"queued", "granted"}
      BY <1>3, PhaseOfStatus DEF Exhausted, Ready
    <2>4. Phase(deliveries'[d]) = "undelivered"
      BY <2>2, PhaseOfStatus DEF Undelivered
    <2>5. QED
      BY <1>2, <2>2, <2>3, <2>4 DEF Contract!Move, Contract!Withdraw
  <1>4. CASE d \in S /\ d \notin R
    <2>1. deliveries'[d] = Leased(deliveries[d], w)
      BY <1>4 DEF ClaimDeliveries
    <2>2. /\ deliveries'[d].status = "processing"
          /\ deliveries'[d].run_number = deliveries[d].run_number
          /\ deliveries'[d].fencing_token = deliveries[d].fencing_token + 1
      BY <1>1, <2>1 DEF Leased, DeliveryRow
    <2>3. Phase(deliveries[d]) \in {"queued", "granted"}
      BY <1>4, PhaseOfStatus DEF Eligible, Ready
    <2>4. Phase(deliveries'[d]) = "granted"
      BY <2>2, PhaseOfStatus
    <2>5. QED
      BY <1>2, <2>2, <2>3, <2>4 DEF Contract!Move, Contract!Grant
  <1>5. CASE d \notin R /\ d \notin S
    <2>1. deliveries'[d] = deliveries[d]
      BY <1>5 DEF ClaimDeliveries
    <2>2. QED
      BY <1>2, <2>1 DEF Contract!Stay
  <1>6. QED
    BY <1>3, <1>4, <1>5

\* A finalization settles its delivery under the token it holds.
LEMMA FinalizeRefines ==
  ASSUME QueueInv, NEW j \in jobs, Finalize(j), NEW d \in Delivery
  PROVE  Contract!Move(d) \/ Contract!Stay(d)
  <1> USE DEF QueueInv
  <1>1. /\ j.delivery \in Delivery /\ j.result \in Results
        /\ deliveries[j.delivery].status = "processing"
        /\ deliveries[j.delivery].fencing_token = j.fencing_token
    BY DEF Finalize, HoldsLease, TypeOK, Job
  <1>2. PICK a \in attempts : OpenAttempts(j) = {a}
    BY DEF Finalize, ChangesOneAttempt
  <1>3. /\ a.delivery = j.delivery /\ a.fencing_token = j.fencing_token /\ a.state = "started"
        /\ a \in AttemptRow
    BY <1>2 DEF OpenAttempts, TypeOK
  <1>4. /\ Completed(a, j.result).delivery = j.delivery
        /\ Completed(a, j.result).fencing_token = j.fencing_token
        /\ Completed(a, j.result).state = "completed"
        /\ Completed(a, j.result).outcome = j.result
    BY <1>3 DEF Completed, AttemptRow
  <1>5. attempts' = (attempts \ {a}) \cup {Completed(a, j.result)}
    BY <1>2 DEF Finalize
  <1>6. CASE d # j.delivery
    <2>1. deliveries'[d] = deliveries[d]
      BY <1>6 DEF Finalize, TypeOK
    <2>2. Completions(d)' = Completions(d)
      BY <1>3, <1>4, <1>5, <1>6 DEF Completions
    <2>3. QED
      BY <2>1, <2>2, SameCompletions DEF Contract!Stay
  <1>7. CASE d = j.delivery
    <2>1. Completions(d)' = Completions(d) \cup {Completed(a, j.result)}
      BY <1>3, <1>4, <1>5, <1>7 DEF Completions
    <2>2. OutcomesOf(d) = {<<b.fencing_token, b.outcome>> : b \in Completions(d)}
      BY DEF OutcomesOf, Completions
    <2>3. OutcomesOf(d)' = {<<b.fencing_token, b.outcome>> : b \in Completions(d)'}
      BY DEF OutcomesOf, Completions
    <2>4. OutcomesOf(d)' = OutcomesOf(d) \cup {<<deliveries[d].fencing_token, j.result>>}
      BY <1>1, <1>4, <1>7, <2>1, <2>2, <2>3
    <2>5. deliveries'[d] = Settled(deliveries[d], j.result) /\ deliveries[d] \in DeliveryRow
      BY <1>1, <1>7 DEF Finalize, TypeOK
    <2>6. /\ deliveries'[d].status = StatusAfter(deliveries[d], j.result)
          /\ deliveries'[d].run_number = deliveries[d].run_number
          /\ deliveries'[d].fencing_token = deliveries[d].fencing_token
      BY <2>5 DEF Settled, DeliveryRow
    <2>7. Phase(deliveries[d]) = "granted"
      BY <1>1, <1>7, PhaseOfStatus
    <2>8. CASE j.result = "success"
      <3>1. Phase(deliveries'[d]) = "delivered"
        BY <2>6, <2>8, PhaseOfStatus DEF StatusAfter
      <3>2. QED
        BY <2>4, <2>6, <2>7, <2>8, <3>1 DEF Contract!Move, Contract!Settle
    <2>9. CASE j.result = "permanent_failure"
      <3>1. Phase(deliveries'[d]) = "undelivered"
        BY <2>6, <2>9, PhaseOfStatus DEF StatusAfter, Undelivered
      <3>2. QED
        BY <2>4, <2>6, <2>7, <2>9, <3>1 DEF Contract!Move, Contract!Settle
    <2>10. CASE j.result = "retry"
      <3>1. StatusAfter(deliveries[d], j.result) \in {"dead_letter", "retry_scheduled"}
        BY <2>5, <2>10, QueueAssumption DEF StatusAfter, DeliveryRow
      <3>2. Phase(deliveries'[d]) \in {"queued", "undelivered"}
        BY <2>6, <3>1, PhaseOfStatus DEF Undelivered, Waiting
      <3>3. QED
        BY <2>4, <2>6, <2>7, <2>10, <3>2 DEF Contract!Move, Contract!Settle
    <2>11. QED
      BY <1>1, <2>8, <2>9, <2>10 DEF Results
  <1>8. QED
    BY <1>6, <1>7

\* A replay reopens one undelivered delivery as its next run.
LEMMA ReplayRefines ==
  ASSUME QueueInv, NEW k \in Key, CommitReplay(k), NEW d \in Delivery
  PROVE  Contract!Move(d) \/ Contract!Stay(d)
  <1> USE DEF QueueInv
  <1>1. OutcomesOf(d)' = OutcomesOf(d)
    BY DEF CommitReplay, OutcomesOf
  <1>2. CASE d # replays[k]
    <2>1. deliveries'[d] = deliveries[d]
      BY <1>2 DEF CommitReplay, TypeOK
    <2>2. QED
      BY <1>1, <2>1 DEF Contract!Stay
  <1>3. CASE d = replays[k]
    <2>1. /\ deliveries[d].status \in Undelivered /\ deliveries[d].run_number < MaxRun
          /\ deliveries'[d] = Reopened(deliveries[d]) /\ deliveries[d] \in DeliveryRow
      BY <1>3 DEF CommitReplay, TypeOK
    <2>2. /\ deliveries'[d].status = "pending"
          /\ deliveries'[d].run_number = deliveries[d].run_number + 1
          /\ deliveries'[d].fencing_token = deliveries[d].fencing_token
      BY <2>1 DEF Reopened, DeliveryRow
    <2>3. Phase(deliveries[d]) = "undelivered" /\ Phase(deliveries'[d]) = "queued"
      BY <2>1, <2>2, PhaseOfStatus DEF Waiting
    <2>4. QED
      BY <1>1, <2>1, <2>2, <2>3 DEF Contract!Move, Contract!Reopen
  <1>4. QED
    BY <1>2, <1>3

\* A purge withdraws the open deliveries of its snapshot and revokes their token.
LEMMA PurgeRefines ==
  ASSUME QueueInv, CommitPurge, NEW d \in Delivery
  PROVE  Contract!Move(d) \/ Contract!Stay(d)
  <1> USE DEF QueueInv
  <1>1. OutcomesOf(d)' = OutcomesOf(d)
    <2>1. \A a \in attempts : Abandoned(a).state = "abandoned"
      BY DEF Abandoned, TypeOK, AttemptRow
    <2>2. Completions(d)' = Completions(d)
      BY <2>1 DEF CommitPurge, PurgedAttempts, Completions
    <2>3. QED
      BY <2>2, SameCompletions
  <1>2. CASE d \in purge.open /\ deliveries[d].status \in Open
    <2>1. deliveries'[d] = Expired(deliveries[d]) /\ deliveries[d] \in DeliveryRow
      BY <1>2 DEF CommitPurge, TypeOK
    <2>2. /\ deliveries'[d].status = "failed_permanent"
          /\ deliveries'[d].run_number = deliveries[d].run_number
          /\ deliveries'[d].fencing_token = deliveries[d].fencing_token + 1
      BY <2>1 DEF Expired, DeliveryRow
    <2>3. Phase(deliveries[d]) \in {"queued", "granted"} /\ Phase(deliveries'[d]) = "undelivered"
      BY <1>2, <2>2, PhaseOfStatus DEF Open, Undelivered
    <2>4. QED
      BY <1>1, <2>2, <2>3 DEF Contract!Move, Contract!Withdraw
  <1>3. CASE ~(d \in purge.open /\ deliveries[d].status \in Open)
    <2>1. deliveries'[d] = deliveries[d]
      BY <1>3 DEF CommitPurge
    <2>2. QED
      BY <1>1, <2>1 DEF Contract!Stay
  <1>4. QED
    BY <1>2, <1>3

\* The clock and the worker's side are invisible to the contract.
LEMMA OtherStepsStay ==
  ASSUME QueueInv, NEW d \in Delivery, attempts' = attempts,
         \/ deliveries' = deliveries
         \/ \E x \in Delivery : LeaseExpires(x) \/ BecomesDue(x)
  PROVE  Contract!Stay(d)
  <1>1. OutcomesOf(d)' = OutcomesOf(d)
    BY DEF OutcomesOf
  <1>2. /\ deliveries'[d].status = deliveries[d].status
        /\ deliveries'[d].run_number = deliveries[d].run_number
        /\ deliveries'[d].fencing_token = deliveries[d].fencing_token
    BY DEF LeaseExpires, BecomesDue, QueueInv, TypeOK, DeliveryRow
  <1>3. Phase(deliveries'[d]) = Phase(deliveries[d])
    BY <1>2 DEF Phase
  <1>4. QED
    BY <1>1, <1>2, <1>3 DEF Contract!Stay

\* Every step of the queue is a step of the contract, or stutters.
LEMMA NextRefines == QueueInv /\ [Next]_vars => [Contract!Next]_(Contract!vars)
  <1> SUFFICES ASSUME QueueInv, [Next]_vars, NEW d \in Delivery
               PROVE  Contract!Move(d) \/ Contract!Stay(d)
    BY DEF Contract!Next
  <1>1. CASE \E w \in Worker, R \in SUBSET Exhausted, S \in SUBSET Eligible : ClaimDeliveries(w, R, S)
    BY <1>1, ClaimRefines
  <1>2. CASE \E j \in jobs : Finalize(j)
    BY <1>2, FinalizeRefines
  <1>3. CASE \E k \in Key : CommitReplay(k)
    BY <1>3, ReplayRefines
  <1>4. CASE CommitPurge
    BY <1>4, PurgeRefines
  <1>5. CASE \E x \in Delivery : LeaseExpires(x) \/ BecomesDue(x)
    BY <1>5, OtherStepsStay DEF LeaseExpires, BecomesDue
  <1>6. CASE attempts' = attempts /\ deliveries' = deliveries
    BY <1>6, OtherStepsStay
  <1>7. QED
    BY <1>1, <1>2, <1>3, <1>4, <1>5, <1>6 DEF Next, vars, PayloadExpires, Deliver, DropJob,
       FinalizeFenced, BeginReplay, RejectReplay, BeginPurge, AbortPurge

\* The queue implements the contract of DeliveryContract: one holder at a time,
\* outcomes recorded under the current token only, decisions left by a replay.
THEOREM QueueImplementsContract == Spec => ImplementsContract
  <1>1. QED
    BY InitRefines, NextRefines, QueueInvariant, PTL DEF Spec, ImplementsContract, Contract!Spec

=============================================================================
