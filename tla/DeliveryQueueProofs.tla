------------------------- MODULE DeliveryQueueProofs -------------------------
(***************************************************************************)
(* Proofs about DeliveryQueue, for any number of deliveries, workers,      *)
(* replays and attempts.                                                   *)
(***************************************************************************)
EXTENDS DeliveryQueue, FiniteSetTheorems, TLAPS

-----------------------------------------------------------------------------
\* What each transaction writes into a delivery row is a delivery row.
LEMMA RowTypes ==
  ASSUME NEW row \in DeliveryRow
  PROVE  /\ DeadLettered(row) \in DeliveryRow
         /\ Expired(row) \in DeliveryRow
         /\ row.run_number < MaxRun => Reopened(row) \in DeliveryRow
         /\ \A w \in Worker : row.attempts_in_run < MaxAttempts => Leased(row, w) \in DeliveryRow
         /\ \A result \in Results : Settled(row, result) \in DeliveryRow
  <1> USE DEF DeliveryRow, Open, Waiting, Terminal, Undelivered
  <1>1. /\ row.run_number \in 1..MaxRun /\ row.attempts_in_run \in 0..MaxAttempts
        /\ row.fencing_token \in Nat /\ row.attempt_sequence \in Nat
    OBVIOUS
  <1>2. /\ row.fencing_token + 1 \in Nat /\ row.attempt_sequence + 1 \in Nat
        /\ 0 \in 0..MaxAttempts
        /\ row.run_number < MaxRun => row.run_number + 1 \in 1..MaxRun
        /\ row.attempts_in_run < MaxAttempts => row.attempts_in_run + 1 \in 0..MaxAttempts
    BY <1>1, QueueAssumption
  <1>3. DeadLettered(row) \in DeliveryRow
    BY DEF DeadLettered
  <1>4. Expired(row) \in DeliveryRow
    BY <1>2 DEF Expired
  <1>5. row.run_number < MaxRun => Reopened(row) \in DeliveryRow
    BY <1>2 DEF Reopened
  <1>6. \A w \in Worker : row.attempts_in_run < MaxAttempts => Leased(row, w) \in DeliveryRow
    BY <1>2 DEF Leased
  <1>7. ASSUME NEW result \in Results PROVE Settled(row, result) \in DeliveryRow
    <2>1. StatusAfter(row, result) \in Open \cup Terminal
      BY QueueAssumption, <1>1 DEF StatusAfter, Results
    <2>2. (IF result = "retry" /\ row.attempts_in_run < MaxAttempts THEN FALSE ELSE row.due) \in BOOLEAN
      BY Zenon
    <2>3. QED
      BY <2>1, <2>2 DEF Settled
  <1>8. QED
    BY <1>3, <1>4, <1>5, <1>6, <1>7

\* Closing an attempt keeps its type and its identity.
LEMMA AttemptTypes ==
  ASSUME NEW a \in AttemptRow, NEW result \in Results
  PROVE  Abandoned(a) \in AttemptRow /\ Completed(a, result) \in AttemptRow
  BY DEF AttemptRow, Abandoned, Completed, Results

\* The identity of an attempt: what AttemptsDistinct and the counters speak of.
SameIdentity(b, a) ==
  /\ b.delivery = a.delivery /\ b.run_number = a.run_number
  /\ b.attempt_number = a.attempt_number /\ b.attempt_sequence = a.attempt_sequence
  /\ b.fencing_token = a.fencing_token

LEMMA AttemptIdentity ==
  ASSUME NEW a \in AttemptRow, NEW result \in Results
  PROVE  /\ SameIdentity(Abandoned(a), a) /\ Abandoned(a).state = "abandoned"
         /\ SameIdentity(Completed(a, result), a) /\ Completed(a, result).state = "completed"
  BY DEF AttemptRow, Abandoned, Completed, SameIdentity

\* The inductive invariant holds initially.
LEMMA InitInv == Init => QueueInv
  <1> SUFFICES ASSUME Init PROVE QueueInv
    OBVIOUS
  <1> USE QueueAssumption DEF Init
  <1>1. TypeOK
    BY DEF TypeOK, DeliveryRow, Open, Waiting, Terminal, Undelivered
  <1>2. LeaseColumns /\ LeaseHasAttempt /\ SuccessWasAcknowledged
    BY DEF LeaseColumns, LeaseHasAttempt, SuccessWasAcknowledged
  <1>3. AttemptsBelowCounters /\ AttemptsDistinct /\ CurrentAttemptIsLeased /\ OnlyPurgeLeavesOrphans
    BY DEF AttemptsBelowCounters, AttemptsDistinct, CurrentAttemptIsLeased, OnlyPurgeLeavesOrphans
  <1>4. JobsBelowCounters /\ SuccessJobsAcknowledged /\ PurgeSnapshot
    BY DEF JobsBelowCounters, SuccessJobsAcknowledged, PurgeSnapshot
  <1>5. QED
    BY <1>1, <1>2, <1>3, <1>4 DEF QueueInv

\* The passing of time changes one flag of one row.
LEMMA LeaseExpiresInv ==
  ASSUME QueueInv, NEW d \in Delivery, LeaseExpires(d)
  PROVE  QueueInv'
  <1> USE QueueAssumption DEF QueueInv, LeaseExpires
  <1>1. TypeOK'
    <2>1. deliveries[d] \in DeliveryRow
      BY DEF TypeOK
    <2>2. [deliveries[d] EXCEPT !.lease = "expired"] \in DeliveryRow
      BY ONLY <2>1 DEF DeliveryRow
    <2>3. deliveries' \in [Delivery -> DeliveryRow]
      BY <2>2 DEF TypeOK
    <2>4. QED
      BY <2>3 DEF TypeOK
  <1>2. LeaseColumns' /\ LeaseHasAttempt' /\ SuccessWasAcknowledged'
    BY DEF TypeOK, LeaseColumns, LeaseHasAttempt, SuccessWasAcknowledged
  <1>3. AttemptsBelowCounters' /\ AttemptsDistinct' /\ CurrentAttemptIsLeased' /\ OnlyPurgeLeavesOrphans'
    BY DEF TypeOK, AttemptRow, AttemptsBelowCounters, AttemptsDistinct, CurrentAttemptIsLeased,
           OnlyPurgeLeavesOrphans
  <1>4. JobsBelowCounters' /\ SuccessJobsAcknowledged' /\ PurgeSnapshot'
    BY DEF TypeOK, Job, JobsBelowCounters, SuccessJobsAcknowledged, PurgeSnapshot
  <1>5. QED
    BY <1>1, <1>2, <1>3, <1>4 DEF QueueInv

\* A retry that comes due stays waiting.
LEMMA BecomesDueInv ==
  ASSUME QueueInv, NEW d \in Delivery, BecomesDue(d)
  PROVE  QueueInv'
  <1> USE QueueAssumption DEF QueueInv, BecomesDue
  <1>1. TypeOK'
    <2>1. deliveries[d] \in DeliveryRow
      BY DEF TypeOK
    <2>2. [deliveries[d] EXCEPT !.due = TRUE] \in DeliveryRow
      BY ONLY <2>1 DEF DeliveryRow
    <2>3. deliveries' \in [Delivery -> DeliveryRow]
      BY <2>2 DEF TypeOK
    <2>4. QED
      BY <2>3 DEF TypeOK
  <1>2. LeaseColumns' /\ LeaseHasAttempt' /\ SuccessWasAcknowledged'
    BY DEF TypeOK, LeaseColumns, LeaseHasAttempt, SuccessWasAcknowledged
  <1>3. AttemptsBelowCounters' /\ AttemptsDistinct' /\ CurrentAttemptIsLeased' /\ OnlyPurgeLeavesOrphans'
    BY DEF TypeOK, AttemptRow, AttemptsBelowCounters, AttemptsDistinct, CurrentAttemptIsLeased,
           OnlyPurgeLeavesOrphans
  <1>4. JobsBelowCounters' /\ SuccessJobsAcknowledged' /\ PurgeSnapshot'
    BY DEF TypeOK, Job, JobsBelowCounters, SuccessJobsAcknowledged, PurgeSnapshot
  <1>5. QED
    BY <1>1, <1>2, <1>3, <1>4 DEF QueueInv

\* A payload may expire under a live lease: nothing of the lease changes.
LEMMA PayloadExpiresInv ==
  ASSUME QueueInv, NEW e \in Event, PayloadExpires(e)
  PROVE  QueueInv'
  <1> USE QueueAssumption DEF QueueInv, PayloadExpires
  <1>1. TypeOK'
    BY DEF TypeOK
  <1>2. LeaseColumns' /\ LeaseHasAttempt' /\ SuccessWasAcknowledged'
    BY DEF TypeOK, LeaseColumns, LeaseHasAttempt, SuccessWasAcknowledged
  <1>3. AttemptsBelowCounters' /\ AttemptsDistinct' /\ CurrentAttemptIsLeased' /\ OnlyPurgeLeavesOrphans'
    BY DEF TypeOK, AttemptRow, AttemptsBelowCounters, AttemptsDistinct, CurrentAttemptIsLeased,
           OnlyPurgeLeavesOrphans
  <1>4. JobsBelowCounters' /\ SuccessJobsAcknowledged' /\ PurgeSnapshot'
    BY DEF TypeOK, Job, JobsBelowCounters, SuccessJobsAcknowledged, PurgeSnapshot
  <1>5. QED
    BY <1>1, <1>2, <1>3, <1>4 DEF QueueInv

\* The worker's side changes its own jobs and the acknowledgements only.
LEMMA DeliverInv ==
  ASSUME QueueInv, NEW j \in jobs, NEW result \in Results, Deliver(j, result)
  PROVE  QueueInv'
  <1> USE QueueAssumption DEF QueueInv, Deliver
  <1>1. TypeOK'
    BY DEF TypeOK, Job
  <1>2. LeaseColumns' /\ LeaseHasAttempt' /\ SuccessWasAcknowledged'
    BY DEF TypeOK, LeaseColumns, LeaseHasAttempt, SuccessWasAcknowledged
  <1>3. AttemptsBelowCounters' /\ AttemptsDistinct' /\ CurrentAttemptIsLeased' /\ OnlyPurgeLeavesOrphans'
    BY DEF TypeOK, AttemptRow, AttemptsBelowCounters, AttemptsDistinct, CurrentAttemptIsLeased,
           OnlyPurgeLeavesOrphans
  <1>4. JobsBelowCounters' /\ SuccessJobsAcknowledged' /\ PurgeSnapshot'
    BY DEF TypeOK, Job, JobsBelowCounters, SuccessJobsAcknowledged, PurgeSnapshot
  <1>5. QED
    BY <1>1, <1>2, <1>3, <1>4 DEF QueueInv

\* A lost job leaves every row as it was.
LEMMA DropJobInv ==
  ASSUME QueueInv, NEW j \in jobs, DropJob(j)
  PROVE  QueueInv'
  <1> USE QueueAssumption DEF QueueInv, DropJob
  <1>1. TypeOK'
    BY DEF TypeOK
  <1>2. LeaseColumns' /\ LeaseHasAttempt' /\ SuccessWasAcknowledged'
    BY DEF TypeOK, LeaseColumns, LeaseHasAttempt, SuccessWasAcknowledged
  <1>3. AttemptsBelowCounters' /\ AttemptsDistinct' /\ CurrentAttemptIsLeased' /\ OnlyPurgeLeavesOrphans'
    BY DEF TypeOK, AttemptRow, AttemptsBelowCounters, AttemptsDistinct, CurrentAttemptIsLeased,
           OnlyPurgeLeavesOrphans
  <1>4. JobsBelowCounters' /\ SuccessJobsAcknowledged' /\ PurgeSnapshot'
    BY DEF TypeOK, Job, JobsBelowCounters, SuccessJobsAcknowledged, PurgeSnapshot
  <1>5. QED
    BY <1>1, <1>2, <1>3, <1>4 DEF QueueInv

\* A fenced result leaves every row as it was.
LEMMA FinalizeFencedInv ==
  ASSUME QueueInv, NEW j \in jobs, FinalizeFenced(j)
  PROVE  QueueInv'
  <1> USE QueueAssumption DEF QueueInv, FinalizeFenced
  <1>1. TypeOK'
    BY DEF TypeOK
  <1>2. LeaseColumns' /\ LeaseHasAttempt' /\ SuccessWasAcknowledged'
    BY DEF TypeOK, LeaseColumns, LeaseHasAttempt, SuccessWasAcknowledged
  <1>3. AttemptsBelowCounters' /\ AttemptsDistinct' /\ CurrentAttemptIsLeased' /\ OnlyPurgeLeavesOrphans'
    BY DEF TypeOK, AttemptRow, AttemptsBelowCounters, AttemptsDistinct, CurrentAttemptIsLeased,
           OnlyPurgeLeavesOrphans
  <1>4. JobsBelowCounters' /\ SuccessJobsAcknowledged' /\ PurgeSnapshot'
    BY DEF TypeOK, Job, JobsBelowCounters, SuccessJobsAcknowledged, PurgeSnapshot
  <1>5. QED
    BY <1>1, <1>2, <1>3, <1>4 DEF QueueInv

\* An open replay transaction has changed no row yet.
LEMMA BeginReplayInv ==
  ASSUME QueueInv, NEW k \in Key, NEW d \in Delivery, BeginReplay(k, d)
  PROVE  QueueInv'
  <1> USE QueueAssumption DEF QueueInv, BeginReplay
  <1>1. TypeOK'
    BY DEF TypeOK
  <1>2. LeaseColumns' /\ LeaseHasAttempt' /\ SuccessWasAcknowledged'
    BY DEF TypeOK, LeaseColumns, LeaseHasAttempt, SuccessWasAcknowledged
  <1>3. AttemptsBelowCounters' /\ AttemptsDistinct' /\ CurrentAttemptIsLeased' /\ OnlyPurgeLeavesOrphans'
    BY DEF TypeOK, AttemptRow, AttemptsBelowCounters, AttemptsDistinct, CurrentAttemptIsLeased,
           OnlyPurgeLeavesOrphans
  <1>4. JobsBelowCounters' /\ SuccessJobsAcknowledged' /\ PurgeSnapshot'
    BY DEF TypeOK, Job, JobsBelowCounters, SuccessJobsAcknowledged, PurgeSnapshot
  <1>5. QED
    BY <1>1, <1>2, <1>3, <1>4 DEF QueueInv

\* A replay that is rejected or rolled back changes no row.
LEMMA RejectReplayInv ==
  ASSUME QueueInv, NEW k \in Key, RejectReplay(k)
  PROVE  QueueInv'
  <1> USE QueueAssumption DEF QueueInv, RejectReplay
  <1>1. TypeOK'
    BY DEF TypeOK
  <1>2. LeaseColumns' /\ LeaseHasAttempt' /\ SuccessWasAcknowledged'
    BY DEF TypeOK, LeaseColumns, LeaseHasAttempt, SuccessWasAcknowledged
  <1>3. AttemptsBelowCounters' /\ AttemptsDistinct' /\ CurrentAttemptIsLeased' /\ OnlyPurgeLeavesOrphans'
    BY DEF TypeOK, AttemptRow, AttemptsBelowCounters, AttemptsDistinct, CurrentAttemptIsLeased,
           OnlyPurgeLeavesOrphans
  <1>4. JobsBelowCounters' /\ SuccessJobsAcknowledged' /\ PurgeSnapshot'
    BY DEF TypeOK, Job, JobsBelowCounters, SuccessJobsAcknowledged, PurgeSnapshot
  <1>5. QED
    BY <1>1, <1>2, <1>3, <1>4 DEF QueueInv

\* A purge that is rolled back changes no row.
LEMMA AbortPurgeInv ==
  ASSUME QueueInv, AbortPurge
  PROVE  QueueInv'
  <1> USE QueueAssumption DEF QueueInv, AbortPurge
  <1>1. TypeOK'
    BY DEF TypeOK
  <1>2. LeaseColumns' /\ LeaseHasAttempt' /\ SuccessWasAcknowledged'
    BY DEF TypeOK, LeaseColumns, LeaseHasAttempt, SuccessWasAcknowledged
  <1>3. AttemptsBelowCounters' /\ AttemptsDistinct' /\ CurrentAttemptIsLeased' /\ OnlyPurgeLeavesOrphans'
    BY DEF TypeOK, AttemptRow, AttemptsBelowCounters, AttemptsDistinct, CurrentAttemptIsLeased,
           OnlyPurgeLeavesOrphans
  <1>4. JobsBelowCounters' /\ SuccessJobsAcknowledged' /\ PurgeSnapshot'
    BY DEF TypeOK, Job, JobsBelowCounters, SuccessJobsAcknowledged, PurgeSnapshot
  <1>5. QED
    BY <1>1, <1>2, <1>3, <1>4 DEF QueueInv

\* A snapshot is taken of rows that satisfy the invariant: a started attempt of
\* an event that keeps its payload belongs to a delivery that is processing.
LEMMA BeginPurgeInv ==
  ASSUME QueueInv, NEW E \in SUBSET Event, BeginPurge(E)
  PROVE  QueueInv'
  <1> USE QueueAssumption DEF QueueInv, BeginPurge
  <1>1. TypeOK'
    BY DEF TypeOK, Snapshot, StartedFor, AttemptRow
  <1>2. LeaseColumns' /\ LeaseHasAttempt' /\ SuccessWasAcknowledged'
    BY DEF TypeOK, LeaseColumns, LeaseHasAttempt, SuccessWasAcknowledged
  <1>3. AttemptsBelowCounters' /\ AttemptsDistinct' /\ CurrentAttemptIsLeased' /\ OnlyPurgeLeavesOrphans'
    BY DEF TypeOK, AttemptRow, AttemptsBelowCounters, AttemptsDistinct, CurrentAttemptIsLeased,
           OnlyPurgeLeavesOrphans
  <1>4. JobsBelowCounters' /\ SuccessJobsAcknowledged'
    BY DEF TypeOK, Job, JobsBelowCounters, SuccessJobsAcknowledged
  <1>5. PurgeSnapshot'
    <2>1. \A a \in StartedFor(E) : deliveries[a.delivery].status = "processing"
      BY DEF StartedFor, OnlyPurgeLeavesOrphans
    <2>2. \A a \in StartedFor(E) : a.delivery \in purge'.open
      BY <2>1 DEF StartedFor, TypeOK, AttemptRow, Open
    <2>3. QED
      BY <2>2 DEF PurgeSnapshot
  <1>6. QED
    BY <1>1, <1>2, <1>3, <1>4, <1>5 DEF QueueInv

\* A replay reopens a row that no lease holds.
LEMMA CommitReplayInv ==
  ASSUME QueueInv, NEW k \in Key, CommitReplay(k)
  PROVE  QueueInv'
  <1> USE QueueAssumption DEF QueueInv
  <1> DEFINE d == replays[k]
  <1>1. /\ d \in Delivery
        /\ deliveries[d].status \in Undelivered
        /\ deliveries[d].run_number < MaxRun
        /\ deliveries' = [deliveries EXCEPT ![d] = Reopened(deliveries[d])]
        /\ UNCHANGED <<attempts, payloads, jobs, acked, purge>>
    BY DEF CommitReplay, TypeOK
  <1>2. TypeOK'
    <2>1. Reopened(deliveries[d]) \in DeliveryRow
      BY <1>1, RowTypes DEF TypeOK
    <2>2. commands' \subseteq Command
      BY <1>1 DEF CommitReplay, TypeOK, DeliveryRow, Command
    <2>3. replays' \in [Key -> Delivery \cup {NoDelivery}]
      BY DEF CommitReplay, TypeOK
    <2>4. QED
      BY <1>1, <2>1, <2>2, <2>3 DEF TypeOK
  <1>3. LeaseColumns' /\ LeaseHasAttempt' /\ SuccessWasAcknowledged'
    BY <1>1 DEF TypeOK, DeliveryRow, Reopened, LeaseColumns, LeaseHasAttempt, SuccessWasAcknowledged
  <1>4. AttemptsBelowCounters'
    BY <1>1 DEF TypeOK, DeliveryRow, AttemptRow, Reopened, AttemptsBelowCounters
  <1>5. AttemptsDistinct'
    BY <1>1 DEF AttemptsDistinct
  <1>6. CurrentAttemptIsLeased' /\ OnlyPurgeLeavesOrphans'
    BY <1>1 DEF TypeOK, DeliveryRow, AttemptRow, Reopened, Undelivered, CurrentAttemptIsLeased,
                OnlyPurgeLeavesOrphans
  <1>7. JobsBelowCounters' /\ SuccessJobsAcknowledged' /\ PurgeSnapshot'
    BY <1>1 DEF TypeOK, DeliveryRow, Job, Reopened, JobsBelowCounters, SuccessJobsAcknowledged,
                PurgeSnapshot
  <1>8. QED
    BY <1>2, <1>3, <1>4, <1>5, <1>6, <1>7 DEF QueueInv

\* A finalization closes the one started attempt of the lease it ends.
LEMMA FinalizeInv ==
  ASSUME QueueInv, NEW j \in jobs, Finalize(j)
  PROVE  QueueInv'
  <1> USE QueueAssumption DEF QueueInv
  <1> DEFINE d == j.delivery
  <1> DEFINE row == deliveries[d]
  <1>1. /\ d \in Delivery /\ j.result \in Results
        /\ row.status = "processing" /\ row.fencing_token = j.fencing_token
        /\ deliveries' = [deliveries EXCEPT ![d] = Settled(row, j.result)]
        /\ attempts' = {IF a \in OpenAttempts(j) THEN Completed(a, j.result) ELSE a : a \in attempts}
        /\ jobs' \subseteq jobs
        /\ UNCHANGED <<payloads, commands, acked, replays, purge>>
    BY DEF Finalize, HoldsLease, TypeOK, Job
  <1>2. StatusAfter(row, j.result) \in {"succeeded", "failed_permanent", "dead_letter", "retry_scheduled"}
    BY <1>1, QueueAssumption DEF StatusAfter, Results, TypeOK, DeliveryRow
  <1>3. TypeOK'
    <2>1. Settled(row, j.result) \in DeliveryRow
      BY <1>1, RowTypes DEF TypeOK
    <2>2. attempts' \subseteq AttemptRow
      <3>1. attempts \subseteq AttemptRow /\ j.result \in Results
        BY <1>1 DEF TypeOK
      <3>2. \A a \in attempts : Completed(a, j.result) \in AttemptRow
        BY ONLY <3>1, AttemptTypes
      <3>3. attempts' = {IF a \in OpenAttempts(j) THEN Completed(a, j.result) ELSE a : a \in attempts}
        BY <1>1
      <3>4. QED
        BY ONLY <3>1, <3>2, <3>3
    <2>3. QED
      BY <1>1, <2>1, <2>2 DEF TypeOK
  <1>4. LeaseColumns'
    BY <1>1, <1>2 DEF TypeOK, DeliveryRow, Settled, LeaseColumns
  <1>5. LeaseHasAttempt'
    <2> SUFFICES ASSUME NEW x \in Delivery, deliveries'[x].status = "processing"
                 PROVE  \E a \in attempts' : /\ a.delivery = x
                                             /\ a.fencing_token = deliveries'[x].fencing_token
                                             /\ a.state = "started"
      BY DEF LeaseHasAttempt
    <2>1. x # d
      BY <1>1, <1>2 DEF TypeOK, DeliveryRow, Settled
    <2>2. deliveries'[x] = deliveries[x]
      BY <1>1, <2>1 DEF TypeOK
    <2>3. PICK a \in attempts : /\ a.delivery = x
                                /\ a.fencing_token = deliveries[x].fencing_token
                                /\ a.state = "started"
      BY <2>2 DEF LeaseHasAttempt
    <2>4. a \in attempts'
      BY <1>1, <2>1, <2>3 DEF OpenAttempts
    <2>5. QED
      BY <2>2, <2>3, <2>4
  <1>6. SuccessWasAcknowledged'
    BY <1>1 DEF TypeOK, DeliveryRow, Settled, StatusAfter, Results, SuccessWasAcknowledged,
                SuccessJobsAcknowledged
  <1>7. \A b \in attempts' : \E a \in attempts :
          /\ b.delivery = a.delivery /\ b.run_number = a.run_number
          /\ b.attempt_number = a.attempt_number /\ b.attempt_sequence = a.attempt_sequence
          /\ b.fencing_token = a.fencing_token
          /\ b.state = "started" => b = a /\ a \notin OpenAttempts(j)
          /\ b = IF a \in OpenAttempts(j) THEN Completed(a, j.result) ELSE a
    <2> SUFFICES ASSUME NEW a \in attempts
                 PROVE  LET b == IF a \in OpenAttempts(j) THEN Completed(a, j.result) ELSE a IN
                        /\ SameIdentity(b, a)
                        /\ b.state = "started" => b = a /\ a \notin OpenAttempts(j)
      BY <1>1 DEF SameIdentity
    <2>1. a \in AttemptRow
      BY DEF TypeOK
    <2>2. CASE a \in OpenAttempts(j)
      BY <1>1, <2>1, <2>2, AttemptIdentity
    <2>3. CASE a \notin OpenAttempts(j)
      BY <2>3 DEF SameIdentity
    <2>4. QED
      BY <2>2, <2>3
  <1>8. AttemptsBelowCounters'
    BY <1>1, <1>7 DEF TypeOK, DeliveryRow, AttemptRow, Settled, AttemptsBelowCounters
  <1>9. AttemptsDistinct'
    BY <1>7 DEF AttemptsDistinct
  <1>10. CurrentAttemptIsLeased' /\ OnlyPurgeLeavesOrphans'
    BY <1>1, <1>7 DEF TypeOK, DeliveryRow, AttemptRow, Settled, OpenAttempts,
                      CurrentAttemptIsLeased, OnlyPurgeLeavesOrphans
  <1>11. JobsBelowCounters' /\ SuccessJobsAcknowledged' /\ PurgeSnapshot'
    BY <1>1 DEF TypeOK, DeliveryRow, Job, Settled, JobsBelowCounters, SuccessJobsAcknowledged,
                PurgeSnapshot
  <1>12. QED
    BY <1>3, <1>4, <1>5, <1>6, <1>8, <1>9, <1>10, <1>11 DEF QueueInv

\* What the purge writes into the row of an open delivery.
RevokedRow(new, row) ==
  /\ new.status = "failed_permanent" /\ new.lease = "none" /\ new.lease_owner = NoWorker
  /\ new.fencing_token = row.fencing_token + 1
  /\ new.attempt_sequence = row.attempt_sequence
  /\ new.attempts_in_run = row.attempts_in_run
  /\ new.run_number = row.run_number

LEMMA RevokedColumns ==
  ASSUME NEW row \in DeliveryRow
  PROVE  RevokedRow(Expired(row), row)
  BY DEF RevokedRow, Expired, DeliveryRow

\* A purge revokes the leases of its snapshot, and closes their attempts; an
\* attempt started after the snapshot belongs to an event purged by this step.
LEMMA CommitPurgeInv ==
  ASSUME QueueInv, CommitPurge
  PROVE  QueueInv'
  <1> USE DEF QueueInv
  <1> DEFINE Revoked == {d \in purge.open : deliveries[d].status \in Open}
  <1>1. /\ purge \in Snapshot
        /\ payloads' = [e \in Event |-> IF e \in purge.events THEN "purged" ELSE payloads[e]]
        /\ UNCHANGED <<commands, jobs, acked, replays>>
        /\ purge' = NoPurge
        /\ deliveries' = [d \in Delivery |-> IF d \in Revoked THEN Expired(deliveries[d])
                                            ELSE deliveries[d]]
    BY DEF CommitPurge, TypeOK
  <1>2. \A d \in Delivery :
          /\ deliveries[d] \in DeliveryRow
          /\ d \in Revoked => /\ deliveries'[d].status = "failed_permanent"
                             /\ deliveries'[d].lease = "none"
                             /\ deliveries'[d].lease_owner = NoWorker
                             /\ deliveries'[d].fencing_token = deliveries[d].fencing_token + 1
                             /\ deliveries'[d].attempt_sequence = deliveries[d].attempt_sequence
                             /\ deliveries'[d].attempts_in_run = deliveries[d].attempts_in_run
                             /\ deliveries'[d].run_number = deliveries[d].run_number
          /\ d \notin Revoked => deliveries'[d] = deliveries[d]
    <2> SUFFICES ASSUME NEW d \in Delivery
                 PROVE  /\ deliveries[d] \in DeliveryRow
                        /\ d \in Revoked => RevokedRow(deliveries'[d], deliveries[d])
                        /\ d \notin Revoked => deliveries'[d] = deliveries[d]
      BY DEF RevokedRow
    <2>1. deliveries[d] \in DeliveryRow
      BY DEF TypeOK
    <2>2. RevokedRow(Expired(deliveries[d]), deliveries[d])
      BY <2>1, RevokedColumns
    <2>3. deliveries'[d] = IF d \in Revoked THEN Expired(deliveries[d]) ELSE deliveries[d]
      BY <1>1
    <2>4. QED
      BY <2>1, <2>2, <2>3
  <1>3. \A b \in attempts' : \E a \in attempts :
          /\ b = IF a \in PurgedAttempts THEN Abandoned(a) ELSE a
          /\ b.delivery = a.delivery /\ b.run_number = a.run_number
          /\ b.attempt_number = a.attempt_number /\ b.attempt_sequence = a.attempt_sequence
          /\ b.fencing_token = a.fencing_token
          /\ b.state = "started" => b = a /\ a \notin PurgedAttempts
    <2> SUFFICES ASSUME NEW a \in attempts
                 PROVE  LET b == IF a \in PurgedAttempts THEN Abandoned(a) ELSE a IN
                        /\ SameIdentity(b, a)
                        /\ b.state = "started" => b = a /\ a \notin PurgedAttempts
      BY DEF CommitPurge, SameIdentity
    <2>1. a \in AttemptRow
      BY DEF TypeOK
    <2>2. CASE a \in PurgedAttempts
      BY <2>1, <2>2, AttemptIdentity DEF Results
    <2>3. CASE a \notin PurgedAttempts
      BY <2>3 DEF SameIdentity
    <2>4. QED
      BY <2>2, <2>3
  <1>4. TypeOK'
    <2>1. deliveries' \in [Delivery -> DeliveryRow]
      BY <1>1, <1>2, RowTypes
    <2>2. attempts' \subseteq AttemptRow
      BY <1>3, AttemptTypes DEF TypeOK, Results
    <2>3. QED
      BY <1>1, <2>1, <2>2 DEF TypeOK
  <1>5. LeaseColumns'
    BY <1>2 DEF LeaseColumns
  <1>6. LeaseHasAttempt'
    <2> SUFFICES ASSUME NEW d \in Delivery, deliveries'[d].status = "processing"
                 PROVE  \E a \in attempts' : /\ a.delivery = d
                                             /\ a.fencing_token = deliveries'[d].fencing_token
                                             /\ a.state = "started"
      BY DEF LeaseHasAttempt
    <2>1. deliveries'[d] = deliveries[d] /\ d \notin purge.open
      BY <1>2 DEF Open
    <2>2. PICK a \in attempts : /\ a.delivery = d
                                /\ a.fencing_token = deliveries[d].fencing_token
                                /\ a.state = "started"
      BY <2>1 DEF LeaseHasAttempt
    <2>3. a \notin PurgedAttempts
      BY <2>1, <2>2 DEF PurgedAttempts, PurgeSnapshot, CommitPurge
    <2>4. a \in attempts'
      BY <2>3 DEF CommitPurge
    <2>5. QED
      BY <2>1, <2>2, <2>4
  <1>7. AttemptsBelowCounters'
    BY <1>2, <1>3 DEF TypeOK, DeliveryRow, AttemptRow, AttemptsBelowCounters
  <1>8. AttemptsDistinct'
    <2> SUFFICES ASSUME NEW a \in attempts', NEW b \in attempts', a.delivery = b.delivery,
                        \/ a.attempt_sequence = b.attempt_sequence
                        \/ a.fencing_token = b.fencing_token
                        \/ a.run_number = b.run_number /\ a.attempt_number = b.attempt_number
                 PROVE  a = b
      BY DEF AttemptsDistinct
    <2>1. QED
      BY <1>3 DEF AttemptsDistinct
  <1>9. CurrentAttemptIsLeased'
    BY <1>2, <1>3 DEF TypeOK, DeliveryRow, AttemptRow, AttemptsBelowCounters, CurrentAttemptIsLeased
  <1>10. OnlyPurgeLeavesOrphans'
    <2> SUFFICES ASSUME NEW a \in attempts, a.state = "started",
                        payloads'[EventOf[a.delivery]] # "purged"
                 PROVE  /\ deliveries'[a.delivery].status = "processing"
                        /\ deliveries'[a.delivery].fencing_token = a.fencing_token
      BY <1>3 DEF OnlyPurgeLeavesOrphans
    <2>1. /\ a.delivery \in Delivery
          /\ payloads[EventOf[a.delivery]] # "purged"
          /\ EventOf[a.delivery] \notin purge.events
      BY <1>1, QueueAssumption DEF TypeOK, AttemptRow
    <2>2. a.delivery \notin purge.open
      BY <2>1 DEF PurgeSnapshot, CommitPurge
    <2>3. QED
      BY <1>2, <2>1, <2>2 DEF OnlyPurgeLeavesOrphans
  <1>11. JobsBelowCounters'
    BY <1>1, <1>2 DEF TypeOK, DeliveryRow, Job, JobsBelowCounters
  <1>12. SuccessJobsAcknowledged' /\ SuccessWasAcknowledged' /\ PurgeSnapshot'
    BY <1>1, <1>2 DEF SuccessJobsAcknowledged, SuccessWasAcknowledged, PurgeSnapshot
  <1>13. QED
    BY <1>4, <1>5, <1>6, <1>7, <1>8, <1>9, <1>10, <1>11, <1>12

\* A claim takes the next token, number and sequence of the rows it leases, and
\* closes the attempts of the leases it takes over or gives up.
LEMMA ClaimDeliveriesInv ==
  ASSUME QueueInv, NEW w \in Worker, NEW R \in SUBSET Exhausted, NEW S \in SUBSET Eligible,
         ClaimDeliveries(w, R, S)
  PROVE  QueueInv'
  <1> USE DEF QueueInv
  <1> DEFINE Closed == {a \in attempts :
                 /\ IsOpenAttempt(a)
                 /\ \/ a.delivery \in R
                    \/ a.delivery \in S /\ deliveries[a.delivery].status = "processing"}
  <1>1. /\ deliveries' = [d \in Delivery |->
              IF d \in R THEN DeadLettered(deliveries[d])
              ELSE IF d \in S THEN Leased(deliveries[d], w) ELSE deliveries[d]]
        /\ attempts' = {IF a \in Closed THEN Abandoned(a) ELSE a : a \in attempts}
                         \cup {NewAttempt(d) : d \in S}
        /\ jobs' = jobs \cup {NewJob(w, d) : d \in S}
        /\ UNCHANGED <<payloads, commands, acked, replays, purge>>
    BY DEF ClaimDeliveries
  <1>2. \A d \in Delivery :
          /\ deliveries[d] \in DeliveryRow
          /\ d \in R => deliveries[d].attempts_in_run >= MaxAttempts
          /\ d \in S => /\ deliveries[d].attempts_in_run < MaxAttempts
                       /\ payloads[EventOf[d]] # "purged"
                       /\ d \notin R
          /\ d \in R \cup S => deliveries[d].status # "succeeded"
    BY QueueAssumption DEF TypeOK, DeliveryRow, Exhausted, Eligible, Ready, Waiting
  <1>3. \A d \in Delivery :
          /\ d \in R => /\ deliveries'[d].status = "dead_letter"
                       /\ deliveries'[d].lease = "none"
                       /\ deliveries'[d].lease_owner = NoWorker
                       /\ deliveries'[d].fencing_token = deliveries[d].fencing_token
                       /\ deliveries'[d].attempt_sequence = deliveries[d].attempt_sequence
                       /\ deliveries'[d].attempts_in_run = deliveries[d].attempts_in_run
                       /\ deliveries'[d].run_number = deliveries[d].run_number
          /\ d \in S => /\ deliveries'[d].status = "processing"
                       /\ deliveries'[d].lease = "live"
                       /\ deliveries'[d].lease_owner = w
                       /\ deliveries'[d].fencing_token = deliveries[d].fencing_token + 1
                       /\ deliveries'[d].attempt_sequence = deliveries[d].attempt_sequence + 1
                       /\ deliveries'[d].attempts_in_run = deliveries[d].attempts_in_run + 1
                       /\ deliveries'[d].run_number = deliveries[d].run_number
          /\ d \notin R \cup S => deliveries'[d] = deliveries[d]
    BY <1>1, <1>2 DEF DeliveryRow, DeadLettered, Leased
  <1>4. \A b \in attempts' :
          \/ \E a \in attempts :
               /\ b = IF a \in Closed THEN Abandoned(a) ELSE a
               /\ b.delivery = a.delivery /\ b.run_number = a.run_number
               /\ b.attempt_number = a.attempt_number /\ b.attempt_sequence = a.attempt_sequence
               /\ b.fencing_token = a.fencing_token
               /\ b.state = "started" => b = a /\ a \notin Closed
          \/ \E d \in S : b = NewAttempt(d)
    BY <1>1 DEF TypeOK, AttemptRow, Abandoned
  <1>5. S \subseteq Delivery /\ R \subseteq Delivery
    BY DEF Eligible, Exhausted
  <1>6. TypeOK'
    <2>1. deliveries' \in [Delivery -> DeliveryRow]
      BY <1>1, <1>2, RowTypes
    <2>2. \A d \in S : NewAttempt(d) \in AttemptRow /\ NewJob(w, d) \in Job
      BY <1>2, <1>5, QueueAssumption DEF NewAttempt, NewJob, AttemptRow, Job, DeliveryRow
    <2>3. attempts' \subseteq AttemptRow
      BY <1>4, <2>2, AttemptTypes DEF TypeOK, Results
    <2>4. jobs' \subseteq Job
      BY <1>1, <2>2 DEF TypeOK
    <2>5. QED
      BY <1>1, <2>1, <2>3, <2>4 DEF TypeOK
  <1>7. LeaseColumns'
    BY <1>3, QueueAssumption DEF LeaseColumns
  <1>8. LeaseHasAttempt'
    <2> SUFFICES ASSUME NEW d \in Delivery, deliveries'[d].status = "processing"
                 PROVE  \E a \in attempts' : /\ a.delivery = d
                                             /\ a.fencing_token = deliveries'[d].fencing_token
                                             /\ a.state = "started"
      BY DEF LeaseHasAttempt
    <2>1. CASE d \in S
      <3>1. NewAttempt(d) \in attempts'
        BY <1>1, <2>1
      <3>2. QED
        BY <1>3, <2>1, <3>1 DEF NewAttempt
    <2>2. CASE d \notin S
      <3>1. deliveries'[d] = deliveries[d] /\ d \notin R
        BY <1>3, <2>2
      <3>2. PICK a \in attempts : /\ a.delivery = d
                                  /\ a.fencing_token = deliveries[d].fencing_token
                                  /\ a.state = "started"
        BY <3>1 DEF LeaseHasAttempt
      <3>3. a \in attempts'
        BY <1>1, <2>2, <3>1, <3>2
      <3>4. QED
        BY <3>1, <3>2, <3>3
    <2>3. QED
      BY <2>1, <2>2
  <1>9. AttemptsBelowCounters'
    <2> SUFFICES ASSUME NEW b \in attempts'
                 PROVE  /\ b.attempt_sequence <= deliveries'[b.delivery].attempt_sequence
                        /\ b.fencing_token <= deliveries'[b.delivery].fencing_token
                        /\ b.run_number <= deliveries'[b.delivery].run_number
                        /\ b.run_number = deliveries'[b.delivery].run_number
                             => b.attempt_number <= deliveries'[b.delivery].attempts_in_run
      BY DEF AttemptsBelowCounters
    <2>1. CASE \E d \in S : b = NewAttempt(d)
      BY <1>2, <1>3, <1>5, <2>1 DEF NewAttempt, DeliveryRow
    <2>2. CASE \E a \in attempts : /\ b.delivery = a.delivery /\ b.run_number = a.run_number
                                   /\ b.attempt_number = a.attempt_number
                                   /\ b.attempt_sequence = a.attempt_sequence
                                   /\ b.fencing_token = a.fencing_token
      BY <1>2, <1>3, <2>2 DEF TypeOK, AttemptRow, DeliveryRow, AttemptsBelowCounters
    <2>3. QED
      BY <1>4, <2>1, <2>2
  <1>10. AttemptsDistinct'
    <2> DEFINE Clash(a, b) ==
          /\ a.delivery = b.delivery
          /\ \/ a.attempt_sequence = b.attempt_sequence
             \/ a.fencing_token = b.fencing_token
             \/ a.run_number = b.run_number /\ a.attempt_number = b.attempt_number
    <2>1. \A a \in attempts, d \in S : ~Clash(a, NewAttempt(d)) /\ ~Clash(NewAttempt(d), a)
      BY <1>2, <1>5 DEF TypeOK, AttemptRow, DeliveryRow, AttemptsBelowCounters, NewAttempt
    <2>2. \A c, d \in S : Clash(NewAttempt(c), NewAttempt(d)) => c = d
      BY DEF NewAttempt
    <2>3. \A a, b \in attempts : Clash(a, b) => a = b
      BY DEF AttemptsDistinct
    <2>4. \A a, b \in attempts' : Clash(a, b) => a = b
      <3> SUFFICES ASSUME NEW a \in attempts', NEW b \in attempts', Clash(a, b) PROVE a = b
        OBVIOUS
      <3>1. CASE (\E d \in S : a = NewAttempt(d)) /\ (\E d \in S : b = NewAttempt(d))
        BY <2>2, <3>1
      <3>2. CASE (\E d \in S : a = NewAttempt(d)) /\ ~(\E d \in S : b = NewAttempt(d))
        BY <1>4, <2>1, <3>2
      <3>3. CASE ~(\E d \in S : a = NewAttempt(d)) /\ (\E d \in S : b = NewAttempt(d))
        BY <1>4, <2>1, <3>3
      <3>4. CASE ~(\E d \in S : a = NewAttempt(d)) /\ ~(\E d \in S : b = NewAttempt(d))
        BY <1>4, <2>3, <3>4
      <3>5. QED
        BY <3>1, <3>2, <3>3, <3>4
    <2>5. QED
      BY <2>4 DEF AttemptsDistinct
  <1>11. CurrentAttemptIsLeased' /\ OnlyPurgeLeavesOrphans'
    <2>1. \A d \in S : deliveries'[NewAttempt(d).delivery].status = "processing"
                      /\ deliveries'[NewAttempt(d).delivery].fencing_token = NewAttempt(d).fencing_token
      BY <1>3, <1>5 DEF NewAttempt
    <2>2. ASSUME NEW a \in attempts, a.state = "started", a \notin Closed,
                 a.fencing_token = deliveries'[a.delivery].fencing_token
          PROVE  deliveries'[a.delivery].status = "processing"
      <3>1. a.delivery \in Delivery
        BY DEF TypeOK, AttemptRow
      <3>2. a.delivery \notin R
        BY <1>3, <2>2, <3>1 DEF IsOpenAttempt
      <3>3. a.delivery \notin S
        BY <1>2, <1>3, <2>2, <3>1 DEF TypeOK, AttemptRow, DeliveryRow, AttemptsBelowCounters
      <3>4. QED
        BY <1>3, <2>2, <3>1, <3>2, <3>3 DEF CurrentAttemptIsLeased
    <2>3. ASSUME NEW a \in attempts, a.state = "started", a \notin Closed,
                 payloads[EventOf[a.delivery]] # "purged"
          PROVE  /\ deliveries'[a.delivery].status = "processing"
                 /\ deliveries'[a.delivery].fencing_token = a.fencing_token
      <3>1. a.delivery \in Delivery
        BY DEF TypeOK, AttemptRow
      <3>2. /\ deliveries[a.delivery].status = "processing"
            /\ deliveries[a.delivery].fencing_token = a.fencing_token
        BY <2>3 DEF OnlyPurgeLeavesOrphans
      <3>3. a.delivery \notin R /\ a.delivery \notin S
        BY <2>3, <3>2 DEF IsOpenAttempt
      <3>4. QED
        BY <1>3, <3>1, <3>2, <3>3
    <2>4. CurrentAttemptIsLeased'
      BY <1>4, <2>1, <2>2 DEF CurrentAttemptIsLeased
    <2>5. OnlyPurgeLeavesOrphans'
      <3> SUFFICES ASSUME NEW b \in attempts', b.state = "started",
                          payloads[EventOf[b.delivery]] # "purged"
                   PROVE  /\ deliveries'[b.delivery].status = "processing"
                          /\ deliveries'[b.delivery].fencing_token = b.fencing_token
        BY <1>1 DEF OnlyPurgeLeavesOrphans
      <3>1. CASE \E d \in S : b = NewAttempt(d)
        BY <2>1, <3>1
      <3>2. CASE b \in attempts /\ b \notin Closed
        BY <2>3, <3>2
      <3>3. QED
        BY <1>4, <3>1, <3>2
    <2>6. QED
      BY <2>4, <2>5
  <1>12. JobsBelowCounters'
    <2> SUFFICES ASSUME NEW j \in jobs'
                 PROVE  j.fencing_token <= deliveries'[j.delivery].fencing_token
      BY DEF JobsBelowCounters
    <2>1. CASE j \in jobs
      BY <1>2, <1>3, <2>1 DEF TypeOK, Job, DeliveryRow, JobsBelowCounters
    <2>2. CASE \E d \in S : j = NewJob(w, d)
      BY <1>2, <1>3, <1>5, <2>2 DEF NewJob, DeliveryRow
    <2>3. QED
      BY <1>1, <2>1, <2>2
  <1>13. SuccessJobsAcknowledged'
    BY <1>1 DEF SuccessJobsAcknowledged, NewJob
  <1>14. SuccessWasAcknowledged' /\ PurgeSnapshot'
    BY <1>1, <1>2, <1>3 DEF SuccessWasAcknowledged, PurgeSnapshot
  <1>15. QED
    BY <1>6, <1>7, <1>8, <1>9, <1>10, <1>11, <1>12, <1>13, <1>14

-----------------------------------------------------------------------------
\* Every step keeps the inductive invariant.
LEMMA NextInv == QueueInv /\ [Next]_vars => QueueInv'
  <1> SUFFICES ASSUME QueueInv, [Next]_vars PROVE QueueInv'
    OBVIOUS
  <1>1. ASSUME NEW d \in Delivery, LeaseExpires(d) PROVE QueueInv'
    BY <1>1, LeaseExpiresInv
  <1>2. ASSUME NEW d \in Delivery, BecomesDue(d) PROVE QueueInv'
    BY <1>2, BecomesDueInv
  <1>3. ASSUME NEW e \in Event, PayloadExpires(e) PROVE QueueInv'
    BY <1>3, PayloadExpiresInv
  <1>4. ASSUME NEW w \in Worker, NEW R \in SUBSET Exhausted, NEW S \in SUBSET Eligible,
               ClaimDeliveries(w, R, S)
        PROVE  QueueInv'
    BY <1>4, ClaimDeliveriesInv
  <1>5. ASSUME NEW j \in jobs, NEW result \in Results, Deliver(j, result) PROVE QueueInv'
    BY <1>5, DeliverInv
  <1>6. ASSUME NEW j \in jobs, DropJob(j) PROVE QueueInv'
    BY <1>6, DropJobInv
  <1>7. ASSUME NEW j \in jobs, Finalize(j) PROVE QueueInv'
    BY <1>7, FinalizeInv
  <1>8. ASSUME NEW j \in jobs, FinalizeFenced(j) PROVE QueueInv'
    BY <1>8, FinalizeFencedInv
  <1>9. ASSUME NEW k \in Key, NEW d \in Delivery, BeginReplay(k, d) PROVE QueueInv'
    BY <1>9, BeginReplayInv
  <1>10. ASSUME NEW k \in Key, CommitReplay(k) PROVE QueueInv'
    BY <1>10, CommitReplayInv
  <1>11. ASSUME NEW k \in Key, RejectReplay(k) PROVE QueueInv'
    BY <1>11, RejectReplayInv
  <1>12. ASSUME NEW E \in SUBSET Event, BeginPurge(E) PROVE QueueInv'
    BY <1>12, BeginPurgeInv
  <1>13. ASSUME CommitPurge PROVE QueueInv'
    BY <1>13, CommitPurgeInv
  <1>14. ASSUME AbortPurge PROVE QueueInv'
    BY <1>14, AbortPurgeInv
  <1>15. CASE UNCHANGED vars
    BY <1>15 DEF vars, QueueInv, TypeOK, LeaseColumns, LeaseHasAttempt, SuccessWasAcknowledged,
              AttemptsBelowCounters, AttemptsDistinct, CurrentAttemptIsLeased,
              OnlyPurgeLeavesOrphans, JobsBelowCounters, SuccessJobsAcknowledged, PurgeSnapshot
  <1>16. QED
    BY <1>1, <1>2, <1>3, <1>4, <1>5, <1>6, <1>7, <1>8, <1>9, <1>10, <1>11, <1>12, <1>13, <1>14,
       <1>15 DEF Next

\* In every behaviour, for every number of deliveries, workers, replay keys and
\* attempts, the rows, the jobs and the purge snapshot satisfy the inductive
\* invariant.
THEOREM QueueInvariant == Spec => []QueueInv
  BY InitInv, NextInv, PTL DEF Spec

\* The rows keep their types and the counters their bounds: attempts_in_run
\* never passes max_attempts_per_run and run_number never passes MaxRun.
THEOREM TypeCorrect == Spec => []TypeOK
  <1>1. QueueInv => TypeOK
    BY DEF QueueInv
  <1>2. QED
    BY <1>1, QueueInvariant, PTL

\* The INSERT of a claim never violates a unique constraint of
\* delivery_attempts.
THEOREM AttemptsStayDistinct == Spec => []AttemptsDistinct
  <1>1. QueueInv => AttemptsDistinct
    BY DEF QueueInv
  <1>2. QED
    BY <1>1, QueueInvariant, PTL

\* A delivery shown as succeeded was acknowledged under its current token.
THEOREM SuccessIsTrue == Spec => []SuccessWasAcknowledged
  <1>1. QueueInv => SuccessWasAcknowledged
    BY DEF QueueInv
  <1>2. QED
    BY <1>1, QueueInvariant, PTL

\* Only the purge statement leaves a started attempt without its lease.
THEOREM OrphansArePurged == Spec => []OnlyPurgeLeavesOrphans
  <1>1. QueueInv => OnlyPurgeLeavesOrphans
    BY DEF QueueInv
  <1>2. QED
    BY <1>1, QueueInvariant, PTL

\* finalize_delivery never raises 'delivery attempt invariant violated': the
\* attempt of a lease exists (LeaseHasAttempt) and no other has its token.
THEOREM FinalizeSafe == Spec => []FinalizeNeverRaises
  <1>1. ASSUME QueueInv PROVE FinalizeNeverRaises
    <2> USE <1>1 DEF QueueInv
    <2> SUFFICES ASSUME NEW j \in jobs, HoldsLease(j) PROVE ChangesOneAttempt(j)
      BY DEF FinalizeNeverRaises
    <2>1. /\ j.delivery \in Delivery
          /\ deliveries[j.delivery].status = "processing"
          /\ deliveries[j.delivery].fencing_token = j.fencing_token
      BY DEF HoldsLease, TypeOK, Job
    <2>2. PICK a \in attempts : /\ a.delivery = j.delivery
                                /\ a.fencing_token = j.fencing_token
                                /\ a.state = "started"
      BY <2>1 DEF LeaseHasAttempt
    <2>3. \A b \in OpenAttempts(j) : b = a
      BY <2>2 DEF OpenAttempts, AttemptsDistinct
    <2>4. OpenAttempts(j) = {a}
      BY <2>2, <2>3 DEF OpenAttempts
    <2>5. QED
      BY <2>4 DEF ChangesOneAttempt
  <1>2. QED
    BY <1>1, QueueInvariant, PTL

-----------------------------------------------------------------------------
\* What a step does to the attempt rows: each one is kept, or was started and
\* is closed, under its own identity.
LEMMA AttemptsEvolve ==
  ASSUME QueueInv, [Next]_vars, NEW a \in attempts
  PROVE  \/ a \in attempts'
         \/ a.state = "started" /\ Abandoned(a) \in attempts'
         \/ a.state = "started" /\ \E j \in jobs : Finalize(j) /\ Completed(a, j.result) \in attempts'
  <1>1. CASE attempts' = attempts
    BY <1>1
  <1>2. ASSUME NEW w \in Worker, NEW R \in SUBSET Exhausted, NEW S \in SUBSET Eligible,
               ClaimDeliveries(w, R, S)
        PROVE  \/ a \in attempts'
               \/ a.state = "started" /\ Abandoned(a) \in attempts'
    BY <1>2 DEF ClaimDeliveries, IsOpenAttempt
  <1>3. ASSUME NEW j \in jobs, Finalize(j)
        PROVE  \/ a \in attempts'
               \/ a.state = "started" /\ Completed(a, j.result) \in attempts'
    BY <1>3 DEF Finalize, OpenAttempts
  <1>4. ASSUME CommitPurge
        PROVE  \/ a \in attempts'
               \/ a.state = "started" /\ Abandoned(a) \in attempts'
    BY <1>4 DEF CommitPurge, PurgedAttempts
  <1>5. QED
    BY <1>1, <1>2, <1>3, <1>4 DEF Next, vars, LeaseExpires, BecomesDue, PayloadExpires, Deliver, DropJob,
       FinalizeFenced, BeginReplay, CommitReplay, RejectReplay, BeginPurge, AbortPurge

\* The history of attempts is append-only, whatever claims, finalizations,
\* recoveries and purges commit.
THEOREM HistoryPreserved == Spec => HistoryIsAppendOnly
  <1>1. ASSUME QueueInv, [Next]_vars
        PROVE  \A a \in attempts : \E b \in attempts' :
                 /\ Immutable(a, b)
                 /\ a.state # "started" => b = a
    <2> SUFFICES ASSUME NEW a \in attempts
                 PROVE  \E b \in attempts' : Immutable(a, b) /\ (a.state # "started" => b = a)
      OBVIOUS
    <2>1. a \in AttemptRow
      BY <1>1 DEF QueueInv, TypeOK
    <2>2. Immutable(a, a) /\ Immutable(a, Abandoned(a))
      BY <2>1 DEF Immutable, Abandoned, AttemptRow
    <2>3. \A result : Immutable(a, Completed(a, result))
      BY <2>1 DEF Immutable, Completed, AttemptRow
    <2>4. QED
      BY <1>1, <2>2, <2>3, AttemptsEvolve
  <1>2. QED
    BY <1>1, QueueInvariant, PTL DEF Spec, HistoryIsAppendOnly

\* Only the holder of the live lease completes an attempt, with its own result.
THEOREM CompletionFenced == Spec => CompletedByHolder
  <1> DEFINE HeldBy(a, j) ==
               /\ j.delivery = a.delivery
               /\ deliveries[j.delivery].lease_owner = j.worker
               /\ deliveries[j.delivery].lease = "live"
               /\ deliveries[j.delivery].fencing_token = j.fencing_token
               /\ j.fencing_token = a.fencing_token
               /\ j.result = a.outcome
  <1>1. ASSUME QueueInv, [Next]_vars
        PROVE  \A a \in attempts' :
                 a.state = "completed" /\ a \notin attempts => \E j \in jobs : HeldBy(a, j)
    <2> SUFFICES ASSUME NEW a \in attempts', a.state = "completed", a \notin attempts
                 PROVE  \E j \in jobs : HeldBy(a, j)
      OBVIOUS
    <2> USE <1>1 DEF QueueInv
    <2>1. ASSUME NEW w \in Worker, NEW R \in SUBSET Exhausted, NEW S \in SUBSET Eligible,
                 ClaimDeliveries(w, R, S)
          PROVE  FALSE
      <3>1. \A x \in S : NewAttempt(x).state = "started"
        BY DEF NewAttempt
      <3>2. \A b \in attempts : Abandoned(b).state = "abandoned"
        BY DEF Abandoned, TypeOK, AttemptRow
      <3>3. QED
        BY <2>1, <3>1, <3>2 DEF ClaimDeliveries
    <2>2. ASSUME CommitPurge PROVE FALSE
      BY <2>2 DEF CommitPurge, Abandoned, TypeOK, AttemptRow
    <2>3. ASSUME NEW j \in jobs, Finalize(j) PROVE HeldBy(a, j)
      <3>1. PICK b \in OpenAttempts(j) : a = Completed(b, j.result)
        BY <2>3 DEF Finalize, OpenAttempts
      <3>2. /\ a.delivery = b.delivery /\ a.fencing_token = b.fencing_token
            /\ a.outcome = j.result
        BY <3>1 DEF Completed, OpenAttempts, TypeOK, AttemptRow
      <3>3. QED
        BY <2>3, <3>1, <3>2 DEF Finalize, HoldsLease, OpenAttempts
    <2>4. QED
      BY <2>1, <2>2, <2>3 DEF Next, vars, LeaseExpires, BecomesDue, PayloadExpires, Deliver, DropJob,
         FinalizeFenced, BeginReplay, CommitReplay, RejectReplay, BeginPurge, AbortPurge
  <1>2. QED
    BY <1>1, QueueInvariant, PTL DEF Spec, CompletedByHolder

\* A decision is left by a replay of an undelivered delivery, and by nothing else.
THEOREM DecisionsStand == Spec => TerminalLeftByReplayOnly
  <1> DEFINE ReopensRow(d) ==
               /\ deliveries[d].status \in Undelivered
               /\ deliveries'[d].status = "pending"
               /\ deliveries'[d].run_number = deliveries[d].run_number + 1
               /\ deliveries'[d].attempt_sequence = deliveries[d].attempt_sequence
               /\ deliveries'[d].fencing_token = deliveries[d].fencing_token
  <1>1. ASSUME QueueInv, [Next]_vars
        PROVE  \A d \in Delivery :
                 deliveries[d].status \in Terminal /\ deliveries'[d].status # deliveries[d].status
                 => ReopensRow(d)
    <2> SUFFICES ASSUME NEW d \in Delivery, deliveries[d].status \in Terminal,
                        deliveries'[d].status # deliveries[d].status
                 PROVE  ReopensRow(d)
      OBVIOUS
    <2> USE <1>1 DEF QueueInv
    <2>1. deliveries[d] \in DeliveryRow /\ deliveries[d].status \notin Open
      BY DEF TypeOK, Terminal, Undelivered, Open, Waiting
    <2>2. ASSUME NEW w \in Worker, NEW R \in SUBSET Exhausted, NEW S \in SUBSET Eligible,
                 ClaimDeliveries(w, R, S)
          PROVE  FALSE
      <3>1. d \notin R /\ d \notin S
        BY <2>1 DEF Exhausted, Eligible, Ready, Open
      <3>2. QED
        BY <2>2, <3>1 DEF ClaimDeliveries
    <2>3. ASSUME NEW j \in jobs, Finalize(j) PROVE FALSE
      BY <2>1, <2>3 DEF Finalize, HoldsLease, Open, TypeOK
    <2>4. ASSUME CommitPurge PROVE FALSE
      BY <2>1, <2>4 DEF CommitPurge
    <2>5. ASSUME NEW k \in Key, CommitReplay(k)
          PROVE  d = replays[k] /\ deliveries[d].status \in Undelivered
                 /\ deliveries'[d] = Reopened(deliveries[d])
      BY <2>5 DEF CommitReplay, TypeOK
    <2>6. ASSUME NEW x \in Delivery, LeaseExpires(x) \/ BecomesDue(x) PROVE FALSE
      BY <2>1, <2>6 DEF LeaseExpires, BecomesDue, TypeOK, DeliveryRow
    <2>7. \E k \in Key : CommitReplay(k)
      BY <2>2, <2>3, <2>4, <2>6 DEF Next, vars, PayloadExpires, Deliver, DropJob,
         FinalizeFenced, BeginReplay, RejectReplay, BeginPurge, AbortPurge
    <2>8. QED
      BY <2>1, <2>5, <2>7 DEF Reopened, DeliveryRow
  <1>2. QED
    BY <1>1, QueueInvariant, PTL DEF Spec, TerminalLeftByReplayOnly

-----------------------------------------------------------------------------
\* Counting: the attempts of a run, and the commands of a delivery.

\* A set numbered one to one by m..n has as many elements.
NumberedBy(T, f, m, n) ==
  /\ f \in [T -> m..n]
  /\ \A a, b \in T : f[a] = f[b] => a = b
  /\ \A i \in m..n : \E a \in T : f[a] = i

LEMMA Counted ==
  ASSUME NEW T, NEW f, NEW m \in Int, NEW n \in Int, NumberedBy(T, f, m, n)
  PROVE  Cardinality(T) = IF m > n THEN 0 ELSE n - m + 1
  <1> USE DEF NumberedBy
  <1> DEFINE g == [i \in m..n |-> CHOOSE a \in T : f[a] = i]
  <1>1. \A i \in m..n : g[i] \in T /\ f[g[i]] = i
    OBVIOUS
  <1>2. \A a \in T : g[f[a]] = a
    BY <1>1
  <1>3. g \in Bijection(m..n, T)
    <2>1. g \in [m..n -> T]
      BY <1>1
    <2>2. \A i, k \in m..n : g[i] = g[k] => i = k
      BY <1>1
    <2>3. \A a \in T : \E i \in m..n : g[i] = a
      BY <1>2
    <2> HIDE DEF g
    <2>4. g \in Injection(m..n, T)
      BY <2>1, <2>2 DEF Injection, IsInjective
    <2>5. g \in Surjection(m..n, T)
      BY <2>1, <2>3 DEF Surjection
    <2>6. QED
      BY <2>4, <2>5 DEF Bijection
  <1>4. ExistsBijection(m..n, T)
    BY <1>3 DEF ExistsBijection
  <1>5. IsFiniteSet(m..n) /\ Cardinality(m..n) = IF m > n THEN 0 ELSE n - m + 1
    BY FS_Interval
  <1>6. QED
    BY <1>4, <1>5, FS_Bijection

Numbers(d, run) == {a.attempt_number : a \in RunAttempts(d, run)}
Accepted(d)     == {c \in commands : c.delivery = d}

\* The attempts of a run are numbered from 1 on, up to the delivery's counter in
\* the current run.
NumbersInv ==
  \A d \in Delivery : \A run \in 1..deliveries[d].run_number :
    \E n \in 0..MaxAttempts :
      /\ Numbers(d, run) = 1..n
      /\ run = deliveries[d].run_number => n = deliveries[d].attempts_in_run

\* The accepted commands of a delivery opened its runs after the first, one each;
\* a key has one command, and none while its replay is open.
CommandsInv ==
  /\ \A d \in Delivery : {c.new_run_number : c \in Accepted(d)} = 2..deliveries[d].run_number
  /\ \A c1, c2 \in commands :
       c1.delivery = c2.delivery /\ c1.new_run_number = c2.new_run_number => c1 = c2
  /\ \A c1, c2 \in commands : c1.key = c2.key => c1 = c2
  /\ \A c \in commands : replays[c.key] = NoDelivery

\* The counters of a row, and how a step changes them: a claim takes the next
\* attempt, an accepted replay the next run.
SameCounters(d) ==
  /\ deliveries'[d].run_number = deliveries[d].run_number
  /\ deliveries'[d].attempts_in_run = deliveries[d].attempts_in_run

Claimed(d) ==
  /\ deliveries[d].attempts_in_run < MaxAttempts
  /\ deliveries'[d].run_number = deliveries[d].run_number
  /\ deliveries'[d].attempts_in_run = deliveries[d].attempts_in_run + 1
  /\ NewAttempt(d) \in attempts'

Replayed(d, k) ==
  /\ replays[k] = d
  /\ deliveries'[d].run_number = deliveries[d].run_number + 1
  /\ deliveries'[d].attempts_in_run = 0

\* The attempts a step adds are those of the deliveries it claims.
OnlyClaimsAdd ==
  \A b \in attempts' : \/ \E a \in attempts : SameIdentity(b, a)
                       \/ \E d \in Delivery : Claimed(d) /\ b = NewAttempt(d)

LEMMA RowsEvolve ==
  ASSUME QueueInv, [Next]_vars
  PROVE  /\ OnlyClaimsAdd
         /\ \A d \in Delivery : \/ SameCounters(d)
                                \/ Claimed(d)
                                \/ \E k \in Key : CommitReplay(k) /\ Replayed(d, k)
  <1> USE QueueAssumption DEF QueueInv
  <1> DEFINE Evolves == \A d \in Delivery : \/ SameCounters(d)
                                            \/ Claimed(d)
                                            \/ \E k \in Key : CommitReplay(k) /\ Replayed(d, k)
  <1>1. ASSUME attempts' = attempts PROVE OnlyClaimsAdd
    BY <1>1 DEF OnlyClaimsAdd, SameIdentity
  <1>2. ASSUME deliveries' = deliveries PROVE Evolves
    BY <1>2 DEF SameCounters
  <1>3. \A d \in Delivery : deliveries[d] \in DeliveryRow
    BY DEF TypeOK
  <1>4. \A a \in attempts : SameIdentity(a, a) /\ SameIdentity(Abandoned(a), a)
                            /\ \A r \in Results : SameIdentity(Completed(a, r), a)
    BY AttemptIdentity DEF TypeOK, SameIdentity, Results
  <1>5. ASSUME NEW x \in Delivery, LeaseExpires(x) \/ BecomesDue(x) PROVE OnlyClaimsAdd /\ Evolves
    <2>1. /\ attempts' = attempts
          /\ \/ deliveries' = [deliveries EXCEPT ![x].lease = "expired"]
             \/ deliveries' = [deliveries EXCEPT ![x].due = TRUE]
      BY <1>5 DEF LeaseExpires, BecomesDue
    <2>2. deliveries \in [Delivery -> DeliveryRow]
      BY DEF TypeOK
    <2>3. Evolves
      BY ONLY <2>1, <2>2 DEF DeliveryRow, SameCounters
    <2>4. QED
      BY <1>1, <2>1, <2>3
  <1>6. ASSUME NEW w \in Worker, NEW R \in SUBSET Exhausted, NEW S \in SUBSET Eligible,
               ClaimDeliveries(w, R, S)
        PROVE  OnlyClaimsAdd /\ Evolves
    <2>1. /\ deliveries' = [d \in Delivery |-> IF d \in R THEN DeadLettered(deliveries[d])
                             ELSE IF d \in S THEN Leased(deliveries[d], w) ELSE deliveries[d]]
          /\ \A d \in S : NewAttempt(d) \in attempts'
          /\ \A b \in attempts' : \/ \E a \in attempts : b = a \/ b = Abandoned(a)
                                  \/ \E d \in S : b = NewAttempt(d)
      BY <1>6 DEF ClaimDeliveries
    <2>2. \A d \in S : d \in Delivery /\ d \notin R /\ deliveries[d].attempts_in_run < MaxAttempts
      BY <1>3 DEF Eligible, Exhausted, DeliveryRow
    <2>3. \A d \in Delivery : DeadLettered(deliveries[d]).run_number = deliveries[d].run_number
            /\ DeadLettered(deliveries[d]).attempts_in_run = deliveries[d].attempts_in_run
      BY <1>3 DEF DeadLettered, DeliveryRow
    <2>4. \A d \in Delivery : Leased(deliveries[d], w).run_number = deliveries[d].run_number
            /\ Leased(deliveries[d], w).attempts_in_run = deliveries[d].attempts_in_run + 1
      BY <1>3 DEF Leased, DeliveryRow
    <2>5. \A d \in S : Claimed(d)
      BY <2>1, <2>2, <2>4 DEF Claimed
    <2>6. \A d \in Delivery : d \notin S => SameCounters(d)
      BY <2>1, <2>3 DEF SameCounters
    <2>7. OnlyClaimsAdd
      BY <1>4, <2>1, <2>2, <2>5 DEF OnlyClaimsAdd
    <2>8. QED
      BY <2>5, <2>6, <2>7
  <1>7. ASSUME NEW j \in jobs, Finalize(j) PROVE OnlyClaimsAdd /\ Evolves
    <2>1. j.result \in Results
      BY <1>7 DEF Finalize, TypeOK, Job
    <2>2. OnlyClaimsAdd
      BY <1>4, <1>7, <2>1 DEF Finalize, OnlyClaimsAdd
    <2>3. Evolves
      BY <1>3, <1>7 DEF Finalize, Settled, TypeOK, DeliveryRow, SameCounters
    <2>4. QED
      BY <2>2, <2>3
  <1>8. ASSUME NEW k \in Key, CommitReplay(k) PROVE OnlyClaimsAdd /\ Evolves
    <2>1. replays[k] \in Delivery
      BY <1>8 DEF CommitReplay, TypeOK
    <2>2. Replayed(replays[k], k)
      BY <1>3, <1>8, <2>1 DEF CommitReplay, Replayed, Reopened, TypeOK, DeliveryRow
    <2>3. \A d \in Delivery : d # replays[k] => SameCounters(d)
      BY <1>8 DEF CommitReplay, SameCounters, TypeOK
    <2>4. attempts' = attempts
      BY <1>8 DEF CommitReplay
    <2>5. QED
      BY <1>1, <1>8, <2>2, <2>3, <2>4
  <1>9. ASSUME CommitPurge PROVE OnlyClaimsAdd /\ Evolves
    <2>1. OnlyClaimsAdd
      BY <1>4, <1>9 DEF CommitPurge, OnlyClaimsAdd
    <2>2. Evolves
      BY <1>3, <1>9 DEF CommitPurge, Expired, DeliveryRow, SameCounters
    <2>3. QED
      BY <2>1, <2>2
  <1>10. QED
    BY <1>1, <1>2, <1>5, <1>6, <1>7, <1>8, <1>9 DEF Next, vars, PayloadExpires, Deliver, DropJob,
       FinalizeFenced, BeginReplay, RejectReplay, BeginPurge, AbortPurge

\* A step keeps every attempt, perhaps closed.
LEMMA AttemptsKept ==
  ASSUME QueueInv, [Next]_vars, NEW a \in attempts
  PROVE  \E b \in attempts' : SameIdentity(b, a)
  <1>1. a \in AttemptRow /\ \A j \in jobs : Finalize(j) => j.result \in Results
    BY DEF QueueInv, TypeOK, Job, Finalize
  <1>2. SameIdentity(a, a) /\ SameIdentity(Abandoned(a), a)
    BY <1>1, AttemptIdentity DEF SameIdentity, Results
  <1>3. \A j \in jobs : Finalize(j) => SameIdentity(Completed(a, j.result), a)
    BY <1>1, AttemptIdentity
  <1>4. QED
    BY <1>2, <1>3, AttemptsEvolve

\* The numbers of the attempts of a run that no claim adds to.
LEMMA NumbersFramed ==
  ASSUME QueueInv, [Next]_vars, NEW d \in Delivery, NEW run,
         ~(Claimed(d) /\ run = deliveries[d].run_number)
  PROVE  Numbers(d, run)' = Numbers(d, run)
  <1>1. \A b \in attempts' : b.delivery = d /\ b.run_number = run
                               => \E a \in attempts : SameIdentity(b, a)
    BY RowsEvolve DEF OnlyClaimsAdd, NewAttempt
  <1>2. QED
    BY <1>1, AttemptsKept DEF Numbers, RunAttempts, SameIdentity

\* A claim takes the next number of the current run.
LEMMA NumbersTaken ==
  ASSUME QueueInv, [Next]_vars, NEW d \in Delivery, Claimed(d),
         NEW run, run = deliveries[d].run_number
  PROVE  Numbers(d, run)' = Numbers(d, run) \cup {deliveries[d].attempts_in_run + 1}
  <1>1. \A b \in attempts' : b.delivery = d /\ b.run_number = run
          => \/ \E a \in attempts : SameIdentity(b, a)
             \/ b.attempt_number = deliveries[d].attempts_in_run + 1
    BY RowsEvolve DEF OnlyClaimsAdd, NewAttempt
  <1>2. \E b \in attempts' : /\ b.delivery = d /\ b.run_number = run
                             /\ b.attempt_number = deliveries[d].attempts_in_run + 1
    BY DEF Claimed, NewAttempt
  <1>3. QED
    BY <1>1, <1>2, AttemptsKept DEF Numbers, RunAttempts, SameIdentity

\* The numbering of the attempts is inductive.
LEMMA NumbersStep ==
  ASSUME QueueInv, NumbersInv, [Next]_vars
  PROVE  NumbersInv'
  <1> SUFFICES ASSUME NEW d \in Delivery, NEW run \in 1..deliveries'[d].run_number
               PROVE  \E n \in 0..MaxAttempts :
                        /\ Numbers(d, run)' = 1..n
                        /\ run = deliveries'[d].run_number => n = deliveries'[d].attempts_in_run
    BY DEF NumbersInv
  <1>1. /\ deliveries[d].run_number \in Nat \ {0} /\ deliveries[d].attempts_in_run \in 0..MaxAttempts
        /\ deliveries'[d].run_number \in Nat /\ MaxAttempts \in Nat
    BY NextInv, QueueAssumption DEF QueueInv, TypeOK, DeliveryRow
  <1>2. CASE SameCounters(d) /\ ~Claimed(d)
    BY <1>1, <1>2, NumbersFramed DEF NumbersInv, SameCounters
  <1>3. CASE Claimed(d)
    <2>1. run \in 1..deliveries[d].run_number
      BY <1>3 DEF Claimed
    <2>2. PICK n \in 0..MaxAttempts :
            /\ Numbers(d, run) = 1..n
            /\ run = deliveries[d].run_number => n = deliveries[d].attempts_in_run
      BY <2>1 DEF NumbersInv
    <2>3. CASE run = deliveries[d].run_number
      <3>1. Numbers(d, run)' = 1..n \cup {n + 1}
        BY <1>3, <2>2, <2>3, NumbersTaken
      <3>2. n + 1 \in 0..MaxAttempts /\ 1..n \cup {n + 1} = 1..(n + 1)
        BY <1>1, <1>3, <2>2, <2>3 DEF Claimed
      <3>3. n + 1 = deliveries'[d].attempts_in_run
        BY <1>3, <2>2, <2>3 DEF Claimed
      <3>4. QED
        BY <3>1, <3>2, <3>3
    <2>4. CASE run # deliveries[d].run_number
      BY <1>3, <2>2, <2>4, NumbersFramed DEF Claimed
    <2>5. QED
      BY <2>3, <2>4
  <1>4. CASE (\E k \in Key : Replayed(d, k)) /\ ~Claimed(d)
    <2>1. /\ deliveries'[d].run_number = deliveries[d].run_number + 1
          /\ deliveries'[d].attempts_in_run = 0
      BY <1>4 DEF Replayed
    <2>2. Numbers(d, run)' = Numbers(d, run)
      BY <1>4, NumbersFramed
    <2>3. CASE run = deliveries'[d].run_number
      <3>1. Numbers(d, run) = {}
        BY <1>1, <2>1, <2>3 DEF QueueInv, TypeOK, AttemptRow, AttemptsBelowCounters, Numbers, RunAttempts
      <3>2. 0 \in 0..MaxAttempts /\ 1..0 = {}
        BY <1>1
      <3>3. QED
        BY <2>1, <2>2, <3>1, <3>2
    <2>4. CASE run # deliveries'[d].run_number
      <3>1. run \in 1..deliveries[d].run_number
        BY <1>1, <2>1, <2>4
      <3>2. PICK n \in 0..MaxAttempts : Numbers(d, run) = 1..n
        BY <3>1 DEF NumbersInv
      <3>3. QED
        BY <2>2, <2>4, <3>2
    <2>5. QED
      BY <2>3, <2>4
  <1>5. QED
    BY <1>2, <1>3, <1>4, RowsEvolve

\* Whatever is lost, reclaimed and replayed, the attempts of every run are
\* numbered without a gap and within the budget of the run.
THEOREM BudgetKept == Spec => []AttemptBudget
  <1>1. Init => NumbersInv
    BY QueueAssumption DEF Init, NumbersInv, Numbers, RunAttempts
  <1>2. QueueInv /\ NumbersInv /\ [Next]_vars => NumbersInv'
    BY NumbersStep
  <1>3. ASSUME QueueInv, NumbersInv PROVE AttemptBudget
    <2> SUFFICES ASSUME NEW d \in Delivery, NEW run \in 1..deliveries[d].run_number
                 PROVE  /\ Numbers(d, run) = 1..Cardinality(RunAttempts(d, run))
                        /\ Cardinality(Numbers(d, run)) <= MaxAttempts
                        /\ run = deliveries[d].run_number
                             => Cardinality(Numbers(d, run)) = deliveries[d].attempts_in_run
      BY DEF AttemptBudget, Numbers
    <2> DEFINE T == RunAttempts(d, run)
    <2>1. PICK n \in 0..MaxAttempts :
            /\ Numbers(d, run) = 1..n
            /\ run = deliveries[d].run_number => n = deliveries[d].attempts_in_run
      BY <1>3 DEF NumbersInv
    <2>2. n \in Nat /\ n \in Int /\ 1 \in Int /\ n <= MaxAttempts
      BY QueueAssumption
    <2>3. Cardinality(T) = n
      <3> DEFINE f == [a \in T |-> a.attempt_number]
      <3>1. f \in [T -> 1..n]
        BY <2>1 DEF Numbers
      <3>2. \A a, b \in T : f[a] = f[b] => a = b
        BY <1>3 DEF QueueInv, AttemptsDistinct, RunAttempts
      <3>3. \A i \in 1..n : \E a \in T : f[a] = i
        BY <2>1 DEF Numbers
      <3>f. NumberedBy(T, f, 1, n)
        BY <3>1, <3>2, <3>3 DEF NumberedBy
      <3> HIDE DEF f, T
      <3>4. Cardinality(T) = IF 1 > n THEN 0 ELSE n - 1 + 1
        BY <2>2, <3>f, Counted
      <3>5. QED
        BY <2>2, <3>4
    <2>4. Cardinality(1..n) = n
      BY <2>2, FS_Interval
    <2>5. QED
      BY <2>1, <2>2, <2>3, <2>4
  <1>4. QED
    BY <1>1, <1>2, <1>3, QueueInvariant, PTL DEF Spec

\* The commands stay one to one with the runs: a commit adds the next of both.
LEMMA CommandsStep ==
  ASSUME QueueInv, CommandsInv, [Next]_vars
  PROVE  CommandsInv'
  <1> DEFINE Opened(d) == {c.new_run_number : c \in Accepted(d)}
  <1>1. \A d \in Delivery : deliveries[d].run_number \in Nat \ {0}
    BY DEF QueueInv, TypeOK, DeliveryRow
  <1>2. commands \subseteq Command /\ replays \in [Key -> Delivery \cup {NoDelivery}]
    BY DEF QueueInv, TypeOK
  <1>3. ASSUME NEW k \in Key, CommitReplay(k) PROVE CommandsInv'
    <2> DEFINE e == replays[k]
    <2> DEFINE new == [key |-> k, delivery |-> e, new_run_number |-> deliveries[e].run_number + 1]
    <2>1. /\ e \in Delivery /\ e # NoDelivery
          /\ commands' = commands \cup {new}
          /\ replays' = [replays EXCEPT ![k] = NoDelivery]
      BY <1>2, <1>3 DEF CommitReplay
    <2>2. /\ deliveries'[e].run_number = deliveries[e].run_number + 1
          /\ \A d \in Delivery : d # e => deliveries'[d].run_number = deliveries[d].run_number
      BY <1>3, <2>1 DEF CommitReplay, Reopened, QueueInv, TypeOK, DeliveryRow
    <2>3. new.key = k /\ new.delivery = e /\ new.new_run_number = deliveries[e].run_number + 1
      OBVIOUS
    <2> HIDE DEF new
    <2>4. \A c \in commands : c.key # k
      BY <2>1 DEF CommandsInv
    <2>5. \A c \in commands : c.delivery = e => c.new_run_number \in 2..deliveries[e].run_number
      BY <2>1 DEF CommandsInv, Accepted
    <2>6. ASSUME NEW d \in Delivery PROVE Opened(d)' = 2..deliveries'[d].run_number
      <3>1. CASE d = e
        <4>1. Accepted(d)' = Accepted(d) \cup {new}
          BY <2>1, <2>3, <3>1 DEF Accepted
        <4>2. Opened(d)' = Opened(d) \cup {deliveries[d].run_number + 1}
          BY <2>3, <3>1, <4>1
        <4>3. Opened(d) = 2..deliveries[d].run_number
          BY DEF CommandsInv
        <4>4. QED
          BY <1>1, <2>2, <3>1, <4>2, <4>3
      <3>2. CASE d # e
        <4>1. Accepted(d)' = Accepted(d)
          BY <2>1, <2>3, <3>2 DEF Accepted
        <4>2. QED
          BY <2>2, <3>2, <4>1 DEF CommandsInv
      <3>3. QED
        BY <3>1, <3>2
    <2>7. ASSUME NEW c1 \in commands', NEW c2 \in commands',
                 c1.delivery = c2.delivery /\ c1.new_run_number = c2.new_run_number
          PROVE  c1 = c2
      BY <1>1, <2>1, <2>3, <2>5, <2>7 DEF CommandsInv
    <2>8. ASSUME NEW c1 \in commands', NEW c2 \in commands', c1.key = c2.key PROVE c1 = c2
      BY <2>1, <2>3, <2>4, <2>8 DEF CommandsInv
    <2>9. \A c \in commands' : replays'[c.key] = NoDelivery
      BY <1>2, <2>1, <2>3, <2>4 DEF CommandsInv, Command
    <2>10. QED
      BY <2>6, <2>7, <2>8, <2>9 DEF CommandsInv
  <1>4. ASSUME ~(\E k \in Key : CommitReplay(k)) PROVE CommandsInv'
    <2>1. commands' = commands
      BY <1>4 DEF Next, vars, LeaseExpires, BecomesDue, PayloadExpires, ClaimDeliveries, Deliver,
         DropJob, Finalize, FinalizeFenced, BeginReplay, RejectReplay, BeginPurge, CommitPurge,
         AbortPurge
    <2>2. \A d \in Delivery : deliveries'[d].run_number = deliveries[d].run_number
      BY <1>4, RowsEvolve DEF SameCounters, Claimed
    <2>3. \/ replays' = replays
          \/ \E k \in Key, d \in Delivery : BeginReplay(k, d)
          \/ \E k \in Key : RejectReplay(k)
      BY <1>4 DEF Next, vars, LeaseExpires, BecomesDue, PayloadExpires, ClaimDeliveries, Deliver,
         DropJob, Finalize, FinalizeFenced, BeginPurge, CommitPurge, AbortPurge
    <2>4. \A c \in commands : replays'[c.key] = NoDelivery
      BY <1>2, <2>3 DEF CommandsInv, BeginReplay, RejectReplay, Command
    <2>5. \A d \in Delivery : Accepted(d)' = Accepted(d)
      BY <2>1 DEF Accepted
    <2>6. \A d \in Delivery : Opened(d)' = 2..deliveries'[d].run_number
      BY <2>2, <2>5 DEF CommandsInv
    <2>7. QED
      BY <2>1, <2>4, <2>6 DEF CommandsInv
  <1>5. QED
    BY <1>3, <1>4

\* Racing replays open exactly one run for each command that is accepted.
THEOREM ReplaysCounted == Spec => []OneRunPerCommand
  <1>1. Init => CommandsInv
    BY DEF Init, CommandsInv, Accepted
  <1>2. QueueInv /\ CommandsInv /\ [Next]_vars => CommandsInv'
    BY CommandsStep
  <1>3. ASSUME QueueInv, CommandsInv PROVE OneRunPerCommand
    <2> SUFFICES ASSUME NEW d \in Delivery
                 PROVE  Cardinality(Accepted(d)) = deliveries[d].run_number - 1
      BY <1>3 DEF OneRunPerCommand, CommandsInv, Accepted
    <2> DEFINE T == Accepted(d)
    <2> DEFINE n == deliveries[d].run_number
    <2> DEFINE f == [c \in T |-> c.new_run_number]
    <2>1. {c.new_run_number : c \in T} = 2..n
      BY <1>3 DEF CommandsInv
    <2>n. n \in Nat \ {0} /\ n \in Int /\ 2 \in Int
      BY <1>3 DEF QueueInv, TypeOK, DeliveryRow
    <2> HIDE DEF n
    <2>2. f \in [T -> 2..n]
      BY <2>1
    <2>3. \A a, b \in T : f[a] = f[b] => a = b
      BY <1>3 DEF CommandsInv, Accepted
    <2>4. \A i \in 2..n : \E a \in T : f[a] = i
      BY <2>1
    <2>f. NumberedBy(T, f, 2, n)
      BY <2>2, <2>3, <2>4 DEF NumberedBy
    <2> HIDE DEF f, T
    <2>5. Cardinality(T) = IF 2 > n THEN 0 ELSE n - 2 + 1
      BY <2>n, <2>f, Counted
    <2>6. Cardinality(T) = n - 1
      BY <2>n, <2>5
    <2>7. QED
      BY <2>6 DEF T, n
  <1>4. QED
    BY <1>1, <1>2, <1>3, QueueInvariant, PTL DEF Spec

=============================================================================
