---------------------------- MODULE DeliveryQueue ----------------------------
(***************************************************************************)
(* The durable delivery queue: the rows of wde.deliveries,                 *)
(* wde.delivery_attempts, wde.events and wde.replay_commands, the          *)
(* PL/pgSQL functions that change them (claim_deliveries,                  *)
(* recover_exhausted_deliveries, finalize_delivery, request_replay,        *)
(* purge_expired_payloads) and the worker jobs that call them.             *)
(*                                                                         *)
(* One action is one committed transaction, except where the isolation     *)
(* level (READ COMMITTED) lets another transaction commit between a read   *)
(* and the write that relies on it: a replay reads the event before it     *)
(* commits, and a payload purge takes the snapshot of its single statement *)
(* before it locks the rows.  Both are two actions.                        *)
(*                                                                         *)
(* Time is abstracted to what the code compares: a lease is live or        *)
(* expired, next_attempt_at has come or has not, a payload is past         *)
(* payload_expires_at or is not.                                           *)
(***************************************************************************)
EXTENDS Integers, FiniteSets

CONSTANTS
  Delivery,        \* rows of wde.deliveries, all published
  Event,           \* rows of wde.events
  Endpoint,        \* active endpoints, each with an active secret
  Workspace,       \* active workspaces
  Worker,          \* worker processes
  Key,             \* idempotency keys of replay requests
  EventOf,         \* the event a delivery carries
  EndpointOf,      \* the endpoint a delivery goes to
  WorkspaceOf,     \* the workspace an endpoint belongs to
  MaxAttempts,     \* max_attempts_per_run
  MaxConcurrency,  \* endpoints.max_concurrency
  BatchLimit,      \* p_limit of a claim
  WorkspaceLimit,  \* p_workspace_limit of a claim
  EndpointLimit,   \* p_endpoint_limit of a claim
  MaxRun,          \* the largest run_number, 2147483647 in the code
  Expiring,        \* the events whose payload_expires_at comes
  NoWorker,        \* lease_owner IS NULL
  NoDelivery,      \* no replay transaction is open for a key
  NoPurge          \* no purge statement is running

ASSUME QueueAssumption ==
  /\ EventOf \in [Delivery -> Event]
  /\ EndpointOf \in [Delivery -> Endpoint]
  /\ WorkspaceOf \in [Endpoint -> Workspace]
  /\ MaxAttempts \in Nat \ {0}
  /\ MaxConcurrency \in Nat \ {0}
  /\ BatchLimit \in Nat \ {0}
  /\ WorkspaceLimit \in 1..BatchLimit
  /\ EndpointLimit \in 1..BatchLimit
  /\ MaxRun \in Nat \ {0}
  /\ Expiring \subseteq Event
  /\ NoWorker \notin Worker
  /\ NoDelivery \notin Delivery

VARIABLES
  deliveries,  \* wde.deliveries
  attempts,    \* wde.delivery_attempts, a set of rows
  payloads,    \* the payload envelope of each event
  commands,    \* wde.replay_commands, a set of rows
  jobs,        \* claims a worker process holds in memory, with their result
  acked,       \* <<delivery, fencing token>> of the requests answered 2xx
  replays,     \* the delivery of the open replay transaction of each key
  purge        \* the snapshot of the running purge statement

vars == <<deliveries, attempts, payloads, commands, jobs, acked, replays, purge>>

-----------------------------------------------------------------------------
Waiting  == {"pending", "retry_scheduled"}
Open     == Waiting \cup {"processing"}
Undelivered == {"failed_permanent", "dead_letter"}
Terminal == Undelivered \cup {"succeeded"}
Results  == {"success", "retry", "permanent_failure"}

DeliveryRow ==
  [status : Open \cup Terminal, run_number : 1..MaxRun, attempts_in_run : 0..MaxAttempts,
   attempt_sequence : Nat, fencing_token : Nat,
   lease_owner : Worker \cup {NoWorker},
   lease : {"none", "live", "expired"}, due : BOOLEAN]

AttemptRow ==
  [delivery : Delivery, run_number : Nat, attempt_number : Nat,
   attempt_sequence : Nat, fencing_token : Nat,
   state : {"started", "completed", "abandoned"},
   outcome : Results \cup {"none", "stale"}]

Job == [worker : Worker, delivery : Delivery, fencing_token : Nat,
        result : Results \cup {"none"}]

Command == [key : Key, delivery : Delivery, new_run_number : Nat]

Snapshot == [events : SUBSET Event, started : SUBSET (Delivery \X Nat),
             open : SUBSET Delivery]

TypeOK ==
  /\ deliveries \in [Delivery -> DeliveryRow]
  /\ attempts \subseteq AttemptRow
  /\ payloads \in [Event -> {"kept", "expired", "purged"}]
  /\ commands \subseteq Command
  /\ jobs \subseteq Job
  /\ acked \subseteq Delivery \X Nat
  /\ replays \in [Key -> Delivery \cup {NoDelivery}]
  /\ purge \in Snapshot \cup {NoPurge}

Init ==
  /\ deliveries = [d \in Delivery |->
       [status |-> "pending", run_number |-> 1, attempts_in_run |-> 0,
        attempt_sequence |-> 0, fencing_token |-> 0,
        lease_owner |-> NoWorker, lease |-> "none", due |-> TRUE]]
  /\ attempts = {}
  /\ payloads = [e \in Event |-> "kept"]
  /\ commands = {}
  /\ jobs = {}
  /\ acked = {}
  /\ replays = [k \in Key |-> NoDelivery]
  /\ purge = NoPurge

-----------------------------------------------------------------------------
\* Time.

\* The instant lease_expires_at passes.
LeaseExpires(d) ==
  /\ deliveries[d].lease = "live"
  /\ deliveries' = [deliveries EXCEPT ![d].lease = "expired"]
  /\ UNCHANGED <<attempts, payloads, commands, jobs, acked, replays, purge>>

\* The instant next_attempt_at passes.
BecomesDue(d) ==
  /\ ~deliveries[d].due
  /\ deliveries' = [deliveries EXCEPT ![d].due = TRUE]
  /\ UNCHANGED <<attempts, payloads, commands, jobs, acked, replays, purge>>

\* The instant payload_expires_at passes.
PayloadExpires(e) ==
  /\ e \in Expiring
  /\ payloads[e] = "kept"
  /\ payloads' = [payloads EXCEPT ![e] = "expired"]
  /\ UNCHANGED <<deliveries, attempts, commands, jobs, acked, replays, purge>>

-----------------------------------------------------------------------------
\* claim_deliveries

\* The turn of a delivery has come: it waits and is due, or its lease expired.
Ready(d) ==
  \/ deliveries[d].status \in Waiting /\ deliveries[d].due
  \/ deliveries[d].status = "processing" /\ deliveries[d].lease = "expired"

\* What recover_exhausted_deliveries selects.
\* Mutant: it forgets the deliveries whose last worker died.
ExhaustedWaiting ==
  {d \in Delivery : /\ deliveries[d].status \in Waiting /\ deliveries[d].due
                    /\ deliveries[d].attempts_in_run >= MaxAttempts}
Exhausted == {d \in Delivery : Ready(d) /\ deliveries[d].attempts_in_run >= MaxAttempts}

\* What select_delivery_candidate selects.
Eligible ==
  {d \in Delivery : /\ Ready(d)
                    /\ deliveries[d].attempts_in_run < MaxAttempts
                    /\ payloads[EventOf[d]] # "purged"}

LiveLeases(ep) ==
  {d \in Delivery : /\ EndpointOf[d] = ep
                    /\ deliveries[d].status = "processing"
                    /\ deliveries[d].lease = "live"}

OfEndpoint(S, ep) == {d \in S : EndpointOf[d] = ep}
OfWorkspace(S, ws) == {d \in S : WorkspaceOf[EndpointOf[d]] = ws}

\* A batch respects the limits of the call and the endpoints' capacity: the
\* row locks on workspace and endpoint_runtime serialise the claims of an
\* endpoint, and the count is taken after they are held.
WithinLimits(S) ==
  /\ Cardinality(S) <= BatchLimit
  /\ \A ws \in Workspace : Cardinality(OfWorkspace(S, ws)) <= WorkspaceLimit
  /\ \A ep \in Endpoint :
       OfEndpoint(S, ep) # {} =>
         /\ Cardinality(OfEndpoint(S, ep)) <= EndpointLimit
         /\ Cardinality(LiveLeases(ep)) + Cardinality(OfEndpoint(S, ep)) <= MaxConcurrency

DeadLettered(row) ==
  [row EXCEPT !.status = "dead_letter", !.lease_owner = NoWorker, !.lease = "none"]

\* Mutant: the lease changes hands under the same fencing token.
LeasedSameToken(row, w) ==
  [row EXCEPT !.status = "processing", !.lease_owner = w, !.lease = "live",
              !.attempts_in_run = row.attempts_in_run + 1,
              !.attempt_sequence = row.attempt_sequence + 1]

Leased(row, w) ==
  [row EXCEPT !.status = "processing", !.lease_owner = w, !.lease = "live",
              !.fencing_token = row.fencing_token + 1,
              !.attempts_in_run = row.attempts_in_run + 1,
              !.attempt_sequence = row.attempt_sequence + 1]

Abandoned(a) == [a EXCEPT !.state = "abandoned", !.outcome = "stale"]

\* The started attempt row of the lease a delivery has now.
IsOpenAttempt(a) ==
  /\ a.state = "started"
  /\ a.fencing_token = deliveries[a.delivery].fencing_token

\* Mutants: the row is built from the counters read before the UPDATE.
NewAttemptOldToken(d) ==
  [delivery |-> d, run_number |-> deliveries[d].run_number,
   attempt_number |-> deliveries[d].attempts_in_run + 1,
   attempt_sequence |-> deliveries[d].attempt_sequence + 1,
   fencing_token |-> deliveries[d].fencing_token,
   state |-> "started", outcome |-> "none"]
NewAttemptOldNumber(d) ==
  [delivery |-> d, run_number |-> deliveries[d].run_number,
   attempt_number |-> deliveries[d].attempts_in_run,
   attempt_sequence |-> deliveries[d].attempt_sequence + 1,
   fencing_token |-> deliveries[d].fencing_token + 1,
   state |-> "started", outcome |-> "none"]

NewAttempt(d) ==
  [delivery |-> d, run_number |-> deliveries[d].run_number,
   attempt_number |-> deliveries[d].attempts_in_run + 1,
   attempt_sequence |-> deliveries[d].attempt_sequence + 1,
   fencing_token |-> deliveries[d].fencing_token + 1,
   state |-> "started", outcome |-> "none"]

NewJob(w, d) ==
  [worker |-> w, delivery |-> d,
   fencing_token |-> deliveries[d].fencing_token + 1, result |-> "none"]

\* A worker's claim transaction: dead-letter the exhausted deliveries R, then
\* lease the eligible deliveries S.  SKIP LOCKED lets it pass over any row, so
\* R and S may leave some out.
ClaimDeliveries(w, R, S) ==
  /\ R \subseteq Exhausted
  /\ Cardinality(R) <= BatchLimit
  /\ S \subseteq Eligible
  /\ WithinLimits(S)
  /\ R \cup S # {}
  /\ deliveries' = [d \in Delivery |->
       IF d \in R THEN DeadLettered(deliveries[d])
       ELSE IF d \in S THEN Leased(deliveries[d], w)
       ELSE deliveries[d]]
  /\ attempts' =
       {IF /\ IsOpenAttempt(a)
           /\ \/ a.delivery \in R
              \/ a.delivery \in S /\ deliveries[a.delivery].status = "processing"
        THEN Abandoned(a) ELSE a : a \in attempts}
       \cup {NewAttempt(d) : d \in S}
  /\ jobs' = jobs \cup {NewJob(w, d) : d \in S}
  /\ UNCHANGED <<payloads, commands, acked, replays, purge>>

-----------------------------------------------------------------------------
\* The worker's side of a claim.

\* Mutant: an answer other than 2xx is taken for a success.
DeliverAnyAnswer(j, result) ==
  /\ j.result = "none"
  /\ jobs' = (jobs \ {j}) \cup {[j EXCEPT !.result = result]}
  /\ UNCHANGED <<deliveries, attempts, payloads, commands, acked, replays, purge>>

\* Runner.deliver: one HTTP attempt, and the job's reading of its outcome.  Only
\* a 2xx answer read in full is a success; every other outcome says nothing of
\* what the consumer did with the request.
Deliver(j, result) ==
  /\ j.result = "none"
  /\ jobs' = (jobs \ {j}) \cup {[j EXCEPT !.result = result]}
  /\ acked' = IF result = "success"
              THEN acked \cup {<<j.delivery, j.fencing_token>>} ELSE acked
  /\ UNCHANGED <<deliveries, attempts, payloads, commands, replays, purge>>

\* A job that never finalizes: the claim response is lost to the claim timeout
\* or to a cancelled context, the job is cancelled or panics, the process dies.
DropJob(j) ==
  /\ jobs' = jobs \ {j}
  /\ UNCHANGED <<deliveries, attempts, payloads, commands, acked, replays, purge>>

\* The row conditions of finalize_delivery's UPDATE.
\* Mutant: an expired lease still finalizes.
HoldsAnyLease(j) ==
  LET row == deliveries[j.delivery] IN
  /\ row.status = "processing"
  /\ row.lease_owner = j.worker
  /\ row.fencing_token = j.fencing_token
HoldsLease(j) ==
  LET row == deliveries[j.delivery] IN
  /\ row.status = "processing"
  /\ row.lease_owner = j.worker
  /\ row.fencing_token = j.fencing_token
  /\ row.lease = "live"

\* The attempt rows the second UPDATE of finalize_delivery changes.
OpenAttempts(j) ==
  {a \in attempts : /\ a.delivery = j.delivery
                    /\ a.fencing_token = j.fencing_token
                    /\ a.state = "started"}

\* The transaction raises 'delivery attempt invariant violated' and rolls back
\* unless exactly one attempt row is changed.
ChangesOneAttempt(j) == \E a \in attempts : OpenAttempts(j) = {a}

StatusAfter(row, result) ==
  CASE result = "success" -> "succeeded"
    [] result = "permanent_failure" -> "failed_permanent"
    [] result = "retry" /\ row.attempts_in_run >= MaxAttempts -> "dead_letter"
    [] result = "retry" /\ row.attempts_in_run < MaxAttempts -> "retry_scheduled"

Settled(row, result) ==
  [row EXCEPT !.status = StatusAfter(row, result),
              !.due = IF result = "retry" /\ row.attempts_in_run < MaxAttempts
                      THEN FALSE ELSE row.due,
              !.lease_owner = NoWorker, !.lease = "none"]

Completed(a, result) == [a EXCEPT !.state = "completed", !.outcome = result]

\* finalize_delivery commits the job's result.
Finalize(j) ==
  /\ j.result # "none"
  /\ HoldsLease(j)
  /\ ChangesOneAttempt(j)
  /\ deliveries' = [deliveries EXCEPT ![j.delivery] = Settled(deliveries[j.delivery], j.result)]
  /\ attempts' = {IF a \in OpenAttempts(j) THEN Completed(a, j.result) ELSE a : a \in attempts}
  /\ jobs' = jobs \ {j}
  /\ UNCHANGED <<payloads, commands, acked, replays, purge>>

\* finalize_delivery returns false, or raises: the result is discarded.
FinalizeFenced(j) ==
  /\ j.result # "none"
  /\ ~(HoldsLease(j) /\ ChangesOneAttempt(j))
  /\ jobs' = jobs \ {j}
  /\ UNCHANGED <<deliveries, attempts, payloads, commands, acked, replays, purge>>

-----------------------------------------------------------------------------
\* request_replay

\* Under the advisory lock of the key, no prior command was found and the join
\* of delivery and event read a payload that is not purged.
BeginReplay(k, d) ==
  /\ replays[k] = NoDelivery
  /\ \A c \in commands : c.key # k
  /\ payloads[EventOf[d]] # "purged"
  /\ replays' = [replays EXCEPT ![k] = d]
  /\ UNCHANGED <<deliveries, attempts, payloads, commands, jobs, acked, purge>>

Reopened(row) ==
  [row EXCEPT !.status = "pending", !.run_number = row.run_number + 1,
              !.attempts_in_run = 0, !.due = TRUE,
              !.lease_owner = NoWorker, !.lease = "none"]

\* Mutant: the status read without the row lock is not checked again.
CommitReplayUnchecked(k) ==
  LET d == replays[k] IN
  /\ d # NoDelivery
  /\ deliveries[d].run_number < MaxRun
  /\ commands' = commands \cup
       {[key |-> k, delivery |-> d, new_run_number |-> deliveries[d].run_number + 1]}
  /\ deliveries' = [deliveries EXCEPT ![d] = Reopened(deliveries[d])]
  /\ replays' = [replays EXCEPT ![k] = NoDelivery]
  /\ UNCHANGED <<attempts, payloads, jobs, acked, purge>>

\* The delivery row is locked, so its status is the latest one; the command and
\* the new run commit together.
CommitReplay(k) ==
  LET d == replays[k] IN
  /\ d # NoDelivery
  /\ deliveries[d].status \in Undelivered
  /\ deliveries[d].run_number < MaxRun
  /\ commands' = commands \cup
       {[key |-> k, delivery |-> d, new_run_number |-> deliveries[d].run_number + 1]}
  /\ deliveries' = [deliveries EXCEPT ![d] = Reopened(deliveries[d])]
  /\ replays' = [replays EXCEPT ![k] = NoDelivery]
  /\ UNCHANGED <<attempts, payloads, jobs, acked, purge>>

\* Mutant: the command row survives the rejection of the transition.
RejectReplayLate(k) ==
  /\ replays[k] # NoDelivery
  /\ commands' = commands \cup
       {[key |-> k, delivery |-> replays[k],
         new_run_number |-> deliveries[replays[k]].run_number]}
  /\ replays' = [replays EXCEPT ![k] = NoDelivery]
  /\ UNCHANGED <<deliveries, attempts, payloads, jobs, acked, purge>>

\* replay_invalid_transition, or the transaction is rolled back.
RejectReplay(k) ==
  /\ replays[k] # NoDelivery
  /\ replays' = [replays EXCEPT ![k] = NoDelivery]
  /\ UNCHANGED <<deliveries, attempts, payloads, commands, jobs, acked, purge>>

-----------------------------------------------------------------------------
\* purge_expired_payloads

StartedFor(E) == {a \in attempts : a.state = "started" /\ EventOf[a.delivery] \in E}

\* The statement's snapshot: every common table expression of it sees the rows
\* of this instant, whatever commits before they are locked.
BeginPurge(E) ==
  /\ purge = NoPurge
  /\ E # {}
  /\ \A e \in E : payloads[e] = "expired"
  /\ purge' = [events |-> E,
               started |-> {<<a.delivery, a.attempt_sequence>> : a \in StartedFor(E)},
               open |-> {d \in Delivery : EventOf[d] \in E /\ deliveries[d].status \in Open}]
  /\ UNCHANGED <<deliveries, attempts, payloads, commands, jobs, acked, replays>>

Expired(row) ==
  [row EXCEPT !.status = "failed_permanent", !.fencing_token = row.fencing_token + 1,
              !.lease_owner = NoWorker, !.lease = "none"]

\* The attempts of the snapshot that are still started once they are locked.
\* Mutant: the condition on state is not evaluated again.
PurgedAttemptsUnchecked ==
  {a \in attempts : <<a.delivery, a.attempt_sequence>> \in purge.started}
PurgedAttempts ==
  {a \in attempts : a.state = "started" /\ <<a.delivery, a.attempt_sequence>> \in purge.started}

\* The rows of the snapshot that still satisfy the UPDATEs' conditions once
\* they are locked are changed, and the envelopes are cleared.
CommitPurge ==
  /\ purge # NoPurge
  /\ attempts' = {IF a \in PurgedAttempts THEN Abandoned(a) ELSE a : a \in attempts}
  /\ deliveries' = [d \in Delivery |->
       IF d \in purge.open /\ deliveries[d].status \in Open
       THEN Expired(deliveries[d]) ELSE deliveries[d]]
  /\ payloads' = [e \in Event |-> IF e \in purge.events THEN "purged" ELSE payloads[e]]
  /\ purge' = NoPurge
  /\ UNCHANGED <<commands, jobs, acked, replays>>

\* statement_timeout, a lost connection, a crash.
AbortPurge ==
  /\ purge # NoPurge
  /\ purge' = NoPurge
  /\ UNCHANGED <<deliveries, attempts, payloads, commands, jobs, acked, replays>>

-----------------------------------------------------------------------------
Next ==
  \/ \E d \in Delivery : LeaseExpires(d)
  \/ \E d \in Delivery : BecomesDue(d)
  \/ \E e \in Event : PayloadExpires(e)
  \/ \E w \in Worker, R \in SUBSET Exhausted, S \in SUBSET Eligible : ClaimDeliveries(w, R, S)
  \/ \E j \in jobs, result \in Results : Deliver(j, result)
  \/ \E j \in jobs : DropJob(j)
  \/ \E j \in jobs : Finalize(j)
  \/ \E j \in jobs : FinalizeFenced(j)
  \/ \E k \in Key, d \in Delivery : BeginReplay(k, d)
  \/ \E k \in Key : CommitReplay(k)
  \/ \E k \in Key : RejectReplay(k)
  \/ \E E \in SUBSET Event : BeginPurge(E)
  \/ CommitPurge
  \/ AbortPurge

Spec == Init /\ [][Next]_vars

-----------------------------------------------------------------------------
\* Safety.

\* finalize_delivery never raises 'delivery attempt invariant violated': a job
\* that still holds its lease finds exactly one started attempt row to close,
\* whatever purges, reclaims and replays committed meanwhile.
FinalizeNeverRaises == \A j \in jobs : HoldsLease(j) => ChangesOneAttempt(j)

\* The plain INSERT of claim_one_delivery never meets the unique constraints of
\* delivery_attempts, (delivery, attempt_sequence) and (delivery, run_number,
\* attempt_number), nor gives two attempts one fencing token.
AttemptsDistinct ==
  \A a, b \in attempts :
    /\ a.delivery = b.delivery
    /\ \/ a.attempt_sequence = b.attempt_sequence
       \/ a.fencing_token = b.fencing_token
       \/ a.run_number = b.run_number /\ a.attempt_number = b.attempt_number
    => a = b

\* A delivery shown as succeeded was acknowledged by its consumer under the
\* fencing token it still carries; no other worker's answer made it so.
SuccessWasAcknowledged ==
  \A d \in Delivery :
    deliveries[d].status = "succeeded" => <<d, deliveries[d].fencing_token>> \in acked

RunAttempts(d, run) == {a \in attempts : a.delivery = d /\ a.run_number = run}

\* Crashes, lost claims and reclaims included, the attempts of every run are
\* numbered 1, 2, 3... without a gap, up to attempts_in_run for the current
\* run, and never beyond max_attempts_per_run.
AttemptBudget ==
  \A d \in Delivery : \A run \in 1..deliveries[d].run_number :
    LET numbers == {a.attempt_number : a \in RunAttempts(d, run)} IN
    /\ numbers = 1..Cardinality(RunAttempts(d, run))
    /\ Cardinality(numbers) <= MaxAttempts
    /\ run = deliveries[d].run_number => Cardinality(numbers) = deliveries[d].attempts_in_run

\* Every run after the first was opened by exactly one accepted replay command,
\* and every accepted command opened one, although commands with different
\* keys race for the same delivery.
OneRunPerCommand ==
  \A d \in Delivery :
    LET accepted == {c \in commands : c.delivery = d} IN
    /\ {c.new_run_number : c \in accepted} = 2..deliveries[d].run_number
    /\ Cardinality(accepted) = deliveries[d].run_number - 1
    /\ \A c1, c2 \in commands : c1.key = c2.key => c1 = c2

\* A started attempt belongs to the live or expired lease its delivery has now.
\* The only exception is an attempt of an event whose payload is purged: nothing
\* but the purge statement leaves one behind, whatever claims, crashes, expiries
\* and replays do.
OnlyPurgeLeavesOrphans ==
  \A a \in attempts :
    a.state = "started" =>
      \/ /\ deliveries[a.delivery].status = "processing"
         /\ deliveries[a.delivery].fencing_token = a.fencing_token
      \/ payloads[EventOf[a.delivery]] = "purged"

\* Refuted: README.md line 234 and the data architecture, section 10, say that a
\* purge closes the started attempts of the payload before it is cleared.
PurgeClosesAttempts ==
  \A a \in attempts : payloads[EventOf[a.delivery]] = "purged" => a.state # "started"

\* Refuted: the same passages say that a purge terminates the deliveries of the
\* payload and that a later replay is refused.
PurgeClosesDeliveries ==
  \A d \in Delivery : payloads[EventOf[d]] = "purged" => deliveries[d].status \in Terminal

\* The history of attempts is append-only: a row is never removed, its identity
\* never changes, and once it is no longer started nothing of it changes.
Immutable(a, b) == [b EXCEPT !.state = a.state, !.outcome = a.outcome] = a
HistoryIsAppendOnly ==
  [][\A a \in attempts : \E b \in attempts' :
       /\ Immutable(a, b)
       /\ a.state # "started" => b = a]_vars

\* An attempt is completed only by the job its claim created, with the result
\* that job computed, while that job held the live lease: an expired or
\* superseded worker never writes an outcome.
CompletedByHolder ==
  [][\A a \in attempts' :
       a.state = "completed" /\ a \notin attempts =>
         \E j \in jobs : /\ j.delivery = a.delivery
                         /\ deliveries[j.delivery].lease_owner = j.worker
                         /\ deliveries[j.delivery].lease = "live"
                         /\ deliveries[j.delivery].fencing_token = j.fencing_token
                         /\ j.fencing_token = a.fencing_token
                         /\ j.result = a.outcome]_vars

\* A terminal delivery changes only by a replay of an undelivered one, which
\* opens the next run and keeps the history counters; succeeded is final.
TerminalLeftByReplayOnly ==
  [][\A d \in Delivery :
       deliveries[d].status \in Terminal /\ deliveries'[d].status # deliveries[d].status =>
         /\ deliveries[d].status \in Undelivered
         /\ deliveries'[d].status = "pending"
         /\ deliveries'[d].run_number = deliveries[d].run_number + 1
         /\ deliveries'[d].attempt_sequence = deliveries[d].attempt_sequence
         /\ deliveries'[d].fencing_token = deliveries[d].fencing_token]_vars

-----------------------------------------------------------------------------
\* The inductive invariant behind the safety properties, part by part.

\* The lease columns are set exactly while the delivery is processing.
LeaseColumns ==
  \A d \in Delivery :
    /\ deliveries[d].status = "processing" <=> deliveries[d].lease # "none"
    /\ deliveries[d].status = "processing" <=> deliveries[d].lease_owner # NoWorker

\* The counters of a delivery bound those of its attempts.
AttemptsBelowCounters ==
  \A a \in attempts :
    LET row == deliveries[a.delivery] IN
    /\ a.attempt_sequence <= row.attempt_sequence
    /\ a.fencing_token <= row.fencing_token
    /\ a.run_number <= row.run_number
    /\ a.run_number = row.run_number => a.attempt_number <= row.attempts_in_run

\* An attempt under the current token is started only while the lease is held.
CurrentAttemptIsLeased ==
  \A a \in attempts :
    /\ a.state = "started"
    /\ a.fencing_token = deliveries[a.delivery].fencing_token
    => deliveries[a.delivery].status = "processing"

\* A delivery that is processing has its attempt row, still started.
LeaseHasAttempt ==
  \A d \in Delivery :
    deliveries[d].status = "processing" =>
      \E a \in attempts : /\ a.delivery = d
                          /\ a.fencing_token = deliveries[d].fencing_token
                          /\ a.state = "started"

\* The token of a job was granted, and no two workers share one.
JobsBelowCounters ==
  \A j \in jobs : j.fencing_token <= deliveries[j.delivery].fencing_token

\* A job that reports success was acknowledged.
SuccessJobsAcknowledged ==
  \A j \in jobs : j.result = "success" => <<j.delivery, j.fencing_token>> \in acked

\* While a purge runs, its events keep their payload, and the attempts of its
\* snapshot belong to deliveries of its snapshot.
PurgeSnapshot ==
  purge # NoPurge =>
    /\ \A e \in purge.events : payloads[e] = "expired"
    /\ \A d \in purge.open : EventOf[d] \in purge.events
    /\ \A row \in purge.started : row[1] \in purge.open

QueueInv ==
  /\ TypeOK
  /\ LeaseColumns
  /\ AttemptsBelowCounters
  /\ AttemptsDistinct
  /\ CurrentAttemptIsLeased
  /\ LeaseHasAttempt
  /\ OnlyPurgeLeavesOrphans
  /\ JobsBelowCounters
  /\ SuccessJobsAcknowledged
  /\ SuccessWasAcknowledged
  /\ PurgeSnapshot

-----------------------------------------------------------------------------
\* The queue implements the contract.

Phase(row) ==
  CASE row.status \in Waiting -> "queued"
    [] row.status = "processing" -> "granted"
    [] row.status = "succeeded" -> "delivered"
    [] row.status \in Undelivered -> "undelivered"

OutcomesOf(d) ==
  {<<a.fencing_token, a.outcome>> :
     a \in {b \in attempts : b.delivery = d /\ b.state = "completed"}}

Contract == INSTANCE DeliveryContract WITH
  phase    <- [d \in Delivery |-> Phase(deliveries[d])],
  run      <- [d \in Delivery |-> deliveries[d].run_number],
  token    <- [d \in Delivery |-> deliveries[d].fencing_token],
  outcomes <- [d \in Delivery |-> OutcomesOf(d)]

\* Seen through its rows, the queue keeps the contract of DeliveryContract:
\* every transaction is grants, settlements by the holder of the current token,
\* withdrawals and reopenings, or changes nothing a client can see.
ImplementsContract == Contract!Spec

-----------------------------------------------------------------------------
\* Liveness.

\* The clock advances, and a worker's claim loop keeps polling: a delivery that
\* stays selectable is selected, because the candidates are ordered by the
\* claim sequences of workspace and endpoint and by next_attempt_at.  Nothing is
\* assumed of jobs, replays or purges: any of them may stop at any point.
FairSpec ==
  /\ Spec
  /\ \A d \in Delivery : WF_vars(LeaseExpires(d)) /\ WF_vars(BecomesDue(d))
  /\ \A d \in Delivery :
       WF_vars(\E w \in Worker, R \in SUBSET Exhausted, S \in SUBSET Eligible :
                 d \in R \cup S /\ ClaimDeliveries(w, R, S))

\* Whatever is lost, every open delivery is eventually decided: every claim may
\* be dropped before the request is sent or after it is answered.
OpenEventuallyDecided ==
  \A d \in Delivery : deliveries[d].status \in Open ~> deliveries[d].status \in Terminal

=============================================================================
