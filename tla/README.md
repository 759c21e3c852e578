# A verification development of the webhook delivery engine

TLA+ modules, TLC configurations and TLAPS proofs for the delivery engine of
this repository: a Go API and Go workers around one PostgreSQL database, whose
`SECURITY DEFINER` functions (`src/db/migrations/*.sql`) make every state
transition that matters. The modules translate those functions and the Go code
that calls them; line references are in `PROJECT.json`, under `map`.

## 1. The system

A client publishes an event to the API under an idempotency key; the API stores
the encrypted payload and one delivery per subscribed endpoint. Workers poll the
database for deliveries, each claim taking a lease and a fencing token, send the
signed webhook, and finalize the delivery with the outcome. A delivery that
stays undelivered can be replayed. A retention loop in every worker purges
expired payloads, secrets, sessions, metadata and deleted workspaces.

The processes share nothing but the database. It runs at READ COMMITTED: every
*statement* takes its own snapshot, and an UPDATE (or `FOR UPDATE`) that meets a
row changed since that snapshot evaluates its condition again on the new
version. Most of what is hard in this system is in the gap between a snapshot
and the write that relies on it.

### Components

| Component | State | Operations | Hard behaviour | What makes it correct | Module |
|---|---|---|---|---|---|
| Delivery queue (`migrations/000003`-`000005`, `000009`, `000013`; `internal/delivery/postgres.go`) | `deliveries`, `delivery_attempts`, payload envelopes of `events`, `replay_commands` | `claim_deliveries`, `recover_exhausted_deliveries`, `finalize_delivery`, `request_replay`, `purge_expired_payloads` | leases expire while a worker is busy; workers die; answers come late; replays and purges run beside claims | one current holder; only it records an outcome, once; history is append-only; attempts stay within the budget; every open delivery is decided in the end | `DeliveryQueue`, `DeliveryContract` |
| Claim transactions (`000003`-`000005`) | row locks on workspace, endpoint_runtime and delivery; the batch counters of a call; the claim sequences of workspaces and endpoints | `select_delivery_candidate`, `claim_one_delivery`, the loop of `claim_deliveries` | concurrent claims, stale snapshots, SKIP LOCKED | `max_concurrency` per endpoint, one lease per delivery, a call as good as one step, endpoints take turns as long as selects are not disturbed | `ClaimCapacity`, `ClaimRotation`, `ClaimContract` |
| Worker scheduler (`internal/delivery/scheduler.go`, `delivery.go`) | slots in use, `done` channel, poll timer, contexts | `Run`, `claimResponsive`, `startJob`, `drain` | a stop at any point, panics, hung jobs, hung claims | never beyond its concurrency, no result lost, returns when told to, keeps polling | `Runner` |
| Worker process (`cmd/worker`, `internal/platform/runtime`) | the errgroup of four services, the shutdown budget, what `run` defers | start, stop, failure of one service | everything hangs while a signal waits | the process ends as a whole, gives back what it holds after its services, and reports success only when it was told to stop | `WorkerProcess` |
| Outbound attempt (`outbound.go`, `retry.go`, `claim_crypto.go`, `internal/outboundhttp`) | deadlines, idle connections | `deliver`, `execute`, `Delay`, `Resolve`, the dials | time limits of every phase, names with several addresses, idle connections, redirects, `Retry-After` | ends within the lease; reaches allowed addresses only; a result the database accepts; a delay within its cap | `Outbound` |
| Keys and signatures (`internal/signing`, `internal/platform/cryptobox`, `config/keyring.go`, `config/secrets.go`) | two keyrings in memory, their files | load, seal, open, sign | files replaced between the two readings of a startup; versions narrowed to `int16` | a process that started has usable keys; a receiver with either secret verifies | `KeyMaterials`, `Outbound` |
| Event ingestion (`internal/event`) | `events`, `deliveries` | `Publish` | two publishes under one key | one event per key; a duplicate sees the same deliveries | `ApiRequests` |
| Quotas (`internal/ratelimit`, `000008`) | `rate_limit_buckets`, in-memory edge buckets | consume, sweep, evict | concurrent consumption at the limit, several dimensions, refusals in the middle | exact counts, never more than the limit per window | `ApiRequests` |
| Endpoints and secrets (`internal/endpoint`, `000011`, `000012`) | `endpoints`, `endpoint_secret_versions`, `secret_rotation_commands` | create, rotate, purge retired secrets | concurrent and repeated rotations, overlap of two secrets, claims that read them | one active secret, at most one retiring one, a repeated command gives the same secret | `EndpointSecrets` |
| Retention (`internal/retention`, `000013`-`000017`) | `maintenance_jobs`, tombstones, `restore_control` | the five purges of a pass, the request of a workspace purge | work in flight while a workspace goes; failures between batches | a closed workspace gets nothing but what the console adds; the purge ends and leaves none of the rows it models | `WorkspacePurge` |
| API keys (`internal/auth`, `cmd/api/credentials.go`) | `workspaces`, `api_keys`, the credential file | bootstrap, revoke, authenticate | the write fails, the machine stops, the answer of the commit is lost | a key whose bootstrap succeeded is in a file that survives | `Credentials`, `ApiRequests` |
| Console sessions (`internal/consolesession`, `internal/console`, `000021`) | `console_sessions` | login, resume, logout, revoke, purge | concurrent logins, sliding and absolute expiry, locked rows, quarantine | no more than five sessions; an ended session serves nothing, a live one is turned away only by a failure of the database | `ConsoleSession` |

How they interact: API, console and workers meet only in the rows of the
database. In a worker, one goroutine runs the scheduler loop and one each job;
the loop calls `claim_deliveries` and every job ends with `finalize_delivery`.
The retention loop, the queue metrics and the operational server run in the same
process, and `errgroup` cancels all of them when one fails. Replays, rotations,
endpoint creations and purge requests come through the API or the administration
command at any time.

## 2. The modules

Each family stands alone: it has the variables of the rows and processes it is
about, and takes as inputs what another family shows possible. `DeliveryQueue`
takes any result of an attempt, where `Outbound` shows which there are, and takes
a claim as one step, which is what `ClaimCapacity` is proved to amount to; `DropJob` of
`DeliveryQueue` stands for what `Runner` and `WorkerProcess` may lose.

```
DeliveryQueue --refines--> DeliveryContract
ClaimRotation --> ClaimCapacity --refines--> ClaimContract
Runner  <-- WorkerProcess                        ApiRequests
EndpointSecrets <-- WorkspacePurge               KeyMaterials <-- Outbound
Credentials <-- ConsoleSession                   (A <-- B: B extends A)
```

### DeliveryQueue - the rows and the transactions on them

Variables are the tables (`deliveries`, `attempts`, `payloads`, `commands`),
what a worker process holds in memory (`jobs`), the transactions that are open
between two of their statements (`replays`, `purge`), and one history variable,
`acked`: the fencing tokens under which a consumer answered 2xx.

| Action | Code |
|---|---|
| `ClaimDeliveries(w, R, S)` | `claim_deliveries`: dead-letter the exhausted deliveries `R`, lease the eligible deliveries `S`, abandon the attempts of leases that expired, insert the new attempts |
| `Deliver(j, result)` | `Runner.deliver`: the HTTP attempt and its classification |
| `DropJob(j)` | the claim response is lost, the job is cancelled or panics, the process dies |
| `Finalize(j)`, `FinalizeFenced(j)` | `finalize_delivery`: the fenced UPDATE and the UPDATE of exactly one attempt, or no change |
| `BeginReplay`, `CommitReplay`, `RejectReplay` | `request_replay`: the checks up to the event's payload, and the transition, in two steps because the event is not locked |
| `BeginPurge`, `CommitPurge`, `AbortPurge` | `purge_expired_payloads`: the snapshot of its one statement, and its effect once the rows are locked |
| `LeaseExpires`, `BecomesDue`, `PayloadExpires` | the clock passes `lease_expires_at`, `next_attempt_at`, `payload_expires_at` |

Abstractions: time is reduced to what the code compares; a payload is kept,
expired or purged; a claim leases any set of eligible deliveries within the
limits (SKIP LOCKED can pass over any row, and the order of the candidates is in
`ClaimRotation`); workspaces, endpoints and secrets stay active. `DropJob` may happen
to any job at any time, which covers the crash of a worker.

### DeliveryContract - what the queue promises

Four variables per delivery (phase, run, token, outcomes) and four moves: grant,
settle, withdraw, reopen. `DeliveryQueue!ImplementsContract` is the refinement:
the phase is read from `status`, the outcomes from the completed attempts. TLC
checks it as a property and `DeliveryQueueRefinement` proves it.

### ClaimCapacity, ClaimRotation and ClaimContract - claims, row by row

`DeliveryQueue` takes a claim as one step that respects `max_concurrency`.
`ClaimCapacity` takes the same function statement by statement: `Look` is the
snapshot of a `select_delivery_candidate`, `PassOver` a candidate it cannot lock,
of which it may keep some row locks, `Take` the row locks of the candidate it
returns, the second count and the lease, `FindNone` a select that returns nothing,
`Commit` and `Abort` the end of the transaction. Nothing that a transaction has
leased is visible to others until it commits.

`ClaimContract` is the claim as one step, with the terms on which `ClaimDeliveries`
of `DeliveryQueue` takes its leases: every delivery can be claimed, and the set
respects `p_limit`, the limits per workspace and endpoint, and the capacity left.
`ClaimCapacity!ClaimsAreAtomic` is the refinement: the committed rows seen from
outside, with `Commit` as the step. What has to be true for it is that whatever the
call saw of a row in its old snapshot still holds when it commits.

`ClaimRotation` adds the order in which the candidates are tried: the sequences
of workspace and endpoint (`turn`), which a lease moves to the end in its own
transaction (`moved`, `Advance`), the place of each candidate in the sorted
snapshot, and the lock that a publication takes on its workspace by the foreign
key of `events`. Two history variables serve the property: `overtaken` has the pairs
of which the first was leased although the select could have leased the second,
until the second has its turn, and `released` the workspaces that others unlocked
while a select was going on. The sequences grow for ever and are only compared, so the model
keeps their ranks, which leaves the state space finite without cutting an
execution off. Candidates that the two sequences do not order are tried in any
order; in the code `next_attempt_at` decides.

### Runner and WorkerProcess - a worker

`Runner`: one action per branch of the selects of `Run`, `claimResponsive` and
`drain` (`internal/delivery/scheduler.go`), and one per event of a timer, a
context or a goroutine. The claim call is the state `claiming`: it is answered,
fails, panics, hangs, or is left behind when the context is cancelled.

`WorkerProcess` puts it among the other goroutines of `cmd/worker/main.go`: the
operational server with `ServeWithBudget`, the retention runner, the queue
metrics. `Join` is a goroutine of the errgroup that returns, whose error cancels
the context of all; `ClosePool` and `FlushTelemetry` are the deferred calls of
`run`.

### Outbound and KeyMaterials - one attempt

`Outbound` is one job: `GrantLease`, the checks of a claim (`RefuseClaim`), the
request (`SendRequest`), resolution, one dial per address, the handshake, the
headers and the body, each with its own limit and all under the deadline of the
request, then the classification and the delay. `now` counts from the grant of
the lease, and a timer that is due fires before `now` advances: the process is
assumed not to be suspended. The transport may dial again (`Reconnect`) when an
idle connection turns out closed before anything was written. Addresses are known
by the class the policy gives them.

`KeyMaterials` is the startup: `Validate` (`config`) and `Load` (`cryptobox`)
read the keyring files one after the other, and `Replace` may come in between.
The conversion of a version to `int16` is modelled with its wrap-around.

### ApiRequests - a request through the layers of the API

A request passes the edge limiter (one critical section of its mutex), the
credential, the quota transaction (one statement per dimension, rows locked to
its end), the scope, and the publication. `Restart` forgets the memory of the
process and its transactions. The clock is read before the mutex of the edge
limiter; `stale` records that a window was evaluated after a later one, which
resets the later counter: `EdgeLimit` holds as long as that did not happen.

### EndpointSecrets and WorkspacePurge - secrets, and a workspace that goes

A rotation is its advisory lock (`TakeKey`), its writes under the endpoint's lock
(`Rotate`) and its commit; the time it compares `retire_at` with is the one its
transaction began with. A claim reads the retiring secret with one snapshot
(`StartClaim`) and the active one with a later one (`FinishClaim`). The unique
indexes of the tables are left out on purpose: the locks alone keep the secrets
apart, so no index ever refuses a rotation.

`WorkspacePurge` adds who creates endpoints and events, the request of the purge
(`request_workspace_purge`, which waits for the rotations that hold an endpoint)
and the passes of the retention runner, each a sequence of five calls that may
fail at any of them (`FailPass`). A creation waits at the foreign key: its
INSERT takes KEY SHARE on the row of the workspace, which the request's FOR
UPDATE excludes. `Admitted` is row-level security: the policies of `wde_api` read
the status of the workspace again in every statement (`000002:215-220`), so the
rows after the first are refused when the workspace was closed in between; those
of `wde_console` read no status (`000021:66-73`), so a creation of the console
(`Console`) that waited leaves an active endpoint with an active secret in the
workspace that is being deleted. An event may have no rows after its own and can
therefore commit there through either. The purge finds these rows because it looks
for the earliest kind again in every call.

The purge also deletes replay commands, the keys with their sessions, and the
rate-limit buckets; these are left out. Nobody rotates a secret or claims a delivery
in a workspace that is not active, so the secret of an endpoint of the console may
go before the endpoint does (`000017:87`, `93`) without anyone to miss it.

### Credentials and ConsoleSession

`Credentials` is the bootstrap command with its file: written, synced, then the
commit, whose answer may be lost. `ConsoleSession` adds the sessions of that key.
A login counts under the advisory lock of the key, and rows it expired stay
locked until it ends; a request reads time and generation, then the key, then
updates the row it may have waited for. `FailRequest` is the error of the database in
either of its two calls, of which `Service.Authenticate` makes `ErrUnauthorized`.
What a form of the console publishes, creates or replays is in the modules above (`Mutate`).

## 3. The runs

| Run | Module, instance | Question |
|---|---|---|
| `queue_replay` | `MCDeliveryQueue`: 1 delivery, 2 workers, 2 replay keys, 2 runs of 2 attempts, a payload that expires | history, invariants and the contract with leases that change hands, replays and purges at every point |
| `queue_liveness` | 2 deliveries, 1 worker, a payload that expires, fairness | is every open delivery decided in the end |
| `purge_attempts`, `purge_deliveries` | 1 delivery, 1 worker, (1 key) | findings 1 and 2 |
| `claim_rotation` | `MCClaimRotation`: 3 deliveries, 2 endpoints of one workspace, 2 claim calls, `max_concurrency` 1, batches of 2 with one per workspace, publications | can concurrent claims overrun an endpoint, lease a delivery twice or lease one that was decided meanwhile; do endpoints take turns |
| `worker_process` | `WorkerProcess`: concurrency 2, batches of 2, fairness | does the loop account for its jobs, keep polling, and the process end as a whole and in order |
| `outbound` | `MCOutbound`: 7 keyring documents, 6 claims, 5 status codes, both profiles | time limits, destinations, signatures, results and delays of an attempt |
| `dns_failure` | the same | finding 4 |
| `api_requests` | `MCApiRequests`: 3 requests, two at a time, 2 keys, 1 idempotency key, limits of 1 and 2, two windows | quotas, idempotency and the edge limit |
| `workspace_purge` | `MCWorkspacePurge`: 3 endpoints, of which one is created through the API and one through the console, 2 rotations, 2 keys, 1 claim, 2 events, one through the console, batches of 1, two calls in all, fairness | what can a closed workspace get or keep, does the purge end |
| `secret_signatures` | the same with 1 endpoint, 1 rotation, 1 claim | finding 3 |
| `console` | `MCConsoleSession`: 2 bootstrap commands, 2 logins, 1 browser, a limit of 1, one quarantine | sessions at their limit and their end, the key of the bootstrap |

Why the bounds are enough. Two workers are what it takes for a lease to change
hands and for a stale finalize to meet a new holder; two attempts per run make
the first, the last and the exhausted attempt distinct; two keys and two runs
let replays race and reach `MaxRun`; one payload is enough because the purge acts
on each event's rows alone. In `claim_rotation` an endpoint with capacity 1 and a
backlog of two is contended, and the other endpoint shares the workspace, its
lock and its publications with it, so that the first is leased twice as soon as the
endpoints do not take turns; the limit per workspace ends a batch at its first
lease, and the proofs cover larger ones. With larger batches both endpoints fit in
one call and the order no longer matters. Workspaces take turns by the same
comparison one level up, which this instance with its one workspace does not reach.
Three endpoints in two workspaces, with batches of one and no publications, pass too
(2.7 million states); that instance takes too long beside publications, and is not
kept as a run.
In `worker_process`, two slots and batches of two let a claim be limited by the
batch and by the free slots. In `outbound` durations are scaled to small numbers
that keep their order, the claims reach the cap of the delays and every class of
address, and the documents hold a rotation, a version that does not fit in an
`int16` (`Half` is 4), a primary that wraps onto a key, and a file that is
refused. In `api_requests` the
global and the workspace limit are reached by two requests and the key's by one.
`MaxCalls` allows two calls in all in `workspace_purge`, so that every pair of the
rotations, creations, publishes and claims meets the purge; a claim, an event and a
creation do not interact with each other there. In `console` a limit of 1 makes the
second login the one too many, and three ticks pass the idle and the absolute
expiry. With two logins none that fails takes expiries back with it, which takes one
session that has expired, one that has not and a third login: of this the run shows
nothing, and `SessionsWithinLimit` proves it. One request is in flight at a time; it
meets the logins, the purge, the revocation and the quarantine at every point.

`MaxRun` stands for 2147483647, the limit `request_replay` checks; `MaxTime`,
`MaxCalls`, `MaxGeneration` and `Revocable` bound clocks and calls of a run;
fencing tokens and attempt sequences are bounded by attempts and runs. The other
constants are settings that the configuration validates, and the modules assume
of them what it checks. The retry ceiling is computed in the natural numbers: the
configuration caps it at 15 minutes, far from the width of a `time.Duration`.

Deadlock is not checked where the system may stop: a queue whose deliveries are
all decided, a worker that exited, requests that are all answered.
`outbound`, whose worker always has something to do, checks it.

### Properties, by what could go wrong

* `CompletedByHolder`, `SuccessWasAcknowledged`, `FinalizeNeverRaises` - late,
  stale or duplicated finalization.
* `AttemptBudget`, `QueueInv` (`AttemptsDistinct`, `OnlyPurgeLeavesOrphans`),
  `HistoryIsAppendOnly` - the counters and the attempts of a delivery across
  crashes, reclaims, replays and purges.
* `OneRunPerCommand`, `TerminalLeftByReplayOnly` - racing replays.
* `ImplementsContract` - all of it at once, seen from outside.
* `OpenEventuallyDecided` - nothing stays open.
* `EndpointCapacity`, `ClaimsAreAtomic` - concurrent claims, and rows that are
  finalized, replayed or purged between a snapshot and its locks;
  `EndpointsAlternate` - the order of the claims.
* `SlotsAccounted`, `NoOrphanJobs`, `PanicStopsWorker`, `KeepsPolling` - the loop of a worker; `CleanupOrder`, `ExitReported`,
  `ProcessEnds` - the process around it.
* `RequestWithinLease` - the request is over before another worker may send it;
  `ConnectedByPolicy` - names that resolve to several addresses, rebinding, idle
  connections; `ReceiverVerifies`, `StartedIsReady` - signatures during a
  rotation, keyrings replaced during a startup; `ResultAccepted`,
  `DelayMatchesPolicy` - what the database is handed.
* `QuotaExact`, `EdgeLimit` - counters at their limit; `IdempotentPublish` - one
  event per key.
* `OneActiveSecret`, `OneSecretPerCommand`, `OverlapKept` - concurrent, repeated
  and late rotations; `ClosedWorkspace`, `ClosedToRotations`,
  `PurgeLeavesNothing`, `PurgeCompletes` - a workspace purged while in use.
* `CredentialKnown` - the key that is shown once; `SessionLimit`,
  `ServedOnlyWhileOpen`, `LiveSessionServed` - sessions. The limit is what the
  security audit tests with twenty concurrent logins
  (`docs/webhook-delivery-engine-security-audit-console-observability.md:77`).

Every property has a mutant in `PROJECT.json`: a plausible bug in one mapped
definition that makes the run report it.

### Fairness

`DeliveryQueue!FairSpec`: the clock passes every deadline, and a delivery that
can be claimed or recovered for ever is, because workers poll for ever
(`Runner!KeepsPolling`) and the candidates are ordered by claim sequence
(`ClaimRotation!EndpointsAlternate`) and `next_attempt_at`. This assumes that not every
select that could lease the delivery is disturbed by another call or a publication
of its workspace: see section 4. Nothing is assumed of jobs: every claim may be
lost, before or after the request was sent; the attempts are then exhausted and the
recovery decides the delivery. The run has no replays: with them the property fails, for
the reason of the second finding.

`WorkerProcess!ProcessSpec` (with `Runner!LoopFairness`): timers fire, goroutines
are scheduled, and a select branch that is ready time and again is taken, because
Go chooses among the ready branches at random. A cancelled call of the retention
or the metrics loop ends, as `pgx` ends a call whose context is done. Jobs,
claims and connections are not assumed to end: `ProcessEnds` holds with them
hung. `PanicStopsWorker` and `KeepsPolling` assume, in their statement, that no
claim call hangs for ever, which the claim timeout (`delivery.go`,
`context.WithTimeout`) provides.

`ClaimRotation` needs no fairness: that a workspace or an endpoint is overtaken at most
once by each other one is a property of the steps. From it follows that an endpoint
is leased in the end if undisturbed selects that could lease it go on leasing from its
workspace: each of them leases it, or one of its neighbours that has not overtaken it
yet.

`WorkspacePurge!Fairness`: a transaction that inserts ends, if only by its
timeout (weak fairness of `WriteStep`); the ticker starts a pass and the backlog
call ends it (weak); a call of the pass that is made again and again does not
fail for ever (strong). There is one retention runner; several would only take
turns on the locked row of the job.

## 4. Findings

1. `purge_attempts`. `purge_expired_payloads` (`000013:11`) is one statement
   whose five parts share one snapshot. A claim that commits after the snapshot
   and before the statement locks the delivery inserts a started attempt that the
   statement does not close, while it does terminate the delivery and revokes its
   token. The attempt stays `started` for ever. The README (line 234) and the
   data architecture (line 434) say the purge abandons the attempts in progress.
   `OnlyPurgeLeavesOrphans` bounds it: nothing but the purge leaves such an
   attempt behind.
2. `purge_deliveries`. `request_replay` reads the event without locking it
   (`000009:53`). If the purge's snapshot does not contain the reopened delivery,
   both commit, and the delivery stays `pending` for ever: it is not eligible
   without a payload, nor exhausted. ADR-009 (line 21) and the data architecture
   (line 499) say a purge prevents the replay.
3. `secret_signatures`. `claim_deliveries` reads the retiring secret with the
   snapshot of its statement (`000018:36-42`) and the active one in the function it
   calls (line 35). A rotation that commits in between gives the attempt the new
   secret alone, although the old one is in its overlap. The README (line 228)
   says each attempt carries both signatures.
4. `dns_failure`. `Policy.Resolve` returns one error for a forbidden address and
   for a lookup that failed or timed out (`policy.go:35`), and `execute` makes it
   a permanent failure. The security review (line 243) and the architecture (line
   355) call a DNS failure transient.

Observed while modelling, without a run of their own; where a document says
otherwise it is quoted:

* Endpoints take turns only as long as the selects of concurrent calls do not cross.
  A select sorts its snapshot once. If another call commits a lease of the foremost
  endpoint and that lease ends, or has not used up the capacity, before the select
  gets to it, the select leases the same endpoint again; and if it passes over a
  delivery because the other call holds the workspace, and goes on after that call
  has committed, it may take another endpoint of the workspace, whose turn it was
  not. Nothing in the code keeps this from happening every time, so an endpoint may
  starve. The data architecture (line 462) says "A alternância continua entre chamadas
  e workers mesmo com batch unitário", without the condition `EndpointsAlternate` has
  for this (`released` in `Overtakes`); without the condition `claim_rotation` finds
  the property violated in ten steps.
* A creation of the console may leave an active endpoint in a workspace that is being
  deleted (`ClosedWorkspace` says it is the only way, and `PurgeLeavesNothing` that it
  does not stay). The status report (line 108) says "Autenticação e RLS recusam
  workspaces `suspended`/`deleting`", the QA of the first sprint (line 62) "RLS impede
  leitura/escrita" and the architecture (line 471) that endpoints are disabled in the
  transaction; the policies of the console came later and read no status.
* `rate_limit_buckets` has no foreign key (`000007:50`) and `consume_quota` reads no
  status (`000008:82`): a request under way may add a bucket after the purge of its
  workspace has ended. It stays until it expires.
* Any error or time-out of the database in the lookup or the resume of a session is
  `ErrUnauthorized` (`consolesession/session.go:88`, `92`), upon which the console
  clears the cookie and asks for a login (`middleware.go:48`). The session goes on
  and counts toward the limit of five until it expires.
* `Run` looks at its context before it looks at `ErrJobPanic` (`scheduler.go:57`), and
  a drain that reaches its deadline returns nil with results unread (`172`): a panic
  around a stop ends in a clean exit. The architecture (line 370) says "Pânicos de
  claim/job são capturados como erro". `ExitReported` states what is left: without
  a signal no exit is clean.
* `base*2^attempt` in the architecture (line 360) is what `RetryPolicy.Delay` computes
  if attempts are counted from 0; the column counts from 1. `DelayMatchesPolicy` is
  about the code: the first retry waits up to the base.

* The edge limiter reads the clock before its mutex (`edge.go:86`). A request that
  waited across the end of a window resets the counter of the newer window, which
  then admits its limit again. `EdgeLimit` is stated for runs where this does not
  happen.
* When the answer of the commit of a bootstrap is lost, the file is removed
  although the key may be committed (`admin.go:88-94`); no second bootstrap is then
  allowed. `CredentialKnown` says this is the only way to lose a key.
* `create_console_session` reads the generation before it waits for the lock of
  the key (`000021:109`). A quarantine that is entered and reconciled meanwhile
  leaves a session of the old generation, which no request can resume.
* The foreign key of `events` (`000002:133`) locks the row of the workspace FOR KEY
  SHARE until a publication ends, and `FOR UPDATE ... SKIP LOCKED` then passes over
  all deliveries of the workspace (`000003:66`). Publications that overlap without
  a gap keep its deliveries from being claimed.
* The readiness probe of the worker (`cmd/worker/main.go:83`) looks at the context
  of the signal and not at the one of the errgroup: when a service fails, the
  process stays ready while the others are being stopped.

## 5. What is proved

With TLAPS, for any values of the constants that satisfy the assumptions of the
modules (functions have the right domains, limits are positive, settings are in
the relation that validation checks, null values are not members):

| Module | Theorems | The inductive invariant |
|---|---|---|
| `DeliveryQueueProofs` | `QueueInv` and its parts, `SuccessWasAcknowledged`, `FinalizeNeverRaises`, `HistoryIsAppendOnly`, `CompletedByHolder`, `TerminalLeftByReplayOnly`, `AttemptBudget`, `OneRunPerCommand` | `QueueInv`, `NumbersInv`, `CommandsInv` |
| `DeliveryQueueRefinement` | the queue implements `DeliveryContract` | `QueueInv`, step by step |
| `ClaimCapacityProofs` | `EndpointCapacity`, no delivery leased twice (`LeasedOnce`), and `ClaimsAreAtomic`, for candidates tried in any order; claims in rotation are such claims | `CapacityInv`, `AtomicInv` |
| `RunnerProofs` | `SlotsAccounted`, `NoOrphanJobs` and an honest exit of the loop; a worker process implements the loop, with its fairness; `CleanupOrder`, `ExitReported` of the process | `RunnerInv`, `ProcessInv` |
| `OutboundProofs` | `RequestWithinLease`, `ConnectedByPolicy`, `StartedIsReady`, `ReceiverVerifies`, `ResultAccepted`, `DelayMatchesPolicy` | `ClockInv`, `PolicyInv`, `SignedInv`, `ResultInv` |
| `WorkspacePurgeProofs` | `ClosedWorkspace`, `ClosedToRotations`, `PurgeLeavesNothing`, `OneSecretPerCommand`, `OverlapKept`, `OneActiveSecret` | `ClosingInv`, `GoneInv`, `CommandsInv`, `SecretsInv` |
| `ConsoleSessionProofs` | `CredentialKnown`, `SessionLimit`, `ServedOnlyWhileOpen`, `LiveSessionServed`, types | `CredentialInv`, `SessionInv`, `ServeInv` |
| `ApiRequestsProofs` | `IdempotentPublish`, `EdgeLimit`, `QuotaExact`, types | `PublishInv`, `EdgeInv`, `QuotaInv` |

The queue. None of the properties is inductive alone. That a job finds its
attempt (`FinalizeNeverRaises`) needs that a processing delivery has exactly one
started attempt under its token: existence is `LeaseHasAttempt`, uniqueness is
`AttemptsDistinct`, and that in turn needs the counters to bound the attempts
(`AttemptsBelowCounters`) so that a claim inserts fresh numbers. A purge acts on a
snapshot that is old when it commits; `PurgeSnapshot` says what is still true of
it: its events were expired, and the attempts it saw belong to deliveries it saw.
With it, `LeaseHasAttempt` survives the purge (a delivery whose attempt it closes
is terminated too), and `OnlyPurgeLeavesOrphans` holds because what the snapshot
missed belongs to an event that is purged now. The two counting properties do not
follow from the numbers being distinct: `NumbersInv` says that the numbers of each
run are 1 to some n, which is `attempts_in_run` in the current run, and
`CommandsInv` that the accepted commands are in bijection with the runs after the
first; the cardinalities follow from these.

The capacity. A transaction holds the lock of the endpoint of every row it has
leased, and no lock has two holders (`LocksHeld`); so the transaction that takes a
row of an endpoint counts every lease of that endpoint, its own uncommitted ones
included (`CountIsComplete`). Nothing of it depends on the order of the
candidates, and every step of `ClaimRotation` is one of `ClaimCapacity` or leaves
its variables alone (`RotationIsClaim`), so it holds of the run's specification.

The claim as one step (`ClaimIsAtomic`). Until it commits, a call shows the others
nothing but its locks. When it commits, each delivery it leased can still be
claimed, because it was evaluated again under its lock and the lock kept all others
away since (`LocksHeld`); the leases of its endpoints, its own included, are within
the capacity (`EndpointCapacity`), so the committed ones leave room for its own; and
its counters are within its limits, because a candidate was in the snapshot only
while there was room for it and the call adds nothing until that select is over
(`LimitsKept`).

The worker. The services beside the loop touch one variable of it, the cancellation
of its context, so a process is a loop on its own, with the same fairness
(`ProcessRunsTheLoop`), and what holds of the loop holds in it. For the process,
`ProcessInv`: what was joined has ended and its error was kept, the group is
cancelled only by a signal or by such an error, and the pool is closed only when all
were joined. That what has ended keeps its result (`EndsStay`) is what makes the
report at the exit true of the whole life of the process.

The attempt. The limit of a phase is the smaller of its own and what is left to
the deadline, and the deadline is fixed once, when the request is sent: with the
claim's limit it is the longest an attempt may take, which validation keeps below
the lease (`ClockInv`). For the destinations, the whole answer of the resolver was
checked wherever one of its addresses is dialled, and an idle connection was made
by an attempt for which that holds (`PolicyInv`).

The delays. The ceiling of `RetryPolicy.Delay` is a loop that doubles up to the cap
without ever computing a product above it; the policy is the minimum of the cap and
the base doubled once per earlier attempt. Both are recursive functions, `Ceiling`
and `Doubled`, and `CeilingIs` shows that they agree for every attempt, base and cap.
The induction is on sets (`NatSetInduction`, by a least counterexample), and that
the recursions have a solution at all is proved from it too (`Recursion`). With it,
every outcome of an attempt is one the checks of `finalize_delivery` accept
(`ResultInv`). It is assumed that attempt numbers are positive, a CHECK of
`delivery_attempts` (`000002:177`).

The workspace. A rotation that has written its rows holds an endpoint the request
has not locked, so the workspace is still active when it commits (`RotationHolds`);
a creation through the API inserts only while the workspace is active, and one
through the console is the only other; a request commits with all endpoints closed;
and a rotation names an endpoint whose creation was over when it began (`KnownInv`),
so none runs for one that the console adds. From it, `GoneInv`: nothing refers to a
workspace that is gone. For the commands, who holds the advisory lock of a key is alone and the key has no
command yet (`KeyInv`), and an answer agrees with the command of its key, which
outlives it while the workspace is active (`AnswerInv`). For the secrets, a
rotation under the endpoint's lock saw every retiring secret past its time, by a
clock that has only moved on (`RotatingInv`), and the rows it adds are new
(`FreshInv`); the unique indexes are not needed.

The console. A login that counts holds the lock of the key, and what it counted can
only shrink until it inserts (`LoginInv`). A request whose session was over when it
began finds the row still over, because every way to end is for good, and so is
refused (`RequestInv`). For the converse, `ServeInv` keeps of a
request that began with a live session that its UPDATE would serve it if the session
is open still (`WillServe`): a row that is still there accepts the touch, in whatever
order the others write it, and a key that is active was active when the request read
it, because within a generation nothing revives it. Only that UPDATE, when it finds
no such row, refuses it (`WhoRefuses`). A failure of the database is an end of its own
("failed"), which neither theorem speaks of, though the UPDATE that committed before it
counts like any other.

The API. Under an idempotency key one transaction at most is inserting, and only
while the key has no event (`PublishInv`): the unique index with its wait is what
keeps a second event out. The rows of the global bucket count the latest window,
so they bound what was admitted in any earlier one too, as long as no window is
evaluated after a later one (`EdgeInv`). For the quota, the rows that open
transactions have charged or swept are disjoint, each charged row was below its
limit and stays so because nobody else may write it, and each swept row belongs
to a window that has ended by a clock that only moves on; so a commit adds
one to exactly the rows that count it (`QuotaInv`, `OpenTransaction`).

The bootstrap. Between its insert and its commit a command holds the lock and its
file is its own; the file of a committed key is synced, unless its own command
removed it (`CommittedKept`).

Only model-checked: liveness (`OpenEventuallyDecided`, `PanicStopsWorker`,
`KeepsPolling`, `ProcessEnds`, `PurgeCompletes`), which needs fairness and
ENABLED, and `EndpointsAlternate`. Every other property of the passing runs is a
theorem.

## 6. Not modelled

* The restore quarantine (`000013:87`), but for what it does to sessions: it runs
  on a restored database that no worker uses yet.
* In the purge of a workspace: replay commands, API keys with their sessions,
  rate-limit buckets, and workspaces that are suspended. A replay that overtakes the
  request is as harmless as a publish: it refers to a delivery the purge has yet to
  delete.
* The credential on standard output (`cmd/api/credentials.go:106`), which the local
  profile allows on a terminal: there is no file to lose or to remove.
* Metadata retention (`000014`): independent deletions of decided rows past their
  age.
* Insights, keyset lists and queue metrics only read. Logging, telemetry and
  problem documents keep no state another component acts on. Of the configuration,
  keyrings and the durations of the worker are modelled, the parsing of the other
  variables is not.
* Ciphers, digests and certificates are outcomes (opens or not, verifies or not).
* The API and console processes: one server each under the `ServeWithBudget` that
  `WorkerProcess` has.
* `cmd/showcase`, `cmd/docs`, the chaos lab, the examples and the scripts are
  tooling.
* `finalize_delivery` has no time limit of its own in the code; `Outbound` ends
  with the result, and a finalization that comes late is in `DeliveryQueue`.
