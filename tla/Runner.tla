------------------------------- MODULE Runner -------------------------------
(***************************************************************************)
(* The scheduler loop of a worker process, delivery.Runner.Run: it polls   *)
(* for claims with a timer, runs every claim in a goroutine of its own,    *)
(* receives their results over a buffered channel, and drains when it is   *)
(* told to stop or when something panics.                                  *)
(*                                                                         *)
(* One action is one branch a select statement takes, or one event of a    *)
(* goroutine, a timer or a context.  When several branches are ready, Go   *)
(* takes any of them.  Delays are abstracted: the poll timer is armed, and *)
(* then fires; in a drain the force timer fires before the deadline.       *)
(***************************************************************************)
EXTENDS Integers, Sequences

CONSTANTS
  Concurrency,  \* Runner.concurrency
  BatchSize     \* Runner.batchSize

ASSUME RunnerAssumption ==
  /\ Concurrency \in Nat \ {0}
  /\ BatchSize \in Nat \ {0}

VARIABLES
  pc,        \* where the loop is: in its select, in claimResponsive, in drain
  active,    \* the jobs whose result the loop has not received
  running,   \* the job goroutines in processClaim
  done,      \* the buffered channel of results
  poll,      \* the poll timer
  clock,     \* the last timer of the drain that fired, or "grace"
  stopped,   \* ctx is cancelled
  cancelled, \* workCtx is cancelled
  result     \* what Run returns

jobs == <<active, running, done>>
exit == <<clock, cancelled, result>>
vars == <<pc, jobs, poll, exit, stopped>>

\* What processClaim returns: nil, an error, a cancellation, a recovered panic.
JobResult == {"ok", "error", "canceled", "panic"}

TypeOK ==
  /\ pc \in {"select", "claiming", "draining", "returned"}
  /\ active \in Nat
  /\ running \in Nat
  /\ done \in Seq(JobResult)
  /\ poll \in {"off", "armed", "fired"}
  /\ clock \in {"off", "grace", "force", "deadline"}
  /\ stopped \in BOOLEAN
  /\ cancelled \in BOOLEAN
  /\ result \in {"nil", "error"}

Init ==
  /\ pc = "select"
  /\ active = 0 /\ running = 0 /\ done = <<>>
  /\ poll = "armed" /\ clock = "off"
  /\ stopped = FALSE /\ cancelled = FALSE
  /\ result = "nil"

-----------------------------------------------------------------------------
\* The environment of the loop.

\* SIGTERM, or another service of the process failed.
Stop ==
  /\ ~stopped
  /\ stopped' = TRUE
  /\ UNCHANGED <<pc, jobs, poll, exit>>

PollFires ==
  /\ poll = "armed" /\ pc # "returned"
  /\ poll' = "fired"
  /\ UNCHANGED <<pc, jobs, exit, stopped>>

DrainTimerFires ==
  /\ pc = "draining"
  /\ \/ clock = "grace" /\ clock' = "force"
     \/ clock = "force" /\ clock' = "deadline"
  /\ UNCHANGED <<pc, jobs, poll, cancelled, result, stopped>>

\* The goroutine of a job ends and offers its result to the channel; a full
\* channel loses it.
JobEnds ==
  /\ running > 0
  /\ running' = running - 1
  /\ \E res \in JobResult :
       /\ res = "canceled" => cancelled
       /\ done' = IF Len(done) < Concurrency THEN Append(done, res) ELSE done
  /\ UNCHANGED <<pc, active, poll, exit, stopped>>

-----------------------------------------------------------------------------
\* Run returns r, and the deferred cancelWork runs.
Return(r) ==
  /\ pc' = "returned"
  /\ result' = r
  /\ cancelled' = TRUE
  /\ UNCHANGED clock

\* r.drain(done, n, cancelWork, r), after cancelWork if cancel: with no job left
\* it returns at once.
Drain(n, r, cancel) ==
  \/ n = 0 /\ Return(r)
  \/ /\ n > 0
     /\ pc' = "draining"
     /\ clock' = "grace"
     /\ cancelled' = (cancelled \/ cancel)
     /\ result' = r

Receive == done # <<>> /\ active' = active - 1 /\ done' = Tail(done)

-----------------------------------------------------------------------------
\* The select of Run.

SelectStop ==
  /\ pc = "select"
  /\ stopped
  /\ Drain(active, "nil", FALSE)
  /\ UNCHANGED <<jobs, poll, stopped>>

\* A job panicked: the other jobs are cancelled, and the loop drains.
SelectPanic ==
  /\ pc = "select"
  /\ Receive
  /\ Head(done) = "panic"
  /\ Drain(active - 1, "error", TRUE)
  /\ UNCHANGED <<running, poll, stopped>>

\* Mutant: a panic is an error like any other.
SelectAnyDone ==
  /\ pc = "select"
  /\ Receive
  /\ poll' = IF Head(done) = "ok" THEN poll ELSE "armed"
  /\ UNCHANGED <<pc, running, exit, stopped>>

\* A job ended; an error pushes the next poll back.
SelectDone ==
  /\ pc = "select"
  /\ Receive
  /\ Head(done) # "panic"
  /\ poll' = IF Head(done) = "ok" THEN poll ELSE "armed"
  /\ UNCHANGED <<pc, running, exit, stopped>>

\* The timer fires.  With no slot free it is reset, else a claim starts.
\* Mutant: the timer is not reset.
SelectPollOnce ==
  /\ pc = "select"
  /\ poll = "fired"
  /\ poll' = "off"
  /\ pc' = IF active < Concurrency THEN "claiming" ELSE pc
  /\ UNCHANGED <<jobs, exit, stopped>>
SelectPoll ==
  /\ pc = "select"
  /\ poll = "fired"
  /\ \/ active >= Concurrency /\ poll' = "armed" /\ UNCHANGED pc
     \/ active < Concurrency /\ poll' = "off" /\ pc' = "claiming"
  /\ UNCHANGED <<jobs, exit, stopped>>

-----------------------------------------------------------------------------
\* The select of claimResponsive, and what Run makes of it.

\* The claims a call asks for.  Mutant: a full batch, whatever the free slots.
ClaimLimitOfBatch == BatchSize
ClaimLimit == IF Concurrency - active < BatchSize THEN Concurrency - active ELSE BatchSize

\* ClaimBatch answers: a goroutine is started for each claim, the timer is reset.
ClaimAnswered ==
  /\ pc = "claiming"
  /\ \E n \in 0..ClaimLimit : active' = active + n /\ running' = running + n
  /\ pc' = "select"
  /\ poll' = "armed"
  /\ UNCHANGED <<done, exit, stopped>>

\* ClaimBatch fails or times out: the loop backs off.
ClaimFailed ==
  /\ pc = "claiming"
  /\ ~stopped
  /\ pc' = "select"
  /\ poll' = "armed"
  /\ UNCHANGED <<jobs, exit, stopped>>

\* ClaimBatch panics.
ClaimPanicked ==
  /\ pc = "claiming"
  /\ ~stopped
  /\ Drain(active, "error", TRUE)
  /\ UNCHANGED <<jobs, poll, stopped>>

\* ctx is cancelled: the loop leaves the call behind, with whatever it claimed,
\* or reads any error of it as the cancellation.
ClaimEscaped ==
  /\ pc = "claiming"
  /\ stopped
  /\ Drain(active, "nil", FALSE)
  /\ UNCHANGED <<jobs, poll, stopped>>

-----------------------------------------------------------------------------
\* The select of drain.

\* A result is received; the last one ends the drain.
DrainDone ==
  /\ pc = "draining"
  /\ Receive
  /\ LET res == IF Head(done) \in {"error", "panic"} THEN "error" ELSE result IN
     \/ active = 1 /\ Return(res)
     \/ active > 1 /\ result' = res /\ UNCHANGED <<pc, clock, cancelled>>
  /\ UNCHANGED <<running, poll, stopped>>

\* The grace period is over: the jobs are cancelled, and still waited for.
\* Mutant: and no longer waited for.
DrainForceReturns ==
  /\ pc = "draining"
  /\ clock \in {"force", "deadline"} /\ ~cancelled
  /\ Return(result)
  /\ UNCHANGED <<jobs, poll, stopped>>
DrainForce ==
  /\ pc = "draining"
  /\ clock \in {"force", "deadline"} /\ ~cancelled
  /\ cancelled' = TRUE
  /\ UNCHANGED <<pc, jobs, poll, clock, result, stopped>>

\* The deadline: Run returns, whatever still runs.
DrainDeadline ==
  /\ pc = "draining"
  /\ clock = "deadline"
  /\ Return(result)
  /\ UNCHANGED <<jobs, poll, stopped>>

-----------------------------------------------------------------------------
\* What the loop, its jobs and its timers do.
LoopStep ==
  \/ PollFires \/ DrainTimerFires \/ JobEnds
  \/ SelectStop \/ SelectPanic \/ SelectDone \/ SelectPoll
  \/ ClaimAnswered \/ ClaimFailed \/ ClaimPanicked \/ ClaimEscaped
  \/ DrainDone \/ DrainForce \/ DrainDeadline

Next == Stop \/ LoopStep

Spec == Init /\ [][Next]_vars

\* The runtime fires the timers and schedules the loop.  A select takes one of
\* its ready branches at random, so a branch that is ready time and again is
\* taken in the end: strong fairness.  Nothing is assumed of the database or of
\* the jobs: a claim call and any job may hang for ever.
LoopFairness ==
  /\ WF_vars(PollFires) /\ WF_vars(DrainTimerFires)
  /\ SF_vars(SelectStop) /\ SF_vars(SelectPanic \/ SelectDone) /\ SF_vars(SelectPoll)
  /\ SF_vars(ClaimEscaped)
  /\ SF_vars(DrainDone) /\ SF_vars(DrainForce) /\ SF_vars(DrainDeadline)

-----------------------------------------------------------------------------
\* Safety.

\* Every job is either running or has its result in the channel until the loop
\* receives it, and there are never more of them than the channel holds: the
\* worker keeps to its concurrency, startJob never drops a result, and so a
\* drain always learns of its last job.
SlotsAccounted == active = running + Len(done) /\ active <= Concurrency

\* When Run returns, every job has ended, unless the shutdown deadline passed;
\* then the contexts of the jobs left are cancelled.
NoOrphanJobs == pc = "returned" => cancelled /\ (running = 0 \/ clock = "deadline")

\* The worker exits without an error only when it was told to stop: a panic of
\* a claim or of a job is never taken for a clean exit.
CleanExitIsRequested == pc = "returned" /\ result = "nil" => stopped

\* The inductive invariant: also, a loop that is not returning an error drains
\* because it was stopped, and one that waits for jobs has some.
RunnerInv ==
  /\ TypeOK
  /\ SlotsAccounted
  /\ NoOrphanJobs
  /\ pc \in {"draining", "returned"} /\ result = "nil" => stopped
  /\ pc = "draining" => active > 0
  /\ pc = "claiming" => active < Concurrency

-----------------------------------------------------------------------------
\* Liveness.

\* The claim timeout does its work: no claim call hangs for ever.
ClaimCallsEnd == []<>(pc # "claiming")

\* A panic of a job ends the worker, even when the other jobs hang.
PanicStopsWorker ==
  ClaimCallsEnd => ((\E i \in 1..Len(done) : done[i] = "panic") ~> pc = "returned")

\* As long as slots become free, the loop claims again and again: no path
\* through it leaves the poll timer unarmed.
KeepsPolling ==
  ClaimCallsEnd /\ []<>(active < Concurrency) => []<>(pc = "claiming") \/ <>(pc = "returned")

=============================================================================
