---------------------------- MODULE RunnerProofs ----------------------------
(***************************************************************************)
(* The scheduler loop keeps account of its jobs, for every concurrency and *)
(* batch size: the channel of results never overflows, and Run leaves no   *)
(* job behind except at the shutdown deadline.  The worker process runs    *)
(* this loop unchanged, closes nothing under a service that uses it, and   *)
(* takes no failure for a clean exit.                                      *)
(***************************************************************************)
EXTENDS WorkerProcess, TLAPS

USE RunnerAssumption

\* What receiving a result does to the channel.
LEMMA ReceiveFacts ==
  ASSUME RunnerInv, Receive
  PROVE  /\ done' \in Seq(JobResult)
         /\ Len(done') = Len(done) - 1
         /\ active' = active - 1
         /\ active > 0
         /\ active' \in Nat
BY DEF RunnerInv, TypeOK, SlotsAccounted, Receive

\* Draining or returning, with the account of the jobs it is given, keeps the
\* invariant: the loop stops with an error or because it was told to.
LEMMA DrainFacts ==
  ASSUME RunnerInv, NEW r \in {"nil", "error"}, NEW cancel \in BOOLEAN,
         Drain(active', r, cancel), pc \in {"select", "claiming"}, active' \in Nat,
         done' \in Seq(JobResult), active' = running' + Len(done'), active' <= Concurrency,
         running' = running, poll' = poll, stopped' = stopped,
         r = "nil" => stopped
  PROVE  RunnerInv'
<1> USE DEF RunnerInv, TypeOK
<1>1. running' = 0 \/ active' > 0
  OBVIOUS
<1>2. CASE active' = 0 /\ Return(r)
  BY <1>1, <1>2 DEF Return, SlotsAccounted, NoOrphanJobs
<1>3. CASE active' > 0
  BY <1>3 DEF Drain, SlotsAccounted, NoOrphanJobs
<1> QED
  BY <1>2, <1>3 DEF Drain

LEMMA RunnerInit == Init => RunnerInv
<1> SUFFICES ASSUME Init PROVE RunnerInv
  OBVIOUS
<1>1. done \in Seq(JobResult) /\ Len(done) = 0
  BY DEF Init
<1>2. TypeOK
  BY <1>1 DEF Init, TypeOK
<1>3. SlotsAccounted
  BY <1>1 DEF Init, SlotsAccounted
<1> QED
  BY <1>2, <1>3 DEF Init, RunnerInv, NoOrphanJobs

LEMMA RunnerNext == RunnerInv /\ [Next]_vars => RunnerInv'
<1> SUFFICES ASSUME RunnerInv, [Next]_vars PROVE RunnerInv'
  OBVIOUS
<1>1. CASE Stop
  BY <1>1 DEF Stop, jobs, exit, RunnerInv, TypeOK, SlotsAccounted, NoOrphanJobs
<1>2. CASE PollFires
  BY <1>2 DEF PollFires, jobs, exit, RunnerInv, TypeOK, SlotsAccounted, NoOrphanJobs
<1>3. CASE DrainTimerFires
  BY <1>3 DEF DrainTimerFires, jobs, RunnerInv, TypeOK, SlotsAccounted, NoOrphanJobs
<1>4. CASE JobEnds
  <2>1. PICK res \in JobResult : done' = IF Len(done) < Concurrency THEN Append(done, res) ELSE done
    BY <1>4 DEF JobEnds
  <2>2. Len(done) < Concurrency
    BY <1>4 DEF JobEnds, RunnerInv, TypeOK, SlotsAccounted
  <2>3. done' \in Seq(JobResult) /\ Len(done') = Len(done) + 1
    BY <2>1, <2>2 DEF RunnerInv, TypeOK
  <2> QED
    BY <1>4, <2>3 DEF JobEnds, exit, RunnerInv, TypeOK, SlotsAccounted, NoOrphanJobs
<1>5. CASE SelectStop
  BY <1>5, DrainFacts DEF SelectStop, jobs, RunnerInv, TypeOK, SlotsAccounted
<1>6. CASE SelectPanic
  <2>1. Drain(active', "error", TRUE)
    BY <1>6 DEF SelectPanic, Receive
  <2>2. Receive /\ pc = "select" /\ UNCHANGED <<running, poll, stopped>>
    BY <1>6 DEF SelectPanic
  <2>3. /\ done' \in Seq(JobResult) /\ active' \in Nat
        /\ active' = running' + Len(done') /\ active' <= Concurrency
    BY <2>2, ReceiveFacts DEF RunnerInv, TypeOK, SlotsAccounted
  <2> QED
    BY <2>1, <2>2, <2>3, DrainFacts
<1>7. CASE SelectDone
  <2>1. pc = "select" /\ UNCHANGED <<pc, running, exit, stopped>> /\ poll' \in {poll, "armed"}
    BY <1>7 DEF SelectDone
  <2>2. Receive
    BY <1>7 DEF SelectDone
  <2> QED
    BY <2>1, <2>2, ReceiveFacts DEF exit, RunnerInv, TypeOK, SlotsAccounted, NoOrphanJobs
<1>8. CASE SelectPoll
  BY <1>8 DEF SelectPoll, jobs, exit, RunnerInv, TypeOK, SlotsAccounted, NoOrphanJobs
<1>9. CASE ClaimAnswered
  BY <1>9 DEF ClaimAnswered, ClaimLimit, exit, RunnerInv, TypeOK, SlotsAccounted, NoOrphanJobs
<1>10. CASE ClaimFailed
  BY <1>10 DEF ClaimFailed, jobs, exit, RunnerInv, TypeOK, SlotsAccounted, NoOrphanJobs
<1>11. CASE ClaimPanicked
  BY <1>11, DrainFacts DEF ClaimPanicked, jobs, RunnerInv, TypeOK, SlotsAccounted
<1>12. CASE ClaimEscaped
  BY <1>12, DrainFacts DEF ClaimEscaped, jobs, RunnerInv, TypeOK, SlotsAccounted
<1>13. CASE DrainDone
  <2> DEFINE res == IF Head(done) \in {"error", "panic"} THEN "error" ELSE result
  <2>1. /\ pc = "draining" /\ UNCHANGED <<running, poll, stopped>>
        /\ res \in {"nil", "error"} /\ (res = "nil" => stopped)
        /\ \/ active = 1 /\ Return(res)
           \/ active > 1 /\ result' = res /\ UNCHANGED <<pc, clock, cancelled>>
    BY <1>13 DEF DrainDone, RunnerInv, TypeOK
  <2>2. Receive
    BY <1>13 DEF DrainDone
  <2> HIDE DEF res
  <2>3. CASE active = 1 /\ Return(res)
    BY <2>1, <2>2, <2>3, ReceiveFacts DEF Return, RunnerInv, TypeOK, SlotsAccounted, NoOrphanJobs
  <2>4. CASE active > 1 /\ result' = res /\ UNCHANGED <<pc, clock, cancelled>>
    BY <2>1, <2>2, <2>4, ReceiveFacts DEF RunnerInv, TypeOK, SlotsAccounted, NoOrphanJobs
  <2> QED
    BY <2>1, <2>3, <2>4
<1>14. CASE DrainForce
  BY <1>14 DEF DrainForce, jobs, RunnerInv, TypeOK, SlotsAccounted, NoOrphanJobs
<1>15. CASE DrainDeadline
  BY <1>15 DEF DrainDeadline, Return, jobs, RunnerInv, TypeOK, SlotsAccounted, NoOrphanJobs
<1>16. CASE UNCHANGED vars
  BY <1>16 DEF vars, jobs, exit, RunnerInv, TypeOK, SlotsAccounted, NoOrphanJobs
<1> QED
  BY <1>1, <1>2, <1>3, <1>4, <1>5, <1>6, <1>7, <1>8, <1>9, <1>10, <1>11, <1>12, <1>13, <1>14,
     <1>15, <1>16 DEF Next, LoopStep

-----------------------------------------------------------------------------
\* The inductive invariant of the scheduler loop.
THEOREM RunnerInvariant == Spec => []RunnerInv
<1>1. Init => RunnerInv
  BY RunnerInit
<1>2. RunnerInv /\ [Next]_vars => RunnerInv'
  BY RunnerNext
<1> QED
  BY <1>1, <1>2, PTL DEF Spec

\* The default branch of startJob (scheduler.go:141) is never taken, and the
\* worker never exceeds its concurrency.
THEOREM SlotsAlwaysAccounted == Spec => []SlotsAccounted
<1>1. RunnerInv => SlotsAccounted
  BY DEF RunnerInv
<1> QED
  BY <1>1, RunnerInvariant, PTL

\* Run leaves a job behind only at the shutdown deadline, with its context
\* cancelled.
THEOREM NoJobLeftBehind == Spec => []NoOrphanJobs
<1>1. RunnerInv => NoOrphanJobs
  BY DEF RunnerInv
<1> QED
  BY <1>1, RunnerInvariant, PTL

\* A panic is never taken for a clean exit.
THEOREM CleanExit == Spec => []CleanExitIsRequested
<1>1. RunnerInv => CleanExitIsRequested
  BY DEF RunnerInv, CleanExitIsRequested
<1> QED
  BY <1>1, RunnerInvariant, PTL

-----------------------------------------------------------------------------
(* The process. *)

\* The loop and its jobs never leave the end of Run.
LEMMA ReturnedStays ==
  ASSUME pc = "returned", LoopStep
  PROVE  pc' = pc /\ result' = result /\ stopped' = stopped
BY DEF LoopStep, PollFires, DrainTimerFires, JobEnds, SelectStop, SelectPanic, SelectDone,
       SelectPoll, ClaimAnswered, ClaimFailed, ClaimPanicked, ClaimEscaped, DrainDone,
       DrainForce, DrainDeadline, jobs, exit

\* To the loop, a step of the rest of the process is the cancellation of its
\* context, or nothing.
LEMMA ProcessIsStop == stopped \in BOOLEAN /\ Process => Stop \/ UNCHANGED vars
<1> SUFFICES ASSUME stopped \in BOOLEAN, Process PROVE Stop \/ UNCHANGED vars
  OBVIOUS
<1> USE DEF Stop, vars, jobs, exit
<1>1. CASE Signal
  BY <1>1 DEF Signal
<1>2. CASE ServerFails \/ ServerShutdown \/ ServerCloses
  BY <1>2 DEF ServerFails, ServerShutdown, ServerCloses
<1>3. ASSUME NEW l \in Loop, LoopEnds(l) PROVE UNCHANGED vars
  BY <1>3 DEF LoopEnds
<1>4. ASSUME NEW s \in Service, Join(s) PROVE Stop \/ UNCHANGED vars
  <2>1. UNCHANGED <<pc, active, running, done, poll, clock, cancelled, result>>
    BY <1>4 DEF Join
  <2>2. stopped' = (stopped \/ Erred(s))
    BY <1>4 DEF Join
  <2>3. stopped' = stopped \/ (~stopped /\ stopped' = TRUE)
    BY <2>2 DEF Erred
  <2> QED
    BY <2>1, <2>3
<1>5. CASE ClosePool \/ FlushTelemetry
  BY <1>5 DEF ClosePool, FlushTelemetry
<1> QED
  BY <1>1, <1>2, <1>3, <1>4, <1>5 DEF Process

\* Every step of the process is a step of the loop, or none.
LEMMA ProcessStep == RunnerInv /\ [ProcessNext]_allVars => [Next]_vars
<1> SUFFICES ASSUME RunnerInv, [ProcessNext]_allVars PROVE [Next]_vars
  OBVIOUS
<1>1. CASE LoopStep
  BY <1>1 DEF Next
<1>2. CASE Process
  BY <1>2, ProcessIsStop DEF Next, RunnerInv, TypeOK
<1>3. CASE UNCHANGED allVars
  BY <1>3 DEF allVars
<1> QED
  BY <1>1, <1>2, <1>3 DEF ProcessNext

\* A worker process runs the scheduler loop as it is on its own, with the
\* scheduling the loop asks for: the services beside it only cancel its context.
THEOREM ProcessRunsTheLoop == ProcessSpec => Spec /\ LoopFairness
<1>1. ProcessInit => Init /\ RunnerInv
  BY RunnerInit DEF ProcessInit
<1>2. RunnerInv /\ [ProcessNext]_allVars => [Next]_vars /\ RunnerInv'
  BY ProcessStep, RunnerNext
<1> QED
  BY <1>1, <1>2, PTL DEF ProcessSpec, Spec

\* So a worker process never exceeds its concurrency, never loses a result, and
\* leaves a job behind only at the shutdown deadline.
THEOREM WorkerKeepsAccount == ProcessSpec => [](SlotsAccounted /\ NoOrphanJobs)
<1>1. RunnerInv => SlotsAccounted /\ NoOrphanJobs
  BY DEF RunnerInv
<1> QED
  BY <1>1, ProcessRunsTheLoop, RunnerInvariant, PTL

-----------------------------------------------------------------------------
(* The end of the process. *)

ProcessTypes ==
  /\ signalled \in BOOLEAN
  /\ server \in {"serving", "closing", "returned", "failed"}
  /\ loops \subseteq Loop
  /\ joined \subseteq Service
  /\ failure \in BOOLEAN
  /\ held \in {{"telemetry", "pool"}, {"telemetry"}, {}}

\* A goroutine that was joined has ended, its error is kept, and the context of
\* the group is cancelled only by a signal or by such an error.
ProcessInv ==
  /\ RunnerInv
  /\ ProcessTypes
  /\ \A s \in joined : Returned(s) /\ (Erred(s) => failure)
  /\ stopped => signalled \/ failure
  /\ "pool" \notin held => Waited

\* What ended stays ended, with the result it had.
EndsKept(s) == (Returned(s) => Returned(s)') /\ (Returned(s) /\ Erred(s)' => Erred(s))

LEMMA EndsStay ==
  ASSUME ProcessInv, ProcessNext
  PROVE  \A s \in Service : EndsKept(s)
<1> USE DEF EndsKept, Returned, Erred, Service
<1>1. CASE LoopStep /\ UNCHANGED processVars
  BY <1>1, ReturnedStays DEF processVars
<1>2. CASE Process
  <2>1. pc' = pc /\ result' = result
    BY <1>2, ProcessIsStop DEF Stop, vars, exit, ProcessInv, RunnerInv, TypeOK
  <2>2. server' = server \/ server \in {"serving", "closing"}
    BY <1>2 DEF Process, Signal, ServerFails, ServerShutdown, ServerCloses, LoopEnds, Join,
                ClosePool, FlushTelemetry
  <2> QED
    BY <2>1, <2>2
<1> QED
  BY <1>1, <1>2 DEF ProcessNext

\* The part of the invariant about the goroutines of the group.
JoinInv(s) == Returned(s) /\ (Erred(s) => failure)

LEMMA JoinedStay ==
  ASSUME ProcessInv, ProcessNext, failure => failure', NEW s \in joined
  PROVE  JoinInv(s)'
<1>1. s \in Service /\ Returned(s) /\ (Erred(s) => failure)
  BY DEF ProcessInv, ProcessTypes
<1>2. EndsKept(s)
  BY <1>1, EndsStay
<1> QED
  BY <1>1, <1>2 DEF EndsKept, JoinInv

LEMMA ProcessInvInit == ProcessInit => ProcessInv
BY RunnerInit DEF ProcessInit, Init, ProcessInv, ProcessTypes

LEMMA ProcessInvNext == ProcessInv /\ [ProcessNext]_allVars => ProcessInv'
<1>0. ProcessInv /\ UNCHANGED allVars => ProcessInv'
  <2>1. ProcessInv /\ UNCHANGED allVars => RunnerInv'
    BY RunnerNext DEF allVars, ProcessInv
  <2> QED
    BY <2>1 DEF allVars, processVars, vars, exit, ProcessInv, ProcessTypes, Returned, Erred, Waited
<1>1. SUFFICES ASSUME ProcessInv, ProcessNext PROVE ProcessInv'
  BY <1>0
<1>2. RunnerInv'
  BY <1>1, ProcessStep, RunnerNext DEF ProcessInv
<1>3. (failure => failure') => \A s \in joined : JoinInv(s)'
  BY <1>1, JoinedStay
<1>4. stopped \in BOOLEAN /\ ProcessTypes /\ (stopped => signalled \/ failure)
      /\ ("pool" \notin held => Waited)
  BY <1>1 DEF ProcessInv, RunnerInv, TypeOK
<1> USE DEF ProcessTypes, Waited
<1>5. ASSUME UNCHANGED <<signalled, joined, failure>>, stopped' => stopped
      PROVE  /\ \A s \in joined' : Returned(s)' /\ (Erred(s)' => failure')
             /\ stopped' => signalled' \/ failure'
  BY <1>3, <1>4, <1>5 DEF JoinInv
<1>6. CASE LoopStep /\ UNCHANGED processVars
  <2>1. stopped' = stopped
    BY <1>6 DEF LoopStep, PollFires, DrainTimerFires, JobEnds, SelectStop, SelectPanic, SelectDone,
       SelectPoll, ClaimAnswered, ClaimFailed, ClaimPanicked, ClaimEscaped, DrainDone,
       DrainForce, DrainDeadline
  <2> QED
    BY <1>2, <1>4, <1>5, <1>6, <2>1 DEF processVars, ProcessInv
<1>7. CASE Signal
  BY <1>2, <1>3, <1>4, <1>7 DEF Signal, JoinInv, ProcessInv
<1>8. CASE ServerFails \/ ServerShutdown \/ ServerCloses
  BY <1>2, <1>4, <1>5, <1>8 DEF ServerFails, ServerShutdown, ServerCloses, vars, ProcessInv
<1>9. ASSUME NEW l \in Loop, LoopEnds(l) PROVE ProcessInv'
  BY <1>2, <1>4, <1>5, <1>9 DEF LoopEnds, vars, ProcessInv
<1>10. ASSUME NEW s \in Service, Join(s) PROVE ProcessInv'
  <2>1. JoinInv(s)' /\ (stopped' => stopped \/ failure') /\ (failure => failure') /\ failure' \in BOOLEAN
    BY <1>4, <1>10 DEF Join, JoinInv, Returned, Erred, exit
  <2>2. joined' = joined \cup {s} /\ s \notin joined
    BY <1>10 DEF Join
  <2>3. \A t \in joined' : Returned(t)' /\ (Erred(t)' => failure')
    BY <1>3, <2>1, <2>2 DEF JoinInv
  <2>4. "pool" \in held
    BY <1>4, <1>10 DEF Join
  <2> QED
    BY <1>2, <1>4, <1>10, <2>1, <2>2, <2>3, <2>4 DEF Join, ProcessInv
<1>11. CASE ClosePool
  BY <1>2, <1>4, <1>5, <1>11 DEF ClosePool, vars, ProcessInv
<1>12. CASE FlushTelemetry
  BY <1>2, <1>4, <1>5, <1>12 DEF FlushTelemetry, vars, ProcessInv
<1> QED
  BY <1>1, <1>6, <1>7, <1>8, <1>9, <1>10, <1>11, <1>12 DEF ProcessNext, Process

THEOREM ProcessInvariant == ProcessSpec => []ProcessInv
BY ProcessInvInit, ProcessInvNext, PTL DEF ProcessSpec

\* The pool is closed when the server, the loops and, but for the shutdown
\* deadline, the jobs have ended, and the telemetry is flushed after that, for any
\* number of jobs.
THEOREM CleanupInOrder == ProcessSpec => []CleanupOrder
<1>1. ProcessInv => CleanupOrder
  <2> SUFFICES ASSUME ProcessInv PROVE CleanupOrder
    OBVIOUS
  <2>1. "telemetry" \notin held => "pool" \notin held
    BY DEF ProcessInv, ProcessTypes
  <2>2. held # {"telemetry", "pool"} => "pool" \notin held
    BY DEF ProcessInv, ProcessTypes
  <2> QED
    BY <2>1, <2>2 DEF ProcessInv, ProcessTypes, Waited, CleanupOrder, RunnerInv, NoOrphanJobs,
                      Returned, Service
<1> QED
  BY <1>1, ProcessInvariant, PTL

\* A process that exits with success was asked to stop by a signal, and its server
\* and its scheduler returned no error.
THEOREM ExitIsHonest == ProcessSpec => []ExitReported
<1>1. ProcessInv => ExitReported
  BY DEF ProcessInv, ProcessTypes, Waited, ExitReported, exited, RunnerInv, TypeOK, Returned,
         Erred, Service
<1> QED
  BY <1>1, ProcessInvariant, PTL

=============================================================================
