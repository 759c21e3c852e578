--------------------------- MODULE WorkerProcess ---------------------------
(***************************************************************************)
(* A worker process from the moment its services run: the scheduler loop   *)
(* of Runner, the operational HTTP server, and the loops of the retention  *)
(* runner and of the queue metrics.  They are goroutines of one errgroup:  *)
(* the first error cancels the context they share, and so does a signal.   *)
(* When all have returned, the deferred calls of run close the pool and    *)
(* flush the telemetry, and the process exits.                             *)
(*                                                                         *)
(* The shutdown budget gives the server and the flush one deadline; the    *)
(* drain of the scheduler keeps one of its own.                            *)
(***************************************************************************)
EXTENDS Runner

VARIABLES
  signalled, \* the context of SignalContext is cancelled
  server,    \* where ServeWithBudget is
  loops,     \* which of the retention runner and the queue metrics have not returned
  joined,    \* the goroutines of the server and the scheduler that have ended
  failure,   \* the first error of the group
  held       \* what run has to give back before it returns

processVars == <<signalled, server, loops, joined, failure, held>>
allVars == <<vars, processVars>>

Loop    == {"retention", "metrics"}
Service == {"server", "scheduler"}

ProcessInit ==
  /\ Init
  /\ signalled = FALSE
  /\ server = "serving"
  /\ loops = Loop
  /\ joined = {} /\ failure = FALSE
  /\ held = {"telemetry", "pool"}

exited == held = {}

-----------------------------------------------------------------------------
\* SIGTERM or SIGINT cancels the context of the process, and of the group.
Signal ==
  /\ ~signalled /\ ~exited
  /\ signalled' = TRUE /\ stopped' = TRUE
  /\ UNCHANGED <<pc, jobs, poll, exit, server, loops, joined, failure, held>>

\* Serve fails: the listener is lost.
ServerFails ==
  /\ server = "serving"
  /\ server' = "failed"
  /\ UNCHANGED <<vars, signalled, loops, joined, failure, held>>

\* The context is done: no more connections, and those there are may end.
ServerShutdown ==
  /\ server = "serving" /\ stopped
  /\ server' = "closing"
  /\ UNCHANGED <<vars, signalled, loops, joined, failure, held>>

\* They have ended, or the deadline of the shutdown budget passes first and cuts
\* them.
ServerCloses ==
  /\ server = "closing"
  /\ server' \in {"returned", "failed"}
  /\ UNCHANGED <<vars, signalled, loops, joined, failure, held>>

\* retention.Runner.Run and runQueueMetrics return when the context is done; the
\* call they may be in ends with it.  They return no error.
LoopEnds(l) ==
  /\ l \in loops /\ stopped
  /\ loops' = loops \ {l}
  /\ UNCHANGED <<vars, signalled, server, joined, failure, held>>

-----------------------------------------------------------------------------
Returned(s) ==
  \/ s = "server" /\ server \in {"returned", "failed"}
  \/ s = "scheduler" /\ pc = "returned"

Erred(s) ==
  \/ s = "server" /\ server = "failed"
  \/ s = "scheduler" /\ result = "error"

\* A goroutine of the group ends; its error cancels the others.
\* Mutants: the error is kept but cancels nothing; it cancels but is lost.
JoinAlone(s) ==
  /\ s \notin joined /\ Returned(s)
  /\ joined' = joined \cup {s}
  /\ failure' = (failure \/ Erred(s))
  /\ UNCHANGED <<vars, signalled, server, loops, held>>
JoinQuietly(s) ==
  /\ s \notin joined /\ Returned(s)
  /\ joined' = joined \cup {s}
  /\ stopped' = (stopped \/ Erred(s))
  /\ UNCHANGED <<pc, jobs, poll, exit, signalled, server, loops, failure, held>>
Join(s) ==
  /\ s \notin joined /\ Returned(s)
  /\ joined' = joined \cup {s}
  /\ failure' = (failure \/ Erred(s))
  /\ stopped' = (stopped \/ Erred(s))
  /\ UNCHANGED <<pc, jobs, poll, exit, signalled, server, loops, held>>

\* group.Wait returns, and the deferred calls run, the last one first.
\* Mutant: the first goroutine to return ends the wait.
WaitedForOne == joined # {}
Waited == joined = Service /\ loops = {}

ClosePool ==
  /\ Waited
  /\ "pool" \in held
  /\ held' = held \ {"pool"}
  /\ UNCHANGED <<vars, signalled, server, loops, joined, failure>>

\* stopTelemetry: a flush that fails is only logged.
FlushTelemetry ==
  /\ held = {"telemetry"}
  /\ held' = {}
  /\ UNCHANGED <<vars, signalled, server, loops, joined, failure>>

-----------------------------------------------------------------------------
ServerStep == ServerShutdown \/ ServerCloses

Process ==
  \/ Signal \/ ServerFails \/ ServerShutdown \/ ServerCloses
  \/ (\E l \in Loop : LoopEnds(l)) \/ (\E s \in Service : Join(s))
  \/ ClosePool \/ FlushTelemetry

ProcessNext ==
  \/ LoopStep /\ UNCHANGED processVars
  \/ Process

\* The goroutines are scheduled and the deadline passes; the database answers a
\* cancelled call.
ProcessSpec ==
  /\ ProcessInit /\ [][ProcessNext]_allVars
  /\ LoopFairness
  /\ WF_allVars(ServerStep)
  /\ \A l \in Loop : WF_allVars(LoopEnds(l))
  /\ \A s \in Service : WF_allVars(Join(s))
  /\ WF_allVars(ClosePool) /\ WF_allVars(FlushTelemetry)

-----------------------------------------------------------------------------
\* Nothing is closed under who uses it: the pool and the telemetry outlive the
\* server, the loops and the jobs of the scheduler (but for jobs that outlived
\* the drain), and the telemetry outlives the pool.
CleanupOrder ==
  /\ held # {"telemetry", "pool"} =>
       /\ \A s \in Service : Returned(s)
       /\ loops = {}
       /\ running = 0 \/ clock = "deadline"
  /\ "telemetry" \notin held => "pool" \notin held

\* The process reports success only when a signal asked it to stop, and the server
\* and the scheduler returned no error: without a signal nothing that ends it, be it
\* a panic of a job or a claim, or a lost listener, is a clean exit.  After a signal
\* the scheduler may return none in spite of a panic: of the claim it was waiting
\* for, or of a job whose result the deadline of the drain leaves unread.
ExitReported == exited /\ ~failure => signalled /\ result = "nil" /\ server # "failed"

\* A signal, or the end of any one service, ends the process, even when jobs,
\* claims and connections hang: no service is left running without the others.
ProcessEnds == (signalled \/ \E s \in Service : Returned(s)) ~> exited

=============================================================================
