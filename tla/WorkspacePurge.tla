-------------------------- MODULE WorkspacePurge --------------------------
(***************************************************************************)
(* A workspace is taken away while it is in use.  The administrator's      *)
(* request closes it in one transaction; passes of the retention runner    *)
(* then delete its rows, one batch of one kind per call, and the row of    *)
(* the workspace last.  Creations of endpoints and publishes that had      *)
(* started before, through the API or the console, may commit in between;  *)
(* rotations and claims are those of EndpointSecrets.                      *)
(*                                                                         *)
(* Kinds of rows the purge treats alike are one here: an event stands for  *)
(* its deliveries and attempts, an endpoint for its subscriptions and its  *)
(* runtime row.  Left out are replay commands, API keys and the rate-limit *)
(* buckets: these have no foreign key, and a request under way may add one *)
(* that the purge does not see.                                            *)
(***************************************************************************)
EXTENDS EndpointSecrets, FiniteSetsExt

CONSTANTS
  Event,      \* publishes, which insert one event each
  Console,    \* the creations and publishes made through the console
  Batch,      \* rows a call of the purge deletes at most
  MaxCalls    \* bound on the rotations, writes and claims of a run

ASSUME PurgeAssumption == Batch \in Nat \ {0} /\ MaxCalls \in Nat /\ Event \cap Secret = {}

VARIABLES
  workspace,  \* wde.workspaces: status, "gone" when there is no row
  request,    \* the transaction of the request: "none", or "locking"
  job,        \* wde.maintenance_jobs: status and checkpoint of the job
  events,     \* wde.events of the workspace
  writers,    \* the transactions that insert endpoints and events
  pass        \* the call the retention runner is at, and whether its round deleted anything

workspaceVars == <<workspace, request, job>>
vars == <<secretVars, workspaceVars, events, writers, pass>>

-----------------------------------------------------------------------------
Writer == (Endpoint \ Initial) \cup Event
Steps  == <<"payloads", "secrets", "sessions", "metadata", "workspace", "backlog">>
Idle   == [at |-> 0, progress |-> FALSE]

Init ==
  /\ SecretInit
  /\ workspace = "active" /\ request = "none" /\ job = [status |-> "none", checkpoint |-> "commands"]
  /\ events = {}
  /\ writers = [w \in Writer |-> "new"]
  /\ pass = Idle

-----------------------------------------------------------------------------
\* Another call begins, within the bound of the run.
MayBegin ==
  Cardinality({r \in Rotation : ~At(r, "new")}) + Cardinality({w \in Writer : writers[w] # "new"})
    + Cardinality({c \in Claim : claims[c].pc # "new"}) < MaxCalls

\* Creation of an endpoint and publish of an event.

Wait(w, from, to) ==
  /\ writers[w] = from
  /\ writers' = [writers EXCEPT ![w] = to]

\* The caller's key is valid: the workspace was active.
BeginWrite(w) ==
  /\ MayBegin
  /\ workspace = "active"
  /\ Wait(w, "new", "begun")
  /\ UNCHANGED <<secretVars, workspaceVars, events, pass>>

\* The policies of wde_api admit rows of a workspace that is active in the snapshot
\* of the statement; those of wde_console do not read its status.
\* Mutant: those of wde_api do not either.
AdmittedAlways(w) == TRUE
Admitted(w) == w \in Console \/ workspace = "active"

CheckPolicy(w) ==
  /\ Admitted(w)
  /\ Wait(w, "begun", "checked")
  /\ UNCHANGED <<secretVars, workspaceVars, events, pass>>

\* The foreign key then locks the row of the workspace, waiting for who has it.
\* Mutant: the tables have no foreign key.
InsertWithoutKey(w) ==
  /\ Wait(w, "checked", "inserted")
  /\ UNCHANGED <<secretVars, workspaceVars, events, pass>>
InsertRow(w) ==
  /\ request = "none"
  /\ workspace # "gone"
  /\ Wait(w, "checked", "inserted")
  /\ UNCHANGED <<secretVars, workspaceVars, events, pass>>

\* A table with one more row.
Insert(table, key, row) ==
  [k \in DOMAIN table \cup {key} |-> IF k = key THEN row ELSE table[k]]

\* The rows of an endpoint that follow pass the policies with later snapshots.
CommitEndpoint(e) ==
  /\ Admitted(e)
  /\ Wait(e, "inserted", "done")
  /\ endpoints' = Insert(endpoints, e, "active")
  /\ secrets' = Insert(secrets, e, Row(e, "active", 0))
  /\ UNCHANGED <<now, commands, calls, closing, results, claimVars, workspaceVars, events, pass>>

\* An event may have no deliveries, and then no row follows its own.
CommitEvent(v) ==
  /\ Wait(v, "inserted", "done")
  /\ events' = events \cup {v}
  /\ UNCHANGED <<secretVars, workspaceVars, pass>>

\* A policy or a key refuses a row, or the transaction fails.
AbortWrite(w) ==
  /\ writers[w] \in {"begun", "checked", "inserted"}
  /\ writers' = [writers EXCEPT ![w] = "done"]
  /\ UNCHANGED <<secretVars, workspaceVars, events, pass>>

Referencing == {w \in Writer : writers[w] = "inserted"}

-----------------------------------------------------------------------------
\* request_workspace_purge

\* The row of the workspace is locked against new references and after those
\* there are.  A workspace that is being deleted, or is gone, needs no request.
BeginRequest ==
  /\ request = "none" /\ workspace = "active" /\ Referencing = {}
  /\ request' = "locking"
  /\ UNCHANGED <<secretVars, workspace, job, events, writers, pass>>

\* The lock of each endpoint, waiting for the rotation that holds it.
\* Mutant: the rotations are not waited for.
CloseEndpointAtOnce(e) ==
  /\ request = "locking"
  /\ e \in DOMAIN endpoints \ closing
  /\ closing' = closing \cup {e}
  /\ UNCHANGED <<now, tables, calls, results, claimVars, workspaceVars, events, writers, pass>>
CloseEndpoint(e) ==
  /\ request = "locking"
  /\ e \in DOMAIN endpoints \ closing
  /\ \A r \in Rotation : ~HoldsEndpoint(r, e)
  /\ closing' = closing \cup {e}
  /\ UNCHANGED <<now, tables, calls, results, claimVars, workspaceVars, events, writers, pass>>

\* The statements after the locks, and the commit.
CommitRequest ==
  /\ request = "locking" /\ closing = DOMAIN endpoints
  /\ workspace' = "deleting" /\ request' = "none"
  /\ endpoints' = [e \in DOMAIN endpoints |-> "disabled"]
  /\ job' = [status |-> "pending", checkpoint |-> "commands"]
  /\ closing' = {}
  /\ UNCHANGED <<now, secrets, commands, calls, results, claimVars, events, writers, pass>>

AbortRequest ==
  /\ request = "locking"
  /\ request' = "none" /\ closing' = {}
  /\ UNCHANGED <<now, tables, calls, results, claimVars, workspace, job, events, writers, pass>>

-----------------------------------------------------------------------------
\* The retention runner.

Calling(step) == pass.at # 0 /\ Steps[pass.at] = step

\* The call is done; the round goes on.
Advance(deleted) == pass' = [at |-> pass.at + 1, progress |-> pass.progress \/ deleted]

\* The fifth call ends the round: another one follows while rows are deleted.
EndRound(deleted) == pass' = [at |-> IF pass.progress \/ deleted THEN 1 ELSE 6, progress |-> FALSE]

StartPass ==
  /\ pass = Idle
  /\ pass' = [Idle EXCEPT !.at = 1]
  /\ UNCHANGED <<secretVars, workspaceVars, events, writers>>

\* A call fails or the pass runs out of time; nothing it began remains, and the
\* calls after it are not made.
FailPass ==
  /\ pass # Idle
  /\ pass' = Idle
  /\ UNCHANGED <<secretVars, workspaceVars, events, writers>>

\* The calls that purge what is not of this module.
Others == {"payloads", "sessions", "metadata"}
PurgeOthers(step) ==
  /\ Calling(step)
  /\ \E deleted \in BOOLEAN : Advance(deleted)
  /\ UNCHANGED <<secretVars, workspaceVars, events, writers>>

PurgeSecrets ==
  /\ Calling("secrets")
  /\ LET candidates == Expired(now) \ LockedRows IN
       \E S \in kSubset(Min({Batch, Cardinality(candidates)}), candidates) :
         PurgeRetired(S) /\ Advance(S # {})
  /\ UNCHANGED <<workspaceVars, events, writers>>

\* purge_workspace: the earliest kind of row there is.
\* Mutant: the kind the last call left in the job.
StoredStage == job.checkpoint
Stage ==
  CASE commands # {} -> "commands"
    [] events # {} -> "events"
    [] DOMAIN secrets # {} -> "secrets"
    [] DOMAIN endpoints # {} -> "endpoints"
    [] OTHER -> "workspace"
StageAfter == [commands |-> "events", events |-> "secrets", secrets |-> "endpoints", endpoints |-> "workspace"]

\* A batch of the rows S of one kind; "left" is what the statement leaves.
Leaves(S, left) == \E T \in kSubset(Min({Batch, Cardinality(S)}), S) : left = S \ T
Keep(f, S) == [x \in S |-> f[x]]

DeleteBatch(stage) ==
  \/ /\ stage = "commands"
     /\ \E left \in SUBSET commands : Leaves(commands, left) /\ commands' = left
     /\ UNCHANGED <<events, secrets, endpoints>>
  \/ /\ stage = "events"
     /\ \E left \in SUBSET events : Leaves(events, left) /\ events' = left
     /\ UNCHANGED <<commands, secrets, endpoints>>
  \/ /\ stage = "secrets"
     /\ \A c \in commands : c.secret \notin DOMAIN secrets
     /\ \E left \in SUBSET DOMAIN secrets : Leaves(DOMAIN secrets, left) /\ secrets' = Keep(secrets, left)
     /\ UNCHANGED <<commands, events, endpoints>>
  \/ /\ stage = "endpoints" /\ secrets = <<>>
     /\ \E left \in SUBSET DOMAIN endpoints :
          Leaves(DOMAIN endpoints, left) /\ endpoints' = Keep(endpoints, left)
     /\ UNCHANGED <<commands, events, secrets>>

More(stage) ==
  CASE stage = "commands" -> commands' # {}
    [] stage = "events" -> events' # {}
    [] stage = "secrets" -> DOMAIN secrets' # {}
    [] stage = "endpoints" -> DOMAIN endpoints' # {}

PurgeRows ==
  /\ Calling("workspace") /\ job.status = "pending"
  /\ Stage # "workspace"
  /\ DeleteBatch(Stage)
  /\ job' = [job EXCEPT !.checkpoint = IF More(Stage) THEN Stage ELSE StageAfter[Stage]]
  /\ EndRound(TRUE)
  /\ UNCHANGED <<now, calls, closing, results, claimVars, workspace, request, writers>>

\* The row of the workspace, when nothing refers to it.
DeleteWorkspace ==
  /\ Calling("workspace") /\ job.status = "pending"
  /\ Stage = "workspace"
  /\ Referencing = {} /\ events = {} /\ endpoints = <<>>
  /\ workspace' = "gone"
  /\ job' = [status |-> "completed", checkpoint |-> "complete"]
  /\ EndRound(TRUE)
  /\ UNCHANGED <<secretVars, request, events, writers>>

NoJob ==
  /\ Calling("workspace") /\ job.status # "pending"
  /\ EndRound(FALSE)
  /\ UNCHANGED <<secretVars, workspaceVars, events, writers>>

\* Backlog, after a round that found nothing to delete, and the end of the pass.
Backlog ==
  /\ Calling("backlog")
  /\ pass' = Idle
  /\ UNCHANGED <<secretVars, workspaceVars, events, writers>>

-----------------------------------------------------------------------------
RotationBegins ==
  /\ MayBegin
  /\ workspace = "active"
  /\ \E r \in Rotation, e \in DOMAIN endpoints, k \in Key, o \in Overlap : BeginRotation(r, e, k, o)

\* A claim takes the row of an active workspace nobody has locked.
ClaimStep ==
  \E c \in Claim :
    \/ MayBegin /\ \E e \in DOMAIN endpoints : StartClaim(c, e)
    \/ workspace = "active" /\ request = "none" /\ FinishClaim(c)
    \/ GiveUpClaim(c)

WriteStep(w) ==
  \/ InsertRow(w) \/ AbortWrite(w)
  \/ w \in Endpoint /\ CommitEndpoint(w)
  \/ w \in Event /\ CommitEvent(w)

RequestStep == BeginRequest \/ (\E e \in Endpoint : CloseEndpoint(e)) \/ CommitRequest \/ AbortRequest
WorkspaceStep == PurgeRows \/ DeleteWorkspace \/ NoJob
PassStep == StartPass \/ (\E step \in Others : PurgeOthers(step)) \/ PurgeSecrets \/ WorkspaceStep \/ Backlog

SecretStep == Tick \/ RotationBegins \/ RotationStep \/ ClaimStep

Next ==
  \/ SecretStep /\ UNCHANGED <<workspaceVars, events, writers, pass>>
  \/ \E w \in Writer : BeginWrite(w) \/ CheckPolicy(w) \/ WriteStep(w)
  \/ RequestStep
  \/ PassStep
  \/ FailPass

\* A transaction ends, if only by its timeout; the runner's ticker starts passes,
\* and a call that is made again and again does not fail for ever.
Fairness ==
  /\ \A w \in Writer : WF_vars(WriteStep(w))
  /\ \A step \in Others : SF_vars(PurgeOthers(step))
  /\ WF_vars(StartPass) /\ WF_vars(Backlog)
  /\ SF_vars(PurgeSecrets) /\ SF_vars(WorkspaceStep)

Spec == Init /\ [][Next]_vars /\ Fairness

-----------------------------------------------------------------------------
\* While a workspace is active each of its active endpoints has one active secret, and
\* no endpoint ever has two that are active or two that retire, although rotations
\* compare with the time they began at, and creations and the purge go on beside them.
OneActiveSecret ==
  \A e \in DOMAIN endpoints :
    /\ workspace = "active" /\ endpoints[e] = "active" => SecretsOf(e, "active") # {}
    /\ Cardinality(SecretsOf(e, "active")) <= 1
    /\ Cardinality(SecretsOf(e, "retiring")) <= 1

\* Once a workspace is closed, what was there or comes through the API is disabled:
\* a creation that overtakes the request, or is overtaken by it, leaves nothing active.
\* A creation of the console may, but then no rotation is under way for it.
ClosedWorkspace ==
  workspace # "active" =>
    \A e \in DOMAIN endpoints : endpoints[e] = "active" =>
      /\ e \in Console
      /\ \A r \in Rotation : Running(r) => calls[r].endpoint # e

\* 000016, line 21: a rotation that owns a lock commits before the request; a
\* later one fails closed.  A closed workspace gets no command, and no secret but
\* the first of an endpoint that the console creates.
ClosedToRotations ==
  [][workspace # "active" =>
       /\ commands' \subseteq commands
       /\ DOMAIN secrets' \subseteq DOMAIN secrets \cup (Console \cap Endpoint)]_vars

\* A completed purge leaves no row, and none appears afterwards: a creation or a
\* publish that is still under way fails at its foreign key.
PurgeLeavesNothing ==
  workspace = "gone" =>
    /\ job.status = "completed"
    /\ commands = {} /\ events = {} /\ DOMAIN secrets = {} /\ DOMAIN endpoints = {}

\* 000017, line 27: the purge ends, although older transactions may make rows
\* visible after their kind was found empty, and its calls may fail.
PurgeCompletes == workspace = "deleting" ~> workspace = "gone"

=============================================================================
