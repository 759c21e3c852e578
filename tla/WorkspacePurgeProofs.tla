------------------------ MODULE WorkspacePurgeProofs ------------------------
(***************************************************************************)
(* A workspace that is closed stays closed to rotations, and to creations  *)
(* and publishes of the API; a purge that completed left no row; a         *)
(* rotation command is carried out once; an active endpoint of an active   *)
(* workspace keeps one active secret, and one that was replaced is kept    *)
(* for its overlap.  All for any numbers of endpoints, rotations, keys,    *)
(* claims and events, and any batch of the purge.                          *)
(***************************************************************************)
EXTENDS WorkspacePurge, FiniteSetTheorems, TLAPS

CallRecords ==
  [pc : {"new", "begun", "keyed", "rotated", "done"},
   endpoint : Endpoint \cup {IdleCall("new").endpoint},
   key : Key \cup {IdleCall("new").key},
   overlap : Overlap \cup {IdleCall("new").overlap},
   time : Int]

PurgeTypeOK ==
  /\ now \in Int
  /\ calls \in [Rotation -> CallRecords]
  /\ DOMAIN endpoints \subseteq Endpoint
  /\ workspace \in {"active", "deleting", "gone"}
  /\ request \in {"none", "locking"}
  /\ job.status \in {"none", "pending", "completed"}
  /\ job = [status |-> job.status, checkpoint |-> job.checkpoint]

\* A rotation that has written its rows holds an endpoint that the request of the
\* purge has not locked, and so the workspace is still active.
RotationHolds(r) ==
  At(r, "rotated") =>
    /\ workspace = "active"
    /\ EndpointActive(calls[r].endpoint)
    /\ calls[r].endpoint \notin closing

\* Who names an endpoint has seen it: its creation is over.  So no rotation can be
\* under way for an endpoint whose creation is about to commit.
Known == Initial \cup {w \in Writer : writers[w] = "done"}
KnownInv ==
  /\ writers \in [Writer -> {"new", "begun", "checked", "inserted", "done"}]
  /\ DOMAIN endpoints \subseteq Known
  /\ \A r \in Rotation : Running(r) => calls[r].endpoint \in Known

ClosingInv ==
  /\ PurgeTypeOK
  /\ KnownInv
  /\ request = "locking" => workspace = "active"
  /\ job.status = "pending" => workspace # "active"
  /\ ClosedWorkspace
  /\ \A r \in Rotation : RotationHolds(r)

-----------------------------------------------------------------------------
(* What the steps have in common. *)

\* Steps that leave the rotations alone, and of the rest what the request and the
\* purge change in an allowed order.
LEMMA CallsKept ==
  ASSUME ClosingInv, UNCHANGED calls, PurgeTypeOK', KnownInv',
         request' = "locking" => workspace' = "active",
         job'.status = "pending" => workspace' # "active",
         ClosedWorkspace',
         \A r \in Rotation : At(r, "rotated") =>
           /\ workspace' = "active"
           /\ calls[r].endpoint \in DOMAIN endpoints'
           /\ endpoints'[calls[r].endpoint] = endpoints[calls[r].endpoint]
           /\ calls[r].endpoint \notin closing'
  PROVE  ClosingInv'
<1>1. ASSUME NEW r \in Rotation PROVE RotationHolds(r)'
  BY DEF ClosingInv, RotationHolds, At, EndpointActive
<1> QED BY <1>1 DEF ClosingInv

\* A rotation moves and nothing else of this invariant does.
LEMMA CallMoves ==
  ASSUME ClosingInv, NEW r \in Rotation, NEW call \in CallRecords,
         calls' = [calls EXCEPT ![r] = call],
         UNCHANGED <<now, endpoints, closing, workspace, request, job, writers>>,
         call.pc \in {"begun", "keyed", "rotated"} =>
           /\ call.endpoint \in Known
           /\ workspace = "active" \/ (Running(r) /\ call.endpoint = calls[r].endpoint),
         call.pc = "rotated" =>
           /\ workspace = "active" /\ EndpointActive(call.endpoint)
           /\ call.endpoint \notin closing
  PROVE  ClosingInv'
<1>1. calls' \in [Rotation -> CallRecords]
  BY DEF ClosingInv, PurgeTypeOK
<1>2. PurgeTypeOK'
  BY <1>1 DEF ClosingInv, PurgeTypeOK
<1>3. ASSUME NEW x \in Rotation PROVE RotationHolds(x)'
  <2>1. CASE x = r
    <3>1. calls'[x] = call
      BY <2>1 DEF ClosingInv, PurgeTypeOK
    <3> QED BY <3>1 DEF RotationHolds, At, EndpointActive
  <2>2. CASE x # r
    <3>1. calls'[x] = calls[x]
      BY <2>2 DEF ClosingInv, PurgeTypeOK
    <3> QED BY <3>1 DEF ClosingInv, RotationHolds, At, EndpointActive
  <2> QED BY <2>1, <2>2
<1>4. calls'[r] = call /\ \A x \in Rotation \ {r} : calls'[x] = calls[x]
  BY DEF ClosingInv, PurgeTypeOK
<1>5. KnownInv'
  BY <1>4 DEF ClosingInv, KnownInv, Known, Running
<1>6. ClosedWorkspace'
  BY <1>4 DEF ClosingInv, ClosedWorkspace, Running
<1> QED BY <1>2, <1>3, <1>5, <1>6 DEF ClosingInv

\* What the calls become.
LEMMA CallShapes ==
  ASSUME ClosingInv, NEW r \in Rotation
  PROVE  /\ calls \in [Rotation -> CallRecords] /\ calls[r] \in CallRecords
         /\ IdleCall("done") \in CallRecords /\ IdleCall("done").pc = "done"
         /\ \A pc \in {"begun", "keyed", "rotated"} :
              /\ [calls[r] EXCEPT !.pc = pc] \in CallRecords
              /\ [calls[r] EXCEPT !.pc = pc].pc = pc
              /\ [calls[r] EXCEPT !.pc = pc].endpoint = calls[r].endpoint
              /\ [calls[r] EXCEPT !.pc = pc].key = calls[r].key
              /\ [calls EXCEPT ![r].pc = pc] = [calls EXCEPT ![r] = [calls[r] EXCEPT !.pc = pc]]
<1>1. calls \in [Rotation -> CallRecords] /\ calls[r] \in CallRecords
  BY DEF ClosingInv, PurgeTypeOK
<1>2. IdleCall("done") \in CallRecords /\ IdleCall("done").pc = "done"
  BY DEF IdleCall, CallRecords
<1>3. ASSUME NEW pc \in {"begun", "keyed", "rotated"}
      PROVE  /\ [calls[r] EXCEPT !.pc = pc] \in CallRecords
             /\ [calls[r] EXCEPT !.pc = pc].pc = pc
             /\ [calls[r] EXCEPT !.pc = pc].endpoint = calls[r].endpoint
             /\ [calls[r] EXCEPT !.pc = pc].key = calls[r].key
             /\ [calls EXCEPT ![r].pc = pc] = [calls EXCEPT ![r] = [calls[r] EXCEPT !.pc = pc]]
  BY <1>1, <1>3 DEF CallRecords
<1> QED BY <1>1, <1>2, <1>3


\* Every step of a rotation keeps the invariant.
LEMMA RotationClosing ==
  ASSUME ClosingInv, UNCHANGED <<workspaceVars, events, writers, pass>>,
         RotationBegins \/ RotationStep
  PROVE  ClosingInv'
<1> USE DEF workspaceVars, tables, claimVars
<1>1. PICK r \in Rotation :
        \/ /\ workspace = "active"
           /\ \E e \in DOMAIN endpoints, k \in Key, o \in Overlap : BeginRotation(r, e, k, o)
        \/ RepeatRotation(r) \/ TakeKey(r) \/ RefuseRotation(r) \/ Rotate(r)
        \/ CommitRotation(r) \/ AbortRotation(r)
  BY Zenon DEF RotationBegins, RotationStep
<1>2. UNCHANGED <<now, endpoints, closing, workspace, request, job, writers>>
  BY <1>1 DEF BeginRotation, RepeatRotation, TakeKey, RefuseRotation, Rotate, CommitRotation,
       AbortRotation
<1>3. CASE /\ workspace = "active"
           /\ \E e \in DOMAIN endpoints, k \in Key, o \in Overlap : BeginRotation(r, e, k, o)
  <2>1. PICK e \in DOMAIN endpoints, k \in Key, o \in Overlap : BeginRotation(r, e, k, o)
    BY <1>3
  <2>2. PICK call : call = [pc |-> "begun", endpoint |-> e, key |-> k, overlap |-> o, time |-> now]
    OBVIOUS
  <2>3. calls' = [calls EXCEPT ![r] = call] /\ call.pc = "begun"
    BY <2>1, <2>2 DEF BeginRotation
  <2>4. call \in CallRecords /\ call.endpoint \in Known
    <3>1. e \in Endpoint /\ e \in Known /\ now \in Int
      BY DEF ClosingInv, PurgeTypeOK, KnownInv
    <3> QED BY <2>2, <3>1 DEF CallRecords
  <2> QED BY <1>2, <1>3, <2>3, <2>4, CallMoves
<1>4. CASE Finish(r)
  BY <1>2, <1>4, CallShapes, CallMoves DEF Finish
<1>5. CASE TakeKey(r)
  <2>1. PICK call : call = [calls[r] EXCEPT !.pc = "keyed"]
    OBVIOUS
  <2>2. /\ calls' = [calls EXCEPT ![r] = call] /\ call \in CallRecords /\ call.pc = "keyed"
        /\ call.endpoint = calls[r].endpoint /\ Running(r)
    BY <1>5, <2>1, CallShapes DEF TakeKey, At, Running
  <2> QED BY <1>2, <2>2, CallMoves DEF ClosingInv, KnownInv
<1>6. CASE Rotate(r)
  <2>1. PICK call : call = [calls[r] EXCEPT !.pc = "rotated"]
    OBVIOUS
  <2>2. /\ calls' = [calls EXCEPT ![r] = call] /\ call \in CallRecords
        /\ call.endpoint = calls[r].endpoint /\ Running(r)
    BY <1>6, <2>1, CallShapes DEF Rotate, At, Running
  <2>3. EndpointActive(calls[r].endpoint) /\ calls[r].endpoint \notin closing
    BY <1>6 DEF Rotate, EndpointFree
  <2>4. workspace = "active"
    BY <2>2, <2>3 DEF ClosingInv, ClosedWorkspace, EndpointActive
  <2> QED BY <1>2, <2>2, <2>3, <2>4, CallMoves DEF ClosingInv, KnownInv
<1> QED BY <1>1, <1>3, <1>4, <1>5, <1>6 DEF RepeatRotation, RefuseRotation, CommitRotation,
             AbortRotation

\* The lock of an endpoint waits for the rotation that holds it, and the request
\* commits with the locks of all of them.
LEMMA RequestClosing == ASSUME ClosingInv, RequestStep PROVE ClosingInv'
<1> USE DEF secretVars, tables, claimVars, workspaceVars
<1>0. KnownInv'
  BY DEF RequestStep, BeginRequest, CloseEndpoint, CommitRequest, AbortRequest, ClosingInv, KnownInv,
       Known, Running
<1>1. CASE BeginRequest
  <2>1. PurgeTypeOK'
    BY <1>1 DEF BeginRequest, ClosingInv, PurgeTypeOK
  <2> QED BY <1>0, <1>1, <2>1, CallsKept DEF BeginRequest, ClosingInv, ClosedWorkspace, RotationHolds,
            EndpointActive
<1>2. ASSUME NEW e \in Endpoint, CloseEndpoint(e) PROVE ClosingInv'
  <2>1. PurgeTypeOK'
    BY <1>2 DEF CloseEndpoint, ClosingInv, PurgeTypeOK
  <2>2. ASSUME NEW r \in Rotation, At(r, "rotated")
        PROVE  calls[r].endpoint \notin closing'
    BY <1>2, <2>2 DEF CloseEndpoint, HoldsEndpoint, ClosingInv, RotationHolds
  <2> QED BY <1>0, <1>2, <2>1, <2>2, CallsKept DEF CloseEndpoint, ClosingInv, ClosedWorkspace,
            RotationHolds, EndpointActive
<1>3. CASE CommitRequest
  <2>1. PurgeTypeOK'
    BY <1>3 DEF CommitRequest, ClosingInv, PurgeTypeOK
  <2>2. \A r \in Rotation : ~At(r, "rotated")
    BY <1>3 DEF CommitRequest, ClosingInv, RotationHolds, EndpointActive
  <2>3. ClosedWorkspace' /\ workspace' = "deleting" /\ request' = "none" /\ UNCHANGED calls
    BY <1>3 DEF CommitRequest, ClosedWorkspace
  <2> QED BY <1>0, <2>1, <2>2, <2>3, CallsKept
<1>4. CASE AbortRequest
  <2>1. PurgeTypeOK'
    BY <1>4 DEF AbortRequest, ClosingInv, PurgeTypeOK
  <2> QED BY <1>0, <1>4, <2>1, CallsKept DEF AbortRequest, ClosingInv, ClosedWorkspace, RotationHolds,
            EndpointActive
<1> QED BY <1>1, <1>2, <1>3, <1>4 DEF RequestStep

\* Creations of endpoints and publishes.
LEMMA WriterClosing ==
  ASSUME ClosingInv, NEW w \in Writer, BeginWrite(w) \/ CheckPolicy(w) \/ WriteStep(w)
  PROVE  ClosingInv'
<1> USE DEF secretVars, tables, claimVars, workspaceVars
<1>0. writers[w] # "done" /\ \E to \in {"begun", "checked", "inserted", "done"} :
        writers' = [writers EXCEPT ![w] = to]
  BY DEF BeginWrite, CheckPolicy, WriteStep, InsertRow, AbortWrite, CommitEvent, CommitEndpoint, Wait
<1>1. CASE w \in Endpoint /\ CommitEndpoint(w)
  <2>1. PurgeTypeOK'
    <3>1. DOMAIN endpoints' \subseteq Endpoint
      BY <1>1 DEF CommitEndpoint, Insert, ClosingInv, PurgeTypeOK
    <3> QED BY <1>1, <3>1 DEF CommitEndpoint, ClosingInv, PurgeTypeOK
  <2>2. /\ DOMAIN endpoints' = DOMAIN endpoints \cup {w} /\ endpoints'[w] = "active"
        /\ \A e \in DOMAIN endpoints \ {w} : endpoints'[e] = endpoints[e]
        /\ UNCHANGED <<calls, closing, workspace, request, job>>
        /\ writers' = [writers EXCEPT ![w] = "done"]
    BY <1>1 DEF CommitEndpoint, Insert, Wait
  <2>3. w \notin Known
    BY <1>0, <1>1, PurgeAssumption DEF Known, Writer, Secret
  <2>4. ASSUME NEW r \in Rotation, At(r, "rotated")
        PROVE  /\ workspace = "active"
               /\ calls[r].endpoint \in DOMAIN endpoints'
               /\ endpoints'[calls[r].endpoint] = endpoints[calls[r].endpoint]
               /\ calls[r].endpoint \notin closing
    BY <2>2, <2>3, <2>4 DEF ClosingInv, KnownInv, RotationHolds, EndpointActive
  <2>5. KnownInv'
    BY <1>1, <2>2 DEF ClosingInv, KnownInv, Known, Running
  <2>6. ClosedWorkspace'
    <3>1. workspace # "active" => w \in Console
      BY <1>1 DEF CommitEndpoint, Admitted
    <3>2. \A r \in Rotation : Running(r) => calls[r].endpoint # w
      BY <2>3 DEF ClosingInv, KnownInv
    <3> QED BY <2>2, <3>1, <3>2 DEF ClosingInv, ClosedWorkspace, Running
  <2> QED BY <2>1, <2>2, <2>4, <2>5, <2>6, CallsKept DEF ClosingInv
<1>2. CASE UNCHANGED <<now, endpoints, closing, calls, workspace, request, job>>
  <2>1. PurgeTypeOK'
    BY <1>2 DEF ClosingInv, PurgeTypeOK
  <2>2. KnownInv'
    BY <1>0, <1>2 DEF ClosingInv, KnownInv, Known, Running
  <2>3. ClosedWorkspace'
    BY <1>2 DEF ClosingInv, ClosedWorkspace, Running
  <2> QED BY <1>2, <2>1, <2>2, <2>3, CallsKept DEF ClosingInv, RotationHolds, EndpointActive
<1> QED BY <1>1, <1>2 DEF BeginWrite, CheckPolicy, WriteStep, InsertRow, AbortWrite, CommitEvent

\* The passes of the retention runner: rows of a workspace go only when it is closed.
LEMMA PassClosing == ASSUME ClosingInv, PassStep \/ FailPass PROVE ClosingInv'
<1> USE DEF secretVars, tables, claimVars, workspaceVars
<1>1. CASE UNCHANGED <<now, endpoints, closing, calls, workspace, request, job, writers>>
  <2>1. PurgeTypeOK'
    BY <1>1 DEF ClosingInv, PurgeTypeOK
  <2>2. KnownInv' /\ ClosedWorkspace'
    BY <1>1 DEF ClosingInv, KnownInv, Known, ClosedWorkspace, Running
  <2> QED BY <1>1, <2>1, <2>2, CallsKept DEF ClosingInv, RotationHolds, EndpointActive
<1>2. CASE PurgeRows
  <2>1. workspace # "active" /\ job.status = "pending"
    BY <1>2 DEF PurgeRows, ClosingInv
  <2>2. /\ UNCHANGED <<now, calls, closing, workspace, request, writers>>
        /\ job'.status = "pending"
        /\ job' = [status |-> "pending", checkpoint |-> job'.checkpoint]
    BY <1>2, <2>1 DEF PurgeRows, ClosingInv, PurgeTypeOK
  <2>4. UNCHANGED endpoints \/ \E left \in SUBSET DOMAIN endpoints : endpoints' = Keep(endpoints, left)
    BY <1>2 DEF PurgeRows, DeleteBatch
  <2>3. PurgeTypeOK'
    <3>1. DOMAIN endpoints' \subseteq Endpoint
      BY <2>4 DEF Keep, ClosingInv, PurgeTypeOK
    <3> QED BY <2>2, <3>1 DEF ClosingInv, PurgeTypeOK
  <2>5. KnownInv' /\ ClosedWorkspace'
    BY <2>1, <2>2, <2>4 DEF ClosingInv, KnownInv, Known, ClosedWorkspace, Keep, Running
  <2> QED BY <2>1, <2>2, <2>3, <2>5, CallsKept DEF ClosingInv, RotationHolds
<1>3. CASE DeleteWorkspace
  <2>1. workspace # "active" /\ workspace' = "gone" /\ job'.status = "completed"
    BY <1>3 DEF DeleteWorkspace, ClosingInv
  <2>2. PurgeTypeOK'
    BY <1>3 DEF DeleteWorkspace, ClosingInv, PurgeTypeOK
  <2>3. UNCHANGED <<calls, closing, request, endpoints, writers>>
    BY <1>3 DEF DeleteWorkspace
  <2>4. KnownInv' /\ ClosedWorkspace'
    BY <2>1, <2>3 DEF ClosingInv, KnownInv, Known, ClosedWorkspace, Running
  <2> QED BY <2>1, <2>2, <2>3, <2>4, CallsKept DEF ClosingInv, RotationHolds
<1> QED BY <1>1, <1>2, <1>3 DEF PassStep, FailPass, StartPass, PurgeOthers, PurgeSecrets, PurgeRetired,
          WorkspaceStep, NoJob, Backlog

\* Every step keeps the invariant.
LEMMA ClosingStep == ClosingInv /\ [Next]_vars => ClosingInv'
<1> SUFFICES ASSUME ClosingInv, [Next]_vars PROVE ClosingInv'
  OBVIOUS
<1>1. ASSUME UNCHANGED <<endpoints, closing, calls, workspace, request, job, writers>>, now' \in Int
      PROVE  ClosingInv'
  <2>1. PurgeTypeOK'
    BY <1>1 DEF ClosingInv, PurgeTypeOK
  <2>2. KnownInv' /\ ClosedWorkspace'
    BY <1>1 DEF ClosingInv, KnownInv, Known, ClosedWorkspace, Running
  <2> QED BY <1>1, <2>1, <2>2, CallsKept DEF ClosingInv, RotationHolds, EndpointActive
<1>2. now \in Int
  BY DEF ClosingInv, PurgeTypeOK
<1> USE DEF tables, claimVars, workspaceVars
<1>3. CASE SecretStep /\ UNCHANGED <<workspaceVars, events, writers, pass>>
  <2>1. CASE Tick
    BY <1>1, <1>2, <1>3, <2>1 DEF Tick
  <2>2. CASE ClaimStep
    BY <1>1, <1>2, <1>3, <2>2 DEF ClaimStep, StartClaim, FinishClaim, GiveUpClaim
  <2> QED BY <1>3, <2>1, <2>2, RotationClosing DEF SecretStep
<1>4. CASE UNCHANGED vars
  BY <1>1, <1>2, <1>4 DEF vars, secretVars
<1> QED BY <1>3, <1>4, RequestClosing, WriterClosing, PassClosing DEF Next

\* The first state satisfies the invariant.
LEMMA ClosingInitial == Init => ClosingInv
<1> SUFFICES ASSUME Init PROVE ClosingInv
  OBVIOUS
<1>1. calls \in [Rotation -> CallRecords] /\ \A r \in Rotation : calls[r].pc = "new"
  BY DEF Init, SecretInit, IdleCall, CallRecords
<1>2. PurgeTypeOK
  BY <1>1, SecretAssumption DEF Init, SecretInit, PurgeTypeOK
<1>3. KnownInv
  BY <1>1 DEF Init, SecretInit, KnownInv, Known, Running
<1> QED BY <1>1, <1>2, <1>3 DEF Init, SecretInit, ClosingInv, ClosedWorkspace, RotationHolds, At

\* Once a workspace is closed, only an endpoint that the console creates is active in
\* it, and no rotation is under way for such an endpoint: a creation through the API
\* that overtakes the request, or is overtaken by it, leaves nothing active.
THEOREM WorkspaceStaysClosed == Spec => []ClosedWorkspace
<1>1. ClosingInv => ClosedWorkspace
  BY DEF ClosingInv
<1> QED BY <1>1, ClosingInitial, ClosingStep, PTL DEF Spec

\* A rotation that holds a lock commits before the request of the purge, and a later
\* one fails: a workspace that is closed gets no command, and no secret but the first
\* of an endpoint that the console creates.
THEOREM ClosedAgainstRotations == Spec => ClosedToRotations
<1> USE DEF secretVars, tables, claimVars, workspaceVars
<1>1. ASSUME ClosingInv, [Next]_vars, workspace # "active"
      PROVE  /\ commands' \subseteq commands
             /\ DOMAIN secrets' \subseteq DOMAIN secrets \cup (Console \cap Endpoint)
  <2>1. ASSUME NEW r \in Rotation PROVE ~CommitRotation(r)
    BY <1>1 DEF CommitRotation, ClosingInv, RotationHolds
  <2>2. CASE UNCHANGED <<commands, secrets>>
    BY <2>2
  <2>3. CASE SecretStep
    BY <2>1, <2>2, <2>3 DEF SecretStep, Tick, RotationBegins, BeginRotation, RotationStep,
         RepeatRotation, TakeKey, RefuseRotation, Rotate, AbortRotation, ClaimStep, StartClaim,
         FinishClaim, GiveUpClaim
  <2>4. ASSUME NEW w \in Writer, BeginWrite(w) \/ CheckPolicy(w) \/ WriteStep(w)
        PROVE  /\ UNCHANGED commands
               /\ DOMAIN secrets' \subseteq DOMAIN secrets \cup (Console \cap Endpoint)
    <3>1. CASE w \in Endpoint /\ CommitEndpoint(w)
      BY <1>1, <3>1 DEF CommitEndpoint, Insert, Admitted
    <3> QED BY <2>4, <3>1 DEF BeginWrite, CheckPolicy, WriteStep, InsertRow, AbortWrite, CommitEvent
  <2>5. CASE RequestStep
    BY <2>2, <2>5 DEF RequestStep, BeginRequest, CloseEndpoint, CommitRequest, AbortRequest
  <2>6. CASE PurgeSecrets
    BY <2>6 DEF PurgeSecrets, PurgeRetired
  <2>7. CASE PurgeRows
    BY <2>7 DEF PurgeRows, DeleteBatch, Keep
  <2>8. CASE PassStep \/ FailPass
    BY <2>2, <2>6, <2>7, <2>8 DEF PassStep, FailPass, StartPass, PurgeOthers, WorkspaceStep,
         DeleteWorkspace, NoJob, Backlog
  <2>9. CASE UNCHANGED vars
    BY <2>2, <2>9 DEF vars
  <2> QED BY <1>1, <2>2, <2>3, <2>4, <2>5, <2>8, <2>9 DEF Next
<1>2. ClosingInv /\ [Next]_vars =>
        [workspace # "active" =>
           /\ commands' \subseteq commands
           /\ DOMAIN secrets' \subseteq DOMAIN secrets \cup (Console \cap Endpoint)]_vars
  BY <1>1
<1> QED BY <1>2, ClosingInitial, ClosingStep, PTL DEF Spec, ClosedToRotations

-----------------------------------------------------------------------------
(* The completed purge. *)

\* Nothing is left of a workspace that is gone, and no transaction that still
\* refers to it can add a row.
GoneInv == PurgeLeavesNothing /\ (workspace = "gone" => Referencing = {})

\* A workspace that is gone stays so, whatever transactions and passes go on.
LEMMA GoneStays ==
  ASSUME ClosingInv, GoneInv, [Next]_vars, workspace = "gone"
  PROVE  /\ UNCHANGED <<workspace, job, commands, events, endpoints>>
         /\ DOMAIN secrets' = {} /\ Referencing' = {}
<1> USE DEF secretVars, tables, claimVars, workspaceVars
<1>1. /\ job.status = "completed" /\ events = {} /\ request = "none"
      /\ DOMAIN secrets = {} /\ \A w \in Writer : writers[w] # "inserted"
  BY DEF GoneInv, PurgeLeavesNothing, Referencing, ClosingInv, PurgeTypeOK
<1>2. CASE UNCHANGED <<workspace, job, commands, events, endpoints, secrets, writers>>
  BY <1>1, <1>2 DEF Referencing
<1>3. CASE SecretStep /\ UNCHANGED <<workspaceVars, events, writers, pass>>
  <2>1. ASSUME NEW r \in Rotation PROVE ~CommitRotation(r)
    BY DEF CommitRotation, ClosingInv, RotationHolds
  <2> QED BY <1>2, <1>3, <2>1 DEF SecretStep, Tick, RotationBegins, BeginRotation, RotationStep,
         RepeatRotation, TakeKey, RefuseRotation, Rotate, AbortRotation, ClaimStep, StartClaim,
         FinishClaim, GiveUpClaim
<1>4. ASSUME NEW w \in Writer, BeginWrite(w) \/ CheckPolicy(w) \/ WriteStep(w)
      PROVE  /\ UNCHANGED <<workspace, job, commands, events, endpoints, secrets>>
             /\ \E to \in {"checked", "done"} : writers' = [writers EXCEPT ![w] = to]
  BY <1>1, <1>4 DEF BeginWrite, CheckPolicy, WriteStep, InsertRow, AbortWrite, CommitEvent,
       CommitEndpoint, Wait
<1>5. ASSUME NEW w \in Writer, NEW to \in {"checked", "done"}, writers' = [writers EXCEPT ![w] = to]
      PROVE  Referencing' = {}
  BY <1>1, <1>5 DEF Referencing
<1>6. CASE RequestStep
  BY <1>1, <1>6 DEF RequestStep, BeginRequest, CloseEndpoint, CommitRequest, AbortRequest
<1>7. CASE PurgeSecrets
  BY <1>1, <1>7 DEF PurgeSecrets, PurgeRetired, Referencing
<1>8. CASE PassStep \/ FailPass
  BY <1>1, <1>2, <1>7, <1>8 DEF PassStep, FailPass, StartPass, PurgeOthers, WorkspaceStep,
       PurgeRows, DeleteWorkspace, NoJob, Backlog
<1>9. CASE UNCHANGED vars
  BY <1>2, <1>9 DEF vars
<1> QED BY <1>1, <1>3, <1>4, <1>5, <1>6, <1>8, <1>9 DEF Next

\* The last batch of the purge finds nothing, and takes the row of the workspace.
LEMMA GoneStep == ClosingInv /\ GoneInv /\ [Next]_vars => GoneInv'
<1> SUFFICES ASSUME ClosingInv, GoneInv, [Next]_vars, workspace' = "gone" PROVE GoneInv'
  BY DEF GoneInv, PurgeLeavesNothing
<1> USE DEF secretVars, tables, claimVars, workspaceVars
<1>1. CASE workspace = "gone"
  BY <1>1, GoneStays DEF GoneInv, PurgeLeavesNothing
<1>2. CASE DeleteWorkspace
  <2>1. commands = {} /\ events = {} /\ DOMAIN secrets = {} /\ DOMAIN endpoints = {}
    BY <1>2 DEF DeleteWorkspace, Stage
  <2> QED BY <1>2, <2>1 DEF DeleteWorkspace, GoneInv, PurgeLeavesNothing, Referencing
<1>3. CASE workspace # "gone" /\ ~DeleteWorkspace
  <2>1. CASE SecretStep /\ UNCHANGED <<workspaceVars, events, writers, pass>>
    BY <1>3, <2>1
  <2>2. ASSUME NEW w \in Writer, BeginWrite(w) \/ CheckPolicy(w) \/ WriteStep(w) PROVE FALSE
    BY <1>3, <2>2 DEF BeginWrite, CheckPolicy, WriteStep, InsertRow, AbortWrite, CommitEvent,
         CommitEndpoint
  <2>3. CASE RequestStep
    BY <1>3, <2>3 DEF RequestStep, BeginRequest, CloseEndpoint, CommitRequest, AbortRequest
  <2>4. CASE PassStep \/ FailPass
    BY <1>3, <2>4 DEF PassStep, FailPass, StartPass, PurgeOthers, PurgeSecrets, PurgeRetired,
         WorkspaceStep, PurgeRows, NoJob, Backlog
  <2> QED BY <1>3, <2>1, <2>2, <2>3, <2>4 DEF Next, vars
<1> QED BY <1>1, <1>2, <1>3

\* 000017: a completed purge leaves no row of the workspace, and none appears
\* afterwards, although creations, publishes and rotations may still be running.
THEOREM PurgedForGood == Spec => []PurgeLeavesNothing
<1>1. Init => GoneInv
  BY DEF Init, GoneInv, PurgeLeavesNothing
<1>2. GoneInv => PurgeLeavesNothing
  BY DEF GoneInv
<1> QED BY <1>1, <1>2, ClosingInitial, ClosingStep, GoneStep, PTL DEF Spec

-----------------------------------------------------------------------------
(* The commands of the rotations. *)

SameCommand(x, y) == x.endpoint = y.endpoint /\ x.key = y.key
Holding(r) == calls[r].pc \in {"keyed", "rotated"}

\* Who holds the lock of a key is alone, and the key has no command yet.
KeyInv ==
  /\ \A r \in Rotation : Holding(r) => \A c \in commands : ~SameCommand(c, calls[r])
  /\ \A r, x \in Rotation : Holding(r) /\ Holding(x) /\ SameCommand(calls[r], calls[x]) => r = x

IsAnswer(x) ==
  /\ x = [rotation |-> x.rotation, endpoint |-> x.endpoint, key |-> x.key,
           secret |-> x.secret, duplicate |-> x.duplicate]
  /\ x.duplicate \in BOOLEAN
  /\ ~x.duplicate => x.secret = x.rotation

\* An answer agrees with the command of its key, which outlives it while the
\* workspace is active.
AnswerInv ==
  /\ \A c, d \in commands : SameCommand(c, d) => c = d
  /\ \A x \in results : IsAnswer(x)
  /\ workspace = "active" => \A x \in results : \E c \in commands : SameCommand(c, x)
  /\ \A x \in results, c \in commands : SameCommand(c, x) => c.secret = x.secret
  /\ \A x, y \in results : SameCommand(x, y) => x.secret = y.secret

CommandsInv == KeyInv /\ AnswerInv

\* Steps of everything but the rotations: commands go only from a closed workspace.
LEMMA CommandsKept ==
  ASSUME CommandsInv, UNCHANGED <<calls, results>>, commands' \subseteq commands,
         workspace' = "active" => workspace = "active" /\ UNCHANGED commands
  PROVE  CommandsInv'
<1>1. KeyInv'
  BY DEF CommandsInv, KeyInv, Holding, SameCommand
<1>2. AnswerInv'
  BY DEF CommandsInv, AnswerInv, SameCommand, IsAnswer
<1> QED BY <1>1, <1>2 DEF CommandsInv

\* A rotation moves, takes a key that is free, or adds the command of its key.
LEMMA KeysKept ==
  ASSUME ClosingInv, KeyInv, NEW r \in Rotation, NEW call \in CallRecords,
         calls' = [calls EXCEPT ![r] = call],
         call.pc \in {"keyed", "rotated"} =>
           /\ \A x \in Rotation \ {r} : Holding(x) => ~SameCommand(calls[x], call)
           /\ \A c \in commands' : ~SameCommand(c, call),
         \A x \in Rotation \ {r}, c \in commands' \ commands :
           Holding(x) => ~SameCommand(c, calls[x])
  PROVE  KeyInv'
<1>1. calls'[r] = call /\ \A x \in Rotation \ {r} : calls'[x] = calls[x]
  BY DEF ClosingInv, PurgeTypeOK
<1>2. ASSUME NEW x \in Rotation, Holding(x)', NEW c \in commands' PROVE ~SameCommand(c, calls'[x])
  BY <1>1, <1>2 DEF KeyInv, Holding
<1>3. ASSUME NEW x \in Rotation, NEW y \in Rotation, Holding(x)', Holding(y)',
             SameCommand(calls'[x], calls'[y])
      PROVE  x = y
  BY <1>1, <1>3 DEF KeyInv, Holding, SameCommand
<1> QED BY <1>2, <1>3 DEF KeyInv, SameCommand

\* Every step of a rotation keeps the invariant.
LEMMA RotationCommands ==
  ASSUME ClosingInv, CommandsInv, UNCHANGED <<workspaceVars, events, writers, pass>>,
         RotationBegins \/ RotationStep
  PROVE  CommandsInv'
<1> USE DEF workspaceVars, tables, claimVars
<1>1. PICK r \in Rotation :
        \/ \E e \in DOMAIN endpoints, k \in Key, o \in Overlap : BeginRotation(r, e, k, o)
        \/ RepeatRotation(r) \/ TakeKey(r) \/ RefuseRotation(r) \/ Rotate(r)
        \/ CommitRotation(r) \/ AbortRotation(r)
  BY Zenon DEF RotationBegins, RotationStep
<1>2. KeyInv /\ AnswerInv
  BY DEF CommandsInv
<1>3. ASSUME UNCHANGED <<commands, results>> PROVE AnswerInv'
  BY <1>2, <1>3 DEF AnswerInv, IsAnswer, SameCommand
<1>4. ASSUME Finish(r), commands' \subseteq commands PROVE KeyInv'
  BY <1>2, <1>4, CallShapes, KeysKept DEF Finish
<1>5. CASE \E e \in DOMAIN endpoints, k \in Key, o \in Overlap : BeginRotation(r, e, k, o)
  <2>1. PICK e \in DOMAIN endpoints, k \in Key, o \in Overlap : BeginRotation(r, e, k, o)
    BY <1>5
  <2>2. PICK call : call = [pc |-> "begun", endpoint |-> e, key |-> k, overlap |-> o, time |-> now]
    OBVIOUS
  <2>3. calls' = [calls EXCEPT ![r] = call] /\ call.pc = "begun" /\ UNCHANGED <<commands, results>>
    BY <2>1, <2>2 DEF BeginRotation
  <2>4. call \in CallRecords
    <3>1. e \in Endpoint /\ now \in Int
      BY DEF ClosingInv, PurgeTypeOK
    <3> QED BY <2>2, <3>1 DEF CallRecords
  <2> QED BY <1>2, <1>3, <2>3, <2>4, KeysKept DEF CommandsInv
<1>6. CASE TakeKey(r)
  <2>1. PICK call : call = [calls[r] EXCEPT !.pc = "keyed"]
    OBVIOUS
  <2>2. /\ calls' = [calls EXCEPT ![r] = call] /\ call \in CallRecords
        /\ call.endpoint = calls[r].endpoint /\ call.key = calls[r].key
        /\ UNCHANGED <<commands, results>>
    BY <1>6, <2>1, CallShapes DEF TakeKey
  <2>3. \A x \in Rotation : Holding(x) => ~SameCommand(calls[x], call)
    BY <1>6, <2>2 DEF TakeKey, KeyFree, HoldsKey, Holding, SameCommand
  <2>4. \A c \in commands : ~SameCommand(c, call)
    BY <1>6, <2>2 DEF TakeKey, CommandsOf, SameCommand
  <2> QED BY <1>2, <1>3, <2>2, <2>3, <2>4, KeysKept DEF CommandsInv
<1>7. CASE Rotate(r)
  <2>1. PICK call : call = [calls[r] EXCEPT !.pc = "rotated"]
    OBVIOUS
  <2>2. /\ calls' = [calls EXCEPT ![r] = call] /\ call \in CallRecords
        /\ call.endpoint = calls[r].endpoint /\ call.key = calls[r].key
        /\ UNCHANGED <<commands, results>> /\ Holding(r)
    BY <1>7, <2>1, CallShapes DEF Rotate, At, Holding
  <2>3. \A x \in Rotation \ {r} : Holding(x) => ~SameCommand(calls[x], call)
    BY <1>2, <2>2 DEF KeyInv, SameCommand
  <2>4. \A c \in commands : ~SameCommand(c, call)
    BY <1>2, <2>2 DEF KeyInv, SameCommand
  <2> QED BY <1>2, <1>3, <2>2, <2>3, <2>4, KeysKept DEF CommandsInv
<1>8. CASE RepeatRotation(r)
  <2>1. PICK c \in CommandsOf(r) : results' \in {results, results \cup {Answer(r, c.secret, TRUE)}}
    BY <1>8 DEF RepeatRotation
  <2>2. PICK a : a = Answer(r, c.secret, TRUE)
    OBVIOUS
  <2>3. IsAnswer(a) /\ SameCommand(c, a) /\ a.secret = c.secret /\ c \in commands
    BY <2>1, <2>2 DEF Answer, IsAnswer, SameCommand, CommandsOf
  <2>4. UNCHANGED commands /\ Finish(r) /\ results' \in {results, results \cup {a}}
    BY <1>8, <2>1, <2>2 DEF RepeatRotation
  <2>5. \A d \in commands : SameCommand(d, a) => d = c
    BY <1>2, <2>3 DEF AnswerInv, SameCommand
  <2>6. \A x \in results : SameCommand(x, a) => x.secret = a.secret
    BY <1>2, <2>3 DEF AnswerInv, SameCommand
  <2>7. AnswerInv'
    BY <1>2, <2>3, <2>4, <2>5, <2>6 DEF AnswerInv, SameCommand, IsAnswer
  <2> QED BY <1>4, <2>4, <2>7 DEF CommandsInv
<1>9. CASE CommitRotation(r)
  <2>1. PICK n : n = [endpoint |-> calls[r].endpoint, key |-> calls[r].key,
                      overlap |-> calls[r].overlap, secret |-> r]
    OBVIOUS
  <2>2. PICK a : a = Answer(r, r, FALSE)
    OBVIOUS
  <2>3. /\ commands' = commands \cup {n} /\ results' \in {results, results \cup {a}}
        /\ Finish(r) /\ Holding(r) /\ workspace = "active"
    BY <1>9, <2>1, <2>2 DEF CommitRotation, At, Holding, ClosingInv, RotationHolds
  <2>4. IsAnswer(a) /\ SameCommand(n, a) /\ n.secret = a.secret /\ SameCommand(n, calls[r])
    BY <2>1, <2>2 DEF Answer, IsAnswer, SameCommand
  <2>5. \A c \in commands : ~SameCommand(c, n)
    BY <1>2, <2>3, <2>4 DEF KeyInv, SameCommand
  <2>6. \A x \in results : ~SameCommand(x, n)
    BY <1>2, <2>3, <2>5 DEF AnswerInv, SameCommand
  <2>7. AnswerInv'
    BY <1>2, <2>3, <2>4, <2>5, <2>6 DEF AnswerInv, SameCommand, IsAnswer
  <2>8. \A x \in Rotation \ {r} : Holding(x) => ~SameCommand(n, calls[x])
    BY <1>2, <2>3, <2>4 DEF KeyInv, SameCommand
  <2>9. KeyInv'
    <3>1. PICK call : call = IdleCall("done")
      OBVIOUS
    <3>2. call \in CallRecords /\ call.pc = "done" /\ calls' = [calls EXCEPT ![r] = call]
      BY <2>3, <3>1, CallShapes DEF Finish
    <3>3. \A x \in Rotation \ {r}, c \in commands' \ commands :
            Holding(x) => ~SameCommand(c, calls[x])
      BY <2>3, <2>8
    <3> QED BY <1>2, <3>2, <3>3, KeysKept
  <2> QED BY <2>7, <2>9 DEF CommandsInv
<1>10. CASE RefuseRotation(r) \/ AbortRotation(r)
  <2>1. Finish(r) /\ UNCHANGED <<commands, results>>
    BY <1>10 DEF RefuseRotation, AbortRotation
  <2> QED BY <1>3, <1>4, <2>1 DEF CommandsInv
<1> QED BY <1>1, <1>5, <1>6, <1>7, <1>8, <1>9, <1>10

\* Every step keeps the invariant.
LEMMA CommandsStep == ClosingInv /\ CommandsInv /\ [Next]_vars => CommandsInv'
<1> SUFFICES ASSUME ClosingInv, CommandsInv, [Next]_vars PROVE CommandsInv'
  OBVIOUS
<1> USE DEF secretVars, tables, claimVars, workspaceVars
<1>1. CASE UNCHANGED <<calls, results, commands>> /\ (workspace' = "active" => workspace = "active")
  BY <1>1, CommandsKept
<1>2. CASE SecretStep /\ UNCHANGED <<workspaceVars, events, writers, pass>>
  BY <1>1, <1>2, RotationCommands DEF SecretStep, Tick, ClaimStep, StartClaim, FinishClaim,
       GiveUpClaim
<1>3. ASSUME NEW w \in Writer, BeginWrite(w) \/ CheckPolicy(w) \/ WriteStep(w)
      PROVE  CommandsInv'
  BY <1>1, <1>3 DEF BeginWrite, CheckPolicy, WriteStep, InsertRow, AbortWrite, CommitEvent,
       CommitEndpoint
<1>4. CASE RequestStep
  BY <1>1, <1>4 DEF RequestStep, BeginRequest, CloseEndpoint, CommitRequest, AbortRequest
<1>5. CASE PurgeRows
  <2>1. /\ workspace # "active" /\ UNCHANGED <<workspace, calls, results>>
        /\ commands' \subseteq commands
    BY <1>5 DEF PurgeRows, DeleteBatch, ClosingInv
  <2> QED BY <2>1, CommandsKept
<1>6. CASE PassStep \/ FailPass
  BY <1>1, <1>5, <1>6 DEF PassStep, FailPass, StartPass, PurgeOthers, PurgeSecrets, PurgeRetired,
       WorkspaceStep, DeleteWorkspace, NoJob, Backlog
<1>7. CASE UNCHANGED vars
  BY <1>1, <1>7 DEF vars
<1> QED BY <1>2, <1>3, <1>4, <1>6, <1>7 DEF Next

\* A rotation command is carried out once: all the answers to one key name one
\* secret, which one call made, whatever is repeated, lost, refused, rolled back or
\* purged.
THEOREM RotationsIdempotent == Spec => []OneSecretPerCommand
<1>1. Init => CommandsInv
  BY DEF Init, SecretInit, IdleCall, CommandsInv, KeyInv, AnswerInv, Holding
<1>2. CommandsInv => OneSecretPerCommand
  BY DEF CommandsInv, AnswerInv, IsAnswer, SameCommand, OneSecretPerCommand
<1> QED BY <1>1, <1>2, ClosingInitial, ClosingStep, CommandsStep, PTL DEF Spec

-----------------------------------------------------------------------------
(* The secrets of the endpoints. *)

SecretRows == [endpoint : Endpoint, state : {"active", "retiring", "purged"}, retireAt : Int]

\* No two secrets of an endpoint are active, or retiring; while the workspace is
\* active, an active endpoint has an active one; what was purged was retired before;
\* and secrets belong to endpoints.
RowsInv ==
  /\ \A s \in DOMAIN secrets : secrets[s] \in SecretRows /\ secrets[s].endpoint \in DOMAIN endpoints
  /\ OverlapKept
  /\ \A s, t \in DOMAIN secrets :
       secrets[s].endpoint = secrets[t].endpoint /\ secrets[s].state = secrets[t].state =>
         s = t \/ secrets[s].state = "purged"
  /\ workspace = "active" =>
       \A e \in DOMAIN endpoints : endpoints[e] = "active" =>
         \E s \in DOMAIN secrets : secrets[s].endpoint = e /\ secrets[s].state = "active"

\* The row that a rotation will add is not there yet; a secret of another name is the
\* first of its endpoint.
FreshInv ==
  /\ \A s \in DOMAIN secrets : s \in Rotation \/ s = secrets[s].endpoint
  /\ \A r \in Rotation : calls[r].pc # "done" => r \notin DOMAIN secrets

\* Who has changed the secrets of an endpoint is alone, and what retires there is
\* over its time.
RotatingInv ==
  /\ now >= 0 /\ \A r \in Rotation : calls[r].time <= now
  /\ \A r \in Rotation : Running(r) => calls[r].overlap \in Nat
  /\ \A r, x \in Rotation : At(r, "rotated") /\ At(x, "rotated") /\ calls[r].endpoint = calls[x].endpoint => r = x
  /\ \A r \in Rotation, s \in DOMAIN secrets :
       At(r, "rotated") /\ secrets[s].endpoint = calls[r].endpoint /\ secrets[s].state = "retiring" =>
         secrets[s].retireAt <= now

SecretsInv == RowsInv /\ FreshInv /\ RotatingInv

\* Steps that change no secret and no rotation; endpoints may be closed.
LEMMA SecretsKept ==
  ASSUME ClosingInv, SecretsInv, UNCHANGED <<secrets, calls>>, now' \in Int, now' >= now,
         workspace' = "active" => workspace = "active",
         DOMAIN endpoints' = DOMAIN endpoints,
         \A e \in DOMAIN endpoints : endpoints'[e] = "active" => endpoints[e] = "active"
  PROVE  SecretsInv'
<1>1. now \in Int /\ \A r \in Rotation : calls[r].time \in Int
  BY DEF ClosingInv, PurgeTypeOK, CallRecords
<1>2. RowsInv'
  <2>1. \A s \in DOMAIN secrets : secrets[s].retireAt \in Int
    BY DEF SecretsInv, RowsInv, SecretRows
  <2>2. OverlapKept'
    BY <1>1, <2>1 DEF SecretsInv, RowsInv, OverlapKept
  <2> QED BY <2>2 DEF SecretsInv, RowsInv
<1>3. FreshInv'
  BY DEF SecretsInv, FreshInv
<1>4. RotatingInv'
  BY <1>1 DEF SecretsInv, RotatingInv, RowsInv, SecretRows, At, Running
<1> QED BY <1>2, <1>3, <1>4 DEF SecretsInv

\* Secrets are marked purged, or deleted with the rows of a closed workspace.
LEMMA SecretsPurged ==
  ASSUME ClosingInv, SecretsInv, UNCHANGED <<now, calls>>,
         DOMAIN secrets' \subseteq DOMAIN secrets, DOMAIN endpoints' \subseteq DOMAIN endpoints,
         \A s \in DOMAIN secrets' :
           /\ secrets[s].endpoint \in DOMAIN endpoints'
           /\ \/ secrets'[s] = secrets[s]
              \/ /\ secrets'[s] = [secrets[s] EXCEPT !.state = "purged"]
                 /\ secrets[s].state = "retiring" /\ secrets[s].retireAt <= now,
         workspace' = "active" =>
           workspace = "active" /\ UNCHANGED endpoints /\ DOMAIN secrets' = DOMAIN secrets
  PROVE  SecretsInv'
<1>1. ASSUME NEW s \in DOMAIN secrets'
      PROVE  /\ s \in DOMAIN secrets /\ secrets[s] \in SecretRows /\ secrets'[s] \in SecretRows
             /\ secrets'[s].endpoint = secrets[s].endpoint /\ secrets'[s].retireAt = secrets[s].retireAt
             /\ secrets'[s].state \in {secrets[s].state, "purged"}
             /\ secrets'[s].state # secrets[s].state =>
                  secrets[s].state = "retiring" /\ secrets[s].retireAt <= now
  BY DEF SecretsInv, RowsInv, SecretRows
<1>2. RowsInv'
  <2>1. OverlapKept'
    BY <1>1 DEF SecretsInv, RowsInv, OverlapKept
  <2>2. ASSUME workspace' = "active", NEW e \in DOMAIN endpoints', endpoints'[e] = "active"
        PROVE  \E s \in DOMAIN secrets' : secrets'[s].endpoint = e /\ secrets'[s].state = "active"
    <3>1. PICK s \in DOMAIN secrets : secrets[s].endpoint = e /\ secrets[s].state = "active"
      BY <2>2 DEF SecretsInv, RowsInv
    <3>2. s \in DOMAIN secrets'
      BY <2>2
    <3> QED BY <1>1, <3>1, <3>2
  <2>3. \A s \in DOMAIN secrets' : secrets'[s] \in SecretRows /\ secrets'[s].endpoint \in DOMAIN endpoints'
    BY <1>1
  <2>4. \A s, t \in DOMAIN secrets' :
          secrets'[s].endpoint = secrets'[t].endpoint /\ secrets'[s].state = secrets'[t].state =>
            s = t \/ secrets'[s].state = "purged"
    BY <1>1 DEF SecretsInv, RowsInv
  <2> QED BY <2>1, <2>2, <2>3, <2>4 DEF RowsInv
<1>3. FreshInv'
  BY <1>1 DEF SecretsInv, FreshInv
<1>4. RotatingInv'
  BY <1>1 DEF SecretsInv, RotatingInv, At, Running
<1> QED BY <1>2, <1>3, <1>4 DEF SecretsInv

\* A rotation moves; only under the lock of its endpoint does it change secrets.
LEMMA RotationMoves ==
  ASSUME ClosingInv, SecretsInv, NEW r \in Rotation, NEW call \in CallRecords,
         calls' = [calls EXCEPT ![r] = call], UNCHANGED <<now, endpoints, secrets, workspace>>,
         calls[r].pc # "done", call.time <= now,
         call.pc \in {"begun", "keyed", "rotated"} => call.overlap \in Nat,
         call.pc = "rotated" =>
           /\ \A x \in Rotation \ {r} : ~HoldsEndpoint(x, call.endpoint)
           /\ \A s \in DOMAIN secrets :
                secrets[s].endpoint = call.endpoint /\ secrets[s].state = "retiring" =>
                  secrets[s].retireAt <= now
  PROVE  SecretsInv'
<1>1. calls'[r] = call /\ \A x \in Rotation \ {r} : calls'[x] = calls[x]
  BY DEF ClosingInv, PurgeTypeOK
<1>2. RowsInv'
  BY DEF SecretsInv, RowsInv, OverlapKept
<1>3. FreshInv'
  BY <1>1 DEF SecretsInv, FreshInv
<1>4. RotatingInv'
  <2>1. \A x \in Rotation : /\ calls'[x].time <= now
                            /\ calls'[x].pc \in {"begun", "keyed", "rotated"} => calls'[x].overlap \in Nat
    BY <1>1 DEF SecretsInv, RotatingInv, Running
  <2>2. ASSUME NEW x \in Rotation, NEW y \in Rotation, calls'[x].pc = "rotated",
               calls'[y].pc = "rotated", calls'[x].endpoint = calls'[y].endpoint
        PROVE  x = y
    BY <1>1, <2>2 DEF SecretsInv, RotatingInv, At, HoldsEndpoint
  <2>3. ASSUME NEW x \in Rotation, NEW s \in DOMAIN secrets, calls'[x].pc = "rotated",
               secrets[s].endpoint = calls'[x].endpoint, secrets[s].state = "retiring"
        PROVE  secrets[s].retireAt <= now
    BY <1>1, <2>3 DEF SecretsInv, RotatingInv, At
  <2> QED BY <2>1, <2>2, <2>3 DEF SecretsInv, RotatingInv, At, Running
<1> QED BY <1>2, <1>3, <1>4 DEF SecretsInv

\* The shape of the calls, with their times.
LEMMA TimesKept ==
  ASSUME ClosingInv, SecretsInv, NEW r \in Rotation
  PROVE  /\ IdleCall("done").time = 0
         /\ \A pc \in {"keyed", "rotated"} :
              /\ [calls[r] EXCEPT !.pc = pc].time = calls[r].time
              /\ [calls[r] EXCEPT !.pc = pc].overlap = calls[r].overlap
<1>1. calls[r] \in CallRecords
  BY CallShapes
<1> QED BY <1>1 DEF IdleCall, CallRecords

\* A rotation commits: the new secret is active, the active one retires, and the
\* retiring one, whose time is over, is purged.
LEMMA RotationCommits ==
  ASSUME ClosingInv, SecretsInv, NEW r \in Rotation, CommitRotation(r), UNCHANGED workspace
  PROVE  SecretsInv'
<1> DEFINE e == calls[r].endpoint
<1>1. PICK call : call = IdleCall("done")
  OBVIOUS
<1>2. /\ call \in CallRecords /\ call.pc = "done" /\ calls' = [calls EXCEPT ![r] = call]
      /\ calls[r] \in CallRecords /\ calls \in [Rotation -> CallRecords]
  BY <1>1, CallShapes DEF CommitRotation, Finish
<1>3. calls'[r] = call /\ \A x \in Rotation \ {r} : calls'[x] = calls[x]
  BY <1>2
<1>4. /\ now \in Int /\ calls[r].time \in Int /\ calls[r].overlap \in Nat /\ calls[r].time <= now
      /\ e \in Endpoint /\ EndpointActive(e) /\ workspace = "active" /\ At(r, "rotated")
      /\ UNCHANGED <<now, endpoints>> /\ r \notin DOMAIN secrets
  BY <1>2 DEF CommitRotation, ClosingInv, PurgeTypeOK, RotationHolds, CallRecords, SecretsInv,
       RotatingInv, FreshInv, At, EndpointActive, Running
<1>5. DOMAIN secrets' = DOMAIN secrets \cup {r} /\ secrets'[r] = Row(e, "active", 0)
  BY <1>4 DEF CommitRotation, Rotated, SecretsOf
<1>6. ASSUME NEW s \in DOMAIN secrets
      PROVE  /\ secrets[s].endpoint = e /\ secrets[s].state = "retiring" =>
                  secrets'[s] = [secrets[s] EXCEPT !.state = "purged"]
             /\ secrets[s].endpoint = e /\ secrets[s].state = "active" =>
                  secrets'[s] = Row(e, "retiring", calls[r].time + calls[r].overlap)
             /\ secrets[s].endpoint # e \/ secrets[s].state = "purged" => secrets'[s] = secrets[s]
  BY <1>4, <1>6 DEF CommitRotation, Rotated, SecretsOf
<1>7. ASSUME NEW s \in DOMAIN secrets
      PROVE  /\ secrets'[s] \in SecretRows /\ secrets'[s].endpoint = secrets[s].endpoint
             /\ secrets[s].endpoint = e /\ secrets[s].state = "retiring" =>
                  secrets'[s].state = "purged" /\ secrets'[s].retireAt = secrets[s].retireAt
             /\ secrets[s].endpoint = e /\ secrets[s].state = "active" => secrets'[s].state = "retiring"
             /\ secrets[s].endpoint # e \/ secrets[s].state = "purged" => secrets'[s] = secrets[s]
  <2>1. secrets[s] \in SecretRows
    BY DEF SecretsInv, RowsInv
  <2>2. CASE secrets[s].endpoint = e /\ secrets[s].state = "retiring"
    BY <1>6, <2>1, <2>2 DEF SecretRows
  <2>3. CASE secrets[s].endpoint = e /\ secrets[s].state = "active"
    <3>1. calls[r].time + calls[r].overlap \in Int
      BY <1>4
    <3>2. e \in Endpoint
      BY <1>4
    <3>3. \A t \in Int : Row(e, "retiring", t) \in SecretRows
      BY <3>2 DEF SecretRows, Row
    <3>4. Row(e, "retiring", calls[r].time + calls[r].overlap) \in SecretRows
      BY <3>1, <3>3
    <3>5. secrets'[s] = Row(e, "retiring", calls[r].time + calls[r].overlap)
      BY <1>6, <2>3
    <3>6. \A t : Row(e, "retiring", t).endpoint = e /\ Row(e, "retiring", t).state = "retiring"
      BY DEF Row
    <3>7. secrets'[s].endpoint = e /\ secrets'[s].state = "retiring"
      BY <3>5, <3>6
    <3>8. secrets'[s] \in SecretRows
      BY <3>4, <3>5
    <3> QED BY <2>3, <3>7, <3>8
  <2>4. CASE secrets[s].endpoint # e \/ secrets[s].state = "purged"
    BY <1>6, <2>1, <2>4
  <2> QED BY <2>1, <2>2, <2>3, <2>4 DEF SecretRows
<1>8. secrets'[r] \in SecretRows /\ secrets'[r].endpoint = e /\ secrets'[r].state = "active"
  BY <1>4, <1>5 DEF SecretRows, Row
<1>9. RowsInv'
  <2>1. \A s \in DOMAIN secrets' : secrets'[s] \in SecretRows /\ secrets'[s].endpoint \in DOMAIN endpoints'
    BY <1>4, <1>5, <1>7, <1>8 DEF SecretsInv, RowsInv, EndpointActive
  <2>2. OverlapKept'
    <3>1. ASSUME NEW s \in DOMAIN secrets, secrets'[s].state = "purged"
          PROVE  secrets'[s].retireAt <= now
      <4>1. secrets[s] \in SecretRows
        BY DEF SecretsInv, RowsInv
      <4>2. CASE secrets[s].state = "retiring" /\ secrets[s].endpoint = e
        BY <1>4, <1>7, <4>2 DEF SecretsInv, RotatingInv
      <4>3. CASE secrets[s].endpoint # e \/ secrets[s].state = "purged"
        BY <1>7, <3>1, <4>3 DEF SecretsInv, RowsInv, OverlapKept
      <4> QED BY <1>7, <3>1, <4>1, <4>2, <4>3 DEF SecretRows
    <3> QED BY <1>4, <1>5, <1>8, <3>1 DEF OverlapKept
  <2>3. ASSUME NEW s \in DOMAIN secrets, NEW t \in DOMAIN secrets,
               secrets'[s].endpoint = secrets'[t].endpoint, secrets'[s].state = secrets'[t].state,
               secrets'[s].state # "purged"
        PROVE  s = t
    <3>1. secrets[s].endpoint = secrets[t].endpoint /\ secrets[s] \in SecretRows /\ secrets[t] \in SecretRows
      BY <1>7, <2>3 DEF SecretsInv, RowsInv
    <3>2. secrets[s].state = secrets[t].state /\ secrets[s].state # "purged"
      BY <1>7, <2>3, <3>1 DEF SecretRows
    <3> QED BY <3>1, <3>2 DEF SecretsInv, RowsInv
  <2>4. ASSUME NEW s \in DOMAIN secrets, secrets'[s].endpoint = e PROVE secrets'[s].state # "active"
    BY <1>7, <2>4 DEF SecretsInv, RowsInv, SecretRows
  <2>5. \A s, t \in DOMAIN secrets' :
          secrets'[s].endpoint = secrets'[t].endpoint /\ secrets'[s].state = secrets'[t].state =>
            s = t \/ secrets'[s].state = "purged"
    BY <1>5, <1>8, <2>3, <2>4
  <2>6. ASSUME NEW x \in DOMAIN endpoints', endpoints'[x] = "active"
        PROVE  \E s \in DOMAIN secrets' : secrets'[s].endpoint = x /\ secrets'[s].state = "active"
    <3>1. CASE x = e
      BY <1>5, <1>8, <3>1
    <3>2. CASE x # e
      <4>1. PICK s \in DOMAIN secrets : secrets[s].endpoint = x /\ secrets[s].state = "active"
        BY <1>4, <2>6 DEF SecretsInv, RowsInv
      <4> QED BY <1>5, <1>7, <3>2, <4>1
    <3> QED BY <3>1, <3>2
  <2> QED BY <2>1, <2>2, <2>5, <2>6 DEF RowsInv
<1>10. FreshInv'
  <2>1. \A s \in DOMAIN secrets' : s \in Rotation \/ s = secrets'[s].endpoint
    BY <1>5, <1>7 DEF SecretsInv, FreshInv
  <2> QED BY <1>2, <1>3, <1>4, <1>5, <2>1 DEF SecretsInv, FreshInv
<1>11. RotatingInv'
  <2>1. call.time = 0
    BY <1>1 DEF IdleCall
  <2>2. \A x \in Rotation : /\ calls'[x].time <= now
                            /\ calls'[x].pc \in {"begun", "keyed", "rotated"} => calls'[x].overlap \in Nat
    BY <1>2, <1>3, <2>1 DEF SecretsInv, RotatingInv, Running
  <2>3. ASSUME NEW x \in Rotation, calls'[x].pc = "rotated"
        PROVE  x # r /\ calls'[x] = calls[x] /\ calls[x].endpoint # e
    BY <1>2, <1>3, <1>4, <2>3 DEF SecretsInv, RotatingInv, At
  <2>4. ASSUME NEW x \in Rotation, NEW s \in DOMAIN secrets', calls'[x].pc = "rotated",
               secrets'[s].endpoint = calls'[x].endpoint, secrets'[s].state = "retiring"
        PROVE  secrets'[s].retireAt <= now
    <3>1. s # r /\ secrets[s].endpoint # e /\ s \in DOMAIN secrets
      BY <1>5, <1>7, <1>8, <2>3, <2>4
    <3> QED BY <1>7, <2>3, <2>4, <3>1 DEF SecretsInv, RotatingInv, At
  <2> QED BY <1>4, <2>2, <2>3, <2>4 DEF SecretsInv, RotatingInv, At, Running
<1> QED BY <1>9, <1>10, <1>11 DEF SecretsInv

\* Every step of a rotation keeps the invariant.
LEMMA RotationSecrets ==
  ASSUME ClosingInv, SecretsInv, UNCHANGED <<workspaceVars, events, writers, pass>>,
         RotationBegins \/ RotationStep
  PROVE  SecretsInv'
<1> USE DEF workspaceVars, tables, claimVars
<1>1. PICK r \in Rotation :
        \/ \E e \in DOMAIN endpoints, k \in Key, o \in Overlap : BeginRotation(r, e, k, o)
        \/ RepeatRotation(r) \/ TakeKey(r) \/ RefuseRotation(r) \/ Rotate(r)
        \/ CommitRotation(r) \/ AbortRotation(r)
  BY Zenon DEF RotationBegins, RotationStep
<1>2. now \in Int /\ now >= 0 /\ calls[r].time \in Int /\ calls[r].time <= now
  BY CallShapes DEF ClosingInv, PurgeTypeOK, CallRecords, SecretsInv, RotatingInv
<1>3. CASE \E e \in DOMAIN endpoints, k \in Key, o \in Overlap : BeginRotation(r, e, k, o)
  <2>1. PICK e \in DOMAIN endpoints, k \in Key, o \in Overlap : BeginRotation(r, e, k, o)
    BY <1>3
  <2>2. PICK call : call = [pc |-> "begun", endpoint |-> e, key |-> k, overlap |-> o, time |-> now]
    OBVIOUS
  <2>3. /\ calls' = [calls EXCEPT ![r] = call] /\ call.pc = "begun"
        /\ call.time = now /\ call.overlap = o /\ calls[r].pc # "done"
        /\ UNCHANGED <<now, endpoints, secrets>>
    BY <2>1, <2>2 DEF BeginRotation, At
  <2>4. call \in CallRecords
    <3>1. e \in Endpoint /\ now \in Int
      BY DEF ClosingInv, PurgeTypeOK
    <3> QED BY <2>2, <3>1 DEF CallRecords
  <2>5. o \in Nat
    <3>1. o \in Overlap /\ Overlap \subseteq Nat
      BY SecretAssumption
    <3> QED BY <3>1
  <2>6. call.time <= now /\ call.pc # "rotated" /\ calls[r].pc # "done" /\ call.overlap \in Nat
    BY <1>2, <2>3, <2>5
  <2>7. calls' = [calls EXCEPT ![r] = call] /\ UNCHANGED <<now, endpoints, secrets, workspace>>
    BY <2>3
  <2> QED BY <2>4, <2>6, <2>7, RotationMoves
<1>4. CASE TakeKey(r)
  <2>1. PICK call : call = [calls[r] EXCEPT !.pc = "keyed"]
    OBVIOUS
  <2>2. /\ calls' = [calls EXCEPT ![r] = call] /\ call \in CallRecords /\ call.pc = "keyed"
        /\ call.time = calls[r].time /\ call.overlap = calls[r].overlap
        /\ UNCHANGED <<now, endpoints, secrets>> /\ calls[r].pc = "begun"
    BY <1>4, <2>1, CallShapes, TimesKept DEF TakeKey, At
  <2> QED BY <1>2, <2>2, RotationMoves DEF SecretsInv, RotatingInv, Running
<1>5. CASE Rotate(r)
  <2>1. PICK call : call = [calls[r] EXCEPT !.pc = "rotated"]
    OBVIOUS
  <2>2. /\ calls' = [calls EXCEPT ![r] = call] /\ call \in CallRecords /\ call.pc = "rotated"
        /\ call.time = calls[r].time /\ call.overlap = calls[r].overlap
        /\ call.endpoint = calls[r].endpoint
        /\ UNCHANGED <<now, endpoints, secrets>> /\ calls[r].pc = "keyed"
    BY <1>5, <2>1, CallShapes, TimesKept DEF Rotate, At
  <2>3. \A x \in Rotation : ~HoldsEndpoint(x, call.endpoint)
    BY <1>5, <2>2 DEF Rotate, EndpointFree
  <2>4. ASSUME NEW s \in DOMAIN secrets, secrets[s].endpoint = call.endpoint,
               secrets[s].state = "retiring"
        PROVE  secrets[s].retireAt <= now
    <3>1. secrets[s].retireAt \in Int
      BY DEF SecretsInv, RowsInv, SecretRows
    <3>2. ~(secrets[s].retireAt > calls[r].time)
      BY <1>5, <2>2, <2>4 DEF Rotate, InOverlap, SecretsOf
    <3> QED BY <1>2, <3>1, <3>2
  <2> QED BY <1>2, <2>2, <2>3, <2>4, RotationMoves DEF SecretsInv, RotatingInv, Running
<1>6. CASE RepeatRotation(r) \/ RefuseRotation(r) \/ AbortRotation(r)
  <2>1. PICK call : call = IdleCall("done")
    OBVIOUS
  <2>2. /\ call \in CallRecords /\ call.pc = "done" /\ call.time = 0
        /\ calls' = [calls EXCEPT ![r] = call] /\ calls[r].pc # "done"
        /\ UNCHANGED <<now, endpoints, secrets>>
    BY <1>6, <2>1, CallShapes, TimesKept DEF RepeatRotation, RefuseRotation, AbortRotation, Finish, At,
         Running
  <2> QED BY <1>2, <2>2, RotationMoves
<1> QED BY <1>1, <1>3, <1>4, <1>5, <1>6, RotationCommits

\* An endpoint that is created comes with its secret.
LEMMA CreationSecrets ==
  ASSUME ClosingInv, SecretsInv, NEW e \in Endpoint, e \in Writer, CommitEndpoint(e)
  PROVE  SecretsInv'
<1> USE DEF secretVars, tables, claimVars, workspaceVars
<1>1. /\ e \notin Event /\ e \notin Rotation /\ e \notin DOMAIN endpoints
      /\ UNCHANGED <<now, calls, workspace>>
  BY SecretAssumption, PurgeAssumption DEF CommitEndpoint, Wait, ClosingInv, KnownInv, Known, Writer, Secret
<1>2. e \notin DOMAIN secrets
  BY <1>1 DEF SecretsInv, FreshInv, RowsInv
<1>3. /\ DOMAIN endpoints' = DOMAIN endpoints \cup {e}
      /\ \A x \in DOMAIN endpoints : endpoints'[x] = endpoints[x]
      /\ DOMAIN secrets' = DOMAIN secrets \cup {e} /\ secrets'[e] = Row(e, "active", 0)
      /\ \A s \in DOMAIN secrets : secrets'[s] = secrets[s]
  BY <1>1, <1>2 DEF CommitEndpoint, Insert
<1>4. secrets'[e] \in SecretRows /\ secrets'[e].endpoint = e /\ secrets'[e].state = "active"
  BY <1>3 DEF Row, SecretRows
<1>5. \A s \in DOMAIN secrets : secrets[s].endpoint # e
  BY <1>1 DEF SecretsInv, RowsInv
<1>6. RowsInv'
  <2>1. \A s \in DOMAIN secrets' : secrets'[s] \in SecretRows /\ secrets'[s].endpoint \in DOMAIN endpoints'
    BY <1>3, <1>4 DEF SecretsInv, RowsInv
  <2>2. OverlapKept'
    BY <1>1, <1>3, <1>4 DEF SecretsInv, RowsInv, OverlapKept
  <2>3. \A s, t \in DOMAIN secrets' :
          secrets'[s].endpoint = secrets'[t].endpoint /\ secrets'[s].state = secrets'[t].state =>
            s = t \/ secrets'[s].state = "purged"
    BY <1>3, <1>4, <1>5 DEF SecretsInv, RowsInv
  <2>4. workspace = "active" =>
          \A x \in DOMAIN endpoints' : endpoints'[x] = "active" =>
            \E s \in DOMAIN secrets' : secrets'[s].endpoint = x /\ secrets'[s].state = "active"
    BY <1>3, <1>4 DEF SecretsInv, RowsInv
  <2> QED BY <1>1, <2>1, <2>2, <2>3, <2>4 DEF RowsInv
<1>7. FreshInv'
  <2>1. \A s \in DOMAIN secrets' : s \in Rotation \/ s = secrets'[s].endpoint
    BY <1>3, <1>4 DEF SecretsInv, FreshInv
  <2> QED BY <1>1, <1>3, <2>1 DEF SecretsInv, FreshInv
<1>8. RotatingInv'
  BY <1>1, <1>3, <1>4 DEF SecretsInv, RotatingInv, At, Running
<1> QED BY <1>6, <1>7, <1>8 DEF SecretsInv

\* Every step keeps the invariant.
LEMMA SecretsStep == ClosingInv /\ SecretsInv /\ [Next]_vars => SecretsInv'
<1> SUFFICES ASSUME ClosingInv, SecretsInv, [Next]_vars PROVE SecretsInv'
  OBVIOUS
<1> USE DEF secretVars, tables, claimVars, workspaceVars
<1>1. now \in Int
  BY DEF ClosingInv, PurgeTypeOK
<1>2. CASE UNCHANGED <<now, endpoints, secrets, calls>> /\ (workspace' = "active" => workspace = "active")
  BY <1>1, <1>2, SecretsKept
<1>3. CASE SecretStep /\ UNCHANGED <<workspaceVars, events, writers, pass>>
  <2>1. CASE Tick
    BY <1>1, <1>3, <2>1, SecretsKept DEF Tick
  <2>2. CASE ClaimStep
    BY <1>2, <1>3, <2>2 DEF ClaimStep, StartClaim, FinishClaim, GiveUpClaim
  <2> QED BY <1>3, <2>1, <2>2, RotationSecrets DEF SecretStep
<1>4. ASSUME NEW w \in Writer, BeginWrite(w) \/ CheckPolicy(w) \/ WriteStep(w)
      PROVE  SecretsInv'
  <2>1. CASE w \in Endpoint /\ CommitEndpoint(w)
    BY <2>1, CreationSecrets
  <2>2. CASE BeginWrite(w) \/ CheckPolicy(w) \/ InsertRow(w) \/ AbortWrite(w) \/ CommitEvent(w)
    BY <1>2, <2>2 DEF BeginWrite, CheckPolicy, InsertRow, AbortWrite, CommitEvent
  <2> QED BY <1>4, <2>1, <2>2 DEF WriteStep
<1>5. CASE RequestStep
  <2>1. CASE CommitRequest
    BY <1>1, <2>1, SecretsKept DEF CommitRequest
  <2> QED BY <1>2, <1>5, <2>1 DEF RequestStep, BeginRequest, CloseEndpoint, AbortRequest
<1>6. CASE PurgeSecrets
  <2>1. PICK S \in SUBSET Expired(now) : PurgeRetired(S) /\ UNCHANGED workspace
    BY <1>6 DEF PurgeSecrets, PurgeRetired
  <2>2. /\ UNCHANGED <<now, calls, endpoints, workspace>> /\ DOMAIN secrets' = DOMAIN secrets
        /\ \A s \in DOMAIN secrets :
             secrets'[s] = IF s \in S THEN [secrets[s] EXCEPT !.state = "purged"] ELSE secrets[s]
    BY <2>1 DEF PurgeRetired
  <2>3. \A s \in S : secrets[s].state = "retiring" /\ secrets[s].retireAt <= now
    BY DEF Expired
  <2> QED BY <2>2, <2>3, SecretsPurged DEF SecretsInv, RowsInv
<1>7. CASE PurgeRows
  <2>1. UNCHANGED <<now, calls, workspace>> /\ workspace # "active" /\ DeleteBatch(Stage)
    BY <1>7 DEF PurgeRows, ClosingInv
  <2>2. /\ DOMAIN secrets' \subseteq DOMAIN secrets /\ DOMAIN endpoints' \subseteq DOMAIN endpoints
        /\ \A s \in DOMAIN secrets' : secrets'[s] = secrets[s] /\ UNCHANGED endpoints
    BY <2>1 DEF DeleteBatch, Keep
  <2> QED BY <2>1, <2>2, SecretsPurged DEF SecretsInv, RowsInv
<1>8. CASE PassStep \/ FailPass
  BY <1>2, <1>6, <1>7, <1>8 DEF PassStep, FailPass, StartPass, PurgeOthers, WorkspaceStep,
       DeleteWorkspace, NoJob, Backlog
<1>9. CASE UNCHANGED vars
  BY <1>2, <1>9 DEF vars
<1> QED BY <1>3, <1>4, <1>5, <1>8, <1>9 DEF Next

\* The first state satisfies the invariant.
LEMMA SecretsInitial == Init => SecretsInv
<1> SUFFICES ASSUME Init PROVE SecretsInv
  OBVIOUS
<1>1. /\ now = 0 /\ DOMAIN endpoints = Initial /\ DOMAIN secrets = Initial
      /\ \A e \in Initial : endpoints[e] = "active" /\ secrets[e] = Row(e, "active", 0)
      /\ \A r \in Rotation : calls[r].pc = "new" /\ calls[r].time = 0
  BY DEF Init, SecretInit, IdleCall
<1>2. \A e \in Initial : /\ Row(e, "active", 0) \in SecretRows
                         /\ Row(e, "active", 0).endpoint = e /\ Row(e, "active", 0).state = "active"
  BY SecretAssumption DEF SecretRows, Row
<1>3. RowsInv
  BY <1>1, <1>2 DEF RowsInv, OverlapKept
<1>4. FreshInv
  <2>1. \A r \in Rotation : r \notin Initial
    BY SecretAssumption
  <2> QED BY <1>1, <1>2, <2>1 DEF FreshInv
<1>5. RotatingInv
  BY <1>1 DEF RotatingInv, At, Running
<1> QED BY <1>3, <1>4, <1>5 DEF SecretsInv

\* A secret that was replaced is kept until its overlap is over, although the purge,
\* the next rotation and the repetition of a command all look at it.
THEOREM OverlapIsKept == Spec => []OverlapKept
<1>1. SecretsInv => OverlapKept
  BY DEF SecretsInv, RowsInv
<1> QED BY <1>1, SecretsInitial, SecretsStep, ClosingInitial, ClosingStep, PTL DEF Spec

\* While the workspace is active every active endpoint has one active secret; no
\* endpoint ever has two that are active or two that retire.
THEOREM SecretsUnique == Spec => []OneActiveSecret
<1>1. ASSUME SecretsInv PROVE OneActiveSecret
  <2>1. ASSUME NEW e, NEW state \in {"active", "retiring"}
        PROVE  SecretsOf(e, state) = {} \/ \E s \in SecretsOf(e, state) : SecretsOf(e, state) = {s}
    BY <1>1 DEF SecretsInv, RowsInv, SecretsOf
  <2>2. ASSUME NEW e, NEW state \in {"active", "retiring"}
        PROVE  Cardinality(SecretsOf(e, state)) <= 1
    <3>1. CASE SecretsOf(e, state) = {}
      BY <3>1, FS_EmptySet
    <3>2. CASE \E s \in SecretsOf(e, state) : SecretsOf(e, state) = {s}
      <4>1. Cardinality(SecretsOf(e, state)) = 1
        BY <3>2, FS_Singleton
      <4> QED BY <4>1
    <3> QED BY <2>1, <3>1, <3>2
  <2>3. workspace = "active" =>
          \A e \in DOMAIN endpoints : endpoints[e] = "active" => SecretsOf(e, "active") # {}
    BY <1>1 DEF SecretsInv, RowsInv, SecretsOf
  <2> QED BY <2>2, <2>3 DEF OneActiveSecret
<1> QED BY <1>1, SecretsInitial, SecretsStep, ClosingInitial, ClosingStep, PTL DEF Spec

=============================================================================
