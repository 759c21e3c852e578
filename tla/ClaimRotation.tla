---------------------------- MODULE ClaimRotation ----------------------------
(***************************************************************************)
(* The order in which claim_deliveries tries its candidates, and how far   *)
(* it alternates between workspaces and between endpoints.  ClaimCapacity  *)
(* leaves the order open; here a select tries the candidates of its        *)
(* snapshot one by one, least recently claimed workspace first, then least *)
(* recently claimed endpoint, while other calls go on; and a lease moves   *)
(* both to the end.                                                        *)
(*                                                                         *)
(* delivery_claim_sequence only ever serves to compare, so the values in   *)
(* use are kept as ranks, which makes the instances finite without cutting *)
(* an execution off.                                                       *)
(***************************************************************************)
EXTENDS ClaimCapacity

CONSTANT Publishing  \* bound: the workspaces that publish meanwhile

ASSUME RotationAssumption == Publishing \subseteq Workspace

VARIABLES
  turn,       \* last_delivery_claim_sequence of a workspace or an endpoint
  moved,      \* what a transaction will write there, 0 for nothing
  place,      \* how many candidates of a select come before each of them
  publishing, \* the workspaces whose row a publication locks FOR KEY SHARE
  released,   \* history: the workspaces unlocked by others during a select
  overtaken   \* history: <<a, b>> when a was leased before b, which is due its turn

orderVars == <<turn, moved, place, publishing>>
turnHistory == <<released, overtaken>>
rotationVars == <<orderVars, turnHistory>>
allVars == <<vars, rotationVars>>

-----------------------------------------------------------------------------
Cursor == Workspace \cup Endpoint

RotationInit ==
  /\ Init
  /\ turn = [c \in Cursor |-> 0]
  /\ moved = [w \in Worker |-> [c \in Cursor |-> 0]]
  /\ place = [w \in Worker |-> [d \in Delivery |-> 0]]
  /\ publishing = {}
  /\ released = [w \in Worker |-> {}]
  /\ overtaken = {}

WorkspaceOfDelivery(d) == WorkspaceOf[EndpointOf[d]]

\* The cursors a cursor is compared with.
Peers(c) ==
  IF c \in Workspace THEN Workspace ELSE {ep \in Endpoint : WorkspaceOf[ep] = WorkspaceOf[c]}

\* A statement of w sees its own uncommitted values.
Seen(w, c) == IF moved[w][c] # 0 THEN moved[w][c] ELSE turn[c]

\* ORDER BY the two cursors; next_attempt_at and created_at order the rest, and
\* those are left open here.
Before(w, d, e) ==
  LET ws == WorkspaceOfDelivery(d)
      other == WorkspaceOfDelivery(e)
  IN \/ Seen(w, ws) < Seen(w, other)
     \/ ws = other /\ Seen(w, EndpointOf[d]) < Seen(w, EndpointOf[e])

\* The select takes its snapshot and sorts the rows in it.
LookInOrder(w) ==
  /\ Look(w)
  /\ place' = [place EXCEPT ![w] =
       [d \in Delivery |-> IF d \notin Candidates(w) THEN 0
                           ELSE Cardinality({e \in Candidates(w) : Before(w, e, d)})]]
  /\ UNCHANGED <<turn, moved, publishing, turnHistory>>

Foremost(w) == {d \in view[w] : \A e \in view[w] : place[w][d] <= place[w][e]}

\* The rows others keep w from locking now.
Busy(w) == LockedByOthers(w) \cup publishing

\* SKIP LOCKED gives a candidate up at the first of its rows that is locked, and
\* keeps those it has; a candidate that changed is given up with all its locks.
LocksTried(w, d) ==
  LET ws == WorkspaceOfDelivery(d) IN
  CASE ws \in Busy(w) -> {}
    [] ws \notin Busy(w) /\ d \in Busy(w) -> {ws}
    [] ws \notin Busy(w) /\ d \notin Busy(w) /\ EndpointOf[d] \in Busy(w) -> {ws, d}
    [] OTHER -> RowsOf(d)

Obtains(w, d) == Obtainable(w, d) /\ RowsOf(d) \cap publishing = {}

PassOverForemost(w) ==
  /\ \E d \in Foremost(w) : ~Obtains(w, d) /\ PassOver(w, d, LocksTried(w, d))
  /\ UNCHANGED rotationVars

\* nextval, as ranks: the value is above all that are in use.
Ranked(newTurn, newMoved) ==
  LET InUse(c) == ({newTurn[p] : p \in Peers(c)}
                     \cup {newMoved[v][p] : v \in Worker, p \in Peers(c)}) \ {0}
      Rank(c, n) == Cardinality({u \in InUse(c) : u <= n})
  IN /\ turn' = [c \in Cursor |-> Rank(c, newTurn[c])]
     /\ moved' = [w \in Worker |-> [c \in Cursor |-> Rank(c, newMoved[w][c])]]

NextValue == 1 + Cardinality(Cursor) * (1 + Cardinality(Worker))

\* Mutant: only the cursor of the workspace moves.
AdvanceWorkspaceOnly(w, d) ==
  Ranked(turn, [moved EXCEPT ![w][WorkspaceOfDelivery(d)] = NextValue])

\* The lease takes the next value for its workspace and its endpoint.
Advance(w, d) ==
  Ranked(turn, [moved EXCEPT ![w][WorkspaceOfDelivery(d)] = NextValue, ![w][EndpointOf[d]] = NextValue])

\* The workspaces and endpoints that wait while w leases d: those of the candidates
\* w has not tried and would obtain.  It counts if nobody has unlocked the two
\* workspaces since the snapshot, which shows their cursors then.
Overtakes(w, d) ==
  LET ws == WorkspaceOfDelivery(d)
      passed == {e \in view[w] : Obtains(w, e) /\ WorkspaceOfDelivery(e) \notin released[w]}
      others == {WorkspaceOfDelivery(e) : e \in passed} \ {ws}
      neighbours == {EndpointOf[e] : e \in OfWorkspace(passed, ws)} \ {EndpointOf[d]}
  IN IF ws \in released[w] THEN {} ELSE ({ws} \X others) \cup ({EndpointOf[d]} \X neighbours)

\* What has been leased has had its turn.
HadTurn(d) == {p \in overtaken : p[2] \in RowsOf(d)}

EndOrder(w) ==
  /\ place' = [place EXCEPT ![w] = [d \in Delivery |-> 0]]
  /\ released' = [released EXCEPT ![w] = {}]

Lease(w, d) ==
  /\ HasCapacity(w, EndpointOf[d])
  /\ Advance(w, d)
  /\ overtaken' = (overtaken \ HadTurn(d)) \cup Overtakes(w, d)

TakeForemost(w) ==
  /\ \E d \in Foremost(w) :
       /\ Obtains(w, d)
       /\ Take(w, d)
       /\ \/ Lease(w, d)
          \/ ~HasCapacity(w, EndpointOf[d]) /\ UNCHANGED <<turn, moved, overtaken>>
  /\ EndOrder(w)
  /\ UNCHANGED publishing

TakeNone(w) ==
  /\ FindNone(w)
  /\ EndOrder(w)
  /\ UNCHANGED <<turn, moved, publishing, overtaken>>

NoMove(w) == [moved EXCEPT ![w] = [c \in Cursor |-> 0]]

\* The selects of others meet these workspaces unlocked from now on.
Release(unlocked) ==
  released' = [v \in Worker |-> IF looking'[v] THEN released[v] \cup (unlocked \cap Workspace) ELSE {}]

CommitCursors(w) ==
  /\ Commit(w)
  /\ Ranked([c \in Cursor |-> Seen(w, c)], NoMove(w))
  /\ Release(locks[w])
  /\ UNCHANGED <<place, publishing, overtaken>>

\* The sequence itself does not roll back, the cursors do.
AbortCursors(w) ==
  /\ Abort(w)
  /\ Ranked(turn, NoMove(w))
  /\ place' = [place EXCEPT ![w] = [d \in Delivery |-> 0]]
  /\ Release(locks[w])
  /\ overtaken' = {p \in overtaken : moved[w][p[1]] = 0}
  /\ UNCHANGED publishing

-----------------------------------------------------------------------------
\* Around the claims

\* The insert of an event locks the row of its workspace FOR KEY SHARE, by its
\* foreign key, until its transaction ends; it waits for a claim that holds it.
\* Transactions that overlap keep the row locked as one.
BeginPublish(ws) ==
  /\ ws \notin publishing
  /\ \A w \in Worker : ws \notin locks[w]
  /\ publishing' = publishing \cup {ws}
  /\ UNCHANGED <<vars, turn, moved, place, turnHistory>>

EndPublish(ws) ==
  /\ ws \in publishing
  /\ publishing' = publishing \ {ws}
  /\ UNCHANGED <<vars, turn, moved, place, overtaken>>
  /\ Release({ws})

\* A lease that ends, whatever its result, or runs out, and a delivery that
\* becomes due.
Surroundings ==
  /\ \E d \in Delivery : LeaseExpires(d) \/ Close(d) \/ Reopen(d)
  /\ UNCHANGED rotationVars

TrySelect(w) == PassOverForemost(w) \/ TakeForemost(w) \/ TakeNone(w)

RotationNext ==
  \/ Surroundings
  \/ \E ws \in Publishing : BeginPublish(ws) \/ EndPublish(ws)
  \/ \E w \in Worker : LookInOrder(w) \/ TrySelect(w) \/ CommitCursors(w) \/ AbortCursors(w)

RotationSpec == RotationInit /\ [][RotationNext]_allVars

-----------------------------------------------------------------------------
\* However busy some workspaces and endpoints are, and however calls, cancelled
\* calls and publications overlap: a select that could have leased another workspace
\* or endpoint, but leases this one first, does not do so a second time before the
\* other one has had its turn.  Not so a select during which somebody else unlocks
\* the workspace: it goes by cursors that are out of date, and may take a busy
\* endpoint again and again.
EndpointsAlternate ==
  [][\A w \in Worker : \A d \in taken'[w] \ taken[w] : Overtakes(w, d) \cap overtaken = {}]_allVars

=============================================================================
