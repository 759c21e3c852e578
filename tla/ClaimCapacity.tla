---------------------------- MODULE ClaimCapacity ----------------------------
(***************************************************************************)
(* claim_deliveries under READ COMMITTED, statement by statement: what     *)
(* concurrent claim transactions see of each other, which rows they lock,  *)
(* and why no endpoint ever has more live leases than max_concurrency.     *)
(*                                                                         *)
(* Each iteration of the claim loop runs select_delivery_candidate, whose  *)
(* snapshot is taken before its row locks (Look), tries the candidates of  *)
(* the snapshot in turn (PassOver) until it has locked one (Take), counts  *)
(* the live leases again in a new snapshot, and leases the row.  Nothing   *)
(* of it is visible to others before the commit.                           *)
(*                                                                         *)
(* In which order the candidates are tried is left open here and added by  *)
(* ClaimRotation.                                                          *)
(*                                                                         *)
(* DeliveryQueue takes a whole claim as one step within the limits of the  *)
(* call and the endpoints' capacity; this module is why it may, as it      *)
(* implements ClaimContract.                                               *)
(***************************************************************************)
EXTENDS Integers, FiniteSets

CONSTANTS
  Delivery, Endpoint, Workspace,  \* rows: three disjoint sets
  Worker,          \* the claim calls in progress, one per worker process
  EndpointOf,      \* the endpoint of a delivery
  WorkspaceOf,     \* the workspace of an endpoint
  MaxConcurrency,  \* endpoints.max_concurrency
  BatchLimit,      \* p_limit
  WorkspaceLimit,  \* p_workspace_limit
  EndpointLimit,   \* p_endpoint_limit
  MaxMisses        \* consecutive_misses that end a call, 3 in the code

ASSUME CapacityAssumption ==
  /\ EndpointOf \in [Delivery -> Endpoint]
  /\ WorkspaceOf \in [Endpoint -> Workspace]
  /\ IsFiniteSet(Delivery)
  /\ MaxConcurrency \in Nat \ {0}
  /\ BatchLimit \in Nat \ {0}
  /\ WorkspaceLimit \in 1..BatchLimit /\ EndpointLimit \in 1..BatchLimit
  /\ MaxMisses \in Nat \ {0}

VARIABLES
  row,     \* the committed state of each delivery row
  taken,   \* the deliveries a transaction has leased and not committed
  locks,   \* the rows a transaction has locked
  looking, \* whether a select is between its snapshot and its locks
  view,    \* the candidates in the snapshot of that select
  misses   \* consecutive_misses

vars == <<row, taken, locks, looking, view, misses>>

-----------------------------------------------------------------------------
\* "ready": waiting and due.  "live", "expired": processing under a lease.
\* "closed": terminal, or waiting for next_attempt_at.
RowState == {"ready", "live", "expired", "closed"}

TypeOK ==
  /\ row \in [Delivery -> RowState]
  /\ taken \in [Worker -> SUBSET Delivery]
  /\ locks \in [Worker -> SUBSET (Delivery \cup Endpoint \cup Workspace)]
  /\ looking \in [Worker -> BOOLEAN]
  /\ view \in [Worker -> SUBSET Delivery]
  /\ misses \in [Worker -> 0..MaxMisses]

Init ==
  /\ row = [d \in Delivery |-> "ready"]
  /\ taken = [w \in Worker |-> {}]
  /\ locks = [w \in Worker |-> {}]
  /\ looking = [w \in Worker |-> FALSE]
  /\ view = [w \in Worker |-> {}]
  /\ misses = [w \in Worker |-> 0]

-----------------------------------------------------------------------------
OfEndpoint(S, ep) == {d \in S : EndpointOf[d] = ep}
OfWorkspace(S, ws) == {d \in S : WorkspaceOf[EndpointOf[d]] = ws}

\* The live leases a statement of w counts: the committed ones and its own.
CountedLeases(w, ep) == OfEndpoint({d \in Delivery : row[d] = "live"} \cup taken[w], ep)

HasCapacity(w, ep) == Cardinality(CountedLeases(w, ep)) < MaxConcurrency

Claimable(d) == row[d] \in {"ready", "expired"}

\* The rows that satisfy select_delivery_candidate in a snapshot of now.
Candidates(w) ==
  {d \in Delivery \ taken[w] :
     LET ep == EndpointOf[d] IN
     /\ Claimable(d)
     /\ Cardinality(OfWorkspace(taken[w], WorkspaceOf[ep])) < WorkspaceLimit
     /\ Cardinality(OfEndpoint(taken[w], ep)) < EndpointLimit
     /\ HasCapacity(w, ep)}

\* The rows select_delivery_candidate locks: FOR UPDATE OF w, d, rt.
\* Mutant: the delivery alone.
RowsOfDeliveryOnly(d) == {d}
RowsOf(d) == {d, EndpointOf[d], WorkspaceOf[EndpointOf[d]]}

LockedByOthers(w) == UNION {locks[v] : v \in Worker \ {w}}

\* Mutant: the row is taken as it was in the snapshot.
ObtainableUnchecked(w, d) == RowsOf(d) \cap LockedByOthers(w) = {}

\* No other claim holds a row of the candidate, and in its latest version it can
\* still be claimed: a row that changed since the snapshot is evaluated again.
Obtainable(w, d) == RowsOf(d) \cap LockedByOthers(w) = {} /\ Claimable(d)

\* The select of one iteration takes its snapshot.
Look(w) ==
  /\ ~looking[w]
  /\ misses[w] < MaxMisses
  /\ Cardinality(taken[w]) < BatchLimit
  /\ looking' = [looking EXCEPT ![w] = TRUE]
  /\ view' = [view EXCEPT ![w] = Candidates(w)]
  /\ UNCHANGED <<row, taken, locks, misses>>

EndSelect(w) ==
  /\ looking' = [looking EXCEPT ![w] = FALSE]
  /\ view' = [view EXCEPT ![w] = {}]

Miss(w) ==
  /\ misses' = [misses EXCEPT ![w] = misses[w] + 1]
  /\ UNCHANGED taken

\* The select tries a candidate and passes over it: SKIP LOCKED met a row that
\* another transaction holds, or the row changed.  It locks the rows of a candidate
\* one by one and gives none back, so any part of them may stay locked.
PassOver(w, d, kept) ==
  /\ looking[w]
  /\ d \in view[w]
  /\ kept \subseteq RowsOf(d) \ LockedByOthers(w)
  /\ view' = [view EXCEPT ![w] = view[w] \ {d}]
  /\ locks' = [locks EXCEPT ![w] = locks[w] \cup kept]
  /\ UNCHANGED <<row, taken, looking, misses>>

\* The select returns the candidate it has locked; the leases are counted again;
\* the row is leased, or the locks are kept for nothing.
Take(w, d) ==
  /\ looking[w]
  /\ d \in view[w]
  /\ Obtainable(w, d)
  /\ locks' = [locks EXCEPT ![w] = locks[w] \cup RowsOf(d)]
  /\ IF HasCapacity(w, EndpointOf[d])
     THEN /\ taken' = [taken EXCEPT ![w] = taken[w] \cup {d}]
          /\ misses' = [misses EXCEPT ![w] = 0]
     ELSE Miss(w)
  /\ EndSelect(w)
  /\ UNCHANGED row

\* The select found no candidate it could lock.
FindNone(w) ==
  /\ looking[w]
  /\ view[w] = {}
  /\ Miss(w)
  /\ EndSelect(w)
  /\ UNCHANGED <<row, locks>>

\* The transaction ends: its locks are released, the next call starts afresh.
EndCall(w) ==
  /\ taken' = [taken EXCEPT ![w] = {}]
  /\ locks' = [locks EXCEPT ![w] = {}]
  /\ misses' = [misses EXCEPT ![w] = 0]
  /\ EndSelect(w)

\* The loop is over and the call commits.
Commit(w) ==
  /\ ~looking[w]
  /\ misses[w] = MaxMisses \/ Cardinality(taken[w]) >= BatchLimit
  /\ row' = [d \in Delivery |-> IF d \in taken[w] THEN "live" ELSE row[d]]
  /\ EndCall(w)

\* The claim timeout cancels the statement, or the worker dies.
Abort(w) ==
  /\ EndCall(w)
  /\ UNCHANGED row

-----------------------------------------------------------------------------
\* The other transactions on a delivery row, which wait for its lock.

Unlocked(d) == \A w \in Worker : d \notin locks[w]

LeaseExpires(d) ==
  /\ row[d] = "live"
  /\ row' = [row EXCEPT ![d] = "expired"]
  /\ UNCHANGED <<taken, locks, looking, view, misses>>

\* finalize_delivery of a live lease; the recovery of an exhausted delivery or
\* the purge of its payload in any open state.
Close(d) ==
  /\ row[d] # "closed"
  /\ Unlocked(d)
  /\ row' = [row EXCEPT ![d] = "closed"]
  /\ UNCHANGED <<taken, locks, looking, view, misses>>

\* next_attempt_at comes, or a replay reopens the delivery.
Reopen(d) ==
  /\ row[d] = "closed"
  /\ Unlocked(d)
  /\ row' = [row EXCEPT ![d] = "ready"]
  /\ UNCHANGED <<taken, locks, looking, view, misses>>

Next ==
  \/ \E w \in Worker : Look(w)
  \/ \E w \in Worker, d \in Delivery : \E kept \in SUBSET RowsOf(d) : PassOver(w, d, kept)
  \/ \E w \in Worker, d \in Delivery : Take(w, d)
  \/ \E w \in Worker : FindNone(w)
  \/ \E w \in Worker : Commit(w)
  \/ \E w \in Worker : Abort(w)
  \/ \E d \in Delivery : LeaseExpires(d)
  \/ \E d \in Delivery : Close(d)
  \/ \E d \in Delivery : Reopen(d)

Spec == Init /\ [][Next]_vars

-----------------------------------------------------------------------------
\* The leases of an endpoint, those about to be committed included.
AllLeases(ep) == OfEndpoint({d \in Delivery : row[d] = "live"} \cup UNION {taken[w] : w \in Worker}, ep)

\* However the claims of any number of workers interleave, and however stale
\* the snapshot of a select is when its locks are granted, an endpoint never
\* has more than max_concurrency live leases.
EndpointCapacity == \A ep \in Endpoint : Cardinality(AllLeases(ep)) <= MaxConcurrency

\* A delivery is leased by one transaction at a time, and never while another
\* lease of it is live: no webhook is handed to two workers at once.
LeasedOnce ==
  \A w \in Worker : \A d \in taken[w] :
    /\ row[d] # "live"
    /\ \A v \in Worker \ {w} : d \notin taken[v]

Contract == INSTANCE ClaimContract

\* Although a call runs statement by statement, each with a snapshot of its own,
\* among calls, finalizations, replays and purges that do the same, it has the effect
\* of one step: what it leases can all be claimed when it commits, and is within its
\* limits and the capacity of the endpoints then.  ClaimDeliveries of DeliveryQueue
\* relies on it.
ClaimsAreAtomic == Contract!Spec

\* The invariant behind these: a transaction holds the locks of every row it
\* has leased, and no two transactions hold one lock.
LocksHeld ==
  /\ \A w \in Worker : \A d \in taken[w] : RowsOf(d) \subseteq locks[w] /\ Claimable(d)
  /\ \A v, w \in Worker : v # w => locks[v] \cap locks[w] = {}

\* A call whose select is running has not reached its last miss.
LookingBeforeLastMiss == \A w \in Worker : looking[w] => misses[w] < MaxMisses

\* The inductive invariant.
CapacityInv == TypeOK /\ LookingBeforeLastMiss /\ LocksHeld /\ EndpointCapacity

=============================================================================
