------------------------- MODULE ClaimCapacityProofs -------------------------
(***************************************************************************)
(* Proofs that concurrent claims respect the capacity of an endpoint and   *)
(* that each has the effect of one step, for any number of workers,        *)
(* deliveries, endpoints and any limits.                                   *)
(*                                                                         *)
(* The argument: a transaction holds the locks of the endpoint of every    *)
(* row it has leased and not committed, and no lock has two holders, so    *)
(* the transaction that holds an endpoint's lock counts every lease of the *)
(* endpoint, the uncommitted ones included.                                *)
(***************************************************************************)
EXTENDS ClaimRotation, FiniteSetTheorems, TLAPS

USE CapacityAssumption

\* The leases of an endpoint are finitely many, and fewer leases count less.
LEMMA FewerLeases ==
  ASSUME NEW S \in SUBSET Delivery, NEW T \in SUBSET S
  PROVE  /\ IsFiniteSet(S)
         /\ Cardinality(S) \in Nat
         /\ Cardinality(T) \in Nat
         /\ Cardinality(T) <= Cardinality(S)
<1>1. IsFiniteSet(S)
  BY FS_Subset
<1>2. IsFiniteSet(T) /\ Cardinality(T) <= Cardinality(S)
  BY <1>1, FS_Subset
<1> QED
  BY <1>1, <1>2, FS_CardinalityType

\* The endpoints' capacity holds after a step that adds no lease.
LEMMA NoNewLease ==
  ASSUME TypeOK, TypeOK', EndpointCapacity,
         \A ep \in Endpoint : AllLeases(ep)' \subseteq AllLeases(ep)
  PROVE  EndpointCapacity'
<1> SUFFICES ASSUME NEW ep \in Endpoint
             PROVE  Cardinality(AllLeases(ep)') <= MaxConcurrency
  BY DEF EndpointCapacity, AllLeases, OfEndpoint
<1>1. AllLeases(ep) \subseteq Delivery
  BY DEF AllLeases, OfEndpoint, TypeOK
<1>2. Cardinality(AllLeases(ep)) \in Nat /\ Cardinality(AllLeases(ep)') \in Nat
      /\ Cardinality(AllLeases(ep)') <= Cardinality(AllLeases(ep))
  BY <1>1, FewerLeases
<1>3. Cardinality(AllLeases(ep)) <= MaxConcurrency
  BY DEF EndpointCapacity
<1> QED
  BY <1>2, <1>3

LEMMA CapacityInit == Init => CapacityInv
<1> SUFFICES ASSUME Init PROVE CapacityInv
  OBVIOUS
<1>1. TypeOK
  BY DEF Init, TypeOK, RowState
<1>2. LookingBeforeLastMiss /\ LocksHeld
  BY DEF Init, LookingBeforeLastMiss, LocksHeld
<1>3. \A ep \in Endpoint : AllLeases(ep) = {}
  BY DEF Init, AllLeases, OfEndpoint
<1>4. EndpointCapacity
  BY <1>3, FS_EmptySet DEF EndpointCapacity
<1> QED
  BY <1>1, <1>2, <1>4 DEF CapacityInv

LEMMA LookInv ==
  ASSUME CapacityInv, NEW w \in Worker, Look(w)
  PROVE  CapacityInv'
<1>1. TypeOK'
  BY DEF CapacityInv, Look, TypeOK, Candidates
<1>2. LookingBeforeLastMiss'
  BY DEF CapacityInv, TypeOK, LookingBeforeLastMiss, Look
<1>3. LocksHeld'
  BY DEF CapacityInv, LocksHeld, Look, Claimable
<1>4. EndpointCapacity'
  BY DEF CapacityInv, EndpointCapacity, AllLeases, OfEndpoint, Look
<1> QED
  BY <1>1, <1>2, <1>3, <1>4 DEF CapacityInv

\* A transaction that holds the lock of an endpoint counts all its leases.
LEMMA CountIsComplete ==
  ASSUME CapacityInv, NEW w \in Worker, NEW ep \in Endpoint,
         ep \notin LockedByOthers(w)
  PROVE  AllLeases(ep) = CountedLeases(w, ep)
<1>1. ASSUME NEW v \in Worker \ {w}, NEW d \in taken[v]
      PROVE  EndpointOf[d] # ep
  BY <1>1 DEF CapacityInv, LocksHeld, RowsOf, LockedByOthers
<1> QED
  BY <1>1 DEF AllLeases, CountedLeases, OfEndpoint

\* A step of w that locks more rows, none of them held by others, and leases
\* none keeps the invariant.
LEMMA KeptLocks ==
  ASSUME CapacityInv, NEW w \in Worker,
         NEW S \in SUBSET (Delivery \cup Endpoint \cup Workspace),
         S \cap LockedByOthers(w) = {},
         locks' = [locks EXCEPT ![w] = locks[w] \cup S]
  PROVE  /\ locks' \in [Worker -> SUBSET (Delivery \cup Endpoint \cup Workspace)]
         /\ \A v \in Worker : locks[v] \subseteq locks'[v]
         /\ locks'[w] = locks[w] \cup S
         /\ \A v, u \in Worker : v # u => locks'[v] \cap locks'[u] = {}
<1>1. /\ \A v \in Worker \ {w} : locks'[v] = locks[v] /\ S \cap locks[v] = {}
      /\ locks'[w] = locks[w] \cup S
  BY DEF CapacityInv, TypeOK, LockedByOthers
<1>2. \A v, u \in Worker : v # u => locks'[v] \cap locks'[u] = {}
  BY <1>1 DEF CapacityInv, LocksHeld
<1> QED
  BY <1>1, <1>2 DEF CapacityInv, TypeOK

LEMMA RowsAreRows ==
  ASSUME NEW d \in Delivery
  PROVE  RowsOf(d) \subseteq Delivery \cup Endpoint \cup Workspace
BY DEF RowsOf

LEMMA PassOverInv ==
  ASSUME CapacityInv, NEW w \in Worker, NEW d \in Delivery, NEW kept \in SUBSET RowsOf(d),
         PassOver(w, d, kept)
  PROVE  CapacityInv'
<1> USE DEF CapacityInv, PassOver
<1>1. kept \in SUBSET (Delivery \cup Endpoint \cup Workspace) /\ kept \cap LockedByOthers(w) = {}
  BY RowsAreRows
<1>2. /\ locks' \in [Worker -> SUBSET (Delivery \cup Endpoint \cup Workspace)]
      /\ \A v \in Worker : locks[v] \subseteq locks'[v]
      /\ \A v, u \in Worker : v # u => locks'[v] \cap locks'[u] = {}
  BY <1>1, KeptLocks
<1>3. TypeOK'
  BY <1>2 DEF TypeOK
<1>4. LookingBeforeLastMiss'
  BY DEF LookingBeforeLastMiss
<1>5. LocksHeld'
  BY <1>2 DEF LocksHeld, Claimable
<1>6. EndpointCapacity'
  BY DEF EndpointCapacity, AllLeases, OfEndpoint
<1> QED
  BY <1>3, <1>4, <1>5, <1>6

LEMMA TakeInv ==
  ASSUME CapacityInv, NEW w \in Worker, NEW d \in Delivery, Take(w, d)
  PROVE  CapacityInv'
<1> USE DEF CapacityInv
<1>1. /\ looking[w]
      /\ RowsOf(d) \cap LockedByOthers(w) = {}
      /\ Claimable(d)
      /\ looking' = [looking EXCEPT ![w] = FALSE]
      /\ view' = [view EXCEPT ![w] = {}]
      /\ locks' = [locks EXCEPT ![w] = locks[w] \cup RowsOf(d)]
      /\ row' = row
  BY DEF Take, Obtainable, EndSelect
<1>2. /\ locks' \in [Worker -> SUBSET (Delivery \cup Endpoint \cup Workspace)]
      /\ \A v \in Worker : locks[v] \subseteq locks'[v]
      /\ locks'[w] = locks[w] \cup RowsOf(d)
      /\ \A v, u \in Worker : v # u => locks'[v] \cap locks'[u] = {}
  BY <1>1, RowsAreRows, KeptLocks
<1>3. misses[w] < MaxMisses
  BY <1>1 DEF LookingBeforeLastMiss
<1>4. CASE ~HasCapacity(w, EndpointOf[d])
  <2>1. /\ misses' = [misses EXCEPT ![w] = misses[w] + 1]
        /\ taken' = taken
    BY <1>4 DEF Take, Miss
  <2>2. TypeOK'
    BY <1>1, <1>2, <1>3, <2>1 DEF TypeOK
  <2>3. LookingBeforeLastMiss'
    BY <1>1, <2>1 DEF LookingBeforeLastMiss, TypeOK
  <2>4. LocksHeld'
    BY <1>1, <1>2, <2>1 DEF LocksHeld, Claimable
  <2>5. EndpointCapacity'
    BY <1>1, <2>1 DEF EndpointCapacity, AllLeases, OfEndpoint
  <2> QED
    BY <2>2, <2>3, <2>4, <2>5
<1>5. CASE HasCapacity(w, EndpointOf[d])
  <2>1. /\ taken' = [taken EXCEPT ![w] = taken[w] \cup {d}]
        /\ misses' = [misses EXCEPT ![w] = 0]
    BY <1>5 DEF Take
  <2>2. TypeOK'
    BY <1>1, <1>2, <2>1 DEF TypeOK
  <2>3. LookingBeforeLastMiss'
    BY <1>1, <2>1 DEF LookingBeforeLastMiss, TypeOK
  <2>4. LocksHeld'
    <3>1. \A v \in Worker : \A e \in taken'[v] : e \in taken[v] \/ (v = w /\ e = d)
      BY <2>1 DEF TypeOK
    <3>2. \A v \in Worker : \A e \in taken'[v] : RowsOf(e) \subseteq locks'[v] /\ Claimable(e)
      BY <1>1, <1>2, <3>1 DEF LocksHeld
    <3> QED
      BY <1>1, <1>2, <3>2 DEF LocksHeld, Claimable
  <2>5. EndpointCapacity'
    <3> SUFFICES ASSUME NEW ep \in Endpoint
                 PROVE  Cardinality(AllLeases(ep)') <= MaxConcurrency
      BY DEF EndpointCapacity, AllLeases, OfEndpoint
    <3>1. UNION {taken'[v] : v \in Worker} = {d} \cup UNION {taken[v] : v \in Worker}
      BY <2>1 DEF TypeOK
    <3>2. AllLeases(ep) \subseteq Delivery
      BY DEF AllLeases, OfEndpoint, TypeOK
    <3>3. CASE ep # EndpointOf[d]
      <4>1. AllLeases(ep)' = AllLeases(ep)
        BY <1>1, <3>1, <3>3 DEF AllLeases, OfEndpoint
      <4> QED
        BY <4>1 DEF EndpointCapacity
    <3>4. CASE ep = EndpointOf[d]
      <4>1. AllLeases(ep)' = AllLeases(ep) \cup {d}
        BY <1>1, <3>1, <3>4 DEF AllLeases, OfEndpoint
      <4>2. AllLeases(ep) = CountedLeases(w, ep)
        <5>1. ep \notin LockedByOthers(w)
          BY <1>1, <3>4 DEF RowsOf
        <5> QED
          BY <5>1, CountIsComplete
      <4>3. Cardinality(AllLeases(ep)) < MaxConcurrency
        BY <1>5, <3>4, <4>2 DEF HasCapacity
      <4>4. IsFiniteSet(AllLeases(ep)) /\ Cardinality(AllLeases(ep)) \in Nat
        BY <3>2, FewerLeases
      <4>5. Cardinality(AllLeases(ep)') \in {Cardinality(AllLeases(ep)), Cardinality(AllLeases(ep)) + 1}
        BY <4>1, <4>4, FS_AddElement
      <4> QED
        BY <4>3, <4>4, <4>5
    <3> QED
      BY <3>3, <3>4
  <2> QED
    BY <2>2, <2>3, <2>4, <2>5
<1> QED
  BY <1>4, <1>5

LEMMA FindNoneInv ==
  ASSUME CapacityInv, NEW w \in Worker, FindNone(w)
  PROVE  CapacityInv'
<1> USE DEF CapacityInv, FindNone, EndSelect, Miss
<1>1. misses[w] < MaxMisses
  BY DEF LookingBeforeLastMiss
<1>2. TypeOK'
  BY <1>1 DEF TypeOK
<1>3. LookingBeforeLastMiss'
  BY DEF LookingBeforeLastMiss, TypeOK
<1>4. LocksHeld'
  BY DEF LocksHeld, Claimable
<1>5. EndpointCapacity'
  BY DEF EndpointCapacity, AllLeases, OfEndpoint
<1> QED
  BY <1>2, <1>3, <1>4, <1>5

LEMMA CommitInv ==
  ASSUME CapacityInv, NEW w \in Worker, Commit(w)
  PROVE  CapacityInv'
<1> USE DEF CapacityInv, Commit, EndCall, EndSelect
<1>1. TypeOK'
  BY DEF TypeOK, RowState
<1>2. LookingBeforeLastMiss'
  BY DEF TypeOK, LookingBeforeLastMiss
<1>3. LocksHeld'
  <2>1. \A v \in Worker \ {w} : taken[v] \cap taken[w] = {}
    BY DEF LocksHeld, RowsOf
  <2>2. \A v \in Worker \ {w} : taken'[v] = taken[v] /\ locks'[v] = locks[v]
    BY DEF TypeOK
  <2>3. taken'[w] = {} /\ locks'[w] = {}
    BY DEF TypeOK
  <2>4. \A v \in Worker : \A d \in taken'[v] : RowsOf(d) \subseteq locks'[v] /\ row'[d] \in {"ready", "expired"}
    BY <2>1, <2>2, <2>3 DEF LocksHeld, Claimable, TypeOK
  <2>5. \A v, u \in Worker : v # u => locks'[v] \cap locks'[u] = {}
    BY <2>2, <2>3 DEF LocksHeld
  <2> QED
    BY <2>4, <2>5 DEF LocksHeld, Claimable
<1>4. \A ep \in Endpoint : AllLeases(ep)' \subseteq AllLeases(ep)
  BY DEF AllLeases, OfEndpoint, TypeOK
<1> QED
  BY <1>1, <1>2, <1>3, <1>4, NoNewLease

LEMMA AbortInv ==
  ASSUME CapacityInv, NEW w \in Worker, Abort(w)
  PROVE  CapacityInv'
<1> USE DEF CapacityInv, Abort, EndCall, EndSelect
<1>1. TypeOK'
  BY DEF TypeOK
<1>2. LookingBeforeLastMiss'
  BY DEF TypeOK, LookingBeforeLastMiss
<1>3. LocksHeld'
  BY DEF TypeOK, LocksHeld, Claimable
<1>4. \A ep \in Endpoint : AllLeases(ep)' \subseteq AllLeases(ep)
  BY DEF AllLeases, OfEndpoint, TypeOK
<1> QED
  BY <1>1, <1>2, <1>3, <1>4, NoNewLease

\* The steps of other transactions: a row that no claim has leased changes, and
\* no row becomes live.
LEMMA RowChangeInv ==
  ASSUME CapacityInv, UNCHANGED <<taken, locks, looking, view, misses>>,
         NEW d \in Delivery, NEW state \in RowState \ {"live"},
         row' = [row EXCEPT ![d] = state],
         Claimable(d)' \/ \A w \in Worker : d \notin taken[w]
  PROVE  CapacityInv'
<1> USE DEF CapacityInv
<1>1. TypeOK'
  BY DEF TypeOK
<1>2. LookingBeforeLastMiss'
  BY DEF LookingBeforeLastMiss
<1>3. LocksHeld'
  <2> SUFFICES ASSUME NEW w \in Worker, NEW e \in taken[w] PROVE row'[e] \in {"ready", "expired"}
    BY DEF LocksHeld, Claimable
  <2>1. e \in Delivery /\ row[e] \in {"ready", "expired"}
    BY DEF LocksHeld, Claimable, TypeOK
  <2> QED
    BY <2>1 DEF TypeOK, Claimable
<1>4. \A ep \in Endpoint : AllLeases(ep)' \subseteq AllLeases(ep)
  BY DEF AllLeases, OfEndpoint, TypeOK
<1> QED
  BY <1>1, <1>2, <1>3, <1>4, NoNewLease

\* A row that no transaction has locked has been leased by none.
LEMMA UnlockedUntaken ==
  ASSUME CapacityInv, NEW d \in Delivery, Unlocked(d)
  PROVE  \A w \in Worker : d \notin taken[w]
BY DEF CapacityInv, LocksHeld, RowsOf, Unlocked

LEMMA CapacityNext == CapacityInv /\ [Next]_vars => CapacityInv'
<1> SUFFICES ASSUME CapacityInv, [Next]_vars PROVE CapacityInv'
  OBVIOUS
<1>1. ASSUME NEW w \in Worker, Look(w) PROVE CapacityInv'
  BY <1>1, LookInv
<1>2. ASSUME NEW w \in Worker, NEW d \in Delivery, Take(w, d) PROVE CapacityInv'
  BY <1>2, TakeInv
<1>9. ASSUME NEW w \in Worker, NEW d \in Delivery, NEW kept \in SUBSET RowsOf(d), PassOver(w, d, kept)
      PROVE  CapacityInv'
  BY <1>9, PassOverInv
<1>10. ASSUME NEW w \in Worker, FindNone(w) PROVE CapacityInv'
  BY <1>10, FindNoneInv
<1>3. ASSUME NEW w \in Worker, Commit(w) PROVE CapacityInv'
  BY <1>3, CommitInv
<1>4. ASSUME NEW w \in Worker, Abort(w) PROVE CapacityInv'
  BY <1>4, AbortInv
<1>5. ASSUME NEW d \in Delivery, LeaseExpires(d) PROVE CapacityInv'
  <2>1. Claimable(d)'
    BY <1>5 DEF LeaseExpires, Claimable, CapacityInv, TypeOK
  <2> QED
    BY <1>5, <2>1, RowChangeInv DEF LeaseExpires, RowState
<1>6. ASSUME NEW d \in Delivery, Close(d) PROVE CapacityInv'
  <2>1. \A w \in Worker : d \notin taken[w]
    BY <1>6, UnlockedUntaken DEF Close
  <2> QED
    BY <1>6, <2>1, RowChangeInv DEF Close, RowState
<1>7. ASSUME NEW d \in Delivery, Reopen(d) PROVE CapacityInv'
  <2>1. \A w \in Worker : d \notin taken[w]
    BY <1>7, UnlockedUntaken DEF Reopen
  <2> QED
    BY <1>7, <2>1, RowChangeInv DEF Reopen, RowState
<1>8. CASE UNCHANGED vars
  BY <1>8 DEF vars, CapacityInv, TypeOK, LookingBeforeLastMiss, LocksHeld, Claimable,
              EndpointCapacity, AllLeases, OfEndpoint
<1> QED
  BY <1>1, <1>2, <1>3, <1>4, <1>5, <1>6, <1>7, <1>8, <1>9, <1>10 DEF Next

-----------------------------------------------------------------------------
\* The inductive invariant holds in every state claim transactions can reach.
THEOREM CapacityInvariant == Spec => []CapacityInv
<1>1. Init => CapacityInv
  BY CapacityInit
<1>2. CapacityInv /\ [Next]_vars => CapacityInv'
  BY CapacityNext
<1> QED
  BY <1>1, <1>2, PTL DEF Spec

\* Concurrent claims never give an endpoint more live leases than its
\* max_concurrency (claim_one_delivery's second count, 000004:102-105).
THEOREM CapacityRespected == Spec => []EndpointCapacity
<1>1. CapacityInv => EndpointCapacity
  BY DEF CapacityInv
<1> QED
  BY <1>1, CapacityInvariant, PTL

\* Concurrent claims never lease one delivery twice (FOR UPDATE SKIP LOCKED in
\* select_delivery_candidate, 000003:66).
THEOREM NoDoubleLease == Spec => []LeasedOnce
<1>1. CapacityInv => LeasedOnce
  BY DEF CapacityInv, LocksHeld, LeasedOnce, RowsOf, Claimable
<1> QED
  BY <1>1, CapacityInvariant, PTL

-----------------------------------------------------------------------------
(* A call has the effect of one step: ClaimCapacity implements ClaimContract. *)

\* The limits of one call: what it has leased, and what it may still add.
Within(S) ==
  /\ Cardinality(S) <= BatchLimit
  /\ \A ws \in Workspace : Cardinality(OfWorkspace(S, ws)) <= WorkspaceLimit
  /\ \A ep \in Endpoint : Cardinality(OfEndpoint(S, ep)) <= EndpointLimit

RoomFor(S, d) ==
  /\ Cardinality(OfWorkspace(S, WorkspaceOf[EndpointOf[d]])) < WorkspaceLimit
  /\ Cardinality(OfEndpoint(S, EndpointOf[d])) < EndpointLimit

CallWithin(w) ==
  /\ Within(taken[w])
  /\ looking[w] => Cardinality(taken[w]) < BatchLimit
  /\ \A d \in view[w] : RoomFor(taken[w], d)

\* A call stays within its limits: while its select runs, nothing is added to what it
\* has leased, so there is room for any candidate of the snapshot.
LimitsKept == \A w \in Worker : CallWithin(w)

AtomicInv == CapacityInv /\ LimitsKept

\* The parts of a set of deliveries count no more than the set.
LEMMA PartsCount ==
  ASSUME NEW S \in SUBSET Delivery
  PROVE  /\ Cardinality(S) \in Nat
         /\ \A ws : Cardinality(OfWorkspace(S, ws)) \in Nat
         /\ \A ep : Cardinality(OfEndpoint(S, ep)) \in Nat
BY FewerLeases DEF OfWorkspace, OfEndpoint

\* One delivery more adds one at most to each of the counts, and none to those of
\* other workspaces and endpoints.
LEMMA OneMore ==
  ASSUME NEW S \in SUBSET Delivery, NEW d \in Delivery
  PROVE  /\ Cardinality(S \cup {d}) <= Cardinality(S) + 1
         /\ \A ws : Cardinality(OfWorkspace(S \cup {d}, ws)) <=
                      Cardinality(OfWorkspace(S, ws)) + (IF ws = WorkspaceOf[EndpointOf[d]] THEN 1 ELSE 0)
         /\ \A ep : Cardinality(OfEndpoint(S \cup {d}, ep)) <=
                      Cardinality(OfEndpoint(S, ep)) + (IF ep = EndpointOf[d] THEN 1 ELSE 0)
<1>1. ASSUME NEW T \in SUBSET Delivery
      PROVE  Cardinality(T \cup {d}) <= Cardinality(T) + 1
  <2>1. IsFiniteSet(T) /\ Cardinality(T) \in Nat
    BY FewerLeases
  <2>2. Cardinality(T \cup {d}) \in {Cardinality(T), Cardinality(T) + 1}
    BY <2>1, FS_AddElement
  <2> QED
    BY <2>1, <2>2
<1>2. ASSUME NEW ws
      PROVE  Cardinality(OfWorkspace(S \cup {d}, ws)) <=
               Cardinality(OfWorkspace(S, ws)) + (IF ws = WorkspaceOf[EndpointOf[d]] THEN 1 ELSE 0)
  <2>1. OfWorkspace(S, ws) \in SUBSET Delivery /\ Cardinality(OfWorkspace(S, ws)) \in Nat
    BY PartsCount DEF OfWorkspace
  <2>2. CASE ws = WorkspaceOf[EndpointOf[d]]
    <3>1. OfWorkspace(S \cup {d}, ws) = OfWorkspace(S, ws) \cup {d}
      BY <2>2 DEF OfWorkspace
    <3> QED
      BY <1>1, <2>1, <2>2, <3>1
  <2>3. CASE ws # WorkspaceOf[EndpointOf[d]]
    <3>1. OfWorkspace(S \cup {d}, ws) = OfWorkspace(S, ws)
      BY <2>3 DEF OfWorkspace
    <3> QED
      BY <2>1, <2>3, <3>1
  <2> QED
    BY <2>2, <2>3
<1>3. ASSUME NEW ep
      PROVE  Cardinality(OfEndpoint(S \cup {d}, ep)) <=
               Cardinality(OfEndpoint(S, ep)) + (IF ep = EndpointOf[d] THEN 1 ELSE 0)
  <2>1. OfEndpoint(S, ep) \in SUBSET Delivery /\ Cardinality(OfEndpoint(S, ep)) \in Nat
    BY PartsCount DEF OfEndpoint
  <2>2. CASE ep = EndpointOf[d]
    <3>1. OfEndpoint(S \cup {d}, ep) = OfEndpoint(S, ep) \cup {d}
      BY <2>2 DEF OfEndpoint
    <3> QED
      BY <1>1, <2>1, <2>2, <3>1
  <2>3. CASE ep # EndpointOf[d]
    <3>1. OfEndpoint(S \cup {d}, ep) = OfEndpoint(S, ep)
      BY <2>3 DEF OfEndpoint
    <3> QED
      BY <2>1, <2>3, <3>1
  <2> QED
    BY <2>2, <2>3
<1> QED
  BY <1>1, <1>2, <1>3

\* A call that has leased nothing is within its limits.
LEMMA NothingIsWithin == Within({})
<1>1. Cardinality({}) = 0
  BY FS_EmptySet
<1>2. \A x : OfWorkspace({}, x) = {} /\ OfEndpoint({}, x) = {}
  BY DEF OfWorkspace, OfEndpoint
<1> QED
  BY <1>1, <1>2 DEF Within

\* What is within the limits and has room for a delivery is so with it.
LEMMA WithOneMore ==
  ASSUME NEW S \in SUBSET Delivery, NEW d \in Delivery,
         Within(S), Cardinality(S) < BatchLimit, RoomFor(S, d)
  PROVE  Within(S \cup {d})
<1>1. S \cup {d} \in SUBSET Delivery
  OBVIOUS
<1>2. Cardinality(S \cup {d}) <= BatchLimit
  BY <1>1, OneMore, PartsCount
<1>3. ASSUME NEW ws \in Workspace
      PROVE  Cardinality(OfWorkspace(S \cup {d}, ws)) <= WorkspaceLimit
  <2>1. Cardinality(OfWorkspace(S, ws)) \in Nat /\ Cardinality(OfWorkspace(S \cup {d}, ws)) \in Nat
    BY <1>1, PartsCount
  <2>2. Cardinality(OfWorkspace(S \cup {d}, ws)) <=
          Cardinality(OfWorkspace(S, ws)) + (IF ws = WorkspaceOf[EndpointOf[d]] THEN 1 ELSE 0)
    BY OneMore
  <2>3. /\ Cardinality(OfWorkspace(S, ws)) <= WorkspaceLimit
        /\ ws = WorkspaceOf[EndpointOf[d]] => Cardinality(OfWorkspace(S, ws)) < WorkspaceLimit
    BY DEF Within, RoomFor
  <2> QED
    BY <2>1, <2>2, <2>3
<1>4. ASSUME NEW ep \in Endpoint
      PROVE  Cardinality(OfEndpoint(S \cup {d}, ep)) <= EndpointLimit
  <2>1. Cardinality(OfEndpoint(S, ep)) \in Nat /\ Cardinality(OfEndpoint(S \cup {d}, ep)) \in Nat
    BY <1>1, PartsCount
  <2>2. Cardinality(OfEndpoint(S \cup {d}, ep)) <=
          Cardinality(OfEndpoint(S, ep)) + (IF ep = EndpointOf[d] THEN 1 ELSE 0)
    BY OneMore
  <2>3. /\ Cardinality(OfEndpoint(S, ep)) <= EndpointLimit
        /\ ep = EndpointOf[d] => Cardinality(OfEndpoint(S, ep)) < EndpointLimit
    BY DEF Within, RoomFor
  <2> QED
    BY <2>1, <2>2, <2>3
<1> QED
  BY <1>2, <1>3, <1>4 DEF Within

\* A step of one call leaves the others within their limits.
LEMMA OtherCalls ==
  ASSUME AtomicInv, NEW w \in Worker, CallWithin(w)',
         \A v \in Worker \ {w} : /\ taken'[v] = taken[v]
                                 /\ looking'[v] = looking[v]
                                 /\ view'[v] = view[v]
  PROVE  LimitsKept'
<1>1. \A v \in Worker : CallWithin(v)
  BY DEF AtomicInv, LimitsKept
<1>2. \A v \in Worker \ {w} : CallWithin(v)'
  BY <1>1 DEF CallWithin
<1> QED
  BY <1>2 DEF LimitsKept

LEMMA AtomicInit == Init => AtomicInv
<1> SUFFICES ASSUME Init PROVE LimitsKept
  BY CapacityInit DEF AtomicInv
<1>1. \A w \in Worker : taken[w] = {} /\ ~looking[w] /\ view[w] = {}
  BY DEF Init
<1> QED
  BY <1>1, NothingIsWithin DEF LimitsKept, CallWithin

\* Every step keeps the calls within their limits.
LEMMA AtomicNext == AtomicInv /\ [Next]_vars => AtomicInv'
<1> SUFFICES ASSUME AtomicInv, [Next]_vars PROVE LimitsKept'
  BY CapacityNext DEF AtomicInv
<1>0. TypeOK /\ \A w \in Worker : CallWithin(w)
  BY DEF AtomicInv, LimitsKept, CapacityInv
<1>1. ASSUME NEW w \in Worker, Look(w) PROVE LimitsKept'
  <2>1. /\ taken' = taken /\ Cardinality(taken[w]) < BatchLimit
        /\ view'[w] = Candidates(w)
        /\ \A v \in Worker \ {w} : looking'[v] = looking[v] /\ view'[v] = view[v]
    BY <1>0, <1>1 DEF Look, TypeOK
  <2>2. \A d \in Candidates(w) : RoomFor(taken[w], d)
    BY DEF Candidates, RoomFor
  <2>3. CallWithin(w)'
    BY <1>0, <2>1, <2>2 DEF CallWithin
  <2> QED
    BY <2>1, <2>3, OtherCalls
<1>2. ASSUME NEW w \in Worker, NEW d \in Delivery, NEW kept \in SUBSET RowsOf(d), PassOver(w, d, kept)
      PROVE  LimitsKept'
  <2>1. /\ taken' = taken /\ looking' = looking
        /\ view'[w] \subseteq view[w]
        /\ \A v \in Worker \ {w} : view'[v] = view[v]
    BY <1>0, <1>2 DEF PassOver, TypeOK
  <2>2. CallWithin(w)'
    BY <1>0, <2>1 DEF CallWithin
  <2> QED
    BY <2>1, <2>2, OtherCalls
<1>3. ASSUME NEW w \in Worker, NEW d \in Delivery, Take(w, d) PROVE LimitsKept'
  <2>1. /\ looking[w] /\ d \in view[w]
        /\ ~looking'[w] /\ view'[w] = {}
        /\ \A v \in Worker \ {w} : looking'[v] = looking[v] /\ view'[v] = view[v]
    BY <1>0, <1>3 DEF Take, EndSelect, TypeOK
  <2>2. CASE ~HasCapacity(w, EndpointOf[d])
    <3>1. taken' = taken
      BY <1>3, <2>2 DEF Take, Miss
    <3>2. CallWithin(w)'
      BY <1>0, <2>1, <3>1 DEF CallWithin
    <3> QED
      BY <2>1, <3>1, <3>2, OtherCalls
  <2>3. CASE HasCapacity(w, EndpointOf[d])
    <3>1. taken'[w] = taken[w] \cup {d} /\ \A v \in Worker \ {w} : taken'[v] = taken[v]
      BY <1>0, <1>3, <2>3 DEF Take, TypeOK
    <3>2. Within(taken[w] \cup {d})
      <4>1. taken[w] \in SUBSET Delivery
        BY <1>0 DEF TypeOK
      <4>2. Within(taken[w]) /\ Cardinality(taken[w]) < BatchLimit /\ RoomFor(taken[w], d)
        BY <1>0, <2>1 DEF CallWithin
      <4> QED
        BY <4>1, <4>2, WithOneMore
    <3>3. CallWithin(w)'
      BY <2>1, <3>1, <3>2 DEF CallWithin
    <3> QED
      BY <2>1, <3>1, <3>3, OtherCalls
  <2> QED
    BY <2>2, <2>3
<1>4. ASSUME NEW w \in Worker, FindNone(w) PROVE LimitsKept'
  <2>1. /\ taken' = taken /\ ~looking'[w] /\ view'[w] = {}
        /\ \A v \in Worker \ {w} : looking'[v] = looking[v] /\ view'[v] = view[v]
    BY <1>0, <1>4 DEF FindNone, Miss, EndSelect, TypeOK
  <2>2. CallWithin(w)'
    BY <1>0, <2>1 DEF CallWithin
  <2> QED
    BY <2>1, <2>2, OtherCalls
<1>5. ASSUME NEW w \in Worker, EndCall(w) PROVE LimitsKept'
  <2>1. /\ taken'[w] = {} /\ ~looking'[w] /\ view'[w] = {}
        /\ \A v \in Worker \ {w} : /\ taken'[v] = taken[v]
                                   /\ looking'[v] = looking[v]
                                   /\ view'[v] = view[v]
    BY <1>0, <1>5 DEF EndCall, EndSelect, TypeOK
  <2>2. CallWithin(w)'
    BY <2>1, NothingIsWithin DEF CallWithin
  <2> QED
    BY <2>1, <2>2, OtherCalls
<1>6. CASE UNCHANGED <<taken, looking, view>>
  BY <1>6 DEF AtomicInv, LimitsKept, CallWithin
<1> QED
  BY <1>1, <1>2, <1>3, <1>4, <1>5, <1>6 DEF Next, vars, Commit, Abort, LeaseExpires, Close, Reopen

\* The contract counts as the calls do.
LEMMA SameCounts ==
  \A S, x : /\ Contract!OfEndpoint(S, x) = OfEndpoint(S, x)
            /\ Contract!OfWorkspace(S, x) = OfWorkspace(S, x)
            /\ Contract!Cardinality(S) = Cardinality(S)
BY DEF Contract!OfEndpoint, Contract!OfWorkspace, OfEndpoint, OfWorkspace,
       Contract!Cardinality, Cardinality

\* When a call commits, what it has leased may be claimed at once.
LEMMA CommitIsClaim ==
  ASSUME AtomicInv, NEW w \in Worker, Commit(w)
  PROVE  Contract!Claim(taken[w]) /\ taken[w] \in SUBSET Delivery
<1>1. TypeOK /\ taken[w] \in SUBSET Delivery
  BY DEF AtomicInv, CapacityInv, TypeOK
<1>2. taken[w] \subseteq Contract!Eligible
  BY <1>1 DEF AtomicInv, CapacityInv, LocksHeld, Claimable, Contract!Eligible
<1>3. Within(taken[w])
  BY DEF AtomicInv, LimitsKept, CallWithin
<1>4. ASSUME NEW ep \in Endpoint
      PROVE  Cardinality(Contract!LiveLeases(ep)) + Cardinality(OfEndpoint(taken[w], ep)) <= MaxConcurrency
  <2> DEFINE L == Contract!LiveLeases(ep)
             T == OfEndpoint(taken[w], ep)
  <2>1. L = OfEndpoint({d \in Delivery : row[d] = "live"}, ep)
    BY SameCounts DEF Contract!LiveLeases
  <2>2. L \in SUBSET Delivery /\ T \in SUBSET Delivery /\ L \cap T = {}
    BY <1>1, <1>2, <2>1 DEF OfEndpoint, Contract!Eligible
  <2>3. L \cup T \subseteq AllLeases(ep) /\ AllLeases(ep) \in SUBSET Delivery
    BY <1>1, <2>1 DEF AllLeases, OfEndpoint, TypeOK
  <2>4. Cardinality(AllLeases(ep)) <= MaxConcurrency
    BY DEF AtomicInv, CapacityInv, EndpointCapacity
  <2> HIDE DEF L, T
  <2>5. /\ Cardinality(L \cup T) <= Cardinality(AllLeases(ep))
        /\ Cardinality(L \cup T) \in Nat /\ Cardinality(AllLeases(ep)) \in Nat
    BY <2>3, FewerLeases
  <2>6. /\ IsFiniteSet(L) /\ IsFiniteSet(T)
        /\ Cardinality(L) \in Nat /\ Cardinality(T) \in Nat
    BY <2>2, FewerLeases
  <2>7. Cardinality(L \cup T) = Cardinality(L) + Cardinality(T) - Cardinality(L \cap T)
    BY <2>6, FS_Union
  <2>8. Cardinality(L \cap T) = 0
    BY <2>2, FS_EmptySet
  <2>9. Cardinality(L) + Cardinality(T) <= MaxConcurrency
    BY <2>4, <2>5, <2>6, <2>7, <2>8
  <2> QED
    BY <2>9 DEF L, T
<1>5. Contract!WithinLimits(taken[w])
  <2>1. ASSUME NEW ws \in Workspace
        PROVE  Cardinality(Contract!OfWorkspace(taken[w], ws)) <= WorkspaceLimit
    BY <1>3, SameCounts DEF Within
  <2>2. ASSUME NEW ep \in Endpoint
        PROVE  /\ Cardinality(Contract!OfEndpoint(taken[w], ep)) <= EndpointLimit
               /\ Cardinality(Contract!LiveLeases(ep))
                    + Cardinality(Contract!OfEndpoint(taken[w], ep)) <= MaxConcurrency
    BY <1>3, <1>4, SameCounts DEF Within
  <2>3. Cardinality(taken[w]) <= BatchLimit
    BY <1>3 DEF Within
  <2> QED
    BY <2>1, <2>2, <2>3, SameCounts DEF Contract!WithinLimits
<1> QED
  BY <1>1, <1>2, <1>5 DEF Commit, Contract!Claim

\* Every step of a call is a step of the contract, or none that the rows show.
LEMMA StepIsAtomic == AtomicInv /\ [Next]_vars => [Contract!Next]_row
<1> SUFFICES ASSUME AtomicInv, [Next]_vars PROVE [Contract!Next]_row
  OBVIOUS
<1>1. ASSUME NEW w \in Worker, Commit(w) PROVE Contract!Next
  BY <1>1, CommitIsClaim DEF Contract!Next
<1>2. ASSUME NEW d \in Delivery, LeaseExpires(d) \/ Close(d) \/ Reopen(d) PROVE Contract!Next
  <2>1. row[d] \in RowState
    BY DEF AtomicInv, CapacityInv, TypeOK
  <2>2. Contract!Expire(d) \/ Contract!Close(d) \/ Contract!Reopen(d)
    BY <1>2, <2>1 DEF LeaseExpires, Close, Reopen, RowState, Contract!Expire, Contract!Close,
                      Contract!Reopen, Contract!Change
  <2> QED
    BY <2>2 DEF Contract!Next
<1>3. CASE row' = row
  BY <1>3
<1> QED
  BY <1>1, <1>2, <1>3 DEF Next, vars, Look, PassOver, Take, FindNone, Abort

\* A call of claim_deliveries has the effect of one step, taken when it commits: the
\* one step ClaimDeliveries of DeliveryQueue is.
THEOREM ClaimIsAtomic == Spec => ClaimsAreAtomic
<1>1. Init => Contract!Init
  BY DEF Init, Contract!Init
<1> QED
  BY <1>1, AtomicInit, AtomicNext, StepIsAtomic, PTL DEF Spec, ClaimsAreAtomic, Contract!Spec

-----------------------------------------------------------------------------
\* Trying the candidates in order, least recently claimed first, is one way to
\* try them: what is proved of claims in any order holds of claim_deliveries.
THEOREM RotationIsClaim == RotationSpec => Spec
<1>1. RotationInit => Init
  BY DEF RotationInit
<1>2. ASSUME CapacityInv, [RotationNext]_allVars PROVE [Next]_vars
  <2>1. ASSUME NEW w \in Worker, PassOverForemost(w) PROVE Next
    <3>1. PICK d \in view[w] : PassOver(w, d, LocksTried(w, d))
      BY <2>1 DEF PassOverForemost, Foremost
    <3>2. d \in Delivery /\ LocksTried(w, d) \in SUBSET RowsOf(d)
      BY <1>2, <3>1 DEF PassOver, CapacityInv, TypeOK
    <3> QED
      BY <3>1, <3>2 DEF Next
  <2>2. ASSUME NEW w \in Worker, TakeForemost(w) PROVE Next
    <3>1. PICK d \in view[w] : Take(w, d)
      BY <2>2 DEF TakeForemost, Foremost
    <3>2. d \in Delivery
      BY <1>2 DEF CapacityInv, TypeOK
    <3> QED
      BY <3>1, <3>2 DEF Next
  <2>3. ASSUME NEW w \in Worker,
               LookInOrder(w) \/ TakeNone(w) \/ CommitCursors(w) \/ AbortCursors(w)
        PROVE  Next
    BY <2>3 DEF LookInOrder, TakeNone, CommitCursors, AbortCursors, Next
  <2>4. CASE Surroundings
    BY <2>4 DEF Surroundings, Next
  <2>5. ASSUME NEW ws \in Publishing, BeginPublish(ws) \/ EndPublish(ws) PROVE UNCHANGED vars
    BY <2>5 DEF BeginPublish, EndPublish
  <2>6. CASE UNCHANGED allVars
    BY <2>6 DEF allVars
  <2> QED
    BY <1>2, <2>1, <2>2, <2>3, <2>4, <2>5, <2>6 DEF RotationNext, TrySelect
<1> QED
  BY <1>1, <1>2, CapacityInit, CapacityNext, PTL DEF RotationSpec, Spec

=============================================================================
