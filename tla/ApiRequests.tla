---------------------------- MODULE ApiRequests ----------------------------
(***************************************************************************)
(* POST /v1/events through every layer of the API: the edge limiter in the *)
(* memory of the process, the lookup of the credential, the quota          *)
(* transaction over several dimensions, the scope and the idempotent       *)
(* publication, for concurrent requests of one workspace.  The other       *)
(* routes pass the same layers with another operation and another handler. *)
(*                                                                         *)
(* One action is one critical section of the process or one statement of a *)
(* transaction.  A row that an open transaction has written is locked: the *)
(* statement of another transaction that meets it is not enabled.          *)
(***************************************************************************)
EXTENDS Integers, FiniteSets, Sequences, SequencesExt

CONSTANTS
  Request,        \* HTTP requests, each is served once
  ApiKey,         \* API keys of the workspace, all active at first
  Publisher,      \* the keys with scope events:write
  Revocable,      \* bound: the keys an administrator may revoke
  Origin,         \* socket addresses of clients
  IdemKey,        \* Idempotency-Key values
  Content,        \* bodies, told apart by their fingerprint
  ValidContent,   \* those that decode without repeated keys to an event
  Endpoint,       \* endpoints that may be created, subscribed to the type
  FanoutLimit,    \* 100 in the code
  MaxInFlight,    \* WDE_EDGE_MAX_IN_FLIGHT
  EdgeGlobal, EdgeOrigin, EdgePrefix,  \* limits of the edge limiter
  MaxBuckets,     \* WDE_EDGE_MAX_BUCKETS
  EdgeWindow,     \* length of an edge window, in ticks
  GlobalLimit, WorkspaceLimit, ApiKeyLimit,  \* limits of the ingest quota
  QuotaWindow,    \* length of a quota window, in ticks
  MaxTime         \* bound on the clock of a run

ASSUME ApiAssumption ==
  /\ ApiKey # {} /\ Origin # {} /\ IdemKey # {} /\ Content # {}
  /\ {"global", "workspace"} \cap ApiKey = {}
  /\ ValidContent \subseteq Content
  /\ Publisher \subseteq ApiKey /\ Revocable \subseteq ApiKey
  /\ MaxInFlight \in Nat \ {0} /\ FanoutLimit \in Nat /\ MaxTime \in Nat
  /\ EdgeGlobal \in Nat \ {0} /\ EdgeOrigin \in 1..EdgeGlobal /\ EdgePrefix \in 1..EdgeGlobal
  /\ MaxBuckets \in Nat /\ MaxBuckets >= 2
  /\ EdgeWindow \in Nat \ {0} /\ QuotaWindow \in Nat \ {0}
  /\ GlobalLimit \in Nat \ {0}
  /\ WorkspaceLimit \in 1..GlobalLimit /\ ApiKeyLimit \in 1..WorkspaceLimit

VARIABLES
  now,        \* the clock of process and database
  requests,   \* what the goroutine of each request holds
  edge,       \* the EdgeLimiter: global bucket, LRU order, buckets
  edgeLog,    \* <<request, window>> of the admissions since the process started
  stale,      \* a window was evaluated after a later one
  keys,       \* the active API keys
  buckets,    \* wde.rate_limit_buckets: dimension and window to count
  admitted,   \* [request, key, window] of the quota transactions that committed
  endpoints,  \* the active endpoints
  events,     \* wde.events with the endpoints of their deliveries
  answers     \* the 202 responses a client has received

vars == <<now, requests, edge, edgeLog, stale, keys, buckets, admitted, endpoints, events, answers>>
edgeVars  == <<edge, edgeLog, stale>>
quotaVars == <<buckets, admitted>>
eventVars == <<endpoints, events, answers>>

-----------------------------------------------------------------------------
WindowStart(t, length) == (t \div length) * length

\* A request that has not arrived, or that has been answered.
Idle(pc) == [pc |-> pc, key |-> CHOOSE k \in ApiKey : TRUE, origin |-> CHOOSE o \in Origin : TRUE,
             idem |-> CHOOSE i \in IdemKey : TRUE, content |-> CHOOSE c \in Content : TRUE,
             time |-> 0, dim |-> 0, charged |-> {}, swept |-> {}, fanout |-> {}]

At(r, pc) == requests[r].pc = pc
InFlight == {r \in Request : requests[r].pc \notin {"new", "done"}}

\* The deferred receive from slots, whatever the answer is.
Finish(r) == requests' = [requests EXCEPT ![r] = Idle("done")]
Move(r, pc) == requests' = [requests EXCEPT ![r].pc = pc]

Emptied == [global |-> [start |-> 0, count |-> 0], lru |-> <<>>, items |-> [k \in {} |-> 0]]

Init ==
  /\ now = 0
  /\ requests = [r \in Request |-> Idle("new")]
  /\ edge = Emptied /\ edgeLog = {} /\ stale = FALSE
  /\ keys = ApiKey
  /\ buckets = [b \in {} |-> 0]
  /\ admitted = {}
  /\ endpoints = {} /\ events = {} /\ answers = {}

Tick ==
  /\ now < MaxTime
  /\ now' = now + 1
  /\ UNCHANGED <<requests, edgeVars, keys, quotaVars, eventVars>>

-----------------------------------------------------------------------------
\* EdgeLimiter

\* A slot is taken, and allow reads the clock before it locks the mutex.
Arrive(r, k, o, i, c) ==
  /\ At(r, "new")
  /\ Cardinality(InFlight) < MaxInFlight
  /\ requests' = [requests EXCEPT ![r] =
       [Idle("edge") EXCEPT !.key = k, !.origin = o, !.idem = i, !.content = c, !.time = now]]
  /\ UNCHANGED <<now, edgeVars, keys, quotaVars, eventVars>>

\* Every slot is in use: 429.
Overflow(r) ==
  /\ At(r, "new")
  /\ Cardinality(InFlight) >= MaxInFlight
  /\ Finish(r)
  /\ UNCHANGED <<now, edgeVars, keys, quotaVars, eventVars>>

\* Mutant: a bucket starts from zero whenever it is looked at.
ResetBucketAlways(bucket, w) == [start |-> w, count |-> 0]

ResetBucket(bucket, w) == IF bucket.start = w THEN bucket ELSE [start |-> w, count |-> 0]

\* The buckets that stay when one is wanted: a new one may evict the oldest.
Kept(lim, key) ==
  CASE key \in DOMAIN lim.items -> SelectSeq(lim.lru, LAMBDA x : x # key)
    [] key \notin DOMAIN lim.items /\ Len(lim.lru) >= MaxBuckets -> Front(lim.lru)
    [] OTHER -> lim.lru

\* The bucket of a key, in front of the others.
Touch(lim, key, w) ==
  LET kept == Kept(lim, key)
      found == IF key \in DOMAIN lim.items THEN lim.items[key] ELSE [start |-> w, count |-> 0]
  IN [lim EXCEPT !.lru = <<key>> \o kept,
                 !.items = [x \in ToSet(kept) \cup {key} |->
                              IF x = key THEN ResetBucket(found, w) ELSE lim.items[x]]]

Counted(lim, wanted) ==
  [lim EXCEPT !.global.count = lim.global.count + 1,
              !.items = [x \in DOMAIN lim.items |->
                IF x \in wanted THEN [lim.items[x] EXCEPT !.count = lim.items[x].count + 1]
                ELSE lim.items[x]]]

\* The critical section of allow, with the window of the clock read before it.
\* A refusal keeps what it reset, moved or evicted.
Allow(r) ==
  LET q == requests[r]
      w == WindowStart(q.time, EdgeWindow)
      reset == [edge EXCEPT !.global = ResetBucket(edge.global, w)]
      first == Touch(reset, q.origin, w)
      second == Touch(first, q.key, w)
      globalFull == reset.global.count >= EdgeGlobal
      originFull == first.items[q.origin].count >= EdgeOrigin
      prefixFull == second.items[q.key].count >= EdgePrefix
  IN
  /\ At(r, "edge")
  /\ stale' = (stale \/ w < edge.global.start)
  /\ \/ /\ globalFull
        /\ edge' = reset
        /\ Finish(r) /\ UNCHANGED edgeLog
     \/ /\ ~globalFull /\ originFull
        /\ edge' = first
        /\ Finish(r) /\ UNCHANGED edgeLog
     \/ /\ ~globalFull /\ ~originFull /\ prefixFull
        /\ edge' = second
        /\ Finish(r) /\ UNCHANGED edgeLog
     \/ /\ ~globalFull /\ ~originFull /\ ~prefixFull
        /\ edge' = Counted(second, {q.origin, q.key})
        /\ edgeLog' = edgeLog \cup {<<r, w>>}
        /\ Move(r, "authenticate")
  /\ UNCHANGED <<now, keys, quotaVars, eventVars>>

-----------------------------------------------------------------------------
\* Authentication and administration of keys

\* The row of an active key of an active workspace, if there is one.
LookupKey(k) == k \in keys

\* One statement reads key and workspace; a key that is not active is refused.
Authenticate(r) ==
  /\ At(r, "authenticate")
  /\ IF LookupKey(requests[r].key) THEN Move(r, "authenticated") ELSE Finish(r)
  /\ UNCHANGED <<now, edgeVars, keys, quotaVars, eventVars>>

\* api revoke: requests that are already authenticated are served.
Revoke(k) ==
  /\ k \in keys \cap Revocable
  /\ keys' = keys \ {k}
  /\ UNCHANGED <<now, requests, edgeVars, quotaVars, eventVars>>

-----------------------------------------------------------------------------
\* Quota

\* The dimensions of a request in the order they are consumed.
Dimensions(k) == <<[id |-> "global", limit |-> GlobalLimit],
                   [id |-> "workspace", limit |-> WorkspaceLimit],
                   [id |-> k, limit |-> ApiKeyLimit]>>

Used(b) == IF b \in DOMAIN buckets THEN buckets[b] ELSE 0

\* The rows an open transaction has written are locked.
Held(r) == requests[r].charged \cup requests[r].swept
HeldByOthers(r) == UNION {Held(x) : x \in Request \ {r}}

\* BEGIN fixes transaction_timestamp for every dimension.
BeginQuota(r) ==
  /\ At(r, "authenticated")
  /\ requests' = [requests EXCEPT ![r].pc = "quota", ![r].time = now, ![r].dim = 1]
  /\ UNCHANGED <<now, edgeVars, keys, quotaVars, eventVars>>

ExpiredBuckets(t) == {b \in DOMAIN buckets : b[2] + QuotaWindow <= t}

\* consume_quota for the next dimension: the upsert, and the removal of expired
\* rows, unless a hundred older rows of other workspaces use up its limit.
Consume(r) ==
  LET q == requests[r]
      d == Dimensions(q.key)[q.dim]
      b == <<d.id, WindowStart(q.time, QuotaWindow)>>
  IN
  /\ At(r, "quota")
  /\ b \notin HeldByOthers(r)
  /\ ExpiredBuckets(q.time) \cap HeldByOthers(r) = {}
  /\ Used(b) < d.limit
  /\ \E swept \in {q.swept, q.swept \cup ExpiredBuckets(q.time)} :
       requests' = [requests EXCEPT ![r].charged = q.charged \cup {b}, ![r].swept = swept,
                                    ![r].dim = q.dim + 1,
                                    ![r].pc = IF q.dim = Len(Dimensions(q.key)) THEN "charged" ELSE "quota"]
  /\ UNCHANGED <<now, edgeVars, keys, quotaVars, eventVars>>

\* Mutant: the dimensions consumed before the refusal stay charged.
RefuseQuotaCommitted(r) ==
  LET q == requests[r]
      d == Dimensions(q.key)[q.dim]
      b == <<d.id, WindowStart(q.time, QuotaWindow)>>
  IN
  /\ At(r, "quota")
  /\ b \notin HeldByOthers(r)
  /\ Used(b) >= d.limit
  /\ buckets' = [x \in DOMAIN buckets \cup q.charged |-> Used(x) + (IF x \in q.charged THEN 1 ELSE 0)]
  /\ Finish(r)
  /\ UNCHANGED <<now, edgeVars, keys, admitted, eventVars>>

\* A dimension at its limit: the transaction is rolled back, 429.
RefuseQuota(r) ==
  LET q == requests[r]
      d == Dimensions(q.key)[q.dim]
      b == <<d.id, WindowStart(q.time, QuotaWindow)>>
  IN
  /\ At(r, "quota")
  /\ b \notin HeldByOthers(r)
  /\ Used(b) >= d.limit
  /\ Finish(r)
  /\ UNCHANGED <<now, edgeVars, keys, quotaVars, eventVars>>

\* Every dimension allowed the request: counts and removals commit together.
CommitQuota(r) ==
  LET q == requests[r] IN
  /\ At(r, "charged")
  /\ buckets' = [b \in (DOMAIN buckets \cup q.charged) \ q.swept |->
                   Used(b) + (IF b \in q.charged THEN 1 ELSE 0)]
  /\ admitted' = admitted \cup {[request |-> r, key |-> q.key, window |-> WindowStart(q.time, QuotaWindow)]}
  /\ requests' = [requests EXCEPT ![r].pc = "publish", ![r].time = 0, ![r].dim = 0,
                                  ![r].charged = {}, ![r].swept = {}]
  /\ UNCHANGED <<now, edgeVars, keys, eventVars>>

-----------------------------------------------------------------------------
\* Publication

\* The scope is checked after the quota is charged: 403.
Forbid(r) ==
  /\ At(r, "publish")
  /\ requests[r].key \notin Publisher
  /\ Finish(r)
  /\ UNCHANGED <<now, edgeVars, keys, quotaVars, eventVars>>

\* validateAndCanonicalize: the body decodes, without repeated keys, to an event.
Decodes(content) == content \in ValidContent

\* A body that is no event is refused before the database is asked: 422.
RejectBody(r) ==
  /\ At(r, "publish")
  /\ requests[r].key \in Publisher /\ ~Decodes(requests[r].content)
  /\ Finish(r)
  /\ UNCHANGED <<now, edgeVars, keys, quotaVars, eventVars>>

\* The request reaches the store.
Publishes(r) ==
  /\ At(r, "publish")
  /\ requests[r].key \in Publisher /\ Decodes(requests[r].content)

EventOf(i) == {e \in events : e.idem = i}
Inserting(i) == {r \in Request : requests[r].idem = i /\ requests[r].pc \in {"fanout", "commit"}}

\* Mutant: the key is looked up before the insert, whose conflict is not awaited.
InsertEventUnguarded(r) ==
  /\ Publishes(r)
  /\ EventOf(requests[r].idem) = {}
  /\ Move(r, "fanout")
  /\ UNCHANGED <<now, edgeVars, keys, quotaVars, eventVars>>

\* INSERT ... ON CONFLICT DO NOTHING inserts: no other event has the key, and
\* no open transaction is inserting one.
InsertEvent(r) ==
  /\ Publishes(r)
  /\ Inserting(requests[r].idem) = {}
  /\ EventOf(requests[r].idem) = {}
  /\ Move(r, "fanout")
  /\ UNCHANGED <<now, edgeVars, keys, quotaVars, eventVars>>

Answer(r, e, duplicate) ==
  [request |-> r, idem |-> requests[r].idem, content |-> requests[r].content,
   event |-> e.id, deliveries |-> e.deliveries, duplicate |-> duplicate]

\* The fingerprint of the canonical body is the stored one.
SameFingerprint(e, r) == e.content = requests[r].content

\* The key has an event: its content decides between its deliveries and 409.
FindEvent(r) ==
  /\ Publishes(r)
  /\ \E e \in EventOf(requests[r].idem) :
       answers' = IF SameFingerprint(e, r)
                  THEN answers \cup {Answer(r, e, TRUE)} ELSE answers
  /\ Finish(r)
  /\ UNCHANGED <<now, edgeVars, keys, quotaVars, endpoints, events>>

\* One delivery for each endpoint active now; more than 100 are refused.
Fanout(r) ==
  /\ At(r, "fanout")
  /\ IF Cardinality(endpoints) <= FanoutLimit
     THEN requests' = [requests EXCEPT ![r].pc = "commit", ![r].fanout = endpoints]
     ELSE Finish(r)
  /\ UNCHANGED <<now, edgeVars, keys, quotaVars, eventVars>>

\* The event and its deliveries commit; the 202 follows and may be lost.
CommitPublish(r) ==
  LET q == requests[r]
      e == [id |-> r, idem |-> q.idem, content |-> q.content, deliveries |-> q.fanout]
  IN
  /\ At(r, "commit")
  /\ events' = events \cup {e}
  /\ answers' \in {answers, answers \cup {Answer(r, e, FALSE)}}
  /\ Finish(r)
  /\ UNCHANGED <<now, edgeVars, keys, quotaVars, endpoints>>

\* A malformed request, an error of any statement, a commit
\* that fails, a client that goes away: the open transaction is rolled back.
Fail(r) ==
  /\ r \in InFlight
  /\ Finish(r)
  /\ UNCHANGED <<now, edgeVars, keys, quotaVars, eventVars>>

\* A new endpoint is in the fan-out of the statements that start after it.
CreateEndpoint(ep) ==
  /\ ep \notin endpoints
  /\ endpoints' = endpoints \cup {ep}
  /\ UNCHANGED <<now, requests, edgeVars, keys, quotaVars, events, answers>>

\* The process dies and starts again: its memory and its transactions are gone.
Restart ==
  /\ InFlight # {}
  /\ requests' = [r \in Request |-> IF r \in InFlight THEN Idle("done") ELSE requests[r]]
  /\ edge' = Emptied /\ edgeLog' = {} /\ stale' = FALSE
  /\ UNCHANGED <<now, keys, quotaVars, eventVars>>

Next ==
  \/ Tick \/ Restart
  \/ \E r \in Request, k \in ApiKey, o \in Origin, i \in IdemKey, c \in Content : Arrive(r, k, o, i, c)
  \/ \E k \in ApiKey : Revoke(k)
  \/ \E ep \in Endpoint : CreateEndpoint(ep)
  \/ \E r \in Request :
       \/ Overflow(r) \/ Allow(r) \/ Authenticate(r) \/ BeginQuota(r)
       \/ Consume(r) \/ RefuseQuota(r) \/ CommitQuota(r) \/ Forbid(r) \/ RejectBody(r)
       \/ InsertEvent(r) \/ FindEvent(r) \/ Fanout(r) \/ CommitPublish(r) \/ Fail(r)

Spec == Init /\ [][Next]_vars

-----------------------------------------------------------------------------
AdmittedIn(id, w) ==
  {a \in admitted : a.window = w /\ (id \in {"global", "workspace"} \/ a.key = id)}

\* While a quota window lasts its rows count exactly the requests whose quota
\* transaction committed, and never more than the limit: refusals by a later
\* dimension, failures, restarts and the removal of expired rows included.
QuotaExact ==
  LET w == WindowStart(now, QuotaWindow) IN
  \A k \in ApiKey : \A n \in 1..3 :
    LET d == Dimensions(k)[n] IN
    /\ Used(<<d.id, w>>) = Cardinality(AdmittedIn(d.id, w))
    /\ Used(<<d.id, w>>) <= d.limit

\* All the 202 responses to one idempotency key are about one committed event
\* with one content and the same deliveries, one of them at most is not a
\* duplicate, and no answer precedes its event.
IdempotentPublish ==
  /\ \A e, f \in events : e.idem = f.idem => e = f
  /\ \A a \in answers :
       [id |-> a.event, idem |-> a.idem, content |-> a.content, deliveries |-> a.deliveries] \in events
  /\ \A a, b \in answers : a.idem = b.idem /\ ~a.duplicate /\ ~b.duplicate => a = b

AdmittedAtEdge(w) == {x \in edgeLog : x[2] = w}

\* As long as no window is evaluated after a later one, the edge limiter admits
\* at most its global limit per window, refusals and evictions included.
EdgeLimit == ~stale => \A x \in edgeLog : Cardinality(AdmittedAtEdge(x[2])) <= EdgeGlobal

=============================================================================
