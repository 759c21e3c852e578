------------------------- MODULE ApiRequestsProofs -------------------------
(***************************************************************************)
(* What the layers of the API promise a client and the workspace, for any  *)
(* number of requests at once, any keys and contents, and any limits.      *)
(***************************************************************************)
EXTENDS ApiRequests, FiniteSetTheorems, TLAPS

Pc == {"new", "edge", "authenticate", "authenticated", "quota", "charged", "publish", "fanout",
       "commit", "done"}

DimensionId == {"global", "workspace"} \cup ApiKey
Bucket      == DimensionId \X Int

RequestRecord ==
  [pc : Pc, key : ApiKey, origin : Origin, idem : IdemKey, content : Content, time : Int,
   dim : 0..4, charged : SUBSET Bucket, swept : SUBSET Bucket, fanout : SUBSET Endpoint]

EventRow     == [id : Request, idem : IdemKey, content : Content, deliveries : SUBSET Endpoint]
Admission    == [request : Request, key : ApiKey, window : Int]
AnswerRecord == [request : Request, idem : IdemKey, content : Content, event : Request,
                 deliveries : SUBSET Endpoint, duplicate : BOOLEAN]

ApiTypeOK ==
  /\ now \in Int
  /\ requests \in [Request -> RequestRecord]
  /\ \A r \in Request : requests[r].pc = "quota" => requests[r].dim \in 1..3
  /\ DOMAIN buckets \subseteq Bucket
  /\ \A b \in DOMAIN buckets : buckets[b] \in Int
  /\ admitted \subseteq Admission
  /\ endpoints \subseteq Endpoint
  /\ events \subseteq EventRow
  /\ answers \subseteq AnswerRecord

-----------------------------------------------------------------------------
\* The windows and the records of requests.

LEMMA WindowTypes ==
  ASSUME NEW t \in Int, NEW length \in Nat \ {0}
  PROVE  WindowStart(t, length) \in Int /\ WindowStart(t, length) + length > t
  BY DEF WindowStart

LEMMA IdleType ==
  ASSUME NEW pc \in Pc
  PROVE  /\ Idle(pc) \in RequestRecord /\ Idle(pc).pc = pc
         /\ Idle(pc).charged = {} /\ Idle(pc).swept = {}
  <1>1. /\ (CHOOSE k \in ApiKey : TRUE) \in ApiKey /\ (CHOOSE o \in Origin : TRUE) \in Origin
        /\ (CHOOSE i \in IdemKey : TRUE) \in IdemKey /\ (CHOOSE c \in Content : TRUE) \in Content
    BY ApiAssumption
  <1>2. QED
    BY <1>1 DEF Idle, RequestRecord

LEMMA DimensionTypes ==
  ASSUME NEW k \in ApiKey, NEW n \in 1..3
  PROVE  /\ Dimensions(k)[n].id = IF n = 1 THEN "global" ELSE IF n = 2 THEN "workspace" ELSE k
         /\ Dimensions(k)[n].limit = IF n = 1 THEN GlobalLimit
                                     ELSE IF n = 2 THEN WorkspaceLimit ELSE ApiKeyLimit
         /\ Dimensions(k)[n].id \in DimensionId
         /\ Len(Dimensions(k)) = 3
  <1>1. n = 1 \/ n = 2 \/ n = 3
    OBVIOUS
  <1>2. QED
    BY <1>1 DEF Dimensions, DimensionId

\* What a step leaves alone, and what it does to the request it serves.
Others(r) == \A x \in Request : x # r => requests'[x] = requests[x]

Closed(r) ==
  /\ requests' \in [Request -> RequestRecord]
  /\ Others(r)
  /\ requests'[r].pc = "done" /\ requests'[r].charged = {} /\ requests'[r].swept = {}

Moved(r, pc) ==
  /\ requests' \in [Request -> RequestRecord]
  /\ Others(r)
  /\ requests'[r].pc = pc
  /\ requests'[r].key = requests[r].key /\ requests'[r].idem = requests[r].idem
  /\ requests'[r].charged = requests[r].charged /\ requests'[r].swept = requests[r].swept

LEMMA FinishCloses ==
  ASSUME ApiTypeOK, NEW r \in Request, Finish(r)
  PROVE  Closed(r)
  <1>1. Idle("done") \in RequestRecord /\ Idle("done").pc = "done"
        /\ Idle("done").charged = {} /\ Idle("done").swept = {}
    BY IdleType DEF Pc
  <1>2. requests' = [requests EXCEPT ![r] = Idle("done")] /\ requests \in [Request -> RequestRecord]
    BY DEF Finish, ApiTypeOK
  <1>3. QED
    BY <1>1, <1>2 DEF Closed, Others

LEMMA MoveMoves ==
  ASSUME ApiTypeOK, NEW r \in Request, NEW pc \in Pc, Move(r, pc)
  PROVE  Moved(r, pc)
  <1>1. requests[r] \in RequestRecord /\ requests \in [Request -> RequestRecord]
    BY DEF ApiTypeOK
  <1>2. requests' = [requests EXCEPT ![r] = [requests[r] EXCEPT !.pc = pc]]
    BY DEF Move
  <1>3. [requests[r] EXCEPT !.pc = pc] \in RequestRecord
    BY <1>1 DEF RequestRecord
  <1>4. QED
    BY <1>1, <1>2, <1>3 DEF Moved, Others, RequestRecord

LEMMA ArriveMoves ==
  ASSUME ApiTypeOK, NEW r \in Request, NEW k \in ApiKey, NEW o \in Origin, NEW i \in IdemKey,
         NEW c \in Content, Arrive(r, k, o, i, c)
  PROVE  /\ requests' \in [Request -> RequestRecord]
         /\ Others(r)
         /\ requests[r].pc = "new" /\ requests'[r].pc = "edge"
         /\ requests'[r].charged = {} /\ requests'[r].swept = {}
  <1> DEFINE arrived == [Idle("edge") EXCEPT !.key = k, !.origin = o, !.idem = i, !.content = c,
                                             !.time = now]
  <1>1. Idle("edge") \in RequestRecord /\ Idle("edge").pc = "edge"
        /\ Idle("edge").charged = {} /\ Idle("edge").swept = {}
    BY IdleType DEF Pc
  <1>2. arrived \in RequestRecord /\ arrived.pc = "edge" /\ arrived.charged = {} /\ arrived.swept = {}
    BY <1>1 DEF RequestRecord, ApiTypeOK
  <1>3. requests' = [requests EXCEPT ![r] = arrived] /\ requests \in [Request -> RequestRecord]
    BY DEF Arrive, ApiTypeOK
  <1>4. requests[r].pc = "new"
    BY DEF Arrive, At
  <1> HIDE DEF arrived
  <1>5. QED
    BY <1>2, <1>3, <1>4 DEF Others

\* The three steps of the quota transaction.
LEMMA BeginQuotaMoves ==
  ASSUME ApiTypeOK, NEW r \in Request, BeginQuota(r)
  PROVE  /\ requests' \in [Request -> RequestRecord]
         /\ Others(r)
         /\ requests[r].pc = "authenticated" /\ requests'[r].pc = "quota"
         /\ requests'[r].time = now /\ requests'[r].dim = 1
         /\ requests'[r].charged = requests[r].charged /\ requests'[r].swept = requests[r].swept
  <1> DEFINE q == [requests[r] EXCEPT !.pc = "quota", !.time = now, !.dim = 1]
  <1>1. requests[r] \in RequestRecord /\ requests \in [Request -> RequestRecord] /\ now \in Int
    BY DEF ApiTypeOK
  <1>2. requests' = [requests EXCEPT ![r] = q]
    BY <1>1 DEF BeginQuota
  <1>3. q.pc = "quota" /\ q.time = now /\ q.dim = 1
        /\ q.charged = requests[r].charged /\ q.swept = requests[r].swept
    BY <1>1 DEF RequestRecord
  <1>4. q \in RequestRecord
    <2>1. "quota" \in Pc /\ 1 \in 0..4
      BY DEF Pc
    <2>2. QED
      BY <1>1, <2>1 DEF RequestRecord
  <1>5. requests[r].pc = "authenticated"
    BY DEF BeginQuota, At
  <1> HIDE DEF q
  <1>6. QED
    BY <1>1, <1>2, <1>3, <1>4, <1>5 DEF Others

\* The row that the next dimension of a request charges.
NextBucket(r) ==
  <<Dimensions(requests[r].key)[requests[r].dim].id, WindowStart(requests[r].time, QuotaWindow)>>

LEMMA ConsumeMoves ==
  ASSUME ApiTypeOK, NEW r \in Request, Consume(r)
  PROVE  /\ requests' \in [Request -> RequestRecord]
         /\ Others(r)
         /\ requests[r].pc = "quota" /\ requests[r].dim \in 1..3
         /\ requests'[r].pc = IF requests[r].dim = 3 THEN "charged" ELSE "quota"
         /\ requests'[r].dim = requests[r].dim + 1
         /\ requests'[r].time = requests[r].time /\ requests'[r].key = requests[r].key
         /\ NextBucket(r) \in Bucket
         /\ requests'[r].charged = requests[r].charged \cup {NextBucket(r)}
         /\ requests'[r].swept \in {requests[r].swept,
                                    requests[r].swept \cup ExpiredBuckets(requests[r].time)}
  <1>1. requests[r] \in RequestRecord /\ requests \in [Request -> RequestRecord]
        /\ requests[r].pc = "quota" /\ requests[r].dim \in 1..3
    BY DEF ApiTypeOK, Consume, At
  <1>2. PICK s \in {requests[r].swept, requests[r].swept \cup ExpiredBuckets(requests[r].time)} :
          requests' = [requests EXCEPT
            ![r].charged = requests[r].charged \cup {NextBucket(r)}, ![r].swept = s,
            ![r].dim = requests[r].dim + 1,
            ![r].pc = IF requests[r].dim = Len(Dimensions(requests[r].key)) THEN "charged" ELSE "quota"]
    BY DEF Consume, NextBucket
  <1>3. requests[r].key \in ApiKey /\ requests[r].time \in Int
    BY <1>1 DEF RequestRecord
  <1>4. Len(Dimensions(requests[r].key)) = 3
        /\ Dimensions(requests[r].key)[requests[r].dim].id \in DimensionId
    BY <1>1, <1>3, DimensionTypes
  <1>5. NextBucket(r) \in Bucket
    BY <1>3, <1>4, WindowTypes, ApiAssumption DEF NextBucket, Bucket
  <1>6. s \subseteq Bucket
    BY <1>1, <1>2 DEF RequestRecord, ExpiredBuckets, ApiTypeOK
  <1> DEFINE q == [requests[r] EXCEPT !.charged = requests[r].charged \cup {NextBucket(r)}, !.swept = s,
                     !.dim = requests[r].dim + 1, !.pc = IF requests[r].dim = 3 THEN "charged" ELSE "quota"]
  <1>7. requests' = [requests EXCEPT ![r] = q]
    BY <1>1, <1>2, <1>4
  <1>8. /\ q.pc = IF requests[r].dim = 3 THEN "charged" ELSE "quota"
        /\ q.dim = requests[r].dim + 1 /\ q.time = requests[r].time /\ q.key = requests[r].key
        /\ q.charged = requests[r].charged \cup {NextBucket(r)} /\ q.swept = s
    BY <1>1 DEF RequestRecord
  <1>9. q \in RequestRecord
    <2>1. (IF requests[r].dim = 3 THEN "charged" ELSE "quota") \in Pc /\ requests[r].dim + 1 \in 0..4
      BY <1>1 DEF Pc
    <2>2. requests[r].charged \cup {NextBucket(r)} \in SUBSET Bucket /\ s \in SUBSET Bucket
      BY <1>1, <1>5, <1>6 DEF RequestRecord
    <2>3. QED
      BY <1>1, <2>1, <2>2 DEF RequestRecord
  <1> HIDE DEF q
  <1>10. requests'[r] = q /\ Others(r) /\ requests' \in [Request -> RequestRecord]
    BY <1>1, <1>7, <1>9 DEF Others
  <1>11. QED
    BY <1>1, <1>2, <1>5, <1>8, <1>10

LEMMA CommitQuotaMoves ==
  ASSUME ApiTypeOK, NEW r \in Request, CommitQuota(r)
  PROVE  /\ requests' \in [Request -> RequestRecord]
         /\ Others(r)
         /\ requests[r].pc = "charged" /\ requests'[r].pc = "publish"
         /\ requests'[r].charged = {} /\ requests'[r].swept = {}
  <1> DEFINE q == [requests[r] EXCEPT !.pc = "publish", !.time = 0, !.dim = 0, !.charged = {}, !.swept = {}]
  <1>1. requests[r] \in RequestRecord /\ requests \in [Request -> RequestRecord]
    BY DEF ApiTypeOK
  <1>2. requests' = [requests EXCEPT ![r] = q]
    BY <1>1 DEF CommitQuota
  <1>3. q.pc = "publish" /\ q.charged = {} /\ q.swept = {}
    BY <1>1 DEF RequestRecord
  <1>4. q \in RequestRecord
    <2>1. "publish" \in Pc /\ 0 \in 0..4 /\ 0 \in Int /\ {} \in SUBSET Bucket
      BY DEF Pc
    <2>2. QED
      BY <1>1, <2>1 DEF RequestRecord
  <1>5. requests[r].pc = "charged"
    BY DEF CommitQuota, At
  <1> HIDE DEF q
  <1>6. QED
    BY <1>1, <1>2, <1>3, <1>4, <1>5 DEF Others

\* The fan-out is read, or refused.
LEMMA FanoutMoves ==
  ASSUME ApiTypeOK, NEW r \in Request, Fanout(r)
  PROVE  requests[r].pc = "fanout" /\ (Moved(r, "commit") \/ Closed(r))
  <1>1. requests[r] \in RequestRecord /\ requests \in [Request -> RequestRecord]
        /\ endpoints \subseteq Endpoint
    BY DEF ApiTypeOK
  <1>2. requests[r].pc = "fanout"
    BY DEF Fanout, At
  <1>3. CASE Finish(r)
    BY <1>2, <1>3, FinishCloses
  <1>4. CASE ~Finish(r)
    <2> DEFINE q == [requests[r] EXCEPT !.pc = "commit", !.fanout = endpoints]
    <2>1. requests' = [requests EXCEPT ![r] = q]
      BY <1>1, <1>4 DEF Fanout
    <2>2. q \in RequestRecord /\ q.pc = "commit" /\ q.key = requests[r].key /\ q.idem = requests[r].idem
          /\ q.charged = requests[r].charged /\ q.swept = requests[r].swept
      BY <1>1 DEF RequestRecord, Pc
    <2> HIDE DEF q
    <2>3. QED
      BY <1>1, <1>2, <2>1, <2>2 DEF Moved, Others
  <1>5. QED
    BY <1>3, <1>4

\* The process comes back without a request in flight.
LEMMA RestartCloses ==
  ASSUME ApiTypeOK, Restart
  PROVE  /\ requests' \in [Request -> RequestRecord]
         /\ \A x \in Request : \/ requests'[x] = requests[x] /\ requests[x].pc \in {"new", "done"}
                               \/ /\ requests'[x].pc = "done" /\ requests'[x].charged = {}
                                  /\ requests'[x].swept = {}
  <1>1. Idle("done") \in RequestRecord /\ Idle("done").pc = "done"
        /\ Idle("done").charged = {} /\ Idle("done").swept = {}
    BY IdleType DEF Pc
  <1>2. /\ requests' = [r \in Request |-> IF r \in InFlight THEN Idle("done") ELSE requests[r]]
        /\ requests \in [Request -> RequestRecord]
    BY DEF Restart, ApiTypeOK
  <1>3. \A x \in Request : x \notin InFlight => requests[x].pc \in {"new", "done"}
    BY DEF InFlight
  <1>4. QED
    BY <1>1, <1>2, <1>3

\* The kinds of steps, as far as clock, edge, quota and publication can tell.
Aside == requests' = requests /\ now' \in Int /\ now' >= now
         /\ UNCHANGED <<edgeVars, quotaVars, events, answers>> /\ endpoints' \subseteq Endpoint

Refused(r) == Closed(r) /\ UNCHANGED <<now, edgeVars, quotaVars, eventVars>>

Advanced(r) ==
  /\ \/ requests[r].pc = "authenticate" /\ Moved(r, "authenticated")
     \/ requests[r].pc = "fanout" /\ Moved(r, "commit")
  /\ UNCHANGED <<now, edgeVars, quotaVars, eventVars>>

LEMMA StepKinds ==
  ASSUME ApiTypeOK, [Next]_vars
  PROVE  \/ Aside
         \/ Restart
         \/ \E r \in Request, k \in ApiKey, o \in Origin, i \in IdemKey, c \in Content : Arrive(r, k, o, i, c)
         \/ \E r \in Request : Refused(r) \/ Advanced(r) \/ Allow(r) \/ InsertEvent(r)
         \/ \E r \in Request : BeginQuota(r) \/ Consume(r) \/ CommitQuota(r)
         \/ \E r \in Request : FindEvent(r) \/ CommitPublish(r)
  <1> DEFINE Kinds == \/ Aside
                      \/ Restart
                      \/ \E r \in Request, k \in ApiKey, o \in Origin, i \in IdemKey, c \in Content :
                           Arrive(r, k, o, i, c)
                      \/ \E r \in Request : Refused(r) \/ Advanced(r) \/ Allow(r) \/ InsertEvent(r)
                      \/ \E r \in Request : BeginQuota(r) \/ Consume(r) \/ CommitQuota(r)
                      \/ \E r \in Request : FindEvent(r) \/ CommitPublish(r)
  <1>1. CASE Tick
    BY <1>1 DEF Tick, Aside, ApiTypeOK, edgeVars, quotaVars, eventVars
  <1>2. ASSUME NEW k \in ApiKey, Revoke(k) PROVE Aside
    BY <1>2 DEF Revoke, Aside, ApiTypeOK, edgeVars, quotaVars, eventVars
  <1>3. ASSUME NEW ep \in Endpoint, CreateEndpoint(ep) PROVE Aside
    BY <1>3 DEF CreateEndpoint, Aside, ApiTypeOK, edgeVars, quotaVars, eventVars
  <1>4. CASE UNCHANGED vars
    BY <1>4 DEF vars, Aside, ApiTypeOK, edgeVars, quotaVars, eventVars
  <1>5. ASSUME NEW r \in Request,
               Overflow(r) \/ RefuseQuota(r) \/ Forbid(r) \/ RejectBody(r) \/ Fail(r)
        PROVE  Refused(r)
    <2>1. Finish(r) /\ UNCHANGED <<now, edgeVars, quotaVars, eventVars>>
      BY <1>5 DEF Overflow, RefuseQuota, Forbid, RejectBody, Fail
    <2>2. QED
      BY <2>1, FinishCloses DEF Refused
  <1>6. ASSUME NEW r \in Request, Authenticate(r) PROVE Refused(r) \/ Advanced(r)
    <2>1. /\ requests[r].pc = "authenticate"
          /\ Move(r, "authenticated") \/ Finish(r)
          /\ UNCHANGED <<now, edgeVars, quotaVars, eventVars>>
      BY <1>6 DEF Authenticate, At
    <2>2. "authenticated" \in Pc
      BY DEF Pc
    <2>3. Moved(r, "authenticated") \/ Closed(r)
      BY <2>1, <2>2, FinishCloses, MoveMoves
    <2>4. QED
      BY <2>1, <2>3 DEF Refused, Advanced
  <1>7. ASSUME NEW r \in Request, Fanout(r) PROVE Refused(r) \/ Advanced(r)
    <2>1. UNCHANGED <<now, edgeVars, quotaVars, eventVars>>
      BY <1>7 DEF Fanout
    <2>2. QED
      BY <1>7, <2>1, FanoutMoves DEF Refused, Advanced
  <1>8. QED
    BY <1>1, <1>2, <1>3, <1>4, <1>5, <1>6, <1>7 DEF Next

\* The edge limiter and the insert move a request, or close it.
LEMMA AllowMoves ==
  ASSUME ApiTypeOK, NEW r \in Request, Allow(r)
  PROVE  requests[r].pc = "edge" /\ (Moved(r, "authenticate") \/ Closed(r))
  <1>1. requests[r].pc = "edge" /\ (Move(r, "authenticate") \/ Finish(r))
    BY DEF Allow, At
  <1>2. "authenticate" \in Pc
    BY DEF Pc
  <1>3. QED
    BY <1>1, <1>2, FinishCloses, MoveMoves

LEMMA InsertMoves ==
  ASSUME ApiTypeOK, NEW r \in Request, InsertEvent(r)
  PROVE  requests[r].pc = "publish" /\ Moved(r, "fanout")
  <1>1. requests[r].pc = "publish" /\ Move(r, "fanout") /\ "fanout" \in Pc
    BY DEF InsertEvent, Publishes, At, Pc
  <1>2. QED
    BY <1>1, MoveMoves

-----------------------------------------------------------------------------
\* Types.

LEMMA TypeInit == Init => ApiTypeOK
  <1>1. Idle("new") \in RequestRecord /\ Idle("new").pc = "new"
    BY IdleType DEF Pc
  <1>2. QED
    BY <1>1 DEF Init, ApiTypeOK

LEMMA TypeStep ==
  ASSUME ApiTypeOK, [Next]_vars
  PROVE  ApiTypeOK'
  <1> DEFINE Dims == \A r \in Request : requests'[r].pc = "quota" => requests'[r].dim \in 1..3
  <1> DEFINE Tables == /\ DOMAIN buckets' \subseteq Bucket
                       /\ \A b \in DOMAIN buckets' : buckets'[b] \in Int
                       /\ admitted' \subseteq Admission
                       /\ endpoints' \subseteq Endpoint
                       /\ events' \subseteq EventRow
                       /\ answers' \subseteq AnswerRecord
  <1>1. SUFFICES now' \in Int /\ requests' \in [Request -> RequestRecord] /\ Dims /\ Tables
    BY DEF ApiTypeOK
  <1>2. UNCHANGED <<now, quotaVars, eventVars>> => now' \in Int /\ Tables
    BY DEF ApiTypeOK, quotaVars, eventVars
  <1>3. \A r \in Request : Closed(r) \/ (\E pc \in Pc : pc # "quota" /\ Moved(r, pc))
                             => requests' \in [Request -> RequestRecord] /\ Dims
    BY DEF ApiTypeOK, Closed, Moved, Others
  <1>4. CASE Aside
    BY <1>4 DEF Aside, ApiTypeOK, quotaVars
  <1>5. CASE Restart
    <2>1. requests' \in [Request -> RequestRecord] /\ Dims
      BY <1>5, RestartCloses DEF ApiTypeOK
    <2>2. QED
      BY <1>2, <1>5, <2>1 DEF Restart
  <1>6. ASSUME NEW r \in Request, NEW k \in ApiKey, NEW o \in Origin, NEW i \in IdemKey,
               NEW c \in Content, Arrive(r, k, o, i, c)
        PROVE  now' \in Int /\ requests' \in [Request -> RequestRecord] /\ Dims /\ Tables
    <2>1. requests' \in [Request -> RequestRecord] /\ Dims
      BY <1>6, ArriveMoves DEF ApiTypeOK, Others
    <2>2. UNCHANGED <<now, quotaVars, eventVars>>
      BY <1>6 DEF Arrive
    <2>3. QED
      BY <1>2, <2>1, <2>2
  <1>7. ASSUME NEW r \in Request, Refused(r) \/ Advanced(r) \/ Allow(r) \/ InsertEvent(r)
        PROVE  now' \in Int /\ requests' \in [Request -> RequestRecord] /\ Dims /\ Tables
    <2>1. Closed(r) \/ Moved(r, "authenticated") \/ Moved(r, "commit") \/ Moved(r, "authenticate")
          \/ Moved(r, "fanout")
      BY <1>7, AllowMoves, InsertMoves DEF Refused, Advanced
    <2>2. \A pc \in {"authenticated", "commit", "authenticate", "fanout"} : pc \in Pc /\ pc # "quota"
      BY DEF Pc
    <2>3. UNCHANGED <<now, quotaVars, eventVars>>
      BY <1>7 DEF Refused, Advanced, Allow, InsertEvent
    <2>4. QED
      BY <1>2, <1>3, <2>1, <2>2, <2>3
  <1>8. ASSUME NEW r \in Request, BeginQuota(r)
        PROVE  now' \in Int /\ requests' \in [Request -> RequestRecord] /\ Dims /\ Tables
    <2>1. requests' \in [Request -> RequestRecord] /\ Dims
      BY <1>8, BeginQuotaMoves DEF ApiTypeOK, Others
    <2>2. UNCHANGED <<now, quotaVars, eventVars>>
      BY <1>8 DEF BeginQuota
    <2>3. QED
      BY <1>2, <2>1, <2>2
  <1>9. ASSUME NEW r \in Request, Consume(r)
        PROVE  now' \in Int /\ requests' \in [Request -> RequestRecord] /\ Dims /\ Tables
    <2>1. requests' \in [Request -> RequestRecord] /\ Dims
      BY <1>9, ConsumeMoves DEF ApiTypeOK, Others
    <2>2. UNCHANGED <<now, quotaVars, eventVars>>
      BY <1>9 DEF Consume
    <2>3. QED
      BY <1>2, <2>1, <2>2
  <1>10. ASSUME NEW r \in Request, CommitQuota(r)
         PROVE  now' \in Int /\ requests' \in [Request -> RequestRecord] /\ Dims /\ Tables
    <2>1. requests' \in [Request -> RequestRecord] /\ Dims
      BY <1>10, CommitQuotaMoves DEF ApiTypeOK, Others
    <2>2. requests[r].charged \subseteq Bucket /\ requests[r].key \in ApiKey /\ requests[r].time \in Int
      BY DEF ApiTypeOK, RequestRecord
    <2>3. /\ buckets' = [b \in (DOMAIN buckets \cup requests[r].charged) \ requests[r].swept |->
                           Used(b) + (IF b \in requests[r].charged THEN 1 ELSE 0)]
          /\ UNCHANGED <<now, endpoints, events, answers>>
      BY <1>10 DEF CommitQuota, eventVars
    <2>4. \A b \in DOMAIN buckets \cup requests[r].charged : Used(b) \in Int
      BY DEF Used, ApiTypeOK
    <2>5. DOMAIN buckets' \subseteq Bucket /\ \A b \in DOMAIN buckets' : buckets'[b] \in Int
      BY <2>2, <2>3, <2>4 DEF ApiTypeOK
    <2>6. admitted' \subseteq Admission
      <3>1. WindowStart(requests[r].time, QuotaWindow) \in Int
        BY <2>2, WindowTypes, ApiAssumption
      <3>2. admitted' = admitted \cup {[request |-> r, key |-> requests[r].key,
                                       window |-> WindowStart(requests[r].time, QuotaWindow)]}
        BY <1>10 DEF CommitQuota
      <3>3. admitted \subseteq Admission
        BY DEF ApiTypeOK
      <3>4. QED
        BY <2>2, <3>1, <3>2, <3>3 DEF Admission
    <2>7. QED
      BY <2>1, <2>3, <2>5, <2>6 DEF ApiTypeOK
  <1>11. ASSUME NEW r \in Request, FindEvent(r)
         PROVE  now' \in Int /\ requests' \in [Request -> RequestRecord] /\ Dims /\ Tables
    <2>1. Finish(r) /\ UNCHANGED <<now, quotaVars, endpoints, events>>
      BY <1>11 DEF FindEvent, eventVars
    <2>2. requests' \in [Request -> RequestRecord] /\ Dims
      BY <1>3, <2>1, FinishCloses
    <2>3. \A e \in events : Answer(r, e, TRUE) \in AnswerRecord
      <3>1. requests[r].idem \in IdemKey /\ requests[r].content \in Content
        BY DEF ApiTypeOK, RequestRecord
      <3>2. QED
        BY <3>1 DEF Answer, AnswerRecord, EventRow, ApiTypeOK
    <2>4. answers' \subseteq AnswerRecord
      BY <1>11, <2>3 DEF FindEvent, EventOf, ApiTypeOK
    <2>5. QED
      BY <2>1, <2>2, <2>4 DEF ApiTypeOK, quotaVars
  <1>12. ASSUME NEW r \in Request, CommitPublish(r)
         PROVE  now' \in Int /\ requests' \in [Request -> RequestRecord] /\ Dims /\ Tables
    <2> DEFINE e == [id |-> r, idem |-> requests[r].idem, content |-> requests[r].content,
                     deliveries |-> requests[r].fanout]
    <2>1. Finish(r) /\ UNCHANGED <<now, quotaVars, endpoints>>
          /\ events' = events \cup {e} /\ answers' \in {answers, answers \cup {Answer(r, e, FALSE)}}
      BY <1>12 DEF CommitPublish
    <2>2. requests' \in [Request -> RequestRecord] /\ Dims
      BY <1>3, <2>1, FinishCloses
    <2>3. requests[r].idem \in IdemKey /\ requests[r].content \in Content
          /\ requests[r].fanout \in SUBSET Endpoint
      BY DEF ApiTypeOK, RequestRecord
    <2>4. e \in EventRow /\ Answer(r, e, FALSE) \in AnswerRecord
      BY <2>3 DEF EventRow, Answer, AnswerRecord
    <2> HIDE DEF e
    <2>5. QED
      BY <2>1, <2>2, <2>4 DEF ApiTypeOK, quotaVars
  <1> HIDE DEF Dims, Tables
  <1>13. QED
    BY <1>4, <1>5, <1>6, <1>7, <1>8, <1>9, <1>10, <1>11, <1>12, StepKinds

\* In every behaviour, the clock, the requests and the tables keep their types.
THEOREM ApiTypes == Spec => []ApiTypeOK
  <1>1. ApiTypeOK /\ [Next]_vars => ApiTypeOK'
    BY TypeStep
  <1>2. QED
    BY <1>1, TypeInit, PTL DEF Spec

-----------------------------------------------------------------------------
\* Publication.

\* One request at most is inserting under an idempotency key, and only while the
\* key has no event; an answer that is no duplicate is that of the event's request.
PublishInv ==
  /\ \A e, f \in events : e.idem = f.idem => e = f
  /\ \A r \in Request : requests[r].pc \in {"fanout", "commit"} => EventOf(requests[r].idem) = {}
  /\ \A r, s \in Request :
       /\ requests[r].pc \in {"fanout", "commit"} /\ requests[s].pc \in {"fanout", "commit"}
       /\ requests[r].idem = requests[s].idem
       => r = s
  /\ \A a \in answers :
       /\ [id |-> a.event, idem |-> a.idem, content |-> a.content, deliveries |-> a.deliveries] \in events
       /\ ~a.duplicate => a.event = a.request

\* The open inserts of a step are among those before it.
InsertsKept ==
  \A x \in Request :
    requests'[x].pc \in {"fanout", "commit"}
      => requests[x].pc \in {"fanout", "commit"} /\ requests'[x].idem = requests[x].idem

LEMMA PublishFrame ==
  ASSUME PublishInv, InsertsKept, events' = events, answers' = answers
  PROVE  PublishInv'
  BY DEF PublishInv, InsertsKept, EventOf

LEMMA ClosedKeepsInserts ==
  ASSUME NEW r \in Request, Closed(r)
  PROVE  InsertsKept
  BY DEF Closed, Others, InsertsKept

LEMMA PublishStep ==
  ASSUME ApiTypeOK, PublishInv, [Next]_vars
  PROVE  PublishInv'
  <1>1. CASE Aside
    BY <1>1, PublishFrame DEF Aside, InsertsKept
  <1>2. CASE Restart
    <2>1. InsertsKept
      BY <1>2, RestartCloses DEF InsertsKept
    <2>2. QED
      BY <1>2, <2>1, PublishFrame DEF Restart, eventVars
  <1>3. ASSUME NEW r \in Request, NEW k \in ApiKey, NEW o \in Origin, NEW i \in IdemKey,
               NEW c \in Content, Arrive(r, k, o, i, c)
        PROVE  PublishInv'
    <2>1. InsertsKept
      BY <1>3, ArriveMoves DEF InsertsKept, Others
    <2>2. events' = events /\ answers' = answers
      BY <1>3 DEF Arrive, eventVars
    <2>3. QED
      BY <2>1, <2>2, PublishFrame
  <1>4. ASSUME NEW r \in Request, Refused(r) \/ Advanced(r) \/ Allow(r) PROVE PublishInv'
    <2>1. events' = events /\ answers' = answers
      BY <1>4 DEF Refused, Advanced, Allow, eventVars
    <2>2. \/ Closed(r) \/ Moved(r, "authenticated") \/ Moved(r, "authenticate")
          \/ requests[r].pc = "fanout" /\ Moved(r, "commit")
      BY <1>4, AllowMoves DEF Refused, Advanced
    <2>3. InsertsKept
      BY <2>2, ClosedKeepsInserts DEF Moved, Others, InsertsKept
    <2>4. QED
      BY <2>1, <2>3, PublishFrame
  <1>5. ASSUME NEW r \in Request, BeginQuota(r) \/ Consume(r) \/ CommitQuota(r) PROVE PublishInv'
    <2>1. events' = events /\ answers' = answers
      BY <1>5 DEF BeginQuota, Consume, CommitQuota, eventVars
    <2>2. Others(r) /\ requests'[r].pc \notin {"fanout", "commit"}
      BY <1>5, BeginQuotaMoves, ConsumeMoves, CommitQuotaMoves
    <2>3. InsertsKept
      BY <2>2 DEF Others, InsertsKept
    <2>4. QED
      BY <2>1, <2>3, PublishFrame
  <1>6. ASSUME NEW r \in Request, InsertEvent(r) PROVE PublishInv'
    <2>1. /\ events' = events /\ answers' = answers
          /\ EventOf(requests[r].idem) = {}
          /\ \A x \in Request : requests[x].pc \in {"fanout", "commit"}
                                  => requests[x].idem # requests[r].idem
      BY <1>6 DEF InsertEvent, Inserting, eventVars
    <2>2. requests'[r].idem = requests[r].idem /\ Others(r)
      BY <1>6, InsertMoves DEF Moved
    <2>3. \A x \in Request : requests'[x].idem = requests[x].idem
                             /\ (x # r => requests'[x].pc = requests[x].pc)
      BY <2>2 DEF Others
    <2>4. \A i : EventOf(i)' = EventOf(i)
      BY <2>1 DEF EventOf
    <2>5. QED
      BY <2>1, <2>3, <2>4 DEF PublishInv
  <1>7. ASSUME NEW r \in Request, FindEvent(r) PROVE PublishInv'
    <2>1. InsertsKept
      BY <1>7, FinishCloses, ClosedKeepsInserts DEF FindEvent
    <2>2. PICK e \in events :
            /\ e.idem = requests[r].idem
            /\ answers' = IF SameFingerprint(e, r) THEN answers \cup {Answer(r, e, TRUE)} ELSE answers
            /\ events' = events
      BY <1>7 DEF FindEvent, EventOf
    <2>3. e = [id |-> e.id, idem |-> e.idem, content |-> e.content, deliveries |-> e.deliveries]
      BY DEF ApiTypeOK, EventRow
    <2> DEFINE answer == Answer(r, e, TRUE)
    <2> DEFINE row(a) == [id |-> a.event, idem |-> a.idem, content |-> a.content,
                          deliveries |-> a.deliveries]
    <2>4. SameFingerprint(e, r) => row(answer) = e /\ answer.duplicate = TRUE
      BY <2>2, <2>3 DEF Answer, SameFingerprint
    <2>5. \A a \in answers : row(a) \in events /\ (~a.duplicate => a.event = a.request)
      BY DEF PublishInv
    <2> HIDE DEF answer, row
    <2>6. \A a \in answers' : row(a) \in events /\ (~a.duplicate => a.event = a.request)
      <3>1. CASE SameFingerprint(e, r)
        BY <2>2, <2>4, <2>5, <3>1 DEF answer
      <3>2. CASE ~SameFingerprint(e, r)
        BY <2>2, <2>5, <3>2
      <3>3. QED
        BY <3>1, <3>2
    <2>7. \A x \in Request : requests'[x].pc \in {"fanout", "commit"} => EventOf(requests'[x].idem) = {}
      BY <2>1 DEF PublishInv, InsertsKept
    <2>8. \A i : EventOf(i)' = EventOf(i)
      BY <2>2 DEF EventOf
    <2>9. QED
      BY <2>1, <2>2, <2>6, <2>7, <2>8 DEF PublishInv, InsertsKept, row
  <1>8. ASSUME NEW r \in Request, CommitPublish(r) PROVE PublishInv'
    <2> DEFINE e == [id |-> r, idem |-> requests[r].idem, content |-> requests[r].content,
                     deliveries |-> requests[r].fanout]
    <2>1. /\ requests[r].pc = "commit"
          /\ events' = events \cup {e}
          /\ answers' \in {answers, answers \cup {Answer(r, e, FALSE)}}
      BY <1>8 DEF CommitPublish, At
    <2>2. Closed(r)
      BY <1>8, FinishCloses DEF CommitPublish
    <2>3. e.idem = requests[r].idem /\ e.id = r
      OBVIOUS
    <2>4. LET a == Answer(r, e, FALSE) IN
          /\ [id |-> a.event, idem |-> a.idem, content |-> a.content, deliveries |-> a.deliveries] = e
          /\ a.event = a.request
      BY DEF Answer
    <2> HIDE DEF e
    <2>5. \A f \in events : f.idem # e.idem
      BY <2>1, <2>3 DEF PublishInv, EventOf
    <2>6. \A x \in Request : requests'[x].pc \in {"fanout", "commit"}
            => x # r /\ requests'[x] = requests[x] /\ requests[x].idem # e.idem
      BY <2>1, <2>2, <2>3 DEF Closed, Others, PublishInv
    <2>7. \A f, g \in events' : f.idem = g.idem => f = g
      BY <2>1, <2>5 DEF PublishInv
    <2>8. \A x \in Request : requests'[x].pc \in {"fanout", "commit"} => EventOf(requests[x].idem)' = {}
      BY <2>1, <2>6 DEF PublishInv, EventOf
    <2>9. \A a \in answers' :
            /\ [id |-> a.event, idem |-> a.idem, content |-> a.content, deliveries |-> a.deliveries]
                 \in events'
            /\ ~a.duplicate => a.event = a.request
      BY <2>1, <2>4 DEF PublishInv
    <2>10. QED
      BY <2>6, <2>7, <2>8, <2>9 DEF PublishInv, EventOf
  <1>9. QED
    BY <1>1, <1>2, <1>3, <1>4, <1>5, <1>6, <1>7, <1>8, StepKinds

\* All the 202 responses to one idempotency key are about one event with one
\* content and the same deliveries, whatever requests race and whatever is lost.
THEOREM PublishedOnce == Spec => []IdempotentPublish
  <1>1. Init => PublishInv
    <2>1. Init => \A r \in Request : requests[r].pc = "new"
      BY IdleType DEF Init, Pc
    <2>2. QED
      BY <2>1 DEF Init, PublishInv
  <1>2. ApiTypeOK /\ PublishInv /\ [Next]_vars => PublishInv'
    BY PublishStep
  <1>3. ASSUME ApiTypeOK, PublishInv PROVE IdempotentPublish
    <2>1. ASSUME NEW a \in answers, NEW b \in answers, a.idem = b.idem, ~a.duplicate, ~b.duplicate
          PROVE  a = b
      <3> DEFINE row(x) == [id |-> x.event, idem |-> x.idem, content |-> x.content,
                            deliveries |-> x.deliveries]
      <3>1. row(a) \in events /\ row(b) \in events /\ a.event = a.request /\ b.event = b.request
        BY <1>3, <2>1 DEF PublishInv
      <3>2. row(a) = row(b)
        BY <1>3, <2>1, <3>1 DEF PublishInv
      <3>3. a.event = b.event /\ a.content = b.content /\ a.deliveries = b.deliveries
        BY <3>2
      <3>4. a \in AnswerRecord /\ b \in AnswerRecord
        BY <1>3 DEF ApiTypeOK
      <3>5. a.duplicate = b.duplicate
        BY <2>1, <3>4 DEF AnswerRecord
      <3> DEFINE record(x) == [request |-> x.request, idem |-> x.idem, content |-> x.content,
                               event |-> x.event, deliveries |-> x.deliveries,
                               duplicate |-> x.duplicate]
      <3>6. a = record(a) /\ b = record(b)
        BY <3>4 DEF AnswerRecord
      <3>7. record(a) = record(b)
        BY <2>1, <3>1, <3>3, <3>5
      <3> HIDE DEF record
      <3>8. QED
        BY <3>6, <3>7
    <2>2. QED
      BY <1>3, <2>1 DEF IdempotentPublish, PublishInv
  <1>4. QED
    BY <1>1, <1>2, <1>3, ApiTypes, PTL DEF Spec

-----------------------------------------------------------------------------
\* The edge limiter.

EdgeShape(lim) ==
  /\ lim = [global |-> lim.global, lru |-> lim.lru, items |-> lim.items]
  /\ lim.global \in [start : Int, count : Int]

\* While no window is evaluated after a later one, the window of the global bucket
\* is the latest that admitted a request, and its count covers them.
EdgeInv ==
  /\ EdgeShape(edge)
  /\ edgeLog \subseteq Request \X Int /\ IsFiniteSet(edgeLog)
  /\ \A x \in edgeLog : requests[x[1]].pc \notin {"new", "edge"}
  /\ ~stale => /\ \A x \in edgeLog : x[2] <= edge.global.start
               /\ \A w \in Int : Cardinality(AdmittedAtEdge(w)) <= EdgeGlobal
               /\ Cardinality(AdmittedAtEdge(edge.global.start)) <= edge.global.count

\* Neither the order of the buckets nor an eviction touches the global count.
LEMMA TouchKeepsGlobal ==
  ASSUME NEW lim, EdgeShape(lim), NEW key, NEW w
  PROVE  EdgeShape(Touch(lim, key, w)) /\ Touch(lim, key, w).global = lim.global
  <1> DEFINE kept == Kept(lim, key)
             found == IF key \in DOMAIN lim.items THEN lim.items[key] ELSE [start |-> w, count |-> 0]
             L == <<key>> \o kept
             I == [x \in ToSet(kept) \cup {key} |->
                     IF x = key THEN ResetBucket(found, w) ELSE lim.items[x]]
  <1>1. Touch(lim, key, w) = [lim EXCEPT !.lru = L, !.items = I]
    BY DEF Touch
  <1> HIDE DEF I, L
  <1>2. PICK g, l, i : lim = [global |-> g, lru |-> l, items |-> i]
    BY DEF EdgeShape
  <1>3. Touch(lim, key, w) = [global |-> g, lru |-> L, items |-> I]
    BY <1>1, <1>2
  <1>4. lim.global = g
    BY <1>2
  <1>5. QED
    BY <1>3, <1>4 DEF EdgeShape

\* An admission counts once in the global bucket.
LEMMA CountedOnce ==
  ASSUME NEW lim, EdgeShape(lim), NEW wanted
  PROVE  /\ EdgeShape(Counted(lim, wanted))
         /\ Counted(lim, wanted).global.start = lim.global.start
         /\ Counted(lim, wanted).global.count = lim.global.count + 1
  <1> DEFINE I == [x \in DOMAIN lim.items |->
                     IF x \in wanted THEN [lim.items[x] EXCEPT !.count = lim.items[x].count + 1]
                     ELSE lim.items[x]]
  <1>1. Counted(lim, wanted) = [lim EXCEPT !.global.count = lim.global.count + 1, !.items = I]
    BY DEF Counted
  <1> HIDE DEF I
  <1>2. PICK s, n, l, i :
          /\ s \in Int /\ n \in Int
          /\ lim = [global |-> [start |-> s, count |-> n], lru |-> l, items |-> i]
    BY DEF EdgeShape
  <1>3. lim.global.start = s /\ lim.global.count = n
    BY <1>2
  <1>4. Counted(lim, wanted) = [global |-> [start |-> s, count |-> n + 1], lru |-> l, items |-> I]
    BY <1>1, <1>2, <1>3
  <1>5. QED
    BY <1>3, <1>4 DEF EdgeShape

LEMMA ResetTypes ==
  ASSUME NEW bucket \in [start : Int, count : Int], NEW w \in Int
  PROVE  /\ ResetBucket(bucket, w) \in [start : Int, count : Int]
         /\ ResetBucket(bucket, w).start = w
         /\ ResetBucket(bucket, w).count = IF bucket.start = w THEN bucket.count ELSE 0
  BY DEF ResetBucket

\* What the critical section does to the global bucket.
LEMMA AllowEdge ==
  ASSUME ApiTypeOK, EdgeShape(edge), NEW r \in Request, Allow(r)
  PROVE  \E w \in Int :
           LET g == ResetBucket(edge.global, w) IN
           /\ EdgeShape(edge')
           /\ stale' = (stale \/ w < edge.global.start)
           /\ edge'.global.start = w
           /\ \/ edge'.global.count = g.count /\ edgeLog' = edgeLog
              \/ /\ g.count < EdgeGlobal /\ edge'.global.count = g.count + 1
                 /\ edgeLog' = edgeLog \cup {<<r, w>>}
                 /\ Moved(r, "authenticate")
  <1> DEFINE q == requests[r]
             w == WindowStart(q.time, EdgeWindow)
             g == ResetBucket(edge.global, w)
             reset == [edge EXCEPT !.global = g]
             first == Touch(reset, q.origin, w)
             second == Touch(first, q.key, w)
             full == Counted(second, {q.origin, q.key})
  <1>1. /\ stale' = (stale \/ w < edge.global.start)
        /\ \/ edge' \in {reset, first, second} /\ edgeLog' = edgeLog
           \/ /\ ~(reset.global.count >= EdgeGlobal)
              /\ edge' = full /\ edgeLog' = edgeLog \cup {<<r, w>>} /\ Move(r, "authenticate")
    BY DEF Allow
  <1>2. w \in Int
    <2>1. q.time \in Int
      BY DEF ApiTypeOK, RequestRecord
    <2>2. QED
      BY <2>1, WindowTypes, ApiAssumption
  <1> HIDE DEF w
  <1>3. /\ g \in [start : Int, count : Int] /\ g.start = w
    BY <1>2, ResetTypes DEF EdgeShape
  <1> HIDE DEF g
  <1>4. EdgeShape(reset) /\ reset.global = g
    BY <1>3 DEF EdgeShape
  <1> HIDE DEF reset
  <1>5. EdgeShape(first) /\ first.global = g
    BY <1>4, TouchKeepsGlobal
  <1> HIDE DEF first
  <1>6. EdgeShape(second) /\ second.global = g
    BY <1>5, TouchKeepsGlobal
  <1> HIDE DEF second
  <1>7. EdgeShape(full) /\ full.global.start = w /\ full.global.count = g.count + 1
    BY <1>3, <1>6, CountedOnce
  <1> HIDE DEF full
  <1>8. Move(r, "authenticate") => Moved(r, "authenticate")
    BY MoveMoves DEF Pc
  <1>9. g.count \in Int /\ EdgeGlobal \in Int
    BY <1>3, ApiAssumption
  <1>10. /\ EdgeShape(edge') /\ edge'.global.start = w
         /\ \/ edge'.global.count = g.count /\ edgeLog' = edgeLog
            \/ /\ g.count < EdgeGlobal /\ edge'.global.count = g.count + 1
               /\ edgeLog' = edgeLog \cup {<<r, w>>} /\ Moved(r, "authenticate")
    <2>1. CASE edge' \in {reset, first, second} /\ edgeLog' = edgeLog
      BY <1>3, <1>4, <1>5, <1>6, <2>1
    <2>2. CASE /\ ~(reset.global.count >= EdgeGlobal)
               /\ edge' = full /\ edgeLog' = edgeLog \cup {<<r, w>>} /\ Move(r, "authenticate")
      BY <1>4, <1>7, <1>8, <1>9, <2>2
    <2>3. QED
      BY <1>1, <2>1, <2>2
  <1>11. QED
    BY <1>1, <1>2, <1>10 DEF g

LEMMA EdgeFrame ==
  ASSUME EdgeInv, UNCHANGED edgeVars,
         \A x \in Request : requests'[x].pc \in {"new", "edge"}
                              => requests[x].pc \in {"new", "edge"}
  PROVE  EdgeInv'
  <1>1. edge' = edge /\ edgeLog' = edgeLog /\ stale' = stale
    BY DEF edgeVars
  <1>2. \A x \in edgeLog : requests'[x[1]].pc \notin {"new", "edge"}
    BY DEF EdgeInv
  <1>3. \A w : AdmittedAtEdge(w)' = AdmittedAtEdge(w)
    BY <1>1 DEF AdmittedAtEdge
  <1>4. QED
    BY <1>1, <1>2, <1>3 DEF EdgeInv

LEMMA EdgeStep ==
  ASSUME ApiTypeOK, EdgeInv, [Next]_vars
  PROVE  EdgeInv'
  <1>1. CASE Aside
    BY <1>1, EdgeFrame DEF Aside
  <1>2. CASE Restart
    <2>1. edge' = Emptied /\ edgeLog' = {} /\ stale' = FALSE
      BY <1>2 DEF Restart
    <2>2. EdgeShape(edge') /\ edge'.global.count = 0 /\ edge'.global.start = 0
      BY <2>1 DEF Emptied, EdgeShape
    <2>3. \A w : AdmittedAtEdge(w)' = {}
      BY <2>1 DEF AdmittedAtEdge
    <2>4. EdgeGlobal \in Nat
      BY ApiAssumption
    <2>5. QED
      BY <2>1, <2>2, <2>3, <2>4, FS_EmptySet DEF EdgeInv
  <1>3. ASSUME NEW r \in Request, NEW k \in ApiKey, NEW o \in Origin, NEW i \in IdemKey,
               NEW c \in Content, Arrive(r, k, o, i, c)
        PROVE  EdgeInv'
    <2>1. UNCHANGED edgeVars
      BY <1>3 DEF Arrive
    <2>2. QED
      BY <1>3, <2>1, ArriveMoves, EdgeFrame DEF Others
  <1>4. ASSUME NEW r \in Request, Refused(r) \/ Advanced(r) \/ InsertEvent(r) PROVE EdgeInv'
    <2>1. UNCHANGED edgeVars
      BY <1>4 DEF Refused, Advanced, InsertEvent
    <2>2. Closed(r) \/ Moved(r, "authenticated") \/ Moved(r, "commit") \/ Moved(r, "fanout")
      BY <1>4, InsertMoves DEF Refused, Advanced
    <2>3. QED
      BY <2>1, <2>2, EdgeFrame DEF Closed, Moved, Others
  <1>5. ASSUME NEW r \in Request, BeginQuota(r) \/ Consume(r) \/ CommitQuota(r) PROVE EdgeInv'
    <2>1. UNCHANGED edgeVars
      BY <1>5 DEF BeginQuota, Consume, CommitQuota
    <2>2. Others(r) /\ requests'[r].pc \notin {"new", "edge"}
      BY <1>5, BeginQuotaMoves, ConsumeMoves, CommitQuotaMoves
    <2>3. QED
      BY <2>1, <2>2, EdgeFrame DEF Others
  <1>6. ASSUME NEW r \in Request, FindEvent(r) \/ CommitPublish(r) PROVE EdgeInv'
    <2>1. UNCHANGED edgeVars /\ Closed(r)
      BY <1>6, FinishCloses DEF FindEvent, CommitPublish
    <2>2. QED
      BY <2>1, EdgeFrame DEF Closed, Others
  <1>7. ASSUME NEW r \in Request, Allow(r) PROVE EdgeInv'
    <2>1. EdgeShape(edge)
      BY DEF EdgeInv
    <2>2. PICK w \in Int :
            LET g == ResetBucket(edge.global, w) IN
            /\ EdgeShape(edge')
            /\ stale' = (stale \/ w < edge.global.start)
            /\ edge'.global.start = w
            /\ \/ edge'.global.count = g.count /\ edgeLog' = edgeLog
               \/ /\ g.count < EdgeGlobal /\ edge'.global.count = g.count + 1
                  /\ edgeLog' = edgeLog \cup {<<r, w>>}
                  /\ Moved(r, "authenticate")
      BY <1>7, <2>1, AllowEdge
    <2> DEFINE g == ResetBucket(edge.global, w)
    <2>3. /\ edge.global.start \in Int /\ edge.global.count \in Int /\ EdgeGlobal \in Nat
          /\ g.count = IF edge.global.start = w THEN edge.global.count ELSE 0
      BY <2>1, ResetTypes, ApiAssumption DEF EdgeShape
    <2> HIDE DEF g
    <2>4. requests[r].pc = "edge" /\ Others(r) /\ requests'[r].pc \notin {"new", "edge"}
      BY <1>7, AllowMoves DEF Moved, Closed
    <2>5. \A v : IsFiniteSet(AdmittedAtEdge(v)) /\ Cardinality(AdmittedAtEdge(v)) \in Nat
      <3>1. \A v : AdmittedAtEdge(v) \in SUBSET edgeLog /\ IsFiniteSet(edgeLog)
        BY DEF AdmittedAtEdge, EdgeInv
      <3>2. QED
        BY <3>1, FS_Subset, FS_CardinalityType
    <2>6. edgeLog' \subseteq Request \X Int /\ IsFiniteSet(edgeLog')
      <3>1. edgeLog \subseteq Request \X Int /\ IsFiniteSet(edgeLog)
        BY DEF EdgeInv
      <3>2. IsFiniteSet(edgeLog \cup {<<r, w>>})
        BY <3>1, FS_AddElement
      <3>3. edgeLog' = edgeLog \/ edgeLog' = edgeLog \cup {<<r, w>>}
        BY <2>2
      <3>4. QED
        BY <3>1, <3>2, <3>3
    <2>7. \A x \in edgeLog' : requests'[x[1]].pc \notin {"new", "edge"}
      BY <2>2, <2>4 DEF EdgeInv, Others
    <2>8. ASSUME ~stale'
          PROVE  /\ \A x \in edgeLog' : x[2] <= edge'.global.start
                 /\ \A v \in Int : Cardinality(AdmittedAtEdge(v)') <= EdgeGlobal
                 /\ Cardinality(AdmittedAtEdge(w)') <= edge'.global.count
      <3>1. ~stale /\ w >= edge.global.start
        <4>1. ~stale /\ ~(w < edge.global.start)
          BY <2>2, <2>8, Zenon
        <4>2. QED
          BY <2>3, <4>1
      <3>2. /\ \A x \in edgeLog : x[2] \in Int /\ x[2] <= edge.global.start
            /\ \A v \in Int : Cardinality(AdmittedAtEdge(v)) <= EdgeGlobal
            /\ Cardinality(AdmittedAtEdge(edge.global.start)) <= edge.global.count
        BY <3>1 DEF EdgeInv
      <3>3. Cardinality(AdmittedAtEdge(w)) <= g.count
        <4>1. CASE w = edge.global.start
          BY <2>3, <3>2, <4>1
        <4>2. CASE w # edge.global.start
          <5>1. AdmittedAtEdge(w) = {}
            BY <2>3, <3>1, <3>2, <4>2 DEF AdmittedAtEdge
          <5>2. QED
            BY <2>3, <4>2, <5>1, FS_EmptySet
        <4>3. QED
          BY <4>1, <4>2
      <3>4. CASE edge'.global.count = g.count /\ edgeLog' = edgeLog
        BY <2>2, <2>3, <3>1, <3>2, <3>3, <3>4 DEF AdmittedAtEdge
      <3>5. CASE /\ g.count < EdgeGlobal /\ edge'.global.count = g.count + 1
                 /\ edgeLog' = edgeLog \cup {<<r, w>>}
        <4>1. \A v \in Int : v # w => AdmittedAtEdge(v)' = AdmittedAtEdge(v)
          BY <3>5 DEF AdmittedAtEdge
        <4>2. AdmittedAtEdge(w)' = AdmittedAtEdge(w) \cup {<<r, w>>}
          BY <3>5 DEF AdmittedAtEdge
        <4>3. <<r, w>> \notin AdmittedAtEdge(w)
          BY <2>4 DEF AdmittedAtEdge, EdgeInv
        <4>4. Cardinality(AdmittedAtEdge(w)') = Cardinality(AdmittedAtEdge(w)) + 1
          BY <2>5, <4>2, <4>3, FS_AddElement
        <4>5. g.count \in Int /\ Cardinality(AdmittedAtEdge(w)) \in Nat
          BY <2>3, <2>5
        <4>6. Cardinality(AdmittedAtEdge(w)') <= edge'.global.count
              /\ Cardinality(AdmittedAtEdge(w)') <= EdgeGlobal
          BY <2>3, <3>3, <3>5, <4>4, <4>5
        <4>7. \A x \in edgeLog' : x[2] <= w
          BY <2>3, <3>1, <3>2, <3>5
        <4>8. QED
          BY <2>2, <3>2, <4>1, <4>6, <4>7
      <3>6. QED
        BY <2>2, <3>4, <3>5 DEF g
    <2>9. QED
      BY <2>2, <2>6, <2>7, <2>8 DEF EdgeInv
  <1>8. QED
    BY <1>1, <1>2, <1>3, <1>4, <1>5, <1>6, <1>7, StepKinds

\* While no window is evaluated after a later one, no window admits more than
\* the global limit, whatever buckets are reset, refused or evicted meanwhile.
THEOREM EdgeLimited == Spec => []EdgeLimit
  <1>1. Init => EdgeInv
    <2> SUFFICES ASSUME Init PROVE EdgeInv
      OBVIOUS
    <2>1. edge = Emptied /\ edgeLog = {}
      BY DEF Init
    <2>2. EdgeShape(edge) /\ edge.global.count = 0
      BY <2>1 DEF Emptied, EdgeShape
    <2>3. \A w : AdmittedAtEdge(w) = {}
      BY <2>1 DEF AdmittedAtEdge
    <2>4. EdgeGlobal \in Nat
      BY ApiAssumption
    <2>5. QED
      BY <2>1, <2>2, <2>3, <2>4, FS_EmptySet DEF EdgeInv
  <1>2. ApiTypeOK /\ EdgeInv /\ [Next]_vars => EdgeInv'
    BY EdgeStep
  <1>3. EdgeInv => EdgeLimit
    BY DEF EdgeInv, EdgeLimit
  <1>4. QED
    BY <1>1, <1>2, <1>3, ApiTypes, PTL DEF Spec

-----------------------------------------------------------------------------
\* The quota.

Late       == {"publish", "fanout", "commit", "done"}
InQuota(r) == requests[r].pc \in {"quota", "charged"}

LimitOf(id) ==
  IF id = "global" THEN GlobalLimit ELSE IF id = "workspace" THEN WorkspaceLimit ELSE ApiKeyLimit

\* The dimensions consumed when the next is the given one.
Consumed(k, dim) == {Dimensions(k)[n].id : n \in 1..(dim - 1)}

\* What an open quota transaction has read and written: the rows of the consumed
\* dimensions in the window of its timestamp, each below its limit, and expired rows.
OpenTransaction(r) ==
  LET q == requests[r] IN
  /\ q.time <= now
  /\ q.pc = "charged" => q.dim = 4
  /\ q.charged = {<<id, WindowStart(q.time, QuotaWindow)>> : id \in Consumed(q.key, q.dim)}
  /\ \A b \in q.charged : Used(b) < LimitOf(b[1])
  /\ \A b \in q.swept : b[2] + QuotaWindow <= now

\* The rows of the windows that have not ended count the committed transactions.
QuotaCounts ==
  \A id \in DimensionId, w \in Int :
    w + QuotaWindow > now =>
      /\ Used(<<id, w>>) = Cardinality(AdmittedIn(id, w))
      /\ Used(<<id, w>>) <= LimitOf(id)

QuotaInv ==
  /\ \A r \in Request : InQuota(r) => OpenTransaction(r)
  /\ \A r \in Request : ~InQuota(r) => Held(r) = {}
  /\ \A r, s \in Request : r # s => Held(r) \cap Held(s) = {}
  /\ \A a \in admitted : requests[a.request].pc \in Late
  /\ IsFiniteSet(admitted)
  /\ QuotaCounts

LEMMA ConsumedSets ==
  ASSUME NEW k \in ApiKey
  PROVE  /\ Consumed(k, 1) = {}
         /\ \A n \in 1..3 : Consumed(k, n + 1) = Consumed(k, n) \cup {Dimensions(k)[n].id}
         /\ Consumed(k, 4) = {"global", "workspace", k}
  <1>1. 1..0 = {} /\ \A n \in 1..3 : 1..((n + 1) - 1) = (1..(n - 1)) \cup {n}
    OBVIOUS
  <1>2. Consumed(k, 1) = {} /\ \A n \in 1..3 : Consumed(k, n + 1) = Consumed(k, n) \cup {Dimensions(k)[n].id}
    BY <1>1 DEF Consumed
  <1>3. 1..(4 - 1) = {1, 2, 3}
    OBVIOUS
  <1>4. Consumed(k, 4) = {Dimensions(k)[1].id, Dimensions(k)[2].id, Dimensions(k)[3].id}
    BY <1>3 DEF Consumed
  <1>5. QED
    BY <1>2, <1>4, DimensionTypes

LEMMA DimensionLimits ==
  ASSUME NEW k \in ApiKey, NEW n \in 1..3
  PROVE  Dimensions(k)[n].limit = LimitOf(Dimensions(k)[n].id)
  <1>1. k # "global" /\ k # "workspace"
    BY ApiAssumption
  <1>2. QED
    BY <1>1, DimensionTypes DEF LimitOf

\* A request that is not, or no longer, in a quota transaction.
Left(x) ==
  /\ requests'[x].pc \notin {"quota", "charged"}
  /\ requests'[x].charged = {} /\ requests'[x].swept = {}
  /\ requests[x].pc \in Late => requests'[x].pc \in Late

LEMMA QuotaFrame ==
  ASSUME ApiTypeOK, QuotaInv, UNCHANGED quotaVars, now' \in Int, now' >= now,
         \A x \in Request : requests'[x] = requests[x] \/ Left(x)
  PROVE  QuotaInv'
  <1>1. buckets' = buckets /\ admitted' = admitted
    BY DEF quotaVars
  <1>2. now \in Int /\ QuotaWindow \in Int
    BY ApiAssumption DEF ApiTypeOK
  <1>3. \A b : Used(b)' = Used(b)
    BY <1>1 DEF Used
  <1>4. ASSUME NEW x \in Request, InQuota(x)' PROVE OpenTransaction(x)'
    <2>1. requests'[x] = requests[x] /\ InQuota(x)
      BY <1>4 DEF Left, InQuota
    <2>2. OpenTransaction(x)
      BY <2>1 DEF QuotaInv
    <2>3. requests[x] \in RequestRecord
      BY DEF ApiTypeOK
    <2>4. requests[x].time \in Int /\ \A b \in requests[x].swept : b[2] \in Int
      BY <2>3 DEF RequestRecord, Bucket
    <2>5. QED
      BY <1>2, <1>3, <2>1, <2>2, <2>4 DEF OpenTransaction
  <1>5. ASSUME NEW x \in Request, ~InQuota(x)' PROVE Held(x)' = {}
    <2>1. CASE Left(x)
      BY <2>1 DEF Left, Held
    <2>2. CASE requests'[x] = requests[x]
      BY <1>5, <2>2 DEF InQuota, Held, QuotaInv
    <2>3. QED
      BY <2>1, <2>2
  <1>6. \A x \in Request : Held(x)' \subseteq Held(x)
    BY DEF Left, Held
  <1>7. \A r, s \in Request : r # s => Held(r)' \cap Held(s)' = {}
    BY <1>6 DEF QuotaInv
  <1>8. \A a \in admitted' : requests'[a.request].pc \in Late
    BY <1>1 DEF QuotaInv, Left, ApiTypeOK, Admission
  <1>9. QuotaCounts'
    <2> SUFFICES ASSUME NEW id \in DimensionId, NEW w \in Int, w + QuotaWindow > now'
                 PROVE  /\ Used(<<id, w>>)' = Cardinality(AdmittedIn(id, w)')
                        /\ Used(<<id, w>>)' <= LimitOf(id)
      BY DEF QuotaCounts
    <2>1. w + QuotaWindow > now
      BY <1>2
    <2>2. AdmittedIn(id, w)' = AdmittedIn(id, w)
      BY <1>1 DEF AdmittedIn
    <2>3. QED
      BY <1>3, <2>1, <2>2 DEF QuotaInv, QuotaCounts
  <1>10. QED
    BY <1>1, <1>4, <1>5, <1>7, <1>8, <1>9 DEF QuotaInv

\* The upsert of one dimension locks its row below its limit.
LEMMA ConsumeQuota ==
  ASSUME ApiTypeOK, QuotaInv, NEW r \in Request, Consume(r)
  PROVE  QuotaInv'
  <1> DEFINE q == requests[r]
             b == NextBucket(r)
  <1>1. /\ Others(r)
        /\ q.pc = "quota" /\ q.dim \in 1..3
        /\ requests'[r].pc = IF q.dim = 3 THEN "charged" ELSE "quota"
        /\ requests'[r].dim = q.dim + 1
        /\ requests'[r].time = q.time /\ requests'[r].key = q.key
        /\ requests'[r].charged = q.charged \cup {b}
        /\ requests'[r].swept \in {q.swept, q.swept \cup ExpiredBuckets(q.time)}
    BY ConsumeMoves
  <1>2. /\ b \notin HeldByOthers(r)
        /\ ExpiredBuckets(q.time) \cap HeldByOthers(r) = {}
        /\ Used(b) < Dimensions(q.key)[q.dim].limit
        /\ UNCHANGED <<now, buckets, admitted>>
    BY DEF Consume, NextBucket, quotaVars
  <1>3. q.key \in ApiKey /\ q.time \in Int /\ now \in Int /\ QuotaWindow \in Int
    BY ApiAssumption DEF ApiTypeOK, RequestRecord
  <1>4. b = <<Dimensions(q.key)[q.dim].id, WindowStart(q.time, QuotaWindow)>>
    BY DEF NextBucket
  <1>5. Used(b) < LimitOf(b[1])
    BY <1>1, <1>2, <1>3, <1>4, DimensionLimits
  <1> HIDE DEF b
  <1>6. \A c : Used(c)' = Used(c)
    BY <1>2 DEF Used
  <1>7. InQuota(r) /\ OpenTransaction(r)
    BY <1>1 DEF InQuota, QuotaInv
  <1>8. \A x \in Request : x # r => requests'[x] = requests[x]
    BY <1>1 DEF Others
  <1>9. ASSUME NEW x \in Request, x # r
        PROVE  (InQuota(x)' => OpenTransaction(x)') /\ (~InQuota(x)' => Held(x)' = {})
    BY <1>2, <1>6, <1>8, <1>9 DEF QuotaInv, InQuota, OpenTransaction, Held
  <1>10. OpenTransaction(r)'
    <2>1. requests'[r].time <= now' /\ (requests'[r].pc = "charged" => requests'[r].dim = 4)
      BY <1>1, <1>2, <1>7 DEF OpenTransaction
    <2>2. requests'[r].charged = {<<id, WindowStart(requests'[r].time, QuotaWindow)>> :
                                    id \in Consumed(requests'[r].key, requests'[r].dim)}
      <3>1. Consumed(q.key, q.dim + 1) = Consumed(q.key, q.dim) \cup {Dimensions(q.key)[q.dim].id}
        BY <1>1, <1>3, ConsumedSets
      <3>2. q.charged = {<<id, WindowStart(q.time, QuotaWindow)>> : id \in Consumed(q.key, q.dim)}
        BY <1>7 DEF OpenTransaction
      <3>3. requests'[r].charged = {<<id, WindowStart(q.time, QuotaWindow)>> :
                                      id \in Consumed(q.key, q.dim + 1)}
        BY <1>1, <1>4, <3>1, <3>2
      <3>4. QED
        BY <1>1, <3>3
    <2>3. \A c \in requests'[r].charged : Used(c)' < LimitOf(c[1])
      BY <1>1, <1>5, <1>6, <1>7 DEF OpenTransaction
    <2>4. \A c \in requests'[r].swept : c[2] + QuotaWindow <= now'
      <3>1. \A c \in q.swept : c[2] + QuotaWindow <= now
        BY <1>7 DEF OpenTransaction
      <3>2. \A c \in ExpiredBuckets(q.time) : c[2] \in Int /\ c[2] + QuotaWindow <= q.time
        BY DEF ExpiredBuckets, ApiTypeOK, Bucket
      <3>3. q.time <= now
        BY <1>7 DEF OpenTransaction
      <3>4. \A c \in ExpiredBuckets(q.time) : c[2] + QuotaWindow <= now
        BY <1>3, <3>2, <3>3
      <3>5. QED
        BY <1>1, <1>2, <3>1, <3>4
    <2>5. QED
      BY <2>1, <2>2, <2>3, <2>4 DEF OpenTransaction
  <1>11. \A r1, r2 \in Request : r1 # r2 => Held(r1)' \cap Held(r2)' = {}
    <2>1. ASSUME NEW x \in Request, x # r PROVE Held(r)' \cap Held(x)' = {}
      <3>1. Held(x)' = Held(x) /\ Held(x) \subseteq HeldByOthers(r)
        BY <1>8, <2>1 DEF Held, HeldByOthers
      <3>2. Held(r)' \subseteq Held(r) \cup {b} \cup ExpiredBuckets(q.time)
        BY <1>1 DEF Held
      <3>3. Held(r) \cap Held(x) = {}
        BY <2>1 DEF QuotaInv
      <3>4. QED
        BY <1>2, <3>1, <3>2, <3>3
    <2>2. \A x \in Request : x # r => Held(x)' = Held(x)
      BY <1>8 DEF Held
    <2>3. QED
      BY <2>1, <2>2 DEF QuotaInv
  <1>12. \A a \in admitted' : requests'[a.request].pc \in Late
    BY <1>1, <1>2, <1>8 DEF QuotaInv, ApiTypeOK, Admission, Late
  <1>13. QuotaCounts'
    BY <1>2, <1>6 DEF QuotaInv, QuotaCounts, AdmittedIn
  <1>14. InQuota(r)'
    BY <1>1 DEF InQuota
  <1>15. QED
    BY <1>2, <1>9, <1>10, <1>11, <1>12, <1>13, <1>14 DEF QuotaInv

\* What a commit leaves in the rows.
LEMMA CommittedRows ==
  ASSUME ApiTypeOK, NEW r \in Request, CommitQuota(r),
         NEW b \in Bucket, b \notin requests[r].swept
  PROVE  /\ b \in requests[r].charged => Used(b)' = Used(b) + 1
         /\ b \notin requests[r].charged => Used(b)' = Used(b)
  <1> DEFINE charged == requests[r].charged
             D == (DOMAIN buckets \cup charged) \ requests[r].swept
             row(x) == Used(x) + (IF x \in charged THEN 1 ELSE 0)
  <1>1. buckets' = [x \in D |-> row(x)]
    BY DEF CommitQuota
  <1>2. Used(b)' = IF b \in DOMAIN buckets' THEN buckets'[b] ELSE 0
    BY DEF Used
  <1>3. Used(b) = IF b \in DOMAIN buckets THEN buckets[b] ELSE 0
    BY DEF Used
  <1>4. Used(b) \in Int
    BY DEF Used, ApiTypeOK
  <1>5. row(b) = IF b \in charged THEN Used(b) + 1 ELSE Used(b)
    BY <1>4
  <1>6. b \in D <=> (b \in DOMAIN buckets \/ b \in charged)
    OBVIOUS
  <1> HIDE DEF row, D
  <1>7. DOMAIN buckets' = D /\ (b \in D => buckets'[b] = row(b))
    BY <1>1
  <1>8. CASE b \in D
    BY <1>2, <1>5, <1>7, <1>8
  <1>9. CASE b \notin D
    BY <1>2, <1>3, <1>6, <1>7, <1>9
  <1>10. QED
    BY <1>8, <1>9

\* A commit counts itself once in each of its three rows.
LEMMA CommitQuotaCounts ==
  ASSUME ApiTypeOK, QuotaInv, NEW r \in Request, CommitQuota(r)
  PROVE  QuotaInv'
  <1> DEFINE q == requests[r]
             W == WindowStart(q.time, QuotaWindow)
             new == [request |-> r, key |-> q.key, window |-> W]
  <1>1. /\ Others(r)
        /\ q.pc = "charged" /\ requests'[r].pc = "publish"
        /\ requests'[r].charged = {} /\ requests'[r].swept = {}
    BY CommitQuotaMoves
  <1>2. admitted' = admitted \cup {new} /\ now' = now
    BY DEF CommitQuota
  <1>3. q.key \in ApiKey /\ q.time \in Int /\ now \in Int /\ QuotaWindow \in Int
    BY ApiAssumption DEF ApiTypeOK, RequestRecord
  <1>4. InQuota(r) /\ OpenTransaction(r)
    BY <1>1 DEF InQuota, QuotaInv
  <1>5. q.charged = {<<id, W>> : id \in {"global", "workspace", q.key}}
    BY <1>1, <1>3, <1>4, ConsumedSets DEF OpenTransaction
  <1>6. new.request = r /\ new.key = q.key /\ new.window = W
    OBVIOUS
  <1> HIDE DEF new
  <1>7. new \notin admitted
    BY <1>1, <1>6 DEF QuotaInv, Late
  <1>8. \A x \in Request : x # r => requests'[x] = requests[x]
    BY <1>1 DEF Others
  <1>9. \A b \in Bucket : Used(b) \in Int
    BY DEF Used, ApiTypeOK
  <1>10. \A b \in Bucket : b \notin Held(r) => Used(b)' = Used(b)
    BY CommittedRows DEF Held
  <1>11. ASSUME NEW x \in Request, x # r
         PROVE  (InQuota(x)' => OpenTransaction(x)') /\ (~InQuota(x)' => Held(x)' = {})
    <2>1. requests'[x] = requests[x]
      BY <1>8, <1>11
    <2>2. \A b \in requests[x].charged : b \in Bucket /\ b \notin Held(r)
      <3>1. requests[x] \in RequestRecord
        BY DEF ApiTypeOK
      <3>2. Held(x) \cap Held(r) = {}
        BY <1>11 DEF QuotaInv
      <3>3. QED
        BY <3>1, <3>2 DEF RequestRecord, Held
    <2>3. \A b \in requests[x].charged : Used(b)' = Used(b)
      BY <1>10, <2>2
    <2>4. QED
      BY <1>2, <2>1, <2>3 DEF QuotaInv, InQuota, OpenTransaction, Held
  <1>12. ~InQuota(r)' /\ Held(r)' = {}
    BY <1>1 DEF InQuota, Held
  <1>13. \A r1, r2 \in Request : r1 # r2 => Held(r1)' \cap Held(r2)' = {}
    <2>1. \A x \in Request : x # r => Held(x)' = Held(x)
      BY <1>8 DEF Held
    <2>2. QED
      BY <1>12, <2>1 DEF QuotaInv
  <1>14. \A a \in admitted' : requests'[a.request].pc \in Late
    BY <1>1, <1>2, <1>6, <1>8 DEF QuotaInv, ApiTypeOK, Admission, Late
  <1>15. IsFiniteSet(admitted')
    BY <1>2, FS_AddElement DEF QuotaInv
  <1>16. ASSUME NEW id \in DimensionId, NEW w \in Int, w + QuotaWindow > now
         PROVE  /\ Used(<<id, w>>)' = Cardinality(AdmittedIn(id, w)')
                /\ Used(<<id, w>>)' <= LimitOf(id)
    <2> DEFINE b == <<id, w>>
    <2>1. b \in Bucket /\ Used(b) \in Int /\ b[1] = id /\ b[2] = w
      BY <1>9 DEF Bucket
    <2>2. b \notin q.swept
      <3>1. \A c \in q.swept : c[2] + QuotaWindow <= now
        BY <1>4 DEF OpenTransaction
      <3>2. QED
        BY <1>3, <1>16, <2>1, <3>1
    <2>3. Used(b) = Cardinality(AdmittedIn(id, w)) /\ Used(b) <= LimitOf(id)
      BY <1>16 DEF QuotaInv, QuotaCounts
    <2>4. IsFiniteSet(AdmittedIn(id, w))
      <3>1. IsFiniteSet(admitted) /\ AdmittedIn(id, w) \in SUBSET admitted
        BY DEF QuotaInv, AdmittedIn
      <3>2. QED
        BY <3>1, FS_Subset
    <2>5. LimitOf(id) \in Int
      BY ApiAssumption DEF LimitOf
    <2>6. CASE w = W /\ id \in {"global", "workspace", q.key}
      <3>1. b \in q.charged
        BY <1>5, <2>6
      <3>2. Used(b)' = Used(b) + 1 /\ Used(b) < LimitOf(id)
        <4>1. Used(b)' = Used(b) + 1
          BY <2>1, <2>2, <3>1, CommittedRows
        <4>2. Used(b) < LimitOf(id)
          BY <1>4, <2>1, <3>1 DEF OpenTransaction
        <4>3. QED
          BY <4>1, <4>2
      <3>3. AdmittedIn(id, w)' = AdmittedIn(id, w) \cup {new}
        BY <1>2, <1>6, <2>6 DEF AdmittedIn
      <3>4. Cardinality(AdmittedIn(id, w)') = Cardinality(AdmittedIn(id, w)) + 1
        BY <1>7, <2>4, <3>3, FS_AddElement DEF AdmittedIn
      <3>5. QED
        BY <2>1, <2>3, <2>5, <3>2, <3>4
    <2>7. CASE ~(w = W /\ id \in {"global", "workspace", q.key})
      <3>1. b \notin q.charged
        BY <1>5, <2>1, <2>7
      <3>2. Used(b)' = Used(b)
        BY <2>1, <2>2, <3>1, CommittedRows
      <3>3. AdmittedIn(id, w)' = AdmittedIn(id, w)
        BY <1>2, <1>6, <2>7 DEF AdmittedIn
      <3>4. QED
        BY <2>3, <3>2, <3>3
    <2>8. QED
      BY <2>6, <2>7
  <1>17. QuotaCounts'
    BY <1>2, <1>16 DEF QuotaCounts
  <1>18. QED
    BY <1>11, <1>12, <1>13, <1>14, <1>15, <1>17 DEF QuotaInv

LEMMA QuotaStep ==
  ASSUME ApiTypeOK, QuotaInv, [Next]_vars
  PROVE  QuotaInv'
  <1>1. \A x \in Request : requests'[x].pc = "done" /\ requests'[x].charged = {} /\ requests'[x].swept = {}
                             => Left(x)
    BY DEF Left, Late
  <1>2. \A r \in Request : Closed(r) => \A x \in Request : requests'[x] = requests[x] \/ Left(x)
    BY <1>1 DEF Closed, Others
  <1>3. \A r \in Request : ~InQuota(r) => requests[r].charged = {} /\ requests[r].swept = {}
    BY DEF QuotaInv, Held
  <1>4. now' = now => now' \in Int /\ now' >= now
    BY DEF ApiTypeOK
  <1>5. CASE Aside
    BY <1>5, QuotaFrame DEF Aside
  <1>6. CASE Restart
    <2>1. \A x \in Request : requests'[x] = requests[x] \/ Left(x)
      BY <1>1, <1>6, RestartCloses
    <2>2. QED
      BY <1>4, <1>6, <2>1, QuotaFrame DEF Restart
  <1>7. ASSUME NEW r \in Request, NEW k \in ApiKey, NEW o \in Origin, NEW i \in IdemKey,
               NEW c \in Content, Arrive(r, k, o, i, c)
        PROVE  QuotaInv'
    <2>1. UNCHANGED <<now, quotaVars>>
      BY <1>7 DEF Arrive
    <2>2. \A x \in Request : requests'[x] = requests[x] \/ Left(x)
      BY <1>7, ArriveMoves DEF Others, Left, Late
    <2>3. QED
      BY <1>4, <2>1, <2>2, QuotaFrame
  <1>8. ASSUME NEW r \in Request, Refused(r) \/ Advanced(r) \/ Allow(r) \/ InsertEvent(r)
        PROVE  QuotaInv'
    <2>1. UNCHANGED <<now, quotaVars>>
      BY <1>8 DEF Refused, Advanced, Allow, InsertEvent
    <2>2. \/ Closed(r)
          \/ requests[r].pc = "authenticate" /\ Moved(r, "authenticated")
          \/ requests[r].pc = "fanout" /\ Moved(r, "commit")
          \/ requests[r].pc = "edge" /\ Moved(r, "authenticate")
          \/ requests[r].pc = "publish" /\ Moved(r, "fanout")
      BY <1>8, AllowMoves, InsertMoves DEF Refused, Advanced
    <2>3. \A x \in Request : requests'[x] = requests[x] \/ Left(x)
      <3>1. CASE Closed(r)
        BY <1>2, <3>1
      <3>2. CASE ~Closed(r)
        <4>1. ~InQuota(r)
          BY <2>2, <3>2 DEF InQuota
        <4>2. requests'[r].charged = {} /\ requests'[r].swept = {} /\ Others(r)
          BY <1>3, <2>2, <3>2, <4>1 DEF Moved
        <4>3. Left(r)
          BY <2>2, <3>2, <4>2 DEF Moved, Left, Late
        <4>4. QED
          BY <4>2, <4>3 DEF Others
      <3>3. QED
        BY <3>1, <3>2
    <2>4. QED
      BY <1>4, <2>1, <2>3, QuotaFrame
  <1>9. ASSUME NEW r \in Request, FindEvent(r) \/ CommitPublish(r) PROVE QuotaInv'
    <2>1. UNCHANGED <<now, quotaVars>> /\ Finish(r)
      BY <1>9 DEF FindEvent, CommitPublish
    <2>2. QED
      BY <1>2, <1>4, <2>1, FinishCloses, QuotaFrame
  <1>10. ASSUME NEW r \in Request, BeginQuota(r) PROVE QuotaInv'
    <2>1. /\ Others(r)
          /\ requests[r].pc = "authenticated" /\ requests'[r].pc = "quota"
          /\ requests'[r].time = now /\ requests'[r].dim = 1
          /\ requests'[r].charged = requests[r].charged /\ requests'[r].swept = requests[r].swept
          /\ requests' \in [Request -> RequestRecord]
      BY <1>10, BeginQuotaMoves
    <2>2. UNCHANGED <<now, buckets, admitted>>
      BY <1>10 DEF BeginQuota, quotaVars
    <2>3. requests'[r].charged = {} /\ requests'[r].swept = {} /\ Held(r) = {}
      BY <1>3, <2>1 DEF InQuota, QuotaInv
    <2>4. Consumed(requests'[r].key, 1) = {}
      BY <2>1, ConsumedSets DEF RequestRecord
    <2>5. OpenTransaction(r)' /\ InQuota(r)'
      BY <2>1, <2>2, <2>3, <2>4 DEF OpenTransaction, InQuota, ApiTypeOK
    <2>6. \A b : Used(b)' = Used(b)
      BY <2>2 DEF Used
    <2>7. \A x \in Request : x # r => requests'[x] = requests[x]
      BY <2>1 DEF Others
    <2>8. ASSUME NEW x \in Request, x # r
          PROVE  (InQuota(x)' => OpenTransaction(x)') /\ (~InQuota(x)' => Held(x)' = {})
      BY <2>2, <2>6, <2>7, <2>8 DEF QuotaInv, InQuota, OpenTransaction, Held
    <2>9. \A x \in Request : Held(x)' = Held(x)
      BY <2>1, <2>7 DEF Held
    <2>10. \A r1, r2 \in Request : r1 # r2 => Held(r1)' \cap Held(r2)' = {}
      BY <2>9 DEF QuotaInv
    <2>11. \A a \in admitted' : requests'[a.request].pc \in Late
      BY <2>1, <2>2, <2>7 DEF QuotaInv, ApiTypeOK, Admission, Late
    <2>12. QuotaCounts'
      BY <2>2, <2>6 DEF QuotaInv, QuotaCounts, AdmittedIn
    <2>13. QED
      BY <2>2, <2>5, <2>8, <2>10, <2>11, <2>12 DEF QuotaInv
  <1>11. QED
    BY <1>5, <1>6, <1>7, <1>8, <1>9, <1>10, ConsumeQuota, CommitQuotaCounts, StepKinds

\* The rows of the running window count exactly the committed requests, within
\* the limits, whatever is refused, rolled back, swept or restarted.
THEOREM QuotaCharged == Spec => []QuotaExact
  <1>1. Init => QuotaInv
    <2> SUFFICES ASSUME Init PROVE QuotaInv
      OBVIOUS
    <2>1. \A r \in Request : requests[r].pc = "new" /\ Held(r) = {}
      BY IdleType DEF Init, Pc, Held
    <2>2. admitted = {} /\ \A b : Used(b) = 0
      BY DEF Init, Used
    <2>3. \A id, w : AdmittedIn(id, w) = {}
      BY <2>2 DEF AdmittedIn
    <2>4. \A id : LimitOf(id) >= 0
      BY ApiAssumption DEF LimitOf
    <2>5. QED
      BY <2>1, <2>2, <2>3, <2>4, FS_EmptySet DEF QuotaInv, InQuota, QuotaCounts
  <1>2. ApiTypeOK /\ QuotaInv /\ [Next]_vars => QuotaInv'
    BY QuotaStep
  <1>3. ASSUME ApiTypeOK, QuotaInv PROVE QuotaExact
    <2> DEFINE w == WindowStart(now, QuotaWindow)
    <2>1. w \in Int /\ w + QuotaWindow > now
      BY <1>3, WindowTypes, ApiAssumption DEF ApiTypeOK
    <2> HIDE DEF w
    <2>2. ASSUME NEW k \in ApiKey, NEW n \in 1..3
          PROVE  LET d == Dimensions(k)[n] IN
                 /\ Used(<<d.id, w>>) = Cardinality(AdmittedIn(d.id, w))
                 /\ Used(<<d.id, w>>) <= d.limit
      BY <1>3, <2>1, DimensionTypes, DimensionLimits DEF QuotaInv, QuotaCounts
    <2>3. QED
      BY <2>2 DEF QuotaExact, w
  <1>4. QED
    BY <1>1, <1>2, <1>3, ApiTypes, PTL DEF Spec

=============================================================================
