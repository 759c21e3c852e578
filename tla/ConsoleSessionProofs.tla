------------------------ MODULE ConsoleSessionProofs ------------------------
(***************************************************************************)
(* The sessions of the console, for any numbers of logins and requests at  *)
(* once, any limit and any lifetimes, and what becomes of the key of the   *)
(* bootstrap beside them, for any numbers of commands at once, of paths    *)
(* and of power losses.                                                    *)
(***************************************************************************)
EXTENDS ConsoleSession, FiniteSetTheorems, TLAPS

Rows == [status : {"none", "active", "revoked"}, created : Int, seen : Int, idle : Int,
         absolute : Int, generation : Int, revoked : Int]

LoginRecords == [pc : {"new", "waiting", "locked", "counted", "created", "refused"},
                 time : Int, generation : Int, expired : SUBSET Session, active : Int]

RequestRecords == [pc : {"new", "resuming", "updating", "authenticated", "refused", "failed",
                         "turned away", "served"},
                   session : Session \cup {"none"}, time : Int, generation : Int,
                   admitted : BOOLEAN, live : BOOLEAN, ended : BOOLEAN]

SessionTypeOK ==
  /\ now \in Int
  /\ restore \in [generation : Int, ready : BOOLEAN]
  /\ keyActive \in BOOLEAN /\ wsActive \in BOOLEAN
  /\ logins \in [Session -> LoginRecords]
  /\ keyLock \in SUBSET Session
  /\ sessions \in [Session -> Rows]
  /\ requests \in [Request -> RequestRecords]

\* A login that counts the sessions has the key to itself, and what it counted is
\* still enough.
LoginInv(s) ==
  /\ logins[s].pc \in {"locked", "counted"} => keyLock = {s}
  /\ logins[s].pc = "counted" => Cardinality(Active \ logins[s].expired) <= logins[s].active

\* The row of a session, as a request that started earlier will find it.
OverFor(q) ==
  \/ sessions[q.session].status # "active"
  \/ sessions[q.session].absolute <= q.time
  \/ sessions[q.session].generation # q.generation

\* A request whose session was over when it began still finds it over.
RequestInv(q) ==
  /\ q.pc \in {"resuming", "updating", "authenticated"} =>
       q.session \in Session /\ logins[q.session].pc = "created"
  /\ q.pc \in {"resuming", "updating"} /\ q.ended => OverFor(q)
  /\ q.pc \in {"authenticated", "turned away", "served"} => ~q.ended

SessionInv ==
  /\ SessionTypeOK
  /\ \A s \in Session : LoginInv(s)
  /\ SessionLimit
  /\ \A r \in Request : RequestInv(requests[r])

\* The first state satisfies the invariant: there is no session.
LEMMA SessionInitial == Init => SessionInv
<1> SUFFICES ASSUME Init PROVE SessionInv
  OBVIOUS
<1>1. SessionTypeOK
  <2>1. logins \in [Session -> LoginRecords] /\ keyLock \in SUBSET Session
    BY DEF Init, SessionInit, NewLogin, LoginRecords
  <2>2. sessions \in [Session -> Rows]
    BY DEF Init, SessionInit, NoRow, Rows
  <2>3. requests \in [Request -> RequestRecords]
    BY DEF Init, SessionInit, NewRequest, RequestRecords
  <2>4. restore \in [generation : Int, ready : BOOLEAN] /\ now \in Int
    BY DEF Init, SessionInit
  <2>5. keyActive \in BOOLEAN /\ wsActive \in BOOLEAN
    BY Zenon DEF Init, SessionInit, CredentialInit
  <2> QED BY <2>1, <2>2, <2>3, <2>4, <2>5 DEF SessionTypeOK
<1>2. \A s \in Session : LoginInv(s)
  BY DEF Init, SessionInit, LoginInv, NewLogin
<1>3. SessionLimit
  <2>1. Active = {}
    BY DEF Init, SessionInit, Active, NoRow
  <2> QED BY <2>1, FS_EmptySet, ConsoleAssumption DEF SessionLimit
<1>4. \A r \in Request : RequestInv(requests[r])
  BY DEF Init, SessionInit, RequestInv, NewRequest
<1> QED BY <1>1, <1>2, <1>3, <1>4 DEF SessionInv

\* Sessions that are active are finitely many, and fewer of them never count more.
LEMMA FewerActive ==
  ASSUME NEW S \in SUBSET Session, NEW T, T \subseteq S
  PROVE  /\ IsFiniteSet(T) /\ Cardinality(T) \in Nat /\ Cardinality(S) \in Nat
         /\ Cardinality(T) <= Cardinality(S)
<1>1. IsFiniteSet(S)
  BY ConsoleAssumption, FS_Subset
<1> QED BY <1>1, FS_Subset, FS_CardinalityType

\* Steps that make no session active and leave the logins alone.
LEMMA LoginsKept ==
  ASSUME SessionInv, Active' \subseteq Active, UNCHANGED <<logins, keyLock>>
  PROVE  /\ \A s \in Session : LoginInv(s)'
         /\ SessionLimit'
<1>1. Active \in SUBSET Session
  BY DEF Active
<1>2. ASSUME NEW s \in Session PROVE LoginInv(s)'
  <2>1. logins[s].active \in Int
    BY DEF SessionInv, SessionTypeOK, LoginRecords
  <2>2. /\ Cardinality(Active' \ logins[s].expired) \in Nat
        /\ Cardinality(Active \ logins[s].expired) \in Nat
        /\ Cardinality(Active' \ logins[s].expired) <= Cardinality(Active \ logins[s].expired)
    <3> DEFINE S == Active \ logins[s].expired
               T == Active' \ logins[s].expired
    <3>1. S \in SUBSET Session /\ T \subseteq S
      BY <1>1
    <3> HIDE DEF S, T
    <3>2. /\ Cardinality(T) \in Nat /\ Cardinality(S) \in Nat
          /\ Cardinality(T) <= Cardinality(S)
      BY <3>1, FewerActive
    <3> QED BY <3>2 DEF S, T
  <2>3. LoginInv(s)
    BY DEF SessionInv
  <2>4. (logins[s])' = logins[s] /\ keyLock' = keyLock
    OBVIOUS
  <2>5. logins[s].pc = "counted" => Cardinality(Active' \ logins[s].expired) <= logins[s].active
    BY <2>1, <2>2, <2>3 DEF LoginInv
  <2> QED BY <2>3, <2>4, <2>5 DEF LoginInv
<1>3. SessionLimit'
  <2>1. /\ Cardinality(Active') \in Nat /\ Cardinality(Active) \in Nat
        /\ Cardinality(Active') <= Cardinality(Active)
    BY <1>1, FewerActive
  <2>2. Cardinality(Active) <= Limit
    BY DEF SessionInv, SessionLimit
  <2> QED BY <2>1, <2>2, ConsoleAssumption DEF SessionLimit
<1> QED BY <1>2, <1>3

\* What a request that is on its way knows survives a step that keeps what its
\* session is over by, or ends the session.
LEMMA RequestKept ==
  ASSUME NEW q, RequestInv(q),
         \A s \in Session : logins[s].pc = "created" =>
           /\ (logins[s].pc)' = "created"
           /\ \/ (sessions[s])' = sessions[s]
              \/ (sessions[s].status)' # "active"
              \/ /\ (sessions[s].absolute)' = sessions[s].absolute
                 /\ (sessions[s].generation)' = sessions[s].generation
                 /\ (sessions[s].status)' = sessions[s].status
  PROVE  RequestInv(q)'
<1>1. q.pc \in {"resuming", "updating", "authenticated"} =>
        q.session \in Session /\ (logins[q.session].pc)' = "created"
  BY DEF RequestInv
<1>2. q.pc \in {"resuming", "updating"} /\ q.ended => OverFor(q)'
  BY DEF RequestInv, OverFor
<1> QED BY <1>1, <1>2 DEF RequestInv

\* The same for all of them, when none of them moves.
LEMMA RequestsKept ==
  ASSUME SessionInv, UNCHANGED requests,
         \A s \in Session : logins[s].pc = "created" =>
           /\ (logins[s].pc)' = "created"
           /\ \/ (sessions[s])' = sessions[s]
              \/ (sessions[s].status)' # "active"
  PROVE  \A r \in Request : RequestInv(requests[r])'
<1> SUFFICES ASSUME NEW r \in Request PROVE RequestInv(requests[r])'
  OBVIOUS
<1>1. PICK q : q = requests[r]
  OBVIOUS
<1>2. RequestInv(q)
  BY <1>1 DEF SessionInv
<1>3. RequestInv(q)'
  BY <1>2, RequestKept
<1>4. requests'[r] = q
  BY <1>1
<1> QED BY <1>3, <1>4 DEF RequestInv, OverFor

\* The steps that only the clock, the keys, the workspace and the quarantine take.
LEMMA SurroundingsStep ==
  ASSUME SessionInv, UNCHANGED <<logins, keyLock, sessions, requests>>,
         now' \in Int, restore' \in [generation : Int, ready : BOOLEAN],
         keyActive' \in BOOLEAN, wsActive' \in BOOLEAN
  PROVE  SessionInv'
<1>1. SessionTypeOK'
  BY DEF SessionInv, SessionTypeOK
<1>2. (\A s \in Session : LoginInv(s)') /\ SessionLimit'
  <2>1. Active' = Active
    BY DEF Active
  <2> QED BY <2>1, LoginsKept
<1>3. \A r \in Request : RequestInv(requests[r])'
  BY RequestsKept
<1> QED BY <1>1, <1>2, <1>3 DEF SessionInv

\* A login takes a step and creates no session yet: it is the one that has the key,
\* or becomes it, or lets it go.
LEMMA LoginStep ==
  ASSUME SessionInv, NEW s \in Session, NEW login \in LoginRecords,
         UNCHANGED <<now, restore, keyActive, wsActive, sessions, requests>>,
         logins[s].pc # "created",
         logins' = [logins EXCEPT ![s] = login],
         \/ keyLock' = keyLock \ {s} /\ login.pc \notin {"locked", "counted"}
         \/ keyLock = {} /\ keyLock' = {s} /\ login.pc = "locked"
         \/ /\ logins[s].pc = "locked" /\ keyLock' = keyLock
            /\ login.pc = "counted" /\ Cardinality(Active \ login.expired) <= login.active
         \/ /\ logins[s].pc = "new" /\ keyLock' = keyLock
            /\ login.pc \notin {"locked", "counted"}
  PROVE  SessionInv'
<1>1. /\ logins'[s] = login
      /\ \A t \in Session \ {s} : logins'[t] = logins[t]
      /\ logins' \in [Session -> LoginRecords]
  BY DEF SessionInv, SessionTypeOK
<1>2. keyLock \in SUBSET Session /\ keyLock' \in SUBSET Session
  BY DEF SessionInv, SessionTypeOK
<1>3. SessionTypeOK'
  BY <1>1, <1>2 DEF SessionInv, SessionTypeOK
<1>4. Active' = Active
  BY DEF Active
<1>5. SessionLimit'
  BY <1>4 DEF SessionInv, SessionLimit
<1>6. ASSUME NEW t \in Session PROVE LoginInv(t)'
  <2>1. LoginInv(t) /\ LoginInv(s)
    BY DEF SessionInv
  <2>2. CASE t = s
    BY <1>1, <1>4, <2>1, <2>2 DEF LoginInv
  <2>3. CASE t # s
    <3>1. logins'[t] = logins[t]
      BY <1>1, <2>3
    <3>2. logins[t].pc \in {"locked", "counted"} => keyLock' = {t}
      BY <2>1, <2>3 DEF LoginInv
    <3> QED BY <1>4, <2>1, <3>1, <3>2 DEF LoginInv
  <2> QED BY <2>2, <2>3
<1>7. \A r \in Request : RequestInv(requests[r])'
  <2>1. \A t \in Session : logins[t].pc = "created" =>
          (logins[t].pc)' = "created" /\ (sessions[t])' = sessions[t]
    BY <1>1
  <2> QED BY <2>1, RequestsKept
<1> QED BY <1>3, <1>5, <1>6, <1>7 DEF SessionInv

\* The row of a session is created, and what its login had expired is revoked: one
\* session more than the login counted.
LEMMA CreateStep ==
  ASSUME SessionInv, NEW s \in Session, CreateSession(s) PROVE SessionInv'
<1> DEFINE row == [status |-> "active", created |-> now, seen |-> now,
                   idle |-> now + IdleLife, absolute |-> now + AbsoluteLife,
                   generation |-> logins[s].generation, revoked |-> 0]
           login == [NewLogin EXCEPT !.pc = "created"]
<1>1. /\ now \in Int /\ sessions \in [Session -> Rows] /\ logins \in [Session -> LoginRecords]
      /\ keyLock \in SUBSET Session /\ logins[s].expired \in SUBSET Session
      /\ logins[s].active \in Int /\ logins[s].generation \in Int
  BY DEF SessionInv, SessionTypeOK, LoginRecords
<1>2. /\ logins[s].pc = "counted" /\ logins[s].active < Limit
      /\ logins' = [logins EXCEPT ![s] = login]
      /\ keyLock' = keyLock \ {s}
      /\ UNCHANGED <<now, restore, keyActive, wsActive, requests>>
  BY DEF CreateSession, credentialVars
<1>3. row \in Rows
  BY <1>1, ConsoleAssumption DEF Rows
<1>4. login \in LoginRecords /\ login.pc = "created"
  BY DEF NewLogin, LoginRecords
<1>5. ASSUME NEW t \in Session
      PROVE  /\ t = s => sessions'[t] = row
             /\ t # s /\ t \in logins[s].expired => sessions'[t] = Revoked(sessions[t])
             /\ t # s /\ t \notin logins[s].expired => sessions'[t] = sessions[t]
  BY DEF CreateSession
<1>6. ASSUME NEW t \in Session
      PROVE  Revoked(sessions[t]) \in Rows /\ Revoked(sessions[t]).status = "revoked"
  BY <1>1 DEF Revoked, Rows
<1>7. sessions' \in [Session -> Rows]
  <2>1. \A t \in Session : sessions'[t] \in Rows
    BY <1>1, <1>3, <1>5, <1>6
  <2>2. sessions' = [t \in Session |-> sessions'[t]]
    BY DEF CreateSession
  <2> QED BY <2>1, <2>2
<1> HIDE DEF row, login
<1>8. /\ logins'[s] = login /\ logins' \in [Session -> LoginRecords]
      /\ \A t \in Session \ {s} : logins'[t] = logins[t]
  BY <1>1, <1>2, <1>4
<1>9. SessionTypeOK'
  BY <1>1, <1>2, <1>7, <1>8 DEF SessionInv, SessionTypeOK
<1>10. LoginInv(s) /\ keyLock = {s}
  BY <1>2 DEF SessionInv, LoginInv
<1>11. SessionLimit'
  <2> DEFINE rest == Active \ logins[s].expired
  <2>1. Active' \subseteq rest \cup {s}
    BY <1>5, <1>6 DEF Active
  <2>2. rest \in SUBSET Session
    BY DEF Active
  <2>3. Cardinality(rest) <= logins[s].active
    BY <1>2, <1>10 DEF LoginInv
  <2> HIDE DEF rest
  <2>4. IsFiniteSet(rest) /\ Cardinality(rest) \in Nat
    BY <2>2, FewerActive
  <2>5. Cardinality(rest \cup {s}) <= Cardinality(rest) + 1
    <3>1. s \in rest => rest \cup {s} = rest
      OBVIOUS
    <3>2. s \notin rest => Cardinality(rest \cup {s}) = Cardinality(rest) + 1
      BY <2>4, FS_AddElement
    <3>3. CASE s \in rest
      <4>1. Cardinality(rest \cup {s}) = Cardinality(rest)
        BY <3>1, <3>3
      <4> QED BY <2>4, <4>1
    <3>4. CASE s \notin rest
      BY <2>4, <3>2, <3>4
    <3> QED BY <3>3, <3>4
  <2>6. rest \cup {s} \in SUBSET Session
    BY <2>2
  <2>7. /\ Cardinality(Active') \in Nat /\ Cardinality(rest \cup {s}) \in Nat
        /\ Cardinality(Active') <= Cardinality(rest \cup {s})
    BY <2>1, <2>6, FewerActive
  <2> QED BY <1>1, <1>2, <2>3, <2>4, <2>5, <2>7, ConsoleAssumption DEF SessionLimit
<1>12. ASSUME NEW t \in Session PROVE LoginInv(t)'
  <2>1. t # s => logins[t].pc \notin {"locked", "counted"}
    BY <1>10 DEF SessionInv, LoginInv
  <2>2. (logins[t].pc)' \notin {"locked", "counted"}
    BY <1>4, <1>8, <2>1
  <2> QED BY <2>2 DEF LoginInv
<1>13. \A r \in Request : RequestInv(requests[r])'
  <2>1. ASSUME NEW t \in Session, logins[t].pc = "created"
        PROVE  /\ (logins[t].pc)' = "created"
               /\ (sessions[t])' = sessions[t] \/ (sessions[t].status)' # "active"
    BY <1>2, <1>5, <1>6, <1>8, <2>1
  <2> QED BY <1>2, <2>1, RequestsKept
<1> QED BY <1>9, <1>11, <1>12, <1>13 DEF SessionInv

\* The purge ends sessions, and forgets those that ended long ago.
LEMMA PurgeStep == ASSUME SessionInv, PurgeSessions PROVE SessionInv'
<1>1. /\ UNCHANGED <<now, restore, keyActive, wsActive, logins, keyLock, requests>>
      /\ sessions \in [Session -> Rows] /\ now \in Int
  BY DEF PurgeSessions, credentialVars, SessionInv, SessionTypeOK
<1>2. PICK over \in SUBSET (Active \ Locked), old \in SUBSET Session :
        sessions' = [s \in Session |->
          CASE s \in over -> Revoked(sessions[s])
            [] s \in old  -> NoRow
            [] OTHER      -> sessions[s]]
  <2>1. PICK over \in SUBSET {s \in Active \ Locked : now >= sessions[s].idle},
             old \in SUBSET {s \in Session : /\ sessions[s].status = "revoked"
                                             /\ sessions[s].revoked < now - Retention} :
          sessions' = [s \in Session |->
            CASE s \in over -> Revoked(sessions[s])
              [] s \in old  -> NoRow
              [] OTHER      -> sessions[s]]
    BY Zenon DEF PurgeSessions
  <2>2. over \in SUBSET (Active \ Locked) /\ old \in SUBSET Session
    OBVIOUS
  <2> QED BY <2>1, <2>2, Zenon
<1>3. /\ NoRow \in Rows /\ NoRow.status # "active"
      /\ \A s \in Session : Revoked(sessions[s]) \in Rows /\ Revoked(sessions[s]).status = "revoked"
  <2>1. NoRow \in Rows /\ NoRow.status # "active"
    BY DEF NoRow, Rows
  <2>2. ASSUME NEW s \in Session
        PROVE  Revoked(sessions[s]) \in Rows /\ Revoked(sessions[s]).status = "revoked"
    BY <1>1 DEF Revoked, Rows
  <2> QED BY <2>1, <2>2
<1>4. ASSUME NEW s \in Session
      PROVE  /\ sessions'[s] \in Rows
             /\ sessions'[s] = sessions[s] \/ sessions'[s].status # "active"
  <2>1. sessions'[s] \in {Revoked(sessions[s]), NoRow, sessions[s]}
    BY <1>2
  <2> QED BY <1>1, <1>3, <2>1
<1>5. sessions' \in [Session -> Rows]
  BY <1>2, <1>4
<1>6. SessionTypeOK'
  BY <1>1, <1>5 DEF SessionInv, SessionTypeOK
<1>7. Active' \subseteq Active
  BY <1>4 DEF Active
<1>8. (\A s \in Session : LoginInv(s)') /\ SessionLimit'
  BY <1>1, <1>7, LoginsKept
<1>9. \A r \in Request : RequestInv(requests[r])'
  BY <1>1, <1>4, RequestsKept
<1> QED BY <1>6, <1>8, <1>9 DEF SessionInv

\* A request takes a step, and of the sessions at most the row it is about changes:
\* in how long it is still open, or because it ends.
LEMMA RequestStep ==
  ASSUME SessionInv, NEW r \in Request, NEW q \in RequestRecords,
         UNCHANGED <<now, restore, keyActive, wsActive, logins, keyLock>>,
         requests' = [requests EXCEPT ![r] = q],
         RequestInv(q)',
         sessions' \in [Session -> Rows],
         \A s \in Session :
           \/ sessions'[s] = sessions[s]
           \/ sessions'[s].status # "active"
           \/ /\ sessions'[s].absolute = sessions[s].absolute
              /\ sessions'[s].generation = sessions[s].generation
              /\ sessions'[s].status = sessions[s].status
  PROVE  SessionInv'
<1>1. /\ requests' \in [Request -> RequestRecords]
      /\ requests'[r] = q
      /\ \A o \in Request \ {r} : requests'[o] = requests[o]
  BY DEF SessionInv, SessionTypeOK
<1>2. SessionTypeOK'
  BY <1>1 DEF SessionInv, SessionTypeOK
<1>3. Active' \subseteq Active
  BY DEF Active
<1>4. (\A s \in Session : LoginInv(s)') /\ SessionLimit'
  BY <1>3, LoginsKept
<1>5. ASSUME NEW o \in Request PROVE RequestInv(requests[o])'
  <2>1. CASE o = r
    BY <1>1, <2>1 DEF RequestInv, OverFor
  <2>2. CASE o # r
    <3>1. PICK p : p = requests[o]
      OBVIOUS
    <3>2. RequestInv(p)
      BY <3>1 DEF SessionInv
    <3>3. RequestInv(p)'
      BY <3>2, RequestKept
    <3>4. requests'[o] = p
      BY <1>1, <2>2, <3>1
    <3> QED BY <3>3, <3>4 DEF RequestInv, OverFor
  <2> QED BY <2>1, <2>2
<1> QED BY <1>2, <1>4, <1>5 DEF SessionInv

\* A record of what is kept of a request that ended.
LEMMA EndedRecord ==
  ASSUME NEW P, NEW S, NEW pc \in P, NEW session \in S, NEW ended \in BOOLEAN
  PROVE  [pc |-> pc, session |-> session, time |-> 0, generation |-> 0,
          admitted |-> FALSE, live |-> FALSE, ended |-> ended]
           \in [pc : P, session : S, time : Int, generation : Int,
                admitted : BOOLEAN, live : BOOLEAN, ended : BOOLEAN]
OBVIOUS

\* A request that ends, if its session was over when it began, is not served.
LEMMA EndsStep ==
  ASSUME SessionInv, NEW r \in Request, NEW pc \in {"refused", "failed", "turned away", "served"},
         Ends(r, pc),
         pc \notin {"refused", "failed"} => At(r, "authenticated"),
         UNCHANGED <<now, restore, keyActive, wsActive, logins, keyLock>>,
         sessions' \in [Session -> Rows],
         \A s \in Session :
           \/ sessions'[s] = sessions[s]
           \/ sessions'[s].status # "active"
           \/ /\ sessions'[s].absolute = sessions[s].absolute
              /\ sessions'[s].generation = sessions[s].generation
              /\ sessions'[s].status = sessions[s].status
  PROVE  SessionInv'
<1>1. PICK q : q = requests[r]
  OBVIOUS
<1>2. q \in RequestRecords /\ RequestInv(q)
  BY <1>1 DEF SessionInv, SessionTypeOK
<1>3. PICK e : e = [NewRequest EXCEPT !.pc = pc, !.ended = q.ended]
  OBVIOUS
<1>4. requests' = [requests EXCEPT ![r] = e]
  BY <1>1, <1>3 DEF Ends
<1>5. e \in RequestRecords /\ e.pc = pc /\ e.ended = q.ended
  <2>1. PICK ended \in BOOLEAN : ended = q.ended
    BY <1>2 DEF RequestRecords
  <2>2. e = [pc |-> pc, session |-> "none", time |-> 0, generation |-> 0,
             admitted |-> FALSE, live |-> FALSE, ended |-> ended]
    BY <1>3, <2>1 DEF NewRequest
  <2>3. e.pc = pc /\ e.ended = ended
    BY <2>2
  <2>4. e \in RequestRecords
    <3> DEFINE P == {"new", "resuming", "updating", "authenticated", "refused", "failed",
                     "turned away", "served"}
    <3>1. pc \in P
      OBVIOUS
    <3> HIDE DEF P
    <3>2. "none" \in Session \cup {"none"}
      OBVIOUS
    <3>3. e \in [pc : P, session : Session \cup {"none"}, time : Int, generation : Int,
                 admitted : BOOLEAN, live : BOOLEAN, ended : BOOLEAN]
      BY <2>2, <3>1, <3>2, EndedRecord, Zenon
    <3> QED BY <3>3 DEF P, RequestRecords
  <2> QED BY <2>1, <2>3, <2>4
<1>6. pc \notin {"refused", "failed"} => ~q.ended
  BY <1>1, <1>2 DEF RequestInv, At
<1>7. RequestInv(e)'
  BY <1>5, <1>6 DEF RequestInv
<1> QED BY <1>4, <1>5, <1>7, RequestStep

\* The row after the UPDATE of a request, which only stays open longer.
LEMMA ResumedRow ==
  ASSUME NEW row \in Rows, NEW q \in RequestRecords, now \in Int
  PROVE  /\ Resumed(row, q) \in Rows
         /\ Resumed(row, q).status = row.status
         /\ Resumed(row, q).absolute = row.absolute
         /\ Resumed(row, q).generation = row.generation
<1>1. CASE row.seen <= q.time - TouchInterval
  <2>1. PICK seen, idle : seen = now /\ idle = Slid(row)
    OBVIOUS
  <2>2. seen \in Int /\ idle \in Int
    BY <2>1, ConsoleAssumption DEF Slid, Rows
  <2>3. Resumed(row, q) = [row EXCEPT !.seen = seen, !.idle = idle]
    BY <1>1, <2>1 DEF Resumed
  <2> QED BY <2>2, <2>3 DEF Rows
<1>2. CASE ~(row.seen <= q.time - TouchInterval)
  <2>1. Resumed(row, q) = row
    BY <1>2 DEF Resumed
  <2> QED BY <2>1
<1> QED BY <1>1, <1>2

\* The UPDATE of a request keeps what sessions are over by.
LEMMA UpdateKept ==
  ASSUME SessionInv, NEW r \in Request, UpdateRow(r)
  PROVE  /\ sessions' \in [Session -> Rows]
         /\ \A t \in Session :
              \/ sessions'[t] = sessions[t]
              \/ /\ sessions'[t].absolute = sessions[t].absolute
                 /\ sessions'[t].generation = sessions[t].generation
                 /\ sessions'[t].status = sessions[t].status
<1>1. PICK q : q = requests[r]
  OBVIOUS
<1> DEFINE s == q.session
<1>2. q \in RequestRecords /\ RequestInv(q) /\ sessions \in [Session -> Rows] /\ now \in Int
  BY <1>1 DEF SessionInv, SessionTypeOK
<1>3. q.pc = "updating" /\ sessions' = [sessions EXCEPT ![s] = Resumed(sessions[s], q)]
  BY <1>1 DEF UpdateRow, At
<1>4. s \in Session
  BY <1>2, <1>3 DEF RequestInv
<1>5. /\ Resumed(sessions[s], q) \in Rows
      /\ Resumed(sessions[s], q).status = sessions[s].status
      /\ Resumed(sessions[s], q).absolute = sessions[s].absolute
      /\ Resumed(sessions[s], q).generation = sessions[s].generation
  BY <1>2, <1>4, ResumedRow
<1> QED BY <1>2, <1>3, <1>5

\* Every step of a request keeps the invariant.
LEMMA EveryRequestStep ==
  ASSUME SessionInv, NEW r \in Request,
         \/ \E s \in Session : Present(r, s)
         \/ ReadKey(r) \/ Resume(r) \/ RefuseRequest(r) \/ FailRequest(r)
         \/ TurnAway(r) \/ View(r) \/ Mutate(r) \/ Logout(r)
  PROVE  SessionInv'
<1>1. PICK q : q = requests[r]
  OBVIOUS
<1>2. q \in RequestRecords /\ RequestInv(q) /\ requests \in [Request -> RequestRecords]
  BY <1>1 DEF SessionInv, SessionTypeOK
<1>3. /\ now \in Int /\ sessions \in [Session -> Rows] /\ restore.generation \in Int
      /\ keyActive \in BOOLEAN /\ wsActive \in BOOLEAN
  BY DEF SessionInv, SessionTypeOK
<1> USE DEF credentialVars, unchangedButRequests
<1>4. ASSUME NEW s \in Session, Present(r, s) PROVE SessionInv'
  <2>1. /\ UNCHANGED <<now, restore, keyActive, wsActive, logins, keyLock, sessions>>
        /\ logins[s].pc = "created"
    BY <1>4 DEF Present
  <2>2. CASE Known(s) /\ restore.ready
    <3>1. PICK live, ended : live = Live(s) /\ ended = Ended(s)
      OBVIOUS
    <3>2. PICK e : e = [pc |-> "resuming", session |-> s, time |-> now,
                        generation |-> restore.generation, admitted |-> FALSE,
                        live |-> live, ended |-> ended]
      OBVIOUS
    <3>3. requests' = [requests EXCEPT ![r] = e]
      BY <1>4, <2>2, <3>1, <3>2 DEF Present, NewRequest
    <3>4. live \in BOOLEAN /\ ended \in BOOLEAN
      BY <3>1, Zenon DEF Live, Ended
    <3>5. e \in RequestRecords
      BY <1>3, <3>2, <3>4 DEF RequestRecords
    <3>6. ended => OverFor(e)
      BY <1>3, <3>1, <3>2 DEF Ended, OverFor, Active, Rows
    <3>7. RequestInv(e)
      BY <2>1, <3>2, <3>6 DEF RequestInv
    <3>8. RequestInv(e)'
      BY <2>1, <3>7 DEF RequestInv, OverFor
    <3> QED BY <1>3, <2>1, <3>3, <3>5, <3>8, RequestStep
  <2>3. CASE ~(Known(s) /\ restore.ready)
    <3>1. PICK e : e = [NewRequest EXCEPT !.pc = "refused"]
      OBVIOUS
    <3>2. requests' = [requests EXCEPT ![r] = e]
      BY <1>4, <2>3, <3>1 DEF Present
    <3>3. e \in RequestRecords /\ e.pc = "refused"
      <4>1. e = [pc |-> "refused", session |-> "none", time |-> 0, generation |-> 0,
                 admitted |-> FALSE, live |-> FALSE, ended |-> FALSE]
        BY <3>1 DEF NewRequest
      <4> QED BY <4>1 DEF RequestRecords
    <3>4. RequestInv(e)'
      BY <3>3 DEF RequestInv
    <3> QED BY <1>3, <2>1, <3>2, <3>3, <3>4, RequestStep
  <2> QED BY <2>2, <2>3
<1>5. CASE ReadKey(r)
  <2>1. /\ UNCHANGED <<now, restore, keyActive, wsActive, logins, keyLock, sessions>>
        /\ q.pc = "resuming"
    BY <1>1, <1>5 DEF ReadKey, At
  <2>2. PICK admitted : admitted = (keyActive /\ wsActive)
    OBVIOUS
  <2>3. PICK e : e = [q EXCEPT !.pc = "updating", !.admitted = admitted]
    OBVIOUS
  <2>4. requests' = [requests EXCEPT ![r] = e]
    BY <1>1, <1>2, <1>5, <2>2, <2>3 DEF ReadKey
  <2>5. admitted \in BOOLEAN
    BY <2>2, Zenon
  <2>6. /\ e \in RequestRecords /\ e.pc = "updating" /\ e.session = q.session
        /\ e.ended = q.ended /\ e.time = q.time /\ e.generation = q.generation
    BY <1>2, <2>3, <2>5 DEF RequestRecords
  <2>7. RequestInv(e)'
    BY <1>2, <2>1, <2>6 DEF RequestInv, OverFor
  <2> QED BY <1>3, <2>1, <2>4, <2>6, <2>7, RequestStep
<1>6. CASE Resume(r)
  <2> DEFINE s == q.session
  <2>1. /\ UNCHANGED <<now, restore, keyActive, wsActive, logins, keyLock>>
        /\ q.pc = "updating" /\ Resumable(sessions[s], q) /\ UpdateRow(r)
        /\ sessions' = [sessions EXCEPT ![s] = Resumed(sessions[s], q)]
    BY <1>1, <1>6 DEF Resume, UpdateRow, At, Resumes
  <2>2. PICK e : e = [q EXCEPT !.pc = "authenticated"]
    OBVIOUS
  <2>3. requests' = [requests EXCEPT ![r] = e]
    BY <1>1, <1>2, <1>6, <2>2 DEF Resume, Goes
  <2>4. /\ e \in RequestRecords /\ e.pc = "authenticated" /\ e.session = s
        /\ e.ended = q.ended
    BY <1>2, <2>2 DEF RequestRecords
  <2>5. s \in Session /\ logins[s].pc = "created"
    BY <1>2, <2>1 DEF RequestInv
  <2>6. ~q.ended
    <3>1. sessions[s] \in Rows /\ q.time \in Int
      BY <1>2, <1>3, <2>5 DEF RequestRecords
    <3> QED BY <1>2, <2>1, <3>1 DEF RequestInv, OverFor, Resumable, Rows
  <2>7. RequestInv(e)'
    BY <2>1, <2>4, <2>5, <2>6 DEF RequestInv
  <2> QED BY <2>1, <2>3, <2>4, <2>7, UpdateKept, RequestStep
<1>7. CASE RefuseRequest(r) \/ TurnAway(r) \/ View(r) \/ Mutate(r)
  <2>1. UNCHANGED <<now, restore, keyActive, wsActive, logins, keyLock, sessions>>
    BY <1>7 DEF RefuseRequest, TurnAway, View, Mutate
  <2>2. PICK pc \in {"refused", "turned away", "served"} :
          Ends(r, pc) /\ (pc # "refused" => At(r, "authenticated"))
    BY <1>7 DEF RefuseRequest, TurnAway, View, Mutate
  <2> QED BY <1>3, <2>1, <2>2, EndsStep
<1>8. CASE FailRequest(r)
  <2>1. /\ UNCHANGED <<now, restore, keyActive, wsActive, logins, keyLock>>
        /\ Ends(r, "failed") /\ (UNCHANGED sessions \/ UpdateRow(r))
    BY <1>8 DEF FailRequest
  <2> QED BY <1>3, <2>1, UpdateKept, EndsStep
<1>9. CASE Logout(r)
  <2> DEFINE s == q.session
  <2>1. /\ UNCHANGED <<now, restore, keyActive, wsActive, logins, keyLock>>
        /\ At(r, "authenticated") /\ Ends(r, "served")
        /\ sessions' = [sessions EXCEPT ![s] =
             IF s \in Active THEN Revoked(sessions[s]) ELSE sessions[s]]
    BY <1>1, <1>9 DEF Logout
  <2>2. s \in Session
    BY <1>1, <1>2, <2>1 DEF RequestInv, At
  <2>3. Revoked(sessions[s]) \in Rows /\ Revoked(sessions[s]).status = "revoked"
    BY <1>3, <2>2 DEF Revoked, Rows
  <2>4. /\ sessions' \in [Session -> Rows]
        /\ \A t \in Session : sessions'[t] = sessions[t] \/ sessions'[t].status # "active"
    BY <1>3, <2>1, <2>2, <2>3
  <2> QED BY <2>1, <2>4, EndsStep
<1> QED BY <1>4, <1>5, <1>6, <1>7, <1>8, <1>9

\* Every step of a login keeps the invariant.
LEMMA EveryLoginStep ==
  ASSUME SessionInv, NEW s \in Session,
         \/ StartLogin(s) \/ LockKey(s) \/ CountSessions(s)
         \/ RefuseOverLimit(s) \/ CreateSession(s)
  PROVE  SessionInv'
<1> USE DEF credentialVars
<1>1. /\ now \in Int /\ restore.generation \in Int
      /\ logins \in [Session -> LoginRecords] /\ logins[s] \in LoginRecords
  BY DEF SessionInv, SessionTypeOK
<1>2. PICK gone : gone = [NewLogin EXCEPT !.pc = "refused"]
  OBVIOUS
<1>3. gone \in LoginRecords /\ gone.pc = "refused"
  BY <1>2 DEF NewLogin, LoginRecords
<1>4. ASSUME RefusedLogin(s), logins[s].pc # "created",
             UNCHANGED <<now, restore, keyActive, wsActive, sessions, requests>>
      PROVE  SessionInv'
  <2>1. logins' = [logins EXCEPT ![s] = gone] /\ keyLock' = keyLock \ {s}
    BY <1>2, <1>4 DEF RefusedLogin
  <2> QED BY <1>3, <1>4, <2>1, LoginStep
<1>5. CASE StartLogin(s)
  <2>1. /\ UNCHANGED <<now, restore, keyActive, wsActive, sessions, requests>>
        /\ logins[s].pc = "new"
    BY <1>5 DEF StartLogin
  <2>2. CASE RefusedLogin(s)
    BY <1>4, <2>1, <2>2
  <2>3. CASE /\ UNCHANGED keyLock
             /\ logins' = [logins EXCEPT ![s].pc = "waiting", ![s].time = now,
                                         ![s].generation = restore.generation]
    <3>1. PICK e : e = [logins[s] EXCEPT !.pc = "waiting", !.time = now,
                                         !.generation = restore.generation]
      OBVIOUS
    <3>2. logins' = [logins EXCEPT ![s] = e]
      BY <1>1, <2>3, <3>1
    <3>3. e \in LoginRecords /\ e.pc = "waiting"
      BY <1>1, <3>1 DEF LoginRecords
    <3> QED BY <2>1, <2>3, <3>2, <3>3, LoginStep
  <2> QED BY <1>5, <2>2, <2>3 DEF StartLogin
<1>6. CASE LockKey(s)
  <2>1. /\ UNCHANGED <<now, restore, keyActive, wsActive, sessions, requests>>
        /\ logins[s].pc = "waiting" /\ keyLock = {}
    BY <1>6 DEF LockKey, KeyFree
  <2>2. CASE RefusedLogin(s)
    BY <1>4, <2>1, <2>2
  <2>3. CASE /\ keyLock' = keyLock \cup {s}
             /\ logins' = [logins EXCEPT ![s].pc = "locked"]
    <3>1. PICK e : e = [logins[s] EXCEPT !.pc = "locked"]
      OBVIOUS
    <3>2. logins' = [logins EXCEPT ![s] = e]
      BY <1>1, <2>3, <3>1
    <3>3. e \in LoginRecords /\ e.pc = "locked"
      BY <1>1, <3>1 DEF LoginRecords
    <3>4. keyLock' = {s}
      BY <2>1, <2>3
    <3> QED BY <2>1, <3>2, <3>3, <3>4, LoginStep
  <2> QED BY <1>6, <2>2, <2>3 DEF LockKey
<1>7. CASE CountSessions(s)
  <2>1. PICK over \in SUBSET Active :
          logins' = [logins EXCEPT ![s].pc = "counted", ![s].expired = over,
                                   ![s].active = Cardinality(Active \ over)]
    BY <1>7 DEF CountSessions
  <2>2. /\ UNCHANGED <<now, restore, keyActive, wsActive, sessions, requests, keyLock>>
        /\ logins[s].pc = "locked"
    BY <1>7 DEF CountSessions
  <2>3. PICK n : n = Cardinality(Active \ over)
    OBVIOUS
  <2>4. over \in SUBSET Session /\ Active \ over \in SUBSET Session
    BY DEF Active
  <2>5. n \in Nat
    BY <2>3, <2>4, FewerActive
  <2>6. PICK e : e = [logins[s] EXCEPT !.pc = "counted", !.expired = over, !.active = n]
    OBVIOUS
  <2>7. logins' = [logins EXCEPT ![s] = e]
    BY <1>1, <2>1, <2>3, <2>6
  <2>8. e \in LoginRecords /\ e.pc = "counted" /\ e.expired = over /\ e.active = n
    <3>1. e.pc = "counted" /\ e.expired = over /\ e.active = n
      BY <1>1, <2>6 DEF LoginRecords
    <3>2. over \in SUBSET Session /\ n \in Int
      BY <2>4, <2>5
    <3>3. e \in LoginRecords
      BY <1>1, <2>6, <3>2 DEF LoginRecords
    <3> QED BY <3>1, <3>3
  <2>9. Cardinality(Active \ e.expired) <= e.active
    BY <2>3, <2>5, <2>8
  <2> QED BY <2>2, <2>7, <2>8, <2>9, LoginStep
<1>8. CASE RefuseOverLimit(s)
  BY <1>4, <1>8 DEF RefuseOverLimit
<1>9. CASE CreateSession(s)
  BY <1>9, CreateStep
<1> QED BY <1>5, <1>6, <1>7, <1>8, <1>9

\* Every step of the system keeps the invariant.
LEMMA SessionStep == SessionInv /\ [Next]_vars => SessionInv'
<1> SUFFICES ASSUME SessionInv, [Next]_vars PROVE SessionInv'
  OBVIOUS
<1>1. /\ now \in Int /\ restore \in [generation : Int, ready : BOOLEAN]
      /\ keyActive \in BOOLEAN /\ wsActive \in BOOLEAN
  BY DEF SessionInv, SessionTypeOK
<1> USE DEF credentialVars
<1>2. ASSUME UNCHANGED sessionVars, keyActive' \in BOOLEAN PROVE SessionInv'
  BY <1>1, <1>2, SurroundingsStep DEF sessionVars
<1>3. CASE Quarantine
  <2>1. /\ UNCHANGED <<now, logins, keyLock, sessions, requests>>
        /\ restore' \in [generation : Int, ready : BOOLEAN]
    BY <1>1, <1>3 DEF Quarantine
  <2>2. keyActive' \in BOOLEAN /\ wsActive' \in BOOLEAN
    BY <1>3, Zenon DEF Quarantine
  <2> QED BY <1>1, <2>1, <2>2, SurroundingsStep
<1>4. CASE Reconcile
  <2>1. /\ UNCHANGED <<now, keyActive, wsActive, logins, keyLock, sessions, requests>>
        /\ restore' \in [generation : Int, ready : BOOLEAN]
    BY <1>1, <1>4 DEF Reconcile
  <2> QED BY <1>1, <2>1, SurroundingsStep
<1>5. CASE Reinstate
  <2>1. UNCHANGED <<now, restore, logins, keyLock, sessions, requests>>
    BY <1>5 DEF Reinstate
  <2>2. keyActive' \in BOOLEAN /\ wsActive' \in BOOLEAN
    BY <1>1, <1>5, Zenon DEF Reinstate
  <2> QED BY <1>1, <2>1, <2>2, SurroundingsStep
<1>6. CASE Tick
  <2>1. /\ UNCHANGED <<restore, keyActive, wsActive, logins, keyLock, sessions, requests>>
        /\ now' \in Int
    BY <1>1, <1>6 DEF Tick
  <2> QED BY <1>1, <2>1, SurroundingsStep
<1>7. CASE PurgeSessions
  BY <1>7, PurgeStep
<1>8. CASE SessionNext
  BY <1>3, <1>4, <1>5, <1>6, <1>7, <1>8, EveryLoginStep, EveryRequestStep DEF SessionNext
<1>9. CASE CredentialNext /\ UNCHANGED sessionVars
  <2>1. keyActive' \in {TRUE, FALSE, keyActive}
    BY <1>9, Zenon DEF CredentialNext, LockBootstrap, RefuseBootstrap, CreateFile, PersistFile,
         PersistFails, CommitApplies, CommitFails, CommitAnswered, AnswerLost, CleanUp,
         PowerLoss, RevokeKey
  <2> QED BY <1>1, <1>2, <1>9, <2>1, Zenon
<1>10. CASE UNCHANGED vars
  BY <1>1, <1>2, <1>10, Zenon DEF vars
<1> QED BY <1>8, <1>9, <1>10 DEF Next

\* However many logins of a key run at once, and whatever expires, is purged or
\* rolled back meanwhile, it has never more than Limit active sessions; for any
\* limit and any lifetimes.
THEOREM SessionsWithinLimit == Spec => []SessionLimit
<1>1. SessionInv => SessionLimit
  BY DEF SessionInv
<1> QED BY <1>1, SessionInitial, SessionStep, PTL DEF Spec

\* A request whose session had already ended when it was presented (logged out,
\* revoked, past its absolute expiry, of an older generation) is never served,
\* whatever runs between its two reads of the database.
THEOREM EndedSessionServesNothing == Spec => []ServedOnlyWhileOpen
<1>1. SessionInv => ServedOnlyWhileOpen
  BY DEF SessionInv, RequestInv, ServedOnlyWhileOpen, At
<1> QED BY <1>1, SessionInitial, SessionStep, PTL DEF Spec

\* The types of the console's part of the state.
THEOREM ConsoleTypes == Spec => []SessionTypeOK
<1>1. SessionInv => SessionTypeOK
  BY DEF SessionInv
<1> QED BY <1>1, SessionInitial, SessionStep, PTL DEF Spec

-----------------------------------------------------------------------------
\* The key of the bootstrap.

CommandPc == {"new", "locked", "writing", "written", "failed", "applied", "ok",
              "unknown", "error", "error unknown"}

CredentialTypeOK ==
  /\ commands \in [Command -> [pc : CommandPc, path : Path]]
  /\ bootLock \in SUBSET Command
  /\ workspace \in Command \cup {NoWorkspace}
  /\ files \in [Path -> [key : Command \cup {"none"}, synced : BOOLEAN]]

FileOf(c) == files[commands[c].path]

\* What a command that has the lock, or a file, knows.
CommandInv(c) ==
  /\ commands[c].pc \in {"locked", "writing", "written"} => bootLock = {c}
  /\ commands[c].pc \in {"writing", "written"} => workspace = NoWorkspace
  /\ commands[c].pc \in {"writing", "failed"} => FileOf(c).key = c
  /\ commands[c].pc = "written" => FileOf(c) = [key |-> c, synced |-> TRUE]
  /\ commands[c].pc \in {"new", "locked", "failed"} => workspace # c
  /\ commands[c].pc \in {"applied", "ok", "unknown"} => workspace = c

\* The committed key is in the file of its command, unless that command removed it.
CommittedKept ==
  workspace # NoWorkspace =>
    \/ commands[workspace].pc = "error unknown"
    \/ FileOf(workspace) = [key |-> workspace, synced |-> TRUE]

CredentialInv ==
  /\ CredentialTypeOK
  /\ \A c \in Command : CommandInv(c)
  /\ CommittedKept

\* The first state satisfies the invariant: no command holds anything.
LEMMA CredentialInitial == CredentialInit => CredentialInv
<1> SUFFICES ASSUME CredentialInit PROVE CredentialInv
  OBVIOUS
<1>1. CredentialTypeOK
  BY DEF CredentialInit, CredentialTypeOK, CommandPc, NoFile
<1>2. \A c \in Command : CommandInv(c)
  BY CredentialAssumption DEF CredentialInit, CommandInv, NoWorkspace
<1>3. CommittedKept
  BY DEF CredentialInit, CommittedKept
<1> QED BY <1>1, <1>2, <1>3 DEF CredentialInv

\* A command moves: its path and the other commands stay as they are.
LEMMA OneMoves ==
  ASSUME CredentialTypeOK, NEW c \in Command, NEW pc \in CommandPc, Moves(c, pc)
  PROVE  /\ commands' \in [Command -> [pc : CommandPc, path : Path]]
         /\ commands'[c].pc = pc
         /\ \A d \in Command : commands'[d].path = commands[d].path
         /\ \A d \in Command \ {c} : commands'[d].pc = commands[d].pc
BY DEF CredentialTypeOK, Moves

\* A command writes its file: the others stay as they are.
LEMMA OneFile ==
  ASSUME CredentialTypeOK, NEW c \in Command,
         NEW file \in [key : Command \cup {"none"}, synced : BOOLEAN],
         files' = [files EXCEPT ![commands[c].path] = file]
  PROVE  /\ files' \in [Path -> [key : Command \cup {"none"}, synced : BOOLEAN]]
         /\ files'[commands[c].path] = file
         /\ \A p \in Path \ {commands[c].path} : files'[p] = files[p]
BY DEF CredentialTypeOK

\* The record of a command with another pc.
LEMMA RecordMoves ==
  ASSUME NEW P, NEW Q, NEW x \in [pc : P, path : Q], NEW e \in P,
         NEW y, y = [x EXCEPT !.pc = e]
  PROVE  /\ y \in [pc : P, path : Q]
         /\ y.pc = e /\ y.path = x.path
OBVIOUS

\* The fields of the record of a file.
LEMMA RecordFields ==
  ASSUME NEW x, NEW k, NEW b, x = [key |-> k, synced |-> b]
  PROVE  x.key = k /\ x.synced = b
OBVIOUS

\* A file that holds the key of one command is not the one another one works on.
LEMMA OwnFile ==
  ASSUME NEW c \in Command, NEW d \in Command, c # d, CommandInv(d), FileOf(c).key = c,
         commands[d].pc \in {"writing", "written", "failed"}
  PROVE  commands[d].path # commands[c].path
<1>1. FileOf(d).key = d
  <2>1. CASE commands[d].pc \in {"writing", "failed"}
    BY <2>1 DEF CommandInv
  <2>2. CASE commands[d].pc = "written"
    BY <2>2 DEF CommandInv
  <2> QED BY <2>1, <2>2
<1> QED BY <1>1 DEF FileOf

\* The steps of one command.
CommandNext(c) ==
  \/ LockBootstrap(c) \/ RefuseBootstrap(c) \/ CreateFile(c) \/ PersistFile(c)
  \/ PersistFails(c) \/ CommitApplies(c) \/ CommitFails(c) \/ CommitAnswered(c)
  \/ AnswerLost(c) \/ CleanUp(c)

\* Every step of a command keeps the invariant.
LEMMA CommandStep ==
  ASSUME CredentialInv, NEW c \in Command, CommandNext(c)
  PROVE  CredentialInv'
<1> USE CredentialAssumption DEF CredentialInv, CredentialTypeOK, CommandInv, CommittedKept, FileOf,
                                 CommandAt, RollsBack, NoWorkspace, NoFile
<1>1. CASE LockBootstrap(c)
  <2>1. /\ commands' \in [Command -> [pc : CommandPc, path : Path]]
        /\ commands'[c].pc = "locked"
        /\ \A d \in Command : commands'[d].path = commands[d].path
        /\ \A d \in Command \ {c} : commands'[d].pc = commands[d].pc
    BY <1>1, OneMoves DEF LockBootstrap, CommandPc
  <2>3. CredentialTypeOK'
    BY <1>1, <2>1 DEF LockBootstrap
  <2>4. ASSUME NEW d \in Command PROVE CommandInv(d)'
    <3>1. CommandInv(c) /\ CommandInv(d)
      OBVIOUS
    <3>2. CASE d = c
      BY <1>1, <2>1, <3>1, <3>2 DEF LockBootstrap
    <3>3. CASE d # c
      BY <1>1, <2>1, <3>1, <3>3 DEF LockBootstrap
    <3> QED BY <3>2, <3>3
  <2>5. CommittedKept'
    BY <1>1, <2>1 DEF LockBootstrap
  <2> QED BY <2>3, <2>4, <2>5
<1>2. CASE RefuseBootstrap(c)
  <2>1. /\ commands' \in [Command -> [pc : CommandPc, path : Path]]
        /\ commands'[c].pc = "error"
        /\ \A d \in Command : commands'[d].path = commands[d].path
        /\ \A d \in Command \ {c} : commands'[d].pc = commands[d].pc
    BY <1>2, OneMoves DEF RefuseBootstrap, CommandPc
  <2>3. CredentialTypeOK'
    BY <1>2, <2>1 DEF RefuseBootstrap
  <2>4. ASSUME NEW d \in Command PROVE CommandInv(d)'
    <3>1. CommandInv(c) /\ CommandInv(d)
      OBVIOUS
    <3>2. CASE d = c
      BY <1>2, <2>1, <3>1, <3>2 DEF RefuseBootstrap
    <3>3. CASE d # c
      BY <1>2, <2>1, <3>1, <3>3 DEF RefuseBootstrap
    <3> QED BY <3>2, <3>3
  <2>5. CommittedKept'
    BY <1>2, <2>1 DEF RefuseBootstrap
  <2> QED BY <2>3, <2>4, <2>5
<1>3. CASE CreateFile(c) /\ files[commands[c].path] = NoFile
  <2>1. /\ commands' \in [Command -> [pc : CommandPc, path : Path]]
        /\ commands'[c].pc = "writing"
        /\ \A d \in Command : commands'[d].path = commands[d].path
        /\ \A d \in Command \ {c} : commands'[d].pc = commands[d].pc
    BY <1>3, OneMoves DEF CreateFile, CommandPc
  <2>2. /\ files' \in [Path -> [key : Command \cup {"none"}, synced : BOOLEAN]]
        /\ files'[commands[c].path] = [key |-> c, synced |-> FALSE]
        /\ \A p \in Path \ {commands[c].path} : files'[p] = files[p]
    BY <1>3, OneFile DEF CreateFile, Persisted
  <2>3. CredentialTypeOK'
    BY <1>3, <2>1, <2>2 DEF CreateFile
  <2>4. ASSUME NEW d \in Command PROVE CommandInv(d)'
    <3>1. CommandInv(c) /\ CommandInv(d)
      OBVIOUS
    <3>2. CASE d = c
      BY <1>3, <2>1, <2>2, <3>1, <3>2 DEF CreateFile
    <3>3. CASE d # c
      BY <1>3, <2>1, <2>2, <3>1, <3>3 DEF CreateFile
    <3> QED BY <3>2, <3>3
  <2>5. CommittedKept'
    BY <1>3, <2>1, <2>2 DEF CreateFile
  <2> QED BY <2>3, <2>4, <2>5
<1>4. CASE CreateFile(c) /\ files[commands[c].path] # NoFile
  <2>1. /\ commands' \in [Command -> [pc : CommandPc, path : Path]]
        /\ commands'[c].pc = "error"
        /\ \A d \in Command : commands'[d].path = commands[d].path
        /\ \A d \in Command \ {c} : commands'[d].pc = commands[d].pc
    BY <1>4, OneMoves DEF CreateFile, CommandPc
  <2>3. CredentialTypeOK'
    BY <1>4, <2>1 DEF CreateFile
  <2>4. ASSUME NEW d \in Command PROVE CommandInv(d)'
    <3>1. CommandInv(c) /\ CommandInv(d)
      OBVIOUS
    <3>2. CASE d = c
      BY <1>4, <2>1, <3>1, <3>2 DEF CreateFile
    <3>3. CASE d # c
      BY <1>4, <2>1, <3>1, <3>3 DEF CreateFile
    <3> QED BY <3>2, <3>3
  <2>5. CommittedKept'
    BY <1>4, <2>1 DEF CreateFile
  <2> QED BY <2>3, <2>4, <2>5
<1>5. CASE PersistFile(c)
  <2>1. /\ commands' \in [Command -> [pc : CommandPc, path : Path]]
        /\ commands'[c].pc = "written"
        /\ \A d \in Command : commands'[d].path = commands[d].path
        /\ \A d \in Command \ {c} : commands'[d].pc = commands[d].pc
    BY <1>5, OneMoves DEF PersistFile, CommandPc
  <2>2. /\ files' \in [Path -> [key : Command \cup {"none"}, synced : BOOLEAN]]
        /\ files'[commands[c].path] = [key |-> c, synced |-> TRUE]
        /\ \A p \in Path \ {commands[c].path} : files'[p] = files[p]
    BY <1>5, OneFile DEF PersistFile, Persisted
  <2>3. CredentialTypeOK'
    BY <1>5, <2>1, <2>2 DEF PersistFile
  <2>4. ASSUME NEW d \in Command PROVE CommandInv(d)'
    <3>1. CommandInv(c) /\ CommandInv(d)
      OBVIOUS
    <3>2. CASE d = c
      BY <1>5, <2>1, <2>2, <3>1, <3>2 DEF PersistFile
    <3>3. CASE d # c
      BY <1>5, <2>1, <2>2, <3>1, <3>3 DEF PersistFile
    <3> QED BY <3>2, <3>3
  <2>5. CommittedKept'
    BY <1>5, <2>1, <2>2 DEF PersistFile
  <2> QED BY <2>3, <2>4, <2>5
<1>6. CASE PersistFails(c)
  <2>1. /\ commands' \in [Command -> [pc : CommandPc, path : Path]]
        /\ commands'[c].pc = "error"
        /\ \A d \in Command : commands'[d].path = commands[d].path
        /\ \A d \in Command \ {c} : commands'[d].pc = commands[d].pc
    BY <1>6, OneMoves DEF PersistFails, CommandPc
  <2>2. /\ files' \in [Path -> [key : Command \cup {"none"}, synced : BOOLEAN]]
        /\ files'[commands[c].path] = NoFile
        /\ \A p \in Path \ {commands[c].path} : files'[p] = files[p]
    BY <1>6, OneFile DEF PersistFails, Persisted
  <2>3. CredentialTypeOK'
    BY <1>6, <2>1, <2>2 DEF PersistFails
  <2>4. ASSUME NEW d \in Command PROVE CommandInv(d)'
    <3>1. CommandInv(c) /\ CommandInv(d)
      OBVIOUS
    <3>2. CASE d = c
      BY <1>6, <2>1, <2>2, <3>1, <3>2 DEF PersistFails
    <3>3. CASE d # c
      BY <1>6, <2>1, <2>2, <3>1, <3>3 DEF PersistFails
    <3> QED BY <3>2, <3>3
  <2>5. CommittedKept'
    BY <1>6, <2>1, <2>2 DEF PersistFails
  <2> QED BY <2>3, <2>4, <2>5
<1>7. CASE CommitApplies(c)
  <2>1. /\ commands' \in [Command -> [pc : CommandPc, path : Path]]
        /\ commands'[c].pc = "applied"
        /\ \A d \in Command : commands'[d].path = commands[d].path
        /\ \A d \in Command \ {c} : commands'[d].pc = commands[d].pc
    BY <1>7, OneMoves DEF CommitApplies, CommandPc
  <2>3. CredentialTypeOK'
    BY <1>7, <2>1 DEF CommitApplies
  <2>4. ASSUME NEW d \in Command PROVE CommandInv(d)'
    <3>1. CommandInv(c) /\ CommandInv(d)
      OBVIOUS
    <3>2. CASE d = c
      BY <1>7, <2>1, <3>1, <3>2 DEF CommitApplies
    <3>3. CASE d # c
      BY <1>7, <2>1, <3>1, <3>3 DEF CommitApplies
    <3> QED BY <3>2, <3>3
  <2>5. CommittedKept'
    BY <1>7, <2>1 DEF CommitApplies
  <2> QED BY <2>3, <2>4, <2>5
<1>8. CASE CommitFails(c)
  <2>1. /\ commands' \in [Command -> [pc : CommandPc, path : Path]]
        /\ commands'[c].pc = "failed"
        /\ \A d \in Command : commands'[d].path = commands[d].path
        /\ \A d \in Command \ {c} : commands'[d].pc = commands[d].pc
    BY <1>8, OneMoves DEF CommitFails, CommandPc
  <2>3. CredentialTypeOK'
    BY <1>8, <2>1 DEF CommitFails
  <2>4. ASSUME NEW d \in Command PROVE CommandInv(d)'
    <3>1. CommandInv(c) /\ CommandInv(d)
      OBVIOUS
    <3>2. CASE d = c
      BY <1>8, <2>1, <3>1, <3>2 DEF CommitFails
    <3>3. CASE d # c
      BY <1>8, <2>1, <3>1, <3>3 DEF CommitFails
    <3> QED BY <3>2, <3>3
  <2>5. CommittedKept'
    BY <1>8, <2>1 DEF CommitFails
  <2> QED BY <2>3, <2>4, <2>5
<1>9. CASE CommitAnswered(c)
  <2>1. /\ commands' \in [Command -> [pc : CommandPc, path : Path]]
        /\ commands'[c].pc = "ok"
        /\ \A d \in Command : commands'[d].path = commands[d].path
        /\ \A d \in Command \ {c} : commands'[d].pc = commands[d].pc
    BY <1>9, OneMoves DEF CommitAnswered, CommandPc
  <2>3. CredentialTypeOK'
    BY <1>9, <2>1 DEF CommitAnswered
  <2>4. ASSUME NEW d \in Command PROVE CommandInv(d)'
    <3>1. CommandInv(c) /\ CommandInv(d)
      OBVIOUS
    <3>2. CASE d = c
      BY <1>9, <2>1, <3>1, <3>2 DEF CommitAnswered
    <3>3. CASE d # c
      BY <1>9, <2>1, <3>1, <3>3 DEF CommitAnswered
    <3> QED BY <3>2, <3>3
  <2>5. CommittedKept'
    BY <1>9, <2>1 DEF CommitAnswered
  <2> QED BY <2>3, <2>4, <2>5
<1>10. CASE AnswerLost(c)
  <2>1. /\ commands' \in [Command -> [pc : CommandPc, path : Path]]
        /\ commands'[c].pc = "unknown"
        /\ \A d \in Command : commands'[d].path = commands[d].path
        /\ \A d \in Command \ {c} : commands'[d].pc = commands[d].pc
    BY <1>10, OneMoves DEF AnswerLost, CommandPc
  <2>3. CredentialTypeOK'
    BY <1>10, <2>1 DEF AnswerLost
  <2>4. ASSUME NEW d \in Command PROVE CommandInv(d)'
    <3>1. CommandInv(c) /\ CommandInv(d)
      OBVIOUS
    <3>2. CASE d = c
      BY <1>10, <2>1, <3>1, <3>2 DEF AnswerLost
    <3>3. CASE d # c
      BY <1>10, <2>1, <3>1, <3>3 DEF AnswerLost
    <3> QED BY <3>2, <3>3
  <2>5. CommittedKept'
    BY <1>10, <2>1 DEF AnswerLost
  <2> QED BY <2>3, <2>4, <2>5
<1>11. CASE CleanUp(c) /\ commands[c].pc = "failed"
  <2>1. /\ commands' \in [Command -> [pc : CommandPc, path : Path]]
        /\ commands'[c].pc = "error"
        /\ \A d \in Command : commands'[d].path = commands[d].path
        /\ \A d \in Command \ {c} : commands'[d].pc = commands[d].pc
    BY <1>11, OneMoves DEF CleanUp, CommandPc
  <2>2. /\ files' \in [Path -> [key : Command \cup {"none"}, synced : BOOLEAN]]
        /\ files'[commands[c].path] = NoFile
        /\ \A p \in Path \ {commands[c].path} : files'[p] = files[p]
    BY <1>11, OneFile DEF CleanUp, Persisted
  <2>u. UNCHANGED <<bootLock, workspace>>
    BY <1>11 DEF CleanUp
  <2>c. CommandInv(c)
    OBVIOUS
  <2>k. FileOf(c).key = c
    BY <1>11, <2>c
  <2>3. CredentialTypeOK'
    BY <1>11, <2>1, <2>2, <2>u, <2>c
  <2>4. ASSUME NEW d \in Command PROVE CommandInv(d)'
    <3>1. CommandInv(c) /\ CommandInv(d)
      OBVIOUS
    <3>0. commands[d].pc \in {"writing", "written", "failed"} /\ d # c => commands[d].path # commands[c].path
      BY <2>k, <3>1, OwnFile
    <3>2. CASE d = c
      BY <1>11, <2>1, <2>2, <2>u, <2>c, <3>1, <3>2
    <3>3. CASE d # c
      <4>1. UNCHANGED <<bootLock, workspace>> /\ commands'[d].pc = commands[d].pc
        BY <2>1, <2>u, <3>3
      <4>2. commands[d].pc \in {"writing", "written", "failed"} => FileOf(d)' = FileOf(d)
        BY <2>1, <2>2, <3>0, <3>3
      <4> HIDE DEF FileOf, CredentialInv
      <4> QED BY <3>1, <4>1, <4>2
    <3> QED BY <3>2, <3>3
  <2>5. CommittedKept'
    <3> SUFFICES ASSUME workspace # NoWorkspace PROVE CommittedKept'
      BY <2>u
    <3>1. workspace \in Command
      OBVIOUS
    <3>2. CASE workspace = c
      BY <1>11, <2>1, <2>u, <2>c, <3>2
    <3>3. CASE workspace # c /\ commands[workspace].pc = "error unknown"
      BY <2>1, <2>u, <3>1, <3>3
    <3>4. CASE workspace # c /\ FileOf(workspace) = [key |-> workspace, synced |-> TRUE]
      <4>1. commands[workspace].path # commands[c].path
        BY <1>11, <2>c, <3>1, <3>4
      <4>2. commands[workspace].path \in Path
        BY <3>1
      <4>3. files'[commands[workspace].path] = [key |-> workspace, synced |-> TRUE]
        BY <2>2, <3>4, <4>1, <4>2
      <4>4. workspace' = workspace /\ commands'[workspace].path = commands[workspace].path
        BY <2>1, <2>u, <3>1
      <4> HIDE DEF CredentialInv
      <4> QED BY <4>3, <4>4
    <3> QED BY <3>2, <3>3, <3>4
  <2> QED BY <2>3, <2>4, <2>5
<1>12. CASE CleanUp(c) /\ commands[c].pc = "unknown"
  <2>1. /\ commands' \in [Command -> [pc : CommandPc, path : Path]]
        /\ commands'[c].pc = "error unknown"
        /\ \A d \in Command : commands'[d].path = commands[d].path
        /\ \A d \in Command \ {c} : commands'[d].pc = commands[d].pc
    BY <1>12, OneMoves DEF CleanUp, CommandPc
  <2>2. /\ files' \in [Path -> [key : Command \cup {"none"}, synced : BOOLEAN]]
        /\ files'[commands[c].path] = NoFile
        /\ \A p \in Path \ {commands[c].path} : files'[p] = files[p]
    BY <1>12, OneFile DEF CleanUp, Persisted
  <2>u. UNCHANGED <<bootLock, workspace>>
    BY <1>12 DEF CleanUp
  <2>c. CommandInv(c)
    OBVIOUS
  <2>k. FileOf(c).key = c
    <3>1. workspace = c /\ commands[c].pc # "error unknown"
      BY <1>12, <2>c
    <3>2. FileOf(c) = [key |-> c, synced |-> TRUE]
      BY <3>1
    <3> HIDE DEF FileOf, CredentialInv
    <3> QED BY <3>2, RecordFields
  <2>3. CredentialTypeOK'
    BY <1>12, <2>1, <2>2, <2>u, <2>c
  <2>4. ASSUME NEW d \in Command PROVE CommandInv(d)'
    <3>1. CommandInv(c) /\ CommandInv(d)
      OBVIOUS
    <3>0. commands[d].pc \in {"writing", "written", "failed"} /\ d # c => commands[d].path # commands[c].path
      BY <2>k, <3>1, OwnFile
    <3>2. CASE d = c
      BY <1>12, <2>1, <2>2, <2>u, <2>c, <3>1, <3>2
    <3>3. CASE d # c
      <4>1. UNCHANGED <<bootLock, workspace>> /\ commands'[d].pc = commands[d].pc
        BY <2>1, <2>u, <3>3
      <4>2. commands[d].pc \in {"writing", "written", "failed"} => FileOf(d)' = FileOf(d)
        BY <2>1, <2>2, <3>0, <3>3
      <4> HIDE DEF FileOf, CredentialInv
      <4> QED BY <3>1, <4>1, <4>2
    <3> QED BY <3>2, <3>3
  <2>5. CommittedKept'
    <3> SUFFICES ASSUME workspace # NoWorkspace PROVE CommittedKept'
      BY <2>u
    <3>1. workspace \in Command
      OBVIOUS
    <3>2. CASE workspace = c
      BY <1>12, <2>1, <2>u, <2>c, <3>2
    <3>3. CASE workspace # c /\ commands[workspace].pc = "error unknown"
      BY <2>1, <2>u, <3>1, <3>3
    <3>4. CASE workspace # c /\ FileOf(workspace) = [key |-> workspace, synced |-> TRUE]
      <4>1. commands[workspace].path # commands[c].path
        BY <1>12, <2>c, <3>1, <3>4
      <4>2. commands[workspace].path \in Path
        BY <3>1
      <4>3. files'[commands[workspace].path] = [key |-> workspace, synced |-> TRUE]
        BY <2>2, <3>4, <4>1, <4>2
      <4>4. workspace' = workspace /\ commands'[workspace].path = commands[workspace].path
        BY <2>1, <2>u, <3>1
      <4> HIDE DEF CredentialInv
      <4> QED BY <4>3, <4>4
    <3> QED BY <3>2, <3>3, <3>4
  <2> QED BY <2>3, <2>4, <2>5
<1> QED BY <1>1, <1>2, <1>3, <1>4, <1>5, <1>6, <1>7, <1>8, <1>9, <1>10, <1>11, <1>12 DEF CommandNext, CleanUp

\* What a loss of power leaves agrees with the invariant.
LEMMA PowerLossStep == CredentialInv /\ PowerLoss => CredentialInv'
<1> SUFFICES ASSUME CredentialInv, PowerLoss PROVE CredentialInv'
  OBVIOUS
<1> USE CredentialAssumption DEF CredentialInv, CredentialTypeOK, CommandInv, CommittedKept, FileOf,
                                 NoWorkspace, NoFile
<1>1. /\ commands' \in [Command -> [pc : CommandPc, path : Path]]
      /\ \A d \in Command :
           /\ commands'[d].path = commands[d].path
           /\ commands'[d].pc \in {commands[d].pc, "error", "error unknown"}
           /\ commands'[d].pc \in {"new", "ok", "error", "error unknown"}
           /\ commands[d].pc \in {"ok", "unknown", "error unknown"} =>
                commands'[d].pc \in {commands[d].pc, "error unknown"}
           /\ commands[d].pc = "ok" => commands'[d].pc = commands[d].pc
           /\ commands'[d].pc \in {"new", "ok"} => commands[d].pc = commands'[d].pc
  <2>1. ASSUME NEW d \in Command
        PROVE  /\ commands'[d] \in [pc : CommandPc, path : Path]
               /\ commands'[d].path = commands[d].path
               /\ \/ commands[d].pc \in {"new", "ok", "error", "error unknown"}
                       /\ commands'[d].pc = commands[d].pc
                  \/ commands[d].pc = "unknown" /\ commands'[d].pc = "error unknown"
                  \/ commands[d].pc \notin {"new", "ok", "unknown", "error", "error unknown"}
                       /\ commands'[d].pc = "error"
    <3> DEFINE e == IF commands[d].pc = "unknown" THEN "error unknown" ELSE "error"
    <3>1. commands'[d] = IF commands[d].pc \in {"new", "ok", "error", "error unknown"}
                         THEN commands[d] ELSE [commands[d] EXCEPT !.pc = e]
      BY DEF PowerLoss
    <3>2. /\ commands[d].pc = "unknown" => e = "error unknown"
          /\ commands[d].pc # "unknown" => e = "error"
          /\ e \in CommandPc
      BY DEF CommandPc
    <3> HIDE DEF e
    <3>3. commands[d] \in [pc : CommandPc, path : Path]
      OBVIOUS
    <3> HIDE DEF CredentialInv
    <3>4. CASE commands[d].pc \in {"new", "ok", "error", "error unknown"}
      BY <3>1, <3>3, <3>4
    <3>5. CASE commands[d].pc \notin {"new", "ok", "error", "error unknown"}
      <4>1. commands'[d] = [commands[d] EXCEPT !.pc = e]
        BY <3>1, <3>5
      <4>2. /\ commands'[d] \in [pc : CommandPc, path : Path]
            /\ commands'[d].pc = e /\ commands'[d].path = commands[d].path
        BY <3>2, <3>3, <4>1, RecordMoves
      <4> QED BY <3>2, <3>5, <4>2
    <3> QED BY <3>4, <3>5
  <2>2. commands' = [d \in Command |-> commands'[d]]
    BY DEF PowerLoss
  <2>4. commands' \in [Command -> [pc : CommandPc, path : Path]]
    BY <2>1, <2>2
  <2>5. ASSUME NEW d \in Command
        PROVE  /\ commands'[d].path = commands[d].path
               /\ commands'[d].pc \in {commands[d].pc, "error", "error unknown"}
               /\ commands'[d].pc \in {"new", "ok", "error", "error unknown"}
               /\ commands[d].pc \in {"ok", "unknown", "error unknown"} =>
                    commands'[d].pc \in {commands[d].pc, "error unknown"}
               /\ commands[d].pc = "ok" => commands'[d].pc = commands[d].pc
               /\ commands'[d].pc \in {"new", "ok"} => commands[d].pc = commands'[d].pc
    <3> HIDE DEF CredentialInv
    <3> QED BY <2>1
  <2> QED BY <2>4, <2>5
<1>2. /\ files' \in [Path -> [key : Command \cup {"none"}, synced : BOOLEAN]]
      /\ \A p \in Path : files[p].synced => files'[p] = files[p]
  <2>1. PICK lost \in SUBSET {p \in Path : ~files[p].synced} :
          files' = [p \in Path |-> IF p \in lost THEN NoFile ELSE files[p]]
    BY DEF PowerLoss
  <2> QED BY <2>1
<1>3. CredentialTypeOK'
  BY <1>1, <1>2 DEF PowerLoss
<1>4. ASSUME NEW d \in Command PROVE CommandInv(d)'
  BY <1>1 DEF PowerLoss
<1>5. CommittedKept'
  <2>1. workspace' = workspace
    BY DEF PowerLoss
  <2> SUFFICES ASSUME workspace # NoWorkspace PROVE CommittedKept'
    BY <2>1
  <2>2. workspace \in Command
    OBVIOUS
  <2>3. CASE commands[workspace].pc = "error unknown"
    BY <1>1, <2>1, <2>2, <2>3
  <2>4. CASE FileOf(workspace) = [key |-> workspace, synced |-> TRUE]
    <3>1. commands[workspace].path \in Path /\ commands'[workspace].path = commands[workspace].path
      BY <1>1, <2>2
    <3>2. files'[commands[workspace].path] = [key |-> workspace, synced |-> TRUE]
      BY <1>2, <2>4, <3>1
    <3> QED BY <2>1, <3>1, <3>2
  <2> QED BY <2>3, <2>4
<1> QED BY <1>3, <1>4, <1>5

\* The console only reads what the commands leave.
LEMMA ConsoleKeepsCommands ==
  SessionNext => UNCHANGED <<commands, bootLock, workspace, files>>
<1> SUFFICES ASSUME SessionNext PROVE UNCHANGED <<commands, bootLock, workspace, files>>
  OBVIOUS
<1> USE DEF credentialVars, unchangedButRequests
<1>1. ASSUME NEW s \in Session, \/ StartLogin(s) \/ LockKey(s) \/ CountSessions(s)
                                \/ RefuseOverLimit(s) \/ CreateSession(s)
      PROVE  UNCHANGED <<commands, bootLock, workspace, files>>
  BY <1>1 DEF StartLogin, LockKey, CountSessions, RefuseOverLimit, CreateSession
<1>2. ASSUME NEW r \in Request, NEW s \in Session, Present(r, s)
      PROVE  UNCHANGED <<commands, bootLock, workspace, files>>
  BY <1>2 DEF Present
<1>3. ASSUME NEW r \in Request, \/ ReadKey(r) \/ Resume(r) \/ RefuseRequest(r) \/ FailRequest(r)
                                \/ TurnAway(r) \/ View(r) \/ Mutate(r) \/ Logout(r)
      PROVE  UNCHANGED <<commands, bootLock, workspace, files>>
  BY <1>3 DEF ReadKey, Resume, RefuseRequest, FailRequest, TurnAway, View, Mutate, Logout
<1>4. ASSUME PurgeSessions \/ Quarantine \/ Reconcile \/ Reinstate \/ Tick
      PROVE  UNCHANGED <<commands, bootLock, workspace, files>>
  BY <1>4 DEF PurgeSessions, Quarantine, Reconcile, Reinstate, Tick
<1> QED BY <1>1, <1>2, <1>3, <1>4 DEF SessionNext

\* The invariant says that the key is known.
LEMMA CredentialInvImplies == CredentialInv => CredentialKnown
<1> SUFFICES ASSUME CredentialInv PROVE CredentialKnown
  OBVIOUS
<1>1. workspace # NoWorkspace => workspace \in Command
  BY DEF CredentialInv, CredentialTypeOK
<1>2. \A c \in Command : commands[c].path \in Path
  BY DEF CredentialInv, CredentialTypeOK
<1>3. ASSUME workspace # NoWorkspace, commands[workspace].pc # "error unknown"
      PROVE  HandedOut(workspace)
  BY <1>1, <1>2, <1>3 DEF CredentialInv, CommittedKept, FileOf, HandedOut
<1>4. ASSUME NEW c \in Command, CommandAt(c, "ok") PROVE workspace = c /\ HandedOut(c)
  <2>1. commands[c].pc = "ok" /\ workspace = c
    BY <1>4 DEF CredentialInv, CommandInv, CommandAt
  <2>2. workspace # NoWorkspace /\ commands[workspace].pc # "error unknown"
    BY <2>1, CredentialAssumption DEF NoWorkspace
  <2> QED BY <1>3, <2>1, <2>2
<1> QED BY <1>3, <1>4 DEF CredentialKnown, CommandAt

\* Every step keeps what the commands know.
LEMMA CredentialStep == CredentialInv /\ [Next]_vars => CredentialInv'
<1> SUFFICES ASSUME CredentialInv, [Next]_vars PROVE CredentialInv'
  OBVIOUS
<1>1. CASE UNCHANGED <<commands, bootLock, workspace, files>>
  BY <1>1 DEF CredentialInv, CredentialTypeOK, CommandInv, CommittedKept, FileOf
<1>2. CASE SessionNext
  BY <1>1, <1>2, ConsoleKeepsCommands
<1>3. ASSUME NEW c \in Command, CommandNext(c) PROVE CredentialInv'
  BY <1>3, CommandStep
<1>4. CASE PowerLoss
  BY <1>4, PowerLossStep
<1>5. CASE RevokeKey
  BY <1>1, <1>5 DEF RevokeKey
<1>6. CASE UNCHANGED vars
  BY <1>1, <1>6 DEF vars, credentialVars
<1> QED BY <1>2, <1>3, <1>4, <1>5, <1>6 DEF Next, CredentialNext, CommandNext

\* The key of the bootstrap is shown once and not lost: a command that succeeded has
\* its key committed and in a file that survives a loss of power, and a committed
\* key without a file is one whose commit was never answered; for any number of
\* commands at once, paths and losses of power.
THEOREM BootstrapKeyKnown == Spec => []CredentialKnown
<1>1. Init => CredentialInv
  BY CredentialInitial DEF Init
<1> QED BY <1>1, CredentialStep, CredentialInvImplies, PTL DEF Spec

-----------------------------------------------------------------------------
(* The requests of a live session. *)

\* The row of an active session is one the table accepts, and was not touched in
\* the future.
RowInv(s) == s \in Active => RowAccepted(sessions[s]) /\ sessions[s].seen <= now

\* A request that the session could serve when it began will be served, if the
\* session still can: a key or a workspace that is not active now does not become
\* active again within its generation.
WillServe(q) ==
  /\ q.pc \in {"resuming", "updating"}
  /\ q.time <= now /\ q.generation <= restore.generation
  /\ q.session \in Active => Resumable(sessions[q.session], q)
  /\ q.generation = restore.generation =>
       wsActive /\ (q.pc = "updating" /\ keyActive => q.admitted)

LiveInv(q) == q.live => q.pc = "authenticated" \/ WillServe(q)

\* Only the key of a workspace can log in.
KeyBeforeLogin == workspace = NoWorkspace => \A s \in Session : logins[s].pc = "new"

ServeInv ==
  /\ SessionInv /\ CredentialInv
  /\ KeyBeforeLogin
  /\ \A s \in Session : RowInv(s)
  /\ \A r \in Request : LiveInv(requests[r])

LEMMA ServeInitial == Init => ServeInv
<1> SUFFICES ASSUME Init PROVE ServeInv
  OBVIOUS
<1>1. SessionInv /\ CredentialInv
  BY SessionInitial, CredentialInitial DEF Init
<1>2. KeyBeforeLogin
  BY DEF Init, SessionInit, NewLogin, KeyBeforeLogin
<1>3. \A s \in Session : RowInv(s)
  BY DEF Init, SessionInit, NoRow, RowInv, Active
<1>4. \A r \in Request : LiveInv(requests[r])
  BY DEF Init, SessionInit, NewRequest, LiveInv
<1> QED BY <1>1, <1>2, <1>3, <1>4 DEF ServeInv

\* What a step may do to the row of a session that was handed out: end it, or move
\* its idle expiry beyond the present.
RowSlides(s) ==
  logins[s].pc = "created" /\ s \in Active' =>
    /\ s \in Active
    /\ sessions'[s].absolute = sessions[s].absolute
    /\ sessions'[s].generation = sessions[s].generation
    /\ sessions'[s].idle = sessions[s].idle \/ now < sessions'[s].idle

\* What it may do to the rest: within a generation nothing that is not active
\* becomes active, unless the workspace is not.
OnlyDeactivates ==
  /\ now <= now'
  /\ \/ restore.generation < restore'.generation
     \/ /\ restore'.generation = restore.generation
        /\ wsActive => wsActive' /\ (keyActive' => keyActive)

\* Such a step keeps what holds of a request that does not move.
LEMMA LiveKept ==
  ASSUME SessionInv, SessionInv', OnlyDeactivates, \A s \in Session : RowSlides(s),
         NEW q \in RequestRecords, RequestInv(q), LiveInv(q)
  PROVE  LiveInv(q)'
<1> SUFFICES ASSUME q.live, q.pc # "authenticated" PROVE WillServe(q)'
  BY DEF LiveInv
<1>1. WillServe(q) /\ q.time \in Int /\ q.generation \in Int
  BY DEF LiveInv, RequestRecords
<1>2. q.session \in Session /\ logins[q.session].pc = "created"
  BY <1>1 DEF WillServe, RequestInv
<1>3. /\ now \in Int /\ now' \in Int /\ restore.generation \in Int /\ restore'.generation \in Int
      /\ sessions[q.session] \in Rows /\ sessions'[q.session] \in Rows
  BY <1>2 DEF SessionInv, SessionTypeOK
<1>4. q.time <= now' /\ q.generation <= restore'.generation
  BY <1>1, <1>3 DEF WillServe, OnlyDeactivates
<1>5. q.session \in Active' => Resumable(sessions'[q.session], q)
  BY <1>1, <1>2, <1>3 DEF WillServe, RowSlides, Resumable, Active, Rows
<1>6. ASSUME q.generation = restore'.generation PROVE q.generation = restore.generation /\ wsActive
  BY <1>1, <1>3, <1>6 DEF WillServe, OnlyDeactivates
<1>7. q.generation = restore'.generation =>
        wsActive' /\ (q.pc = "updating" /\ keyActive' => q.admitted)
  BY <1>1, <1>3, <1>6 DEF WillServe, OnlyDeactivates
<1> QED BY <1>1, <1>4, <1>5, <1>7 DEF WillServe

\* The same for all requests but one at most, and that one.
LEMMA LivesKept ==
  ASSUME ServeInv, SessionInv', OnlyDeactivates, \A s \in Session : RowSlides(s),
         \A r \in Request : (requests'[r] = requests[r]) \/ LiveInv(requests[r])'
  PROVE  \A r \in Request : LiveInv(requests[r])'
<1> SUFFICES ASSUME NEW r \in Request, requests'[r] = requests[r] PROVE LiveInv(requests[r])'
  OBVIOUS
<1>1. PICK q : q = requests[r]
  OBVIOUS
<1>2. q \in RequestRecords /\ RequestInv(q) /\ LiveInv(q)
  BY <1>1 DEF ServeInv, SessionInv, SessionTypeOK
<1>3. LiveInv(q)'
  BY <1>2, LiveKept DEF ServeInv
<1>4. requests'[r] = q
  BY <1>1
<1> QED BY <1>3, <1>4 DEF LiveInv, WillServe

\* A step that changes no row but ends it keeps the rows.
LEMMA RowsKept ==
  ASSUME ServeInv, SessionInv', now <= now',
         \A s \in Session : s \in Active' => s \in Active /\ sessions'[s] = sessions[s]
  PROVE  /\ \A s \in Session : RowInv(s)'
         /\ \A s \in Session : RowSlides(s)
<1> SUFFICES ASSUME NEW s \in Session, s \in Active' PROVE RowInv(s)' /\ RowSlides(s)
  BY DEF RowInv, RowSlides
<1>1. s \in Active /\ sessions'[s] = sessions[s] /\ RowInv(s)
  BY DEF ServeInv
<1>2. now \in Int /\ now' \in Int /\ sessions[s] \in Rows
  BY DEF ServeInv, SessionInv, SessionTypeOK
<1>3. RowSlides(s)
  BY <1>1 DEF RowSlides
<1>4. RowAccepted(sessions'[s]) /\ sessions'[s].seen <= now'
  BY <1>1, <1>2 DEF RowInv, Rows
<1> QED BY <1>3, <1>4 DEF RowInv

\* The row after the UPDATE of a request is accepted again, and open for longer.
LEMMA ResumedAccepted ==
  ASSUME NEW row \in Rows, NEW q \in RequestRecords, now \in Int,
         RowAccepted(row), row.seen <= now, now < row.absolute
  PROVE  RowAccepted(Resumed(row, q))
<1>1. CASE row.seen <= q.time - TouchInterval
  <2>1. PICK seen, idle : seen = now /\ idle = Slid(row)
    OBVIOUS
  <2>2. idle \in Int /\ now < idle /\ idle <= row.absolute
    BY <2>1, ConsoleAssumption DEF Slid, Rows
  <2>3. PICK after : after = [row EXCEPT !.seen = seen, !.idle = idle]
    OBVIOUS
  <2>4. /\ after.created = row.created /\ after.seen = seen /\ after.idle = idle
        /\ after.absolute = row.absolute
    BY <2>3 DEF Rows
  <2>5. Resumed(row, q) = after
    BY <1>1, <2>1, <2>3 DEF Resumed
  <2>6. row.created <= now
    BY DEF RowAccepted, Rows
  <2> QED BY <2>1, <2>2, <2>4, <2>5, <2>6 DEF RowAccepted
<1>2. CASE ~(row.seen <= q.time - TouchInterval)
  BY <1>2 DEF Resumed
<1> QED BY <1>1, <1>2

LEMMA ResumedSlides ==
  ASSUME NEW row \in Rows, NEW q \in RequestRecords, now \in Int,
         RowAccepted(Resumed(row, q)), row.seen <= now
  PROVE  /\ Resumed(row, q).seen <= now
         /\ Resumed(row, q).idle = row.idle \/ now < Resumed(row, q).idle
<1>1. CASE row.seen <= q.time - TouchInterval
  <2>1. PICK seen, idle : seen = now /\ idle = Slid(row)
    OBVIOUS
  <2>2. idle \in Int
    BY <2>1, ConsoleAssumption DEF Slid, Rows
  <2>3. PICK after : after = [row EXCEPT !.seen = seen, !.idle = idle]
    OBVIOUS
  <2>4. after.seen = seen /\ after.idle = idle
    BY <2>3 DEF Rows
  <2>5. Resumed(row, q) = after
    BY <1>1, <2>1, <2>3 DEF Resumed
  <2> QED BY <2>1, <2>2, <2>4, <2>5 DEF RowAccepted
<1>2. CASE ~(row.seen <= q.time - TouchInterval)
  BY <1>2 DEF Resumed
<1> QED BY <1>1, <1>2

\* The UPDATE of a request keeps the rows of all sessions.
LEMMA UpdateServes ==
  ASSUME ServeInv, NEW r \in Request, UpdateRow(r), UNCHANGED now
  PROVE  \A t \in Session : RowInv(t)' /\ RowSlides(t)
<1>1. PICK q : q = requests[r]
  OBVIOUS
<1> DEFINE s == q.session
<1>2. /\ q \in RequestRecords /\ RequestInv(q) /\ now \in Int
      /\ sessions \in [Session -> Rows] /\ requests \in [Request -> RequestRecords]
  BY <1>1 DEF ServeInv, SessionInv, SessionTypeOK
<1>3. /\ q.pc = "updating"
      /\ sessions' = [sessions EXCEPT ![s] = Resumed(sessions[s], q)]
      /\ Resumable(sessions[s], q) /\ RowAccepted(Resumed(sessions[s], q))
  BY <1>1 DEF UpdateRow, At, Resumes
<1>4. s \in Session /\ sessions[s] \in Rows
  BY <1>2, <1>3 DEF RequestInv
<1>5. s \in Active /\ sessions[s].seen <= now
  BY <1>3, <1>4 DEF ServeInv, RowInv, Resumable, Active
<1>6. PICK row : row = Resumed(sessions[s], q)
  OBVIOUS
<1>7. /\ row.absolute = sessions[s].absolute /\ row.generation = sessions[s].generation
      /\ row.seen <= now /\ RowAccepted(row)
      /\ (row.idle = sessions[s].idle) \/ now < row.idle
  BY <1>2, <1>3, <1>4, <1>5, <1>6, ResumedRow, ResumedSlides
<1>8. sessions'[s] = row /\ \A t \in Session \ {s} : sessions'[t] = sessions[t]
  BY <1>2, <1>3, <1>4, <1>6
<1> HIDE DEF s
<1>9. ASSUME NEW t \in Session PROVE RowInv(t)' /\ RowSlides(t)
  <2>1. CASE t = s
    <3>1. sessions'[t] = row /\ t \in Active
      BY <1>5, <1>8, <2>1
    <3>2. RowInv(t)'
      BY <1>7, <3>1 DEF RowInv, RowAccepted
    <3>3. RowSlides(t)
      BY <1>7, <2>1, <3>1 DEF RowSlides
    <3> QED BY <3>2, <3>3
  <2>2. CASE t # s
    <3>1. sessions'[t] = sessions[t] /\ (t \in Active' <=> t \in Active) /\ RowInv(t)
      BY <1>8, <2>2 DEF Active, ServeInv
    <3> QED BY <3>1 DEF RowInv, RowSlides, RowAccepted
  <2> QED BY <2>1, <2>2
<1> QED BY <1>9

\* Every step of a request keeps the invariant.
LEMMA RequestServeStep ==
  ASSUME ServeInv, SessionInv', NEW r \in Request,
         \/ \E s \in Session : Present(r, s)
         \/ ReadKey(r) \/ Resume(r) \/ RefuseRequest(r) \/ FailRequest(r)
         \/ TurnAway(r) \/ View(r) \/ Mutate(r) \/ Logout(r)
  PROVE  /\ \A s \in Session : RowInv(s)'
         /\ \A o \in Request : LiveInv(requests[o])'
         /\ UNCHANGED <<logins, workspace>>
<1> USE DEF credentialVars, unchangedButRequests
<1>1. UNCHANGED <<now, restore, keyActive, wsActive, logins, workspace>>
  BY DEF Present, ReadKey, Resume, RefuseRequest, FailRequest, TurnAway, View, Mutate, Logout
<1>2. /\ now \in Int /\ restore.generation \in Int /\ sessions \in [Session -> Rows]
      /\ requests \in [Request -> RequestRecords] /\ keyActive \in BOOLEAN /\ wsActive \in BOOLEAN
  BY DEF ServeInv, SessionInv, SessionTypeOK
<1>3. OnlyDeactivates
  BY <1>1, <1>2 DEF OnlyDeactivates
<1>4. PICK q : q = requests[r]
  OBVIOUS
<1>5. q \in RequestRecords /\ RequestInv(q) /\ LiveInv(q)
  BY <1>2, <1>4 DEF ServeInv, SessionInv
<1>6. ASSUME NEW e, requests' = [requests EXCEPT ![r] = e], LiveInv(e)',
             \A s \in Session : RowSlides(s)
      PROVE  \A o \in Request : LiveInv(requests[o])'
  <2>1. requests'[r] = e /\ \A o \in Request \ {r} : requests'[o] = requests[o]
    BY <1>2, <1>6
  <2>2. LiveInv(requests[r])'
    BY <1>6, <2>1 DEF LiveInv, WillServe
  <2> QED BY <1>3, <1>6, <2>1, <2>2, LivesKept
<1>7. ASSUME sessions' = sessions
      PROVE  (\A s \in Session : RowInv(s)') /\ \A s \in Session : RowSlides(s)
  BY <1>1, <1>2, <1>7, RowsKept DEF Active
<1>8. ASSUME NEW pc, Ends(r, pc), \A s \in Session : RowSlides(s)
      PROVE  \A o \in Request : LiveInv(requests[o])'
  <2>1. PICK e : e = [NewRequest EXCEPT !.pc = pc, !.ended = requests[r].ended]
    OBVIOUS
  <2>2. ~e.live
    BY <2>1 DEF NewRequest
  <2>3. LiveInv(e)'
    BY <2>2 DEF LiveInv
  <2>4. requests' = [requests EXCEPT ![r] = e]
    BY <1>8, <2>1 DEF Ends
  <2> QED BY <1>6, <1>8, <2>3, <2>4
<1>9. ASSUME NEW s \in Session, Present(r, s)
      PROVE  (\A t \in Session : RowInv(t)') /\ \A o \in Request : LiveInv(requests[o])'
  <2>1. sessions' = sessions
    BY <1>9 DEF Present
  <2>2. CASE Known(s) /\ restore.ready
    <3>1. PICK live, ended : live = Live(s) /\ ended = Ended(s)
      OBVIOUS
    <3>2. PICK e : e = [pc |-> "resuming", session |-> s, time |-> now,
                        generation |-> restore.generation, admitted |-> FALSE,
                        live |-> live, ended |-> ended]
      OBVIOUS
    <3>3. requests' = [requests EXCEPT ![r] = e]
      BY <1>9, <2>2, <3>1, <3>2 DEF Present, NewRequest
    <3>4. live => WillServe(e)
      <4> SUFFICES ASSUME live PROVE WillServe(e)
        OBVIOUS
      <4>1. /\ e.pc = "resuming" /\ e.time = now /\ e.generation = restore.generation
            /\ e.session = s
        BY <3>2
      <4>2. sessions[s].status = "active" /\ now < sessions[s].idle /\ now < sessions[s].absolute
            /\ sessions[s].generation = restore.generation
        BY <3>1 DEF Live, Active
      <4>3. wsActive
        BY <3>1, Zenon DEF Live
      <4>4. Resumable(sessions[s], e)
        BY <1>2, <4>1, <4>2 DEF Resumable, Rows
      <4> QED BY <1>2, <4>1, <4>3, <4>4 DEF WillServe
    <3>5. LiveInv(e)'
      BY <1>1, <2>1, <3>2, <3>4 DEF LiveInv, WillServe, Active
    <3> QED BY <1>6, <1>7, <2>1, <3>3, <3>5
  <2>3. CASE ~(Known(s) /\ restore.ready)
    <3>1. PICK e : e = [NewRequest EXCEPT !.pc = "refused"]
      OBVIOUS
    <3>2. requests' = [requests EXCEPT ![r] = e]
      BY <1>9, <2>3, <3>1 DEF Present
    <3>3. LiveInv(e)'
      BY <3>1 DEF NewRequest, LiveInv
    <3> QED BY <1>6, <1>7, <2>1, <3>2, <3>3
  <2> QED BY <2>2, <2>3
<1>10. CASE ReadKey(r)
  <2>1. sessions' = sessions /\ q.pc = "resuming"
    BY <1>4, <1>10 DEF ReadKey, At
  <2>2. PICK admitted : admitted = (keyActive /\ wsActive)
    OBVIOUS
  <2>3. PICK e : e = [q EXCEPT !.pc = "updating", !.admitted = admitted]
    OBVIOUS
  <2>4. requests' = [requests EXCEPT ![r] = e]
    BY <1>2, <1>4, <1>10, <2>2, <2>3 DEF ReadKey
  <2>5. /\ e.pc = "updating" /\ e.session = q.session /\ e.live = q.live
        /\ e.time = q.time /\ e.generation = q.generation /\ e.admitted = admitted
    BY <1>5, <2>3 DEF RequestRecords
  <2>6. LiveInv(e)
    <3> SUFFICES ASSUME q.live PROVE WillServe(e)
      BY <2>5 DEF LiveInv
    <3>1. WillServe(q)
      BY <1>5, <2>1 DEF LiveInv
    <3>2. q.session \in Active => Resumable(sessions[q.session], e)
      BY <2>5, <3>1 DEF WillServe, Resumable
    <3>3. e.generation = restore.generation => wsActive /\ (keyActive => e.admitted)
      BY <2>2, <2>5, <3>1, Zenon DEF WillServe
    <3> QED BY <2>5, <3>1, <3>2, <3>3 DEF WillServe
  <2>7. LiveInv(e)'
    BY <1>1, <2>1, <2>6 DEF LiveInv, WillServe, Active
  <2> QED BY <1>1, <1>6, <1>7, <2>1, <2>4, <2>7
<1>11. CASE Resume(r)
  <2>1. \A t \in Session : RowInv(t)' /\ RowSlides(t)
    BY <1>1, <1>11, UpdateServes DEF Resume
  <2>2. PICK e : e = [q EXCEPT !.pc = "authenticated"]
    OBVIOUS
  <2>3. requests' = [requests EXCEPT ![r] = e]
    BY <1>2, <1>4, <1>11, <2>2 DEF Resume, Goes
  <2>4. e.pc = "authenticated"
    BY <1>5, <2>2 DEF RequestRecords
  <2>5. LiveInv(e)'
    BY <2>4 DEF LiveInv
  <2>6. (\A t \in Session : RowInv(t)') /\ \A t \in Session : RowSlides(t)
    BY <2>1
  <2> QED BY <1>1, <1>6, <2>3, <2>5, <2>6
<1>12. CASE RefuseRequest(r) \/ TurnAway(r) \/ View(r) \/ Mutate(r)
  <2>1. sessions' = sessions /\ \E pc \in {"refused", "turned away", "served"} : Ends(r, pc)
    BY <1>12 DEF RefuseRequest, TurnAway, View, Mutate
  <2> QED BY <1>1, <1>7, <1>8, <2>1
<1>13. CASE FailRequest(r)
  <2>1. /\ Ends(r, "failed") /\ (UNCHANGED sessions \/ UpdateRow(r)) /\ UNCHANGED now
    BY <1>13 DEF FailRequest
  <2>2. (\A t \in Session : RowInv(t)') /\ \A t \in Session : RowSlides(t)
    <3>1. CASE UNCHANGED sessions
      BY <1>7, <3>1
    <3>2. CASE UpdateRow(r)
      <4>1. \A t \in Session : RowInv(t)' /\ RowSlides(t)
        BY <2>1, <3>2, UpdateServes
      <4> QED BY <4>1
    <3> QED BY <2>1, <3>1, <3>2
  <2> QED BY <1>1, <1>8, <2>1, <2>2
<1>14. CASE Logout(r)
  <2> DEFINE s == requests[r].session
  <2>1. /\ sessions' = [sessions EXCEPT ![s] =
              IF s \in Active THEN Revoked(sessions[s]) ELSE sessions[s]]
        /\ Ends(r, "served")
    BY <1>14 DEF Logout
  <2>2. s \in Session
    BY <1>4, <1>5, <1>14 DEF Logout, At, RequestInv
  <2>3. Revoked(sessions[s]).status = "revoked"
    BY <1>2, <2>2 DEF Revoked, Rows
  <2> HIDE DEF s
  <2>4. ASSUME NEW t \in Session, t \in Active' PROVE t \in Active /\ sessions'[t] = sessions[t]
    <3>1. sessions'[t].status = "active"
      BY <2>4 DEF Active
    <3>2. CASE t # s
      BY <1>2, <2>1, <2>2, <3>1, <3>2 DEF Active
    <3>3. CASE t = s
      BY <1>2, <2>1, <2>2, <2>3, <3>1, <3>3 DEF Active
    <3> QED BY <3>2, <3>3
  <2>5. (\A t \in Session : RowInv(t)') /\ \A t \in Session : RowSlides(t)
    BY <1>1, <1>2, <2>4, RowsKept
  <2> QED BY <1>1, <1>8, <2>1, <2>5
<1> QED BY <1>1, <1>9, <1>10, <1>11, <1>12, <1>13, <1>14

\* A step that leaves the rows and the requests alone, and makes nothing active.
LEMMA QuietServeStep ==
  ASSUME ServeInv, SessionInv', OnlyDeactivates, UNCHANGED <<sessions, requests>>
  PROVE  /\ \A s \in Session : RowInv(s)'
         /\ \A r \in Request : LiveInv(requests[r])'
<1>1. \A s \in Session : s \in Active' => s \in Active /\ sessions'[s] = sessions[s]
  BY DEF Active
<1>2. (\A s \in Session : RowInv(s)') /\ \A s \in Session : RowSlides(s)
  BY <1>1, RowsKept DEF OnlyDeactivates
<1> QED BY <1>2, LivesKept

\* Every step of a login keeps the invariant.
LEMMA LoginServeStep ==
  ASSUME ServeInv, SessionInv', NEW s \in Session,
         \/ StartLogin(s) \/ LockKey(s) \/ CountSessions(s)
         \/ RefuseOverLimit(s) \/ CreateSession(s)
  PROVE  /\ \A t \in Session : RowInv(t)'
         /\ \A r \in Request : LiveInv(requests[r])'
         /\ UNCHANGED workspace /\ workspace # NoWorkspace
<1> USE DEF credentialVars
<1>1. UNCHANGED <<now, restore, keyActive, wsActive, requests, workspace>>
  BY DEF StartLogin, LockKey, CountSessions, RefuseOverLimit, CreateSession
<1>2. /\ now \in Int /\ restore.generation \in Int /\ sessions \in [Session -> Rows]
      /\ keyActive \in BOOLEAN /\ wsActive \in BOOLEAN
  BY DEF ServeInv, SessionInv, SessionTypeOK
<1>3. OnlyDeactivates
  BY <1>1, <1>2 DEF OnlyDeactivates
<1>4. workspace # NoWorkspace
  BY DEF StartLogin, LockKey, CountSessions, RefuseOverLimit, CreateSession, Authenticates,
         ServeInv, KeyBeforeLogin
<1>5. CASE StartLogin(s) \/ LockKey(s) \/ CountSessions(s) \/ RefuseOverLimit(s)
  <2>1. sessions' = sessions
    BY <1>5 DEF StartLogin, LockKey, CountSessions, RefuseOverLimit
  <2> QED BY <1>1, <1>3, <1>4, <2>1, QuietServeStep
<1>6. CASE CreateSession(s)
  <2>1. PICK row : row = [status |-> "active", created |-> now, seen |-> now,
                          idle |-> now + IdleLife, absolute |-> now + AbsoluteLife,
                          generation |-> logins[s].generation, revoked |-> 0]
    OBVIOUS
  <2>2. logins[s].pc = "counted" /\ sessions'[s] = row
    BY <1>6, <2>1 DEF CreateSession
  <2>3. RowAccepted(row) /\ row.seen <= now
    BY <1>2, <2>1, ConsoleAssumption DEF RowAccepted
  <2>4. ASSUME NEW t \in Session \ {s}, t \in Active'
        PROVE  t \in Active /\ sessions'[t] = sessions[t]
    <3>1. sessions'[t] = IF t \in logins[s].expired THEN Revoked(sessions[t]) ELSE sessions[t]
      BY <1>6, <2>4 DEF CreateSession
    <3>2. Revoked(sessions[t]).status = "revoked"
      BY <1>2 DEF Revoked, Rows
    <3>3. sessions'[t].status = "active"
      BY <2>4 DEF Active
    <3> QED BY <3>1, <3>2, <3>3 DEF Active
  <2>5. ASSUME NEW t \in Session PROVE RowInv(t)' /\ RowSlides(t)
    <3>1. CASE t = s
      <4>1. RowInv(t)'
        BY <1>1, <2>2, <2>3, <3>1 DEF RowInv, RowAccepted
      <4>2. RowSlides(t)
        BY <2>2, <3>1 DEF RowSlides
      <4> QED BY <4>1, <4>2
    <3>2. CASE t # s
      <4>1. RowInv(t)
        BY DEF ServeInv
      <4>2. RowInv(t)'
        BY <1>1, <2>4, <3>2, <4>1 DEF RowInv, RowAccepted
      <4>3. RowSlides(t)
        BY <2>4, <3>2 DEF RowSlides
      <4> QED BY <4>2, <4>3
    <3> QED BY <3>1, <3>2
  <2> QED BY <1>1, <1>3, <1>4, <2>5, LivesKept
<1> QED BY <1>5, <1>6

\* The purge only ends rows.
LEMMA PurgeServeStep ==
  ASSUME ServeInv, SessionInv', PurgeSessions
  PROVE  /\ \A s \in Session : RowInv(s)'
         /\ \A r \in Request : LiveInv(requests[r])'
<1>1. UNCHANGED <<now, restore, keyActive, wsActive, logins, requests>>
  BY DEF PurgeSessions, credentialVars
<1>2. /\ now \in Int /\ restore.generation \in Int /\ sessions \in [Session -> Rows]
      /\ keyActive \in BOOLEAN /\ wsActive \in BOOLEAN
  BY DEF ServeInv, SessionInv, SessionTypeOK
<1>3. OnlyDeactivates
  BY <1>1, <1>2 DEF OnlyDeactivates
<1>4. ASSUME NEW s \in Session, s \in Active' PROVE s \in Active /\ sessions'[s] = sessions[s]
  <2>1. sessions'[s] \in {Revoked(sessions[s]), NoRow, sessions[s]}
    BY DEF PurgeSessions
  <2>2. Revoked(sessions[s]).status = "revoked" /\ NoRow.status = "none"
    BY <1>2 DEF Revoked, Rows, NoRow
  <2>3. sessions'[s].status = "active"
    BY <1>4 DEF Active
  <2> QED BY <2>1, <2>2, <2>3 DEF Active
<1>5. (\A s \in Session : RowInv(s)') /\ \A s \in Session : RowSlides(s)
  BY <1>1, <1>2, <1>4, RowsKept
<1> QED BY <1>1, <1>3, <1>5, LivesKept

\* A command changes what the requests see only by committing the first key, before
\* there is any request, or by revoking it.
LEMMA CommandServeStep ==
  ASSUME ServeInv, SessionInv', CredentialNext, UNCHANGED sessionVars
  PROVE  ServeInv'
<1>1. UNCHANGED <<now, restore, wsActive, logins, sessions, requests>>
  BY DEF sessionVars
<1>2. /\ now \in Int /\ restore.generation \in Int
      /\ keyActive \in BOOLEAN /\ wsActive \in BOOLEAN
      /\ requests \in [Request -> RequestRecords]
  BY DEF ServeInv, SessionInv, SessionTypeOK
<1>3. CredentialInv'
  BY CredentialStep DEF ServeInv, Next
<1>4. CASE UNCHANGED workspace /\ (keyActive' => keyActive)
  <2>1. OnlyDeactivates
    BY <1>1, <1>2, <1>4 DEF OnlyDeactivates
  <2>2. KeyBeforeLogin'
    BY <1>1, <1>4 DEF ServeInv, KeyBeforeLogin
  <2> QED BY <1>1, <1>3, <2>1, <2>2, QuietServeStep DEF ServeInv
<1>5. ASSUME NEW c \in Command, CommitApplies(c) PROVE ServeInv'
  <2>1. workspace = NoWorkspace /\ workspace' = c
    BY <1>5 DEF CommitApplies, CommandAt, ServeInv, CredentialInv, CommandInv
  <2>2. KeyBeforeLogin'
    BY <2>1, CredentialAssumption DEF KeyBeforeLogin, NoWorkspace
  <2>3. ASSUME NEW r \in Request PROVE LiveInv(requests[r])'
    <3>1. RequestInv(requests[r]) /\ LiveInv(requests[r])
      BY DEF ServeInv, SessionInv
    <3>2. ~requests[r].live
      BY <2>1, <3>1 DEF ServeInv, KeyBeforeLogin, RequestInv, LiveInv, WillServe
    <3> QED BY <1>1, <3>2 DEF LiveInv
  <2>4. ASSUME NEW s \in Session PROVE RowInv(s)'
    <3>1. RowInv(s)
      BY DEF ServeInv
    <3> QED BY <1>1, <3>1 DEF RowInv, RowAccepted, Active
  <2> QED BY <1>3, <2>2, <2>3, <2>4 DEF ServeInv
<1>6. \/ UNCHANGED workspace /\ (keyActive' => keyActive)
      \/ \E c \in Command : CommitApplies(c)
  <2>1. ASSUME NEW c \in Command, CommandNext(c), ~CommitApplies(c)
        PROVE  UNCHANGED <<workspace, keyActive>>
    BY <2>1 DEF CommandNext, LockBootstrap, RefuseBootstrap, CreateFile, PersistFile, PersistFails,
                CommitFails, CommitAnswered, AnswerLost, CleanUp
  <2>2. PowerLoss => UNCHANGED <<workspace, keyActive>>
    BY DEF PowerLoss
  <2>3. RevokeKey => UNCHANGED workspace /\ ~keyActive'
    BY Zenon DEF RevokeKey
  <2> QED BY <2>1, <2>2, <2>3 DEF CredentialNext, CommandNext
<1> QED BY <1>4, <1>5, <1>6

\* Every step of the system keeps the invariant.
LEMMA ServeStep == ServeInv /\ [Next]_vars => ServeInv'
<1> SUFFICES ASSUME ServeInv, [Next]_vars PROVE ServeInv'
  OBVIOUS
<1>1. SessionInv' /\ CredentialInv'
  BY SessionStep, CredentialStep DEF ServeInv
<1>2. /\ now \in Int /\ restore.generation \in Int
      /\ keyActive \in BOOLEAN /\ wsActive \in BOOLEAN
      /\ restore \in [generation : Int, ready : BOOLEAN]
  BY DEF ServeInv, SessionInv, SessionTypeOK
<1> USE DEF credentialVars
<1>3. ASSUME OnlyDeactivates, UNCHANGED <<workspace, logins, sessions, requests>> PROVE ServeInv'
  <2>1. KeyBeforeLogin'
    BY <1>3 DEF ServeInv, KeyBeforeLogin
  <2> QED BY <1>1, <1>3, <2>1, QuietServeStep DEF ServeInv
<1>4. CASE Quarantine
  <2>1. UNCHANGED <<now, workspace, logins, sessions, requests>>
    BY <1>4 DEF Quarantine
  <2>2. restore'.generation = restore.generation + 1
    BY <1>4 DEF Quarantine
  <2> QED BY <1>2, <1>3, <2>1, <2>2 DEF OnlyDeactivates
<1>5. CASE Reconcile
  <2>1. UNCHANGED <<now, workspace, keyActive, wsActive, logins, sessions, requests>>
    BY <1>5 DEF Reconcile
  <2>2. restore'.generation = restore.generation
    BY <1>2, <1>5 DEF Reconcile
  <2> QED BY <1>2, <1>3, <2>1, <2>2 DEF OnlyDeactivates
<1>6. CASE Reinstate
  <2>1. UNCHANGED <<now, restore, workspace, logins, sessions, requests>>
    BY <1>6 DEF Reinstate
  <2>2. ~wsActive
    BY <1>6 DEF Reinstate
  <2> QED BY <1>2, <1>3, <2>1, <2>2 DEF OnlyDeactivates
<1>7. CASE Tick
  <2>1. now <= now' /\ UNCHANGED <<restore, workspace, keyActive, wsActive, logins, sessions, requests>>
    BY <1>2, <1>7 DEF Tick
  <2> QED BY <1>2, <1>3, <2>1 DEF OnlyDeactivates
<1>8. CASE UNCHANGED vars
  <2>1. UNCHANGED <<now, restore, workspace, keyActive, wsActive, logins, sessions, requests>>
    BY <1>8 DEF vars, sessionVars
  <2> QED BY <1>2, <1>3, <2>1 DEF OnlyDeactivates
<1>9. CASE PurgeSessions
  <2>1. UNCHANGED <<workspace, logins>>
    BY <1>9 DEF PurgeSessions
  <2>2. KeyBeforeLogin'
    BY <2>1 DEF ServeInv, KeyBeforeLogin
  <2> QED BY <1>1, <1>9, <2>2, PurgeServeStep DEF ServeInv
<1>10. ASSUME NEW s \in Session, \/ StartLogin(s) \/ LockKey(s) \/ CountSessions(s)
                                 \/ RefuseOverLimit(s) \/ CreateSession(s)
       PROVE  ServeInv'
  BY <1>1, <1>10, LoginServeStep DEF ServeInv, KeyBeforeLogin
<1>11. ASSUME NEW r \in Request,
              \/ \E s \in Session : Present(r, s)
              \/ ReadKey(r) \/ Resume(r) \/ RefuseRequest(r) \/ FailRequest(r)
              \/ TurnAway(r) \/ View(r) \/ Mutate(r) \/ Logout(r)
       PROVE  ServeInv'
  BY <1>1, <1>11, RequestServeStep DEF ServeInv, KeyBeforeLogin
<1>12. CASE CredentialNext /\ UNCHANGED sessionVars
  BY <1>1, <1>12, CommandServeStep
<1>13. CASE SessionNext
  BY <1>4, <1>5, <1>6, <1>7, <1>9, <1>10, <1>11, <1>13 DEF SessionNext
<1> QED BY <1>8, <1>12, <1>13 DEF Next

\* Only the UPDATE of a request, or its very start, sends it to the login.
LEMMA WhoRefuses ==
  ASSUME SessionInv, [Next]_vars, NEW r \in Request, At(r, "refused")'
  PROVE  requests[r].pc \in Settled \/ RefuseRequest(r)
<1> USE DEF credentialVars, unchangedButRequests, At
<1>1. requests \in [Request -> RequestRecords]
  BY DEF SessionInv, SessionTypeOK
<1>2. CASE requests'[r] = requests[r]
  BY <1>2 DEF Settled
<1>3. ASSUME NEW o \in Request,
             \/ \E s \in Session : Present(o, s)
             \/ ReadKey(o) \/ Resume(o) \/ TurnAway(o) \/ View(o) \/ Mutate(o) \/ Logout(o)
             \/ RefuseRequest(o) \/ FailRequest(o)
      PROVE  requests[r].pc \in Settled \/ RefuseRequest(r)
  <2>1. CASE o # r
    <3>1. requests'[r] = requests[r]
      BY <1>1, <1>3, <2>1 DEF Present, ReadKey, Resume, RefuseRequest, FailRequest, TurnAway,
                              View, Mutate, Logout, Goes, Ends
    <3> QED BY <1>2, <3>1
  <2>2. CASE o = r /\ \E s \in Session : Present(o, s)
    BY <2>2 DEF Present
  <2>3. ASSUME NEW pc, pc # "refused", Goes(r, pc) \/ Ends(r, pc) PROVE FALSE
    <3>1. PICK q : q = requests[r]
      OBVIOUS
    <3>2. PICK e, f : /\ e = [q EXCEPT !.pc = pc]
                      /\ f = [NewRequest EXCEPT !.pc = pc, !.ended = q.ended]
      OBVIOUS
    <3>3. e.pc = pc /\ f.pc = pc
      BY <1>1, <3>1, <3>2 DEF RequestRecords, NewRequest
    <3>4. requests' = [requests EXCEPT ![r] = e] \/ requests' = [requests EXCEPT ![r] = f]
      BY <1>1, <2>3, <3>1, <3>2 DEF Goes, Ends
    <3> QED BY <1>1, <2>3, <3>3, <3>4
  <2>4. CASE o = r /\ (Resume(o) \/ FailRequest(o) \/ TurnAway(o) \/ View(o) \/ Mutate(o) \/ Logout(o))
    BY <2>3, <2>4 DEF Resume, FailRequest, TurnAway, View, Mutate, Logout
  <2>5. CASE o = r /\ ReadKey(o)
    <3>1. PICK q, admitted : q = requests[r] /\ admitted = (keyActive /\ wsActive)
      OBVIOUS
    <3>2. PICK e : e = [q EXCEPT !.pc = "updating", !.admitted = admitted]
      OBVIOUS
    <3>3. e.pc = "updating" /\ requests' = [requests EXCEPT ![r] = e]
      BY <1>1, <2>5, <3>1, <3>2 DEF ReadKey, RequestRecords
    <3> QED BY <1>1, <3>3
  <2> QED BY <1>3, <2>1, <2>2, <2>4, <2>5
<1>4. ASSUME UNCHANGED requests PROVE requests'[r] = requests[r]
  BY <1>4
<1>5. CASE SessionNext
  <2>1. ASSUME NEW s \in Session, \/ StartLogin(s) \/ LockKey(s) \/ CountSessions(s)
                                  \/ RefuseOverLimit(s) \/ CreateSession(s)
        PROVE  UNCHANGED requests
    BY <2>1 DEF StartLogin, LockKey, CountSessions, RefuseOverLimit, CreateSession
  <2>2. ASSUME PurgeSessions \/ Quarantine \/ Reconcile \/ Reinstate \/ Tick
        PROVE  UNCHANGED requests
    BY <2>2 DEF PurgeSessions, Quarantine, Reconcile, Reinstate, Tick
  <2> QED BY <1>2, <1>3, <1>4, <1>5, <2>1, <2>2 DEF SessionNext
<1>6. CASE UNCHANGED sessionVars
  BY <1>2, <1>6 DEF sessionVars
<1> QED BY <1>5, <1>6 DEF Next, vars

\* Only a failure of the database sends a request to the login while its session,
\* which could serve it when it began, could serve it still: no concurrent login,
\* purge, touch of the row, revocation or quarantine does; for any numbers of logins
\* and requests and any lifetimes.
THEOREM LiveSessionIsServed == Spec => LiveSessionServed
<1>1. ASSUME ServeInv, [Next]_vars, NEW r \in Request, requests[r].live, At(r, "refused")'
      PROVE  ~Live(requests[r].session)
  <2>1. PICK q : q = requests[r]
    OBVIOUS
  <2>2. LiveInv(q) /\ q.live /\ q \in RequestRecords
    BY <1>1, <2>1 DEF ServeInv, SessionInv, SessionTypeOK
  <2>3. RefuseRequest(r) /\ q.pc = "updating" /\ WillServe(q)
    BY <1>1, <2>1, <2>2, WhoRefuses DEF ServeInv, Settled, LiveInv, WillServe, RefuseRequest, At
  <2>4. q.session \in Session
    BY <1>1, <2>1, <2>3 DEF ServeInv, SessionInv, RequestInv
  <2> SUFFICES ASSUME Live(q.session) PROVE FALSE
    BY <2>1
  <2>5. /\ now \in Int /\ sessions[q.session] \in Rows
        /\ q.session \in Active /\ RowInv(q.session)
    BY <1>1, <2>4 DEF ServeInv, SessionInv, SessionTypeOK, Live
  <2>6. Resumable(sessions[q.session], q)
    BY <2>3, <2>5 DEF WillServe
  <2>7. q.admitted
    <3>1. sessions[q.session].generation = restore.generation /\ keyActive
      BY Zenon DEF Live
    <3>2. q.generation = restore.generation
      BY <2>6, <3>1 DEF Resumable
    <3> QED BY <2>3, <3>1, <3>2, Zenon DEF WillServe
  <2>8. RowAccepted(Resumed(sessions[q.session], q))
    <3>1. now < sessions[q.session].absolute
      BY DEF Live
    <3> QED BY <2>2, <2>5, <3>1, ResumedAccepted DEF RowInv
  <2>9. Resumes(r)
    BY <2>1, <2>6, <2>7, <2>8 DEF Resumes
  <2> QED BY <2>3, <2>9 DEF RefuseRequest
<1>2. ServeInv /\ [Next]_vars =>
        [\A r \in Request :
           requests[r].live /\ At(r, "refused")' => ~Live(requests[r].session)]_vars
  BY <1>1
<1> QED BY <1>2, ServeInitial, ServeStep, PTL DEF Spec, LiveSessionServed

=============================================================================
