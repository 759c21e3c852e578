--------------------------- MODULE ConsoleSession ---------------------------
(***************************************************************************)
(* The browser sessions of the console, on top of the key that bootstrap   *)
(* created: logins, the requests that resume a session, logout, the purge  *)
(* of the retention runner, the revocation of the key and the quarantine   *)
(* of a restored database.                                                 *)
(*                                                                         *)
(* A database function runs with the timestamp of its statement, but each  *)
(* statement in it sees what is committed when it starts; rows that a      *)
(* transaction has written are locked until it ends.                       *)
(***************************************************************************)
EXTENDS Credentials

CONSTANTS
  Session,        \* logins, and the sessions they create
  Request,        \* the requests that may be in flight at once
  Limit,          \* 5 in the code
  TouchInterval, IdleLife, AbsoluteLife, Retention, \* 1, 15 and 60 min, 30 days
  MaxGeneration,  \* bound on the quarantines
  MaxTime         \* bound on the clock

ASSUME ConsoleAssumption ==
  /\ IsFiniteSet(Session) /\ "none" \notin Session
  /\ Limit \in Nat \ {0}
  /\ TouchInterval \in Nat /\ IdleLife \in Nat \ {0} /\ Retention \in Nat
  /\ AbsoluteLife \in Nat \ {0} /\ IdleLife <= AbsoluteLife
  /\ MaxGeneration \in Nat /\ MaxTime \in Nat

VARIABLES
  now,      \* the clock
  restore,  \* wde.restore_control: generation and state
  wsActive, \* the status of the workspace
  logins,   \* what the call of create_console_session of each login holds
  keyLock,  \* the logins that hold the advisory lock of the key
  sessions, \* wde.console_sessions
  requests  \* what each request holds

sessionVars == <<now, restore, wsActive, logins, keyLock, sessions, requests>>
vars == <<credentialVars, sessionVars>>

NoRow == [status |-> "none", created |-> 0, seen |-> 0, idle |-> 0, absolute |-> 0,
          generation |-> 0, revoked |-> 0]
NewLogin == [pc |-> "new", time |-> 0, generation |-> 0, expired |-> {}, active |-> 0]
NewRequest == [pc |-> "new", session |-> "none", time |-> 0,
               generation |-> 0, admitted |-> FALSE, live |-> FALSE, ended |-> FALSE]

SessionInit ==
  /\ now = 0
  /\ restore = [generation |-> 0, ready |-> TRUE]
  /\ wsActive = TRUE
  /\ logins = [s \in Session |-> NewLogin]
  /\ keyLock = {}
  /\ sessions = [s \in Session |-> NoRow]
  /\ requests = [r \in Request |-> NewRequest]

Init == CredentialInit /\ SessionInit

-----------------------------------------------------------------------------
Active == {s \in Session : sessions[s].status = "active"}

\* The rows a login has expired and not committed.
Locked == UNION {logins[s].expired : s \in Session}

\* The session can serve a request now.
Live(s) ==
  /\ s \in Active
  /\ now < sessions[s].idle /\ now < sessions[s].absolute
  /\ sessions[s].generation = restore.generation /\ restore.ready
  /\ keyActive /\ wsActive

\* The session is over: nothing brings it back.
Ended(s) ==
  \/ s \notin Active
  \/ now >= sessions[s].absolute
  \/ sessions[s].generation # restore.generation

\* The CHECK constraint of the table.
RowAccepted(row) ==
  row.created <= row.seen /\ row.seen < row.idle /\ row.idle <= row.absolute

Revoked(row) == [row EXCEPT !.status = "revoked", !.revoked = now]

-----------------------------------------------------------------------------
(* Login, from the check of the key to the row. *)

\* The call fails, in which case its transaction leaves nothing.
RefusedLogin(s) ==
  /\ logins' = [logins EXCEPT ![s] = [NewLogin EXCEPT !.pc = "refused"]]
  /\ keyLock' = keyLock \ {s}

\* The operator has the file with the key, and the API would accept the key.
Authenticates ==
  /\ workspace # NoWorkspace /\ HandedOut(workspace)
  /\ keyActive /\ wsActive

\* Login authenticates the key of the form; create_console_session starts and
\* reads the generation, unless the database is quarantined.
StartLogin(s) ==
  /\ logins[s].pc = "new"
  /\ Authenticates
  /\ \/ /\ restore.ready
        /\ logins' = [logins EXCEPT ![s].pc = "waiting", ![s].time = now,
                                    ![s].generation = restore.generation]
        /\ UNCHANGED keyLock
     \/ ~restore.ready /\ RefusedLogin(s)
  /\ UNCHANGED <<credentialVars, now, restore, wsActive, sessions, requests>>

\* Mutant: nobody waits for the advisory lock.
KeyFreeAlways == TRUE
KeyFree == keyLock = {}

\* The advisory lock of the key is granted, and the key checked.
LockKey(s) ==
  /\ logins[s].pc = "waiting" /\ KeyFree
  /\ \/ /\ keyActive /\ wsActive
        /\ keyLock' = keyLock \cup {s}
        /\ logins' = [logins EXCEPT ![s].pc = "locked"]
     \/ ~(keyActive /\ wsActive) /\ RefusedLogin(s)
  /\ UNCHANGED <<credentialVars, now, restore, wsActive, sessions, requests>>

\* The sessions of the key that were over when the call started are revoked, the
\* others counted.
CountSessions(s) ==
  /\ logins[s].pc = "locked"
  /\ LET over == {t \in Active : \/ sessions[t].idle <= logins[s].time
                                 \/ sessions[t].absolute <= logins[s].time
                                 \/ sessions[t].generation # logins[s].generation}
     IN /\ over \cap Locked = {}
        /\ logins' = [logins EXCEPT ![s].pc = "counted", ![s].expired = over,
                                    ![s].active = Cardinality(Active \ over)]
  /\ UNCHANGED <<credentialVars, now, restore, wsActive, keyLock, sessions, requests>>

\* At the limit the call fails, and what it had expired is active again.
RefuseOverLimit(s) ==
  /\ logins[s].pc = "counted" /\ logins[s].active >= Limit
  /\ RefusedLogin(s)
  /\ UNCHANGED <<credentialVars, now, restore, wsActive, sessions, requests>>

CreateSession(s) ==
  /\ logins[s].pc = "counted" /\ logins[s].active < Limit
  /\ sessions' = [t \in Session |->
       CASE t = s -> [status |-> "active", created |-> now, seen |-> now,
                      idle |-> now + IdleLife, absolute |-> now + AbsoluteLife,
                      generation |-> logins[s].generation, revoked |-> 0]
         [] t # s /\ t \in logins[s].expired -> Revoked(sessions[t])
         [] OTHER -> sessions[t]]
  /\ logins' = [logins EXCEPT ![s] = [NewLogin EXCEPT !.pc = "created"]]
  /\ keyLock' = keyLock \ {s}
  /\ UNCHANGED <<credentialVars, now, restore, wsActive, requests>>

-----------------------------------------------------------------------------
(* A request with a session cookie. *)

At(r, pc) == requests[r].pc = pc

\* The request goes on, or ends: then only how it ended is kept.
Goes(r, pc) == requests' = [requests EXCEPT ![r].pc = pc]
Ends(r, pc) ==
  requests' = [requests EXCEPT ![r] = [NewRequest EXCEPT !.pc = pc, !.ended = requests[r].ended]]

\* Nothing in flight: the same request may be sent again.
Settled == {"new", "refused", "failed", "turned away", "served"}

unchangedButRequests == <<credentialVars, now, restore, wsActive, logins, keyLock, sessions>>

\* The row of the token is found by its prefix, if the purge has not deleted it,
\* and its verifier is the token's: a token names one session only.
Known(s) == sessions[s].status # "none"

\* A browser that was given a session sends a request.  resume_console_session
\* starts and reads the generation, unless the database is quarantined.
Present(r, s) ==
  /\ requests[r].pc \in Settled /\ logins[s].pc = "created"
  /\ LET q == [NewRequest EXCEPT !.session = s, !.live = Live(s), !.ended = Ended(s)]
     IN IF Known(s) /\ restore.ready
        THEN requests' = [requests EXCEPT ![r] =
               [q EXCEPT !.pc = "resuming", !.time = now, !.generation = restore.generation]]
        ELSE requests' = [requests EXCEPT ![r] = [NewRequest EXCEPT !.pc = "refused"]]
  /\ UNCHANGED unchangedButRequests

\* Its UPDATE starts: key and workspace are read in this snapshot.
ReadKey(r) ==
  /\ At(r, "resuming")
  /\ requests' = [requests EXCEPT ![r].pc = "updating",
                                  ![r].admitted = keyActive /\ wsActive]
  /\ UNCHANGED unchangedButRequests

\* The conditions on the row, checked again if the UPDATE had to wait for it.
\* Mutant: the status of the session is not among them.
ResumableAnyStatus(row, q) ==
  row.idle > q.time /\ row.absolute > q.time /\ row.generation = q.generation
Resumable(row, q) ==
  /\ row.status = "active"
  /\ row.idle > q.time /\ row.absolute > q.time
  /\ row.generation = q.generation

\* Mutant: the idle expiry slides past the absolute one.
SlidUnbounded(row) == now + IdleLife
Slid(row) == IF now + IdleLife < row.absolute THEN now + IdleLife ELSE row.absolute

\* The row after the UPDATE.
Resumed(row, q) ==
  IF row.seen <= q.time - TouchInterval
  THEN [row EXCEPT !.seen = now, !.idle = Slid(row)]
  ELSE row

Resumes(r) ==
  LET q == requests[r]
  IN /\ q.admitted /\ Resumable(sessions[q.session], q)
     /\ RowAccepted(Resumed(sessions[q.session], q))

\* The UPDATE commits.
UpdateRow(r) ==
  LET s == requests[r].session
  IN /\ At(r, "updating") /\ s \notin Locked
     /\ Resumes(r)
     /\ sessions' = [sessions EXCEPT ![s] = Resumed(@, requests[r])]

Resume(r) ==
  /\ UpdateRow(r)
  /\ Goes(r, "authenticated")
  /\ UNCHANGED <<credentialVars, now, restore, wsActive, logins, keyLock>>

\* No row, or a row the table does not accept: the browser is sent to the login.
RefuseRequest(r) ==
  /\ At(r, "updating") /\ requests[r].session \notin Locked
  /\ ~Resumes(r)
  /\ Ends(r, "refused")
  /\ UNCHANGED unchangedButRequests

\* The database fails or does not answer in time, in the lookup of the row or in the
\* UPDATE, which may have committed.  Service.Authenticate makes the same error of
\* it, and the browser is sent to the login without its cookie.
FailRequest(r) ==
  /\ At(r, "resuming") \/ At(r, "updating")
  /\ UNCHANGED sessions \/ UpdateRow(r)
  /\ Ends(r, "failed")
  /\ UNCHANGED <<credentialVars, now, restore, wsActive, logins, keyLock>>

\* The quota, the scope or the CSRF check refuses the request of a valid session.
TurnAway(r) ==
  /\ At(r, "authenticated")
  /\ Ends(r, "turned away")
  /\ UNCHANGED unchangedButRequests

\* The handler of a page runs.
View(r) ==
  /\ At(r, "authenticated")
  /\ Ends(r, "served")
  /\ UNCHANGED unchangedButRequests

\* The handler of a form runs: it publishes, creates or replays as an API request.
Mutate(r) ==
  /\ At(r, "authenticated")
  /\ Ends(r, "served")
  /\ UNCHANGED unchangedButRequests

\* revoke_console_session, of a session that may be over by now.
Logout(r) ==
  LET s == requests[r].session
  IN /\ At(r, "authenticated") /\ s \notin Locked
     /\ sessions' = [sessions EXCEPT ![s] =
          IF s \in Active THEN Revoked(sessions[s]) ELSE sessions[s]]
     /\ Ends(r, "served")
     /\ UNCHANGED <<credentialVars, now, restore, wsActive, logins, keyLock>>

-----------------------------------------------------------------------------
(* The rest of the system. *)

\* purge_console_sessions: rows that a transaction has locked are skipped.
PurgeSessions ==
  /\ \E over \in SUBSET {s \in Active \ Locked : now >= sessions[s].idle},
        old \in SUBSET {s \in Session : /\ sessions[s].status = "revoked"
                                        /\ sessions[s].revoked < now - Retention} :
       /\ over \cup old # {}
       /\ sessions' = [s \in Session |->
            CASE s \in over -> Revoked(sessions[s])
              [] s \in old  -> NoRow
              [] OTHER      -> sessions[s]]
  /\ UNCHANGED <<credentialVars, now, restore, wsActive, logins, keyLock, requests>>

\* enter_restore_quarantine, of a database that was restored.
Quarantine ==
  /\ restore.generation < MaxGeneration
  /\ restore' = [generation |-> restore.generation + 1, ready |-> FALSE]
  /\ keyActive' = FALSE /\ wsActive' = FALSE
  /\ UNCHANGED <<commands, bootLock, workspace, files, now, logins, keyLock, sessions, requests>>

\* complete_restore_reconciliation, while nothing is active.
Reconcile ==
  /\ ~restore.ready /\ ~keyActive /\ ~wsActive
  /\ restore' = [restore EXCEPT !.ready = TRUE]
  /\ UNCHANGED <<credentialVars, now, wsActive, logins, keyLock, sessions, requests>>

\* The operator takes the restored workspace, and its key, back into service.
Reinstate ==
  /\ restore.ready /\ ~wsActive
  /\ keyActive' \in {keyActive, workspace # NoWorkspace} /\ wsActive' = TRUE
  /\ UNCHANGED <<commands, bootLock, workspace, files, now, restore, logins, keyLock, sessions, requests>>

Tick ==
  /\ now < MaxTime
  /\ now' = now + 1
  /\ UNCHANGED <<credentialVars, restore, wsActive, logins, keyLock, sessions, requests>>

SessionNext ==
  \/ \E s \in Session :
       \/ StartLogin(s) \/ LockKey(s) \/ CountSessions(s)
       \/ RefuseOverLimit(s) \/ CreateSession(s)
  \/ \E r \in Request :
       \/ \E s \in Session : Present(r, s)
       \/ ReadKey(r) \/ Resume(r) \/ RefuseRequest(r) \/ FailRequest(r)
       \/ TurnAway(r) \/ View(r) \/ Mutate(r) \/ Logout(r)
  \/ PurgeSessions \/ Quarantine \/ Reconcile \/ Reinstate \/ Tick

Next == SessionNext \/ (CredentialNext /\ UNCHANGED sessionVars)

Spec == Init /\ [][Next]_vars

-----------------------------------------------------------------------------
\* However many logins run at once, and whatever expires meanwhile, a key has never
\* more than Limit active sessions (docs: 20 concurrent logins, exactly five).
SessionLimit == Cardinality(Active) <= Limit

\* A request that begins after its session was logged out, revoked, expired for
\* good or left behind by a quarantine is never served, whatever else resumes,
\* purges or touches the session meanwhile.  What becomes of the key is not part
\* of it.
ServedOnlyWhileOpen ==
  \A r \in Request : At(r, "served") => ~requests[r].ended

\* While the database answers, a request is sent to the login only if its session
\* could not serve it when it began or cannot when it is refused: no concurrent
\* login, purge or slide of the expiry throws a valid user out.  A failure of the
\* database does (FailRequest).
LiveSessionServed ==
  [][\A r \in Request :
       requests[r].live /\ At(r, "refused")' => ~Live(requests[r].session)]_vars

=============================================================================
