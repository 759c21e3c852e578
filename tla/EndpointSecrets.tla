-------------------------- MODULE EndpointSecrets --------------------------
(***************************************************************************)
(* The signing secrets of the endpoints of a workspace: rotation under an  *)
(* idempotency key, the overlap of two secrets, the purge of retired ones, *)
(* and the claims of workers, which read the secrets an attempt is signed  *)
(* with.  WorkspacePurge completes the system with what creates endpoints  *)
(* and takes the workspace away.                                           *)
(*                                                                         *)
(* A rotation is one call of a function, each of whose statements takes a  *)
(* snapshot of its own; the steps are those between which others may act.  *)
(* A claim is one statement with one snapshot, which calls a function that *)
(* takes later ones.  The unique indexes of the tables are left out: what  *)
(* is shown holds by the locks, so that no index ever refuses a rotation.  *)
(***************************************************************************)
EXTENDS Integers, FiniteSets

CONSTANTS
  Endpoint,   \* endpoints, those there are at first and those to be created
  Initial,    \* the endpoints there are at first
  Rotation,   \* calls of POST /v1/endpoints/{id}/secret-rotations
  Key,        \* Idempotency-Key values
  Overlap,    \* lengths of the overlap, in ticks
  Claim,      \* claim calls
  MaxTime     \* bound on the clock of a run

ASSUME SecretAssumption ==
  /\ Initial \subseteq Endpoint
  /\ Endpoint \cap Rotation = {}
  /\ Overlap \subseteq Nat \ {0}
  /\ MaxTime \in Nat

VARIABLES
  now,        \* the clock of the database
  endpoints,  \* wde.endpoints: status of the rows there are
  secrets,    \* wde.endpoint_secret_versions
  commands,   \* wde.secret_rotation_commands
  calls,      \* the transactions of the rotations
  closing,    \* the endpoints whose lock the request of a workspace purge holds
  results,    \* the answers 202 the callers have received
  claims,     \* the claim calls and the snapshots they read
  signed      \* the attempts: the secrets they sign with, and those in force

tables     == <<endpoints, secrets, commands>>
claimVars  == <<claims, signed>>
secretVars == <<now, tables, calls, closing, results, claimVars>>

-----------------------------------------------------------------------------
\* An endpoint is created with a secret, which has the endpoint's name here; a
\* rotation brings its own.
Secret == Endpoint \cup Rotation

Row(e, state, retireAt) == [endpoint |-> e, state |-> state, retireAt |-> retireAt]

SecretsOf(e, state) == {s \in DOMAIN secrets : secrets[s].endpoint = e /\ secrets[s].state = state}

\* state = 'retiring' AND retire_at > t, and what is left of the retiring ones.
InOverlap(e, t) == {s \in SecretsOf(e, "retiring") : secrets[s].retireAt > t}
Expired(t) == {s \in DOMAIN secrets : secrets[s].state = "retiring" /\ secrets[s].retireAt <= t}

IdleCall(pc) == [pc |-> pc, endpoint |-> CHOOSE e \in Endpoint : TRUE, key |-> CHOOSE k \in Key : TRUE,
                 overlap |-> CHOOSE o \in Overlap : TRUE, time |-> 0]
IdleClaim(pc) == [pc |-> pc, endpoint |-> CHOOSE e \in Endpoint : TRUE, retiring |-> {}]

SecretInit ==
  /\ now = 0
  /\ endpoints = [e \in Initial |-> "active"]
  /\ secrets = [e \in Initial |-> Row(e, "active", 0)]
  /\ commands = {}
  /\ calls = [r \in Rotation |-> IdleCall("new")]
  /\ closing = {}
  /\ results = {}
  /\ claims = [c \in Claim |-> IdleClaim("new")]
  /\ signed = {}

Tick ==
  /\ now < MaxTime
  /\ now' = now + 1
  /\ UNCHANGED <<tables, calls, closing, results, claimVars>>

-----------------------------------------------------------------------------
\* rotate_endpoint_secret

At(r, pc) == calls[r].pc = pc
Running(r) == calls[r].pc \in {"begun", "keyed", "rotated"}
Finish(r) == calls' = [calls EXCEPT ![r] = IdleCall("done")]

\* The advisory locks of a transaction, and the rows it has changed.
HoldsKey(r, e, k) ==
  /\ calls[r].pc \in {"keyed", "rotated"}
  /\ calls[r].endpoint = e /\ calls[r].key = k
HoldsEndpoint(r, e) == At(r, "rotated") /\ calls[r].endpoint = e
LockedRows == UNION {SecretsOf(e, "active") \cup SecretsOf(e, "retiring") :
                       e \in {calls[r].endpoint : r \in {x \in Rotation : At(x, "rotated")}}}

KeyFree(r) == \A x \in Rotation : ~HoldsKey(x, calls[r].endpoint, calls[r].key)
\* Mutant: the lock of the endpoint is left out.
EndpointFreeAlways(r) == TRUE
EndpointFree(r) ==
  /\ \A x \in Rotation : ~HoldsEndpoint(x, calls[r].endpoint)
  /\ calls[r].endpoint \notin closing

CommandsOf(r) == {c \in commands : c.endpoint = calls[r].endpoint /\ c.key = calls[r].key}

\* The request is valid, and BEGIN fixes transaction_timestamp.
BeginRotation(r, e, k, o) ==
  /\ At(r, "new")
  /\ calls' = [calls EXCEPT ![r] = [pc |-> "begun", endpoint |-> e, key |-> k, overlap |-> o, time |-> now]]
  /\ UNCHANGED <<now, tables, closing, results, claimVars>>

Answer(r, s, duplicate) ==
  [rotation |-> r, endpoint |-> calls[r].endpoint, key |-> calls[r].key, secret |-> s, duplicate |-> duplicate]

\* The fingerprint of a request covers its endpoint and its overlap.
SameRequest(c, r) == c.overlap = calls[r].overlap

\* The key has a command.  Its row is joined with the secret FOR UPDATE, so the
\* state is the latest: another content conflicts, a purged secret is expired.
RepeatRotation(r) ==
  /\ At(r, "begun") /\ KeyFree(r)
  /\ \E c \in CommandsOf(r) :
       /\ c.secret \notin LockedRows
       /\ results' \in {results, IF SameRequest(c, r) /\ secrets[c.secret].state # "purged"
                                 THEN results \cup {Answer(r, c.secret, TRUE)} ELSE results}
  /\ Finish(r)
  /\ UNCHANGED <<now, tables, closing, claimVars>>

\* Mutant: a key that another transaction holds is not waited for.
TakeKeyUnguarded(r) ==
  /\ At(r, "begun")
  /\ CommandsOf(r) = {}
  /\ calls' = [calls EXCEPT ![r].pc = "keyed"]
  /\ UNCHANGED <<now, tables, closing, results, claimVars>>

TakeKey(r) ==
  /\ At(r, "begun") /\ KeyFree(r)
  /\ CommandsOf(r) = {}
  /\ calls' = [calls EXCEPT ![r].pc = "keyed"]
  /\ UNCHANGED <<now, tables, closing, results, claimVars>>

EndpointActive(e) == e \in DOMAIN endpoints /\ endpoints[e] = "active"

\* Under the endpoint's lock: it is gone or disabled, an overlap lasts, or no
\* secret is active; the transaction is rolled back.
RefuseRotation(r) ==
  LET e == calls[r].endpoint IN
  /\ At(r, "keyed") /\ EndpointFree(r)
  /\ ~EndpointActive(e) \/ InOverlap(e, calls[r].time) # {} \/ SecretsOf(e, "active") = {}
  /\ Finish(r)
  /\ UNCHANGED <<now, tables, closing, results, claimVars>>

\* The rows are locked and written; nobody sees it before the commit.
Rotate(r) ==
  LET e == calls[r].endpoint IN
  /\ At(r, "keyed") /\ EndpointFree(r)
  /\ EndpointActive(e) /\ InOverlap(e, calls[r].time) = {} /\ SecretsOf(e, "active") # {}
  /\ calls' = [calls EXCEPT ![r].pc = "rotated"]
  /\ UNCHANGED <<now, tables, closing, results, claimVars>>

\* What the rotation does to the rows of its endpoint.
\* Mutant: the secret whose overlap is over is left to the purge.
RotatedLeavingRetiring(r) ==
  LET e == calls[r].endpoint IN
  [s \in DOMAIN secrets \cup {r} |->
     CASE s = r -> Row(e, "active", 0)
       [] s \in SecretsOf(e, "active") -> Row(e, "retiring", calls[r].time + calls[r].overlap)
       [] OTHER -> secrets[s]]
Rotated(r) ==
  LET e == calls[r].endpoint IN
  [s \in DOMAIN secrets \cup {r} |->
     CASE s = r -> Row(e, "active", 0)
       [] s \in SecretsOf(e, "retiring") -> [secrets[s] EXCEPT !.state = "purged"]
       [] s \in SecretsOf(e, "active") -> Row(e, "retiring", calls[r].time + calls[r].overlap)
       [] OTHER -> secrets[s]]

\* Secrets and command commit together; the answer may still be lost.
CommitRotation(r) ==
  /\ At(r, "rotated")
  /\ secrets' = Rotated(r)
  /\ commands' = commands \cup {[endpoint |-> calls[r].endpoint, key |-> calls[r].key,
                                 overlap |-> calls[r].overlap, secret |-> r]}
  /\ results' \in {results, results \cup {Answer(r, r, FALSE)}}
  /\ Finish(r)
  /\ UNCHANGED <<now, endpoints, closing, claimVars>>

\* An error, a cancelled request, a commit that fails: the rollback frees all.
AbortRotation(r) ==
  /\ Running(r)
  /\ Finish(r)
  /\ UNCHANGED <<now, tables, closing, results, claimVars>>

-----------------------------------------------------------------------------
\* purge_retired_secrets for a batch of the expired secrets nobody has locked.
PurgeRetired(S) ==
  /\ S \subseteq Expired(now) \ LockedRows
  /\ secrets' = [s \in DOMAIN secrets |-> IF s \in S THEN [secrets[s] EXCEPT !.state = "purged"] ELSE secrets[s]]
  /\ UNCHANGED <<now, endpoints, commands, calls, closing, results, claimVars>>

-----------------------------------------------------------------------------
\* claim_deliveries, as far as the secrets go.

\* The statement starts: the retiring secret is read from this snapshot.
StartClaim(c, e) ==
  /\ claims[c].pc = "new"
  /\ claims' = [claims EXCEPT ![c] = [pc |-> "claiming", endpoint |-> e, retiring |-> InOverlap(e, now)]]
  /\ UNCHANGED <<now, tables, calls, closing, results, signed>>

\* The function inside it reads the active secret when it leases the delivery.
FinishClaim(c) ==
  LET e == claims[c].endpoint IN
  /\ claims[c].pc = "claiming"
  /\ EndpointActive(e)
  /\ \E a \in SecretsOf(e, "active") :
       signed' = signed \cup {[claim |-> c, endpoint |-> e, active |-> a,
                               secrets |-> {a} \cup claims[c].retiring,
                               inForce |-> {a} \cup InOverlap(e, now)]}
  /\ claims' = [claims EXCEPT ![c] = IdleClaim("done")]
  /\ UNCHANGED <<now, tables, calls, closing, results>>

\* Nothing to lease, or the call fails.
GiveUpClaim(c) ==
  /\ claims[c].pc = "claiming"
  /\ claims' = [claims EXCEPT ![c] = IdleClaim("done")]
  /\ UNCHANGED <<now, tables, calls, closing, results, signed>>

RotationStep ==
  \E r \in Rotation :
    \/ RepeatRotation(r) \/ TakeKey(r) \/ RefuseRotation(r) \/ Rotate(r)
    \/ CommitRotation(r) \/ AbortRotation(r)

-----------------------------------------------------------------------------
\* A command is carried out once: all the answers to one key name one secret,
\* which one call made, whatever is repeated, lost, refused or rolled back.
OneSecretPerCommand ==
  /\ \A c, d \in commands : c.endpoint = d.endpoint /\ c.key = d.key => c = d
  /\ \A x, y \in results : x.endpoint = y.endpoint /\ x.key = y.key =>
       x.secret = y.secret /\ (~x.duplicate /\ ~y.duplicate => x = y)

\* A secret that was replaced is kept until its overlap is over, although the
\* purge, the next rotation and the repetition of a command all look at it.
OverlapKept ==
  \A s \in DOMAIN secrets : secrets[s].state = "purged" => secrets[s].retireAt <= now

\* Refuted: README.md line 228 says that during the overlap each attempt carries
\* both signatures.
BothSignatures == \A a \in signed : a.inForce \subseteq a.secrets

=============================================================================
