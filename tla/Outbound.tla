------------------------------ MODULE Outbound ------------------------------
(***************************************************************************)
(* One job of a worker: the deliveries it claims, one after the other, each *)
(* from the grant of its lease to the result it hands to finalize_delivery. *)
(* The steps of a request are those of internal/delivery/outbound.go and of *)
(* the HTTP client of internal/outboundhttp; the resolver, the network and  *)
(* the receiver answer anything, at any time, or not at all.                *)
(*                                                                         *)
(* now counts from the grant of the lease.  A timer that is due fires before *)
(* now advances: the process is assumed to run.                             *)
(***************************************************************************)
EXTENDS KeyMaterials, FiniteSets

CONSTANTS
  Claims,    \* what claim_delivery may return
  Statuses,  \* the status codes of answers
  Wishes,    \* the waits Retry-After asks for; not positive when there is none
  ClaimTimeout, RequestTimeout, LeaseTTL, \* settings of the worker
  Base, Cap,                              \* of the retry delays
  LeaseMargin, MaxDelay, \* fixed: 10 s and 15 min
  ResolveTimeout, DialTimeout, HandshakeTimeout, HeaderTimeout, \* 2, 3, 5, 5 s
  MaxSkew                \* the skew a receiver accepts

\* What validateWorker accepts.
ValidWorker ==
  /\ ClaimTimeout \in 1..LeaseTTL /\ ClaimTimeout < LeaseMargin
  /\ RequestTimeout \in 1..(LeaseTTL - LeaseMargin)
  /\ Base \in 1..Cap /\ Cap \in 1..MaxDelay

ASSUME OutboundAssumption ==
  /\ {ClaimTimeout, RequestTimeout, LeaseTTL, Base, Cap, LeaseMargin, MaxDelay,
      ResolveTimeout, DialTimeout, HandshakeTimeout, HeaderTimeout, MaxSkew} \subseteq Nat
  /\ Statuses \subseteq Nat /\ Wishes \subseteq Int
  /\ \A c \in Claims : c.attempt \in Nat \ {0}  \* a CHECK of wde.delivery_attempts
  /\ ValidWorker

VARIABLES
  phase,    \* "idle", "claimed", a phase of InFlight, or "answered"
  claim,    \* the delivery in hand
  now, deadline, timer, \* the clock, the request's deadline, the phase's limit
  lookup,   \* what the resolver said: a set of addresses, or one of the two below
  pending,  \* the addresses still to dial
  peer,     \* the address of the connection in use
  pool,     \* idle connections: an address for some of the authorities
  request,  \* what was sent: a timestamp and signatures
  result    \* what the attempt came to

attemptVars == <<phase, claim, now, deadline, timer, lookup, pending, peer, pool,
                 request, result>>
clock == <<now, deadline, timer>>

NoLookup == {}
LookupFailed == {"failed"}
NoClaim == [scheme |-> "none"]
NoPeer  == "none"
NoStatus == 0
NoRequest == [timestamp |-> 0, signatures |-> {}]
NoResult == [disposition |-> "none", status |-> NoStatus, delay |-> 0]
InFlight == {"resolving", "dialing", "handshaking", "waiting", "reading"}

-----------------------------------------------------------------------------
(* Destinations: an address is known by its class. *)

Address == {"global", "loopback", "special", "mapped"}

\* Policy.allowed.
Allowed(address) ==
  \/ address = "global"
  \/ address = "loopback" /\ profile # "production"

\* Parse, when the endpoint was created: the destinations that are stored.
Parses(c) ==
  /\ c.host # "mapped"
  /\ \/ c.scheme = "https"
     \/ c.scheme = "http" /\ profile # "production" /\ c.host \in {"loopback", "localhost"}

\* destinationPolicy: http may have been disabled since.
DestinationAllowed(c, allowHTTP) ==
  c.scheme = "https" \/ (c.scheme = "http" /\ allowHTTP /\ profile # "production")

\* The addresses Resolve returns, none when it refuses.
\* Mutant: the forbidden addresses of an answer are skipped.
ResolveSkipping(addresses) == {a \in addresses : Allowed(a)}
Resolve(addresses) == IF \A a \in addresses : Allowed(a) THEN addresses ELSE {}

-----------------------------------------------------------------------------
(* Retry delays. *)

Smaller(a, b) == IF a < b THEN a ELSE b

\* One turn of the loop of Delay, which doubles the ceiling without overflow.
Grown(c) ==
  CASE c >= Cap -> c
    [] c < Cap /\ c > Cap \div 2 -> Cap
    [] c < Cap /\ c <= Cap \div 2 -> 2 * c

\* The ceiling of the n-th attempt of a run.
Ceiling[n \in Nat] == IF n <= 1 THEN Base ELSE Grown(Ceiling[n - 1])

\* Delay: full jitter under the ceiling, unless the server asked for longer.
\* Mutant: the loop runs once more.
DelayDoubledOnce(attempt, jitter, wish) ==
  LET d == Smaller(jitter, Smaller(Ceiling[attempt + 1], Cap))
  IN IF wish > d /\ wish <= Cap THEN wish ELSE d
\* Mutant: the server's wish is added to the delay.
DelayAdded(attempt, jitter, wish) ==
  Smaller(jitter, Smaller(Ceiling[attempt], Cap)) + (IF wish \in 1..Cap THEN wish ELSE 0)
Delay(attempt, jitter, wish) ==
  LET d == Smaller(jitter, Smaller(Ceiling[attempt], Cap))
  IN IF wish > d /\ wish <= Cap THEN wish ELSE d

\* retryAfter: a wish that is absent, past or beyond the cap counts as none.
RetryAfter(wish) == IF wish \in 1..Cap THEN wish ELSE 0

Retryable(status) == status \in {408, 425, 429} \cup 500..599

-----------------------------------------------------------------------------
(* Signatures: a secret is known by the identifier of its key. *)

Sign(secret, timestamp, key) == [secret |-> secret, at |-> timestamp, key |-> key]

\* The keys a claim carries: the active one, the retiring one if there is one.
KeysOf(c) == {c.active.key} \cup {r.key : r \in c.retiring}

\* Mutant: both signatures are made with the active secret.
SignaturesOneSecret(c, timestamp) == {Sign(c.active.key, timestamp, k) : k \in KeysOf(c)}
Signatures(c, timestamp) == {Sign(k, timestamp, k) : k \in KeysOf(c)}

\* Verify, at a receiver whose clock is off by skew and who holds one secret.
Verifies(key, skew) ==
  /\ now + skew - request.timestamp \in -MaxSkew..MaxSkew
  /\ Sign(key, request.timestamp, key) \in request.signatures

\* openClaim: every envelope of the claim opens.
OpensClaim(c) ==
  /\ Opens("signing", c.target) /\ Opens("payload", c.payload)
  /\ Opens("signing", c.active.envelope)
  /\ \A r \in c.retiring : Opens("signing", r.envelope)

-----------------------------------------------------------------------------
(* The attempt. *)

AttemptInit ==
  /\ phase = "idle" /\ claim = NoClaim
  /\ now = 0 /\ deadline = 0 /\ timer = 0
  /\ lookup = NoLookup /\ pending = {} /\ peer = NoPeer /\ pool = <<>>
  /\ request = NoRequest /\ result = NoResult

\* A claim is granted in the database.
GrantLease ==
  /\ process = "up" /\ phase = "idle"
  /\ \E c \in Claims : Parses(c) /\ claim' = c
  /\ phase' = "claimed"
  /\ now' = 0 /\ timer' = ClaimTimeout /\ deadline' = 0
  /\ UNCHANGED <<lookup, pending, peer, pool, request, result>>

\* Everything of the attempt but the idle connections is forgotten.
Forget ==
  /\ phase' = "idle" /\ claim' = NoClaim
  /\ now' = 0 /\ deadline' = 0 /\ timer' = 0
  /\ lookup' = NoLookup /\ pending' = {} /\ peer' = NoPeer
  /\ request' = NoRequest /\ result' = NoResult

\* The claim call times out, or fails, after the database granted the lease.
LoseClaim ==
  /\ phase = "claimed"
  /\ Forget /\ UNCHANGED pool

\* An attempt ends in a result.
Permanent(status) ==
  /\ phase' = "answered"
  /\ result' = [disposition |-> "permanent_failure", status |-> status, delay |-> 0]

Success(status) ==
  /\ phase' = "answered"
  /\ result' = [disposition |-> "success", status |-> status, delay |-> 0]

\* processClaim replaces the server's wish by the delay of the policy.
Retry(status, wish) ==
  /\ phase' = "answered"
  /\ \E jitter \in 0..Cap :
       result' = [disposition |-> "retry", status |-> status,
                  delay |-> Delay(claim.attempt, jitter, wish)]

\* deliver refuses the claim before anything is sent.
RefuseClaim ==
  /\ phase = "claimed"
  /\ \/ \E allowHTTP \in BOOLEAN : ~DestinationAllowed(claim, allowHTTP)
     \/ ~OpensClaim(claim)
  /\ Permanent(NoStatus)
  /\ UNCHANGED <<claim, clock, lookup, pending, peer, pool, request>>

\* The limit of a phase never passes the request's deadline.
Within(limit, end) == Smaller(now + limit, end)

Authority(c) == <<c.scheme, c.host>>

\* deliver builds and signs the request, which takes an idle connection if the
\* authority has one.
\* Mutant: the request has no deadline of its own.
RequestDeadlineNone == LeaseTTL + RequestTimeout
RequestDeadline == now + RequestTimeout

SendRequest ==
  /\ phase = "claimed"
  /\ DestinationAllowed(claim, TRUE) /\ OpensClaim(claim)
  /\ request' = [timestamp |-> now, signatures |-> Signatures(claim, now)]
  /\ deadline' = RequestDeadline
  /\ \/ /\ Authority(claim) \in DOMAIN pool
        /\ phase' = "waiting" /\ peer' = pool[Authority(claim)]
        /\ timer' = Within(HeaderTimeout, RequestDeadline)
        /\ pool' = [a \in DOMAIN pool \ {Authority(claim)} |-> pool[a]]
     \/ /\ Authority(claim) \notin DOMAIN pool
        /\ phase' = "resolving" /\ peer' = NoPeer
        /\ timer' = Within(ResolveTimeout, RequestDeadline)
        /\ UNCHANGED pool
  /\ UNCHANGED <<claim, now, lookup, pending, result>>

\* An idle connection was closed before anything was written: the transport
\* opens another.
Reconnect ==
  /\ phase = "waiting" /\ lookup = NoLookup
  /\ phase' = "resolving" /\ peer' = NoPeer
  /\ timer' = Within(ResolveTimeout, deadline)
  /\ UNCHANGED <<claim, now, deadline, lookup, pending, pool, request, result>>

\* What the resolver may say of a host: a literal address is its own answer.
Answers(host) ==
  IF host \in Address THEN {{host}}
  ELSE IF host = "localhost" THEN {{"loopback"}}
  ELSE SUBSET Address

Resolved ==
  /\ phase = "resolving"
  /\ lookup' \in Answers(claim.host) \ {{}}
  /\ LET addresses == Resolve(lookup')
     IN \/ /\ addresses # {}
           /\ phase' = "dialing" /\ pending' = addresses
           /\ timer' = Within(DialTimeout, deadline)
           /\ UNCHANGED result
        \/ /\ addresses = {}
           /\ Permanent(NoStatus)
           /\ UNCHANGED <<pending, timer>>
  /\ UNCHANGED <<claim, now, deadline, peer, pool, request>>

\* The lookup fails, answers with no address, or times out.
LookupFails ==
  /\ phase = "resolving" /\ claim.host \notin Address
  /\ lookup' = LookupFailed
  /\ Permanent(NoStatus)
  /\ UNCHANGED <<claim, clock, pending, peer, pool, request>>

Connected ==
  /\ phase = "dialing"
  /\ peer' \in pending
  /\ pending' = {}
  /\ \/ /\ claim.scheme = "https"
        /\ phase' = "handshaking" /\ timer' = Within(HandshakeTimeout, deadline)
     \/ /\ claim.scheme = "http"
        /\ phase' = "waiting" /\ timer' = Within(HeaderTimeout, deadline)
  /\ UNCHANGED <<claim, now, deadline, lookup, pool, request, result>>

\* A dial fails or times out: the next address is tried, if there is one.
DialFails ==
  /\ phase = "dialing"
  /\ \E a \in pending : pending' = pending \ {a}
  /\ \/ /\ pending' # {}
        /\ timer' = Within(DialTimeout, deadline)
        /\ UNCHANGED <<phase, result>>
     \/ /\ pending' = {}
        /\ Retry(NoStatus, 0)
        /\ UNCHANGED timer
  /\ UNCHANGED <<claim, now, deadline, lookup, peer, pool, request>>

HandshakeDone ==
  /\ phase = "handshaking"
  /\ phase' = "waiting" /\ timer' = Within(HeaderTimeout, deadline)
  /\ UNCHANGED <<claim, now, deadline, lookup, pending, peer, pool, request, result>>

\* The request fails otherwise: a connection breaks, a limit of the client or the
\* deadline is reached, the drain cancels the job.
RequestFails ==
  /\ phase \in InFlight
  /\ Retry(NoStatus, 0)
  /\ UNCHANGED <<claim, clock, lookup, pending, peer, pool, request>>

\* The headers of an answer arrive: a redirect is not followed.
HeadersArrive ==
  /\ phase = "waiting"
  /\ \E status \in Statuses :
       \/ /\ status \in 300..399
          /\ Permanent(status)
          /\ UNCHANGED timer
       \/ /\ phase' = "reading" /\ timer' = deadline
          /\ result' = [NoResult EXCEPT !.status = status]
  /\ UNCHANGED <<claim, now, deadline, lookup, pending, peer, pool, request>>

\* The body was larger than what is read of it.
BodyTooLarge ==
  /\ phase = "reading"
  /\ Permanent(NoStatus)
  /\ UNCHANGED <<claim, clock, lookup, pending, peer, pool, request>>

\* The whole body was read: the status decides, and the connection may serve again.
BodyRead ==
  /\ phase = "reading"
  /\ LET status == result.status
     IN \/ status \notin 100..599 /\ Permanent(NoStatus)
        \/ status \in 200..299 /\ Success(status)
        \/ Retryable(status) /\ \E wish \in Wishes : Retry(status, RetryAfter(wish))
        \/ /\ status \in 100..599 \ 200..299 /\ ~Retryable(status)
           /\ Permanent(status)
  /\ pool' = [a \in DOMAIN pool \cup {Authority(claim)} |->
                IF a = Authority(claim) THEN peer ELSE pool[a]]
  /\ UNCHANGED <<claim, clock, lookup, pending, peer, request>>

\* normalizeResult.
Normalize(r) ==
  IF r.status = NoStatus \/ r.status \in 100..599 THEN r
  ELSE [disposition |-> "permanent_failure", status |-> NoStatus, delay |-> 0]

\* The result goes to finalize_delivery, of the modules about the queue.
Finalize ==
  /\ phase = "answered"
  /\ Forget /\ UNCHANGED pool

\* An idle connection is closed, by its limit or by the receiver.
DropIdle ==
  /\ DOMAIN pool # {}
  /\ \E a \in DOMAIN pool : pool' = [b \in DOMAIN pool \ {a} |-> pool[b]]
  /\ UNCHANGED <<phase, claim, clock, lookup, pending, peer, request, result>>

Tick ==
  /\ phase \in InFlight \cup {"claimed"}
  /\ now < timer
  /\ now' = now + 1
  /\ UNCHANGED <<phase, claim, deadline, timer, lookup, pending, peer, pool, request, result>>

AttemptNext ==
  \/ GrantLease \/ LoseClaim \/ RefuseClaim \/ SendRequest \/ Reconnect
  \/ Resolved \/ LookupFails \/ Connected \/ DialFails \/ HandshakeDone
  \/ RequestFails \/ HeadersArrive \/ BodyTooLarge \/ BodyRead \/ Finalize
  \/ DropIdle \/ Tick

\* The process dies: the lease is left to expire.
ProcessDies == Die /\ Forget /\ pool' = <<>>

Init == KeyInit /\ AttemptInit

Next ==
  \/ AttemptNext /\ UNCHANGED keyVars
  \/ KeyNext /\ UNCHANGED attemptVars
  \/ ProcessDies

Spec == Init /\ [][Next]_<<keyVars, attemptVars>>

-----------------------------------------------------------------------------
\* However slowly it is resolved, dialled and answered, an attempt has come to its
\* result while LeaseMargin - ClaimTimeout of its lease is left: no other worker
\* may send the same delivery while this one is still at it.
RequestWithinLease == phase # "idle" => now + LeaseMargin <= LeaseTTL + ClaimTimeout

\* Every result, of any answer and any failure, passes the checks of
\* finalize_delivery: a refused one would leave the attempt open and the request
\* would be sent again.
ResultAccepted ==
  phase = "answered" =>
    LET r == Normalize(result)
    IN /\ r.disposition \in {"success", "retry", "permanent_failure"}
       /\ r.status = NoStatus \/ r.status \in 100..599
       /\ r.disposition = "success" => r.status \in 200..299
       /\ r.disposition = "retry" => r.delay \in 0..MaxDelay

\* The base delay, doubled n times, whatever the cap.
Doubled[n \in Nat] == IF n = 0 THEN Base ELSE 2 * Doubled[n - 1]

\* A retry waits no longer than the exponential ceiling of its attempt, or than
\* what the receiver asked for.
DelayMatchesPolicy ==
  phase = "answered" /\ result.disposition = "retry" =>
    \/ result.delay <= Smaller(Doubled[claim.attempt - 1], Cap)
    \/ result.status # NoStatus /\ result.delay \in Wishes

\* During a rotation, a receiver that holds either secret accepts the request
\* whenever it arrives, over a new or an idle connection, if its clock is not off
\* by more than the accepted skew less the time a request may take.
ReceiverVerifies ==
  phase = "waiting" =>
    \A key \in KeysOf(claim), skew \in (-MaxSkew)..(MaxSkew - RequestTimeout) :
      Verifies(key, skew)

\* A host that resolves to one forbidden address is not dialled at all, and every
\* connection, kept idle and used by a later attempt, leads to an allowed address.
ConnectedByPolicy ==
  /\ peer # NoPeer => Allowed(peer)
  /\ \A a \in DOMAIN pool : Allowed(pool[a])
  /\ phase = "dialing" \/ (peer # NoPeer /\ lookup # NoLookup) =>
       \A a \in lookup : Allowed(a)

\* docs/webhook-delivery-engine-security-review-prd.md:243: a lookup that failed is
\* transient, and the delivery is tried again.
DnsFailureRetried ==
  phase = "answered" /\ lookup = LookupFailed => result.disposition = "retry"

=============================================================================
