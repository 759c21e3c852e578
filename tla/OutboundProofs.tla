--------------------------- MODULE OutboundProofs ---------------------------
(***************************************************************************)
(* An attempt ends within its lease, connects only where the policy allows, *)
(* starts with usable keys and comes to a result the database accepts, with *)
(* the delay of the retry policy, for any settings a worker accepts, any    *)
(* documents, destinations, answers and limits of the HTTP client.          *)
(***************************************************************************)
EXTENDS Outbound, WellFoundedInduction, TLAPS

Phase == {"idle", "claimed", "answered"} \cup InFlight

ClockTypes ==
  /\ phase \in Phase
  /\ now \in Int /\ deadline \in Int /\ timer \in Int

\* The longest an attempt may take: its claim, then its request.
Longest == ClaimTimeout + RequestTimeout

\* No phase outlives the deadline of the request, which is fixed when it is sent.
ClockInv ==
  /\ ClockTypes
  /\ phase = "claimed"   => now <= timer /\ timer = ClaimTimeout
  /\ phase \in InFlight  => now <= timer /\ timer <= deadline /\ deadline <= Longest
  /\ phase = "answered"  => now <= Longest

AllAllowed == \A a \in lookup : Allowed(a)

\* Where a connection is used, the whole answer of the resolver was allowed, or
\* there was none because the connection was idle.
PolicyInv ==
  /\ phase \in Phase
  /\ \A a \in DOMAIN pool : Allowed(pool[a])
  /\ phase \in {"idle", "claimed", "resolving"} => peer = NoPeer /\ lookup = NoLookup
  /\ phase = "dialing" => peer = NoPeer /\ pending \subseteq lookup /\ AllAllowed
  /\ phase \in {"handshaking", "waiting", "reading"} => Allowed(peer) /\ AllAllowed
  /\ phase = "answered" /\ peer # NoPeer => Allowed(peer) /\ AllAllowed

-----------------------------------------------------------------------------
(* The clock. *)

\* The settings are numbers, and fit into each other.
LEMMA Settings ==
  /\ ClaimTimeout \in Nat /\ RequestTimeout \in Nat /\ LeaseTTL \in Nat /\ LeaseMargin \in Nat
  /\ ResolveTimeout \in Nat /\ DialTimeout \in Nat /\ HandshakeTimeout \in Nat
  /\ HeaderTimeout \in Nat
  /\ RequestTimeout <= LeaseTTL - LeaseMargin
BY OutboundAssumption DEF ValidWorker

\* A phase ends after it began and not after the deadline.
LEMMA WithinBounds ==
  ASSUME now \in Int, NEW limit \in Nat, NEW end \in Int, now <= end
  PROVE  Within(limit, end) \in Int /\ now <= Within(limit, end) /\ Within(limit, end) <= end
BY DEF Within, Smaller

\* Every step keeps the phases within the deadline.
LEMMA ClockStep == ClockInv /\ [Next]_<<keyVars, attemptVars>> => ClockInv'
<1> SUFFICES ASSUME ClockInv, [Next]_<<keyVars, attemptVars>> PROVE ClockInv'
  OBVIOUS
<1> USE Settings DEF ClockInv, ClockTypes, Phase, InFlight, Longest, clock
<1>1. CASE GrantLease
  BY <1>1 DEF GrantLease
<1>2. CASE Forget
  BY <1>2 DEF Forget
<1>3. CASE RefuseClaim
  BY <1>3 DEF RefuseClaim, Permanent
<1>4. CASE SendRequest
  <2>1. RequestDeadline \in Int /\ now <= RequestDeadline /\ RequestDeadline <= Longest
    BY <1>4 DEF SendRequest, RequestDeadline
  <2>2. timer' \in {Within(HeaderTimeout, RequestDeadline), Within(ResolveTimeout, RequestDeadline)}
    BY <1>4 DEF SendRequest
  <2>3. timer' \in Int /\ now <= timer' /\ timer' <= RequestDeadline
    BY <2>1, <2>2, WithinBounds
  <2> QED BY <1>4, <2>1, <2>3 DEF SendRequest
<1>5. ASSUME phase \in InFlight, phase' \in InFlight, UNCHANGED <<now, deadline>>,
             timer' \in {timer, deadline} \cup
                        {Within(limit, deadline) :
                           limit \in {ResolveTimeout, DialTimeout, HandshakeTimeout, HeaderTimeout}}
      PROVE  ClockInv'
  <2>1. now <= deadline /\ deadline \in Int /\ timer \in Int
    BY <1>5
  <2>2. timer' \in Int /\ now <= timer' /\ timer' <= deadline
    BY <1>5, <2>1, WithinBounds
  <2> QED BY <1>5, <2>2
<1>6. ASSUME phase \in InFlight, phase' = "answered", UNCHANGED <<now, deadline>>, timer' \in Int
      PROVE  ClockInv'
  BY <1>6
<1>7. CASE Reconnect
  BY <1>5, <1>7 DEF Reconnect
<1>8. CASE Resolved
  <2>1. CASE phase' = "dialing" /\ timer' = Within(DialTimeout, deadline)
    BY <1>5, <1>8, <2>1 DEF Resolved
  <2>2. CASE phase' = "answered" /\ UNCHANGED timer
    BY <1>6, <1>8, <2>2 DEF Resolved
  <2> QED BY <1>8, <2>1, <2>2 DEF Resolved, Permanent
<1>9. CASE LookupFails
  BY <1>6, <1>9 DEF LookupFails, Permanent
<1>10. CASE Connected
  BY <1>5, <1>10 DEF Connected
<1>11. CASE DialFails
  <2>1. CASE UNCHANGED phase /\ timer' = Within(DialTimeout, deadline)
    BY <1>5, <1>11, <2>1 DEF DialFails
  <2>2. CASE phase' = "answered" /\ UNCHANGED timer
    BY <1>6, <1>11, <2>2 DEF DialFails
  <2> QED BY <1>11, <2>1, <2>2 DEF DialFails, Retry
<1>12. CASE HandshakeDone
  BY <1>5, <1>12 DEF HandshakeDone
<1>13. CASE RequestFails
  BY <1>6, <1>13 DEF RequestFails, Retry
<1>14. CASE HeadersArrive
  <2>1. CASE phase' = "reading" /\ timer' = deadline
    BY <1>5, <1>14, <2>1 DEF HeadersArrive
  <2>2. CASE phase' = "answered" /\ UNCHANGED timer
    BY <1>6, <1>14, <2>2 DEF HeadersArrive
  <2> QED BY <1>14, <2>1, <2>2 DEF HeadersArrive, Permanent
<1>15. CASE BodyTooLarge
  BY <1>6, <1>15 DEF BodyTooLarge, Permanent
<1>16. CASE BodyRead
  <2>1. phase' = "answered"
    BY <1>16 DEF BodyRead, Permanent, Success, Retry
  <2> QED BY <1>6, <1>16, <2>1 DEF BodyRead
<1>17. CASE UNCHANGED <<phase, now, deadline, timer>>
  BY <1>17
<1>18. CASE Tick
  BY <1>18 DEF Tick
<1>19. CASE AttemptNext
  BY <1>1, <1>2, <1>3, <1>4, <1>7, <1>8, <1>9, <1>10, <1>11, <1>12, <1>13, <1>14, <1>15, <1>16,
     <1>17, <1>18, <1>19 DEF AttemptNext, LoseClaim, Finalize, DropIdle
<1> QED BY <1>2, <1>17, <1>19 DEF Next, ProcessDies, attemptVars

\* An attempt has come to its result while LeaseMargin - ClaimTimeout of its lease
\* is left, whatever the resolver, the network and the receiver do.
THEOREM AttemptEndsWithinLease == Spec => []RequestWithinLease
<1>1. Init => ClockInv
  BY DEF Init, AttemptInit, ClockInv, ClockTypes, Phase, InFlight
<1>2. ClockInv => RequestWithinLease
  BY Settings DEF ClockInv, ClockTypes, Phase, Longest, RequestWithinLease
<1> QED BY <1>1, <1>2, ClockStep, PTL DEF Spec


-----------------------------------------------------------------------------
(* The destinations. *)

\* Die and the steps of the keys leave the profile alone, and so the policy.
LEMMA ProfileKept == [Next]_<<keyVars, attemptVars>> => profile' = profile
BY DEF Next, KeyNext, Replace, Validate, Load, ProcessDies, Die, keyVars

\* What Resolve returns of an answer: all of it, and only if all of it is allowed.
LEMMA ResolvedAllowed ==
  ASSUME NEW addresses, Resolve(addresses) # {}
  PROVE  Resolve(addresses) = addresses /\ \A a \in addresses : Allowed(a)
BY DEF Resolve

\* No address is called like the absence of a peer.
LEMMA AllowedPeer == ASSUME NEW a, Allowed(a) PROVE a # NoPeer
BY DEF Allowed, NoPeer

\* Every step keeps the connections within the policy.
LEMMA PolicyStep == PolicyInv /\ [Next]_<<keyVars, attemptVars>> => PolicyInv'
<1> SUFFICES ASSUME PolicyInv, [Next]_<<keyVars, attemptVars>> PROVE PolicyInv'
  OBVIOUS
<1>1. profile' = profile
  BY ProfileKept
<1>2. \A a : Allowed(a)' <=> Allowed(a)
  BY <1>1 DEF Allowed
<1> USE <1>2 DEF PolicyInv, AllAllowed, Phase, InFlight, clock
<1>3. CASE GrantLease
  BY <1>3 DEF GrantLease
<1>4. CASE Forget /\ pool' \in {pool, <<>>}
  <2>1. \A a \in DOMAIN pool' : Allowed(pool'[a])
    BY <1>4
  <2> QED BY <1>4, <2>1 DEF Forget
<1>5. CASE RefuseClaim
  BY <1>5 DEF RefuseClaim, Permanent
<1>6. CASE SendRequest
  <2>1. CASE /\ Authority(claim) \in DOMAIN pool
             /\ phase' = "waiting" /\ peer' = pool[Authority(claim)]
             /\ pool' = [a \in DOMAIN pool \ {Authority(claim)} |-> pool[a]]
    <3>1. lookup' = lookup /\ lookup = {}
      BY <1>6 DEF SendRequest, NoLookup
    <3>2. Allowed(peer') /\ \A a \in DOMAIN pool' : Allowed(pool'[a])
      BY <2>1
    <3> QED BY <2>1, <3>1, <3>2
  <2>2. CASE phase' = "resolving" /\ peer' = NoPeer /\ UNCHANGED pool
    BY <1>6, <2>2 DEF SendRequest
  <2> QED BY <1>6, <2>1, <2>2 DEF SendRequest
<1>7. CASE Reconnect
  BY <1>7 DEF Reconnect
<1>8. CASE Resolved
  <2>1. phase = "resolving" /\ UNCHANGED <<peer, pool>> /\ peer = NoPeer
    BY <1>8 DEF Resolved
  <2>2. CASE Resolve(lookup') # {}
    <3>1. phase' = "dialing" /\ pending' = Resolve(lookup')
      BY <1>8, <2>2 DEF Resolved
    <3>2. pending' = lookup' /\ \A a \in lookup' : Allowed(a)
      BY <2>2, <3>1, ResolvedAllowed
    <3> QED BY <2>1, <3>1, <3>2
  <2>3. CASE Resolve(lookup') = {}
    BY <1>8, <2>1, <2>3 DEF Resolved, Permanent
  <2> QED BY <2>2, <2>3
<1>9. CASE LookupFails
  BY <1>9 DEF LookupFails, Permanent
<1>10. CASE Connected
  BY <1>10 DEF Connected
<1>11. CASE DialFails
  <2>1. PICK a \in pending : pending' = pending \ {a}
    BY <1>11 DEF DialFails
  <2>2. UNCHANGED <<peer, pool, lookup>> /\ phase = "dialing" /\ phase' \in {"dialing", "answered"}
    BY <1>11 DEF DialFails, Retry
  <2> QED BY <2>1, <2>2
<1>12. CASE HandshakeDone
  BY <1>12 DEF HandshakeDone
<1>13. CASE RequestFails
  BY <1>13, AllowedPeer DEF RequestFails, Retry
<1>14. CASE HeadersArrive
  <2>1. UNCHANGED <<peer, pool, lookup>> /\ phase = "waiting" /\ phase' \in {"reading", "answered"}
    BY <1>14 DEF HeadersArrive, Permanent
  <2> QED BY <2>1
<1>15. CASE BodyTooLarge
  BY <1>15 DEF BodyTooLarge, Permanent
<1>16. CASE BodyRead
  <2>1. UNCHANGED <<peer, lookup>> /\ phase = "reading" /\ phase' = "answered"
    BY <1>16 DEF BodyRead, Permanent, Success, Retry
  <2>2. pool' = [a \in DOMAIN pool \cup {Authority(claim)} |->
                   IF a = Authority(claim) THEN peer ELSE pool[a]]
    BY <1>16 DEF BodyRead
  <2>3. \A a \in DOMAIN pool' : Allowed(pool'[a])
    BY <2>1, <2>2
  <2> QED BY <2>1, <2>3
<1>17. CASE DropIdle
  <2>1. PICK a \in DOMAIN pool : pool' = [b \in DOMAIN pool \ {a} |-> pool[b]]
    BY <1>17 DEF DropIdle
  <2>2. \A b \in DOMAIN pool' : Allowed(pool'[b])
    BY <2>1
  <2> QED BY <1>17, <2>2 DEF DropIdle
<1>18. CASE Tick
  BY <1>18 DEF Tick
<1>19. CASE UNCHANGED <<phase, pool, peer, lookup, pending>>
  BY <1>19
<1>20. CASE AttemptNext
  BY <1>3, <1>4, <1>5, <1>6, <1>7, <1>8, <1>9, <1>10, <1>11, <1>12, <1>13, <1>14, <1>15, <1>16,
     <1>17, <1>18, <1>20 DEF AttemptNext, LoseClaim, Finalize
<1> QED BY <1>4, <1>19, <1>20 DEF Next, ProcessDies, attemptVars

\* Every connection, new or kept idle for a later attempt, leads to an address the
\* policy allows, and a name that resolves to one forbidden address is not dialled.
THEOREM ConnectionsAllowed == Spec => []ConnectedByPolicy
<1>1. Init => PolicyInv
  BY DEF Init, AttemptInit, PolicyInv, Phase, InFlight
<1>2. PolicyInv => ConnectedByPolicy
  BY DEF PolicyInv, Phase, InFlight, AllAllowed, ConnectedByPolicy
<1> QED BY <1>1, <1>2, PolicyStep, PTL DEF Spec

-----------------------------------------------------------------------------
(* The keys. *)

\* A version that readKeyring decodes is what it was after the conversion.
LEMMA Int16Exact == ASSUME NEW v \in 1..(Half - 1) PROVE Int16(v) = v
<1>1. Half \in Nat \ {0}
  BY KeyMaterialsAssumption
<1>2. v + Half \in 0..(2 * Half - 1) /\ 2 * Half \in Nat \ {0}
  BY <1>1
<1>3. (v + Half) % (2 * Half) = v + Half
  BY <1>2
<1> QED BY <1>1, <1>3 DEF Int16

\* A document that loads makes a keyring with a usable primary key.
LEMMA LoadedIsReady == ASSUME NEW doc, Loads(doc) PROVE Ready(KeyringOf(doc))
<1>1. PICK v \in Versions(doc) : Int16(doc.primary) = Int16(v)
  BY DEF Loads
<1>2. v \in 1..(Half - 1)
  BY DEF Loads, Versions, Decodable
<1>3. Int16(doc.primary) = v /\ Int16(v) = v
  BY <1>1, <1>2, Int16Exact
<1>4. DOMAIN KeyringOf(doc).keys = {Int16(u) : u \in Versions(doc)}
  BY DEF KeyringOf
<1>5. KeyringOf(doc).primary = v
  BY <1>3 DEF KeyringOf
<1>6. v \in DOMAIN KeyringOf(doc).keys /\ v > 0
  BY <1>2, <1>3, <1>4
<1> QED BY <1>5, <1>6 DEF Ready

\* So does the development material of every other profile.
LEMMA DevelopmentIsReady == \A p \in Purpose : Ready(Development[p])
BY DEF Development, Ready

\* Whatever documents are mounted, and replaced between the two reads, a process
\* that has started finds its primary key in both keyrings.
THEOREM StartedWithKeys == Spec => []StartedIsReady
<1>1. Init => StartedIsReady
  BY DEF Init, KeyInit, StartedIsReady
<1>2. StartedIsReady /\ [Next]_<<keyVars, attemptVars>> => StartedIsReady'
  <2> SUFFICES ASSUME StartedIsReady, [Next]_<<keyVars, attemptVars>> PROVE StartedIsReady'
    OBVIOUS
  <2>1. CASE Load
    <3>1. CASE keyring' = Development
      BY <3>1, DevelopmentIsReady DEF StartedIsReady
    <3>2. CASE /\ \A p \in Purpose : Loads(mounted[p])
               /\ keyring' = [p \in Purpose |-> KeyringOf(mounted[p])]
      BY <3>2, LoadedIsReady DEF StartedIsReady
    <3>3. CASE process' = "down"
      BY <3>3 DEF StartedIsReady
    <3> QED BY <2>1, <3>1, <3>2, <3>3 DEF Load
  <2>2. CASE Replace
    BY <2>2 DEF Replace, StartedIsReady
  <2>3. CASE Validate
    BY <2>3 DEF Validate, StartedIsReady
  <2>4. CASE ProcessDies
    BY <2>4 DEF ProcessDies, Die, StartedIsReady
  <2>5. CASE UNCHANGED keyVars
    BY <2>5 DEF keyVars, StartedIsReady
  <2> QED BY <2>1, <2>2, <2>3, <2>4, <2>5 DEF Next, KeyNext
<1> QED BY <1>1, <1>2, PTL DEF Spec

-----------------------------------------------------------------------------
(* The signatures. *)

\* What is in flight was signed for the claim in hand when its deadline was fixed.
SignedInv ==
  /\ ClockInv
  /\ phase \in InFlight =>
       /\ request.timestamp \in Int /\ request.timestamp <= now
       /\ deadline = request.timestamp + RequestTimeout
       /\ request.signatures = Signatures(claim, request.timestamp)

\* A request that stays in flight stays what it is.
LEMMA SignedStep == SignedInv /\ [Next]_<<keyVars, attemptVars>> => SignedInv'
<1> SUFFICES ASSUME SignedInv, [Next]_<<keyVars, attemptVars>> PROVE SignedInv'
  OBVIOUS
<1>1. ClockInv'
  BY ClockStep DEF SignedInv
<1> SUFFICES ASSUME (phase \in InFlight)'
             PROVE  /\ request'.timestamp \in Int /\ request'.timestamp <= now'
                    /\ deadline' = request'.timestamp + RequestTimeout
                    /\ request'.signatures = Signatures(claim, request.timestamp)'
  BY <1>1 DEF SignedInv
<1>2. now \in Int
  BY DEF SignedInv, ClockInv, ClockTypes
<1>3. CASE SendRequest
  <2>1. request' = [timestamp |-> now, signatures |-> Signatures(claim, now)]
    BY <1>3 DEF SendRequest
  <2>2. request'.timestamp = now /\ request'.signatures = Signatures(claim, now)
    BY <2>1
  <2>3. deadline' = now + RequestTimeout /\ now' = now /\ claim' = claim
    BY <1>3 DEF SendRequest, RequestDeadline
  <2>4. Signatures(claim, request.timestamp)' = Signatures(claim, now)
    BY <2>2, <2>3 DEF Signatures, KeysOf, Sign
  <2> QED BY <1>2, <2>2, <2>3, <2>4
<1>4. ASSUME phase \in InFlight, UNCHANGED <<request, deadline, claim>>, now' \in Int, now <= now'
      PROVE  /\ request'.timestamp \in Int /\ request'.timestamp <= now'
             /\ deadline' = request'.timestamp + RequestTimeout
             /\ request'.signatures = Signatures(claim, request.timestamp)'
  <2>1. Signatures(claim, request.timestamp)' = Signatures(claim, request.timestamp)
    BY <1>4 DEF Signatures, KeysOf, Sign
  <2> QED BY <1>2, <1>4, <2>1 DEF SignedInv
<1>5. CASE Tick
  BY <1>2, <1>4, <1>5 DEF Tick, InFlight
<1>6. CASE \/ Reconnect \/ Resolved \/ Connected \/ DialFails \/ HandshakeDone \/ HeadersArrive
  <2>1. phase \in InFlight /\ UNCHANGED <<request, deadline, claim, now>>
    BY <1>6 DEF Reconnect, Resolved, Connected, DialFails, HandshakeDone, HeadersArrive, InFlight
  <2> QED BY <1>2, <1>4, <2>1
<1>7. CASE UNCHANGED attemptVars \/ DropIdle
  <2>1. UNCHANGED <<phase, request, deadline, claim, now>>
    BY <1>7 DEF DropIdle, attemptVars, clock
  <2> QED BY <1>2, <1>4, <2>1
<1>8. CASE \/ GrantLease \/ LoseClaim \/ RefuseClaim \/ LookupFails \/ RequestFails
           \/ BodyTooLarge \/ BodyRead \/ Finalize \/ ProcessDies
  BY <1>8 DEF GrantLease, LoseClaim, RefuseClaim, LookupFails, RequestFails, BodyTooLarge,
              BodyRead, Finalize, ProcessDies, Forget, Permanent, Success, Retry, InFlight
<1> QED BY <1>3, <1>5, <1>6, <1>7, <1>8 DEF Next, AttemptNext, attemptVars

\* During a rotation a receiver that holds either secret accepts the request
\* whenever it arrives, if its clock is off by no more than the accepted skew less
\* the time a request may take.
THEOREM EitherSecretVerifies == Spec => []ReceiverVerifies
<1>1. Init => SignedInv
  BY DEF Init, AttemptInit, SignedInv, ClockInv, ClockTypes, Phase, InFlight
<1>2. SignedInv => ReceiverVerifies
  <2> SUFFICES ASSUME SignedInv, phase = "waiting",
                      NEW key \in KeysOf(claim), NEW skew \in (-MaxSkew)..(MaxSkew - RequestTimeout)
               PROVE  Verifies(key, skew)
    BY DEF ReceiverVerifies
  <2>1. /\ now \in Int /\ now <= deadline
        /\ request.timestamp \in Int /\ request.timestamp <= now
        /\ deadline = request.timestamp + RequestTimeout
        /\ request.signatures = Signatures(claim, request.timestamp)
    BY DEF SignedInv, ClockInv, ClockTypes, InFlight
  <2>2. MaxSkew \in Nat /\ RequestTimeout \in Nat
    BY OutboundAssumption
  <2>3. now + skew - request.timestamp \in -MaxSkew..MaxSkew
    BY <2>1, <2>2
  <2>4. Sign(key, request.timestamp, key) \in request.signatures
    BY <2>1 DEF Signatures
  <2> QED BY <2>3, <2>4 DEF Verifies
<1> QED BY <1>1, <1>2, SignedStep, PTL DEF Spec

-----------------------------------------------------------------------------
(* The ceiling of the retry delays. *)

LEMMA Delays ==
  /\ Base \in Nat /\ Cap \in Nat /\ MaxDelay \in Nat
  /\ 1 <= Base /\ Base <= Cap /\ Cap <= MaxDelay
BY OutboundAssumption DEF ValidWorker

\* Induction over the natural numbers, on sets: a least element outside of S has a
\* predecessor in it.
Less == {ss \in Nat \X Nat : ss[1] < ss[2]}

LEMMA LessWF == IsWellFoundedOn(Less, Nat)
BY NatLessThanWellFounded DEF OpToRel, Less

LEMMA NatSetInduction ==
  ASSUME NEW S \in SUBSET Nat, 0 \in S, \A n \in S : n + 1 \in S
  PROVE  S = Nat
<1> SUFFICES ASSUME Nat \ S # {} PROVE FALSE
  OBVIOUS
<1>1. PICK x \in Nat \ S : \A y \in Nat \ S : <<y, x>> \notin Less
  BY LessWF, WFMin
<1>2. x # 0 /\ x - 1 \in Nat
  BY <1>1
<1>3. <<x - 1, x>> \in Less
  BY <1>2 DEF Less
<1>4. x - 1 \in S
  BY <1>1, <1>2, <1>3
<1> QED BY <1>1, <1>4

\* f follows the recursion from 0 up to n.
Follows(f, a, step, n) ==
  f[0] = a /\ \A i \in 0..(n - 1) : f[i + 1] = step[f[i]]

\* What follows the recursion for longer continues what does for shorter.
LEMMA FollowersAgree ==
  ASSUME NEW T, NEW a \in T, NEW step \in [T -> T],
         NEW m \in Nat, NEW n \in Nat, m <= n,
         NEW f \in [0..m -> T], NEW g \in [0..n -> T],
         Follows(f, a, step, m), Follows(g, a, step, n)
  PROVE  \A i \in 0..m : f[i] = g[i]
<1> DEFINE S == {i \in Nat : i <= m => f[i] = g[i]}
<1>1. S \in SUBSET Nat /\ 0 \in S
  BY DEF Follows
<1>2. ASSUME NEW i \in S PROVE i + 1 \in S
  BY DEF Follows
<1> HIDE DEF S
<1>3. S = Nat
  BY <1>1, <1>2, NatSetInduction
<1> QED BY <1>3 DEF S

\* A recursion over the natural numbers has a solution: the functions that follow it
\* so far are put together.
LEMMA Recursion ==
  ASSUME NEW T, NEW a \in T, NEW step \in [T -> T]
  PROVE  \E f \in [Nat -> T] : f[0] = a /\ \A n \in Nat : f[n + 1] = step[f[n]]
<1> DEFINE S == {n \in Nat : \E f \in [0..n -> T] : Follows(f, a, step, n)}
<1>1. S = Nat
  <2>1. 0 \in S
    <3> DEFINE f == [i \in 0..0 |-> a]
    <3>1. f \in [0..0 -> T] /\ Follows(f, a, step, 0)
      BY DEF Follows
    <3> QED BY <3>1
  <2>2. ASSUME NEW n \in S PROVE n + 1 \in S
    <3>1. PICK f \in [0..n -> T] : Follows(f, a, step, n)
      OBVIOUS
    <3> DEFINE g == [i \in 0..(n + 1) |-> IF i = n + 1 THEN step[f[n]] ELSE f[i]]
    <3>2. g \in [0..(n + 1) -> T]
      OBVIOUS
    <3>3. Follows(g, a, step, n + 1)
      BY <3>1 DEF Follows
    <3> QED BY <3>2, <3>3
  <2> HIDE DEF S
  <2>3. S \in SUBSET Nat
    BY DEF S
  <2> QED BY <2>1, <2>2, <2>3, NatSetInduction
<1> DEFINE F == [n \in Nat |-> CHOOSE f \in [0..n -> T] : Follows(f, a, step, n)]
<1>2. \A n \in Nat : F[n] \in [0..n -> T] /\ Follows(F[n], a, step, n)
  <2> SUFFICES ASSUME NEW n \in Nat
               PROVE  F[n] \in [0..n -> T] /\ Follows(F[n], a, step, n)
    OBVIOUS
  <2>1. \E f \in [0..n -> T] : Follows(f, a, step, n)
    BY <1>1
  <2> QED BY <2>1
<1> HIDE DEF S, F
<1> DEFINE h == [n \in Nat |-> F[n][n]]
<1>3. h \in [Nat -> T]
  BY <1>2
<1>4. h[0] = a
  BY <1>2 DEF Follows
<1>5. ASSUME NEW n \in Nat PROVE h[n + 1] = step[h[n]]
  <2>1. /\ n + 1 \in Nat /\ n <= n + 1
        /\ F[n] \in [0..n -> T] /\ Follows(F[n], a, step, n)
        /\ F[n + 1] \in [0..(n + 1) -> T] /\ Follows(F[n + 1], a, step, n + 1)
    BY <1>2
  <2>2. \A i \in 0..n : F[n][i] = F[n + 1][i]
    <3>0. PICK k \in Nat : k = n + 1 /\ n <= k
      OBVIOUS
    <3>1. PICK f \in [0..n -> T], g \in [0..k -> T] : f = F[n] /\ g = F[k]
      BY <2>1, <3>0
    <3>2. Follows(f, a, step, n) /\ Follows(g, a, step, k)
      BY <2>1, <3>0, <3>1
    <3>3. \A i \in 0..n : f[i] = g[i]
      BY <3>0, <3>2, FollowersAgree
    <3> QED BY <3>0, <3>1, <3>3
  <2>3. F[n + 1][n + 1] = step[F[n + 1][n]]
    BY <2>1 DEF Follows
  <2> QED BY <2>2, <2>3
<1> QED BY <1>3, <1>4, <1>5

\* So the recursive definitions of the model are what they say: first the doubling...
LEMMA DoubledDef ==
  /\ Doubled[0] = Base
  /\ \A n \in Nat : Doubled[n + 1] = 2 * Doubled[n]
<1> DEFINE step == [x \in Nat |-> 2 * x]
<1>1. step \in [Nat -> Nat] /\ Base \in Nat
  BY Delays
<1>2. PICK f \in [Nat -> Nat] : f[0] = Base /\ \A n \in Nat : f[n + 1] = step[f[n]]
  <2> HIDE DEF step
  <2>1. PICK T : T = Nat
    OBVIOUS
  <2>2. Base \in T /\ step \in [T -> T]
    BY <1>1, <2>1
  <2>3. \E f \in [Nat -> T] : f[0] = Base /\ \A n \in Nat : f[n + 1] = step[f[n]]
    BY <2>2, Recursion
  <2> QED BY <2>1, <2>3
<1>3. f = [n \in Nat |-> IF n = 0 THEN Base ELSE 2 * f[n - 1]]
  <2>1. ASSUME NEW n \in Nat PROVE f[n] = IF n = 0 THEN Base ELSE 2 * f[n - 1]
    <3>1. CASE n = 0
      BY <1>2, <3>1
    <3>2. CASE n # 0
      <4>1. n - 1 \in Nat /\ (n - 1) + 1 = n
        BY <3>2
      <4>2. f[n] = step[f[n - 1]] /\ f[n - 1] \in Nat
        BY <1>2, <4>1
      <4> QED BY <3>2, <4>2
    <3> QED BY <3>1, <3>2
  <2> QED BY <2>1
<1>4. Doubled = [n \in Nat |-> IF n = 0 THEN Base ELSE 2 * Doubled[n - 1]]
  BY <1>3 DEF Doubled
<1> QED BY <1>4

\* The doubling is one of natural numbers.
LEMMA DoubledType == \A n \in Nat : Doubled[n] \in Nat
<1> DEFINE S == {n \in Nat : Doubled[n] \in Nat}
<1>1. S \in SUBSET Nat /\ 0 \in S /\ \A n \in S : n + 1 \in S
  BY Delays, DoubledDef
<1> HIDE DEF S
<1>2. S = Nat
  BY <1>1, NatSetInduction
<1> QED BY <1>2 DEF S

\* One turn of the loop is one doubling, under the cap.
LEMMA GrownDoubles ==
  ASSUME NEW d \in Nat
  PROVE  Grown(Smaller(d, Cap)) = Smaller(2 * d, Cap)
<1>1. CASE d >= Cap
  BY Delays, <1>1 DEF Grown, Smaller
<1>2. CASE d < Cap /\ d > Cap \div 2
  BY Delays, <1>2 DEF Grown, Smaller
<1>3. CASE d < Cap /\ d <= Cap \div 2
  BY Delays, <1>3 DEF Grown, Smaller
<1> QED BY Delays, <1>1, <1>2, <1>3

\* ... then the loop, for which the doubling under the cap is a solution.
LEMMA CeilingDef ==
  \A n \in Nat : Ceiling[n] = IF n <= 1 THEN Base ELSE Grown(Ceiling[n - 1])
<1> DEFINE C == [n \in Nat |-> IF n = 0 THEN Base ELSE Smaller(Doubled[n - 1], Cap)]
<1>1. C = [n \in Nat |-> IF n <= 1 THEN Base ELSE Grown(C[n - 1])]
  <2>1. ASSUME NEW n \in Nat PROVE C[n] = IF n <= 1 THEN Base ELSE Grown(C[n - 1])
    <3>1. CASE n = 0
      BY <3>1
    <3>2. CASE n = 1
      BY Delays, DoubledDef, <3>2 DEF Smaller
    <3>3. CASE n > 1
      <4>1. n - 1 \in Nat /\ n - 2 \in Nat /\ n - 1 # 0 /\ (n - 2) + 1 = n - 1
        BY <3>3
      <4>2. C[n] = Smaller(Doubled[n - 1], Cap) /\ C[n - 1] = Smaller(Doubled[n - 2], Cap)
        BY <3>3, <4>1
      <4>3. Doubled[n - 1] = 2 * Doubled[n - 2] /\ Doubled[n - 2] \in Nat
        BY <4>1, DoubledDef, DoubledType
      <4> HIDE DEF C
      <4>4. C[n] = Grown(C[n - 1])
        BY <4>2, <4>3, GrownDoubles
      <4> QED BY <3>3, <4>4
    <3> QED BY <3>1, <3>2, <3>3
  <2> QED BY <2>1
<1> HIDE DEF C
<1>2. Ceiling = [n \in Nat |-> IF n <= 1 THEN Base ELSE Grown(Ceiling[n - 1])]
  BY <1>1 DEF Ceiling, Grown
<1> QED BY <1>2

\* The loop computes the exponential ceiling, for every attempt, base and cap.
LEMMA CeilingIs ==
  ASSUME NEW n \in Nat \ {0} PROVE Ceiling[n] = Smaller(Doubled[n - 1], Cap)
<1> DEFINE S == {i \in Nat : Ceiling[i + 1] = Smaller(Doubled[i], Cap)}
<1>1. 0 \in S
  BY Delays, CeilingDef, DoubledDef DEF Smaller
<1>2. ASSUME NEW i \in S PROVE i + 1 \in S
  <2>1. Ceiling[(i + 1) + 1] = Grown(Ceiling[i + 1])
    BY CeilingDef
  <2>2. Doubled[i + 1] = 2 * Doubled[i] /\ Doubled[i] \in Nat
    BY DoubledDef, DoubledType
  <2> QED BY <2>1, <2>2, GrownDoubles
<1> HIDE DEF S
<1>3. S = Nat
  <2>1. S \in SUBSET Nat
    BY DEF S
  <2> QED BY <1>1, <1>2, <2>1, NatSetInduction
<1>4. n - 1 \in S
  BY <1>3
<1> QED BY <1>4 DEF S

\* The delay of a retry is within the cap, and within the exponential ceiling unless
\* it is what the receiver asked for.
LEMMA DelayIs ==
  ASSUME NEW attempt \in Nat \ {0}, NEW jitter \in 0..Cap, NEW wish \in Int
  PROVE  /\ Delay(attempt, jitter, wish) \in 0..Cap
         /\ \/ Delay(attempt, jitter, wish) <= Smaller(Doubled[attempt - 1], Cap)
            \/ Delay(attempt, jitter, wish) = wish /\ wish > 0
<1>1. Ceiling[attempt] = Smaller(Doubled[attempt - 1], Cap) /\ Doubled[attempt - 1] \in Nat
  BY CeilingIs, DoubledType
<1>2. PICK c \in Nat : c = Smaller(Doubled[attempt - 1], Cap) /\ c <= Cap
  BY <1>1, Delays DEF Smaller
<1>3. Smaller(Ceiling[attempt], Cap) = c
  BY <1>1, <1>2, Delays DEF Smaller
<1>4. PICK d \in Nat : d = Smaller(jitter, c) /\ d <= c
  BY <1>2, Delays DEF Smaller
<1>5. Delay(attempt, jitter, wish) = IF wish > d /\ wish <= Cap THEN wish ELSE d
  BY <1>3, <1>4 DEF Delay
<1> QED BY <1>2, <1>4, <1>5, Delays

-----------------------------------------------------------------------------
(* The results. *)

Answered == {NoStatus} \cup 100..599

\* A delay the policy allows for an attempt of the claim.
DelayAllowed(delay, status, c) ==
  /\ delay \in 0..Cap
  /\ \/ delay <= Smaller(Doubled[c.attempt - 1], Cap)
     \/ status # NoStatus /\ delay \in Wishes

\* What an attempt at a claim may come to.
Outcome(r, c) ==
  \/ r.disposition = "permanent_failure" /\ r.status \in Answered
  \/ r.disposition = "success" /\ r.status \in 200..299
  \/ /\ r.disposition = "retry" /\ r.status \in Answered
     /\ DelayAllowed(r.delay, r.status, c)

ResultInv ==
  /\ phase # "idle" => claim \in Claims
  /\ phase = "answered" => Outcome(result, claim)

\* An attempt that ends does so with one of these outcomes.
LEMMA PermanentOutcome ==
  ASSUME NEW status \in Answered, Permanent(status), ResultInv, phase # "idle", claim' = claim
  PROVE  ResultInv'
BY DEF Permanent, ResultInv, Outcome

LEMMA SuccessOutcome ==
  ASSUME NEW status \in 200..299, Success(status), ResultInv, phase # "idle", claim' = claim
  PROVE  ResultInv'
BY DEF Success, ResultInv, Outcome

LEMMA RetryOutcome ==
  ASSUME NEW status \in Answered, NEW wish \in Int, Retry(status, wish),
         wish > 0 => status # NoStatus /\ wish \in Wishes,
         ResultInv, phase # "idle", claim' = claim
  PROVE  ResultInv'
<1>1. claim.attempt \in Nat \ {0}
  BY OutboundAssumption DEF ResultInv
<1>2. PICK attempt \in Nat \ {0} : attempt = claim.attempt
  BY <1>1
<1>3. PICK jitter \in 0..Cap :
        result' = [disposition |-> "retry", status |-> status,
                   delay |-> Delay(attempt, jitter, wish)]
  BY <1>2 DEF Retry
<1>4. PICK delay : delay = Delay(attempt, jitter, wish)
  OBVIOUS
<1>5. DelayAllowed(delay, status, claim)
  BY <1>2, <1>4, DelayIs DEF DelayAllowed
<1>6. Outcome(result', claim)
  BY <1>3, <1>4, <1>5 DEF Outcome
<1> QED BY <1>6 DEF Retry, ResultInv

\* Every step keeps the outcomes.
LEMMA ResultStep == ResultInv /\ [Next]_<<keyVars, attemptVars>> => ResultInv'
<1> SUFFICES ASSUME ResultInv, [Next]_<<keyVars, attemptVars>> PROVE ResultInv'
  OBVIOUS
<1>1. CASE GrantLease
  BY <1>1 DEF GrantLease, ResultInv
<1>2. CASE Forget
  BY <1>2 DEF Forget, ResultInv
<1>3. ASSUME phase # "idle", phase' # "answered", claim' = claim PROVE ResultInv'
  BY <1>3 DEF ResultInv
<1>4. NoStatus \in Answered /\ 300..399 \subseteq Answered
  BY DEF Answered, NoStatus
<1>5. CASE RefuseClaim
  BY <1>4, <1>5, PermanentOutcome DEF RefuseClaim
<1>6. CASE SendRequest \/ Reconnect \/ Connected \/ HandshakeDone \/ Tick
  BY <1>3, <1>6 DEF SendRequest, Reconnect, Connected, HandshakeDone, Tick, InFlight
<1>7. CASE Resolved
  <2>1. phase # "idle" /\ claim' = claim /\ (phase' = "dialing" \/ Permanent(NoStatus))
    BY <1>7 DEF Resolved
  <2> QED BY <1>3, <1>4, <2>1, PermanentOutcome
<1>8. CASE LookupFails \/ BodyTooLarge
  BY <1>4, <1>8, PermanentOutcome DEF LookupFails, BodyTooLarge
<1>9. CASE DialFails
  <2>1. phase # "idle" /\ claim' = claim /\ (phase' = "dialing" \/ Retry(NoStatus, 0))
    BY <1>9 DEF DialFails
  <2> QED BY <1>3, <1>4, <2>1, RetryOutcome
<1>10. CASE RequestFails
  BY <1>4, <1>10, RetryOutcome DEF RequestFails, InFlight
<1>11. CASE HeadersArrive
  <2>1. /\ phase # "idle" /\ claim' = claim
        /\ phase' = "reading" \/ \E status \in 300..399 : Permanent(status)
    BY <1>11 DEF HeadersArrive
  <2> QED BY <1>3, <1>4, <2>1, PermanentOutcome
<1>12. CASE BodyRead
  <2> DEFINE status == result.status
  <2>1. phase # "idle" /\ claim' = claim
    BY <1>12 DEF BodyRead
  <2>2. CASE Permanent(NoStatus)
    BY <1>4, <2>1, <2>2, PermanentOutcome
  <2>3. CASE status \in 200..299 /\ Success(status)
    BY <2>1, <2>3, SuccessOutcome
  <2>4. ASSUME NEW wish \in Wishes, Retryable(status), Retry(status, RetryAfter(wish))
        PROVE  ResultInv'
    <3>1. status \in Answered /\ status # NoStatus
      BY <2>4 DEF Retryable, Answered, NoStatus
    <3>2. RetryAfter(wish) \in Int /\ (RetryAfter(wish) > 0 => RetryAfter(wish) \in Wishes)
      BY OutboundAssumption DEF RetryAfter
    <3> HIDE DEF status
    <3> QED BY <2>1, <2>4, <3>1, <3>2, RetryOutcome
  <2>5. CASE status \in 100..599 /\ Permanent(status)
    BY <2>1, <2>5, PermanentOutcome DEF Answered
  <2> QED BY <1>12, <2>2, <2>3, <2>4, <2>5 DEF BodyRead
<1>13. CASE UNCHANGED <<phase, claim, result>>
  BY <1>13 DEF ResultInv, Outcome, DelayAllowed
<1>14. CASE AttemptNext
  BY <1>1, <1>2, <1>5, <1>6, <1>7, <1>8, <1>9, <1>10, <1>11, <1>12, <1>13, <1>14
     DEF AttemptNext, LoseClaim, Finalize, DropIdle
<1> QED BY <1>2, <1>13, <1>14 DEF Next, ProcessDies, attemptVars

LEMMA ResultInitial == Init => ResultInv
BY DEF Init, AttemptInit, ResultInv

\* Whatever the receiver answers and whatever fails, the result passes the checks of
\* finalize_delivery: no attempt is left open by a result the database refuses.
THEOREM ResultsAccepted == Spec => []ResultAccepted
<1>1. ResultInv => ResultAccepted
  <2> SUFFICES ASSUME ResultInv, phase = "answered" PROVE ResultAccepted
    BY DEF ResultAccepted
  <2>1. Outcome(result, claim)
    BY DEF ResultInv
  <2>2. result.status \in Answered /\ Normalize(result) = result
    BY <2>1 DEF Outcome, Answered, Normalize
  <2>3. result.disposition = "retry" => result.delay \in 0..MaxDelay
    BY <2>1, Delays DEF Outcome, DelayAllowed
  <2> QED BY <2>1, <2>2, <2>3 DEF Outcome, Answered, ResultAccepted
<1> QED BY <1>1, ResultInitial, ResultStep, PTL DEF Spec

\* A retry waits no longer than the base delay doubled for each attempt before, under
\* the cap, unless the receiver asked for it; for every base, cap and attempt.
THEOREM RetriesFollowPolicy == Spec => []DelayMatchesPolicy
<1>1. ResultInv => DelayMatchesPolicy
  BY DEF ResultInv, Outcome, DelayAllowed, DelayMatchesPolicy
<1> QED BY <1>1, ResultInitial, ResultStep, PTL DEF Spec

=============================================================================
