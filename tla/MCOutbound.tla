------------------------------ MODULE MCOutbound ------------------------------
EXTENDS Outbound

Key(version, material) == [version |-> version, material |-> material]

\* A key, its rotation, a key of the other purpose, versions that do not fit in
\* an int16, a primary that wraps onto a key, a malformed material, and a refused file.
MCDocument ==
  {[primary |-> 1, keys |-> <<Key(1, "k1")>>],
   [primary |-> 2, keys |-> <<Key(2, "k2"), Key(1, "k1")>>],
   [primary |-> 1, keys |-> <<Key(1, "s1")>>],
   [primary |-> 5, keys |-> <<Key(5, "k5")>>],
   [primary |-> 9, keys |-> <<Key(1, "k1")>>],
   [primary |-> 1, keys |-> <<Key(1, "bad")>>],
   [primary |-> 1, keys |-> <<>>]}

MCClaim(attempt, scheme, host, payload, signing, retiring) ==
  [attempt |-> attempt, scheme |-> scheme, host |-> host,
   target |-> signing, payload |-> payload,
   active |-> [key |-> "new", envelope |-> signing],
   retiring |-> {[key |-> "old", envelope |-> e] : e \in retiring}]

Local(attempt, scheme, host) ==
  MCClaim(attempt, scheme, host, Key(1, "payload"), Key(1, "signing"), {})

MCClaims ==
  {Local(1, "http", "localhost"), Local(2, "https", "loopback"),
   MCClaim(1, "https", "name", Key(1, "k1"), Key(1, "s1"), {Key(1, "s1")}),
   MCClaim(3, "https", "name", Key(2, "k2"), Key(1, "s1"), {}),
   MCClaim(4, "https", "global", Key(1, "s1"), Key(1, "k1"), {Key(2, "k2")}),
   MCClaim(4, "https", "special", Key(1, "k1"), Key(1, "s1"), {})}

MCWishes == {-1, 1, 6, 7}
=============================================================================
