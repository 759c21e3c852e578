SPECIFICATION Spec
CONSTANTS
  Document <- MCDocument
  Malformed = "bad"
  MaxKeys = 2
  Half = 4
  Claims <- MCClaims
  Statuses = {99, 200, 302, 404, 503}
  Wishes <- MCWishes
  ClaimTimeout = 1
  RequestTimeout = 4
  LeaseTTL = 6
  LeaseMargin = 2
  Base = 1
  Cap = 6
  MaxDelay = 6
  ResolveTimeout = 1
  DialTimeout = 1
  HandshakeTimeout = 1
  HeaderTimeout = 1
  MaxSkew = 5
INVARIANT
  DnsFailureRetried
