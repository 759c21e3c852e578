SPECIFICATION Spec
CONSTANTS
  Command = {c1, c2}
  Path = {p1}
  Session = {s1, s2}
  Request = {r1}
  Limit = 1
  TouchInterval = 1
  IdleLife = 2
  AbsoluteLife = 3
  Retention = 1
  MaxGeneration = 1
  MaxTime = 3
SYMMETRY MCSymmetry
CHECK_DEADLOCK FALSE
INVARIANTS
  SessionLimit
  ServedOnlyWhileOpen
  CredentialKnown
PROPERTIES
  LiveSessionServed
