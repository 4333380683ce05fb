SPECIFICATION Spec
CONSTANTS
  m1 = m1
  m2 = m2
  r1 = r1
  r2 = r2
  p1 = p1
  p2 = p2
  a1 = a1
  Message = {m1, m2}
  Request = {r1, r2}
  Publication = {p1, p2}
  Attempt = {a1}
  Worker = {w1}
  Result = {x1}
  Phase = {ph1}
  Reference = {f1}
  Envelopes <- CompetingEnvelopes
  Outcomes = {"RESULT_UNCERTAIN", "CONFIRMED_SUCCESS", "CONFIRMED_FAILURE"}
  Withdrawn = {"CANCELLED"}
  Failures = {"POISON"}
  MaxTransportAttempts = 1
  MaxPoisonAttempts = 1
  MaxRedrives = 1
  MaxDeliveries = 2
  MaxClaims = 2
CHECK_DEADLOCK FALSE
INVARIANTS
  SecurityRejectionRevokesClaims
PROPERTIES
  StoppedWorkIsFrozen
