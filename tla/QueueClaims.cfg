SPECIFICATION Spec
CONSTANTS
  m1 = m1
  m2 = m2
  r1 = r1
  r2 = r2
  p1 = p1
  p2 = p2
  a1 = a1
  Message = {m1}
  Request = {r1}
  Publication = {p1}
  Attempt = {a1, a2}
  Worker = {w1}
  Result = {x1, x2}
  Phase = {ph1}
  Reference = {f1, f2}
  Envelopes <- OneEnvelope
  Outcomes = {"CONFIRMED_SUCCESS"}
  Withdrawn = {"CANCELLED"}
  Failures = {"POISON", "TRANSPORT_RETRYABLE"}
  MaxTransportAttempts = 2
  MaxPoisonAttempts = 1
  MaxRedrives = 1
  MaxDeliveries = 3
  MaxClaims = 2
SYMMETRY Symmetry
CHECK_DEADLOCK FALSE
INVARIANTS
  LiveClaimHasHighestFence
  OneResultPerSlot
  ResultsAreAttributable
  RetriesAreAccounted
PROPERTIES
  AuthorityIsNeverRegained
  ImplementsFencedEffects
