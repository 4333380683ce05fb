SPECIFICATION LiveSpec
CONSTANTS
  Users = {u1, u2}
  Nobody = nobody
  Signals = {s1, s2}
  Calls = {c1}
  MaxOperations = 2
  MaxVerifications = 2
INVARIANTS
  EndedSessionStaysEnded
  SignedOutLeavesNoMaterial
PROPERTIES
  TokensAreCurrent
  TombstoneDenies
  LoadingEnds
  TokenCallsAreAnswered
