SPECIFICATION Spec
CONSTANTS
  Contexts = {c1, c2}
  Attempts = {a1, a2}
  NoHandle = none
  Requests = {r1, r2}
  MaxGeneration = 1
  MaxRestarts = 0
SYMMETRY Symmetry
INVARIANTS
  TombstoneIsReconcilable
