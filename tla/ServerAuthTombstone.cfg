SPECIFICATION Spec
CONSTANTS
  Contexts = {c1}
  Attempts = {a1, a2, a3}
  NoHandle = none
  Requests = {r1, r2}
  MaxGeneration = 2
  MaxRestarts = 0
SYMMETRY Symmetry
PROPERTIES
  TombstoneRemovalGrantsNothing
