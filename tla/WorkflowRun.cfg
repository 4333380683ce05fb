SPECIFICATION Spec
CONSTANTS
  Attempts = {1, 2}
  RetryLimits = {0, 1, 2}
  Contexts <- AllContexts
INVARIANTS
  
  LifecycleIsBounded
PROPERTIES
  CountersNeverRegress
