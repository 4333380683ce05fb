SPECIFICATION Spec
CONSTANTS
  WordMax = 3
  Child = child
  Descendants = {d1}
  Requests <- Executions
  ExitStatuses = {"zero", "SIGXCPU"}
  PipeCapacity = 1
  MaxWritten <- StderrOnce
INVARIANTS
  TerminationClearsTheGroup
  CaptureIsComplete
  PrimaryFailureIsTheCause
  CpuLimitIsFinite
PROPERTIES
  BoundedCallsAreAnswered
  FullPipesAreDrained
