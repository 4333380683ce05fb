------------------------ MODULE MCWorkflowPersistence ------------------------
(* Instances of WorkflowPersistence for TLC: the requests of one repaired  *)
(* run, the ones that compete with them, and one that reuses an event.     *)
EXTENDS WorkflowPersistence, FiniteSets, TLC

Plain == [actor |-> "WORKFLOW", failure |-> "NONE", abstention |-> "NONE",
          cancellation |-> "NONE", disposition |-> "NONE", repairable |-> TRUE,
          published |-> FALSE, packaged |-> TRUE]

Move(version, from, to, context, event) ==
    [expectedState |-> from, expectedVersion |-> version, target |-> to,
     context |-> context, event |-> event, fingerprint |-> 1]

\* The requests of a run that is repaired after the first execution.
Path == <<"RECEIVED", "VALIDATING", "QUEUED", "PLANNING", "LOCALISING", "GENERATING",
          "EXECUTING_BUGGY", "REPAIRING", "EXECUTING_BUGGY", "EXECUTING_FIXED",
          "SCORING", "COMPLETED">>

Moves == {Move(n - 1, Path[n], Path[n + 1], Plain, n) : n \in 1..(Len(Path) - 1)}

\* Requests that race with them for a version: another execution order, a second
\* repair, and three ways to stop.
Competing ==
    {Move(6, "EXECUTING_BUGGY", "EXECUTING_FIXED", Plain, 21),
     Move(7, "EXECUTING_FIXED", "REPAIRING", Plain, 22),
     Move(8, "EXECUTING_BUGGY", "REPAIRING", Plain, 23),
     Move(1, "VALIDATING", "CANCELLED",
          [Plain EXCEPT !.cancellation = "USER_REQUESTED"], 24),
     Move(2, "QUEUED", "FAILED_INFRASTRUCTURE",
          [Plain EXCEPT !.failure = "INFRASTRUCTURE"], 25),
     Move(8, "EXECUTING_BUGGY", "ABSTAINED",
          [Plain EXCEPT !.abstention = "REPAIR_LIMIT_EXHAUSTED"], 26)}

\* A producer reuses the identity of an event for a different request, whose
\* context carries a value its target does not look at.
Reused ==
    {[Move(3, "PLANNING", "LOCALISING",
           [Plain EXCEPT !.cancellation = "MALFORMED"], 4)
         EXCEPT !.fingerprint = 2]}

AllRequests == Moves \cup Competing \cup Reused

\* A benchmark run without retries and a repository run with one.
TwoProfiles ==
    {[kind |-> "BENCHMARK", reviewRequired |-> FALSE, limit |-> 0],
     [kind |-> "GITHUB", reviewRequired |-> TRUE, limit |-> 1]}

Sessions == Permutations(Session)
=============================================================================
