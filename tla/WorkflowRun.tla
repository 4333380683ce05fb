----------------------------- MODULE WorkflowRun -----------------------------
(***************************************************************************)
(* One run of the Workflow lifecycle as a worker drives it through the     *)
(* pure engine: transitions, scheduled retries, and resumption from the    *)
(* latest committed checkpoint (evaluate_transition, schedule_retry,       *)
(* validate_resume).                                                       *)
(***************************************************************************)
EXTENDS WorkflowEngine

CONSTANTS Attempts,     \* AttemptId values, numbered from 1
          RetryLimits,  \* inputs: the retry limits runs are configured with
          Contexts      \* inputs: the transition contexts callers pass

ASSUME RunAssumption ==
    /\ Attempts \subseteq Nat \ {0}
    /\ RetryLimits \subseteq Nat
    /\ Contexts \subseteq Context

VARIABLES run,          \* the current LifecycleSnapshot
          checkpoint    \* the latest committed checkpoint, as a set of at most one

vars == <<run, checkpoint>>

NewRun(kind, review, limit) ==
    [state |-> "RECEIVED", repairs |-> 0, retries |-> 0, limit |-> limit,
     kind |-> kind, reviewRequired |-> review, version |-> 0, attempt |-> 0]

Init ==
    /\ \E kind \in RequestKind, review \in BOOLEAN, limit \in RetryLimits :
          run = NewRun(kind, review, limit)
    /\ checkpoint = {}

Transition(target, c) ==
    /\ Accepts(run, target, c)
    /\ run' = NextSnapshot(run, target)
    /\ UNCHANGED checkpoint

ScheduleRetry(a, kind) ==
    /\ AcceptsRetry(run, a, kind)
    /\ run' = RetrySnapshot(run, a)
    /\ UNCHANGED checkpoint

\* The store of checkpoints commits the current snapshot.
CommitCheckpoint == checkpoint' = {run} /\ UNCHANGED run

\* CONTINUE_CURRENT_ATTEMPT
Continue ==
    \E latest \in checkpoint :
        /\ AcceptsContinue(latest, run.version)
        /\ run' = latest
        /\ UNCHANGED checkpoint

\* APPEND_BOUNDED_RETRY_ATTEMPT
ResumeWithRetry(a) ==
    \E latest \in checkpoint :
        /\ AcceptsRetryAttempt(latest, run.version, a)
        /\ run' = RetrySnapshot(latest, a)
        /\ UNCHANGED checkpoint

Next ==
    \/ \E target \in RunState, c \in Contexts : Transition(target, c)
    \/ \E a \in Attempts, kind \in RetryKind : ScheduleRetry(a, kind)
    \/ CommitCheckpoint
    \/ Continue
    \/ \E a \in Attempts : ResumeWithRetry(a)

Spec == Init /\ [][Next]_vars

-----------------------------------------------------------------------------
(* Properties.                                                             *)

TypeOK == run \in Snapshot /\ checkpoint \subseteq Snapshot

\* No decision of the engine builds a snapshot whose construction raises: the
\* repair counter always fits the state, and the retry counter the limit.
SnapshotsStayValid ==
    /\ SnapshotIsValid(run)
    /\ \A c \in checkpoint : SnapshotIsValid(c)

\* A failure for infrastructure reasons is only ever declared of a run whose
\* retry budget is spent, however retries and resumptions alternated.
InfrastructureFailureIsExhausted ==
    run.state = "FAILED_INFRASTRUCTURE" => run.retries = run.limit

\* The most transitions a run can have behind it in a state, given whether it
\* was repaired; a repair sends it through the executions once more.
Depth(state, repairs) ==
    CASE state = "RECEIVED"              -> 0
      [] state = "VALIDATING"            -> 1
      [] state = "QUEUED"                -> 2
      [] state = "PLANNING"              -> 3
      [] state = "LOCALISING"            -> 4
      [] state = "GENERATING"            -> 5
      [] state = "EXECUTING_BUGGY"       -> 6 + 3 * repairs
      [] state = "EXECUTING_FIXED"       -> 7 + 3 * repairs
      [] state = "REPAIRING"             -> 8
      [] state = "SCORING"               -> 8 + 3 * repairs
      [] state = "PUBLISHING"            -> 9 + 3 * repairs
      [] state = "AWAITING_HUMAN_REVIEW" -> 10 + 3 * repairs
      [] OTHER                           -> 11 + 3 * repairs

\* A run has no open-ended loop: it has at most 14 transitions behind it, the
\* retries not counted, and no more than its state and repair account for.
LifecycleIsBounded ==
    run.version <= Depth(run.state, run.repairs) + run.retries

\* Neither a retry nor a resumption takes a run back: the version and the
\* counters never decrease, and the version stands still only with the run.
CountersNeverRegress ==
    [][/\ run'.repairs >= run.repairs
       /\ run'.retries >= run.retries
       /\ run'.version > run.version \/ run' = run]_vars
=============================================================================
