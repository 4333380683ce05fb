--------------------------- MODULE WorkflowEngine ---------------------------
(***************************************************************************)
(* The pure decisions of the Workflow lifecycle (apps/api/app/workflow:    *)
(* types.py, engine.py, checkpoint.py) as operators on values: which       *)
(* transition, retry or resume is accepted for a snapshot of a run, and    *)
(* the snapshot it yields.  A refused decision is the operator being       *)
(* FALSE; the reason given for the refusal is not modelled.                *)
(***************************************************************************)
EXTENDS Naturals

RunState ==
    {"RECEIVED", "VALIDATING", "QUEUED", "PLANNING", "LOCALISING", "GENERATING",
     "EXECUTING_BUGGY", "EXECUTING_FIXED", "REPAIRING", "SCORING", "PUBLISHING",
     "AWAITING_HUMAN_REVIEW", "COMPLETED", "ABSTAINED", "FAILED_INPUT",
     "FAILED_MODEL", "FAILED_EXECUTION", "FAILED_INFRASTRUCTURE",
     "FAILED_SECURITY", "CANCELLED"}

FailureState == {"FAILED_INPUT", "FAILED_MODEL", "FAILED_EXECUTION",
                 "FAILED_INFRASTRUCTURE", "FAILED_SECURITY"}

TERMINAL_STATES == FailureState \cup {"COMPLETED", "ABSTAINED", "CANCELLED"}

\* States before the first candidate is executed.
Unexecuted == {"RECEIVED", "VALIDATING", "QUEUED", "PLANNING", "LOCALISING", "GENERATING"}

RequestKind == {"GITHUB", "BENCHMARK"}
ActorType == {"SYSTEM", "WORKFLOW", "WORKER", "HUMAN"}
RetryKind == {"INFRASTRUCTURE", "TRANSPORT"}

\* Codes up to what the engine tells apart: a failure code is the family its
\* prefix names, "MALFORMED" stands for every value that does not parse.
FailureCode == {"INPUT", "MODEL", "EXECUTION", "INFRASTRUCTURE", "SECURITY"}
AbstentionCode == {"REPAIR_LIMIT_EXHAUSTED", "BUG_NOT_REPRODUCED"}
CancellationCode == {"USER_REQUESTED"}
HumanDisposition == {"APPROVED", "REGENERATION_REQUESTED"}
Unparsed == {"NONE", "MALFORMED"}

FailurePrefix(target) ==
    CASE target = "FAILED_INPUT"          -> "INPUT"
      [] target = "FAILED_MODEL"          -> "MODEL"
      [] target = "FAILED_EXECUTION"      -> "EXECUTION"
      [] target = "FAILED_INFRASTRUCTURE" -> "INFRASTRUCTURE"
      [] target = "FAILED_SECURITY"       -> "SECURITY"

-----------------------------------------------------------------------------
(* Values.                                                                 *)

\* LifecycleSnapshot; attempt 0 is the absent AttemptId.
Snapshot ==
    [state: RunState, repairs: {0, 1}, retries: Nat, limit: Nat, kind: RequestKind,
     reviewRequired: BOOLEAN, version: Nat, attempt: Nat]

\* TransitionContext.
Context ==
    [actor: ActorType \cup {"NONE"},
     failure: FailureCode \cup Unparsed,
     abstention: AbstentionCode \cup Unparsed,
     cancellation: CancellationCode \cup Unparsed,
     disposition: HumanDisposition \cup Unparsed,
     repairable: BOOLEAN,     \* repairable_failure_recorded
     published: BOOLEAN,      \* publication_side_effect_committed
     packaged: BOOLEAN]       \* evidence_packaged

RepairCounterIsValid(state, repairs) ==
    /\ state = "REPAIRING" => repairs = 1
    /\ state \in Unexecuted \cup {"FAILED_INPUT"} => repairs = 0

\* What LifecycleSnapshot.__post_init__ demands; constructing any other
\* snapshot raises.
SnapshotIsValid(s) ==
    /\ RepairCounterIsValid(s.state, s.repairs)
    /\ s.retries <= s.limit

-----------------------------------------------------------------------------
(* Transitions.                                                            *)

\* The exits every state after validation has, and the ones of a state in
\* which a model works on the candidate.
Stop == {"FAILED_INFRASTRUCTURE", "FAILED_SECURITY", "CANCELLED"}
ModelStop == Stop \cup {"ABSTAINED", "FAILED_MODEL"}
ExecutionStop == Stop \cup {"ABSTAINED", "FAILED_EXECUTION"}

ALLOWED_TRANSITIONS ==
    [s \in RunState |->
        CASE s = "RECEIVED"        -> {"VALIDATING", "CANCELLED"}
          [] s = "VALIDATING"      -> Stop \cup {"QUEUED", "FAILED_INPUT"}
          [] s = "QUEUED"          -> Stop \cup {"PLANNING"}
          [] s = "PLANNING"        -> ModelStop \cup {"LOCALISING"}
          [] s = "LOCALISING"      -> ModelStop \cup {"GENERATING"}
          [] s = "GENERATING"      -> ModelStop \cup {"EXECUTING_BUGGY"}
          [] s = "EXECUTING_BUGGY" -> ExecutionStop \cup {"EXECUTING_FIXED", "REPAIRING"}
          [] s = "EXECUTING_FIXED" -> ExecutionStop \cup {"REPAIRING", "SCORING"}
          [] s = "REPAIRING"       -> ModelStop \cup {"EXECUTING_BUGGY"}
          [] s = "SCORING"         -> Stop \cup {"ABSTAINED", "PUBLISHING",
                                                 "AWAITING_HUMAN_REVIEW", "COMPLETED"}
          [] s = "PUBLISHING"      -> Stop \cup {"AWAITING_HUMAN_REVIEW", "COMPLETED"}
          [] s = "AWAITING_HUMAN_REVIEW" -> {"COMPLETED"}
          [] OTHER                 -> {}]

\* Fault: the table alone decides.
MayRepairAgain(s, c) == c.repairable

MayRepair(s, c) == s.repairs # 1 /\ c.repairable

MayCancel(s, c) ==
    /\ s.state # "AWAITING_HUMAN_REVIEW"
    /\ s.state = "PUBLISHING" => ~c.published
    /\ c.cancellation \in CancellationCode

MayComplete(s, c) ==
    IF s.state = "AWAITING_HUMAN_REVIEW"
    THEN c.disposition \in HumanDisposition /\ c.actor = "HUMAN"
    ELSE s.kind = "BENCHMARK" /\ ~s.reviewRequired /\ c.packaged

\* Fault: an infrastructure failure is accepted while retries remain.
MayFailEarly(s, target, c) == c.failure = FailurePrefix(target)

MayFail(s, target, c) ==
    /\ c.failure = FailurePrefix(target)
    /\ target = "FAILED_INFRASTRUCTURE" => s.retries = s.limit

MayAbstain(s, c) ==
    /\ c.abstention \in AbstentionCode
    /\ c.abstention = "REPAIR_LIMIT_EXHAUSTED" => s.repairs = 1

\* evaluate_transition accepts the target for the snapshot.
Accepts(s, target, c) ==
    /\ target \in ALLOWED_TRANSITIONS[s.state]
    /\ target = "CANCELLED" => MayCancel(s, c)
    /\ target = "REPAIRING" => MayRepair(s, c)
    /\ target = "COMPLETED" => MayComplete(s, c)
    /\ target \in FailureState => MayFail(s, target, c)
    /\ target = "ABSTAINED" => MayAbstain(s, c)
    /\ target \in TERMINAL_STATES => c.actor # "NONE"

\* The snapshot after an accepted transition.
NextSnapshot(s, target) ==
    [s EXCEPT !.state = target,
              !.repairs = IF target = "REPAIRING" THEN 1 ELSE @,
              !.version = @ + 1]

-----------------------------------------------------------------------------
(* Retries and resumption.                                                 *)

HasRetry(s) == s.retries # s.limit

\* schedule_retry accepts attempt a.
AcceptsRetry(s, a, kind) ==
    /\ s.state \notin TERMINAL_STATES
    /\ kind \in RetryKind
    /\ a # 0 /\ a # s.attempt
    /\ HasRetry(s)

RetrySnapshot(s, a) ==
    [s EXCEPT !.retries = @ + 1, !.attempt = a, !.version = @ + 1]

\* Fault: any intact checkpoint of the run will do.
AnyCheckpointMatches(checkpoint, version) == TRUE

\* run_version_matches, is_latest_committed and checksum_valid as the store of
\* checkpoints reports them for a run that is at the given version.
CheckpointMatches(checkpoint, version) == checkpoint.version = version

\* validate_resume of a committed checkpoint that is not corrupt.
AcceptsResume(checkpoint, version) ==
    /\ CheckpointMatches(checkpoint, version)
    /\ checkpoint.state \notin TERMINAL_STATES
    /\ SnapshotIsValid(checkpoint)

AcceptsContinue(checkpoint, version) ==
    AcceptsResume(checkpoint, version) /\ checkpoint.attempt # 0

AcceptsRetryAttempt(checkpoint, version, a) ==
    /\ AcceptsResume(checkpoint, version)
    /\ a # 0 /\ a # checkpoint.attempt
    /\ HasRetry(checkpoint)
=============================================================================
