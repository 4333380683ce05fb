-------------------------- MODULE WorkflowRunProofs --------------------------
(* Proofs about WorkflowRun, for every set of attempts, retry limits and   *)
(* contexts.                                                               *)
EXTENDS WorkflowRun, TLAPS

\* Only a run that has executed nothing enters a state in which it has not, or
\* fails for its input.
LEMMA TableKeepsUnexecuted ==
  ASSUME NEW from \in RunState, NEW to \in ALLOWED_TRANSITIONS[from],
         to \in Unexecuted \cup {"FAILED_INPUT"}
  PROVE  from \in Unexecuted
  <1> SUFFICES ASSUME from \notin Unexecuted PROVE FALSE
    OBVIOUS
  <1>1. ALLOWED_TRANSITIONS[from] \subseteq
           ModelStop \cup ExecutionStop \cup
           (RunState \ (Unexecuted \cup {"FAILED_INPUT"}))
    BY DEF ALLOWED_TRANSITIONS, RunState, Unexecuted, Stop, ModelStop, ExecutionStop
  <1> QED
    BY <1>1 DEF Unexecuted, Stop, ModelStop, ExecutionStop

-----------------------------------------------------------------------------
(* The decisions of the engine.                                            *)

\* Every transition of the table leads deeper into the lifecycle, when a repair
\* raises the repair counter from 0 to 1.
LEMMA TableDeepens ==
  ASSUME NEW from \in RunState, NEW to \in ALLOWED_TRANSITIONS[from],
         NEW x \in {0, 1}, NEW y \in {0, 1}, y >= x,
         to = "REPAIRING" => x = 0 /\ y = 1,
         from = "REPAIRING" => x = 1
  PROVE  Depth(to, y) >= Depth(from, x) + 1
  <1>1. from \notin TERMINAL_STATES
    BY DEF ALLOWED_TRANSITIONS, TERMINAL_STATES, FailureState
  <1>2. CASE from = "RECEIVED"
    <2>1. to \in {"VALIDATING", "CANCELLED"}
      BY <1>2 DEF ALLOWED_TRANSITIONS
    <2>2. Depth(to, y) >= Depth("RECEIVED", x) + 1
      BY <2>1 DEF Depth, Stop, ModelStop, ExecutionStop
    <2> QED
      BY <1>2, <2>2
  <1>3. CASE from = "VALIDATING"
    <2>1. to \in Stop \cup {"QUEUED", "FAILED_INPUT"}
      BY <1>3 DEF ALLOWED_TRANSITIONS
    <2>2. Depth(to, y) >= Depth("VALIDATING", x) + 1
      BY <2>1 DEF Depth, Stop, ModelStop, ExecutionStop
    <2> QED
      BY <1>3, <2>2
  <1>4. CASE from = "QUEUED"
    <2>1. to \in Stop \cup {"PLANNING"}
      BY <1>4 DEF ALLOWED_TRANSITIONS
    <2>2. Depth(to, y) >= Depth("QUEUED", x) + 1
      BY <2>1 DEF Depth, Stop, ModelStop, ExecutionStop
    <2> QED
      BY <1>4, <2>2
  <1>5. CASE from = "PLANNING"
    <2>1. to \in ModelStop \cup {"LOCALISING"}
      BY <1>5 DEF ALLOWED_TRANSITIONS
    <2>2. Depth(to, y) >= Depth("PLANNING", x) + 1
      BY <2>1 DEF Depth, Stop, ModelStop, ExecutionStop
    <2> QED
      BY <1>5, <2>2
  <1>6. CASE from = "LOCALISING"
    <2>1. to \in ModelStop \cup {"GENERATING"}
      BY <1>6 DEF ALLOWED_TRANSITIONS
    <2>2. Depth(to, y) >= Depth("LOCALISING", x) + 1
      BY <2>1 DEF Depth, Stop, ModelStop, ExecutionStop
    <2> QED
      BY <1>6, <2>2
  <1>7. CASE from = "GENERATING"
    <2>1. to \in ModelStop \cup {"EXECUTING_BUGGY"}
      BY <1>7 DEF ALLOWED_TRANSITIONS
    <2>2. Depth(to, y) >= Depth("GENERATING", x) + 1
      BY <2>1 DEF Depth, Stop, ModelStop, ExecutionStop
    <2> QED
      BY <1>7, <2>2
  <1>8. CASE from = "EXECUTING_BUGGY"
    <2>1. to \in ExecutionStop \cup {"EXECUTING_FIXED", "REPAIRING"}
      BY <1>8 DEF ALLOWED_TRANSITIONS
    <2>2. Depth(to, y) >= Depth("EXECUTING_BUGGY", x) + 1
      BY <2>1 DEF Depth, Stop, ModelStop, ExecutionStop
    <2> QED
      BY <1>8, <2>2
  <1>9. CASE from = "EXECUTING_FIXED"
    <2>1. to \in ExecutionStop \cup {"REPAIRING", "SCORING"}
      BY <1>9 DEF ALLOWED_TRANSITIONS
    <2>2. Depth(to, y) >= Depth("EXECUTING_FIXED", x) + 1
      BY <2>1 DEF Depth, Stop, ModelStop, ExecutionStop
    <2> QED
      BY <1>9, <2>2
  <1>10. CASE from = "REPAIRING"
    <2>1. to \in ModelStop \cup {"EXECUTING_BUGGY"}
      BY <1>10 DEF ALLOWED_TRANSITIONS
    <2>2. Depth(to, y) >= Depth("REPAIRING", x) + 1
      BY <2>1, <1>10 DEF Depth, Stop, ModelStop, ExecutionStop
    <2> QED
      BY <1>10, <2>2
  <1>11. CASE from = "SCORING"
    <2>1. to \in Stop \cup {"ABSTAINED", "PUBLISHING",
                               "AWAITING_HUMAN_REVIEW", "COMPLETED"}
      BY <1>11 DEF ALLOWED_TRANSITIONS
    <2>2. Depth(to, y) >= Depth("SCORING", x) + 1
      BY <2>1 DEF Depth, Stop, ModelStop, ExecutionStop
    <2> QED
      BY <1>11, <2>2
  <1>12. CASE from = "PUBLISHING"
    <2>1. to \in Stop \cup {"AWAITING_HUMAN_REVIEW", "COMPLETED"}
      BY <1>12 DEF ALLOWED_TRANSITIONS
    <2>2. Depth(to, y) >= Depth("PUBLISHING", x) + 1
      BY <2>1 DEF Depth, Stop, ModelStop, ExecutionStop
    <2> QED
      BY <1>12, <2>2
  <1>13. CASE from = "AWAITING_HUMAN_REVIEW"
    <2>1. to \in {"COMPLETED"}
      BY <1>13 DEF ALLOWED_TRANSITIONS
    <2>2. Depth(to, y) >= Depth("AWAITING_HUMAN_REVIEW", x) + 1
      BY <2>1 DEF Depth, Stop, ModelStop, ExecutionStop
    <2> QED
      BY <1>13, <2>2
  <1> QED
    BY <1>1, <1>2, <1>3, <1>4, <1>5, <1>6, <1>7, <1>8, <1>9, <1>10,
       <1>11, <1>12, <1>13
       DEF RunState, TERMINAL_STATES, FailureState

\* evaluate_transition leaves a state only for one deeper in the lifecycle.
LEMMA TransitionDeepens ==
  ASSUME NEW s \in Snapshot, SnapshotIsValid(s),
         NEW t \in RunState, NEW c, Accepts(s, t, c)
  PROVE  Depth(t, NextSnapshot(s, t).repairs) >= Depth(s.state, s.repairs) + 1
  <1>1. s.state \in RunState /\ s.repairs \in {0, 1}
    BY DEF Snapshot
  <1>2. NextSnapshot(s, t).repairs = IF t = "REPAIRING" THEN 1 ELSE s.repairs
    BY DEF NextSnapshot, Snapshot
  <1>3. t \in ALLOWED_TRANSITIONS[s.state] /\ (t = "REPAIRING" => s.repairs = 0)
    BY <1>1 DEF Accepts, MayRepair
  <1>4. s.state = "REPAIRING" => s.repairs = 1
    BY DEF SnapshotIsValid, RepairCounterIsValid
  <1>5. /\ NextSnapshot(s, t).repairs \in {0, 1}
        /\ NextSnapshot(s, t).repairs >= s.repairs
    BY <1>1, <1>2
  <1> QED
    BY <1>1, <1>2, <1>3, <1>4, <1>5, TableDeepens

\* The snapshot after an accepted transition can be constructed.
LEMMA TransitionIsValid ==
  ASSUME NEW s \in Snapshot, SnapshotIsValid(s),
         NEW t \in RunState, NEW c, Accepts(s, t, c)
  PROVE  /\ NextSnapshot(s, t) \in Snapshot
         /\ SnapshotIsValid(NextSnapshot(s, t))
  <1> DEFINE n == NextSnapshot(s, t)
  <1>6. /\ s.version + 1 \in Nat
        /\ (IF t = "REPAIRING" THEN 1 ELSE s.repairs) \in {0, 1}
    BY DEF Snapshot
  <1>7. n \in Snapshot
    BY <1>6 DEF NextSnapshot, Snapshot
  <1>1. /\ n.state = t /\ n.retries = s.retries /\ n.limit = s.limit
        /\ n.repairs = IF t = "REPAIRING" THEN 1 ELSE s.repairs
    BY DEF NextSnapshot, Snapshot
  <1>2. t \in ALLOWED_TRANSITIONS[s.state]
    BY DEF Accepts
  <1>3. s.state \in RunState
    BY DEF Snapshot
  <1>4. t \in Unexecuted \cup {"FAILED_INPUT"} => s.state \in Unexecuted
    BY <1>2, <1>3, TableKeepsUnexecuted
  <1>5. RepairCounterIsValid(n.state, n.repairs)
    BY <1>1, <1>4 DEF SnapshotIsValid, RepairCounterIsValid, Unexecuted
  <1> QED
    BY <1>7, <1>1, <1>5 DEF SnapshotIsValid

\* The snapshot after an accepted retry can be constructed.
LEMMA RetryIsValid ==
  ASSUME NEW s \in Snapshot, SnapshotIsValid(s), HasRetry(s), NEW a \in Attempts
  PROVE  /\ RetrySnapshot(s, a) \in Snapshot
         /\ SnapshotIsValid(RetrySnapshot(s, a))
  <1> DEFINE n == RetrySnapshot(s, a)
  <1>1. a \in Nat /\ s.retries + 1 \in Nat /\ s.version + 1 \in Nat
    BY RunAssumption DEF Snapshot
  <1>2. /\ n.state = s.state /\ n.repairs = s.repairs
        /\ n.retries = s.retries + 1 /\ n.limit = s.limit
    BY DEF RetrySnapshot, Snapshot
  <1>3. n \in Snapshot
    BY <1>1 DEF RetrySnapshot, Snapshot
  <1>4. s.retries \in Nat /\ s.limit \in Nat
    BY DEF Snapshot
  <1> QED
    BY <1>2, <1>3, <1>4 DEF SnapshotIsValid, HasRetry, RepairCounterIsValid

-----------------------------------------------------------------------------
(* The inductive invariant: besides the properties, the latest checkpoint  *)
(* is a snapshot the run has had, and the current one when versions agree. *)

CheckpointIsPast ==
    \A c \in checkpoint :
        c.version <= run.version /\ (c.version = run.version => c = run)

Inv == /\ TypeOK
       /\ SnapshotsStayValid
       /\ InfrastructureFailureIsExhausted
       /\ LifecycleIsBounded
       /\ CheckpointIsPast

LEMMA InitInv == Init => Inv
  <1> SUFFICES ASSUME Init PROVE Inv
    OBVIOUS
  <1>1. PICK kind \in RequestKind, review \in BOOLEAN, limit \in RetryLimits :
           run = NewRun(kind, review, limit)
    BY DEF Init
  <1>2. limit \in Nat
    BY RunAssumption
  <1>3. run \in Snapshot
    BY <1>1, <1>2 DEF NewRun, Snapshot, RunState
  <1> QED
    BY <1>1, <1>2, <1>3 DEF Init, Inv, TypeOK, SnapshotsStayValid, SnapshotIsValid,
       RepairCounterIsValid, InfrastructureFailureIsExhausted, LifecycleIsBounded,
       CheckpointIsPast, NewRun, Depth, Unexecuted

\* A transition preserves the invariant and advances the run.
LEMMA TransitionStep ==
  ASSUME Inv, NEW t \in RunState, NEW c \in Contexts, Transition(t, c)
  PROVE  /\ Inv'
         /\ run'.repairs >= run.repairs /\ run'.retries >= run.retries
         /\ run'.version > run.version
  <1>1. run \in Snapshot /\ SnapshotIsValid(run) /\ Accepts(run, t, c)
    BY DEF Inv, TypeOK, SnapshotsStayValid, Transition
  <1>2. run' = NextSnapshot(run, t) /\ checkpoint' = checkpoint
    BY DEF Transition
  <1>3. run' \in Snapshot /\ SnapshotIsValid(run')
    BY <1>1, <1>2, TransitionIsValid
  <1>4. /\ run'.state = t
        /\ run'.version = run.version + 1
        /\ run'.retries = run.retries
        /\ run'.limit = run.limit
        /\ run'.repairs = IF t = "REPAIRING" THEN 1 ELSE run.repairs
    BY <1>1, <1>2 DEF NextSnapshot, Snapshot
  <1>5. run.version \in Nat /\ run.retries \in Nat /\ run.repairs \in {0, 1}
    BY <1>1 DEF Snapshot
  <1>6. TypeOK' /\ SnapshotsStayValid'
    BY <1>2, <1>3 DEF Inv, TypeOK, SnapshotsStayValid
  <1>7. InfrastructureFailureIsExhausted'
    BY <1>1, <1>4 DEF InfrastructureFailureIsExhausted, Accepts, MayFail, FailureState
  <1>8. LifecycleIsBounded'
    <2>1. Depth(t, run'.repairs) >= Depth(run.state, run.repairs) + 1
      BY <1>1, <1>2, TransitionDeepens
    <2>2. run.version <= Depth(run.state, run.repairs) + run.retries
      BY DEF Inv, LifecycleIsBounded
    <2>3. Depth(run.state, run.repairs) \in Nat /\ Depth(t, run'.repairs) \in Nat
      BY <1>4, <1>5 DEF Depth
    <2> QED
      BY <1>4, <1>5, <2>1, <2>2, <2>3 DEF LifecycleIsBounded
  <1>9. CheckpointIsPast'
    <2>1. \A x \in checkpoint : x.version \in Nat /\ x.version <= run.version
      BY DEF Inv, TypeOK, CheckpointIsPast, Snapshot
    <2> QED
      BY <1>2, <1>4, <1>5, <2>1 DEF CheckpointIsPast
  <1> QED
    BY <1>4, <1>5, <1>6, <1>7, <1>8, <1>9 DEF Inv

\* So does a retry, scheduled or appended on resumption.
LEMMA RetryStep ==
  ASSUME Inv, NEW a \in Attempts, HasRetry(run), run.state \notin TERMINAL_STATES,
         run' = RetrySnapshot(run, a), UNCHANGED checkpoint
  PROVE  /\ Inv'
         /\ run'.repairs >= run.repairs /\ run'.retries >= run.retries
         /\ run'.version > run.version
  <1>1. run \in Snapshot /\ SnapshotIsValid(run)
    BY DEF Inv, TypeOK, SnapshotsStayValid
  <1>2. run' \in Snapshot /\ SnapshotIsValid(run')
    BY <1>1, RetryIsValid
  <1>3. /\ run'.state = run.state /\ run'.repairs = run.repairs
        /\ run'.version = run.version + 1 /\ run'.retries = run.retries + 1
    BY <1>1 DEF RetrySnapshot, Snapshot
  <1>4. run.version \in Nat /\ run.retries \in Nat /\ run.repairs \in {0, 1}
    BY <1>1 DEF Snapshot
  <1>5. TypeOK' /\ SnapshotsStayValid'
    BY <1>2 DEF Inv, TypeOK, SnapshotsStayValid
  <1>6. InfrastructureFailureIsExhausted'
    BY <1>3 DEF InfrastructureFailureIsExhausted, TERMINAL_STATES, FailureState
  <1>7. LifecycleIsBounded'
    <2>1. Depth(run.state, run.repairs) \in Nat
      BY <1>4 DEF Depth
    <2> QED
      BY <1>3, <1>4, <2>1 DEF Inv, LifecycleIsBounded
  <1>8. CheckpointIsPast'
    <2>1. \A x \in checkpoint : x.version \in Nat /\ x.version <= run.version
      BY DEF Inv, TypeOK, CheckpointIsPast, Snapshot
    <2> QED
      BY <1>3, <1>4, <2>1 DEF CheckpointIsPast
  <1> QED
    BY <1>3, <1>4, <1>5, <1>6, <1>7, <1>8 DEF Inv

LEMMA StepInv ==
  ASSUME Inv, [Next]_vars
  PROVE  /\ Inv'
         /\ run'.repairs >= run.repairs /\ run'.retries >= run.retries
         /\ run'.version > run.version \/ run' = run
  <1>1. run \in Snapshot
    BY DEF Inv, TypeOK
  <1>2. run.repairs >= run.repairs /\ run.retries >= run.retries
    BY <1>1 DEF Snapshot
  <1>3. CASE \E t \in RunState, c \in Contexts : Transition(t, c)
    BY <1>3, TransitionStep
  <1>4. CASE \E a \in Attempts, kind \in RetryKind : ScheduleRetry(a, kind)
    BY <1>4, RetryStep DEF ScheduleRetry, AcceptsRetry
  <1>5. CASE CommitCheckpoint
    <2>1. checkpoint' = {run} /\ run' = run
      BY <1>5 DEF CommitCheckpoint
    <2>2. run.version <= run.version
      BY <1>1 DEF Snapshot
    <2> QED
      BY <1>1, <1>2, <2>1, <2>2 DEF Inv, TypeOK, SnapshotsStayValid,
         InfrastructureFailureIsExhausted, LifecycleIsBounded, CheckpointIsPast
  <1>6. CASE Continue
    <2>1. run' = run /\ checkpoint' = checkpoint
      BY <1>6 DEF Continue, AcceptsContinue, AcceptsResume, CheckpointMatches, Inv,
         CheckpointIsPast
    <2> QED
      BY <1>2, <2>1 DEF Inv, TypeOK, SnapshotsStayValid,
         InfrastructureFailureIsExhausted, LifecycleIsBounded, CheckpointIsPast
  <1>7. CASE \E a \in Attempts : ResumeWithRetry(a)
    <2>1. PICK a \in Attempts, latest \in checkpoint :
             /\ AcceptsRetryAttempt(latest, run.version, a)
             /\ run' = RetrySnapshot(latest, a)
             /\ UNCHANGED checkpoint
      BY <1>7 DEF ResumeWithRetry
    <2>2. latest = run
      BY <2>1 DEF AcceptsRetryAttempt, AcceptsResume, CheckpointMatches, Inv,
         CheckpointIsPast
    <2> QED
      BY <2>1, <2>2, RetryStep DEF AcceptsRetryAttempt, AcceptsResume
  <1>8. CASE UNCHANGED vars
    BY <1>2, <1>8 DEF vars, Inv, TypeOK, SnapshotsStayValid,
       InfrastructureFailureIsExhausted, LifecycleIsBounded, CheckpointIsPast
  <1> QED
    BY <1>3, <1>4, <1>5, <1>6, <1>7, <1>8 DEF Next

LEMMA Invariance == Spec => []Inv
  <1>1. Inv /\ [Next]_vars => Inv'
    BY StepInv
  <1> QED
    BY InitInv, <1>1, PTL DEF Spec

-----------------------------------------------------------------------------
(* The theorems.                                                           *)

\* No decision of the engine ever builds a snapshot that cannot be constructed.
THEOREM SnapshotsStayValidCorrect == Spec => []SnapshotsStayValid
  <1>1. Inv => SnapshotsStayValid
    BY DEF Inv
  <1> QED
    BY Invariance, <1>1, PTL

\* A run that failed for infrastructure reasons has no retry left.
THEOREM InfrastructureFailureCorrect == Spec => []InfrastructureFailureIsExhausted
  <1>1. Inv => InfrastructureFailureIsExhausted
    BY DEF Inv
  <1> QED
    BY Invariance, <1>1, PTL

\* The lifecycle has no open-ended loop.
THEOREM LifecycleBounded == Spec => []LifecycleIsBounded
  <1>1. Inv => LifecycleIsBounded
    BY DEF Inv
  <1> QED
    BY Invariance, <1>1, PTL

\* Retries and resumptions never take a run back.
THEOREM CountersCorrect == Spec => CountersNeverRegress
  <1>1. Inv /\ [Next]_vars =>
           [/\ run'.repairs >= run.repairs
            /\ run'.retries >= run.retries
            /\ run'.version > run.version \/ run' = run]_vars
    BY StepInv
  <1> QED
    BY Invariance, <1>1, PTL DEF Spec, CountersNeverRegress
=============================================================================
