------------------------- MODULE EvidenceAdmission -------------------------
(***************************************************************************)
(* Which execution evidence is admitted, twice: by the constructors of the *)
(* domain (app/evidence/execution.py) and by the CHECK constraints of the  *)
(* table it is written to (app/db/models/evidence.py and its migration).   *)
(* Free text, opaque references and their byte bounds are abstracted; a    *)
(* missing optional value is None, as is the NULL it is stored as.         *)
(*                                                                         *)
(* A value is offered to its constructor, which raises or returns it; the  *)
(* caller holds what was returned until it is written.                     *)
(***************************************************************************)
EXTENDS Integers, Sequences, SequencesExt

CONSTANTS None,
          ExecutionInputs,   \* values offered to the constructors
          CandidateInputs,   \* pairs of a patch and a version
          ObservationInputs,
          ArtefactInputs,
          ManifestInputs

ASSUME InputAssumption ==
    /\ None \notin {"SUCCESS", "FAILURE", "NOT_COMPLETED", "VERIFIED"}
    /\ None \notin BOOLEAN
    /\ \A e \in ExecutionInputs : e.tests # None =>
          {e.tests.passed, e.tests.failed, e.tests.skipped, e.tests.errored}
              \subseteq Nat \cup {None}

VARIABLE held   \* the value a constructor has returned: [kind, value]

FailureOutcomes == {"COMPILATION_FAILURE", "TEST_FAILURE", "TIMEOUT",
                    "CANCELLATION", "RESOURCE_BREACH", "RUNNER_ERROR"}

Outcomes == FailureOutcomes \cup {"SUCCESS", "UNAVAILABLE", "NOT_RUN"}

OrZero(count) == IF count = None THEN 0 ELSE count

-----------------------------------------------------------------------------
(* The constructors.                                                       *)

CompileResultAdmitted(c) ==
    c.status = "SUCCESS" => OrZero(c.errors) = 0

CasesWith(t, statuses) == SelectSeq(t.cases, LAMBDA status : status \in statuses)

\* Counts are within executed_count and, when the individual cases are given,
\* exactly theirs.
TestResultAdmitted(t) ==
    LET counted == OrZero(t.passed) + OrZero(t.failed)
                   + OrZero(t.skipped) + OrZero(t.errored)
    IN  /\ t.executed # None => counted <= t.executed
        /\ t.cases # None =>
              /\ t.passed \in {None, Len(CasesWith(t, {"PASSED"}))}
              /\ t.failed \in {None, Len(CasesWith(t, {"FAILED"}))}
              /\ t.skipped \in {None, Len(CasesWith(t, {"SKIPPED"}))}
              /\ t.errored \in {None, Len(CasesWith(t, {"ERRORED"}))}
              /\ t.executed \in {None, Len(t.cases)}

TimeoutAdmitted(t) == t.timedOut => t.classified

IntegrityAdmitted(i) == i.state = "VERIFIED" => i.referenced

\* Complete timing has start, end and the duration between them.
TimingAdmitted(t) ==
    /\ t.duration = None \/ t.duration >= 0
    /\ t.started # None /\ t.ended # None =>
          /\ t.ended >= t.started
          /\ t.duration \in {None, t.ended - t.started}

\* ResourceObservation
ObservationAdmitted(o) ==
    /\ o.configured # None \/ o.referenced
    /\ (o.category = "OTHER") = (o.otherCategory # None)
    /\ o.enforcement = "NOT_ENFORCED" => ~o.terminated

FailingTests(t) ==
    \/ OrZero(t.failed) > 0 \/ OrZero(t.errored) > 0
    \/ t.cases # None /\ CasesWith(t, {"FAILED", "ERRORED"}) # <<>>

ExpectedCompileStatus(outcome) ==
    CASE outcome = "SUCCESS"             -> "SUCCESS"
      [] outcome = "COMPILATION_FAILURE" -> "FAILURE"
      [] OTHER                           -> "NOT_COMPLETED"

PhaseResultAdmitted(e) ==
    IF e.phase = "COMPILE"
    THEN /\ e.compile # None /\ e.tests = None
         /\ e.compile.status = ExpectedCompileStatus(e.outcome)
         /\ e.outcome # "TEST_FAILURE"
    ELSE /\ e.tests # None /\ e.compile = None
         /\ e.sourced
         /\ e.outcome # "COMPILATION_FAILURE"
         /\ e.outcome = "SUCCESS" => ~FailingTests(e.tests)
         /\ e.outcome = "TEST_FAILURE" => FailingTests(e.tests)

TimeoutMatches(e) ==
    (e.timeout # None /\ e.timeout.timedOut) <=> e.outcome = "TIMEOUT"

\* Fault: only failure outcomes are looked at, so a success may keep a failure.
FaultyOutcomeAdmitted(e) ==
    /\ e.outcome \in FailureOutcomes => e.failure = e.outcome
    /\ e.outcome = "SUCCESS" => e.exit \in {None, 0}
    /\ e.outcome = "RESOURCE_BREACH" => e.breached

OutcomeAdmitted(e) ==
    /\ IF e.outcome \in FailureOutcomes
       THEN e.failure = e.outcome
       ELSE e.failure = None /\ e.secondary = {}
    /\ e.outcome = "SUCCESS" => e.exit \in {None, 0}   \* no other code, no signal
    /\ e.outcome = "RESOURCE_BREACH" => e.breached

\* COMPLETE is claimed only of an execution that ran, with its times, its
\* timeout fact, verified integrity, both streams and the individual cases.
CompletenessAdmitted(e) ==
    e.complete =>
        /\ e.outcome \notin {"UNAVAILABLE", "NOT_RUN"}
        /\ e.timing # None
        /\ {e.timing.started, e.timing.ended, e.timing.duration} \cap {None} = {}
        /\ e.timeout # None
        /\ e.streams
        /\ e.integrity # None /\ e.integrity.state = "VERIFIED"
        /\ e.phase # "COMPILE" => e.tests.cases # None

EvidenceAdmitted(e) ==
    /\ e.compile # None => CompileResultAdmitted(e.compile)
    /\ e.tests # None => TestResultAdmitted(e.tests)
    /\ e.timeout # None => TimeoutAdmitted(e.timeout)
    /\ e.integrity # None => IntegrityAdmitted(e.integrity)
    /\ e.timing # None => TimingAdmitted(e.timing)
    /\ PhaseResultAdmitted(e)
    /\ TimeoutMatches(e)
    /\ OutcomeAdmitted(e)
    /\ CompletenessAdmitted(e)

-----------------------------------------------------------------------------
(* Candidates, artefact references and manifests.  Identities are numbers; *)
(* the constructors want an identity to differ from every related one.     *)

FinalizationAdmitted(state, at) == (state = "FINALIZED") = (at # None)

PatchAdmitted(p) ==
    /\ p.files # {}
    /\ FinalizationAdmitted(p.state, p.finalizedAt)
    /\ p.id # p.version

VersionAdmitted(v) ==
    /\ v.level \in {0, 1}
    /\ (v.level = 0) = (v.parent = None)
    /\ v.parent # v.id
    /\ FinalizationAdmitted(v.state, v.finalizedAt)
    /\ v.id # v.patch

\* validate_candidate_patch_version
PatchMatchesVersion(p, v) == p.id = v.patch /\ p.version = v.id

CandidateAdmitted(c) ==
    /\ PatchAdmitted(c.patch) /\ VersionAdmitted(c.version)
    /\ PatchMatchesVersion(c.patch, c.version)

ArtefactAdmitted(a) ==
    /\ IntegrityAdmitted(a.integrity)
    /\ a.size >= 0
    /\ a.locator # a.id
    /\ a.candidate # a.id /\ a.evidence # a.id

ManifestAdmitted(m) ==
    /\ m.integrity # None => IntegrityAdmitted(m.integrity)
    /\ m.state = "ASSEMBLING" => m.finalizedAt = None
    /\ m.state = "FINALIZED" =>
          m.finalizedAt # None /\ None \notin {m.producer, m.digest, m.algorithm, m.integrity}
    /\ m.finalizedAt # None => m.finalizedAt >= m.createdAt
    /\ (m.digest = None) = (m.algorithm = None)
    /\ m.id \notin {m.candidate, m.evidence} \cup m.members

-----------------------------------------------------------------------------
(* The row and the table's constraints.  A CHECK whose value is NULL       *)
(* passes.                                                                 *)

Part(value, field) == IF value = None THEN None ELSE value[field]

\* _execution_values
ExecutionValues(e) ==
    [phase |-> e.phase, outcome |-> e.outcome,
     started |-> Part(e.timing, "started"), ended |-> Part(e.timing, "ended"),
     duration |-> Part(e.timing, "duration"),
     timedOut |-> Part(e.timeout, "timedOut"),
     classified |-> Part(e.timeout, "classified"),
     integrity |-> Part(e.integrity, "state"),
     verification |-> Part(e.integrity, "referenced"),
     category |-> e.failure,
     secondary |-> IF e.secondary = {} THEN None ELSE e.secondary,
     compileStatus |-> Part(e.compile, "status"),
     compileErrors |-> Part(e.compile, "errors"),
     executed |-> Part(e.tests, "executed"), passed |-> Part(e.tests, "passed"),
     failed |-> Part(e.tests, "failed"), skipped |-> Part(e.tests, "skipped"),
     errored |-> Part(e.tests, "errored")]

TestCounts(row) ==
    {row.executed, row.passed, row.failed, row.skipped, row.errored}

CheckStructuredResult(row) ==
    IF row.phase = "COMPILE"
    THEN row.compileStatus # None /\ TestCounts(row) = {None}
    ELSE row.compileStatus = None /\ row.compileErrors = None

CheckCompileStatus(row) ==
    row.compileStatus \in {None, ExpectedCompileStatus(row.outcome)}

CheckTestCounts(row) ==
    /\ row.executed # None =>
          row.executed >= OrZero(row.passed) + OrZero(row.failed)
                          + OrZero(row.skipped) + OrZero(row.errored)
    /\ row.outcome = "SUCCESS" => OrZero(row.failed) = 0 /\ OrZero(row.errored) = 0

CheckPhaseOutcome(row) ==
    /\ row.outcome = "COMPILATION_FAILURE" => row.phase = "COMPILE"
    /\ row.outcome = "TEST_FAILURE" => row.phase # "COMPILE"

CheckFailureEvidence(row) ==
    IF row.outcome \in FailureOutcomes
    THEN row.category \in {None, row.outcome}
    ELSE row.category = None /\ row.secondary = None

CheckTimes(row) ==
    /\ row.started # None /\ row.ended # None => row.ended >= row.started
    /\ row.duration # None => row.duration >= 0
    /\ row.timedOut = TRUE => row.classified

CheckIntegrity(row) == row.integrity = "VERIFIED" => row.verification

Storable(row) ==
    /\ CheckStructuredResult(row)
    /\ CheckCompileStatus(row)
    /\ CheckTestCounts(row)
    /\ CheckPhaseOutcome(row)
    /\ CheckFailureEvidence(row)
    /\ CheckTimes(row)
    /\ CheckIntegrity(row)

\* An amount and its unit are two columns, written together.
CheckObservation(o) ==
    /\ o.configured = None => o.referenced
    /\ (o.category = "OTHER") = (o.otherCategory # None)
    /\ ~(o.enforcement = "NOT_ENFORCED" /\ o.terminated)

\* The constraints of the candidate, artefact and manifest tables.
CheckPatch(p) == (p.state = "FINALIZED") = (p.finalizedAt # None)

CheckVersion(v) ==
    /\ <<v.level, v.parent = None>> \in {<<0, TRUE>>, <<1, FALSE>>}
    /\ v.parent # v.id
    /\ (v.state = "FINALIZED") = (v.finalizedAt # None)

CheckArtefact(a) ==
    /\ a.size >= 0
    /\ a.locator # a.id
    /\ a.integrity.state = "VERIFIED" => a.integrity.referenced

CheckManifest(m) ==
    /\ m.state = "ASSEMBLING" => m.finalizedAt = None
    /\ m.state = "FINALIZED" =>
          None \notin {m.finalizedAt, m.producer, m.digest, m.algorithm, m.integrity}
    /\ (m.digest = None) = (m.algorithm = None)
    /\ m.finalizedAt # None => m.finalizedAt >= m.createdAt
    /\ m.integrity # None /\ m.integrity.state = "VERIFIED" => m.integrity.referenced

-----------------------------------------------------------------------------
Nothing == [kind |-> "nothing"]

Inputs ==
    [kind : {"execution"}, value : ExecutionInputs]
    \cup [kind : {"candidate"}, value : CandidateInputs]
    \cup [kind : {"observation"}, value : ObservationInputs]
    \cup [kind : {"artefact"}, value : ArtefactInputs]
    \cup [kind : {"manifest"}, value : ManifestInputs]

Admitted(input) ==
    CASE input.kind = "execution"   -> EvidenceAdmitted(input.value)
      [] input.kind = "candidate"   -> CandidateAdmitted(input.value)
      [] input.kind = "observation" -> ObservationAdmitted(input.value)
      [] input.kind = "artefact"    -> ArtefactAdmitted(input.value)
      [] input.kind = "manifest"    -> ManifestAdmitted(input.value)

Accepted(input) ==
    CASE input.kind = "execution"   -> Storable(ExecutionValues(input.value))
      [] input.kind = "candidate"   -> CheckPatch(input.value.patch) /\ CheckVersion(input.value.version)
      [] input.kind = "observation" -> CheckObservation(input.value)
      [] input.kind = "artefact"    -> CheckArtefact(input.value)
      [] input.kind = "manifest"    -> CheckManifest(input.value)

Construct ==
    /\ held = Nothing
    /\ \E input \in {i \in Inputs : Admitted(i)} : held' = input

Write ==
    /\ held # Nothing
    /\ held' = Nothing

AdmissionInit == held = Nothing

AdmissionNext == Construct \/ Write

AdmissionSpec == AdmissionInit /\ [][AdmissionNext]_held

-----------------------------------------------------------------------------
\* What the domain admits, the tables accept: no value that a constructor
\* lets through is lost to an IntegrityError when its verdict (phase, outcome,
\* failure, counts, lineage, finalization) is written.  The two rule sets are
\* separate code, and the constraints are written over three-valued columns.
AdmittedMetadataIsStorable == held # Nothing => Accepted(held)

=============================================================================
