# TestGap-Miner: verification project

TestGap-Miner turns a reported defect of a Java repository into a JUnit
regression test.  A web front end and a Python API accept requests, a queue
carries them to workers, a Rust worker runs generated tests in a supervised
process, and a workflow engine records every lifecycle step in PostgreSQL.
This directory holds TLA+ models of the parts of that system that keep state
and must stay correct under interleaving, retries and failure, TLC
configurations that check them on small instances, and TLAPS proofs.

## 1. Inventory of the system

| Component | State it keeps | Operations | What is hard |
|---|---|---|---|
| Queue adapter (`apps/api/app/queue/adapter.py`) | messages, publications, deliveries, claims and fences, request controls, accepted results, failure counters, dead letters, redrives | publish, record outcome, deliver, redeliver, claim, renewal uncertainty, lease loss, control, accept result, acknowledge, classify failure, redrive | duplicate deliveries, stale workers, cancellation and security rejection racing with results, retry limits |
| Queue envelope (`queue/envelope.py`) | none | validation | input validation only |
| Workflow engine (`apps/api/app/workflow/{types,engine,checkpoint}.py`) | a run snapshot (state, version, repair and retry counters) passed by value | evaluate transition, schedule retry, validate resume | terminal states, single repair, cancellation windows |
| Workflow persistence (`workflow/persistence.py`, `db/workflow_persistence.py`, `db/models/workflow.py`, migration `e7b4c2d9a631`) | `Run` projection and append-only `RunEvent` log | persist transition, replay probe, compare-and-swap, commit, rollback | concurrent sessions, replayed producer events, crash between append and commit |
| Worker supervisor (`apps/worker/src/supervisor.rs`) | child process, process group, reader threads, bounded captures | spawn, poll, cancel, time out, kill, reap, drain | cancel/timeout/exit races, grandchildren holding pipes |
| Worker authority and limits (`execution_authority.rs`, `resource_limits.rs`) | none | validation before a run | input validation |
| Worker results and export (`producer_result*.rs`, `execution_export.rs`, `conformance.rs`) | none | digest, validate, serialise | pure functions |
| Browser auth adapter (`apps/web/src/auth/browser.ts`, `state-machine.ts`) | auth status, operation and verification epochs, subscribers | initialise, begin sign-in, refresh, sign out, provider events | awaits interleaving with events and sign-out |
| Session fence authority (`auth/session-fence.ts`) | per-context generations, attempts, bindings, in one server process | prepare, associate, complete, bind, publish a sign-out, resolve | concurrent callbacks and sign-outs of one browser, restarts |
| Server auth runtime (`auth/adapter.ts`, `sign-in.ts`, `correlation.ts`, `supabase.ts`) | cookies of a request, correlation records | prepare a sign-in, callback exchange, establish, commit, confirm, roll back | a callback finishing after a sign-out, responses that overtake each other |
| DB-004 evidence persistence (`db/db004_persistence.py`, `db004_queries.py`, `db/models/{evidence,context}.py`) | append-only rows of candidates, executions, artefacts, manifests, context bundles | five `persist_*` calls that insert, converge or conflict; projections | concurrent equal and conflicting writes, checks made before the savepoint |
| Evidence package (`app/evidence`) | immutable values | construction, digests, comparison | the same rules repeated as CHECK constraints |
| Model runtime (`workflow/{model_provider,model_domain}.py`) | one call: its attempts and budgets | check, attempt, retry, fall back, report | two nested counters with four ways out |
| Retrieval (`app/retrieval`) | none | index, rank candidates, cut windows, pack a budget | boundaries of windows and budgets; files replaced while they are read |
| Planning and generation (`workflow/{planning,localisation_adapter,repository_workspace,generation}.py`, `security/untrusted_content.py`) | one attempt: plan, localisation, intent, proposal | ask the planner, localise, ask the generator, refuse | answers and intents of other attempts, values built by callers |
| Security policies, control-plane queries, web UI, evaluation, deployment | none or read-only | string policies, I/O | not protocol-shaped |

How they interact.  The API records a run and the workflow engine decides each
of its transitions; `persist_transition` writes the decision inside the
caller's transaction.  The queue adapter carries `QUEUED` work to workers by
duplicate-prone deliveries, and its fences decide whose result counts.  An
attempt to generate a test asks the model runtime for a plan, has the retrieval
rank and read the files of a prepared workspace, and asks the runtime again for
a proposal.  A worker executes one command at a time through the supervisor, which
owns the child, two reader threads and the answer; candidates, executions,
artefacts and context bundles are written to the DB-004 tables.  In the browser the
auth adapter talks to the Supabase client (the provider) and, by HTTP, to the
server's auth runtime, whose session fence decides which sign-in a stored session
belongs to; cookies (the local sign-out tombstone, the context and binding handles,
the provider's session) are shared by all tabs.

What makes each component correct, in one line:

- Queue: at most one claimant per message has authority, lost authority never
  returns, a result slot is written once by the holder, stopped requests are
  frozen, retry and redrive budgets are spent once.
- Workflow engine and persistence: a run's row is what its append-only events
  add up to; of the requests that race for a version one wins; what is stored
  can be read back; the lifecycle is bounded.
- Supervisor: a call names the condition it acted on, leaves nothing running
  that it claims to have killed, accounts for every byte it observed, and comes
  back.
- Browser auth: sign-out wins over everything begun before it; no stale token
  leaves; a tombstone denies; the page does not hang.
- Session fence and callback: no order of responses gives back a session that
  was signed out, and a rejected callback leaves nothing behind.
- DB-004: what is committed under an identity is one whole claim and is never
  revised; equal concurrent writes converge, different ones conflict; linked rows
  agree on candidate, run and phase.
- Model runtime: what a call reports is what its provider calls came to.
- Retrieval: windows partition what they cover, packing keeps what a window was
  opened for.
- Planning and generation: a proposal is a provider's answer to the attempt's own
  prompt about the repository as it was pinned; only what is wrong is refused.

The hazards, each at its line and with the properties that would catch it, are
in `PROJECT.json`.

## 2. Plan

| Order | Modules | Subject | State |
|---|---|---|---|
| 1 | `FencedEffects`, `QueueAdapter`, `QueueRefinement`, `QueueProofs` | queue adapter and its abstract specification | done |
| 2 | `WorkflowEngine`, `WorkflowRun` and their proofs | the pure engine, driven with retries and checkpoints | done |
| 3 | `RunLedger`, `WorkflowPersistence`, `WorkflowPersistenceProofs` | durable transitions and their abstract ledger | done |
| 4 | `CpuLimits`, `WorkerSupervisor`, `WorkerSupervisorProofs` | one supervised execution | done |
| 5 | `AuthStateMachine`, `BrowserAuth`, `BrowserAuthProofs` | the browser adapter | done |
| 6 | `SessionFence`, `ServerAuth`, `ServerAuthProofs` | the fence, and the requests of one browser that share it | done |
| 7 | `WriteOnceStore`, `EvidenceAdmission`, `EvidenceStore`, `EvidenceProofs` | DB-004 writes of several sessions; the write-once store they implement; constructors against constraints | done |
| 8 | `ModelRuntime`, `CandidateRanking`, `ContextAssembly`, `GenerationPipeline`, `GenerationProofs` | one attempt from the planner to the proposal, with the runtime and the retrieval it uses | done |
| 9 | `ExecutionAuthority` | path and environment checks of the worker, over bounded inputs | later |

Every invariant and every action property of the passing runs is a theorem of its
specification.  What is worth proving next comes with the modules that are left: that the
authority a worker is given never exceeds what its paths and environment allow.

## 3. Modules and the code they model

### Queue adapter

`QueueAdapter` has one variable per dictionary of `DeterministicQueueAdapter`
(`adapter.py:46-89`) and one action per public method that changes state, or per
outcome of one.  A dictionary is a function whose domain is the set of its keys;
ids that the code draws from counters (`_delivery_sequence`, `_claim_sequence`,
`_fence_sequence`) are the counters.  A call that raises without a change is the
action being disabled; `accept_result` of a conflicting result raises but marks
the message, so it is an action (`RefuseConflictingResult`).  `classify_failure`
is three actions: a security rejection, a counted failure, and the failure that
spends a limit, which dead-letters the delivery and revokes its claims in the
same step.  `FencedEffects` says what users are promised (grant, withdraw,
commit); `QueueRefinement` maps the adapter onto it: a message is held by the
fence of its current claim while `can_produce_protected_effect` holds.

Left out: validation of field syntax, queries, audit texts.  `publish` of an
envelope that already names a claim is always refused and is not an action.

### Workflow engine and runs

`WorkflowEngine` holds the transition table and the pure decisions
(`evaluate_transition`, `schedule_retry`, `validate_resume`) as operators on
snapshots.  `WorkflowRun` drives one run through them: `Transition`,
`ScheduleRetry`, `CommitCheckpoint` (the store keeps the current snapshot), and
the two ways of resuming from it, `Continue` and `ResumeWithRetry`.  No code under `apps` stores the outcome of `schedule_retry` or
`validate_resume`; the module models what the engine would decide if it did.
Contexts keep the fields a decision reads; the reason texts of refusals and the
identities that a decision only passes on are left out.

### Workflow persistence

`WorkflowPersistence` models `persist_transition` (`workflow/persistence.py`)
with the row lock, the event store, the compare-and-swap, the savepoint and the
transaction of the caller, over the schema's check constraints.  A session that
holds a loaded instance (`Load`) is not refreshed by `SELECT ... FOR UPDATE`:
SQLAlchemy's identity map returns the instance, `expire_on_commit=False` keeps it
across commits, and a rollback expires it.  The database is assumed to be READ
COMMITTED PostgreSQL; its transaction is `workRow`/`workEvents`, visible to
nobody else because the lock holder is the only writer.  `Rollback` also stands
for a crash of the process.  `RunLedger` is the abstract promise.  The triggers
that make events append-only and terminal runs immutable are not modelled (no
action would violate them); run requests, steps and attempts are tables no code
writes.

### Worker supervisor

`WorkerSupervisor` is one `ProcessSupervisor::execute` call: `at` is where the
supervising thread is, and each step between two system calls that can fail or
block is an action.  The two reader threads, the processes of the target (which
write, close, fork, leave the group, exit), the cancelling caller and the clock
are actions of their own.  Bytes are chunks, elapsed time is the boolean `due`,
SIGKILL takes effect at once, and the direct child does not leave its own group.
`CpuLimits` is `resource_limits.rs` on a word of any size.  Whether the restricted
authority admits a command is an input of the request.  The non-Unix path and
the observations of limits that are never enforced are left out.

### Browser auth adapter

`AuthStateMachine` is `state-machine.ts` with its table; `BrowserAuth` is
`browser.ts`.  JavaScript runs one turn at a time, so one action is all that runs
between two awaits on the outside (provider or fence); the continuations of
awaits on the adapter's own settled promises belong to the same turn, which is
why a refresh that settles wakes the calls that joined it in its own step.  The
answers of the fence and of the provider are not constrained; a refused
`RESOLVE_SESSION` may clear the provider's cookies, a successful
`PUBLISH_SIGN_OUT` writes the tombstone, and the answer to `PREPARE_SIGN_IN` may
delete it.  `OtherTab` writes the cookies.  `ended` and `material` are history
variables: how the session ended and whether a refresh of this adapter left
something in the store.  Page reloads, listeners and error texts are left out.

### Session fence and server auth runtime

`SessionFence` is the process-wide authority of `session-fence.ts`: `contexts` and
`attempts` are its maps, and its operators are the methods, one each.  The three
handles of an attempt are fresh random values, so that the attempt's name stands
for all of them.  `ServerAuth` has the HTTP operations (`PREPARE_SIGN_IN`,
`PUBLISH_SIGN_OUT`, `RESOLVE_SESSION`, the callback) of one browser, each a record in
`requests` that carries the cookies it was sent with and those it has set; a step is
what runs between two awaits.  A response replaces cookies when it arrives
(`Deliver`), in any order, or is lost.  `Restart` empties the process: the maps and
the correlation store are gone, the provider's codes and the browser's cookies are
not.  The provider's answers are not constrained, save that a code is exchanged at
most once.  `ended` and `established` are history variables.  URLs, the text of
cookies and `AuthRuntime`'s own listeners are left out.

### Evidence store

`EvidenceStore` models the five `persist_*` calls of `db004_persistence.py`.  `Plan(a)`
is the list of statements a call runs inside its savepoint, in the order of the
code: rows to insert with `ON CONFLICT DO NOTHING`, and `Compare`, which stands for
the comparison of the complete stored collections of an existing root.  A step
executes one statement: the row is new (`InsertRow`), stored with the same values
(`ConvergeRow`), or in contradiction (`ConflictRow`), and waits while another session
holds an uncommitted row with the same key or binding (`Blockers`); PostgreSQL fails
one insert of a cycle (`AbortDeadlock`).  References are checked in the step that
begins the call and, for embedded artefacts, again inside the savepoint
(`NestedRefusal`).  The transaction is the caller's: several calls, then `Commit` or
`Rollback`, which also stands for a crash in mid-call.  An action that raises without
a change (`Refuse`) is a stutter.  The tables are append-only, so that the SELECTs of
one validation are taken together; inserts are not.  `WriteOnceStore` is what the
tables promise a reader.

`EvidenceAdmission` states twice which evidence is admitted: as the constructors of
`app/evidence` do (`Admitted`), and as the CHECK constraints of the tables do
(`Accepted`), with the three truth values of SQL reduced to what a constraint does
with an unknown, which is to pass.  Free text, sizes and digests are left out.

### Model runtime, retrieval, planning and generation

`ModelRuntime` is one call of `model_provider.py`: the refusals before the first
provider call, then one `Attempt` per provider call with the normalisation of what
the provider did.  `CandidateRanking` is the arithmetic of `candidates.py`: seven
signals, clamped to their weights, and the order they give; tokenising and the Java
patterns are part of the instance, which gives each document its words and names.
`ContextAssembly` is `context.py`: ranks and identities are checked, each file is
inspected, opened and read in steps of their own while other processes replace,
link, delete or overwrite it (`MaxChanges`), windows are opened around located
symbols, merged, and packed line by line into the budget.  A file is the sizes of its
lines and the lines of its declarations.

`GenerationPipeline` composes them: `AskPlanner`, `UsePlan`, `Retrieve`, `UseContext`,
`Generate`, `UseProposal` are the turns of `orchestrate_planning_and_localisation` and
`orchestrate_generation`.  The clients, the localisation boundary and the caller in
between are arguments of these functions: each may hand over something else than
it was given (`HandedOver`, `Misplace`, `Intents`).  `forged` records that one did, `heard`
every output a provider gave; both are history variables.  Prompts are the values
they quote, digests are the identities they stand for, and an answer is a record
that says which schema it is valid for.

### Operators named Fault

An operator preceded by a comment `Fault:` is not part of a specification.  It is
the definition that follows it, changed the way a plausible bug would change it;
substituting it must make TLC report the property that `PROJECT.json` pairs it
with.  They document what each property is able to see.

## 4. Runs

Every bound is a CONSTANT of the configuration.

| Run | Instance | What it shows |
|---|---|---|
| `queue_claims` | 1 message, 3 deliveries, 2 claims, 2 results with 2 references, 2 failure classes with limits 1 and 2, 1 redrive | fencing (`LiveClaimHasHighestFence`, `AuthorityIsNeverRegained`), results (`OneResultPerSlot`, `ResultsAreAttributable`), budgets (`RetriesAreAccounted`), and the refinement `ImplementsFencedEffects` |
| `queue_requests` | 2 messages of 1 or 2 requests, competing envelopes, uncertain, confirmed and failed publications, 2 deliveries, 2 claims | `SecurityRejectionRevokesClaims`, `StoppedWorkIsFrozen` |
| `workflow_run` | retry limits 0-2, attempts 1-2, every context the decisions tell apart | `InfrastructureFailureIsExhausted`, `LifecycleIsBounded`, `CountersNeverRegress` |
| `workflow_persistence` | 2 sessions, a repaired run of 11 transitions, 6 competitors, one reused event identity | `ProjectionFollowsEvents`, `DurableRunIsInterpretable`, `ConstraintsNeverFire`, `OneWinnerPerVersion`, `ImplementsRunLedger` |
| `supervisor` | one admitted command with a timeout, one denied, and one under each CPU limit of a 2-bit word; one descendant; one chunk of output over its bound | `TerminationClearsTheGroup`, `CaptureIsComplete`, `PrimaryFailureIsTheCause`, `CpuLimitIsFinite`, and under fairness `BoundedCallsAreAnswered`, `FullPipesAreDrained` |
| `browser_auth` | 2 users, 2 signals with 2 verifications, 1 token call, 2 sign-outs | `EndedSessionStaysEnded`, `SignedOutLeavesNoMaterial`, `TokensAreCurrent`, `TombstoneDenies`, and under fairness `LoadingEnds`, `TokenCallsAreAnswered` |
| `server_auth` | 2 requests at a time, 2 attempts, 2 contexts, 2 published sign-outs per context (1 after a restart), 1 restart (when there is an attempt to forget) | `EndedSessionsStayEnded`, `RejectedCallbacksLeaveNothing`, `SignInsAreReconciled` |
| `server_auth_lockout` | the same with 1 sign-out and no restart | a tombstone no sign-in removes (finding) |
| `server_auth_tombstone` | 3 attempts in 1 context, 2 published sign-outs | a sign-out undone by a late response (finding) |
| `evidence_store` | 2 sessions, up to 2 calls in a transaction, 12 aggregates that agree, contradict each other or share a binding; 505,784 states | `ImplementsWriteOnceStore`, `EqualWritesConverge`, `LinkagesAreConsistent`, `AdmittedMetadataIsStorable` |
| `evidence_roles` | the same without constructors | an artefact of a foreign candidate is bound to an execution (finding) |
| `generation` | 2 targets with 1 retry, 4 files, 3 evidences, 1 change of the workspace; 2 kinds of attempts, direct calls, and windows on every choice of 7 declarations of a file; 576,404 states | `FallbackFollowsThePlan`, `WindowsPartitionTheFile`, `PackingKeepsTargets`, `ProposalIsEarned`, `RefusalsHaveACause` |

Why the bounds are enough.  Queue: fencing is about pairs of claims on equal or
different deliveries of a message; three deliveries allow a delivery, its
redelivery or redrive, and one more to be refused; two messages are needed for
request-wide controls, and the second run has them.  Results and references are
only compared, so they are declared symmetric.  Workflow: a repaired run is the
longest path of the table and every decision about limits is reached with limits
0, 1 and 2.  Persistence: a race needs two sessions; a third could only queue for
the same row lock.  Supervisor: one descendant is enough to hold a pipe, to leave
the group, or to be forked while the kill is on its way; a 2-bit word has a
representable, a rounding, an overflowing and an unlimited limit.  Browser: an
epoch is compared with one later value, so that two operations and two
verifications let each be overtaken by the next.  Server: an
overtaken response needs two requests, a stale binding two attempts, a lost handle
two contexts, a reconciliation that is itself overtaken two sign-outs; nothing
tells requests, attempts or contexts apart, which the configuration declares.
Evidence: a conflict, a convergence and a cycle of waits need two sessions and
two calls in a transaction; the aggregates are rivals for one identity or for one
binding, a repaired candidate in the right and in a wrong run, executions with
other facts and other logs, links that agree and links that do not.  Generation:
two targets with one retry have every kind of next attempt; one change between
two reads is what an inspection can miss, a second would only undo or repeat it;
the file whose declarations are chosen is as long as two windows, so that windows
touch, overlap, contain each other and reach both ends.  The theorems remove these
bounds for the safety properties they cover.

`CHECK_DEADLOCK FALSE` is set for the queue runs only: the bounds on deliveries and
claims let the model stop when everything is acknowledged, frozen and dead.  The
other systems always have something that may happen (another tab, another request,
a refused call, a call that has ended and rests).

### Fairness

`WorkerSupervisor!Spec` assumes that the supervising thread is scheduled while it
can move, that the reader threads read or see the end of a pipe that has
something for them, and that time passes (`Elapse`).  Nothing is assumed of the
target, its descendants or the canceller: `BoundedCallsAreAnswered` names the
process that may hold a call for ever (`Held`).  `BrowserAuth!LiveSpec` assumes
that requests to the provider and the fence settle and that the provider delivers
its first event to a page that nothing else is restoring.  The adapter sets no
timeouts, so settling is an assumption about `fetch` and the Supabase client, not
something the code enforces.  No user, tab or signal is assumed to act.  The
queue, the engine, the server's requests, both stores and the generation
coordinators are driven by their callers, have no loop of their own and no fairness.

## 5. Proofs

`tlapm` proves the theorems for every value of the constants that satisfies the
named assumptions, which TLC evaluates on every run: `QueueAssumption`
(limits are positive, inputs are of their kinds), `RunAssumption`,
`PersistenceAssumption` (equal fingerprints of an event mean equal requests),
`SupervisorAssumption`, `CpuAssumption`, `MachineAssumption`, `BoundsAssumption`,
`PlanAssumption` and `RequestAssumption` (targets are different, retries and the input
bound are natural numbers), `FenceAssumption` and `ServerAssumption` (the missing handle is none of the contexts
and attempts, the bound on restarts is a natural number), `JobAssumption` (the retries of
jobs are natural numbers, the candidates of a direct order are a sequence, as the tuple
of `ContextAssemblyInput` is), `AttemptAssumption` (an attempt is about the prepared revision, with a budget the
constructor accepts), `DocumentAssumption` and `EvidenceAssumption` (a corpus and the evidence
of a query are finite, terms are counted in natural numbers, logarithms are integers),
`CandidateAssumption` and `IndexAssumption` (documents are indexed files, numbered; no
line is empty, a declaration is at a line of its file), `WindowAssumption` (a window is
longer than what it opens before its line), `LimitAssumption` (the limits on items, bytes
and tokens are natural numbers),
`BundleAssumption` (a bundle put together by somebody else quotes what it read as it
was indexed: which text a digest stands for is not the pipeline's to check),
`AggregateAssumption` (collections are finite, and the identity of a context
bundle, a digest of its content, determines it), `InputAssumption` (a missing value is
none of the others, counts are natural numbers or missing) and `MaxCallsAssumption`.

- **`QueueProofs`.**  `LiveClaimHasHighestFence` is not inductive: nothing in it
  says that fences follow the order of claims.  `LatestClaimIsCurrent` adds that
  (claim `c` has fence `c`, `_current_claim` names the latest claim of each
  message, and only that one may be live).  With `TypeOK` it is inductive and gives
  fencing and `AuthorityIsNeverRegained`.  `ResultInv` (slots and results are
  inverse, every accepted result has a submission) gives `OneResultPerSlot`; the
  two invariants together give the step simulation of `ImplementsFencedEffects`.
  `AcceptedResultsCorrect` proves that accepted results are final and submissions
  append-only; no run repeats it.  The other four theorems first sort the actions by
  what they touch (results, counters, claims, controls), so that each invariant is
  disturbed by few of them.  `RejectionsRevoke` and `StoppedWorkFrozen` follow from
  the controls being sticky.  `AttributionCorrect` also needs that a delivery's
  envelope is that of its message (`DeliveriesMatchEnvelopes`), because a submission
  is compared with the one and recorded under the other.  `RetriesAccounted` needs
  `RetryInv`: a delivery that does not exist yet has no failures (otherwise one could be
  born at its limit), dead letters have different deliveries, a dead delivery has no
  live claim, the redrives of a message are as many as its counter says, and each is
  newer than the dead delivery it was made from.
- **`WorkflowRunProofs`.**  The inductive invariant says in
  addition that a checkpoint is no newer than the run and is the run when the
  versions agree (`CheckpointIsPast`): without it a resumption could take the
  counters back.
- **`WorkflowPersistenceProofs`.**  The invariant combines `ProjectionFollowsEvents`,
  `VersionIdentifiesRow` and `DurableRunIsInterpretable` with three facts about the
  transaction: events come from requests (`EventsAreOfRequests`), the work of the
  lock holder extends what is committed (`WorkExtendsCommitted`), and every
  acknowledged request has its event (`AnswersAreRecorded`).  The refinement of
  `RunLedger` follows at `Commit`, the only step that changes what the ledger sees.
  `SchemaAgrees` proves `ConstraintsNeverFire`: the transition table of the schema is
  the engine's (`TablesAgree`), an accepted request gives the reasons its target state
  demands (`ReasonsOfRequest`), and `ReasonsInv` carries them through the transaction.
- **`WorkerSupervisorProofs`.**  `Inv` is `TypeOK` with `ControlInv` (what each step of
  the supervising thread knows), `CauseInv` (the first failure is the reason),
  `GroupInv` (after a kill that did not fail nobody is in the group) and `CaptureInv`
  (what was written is in the pipe or was observed).  `EarlyCancellation` is an action argument over
  the same invariant.  `KillTargetsTheChild` proves that SIGKILL is only sent while
  the child is not reaped, when its PID cannot name another process.
- **`BrowserAuthProofs`.**  `Inv` is `TypeOK` with `ClaimsNamed`, `SignOutInv`,
  `EpochInv` (no captured epoch is ahead of the adapter's), `EndedInv` (an operation
  whose epoch is current began after the last end), `MaterialInv` and
  `JoinedCallsHaveARefresh`.  Every action is first described by a few relations
  (a step keeps the machine, hides content, or vouches for a session; a refresh
  continues, begins or is over), and the invariant follows from the relations.

- **`EvidenceProofs`.**  `ImplementsWriteOnceStore` needs to know, at every commit,
  that each root has all the children of one aggregate that claims it.  `StoreInv`
  keeps this of what is committed (`Whole`, `Rooted`) and says of each session
  (`SessionInv`) that what it would keep if its call failed is whole too, that what
  it sees holds no two rows with one key or binding, and what its call has done
  (`InCall`): only a call that inserted its root adds children, it has added or will
  add all of them, and no child precedes the comparison of the collections.  Rows of
  different sessions never collide (`Apart`), which is what waiting achieves and why
  a commit of one leaves the invariant of the other intact.  `PlanShape` reduces the
  five plans to an opening and a rest of children.  `EqualWritesConverge` follows from
  the same invariant.  `LinksAreConsistent` adds `LinkInv`: committed rows refer to
  committed rows that agree with them, and those of a session's transaction to what it
  sees or, while its call runs, has yet to write (a candidate's patch precedes its
  version), except an execution's artefacts, which are checked again when they are
  reached.  It is kept because the tables only grow: what a call's validation
  found is there when its rows are written.  `AdmissionIsSufficient` is a comparison of
  constructors and constraints by cases of phase and outcome.
- **`ServerAuthProofs`.**  A request is a record that three dozen steps rewrite; the
  invariants look at few of its fields, so each action is first described by what the
  request becomes (`Turns`, `GoesOn`, `GivesUp`) and by what may be lost of the
  authority (`Weakens`).  `EndedSessionsStayEnded` needs `FenceInv`: a live
  attempt is of a live context and of no later generation, and an attempt whose session
  was signed out is of an earlier one, if the server still knows it at all.
  `SignInsAreReconciled` needs `SettledInv`: an attempt that the callback would
  accept, or whose preparation has nothing left to reconcile, is either overtaken or of
  a context whose last sign-out is reconciled; a second sign-out during the
  reconciliation of the first is the case it exists for.  `RejectedCallbacksLeaveNothing` needs
  `CallbackInv`: as long as a preparation holds an attempt its code has not reached the
  browser, and once a callback holds it the code is used, so that at most one callback is
  past the exchange, and every binding or completed record that is not reported as
  established is one that this callback still has to report or undo.
- **`GenerationProofs`.**  For the runtime `Inv` adds to `FallbackFollowsThePlan` what a
  pending call knows (`PendingInv`: every outcome so far is one the plan retries, and
  the last attempt is not the last allowed) and what an idle runtime holds
  (`ServingInv`); the arithmetic is that of positions: the attempt after position i has
  position i + 1.  In the pipeline the same holds of each call (`AttemptsFollowThePlan`),
  and `PipelineInv` follows one proposal back to its sources, stage by stage: what the
  runtime returned, or returns too late, was heard of a provider (`ReturnedInv`,
  `LateInv`); a plan in use is one a planner gave (`PlanInv`); what is assembled was read
  as it was indexed (`AssemblyInv`); an intent, whoever put it together, has passed
  the checks that bind it to its job (`IntentInv`, `GeneratingInv`).  The clients may
  hand over anything in the place of a result; `HandedOverHeard` says that what was not
  heard contradicts itself and is not accepted.
  `RefusalsAreJustified` adds `RefusalInv`: a waiting client is served, for
  the first target of the plan, and gets an answer with attempts (`ClientInv`), the plan and
  the intent pass their checks unless `forged` (`OwnInv`), a workspace without changes is the one that was indexed (`WorkspaceInv`),
  and an assembly in it can only succeed (`RetrievalInv`).  The last needs that a ranking
  is never refused (`RankingIsAccepted`): scores are integers within the weights of their
  signals (`ScoreIsANumber`), the order by score and identity is a strict total one
  (`AheadIsAnOrder`), so that every place of the ranking is taken, once
  (`PlacesAreTaken`).
  `WindowsArePartitions` is an induction over the located lines, in their order:
  `Partition` says what the windows of the first lines have become, and in addition
  that the last segment ends where the last window does.  A further line lies beyond what
  is covered (`MergeBeyond`), or in the last segment and in no other (`LastHolds`), which
  it cuts (`MergeCuts`) or joins (`MergeJoins`).
  `PackingIsLongest` is an argument in three parts.  The bytes of a range are a
  difference of sums over its ends (`Offsets`, `BytesAre`), so they grow with the range,
  strictly, because no line is empty (`BytesGrow`).  Fitting one span (`FitSpanFits`) goes by the branches of
  `_fit_span`: the longest prefix, the whole span, or the widening, of which the
  induction shows that after every round it is stuck or has gained a line (`WidenedIs`);
  a stuck range is in no other that fits (`StuckIsLongest`), and a range about all the
  targets fits only if they fit without any other line (`AroundFits`).  Packing all spans
  (`PackIs`) keeps `Packed`: what was quoted and what remains come to the budget, and every
  item lies in a span that was already met.  Since spans share no line (`SpansLaid`: those
  of one file by `WindowsOfFile`, those of others because no file comes twice), neither do
  items.
  `AcceptedInv` carries both theorems into the pipeline: an order that was not refused
  passed the checks of the request, and a bundle is the packing of its order.

The induction over data that these need is done with sets in the place of
predicates, since no installed prover can instantiate the library's theorems that take
an operator: `LeastOf` and `Counting` are induction over the natural numbers and over
finite sets with the property as a set, `Shrinking` removes the element that a
function picks, `Recursion` and `Folding` construct the function that a fold of the
community modules is defined by, and `SumStays`, `MergeFold`, `TotalFold`,
`WidenedFold`, `PackFold` and `FlattenFold` carry a property through such a fold.

Only model-checked: everything under fairness (TLAPS proves no liveness), which is
`BoundedCallsAreAnswered`, `FullPipesAreDrained`, `LoadingEnds` and
`TokenCallsAreAnswered`.  What the runs of section 6 show violated is of course not
proved either.

The type invariants of the engine, the persistence, the supervisor and the
browser are theorems or parts of proved invariants and are not checked by a run.

## 6. Where code and documents disagree

Shown by a run, with quotes in `PROJECT.json`:

- `server_auth_lockout`: the context was reconciled on the server, and the response
  that deletes the tombstone was overtaken by the sign-out's own or lost: every later
  `PREPARE_SIGN_IN` is refused.
- `server_auth_tombstone`: the response of a `PREPARE_SIGN_IN` that reconciled an
  earlier sign-out arrives late and deletes the tombstone of a later one, whose
  publication was lost (`session-fence.ts:577`, and `auth/browser.ts:152` for the
  adapter that awaits it): the browser's session is eligible again.  It takes a
  third attempt; with two, nothing of the kind happens.
- `evidence_roles`: a candidate that an embedded artefact names is committed between
  the check before the savepoint and the check inside it, and the artefact of a
  foreign candidate is bound to the execution.

Seen while modelling, without a run:

- An exact replay delivered to a session that holds an older instance of the run is
  answered `PERSISTENCE_INCONSISTENCY` (`workflow/persistence.py:197`), where the
  decision log says "Exact replay is an accepted no-op"
  (`docs/components/agent-workflow/DECISION_LOG.md:281`).
- A second `signOut()` from `UNAUTHENTICATED` is an invalid transition
  (`auth/browser.ts:276`); CONTRACT-AUTH-001 line 1200 has "Repeated sign-out |
  Idempotent. A second request from `UNAUTHENTICATED` is a no-op success."
- Two callbacks of one attempt that run at the same time in one server both exchange
  the code, and the loser's discard removes the winner's correlation record
  (CONTRACT-AUTH-001, line 524); listeners of an `AuthRuntime` are never removed
  (`auth/adapter.ts:79`, `session-fence.ts:289`).
- The identity of a context item does not hash its bundle
  (`retrieval/context.py:219-243`) while it alone is the key of `rag_context_items`: two
  bundles that select the same item conflict.
- A persisted execution converges on values that `compare_execution_evidence` calls
  `CONFLICTING`; the constructors admit integers, strings and references larger than
  the columns that hold them.
- `orchestrate_planning_and_localisation` never compares the invocation's request with
  the one it issued (`planning.py:408-504`): an answer of an earlier attempt is parsed
  as this one's plan.  `ProposalIsEarned` therefore counts outputs of earlier attempts.
- A fabricated bundle without `items` makes the coordinator raise, where its docstring
  says "The coordinator never raises on downstream failures" (`planning.py:416`).
- Bundles may hold 2,000,000 tokens in 10,000 items, while the security context accepts
  256 items and 1 MiB and a prompt variable 16,384 bytes: such a bundle is always
  refused by generation.  A call that ends as `BUDGET_EXCEEDED` before its first attempt
  is reported by generation as `INVOCATION_SHAPE_INVALID`.
- Failure counters are kept per delivery and class, and a redelivery starts at
  zero: work that is redelivered after each retryable failure fails as POISON any
  number of times, while CONTRACT-QUEUE-001 says "Poison work cannot retry
  indefinitely."
- An acknowledged delivery can still be classified, dead-lettered and redriven
  (`classify_failure` does not look at `_acknowledged`); sibling deliveries of an
  acknowledged one stay processable; a message marked as conflicted is never
  acknowledgeable again; `deliver` and `redeliver` do not look at the control state
  of the request; there is no operation that confirms an uncertain renewal.
- `apps/worker/README.md` says CPU limits are reported as `NotEnforced`; on 64-bit
  Linux an installed limit is reported as `RuntimeLimitEnforced`.
- A token call that finds a proven refresh pending is denied and not deferred, and
  a provider event that names another user during a refresh is dropped, where
  CONTRACT-AUTH-001 asks for deferral and for a degraded mode.

## 7. Not modelled

Listed with reasons in `PROJECT.json`: digests and serialisation (producer results,
conformance, the evidence package's comparison), path and environment checks of the
worker's authority, string policies (security), the extraction of Java symbols and
the tokenising of text (retrieval), prompt text, read-only queries and HTTP plumbing,
React presentation, evaluation and deployment scripts.  Of these only the worker's
authority has rules over structured values that a bounded check could compare with a
reference definition; it is item 9 of the plan.
