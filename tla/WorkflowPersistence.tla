------------------------- MODULE WorkflowPersistence -------------------------
(***************************************************************************)
(* Durable transitions of one run (apps/api/app/workflow/persistence.py,   *)
(* db/workflow_persistence.py): database sessions answer the transition    *)
(* requests of producers inside transactions their callers own.  A request *)
(* may be delivered any number of times, to any session, in any order.     *)
(*                                                                         *)
(* The run's row is read under a row lock, through the session's identity  *)
(* map: an instance the caller still holds is not refreshed by the read.   *)
(***************************************************************************)
EXTENDS WorkflowEngine, Sequences

CONSTANTS Session,      \* database sessions
          None,         \* no session
          Requests,     \* inputs: the transition requests producers send
          Profiles      \* inputs: what runs are created with

\* PersistentTransitionRequest.  A producer fingerprints the content of an
\* event, so equal fingerprints of an event mean equal requests.
Request ==
    [expectedState: RunState, expectedVersion: Nat, target: RunState,
     context: {c \in Context : c.actor # "NONE"}, event: Nat, fingerprint: Nat]

ASSUME PersistenceAssumption ==
    /\ None \notin Session
    /\ Requests \subseteq Request
    /\ \A q, r \in Requests :
          q.event = r.event /\ q.fingerprint = r.fingerprint => q = r
    /\ Profiles \subseteq [kind: RequestKind, reviewRequired: BOOLEAN, limit: Nat]

VARIABLES row,           \* the committed projection of the run
          events,        \* its committed events, in sequence
          lock,          \* the session whose transaction locks the row
          workRow,       \* the row and
          workEvents,    \* the events as that transaction sees them
          cache,         \* per session: the instance its caller holds, if any
          reported,      \* requests it answered with success for the first time
          acknowledged   \* those whose transaction committed

vars == <<row, events, lock, workRow, workEvents, cache, reported, acknowledged>>

-----------------------------------------------------------------------------
(* The row.                                                                *)

NoFacts == [failure |-> "NONE", abstention |-> "NONE", cancellation |-> "NONE",
            terminalActor |-> "NONE"]

Facts == [failure: FailureCode \cup {"NONE"}, abstention: AbstentionCode \cup {"NONE"},
          cancellation: CancellationCode \cup {"NONE"},
          terminalActor: ActorType \cup {"NONE"}]

\* The columns of Run: those of its snapshot, and the terminal facts.
Row ==
    [state: RunState, repairs: {0, 1}, retries: Nat, limit: Nat, kind: RequestKind,
     reviewRequired: BOOLEAN, version: Nat, attempt: {0},
     facts: Facts]

\* _validate_terminal_shape
TerminalShapeIsValid(r) ==
    IF r.state \notin TERMINAL_STATES
    THEN r.facts = NoFacts
    ELSE /\ r.facts.terminalActor # "NONE"
         /\ r.facts.failure =
               IF r.state \in FailureState THEN FailurePrefix(r.state) ELSE "NONE"
         /\ r.facts.abstention # "NONE" <=> r.state = "ABSTAINED"
         /\ r.facts.cancellation # "NONE" <=> r.state = "CANCELLED"

\* lifecycle_snapshot_from_run returns: the row makes a snapshot.
IsInterpretable(r) ==
    /\ TerminalShapeIsValid(r)
    /\ SnapshotIsValid(r)
    /\ r.state = "FAILED_INFRASTRUCTURE" => r.retries = r.limit
    /\ r.facts.abstention = "REPAIR_LIMIT_EXHAUSTED" => r.repairs = 1

\* Fault: the codes of the context are stored whatever the target.
FactsOfContext(q) ==
    [failure |-> q.context.failure, abstention |-> q.context.abstention,
     cancellation |-> q.context.cancellation,
     terminalActor |-> IF q.target \in TERMINAL_STATES THEN q.context.actor ELSE "NONE"]

\* _projection_updates, the terminal facts.
FactsOf(q) ==
    IF q.target \notin TERMINAL_STATES THEN NoFacts
    ELSE [failure |-> IF q.target \in FailureState THEN q.context.failure ELSE "NONE",
          abstention |-> IF q.target = "ABSTAINED" THEN q.context.abstention ELSE "NONE",
          cancellation |-> IF q.target = "CANCELLED" THEN q.context.cancellation
                                                     ELSE "NONE",
          terminalActor |-> q.context.actor]

\* Fault: the projection is compared by its state alone.
StateMatches(r, q) == r.state = q.expectedState

\* The row is the one the request expects: the test of persist_transition on
\* the instance it read, and the condition of compare_and_swap_run.
Matches(r, q) == r.state = q.expectedState /\ r.version = q.expectedVersion

\* compare_and_swap_run with the projection decided for the instance read.
Updated(r, read, q) ==
    LET next == NextSnapshot(read, q.target) IN
    [r EXCEPT !.state = next.state, !.repairs = next.repairs,
              !.retries = next.retries, !.version = @ + 1, !.facts = FactsOf(q)]

-----------------------------------------------------------------------------
(* The events.                                                             *)

\* _transition_event; the actor of an event that is not terminal is left out.
EventOf(q) ==
    [event |-> q.event, fingerprint |-> q.fingerprint,
     from |-> q.expectedState, to |-> q.target, facts |-> FactsOf(q)]

HasEvent(q) == \E i \in DOMAIN workEvents : workEvents[i].event = q.event

\* Fault: the producer event identity is enough to take a request for a replay.
HasAnyEvent(q) == HasEvent(q)

HasSameEvent(q) ==
    \E i \in DOMAIN workEvents :
        /\ workEvents[i].event = q.event
        /\ workEvents[i].fingerprint = q.fingerprint

-----------------------------------------------------------------------------
(* What the database checks of the rows written to it.                     *)

\* Fault: the stored table has no way back from a repair.
WithoutReexecution ==
    {p \in RunState \X RunState :
        p[2] \in ALLOWED_TRANSITIONS[p[1]] /\ p[1] # "REPAIRING"}

\* ALLOWED_RUN_TRANSITIONS, the table of the schema, by target.
StoredTransitions ==
    LET Pairs(from, to) == from \X {to}
        Working == {"PLANNING", "LOCALISING", "GENERATING"}
        Executing == {"EXECUTING_BUGGY", "EXECUTING_FIXED"}
        Stoppable == Working \cup Executing \cup
                     {"VALIDATING", "QUEUED", "REPAIRING", "SCORING", "PUBLISHING"}
    IN  UNION {Pairs({"RECEIVED"}, "VALIDATING"),
               Pairs({"VALIDATING"}, "QUEUED"),
               Pairs({"QUEUED"}, "PLANNING"),
               Pairs({"PLANNING"}, "LOCALISING"),
               Pairs({"LOCALISING"}, "GENERATING"),
               Pairs({"GENERATING", "REPAIRING"}, "EXECUTING_BUGGY"),
               Pairs({"EXECUTING_BUGGY"}, "EXECUTING_FIXED"),
               Pairs(Executing, "REPAIRING"),
               Pairs({"EXECUTING_FIXED"}, "SCORING"),
               Pairs({"SCORING"}, "PUBLISHING"),
               Pairs({"SCORING", "PUBLISHING"}, "AWAITING_HUMAN_REVIEW"),
               Pairs({"SCORING", "PUBLISHING", "AWAITING_HUMAN_REVIEW"}, "COMPLETED"),
               Pairs({"VALIDATING"}, "FAILED_INPUT"),
               Pairs(Working \cup {"REPAIRING"}, "FAILED_MODEL"),
               Pairs(Executing, "FAILED_EXECUTION"),
               Pairs(Working \cup Executing \cup {"REPAIRING", "SCORING"}, "ABSTAINED"),
               Pairs(Stoppable, "FAILED_INFRASTRUCTURE"),
               Pairs(Stoppable, "FAILED_SECURITY"),
               Pairs(Stoppable \cup {"RECEIVED"}, "CANCELLED")}

\* The reason columns of an event, and of the row, for a state.
ReasonMatches(facts, state) ==
    /\ facts.failure = IF state \in FailureState THEN FailurePrefix(state) ELSE "NONE"
    /\ IF state = "ABSTAINED" THEN facts.abstention \in AbstentionCode
                              ELSE facts.abstention = "NONE"
    /\ IF state = "CANCELLED" THEN facts.cancellation \in CancellationCode
                              ELSE facts.cancellation = "NONE"

RunIsStorable(r) ==
    /\ r.repairs \in 0..1 /\ r.retries <= r.limit
    /\ ReasonMatches(r.facts, r.state)
    /\ r.facts.terminalActor # "NONE" <=> r.state \in TERMINAL_STATES

EventIsStorable(e) ==
    <<e.from, e.to>> \in StoredTransitions /\ ReasonMatches(e.facts, e.to)

-----------------------------------------------------------------------------
(* Sessions.                                                               *)

Init ==
    /\ \E p \in Profiles :
          row = [state |-> "RECEIVED", repairs |-> 0, retries |-> 0, limit |-> p.limit,
                 kind |-> p.kind, reviewRequired |-> p.reviewRequired, version |-> 0,
                 attempt |-> 0, facts |-> NoFacts]
    /\ events = << >>
    /\ lock = None
    /\ workRow = row /\ workEvents = events
    /\ cache = [s \in Session |-> {}]
    /\ reported = {} /\ acknowledged = {}

\* SELECT ... FOR UPDATE returns: no other transaction holds the row lock.
MayLock(s) == lock \in {None, s}

\* The instance the read of persist_transition returns.
Instance(s) == IF cache[s] = {} THEN workRow ELSE CHOOSE r \in cache[s] : TRUE

\* The answers of persist_transition, by what leads to them.  A request whose
\* event is recorded with another fingerprint is answered PRODUCER_EVENT_CONFLICT
\* and rolls its savepoint back, with a lock it took: it changes nothing.
IsDecided(s, q) ==
    Matches(Instance(s), q) /\ Accepts(Instance(s), q.target, q.context)
IsRejected(s, q) ==
    Matches(Instance(s), q) /\ ~Accepts(Instance(s), q.target, q.context)
IsReplay(s, q) == ~Matches(Instance(s), q) /\ HasSameEvent(q)
IsStale(s, q) == ~Matches(Instance(s), q) /\ ~HasEvent(q)
IsInconsistent(s, q) == IsDecided(s, q) /\ HasSameEvent(q)
IsAppendable(s, q) == IsDecided(s, q) /\ ~HasEvent(q)

\* The transaction keeps the lock its first read took.
Hold(s) == MayLock(s) /\ IsInterpretable(Instance(s)) /\ lock' = s

\* The caller loads the run, or reads it again, and keeps the instance.
Load(s) ==
    /\ cache[s] = {}
    /\ cache' = [cache EXCEPT ![s] = {IF lock = s THEN workRow ELSE row}]
    /\ UNCHANGED <<row, events, lock, workRow, workEvents, reported, acknowledged>>

\* The caller lets the instance go.
Forget(s) ==
    /\ cache[s] # {}
    /\ cache' = [cache EXCEPT ![s] = {}]
    /\ UNCHANGED <<row, events, lock, workRow, workEvents, reported, acknowledged>>

\* APPLIED: the event is flushed and the projection swapped.
Apply(s, q) ==
    /\ Hold(s)
    /\ IsAppendable(s, q) /\ Matches(workRow, q)
    /\ workEvents' = Append(workEvents, EventOf(q))
    /\ workRow' = Updated(workRow, Instance(s), q)
    /\ cache' = [cache EXCEPT ![s] = IF @ = {} THEN {} ELSE {workRow'}]
    /\ reported' = reported \cup ({q} \ acknowledged)
    /\ UNCHANGED <<row, events, acknowledged>>

\* Fault: the event is not rolled back with the failed swap.
LoseSwapOnly(s, q) ==
    /\ MayLock(s) /\ IsInterpretable(Instance(s))
    /\ IsAppendable(s, q) /\ ~Matches(workRow, q)
    /\ lock' = s
    /\ workEvents' = Append(workEvents, EventOf(q))
    /\ cache' = [cache EXCEPT ![s] = {}]
    /\ UNCHANGED <<row, events, workRow, reported, acknowledged>>

\* CONFLICT, STALE_PROJECTION: the swap fails, the savepoint is rolled back with
\* the event and the instance the update had touched.
LoseSwap(s, q) ==
    /\ MayLock(s) /\ IsInterpretable(Instance(s))
    /\ IsAppendable(s, q) /\ ~Matches(workRow, q)
    /\ cache' = [cache EXCEPT ![s] = {}]
    /\ UNCHANGED <<row, events, lock, workRow, workEvents, reported, acknowledged>>

\* IDEMPOTENT_REPLAY
Replay(s, q) ==
    /\ Hold(s)
    /\ IsReplay(s, q)
    /\ reported' = reported \cup ({q} \ acknowledged)
    /\ UNCHANGED <<row, events, workRow, workEvents, cache, acknowledged>>

\* Every other answer of a normal return: REJECTED, CONFLICT for a stale
\* projection or an inconsistency, INVALID_DURABLE_STATE.
Refuse(s, q) ==
    /\ MayLock(s) /\ lock' = s
    /\ \/ ~IsInterpretable(Instance(s))
       \/ IsStale(s, q) \/ IsRejected(s, q) \/ IsInconsistent(s, q)
    /\ UNCHANGED <<row, events, workRow, workEvents, cache, reported, acknowledged>>

Release(s) ==
    /\ lock = s /\ lock' = None
    /\ reported' = {}

\* The caller's transaction commits.
Commit(s) ==
    /\ Release(s)
    /\ row' = workRow /\ events' = workEvents
    /\ acknowledged' = acknowledged \cup reported
    /\ UNCHANGED <<workRow, workEvents, cache>>

\* It rolls back, or its process dies; instances are expired.
Rollback(s) ==
    /\ Release(s)
    /\ workRow' = row /\ workEvents' = events
    /\ cache' = [cache EXCEPT ![s] = {}]
    /\ UNCHANGED <<row, events, acknowledged>>

Next ==
    \E s \in Session :
        \/ Load(s) \/ Forget(s) \/ Commit(s) \/ Rollback(s)
        \/ \E q \in Requests :
              Apply(s, q) \/ LoseSwap(s, q) \/ Replay(s, q) \/ Refuse(s, q)

Spec == Init /\ [][Next]_vars

-----------------------------------------------------------------------------
(* Properties.                                                             *)

Ledger ==
    INSTANCE RunLedger WITH
        ledger <- events, Start <- "RECEIVED", Successors <- ALLOWED_TRANSITIONS,
        Terminal <- TERMINAL_STATES, Once <- {"REPAIRING"}

Event == [event: Nat, fingerprint: Nat, from: RunState, to: RunState,
          facts: Facts]

TypeOK ==
    /\ row \in Row /\ workRow \in Row
    /\ events \in Seq(Event) /\ workEvents \in Seq(Event)
    /\ lock \in Session \cup {None}
    /\ cache \in [Session -> SUBSET Row]
    /\ reported \subseteq Requests /\ acknowledged \subseteq Requests

\* The projection is what its events add up to: as many as its version, ending
\* in its state for its reason, with a repair among them when the repair counter
\* says so.
Follows(r, log) ==
    /\ Ledger!IsLifecycle(log)
    /\ r.version = Len(log)
    /\ r.state = Ledger!StateAfter(log, Len(log))
    /\ r.facts = IF log = << >> THEN NoFacts ELSE log[Len(log)].facts
    /\ r.repairs = 1 <=> \E i \in DOMAIN log : log[i].to = "REPAIRING"

\* No mix of commits, rollbacks, lost swaps and stale instances lets the
\* projection of the run drift from its append-only history.
ProjectionFollowsEvents == Follows(row, events) /\ Follows(workRow, workEvents)

\* Whatever was persisted can be read back: lifecycle_snapshot_from_run never
\* finds a durable run that it must call invalid.
DurableRunIsInterpretable == IsInterpretable(row) /\ IsInterpretable(workRow)

\* The schema has a transition table and reason rules of its own: they refuse
\* nothing that the engine decides, so no flush of persist_transition fails.
ConstraintsNeverFire ==
    /\ \A from, to \in RunState :
          to \in ALLOWED_TRANSITIONS[from] <=> <<from, to>> \in StoredTransitions
    /\ RunIsStorable(workRow)
    /\ \A i \in DOMAIN workEvents : EventIsStorable(workEvents[i])

\* The version identifies the row: an instance, however stale, that has the
\* version of the row is the row, so a swap on it decides from current facts.
VersionIdentifiesRow ==
    \A s \in Session : \A r \in cache[s] :
        LET current == IF lock = s THEN workRow ELSE row
        IN  r.version <= current.version /\ (r.version = current.version => r = current)

\* Of the requests that race to move the run on from one version, at most one is
\* ever acknowledged.
OneWinnerPerVersion ==
    \A q, r \in acknowledged : q.expectedVersion = r.expectedVersion => q = r

\* The sessions implement the ledger.
ImplementsRunLedger == Ledger!Spec
=============================================================================
