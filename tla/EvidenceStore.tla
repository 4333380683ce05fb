--------------------------- MODULE EvidenceStore ---------------------------
(***************************************************************************)
(* The durable evidence tables (app/db/db004_persistence.py, models in     *)
(* app/db/models/evidence.py and context.py, projections in                *)
(* app/db/db004_queries.py), written by several database sessions at once. *)
(*                                                                         *)
(* A persist_* call validates its references, opens a savepoint and        *)
(* converges its rows one by one; the caller owns the transaction, which   *)
(* PostgreSQL runs at READ COMMITTED.  A row another session has inserted  *)
(* and not yet committed makes the insert wait.  All the tables are        *)
(* append-only, so the SELECTs of one validation see a growing store and   *)
(* are taken together in the step that starts the call.                    *)
(***************************************************************************)
EXTENDS EvidenceAdmission

CONSTANTS Sessions,    \* database sessions of the callers
          Aggregates,  \* the values callers may persist
          AttemptRun,  \* run owning each workflow attempt (DB-003 rows)
          MaxCalls     \* persist calls in one transaction

ASSUME MaxCallsAssumption == MaxCalls \in Nat \ {0}

IsSequence(s) == s \in Seq(ToSet(s))

\* Collections are finite.  The identity of a context bundle is a digest of
\* its items and budget (_context_bundle_identity), so it determines them.
ASSUME AggregateAssumption ==
    /\ \A a \in Aggregates :
          \/ a.kind = "candidate" /\ IsFiniteSet(a.files)
          \/ /\ a.kind = "evidence"
             /\ IsSequence(a.embedded) /\ IsSequence(a.cases) /\ IsSequence(a.observations)
          \/ a.kind = "artefact"
          \/ a.kind = "manifest" /\ IsFiniteSet(a.members)
          \/ a.kind = "bundle" /\ IsSequence(a.items)
    /\ \A a, b \in Aggregates :
          a.kind = "bundle" /\ b.kind = "bundle" /\ a.id = b.id => a = b

VARIABLES committed,   \* rows of every committed transaction
          pending,     \* rows of each session's open transaction
          call,        \* the persist call each session is executing
          calls        \* calls made in each open transaction

storeVars == <<committed, pending, call, calls>>
vars == <<storeVars, held>>

-----------------------------------------------------------------------------
(* Rows.  `key` is the primary key, `bind` the secondary unique binding.   *)

Row(table, owner, key, bind, data) ==
    [table |-> table, owner |-> owner, key |-> key, bind |-> bind, data |-> data]

NoData == [none |-> None]

PatchRow(a) ==
    Row("patch", a.id, <<a.id>>, <<a.version>>,
        [run |-> a.run, attempt |-> a.attempt, body |-> a.body])

VersionRow(a) ==
    Row("version", a.id, <<a.version>>, <<>>,
        [run |-> a.run, attempt |-> a.attempt, level |-> a.level,
         parent |-> a.parent, body |-> a.body])

FileRow(a, f) == Row("file", a.id, <<a.id, f>>, <<>>, NoData)

EvidenceRow(a) ==
    Row("evidence", a.id, <<a.id>>, <<>>,
        [candidate |-> a.candidate, run |-> a.run, attempt |-> a.attempt,
         phase |-> a.phase, body |-> a.body])

ArtefactRow(a) ==
    Row("artefact", a.id, <<a.id>>, <<>>,
        [candidate |-> a.candidate, evidence |-> a.evidence, body |-> a.body])

StreamRoles == {"STDOUT", "STDERR"}

RoleRow(a, embedded) ==
    Row("role", a.id, <<a.id, embedded.artefact.id>>,
        IF embedded.role \in StreamRoles THEN <<a.id, embedded.role>> ELSE <<>>,
        [role |-> embedded.role])

CaseRow(a, i) ==
    Row("case", a.id, <<a.id, i>>, <<a.id, a.cases[i].test>>,
        [status |-> a.cases[i].status])

ObservationRow(a, i) ==
    Row("observation", a.id, <<a.id, i>>, <<>>, [fact |-> a.observations[i]])

ManifestRow(a) ==
    Row("manifest", a.id, <<a.id>>, <<>>,
        [candidate |-> a.candidate, evidence |-> a.evidence,
         attempt |-> a.attempt, phase |-> a.phase, body |-> a.body])

MemberRow(a, m) == Row("member", a.id, <<a.id, m.id>>, <<>>, NoData)

BundleRow(a) == Row("bundle", a.id, <<a.id>>, <<>>, [budget |-> a.budget])

ItemRow(a, i) == Row("item", a.id, <<a.items[i]>>, <<a.id, i>>, NoData)

Root(a) ==
    CASE a.kind = "candidate" -> PatchRow(a)
      [] a.kind = "evidence"  -> EvidenceRow(a)
      [] a.kind = "artefact"  -> ArtefactRow(a)
      [] a.kind = "manifest"  -> ManifestRow(a)
      [] a.kind = "bundle"    -> BundleRow(a)

\* The child collections a root owns.
Collections(kind) ==
    CASE kind = "patch"    -> {"file"}
      [] kind = "evidence" -> {"case", "observation", "role"}
      [] kind = "manifest" -> {"member"}
      [] kind = "bundle"   -> {"item"}
      [] OTHER             -> {}

Compare == [table |-> "compare"]

\* Each embedded artefact is written before its role.
EmbeddedRows(a) ==
    [i \in 1 .. 2 * Len(a.embedded) |->
        LET embedded == a.embedded[(i + 1) \div 2]
        IN  IF i % 2 = 1 THEN ArtefactRow(embedded.artefact) ELSE RoleRow(a, embedded)]

\* The statements of a call inside its savepoint, in the order of the code.
CandidatePlan(a) ==
    <<PatchRow(a), VersionRow(a), Compare>>
    \o SetToSeq({FileRow(a, f) : f \in a.files})

EvidencePlan(a) ==
    <<EvidenceRow(a), Compare>>
    \o (EmbeddedRows(a)
        \o [i \in DOMAIN a.cases |-> CaseRow(a, i)]
        \o [i \in DOMAIN a.observations |-> ObservationRow(a, i)])

ManifestPlan(a) ==
    <<ManifestRow(a), Compare>> \o SetToSeq({MemberRow(a, m) : m \in a.members})

BundlePlan(a) == <<BundleRow(a)>> \o [i \in DOMAIN a.items |-> ItemRow(a, i)]

Plan(a) ==
    CASE a.kind = "candidate" -> CandidatePlan(a)
      [] a.kind = "evidence"  -> EvidencePlan(a)
      [] a.kind = "artefact"  -> <<ArtefactRow(a)>>
      [] a.kind = "manifest"  -> ManifestPlan(a)
      [] a.kind = "bundle"    -> BundlePlan(a)

RowsOf(a) == {r \in ToSet(Plan(a)) : r # Compare}

\* The rows of `rows` in the child collections of the given root.
ChildrenIn(rows, root) ==
    {r \in rows : r.owner = root.owner /\ r.table \in Collections(root.table)}

ChildrenOf(a) == ChildrenIn(RowsOf(a), Root(a))

Collide(r, q) ==
    r.table = q.table /\ (r.key = q.key \/ (r.bind # <<>> /\ r.bind = q.bind))

-----------------------------------------------------------------------------
(* Reference checks, on the rows the session can see.                      *)

View(s) == committed \cup pending[s]

Found(rows, table, id) ==
    {r \in rows : r.table = table /\ r.key = <<id>>}

Attempts == DOMAIN AttemptRun

RunsExist(run) == run = None \/ \E t \in Attempts : AttemptRun[t] = run

\* _resolve_attempt: the attempt exists and belongs to the run.
AttemptResolves(attempt, run) == attempt \in Attempts /\ AttemptRun[attempt] = run

\* Fault: a repaired candidate is accepted from another run than its parent's.
FaultyLineageHolds(a, rows) ==
    a.parent # None =>
        \E p \in Found(rows, "version", a.parent) : p.data.level = 0

LineageHolds(a, rows) ==
    a.parent # None =>
        \E p \in Found(rows, "version", a.parent) :
            p.data.level = 0 /\ p.data.run = a.run

CandidateResolves(a, rows) ==
    /\ RunsExist(a.run)
    /\ AttemptResolves(a.attempt, a.run)
    /\ LineageHolds(a, rows)

ArtefactResolves(a, rows) ==
    /\ a.candidate # None => Found(rows, "version", a.candidate) # {}
    /\ a.evidence # None =>
          \E e \in Found(rows, "evidence", a.evidence) :
              a.candidate # None => e.data.candidate = a.candidate

\* An embedded artefact may not declare another execution, nor a foreign
\* candidate that exists.  One that does not exist is left to the nested call.
EmbeddedConsistent(a, rows) ==
    \A i \in DOMAIN a.embedded :
        LET artefact == a.embedded[i].artefact
        IN  /\ artefact.evidence \in {None, a.id}
            /\ artefact.candidate \notin {None, a.candidate} =>
                   Found(rows, "version", artefact.candidate) = {}

EvidenceResolves(a, rows) ==
    /\ RunsExist(a.run)
    /\ \E v \in Found(rows, "version", a.candidate) :
          /\ a.run \in {None, v.data.run}
          /\ AttemptResolves(a.attempt, v.data.run)
    /\ EmbeddedConsistent(a, rows)

ManifestResolves(a, rows) ==
    /\ a.candidate # None => Found(rows, "version", a.candidate) # {}
    /\ a.attempt # None => a.attempt \in Attempts
    /\ a.evidence # None =>
          \E e \in Found(rows, "evidence", a.evidence) :
              /\ a.candidate # None => e.data.candidate = a.candidate
              /\ a.attempt # None => e.data.attempt = a.attempt
              /\ e.data.phase = a.phase
    /\ a.candidate # None /\ a.attempt # None =>
          \E v \in Found(rows, "version", a.candidate) :
              v.data.run = AttemptRun[a.attempt]
    /\ \A m \in a.members : ArtefactRow(m) \in rows

Resolves(a, rows) ==
    CASE a.kind = "candidate" -> CandidateResolves(a, rows)
      [] a.kind = "evidence"  -> EvidenceResolves(a, rows)
      [] a.kind = "artefact"  -> ArtefactResolves(a, rows)
      [] a.kind = "manifest"  -> ManifestResolves(a, rows)
      [] a.kind = "bundle"    -> TRUE

-----------------------------------------------------------------------------
Idle == [aggregate |-> None]

Busy(s) == call[s] # Idle

Next1(s) == Head(call[s].todo)

\* Inside persist_execution_evidence_metadata an artefact row is written by
\* the nested persist_artefact_reference_metadata, which checks it again.
ArtefactOf(s, row) ==
    CHOOSE m \in {call[s].aggregate.embedded[i].artefact :
                    i \in DOMAIN call[s].aggregate.embedded} : ArtefactRow(m) = row

NestedRefusal(s, row) ==
    /\ call[s].aggregate.kind = "evidence"
    /\ row.table = "artefact"
    /\ ~ArtefactResolves(ArtefactOf(s, row), View(s))

\* The sessions whose uncommitted rows make the insert of `row` wait.
Blockers(s) ==
    IF Busy(s) /\ call[s].todo # <<>> /\ Next1(s) # Compare
               /\ ~NestedRefusal(s, Next1(s))
    THEN {t \in Sessions \ {s} : \E q \in pending[t] : Collide(Next1(s), q)}
    ELSE {}

Deadlocked(s) ==
    \E W \in SUBSET Sessions :
        /\ s \in W
        /\ \A t \in W : Blockers(t) \cap W # {} /\ \E u \in W : t \in Blockers(u)

\* Fault: the call runs without a savepoint and leaves what it had written.
FaultyRollBackToSavepoint(s) ==
    /\ call' = [call EXCEPT ![s] = Idle]
    /\ UNCHANGED pending

\* Leaving the savepoint with an error undoes the rows of this call only.
RollBackToSavepoint(s) ==
    /\ pending' = [pending EXCEPT ![s] = call[s].savepoint]
    /\ call' = [call EXCEPT ![s] = Idle]

Advance(s) == call' = [call EXCEPT ![s].todo = Tail(@)]

-----------------------------------------------------------------------------
(* Writers.                                                                *)

\* The call's checks fail before any write: the caller gets the error and
\* nothing has changed.
Refuse(s, a) ==
    /\ ~Busy(s) /\ calls[s] < MaxCalls
    /\ ~Resolves(a, View(s))
    /\ UNCHANGED vars

Begin(s, a) ==
    /\ ~Busy(s) /\ calls[s] < MaxCalls /\ held = Nothing
    /\ Resolves(a, View(s))
    /\ calls' = [calls EXCEPT ![s] = @ + 1]
    /\ call' = [call EXCEPT ![s] = [aggregate |-> a, todo |-> Plan(a),
                                    fresh |-> FALSE, savepoint |-> pending[s]]]
    /\ UNCHANGED <<committed, pending, held>>

\* INSERT ... ON CONFLICT DO NOTHING RETURNING brings the row back.
InsertRow(s) ==
    /\ Busy(s) /\ call[s].todo # <<>>
    /\ LET row == Next1(s)
       IN  /\ row # Compare /\ ~NestedRefusal(s, row)
           /\ Blockers(s) = {}
           /\ ~\E q \in View(s) : Collide(row, q)
           /\ pending' = [pending EXCEPT ![s] = @ \cup {row}]
           /\ call' = [call EXCEPT
                         ![s].todo = Tail(@),
                         ![s].fresh = @ \/ row = Root(call[s].aggregate)]
    /\ UNCHANGED <<committed, calls, held>>

\* The row is there already, with the same values.
ConvergeRow(s) ==
    /\ Busy(s) /\ call[s].todo # <<>>
    /\ LET row == Next1(s)
       IN  /\ row # Compare /\ ~NestedRefusal(s, row)
           /\ Blockers(s) = {}
           /\ row \in View(s)
    /\ Advance(s)
    /\ UNCHANGED <<committed, pending, calls, held>>

\* A stored row has the same key and other values, or holds the binding.
ConflictRow(s) ==
    /\ Busy(s) /\ call[s].todo # <<>>
    /\ LET row == Next1(s)
       IN  /\ row # Compare /\ ~NestedRefusal(s, row)
           /\ Blockers(s) = {}
           /\ row \notin View(s)
           /\ \E q \in View(s) : Collide(row, q)
    /\ RollBackToSavepoint(s)
    /\ UNCHANGED <<committed, calls, held>>

RefuseNested(s) ==
    /\ Busy(s) /\ call[s].todo # <<>>
    /\ NestedRefusal(s, Next1(s))
    /\ RollBackToSavepoint(s)
    /\ UNCHANGED <<committed, calls, held>>

\* Fault: the stored collections are looked up among committed rows only.
FaultyCollectionsMatch(s) ==
    ChildrenIn(committed, Root(call[s].aggregate)) = ChildrenOf(call[s].aggregate)

CollectionsMatch(s) ==
    ChildrenIn(View(s), Root(call[s].aggregate)) = ChildrenOf(call[s].aggregate)

\* The root existed: its complete stored collections must be the incoming
\* ones.  An existing manifest is then left alone, the others converge on.
CompareCollections(s) ==
    /\ Busy(s) /\ call[s].todo # <<>> /\ Next1(s) = Compare
    /\ call[s].fresh \/ CollectionsMatch(s)
    /\ IF ~call[s].fresh /\ call[s].aggregate.kind = "manifest"
       THEN call' = [call EXCEPT ![s].todo = <<>>]
       ELSE Advance(s)
    /\ UNCHANGED <<committed, pending, calls, held>>

ConflictCollections(s) ==
    /\ Busy(s) /\ call[s].todo # <<>> /\ Next1(s) = Compare
    /\ ~call[s].fresh /\ ~CollectionsMatch(s)
    /\ RollBackToSavepoint(s)
    /\ UNCHANGED <<committed, calls, held>>

\* The savepoint is released and the stored row returned.
Finish(s) ==
    /\ Busy(s) /\ call[s].todo = <<>>
    /\ call' = [call EXCEPT ![s] = Idle]
    /\ UNCHANGED <<committed, pending, calls, held>>

\* PostgreSQL fails one insert of a cycle of waits.
AbortDeadlock(s) ==
    /\ Deadlocked(s)
    /\ RollBackToSavepoint(s)
    /\ UNCHANGED <<committed, calls, held>>

EndTransaction(s) ==
    /\ pending' = [pending EXCEPT ![s] = {}]
    /\ call' = [call EXCEPT ![s] = Idle]
    /\ calls' = [calls EXCEPT ![s] = 0]
    /\ UNCHANGED held

Commit(s) ==
    /\ ~Busy(s) /\ calls[s] > 0
    /\ committed' = committed \cup pending[s]
    /\ EndTransaction(s)

\* The caller rolls back, or its process or connection dies in mid-call.
Rollback(s) ==
    /\ calls[s] > 0
    /\ EndTransaction(s)
    /\ UNCHANGED committed

-----------------------------------------------------------------------------
Init ==
    /\ committed = {}
    /\ pending = [s \in Sessions |-> {}]
    /\ call = [s \in Sessions |-> Idle]
    /\ calls = [s \in Sessions |-> 0]
    /\ AdmissionInit

\* Bound: constructors run while the store is untouched, which shares no state
\* with them.
Admit ==
    /\ committed = {} /\ \A s \in Sessions : calls[s] = 0
    /\ AdmissionNext
    /\ UNCHANGED storeVars

SessionStep(s) ==
    \/ \E a \in Aggregates : Refuse(s, a)
    \/ \E a \in Aggregates : Begin(s, a)
    \/ InsertRow(s)
    \/ ConvergeRow(s)
    \/ ConflictRow(s)
    \/ RefuseNested(s)
    \/ CompareCollections(s)
    \/ ConflictCollections(s)
    \/ Finish(s)
    \/ AbortDeadlock(s)
    \/ Commit(s)
    \/ Rollback(s)

Next ==
    \/ Admit
    \/ \E s \in Sessions : SessionStep(s)

Spec == Init /\ [][Next]_vars

-----------------------------------------------------------------------------
(* Properties.                                                             *)

RootTables == {"patch", "version", "evidence", "artefact", "manifest", "bundle"}

\* What get_*_projection returns beside the root: its complete collections.
\* Each is a SELECT of its own, possibly after other commits; since a
\* published root keeps its collections, they are those of any later state.
Projection(rows, root) == [root |-> root, content |-> ChildrenIn(rows, root)]

Published(rows) ==
    {Projection(rows, r) : r \in {q \in rows : q.table \in RootTables}}

Claimed == UNION {Published(RowsOf(a)) : a \in Aggregates}

\* Whatever the writers race, refuse, roll back or lose in a crash, what is
\* committed under an identity is always one whole claim, and no later
\* transaction grows, shrinks or replaces it: the store implements
\* WriteOnceStore.  Relies on the savepoint of every persist call, on the
\* comparison of complete collections and on the unique keys.
Abstract == INSTANCE WriteOnceStore
              WITH Claims <- Claimed, store <- Published(committed)

ImplementsWriteOnceStore == Abstract!Spec

\* Two sessions that persist the same aggregate both succeed, in any order:
\* a call ends in a conflict only when the rows its session can see really
\* contradict the aggregate, by another value, another holder of one of its
\* bindings, or another collection under its root (_converge_row waits out
\* the other session before it classifies).
Contradicts(rows, a) ==
    \/ \E r \in RowsOf(a), q \in rows : Collide(r, q) /\ r # q
    \/ Root(a) \in rows /\ ChildrenIn(rows, Root(a)) # ChildrenOf(a)

EqualWritesConverge ==
    [][\A s \in Sessions :
         ConflictRow(s) \/ ConflictCollections(s)
           => Contradicts(View(s), call[s].aggregate)]_vars

\* The foreign keys join rows of one candidate, one run and one phase even
\* where no foreign key says so: checks made before the savepoint, in another
\* statement than the insert, still hold of what is committed.
LinkagesAreConsistent ==
    /\ \A p \in {r \in committed : r.table = "patch"} :
          \E v \in committed :
              v.table = "version" /\ v.owner = p.owner /\ v.key = p.bind
    /\ \A v \in {r \in committed : r.table = "version"} :
          /\ Found(committed, "patch", v.owner) # {}
          /\ AttemptResolves(v.data.attempt, v.data.run)
          /\ v.data.parent # None =>
                \E p \in Found(committed, "version", v.data.parent) :
                    p.data.level = 0 /\ p.data.run = v.data.run
    /\ \A e \in {r \in committed : r.table = "evidence"} :
          \E v \in Found(committed, "version", e.data.candidate) :
              /\ AttemptResolves(e.data.attempt, v.data.run)
              /\ e.data.run \in {None, v.data.run}
    /\ \A m \in {r \in committed : r.table \in {"artefact", "manifest"}} :
          m.data.evidence # None =>
            \E e \in Found(committed, "evidence", m.data.evidence) :
                /\ m.data.candidate \in {None, e.data.candidate}
                /\ m.table = "manifest" =>
                      /\ m.data.attempt \in {None, e.data.attempt}
                      /\ m.data.phase = e.data.phase
    /\ \A r \in {q \in committed : q.table \in {"role", "member"}} :
          \E m \in committed :
              /\ m.table = "artefact" /\ m.key = <<r.key[2]>>
              /\ r.table = "role" => m.data.evidence \in {None, r.owner}

\* An execution never binds an artefact that declares another candidate
\* (the check of persist_execution_evidence_metadata and its comment).
RolesMatchCandidates ==
    \A r \in {q \in committed : q.table = "role"},
       m \in {q \in committed : q.table = "artefact"},
       e \in {q \in committed : q.table = "evidence"} :
        m.key = <<r.key[2]>> /\ e.key = <<r.owner>> =>
            m.data.candidate \in {None, e.data.candidate}

=============================================================================
