---------------------- MODULE WorkflowPersistenceProofs ----------------------
(* Proofs about WorkflowPersistence, for every set of sessions, requests   *)
(* and profiles.                                                           *)
EXTENDS WorkflowPersistence, TLAPS

\* Only a run that has executed nothing enters a state in which it has not, or
\* fails for its input.
LEMMA TableKeepsUnexecuted ==
  ASSUME NEW from \in RunState, NEW to \in ALLOWED_TRANSITIONS[from],
         to \in Unexecuted \cup {"FAILED_INPUT"}
  PROVE  from \in Unexecuted
  <1> SUFFICES ASSUME from \notin Unexecuted PROVE FALSE
    OBVIOUS
  <1>1. ALLOWED_TRANSITIONS[from] \subseteq
           ModelStop \cup ExecutionStop \cup
           (RunState \ (Unexecuted \cup {"FAILED_INPUT"}))
    BY DEF ALLOWED_TRANSITIONS, RunState, Unexecuted, Stop, ModelStop, ExecutionStop
  <1> QED
    BY <1>1 DEF Unexecuted, Stop, ModelStop, ExecutionStop

\* Nothing follows a terminal state.
LEMMA TerminalHasNoSuccessor ==
  ASSUME NEW s \in TERMINAL_STATES
  PROVE  ALLOWED_TRANSITIONS[s] = {}
  BY DEF ALLOWED_TRANSITIONS, TERMINAL_STATES, FailureState, RunState

-----------------------------------------------------------------------------
(* The projection decided from a row that is the one the request expects.  *)

LEMMA UpdatedFields ==
  ASSUME NEW r \in Row, NEW q \in Request,
         Matches(r, q), Accepts(r, q.target, q.context)
  PROVE  LET u == Updated(r, r, q) IN
         /\ u \in Row
         /\ u.state = q.target
         /\ u.version = r.version + 1
         /\ u.retries = r.retries /\ u.limit = r.limit
         /\ u.repairs = IF q.target = "REPAIRING" THEN 1 ELSE r.repairs
         /\ u.facts = FactsOf(q)
  <1> DEFINE n == NextSnapshot(r, q.target)
             u == Updated(r, r, q)
  <1>1. /\ q.target \in RunState /\ q.context \in Context
        /\ q.context.actor # "NONE"
    BY DEF Request
  <1>2. /\ n.state = q.target
        /\ n.retries = r.retries
        /\ n.repairs = IF q.target = "REPAIRING" THEN 1 ELSE r.repairs
    BY DEF NextSnapshot, Row
  <1>3. /\ q.context.actor \in ActorType
        /\ q.context.failure \in FailureCode \cup Unparsed
        /\ q.context.abstention \in AbstentionCode \cup Unparsed
        /\ q.context.cancellation \in CancellationCode \cup Unparsed
    BY <1>1 DEF Context
  <1>4. FactsOf(q) \in Facts
    <2>1. CASE q.target \notin TERMINAL_STATES
      BY <2>1 DEF FactsOf, NoFacts, Facts
    <2>2. CASE q.target \in TERMINAL_STATES
      <3>1. q.target \in FailureState => q.context.failure \in FailureCode
        BY DEF Accepts, MayFail, FailureState, FailurePrefix, FailureCode
      <3>2. q.target = "ABSTAINED" => q.context.abstention \in AbstentionCode
        BY DEF Accepts, MayAbstain
      <3>3. q.target = "CANCELLED" => q.context.cancellation \in CancellationCode
        BY DEF Accepts, MayCancel
      <3> QED
        BY <1>3, <2>2, <3>1, <3>2, <3>3 DEF FactsOf, Facts
    <2> QED
      BY <2>1, <2>2
  <1>5. /\ r.version + 1 \in Nat /\ r.retries \in Nat
        /\ (IF q.target = "REPAIRING" THEN 1 ELSE r.repairs) \in {0, 1}
    BY DEF Row
  <1> HIDE DEF n
  <1>6. u = [r EXCEPT !.state = n.state, !.repairs = n.repairs,
                      !.retries = n.retries, !.version = @ + 1, !.facts = FactsOf(q)]
    BY DEF Updated, n
  <1>7. /\ u.state = n.state /\ u.repairs = n.repairs /\ u.retries = n.retries
        /\ u.version = r.version + 1 /\ u.facts = FactsOf(q) /\ u.limit = r.limit
    BY <1>6 DEF Row
  <1>8. u \in Row
    BY <1>1, <1>2, <1>4, <1>5, <1>6 DEF Row
  <1> QED
    BY <1>2, <1>7, <1>8

\* The new row can be read back as a snapshot.
LEMMA UpdatedIsInterpretable ==
  ASSUME NEW r \in Row, NEW q \in Request, IsInterpretable(r),
         Matches(r, q), Accepts(r, q.target, q.context)
  PROVE  IsInterpretable(Updated(r, r, q))
  <1> DEFINE u == Updated(r, r, q)
             t == q.target
  <1>1. /\ u.state = t /\ u.retries = r.retries /\ u.limit = r.limit
        /\ u.repairs = IF t = "REPAIRING" THEN 1 ELSE r.repairs
        /\ u.facts = FactsOf(q)
    BY UpdatedFields
  <1>2. /\ t \in RunState /\ q.context.actor # "NONE" /\ r.state \in RunState
        /\ r.repairs \in {0, 1}
    BY DEF Request, Row
  <1>3. t \in ALLOWED_TRANSITIONS[r.state]
    BY DEF Accepts
  <1> HIDE DEF u
  <1>4. SnapshotIsValid(u)
    <2>1. t \in Unexecuted \cup {"FAILED_INPUT"} => r.repairs = 0
      BY <1>2, <1>3, TableKeepsUnexecuted
         DEF IsInterpretable, SnapshotIsValid, RepairCounterIsValid
    <2> QED
      BY <1>1, <2>1 DEF IsInterpretable, SnapshotIsValid, RepairCounterIsValid, Unexecuted
  <1>5. TerminalShapeIsValid(u)
    <2>1. CASE t \notin TERMINAL_STATES
      BY <1>1, <2>1 DEF TerminalShapeIsValid, FactsOf
    <2>2. CASE t \in TERMINAL_STATES
      <3>1. t \in FailureState => q.context.failure = FailurePrefix(t)
        BY DEF Accepts, MayFail
      <3>2. t = "ABSTAINED" => q.context.abstention # "NONE"
        BY DEF Accepts, MayAbstain, AbstentionCode
      <3>3. t = "CANCELLED" => q.context.cancellation # "NONE"
        BY DEF Accepts, MayCancel, CancellationCode
      <3> QED
        BY <1>1, <1>2, <2>2, <3>1, <3>2, <3>3 DEF TerminalShapeIsValid, FactsOf
    <2> QED
      BY <2>1, <2>2
  <1>6. u.state = "FAILED_INFRASTRUCTURE" => u.retries = u.limit
    BY <1>1 DEF Accepts, MayFail, FailureState
  <1>7. u.facts.abstention = "REPAIR_LIMIT_EXHAUSTED" => u.repairs = 1
    <2> SUFFICES ASSUME u.facts.abstention = "REPAIR_LIMIT_EXHAUSTED" PROVE u.repairs = 1
      OBVIOUS
    <2>1. t = "ABSTAINED" /\ q.context.abstention = "REPAIR_LIMIT_EXHAUSTED"
      <3>1. FactsOf(q).abstention =
               IF t = "ABSTAINED" THEN q.context.abstention ELSE "NONE"
        BY DEF FactsOf, NoFacts, TERMINAL_STATES, FailureState
      <3> QED
        BY <1>1, <3>1
    <2>2. r.repairs = 1
      BY <2>1 DEF Accepts, MayAbstain
    <2> QED
      BY <1>1, <2>1, <2>2
  <1> QED
    BY <1>4, <1>5, <1>6, <1>7 DEF IsInterpretable, u

\* The history with the event of the request leads to the new row.
LEMMA UpdatedFollows ==
  ASSUME NEW r \in Row, NEW log \in Seq(Event), NEW q \in Request, Follows(r, log),
         Matches(r, q), Accepts(r, q.target, q.context)
  PROVE  Follows(Updated(r, r, q), Append(log, EventOf(q)))
  <1> DEFINE u == Updated(r, r, q)
             e == EventOf(q)
             longer == Append(log, e)
             n == Len(log)
  <1>1. /\ u.state = q.target /\ u.version = r.version + 1
        /\ u.repairs = IF q.target = "REPAIRING" THEN 1 ELSE r.repairs
        /\ u.facts = FactsOf(q)
    BY UpdatedFields
  <1>2. /\ e.from = r.state /\ e.to = q.target /\ e.facts = FactsOf(q)
    BY DEF EventOf, Matches
  <1>3. /\ n \in Nat /\ Len(longer) = n + 1 /\ longer # << >>
        /\ DOMAIN longer = 1..(n + 1) /\ DOMAIN log = 1..n
        /\ longer[n + 1] = e
        /\ \A i \in 1..n : longer[i] = log[i]
    OBVIOUS
  <1>4. /\ r.version = n
        /\ r.state = Ledger!StateAfter(log, n)
        /\ r.repairs = 1 <=> \E i \in 1..n : log[i].to = "REPAIRING"
        /\ Ledger!IsLifecycle(log)
    BY <1>3 DEF Follows
  <1>5. /\ q.target \in ALLOWED_TRANSITIONS[r.state]
        /\ q.target = "REPAIRING" => r.repairs # 1
    BY DEF Accepts, MayRepair
  <1>6. r.repairs \in {0, 1}
    BY DEF Row
  <1> HIDE DEF u, e, longer, n
  <1>7. \A i \in 0..n : Ledger!StateAfter(longer, i) = Ledger!StateAfter(log, i)
    BY <1>3 DEF Ledger!StateAfter
  <1>8. Ledger!IsLifecycle(longer)
    <2>1. ASSUME NEW i \in 1..(n + 1)
          PROVE  /\ longer[i].from = Ledger!StateAfter(longer, i - 1)
                 /\ longer[i].to \in ALLOWED_TRANSITIONS[longer[i].from]
      <3>1. i - 1 \in 0..n
        BY <1>3
      <3>2. CASE i = n + 1
        BY <1>2, <1>3, <1>4, <1>5, <1>7, <3>1, <3>2
      <3>3. CASE i \in 1..n
        BY <1>3, <1>4, <1>7, <3>1, <3>3 DEF Ledger!IsLifecycle
      <3> QED
        BY <1>3, <3>2, <3>3
    <2>2. ASSUME NEW i \in 1..(n + 1), NEW j \in 1..(n + 1),
                 longer[i].to = "REPAIRING", longer[j].to = "REPAIRING"
          PROVE  i = j
      <3>1. CASE q.target = "REPAIRING"
        <4>1. \A k \in 1..n : longer[k].to # "REPAIRING"
          BY <1>3, <1>4, <1>5, <3>1
        <4> QED
          BY <1>3, <2>2, <4>1
      <3>2. CASE q.target # "REPAIRING"
        <4>1. i \in 1..n /\ j \in 1..n
          BY <1>2, <1>3, <2>2, <3>2
        <4> QED
          BY <1>3, <1>4, <2>2, <4>1 DEF Ledger!IsLifecycle
      <3> QED
        BY <3>1, <3>2
    <2> QED
      BY <1>3, <2>1, <2>2 DEF Ledger!IsLifecycle
  <1>9. u.repairs = 1 <=> \E i \in 1..(n + 1) : longer[i].to = "REPAIRING"
    BY <1>1, <1>2, <1>3, <1>4, <1>6
  <1>10. u.state = Ledger!StateAfter(longer, n + 1)
    BY <1>1, <1>2, <1>3 DEF Ledger!StateAfter
  <1> QED
    BY <1>1, <1>2, <1>3, <1>4, <1>8, <1>9, <1>10 DEF Follows, u, longer, e
-----------------------------------------------------------------------------
(* The inductive invariant.  Besides the properties it says how the open   *)
(* transaction relates to what is committed, and which request each event  *)
(* comes from.                                                             *)

\* Each event is of a request that expected the version before it.
EventsAreOfRequests ==
    \A i \in DOMAIN workEvents :
        \E q \in Requests : workEvents[i] = EventOf(q) /\ q.expectedVersion = i - 1

\* The transaction extends what is committed; without one they are equal.
WorkExtendsCommitted ==
    /\ Ledger!Extends(workEvents, events)
    /\ workRow.version = row.version => workRow = row /\ workEvents = events
    /\ lock = None => workRow = row /\ workEvents = events

AnswersAreRecorded ==
    /\ \A q \in reported : Ledger!Records(workEvents, q)
    /\ \A q \in acknowledged : Ledger!Records(events, q)

Inv == /\ TypeOK
       /\ ProjectionFollowsEvents
       /\ DurableRunIsInterpretable
       /\ VersionIdentifiesRow
       /\ Ledger!EventsAreDistinct(workEvents)
       /\ EventsAreOfRequests
       /\ WorkExtendsCommitted
       /\ AnswersAreRecorded

LEMMA InitInv == Init => Inv
  <1> SUFFICES ASSUME Init PROVE Inv
    OBVIOUS
  <1>1. PICK p \in Profiles :
          row = [state |-> "RECEIVED", repairs |-> 0, retries |-> 0, limit |-> p.limit,
                 kind |-> p.kind, reviewRequired |-> p.reviewRequired, version |-> 0,
                 attempt |-> 0, facts |-> NoFacts]
    BY DEF Init
  <1>2. /\ p.kind \in RequestKind /\ p.reviewRequired \in BOOLEAN /\ p.limit \in Nat
        /\ None \notin Session
    BY PersistenceAssumption
  <1>3. NoFacts \in Facts
    BY DEF NoFacts, Facts
  <1>4. row \in Row
    BY <1>1, <1>2, <1>3 DEF Row, RunState
  <1>5. /\ workRow = row /\ events = << >> /\ workEvents = << >>
        /\ reported = {} /\ acknowledged = {} /\ lock = None
        /\ cache = [s \in Session |-> {}]
    BY DEF Init
  <1>6. IsInterpretable(row)
    BY <1>1, <1>2, <1>3 DEF IsInterpretable, TerminalShapeIsValid, SnapshotIsValid,
       RepairCounterIsValid, TERMINAL_STATES, FailureState, NoFacts
  <1>7. Follows(row, << >>)
    BY <1>1 DEF Follows, Ledger!IsLifecycle, Ledger!StateAfter
  <1>8. TypeOK
    BY <1>4, <1>5 DEF TypeOK
  <1> QED
    BY <1>4, <1>5, <1>6, <1>7, <1>8
       DEF Inv, ProjectionFollowsEvents, DurableRunIsInterpretable, VersionIdentifiesRow,
       Ledger!EventsAreDistinct, EventsAreOfRequests, WorkExtendsCommitted, Ledger!Extends,
       AnswersAreRecorded

-----------------------------------------------------------------------------
(* What a session that may take the lock reads.                            *)

LEMMA InstanceFacts ==
  ASSUME Inv, NEW s \in Session, MayLock(s)
  PROVE  /\ Instance(s) \in Row
         /\ Instance(s).version = workRow.version => Instance(s) = workRow
  <1>1. workRow \in Row /\ cache[s] \subseteq Row
    BY DEF Inv, TypeOK
  <1>2. CASE cache[s] = {}
    BY <1>1, <1>2 DEF Instance
  <1>3. CASE cache[s] # {}
    <2>1. Instance(s) \in cache[s]
      BY <1>3 DEF Instance
    <2>2. lock # s => workRow = row
      BY DEF MayLock, Inv, WorkExtendsCommitted
    <2> QED
      BY <1>1, <2>1, <2>2 DEF Inv, VersionIdentifiesRow
  <1> QED
    BY <1>2, <1>3

\* The lengths of the histories are the versions of the rows.
LEMMA Versions ==
  ASSUME Inv
  PROVE  /\ row.version \in Nat /\ workRow.version \in Nat
         /\ Len(events) = row.version /\ Len(workEvents) = workRow.version
         /\ row.version <= workRow.version
         /\ DOMAIN events = 1..row.version /\ DOMAIN workEvents = 1..workRow.version
  <1>1. /\ row \in Row /\ workRow \in Row
        /\ events \in Seq(Event) /\ workEvents \in Seq(Event)
    BY DEF Inv, TypeOK
  <1>2. Len(events) = row.version /\ Len(workEvents) = workRow.version
    BY DEF Inv, ProjectionFollowsEvents, Follows
  <1>3. Len(workEvents) >= Len(events)
    BY DEF Inv, WorkExtendsCommitted, Ledger!Extends
  <1> QED
    BY <1>1, <1>2, <1>3 DEF Row

-----------------------------------------------------------------------------
(* The actions.                                                            *)

LEMMA LoadStep ==
  ASSUME Inv, NEW s \in Session, Load(s)
  PROVE  Inv'
  <1> DEFINE read == IF lock = s THEN workRow ELSE row
  <1>1. /\ cache' = [cache EXCEPT ![s] = {read}]
        /\ UNCHANGED <<row, events, lock, workRow, workEvents, reported, acknowledged>>
    BY DEF Load
  <1>2. read \in Row /\ cache \in [Session -> SUBSET Row]
    BY DEF Inv, TypeOK
  <1>3. cache' \in [Session -> SUBSET Row]
    BY <1>1, <1>2
  <1>4. read.version <= read.version
    BY <1>2 DEF Row
  <1>5. VersionIdentifiesRow'
    <2> SUFFICES ASSUME NEW z \in Session, NEW r \in cache'[z]
                 PROVE  LET current == IF lock = z THEN workRow ELSE row
                        IN  /\ r.version <= current.version
                            /\ r.version = current.version => r = current
      BY <1>1 DEF VersionIdentifiesRow
    <2>1. CASE z = s
      BY <1>1, <1>2, <1>4, <2>1
    <2>2. CASE z # s
      BY <1>1, <1>2, <2>2 DEF Inv, VersionIdentifiesRow
    <2> QED
      BY <2>1, <2>2
  <1> QED
    BY <1>1, <1>3, <1>5 DEF Inv, TypeOK, ProjectionFollowsEvents, Follows,
       DurableRunIsInterpretable, EventsAreOfRequests, WorkExtendsCommitted,
       AnswersAreRecorded, Ledger!EventsAreDistinct, Ledger!Extends, Ledger!Records

\* Letting instances go disturbs nothing.
LEMMA ForgetStep ==
  ASSUME Inv, NEW s \in Session, cache' = [cache EXCEPT ![s] = {}],
         UNCHANGED <<row, events, lock, workRow, workEvents, reported, acknowledged>>
  PROVE  Inv'
  <1>1. cache' \in [Session -> SUBSET Row]
    BY DEF Inv, TypeOK
  <1>2. \A z \in Session : cache'[z] \subseteq cache[z]
    BY DEF Inv, TypeOK
  <1>3. VersionIdentifiesRow'
    BY <1>2 DEF Inv, VersionIdentifiesRow
  <1> QED
    BY <1>1, <1>3 DEF Inv, TypeOK, ProjectionFollowsEvents, Follows,
       DurableRunIsInterpretable, EventsAreOfRequests, WorkExtendsCommitted,
       AnswersAreRecorded, Ledger!EventsAreDistinct, Ledger!Extends, Ledger!Records
LEMMA ApplyStep ==
  ASSUME Inv, NEW s \in Session, NEW q \in Requests, Apply(s, q)
  PROVE  Inv'
  <1> DEFINE n == workRow.version
             e == EventOf(q)
  <1>1. /\ MayLock(s) /\ lock' = s
        /\ Matches(Instance(s), q) /\ Accepts(Instance(s), q.target, q.context)
        /\ ~HasEvent(q) /\ Matches(workRow, q)
        /\ workEvents' = Append(workEvents, e)
        /\ workRow' = Updated(workRow, Instance(s), q)
        /\ cache' = [cache EXCEPT ![s] = IF @ = {} THEN {} ELSE {workRow'}]
        /\ reported' = reported \cup ({q} \ acknowledged)
        /\ row' = row /\ events' = events /\ acknowledged' = acknowledged
    BY DEF Apply, Hold, IsAppendable, IsDecided
  <1>2. Instance(s) = workRow
    BY <1>1, InstanceFacts DEF Matches
  <1>3. /\ workRow \in Row /\ row \in Row /\ q \in Request
        /\ workEvents \in Seq(Event) /\ events \in Seq(Event)
        /\ cache \in [Session -> SUBSET Row] /\ None \notin Session
        /\ Accepts(workRow, q.target, q.context)
    BY <1>1, <1>2, PersistenceAssumption DEF Inv, TypeOK
  <1>4. /\ workRow' \in Row /\ workRow'.version = n + 1
        /\ workRow'.facts = FactsOf(q)
    BY <1>1, <1>2, <1>3, UpdatedFields
  <1>5. FactsOf(q) \in Facts
    BY <1>4 DEF Row
  <1>6. e \in Event
    BY <1>3, <1>5 DEF EventOf, Event, Request
  <1>7. /\ n \in Nat /\ row.version \in Nat /\ row.version <= n
        /\ Len(workEvents) = n /\ Len(events) = row.version
        /\ DOMAIN workEvents = 1..n /\ DOMAIN events = 1..row.version
    BY Versions
  <1>8. /\ workEvents' \in Seq(Event) /\ Len(workEvents') = n + 1
        /\ DOMAIN workEvents' = 1..(n + 1)
        /\ workEvents'[n + 1] = e
        /\ \A i \in 1..n : workEvents'[i] = workEvents[i]
    BY <1>1, <1>3, <1>6, <1>7
  <1>9. e.event = q.event /\ e.fingerprint = q.fingerprint
    BY DEF EventOf
  <1> HIDE DEF e, n
  <1>10. TypeOK'
    <2>1. cache' \in [Session -> SUBSET Row]
      BY <1>1, <1>3, <1>4
    <2> QED
      BY <1>1, <1>3, <1>4, <1>8, <2>1 DEF Inv, TypeOK
  <1>11. ProjectionFollowsEvents'
    <2>1. Follows(workRow, workEvents) /\ Follows(row, events)
      BY DEF Inv, ProjectionFollowsEvents
    <2>2. Follows(workRow', workEvents')
      BY <1>1, <1>2, <1>3, <2>1, UpdatedFollows DEF e
    <2> QED
      BY <1>1, <2>1, <2>2 DEF ProjectionFollowsEvents
  <1>12. DurableRunIsInterpretable'
    BY <1>1, <1>2, <1>3, UpdatedIsInterpretable DEF Inv, DurableRunIsInterpretable
  <1>13. VersionIdentifiesRow'
    <2> SUFFICES ASSUME NEW z \in Session, NEW r \in cache'[z]
                 PROVE  LET current == IF lock' = z THEN workRow' ELSE row
                        IN  /\ r.version <= current.version
                            /\ r.version = current.version => r = current
      BY <1>1 DEF VersionIdentifiesRow
    <2>1. CASE z = s
      <3>1. r = workRow'
        BY <1>1, <1>3, <2>1
      <3> QED
        BY <1>1, <1>4, <1>7, <2>1, <3>1
    <2>2. CASE z # s
      <3>1. r \in cache[z] /\ lock # z
        BY <1>1, <1>3, <2>2 DEF MayLock
      <3> QED
        BY <1>1, <2>2, <3>1 DEF Inv, VersionIdentifiesRow
    <2> QED
      BY <2>1, <2>2
  <1>14. Ledger!EventsAreDistinct(workEvents')
    <2>1. \A i \in 1..n : workEvents'[i].event # e.event
      BY <1>1, <1>7, <1>8, <1>9 DEF HasEvent
    <2>2. \A i, j \in 1..n : workEvents'[i].event = workEvents'[j].event => i = j
      BY <1>7, <1>8 DEF Inv, Ledger!EventsAreDistinct
    <2>3. \A i \in 1..(n + 1) : i \in 1..n \/ i = n + 1
      BY <1>7 DEF n
    <2> QED
      BY <1>8, <2>1, <2>2, <2>3 DEF Ledger!EventsAreDistinct
  <1>15. EventsAreOfRequests'
    <2> SUFFICES ASSUME NEW i \in 1..(n + 1)
                 PROVE  \E x \in Requests :
                           workEvents'[i] = EventOf(x) /\ x.expectedVersion = i - 1
      BY <1>8 DEF EventsAreOfRequests
    <2>1. CASE i \in 1..n
      BY <1>7, <1>8, <2>1 DEF Inv, EventsAreOfRequests
    <2>2. CASE i = n + 1
      <3>1. q.expectedVersion = n
        BY <1>1 DEF Matches, n
      <3> QED
        BY <1>7, <1>8, <2>2, <3>1 DEF e, n
    <2> QED
      BY <1>7, <2>1, <2>2 DEF n
  <1>16. WorkExtendsCommitted'
    <2>1. \A i \in 1..row.version : workEvents[i] = events[i]
      BY <1>7 DEF Inv, WorkExtendsCommitted, Ledger!Extends
    <2>2. \A i \in 1..row.version : i \in 1..n
      BY <1>7 DEF n
    <2>3. Ledger!Extends(workEvents', events)
      BY <1>7, <1>8, <2>1, <2>2 DEF Ledger!Extends, n
    <2>4. workRow'.version # row.version
      BY <1>4, <1>7 DEF n
    <2> QED
      BY <1>1, <1>3, <2>3, <2>4 DEF WorkExtendsCommitted
  <1>17. AnswersAreRecorded'
    <2>1. \A x \in reported : Ledger!Records(workEvents', x)
      <3>1. \A i \in 1..n : i \in 1..(n + 1)
        BY <1>7 DEF n
      <3> QED
        BY <1>7, <1>8, <3>1 DEF Inv, AnswersAreRecorded, Ledger!Records
    <2>2. Ledger!Records(workEvents', q)
      <3>1. n + 1 \in 1..(n + 1)
        BY <1>7 DEF n
      <3> QED
        BY <1>8, <1>9, <3>1 DEF Ledger!Records
    <2> QED
      BY <1>1, <2>1, <2>2 DEF Inv, AnswersAreRecorded
  <1> QED
    BY <1>10, <1>11, <1>12, <1>13, <1>14, <1>15, <1>16, <1>17 DEF Inv

\* An answer that changes neither row nor events: it may take the lock, report
\* a request that is recorded, and lose an instance.
LEMMA AnswerStep ==
  ASSUME Inv, NEW s \in Session, MayLock(s), lock' \in {lock, s},
         cache' \in {cache, [cache EXCEPT ![s] = {}]},
         UNCHANGED <<row, events, workRow, workEvents, acknowledged>>,
         reported' \subseteq Requests,
         \A q \in reported' : Ledger!Records(workEvents, q)
  PROVE  Inv'
  <1>1. s # None /\ cache \in [Session -> SUBSET Row]
    BY PersistenceAssumption DEF Inv, TypeOK
  <1>2. cache' \in [Session -> SUBSET Row] /\ \A z \in Session : cache'[z] \subseteq cache[z]
    BY <1>1
  <1>3. TypeOK'
    BY <1>2 DEF Inv, TypeOK
  <1>4. lock # s => workRow = row /\ workEvents = events
    BY DEF MayLock, Inv, WorkExtendsCommitted
  <1>5. WorkExtendsCommitted'
    BY <1>1, <1>4 DEF Inv, WorkExtendsCommitted, Ledger!Extends
  <1>6. VersionIdentifiesRow'
    <2> SUFFICES ASSUME NEW z \in Session, NEW r \in cache[z]
                 PROVE  LET current == IF lock' = z THEN workRow ELSE row
                        IN  /\ r.version <= current.version
                            /\ r.version = current.version => r = current
      BY <1>2 DEF VersionIdentifiesRow
    <2>1. (IF lock' = z THEN workRow ELSE row) = (IF lock = z THEN workRow ELSE row)
      BY <1>1, <1>4 DEF MayLock
    <2> QED
      BY <2>1 DEF Inv, VersionIdentifiesRow
  <1> QED
    BY <1>3, <1>5, <1>6 DEF Inv, ProjectionFollowsEvents, Follows,
       DurableRunIsInterpretable, EventsAreOfRequests, AnswersAreRecorded,
       Ledger!EventsAreDistinct, Ledger!Records

LEMMA ReplayStep ==
  ASSUME Inv, NEW s \in Session, NEW q \in Requests, Replay(s, q)
  PROVE  Inv'
  <1>1. /\ MayLock(s) /\ lock' = s /\ HasSameEvent(q)
        /\ reported' = reported \cup ({q} \ acknowledged)
        /\ UNCHANGED <<row, events, workRow, workEvents, cache, acknowledged>>
    BY DEF Replay, Hold, IsReplay
  <1>2. Ledger!Records(workEvents, q)
    BY <1>1 DEF HasSameEvent, Ledger!Records
  <1> QED
    BY <1>1, <1>2, AnswerStep DEF Inv, TypeOK, AnswersAreRecorded
LEMMA LoseSwapStep ==
  ASSUME Inv, NEW s \in Session, NEW q \in Requests, LoseSwap(s, q)
  PROVE  Inv'
  BY AnswerStep DEF LoseSwap, Inv, TypeOK, AnswersAreRecorded

LEMMA RefuseStep ==
  ASSUME Inv, NEW s \in Session, NEW q \in Requests, Refuse(s, q)
  PROVE  Inv'
  BY AnswerStep DEF Refuse, Inv, TypeOK, AnswersAreRecorded

LEMMA CommitStep ==
  ASSUME Inv, NEW s \in Session, Commit(s)
  PROVE  Inv'
  <1>1. /\ lock = s /\ lock' = None /\ reported' = {}
        /\ row' = workRow /\ events' = workEvents
        /\ acknowledged' = acknowledged \cup reported
        /\ UNCHANGED <<workRow, workEvents, cache>>
    BY DEF Commit, Release
  <1>2. None \notin Session
    BY PersistenceAssumption
  <1>3. TypeOK'
    BY <1>1 DEF Inv, TypeOK
  <1>4. /\ row.version \in Nat /\ workRow.version \in Nat
        /\ row.version <= workRow.version
        /\ DOMAIN events = 1..row.version /\ DOMAIN workEvents = 1..workRow.version
        /\ Len(workEvents) = workRow.version
    BY Versions
  <1>5. VersionIdentifiesRow'
    <2> SUFFICES ASSUME NEW z \in Session, NEW r \in cache[z]
                 PROVE  /\ r.version <= workRow.version
                        /\ r.version = workRow.version => r = workRow
      BY <1>1, <1>2 DEF VersionIdentifiesRow
    <2>1. r.version \in Nat
      BY DEF Inv, TypeOK, Row
    <2>2. CASE z = s
      BY <1>1, <2>2 DEF Inv, VersionIdentifiesRow
    <2>3. CASE z # s
      <3>1. r.version <= row.version /\ (r.version = row.version => r = row)
        BY <1>1, <2>3 DEF Inv, VersionIdentifiesRow
      <3>2. workRow.version = row.version => workRow = row
        BY DEF Inv, WorkExtendsCommitted
      <3> QED
        BY <1>4, <2>1, <3>1, <3>2
    <2> QED
      BY <2>2, <2>3
  <1>6. WorkExtendsCommitted'
    BY <1>1, <1>4 DEF WorkExtendsCommitted, Ledger!Extends
  <1>7. AnswersAreRecorded'
    <2>1. \A i \in DOMAIN events : i \in DOMAIN workEvents /\ workEvents[i] = events[i]
      BY <1>4 DEF Inv, WorkExtendsCommitted, Ledger!Extends
    <2>2. \A q \in acknowledged : Ledger!Records(workEvents, q)
      BY <2>1 DEF Inv, AnswersAreRecorded, Ledger!Records
    <2> QED
      BY <1>1, <2>2 DEF Inv, AnswersAreRecorded
  <1> QED
    BY <1>1, <1>3, <1>5, <1>6, <1>7 DEF Inv, ProjectionFollowsEvents, Follows,
       DurableRunIsInterpretable, EventsAreOfRequests, Ledger!EventsAreDistinct

LEMMA RollbackStep ==
  ASSUME Inv, NEW s \in Session, Rollback(s)
  PROVE  Inv'
  <1>1. /\ lock = s /\ lock' = None /\ reported' = {}
        /\ workRow' = row /\ workEvents' = events
        /\ cache' = [cache EXCEPT ![s] = {}]
        /\ UNCHANGED <<row, events, acknowledged>>
    BY DEF Rollback, Release
  <1>2. None \notin Session /\ cache \in [Session -> SUBSET Row]
    BY PersistenceAssumption DEF Inv, TypeOK
  <1>3. cache' \in [Session -> SUBSET Row]
    BY <1>1, <1>2
  <1>4. TypeOK'
    BY <1>1, <1>3 DEF Inv, TypeOK
  <1>5. /\ row.version \in Nat /\ Len(events) = row.version
        /\ row.version <= workRow.version /\ workRow.version \in Nat
        /\ DOMAIN events = 1..row.version /\ DOMAIN workEvents = 1..workRow.version
    BY Versions
  <1>6. \A i \in DOMAIN events : i \in DOMAIN workEvents /\ events[i] = workEvents[i]
    BY <1>5 DEF Inv, WorkExtendsCommitted, Ledger!Extends
  <1>7. VersionIdentifiesRow'
    <2> SUFFICES ASSUME NEW z \in Session, NEW r \in cache'[z]
                 PROVE  /\ r.version <= row.version
                        /\ r.version = row.version => r = row
      BY <1>1, <1>2 DEF VersionIdentifiesRow
    <2>1. z # s /\ r \in cache[z]
      BY <1>1, <1>2
    <2> QED
      BY <1>1, <2>1 DEF Inv, VersionIdentifiesRow
  <1>8. WorkExtendsCommitted'
    BY <1>1, <1>5 DEF WorkExtendsCommitted, Ledger!Extends
  <1>9. Ledger!EventsAreDistinct(events) /\ EventsAreOfRequests'
    BY <1>1, <1>6 DEF Inv, Ledger!EventsAreDistinct, EventsAreOfRequests
  <1> QED
    BY <1>1, <1>4, <1>7, <1>8, <1>9 DEF Inv, ProjectionFollowsEvents, Follows,
       DurableRunIsInterpretable, AnswersAreRecorded, Ledger!EventsAreDistinct

LEMMA StepInv == Inv /\ [Next]_vars => Inv'
  <1> SUFFICES ASSUME Inv, [Next]_vars PROVE Inv'
    OBVIOUS
  <1>1. CASE UNCHANGED vars
    BY <1>1 DEF vars, Inv, TypeOK, ProjectionFollowsEvents, Follows,
       DurableRunIsInterpretable, VersionIdentifiesRow, EventsAreOfRequests,
       WorkExtendsCommitted, AnswersAreRecorded, Ledger!EventsAreDistinct,
       Ledger!Extends, Ledger!Records
  <1>2. ASSUME NEW s \in Session, Forget(s) PROVE Inv'
    BY <1>2, ForgetStep DEF Forget
  <1>3. ASSUME NEW s \in Session, Load(s) \/ Commit(s) \/ Rollback(s) PROVE Inv'
    BY <1>3, LoadStep, CommitStep, RollbackStep
  <1>4. ASSUME NEW s \in Session, NEW q \in Requests,
               Apply(s, q) \/ LoseSwap(s, q) \/ Replay(s, q) \/ Refuse(s, q)
        PROVE  Inv'
    BY <1>4, ApplyStep, LoseSwapStep, ReplayStep, RefuseStep
  <1> QED
    BY <1>1, <1>2, <1>3, <1>4 DEF Next

LEMMA Invariance == Spec => []Inv
  BY InitInv, StepInv, PTL DEF Spec

-----------------------------------------------------------------------------
(* The theorems.                                                           *)

\* The projection never drifts from the committed history of the run.
THEOREM ProjectionCorrect == Spec => []ProjectionFollowsEvents
  <1>1. Inv => ProjectionFollowsEvents
    BY DEF Inv
  <1> QED
    BY Invariance, <1>1, PTL

\* Whatever is persisted can be read back as a lifecycle snapshot.
THEOREM DurableRunCorrect == Spec => []DurableRunIsInterpretable
  <1>1. Inv => DurableRunIsInterpretable
    BY DEF Inv
  <1> QED
    BY Invariance, <1>1, PTL

\* An instance with the version of the row is the row, however stale it is.
THEOREM VersionCorrect == Spec => []VersionIdentifiesRow
  <1>1. Inv => VersionIdentifiesRow
    BY DEF Inv
  <1> QED
    BY Invariance, <1>1, PTL

\* At most one request per version of the run is ever acknowledged.
THEOREM OneWinner == Spec => []OneWinnerPerVersion
  <1>1. Inv => OneWinnerPerVersion
    <2> SUFFICES ASSUME Inv, NEW q \in acknowledged, NEW r \in acknowledged,
                        q.expectedVersion = r.expectedVersion
                 PROVE  q = r
      BY DEF OneWinnerPerVersion
    <2>1. \A x \in acknowledged :
             \E i \in DOMAIN events : x.expectedVersion = i - 1 /\ events[i].event = x.event
                                     /\ events[i].fingerprint = x.fingerprint
      <3> SUFFICES ASSUME NEW x \in acknowledged
                   PROVE  \E i \in DOMAIN events :
                             /\ x.expectedVersion = i - 1
                             /\ events[i].event = x.event
                             /\ events[i].fingerprint = x.fingerprint
        OBVIOUS
      <3>1. PICK i \in DOMAIN events :
               events[i].event = x.event /\ events[i].fingerprint = x.fingerprint
        BY DEF Inv, AnswersAreRecorded, Ledger!Records
      <3>2. i \in DOMAIN workEvents /\ workEvents[i] = events[i]
        BY Versions DEF Inv, WorkExtendsCommitted, Ledger!Extends
      <3>3. PICK y \in Requests : events[i] = EventOf(y) /\ y.expectedVersion = i - 1
        BY <3>2 DEF Inv, EventsAreOfRequests
      <3>4. y.event = x.event /\ y.fingerprint = x.fingerprint
        BY <3>1, <3>3 DEF EventOf
      <3>5. x \in Requests
        BY DEF Inv, TypeOK
      <3>6. x = y
        BY <3>4, <3>5, PersistenceAssumption
      <3> QED
        BY <3>1, <3>3, <3>6
    <2>2. PICK i \in DOMAIN events :
             /\ q.expectedVersion = i - 1
             /\ events[i].event = q.event /\ events[i].fingerprint = q.fingerprint
      BY <2>1
    <2>3. PICK j \in DOMAIN events :
             /\ r.expectedVersion = j - 1
             /\ events[j].event = r.event /\ events[j].fingerprint = r.fingerprint
      BY <2>1
    <2>4. i = j
      <3>1. i \in 1..row.version /\ j \in 1..row.version
        BY <2>2, <2>3, Versions
      <3>2. i - 1 = j - 1
        BY <2>2, <2>3
      <3> QED
        BY <3>1, <3>2, Versions
    <2> QED
      BY <2>2, <2>3, <2>4, PersistenceAssumption DEF Inv, TypeOK
  <1> QED
    BY Invariance, <1>1, PTL

\* Every step of the sessions is a step of the ledger, or leaves it alone.
LEMMA StepSettles == Inv /\ Inv' /\ [Next]_vars => [Ledger!Settle]_<<events, acknowledged>>
  <1> SUFFICES ASSUME Inv, Inv', [Next]_vars, ~UNCHANGED <<events, acknowledged>>
               PROVE  Ledger!Settle
    OBVIOUS
  <1>1. PICK s \in Session : Commit(s)
    BY DEF Next, vars, Load, Forget, Apply, LoseSwap, Replay, Refuse, Rollback
  <1>2. /\ events' = workEvents /\ acknowledged' = acknowledged \cup reported
    BY <1>1 DEF Commit
  <1>3. Ledger!Extends(events', events)
    BY <1>2 DEF Inv, WorkExtendsCommitted
  <1>4. Ledger!IsLifecycle(events') /\ Ledger!EventsAreDistinct(events')
    BY <1>2 DEF Inv, ProjectionFollowsEvents, Follows
  <1>5. acknowledged \subseteq acknowledged' /\ acknowledged' \subseteq Requests
    BY <1>2 DEF Inv, TypeOK
  <1>6. \A q \in acknowledged' : Ledger!Records(events', q)
    BY DEF Inv, AnswersAreRecorded, Ledger!Records
  <1>7. Ledger!StateAfter(events, Len(events)) \in TERMINAL_STATES => events' = events
    <2> DEFINE n == row.version
    <2> SUFFICES ASSUME Ledger!StateAfter(events, n) \in TERMINAL_STATES
                 PROVE  workEvents = events
      BY <1>2, Versions
    <2>1. /\ n \in Nat /\ workRow.version \in Nat /\ n <= workRow.version
          /\ DOMAIN events = 1..n /\ DOMAIN workEvents = 1..workRow.version
      BY Versions
    <2>2. Ledger!StateAfter(workEvents, n) = Ledger!StateAfter(events, n)
      BY <2>1 DEF Inv, WorkExtendsCommitted, Ledger!Extends, Ledger!StateAfter
    <2> HIDE DEF n
    <2>3. ASSUME n < workRow.version PROVE FALSE
      <3>1. n + 1 \in DOMAIN workEvents /\ (n + 1) - 1 = n
        BY <2>1, <2>3
      <3>2. /\ workEvents[n + 1].from = Ledger!StateAfter(workEvents, n)
            /\ workEvents[n + 1].to \in ALLOWED_TRANSITIONS[workEvents[n + 1].from]
        BY <3>1 DEF Inv, ProjectionFollowsEvents, Follows, Ledger!IsLifecycle
      <3> QED
        BY <2>2, <3>2, TerminalHasNoSuccessor
    <2>4. n = workRow.version
      BY <2>1, <2>3
    <2> QED
      BY <2>4 DEF Inv, WorkExtendsCommitted, n
  <1> QED
    BY <1>3, <1>4, <1>5, <1>6, <1>7 DEF Ledger!Settle

\* The sessions implement the ledger.
THEOREM LedgerImplemented == Spec => ImplementsRunLedger
  <1>1. Init => Ledger!Init
    BY DEF Init, Ledger!Init
  <1> QED
    BY Invariance, <1>1, StepSettles, PTL DEF Spec, ImplementsRunLedger, Ledger!Spec

-----------------------------------------------------------------------------
(* What the database checks.                                               *)

\* The two tables, written separately, one by source and one by target, agree.
LEMMA TablesAgree ==
  ASSUME NEW from \in RunState, NEW to \in RunState
  PROVE  to \in ALLOWED_TRANSITIONS[from] <=> <<from, to>> \in StoredTransitions
  BY DEF ALLOWED_TRANSITIONS, StoredTransitions, RunState, Stop, ModelStop, ExecutionStop

\* The reasons of an accepted request are those its target has.
LEMMA ReasonsOfRequest ==
  ASSUME NEW r, NEW q \in Request, Accepts(r, q.target, q.context)
  PROVE  ReasonMatches(FactsOf(q), q.target)
  <1>1. CASE q.target \notin TERMINAL_STATES
    BY <1>1 DEF FactsOf, NoFacts, ReasonMatches, TERMINAL_STATES
  <1>2. CASE q.target \in TERMINAL_STATES
    BY <1>2 DEF FactsOf, ReasonMatches, Accepts, MayFail, MayAbstain, MayCancel
  <1> QED
    BY <1>1, <1>2

\* Every event of the open transaction gives the reasons its target has.
ReasonsInv ==
    \A i \in DOMAIN workEvents : ReasonMatches(workEvents[i].facts, workEvents[i].to)

LEMMA ReasonsStep == Inv /\ ReasonsInv /\ [Next]_vars => ReasonsInv'
  <1> SUFFICES ASSUME Inv, ReasonsInv, [Next]_vars PROVE ReasonsInv'
    OBVIOUS
  <1>1. CASE workEvents' = workEvents
    BY <1>1 DEF ReasonsInv
  <1>2. ASSUME NEW s \in Session, NEW q \in Requests, Apply(s, q)
        PROVE  ReasonsInv'
    <2> DEFINE e == EventOf(q)
    <2>1. /\ MayLock(s) /\ Accepts(Instance(s), q.target, q.context)
          /\ workEvents' = Append(workEvents, e)
      BY <1>2 DEF Apply, Hold, IsAppendable, IsDecided
    <2>2. q \in Request /\ workEvents \in Seq(Event)
      BY PersistenceAssumption DEF Inv, TypeOK
    <2>3. e.facts = FactsOf(q) /\ e.to = q.target
      BY DEF EventOf
    <2>4. ReasonMatches(e.facts, e.to)
      BY <2>1, <2>2, <2>3, ReasonsOfRequest
    <2> HIDE DEF e
    <2>5. /\ Len(workEvents) \in Nat /\ DOMAIN workEvents' = 1 .. Len(workEvents) + 1
          /\ workEvents'[Len(workEvents) + 1] = e
          /\ \A i \in DOMAIN workEvents : workEvents'[i] = workEvents[i]
          /\ DOMAIN workEvents = 1 .. Len(workEvents)
      BY <2>1, <2>2
    <2> QED
      BY <2>4, <2>5 DEF ReasonsInv
  <1>3. ASSUME NEW s \in Session, Rollback(s)
        PROVE  ReasonsInv'
    <2>1. workEvents' = events
      BY <1>3 DEF Rollback
    <2>2. Ledger!Extends(workEvents, events)
      BY DEF Inv, WorkExtendsCommitted
    <2>3. workEvents \in Seq(Event) /\ events \in Seq(Event)
      BY DEF Inv, TypeOK
    <2>4. \A i \in DOMAIN events : i \in DOMAIN workEvents /\ workEvents[i] = events[i]
      BY <2>2, <2>3 DEF Ledger!Extends
    <2> QED
      BY <2>1, <2>4 DEF ReasonsInv
  <1> QED
    BY <1>1, <1>2, <1>3 DEF Next, vars, Load, Forget, Commit, LoseSwap, Replay, Refuse

\* The schema refuses nothing that the engine decides: its transition table is
\* the engine's, and rows and events have the reasons their states demand.
THEOREM SchemaAgrees == Spec => []ConstraintsNeverFire
  <1>1. Init => ReasonsInv
    BY DEF Init, ReasonsInv
  <1>2. Inv /\ ReasonsInv => ConstraintsNeverFire
    <2> SUFFICES ASSUME Inv, ReasonsInv PROVE ConstraintsNeverFire
      OBVIOUS
    <2>1. workRow \in Row /\ IsInterpretable(workRow)
      BY DEF Inv, TypeOK, DurableRunIsInterpretable
    <2>2. RunIsStorable(workRow)
      <3>1. /\ workRow.repairs \in {0, 1} /\ workRow.retries <= workRow.limit
            /\ workRow.facts \in Facts /\ TerminalShapeIsValid(workRow)
        BY <2>1 DEF Row, IsInterpretable, SnapshotIsValid
      <3>2. workRow.repairs \in 0 .. 1
        BY <3>1
      <3>3. ReasonMatches(workRow.facts, workRow.state)
        BY <3>1 DEF TerminalShapeIsValid, ReasonMatches, Facts, NoFacts, TERMINAL_STATES
      <3>4. workRow.facts.terminalActor # "NONE" <=> workRow.state \in TERMINAL_STATES
        BY <3>1 DEF TerminalShapeIsValid, NoFacts
      <3> QED
        BY <3>1, <3>2, <3>3, <3>4 DEF RunIsStorable
    <2>3. ASSUME NEW i \in DOMAIN workEvents PROVE EventIsStorable(workEvents[i])
      <3>1. workEvents[i] \in Event
        BY DEF Inv, TypeOK
      <3>2. workEvents[i].from \in RunState /\ workEvents[i].to \in RunState
        BY <3>1 DEF Event
      <3>3. workEvents[i].to \in ALLOWED_TRANSITIONS[workEvents[i].from]
        BY DEF Inv, ProjectionFollowsEvents, Follows, Ledger!IsLifecycle
      <3> QED
        BY <3>2, <3>3, TablesAgree DEF EventIsStorable, ReasonsInv
    <2> QED
      BY <2>2, <2>3, TablesAgree DEF ConstraintsNeverFire
  <1> QED
    BY Invariance, <1>1, ReasonsStep, <1>2, PTL DEF Spec
=============================================================================
