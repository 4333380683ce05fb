---------------------------- MODULE QueueAdapter ----------------------------
(***************************************************************************)
(* The deterministic Queue adapter (apps/api/app/queue/adapter.py): stable *)
(* publication identities, provider deliveries, fenced claims, accepted    *)
(* results, acknowledgement, failure classification, dead letters and      *)
(* authorised redrive.                                                     *)
(*                                                                         *)
(* Every public method that can change state is one action (or one action  *)
(* per outcome).  A call the adapter refuses without changing state is the *)
(* action being disabled; a refusal that does change state (a conflicting  *)
(* result) is an action of its own.  A Python dict is a function whose     *)
(* DOMAIN is the set of present keys, and Put is item assignment.          *)
(***************************************************************************)
EXTENDS Naturals, Sequences, FiniteSets

CONSTANTS
    Request,         \* SemanticRequestId values
    Message,         \* QueueMessageId values
    Publication,     \* PublicationIdentity values
    Attempt,         \* WorkflowAttemptId values
    Worker,          \* WorkerServiceReference values
    Result,          \* ProducerResultId values
    Phase,           \* result_phase_or_slot_reference values
    Reference,       \* result_reference values
    Envelopes,       \* inputs: the envelopes producers may publish
    Outcomes,        \* inputs: the publication outcomes a provider may report
    Withdrawn,       \* inputs: the control states other than ACTIVE that are set
    Failures,        \* inputs: the counted failure classes workers report
    MaxTransportAttempts,  \* RetryPolicy.max_transport_attempts
    MaxPoisonAttempts,     \* RetryPolicy.max_poison_attempts
    MaxRedrives,           \* RetryPolicy.max_redrives
    MaxDeliveries,   \* bound of the model: deliveries ever created
    MaxClaims        \* bound of the model: claims ever granted

EnvelopeRecord ==
    [message: Message, request: Request, publication: Publication, attempt: Attempt]

-----------------------------------------------------------------------------
(* Enumerations and records of queue/models.py.                            *)

PublicationState ==
    {"NOT_ATTEMPTED", "REJECTED_BEFORE_ACCEPTANCE", "CONFIRMED_FAILURE",
     "RESULT_UNCERTAIN", "CONFIRMED_SUCCESS", "CONFIRMED_DUPLICATE_REQUEST"}
PublicationFailure == {"REJECTED_BEFORE_ACCEPTANCE", "CONFIRMED_FAILURE"}
PublicationConfirmed == {"CONFIRMED_SUCCESS", "CONFIRMED_DUPLICATE_REQUEST"}

ClaimState ==
    {"CURRENT", "REPLACED", "REVOKED", "RENEWAL_UNCERTAIN", "CONFIRMED_LEASE_LOST"}
LiveClaimState == {"CURRENT", "RENEWAL_UNCERTAIN"}

ControlState == {"ACTIVE", "CANCELLED", "REVOKED", "DELETED", "SUPERSEDED"}

CountedFailure == {"TRANSPORT_RETRYABLE", "POISON"}

\* RetryPolicy.__post_init__ demands positive limits.
ASSUME QueueAssumption ==
    /\ Envelopes \subseteq EnvelopeRecord
    /\ Outcomes \subseteq PublicationState
    /\ Withdrawn \subseteq ControlState
    /\ Failures \subseteq CountedFailure
    /\ MaxTransportAttempts \in Nat \ {0}
    /\ MaxPoisonAttempts \in Nat \ {0}
    /\ MaxRedrives \in Nat \ {0}
    /\ MaxDeliveries \in Nat
    /\ MaxClaims \in Nat

DeliveryId == 1..MaxDeliveries
ClaimId    == 1..MaxClaims

PublicationRecord == [request: Request, message: Message, state: PublicationState]
DeliveryRecord ==
    [message: Message, request: Request, attempt: Attempt, redeliveryNumber: Nat]
ClaimRecord == [delivery: DeliveryId, worker: Worker, fence: Nat, state: ClaimState]
Binding ==
    [result: Result, request: Request, message: Message, attempt: Attempt,
     phase: Phase, reference: Reference]
Slot == [request: Request, message: Message, attempt: Attempt, phase: Phase]
Submission == [claim: ClaimId, delivery: DeliveryId, worker: Worker, fence: Nat]
DeadLetter == [delivery: DeliveryId, classification: CountedFailure]
RedriveRecord == [source: DeliveryId, classification: CountedFailure]

-----------------------------------------------------------------------------
VARIABLES
    messages, publications, publicationHistory,        \* publication
    deliveries, deliverySequence,                      \* delivery
    claims, currentClaim, claimSequence, fenceSequence,\* claims and fences
    controls, securityRejectedRequests,                \* request-wide controls
    acceptedResults, resultSlots, resultSubmissions,   \* results
    conflictedMessages, acknowledged,                  \* acknowledgement
    failureCounts, deadLetters, redriveCounts, redrives\* retry and redrive

publicationVars == <<messages, publications, publicationHistory>>
deliveryVars    == <<deliveries, deliverySequence>>
claimVars       == <<claims, currentClaim, claimSequence, fenceSequence>>
controlVars     == <<controls, securityRejectedRequests>>
resultVars      == <<acceptedResults, resultSlots, resultSubmissions>>
ackVars         == <<conflictedMessages, acknowledged>>
retryVars       == <<failureCounts, deadLetters, redriveCounts, redrives>>
vars == <<publicationVars, deliveryVars, claimVars, controlVars, resultVars,
          ackVars, retryVars>>

-----------------------------------------------------------------------------
(* Dictionaries.                                                           *)

Put(d, k, v) == [x \in DOMAIN d \cup {k} |-> IF x = k THEN v ELSE d[x]]
Get(d, k, default) == IF k \in DOMAIN d THEN d[k] ELSE default
Empty == [x \in {} |-> x]
IsDict(d, K, V) == /\ DOMAIN d \subseteq K
                   /\ \A k \in DOMAIN d : d[k] \in V

(* Helper state formulae.                                                  *)

DeliveriesOf(m) == {d \in DOMAIN deliveries : deliveries[d].message = m}
RequestOf(d)    == deliveries[d].request
PublicationOf(m) == publications[messages[m].publication]
IsActive(r)     == controls[r] = "ACTIVE"

DeadLettered == {deadLetters[i].delivery : i \in DOMAIN deadLetters}
DeadLettersOf(m) ==
    {i \in DOMAIN deadLetters : deliveries[deadLetters[i].delivery].message = m}

\* _dead_letter_for_message: i is the most recently inserted record of m.
IsLatestDeadLetter(i, m) ==
    i \in DeadLettersOf(m) /\ \A j \in DeadLettersOf(m) : j <= i

\* Fault: the control state of the request is forgotten.
CanProcessControlled(d) ==
    RequestOf(d) \notin securityRejectedRequests /\ d \notin DeadLettered \cup acknowledged

CanProcess(d) ==
    /\ RequestOf(d) \notin securityRejectedRequests
    /\ d \notin DeadLettered
    /\ d \notin acknowledged
    /\ IsActive(RequestOf(d))

\* Fault: the delivery is checked, the fence is not.
EffectWithoutFence(c) == CanProcess(claims[c].delivery)

CanProduceProtectedEffect(c) ==
    LET d == claims[c].delivery
    IN  /\ claims[c].state = "CURRENT"
        /\ Get(currentClaim, deliveries[d].message, 0) = c
        /\ d \notin DeadLettered
        /\ d \notin acknowledged
        /\ RequestOf(d) \notin securityRejectedRequests
        /\ IsActive(RequestOf(d))

SlotOf(b) == [request |-> b.request, message |-> b.message,
              attempt |-> b.attempt, phase |-> b.phase]

\* Fault: a claim whose renewal is uncertain keeps its lease.
RevokeCurrent(C) ==
    [c \in DOMAIN claims |->
        IF c \in C /\ claims[c].state = "CURRENT"
        THEN [claims[c] EXCEPT !.state = "REVOKED"]
        ELSE claims[c]]

\* Every live claim in C becomes REVOKED, the others keep their state.
Revoke(C) ==
    [c \in DOMAIN claims |->
        IF c \in C /\ claims[c].state \in LiveClaimState
        THEN [claims[c] EXCEPT !.state = "REVOKED"]
        ELSE claims[c]]

-----------------------------------------------------------------------------
Init ==
    /\ messages = Empty /\ publications = Empty /\ publicationHistory = Empty
    /\ deliveries = Empty /\ deliverySequence = 0
    /\ claims = Empty /\ currentClaim = Empty
    /\ claimSequence = 0 /\ fenceSequence = 0
    /\ controls = [r \in Request |-> "ACTIVE"]
    /\ securityRejectedRequests = {}
    /\ acceptedResults = Empty /\ resultSlots = Empty /\ resultSubmissions = Empty
    /\ conflictedMessages = {} /\ acknowledged = {}
    /\ failureCounts = [k \in DeliveryId \X CountedFailure |-> 0]
    /\ deadLetters = <<>>
    /\ redriveCounts = [m \in Message |-> 0]
    /\ redrives = Empty

-----------------------------------------------------------------------------
(* Publication.                                                            *)

\* The replay and conflict checks of publish.
MayPublish(e) ==
    /\ e.message \in DOMAIN messages => messages[e.message] = e
    /\ e.publication \notin DOMAIN publications

\* publish of an envelope that carries no claim.  (One that names a claim is
\* always refused: its message already holds an envelope without the claim.)
Publish(e) ==
    /\ MayPublish(e)
    /\ messages' = Put(messages, e.message, e)
    /\ publications' =
          Put(publications, e.publication,
              [request |-> e.request, message |-> e.message, state |-> "NOT_ATTEMPTED"])
    /\ publicationHistory' = Put(publicationHistory, e.publication, <<>>)
    /\ UNCHANGED <<deliveryVars, claimVars, controlVars, resultVars, ackVars, retryVars>>

MayRecordOutcome(p, s) ==
    /\ s # "NOT_ATTEMPTED"
    /\ s \in PublicationFailure => DeliveriesOf(publications[p].message) = {}
    /\ publications[p].state \in {"NOT_ATTEMPTED", "RESULT_UNCERTAIN", s}

RecordPublicationOutcome(p, s) ==
    LET current == publications[p]
        history == publicationHistory[p]
    IN  /\ MayRecordOutcome(p, s)
        /\ publications' = Put(publications, p, [current EXCEPT !.state = s])
        /\ publicationHistory' =
              IF \E i \in DOMAIN history : history[i] = s
              THEN publicationHistory
              ELSE Put(publicationHistory, p, Append(history, s))
        /\ UNCHANGED <<messages, deliveryVars, claimVars, controlVars, resultVars,
                       ackVars, retryVars>>

-----------------------------------------------------------------------------
(* Delivery.                                                               *)

MayCreateDelivery(m, isRedrive) ==
    /\ messages[m].request \notin securityRejectedRequests
    /\ isRedrive \/ DeadLettersOf(m) = {}

\* _create_delivery, shared by deliver, record_provider_delivery_occurrence,
\* redeliver and redrive.
CreateDelivery(m, isRedrive) ==
    LET e == messages[m]
    IN  /\ MayCreateDelivery(m, isRedrive)
        /\ deliverySequence < MaxDeliveries
        /\ deliverySequence' = deliverySequence + 1
        /\ deliveries' =
              Put(deliveries, deliverySequence + 1,
                  [message |-> m, request |-> e.request, attempt |-> e.attempt,
                   redeliveryNumber |-> Cardinality(DeliveriesOf(m))])
        /\ UNCHANGED <<publicationVars, claimVars, controlVars, resultVars, ackVars>>

Deliver(m) ==
    /\ PublicationOf(m).state \in PublicationConfirmed
    /\ CreateDelivery(m, FALSE)
    /\ UNCHANGED retryVars

RecordProviderDeliveryOccurrence(m) ==
    /\ PublicationOf(m).state \in PublicationConfirmed \cup {"RESULT_UNCERTAIN"}
    /\ CreateDelivery(m, FALSE)
    /\ UNCHANGED retryVars

\* redeliver does not look at the publication again.
Redeliver(d) ==
    /\ CreateDelivery(deliveries[d].message, FALSE)
    /\ UNCHANGED retryVars

-----------------------------------------------------------------------------
(* Claims, leases and fences.                                              *)

\* Fault: only a claim on the same delivery is replaced.
ReplacedOnDelivery(d) ==
    [c \in DOMAIN claims |->
        IF claims[c].delivery = d /\ claims[c].state \in LiveClaimState
        THEN [claims[c] EXCEPT !.state = "REPLACED"]
        ELSE claims[c]]

\* The claims once a live previous claim of d's message, whatever its
\* delivery, is replaced.
Replaced(d) ==
    [c \in DOMAIN claims |->
        IF c = Get(currentClaim, deliveries[d].message, 0)
           /\ claims[c].state \in LiveClaimState
        THEN [claims[c] EXCEPT !.state = "REPLACED"]
        ELSE claims[c]]

\* claim: the new claim is issued under the next fence.
Claim(d, w) ==
    LET m == deliveries[d].message
    IN  /\ CanProcess(d)
        /\ claimSequence < MaxClaims
        /\ claimSequence' = claimSequence + 1
        /\ fenceSequence' = fenceSequence + 1
        /\ claims' = Put(Replaced(d), claimSequence + 1,
                         [delivery |-> d, worker |-> w,
                          fence |-> fenceSequence + 1, state |-> "CURRENT"])
        /\ currentClaim' = Put(currentClaim, m, claimSequence + 1)
        /\ UNCHANGED <<publicationVars, deliveryVars, controlVars, resultVars,
                       ackVars, retryVars>>

MarkRenewalUncertain(c) ==
    /\ claims[c].state = "CURRENT"
    /\ claims' = [claims EXCEPT ![c].state = "RENEWAL_UNCERTAIN"]
    /\ UNCHANGED <<currentClaim, claimSequence, fenceSequence, publicationVars,
                   deliveryVars, controlVars, resultVars, ackVars, retryVars>>

\* confirm_lease_loss overwrites any earlier state of the claim.
ConfirmLeaseLoss(c) ==
    /\ claims' = [claims EXCEPT ![c].state = "CONFIRMED_LEASE_LOST"]
    /\ UNCHANGED <<currentClaim, claimSequence, fenceSequence, publicationVars,
                   deliveryVars, controlVars, resultVars, ackVars, retryVars>>

-----------------------------------------------------------------------------
(* Request-wide control.                                                   *)

\* Fault: only a security rejection keeps a request from being reactivated.
MayReactivate(r, s) == r \in securityRejectedRequests => s # "ACTIVE"

MaySetControl(r, s) ==
    r \in securityRejectedRequests \/ controls[r] # "ACTIVE" => s # "ACTIVE"

SetControl(r, s) ==
    /\ MaySetControl(r, s)
    /\ controls' = [controls EXCEPT ![r] = s]
    /\ UNCHANGED <<securityRejectedRequests, publicationVars, deliveryVars, claimVars,
                   resultVars, ackVars, retryVars>>

-----------------------------------------------------------------------------
(* Results and acknowledgement.                                            *)

\* Fault: the result's attempt is not compared with the delivery's.
MayAcceptForAnyAttempt(c, b) ==
    LET d == claims[c].delivery
    IN  /\ CanProduceProtectedEffect(c)
        /\ b.request = deliveries[d].request
        /\ b.message = deliveries[d].message

\* The guards of accept_result up to the slot lookup.
MayAccept(c, b) ==
    LET d == claims[c].delivery
    IN  /\ CanProduceProtectedEffect(c)
        /\ b.request = deliveries[d].request
        /\ b.message = deliveries[d].message
        /\ b.attempt = deliveries[d].attempt

\* Fault: the slot is not looked up.
ConflictingBinding(b) == Get(acceptedResults, b.result, b) # b

\* Another result holds the slot, or the result is bound elsewhere.
Conflicting(b) ==
    \/ Get(resultSlots, SlotOf(b), b.result) # b.result
    \/ Get(acceptedResults, b.result, b) # b

SubmissionOf(c) == [claim |-> c, delivery |-> claims[c].delivery,
                    worker |-> claims[c].worker, fence |-> claims[c].fence]

\* The submissions of result r once claim c has submitted it.  (A claim submits
\* under one occurrence reference, so a repeated submission is recorded once.)
Submissions(c, r) ==
    LET submissions == Get(resultSubmissions, r, <<>>)
    IN  IF \E i \in DOMAIN submissions : submissions[i] = SubmissionOf(c)
        THEN submissions
        ELSE Append(submissions, SubmissionOf(c))

AcceptResult(c, b) ==
    /\ MayAccept(c, b)
    /\ ~Conflicting(b)
    /\ IF b.result \in DOMAIN acceptedResults
       THEN UNCHANGED <<acceptedResults, resultSlots>>
       ELSE /\ acceptedResults' = Put(acceptedResults, b.result, b)
            /\ resultSlots' = Put(resultSlots, SlotOf(b), b.result)
    /\ resultSubmissions' = Put(resultSubmissions, b.result, Submissions(c, b.result))
    /\ UNCHANGED <<publicationVars, deliveryVars, claimVars, controlVars,
                   ackVars, retryVars>>

\* The refusal raises, but the message stays marked as conflicted.
RefuseConflictingResult(c, b) ==
    /\ MayAccept(c, b)
    /\ Conflicting(b)
    /\ conflictedMessages' = conflictedMessages \cup {b.message}
    /\ UNCHANGED <<acknowledged, publicationVars, deliveryVars, claimVars, controlVars,
                   resultVars, retryVars>>

\* acknowledge by a caller that reports success with every required effect.
Acknowledge(c) ==
    LET d == claims[c].delivery
    IN  /\ CanProduceProtectedEffect(c)
        /\ deliveries[d].message \notin conflictedMessages
        /\ acknowledged' = acknowledged \cup {d}
        /\ UNCHANGED <<conflictedMessages, publicationVars, deliveryVars, claimVars,
                       controlVars, resultVars, retryVars>>

-----------------------------------------------------------------------------
(* Failure classification, dead letters and redrive.                       *)

\* Fault: a dead-lettered delivery is classified again.
MayReclassify(d) ==
    IsActive(RequestOf(d)) /\ RequestOf(d) \notin securityRejectedRequests

\* The checks every classification passes first.  An acknowledged delivery
\* passes them too: classify_failure never consults _acknowledged.
MayClassify(d) ==
    /\ d \notin DeadLettered
    /\ IsActive(RequestOf(d))
    /\ RequestOf(d) \notin securityRejectedRequests

EstablishSecurityRejection(d) ==
    /\ MayClassify(d)
    /\ securityRejectedRequests' = securityRejectedRequests \cup {RequestOf(d)}
    /\ claims' = Revoke({c \in DOMAIN claims :
                            RequestOf(claims[c].delivery) = RequestOf(d)})
    /\ UNCHANGED <<controls, currentClaim, claimSequence, fenceSequence,
                   publicationVars, deliveryVars, resultVars, ackVars, retryVars>>

Limit(f) == IF f = "POISON" THEN MaxPoisonAttempts ELSE MaxTransportAttempts

ClassifyRetryable(d, f) ==
    /\ MayClassify(d)
    /\ failureCounts[d, f] + 1 < Limit(f)
    /\ failureCounts' = [failureCounts EXCEPT ![<<d, f>>] = @ + 1]
    /\ UNCHANGED <<deadLetters, redriveCounts, redrives, publicationVars, deliveryVars,
                   claimVars, controlVars, resultVars, ackVars>>

ClassifyExhausted(d, f) ==
    /\ MayClassify(d)
    /\ failureCounts[d, f] + 1 >= Limit(f)
    /\ failureCounts' = [failureCounts EXCEPT ![<<d, f>>] = @ + 1]
    /\ deadLetters' = Append(deadLetters, [delivery |-> d, classification |-> f])
    /\ claims' = Revoke({c \in DOMAIN claims : claims[c].delivery = d})
    /\ UNCHANGED <<currentClaim, claimSequence, fenceSequence, redriveCounts, redrives,
                   publicationVars, deliveryVars, controlVars, resultVars, ackVars>>

MayRedrive(m) == redriveCounts[m] < MaxRedrives
ChargedRedrive(m) == [redriveCounts EXCEPT ![m] = @ + 1]

\* redrive by an authorised administrator of the dead letter x.
RedriveOf(x) ==
    LET m == deliveries[x.delivery].message
    IN  /\ IsActive(RequestOf(x.delivery))
        /\ MayRedrive(m)
        /\ CreateDelivery(m, TRUE)
        /\ redriveCounts' = ChargedRedrive(m)
        /\ redrives' = Put(redrives, deliverySequence + 1,
                           [source |-> x.delivery, classification |-> x.classification])
        /\ UNCHANGED <<failureCounts, deadLetters>>

\* The source identity is a dead-lettered delivery, or a message, which stands
\* for its latest dead letter.
RedriveDelivery(d) ==
    \E i \in DOMAIN deadLetters : deadLetters[i].delivery = d /\ RedriveOf(deadLetters[i])

RedriveMessage(m) ==
    \E i \in DOMAIN deadLetters : IsLatestDeadLetter(i, m) /\ RedriveOf(deadLetters[i])

-----------------------------------------------------------------------------
PublicationNext ==
    \/ \E e \in Envelopes : Publish(e)
    \/ \E p \in DOMAIN publications : \E s \in Outcomes :
          RecordPublicationOutcome(p, s)

DeliveryNext ==
    \/ \E m \in DOMAIN messages : Deliver(m)
    \/ \E m \in DOMAIN messages : RecordProviderDeliveryOccurrence(m)
    \/ \E d \in DOMAIN deliveries : Redeliver(d)

ClaimNext ==
    \/ \E d \in DOMAIN deliveries : \E w \in Worker : Claim(d, w)
    \/ \E c \in DOMAIN claims : MarkRenewalUncertain(c)
    \/ \E c \in DOMAIN claims : ConfirmLeaseLoss(c)

ResultNext ==
    \/ \E c \in DOMAIN claims : \E b \in Binding : AcceptResult(c, b)
    \/ \E c \in DOMAIN claims : \E b \in Binding : RefuseConflictingResult(c, b)
    \/ \E c \in DOMAIN claims : Acknowledge(c)

FailureNext ==
    \/ \E d \in DOMAIN deliveries : EstablishSecurityRejection(d)
    \/ \E d \in DOMAIN deliveries : \E f \in Failures : ClassifyRetryable(d, f)
    \/ \E d \in DOMAIN deliveries : \E f \in Failures : ClassifyExhausted(d, f)
    \/ \E d \in DOMAIN deliveries : RedriveDelivery(d)
    \/ \E m \in DOMAIN messages : RedriveMessage(m)

Next ==
    \/ PublicationNext
    \/ DeliveryNext
    \/ ClaimNext
    \/ \E r \in Request, s \in Withdrawn \cup {"ACTIVE"} : SetControl(r, s)
    \/ ResultNext
    \/ FailureNext

Spec == Init /\ [][Next]_vars

-----------------------------------------------------------------------------
(* Properties.                                                             *)

PublicationTypeOK ==
    /\ IsDict(messages, Message, Envelopes)
    /\ \A m \in DOMAIN messages : messages[m].message = m
    /\ \A m \in DOMAIN messages : messages[m].publication \in DOMAIN publications
    /\ IsDict(publications, Publication, PublicationRecord)
    /\ \A p \in DOMAIN publications : publications[p].message \in DOMAIN messages
    /\ IsDict(publicationHistory, Publication, Seq(PublicationState))
    /\ DOMAIN publicationHistory = DOMAIN publications

DeliveryTypeOK ==
    /\ deliverySequence \in 0..MaxDeliveries
    /\ DOMAIN deliveries = 1..deliverySequence
    /\ IsDict(deliveries, DeliveryId, DeliveryRecord)
    /\ \A d \in DOMAIN deliveries : deliveries[d].message \in DOMAIN messages

ClaimTypeOK ==
    /\ claimSequence \in 0..MaxClaims
    /\ fenceSequence \in Nat
    /\ DOMAIN claims = 1..claimSequence
    /\ IsDict(claims, ClaimId, ClaimRecord)
    /\ \A c \in DOMAIN claims : claims[c].delivery \in DOMAIN deliveries
    /\ IsDict(currentClaim, Message, DOMAIN claims)

ControlTypeOK ==
    /\ controls \in [Request -> ControlState]
    /\ securityRejectedRequests \subseteq Request

ResultTypeOK ==
    /\ IsDict(acceptedResults, Result, Binding)
    /\ IsDict(resultSlots, Slot, Result)
    /\ IsDict(resultSubmissions, Result, Seq(Submission))
    /\ conflictedMessages \subseteq Message
    /\ acknowledged \subseteq DOMAIN deliveries

RetryTypeOK ==
    /\ failureCounts \in [DeliveryId \X CountedFailure -> Nat]
    /\ deadLetters \in Seq(DeadLetter)
    /\ DeadLettered \subseteq DOMAIN deliveries
    /\ redriveCounts \in [Message -> 0..MaxRedrives]
    /\ IsDict(redrives, DeliveryId, RedriveRecord)
    /\ DOMAIN redrives \subseteq DOMAIN deliveries

\* Every dictionary holds records of its kind under keys of its kind, and the
\* identities recorded in one dictionary resolve in the others.
TypeOK == /\ PublicationTypeOK /\ DeliveryTypeOK /\ ClaimTypeOK
          /\ ControlTypeOK /\ ResultTypeOK /\ RetryTypeOK

MessageOfClaim(c) == deliveries[claims[c].delivery].message

\* The inductive form of the next property: fences are issued in the order of
\* the claims, and _current_claim names the latest claim of the message, the
\* only one that may be live.
LatestClaimIsCurrent ==
    /\ fenceSequence = claimSequence
    /\ \A c \in DOMAIN claims : claims[c].fence = c
    /\ \A m \in DOMAIN currentClaim : MessageOfClaim(currentClaim[m]) = m
    /\ \A c \in DOMAIN claims :
          /\ MessageOfClaim(c) \in DOMAIN currentClaim
          /\ c <= currentClaim[MessageOfClaim(c)]
          /\ claims[c].state \in LiveClaimState => currentClaim[MessageOfClaim(c)] = c

\* At most one claim of a message is live (CURRENT or RENEWAL_UNCERTAIN), it is
\* the one _current_claim names, and no claim of the message has a higher
\* fence: claim() replaces the live claim of the message even when it was
\* granted on another delivery.
LiveClaimHasHighestFence ==
    \A c \in DOMAIN claims : claims[c].state \in LiveClaimState =>
        /\ Get(currentClaim, MessageOfClaim(c), 0) = c
        /\ \A o \in DOMAIN claims :
              MessageOfClaim(o) = MessageOfClaim(c) /\ o # c =>
                  /\ claims[o].state \notin LiveClaimState
                  /\ claims[o].fence < claims[c].fence

\* A claim that cannot produce a protected effect never can again, whatever
\* claims, renewals, controls, redeliveries and redrives follow.
AuthorityIsNeverRegained ==
    [][\A c \in DOMAIN claims :
          ~CanProduceProtectedEffect(c) => ~CanProduceProtectedEffect(c)']_vars

\* Result slots and accepted results are each other's inverse: duplicate
\* deliveries and replaced workers never fill one slot with two results nor
\* file one result under two slots.
OneResultPerSlot ==
    /\ \A r \in DOMAIN acceptedResults :
          /\ acceptedResults[r].result = r
          /\ SlotOf(acceptedResults[r]) \in DOMAIN resultSlots
          /\ resultSlots[SlotOf(acceptedResults[r])] = r
    /\ \A s \in DOMAIN resultSlots :
          /\ resultSlots[s] \in DOMAIN acceptedResults
          /\ SlotOf(acceptedResults[resultSlots[s]]) = s

\* An accepted result is never overwritten, rebound or dropped by a later
\* submission (no last write wins), and its submissions are append-only.
AcceptedResultsAreFinal ==
    [][\A r \in DOMAIN acceptedResults :
          /\ r \in DOMAIN acceptedResults'
          /\ acceptedResults'[r] = acceptedResults[r]
          /\ r \in DOMAIN resultSubmissions'
          /\ Len(resultSubmissions'[r]) >= Len(resultSubmissions[r])
          /\ \A i \in DOMAIN resultSubmissions[r] :
                resultSubmissions'[r][i] = resultSubmissions[r][i]]_vars

\* Every accepted result is attributable: it was submitted at least once, and
\* each submission names the worker and fence of a claim on a delivery of the
\* message, request and attempt the result is bound to.
ResultsAreAttributable ==
    /\ DOMAIN resultSubmissions = DOMAIN acceptedResults
    /\ \A r \in DOMAIN acceptedResults :
          /\ resultSubmissions[r] # <<>>
          /\ \A i \in DOMAIN resultSubmissions[r] :
                LET s == resultSubmissions[r][i]
                    d == deliveries[s.delivery]
                    b == acceptedResults[r]
                IN  /\ s.claim \in DOMAIN claims
                    /\ claims[s.claim].delivery = s.delivery
                    /\ claims[s.claim].worker = s.worker
                    /\ claims[s.claim].fence = s.fence
                    /\ d.message = b.message /\ d.request = b.request
                    /\ d.attempt = b.attempt

Stopped(r) == ~IsActive(r) \/ r \in securityRejectedRequests

\* A request that left ACTIVE or was rejected for security stays so, and while
\* it is stopped no claim is granted, no result accepted, no delivery
\* acknowledged, dead-lettered or redriven for it; a rejected request gets no
\* delivery at all, whichever of its messages it is asked for.
StoppedWorkIsFrozen ==
    [][\A r \in Request : Stopped(r) =>
          /\ ~IsActive(r) => ~IsActive(r)'
          /\ r \in securityRejectedRequests => r \in securityRejectedRequests'
          /\ \A c \in DOMAIN claims' \ DOMAIN claims :
                deliveries'[claims'[c].delivery].request # r
          /\ \A x \in DOMAIN acceptedResults' \ DOMAIN acceptedResults :
                acceptedResults'[x].request # r
          /\ \A d \in (acknowledged' \ acknowledged) \cup (DeadLettered' \ DeadLettered)
                      \cup (DOMAIN redrives' \ DOMAIN redrives) :
                deliveries'[d].request # r
          /\ r \in securityRejectedRequests =>
                \A d \in DOMAIN deliveries' \ DOMAIN deliveries :
                    deliveries'[d].request # r]_vars

\* A security rejection reaches the whole semantic request: no claim of any of
\* its deliveries is live, the uncertain ones and sibling messages included.
SecurityRejectionRevokesClaims ==
    \A c \in DOMAIN claims :
        RequestOf(claims[c].delivery) \in securityRejectedRequests =>
            claims[c].state \notin LiveClaimState

\* A delivery is dead-lettered exactly when one of its counters has reached the
\* policy's limit, once, and then holds no live claim.  Redrives are bounded per
\* message however many of its deliveries die: the counter is the number of
\* deliveries created by redrive, and each of them comes from an earlier
\* dead-lettered delivery of the same message.
RetriesAreAccounted ==
    /\ \A d \in DOMAIN deliveries :
          /\ \A f \in CountedFailure : failureCounts[d, f] <= Limit(f)
          /\ d \in DeadLettered <=>
                \E f \in CountedFailure : failureCounts[d, f] = Limit(f)
    /\ \A i, j \in DOMAIN deadLetters :
          deadLetters[i].delivery = deadLetters[j].delivery => i = j
    /\ \A c \in DOMAIN claims :
          claims[c].delivery \in DeadLettered => claims[c].state \notin LiveClaimState
    /\ \A m \in Message :
          /\ redriveCounts[m] <= MaxRedrives
          /\ redriveCounts[m] =
                Cardinality({d \in DOMAIN redrives : deliveries[d].message = m})
    /\ \A d \in DOMAIN redrives :
          LET source == redrives[d].source
          IN  /\ source < d
              /\ source \in DeadLettered
              /\ deliveries[source].message = deliveries[d].message

=============================================================================
