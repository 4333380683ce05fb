----------------------------- MODULE QueueProofs -----------------------------
(* Theorems about the Queue adapter, for every value of its constants.     *)
EXTENDS QueueRefinement, FiniteSetTheorems, TLAPS

-----------------------------------------------------------------------------
(* Dictionaries.                                                           *)

\* Item assignment keeps a dictionary well typed.
LEMMA PutDict ==
  ASSUME NEW K, NEW V, NEW d, IsDict(d, K, V), NEW k \in K, NEW v \in V
  PROVE  IsDict(Put(d, k, v), K, V)
  BY DEF IsDict, Put

\* Item assignment adds its key, sets its value and leaves the others alone.
LEMMA PutValue ==
  ASSUME NEW d, NEW k, NEW v
  PROVE  /\ DOMAIN Put(d, k, v) = DOMAIN d \cup {k}
         /\ Put(d, k, v)[k] = v
         /\ \A x \in DOMAIN d : x # k => Put(d, k, v)[x] = d[x]
  BY DEF Put

-----------------------------------------------------------------------------
(* Type correctness.                                                       *)

LEMMA InitType == Init => TypeOK
  <1> SUFFICES ASSUME Init PROVE TypeOK
    OBVIOUS
  <1>1. DOMAIN Empty = {}
    BY DEF Empty
  <1>2. PublicationTypeOK
    BY <1>1 DEF Init, PublicationTypeOK, IsDict
  <1>3. DeliveryTypeOK
    BY <1>1, QueueAssumption DEF Init, DeliveryTypeOK, IsDict
  <1>4. ClaimTypeOK
    BY <1>1, QueueAssumption DEF Init, ClaimTypeOK, IsDict
  <1>5. ControlTypeOK
    BY DEF Init, ControlTypeOK, ControlState
  <1>6. ResultTypeOK
    BY <1>1 DEF Init, ResultTypeOK, IsDict
  <1>7. RetryTypeOK
    <2>1. deadLetters = <<>> /\ DeadLettered = {}
      BY DEF Init, DeadLettered
    <2> QED
      BY <1>1, <2>1, QueueAssumption DEF Init, RetryTypeOK, IsDict
  <1> QED
    BY <1>2, <1>3, <1>4, <1>5, <1>6, <1>7 DEF TypeOK

\* A part of the state no action touched keeps its type.
LEMMA UnchangedType ==
  /\ ControlTypeOK /\ UNCHANGED controlVars => ControlTypeOK'
  /\ ClaimTypeOK /\ UNCHANGED <<claimVars, deliveryVars>> => ClaimTypeOK'
  /\ DeliveryTypeOK /\ UNCHANGED <<deliveryVars, publicationVars>> => DeliveryTypeOK'
  /\ PublicationTypeOK /\ UNCHANGED publicationVars => PublicationTypeOK'
  /\ ResultTypeOK /\ UNCHANGED <<resultVars, ackVars, deliveryVars>> => ResultTypeOK'
  /\ RetryTypeOK /\ UNCHANGED <<retryVars, deliveryVars>> => RetryTypeOK'
  BY DEF ControlTypeOK, ClaimTypeOK, DeliveryTypeOK, PublicationTypeOK, ResultTypeOK,
         RetryTypeOK, DeadLettered, controlVars, claimVars, deliveryVars,
         publicationVars, resultVars, ackVars, retryVars

\* The number of earlier deliveries of a message is a natural number.
LEMMA DeliveriesOfFinite ==
  ASSUME DeliveryTypeOK, NEW m
  PROVE  Cardinality(DeliveriesOf(m)) \in Nat
  <1>1. deliverySequence \in Int /\ IsFiniteSet(1..deliverySequence)
    BY FS_Interval DEF DeliveryTypeOK
  <1>2. DeliveriesOf(m) \subseteq 1..deliverySequence
    BY DEF DeliveriesOf, DeliveryTypeOK
  <1>3. IsFiniteSet(DeliveriesOf(m))
    BY <1>1, <1>2, FS_Subset
  <1> QED
    BY <1>3, FS_CardinalityType

LEMMA PublishType ==
  ASSUME TypeOK, NEW e \in Envelopes, Publish(e)
  PROVE  TypeOK'
  <1>0. e \in EnvelopeRecord
    BY QueueAssumption
  <1>1. PublicationTypeOK'
    <2> DEFINE r == [request |-> e.request, message |-> e.message, state |-> "NOT_ATTEMPTED"]
    <2>1. e.message \in Message /\ e.publication \in Publication /\ r \in PublicationRecord
      BY <1>0 DEF EnvelopeRecord, PublicationRecord, PublicationState
    <2>2. <<>> \in Seq(PublicationState)
      OBVIOUS
    <2>3. /\ messages' = Put(messages, e.message, e)
          /\ publications' = Put(publications, e.publication, r)
          /\ publicationHistory' = Put(publicationHistory, e.publication, <<>>)
      BY DEF Publish
    <2>4. PublicationTypeOK
      BY DEF TypeOK
    <2> HIDE DEF r
    <2>5. /\ IsDict(messages', Message, Envelopes)
          /\ IsDict(publications', Publication, PublicationRecord)
          /\ IsDict(publicationHistory', Publication, Seq(PublicationState))
      BY <2>1, <2>2, <2>3, <2>4, PutDict DEF PublicationTypeOK
    <2>6. /\ \A m \in DOMAIN messages' : messages'[m].message = m
          /\ \A m \in DOMAIN messages' : messages'[m].publication \in DOMAIN publications'
          /\ DOMAIN publicationHistory' = DOMAIN publications'
      BY <2>3, <2>4 DEF PublicationTypeOK, Put
    <2>7. \A p \in DOMAIN publications' : publications'[p].message \in DOMAIN messages'
      <3>1. r.message = e.message
        BY DEF r
      <3> QED
        BY <2>3, <2>4, <3>1 DEF PublicationTypeOK, Put
    <2> QED
      BY <2>5, <2>6, <2>7 DEF PublicationTypeOK
  <1>2. DeliveryTypeOK'
    <2>1. DOMAIN messages \subseteq DOMAIN messages'
      BY DEF Publish, Put
    <2>2. UNCHANGED deliveryVars
      BY DEF Publish
    <2> QED
      BY <2>1, <2>2 DEF TypeOK, DeliveryTypeOK, deliveryVars
  <1>3. UNCHANGED <<deliveryVars, claimVars, controlVars, resultVars, ackVars, retryVars>>
    BY DEF Publish
  <1> QED
    BY <1>1, <1>2, <1>3, UnchangedType DEF TypeOK

LEMMA OutcomeType ==
  ASSUME TypeOK, NEW p \in DOMAIN publications, NEW s \in Outcomes,
         RecordPublicationOutcome(p, s)
  PROVE  TypeOK'
  <1> DEFINE r == [publications[p] EXCEPT !.state = s]
             h == publicationHistory[p]
  <1>0. s \in PublicationState /\ PublicationTypeOK
    BY QueueAssumption DEF TypeOK
  <1>1. p \in Publication /\ r \in PublicationRecord
        /\ r.message = publications[p].message
    BY <1>0 DEF PublicationTypeOK, IsDict, PublicationRecord
  <1>2. publications' = Put(publications, p, r)
    BY DEF RecordPublicationOutcome
  <1>3. \/ publicationHistory' = publicationHistory
        \/ publicationHistory' = Put(publicationHistory, p, Append(h, s))
    BY DEF RecordPublicationOutcome
  <1>4. Append(h, s) \in Seq(PublicationState)
    BY <1>0 DEF PublicationTypeOK, IsDict
  <1> HIDE DEF r, h
  <1>5. PublicationTypeOK'
    <2>1. IsDict(publications', Publication, PublicationRecord)
      BY <1>0, <1>1, <1>2, PutDict DEF PublicationTypeOK
    <2>2. IsDict(publicationHistory', Publication, Seq(PublicationState))
      <3>1. IsDict(publicationHistory, Publication, Seq(PublicationState))
        BY <1>0 DEF PublicationTypeOK
      <3>2. IsDict(Put(publicationHistory, p, Append(h, s)), Publication,
                   Seq(PublicationState))
        BY <1>1, <1>4, <3>1, PutDict
      <3> QED
        BY <1>3, <3>1, <3>2
    <2>3. DOMAIN publications' = DOMAIN publications
      BY <1>2 DEF Put
    <2>5. DOMAIN publicationHistory' = DOMAIN publications
      <3>1. DOMAIN publicationHistory = DOMAIN publications
        BY <1>0 DEF PublicationTypeOK
      <3> QED
        BY <1>3, <3>1 DEF Put
    <2>4. \A q \in DOMAIN publications' : publications'[q].message \in DOMAIN messages
      BY <1>0, <1>1, <1>2 DEF PublicationTypeOK, Put
    <2> QED
      BY <1>0, <2>1, <2>2, <2>3, <2>4, <2>5 DEF PublicationTypeOK, RecordPublicationOutcome
  <1>6. DeliveryTypeOK'
    BY DEF TypeOK, DeliveryTypeOK, RecordPublicationOutcome, deliveryVars
  <1> QED
    BY <1>5, <1>6, UnchangedType DEF TypeOK, RecordPublicationOutcome

\* Creating a delivery keeps every part but the retry bookkeeping typed.
LEMMA CreateDeliveryType ==
  ASSUME TypeOK, NEW m \in DOMAIN messages, NEW isRedrive \in BOOLEAN,
         CreateDelivery(m, isRedrive)
  PROVE  /\ PublicationTypeOK' /\ DeliveryTypeOK' /\ ClaimTypeOK'
         /\ ControlTypeOK' /\ ResultTypeOK'
         /\ DOMAIN deliveries' = DOMAIN deliveries \cup {deliverySequence + 1}
         /\ deliverySequence + 1 \in DeliveryId
  <1> DEFINE e == messages[m]
             r == [message |-> m, request |-> e.request, attempt |-> e.attempt,
                   redeliveryNumber |-> Cardinality(DeliveriesOf(m))]
             n == deliverySequence + 1
  <1>0. PublicationTypeOK /\ DeliveryTypeOK /\ ClaimTypeOK /\ ControlTypeOK /\ ResultTypeOK
    BY DEF TypeOK
  <1>1. m \in Message /\ e \in EnvelopeRecord
    BY <1>0, QueueAssumption DEF PublicationTypeOK, IsDict
  <1>2. r \in DeliveryRecord /\ r.message = m
    BY <1>0, <1>1, DeliveriesOfFinite DEF EnvelopeRecord, DeliveryRecord
  <1>3. deliveries' = Put(deliveries, n, r) /\ deliverySequence' = n
    BY DEF CreateDelivery
  <1>4. n \in DeliveryId /\ n \in 0..MaxDeliveries /\ 1..n = 1..deliverySequence \cup {n}
    BY <1>0, QueueAssumption DEF CreateDelivery, DeliveryTypeOK, DeliveryId
  <1> HIDE DEF r
  <1>5. DOMAIN deliveries' = DOMAIN deliveries \cup {n}
    BY <1>3, PutValue
  <1>6. DeliveryTypeOK'
    <2>1. IsDict(deliveries', DeliveryId, DeliveryRecord)
      BY <1>0, <1>2, <1>3, <1>4, PutDict DEF DeliveryTypeOK
    <2>2. DOMAIN deliveries' = 1..deliverySequence'
      BY <1>0, <1>3, <1>4, <1>5 DEF DeliveryTypeOK
    <2>3. \A d \in DOMAIN deliveries' : deliveries'[d].message \in DOMAIN messages
      BY <1>0, <1>2, <1>3 DEF DeliveryTypeOK, Put
    <2> QED
      BY <1>3, <1>4, <2>1, <2>2, <2>3 DEF DeliveryTypeOK, CreateDelivery, publicationVars
  <1>7. ClaimTypeOK'
    BY <1>0, <1>5 DEF ClaimTypeOK, CreateDelivery, claimVars
  <1>8. ResultTypeOK'
    BY <1>0, <1>5 DEF ResultTypeOK, CreateDelivery, resultVars, ackVars
  <1> QED
    BY <1>0, <1>4, <1>5, <1>6, <1>7, <1>8, UnchangedType DEF CreateDelivery

LEMMA OrdinaryDeliveryType ==
  ASSUME TypeOK, NEW m \in DOMAIN messages, CreateDelivery(m, FALSE), UNCHANGED retryVars
  PROVE  TypeOK'
  <1>1. RetryTypeOK'
    <2>1. DOMAIN deliveries \subseteq DOMAIN deliveries'
      BY CreateDeliveryType
    <2> QED
      BY <2>1 DEF TypeOK, RetryTypeOK, DeadLettered, retryVars
  <1> QED
    BY <1>1, CreateDeliveryType DEF TypeOK

\* The state changes of claims: each keeps the delivery, worker and fence.
LEMMA ClaimStatesType ==
  ASSUME ClaimTypeOK, DOMAIN claims' = DOMAIN claims, UNCHANGED deliveryVars,
         UNCHANGED <<currentClaim, claimSequence, fenceSequence>>,
         \A c \in DOMAIN claims :
            \E s \in ClaimState : claims'[c] = [claims[c] EXCEPT !.state = s]
  PROVE  ClaimTypeOK'
  <1>1. \A c \in DOMAIN claims :
           claims'[c] \in ClaimRecord /\ claims'[c].delivery = claims[c].delivery
    <2> SUFFICES ASSUME NEW c \in DOMAIN claims
                 PROVE  claims'[c] \in ClaimRecord /\ claims'[c].delivery = claims[c].delivery
      OBVIOUS
    <2>1. claims[c] \in ClaimRecord
      BY DEF ClaimTypeOK, IsDict
    <2>2. PICK s \in ClaimState : claims'[c] = [claims[c] EXCEPT !.state = s]
      OBVIOUS
    <2> QED
      BY <2>1, <2>2 DEF ClaimRecord
  <1>2. IsDict(claims', ClaimId, ClaimRecord)
    BY <1>1 DEF ClaimTypeOK, IsDict
  <1> QED
    BY <1>1, <1>2 DEF ClaimTypeOK, deliveryVars

\* Revoking claims changes nothing but their states.
LEMMA RevokeStates ==
  ASSUME NEW C, ClaimTypeOK
  PROVE  /\ DOMAIN Revoke(C) = DOMAIN claims
         /\ \A c \in DOMAIN claims :
               \E s \in ClaimState : Revoke(C)[c] = [claims[c] EXCEPT !.state = s]
  <1>1. DOMAIN Revoke(C) = DOMAIN claims
    BY DEF Revoke
  <1>2. ASSUME NEW c \in DOMAIN claims
        PROVE  \E s \in ClaimState : Revoke(C)[c] = [claims[c] EXCEPT !.state = s]
    <2>1. claims[c] \in ClaimRecord
      BY DEF ClaimTypeOK, IsDict
    <2>2. claims[c].state \in ClaimState /\ claims[c] = [claims[c] EXCEPT !.state = claims[c].state]
      BY <2>1 DEF ClaimRecord
    <2>3. "REVOKED" \in ClaimState
      BY DEF ClaimState
    <2>4. CASE c \in C /\ claims[c].state \in LiveClaimState
      BY <2>3, <2>4 DEF Revoke
    <2>5. CASE ~(c \in C /\ claims[c].state \in LiveClaimState)
      BY <2>2, <2>5 DEF Revoke
    <2> QED
      BY <2>4, <2>5
  <1> QED
    BY <1>1, <1>2

LEMMA ClaimType ==
  ASSUME TypeOK, NEW d \in DOMAIN deliveries, NEW w \in Worker, Claim(d, w)
  PROVE  TypeOK'
  <1> DEFINE m == deliveries[d].message
             previous == Get(currentClaim, m, 0)
             replaced == [c \in DOMAIN claims |->
                            IF c = previous /\ claims[c].state \in LiveClaimState
                            THEN [claims[c] EXCEPT !.state = "REPLACED"]
                            ELSE claims[c]]
             n == claimSequence + 1
             r == [delivery |-> d, worker |-> w,
                   fence |-> fenceSequence + 1, state |-> "CURRENT"]
  <1>0. ClaimTypeOK /\ DeliveryTypeOK
    BY DEF TypeOK
  <1>1. /\ claims' = Put(replaced, n, r)
        /\ currentClaim' = Put(currentClaim, m, n)
        /\ claimSequence' = n /\ fenceSequence' = fenceSequence + 1
        /\ n <= MaxClaims
    BY <1>0, QueueAssumption DEF Claim, ClaimTypeOK, Replaced
  <1>2. d \in DeliveryId /\ m \in Message
    BY <1>0 DEF DeliveryTypeOK, IsDict, DeliveryRecord
  <1>3. r \in ClaimRecord /\ r.delivery = d
    BY <1>0, <1>2 DEF ClaimRecord, ClaimState, ClaimTypeOK
  <1>4. n \in ClaimId /\ n \in 0..MaxClaims /\ 1..n = 1..claimSequence \cup {n}
    BY <1>0, <1>1, QueueAssumption DEF ClaimTypeOK, ClaimId
  <1>5. \A c \in DOMAIN claims : /\ replaced[c] \in ClaimRecord
                                 /\ replaced[c].delivery = claims[c].delivery
    <2> SUFFICES ASSUME NEW c \in DOMAIN claims
                 PROVE  /\ replaced[c] \in ClaimRecord
                        /\ replaced[c].delivery = claims[c].delivery
      OBVIOUS
    <2>1. claims[c] \in ClaimRecord
      BY <1>0 DEF ClaimTypeOK, IsDict
    <2> QED
      BY <2>1 DEF ClaimRecord, ClaimState
  <1>6. DOMAIN replaced = DOMAIN claims
    OBVIOUS
  <1> HIDE DEF replaced, r
  <1>7. IsDict(claims', ClaimId, ClaimRecord)
    <2>1. IsDict(replaced, ClaimId, ClaimRecord)
      BY <1>0, <1>5, <1>6 DEF IsDict, ClaimTypeOK
    <2> QED
      BY <1>1, <1>3, <1>4, <2>1, PutDict
  <1>8. DOMAIN claims' = 1..claimSequence' /\ DOMAIN claims \subseteq DOMAIN claims'
    BY <1>0, <1>1, <1>4, <1>6 DEF ClaimTypeOK, Put
  <1>9. \A c \in DOMAIN claims' : claims'[c].delivery \in DOMAIN deliveries
    BY <1>0, <1>1, <1>3, <1>5, <1>6 DEF Put, ClaimTypeOK
  <1>10. IsDict(currentClaim', Message, DOMAIN claims')
    <2>1. IsDict(currentClaim, Message, DOMAIN claims')
      BY <1>0, <1>8 DEF ClaimTypeOK, IsDict
    <2>2. n \in DOMAIN claims'
      BY <1>1, <1>4, <1>8
    <2> QED
      BY <1>1, <1>2, <2>1, <2>2, PutDict
  <1>11. UNCHANGED <<publicationVars, deliveryVars, controlVars, resultVars, ackVars, retryVars>>
    BY DEF Claim
  <1>12. ClaimTypeOK'
    BY <1>0, <1>1, <1>4, <1>7, <1>8, <1>9, <1>10, <1>11 DEF ClaimTypeOK, deliveryVars
  <1> QED
    BY <1>11, <1>12, UnchangedType DEF TypeOK

LEMMA RenewalType ==
  ASSUME TypeOK, NEW c \in DOMAIN claims, MarkRenewalUncertain(c) \/ ConfirmLeaseLoss(c)
  PROVE  TypeOK'
  <1>1. PICK s \in ClaimState : claims' = [claims EXCEPT ![c].state = s]
    BY DEF MarkRenewalUncertain, ConfirmLeaseLoss, ClaimState
  <1>2. UNCHANGED <<currentClaim, claimSequence, fenceSequence, publicationVars,
                    deliveryVars, controlVars, resultVars, ackVars, retryVars>>
    BY DEF MarkRenewalUncertain, ConfirmLeaseLoss
  <1>3. ASSUME NEW x \in DOMAIN claims
        PROVE  \E t \in ClaimState : claims'[x] = [claims[x] EXCEPT !.state = t]
    <2>1. claims[x] \in ClaimRecord
      BY DEF TypeOK, ClaimTypeOK, IsDict
    <2>2. claims[x].state \in ClaimState /\ claims[x] = [claims[x] EXCEPT !.state = claims[x].state]
      BY <2>1 DEF ClaimRecord
    <2>3. CASE x = c
      BY <1>1, <2>3
    <2>4. CASE x # c
      BY <1>1, <2>2, <2>4
    <2> QED
      BY <2>3, <2>4
  <1>4. ClaimTypeOK'
    BY <1>1, <1>2, <1>3, ClaimStatesType DEF TypeOK
  <1> QED
    BY <1>2, <1>4, UnchangedType DEF TypeOK

LEMMA SetControlType ==
  ASSUME TypeOK, NEW r \in Request, NEW s \in Withdrawn \cup {"ACTIVE"}, SetControl(r, s)
  PROVE  TypeOK'
  <1>1. s \in ControlState
    BY QueueAssumption DEF ControlState
  <1>2. ControlTypeOK'
    BY <1>1 DEF TypeOK, ControlTypeOK, SetControl
  <1>3. UNCHANGED <<publicationVars, deliveryVars, claimVars, resultVars, ackVars, retryVars>>
    BY DEF SetControl
  <1> QED
    BY <1>2, <1>3, UnchangedType DEF TypeOK

LEMMA AcceptType ==
  ASSUME TypeOK, NEW c \in DOMAIN claims, NEW b \in Binding, AcceptResult(c, b)
  PROVE  TypeOK'
  <1> DEFINE submission == [claim |-> c, delivery |-> claims[c].delivery,
                            worker |-> claims[c].worker, fence |-> claims[c].fence]
             submissions == Get(resultSubmissions, b.result, <<>>)
             recorded == IF \E i \in DOMAIN submissions : submissions[i] = submission
                         THEN submissions
                         ELSE Append(submissions, submission)
  <1>0. ClaimTypeOK /\ ResultTypeOK
    BY DEF TypeOK
  <1>1. b.result \in Result /\ SlotOf(b) \in Slot
    BY DEF Binding, SlotOf, Slot
  <1>2. submission \in Submission
    <2>1. claims[c] \in ClaimRecord /\ c \in ClaimId
      BY <1>0 DEF ClaimTypeOK, IsDict
    <2> QED
      BY <2>1 DEF ClaimRecord, Submission
  <1>3. submissions \in Seq(Submission)
    BY <1>0 DEF ResultTypeOK, IsDict, Get
  <1>4. recorded \in Seq(Submission)
    <2> HIDE DEF submission, submissions
    <2> QED
      BY <1>2, <1>3
  <1>5. resultSubmissions' = Put(resultSubmissions, b.result, recorded)
    BY DEF AcceptResult, Submissions, SubmissionOf
  <1> HIDE DEF recorded
  <1>6. IsDict(resultSubmissions', Result, Seq(Submission))
    BY <1>0, <1>1, <1>4, <1>5, PutDict DEF ResultTypeOK
  <1>7. \/ UNCHANGED <<acceptedResults, resultSlots>>
        \/ /\ acceptedResults' = Put(acceptedResults, b.result, b)
           /\ resultSlots' = Put(resultSlots, SlotOf(b), b.result)
    BY DEF AcceptResult
  <1>8. IsDict(acceptedResults', Result, Binding) /\ IsDict(resultSlots', Slot, Result)
    <2>1. IsDict(acceptedResults, Result, Binding) /\ IsDict(resultSlots, Slot, Result)
      BY <1>0 DEF ResultTypeOK
    <2>2. IsDict(Put(acceptedResults, b.result, b), Result, Binding)
      BY <1>1, <2>1, PutDict
    <2>3. IsDict(Put(resultSlots, SlotOf(b), b.result), Slot, Result)
      BY <1>1, <2>1, PutDict
    <2> QED
      BY <1>7, <2>1, <2>2, <2>3
  <1>9. UNCHANGED <<publicationVars, deliveryVars, claimVars, controlVars, ackVars, retryVars>>
    BY DEF AcceptResult
  <1>10. ResultTypeOK'
    BY <1>0, <1>6, <1>8, <1>9 DEF ResultTypeOK, deliveryVars, ackVars
  <1> QED
    BY <1>9, <1>10, UnchangedType DEF TypeOK

LEMMA RefuseType ==
  ASSUME TypeOK, NEW c \in DOMAIN claims, NEW b \in Binding, RefuseConflictingResult(c, b)
  PROVE  TypeOK'
  <1>1. b.message \in Message
    BY DEF Binding
  <1>2. /\ conflictedMessages' = conflictedMessages \cup {b.message}
        /\ UNCHANGED <<acknowledged, publicationVars, deliveryVars, claimVars, controlVars,
                       resultVars, retryVars>>
    BY DEF RefuseConflictingResult
  <1>3. ResultTypeOK'
    BY <1>1, <1>2 DEF TypeOK, ResultTypeOK, resultVars, deliveryVars
  <1> QED
    BY <1>2, <1>3, UnchangedType DEF TypeOK

LEMMA AcknowledgeType ==
  ASSUME TypeOK, NEW c \in DOMAIN claims, Acknowledge(c)
  PROVE  TypeOK'
  <1>1. /\ acknowledged' = acknowledged \cup {claims[c].delivery}
        /\ UNCHANGED <<conflictedMessages, publicationVars, deliveryVars, claimVars,
                       controlVars, resultVars, retryVars>>
    BY DEF Acknowledge
  <1>2. claims[c].delivery \in DOMAIN deliveries
    BY DEF TypeOK, ClaimTypeOK
  <1>3. ResultTypeOK'
    BY <1>1, <1>2 DEF TypeOK, ResultTypeOK, resultVars, deliveryVars
  <1> QED
    BY <1>1, <1>3, UnchangedType DEF TypeOK

LEMMA SecurityRejectionType ==
  ASSUME TypeOK, NEW d \in DOMAIN deliveries, EstablishSecurityRejection(d)
  PROVE  TypeOK'
  <1>1. /\ \E C : claims' = Revoke(C)
        /\ securityRejectedRequests' = securityRejectedRequests \cup {RequestOf(d)}
        /\ UNCHANGED <<controls, currentClaim, claimSequence, fenceSequence,
                       publicationVars, deliveryVars, resultVars, ackVars, retryVars>>
    BY DEF EstablishSecurityRejection
  <1>2. RequestOf(d) \in Request
    BY DEF TypeOK, DeliveryTypeOK, IsDict, DeliveryRecord, RequestOf
  <1>3. ControlTypeOK'
    BY <1>1, <1>2 DEF TypeOK, ControlTypeOK
  <1>4. ClaimTypeOK'
    <2>1. PICK C : claims' = Revoke(C)
      BY <1>1
    <2>2. /\ DOMAIN claims' = DOMAIN claims
          /\ \A c \in DOMAIN claims :
                \E s \in ClaimState : claims'[c] = [claims[c] EXCEPT !.state = s]
      BY <2>1, RevokeStates DEF TypeOK
    <2> QED
      BY <1>1, <2>2, ClaimStatesType DEF TypeOK
  <1> QED
    BY <1>1, <1>3, <1>4, UnchangedType DEF TypeOK

LEMMA RetryableType ==
  ASSUME TypeOK, NEW d \in DOMAIN deliveries, NEW f \in Failures, ClassifyRetryable(d, f)
  PROVE  TypeOK'
  <1>1. <<d, f>> \in DeliveryId \X CountedFailure
    BY QueueAssumption DEF TypeOK, DeliveryTypeOK, IsDict
  <1>2. /\ failureCounts' = [failureCounts EXCEPT ![<<d, f>>] = @ + 1]
        /\ UNCHANGED <<deadLetters, redriveCounts, redrives>>
        /\ UNCHANGED <<publicationVars, deliveryVars, claimVars, controlVars, resultVars, ackVars>>
    BY DEF ClassifyRetryable
  <1>3. RetryTypeOK'
    BY <1>1, <1>2 DEF TypeOK, RetryTypeOK, DeadLettered, deliveryVars
  <1> QED
    BY <1>2, <1>3, UnchangedType DEF TypeOK

\* A dead letter adds exactly its delivery to the dead-lettered ones.
LEMMA DeadLetteredGrows ==
  ASSUME deadLetters \in Seq(DeadLetter), NEW x, deadLetters' = Append(deadLetters, x)
  PROVE  DeadLettered' = DeadLettered \cup {x.delivery}
  <1>1. /\ DOMAIN deadLetters' = DOMAIN deadLetters \cup {Len(deadLetters) + 1}
        /\ deadLetters'[Len(deadLetters) + 1] = x
        /\ \A i \in DOMAIN deadLetters : deadLetters'[i] = deadLetters[i]
    OBVIOUS
  <1> QED
    BY <1>1 DEF DeadLettered

LEMMA ExhaustedType ==
  ASSUME TypeOK, NEW d \in DOMAIN deliveries, NEW f \in Failures, ClassifyExhausted(d, f)
  PROVE  TypeOK'
  <1> DEFINE x == [delivery |-> d, classification |-> f]
  <1>1. /\ <<d, f>> \in DeliveryId \X CountedFailure
        /\ x \in DeadLetter /\ x.delivery = d
    BY QueueAssumption DEF TypeOK, DeliveryTypeOK, IsDict, DeadLetter
  <1>2. /\ failureCounts' = [failureCounts EXCEPT ![<<d, f>>] = @ + 1]
        /\ deadLetters' = Append(deadLetters, x)
        /\ \E C : claims' = Revoke(C)
        /\ UNCHANGED <<redriveCounts, redrives>>
        /\ UNCHANGED <<currentClaim, claimSequence, fenceSequence>>
        /\ UNCHANGED <<publicationVars, deliveryVars, controlVars, resultVars, ackVars>>
    BY DEF ClassifyExhausted
  <1> HIDE DEF x
  <1>3. RetryTypeOK'
    <2>1. deadLetters \in Seq(DeadLetter)
      BY DEF TypeOK, RetryTypeOK
    <2>2. deadLetters' \in Seq(DeadLetter)
      BY <1>1, <1>2, <2>1
    <2>3. DeadLettered' = DeadLettered \cup {d}
      BY <1>1, <1>2, <2>1, DeadLetteredGrows
    <2>4. failureCounts' \in [DeliveryId \X CountedFailure -> Nat]
      BY <1>1, <1>2 DEF TypeOK, RetryTypeOK
    <2> QED
      BY <1>2, <2>2, <2>3, <2>4 DEF TypeOK, RetryTypeOK, deliveryVars
  <1>4. ClaimTypeOK'
    <2>1. PICK C : claims' = Revoke(C)
      BY <1>2
    <2>2. /\ DOMAIN claims' = DOMAIN claims
          /\ \A c \in DOMAIN claims :
                \E s \in ClaimState : claims'[c] = [claims[c] EXCEPT !.state = s]
      BY <2>1, RevokeStates DEF TypeOK
    <2> QED
      BY <1>2, <2>2, ClaimStatesType DEF TypeOK
  <1> QED
    BY <1>2, <1>3, <1>4, UnchangedType DEF TypeOK

LEMMA RedriveType ==
  ASSUME TypeOK, NEW i \in DOMAIN deadLetters, RedriveOf(deadLetters[i])
  PROVE  TypeOK'
  <1> DEFINE x == deadLetters[i]
             m == deliveries[x.delivery].message
             r == [source |-> x.delivery, classification |-> x.classification]
  <1>1. x \in DeadLetter /\ x.delivery \in DOMAIN deliveries
    BY DEF TypeOK, RetryTypeOK, DeadLettered
  <1>2. m \in DOMAIN messages /\ m \in Message
    BY <1>1 DEF TypeOK, DeliveryTypeOK, PublicationTypeOK, IsDict
  <1>3. r \in RedriveRecord
    BY <1>1 DEF DeadLetter, RedriveRecord
  <1>4. /\ CreateDelivery(m, TRUE)
        /\ redriveCounts[m] < MaxRedrives
        /\ redriveCounts' = [redriveCounts EXCEPT ![m] = @ + 1]
        /\ redrives' = Put(redrives, deliverySequence + 1, r)
        /\ UNCHANGED <<failureCounts, deadLetters>>
    BY DEF RedriveOf, MayRedrive, ChargedRedrive
  <1> HIDE DEF r, m, x
  <1>5. /\ DOMAIN deliveries' = DOMAIN deliveries \cup {deliverySequence + 1}
        /\ deliverySequence + 1 \in DeliveryId
    BY <1>2, <1>4, CreateDeliveryType
  <1>6. RetryTypeOK'
    <2>0. RetryTypeOK
      BY DEF TypeOK
    <2>1. redriveCounts' \in [Message -> 0..MaxRedrives]
      <3>1. redriveCounts[m] \in 0..MaxRedrives /\ redriveCounts[m] + 1 \in 0..MaxRedrives
        BY <1>2, <1>4, <2>0, QueueAssumption DEF RetryTypeOK
      <3> QED
        BY <1>2, <1>4, <2>0, <3>1 DEF RetryTypeOK
    <2>2. IsDict(redrives', DeliveryId, RedriveRecord)
      BY <1>3, <1>4, <1>5, <2>0, PutDict DEF RetryTypeOK
    <2>3. DOMAIN redrives' \subseteq DOMAIN deliveries'
      BY <1>4, <1>5, <2>0 DEF RetryTypeOK, Put
    <2>4. DeadLettered' \subseteq DOMAIN deliveries'
      BY <1>4, <1>5, <2>0 DEF RetryTypeOK, DeadLettered
    <2> QED
      BY <1>4, <2>0, <2>1, <2>2, <2>3, <2>4 DEF RetryTypeOK
  <1> QED
    BY <1>2, <1>4, <1>6, CreateDeliveryType DEF TypeOK

\* Every step of the adapter keeps its state well typed.
LEMMA StepType == TypeOK /\ [Next]_vars => TypeOK'
  <1> SUFFICES ASSUME TypeOK, [Next]_vars PROVE TypeOK'
    OBVIOUS
  <1>1. ASSUME PublicationNext PROVE TypeOK'
    BY <1>1, PublishType, OutcomeType DEF PublicationNext
  <1>2. ASSUME DeliveryNext PROVE TypeOK'
    <2>1. ASSUME NEW m \in DOMAIN messages, CreateDelivery(m, FALSE), UNCHANGED retryVars
          PROVE  TypeOK'
      BY <2>1, OrdinaryDeliveryType
    <2>2. \A d \in DOMAIN deliveries : deliveries[d].message \in DOMAIN messages
      BY DEF TypeOK, DeliveryTypeOK
    <2> QED
      BY <1>2, <2>1, <2>2
         DEF DeliveryNext, Deliver, RecordProviderDeliveryOccurrence, Redeliver
  <1>3. ASSUME ClaimNext PROVE TypeOK'
    BY <1>3, ClaimType, RenewalType DEF ClaimNext
  <1>4. ASSUME NEW r \in Request, NEW s \in Withdrawn \cup {"ACTIVE"}, SetControl(r, s)
        PROVE  TypeOK'
    BY <1>4, SetControlType
  <1>5. ASSUME ResultNext PROVE TypeOK'
    BY <1>5, AcceptType, RefuseType, AcknowledgeType DEF ResultNext
  <1>6. ASSUME FailureNext PROVE TypeOK'
    BY <1>6, SecurityRejectionType, RetryableType, ExhaustedType, RedriveType
       DEF FailureNext, RedriveDelivery, RedriveMessage
  <1>7. CASE UNCHANGED vars
    <2>1. UNCHANGED <<publicationVars, deliveryVars, claimVars, controlVars, resultVars,
                      ackVars, retryVars>>
      BY <1>7 DEF vars
    <2> QED
      BY <2>1, UnchangedType DEF TypeOK
  <1> QED
    BY <1>1, <1>2, <1>3, <1>4, <1>5, <1>6, <1>7 DEF Next

\* The state of the Queue adapter is well typed in every reachable state: no
\* sequence of public calls leaves a dictionary with a foreign record or with
\* an identity that does not resolve (adapter.py reads them unguarded).
THEOREM TypeCorrect == Spec => []TypeOK
  BY InitType, StepType, PTL DEF Spec

-----------------------------------------------------------------------------
(* What no step takes back.                                                *)

ClaimsPersist ==
    \A c \in DOMAIN claims :
        /\ c \in DOMAIN claims'
        /\ claims'[c].delivery = claims[c].delivery
        /\ claims'[c].worker = claims[c].worker
        /\ claims'[c].fence = claims[c].fence
        /\ claims'[c].state \in LiveClaimState => claims[c].state \in LiveClaimState
        /\ claims'[c].state = "CURRENT" => claims[c].state = "CURRENT"

DeliveriesPersist ==
    \A d \in DOMAIN deliveries :
        d \in DOMAIN deliveries' /\ deliveries'[d] = deliveries[d]

WithdrawalsPersist ==
    /\ DeadLettered \subseteq DeadLettered'
    /\ acknowledged \subseteq acknowledged'
    /\ securityRejectedRequests \subseteq securityRejectedRequests'
    /\ \A r \in Request : controls[r] # "ACTIVE" => controls'[r] # "ACTIVE"

\* Creating a delivery leaves the earlier ones alone.
LEMMA CreateDeliveryPersists ==
  ASSUME TypeOK, NEW m, NEW isRedrive, CreateDelivery(m, isRedrive)
  PROVE  DeliveriesPersist
  <1>1. deliverySequence + 1 \notin DOMAIN deliveries
    BY DEF TypeOK, DeliveryTypeOK
  <1> QED
    BY <1>1 DEF CreateDelivery, DeliveriesPersist, Put

\* Revoking a set of claims keeps their identity and creates no live claim.
LEMMA RevokePersists ==
  ASSUME TypeOK, NEW C, claims' = Revoke(C)
  PROVE  ClaimsPersist
  <1> SUFFICES ASSUME NEW c \in DOMAIN claims
               PROVE  /\ c \in DOMAIN claims'
                      /\ claims'[c].delivery = claims[c].delivery
                      /\ claims'[c].worker = claims[c].worker
                      /\ claims'[c].fence = claims[c].fence
                      /\ claims'[c].state \in LiveClaimState => claims[c].state \in LiveClaimState
                      /\ claims'[c].state = "CURRENT" => claims[c].state = "CURRENT"
    BY DEF ClaimsPersist
  <1>1. claims[c] \in ClaimRecord
    BY DEF TypeOK, ClaimTypeOK, IsDict
  <1>2. CASE c \in C /\ claims[c].state \in LiveClaimState
    <2>1. claims'[c] = [claims[c] EXCEPT !.state = "REVOKED"] /\ c \in DOMAIN claims'
      BY <1>2 DEF Revoke
    <2> QED
      BY <1>1, <2>1 DEF ClaimRecord, LiveClaimState
  <1>3. CASE ~(c \in C /\ claims[c].state \in LiveClaimState)
    <2>1. claims'[c] = claims[c] /\ c \in DOMAIN claims'
      BY <1>3 DEF Revoke
    <2> QED
      BY <2>1
  <1> QED
    BY <1>2, <1>3

LEMMA ClaimPersists ==
  ASSUME TypeOK, NEW d \in DOMAIN deliveries, NEW w \in Worker, Claim(d, w)
  PROVE  ClaimsPersist
  <1> DEFINE m == deliveries[d].message
             previous == Get(currentClaim, m, 0)
             replaced == [c \in DOMAIN claims |->
                            IF c = previous /\ claims[c].state \in LiveClaimState
                            THEN [claims[c] EXCEPT !.state = "REPLACED"]
                            ELSE claims[c]]
             r == [delivery |-> d, worker |-> w,
                   fence |-> fenceSequence + 1, state |-> "CURRENT"]
  <1>1. claims' = Put(replaced, claimSequence + 1, r)
    BY DEF Claim, Replaced
  <1>2. claimSequence + 1 \notin DOMAIN claims
    BY DEF TypeOK, ClaimTypeOK
  <1>3. ASSUME NEW c \in DOMAIN claims
        PROVE  /\ replaced[c].delivery = claims[c].delivery
               /\ replaced[c].worker = claims[c].worker
               /\ replaced[c].fence = claims[c].fence
               /\ replaced[c].state \in LiveClaimState => claims[c].state \in LiveClaimState
               /\ replaced[c].state = "CURRENT" => claims[c].state = "CURRENT"
    <2>1. claims[c] \in ClaimRecord
      BY DEF TypeOK, ClaimTypeOK, IsDict
    <2> QED
      BY <2>1 DEF ClaimRecord, LiveClaimState
  <1>4. DOMAIN replaced = DOMAIN claims
    OBVIOUS
  <1> HIDE DEF replaced, r
  <1> QED
    BY <1>1, <1>2, <1>3, <1>4 DEF ClaimsPersist, Put

LEMMA RenewalPersists ==
  ASSUME TypeOK, NEW c \in DOMAIN claims, MarkRenewalUncertain(c) \/ ConfirmLeaseLoss(c)
  PROVE  ClaimsPersist
  <1> SUFFICES ASSUME NEW x \in DOMAIN claims
               PROVE  /\ x \in DOMAIN claims'
                      /\ claims'[x].delivery = claims[x].delivery
                      /\ claims'[x].worker = claims[x].worker
                      /\ claims'[x].fence = claims[x].fence
                      /\ claims'[x].state \in LiveClaimState => claims[x].state \in LiveClaimState
                      /\ claims'[x].state = "CURRENT" => claims[x].state = "CURRENT"
    BY DEF ClaimsPersist
  <1>1. claims[x] \in ClaimRecord
    BY DEF TypeOK, ClaimTypeOK, IsDict
  <1>2. CASE MarkRenewalUncertain(c)
    BY <1>1, <1>2 DEF MarkRenewalUncertain, ClaimRecord, LiveClaimState
  <1>3. CASE ConfirmLeaseLoss(c)
    BY <1>1, <1>3 DEF ConfirmLeaseLoss, ClaimRecord, LiveClaimState
  <1> QED
    BY <1>2, <1>3

\* What a step leaves unchanged persists.
LEMMA UnchangedPersists ==
  /\ UNCHANGED claimVars => ClaimsPersist
  /\ UNCHANGED deliveryVars => DeliveriesPersist
  /\ UNCHANGED <<controlVars, ackVars, retryVars>> => WithdrawalsPersist
  BY DEF claimVars, deliveryVars, controlVars, ackVars, retryVars, ClaimsPersist,
         DeliveriesPersist, WithdrawalsPersist, DeadLettered

\* Claims keep their identity and never become live again, deliveries are
\* immutable, and dead letters, acknowledgements, security rejections and
\* withdrawn controls are for good.
LEMMA StepPersists ==
  TypeOK /\ [Next]_vars => ClaimsPersist /\ DeliveriesPersist /\ WithdrawalsPersist
  <1> SUFFICES ASSUME TypeOK, [Next]_vars
               PROVE  ClaimsPersist /\ DeliveriesPersist /\ WithdrawalsPersist
    OBVIOUS
  <1> DEFINE Goal == ClaimsPersist /\ DeliveriesPersist /\ WithdrawalsPersist
  <1>1. ASSUME PublicationNext PROVE Goal
    <2>1. UNCHANGED <<deliveryVars, claimVars, controlVars, ackVars, retryVars>>
      BY <1>1 DEF PublicationNext, Publish, RecordPublicationOutcome
    <2> QED
      BY <2>1, UnchangedPersists
  <1>2. ASSUME NEW m, NEW isRedrive, CreateDelivery(m, isRedrive),
               UNCHANGED <<failureCounts, deadLetters>>
        PROVE  Goal
    <2>1. UNCHANGED <<claimVars, controlVars, ackVars, deadLetters>>
      BY <1>2 DEF CreateDelivery
    <2>2. WithdrawalsPersist
      BY <2>1 DEF WithdrawalsPersist, DeadLettered, controlVars, ackVars
    <2> QED
      BY <1>2, <2>1, <2>2, CreateDeliveryPersists, UnchangedPersists
  <1>3. ASSUME DeliveryNext PROVE Goal
    <2>1. PICK m : CreateDelivery(m, FALSE) /\ UNCHANGED retryVars
      BY <1>3 DEF DeliveryNext, Deliver, RecordProviderDeliveryOccurrence, Redeliver
    <2> QED
      BY <1>2, <2>1 DEF retryVars
  <1>4. ASSUME ClaimNext PROVE Goal
    <2>1. UNCHANGED <<deliveryVars, controlVars, ackVars, retryVars>>
      BY <1>4 DEF ClaimNext, Claim, MarkRenewalUncertain, ConfirmLeaseLoss
    <2>2. ClaimsPersist
      BY <1>4, ClaimPersists, RenewalPersists DEF ClaimNext
    <2> QED
      BY <2>1, <2>2, UnchangedPersists
  <1>5. ASSUME NEW r \in Request, NEW s \in Withdrawn \cup {"ACTIVE"}, SetControl(r, s)
        PROVE  Goal
    <2>1. UNCHANGED <<securityRejectedRequests, deliveryVars, claimVars, ackVars, retryVars>>
      BY <1>5 DEF SetControl
    <2>2. \A q \in Request : controls[q] # "ACTIVE" => controls'[q] # "ACTIVE"
      BY <1>5 DEF SetControl, TypeOK, ControlTypeOK, MaySetControl
    <2>3. WithdrawalsPersist
      BY <2>1, <2>2 DEF WithdrawalsPersist, DeadLettered, ackVars, retryVars
    <2> QED
      BY <2>1, <2>3, UnchangedPersists
  <1>6. ASSUME ResultNext PROVE Goal
    <2>1. UNCHANGED <<deliveryVars, claimVars, controlVars, retryVars>>
      BY <1>6 DEF ResultNext, AcceptResult, RefuseConflictingResult, Acknowledge
    <2>2. acknowledged \subseteq acknowledged'
      BY <1>6 DEF ResultNext, AcceptResult, RefuseConflictingResult, Acknowledge, ackVars
    <2>3. WithdrawalsPersist
      BY <2>1, <2>2 DEF WithdrawalsPersist, DeadLettered, controlVars, retryVars
    <2> QED
      BY <2>1, <2>3, UnchangedPersists
  <1>7. ASSUME NEW d \in DOMAIN deliveries, EstablishSecurityRejection(d) PROVE Goal
    <2>1. UNCHANGED <<controls, deliveryVars, ackVars, retryVars>>
      BY <1>7 DEF EstablishSecurityRejection
    <2>2. WithdrawalsPersist
      BY <1>7, <2>1 DEF EstablishSecurityRejection, WithdrawalsPersist, DeadLettered,
                        ackVars, retryVars
    <2>3. ClaimsPersist
      BY <1>7, RevokePersists DEF EstablishSecurityRejection
    <2> QED
      BY <2>1, <2>2, <2>3, UnchangedPersists
  <1>8. ASSUME NEW d \in DOMAIN deliveries, NEW f \in Failures, ClassifyRetryable(d, f)
        PROVE  Goal
    <2>1. UNCHANGED <<deadLetters, deliveryVars, claimVars, controlVars, ackVars>>
      BY <1>8 DEF ClassifyRetryable
    <2>2. WithdrawalsPersist
      BY <2>1 DEF WithdrawalsPersist, DeadLettered, controlVars, ackVars
    <2> QED
      BY <2>1, <2>2, UnchangedPersists
  <1>9. ASSUME NEW d \in DOMAIN deliveries, NEW f \in Failures, ClassifyExhausted(d, f)
        PROVE  Goal
    <2>1. UNCHANGED <<deliveryVars, controlVars, ackVars>>
      BY <1>9 DEF ClassifyExhausted
    <2>2. DeadLettered \subseteq DeadLettered'
      <3>1. deadLetters \in Seq(DeadLetter)
        BY DEF TypeOK, RetryTypeOK
      <3> QED
        BY <1>9, <3>1, DeadLetteredGrows DEF ClassifyExhausted
    <2>3. WithdrawalsPersist
      BY <2>1, <2>2 DEF WithdrawalsPersist, controlVars, ackVars
    <2>4. ClaimsPersist
      BY <1>9, RevokePersists DEF ClassifyExhausted
    <2> QED
      BY <2>1, <2>3, <2>4, UnchangedPersists
  <1>10. ASSUME NEW x, RedriveOf(x) PROVE Goal
    BY <1>2, <1>10 DEF RedriveOf
  <1>11. ASSUME FailureNext PROVE Goal
    BY <1>7, <1>8, <1>9, <1>10, <1>11 DEF FailureNext, RedriveDelivery, RedriveMessage
  <1>12. CASE UNCHANGED vars
    <2>1. UNCHANGED <<deliveryVars, claimVars, controlVars, ackVars, retryVars>>
      BY <1>12 DEF vars
    <2> QED
      BY <2>1, UnchangedPersists
  <1> QED
    BY <1>1, <1>3, <1>4, <1>5, <1>6, <1>11, <1>12 DEF Next

-----------------------------------------------------------------------------
(* Fencing: the latest claim of a message is the only one with authority.  *)

\* MessageOfClaim in the next state.
MessageAfter(c) == deliveries'[claims'[c].delivery].message

LEMMA InitLatestClaim == Init => LatestClaimIsCurrent
  BY DEF Init, LatestClaimIsCurrent, Empty

\* The invariant survives any step that grants no claim.
LEMMA LatestClaimKept ==
  ASSUME TypeOK, LatestClaimIsCurrent, ClaimsPersist, DeliveriesPersist,
         DOMAIN claims' = DOMAIN claims,
         UNCHANGED <<currentClaim, claimSequence, fenceSequence>>
  PROVE  LatestClaimIsCurrent'
  <1>1. \A c \in DOMAIN claims : MessageAfter(c) = MessageOfClaim(c)
    BY DEF TypeOK, ClaimTypeOK, ClaimsPersist, DeliveriesPersist, MessageOfClaim,
           MessageAfter
  <1>2. \A m \in DOMAIN currentClaim : currentClaim[m] \in DOMAIN claims
    BY DEF TypeOK, ClaimTypeOK, IsDict
  <1>3. \A m \in DOMAIN currentClaim' : MessageAfter(currentClaim'[m]) = m
    BY <1>1, <1>2 DEF LatestClaimIsCurrent
  <1>4. \A c \in DOMAIN claims' :
           /\ MessageAfter(c) \in DOMAIN currentClaim'
           /\ c <= currentClaim'[MessageAfter(c)]
           /\ claims'[c].state \in LiveClaimState => currentClaim'[MessageAfter(c)] = c
    BY <1>1 DEF LatestClaimIsCurrent, ClaimsPersist
  <1>5. \A c \in DOMAIN claims' : claims'[c].fence = c
    BY DEF LatestClaimIsCurrent, ClaimsPersist
  <1> QED
    BY <1>3, <1>4, <1>5 DEF LatestClaimIsCurrent, MessageOfClaim, MessageAfter

\* A new claim is the latest of its message and the only live one.
LEMMA LatestClaimGranted ==
  ASSUME TypeOK, LatestClaimIsCurrent, NEW d \in DOMAIN deliveries, NEW w \in Worker,
         Claim(d, w)
  PROVE  LatestClaimIsCurrent'
  <1> DEFINE m == deliveries[d].message
             previous == Get(currentClaim, m, 0)
             replaced == [c \in DOMAIN claims |->
                            IF c = previous /\ claims[c].state \in LiveClaimState
                            THEN [claims[c] EXCEPT !.state = "REPLACED"]
                            ELSE claims[c]]
             n == claimSequence + 1
             r == [delivery |-> d, worker |-> w,
                   fence |-> fenceSequence + 1, state |-> "CURRENT"]
  <1>0. ClaimTypeOK /\ DeliveryTypeOK
    BY DEF TypeOK
  <1>1. /\ claims' = Put(replaced, n, r)
        /\ currentClaim' = Put(currentClaim, m, n)
        /\ claimSequence' = n /\ fenceSequence' = fenceSequence + 1
        /\ UNCHANGED deliveries
    BY DEF Claim, deliveryVars, Replaced
  <1>2. n \notin DOMAIN claims /\ n \in Nat /\ \A c \in DOMAIN claims : c \in Nat /\ c < n
    BY <1>0 DEF ClaimTypeOK
  <1>3. DOMAIN replaced = DOMAIN claims
    OBVIOUS
  <1>4. ASSUME NEW c \in DOMAIN claims
        PROVE  /\ replaced[c].delivery = claims[c].delivery
               /\ replaced[c].fence = claims[c].fence
               /\ MessageOfClaim(c) = m => replaced[c].state \notin LiveClaimState
               /\ replaced[c].state \in LiveClaimState => claims[c].state \in LiveClaimState
    <2>1. claims[c] \in ClaimRecord
      BY <1>0 DEF ClaimTypeOK, IsDict
    <2>2. MessageOfClaim(c) = m /\ claims[c].state \in LiveClaimState => c = previous
      BY DEF LatestClaimIsCurrent, Get
    <2> QED
      BY <2>1, <2>2 DEF ClaimRecord, LiveClaimState
  <1>5. r.delivery = d /\ r.fence = fenceSequence + 1
    OBVIOUS
  <1> HIDE DEF replaced, r, n
  <1>6. DOMAIN claims' = DOMAIN claims \cup {n} /\ claims'[n] = r
        /\ \A c \in DOMAIN claims : claims'[c] = replaced[c]
    BY <1>1, <1>2, <1>3 DEF Put
  <1>7. MessageAfter(n) = m /\ \A c \in DOMAIN claims : MessageAfter(c) = MessageOfClaim(c)
    BY <1>1, <1>4, <1>5, <1>6 DEF MessageOfClaim, MessageAfter
  <1>8. DOMAIN currentClaim' = DOMAIN currentClaim \cup {m} /\ currentClaim'[m] = n
        /\ \A x \in DOMAIN currentClaim : x # m => currentClaim'[x] = currentClaim[x]
    BY <1>1 DEF Put
  <1>9. \A x \in DOMAIN currentClaim : currentClaim[x] \in DOMAIN claims
    BY <1>0 DEF ClaimTypeOK, IsDict
  <1>10. fenceSequence' = claimSequence' /\ \A c \in DOMAIN claims' : claims'[c].fence = c
    BY <1>1, <1>4, <1>5, <1>6 DEF LatestClaimIsCurrent, n
  <1>11. \A x \in DOMAIN currentClaim' : MessageAfter(currentClaim'[x]) = x
    BY <1>7, <1>8, <1>9 DEF LatestClaimIsCurrent
  <1>12. ASSUME NEW c \in DOMAIN claims'
         PROVE  /\ MessageAfter(c) \in DOMAIN currentClaim'
                /\ c <= currentClaim'[MessageAfter(c)]
                /\ claims'[c].state \in LiveClaimState => currentClaim'[MessageAfter(c)] = c
    <2>1. CASE c = n
      BY <1>2, <1>7, <1>8, <2>1
    <2>2. CASE c \in DOMAIN claims /\ MessageOfClaim(c) = m
      BY <1>2, <1>4, <1>6, <1>7, <1>8, <2>2
    <2>3. CASE c \in DOMAIN claims /\ MessageOfClaim(c) # m
      BY <1>4, <1>6, <1>7, <1>8, <2>3 DEF LatestClaimIsCurrent
    <2> QED
      BY <1>6, <2>1, <2>2, <2>3
  <1> QED
    BY <1>10, <1>11, <1>12 DEF LatestClaimIsCurrent, MessageOfClaim, MessageAfter

LEMMA StepLatestClaim ==
  TypeOK /\ LatestClaimIsCurrent /\ [Next]_vars => LatestClaimIsCurrent'
  <1> SUFFICES ASSUME TypeOK, LatestClaimIsCurrent, [Next]_vars
               PROVE  LatestClaimIsCurrent'
    OBVIOUS
  <1>1. ClaimsPersist /\ DeliveriesPersist
    BY StepPersists
  <1>2. ASSUME NEW d \in DOMAIN deliveries, NEW w \in Worker, Claim(d, w)
        PROVE  LatestClaimIsCurrent'
    BY <1>2, LatestClaimGranted
  <1>3. ASSUME UNCHANGED claimVars PROVE LatestClaimIsCurrent'
    BY <1>1, <1>3, LatestClaimKept DEF claimVars
  <1>4. ASSUME NEW c \in DOMAIN claims, MarkRenewalUncertain(c) \/ ConfirmLeaseLoss(c)
        PROVE  LatestClaimIsCurrent'
    <2>1. DOMAIN claims' = DOMAIN claims
          /\ UNCHANGED <<currentClaim, claimSequence, fenceSequence>>
      BY <1>4 DEF MarkRenewalUncertain, ConfirmLeaseLoss
    <2> QED
      BY <1>1, <2>1, LatestClaimKept
  <1>5. ASSUME NEW C, claims' = Revoke(C),
               UNCHANGED <<currentClaim, claimSequence, fenceSequence>>
        PROVE  LatestClaimIsCurrent'
    <2>1. DOMAIN claims' = DOMAIN claims
      BY <1>5 DEF Revoke
    <2> QED
      BY <1>1, <1>5, <2>1, LatestClaimKept
  <1>6. ASSUME PublicationNext PROVE LatestClaimIsCurrent'
    BY <1>3, <1>6 DEF PublicationNext, Publish, RecordPublicationOutcome
  <1>7. ASSUME DeliveryNext PROVE LatestClaimIsCurrent'
    BY <1>3, <1>7 DEF DeliveryNext, Deliver, RecordProviderDeliveryOccurrence, Redeliver,
                      CreateDelivery
  <1>8. ASSUME ClaimNext PROVE LatestClaimIsCurrent'
    BY <1>2, <1>4, <1>8 DEF ClaimNext
  <1>9. ASSUME NEW r \in Request, NEW s, SetControl(r, s) PROVE LatestClaimIsCurrent'
    BY <1>3, <1>9 DEF SetControl
  <1>10. ASSUME ResultNext PROVE LatestClaimIsCurrent'
    BY <1>3, <1>10 DEF ResultNext, AcceptResult, RefuseConflictingResult, Acknowledge
  <1>11. ASSUME NEW d, EstablishSecurityRejection(d) PROVE LatestClaimIsCurrent'
    BY <1>5, <1>11 DEF EstablishSecurityRejection
  <1>12. ASSUME NEW d, NEW f, ClassifyExhausted(d, f) PROVE LatestClaimIsCurrent'
    BY <1>5, <1>12 DEF ClassifyExhausted
  <1>13. ASSUME NEW d, NEW f, ClassifyRetryable(d, f) PROVE LatestClaimIsCurrent'
    BY <1>3, <1>13 DEF ClassifyRetryable
  <1>14. ASSUME NEW x, RedriveOf(x) PROVE LatestClaimIsCurrent'
    BY <1>3, <1>14 DEF RedriveOf, CreateDelivery
  <1>15. ASSUME FailureNext PROVE LatestClaimIsCurrent'
    BY <1>11, <1>12, <1>13, <1>14, <1>15 DEF FailureNext, RedriveDelivery, RedriveMessage
  <1>16. CASE UNCHANGED vars
    BY <1>3, <1>16 DEF vars
  <1> QED
    BY <1>6, <1>7, <1>8, <1>9, <1>10, <1>15, <1>16 DEF Next

\* In every reachable state, for any number of messages, deliveries, workers
\* and claims: fences follow the order of the claims, and only the claim that
\* _current_claim names can be live.
THEOREM LatestClaimCorrect == Spec => [](TypeOK /\ LatestClaimIsCurrent)
  BY InitType, InitLatestClaim, StepType, StepLatestClaim, PTL DEF Spec

\* At most one claim per message is live, and it holds the highest fence of the
\* message: adapter.claim fences out every earlier worker.
THEOREM FencingCorrect == Spec => []LiveClaimHasHighestFence
  <1>1. TypeOK /\ LatestClaimIsCurrent => LiveClaimHasHighestFence
    <2> SUFFICES ASSUME TypeOK, LatestClaimIsCurrent, NEW c \in DOMAIN claims,
                        claims[c].state \in LiveClaimState
                 PROVE  /\ Get(currentClaim, MessageOfClaim(c), 0) = c
                        /\ \A o \in DOMAIN claims :
                              MessageOfClaim(o) = MessageOfClaim(c) /\ o # c =>
                                  /\ claims[o].state \notin LiveClaimState
                                  /\ claims[o].fence < claims[c].fence
      BY DEF LiveClaimHasHighestFence
    <2>1. \A o \in DOMAIN claims : o \in Nat
      BY DEF TypeOK, ClaimTypeOK
    <2> QED
      BY <2>1 DEF LatestClaimIsCurrent, Get
  <1> QED
    BY <1>1, LatestClaimCorrect, PTL

\* No step gives authority to a claim that lacks it.
LEMMA StepAuthority ==
  ASSUME TypeOK, LatestClaimIsCurrent, [Next]_vars,
         NEW c \in DOMAIN claims, CanProduceProtectedEffect(c)'
  PROVE  CanProduceProtectedEffect(c)
  <1> DEFINE d == claims[c].delivery
  <1>1. ClaimsPersist /\ DeliveriesPersist /\ WithdrawalsPersist
    BY StepPersists
  <1>2. d \in DOMAIN deliveries /\ deliveries[d] \in DeliveryRecord
    BY DEF TypeOK, ClaimTypeOK, DeliveryTypeOK, IsDict
  <1>3. /\ claims'[c].delivery = d /\ deliveries'[d] = deliveries[d]
        /\ deliveries[d].request \in Request
    BY <1>1, <1>2 DEF ClaimsPersist, DeliveriesPersist, DeliveryRecord
  <1>4. claims[c].state = "CURRENT"
    BY <1>1 DEF CanProduceProtectedEffect, ClaimsPersist
  <1>5. Get(currentClaim, deliveries[d].message, 0) = c
    BY <1>4 DEF LatestClaimIsCurrent, MessageOfClaim, Get, LiveClaimState
  <1>6. d \notin DeadLettered /\ d \notin acknowledged
        /\ deliveries[d].request \notin securityRejectedRequests
    BY <1>1, <1>3 DEF CanProduceProtectedEffect, WithdrawalsPersist, RequestOf
  <1>7. controls[deliveries[d].request] = "ACTIVE"
    BY <1>1, <1>3 DEF CanProduceProtectedEffect, WithdrawalsPersist, RequestOf, IsActive
  <1> QED
    BY <1>4, <1>5, <1>6, <1>7 DEF CanProduceProtectedEffect, RequestOf, IsActive

\* A claim without authority stays without it for ever, through every later
\* claim, renewal, control, redelivery, classification and redrive.
THEOREM AuthorityCorrect == Spec => AuthorityIsNeverRegained
  <1>1. TypeOK /\ LatestClaimIsCurrent /\ [Next]_vars =>
           [\A c \in DOMAIN claims :
               ~CanProduceProtectedEffect(c) => ~CanProduceProtectedEffect(c)']_vars
    BY StepAuthority
  <1> QED
    BY <1>1, LatestClaimCorrect, PTL DEF Spec, AuthorityIsNeverRegained

-----------------------------------------------------------------------------
(* Results: one per slot, never overwritten.                               *)

\* The inductive form of OneResultPerSlot and AcceptedResultsAreFinal.
ResultInv == /\ OneResultPerSlot
             /\ DOMAIN resultSubmissions = DOMAIN acceptedResults
             /\ \A r \in DOMAIN resultSubmissions : resultSubmissions[r] # <<>>

\* Every step but accept_result leaves the results alone.
LEMMA ResultsTouchedByAcceptOnly ==
  ASSUME [Next]_vars,
         ~ \E c \in DOMAIN claims : \E b \in Binding : AcceptResult(c, b)
  PROVE  UNCHANGED resultVars
  <1>1. ASSUME PublicationNext PROVE UNCHANGED resultVars
    BY <1>1 DEF PublicationNext, Publish, RecordPublicationOutcome
  <1>2. ASSUME DeliveryNext PROVE UNCHANGED resultVars
    BY <1>2 DEF DeliveryNext, Deliver, RecordProviderDeliveryOccurrence, Redeliver,
                CreateDelivery
  <1>3. ASSUME ClaimNext PROVE UNCHANGED resultVars
    BY <1>3 DEF ClaimNext, Claim, MarkRenewalUncertain, ConfirmLeaseLoss
  <1>4. ASSUME NEW r, NEW s, SetControl(r, s) PROVE UNCHANGED resultVars
    BY <1>4 DEF SetControl
  <1>5. ASSUME ResultNext PROVE UNCHANGED resultVars
    BY <1>5 DEF ResultNext, RefuseConflictingResult, Acknowledge
  <1>6. ASSUME FailureNext PROVE UNCHANGED resultVars
    BY <1>6 DEF FailureNext, EstablishSecurityRejection, ClassifyRetryable,
                ClassifyExhausted, RedriveDelivery, RedriveMessage, RedriveOf, CreateDelivery
  <1>7. CASE UNCHANGED vars
    BY <1>7 DEF vars
  <1> QED
    BY <1>1, <1>2, <1>3, <1>4, <1>5, <1>6, <1>7 DEF Next

\* Submission records are only appended to.
SubmissionsGrow ==
    \A r \in DOMAIN resultSubmissions :
        /\ r \in DOMAIN resultSubmissions'
        /\ Len(resultSubmissions'[r]) >= Len(resultSubmissions[r])
        /\ \A i \in DOMAIN resultSubmissions[r] :
              resultSubmissions'[r][i] = resultSubmissions[r][i]

\* What accept_result does to the three result dictionaries.
LEMMA AcceptEffect ==
  ASSUME TypeOK, ResultInv, NEW c \in DOMAIN claims, NEW b \in Binding, AcceptResult(c, b)
  PROVE  /\ \/ /\ b.result \in DOMAIN acceptedResults
               /\ UNCHANGED <<acceptedResults, resultSlots>>
            \/ /\ b.result \notin DOMAIN acceptedResults
               /\ SlotOf(b) \notin DOMAIN resultSlots
               /\ acceptedResults' = Put(acceptedResults, b.result, b)
               /\ resultSlots' = Put(resultSlots, SlotOf(b), b.result)
         /\ DOMAIN resultSubmissions' = DOMAIN resultSubmissions \cup {b.result}
         /\ SubmissionsGrow
         /\ \A r \in DOMAIN resultSubmissions' : resultSubmissions'[r] # <<>>
         /\ b.result \notin DOMAIN resultSubmissions =>
               resultSubmissions'[b.result][1].fence = claims[c].fence
  <1> DEFINE submission == [claim |-> c, delivery |-> claims[c].delivery,
                            worker |-> claims[c].worker, fence |-> claims[c].fence]
             submissions == Get(resultSubmissions, b.result, <<>>)
             recorded == IF \E i \in DOMAIN submissions : submissions[i] = submission
                         THEN submissions
                         ELSE Append(submissions, submission)
  <1>1. SlotOf(b) \in DOMAIN resultSlots => resultSlots[SlotOf(b)] = b.result
    BY DEF AcceptResult, Conflicting, Get
  <1>2. SlotOf(b) \in DOMAIN resultSlots => resultSlots[SlotOf(b)] \in DOMAIN acceptedResults
    BY DEF ResultInv, OneResultPerSlot
  <1>3. resultSubmissions' = Put(resultSubmissions, b.result, recorded)
    BY DEF AcceptResult, Submissions, SubmissionOf
  <1>4. submissions \in Seq(Submission) /\ submission \in Submission
    <2>1. submissions \in Seq(Submission)
      BY DEF TypeOK, ResultTypeOK, IsDict, Get
    <2>2. claims[c] \in ClaimRecord /\ c \in ClaimId
      BY DEF TypeOK, ClaimTypeOK, IsDict
    <2> QED
      BY <2>1, <2>2 DEF ClaimRecord, Submission
  <1>5. /\ recorded # <<>>
        /\ Len(recorded) >= Len(submissions)
        /\ \A i \in DOMAIN submissions : recorded[i] = submissions[i]
        /\ submissions = <<>> => recorded[1] = submission
    <2>1. recorded = IF \E i \in DOMAIN submissions : submissions[i] = submission
                     THEN submissions
                     ELSE Append(submissions, submission)
      OBVIOUS
    <2> HIDE DEF submissions, submission, recorded
    <2>2. CASE \E i \in DOMAIN submissions : submissions[i] = submission
      BY <1>4, <2>1, <2>2
    <2>3. CASE ~ \E i \in DOMAIN submissions : submissions[i] = submission
      BY <1>4, <2>1, <2>3
    <2> QED
      BY <2>2, <2>3
  <1>6. submission.fence = claims[c].fence
    OBVIOUS
  <1>7. b.result \notin DOMAIN resultSubmissions => submissions = <<>>
    BY DEF Get
  <1>8. b.result \in DOMAIN resultSubmissions => submissions = resultSubmissions[b.result]
    BY DEF Get
  <1>9. \A r \in DOMAIN resultSubmissions :
           Len(resultSubmissions[r]) >= Len(resultSubmissions[r])
    BY DEF TypeOK, ResultTypeOK, IsDict
  <1> HIDE DEF recorded, submission, submissions
  <1>10. SubmissionsGrow
    BY <1>3, <1>5, <1>8, <1>9 DEF Put, SubmissionsGrow
  <1>11. /\ DOMAIN resultSubmissions' = DOMAIN resultSubmissions \cup {b.result}
         /\ resultSubmissions'[b.result] = recorded
         /\ \A r \in DOMAIN resultSubmissions :
               r # b.result => resultSubmissions'[r] = resultSubmissions[r]
    BY <1>3 DEF Put
  <1>12. \A r \in DOMAIN resultSubmissions' : resultSubmissions'[r] # <<>>
    BY <1>5, <1>11 DEF ResultInv
  <1> QED
    BY <1>1, <1>2, <1>5, <1>6, <1>7, <1>10, <1>11, <1>12 DEF AcceptResult

LEMMA StepResults == TypeOK /\ ResultInv /\ [Next]_vars => ResultInv'
  <1> SUFFICES ASSUME TypeOK, ResultInv, [Next]_vars PROVE ResultInv'
    OBVIOUS
  <1>1. ASSUME UNCHANGED resultVars PROVE ResultInv'
    BY <1>1 DEF ResultInv, OneResultPerSlot, resultVars
  <1>2. ASSUME NEW c \in DOMAIN claims, NEW b \in Binding, AcceptResult(c, b)
        PROVE  ResultInv'
    <2> DEFINE s == SlotOf(b)
    <2>1. /\ DOMAIN resultSubmissions' = DOMAIN resultSubmissions \cup {b.result}
          /\ \A r \in DOMAIN resultSubmissions' : resultSubmissions'[r] # <<>>
      BY <1>2, AcceptEffect
    <2>2. CASE b.result \in DOMAIN acceptedResults
               /\ UNCHANGED <<acceptedResults, resultSlots>>
      BY <2>1, <2>2 DEF ResultInv, OneResultPerSlot
    <2>3. CASE /\ b.result \notin DOMAIN acceptedResults
               /\ s \notin DOMAIN resultSlots
               /\ acceptedResults' = Put(acceptedResults, b.result, b)
               /\ resultSlots' = Put(resultSlots, s, b.result)
      <3> HIDE DEF s
      <3>1. /\ DOMAIN acceptedResults' = DOMAIN acceptedResults \cup {b.result}
            /\ DOMAIN resultSlots' = DOMAIN resultSlots \cup {s}
            /\ acceptedResults'[b.result] = b /\ resultSlots'[s] = b.result
            /\ \A r \in DOMAIN acceptedResults : acceptedResults'[r] = acceptedResults[r]
            /\ \A t \in DOMAIN resultSlots : resultSlots'[t] = resultSlots[t]
        BY <2>3 DEF Put
      <3>2. \A r \in DOMAIN acceptedResults' :
               /\ acceptedResults'[r].result = r
               /\ SlotOf(acceptedResults'[r]) \in DOMAIN resultSlots'
               /\ resultSlots'[SlotOf(acceptedResults'[r])] = r
        BY <3>1 DEF ResultInv, OneResultPerSlot, s
      <3>3. \A t \in DOMAIN resultSlots' :
               /\ resultSlots'[t] \in DOMAIN acceptedResults'
               /\ SlotOf(acceptedResults'[resultSlots'[t]]) = t
        BY <3>1 DEF ResultInv, OneResultPerSlot, s
      <3> QED
        BY <2>1, <3>1, <3>2, <3>3 DEF ResultInv, OneResultPerSlot
    <2> QED
      BY <1>2, <2>2, <2>3, AcceptEffect
  <1> QED
    BY <1>1, <1>2, ResultsTouchedByAcceptOnly

LEMMA ResultInvCorrect == Spec => [](TypeOK /\ ResultInv)
  <1>1. Init => ResultInv
    BY DEF Init, ResultInv, OneResultPerSlot, Empty
  <1> QED
    BY <1>1, InitType, StepType, StepResults, PTL DEF Spec

\* An accepted result is never overwritten, rebound or dropped, and the record
\* of its submissions only grows.
THEOREM AcceptedResultsCorrect == Spec => AcceptedResultsAreFinal
  <1> DEFINE Final ==
        \A r \in DOMAIN acceptedResults :
          /\ r \in DOMAIN acceptedResults'
          /\ acceptedResults'[r] = acceptedResults[r]
          /\ r \in DOMAIN resultSubmissions'
          /\ Len(resultSubmissions'[r]) >= Len(resultSubmissions[r])
          /\ \A i \in DOMAIN resultSubmissions[r] :
                resultSubmissions'[r][i] = resultSubmissions[r][i]
  <1>1. TypeOK /\ ResultInv /\ [Next]_vars => [Final]_vars
    <2> SUFFICES ASSUME TypeOK, ResultInv, [Next]_vars PROVE Final
      OBVIOUS
    <2>1. DOMAIN resultSubmissions = DOMAIN acceptedResults
      BY DEF ResultInv
    <2>2. ASSUME NEW c \in DOMAIN claims, NEW b \in Binding, AcceptResult(c, b)
          PROVE  Final
      <3>1. SubmissionsGrow
        BY <2>2, AcceptEffect
      <3>2. \A r \in DOMAIN acceptedResults :
               r \in DOMAIN acceptedResults' /\ acceptedResults'[r] = acceptedResults[r]
        BY <2>2, AcceptEffect DEF Put
      <3> QED
        BY <2>1, <3>1, <3>2 DEF SubmissionsGrow
    <2>3. CASE UNCHANGED resultVars
      <3>1. \A r \in DOMAIN resultSubmissions :
               Len(resultSubmissions[r]) >= Len(resultSubmissions[r])
        BY DEF TypeOK, ResultTypeOK, IsDict
      <3> QED
        BY <2>1, <2>3, <3>1 DEF resultVars
    <2> QED
      BY <2>2, <2>3, ResultsTouchedByAcceptOnly
  <1> QED
    BY <1>1, ResultInvCorrect, PTL DEF Spec, AcceptedResultsAreFinal

\* Duplicate deliveries, replaced workers and repeated submissions never fill a
\* result slot twice nor file a result under two slots.
THEOREM OneResultPerSlotCorrect == Spec => []OneResultPerSlot
  <1>1. ResultInv => OneResultPerSlot
    BY DEF ResultInv
  <1> QED
    BY <1>1, ResultInvCorrect, PTL

-----------------------------------------------------------------------------
(* The adapter implements FencedEffects.                                   *)

Holders == [m \in Message |-> HolderOf(m)]
Effects == {EffectOf(r) : r \in DOMAIN acceptedResults}

RefinementInv == TypeOK /\ LatestClaimIsCurrent /\ ResultInv

LEMMA RefinementInvCorrect == Spec => []RefinementInv
  BY LatestClaimCorrect, ResultInvCorrect, PTL DEF RefinementInv

LEMMA RefinementInit == Init => Authority!Init
  <1> SUFFICES ASSUME Init PROVE Authority!Init
    OBVIOUS
  <1>1. DOMAIN currentClaim = {} /\ DOMAIN acceptedResults = {} /\ fenceSequence = 0
    BY DEF Init, Empty
  <1>2. \A m \in Message : HolderOf(m) = 0
    BY <1>1 DEF HolderOf
  <1> QED
    BY <1>1, <1>2 DEF Authority!Init

LEMMA UnchangedEffects == UNCHANGED resultVars => Effects' = Effects
  BY DEF Effects, EffectOf, resultVars

\* A step that grants no claim leaves each message with its holder or with none.
LEMMA HolderKeptOrDropped ==
  ASSUME RefinementInv, [Next]_vars, UNCHANGED currentClaim, NEW m \in Message
  PROVE  HolderOf(m)' \in {0, HolderOf(m)}
  <1>1. CASE m \in DOMAIN currentClaim /\ CanProduceProtectedEffect(currentClaim[m])'
    <2> DEFINE c == currentClaim[m]
    <2>1. c \in DOMAIN claims /\ c' = c
      BY <1>1 DEF RefinementInv, TypeOK, ClaimTypeOK, IsDict
    <2>2. CanProduceProtectedEffect(c)
      <3> HIDE DEF c
      <3>1. CanProduceProtectedEffect(c)'
        BY <1>1 DEF c
      <3>2. ASSUME NEW x \in DOMAIN claims, CanProduceProtectedEffect(x)'
            PROVE  CanProduceProtectedEffect(x)
        BY <3>2, StepAuthority DEF RefinementInv
      <3>3. PICK x \in DOMAIN claims : x = c
        BY <2>1
      <3>4. CanProduceProtectedEffect(x)'
        BY <2>1, <3>1, <3>3 DEF CanProduceProtectedEffect, Get
      <3> QED
        BY <3>2, <3>3, <3>4
    <2>3. claims'[c].fence = claims[c].fence
      BY <2>1, StepPersists DEF RefinementInv, ClaimsPersist
    <2> QED
      BY <1>1, <2>1, <2>2, <2>3 DEF HolderOf
  <1>2. CASE ~(m \in DOMAIN currentClaim /\ CanProduceProtectedEffect(currentClaim[m])')
    BY <1>2 DEF HolderOf
  <1> QED
    BY <1>1, <1>2

\* claim() grants the message of its delivery to a fresh fence.
LEMMA ClaimGrants ==
  ASSUME RefinementInv, NEW d \in DOMAIN deliveries, NEW w \in Worker, Claim(d, w)
  PROVE  \E m \in Message : Authority!Grant(m)
  <1>0. TypeOK /\ ClaimTypeOK /\ DeliveryTypeOK /\ LatestClaimIsCurrent
    BY DEF RefinementInv, TypeOK
  <1>2. PICK m \in Message : m = deliveries[d].message
    BY <1>0 DEF DeliveryTypeOK, IsDict, DeliveryRecord
  <1> DEFINE previous == Get(currentClaim, m, 0)
             replaced == [c \in DOMAIN claims |->
                            IF c = previous /\ claims[c].state \in LiveClaimState
                            THEN [claims[c] EXCEPT !.state = "REPLACED"]
                            ELSE claims[c]]
             n == claimSequence + 1
             r == [delivery |-> d, worker |-> w,
                   fence |-> fenceSequence + 1, state |-> "CURRENT"]
  <1>1. /\ claims' = Put(replaced, n, r) /\ currentClaim' = Put(currentClaim, m, n)
        /\ fenceSequence' = fenceSequence + 1
        /\ UNCHANGED <<deliveryVars, controlVars, resultVars, ackVars, retryVars>>
        /\ CanProcess(d)
    BY <1>2 DEF Claim, Replaced
  <1>3. n \notin DOMAIN claims
    BY <1>0 DEF ClaimTypeOK
  <1>4. r.delivery = d /\ r.fence = fenceSequence + 1 /\ r.state = "CURRENT"
    OBVIOUS
  <1>5. UNCHANGED <<deliveries, DeadLettered, acknowledged, securityRejectedRequests, controls>>
    BY <1>1 DEF deliveryVars, ackVars, controlVars, retryVars, DeadLettered
  <1>6. DOMAIN replaced = DOMAIN claims
    OBVIOUS
  <1>7. \A c \in DOMAIN claims : c # previous => replaced[c] = claims[c]
    OBVIOUS
  <1> HIDE DEF replaced, r, n
  <1>8. claims'[n] = r /\ \A c \in DOMAIN claims : claims'[c] = replaced[c]
    BY <1>1, <1>3, <1>6 DEF Put
  <1>9. HolderOf(m)' = fenceSequence + 1
    <2>1. m \in DOMAIN currentClaim' /\ currentClaim'[m] = n
      BY <1>1 DEF Put
    <2>2. claims'[n].delivery = d /\ claims'[n].state = "CURRENT" /\ claims'[n].fence = fenceSequence + 1
      BY <1>4, <1>8
    <2>3. CanProduceProtectedEffect(currentClaim[m])'
      BY <1>1, <1>2, <1>5, <2>1, <2>2 DEF CanProduceProtectedEffect, CanProcess, RequestOf, IsActive, Get
    <2> QED
      BY <2>1, <2>2, <2>3 DEF HolderOf
  <1>10. ASSUME NEW x \in Message, x # m
         PROVE  HolderOf(x)' = HolderOf(x)
    <2>1. /\ x \in DOMAIN currentClaim' <=> x \in DOMAIN currentClaim
          /\ x \in DOMAIN currentClaim => currentClaim'[x] = currentClaim[x]
      BY <1>1, <1>10 DEF Put
    <2>2. CASE x \in DOMAIN currentClaim
      <3> DEFINE c == currentClaim[x]
      <3>1. c \in DOMAIN claims /\ MessageOfClaim(c) = x
        BY <1>0, <2>2 DEF ClaimTypeOK, IsDict, LatestClaimIsCurrent
      <3>2. c # previous
        <4>1. CASE m \in DOMAIN currentClaim
          BY <1>0, <1>10, <3>1, <4>1 DEF LatestClaimIsCurrent, Get
        <4>2. CASE m \notin DOMAIN currentClaim
          <5>1. c # 0
            BY <1>0, <3>1 DEF ClaimTypeOK
          <5> QED
            BY <4>2, <5>1 DEF Get
        <4> QED
          BY <4>1, <4>2
      <3>3. claims'[c] = claims[c]
        BY <1>7, <1>8, <3>1, <3>2
      <3>4. currentClaim'[x] = c
        BY <2>1, <2>2
      <3>5. deliveries[claims[c].delivery].message = x
        BY <3>1 DEF MessageOfClaim
      <3>6. CanProduceProtectedEffect(currentClaim[x])' <=> CanProduceProtectedEffect(c)
        BY <1>5, <2>1, <2>2, <3>3, <3>4, <3>5
           DEF CanProduceProtectedEffect, RequestOf, IsActive, Get
      <3> QED
        BY <2>1, <2>2, <3>3, <3>4, <3>6 DEF HolderOf
    <2>3. CASE x \notin DOMAIN currentClaim
      BY <2>1, <2>3 DEF HolderOf
    <2> QED
      BY <2>2, <2>3
  <1>11. Holders' = [Holders EXCEPT ![m] = fenceSequence + 1]
    BY <1>2, <1>9, <1>10 DEF Holders
  <1>12. Effects' = Effects
    BY <1>1, UnchangedEffects
  <1> QED
    BY <1>1, <1>2, <1>11, <1>12 DEF Authority!Grant, Holders, Effects

\* A first acceptance commits one effect into an empty slot of a held message.
LEMMA AcceptCommits ==
  ASSUME RefinementInv, NEW c \in DOMAIN claims, NEW b \in Binding, AcceptResult(c, b)
  PROVE  \/ UNCHANGED Authority!vars
         \/ \E s \in Slot, r \in Result : Authority!Commit(s, r)
  <1> DEFINE s == SlotOf(b)
  <1>0. TypeOK /\ ClaimTypeOK /\ LatestClaimIsCurrent /\ ResultInv
    BY DEF RefinementInv, TypeOK
  <1>1. s \in Slot /\ b.result \in Result /\ s.message = b.message /\ b.message \in Message
    BY DEF Binding, SlotOf, Slot
  <1>2. UNCHANGED <<publicationVars, deliveryVars, claimVars, controlVars, ackVars, retryVars>>
    BY DEF AcceptResult
  <1>3. fenceSequence' = fenceSequence /\ Holders' = Holders
    <2>1. UNCHANGED <<claims, currentClaim, fenceSequence, deliveries, DeadLettered,
                      acknowledged, securityRejectedRequests, controls>>
      BY <1>2 DEF claimVars, deliveryVars, ackVars, controlVars, retryVars, DeadLettered
    <2>2. \A m \in Message : HolderOf(m)' = HolderOf(m)
      BY <2>1 DEF HolderOf, CanProduceProtectedEffect, RequestOf, IsActive, Get
    <2> QED
      BY <2>1, <2>2 DEF Holders
  <1>4. DOMAIN acceptedResults = DOMAIN resultSubmissions
    BY <1>0 DEF ResultInv
  <1>5. \A r \in DOMAIN resultSubmissions :
           r \in DOMAIN resultSubmissions' /\ resultSubmissions'[r][1] = resultSubmissions[r][1]
    <2>1. SubmissionsGrow
      BY <1>0, AcceptEffect
    <2>2. \A r \in DOMAIN resultSubmissions : 1 \in DOMAIN resultSubmissions[r]
      BY <1>0 DEF ResultInv, TypeOK, ResultTypeOK, IsDict
    <2> QED
      BY <2>1, <2>2 DEF SubmissionsGrow
  <1>6. CASE UNCHANGED <<acceptedResults, resultSlots>>
    <2>1. Effects' = Effects
      BY <1>4, <1>5, <1>6 DEF Effects, EffectOf
    <2> QED
      BY <1>3, <2>1 DEF Authority!vars, Holders, Effects
  <1>7. CASE /\ b.result \notin DOMAIN acceptedResults
             /\ s \notin DOMAIN resultSlots
             /\ acceptedResults' = Put(acceptedResults, b.result, b)
    <2>1. Holders[b.message] = claims[c].fence /\ claims[c].fence # 0
      <3>1. /\ CanProduceProtectedEffect(c)
            /\ b.message = deliveries[claims[c].delivery].message
        BY DEF AcceptResult, MayAccept
      <3>2. b.message \in DOMAIN currentClaim /\ currentClaim[b.message] = c
        BY <1>0, <3>1 DEF LatestClaimIsCurrent, MessageOfClaim,
                          CanProduceProtectedEffect, LiveClaimState
      <3>3. claims[c].fence = c /\ c # 0
        BY <1>0 DEF LatestClaimIsCurrent, ClaimTypeOK
      <3> QED
        BY <1>1, <3>1, <3>2, <3>3 DEF Holders, HolderOf
    <2>2. \A e \in Effects : e.slot # s /\ e.result # b.result
      BY <1>0, <1>7 DEF Effects, EffectOf, ResultInv, OneResultPerSlot
    <2> DEFINE new == [slot |-> s, result |-> b.result, fence |-> claims[c].fence]
    <2>3. Effects' = Effects \cup {new}
      <3>1. resultSubmissions'[b.result][1].fence = claims[c].fence
        BY <1>0, <1>4, <1>7, AcceptEffect
      <3>2. /\ DOMAIN acceptedResults' = DOMAIN acceptedResults \cup {b.result}
            /\ acceptedResults'[b.result] = b
            /\ \A r \in DOMAIN acceptedResults : acceptedResults'[r] = acceptedResults[r]
        BY <1>7 DEF Put
      <3>3. EffectOf(b.result)' = new
        BY <3>1, <3>2 DEF EffectOf
      <3>4. \A r \in DOMAIN acceptedResults : EffectOf(r)' = EffectOf(r)
        BY <1>4, <1>5, <3>2 DEF EffectOf
      <3> HIDE DEF new
      <3> QED
        BY <3>2, <3>3, <3>4 DEF Effects
    <2> HIDE DEF s
    <2>4. Authority!Commit(s, b.result)
      BY <1>1, <1>3, <2>1, <2>2, <2>3 DEF Authority!Commit, Holders, Effects
    <2> QED
      BY <1>1, <2>4
  <1> QED
    BY <1>0, <1>6, <1>7, AcceptEffect

\* Every other step withdraws authority from some messages, possibly none.
LEMMA OtherStepsWithdraw ==
  ASSUME RefinementInv, [Next]_vars, UNCHANGED <<currentClaim, fenceSequence, resultVars>>
  PROVE  \E M \in SUBSET Message : Authority!Withdraw(M)
  <1> DEFINE M == {m \in Message : HolderOf(m)' # HolderOf(m)}
  <1>1. \A m \in Message : HolderOf(m)' = IF m \in M THEN 0 ELSE Holders[m]
    <2>1. \A m \in Message : HolderOf(m)' \in {0, HolderOf(m)}
      BY HolderKeptOrDropped
    <2> QED
      BY <2>1 DEF Holders
  <1>2. Holders' = [m \in Message |-> IF m \in M THEN 0 ELSE Holders[m]]
    <2> HIDE DEF M
    <2> QED
      BY <1>1 DEF Holders
  <1>3. Effects' = Effects
    BY UnchangedEffects
  <1>4. Authority!Withdraw(M)
    <2> HIDE DEF M
    <2> QED
      BY <1>2, <1>3 DEF Authority!Withdraw, Holders, Effects
  <1> QED
    BY <1>4

\* Every step either grants, accepts, or leaves current claims and results alone.
LEMMA StepKinds ==
  ASSUME [Next]_vars
  PROVE  \/ \E d \in DOMAIN deliveries : \E w \in Worker : Claim(d, w)
         \/ \E c \in DOMAIN claims : \E b \in Binding : AcceptResult(c, b)
         \/ UNCHANGED <<currentClaim, fenceSequence, resultVars>>
  <1> DEFINE Quiet == UNCHANGED <<currentClaim, fenceSequence>>
  <1>1. ASSUME PublicationNext PROVE Quiet
    BY <1>1 DEF PublicationNext, Publish, RecordPublicationOutcome, claimVars
  <1>2. ASSUME DeliveryNext PROVE Quiet
    BY <1>2 DEF DeliveryNext, Deliver, RecordProviderDeliveryOccurrence, Redeliver,
                CreateDelivery, claimVars
  <1>3. ASSUME ClaimNext, ~ \E d \in DOMAIN deliveries : \E w \in Worker : Claim(d, w)
        PROVE Quiet
    BY <1>3 DEF ClaimNext, MarkRenewalUncertain, ConfirmLeaseLoss
  <1>4. ASSUME NEW r, NEW s, SetControl(r, s) PROVE Quiet
    BY <1>4 DEF SetControl, claimVars
  <1>5. ASSUME ResultNext PROVE Quiet
    BY <1>5 DEF ResultNext, AcceptResult, RefuseConflictingResult, Acknowledge, claimVars
  <1>6. ASSUME FailureNext PROVE Quiet
    BY <1>6 DEF FailureNext, EstablishSecurityRejection, ClassifyRetryable, claimVars,
                ClassifyExhausted, RedriveDelivery, RedriveMessage, RedriveOf, CreateDelivery
  <1>7. CASE UNCHANGED vars
    BY <1>7, ResultsTouchedByAcceptOnly DEF vars, claimVars
  <1> QED
    BY <1>1, <1>2, <1>3, <1>4, <1>5, <1>6, <1>7, ResultsTouchedByAcceptOnly DEF Next

\* The Queue adapter implements FencedEffects: whatever the interleaving of
\* publications, deliveries, claims, controls, failures and redrives, effects are
\* committed once per slot and only by the holder of the message's fence.
THEOREM RefinementCorrect == Spec => ImplementsFencedEffects
  <1>1. RefinementInv /\ [Next]_vars => [Authority!Next]_Authority!vars
    <2> SUFFICES ASSUME RefinementInv, [Next]_vars
                 PROVE  Authority!Next \/ UNCHANGED Authority!vars
      OBVIOUS
    <2>1. ASSUME NEW d \in DOMAIN deliveries, NEW w \in Worker, Claim(d, w)
          PROVE  Authority!Next
      BY <2>1, ClaimGrants DEF Authority!Next
    <2>2. ASSUME NEW c \in DOMAIN claims, NEW b \in Binding, AcceptResult(c, b)
          PROVE  Authority!Next \/ UNCHANGED Authority!vars
      BY <2>2, AcceptCommits DEF Authority!Next
    <2>3. ASSUME UNCHANGED <<currentClaim, fenceSequence, resultVars>>
          PROVE  Authority!Next
      BY <2>3, OtherStepsWithdraw DEF Authority!Next
    <2> QED
      BY <2>1, <2>2, <2>3, StepKinds
  <1> QED
    BY <1>1, RefinementInit, RefinementInvCorrect, PTL
       DEF Spec, ImplementsFencedEffects, Authority!Spec

-----------------------------------------------------------------------------
(* Which steps change which part of the state.                             *)

\* The kinds of steps, whichever public entry point they came through.
ClaimStep   == \E d \in DOMAIN deliveries : \E w \in Worker : Claim(d, w)
LeaseStep   == \E c \in DOMAIN claims : MarkRenewalUncertain(c) \/ ConfirmLeaseLoss(c)
AcceptStep  == \E c \in DOMAIN claims : \E b \in Binding : AcceptResult(c, b)
AckStep     == \E c \in DOMAIN claims : Acknowledge(c)
RejectStep  == \E d \in DOMAIN deliveries : EstablishSecurityRejection(d)
RetryStep   == \E d \in DOMAIN deliveries : \E f \in Failures : ClassifyRetryable(d, f)
ExhaustStep == \E d \in DOMAIN deliveries : \E f \in Failures : ClassifyExhausted(d, f)
RedriveStep == \E i \in DOMAIN deadLetters : RedriveOf(deadLetters[i])
CreateStep  == \E m \in DOMAIN messages : \E isRedrive \in BOOLEAN :
                  CreateDelivery(m, isRedrive) /\ UNCHANGED <<failureCounts, deadLetters>>
OrdinaryDelivery == \E m \in DOMAIN messages : CreateDelivery(m, FALSE) /\ UNCHANGED retryVars
OtherStep   == \/ PublicationNext \/ UNCHANGED vars
               \/ \E r \in Request, s \in Withdrawn \cup {"ACTIVE"} : SetControl(r, s)
               \/ \E c \in DOMAIN claims : \E b \in Binding : RefuseConflictingResult(c, b)

LEMMA StepCases ==
  ASSUME TypeOK, [Next]_vars
  PROVE  \/ OrdinaryDelivery \/ ClaimStep \/ LeaseStep \/ AcceptStep \/ AckStep
         \/ RejectStep \/ RetryStep \/ ExhaustStep \/ RedriveStep \/ OtherStep
  <1>1. DeliveryNext => OrdinaryDelivery
    <2>1. \A d \in DOMAIN deliveries : deliveries[d].message \in DOMAIN messages
      BY DEF TypeOK, DeliveryTypeOK
    <2> QED
      BY <2>1 DEF DeliveryNext, Deliver, RecordProviderDeliveryOccurrence, Redeliver,
                  OrdinaryDelivery
  <1>2. ClaimNext => ClaimStep \/ LeaseStep
    BY DEF ClaimNext, ClaimStep, LeaseStep
  <1>3. ResultNext => AcceptStep \/ AckStep \/ OtherStep
    BY DEF ResultNext, AcceptStep, AckStep, OtherStep
  <1>4. FailureNext => RejectStep \/ RetryStep \/ ExhaustStep \/ RedriveStep
    BY DEF FailureNext, RejectStep, RetryStep, ExhaustStep, RedriveStep, RedriveDelivery,
           RedriveMessage
  <1> QED
    BY <1>1, <1>2, <1>3, <1>4 DEF Next, OtherStep

\* An ordinary delivery and a redrive create a delivery of a known message.
LEMMA Creates ==
  ASSUME TypeOK
  PROVE  /\ OrdinaryDelivery => CreateStep
         /\ RedriveStep => CreateStep
  <1>1. OrdinaryDelivery => CreateStep
    BY DEF OrdinaryDelivery, CreateStep, retryVars
  <1>2. ASSUME NEW i \in DOMAIN deadLetters, RedriveOf(deadLetters[i])
        PROVE  CreateStep
    <2>1. deliveries[deadLetters[i].delivery].message \in DOMAIN messages
      BY DEF TypeOK, RetryTypeOK, DeadLettered, DeliveryTypeOK
    <2> QED
      BY <1>2, <2>1 DEF RedriveOf, CreateStep
  <1> QED
    BY <1>1, <1>2 DEF RedriveStep

\* What each kind of step leaves alone.
LEMMA StepsKeep ==
  /\ CreateStep => UNCHANGED <<messages, claims, securityRejectedRequests, acceptedResults,
                               resultSubmissions, acknowledged, failureCounts, deadLetters>>
  /\ OrdinaryDelivery \/ ClaimStep \/ LeaseStep \/ AcceptStep \/ AckStep \/ RejectStep
     \/ RetryStep \/ ExhaustStep \/ OtherStep => UNCHANGED <<redriveCounts, redrives>>
  /\ ClaimStep \/ LeaseStep \/ AcceptStep \/ AckStep \/ RejectStep \/ OtherStep =>
        UNCHANGED <<deliveries, failureCounts, deadLetters>>
  /\ RetryStep \/ ExhaustStep =>
        UNCHANGED <<messages, deliveries, securityRejectedRequests, acceptedResults,
                    resultSubmissions, acknowledged>>
  /\ RetryStep => UNCHANGED <<claims, deadLetters>>
  /\ ClaimStep \/ LeaseStep \/ AcceptStep \/ AckStep \/ RejectStep => UNCHANGED messages
  /\ ClaimStep \/ LeaseStep => UNCHANGED <<securityRejectedRequests, acceptedResults,
                                           resultSubmissions, acknowledged>>
  /\ AcceptStep => UNCHANGED <<claims, securityRejectedRequests, acknowledged>>
  /\ AckStep => UNCHANGED <<claims, securityRejectedRequests, acceptedResults,
                            resultSubmissions>>
  /\ RejectStep => UNCHANGED <<acceptedResults, resultSubmissions, acknowledged>>
  /\ OtherStep => UNCHANGED <<claims, securityRejectedRequests, acceptedResults,
                              resultSubmissions, acknowledged>>
  /\ LeaseStep \/ RejectStep \/ ExhaustStep => DOMAIN claims' = DOMAIN claims
  <1> USE DEF publicationVars, deliveryVars, claimVars, controlVars, resultVars, ackVars,
              retryVars
  <1>1. CreateStep => UNCHANGED <<messages, claims, securityRejectedRequests,
                                  acceptedResults, resultSubmissions, acknowledged,
                                  failureCounts, deadLetters>>
    BY DEF CreateStep, CreateDelivery
  <1>2. OrdinaryDelivery => UNCHANGED <<redriveCounts, redrives>>
    BY DEF OrdinaryDelivery
  <1>3. ClaimStep =>
          UNCHANGED <<messages, deliveries, failureCounts, deadLetters, redriveCounts, redrives,
                      securityRejectedRequests, acceptedResults, resultSubmissions,
                      acknowledged>>
    BY DEF ClaimStep, Claim
  <1>4. LeaseStep =>
          /\ UNCHANGED <<messages, deliveries, failureCounts, deadLetters, redriveCounts,
                         redrives, securityRejectedRequests, acceptedResults,
                         resultSubmissions, acknowledged>>
          /\ DOMAIN claims' = DOMAIN claims
    BY DEF LeaseStep, MarkRenewalUncertain, ConfirmLeaseLoss
  <1>5. AcceptStep =>
          UNCHANGED <<messages, deliveries, failureCounts, deadLetters, redriveCounts, redrives,
                      claims, securityRejectedRequests, acknowledged>>
    BY DEF AcceptStep, AcceptResult
  <1>6. AckStep =>
          UNCHANGED <<messages, deliveries, failureCounts, deadLetters, redriveCounts, redrives,
                      claims, securityRejectedRequests, acceptedResults, resultSubmissions>>
    BY DEF AckStep, Acknowledge
  <1>7. RejectStep =>
          /\ UNCHANGED <<messages, deliveries, failureCounts, deadLetters, redriveCounts,
                         redrives, acceptedResults, resultSubmissions, acknowledged>>
          /\ DOMAIN claims' = DOMAIN claims
    BY DEF RejectStep, EstablishSecurityRejection, Revoke
  <1>8. RetryStep =>
          UNCHANGED <<messages, deliveries, redriveCounts, redrives, securityRejectedRequests,
                      acceptedResults, resultSubmissions, acknowledged, claims, deadLetters>>
    BY DEF RetryStep, ClassifyRetryable
  <1>9. ExhaustStep =>
          /\ UNCHANGED <<messages, deliveries, redriveCounts, redrives,
                         securityRejectedRequests, acceptedResults, resultSubmissions,
                         acknowledged>>
          /\ DOMAIN claims' = DOMAIN claims
    BY DEF ExhaustStep, ClassifyExhausted, Revoke
  <1>10. OtherStep =>
          UNCHANGED <<deliveries, failureCounts, deadLetters, redriveCounts, redrives, claims,
                      securityRejectedRequests, acceptedResults, resultSubmissions,
                      acknowledged>>
    BY DEF OtherStep, PublicationNext, Publish, RecordPublicationOutcome, SetControl,
           RefuseConflictingResult, vars
  <1> QED
    BY <1>1, <1>2, <1>3, <1>4, <1>5, <1>6, <1>7, <1>8, <1>9, <1>10

\* Each part of the state is changed by one kind of step.
LEMMA OnlyThese ==
  ASSUME TypeOK, [Next]_vars
  PROVE  /\ \/ ClaimStep
            \/ DOMAIN claims' = DOMAIN claims
         /\ \/ RejectStep
            \/ UNCHANGED securityRejectedRequests
         /\ \/ AcceptStep
            \/ UNCHANGED acceptedResults
         /\ \/ AckStep
            \/ UNCHANGED acknowledged
         /\ \/ ExhaustStep
            \/ UNCHANGED deadLetters
         /\ \/ RedriveStep
            \/ UNCHANGED <<redriveCounts, redrives>>
         /\ \/ CreateStep
            \/ UNCHANGED deliveries
  <1> DEFINE SameClaims == DOMAIN claims' = DOMAIN claims
             SameRejected == UNCHANGED securityRejectedRequests
             SameAccepted == UNCHANGED acceptedResults
             SameAcknowledged == UNCHANGED acknowledged
             SameDead == UNCHANGED deadLetters
             SameRedrives == UNCHANGED <<redriveCounts, redrives>>
             SameDeliveries == UNCHANGED deliveries
  <1>1. CreateStep => SameClaims /\ SameRejected /\ SameAccepted /\ SameAcknowledged
                      /\ SameDead
    BY StepsKeep
  <1>2. OrdinaryDelivery => SameRedrives
    BY StepsKeep
  <1>3. ClaimStep => /\ SameRejected /\ SameAccepted /\ SameAcknowledged
                     /\ SameDead /\ SameRedrives /\ SameDeliveries
    BY StepsKeep
  <1>4. LeaseStep => /\ SameClaims /\ SameRejected /\ SameAccepted /\ SameAcknowledged
                     /\ SameDead /\ SameRedrives /\ SameDeliveries
    BY StepsKeep
  <1>5. AcceptStep => /\ SameClaims /\ SameRejected /\ SameAcknowledged
                      /\ SameDead /\ SameRedrives /\ SameDeliveries
    BY StepsKeep
  <1>6. AckStep => /\ SameClaims /\ SameRejected /\ SameAccepted
                   /\ SameDead /\ SameRedrives /\ SameDeliveries
    BY StepsKeep
  <1>7. RejectStep => /\ SameClaims /\ SameAccepted /\ SameAcknowledged
                      /\ SameDead /\ SameRedrives /\ SameDeliveries
    BY StepsKeep
  <1>8. RetryStep => /\ SameClaims /\ SameRejected /\ SameAccepted /\ SameAcknowledged
                     /\ SameDead /\ SameRedrives /\ SameDeliveries
    BY StepsKeep
  <1>9. ExhaustStep => /\ SameClaims /\ SameRejected /\ SameAccepted /\ SameAcknowledged
                       /\ SameRedrives /\ SameDeliveries
    BY StepsKeep
  <1>10. OtherStep => /\ SameClaims /\ SameRejected /\ SameAccepted /\ SameAcknowledged
                      /\ SameDead /\ SameRedrives /\ SameDeliveries
    BY StepsKeep
  <1> HIDE DEF SameClaims, SameRejected, SameAccepted, SameAcknowledged, SameDead,
               SameRedrives, SameDeliveries
  <1>11. /\ ClaimStep \/ SameClaims
         /\ RejectStep \/ SameRejected
         /\ AcceptStep \/ SameAccepted
         /\ AckStep \/ SameAcknowledged
         /\ ExhaustStep \/ SameDead
         /\ RedriveStep \/ SameRedrives
         /\ CreateStep \/ SameDeliveries
    BY <1>1, <1>2, <1>3, <1>4, <1>5, <1>6, <1>7, <1>8, <1>9, <1>10, StepCases, Creates
  <1> USE DEF SameClaims, SameRejected, SameAccepted, SameAcknowledged, SameDead,
              SameRedrives, SameDeliveries
  <1> QED
    BY <1>11

-----------------------------------------------------------------------------
(* Security rejections reach every claim of the request.                   *)

\* A step that adds no claim and rejects no request keeps the property: no claim
\* comes alive and no delivery changes its request.
LEMMA RejectionKept ==
  ASSUME TypeOK, SecurityRejectionRevokesClaims, ClaimsPersist, DeliveriesPersist,
         DOMAIN claims' = DOMAIN claims, UNCHANGED securityRejectedRequests
  PROVE  SecurityRejectionRevokesClaims'
  BY DEF TypeOK, ClaimTypeOK, SecurityRejectionRevokesClaims, ClaimsPersist,
         DeliveriesPersist, RequestOf

\* claim refuses a delivery of a rejected request.
LEMMA RejectionAtClaim ==
  ASSUME TypeOK, SecurityRejectionRevokesClaims, ClaimsPersist, DeliveriesPersist,
         NEW d \in DOMAIN deliveries, NEW w \in Worker, Claim(d, w)
  PROVE  SecurityRejectionRevokesClaims'
  <1> DEFINE n == claimSequence + 1
             r == [delivery |-> d, worker |-> w,
                   fence |-> fenceSequence + 1, state |-> "CURRENT"]
  <1>1. /\ claims' = Put(Replaced(d), n, r)
        /\ CanProcess(d)
        /\ UNCHANGED <<deliveries, securityRejectedRequests>>
    BY DEF Claim, deliveryVars, controlVars
  <1>2. r.delivery = d
    OBVIOUS
  <1>3. DOMAIN Replaced(d) = DOMAIN claims
    BY DEF Replaced
  <1> HIDE DEF r, n
  <1>4. DOMAIN claims' = DOMAIN claims \cup {n} /\ claims'[n] = r
    BY <1>1, <1>3 DEF Put
  <1>5. RequestOf(d) \notin securityRejectedRequests
    BY <1>1 DEF CanProcess
  <1>6. \A c \in DOMAIN claims : claims[c].delivery \in DOMAIN deliveries
    BY DEF TypeOK, ClaimTypeOK
  <1> QED
    BY <1>1, <1>2, <1>4, <1>5, <1>6
       DEF SecurityRejectionRevokesClaims, ClaimsPersist, RequestOf

\* The rejection itself revokes the live claims of all deliveries of the request.
LEMMA RejectionRevokes ==
  ASSUME TypeOK, SecurityRejectionRevokesClaims, ClaimsPersist, DeliveriesPersist,
         NEW d \in DOMAIN deliveries, EstablishSecurityRejection(d)
  PROVE  SecurityRejectionRevokesClaims'
  <1> DEFINE C == {c \in DOMAIN claims : RequestOf(claims[c].delivery) = RequestOf(d)}
  <1>1. /\ claims' = Revoke(C)
        /\ securityRejectedRequests' = securityRejectedRequests \cup {RequestOf(d)}
        /\ UNCHANGED deliveries
    BY DEF EstablishSecurityRejection, deliveryVars
  <1>2. DOMAIN claims' = DOMAIN claims
    BY <1>1 DEF Revoke
  <1>3. ASSUME NEW c \in C PROVE claims'[c].state \notin LiveClaimState
    <2>1. claims[c] \in ClaimRecord /\ c \in DOMAIN claims
      BY DEF TypeOK, ClaimTypeOK, IsDict
    <2>2. CASE claims[c].state \in LiveClaimState
      <3>1. claims'[c] = [claims[c] EXCEPT !.state = "REVOKED"]
        BY <1>1, <2>1, <2>2 DEF Revoke
      <3> QED
        BY <2>1, <3>1 DEF ClaimRecord, LiveClaimState
    <2>3. CASE claims[c].state \notin LiveClaimState
      BY <2>1, <2>3 DEF ClaimsPersist
    <2> QED
      BY <2>2, <2>3
  <1>4. ASSUME NEW c \in DOMAIN claims
        PROVE  /\ claims'[c].delivery = claims[c].delivery
               /\ claims'[c].state \in LiveClaimState => claims[c].state \in LiveClaimState
    BY DEF ClaimsPersist
  <1> QED
    BY <1>1, <1>2, <1>3, <1>4 DEF SecurityRejectionRevokesClaims, RequestOf

LEMMA StepRejection ==
  TypeOK /\ SecurityRejectionRevokesClaims /\ [Next]_vars => SecurityRejectionRevokesClaims'
  <1> SUFFICES ASSUME TypeOK, SecurityRejectionRevokesClaims, [Next]_vars
               PROVE  SecurityRejectionRevokesClaims'
    OBVIOUS
  <1>1. ClaimsPersist /\ DeliveriesPersist
    BY StepPersists
  <1>2. ClaimStep => SecurityRejectionRevokesClaims'
    BY <1>1, RejectionAtClaim DEF ClaimStep
  <1>3. RejectStep => SecurityRejectionRevokesClaims'
    BY <1>1, RejectionRevokes DEF RejectStep
  <1>4. \/ ClaimStep \/ RejectStep
        \/ (DOMAIN claims' = DOMAIN claims /\ UNCHANGED securityRejectedRequests)
    BY OnlyThese
  <1> QED
    BY <1>1, <1>2, <1>3, <1>4, RejectionKept

\* A security rejection found on one delivery leaves no live claim anywhere in
\* the request, and no later claim, redelivery or redrive brings one back
\* (classify_failure, claim).
THEOREM RejectionsRevoke == Spec => []SecurityRejectionRevokesClaims
  <1>1. Init => SecurityRejectionRevokesClaims
    BY DEF Init, SecurityRejectionRevokesClaims, Empty
  <1> QED
    BY <1>1, InitType, StepType, StepRejection, PTL DEF Spec

-----------------------------------------------------------------------------
(* Every submission of an accepted result is attributable.                 *)

\* Submission s was made under a claim on a delivery of what b is bound to.
AttributedTo(s, b) ==
    /\ s.claim \in DOMAIN claims
    /\ claims[s.claim].delivery = s.delivery
    /\ claims[s.claim].worker = s.worker
    /\ claims[s.claim].fence = s.fence
    /\ deliveries[s.delivery].message = b.message
    /\ deliveries[s.delivery].request = b.request
    /\ deliveries[s.delivery].attempt = b.attempt

\* AttributedTo in the next state, of the same submission and binding.
AttributedAfter(s, b) ==
    /\ s.claim \in DOMAIN claims'
    /\ claims'[s.claim].delivery = s.delivery
    /\ claims'[s.claim].worker = s.worker
    /\ claims'[s.claim].fence = s.fence
    /\ deliveries'[s.delivery].message = b.message
    /\ deliveries'[s.delivery].request = b.request
    /\ deliveries'[s.delivery].attempt = b.attempt

\* An attribution is for good: claims keep their identity, deliveries theirs.
LEMMA AttributionPersists ==
  ASSUME TypeOK, ClaimsPersist, DeliveriesPersist, NEW s, NEW b, AttributedTo(s, b)
  PROVE  AttributedAfter(s, b)
  <1>1. s.delivery \in DOMAIN deliveries
    BY DEF TypeOK, ClaimTypeOK, AttributedTo
  <1> QED
    BY <1>1 DEF AttributedTo, AttributedAfter, ClaimsPersist, DeliveriesPersist

Attributable ==
    \A r \in DOMAIN acceptedResults : \A i \in DOMAIN resultSubmissions[r] :
        AttributedTo(resultSubmissions[r][i], acceptedResults[r])

LEMMA AttributableMeans == ResultInv /\ Attributable => ResultsAreAttributable
  BY DEF ResultInv, Attributable, AttributedTo, ResultsAreAttributable

\* A submission recorded by accept_result is the accepting claim's or an
\* earlier one, and the binding it is recorded for is the accepted one.
LEMMA AcceptAttributes ==
  ASSUME TypeOK, ResultInv, Attributable, ClaimsPersist, DeliveriesPersist,
         NEW c \in DOMAIN claims, NEW b \in Binding, AcceptResult(c, b)
  PROVE  \A r \in DOMAIN acceptedResults' : \A i \in DOMAIN resultSubmissions'[r] :
            AttributedAfter(resultSubmissions'[r][i], acceptedResults'[r])
  <1>1. /\ MayAccept(c, b)
        /\ resultSubmissions' = Put(resultSubmissions, b.result, Submissions(c, b.result))
    BY DEF AcceptResult
  <1>2. /\ DOMAIN acceptedResults' = DOMAIN acceptedResults \cup {b.result}
        /\ acceptedResults'[b.result] = b
        /\ b.result \in DOMAIN acceptedResults => acceptedResults[b.result] = b
        /\ \A r \in DOMAIN acceptedResults : acceptedResults'[r] = acceptedResults[r]
    <2>1. b.result \in DOMAIN acceptedResults => acceptedResults[b.result] = b
      BY DEF AcceptResult, Conflicting, Get
    <2>2. CASE b.result \in DOMAIN acceptedResults
      BY <2>1, <2>2 DEF AcceptResult
    <2>3. CASE b.result \notin DOMAIN acceptedResults
      BY <2>1, <2>3 DEF AcceptResult, Put
    <2> QED
      BY <2>2, <2>3, <2>1
  <1>3. AttributedTo(SubmissionOf(c), b)
    BY <1>1 DEF SubmissionOf, AttributedTo, MayAccept
  <1>4. \A i \in DOMAIN Submissions(c, b.result) :
           AttributedTo(Submissions(c, b.result)[i], b)
    <2> DEFINE submissions == Get(resultSubmissions, b.result, <<>>)
               s == SubmissionOf(c)
    <2>1. submissions \in Seq(Submission)
      BY DEF TypeOK, ResultTypeOK, IsDict, Get
    <2>2. \A i \in DOMAIN submissions : AttributedTo(submissions[i], b)
      BY <1>2 DEF Get, Attributable, ResultInv
    <2>3. Submissions(c, b.result) = submissions \/ Submissions(c, b.result) = Append(submissions, s)
      BY DEF Submissions
    <2> HIDE DEF submissions, s
    <2>4. /\ DOMAIN Append(submissions, s) = DOMAIN submissions \cup {Len(submissions) + 1}
          /\ Append(submissions, s)[Len(submissions) + 1] = s
          /\ \A i \in DOMAIN submissions : Append(submissions, s)[i] = submissions[i]
      BY <2>1
    <2>5. AttributedTo(s, b)
      BY <1>3 DEF s
    <2> QED
      BY <2>2, <2>3, <2>4, <2>5
  <1>5. \A i \in DOMAIN resultSubmissions'[b.result] :
           AttributedAfter(resultSubmissions'[b.result][i], b)
    BY <1>1, <1>4, AttributionPersists DEF Put
  <1>6. \A r \in DOMAIN acceptedResults : r # b.result =>
           /\ resultSubmissions'[r] = resultSubmissions[r]
           /\ \A i \in DOMAIN resultSubmissions[r] :
                 AttributedAfter(resultSubmissions[r][i], acceptedResults[r])
    BY <1>1, AttributionPersists DEF Put, ResultInv, Attributable
  <1> QED
    BY <1>2, <1>5, <1>6

LEMMA StepAttributable ==
  TypeOK /\ ResultInv /\ Attributable /\ [Next]_vars => Attributable'
  <1> SUFFICES ASSUME TypeOK, ResultInv, Attributable, [Next]_vars PROVE Attributable'
    OBVIOUS
  <1>1. ClaimsPersist /\ DeliveriesPersist
    BY StepPersists
  <1> DEFINE Goal == \A r \in DOMAIN acceptedResults' : \A i \in DOMAIN resultSubmissions'[r] :
                         AttributedAfter(resultSubmissions'[r][i], acceptedResults'[r])
  <1>2. ASSUME NEW c \in DOMAIN claims, NEW b \in Binding, AcceptResult(c, b)
        PROVE  Goal
    BY <1>1, <1>2, AcceptAttributes
  <1>3. ASSUME UNCHANGED resultVars PROVE Goal
    BY <1>1, <1>3, AttributionPersists DEF Attributable, resultVars
  <1>4. Goal
    BY <1>2, <1>3, ResultsTouchedByAcceptOnly
  <1> QED
    BY <1>4 DEF Attributable, AttributedTo, AttributedAfter

\* Every accepted result has a submission, and each of its submissions names the
\* worker and fence of a claim on the message, request and attempt it is bound
\* to, whoever resubmits it later (accept_result).
THEOREM AttributionCorrect == Spec => []ResultsAreAttributable
  <1>1. Init => Attributable
    BY DEF Init, Attributable, Empty
  <1>2. Spec => [](TypeOK /\ ResultInv)
    BY ResultInvCorrect
  <1>3. Spec => []Attributable
    BY <1>1, <1>2, StepAttributable, PTL DEF Spec
  <1> QED
    BY <1>2, <1>3, AttributableMeans, PTL

-----------------------------------------------------------------------------
(* Stopped work is frozen.                                                 *)

\* A delivery carries the request of the envelope its message holds.
DeliveriesMatchEnvelopes ==
    \A d \in DOMAIN deliveries :
        deliveries[d].request = messages[deliveries[d].message].request

MessagesPersist ==
    \A m \in DOMAIN messages : m \in DOMAIN messages' /\ messages'[m] = messages[m]

\* publish never rebinds a message identity to another envelope.
LEMMA StepMessages ==
  ASSUME TypeOK, [Next]_vars
  PROVE  MessagesPersist
  <1>1. ASSUME NEW e \in Envelopes, Publish(e) PROVE MessagesPersist
    BY <1>1 DEF Publish, MayPublish, MessagesPersist, Put
  <1>2. ASSUME NEW p, NEW s, RecordPublicationOutcome(p, s) PROVE MessagesPersist
    BY <1>2 DEF RecordPublicationOutcome, MessagesPersist
  <1>3. ASSUME NEW r, NEW s, SetControl(r, s) PROVE MessagesPersist
    BY <1>3 DEF SetControl, publicationVars, MessagesPersist
  <1>4. ASSUME NEW c, NEW b, RefuseConflictingResult(c, b) PROVE MessagesPersist
    BY <1>4 DEF RefuseConflictingResult, publicationVars, MessagesPersist
  <1>5. OtherStep => MessagesPersist
    BY <1>1, <1>2, <1>3, <1>4
       DEF OtherStep, PublicationNext, vars, publicationVars, MessagesPersist
  <1>6. UNCHANGED messages => MessagesPersist
    BY DEF MessagesPersist
  <1>7. ClaimStep \/ LeaseStep \/ AcceptStep \/ AckStep \/ RejectStep => UNCHANGED messages
    BY StepsKeep
  <1>8. CreateStep \/ RetryStep \/ ExhaustStep => UNCHANGED messages
    BY StepsKeep
  <1> QED
    BY <1>5, <1>6, <1>7, <1>8, StepCases, Creates

\* What _create_delivery adds: the next delivery, of its message, with the
\* request of the message's envelope.
LEMMA CreateEffect ==
  ASSUME TypeOK, NEW m \in DOMAIN messages, NEW isRedrive, CreateDelivery(m, isRedrive)
  PROVE  /\ deliverySequence + 1 \notin DOMAIN deliveries
         /\ DOMAIN deliveries' = DOMAIN deliveries \cup {deliverySequence + 1}
         /\ deliveries'[deliverySequence + 1].message = m
         /\ deliveries'[deliverySequence + 1].request = messages[m].request
         /\ messages[m].request \notin securityRejectedRequests
  <1> DEFINE r == [message |-> m, request |-> messages[m].request,
                   attempt |-> messages[m].attempt,
                   redeliveryNumber |-> Cardinality(DeliveriesOf(m))]
  <1>1. deliverySequence + 1 \notin DOMAIN deliveries
    BY DEF TypeOK, DeliveryTypeOK
  <1>2. deliveries' = Put(deliveries, deliverySequence + 1, r)
    BY DEF CreateDelivery
  <1>3. r.message = m /\ r.request = messages[m].request
    OBVIOUS
  <1> HIDE DEF r
  <1>4. /\ DOMAIN deliveries' = DOMAIN deliveries \cup {deliverySequence + 1}
        /\ deliveries'[deliverySequence + 1] = r
    BY <1>2 DEF Put
  <1>5. messages[m].request \notin securityRejectedRequests
    BY DEF CreateDelivery, MayCreateDelivery
  <1> QED
    BY <1>1, <1>3, <1>4, <1>5

LEMMA StepMatches ==
  TypeOK /\ DeliveriesMatchEnvelopes /\ [Next]_vars => DeliveriesMatchEnvelopes'
  <1> SUFFICES ASSUME TypeOK, DeliveriesMatchEnvelopes, [Next]_vars
               PROVE  DeliveriesMatchEnvelopes'
    OBVIOUS
  <1>1. MessagesPersist /\ DeliveriesPersist
    BY StepMessages, StepPersists
  <1>2. ASSUME NEW d \in DOMAIN deliveries
        PROVE  deliveries'[d].request = messages'[deliveries'[d].message].request
    BY <1>1 DEF TypeOK, DeliveryTypeOK, DeliveriesMatchEnvelopes, MessagesPersist,
                DeliveriesPersist
  <1>3. ASSUME NEW m \in DOMAIN messages, NEW isRedrive, CreateDelivery(m, isRedrive)
        PROVE  DeliveriesMatchEnvelopes'
    BY <1>1, <1>2, <1>3, CreateEffect DEF DeliveriesMatchEnvelopes, MessagesPersist
  <1>4. CASE UNCHANGED deliveries
    BY <1>2, <1>4 DEF DeliveriesMatchEnvelopes
  <1> QED
    BY <1>3, <1>4, OnlyThese DEF CreateStep

\* A claim that may produce a protected effect serves a request at work.
LEMMA AuthorityNeedsWork ==
  ASSUME NEW c, CanProduceProtectedEffect(c)
  PROVE  ~Stopped(deliveries[claims[c].delivery].request)
  BY DEF CanProduceProtectedEffect, Stopped, RequestOf

\* What a step may not do for a stopped request r.
NoProgress(r) ==
    /\ \A c \in DOMAIN claims' \ DOMAIN claims :
          deliveries'[claims'[c].delivery].request # r
    /\ \A x \in DOMAIN acceptedResults' \ DOMAIN acceptedResults :
          acceptedResults'[x].request # r
    /\ \A d \in (acknowledged' \ acknowledged) \cup (DeadLettered' \ DeadLettered)
                \cup (DOMAIN redrives' \ DOMAIN redrives) :
          deliveries'[d].request # r
    /\ r \in securityRejectedRequests =>
          \A d \in DOMAIN deliveries' \ DOMAIN deliveries : deliveries'[d].request # r

LEMMA StoppedMakesNoProgress ==
  ASSUME TypeOK, DeliveriesMatchEnvelopes, [Next]_vars, NEW r \in Request, Stopped(r)
  PROVE  NoProgress(r)
  <1>0. DeliveriesPersist
    BY StepPersists
  <1>1. \A c \in DOMAIN claims' \ DOMAIN claims :
           deliveries'[claims'[c].delivery].request # r
    <2>1. ASSUME NEW d \in DOMAIN deliveries, NEW w \in Worker, Claim(d, w),
                 NEW c \in DOMAIN claims' \ DOMAIN claims
          PROVE  deliveries'[claims'[c].delivery].request # r
      <3>1. DOMAIN Replaced(d) = DOMAIN claims
        BY DEF Replaced
      <3>2. claims'[c].delivery = d
        BY <2>1, <3>1 DEF Claim, Put
      <3>3. CanProcess(d)
        BY <2>1 DEF Claim
      <3> QED
        BY <1>0, <3>2, <3>3 DEF CanProcess, RequestOf, Stopped, DeliveriesPersist
    <2> QED
      BY <2>1, OnlyThese DEF ClaimStep
  <1>2. \A x \in DOMAIN acceptedResults' \ DOMAIN acceptedResults :
           acceptedResults'[x].request # r
    <2>1. ASSUME NEW c \in DOMAIN claims, NEW b \in Binding, AcceptResult(c, b),
                 NEW x \in DOMAIN acceptedResults' \ DOMAIN acceptedResults
          PROVE  acceptedResults'[x].request # r
      <3>1. acceptedResults'[x] = b
        BY <2>1 DEF AcceptResult, Put
      <3>2. b.request = deliveries[claims[c].delivery].request
            /\ CanProduceProtectedEffect(c)
        BY <2>1 DEF AcceptResult, MayAccept
      <3> QED
        BY <3>1, <3>2, AuthorityNeedsWork
    <2> QED
      BY <2>1, OnlyThese DEF AcceptStep
  <1>3. \A d \in acknowledged' \ acknowledged : deliveries'[d].request # r
    <2>1. ASSUME NEW c \in DOMAIN claims, Acknowledge(c), NEW d \in acknowledged' \ acknowledged
          PROVE  deliveries'[d].request # r
      <3>1. d = claims[c].delivery /\ CanProduceProtectedEffect(c)
        BY <2>1 DEF Acknowledge
      <3>2. d \in DOMAIN deliveries
        BY <3>1 DEF TypeOK, ClaimTypeOK
      <3> QED
        BY <1>0, <3>1, <3>2, AuthorityNeedsWork DEF DeliveriesPersist
    <2> QED
      BY <2>1, OnlyThese DEF AckStep
  <1>4. \A d \in DeadLettered' \ DeadLettered : deliveries'[d].request # r
    <2>1. ASSUME NEW x \in DOMAIN deliveries, NEW f \in Failures, ClassifyExhausted(x, f),
                 NEW d \in DeadLettered' \ DeadLettered
          PROVE  deliveries'[d].request # r
      <3>1. deadLetters \in Seq(DeadLetter)
        BY DEF TypeOK, RetryTypeOK
      <3>2. PICK letter : letter.delivery = x /\ deadLetters' = Append(deadLetters, letter)
        BY <2>1 DEF ClassifyExhausted
      <3>3. DeadLettered' = DeadLettered \cup {x}
        BY <3>1, <3>2, DeadLetteredGrows
      <3>4. MayClassify(x) /\ d = x
        BY <2>1, <3>3 DEF ClassifyExhausted
      <3> QED
        BY <1>0, <3>4 DEF MayClassify, RequestOf, Stopped, DeliveriesPersist
    <2> QED
      BY <2>1, OnlyThese DEF ExhaustStep, DeadLettered
  <1>5. ASSUME NEW m \in DOMAIN messages, NEW isRedrive, CreateDelivery(m, isRedrive),
               r \in securityRejectedRequests,
               NEW d \in DOMAIN deliveries' \ DOMAIN deliveries
        PROVE  deliveries'[d].request # r
    BY <1>5, CreateEffect
  <1>6. r \in securityRejectedRequests =>
           \A d \in DOMAIN deliveries' \ DOMAIN deliveries : deliveries'[d].request # r
    BY <1>5, OnlyThese DEF CreateStep
  <1>7. \A d \in DOMAIN redrives' \ DOMAIN redrives : deliveries'[d].request # r
    <2>1. ASSUME NEW i \in DOMAIN deadLetters, RedriveOf(deadLetters[i]),
                 NEW d \in DOMAIN redrives' \ DOMAIN redrives
          PROVE  deliveries'[d].request # r
      <3> DEFINE x == deadLetters[i].delivery
                 m == deliveries[x].message
      <3>1. x \in DOMAIN deliveries /\ m \in DOMAIN messages
        BY DEF TypeOK, RetryTypeOK, DeadLettered, DeliveryTypeOK
      <3>2. /\ IsActive(deliveries[x].request)
            /\ CreateDelivery(m, TRUE)
            /\ d = deliverySequence + 1
        BY <2>1 DEF RedriveOf, RequestOf, Put
      <3>3. deliveries[x].request = messages[m].request
        BY <3>1 DEF DeliveriesMatchEnvelopes
      <3> HIDE DEF x, m
      <3>4. /\ deliveries'[d].request = messages[m].request
            /\ messages[m].request \notin securityRejectedRequests
        BY <3>1, <3>2, CreateEffect
      <3> QED
        BY <3>2, <3>3, <3>4 DEF Stopped
    <2> QED
      BY <2>1, OnlyThese DEF RedriveStep
  <1> QED
    BY <1>1, <1>2, <1>3, <1>4, <1>6, <1>7 DEF NoProgress

\* Work that was cancelled, superseded, deleted or rejected for security stays
\* so, and no claim, result, acknowledgement, dead letter or redrive is made for
\* it; a rejected request gets no delivery either (adapter.py's control checks).
THEOREM StoppedWorkFrozen == Spec => StoppedWorkIsFrozen
  <1> DEFINE Frozen == \A r \in Request : Stopped(r) =>
          /\ ~IsActive(r) => ~IsActive(r)'
          /\ r \in securityRejectedRequests => r \in securityRejectedRequests'
          /\ \A c \in DOMAIN claims' \ DOMAIN claims :
                deliveries'[claims'[c].delivery].request # r
          /\ \A x \in DOMAIN acceptedResults' \ DOMAIN acceptedResults :
                acceptedResults'[x].request # r
          /\ \A d \in (acknowledged' \ acknowledged) \cup (DeadLettered' \ DeadLettered)
                      \cup (DOMAIN redrives' \ DOMAIN redrives) :
                deliveries'[d].request # r
          /\ r \in securityRejectedRequests =>
                \A d \in DOMAIN deliveries' \ DOMAIN deliveries :
                    deliveries'[d].request # r
  <1>1. TypeOK /\ DeliveriesMatchEnvelopes /\ [Next]_vars => [Frozen]_vars
    <2> SUFFICES ASSUME TypeOK, DeliveriesMatchEnvelopes, [Next]_vars,
                        NEW r \in Request, Stopped(r)
                 PROVE  /\ ~IsActive(r) => ~IsActive(r)'
                        /\ r \in securityRejectedRequests => r \in securityRejectedRequests'
                        /\ NoProgress(r)
      BY DEF NoProgress
    <2>1. WithdrawalsPersist
      BY StepPersists
    <2> QED
      BY <2>1, StoppedMakesNoProgress DEF WithdrawalsPersist, IsActive
  <1>2. Init => DeliveriesMatchEnvelopes
    BY DEF Init, DeliveriesMatchEnvelopes, Empty
  <1> QED
    BY <1>1, <1>2, InitType, StepType, StepMatches, PTL DEF Spec, StoppedWorkIsFrozen

-----------------------------------------------------------------------------
(* Retries, dead letters and redrives are accounted for.                   *)

\* The inductive form of RetriesAreAccounted, in parts.  A delivery not yet
\* created has fresh counters: without that conjunct the others are not
\* inductive, because a new delivery could be born at its limit.
CountersAccounted ==
    /\ \A d \in DOMAIN deliveries :
          /\ \A f \in CountedFailure : failureCounts[d, f] <= Limit(f)
          /\ d \in DeadLettered <=>
                \E f \in CountedFailure : failureCounts[d, f] = Limit(f)
    /\ \A d \in DeliveryId \ DOMAIN deliveries : \A f \in CountedFailure :
          failureCounts[d, f] = 0

LettersUnique ==
    \A i, j \in DOMAIN deadLetters :
        deadLetters[i].delivery = deadLetters[j].delivery => i = j

DeadHoldNoLiveClaim ==
    \A c \in DOMAIN claims :
        claims[c].delivery \in DeadLettered => claims[c].state \notin LiveClaimState

RedrivenOf(m) == {d \in DOMAIN redrives : deliveries[d].message = m}
RedrivesCounted == \A m \in Message : redriveCounts[m] = Cardinality(RedrivenOf(m))

RedrivesTraced ==
    \A d \in DOMAIN redrives :
        /\ redrives[d].source < d
        /\ redrives[d].source \in DeadLettered
        /\ deliveries[redrives[d].source].message = deliveries[d].message

RetryInv == /\ CountersAccounted /\ LettersUnique /\ DeadHoldNoLiveClaim
            /\ RedrivesCounted /\ RedrivesTraced

LEMMA RetryInvMeans == TypeOK /\ RetryInv => RetriesAreAccounted
  <1> SUFFICES ASSUME TypeOK, RetryInv PROVE RetriesAreAccounted
    OBVIOUS
  <1>1. \A m \in Message :
           /\ redriveCounts[m] <= MaxRedrives
           /\ redriveCounts[m] = Cardinality({d \in DOMAIN redrives : deliveries[d].message = m})
    BY DEF TypeOK, RetryTypeOK, RetryInv, RedrivesCounted, RedrivenOf
  <1> QED
    BY <1>1 DEF RetryInv, RetriesAreAccounted, CountersAccounted, LettersUnique,
                DeadHoldNoLiveClaim, RedrivesTraced

\* RetryPolicy demands positive limits.
LEMMA LimitPositive == \A f \in CountedFailure : Limit(f) \in Nat /\ Limit(f) > 0
  BY QueueAssumption DEF Limit

\* A classification changes one counter, and the dead letters only at its limit.
LEMMA ClassifyEffect ==
  ASSUME TypeOK, NEW d \in DOMAIN deliveries, NEW f \in Failures,
         ClassifyRetryable(d, f) \/ ClassifyExhausted(d, f)
  PROVE  /\ f \in CountedFailure /\ d \in DeliveryId /\ d \notin DeadLettered
         /\ failureCounts' = [failureCounts EXCEPT ![<<d, f>>] = @ + 1]
         /\ UNCHANGED deliveries
         /\ \/ /\ failureCounts[d, f] + 1 < Limit(f)
               /\ DeadLettered' = DeadLettered
            \/ /\ failureCounts[d, f] + 1 >= Limit(f)
               /\ DeadLettered' = DeadLettered \cup {d}
  <1>1. f \in CountedFailure /\ d \in DeliveryId
    BY QueueAssumption DEF TypeOK, DeliveryTypeOK, IsDict
  <1>2. /\ d \notin DeadLettered
        /\ failureCounts' = [failureCounts EXCEPT ![<<d, f>>] = @ + 1]
        /\ UNCHANGED deliveries
    BY DEF ClassifyRetryable, ClassifyExhausted, MayClassify, deliveryVars
  <1>3. CASE ClassifyRetryable(d, f)
    BY <1>1, <1>2, <1>3 DEF ClassifyRetryable, DeadLettered
  <1>4. CASE ClassifyExhausted(d, f)
    <2>1. deadLetters \in Seq(DeadLetter)
      BY DEF TypeOK, RetryTypeOK
    <2>2. PICK letter : letter.delivery = d /\ deadLetters' = Append(deadLetters, letter)
      BY <1>4 DEF ClassifyExhausted
    <2>3. DeadLettered' = DeadLettered \cup {d}
      BY <2>1, <2>2, DeadLetteredGrows
    <2> QED
      BY <1>1, <1>2, <1>4, <2>3 DEF ClassifyExhausted
  <1> QED
    BY <1>3, <1>4

LEMMA CountersAtClassify ==
  ASSUME TypeOK, CountersAccounted, NEW d \in DOMAIN deliveries, NEW f \in Failures,
         ClassifyRetryable(d, f) \/ ClassifyExhausted(d, f)
  PROVE  CountersAccounted'
  <1>1. /\ f \in CountedFailure /\ d \in DeliveryId /\ d \notin DeadLettered
        /\ UNCHANGED deliveries
    BY ClassifyEffect
  <1>2. \A x \in DeliveryId, g \in CountedFailure :
           /\ failureCounts[x, g] \in Nat
           /\ failureCounts'[x, g] = IF x = d /\ g = f THEN failureCounts[d, f] + 1
                                                       ELSE failureCounts[x, g]
    <2>1. failureCounts \in [DeliveryId \X CountedFailure -> Nat]
      BY DEF TypeOK, RetryTypeOK
    <2>2. failureCounts' = [failureCounts EXCEPT ![<<d, f>>] = @ + 1]
      BY ClassifyEffect
    <2> QED
      BY <2>1, <2>2
  <1>3. PICK limit \in [CountedFailure -> Nat] :
          \A g \in CountedFailure : limit[g] = Limit(g)
    <2>1. [g \in CountedFailure |-> Limit(g)] \in [CountedFailure -> Nat]
      BY LimitPositive
    <2> QED
      BY <2>1
  <1>4. DOMAIN deliveries \subseteq DeliveryId
    BY DEF TypeOK, DeliveryTypeOK, IsDict
  <1>5. \A x \in DOMAIN deliveries : x # d =>
           /\ \A g \in CountedFailure : failureCounts'[x, g] = failureCounts[x, g]
           /\ x \in DeadLettered' <=> x \in DeadLettered
    <2>1. DeadLettered' = DeadLettered \/ DeadLettered' = DeadLettered \cup {d}
      BY ClassifyEffect
    <2> QED
      BY <1>2, <1>4, <2>1
  <1>6. \A x \in DeliveryId \ DOMAIN deliveries : \A g \in CountedFailure :
           failureCounts'[x, g] = 0
    BY <1>2 DEF CountersAccounted
  <1>7. /\ \A g \in CountedFailure : failureCounts'[d, g] <= Limit(g)
        /\ d \in DeadLettered' <=> \E g \in CountedFailure : failureCounts'[d, g] = Limit(g)
    <2> DEFINE old == [g \in CountedFailure |-> failureCounts[d, g]]
               new == [g \in CountedFailure |-> failureCounts'[d, g]]
    <2>1. /\ old \in [CountedFailure -> Nat]
          /\ new = [old EXCEPT ![f] = @ + 1]
      BY <1>1, <1>2
    <2>2. \A g \in CountedFailure : old[g] <= limit[g] /\ old[g] # limit[g]
      BY <1>1, <1>3 DEF CountersAccounted
    <2>3. \/ /\ old[f] + 1 < limit[f]
             /\ DeadLettered' = DeadLettered
          \/ /\ old[f] + 1 >= limit[f]
             /\ DeadLettered' = DeadLettered \cup {d}
      <3>1. old[f] = failureCounts[d, f] /\ limit[f] = Limit(f)
        BY <1>1, <1>3
      <3>2. \/ /\ failureCounts[d, f] + 1 < Limit(f)
               /\ DeadLettered' = DeadLettered
            \/ /\ failureCounts[d, f] + 1 >= Limit(f)
               /\ DeadLettered' = DeadLettered \cup {d}
        BY ClassifyEffect
      <3> HIDE DEF old
      <3> QED
        BY <3>1, <3>2, Zenon
    <2>4. \A g \in CountedFailure : new[g] = failureCounts'[d, g]
      OBVIOUS
    <2> HIDE DEF old, new
    <2>5. \A g \in CountedFailure : new[g] <= limit[g]
      BY <1>1, <1>3, <2>1, <2>2
    <2>6. CASE old[f] + 1 < limit[f] /\ DeadLettered' = DeadLettered
      <3>1. \A g \in CountedFailure : new[g] # limit[g]
        BY <1>1, <1>3, <2>1, <2>2, <2>6
      <3> QED
        BY <1>1, <1>3, <2>4, <2>5, <2>6, <3>1
    <2>7. CASE old[f] + 1 >= limit[f] /\ DeadLettered' = DeadLettered \cup {d}
      <3>1. new[f] = limit[f]
        BY <1>1, <1>3, <2>1, <2>2, <2>7
      <3> QED
        BY <1>1, <1>3, <2>4, <2>5, <2>7, <3>1
    <2> QED
      BY <2>3, <2>6, <2>7
  <1>8. \A x \in DOMAIN deliveries :
           /\ \A g \in CountedFailure : failureCounts'[x, g] <= Limit(g)
           /\ x \in DeadLettered' <=> \E g \in CountedFailure : failureCounts'[x, g] = Limit(g)
    BY <1>5, <1>7 DEF CountersAccounted
  <1> QED
    BY <1>1, <1>6, <1>8 DEF CountersAccounted, Limit

LEMMA CountersAtCreate ==
  ASSUME TypeOK, CountersAccounted, NEW m \in DOMAIN messages, NEW isRedrive \in BOOLEAN,
         CreateDelivery(m, isRedrive), UNCHANGED <<failureCounts, deadLetters>>
  PROVE  CountersAccounted'
  <1>1. /\ deliverySequence + 1 \notin DOMAIN deliveries
        /\ DOMAIN deliveries' = DOMAIN deliveries \cup {deliverySequence + 1}
        /\ deliverySequence + 1 \in DeliveryId
    BY CreateEffect, CreateDeliveryType
  <1>2. DeadLettered' = DeadLettered /\ deliverySequence + 1 \notin DeadLettered
    BY <1>1 DEF DeadLettered, TypeOK, RetryTypeOK
  <1>3. \A f \in CountedFailure : failureCounts[deliverySequence + 1, f] = 0
    BY <1>1 DEF CountersAccounted
  <1>4. \A f \in CountedFailure : 0 <= Limit(f) /\ 0 # Limit(f)
    BY LimitPositive
  <1>5. \A d \in DOMAIN deliveries' :
          /\ \A f \in CountedFailure : failureCounts'[d, f] <= Limit(f)
          /\ d \in DeadLettered' <=>
                \E f \in CountedFailure : failureCounts'[d, f] = Limit(f)
    BY <1>1, <1>2, <1>3, <1>4 DEF CountersAccounted
  <1>6. \A d \in DeliveryId \ DOMAIN deliveries' : \A f \in CountedFailure :
          failureCounts'[d, f] = 0
    BY <1>1 DEF CountersAccounted
  <1> QED
    BY <1>5, <1>6 DEF CountersAccounted, Limit

\* A step that neither classifies nor creates leaves counters and letters alone.
LEMMA QuietRetries ==
  ASSUME TypeOK, [Next]_vars
  PROVE  \/ CreateStep \/ RetryStep \/ ExhaustStep
         \/ UNCHANGED <<deliveries, failureCounts, deadLetters>>
  <1>1. ClaimStep \/ LeaseStep \/ AcceptStep \/ AckStep \/ RejectStep \/ OtherStep =>
           UNCHANGED <<deliveries, failureCounts, deadLetters>>
    BY StepsKeep
  <1> QED
    BY <1>1, StepCases, Creates

LEMMA StepCounters == TypeOK /\ CountersAccounted /\ [Next]_vars => CountersAccounted'
  <1> SUFFICES ASSUME TypeOK, CountersAccounted, [Next]_vars PROVE CountersAccounted'
    OBVIOUS
  <1>1. CreateStep => CountersAccounted'
    BY CountersAtCreate DEF CreateStep
  <1>2. RetryStep \/ ExhaustStep => CountersAccounted'
    BY CountersAtClassify DEF RetryStep, ExhaustStep
  <1>3. UNCHANGED <<deliveries, failureCounts, deadLetters>> => CountersAccounted'
    <2> SUFFICES ASSUME UNCHANGED <<deliveries, failureCounts, deadLetters>>
                 PROVE  CountersAccounted'
      OBVIOUS
    <2>1. DeadLettered' = DeadLettered
      BY DEF DeadLettered
    <2> QED
      BY <2>1 DEF CountersAccounted, Limit
  <1> QED
    BY <1>1, <1>2, <1>3, QuietRetries

\* Only a delivery without a dead letter is dead-lettered.
LEMMA StepLetters == TypeOK /\ LettersUnique /\ [Next]_vars => LettersUnique'
  <1> SUFFICES ASSUME TypeOK, LettersUnique, [Next]_vars PROVE LettersUnique'
    OBVIOUS
  <1>1. ASSUME NEW d \in DOMAIN deliveries, NEW f \in Failures, ClassifyExhausted(d, f)
        PROVE  LettersUnique'
    <2>1. deadLetters \in Seq(DeadLetter)
      BY DEF TypeOK, RetryTypeOK
    <2>2. PICK letter : letter.delivery = d /\ deadLetters' = Append(deadLetters, letter)
      BY <1>1 DEF ClassifyExhausted
    <2>3. \A i \in DOMAIN deadLetters : deadLetters[i].delivery # d
      BY <1>1 DEF ClassifyExhausted, MayClassify, DeadLettered
    <2>4. /\ DOMAIN deadLetters' = DOMAIN deadLetters \cup {Len(deadLetters) + 1}
          /\ deadLetters'[Len(deadLetters) + 1] = letter
          /\ \A i \in DOMAIN deadLetters : deadLetters'[i] = deadLetters[i]
      BY <2>1, <2>2
    <2> QED
      BY <2>2, <2>3, <2>4 DEF LettersUnique
  <1>2. UNCHANGED deadLetters => LettersUnique'
    BY DEF LettersUnique
  <1> QED
    BY <1>1, <1>2, OnlyThese DEF ExhaustStep

\* A dead-lettered delivery is never claimed, and dying revokes its claims.
LEMMA StepDeadClaims == TypeOK /\ DeadHoldNoLiveClaim /\ [Next]_vars => DeadHoldNoLiveClaim'
  <1> SUFFICES ASSUME TypeOK, DeadHoldNoLiveClaim, [Next]_vars PROVE DeadHoldNoLiveClaim'
    OBVIOUS
  <1>1. ClaimsPersist
    BY StepPersists
  <1>2. ASSUME NEW d \in DOMAIN deliveries, NEW w \in Worker, Claim(d, w)
        PROVE  DeadHoldNoLiveClaim'
    <2>1. DOMAIN Replaced(d) = DOMAIN claims
      BY DEF Replaced
    <2>2. \A c \in DOMAIN claims' \ DOMAIN claims : claims'[c].delivery = d
      BY <1>2, <2>1 DEF Claim, Put
    <2>3. d \notin DeadLettered /\ DeadLettered' = DeadLettered
      BY <1>2 DEF Claim, CanProcess, retryVars, DeadLettered
    <2> QED
      BY <1>1, <2>2, <2>3 DEF DeadHoldNoLiveClaim, ClaimsPersist
  <1>3. ASSUME NEW d \in DOMAIN deliveries, NEW f \in Failures, ClassifyExhausted(d, f)
        PROVE  DeadHoldNoLiveClaim'
    <2> DEFINE C == {c \in DOMAIN claims : claims[c].delivery = d}
    <2>1. claims' = Revoke(C) /\ DOMAIN claims' = DOMAIN claims
      BY <1>3 DEF ClassifyExhausted, Revoke
    <2>2. DeadLettered' \subseteq DeadLettered \cup {d}
      BY <1>3, ClassifyEffect
    <2>3. ASSUME NEW c \in C PROVE claims'[c].state \notin LiveClaimState
      <3>1. claims[c] \in ClaimRecord /\ c \in DOMAIN claims
        BY DEF TypeOK, ClaimTypeOK, IsDict
      <3>2. CASE claims[c].state \in LiveClaimState
        <4>1. claims'[c] = [claims[c] EXCEPT !.state = "REVOKED"]
          BY <2>1, <3>1, <3>2 DEF Revoke
        <4> QED
          BY <3>1, <4>1 DEF ClaimRecord, LiveClaimState
      <3>3. CASE claims[c].state \notin LiveClaimState
        BY <1>1, <3>1, <3>3 DEF ClaimsPersist
      <3> QED
        BY <3>2, <3>3
    <2> QED
      BY <1>1, <2>1, <2>2, <2>3 DEF DeadHoldNoLiveClaim, ClaimsPersist
  <1>4. DOMAIN claims' = DOMAIN claims /\ UNCHANGED deadLetters => DeadHoldNoLiveClaim'
    BY <1>1 DEF DeadHoldNoLiveClaim, ClaimsPersist, DeadLettered
  <1> QED
    BY <1>2, <1>3, <1>4, OnlyThese DEF ClaimStep, ExhaustStep

\* redrive counts the delivery it creates under the message it redrives and
\* records the dead-lettered delivery it stands for.
LEMMA RedriveEffect ==
  ASSUME TypeOK, NEW i \in DOMAIN deadLetters, RedriveOf(deadLetters[i])
  PROVE  \E m \in DOMAIN messages, source \in DeadLettered :
           LET n == deliverySequence + 1
           IN  /\ deliveries[source].message = m
               /\ n \notin DOMAIN deliveries /\ deliveries'[n].message = m
               /\ source < n
               /\ redriveCounts' = [redriveCounts EXCEPT ![m] = @ + 1]
               /\ DOMAIN redrives' = DOMAIN redrives \cup {n}
               /\ redrives'[n].source = source
               /\ \A d \in DOMAIN redrives : redrives'[d] = redrives[d]
               /\ UNCHANGED deadLetters
  <1> DEFINE source == deadLetters[i].delivery
             m == deliveries[source].message
             n == deliverySequence + 1
             r == [source |-> source, classification |-> deadLetters[i].classification]
  <1>1. source \in DeadLettered /\ source \in DOMAIN deliveries
    BY DEF TypeOK, RetryTypeOK, DeadLettered
  <1>2. m \in DOMAIN messages /\ source < n
    BY <1>1 DEF TypeOK, DeliveryTypeOK
  <1>3. /\ CreateDelivery(m, TRUE)
        /\ redriveCounts' = [redriveCounts EXCEPT ![m] = @ + 1]
        /\ redrives' = Put(redrives, n, r)
        /\ UNCHANGED deadLetters
    BY DEF RedriveOf, ChargedRedrive
  <1>4. r.source = source
    OBVIOUS
  <1> HIDE DEF m, r, source
  <1>5. n \notin DOMAIN deliveries /\ deliveries'[n].message = m
    BY <1>2, <1>3, CreateEffect
  <1>6. n \notin DOMAIN redrives
    BY <1>5 DEF TypeOK, RetryTypeOK
  <1>7. /\ DOMAIN redrives' = DOMAIN redrives \cup {n}
        /\ redrives'[n].source = source
        /\ \A d \in DOMAIN redrives : redrives'[d] = redrives[d]
    BY <1>3, <1>4, <1>6 DEF Put
  <1>8. deliveries[source].message = m
    BY DEF m
  <1> QED
    BY <1>1, <1>2, <1>3, <1>5, <1>7, <1>8

LEMMA StepRedrivesCounted == TypeOK /\ RedrivesCounted /\ [Next]_vars => RedrivesCounted'
  <1> SUFFICES ASSUME TypeOK, RedrivesCounted, [Next]_vars, NEW x \in Message
               PROVE  redriveCounts'[x] = Cardinality(RedrivenOf(x)')
    BY DEF RedrivesCounted
  <1>1. DeliveriesPersist /\ DOMAIN redrives \subseteq DOMAIN deliveries
    BY StepPersists DEF TypeOK, RetryTypeOK
  <1>2. IsFiniteSet(RedrivenOf(x)) /\ Cardinality(RedrivenOf(x)) \in Nat
    <2>1. deliverySequence \in Int /\ IsFiniteSet(1..deliverySequence)
      BY FS_Interval DEF TypeOK, DeliveryTypeOK
    <2>2. RedrivenOf(x) \subseteq 1..deliverySequence
      BY <1>1 DEF RedrivenOf, TypeOK, DeliveryTypeOK
    <2> QED
      BY <2>1, <2>2, FS_Subset, FS_CardinalityType
  <1>3. ASSUME NEW i \in DOMAIN deadLetters, RedriveOf(deadLetters[i])
        PROVE  redriveCounts'[x] = Cardinality(RedrivenOf(x)')
    <2> DEFINE n == deliverySequence + 1
    <2>1. PICK m \in DOMAIN messages :
             /\ n \notin DOMAIN deliveries /\ deliveries'[n].message = m
             /\ redriveCounts' = [redriveCounts EXCEPT ![m] = @ + 1]
             /\ DOMAIN redrives' = DOMAIN redrives \cup {n}
      BY <1>3, RedriveEffect
    <2> HIDE DEF n
    <2>2. RedrivenOf(x)' = IF x = m THEN RedrivenOf(x) \cup {n} ELSE RedrivenOf(x)
      BY <1>1, <2>1 DEF RedrivenOf, DeliveriesPersist
    <2>3. n \notin RedrivenOf(x)
      BY <1>1, <2>1 DEF RedrivenOf
    <2>4. Cardinality(RedrivenOf(x) \cup {n}) = Cardinality(RedrivenOf(x)) + 1
      BY <1>2, <2>3, FS_AddElement
    <2>5. redriveCounts'[x] = IF x = m THEN redriveCounts[x] + 1 ELSE redriveCounts[x]
      BY <2>1 DEF TypeOK, RetryTypeOK
    <2> QED
      BY <2>2, <2>4, <2>5 DEF RedrivesCounted
  <1>4. ASSUME UNCHANGED <<redriveCounts, redrives>>
        PROVE  redriveCounts'[x] = Cardinality(RedrivenOf(x)')
    <2>1. RedrivenOf(x)' = RedrivenOf(x)
      BY <1>1, <1>4 DEF RedrivenOf, DeliveriesPersist
    <2> QED
      BY <1>4, <2>1 DEF RedrivesCounted
  <1> QED
    BY <1>3, <1>4, OnlyThese DEF RedriveStep

LEMMA StepRedrivesTraced == TypeOK /\ RedrivesTraced /\ [Next]_vars => RedrivesTraced'
  <1> SUFFICES ASSUME TypeOK, RedrivesTraced, [Next]_vars, NEW d \in DOMAIN redrives'
               PROVE  /\ redrives'[d].source < d
                      /\ redrives'[d].source \in DeadLettered'
                      /\ deliveries'[redrives'[d].source].message = deliveries'[d].message
    BY DEF RedrivesTraced
  <1>1. /\ DeliveriesPersist /\ WithdrawalsPersist
        /\ DOMAIN redrives \subseteq DOMAIN deliveries
        /\ DeadLettered \subseteq DOMAIN deliveries
    BY StepPersists DEF TypeOK, RetryTypeOK
  <1>2. ASSUME d \in DOMAIN redrives, redrives'[d] = redrives[d]
        PROVE  /\ redrives'[d].source < d
               /\ redrives'[d].source \in DeadLettered'
               /\ deliveries'[redrives'[d].source].message = deliveries'[d].message
    BY <1>1, <1>2 DEF RedrivesTraced, DeliveriesPersist, WithdrawalsPersist
  <1>3. ASSUME NEW i \in DOMAIN deadLetters, RedriveOf(deadLetters[i])
        PROVE  /\ redrives'[d].source < d
               /\ redrives'[d].source \in DeadLettered'
               /\ deliveries'[redrives'[d].source].message = deliveries'[d].message
    <2> DEFINE n == deliverySequence + 1
    <2>1. PICK source \in DeadLettered :
             /\ deliveries'[n].message = deliveries[source].message
             /\ source < n
             /\ DOMAIN redrives' = DOMAIN redrives \cup {n}
             /\ redrives'[n].source = source
             /\ \A e \in DOMAIN redrives : redrives'[e] = redrives[e]
      BY <1>3, RedriveEffect
    <2> HIDE DEF n
    <2>2. CASE d = n
      BY <1>1, <2>1, <2>2 DEF DeliveriesPersist, WithdrawalsPersist
    <2>3. CASE d \in DOMAIN redrives
      BY <1>2, <2>1, <2>3
    <2> QED
      BY <2>1, <2>2, <2>3
  <1>4. CASE UNCHANGED <<redriveCounts, redrives>>
    BY <1>2, <1>4
  <1> QED
    BY <1>3, <1>4, OnlyThese DEF RedriveStep

LEMMA InitRetry == Init => RetryInv
  <1> SUFFICES ASSUME Init PROVE RetryInv
    OBVIOUS
  <1>1. DOMAIN deliveries = {} /\ DOMAIN claims = {} /\ DOMAIN redrives = {}
        /\ deadLetters = <<>>
    BY DEF Init, Empty
  <1>2. \A m \in Message : RedrivenOf(m) = {}
    BY <1>1 DEF RedrivenOf
  <1>3. Cardinality({}) = 0
    BY FS_EmptySet
  <1>4. RedrivesCounted
    BY <1>2, <1>3 DEF Init, RedrivesCounted
  <1>5. CountersAccounted
    BY <1>1 DEF Init, CountersAccounted
  <1> QED
    BY <1>1, <1>4, <1>5
       DEF RetryInv, LettersUnique, DeadHoldNoLiveClaim, RedrivesTraced

\* A delivery dies exactly when one of its counters reaches the policy's limit,
\* once, without a live claim; and redrives are bounded per message, counted, and
\* traced to an earlier dead delivery of it (classify_failure, redrive).
THEOREM RetriesAccounted == Spec => []RetriesAreAccounted
  <1>1. TypeOK /\ RetryInv /\ [Next]_vars => RetryInv'
    BY StepCounters, StepLetters, StepDeadClaims, StepRedrivesCounted, StepRedrivesTraced
       DEF RetryInv
  <1> QED
    BY <1>1, InitRetry, InitType, StepType, RetryInvMeans, PTL DEF Spec

=============================================================================
