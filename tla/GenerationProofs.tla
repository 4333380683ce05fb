-------------------------- MODULE GenerationProofs --------------------------
(***************************************************************************)
(* Theorems about the generation of a test: what a call of the model       *)
(* runtime reports, for every plan, retry budget and behaviour of the      *)
(* providers, and what stands behind a proposal, for every client, boundary*)
(* and caller of the coordinators.                                         *)
(***************************************************************************)
EXTENDS GenerationPipeline, SequenceTheorems, FiniteSetTheorems, WellFoundedInduction, TLAPS

-----------------------------------------------------------------------------
(* The inductive invariants.                                               *)

LastAttempt == attempts[Len(attempts)]

\* While a call is not returned every attempt so far was to be retried, and
\* there is a next position in the plan.
PendingInv ==
    serving # Idle /\ invocation = NotReturned =>
        /\ \A i \in DOMAIN attempts : attempts[i].outcome.status \in Retryable
        /\ attempts # <<>> => ~IsLastAttempt(LastAttempt)

ServingInv ==
    /\ serving # Idle => serving.request.retries \in Nat
    /\ serving = Idle => attempts = <<>> /\ invocation = NotReturned
    /\ \E S : attempts \in Seq(S)

RuntimeInv == ServingInv /\ PendingInv /\ FallbackFollowsThePlan

\* What the runtime returned is about the call in progress, and a provider
\* gave what it reports as a success.
ReturnedInv ==
    serving # Idle /\ invocation \notin {NotReturned, Raised} =>
        /\ invocation = Invocation(serving.role, serving.request, attempts,
                                   invocation.outcome, invocation.exhausted)
        /\ Heard(serving.role, serving.request, invocation.outcome) \subseteq heard

LateInv ==
    \A v \in LateInvocations : Heard(v.role, v.request, v.outcome) \subseteq heard

\* A plan whose outcome is the last attempt's is one that a provider gave.
PlanHeard(v) ==
    v.role = "PLANNER" /\ v.outcome.status = "SUCCESS" /\ Attributed(v) =>
        \E h \in heard : h.role = "PLANNER" /\ h.output = v.outcome.output

Planned == stage = "localising" \/ (stage = "assembling" /\ job.kind = "attempt")

PlanInv ==
    Planned =>
        /\ plan.plan = [revision |-> job.revision, query |-> plan.plan.query]
        /\ plan.plan.query \in DOMAIN Evidence
        /\ PlanHeard(plan.invocation)

\* What is quoted was read as it was indexed.
ReadAsIndexed(b) == b.items # <<>> => ToSet(b.texts) = {"indexed"}

AssemblyInv ==
    stage = "assembling" /\ job.kind = "attempt" =>
        /\ \E S : order.candidates \in Seq(S)
        /\ DOMAIN reading = {"at", "seen", "opened", "texts"}
        /\ reading.at \in Nat /\ reading.texts \in Seq({"indexed"})
        /\ reading.at > 1 => reading.texts # <<>>
        /\ bundle \in {NoBundle, Failed} \/ ReadAsIndexed(bundle)

\* The intent, which a caller may have put together.
IntentInv ==
    stage \in {"ready", "generating"} =>
        /\ intent = [plan |-> [revision |-> job.revision, query |-> intent.plan.query],
                     bundle |-> intent.bundle, invocation |-> intent.invocation]
        /\ ReadAsIndexed(intent.bundle)
        /\ PlanHeard(intent.invocation)

GeneratingInv ==
    stage = "generating" =>
        /\ IntentBound(intent)
        /\ serving = [kind |-> "call", role |-> "GENERATOR", request |-> GeneratorRequest(intent)]

StageInv ==
    /\ job \in Jobs
    /\ stage \in {"planning", "localising", "ready", "generating"} => job.kind = "attempt"
    /\ decision.kind # "none" => stage = "decided"

PipelineInv ==
    /\ StageInv /\ RuntimeInv /\ ReturnedInv /\ LateInv /\ PlanInv /\ AssemblyInv
    /\ IntentInv /\ GeneratingInv /\ ProposalIsEarned

-----------------------------------------------------------------------------
(* Positions in the plan.                                                  *)

LEMMA PlanIsASequence == Plan \in Seq(STRING) /\ Len(Plan) \in Nat \ {0}
<1>1. Plan \in Seq(STRING) /\ Plan # <<>>
  BY PlanAssumption
<1> QED BY <1>1, EmptySeq

LEMMA RetryableStatuses ==
    ASSUME NEW outcome
    PROVE  Retries(outcome) <=> outcome.status \in Retryable
BY PlanAssumption DEF Retries, Conditions, Terminal

LEMMA FallbackPosition ==
    ASSUME NEW t \in Nat, NEW r \in Nat, NEW i \in Nat,
           i = (t - 1) * (r + 1) + (r + 1)
    PROVE  /\ i = t * (r + 1)
           /\ i + 1 = ((t + 1) - 1) * (r + 1) + 1
<1>1. (t - 1) * (r + 1) + (r + 1) = t * (r + 1)
  OBVIOUS
<1>2. (t + 1) - 1 = t
  OBVIOUS
<1> QED BY <1>1, <1>2

LEMMA SequenceExtension ==
    ASSUME NEW S, NEW s \in Seq(S), NEW e
    PROVE  /\ Append(s, e) \in Seq(S \cup {e})
           /\ Append(s, e) # <<>>
           /\ Len(s) \in Nat /\ DOMAIN s = 1 .. Len(s)
           /\ Len(Append(s, e)) = Len(s) + 1
           /\ DOMAIN Append(s, e) = 1 .. Len(s) + 1
           /\ \A i \in 1 .. Len(s) : Append(s, e)[i] = s[i]
           /\ Append(s, e)[Len(s) + 1] = e
<1>1. s \in Seq(S \cup {e})
  OBVIOUS
<1> QED BY <1>1, AppendProperties, LenProperties

\* The next attempt is at the position after the last one.
LEMMA NextPosition ==
    ASSUME RuntimeInv, serving # Idle, invocation = NotReturned
    PROVE  InPosition(Len(attempts) + 1, NextAttempt, serving.request.retries)
<1> DEFINE r == serving.request.retries
           last == LastAttempt
<1>1. r \in Nat
  BY DEF RuntimeInv, ServingInv
<1>2. PICK S : attempts \in Seq(S)
  BY DEF RuntimeInv, ServingInv
<1>3. Len(attempts) \in Nat /\ DOMAIN attempts = 1 .. Len(attempts)
  BY <1>2, LenProperties
<1>4. CASE attempts = <<>>
  <2>1. NextAttempt = [target |-> 1, number |-> 1] /\ Len(attempts) = 0
    BY <1>4 DEF NextAttempt
  <2>2. (1 - 1) * (r + 1) + 1 = 1
    BY <1>1
  <2> QED BY <1>1, <2>1, <2>2, PlanIsASequence DEF InPosition
<1>5. CASE attempts # <<>>
  <2>1. Len(attempts) \in DOMAIN attempts
    BY <1>2, <1>3, <1>5, EmptySeq
  <2>2. InPosition(Len(attempts), last, r)
    BY <2>1 DEF RuntimeInv, FallbackFollowsThePlan, LastAttempt
  <2>3. ~IsLastAttempt(last)
    BY <1>5 DEF RuntimeInv, PendingInv
  <2>4. last.target \in Nat /\ last.number \in Nat
    BY <2>2, PlanIsASequence, <1>1 DEF InPosition
  <2>5. CASE last.number <= r
    <3>1. NextAttempt = [target |-> last.target, number |-> last.number + 1]
      BY <1>5, <2>5 DEF NextAttempt, LastAttempt
    <3>2. Len(attempts) + 1 = (last.target - 1) * (r + 1) + (last.number + 1)
      <4>1. Len(attempts) = (last.target - 1) * (r + 1) + last.number
        BY <2>2 DEF InPosition
      <4>2. (last.target - 1) * (r + 1) \in Int
        BY <1>1, <2>4
      <4> QED BY <1>3, <2>4, <4>1, <4>2
    <3> QED BY <1>1, <2>2, <2>4, <2>5, <3>1, <3>2 DEF InPosition
  <2>6. CASE ~(last.number <= r)
    <3>1. NextAttempt = [target |-> last.target + 1, number |-> 1]
      BY <1>5, <2>6 DEF NextAttempt, LastAttempt
    <3>2. last.number = r + 1
      BY <1>1, <2>2, <2>4, <2>6 DEF InPosition
    <3>3. last.target # Len(Plan)
      BY <2>3, <3>2 DEF IsLastAttempt
    <3>4. Len(attempts) + 1 = ((last.target + 1) - 1) * (r + 1) + 1
      BY <1>1, <1>3, <2>2, <2>4, <3>2, FallbackPosition DEF InPosition
    <3>5. last.target + 1 \in 1 .. Len(Plan)
      BY <2>2, <2>4, <3>3, PlanIsASequence DEF InPosition
    <3> QED BY <1>1, <3>1, <3>4, <3>5 DEF InPosition
  <2> QED BY <2>5, <2>6
<1> QED BY <1>4, <1>5

-----------------------------------------------------------------------------
LEMMA RuntimeStarts == RuntimeInit => RuntimeInv
<1> SUFFICES ASSUME RuntimeInit PROVE RuntimeInv
  OBVIOUS
<1>1. <<>> \in Seq({})
  OBVIOUS
<1> QED BY <1>1 DEF RuntimeInit, RuntimeInv, ServingInv, PendingInv, FallbackFollowsThePlan

LEMMA RuntimeCalled ==
    ASSUME RuntimeInv, NEW role, NEW request, request.retries \in Nat, NEW declared,
           Call(role, request, declared)
    PROVE  RuntimeInv'
<1>1. /\ serving' = [kind |-> "call", role |-> role, request |-> request]
      /\ attempts' = <<>>
  BY DEF Call
<1>2. serving' # Idle /\ serving'.request = request
  BY <1>1 DEF Idle
<1>4. <<>> \in Seq({})
  OBVIOUS
<1>5. ServingInv'
  BY <1>1, <1>2, <1>4 DEF ServingInv, Idle
<1>6. DOMAIN attempts' = {}
  BY <1>1
<1>7. PendingInv' /\ FallbackFollowsThePlan'
  BY <1>1, <1>6 DEF PendingInv, FallbackFollowsThePlan
<1> QED BY <1>5, <1>7 DEF RuntimeInv

LEMMA RuntimeAttempted ==
    ASSUME RuntimeInv, NEW answer, Attempt(answer)
    PROVE  RuntimeInv'
<1> DEFINE r == serving.request.retries
           next == NextAttempt
           outcome == Normalised(answer, serving.request)
           new == [target |-> next.target, number |-> next.number, outcome |-> outcome]
           returned == Invocation(serving.role, serving.request, Append(attempts, new),
                                  outcome, Retries(outcome))
<1>1. /\ serving # Idle /\ invocation = NotReturned /\ serving' = serving
      /\ attempts' = Append(attempts, new)
      /\ invocation' = IF Retries(outcome) /\ ~IsLastAttempt(next) THEN NotReturned
                       ELSE returned
  BY DEF Attempt
<1> HIDE DEF outcome
<1>2. PICK S : attempts \in Seq(S)
  BY DEF RuntimeInv, ServingInv
<1>3. r \in Nat
  BY <1>1 DEF RuntimeInv, ServingInv
<1>4. InPosition(Len(attempts) + 1, next, r)
  BY <1>1, NextPosition
<1> HIDE DEF next
<1>5. /\ attempts' \in Seq(S \cup {new}) /\ attempts' # <<>>
      /\ Len(attempts) \in Nat /\ DOMAIN attempts = 1 .. Len(attempts)
      /\ Len(attempts') = Len(attempts) + 1
      /\ DOMAIN attempts' = 1 .. Len(attempts) + 1
      /\ \A i \in 1 .. Len(attempts) : attempts'[i] = attempts[i]
      /\ attempts'[Len(attempts) + 1] = new
  BY <1>1, <1>2, SequenceExtension
<1>6. LastAttempt' = new /\ new.outcome = outcome
  BY <1>5 DEF LastAttempt
<1>7. InPosition(Len(attempts) + 1, new, r) /\ (IsLastAttempt(new) <=> IsLastAttempt(next))
  BY <1>4 DEF InPosition, IsLastAttempt
<1>8. ServingInv'
  BY <1>1, <1>3, <1>5 DEF ServingInv
<1>9. \A i \in DOMAIN attempts : attempts[i].outcome.status \in Retryable
  BY <1>1 DEF RuntimeInv, PendingInv
<1>10. \A i \in DOMAIN attempts' :
          /\ InPosition(i, attempts'[i], r)
          /\ i < Len(attempts') => attempts'[i].outcome.status \in Retryable
  <2>1. \A i \in 1 .. Len(attempts) : InPosition(i, attempts[i], r)
    BY <1>1, <1>5 DEF RuntimeInv, FallbackFollowsThePlan
  <2> QED BY <1>5, <1>7, <1>9, <2>1
<1>11. returned.kind = "invocation" /\ returned # NotReturned
  BY DEF Invocation, NotReturned
<1>12. CASE Retries(outcome) /\ ~IsLastAttempt(next)
  <2>1. invocation' = NotReturned
    BY <1>1, <1>12
  <2>2. outcome.status \in Retryable
    BY <1>12, RetryableStatuses
  <2>3. PendingInv'
    BY <1>1, <1>5, <1>6, <1>7, <1>9, <1>12, <2>2 DEF PendingInv, IsLastAttempt
  <2>4. FallbackFollowsThePlan'
    BY <1>1, <1>10, <2>1 DEF FallbackFollowsThePlan
  <2> QED BY <1>8, <2>3, <2>4 DEF RuntimeInv
<1>13. CASE ~(Retries(outcome) /\ ~IsLastAttempt(next))
  <2>1. invocation' = returned /\ invocation' # NotReturned
    BY <1>1, <1>11, <1>13
  <2>2. PendingInv'
    BY <2>1 DEF PendingInv
  <2>3. /\ returned.attempts = attempts' /\ returned.outcome = outcome
        /\ returned.exhausted = Retries(outcome)
    BY <1>1 DEF Invocation
  <2>4. Retries(outcome) <=> outcome.status \in Retryable
    BY RetryableStatuses
  <2>5. Retries(outcome) => Len(attempts') = Len(Plan) * (r + 1)
    <3> SUFFICES ASSUME Retries(outcome) PROVE Len(attempts') = Len(Plan) * (r + 1)
      OBVIOUS
    <3>1. next.target = Len(Plan) /\ next.number = r + 1
      BY <1>13 DEF IsLastAttempt
    <3>2. Len(attempts) + 1 = (Len(Plan) - 1) * (r + 1) + (r + 1)
      BY <1>4, <3>1 DEF InPosition
    <3> QED BY <1>3, <1>5, <3>2, FallbackPosition, PlanIsASequence
  <2>6. attempts'[Len(attempts')].outcome = outcome
    BY <1>5, <1>6
  <2>7. FallbackFollowsThePlan'
    <3>1. returned.exhausted <=>
             returned.outcome.status \in Retryable /\ Len(attempts') = Len(Plan) * (r + 1)
      BY <2>3, <2>4, <2>5
    <3> QED BY <1>1, <1>10, <2>1, <2>3, <2>6, <3>1 DEF FallbackFollowsThePlan
  <2> QED BY <1>8, <2>2, <2>7 DEF RuntimeInv
<1> QED BY <1>12, <1>13

LEMMA RuntimeReturned ==
    ASSUME RuntimeInv, Return PROVE RuntimeInv'
<1>1. <<>> \in Seq({})
  OBVIOUS
<1> QED BY <1>1 DEF Return, RuntimeInv, ServingInv, PendingInv, FallbackFollowsThePlan

\* Every call accounts for its attempts: however the providers answer, each
\* target gets exactly its retries, no outcome is retried against the plan, and
\* exhaustion is reported exactly of a plan that was exhausted.
THEOREM RuntimeCorrect == RuntimeSpec => []FallbackFollowsThePlan
<1>1. RuntimeInv /\ [RuntimeNext]_runtimeVars => RuntimeInv'
  <2> SUFFICES ASSUME RuntimeInv, [RuntimeNext]_runtimeVars PROVE RuntimeInv'
    OBVIOUS
  <2>1. ASSUME NEW role \in DOMAIN ClientPrompt, NEW request \in Requests,
               NEW declared \in {0, MaxInput + 1}, Call(role, request, declared)
        PROVE  RuntimeInv'
    BY <2>1, RuntimeCalled, RequestAssumption
  <2>2. ASSUME NEW answer \in Answers, Attempt(answer) PROVE RuntimeInv'
    BY <2>2, RuntimeAttempted
  <2>3. CASE Return
    BY <2>3, RuntimeReturned
  <2>4. CASE UNCHANGED runtimeVars
    BY <2>4 DEF runtimeVars, RuntimeInv, ServingInv, PendingInv, FallbackFollowsThePlan,
                LastAttempt, IsLastAttempt
  <2> QED BY <2>1, <2>2, <2>3, <2>4 DEF RuntimeNext
<1>2. RuntimeInv => FallbackFollowsThePlan
  BY DEF RuntimeInv
<1> QED BY RuntimeStarts, <1>1, <1>2, PTL DEF RuntimeSpec
-----------------------------------------------------------------------------
(* The ranking and the packing.                                            *)

LEMMA NothingToQuote ==
    ASSUME NEW request, request.candidates = <<>>
    PROVE  Pack(request).items = <<>>
<1>1. Spans(request) = <<>>
  <2>1. DOMAIN request.candidates = {}
    OBVIOUS
  <2> QED BY <2>1 DEF Spans, FlattenSeq
<1> DEFINE start == [items |-> <<>>, remaining |-> request.budget]
           Packed(i, packed) == PackSpan(packed, <<>>[i])
           Unfolded(iter) ==
               iter = [s \in SUBSET DOMAIN <<>> |->
                          IF s = {} THEN start ELSE Packed(Max(s), iter[s \ {Max(s)}])]
<1>2. DOMAIN <<>> = {} /\ SUBSET DOMAIN <<>> = {{}}
  OBVIOUS
<1>3. Unfolded([s \in {{}} |-> start])
  BY <1>2
<1>4. (CHOOSE iter : Unfolded(iter))[{}] = start
  BY <1>2, <1>3
<1>5. FoldLeft(PackSpan, start, <<>>) = start
  BY <1>2, <1>4 DEF FoldLeft, MapThenFoldSet
<1> QED BY <1>1, <1>5 DEF Pack

-----------------------------------------------------------------------------
(* Induction, with the property as the set of what has it.                 *)

LEMMA LeastOf ==
    ASSUME NEW T \in SUBSET Nat, T # {}
    PROVE  \E x \in T : \A y \in T : x <= y
<1>1. IsWellFoundedOn(OpToRel(<, Nat), Nat)
  BY NatLessThanWellFounded, Zenon
<1>2. PICK x \in T : \A y \in T : ~(<<y, x>> \in OpToRel(<, Nat))
  <2> HIDE DEF OpToRel
  <2> QED BY <1>1, WFMin
<1>3. \A y \in T : ~(y < x)
  BY <1>2 DEF OpToRel
<1> QED BY <1>3

LEMMA Inhabited ==
    ASSUME NEW s, NEW n \in Nat, Cardinality(s) = n + 1
    PROVE  s # {}
BY FS_EmptySet

LEMMA OneLess ==
    ASSUME NEW s, IsFiniteSet(s), NEW x \in s, NEW n \in Nat, Cardinality(s) = n + 1
    PROVE  Cardinality(s \ {x}) = n
<1>1. Cardinality(s \ {x}) = Cardinality(s) - 1
  BY FS_RemoveElement
<1> QED BY <1>1

LEMMA Counting ==
    ASSUME NEW J, 0 \in J, \A n \in Nat : n \in J => n + 1 \in J
    PROVE  Nat \subseteq J
<1> SUFFICES ASSUME Nat \ J # {} PROVE FALSE
  OBVIOUS
<1>1. PICK x \in Nat \ J : \A y \in Nat \ J : x <= y
  BY LeastOf
<1>2. x - 1 \in Nat
  BY <1>1
<1>3. x - 1 \in J
  BY <1>1, <1>2
<1>4. (x - 1) + 1 = x
  BY <1>1
<1> QED BY <1>1, <1>2, <1>3, <1>4

\* The ways to take the elements of a set one after the other.
Picks(S) == {pick \in [(SUBSET S) \ {{}} -> S] : \A s \in (SUBSET S) \ {{}} : pick[s] \in s}

Steps(S, V) == [(SUBSET S) \X V -> V]

\* iter is defined by recursion, starting from base.
Iterates(iter, S, pick, base, step) ==
    /\ iter[{}] = base
    /\ \A s \in (SUBSET S) \ {{}} : iter[s] = step[<<s, iter[s \ {pick[s]}]>>]

\* One element at a time, in the order pick takes them away.
LEMMA Shrinking ==
    ASSUME NEW S, IsFiniteSet(S), NEW pick \in Picks(S),
           NEW K, {} \in K, \A s \in SUBSET S : s # {} /\ s \ {pick[s]} \in K => s \in K
    PROVE  SUBSET S \subseteq K
<1> DEFINE J == {n \in Nat : \A s \in SUBSET S : Cardinality(s) = n => s \in K}
<1>1. \A s \in SUBSET S : IsFiniteSet(s) /\ Cardinality(s) \in Nat
  BY FS_Subset, FS_CardinalityType
<1>p. \A s \in SUBSET S : s # {} => pick[s] \in s
  BY DEF Picks
<1>2. 0 \in J
  <2>1. \A s \in SUBSET S : Cardinality(s) = 0 => s = {}
    BY <1>1, FS_EmptySet
  <2> QED BY <2>1
<1>3. \A n \in Nat : n \in J => n + 1 \in J
  <2> SUFFICES ASSUME NEW n \in Nat, n \in J PROVE n + 1 \in J
    OBVIOUS
  <2>1. \A s \in SUBSET S : Cardinality(s) = n => s \in K
    OBVIOUS
  <2> HIDE DEF J
  <2>2. ASSUME NEW s \in SUBSET S, Cardinality(s) = n + 1 PROVE s \in K
    <3>1. s # {}
      BY <2>2, Inhabited
    <3>2. pick[s] \in s /\ IsFiniteSet(s) /\ Cardinality(s) \in Nat
      BY <1>1, <1>p, <3>1
    <3>3. Cardinality(s \ {pick[s]}) = n
      BY <2>2, <3>2, OneLess
    <3> QED BY <2>1, <3>1, <3>3
  <2>3. n + 1 \in Nat /\ \A s \in SUBSET S : Cardinality(s) = n + 1 => s \in K
    BY <2>2
  <2> QED BY <2>3 DEF J
<1> HIDE DEF J
<1>4. Nat \subseteq J
  BY <1>2, <1>3, Counting
<1> QED BY <1>1, <1>4 DEF J

\* A recursive definition over the subsets of a finite set defines a function.
LEMMA Recursion ==
    ASSUME NEW S, IsFiniteSet(S), NEW pick \in Picks(S),
           NEW V, NEW base \in V, NEW step \in Steps(S, V)
    PROVE  \E iter \in [SUBSET S -> V] : Iterates(iter, S, pick, base, step)
<1>0. step \in [(SUBSET S) \X V -> V]
  BY DEF Steps
<1> DEFINE Small(n) == {s \in SUBSET S : Cardinality(s) <= n}
           Value(f, s) == IF s = {} THEN base ELSE step[<<s, f[s \ {pick[s]}]>>]
           J == {n \in Nat : \E f \in [Small(n) -> V] : \A s \in Small(n) : f[s] = Value(f, s)}
<1>1. \A s \in SUBSET S : IsFiniteSet(s) /\ Cardinality(s) \in Nat
  BY FS_Subset, FS_CardinalityType
<1>p. \A s \in SUBSET S : s # {} => pick[s] \in s
  BY DEF Picks
<1>2. \A n \in Nat, s \in SUBSET S :
          s # {} /\ Cardinality(s) <= n + 1 => s \ {pick[s]} \in Small(n)
  <2> SUFFICES ASSUME NEW n \in Nat, NEW s \in SUBSET S, s # {}, Cardinality(s) <= n + 1
               PROVE  s \ {pick[s]} \in Small(n)
    OBVIOUS
  <2>1. Cardinality(s \ {pick[s]}) = Cardinality(s) - 1
    BY <1>1, <1>p, FS_RemoveElement
  <2> QED BY <1>1, <2>1
<1>3. 0 \in J
  <2>1. \A s \in Small(0) : s = {}
    BY <1>1, FS_EmptySet
  <2>2. [s \in Small(0) |-> base] \in [Small(0) -> V]
    OBVIOUS
  <2>3. \A s \in Small(0) : [t \in Small(0) |-> base][s] = Value([t \in Small(0) |-> base], s)
    BY <2>1
  <2> QED BY <2>2, <2>3
<1>4. \A n \in Nat : n \in J => n + 1 \in J
  <2> SUFFICES ASSUME NEW n \in Nat, n \in J PROVE n + 1 \in J
    OBVIOUS
  <2>1. PICK f \in [Small(n) -> V] : \A s \in Small(n) : f[s] = Value(f, s)
    OBVIOUS
  <2> DEFINE g == [s \in Small(n + 1) |-> Value(f, s)]
  <2>2. \A s \in Small(n + 1) : s # {} => s \ {pick[s]} \in Small(n)
    BY <1>2
  <2>3. g \in [Small(n + 1) -> V]
    <3> SUFFICES ASSUME NEW s \in Small(n + 1) PROVE Value(f, s) \in V
      OBVIOUS
    <3>1. CASE s # {}
      <4>1. f[s \ {pick[s]}] \in V
        BY <2>2, <3>1
      <4>2. <<s, f[s \ {pick[s]}]>> \in (SUBSET S) \X V
        BY <4>1
      <4> QED BY <1>0, <3>1, <4>2
    <3> QED BY <3>1
  <2>4. \A s \in Small(n) : s \in Small(n + 1)
    BY <1>1
  <2> HIDE DEF Small, J
  <2>5. \A s \in Small(n) : g[s] = f[s]
    BY <2>1, <2>4
  <2>6. \A s \in Small(n + 1) : g[s] = Value(g, s)
    <3> SUFFICES ASSUME NEW s \in Small(n + 1) PROVE g[s] = Value(g, s)
      OBVIOUS
    <3>1. s # {} => g[s \ {pick[s]}] = f[s \ {pick[s]}]
      BY <2>2, <2>5
    <3> QED BY <3>1
  <2> HIDE DEF g
  <2>7. \E h \in [Small(n + 1) -> V] : \A s \in Small(n + 1) : h[s] = Value(h, s)
    BY <2>3, <2>6
  <2>8. n + 1 \in Nat
    OBVIOUS
  <2> QED BY <2>7, <2>8 DEF J
<1>5. Nat \subseteq J
  <2> HIDE DEF J
  <2> QED BY <1>3, <1>4, Counting
<1>6. Cardinality(S) \in Nat
  BY FS_CardinalityType
<1>7. Small(Cardinality(S)) = SUBSET S
  BY <1>6, FS_Subset
<1>8. Cardinality(S) \in J
  BY <1>5, <1>6
<1> HIDE DEF Small
<1>9. PICK f \in [Small(Cardinality(S)) -> V] :
          \A s \in Small(Cardinality(S)) : f[s] = Value(f, s)
  BY <1>8
<1>10. f \in [SUBSET S -> V] /\ \A s \in SUBSET S : f[s] = Value(f, s)
  BY <1>7, <1>9
<1>11. Iterates(f, S, pick, base, step)
  BY <1>10 DEF Iterates
<1> QED BY <1>10, <1>11

\* A sum of integers is an integer, one of natural numbers a natural number.
LEMMA SumStays ==
    ASSUME NEW f, IsFiniteSet(DOMAIN f), NEW V, 0 \in V, \A a, b \in V : a + b \in V,
           \A x \in DOMAIN f : f[x] \in V
    PROVE  SumFunction(f) \in V
<1> DEFINE D == DOMAIN f
           first(s) == CHOOSE x \in s : TRUE
           pick == [s \in (SUBSET D) \ {{}} |-> first(s)]
           step == [p \in (SUBSET D) \X V |-> IF p[1] = {} THEN 0 ELSE f[first(p[1])] + p[2]]
           Unfolded(iter) ==
               iter = [s \in SUBSET D |->
                          IF s = {} THEN 0 ELSE f[first(s)] + iter[s \ {first(s)}]]
           total == CHOOSE iter : Unfolded(iter)
<1>1. \A s \in SUBSET D : s # {} => first(s) \in s
  OBVIOUS
<1>2. pick \in Picks(D)
  BY <1>1 DEF Picks
<1>3. step \in Steps(D, V)
  <2> SUFFICES ASSUME NEW p \in (SUBSET D) \X V, p[1] # {} PROVE f[first(p[1])] + p[2] \in V
    BY DEF Steps
  <2>1. first(p[1]) \in D /\ p[2] \in V
    BY <1>1
  <2> QED BY <2>1
<1>4. PICK iter \in [SUBSET D -> V] : Iterates(iter, D, pick, 0, step)
  <2>1. IsFiniteSet(D)
    OBVIOUS
  <2> HIDE DEF pick, step, D, Unfolded
  <2> QED BY <1>2, <1>3, <2>1, Recursion
<1>5. Unfolded(iter)
  <2>1. ASSUME NEW s \in SUBSET D, s # {}
        PROVE  iter[s] = f[first(s)] + iter[s \ {first(s)}]
    <3>1. pick[s] = first(s)
      OBVIOUS
    <3> DEFINE v == iter[s \ {first(s)}]
    <3>2. v \in V /\ iter[s] = step[<<s, v>>]
      BY <1>4, <2>1, <3>1 DEF Iterates
    <3> HIDE DEF v
    <3>3. step[<<s, v>>] = f[first(s)] + v
      BY <2>1, <3>2
    <3> QED BY <3>2, <3>3 DEF v
  <2> HIDE DEF first
  <2>2. iter[{}] = 0
    BY <1>4 DEF Iterates
  <2> QED BY <1>4, <2>1, <2>2
<1>6. Unfolded(total)
  BY <1>5
<1>7. SumFunction(f) = total[D]
  BY DEF SumFunction, SumFunctionOnSet, FoldFunctionOnSet, MapThenFoldSet
<1> DEFINE K == {s \in SUBSET D : total[s] \in V}
<1> HIDE DEF total
<1>8. {} \in K
  BY <1>6
<1>9. \A s \in SUBSET D : s # {} /\ s \ {pick[s]} \in K => s \in K
  <2> SUFFICES ASSUME NEW s \in SUBSET D, s # {}, total[s \ {pick[s]}] \in V
               PROVE  total[s] \in V
    OBVIOUS
  <2>1. total[s] = f[first(s)] + total[s \ {first(s)}] /\ pick[s] = first(s)
    BY <1>6
  <2>2. f[first(s)] \in V
    BY <1>1
  <2>3. total[s \ {first(s)}] \in V
    BY <2>1
  <2> HIDE DEF first
  <2> QED BY <2>1, <2>2, <2>3
<1> HIDE DEF K, pick
<1>10. SUBSET D \subseteq K
  BY <1>2, <1>8, <1>9, Shrinking
<1> QED BY <1>7, <1>10 DEF K

-----------------------------------------------------------------------------
(* Scores are integers, within the weights of their signals.               *)

LEMMA Least ==
    ASSUME NEW T \in SUBSET Nat, T # {}
    PROVE  Min(T) \in T /\ \A y \in T : Min(T) <= y
BY LeastOf DEF Min

LEMMA LesserOf ==
    ASSUME NEW a \in Int, NEW b \in Int
    PROVE  Min({a, b}) = IF a <= b THEN a ELSE b
BY DEF Min

LEMMA GreaterOf ==
    ASSUME NEW a \in Int, NEW b \in Int
    PROVE  Max({a, b}) = IF a >= b THEN a ELSE b
BY DEF Max

LEMMA ClampBounds ==
    ASSUME NEW value \in Int, NEW weight \in Nat
    PROVE  Clamp(value, weight) \in 0 .. weight
<1>1. Min({value, weight}) = IF value <= weight THEN value ELSE weight
  BY LesserOf
<1> DEFINE least == Min({value, weight})
<1>2. least \in Int /\ least <= weight
  BY <1>1
<1> HIDE DEF least
<1>3. Max({0, least}) = IF 0 >= least THEN 0 ELSE least
  BY <1>2, GreaterOf
<1> QED BY <1>2, <1>3 DEF Clamp, least

LEMMA WeightBounds ==
    ASSUME NEW condition, NEW weight \in Nat
    PROVE  Weight(condition, weight) \in Nat
BY DEF Weight

LEMMA Frequencies ==
    ASSUME NEW d \in DOMAIN Documents, NEW term \in DOMAIN Documents[d].terms
    PROVE  Frequency(d, term) \in Nat
<1>1. Documents[d].terms[term] \in Nat
  BY DocumentAssumption
<1> QED BY <1>1, LesserOf DEF Frequency

LEMMA Lengths ==
    /\ \A d \in DOMAIN Documents : DocumentLength(d) \in Nat
    /\ DOMAIN Documents # {} => AverageLength \in Nat \ {0}
<1>1. \A a, b \in Nat : a + b \in Nat
  OBVIOUS
<1>2. \A d \in DOMAIN Documents : DocumentLength(d) \in Nat
  <2> SUFFICES ASSUME NEW d \in DOMAIN Documents PROVE DocumentLength(d) \in Nat
    OBVIOUS
  <2> DEFINE f == [term \in DOMAIN Documents[d].terms |-> Frequency(d, term)]
  <2>1. IsFiniteSet(DOMAIN f)
    BY DocumentAssumption
  <2>2. \A x \in DOMAIN f : f[x] \in Nat
    BY Frequencies
  <2> HIDE DEF f
  <2>3. SumFunction(f) \in Nat
    BY <1>1, <2>1, <2>2, SumStays
  <2> QED BY <2>3 DEF DocumentLength, f
<1>3. ASSUME DOMAIN Documents # {} PROVE AverageLength \in Nat \ {0}
  <2> DEFINE f == [d \in DOMAIN Documents |-> DocumentLength(d)]
             n == Cardinality(DOMAIN Documents)
             q == SumFunction(f) \div n
  <2>1. IsFiniteSet(DOMAIN f)
    BY DocumentAssumption
  <2>2. \A x \in DOMAIN f : f[x] \in Nat
    BY <1>2
  <2>3. n \in Nat /\ n # 0
    BY <1>3, DocumentAssumption, FS_CardinalityType, FS_EmptySet
  <2> HIDE DEF f, n
  <2>4. SumFunction(f) \in Nat
    BY <1>1, <2>1, <2>2, SumStays
  <2>5. q \in Int
    BY <2>3, <2>4
  <2> HIDE DEF q
  <2>6. Max({1, q}) \in Nat \ {0}
    BY <2>5, GreaterOf
  <2> QED BY <2>6 DEF AverageLength, q, f, n
<1> QED BY <1>2, <1>3

LEMMA InverseFrequencies ==
    ASSUME NEW d \in DOMAIN Documents, NEW term \in DOMAIN Documents[d].terms
    PROVE  InverseFrequency(term) \in Nat
<1> DEFINE all == DOMAIN Documents
           holders == {x \in DOMAIN Documents : term \in DOMAIN Documents[x].terms}
           milli == LnMilli[<<2 * Cardinality(all) + 2, 2 * Cardinality(holders) + 1>>]
<1>1. IsFiniteSet(all) /\ holders \in SUBSET all /\ d \in holders
  BY DocumentAssumption
<1> HIDE DEF all, holders
<1>2. /\ Cardinality(holders) \in Nat /\ Cardinality(all) \in Nat
      /\ Cardinality(holders) <= Cardinality(all) /\ IsFiniteSet(holders)
  BY <1>1, FS_Subset, FS_CardinalityType
<1>3. Cardinality(holders) # 0
  BY <1>1, <1>2, FS_EmptySet
<1>4. milli \in Int
  BY <1>2, <1>3, DocumentAssumption DEF all
<1> HIDE DEF milli
<1>5. Max({0, milli}) \in Nat
  BY <1>4, GreaterOf
<1> QED BY <1>5 DEF InverseFrequency, milli, all, holders

LEMMA LexicalIsANumber ==
    ASSUME NEW d \in DOMAIN Documents, NEW e
    PROVE  Lexical(d, e) \in Nat
<1> DEFINE norm == 250 + (750 * DocumentLength(d)) \div AverageLength
           below(term) == Frequency(d, term) * 1000 + (1200 * norm) \div 1000
           saturated(term) == (Frequency(d, term) * 2200 * 1000) \div below(term)
           contribution(term) == (InverseFrequency(term) * saturated(term)) \div 1000
           terms == e.query \cap DOMAIN Documents[d].terms
           f == [term \in terms |-> contribution(term)]
<1>1. norm \in Nat /\ norm >= 250
  <2>1. DocumentLength(d) \in Nat /\ AverageLength \in Nat \ {0}
    BY Lengths
  <2>2. \A a \in Nat, b \in Nat \ {0} : (750 * a) \div b \in Nat
    OBVIOUS
  <2> QED BY <2>1, <2>2
<1> HIDE DEF norm
<1>2. \A term \in terms : contribution(term) \in Int
  <2> SUFFICES ASSUME NEW term \in terms PROVE contribution(term) \in Int
    OBVIOUS
  <2>1. Frequency(d, term) \in Nat /\ InverseFrequency(term) \in Nat
    BY Frequencies, InverseFrequencies
  <2>2. (1200 * norm) \div 1000 \in Nat /\ (1200 * norm) \div 1000 >= 300
    BY <1>1
  <2>3. below(term) \in Nat \ {0}
    BY <2>1, <2>2
  <2> HIDE DEF below
  <2>4. \A a \in Nat, b \in Nat \ {0} : (a * 2200 * 1000) \div b \in Int
    OBVIOUS
  <2>5. saturated(term) \in Int
    BY <2>1, <2>3, <2>4
  <2> HIDE DEF saturated
  <2>6. \A a, b \in Int : (a * b) \div 1000 \in Int
    OBVIOUS
  <2> QED BY <2>1, <2>5, <2>6
<1>3. IsFiniteSet(terms)
  <2>1. IsFiniteSet(DOMAIN Documents[d].terms) /\ terms \in SUBSET DOMAIN Documents[d].terms
    BY DocumentAssumption
  <2> HIDE DEF terms
  <2> QED BY <2>1, FS_Subset
<1>4. IsFiniteSet(DOMAIN f) /\ \A x \in DOMAIN f : f[x] \in Int
  BY <1>2, <1>3
<1>5. \A a, b \in Int : a + b \in Int
  OBVIOUS
<1> HIDE DEF f
<1>6. SumFunction(f) \in Int
  BY <1>4, <1>5, SumStays
<1> DEFINE total == 5 * SumFunction(f)
<1>7. total \in Int
  BY <1>6
<1> HIDE DEF total
<1>8. Clamp(total, 500000) \in Nat
  BY <1>7, ClampBounds
<1>9. Lexical(d, e) = Clamp(total, 500000)
  BY DEF Lexical, total, f, contribution, saturated, below, norm, terms
<1> QED BY <1>8, <1>9

LEMMA PathMatchIsANumber ==
    ASSUME NEW d \in DOMAIN Documents, NEW e
    PROVE  PathMatch(d, e) \in Nat
<1> DEFINE components == Documents[d].components \cap Words(e)
           name == Weight(Documents[d].name \in Words(e), 60000)
           stem == Weight(Documents[d].stem \in Words(e), 40000)
           total == name + stem + 6000 * Cardinality(components)
<1>1. Cardinality(components) \in Nat
  <2>1. IsFiniteSet(Documents[d].components) /\ components \in SUBSET Documents[d].components
    BY DocumentAssumption
  <2> HIDE DEF components
  <2> QED BY <2>1, FS_Subset, FS_CardinalityType
<1>2. name \in Nat /\ stem \in Nat
  BY WeightBounds
<1> HIDE DEF components, name, stem
<1>3. total \in Int
  BY <1>1, <1>2
<1> HIDE DEF total
<1>4. Clamp(total, 100000) \in Nat
  BY <1>3, ClampBounds
<1> QED BY <1>4 DEF PathMatch, total, name, stem, components

LEMMA JavaSymbolIsANumber ==
    ASSUME NEW d \in DOMAIN Documents, NEW e
    PROVE  JavaSymbol(d, e) \in Nat
<1> DEFINE types == ToSet(Documents[d].types) \cap Words(e)
           methods == Mentioned(Documents[d].methods, e)
           w1 == Weight(types # {}, 60000)
           w2 == Weight(Documents[d].stem \in types, 20000)
           w3 == Weight(Documents[d].packages \cap Words(e) # {}, 15000)
           count == Min({2, Cardinality(methods)})
           total == w1 + w2 + 25000 * count + w3
<1>1. Cardinality(methods) \in Nat
  <2>1. /\ IsFiniteSet(DOMAIN Documents[d].methods)
        /\ methods \in SUBSET DOMAIN Documents[d].methods
    BY DocumentAssumption DEF Mentioned
  <2> HIDE DEF methods
  <2> QED BY <2>1, FS_Subset, FS_CardinalityType
<1> HIDE DEF methods
<1>2. count \in Int
  BY <1>1, LesserOf
<1>3. w1 \in Nat /\ w2 \in Nat /\ w3 \in Nat
  BY WeightBounds
<1> HIDE DEF w1, w2, w3, count
<1>4. total \in Int
  BY <1>2, <1>3
<1> HIDE DEF total
<1>5. Clamp(total, 150000) \in Nat
  BY <1>4, ClampBounds
<1> QED BY <1>5 DEF JavaSymbol, total, w1, w2, w3, count, methods, types

LEMMA StackTraceIsANumber ==
    ASSUME NEW d \in DOMAIN Documents, NEW e, DOMAIN e.frames \subseteq Nat \ {0}
    PROVE  StackTrace(d, e) \in Nat
<1> DEFINE matching == MatchingFrames(d, e)
           k == Min(matching)
           method == Weight(e.frames[k].method \in ToSet(Documents[d].methods), 20000)
           match == FrameMatch(d, e.frames[k])
           total == match + 40000 \div k + method
<1>1. CASE matching = {}
  BY <1>1 DEF StackTrace
<1>2. CASE matching # {}
  <2>1. matching \in SUBSET (Nat \ {0})
    BY DEF MatchingFrames
  <2> HIDE DEF matching
  <2>2. k \in Nat \ {0}
    BY <1>2, <2>1, Least
  <2>3. method \in Nat
    BY WeightBounds
  <2>4. match \in Nat
    BY DEF FrameMatch, Weight
  <2> HIDE DEF k, method, match
  <2>5. total \in Int
    BY <2>2, <2>3, <2>4
  <2> HIDE DEF total
  <2>6. Clamp(total, 200000) \in Nat
    BY <2>5, ClampBounds
  <2> QED BY <1>2, <2>6 DEF StackTrace, total, match, method, k, matching
<1> QED BY <1>1, <1>2

LEMMA DiffAdjacencyIsANumber ==
    ASSUME NEW d \in DOMAIN Documents, NEW e, IsFiniteSet(ToSet(e.changed))
    PROVE  DiffAdjacency(d, e) \in Nat
<1> DEFINE f == [c \in ToSet(e.changed) |-> Adjacency(d, c)]
<1>1. \A c : Adjacency(d, c) \in Nat
  BY DEF Adjacency, Weight
<1>2. IsFiniteSet(DOMAIN f) /\ \A x \in DOMAIN f : f[x] \in Nat
  BY <1>1
<1>3. \A a, b \in Nat : a + b \in Nat
  OBVIOUS
<1> HIDE DEF f
<1>4. SumFunction(f) \in Nat
  BY <1>2, <1>3, SumStays
<1> DEFINE total == SumFunction(f)
<1>5. total \in Int
  BY <1>4
<1> HIDE DEF total
<1>6. Clamp(total, 120000) \in Nat
  BY <1>5, ClampBounds
<1> QED BY <1>6 DEF DiffAdjacency, total, f

LEMMA TestProximityIsANumber ==
    ASSUME NEW d \in DOMAIN Documents, NEW e
    PROVE  TestProximity(d, e) \in Nat
<1> DEFINE classes == {e.frames[k].class : k \in DOMAIN e.frames}
           stems == {Documents[c].stem : c \in ToSet(e.changed)}
           w1 == Weight(Documents[d].bases \cap (stems \cup classes \cup e.query) # {}, 40000)
           w2 == Weight(ToSet(Documents[d].types) \cap (classes \cup e.query) # {}, 20000)
           total == w1 + Nearness(d, e.changed) + w2
<1>1. Nearness(d, e.changed) \in Nat
  BY DEF Nearness
<1>2. w1 \in Nat /\ w2 \in Nat
  BY WeightBounds
<1> HIDE DEF w1, w2
<1>3. total \in Int
  BY <1>1, <1>2
<1> HIDE DEF total
<1>4. Clamp(total, 80000) \in Nat
  BY <1>3, ClampBounds
<1> QED BY <1>4 DEF TestProximity, total, w1, w2, classes, stems

LEMMA BuildMetadataIsANumber ==
    ASSUME NEW d \in DOMAIN Documents, NEW e
    PROVE  BuildMetadata(d, e) \in Nat
<1> DEFINE w1 == Weight({Documents[d].name, Documents[d].stem} \cap e.hints # {}, 40000)
           w2 == Weight(Words(e) \cap BuildWords # {}, 20000)
<1>1. w1 \in Nat /\ w2 \in Nat
  BY WeightBounds
<1> HIDE DEF w1, w2
<1>2. w1 + w2 \in Int
  BY <1>1
<1>3. Clamp(w1 + w2, 60000) \in Nat
  BY <1>2, ClampBounds
<1> QED BY <1>3 DEF BuildMetadata, w1, w2

\* Whatever the evidence, a file has a score that is compared with the others'.
LEMMA ScoreIsANumber ==
    ASSUME NEW d \in DOMAIN Documents, NEW e,
           DOMAIN e.frames \subseteq Nat \ {0}, IsFiniteSet(ToSet(e.changed))
    PROVE  Score(d, e) \in Nat
<1>1. /\ Lexical(d, e) \in Nat /\ PathMatch(d, e) \in Nat /\ JavaSymbol(d, e) \in Nat
      /\ StackTrace(d, e) \in Nat /\ DiffAdjacency(d, e) \in Nat
      /\ TestProximity(d, e) \in Nat /\ BuildMetadata(d, e) \in Nat
  BY LexicalIsANumber, PathMatchIsANumber, JavaSymbolIsANumber, StackTraceIsANumber,
     DiffAdjacencyIsANumber, TestProximityIsANumber, BuildMetadataIsANumber
<1> QED BY <1>1 DEF Score

-----------------------------------------------------------------------------
(* The order of the candidates.                                            *)

StrictOrder(R, S) ==
    /\ \A x \in S : <<x, x>> \notin R
    /\ \A x, y \in S : x = y \/ <<x, y>> \in R \/ <<y, x>> \in R
    /\ \A x, y, z \in S : <<x, y>> \in R /\ <<y, z>> \in R => <<x, z>> \in R

Before(R, S, x) == {c \in S : <<c, x>> \in R}

LEMMA BeforeCounts ==
    ASSUME NEW S, IsFiniteSet(S), NEW R, NEW x
    PROVE  IsFiniteSet(Before(R, S, x)) /\ Cardinality(Before(R, S, x)) \in Nat
<1>1. Before(R, S, x) \in SUBSET S
  BY DEF Before
<1> QED BY <1>1, FS_Subset, FS_CardinalityType

\* Who is ahead of another has fewer before him.
LEMMA AheadHasFewer ==
    ASSUME NEW S, IsFiniteSet(S), NEW R, StrictOrder(R, S), NEW x \in S, NEW y \in S,
           <<x, y>> \in R
    PROVE  Cardinality(Before(R, S, x)) < Cardinality(Before(R, S, y))
<1>1. Before(R, S, x) \in SUBSET Before(R, S, y)
  BY DEF Before, StrictOrder
<1>2. x \in Before(R, S, y) /\ x \notin Before(R, S, x)
  BY DEF Before, StrictOrder
<1>3. /\ Cardinality(Before(R, S, x)) \in Nat /\ Cardinality(Before(R, S, y)) \in Nat
      /\ IsFiniteSet(Before(R, S, y))
  BY BeforeCounts
<1> DEFINE a == Before(R, S, x)
           b == Before(R, S, y)
<1> HIDE DEF a, b
<1>4. Cardinality(a) <= Cardinality(b) /\ (Cardinality(a) = Cardinality(b) => a = b)
  <2>1. IsFiniteSet(b) /\ a \in SUBSET b
    BY <1>1, <1>3 DEF a, b
  <2> QED BY <2>1, FS_Subset
<1> QED BY <1>2, <1>3, <1>4 DEF a, b

LEMMA FewerIsAhead ==
    ASSUME NEW S, IsFiniteSet(S), NEW R, StrictOrder(R, S), NEW x \in S, NEW y \in S,
           Cardinality(Before(R, S, x)) < Cardinality(Before(R, S, y))
    PROVE  <<x, y>> \in R
<1>1. Cardinality(Before(R, S, x)) \in Nat /\ Cardinality(Before(R, S, y)) \in Nat
  BY BeforeCounts
<1>2. x # y
  BY <1>1
<1>3. <<y, x>> \in R => Cardinality(Before(R, S, y)) < Cardinality(Before(R, S, x))
  BY AheadHasFewer
<1>4. <<x, y>> \in R \/ <<y, x>> \in R
  BY <1>2 DEF StrictOrder
<1> QED BY <1>1, <1>3, <1>4

\* Every place has somebody.
Full(R, T) == \A k \in Nat : k < Cardinality(T) => \E x \in T : Cardinality(Before(R, T, x)) = k

\* One more takes a place, and those behind it move up.
LEMMA OneMore ==
    ASSUME NEW T, IsFiniteSet(T), NEW R, NEW a, a \notin T, StrictOrder(R, T \cup {a}),
           Full(R, T)
    PROVE  Full(R, T \cup {a})
<1> SUFFICES ASSUME NEW k \in Nat, k < Cardinality(T) + 1
             PROVE  \E x \in T \cup {a} : Cardinality(Before(R, T \cup {a}, x)) = k
  <2>1. Cardinality(T \cup {a}) = Cardinality(T) + 1
    BY FS_AddElement
  <2> QED BY <2>1 DEF Full
<1> DEFINE U == T \cup {a}
           p == Cardinality(Before(R, U, a))
<1>1. IsFiniteSet(U) /\ Cardinality(T) \in Nat
  BY FS_AddElement, FS_CardinalityType
<1>2. \A x \in U : IsFiniteSet(Before(R, U, x)) /\ Cardinality(Before(R, U, x)) \in Nat
  BY <1>1, BeforeCounts
<1>3. \A x \in T : IsFiniteSet(Before(R, T, x)) /\ Cardinality(Before(R, T, x)) \in Nat
  BY BeforeCounts
<1>4. p \in Nat /\ a \in U
  BY <1>2
<1>5. ASSUME NEW x \in T, <<x, a>> \in R
      PROVE  Before(R, U, x) = Before(R, T, x) /\ Cardinality(Before(R, T, x)) < p
  <2>1. <<a, x>> \notin R
    BY <1>5 DEF StrictOrder
  <2>2. Before(R, U, x) = Before(R, T, x)
    BY <2>1 DEF Before
  <2>3. Cardinality(Before(R, U, x)) < p
    BY <1>1, <1>5, AheadHasFewer
  <2> QED BY <2>2, <2>3
<1>6. ASSUME NEW x \in T, <<x, a>> \notin R
      PROVE  /\ Cardinality(Before(R, U, x)) = Cardinality(Before(R, T, x)) + 1
             /\ p <= Cardinality(Before(R, T, x))
  <2>1. <<a, x>> \in R
    BY <1>6 DEF StrictOrder
  <2>2. Before(R, U, x) = Before(R, T, x) \cup {a} /\ a \notin Before(R, T, x)
    BY <2>1 DEF Before
  <2> DEFINE b == Before(R, T, x)
  <2>3. IsFiniteSet(b) /\ Cardinality(b) \in Nat
    BY <1>3
  <2> HIDE DEF b
  <2>4. Cardinality(b \cup {a}) = Cardinality(b) + 1
    BY <2>2, <2>3, FS_AddElement DEF b
  <2>5. p < Cardinality(Before(R, U, x))
    BY <1>1, <1>4, <2>1, AheadHasFewer
  <2> QED BY <1>4, <2>2, <2>3, <2>4, <2>5 DEF b
<1>7. CASE k = p
  BY <1>4, <1>7
<1>8. CASE k < p
  <2>1. p <= Cardinality(T)
    <3>1. Before(R, U, a) \in SUBSET T
      BY DEF Before, StrictOrder
    <3> QED BY <3>1, FS_Subset
  <2>2. PICK x \in T : Cardinality(Before(R, T, x)) = k
    BY <1>1, <1>4, <1>8, <2>1 DEF Full
  <2>3. <<x, a>> \in R
    BY <1>4, <1>6, <1>8, <2>2
  <2> QED BY <1>5, <2>2, <2>3
<1>9. CASE k > p
  <2>1. k - 1 \in Nat /\ k - 1 < Cardinality(T)
    BY <1>1, <1>4, <1>9
  <2>2. PICK x \in T : Cardinality(Before(R, T, x)) = k - 1
    BY <2>1 DEF Full
  <2>3. <<x, a>> \notin R
    <3> HIDE DEF p
    <3>1. ~(k - 1 < p)
      BY <1>4, <1>9
    <3> QED BY <1>5, <2>2, <3>1
  <2>4. Cardinality(Before(R, U, x)) = (k - 1) + 1
    BY <1>6, <2>2, <2>3
  <2> QED BY <2>4
<1> QED BY <1>4, <1>7, <1>8, <1>9

LEMMA PlacesAreTaken ==
    ASSUME NEW S, IsFiniteSet(S), NEW R, StrictOrder(R, S)
    PROVE  Full(R, S)
<1> DEFINE K == {T \in SUBSET S : Full(R, T)}
           pick == [T \in (SUBSET S) \ {{}} |-> CHOOSE x \in T : TRUE]
<1>1. pick \in Picks(S)
  BY DEF Picks
<1>2. {} \in K
  BY FS_EmptySet DEF Full
<1>3. \A T \in SUBSET S : T # {} /\ T \ {pick[T]} \in K => T \in K
  <2> SUFFICES ASSUME NEW T \in SUBSET S, T # {}, T \ {pick[T]} \in K PROVE T \in K
    OBVIOUS
  <2> DEFINE a == pick[T]
             U == T \ {a}
  <2>1. a \in T
    BY <1>1 DEF Picks
  <2> HIDE DEF pick
  <2>2. IsFiniteSet(T) /\ IsFiniteSet(U) /\ Cardinality(U) \in Nat
    BY FS_Subset, FS_CardinalityType
  <2>3. T = U \cup {a} /\ a \notin U
    BY <2>1
  <2>4. StrictOrder(R, T) /\ Full(R, U)
    BY DEF StrictOrder
  <2> HIDE DEF U, a
  <2>5. Full(R, U \cup {a})
    BY <2>2, <2>3, <2>4, OneMore
  <2> QED BY <2>3, <2>5
<1> HIDE DEF K, pick
<1>4. SUBSET S \subseteq K
  BY <1>1, <1>2, <1>3, Shrinking
<1>5. S \in K
  BY <1>4
<1> QED BY <1>5 DEF K

LEMMA AheadIsAnOrder ==
    ASSUME NEW q \in DOMAIN Evidence, NEW S \in SUBSET DOMAIN Documents,
           NEW R, \A c, d \in S : <<c, d>> \in R <=> Ahead(c, d, Evidence[q])
    PROVE  StrictOrder(R, S)
<1> DEFINE e == Evidence[q]
<1>1. \A d \in S : d \in Nat /\ Score(d, e) \in Nat
  <2>1. DOMAIN e.frames \subseteq Nat \ {0} /\ IsFiniteSet(ToSet(e.changed))
    BY EvidenceAssumption
  <2>2. S \subseteq Nat
    BY DocumentAssumption
  <2> HIDE DEF e
  <2>3. \A d \in S : Score(d, e) \in Nat
    BY <2>1, ScoreIsANumber
  <2> QED BY <2>2, <2>3
<1> HIDE DEF e
<1>2. \A c, d \in S : <<c, d>> \in R <=> Ahead(c, d, e)
  BY DEF e
<1>3. \A x \in S : ~Ahead(x, x, e)
  BY <1>1 DEF Ahead
<1>4. \A x, y \in S : x = y \/ Ahead(x, y, e) \/ Ahead(y, x, e)
  BY <1>1 DEF Ahead
<1>5. \A x, y, z \in S : Ahead(x, y, e) /\ Ahead(y, z, e) => Ahead(x, z, e)
  BY <1>1 DEF Ahead
<1> QED BY <1>2, <1>3, <1>4, <1>5 DEF StrictOrder

\* What generate_candidates (candidates.py) promises of every ranking is what the
\* request of assemble_context checks (context.py): ranks count from one, scores
\* fall, equal scores go by identity, no file comes twice.
THEOREM RankingIsAccepted ==
    ASSUME NEW q \in DOMAIN Evidence
    PROVE  /\ \E S : Ranked[q] \in Seq(S)
           /\ RankSemantics(Ranked[q])
           /\ \A i, j \in DOMAIN Ranked[q] : Ranked[q][i].file = Ranked[q][j].file => i = j
           /\ \A c \in ToSet(Ranked[q]) : /\ c.revision = Revision /\ c.identified
                                          /\ c.file \in DOMAIN Documents
<1> DEFINE e == Evidence[q]
           scored == {d \in DOMAIN Documents : Score(d, e) > 0}
           R == {p \in scored \X scored : Ahead(p[1], p[2], e)}
           At(r) == CHOOSE d \in scored : Cardinality({c \in scored : Ahead(c, d, e)}) = r - 1
           n == Min({e.limit, Cardinality(scored)})
           ranked == Ranked[q]
<1>1. IsFiniteSet(scored) /\ scored \subseteq DOMAIN Documents
  <2>1. scored \in SUBSET DOMAIN Documents
    OBVIOUS
  <2> HIDE DEF scored
  <2> QED BY <2>1, DocumentAssumption, FS_Subset
<1>2. \A c, d \in scored : <<c, d>> \in R <=> Ahead(c, d, e)
  <2> HIDE DEF scored
  <2> QED OBVIOUS
<1>3. \A d \in scored : {c \in scored : Ahead(c, d, e)} = Before(R, scored, d)
  <2> HIDE DEF scored
  <2> QED BY DEF Before
<1>4. ranked = [r \in 1 .. n |-> [file |-> At(r), rank |-> r, score |-> Score(At(r), e),
                                  symbols |-> SymbolDetail(At(r), e), revision |-> Revision,
                                  identified |-> TRUE]]
  BY DEF Ranked, Rank
<1> HIDE DEF scored, R
<1>5. Cardinality(scored) \in Nat /\ e.limit \in Nat
  BY <1>1, EvidenceAssumption, FS_CardinalityType
<1>6. n \in Nat /\ n <= Cardinality(scored)
  BY <1>5, LesserOf
<1>7. StrictOrder(R, scored)
  BY <1>1, <1>2, AheadIsAnOrder
<1> HIDE DEF n, e, ranked
<1>8. ASSUME NEW r \in 1 .. n
      PROVE  At(r) \in scored /\ Cardinality(Before(R, scored, At(r))) = r - 1
  <2>1. r - 1 \in Nat /\ r - 1 < Cardinality(scored)
    BY <1>5, <1>6
  <2>2. \E d \in scored : Cardinality(Before(R, scored, d)) = r - 1
    BY <1>1, <1>7, <2>1, PlacesAreTaken DEF Full
  <2>3. \E d \in scored : Cardinality({c \in scored : Ahead(c, d, e)}) = r - 1
    BY <1>3, <2>2
  <2>4. At(r) \in scored /\ Cardinality({c \in scored : Ahead(c, At(r), e)}) = r - 1
    BY <2>3
  <2> HIDE DEF At
  <2> QED BY <1>3, <2>4
<1>9. \A r \in 1 .. n : /\ ranked[r].file = At(r) /\ ranked[r].rank = r
                        /\ ranked[r].score = Score(At(r), e)
                        /\ ranked[r].revision = Revision /\ ranked[r].identified = TRUE
  BY <1>4
<1> HIDE DEF At
<1>10. DOMAIN ranked = 1 .. n /\ ranked \in Seq({ranked[r] : r \in 1 .. n}) /\ Len(ranked) = n
  <2>1. DOMAIN ranked = 1 .. n /\ ranked = [r \in 1 .. n |-> ranked[r]]
    BY <1>4
  <2> QED BY <1>6, <2>1, SeqDef, LenProperties
<1>11. \A i, j \in DOMAIN ranked : ranked[i].file = ranked[j].file => i = j
  <2> SUFFICES ASSUME NEW i \in 1 .. n, NEW j \in 1 .. n, At(i) = At(j) PROVE i = j
    BY <1>9, <1>10
  <2>1. i - 1 = j - 1
    BY <1>8
  <2> QED BY <1>6, <2>1
<1>12. RankSemantics(ranked)
  <2>1. ASSUME NEW i \in 2 .. Len(ranked)
        PROVE  \/ ranked[i].score < ranked[i - 1].score
               \/ /\ ranked[i].score = ranked[i - 1].score
                  /\ ranked[i].file > ranked[i - 1].file
    <3>1. i \in 1 .. n /\ i - 1 \in 1 .. n
      BY <1>6, <1>10
    <3> DEFINE x == At(i - 1)
               y == At(i)
    <3>2. /\ x \in scored /\ y \in scored
          /\ Cardinality(Before(R, scored, x)) = (i - 1) - 1
          /\ Cardinality(Before(R, scored, y)) = i - 1
      BY <1>8, <3>1
    <3> HIDE DEF x, y
    <3>3. (i - 1) - 1 < i - 1
      BY <3>1
    <3>4. <<x, y>> \in R
      BY <1>1, <1>7, <3>2, <3>3, FewerIsAhead
    <3>5. Ahead(x, y, e)
      BY <1>2, <3>2, <3>4
    <3>6. Score(x, e) \in Nat /\ Score(y, e) \in Nat /\ x \in Nat /\ y \in Nat
      <4>1. DOMAIN e.frames \subseteq Nat \ {0} /\ IsFiniteSet(ToSet(e.changed))
        BY EvidenceAssumption DEF e
      <4>2. x \in DOMAIN Documents /\ y \in DOMAIN Documents
        BY <1>1, <3>2
      <4> QED BY <4>1, <4>2, ScoreIsANumber, DocumentAssumption
    <3>7. /\ ranked[i].score = Score(y, e) /\ ranked[i].file = y
          /\ ranked[i - 1].score = Score(x, e) /\ ranked[i - 1].file = x
      BY <1>9, <3>1 DEF x, y
    <3> QED BY <3>5, <3>6, <3>7 DEF Ahead
  <2>2. \A i \in DOMAIN ranked : ranked[i].rank = i
    BY <1>9, <1>10
  <2> QED BY <2>1, <2>2 DEF RankSemantics
<1>13. \A c \in ToSet(ranked) : /\ c.revision = Revision /\ c.identified
                                /\ c.file \in DOMAIN Documents
  <2> SUFFICES ASSUME NEW i \in 1 .. n
               PROVE  /\ ranked[i].revision = Revision /\ ranked[i].identified
                      /\ ranked[i].file \in DOMAIN Documents
    BY <1>10 DEF ToSet
  <2>1. At(i) \in DOMAIN Documents
    BY <1>1, <1>8
  <2> QED BY <1>9, <2>1
<1> QED BY <1>10, <1>11, <1>12, <1>13 DEF ranked

-----------------------------------------------------------------------------
(* What an action leaves alone.                                            *)

LEMMA RuntimeKept ==
    ASSUME RuntimeInv, ReturnedInv, UNCHANGED runtimeVars, heard \subseteq heard'
    PROVE  RuntimeInv' /\ ReturnedInv'
<1>1. RuntimeInv'
  BY DEF runtimeVars, RuntimeInv, ServingInv, PendingInv, FallbackFollowsThePlan,
         LastAttempt, IsLastAttempt
<1>2. ReturnedInv'
  BY DEF runtimeVars, ReturnedInv
<1> QED BY <1>1, <1>2

LEMMA LateKept ==
    ASSUME LateInv, heard \subseteq heard'
    PROVE  LateInv'
BY DEF LateInv

LEMMA PlanKept ==
    ASSUME PlanInv, Planned' => Planned, UNCHANGED <<job, plan>>, heard \subseteq heard'
    PROVE  PlanInv'
BY DEF PlanInv, PlanHeard, Attributed

LEMMA AssemblyKept ==
    ASSUME AssemblyInv, stage' = "assembling" => stage = "assembling",
           UNCHANGED <<job, assemblyVars>>
    PROVE  AssemblyInv'
BY DEF AssemblyInv, assemblyVars, ReadAsIndexed

LEMMA IntentKept ==
    ASSUME IntentInv, GeneratingInv, stage' \in {"ready", "generating"} => stage' = stage,
           UNCHANGED <<job, intent>>, heard \subseteq heard',
           stage = "generating" => serving' = serving
    PROVE  IntentInv' /\ GeneratingInv'
<1>1. IntentInv'
  BY DEF IntentInv, ReadAsIndexed, PlanHeard, Attributed
<1>2. GeneratingInv'
  <2>1. CASE stage' = "generating"
    <3>1. IntentBound(intent)' <=> IntentBound(intent)
      BY DEF IntentBound, PlannerShape, PlannerBound, Parses, PlanOf, Attributed, TargetsPlanned
    <3>2. GeneratorRequest(intent)' = GeneratorRequest(intent)
      BY DEF GeneratorRequest
    <3> QED BY <2>1, <3>1, <3>2 DEF GeneratingInv
  <2> QED BY <2>1 DEF GeneratingInv
<1> QED BY <1>1, <1>2

LEMMA EarnedKept ==
    ASSUME ProposalIsEarned, heard \subseteq heard', UNCHANGED <<job, intent, decision>>
    PROVE  ProposalIsEarned'
BY DEF ProposalIsEarned, Parses, PlanOf

LEMMA NothingDecided ==
    ASSUME StageInv, stage # "decided", UNCHANGED <<job, decision>>,
           stage' \in {"planning", "localising", "ready", "generating"} => job.kind = "attempt"
    PROVE  StageInv'
BY DEF StageInv

LEMMA Refused ==
    ASSUME NEW phase, NEW kind, NEW reason, Decide(phase, kind, reason), kind # "PROPOSAL",
           StageInv, UNCHANGED job
    PROVE  StageInv' /\ ProposalIsEarned' /\ stage' = "decided"
BY DEF Decide, StageInv, ProposalIsEarned

-----------------------------------------------------------------------------
(* The runtime in an attempt.                                              *)

LEMMA ReturnedByCall ==
    ASSUME NEW role, NEW request, NEW declared, Call(role, request, declared)
    PROVE  ReturnedInv'
<1>1. /\ serving' = [kind |-> "call", role |-> role, request |-> request]
      /\ attempts' = <<>>
      /\ \/ invocation' \in {Raised, NotReturned}
         \/ invocation' = Invocation(role, request, <<>>,
                                     Outcome("BUDGET_EXCEEDED", NoOutput), FALSE)
  BY DEF Call
<1>2. CASE invocation' \in {Raised, NotReturned}
  BY <1>2 DEF ReturnedInv
<1>3. CASE invocation' = Invocation(role, request, <<>>,
                                    Outcome("BUDGET_EXCEEDED", NoOutput), FALSE)
  <2>1. invocation'.outcome = Outcome("BUDGET_EXCEEDED", NoOutput) /\ invocation'.exhausted = FALSE
    BY <1>3 DEF Invocation
  <2>2. Heard(role, request, invocation'.outcome) = {}
    BY <2>1 DEF Outcome, Heard
  <2>3. /\ invocation' = Invocation(serving'.role, serving'.request, attempts',
                                    invocation'.outcome, invocation'.exhausted)
        /\ Heard(serving'.role, serving'.request, invocation'.outcome) = {}
    BY <1>1, <1>3, <2>1, <2>2
  <2> QED BY <2>3 DEF ReturnedInv, Heard
<1> QED BY <1>1, <1>2, <1>3

LEMMA ReturnedByAttempt ==
    ASSUME NEW answer, Attempt(answer),
           heard' = heard \cup Heard(serving.role, serving.request,
                                     Normalised(answer, serving.request))
    PROVE  ReturnedInv'
<1> DEFINE outcome == Normalised(answer, serving.request)
<1>1. /\ serving' = serving
      /\ \/ invocation' = NotReturned
         \/ invocation' = Invocation(serving.role, serving.request, attempts', outcome,
                                     Retries(outcome))
  BY DEF Attempt
<1> HIDE DEF outcome
<1>2. CASE invocation' = NotReturned
  BY <1>2 DEF ReturnedInv
<1>3. CASE invocation' = Invocation(serving.role, serving.request, attempts', outcome,
                                    Retries(outcome))
  <2>1. invocation'.outcome = outcome /\ invocation'.exhausted = Retries(outcome)
    BY <1>3 DEF Invocation
  <2>2. Heard(serving.role, serving.request, outcome) \subseteq heard'
    BY DEF outcome
  <2>3. /\ invocation' = Invocation(serving'.role, serving'.request, attempts',
                                    invocation'.outcome, invocation'.exhausted)
        /\ Heard(serving'.role, serving'.request, invocation'.outcome) \subseteq heard'
    BY <1>1, <1>3, <2>1, <2>2
  <2> QED BY <2>3 DEF ReturnedInv
<1> QED BY <1>1, <1>2, <1>3

LEMMA ReturnedByReturn ==
    ASSUME Return
    PROVE  ReturnedInv'
BY DEF Return, ReturnedInv

\* What a client hands over as the success of a call was given by a provider,
\* unless it says of itself that it is not: its last attempt was another one.
LEMMA HandedOverHeard ==
    ASSUME RuntimeInv, ReturnedInv, LateInv, NEW v \in HandedOver,
           v.kind = "invocation", v.role # "CRITIC", Attributed(v),
           v.outcome.status = "SUCCESS"
    PROVE  \E request \in {v.request, serving.request} :
              [role |-> v.role, request |-> request, output |-> v.outcome.output] \in heard
<1>1. CASE v \in LateInvocations
  BY <1>1 DEF LateInv, Heard
<1>2. CASE v \notin LateInvocations
  <2>1. invocation \notin {NotReturned, Raised} /\ serving # Idle
    BY <1>2 DEF HandedOver, RuntimeInv, ServingInv, Raised, Nothing
  <2>2. v = invocation \/ v \in Forgeries(invocation)
    BY <1>2, <2>1 DEF HandedOver, Nothing
  <2>3. /\ invocation = Invocation(serving.role, serving.request, attempts,
                                   invocation.outcome, invocation.exhausted)
        /\ Heard(serving.role, serving.request, invocation.outcome) \subseteq heard
    BY <2>1 DEF ReturnedInv
  <2>4. v.role = serving.role /\ v.attempts \in {attempts, <<>>}
    BY <2>2, <2>3 DEF Forgeries, Invocation
  <2>5. v.attempts = attempts /\ attempts # <<>>
    BY <2>4 DEF Attributed
  <2>6. attempts[Len(attempts)].outcome = invocation.outcome
    BY <2>1, <2>5 DEF RuntimeInv, FallbackFollowsThePlan
  <2>7. v.outcome = invocation.outcome
    BY <2>5, <2>6 DEF Attributed
  <2> QED BY <2>3, <2>4, <2>7 DEF Heard
<1> QED BY <1>1, <1>2

-----------------------------------------------------------------------------
(* Planning.                                                               *)

LEMMA StepAskPlanner ==
    ASSUME PipelineInv, AskPlanner
    PROVE  PipelineInv'
<1>1. /\ stage = "new" /\ stage' = "planning" /\ job.kind = "attempt"
      /\ Call("PLANNER", job.planner, 0)
      /\ UNCHANGED <<job, plan, intent, decision, heard>>
  BY DEF AskPlanner, attemptVars
<1>2. job.planner.retries \in Nat
  BY <1>1, JobAssumption DEF PipelineInv, StageInv
<1>3. RuntimeInv'
  BY <1>1, <1>2, RuntimeCalled DEF PipelineInv
<1>4. ReturnedInv'
  BY <1>1, ReturnedByCall
<1>5. StageInv'
  BY <1>1, NothingDecided DEF PipelineInv
<1>6. LateInv' /\ ProposalIsEarned'
  BY <1>1, LateKept, EarnedKept DEF PipelineInv
<1>7. PlanInv' /\ AssemblyInv' /\ IntentInv' /\ GeneratingInv'
  BY <1>1 DEF PlanInv, Planned, AssemblyInv, IntentInv, GeneratingInv
<1> QED BY <1>3, <1>4, <1>5, <1>6, <1>7 DEF PipelineInv

LEMMA StepAnswer ==
    ASSUME PipelineInv, Answer
    PROVE  PipelineInv'
<1>1. PICK answer \in Answers :
         /\ Attempt(answer)
         /\ heard' = heard \cup Heard(serving.role, serving.request,
                                      Normalised(answer, serving.request))
         /\ UNCHANGED <<attemptVars, stage, decision, forged, workspaceVars, assemblyVars>>
  BY DEF Answer
<1>2. heard \subseteq heard' /\ UNCHANGED <<job, plan, intent, stage, decision, assemblyVars>>
  BY <1>1 DEF attemptVars
<1>3. serving' = serving
  BY <1>1 DEF Attempt
<1>4. RuntimeInv'
  BY <1>1, RuntimeAttempted DEF PipelineInv
<1>5. ReturnedInv'
  BY <1>1, ReturnedByAttempt
<1>6. LateInv' /\ ProposalIsEarned'
  BY <1>2, LateKept, EarnedKept DEF PipelineInv
<1>7. StageInv'
  BY <1>2 DEF PipelineInv, StageInv
<1>8. PlanInv'
  BY <1>2, PlanKept DEF PipelineInv, Planned
<1>9. AssemblyInv'
  BY <1>2, AssemblyKept DEF PipelineInv
<1>10. IntentInv' /\ GeneratingInv'
  BY <1>2, <1>3, IntentKept DEF PipelineInv
<1> QED BY <1>4, <1>5, <1>6, <1>7, <1>8, <1>9, <1>10 DEF PipelineInv

LEMMA StepUsePlan ==
    ASSUME PipelineInv, NEW v \in HandedOver, UsePlan(v)
    PROVE  PipelineInv'
<1>1. /\ stage = "planning" /\ Return /\ UNCHANGED <<job, intent, heard, assemblyVars>>
      /\ plan' = IF stage' = "localising"
                 THEN [plan |-> PlanOf(v.outcome.output), invocation |-> v] ELSE plan
  BY DEF UsePlan
<1>2. \/ \E reason : Decide("planning", "PLANNER_FAILURE", reason)
      \/ /\ PlannerShape(v) /\ v.outcome.status = "SUCCESS"
         /\ Parses(v.outcome.output, job.revision)
         /\ stage' = "localising" /\ UNCHANGED decision
  BY DEF UsePlan, PlannerShape, Raised
<1>3. RuntimeInv' /\ ReturnedInv' /\ LateInv'
  BY <1>1, RuntimeReturned, ReturnedByReturn, LateKept DEF PipelineInv
<1>4. stage' \in {"localising", "decided"}
  BY <1>2 DEF Decide
<1>5. AssemblyInv' /\ IntentInv' /\ GeneratingInv'
  BY <1>4 DEF AssemblyInv, IntentInv, GeneratingInv
<1>6. CASE \E reason : Decide("planning", "PLANNER_FAILURE", reason)
  <2>1. StageInv' /\ ProposalIsEarned' /\ stage' = "decided"
    BY <1>1, <1>6, Refused DEF PipelineInv
  <2>2. PlanInv'
    BY <2>1 DEF PlanInv, Planned
  <2> QED BY <1>3, <1>5, <2>1, <2>2 DEF PipelineInv
<1>7. CASE /\ PlannerShape(v) /\ v.outcome.status = "SUCCESS"
           /\ Parses(v.outcome.output, job.revision)
           /\ stage' = "localising" /\ UNCHANGED decision
  <2>1. StageInv'
    BY <1>1, <1>7 DEF PipelineInv, StageInv
  <2>2. ProposalIsEarned'
    BY <1>1, <1>7, EarnedKept DEF PipelineInv
  <2>3. PlanHeard(v)
    <3> SUFFICES ASSUME Attributed(v)
                 PROVE  \E h \in heard : h.role = "PLANNER" /\ h.output = v.outcome.output
      BY DEF PlanHeard
    <3>1. v.kind = "invocation" /\ v.role = "PLANNER"
      BY <1>7 DEF PlannerShape
    <3> QED BY <1>7, <3>1, HandedOverHeard DEF PipelineInv
  <2>4. /\ plan' = [plan |-> [revision |-> job.revision, query |-> v.outcome.output.query],
                    invocation |-> v]
        /\ v.outcome.output.query \in DOMAIN Evidence
    BY <1>1, <1>7 DEF PlanOf, Parses
  <2>5. PlanInv'
    BY <1>1, <2>3, <2>4 DEF PlanInv, PlanHeard, Attributed
  <2> QED BY <1>3, <1>5, <2>1, <2>2, <2>5 DEF PipelineInv
<1> QED BY <1>2, <1>6, <1>7

-----------------------------------------------------------------------------
(* Localisation.                                                           *)

LEMMA Localised ==
    ASSUME PipelineInv, Planned, stage # "decided", job.kind = "attempt",
           NEW raw, UseLocalisation(raw),
           raw.kind \in {"low confidence", "error", "nothing"} \/ ReadAsIndexed(raw)
    PROVE  PipelineInv'
<1>1. /\ UNCHANGED <<job, plan, heard, runtimeVars, assemblyVars>>
      /\ intent' = IF stage' = "ready"
                   THEN [plan |-> plan.plan, bundle |-> raw, invocation |-> plan.invocation]
                   ELSE intent
  BY DEF UseLocalisation
<1>2. \/ \E kind \in {"ABSTENTION", "LOCALISATION_FAILURE"} : \E reason :
            Decide("planning", kind, reason)
      \/ ReadAsIndexed(raw) /\ stage' = "ready" /\ UNCHANGED decision
  BY DEF UseLocalisation
<1>3. RuntimeInv' /\ ReturnedInv' /\ LateInv'
  BY <1>1, RuntimeKept, LateKept DEF PipelineInv
<1>4. stage' \in {"ready", "decided"}
  BY <1>2 DEF Decide
<1>5. PlanInv' /\ AssemblyInv' /\ GeneratingInv'
  BY <1>4 DEF PlanInv, Planned, AssemblyInv, GeneratingInv
<1>6. CASE \E kind \in {"ABSTENTION", "LOCALISATION_FAILURE"} : \E reason :
              Decide("planning", kind, reason)
  <2>1. StageInv' /\ ProposalIsEarned' /\ stage' = "decided"
    BY <1>1, <1>6, Refused DEF PipelineInv
  <2>2. IntentInv'
    BY <2>1 DEF IntentInv
  <2> QED BY <1>3, <1>5, <2>1, <2>2 DEF PipelineInv
<1>7. CASE ReadAsIndexed(raw) /\ stage' = "ready" /\ UNCHANGED decision
  <2>1. StageInv'
    BY <1>1, <1>7, NothingDecided DEF PipelineInv
  <2>2. decision.kind = "none"
    BY DEF PipelineInv, StageInv
  <2>3. ProposalIsEarned'
    BY <1>7, <2>2 DEF ProposalIsEarned
  <2>4. /\ intent' = [plan |-> [revision |-> job.revision, query |-> plan.plan.query],
                      bundle |-> raw, invocation |-> plan.invocation]
        /\ PlanHeard(plan.invocation)
    BY <1>1, <1>7 DEF PipelineInv, PlanInv
  <2>5. /\ intent'.plan = [revision |-> job.revision, query |-> plan.plan.query]
        /\ intent'.bundle = raw /\ intent'.invocation = plan.invocation
    BY <2>4
  <2>6. PlanHeard(intent.invocation)'
    BY <1>1, <2>4, <2>5 DEF PlanHeard, Attributed
  <2>7. ReadAsIndexed(intent.bundle)'
    BY <1>7, <2>5 DEF ReadAsIndexed
  <2>8. intent' = [plan |-> [revision |-> job'.revision, query |-> intent'.plan.query],
                   bundle |-> intent'.bundle, invocation |-> intent'.invocation]
    <3> DEFINE revision == job.revision
               query == plan.plan.query
               p == intent'.plan
    <3>0. p = [revision |-> revision, query |-> query]
      BY <2>5
    <3> HIDE DEF revision, query, p
    <3>1. p.query = query
      BY <3>0
    <3>2. job' = job
      BY <1>1
    <3> QED BY <2>4, <2>5, <3>1, <3>2, Zenon DEF p, query
  <2>9. IntentInv'
    BY <2>6, <2>7, <2>8 DEF IntentInv
  <2> QED BY <1>3, <1>5, <2>1, <2>3, <2>9 DEF PipelineInv
<1> QED BY <1>2, <1>6, <1>7

LEMMA StepRetrieve ==
    ASSUME PipelineInv, Retrieve
    PROVE  PipelineInv'
<1>1. stage = "localising" /\ Planned /\ job.kind = "attempt"
  BY DEF Retrieve, Planned, PipelineInv, StageInv
<1>2. CASE UseLocalisation(Failed)
  BY <1>1, <1>2, Localised DEF Failed
<1> DEFINE request == [candidates |-> Ranked[plan.plan.query], budget |-> job.budget,
                       workspace |-> Revision, indexed |-> Revision]
<1>3. CASE /\ StartAssembly(request) /\ stage' = "assembling"
           /\ UNCHANGED <<attemptVars, decision, heard, runtimeVars>>
  <2>1. UNCHANGED <<job, plan, intent, decision, heard, runtimeVars>>
    BY <1>3 DEF attemptVars
  <2>2. RuntimeInv' /\ ReturnedInv' /\ LateInv' /\ ProposalIsEarned'
    BY <2>1, RuntimeKept, LateKept, EarnedKept DEF PipelineInv
  <2>3. StageInv'
    BY <1>1, <1>3, <2>1, NothingDecided DEF PipelineInv
  <2>4. PlanInv'
    BY <1>1, <2>1, PlanKept DEF PipelineInv
  <2>5. AssemblyInv'
    <3>1. plan.plan.query \in DOMAIN Evidence
      BY <1>1 DEF PipelineInv, PlanInv
    <3>2. PICK S : Ranked[plan.plan.query] \in Seq(S)
      BY <3>1, RankingIsAccepted
    <3>3. /\ order'.candidates \in Seq(S) /\ reading' = NotReading
          /\ bundle' \in {NoBundle, Failed}
      BY <1>3, <3>2 DEF StartAssembly
    <3>4. /\ reading'.at = 0 /\ reading'.texts = <<>> /\ <<>> \in Seq({"indexed"})
          /\ DOMAIN reading' = {"at", "seen", "opened", "texts"}
      BY <3>3 DEF NotReading
    <3> QED BY <3>3, <3>4 DEF AssemblyInv
  <2>6. IntentInv' /\ GeneratingInv'
    BY <1>3 DEF IntentInv, GeneratingInv
  <2> QED BY <2>2, <2>3, <2>4, <2>5, <2>6 DEF PipelineInv
<1> QED BY <1>2, <1>3 DEF Retrieve

LEMMA StepUseContext ==
    ASSUME PipelineInv, UseContext
    PROVE  PipelineInv'
<1>1. stage = "assembling" /\ job.kind = "attempt" /\ Planned /\ UseLocalisation(bundle)
  BY DEF UseContext, Planned
<1>2. bundle.kind = "error" \/ ReadAsIndexed(bundle)
  BY <1>1 DEF UseContext, PipelineInv, AssemblyInv, Failed
<1> QED BY <1>1, <1>2, Localised

LEMMA StepMisplace ==
    ASSUME PipelineInv, Misplace
    PROVE  PipelineInv'
<1>1. PICK raw \in ForeignBundles \cup {Failed, Nothing, [kind |-> "low confidence"]} :
         UseLocalisation(raw)
  BY DEF Misplace
<1>2. stage = "localising" /\ Planned /\ job.kind = "attempt"
  BY DEF Misplace, Planned, PipelineInv, StageInv
<1>3. CASE raw \in ForeignBundles
  <2>1. ReadAsIndexed(raw)
    BY <1>3, BundleAssumption DEF ReadAsIndexed
  <2> QED BY <1>1, <1>2, <2>1, Localised
<1>4. CASE raw \in {Failed, Nothing, [kind |-> "low confidence"]}
  <2>1. Failed.kind = "error" /\ Nothing.kind = "nothing"
    BY DEF Failed, Nothing
  <2>2. [kind |-> "low confidence"].kind = "low confidence"
    OBVIOUS
  <2>3. raw.kind \in {"low confidence", "error", "nothing"}
    BY <1>4, <2>1, <2>2
  <2> QED BY <1>1, <1>2, <2>3, Localised
<1> QED BY <1>3, <1>4

-----------------------------------------------------------------------------
(* Generation.                                                             *)

\* However the caller put the intent together, it is about the pinned
\* revision, its bundle was read as indexed, and its plan was heard if the
\* invocation it comes with does not contradict itself.
LEMMA IntentsHold ==
    ASSUME PipelineInv, stage = "ready", NEW i \in Intents
    PROVE  /\ i = [plan |-> [revision |-> job.revision, query |-> i.plan.query],
                   bundle |-> i.bundle, invocation |-> i.invocation]
           /\ ReadAsIndexed(i.bundle)
           /\ PlanHeard(i.invocation)
<1> DEFINE q == intent.plan.query
           b == intent.bundle
           v == intent.invocation
           Shape(r, c, w) == [plan |-> [revision |-> job.revision, query |-> r],
                              bundle |-> c, invocation |-> w]
<1>1. intent = Shape(q, b, v) /\ ReadAsIndexed(b) /\ PlanHeard(v)
  BY DEF PipelineInv, IntentInv
<1>2. \A w \in LateInvocations : PlanHeard(w)
  BY DEF PipelineInv, LateInv, PlanHeard, Heard
<1>3. \A c \in ForeignBundles : ReadAsIndexed(c)
  BY BundleAssumption DEF ReadAsIndexed
<1> HIDE DEF q, b, v
<1>4. \E r, c, w : i = Shape(r, c, w) /\ ReadAsIndexed(c) /\ PlanHeard(w)
  <2>1. CASE i = intent
    BY <1>1, <2>1
  <2>2. CASE \E c \in ForeignBundles : i = [intent EXCEPT !.bundle = c]
    BY <1>1, <1>3, <2>2
  <2>3. CASE \E w \in LateInvocations : i = [intent EXCEPT !.invocation = w]
    BY <1>1, <1>2, <2>3
  <2>4. CASE \E r \in DOMAIN Evidence : i = [intent EXCEPT !.plan.query = r]
    BY <1>1, <2>4
  <2> QED BY <2>1, <2>2, <2>3, <2>4 DEF Intents
<1>5. PICK r, c, w : i = Shape(r, c, w) /\ ReadAsIndexed(c) /\ PlanHeard(w)
  BY <1>4
<1>6. i.plan = [revision |-> job.revision, query |-> r] /\ i.bundle = c /\ i.invocation = w
  BY <1>5
<1>7. i.plan.query = r
  BY <1>6
<1> QED BY <1>5, <1>6, <1>7

LEMMA StepGenerate ==
    ASSUME PipelineInv, NEW i \in Intents, Generate(i)
    PROVE  PipelineInv'
<1>1. /\ stage = "ready" /\ intent' = i
      /\ UNCHANGED <<job, plan, heard, assemblyVars>>
  BY DEF Generate
<1>2. \/ /\ IntentBound(i) /\ Call("GENERATOR", GeneratorRequest(i), 0)
         /\ stage' = "generating" /\ UNCHANGED decision
      \/ /\ UNCHANGED runtimeVars
         /\ \E kind \in {"INVALID_GENERATION_BINDING", "SECURITY_CONTEXT_REJECTION"} : \E reason :
               Decide("generation", kind, reason)
  BY DEF Generate
<1>3. /\ i = [plan |-> [revision |-> job.revision, query |-> i.plan.query],
              bundle |-> i.bundle, invocation |-> i.invocation]
      /\ ReadAsIndexed(i.bundle)
      /\ PlanHeard(i.invocation)
  BY <1>1, IntentsHold
<1>4. IntentInv'
  BY <1>1, <1>3 DEF IntentInv, ReadAsIndexed, PlanHeard, Attributed
<1>5. stage' \in {"generating", "decided"}
  BY <1>2 DEF Decide
<1>6. PlanInv' /\ AssemblyInv'
  BY <1>5 DEF PlanInv, Planned, AssemblyInv
<1>7. LateInv'
  BY <1>1, LateKept DEF PipelineInv
<1>8. CASE /\ IntentBound(i) /\ Call("GENERATOR", GeneratorRequest(i), 0)
           /\ stage' = "generating" /\ UNCHANGED decision
  <2>1. job.kind = "attempt" /\ job \in Jobs
    BY <1>1 DEF PipelineInv, StageInv
  <2>2. GeneratorRequest(i).retries \in Nat
    BY <2>1, JobAssumption DEF GeneratorRequest
  <2>3. RuntimeInv' /\ ReturnedInv'
    BY <1>8, <2>2, RuntimeCalled, ReturnedByCall DEF PipelineInv
  <2>4. StageInv'
    BY <1>1, <1>8, <2>1, NothingDecided DEF PipelineInv
  <2>5. decision.kind = "none"
    BY <1>1 DEF PipelineInv, StageInv
  <2>6. ProposalIsEarned'
    BY <1>8, <2>5 DEF ProposalIsEarned
  <2>7. IntentBound(intent)'
    BY <1>1, <1>8 DEF IntentBound, PlannerShape, PlannerBound, Parses, PlanOf, Attributed,
                      TargetsPlanned
  <2>8. GeneratorRequest(intent)' = GeneratorRequest(i)
    BY <1>1 DEF GeneratorRequest
  <2>9. GeneratingInv'
    BY <1>8, <2>7, <2>8 DEF GeneratingInv, Call
  <2> QED BY <1>4, <1>6, <1>7, <2>3, <2>4, <2>6, <2>9 DEF PipelineInv
<1>9. CASE /\ UNCHANGED runtimeVars
           /\ \E kind \in {"INVALID_GENERATION_BINDING", "SECURITY_CONTEXT_REJECTION"} : \E reason :
                 Decide("generation", kind, reason)
  <2>1. StageInv' /\ ProposalIsEarned' /\ stage' = "decided"
    BY <1>1, <1>9, Refused DEF PipelineInv
  <2>2. GeneratingInv'
    BY <2>1 DEF GeneratingInv
  <2>3. RuntimeInv' /\ ReturnedInv'
    BY <1>1, <1>9, RuntimeKept DEF PipelineInv
  <2> QED BY <1>4, <1>6, <1>7, <2>1, <2>2, <2>3 DEF PipelineInv
<1> QED BY <1>2, <1>8, <1>9

\* What generation accepts is earned.
LEMMA AcceptedIsEarned ==
    ASSUME PipelineInv, stage = "generating", NEW v \in HandedOver,
           GeneratorBound(v, GeneratorRequest(intent)), v.outcome.status = "SUCCESS"
    PROVE  /\ [role |-> "GENERATOR", request |-> v.request, output |-> v.outcome.output] \in heard
           /\ v.request.quotes = [plan |-> intent.plan, items |-> intent.bundle.items,
                                  texts |-> intent.bundle.texts]
           /\ intent.bundle.items # <<>> /\ intent.bundle.revision = job.revision
           /\ ToSet(intent.bundle.texts) = {"indexed"}
           /\ \E h \in heard : /\ h.role = "PLANNER" /\ Parses(h.output, job.revision)
                               /\ PlanOf(h.output) = intent.plan
<1>1. /\ IntentBound(intent)
      /\ serving = [kind |-> "call", role |-> "GENERATOR", request |-> GeneratorRequest(intent)]
  BY DEF PipelineInv, GeneratingInv
<1>2. /\ intent = [plan |-> [revision |-> job.revision, query |-> intent.plan.query],
                   bundle |-> intent.bundle, invocation |-> intent.invocation]
      /\ ReadAsIndexed(intent.bundle)
      /\ PlanHeard(intent.invocation)
  BY DEF PipelineInv, IntentInv
<1>3. /\ v.kind = "invocation" /\ v.role = "GENERATOR" /\ v.request = GeneratorRequest(intent)
      /\ Attributed(v)
  BY DEF GeneratorBound
<1>4. [role |-> "GENERATOR", request |-> v.request, output |-> v.outcome.output] \in heard
  <2>1. serving.request = v.request
    BY <1>1, <1>3
  <2> QED BY <1>3, <2>1, HandedOverHeard DEF PipelineInv
<1>5. v.request.quotes = [plan |-> intent.plan, items |-> intent.bundle.items,
                          texts |-> intent.bundle.texts]
  BY <1>3 DEF GeneratorRequest
<1>6. intent.plan.revision = job.revision
  <2> DEFINE q == intent.plan.query
             p == intent.plan
             r == job.revision
  <2>1. p = [revision |-> r, query |-> q]
    BY <1>2
  <2> HIDE DEF p, q, r
  <2>2. p.revision = r
    BY <2>1
  <2> QED BY <2>2 DEF p, r
<1>7. intent.bundle.items # <<>> /\ intent.bundle.revision = job.revision
  BY <1>1, <1>6 DEF IntentBound
<1>8. ToSet(intent.bundle.texts) = {"indexed"}
  BY <1>2, <1>7 DEF ReadAsIndexed
<1>9. /\ Parses(intent.invocation.outcome.output, job.revision)
      /\ PlanOf(intent.invocation.outcome.output) = intent.plan
      /\ intent.invocation.role = "PLANNER" /\ intent.invocation.outcome.status = "SUCCESS"
      /\ Attributed(intent.invocation)
  BY <1>1, <1>6 DEF IntentBound, PlannerShape, PlannerBound
<1>10. PICK h \in heard : h.role = "PLANNER" /\ h.output = intent.invocation.outcome.output
  BY <1>2, <1>9 DEF PlanHeard
<1> QED BY <1>4, <1>5, <1>7, <1>8, <1>9, <1>10

LEMMA StepUseProposal ==
    ASSUME PipelineInv, NEW v \in HandedOver, UseProposal(v)
    PROVE  PipelineInv'
<1>1. /\ stage = "generating" /\ Return
      /\ UNCHANGED <<job, plan, intent, heard, assemblyVars>>
  BY DEF UseProposal, attemptVars
<1>2. \/ \E reason : Decide("generation", "GENERATOR_FAILURE", reason)
      \/ /\ GeneratorBound(v, GeneratorRequest(intent)) /\ v.outcome.status = "SUCCESS"
         /\ stage' = "decided"
         /\ decision' = [kind |-> "PROPOSAL", phase |-> "generation", reason |-> "none",
                         invocation |-> v]
  BY DEF UseProposal, GeneratorBound, Raised
<1>3. RuntimeInv' /\ ReturnedInv' /\ LateInv'
  BY <1>1, RuntimeReturned, ReturnedByReturn, LateKept DEF PipelineInv
<1>4. stage' = "decided"
  BY <1>2 DEF Decide
<1>5. PlanInv' /\ AssemblyInv' /\ IntentInv' /\ GeneratingInv'
  BY <1>4 DEF PlanInv, Planned, AssemblyInv, IntentInv, GeneratingInv
<1>6. CASE \E reason : Decide("generation", "GENERATOR_FAILURE", reason)
  <2>1. StageInv' /\ ProposalIsEarned'
    BY <1>1, <1>6, Refused DEF PipelineInv
  <2> QED BY <1>3, <1>5, <2>1 DEF PipelineInv
<1>7. CASE /\ GeneratorBound(v, GeneratorRequest(intent)) /\ v.outcome.status = "SUCCESS"
           /\ decision' = [kind |-> "PROPOSAL", phase |-> "generation", reason |-> "none",
                           invocation |-> v]
  <2>1. StageInv'
    BY <1>1, <1>4 DEF PipelineInv, StageInv
  <2>2. decision'.invocation = v
    BY <1>7
  <2>3. ProposalIsEarned'
    BY <1>1, <1>7, <2>2, AcceptedIsEarned DEF ProposalIsEarned, Parses, PlanOf
  <2> QED BY <1>3, <1>5, <2>1, <2>3 DEF PipelineInv
<1> QED BY <1>2, <1>6, <1>7

-----------------------------------------------------------------------------
(* The runtime and the assembly.                                           *)

LEMMA StepCallDirectly ==
    ASSUME PipelineInv, CallDirectly
    PROVE  PipelineInv'
<1>1. /\ stage = "new" /\ stage' = "calling" /\ job.kind = "call"
      /\ Call(job.role, job.request, job.declared)
      /\ UNCHANGED <<job, plan, intent, decision, heard>>
  BY DEF CallDirectly, attemptVars
<1>2. job.request.retries \in Nat
  BY <1>1, JobAssumption DEF PipelineInv, StageInv
<1>3. RuntimeInv' /\ ReturnedInv'
  BY <1>1, <1>2, RuntimeCalled, ReturnedByCall DEF PipelineInv
<1>4. StageInv'
  BY <1>1, NothingDecided DEF PipelineInv
<1>5. LateInv' /\ ProposalIsEarned'
  BY <1>1, LateKept, EarnedKept DEF PipelineInv
<1>6. PlanInv' /\ AssemblyInv' /\ IntentInv' /\ GeneratingInv'
  BY <1>1 DEF PlanInv, Planned, AssemblyInv, IntentInv, GeneratingInv
<1> QED BY <1>3, <1>4, <1>5, <1>6 DEF PipelineInv

LEMMA StepAssembleDirectly ==
    ASSUME PipelineInv, AssembleDirectly
    PROVE  PipelineInv'
<1>1. /\ stage = "new" /\ stage' = "assembling" /\ job.kind = "assembly"
      /\ UNCHANGED <<job, plan, intent, decision, heard, runtimeVars>>
  BY DEF AssembleDirectly, attemptVars
<1>2. RuntimeInv' /\ ReturnedInv' /\ LateInv' /\ ProposalIsEarned'
  BY <1>1, RuntimeKept, LateKept, EarnedKept DEF PipelineInv
<1>3. StageInv'
  BY <1>1, NothingDecided DEF PipelineInv
<1>4. PlanInv' /\ AssemblyInv' /\ IntentInv' /\ GeneratingInv'
  BY <1>1 DEF PlanInv, Planned, AssemblyInv, IntentInv, GeneratingInv
<1> QED BY <1>2, <1>3, <1>4 DEF PipelineInv

LEMMA StepTakeResult ==
    ASSUME PipelineInv, TakeResult
    PROVE  PipelineInv'
<1>1. /\ Return \/ UNCHANGED runtimeVars
      /\ Decide("none", "RESULT", "none")
      /\ UNCHANGED <<job, plan, intent, heard>>
  BY DEF TakeResult, attemptVars
<1>2. StageInv' /\ ProposalIsEarned' /\ stage' = "decided"
  BY <1>1, Refused DEF PipelineInv
<1>3. RuntimeInv' /\ ReturnedInv'
  BY <1>1, RuntimeKept, RuntimeReturned, ReturnedByReturn DEF PipelineInv
<1>4. LateInv'
  BY <1>1, LateKept DEF PipelineInv
<1>5. PlanInv' /\ AssemblyInv' /\ IntentInv' /\ GeneratingInv'
  BY <1>2 DEF PlanInv, Planned, AssemblyInv, IntentInv, GeneratingInv
<1> QED BY <1>2, <1>3, <1>4, <1>5 DEF PipelineInv

LEMMA AssemblyStep ==
    ASSUME AssemblyInv, stage = "assembling", job.kind = "attempt", AssemblyNext,
           stage' = stage, job' = job
    PROVE  AssemblyInv'
<1>1. /\ \E S : order.candidates \in Seq(S)
      /\ DOMAIN reading = {"at", "seen", "opened", "texts"}
      /\ reading.at \in Nat /\ reading.texts \in Seq({"indexed"})
      /\ reading.at > 1 => reading.texts # <<>>
      /\ bundle \in {NoBundle, Failed} \/ ReadAsIndexed(bundle)
  BY DEF AssemblyInv
<1>2. CASE Inspect
  <2>1. UNCHANGED <<order, bundle>> /\ reading' = [reading EXCEPT !.seen = disk[CurrentPath]]
    BY <1>2 DEF Inspect
  <2> DEFINE path == disk[CurrentPath]
  <2> HIDE DEF path
  <2>2. /\ reading'.at = reading.at /\ reading'.texts = reading.texts
        /\ DOMAIN reading' = DOMAIN reading
    BY <1>1, <2>1
  <2> QED BY <1>1, <2>1, <2>2 DEF AssemblyInv, ReadAsIndexed
<1>3. CASE Open
  <2>1. /\ UNCHANGED <<order, bundle>>
        /\ \/ reading' = [reading EXCEPT !.at = 1, !.seen = 0]
           \/ reading' = [reading EXCEPT !.opened = TRUE]
    BY <1>3 DEF Open
  <2>2. /\ reading'.at \in {1, reading.at} /\ reading'.texts = reading.texts
        /\ DOMAIN reading' = DOMAIN reading
    BY <1>1, <2>1
  <2> QED BY <1>1, <2>1, <2>2 DEF AssemblyInv, ReadAsIndexed
<1>4. CASE Read
  <2> DEFINE version == objects[reading.seen].version
             texts == reading.texts
             at == reading.at
  <2>1. /\ UNCHANGED <<order, bundle>> /\ version = "indexed"
        /\ reading' = [at |-> at + 1, seen |-> 0, opened |-> FALSE,
                       texts |-> Append(texts, version)]
    BY <1>4 DEF Read, Verified
  <2>2. texts \in Seq({"indexed"}) /\ at \in Nat
    BY <1>1
  <2> HIDE DEF version, texts, at
  <2>3. Append(texts, version) \in Seq({"indexed"}) /\ Append(texts, version) # <<>>
    BY <2>1, <2>2, AppendProperties
  <2>4. reading'.at = at + 1 /\ reading'.texts = Append(texts, version)
    BY <2>1
  <2> QED BY <1>1, <2>1, <2>2, <2>3, <2>4 DEF AssemblyInv, ReadAsIndexed
<1>5. CASE FailReading
  BY <1>1, <1>5 DEF FailReading, AssemblyInv
<1>6. CASE FinishAssembly
  <2>1. /\ UNCHANGED <<order, reading>>
        /\ bundle' = [kind |-> "bundle", revision |-> order.indexed, budget |-> order.budget,
                      items |-> Pack(order).items, texts |-> reading.texts]
        /\ ~(reading.at <= Len(order.candidates))
    BY <1>6 DEF FinishAssembly, StillReading
  <2>2. ReadAsIndexed(bundle)'
    <3> SUFFICES ASSUME Pack(order).items # <<>>
                 PROVE  ToSet(reading.texts) = {"indexed"}
      BY <2>1 DEF ReadAsIndexed
    <3>1. order.candidates # <<>>
      BY NothingToQuote
    <3>2. Len(order.candidates) \in Nat \ {0}
      BY <1>1, <3>1, EmptySeq
    <3>3. reading.texts # <<>>
      BY <1>1, <2>1, <3>2
    <3> DEFINE texts == reading.texts
    <3>4. /\ texts \in Seq({"indexed"}) /\ Len(texts) \in Nat \ {0}
          /\ DOMAIN texts = 1 .. Len(texts)
      BY <1>1, <3>3, EmptySeq, LenProperties
    <3> HIDE DEF texts
    <3>5. \A i \in 1 .. Len(texts) : texts[i] = "indexed"
      BY <3>4, ElementOfSeq
    <3>6. 1 \in DOMAIN texts
      BY <3>4
    <3>7. ToSet(texts) = {"indexed"}
      BY <3>4, <3>5, <3>6 DEF ToSet
    <3> QED BY <3>7 DEF texts
  <2> QED BY <1>1, <2>1, <2>2 DEF AssemblyInv
<1>7. CASE Disturb
  BY <1>1, <1>7 DEF Disturb, assemblyVars, AssemblyInv, ReadAsIndexed
<1> QED BY <1>2, <1>3, <1>4, <1>5, <1>6, <1>7 DEF AssemblyNext

LEMMA StepAssemble ==
    ASSUME PipelineInv, Assemble
    PROVE  PipelineInv'
<1>1. /\ stage \in {"localising", "assembling"} /\ AssemblyNext
      /\ UNCHANGED <<job, plan, intent, stage, decision, heard, runtimeVars>>
  BY DEF Assemble, attemptVars
<1>2. RuntimeInv' /\ ReturnedInv' /\ LateInv' /\ ProposalIsEarned'
  BY <1>1, RuntimeKept, LateKept, EarnedKept DEF PipelineInv
<1>3. StageInv'
  BY <1>1 DEF PipelineInv, StageInv
<1>4. PlanInv'
  BY <1>1, PlanKept DEF PipelineInv, Planned
<1>5. IntentInv' /\ GeneratingInv'
  BY <1>1 DEF IntentInv, GeneratingInv
<1>6. AssemblyInv'
  <2>1. CASE stage = "assembling" /\ job.kind = "attempt"
    BY <1>1, <2>1, AssemblyStep DEF PipelineInv
  <2>2. CASE ~(stage = "assembling" /\ job.kind = "attempt")
    BY <1>1, <2>2 DEF AssemblyInv
  <2> QED BY <2>1, <2>2
<1> QED BY <1>2, <1>3, <1>4, <1>5, <1>6 DEF PipelineInv

-----------------------------------------------------------------------------
LEMMA PipelineStarts == Init => PipelineInv
<1> SUFFICES ASSUME Init PROVE PipelineInv
  OBVIOUS
<1>1. RuntimeInv
  BY RuntimeStarts DEF Init
<1>2. ReturnedInv
  BY DEF Init, RuntimeInit, ReturnedInv
<1>3. LateInv
  BY DEF Init, LateInv
<1>4. StageInv /\ PlanInv /\ AssemblyInv /\ IntentInv /\ GeneratingInv /\ ProposalIsEarned
  BY DEF Init, Undecided, StageInv, PlanInv, Planned, AssemblyInv, IntentInv, GeneratingInv,
         ProposalIsEarned
<1> QED BY <1>1, <1>2, <1>3, <1>4 DEF PipelineInv

LEMMA PipelineSteps == PipelineInv /\ [Next]_vars => PipelineInv'
<1> SUFFICES ASSUME PipelineInv, [Next]_vars PROVE PipelineInv'
  OBVIOUS
<1>1. CASE AskPlanner
  BY <1>1, StepAskPlanner
<1>2. CASE Answer
  BY <1>2, StepAnswer
<1>3. CASE \E v \in HandedOver : UsePlan(v)
  BY <1>3, StepUsePlan
<1>4. CASE Retrieve
  BY <1>4, StepRetrieve
<1>5. CASE UseContext
  BY <1>5, StepUseContext
<1>6. CASE Misplace
  BY <1>6, StepMisplace
<1>7. CASE \E i \in Intents : Generate(i)
  BY <1>7, StepGenerate
<1>8. CASE \E v \in HandedOver : UseProposal(v)
  BY <1>8, StepUseProposal
<1>9. CASE CallDirectly
  BY <1>9, StepCallDirectly
<1>10. CASE AssembleDirectly
  BY <1>10, StepAssembleDirectly
<1>11. CASE TakeResult
  BY <1>11, StepTakeResult
<1>12. CASE Assemble
  BY <1>12, StepAssemble
<1>13. CASE UNCHANGED vars
  <2>1. UNCHANGED <<job, stage, plan, intent, decision, heard, runtimeVars, assemblyVars>>
    BY <1>13 DEF vars
  <2>2. RuntimeInv' /\ ReturnedInv' /\ LateInv' /\ ProposalIsEarned'
    BY <2>1, RuntimeKept, LateKept, EarnedKept DEF PipelineInv
  <2>3. StageInv'
    BY <2>1 DEF PipelineInv, StageInv
  <2>4. PlanInv' /\ AssemblyInv'
    BY <2>1, PlanKept, AssemblyKept DEF PipelineInv, Planned
  <2>5. IntentInv' /\ GeneratingInv'
    BY <2>1, IntentKept DEF PipelineInv, runtimeVars
  <2> QED BY <2>2, <2>3, <2>4, <2>5 DEF PipelineInv
<1> QED BY <1>1, <1>2, <1>3, <1>4, <1>5, <1>6, <1>7, <1>8, <1>9, <1>10, <1>11, <1>12, <1>13
        DEF Next, Rest

\* In every reachable state of an attempt: what is in use at each stage of planning.py
\* and generation.py was heard, read or bound at the stages before.
THEOREM PipelineCorrect == Spec => []PipelineInv
BY PipelineStarts, PipelineSteps, PTL DEF Spec

\* In an attempt as on its own the runtime accounts for every provider call,
\* whatever its client hands over in the place of the result.
THEOREM AttemptsFollowThePlan == Spec => []FallbackFollowsThePlan
<1>1. PipelineInv => FallbackFollowsThePlan
  BY DEF PipelineInv, RuntimeInv
<1> QED BY <1>1, PipelineCorrect, PTL

\* A proposal is a provider's answer to the prompt of this attempt, about
\* text read as it was indexed, for a plan that a provider gave, whatever the
\* clients, the boundary and the caller hand over and whoever changes the
\* workspace between any two steps.
THEOREM ProposalsAreEarned == Spec => []ProposalIsEarned
<1>1. PipelineInv => ProposalIsEarned
  BY DEF PipelineInv
<1> QED BY <1>1, PipelineCorrect, PTL

-----------------------------------------------------------------------------
(* Why attempts are refused.                                               *)

\* A call of a coordinator that was not refused by the client and the runtime
\* was made for the primary target, and reached a provider.
ClientInv ==
    stage \in {"planning", "generating"} =>
        /\ serving # Idle
        /\ stage = "planning" => serving.role = "PLANNER"
        /\ invocation # Raised => serving.request.model = Plan[1]
        /\ invocation \notin {NotReturned, Raised} => attempts # <<>>

PlanOwn(p) ==
    PlannerShape(p.invocation) /\ p.invocation.outcome.status = "SUCCESS" /\ PlannerBound(p)

\* What the gates of generation look at, in an attempt whose values are its own.
OwnInv ==
    ~forged => /\ Planned => PlanOwn(plan)
               /\ stage = "ready" => IntentBound(intent)

\* Nothing but the other processes changes the workspace.
WorkspaceInv ==
    /\ changes \in Nat
    /\ changes = 0 =>
          /\ disk = [p \in Paths |-> p + 1]
          /\ objects = [i \in 1 .. Cardinality(Paths) |-> [version |-> "indexed", symlink |-> FALSE]]

\* The retrieval of an attempt is about indexed files at its revision, and
\* reads them where they were.
RetrievalInv ==
    stage = "assembling" /\ job.kind = "attempt" =>
        /\ order.indexed = Revision
        /\ \A i \in DOMAIN order.candidates : order.candidates[i].file \in DOMAIN Index
        /\ bundle = NoBundle /\ changes = 0 /\ StillReading =>
              /\ reading.seen \in {0, CurrentPath + 1}
              /\ reading.opened => reading.seen # 0
        /\ bundle = NoBundle \/ (bundle = Failed /\ changes > 0)
           \/ (bundle.kind = "bundle" /\ bundle.revision = Revision)

RefusalInv == ClientInv /\ OwnInv /\ WorkspaceInv /\ RetrievalInv /\ RefusalsHaveACause

-----------------------------------------------------------------------------
(* The workspace nobody changed.                                           *)

LEMMA PathsAreObjects ==
    /\ Paths \subseteq Nat
    /\ \A p \in Paths : p + 1 \in 1 .. Cardinality(Paths)
    /\ Root \in Paths /\ DOMAIN Index \subseteq Paths /\ Root \notin DOMAIN Index
<1> DEFINE n == Cardinality(DOMAIN Index)
<1>1. n \in Nat /\ DOMAIN Index = 1 .. n /\ IsFiniteSet(DOMAIN Index)
  BY IndexAssumption, FS_CardinalityType
<1> HIDE DEF n
<1>2. 0 \notin DOMAIN Index
  BY <1>1
<1>3. Cardinality(Paths) = n + 1
  <2>1. Paths = DOMAIN Index \cup {0}
    BY DEF Paths, Root
  <2> QED BY <1>1, <1>2, <2>1, FS_AddElement DEF n
<1>4. Paths = 0 .. n
  BY <1>1 DEF Paths, Root
<1> QED BY <1>1, <1>2, <1>3, <1>4 DEF Root, Paths

Untouched ==
    \A p \in Paths : /\ disk[p] = p + 1 /\ p + 1 # 0
                     /\ objects[p + 1] = [version |-> "indexed", symlink |-> FALSE]

LEMMA NothingChanged ==
    ASSUME WorkspaceInv, changes = 0
    PROVE  Untouched
<1>1. /\ disk = [p \in Paths |-> p + 1]
      /\ objects = [i \in 1 .. Cardinality(Paths) |-> [version |-> "indexed", symlink |-> FALSE]]
  BY DEF WorkspaceInv
<1> SUFFICES ASSUME NEW p \in Paths
             PROVE  /\ disk[p] = p + 1 /\ p + 1 # 0
                    /\ objects[p + 1] = [version |-> "indexed", symlink |-> FALSE]
  BY DEF Untouched
<1>2. p \in Nat /\ p + 1 \in 1 .. Cardinality(Paths)
  BY PathsAreObjects
<1> QED BY <1>1, <1>2

LEMMA CorpusReadable ==
    ASSUME WorkspaceInv, ~CorpusReads
    PROVE  changes > 0
<1> SUFFICES ASSUME changes = 0 PROVE CorpusReads
  BY DEF WorkspaceInv
<1>1. Untouched
  BY NothingChanged
<1>2. Root \in Paths /\ DOMAIN Index \subseteq Paths
  BY PathsAreObjects
<1>3. disk[Root] # 0 /\ ~objects[disk[Root]].symlink
  BY <1>1, <1>2 DEF Untouched
<1>4. \A file \in DOMAIN Index :
          disk[file] # 0 /\ objects[disk[file]] = [version |-> "indexed", symlink |-> FALSE]
  BY <1>1, <1>2 DEF Untouched
<1> QED BY <1>3, <1>4 DEF CorpusReads

LEMMA WorkspaceKept ==
    ASSUME WorkspaceInv, UNCHANGED workspaceVars \/ Disturb
    PROVE  WorkspaceInv' /\ changes' >= changes
<1>1. CASE UNCHANGED workspaceVars
  BY <1>1 DEF workspaceVars, WorkspaceInv
<1>2. CASE Disturb
  BY <1>2 DEF Disturb, WorkspaceInv
<1> QED BY <1>1, <1>2

-----------------------------------------------------------------------------
(* The retrieval of an attempt.                                            *)

LEMMA RetrievalStarts ==
    ASSUME PipelineInv, stage = "localising", job.kind = "attempt",
           StartAssembly([candidates |-> Ranked[plan.plan.query], budget |-> job.budget,
                          workspace |-> Revision, indexed |-> Revision])
    PROVE  RetrievalInv'
<1> DEFINE q == plan.plan.query
           request == [candidates |-> Ranked[q], budget |-> job.budget,
                       workspace |-> Revision, indexed |-> Revision]
<1>1. q \in DOMAIN Evidence
  BY DEF PipelineInv, PlanInv, Planned
<1>2. job.budget \in 1 .. MaxTokens
  BY AttemptAssumption DEF PipelineInv, StageInv
<1>3. /\ order' = request /\ reading' = NotReading
      /\ bundle' = IF RequestAccepted(request) THEN NoBundle ELSE Failed
  BY DEF StartAssembly
<1> DEFINE ranked == Ranked[q]
           budget == job.budget
<1>4. /\ \E S : ranked \in Seq(S)
      /\ RankSemantics(ranked)
      /\ \A i, j \in DOMAIN ranked : ranked[i].file = ranked[j].file => i = j
      /\ \A c \in ToSet(ranked) : /\ c.revision = Revision /\ c.identified
                                  /\ c.file \in DOMAIN Documents
  BY <1>1, RankingIsAccepted
<1>5. request = [candidates |-> ranked, budget |-> budget, workspace |-> Revision,
                 indexed |-> Revision]
  OBVIOUS
<1> HIDE DEF ranked, budget, request, q
<1>6. /\ request.candidates = ranked /\ request.budget = budget
      /\ request.workspace = Revision /\ request.indexed = Revision
  BY <1>5
<1>7. RequestAccepted(request)
  BY <1>2, <1>4, <1>6, CandidateAssumption DEF RequestAccepted, budget
<1>8. \A i \in DOMAIN ranked : ranked[i].file \in DOMAIN Index
  BY <1>4, CandidateAssumption DEF ToSet
<1>9. bundle' = NoBundle /\ order'.candidates = ranked /\ order'.indexed = Revision
  BY <1>3, <1>6, <1>7
<1>10. reading'.seen = 0 /\ reading'.opened = FALSE
  BY <1>3 DEF NotReading
<1> QED BY <1>8, <1>9, <1>10 DEF RetrievalInv

LEMMA PathInWorkspace ==
    ASSUME AssemblyInv, RetrievalInv, stage = "assembling", job.kind = "attempt", StillReading
    PROVE  CurrentPath \in Paths
<1>1. CASE reading.at = 0
  BY <1>1, PathsAreObjects DEF CurrentPath
<1>2. CASE reading.at # 0
  <2>1. PICK S : order.candidates \in Seq(S)
    BY DEF AssemblyInv
  <2>2. reading.at \in 1 .. Len(order.candidates)
    BY <1>2, <2>1, LenProperties DEF AssemblyInv, StillReading
  <2>3. order.candidates[reading.at].file \in DOMAIN Index
    BY <2>1, <2>2, LenProperties DEF RetrievalInv
  <2> QED BY <1>2, <2>3, PathsAreObjects DEF CurrentPath
<1> QED BY <1>1, <1>2

\* With nothing changed every read finds its file where it was, as it was.
LEMMA ReadingSucceeds ==
    ASSUME AssemblyInv, RetrievalInv, WorkspaceInv, stage = "assembling",
           job.kind = "attempt", bundle = NoBundle, FailReading
    PROVE  changes > 0
<1> SUFFICES ASSUME changes = 0 PROVE FALSE
  BY DEF WorkspaceInv
<1>1. /\ StillReading
      /\ \/ reading.seen = 0 /\ disk[CurrentPath] = 0
         \/ reading.seen # 0 /\ ~reading.opened /\ ~Openable
         \/ reading.opened /\ ~Verified
  BY DEF FailReading
<1>2. CurrentPath \in Paths
  BY <1>1, PathInWorkspace
<1> DEFINE path == CurrentPath
<1>3. /\ disk[path] = path + 1 /\ path + 1 # 0
      /\ objects[path + 1] = [version |-> "indexed", symlink |-> FALSE]
  BY <1>2, NothingChanged DEF Untouched
<1>4. reading.seen \in {0, path + 1} /\ (reading.opened => reading.seen # 0)
  BY <1>1 DEF RetrievalInv
<1> HIDE DEF path
<1>5. reading.seen # 0 => Openable /\ Verified
  BY <1>3, <1>4 DEF Openable, Verified, path
<1> QED BY <1>1, <1>3, <1>4, <1>5 DEF path

LEMMA RetrievalStep ==
    ASSUME AssemblyInv, RetrievalInv, WorkspaceInv, stage = "assembling", job.kind = "attempt",
           AssemblyNext, UNCHANGED <<stage, job>>
    PROVE  RetrievalInv'
<1>1. /\ order.indexed = Revision
      /\ \A i \in DOMAIN order.candidates : order.candidates[i].file \in DOMAIN Index
      /\ bundle = NoBundle /\ changes = 0 /\ StillReading =>
            /\ reading.seen \in {0, CurrentPath + 1}
            /\ reading.opened => reading.seen # 0
      /\ bundle = NoBundle \/ (bundle = Failed /\ changes > 0)
         \/ (bundle.kind = "bundle" /\ bundle.revision = Revision)
  BY DEF RetrievalInv
<1>2. DOMAIN reading = {"at", "seen", "opened", "texts"}
  BY DEF AssemblyInv
<1>3. CASE Inspect
  <2> DEFINE path == CurrentPath
             object == disk[path]
  <2>1. /\ StillReading /\ UNCHANGED <<order, bundle, workspaceVars>>
        /\ reading.seen = 0 /\ reading' = [reading EXCEPT !.seen = object]
    BY <1>3 DEF Inspect
  <2>2. changes = 0 => object = path + 1 /\ path + 1 # 0
    BY <2>1, PathInWorkspace, NothingChanged DEF Untouched
  <2> HIDE DEF path, object
  <2>3. /\ reading'.seen = object /\ reading'.at = reading.at
        /\ reading'.opened = reading.opened
    BY <1>2, <2>1
  <2>4. CurrentPath' = path
    BY <2>1, <2>3 DEF CurrentPath, path
  <2>5. changes' = changes
    BY <2>1 DEF workspaceVars
  <2> QED BY <1>1, <2>1, <2>2, <2>3, <2>4, <2>5 DEF RetrievalInv
<1>4. CASE Open
  <2>1. /\ StillReading /\ UNCHANGED <<order, bundle, workspaceVars>> /\ reading.seen # 0
        /\ \/ reading' = [reading EXCEPT !.at = 1, !.seen = 0] /\ ~reading.opened
           \/ reading' = [reading EXCEPT !.opened = TRUE]
    BY <1>4 DEF Open
  <2>2. changes' = changes
    BY <2>1 DEF workspaceVars
  <2>3. CASE reading' = [reading EXCEPT !.at = 1, !.seen = 0] /\ ~reading.opened
    <3>1. reading'.seen = 0 /\ reading'.opened = reading.opened
      BY <1>2, <2>3
    <3> QED BY <1>1, <2>1, <2>2, <2>3, <3>1 DEF RetrievalInv
  <2>4. CASE reading' = [reading EXCEPT !.opened = TRUE]
    <3>1. reading'.seen = reading.seen /\ reading'.at = reading.at
      BY <1>2, <2>4
    <3>2. CurrentPath' = CurrentPath
      BY <2>1, <3>1 DEF CurrentPath
    <3> QED BY <1>1, <2>1, <2>2, <3>1, <3>2 DEF RetrievalInv
  <2> QED BY <2>1, <2>3, <2>4
<1>5. CASE Read
  <2>1. /\ UNCHANGED <<order, bundle, workspaceVars>>
        /\ reading'.seen = 0 /\ reading'.opened = FALSE
    BY <1>5 DEF Read
  <2>2. changes' = changes
    BY <2>1 DEF workspaceVars
  <2> QED BY <1>1, <2>1, <2>2 DEF RetrievalInv
<1>6. CASE FailReading
  <2>1. /\ StillReading /\ bundle = NoBundle /\ bundle' = Failed
        /\ UNCHANGED <<order, reading, workspaceVars>>
    BY <1>6 DEF FailReading, StillReading, Assembling
  <2>2. changes > 0 /\ changes' = changes
    BY <1>6, <2>1, ReadingSucceeds DEF workspaceVars
  <2>3. Failed # NoBundle
    BY DEF Failed, NoBundle
  <2> QED BY <1>1, <2>1, <2>2, <2>3 DEF RetrievalInv
<1>7. CASE FinishAssembly
  <2>1. /\ UNCHANGED <<order, reading, workspaceVars>>
        /\ bundle'.kind = "bundle" /\ bundle'.revision = order.indexed
    BY <1>7 DEF FinishAssembly
  <2>2. bundle' # NoBundle
    BY <2>1 DEF NoBundle
  <2> QED BY <1>1, <2>1, <2>2 DEF RetrievalInv
<1>8. CASE Disturb
  <2>1. UNCHANGED <<order, reading, bundle>> /\ changes' > 0
    BY <1>8 DEF Disturb, assemblyVars, WorkspaceInv
  <2> QED BY <1>1, <2>1 DEF RetrievalInv
<1> QED BY <1>3, <1>4, <1>5, <1>6, <1>7, <1>8 DEF AssemblyNext

-----------------------------------------------------------------------------
(* The values of an attempt are its own.                                   *)

LEMMA UnmisusedModel ==
    ASSUME NEW role, NEW request, ~Misused(role, request)
    PROVE  request.model = Plan[1]
BY DEF Misused

\* What a call made for the primary target returns passes both gates.
LEMMA ReturnedIsOwn ==
    ASSUME PipelineInv, ClientInv, stage \in {"planning", "generating"},
           invocation \notin {NotReturned, Raised}
    PROVE  /\ invocation.kind = "invocation" /\ invocation.role = serving.role
           /\ invocation.request = serving.request
           /\ invocation.definition = invocation.request.prompt
           /\ invocation.targets[1] = invocation.request.model
           /\ Attributed(invocation) /\ TargetsPlanned(invocation)
<1> DEFINE v == invocation
<1>1. serving # Idle /\ serving.request.model = Plan[1] /\ attempts # <<>>
  BY DEF ClientInv
<1>2. v = Invocation(serving.role, serving.request, attempts, v.outcome, v.exhausted)
  BY <1>1 DEF PipelineInv, ReturnedInv
<1>3. /\ v.kind = "invocation" /\ v.role = serving.role /\ v.request = serving.request
      /\ v.definition = serving.request.prompt /\ v.targets = Plan /\ v.attempts = attempts
  <2> DEFINE o == v.outcome
             x == v.exhausted
  <2>1. v = Invocation(serving.role, serving.request, attempts, o, x)
    BY <1>2
  <2> HIDE DEF v, o, x
  <2> QED BY <2>1 DEF Invocation
<1>4. v.outcome = attempts[Len(attempts)].outcome
  BY <1>1 DEF PipelineInv, RuntimeInv, FallbackFollowsThePlan
<1>5. \A i \in DOMAIN attempts : attempts[i].target \in 1 .. Len(Plan)
  BY <1>1 DEF PipelineInv, RuntimeInv, FallbackFollowsThePlan, InPosition
<1>6. DOMAIN Plan = 1 .. Len(Plan)
  BY PlanIsASequence, LenProperties
<1>7. Attributed(v)
  BY <1>1, <1>3, <1>4 DEF Attributed
<1>8. TargetsPlanned(v)
  BY <1>3, <1>5, <1>6 DEF TargetsPlanned
<1> HIDE DEF v
<1> QED BY <1>1, <1>3, <1>7, <1>8 DEF v

\* While nothing is decided there is nothing to justify.
LEMMA NothingRefused ==
    ASSUME PipelineInv, stage # "decided", decision' = decision
    PROVE  RefusalsHaveACause'
<1>1. decision.kind = "none"
  BY DEF PipelineInv, StageInv
<1> QED BY <1>1 DEF RefusalsHaveACause

LEMMA RetrievalKept ==
    ASSUME RetrievalInv, UNCHANGED <<job, assemblyVars, workspaceVars>>,
           stage' = "assembling" => stage = "assembling"
    PROVE  RetrievalInv'
BY DEF RetrievalInv, assemblyVars, workspaceVars, StillReading, Assembling, CurrentPath

LEMMA OwnKept ==
    ASSUME OwnInv, UNCHANGED <<job, plan, intent, forged>>,
           Planned' => Planned, stage' = "ready" => stage = "ready"
    PROVE  OwnInv'
<1>1. PlanOwn(plan)' <=> PlanOwn(plan)
  BY DEF PlanOwn, PlannerShape, PlannerBound, Parses, PlanOf, Attributed, TargetsPlanned
<1>2. IntentBound(intent)' <=> IntentBound(intent)
  BY DEF IntentBound, PlannerShape, PlannerBound, Parses, PlanOf, Attributed, TargetsPlanned
<1> QED BY <1>1, <1>2 DEF OwnInv

\* A decision ends every obligation but that it has a cause.
LEMMA DecidedWithCause ==
    ASSUME RefusalInv, stage' = "decided", UNCHANGED workspaceVars, RefusalsHaveACause'
    PROVE  RefusalInv'
<1>1. WorkspaceInv'
  BY WorkspaceKept DEF RefusalInv
<1>2. ClientInv' /\ OwnInv' /\ RetrievalInv'
  BY DEF ClientInv, OwnInv, Planned, RetrievalInv
<1> QED BY <1>1, <1>2 DEF RefusalInv

LEMMA CallByCoordinator ==
    ASSUME NEW role, NEW request, Call(role, request, 0),
           \/ stage' = "planning" /\ role = "PLANNER"
           \/ stage' = "generating"
    PROVE  ClientInv'
<1>1. ~(0 > MaxInput)
  BY RequestAssumption
<1>2. /\ serving' = [kind |-> "call", role |-> role, request |-> request]
      /\ invocation' = Raised \/ (invocation' = NotReturned /\ ~Misused(role, request))
  BY <1>1 DEF Call
<1>3. serving' # Idle /\ serving'.role = role /\ serving'.request = request
  BY <1>2 DEF Idle
<1>4. invocation' # Raised => request.model = Plan[1]
  BY <1>2, UnmisusedModel
<1> QED BY <1>2, <1>3, <1>4 DEF ClientInv

LEMMA CauseAskPlanner ==
    ASSUME PipelineInv, RefusalInv, AskPlanner
    PROVE  RefusalInv'
<1>1. /\ stage = "new" /\ stage' = "planning" /\ Call("PLANNER", job.planner, 0)
      /\ UNCHANGED <<job, plan, intent, decision, forged, workspaceVars, assemblyVars>>
  BY DEF AskPlanner, attemptVars
<1>2. ClientInv'
  BY <1>1, CallByCoordinator
<1>3. OwnInv' /\ RetrievalInv'
  BY <1>1 DEF OwnInv, Planned, RetrievalInv
<1>4. WorkspaceInv' /\ RefusalsHaveACause'
  BY <1>1, WorkspaceKept, NothingRefused DEF RefusalInv
<1> QED BY <1>2, <1>3, <1>4 DEF RefusalInv

LEMMA CauseAnswer ==
    ASSUME PipelineInv, RefusalInv, Answer
    PROVE  RefusalInv'
<1>1. PICK answer \in Answers :
         /\ Attempt(answer)
         /\ UNCHANGED <<attemptVars, stage, decision, forged, workspaceVars, assemblyVars>>
  BY DEF Answer
<1>2. UNCHANGED <<job, plan, intent, stage, decision, forged, workspaceVars, assemblyVars>>
  BY <1>1 DEF attemptVars
<1>3. ClientInv'
  <2>1. /\ serving' = serving /\ invocation = NotReturned
        /\ \E attempt : attempts' = Append(attempts, attempt)
    BY <1>1 DEF Attempt
  <2>2. PICK S : attempts \in Seq(S)
    BY DEF PipelineInv, RuntimeInv, ServingInv
  <2>3. attempts' # <<>>
    BY <2>1, <2>2, SequenceExtension
  <2>4. NotReturned # Raised
    BY DEF NotReturned, Raised
  <2> QED BY <1>2, <2>1, <2>3, <2>4 DEF RefusalInv, ClientInv
<1>4. OwnInv' /\ RetrievalInv'
  BY <1>2, OwnKept, RetrievalKept DEF RefusalInv, Planned
<1>5. WorkspaceInv'
  BY <1>2, WorkspaceKept DEF RefusalInv
<1>6. RefusalsHaveACause'
  BY <1>2 DEF RefusalInv, RefusalsHaveACause, workspaceVars
<1> QED BY <1>3, <1>4, <1>5, <1>6 DEF RefusalInv

LEMMA CauseUsePlan ==
    ASSUME PipelineInv, RefusalInv, NEW v \in HandedOver, UsePlan(v)
    PROVE  RefusalInv'
<1>1. /\ stage = "planning" /\ UNCHANGED <<job, intent, workspaceVars, assemblyVars>>
      /\ plan' = IF stage' = "localising"
                 THEN [plan |-> PlanOf(v.outcome.output), invocation |-> v] ELSE plan
      /\ forged' = (forged \/ v # invocation)
      /\ invocation # NotReturned
  BY DEF UsePlan, Return
<1>2. \/ \E reason \in {"INVOCATION_ERROR", "MODEL_RESULT_NOT_SUCCESSFUL", "PLAN_PARSE_REJECTED"} :
            Decide("planning", "PLANNER_FAILURE", reason)
      \/ /\ v # Raised /\ ~PlannerShape(v)
         /\ Decide("planning", "PLANNER_FAILURE", "INVOCATION_SHAPE_INVALID")
      \/ /\ PlannerShape(v) /\ v.outcome.status = "SUCCESS"
         /\ Parses(v.outcome.output, job.revision)
         /\ stage' = "localising" /\ UNCHANGED decision
  BY DEF UsePlan, PlannerShape, Raised
<1>3. ~forged' /\ v # Raised =>
         /\ v = invocation /\ v.kind = "invocation" /\ v.role = "PLANNER"
         /\ v.definition = v.request.prompt /\ v.targets[1] = v.request.model
         /\ Attributed(v) /\ TargetsPlanned(v)
  BY <1>1, ReturnedIsOwn DEF RefusalInv, ClientInv
<1>4. CASE \E reason \in {"INVOCATION_ERROR", "MODEL_RESULT_NOT_SUCCESSFUL",
                          "PLAN_PARSE_REJECTED"} :
              Decide("planning", "PLANNER_FAILURE", reason)
  BY <1>1, <1>4, DecidedWithCause DEF Decide, RefusalsHaveACause
<1>5. CASE /\ v # Raised /\ ~PlannerShape(v)
           /\ Decide("planning", "PLANNER_FAILURE", "INVOCATION_SHAPE_INVALID")
  <2>1. forged'
    BY <1>3, <1>5 DEF PlannerShape
  <2> QED BY <1>1, <1>5, <2>1, DecidedWithCause DEF Decide, RefusalsHaveACause
<1>6. CASE /\ PlannerShape(v) /\ v.outcome.status = "SUCCESS"
           /\ Parses(v.outcome.output, job.revision)
           /\ stage' = "localising" /\ UNCHANGED decision
  <2>1. v # Raised
    BY <1>6 DEF PlannerShape, Raised
  <2>2. plan' = [plan |-> PlanOf(v.outcome.output), invocation |-> v]
    BY <1>1, <1>6
  <2>3. PlanOf(v.outcome.output).revision = job.revision
    BY <1>6 DEF PlanOf, Parses
  <2>4. ASSUME ~forged' PROVE PlanOwn(plan)'
    BY <1>3, <1>6, <2>1, <2>2, <2>3, <2>4
       DEF PlanOwn, PlannerShape, PlannerBound, Parses, PlanOf, Attributed, TargetsPlanned
  <2>5. OwnInv'
    BY <1>6, <2>4 DEF OwnInv
  <2>6. ClientInv' /\ RetrievalInv'
    BY <1>6 DEF ClientInv, RetrievalInv
  <2>7. WorkspaceInv' /\ RefusalsHaveACause'
    BY <1>1, <1>6, WorkspaceKept, NothingRefused DEF RefusalInv
  <2> QED BY <2>5, <2>6, <2>7 DEF RefusalInv
<1> QED BY <1>2, <1>4, <1>5, <1>6

-----------------------------------------------------------------------------
(* Localisation and generation refuse what is not the attempt's own.       *)

\* raw is the attempt's own, or the attempt is taken for forged.
OwnResult(raw) ==
    \/ raw.kind = "low confidence"
    \/ raw.kind = "error" /\ changes > 0
    \/ raw.kind = "bundle" /\ raw.revision = job.revision

LEMMA CauseLocalised ==
    ASSUME PipelineInv, RefusalInv, Planned, stage # "decided", NEW raw, UseLocalisation(raw),
           ~forged' => ~forged /\ OwnResult(raw)
    PROVE  RefusalInv'
<1>1. /\ UNCHANGED <<job, plan, runtimeVars, workspaceVars, assemblyVars>>
      /\ intent' = IF stage' = "ready"
                   THEN [plan |-> plan.plan, bundle |-> raw, invocation |-> plan.invocation]
                   ELSE intent
  BY DEF UseLocalisation
<1>2. changes' = changes
  BY <1>1 DEF workspaceVars
<1>3. plan.plan.revision = job.revision
  <2> DEFINE p == plan.plan
             r == job.revision
             q == plan.plan.query
  <2>1. p = [revision |-> r, query |-> q]
    BY DEF PipelineInv, PlanInv
  <2> HIDE DEF p, q, r
  <2>2. p.revision = r
    BY <2>1
  <2> QED BY <2>2 DEF p, r
<1>4. \/ Decide("planning", "ABSTENTION", "INSUFFICIENT_LOCALISATION_CONFIDENCE")
      \/ raw.kind = "error" /\ Decide("planning", "LOCALISATION_FAILURE", "BOUNDARY_ERROR")
      \/ raw.kind = "nothing" /\ Decide("planning", "LOCALISATION_FAILURE", "MALFORMED_RESULT")
      \/ /\ raw.kind = "bundle" /\ raw.revision # plan.plan.revision
         /\ Decide("planning", "LOCALISATION_FAILURE", "REVISION_MISMATCH")
      \/ Decide("planning", "ABSTENTION", "INSUFFICIENT_CONTEXT")
      \/ /\ raw.kind # "low confidence" /\ raw.kind # "error"
         /\ raw.kind = "bundle" => raw.revision = plan.plan.revision /\ raw.items # <<>>
         /\ stage' = "ready" /\ UNCHANGED decision
  BY DEF UseLocalisation
<1>5. CASE stage' # "ready"
  <2>1. ASSUME ~forged'
        PROVE  raw.kind # "nothing" /\ (raw.kind = "error" => changes > 0)
               /\ (raw.kind = "bundle" => raw.revision = plan.plan.revision)
    <3>1. OwnResult(raw)
      BY <2>1
    <3> QED BY <1>3, <3>1 DEF OwnResult
  <2>2. \/ Decide("planning", "ABSTENTION", "INSUFFICIENT_LOCALISATION_CONFIDENCE")
        \/ Decide("planning", "ABSTENTION", "INSUFFICIENT_CONTEXT")
        \/ /\ Decide("planning", "LOCALISATION_FAILURE", "BOUNDARY_ERROR")
           /\ ~forged' => changes > 0
        \/ \E reason : Decide("planning", "LOCALISATION_FAILURE", reason) /\ forged'
    BY <1>4, <1>5, <2>1
  <2>3. RefusalsHaveACause' /\ stage' = "decided"
    BY <1>2, <2>2 DEF Decide, RefusalsHaveACause
  <2> QED BY <1>1, <2>3, DecidedWithCause
<1>6. CASE stage' = "ready"
  <2>1. /\ raw.kind # "low confidence" /\ raw.kind # "error"
        /\ raw.kind = "bundle" => raw.revision = plan.plan.revision /\ raw.items # <<>>
        /\ UNCHANGED decision
    BY <1>4, <1>6 DEF Decide
  <2>2. ASSUME ~forged' PROVE IntentBound(intent)'
    <3>1. raw.kind = "bundle"
      BY <2>1, <2>2 DEF OwnResult
    <3>2. PlanOwn(plan)
      BY <2>2 DEF RefusalInv, OwnInv
    <3> DEFINE p == plan.plan
               v == plan.invocation
    <3>3. intent' = [plan |-> p, bundle |-> raw, invocation |-> v]
      BY <1>1, <1>6
    <3>4. /\ PlannerShape(v) /\ v.outcome.status = "SUCCESS" /\ PlannerBound(plan)
          /\ raw.revision = p.revision /\ raw.items # <<>>
      BY <2>1, <3>1, <3>2 DEF PlanOwn
    <3>5. /\ Parses(v.outcome.output, p.revision) /\ PlanOf(v.outcome.output) = p
          /\ v.definition = v.request.prompt /\ v.request.model = v.targets[1]
          /\ Attributed(v) /\ TargetsPlanned(v)
      BY <3>4 DEF PlannerBound
    <3> HIDE DEF p, v
    <3>6. intent'.plan = p /\ intent'.bundle = raw /\ intent'.invocation = v
      BY <3>3
    <3>7. PlannerBound(intent)'
      BY <3>5, <3>6 DEF PlannerBound, Parses, PlanOf, Attributed, TargetsPlanned
    <3> QED BY <3>4, <3>6, <3>7 DEF IntentBound, PlannerShape
  <2>3. OwnInv'
    BY <1>6, <2>2 DEF OwnInv, Planned
  <2>4. ClientInv' /\ RetrievalInv'
    BY <1>6 DEF ClientInv, RetrievalInv
  <2>5. WorkspaceInv' /\ RefusalsHaveACause'
    BY <1>1, <2>1, WorkspaceKept, NothingRefused DEF RefusalInv
  <2> QED BY <2>3, <2>4, <2>5 DEF RefusalInv
<1> QED BY <1>5, <1>6

LEMMA CauseRetrieve ==
    ASSUME PipelineInv, RefusalInv, Retrieve
    PROVE  RefusalInv'
<1>1. stage = "localising" /\ job.kind = "attempt" /\ forged' = forged
  BY DEF Retrieve, PipelineInv, StageInv
<1>2. CASE CorpusReads /\ StartAssembly([candidates |-> Ranked[plan.plan.query],
                                         budget |-> job.budget, workspace |-> Revision,
                                         indexed |-> Revision])
           /\ stage' = "assembling" /\ UNCHANGED <<attemptVars, decision, heard, runtimeVars>>
  <2>1. UNCHANGED <<job, plan, intent, decision, workspaceVars>>
    BY <1>2 DEF attemptVars, StartAssembly
  <2>2. RetrievalInv'
    BY <1>1, <1>2, RetrievalStarts
  <2>3. OwnInv' /\ WorkspaceInv' /\ RefusalsHaveACause'
    BY <1>1, <1>2, <2>1, OwnKept, WorkspaceKept, NothingRefused DEF RefusalInv, Planned
  <2>4. ClientInv'
    BY <1>2 DEF ClientInv
  <2> QED BY <2>2, <2>3, <2>4 DEF RefusalInv
<1>3. CASE ~CorpusReads /\ UseLocalisation(Failed)
  <2>1. changes > 0
    BY <1>3, CorpusReadable DEF RefusalInv
  <2>2. OwnResult(Failed)
    BY <2>1 DEF OwnResult, Failed
  <2> QED BY <1>1, <1>3, <2>2, CauseLocalised DEF Planned
<1> QED BY <1>2, <1>3 DEF Retrieve

LEMMA CauseUseContext ==
    ASSUME PipelineInv, RefusalInv, UseContext
    PROVE  RefusalInv'
<1>1. /\ stage = "assembling" /\ job.kind = "attempt" /\ bundle # NoBundle
      /\ UseLocalisation(bundle) /\ forged' = forged
  BY DEF UseContext
<1>2. job.revision = Revision
  BY <1>1, AttemptAssumption DEF PipelineInv, StageInv
<1>3. (bundle = Failed /\ changes > 0) \/ (bundle.kind = "bundle" /\ bundle.revision = Revision)
  BY <1>1 DEF RefusalInv, RetrievalInv
<1>4. Failed.kind = "error"
  BY DEF Failed
<1>5. OwnResult(bundle)
  <2>1. bundle = Failed => bundle.kind = "error"
    BY <1>4
  <2>2. \/ bundle.kind = "error" /\ changes > 0
        \/ bundle.kind = "bundle" /\ bundle.revision = job.revision
    BY <1>2, <1>3, <2>1
  <2> QED BY <2>2 DEF OwnResult
<1> QED BY <1>1, <1>5, CauseLocalised DEF Planned

LEMMA CauseMisplace ==
    ASSUME PipelineInv, RefusalInv, Misplace
    PROVE  RefusalInv'
<1>1. PICK raw : /\ stage = "localising" /\ UseLocalisation(raw)
                 /\ forged' = (forged \/ raw.kind # "low confidence")
  BY DEF Misplace
<1>2. ~forged' => ~forged /\ raw.kind = "low confidence"
  BY <1>1
<1>3. ~forged' => ~forged /\ OwnResult(raw)
  BY <1>2 DEF OwnResult
<1> QED BY <1>1, <1>3, CauseLocalised DEF Planned

LEMMA CauseGenerate ==
    ASSUME PipelineInv, RefusalInv, NEW i \in Intents, Generate(i)
    PROVE  RefusalInv'
<1>1. /\ stage = "ready" /\ intent' = i /\ forged' = (forged \/ i # intent)
      /\ UNCHANGED <<job, plan, workspaceVars, assemblyVars>>
  BY DEF Generate
<1>2. \/ /\ Call("GENERATOR", GeneratorRequest(i), 0)
         /\ stage' = "generating" /\ UNCHANGED decision
      \/ /\ ~IntentBound(i)
         /\ Decide("generation", "INVALID_GENERATION_BINDING", "NOT_BOUND")
      \/ Decide("generation", "SECURITY_CONTEXT_REJECTION", "SECURITY")
      \/ Decide("generation", "INVALID_GENERATION_BINDING", "BOUND_EXCEEDED")
  BY DEF Generate
<1>3. CASE /\ Call("GENERATOR", GeneratorRequest(i), 0)
           /\ stage' = "generating" /\ UNCHANGED decision
  <2>1. ClientInv'
    BY <1>3, CallByCoordinator
  <2>2. OwnInv' /\ RetrievalInv'
    BY <1>3 DEF OwnInv, Planned, RetrievalInv
  <2>3. WorkspaceInv' /\ RefusalsHaveACause'
    BY <1>1, <1>3, WorkspaceKept, NothingRefused DEF RefusalInv
  <2> QED BY <2>1, <2>2, <2>3 DEF RefusalInv
<1>4. CASE ~IntentBound(i) /\ Decide("generation", "INVALID_GENERATION_BINDING", "NOT_BOUND")
  <2>1. forged'
    BY <1>1, <1>4 DEF RefusalInv, OwnInv
  <2> QED BY <1>1, <1>4, <2>1, DecidedWithCause DEF Decide, RefusalsHaveACause
<1>5. CASE \/ Decide("generation", "SECURITY_CONTEXT_REJECTION", "SECURITY")
           \/ Decide("generation", "INVALID_GENERATION_BINDING", "BOUND_EXCEEDED")
  BY <1>1, <1>5, DecidedWithCause DEF Decide, RefusalsHaveACause
<1> QED BY <1>2, <1>3, <1>4, <1>5

LEMMA CauseUseProposal ==
    ASSUME PipelineInv, RefusalInv, NEW v \in HandedOver, UseProposal(v)
    PROVE  RefusalInv'
<1>1. /\ stage = "generating" /\ UNCHANGED workspaceVars /\ invocation # NotReturned
      /\ forged' = (forged \/ v # invocation)
  BY DEF UseProposal, Return
<1>2. \/ /\ v # Raised /\ ~GeneratorBound(v, GeneratorRequest(intent))
         /\ Decide("generation", "GENERATOR_FAILURE", "INVOCATION_SHAPE_INVALID")
      \/ \E reason \in {"INVOCATION_ERROR", "MODEL_RESULT_NOT_SUCCESSFUL",
                        "PROPOSAL_PARSE_REJECTED"} :
            Decide("generation", "GENERATOR_FAILURE", reason)
      \/ /\ stage' = "decided" /\ decision'.kind = "PROPOSAL" /\ decision'.reason = "none"
  BY DEF UseProposal
<1>3. CASE /\ v # Raised /\ ~GeneratorBound(v, GeneratorRequest(intent))
           /\ Decide("generation", "GENERATOR_FAILURE", "INVOCATION_SHAPE_INVALID")
  <2>1. ASSUME v = invocation PROVE FALSE
    <3>1. invocation \notin {NotReturned, Raised}
      BY <1>1, <1>3, <2>1
    <3>2. serving = [kind |-> "call", role |-> "GENERATOR", request |-> GeneratorRequest(intent)]
      BY <1>1 DEF PipelineInv, GeneratingInv
    <3> DEFINE request == GeneratorRequest(intent)
    <3> HIDE DEF request
    <3>3. serving.role = "GENERATOR" /\ serving.request = request
      BY <3>2 DEF request
    <3>4. /\ v.kind = "invocation" /\ v.role = "GENERATOR" /\ v.request = request
          /\ v.definition = request.prompt /\ v.targets[1] = request.model
          /\ Attributed(v) /\ TargetsPlanned(v)
      BY <1>1, <2>1, <3>1, <3>3, ReturnedIsOwn DEF RefusalInv
    <3> QED BY <1>3, <3>4 DEF GeneratorBound, request
  <2>2. forged'
    BY <1>1, <2>1
  <2> QED BY <1>1, <1>3, <2>2, DecidedWithCause DEF Decide, RefusalsHaveACause
<1>4. CASE \E reason \in {"INVOCATION_ERROR", "MODEL_RESULT_NOT_SUCCESSFUL",
                          "PROPOSAL_PARSE_REJECTED"} :
              Decide("generation", "GENERATOR_FAILURE", reason)
  BY <1>1, <1>4, DecidedWithCause DEF Decide, RefusalsHaveACause
<1>5. CASE stage' = "decided" /\ decision'.kind = "PROPOSAL" /\ decision'.reason = "none"
  BY <1>1, <1>5, DecidedWithCause DEF RefusalsHaveACause
<1> QED BY <1>2, <1>3, <1>4, <1>5

\* The runtime and the assembly, on their own and in an attempt.
LEMMA CauseDirect ==
    ASSUME PipelineInv, RefusalInv, CallDirectly \/ AssembleDirectly
    PROVE  RefusalInv'
<1>1. /\ stage = "new" /\ stage' \in {"calling", "assembling"}
      /\ stage' = "assembling" => job.kind = "assembly"
      /\ UNCHANGED <<job, plan, intent, decision, forged, workspaceVars>>
  BY DEF CallDirectly, AssembleDirectly, attemptVars, StartAssembly
<1>2. ClientInv' /\ RetrievalInv' /\ OwnInv'
  BY <1>1 DEF ClientInv, RetrievalInv, OwnInv, Planned
<1>3. WorkspaceInv' /\ RefusalsHaveACause'
  BY <1>1, WorkspaceKept, NothingRefused DEF RefusalInv
<1> QED BY <1>2, <1>3 DEF RefusalInv

LEMMA CauseTakeResult ==
    ASSUME PipelineInv, RefusalInv, TakeResult
    PROVE  RefusalInv'
<1>1. Decide("none", "RESULT", "none") /\ UNCHANGED workspaceVars
  BY DEF TakeResult
<1> QED BY <1>1, DecidedWithCause DEF Decide, RefusalsHaveACause

LEMMA CauseAssemble ==
    ASSUME PipelineInv, RefusalInv, Assemble
    PROVE  RefusalInv'
<1>1. /\ stage \in {"localising", "assembling"} /\ AssemblyNext
      /\ UNCHANGED <<job, plan, intent, stage, decision, forged>>
  BY DEF Assemble, attemptVars
<1>2. UNCHANGED workspaceVars \/ Disturb
  BY <1>1 DEF AssemblyNext, Inspect, Open, Read, FailReading, FinishAssembly
<1>3. ClientInv'
  BY <1>1 DEF ClientInv
<1>4. WorkspaceInv' /\ RefusalsHaveACause'
  BY <1>1, <1>2, WorkspaceKept, NothingRefused DEF RefusalInv
<1>5. OwnInv'
  BY <1>1, OwnKept DEF RefusalInv, Planned
<1>6. RetrievalInv'
  <2>1. CASE stage = "assembling" /\ job.kind = "attempt"
    BY <1>1, <2>1, RetrievalStep DEF PipelineInv, RefusalInv
  <2>2. CASE ~(stage = "assembling" /\ job.kind = "attempt")
    BY <1>1, <2>2 DEF RetrievalInv
  <2> QED BY <2>1, <2>2
<1> QED BY <1>3, <1>4, <1>5, <1>6 DEF RefusalInv

LEMMA RefusalStarts == Init => RefusalInv
<1> SUFFICES ASSUME Init PROVE RefusalInv
  OBVIOUS
<1>1. ClientInv /\ OwnInv /\ RetrievalInv /\ RefusalsHaveACause
  BY DEF Init, Undecided, ClientInv, OwnInv, Planned, RetrievalInv, RefusalsHaveACause
<1>2. WorkspaceInv
  BY DEF Init, WorkspaceInit, WorkspaceInv
<1> QED BY <1>1, <1>2 DEF RefusalInv

LEMMA RefusalSteps == PipelineInv /\ RefusalInv /\ [Next]_vars => RefusalInv'
<1> SUFFICES ASSUME PipelineInv, RefusalInv, [Next]_vars PROVE RefusalInv'
  OBVIOUS
<1>1. CASE AskPlanner \/ Answer
  BY <1>1, CauseAskPlanner, CauseAnswer
<1>2. CASE \E v \in HandedOver : UsePlan(v)
  BY <1>2, CauseUsePlan
<1>3. CASE Retrieve \/ UseContext \/ Misplace
  BY <1>3, CauseRetrieve, CauseUseContext, CauseMisplace
<1>4. CASE \E i \in Intents : Generate(i)
  BY <1>4, CauseGenerate
<1>5. CASE \E v \in HandedOver : UseProposal(v)
  BY <1>5, CauseUseProposal
<1>6. CASE CallDirectly \/ AssembleDirectly
  BY <1>6, CauseDirect
<1>7. CASE TakeResult \/ Assemble
  BY <1>7, CauseTakeResult, CauseAssemble
<1>8. CASE UNCHANGED vars
  <2>1. /\ UNCHANGED <<job, stage, plan, intent, decision, forged, assemblyVars, workspaceVars>>
        /\ UNCHANGED <<serving, attempts, invocation>>
    BY <1>8 DEF vars, runtimeVars
  <2>2. ClientInv' /\ RefusalsHaveACause'
    BY <2>1 DEF RefusalInv, ClientInv, RefusalsHaveACause, workspaceVars
  <2>3. OwnInv' /\ RetrievalInv' /\ WorkspaceInv'
    BY <2>1, OwnKept, RetrievalKept, WorkspaceKept DEF RefusalInv, Planned
  <2> QED BY <2>2, <2>3 DEF RefusalInv
<1> QED BY <1>1, <1>2, <1>3, <1>4, <1>5, <1>6, <1>7, <1>8 DEF Next, Rest

\* The gates of planning.py, localisation_adapter.py and generation.py never
\* refuse what an attempt put together itself, and its context is refused only
\* when the workspace changed under the retrieval: for every plan, index,
\* evidence, number of retries and behaviour of the providers.
THEOREM RefusalsAreJustified == Spec => []RefusalsHaveACause
<1>1. RefusalInv => RefusalsHaveACause
  BY DEF RefusalInv
<1>2. Spec => []RefusalInv
  BY PipelineCorrect, RefusalStarts, RefusalSteps, PTL DEF Spec
<1> QED BY <1>1, <1>2, PTL

-----------------------------------------------------------------------------
(* Folds.  G is the set of what may have become of which elements.         *)

Stays(G, S, V, pick, base, step) ==
    /\ G \in SUBSET ((SUBSET S) \X V) /\ <<{}, base>> \in G
    /\ \A s \in SUBSET S, v \in V :
          s # {} /\ <<s \ {pick[s]}, v>> \in G => <<s, step[<<s, v>>]>> \in G

Unrolls(iter, G, S, pick, base, step) ==
    /\ iter[{}] = base
    /\ \A s \in SUBSET S :
          /\ <<s, iter[s]>> \in G
          /\ s # {} => iter[s] = step[<<s, iter[s \ {pick[s]}]>>]

LEMMA Folding ==
    ASSUME NEW S, IsFiniteSet(S), NEW pick \in Picks(S), NEW V, NEW G, NEW base, NEW step,
           Stays(G, S, V, pick, base, step)
    PROVE  \E iter \in [SUBSET S -> V] : Unrolls(iter, G, S, pick, base, step)
<1> USE DEF Stays
<1> DEFINE guarded == [p \in (SUBSET S) \X V |->
                          IF <<p[1], step[p]>> \in G THEN step[p] ELSE base]
<1>1. base \in V
  OBVIOUS
<1>2. guarded \in Steps(S, V)
  BY <1>1 DEF Steps
<1>3. \A s \in SUBSET S, v \in V : <<s, step[<<s, v>>]>> \in G => guarded[<<s, v>>] = step[<<s, v>>]
  OBVIOUS
<1> HIDE DEF guarded
<1>4. PICK iter \in [SUBSET S -> V] : Iterates(iter, S, pick, base, guarded)
  BY <1>1, <1>2, Recursion
<1> DEFINE K == {s \in SUBSET S : <<s, iter[s]>> \in G}
<1>5. ASSUME NEW s \in SUBSET S, s # {}, s \ {pick[s]} \in K
      PROVE  <<s, iter[s]>> \in G /\ iter[s] = step[<<s, iter[s \ {pick[s]}]>>]
  <2> DEFINE v == iter[s \ {pick[s]}]
  <2>1. v \in V /\ <<s \ {pick[s]}, v>> \in G
    BY <1>5
  <2>2. iter[s] = guarded[<<s, v>>]
    BY <1>4, <1>5 DEF Iterates
  <2> HIDE DEF v
  <2>3. <<s, step[<<s, v>>]>> \in G
    BY <1>5, <2>1
  <2>4. iter[s] = step[<<s, v>>]
    BY <1>3, <2>1, <2>2, <2>3
  <2> QED BY <2>3, <2>4 DEF v
<1>6. {} \in K
  BY <1>4 DEF Iterates
<1>7. \A s \in SUBSET S : s # {} /\ s \ {pick[s]} \in K => s \in K
  BY <1>5
<1> HIDE DEF K
<1>8. SUBSET S \subseteq K
  BY <1>6, <1>7, Shrinking
<1>9. iter[{}] = base
  BY <1>4 DEF Iterates
<1>10. \A s \in SUBSET S : <<s, iter[s]>> \in G
  BY <1>8 DEF K
<1>11. \A s \in SUBSET S : s # {} => iter[s] = step[<<s, iter[s \ {pick[s]}]>>]
  BY <1>5, <1>8
<1> QED BY <1>9, <1>10, <1>11 DEF Unrolls

LEMMA MaxIs ==
    ASSUME NEW T \in SUBSET Int, NEW m \in T, \A y \in T : y <= m
    PROVE  Max(T) = m
<1>1. \A y \in T : m >= y
  OBVIOUS
<1>2. \E x \in T : \A y \in T : x >= y
  BY <1>1, Zenon
<1>3. Max(T) \in T /\ \A y \in T : Max(T) >= y
  BY <1>2 DEF Max
<1>4. Max(T) >= m /\ Max(T) <= m /\ Max(T) \in Int /\ m \in Int
  BY <1>3
<1> QED BY <1>4

LEMMA MinIs ==
    ASSUME NEW T \in SUBSET Int, NEW m \in T, \A y \in T : m <= y
    PROVE  Min(T) = m
<1>1. \E x \in T : \A y \in T : x <= y
  BY Zenon
<1>2. Min(T) \in T /\ \A y \in T : Min(T) <= y
  BY <1>1 DEF Min
<1>3. Min(T) >= m /\ Min(T) <= m /\ Min(T) \in Int /\ m \in Int
  BY <1>2
<1> QED BY <1>3

\* The last of a range is at its end.
LEMMA Greatest ==
    ASSUME NEW n \in Nat, NEW T \in SUBSET (0 .. n), T # {}
    PROVE  Max(T) \in T /\ \A y \in T : y <= Max(T)
<1> DEFINE R == {n - y : y \in T}
<1>1. R \in SUBSET Nat /\ R # {}
  <2>1. \A y \in T : n - y \in Nat
    OBVIOUS
  <2> QED BY <2>1, Zenon
<1>2. PICK r \in R : \A x \in R : r <= x
  BY <1>1, LeastOf
<1>3. PICK m \in T : r = n - m
  BY <1>2
<1>4. \A y \in T : y <= m
  <2> SUFFICES ASSUME NEW y \in T PROVE y <= m
    OBVIOUS
  <2>1. n - m <= n - y
    BY <1>2, <1>3
  <2> QED BY <2>1
<1> HIDE DEF R
<1>5. T \in SUBSET Int /\ m \in T
  OBVIOUS
<1>6. Max(T) = m
  BY <1>4, <1>5, MaxIs
<1> QED BY <1>4, <1>6

\* The last elements first.
LastIn(n) == [s \in (SUBSET (1 .. n)) \ {{}} |-> Max(s)]

LEMMA LastInPicks ==
    ASSUME NEW n \in Nat
    PROVE  LastIn(n) \in Picks(1 .. n) /\ IsFiniteSet(1 .. n)
<1>1. ASSUME NEW s \in (SUBSET (1 .. n)) \ {{}} PROVE Max(s) \in s
  <2>1. s \in SUBSET (0 .. n) /\ s # {}
    OBVIOUS
  <2> QED BY <2>1, Greatest
<1>2. \A s \in (SUBSET (1 .. n)) \ {{}} : Max(s) \in 1 .. n
  BY <1>1
<1>3. IsFiniteSet(1 .. n)
  BY FS_Interval
<1> QED BY <1>1, <1>2, <1>3 DEF LastIn, Picks

-----------------------------------------------------------------------------
(* The windows of a file.                                                  *)

\* _merge_proposals folds over the windows.
LEMMA MergeFold ==
    ASSUME NEW n \in Nat, NEW windows, DOMAIN windows = 1 .. n,
           NEW V, NEW G \in SUBSET ((SUBSET (1 .. n)) \X V), <<{}, <<>>>> \in G,
           \A s \in SUBSET (1 .. n), v \in V :
              s # {} /\ <<s \ {Max(s)}, v>> \in G => <<s, MergeProposal(v, windows[Max(s)])>> \in G
    PROVE  <<1 .. n, MergeProposals(windows)>> \in G
<1> DEFINE S == 1 .. n
           step == [p \in (SUBSET S) \X V |-> MergeProposal(p[2], windows[Max(p[1])])]
           Merged(v, w) == MergeProposal(v, w)
           Unfolded(iter) ==
               iter = [s \in SUBSET S |->
                          IF s = {} THEN <<>> ELSE Merged(iter[s \ {Max(s)}], windows[Max(s)])]
           whole == CHOOSE iter : Unfolded(iter)
<1>1. \A s \in SUBSET S, v \in V : step[<<s, v>>] = Merged(v, windows[Max(s)])
  OBVIOUS
<1>2. LastIn(n) \in Picks(S) /\ IsFiniteSet(S)
  BY LastInPicks
<1>3. \A s \in SUBSET S : s # {} => LastIn(n)[s] = Max(s)
  BY DEF LastIn
<1>4. MergeProposals(windows) = whole[S]
  BY DEF MergeProposals, FoldLeft, MapThenFoldSet
<1>5. \A s \in SUBSET S, v \in V :
         s # {} /\ <<s \ {Max(s)}, v>> \in G => <<s, Merged(v, windows[Max(s)])>> \in G
  OBVIOUS
<1> HIDE DEF step, S, Merged
<1>6. \A s \in SUBSET S, v \in V :
         s # {} /\ <<s \ {LastIn(n)[s]}, v>> \in G => <<s, step[<<s, v>>]>> \in G
  BY <1>1, <1>3, <1>5
<1>7. G \in SUBSET ((SUBSET S) \X V)
  BY DEF S
<1>s. Stays(G, S, V, LastIn(n), <<>>, step)
  BY <1>6, <1>7 DEF Stays
<1>8. PICK iter \in [SUBSET S -> V] : Unrolls(iter, G, S, LastIn(n), <<>>, step)
  BY <1>2, <1>s, Folding
<1>u. /\ iter[{}] = <<>>
      /\ \A s \in SUBSET S :
            /\ <<s, iter[s]>> \in G
            /\ s # {} => iter[s] = step[<<s, iter[s \ {LastIn(n)[s]}]>>]
  BY <1>8 DEF Unrolls
<1>9. \A s \in SUBSET S : s # {} => iter[s] = Merged(iter[s \ {Max(s)}], windows[Max(s)])
  <2> SUFFICES ASSUME NEW s \in SUBSET S, s # {}
               PROVE  iter[s] = Merged(iter[s \ {Max(s)}], windows[Max(s)])
    OBVIOUS
  <2>1. iter[s \ {Max(s)}] \in V
    BY <1>8
  <2> QED BY <1>1, <1>3, <1>u, <2>1
<1>10. Unfolded(iter)
  BY <1>8, <1>u, <1>9
<1>11. Unfolded(whole)
  BY <1>10
<1> HIDE DEF whole
<1> DEFINE K == {s \in SUBSET S : <<s, whole[s]>> \in G}
<1>12. {} \in K
  BY <1>11
<1>13. \A s \in SUBSET S : s # {} /\ s \ {LastIn(n)[s]} \in K => s \in K
  <2> SUFFICES ASSUME NEW s \in SUBSET S, s # {}, <<s \ {Max(s)}, whole[s \ {Max(s)}]>> \in G
               PROVE  <<s, whole[s]>> \in G
    BY <1>3
  <2>1. whole[s] = Merged(whole[s \ {Max(s)}], windows[Max(s)])
    BY <1>11
  <2>2. whole[s \ {Max(s)}] \in V
    BY <1>7
  <2> QED BY <1>5, <2>1, <2>2
<1> HIDE DEF K
<1>14. SUBSET S \subseteq K
  BY <1>2, <1>12, <1>13, Shrinking
<1>15. <<S, whole[S]>> \in G
  BY <1>14 DEF K
<1> QED BY <1>4, <1>15 DEF S

LEMMA SortedLines ==
    ASSUME NEW lines \in SUBSET Nat, IsFiniteSet(lines)
    PROVE  /\ Cardinality(lines) \in Nat
           /\ Sorted(lines) \in Seq(lines) /\ DOMAIN Sorted(lines) = 1 .. Cardinality(lines)
           /\ \A j, k \in 1 .. Cardinality(lines) : j < k => Sorted(lines)[j] < Sorted(lines)[k]
           /\ \A l \in lines : \E k \in 1 .. Cardinality(lines) : Sorted(lines)[k] = l
<1> DEFINE n == Cardinality(lines)
           R == {p \in lines \X lines : p[1] < p[2]}
           At(k) == CHOOSE l \in lines : Cardinality({m \in lines : m < l}) = k - 1
           sorted == Sorted(lines)
<1>1. n \in Nat
  BY FS_CardinalityType
<1>2. sorted = [k \in 1 .. n |-> At(k)]
  BY DEF Sorted
<1>3. \A x, y \in lines : <<x, y>> \in R <=> x < y
  OBVIOUS
<1>4. StrictOrder(R, lines)
  BY <1>3 DEF StrictOrder
<1>5. \A l \in lines : {m \in lines : m < l} = Before(R, lines, l)
  BY <1>3 DEF Before
<1> HIDE DEF R, n
<1>6. ASSUME NEW k \in 1 .. n
      PROVE  At(k) \in lines /\ Cardinality(Before(R, lines, At(k))) = k - 1
  <2>1. k - 1 \in Nat /\ k - 1 < Cardinality(lines)
    BY <1>1 DEF n
  <2>f. Full(R, lines)
    BY <1>4, PlacesAreTaken
  <2>2. \E l \in lines : Cardinality(Before(R, lines, l)) = k - 1
    BY <2>1, <2>f DEF Full
  <2>3. \E l \in lines : Cardinality({m \in lines : m < l}) = k - 1
    BY <1>5, <2>2
  <2>4. At(k) \in lines /\ Cardinality({m \in lines : m < At(k)}) = k - 1
    BY <2>3
  <2> HIDE DEF At
  <2> QED BY <1>5, <2>4
<1>7. \A k \in 1 .. n : sorted[k] = At(k)
  BY <1>2
<1>8. sorted \in Seq(lines) /\ DOMAIN sorted = 1 .. n
  <2> HIDE DEF At, sorted
  <2>1. sorted \in [1 .. n -> lines]
    BY <1>2, <1>6
  <2> QED BY <1>1, <2>1, SeqDef
<1> HIDE DEF At, sorted
<1>9. ASSUME NEW j \in 1 .. n, NEW k \in 1 .. n, j < k
      PROVE  sorted[j] < sorted[k]
  <2>1. j - 1 < k - 1
    BY <1>1, <1>9
  <2>2. <<At(j), At(k)>> \in R
    BY <1>4, <1>6, <2>1, FewerIsAhead
  <2> QED BY <1>3, <1>6, <1>7, <2>2
<1>10. ASSUME NEW l \in lines
       PROVE  \E k \in 1 .. n : sorted[k] = l
  <2> DEFINE b == Cardinality(Before(R, lines, l))
  <2>1. b \in Nat
    BY BeforeCounts
  <2>2. b < n
    <3>1. Before(R, lines, l) \in SUBSET lines /\ l \notin Before(R, lines, l)
      BY <1>3 DEF Before
    <3> DEFINE before == Before(R, lines, l)
    <3> HIDE DEF before
    <3>2. Cardinality(before) <= Cardinality(lines)
          /\ (Cardinality(before) = Cardinality(lines) => before = lines)
      BY <3>1, FS_Subset DEF before
    <3>3. Cardinality(before) \in Nat /\ before # lines
      BY <2>1, <3>1 DEF before
    <3> QED BY <1>1, <3>2, <3>3 DEF n, before
  <2> DEFINE k == b + 1
  <2>3. k \in 1 .. n /\ k - 1 = b
    BY <1>1, <2>1, <2>2
  <2> HIDE DEF k
  <2>4. At(k) \in lines /\ Cardinality(Before(R, lines, At(k))) = b
    BY <1>6, <2>3
  <2>5. ~(<<At(k), l>> \in R) /\ ~(<<l, At(k)>> \in R)
    BY <1>4, <2>1, <2>4, AheadHasFewer
  <2>6. At(k) = l
    BY <1>4, <2>4, <2>5 DEF StrictOrder
  <2> QED BY <1>7, <2>3, <2>6
<1> QED BY <1>1, <1>8, <1>9, <1>10 DEF n, sorted

\* Windows hold their line, are no longer than the bound, and neither begin
\* nor end before those of earlier lines.
LEMMA WindowShape ==
    ASSUME NEW count \in Nat, NEW t \in 1 .. count, NEW w, w = WindowAt(count, t)
    PROVE  /\ w.start \in 1 .. t /\ w.end \in t .. count
           /\ w.end - w.start < WindowLines
           /\ w.target = t /\ w.extra = {}
           /\ t - LinesBefore <= w.start /\ (w.start = 1 \/ w.start = t - LinesBefore)
           /\ \A u \in 1 .. count : u <= t => /\ WindowAt(count, u).start <= w.start
                                              /\ WindowAt(count, u).end <= w.end
<1> DEFINE Start(u) == IF 1 >= u - LinesBefore THEN 1 ELSE u - LinesBefore
           End(u) == IF count <= Start(u) + WindowLines - 1
                     THEN count ELSE Start(u) + WindowLines - 1
<1>1. LinesBefore \in Nat /\ WindowLines \in Nat /\ LinesBefore < WindowLines
  BY WindowAssumption
<1>2. ASSUME NEW u \in 1 .. count
      PROVE  WindowAt(count, u) = Span(Start(u), End(u), u, {}) /\ Start(u) \in Nat
  <2>1. Max({1, u - LinesBefore}) = Start(u)
    BY <1>1, GreaterOf
  <2>2. Start(u) \in Nat
    BY <1>1
  <2> DEFINE start == Start(u)
  <2> HIDE DEF start
  <2>3. start \in Nat /\ start + WindowLines - 1 \in Int
    BY <1>1, <2>2 DEF start
  <2>4. Min({count, start + WindowLines - 1}) =
          IF count <= start + WindowLines - 1 THEN count ELSE start + WindowLines - 1
    BY <2>3, LesserOf
  <2> QED BY <2>1, <2>2, <2>4 DEF WindowAt, start
<1>3. \A u \in 1 .. count : /\ WindowAt(count, u).start = Start(u)
                            /\ WindowAt(count, u).end = End(u)
                            /\ WindowAt(count, u).target = u /\ WindowAt(count, u).extra = {}
  <2> HIDE DEF Start, End
  <2> QED BY <1>2 DEF Span
<1>4. \A u \in 1 .. count : u <= t => Start(u) <= Start(t) /\ End(u) <= End(t)
  BY <1>1
<1>5. /\ Start(t) \in 1 .. t /\ End(t) \in t .. count /\ End(t) - Start(t) < WindowLines
      /\ t - LinesBefore <= Start(t) /\ (Start(t) = 1 \/ Start(t) = t - LinesBefore)
  BY <1>1
<1> HIDE DEF Start, End
<1> QED BY <1>3, <1>4, <1>5

-----------------------------------------------------------------------------
(* Merging the windows, in the order of their lines.                       *)

Segments == [start : Nat \ {0}, end : Nat, target : Nat, extra : SUBSET Nat]

\* A segment is no longer than a window and carries those of the lines T that
\* it holds, at least one.
Carries(g, T) ==
    /\ g \in Segments /\ g.start <= g.end /\ g.end - g.start < WindowLines
    /\ g.target # NoTarget /\ Targets(g) = T \cap LinesOf(g)

\* What the windows of the lines T cover.
Spread(count, T) == UNION {LinesOf(WindowAt(count, t)) : t \in T}

\* The segments that the windows of the lines T become.
Partition(segments, count, T) ==
    /\ segments \in Seq(Segments)
    /\ \A i \in DOMAIN segments : Carries(segments[i], T)
    /\ \A i, j \in DOMAIN segments : i < j => segments[i].end < segments[j].start
    /\ Covered(segments) = Spread(count, T)
    /\ T = {} <=> segments = <<>>
    /\ \A t \in T : (\A u \in T : u <= t) =>
          segments[Len(segments)].end = WindowAt(count, t).end

LEMMA CoveredEndIs ==
    ASSUME NEW segments, NEW p \in Nat \ {0}, NEW e \in Nat,
           Covered(segments) \subseteq 0 .. e, p .. e \subseteq Covered(segments)
    PROVE  CoveredEnd(segments, p) = IF p <= e THEN e ELSE p - 1
<1> DEFINE C == Covered(segments)
           top == Max(C \cup {p})
           free == {l \in p .. top + 1 : l \notin C}
<1>1. CoveredEnd(segments, p) = Min(free) - 1
  BY DEF CoveredEnd, Covered
<1>2. C \subseteq 0 .. e /\ p .. e \subseteq C
  OBVIOUS
<1> HIDE DEF C
<1>3. CASE p <= e
  <2>1. e \in C
    BY <1>2, <1>3
  <2>2. C \cup {p} \in SUBSET Int /\ e \in C \cup {p} /\ \A y \in C \cup {p} : y <= e
    BY <1>2, <1>3, <2>1
  <2>3. top = e
    BY <2>2, MaxIs
  <2>4. free \in SUBSET Int /\ e + 1 \in free /\ \A y \in free : e + 1 <= y
    <3> HIDE DEF top
    <3>1. e + 1 \notin C
      BY <1>2
    <3>2. \A y \in p .. e + 1 : y \notin C => y = e + 1
      BY <1>2
    <3> QED BY <1>3, <2>3, <3>1, <3>2
  <2> HIDE DEF free
  <2>5. Min(free) = e + 1
    BY <2>4, MinIs
  <2> QED BY <1>1, <1>3, <2>5
<1>4. CASE p > e
  <2>1. C \cup {p} \in SUBSET Int /\ p \in C \cup {p} /\ \A y \in C \cup {p} : y <= p
    BY <1>2, <1>4
  <2>2. top = p
    BY <2>1, MaxIs
  <2>3. free \in SUBSET Int /\ p \in free /\ \A y \in free : p <= y
    <3> HIDE DEF top
    <3>1. p \notin C
      BY <1>2, <1>4
    <3> QED BY <2>2, <3>1
  <2> HIDE DEF free
  <2>4. Min(free) = p
    BY <2>3, MinIs
  <2> QED BY <1>1, <1>4, <2>4
<1> QED BY <1>3, <1>4

LEMMA CarriesMore ==
    ASSUME NEW T, NEW t, NEW g, Carries(g, T), t \notin LinesOf(g)
    PROVE  Carries(g, T \cup {t})
BY DEF Carries

LEMMA SpreadMore ==
    ASSUME NEW T, NEW t, NEW count
    PROVE  Spread(count, T \cup {t}) = Spread(count, T) \cup LinesOf(WindowAt(count, t))
BY DEF Spread

LEMMA CoveredBy ==
    ASSUME NEW segments, NEW l
    PROVE  l \in Covered(segments) <=> \E i \in DOMAIN segments : l \in LinesOf(segments[i])
BY DEF Covered

LEMMA Segmented ==
    ASSUME NEW segments, NEW count, NEW T, Partition(segments, count, T)
    PROVE  /\ segments \in Seq(Segments) /\ Len(segments) \in Nat
           /\ DOMAIN segments = 1 .. Len(segments)
           /\ \A i \in 1 .. Len(segments) :
                 /\ segments[i] \in Segments /\ Carries(segments[i], T)
                 /\ segments[i].start \in Nat \ {0} /\ segments[i].end \in Nat
                 /\ segments[i].start <= segments[i].end
                 /\ segments[i].target \in T /\ segments[i].target \in LinesOf(segments[i])
           /\ \A i, j \in 1 .. Len(segments) : i < j => segments[i].end < segments[j].start
<1>1. segments \in Seq(Segments) /\ \A i \in DOMAIN segments : Carries(segments[i], T)
  BY DEF Partition
<1>2. Len(segments) \in Nat /\ DOMAIN segments = 1 .. Len(segments)
  BY <1>1, LenProperties
<1>3. \A g : Carries(g, T) => /\ g \in Segments /\ g.start <= g.end
                              /\ g.start \in Nat \ {0} /\ g.end \in Nat
                              /\ g.target \in T /\ g.target \in LinesOf(g)
  BY DEF Carries, Targets, Segments
<1> QED BY <1>1, <1>2, <1>3 DEF Partition

\* The segments of the lines T, and a line after them all.
Onto(segments, count, T, t) ==
    /\ count \in Nat /\ T \in SUBSET (1 .. count) /\ t \in 1 .. count
    /\ \A u \in T : u < t
    /\ Partition(segments, count, T)

\* Where the last segment ends.
Reach(segments, T) == IF T = {} THEN 0 ELSE segments[Len(segments)].end

\* What is covered before the window of a later line.
LEMMA CoveredBefore ==
    ASSUME NEW count, NEW T, NEW t, NEW segments, Onto(segments, count, T, t)
    PROVE  LET e == Reach(segments, T)
               w == WindowAt(count, t)
           IN  /\ e \in Nat /\ e <= w.end /\ Covered(segments) \subseteq 0 .. e
               /\ w.start .. e \subseteq Covered(segments)
               /\ CoveredEnd(segments, w.start) = IF w.start <= e THEN e ELSE w.start - 1
<1> DEFINE e == Reach(segments, T)
           w == WindowAt(count, t)
<1>0. /\ count \in Nat /\ T \in SUBSET (1 .. count) /\ t \in 1 .. count
      /\ (\A u \in T : u < t) /\ Partition(segments, count, T)
  BY DEF Onto
<1>e. e = IF T = {} THEN 0 ELSE segments[Len(segments)].end
  BY DEF Reach
<1>1. w.start \in 1 .. t /\ w.end \in t .. count
  BY <1>0, WindowShape
<1>2. /\ Len(segments) \in Nat /\ DOMAIN segments = 1 .. Len(segments)
      /\ \A i \in 1 .. Len(segments) : segments[i].start \in Nat \ {0} /\ segments[i].end \in Nat
      /\ \A i, j \in 1 .. Len(segments) : i < j => segments[i].end < segments[j].start
      /\ \A i \in 1 .. Len(segments) : segments[i].start <= segments[i].end
  BY <1>0, Segmented
<1>3. CASE T = {}
  <2>1. e = 0 /\ segments = <<>>
    BY <1>0, <1>3, <1>e DEF Partition
  <2>2. Covered(segments) = {}
    BY <2>1 DEF Covered
  <2>3. w.start .. e = {}
    BY <1>1, <2>1
  <2>4. CoveredEnd(segments, w.start) = IF w.start <= e THEN e ELSE w.start - 1
    <3> HIDE DEF w, e
    <3>1. w.start \in Nat \ {0} /\ e \in Nat
      BY <1>1, <2>1
    <3>2. Covered(segments) \subseteq 0 .. e /\ w.start .. e \subseteq Covered(segments)
      BY <2>2, <2>3
    <3> QED BY <3>1, <3>2, CoveredEndIs
  <2> QED BY <1>0, <1>1, <2>1, <2>2, <2>3, <2>4
<1>4. CASE T # {}
  <2> DEFINE u == Max(T)
             m == Len(segments)
             v == WindowAt(count, u)
  <2>1. u \in T /\ \A x \in T : x <= u
    <3>1. T \in SUBSET (0 .. count)
      BY <1>0
    <3> QED BY <1>0, <1>4, <3>1, Greatest
  <2> HIDE DEF u
  <2>2. e = v.end /\ m \in 1 .. Len(segments) /\ e = segments[m].end
    <3>1. segments # <<>> /\ segments[m].end = v.end
      BY <1>0, <1>4, <2>1 DEF Partition
    <3>2. segments \in Seq(Segments)
      BY <1>0, Segmented
    <3>3. m # 0
      BY <3>1, <3>2, EmptySeq
    <3>4. e = segments[m].end
      BY <1>4, <1>e
    <3>5. m \in Nat
      BY <1>2
    <3> HIDE DEF m, v
    <3>6. m \in 1 .. m
      BY <3>3, <3>5
    <3> QED BY <3>1, <3>4, <3>6 DEF m
  <2>3. u \in 1 .. count /\ u <= t /\ v.start <= w.start /\ v.end <= w.end /\ v.start \in Nat
    <3>1. u \in 1 .. count /\ u <= t
      BY <1>0, <2>1
    <3> QED BY <1>0, <3>1, WindowShape
  <2>4. e \in Nat
    BY <1>2, <2>2
  <2>5. \A l \in Covered(segments) : l \in 0 .. e
    <3> SUFFICES ASSUME NEW l, NEW i \in 1 .. m, l \in LinesOf(segments[i]) PROVE l \in 0 .. e
      BY <1>2, CoveredBy
    <3>1. segments[i].end <= e
      BY <1>2, <2>2
    <3>2. segments[i].start \in Nat /\ segments[i].end \in Nat
      BY <1>2
    <3> QED BY <2>4, <3>1, <3>2 DEF LinesOf
  <2>6. w.start .. e \subseteq Covered(segments)
    <3>1. LinesOf(v) \subseteq Covered(segments)
      BY <1>0, <2>1 DEF Partition, Spread
    <3>2. \A l \in w.start .. e : l \in v.start .. v.end
      BY <1>1, <2>2, <2>3, <2>4
    <3> QED BY <3>1, <3>2 DEF LinesOf
  <2> HIDE DEF v, m
  <2>7. w.start \in Nat \ {0} /\ e <= w.end
    BY <1>1, <2>2, <2>3
  <2>8. Covered(segments) \subseteq 0 .. e
    BY <2>5
  <2>9. CoveredEnd(segments, w.start) = IF w.start <= e THEN e ELSE w.start - 1
    BY <2>4, <2>6, <2>7, <2>8, CoveredEndIs
  <2> QED BY <2>4, <2>6, <2>7, <2>8, <2>9
<1> QED BY <1>3, <1>4

LEMMA Repartition ==
    ASSUME NEW count, NEW T, NEW t, NEW segments, Onto(segments, count, T, t),
           NEW new, new \in Seq(Segments), new # <<>>,
           \A i \in DOMAIN new : Carries(new[i], T \cup {t}),
           \A i, j \in DOMAIN new : i < j => new[i].end < new[j].start,
           Covered(new) = Covered(segments) \cup LinesOf(WindowAt(count, t)),
           new[Len(new)].end = WindowAt(count, t).end
    PROVE  Partition(new, count, T \cup {t})
<1>0. /\ count \in Nat /\ T \in SUBSET (1 .. count) /\ t \in 1 .. count
      /\ (\A u \in T : u < t) /\ Partition(segments, count, T)
  BY DEF Onto
<1>1. Covered(new) = Spread(count, T \cup {t})
  <2>1. Covered(segments) = Spread(count, T)
    BY <1>0 DEF Partition
  <2>2. Spread(count, T \cup {t}) = Spread(count, T) \cup LinesOf(WindowAt(count, t))
    BY SpreadMore
  <2> QED BY <2>1, <2>2
<1>2. \A x \in T \cup {t} : (\A u \in T \cup {t} : u <= x) => x = t
  <2> SUFFICES ASSUME NEW x \in T, t <= x PROVE FALSE
    BY <1>0
  <2> QED BY <1>0
<1> QED BY <1>0, <1>1, <1>2 DEF Partition

\* The lines already merged are covered, up to the end of what is covered.
LEMMA MergedLines ==
    ASSUME NEW count \in Nat, NEW T \in SUBSET (1 .. count), NEW segments,
           Partition(segments, count, T)
    PROVE  T \subseteq Covered(segments)
<1> SUFFICES ASSUME NEW u \in T PROVE u \in Covered(segments)
  OBVIOUS
<1> DEFINE v == WindowAt(count, u)
<1>1. v.start \in 1 .. u /\ v.end \in u .. count
  BY WindowShape
<1>2. u \in LinesOf(v)
  BY <1>1 DEF LinesOf
<1> QED BY <1>2 DEF Partition, Spread

\* A line beyond what is covered starts a segment.
LEMMA MergeBeyond ==
    ASSUME NEW count, NEW T, NEW t, NEW segments, Onto(segments, count, T, t),
           t > CoveredEnd(segments, WindowAt(count, t).start)
    PROVE  Partition(MergeProposal(segments, WindowAt(count, t)), count, T \cup {t})
<1> DEFINE w == WindowAt(count, t)
           c == CoveredEnd(segments, w.start)
           e == Reach(segments, T)
           m == Len(segments)
           g == Span(c + 1, w.end, t, {})
           new == Append(segments, g)
<1>0. /\ count \in Nat /\ T \in SUBSET (1 .. count) /\ t \in 1 .. count
      /\ (\A u \in T : u < t) /\ Partition(segments, count, T)
  BY DEF Onto
<1>1. /\ w.start \in 1 .. t /\ w.end \in t .. count /\ w.end - w.start < WindowLines
      /\ w.target = t /\ w.extra = {}
  BY <1>0, WindowShape
<1>2. /\ e \in Nat /\ e <= w.end /\ Covered(segments) \subseteq 0 .. e
      /\ w.start .. e \subseteq Covered(segments)
      /\ CoveredEnd(segments, w.start) = IF w.start <= e THEN e ELSE w.start - 1
  BY CoveredBefore
<1>3. /\ segments \in Seq(Segments) /\ m \in Nat /\ DOMAIN segments = 1 .. m
      /\ \A i \in 1 .. m : /\ segments[i] \in Segments /\ Carries(segments[i], T)
                           /\ segments[i].start \in Nat \ {0} /\ segments[i].end \in Nat
                           /\ segments[i].start <= segments[i].end
      /\ \A i, j \in 1 .. m : i < j => segments[i].end < segments[j].start
  BY <1>0, Segmented
<1>e. e \in Nat /\ \A i \in 1 .. m : segments[i].end <= e
  <2> SUFFICES ASSUME NEW i \in 1 .. m PROVE segments[i].end <= e
    BY <1>2
  <2>1. segments[i].start \in Nat /\ segments[i].end \in Nat /\ segments[i].start <= segments[i].end
    BY <1>3
  <2>2. segments[i].end \in LinesOf(segments[i])
    BY <2>1 DEF LinesOf
  <2>3. segments[i].end \in Covered(segments)
    BY <1>3, <2>2, CoveredBy
  <2> QED BY <1>2, <2>3
<1>t. t \in Nat /\ w.start \in Nat /\ w.end \in Nat /\ t <= w.end /\ t > c
  BY <1>0, <1>1
<1> HIDE DEF e
<1>4. c \in Nat /\ e <= c /\ w.start <= c + 1 /\ w.start .. c \subseteq Covered(segments)
  BY <1>1, <1>2
<1> HIDE DEF c
<1>5. MergeProposal(segments, w) = new
  <2>1. ~(c >= w.end)
    BY <1>1, <1>t, <1>4
  <2>2. ~(t # NoTarget /\ t <= c)
    BY <1>t, <1>4
  <2> QED BY <1>1, <2>1, <2>2 DEF MergeProposal, c
<1>6. T \subseteq 0 .. e
  BY <1>0, <1>2, MergedLines
<1>7. g \in Segments /\ g.start = c + 1 /\ g.end = w.end /\ g.target = t /\ g.extra = {}
  <2>1. c + 1 \in Nat \ {0} /\ w.end \in Nat /\ t \in Nat
    BY <1>1, <1>t, <1>4
  <2> QED BY <2>1 DEF Segments, Span
<1>8. Carries(g, T \cup {t})
  <2>1. g.start <= g.end /\ g.end - g.start < WindowLines /\ g.target # NoTarget
    <3>1. WindowLines \in Nat
      BY WindowAssumption
    <3> QED BY <1>1, <1>t, <1>4, <1>7, <3>1 DEF NoTarget
  <2>2. (T \cup {t}) \cap LinesOf(g) = {t}
    <3>1. LinesOf(g) = (c + 1) .. w.end
      BY <1>7 DEF LinesOf
    <3>2. \A u \in T : u \notin (c + 1) .. w.end
      BY <1>2, <1>4, <1>6
    <3>3. t \in (c + 1) .. w.end
      BY <1>1, <1>t, <1>4
    <3> QED BY <3>1, <3>2, <3>3
  <2>3. Targets(g) = {t}
    BY <1>7, <2>1 DEF Targets
  <2> QED BY <1>7, <2>1, <2>2, <2>3 DEF Carries
<1> HIDE DEF g
<1>9. /\ new \in Seq(Segments) /\ Len(new) = m + 1 /\ DOMAIN new = 1 .. m + 1
      /\ new[m + 1] = g /\ \A i \in 1 .. m : new[i] = segments[i]
  <2>1. new \in Seq(Segments) /\ Len(new) = m + 1 /\ new[m + 1] = g
    BY <1>3, <1>7, AppendProperties
  <2>2. \A i \in 1 .. m : new[i] = segments[i]
    BY <1>3, <1>7, AppendProperties
  <2> QED BY <1>3, <2>1, <2>2, LenProperties
<1> HIDE DEF new
<1>m. m \in Nat /\ DOMAIN segments = 1 .. m
  BY <1>3
<1> HIDE DEF m
<1>10. \A i \in DOMAIN new : Carries(new[i], T \cup {t})
  <2>a. \A i \in 1 .. m + 1 : i \in 1 .. m \/ i = m + 1
    BY <1>m
  <2> SUFFICES ASSUME NEW i \in 1 .. m PROVE Carries(segments[i], T \cup {t})
    BY <1>8, <1>9, <2>a
  <2>1. Carries(segments[i], T) /\ segments[i].start \in Nat /\ segments[i].end \in Nat
    BY <1>3
  <2>2. t \notin LinesOf(segments[i])
    BY <1>t, <1>e, <1>4, <2>1 DEF LinesOf
  <2> QED BY <2>1, <2>2, CarriesMore
<1>11. \A i, j \in DOMAIN new : i < j => new[i].end < new[j].start
  <2> SUFFICES ASSUME NEW i \in 1 .. m + 1, NEW j \in 1 .. m + 1, i < j
               PROVE  new[i].end < new[j].start
    BY <1>9
  <2>1. i \in 1 .. m /\ (j \in 1 .. m \/ j = m + 1)
    BY <1>m
  <2>2. CASE j \in 1 .. m
    BY <1>3, <1>9, <2>1, <2>2
  <2>3. CASE j = m + 1
    <3>1. segments[i].end <= e /\ segments[i].end \in Nat
      BY <1>3, <1>e, <2>1
    <3>2. segments[i].end < c + 1
      BY <1>e, <1>4, <3>1
    <3> QED BY <1>7, <1>9, <2>1, <2>3, <3>2
  <2> QED BY <2>1, <2>2, <2>3
<1>12. Covered(new) = Covered(segments) \cup LinesOf(w)
  <2>1. LinesOf(g) = (c + 1) .. w.end /\ LinesOf(w) = w.start .. w.end
    BY <1>7 DEF LinesOf
  <2>2. \A l : l \in Covered(new) <=> l \in Covered(segments) \/ l \in LinesOf(g)
    <3> TAKE l
    <3>1. l \in Covered(new) <=> \E i \in 1 .. m + 1 : l \in LinesOf(new[i])
      BY <1>9, CoveredBy
    <3>2. l \in Covered(segments) <=> \E i \in 1 .. m : l \in LinesOf(segments[i])
      BY <1>m, CoveredBy
    <3>3. \A i \in 1 .. m + 1 : i \in 1 .. m \/ i = m + 1
      BY <1>m
    <3>4. m + 1 \in 1 .. m + 1 /\ \A i \in 1 .. m : i \in 1 .. m + 1
      BY <1>m
    <3> QED BY <1>9, <3>1, <3>2, <3>3, <3>4
  <2>3. \A l : l \in w.start .. w.end => l \in w.start .. c \/ l \in (c + 1) .. w.end
    BY <1>1, <1>t, <1>4
  <2>4. \A l : l \in (c + 1) .. w.end => l \in w.start .. w.end
    BY <1>1, <1>t, <1>4
  <2> QED BY <1>4, <2>1, <2>2, <2>3, <2>4
<1>13. new # <<>> /\ new[Len(new)].end = w.end
  BY <1>7, <1>9, <1>m, EmptySeq
<1> QED BY <1>5, <1>9, <1>10, <1>11, <1>12, <1>13, Repartition

\* The first segment that holds a line.
Holder(segments, t) == Min({j \in DOMAIN segments : t \in LinesOf(segments[j])})

\* A line inside what is covered is in the last segment, and in no other.
LEMMA LastHolds ==
    ASSUME NEW count, NEW T, NEW t, NEW segments, Onto(segments, count, T, t),
           t <= CoveredEnd(segments, WindowAt(count, t).start)
    PROVE  LET m == Len(segments)
               g == segments[m]
               w == WindowAt(count, t)
               c == CoveredEnd(segments, w.start)
           IN  /\ T # {} /\ m \in 1 .. m /\ g.end = c /\ t \in LinesOf(g)
               /\ w.start <= c /\ c <= w.end /\ c \in Nat
               /\ w.start .. c \subseteq Covered(segments)
               /\ \A j \in 1 .. m - 1 : segments[j].end < t
               /\ Holder(segments, t) = m
<1> DEFINE m == Len(segments)
           g == segments[m]
           w == WindowAt(count, t)
           c == CoveredEnd(segments, w.start)
           e == Reach(segments, T)
<1>0. /\ count \in Nat /\ T \in SUBSET (1 .. count) /\ t \in 1 .. count
      /\ (\A u \in T : u < t) /\ Partition(segments, count, T)
  BY DEF Onto
<1>c. t <= c
  OBVIOUS
<1>1. w.start \in 1 .. t /\ w.end \in t .. count
  BY <1>0, WindowShape
<1>2. /\ e \in Nat /\ e <= w.end /\ Covered(segments) \subseteq 0 .. e
      /\ w.start .. e \subseteq Covered(segments)
      /\ CoveredEnd(segments, w.start) = IF w.start <= e THEN e ELSE w.start - 1
  BY CoveredBefore
<1>3. e = c /\ w.start <= e
  <2> HIDE DEF e, c, w
  <2>1. w.start \in Nat /\ w.start <= t /\ t \in Nat
    BY <1>0, <1>1
  <2>2. c = IF w.start <= e THEN e ELSE w.start - 1
    BY <1>2 DEF c
  <2> QED BY <1>c, <1>2, <2>1, <2>2
<1>4. T # {}
  <2> SUFFICES ASSUME T = {} PROVE FALSE
    OBVIOUS
  <2>1. e = 0
    BY DEF Reach
  <2> QED BY <1>0, <1>1, <1>3, <2>1
<1>5. g.end = c /\ segments # <<>>
  BY <1>0, <1>3, <1>4 DEF Reach, Partition
<1>6. /\ segments \in Seq(Segments) /\ m \in Nat /\ DOMAIN segments = 1 .. m
      /\ \A i \in 1 .. m : /\ segments[i].start \in Nat \ {0} /\ segments[i].end \in Nat
                           /\ segments[i].start <= segments[i].end
                           /\ segments[i].target \in T
                           /\ segments[i].target \in LinesOf(segments[i])
      /\ \A i, j \in 1 .. m : i < j => segments[i].end < segments[j].start
  BY <1>0, Segmented
<1>7. m \in 1 .. m
  <2>1. m # 0
    BY <1>5, <1>6, EmptySeq
  <2> QED BY <1>6, <2>1
<1>h. c \in Nat /\ t \in Nat /\ g.end = c /\ t <= c
  BY <1>0, <1>2, <1>3, <1>5, <1>c
<1> HIDE DEF c, w, e
<1>8. /\ g.start \in Nat /\ g.end \in Nat /\ g.target \in T /\ g.target \in LinesOf(g)
  BY <1>6, <1>7
<1>9. g.start <= g.target /\ g.target < t
  BY <1>0, <1>8 DEF LinesOf
<1>10. t \in LinesOf(g)
  BY <1>h, <1>8, <1>9 DEF LinesOf
<1>11. \A j \in 1 .. m - 1 : segments[j].end < t
  <2> SUFFICES ASSUME NEW j \in 1 .. m - 1 PROVE segments[j].end < t
    OBVIOUS
  <2>1. j \in 1 .. m /\ j < m
    BY <1>6
  <2>2. segments[j].end < g.start /\ segments[j].end \in Nat
    BY <1>6, <1>7, <2>1
  <2>3. /\ g.start \in Nat /\ g.target \in Nat /\ t \in Nat
        /\ g.start <= g.target /\ g.target < t
    <3>1. (\A x \in T : x \in Nat) /\ t \in Nat
      BY <1>0
    <3> HIDE DEF g
    <3> QED BY <1>8, <1>9, <3>1
  <2> DEFINE end == segments[j].end
             start == g.start
             target == g.target
  <2> HIDE DEF end, start, target
  <2>4. end < start /\ end \in Nat /\ start \in Nat /\ target \in Nat
        /\ start <= target /\ target < t
    BY <2>2, <2>3 DEF end, start, target
  <2>5. end < t
    BY <2>3, <2>4
  <2> QED BY <2>5 DEF end
<1>12. Holder(segments, t) = m
  <2> DEFINE holders == {j \in DOMAIN segments : t \in LinesOf(segments[j])}
  <2>1. m \in holders
    BY <1>6, <1>7, <1>10
  <2>2. \A j \in holders : m <= j
    <3> SUFFICES ASSUME NEW j \in 1 .. m, t \in LinesOf(segments[j]), j < m PROVE FALSE
      BY <1>6
    <3>1. segments[j].end < t /\ segments[j].end \in Nat
      BY <1>6, <1>11
    <3> QED BY <3>1 DEF LinesOf
  <2>3. holders \in SUBSET Int
    BY <1>6
  <2>4. Min(holders) = m
    <3> HIDE DEF holders, m
    <3> QED BY <2>1, <2>2, <2>3, MinIs
  <2> QED BY <2>4 DEF Holder
<1> QED BY <1>h, <1>1, <1>2, <1>3, <1>4, <1>5, <1>7, <1>10, <1>11, <1>12 DEF c, w

\* A line whose window adds no line joins the last segment.
LEMMA MergeJoins ==
    ASSUME NEW count, NEW T, NEW t, NEW segments, Onto(segments, count, T, t),
           t <= CoveredEnd(segments, WindowAt(count, t).start),
           CoveredEnd(segments, WindowAt(count, t).start) = WindowAt(count, t).end
    PROVE  Partition(MergeProposal(segments, WindowAt(count, t)), count, T \cup {t})
<1> DEFINE w == WindowAt(count, t)
           c == CoveredEnd(segments, w.start)
           m == Len(segments)
           g == segments[m]
           h == [g EXCEPT !.extra = @ \cup {t}]
           new == [segments EXCEPT ![m].extra = @ \cup {t}]
<1>0. /\ count \in Nat /\ T \in SUBSET (1 .. count) /\ t \in 1 .. count
      /\ (\A u \in T : u < t) /\ Partition(segments, count, T)
  BY DEF Onto
<1>c. t <= c /\ c = w.end
  OBVIOUS
<1>1. w.start \in 1 .. t /\ w.end \in t .. count /\ w.target = t
  BY <1>0, WindowShape
<1>2. /\ T # {} /\ m \in 1 .. m /\ g.end = c /\ t \in LinesOf(g)
      /\ w.start <= c /\ c <= w.end /\ c \in Nat
      /\ w.start .. c \subseteq Covered(segments)
      /\ \A j \in 1 .. m - 1 : segments[j].end < t
      /\ Holder(segments, t) = m
  BY LastHolds
<1>3. /\ segments \in Seq(Segments) /\ m \in Nat /\ DOMAIN segments = 1 .. m
      /\ \A i \in 1 .. m : /\ segments[i] \in Segments /\ Carries(segments[i], T)
                           /\ segments[i].start \in Nat \ {0} /\ segments[i].end \in Nat
                           /\ segments[i].target \in T
      /\ \A i, j \in 1 .. m : i < j => segments[i].end < segments[j].start
  BY <1>0, Segmented
<1>t. t \in Nat /\ t # NoTarget
  BY <1>0 DEF NoTarget
<1> HIDE DEF w, c
<1>4. g \in Segments /\ Carries(g, T) /\ g.target \in T /\ g.target # t
  BY <1>0, <1>2, <1>3
<1>5. MergeProposal(segments, w) = new
  <2>1. /\ t # NoTarget /\ t <= c /\ c >= w.end /\ ~(c < w.end) /\ ~(w.end < g.end)
        /\ t # g.target
    BY <1>c, <1>t, <1>1, <1>2, <1>4
  <2> QED BY <1>1, <1>2, <2>1 DEF MergeProposal, c, Holder
<1>6. h \in Segments /\ h.start = g.start /\ h.end = g.end /\ h.target = g.target
      /\ h.extra = g.extra \cup {t}
  <2> HIDE DEF g
  <2> QED BY <1>4, <1>t DEF Segments
<1>7. /\ new \in Seq(Segments) /\ Len(new) = m /\ DOMAIN new = 1 .. m
      /\ new[m] = h /\ \A i \in 1 .. m - 1 : new[i] = segments[i]
  <2>1. new = [segments EXCEPT ![m] = h]
    OBVIOUS
  <2> HIDE DEF h, new, m
  <2>2. new \in Seq(Segments) /\ Len(new) = m
    BY <1>2, <1>3, <1>6, <2>1, ExceptSeq
  <2>3. new[m] = h /\ \A i \in 1 .. m - 1 : new[i] = segments[i]
    BY <1>2, <1>3, <2>1
  <2> QED BY <2>2, <2>3, LenProperties
<1> HIDE DEF h, new
<1>m. m \in Nat /\ \A i \in 1 .. m : i \in 1 .. m - 1 \/ i = m
  <2>1. m \in Nat
    BY <1>3
  <2> HIDE DEF m
  <2> QED BY <2>1
<1>8. LinesOf(h) = LinesOf(g)
  BY <1>6 DEF LinesOf
<1>9. Carries(h, T \cup {t})
  <2>1. Targets(h) = Targets(g) \cup {t}
    BY <1>t, <1>6 DEF Targets
  <2>2. Targets(g) = T \cap LinesOf(g)
    BY <1>4 DEF Carries
  <2>3. Targets(h) = (T \cup {t}) \cap LinesOf(h)
    BY <1>2, <1>8, <2>1, <2>2
  <2> QED BY <1>4, <1>6, <2>3 DEF Carries
<1>10. \A i \in DOMAIN new : Carries(new[i], T \cup {t})
  <2> SUFFICES ASSUME NEW i \in 1 .. m - 1 PROVE Carries(segments[i], T \cup {t})
    BY <1>7, <1>9, <1>m
  <2>1. i \in 1 .. m /\ segments[i].end < t
    BY <1>2, <1>m
  <2>2. Carries(segments[i], T) /\ segments[i].start \in Nat /\ segments[i].end \in Nat
    BY <1>3, <2>1
  <2>3. t \notin LinesOf(segments[i])
    BY <1>t, <2>1, <2>2 DEF LinesOf
  <2> QED BY <2>2, <2>3, CarriesMore
<1>11. \A i \in 1 .. m : new[i].start = segments[i].start /\ new[i].end = segments[i].end
  BY <1>6, <1>7, <1>m
<1>12. \A i, j \in DOMAIN new : i < j => new[i].end < new[j].start
  BY <1>3, <1>7, <1>11, <1>m
<1>13. Covered(new) = Covered(segments) \cup LinesOf(w)
  <2>1. LinesOf(w) \subseteq Covered(segments)
    BY <1>c, <1>2 DEF LinesOf
  <2>2. \A i \in 1 .. m : LinesOf(new[i]) = LinesOf(segments[i])
    BY <1>11 DEF LinesOf
  <2>3. \A l : l \in Covered(new) <=> l \in Covered(segments)
    BY <1>3, <1>7, <2>2, CoveredBy
  <2> QED BY <2>1, <2>3
<1>14. new # <<>> /\ new[Len(new)].end = w.end
  BY <1>c, <1>2, <1>6, <1>7, <1>m
<1> HIDE DEF m
<1> QED BY <1>5, <1>7, <1>10, <1>12, <1>13, <1>14, Repartition DEF w

\* A line whose window adds lines cuts the last segment, after the line that
\* segment is about and at the first line of the window or later.
LEMMA MergeCuts ==
    ASSUME NEW count, NEW T, NEW t, NEW segments, Onto(segments, count, T, t),
           t <= CoveredEnd(segments, WindowAt(count, t).start),
           CoveredEnd(segments, WindowAt(count, t).start) < WindowAt(count, t).end
    PROVE  Partition(MergeProposal(segments, WindowAt(count, t)), count, T \cup {t})
<1> DEFINE w == WindowAt(count, t)
           c == CoveredEnd(segments, w.start)
           m == Len(segments)
           g == segments[m]
           p == SplitPoint(g, t)
           left == Span(g.start, p - 1, g.target, {a \in g.extra : a < p})
           right == Span(p, w.end, t, {a \in {g.target} \cup g.extra : a >= p} \cup {t})
           kept == SubSeq(segments, 1, m - 1)
           new == SplitCarrier(segments, m, w, c)
<1>0. /\ count \in Nat /\ T \in SUBSET (1 .. count) /\ t \in 1 .. count
      /\ (\A u \in T : u < t) /\ Partition(segments, count, T)
  BY DEF Onto
<1>c. t <= c /\ c < w.end
  OBVIOUS
<1>1. /\ w.start \in 1 .. t /\ w.end \in t .. count /\ w.target = t
      /\ w.end - w.start < WindowLines
      /\ t - LinesBefore <= w.start /\ (w.start = 1 \/ w.start = t - LinesBefore)
  BY <1>0, WindowShape
<1>2. /\ T # {} /\ m \in 1 .. m /\ g.end = c /\ t \in LinesOf(g)
      /\ w.start <= c /\ c <= w.end /\ c \in Nat
      /\ w.start .. c \subseteq Covered(segments)
      /\ \A j \in 1 .. m - 1 : segments[j].end < t
      /\ Holder(segments, t) = m
  BY LastHolds
<1>3. /\ segments \in Seq(Segments) /\ m \in Nat /\ DOMAIN segments = 1 .. m
      /\ \A i \in 1 .. m : /\ segments[i] \in Segments /\ Carries(segments[i], T)
                           /\ segments[i].start \in Nat \ {0} /\ segments[i].end \in Nat
                           /\ segments[i].start <= segments[i].end
                           /\ segments[i].target \in T
                           /\ segments[i].target \in LinesOf(segments[i])
      /\ \A i, j \in 1 .. m : i < j => segments[i].end < segments[j].start
  BY <1>0, Segmented
<1>t. t \in Nat /\ t # NoTarget /\ w.start \in Nat \ {0} /\ w.start <= t /\ w.end \in Nat
  BY <1>0, <1>1 DEF NoTarget
<1>a. LinesBefore \in Nat /\ WindowLines \in Nat
  BY WindowAssumption
<1> HIDE DEF w, c
<1>4. /\ g \in Segments /\ Carries(g, T) /\ g.target \in T /\ g.target # NoTarget
      /\ g.start \in Nat \ {0} /\ g.end \in Nat /\ g.extra \in SUBSET Nat
      /\ g.target \in Nat /\ g.start <= g.target /\ g.target < t /\ g.end - g.start < WindowLines
      /\ Targets(g) = T \cap LinesOf(g)
  <2>1. /\ g \in Segments /\ Carries(g, T) /\ g.target \in T /\ g.target \in LinesOf(g)
        /\ g.start \in Nat \ {0} /\ g.end \in Nat
    BY <1>2, <1>3
  <2> HIDE DEF g
  <2>2. g.start <= g.target /\ g.target < t /\ g.target \in Nat
    BY <1>0, <2>1 DEF LinesOf
  <2> QED BY <2>1, <2>2 DEF Carries, Segments
<1>m. m \in Nat /\ (m - 1) \in Nat /\ m >= 1
  <2>1. m \in Nat
    BY <1>3
  <2> HIDE DEF m
  <2> QED BY <1>2, <2>1
<1> HIDE DEF g
<1>5. p \in Nat /\ g.target < p /\ p <= t /\ w.start <= p /\ g.start < p
  <2> DEFINE q == IF g.start + 1 >= t - LinesBefore THEN g.start + 1 ELSE t - LinesBefore
  <2>1. Max({g.start + 1, t - LinesBefore}) = q
    BY <1>4, <1>t, <1>a, GreaterOf
  <2>2. Min({g.target + 1, t}) = g.target + 1
    <3>1. Min({g.target + 1, t}) = IF g.target + 1 <= t THEN g.target + 1 ELSE t
      BY <1>4, <1>t, LesserOf
    <3> QED BY <1>4, <1>t, <3>1
  <2>3. p = IF g.target >= q THEN g.target + 1 ELSE q
    BY <2>1, <2>2 DEF SplitPoint
  <2> HIDE DEF p
  <2> QED BY <1>1, <1>4, <1>t, <1>a, <2>3
<1> HIDE DEF p
<1>6. MergeProposal(segments, w) = new
  <2>1. /\ t # NoTarget /\ t <= c /\ t > g.start /\ t # g.target /\ c < w.end
    BY <1>c, <1>t, <1>4
  <2> HIDE DEF new
  <2>2. Holder(segments, t) = m
    BY <1>2
  <2> QED BY <1>1, <2>1, <2>2 DEF MergeProposal, c, Holder, g, new
<1>7. new = kept \o <<left, right>> \o <<>>
  <2>1. SubSeq(segments, m + 1, Len(segments)) = <<>>
    BY <1>3 DEF m
  <2>2. g.target < p /\ c < w.end /\ w.target = t
    BY <1>5, <1>c, <1>1
  <2> HIDE DEF kept
  <2> QED BY <2>1, <2>2 DEF SplitCarrier, kept, g, p
<1>8. /\ left.start = g.start /\ left.end = p - 1 /\ left.target = g.target
      /\ left.extra = {a \in g.extra : a < p}
      /\ right.start = p /\ right.end = w.end /\ right.target = t
      /\ right.extra = {a \in {g.target} \cup g.extra : a >= p} \cup {t}
  BY DEF Span
<1>9. left \in Segments /\ right \in Segments
  <2>1. p - 1 \in Nat /\ p \in Nat \ {0}
    BY <1>4, <1>5
  <2>2. {a \in g.extra : a < p} \in SUBSET Nat
    BY <1>4
  <2>3. {a \in {g.target} \cup g.extra : a >= p} \cup {t} \in SUBSET Nat
    BY <1>4, <1>t
  <2> QED BY <1>4, <1>t, <2>1, <2>2, <2>3 DEF Segments, Span
<1>10. /\ new \in Seq(Segments) /\ Len(new) = m + 1 /\ DOMAIN new = 1 .. m + 1
       /\ \A i \in 1 .. m - 1 : new[i] = segments[i]
       /\ new[m] = left /\ new[m + 1] = right
  <2>1. kept \in Seq(Segments) /\ Len(kept) = m - 1 /\ \A i \in 1 .. m - 1 : kept[i] = segments[i]
    <3>1. m - 1 <= Len(segments)
      BY <1>m DEF m
    <3> HIDE DEF m
    <3>2. \A i \in 1 .. m - 1 : i \in 1 .. Len(segments)
      BY <1>m, <1>3 DEF m
    <3> QED BY <1>m, <1>3, <3>1, <3>2, SubSeqProperties
  <2> HIDE DEF kept, left, right, new, m
  <2> DEFINE pair == <<left, right>>
  <2>2. pair \in Seq(Segments) /\ Len(pair) = 2 /\ pair[1] = left /\ pair[2] = right
    BY <1>9
  <2> HIDE DEF pair
  <2>3. new = kept \o pair
    <3>1. kept \o pair \in Seq(Segments)
      BY <2>1, <2>2, ConcatProperties
    <3> QED BY <1>7, <3>1, ConcatEmptySeq DEF pair
  <2>c. /\ new \in Seq(Segments) /\ Len(new) = Len(kept) + Len(pair)
        /\ \A i \in 1 .. Len(kept) + Len(pair) :
              new[i] = IF i <= Len(kept) THEN kept[i] ELSE pair[i - Len(kept)]
    BY <2>1, <2>2, <2>3, ConcatProperties
  <2>4. new \in Seq(Segments) /\ Len(new) = m + 1
    BY <1>m, <2>1, <2>2, <2>c
  <2>5. \A i \in 1 .. m + 1 : new[i] = IF i <= m - 1 THEN kept[i] ELSE pair[i - (m - 1)]
    BY <1>m, <2>1, <2>2, <2>c
  <2>6. new[m] = left /\ new[m + 1] = right
    <3>1. m \in 1 .. m + 1 /\ m + 1 \in 1 .. m + 1 /\ ~(m <= m - 1) /\ ~(m + 1 <= m - 1)
          /\ m - (m - 1) = 1 /\ m + 1 - (m - 1) = 2
      BY <1>m
    <3> QED BY <2>2, <2>5, <3>1
  <2>7. \A i \in 1 .. m - 1 : i \in 1 .. m + 1 /\ i <= m - 1
    BY <1>m
  <2> QED BY <2>1, <2>4, <2>5, <2>6, <2>7, LenProperties
<1> HIDE DEF left, right, new, kept
<1>11. Carries(left, T \cup {t})
  <2>1. LinesOf(left) = g.start .. p - 1 /\ LinesOf(g) = g.start .. g.end
    BY <1>8 DEF LinesOf
  <2>2. T \cap LinesOf(left) = {a \in T \cap LinesOf(g) : a < p}
    <3>1. p - 1 <= g.end
      BY <1>2, <1>4, <1>5, <1>c, <1>t DEF g
    <3> QED BY <1>0, <1>4, <1>5, <2>1, <3>1
  <2>3. Targets(left) = {a \in Targets(g) : a < p}
    BY <1>4, <1>5, <1>8 DEF Targets
  <2>4. t \notin LinesOf(left)
    BY <1>4, <1>5, <1>t, <2>1
  <2>5. Targets(left) = (T \cup {t}) \cap LinesOf(left)
    BY <1>4, <2>2, <2>3, <2>4
  <2>6. left.start <= left.end /\ left.end - left.start < WindowLines
    <3>1. p - 1 <= g.end
      BY <1>2, <1>4, <1>5, <1>c, <1>t DEF g
    <3> QED BY <1>4, <1>5, <1>8, <1>a, <3>1
  <2> QED BY <1>4, <1>8, <1>9, <2>5, <2>6 DEF Carries
<1>12. Carries(right, T \cup {t})
  <2>1. LinesOf(right) = p .. w.end /\ LinesOf(g) = g.start .. g.end
    BY <1>8 DEF LinesOf
  <2>2. (T \cup {t}) \cap LinesOf(right) = {a \in T \cap LinesOf(g) : a >= p} \cup {t}
    <3>1. t <= g.end /\ g.end <= w.end /\ t <= w.end
      BY <1>2, <1>c, <1>1, <1>t DEF g, w
    <3> QED BY <1>0, <1>4, <1>5, <1>t, <2>1, <3>1
  <2>3. Targets(right) = {a \in Targets(g) : a >= p} \cup {t}
    BY <1>4, <1>5, <1>8, <1>t DEF Targets, NoTarget
  <2>4. right.start <= right.end /\ right.end - right.start < WindowLines
    BY <1>1, <1>5, <1>8, <1>a, <1>c, <1>t, <1>2
  <2> QED BY <1>4, <1>8, <1>9, <1>t, <2>2, <2>3, <2>4 DEF Carries
<1>13. \A i \in 1 .. m + 1 : i \in 1 .. m - 1 \/ i = m \/ i = m + 1
  <2> HIDE DEF m
  <2> QED BY <1>m
<1>14. \A i \in 1 .. m - 1 : /\ i \in 1 .. m /\ i < m
                             /\ Carries(segments[i], T) /\ segments[i].end < t
                             /\ segments[i].start \in Nat /\ segments[i].end \in Nat
                             /\ segments[i].end < g.start
  <2> SUFFICES ASSUME NEW i \in 1 .. m - 1
               PROVE /\ i \in 1 .. m /\ i < m
                     /\ Carries(segments[i], T) /\ segments[i].end < t
                     /\ segments[i].start \in Nat /\ segments[i].end \in Nat
                     /\ segments[i].end < g.start
    OBVIOUS
  <2>1. i \in 1 .. m /\ i < m /\ m \in 1 .. m
    <3> HIDE DEF m
    <3> QED BY <1>m
  <2> QED BY <1>2, <1>3, <2>1 DEF g
<1>15. \A i \in DOMAIN new : Carries(new[i], T \cup {t})
  <2> SUFFICES ASSUME NEW i \in 1 .. m - 1 PROVE Carries(segments[i], T \cup {t})
    BY <1>10, <1>11, <1>12, <1>13
  <2>1. t \notin LinesOf(segments[i])
    BY <1>t, <1>14 DEF LinesOf
  <2> QED BY <1>14, <2>1, CarriesMore
<1>16. \A i, j \in DOMAIN new : i < j => new[i].end < new[j].start
  <2> SUFFICES ASSUME NEW i \in 1 .. m + 1, NEW j \in 1 .. m + 1, i < j
               PROVE  new[i].end < new[j].start
    BY <1>10
  <2>1. CASE j \in 1 .. m - 1
    <3>1. i \in 1 .. m - 1
      <4> HIDE DEF m
      <4> QED BY <1>m, <2>1
    <3> QED BY <1>3, <1>10, <1>14, <2>1, <3>1
  <2>2. CASE j = m
    <3>1. i \in 1 .. m - 1
      <4> HIDE DEF m
      <4> QED BY <1>m, <2>2
    <3> QED BY <1>8, <1>10, <1>14, <2>2, <3>1
  <2>3. CASE j = m + 1
    <3>1. i \in 1 .. m - 1 \/ i = m
      <4> HIDE DEF m
      <4> QED BY <1>m, <2>3
    <3>2. CASE i \in 1 .. m - 1
      <4>1. segments[i].end < p
        BY <1>4, <1>5, <1>14, <3>2
      <4> QED BY <1>8, <1>10, <2>3, <3>2, <4>1
    <3>3. CASE i = m
      <4>1. p - 1 < p
        BY <1>5
      <4> QED BY <1>8, <1>10, <2>3, <3>3, <4>1
    <3> QED BY <3>1, <3>2, <3>3
  <2> QED BY <1>13, <2>1, <2>2, <2>3
<1>17. Covered(new) = Covered(segments) \cup LinesOf(w)
  <2>1. LinesOf(w) = w.start .. w.end /\ LinesOf(g) = g.start .. c
    BY <1>2 DEF LinesOf, g
  <2>2. \A l : l \in LinesOf(left) \/ l \in LinesOf(right) <=> l \in g.start .. w.end
    <3>1. LinesOf(left) = g.start .. p - 1 /\ LinesOf(right) = p .. w.end
      BY <1>8 DEF LinesOf
    <3>2. p <= w.end
      BY <1>5, <1>c, <1>t, <1>2
    <3> QED BY <1>4, <1>5, <1>t, <3>1, <3>2
  <2>3. \A l : l \in Covered(new) <=>
                 \/ \E i \in 1 .. m - 1 : l \in LinesOf(segments[i])
                 \/ l \in g.start .. w.end
    <3> TAKE l
    <3>1. l \in Covered(new) <=> \E i \in 1 .. m + 1 : l \in LinesOf(new[i])
      BY <1>10, CoveredBy
    <3>2. m \in 1 .. m + 1 /\ m + 1 \in 1 .. m + 1 /\ \A i \in 1 .. m - 1 : i \in 1 .. m + 1
      <4> HIDE DEF m
      <4> QED BY <1>m
    <3> QED BY <1>10, <1>13, <2>2, <3>1, <3>2
  <2>4. \A l : l \in Covered(segments) <=>
                 \/ \E i \in 1 .. m - 1 : l \in LinesOf(segments[i])
                 \/ l \in g.start .. c
    <3> TAKE l
    <3>1. l \in Covered(segments) <=> \E i \in 1 .. m : l \in LinesOf(segments[i])
      BY <1>3, CoveredBy
    <3>2. m \in 1 .. m /\ \A i \in 1 .. m : i \in 1 .. m - 1 \/ i = m
      <4> HIDE DEF m
      <4> QED BY <1>m
    <3> QED BY <1>14, <2>1, <3>1, <3>2 DEF g
  <2>5. \A l : l \in g.start .. w.end =>
                 l \in g.start .. c \/ l \in w.start .. w.end
    BY <1>2, <1>4, <1>t
  <2>6. \A l : l \in w.start .. w.end => l \in w.start .. c \/ l \in g.start .. w.end
    <3>1. g.start <= c
      BY <1>4, <1>c, <1>t, <1>2
    <3> QED BY <1>2, <1>4, <1>t, <3>1
  <2>7. \A l : l \in g.start .. c => l \in g.start .. w.end
    BY <1>2, <1>4, <1>c, <1>t
  <2>8. \A l : l \in w.start .. c => l \in Covered(segments)
    BY <1>2 DEF w
  <2>9. \A l : l \in Covered(new) <=> l \in Covered(segments) \/ l \in w.start .. w.end
    BY <2>3, <2>4, <2>5, <2>6, <2>7, <2>8
  <2> QED BY <2>1, <2>9
<1>18. new # <<>> /\ new[Len(new)].end = w.end
  <2> HIDE DEF m
  <2> QED BY <1>m, <1>8, <1>10, EmptySeq
<1> HIDE DEF m
<1> QED BY <1>6, <1>10, <1>15, <1>16, <1>17, <1>18, Repartition DEF w

LEMMA MergeStep ==
    ASSUME NEW count, NEW T, NEW t, NEW segments, Onto(segments, count, T, t)
    PROVE  Partition(MergeProposal(segments, WindowAt(count, t)), count, T \cup {t})
<1> DEFINE w == WindowAt(count, t)
           c == CoveredEnd(segments, w.start)
           e == Reach(segments, T)
<1>1. /\ count \in Nat /\ T \in SUBSET (1 .. count) /\ t \in 1 .. count
  BY DEF Onto
<1>2. w.start \in 1 .. t /\ w.end \in t .. count
  BY <1>1, WindowShape
<1>3. /\ e \in Nat /\ e <= w.end
      /\ c = IF w.start <= e THEN e ELSE w.start - 1
  BY CoveredBefore
<1> HIDE DEF e
<1>4. CASE t > c
  BY <1>4, MergeBeyond
<1>5. CASE t <= c /\ c < w.end
  BY <1>5, MergeCuts
<1>6. CASE t <= c /\ c = w.end
  BY <1>6, MergeJoins
<1> HIDE DEF c, w
<1>7. t > c \/ (t <= c /\ c < w.end) \/ (t <= c /\ c = w.end)
  BY <1>1, <1>2, <1>3
<1> QED BY <1>4, <1>5, <1>6, <1>7 DEF c, w

LEMMA NoLines ==
    ASSUME NEW count
    PROVE  Partition(<<>>, count, {})
<1>1. <<>> \in Seq(Segments) /\ DOMAIN <<>> = {}
  OBVIOUS
<1>2. Covered(<<>>) = {} /\ Spread(count, {}) = {}
  BY DEF Covered, Spread
<1> QED BY <1>1, <1>2 DEF Partition

\* The windows of these lines, merged in the order of the lines.
LEMMA MergedWindows ==
    ASSUME NEW count \in Nat, NEW located \in SUBSET (1 .. count),
           NEW windows, windows = [i \in DOMAIN Sorted(located) |-> WindowAt(count, Sorted(located)[i])]
    PROVE  /\ Partition(MergeProposals(windows), count, located)
           /\ Covered(windows) = Spread(count, located)
<1> DEFINE lines == Sorted(located)
           n == Cardinality(located)
           At(s) == {lines[k] : k \in s}
<1>1. located \in SUBSET Nat /\ IsFiniteSet(located)
  <2>1. IsFiniteSet(1 .. count)
    BY FS_Interval
  <2>2. IsFiniteSet(located)
    BY <2>1, FS_Subset
  <2> QED BY <2>2
<1>2. /\ n \in Nat /\ lines \in Seq(located) /\ DOMAIN lines = 1 .. n
      /\ \A j, k \in 1 .. n : j < k => lines[j] < lines[k]
      /\ \A l \in located : \E k \in 1 .. n : lines[k] = l
  BY <1>1, SortedLines
<1>3. \A k \in 1 .. n : lines[k] \in located
  BY <1>2, ElementOfSeq
<1> HIDE DEF lines, n
<1>4. DOMAIN windows = 1 .. n /\ \A k \in 1 .. n : windows[k] = WindowAt(count, lines[k])
  BY <1>2 DEF lines
<1>5. At(1 .. n) = located
  BY <1>2, <1>3
<1> DEFINE V == Seq(Segments)
           G == {p \in (SUBSET (1 .. n)) \X V : Partition(p[2], count, At(p[1]))}
<1>6. <<{}, <<>>>> \in G
  <2>1. At({}) = {} /\ <<>> \in V
    OBVIOUS
  <2> QED BY <2>1, NoLines
<1>7. ASSUME NEW s \in SUBSET (1 .. n), NEW v \in V, s # {}, <<s \ {Max(s)}, v>> \in G
      PROVE  <<s, MergeProposal(v, windows[Max(s)])>> \in G
  <2> DEFINE last == Max(s)
             r == s \ {last}
             t == lines[last]
  <2>1. last \in s /\ \A k \in s : k <= last
    <3>1. s \in SUBSET (0 .. n)
      OBVIOUS
    <3> QED BY <1>2, <1>7, <3>1, Greatest
  <2>2. Partition(v, count, At(r))
    BY <1>7
  <2> HIDE DEF last
  <2>3. At(r) \in SUBSET (1 .. count) /\ t \in 1 .. count
    BY <1>3, <2>1
  <2>4. \A u \in At(r) : u < t
    <3> SUFFICES ASSUME NEW k \in r PROVE lines[k] < t
      OBVIOUS
    <3>1. k < last /\ k \in 1 .. n /\ last \in 1 .. n
      BY <2>1
    <3> QED BY <1>2, <3>1
  <2>5. At(s) = At(r) \cup {t}
    BY <2>1
  <2> HIDE DEF t, r, At
  <2>6. Onto(v, count, At(r), t)
    BY <2>2, <2>3, <2>4 DEF Onto
  <2>7. Partition(MergeProposal(v, WindowAt(count, t)), count, At(s))
    BY <2>5, <2>6, MergeStep
  <2>8. windows[last] = WindowAt(count, t)
    BY <1>4, <2>1 DEF t
  <2>9. Partition(MergeProposal(v, windows[last]), count, At(s))
    BY <2>7, <2>8
  <2>10. MergeProposal(v, windows[last]) \in V
    BY <2>9 DEF Partition
  <2> DEFINE x == MergeProposal(v, windows[last])
  <2>11. x \in V /\ Partition(x, count, At(s))
    BY <2>9, <2>10
  <2> HIDE DEF x
  <2>12. <<s, x>> \in G
    <3> HIDE DEF V
    <3> QED BY <2>11
  <2> QED BY <2>12 DEF last, x
<1>8. <<1 .. n, MergeProposals(windows)>> \in G
  <2>1. G \in SUBSET ((SUBSET (1 .. n)) \X V)
    OBVIOUS
  <2>2. \A s \in SUBSET (1 .. n), v \in V :
           s # {} /\ <<s \ {Max(s)}, v>> \in G => <<s, MergeProposal(v, windows[Max(s)])>> \in G
    BY <1>7
  <2> HIDE DEF G, V
  <2> QED BY <1>2, <1>4, <1>6, <2>1, <2>2, MergeFold
<1>9. Partition(MergeProposals(windows), count, located)
  BY <1>5, <1>8
<1>10. Covered(windows) = Spread(count, located)
  <2>1. \A l : l \in Covered(windows) <=> \E k \in 1 .. n : l \in LinesOf(WindowAt(count, lines[k]))
    BY <1>4, CoveredBy
  <2>2. \A l : l \in Spread(count, located) <=> \E x \in located : l \in LinesOf(WindowAt(count, x))
    BY DEF Spread
  <2>3. \A l : l \in Covered(windows) <=> l \in Spread(count, located)
    BY <1>2, <1>3, <2>1, <2>2
  <2> QED BY <2>3
<1> QED BY <1>9, <1>10

\* A file that holds none of the symbols is opened at its first line.
LEMMA FirstWindow ==
    ASSUME NEW count \in Nat \ {0}, NEW windows,
           windows = <<Span(1, Min({count, WindowLines}), NoTarget, {})>>
    PROVE  /\ MergeProposals(windows) = windows
           /\ windows[1].end \in 1 .. WindowLines /\ windows[1].end <= count
<1> DEFINE w == Span(1, Min({count, WindowLines}), NoTarget, {})
<1>1. w.start = 1 /\ w.target = NoTarget /\ w.end \in 1 .. WindowLines /\ w.end <= count
  <2>1. WindowLines \in Nat \ {0}
    BY WindowAssumption
  <2>2. Min({count, WindowLines}) = IF count <= WindowLines THEN count ELSE WindowLines
    BY <2>1, LesserOf
  <2>3. Min({count, WindowLines}) \in 1 .. WindowLines /\ Min({count, WindowLines}) <= count
    BY <2>1, <2>2
  <2> QED BY <2>3 DEF Span
<1>2. w = Span(1, w.end, NoTarget, {})
  BY DEF Span
<1>3. windows = <<w>> /\ DOMAIN windows = 1 .. 1 /\ windows[1] = w
  OBVIOUS
<1> HIDE DEF w
<1>4. MergeProposal(<<>>, w) = <<w>>
  <2>1. CoveredEnd(<<>>, 1) = 0
    <3>1. Covered(<<>>) = {}
      BY DEF Covered
    <3>2. Covered(<<>>) \subseteq 0 .. 0 /\ 1 .. 0 \subseteq Covered(<<>>)
      BY <3>1
    <3>3. CoveredEnd(<<>>, 1) = IF 1 <= 0 THEN 0 ELSE 1 - 1
      BY <3>2, CoveredEndIs
    <3> QED BY <3>3
  <2>2. ~(0 >= w.end)
    BY <1>1
  <2>3. MergeProposal(<<>>, w) = Append(<<>>, Span(0 + 1, w.end, NoTarget, {}))
    BY <1>1, <2>1, <2>2 DEF MergeProposal
  <2> QED BY <1>2, <2>3
<1> DEFINE G == {<<{}, <<>>>>, <<{1}, <<w>>>>}
           V == {<<>>, <<w>>}
<1>5. 1 .. 1 = {1} /\ SUBSET {1} = {{}, {1}}
  OBVIOUS
<1>6. Max({1}) = 1
  BY MaxIs
<1>7. ASSUME NEW s \in SUBSET (1 .. 1), NEW v \in V, s # {}, <<s \ {Max(s)}, v>> \in G
      PROVE  <<s, MergeProposal(v, windows[Max(s)])>> \in G
  <2>1. s = {1}
    BY <1>5, <1>7
  <2>2. s \ {Max(s)} = {}
    BY <1>6, <2>1
  <2>3. v = <<>>
    BY <1>7, <2>2
  <2> QED BY <1>3, <1>4, <1>6, <2>1, <2>3
<1>8. <<1 .. 1, MergeProposals(windows)>> \in G
  <2>1. G \in SUBSET ((SUBSET (1 .. 1)) \X V) /\ <<{}, <<>>>> \in G
    BY <1>5
  <2>2. \A s \in SUBSET (1 .. 1), v \in V :
           s # {} /\ <<s \ {Max(s)}, v>> \in G => <<s, MergeProposal(v, windows[Max(s)])>> \in G
    BY <1>7
  <2> HIDE DEF G, V
  <2> QED BY <1>3, <2>1, <2>2, MergeFold
<1>9. MergeProposals(windows) = <<w>>
  BY <1>5, <1>8
<1> QED BY <1>1, <1>3, <1>9

\* What holds of the windows of a partition holds of its segments.
LEMMA PartitionHolds ==
    ASSUME NEW count \in Nat, NEW located \in SUBSET (1 .. count), NEW spans, NEW windows,
           Partition(spans, count, located), Covered(windows) = Spread(count, located)
    PROVE  /\ \A i \in DOMAIN spans :
                 /\ Cardinality(LinesOf(spans[i])) \in 1 .. WindowLines
                 /\ Targets(spans[i]) = located \cap LinesOf(spans[i])
                 /\ spans[i].target = NoTarget => Targets(spans[i]) = {}
                 /\ \A j \in 1 .. i - 1 : LinesOf(spans[j]) \cap LinesOf(spans[i]) = {}
           /\ Covered(spans) = Covered(windows)
           /\ located \subseteq Covered(spans)
<1>1. /\ spans \in Seq(Segments) /\ DOMAIN spans = 1 .. Len(spans) /\ Len(spans) \in Nat
      /\ \A i \in 1 .. Len(spans) : /\ Carries(spans[i], located)
                                    /\ spans[i].start \in Nat /\ spans[i].end \in Nat
                                    /\ spans[i].start <= spans[i].end
      /\ \A i, j \in 1 .. Len(spans) : i < j => spans[i].end < spans[j].start
  BY Segmented
<1>2. Covered(spans) = Covered(windows) /\ located \subseteq Covered(spans)
  BY MergedLines DEF Partition
<1> DEFINE len == Len(spans)
<1> HIDE DEF len
<1>3. ASSUME NEW i \in 1 .. len
      PROVE  /\ Cardinality(LinesOf(spans[i])) \in 1 .. WindowLines
             /\ Targets(spans[i]) = located \cap LinesOf(spans[i])
             /\ spans[i].target = NoTarget => Targets(spans[i]) = {}
             /\ \A j \in 1 .. i - 1 : LinesOf(spans[j]) \cap LinesOf(spans[i]) = {}
  <2> DEFINE g == spans[i]
             a == g.start
             b == g.end
  <2>1. /\ Carries(g, located) /\ a \in Nat /\ b \in Nat /\ a <= b
    BY <1>1 DEF len
  <2>2. /\ b - a < WindowLines /\ g.target # NoTarget
        /\ Targets(g) = located \cap LinesOf(g)
    BY <2>1 DEF Carries
  <2>3. Cardinality(LinesOf(g)) = b - a + 1
    <3> HIDE DEF a, b
    <3>1. Cardinality(a .. b) = IF a > b THEN 0 ELSE b - a + 1
      BY <2>1, FS_Interval
    <3>2. LinesOf(g) = a .. b
      BY DEF LinesOf, a, b
    <3> QED BY <2>1, <3>1, <3>2
  <2>4. Cardinality(LinesOf(g)) \in 1 .. WindowLines
    <3> HIDE DEF a, b, g
    <3>1. WindowLines \in Nat
      BY WindowAssumption
    <3> QED BY <2>1, <2>2, <2>3, <3>1
  <2>5. ASSUME NEW j \in 1 .. i - 1 PROVE LinesOf(spans[j]) \cap LinesOf(g) = {}
    <3>1. j \in 1 .. len /\ j < i
      BY <1>1 DEF len
    <3>2. spans[j].end < a /\ spans[j].end \in Nat /\ spans[j].start \in Nat
      BY <1>1, <3>1 DEF len
    <3> QED BY <2>1, <3>2 DEF LinesOf
  <2> QED BY <2>2, <2>4, <2>5
<1> QED BY <1>1, <1>2, <1>3 DEF len

\* Every candidate file of a request that was accepted.
LEMMA WindowsOfFile ==
    ASSUME NEW c, c.file \in DOMAIN Index
    PROVE  LET spans == SpansOf(c)
           IN  /\ \A i \in DOMAIN spans :
                     /\ Cardinality(LinesOf(spans[i])) \in 1 .. WindowLines
                     /\ Targets(spans[i]) = Located(c) \cap LinesOf(spans[i])
                     /\ spans[i].target = NoTarget => Targets(spans[i]) = {}
                     /\ \A j \in 1 .. i - 1 : LinesOf(spans[j]) \cap LinesOf(spans[i]) = {}
               /\ Covered(spans) = Covered(SelectWindows(c))
               /\ Located(c) \subseteq Covered(spans)
               /\ spans \in Seq(Segments)
               /\ Covered(spans) \subseteq 1 .. Len(Index[c.file].sizes)
<1> DEFINE sizes == Index[c.file].sizes
           count == Len(sizes)
           located == Located(c)
           windows == SelectWindows(c)
           spans == MergeProposals(windows)
<1>1. SpansOf(c) = spans
  BY DEF SpansOf
<1>2. count \in Nat /\ DOMAIN sizes = 1 .. count
  <2>1. sizes \in Seq(Nat \ {0})
    BY IndexAssumption
  <2> HIDE DEF sizes
  <2> QED BY <2>1, LenProperties
<1>3. located \in SUBSET (1 .. count)
  <2>1. \A s : LineOf(c.file, s) # NoTarget => LineOf(c.file, s) \in DOMAIN sizes
    BY IndexAssumption DEF LineOf
  <2> QED BY <1>2, <2>1 DEF Located
<1> DEFINE opened == [i \in DOMAIN Sorted(located) |-> WindowAt(count, Sorted(located)[i])]
           first == <<Span(1, Min({count, WindowLines}), NoTarget, {})>>
<1>4. windows = CASE count = 0 -> <<>>
                  [] Sorted(located) # <<>> -> opened
                  [] OTHER -> first
  BY DEF SelectWindows
<1> HIDE DEF count, located, windows
<1>5. CASE located # {} \/ count = 0
  <2>1. windows = opened
    <3>1. located \in SUBSET Nat /\ IsFiniteSet(located)
      <4>1. IsFiniteSet(1 .. count)
        BY <1>2, FS_Interval
      <4>2. IsFiniteSet(located)
        BY <1>3, <4>1, FS_Subset
      <4> QED BY <1>2, <1>3, <4>2
    <3>2. /\ DOMAIN Sorted(located) = 1 .. Cardinality(located) /\ Sorted(located) \in Seq(located)
          /\ \A l \in located : \E k \in 1 .. Cardinality(located) : Sorted(located)[k] = l
      BY <3>1, SortedLines
    <3>3. CASE located # {} /\ count # 0
      <4>1. Sorted(located) # <<>>
        <5>1. PICK l \in located : TRUE
          BY <3>3
        <5>2. \E k \in DOMAIN Sorted(located) : TRUE
          BY <3>2, <5>1
        <5>3. DOMAIN <<>> = {}
          OBVIOUS
        <5> QED BY <5>2, <5>3
      <4> QED BY <1>4, <3>3, <4>1
    <3>4. CASE count = 0
      <4>1. located = {}
        BY <1>3, <3>4
      <4>2. Sorted(located) = <<>>
        BY <3>2, <4>1
      <4> QED BY <1>4, <3>4, <4>2
    <3> QED BY <1>5, <3>3, <3>4
  <2>2. Partition(spans, count, located) /\ Covered(windows) = Spread(count, located)
    <3> HIDE DEF opened
    <3>1. windows = opened
      BY <2>1
    <3> QED BY <1>2, <1>3, <3>1, MergedWindows DEF opened
  <2> HIDE DEF opened, spans
  <2>3. spans \in Seq(Segments)
    BY <2>2 DEF Partition
  <2>4. Covered(spans) \subseteq 1 .. count
    <3>1. ASSUME NEW t \in located PROVE LinesOf(WindowAt(count, t)) \subseteq 1 .. count
      <4> DEFINE w == WindowAt(count, t)
      <4>1. t \in 1 .. count
        BY <1>3
      <4>2. w.start \in 1 .. t /\ w.end \in t .. count
        <5> HIDE DEF w
        <5> QED BY <1>2, <4>1, WindowShape DEF w
      <4> HIDE DEF w
      <4>3. \A l \in w.start .. w.end : l \in 1 .. count
        BY <1>2, <4>1, <4>2
      <4> QED BY <4>3 DEF LinesOf, w
    <3> QED BY <2>2, <3>1 DEF Partition, Spread
  <2> QED BY <1>1, <1>2, <1>3, <2>2, <2>3, <2>4, PartitionHolds DEF located, windows, count
<1>6. CASE located = {} /\ count # 0
  <2>1. Sorted(located) = <<>>
    <3>1. Cardinality({}) = 0
      BY FS_EmptySet
    <3> QED BY <1>6, <3>1 DEF Sorted
  <2>2. windows = first
    BY <1>4, <1>6, <2>1
  <2>3. spans = windows /\ windows[1].end \in 1 .. WindowLines /\ windows[1].end <= count
    <3> HIDE DEF first
    <3> QED BY <1>2, <1>6, <2>2, FirstWindow DEF first
  <2>4. /\ DOMAIN windows = {1} /\ windows[1].start = 1
        /\ windows[1].target = NoTarget /\ windows[1].extra = {}
    BY <2>2 DEF Span
  <2>5. LinesOf(windows[1]) = 1 .. windows[1].end /\ Targets(windows[1]) = {}
    BY <2>4 DEF LinesOf, Targets
  <2>6. Cardinality(LinesOf(windows[1])) \in 1 .. WindowLines
    <3> DEFINE b == windows[1].end
    <3>1. b \in 1 .. WindowLines /\ WindowLines \in Nat
      BY <2>3, WindowAssumption
    <3> HIDE DEF b
    <3>2. Cardinality(1 .. b) = IF 1 > b THEN 0 ELSE b - 1 + 1
      BY <3>1, FS_Interval
    <3> QED BY <2>5, <3>1, <3>2 DEF b
  <2> HIDE DEF first, spans
  <2>7. \A i \in DOMAIN spans :
           /\ i = 1
           /\ Cardinality(LinesOf(spans[i])) \in 1 .. WindowLines
           /\ Targets(spans[i]) = located \cap LinesOf(spans[i])
           /\ Targets(spans[i]) = {}
    BY <1>6, <2>3, <2>4, <2>5, <2>6
  <2>8. \A j \in 1 .. 1 - 1 : FALSE
    OBVIOUS
  <2>9. spans \in Seq(Segments) /\ Covered(spans) \subseteq 1 .. count
    <3>1. windows[1] \in Segments
      <4>1. windows[1].end \in Nat
        BY <2>3
      <4>2. windows[1] = [start |-> 1, end |-> windows[1].end, target |-> 0, extra |-> {}]
        BY <2>2 DEF Span, NoTarget, first
      <4> QED BY <4>1, <4>2 DEF Segments
    <3>2. windows \in Seq(Segments)
      <4> DEFINE w == windows[1]
      <4>1. windows = <<w>> /\ w \in Segments
        BY <2>2, <3>1 DEF first
      <4> HIDE DEF w
      <4> QED BY <4>1
    <3>3. \A l \in 1 .. windows[1].end : l \in 1 .. count
      BY <1>2, <2>3
    <3>4. Covered(windows) \subseteq 1 .. count
      BY <2>4, <2>5, <3>3 DEF Covered
    <3> QED BY <2>3, <3>2, <3>4
  <2> QED BY <1>1, <1>6, <2>3, <2>7, <2>8, <2>9 DEF located, windows, count
<1> QED BY <1>5, <1>6

-----------------------------------------------------------------------------
(* The bytes of a range of lines.                                          *)

\* A total folds over the counts.
LEMMA TotalFold ==
    ASSUME NEW n \in Nat, NEW counts, DOMAIN counts = 1 .. n,
           NEW V, NEW G \in SUBSET ((SUBSET (1 .. n)) \X V), <<{}, 0>> \in G,
           \A s \in SUBSET (1 .. n), v \in V :
              s # {} /\ <<s \ {Max(s)}, v>> \in G => <<s, v + counts[Max(s)]>> \in G
    PROVE  <<1 .. n, Total(counts)>> \in G
<1> DEFINE S == 1 .. n
           step == [p \in (SUBSET S) \X V |-> p[2] + counts[Max(p[1])]]
           Unfolded(iter) ==
               iter = [s \in SUBSET S |->
                          IF s = {} THEN 0 ELSE iter[s \ {Max(s)}] + counts[Max(s)]]
           whole == CHOOSE iter : Unfolded(iter)
<1>1. \A s \in SUBSET S, v \in V : step[<<s, v>>] = v + counts[Max(s)]
  OBVIOUS
<1>2. LastIn(n) \in Picks(S) /\ IsFiniteSet(S)
  BY LastInPicks
<1>3. \A s \in SUBSET S : s # {} => LastIn(n)[s] = Max(s)
  BY DEF LastIn
<1>4. Total(counts) = whole[S]
  BY DEF Total, FoldLeft, MapThenFoldSet
<1>5. \A s \in SUBSET S, v \in V :
         s # {} /\ <<s \ {Max(s)}, v>> \in G => <<s, v + counts[Max(s)]>> \in G
  OBVIOUS
<1> HIDE DEF step, S
<1>6. \A s \in SUBSET S, v \in V :
         s # {} /\ <<s \ {LastIn(n)[s]}, v>> \in G => <<s, step[<<s, v>>]>> \in G
  BY <1>1, <1>3, <1>5
<1>7. G \in SUBSET ((SUBSET S) \X V)
  BY DEF S
<1>s. Stays(G, S, V, LastIn(n), 0, step)
  BY <1>6, <1>7 DEF Stays
<1>8. PICK iter \in [SUBSET S -> V] : Unrolls(iter, G, S, LastIn(n), 0, step)
  BY <1>2, <1>s, Folding
<1>u. /\ iter[{}] = 0
      /\ \A s \in SUBSET S :
            /\ <<s, iter[s]>> \in G
            /\ s # {} => iter[s] = step[<<s, iter[s \ {LastIn(n)[s]}]>>]
  BY <1>8 DEF Unrolls
<1>9. \A s \in SUBSET S : s # {} => iter[s] = iter[s \ {Max(s)}] + counts[Max(s)]
  <2> SUFFICES ASSUME NEW s \in SUBSET S, s # {}
               PROVE  iter[s] = iter[s \ {Max(s)}] + counts[Max(s)]
    OBVIOUS
  <2>1. iter[s \ {Max(s)}] \in V
    BY <1>8
  <2> QED BY <1>1, <1>3, <1>u, <2>1
<1>10. Unfolded(iter)
  BY <1>8, <1>u, <1>9
<1>11. Unfolded(whole)
  BY <1>10
<1> HIDE DEF whole
<1> DEFINE K == {s \in SUBSET S : <<s, whole[s]>> \in G}
<1>12. {} \in K
  BY <1>11
<1>13. \A s \in SUBSET S : s # {} /\ s \ {LastIn(n)[s]} \in K => s \in K
  <2> SUFFICES ASSUME NEW s \in SUBSET S, s # {}, <<s \ {Max(s)}, whole[s \ {Max(s)}]>> \in G
               PROVE  <<s, whole[s]>> \in G
    BY <1>3
  <2>1. whole[s] = whole[s \ {Max(s)}] + counts[Max(s)]
    BY <1>11
  <2>2. whole[s \ {Max(s)}] \in V
    BY <1>7
  <2> QED BY <1>5, <2>1, <2>2
<1> HIDE DEF K
<1>14. SUBSET S \subseteq K
  BY <1>2, <1>12, <1>13, Shrinking
<1>15. <<S, whole[S]>> \in G
  BY <1>14 DEF K
<1> QED BY <1>4, <1>15 DEF S

\* The counts before a position, summed.
Offsets(counts, sums) ==
    /\ sums \in [0 .. Len(counts) -> Nat] /\ sums[0] = 0
    /\ \A k \in 1 .. Len(counts) : sums[k] = sums[k - 1] + counts[k]

LEMMA OffsetsExist ==
    ASSUME NEW counts \in Seq(Nat)
    PROVE  \E sums : Offsets(counts, sums)
<1> DEFINE len == Len(counts)
           Upto(n, sums) == /\ sums \in [0 .. n -> Nat] /\ sums[0] = 0
                            /\ \A k \in 1 .. n : sums[k] = sums[k - 1] + counts[k]
           J == {n \in Nat : n <= len => \E sums : Upto(n, sums)}
<1>1. len \in Nat /\ DOMAIN counts = 1 .. len /\ \A k \in 1 .. len : counts[k] \in Nat
  BY LenProperties, ElementOfSeq
<1> HIDE DEF len
<1>2. 0 \in J
  <2> DEFINE none == [k \in 0 .. 0 |-> 0]
  <2>1. Upto(0, none)
    OBVIOUS
  <2> QED BY <2>1
<1>3. \A n \in Nat : n \in J => n + 1 \in J
  <2> SUFFICES ASSUME NEW n \in Nat, n \in J, n + 1 <= len
               PROVE  \E more : Upto(n + 1, more)
    <3> HIDE DEF Upto
    <3> QED OBVIOUS
  <2>0. PICK sums : Upto(n, sums)
    <3> HIDE DEF Upto
    <3>1. n <= len
      BY <1>1
    <3> QED BY <3>1
  <2> DEFINE more == [k \in 0 .. n + 1 |-> IF k = n + 1 THEN sums[n] + counts[n + 1] ELSE sums[k]]
  <2>1. counts[n + 1] \in Nat /\ sums[n] \in Nat
    <3>1. n + 1 \in 1 .. len /\ n \in 0 .. n /\ sums \in [0 .. n -> Nat]
      BY <1>1, <2>0
    <3> QED BY <1>1, <3>1
  <2>2. more \in [0 .. n + 1 -> Nat] /\ more[0] = 0
    BY <2>0, <2>1
  <2>3. \A k \in 1 .. n + 1 : more[k] = more[k - 1] + counts[k]
    <3> SUFFICES ASSUME NEW k \in 1 .. n + 1 PROVE more[k] = more[k - 1] + counts[k]
      OBVIOUS
    <3>1. k \in 0 .. n + 1 /\ k - 1 \in 0 .. n + 1 /\ k - 1 # n + 1
      OBVIOUS
    <3>2. more[k - 1] = sums[k - 1] /\ more[k] = IF k = n + 1 THEN sums[n] + counts[n + 1] ELSE sums[k]
      BY <3>1
    <3>3. CASE k = n + 1
      BY <3>2, <3>3
    <3>4. CASE k # n + 1
      <4>1. k \in 1 .. n
        BY <3>4
      <4> QED BY <2>0, <3>2, <3>4, <4>1
    <3> QED BY <3>3, <3>4
  <2> QED BY <2>2, <2>3
<1> HIDE DEF J
<1>4. len \in J
  BY <1>1, <1>2, <1>3, Counting
<1>5. \E sums : Upto(len, sums)
  <2> HIDE DEF Upto
  <2>1. len \in Nat /\ (len <= len => \E sums : Upto(len, sums))
    BY <1>4 DEF J
  <2> QED BY <2>1
<1> QED BY <1>5 DEF Offsets, len

LEMMA TotalIs ==
    ASSUME NEW counts \in Seq(Nat), NEW sums, Offsets(counts, sums)
    PROVE  Total(counts) = sums[Len(counts)]
<1> DEFINE len == Len(counts)
           V == Nat
           G == {p \in (SUBSET (1 .. len)) \X V : \A k \in 0 .. len : p[1] = 1 .. k => p[2] = sums[k]}
<1>1. len \in Nat /\ DOMAIN counts = 1 .. len /\ \A k \in 1 .. len : counts[k] \in Nat
  BY LenProperties, ElementOfSeq
<1>2. /\ sums \in [0 .. len -> Nat] /\ sums[0] = 0
      /\ \A k \in 1 .. len : sums[k] = sums[k - 1] + counts[k]
  BY DEF Offsets
<1> HIDE DEF len
<1>3. <<{}, 0>> \in G
  <2>1. \A k \in 0 .. len : {} = 1 .. k => k = 0
    <3> SUFFICES ASSUME NEW k \in 0 .. len, {} = 1 .. k, k # 0 PROVE FALSE
      OBVIOUS
    <3>1. 1 \in 1 .. k
      BY <1>1
    <3> QED BY <3>1
  <2> QED BY <1>2, <2>1
<1>4. ASSUME NEW s \in SUBSET (1 .. len), NEW v \in V, s # {}, <<s \ {Max(s)}, v>> \in G
      PROVE  <<s, v + counts[Max(s)]>> \in G
  <2> DEFINE m == Max(s)
  <2>1. m \in s /\ \A y \in s : y <= m
    <3>1. s \in SUBSET (0 .. len)
      BY <1>1
    <3> QED BY <1>1, <1>4, <3>1, Greatest
  <2>2. \A k \in 0 .. len : s \ {m} = 1 .. k => v = sums[k]
    BY <1>4
  <2> HIDE DEF m
  <2>3. v + counts[m] \in V
    BY <1>1, <2>1
  <2>4. ASSUME NEW k \in 0 .. len, s = 1 .. k PROVE v + counts[m] = sums[k]
    <3>1. k # 0 /\ k \in s
      BY <1>1, <1>4, <2>4
    <3>2. m = k
      BY <1>1, <2>1, <2>4, <3>1
    <3>3. s \ {m} = 1 .. k - 1 /\ k - 1 \in 0 .. len /\ k \in 1 .. len
      BY <1>1, <2>4, <3>1, <3>2
    <3> QED BY <1>2, <2>2, <3>2, <3>3
  <2> QED BY <2>3, <2>4 DEF m
<1>5. <<1 .. len, Total(counts)>> \in G
  <2>1. \A s \in SUBSET (1 .. len), v \in V :
           s # {} /\ <<s \ {Max(s)}, v>> \in G => <<s, v + counts[Max(s)]>> \in G
    BY <1>4
  <2>2. G \in SUBSET ((SUBSET (1 .. len)) \X V)
    OBVIOUS
  <2> HIDE DEF G, V
  <2> QED BY <1>1, <1>3, <2>1, <2>2, TotalFold
<1>6. len \in 0 .. len
  BY <1>1
<1> QED BY <1>5, <1>6 DEF len

LEMMA OffsetsGrow ==
    ASSUME NEW counts \in Seq(Nat \ {0}), NEW sums, Offsets(counts, sums)
    PROVE  \A i, j \in 0 .. Len(counts) : i < j => sums[i] < sums[j]
<1> DEFINE len == Len(counts)
           J == {n \in Nat : n <= len => \A i \in 0 .. n : i < n => sums[i] < sums[n]}
<1>1. len \in Nat /\ DOMAIN counts = 1 .. len /\ \A k \in 1 .. len : counts[k] \in Nat \ {0}
  BY LenProperties, ElementOfSeq
<1>2. /\ sums \in [0 .. len -> Nat]
      /\ \A k \in 1 .. len : sums[k] = sums[k - 1] + counts[k]
  BY DEF Offsets
<1> HIDE DEF len
<1>3. 0 \in J
  OBVIOUS
<1>4. \A n \in Nat : n \in J => n + 1 \in J
  <2> SUFFICES ASSUME NEW n \in Nat, n \in J, n + 1 <= len
               PROVE  \A i \in 0 .. n + 1 : i < n + 1 => sums[i] < sums[n + 1]
    OBVIOUS
  <2>0. \A i \in 0 .. n : i < n => sums[i] < sums[n]
    BY <1>1
  <2> HIDE DEF J
  <2> SUFFICES ASSUME NEW i \in 0 .. n + 1, i < n + 1
               PROVE  sums[i] < sums[n + 1]
    OBVIOUS
  <2>1. n + 1 \in 1 .. len /\ i \in 0 .. n /\ n \in 0 .. len /\ i \in 0 .. len
    BY <1>1
  <2>2. sums[n] < sums[n + 1] /\ sums[n] \in Nat /\ sums[n + 1] \in Nat /\ sums[i] \in Nat
    <3>1. sums[n + 1] = sums[n] + counts[n + 1] /\ counts[n + 1] \in Nat \ {0} /\ sums[n] \in Nat
      BY <1>1, <1>2, <2>1
    <3>2. sums[i] \in Nat
      BY <1>2, <2>1
    <3> QED BY <3>1, <3>2
  <2>3. i < n \/ i = n
    BY <2>1
  <2> QED BY <2>0, <2>1, <2>2, <2>3
<1>5. Nat \subseteq J
  <2> HIDE DEF J
  <2> QED BY <1>3, <1>4, Counting
<1> QED BY <1>1, <1>5 DEF len

\* The bytes of a range are what comes before its end and not before its start.
LEMMA BytesAre ==
    ASSUME NEW sizes \in Seq(Nat \ {0}), NEW sums, Offsets(sizes, sums),
           NEW a \in 1 .. Len(sizes) + 1, NEW b \in a - 1 .. Len(sizes)
    PROVE  Bytes(sizes, a, b) = sums[b] - sums[a - 1]
<1> DEFINE len == Len(sizes)
           part == SubSeq(sizes, a, b)
           n == b - a + 1
           rest == [k \in 0 .. n |-> sums[a - 1 + k] - sums[a - 1]]
<1>1. len \in Nat /\ DOMAIN sizes = 1 .. len /\ \A k \in 1 .. len : sizes[k] \in Nat \ {0}
  BY LenProperties, ElementOfSeq
<1>2. /\ sums \in [0 .. len -> Nat] /\ sums[0] = 0
      /\ \A k \in 1 .. len : sums[k] = sums[k - 1] + sizes[k]
      /\ \A i, j \in 0 .. len : i < j => sums[i] < sums[j]
  BY OffsetsGrow DEF Offsets
<1>3. a \in 1 .. len + 1 /\ b \in a - 1 .. len
  OBVIOUS
<1>4. \A i \in a .. b : i \in 1 .. len
  BY <1>1, <1>3
<1>5. part \in Seq(Nat \ {0}) /\ Len(part) = IF a <= b THEN b - a + 1 ELSE 0
  BY <1>1, <1>3, <1>4, SubSeqProperties
<1>6. \A i \in 1 .. b - a + 1 : part[i] = sizes[a + i - 1]
  BY <1>1, <1>3, <1>4, SubSeqProperties
<1> HIDE DEF len, part
<1>7. Len(part) = n /\ n \in Nat /\ part \in Seq(Nat)
  <2>1. \A x \in Nat \ {0} : x \in Nat
    OBVIOUS
  <2>2. Seq(Nat \ {0}) \subseteq Seq(Nat)
    BY <2>1
  <2> QED BY <1>1, <1>3, <1>5, <2>2
<1>8. Offsets(part, rest)
  <2>1. \A k \in 0 .. n : /\ a - 1 + k \in 0 .. len /\ a - 1 \in 0 .. len
                          /\ sums[a - 1 + k] - sums[a - 1] \in Nat
    <3> SUFFICES ASSUME NEW k \in 0 .. n
                 PROVE  /\ a - 1 + k \in 0 .. len /\ a - 1 \in 0 .. len
                        /\ sums[a - 1 + k] - sums[a - 1] \in Nat
      OBVIOUS
    <3>1. a - 1 + k \in 0 .. len /\ a - 1 \in 0 .. len
      BY <1>1, <1>3
    <3>2. sums[a - 1 + k] \in Nat /\ sums[a - 1] \in Nat
      BY <1>2, <3>1
    <3>3. k = 0 \/ a - 1 < a - 1 + k
      BY <1>3
    <3> DEFINE p == a - 1 + k
               q == a - 1
    <3>4. p \in 0 .. len /\ q \in 0 .. len /\ (p = q \/ q < p)
      BY <1>3, <3>1, <3>3
    <3>5. sums[p] \in Nat /\ sums[q] \in Nat
      BY <3>2
    <3> HIDE DEF p, q
    <3>6. sums[q] <= sums[p]
      BY <1>2, <3>4, <3>5
    <3>7. sums[p] - sums[q] \in Nat
      BY <3>5, <3>6
    <3> QED BY <3>1, <3>7 DEF p, q
  <2>2. rest \in [0 .. n -> Nat]
    BY <2>1
  <2>3. rest[0] = 0
    <3>1. 0 \in 0 .. n /\ a - 1 + 0 = a - 1 /\ a - 1 \in 0 .. len
      BY <1>1, <1>3, <1>7
    <3> DEFINE x == sums[a - 1]
    <3>2. rest[0] = x - x /\ x \in Nat
      BY <1>2, <3>1
    <3> HIDE DEF x, rest
    <3> QED BY <3>2
  <2>4. ASSUME NEW k \in 1 .. n PROVE rest[k] = rest[k - 1] + part[k]
    <3>1. k \in 0 .. n /\ k - 1 \in 0 .. n /\ a - 1 + k \in 1 .. len /\ a - 1 + (k - 1) = a - 1 + k - 1
      BY <1>1, <1>3, <1>7
    <3>2. rest[k] = sums[a - 1 + k] - sums[a - 1] /\ rest[k - 1] = sums[a - 1 + k - 1] - sums[a - 1]
      BY <3>1
    <3>3. part[k] = sizes[a - 1 + k]
      <4>1. k \in 1 .. b - a + 1 /\ a + k - 1 = a - 1 + k
        BY <1>3
      <4> QED BY <1>6, <4>1
    <3>4. sums[a - 1 + k] = sums[a - 1 + k - 1] + sizes[a - 1 + k]
      BY <1>2, <3>1
    <3>5. sums[a - 1] \in Nat /\ sums[a - 1 + k - 1] \in Nat /\ sizes[a - 1 + k] \in Nat
      BY <1>1, <1>2, <2>1, <3>1
    <3> DEFINE r == rest[k]
               q == rest[k - 1]
               x == sums[a - 1]
               y == sums[a - 1 + k - 1]
               z == sums[a - 1 + k]
               w == sizes[a - 1 + k]
    <3>6. r = z - x /\ q = y - x /\ z = y + w /\ x \in Nat /\ y \in Nat /\ w \in Nat
      BY <3>2, <3>4, <3>5
    <3> HIDE DEF r, q, x, y, z, w
    <3>7. r = q + w
      BY <3>6
    <3> HIDE DEF rest
    <3> QED BY <3>3, <3>7 DEF r, q, w
  <2> HIDE DEF rest
  <2> QED BY <1>7, <2>2, <2>3, <2>4 DEF Offsets
<1>9. Total(part) = rest[n]
  <2> HIDE DEF rest, n
  <2> QED BY <1>7, <1>8, TotalIs
<1>10. rest[n] = sums[b] - sums[a - 1]
  <2>1. n \in 0 .. n /\ a - 1 + n = b
    BY <1>3, <1>7
  <2> QED BY <2>1
<1> QED BY <1>9, <1>10 DEF Bytes, part

\* The bytes of a range grow with it, and only an empty range has none.
Growing(sizes) ==
    /\ \A a \in 1 .. Len(sizes) + 1, b \in 0 .. Len(sizes) :
          a <= b + 1 => /\ Bytes(sizes, a, b) \in Nat
                        /\ Bytes(sizes, a, b) = 0 <=> b < a
    /\ \A a, c \in 1 .. Len(sizes) + 1, b, d \in 0 .. Len(sizes) :
          c <= a /\ a <= b + 1 /\ b <= d => Bytes(sizes, a, b) <= Bytes(sizes, c, d)

LEMMA BytesGrow ==
    ASSUME NEW sizes \in Seq(Nat \ {0})
    PROVE  Growing(sizes) /\ Len(sizes) \in Nat
<1> DEFINE len == Len(sizes)
<1>1. len \in Nat
  BY LenProperties
<1>2. PICK sums : Offsets(sizes, sums)
  <2>1. \A x \in Nat \ {0} : x \in Nat
    OBVIOUS
  <2>2. sizes \in Seq(Nat)
    BY <2>1
  <2> QED BY <2>2, OffsetsExist
<1>3. /\ \A k \in 0 .. len : sums[k] \in Nat
      /\ \A i, j \in 0 .. len : i < j => sums[i] < sums[j]
  BY <1>2, OffsetsGrow DEF Offsets
<1>4. \A a \in 1 .. len + 1, b \in 0 .. len : a <= b + 1 => Bytes(sizes, a, b) = sums[b] - sums[a - 1]
  <2> SUFFICES ASSUME NEW a \in 1 .. len + 1, NEW b \in 0 .. len, a <= b + 1
               PROVE  Bytes(sizes, a, b) = sums[b] - sums[a - 1]
    OBVIOUS
  <2>1. b \in a - 1 .. len
    BY <1>1
  <2> QED BY <1>2, <2>1, BytesAre
<1> HIDE DEF len
<1>5. ASSUME NEW a \in 1 .. len + 1, NEW b \in 0 .. len, a <= b + 1
      PROVE  /\ Bytes(sizes, a, b) \in Nat
             /\ Bytes(sizes, a, b) = 0 <=> b < a
  <2>1. a - 1 \in 0 .. len /\ (a - 1 < b \/ a - 1 = b)
    BY <1>1, <1>5
  <2>2. /\ sums[a - 1] \in Nat /\ sums[b] \in Nat
        /\ a - 1 < b => sums[a - 1] < sums[b]
    BY <1>3, <2>1
  <2>3. Bytes(sizes, a, b) = sums[b] - sums[a - 1]
    BY <1>4, <1>5
  <2>4. CASE a - 1 = b
    BY <2>2, <2>3, <2>4
  <2>5. CASE a - 1 < b
    BY <2>2, <2>3, <2>5
  <2> QED BY <2>1, <2>4, <2>5
<1>6. ASSUME NEW a \in 1 .. len + 1, NEW c \in 1 .. len + 1, NEW b \in 0 .. len, NEW d \in 0 .. len,
             c <= a, a <= b + 1, b <= d
      PROVE  Bytes(sizes, a, b) <= Bytes(sizes, c, d)
  <2>1. /\ a - 1 \in 0 .. len /\ c - 1 \in 0 .. len
        /\ (c - 1 < a - 1 \/ c - 1 = a - 1) /\ (b < d \/ b = d) /\ c <= d + 1
    BY <1>1, <1>6
  <2>2. /\ sums[a - 1] \in Nat /\ sums[c - 1] \in Nat /\ sums[b] \in Nat /\ sums[d] \in Nat
        /\ sums[c - 1] <= sums[a - 1] /\ sums[b] <= sums[d]
    BY <1>3, <2>1
  <2>3. Bytes(sizes, a, b) = sums[b] - sums[a - 1] /\ Bytes(sizes, c, d) = sums[d] - sums[c - 1]
    BY <1>4, <1>6, <2>1
  <2> QED BY <2>2, <2>3
<1> QED BY <1>1, <1>5, <1>6 DEF Growing, len

-----------------------------------------------------------------------------
(* Fitting a span into a capacity.                                         *)

\* A span of a file of n lines: it holds its targets, if it has any.
Proper(span, n) ==
    /\ span.start \in 1 .. n /\ span.end \in span.start .. n
    /\ Targets(span) \subseteq LinesOf(span)
    /\ span.target = NoTarget => Targets(span) = {}

\* Lines of the span that fit.
Inside(lines, sizes, span, capacity) ==
    /\ lines \in [start : Int, end : Int]
    /\ span.start <= lines.start /\ lines.start <= lines.end /\ lines.end <= span.end
    /\ Bytes(sizes, lines.start, lines.end) <= capacity

\* No line next to them fits in addition.
Stuck(lines, sizes, span, capacity) ==
    /\ lines.end = span.end \/ ~(Bytes(sizes, lines.start, lines.end + 1) <= capacity)
    /\ lines.start = span.start \/ ~(Bytes(sizes, lines.start - 1, lines.end) <= capacity)

LEMMA WidenOnce ==
    ASSUME NEW sizes, NEW span, Proper(span, Len(sizes)), Len(sizes) \in Nat,
           NEW capacity, NEW lines, Inside(lines, sizes, span, capacity),
           NEW wide, wide = Widen(sizes, span, capacity, lines)
    PROVE  /\ Inside(wide, sizes, span, capacity)
           /\ wide.start <= lines.start /\ lines.end <= wide.end
           /\ \/ Stuck(lines, sizes, span, capacity) /\ wide = lines
              \/ wide.end - wide.start >= lines.end - lines.start + 1
<1> DEFINE s == lines.start
           e == lines.end
           below == e < span.end /\ Bytes(sizes, s, e + 1) <= capacity
           end == IF below THEN e + 1 ELSE e
           above == s > span.start /\ Bytes(sizes, s - 1, end) <= capacity
           start == IF above THEN s - 1 ELSE s
<1>1. wide = [start |-> start, end |-> end]
  BY DEF Widen, Lines
<1>2. /\ s \in Int /\ e \in Int /\ span.start <= s /\ s <= e /\ e <= span.end
      /\ Bytes(sizes, s, e) <= capacity /\ lines = [start |-> s, end |-> e]
  BY DEF Inside
<1>3. span.start \in Int /\ span.end \in Int
  BY DEF Proper
<1>4. end \in Int /\ start \in Int
  BY <1>2
<1>5. /\ span.start <= start /\ start <= s /\ e <= end /\ end <= span.end
  BY <1>2, <1>3
<1>6. Bytes(sizes, start, end) <= capacity
  <2>1. Bytes(sizes, s, end) <= capacity
    BY <1>2
  <2> HIDE DEF end
  <2> QED BY <2>1
<1>7. wide.start = start /\ wide.end = end
  BY <1>1
<1>8. Inside(wide, sizes, span, capacity)
  <2> HIDE DEF start, end
  <2>1. start <= end
    BY <1>2, <1>4, <1>5
  <2> QED BY <1>1, <1>4, <1>5, <1>6, <1>7, <2>1 DEF Inside
<1>9. CASE below \/ above
  <2>1. end - start >= e - s + 1
    BY <1>2, <1>9
  <2> QED BY <1>5, <1>7, <1>8, <2>1
<1>10. CASE ~below /\ ~above
  <2>1. end = e /\ start = s
    BY <1>10
  <2>2. Stuck(lines, sizes, span, capacity)
    BY <1>2, <1>3, <1>10, <2>1 DEF Stuck
  <2> QED BY <1>1, <1>2, <1>5, <1>7, <1>8, <2>1, <2>2
<1> QED BY <1>9, <1>10

\* Ranges that no line can join are in no other range that fits.
LEMMA StuckIsLongest ==
    ASSUME NEW sizes, Growing(sizes), Len(sizes) \in Nat, NEW span, Proper(span, Len(sizes)),
           NEW capacity \in Nat, NEW lines, Inside(lines, sizes, span, capacity),
           Stuck(lines, sizes, span, capacity),
           NEW range, Inside(range, sizes, span, capacity),
           range.start <= lines.start, lines.end <= range.end
    PROVE  range = lines
<1> DEFINE s == lines.start
           e == lines.end
           a == range.start
           b == range.end
           n == Len(sizes)
<1>1. /\ s \in Int /\ e \in Int /\ span.start <= s /\ s <= e /\ e <= span.end
      /\ lines = [start |-> s, end |-> e]
  BY DEF Inside
<1>2. /\ a \in Int /\ b \in Int /\ span.start <= a /\ a <= b /\ b <= span.end
      /\ Bytes(sizes, a, b) <= capacity /\ range = [start |-> a, end |-> b]
  BY DEF Inside
<1>3. span.start \in Int /\ span.end \in Int /\ 1 <= span.start /\ span.end <= n /\ n \in Nat
  BY DEF Proper
<1>4. a <= s /\ e <= b
  OBVIOUS
<1> HIDE DEF n
<1>5. CASE b > e
  <2>1. /\ s \in 1 .. n + 1 /\ a \in 1 .. n + 1 /\ e + 1 \in 0 .. n /\ b \in 0 .. n
        /\ a <= s /\ s <= e + 2 /\ e + 1 <= b
    <3> DEFINE first == span.start
               last == span.end
    <3>1. /\ s \in Int /\ e \in Int /\ a \in Int /\ b \in Int
          /\ first \in Int /\ last \in Int /\ n \in Nat
          /\ 1 <= first /\ first <= a /\ b <= last /\ last <= n /\ s <= e /\ a <= s /\ e < b
      BY <1>1, <1>2, <1>3, <1>4, <1>5
    <3> HIDE DEF s, e, a, b, first, last
    <3> QED BY <3>1
  <2>2. Bytes(sizes, s, e + 1) <= Bytes(sizes, a, b) /\ Bytes(sizes, s, e + 1) \in Nat
        /\ Bytes(sizes, a, b) \in Nat
    <3> DEFINE f == e + 1
    <3>1. /\ s \in 1 .. n + 1 /\ a \in 1 .. n + 1 /\ f \in 0 .. n /\ b \in 0 .. n
          /\ a <= s /\ s <= f + 1 /\ f <= b /\ a <= b + 1
      BY <1>1, <1>2, <2>1
    <3> HIDE DEF f, s, a, b
    <3>2. Bytes(sizes, s, f) <= Bytes(sizes, a, b)
      BY <3>1 DEF Growing, n
    <3>3. Bytes(sizes, s, f) \in Nat /\ Bytes(sizes, a, b) \in Nat
      BY <3>1 DEF Growing, n
    <3> QED BY <3>2, <3>3 DEF f
  <2>3. Bytes(sizes, s, e + 1) <= capacity
    BY <1>2, <2>2
  <2>4. e # span.end
    BY <1>1, <1>2, <1>3, <1>5
  <2> QED BY <2>3, <2>4 DEF Stuck
<1>6. CASE a < s
  <2>1. /\ s - 1 \in 1 .. n + 1 /\ a \in 1 .. n + 1 /\ e \in 0 .. n /\ b \in 0 .. n
        /\ a <= s - 1 /\ s - 1 <= e + 1 /\ e <= b /\ a <= b + 1
    <3> DEFINE first == span.start
               last == span.end
    <3>1. /\ s \in Int /\ e \in Int /\ a \in Int /\ b \in Int
          /\ first \in Int /\ last \in Int /\ n \in Nat
          /\ 1 <= first /\ first <= a /\ b <= last /\ last <= n /\ s <= e /\ a < s /\ e <= b
      BY <1>1, <1>2, <1>3, <1>4, <1>6
    <3> HIDE DEF s, e, a, b, first, last
    <3> QED BY <3>1
  <2>2. Bytes(sizes, s - 1, e) <= Bytes(sizes, a, b) /\ Bytes(sizes, s - 1, e) \in Nat
        /\ Bytes(sizes, a, b) \in Nat
    <3> DEFINE r == s - 1
    <3>1. /\ r \in 1 .. n + 1 /\ a \in 1 .. n + 1 /\ e \in 0 .. n /\ b \in 0 .. n
          /\ a <= r /\ r <= e + 1 /\ e <= b /\ a <= b + 1
      BY <2>1
    <3> HIDE DEF r, e, a, b
    <3>2. Bytes(sizes, r, e) <= Bytes(sizes, a, b)
      BY <3>1 DEF Growing, n
    <3>3. Bytes(sizes, r, e) \in Nat /\ Bytes(sizes, a, b) \in Nat
      BY <3>1 DEF Growing, n
    <3> QED BY <3>2, <3>3 DEF r
  <2>3. Bytes(sizes, s - 1, e) <= capacity
    BY <1>2, <2>2
  <2>4. s # span.start
    BY <1>1, <1>2, <1>3, <1>6
  <2> QED BY <2>3, <2>4 DEF Stuck
<1>7. CASE a = s /\ b = e
  BY <1>1, <1>2, <1>7
<1> QED BY <1>1, <1>2, <1>4, <1>5, <1>6, <1>7

\* G is kept by every round of widening.
KeepsWidening(G, V, n, sizes, span, capacity, base) ==
    /\ n \in Nat /\ n = span.end - span.start
    /\ G \in SUBSET ((SUBSET (1 .. n)) \X V) /\ <<{}, base>> \in G
    /\ \A s \in SUBSET (1 .. n), v \in V :
          s # {} /\ <<s \ {Max(s)}, v>> \in G => <<s, Widen(sizes, span, capacity, v)>> \in G

LEMMA WidenedFold ==
    ASSUME NEW sizes, NEW span, NEW capacity, NEW base, NEW n, NEW V, NEW G,
           KeepsWidening(G, V, n, sizes, span, capacity, base)
    PROVE  <<1 .. n, Widened(sizes, span, capacity, base)>> \in G
<1> USE DEF KeepsWidening
<1> DEFINE S == 1 .. n
           Wide(v) == Widen(sizes, span, capacity, v)
           step == [p \in (SUBSET S) \X V |-> Wide(p[2])]
           Unfolded(iter) ==
               iter = [s \in SUBSET S |->
                          IF s = {} THEN base ELSE Wide(iter[s \ {Max(s)}])]
           whole == CHOOSE iter : Unfolded(iter)
<1>1. \A s \in SUBSET S, v \in V : step[<<s, v>>] = Wide(v)
  OBVIOUS
<1>2. LastIn(n) \in Picks(S) /\ IsFiniteSet(S)
  BY LastInPicks
<1>3. \A s \in SUBSET S : s # {} => LastIn(n)[s] = Max(s)
  BY DEF LastIn
<1>4. Widened(sizes, span, capacity, base) = whole[S]
  BY DEF Widened, FoldLeft, MapThenFoldSet
<1>5. \A s \in SUBSET S, v \in V :
         s # {} /\ <<s \ {Max(s)}, v>> \in G => <<s, Wide(v)>> \in G
  OBVIOUS
<1> HIDE DEF step, S, Wide
<1>6. \A s \in SUBSET S, v \in V :
         s # {} /\ <<s \ {LastIn(n)[s]}, v>> \in G => <<s, step[<<s, v>>]>> \in G
  BY <1>1, <1>3, <1>5
<1>7. G \in SUBSET ((SUBSET S) \X V)
  BY DEF S
<1>s. Stays(G, S, V, LastIn(n), base, step)
  BY <1>6, <1>7 DEF Stays
<1>8. PICK iter \in [SUBSET S -> V] : Unrolls(iter, G, S, LastIn(n), base, step)
  BY <1>2, <1>s, Folding
<1>u. /\ iter[{}] = base
      /\ \A s \in SUBSET S :
            /\ <<s, iter[s]>> \in G
            /\ s # {} => iter[s] = step[<<s, iter[s \ {LastIn(n)[s]}]>>]
  BY <1>8 DEF Unrolls
<1>9. \A s \in SUBSET S : s # {} => iter[s] = Wide(iter[s \ {Max(s)}])
  <2> SUFFICES ASSUME NEW s \in SUBSET S, s # {}
               PROVE  iter[s] = Wide(iter[s \ {Max(s)}])
    OBVIOUS
  <2> DEFINE before == iter[s \ {Max(s)}]
  <2>1. before \in V
    BY <1>8
  <2>2. iter[s] = step[<<s, before>>]
    BY <1>3, <1>u
  <2> HIDE DEF before
  <2>3. step[<<s, before>>] = Wide(before)
    BY <1>1, <2>1
  <2> QED BY <2>2, <2>3 DEF before
<1>10. Unfolded(iter)
  BY <1>8, <1>u, <1>9
<1>11. Unfolded(whole)
  BY <1>10
<1> HIDE DEF whole
<1> DEFINE K == {s \in SUBSET S : <<s, whole[s]>> \in G}
<1>12. {} \in K
  BY <1>11
<1>13. \A s \in SUBSET S : s # {} /\ s \ {LastIn(n)[s]} \in K => s \in K
  <2> SUFFICES ASSUME NEW s \in SUBSET S, s # {}, <<s \ {Max(s)}, whole[s \ {Max(s)}]>> \in G
               PROVE  <<s, whole[s]>> \in G
    BY <1>3
  <2>1. whole[s] = Wide(whole[s \ {Max(s)}])
    BY <1>11
  <2>2. whole[s \ {Max(s)}] \in V
    BY <1>7
  <2> QED BY <1>5, <2>1, <2>2
<1> HIDE DEF K
<1>14. SUBSET S \subseteq K
  BY <1>2, <1>12, <1>13, Shrinking
<1>15. <<S, whole[S]>> \in G
  BY <1>14 DEF K
<1> QED BY <1>4, <1>15 DEF S

\* Widening ends at lines that nothing can join.
LEMMA WidenedIs ==
    ASSUME NEW sizes, NEW span, Proper(span, Len(sizes)), Len(sizes) \in Nat,
           NEW capacity, NEW base, Inside(base, sizes, span, capacity),
           NEW wide, wide = Widened(sizes, span, capacity, base)
    PROVE  /\ Inside(wide, sizes, span, capacity) /\ Stuck(wide, sizes, span, capacity)
           /\ wide.start <= base.start /\ base.end <= wide.end
<1> DEFINE n == span.end - span.start
           V == [start : Int, end : Int]
           Good(s, v) ==
               /\ Inside(v, sizes, span, capacity)
               /\ v.start <= base.start /\ base.end <= v.end
               /\ \/ Stuck(v, sizes, span, capacity)
                  \/ v.end - v.start >= base.end - base.start + Cardinality(s)
           G == {p \in (SUBSET (1 .. n)) \X V : Good(p[1], p[2])}
<1>1. span.start \in Int /\ span.end \in Int /\ n \in Nat
  BY DEF Proper
<1>2. /\ base \in V /\ base.start \in Int /\ base.end \in Int
      /\ span.start <= base.start /\ base.start <= base.end /\ base.end <= span.end
  BY DEF Inside
<1> HIDE DEF n
<1>3. <<{}, base>> \in G
  <2>1. Cardinality({}) = 0
    BY FS_EmptySet
  <2>2. Good({}, base)
    BY <1>2, <2>1
  <2> HIDE DEF Good
  <2> QED BY <1>2, <2>2
<1>4. ASSUME NEW s \in SUBSET (1 .. n), NEW v \in V, s # {}, <<s \ {Max(s)}, v>> \in G
      PROVE  <<s, Widen(sizes, span, capacity, v)>> \in G
  <2> DEFINE m == Max(s)
             w == Widen(sizes, span, capacity, v)
  <2>1. Good(s \ {m}, v)
    <3> HIDE DEF Good, m
    <3> QED BY <1>4 DEF m
  <2>2. /\ Inside(w, sizes, span, capacity)
        /\ w.start <= v.start /\ v.end <= w.end
        /\ \/ Stuck(v, sizes, span, capacity) /\ w = v
           \/ w.end - w.start >= v.end - v.start + 1
    <3> HIDE DEF w
    <3>1. w = Widen(sizes, span, capacity, v)
      BY DEF w
    <3> QED BY <2>1, <3>1, WidenOnce
  <2>3. Cardinality(s) = Cardinality(s \ {m}) + 1 /\ Cardinality(s \ {m}) \in Nat
    <3>1. IsFiniteSet(1 .. n)
      BY <1>1, FS_Interval
    <3>2. IsFiniteSet(s)
      BY <3>1, FS_Subset
    <3>3. m \in s
      <4>1. s \in SUBSET (0 .. n)
        BY <1>1
      <4> QED BY <1>1, <1>4, <4>1, Greatest
    <3> HIDE DEF m
    <3>4. Cardinality(s \ {m}) = Cardinality(s) - 1 /\ IsFiniteSet(s \ {m})
      BY <3>2, <3>3, FS_RemoveElement
    <3>5. Cardinality(s \ {m}) \in Nat /\ Cardinality(s) \in Nat
      BY <3>2, <3>4, FS_CardinalityType
    <3> QED BY <3>4, <3>5
  <2> HIDE DEF w, m
  <2>4. /\ w \in V /\ w.start \in Int /\ w.end \in Int /\ v.start \in Int /\ v.end \in Int
    BY <2>2 DEF Inside
  <2>5. w.start <= base.start /\ base.end <= w.end
    BY <1>2, <2>1, <2>2, <2>4
  <2>6. \/ Stuck(w, sizes, span, capacity)
        \/ w.end - w.start >= base.end - base.start + Cardinality(s)
    <3> DEFINE c == Cardinality(s \ {m})
               d == Cardinality(s)
    <3>1. d = c + 1 /\ c \in Nat
      BY <2>3
    <3>2. \/ Stuck(v, sizes, span, capacity)
          \/ v.end - v.start >= base.end - base.start + c
      BY <2>1
    <3> HIDE DEF c, d
    <3>3. CASE Stuck(v, sizes, span, capacity) /\ w = v
      BY <3>3
    <3>4. CASE w.end - w.start >= v.end - v.start + 1 /\ ~Stuck(v, sizes, span, capacity)
      <4>1. w.end - w.start >= base.end - base.start + d
        BY <1>2, <2>4, <3>1, <3>2, <3>4
      <4> QED BY <4>1 DEF d
    <3>5. CASE Stuck(v, sizes, span, capacity)
      <4>1. w = v \/ w.end - w.start >= v.end - v.start + 1
        BY <2>2
      <4>2. w = v
        <5>1. Widen(sizes, span, capacity, v) = v
          <6>1. /\ v.end = span.end \/ ~(Bytes(sizes, v.start, v.end + 1) <= capacity)
                /\ v.start = span.start \/ ~(Bytes(sizes, v.start - 1, v.end) <= capacity)
            BY <3>5 DEF Stuck
          <6>2. v = [start |-> v.start, end |-> v.end]
            OBVIOUS
          <6>3. span.start <= v.start /\ v.end <= span.end
            BY <2>1 DEF Inside
          <6> QED BY <1>1, <2>4, <6>1, <6>2, <6>3 DEF Widen, Lines
        <5> QED BY <5>1 DEF w
      <4> QED BY <3>5, <4>2
    <3> QED BY <2>2, <3>3, <3>4, <3>5
  <2>7. Good(s, w)
    BY <2>2, <2>5, <2>6
  <2> HIDE DEF Good
  <2> QED BY <2>4, <2>7 DEF w
<1>5. <<1 .. n, wide>> \in G
  <2>1. \A s \in SUBSET (1 .. n), v \in V :
           s # {} /\ <<s \ {Max(s)}, v>> \in G
              => <<s, Widen(sizes, span, capacity, v)>> \in G
    BY <1>4
  <2>2. G \in SUBSET ((SUBSET (1 .. n)) \X V)
    OBVIOUS
  <2>3. n = span.end - span.start
    BY DEF n
  <2> HIDE DEF G, V
  <2>4. KeepsWidening(G, V, n, sizes, span, capacity, base)
    BY <1>1, <1>3, <2>1, <2>2, <2>3 DEF KeepsWidening
  <2>5. <<1 .. n, Widened(sizes, span, capacity, base)>> \in G
    BY <2>4, WidenedFold
  <2> QED BY <2>5
<1>6. Good(1 .. n, wide)
  <2> HIDE DEF Good
  <2> QED BY <1>5
<1>7. Stuck(wide, sizes, span, capacity)
  <2>1. SUFFICES ASSUME wide.end - wide.start >= base.end - base.start + n
                 PROVE  Stuck(wide, sizes, span, capacity)
    <3>1. Cardinality(1 .. n) = IF 1 > n THEN 0 ELSE n - 1 + 1
      BY <1>1, FS_Interval
    <3>2. Cardinality(1 .. n) = n
      BY <1>1, <3>1
    <3> QED BY <1>6, <3>2
  <2>2. /\ wide.start \in Int /\ wide.end \in Int
        /\ span.start <= wide.start /\ wide.end <= span.end
    BY <1>6 DEF Inside
  <2>3. wide.start = span.start /\ wide.end = span.end
    BY <1>1, <1>2, <2>1, <2>2 DEF n
  <2> QED BY <2>3 DEF Stuck
<1> QED BY <1>6, <1>7

\* Lines that hold the targets, in a range about them.
LEMMA FittingIs ==
    ASSUME NEW sizes, NEW span, NEW n, Proper(span, n), NEW capacity, NEW targets
    PROVE  \A range : range \in Fitting(sizes, span, targets, capacity) <=>
                         /\ Inside(range, sizes, span, capacity)
                         /\ targets \subseteq range.start .. range.end
<1>1. span.start \in Int /\ span.end \in Int
  BY DEF Proper
<1> SUFFICES ASSUME NEW range
             PROVE  range \in Fitting(sizes, span, targets, capacity) <=>
                         /\ Inside(range, sizes, span, capacity)
                         /\ targets \subseteq range.start .. range.end
  OBVIOUS
<1>2. ASSUME range \in Fitting(sizes, span, targets, capacity)
      PROVE  /\ Inside(range, sizes, span, capacity)
             /\ targets \subseteq range.start .. range.end
  <2>1. /\ range \in [start : span.start .. span.end, end : span.start .. span.end]
        /\ targets \subseteq range.start .. range.end /\ range.start <= range.end
        /\ Bytes(sizes, range.start, range.end) <= capacity
    BY <1>2 DEF Fitting, LinesOf
  <2>2. range \in [start : Int, end : Int]
    BY <1>1, <2>1
  <2>3. range.start \in span.start .. span.end /\ range.end \in span.start .. span.end
    BY <2>1
  <2> QED BY <1>1, <2>1, <2>2, <2>3 DEF Inside
<1>3. ASSUME Inside(range, sizes, span, capacity), targets \subseteq range.start .. range.end
      PROVE  range \in Fitting(sizes, span, targets, capacity)
  <2>1. /\ range \in [start : Int, end : Int]
        /\ span.start <= range.start /\ range.start <= range.end /\ range.end <= span.end
        /\ Bytes(sizes, range.start, range.end) <= capacity
    BY <1>3 DEF Inside
  <2>2. range.start \in span.start .. span.end /\ range.end \in span.start .. span.end
    BY <1>1, <2>1
  <2>3. range \in [start : span.start .. span.end, end : span.start .. span.end]
    BY <2>1, <2>2
  <2> QED BY <1>3, <2>1, <2>3 DEF Fitting, LinesOf
<1> QED BY <1>2, <1>3

\* What fitting a span promises, and what its lines weigh.
Fits(lines, sizes, span, capacity) ==
    /\ Longest(lines, Allowed(sizes, span, capacity))
    /\ \/ Inside(lines, sizes, span, capacity)
       \/ /\ lines \in [start : Int, end : Int]
          /\ Bytes(sizes, lines.start, lines.end) = 0

\* Lines(first, first - 1) are none.
LEMMA NoBytes ==
    ASSUME NEW sizes, Growing(sizes), Len(sizes) \in Nat,
           NEW span, Proper(span, Len(sizes)),
           NEW lines, lines = Lines(span.start, span.start - 1)
    PROVE  /\ lines.end < lines.start /\ lines \in [start : Int, end : Int]
           /\ Bytes(sizes, lines.start, lines.end) = 0
<1> DEFINE n == Len(sizes)
           a == span.start
<1>1. a \in 1 .. n /\ n \in Nat
  BY DEF Proper
<1>2. lines = [start |-> a, end |-> a - 1] /\ lines.start = a /\ lines.end = a - 1
  BY DEF Lines
<1> HIDE DEF n, a
<1>3. a \in 1 .. n + 1 /\ a - 1 \in 0 .. n /\ a - 1 < a /\ a <= a - 1 + 1 /\ a \in Int /\ a - 1 \in Int
  BY <1>1
<1>4. Bytes(sizes, a, a - 1) = 0
  BY <1>3 DEF Growing, n
<1> QED BY <1>2, <1>3, <1>4

\* The whole span.
LEMMA WholeFits ==
    ASSUME NEW sizes, NEW span, Proper(span, Len(sizes)), NEW capacity,
           Bytes(sizes, span.start, span.end) <= capacity,
           NEW lines, lines = Lines(span.start, span.end)
    PROVE  Fits(lines, sizes, span, capacity)
<1> DEFINE a == span.start
           b == span.end
           together == Fitting(sizes, span, Targets(span), capacity)
<1>1. /\ a \in Int /\ b \in Int /\ a <= b /\ Targets(span) \subseteq a .. b
      /\ span.target = NoTarget => Targets(span) = {}
  BY DEF Proper, LinesOf
<1>2. lines = [start |-> a, end |-> b] /\ lines.start = a /\ lines.end = b
  BY DEF Lines
<1>3. Inside(lines, sizes, span, capacity)
  BY <1>1, <1>2 DEF Inside
<1>4. lines \in together
  BY <1>1, <1>2, <1>3, FittingIs
<1>5. lines \in Allowed(sizes, span, capacity)
  BY <1>2, <1>4 DEF Allowed
<1>6. \A range \in Allowed(sizes, span, capacity) : Inside(range, sizes, span, capacity)
  BY FittingIs DEF Allowed
<1>7. ASSUME NEW range \in Allowed(sizes, span, capacity),
             range.start <= lines.start, lines.end <= range.end
      PROVE  range = lines
  <2>1. /\ range \in [start : Int, end : Int] /\ a <= range.start /\ range.end <= b
    BY <1>6 DEF Inside
  <2>2. range.start = a /\ range.end = b
    BY <1>1, <1>2, <1>7, <2>1
  <2> QED BY <1>2, <2>1, <2>2
<1> QED BY <1>3, <1>5, <1>7 DEF Fits, Longest

\* A span about no line is cut from its first line.
LEMMA PrefixFits ==
    ASSUME NEW sizes, Growing(sizes), Len(sizes) \in Nat,
           NEW span, Proper(span, Len(sizes)), span.target = NoTarget, NEW capacity \in Nat,
           NEW lines, lines = LongestPrefix(sizes, span, capacity)
    PROVE  Fits(lines, sizes, span, capacity)
<1> DEFINE n == Len(sizes)
           a == span.start
           b == span.end
           ends == {last \in a - 1 .. b : Bytes(sizes, a, last) <= capacity}
           e == Max(ends)
           allowed == Allowed(sizes, span, capacity)
<1>1. a \in 1 .. n /\ b \in a .. n /\ n \in Nat /\ Targets(span) = {}
  BY DEF Proper
<1>2. lines = [start |-> a, end |-> e] /\ lines.start = a /\ lines.end = e
  BY DEF LongestPrefix, Lines
<1>3. Bytes(sizes, a, a - 1) = 0
  <2> DEFINE none == Lines(a, a - 1)
  <2>1. none.start = a /\ none.end = a - 1
    BY DEF Lines
  <2> HIDE DEF none
  <2>2. Bytes(sizes, none.start, none.end) = 0
    BY NoBytes DEF none
  <2> QED BY <2>1, <2>2
<1> HIDE DEF n, a, b
<1>4. e \in ends /\ \A y \in ends : y <= e
  <2>1. a - 1 \in ends
    BY <1>1, <1>3
  <2>2. ends \in SUBSET (0 .. n)
    BY <1>1
  <2> HIDE DEF ends
  <2> QED BY <1>1, <2>1, <2>2, Greatest
<1> HIDE DEF e
<1>5. e \in a - 1 .. b /\ Bytes(sizes, a, e) <= capacity
  BY <1>4
<1>6. allowed = {range \in Fitting(sizes, span, {}, capacity) : range.start = a}
  BY <1>1 DEF Allowed, a
<1>7. \A range : range \in allowed <=>
                    /\ range \in [start : Int, end : Int] /\ range.start = a
                    /\ a <= range.end /\ range.end <= b
                    /\ Bytes(sizes, a, range.end) <= capacity
  <2> SUFFICES ASSUME NEW range
               PROVE  range \in allowed <=>
                         /\ range \in [start : Int, end : Int] /\ range.start = a
                         /\ a <= range.end /\ range.end <= b
                         /\ Bytes(sizes, a, range.end) <= capacity
    OBVIOUS
  <2>1. range \in Fitting(sizes, span, {}, capacity) <=> Inside(range, sizes, span, capacity)
    BY FittingIs
  <2>2. a \in Int /\ a <= a
    BY <1>1
  <2> QED BY <1>6, <2>1, <2>2 DEF Inside, a, b
<1>8. \A range \in allowed : range.end \in ends /\ range.end <= e
  <2> SUFFICES ASSUME NEW range \in allowed PROVE range.end \in ends
    BY <1>4
  <2>1. range.end \in a - 1 .. b
    BY <1>1, <1>7
  <2> QED BY <1>7, <2>1
<1> HIDE DEF allowed, ends
<1>9. CASE e = a - 1
  <2>1. allowed = {}
    BY <1>1, <1>7, <1>8, <1>9
  <2>2. lines.end < lines.start /\ lines \in [start : Int, end : Int]
    BY <1>1, <1>2, <1>9
  <2>3. Bytes(sizes, lines.start, lines.end) = 0
    BY <1>2, <1>3, <1>9 DEF a
  <2> QED BY <2>1, <2>2, <2>3 DEF Fits, Longest, allowed
<1>10. CASE e # a - 1
  <2>1. e \in Int /\ a \in Int /\ a <= e /\ e <= b
    BY <1>1, <1>5, <1>10
  <2>2. lines \in allowed
    BY <1>2, <1>5, <1>7, <2>1
  <2>3. ASSUME NEW range \in allowed, lines.end <= range.end PROVE range = lines
    <3>1. range \in [start : Int, end : Int] /\ range.start = a /\ range.end <= e
      BY <1>7, <1>8
    <3>2. range.end = e
      BY <1>2, <2>1, <2>3, <3>1
    <3> QED BY <1>2, <3>1, <3>2
  <2>4. Inside(lines, sizes, span, capacity)
    BY <1>2, <1>5, <2>1 DEF Inside, a, b
  <2> QED BY <2>2, <2>3, <2>4 DEF Fits, Longest, allowed
<1> QED BY <1>9, <1>10

\* A span about lines keeps all of them, or the first, or nothing.
LEMMA AroundFits ==
    ASSUME NEW sizes, Growing(sizes), Len(sizes) \in Nat,
           NEW span, Proper(span, Len(sizes)), span.target # NoTarget, NEW capacity \in Nat,
           NEW lines, lines = AroundTargets(sizes, span, capacity)
    PROVE  Fits(lines, sizes, span, capacity)
<1> DEFINE n == Len(sizes)
           first == span.start
           last == span.end
           targets == Targets(span)
           low == Min(targets)
           high == Max(targets)
           t == span.target
           together == Fitting(sizes, span, targets, capacity)
           alone == Fitting(sizes, span, {t}, capacity)
           allowed == Allowed(sizes, span, capacity)
           Load(a, b) == Bytes(sizes, a, b)
           base == IF Load(low, high) <= capacity THEN Lines(low, high) ELSE Lines(t, t)
<1>1. /\ first \in 1 .. n /\ last \in first .. n /\ n \in Nat
      /\ targets \subseteq first .. last /\ t \in targets
  BY DEF Proper, LinesOf, Targets
<1>2. /\ low \in targets /\ high \in targets
      /\ \A y \in targets : low <= y /\ y <= high
  <2>1. targets \in SUBSET Nat /\ targets \in SUBSET (0 .. n) /\ targets # {}
    BY <1>1
  <2> HIDE DEF n, targets
  <2> QED BY <1>1, <2>1, Least, Greatest
<1>3. lines = IF Load(base.start, base.end) > capacity
              THEN Lines(first, first - 1)
              ELSE Widened(sizes, span, capacity, base)
  <2>1. targets \cap LinesOf(span) = targets
    BY DEF Proper
  <2> HIDE DEF targets
  <2>2. Lines(low, high).start = low /\ Lines(low, high).end = high
    BY DEF Lines
  <2> QED BY <2>1, <2>2 DEF AroundTargets, targets
<1>4. \A range : range \in together <=>
                    Inside(range, sizes, span, capacity) /\ targets \subseteq range.start .. range.end
  <2> HIDE DEF targets, n
  <2>1. Proper(span, n)
    BY DEF n
  <2> QED BY <2>1, FittingIs
<1>5. \A range : range \in alone <=>
                    Inside(range, sizes, span, capacity) /\ {t} \subseteq range.start .. range.end
  <2> HIDE DEF t, n
  <2>1. Proper(span, n)
    BY DEF n
  <2> QED BY <2>1, FittingIs
<1>6. allowed = IF together # {} THEN together ELSE alone
  BY DEF Allowed
<1>7. \A range : Inside(range, sizes, span, capacity) =>
         /\ range.start \in Int /\ range.end \in Int
         /\ first <= range.start /\ range.start <= range.end /\ range.end <= last
         /\ Load(range.start, range.end) <= capacity
  BY DEF Inside
<1>8. \A a, b, c, d \in 1 .. n : c <= a /\ a <= b /\ b <= d =>
         /\ Load(a, b) \in Nat /\ Load(c, d) \in Nat
         /\ Load(a, b) <= Load(c, d)
  <2> SUFFICES ASSUME NEW a \in 1 .. n, NEW b \in 1 .. n, NEW c \in 1 .. n, NEW d \in 1 .. n,
                      c <= a, a <= b, b <= d
               PROVE  /\ Load(a, b) \in Nat /\ Load(c, d) \in Nat
                      /\ Load(a, b) <= Load(c, d)
    OBVIOUS
  <2> HIDE DEF n
  <2>1. /\ a \in 1 .. n + 1 /\ b \in 0 .. n /\ c \in 1 .. n + 1 /\ d \in 0 .. n
        /\ c <= a /\ a <= b + 1 /\ b <= d /\ c <= d + 1
    BY <1>1
  <2>2. Load(a, b) \in Nat /\ Load(c, d) \in Nat
    BY <2>1 DEF Growing, n
  <2>3. Load(a, b) <= Load(c, d)
    BY <2>1 DEF Growing, n
  <2> QED BY <2>2, <2>3
<1> HIDE DEF targets, low, high, t, together, alone, allowed, n, first, last
<1>9. /\ low \in 1 .. n /\ high \in 1 .. n /\ t \in 1 .. n
      /\ low <= t /\ t <= high /\ first <= low /\ high <= last
  BY <1>1, <1>2
<1>10. base.start \in 1 .. n /\ base.end \in 1 .. n /\ base.start <= base.end
       /\ base \in [start : Int, end : Int] /\ first <= base.start /\ base.end <= last
  BY <1>1, <1>9 DEF Lines
\* Ranges about all the targets weigh at least what those alone weigh.
<1>11. \A range \in together : Load(low, high) <= capacity
  <2> SUFFICES ASSUME NEW range \in together PROVE Load(low, high) <= capacity
    OBVIOUS
  <2> DEFINE s == range.start
             e == range.end
  <2>1. /\ s \in Int /\ e \in Int /\ first <= s /\ s <= e /\ e <= last
        /\ Load(s, e) <= capacity /\ low \in s .. e /\ high \in s .. e
    BY <1>2, <1>4, <1>7
  <2>2. s \in 1 .. n /\ e \in 1 .. n /\ s <= low /\ high <= e
    BY <1>1, <2>1
  <2> HIDE DEF s, e
  <2>3. /\ Load(low, high) \in Nat /\ Load(s, e) \in Nat
        /\ Load(low, high) <= Load(s, e)
    <3>1. low \in 1 .. n /\ high \in 1 .. n /\ low <= high
      BY <1>1, <1>9
    <3> HIDE DEF Load
    <3> QED BY <1>8, <2>2, <3>1
  <2> HIDE DEF Load
  <2> QED BY <2>1, <2>3
<1>12. \A range \in alone : Load(t, t) <= capacity
  <2> SUFFICES ASSUME NEW range \in alone PROVE Load(t, t) <= capacity
    OBVIOUS
  <2> DEFINE s == range.start
             e == range.end
  <2>1. /\ s \in Int /\ e \in Int /\ first <= s /\ s <= e /\ e <= last
        /\ Load(s, e) <= capacity /\ t \in s .. e
    BY <1>5, <1>7
  <2>2. s \in 1 .. n /\ e \in 1 .. n /\ s <= t /\ t <= e
    BY <1>1, <2>1
  <2> HIDE DEF s, e
  <2>3. Load(t, t) \in Nat /\ Load(s, e) \in Nat /\ Load(t, t) <= Load(s, e)
    BY <1>8, <1>9, <2>2
  <2> HIDE DEF Load
  <2> QED BY <2>1, <2>3
<1>13. Load(base.start, base.end) \in Nat
  BY <1>8, <1>10
<1>14. base = IF Load(low, high) <= capacity THEN Lines(low, high) ELSE Lines(t, t)
  OBVIOUS
<1> HIDE DEF base
<1>15. CASE Load(base.start, base.end) > capacity
  <2>1. ~(Load(low, high) <= capacity) /\ base = Lines(t, t)
    <3>1. ~(Load(base.start, base.end) <= capacity)
      <4> HIDE DEF Load
      <4> QED BY <1>13, <1>15
    <3>2. ASSUME Load(low, high) <= capacity PROVE FALSE
      <4>1. base.start = low /\ base.end = high
        BY <1>14, <3>2 DEF Lines
      <4> QED BY <3>1, <3>2, <4>1
    <3> QED BY <1>14, <3>2
  <2>2. ~(Load(t, t) <= capacity)
    <3>1. base.start = t /\ base.end = t
      BY <2>1 DEF Lines
    <3> HIDE DEF Load
    <3> QED BY <1>13, <1>15, <3>1
  <2>3. allowed = {}
    BY <1>6, <1>11, <1>12, <2>1, <2>2
  <2>4. lines = Lines(span.start, span.start - 1)
    BY <1>3, <1>15 DEF first
  <2>5. /\ lines.end < lines.start /\ lines \in [start : Int, end : Int]
        /\ Bytes(sizes, lines.start, lines.end) = 0
    BY <2>4, NoBytes
  <2> QED BY <2>3, <2>5 DEF Fits, Longest, allowed
<1>16. CASE ~(Load(base.start, base.end) > capacity)
  <2>1. Load(base.start, base.end) <= capacity
    <3> HIDE DEF Load
    <3> QED BY <1>13, <1>16
  <2>2. Inside(base, sizes, span, capacity)
    BY <1>10, <2>1 DEF Inside, first, last
  <2>3. lines = Widened(sizes, span, capacity, base)
    BY <1>3, <1>16
  <2>4. /\ Inside(lines, sizes, span, capacity) /\ Stuck(lines, sizes, span, capacity)
        /\ lines.start <= base.start /\ base.end <= lines.end
    <3>1. Proper(span, Len(sizes)) /\ Len(sizes) \in Nat
      OBVIOUS
    <3> QED BY <2>2, <2>3, <3>1, WidenedIs
  <2>5. lines \in allowed
    <3>1. lines.start \in Int /\ lines.end \in Int
      BY <1>7, <2>4
    <3>2. CASE Load(low, high) <= capacity
      <4>1. base.start = low /\ base.end = high
        BY <1>14, <3>2 DEF Lines
      <4>2. \A y \in targets : y \in Int /\ low <= y /\ y <= high
        BY <1>1, <1>2
      <4>3. targets \subseteq lines.start .. lines.end
        BY <1>9, <2>4, <3>1, <4>1, <4>2
      <4> QED BY <1>4, <1>6, <2>4, <4>3
    <3>3. CASE ~(Load(low, high) <= capacity)
      <4>1. base.start = t /\ base.end = t
        BY <1>14, <3>3 DEF Lines
      <4>2. {t} \subseteq lines.start .. lines.end
        BY <1>9, <2>4, <3>1, <4>1
      <4>3. lines \in alone
        BY <1>5, <2>4, <4>2
      <4> QED BY <1>6, <1>11, <3>3, <4>3
    <3> QED BY <3>2, <3>3
  <2>6. \A range \in allowed : Inside(range, sizes, span, capacity)
    BY <1>4, <1>5, <1>6
  <2>7. ASSUME NEW range \in allowed, range.start <= lines.start, lines.end <= range.end
        PROVE  range = lines
    <3>1. Inside(range, sizes, span, capacity)
      BY <2>6
    <3> QED BY <2>4, <2>7, <3>1, StuckIsLongest
  <2> QED BY <2>4, <2>5, <2>7 DEF Fits, Longest, allowed
<1> QED BY <1>15, <1>16

\* What is left of a span of a file, whatever the capacity.
LEMMA FitSpanFits ==
    ASSUME NEW sizes \in Seq(Nat \ {0}), NEW span, Proper(span, Len(sizes)),
           NEW capacity \in Nat
    PROVE  Fits(FitSpan(sizes, span, capacity), sizes, span, capacity)
<1>1. Growing(sizes) /\ Len(sizes) \in Nat
  BY BytesGrow
<1>2. Bytes(sizes, span.start, span.end) \in Nat
  <2> DEFINE n == Len(sizes)
             a == span.start
             b == span.end
  <2>1. a \in 1 .. n /\ b \in a .. n /\ n \in Nat
    BY <1>1 DEF Proper
  <2> HIDE DEF n, a, b
  <2>2. a \in 1 .. n + 1 /\ b \in 0 .. n /\ a <= b + 1
    BY <2>1
  <2>3. Bytes(sizes, a, b) \in Nat
    BY <1>1, <2>2 DEF Growing, n
  <2> QED BY <2>3 DEF a, b
<1>3. CASE Bytes(sizes, span.start, span.end) <= capacity
  <2>1. FitSpan(sizes, span, capacity) = Lines(span.start, span.end)
    <3>1. ~(Bytes(sizes, span.start, span.end) > capacity)
      BY <1>2, <1>3
    <3> QED BY <1>3, <3>1 DEF FitSpan
  <2> QED BY <1>3, <2>1, WholeFits
<1>4. CASE ~(Bytes(sizes, span.start, span.end) <= capacity)
  <2>1. Bytes(sizes, span.start, span.end) > capacity
    BY <1>2, <1>4
  <2>2. CASE span.target = NoTarget
    <3>1. FitSpan(sizes, span, capacity) = LongestPrefix(sizes, span, capacity)
      BY <1>4, <2>1, <2>2 DEF FitSpan
    <3> QED BY <1>1, <2>2, <3>1, PrefixFits
  <2>3. CASE span.target # NoTarget
    <3>1. FitSpan(sizes, span, capacity) = AroundTargets(sizes, span, capacity)
      BY <1>4, <2>1, <2>3 DEF FitSpan
    <3> QED BY <1>1, <2>3, <3>1, AroundFits
  <2> QED BY <2>2, <2>3
<1> QED BY <1>3, <1>4

-----------------------------------------------------------------------------
(* The spans of a request.                                                 *)

\* The spans of a file are parts of it that share no line.
LEMMA SpansOfFile ==
    ASSUME NEW c, c.file \in DOMAIN Index, NEW spans, spans = SpansOf(c)
    PROVE  /\ DOMAIN spans = 1 .. Len(spans) /\ Len(spans) \in Nat
           /\ \A i \in 1 .. Len(spans) : Proper(spans[i], Len(Index[c.file].sizes))
           /\ \A i, j \in 1 .. Len(spans) : i # j => LinesOf(spans[i]) \cap LinesOf(spans[j]) = {}
<1> DEFINE n == Len(Index[c.file].sizes)
           len == Len(spans)
<1>1. /\ \A i \in DOMAIN spans :
            /\ Cardinality(LinesOf(spans[i])) \in 1 .. WindowLines
            /\ Targets(spans[i]) = Located(c) \cap LinesOf(spans[i])
            /\ spans[i].target = NoTarget => Targets(spans[i]) = {}
            /\ \A j \in 1 .. i - 1 : LinesOf(spans[j]) \cap LinesOf(spans[i]) = {}
      /\ spans \in Seq(Segments)
      /\ Covered(spans) \subseteq 1 .. n
  <2> HIDE DEF n
  <2> QED BY WindowsOfFile DEF n
<1>2. DOMAIN spans = 1 .. len /\ len \in Nat /\ \A i \in 1 .. len : spans[i] \in Segments
  BY <1>1, LenProperties, ElementOfSeq
<1> HIDE DEF len
<1>3. ASSUME NEW i \in 1 .. len
      PROVE  Proper(spans[i], n)
  <2> DEFINE g == spans[i]
             a == g.start
             b == g.end
  <2>1. a \in Nat \ {0} /\ b \in Nat
    BY <1>2 DEF Segments
  <2>2. LinesOf(g) = a .. b
    BY DEF LinesOf
  <2>3. a .. b # {}
    <3>1. Cardinality(LinesOf(g)) \in 1 .. WindowLines /\ Cardinality({}) = 0
      BY <1>1, <1>2, FS_EmptySet
    <3>2. WindowLines \in Nat
      BY WindowAssumption
    <3>3. LinesOf(g) # {}
      <4>1. SUFFICES ASSUME LinesOf(g) = {} PROVE 0 \in 1 .. WindowLines
        BY <3>2
      <4> HIDE DEF g
      <4> QED BY <3>1, <4>1
    <3> QED BY <2>2, <3>3
  <2>4. a <= b
    <3> HIDE DEF a, b
    <3> QED BY <2>1, <2>3
  <2>5. LinesOf(g) \subseteq 1 .. n
    BY <1>1, <1>2 DEF Covered
  <2>6. a \in 1 .. n /\ b \in 1 .. n
    <3>1. a \in a .. b /\ b \in a .. b
      BY <2>1, <2>4
    <3> QED BY <2>2, <2>5, <3>1
  <2>7. b \in a .. n
    <3> HIDE DEF a, b
    <3> QED BY <2>4, <2>6
  <2>8. Targets(g) \subseteq LinesOf(g) /\ (g.target = NoTarget => Targets(g) = {})
    BY <1>1, <1>2
  <2> QED BY <2>6, <2>7, <2>8 DEF Proper
<1>4. ASSUME NEW i \in 1 .. len, NEW j \in 1 .. len, i # j
      PROVE  LinesOf(spans[i]) \cap LinesOf(spans[j]) = {}
  <2>1. CASE i < j
    <3>1. i \in 1 .. j - 1
      BY <1>2, <2>1
    <3> QED BY <1>1, <1>2, <3>1
  <2>2. CASE j < i
    <3>1. j \in 1 .. i - 1
      BY <1>2, <2>2
    <3> QED BY <1>1, <1>2, <3>1
  <2> QED BY <1>2, <1>4, <2>1, <2>2
<1> QED BY <1>2, <1>3, <1>4 DEF len, n

\* What every concatenation keeps holds of the flattened sequence.
KeepsFlattening(G, T, seqs) ==
    /\ seqs \in Seq(Seq(T))
    /\ <<0, <<>>>> \in G
    /\ \A k \in 1 .. Len(seqs), v \in Seq(T) :
          <<k - 1, v>> \in G => <<k, v \o seqs[k]>> \in G

LEMMA FlattenFold ==
    ASSUME NEW T, NEW seqs, NEW G, KeepsFlattening(G, T, seqs)
    PROVE  FlattenSeq(seqs) \in Seq(T) /\ <<Len(seqs), FlattenSeq(seqs)>> \in G
<1> USE DEF KeepsFlattening
<1> DEFINE n == Len(seqs)
           Upto(m, f) == /\ f \in [1 .. m -> Seq(T)]
                         /\ \A i \in 1 .. m : f[i] = IF i = 1 THEN seqs[i] ELSE f[i - 1] \o seqs[i]
           Unfolded(f) ==
               f = [i \in 1 .. n |-> IF i = 1 THEN seqs[i] ELSE f[i - 1] \o seqs[i]]
           whole == CHOOSE f : Unfolded(f)
           J == {m \in Nat : m <= n => \E f : Upto(m, f)}
<1>1. n \in Nat /\ \A i \in 1 .. n : seqs[i] \in Seq(T)
  BY LenProperties, ElementOfSeq
<1>2. FlattenSeq(seqs) = IF n = 0 THEN seqs ELSE whole[n]
  BY DEF FlattenSeq
<1>3. \A k \in 1 .. n, v \in Seq(T) : <<k - 1, v>> \in G => <<k, v \o seqs[k]>> \in G
  OBVIOUS
<1> HIDE DEF n
<1>4. 0 \in J
  <2>1. Upto(0, [i \in 1 .. 0 |-> <<>>])
    OBVIOUS
  <2> HIDE DEF Upto
  <2> QED BY <2>1
<1>5. \A m \in Nat : m \in J => m + 1 \in J
  <2> SUFFICES ASSUME NEW m \in Nat, m \in J, m + 1 <= n
               PROVE  \E g : Upto(m + 1, g)
    <3> HIDE DEF Upto
    <3> QED OBVIOUS
  <2>0. PICK f : Upto(m, f)
    <3> HIDE DEF Upto
    <3>1. m <= n
      BY <1>1
    <3> QED BY <3>1
  <2> HIDE DEF J
  <2> DEFINE last == IF m = 0 THEN seqs[m + 1] ELSE f[m] \o seqs[m + 1]
             g == [i \in 1 .. m + 1 |-> IF i = m + 1 THEN last ELSE f[i]]
  <2>1. last \in Seq(T)
    <3>1. m + 1 \in 1 .. n /\ (m # 0 => m \in 1 .. m)
      BY <1>1
    <3>2. seqs[m + 1] \in Seq(T) /\ (m # 0 => f[m] \in Seq(T))
      BY <1>1, <2>0, <3>1
    <3> QED BY <3>2, ConcatProperties
  <2> HIDE DEF last
  <2>2. g \in [1 .. m + 1 -> Seq(T)]
    BY <2>0, <2>1
  <2>3. ASSUME NEW i \in 1 .. m + 1
        PROVE  g[i] = IF i = 1 THEN seqs[i] ELSE g[i - 1] \o seqs[i]
    <3>1. CASE i = m + 1
      <4>1. g[i] = last /\ (i = 1 <=> m = 0) /\ i - 1 = m
        BY <3>1
      <4>2. m # 0 => g[m] = f[m]
        <5>1. m # 0 => m \in 1 .. m + 1 /\ m # m + 1
          OBVIOUS
        <5> QED BY <5>1
      <4> QED BY <3>1, <4>1, <4>2 DEF last
    <3>2. CASE i # m + 1
      <4>1. i \in 1 .. m /\ (i # 1 => i - 1 \in 1 .. m + 1 /\ i - 1 # m + 1)
        BY <3>2
      <4>2. g[i] = f[i] /\ (i # 1 => g[i - 1] = f[i - 1])
        BY <3>2, <4>1
      <4> QED BY <2>0, <4>1, <4>2
    <3> QED BY <3>1, <3>2
  <2>4. Upto(m + 1, g)
    <3> HIDE DEF g
    <3> QED BY <2>2, <2>3
  <2> HIDE DEF Upto
  <2> QED BY <2>4
<1> HIDE DEF J
<1>6. n \in J
  BY <1>1, <1>4, <1>5, Counting
<1>7. PICK f : Upto(n, f)
  <2>1. n \in Nat /\ (n <= n => \E f : Upto(n, f))
    <3> HIDE DEF Upto
    <3> QED BY <1>6 DEF J
  <2> HIDE DEF Upto
  <2> QED BY <2>1
<1>8. Unfolded(whole)
  <2>1. f = [i \in 1 .. n |-> f[i]]
    BY <1>7
  <2>2. Unfolded(f)
    BY <1>7, <2>1
  <2> QED BY <2>2
<1> HIDE DEF whole
<1>9. \A i \in 1 .. n : whole[i] = IF i = 1 THEN seqs[i] ELSE whole[i - 1] \o seqs[i]
  <2> SUFFICES ASSUME NEW i \in 1 .. n
               PROVE  whole[i] = IF i = 1 THEN seqs[i] ELSE whole[i - 1] \o seqs[i]
    OBVIOUS
  <2> QED BY <1>8
<1> DEFINE K == {m \in Nat : m <= n /\ m # 0 => whole[m] \in Seq(T) /\ <<m, whole[m]>> \in G}
<1>10. 0 \in K
  OBVIOUS
<1>11. \A m \in Nat : m \in K => m + 1 \in K
  <2> SUFFICES ASSUME NEW m \in Nat, m \in K, m + 1 <= n
               PROVE  whole[m + 1] \in Seq(T) /\ <<m + 1, whole[m + 1]>> \in G
    OBVIOUS
  <2>1. m + 1 \in 1 .. n /\ m + 1 - 1 = m
    BY <1>1
  <2>2. m # 0 => whole[m] \in Seq(T) /\ <<m, whole[m]>> \in G
    BY <1>1
  <2> HIDE DEF K
  <2>3. seqs[m + 1] \in Seq(T)
    BY <1>1, <2>1
  <2>4. CASE m = 0
    <3>1. whole[m + 1] = seqs[m + 1]
      BY <1>9, <2>1, <2>4
    <3>2. <<>> \in Seq(T) /\ <<>> \o seqs[m + 1] = seqs[m + 1]
      BY <2>3, ConcatEmptySeq
    <3>3. <<(m + 1) - 1, <<>>>> \in G
      BY <2>1, <2>4
    <3>4. <<m + 1, <<>> \o seqs[m + 1]>> \in G
      BY <1>3, <2>1, <3>2, <3>3
    <3> QED BY <2>3, <3>1, <3>2, <3>4
  <2>5. CASE m # 0
    <3>1. m + 1 # 1
      BY <2>5
    <3>2. whole[m + 1] = whole[m] \o seqs[m + 1]
      <4> DEFINE i == m + 1
      <4>1. i \in 1 .. n /\ i # 1 /\ i - 1 = m
        BY <2>1, <3>1
      <4> HIDE DEF i
      <4>2. whole[i] = whole[i - 1] \o seqs[i]
        BY <1>9, <4>1
      <4> QED BY <4>1, <4>2 DEF i
    <3>3. whole[m] \o seqs[m + 1] \in Seq(T)
      BY <2>2, <2>3, <2>5, ConcatProperties
    <3>4. <<(m + 1) - 1, whole[m]>> \in G
      BY <2>1, <2>2, <2>5
    <3>5. <<m + 1, whole[m] \o seqs[m + 1]>> \in G
      BY <1>3, <2>1, <2>2, <2>5, <3>4
    <3> QED BY <3>2, <3>3, <3>5
  <2> QED BY <2>4, <2>5
<1>12. n \in K
  <2> HIDE DEF K
  <2> QED BY <1>1, <1>10, <1>11, Counting
<1>13. CASE n = 0
  <2>1. seqs = <<>>
    BY <1>13 DEF n
  <2> QED BY <1>2, <1>13, <2>1 DEF n
<1>14. CASE n # 0
  <2>1. whole[n] \in Seq(T) /\ <<n, whole[n]>> \in G
    BY <1>1, <1>12, <1>14
  <2> QED BY <1>2, <1>14, <2>1 DEF n
<1> QED BY <1>13, <1>14

\* The spans of one candidate, as Spans lays them out.
Proposed(c) ==
    IF Usable(c)
    THEN [j \in DOMAIN SpansOf(c) |-> [file |-> c.file, span |-> SpansOf(c)[j]]]
    ELSE <<>>

Proposals == [file : DOMAIN Index, span : Segments]

\* Parts of files that share no line.
Laid(spans) ==
    /\ spans \in Seq(Proposals)
    /\ \A i \in 1 .. Len(spans) : Proper(spans[i].span, Len(Index[spans[i].file].sizes))
    /\ \A i, j \in 1 .. Len(spans) :
          spans[i].file = spans[j].file /\ i # j
             => LinesOf(spans[i].span) \cap LinesOf(spans[j].span) = {}

LEMMA CandidateLaid ==
    ASSUME NEW c, c.file \in DOMAIN Index
    PROVE  /\ Laid(Proposed(c)) /\ Proposed(c) \in Seq(Proposals)
           /\ \A i \in 1 .. Len(Proposed(c)) : Proposed(c)[i].file = c.file
<1>1. CASE ~Usable(c)
  <2>1. Proposed(c) = <<>>
    BY <1>1 DEF Proposed
  <2>2. <<>> \in Seq(Proposals) /\ \A i \in 1 .. Len(<<>>) : FALSE
    OBVIOUS
  <2> QED BY <2>1, <2>2 DEF Laid
<1>2. CASE Usable(c)
  <2> DEFINE spans == SpansOf(c)
             n == Len(spans)
             laid == [j \in 1 .. n |-> [file |-> c.file, span |-> spans[j]]]
  <2>1. /\ DOMAIN spans = 1 .. n /\ n \in Nat
        /\ \A i \in 1 .. n : Proper(spans[i], Len(Index[c.file].sizes))
        /\ \A i, j \in 1 .. n : i # j => LinesOf(spans[i]) \cap LinesOf(spans[j]) = {}
    <3>1. spans = SpansOf(c)
      OBVIOUS
    <3> HIDE DEF spans
    <3> QED BY <3>1, SpansOfFile
  <2>2. \A i \in 1 .. n : spans[i] \in Segments
    <3>1. spans \in Seq(Segments)
      BY WindowsOfFile
    <3> HIDE DEF spans
    <3> QED BY <2>1, <3>1
  <2>3. Proposed(c) = laid
    BY <1>2, <2>1 DEF Proposed
  <2> HIDE DEF spans, n
  <2>4. laid \in Seq(Proposals) /\ Len(laid) = n
    <3>1. \A j \in 1 .. n : [file |-> c.file, span |-> spans[j]] \in Proposals
      BY <2>2 DEF Proposals
    <3>2. laid \in [1 .. n -> Proposals]
      BY <3>1
    <3> HIDE DEF laid
    <3>3. laid \in Seq(Proposals)
      BY <2>1, <3>2
    <3> QED BY <2>1, <3>2, <3>3, LenProperties
  <2>5. \A i \in 1 .. n : laid[i].file = c.file /\ laid[i].span = spans[i]
    OBVIOUS
  <2> HIDE DEF laid
  <2>6. Laid(laid)
    BY <2>1, <2>4, <2>5 DEF Laid
  <2> QED BY <2>3, <2>4, <2>5, <2>6
<1> QED BY <1>1, <1>2

\* Spans of other files can follow.
LEMMA LaidTogether ==
    ASSUME NEW s, NEW t, Laid(s), Laid(t),
           \A i \in 1 .. Len(s), j \in 1 .. Len(t) : s[i].file # t[j].file
    PROVE  /\ Laid(s \o t)
           /\ \A k \in 1 .. Len(s \o t) :
                 \/ \E i \in 1 .. Len(s) : (s \o t)[k] = s[i]
                 \/ \E i \in 1 .. Len(t) : (s \o t)[k] = t[i]
<1> DEFINE u == s \o t
           m == Len(s)
           n == Len(t)
<1>1. s \in Seq(Proposals) /\ t \in Seq(Proposals)
  BY DEF Laid
<1>2. m \in Nat /\ n \in Nat
  BY <1>1, LenProperties
<1>3. /\ u \in Seq(Proposals) /\ Len(u) = m + n
      /\ \A k \in 1 .. m + n : u[k] = IF k <= m THEN s[k] ELSE t[k - m]
  BY <1>1, ConcatProperties
<1>4. /\ \A i \in 1 .. m : Proper(s[i].span, Len(Index[s[i].file].sizes))
      /\ \A i, j \in 1 .. m : s[i].file = s[j].file /\ i # j
                                 => LinesOf(s[i].span) \cap LinesOf(s[j].span) = {}
      /\ \A i \in 1 .. n : Proper(t[i].span, Len(Index[t[i].file].sizes))
      /\ \A i, j \in 1 .. n : t[i].file = t[j].file /\ i # j
                                 => LinesOf(t[i].span) \cap LinesOf(t[j].span) = {}
      /\ \A i \in 1 .. m, j \in 1 .. n : s[i].file # t[j].file
  BY DEF Laid
<1> HIDE DEF u, m, n
<1>5. \A k \in 1 .. m + n : \/ k \in 1 .. m /\ u[k] = s[k]
                            \/ k - m \in 1 .. n /\ k > m /\ u[k] = t[k - m]
  <2> SUFFICES ASSUME NEW k \in 1 .. m + n
               PROVE  \/ k \in 1 .. m /\ u[k] = s[k]
                      \/ k - m \in 1 .. n /\ k > m /\ u[k] = t[k - m]
    OBVIOUS
  <2>1. u[k] = IF k <= m THEN s[k] ELSE t[k - m]
    BY <1>3
  <2> QED BY <1>2, <2>1
<1>6. \A k \in 1 .. m + n : Proper(u[k].span, Len(Index[u[k].file].sizes))
  BY <1>4, <1>5
<1>7. ASSUME NEW k \in 1 .. m + n, NEW l \in 1 .. m + n, u[k].file = u[l].file, k # l
      PROVE  LinesOf(u[k].span) \cap LinesOf(u[l].span) = {}
  <2>1. CASE k \in 1 .. m /\ u[k] = s[k] /\ l \in 1 .. m /\ u[l] = s[l]
    BY <1>4, <1>7, <2>1
  <2>2. CASE k - m \in 1 .. n /\ u[k] = t[k - m] /\ l - m \in 1 .. n /\ u[l] = t[l - m]
    <3>1. k - m # l - m
      BY <1>2, <1>7
    <3> QED BY <1>4, <1>7, <2>2, <3>1
  <2>3. CASE k \in 1 .. m /\ u[k] = s[k] /\ l - m \in 1 .. n /\ u[l] = t[l - m]
    BY <1>4, <1>7, <2>3
  <2>4. CASE k - m \in 1 .. n /\ u[k] = t[k - m] /\ l \in 1 .. m /\ u[l] = s[l]
    BY <1>4, <1>7, <2>4
  <2> QED BY <1>5, <2>1, <2>2, <2>3, <2>4
<1>8. Laid(u)
  BY <1>3, <1>6, <1>7 DEF Laid
<1>9. \A k \in 1 .. Len(u) : \/ \E i \in 1 .. m : u[k] = s[i]
                             \/ \E i \in 1 .. n : u[k] = t[i]
  BY <1>3, <1>5
<1> QED BY <1>8, <1>9 DEF u, m, n

\* The spans of a request that was accepted.
LEMMA SpansLaid ==
    ASSUME NEW S, NEW request, request.candidates \in Seq(S), RequestAccepted(request)
    PROVE  Laid(Spans(request))
<1> DEFINE candidates == request.candidates
           n == Len(candidates)
           seqs == [i \in DOMAIN candidates |-> Proposed(candidates[i])]
           Known(k) == {candidates[i].file : i \in 1 .. k}
           G == {p \in (0 .. n) \X Seq(Proposals) :
                    /\ Laid(p[2])
                    /\ \A j \in 1 .. Len(p[2]) : p[2][j].file \in Known(p[1])}
<1>1. n \in Nat /\ DOMAIN candidates = 1 .. n
  BY LenProperties
<1>2. Spans(request) = FlattenSeq(seqs)
  BY DEF Spans, Proposed
<1>3. /\ \A i \in 1 .. n : candidates[i].file \in DOMAIN Index
      /\ \A i, j \in 1 .. n : candidates[i].file = candidates[j].file => i = j
  BY <1>1 DEF RequestAccepted, ToSet
<1> HIDE DEF n, candidates
<1>4. \A i \in 1 .. n : /\ Laid(Proposed(candidates[i])) /\ Proposed(candidates[i]) \in Seq(Proposals)
                        /\ \A j \in 1 .. Len(Proposed(candidates[i])) :
                              Proposed(candidates[i])[j].file = candidates[i].file
  BY <1>3, CandidateLaid
<1>5. /\ seqs \in Seq(Seq(Proposals)) /\ Len(seqs) = n
      /\ \A i \in 1 .. n : seqs[i] = Proposed(candidates[i])
  <2>1. seqs \in [1 .. n -> Seq(Proposals)]
    BY <1>1, <1>4
  <2>2. \A i \in 1 .. n : seqs[i] = Proposed(candidates[i])
    BY <1>1
  <2> HIDE DEF seqs
  <2>3. seqs \in Seq(Seq(Proposals))
    BY <1>1, <2>1
  <2> QED BY <1>1, <2>1, <2>2, <2>3, LenProperties
<1>6. <<0, <<>>>> \in G
  <2>1. <<>> \in Seq(Proposals) /\ \A i \in 1 .. Len(<<>>) : FALSE
    OBVIOUS
  <2>2. Laid(<<>>) /\ 0 \in 0 .. n
    BY <1>1, <2>1 DEF Laid
  <2> QED BY <2>1, <2>2
<1>7. ASSUME NEW k \in 1 .. n, NEW v \in Seq(Proposals), <<k - 1, v>> \in G
      PROVE  <<k, v \o seqs[k]>> \in G
  <2> DEFINE t == seqs[k]
             u == v \o t
  <2>1. /\ Laid(t) /\ t \in Seq(Proposals)
        /\ \A j \in 1 .. Len(t) : t[j].file = candidates[k].file
    BY <1>4, <1>5
  <2>2. Laid(v) /\ \A j \in 1 .. Len(v) : v[j].file \in Known(k - 1)
    BY <1>7
  <2>3. candidates[k].file \in Known(k) /\ Known(k - 1) \subseteq Known(k)
    <3>1. k \in 1 .. k /\ \A i \in 1 .. k - 1 : i \in 1 .. k
      BY <1>1
    <3> QED BY <3>1
  <2>4. candidates[k].file \notin Known(k - 1)
    <3>1. \A i \in 1 .. k - 1 : i \in 1 .. n /\ i # k
      BY <1>1
    <3> QED BY <1>3, <3>1
  <2>5. \A i \in 1 .. Len(v), j \in 1 .. Len(t) : v[i].file # t[j].file
    BY <2>1, <2>2, <2>4
  <2> HIDE DEF t, Known
  <2>6. /\ Laid(u)
        /\ \A i \in 1 .. Len(u) : \/ \E j \in 1 .. Len(v) : u[i] = v[j]
                                  \/ \E j \in 1 .. Len(t) : u[i] = t[j]
    BY <2>1, <2>2, <2>5, LaidTogether
  <2>7. u \in Seq(Proposals) /\ k \in 0 .. n
    BY <1>1, <2>6 DEF Laid
  <2>8. \A i \in 1 .. Len(u) : u[i].file \in Known(k)
    BY <2>1, <2>2, <2>3, <2>6
  <2> HIDE DEF u
  <2>9. <<k, u>> \in G
    BY <2>6, <2>7, <2>8
  <2> QED BY <2>9 DEF u, t
<1> HIDE DEF G, seqs
<1>8. KeepsFlattening(G, Proposals, seqs)
  BY <1>5, <1>6, <1>7 DEF KeepsFlattening
<1>9. <<n, FlattenSeq(seqs)>> \in G
  BY <1>5, <1>8, FlattenFold
<1>10. Laid(FlattenSeq(seqs))
  BY <1>9 DEF G
<1> QED BY <1>2, <1>10

-----------------------------------------------------------------------------
(* Packing the spans into the budget.                                      *)

LEMMA TotalAppend ==
    ASSUME NEW counts \in Seq(Nat), NEW x \in Nat
    PROVE  Total(Append(counts, x)) = Total(counts) + x /\ Total(counts) \in Nat
<1> DEFINE n == Len(counts)
           more == Append(counts, x)
<1>1. /\ n \in Nat /\ more \in Seq(Nat) /\ Len(more) = n + 1 /\ more[n + 1] = x
      /\ \A k \in 1 .. n : more[k] = counts[k]
  BY LenProperties, AppendProperties
<1> HIDE DEF more
<1>2. PICK sums : Offsets(more, sums)
  BY <1>1, OffsetsExist
<1> HIDE DEF n
<1>3. /\ sums \in [0 .. n + 1 -> Nat] /\ sums[0] = 0
      /\ \A k \in 1 .. n + 1 : sums[k] = sums[k - 1] + more[k]
  BY <1>1, <1>2 DEF Offsets
<1> DEFINE part == [k \in 0 .. n |-> sums[k]]
<1>4. Offsets(counts, part)
  <2>1. /\ \A k \in 0 .. n : k \in 0 .. n + 1
        /\ \A k \in 1 .. n : k \in 0 .. n /\ k - 1 \in 0 .. n /\ k \in 1 .. n + 1
        /\ 0 \in 0 .. n
    BY <1>1
  <2>2. part \in [0 .. n -> Nat] /\ part[0] = 0
    BY <1>3, <2>1
  <2>3. \A k \in 1 .. n : part[k] = part[k - 1] + counts[k]
    BY <1>1, <1>3, <2>1
  <2> HIDE DEF part
  <2> QED BY <2>2, <2>3 DEF Offsets, n
<1>5. Total(counts) = part[n]
  <2> HIDE DEF part
  <2> QED BY <1>4, TotalIs DEF n
<1>6. Total(more) = sums[n + 1]
  BY <1>1, <1>2, TotalIs
<1>7. n \in 0 .. n /\ n + 1 \in 1 .. n + 1 /\ (n + 1) - 1 = n /\ n \in 0 .. n + 1
  BY <1>1
<1>8. sums[n + 1] = sums[n] + x /\ sums[n] \in Nat
  <2> DEFINE k == n + 1
  <2>1. k \in 1 .. n + 1 /\ k - 1 = n
    BY <1>7
  <2> HIDE DEF k
  <2>2. sums[k] = sums[k - 1] + more[k]
    BY <1>3, <2>1
  <2>3. sums[n] \in Nat
    BY <1>3, <1>7
  <2> QED BY <1>1, <2>1, <2>2, <2>3 DEF k
<1> QED BY <1>5, <1>6, <1>7, <1>8 DEF more

\* What packing one span after the other keeps.
KeepsPacking(G, V, n, spans, start) ==
    /\ n \in Nat /\ DOMAIN spans = 1 .. n
    /\ G \in SUBSET ((SUBSET (1 .. n)) \X V) /\ <<{}, start>> \in G
    /\ \A s \in SUBSET (1 .. n), v \in V :
          s # {} /\ <<s \ {Max(s)}, v>> \in G => <<s, PackSpan(v, spans[Max(s)])>> \in G

LEMMA PackFold ==
    ASSUME NEW n, NEW V, NEW G, NEW request, NEW start,
           start = [items |-> <<>>, remaining |-> request.budget],
           KeepsPacking(G, V, n, Spans(request), start)
    PROVE  <<1 .. n, Pack(request)>> \in G
<1> USE DEF KeepsPacking
<1> DEFINE spans == Spans(request)
           S == 1 .. n
           Packed(v, span) == PackSpan(v, span)
           step == [p \in (SUBSET S) \X V |-> Packed(p[2], spans[Max(p[1])])]
           Unfolded(iter) ==
               iter = [s \in SUBSET S |->
                          IF s = {} THEN start ELSE Packed(iter[s \ {Max(s)}], spans[Max(s)])]
           whole == CHOOSE iter : Unfolded(iter)
<1>1. \A s \in SUBSET S, v \in V : step[<<s, v>>] = Packed(v, spans[Max(s)])
  OBVIOUS
<1>2. LastIn(n) \in Picks(S) /\ IsFiniteSet(S)
  BY LastInPicks
<1>3. \A s \in SUBSET S : s # {} => LastIn(n)[s] = Max(s)
  BY DEF LastIn
<1>4. Pack(request) = whole[S]
  <2> HIDE DEF spans, Packed
  <2>1. DOMAIN spans = S
    BY DEF spans
  <2>2. Pack(request) = FoldLeft(PackSpan, start, spans)
    BY DEF Pack, spans
  <2> QED BY <2>1, <2>2 DEF FoldLeft, MapThenFoldSet, Packed
<1>5. \A s \in SUBSET S, v \in V :
         s # {} /\ <<s \ {Max(s)}, v>> \in G => <<s, Packed(v, spans[Max(s)])>> \in G
  OBVIOUS
<1> HIDE DEF step, S, Packed, spans
<1>6. \A s \in SUBSET S, v \in V :
         s # {} /\ <<s \ {LastIn(n)[s]}, v>> \in G => <<s, step[<<s, v>>]>> \in G
  BY <1>1, <1>3, <1>5
<1>7. G \in SUBSET ((SUBSET S) \X V)
  BY DEF S
<1>s. Stays(G, S, V, LastIn(n), start, step)
  BY <1>6, <1>7 DEF Stays
<1>8. PICK iter \in [SUBSET S -> V] : Unrolls(iter, G, S, LastIn(n), start, step)
  BY <1>2, <1>s, Folding
<1>u. /\ iter[{}] = start
      /\ \A s \in SUBSET S :
            /\ <<s, iter[s]>> \in G
            /\ s # {} => iter[s] = step[<<s, iter[s \ {LastIn(n)[s]}]>>]
  BY <1>8 DEF Unrolls
<1>9. \A s \in SUBSET S : s # {} => iter[s] = Packed(iter[s \ {Max(s)}], spans[Max(s)])
  <2> SUFFICES ASSUME NEW s \in SUBSET S, s # {}
               PROVE  iter[s] = Packed(iter[s \ {Max(s)}], spans[Max(s)])
    OBVIOUS
  <2>1. iter[s \ {Max(s)}] \in V
    BY <1>8
  <2> QED BY <1>1, <1>3, <1>u, <2>1
<1>10. Unfolded(iter)
  BY <1>8, <1>u, <1>9
<1>11. Unfolded(whole)
  BY <1>10
<1> HIDE DEF whole
<1> DEFINE K == {s \in SUBSET S : <<s, whole[s]>> \in G}
<1>12. {} \in K
  BY <1>11
<1>13. \A s \in SUBSET S : s # {} /\ s \ {LastIn(n)[s]} \in K => s \in K
  <2> SUFFICES ASSUME NEW s \in SUBSET S, s # {}, <<s \ {Max(s)}, whole[s \ {Max(s)}]>> \in G
               PROVE  <<s, whole[s]>> \in G
    BY <1>3
  <2>1. whole[s] = Packed(whole[s \ {Max(s)}], spans[Max(s)])
    BY <1>11
  <2>2. whole[s \ {Max(s)}] \in V
    BY <1>7
  <2> QED BY <1>5, <2>1, <2>2
<1> HIDE DEF K
<1>14. SUBSET S \subseteq K
  BY <1>2, <1>12, <1>13, Shrinking
<1>15. <<S, whole[S]>> \in G
  BY <1>14 DEF K
<1> QED BY <1>4, <1>15 DEF S

Items == [file : DOMAIN Index, start : Int, end : Int, tokens : Nat]

Packings == [items : Seq(Items), remaining : Nat]

Tokens(items) == [i \in DOMAIN items |-> items[i].tokens]

\* An item quotes lines of a span, and fits.
Quotes(item, proposed) ==
    /\ item.file = proposed.file
    /\ proposed.span.start <= item.start /\ item.end <= proposed.span.end
    /\ item.tokens <= MaxItemBytes

\* What was packed of the spans whose positions are s.
Packed(packed, s, spans, budget) ==
    /\ packed \in Packings
    /\ Total(Tokens(packed.items)) + packed.remaining = budget
    /\ Len(packed.items) <= MaxItems
    /\ \A i \in 1 .. Len(packed.items) : \E k \in s : Quotes(packed.items[i], spans[k])
    /\ \A i, j \in 1 .. Len(packed.items) :
          LET a == packed.items[i]
              b == packed.items[j]
          IN  a.file = b.file /\ i # j => a.end < b.start \/ b.end < a.start

\* Spans of one file that share no line are one after the other.
LEMMA LaidInOrder ==
    ASSUME NEW spans, Laid(spans), NEW i \in 1 .. Len(spans), NEW j \in 1 .. Len(spans),
           spans[i].file = spans[j].file, i # j
    PROVE  \/ spans[i].span.end < spans[j].span.start
           \/ spans[j].span.end < spans[i].span.start
<1> DEFINE g == spans[i].span
           h == spans[j].span
           a == g.start
           b == g.end
           c == h.start
           d == h.end
<1>1. Proper(g, Len(Index[spans[i].file].sizes)) /\ Proper(h, Len(Index[spans[j].file].sizes))
  BY DEF Laid
<1>2. /\ a \in Int /\ b \in Int /\ c \in Int /\ d \in Int /\ a <= b /\ c <= d
  BY <1>1 DEF Proper
<1>3. LinesOf(g) \cap LinesOf(h) = {}
  BY DEF Laid
<1>4. (a .. b) \cap (c .. d) = {}
  BY <1>3 DEF LinesOf
<1> HIDE DEF a, b, c, d
<1>5. b < c \/ d < a
  <2>1. a \in a .. b /\ c \in c .. d
    BY <1>2
  <2>2. a \notin c .. d /\ c \notin a .. b
    BY <1>4, <2>1, Zenon
  <2> QED BY <1>2, <2>2
<1> QED BY <1>5 DEF a, b, c, d

\* Packing a further span.
LEMMA PackOne ==
    ASSUME NEW spans, Laid(spans), NEW k \in 1 .. Len(spans),
           NEW s \in SUBSET (1 .. Len(spans)), k \notin s,
           NEW budget \in Nat, NEW packed, Packed(packed, s, spans, budget)
    PROVE  Packed(PackSpan(packed, spans[k]), s \cup {k}, spans, budget)
<1> DEFINE proposed == spans[k]
           span == proposed.span
           sizes == Index[proposed.file].sizes
           capacity == Min({packed.remaining, MaxItemBytes})
           lines == FitSpan(sizes, span, capacity)
           tokens == Bytes(sizes, lines.start, lines.end)
           item == [file |-> proposed.file, start |-> lines.start,
                    end |-> lines.end, tokens |-> tokens]
           items == packed.items
           more == Append(items, item)
           n == Len(items)
<1>1. /\ packed \in Packings /\ items \in Seq(Items) /\ packed.remaining \in Nat /\ n \in Nat
      /\ Total(Tokens(items)) + packed.remaining = budget /\ n <= MaxItems
      /\ \A i \in 1 .. n : \E l \in s : Quotes(items[i], spans[l])
      /\ \A i, j \in 1 .. n : items[i].file = items[j].file /\ i # j =>
            items[i].end < items[j].start \/ items[j].end < items[i].start
  <2>1. packed \in Packings
    BY DEF Packed
  <2>2. items \in Seq(Items) /\ packed.remaining \in Nat
    BY <2>1 DEF Packings
  <2> QED BY <2>1, <2>2, LenProperties DEF Packed
<1>2. CASE PackSpan(packed, spans[k]) = packed
  <2>1. \A i \in 1 .. n : \E l \in s \cup {k} : Quotes(items[i], spans[l])
    BY <1>1
  <2> QED BY <1>1, <1>2, <2>1 DEF Packed
<1>3. CASE PackSpan(packed, spans[k]) # packed
  <2>1. /\ PackSpan(packed, spans[k]) = [items |-> more, remaining |-> packed.remaining - tokens]
        /\ ~(n >= MaxItems) /\ tokens # 0
    BY <1>3 DEF PackSpan
  <2>2. /\ proposed.file \in DOMAIN Index /\ sizes \in Seq(Nat \ {0})
        /\ Proper(span, Len(sizes))
    <3>1. proposed \in Proposals
      BY ElementOfSeq DEF Laid
    <3>2. proposed.file \in DOMAIN Index
      BY <3>1 DEF Proposals
    <3> QED BY <3>2, IndexAssumption DEF Laid
  <2>3. /\ capacity \in Nat /\ capacity <= packed.remaining /\ capacity <= MaxItemBytes
    <3> DEFINE r == packed.remaining
    <3>1. r \in Nat /\ MaxItemBytes \in Nat
      BY <1>1, LimitAssumption
    <3> HIDE DEF r
    <3>2. Min({r, MaxItemBytes}) = IF r <= MaxItemBytes THEN r ELSE MaxItemBytes
      BY <3>1, LesserOf
    <3>3. /\ Min({r, MaxItemBytes}) \in Nat /\ Min({r, MaxItemBytes}) <= r
          /\ Min({r, MaxItemBytes}) <= MaxItemBytes
      BY <3>1, <3>2
    <3> QED BY <3>3 DEF r
  <2> HIDE DEF capacity, sizes, span
  <2>4. Fits(lines, sizes, span, capacity)
    BY <2>2, <2>3, FitSpanFits
  <2> HIDE DEF lines
  <2>5. Inside(lines, sizes, span, capacity)
    BY <2>1, <2>4 DEF Fits
  <2>6. /\ lines.start \in Int /\ lines.end \in Int
        /\ span.start <= lines.start /\ lines.start <= lines.end /\ lines.end <= span.end
        /\ tokens <= capacity
    BY <2>5 DEF Inside
  <2>7. tokens \in Nat
    <3> DEFINE m == Len(sizes)
               a == lines.start
               b == lines.end
    <3>1. Growing(sizes) /\ m \in Nat
      BY <2>2, BytesGrow
    <3>2. span.start \in 1 .. m /\ span.end \in span.start .. m
      BY <2>2 DEF Proper
    <3>3. a \in Int /\ b \in Int /\ span.start <= a /\ a <= b /\ b <= span.end
      BY <2>6
    <3> HIDE DEF m, a, b
    <3>4. a \in 1 .. m + 1 /\ b \in 0 .. m /\ a <= b + 1
      BY <3>1, <3>2, <3>3
    <3>5. Bytes(sizes, a, b) \in Nat
      BY <3>1, <3>4 DEF Growing, m
    <3> QED BY <3>5 DEF a, b
  <2> HIDE DEF tokens
  <2>8. /\ item \in Items /\ item.file = proposed.file /\ item.start = lines.start
        /\ item.end = lines.end /\ item.tokens = tokens
    BY <2>2, <2>6, <2>7 DEF Items
  <2>9. Quotes(item, spans[k])
    <3>1. tokens <= MaxItemBytes
      BY <2>3, <2>6, <2>7, LimitAssumption
    <3> QED BY <2>6, <2>8, <3>1 DEF Quotes, span
  <2> HIDE DEF item
  <2>10. /\ more \in Seq(Items) /\ Len(more) = n + 1 /\ more[n + 1] = item
         /\ \A i \in 1 .. n : more[i] = items[i]
    BY <1>1, <2>8, AppendProperties
  <2>11. packed.remaining - tokens \in Nat
    BY <1>1, <2>3, <2>6, <2>7
  <2>12. Total(Tokens(more)) + (packed.remaining - tokens) = budget
    <3>1. Tokens(items) \in Seq(Nat) /\ Len(Tokens(items)) = n
      <4>1. DOMAIN items = 1 .. n /\ \A i \in 1 .. n : items[i] \in Items
        BY <1>1, LenProperties, ElementOfSeq
      <4>2. \A i \in 1 .. n : items[i].tokens \in Nat
        BY <4>1 DEF Items
      <4>3. Tokens(items) \in [1 .. n -> Nat]
        BY <4>1, <4>2 DEF Tokens
      <4>4. Tokens(items) \in Seq(Nat)
        <5> DEFINE t == Tokens(items)
        <5>1. n \in Nat /\ t \in [1 .. n -> Nat]
          BY <1>1, <4>3
        <5> HIDE DEF t, n
        <5>2. t \in Seq(Nat)
          BY <5>1
        <5> QED BY <5>2 DEF t
      <4>5. DOMAIN Tokens(items) = 1 .. Len(Tokens(items)) /\ Len(Tokens(items)) \in Nat
        BY <4>4, LenProperties
      <4> HIDE DEF n
      <4> QED BY <1>1, <4>3, <4>4, <4>5
    <3>2. Tokens(more) = Append(Tokens(items), tokens)
      <4> DEFINE t == Tokens(items)
                 u == Append(t, tokens)
                 w == Tokens(more)
      <4>1. /\ u \in Seq(Nat) /\ Len(u) = n + 1 /\ u[n + 1] = tokens
            /\ \A i \in 1 .. n : u[i] = t[i]
        <5> HIDE DEF t, n
        <5>1. t \in Seq(Nat) /\ Len(t) = n
          BY <3>1 DEF t
        <5> QED BY <2>7, <5>1, AppendProperties
      <4>2. DOMAIN more = 1 .. n + 1 /\ DOMAIN items = 1 .. n
        <5> HIDE DEF more, n, items
        <5>1. DOMAIN more = 1 .. Len(more)
          BY <2>10, LenProperties
        <5>2. DOMAIN items = 1 .. Len(items)
          BY <1>1, LenProperties
        <5> QED BY <2>10, <5>1, <5>2 DEF n
      <4>3. \A i \in 1 .. n : t[i] = items[i].tokens
        BY <4>2 DEF Tokens
      <4>4. w = [i \in 1 .. n + 1 |-> more[i].tokens]
        BY <4>2 DEF Tokens
      <4>5. u \in [1 .. n + 1 -> Nat]
        <5> HIDE DEF u, n
        <5> QED BY <4>1, LenProperties
      <4> HIDE DEF u, t, w, more, n, items
      <4>6. \A i \in 1 .. n + 1 : more[i].tokens = u[i]
        <5> SUFFICES ASSUME NEW i \in 1 .. n + 1 PROVE more[i].tokens = u[i]
          OBVIOUS
        <5>1. i \in 1 .. n \/ i = n + 1
          BY <1>1
        <5> QED BY <2>8, <2>10, <4>1, <4>3, <5>1
      <4>7. w = u
        BY <4>4, <4>5, <4>6
      <4> QED BY <4>7 DEF w, u, t
    <3>3. /\ Total(Append(Tokens(items), tokens)) = Total(Tokens(items)) + tokens
          /\ Total(Tokens(items)) \in Nat
      <4> HIDE DEF items
      <4> QED BY <2>7, <3>1, TotalAppend
    <3> HIDE DEF items, more
    <3> QED BY <1>1, <2>7, <3>2, <3>3
  <2>13. n + 1 <= MaxItems
    <3> HIDE DEF n
    <3> QED BY <1>1, <2>1, LimitAssumption
  <2> HIDE DEF more, items, n
  <2>14. \A i \in 1 .. n + 1 : i \in 1 .. n \/ i = n + 1
    BY <1>1
  <2>15. \A i \in 1 .. n + 1 : \E l \in s \cup {k} : Quotes(more[i], spans[l])
    BY <1>1, <2>9, <2>10, <2>14
  <2>16. ASSUME NEW i \in 1 .. n, items[i].file = item.file
         PROVE  items[i].end < item.start \/ item.end < items[i].start
    <3>1. PICK l \in s : Quotes(items[i], spans[l])
      BY <1>1
    <3> DEFINE g == spans[l].span
               h == spans[k].span
    <3>2. /\ l \in 1 .. Len(spans) /\ l # k /\ spans[l].file = spans[k].file
      BY <2>8, <2>16, <3>1 DEF Quotes
    <3>3. g.end < h.start \/ h.end < g.start
      BY <3>2, LaidInOrder
    <3>4. /\ g.start \in Int /\ g.end \in Int /\ h.start \in Int /\ h.end \in Int
      BY <3>2 DEF Laid, Proper
    <3>5. /\ items[i].start \in Int /\ items[i].end \in Int
          /\ g.start <= items[i].start /\ items[i].end <= g.end
      <4>1. items[i] \in Items
        BY <1>1, ElementOfSeq DEF n
      <4> QED BY <3>1, <4>1 DEF Items, Quotes
    <3>6. /\ item.start \in Int /\ item.end \in Int
          /\ h.start <= item.start /\ item.end <= h.end
      BY <2>8, <2>9 DEF Items, Quotes
    <3> DEFINE a == items[i].start
               b == items[i].end
               c == item.start
               d == item.end
               first == g.start
               last == g.end
               from == h.start
               to == h.end
    <3>7. /\ first <= a /\ b <= last /\ from <= c /\ d <= to
          /\ a \in Int /\ b \in Int /\ c \in Int /\ d \in Int
      BY <3>5, <3>6
    <3>8. /\ first \in Int /\ last \in Int /\ from \in Int /\ to \in Int
          /\ last < from \/ to < first
      BY <3>3, <3>4
    <3> HIDE DEF a, b, c, d, first, last, from, to
    <3>9. b < c \/ d < a
      BY <3>7, <3>8
    <3> QED BY <3>9 DEF a, b, c, d
  <2>17. \A i, j \in 1 .. n + 1 : more[i].file = more[j].file /\ i # j =>
            more[i].end < more[j].start \/ more[j].end < more[i].start
    BY <1>1, <2>10, <2>14, <2>16
  <2>18. [items |-> more, remaining |-> packed.remaining - tokens] \in Packings
    BY <2>10, <2>11 DEF Packings
  <2> DEFINE result == [items |-> more, remaining |-> packed.remaining - tokens]
  <2>19. result.items = more /\ result.remaining = packed.remaining - tokens
    OBVIOUS
  <2> HIDE DEF result
  <2>20. Packed(result, s \cup {k}, spans, budget)
    BY <2>10, <2>12, <2>13, <2>15, <2>17, <2>18, <2>19 DEF Packed, result
  <2> QED BY <2>1, <2>20 DEF result, more, items, n
<1> QED BY <1>2, <1>3

\* What packing makes of an accepted request.
LEMMA PackIs ==
    ASSUME NEW S, NEW request, request.candidates \in Seq(S), RequestAccepted(request)
    PROVE  Packed(Pack(request), 1 .. Len(Spans(request)), Spans(request), request.budget)
<1> DEFINE spans == Spans(request)
           n == Len(spans)
           budget == request.budget
           start == [items |-> <<>>, remaining |-> budget]
           V == Packings
           G == {p \in (SUBSET (1 .. n)) \X V : Packed(p[2], p[1], spans, budget)}
<1>1. Laid(spans)
  BY SpansLaid
<1>2. n \in Nat /\ DOMAIN spans = 1 .. n
  BY <1>1, LenProperties DEF Laid
<1>3. budget \in Nat
  BY LimitAssumption DEF RequestAccepted
<1> HIDE DEF spans, n, budget
<1>4. <<{}, start>> \in G
  <2>1. start \in Packings /\ start.items = <<>> /\ start.remaining = budget
    BY <1>3 DEF Packings
  <2>2. Tokens(<<>>) = <<>> /\ Len(<<>>) = 0 /\ <<>> \in Seq(Nat)
    BY DEF Tokens
  <2>3. Total(<<>>) = 0
    <3> DEFINE none == [k \in 0 .. 0 |-> 0]
    <3>1. Offsets(<<>>, none)
      BY <2>2 DEF Offsets
    <3>2. none[0] = 0
      OBVIOUS
    <3> HIDE DEF none
    <3> QED BY <2>2, <3>1, <3>2, TotalIs
  <2>4. Total(Tokens(start.items)) + start.remaining = budget
    BY <1>3, <2>1, <2>2, <2>3
  <2>5. Len(start.items) <= MaxItems /\ 1 .. Len(start.items) = {}
    BY <2>1, <2>2, LimitAssumption
  <2> HIDE DEF start
  <2>6. Packed(start, {}, spans, budget)
    BY <2>1, <2>4, <2>5 DEF Packed
  <2> QED BY <2>1, <2>6
<1>5. ASSUME NEW s \in SUBSET (1 .. n), NEW v \in V, s # {}, <<s \ {Max(s)}, v>> \in G
      PROVE  <<s, PackSpan(v, spans[Max(s)])>> \in G
  <2> DEFINE m == Max(s)
             w == PackSpan(v, spans[m])
  <2>1. m \in s
    <3>1. s \in SUBSET (0 .. n)
      BY <1>2
    <3> QED BY <1>2, <1>5, <3>1, Greatest
  <2>2. Packed(v, s \ {m}, spans, budget)
    BY <1>5
  <2> HIDE DEF m
  <2>3. m \in 1 .. n /\ m \notin s \ {m} /\ s \ {m} \in SUBSET (1 .. n) /\ (s \ {m}) \cup {m} = s
    BY <2>1
  <2>4. Packed(w, (s \ {m}) \cup {m}, spans, budget)
    BY <1>1, <1>3, <2>2, <2>3, PackOne DEF n
  <2>5. Packed(w, s, spans, budget)
    BY <2>3, <2>4
  <2> HIDE DEF w
  <2>6. w \in V
    BY <2>5 DEF Packed
  <2>7. <<s, w>> \in G
    BY <2>5, <2>6
  <2> QED BY <2>7 DEF w, m
<1>6. G \in SUBSET ((SUBSET (1 .. n)) \X V)
  OBVIOUS
<1>7. \A s \in SUBSET (1 .. n), v \in V :
         s # {} /\ <<s \ {Max(s)}, v>> \in G => <<s, PackSpan(v, spans[Max(s)])>> \in G
  BY <1>5
<1>8. start = [items |-> <<>>, remaining |-> request.budget]
  BY DEF budget
<1> HIDE DEF G, V, start
<1>9. KeepsPacking(G, V, n, Spans(request), start)
  BY <1>2, <1>4, <1>6, <1>7 DEF KeepsPacking, spans
<1>10. <<1 .. n, Pack(request)>> \in G
  BY <1>8, <1>9, PackFold
<1>11. Packed(Pack(request), 1 .. n, spans, budget)
  BY <1>10 DEF G
<1> QED BY <1>11 DEF n, spans, budget

-----------------------------------------------------------------------------
(* What was assembled.                                                     *)

Ordered(request) == RequestAccepted(request) /\ \E S : request.candidates \in Seq(S)

\* An assembly that did not fail is of an accepted request, and what it made is
\* the packing of that request.
AcceptedInv ==
    /\ bundle # Failed => order = NoOrder \/ Ordered(order)
    /\ Assembled => Ordered(order) /\ bundle.items = Pack(order).items

LEMMA AcceptedKept ==
    ASSUME AcceptedInv, UNCHANGED assemblyVars \/ AssemblyNext
    PROVE  AcceptedInv'
<1>1. CASE UNCHANGED assemblyVars
  BY <1>1 DEF assemblyVars, AcceptedInv, Assembled
<1>2. CASE UNCHANGED <<order, bundle>>
  BY <1>2 DEF AcceptedInv, Assembled
<1>3. CASE Inspect \/ Open \/ Read
  BY <1>2, <1>3 DEF Inspect, Open, Read
<1>4. CASE FailReading
  <2>1. bundle' = Failed
    BY <1>4 DEF FailReading
  <2>2. ~Assembled'
    BY <2>1 DEF Assembled, Failed
  <2> QED BY <2>1, <2>2 DEF AcceptedInv
<1>5. CASE FinishAssembly
  <2>1. bundle = NoBundle /\ order # NoOrder /\ order' = order
    BY <1>5 DEF FinishAssembly, Assembling
  <2>2. Ordered(order)
    BY <2>1 DEF AcceptedInv, NoBundle, Failed
  <2>3. bundle'.items = Pack(order).items
    BY <1>5 DEF FinishAssembly
  <2> QED BY <2>1, <2>2, <2>3 DEF AcceptedInv
<1>6. CASE Disturb
  BY <1>1, <1>6 DEF Disturb
<1> QED BY <1>1, <1>3, <1>4, <1>5, <1>6 DEF AssemblyNext

LEMMA AcceptedStarts ==
    ASSUME NEW request, StartAssembly(request), NEW S, request.candidates \in Seq(S)
    PROVE  AcceptedInv'
<1>1. /\ order' = request
      /\ bundle' = IF RequestAccepted(request) THEN NoBundle ELSE Failed
  BY DEF StartAssembly
<1>2. ~Assembled'
  BY <1>1 DEF Assembled, NoBundle, Failed
<1>3. CASE RequestAccepted(request)
  <2>1. Ordered(order')
    BY <1>1, <1>3 DEF Ordered
  <2> QED BY <1>2, <2>1 DEF AcceptedInv
<1>4. CASE ~RequestAccepted(request)
  BY <1>1, <1>2, <1>4 DEF AcceptedInv
<1> QED BY <1>3, <1>4

\* The retrieval orders what the ranking made of the planned query.
LEMMA RetrieveAccepted ==
    ASSUME PipelineInv, AcceptedInv, Retrieve
    PROVE  AcceptedInv'
<1> DEFINE q == plan.plan.query
           request == [candidates |-> Ranked[q], budget |-> job.budget,
                       workspace |-> Revision, indexed |-> Revision]
<1>1. CASE StartAssembly(request)
  <2>1. q \in DOMAIN Evidence
    BY DEF PipelineInv, PlanInv, Planned, Retrieve
  <2>2. PICK S : Ranked[q] \in Seq(S)
    <3> HIDE DEF q
    <3> QED BY <2>1, RankingIsAccepted
  <2>3. request.candidates \in Seq(S)
    BY <2>2
  <2> HIDE DEF request
  <2> QED BY <1>1, <2>3, AcceptedStarts
<1>2. CASE UseLocalisation(Failed)
  BY <1>2, AcceptedKept DEF UseLocalisation
<1> QED BY <1>1, <1>2 DEF Retrieve

LEMMA AcceptedSteps == PipelineInv /\ AcceptedInv /\ [Next]_vars => AcceptedInv'
<1> SUFFICES ASSUME PipelineInv, AcceptedInv, [Next]_vars PROVE AcceptedInv'
  OBVIOUS
<1>1. CASE Retrieve
  BY <1>1, RetrieveAccepted
<1>2. CASE AssembleDirectly
  <2> DEFINE request == job.order
  <2>1. StartAssembly(request) /\ job \in Jobs /\ job.kind = "assembly"
    BY <1>2 DEF AssembleDirectly, PipelineInv, StageInv
  <2>2. request.candidates \in Seq(ToSet(request.candidates))
    BY <2>1, JobAssumption
  <2> HIDE DEF request
  <2> QED BY <2>1, <2>2, AcceptedStarts
<1>3. CASE Assemble
  BY <1>3, AcceptedKept DEF Assemble
<1>4. CASE UNCHANGED assemblyVars
  BY <1>4, AcceptedKept
<1>5. CASE AskPlanner \/ Answer \/ UseContext \/ Misplace \/ CallDirectly \/ TakeResult
  BY <1>4, <1>5 DEF AskPlanner, Answer, UseContext, Misplace, UseLocalisation, CallDirectly, TakeResult
<1>6. CASE (\E v \in HandedOver : UsePlan(v)) \/ (\E v \in HandedOver : UseProposal(v))
  BY <1>4, <1>6 DEF UsePlan, UseProposal
<1>7. CASE \E i \in Intents : Generate(i)
  BY <1>4, <1>7 DEF Generate
<1>8. CASE Rest \/ UNCHANGED vars
  BY <1>4, <1>8 DEF Rest, vars
<1> QED BY <1>1, <1>2, <1>3, <1>5, <1>6, <1>7, <1>8 DEF Next

LEMMA AcceptedAlways == Spec => []AcceptedInv
<1>1. Init => AcceptedInv
  BY DEF Init, WorkspaceInit, AcceptedInv, Assembled, NoBundle
<1> QED BY <1>1, AcceptedSteps, PipelineCorrect, PTL DEF Spec

\* Whatever windows the located declarations open in a file, in whatever way
\* they overlap, merging them repeats no line and loses none, makes no segment
\* longer than a window, and puts every declaration in the one segment that
\* holds its line (_select_windows and _merge_proposals).
THEOREM WindowsArePartitions == Spec => []WindowsPartitionTheFile
<1>1. AcceptedInv => WindowsPartitionTheFile
  <2> SUFFICES ASSUME AcceptedInv, Assembled, NEW c \in OrderedFiles PROVE c.file \in DOMAIN Index
    BY WindowsOfFile DEF WindowsPartitionTheFile
  <2>1. RequestAccepted(order)
    BY DEF AcceptedInv, Ordered
  <2> QED BY <2>1 DEF RequestAccepted, OrderedFiles
<1> QED BY <1>1, AcceptedAlways, PTL

\* Whatever the budget, the sizes of the lines and the spans, the lines that are
\* left of a span hold all its declarations when those fit together, else the
\* one its window was opened for, else nothing; no line more would fit; the
\* bundle stays within its budget and limits and quotes no line twice
\* (_fit_span, _fit_around_targets and the packing loop of assemble_context).
THEOREM PackingIsLongest == Spec => []PackingKeepsTargets
<1>1. AcceptedInv => PackingKeepsTargets
  <2> SUFFICES ASSUME AcceptedInv, Assembled PROVE PackingKeepsTargets
    BY DEF PackingKeepsTargets
  <2> DEFINE spans == Spans(order)
             items == bundle.items
             packed == Pack(order)
  <2>1. PICK S : order.candidates \in Seq(S)
    BY DEF AcceptedInv, Ordered
  <2>2. RequestAccepted(order) /\ items = packed.items
    BY DEF AcceptedInv, Ordered
  <2>3. Packed(packed, 1 .. Len(spans), spans, order.budget)
    BY <2>1, <2>2, PackIs
  <2>4. Laid(spans)
    BY <2>1, <2>2, SpansLaid
  <2>5. order.budget \in Nat
    BY <2>2, LimitAssumption DEF RequestAccepted
  <2> HIDE DEF spans, packed, items
  <2>6. /\ packed.items \in Seq(Items) /\ packed.remaining \in Nat
        /\ Total(Tokens(packed.items)) + packed.remaining = order.budget
        /\ Len(packed.items) <= MaxItems
    BY <2>3 DEF Packed, Packings
  <2>7. DOMAIN items = 1 .. Len(items)
    BY <2>2, <2>6, LenProperties
  <2>8. Total(Tokens(items)) <= order.budget /\ Len(items) <= MaxItems
    <3>1. Tokens(items) \in Seq(Nat)
      <4>1. \A i \in 1 .. Len(items) : items[i].tokens \in Nat
        <5>1. items \in Seq(Items)
          BY <2>2, <2>6
        <5>2. \A i \in 1 .. Len(items) : items[i] \in Items
          BY <5>1, ElementOfSeq
        <5> QED BY <5>2 DEF Items
      <4> DEFINE t == Tokens(items)
                 n == Len(items)
      <4>2. t \in [1 .. n -> Nat]
        BY <2>7, <4>1 DEF Tokens
      <4>3. n \in Nat
        BY <2>2, <2>6, LenProperties
      <4> HIDE DEF t, n
      <4>4. t \in Seq(Nat)
        BY <4>2, <4>3
      <4> QED BY <4>4 DEF t
    <3>2. Total(Tokens(items)) \in Nat
      BY <3>1, TotalAppend
    <3> QED BY <2>2, <2>5, <2>6, <3>2
  <2>9. \A i \in DOMAIN items : items[i].tokens <= MaxItemBytes
    BY <2>2, <2>3, <2>7 DEF Packed, Quotes
  <2>10. \A i, j \in DOMAIN items : items[i].file = items[j].file /\ i # j =>
            items[i].end < items[j].start \/ items[j].end < items[i].start
    BY <2>2, <2>3, <2>7 DEF Packed
  <2>11. ASSUME NEW proposed \in ToSet(spans), NEW capacity \in 0 .. order.budget
         PROVE  LET sizes == Index[proposed.file].sizes
                IN  Longest(FitSpan(sizes, proposed.span, capacity),
                            Allowed(sizes, proposed.span, capacity))
    <3> DEFINE sizes == Index[proposed.file].sizes
               span == proposed.span
    <3>1. PICK k \in 1 .. Len(spans) : proposed = spans[k]
      BY <2>4, LenProperties DEF Laid, ToSet
    <3>2. Proper(span, Len(sizes))
      BY <2>4, <3>1 DEF Laid
    <3>3. sizes \in Seq(Nat \ {0})
      <4>1. proposed \in Proposals
        BY <2>4, <3>1, ElementOfSeq DEF Laid
      <4> QED BY <4>1, IndexAssumption DEF Proposals
    <3>4. capacity \in Nat
      BY <2>5
    <3> HIDE DEF sizes, span
    <3>5. Fits(FitSpan(sizes, span, capacity), sizes, span, capacity)
      BY <3>2, <3>3, <3>4, FitSpanFits
    <3> QED BY <3>5 DEF Fits, sizes, span
  <2> QED BY <2>8, <2>9, <2>10, <2>11 DEF PackingKeepsTargets, Tokens, spans, items
<1> QED BY <1>1, AcceptedAlways, PTL

=============================================================================
