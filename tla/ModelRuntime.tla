---------------------------- MODULE ModelRuntime ----------------------------
(***************************************************************************)
(* One call of the model runtime (app/workflow/model_provider.py, values   *)
(* of model_domain.py) through a client bound to a role: checks before the *)
(* first provider call, bounded retries of every target of the fallback    *)
(* plan, and the normalisation of whatever the provider does.              *)
(*                                                                         *)
(* A request is [model, prompt, names, quotes, retries, schema]: `quotes`  *)
(* stands for the values of its variables.  An output is a record whose    *)
(* `form` says which schema it is valid for.                               *)
(***************************************************************************)
EXTENDS Integers, Sequences

CONSTANTS Plan,         \* targets of the fallback plan, the primary first
          Retryable,    \* statuses the plan retries
          Registry,     \* registered prompt -> names of its variables
          ClientPrompt, \* role -> template its client is bound to
          Answers,      \* what a provider may do, see Normalised
          Requests,     \* requests the callers make
          MaxInput      \* input tokens of a request's budget

Conditions == {"TIMEOUT", "PROVIDER_OR_MODEL_FAILURE", "INVALID_STRUCTURED_OUTPUT"}

Terminal == {"SUCCESS", "REFUSAL", "ABSTENTION", "BUDGET_EXCEEDED", "VALIDATION_FAILURE"}

ASSUME PlanAssumption ==
    /\ Plan \in Seq(STRING) /\ Plan # <<>>
    /\ \A i, j \in DOMAIN Plan : Plan[i] = Plan[j] => i = j
    /\ Retryable \subseteq Conditions

ASSUME RequestAssumption ==
    MaxInput \in Nat /\ \A request \in Requests : request.retries \in Nat

VARIABLES serving,     \* the call in progress: its role and its request
          attempts,    \* its attempts so far
          invocation   \* what it returned

runtimeVars == <<serving, attempts, invocation>>

-----------------------------------------------------------------------------
Idle == [kind |-> "idle"]
Raised == [kind |-> "raised"]
NotReturned == [kind |-> "pending"]

NoOutput == [form |-> "none"]
Outcome(status, output) == [status |-> status, output |-> output]

\* ModelInvocationResult
Invocation(role, request, made, outcome, exhausted) ==
    [kind |-> "invocation", role |-> role, request |-> request, targets |-> Plan,
     definition |-> request.prompt, attempts |-> made, outcome |-> outcome,
     exhausted |-> exhausted]

\* validate_structured_output
ValidFor(output, schema) == schema = "none" \/ output.form = schema

\* _invoke_provider.  An answer is [kind, status, output, overBudget].
Normalised(answer, request) ==
    CASE answer.kind = "timeout" -> Outcome("TIMEOUT", NoOutput)
      [] answer.kind \in {"failure", "malformed"} ->
            Outcome("PROVIDER_OR_MODEL_FAILURE", NoOutput)
      [] answer.kind = "result" /\ answer.overBudget -> Outcome("BUDGET_EXCEEDED", NoOutput)
      [] answer.kind = "result" /\ ~answer.overBudget ->
            IF answer.status = "SUCCESS" /\ ~ValidFor(answer.output, request.schema)
            THEN Outcome("INVALID_STRUCTURED_OUTPUT", NoOutput)
            ELSE Outcome(answer.status,
                         IF answer.status = "SUCCESS" THEN answer.output ELSE NoOutput)

\* The client refuses a foreign template; the runtime refuses another model
\* than the primary, an unregistered version and other variables.
Misused(role, request) ==
    \/ request.prompt.template # ClientPrompt[role]
    \/ request.model # Plan[1]
    \/ request.prompt \notin DOMAIN Registry
    \/ Registry[request.prompt] # request.names

Call(role, request, declared) ==
    /\ serving = Idle
    /\ serving' = [kind |-> "call", role |-> role, request |-> request]
    /\ attempts' = <<>>
    /\ invocation' =
          CASE Misused(role, request) -> Raised
            [] ~Misused(role, request) /\ declared > MaxInput ->
                  Invocation(role, request, <<>>, Outcome("BUDGET_EXCEEDED", NoOutput), FALSE)
            [] OTHER -> NotReturned

\* A target is attempted until its retries are spent, then the next one.
NextAttempt ==
    IF attempts = <<>> THEN [target |-> 1, number |-> 1]
    ELSE LET last == attempts[Len(attempts)]
         IN  IF last.number <= serving.request.retries
             THEN [target |-> last.target, number |-> last.number + 1]
             ELSE [target |-> last.target + 1, number |-> 1]

IsLastAttempt(attempt) ==
    attempt.target = Len(Plan) /\ attempt.number = serving.request.retries + 1

\* Fault: a status that the plan does not retry is retried.
FaultyRetries(outcome) == outcome.status \in Conditions

Retries(outcome) == outcome.status \notin Terminal /\ outcome.status \in Retryable

\* The provider answers; fallbacks get the request under their own model.
Attempt(answer) ==
    /\ serving # Idle /\ invocation = NotReturned
    /\ LET next == NextAttempt
           outcome == Normalised(answer, serving.request)
           made == Append(attempts, [target |-> next.target, number |-> next.number,
                                     outcome |-> outcome])
       IN  /\ attempts' = made
           /\ invocation' =
                 IF Retries(outcome) /\ ~IsLastAttempt(next) THEN NotReturned
                 ELSE Invocation(serving.role, serving.request, made, outcome,
                                 Retries(outcome))
    /\ UNCHANGED serving

\* The caller has the invocation, or the exception.
Return ==
    /\ invocation # NotReturned
    /\ serving' = Idle /\ attempts' = <<>> /\ invocation' = NotReturned

RuntimeInit == serving = Idle /\ attempts = <<>> /\ invocation = NotReturned

RuntimeNext ==
    \/ \E role \in DOMAIN ClientPrompt, request \in Requests, declared \in {0, MaxInput + 1} :
          Call(role, request, declared)
    \/ \E answer \in Answers : Attempt(answer)
    \/ Return

RuntimeSpec == RuntimeInit /\ [][RuntimeNext]_runtimeVars

-----------------------------------------------------------------------------
\* The attempt at position i of a call with these retries.
InPosition(i, attempt, retries) ==
    /\ attempt.target \in 1 .. Len(Plan)
    /\ attempt.number \in 1 .. retries + 1
    /\ i = (attempt.target - 1) * (retries + 1) + attempt.number

\* What a call reports is what its provider calls came to: every target gets
\* exactly its retries before the next one is reached, an attempt is followed
\* by another only where the plan retries its outcome, and the call is
\* reported as exhausted exactly when the last retry of the last target still
\* had an outcome to retry.
FallbackFollowsThePlan ==
    serving # Idle =>
        /\ \A i \in DOMAIN attempts :
              /\ InPosition(i, attempts[i], serving.request.retries)
              /\ i < Len(attempts) => attempts[i].outcome.status \in Retryable
        /\ invocation \notin {NotReturned, Raised} /\ attempts # <<>> =>
              /\ invocation.attempts = attempts
              /\ invocation.outcome = attempts[Len(attempts)].outcome
              /\ invocation.exhausted <=>
                    /\ invocation.outcome.status \in Retryable
                    /\ Len(attempts) = Len(Plan) * (serving.request.retries + 1)

=============================================================================
