------------------------- MODULE GenerationPipeline -------------------------
(***************************************************************************)
(* One attempt to generate a test: orchestrate_planning_and_localisation   *)
(* (app/workflow/planning.py, localisation_adapter.py), the retrieval its  *)
(* localisation boundary stands for, and orchestrate_generation            *)
(* (app/workflow/generation.py) with the security view of the context      *)
(* (app/security/untrusted_content.py).  The clients, the boundary and the *)
(* caller that carries the intent from one coordinator to the other are    *)
(* not these modules': any of them may hand over something else than it    *)
(* was given.                                                              *)
(***************************************************************************)
EXTENDS ModelRuntime, CandidateRanking, ContextAssembly

CONSTANTS Jobs,            \* what the attempts are asked to do, see Init
          Evidence,        \* query -> evidence that localisation has for it
          ForgedOutputs,   \* outputs no provider gave
          LateInvocations, \* genuine invocations of other attempts
          ForeignBundles,  \* bundles of other orders
          HeaderBytes,     \* what the view adds to an item
          MaxViewItems,    \* MAX_ITEMS of the security context
          MaxViewBytes,    \* MAX_TOTAL_BYTES
          MaxVariableBytes,\* MAX_PROMPT_VARIABLE_BYTES
          Unscannable      \* files whose text redaction cannot scan

\* ModelRequest, FallbackPlan and GenerationRequest take natural numbers of
\* retries, ContextAssemblyInput takes a tuple of candidates.
ASSUME JobAssumption ==
    \A j \in Jobs :
        /\ j.kind = "attempt" => j.planner.retries \in Nat /\ j.generator.retries \in Nat
        /\ j.kind = "call" => j.request.retries \in Nat
        /\ j.kind = "assembly" => j.order.candidates \in Seq(ToSet(j.order.candidates))

\* An attempt is about the revision that was prepared and indexed, within a
\* budget that the retrieval takes.
ASSUME AttemptAssumption ==
    \A j \in Jobs : j.kind = "attempt" => j.revision = Revision /\ j.budget \in 1 .. MaxTokens

\* Candidates are files of the index.
ASSUME CandidateAssumption == DOMAIN Documents \subseteq DOMAIN Index

\* Stack traces and lists of changed files are finite sequences.
ASSUME EvidenceAssumption ==
    \A q \in DOMAIN Evidence :
        /\ Evidence[q].limit \in Nat
        /\ DOMAIN Evidence[q].frames \subseteq Nat \ {0}
        /\ IsFiniteSet(ToSet(Evidence[q].changed))

\* A bundle of another order is a result of assemble_context as well.
ASSUME BundleAssumption ==
    \A b \in ForeignBundles : b.items # <<>> => ToSet(b.texts) = {"indexed"}

VARIABLES job,       \* the attempt
          stage,     \* how far it is
          plan,      \* the validated plan and the invocation it was parsed from
          intent,    \* what is handed to generation
          decision,  \* the disposition of the attempt
          forged,    \* some value was not the one it should have been
          heard      \* every output a provider gave: [role, request, output]

attemptVars == <<job, plan, intent>>
vars == <<job, stage, plan, intent, decision, forged, heard,
          runtimeVars, workspaceVars, assemblyVars>>

Nothing == [kind |-> "nothing"]
Undecided == [kind |-> "none"]

-----------------------------------------------------------------------------
(* Planning.                                                               *)

\* _invocation_shape_is_valid: the types, and the role.
PlannerShape(v) == v.kind = "invocation" /\ v.role = "PLANNER"

\* parse_planner_plan, for a pinned revision.
Parses(output, revision) ==
    /\ output.form = "plan" /\ output.schema = "supported"
    /\ output.revision = revision
    /\ output.query \in DOMAIN Evidence

PlanOf(output) == [revision |-> output.revision, query |-> output.query]

Decide(phase, kind, reason) ==
    /\ stage' = "decided"
    /\ decision' = [kind |-> kind, phase |-> phase, reason |-> reason]

AskPlanner ==
    /\ stage = "new" /\ job.kind = "attempt"
    /\ Call("PLANNER", job.planner, 0)
    /\ stage' = "planning"
    /\ UNCHANGED <<attemptVars, decision, forged, heard, workspaceVars, assemblyVars>>

\* What a successful call adds to what was heard.
Heard(role, request, outcome) ==
    IF outcome.status = "SUCCESS"
    THEN {[role |-> role, request |-> request, output |-> outcome.output]} ELSE {}

\* The provider answers whichever call is in progress.
Answer ==
    \E answer \in Answers :
        /\ Attempt(answer)
        /\ heard' = heard \cup Heard(serving.role, serving.request,
                                     Normalised(answer, serving.request))
        /\ UNCHANGED <<attemptVars, stage, decision, forged, workspaceVars, assemblyVars>>

Forgeries(v) ==
    {[v EXCEPT !.outcome = Outcome("SUCCESS", output)] : output \in ForgedOutputs}
    \cup {[v EXCEPT !.attempts = <<>>], [v EXCEPT !.role = "CRITIC"],
          [v EXCEPT !.request.model = Plan[Len(Plan)]],
          [v EXCEPT !.definition.version = "withdrawn"]}

\* What a client may hand over: what its runtime returned, or something else.
HandedOver ==
    IF invocation = NotReturned THEN {}
    ELSE {invocation, Nothing} \cup LateInvocations
         \cup IF invocation = Raised THEN {} ELSE Forgeries(invocation)

\* The coordinator has the answer v of its client.
UsePlan(v) ==
    /\ stage = "planning" /\ Return
    /\ CASE v = Raised -> Decide("planning", "PLANNER_FAILURE", "INVOCATION_ERROR")
         [] v # Raised /\ ~PlannerShape(v) ->
                Decide("planning", "PLANNER_FAILURE", "INVOCATION_SHAPE_INVALID")
         [] PlannerShape(v) /\ v.outcome.status # "SUCCESS" ->
                Decide("planning", "PLANNER_FAILURE", "MODEL_RESULT_NOT_SUCCESSFUL")
         [] PlannerShape(v) /\ v.outcome.status = "SUCCESS" /\ ~Parses(v.outcome.output, job.revision) ->
                Decide("planning", "PLANNER_FAILURE", "PLAN_PARSE_REJECTED")
         [] OTHER -> stage' = "localising" /\ UNCHANGED decision
    /\ plan' = IF stage' = "localising"
               THEN [plan |-> PlanOf(v.outcome.output), invocation |-> v] ELSE plan
    /\ forged' = (forged \/ v # invocation)
    /\ UNCHANGED <<job, intent, heard, workspaceVars, assemblyVars>>

-----------------------------------------------------------------------------
(* Localisation.                                                           *)

\* invoke_localisation and what orchestrate_planning_and_localisation does
\* with its resolution; raw is a bundle, a marker or an exception.
UseLocalisation(raw) ==
    /\ CASE raw.kind = "low confidence" ->
                Decide("planning", "ABSTENTION", "INSUFFICIENT_LOCALISATION_CONFIDENCE")
         [] raw.kind = "error" -> Decide("planning", "LOCALISATION_FAILURE", "BOUNDARY_ERROR")
         [] raw.kind = "nothing" -> Decide("planning", "LOCALISATION_FAILURE", "MALFORMED_RESULT")
         [] raw.kind = "bundle" /\ raw.revision # plan.plan.revision ->
                Decide("planning", "LOCALISATION_FAILURE", "REVISION_MISMATCH")
         [] raw.kind = "bundle" /\ raw.revision = plan.plan.revision /\ raw.items = <<>> ->
                Decide("planning", "ABSTENTION", "INSUFFICIENT_CONTEXT")
         [] OTHER -> stage' = "ready" /\ UNCHANGED decision
    /\ intent' = IF stage' = "ready"
                 THEN [plan |-> plan.plan, bundle |-> raw, invocation |-> plan.invocation]
                 ELSE intent
    /\ UNCHANGED <<job, plan, heard, runtimeVars, workspaceVars, assemblyVars>>

Ranked == [q \in DOMAIN Evidence |-> Rank(Evidence[q])]

\* The ranking reads every text file, each as it was indexed.  It looks at
\* each once, so that reading them in one step leaves the same outcomes.
CorpusReads ==
    /\ disk[Root] # 0 /\ ~objects[disk[Root]].symlink
    /\ \A file \in DOMAIN Index : ~Index[file].binary =>
          disk[file] # 0 /\ objects[disk[file]] = [version |-> "indexed", symlink |-> FALSE]

\* The retrieval of the planned query in the workspace.
Retrieve ==
    /\ stage = "localising"
    /\ \/ /\ CorpusReads
          /\ StartAssembly([candidates |-> Ranked[plan.plan.query], budget |-> job.budget,
                            workspace |-> Revision, indexed |-> Revision])
          /\ stage' = "assembling"
          /\ UNCHANGED <<attemptVars, decision, heard, runtimeVars>>
       \/ ~CorpusReads /\ UseLocalisation(Failed)
    /\ UNCHANGED forged

UseContext ==
    /\ stage = "assembling" /\ job.kind = "attempt" /\ bundle # NoBundle
    /\ UseLocalisation(bundle)
    /\ UNCHANGED forged

Misplace ==
    /\ stage = "localising"
    /\ \E raw \in ForeignBundles \cup {Failed, Nothing, [kind |-> "low confidence"]} :
          /\ UseLocalisation(raw)
          /\ forged' = (forged \/ raw.kind # "low confidence")

-----------------------------------------------------------------------------
(* Generation.                                                             *)

\* Fault: the top-level outcome is not compared with the last attempt's.
FaultyAttributed(v) == v.attempts # <<>>

\* _final_attempt_attribution_is_consistent
Attributed(v) ==
    /\ v.attempts # <<>>
    /\ v.attempts[Len(v.attempts)].outcome = v.outcome

\* Fault: only the primary target is taken for one of the plan's.
FaultyTargetsPlanned(v) == \A i \in DOMAIN v.attempts : v.attempts[i].target = 1

TargetsPlanned(v) == \A i \in DOMAIN v.attempts : v.attempts[i].target \in DOMAIN v.targets

\* _planner_provenance_cross_binding_failure
PlannerBound(i) ==
    /\ Parses(i.invocation.outcome.output, i.plan.revision)
    /\ PlanOf(i.invocation.outcome.output) = i.plan
    /\ i.invocation.definition = i.invocation.request.prompt
    /\ i.invocation.request.model = i.invocation.targets[1]
    /\ Attributed(i.invocation)
    /\ TargetsPlanned(i.invocation)

\* _generation_binding_failure
IntentBound(i) ==
    /\ i.bundle.revision = i.plan.revision
    /\ i.bundle.items # <<>>
    /\ PlannerShape(i.invocation)
    /\ i.invocation.outcome.status = "SUCCESS"
    /\ PlannerBound(i)

ContentBytes(items) == FoldLeft(LAMBDA n, item : n + item.tokens, 0, items)

\* SecurityContext and model_facing_view
SecurityRejects(items) ==
    \/ Len(items) > MaxViewItems
    \/ ContentBytes(items) > MaxViewBytes
    \/ \E item \in ToSet(items) : item.file \in Unscannable

DataBytes(items) == ContentBytes(items) + HeaderBytes * Len(items)

\* _build_model_request
GeneratorRequest(i) ==
    [model |-> job.generator.model, prompt |-> job.generator.prompt, names |-> "generator",
     quotes |-> [plan |-> i.plan, items |-> i.bundle.items, texts |-> i.bundle.texts],
     retries |-> job.generator.retries, schema |-> "proposal"]

\* What the caller may hand over: the intent it was given, or a mixture.
Intents ==
    IF intent = Nothing THEN {}
    ELSE {intent} \cup {[intent EXCEPT !.bundle = b] : b \in ForeignBundles}
         \cup {[intent EXCEPT !.invocation = v] : v \in LateInvocations}
         \cup {[intent EXCEPT !.plan.query = q] : q \in DOMAIN Evidence}

Generate(i) ==
    /\ stage = "ready"
    /\ IF IntentBound(i) /\ ~SecurityRejects(i.bundle.items)
          /\ DataBytes(i.bundle.items) <= MaxVariableBytes
       THEN /\ Call("GENERATOR", GeneratorRequest(i), 0)
            /\ stage' = "generating"
            /\ UNCHANGED decision
       ELSE /\ CASE ~IntentBound(i) ->
                       Decide("generation", "INVALID_GENERATION_BINDING", "NOT_BOUND")
                 [] IntentBound(i) /\ SecurityRejects(i.bundle.items) ->
                       Decide("generation", "SECURITY_CONTEXT_REJECTION", "SECURITY")
                 [] OTHER -> Decide("generation", "INVALID_GENERATION_BINDING", "BOUND_EXCEEDED")
            /\ UNCHANGED runtimeVars
    /\ intent' = i
    /\ forged' = (forged \/ i # intent)
    /\ UNCHANGED <<job, plan, heard, workspaceVars, assemblyVars>>

\* _generator_invocation_is_bound
GeneratorBound(v, request) ==
    /\ v.kind = "invocation" /\ v.role = "GENERATOR"
    /\ v.request = request
    /\ v.definition = request.prompt
    /\ v.targets[1] = request.model
    /\ TargetsPlanned(v)
    /\ Attributed(v)

\* parse_generator_proposal
ProposalParses(output) ==
    output.form = "proposal" /\ output.schema = "supported" /\ output.text # "blank"

UseProposal(v) ==
    /\ stage = "generating" /\ Return
    /\ CASE v = Raised -> Decide("generation", "GENERATOR_FAILURE", "INVOCATION_ERROR")
         [] v # Raised /\ ~GeneratorBound(v, GeneratorRequest(intent)) ->
                Decide("generation", "GENERATOR_FAILURE", "INVOCATION_SHAPE_INVALID")
         [] GeneratorBound(v, GeneratorRequest(intent)) /\ v.outcome.status # "SUCCESS" ->
                Decide("generation", "GENERATOR_FAILURE", "MODEL_RESULT_NOT_SUCCESSFUL")
         [] GeneratorBound(v, GeneratorRequest(intent)) /\ v.outcome.status = "SUCCESS"
            /\ ~ProposalParses(v.outcome.output) ->
                Decide("generation", "GENERATOR_FAILURE", "PROPOSAL_PARSE_REJECTED")
         [] OTHER -> /\ stage' = "decided"
                     /\ decision' = [kind |-> "PROPOSAL", phase |-> "generation",
                                     reason |-> "none", invocation |-> v]
    /\ forged' = (forged \/ v # invocation)
    /\ UNCHANGED <<attemptVars, heard, workspaceVars, assemblyVars>>

-----------------------------------------------------------------------------
(* The runtime and the assembly used on their own.                         *)

CallDirectly ==
    /\ stage = "new" /\ job.kind = "call"
    /\ Call(job.role, job.request, job.declared)
    /\ stage' = "calling"
    /\ UNCHANGED <<attemptVars, decision, forged, heard, workspaceVars, assemblyVars>>

AssembleDirectly ==
    /\ stage = "new" /\ job.kind = "assembly"
    /\ StartAssembly(job.order)
    /\ stage' = "assembling"
    /\ UNCHANGED <<attemptVars, decision, forged, heard, runtimeVars>>

TakeResult ==
    /\ \/ stage = "calling" /\ Return /\ UNCHANGED assemblyVars
       \/ /\ stage = "assembling" /\ job.kind = "assembly" /\ bundle # NoBundle
          /\ UNCHANGED <<runtimeVars, assemblyVars>>
    /\ Decide("none", "RESULT", "none")
    /\ UNCHANGED <<attemptVars, forged, heard, workspaceVars>>

Assemble ==
    /\ stage \in {"localising", "assembling"}
    /\ AssemblyNext
    /\ UNCHANGED <<attemptVars, stage, decision, forged, heard, runtimeVars>>

\* An attempt ends.
Rest == stage = "decided" /\ UNCHANGED vars

Init ==
    /\ job \in Jobs
    /\ stage = "new" /\ decision = Undecided
    /\ plan = Nothing /\ intent = Nothing
    /\ forged = FALSE
    /\ heard = UNION {Heard(v.role, v.request, v.outcome) : v \in LateInvocations}
    /\ RuntimeInit /\ WorkspaceInit

Next ==
    \/ AskPlanner
    \/ Answer
    \/ \E v \in HandedOver : UsePlan(v)
    \/ Retrieve
    \/ UseContext
    \/ Misplace
    \/ \E i \in Intents : Generate(i)
    \/ \E v \in HandedOver : UseProposal(v)
    \/ CallDirectly
    \/ AssembleDirectly
    \/ TakeResult
    \/ Assemble
    \/ Rest

Spec == Init /\ [][Next]_vars

-----------------------------------------------------------------------------
\* A proposal is what a provider answered to the very prompt this attempt
\* issued, the prompt quotes the whole context of a bundle of the planned
\* revision, read as it was indexed, and the plan is one that a provider gave
\* the planner for the pinned revision.  An outcome put in the place of the
\* last attempt's, a late answer of another attempt, an intent put together
\* from two attempts may get past planning; they do not get past generation.
ProposalIsEarned ==
    decision.kind = "PROPOSAL" =>
        LET v == decision.invocation
        IN  /\ [role |-> "GENERATOR", request |-> v.request, output |-> v.outcome.output] \in heard
            /\ v.request.quotes = [plan |-> intent.plan, items |-> intent.bundle.items,
                                   texts |-> intent.bundle.texts]
            /\ intent.bundle.items # <<>> /\ intent.bundle.revision = job.revision
            /\ ToSet(intent.bundle.texts) = {"indexed"}
            /\ \E h \in heard : /\ h.role = "PLANNER" /\ Parses(h.output, job.revision)
                                /\ PlanOf(h.output) = intent.plan

\* The gates refuse only what is not right: an attempt whose values are all
\* its own, however many retries and fallbacks they took, is never refused as
\* malformed, unbound or mismatched, and its context is refused only for a
\* bound, a text that cannot be scanned or a workspace that changed.
RefusalsHaveACause ==
    /\ decision.kind # "none" /\ ~forged =>
          decision.reason \notin {"INVOCATION_SHAPE_INVALID", "NOT_BOUND",
                                  "MALFORMED_RESULT", "REVISION_MISMATCH"}
    /\ decision.kind = "LOCALISATION_FAILURE" => forged \/ changes > 0

=============================================================================
