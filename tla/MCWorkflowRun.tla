---------------------------- MODULE MCWorkflowRun ----------------------------
(* The instance of WorkflowRun for TLC.                                    *)
EXTENDS WorkflowRun

Plain == [actor |-> "SYSTEM", failure |-> "NONE", abstention |-> "NONE",
          cancellation |-> "NONE", disposition |-> "NONE", repairable |-> FALSE,
          published |-> FALSE, packaged |-> FALSE]

\* Every value of the fields the decision about one kind of target reads, the
\* other fields as in Plain.
FailureContexts ==
    {[Plain EXCEPT !.actor = a, !.failure = f] :
        a \in {"NONE", "WORKER"}, f \in FailureCode \cup Unparsed}
AbstentionContexts ==
    {[Plain EXCEPT !.actor = a, !.abstention = f] :
        a \in {"NONE", "WORKFLOW"}, f \in AbstentionCode \cup Unparsed}
CancellationContexts ==
    {[Plain EXCEPT !.actor = a, !.cancellation = f, !.published = p] :
        a \in {"NONE", "HUMAN"}, f \in CancellationCode \cup Unparsed, p \in BOOLEAN}
CompletionContexts ==
    {[Plain EXCEPT !.actor = a, !.disposition = d, !.packaged = p] :
        a \in {"NONE", "HUMAN", "SYSTEM"}, d \in HumanDisposition \cup Unparsed,
        p \in BOOLEAN}
RepairContexts == {[Plain EXCEPT !.repairable = r] : r \in BOOLEAN}

AllContexts ==
    FailureContexts \cup AbstentionContexts \cup CancellationContexts
        \cup CompletionContexts \cup RepairContexts
=============================================================================
