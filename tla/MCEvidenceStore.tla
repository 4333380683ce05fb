-------------------------- MODULE MCEvidenceStore --------------------------
(* EvidenceStore on two sessions and a handful of related aggregates.      *)
EXTENDS EvidenceStore

CONSTANTS p1, p2, p3, v1, v2, v3, r1, r2, t1, t2, e1, a1, a2, m1,
          b1, b2, i1, i2, x, y

MCAttemptRun == (t1 :> r1) @@ (t2 :> r2)

Candidate(id, version, run, attempt, level, parent, files) ==
    [kind |-> "candidate", id |-> id, version |-> version, run |-> run,
     attempt |-> attempt, level |-> level, parent |-> parent, files |-> files,
     body |-> x]

Artefact(id, candidate, evidence) ==
    [kind |-> "artefact", id |-> id, candidate |-> candidate,
     evidence |-> evidence, body |-> x]

Evidence(candidate, run, embedded, cases, observations) ==
    [kind |-> "evidence", id |-> e1, candidate |-> candidate, run |-> run,
     attempt |-> t1, phase |-> "COMPILE", embedded |-> embedded,
     cases |-> cases, observations |-> observations, body |-> x]

Manifest(members) ==
    [kind |-> "manifest", id |-> m1, candidate |-> v1, evidence |-> e1,
     attempt |-> t1, phase |-> "COMPILE", members |-> members, body |-> x]

Bundle(id, items, budget) ==
    [kind |-> "bundle", id |-> id, items |-> items, budget |-> budget]

Stdout(artefact) == <<[artefact |-> artefact, role |-> "STDOUT"]>>

Initial == Candidate(p1, v1, r1, t1, 0, None, {x})
Repaired(run, attempt) == Candidate(p3, v3, run, attempt, 1, v1, {x})
Passed == <<[test |-> x, status |-> "PASSED"]>>
OwnLog == Artefact(a1, v1, e1)
ForeignLog == Artefact(a2, v3, None)

\* Rivals for one identity or one binding, a repaired candidate in the right
\* and in a wrong run, an execution with its log, one with other facts, one
\* whose log names another candidate, links that agree and links that do not,
\* and two context bundles that select the same item.
MCAggregates ==
    {Initial, [Initial EXCEPT !.files = {x, y}],
     Candidate(p2, v1, r1, t1, 0, None, {x}),
     Repaired(r1, t1), Repaired(r2, t2),
     Evidence(v1, None, Stdout(OwnLog), Passed, <<x>>),
     Evidence(v1, r1, <<>>, Passed, <<>>),
     Evidence(v1, None, Stdout(ForeignLog), <<>>, <<>>),
     Artefact(a2, v3, e1),
     Manifest({OwnLog}),
     Bundle(b1, <<i1>>, x), Bundle(b2, <<i1>>, x)}

-----------------------------------------------------------------------------
(* Inputs for the constructors.                                            *)

Optional(S) == S \cup {None}

Timeouts == Optional([timedOut : BOOLEAN, classified : BOOLEAN])
Integrities == [state : {"VERIFIED", "MISSING"}, referenced : BOOLEAN]
Compiles == Optional([status : {"SUCCESS", "FAILURE", "NOT_COMPLETED"}, errors : Optional({0, 1})])
Tests == Optional([executed : Optional({0, 1}), passed : Optional({1}), skipped : {None},
                   failed : Optional({0, 1}), errored : Optional({1}),
                   cases : {None, <<>>, <<"PASSED">>, <<"ERRORED">>}])

\* The verdict fields vary together; times and integrity, which no rule
\* relates to them unless the evidence is COMPLETE, vary on their own.
Verdicts ==
    [phase : {"COMPILE", "FIXED_OR_REFERENCE_REVISION_TEST"},
     outcome : Outcomes, compile : Compiles, tests : Tests,
     failure : {None, "COMPILATION_FAILURE", "TEST_FAILURE", "TIMEOUT"},
     secondary : {{}, {x}}, timeout : {None, [timedOut |-> TRUE, classified |-> TRUE]},
     exit : {None}, breached : {TRUE}, sourced : {TRUE}, complete : {FALSE},
     timing : {None}, integrity : {None}, streams : {TRUE}]

Timed ==
    [phase : {"COMPILE"}, outcome : {"SUCCESS"},
     compile : {[status |-> "SUCCESS", errors |-> 0]}, tests : {None},
     failure : {None}, secondary : {{}}, timeout : Timeouts, exit : {None, 0, 1},
     breached : {FALSE}, sourced : {FALSE}, complete : BOOLEAN,
     timing : Optional([started : Optional({1, 2}), ended : Optional({1, 2}),
                        duration : Optional({-1, 0, 1})]),
     integrity : Optional(Integrities), streams : BOOLEAN]

MCExecutionInputs == Verdicts \cup Timed

Finalizations == [state : {"CREATED", "FINALIZED"}, at : Optional({1})]

MCCandidateInputs ==
    {[patch |-> [id |-> 1, version |-> version, files |-> files,
                 state |-> f.state, finalizedAt |-> f.at],
      version |-> [id |-> 2, patch |-> 1, level |-> level, parent |-> parent,
                   state |-> g.state, finalizedAt |-> g.at]] :
        version \in {1, 2}, files \in {{}, {x}}, level \in 0 .. 2,
        parent \in {None, 2, 3}, f \in Finalizations, g \in Finalizations}

MCObservationInputs ==
    [category : {"CPU_TIME", "OTHER"}, otherCategory : Optional({x}),
     configured : Optional({1}), referenced : BOOLEAN, terminated : BOOLEAN,
     enforcement : {"NOT_ENFORCED", "EXTERNAL_ENFORCED"}]

MCArtefactInputs ==
    [id : {1}, size : {-1, 0}, locator : {1, 2}, candidate : Optional({1, 2}),
     evidence : Optional({1, 2}), integrity : Integrities]

MCManifestInputs ==
    [id : {1}, state : {"ASSEMBLING", "FINALIZED"}, createdAt : {1},
     finalizedAt : Optional({0, 1}), producer : Optional({x}), digest : Optional({x}),
     algorithm : Optional({x}), integrity : Optional(Integrities),
     candidate : {None, 2}, evidence : {None}, members : {{}, {1}, {3}}]

Symmetry == Permutations(Sessions)

=============================================================================
