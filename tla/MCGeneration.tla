---------------------------- MODULE MCGeneration ----------------------------
(***************************************************************************)
(* Instance of GenerationPipeline: two targets with one retry, a workspace *)
(* of four files, and three kinds of jobs.  Attempts go from the planner   *)
(* to the proposal; direct calls bring in the checks of the runtime; direct*)
(* assemblies open windows on every choice of declarations of one file.    *)
(***************************************************************************)
EXTENDS GenerationPipeline

Models == <<"large", "small">>

Prompt(template, version) == [template |-> template, version |-> version]

MCRegistry ==
    [p \in {Prompt("plan", "current"), Prompt("generate", "current")} |->
        IF p.template = "plan" THEN "planner" ELSE "generator"]

MCClientPrompt == [PLANNER |-> "plan", GENERATOR |-> "generate", CRITIC |-> "plan"]

PlannerRequest(retries) ==
    [model |-> "large", prompt |-> Prompt("plan", "current"), names |-> "planner",
     quotes |-> "task", retries |-> retries, schema |-> "plan"]

PlanText(revision, query) ==
    [form |-> "plan", schema |-> "supported", revision |-> revision, query |-> query]

ProposalText(text) == [form |-> "proposal", schema |-> "supported", text |-> text]

Gives(output) ==
    [kind |-> "result", status |-> "SUCCESS", output |-> output, overBudget |-> FALSE]

MCAnswers ==
    {[kind |-> "timeout"], [kind |-> "malformed"],
     [kind |-> "result", status |-> "REFUSAL", overBudget |-> FALSE],
     [kind |-> "result", status |-> "SUCCESS", overBudget |-> TRUE],
     Gives(PlanText("pinned", "wide")), Gives(PlanText("pinned", "narrow")),
     Gives(PlanText("moved", "wide")),
     Gives(ProposalText("test")), Gives(ProposalText("blank"))}

MCForgedOutputs == {PlanText("pinned", "empty"), ProposalText("forged")}

MCLateInvocations ==
    {Invocation("PLANNER", PlannerRequest(0),
                <<[target |-> 1, number |-> 1,
                   outcome |-> Outcome("SUCCESS", PlanText("pinned", "narrow"))]>>,
                Outcome("SUCCESS", PlanText("pinned", "narrow")), FALSE)}

-----------------------------------------------------------------------------
Methods == <<"sum", "add", "sub", "mul", "div", "neg", "abs">>

LineIn(names) == [name \in ToSet(names) |-> CHOOSE l \in DOMAIN names : names[l] = name]

\* src/main/j/Sum.java, src/test/j/SumTest.java, a picture and a pom.xml.
MCIndex ==
    << [sizes |-> <<2, 1, 3, 1, 1, 4, 2>>, at |-> LineIn(Methods), binary |-> FALSE],
       [sizes |-> <<1, 1>>, at |-> LineIn(<<"sumtest", "adds">>), binary |-> FALSE],
       [sizes |-> <<3>>, at |-> LineIn(<<>>), binary |-> TRUE],
       [sizes |-> <<1>>, at |-> LineIn(<<>>), binary |-> FALSE] >>

Once(words) == [word \in words |-> 1]

MCDocuments ==
    << [directory |-> "main", name |-> "sum.java", stem |-> "sum", bases |-> {"sum"},
        components |-> {"src", "main", "j"},
        terms |-> Once({"src", "main", "j", "java", "sum", "add", "sub", "mul", "div"}),
        types |-> <<"sum">>, methods |-> <<"abs", "add", "div", "mul", "neg", "sub">>,
        packages |-> {"j"}, test |-> FALSE, build |-> FALSE],
       [directory |-> "test", name |-> "sumtest.java", stem |-> "sumtest",
        bases |-> {"sumtest", "sum"}, components |-> {"src", "test", "j"},
        terms |-> [Once({"src", "j", "java", "sumtest", "sum", "adds"}) EXCEPT !["sum"] = 4],
        types |-> <<"sumtest">>, methods |-> <<"adds">>,
        packages |-> {"j"}, test |-> TRUE, build |-> FALSE],
       [directory |-> "main", name |-> "logo.png", stem |-> "logo", bases |-> {"logo"},
        components |-> {"src", "main", "j"}, terms |-> Once({"src", "main", "j", "logo", "png"}),
        types |-> <<>>, methods |-> <<>>, packages |-> {}, test |-> FALSE, build |-> FALSE],
       [directory |-> "top", name |-> "pom.xml", stem |-> "pom", bases |-> {"pom"},
        components |-> {}, terms |-> Once({"pom", "xml", "dependency"}),
        types |-> <<>>, methods |-> <<>>, packages |-> {}, test |-> FALSE, build |-> TRUE] >>

MCCounterparts ==
    [main |-> {"main", "test"}, test |-> {"main", "test"}, top |-> {"top"}]

\* For four files.
MCLnMilli == <<10, 3>> :> 1203 @@ <<10, 5>> :> 693 @@ <<10, 7>> :> 356 @@ <<10, 9>> :> 105

Frame(source, class, method, paths) ==
    [source |-> source, class |-> class, method |-> method, paths |-> paths]

\* Sum.java and SumTest.java come out even for "src".
MCEvidence ==
    [wide   |-> [query |-> {"sum", "add"}, hints |-> {}, limit |-> 3, changed |-> <<1>>,
                 frames |-> <<Frame("", "thread", "run", {}),
                              Frame("sumtest.java", "sumtest", "adds", {2})>>],
     narrow |-> [query |-> {"src"}, hints |-> {"pom"}, limit |-> 4, changed |-> <<>>,
                 frames |-> <<>>],
     empty  |-> [query |-> {"logo"}, hints |-> {}, limit |-> 1, changed |-> <<>>,
                 frames |-> <<>>]]

MCForeignBundles ==
    {[kind |-> "bundle", revision |-> "moved", budget |-> 4, texts |-> <<"indexed">>,
      items |-> <<[file |-> 2, start |-> 1, end |-> 2, tokens |-> 2]>>],
     [kind |-> "bundle", revision |-> "pinned", budget |-> 4, texts |-> <<"indexed">>,
      items |-> <<[file |-> 2, start |-> 2, end |-> 2, tokens |-> 1]>>],
     [kind |-> "bundle", revision |-> "pinned", budget |-> 4, texts |-> <<"indexed">>,
      items |-> <<>>]}

Order(candidates, budget) ==
    [candidates |-> candidates, budget |-> budget, workspace |-> "pinned",
     indexed |-> "pinned"]

Attempts ==
    {[kind |-> "attempt", planner |-> PlannerRequest(1), revision |-> "pinned",
      generator |-> [model |-> "large", prompt |-> Prompt("generate", how[1]), retries |-> 0],
      budget |-> how[2]] :
        how \in {<<"current", 12>>, <<"withdrawn", 3>>}}

MCRequests == {[PlannerRequest(1) EXCEPT !.model = model] : model \in {"large", "small"}}

Calls ==
    [kind : {"call"}, role : {"PLANNER", "CRITIC", "GENERATOR"}, request : MCRequests,
     declared : {0, 9}]

Candidate(file, rank, score, symbols) ==
    [file |-> file, rank |-> rank, score |-> score, symbols |-> symbols,
     revision |-> "pinned", identified |-> TRUE]

\* Every choice of declarations in file 1, in front of file 2.
Assemblies ==
    {[kind |-> "assembly",
      order |-> Order(<<Candidate(1, 1, 5, SelectSeq(Methods, LAMBDA m : m \in chosen)),
                        Candidate(2, 2, 4, <<"sumtest">>)>>, budget)] :
        chosen \in SUBSET ToSet(Methods), budget \in {6, 14}}

MCJobs == Attempts \cup Calls \cup Assemblies

=============================================================================
