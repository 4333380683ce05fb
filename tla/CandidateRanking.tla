-------------------------- MODULE CandidateRanking --------------------------
(***************************************************************************)
(* The deterministic ranking of the indexed files against the evidence of  *)
(* an attempt (generate_candidates, app/retrieval/candidates.py): seven    *)
(* integer signals, each clamped to its weight in the scoring policy.      *)
(*                                                                         *)
(* Files are numbers in the order of their identities.  Words, names and   *)
(* paths are values; what tokenizing, the Java patterns and the path       *)
(* conventions make of a text is part of the instance: a document is       *)
(* [directory, name, stem, bases, components, terms, types, methods,       *)
(* packages, test, build], a frame of a stack trace [source, class,        *)
(* method, paths] and the evidence [query, hints, frames, changed, limit]. *)
(***************************************************************************)
EXTENDS Integers, Sequences, SequencesExt, FiniteSetsExt

CONSTANTS Documents,    \* file -> document
          Counterparts, \* directory -> its source and test counterparts, and itself
          LnMilli,      \* <<numerator, denominator>> -> logarithm in thousandths
          BuildWords,   \* _BUILD_QUERY_TOKENS
          Revision      \* what was prepared and indexed

\* The index is finite, terms are counted, and the table of logarithms covers the
\* ratios that can occur.
ASSUME DocumentAssumption ==
    /\ IsFiniteSet(DOMAIN Documents) /\ DOMAIN Documents \subseteq Nat
    /\ \A d \in DOMAIN Documents :
          /\ IsFiniteSet(Documents[d].components) /\ IsFiniteSet(DOMAIN Documents[d].methods)
          /\ IsFiniteSet(DOMAIN Documents[d].terms)
          /\ \A term \in DOMAIN Documents[d].terms : Documents[d].terms[term] \in Nat
    /\ \A n \in 1 .. Cardinality(DOMAIN Documents) :
          LnMilli[<<2 * Cardinality(DOMAIN Documents) + 2, 2 * n + 1>>] \in Int

Clamp(value, weight) == Max({0, Min({value, weight})})

Weight(condition, weight) == IF condition THEN weight ELSE 0

Words(e) == e.query \cup e.hints

\* The names that the evidence mentions, as positions and as a list.
Mentioned(names, e) == {i \in DOMAIN names : names[i] \in Words(e)}

Named(names, e) == SelectSeq(names, LAMBDA name : name \in Words(e))

-----------------------------------------------------------------------------
Frequency(d, term) == Min({Documents[d].terms[term], 255})

DocumentLength(d) ==
    SumFunction([term \in DOMAIN Documents[d].terms |-> Frequency(d, term)])

AverageLength ==
    Max({1, SumFunction([d \in DOMAIN Documents |-> DocumentLength(d)])
            \div Cardinality(DOMAIN Documents)})

\* The logarithm of (2N + 2) / (2df + 1)
InverseFrequency(term) ==
    LET holders == {d \in DOMAIN Documents : term \in DOMAIN Documents[d].terms}
    IN  Max({0, LnMilli[<<2 * Cardinality(DOMAIN Documents) + 2, 2 * Cardinality(holders) + 1>>]})

\* BM25 in fixed point, with k1 = 1.2 and b = 0.75
Lexical(d, e) ==
    LET norm == 250 + (750 * DocumentLength(d)) \div AverageLength
        Contribution(term) ==
            LET f == Frequency(d, term)
                saturated == (f * 2200 * 1000) \div (f * 1000 + (1200 * norm) \div 1000)
            IN  (InverseFrequency(term) * saturated) \div 1000
        terms == e.query \cap DOMAIN Documents[d].terms
    IN  Clamp(5 * SumFunction([term \in terms |-> Contribution(term)]), 500000)

PathMatch(d, e) ==
    Clamp(Weight(Documents[d].name \in Words(e), 60000)
          + Weight(Documents[d].stem \in Words(e), 40000)
          + 6000 * Cardinality(Documents[d].components \cap Words(e)), 100000)

JavaSymbol(d, e) ==
    LET types == ToSet(Documents[d].types) \cap Words(e)
        methods == Mentioned(Documents[d].methods, e)
    IN  Clamp(Weight(types # {}, 60000)
              + Weight(Documents[d].stem \in types, 20000)
              + 25000 * Min({2, Cardinality(methods)})
              + Weight(Documents[d].packages \cap Words(e) # {}, 15000), 150000)

FrameMatch(d, frame) ==
    CASE frame.source # "" /\ d \in frame.paths -> 120000
      [] frame.source # "" /\ d \notin frame.paths ->
            Weight(Documents[d].name = frame.source, 60000)
      [] OTHER -> Weight(Documents[d].stem = frame.class, 60000)

\* The frame nearest to the top that names the file counts, and no other.
MatchingFrames(d, e) == {k \in DOMAIN e.frames : FrameMatch(d, e.frames[k]) > 0}

StackTrace(d, e) ==
    IF MatchingFrames(d, e) = {} THEN 0
    ELSE LET k == Min(MatchingFrames(d, e))
         IN  Clamp(FrameMatch(d, e.frames[k]) + 40000 \div k
                   + Weight(e.frames[k].method \in ToSet(Documents[d].methods), 20000), 200000)

Counterpart(d, c) == Documents[d].directory \in Counterparts[Documents[c].directory]

SameDirectory(d, c) == Documents[d].directory = Documents[c].directory

SharesBase(d, c) == Documents[d].bases \cap Documents[c].bases # {}

Adjacency(d, c) ==
    IF c = d THEN 80000
    ELSE Weight(SameDirectory(d, c), 30000)
         + Weight(~SameDirectory(d, c) /\ Counterpart(d, c), 25000)
         + Weight(SharesBase(d, c) \/ Documents[d].stem = Documents[c].stem, 20000)

DiffAdjacency(d, e) ==
    Clamp(SumFunction([c \in ToSet(e.changed) |-> Adjacency(d, c)]), 120000)

\* Of the changed files, the first that is near counts.
Nearness(d, changed) ==
    LET near == {i \in DOMAIN changed :
                    \/ SameDirectory(d, changed[i])
                    \/ Counterpart(d, changed[i]) /\ SharesBase(d, changed[i])}
    IN  CASE near = {} -> 0
          [] near # {} /\ SameDirectory(d, changed[Min(near)]) -> 25000
          [] OTHER -> 30000

TestProximity(d, e) ==
    LET classes == {e.frames[k].class : k \in DOMAIN e.frames}
        stems == {Documents[c].stem : c \in ToSet(e.changed)}
    IN  IF ~Documents[d].test THEN 0
        ELSE Clamp(Weight(Documents[d].bases \cap (stems \cup classes \cup e.query) # {}, 40000)
                   + Nearness(d, e.changed)
                   + Weight(ToSet(Documents[d].types) \cap (classes \cup e.query) # {}, 20000), 80000)

BuildMetadata(d, e) ==
    IF ~Documents[d].build THEN 0
    ELSE Clamp(Weight({Documents[d].name, Documents[d].stem} \cap e.hints # {}, 40000)
               + Weight(Words(e) \cap BuildWords # {}, 20000), 60000)

-----------------------------------------------------------------------------
Score(d, e) ==
    Lexical(d, e) + PathMatch(d, e) + JavaSymbol(d, e) + StackTrace(d, e)
    + DiffAdjacency(d, e) + TestProximity(d, e) + BuildMetadata(d, e)

Ahead(c, d, e) ==
    \/ Score(c, e) > Score(d, e)
    \/ Score(c, e) = Score(d, e) /\ c < d

First(n, names) == SubSeq(names, 1, Min({n, Len(names)}))

\* The names that the details of JAVA_SYMBOL and STACK_TRACE carry, without
\* repetitions.
SymbolDetail(d, e) ==
    LET named == First(3, Named(Documents[d].types, e)) \o First(3, Named(Documents[d].methods, e))
        frames == MatchingFrames(d, e)
        thrown == {e.frames[k].method : k \in {j \in frames : \A i \in frames : j <= i}}
    IN  named \o SelectSeq(Documents[d].methods, LAMBDA m : m \in thrown \ ToSet(named))

\* generate_candidates: files with positive evidence, best first.
Rank(e) ==
    LET scored == {d \in DOMAIN Documents : Score(d, e) > 0}
        At(r) == CHOOSE d \in scored : Cardinality({c \in scored : Ahead(c, d, e)}) = r - 1
    IN  [r \in 1 .. Min({e.limit, Cardinality(scored)}) |->
            [file |-> At(r), rank |-> r, score |-> Score(At(r), e),
             symbols |-> SymbolDetail(At(r), e), revision |-> Revision,
             identified |-> TRUE]]

=============================================================================
