--------------------------- MODULE EvidenceProofs ---------------------------
(***************************************************************************)
(* Theorems about the evidence tables: the store keeps what was published, *)
(* equal writes converge, what is admitted can be stored and linked rows   *)
(* agree, for any number of sessions and any aggregates.                   *)
(***************************************************************************)
EXTENDS EvidenceStore, FiniteSetTheorems, SequenceTheorems, TLAPS

MainTables == {"patch", "evidence", "manifest", "bundle"}
ChildTables == {"file", "case", "observation", "role", "member", "item"}

IsMain(r) == r.table \in MainTables
IsChild(r) == r.table \in ChildTables

Owns(r, c) == c.owner = r.owner /\ c.table \in Collections(r.table)

\* No child row is written before the collections are compared.
Ordered(todo) ==
    \A i, j \in DOMAIN todo : IsChild(todo[i]) /\ todo[j] = Compare => j < i

HasCompare(a) == Compare \in ToSet(Plan(a))

-----------------------------------------------------------------------------
(* Sequences of statements.                                                *)

LEMMA SequenceOfSet ==
    ASSUME NEW S, IsFiniteSet(S)
    PROVE  SetToSeq(S) \in Seq(S)
<1>1. Cardinality(S) \in Nat /\ ExistsBijection(1 .. Cardinality(S), S)
  BY FS_CardinalityType
<1>2. PICK f \in Bijection(1 .. Cardinality(S), S) : TRUE
  BY <1>1 DEF ExistsBijection
<1>3. f \in [1 .. Cardinality(S) -> S] /\ IsInjective(f)
  BY <1>2 DEF Bijection, Injection, IsInjective
<1>4. SetToSeq(S) \in [1 .. Cardinality(S) -> S] /\ IsInjective(SetToSeq(S))
  BY <1>3 DEF SetToSeq
<1> QED BY <1>1, <1>4, SeqDef

LEMMA SequenceOfFunction ==
    ASSUME NEW n \in Nat, NEW f, f = [i \in 1 .. n |-> f[i]]
    PROVE  f \in Seq(ToSet(f)) /\ DOMAIN f = 1 .. n /\ Len(f) = n
<1>1. \A i \in 1 .. n : f[i] \in ToSet(f)
  BY DEF ToSet
<1>2. f \in [1 .. n -> ToSet(f)]
  BY <1>1
<1> QED BY <1>2, SeqDef

LEMMA Concatenated ==
    ASSUME NEW U, NEW s \in Seq(U), NEW t \in Seq(U)
    PROVE  ToSet(s \o t) = ToSet(s) \cup ToSet(t)
<1>1. /\ DOMAIN s = 1 .. Len(s) /\ DOMAIN t = 1 .. Len(t)
      /\ DOMAIN (s \o t) = 1 .. Len(s) + Len(t)
      /\ Len(s) \in Nat /\ Len(t) \in Nat
      /\ \A i \in 1 .. Len(s) + Len(t) :
            (s \o t)[i] = IF i <= Len(s) THEN s[i] ELSE t[i - Len(s)]
  BY LenProperties, ConcatProperties
<1>2. ToSet(s \o t) \subseteq ToSet(s) \cup ToSet(t)
  BY <1>1 DEF ToSet
<1>3. ASSUME NEW i \in 1 .. Len(s) PROVE s[i] \in ToSet(s \o t)
  BY <1>1 DEF ToSet
<1>4. ASSUME NEW i \in 1 .. Len(t) PROVE t[i] \in ToSet(s \o t)
  <2>1. i + Len(s) \in 1 .. Len(s) + Len(t) /\ (s \o t)[i + Len(s)] = t[i]
    BY <1>1
  <2> QED BY <1>1, <2>1 DEF ToSet
<1> QED BY <1>1, <1>2, <1>3, <1>4 DEF ToSet

LEMMA TailOf ==
    ASSUME NEW U, NEW s \in Seq(U), s # <<>>
    PROVE  /\ Tail(s) \in Seq(U) /\ Head(s) \in ToSet(s)
           /\ ToSet(s) = {Head(s)} \cup ToSet(Tail(s))
           /\ Ordered(s) => Ordered(Tail(s))
           /\ Ordered(s) /\ IsChild(Head(s)) => Compare \notin ToSet(s)
<1>1. /\ Len(s) \in Nat \ {0} /\ DOMAIN s = 1 .. Len(s) /\ Head(s) = s[1]
      /\ Tail(s) \in Seq(U) /\ DOMAIN Tail(s) = 1 .. Len(s) - 1
      /\ \A i \in 1 .. Len(s) - 1 : Tail(s)[i] = s[i + 1]
  BY EmptySeq, LenProperties, HeadTailProperties
<1>2. ToSet(Tail(s)) \subseteq ToSet(s)
  BY <1>1 DEF ToSet
<1>3. ASSUME NEW i \in 1 .. Len(s), i # 1 PROVE s[i] \in ToSet(Tail(s))
  <2>1. i - 1 \in 1 .. Len(s) - 1 /\ Tail(s)[i - 1] = s[i]
    BY <1>1, <1>3
  <2> QED BY <1>1, <2>1 DEF ToSet
<1>4. Ordered(s) => Ordered(Tail(s))
  <2> SUFFICES ASSUME Ordered(s), NEW i \in 1 .. Len(s) - 1, NEW j \in 1 .. Len(s) - 1,
                      IsChild(Tail(s)[i]), Tail(s)[j] = Compare
               PROVE  j < i
    BY <1>1 DEF Ordered
  <2>1. i + 1 \in DOMAIN s /\ j + 1 \in DOMAIN s
    BY <1>1
  <2>2. j + 1 < i + 1
    BY <1>1, <2>1 DEF Ordered
  <2> QED BY <2>2
<1>5. Ordered(s) /\ IsChild(Head(s)) => Compare \notin ToSet(s)
  BY <1>1 DEF Ordered, ToSet
<1> QED BY <1>1, <1>2, <1>3, <1>4, <1>5 DEF ToSet

-----------------------------------------------------------------------------
(* The plans of the aggregates.                                            *)

\* A plan opens with the root and keeps the child rows for after the
\* comparison.
IsPlanOf(a, opening, rest) ==
    LET U == ToSet(opening) \cup ToSet(rest)
    IN  /\ Plan(a) = opening \o rest
        /\ opening \in Seq(ToSet(opening)) /\ rest \in Seq(ToSet(rest))
        /\ opening # <<>> /\ opening[1] = Root(a)
        /\ \A x \in ToSet(opening) : ~IsChild(x)
        /\ \A x \in ToSet(rest) : x # Compare
        /\ \A x \in U : IsMain(x) => x = Root(a)
        /\ \A x \in U : IsChild(x) => Owns(Root(a), x)
        /\ Compare \in U \/ a.kind = "bundle" \/ Collections(Root(a).table) = {}

LEMMA FiniteImage ==
    ASSUME NEW S, IsFiniteSet(S), NEW f, DOMAIN f = S
    PROVE  IsFiniteSet({f[x] : x \in S})
<1> DEFINE T == {f[x] : x \in S}
<1>1. [x \in S |-> f[x]] \in Surjection(S, T)
  BY DEF Surjection
<1> HIDE DEF T
<1>2. IsFiniteSet(T)
  BY <1>1, FS_Surjection
<1> QED BY <1>2 DEF T

LEMMA ElementsOf ==
    ASSUME NEW S, NEW s \in Seq(S)
    PROVE  s \in Seq(ToSet(s)) /\ ToSet(s) \subseteq S
<1>1. Len(s) \in Nat /\ s \in [1 .. Len(s) -> S]
  BY LenProperties
<1>2. s = [i \in 1 .. Len(s) |-> s[i]]
  BY <1>1
<1>3. s \in Seq(ToSet(s))
  BY <1>1, <1>2, SequenceOfFunction
<1> QED BY <1>1, <1>3 DEF ToSet

\* The rows of one aggregate, by table.
LEMMA RowTables ==
    ASSUME NEW a, NEW x
    PROVE  /\ PatchRow(a).table = "patch" /\ PatchRow(a).owner = a.id
           /\ VersionRow(a).table = "version"
           /\ FileRow(a, x).table = "file" /\ FileRow(a, x).owner = a.id
           /\ EvidenceRow(a).table = "evidence" /\ EvidenceRow(a).owner = a.id
           /\ ArtefactRow(a).table = "artefact"
           /\ RoleRow(a, x).table = "role" /\ RoleRow(a, x).owner = a.id
           /\ CaseRow(a, x).table = "case" /\ CaseRow(a, x).owner = a.id
           /\ ObservationRow(a, x).table = "observation" /\ ObservationRow(a, x).owner = a.id
           /\ ManifestRow(a).table = "manifest" /\ ManifestRow(a).owner = a.id
           /\ MemberRow(a, x).table = "member" /\ MemberRow(a, x).owner = a.id
           /\ BundleRow(a).table = "bundle" /\ BundleRow(a).owner = a.id
           /\ ItemRow(a, x).table = "item" /\ ItemRow(a, x).owner = a.id
           /\ Compare.table = "compare"
BY DEF PatchRow, VersionRow, FileRow, EvidenceRow, ArtefactRow, RoleRow, CaseRow,
       ObservationRow, ManifestRow, MemberRow, BundleRow, ItemRow, Row, Compare

LEMMA CandidateShape ==
    ASSUME NEW a, a.kind = "candidate", IsFiniteSet(a.files)
    PROVE  \E opening, rest :
              /\ IsPlanOf(a, opening, rest)
              /\ ToSet(opening) = {PatchRow(a), VersionRow(a), Compare}
              /\ \A x \in ToSet(rest) : x.table = "file"
<1> DEFINE S == {FileRow(a, f) : f \in a.files}
           rows == [f \in a.files |-> FileRow(a, f)]
           opening == <<PatchRow(a), VersionRow(a), Compare>>
           rest == SetToSeq(S)
<1>1. IsFiniteSet(S)
  <2>1. S = {rows[f] : f \in a.files} /\ DOMAIN rows = a.files
    OBVIOUS
  <2>2. IsFiniteSet({rows[f] : f \in a.files})
    <3> HIDE DEF rows
    <3> QED BY <2>1, FiniteImage
  <2> QED BY <2>1, <2>2
<1>2. rest \in Seq(ToSet(rest)) /\ ToSet(rest) \subseteq S
  BY <1>1, SequenceOfSet, ElementsOf
<1>3. /\ opening \in Seq(ToSet(opening)) /\ opening # <<>> /\ opening[1] = PatchRow(a)
      /\ ToSet(opening) = {PatchRow(a), VersionRow(a), Compare}
  BY DEF ToSet
<1>4. Plan(a) = opening \o rest /\ Root(a) = PatchRow(a)
  BY DEF Plan, CandidatePlan, Root
<1> HIDE DEF opening, rest
<1>5. \A x \in S : x.table = "file" /\ x.owner = a.id
  BY RowTables
<1>6. IsPlanOf(a, opening, rest)
  <2>1. Root(a).table = "patch" /\ Root(a).owner = a.id
    BY <1>4, RowTables
  <2>2. \A x \in ToSet(opening) : ~IsChild(x) /\ (IsMain(x) => x = Root(a))
    BY <1>3, <1>4, <2>1, RowTables DEF IsChild, ChildTables, IsMain, MainTables
  <2>3. \A x \in ToSet(rest) : x # Compare /\ ~IsMain(x) /\ Owns(Root(a), x)
    BY <1>2, <1>5, <2>1, RowTables DEF IsMain, MainTables, Owns, Collections
  <2> QED BY <1>2, <1>3, <1>4, <2>2, <2>3 DEF IsPlanOf
<1> QED BY <1>2, <1>3, <1>5, <1>6

LEMMA EvidenceShape ==
    ASSUME NEW a, a.kind = "evidence", IsSequence(a.embedded), IsSequence(a.cases),
           IsSequence(a.observations)
    PROVE  \E opening, rest :
              /\ IsPlanOf(a, opening, rest)
              /\ ToSet(opening) = {EvidenceRow(a), Compare}
              /\ \A x \in ToSet(rest) :
                    \/ x.table \in {"case", "observation"}
                    \/ \E i \in DOMAIN a.embedded :
                          x \in {ArtefactRow(a.embedded[i].artefact),
                                 RoleRow(a, a.embedded[i])}
              /\ \A i \in DOMAIN a.embedded :
                    ArtefactRow(a.embedded[i].artefact) \in ToSet(rest)
<1> DEFINE opening == <<EvidenceRow(a), Compare>>
           roles == EmbeddedRows(a)
           cases == [i \in DOMAIN a.cases |-> CaseRow(a, i)]
           facts == [i \in DOMAIN a.observations |-> ObservationRow(a, i)]
           rest == roles \o cases \o facts
           U == ToSet(roles) \cup ToSet(cases) \cup ToSet(facts)
<1>1. /\ Len(a.embedded) \in Nat
      /\ DOMAIN a.cases = 1 .. Len(a.cases) /\ Len(a.cases) \in Nat
      /\ DOMAIN a.observations = 1 .. Len(a.observations) /\ Len(a.observations) \in Nat
  BY LenProperties DEF IsSequence
<1>2. roles \in Seq(ToSet(roles))
  <2>1. roles = [i \in 1 .. 2 * Len(a.embedded) |-> roles[i]]
    BY DEF EmbeddedRows
  <2> HIDE DEF roles
  <2> QED BY <1>1, <2>1, SequenceOfFunction
<1>3. cases \in Seq(ToSet(cases))
  <2>1. cases = [i \in 1 .. Len(a.cases) |-> cases[i]]
    BY <1>1
  <2> HIDE DEF cases
  <2> QED BY <1>1, <2>1, SequenceOfFunction
<1>4. facts \in Seq(ToSet(facts))
  <2>1. facts = [i \in 1 .. Len(a.observations) |-> facts[i]]
    BY <1>1
  <2> HIDE DEF facts
  <2> QED BY <1>1, <2>1, SequenceOfFunction
<1>5. /\ opening \in Seq(ToSet(opening)) /\ opening # <<>> /\ opening[1] = EvidenceRow(a)
      /\ ToSet(opening) = {EvidenceRow(a), Compare}
  BY DEF ToSet
<1>6. \A x \in U : \/ x.table = "artefact"
                   \/ x.table \in {"role", "case", "observation"} /\ x.owner = a.id
  <2>1. \A x \in ToSet(roles) : x.table = "artefact" \/ (x.table = "role" /\ x.owner = a.id)
    <3> SUFFICES ASSUME NEW i \in 1 .. 2 * Len(a.embedded)
                 PROVE  LET x == EmbeddedRows(a)[i]
                        IN  x.table = "artefact" \/ (x.table = "role" /\ x.owner = a.id)
      BY DEF ToSet, EmbeddedRows
    <3> DEFINE e == a.embedded[(i + 1) \div 2]
    <3>1. EmbeddedRows(a)[i] \in {ArtefactRow(e.artefact), RoleRow(a, e)}
      BY DEF EmbeddedRows
    <3>2. ArtefactRow(e.artefact).table = "artefact"
      BY RowTables
    <3>3. RoleRow(a, e).table = "role" /\ RoleRow(a, e).owner = a.id
      BY RowTables
    <3> QED BY <3>1, <3>2, <3>3
  <2>2. \A x \in ToSet(cases) : x.table = "case" /\ x.owner = a.id
    BY RowTables DEF ToSet
  <2>3. \A x \in ToSet(facts) : x.table = "observation" /\ x.owner = a.id
    BY RowTables DEF ToSet
  <2> QED BY <2>1, <2>2, <2>3
<1>7. \A x \in ToSet(roles) : \E i \in DOMAIN a.embedded :
          x \in {ArtefactRow(a.embedded[i].artefact), RoleRow(a, a.embedded[i])}
  <2> SUFFICES ASSUME NEW i \in 1 .. 2 * Len(a.embedded)
               PROVE  \E k \in DOMAIN a.embedded :
                         EmbeddedRows(a)[i] \in {ArtefactRow(a.embedded[k].artefact),
                                                RoleRow(a, a.embedded[k])}
    BY DEF ToSet, EmbeddedRows
  <2>1. (i + 1) \div 2 \in 1 .. Len(a.embedded)
    BY <1>1
  <2>2. DOMAIN a.embedded = 1 .. Len(a.embedded)
    BY LenProperties DEF IsSequence
  <2> QED BY <2>1, <2>2 DEF EmbeddedRows
<1>8. \A i \in DOMAIN a.embedded : ArtefactRow(a.embedded[i].artefact) \in ToSet(roles)
  <2> SUFFICES ASSUME NEW i \in DOMAIN a.embedded
               PROVE  ArtefactRow(a.embedded[i].artefact) \in ToSet(EmbeddedRows(a))
    OBVIOUS
  <2>1. i \in 1 .. Len(a.embedded)
    BY LenProperties DEF IsSequence
  <2>2. /\ 2 * i - 1 \in 1 .. 2 * Len(a.embedded)
        /\ ((2 * i - 1) + 1) \div 2 = i /\ (2 * i - 1) % 2 = 1
    <3> DEFINE n == Len(a.embedded)
    <3>1. n \in Nat /\ i \in 1 .. n
      BY <1>1, <2>1
    <3> HIDE DEF n
    <3>2. 2 * i - 1 \in 1 .. 2 * n /\ (2 * i - 1) + 1 = 2 * i
      BY <3>1
    <3>3. (2 * i) \div 2 = i
      BY <3>1
    <3>4. (2 * i - 1) % 2 = 1
      BY <3>1
    <3> QED BY <3>2, <3>3, <3>4 DEF n
  <2>3. /\ 2 * i - 1 \in DOMAIN EmbeddedRows(a)
        /\ EmbeddedRows(a)[2 * i - 1] = ArtefactRow(a.embedded[i].artefact)
    BY <2>2 DEF EmbeddedRows
  <2> QED BY <2>3 DEF ToSet
<1>9. \A x \in ToSet(cases) \cup ToSet(facts) : x.table \in {"case", "observation"}
  <2>1. ASSUME NEW i \in DOMAIN a.cases PROVE CaseRow(a, i).table = "case"
    BY RowTables
  <2>2. ASSUME NEW i \in DOMAIN a.observations
        PROVE  ObservationRow(a, i).table = "observation"
    BY RowTables
  <2> QED BY <2>1, <2>2 DEF ToSet
<1>10. Plan(a) = opening \o rest /\ Root(a) = EvidenceRow(a)
  BY DEF Plan, EvidencePlan, Root
<1> HIDE DEF opening, roles, cases, facts
<1>11. rest \in Seq(U) /\ ToSet(rest) = U
  <2>1. roles \in Seq(U) /\ cases \in Seq(U) /\ facts \in Seq(U)
    BY <1>2, <1>3, <1>4, SeqMonotonic
  <2> HIDE DEF U
  <2> DEFINE front == roles \o cases
  <2>2. front \in Seq(U) /\ ToSet(front) = ToSet(roles) \cup ToSet(cases)
    BY <2>1, ConcatProperties, Concatenated
  <2> HIDE DEF front
  <2>3. front \o facts \in Seq(U) /\ ToSet(front \o facts) = ToSet(front) \cup ToSet(facts)
    BY <2>1, <2>2, ConcatProperties, Concatenated
  <2>4. rest = front \o facts
    BY DEF front
  <2> QED BY <2>2, <2>3, <2>4 DEF U
<1>12. \A x \in ToSet(rest) :
          \/ x.table \in {"case", "observation"}
          \/ \E i \in DOMAIN a.embedded :
                x \in {ArtefactRow(a.embedded[i].artefact), RoleRow(a, a.embedded[i])}
  BY <1>11, <1>7, <1>9
<1>13. \A i \in DOMAIN a.embedded : ArtefactRow(a.embedded[i].artefact) \in ToSet(rest)
  BY <1>11, <1>8
<1> HIDE DEF rest, U
<1>14. IsPlanOf(a, opening, rest)
  <2>1. \A x \in ToSet(opening) : ~IsChild(x)
    BY <1>5, RowTables DEF IsChild, ChildTables
  <2>2. \A x \in ToSet(rest) : x # Compare /\ ~IsMain(x)
    BY <1>6, <1>11, RowTables DEF IsMain, MainTables
  <2>3. \A x \in ToSet(opening) : IsMain(x) => x = Root(a)
    BY <1>5, <1>10, RowTables DEF IsMain, MainTables
  <2>4. \A x \in ToSet(rest) : IsChild(x) => Owns(Root(a), x)
    <3>1. Root(a).table = "evidence" /\ Root(a).owner = a.id
      BY <1>10, RowTables
    <3>2. \A x \in ToSet(rest) : IsChild(x) =>
             x.table \in {"role", "case", "observation"} /\ x.owner = a.id
      BY <1>6, <1>11 DEF IsChild, ChildTables
    <3> QED BY <3>1, <3>2 DEF Owns, Collections
  <2> QED BY <1>5, <1>10, <1>11, <2>1, <2>2, <2>3, <2>4 DEF IsPlanOf
<1> QED BY <1>5, <1>14, <1>12, <1>13

LEMMA ManifestShape ==
    ASSUME NEW a, a.kind = "manifest", IsFiniteSet(a.members)
    PROVE  \E opening, rest :
              /\ IsPlanOf(a, opening, rest)
              /\ ToSet(opening) = {ManifestRow(a), Compare}
              /\ \A x \in ToSet(rest) : \E m \in a.members : x = MemberRow(a, m)
<1> DEFINE S == {MemberRow(a, m) : m \in a.members}
           rows == [m \in a.members |-> MemberRow(a, m)]
           opening == <<ManifestRow(a), Compare>>
           rest == SetToSeq(S)
<1>1. IsFiniteSet(S)
  <2>1. S = {rows[m] : m \in a.members} /\ DOMAIN rows = a.members
    OBVIOUS
  <2>2. IsFiniteSet({rows[m] : m \in a.members})
    <3> HIDE DEF rows
    <3> QED BY <2>1, FiniteImage
  <2> QED BY <2>1, <2>2
<1>2. rest \in Seq(ToSet(rest)) /\ ToSet(rest) \subseteq S
  BY <1>1, SequenceOfSet, ElementsOf
<1>3. /\ opening \in Seq(ToSet(opening)) /\ opening # <<>> /\ opening[1] = ManifestRow(a)
      /\ ToSet(opening) = {ManifestRow(a), Compare}
  BY DEF ToSet
<1>4. Plan(a) = opening \o rest /\ Root(a) = ManifestRow(a)
  BY DEF Plan, ManifestPlan, Root
<1> HIDE DEF opening, rest
<1>5. \A x \in S : x.table = "member" /\ x.owner = a.id
  BY RowTables
<1>6. IsPlanOf(a, opening, rest)
  <2>1. Root(a).table = "manifest" /\ Root(a).owner = a.id
    BY <1>4, RowTables
  <2>2. \A x \in ToSet(opening) : ~IsChild(x) /\ (IsMain(x) => x = Root(a))
    BY <1>3, <1>4, <2>1, RowTables DEF IsChild, ChildTables, IsMain, MainTables
  <2>3. \A x \in ToSet(rest) : x # Compare /\ ~IsMain(x) /\ Owns(Root(a), x)
    BY <1>2, <1>5, <2>1, RowTables DEF IsMain, MainTables, Owns, Collections
  <2> QED BY <1>2, <1>3, <1>4, <2>2, <2>3 DEF IsPlanOf
<1> QED BY <1>2, <1>3, <1>6

LEMMA BundleShape ==
    ASSUME NEW a, a.kind = "bundle", IsSequence(a.items)
    PROVE  \E opening, rest :
              /\ IsPlanOf(a, opening, rest)
              /\ ToSet(opening) = {BundleRow(a)}
              /\ \A x \in ToSet(rest) : x.table = "item"
<1> DEFINE opening == <<BundleRow(a)>>
           rest == [i \in DOMAIN a.items |-> ItemRow(a, i)]
<1>1. DOMAIN a.items = 1 .. Len(a.items) /\ Len(a.items) \in Nat
  BY LenProperties DEF IsSequence
<1>2. rest \in Seq(ToSet(rest))
  <2>1. rest = [i \in 1 .. Len(a.items) |-> rest[i]]
    BY <1>1
  <2> HIDE DEF rest
  <2> QED BY <1>1, <2>1, SequenceOfFunction
<1>3. \A x \in ToSet(rest) : x.table = "item" /\ x.owner = a.id
  <2> SUFFICES ASSUME NEW i \in DOMAIN a.items
               PROVE  ItemRow(a, i).table = "item" /\ ItemRow(a, i).owner = a.id
    BY DEF ToSet
  <2> QED BY RowTables
<1>4. /\ opening \in Seq(ToSet(opening)) /\ opening # <<>> /\ opening[1] = BundleRow(a)
      /\ ToSet(opening) = {BundleRow(a)}
  BY DEF ToSet
<1>5. Plan(a) = opening \o rest /\ Root(a) = BundleRow(a)
  BY DEF Plan, BundlePlan, Root
<1> HIDE DEF opening, rest
<1>6. IsPlanOf(a, opening, rest)
  <2>1. Root(a).table = "bundle" /\ Root(a).owner = a.id
    BY <1>5, RowTables
  <2>2. \A x \in ToSet(opening) : ~IsChild(x)
    BY <1>4, <1>5, <2>1 DEF IsChild, ChildTables
  <2>3. \A x \in ToSet(rest) : x # Compare /\ ~IsMain(x) /\ Owns(Root(a), x)
    BY <1>3, <2>1, RowTables DEF IsMain, MainTables, Owns, Collections
  <2> QED BY <1>2, <1>4, <1>5, <2>2, <2>3 DEF IsPlanOf
<1> QED BY <1>3, <1>4, <1>6

LEMMA ArtefactShape ==
    ASSUME NEW a, a.kind = "artefact"
    PROVE  \E opening, rest :
              /\ IsPlanOf(a, opening, rest)
              /\ ToSet(opening) = {ArtefactRow(a)} /\ ToSet(rest) = {}
<1> DEFINE opening == <<ArtefactRow(a)>>
<1>1. /\ opening \in Seq(ToSet(opening)) /\ opening # <<>> /\ opening[1] = ArtefactRow(a)
      /\ ToSet(opening) = {ArtefactRow(a)}
      /\ <<>> \in Seq(ToSet(<<>>)) /\ ToSet(<<>>) = {}
  BY DEF ToSet
<1>2. Plan(a) = opening \o <<>> /\ Root(a) = ArtefactRow(a)
  BY <1>1, ConcatEmptySeq DEF Plan, Root
<1> HIDE DEF opening
<1>3. Collections(Root(a).table) = {}
  BY <1>2, RowTables DEF Collections
<1>4. IsPlanOf(a, opening, <<>>)
  BY <1>1, <1>2, <1>3, RowTables DEF IsPlanOf, IsMain, IsChild, MainTables, ChildTables
<1> QED BY <1>1, <1>4

LEMMA PlanShape ==
    ASSUME NEW a \in Aggregates
    PROVE  /\ Plan(a) \in Seq(ToSet(Plan(a))) /\ Plan(a) # <<>>
           /\ Head(Plan(a)) = Root(a)
           /\ Ordered(Plan(a))
           /\ \A x \in RowsOf(a) : IsMain(x) => x = Root(a)
           /\ \A x \in RowsOf(a) : IsChild(x) => Owns(Root(a), x)
           /\ Root(a) \in RowsOf(a) /\ ~IsChild(Root(a))
           /\ HasCompare(a) \/ a.kind = "bundle" \/ Collections(Root(a).table) = {}
<1>1. PICK opening, rest : IsPlanOf(a, opening, rest)
  <2>1. CASE a.kind = "candidate" /\ IsFiniteSet(a.files)
    BY <2>1, CandidateShape
  <2>2. CASE /\ a.kind = "evidence"
             /\ IsSequence(a.embedded) /\ IsSequence(a.cases) /\ IsSequence(a.observations)
    BY <2>2, EvidenceShape
  <2>3. CASE a.kind = "artefact"
    BY <2>3, ArtefactShape
  <2>4. CASE a.kind = "manifest" /\ IsFiniteSet(a.members)
    BY <2>4, ManifestShape
  <2>5. CASE a.kind = "bundle" /\ IsSequence(a.items)
    BY <2>5, BundleShape
  <2> QED BY <2>1, <2>2, <2>3, <2>4, <2>5, AggregateAssumption
<1> DEFINE U == ToSet(opening) \cup ToSet(rest)
<1>2. opening \in Seq(U) /\ rest \in Seq(U) /\ Plan(a) = opening \o rest
  BY <1>1, SeqMonotonic DEF IsPlanOf
<1>3. Plan(a) \in Seq(U) /\ ToSet(Plan(a)) = U
  BY <1>2, ConcatProperties, Concatenated
<1>4. /\ Len(opening) \in Nat \ {0} /\ Len(rest) \in Nat
      /\ DOMAIN opening = 1 .. Len(opening) /\ DOMAIN rest = 1 .. Len(rest)
      /\ DOMAIN Plan(a) = 1 .. Len(opening) + Len(rest)
      /\ \A i \in 1 .. Len(opening) + Len(rest) :
            Plan(a)[i] = IF i <= Len(opening) THEN opening[i] ELSE rest[i - Len(opening)]
  BY <1>1, <1>2, <1>3, EmptySeq, LenProperties, ConcatProperties DEF IsPlanOf
<1>5. Plan(a) # <<>> /\ Head(Plan(a)) = Root(a)
  BY <1>1, <1>3, <1>4 DEF IsPlanOf
<1>6. Root(a) \in ToSet(opening)
  BY <1>1, <1>4 DEF IsPlanOf, ToSet
<1>7. Root(a) # Compare /\ ~IsChild(Root(a))
  <2>1. Root(a).table # "compare"
    BY RowTables, AggregateAssumption DEF Root
  <2> QED BY <1>1, <1>6, <2>1, RowTables DEF IsPlanOf
<1>8. Ordered(Plan(a))
  <2> SUFFICES ASSUME NEW i \in DOMAIN Plan(a), NEW j \in DOMAIN Plan(a),
                      IsChild(Plan(a)[i]), Plan(a)[j] = Compare
               PROVE  j < i
    BY DEF Ordered
  <2>1. j <= Len(opening)
    <3> SUFFICES ASSUME ~(j <= Len(opening)) PROVE FALSE
      OBVIOUS
    <3>1. j - Len(opening) \in DOMAIN rest /\ rest[j - Len(opening)] = Compare
      BY <1>4
    <3> QED BY <1>1, <3>1 DEF IsPlanOf, ToSet
  <2>2. ~(i <= Len(opening))
    <3> SUFFICES ASSUME i <= Len(opening) PROVE FALSE
      OBVIOUS
    <3>1. i \in DOMAIN opening /\ Plan(a)[i] = opening[i]
      BY <1>4
    <3> QED BY <1>1, <3>1 DEF IsPlanOf, ToSet
  <2> QED BY <1>4, <2>1, <2>2
<1>9. \A x \in RowsOf(a) : (IsMain(x) => x = Root(a)) /\ (IsChild(x) => Owns(Root(a), x))
  BY <1>1, <1>3 DEF IsPlanOf, RowsOf
<1>10. HasCompare(a) \/ a.kind = "bundle" \/ Collections(Root(a).table) = {}
  BY <1>1, <1>3 DEF IsPlanOf, HasCompare
<1> QED BY <1>3, <1>5, <1>6, <1>7, <1>8, <1>9, <1>10 DEF RowsOf

-----------------------------------------------------------------------------
(* The invariant, session by session: `store` are the committed rows, `own`*)
(* those of the session's transaction, c its call.                         *)

AllRows == UNION {RowsOf(a) : a \in Aggregates}

Calls(a) ==
    [aggregate : {a}, todo : Seq(ToSet(Plan(a))), fresh : BOOLEAN,
     savepoint : SUBSET AllRows]

TypeInv ==
    /\ committed \subseteq AllRows
    /\ pending \in [Sessions -> SUBSET AllRows]
    /\ call \in [Sessions -> {Idle} \cup UNION {Calls(a) : a \in Aggregates}]

NoRivals(rows) == \A r, q \in rows : Collide(r, q) => r = q

Apart(rows, others) == \A r \in rows, q \in others : ~Collide(r, q)

\* Every root has the children some aggregate claims for it.
Whole(rows) ==
    \A r \in rows : IsMain(r) =>
        \E a \in Aggregates : r = Root(a) /\ ChildrenIn(rows, r) = ChildrenOf(a)

Rooted(rows) ==
    \A c \in rows : IsChild(c) => \E r \in rows : IsMain(r) /\ Owns(r, c)

\* What the session keeps when its call fails.
Saved(own, c) == IF c = Idle THEN own ELSE c.savepoint

\* Only a call that inserted its root adds children, and it adds them all.
InCall(store, own, c) ==
    LET a == c.aggregate
        new == own \ c.savepoint
        view == store \cup own
    IN  /\ c.savepoint \subseteq own
        /\ \A x \in new : x \in RowsOf(a) /\ (IsMain(x) \/ IsChild(x) => c.fresh)
        /\ c.fresh => Root(a) \in new /\ ChildrenOf(a) \subseteq view \cup ToSet(c.todo)
        /\ c.todo = Plan(a) \/ Root(a) \in view
        /\ ~c.fresh /\ HasCompare(a) /\ Compare \notin ToSet(c.todo) =>
              ChildrenOf(a) \subseteq view
        /\ Ordered(c.todo)

SessionInv(store, own, c) ==
    /\ NoRivals(store \cup own) /\ store \cap own = {}
    /\ Whole(store \cup Saved(own, c)) /\ Rooted(Saved(own, c))
    /\ c # Idle => InCall(store, own, c)

StoreInv ==
    /\ TypeInv
    /\ Whole(committed) /\ Rooted(committed)
    /\ \A s \in Sessions : SessionInv(committed, pending[s], call[s])
    /\ \A s, t \in Sessions : s # t => Apart(pending[s], pending[t])

-----------------------------------------------------------------------------
(* Roots and their children.                                               *)

LEMMA Collisions ==
    ASSUME NEW r, NEW q
    PROVE  Collide(r, r) /\ (Collide(r, q) <=> Collide(q, r))
BY DEF Collide

LEMMA OwnersAndChildren ==
    ASSUME NEW r, NEW c, Owns(r, c)
    PROVE  IsChild(c) /\ IsMain(r)
BY DEF Owns, Collections, IsChild, IsMain, ChildTables, MainTables

LEMMA MainKey ==
    ASSUME NEW r \in AllRows, IsMain(r)
    PROVE  r.key = <<r.owner>>
<1>1. PICK a \in Aggregates : r \in RowsOf(a)
  BY DEF AllRows
<1>2. r = Root(a)
  BY <1>1, PlanShape
<1>3. r.table \in MainTables
  BY DEF IsMain
<1>4. a.kind \in {"candidate", "evidence", "artefact", "manifest", "bundle"}
  BY AggregateAssumption
<1> QED BY <1>2, <1>3, <1>4, RowTables
        DEF Root, PatchRow, EvidenceRow, ManifestRow, BundleRow, Row, MainTables

LEMMA OneOwner ==
    ASSUME NEW r \in AllRows, NEW q \in AllRows, NEW c, Owns(r, c), Owns(q, c)
    PROVE  Collide(r, q)
<1>1. IsMain(r) /\ IsMain(q)
  BY OwnersAndChildren
<1>2. r.key = <<c.owner>> /\ q.key = <<c.owner>>
  BY <1>1, MainKey DEF Owns
<1>3. r.table = q.table
  BY <1>1 DEF Owns, Collections, IsMain, MainTables
<1> QED BY <1>2, <1>3 DEF Collide

LEMMA OneBundle ==
    ASSUME NEW a \in Aggregates, NEW b \in Aggregates, a.kind = "bundle", Root(a) = Root(b)
    PROVE  a = b
<1>1. Root(a) = BundleRow(a)
  BY DEF Root
<1>2. b.kind = "bundle"
  <2>1. Root(b).table = "bundle"
    BY <1>1, RowTables
  <2>2. b.kind \in {"candidate", "evidence", "artefact", "manifest", "bundle"}
    BY AggregateAssumption
  <2>3. b.kind = "bundle" \/ Root(b) \in {PatchRow(b), EvidenceRow(b), ArtefactRow(b),
                                         ManifestRow(b)}
    BY <2>2 DEF Root
  <2> QED BY <2>1, <2>3, RowTables
<1>3. Root(b) = BundleRow(b)
  BY <1>2 DEF Root
<1>4. a.id = b.id
  BY <1>1, <1>3, RowTables
<1> QED BY <1>2, <1>4, AggregateAssumption

LEMMA ChildrenAreOwned ==
    ASSUME NEW a \in Aggregates
    PROVE  /\ ChildrenOf(a) = {x \in RowsOf(a) : Owns(Root(a), x)}
           /\ HasCompare(a) \/ a.kind = "bundle" \/ ChildrenOf(a) = {}
BY PlanShape DEF ChildrenOf, ChildrenIn, Owns

\* During a call, no settled root owns what the call has added, and the root
\* of a fresh call owns nothing settled.
LEMMA CallIsApart ==
    ASSUME NEW a \in Aggregates, NEW c \in Calls(a), c # Idle,
           NEW store \in SUBSET AllRows, NEW own \in SUBSET AllRows,
           Rooted(store), SessionInv(store, own, c)
    PROVE  /\ \A r \in store \cup c.savepoint, x \in own \ c.savepoint : ~Owns(r, x)
           /\ c.fresh => \A x \in store \cup c.savepoint : ~Owns(Root(a), x)
<1>1. c.aggregate = a /\ Saved(own, c) = c.savepoint
  BY DEF Calls, Saved
<1>2. InCall(store, own, c) /\ NoRivals(store \cup own) /\ store \cap own = {}
      /\ Rooted(c.savepoint)
  BY <1>1 DEF SessionInv
<1>3. /\ c.savepoint \subseteq own
      /\ \A x \in own \ c.savepoint : x \in RowsOf(a) /\ (IsMain(x) \/ IsChild(x) => c.fresh)
      /\ c.fresh => Root(a) \in own \ c.savepoint
  BY <1>1, <1>2 DEF InCall
<1>4. ASSUME NEW r \in store \cup c.savepoint, c.fresh, NEW x, Owns(r, x), Owns(Root(a), x)
      PROVE  FALSE
  <2>1. Collide(r, Root(a))
    BY <1>3, <1>4, OneOwner
  <2>2. r = Root(a)
    BY <1>2, <1>3, <1>4, <2>1 DEF NoRivals
  <2> QED BY <1>2, <1>3, <1>4, <2>2
<1>5. ASSUME NEW r \in store \cup c.savepoint, NEW x \in own \ c.savepoint, Owns(r, x)
      PROVE  FALSE
  <2>1. IsChild(x)
    BY <1>5, OwnersAndChildren
  <2>2. c.fresh /\ Owns(Root(a), x)
    BY <1>3, <2>1, PlanShape
  <2> QED BY <1>4, <1>5, <2>2
<1>6. ASSUME c.fresh, NEW x \in store \cup c.savepoint, Owns(Root(a), x)
      PROVE  FALSE
  <2>1. IsChild(x)
    BY <1>6, OwnersAndChildren
  <2>2. PICK r \in store \cup c.savepoint : Owns(r, x)
    BY <1>2, <1>6, <2>1 DEF Rooted
  <2> QED BY <1>4, <1>6, <2>2
<1> QED BY <1>5, <1>6

-----------------------------------------------------------------------------
(* The steps of one session.                                               *)

LEMMA BusyCall ==
    ASSUME NEW a \in Aggregates, NEW c \in Calls(a)
    PROVE  c # Idle /\ c.aggregate = a
BY DEF Calls, Idle

\* A child that is missing is only ever added to a fresh root: every other
\* call has compared its children, and a bundle has only one content.
LEMMA MissingChildIsFresh ==
    ASSUME NEW a \in Aggregates, NEW c \in Calls(a),
           NEW store \in SUBSET AllRows, NEW own \in SUBSET AllRows,
           Rooted(store), SessionInv(store, own, c),
           c.todo # <<>>, IsChild(Head(c.todo)), Head(c.todo) \in RowsOf(a),
           Head(c.todo) \notin store \cup own
    PROVE  c.fresh
<1> SUFFICES ASSUME ~c.fresh PROVE FALSE
  BY DEF Calls
<1> DEFINE x == Head(c.todo)
<1>1. /\ c.aggregate = a /\ Saved(own, c) = c.savepoint /\ c # Idle
      /\ c.todo \in Seq(ToSet(Plan(a)))
  BY BusyCall DEF Calls, Saved
<1>2. InCall(store, own, c) /\ Whole(store \cup c.savepoint)
  BY <1>1 DEF SessionInv
<1>3. x \in ChildrenOf(a)
  BY PlanShape, ChildrenAreOwned
<1>4. c.todo # Plan(a)
  BY PlanShape
<1>5. Root(a) \in store \cup own
  BY <1>1, <1>2, <1>4 DEF InCall
<1>6. CASE HasCompare(a)
  <2>1. Ordered(c.todo)
    BY <1>2 DEF InCall
  <2>2. Compare \notin ToSet(c.todo)
    BY <1>1, <2>1, TailOf
  <2>3. ChildrenOf(a) \subseteq store \cup own
    BY <1>1, <1>2, <1>6, <2>2 DEF InCall
  <2> QED BY <1>3, <2>3
<1>7. CASE a.kind = "bundle"
  <2>1. IsMain(Root(a))
    BY <1>7, RowTables DEF Root, IsMain, MainTables
  <2>2. Root(a) \in store \cup c.savepoint
    BY <1>1, <1>2, <1>5, <2>1 DEF InCall
  <2>3. PICK b \in Aggregates : /\ Root(a) = Root(b)
                                /\ ChildrenIn(store \cup c.savepoint, Root(a)) = ChildrenOf(b)
    BY <1>2, <2>1, <2>2 DEF Whole
  <2>4. a = b
    BY <1>7, <2>3, OneBundle
  <2>5. x \in store \cup c.savepoint
    BY <1>3, <2>3, <2>4 DEF ChildrenIn
  <2> QED BY <1>1, <1>2, <2>5 DEF InCall
<1> QED BY <1>3, <1>6, <1>7, ChildrenAreOwned

LEMMA InsertKeeps ==
    ASSUME NEW a \in Aggregates, NEW c \in Calls(a),
           NEW store \in SUBSET AllRows, NEW own \in SUBSET AllRows,
           Rooted(store), SessionInv(store, own, c),
           c.todo # <<>>, Head(c.todo) # Compare,
           ~\E q \in store \cup own : Collide(Head(c.todo), q),
           NEW d, d = [c EXCEPT !.todo = Tail(@), !.fresh = @ \/ Head(c.todo) = Root(a)]
    PROVE  /\ d \in Calls(a) /\ Head(c.todo) \in AllRows
           /\ SessionInv(store, own \cup {Head(c.todo)}, d)
<1> DEFINE x == Head(c.todo)
           more == own \cup {x}
<1>1. /\ c.aggregate = a /\ c # Idle /\ c.todo \in Seq(ToSet(Plan(a)))
      /\ c.savepoint \in SUBSET AllRows /\ c.fresh \in BOOLEAN
  BY BusyCall DEF Calls
<1>2. /\ Tail(c.todo) \in Seq(ToSet(Plan(a))) /\ x \in ToSet(Plan(a))
      /\ ToSet(c.todo) = {x} \cup ToSet(Tail(c.todo))
      /\ Ordered(c.todo) => Ordered(Tail(c.todo))
  BY <1>1, TailOf, HeadTailProperties
<1>3. /\ d \in Calls(a) /\ d.aggregate = a /\ d # Idle /\ d.savepoint = c.savepoint
      /\ d.todo = Tail(c.todo) /\ (d.fresh <=> c.fresh \/ x = Root(a))
  <2>1. d \in Calls(a)
    BY <1>1, <1>2 DEF Calls
  <2> QED BY <1>1, <2>1, BusyCall DEF Calls
<1>4. x \in RowsOf(a) /\ x \in AllRows
  BY <1>2 DEF RowsOf, AllRows
<1>5. x \notin store \cup own
  BY Collisions
<1> HIDE DEF x
<1>6. /\ InCall(store, own, c) /\ NoRivals(store \cup own) /\ store \cap own = {}
      /\ Whole(store \cup c.savepoint) /\ Rooted(c.savepoint)
      /\ Saved(own, c) = c.savepoint /\ Saved(more, d) = c.savepoint
  BY <1>1, <1>3 DEF SessionInv, Saved
<1>7. NoRivals(store \cup more) /\ store \cap more = {}
  BY <1>5, <1>6, Collisions DEF NoRivals, x
<1>8. InCall(store, more, d)
  <2>1. c.savepoint \subseteq own /\ c.savepoint \subseteq more
    BY <1>6 DEF InCall
  <2>2. \A y \in more \ c.savepoint :
           y \in RowsOf(a) /\ (IsMain(y) \/ IsChild(y) => d.fresh)
    <3>1. ASSUME NEW y \in own \ c.savepoint
          PROVE  y \in RowsOf(a) /\ (IsMain(y) \/ IsChild(y) => d.fresh)
      BY <1>1, <1>3, <1>6 DEF InCall
    <3>2. IsMain(x) => d.fresh
      BY <1>3, <1>4, PlanShape
    <3>3. IsChild(x) => d.fresh
      BY <1>3, <1>4, <1>5, MissingChildIsFresh DEF x
    <3> QED BY <1>4, <3>1, <3>2, <3>3
  <2>3. d.fresh => Root(a) \in more \ c.savepoint
    BY <1>1, <1>3, <1>5, <1>6, <2>1 DEF InCall
  <2>4. d.fresh => ChildrenOf(a) \subseteq (store \cup more) \cup ToSet(d.todo)
    <3>1. CASE c.fresh
      BY <1>1, <1>2, <1>3, <1>6, <3>1 DEF InCall
    <3>2. CASE x = Root(a)
      <4>1. c.todo = Plan(a)
        BY <1>1, <1>5, <1>6, <3>2 DEF InCall
      <4>2. ChildrenOf(a) \subseteq ToSet(c.todo)
        BY <4>1, ChildrenAreOwned DEF RowsOf
      <4> QED BY <1>2, <1>3, <4>2
    <3> QED BY <1>3, <3>1, <3>2
  <2>5. Root(a) \in store \cup more
    BY <1>1, <1>6, PlanShape DEF InCall, x
  <2>6. ~d.fresh /\ HasCompare(a) /\ Compare \notin ToSet(d.todo) =>
           ChildrenOf(a) \subseteq store \cup more
    <3>1. x # Compare
      BY DEF x
    <3> QED BY <1>1, <1>2, <1>3, <1>6, <3>1 DEF InCall
  <2>7. Ordered(d.todo)
    BY <1>2, <1>3, <1>6 DEF InCall
  <2> QED BY <1>3, <2>1, <2>2, <2>3, <2>4, <2>5, <2>6, <2>7 DEF InCall
<1>9. SessionInv(store, more, d)
  BY <1>6, <1>7, <1>8 DEF SessionInv
<1> QED BY <1>3, <1>4, <1>9 DEF x

\* A statement that finds its row, and a comparison that finds its children.
LEMMA AdvanceKeeps ==
    ASSUME NEW a \in Aggregates, NEW c \in Calls(a),
           NEW store \in SUBSET AllRows, NEW own \in SUBSET AllRows,
           SessionInv(store, own, c), c.todo # <<>>,
           \/ Head(c.todo) \in store \cup own
           \/ /\ Head(c.todo) = Compare
              /\ c.fresh \/ ChildrenOf(a) \subseteq store \cup own,
           NEW d, d = [c EXCEPT !.todo = Tail(@)]
    PROVE  d \in Calls(a) /\ SessionInv(store, own, d)
<1> DEFINE x == Head(c.todo)
<1>1. /\ c.aggregate = a /\ c # Idle /\ c.todo \in Seq(ToSet(Plan(a)))
      /\ c.savepoint \in SUBSET AllRows /\ c.fresh \in BOOLEAN
  BY BusyCall DEF Calls
<1>2. /\ Tail(c.todo) \in Seq(ToSet(Plan(a)))
      /\ ToSet(c.todo) = {x} \cup ToSet(Tail(c.todo))
      /\ Ordered(c.todo) => Ordered(Tail(c.todo))
  BY <1>1, TailOf, HeadTailProperties
<1>3. /\ d \in Calls(a) /\ d.aggregate = a /\ d # Idle /\ d.savepoint = c.savepoint
      /\ d.todo = Tail(c.todo) /\ d.fresh = c.fresh
  <2>1. d \in Calls(a)
    BY <1>1, <1>2 DEF Calls
  <2> QED BY <1>1, <2>1, BusyCall DEF Calls
<1>4. /\ InCall(store, own, c) /\ Saved(own, d) = Saved(own, c)
  BY <1>1, <1>3 DEF SessionInv, Saved
<1>5. Compare \notin ChildrenOf(a) /\ Root(a) # Compare
  BY ChildrenAreOwned, PlanShape DEF RowsOf
<1>6. Root(a) \in store \cup own
  BY <1>1, <1>4, <1>5, PlanShape DEF InCall
<1>7. d.fresh => ChildrenOf(a) \subseteq (store \cup own) \cup ToSet(d.todo)
  BY <1>1, <1>2, <1>3, <1>4, <1>5 DEF InCall
<1>8. ~d.fresh /\ HasCompare(a) /\ Compare \notin ToSet(d.todo) =>
         ChildrenOf(a) \subseteq store \cup own
  <2>1. CASE x \in store \cup own
    <3>1. x # Compare
      BY <2>1 DEF AllRows, RowsOf
    <3> QED BY <1>1, <1>2, <1>3, <1>4, <3>1 DEF InCall
  <2>2. CASE c.fresh \/ ChildrenOf(a) \subseteq store \cup own
    BY <1>3, <2>2
  <2> QED BY <2>1, <2>2
<1>9. InCall(store, own, d)
  BY <1>1, <1>2, <1>3, <1>4, <1>6, <1>7, <1>8 DEF InCall
<1> QED BY <1>1, <1>3, <1>4, <1>9 DEF SessionInv

\* An existing manifest is left alone.
LEMMA SkipKeeps ==
    ASSUME NEW a \in Aggregates, NEW c \in Calls(a),
           NEW store \in SUBSET AllRows, NEW own \in SUBSET AllRows,
           SessionInv(store, own, c), c.todo # <<>>, Head(c.todo) = Compare,
           ~c.fresh, ChildrenOf(a) \subseteq store \cup own,
           NEW d, d = [c EXCEPT !.todo = <<>>]
    PROVE  d \in Calls(a) /\ SessionInv(store, own, d)
<1>1. /\ c.aggregate = a /\ c # Idle /\ c.todo \in Seq(ToSet(Plan(a)))
      /\ c.savepoint \in SUBSET AllRows /\ c.fresh \in BOOLEAN
  BY BusyCall DEF Calls
<1>2. /\ d \in Calls(a) /\ d.aggregate = a /\ d # Idle /\ d.savepoint = c.savepoint
      /\ d.todo = <<>> /\ ~d.fresh
  <2>1. <<>> \in Seq(ToSet(Plan(a)))
    BY EmptySeq
  <2>2. d \in Calls(a)
    BY <1>1, <2>1 DEF Calls
  <2> QED BY <1>1, <2>2, BusyCall DEF Calls
<1>3. /\ InCall(store, own, c) /\ Saved(own, d) = Saved(own, c)
  BY <1>1, <1>2 DEF SessionInv, Saved
<1>4. Root(a) \in store \cup own
  BY <1>1, <1>3, PlanShape DEF InCall, RowsOf
<1>5. Ordered(<<>>)
  BY DEF Ordered
<1>6. InCall(store, own, d)
  BY <1>1, <1>2, <1>3, <1>4, <1>5 DEF InCall
<1> QED BY <1>1, <1>2, <1>3, <1>6 DEF SessionInv

LEMMA BeginKeeps ==
    ASSUME NEW a \in Aggregates, NEW store \in SUBSET AllRows, NEW own \in SUBSET AllRows,
           SessionInv(store, own, Idle),
           NEW d, d = [aggregate |-> a, todo |-> Plan(a), fresh |-> FALSE, savepoint |-> own]
    PROVE  d \in Calls(a) /\ SessionInv(store, own, d)
<1>1. d \in Calls(a) /\ d # Idle
  <2>1. d \in Calls(a)
    BY PlanShape DEF Calls
  <2> QED BY <2>1, BusyCall
<1>2. Saved(own, d) = own /\ Saved(own, Idle) = own
  BY <1>1 DEF Saved
<1>3. HasCompare(a) => Compare \in ToSet(d.todo)
  BY DEF HasCompare
<1>4. InCall(store, own, d)
  BY <1>3, PlanShape DEF InCall
<1> QED BY <1>1, <1>2, <1>4 DEF SessionInv

\* The call fails: what it wrote is undone.
LEMMA RollbackKeeps ==
    ASSUME NEW a \in Aggregates, NEW c \in Calls(a), NEW store, NEW own,
           SessionInv(store, own, c)
    PROVE  SessionInv(store, c.savepoint, Idle) /\ c.savepoint \subseteq own
<1>1. c # Idle /\ Saved(own, c) = c.savepoint /\ Saved(c.savepoint, Idle) = c.savepoint
  BY BusyCall DEF Saved
<1>2. c.savepoint \subseteq own
  BY <1>1 DEF SessionInv, InCall
<1>3. NoRivals(store \cup c.savepoint) /\ store \cap c.savepoint = {}
  BY <1>2 DEF SessionInv, NoRivals
<1> QED BY <1>1, <1>2, <1>3 DEF SessionInv

\* The call is done: it leaves whole roots.
LEMMA FinishKeeps ==
    ASSUME NEW a \in Aggregates, NEW c \in Calls(a),
           NEW store \in SUBSET AllRows, NEW own \in SUBSET AllRows,
           Rooted(store), SessionInv(store, own, c), c.todo = <<>>
    PROVE  SessionInv(store, own, Idle)
<1> DEFINE settled == store \cup c.savepoint
           new == own \ c.savepoint
<1>1. /\ c # Idle /\ c.aggregate = a /\ Saved(own, c) = c.savepoint
      /\ Saved(own, Idle) = own
  BY BusyCall DEF Saved
<1>2. /\ InCall(store, own, c) /\ NoRivals(store \cup own) /\ store \cap own = {}
      /\ Whole(settled) /\ Rooted(c.savepoint)
  BY <1>1 DEF SessionInv
<1>3. /\ c.savepoint \subseteq own /\ store \cup own = settled \cup new
      /\ \A x \in new : x \in RowsOf(a) /\ (IsMain(x) \/ IsChild(x) => c.fresh)
      /\ c.fresh => Root(a) \in new /\ ChildrenOf(a) \subseteq store \cup own
  <2>1. ToSet(c.todo) = {}
    BY DEF ToSet
  <2> QED BY <1>1, <1>2, <2>1 DEF InCall
<1>4. /\ \A r \in settled, x \in new : ~Owns(r, x)
      /\ c.fresh => \A x \in settled : ~Owns(Root(a), x)
  BY <1>1, CallIsApart
<1>5. Whole(store \cup own)
  <2> SUFFICES ASSUME NEW r \in store \cup own, IsMain(r)
               PROVE  \E b \in Aggregates :
                         r = Root(b) /\ ChildrenIn(store \cup own, r) = ChildrenOf(b)
    BY DEF Whole
  <2>1. CASE r \in settled
    <3>1. PICK b \in Aggregates : r = Root(b) /\ ChildrenIn(settled, r) = ChildrenOf(b)
      BY <1>2, <2>1 DEF Whole
    <3>2. ChildrenIn(store \cup own, r) = ChildrenIn(settled, r)
      BY <1>3, <1>4, <2>1 DEF ChildrenIn, Owns
    <3> QED BY <3>1, <3>2
  <2>2. CASE r \in new
    <3>1. r = Root(a) /\ c.fresh
      BY <1>3, <2>2, PlanShape
    <3>2. \A x \in store \cup own : Owns(r, x) <=> x \in ChildrenOf(a)
      BY <1>3, <1>4, <3>1, ChildrenAreOwned, OwnersAndChildren
    <3>3. ChildrenIn(store \cup own, r) = ChildrenOf(a)
      BY <1>3, <3>1, <3>2 DEF ChildrenIn, Owns
    <3> QED BY <3>1, <3>3
  <2> QED BY <1>3, <2>1, <2>2
<1>6. Rooted(own)
  <2> SUFFICES ASSUME NEW x \in own, IsChild(x)
               PROVE  \E r \in own : IsMain(r) /\ Owns(r, x)
    BY DEF Rooted
  <2>1. CASE x \in c.savepoint
    BY <1>2, <1>3, <2>1 DEF Rooted
  <2>2. CASE x \in new
    BY <1>3, <2>2, PlanShape, OwnersAndChildren
  <2> QED BY <2>1, <2>2
<1> QED BY <1>1, <1>2, <1>5, <1>6 DEF SessionInv

-----------------------------------------------------------------------------
(* Commits.                                                                *)

\* What one session commits adds nothing to a root of another one, and gets
\* nothing from it.
LEMMA CommitsStayApart ==
    ASSUME NEW store \in SUBSET AllRows, NEW own \in SUBSET AllRows,
           NEW other \in SUBSET AllRows,
           NoRivals(store \cup own), store \cap own = {}, Rooted(own),
           NoRivals(store \cup other), Apart(own, other),
           NEW r \in store \cup other, NEW x \in own, Owns(r, x)
    PROVE  FALSE
<1>1. PICK q \in own : IsMain(q) /\ Owns(q, x)
  BY OwnersAndChildren DEF Rooted
<1>2. Collide(q, r)
  BY <1>1, OneOwner
<1>3. CASE r \in store
  BY <1>1, <1>2, <1>3 DEF NoRivals
<1>4. CASE r \in other
  BY <1>1, <1>2, <1>4 DEF Apart
<1> QED BY <1>3, <1>4

LEMMA OtherCommitKeeps ==
    ASSUME NEW store \in SUBSET AllRows, NEW own \in SUBSET AllRows,
           NEW other \in SUBSET AllRows,
           NEW c \in {Idle} \cup UNION {Calls(a) : a \in Aggregates},
           SessionInv(store, own, Idle), SessionInv(store, other, c),
           Apart(own, other)
    PROVE  SessionInv(store \cup own, other, c)
<1> DEFINE after == store \cup own
           kept == Saved(other, c)
<1>1. /\ Rooted(own) /\ Whole(store \cup own) /\ NoRivals(store \cup own)
      /\ store \cap own = {}
  BY DEF SessionInv, Saved
<1>2. /\ Rooted(kept) /\ Whole(store \cup kept) /\ NoRivals(store \cup other)
      /\ store \cap other = {} /\ kept \subseteq other
      /\ c # Idle => InCall(store, other, c)
  BY DEF SessionInv, Saved, InCall
<1> HIDE DEF kept
<1>3. \A r \in own, q \in other : ~Collide(r, q) /\ ~Collide(q, r)
  BY Collisions DEF Apart
<1>4. NoRivals(after \cup other)
  BY <1>1, <1>2, <1>3 DEF NoRivals
<1>5. after \cap other = {}
  BY <1>2, <1>3, Collisions
<1>6. NoRivals(store \cup kept) /\ Apart(own, kept) /\ Apart(kept, own)
      /\ store \cap kept = {}
  BY <1>2, <1>3 DEF NoRivals, Apart
<1>7. ASSUME NEW r \in store \cup kept, NEW x \in own, Owns(r, x) PROVE FALSE
  BY <1>1, <1>2, <1>6, <1>7, CommitsStayApart
<1>8. ASSUME NEW r \in store \cup own, NEW x \in kept, Owns(r, x) PROVE FALSE
  BY <1>1, <1>2, <1>6, <1>8, CommitsStayApart
<1>9. Whole(after \cup kept)
  <2> SUFFICES ASSUME NEW r \in after \cup kept, IsMain(r)
               PROVE  \E b \in Aggregates :
                         r = Root(b) /\ ChildrenIn(after \cup kept, r) = ChildrenOf(b)
    BY DEF Whole
  <2>1. CASE r \in store \cup own
    <3>1. PICK b \in Aggregates : r = Root(b) /\ ChildrenIn(after, r) = ChildrenOf(b)
      BY <1>1, <2>1 DEF Whole
    <3>2. ChildrenIn(after \cup kept, r) = ChildrenIn(after, r)
      BY <1>8, <2>1 DEF ChildrenIn, Owns
    <3> QED BY <3>1, <3>2
  <2>2. CASE r \in store \cup kept
    <3>1. PICK b \in Aggregates : r = Root(b) /\ ChildrenIn(store \cup kept, r) = ChildrenOf(b)
      BY <1>2, <2>2 DEF Whole
    <3>2. ChildrenIn(after \cup kept, r) = ChildrenIn(store \cup kept, r)
      BY <1>7, <2>2 DEF ChildrenIn, Owns
    <3> QED BY <3>1, <3>2
  <2> QED BY <2>1, <2>2
<1>10. c # Idle => InCall(after, other, c)
  BY <1>2 DEF InCall
<1> QED BY <1>2, <1>4, <1>5, <1>9, <1>10 DEF SessionInv, kept

-----------------------------------------------------------------------------
(* The actions.                                                            *)

\* A step of one session that commits nothing.
LEMMA LocalStep ==
    ASSUME StoreInv, NEW s \in Sessions,
           NEW own \in SUBSET AllRows,
           NEW c \in {Idle} \cup UNION {Calls(a) : a \in Aggregates},
           committed' = committed,
           pending' = [pending EXCEPT ![s] = own],
           call' = [call EXCEPT ![s] = c],
           SessionInv(committed, own, c),
           \A t \in Sessions : t # s => Apart(own, pending[t])
    PROVE  StoreInv'
<1>1. TypeInv'
  BY DEF StoreInv, TypeInv
<1>2. \A t \in Sessions : /\ pending'[t] = IF t = s THEN own ELSE pending[t]
                          /\ call'[t] = IF t = s THEN c ELSE call[t]
  BY DEF StoreInv, TypeInv
<1>3. \A t \in Sessions : SessionInv(committed, pending'[t], call'[t])
  BY <1>2 DEF StoreInv
<1>4. \A t, u \in Sessions : t # u => Apart(pending'[t], pending'[u])
  BY <1>2, Collisions DEF StoreInv, Apart
<1> QED BY <1>1, <1>3, <1>4 DEF StoreInv

LEMMA SubsetApart ==
    ASSUME NEW rows, NEW more, NEW others, Apart(more, others), rows \subseteq more
    PROVE  Apart(rows, others)
BY DEF Apart

\* What a step of session s can use.
LEMMA SessionFacts ==
    ASSUME StoreInv, NEW s \in Sessions
    PROVE  /\ committed \in SUBSET AllRows /\ pending[s] \in SUBSET AllRows
           /\ Rooted(committed) /\ SessionInv(committed, pending[s], call[s])
           /\ \A t \in Sessions : t # s => Apart(pending[s], pending[t])
           /\ pending = [pending EXCEPT ![s] = pending[s]]
           /\ call[s] = Idle \/ (call[s].aggregate \in Aggregates
                                 /\ call[s] \in Calls(call[s].aggregate))
           /\ View(s) = committed \cup pending[s]
<1>1. call[s] \in {Idle} \cup UNION {Calls(a) : a \in Aggregates}
  BY DEF StoreInv, TypeInv
<1>2. ASSUME NEW a \in Aggregates, call[s] \in Calls(a)
      PROVE  call[s].aggregate \in Aggregates /\ call[s] \in Calls(call[s].aggregate)
  BY <1>2, BusyCall
<1>3. committed \in SUBSET AllRows /\ pending[s] \in SUBSET AllRows
      /\ pending = [pending EXCEPT ![s] = pending[s]]
  BY DEF StoreInv, TypeInv
<1> QED BY <1>1, <1>2, <1>3 DEF StoreInv, View

LEMMA CallStep ==
    ASSUME StoreInv, NEW s \in Sessions,
           NEW c \in {Idle} \cup UNION {Calls(a) : a \in Aggregates},
           committed' = committed, pending' = pending, call' = [call EXCEPT ![s] = c],
           SessionInv(committed, pending[s], c)
    PROVE  StoreInv'
<1>1. /\ pending[s] \in SUBSET AllRows /\ pending' = [pending EXCEPT ![s] = pending[s]]
      /\ \A t \in Sessions : t # s => Apart(pending[s], pending[t])
  BY SessionFacts
<1> QED BY <1>1, LocalStep

LEMMA BeginStep ==
    ASSUME StoreInv, NEW s \in Sessions, NEW a \in Aggregates, Begin(s, a)
    PROVE  StoreInv'
<1> DEFINE d == [aggregate |-> a, todo |-> Plan(a), fresh |-> FALSE, savepoint |-> pending[s]]
<1>1. /\ call[s] = Idle /\ call' = [call EXCEPT ![s] = d]
      /\ pending' = pending /\ committed' = committed
  BY DEF Begin, Busy
<1> HIDE DEF d
<1>2. d \in Calls(a) /\ SessionInv(committed, pending[s], d)
  BY <1>1, SessionFacts, BeginKeeps DEF d
<1>3. d \in UNION {Calls(b) : b \in Aggregates}
  BY <1>2
<1> QED BY <1>1, <1>2, <1>3, CallStep

LEMMA InsertStep ==
    ASSUME StoreInv, NEW s \in Sessions, InsertRow(s)
    PROVE  StoreInv'
<1> DEFINE c == call[s]
           a == c.aggregate
           x == Head(c.todo)
           d == [c EXCEPT !.todo = Tail(@), !.fresh = @ \/ x = Root(a)]
           own == pending[s] \cup {x}
<1>1. /\ c # Idle /\ c.todo # <<>> /\ x # Compare /\ ~NestedRefusal(s, x)
      /\ Blockers(s) = {} /\ ~\E q \in View(s) : Collide(x, q)
      /\ committed' = committed
  BY DEF InsertRow, Busy, Next1
<1>2. a \in Aggregates /\ c \in Calls(a)
  BY <1>1, SessionFacts
<1>3. pending' = [pending EXCEPT ![s] = own]
  BY DEF InsertRow, Next1
<1>4. call' = [call EXCEPT ![s] = d]
  BY DEF InsertRow, Next1
<1>5. \A t \in Sessions : t # s => ~\E q \in pending[t] : Collide(x, q)
  BY <1>1 DEF Blockers, Busy, Next1
<1> HIDE DEF c, a, x
<1>6. ~\E q \in committed \cup pending[s] : Collide(x, q)
  BY <1>1, SessionFacts
<1>7. d \in Calls(a) /\ x \in AllRows /\ SessionInv(committed, own, d)
  BY <1>1, <1>2, <1>6, SessionFacts, InsertKeeps DEF c, x
<1>8. \A t \in Sessions : t # s => Apart(own, pending[t])
  BY <1>5, SessionFacts DEF Apart
<1>9. own \in SUBSET AllRows
  BY <1>7, SessionFacts
<1>10. d \in UNION {Calls(b) : b \in Aggregates}
  BY <1>2, <1>7
<1> HIDE DEF d, own
<1> QED BY <1>1, <1>3, <1>4, <1>7, <1>8, <1>9, <1>10, LocalStep

LEMMA ConvergeStep ==
    ASSUME StoreInv, NEW s \in Sessions, ConvergeRow(s)
    PROVE  StoreInv'
<1> DEFINE c == call[s]
           a == c.aggregate
           d == [c EXCEPT !.todo = Tail(@)]
<1>1. /\ c # Idle /\ c.todo # <<>> /\ Head(c.todo) \in View(s)
      /\ committed' = committed /\ pending' = pending
  BY DEF ConvergeRow, Busy, Next1
<1>2. a \in Aggregates /\ c \in Calls(a)
  BY <1>1, SessionFacts
<1>3. call' = [call EXCEPT ![s] = d]
  BY DEF ConvergeRow, Advance
<1> HIDE DEF c, a
<1>4. d \in Calls(a) /\ SessionInv(committed, pending[s], d)
  BY <1>1, <1>2, SessionFacts, AdvanceKeeps DEF c
<1>5. d \in UNION {Calls(b) : b \in Aggregates}
  BY <1>2, <1>4
<1> HIDE DEF d
<1> QED BY <1>1, <1>3, <1>4, <1>5, CallStep

LEMMA CompareStep ==
    ASSUME StoreInv, NEW s \in Sessions, CompareCollections(s)
    PROVE  StoreInv'
<1> DEFINE c == call[s]
           a == c.aggregate
           d == [c EXCEPT !.todo = Tail(@)]
           e == [c EXCEPT !.todo = <<>>]
<1>1. /\ c # Idle /\ c.todo # <<>> /\ Head(c.todo) = Compare
      /\ c.fresh \/ CollectionsMatch(s)
      /\ committed' = committed /\ pending' = pending
  BY DEF CompareCollections, Busy, Next1
<1>2. a \in Aggregates /\ c \in Calls(a)
  BY <1>1, SessionFacts
<1>3. CollectionsMatch(s) => ChildrenOf(a) \subseteq committed \cup pending[s]
  BY SessionFacts DEF CollectionsMatch, ChildrenIn
<1>4. \/ ~c.fresh /\ call' = [call EXCEPT ![s] = e]
      \/ call' = [call EXCEPT ![s] = d]
  BY DEF CompareCollections, Advance
<1> HIDE DEF c, a
<1>5. d \in Calls(a) /\ SessionInv(committed, pending[s], d)
  BY <1>1, <1>2, <1>3, SessionFacts, AdvanceKeeps DEF c
<1>6. ~c.fresh => e \in Calls(a) /\ SessionInv(committed, pending[s], e)
  BY <1>1, <1>2, <1>3, SessionFacts, SkipKeeps DEF c
<1> DEFINE U == UNION {Calls(b) : b \in Aggregates}
<1>7. d \in U /\ (~c.fresh => e \in U)
  BY <1>2, <1>5, <1>6
<1> HIDE DEF d, e
<1>8. CASE call' = [call EXCEPT ![s] = d]
  BY <1>1, <1>5, <1>7, <1>8, CallStep
<1>9. CASE ~c.fresh /\ call' = [call EXCEPT ![s] = e]
  BY <1>1, <1>6, <1>7, <1>9, CallStep
<1> QED BY <1>4, <1>8, <1>9

LEMMA RollbackStep ==
    ASSUME StoreInv, NEW s \in Sessions, Busy(s), RollBackToSavepoint(s),
           committed' = committed
    PROVE  StoreInv'
<1>1. /\ call[s] # Idle /\ pending' = [pending EXCEPT ![s] = call[s].savepoint]
      /\ call' = [call EXCEPT ![s] = Idle]
  BY DEF RollBackToSavepoint, Busy
<1>2. call[s].aggregate \in Aggregates /\ call[s] \in Calls(call[s].aggregate)
  BY <1>1, SessionFacts
<1>3. /\ SessionInv(committed, call[s].savepoint, Idle)
      /\ call[s].savepoint \subseteq pending[s]
  BY <1>2, SessionFacts, RollbackKeeps
<1>4. call[s].savepoint \in SUBSET AllRows
  BY <1>3, SessionFacts
<1>5. \A t \in Sessions : t # s => Apart(call[s].savepoint, pending[t])
  BY <1>3, SessionFacts, SubsetApart
<1> QED BY <1>1, <1>3, <1>4, <1>5, LocalStep

LEMMA FinishStep ==
    ASSUME StoreInv, NEW s \in Sessions, Finish(s)
    PROVE  StoreInv'
<1>1. /\ call[s] # Idle /\ call[s].todo = <<>> /\ pending' = pending
      /\ call' = [call EXCEPT ![s] = Idle] /\ committed' = committed
  BY DEF Finish, Busy
<1>2. call[s].aggregate \in Aggregates /\ call[s] \in Calls(call[s].aggregate)
  BY <1>1, SessionFacts
<1>3. SessionInv(committed, pending[s], Idle)
  BY <1>1, <1>2, SessionFacts, FinishKeeps
<1> QED BY <1>1, <1>3, CallStep

LEMMA AbortStep ==
    ASSUME StoreInv, NEW s \in Sessions, Rollback(s)
    PROVE  StoreInv'
<1>1. /\ pending' = [pending EXCEPT ![s] = {}]
      /\ call' = [call EXCEPT ![s] = Idle] /\ committed' = committed
  BY DEF Rollback, EndTransaction
<1>2. SessionInv(committed, {}, Idle)
  <2>1. Saved({}, Idle) = {} /\ committed \cup {} = committed
    BY DEF Saved
  <2>2. NoRivals(committed \cup {})
    BY SessionFacts DEF SessionInv, NoRivals
  <2>3. Whole(committed) /\ Rooted({})
    BY DEF StoreInv, Rooted
  <2> QED BY <2>1, <2>2, <2>3 DEF SessionInv
<1>3. \A t \in Sessions : t # s => Apart({}, pending[t])
  BY DEF Apart
<1> QED BY <1>1, <1>2, <1>3, LocalStep

LEMMA CommitStep ==
    ASSUME StoreInv, NEW s \in Sessions, Commit(s)
    PROVE  StoreInv'
<1> DEFINE own == pending[s]
           after == committed \cup own
<1>1. /\ call[s] = Idle /\ committed' = after
      /\ pending' = [pending EXCEPT ![s] = {}]
      /\ call' = [call EXCEPT ![s] = Idle]
  BY DEF Commit, EndTransaction, Busy
<1>2. SessionInv(committed, own, Idle) /\ own \in SUBSET AllRows
      /\ committed \in SUBSET AllRows /\ Rooted(committed)
  BY <1>1, SessionFacts
<1>3. Whole(after) /\ Rooted(own) /\ NoRivals(after)
  BY <1>2 DEF SessionInv, Saved
<1>4. Rooted(after)
  BY <1>2, <1>3 DEF Rooted
<1>5. TypeInv'
  BY <1>1, <1>2 DEF StoreInv, TypeInv
<1>6. \A t \in Sessions : /\ pending'[t] = IF t = s THEN {} ELSE pending[t]
                          /\ call'[t] = call[t]
  BY <1>1 DEF StoreInv, TypeInv
<1>7. ASSUME NEW t \in Sessions PROVE SessionInv(committed', pending'[t], call'[t])
  <2>1. CASE t = s
    <3>1. SessionInv(after, {}, Idle)
      <4>1. Saved({}, Idle) = {} /\ after \cup {} = after /\ Rooted({})
        BY DEF Saved, Rooted
      <4> QED BY <1>3, <4>1 DEF SessionInv
    <3> QED BY <1>1, <1>6, <2>1, <3>1
  <2>2. CASE t # s
    <3>1. Apart(own, pending[t])
      BY <2>2, SessionFacts
    <3>2. SessionInv(committed, pending[t], call[t]) /\ pending[t] \in SUBSET AllRows
      BY SessionFacts
    <3>3. call[t] \in {Idle} \cup UNION {Calls(a) : a \in Aggregates}
      BY DEF StoreInv, TypeInv
    <3>4. SessionInv(after, pending[t], call[t])
      BY <1>2, <3>1, <3>2, <3>3, OtherCommitKeeps
    <3> QED BY <1>1, <1>6, <2>2, <3>4
  <2> QED BY <2>1, <2>2
<1>8. \A t, u \in Sessions : t # u => Apart(pending'[t], pending'[u])
  BY <1>6 DEF StoreInv, Apart
<1> QED BY <1>1, <1>3, <1>4, <1>5, <1>7, <1>8 DEF StoreInv

LEMMA RefusedIsBusy ==
    ASSUME NEW s \in Sessions,
           ConflictRow(s) \/ RefuseNested(s) \/ ConflictCollections(s) \/ AbortDeadlock(s)
    PROVE  Busy(s)
<1>1. CASE AbortDeadlock(s)
  <2>1. Blockers(s) # {}
    BY <1>1 DEF AbortDeadlock, Deadlocked
  <2> QED BY <2>1 DEF Blockers
<1> QED BY <1>1 DEF ConflictRow, RefuseNested, ConflictCollections

LEMMA RefusalStep ==
    ASSUME StoreInv, NEW s \in Sessions,
           ConflictRow(s) \/ RefuseNested(s) \/ ConflictCollections(s) \/ AbortDeadlock(s)
    PROVE  StoreInv'
<1>1. RollBackToSavepoint(s) /\ committed' = committed
  BY DEF ConflictRow, RefuseNested, ConflictCollections, AbortDeadlock
<1> QED BY <1>1, RefusedIsBusy, RollbackStep

LEMMA StoreInvStep == StoreInv /\ [Next]_vars => StoreInv'
<1> SUFFICES ASSUME StoreInv, [Next]_vars PROVE StoreInv'
  OBVIOUS
<1>1. ASSUME UNCHANGED storeVars PROVE StoreInv'
  BY <1>1 DEF storeVars, StoreInv, TypeInv
<1>2. CASE Admit
  BY <1>1, <1>2 DEF Admit
<1>3. ASSUME NEW s \in Sessions, SessionStep(s) PROVE StoreInv'
  <2>1. ASSUME NEW a \in Aggregates, Refuse(s, a) PROVE StoreInv'
    BY <1>1, <2>1 DEF Refuse, vars
  <2>2. ASSUME NEW a \in Aggregates, Begin(s, a) PROVE StoreInv'
    BY <2>2, BeginStep
  <2>3. CASE InsertRow(s)
    BY <2>3, InsertStep
  <2>4. CASE ConvergeRow(s)
    BY <2>4, ConvergeStep
  <2>5. CASE CompareCollections(s)
    BY <2>5, CompareStep
  <2>6. CASE ConflictRow(s) \/ RefuseNested(s) \/ ConflictCollections(s) \/ AbortDeadlock(s)
    BY <2>6, RefusalStep
  <2>7. CASE Finish(s)
    BY <2>7, FinishStep
  <2>8. CASE Commit(s)
    BY <2>8, CommitStep
  <2>9. CASE Rollback(s)
    BY <2>9, AbortStep
  <2> QED BY <1>3, <2>1, <2>2, <2>3, <2>4, <2>5, <2>6, <2>7, <2>8, <2>9 DEF SessionStep
<1>4. CASE UNCHANGED vars
  BY <1>1, <1>4 DEF vars
<1> QED BY <1>2, <1>3, <1>4 DEF Next

LEMMA StoreInvInit == Init => StoreInv
<1> SUFFICES ASSUME Init PROVE StoreInv
  OBVIOUS
<1>1. /\ committed = {} /\ pending = [s \in Sessions |-> {}]
      /\ call = [s \in Sessions |-> Idle]
  BY DEF Init
<1>2. TypeInv
  BY <1>1 DEF TypeInv
<1>3. Whole({}) /\ Rooted({}) /\ NoRivals({}) /\ Apart({}, {})
  BY DEF Whole, Rooted, NoRivals, Apart
<1>4. Saved({}, Idle) = {} /\ {} \cup {} = {} /\ {} \cap {} = {}
  BY DEF Saved
<1>5. SessionInv({}, {}, Idle)
  BY <1>3, <1>4 DEF SessionInv
<1> QED BY <1>1, <1>2, <1>3, <1>5 DEF StoreInv

-----------------------------------------------------------------------------
(* Publication.                                                            *)

LEMMA RootsAreClaimed ==
    ASSUME NEW rows \in SUBSET AllRows, Whole(rows), NEW r \in rows, r.table \in RootTables
    PROVE  Projection(rows, r) \in Claimed
<1>1. ASSUME NEW a \in Aggregates, r \in RowsOf(a),
             ChildrenIn(rows, r) = ChildrenIn(RowsOf(a), r)
      PROVE  Projection(rows, r) \in Claimed
  <2>1. Projection(rows, r) = Projection(RowsOf(a), r)
    BY <1>1 DEF Projection
  <2>2. Projection(rows, r) \in Published(RowsOf(a))
    BY <1>1, <2>1 DEF Published
  <2> QED BY <2>2 DEF Claimed
<1>2. CASE IsMain(r)
  <2>1. PICK a \in Aggregates : r = Root(a) /\ ChildrenIn(rows, r) = ChildrenOf(a)
    BY <1>2 DEF Whole
  <2> QED BY <1>1, <2>1, PlanShape DEF ChildrenOf
<1>3. CASE ~IsMain(r)
  <2>1. PICK a \in Aggregates : r \in RowsOf(a)
    BY DEF AllRows
  <2>2. ChildrenIn(rows, r) = {} /\ ChildrenIn(RowsOf(a), r) = {}
    BY <1>3 DEF ChildrenIn, Collections, IsMain, MainTables
  <2> QED BY <1>1, <2>1, <2>2
<1> QED BY <1>2, <1>3

LEMMA CommitPublishes ==
    ASSUME StoreInv, NEW s \in Sessions, Commit(s)
    PROVE  Abstract!Publish
<1> DEFINE own == pending[s]
           after == committed \cup own
<1>1. call[s] = Idle /\ committed' = after
  BY DEF Commit, Busy
<1>2. /\ SessionInv(committed, own, Idle) /\ own \in SUBSET AllRows
      /\ committed \in SUBSET AllRows /\ Rooted(committed)
  BY <1>1, SessionFacts
<1>3. /\ Whole(after) /\ Rooted(own) /\ NoRivals(after) /\ committed \cap own = {}
      /\ after \in SUBSET AllRows /\ NoRivals(committed) /\ Apart(own, {})
  BY <1>2 DEF SessionInv, Saved, NoRivals, Apart
<1>4. ASSUME NEW r \in committed, NEW x \in own, Owns(r, x) PROVE FALSE
  <2>1. r \in committed \cup {} /\ {} \in SUBSET AllRows /\ NoRivals(committed \cup {})
    BY <1>3
  <2> QED BY <1>2, <1>3, <1>4, <2>1, CommitsStayApart
<1>5. \A r \in committed : ChildrenIn(after, r) = ChildrenIn(committed, r)
  BY <1>4 DEF ChildrenIn, Owns
<1>6. \A r \in committed : Projection(after, r) = Projection(committed, r)
  BY <1>5 DEF Projection
<1>7. Published(committed) \subseteq Published(after)
  BY <1>6 DEF Published
<1>8. ASSUME NEW e \in Published(after) PROVE e \in Claimed
  BY <1>3, <1>8, RootsAreClaimed DEF Published
<1>9. ASSUME NEW e \in Published(after), NEW f \in Published(after),
             Abstract!Key(e) = Abstract!Key(f)
      PROVE  e = f
  <2>1. PICK r \in after : e = Projection(after, r)
    BY <1>9 DEF Published
  <2>2. PICK q \in after : f = Projection(after, q)
    BY <1>9 DEF Published
  <2>3. r.table = q.table /\ r.key = q.key
    BY <1>9, <2>1, <2>2 DEF Abstract!Key, Projection
  <2>4. r = q
    BY <1>3, <2>3 DEF NoRivals, Collide
  <2> QED BY <2>1, <2>2, <2>4
<1>10. Published(committed)' = Published(after)
  BY <1>1 DEF Published, Projection, ChildrenIn
<1> QED BY <1>7, <1>8, <1>9, <1>10 DEF Abstract!Publish

\* Whatever sessions, aggregates and orders: an identity of the committed store
\* keeps the whole content it was published with, and that content is one that
\* somebody claimed.
THEOREM StoreIsWriteOnce == Spec => ImplementsWriteOnceStore
<1>1. Init => Abstract!Init
  BY DEF Init, Abstract!Init, Published
<1>2. StoreInv /\ [Next]_vars => [Abstract!Publish]_(Published(committed))
  <2> SUFFICES ASSUME StoreInv, [Next]_vars
               PROVE  Abstract!Publish \/ UNCHANGED Published(committed)
    OBVIOUS
  <2>1. CASE \E s \in Sessions : Commit(s)
    BY <2>1, CommitPublishes
  <2>2. CASE ~\E s \in Sessions : Commit(s)
    <3>1. committed' = committed
      BY <2>2 DEF Next, vars, storeVars, Admit, SessionStep, Refuse, Begin, InsertRow,
             ConvergeRow, ConflictRow, RefuseNested, CompareCollections,
             ConflictCollections, Finish, AbortDeadlock, Rollback
    <3> QED BY <3>1 DEF Published, Projection, ChildrenIn
  <2> QED BY <2>1, <2>2
<1> QED BY <1>1, <1>2, StoreInvInit, StoreInvStep, PTL
        DEF Spec, ImplementsWriteOnceStore, Abstract!Spec

\* A persist call ends in a conflict only when the rows its session can see
\* contradict its aggregate: writers of equal values never fail each other.
THEOREM EqualWritesAgree == Spec => EqualWritesConverge
<1>1. StoreInv => \A s \in Sessions :
         ConflictRow(s) \/ ConflictCollections(s) => Contradicts(View(s), call[s].aggregate)
  <2> SUFFICES ASSUME StoreInv, NEW s \in Sessions,
                      ConflictRow(s) \/ ConflictCollections(s)
               PROVE  Contradicts(View(s), call[s].aggregate)
    OBVIOUS
  <2> DEFINE c == call[s]
             a == c.aggregate
  <2>1. c # Idle /\ c.todo # <<>>
    BY DEF ConflictRow, ConflictCollections, Busy
  <2>2. a \in Aggregates /\ c \in Calls(a)
    BY <2>1, SessionFacts
  <2>3. c.todo \in Seq(ToSet(Plan(a)))
    BY <2>2 DEF Calls
  <2>4. CASE ConflictRow(s)
    <3>1. PICK q \in View(s) : Collide(Head(c.todo), q)
      BY <2>4 DEF ConflictRow, Next1
    <3>2. Head(c.todo) \in RowsOf(a) /\ Head(c.todo) # q
      BY <2>1, <2>3, <2>4, HeadTailProperties DEF ConflictRow, Next1, RowsOf
    <3> QED BY <3>1, <3>2 DEF Contradicts
  <2>5. CASE ConflictCollections(s)
    <3>1. Head(c.todo) = Compare /\ ChildrenIn(View(s), Root(a)) # ChildrenOf(a)
      BY <2>5 DEF ConflictCollections, CollectionsMatch, Next1
    <3>2. c.todo # Plan(a)
      BY <2>2, <3>1, PlanShape DEF RowsOf
    <3>3. Root(a) \in View(s)
      BY <2>1, <3>2, SessionFacts DEF SessionInv, InCall
    <3> QED BY <3>1, <3>3 DEF Contradicts
  <2> QED BY <2>4, <2>5
<1> QED BY <1>1, StoreInvInit, StoreInvStep, PTL DEF Spec, EqualWritesConverge

-----------------------------------------------------------------------------
(* Admission.                                                              *)

LEMMA CountOrZero ==
    ASSUME NEW count \in Nat \cup {None}
    PROVE  OrZero(count) \in Nat
BY DEF OrZero

LEMMA StoredStatus ==
    ASSUME NEW outcome
    PROVE  ExpectedCompileStatus(outcome) # None
<1>1. ExpectedCompileStatus(outcome) \in {"SUCCESS", "FAILURE", "NOT_COMPLETED"}
  BY DEF ExpectedCompileStatus
<1>2. "SUCCESS" # None /\ "FAILURE" # None /\ "NOT_COMPLETED" # None
  BY InputAssumption
<1> QED BY <1>1, <1>2

LEMMA ExecutionsAreStorable ==
    ASSUME NEW e \in ExecutionInputs, EvidenceAdmitted(e)
    PROVE  Storable(ExecutionValues(e))
<1> DEFINE row == ExecutionValues(e)
<1>1. /\ row.phase = e.phase /\ row.outcome = e.outcome /\ row.category = e.failure
      /\ row.secondary = IF e.secondary = {} THEN None ELSE e.secondary
      /\ row.compileStatus = Part(e.compile, "status")
      /\ row.compileErrors = Part(e.compile, "errors")
      /\ row.executed = Part(e.tests, "executed") /\ row.passed = Part(e.tests, "passed")
      /\ row.failed = Part(e.tests, "failed") /\ row.skipped = Part(e.tests, "skipped")
      /\ row.errored = Part(e.tests, "errored")
      /\ row.started = Part(e.timing, "started") /\ row.ended = Part(e.timing, "ended")
      /\ row.duration = Part(e.timing, "duration")
      /\ row.timedOut = Part(e.timeout, "timedOut")
      /\ row.classified = Part(e.timeout, "classified")
      /\ row.integrity = Part(e.integrity, "state")
      /\ row.verification = Part(e.integrity, "referenced")
  BY DEF ExecutionValues
<1> HIDE DEF row
<1>2. CheckStructuredResult(row)
  BY <1>1, StoredStatus
     DEF CheckStructuredResult, TestCounts, EvidenceAdmitted, PhaseResultAdmitted, Part
<1>3. CheckCompileStatus(row)
  BY <1>1 DEF CheckCompileStatus, EvidenceAdmitted, PhaseResultAdmitted, Part
<1>4. CheckTestCounts(row)
  <2>1. CASE e.tests = None
    <3>1. row.executed = None /\ OrZero(row.failed) = 0 /\ OrZero(row.errored) = 0
      BY <1>1, <2>1 DEF Part, OrZero
    <3> QED BY <3>1 DEF CheckTestCounts
  <2>2. CASE e.tests # None
    <3>1. /\ row.executed = e.tests.executed /\ row.passed = e.tests.passed
          /\ row.failed = e.tests.failed /\ row.skipped = e.tests.skipped
          /\ row.errored = e.tests.errored
      BY <1>1, <2>2 DEF Part
    <3>2. /\ OrZero(row.passed) \in Nat /\ OrZero(row.failed) \in Nat
          /\ OrZero(row.skipped) \in Nat /\ OrZero(row.errored) \in Nat
      BY <2>2, <3>1, CountOrZero, InputAssumption
    <3>3. TestResultAdmitted(e.tests) /\ e.phase # "COMPILE"
          /\ (e.outcome = "SUCCESS" => ~FailingTests(e.tests))
      BY <2>2 DEF EvidenceAdmitted, PhaseResultAdmitted
    <3>4. row.outcome = "SUCCESS" => OrZero(row.failed) = 0 /\ OrZero(row.errored) = 0
      BY <1>1, <3>1, <3>2, <3>3 DEF FailingTests
    <3>5. row.executed # None =>
             OrZero(row.passed) + OrZero(row.failed) + OrZero(row.skipped)
                + OrZero(row.errored) <= row.executed
      BY <3>1, <3>3 DEF TestResultAdmitted
    <3> QED BY <3>4, <3>5 DEF CheckTestCounts
  <2> QED BY <2>1, <2>2
<1>5. CheckPhaseOutcome(row)
  BY <1>1 DEF CheckPhaseOutcome, EvidenceAdmitted, PhaseResultAdmitted
<1>6. CheckFailureEvidence(row)
  BY <1>1 DEF CheckFailureEvidence, EvidenceAdmitted, OutcomeAdmitted
<1>7. CheckTimes(row)
  <2>1. row.started # None /\ row.ended # None => row.ended >= row.started
    BY <1>1 DEF EvidenceAdmitted, TimingAdmitted, Part
  <2>2. row.duration # None => row.duration >= 0
    BY <1>1 DEF EvidenceAdmitted, TimingAdmitted, Part
  <2>3. row.timedOut = TRUE => row.classified
    BY <1>1, InputAssumption DEF EvidenceAdmitted, TimeoutAdmitted, Part
  <2> QED BY <2>1, <2>2, <2>3 DEF CheckTimes
<1>8. CheckIntegrity(row)
  <2>1. "VERIFIED" # None
    BY InputAssumption
  <2> QED BY <1>1, <2>1 DEF CheckIntegrity, EvidenceAdmitted, IntegrityAdmitted, Part
<1> QED BY <1>2, <1>3, <1>4, <1>5, <1>6, <1>7, <1>8 DEF Storable, row

LEMMA AdmittedIsAccepted ==
    ASSUME NEW input \in Inputs, Admitted(input)
    PROVE  Accepted(input)
<1>1. CASE input.kind = "execution"
  BY <1>1, ExecutionsAreStorable DEF Inputs, Admitted, Accepted
<1>2. CASE input.kind = "candidate"
  BY <1>2 DEF Admitted, Accepted, CandidateAdmitted, PatchAdmitted, VersionAdmitted,
              FinalizationAdmitted, CheckPatch, CheckVersion
<1>3. CASE input.kind = "observation"
  BY <1>3 DEF Admitted, Accepted, ObservationAdmitted, CheckObservation
<1>4. CASE input.kind = "artefact"
  BY <1>4 DEF Admitted, Accepted, ArtefactAdmitted, CheckArtefact, IntegrityAdmitted
<1>5. CASE input.kind = "manifest"
  BY <1>5 DEF Admitted, Accepted, ManifestAdmitted, CheckManifest, IntegrityAdmitted
<1> QED BY <1>1, <1>2, <1>3, <1>4, <1>5 DEF Inputs

\* No value that a constructor of the domain lets through is refused by the
\* constraints of the table it is written to, whatever the values offered.
THEOREM AdmissionIsSufficient == Spec => []AdmittedMetadataIsStorable
<1> DEFINE HeldInv == held = Nothing \/ (held \in Inputs /\ Admitted(held))
<1>1. Init => HeldInv
  BY DEF Init, AdmissionInit
<1>2. HeldInv /\ [Next]_vars => HeldInv'
  BY DEF Next, vars, storeVars, Admit, AdmissionNext, Construct, Write, SessionStep,
         Refuse, Begin, InsertRow, ConvergeRow, ConflictRow, RefuseNested,
         CompareCollections, ConflictCollections, Finish, AbortDeadlock, Commit,
         Rollback, EndTransaction
<1>3. HeldInv => AdmittedMetadataIsStorable
  BY AdmittedIsAccepted DEF AdmittedMetadataIsStorable
<1> QED BY <1>1, <1>2, <1>3, PTL DEF Spec

-----------------------------------------------------------------------------
(* Linkages.                                                               *)

\* What LinkagesAreConsistent says of one row.
Linked(x, rows) ==
    /\ x.table = "patch" =>
          \E v \in rows : v.table = "version" /\ v.owner = x.owner /\ v.key = x.bind
    /\ x.table = "version" =>
          /\ Found(rows, "patch", x.owner) # {}
          /\ AttemptResolves(x.data.attempt, x.data.run)
          /\ x.data.parent # None =>
                \E p \in Found(rows, "version", x.data.parent) :
                    p.data.level = 0 /\ p.data.run = x.data.run
    /\ x.table = "evidence" =>
          \E v \in Found(rows, "version", x.data.candidate) :
              /\ AttemptResolves(x.data.attempt, v.data.run)
              /\ x.data.run \in {None, v.data.run}
    /\ x.table \in {"artefact", "manifest"} /\ x.data.evidence # None =>
          \E e \in Found(rows, "evidence", x.data.evidence) :
              /\ x.data.candidate \in {None, e.data.candidate}
              /\ x.table = "manifest" =>
                    /\ x.data.attempt \in {None, e.data.attempt}
                    /\ x.data.phase = e.data.phase
    /\ x.table \in {"role", "member"} =>
          \E m \in rows :
              /\ m.table = "artefact" /\ m.key = <<x.key[2]>>
              /\ x.table = "role" => m.data.evidence \in {None, x.owner}

LinkedIn(rows, within) == \A x \in rows : Linked(x, within)

TodoRows(c) == {x \in ToSet(c.todo) : x # Compare}

\* A row a call has yet to write is linked as soon as the others are written;
\* that of an artefact inside an execution is checked when it is reached.
LinksInCall(store, own, c) ==
    LET within == store \cup own \cup TodoRows(c)
    IN  /\ LinkedIn(own, within)
        /\ \A x \in TodoRows(c) :
              Linked(x, within) \/ (x.table = "artefact" /\ c.aggregate.kind = "evidence")

SessionLinks(store, own, c) ==
    /\ LinkedIn(Saved(own, c), store \cup Saved(own, c))
    /\ c # Idle => LinksInCall(store, own, c)

LinkInv ==
    /\ LinkedIn(committed, committed)
    /\ \A s \in Sessions : SessionLinks(committed, pending[s], call[s])

LEMMA LinksGrow ==
    ASSUME NEW x, NEW rows, NEW more, rows \subseteq more, Linked(x, rows)
    PROVE  Linked(x, more)
<1>1. \A table, id : Found(rows, table, id) \subseteq Found(more, table, id)
  BY DEF Found
<1> QED BY <1>1 DEF Linked

LEMMA LinksSuffice == LinkedIn(committed, committed) => LinkagesAreConsistent
BY DEF LinkedIn, Linked, LinkagesAreConsistent

-----------------------------------------------------------------------------
(* The rows of an aggregate that resolves.                                 *)

LEMMA PlanRows ==
    ASSUME NEW a, NEW opening, NEW rest, IsPlanOf(a, opening, rest)
    PROVE  RowsOf(a) = {x \in ToSet(opening) \cup ToSet(rest) : x # Compare}
<1> DEFINE U == ToSet(opening) \cup ToSet(rest)
<1>1. opening \in Seq(U) /\ rest \in Seq(U) /\ Plan(a) = opening \o rest
  BY SeqMonotonic DEF IsPlanOf
<1>2. ToSet(Plan(a)) = U
  BY <1>1, Concatenated
<1> QED BY <1>2 DEF RowsOf

LEMMA CandidateLinks ==
    ASSUME NEW a \in Aggregates, a.kind = "candidate", NEW rows, CandidateResolves(a, rows)
    PROVE  LinkedIn(RowsOf(a), rows \cup RowsOf(a))
<1> DEFINE within == rows \cup RowsOf(a)
<1>1. /\ PatchRow(a) \in RowsOf(a) /\ VersionRow(a) \in RowsOf(a)
      /\ \A x \in RowsOf(a) : x \in {PatchRow(a), VersionRow(a)} \/ x.table = "file"
  <2>1. IsFiniteSet(a.files)
    BY AggregateAssumption
  <2>2. PICK opening, rest : /\ IsPlanOf(a, opening, rest)
                             /\ ToSet(opening) = {PatchRow(a), VersionRow(a), Compare}
                             /\ \A x \in ToSet(rest) : x.table = "file"
    BY <2>1, CandidateShape
  <2>3. PatchRow(a) # Compare /\ VersionRow(a) # Compare
    BY RowTables
  <2> QED BY <2>2, <2>3, PlanRows
<1>2. /\ PatchRow(a).table = "patch" /\ PatchRow(a).owner = a.id
      /\ PatchRow(a).bind = <<a.version>> /\ PatchRow(a).key = <<a.id>>
      /\ VersionRow(a).table = "version" /\ VersionRow(a).owner = a.id
      /\ VersionRow(a).key = <<a.version>> /\ VersionRow(a).data.attempt = a.attempt
      /\ VersionRow(a).data.run = a.run /\ VersionRow(a).data.parent = a.parent
  BY DEF PatchRow, VersionRow, Row
<1>3. Linked(PatchRow(a), within)
  BY <1>1, <1>2 DEF Linked
<1>4. Linked(VersionRow(a), within)
  <2>1. PatchRow(a) \in Found(within, "patch", a.id)
    BY <1>1, <1>2 DEF Found
  <2>2. a.parent # None =>
           \E p \in Found(within, "version", a.parent) :
               p.data.level = 0 /\ p.data.run = a.run
    BY DEF CandidateResolves, LineageHolds, Found
  <2> QED BY <1>2, <2>1, <2>2 DEF Linked, CandidateResolves
<1>5. ASSUME NEW x, x.table = "file" PROVE Linked(x, within)
  BY <1>5 DEF Linked
<1> QED BY <1>1, <1>3, <1>4, <1>5 DEF LinkedIn

LEMMA ArtefactLinks ==
    ASSUME NEW m, NEW rows, ArtefactResolves(m, rows)
    PROVE  Linked(ArtefactRow(m), rows)
BY DEF ArtefactResolves, ArtefactRow, Row, Linked

LEMMA EvidenceLinks ==
    ASSUME NEW a \in Aggregates, a.kind = "evidence", NEW rows, EvidenceResolves(a, rows)
    PROVE  \A x \in RowsOf(a) : Linked(x, rows \cup RowsOf(a)) \/ x.table = "artefact"
<1> DEFINE within == rows \cup RowsOf(a)
<1>1. /\ EvidenceRow(a) \in RowsOf(a)
      /\ \A x \in RowsOf(a) :
            \/ x = EvidenceRow(a)
            \/ x.table \in {"case", "observation"}
            \/ \E i \in DOMAIN a.embedded :
                  x \in {ArtefactRow(a.embedded[i].artefact), RoleRow(a, a.embedded[i])}
      /\ \A i \in DOMAIN a.embedded : ArtefactRow(a.embedded[i].artefact) \in RowsOf(a)
  <2>1. IsSequence(a.embedded) /\ IsSequence(a.cases) /\ IsSequence(a.observations)
    BY AggregateAssumption
  <2>2. PICK opening, rest :
              /\ IsPlanOf(a, opening, rest)
              /\ ToSet(opening) = {EvidenceRow(a), Compare}
              /\ \A x \in ToSet(rest) :
                    \/ x.table \in {"case", "observation"}
                    \/ \E i \in DOMAIN a.embedded :
                          x \in {ArtefactRow(a.embedded[i].artefact),
                                 RoleRow(a, a.embedded[i])}
              /\ \A i \in DOMAIN a.embedded :
                    ArtefactRow(a.embedded[i].artefact) \in ToSet(rest)
    BY <2>1, EvidenceShape
  <2>3. EvidenceRow(a) # Compare /\ \A m : ArtefactRow(m) # Compare
    BY RowTables
  <2>4. RowsOf(a) = {x \in ToSet(opening) \cup ToSet(rest) : x # Compare}
    BY <2>2, PlanRows
  <2> QED BY <2>2, <2>3, <2>4
<1>2. Linked(EvidenceRow(a), within)
  <2>1. /\ EvidenceRow(a).table = "evidence" /\ EvidenceRow(a).data.candidate = a.candidate
        /\ EvidenceRow(a).data.attempt = a.attempt /\ EvidenceRow(a).data.run = a.run
    BY DEF EvidenceRow, Row
  <2>2. \E v \in Found(within, "version", a.candidate) :
           AttemptResolves(a.attempt, v.data.run) /\ a.run \in {None, v.data.run}
    BY DEF EvidenceResolves, Found
  <2> QED BY <2>1, <2>2 DEF Linked
<1>3. ASSUME NEW i \in DOMAIN a.embedded
      PROVE  Linked(RoleRow(a, a.embedded[i]), within)
  <2> DEFINE m == a.embedded[i].artefact
             role == RoleRow(a, a.embedded[i])
  <2>1. role.table = "role" /\ role.owner = a.id /\ role.key[2] = m.id
    BY DEF RoleRow, Row
  <2>2. /\ ArtefactRow(m).table = "artefact" /\ ArtefactRow(m).key = <<m.id>>
        /\ ArtefactRow(m).data.evidence = m.evidence
    BY DEF ArtefactRow, Row
  <2>3. m.evidence \in {None, a.id}
    BY DEF EvidenceResolves, EmbeddedConsistent
  <2>4. ArtefactRow(m) \in within
    BY <1>1
  <2> HIDE DEF m, role
  <2>5. Linked(role, within)
    BY <2>1, <2>2, <2>3, <2>4 DEF Linked
  <2> QED BY <2>5 DEF role, m
<1>4. ASSUME NEW x, x.table \in {"case", "observation"} PROVE Linked(x, within)
  BY <1>4 DEF Linked
<1> SUFFICES ASSUME NEW x \in RowsOf(a)
             PROVE  Linked(x, within) \/ x.table = "artefact"
  OBVIOUS
<1>5. ASSUME NEW i \in DOMAIN a.embedded
      PROVE  ArtefactRow(a.embedded[i].artefact).table = "artefact"
  BY RowTables
<1> HIDE DEF within
<1>6. CASE x = EvidenceRow(a) \/ x.table \in {"case", "observation"}
  BY <1>2, <1>4, <1>6
<1>7. ASSUME NEW i \in DOMAIN a.embedded,
             x \in {ArtefactRow(a.embedded[i].artefact), RoleRow(a, a.embedded[i])}
      PROVE  Linked(x, within) \/ x.table = "artefact"
  BY <1>3, <1>5, <1>7
<1> QED BY <1>1, <1>6, <1>7

LEMMA ManifestRows ==
    ASSUME NEW a \in Aggregates, a.kind = "manifest"
    PROVE  /\ \A x \in RowsOf(a) :
                 x = ManifestRow(a) \/ \E m \in a.members : x = MemberRow(a, m)
           /\ \A x \in RowsOf(a) : IsMain(x) \/ IsChild(x)
<1>1. \A x \in RowsOf(a) : x = ManifestRow(a) \/ \E m \in a.members : x = MemberRow(a, m)
  <2>1. IsFiniteSet(a.members)
    BY AggregateAssumption
  <2>2. PICK opening, rest :
              /\ IsPlanOf(a, opening, rest)
              /\ ToSet(opening) = {ManifestRow(a), Compare}
              /\ \A x \in ToSet(rest) : \E m \in a.members : x = MemberRow(a, m)
    BY <2>1, ManifestShape
  <2> QED BY <2>2, PlanRows
<1>2. IsMain(ManifestRow(a))
  BY RowTables DEF IsMain, MainTables
<1>3. ASSUME NEW m \in a.members PROVE IsChild(MemberRow(a, m))
  BY RowTables DEF IsChild, ChildTables
<1> QED BY <1>1, <1>2, <1>3

LEMMA ManifestLinks ==
    ASSUME NEW a \in Aggregates, a.kind = "manifest", NEW rows, ManifestResolves(a, rows)
    PROVE  LinkedIn(RowsOf(a), rows \cup RowsOf(a))
<1> DEFINE within == rows \cup RowsOf(a)
<1>1. \A x \in RowsOf(a) : x = ManifestRow(a) \/ \E m \in a.members : x = MemberRow(a, m)
  BY ManifestRows
<1>2. Linked(ManifestRow(a), within)
  <2>1. /\ ManifestRow(a).table = "manifest" /\ ManifestRow(a).data.candidate = a.candidate
        /\ ManifestRow(a).data.attempt = a.attempt /\ ManifestRow(a).data.phase = a.phase
        /\ ManifestRow(a).data.evidence = a.evidence
    BY DEF ManifestRow, Row
  <2>2. a.evidence # None =>
           \E e \in Found(within, "evidence", a.evidence) :
              /\ a.candidate \in {None, e.data.candidate}
              /\ a.attempt \in {None, e.data.attempt} /\ a.phase = e.data.phase
    BY DEF ManifestResolves, Found
  <2> QED BY <2>1, <2>2 DEF Linked
<1>3. ASSUME NEW m \in a.members PROVE Linked(MemberRow(a, m), within)
  <2>1. MemberRow(a, m).table = "member" /\ MemberRow(a, m).key[2] = m.id
    BY DEF MemberRow, Row
  <2>2. ArtefactRow(m).table = "artefact" /\ ArtefactRow(m).key = <<m.id>>
    BY DEF ArtefactRow, Row
  <2>3. ArtefactRow(m) \in within
    BY DEF ManifestResolves
  <2> QED BY <2>1, <2>2, <2>3 DEF Linked
<1> HIDE DEF within
<1> QED BY <1>1, <1>2, <1>3 DEF LinkedIn, within

LEMMA BundleLinks ==
    ASSUME NEW a \in Aggregates, a.kind = "bundle", NEW rows
    PROVE  LinkedIn(RowsOf(a), rows)
<1>1. \A x \in RowsOf(a) : x.table \in {"bundle", "item"}
  <2>1. IsSequence(a.items)
    BY AggregateAssumption
  <2>2. PICK opening, rest : /\ IsPlanOf(a, opening, rest)
                             /\ ToSet(opening) = {BundleRow(a)}
                             /\ \A x \in ToSet(rest) : x.table = "item"
    BY <2>1, BundleShape
  <2>3. BundleRow(a).table = "bundle"
    BY RowTables
  <2> QED BY <2>2, <2>3, PlanRows
<1> QED BY <1>1 DEF LinkedIn, Linked

LEMMA SingleLinks ==
    ASSUME NEW a \in Aggregates, a.kind = "artefact", NEW rows, ArtefactResolves(a, rows)
    PROVE  LinkedIn(RowsOf(a), rows \cup RowsOf(a))
<1>1. RowsOf(a) \subseteq {ArtefactRow(a)}
  <2>1. PICK opening, rest : /\ IsPlanOf(a, opening, rest)
                             /\ ToSet(opening) = {ArtefactRow(a)} /\ ToSet(rest) = {}
    BY ArtefactShape
  <2> QED BY <2>1, PlanRows
<1>2. Linked(ArtefactRow(a), rows)
  BY ArtefactLinks
<1>3. Linked(ArtefactRow(a), rows \cup RowsOf(a))
  BY <1>2, LinksGrow
<1> QED BY <1>1, <1>3 DEF LinkedIn

LEMMA AggregateLinks ==
    ASSUME NEW a \in Aggregates, NEW rows, Resolves(a, rows)
    PROVE  \A x \in RowsOf(a) : \/ Linked(x, rows \cup RowsOf(a))
                                \/ x.table = "artefact" /\ a.kind = "evidence"
<1>1. CASE a.kind = "candidate"
  BY <1>1, CandidateLinks DEF Resolves, LinkedIn
<1>2. CASE a.kind = "evidence"
  BY <1>2, EvidenceLinks DEF Resolves
<1>3. CASE a.kind = "artefact"
  BY <1>3, SingleLinks DEF Resolves, LinkedIn
<1>4. CASE a.kind = "manifest"
  BY <1>4, ManifestLinks DEF Resolves, LinkedIn
<1>5. CASE a.kind = "bundle"
  BY <1>5, BundleLinks DEF LinkedIn
<1> QED BY <1>1, <1>2, <1>3, <1>4, <1>5, AggregateAssumption

\* Inside an execution an artefact row is that of an embedded artefact.
LEMMA NestedArtefact ==
    ASSUME NEW s \in Sessions, call[s].aggregate \in Aggregates,
           call[s].aggregate.kind = "evidence",
           NEW x \in RowsOf(call[s].aggregate), x.table = "artefact",
           ~NestedRefusal(s, x)
    PROVE  Linked(x, View(s))
<1> DEFINE a == call[s].aggregate
<1>1. \E i \in DOMAIN a.embedded : ArtefactRow(a.embedded[i].artefact) = x
  <2>1. IsSequence(a.embedded) /\ IsSequence(a.cases) /\ IsSequence(a.observations)
    BY AggregateAssumption
  <2>2. PICK opening, rest :
              /\ IsPlanOf(a, opening, rest)
              /\ ToSet(opening) = {EvidenceRow(a), Compare}
              /\ \A y \in ToSet(rest) :
                    \/ y.table \in {"case", "observation"}
                    \/ \E i \in DOMAIN a.embedded :
                          y \in {ArtefactRow(a.embedded[i].artefact),
                                 RoleRow(a, a.embedded[i])}
    BY <2>1, EvidenceShape
  <2>3. EvidenceRow(a).table = "evidence" /\ Compare.table = "compare"
    BY RowTables
  <2>4. ASSUME NEW i \in DOMAIN a.embedded PROVE RoleRow(a, a.embedded[i]).table = "role"
    BY RowTables
  <2>5. x \in ToSet(rest)
    BY <2>2, <2>3, PlanRows
  <2> QED BY <2>2, <2>4, <2>5
<1>2. ArtefactRow(ArtefactOf(s, x)) = x
  BY <1>1 DEF ArtefactOf
<1>3. ArtefactResolves(ArtefactOf(s, x), View(s))
  BY DEF NestedRefusal
<1> QED BY <1>2, <1>3, ArtefactLinks

-----------------------------------------------------------------------------
(* The steps of a session.                                                 *)

LEMMA TodoAfter ==
    ASSUME NEW a, NEW c \in Calls(a), c.todo # <<>>, NEW d, d.todo = Tail(c.todo)
    PROVE  /\ TodoRows(d) \subseteq TodoRows(c)
           /\ TodoRows(c) \subseteq TodoRows(d) \cup {Head(c.todo)}
           /\ Head(c.todo) # Compare => Head(c.todo) \in TodoRows(c) /\ Head(c.todo) \in RowsOf(a)
<1>1. c.todo \in Seq(ToSet(Plan(a)))
  BY DEF Calls
<1>2. ToSet(c.todo) = {Head(c.todo)} \cup ToSet(Tail(c.todo))
  BY <1>1, TailOf
<1>3. ToSet(c.todo) \subseteq ToSet(Plan(a))
  BY <1>1, ElementsOf
<1> QED BY <1>2, <1>3 DEF TodoRows, RowsOf

\* The next statement is executed: its row, if it has one, is there now.
LEMMA AdvanceLinks ==
    ASSUME NEW a \in Aggregates, NEW store, NEW own, NEW more, NEW c \in Calls(a), c.todo # <<>>,
           NEW d \in Calls(a), d.todo = Tail(c.todo), d.savepoint = c.savepoint,
           own \subseteq more, more \subseteq own \cup ({Head(c.todo)} \ {Compare}),
           Head(c.todo) = Compare \/ Head(c.todo) \in store \cup more,
           SessionLinks(store, own, c),
           \A x \in more \ own : Linked(x, store \cup own \cup TodoRows(c))
    PROVE  SessionLinks(store, more, d)
<1> DEFINE within == store \cup own \cup TodoRows(c)
<1>1. /\ TodoRows(d) \subseteq TodoRows(c)
      /\ TodoRows(c) \subseteq TodoRows(d) \cup {Head(c.todo)}
      /\ Head(c.todo) # Compare => Head(c.todo) \in TodoRows(c)
  BY TodoAfter
<1>2. Compare \notin TodoRows(c)
  BY DEF TodoRows
<1>3. store \cup more \cup TodoRows(d) = within
  BY <1>1, <1>2
<1>4. c # Idle /\ d # Idle /\ c.aggregate = a /\ d.aggregate = a
  BY BusyCall
<1>5. /\ LinkedIn(c.savepoint, store \cup c.savepoint)
      /\ LinkedIn(own, within)
      /\ \A x \in TodoRows(c) : Linked(x, within) \/ (x.table = "artefact" /\ a.kind = "evidence")
  BY <1>4 DEF SessionLinks, LinksInCall, Saved
<1> HIDE DEF within
<1>6. LinkedIn(more, within)
  BY <1>5 DEF LinkedIn, within
<1>7. LinksInCall(store, more, d)
  BY <1>1, <1>3, <1>4, <1>5, <1>6 DEF LinksInCall
<1> QED BY <1>4, <1>5, <1>7 DEF SessionLinks, Saved

\* A step of one session that commits nothing.
LEMMA LinkLocal ==
    ASSUME StoreInv, LinkInv, NEW s \in Sessions, NEW own, NEW c,
           committed' = committed,
           pending' = [pending EXCEPT ![s] = own],
           call' = [call EXCEPT ![s] = c],
           SessionLinks(committed, own, c)
    PROVE  LinkInv'
<1>1. \A t \in Sessions : /\ pending'[t] = IF t = s THEN own ELSE pending[t]
                          /\ call'[t] = IF t = s THEN c ELSE call[t]
  BY DEF StoreInv, TypeInv
<1>2. \A t \in Sessions : SessionLinks(committed, pending'[t], call'[t])
  BY <1>1 DEF LinkInv
<1> QED BY <1>2 DEF LinkInv

LEMMA LinkCall ==
    ASSUME StoreInv, LinkInv, NEW s \in Sessions, NEW c,
           committed' = committed, pending' = pending, call' = [call EXCEPT ![s] = c],
           SessionLinks(committed, pending[s], c)
    PROVE  LinkInv'
<1>1. pending' = [pending EXCEPT ![s] = pending[s]]
  BY SessionFacts
<1> QED BY <1>1, LinkLocal

LEMMA LinkBegin ==
    ASSUME StoreInv, LinkInv, NEW s \in Sessions, NEW a \in Aggregates, Begin(s, a)
    PROVE  LinkInv'
<1> DEFINE d == [aggregate |-> a, todo |-> Plan(a), fresh |-> FALSE, savepoint |-> pending[s]]
<1>1. /\ call[s] = Idle /\ call' = [call EXCEPT ![s] = d]
      /\ pending' = pending /\ committed' = committed /\ Resolves(a, View(s))
  BY DEF Begin, Busy
<1>2. d.aggregate = a /\ d.savepoint = pending[s] /\ TodoRows(d) = RowsOf(a)
  BY DEF TodoRows, RowsOf
<1>3. d \in Calls(a)
  BY <1>1, SessionFacts, BeginKeeps
<1> HIDE DEF d
<1>4. d # Idle
  BY <1>3, BusyCall
<1> DEFINE within == committed \cup pending[s] \cup TodoRows(d)
<1>5. LinkedIn(pending[s], committed \cup pending[s])
  BY <1>1 DEF LinkInv, SessionLinks, Saved
<1>6. LinkedIn(pending[s], within)
  BY <1>5, LinksGrow DEF LinkedIn
<1>7. \A x \in TodoRows(d) : Linked(x, within) \/ (x.table = "artefact" /\ a.kind = "evidence")
  <2>1. within = View(s) \cup RowsOf(a)
    BY <1>2 DEF View
  <2> HIDE DEF within
  <2> QED BY <1>1, <1>2, <2>1, AggregateLinks
<1>8. SessionLinks(committed, pending[s], d)
  BY <1>2, <1>4, <1>5, <1>6, <1>7 DEF SessionLinks, LinksInCall, Saved
<1> QED BY <1>1, <1>8, LinkCall

LEMMA LinkInsert ==
    ASSUME StoreInv, LinkInv, NEW s \in Sessions, InsertRow(s)
    PROVE  LinkInv'
<1> DEFINE c == call[s]
           a == c.aggregate
           x == Head(c.todo)
           d == [c EXCEPT !.todo = Tail(@), !.fresh = @ \/ x = Root(a)]
           own == pending[s] \cup {x}
           within == committed \cup pending[s] \cup TodoRows(c)
<1>1. /\ c # Idle /\ c.todo # <<>> /\ x # Compare /\ ~NestedRefusal(s, x)
      /\ ~\E q \in View(s) : Collide(x, q)
      /\ committed' = committed
  BY DEF InsertRow, Busy, Next1
<1>2. pending' = [pending EXCEPT ![s] = own] /\ call' = [call EXCEPT ![s] = d]
  BY DEF InsertRow, Next1
<1>3. a \in Aggregates /\ c \in Calls(a) /\ View(s) = committed \cup pending[s]
  BY <1>1, SessionFacts
<1>4. SessionLinks(committed, pending[s], c)
  BY DEF LinkInv
<1>5. x \in TodoRows(c) /\ x \in RowsOf(a)
  <2> HIDE DEF c, a
  <2>1. [c EXCEPT !.todo = Tail(c.todo)].todo = Tail(c.todo)
    BY <1>3 DEF Calls
  <2> QED BY <1>1, <1>3, <2>1, TodoAfter
<1>6. Linked(x, within)
  <2>1. CASE Linked(x, within)
    BY <2>1
  <2>2. CASE x.table = "artefact" /\ a.kind = "evidence"
    <3>1. Linked(x, View(s))
      BY <1>1, <1>3, <1>5, <2>2, NestedArtefact
    <3>2. View(s) \subseteq within
      BY <1>3
    <3> HIDE DEF within, x
    <3> QED BY <3>1, <3>2, LinksGrow
  <2>3. Linked(x, within) \/ (x.table = "artefact" /\ a.kind = "evidence")
    BY <1>1, <1>4, <1>5 DEF SessionLinks, LinksInCall
  <2> QED BY <2>1, <2>2, <2>3
<1> HIDE DEF c, a
<1>7. d \in Calls(a)
  BY <1>1, <1>3, SessionFacts, InsertKeeps DEF c
<1>8. d.todo = Tail(c.todo) /\ d.savepoint = c.savepoint
  BY <1>3 DEF Calls
<1> HIDE DEF d
<1>9. SessionLinks(committed, own, d)
  <2>1. \A y \in own \ pending[s] : Linked(y, within)
    BY <1>6
  <2> QED BY <1>1, <1>3, <1>4, <1>7, <1>8, <2>1, AdvanceLinks
<1> HIDE DEF own
<1> QED BY <1>1, <1>2, <1>9, LinkLocal

LEMMA LinkConverge ==
    ASSUME StoreInv, LinkInv, NEW s \in Sessions, ConvergeRow(s)
    PROVE  LinkInv'
<1> DEFINE c == call[s]
           a == c.aggregate
           d == [c EXCEPT !.todo = Tail(@)]
<1>1. /\ c # Idle /\ c.todo # <<>> /\ Head(c.todo) \in View(s)
      /\ committed' = committed /\ pending' = pending
      /\ call' = [call EXCEPT ![s] = d]
  BY DEF ConvergeRow, Busy, Next1, Advance
<1>2. a \in Aggregates /\ c \in Calls(a) /\ View(s) = committed \cup pending[s]
  BY <1>1, SessionFacts
<1>3. SessionLinks(committed, pending[s], c)
  BY DEF LinkInv
<1> HIDE DEF c, a
<1>4. d \in Calls(a)
  BY <1>1, <1>2, SessionFacts, AdvanceKeeps DEF c
<1>5. d.todo = Tail(c.todo) /\ d.savepoint = c.savepoint
  BY <1>2 DEF Calls
<1> HIDE DEF d
<1>6. SessionLinks(committed, pending[s], d)
  BY <1>1, <1>2, <1>3, <1>4, <1>5, AdvanceLinks
<1> QED BY <1>1, <1>6, LinkCall

LEMMA LinkCompare ==
    ASSUME StoreInv, LinkInv, NEW s \in Sessions, CompareCollections(s)
    PROVE  LinkInv'
<1> DEFINE c == call[s]
           a == c.aggregate
           d == [c EXCEPT !.todo = Tail(@)]
           e == [c EXCEPT !.todo = <<>>]
<1>1. /\ c # Idle /\ c.todo # <<>> /\ Head(c.todo) = Compare
      /\ c.fresh \/ CollectionsMatch(s)
      /\ committed' = committed /\ pending' = pending
  BY DEF CompareCollections, Busy, Next1
<1>2. \/ ~c.fresh /\ a.kind = "manifest" /\ call' = [call EXCEPT ![s] = e]
      \/ call' = [call EXCEPT ![s] = d]
  BY DEF CompareCollections, Advance
<1>3. a \in Aggregates /\ c \in Calls(a)
  BY <1>1, SessionFacts
<1>4. SessionLinks(committed, pending[s], c) /\ InCall(committed, pending[s], c)
  BY <1>1, SessionFacts DEF LinkInv, SessionInv
<1>5. CollectionsMatch(s) => ChildrenOf(a) \subseteq committed \cup pending[s]
  BY SessionFacts DEF CollectionsMatch, ChildrenIn
<1> HIDE DEF c, a
<1>6. d \in Calls(a)
  BY <1>1, <1>3, <1>5, SessionFacts, AdvanceKeeps DEF c
<1>7. /\ d.todo = Tail(c.todo) /\ d.savepoint = c.savepoint
      /\ e.todo = <<>> /\ e.savepoint = c.savepoint
  BY <1>3 DEF Calls
<1>8. CASE call' = [call EXCEPT ![s] = d]
  <2> HIDE DEF d
  <2>1. SessionLinks(committed, pending[s], d)
    BY <1>1, <1>3, <1>4, <1>6, <1>7, AdvanceLinks
  <2> QED BY <1>1, <1>8, <2>1, LinkCall
<1>9. CASE ~c.fresh /\ a.kind = "manifest" /\ call' = [call EXCEPT ![s] = e]
  <2>1. pending[s] = c.savepoint
    <3>1. c.aggregate = a
      BY <1>3, BusyCall
    <3>2. \A x \in pending[s] \ c.savepoint : x \in RowsOf(a) /\ (IsMain(x) \/ IsChild(x) => c.fresh)
      BY <1>4, <3>1 DEF InCall
    <3>3. pending[s] \ c.savepoint = {}
      BY <1>3, <1>9, <3>2, ManifestRows
    <3> QED BY <1>4, <3>3 DEF InCall
  <2>2. c # Idle
    BY <1>1
  <2>3. LinkedIn(pending[s], committed \cup pending[s])
    BY <1>4, <2>1, <2>2 DEF SessionLinks, Saved
  <2>4. TodoRows(e) = {}
    BY <1>7 DEF TodoRows, ToSet
  <2> HIDE DEF e
  <2>5. LinksInCall(committed, pending[s], e)
    BY <2>3, <2>4 DEF LinksInCall
  <2>6. Saved(pending[s], e) = pending[s]
    BY <1>7, <2>1 DEF Saved
  <2>7. SessionLinks(committed, pending[s], e)
    BY <2>3, <2>5, <2>6 DEF SessionLinks
  <2> QED BY <1>1, <1>9, <2>7, LinkCall
<1> QED BY <1>2, <1>8, <1>9

LEMMA LinkRefusal ==
    ASSUME StoreInv, LinkInv, NEW s \in Sessions, Busy(s), RollBackToSavepoint(s),
           committed' = committed
    PROVE  LinkInv'
<1>1. /\ call[s] # Idle /\ pending' = [pending EXCEPT ![s] = call[s].savepoint]
      /\ call' = [call EXCEPT ![s] = Idle]
  BY DEF RollBackToSavepoint, Busy
<1>2. LinkedIn(call[s].savepoint, committed \cup call[s].savepoint)
  BY <1>1 DEF LinkInv, SessionLinks, Saved
<1>3. SessionLinks(committed, call[s].savepoint, Idle)
  BY <1>2 DEF SessionLinks, Saved
<1> QED BY <1>1, <1>3, LinkLocal

LEMMA LinkFinish ==
    ASSUME StoreInv, LinkInv, NEW s \in Sessions, Finish(s)
    PROVE  LinkInv'
<1>1. /\ call[s] # Idle /\ call[s].todo = <<>> /\ pending' = pending
      /\ call' = [call EXCEPT ![s] = Idle] /\ committed' = committed
  BY DEF Finish, Busy
<1>2. TodoRows(call[s]) = {}
  BY <1>1 DEF TodoRows, ToSet
<1>3. LinkedIn(pending[s], committed \cup pending[s])
  BY <1>1, <1>2 DEF LinkInv, SessionLinks, LinksInCall
<1>4. SessionLinks(committed, pending[s], Idle)
  BY <1>3 DEF SessionLinks, Saved
<1> QED BY <1>1, <1>4, LinkCall

LEMMA LinkRollback ==
    ASSUME StoreInv, LinkInv, NEW s \in Sessions, Rollback(s)
    PROVE  LinkInv'
<1>1. /\ pending' = [pending EXCEPT ![s] = {}]
      /\ call' = [call EXCEPT ![s] = Idle] /\ committed' = committed
  BY DEF Rollback, EndTransaction
<1>2. SessionLinks(committed, {}, Idle)
  BY DEF SessionLinks, Saved, LinkedIn
<1> QED BY <1>1, <1>2, LinkLocal

\* What the others were linked to is still there after a commit.
LEMMA LinkCommit ==
    ASSUME StoreInv, LinkInv, NEW s \in Sessions, Commit(s)
    PROVE  LinkInv'
<1> DEFINE after == committed \cup pending[s]
<1>1. /\ call[s] = Idle /\ committed' = after
      /\ pending' = [pending EXCEPT ![s] = {}]
      /\ call' = [call EXCEPT ![s] = Idle]
  BY DEF Commit, EndTransaction, Busy
<1>2. \A t \in Sessions : /\ pending'[t] = IF t = s THEN {} ELSE pending[t]
                          /\ call'[t] = IF t = s THEN Idle ELSE call[t]
  BY <1>1 DEF StoreInv, TypeInv
<1>3. LinkedIn(committed, committed) /\ LinkedIn(pending[s], after)
  BY <1>1 DEF LinkInv, SessionLinks, Saved
<1>4. LinkedIn(after, after)
  BY <1>3, LinksGrow DEF LinkedIn
<1>5. SessionLinks(after, {}, Idle)
  BY DEF SessionLinks, Saved, LinkedIn
<1>6. ASSUME NEW t \in Sessions, t # s
      PROVE  SessionLinks(after, pending[t], call[t])
  <2> DEFINE own == pending[t]
             c == call[t]
             kept == Saved(own, c)
  <2>1. SessionLinks(committed, own, c)
    BY DEF LinkInv
  <2> HIDE DEF own, c
  <2>2. LinkedIn(kept, after \cup kept)
    <3>1. LinkedIn(kept, committed \cup kept)
      BY <2>1 DEF SessionLinks
    <3> HIDE DEF kept
    <3> QED BY <3>1, LinksGrow DEF LinkedIn
  <2>3. ASSUME c # Idle PROVE LinksInCall(after, own, c)
    <3> DEFINE within == committed \cup own \cup TodoRows(c)
               wider == after \cup own \cup TodoRows(c)
    <3>1. /\ LinkedIn(own, within)
          /\ \A x \in TodoRows(c) :
                Linked(x, within) \/ (x.table = "artefact" /\ c.aggregate.kind = "evidence")
      BY <2>1, <2>3 DEF SessionLinks, LinksInCall
    <3>2. within \subseteq wider
      OBVIOUS
    <3> HIDE DEF within, wider
    <3>3. \A x : Linked(x, within) => Linked(x, wider)
      BY <3>2, LinksGrow
    <3>4. LinkedIn(own, wider)
      BY <3>1, <3>3 DEF LinkedIn
    <3>5. \A x \in TodoRows(c) :
             Linked(x, wider) \/ (x.table = "artefact" /\ c.aggregate.kind = "evidence")
      BY <3>1, <3>3
    <3> QED BY <3>4, <3>5 DEF LinksInCall, wider
  <2>4. SessionLinks(after, own, c)
    BY <2>2, <2>3 DEF SessionLinks, kept
  <2> QED BY <2>4 DEF own, c
<1>7. \A t \in Sessions : SessionLinks(after, pending'[t], call'[t])
  <2> HIDE DEF after
  <2> QED BY <1>2, <1>5, <1>6
<1> QED BY <1>1, <1>4, <1>7 DEF LinkInv

LEMMA LinkInvStep == StoreInv /\ LinkInv /\ [Next]_vars => LinkInv'
<1> SUFFICES ASSUME StoreInv, LinkInv, [Next]_vars PROVE LinkInv'
  OBVIOUS
<1>1. ASSUME UNCHANGED storeVars PROVE LinkInv'
  BY <1>1 DEF storeVars, LinkInv
<1>2. CASE Admit
  BY <1>1, <1>2 DEF Admit
<1>3. ASSUME NEW s \in Sessions, SessionStep(s) PROVE LinkInv'
  <2>1. ASSUME NEW a \in Aggregates, Refuse(s, a) PROVE LinkInv'
    BY <1>1, <2>1 DEF Refuse, vars
  <2>2. ASSUME NEW a \in Aggregates, Begin(s, a) PROVE LinkInv'
    BY <2>2, LinkBegin
  <2>3. CASE InsertRow(s)
    BY <2>3, LinkInsert
  <2>4. CASE ConvergeRow(s)
    BY <2>4, LinkConverge
  <2>5. CASE CompareCollections(s)
    BY <2>5, LinkCompare
  <2>6. CASE ConflictRow(s) \/ RefuseNested(s) \/ ConflictCollections(s) \/ AbortDeadlock(s)
    <3>1. RollBackToSavepoint(s) /\ committed' = committed
      BY <2>6 DEF ConflictRow, RefuseNested, ConflictCollections, AbortDeadlock
    <3>2. Busy(s)
      BY <2>6, RefusedIsBusy
    <3> QED BY <3>1, <3>2, LinkRefusal
  <2>7. CASE Finish(s)
    BY <2>7, LinkFinish
  <2>8. CASE Commit(s)
    BY <2>8, LinkCommit
  <2>9. CASE Rollback(s)
    BY <2>9, LinkRollback
  <2> QED BY <1>3, <2>1, <2>2, <2>3, <2>4, <2>5, <2>6, <2>7, <2>8, <2>9 DEF SessionStep
<1>4. CASE UNCHANGED vars
  BY <1>1, <1>4 DEF vars
<1> QED BY <1>2, <1>3, <1>4 DEF Next

\* Rows that refer to each other agree on candidate, run and phase in every
\* committed state, although each call checks its references before its first
\* statement and other sessions commit in between.
THEOREM LinksAreConsistent == Spec => []LinkagesAreConsistent
<1>1. Init => LinkInv
  BY DEF Init, LinkInv, LinkedIn, SessionLinks, Saved
<1>2. LinkInv => LinkagesAreConsistent
  BY LinksSuffice DEF LinkInv
<1> QED BY <1>1, <1>2, StoreInvInit, StoreInvStep, LinkInvStep, PTL DEF Spec

=============================================================================
