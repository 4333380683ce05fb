-------------------------- MODULE ContextAssembly --------------------------
(***************************************************************************)
(* Context assembly (app/retrieval/context.py, values of localisation.py): *)
(* assemble_context reads the ranked candidate files from a workspace that *)
(* other processes may be changing, opens bounded windows around the       *)
(* located symbols, normalises overlapping windows into disjoint segments  *)
(* and packs whole lines into a token budget.                              *)
(*                                                                         *)
(* A file is the byte sizes of its lines and the line that declares each   *)
(* symbol; its text is abstracted to a version.  Files are numbers, in the *)
(* order of their identities, and paths are the root and the files.        *)
(***************************************************************************)
EXTENDS Integers, Sequences, SequencesExt, FiniteSetsExt

CONSTANTS Index,         \* file -> [sizes, at, binary], as indexed
          WindowLines,   \* MAX_CONTEXT_WINDOW_LINES
          LinesBefore,   \* _SYMBOL_WINDOW_LINES_BEFORE
          MaxSymbols,    \* _MAX_LOCATION_SYMBOLS, _MAX_PROPOSALS_PER_CANDIDATE
          MaxItems,      \* MAX_CONTEXT_ITEMS
          MaxItemBytes,  \* MAX_CONTEXT_BYTES
          MaxTokens,     \* MAX_TOKEN_BUDGET
          MaxChanges     \* bound: changes other processes make to the workspace

ASSUME WindowAssumption == LinesBefore \in Nat /\ WindowLines \in Nat /\ LinesBefore < WindowLines

\* The index is finite, its files are numbered, no line is empty (it has at
\* least its end), and a declaration is at a line of its file.
ASSUME IndexAssumption ==
    /\ IsFiniteSet(DOMAIN Index) /\ DOMAIN Index = 1 .. Cardinality(DOMAIN Index)
    /\ \A file \in DOMAIN Index :
          /\ Index[file].sizes \in Seq(Nat \ {0})
          /\ \A symbol \in DOMAIN Index[file].at :
                Index[file].at[symbol] \in DOMAIN Index[file].sizes

ASSUME LimitAssumption == MaxItems \in Nat /\ MaxItemBytes \in Nat /\ MaxTokens \in Nat

VARIABLES disk,      \* path -> object it names (0: nothing)
          objects,   \* every object that ever was in the workspace
          order,     \* the assembly being run, or NoOrder
          reading,   \* where it is: the path, and the object inspected
          bundle,    \* its result
          changes    \* changes made to the workspace so far

workspaceVars == <<disk, objects, changes>>
assemblyVars == <<order, reading, bundle>>

-----------------------------------------------------------------------------
(* The request.  A candidate is [file, rank, score, symbols, revision].    *)

\* _require_rag003_rank_semantics
RankSemantics(candidates) ==
    /\ \A i \in DOMAIN candidates : candidates[i].rank = i
    /\ \A i \in 2 .. Len(candidates) :
          \/ candidates[i].score < candidates[i - 1].score
          \/ /\ candidates[i].score = candidates[i - 1].score
             /\ candidates[i].file > candidates[i - 1].file

\* The constructor of the request, and the checks before the first read: one
\* repository revision, known files, identities that follow from the files.
RequestAccepted(request) ==
    /\ request.budget \in 1 .. MaxTokens
    /\ \A i, j \in DOMAIN request.candidates :
          request.candidates[i].file = request.candidates[j].file => i = j
    /\ RankSemantics(request.candidates)
    /\ request.workspace = request.indexed
    /\ \A c \in ToSet(request.candidates) :
          /\ c.revision = request.indexed
          /\ c.file \in DOMAIN Index
          /\ c.identified

-----------------------------------------------------------------------------
(* Windows.  A span is a range of lines with the symbol lines it is about. *)

NoTarget == 0

Span(start, end, target, extra) ==
    [start |-> start, end |-> end, target |-> target, extra |-> extra]

LinesOf(span) == span.start .. span.end

Targets(span) == ({span.target} \cup span.extra) \ {NoTarget}

\* _locate_symbol
LineOf(file, symbol) ==
    IF symbol \in DOMAIN Index[file].at THEN Index[file].at[symbol] ELSE NoTarget

\* _structural_symbols: the symbols looked for are bounded, found or not.
Located(candidate) ==
    LET symbols == SubSeq(candidate.symbols, 1, Min({MaxSymbols, Len(candidate.symbols)}))
    IN  {LineOf(candidate.file, s) : s \in ToSet(symbols)} \ {NoTarget}

WindowAt(count, line) ==
    LET start == Max({1, line - LinesBefore})
    IN  Span(start, Min({count, start + WindowLines - 1}), line, {})

\* The lines in their order.
Sorted(lines) ==
    [k \in 1 .. Cardinality(lines) |->
        CHOOSE l \in lines : Cardinality({m \in lines : m < l}) = k - 1]

\* _select_windows: by line, hence in the order of _merge_proposals.
SelectWindows(candidate) ==
    LET count == Len(Index[candidate.file].sizes)
        lines == Sorted(Located(candidate))
    IN  CASE count = 0   -> <<>>
          [] lines # <<>> -> [i \in DOMAIN lines |-> WindowAt(count, lines[i])]
          [] OTHER       -> <<Span(1, Min({count, WindowLines}), NoTarget, {})>>

\* The last line of the covered lines that start at `start`.
CoveredEnd(segments, start) ==
    LET covered == UNION {LinesOf(segments[i]) : i \in DOMAIN segments}
    IN  Min({l \in start .. Max(covered \cup {start}) + 1 : l \notin covered}) - 1

\* The carrier is cut before the window of the new target, but never before a
\* target it already carries.
SplitPoint(carrier, target) ==
    LET split == Max({carrier.start + 1, target - LinesBefore})
    IN  IF carrier.target >= split THEN Min({carrier.target + 1, target}) ELSE split

SplitCarrier(segments, i, proposal, covered) ==
    LET carrier == segments[i]
        split == SplitPoint(carrier, proposal.target)
        left == IF carrier.target < split THEN carrier.target ELSE NoTarget
        right == {a \in {carrier.target} \cup carrier.extra : a >= split}
    IN  SubSeq(segments, 1, i - 1)
        \o <<Span(carrier.start, split - 1, left, {a \in carrier.extra : a < split}),
             Span(split, IF covered < proposal.end THEN proposal.end ELSE carrier.end,
                  proposal.target, right \cup {proposal.target})>>
        \o SubSeq(segments, i + 1, Len(segments))

\* Fault: a target inside covered lines never cuts its carrier.
FaultyMergeProposal(segments, proposal) ==
    LET covered == CoveredEnd(segments, proposal.start)
    IN  IF covered >= proposal.end THEN segments
        ELSE Append(segments, Span(covered + 1, proposal.end, proposal.target, {}))

\* A target inside lines that are already covered cuts its carrier, or joins
\* it as a further target; otherwise the lines not yet covered are added.
MergeProposal(segments, proposal) ==
    LET covered == CoveredEnd(segments, proposal.start)
        target == proposal.target
        inside == target # NoTarget /\ target <= covered
        i == Min({j \in DOMAIN segments : target \in LinesOf(segments[j])})
        cuts == /\ inside
                /\ target > segments[i].start /\ target # segments[i].target
                /\ covered < proposal.end \/ proposal.end < segments[i].end
    IN  CASE cuts -> SplitCarrier(segments, i, proposal, covered)
          [] ~cuts /\ covered >= proposal.end ->
                IF inside /\ target # segments[i].target
                THEN [segments EXCEPT ![i].extra = @ \cup {target}]
                ELSE segments
          [] OTHER -> Append(segments, Span(covered + 1, proposal.end,
                                            IF inside THEN NoTarget ELSE target, {}))

MergeProposals(proposals) == FoldLeft(MergeProposal, <<>>, proposals)

-----------------------------------------------------------------------------
(* Packing whole lines into the budget.                                    *)

Total(counts) == FoldLeft(+, 0, counts)

Bytes(sizes, first, last) == Total(SubSeq(sizes, first, last))

Lines(first, last) == [start |-> first, end |-> last]

LongestPrefix(sizes, span, capacity) ==
    Lines(span.start,
          Max({last \in span.start - 1 .. span.end :
                  Bytes(sizes, span.start, last) <= capacity}))

\* One round: a line more below if it fits, then one more above.
Widen(sizes, span, capacity, lines) ==
    LET end == IF lines.end < span.end /\ Bytes(sizes, lines.start, lines.end + 1) <= capacity
               THEN lines.end + 1 ELSE lines.end
        start == IF lines.start > span.start /\ Bytes(sizes, lines.start - 1, end) <= capacity
                 THEN lines.start - 1 ELSE lines.start
    IN  Lines(start, end)

\* As many rounds as the span has lines to add.
Widened(sizes, span, capacity, lines) ==
    FoldLeft(LAMBDA widened, round : Widen(sizes, span, capacity, widened),
             lines, [i \in 1 .. span.end - span.start |-> i])

\* All the targets if they fit together, or the first one alone, and then as
\* many lines around them as fit.
AroundTargets(sizes, span, capacity) ==
    LET targets == Targets(span) \cap LinesOf(span)
        all == Lines(Min(targets), Max(targets))
        base == IF Bytes(sizes, all.start, all.end) <= capacity
                THEN all ELSE Lines(span.target, span.target)
    IN  IF Bytes(sizes, base.start, base.end) > capacity
        THEN Lines(span.start, span.start - 1)
        ELSE Widened(sizes, span, capacity, base)

\* Fault: a span that does not fit is cut from its first line, whatever it is about.
FaultyFitSpan(sizes, span, capacity) == LongestPrefix(sizes, span, capacity)

\* _fit_span: no lines when not even the smallest part fits.
FitSpan(sizes, span, capacity) ==
    CASE Bytes(sizes, span.start, span.end) <= capacity -> Lines(span.start, span.end)
      [] Bytes(sizes, span.start, span.end) > capacity /\ span.target = NoTarget ->
            LongestPrefix(sizes, span, capacity)
      [] OTHER -> AroundTargets(sizes, span, capacity)

Usable(candidate) == ~Index[candidate.file].binary

SpansOf(candidate) == MergeProposals(SelectWindows(candidate))

\* The spans of every readable candidate, in rank order.
Spans(request) ==
    FlattenSeq([i \in DOMAIN request.candidates |->
        LET c == request.candidates[i]
        IN  IF Usable(c)
            THEN [j \in DOMAIN SpansOf(c) |-> [file |-> c.file, span |-> SpansOf(c)[j]]]
            ELSE <<>>])

PackSpan(packed, proposed) ==
    LET sizes == Index[proposed.file].sizes
        lines == FitSpan(sizes, proposed.span, Min({packed.remaining, MaxItemBytes}))
        tokens == Bytes(sizes, lines.start, lines.end)
    IN  IF Len(packed.items) >= MaxItems \/ tokens = 0 THEN packed
        ELSE [items |-> Append(packed.items, [file |-> proposed.file, start |-> lines.start,
                                              end |-> lines.end, tokens |-> tokens]),
              remaining |-> packed.remaining - tokens]

Pack(request) ==
    FoldLeft(PackSpan, [items |-> <<>>, remaining |-> request.budget], Spans(request))

-----------------------------------------------------------------------------
(* assemble_context, and the processes that change the workspace under it. *)

Root == 0
Paths == {Root} \cup DOMAIN Index
Versions == {"indexed", "other"}

NoOrder == [candidates |-> <<>>]
NoBundle == [kind |-> "none"]
NotReading == [at |-> 0, seen |-> 0, opened |-> FALSE, texts |-> <<>>]

Failed == [kind |-> "error"]

\* The workspace as it was prepared and indexed: object p + 1 is at path p.
WorkspaceInit ==
    /\ disk = [p \in Paths |-> p + 1]
    /\ objects = [i \in 1 .. Cardinality(Paths) |-> [version |-> "indexed", symlink |-> FALSE]]
    /\ changes = 0
    /\ order = NoOrder /\ reading = NotReading /\ bundle = NoBundle

Assembling == order # NoOrder /\ bundle = NoBundle

StillReading == Assembling /\ reading.at <= Len(order.candidates)

\* The workspace root comes first, then the file of each candidate.
CurrentPath == IF reading.at = 0 THEN Root ELSE order.candidates[reading.at].file

StartAssembly(request) ==
    /\ order = NoOrder
    /\ order' = request
    /\ reading' = NotReading
    /\ bundle' = IF RequestAccepted(request) THEN NoBundle ELSE Failed
    /\ UNCHANGED workspaceVars

\* lstat
Inspect ==
    /\ StillReading /\ reading.seen = 0
    /\ disk[CurrentPath] # 0
    /\ reading' = [reading EXCEPT !.seen = disk[CurrentPath]]
    /\ UNCHANGED <<order, bundle, workspaceVars>>

\* O_NOFOLLOW and _verify_same_object
Openable ==
    /\ disk[CurrentPath] = reading.seen
    /\ ~objects[reading.seen].symlink

Open ==
    /\ StillReading /\ reading.seen # 0 /\ ~reading.opened
    /\ Openable
    /\ reading' = IF CurrentPath = Root
                  THEN [reading EXCEPT !.at = 1, !.seen = 0]
                  ELSE [reading EXCEPT !.opened = TRUE]
    /\ UNCHANGED <<order, bundle, workspaceVars>>

\* The digest of what was read.
Verified == objects[reading.seen].version = "indexed"

\* The descriptor still names the object when its path no longer does.
Read ==
    /\ StillReading /\ reading.opened
    /\ Verified
    /\ reading' = [at |-> reading.at + 1, seen |-> 0, opened |-> FALSE,
                   texts |-> Append(reading.texts, objects[reading.seen].version)]
    /\ UNCHANGED <<order, bundle, workspaceVars>>

\* FILESYSTEM_FAILURE or SOURCE_CHANGED
FailReading ==
    /\ StillReading
    /\ \/ reading.seen = 0 /\ disk[CurrentPath] = 0
       \/ reading.seen # 0 /\ ~reading.opened /\ ~Openable
       \/ reading.opened /\ ~Verified
    /\ bundle' = Failed
    /\ UNCHANGED <<order, reading, workspaceVars>>

FinishAssembly ==
    /\ Assembling /\ ~StillReading
    /\ bundle' = [kind |-> "bundle", revision |-> order.indexed, budget |-> order.budget,
                  items |-> Pack(order).items, texts |-> reading.texts]
    /\ UNCHANGED <<order, reading, workspaceVars>>

\* Another process puts something else in the place of a file or of the root,
\* possibly the same bytes, or a link.
Replace(path, version, symlink) ==
    /\ disk' = [disk EXCEPT ![path] = Len(objects) + 1]
    /\ objects' = Append(objects, [version |-> version, symlink |-> symlink])

Delete(path) ==
    /\ disk[path] # 0
    /\ disk' = [disk EXCEPT ![path] = 0]
    /\ UNCHANGED objects

Overwrite(path) ==
    /\ path # Root /\ disk[path] # 0
    /\ objects' = [objects EXCEPT ![disk[path]].version = "other"]
    /\ UNCHANGED disk

\* Only what happens before the last read can matter.
Disturb ==
    /\ order = NoOrder \/ StillReading
    /\ changes < MaxChanges
    /\ changes' = changes + 1
    /\ \E path \in Paths :
          \/ \E version \in Versions, symlink \in BOOLEAN : Replace(path, version, symlink)
          \/ Delete(path)
          \/ Overwrite(path)
    /\ UNCHANGED assemblyVars

AssemblyNext ==
    \/ Inspect
    \/ Open
    \/ Read
    \/ FailReading
    \/ FinishAssembly
    \/ Disturb

-----------------------------------------------------------------------------
Assembled == bundle.kind = "bundle"

OrderedFiles == {c \in ToSet(order.candidates) : Usable(c)}

Covered(spans) == UNION {LinesOf(spans[i]) : i \in DOMAIN spans}

\* Overlapping windows become segments that repeat no line, lose no line, are
\* no longer than a window, and carry every located declaration in the one
\* segment that holds its line, whatever the order in which windows overlap,
\* nest or coincide (_merge_proposals cuts segments while it extends them).
WindowsPartitionTheFile ==
    Assembled =>
        \A c \in OrderedFiles :
            LET spans == SpansOf(c)
            IN  /\ \A i \in DOMAIN spans :
                      /\ Cardinality(LinesOf(spans[i])) \in 1 .. WindowLines
                      /\ Targets(spans[i]) = Located(c) \cap LinesOf(spans[i])
                      /\ spans[i].target = NoTarget => Targets(spans[i]) = {}
                      /\ \A j \in 1 .. i - 1 : LinesOf(spans[j]) \cap LinesOf(spans[i]) = {}
                /\ Covered(spans) = Covered(SelectWindows(c))
                /\ Located(c) \subseteq Covered(spans)

\* Ranges of lines of the span that hold these targets and fit.
Fitting(sizes, span, targets, capacity) ==
    {range \in [start : LinesOf(span), end : LinesOf(span)] :
        /\ targets \subseteq range.start .. range.end /\ range.start <= range.end
        /\ Bytes(sizes, range.start, range.end) <= capacity}

\* What may be left of a span: ranges about all its targets, about the first one
\* if there are no such ranges, or from its first line if it is about none.
Allowed(sizes, span, capacity) ==
    LET together == Fitting(sizes, span, Targets(span), capacity)
    IN  CASE span.target = NoTarget -> {range \in together : range.start = span.start}
          [] span.target # NoTarget /\ together # {} -> together
          [] OTHER -> Fitting(sizes, span, {span.target}, capacity)

\* One of the allowed ranges, which no line can join, or no line at all.
Longest(lines, allowed) ==
    IF allowed = {} THEN lines.end < lines.start
    ELSE /\ lines \in allowed
         /\ \A range \in allowed :
               range.start <= lines.start /\ lines.end <= range.end => range = lines

\* What a budget leaves of a span is about the same declarations: all of them
\* if they fit together, else the one the window was opened for, else nothing;
\* a span about none keeps a prefix.  No line more would fit.  The bundle stays
\* within the budget, the item count and the size of an item, and never quotes
\* a line twice.
PackingKeepsTargets ==
    Assembled =>
        /\ Total([i \in DOMAIN bundle.items |-> bundle.items[i].tokens]) <= order.budget
        /\ Len(bundle.items) <= MaxItems
        /\ \A i, j \in DOMAIN bundle.items :
              LET a == bundle.items[i]
                  b == bundle.items[j]
              IN  /\ a.tokens <= MaxItemBytes
                  /\ a.file = b.file /\ i # j => a.end < b.start \/ b.end < a.start
        /\ \A proposed \in ToSet(Spans(order)), capacity \in 0 .. order.budget :
              LET sizes == Index[proposed.file].sizes
              IN  Longest(FitSpan(sizes, proposed.span, capacity),
                          Allowed(sizes, proposed.span, capacity))

=============================================================================
