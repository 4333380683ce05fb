--------------------------- MODULE MCQueueAdapter ---------------------------
(* Instances of the Queue adapter for TLC.                                 *)
EXTENDS QueueRefinement, TLC

CONSTANTS m1, m2, r1, r2, p1, p2, a1

Env(m, r, p) == [message |-> m, request |-> r, publication |-> p, attempt |-> a1]

\* Results and their references only ever get compared.
Symmetry == Permutations(Result) \cup Permutations(Reference)

\* One message of one request.
OneEnvelope == {Env(m1, r1, p1)}

\* Two messages, of one request or of two, and producers that bind a message
\* or a publication identity a second time.
CompetingEnvelopes ==
    {Env(m1, r1, p1), Env(m2, r1, p2), Env(m1, r2, p1), Env(m2, r2, p1)}
=============================================================================
