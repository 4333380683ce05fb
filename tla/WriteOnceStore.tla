-------------------------- MODULE WriteOnceStore ---------------------------
(***************************************************************************)
(* What the evidence tables promise a reader ("INSERT / CONVERGE /         *)
(* CONFLICT values, not mutable projections", app/db/models/evidence.py):  *)
(* an identity, once published, keeps the content it was published with,   *)
(* all of it, and that content is one that somebody claimed.               *)
(***************************************************************************)
CONSTANT Claims   \* the [root, content] pairs anyone may publish

VARIABLE store    \* the published pairs

Key(entry) == <<entry.root.table, entry.root.key>>

Init == store = {}

\* One transaction publishes any number of whole claims under new identities
\* and revises none.
Publish ==
    LET before == store
        after == store'
    IN  /\ before \subseteq after
        /\ \A e \in after \ before :
              e \in Claims /\ \A f \in after : Key(e) = Key(f) => e = f

Spec == Init /\ [][Publish]_store

=============================================================================
