------------------------------ MODULE MCServerAuth -----------------------------
(* The server of one browser: nothing tells its requests, its attempts or   *)
(* its contexts apart.                                                      *)
EXTENDS ServerAuth, TLC

Symmetry == Permutations(Requests) \cup Permutations(Contexts)
                \cup Permutations(Attempts)
=============================================================================
