----------------------------- MODULE MCIndexing -----------------------------
(***************************************************************************)
(* Indexing for TLC: who sends which request, and the symmetries.          *)
(***************************************************************************)
EXTENDS Indexing, TLC

CONSTANTS w1, w2, u1, u2

\* Two users, one request each at a time.
TwoUsers == (w1 :> u1) @@ (w2 :> u2)

\* One user in two browser tabs.
OneUser == (w1 :> u1) @@ (w2 :> u1)

\* Generations and commits are interchangeable, and so are the requests of one user.
Symmetry == Permutations(Gens) \cup Permutations(Commits) \cup Permutations(Workers)
=============================================================================
