----------------------------- MODULE MCRequests -----------------------------
(***************************************************************************)
(* Requests for TLC.                                                       *)
(***************************************************************************)
EXTENDS Requests, TLC

-----------------------------------------------------------------------------
(* Two questions that want the same two bodies, each in any order.         *)
CONSTANTS q1, q2, s1, s2
Two == {q1, q2}
Both == {s1, s2}
Alike == Permutations(Two) \cup Permutations(Both)
-----------------------------------------------------------------------------
(* Replies with every list of up to two claims, and a cut and a bad one.    *)
AllKinds == {"cites", "cites_both", "cites_other", "cites_nothing", "bad"}
ClaimLists ==
  {<<"absent">>, <<"cites", "cites_nothing", "cites_both">>, <<"bad", "bad", "cites">>}
    \cup UNION {[1..n -> AllKinds] : n \in 0..2}
AnyReply ==
  {[shape |-> "oversized"], [shape |-> "prose"]} \cup
  [shape : {"object"}, status : {"final", "need", "none"}, more : BOOLEAN, claims : ClaimLists]
-----------------------------------------------------------------------------
(* A function of two parts, a function inside its first part, an import    *)
(* block across the start of another function, a small and a large neighbour. *)
Chunk(id, file, from, to, symbol, body) ==
  [id |-> id, file |-> file, from |-> from, to |-> to, symbol |-> symbol, body |-> body]
Chunks ==
  {Chunk("f0", "a", 0, 6, "f", TRUE), Chunk("f1", "a", 6, 10, "f", TRUE), Chunk("in", "a", 2, 5, "in", TRUE),
   Chunk("imp", "b", 0, 2, "none", FALSE), Chunk("g", "b", 1, 6, "g", TRUE), Chunk("h", "c", 0, 3, "h", TRUE),
   Chunk("sig", "a", 0, 1, "f", FALSE)}
ChunkLists == UNION {[1..n -> Chunks] : n \in 0..3}
Neighbours == {<<>>, <<5, 2>>}
RequiredSymbols == {{}, {"f"}, {"f", "in"}, {"in", "g"}}
=============================================================================
