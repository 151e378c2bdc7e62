-------------------------------- MODULE Fusion --------------------------------
(***************************************************************************)
(* The hits of the three lanes become one order of anchors, the anchors    *)
(* become chunks, the neighbours of the graph are added and the files the  *)
(* question names move to the front.  A chunk is a name with a file, a     *)
(* symbol (NoSymbol for none), a kind, an ordinal and a size.              *)
(***************************************************************************)
EXTENDS Integers, Sequences, FiniteSets, SequencesExt

CONSTANTS Chunks, NoSymbol, File, SymbolOf, KindOf, Ordinal, Size,   \* the chunks of the generation
          NameLanes, TextLanes,   \* what a lane may return: sequences of [anchor, chunk]
          NoChunk, Nears, PathSets,
          LaneLimit, Unit,        \* of a score: all the ranks of a lane divide it
          IdOrder                 \* every anchor, in the order of the ids

VARIABLES stage, name, text, vector, fused, spans, near, paths
vars == <<stage, name, text, vector, fused, spans, near, paths>>

Anchor(c) == IF SymbolOf[c] # NoSymbol THEN SymbolOf[c] ELSE File[c]
Place(x) == CHOOSE i \in DOMAIN IdOrder : IdOrder[i] = x
Lanes == <<name, text, vector>>
LaneHits == name \o text \o vector

Init == /\ name \in NameLanes /\ text \in TextLanes /\ vector \in TextLanes
        /\ near \in Nears /\ paths \in PathSets
        /\ stage = "lanes" /\ fused = <<>> /\ spans = <<>>

-----------------------------------------------------------------------------
\* The elements of S from the first to the last in the order R, and those of s at the places in I.
Ranked(S, R) == [i \in 1..Cardinality(S) |-> CHOOSE x \in S : Cardinality({y \in S : <<y, x>> \in R}) = i - 1]
Picked(s, I) == LET up == Ranked(I, {p \in I \X I : p[1] < p[2]}) IN [k \in 1..Cardinality(I) |-> s[up[k]]]
First(I) == CHOOSE i \in I : \A j \in I : i <= j

\* consecutive_ranks: the best hit of an anchor, the anchors numbered from 1.
AnchorsOf(lane) == {lane[i].anchor : i \in DOMAIN lane}
BestHit(lane, a) == First({i \in DOMAIN lane : lane[i].anchor = a})
RankIn(lane, a) == 1 + Cardinality({b \in AnchorsOf(lane) : BestHit(lane, b) < BestHit(lane, a)})

\* fuse_anchors: the sum of 1 / (60 + rank), in units of 1 / Unit.
Share(r) == Unit \div (60 + r)
In(l, a) == IF a \in AnchorsOf(Lanes[l]) THEN Share(RankIn(Lanes[l], a)) ELSE 0
Score(a) == In(1, a) + In(2, a) + In(3, a)
Ahead(a, b) == Score(a) > Score(b) \/ (Score(a) = Score(b) /\ Place(a) < Place(b))
Fusable == AnchorsOf(name) \cup AnchorsOf(text) \cup AnchorsOf(vector)
Fuse == /\ stage = "lanes"
        /\ fused' = Ranked(Fusable, {p \in Fusable \X Fusable : Ahead(p[1], p[2])})
        /\ stage' = "fused" /\ UNCHANGED <<name, text, vector, spans, near, paths>>

\* representative_chunk_choices: the largest body; all the parts in order; the largest of the rest.
OfKind(S, kinds) == {c \in S : KindOf[c] \in kinds}
Larger(c, d) == Size[c] > Size[d] \/ (Size[c] = Size[d] /\ Ordinal[c] > Ordinal[d])
Largest(S) == CHOOSE c \in S : \A d \in S \ {c} : Larger(c, d)
LargestPart(S) == <<Largest(S)>>   \* mutant: one part for the whole symbol
AllParts(S) == Ranked(S, {p \in S \X S : Ordinal[p[1]] < Ordinal[p[2]]})
Representatives(S) ==
  CASE S = {} -> <<>>
    [] OfKind(S, {"symbol_body"}) # {} -> <<Largest(OfKind(S, {"symbol_body"}))>>
    [] OfKind(S, {"symbol_body"}) = {} /\ OfKind(S, {"symbol_part"}) # {} -> AllParts(OfKind(S, {"symbol_part"}))
    [] OTHER -> LET pool == S \ OfKind(S, {"import_block", "file_overview"})
                IN <<Largest(IF pool # {} THEN pool ELSE S)>>

\* chunk_ids_for_anchor and _choices_for: what the lanes hit, and every chunk of a fused symbol.
HitChunks(a) ==
  LET mine == Picked(LaneHits, {i \in DOMAIN LaneHits : LaneHits[i].anchor = a /\ LaneHits[i].chunk # NoChunk})
  IN [k \in DOMAIN mine |-> mine[k].chunk]
WasHit(c) == \E i \in DOMAIN LaneHits : LaneHits[i].chunk = c
Loaded == {c \in Chunks : SymbolOf[c] \in ToSet(fused) \/ WasHit(c)}
OfAnchor(a) == {c \in Loaded : Anchor(c) = a}
Group(a) == IF HitChunks(a) # <<>> THEN HitChunks(a) ELSE Representatives(OfAnchor(a))

\* Each chunk once, where the groups, one after the other, have it first.
FirstGroup(groups, c) == First({k \in DOMAIN groups : c \in ToSet(groups[k])})
FirstPlace(group, c) == First({m \in DOMAIN group : group[m] = c})
SeenBefore(groups, c, d) ==
  LET k == FirstGroup(groups, c)
  IN k < FirstGroup(groups, d) \/ (k = FirstGroup(groups, d) /\ FirstPlace(groups[k], c) < FirstPlace(groups[k], d))
Unseen(groups) ==
  LET seen == UNION {ToSet(groups[k]) : k \in DOMAIN groups}
  IN Ranked(seen, {p \in seen \X seen : SeenBefore(groups, p[1], p[2])})
Materialize == /\ stage = "fused"
               /\ spans' = Unseen([k \in DOMAIN fused |-> Group(fused[k])])
               /\ stage' = "spans" /\ UNCHANGED <<name, text, vector, fused, near, paths>>

\* The symbols the graph knows next to the anchors, that no lane found: the body or the first part of each.
Neighbor(s) == Representatives({c \in Chunks : SymbolOf[c] = s})[1]
PutLast(c) == Append(spans, c)
Absent(s) == s \notin ToSet(fused) /\ Neighbor(s) \notin ToSet(spans)
AddNear ==
  /\ stage = "spans" /\ near # <<>>
  /\ spans' = IF Absent(Head(near)) THEN PutLast(Neighbor(Head(near))) ELSE spans
  /\ near' = Tail(near) /\ UNCHANGED <<stage, name, text, vector, fused, paths>>

InPaths == {i \in DOMAIN spans : spans[i] \in paths}
ToFront == /\ stage = "spans" /\ near = <<>>
           /\ spans' = Picked(spans, InPaths) \o Picked(spans, DOMAIN spans \ InPaths)
           /\ stage' = "done" /\ UNCHANGED <<name, text, vector, fused, near, paths>>

Next == Fuse \/ Materialize \/ AddNear \/ ToFront
Spec == Init /\ [][Next]_vars

-----------------------------------------------------------------------------
\* representative_chunk: a file is hit by its path as the largest body in it, or the first part, or the
\* largest of the rest; of equals it may be any.
Largests(S) == {c \in S : \A d \in S : ~Larger(d, c)}
FileChunks(f) ==
  LET all == {c \in Chunks : File[c] = f}
      parts == OfKind(all, {"symbol_part"})
      pool == all \ OfKind(all, {"import_block", "file_overview"})
  IN CASE OfKind(all, {"symbol_body"}) # {} -> Largests(OfKind(all, {"symbol_body"}))
       [] OfKind(all, {"symbol_body"}) = {} /\ parts # {} -> {c \in parts : \A d \in parts : Ordinal[c] <= Ordinal[d]}
       [] OTHER -> Largests(IF pool # {} THEN pool ELSE all)

\* A symbol is hit by its name, without a chunk; a file by its path; a chunk by its text or its vector.
Hits ==
  {h \in [anchor : ToSet(IdOrder), chunk : Chunks \cup {NoChunk}] :
     IF h.chunk = NoChunk THEN \A c \in Chunks : File[c] # h.anchor
     ELSE h.anchor = Anchor(h.chunk) \/ (h.anchor = File[h.chunk] /\ h.chunk \in FileChunks(h.anchor))}

\* The parts of a symbol are numbered, and all of it is of one file.
FusionAssumption ==
  /\ IsFiniteSet(Chunks) /\ NoChunk \notin Chunks /\ LaneLimit \in Nat /\ Unit \in Nat \ {0}
  /\ \A r \in 1..LaneLimit : Share(r) * (60 + r) = Unit
  /\ \A c \in Chunks : /\ {Ordinal[c], Size[c]} \subseteq Nat /\ \A d \in Chunks : SymbolOf[c] # File[d]
                       /\ SymbolOf[c] # NoSymbol => KindOf[c] \in {"symbol_body", "symbol_part"}
  /\ \A c, d \in Chunks : SymbolOf[c] = SymbolOf[d] /\ SymbolOf[c] # NoSymbol /\ c # d =>
                            File[c] = File[d] /\ Ordinal[c] # Ordinal[d]
  /\ IdOrder \in Seq(ToSet(IdOrder)) /\ NoSymbol \notin ToSet(IdOrder)
  /\ \A s \in NameLanes \cup TextLanes : s \in Seq(Hits) /\ Len(s) <= LaneLimit
  /\ \A s \in Nears : s \in Seq({SymbolOf[c] : c \in Chunks} \ {NoSymbol})

-----------------------------------------------------------------------------
\* No chunk is chosen twice, and none that a lane hit is lost.
TypeOK ==
  /\ stage \in {"lanes", "fused", "spans", "done"} /\ Cardinality(ToSet(spans)) = Len(spans)
  /\ stage \in {"spans", "done"} => \A i \in DOMAIN LaneHits : LaneHits[i].chunk \in ToSet(spans) \cup {NoChunk}

\* An anchor that no lane ranks behind another, and some lane ranks before it, comes first.
NotBehind(a, b, l) == b \in AnchorsOf(l) => a \in AnchorsOf(l) /\ BestHit(l, a) < BestHit(l, b)
Dominates(a, b) == /\ \A l \in ToSet(Lanes) : NotBehind(a, b, l)
                   /\ \E l \in ToSet(Lanes) : a \in AnchorsOf(l)
Agreed == stage # "lanes" =>
  \A i, j \in DOMAIN fused : Dominates(fused[i], fused[j]) /\ i # j => i < j

\* A symbol known by its name alone contributes all of itself, its body, or every part in source order,
\* also when a part of it was hit as the chunk of its file.
WholeSymbol ==
  stage = "spans" =>
    \A a \in ToSet(fused) : LET mine(c) == SymbolOf[c] = a
                                all == {c \in Chunks : SymbolOf[c] = a}
                            IN HitChunks(a) = <<>> /\ all # {} =>
      \/ \E c \in ToSet(spans) : mine(c) /\ KindOf[c] = "symbol_body"
      \/ /\ {c \in ToSet(spans) : mine(c)} = all
         /\ \A i, j \in DOMAIN spans : i < j /\ mine(spans[i]) /\ mine(spans[j]) =>
              Ordinal[spans[i]] < Ordinal[spans[j]]

\* What a lane found comes before what only the graph knows, unless the question names its file.
OnlyNear(c) == Anchor(c) \notin ToSet(fused) /\ ~WasHit(c)
FoundFirst ==
  stage = "done" => \A i, j \in DOMAIN spans :
    OnlyNear(spans[i]) /\ spans[i] \notin paths /\ ~OnlyNear(spans[j]) => j < i
=============================================================================
