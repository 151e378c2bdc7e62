------------------------------ MODULE VectorLane ------------------------------
(***************************************************************************)
(* The vector lane of a question: it reads which chunks of its generation  *)
(* are ready, then pages through the nearest points of the repository and  *)
(* keeps those that are ready chunks of the generation, while other        *)
(* questions add points and a deletion may take all of them away.  A point *)
(* has the name of its chunk; the index is in the order of similarity.     *)
(***************************************************************************)
EXTENDS Naturals, Sequences, FiniteSets, SequencesExt

CONSTANTS Chunks, LaneLimit, RawLimit,
          Batch     \* VECTOR_BATCH

LaneAssumption ==
  IsFiniteSet(Chunks) /\ LaneLimit \in Nat /\ RawLimit \in Nat /\ Batch \in Nat \ {0}

VARIABLES stage, kind, index, links, first, offset, examined, page, size, seen, kept, dropped
vars == <<stage, kind, index, links, first, offset, examined, page, size, seen, kept, dropped>>

\* What a chunk is to the generation: ready, being embedded, or a chunk of another generation; a point
\* whose payload disagrees with the catalogue is "wrong".
Kinds == {"ready", "pending", "foreign", "wrong"}
Lowest(a, b) == IF a < b THEN a ELSE b

Init ==
  /\ kind \in [Chunks -> Kinds]
  /\ \E S \in SUBSET {c \in Chunks : kind[c] = "pending"} : index \in SetToSeqs(Chunks \ S)
  /\ stage = "start" /\ links = {} /\ first = <<>> /\ offset = 0 /\ examined = 0
  /\ page = <<>> /\ size = 0 /\ seen = {} /\ kept = <<>> /\ dropped = FALSE

-----------------------------------------------------------------------------
\* Others: a chunk that a question embeds gets its point, and is marked ready when that is stored.
Near(c, p) == SubSeq(index, 1, p) \o <<c>> \o SubSeq(index, p + 1, Len(index))
Upsert(c) == /\ kind[c] = "pending" /\ c \notin ToSet(index) /\ ~dropped
             /\ \E p \in 0..Len(index) : index' = Near(c, p)
             /\ UNCHANGED <<stage, kind, links, first, offset, examined, page, size, seen, kept, dropped>>
Mark(c) == /\ kind[c] = "pending" /\ c \in ToSet(index)
           /\ kind' = [kind EXCEPT ![c] = "ready"]
           /\ UNCHANGED <<stage, index, links, first, offset, examined, page, size, seen, kept, dropped>>
Drop == /\ ~dropped /\ dropped' = TRUE /\ index' = <<>>
        /\ UNCHANGED <<stage, kind, links, first, offset, examined, page, size, seen, kept>>

-----------------------------------------------------------------------------
\* Nothing ready, another embedding setup, or a model that does not answer: no hits.
Skip == /\ stage = "start" /\ stage' = "none"
        /\ UNCHANGED <<kind, index, links, first, offset, examined, page, size, seen, kept, dropped>>
Ready == {c \in Chunks : kind[c] \in {"ready", "wrong"}}
Links == /\ stage = "start" /\ Ready # {}
         /\ links' = Ready /\ first' = index /\ stage' = "page"
         /\ UNCHANGED <<kind, index, offset, examined, page, size, seen, kept, dropped>>

More == Len(kept) < LaneLimit /\ examined < RawLimit
Search ==
  /\ stage = "page" /\ More
  /\ page' = SubSeq(index, offset + 1, Lowest(Len(index), offset + Lowest(Batch, RawLimit - examined)))
  /\ size' = Len(page')
  /\ stage' = IF page' = <<>> THEN "done" ELSE "look"
  /\ UNCHANGED <<kind, index, links, first, offset, examined, seen, kept, dropped>>
Enough == /\ stage = "page" /\ ~More /\ stage' = "done"
          /\ UNCHANGED <<kind, index, links, first, offset, examined, page, size, seen, kept, dropped>>
Fails == /\ stage \in {"start", "page"} /\ stage' = "failed"
         /\ UNCHANGED <<kind, index, links, first, offset, examined, page, size, seen, kept, dropped>>

New(c) == c \notin seen
Matches(c) == c \in links /\ kind[c] # "wrong"
Look ==
  /\ stage = "look" /\ page # <<>> /\ More
  /\ page' = Tail(page) /\ examined' = examined + 1
  /\ seen' = seen \cup {Head(page)}
  /\ kept' = IF New(Head(page)) /\ Matches(Head(page)) THEN Append(kept, Head(page)) ELSE kept
  /\ UNCHANGED <<stage, kind, index, links, first, offset, size, dropped>>
OffByOne == offset + size + 1  \* mutant
Advanced == offset + size
Turn ==
  /\ stage = "look" /\ (page = <<>> \/ ~More)
  /\ offset' = Advanced
  /\ stage' = IF size < Batch THEN "done" ELSE "page"
  /\ UNCHANGED <<kind, index, links, first, examined, page, size, seen, kept, dropped>>

Next == \/ \E c \in Chunks : Upsert(c) \/ Mark(c)
        \/ Drop \/ Skip \/ Links \/ Search \/ Enough \/ Fails \/ Look \/ Turn
Spec == Init /\ [][Next]_vars

-----------------------------------------------------------------------------
TypeOK == /\ stage \in {"start", "none", "page", "look", "done", "failed"}
          /\ Len(kept) <= LaneLimit /\ examined <= RawLimit /\ offset <= examined + Batch
          /\ \A i, j \in DOMAIN kept : i # j => kept[i] # kept[j]

\* A hit is a chunk of this generation that was ready, with the vector of this very chunk: not one that
\* another question is still storing, nor a point of another generation of the repository.
OwnOnly == \A i \in DOMAIN kept : kind[kept[i]] = "ready" /\ kept[i] \in ToSet(first)

\* The hits are the nearest: what was nearer than a hit when the search began, and could be a hit, is an
\* earlier one, though points are added between two pages.
Could(c) == c \in links /\ kind[c] # "wrong"
Nearer(c, d) == \E i, j \in DOMAIN first : i < j /\ first[i] = c /\ first[j] = d
BestFirst ==
  ~dropped => \A i \in DOMAIN kept :
    Could(kept[i]) /\ \A c \in Chunks : Could(c) /\ Nearer(c, kept[i]) => \E j \in 1..i - 1 : kept[j] = c

\* A lane that ends below its limits has found all of them.
Complete == stage = "done" /\ ~dropped /\ More => \A c \in Chunks : Could(c) => c \in ToSet(kept)
=============================================================================
