---------------------------- MODULE SearchProofs ----------------------------
(***************************************************************************)
(* Proofs about how a question finds its evidence (MCSearch), for every    *)
(* index, graph, question and bound.                                       *)
(*                                                                         *)
(* The vector lane: what was read is the nearest of what the index had     *)
(* when the page was taken, and the index only grows meanwhile, so a later *)
(* page starts where the earlier one ended or a nearer chunk has come.     *)
(*                                                                         *)
(* The plan: a strategy follows from its facet, a facet from the coverage  *)
(* of a language, the coverage from the sites that were counted.           *)
(*                                                                         *)
(* The walk: what was visited after a hop is what that many hops reach,    *)
(* because everything beside the nodes before the frontier was visited;    *)
(* the edges shown are the best by their rank, and no two share a rank.    *)
(*                                                                         *)
(* The fusion: a better rank in a lane is a larger share of a score; every *)
(* chunk of a symbol hit by its name enters as one group in the order of   *)
(* the source, and the parts hit otherwise precede it only if they are the *)
(* first; what the graph adds comes last until the named files move.       *)
(***************************************************************************)
EXTENDS MCSearch, FiniteSetTheorems, WellFoundedInduction, TLAPS

-----------------------------------------------------------------------------
(* Lists without repetition.                                               *)
Listed(c, s) == \E i \in 1..Len(s) : s[i] = c
Plain(s) == \A i, j \in 1..Len(s) : i # j => s[i] # s[j]
Before(c, d, s) == \E i, j \in 1..Len(s) : i < j /\ s[i] = c /\ s[j] = d

\* The operators of the libraries, seen through the instance.
LEMMA SameCount == \A S : Nearest!Cardinality(S) = Cardinality(S)
  BY DEF Nearest!Cardinality, Cardinality
LEMMA SameFinite == \A S : Nearest!IsFiniteSet(S) <=> IsFiniteSet(S)
  BY DEF Nearest!IsFiniteSet, IsFiniteSet
LEMMA ToSetIs == \A s : Nearest!ToSet(s) = {s[i] : i \in DOMAIN s}
  BY DEF Nearest!ToSet

LEMMA InToSet ==
  ASSUME NEW S, NEW s \in Seq(S), NEW c
  PROVE  c \in Nearest!ToSet(s) <=> Listed(c, s)
<1>1. DOMAIN s = 1..Len(s)
  OBVIOUS
<1> QED
  BY <1>1, ToSetIs DEF Listed

\* SetToSeqs gives the lists that have every element once.
LEMMA ArrangedListsAll ==
  ASSUME NEW T, IsFiniteSet(T), NEW s \in Nearest!SetToSeqs(T)
  PROVE  s \in Seq(T) /\ Plain(s) /\ \A c \in T : Listed(c, s)
<1> DEFINE n == Cardinality(T)
           D == 1..n
<1>1. n \in Nat
  BY FS_CardinalityType
<1>2. s \in [D -> T] /\ \A i, j \in D : i # j => s[i] # s[j]
  BY SameCount DEF Nearest!SetToSeqs
<1>3. s \in Seq(T) /\ Len(s) = n
  BY <1>1, <1>2
<1>4. s \in Injection(D, T)
  BY <1>2 DEF Injection, IsInjective
<1>5. IsFiniteSet(D) /\ Cardinality(D) = n
  <2>1. 0 \in Int /\ 1 \in Int /\ n \in Int
    BY <1>1
  <2>2. IsFiniteSet(1..n) /\ Cardinality(1..n) = IF 1 > n THEN 0 ELSE n - 1 + 1
    BY <2>1, FS_Interval
  <2> QED
    BY <1>1, <2>2
<1>6. s \in Surjection(D, T)
  BY <1>4, <1>5, FS_Injection
<1>7. \A c \in T : \E i \in D : s[i] = c
  BY <1>6 DEF Surjection
<1> QED
  BY <1>2, <1>3, <1>7 DEF Plain, Listed

\* A list with one more element put in at p.
LEMMA Concatenated ==
  ASSUME NEW S, NEW a \in Seq(S), NEW b \in Seq(S)
  PROVE  /\ a \o b \in Seq(S) /\ Len(a \o b) = Len(a) + Len(b)
         /\ \A i \in 1..Len(a) : (a \o b)[i] = a[i]
         /\ \A i \in 1..Len(b) : (a \o b)[Len(a) + i] = b[i]
<1>1. a \o b \in Seq(S) /\ Len(a \o b) = Len(a) + Len(b)
  OBVIOUS
<1>2. \A i \in 1..Len(a) : (a \o b)[i] = a[i]
  OBVIOUS
<1>3. \A i \in 1..Len(b) : (a \o b)[Len(a) + i] = b[i]
  OBVIOUS
<1> QED
  BY <1>1, <1>2, <1>3

LEMMA OneBetween ==
  ASSUME NEW S, NEW a \in Seq(S), NEW b \in Seq(S), NEW c \in S
  PROVE  LET t == a \o <<c>> \o b IN
         /\ t \in Seq(S) /\ Len(t) = Len(a) + 1 + Len(b) /\ t[Len(a) + 1] = c
         /\ \A i \in 1..Len(a) : t[i] = a[i]
         /\ \A i \in 1..Len(b) : t[Len(a) + 1 + i] = b[i]
<1> DEFINE d == a \o <<c>>
<1>1. <<c>> \in Seq(S) /\ Len(<<c>>) = 1 /\ <<c>>[1] = c
  OBVIOUS
<1>2. /\ d \in Seq(S) /\ Len(d) = Len(a) + 1
      /\ \A i \in 1..Len(a) : d[i] = a[i]
      /\ \A i \in 1..1 : d[Len(a) + i] = <<c>>[i]
  BY <1>1, Concatenated
<1>3. Len(a) \in Nat /\ Len(b) \in Nat
  OBVIOUS
<1> HIDE DEF d
<1>0. d \in Seq(S)
  BY <1>2
<1> DEFINE t == d \o b
<1>4. /\ t \in Seq(S) /\ Len(t) = Len(d) + Len(b)
      /\ \A i \in 1..Len(d) : t[i] = d[i]
      /\ \A i \in 1..Len(b) : t[Len(d) + i] = b[i]
  BY ONLY <1>0, b \in Seq(S), Concatenated
<1> HIDE DEF t
<1>5. /\ t \in Seq(S) /\ Len(t) = Len(a) + 1 + Len(b) /\ t[Len(a) + 1] = c
      /\ \A i \in 1..Len(a) : t[i] = a[i]
      /\ \A i \in 1..Len(b) : t[Len(a) + 1 + i] = b[i]
  BY <1>1, <1>2, <1>3, <1>4
<1> QED
  BY <1>5 DEF t, d

Put(s, c, p) == SubSeq(s, 1, p) \o <<c>> \o SubSeq(s, p + 1, Len(s))
Longer(t, S, s, c, p) ==
  /\ t \in Seq(S) /\ Len(t) = Len(s) + 1 /\ t[p + 1] = c
  /\ \A i \in 1..Len(s) : i <= p => t[i] = s[i]
  /\ \A i \in 1..Len(s) : i > p => t[i + 1] = s[i]
LEMMA PutIn ==
  ASSUME NEW S, NEW s \in Seq(S), NEW c \in S, NEW p \in 0..Len(s)
  PROVE  Longer(Put(s, c, p), S, s, c, p)
<1> DEFINE a == SubSeq(s, 1, p)
           b == SubSeq(s, p + 1, Len(s))
           t == a \o <<c>> \o b
<1>0. p \in Nat /\ p <= Len(s) /\ Len(s) \in Nat
  OBVIOUS
<1>1. a \in Seq(S) /\ Len(a) = p /\ \A i \in 1..p : a[i] = s[i]
  BY <1>0
<1>2. b \in Seq(S) /\ Len(b) = Len(s) - p /\ \A i \in 1..Len(s) - p : b[i] = s[p + i]
  BY <1>0
<1> HIDE DEF a, b
<1>10. a \in Seq(S) /\ b \in Seq(S)
  BY <1>1, <1>2
<1>3. /\ t \in Seq(S) /\ Len(t) = Len(a) + 1 + Len(b) /\ t[Len(a) + 1] = c
      /\ \A i \in 1..Len(a) : t[i] = a[i]
      /\ \A i \in 1..Len(b) : t[Len(a) + 1 + i] = b[i]
  BY ONLY <1>10, c \in S, OneBetween
<1> HIDE DEF t
<1>4. Len(t) = Len(s) + 1
  BY <1>0, <1>1, <1>2, <1>3
<1>5. \A i \in 1..Len(s) : i <= p => t[i] = s[i]
  BY <1>0, <1>1, <1>3
<1>6. ASSUME NEW i \in 1..Len(s), i > p PROVE t[i + 1] = s[i]
  <2>1. i - p \in 1..Len(s) - p /\ p + (i - p) = i /\ p + 1 + (i - p) = i + 1
    BY <1>0, <1>6
  <2>2. Len(b) = Len(s) - p /\ Len(a) = p
    BY <1>1, <1>2
  <2>3. t[Len(a) + 1 + (i - p)] = b[i - p]
    BY <2>1, <2>2, <1>3
  <2>4. b[i - p] = s[p + (i - p)]
    BY <2>1, <1>2
  <2> QED
    BY <2>1, <2>2, <2>3, <2>4
<1>7. Put(s, c, p) = t
  BY DEF Put, t, a, b
<1>8. Longer(t, S, s, c, p)
  BY <1>1, <1>3, <1>4, <1>5, <1>6 DEF Longer
<1> QED
  BY <1>7, <1>8

\* What that does to a list without repetition that does not have the element.
LEMMA PutInPlain ==
  ASSUME NEW S, NEW s \in Seq(S), NEW c \in S, NEW p \in 0..Len(s), Plain(s), ~Listed(c, s), NEW t, t = Put(s, c, p)
  PROVE  /\ Plain(t) /\ Listed(c, t)
         /\ \A x : Listed(x, s) => Listed(x, t)
         /\ \A x, y : Before(x, y, s) => Before(x, y, t)
         /\ \A j \in 1..Len(t) : t[j] = c \/ \E i \in 1..Len(s) : i <= j /\ t[j] = s[i]
<1>1. /\ t \in Seq(S) /\ Len(t) = Len(s) + 1 /\ t[p + 1] = c
      /\ \A i \in 1..Len(s) : i <= p => t[i] = s[i]
      /\ \A i \in 1..Len(s) : i > p => t[i + 1] = s[i]
  <2>1. Longer(Put(s, c, p), S, s, c, p)
    BY PutIn
  <2> QED
    BY <2>1 DEF Longer
<1>2. p \in Nat /\ p <= Len(s) /\ Len(s) \in Nat
  OBVIOUS
<1> DEFINE to == [i \in 1..Len(s) |-> IF i <= p THEN i ELSE i + 1]
<1>3. \A i \in 1..Len(s) : (i <= p => to[i] = i) /\ (i > p => to[i] = i + 1)
  BY <1>2
<1> HIDE DEF to
<1>4. \A i \in 1..Len(s) : to[i] \in 1..Len(t) /\ t[to[i]] = s[i]
  <2>1. ASSUME NEW i \in 1..Len(s) PROVE to[i] \in 1..Len(t) /\ t[to[i]] = s[i]
    <3>1. i <= p \/ i > p
      BY <1>2
    <3>2. i \in 1..Len(s) + 1 /\ i + 1 \in 1..Len(s) + 1
      BY <1>2
    <3> QED
      BY <3>1, <3>2, <1>1, <1>3
  <2> QED
    BY <2>1
<1>5. \A i, j \in 1..Len(s) : i < j => to[i] < to[j]
  BY <1>2, <1>3
<1>6. \A j \in 1..Len(t) : j = p + 1 \/ \E i \in 1..Len(s) : i <= j /\ to[i] = j
  <2>1. ASSUME NEW j \in 1..Len(t), j # p + 1 PROVE \E i \in 1..Len(s) : i <= j /\ to[i] = j
    <3>0. j \in 1..Len(s) + 1
      BY <1>1
    <3>1. CASE j <= p
      BY <3>1, <3>0, <1>2, <1>3
    <3>2. CASE j > p + 1
      <4>1. j - 1 \in 1..Len(s) /\ j - 1 > p /\ (j - 1) + 1 = j /\ j - 1 <= j
        BY <3>2, <3>0, <1>2
      <4> QED
        BY <4>1, <1>3
    <3> QED
      BY <2>1, <3>0, <3>1, <3>2, <1>2
  <2> QED
    BY <2>1
<1>7. \A j \in 1..Len(t) : t[j] = c \/ \E i \in 1..Len(s) : i <= j /\ t[j] = s[i]
  <2>1. ASSUME NEW j \in 1..Len(t) PROVE t[j] = c \/ \E i \in 1..Len(s) : i <= j /\ t[j] = s[i]
    <3>1. CASE j = p + 1
      BY <3>1, <1>1
    <3>2. CASE j # p + 1
      <4>1. PICK i \in 1..Len(s) : i <= j /\ to[i] = j
        BY <3>2, <1>6
      <4>2. t[j] = s[i]
        BY <4>1, <1>4
      <4> QED
        BY <4>1, <4>2
    <3> QED
      BY <3>1, <3>2
  <2> QED
    BY <2>1
<1>8. Listed(c, t)
  <2>1. p + 1 \in 1..Len(t)
    BY <1>1, <1>2
  <2> QED
    BY <1>1, <2>1 DEF Listed
<1>9. \A x : Listed(x, s) => Listed(x, t)
  BY <1>4 DEF Listed
<1>10. \A x, y : Before(x, y, s) => Before(x, y, t)
  BY <1>4, <1>5 DEF Before
<1>11. Plain(t)
  <2> SUFFICES ASSUME NEW i \in 1..Len(t), NEW j \in 1..Len(t), i # j, t[i] = t[j] PROVE FALSE
    BY DEF Plain
  <2>0. \A k \in 1..Len(s) : s[k] # c
    BY DEF Listed
  <2>1. CASE t[i] = c
    <3>1. \A k \in 1..Len(t) : t[k] = c => k = p + 1
      <4>1. ASSUME NEW k \in 1..Len(t), t[k] = c, k # p + 1 PROVE FALSE
        <5>1. PICK l \in 1..Len(s) : to[l] = k
          BY <4>1, <1>6
        <5> QED
          BY <5>1, <4>1, <2>0, <1>4
      <4> QED
        BY <4>1
    <3>2. i = p + 1 /\ j = p + 1
      BY <3>1, <2>1
    <3> QED
      BY <3>2
  <2>2. CASE t[i] # c
    <3>1. i # p + 1 /\ j # p + 1
      BY <2>2, <1>1
    <3>2. PICK k \in 1..Len(s), l \in 1..Len(s) : to[k] = i /\ to[l] = j
      BY <3>1, <1>6
    <3>3. s[k] = s[l] /\ k # l
      BY <3>2, <1>4
    <3> QED
      BY <3>3 DEF Plain
  <2> QED
    BY <2>1, <2>2
<1> QED
  BY <1>7, <1>8, <1>9, <1>10, <1>11
-----------------------------------------------------------------------------
(* The vector lane.                                                        *)
LaneTyped ==
  /\ lane \in {"start", "none", "page", "look", "done", "failed"} /\ gone \in BOOLEAN
  /\ kind \in [Chunks -> Nearest!Kinds] /\ links \in SUBSET Chunks /\ seen \in SUBSET Chunks
  /\ index \in Seq(Chunks) /\ first \in Seq(Chunks) /\ page \in Seq(Chunks) /\ kept \in Seq(Chunks)
  /\ offset \in Nat /\ examined \in Nat /\ size \in Nat

\* How far the pages have come.
LaneCount ==
  /\ Len(kept) <= LaneLimit /\ examined <= RawLimit /\ offset <= examined + Batch
  /\ lane = "page" /\ Nearest!More => offset <= examined
  /\ lane = "look" => size <= Batch /\ Len(page) <= size /\ offset + size <= examined + Len(page)

LaneStart ==
  lane = "start" => /\ kept = <<>> /\ page = <<>> /\ first = <<>> /\ links = {} /\ seen = {}
                    /\ offset = 0 /\ examined = 0

\* Every chunk that is not being embedded has one point, until the points are deleted.
LaneIndex ==
  /\ Plain(index)
  /\ gone => index = <<>>
  /\ ~gone => \A c \in Chunks : kind[c] # "pending" => Listed(c, index)

LaneLinks == \A c \in links : kind[c] \in {"ready", "wrong"}

\* Points added since the search began change nothing in the order of those that were there.
LaneFirst ==
  /\ Plain(first)
  /\ ~gone => \A c \in Chunks : Listed(c, first) => Listed(c, index)
  /\ ~gone => \A c, d \in Chunks : Before(c, d, first) => Before(c, d, index)
  /\ (\A c \in links : Listed(c, first)) \/ (gone /\ page = <<>> /\ kept = <<>>)

LaneSeen ==
  /\ Plain(kept)
  /\ \A i \in 1..Len(kept) : kept[i] \in links /\ kept[i] \in seen /\ kind[kept[i]] = "ready"
  /\ \A c \in seen : Nearest!Could(c) => Listed(c, kept)

\* What was read before the page, what is read from it, and what is nearer than a point of it.
ReadTo(n) == \A k \in 1..Len(index) : k <= n /\ Listed(index[k], first) => index[k] \in seen
PageTo(n) == \A k \in 1..Len(index) : k <= n /\ Listed(index[k], first) => index[k] \in seen \/ Listed(index[k], page)
NoneNearer ==
  \A k \in 1..Len(page) : \A c \in Chunks :
    Before(c, page[k], first) => c \in seen \/ \E j \in 1..Len(page) : j < k /\ page[j] = c
LanePages ==
  ~gone =>
    /\ lane = "page" /\ Nearest!More => ReadTo(offset)
    /\ lane = "look" =>
         /\ PageTo(offset + size) /\ NoneNearer
         /\ \/ size = Batch \/ RawLimit <= examined + Len(page)
            \/ \A c \in Chunks : Listed(c, first) => c \in seen \/ Listed(c, page)
    /\ lane = "done" /\ Nearest!More => \A c \in Chunks : Listed(c, first) => c \in seen

LaneInv ==
  /\ LaneTyped /\ LaneCount /\ LaneStart /\ LaneIndex /\ LaneLinks /\ LaneFirst /\ LaneSeen /\ LanePages
  /\ Nearest!BestFirst

LEMMA LaneBegins ==
  ASSUME Nearest!LaneAssumption, Nearest!Init
  PROVE  LaneInv
<1> USE DEF Nearest!Init
<1>1. PICK S \in SUBSET {c \in Chunks : kind[c] = "pending"} : index \in Nearest!SetToSeqs(Chunks \ S)
  OBVIOUS
<1>2. IsFiniteSet(Chunks \ S)
  BY SameFinite, FS_Difference DEF Nearest!LaneAssumption
<1>3. index \in Seq(Chunks \ S) /\ Plain(index) /\ \A c \in Chunks \ S : Listed(c, index)
  BY <1>1, <1>2, ArrangedListsAll
<1>4. index \in Seq(Chunks)
  BY <1>3
<1>5. <<>> \in Seq(Chunks) /\ Len(<<>>) = 0
  OBVIOUS
<1>6. LaneTyped
  BY <1>4, <1>5 DEF LaneTyped
<1>7. LaneCount
  BY <1>5 DEF LaneCount, Nearest!LaneAssumption
<1>8. LaneStart /\ LaneLinks
  BY DEF LaneStart, LaneLinks
<1>9. LaneIndex
  BY <1>3 DEF LaneIndex
<1>10. LaneFirst /\ LaneSeen /\ LanePages /\ Nearest!BestFirst
  BY <1>5 DEF LaneFirst, LaneSeen, LanePages, Nearest!BestFirst, Plain, Listed, Before
<1> QED
  BY <1>6, <1>7, <1>8, <1>9, <1>10 DEF LaneInv

LEMMA LaneUpsert ==
  ASSUME LaneInv, NEW c \in Chunks, Nearest!Upsert(c)
  PROVE  LaneInv'
<1> USE DEF LaneInv
<1>0. /\ UNCHANGED <<lane, kind, links, first, offset, examined, page, size, seen, kept, gone>>
      /\ kind[c] = "pending" /\ ~gone
  BY DEF Nearest!Upsert
<1>1. PICK p \in 0..Len(index) : index' = Put(index, c, p)
  BY DEF Nearest!Upsert, Nearest!Near, Put
<1>2. index \in Seq(Chunks)
  BY DEF LaneTyped
<1>3. ~Listed(c, index)
  BY <1>2, InToSet DEF Nearest!Upsert
<1>4. /\ Plain(index') /\ Listed(c, index')
      /\ \A x : Listed(x, index) => Listed(x, index')
      /\ \A x, y : Before(x, y, index) => Before(x, y, index')
      /\ \A j \in 1..Len(index') : index'[j] = c \/ \E i \in 1..Len(index) : i <= j /\ index'[j] = index[i]
  BY <1>1, <1>2, <1>3, PutInPlain DEF LaneIndex
<1>5. index' \in Seq(Chunks) /\ Len(index') \in Nat /\ Len(index) \in Nat
  <2>1. Longer(Put(index, c, p), Chunks, index, c, p)
    BY <1>2, PutIn
  <2> QED
    BY <1>1, <1>2, <2>1 DEF Longer
<1>6. LaneTyped'
  BY <1>0, <1>5 DEF LaneTyped
<1>7. LaneCount' /\ LaneStart' /\ LaneLinks'
  BY <1>0 DEF LaneCount, LaneStart, LaneLinks, Nearest!More
<1>8. LaneIndex'
  BY <1>0, <1>4 DEF LaneIndex
<1>9. LaneFirst'
  BY <1>0, <1>4 DEF LaneFirst
<1>10. LaneSeen' /\ Nearest!BestFirst'
  BY <1>0 DEF LaneSeen, Nearest!BestFirst, Nearest!Could, Nearest!Nearer
<1>11. ~Listed(c, first)
  BY <1>0, <1>3 DEF LaneFirst
<1>12. ASSUME NEW n \in Nat, ReadTo(n) PROVE ReadTo(n)'
  <2> SUFFICES ASSUME NEW k \in 1..Len(index'), k <= n, Listed(index'[k], first) PROVE index'[k] \in seen
    BY <1>0 DEF ReadTo
  <2>1. PICK i \in 1..Len(index) : i <= k /\ index'[k] = index[i]
    BY <1>4, <1>11
  <2>2. i <= n
    BY <2>1, <1>5
  <2> QED
    BY <2>1, <2>2, <1>12 DEF ReadTo
<1>13. ASSUME NEW n \in Nat, PageTo(n) PROVE PageTo(n)'
  <2> SUFFICES ASSUME NEW k \in 1..Len(index'), k <= n, Listed(index'[k], first)
               PROVE  index'[k] \in seen \/ Listed(index'[k], page)
    BY <1>0 DEF PageTo
  <2>1. PICK i \in 1..Len(index) : i <= k /\ index'[k] = index[i]
    BY <1>4, <1>11
  <2>2. i <= n
    BY <2>1, <1>5
  <2> QED
    BY <2>1, <2>2, <1>13 DEF PageTo
<1>14. offset \in Nat /\ offset + size \in Nat
  BY DEF LaneTyped
<1>15. NoneNearer => NoneNearer'
  BY <1>0 DEF NoneNearer
<1>16. lane = "page" /\ Nearest!More => ReadTo(offset)'
  BY <1>0, <1>12, <1>14 DEF LanePages
<1>17. lane = "look" => PageTo(offset + size)'
  BY <1>0, <1>13, <1>14 DEF LanePages
<1>18. Nearest!More' <=> Nearest!More
  BY <1>0 DEF Nearest!More
<1>19. LanePages'
  BY <1>0, <1>15, <1>16, <1>17, <1>18 DEF LanePages
<1> QED
  BY <1>6, <1>7, <1>8, <1>9, <1>10, <1>19

LEMMA LaneMark ==
  ASSUME LaneInv, NEW c \in Chunks, Nearest!Mark(c)
  PROVE  LaneInv'
<1> USE DEF LaneInv
<1>0. /\ UNCHANGED <<lane, index, links, first, offset, examined, page, size, seen, kept, gone>>
      /\ kind[c] = "pending" /\ kind' = [kind EXCEPT ![c] = "ready"] /\ Listed(c, index)
  BY InToSet DEF Nearest!Mark, LaneTyped
<1>1. kind \in [Chunks -> Nearest!Kinds] /\ links \subseteq Chunks /\ seen \subseteq Chunks
  BY DEF LaneTyped
<1>2. kind' \in [Chunks -> Nearest!Kinds] /\ kind'[c] = "ready" /\ \A d \in Chunks : d # c => kind'[d] = kind[d]
  BY <1>0, <1>1 DEF Nearest!Kinds
<1>3. c \notin links
  BY <1>0 DEF LaneLinks
<1>4. \A d \in Chunks : Nearest!Could(d)' <=> Nearest!Could(d)
  BY <1>0, <1>2, <1>3 DEF Nearest!Could
<1>5. LaneTyped' /\ LaneCount' /\ LaneStart'
  BY <1>0, <1>2 DEF LaneTyped, LaneCount, LaneStart, Nearest!More
<1>6. LaneIndex' /\ LaneLinks' /\ LaneFirst'
  BY <1>0, <1>1, <1>2, <1>3 DEF LaneIndex, LaneLinks, LaneFirst
<1>7. LaneSeen'
  BY <1>0, <1>1, <1>2, <1>3, <1>4 DEF LaneSeen
<1>8. LanePages'
  BY <1>0 DEF LanePages, ReadTo, PageTo, NoneNearer, Nearest!More
<1>9. Nearest!BestFirst'
  <2>1. \A i \in DOMAIN kept : kept[i] \in Chunks
    BY DEF LaneTyped
  <2>2. \A d, x \in Chunks : Nearest!Nearer(d, x)' <=> Nearest!Nearer(d, x)
    BY <1>0 DEF Nearest!Nearer
  <2> QED
    BY <1>0, <1>4, <2>1, <2>2 DEF Nearest!BestFirst
<1> QED
  BY <1>5, <1>6, <1>7, <1>8, <1>9

LEMMA LaneDrop ==
  ASSUME LaneInv, Nearest!Drop
  PROVE  LaneInv'
<1> USE DEF LaneInv
<1>0. /\ UNCHANGED <<lane, kind, links, first, offset, examined, page, size, seen, kept>>
      /\ gone' = TRUE /\ ~gone /\ index' = <<>>
  BY DEF Nearest!Drop
<1>1. <<>> \in Seq(Chunks) /\ Len(<<>>) = 0
  OBVIOUS
<1>2. LaneTyped'
  BY <1>0, <1>1 DEF LaneTyped
<1>3. LaneCount' /\ LaneStart' /\ LaneLinks' /\ LaneFirst'
  BY <1>0 DEF LaneCount, LaneStart, LaneLinks, LaneFirst, Nearest!More
<1>4. LaneIndex'
  BY <1>0, <1>1 DEF LaneIndex, Plain
<1>5. LaneSeen' /\ LanePages' /\ Nearest!BestFirst'
  BY <1>0 DEF LaneSeen, LanePages, Nearest!BestFirst, Nearest!Could
<1> QED
  BY <1>2, <1>3, <1>4, <1>5

\* The steps that only end the lane.
LEMMA LaneEnds ==
  ASSUME LaneInv, Nearest!Skip \/ Nearest!Enough \/ Nearest!Fails
  PROVE  LaneInv'
<1> USE DEF LaneInv
<1>0. /\ UNCHANGED <<kind, index, links, first, offset, examined, page, size, seen, kept, gone>>
      /\ lane' \in {"none", "done", "failed"} /\ (lane' = "done" => ~Nearest!More)
  BY DEF Nearest!Skip, Nearest!Enough, Nearest!Fails
<1>1. LaneTyped'
  BY <1>0 DEF LaneTyped
<1>2. LaneCount' /\ LaneStart' /\ LaneIndex' /\ LaneLinks' /\ LaneFirst'
  BY <1>0 DEF LaneCount, LaneStart, LaneIndex, LaneLinks, LaneFirst
<1>3. LaneSeen' /\ Nearest!BestFirst'
  BY <1>0 DEF LaneSeen, Nearest!BestFirst, Nearest!Could, Nearest!Nearer
<1>4. LanePages'
  BY <1>0 DEF LanePages, Nearest!More
<1> QED
  BY <1>1, <1>2, <1>3, <1>4

LEMMA LaneLinked ==
  ASSUME LaneInv, Nearest!Links
  PROVE  LaneInv'
<1> USE DEF LaneInv
<1>0. /\ UNCHANGED <<kind, index, offset, examined, page, size, seen, kept, gone>>
      /\ links' = Nearest!Ready /\ first' = index /\ lane' = "page"
      /\ kept = <<>> /\ page = <<>> /\ seen = {} /\ offset = 0 /\ examined = 0
  BY DEF Nearest!Links, LaneStart
<1>1. links' \subseteq Chunks /\ \A c \in links' : kind[c] \in {"ready", "wrong"}
  BY <1>0 DEF Nearest!Ready
<1>2. LaneTyped'
  BY <1>0, <1>1 DEF LaneTyped
<1>3. LaneCount' /\ LaneStart' /\ LaneIndex' /\ LaneLinks'
  BY <1>0, <1>1 DEF LaneCount, LaneStart, LaneIndex, LaneLinks
<1>4. LaneFirst'
  <2>1. gone \/ \A c \in links' : Listed(c, index)
    BY <1>1 DEF LaneIndex
  <2> QED
    BY <1>0, <2>1 DEF LaneFirst, LaneIndex
<1>5. LaneSeen' /\ Nearest!BestFirst'
  BY <1>0 DEF LaneSeen, Nearest!BestFirst, Plain
<1>6. LanePages'
  BY <1>0 DEF LanePages, ReadTo
<1> QED
  BY <1>2, <1>3, <1>4, <1>5, <1>6

LEMMA LaneSearch ==
  ASSUME Nearest!LaneAssumption, LaneInv, Nearest!Search
  PROVE  LaneInv'
<1> USE DEF LaneInv
<1> DEFINE room == Nearest!Lowest(Batch, RawLimit - examined)
           end == Nearest!Lowest(Len(index), offset + room)
<1>0. /\ UNCHANGED <<kind, index, links, first, offset, examined, seen, kept, gone>>
      /\ page' = SubSeq(index, offset + 1, end) /\ size' = Len(page')
      /\ lane' = (IF page' = <<>> THEN "done" ELSE "look")
      /\ lane = "page" /\ Nearest!More
  BY DEF Nearest!Search
<1>1. /\ offset \in Nat /\ examined \in Nat /\ RawLimit \in Nat /\ Batch \in Nat /\ Batch > 0
      /\ examined < RawLimit /\ offset <= examined /\ index \in Seq(Chunks) /\ Len(index) \in Nat
  BY <1>0 DEF LaneTyped, LaneCount, Nearest!LaneAssumption, Nearest!More
<1>2. /\ room \in Nat /\ room > 0 /\ room <= Batch /\ room <= RawLimit - examined
      /\ room = Batch \/ room = RawLimit - examined
  BY <1>1 DEF Nearest!Lowest
<1> HIDE DEF room
<1>3. /\ end \in Nat /\ end <= Len(index) /\ end <= offset + room
      /\ end = Len(index) \/ end = offset + room
  BY <1>1, <1>2 DEF Nearest!Lowest
<1> HIDE DEF end
<1>4. CASE end <= offset
  <2>1. page' = <<>>
    BY <1>0, <1>1, <1>3, <1>4
  <2>2. size' = 0 /\ lane' = "done" /\ Len(index) <= offset
    BY <1>0, <1>1, <1>2, <1>3, <1>4, <2>1
  <2>3. page' \in Seq(Chunks) /\ size' \in Nat
    BY <2>1, <2>2
  <2>4. LaneTyped'
    BY <1>0, <2>2, <2>3 DEF LaneTyped
  <2>5. LaneCount' /\ LaneStart' /\ LaneIndex' /\ LaneLinks'
    BY <1>0, <2>2 DEF LaneCount, LaneStart, LaneIndex, LaneLinks
  <2>6. LaneFirst'
    BY <1>0, <2>1 DEF LaneFirst
  <2>7. LaneSeen' /\ Nearest!BestFirst'
    BY <1>0 DEF LaneSeen, Nearest!BestFirst, Nearest!Could, Nearest!Nearer
  <2>8. ASSUME ~gone, NEW c \in Chunks, Listed(c, first) PROVE c \in seen
    <3>1. PICK k \in 1..Len(index) : index[k] = c
      BY <2>8 DEF LaneFirst, Listed
    <3>2. k <= offset
      BY <2>2, <1>1
    <3> QED
      BY <1>0, <2>8, <3>1, <3>2 DEF LanePages, ReadTo
  <2>9. LanePages'
    BY <1>0, <2>2, <2>8 DEF LanePages
  <2> QED
    BY <2>4, <2>5, <2>6, <2>7, <2>9
<1>5. CASE end > offset
  <2>1. /\ page' \in Seq(Chunks) /\ Len(page') = end - offset
        /\ \A k \in 1..end - offset : page'[k] = index[offset + k]
    <3>1. offset + 1 \in 1..Len(index) /\ end \in offset..Len(index)
      BY <1>1, <1>3, <1>5
    <3>2. offset \in 0..Len(index) /\ Len(SubSeq(index, offset + 1, end)) = end - offset
      BY <1>1, <1>3, <1>5, <3>1
    <3>3. SubSeq(index, offset + 1, end) \in Seq(Chunks)
      BY <1>1, <1>3, <1>5, <3>1
    <3>4. \A k \in 1..end - offset : SubSeq(index, offset + 1, end)[k] = index[offset + k]
      BY <1>1, <1>3, <1>5, <3>1
    <3> QED
      BY <1>0, <3>2, <3>3, <3>4
  <2>2. /\ lane' = "look" /\ size' \in Nat /\ size' = end - offset /\ offset + size' = end
        /\ size' <= Batch /\ size' <= room
    <3>1. page' # <<>>
      BY <2>1, <1>1, <1>3, <1>5
    <3> QED
      BY <3>1, <2>1, <1>0, <1>1, <1>2, <1>3, <1>5
  <2>4. LaneTyped'
    BY <1>0, <2>1, <2>2 DEF LaneTyped
  <2>5. LaneCount'
    <3>1. offset + size' <= examined + Len(page') /\ Len(page') <= size'
      BY <2>1, <2>2, <1>1, <1>3
    <3> QED
      BY <1>0, <2>2, <3>1 DEF LaneCount
  <2>6. LaneStart' /\ LaneIndex' /\ LaneLinks'
    BY <1>0, <2>2 DEF LaneStart, LaneIndex, LaneLinks
  <2>7. LaneFirst'
    <3>1. ~gone
      BY <1>1, <1>3, <1>5 DEF LaneIndex
    <3> QED
      BY <1>0, <3>1 DEF LaneFirst
  <2>8. LaneSeen' /\ Nearest!BestFirst'
    BY <1>0 DEF LaneSeen, Nearest!BestFirst, Nearest!Could, Nearest!Nearer
  <2>9. ~gone /\ ReadTo(offset)
    <3>1. ~gone
      BY <1>1, <1>3, <1>5 DEF LaneIndex
    <3> QED
      BY <1>0, <3>1 DEF LanePages
  <2>10. \A k \in 1..Len(index) : k > offset /\ k <= end =>
            k - offset \in 1..Len(page') /\ page'[k - offset] = index[k]
    <3>1. ASSUME NEW k \in 1..Len(index), k > offset, k <= end
          PROVE  k - offset \in 1..Len(page') /\ page'[k - offset] = index[k]
      <4>1. k - offset \in 1..end - offset /\ offset + (k - offset) = k
        BY <3>1, <1>1, <1>3
      <4> QED
        BY <4>1, <2>1
    <3> QED
      BY <3>1
  <2>11. \A k \in 1..Len(index) : k <= offset + size' /\ Listed(index[k], first) =>
            index[k] \in seen \/ Listed(index[k], page')
    <3>1. ASSUME NEW k \in 1..Len(index), k <= end, Listed(index[k], first)
          PROVE  index[k] \in seen \/ Listed(index[k], page')
      <4>1. CASE k <= offset
        BY <4>1, <3>1, <2>9 DEF ReadTo
      <4>2. CASE k > offset
        BY <4>2, <3>1, <2>10 DEF Listed
      <4> QED
        BY <4>1, <4>2, <1>1
    <3> QED
      BY <3>1, <2>2
  <2>12. NoneNearer'
    <3> SUFFICES ASSUME NEW k \in 1..Len(page'), NEW c \in Chunks, Before(c, page'[k], first)
                 PROVE  c \in seen \/ \E j \in 1..Len(page') : j < k /\ page'[j] = c
      BY <1>0 DEF NoneNearer
    <3>1. k \in Nat /\ k \in 1..end - offset /\ offset + k \in 1..Len(index) /\ page'[k] = index[offset + k]
      BY <2>1, <1>1, <1>3
    <3>2. index[offset + k] \in Chunks
      BY <3>1, <1>1
    <3>3. Before(c, index[offset + k], index)
      BY <2>9, <3>1, <3>2 DEF LaneFirst
    <3>4. PICK i \in 1..Len(index), l \in 1..Len(index) : i < l /\ index[i] = c /\ index[l] = index[offset + k]
      BY <3>3 DEF Before
    <3>5. l = offset + k
      BY <3>1, <3>4 DEF LaneIndex, Plain
    <3>6. Listed(c, first)
      BY DEF Before, Listed
    <3>7. CASE i <= offset
      BY <3>4, <3>6, <3>7, <2>9 DEF ReadTo
    <3>8. CASE i > offset
      <4>1. i - offset \in 1..Len(page') /\ page'[i - offset] = c
        BY <3>1, <3>4, <3>5, <3>8, <2>10, <1>1, <1>3
      <4>2. i - offset < k
        BY <3>1, <3>4, <3>5, <1>1
      <4> QED
        BY <4>1, <4>2
    <3> QED
      BY <3>4, <3>7, <3>8, <1>1
  <2>13. \/ size' = Batch \/ RawLimit <= examined + Len(page')
         \/ \A c \in Chunks : Listed(c, first) => c \in seen \/ Listed(c, page')
    <3>1. CASE end = Len(index)
      <4>1. ASSUME NEW c \in Chunks, Listed(c, first) PROVE c \in seen \/ Listed(c, page')
        <5>1. PICK k \in 1..Len(index) : index[k] = c
          BY <4>1, <2>9 DEF LaneFirst, Listed
        <5>2. k <= offset + size'
          BY <2>2, <3>1, <1>1
        <5> QED
          BY <5>1, <5>2, <4>1, <2>11
      <4> QED
        BY <4>1
    <3>2. CASE end = offset + room
      BY <3>2, <2>1, <2>2, <1>1, <1>2
    <3> QED
      BY <3>1, <3>2, <1>3
  <2>14. LanePages'
    BY <1>0, <2>2, <2>11, <2>12, <2>13 DEF LanePages, PageTo
  <2> QED
    BY <2>4, <2>5, <2>6, <2>7, <2>8, <2>14
<1> QED
  BY <1>1, <1>3, <1>4, <1>5

LEMMA LaneLook ==
  ASSUME Nearest!LaneAssumption, LaneInv, Nearest!Look
  PROVE  LaneInv'
<1> USE DEF LaneInv
<1> DEFINE h == Head(page)
           t == Tail(page)
<1>0. /\ UNCHANGED <<lane, kind, index, links, first, offset, size, gone>>
      /\ page' = t /\ examined' = examined + 1 /\ seen' = seen \cup {h}
      /\ h \notin seen /\ Nearest!Could(h) => kept' = Append(kept, h)
      /\ ~(h \notin seen /\ Nearest!Could(h)) => kept' = kept
      /\ lane = "look" /\ page # <<>> /\ Nearest!More
  BY DEF Nearest!Look, Nearest!New, Nearest!Matches, Nearest!Could
<1>1. page \in Seq(Chunks) /\ Len(page) \in Nat /\ Len(page) > 0
  <2>1. page \in Seq(Chunks)
    BY DEF LaneTyped
  <2> QED
    BY <1>0, <2>1
<1>2. /\ h \in Chunks /\ h = page[1] /\ t \in Seq(Chunks) /\ Len(t) = Len(page) - 1
      /\ \A k \in 1..Len(t) : t[k] = page[k + 1]
  BY <1>0, <1>1
<1> HIDE DEF h, t
<1>3. /\ examined \in Nat /\ offset \in Nat /\ size \in Nat /\ RawLimit \in Nat /\ LaneLimit \in Nat /\ Batch \in Nat
      /\ examined < RawLimit /\ Len(kept) < LaneLimit /\ kept \in Seq(Chunks) /\ Len(kept) \in Nat
  BY <1>0 DEF LaneTyped, Nearest!More, Nearest!LaneAssumption
<1>4. \A c : Listed(c, page) => c = h \/ Listed(c, t)
  <2> SUFFICES ASSUME NEW i \in 1..Len(page) PROVE page[i] = h \/ Listed(page[i], t)
    BY DEF Listed
  <2>1. CASE i = 1
    BY <2>1, <1>2
  <2>2. CASE i # 1
    <3>1. i - 1 \in 1..Len(t) /\ (i - 1) + 1 = i
      BY <2>2, <1>1, <1>2
    <3> QED
      BY <3>1, <1>2 DEF Listed
  <2> QED
    BY <2>1, <2>2
<1>5. \A c \in Chunks : Nearest!Could(c)' <=> Nearest!Could(c)
  BY <1>0 DEF Nearest!Could
<1>6. kept' \in Seq(Chunks) /\ Len(kept') <= LaneLimit
  <2>1. Append(kept, h) \in Seq(Chunks) /\ Len(Append(kept, h)) = Len(kept) + 1
    BY <1>2, <1>3
  <2> QED
    BY <1>0, <1>3, <2>1
<1>7. LaneTyped'
  <2>1. seen' \subseteq Chunks /\ examined' \in Nat
    BY <1>0, <1>2, <1>3 DEF LaneTyped
  <2> QED
    BY <1>0, <1>2, <1>6, <2>1 DEF LaneTyped
<1>8. LaneCount'
  <2>1. /\ examined' <= RawLimit /\ offset <= examined' + Batch
        /\ size <= Batch /\ Len(t) <= size /\ offset + size <= examined' + Len(t)
    BY <1>0, <1>1, <1>2, <1>3 DEF LaneCount
  <2> QED
    BY <1>0, <1>6, <2>1 DEF LaneCount
<1>9. LaneStart' /\ LaneIndex' /\ LaneLinks'
  BY <1>0 DEF LaneStart, LaneIndex, LaneLinks
<1>10. LaneFirst'
  BY <1>0 DEF LaneFirst
<1>11. ~gone => NoneNearer /\ PageTo(offset + size)
  BY <1>0 DEF LanePages
<1>12. LanePages'
  <2>1. ASSUME PageTo(offset + size) PROVE PageTo(offset + size)'
    BY <2>1, <1>0, <1>4 DEF PageTo
  <2>2. ASSUME NoneNearer PROVE NoneNearer'
    <3> SUFFICES ASSUME NEW k \in 1..Len(t), NEW c \in Chunks, Before(c, t[k], first)
                 PROVE  c \in seen' \/ \E j \in 1..Len(t) : j < k /\ t[j] = c
      BY <1>0 DEF NoneNearer
    <3>1. k + 1 \in 1..Len(page) /\ t[k] = page[k + 1]
      BY <1>1, <1>2
    <3>2. c \in seen \/ \E j \in 1..Len(page) : j < k + 1 /\ page[j] = c
      BY <3>1, <2>2 DEF NoneNearer
    <3>3. CASE c \in seen
      BY <3>3, <1>0
    <3>4. ASSUME NEW j \in 1..Len(page), j < k + 1, page[j] = c
          PROVE  c \in seen' \/ \E i \in 1..Len(t) : i < k /\ t[i] = c
      <4>1. CASE j = 1
        BY <4>1, <3>4, <1>0, <1>2
      <4>2. CASE j # 1
        <5>1. j - 1 \in 1..Len(t) /\ (j - 1) + 1 = j /\ j - 1 < k
          BY <4>2, <3>4, <1>1, <1>2
        <5> QED
          BY <5>1, <3>4, <1>2
      <4> QED
        BY <4>1, <4>2
    <3> QED
      BY <3>2, <3>3, <3>4
  <2>3. RawLimit <= examined + Len(page) => RawLimit <= examined' + Len(t)
    BY <1>0, <1>1, <1>2, <1>3
  <2>4. ~gone => \/ size = Batch \/ RawLimit <= examined' + Len(t)
                 \/ \A c \in Chunks : Listed(c, first) => c \in seen' \/ Listed(c, t)
    BY <1>0, <1>4, <2>3 DEF LanePages
  <2> QED
    BY <1>0, <1>11, <2>1, <2>2, <2>4 DEF LanePages
<1>13. CASE h \notin seen /\ Nearest!Could(h)
  <2>1. kept' = Append(kept, h)
    BY <1>0, <1>13
  <2>2. /\ Len(kept') = Len(kept) + 1 /\ kept'[Len(kept) + 1] = h
        /\ \A i \in 1..Len(kept) : kept'[i] = kept[i]
    BY <2>1, <1>2, <1>3
  <2>3. \A i \in 1..Len(kept') : i \in 1..Len(kept) \/ i = Len(kept) + 1
    BY <2>2, <1>3
  <2>4. \A i \in 1..Len(kept) : kept[i] # h
    BY <1>13 DEF LaneSeen
  <2>5. Plain(kept')
    BY <2>2, <2>3, <2>4 DEF Plain, LaneSeen
  <2>6. h \in links /\ kind[h] = "ready"
    BY <1>13 DEF Nearest!Could, LaneLinks
  <2>7. \A c : Listed(c, kept) \/ c = h => Listed(c, kept')
    <3>1. \A i \in 1..Len(kept) : i \in 1..Len(kept')
      BY <2>2, <1>3
    <3>2. Len(kept) + 1 \in 1..Len(kept')
      BY <2>2, <1>3
    <3> QED
      BY <2>2, <3>1, <3>2 DEF Listed
  <2>8. LaneSeen'
    <3>1. \A i \in 1..Len(kept') : kept'[i] \in links /\ kept'[i] \in seen' /\ kind[kept'[i]] = "ready"
      BY <2>2, <2>3, <2>6, <1>0 DEF LaneSeen
    <3>2. \A c \in seen' : Nearest!Could(c) => Listed(c, kept')
      BY <1>0, <2>7 DEF LaneSeen
    <3>3. \A c \in seen' : Nearest!Could(c)' => Listed(c, kept')
      BY <3>2, <1>0 DEF Nearest!Could
    <3> QED
      BY <1>0, <2>5, <3>1, <3>3 DEF LaneSeen
  <2>9. Nearest!BestFirst'
    <3> SUFFICES ASSUME ~gone, NEW i \in 1..Len(kept')
                 PROVE  /\ Nearest!Could(kept'[i])
                        /\ \A c \in Chunks : Nearest!Could(c) /\ Nearest!Nearer(c, kept'[i]) => \E j \in 1..i - 1 : kept'[j] = c
      <4>1. DOMAIN kept' = 1..Len(kept')
        BY <1>6
      <4>2. \A i \in 1..Len(kept') : kept'[i] \in Chunks
        BY <1>6
      <4>3. \A c \in Chunks : Nearest!Could(c)' <=> Nearest!Could(c)
        BY <1>5
      <4>4. \A c, d \in Chunks : Nearest!Nearer(c, d)' <=> Nearest!Nearer(c, d)
        BY <1>0 DEF Nearest!Nearer
      <4> QED
        BY <1>0, <1>6, <4>1, <4>2, <4>3, <4>4, Zenon DEF Nearest!BestFirst
    <3>0. DOMAIN kept = 1..Len(kept) /\ DOMAIN first = 1..Len(first)
      BY DEF LaneTyped
    <3>1. CASE i \in 1..Len(kept)
      <4>1. kept'[i] = kept[i] /\ Nearest!Could(kept[i])
        BY <3>1, <2>2, <3>0 DEF Nearest!BestFirst
      <4>2. ASSUME NEW c \in Chunks, Nearest!Could(c), Nearest!Nearer(c, kept[i]) PROVE \E j \in 1..i - 1 : kept'[j] = c
        <5>1. PICK j \in 1..i - 1 : kept[j] = c
          BY <4>2, <3>0, <3>1 DEF Nearest!BestFirst
        <5>2. j \in 1..Len(kept)
          BY <3>1, <1>3
        <5> QED
          BY <5>1, <5>2, <2>2
      <4> QED
        BY <4>1, <4>2
    <3>2. CASE i = Len(kept) + 1
      <4>1. kept'[i] = h
        BY <3>2, <2>2
      <4>2. ASSUME NEW c \in Chunks, Nearest!Could(c), Nearest!Nearer(c, h) PROVE \E j \in 1..i - 1 : kept'[j] = c
        <5>1. Before(c, page[1], first)
          BY <4>2, <3>0, <1>2 DEF Nearest!Nearer, Before
        <5>2. 1 \in 1..Len(page) /\ \A j \in 1..Len(page) : ~(j < 1)
          BY <1>1
        <5>3. c \in seen
          BY <1>11, <5>1, <5>2 DEF NoneNearer
        <5>4. Listed(c, kept)
          BY <5>3, <4>2 DEF LaneSeen
        <5>5. i - 1 = Len(kept)
          BY <3>2, <1>3
        <5> QED
          BY <5>4, <5>5, <2>2 DEF Listed
      <4> QED
        BY <4>1, <4>2, <1>13
    <3> QED
      BY <3>1, <3>2, <2>3
  <2> QED
    BY <1>7, <1>8, <1>9, <1>10, <1>12, <2>8, <2>9
<1>14. CASE ~(h \notin seen /\ Nearest!Could(h))
  <2>1. kept' = kept
    BY <1>0, <1>14
  <2>2. LaneSeen'
    <3>1. \A c \in seen' : Nearest!Could(c) => Listed(c, kept)
      BY <1>0, <1>14 DEF LaneSeen
    <3>2. \A c \in seen' : Nearest!Could(c)' => Listed(c, kept)
      BY <3>1, <1>0 DEF Nearest!Could
    <3> QED
      BY <1>0, <2>1, <3>2 DEF LaneSeen
  <2>3. Nearest!BestFirst'
    BY <1>0, <2>1 DEF Nearest!BestFirst, Nearest!Could, Nearest!Nearer
  <2> QED
    BY <1>7, <1>8, <1>9, <1>10, <1>12, <2>2, <2>3
<1> QED
  BY <1>13, <1>14

LEMMA LaneTurn ==
  ASSUME Nearest!LaneAssumption, LaneInv, Nearest!Turn
  PROVE  LaneInv'
<1> USE DEF LaneInv
<1>0. /\ UNCHANGED <<kind, index, links, first, examined, page, size, seen, kept, gone>>
      /\ lane = "look" /\ (page = <<>> \/ ~Nearest!More) /\ offset' = offset + size
      /\ lane' = IF size < Batch THEN "done" ELSE "page"
  BY DEF Nearest!Turn, Nearest!Advanced
<1>1. /\ offset \in Nat /\ size \in Nat /\ examined \in Nat /\ Batch \in Nat /\ RawLimit \in Nat
      /\ page \in Seq(Chunks) /\ Len(page) \in Nat
      /\ size <= Batch /\ Len(page) <= size /\ offset + size <= examined + Len(page)
  BY <1>0 DEF LaneTyped, LaneCount, Nearest!LaneAssumption
<1>2. LaneTyped'
  BY <1>0, <1>1 DEF LaneTyped
<1>3. LaneCount'
  <2>1. offset' <= examined + Batch
    BY <1>0, <1>1
  <2>2. Nearest!More => offset' <= examined
    <3>1. Nearest!More => Len(page) = 0
      BY <1>0
    <3> QED
      BY <3>1, <1>0, <1>1
  <2>3. Nearest!More' <=> Nearest!More
    BY <1>0 DEF Nearest!More
  <2>4. lane' \in {"done", "page"}
    BY <1>0
  <2> QED
    BY <1>0, <2>1, <2>2, <2>3, <2>4 DEF LaneCount
<1>4. LaneStart' /\ LaneIndex' /\ LaneLinks' /\ LaneFirst'
  BY <1>0 DEF LaneStart, LaneIndex, LaneLinks, LaneFirst
<1>5. LaneSeen' /\ Nearest!BestFirst'
  BY <1>0 DEF LaneSeen, Nearest!BestFirst, Nearest!Could, Nearest!Nearer
<1>6. LanePages'
  <2> SUFFICES ASSUME ~gone, Nearest!More
               PROVE  /\ lane' = "page" => \A k \in 1..Len(index) : k <= offset' /\ Listed(index[k], first) => index[k] \in seen
                      /\ lane' = "done" => \A c \in Chunks : Listed(c, first) => c \in seen
    <3>1. lane' # "look"
      BY <1>0
    <3>2. Nearest!More' <=> Nearest!More
      BY <1>0 DEF Nearest!More
    <3> QED
      BY <1>0, <3>1, <3>2 DEF LanePages, ReadTo
  <2>1. page = <<>> /\ \A c : ~Listed(c, page)
    <3>1. page = <<>> /\ Len(<<>>) = 0
      BY <1>0
    <3> QED
      BY <3>1 DEF Listed
  <2>2. PageTo(offset + size)
    BY <1>0 DEF LanePages
  <2>3. \A k \in 1..Len(index) : k <= offset' /\ Listed(index[k], first) => index[k] \in seen
    BY <1>0, <2>1, <2>2 DEF PageTo
  <2>4. ASSUME lane' = "done" PROVE \A c \in Chunks : Listed(c, first) => c \in seen
    <3>1. size # Batch
      BY <2>4, <1>0, <1>1
    <3>2. ~(RawLimit <= examined + Len(page))
      <4>1. examined < RawLimit /\ Len(page) = 0
        BY <2>1 DEF Nearest!More
      <4> QED
        BY <4>1, <1>1
    <3> QED
      BY <1>0, <2>1, <3>1, <3>2 DEF LanePages
  <2> QED
    BY <2>3, <2>4
<1> QED
  BY <1>2, <1>3, <1>4, <1>5, <1>6

LEMMA LaneSteps ==
  ASSUME Nearest!LaneAssumption, LaneInv, Nearest!Next
  PROVE  LaneInv'
<1>1. ASSUME NEW c \in Chunks, Nearest!Upsert(c) \/ Nearest!Mark(c) PROVE LaneInv'
  BY <1>1, LaneUpsert, LaneMark
<1>2. CASE Nearest!Drop \/ Nearest!Skip \/ Nearest!Links \/ Nearest!Enough \/ Nearest!Fails
  BY <1>2, LaneDrop, LaneEnds, LaneLinked
<1>3. CASE Nearest!Search \/ Nearest!Look \/ Nearest!Turn
  BY <1>3, LaneSearch, LaneLook, LaneTurn
<1> QED
  BY <1>1, <1>2, <1>3 DEF Nearest!Next

\* What the invariant says of the hits.
LEMMA LaneGives ==
  ASSUME LaneInv
  PROVE  Nearest!TypeOK /\ Nearest!OwnOnly /\ Nearest!BestFirst /\ Nearest!Complete
<1> USE DEF LaneInv
<1>1. kept \in Seq(Chunks) /\ DOMAIN kept = 1..Len(kept) /\ first \in Seq(Chunks) /\ links \subseteq Chunks
  BY DEF LaneTyped
<1>2. Nearest!TypeOK
  BY <1>1 DEF Nearest!TypeOK, LaneTyped, LaneCount, LaneSeen, Plain
<1>3. Nearest!OwnOnly
  <2> SUFFICES ASSUME NEW i \in 1..Len(kept) PROVE kind[kept[i]] = "ready" /\ Listed(kept[i], first)
    BY <1>1, InToSet DEF Nearest!OwnOnly
  <2>1. kept[i] \in links /\ kind[kept[i]] = "ready"
    BY DEF LaneSeen
  <2>2. kept # <<>>
    BY <1>1
  <2> QED
    BY <2>1, <2>2 DEF LaneFirst
<1>4. Nearest!Complete
  <2> SUFFICES ASSUME lane = "done", ~gone, Nearest!More, NEW c \in Chunks, Nearest!Could(c) PROVE Listed(c, kept)
    BY <1>1, InToSet DEF Nearest!Complete
  <2>1. c \in links /\ Listed(c, first)
    BY DEF Nearest!Could, LaneFirst
  <2>2. c \in seen
    BY <2>1 DEF LanePages
  <2> QED
    BY <2>2 DEF LaneSeen
<1> QED
  BY <1>2, <1>3, <1>4

-----------------------------------------------------------------------------
(* The parts of a question: the one that runs is chosen at the start.      *)
NearestInv == part = "vector" => LaneInv

\* The vector lane gives the nearest ready chunks of its own generation, none skipped or repeated at
\* the turn of a page, however many chunks there are and whatever is added meanwhile (answer.py).
THEOREM NearestComeFirst == SearchSpec => []NearestFirst
<1>1. SearchInit => NearestInv
  BY SearchAssumption, LaneBegins DEF SearchInit, NearestInv
<1>2. NearestInv /\ [SearchNext]_allVars => NearestInv'
  <2> SUFFICES ASSUME NearestInv, [SearchNext]_allVars, part' = "vector" PROVE LaneInv'
    BY DEF NearestInv
  <2>1. part = "vector" /\ LaneInv
    BY DEF NearestInv, SearchNext, PlanStep, VectorStep, GraphStep, FusionStep, ChoiceStep, BodyStep, FollowStep, allVars
  <2>2. Nearest!Next \/ UNCHANGED nearestVars
    BY <2>1 DEF SearchNext, PlanStep, VectorStep, GraphStep, FusionStep, ChoiceStep, BodyStep, FollowStep, allVars
  <2>3. CASE Nearest!Next
    BY <2>1, <2>3, LaneSteps, SearchAssumption
  <2>4. CASE UNCHANGED nearestVars
    BY <2>1, <2>4 DEF LaneInv, LaneTyped, LaneCount, LaneStart, LaneIndex, LaneLinks, LaneFirst, LaneSeen, LanePages,
      ReadTo, PageTo, NoneNearer, nearestVars, Nearest!More, Nearest!Could, Nearest!Nearer, Nearest!BestFirst
  <2> QED
    BY <2>2, <2>3, <2>4
<1>3. NearestInv => NearestFirst
  BY LaneGives DEF NearestInv, NearestFirst
<1> QED
  BY <1>1, <1>2, <1>3, PTL DEF SearchSpec

-----------------------------------------------------------------------------
(* The plan of a question.                                                 *)

\* The index has a verified call.
HasVerified == \E f \in repo : \E k \in DOMAIN f.calls : f.calls[k] = "resolved"
Unmeasured == [f \in Planned!Facets |-> "UNKNOWN"]

PlanTyped ==
  /\ repo \subseteq Files /\ words \subseteq Words /\ pc \in {"index", "load", "build", "ground", "done"}
  /\ pc \in {"index", "load"} => profile = Planned!NoProfile
  /\ pc \in {"index", "load", "build"} => plan = Planned!NoPlan
PlanRow ==
  pc # "index" => \/ row.generation \in {"own", "other"} /\ row.report = Planned!Report
                  \/ row.generation \in {"none", "corrupt"}

\* What is read from the report, or from none.
PlanProfile ==
  pc \in {"build", "ground", "done"} =>
    /\ profile.facets \in [Planned!Facets -> Planned!States]
    /\ profile.facets["database"] # "UNSUPPORTED"
    /\ profile.facets["calls"] \in {"SUPPORTED", "PARTIAL"} => HasVerified
    /\ row.generation = "other" => profile.facets = Unmeasured

\* What the plan makes of it: only a stage of the frontend can be blocked.
PlanLists ==
  pc \in {"ground", "done"} =>
    /\ plan.stages \cup plan.na \cup plan.blocked = Planned!Stages
    /\ plan.stages \cap plan.na = {} /\ plan.stages \cap plan.blocked = {} /\ plan.na \cap plan.blocked = {}
    /\ plan.blocked # {} => profile.facets["frontend"] = "NOT_APPLICABLE" /\ plan.blocked \subseteq Planned!FrontendStages
    /\ plan.strategies = Planned!Strategies(plan.stages)
    /\ profile.facets = Unmeasured => plan.blocked = {} /\ plan.stages = Planned!Wanted(words)

PlanInv == PlanTyped /\ PlanRow /\ PlanProfile /\ PlanLists

-----------------------------------------------------------------------------
LEMMA CoverageIsMeasured ==
  ASSUME NEW lang, Planned!Coverage(lang) \in {"partial", "supported"}
  PROVE  HasVerified
<1>1. Planned!Verified(lang) # 0
  BY DEF Planned!Coverage
<1> DEFINE sites == {s \in Planned!Sites(lang) : Planned!Resolution(s) = "resolved"}
<1>2. sites # {}
  <2>1. Planned!Cardinality({}) = 0
    <3>1. \A S : Planned!Cardinality(S) = Cardinality(S)
      BY DEF Planned!Cardinality, Cardinality
    <3> QED
      BY <3>1, FS_EmptySet
  <2> QED
    BY <1>1, <2>1 DEF Planned!Verified
<1>3. PICK f \in repo : \E k \in DOMAIN f.calls : Planned!Resolution(<<f, k>>) = "resolved"
  BY <1>2 DEF Planned!Sites
<1> QED
  BY <1>3 DEF Planned!Resolution, HasVerified

\* An entry never reads as unknown, and as verified only when it is.
LEMMA EntryReads ==
  ASSUME Planned!CapabilityAssumption, NEW lang
  PROVE  /\ Planned!Read(Planned!Entry(lang)) # "unknown"
         /\ Planned!Read(Planned!Entry(lang)) \in {"partial", "supported"} => HasVerified
<1> DEFINE e == Planned!Entry(lang)
           c == Planned!Coverage(lang)
<1>1. /\ e.level = Planned!Effective(lang) /\ e.resolves = (c \in {"partial", "supported"})
      /\ e.coverage = IF Planned!Adapter(lang) >= 3 \/ Planned!Total(lang) > 0 THEN c ELSE "unknown"
  BY DEF Planned!Entry
<1>2. c \in {"no_sites", "unsupported", "zero_verified", "partial", "supported"}
  BY DEF Planned!Coverage
<1>3. Planned!Adapter(lang) \in Nat
  BY DEF Planned!Adapter, Planned!CapabilityAssumption
<1>4. e.coverage = "unknown" => e.level < 3
  BY <1>1, <1>2, <1>3 DEF Planned!Effective
<1>5. c \in {"partial", "supported"} => HasVerified
  BY CoverageIsMeasured
<1> HIDE DEF e, c
<1> QED
  BY <1>1, <1>2, <1>4, <1>5 DEF Planned!Read, e

LEMMA CallsAreVerified ==
  ASSUME Planned!CapabilityAssumption,
         Planned!CallsFacet(Planned!Report.languages) \in {"SUPPORTED", "PARTIAL"}
  PROVE  HasVerified
<1> DEFINE entries == Planned!Report.languages
           reads == Planned!MeasuredCalls(entries)
<1>1. ~(reads \subseteq {"unknown"}) /\ ~(reads # {} /\ reads \subseteq {"unsupported", "zero_verified"})
  BY DEF Planned!CallsFacet
<1>2. PICK r \in reads : r \notin {"unsupported", "zero_verified"}
  BY <1>1
<1>3. PICK lang : r = Planned!Read(Planned!Entry(lang)) /\ r # "no_sites"
  BY <1>2 DEF Planned!MeasuredCalls, Planned!Code, Planned!Report
<1>4. r \in {"unknown", "no_sites", "unsupported", "zero_verified", "partial", "supported"}
  BY <1>3 DEF Planned!Read, Planned!Entry, Planned!Coverage
<1> QED
  BY <1>2, <1>3, <1>4, EntryReads

-----------------------------------------------------------------------------
LEMMA FacetsAreStates ==
  ASSUME NEW report
  PROVE  /\ Planned!FacetsOf(report) \in [Planned!Facets -> Planned!States]
         /\ Planned!FacetsOf(report).database # "UNSUPPORTED"
         /\ Planned!FacetsOf(report).calls = Planned!CallsFacet(report.languages)
<1> DEFINE f == Planned!FacetsOf(report)
<1>1. /\ Planned!CallsFacet(report.languages) \in Planned!States
      /\ \A langs : Planned!MultiFacet(langs) \in Planned!States
      /\ \A langs, fs : Planned!FrontendFacet(langs, fs) \in Planned!States
  BY DEF Planned!CallsFacet, Planned!MultiFacet, Planned!FrontendFacet, Planned!States
<1> DEFINE entries == report.languages
           code    == {e.language : e \in Planned!Code(entries)}
           http    == IF report.frameworks # {} THEN "SUPPORTED" ELSE "NOT_APPLICABLE"
           multi   == Planned!MultiFacet(code)
           callz   == Planned!CallsFacet(entries)
           top     == Planned!Max({0} \union {e.level : e \in entries})
           protocol == CASE multi = "NOT_APPLICABLE" -> "NOT_APPLICABLE"
                      [] multi # "NOT_APPLICABLE" /\ http = "SUPPORTED" -> "PARTIAL"
                      [] OTHER -> "UNSUPPORTED"
           database == IF code = {} THEN "NOT_APPLICABLE" ELSE "UNKNOWN"
           frontend == Planned!FrontendFacet({e.language : e \in entries}, report.frameworks)
           tracing == CASE top >= 3 /\ callz \in {"SUPPORTED", "PARTIAL"} -> "SUPPORTED"
                     [] top < 3 /\ top = 0 /\ code = {} -> "UNSUPPORTED"
                     [] OTHER -> "PARTIAL"
<1>2. f = [calls |-> callz, http |-> http, multi |-> multi, protocol |-> protocol, database |-> database,
           frontend |-> frontend, tracing |-> tracing]
  BY DEF Planned!FacetsOf
<1>3. /\ http \in Planned!States /\ protocol \in Planned!States /\ database \in Planned!States
      /\ tracing \in Planned!States /\ database # "UNSUPPORTED"
  BY DEF Planned!States
<1>4. multi \in Planned!States /\ callz \in Planned!States /\ frontend \in Planned!States
  BY <1>1
<1> HIDE DEF http, multi, protocol, database, frontend, tracing, callz, f
<1>5. f \in [Planned!Facets -> Planned!States] /\ f.database = database /\ f.calls = callz
  BY <1>2, <1>3, <1>4 DEF Planned!Facets
<1> QED
  BY <1>3, <1>5 DEF f, callz

LEMMA PlanLoads ==
  ASSUME Planned!CapabilityAssumption, PlanInv, Planned!Load
  PROVE  PlanInv'
<1> USE DEF PlanInv
<1>0. /\ UNCHANGED <<repo, frameworks, row, words, plan>> /\ pc = "load" /\ pc' = "build"
      /\ profile' = IF row.generation \in {"none", "corrupt"} THEN Planned!Fallback ELSE Planned!FromRow(row)
  BY DEF Planned!Load
<1>1. PlanTyped' /\ PlanLists'
  BY <1>0 DEF PlanTyped, PlanLists
<1>2. PlanRow'
  BY <1>0 DEF PlanRow, Planned!Report, Planned!Entry, Planned!Languages, Planned!Effective, Planned!Coverage, Planned!Total,
     Planned!Verified, Planned!Internal, Planned!Sites
<1>3. Unmeasured \in [Planned!Facets -> Planned!States] /\ Unmeasured["database"] = "UNKNOWN" /\ Unmeasured["calls"] = "UNKNOWN"
  BY DEF Unmeasured, Planned!Facets, Planned!States
<1>4. CASE row.generation \in {"none", "corrupt"}
  <2> DEFINE a == Planned!FrontendFacet(Planned!Languages, {})
             b == Planned!MultiFacet(Planned!Languages \ Prose)
  <2>1. profile'.facets = [[Unmeasured EXCEPT !["frontend"] = a] EXCEPT !["multi"] = b]
    BY <1>0, <1>4 DEF Planned!Fallback, Planned!UnknownProfile, Unmeasured
  <2>2. a \in Planned!States /\ b \in Planned!States
    BY DEF Planned!MultiFacet, Planned!FrontendFacet, Planned!States
  <2> HIDE DEF a, b
  <2>3. /\ profile'.facets \in [Planned!Facets -> Planned!States]
        /\ profile'.facets["database"] = "UNKNOWN" /\ profile'.facets["calls"] = "UNKNOWN"
    BY <2>1, <2>2, <1>3 DEF Planned!Facets
  <2>4. PlanProfile'
    BY <1>0, <1>4, <2>3 DEF PlanProfile
  <2> QED
    BY <1>1, <1>2, <2>4
<1>5. CASE row.generation = "own"
  <2>1. profile'.facets = Planned!FacetsOf(Planned!Report)
    BY <1>0, <1>5 DEF PlanRow, Planned!FromRow, Planned!FromReport, Planned!Own
  <2>2. /\ profile'.facets \in [Planned!Facets -> Planned!States] /\ profile'.facets["database"] # "UNSUPPORTED"
        /\ profile'.facets["calls"] = Planned!CallsFacet(Planned!Report.languages)
    BY <2>1, FacetsAreStates
  <2>3. profile'.facets["calls"] \in {"SUPPORTED", "PARTIAL"} => HasVerified
    BY <2>2, CallsAreVerified
  <2>4. HasVerified' <=> HasVerified
    BY <1>0 DEF HasVerified
  <2>5. PlanProfile'
    BY <1>0, <1>5, <2>2, <2>3, <2>4 DEF PlanProfile
  <2> QED
    BY <1>1, <1>2, <2>5
<1>6. CASE row.generation = "other"
  <2>1. profile'.facets = Unmeasured
    BY <1>0, <1>6 DEF Planned!FromRow, Planned!UnknownProfile, Planned!Own, Unmeasured
  <2>2. PlanProfile'
    BY <1>0, <1>3, <2>1 DEF PlanProfile
  <2> QED
    BY <1>1, <1>2, <2>2
<1> QED
  BY <1>0, <1>4, <1>5, <1>6 DEF PlanRow

-----------------------------------------------------------------------------
LEMMA PlanBegins ==
  ASSUME Planned!Init
  PROVE  PlanInv
<1>1. repo \subseteq Files /\ pc = "index" /\ words = {} /\ profile = Planned!NoProfile /\ plan = Planned!NoPlan
  BY DEF Planned!Init, Planned!kSubset
<1> QED
  BY <1>1 DEF PlanInv, PlanTyped, PlanRow, PlanProfile, PlanLists

LEMMA PlanIndexed ==
  ASSUME PlanInv, Planned!Index
  PROVE  PlanInv'
<1>1. /\ UNCHANGED <<repo, frameworks, words, profile, plan>> /\ pc = "index" /\ pc' = "load"
      /\ \/ row'.generation \in {"own", "other"} /\ row'.report = Planned!Report
         \/ row'.generation \in {"none", "corrupt"}
  BY DEF Planned!Index, Planned!Kept, Planned!Own
<1>2. Planned!Report' = Planned!Report
  BY <1>1 DEF Planned!Report, Planned!Entry, Planned!Languages, Planned!Effective, Planned!Coverage, Planned!Total,
     Planned!Verified, Planned!Internal, Planned!Sites
<1> QED
  BY <1>1, <1>2 DEF PlanInv, PlanTyped, PlanRow, PlanProfile, PlanLists

\* The stages of a plan, sorted by what the profile says of them.
LEMMA Sorted ==
  ASSUME NEW p, NEW asked, profile.facets["database"] # "UNSUPPORTED",
         p.stages \subseteq Planned!Stages
  PROVE  LET r == Planned!Apply(p, asked)
             no == profile.facets["frontend"] = "NOT_APPLICABLE"
             cannot == {key \in p.stages : key \in Planned!FrontendStages /\ no}
         IN /\ r.blocked = {key \in cannot : Planned!Requires(asked, key)}
            /\ r.stages = p.stages \ cannot
            /\ no => r.na = (p.na \cup (Planned!FrontendStages \ r.blocked)) \ r.stages
            /\ ~no => r.na = p.na \ r.stages
            /\ r.strategies = Planned!Strategies(r.stages)
<1> DEFINE r == Planned!Apply(p, asked)
           v(key) == Planned!Verdict(key, asked)
           cannot == {key \in p.stages : key \in Planned!FrontendStages /\ profile.facets["frontend"] = "NOT_APPLICABLE"}
           judged == [key \in p.stages |-> v(key)]
           barred == {key \in p.stages : judged[key] = "blocked_unsupported"}
           kept1 == {key \in p.stages : judged[key] \notin {"blocked_unsupported", "not_applicable"}}
           idle == Planned!Idle(kept1, barred)
           nots == {key \in p.stages : judged[key] = "not_applicable"}
<1>1. /\ r.stages = kept1 /\ r.blocked = barred /\ r.na = (p.na \cup idle \cup nots) \ kept1
      /\ r.strategies = Planned!Strategies(kept1)
  BY DEF Planned!Apply
<1>2. \A key : Planned!Requires(asked, key) \in BOOLEAN
  BY DEF Planned!Requires
<1>3. ASSUME NEW key \in p.stages
      PROVE  /\ v(key) = "blocked_unsupported" <=> key \in cannot /\ Planned!Requires(asked, key)
             /\ v(key) = "not_applicable" <=> key \in cannot /\ ~Planned!Requires(asked, key)
  BY <1>2, <1>3 DEF Planned!Verdict
<1>4. /\ \A key \in p.stages : judged[key] = v(key)
  OBVIOUS
<1> HIDE DEF v, judged
<1>5. /\ barred = {key \in cannot : Planned!Requires(asked, key)} /\ kept1 = p.stages \ cannot
      /\ nots = {key \in cannot : ~Planned!Requires(asked, key)}
  BY <1>2, <1>3, <1>4
<1> HIDE DEF kept1, barred, nots, r
<1>6. CASE profile.facets["frontend"] = "NOT_APPLICABLE"
  <2>1. idle = (Planned!FrontendStages \ kept1) \ barred
    BY <1>6 DEF Planned!Idle
  <2>2. nots \subseteq Planned!FrontendStages /\ nots \cap barred = {} /\ nots \cap kept1 = {}
    BY <1>5
  <2>3. r.na = (p.na \cup (Planned!FrontendStages \ barred)) \ kept1
    BY <1>1, <2>1, <2>2
  <2> QED
    BY <1>1, <1>5, <1>6, <2>3 DEF r
<1>7. CASE profile.facets["frontend"] # "NOT_APPLICABLE"
  <2>1. idle = {} /\ nots = {}
    BY <1>5, <1>7 DEF Planned!Idle
  <2> QED
    BY <1>1, <1>5, <1>7, <2>1 DEF r
<1> QED
  BY <1>6, <1>7

LEMMA WantedAreStages ==
  ASSUME Planned!CapabilityAssumption, NEW asked \in SUBSET Words
  PROVE  Planned!Wanted(asked) \subseteq Planned!Stages
  BY DEF Planned!CapabilityAssumption, Planned!Wanted, Planned!Stages

LEMMA PlanBuilt ==
  ASSUME Planned!CapabilityAssumption, PlanInv, Planned!Build
  PROVE  PlanInv'
<1> USE DEF PlanInv
<1>1. /\ UNCHANGED <<repo, frameworks, row, profile>> /\ pc = "build" /\ pc' = "ground"
  BY DEF Planned!Build
<1>2. PICK asked \in SUBSET Words :
        /\ words' = asked
        /\ plan' = Planned!Apply([Planned!NoPlan EXCEPT !.stages = Planned!Wanted(asked),
                                                        !.na = Planned!Stages \ Planned!Wanted(asked)], asked)
  BY DEF Planned!Build, Planned!kSubset
<1> DEFINE w == Planned!Wanted(asked)
           p == [Planned!NoPlan EXCEPT !.stages = w, !.na = Planned!Stages \ w]
           no == profile.facets["frontend"] = "NOT_APPLICABLE"
           cannot == {key \in w : key \in Planned!FrontendStages /\ no}
<1>3. p.stages = w /\ p.na = Planned!Stages \ w /\ w \subseteq Planned!Stages
  BY WantedAreStages DEF Planned!NoPlan
<1>4. /\ profile.facets["database"] # "UNSUPPORTED" /\ Planned!FrontendStages \subseteq Planned!Stages
  BY <1>1 DEF PlanProfile, Planned!FrontendStages, Planned!Stages
<1>5. plan' = Planned!Apply(p, asked)
  BY <1>2
<1> HIDE DEF p, w
<1>6. /\ plan'.blocked = {key \in cannot : Planned!Requires(asked, key)}
      /\ plan'.stages = w \ cannot
      /\ no => plan'.na = ((Planned!Stages \ w) \cup (Planned!FrontendStages \ plan'.blocked)) \ plan'.stages
      /\ ~no => plan'.na = (Planned!Stages \ w) \ plan'.stages
      /\ plan'.strategies = Planned!Strategies(plan'.stages)
  BY <1>3, <1>4, <1>5, Sorted
<1>7. cannot \subseteq Planned!FrontendStages /\ cannot \subseteq w /\ (~no => cannot = {})
  OBVIOUS
<1>8. plan'.stages \cup plan'.na \cup plan'.blocked = Planned!Stages
  <2>1. CASE no
    BY <2>1, <1>3, <1>4, <1>6, <1>7
  <2>2. CASE ~no
    BY <2>2, <1>3, <1>4, <1>6, <1>7
  <2> QED
    BY <2>1, <2>2
<1>9. plan'.stages \cap plan'.na = {} /\ plan'.stages \cap plan'.blocked = {} /\ plan'.na \cap plan'.blocked = {}
  <2>1. CASE no
    BY <2>1, <1>6, <1>7
  <2>2. CASE ~no
    BY <2>2, <1>6, <1>7
  <2> QED
    BY <2>1, <2>2
<1>10. plan'.blocked # {} => no /\ plan'.blocked \subseteq Planned!FrontendStages
  BY <1>6, <1>7
<1>11. profile.facets = Unmeasured => plan'.blocked = {} /\ plan'.stages = w
  <2>1. Unmeasured["frontend"] = "UNKNOWN"
    BY DEF Unmeasured, Planned!Facets
  <2> QED
    BY <2>1, <1>6, <1>7
<1>12. PlanTyped' /\ PlanRow' /\ PlanProfile'
  <2>1. Planned!Report' = Planned!Report
    BY <1>1 DEF Planned!Report, Planned!Entry, Planned!Languages, Planned!Effective, Planned!Coverage, Planned!Total,
       Planned!Verified, Planned!Internal, Planned!Sites
  <2> QED
    BY <1>1, <1>2, <2>1 DEF PlanTyped, PlanRow, PlanProfile, HasVerified
<1>13. Planned!Strategies(plan.stages)' = Planned!Strategies(plan'.stages)
  BY <1>1 DEF Planned!Strategies
<1>14. PlanLists'
  BY <1>1, <1>2, <1>6, <1>8, <1>9, <1>10, <1>11, <1>13 DEF PlanLists, w
<1> QED
  BY <1>12, <1>14

LEMMA PlanGrounded ==
  ASSUME Planned!CapabilityAssumption, PlanInv, Planned!Ground
  PROVE  PlanInv'
<1> USE DEF PlanInv
<1>1. /\ UNCHANGED <<repo, frameworks, row, words, profile>> /\ pc = "ground" /\ pc' = "done"
      /\ plan' = Planned!Apply(plan, {})
  BY DEF Planned!Ground
<1> DEFINE no == profile.facets["frontend"] = "NOT_APPLICABLE"
           cannot == {key \in plan.stages : key \in Planned!FrontendStages /\ no}
<1>2. /\ plan.stages \cup plan.na \cup plan.blocked = Planned!Stages
      /\ plan.stages \cap plan.na = {}
      /\ plan.blocked # {} => no /\ plan.blocked \subseteq Planned!FrontendStages
      /\ profile.facets = Unmeasured => plan.stages = Planned!Wanted(words)
  BY <1>1 DEF PlanLists
<1>3. /\ profile.facets["database"] # "UNSUPPORTED" /\ Planned!FrontendStages \subseteq Planned!Stages
  BY <1>1 DEF PlanProfile, Planned!FrontendStages, Planned!Stages
<1>4. \A key : Planned!Requires({}, key) = FALSE
  BY DEF Planned!Requires
<1>5. /\ plan'.blocked = {key \in cannot : Planned!Requires({}, key)}
      /\ plan'.stages = plan.stages \ cannot
      /\ no => plan'.na = (plan.na \cup (Planned!FrontendStages \ plan'.blocked)) \ plan'.stages
      /\ ~no => plan'.na = plan.na \ plan'.stages
      /\ plan'.strategies = Planned!Strategies(plan'.stages)
  BY <1>1, <1>2, <1>3, Sorted
<1>6. plan'.blocked = {} /\ cannot \subseteq Planned!FrontendStages /\ (~no => cannot = {})
  BY <1>4, <1>5
<1>7. plan'.stages \cup plan'.na = Planned!Stages /\ plan'.stages \cap plan'.na = {}
  <2>1. CASE no
    BY <2>1, <1>2, <1>3, <1>5, <1>6
  <2>2. CASE ~no
    BY <2>2, <1>2, <1>5, <1>6
  <2> QED
    BY <2>1, <2>2
<1>8. profile.facets = Unmeasured => plan'.stages = Planned!Wanted(words)
  <2>1. Unmeasured["frontend"] = "UNKNOWN"
    BY DEF Unmeasured, Planned!Facets
  <2> QED
    BY <2>1, <1>2, <1>5, <1>6
<1>9. PlanTyped' /\ PlanRow' /\ PlanProfile'
  <2>1. Planned!Report' = Planned!Report
    BY <1>1 DEF Planned!Report, Planned!Entry, Planned!Languages, Planned!Effective, Planned!Coverage, Planned!Total,
       Planned!Verified, Planned!Internal, Planned!Sites
  <2> QED
    BY <1>1, <2>1 DEF PlanTyped, PlanRow, PlanProfile, HasVerified
<1>10. Planned!Strategies(plan.stages)' = Planned!Strategies(plan'.stages)
  BY <1>1 DEF Planned!Strategies
<1>11. PlanLists'
  BY <1>1, <1>5, <1>6, <1>7, <1>8, <1>10 DEF PlanLists
<1> QED
  BY <1>9, <1>11

LEMMA PlanGives ==
  ASSUME PlanInv
  PROVE  Planned!TypeOK /\ Planned!FollowsVerified /\ Planned!OwnReportOnly /\ Planned!OneList
<1> USE DEF PlanInv
<1>1. Planned!OneList
  BY DEF PlanLists, Planned!OneList, Planned!Planned
<1>2. Planned!TypeOK
  <2>1. profile.facets # <<>> => profile.facets \in [Planned!Facets -> Planned!States]
    <3>1. pc \in {"index", "load"} => profile.facets = <<>>
      <4>1. Planned!NoProfile.facets = <<>>
        BY DEF Planned!NoProfile
      <4> QED
        BY <4>1 DEF PlanTyped
    <3>2. pc \in {"build", "ground", "done"} => profile.facets \in [Planned!Facets -> Planned!States]
      BY DEF PlanProfile
    <3> QED
      BY <3>1, <3>2 DEF PlanTyped
  <2>2. plan.stages \cup plan.na \cup plan.blocked \subseteq Planned!Stages
    BY DEF PlanTyped, PlanLists, Planned!NoPlan
  <2> QED
    BY <2>1, <2>2 DEF PlanTyped, Planned!TypeOK
<1>3. Planned!FollowsVerified
  <2> SUFFICES ASSUME pc \in {"ground", "done"}, "follow_verified_calls" \in plan.strategies PROVE HasVerified
    BY DEF Planned!FollowsVerified, Planned!Planned, HasVerified
  <2>1. "follow_verified_calls" \in Planned!Strategies(plan.stages)
    BY DEF PlanLists
  <2>2. profile.facets.calls \in {"SUPPORTED", "PARTIAL"}
    BY <2>1 DEF Planned!Strategies
  <2> QED
    BY <2>2 DEF PlanProfile
<1>4. Planned!OwnReportOnly
  <2> SUFFICES ASSUME pc \in {"ground", "done"}, row.generation = "other"
               PROVE  /\ plan.blocked = {} /\ plan.stages = Planned!Wanted(words)
                      /\ plan.strategies \cap {"follow_verified_calls", "discover_http_routes", "follow_protocol_links"} = {}
    BY DEF Planned!OwnReportOnly, Planned!Planned
  <2>1. profile.facets = Unmeasured
    BY DEF PlanProfile
  <2>2. /\ profile.facets.calls = "UNKNOWN" /\ profile.facets.http = "UNKNOWN" /\ profile.facets.protocol = "UNKNOWN"
        /\ plan.strategies = Planned!Strategies(plan.stages)
    BY <2>1 DEF Unmeasured, Planned!Facets, PlanLists
  <2>3. plan.strategies \cap {"follow_verified_calls", "discover_http_routes", "follow_protocol_links"} = {}
    BY <2>2 DEF Planned!Strategies
  <2> QED
    BY <2>1, <2>3 DEF PlanLists
<1> QED
  BY <1>1, <1>2, <1>3, <1>4

PlannedInv == part = "plan" => PlanInv

\* A plan follows verified calls only where the index has one, rests on no other generation's report and
\* lists each stage once, for all files, words and languages (capability_profile.py, execution_trace.py).
THEOREM PlansAreMeasured == SearchSpec => []PlanIsMeasured
<1>1. SearchInit => PlannedInv
  BY PlanBegins DEF SearchInit, PlannedInv
<1>2. PlannedInv /\ [SearchNext]_allVars => PlannedInv'
  <2> SUFFICES ASSUME PlannedInv, [SearchNext]_allVars, part' = "plan" PROVE PlanInv'
    BY DEF PlannedInv
  <2>1. part = "plan" /\ PlanInv
    BY DEF PlannedInv, SearchNext, PlanStep, VectorStep, GraphStep, FusionStep, ChoiceStep, BodyStep, FollowStep, allVars
  <2>2. Planned!Next \/ UNCHANGED plansVars
    BY <2>1 DEF SearchNext, PlanStep, VectorStep, GraphStep, FusionStep, ChoiceStep, BodyStep, FollowStep, allVars
  <2>3. CASE Planned!Next
    BY <2>1, <2>3, SearchAssumption, PlanIndexed, PlanLoads, PlanBuilt, PlanGrounded DEF Planned!Next
  <2>4. CASE UNCHANGED plansVars
    BY <2>1, <2>4 DEF PlanInv, PlanTyped, PlanRow, PlanProfile, PlanLists, HasVerified, plansVars, Planned!Strategies, 
      Planned!Report, Planned!Entry, Planned!Languages, Planned!Effective, Planned!Coverage, Planned!Total,
      Planned!Verified, Planned!Internal, Planned!Sites
  <2> QED
    BY <2>2, <2>3, <2>4
<1>3. PlannedInv => PlanIsMeasured
  BY PlanGives DEF PlannedInv, PlanIsMeasured
<1> QED
  BY <1>1, <1>2, <1>3, PTL DEF SearchSpec

-----------------------------------------------------------------------------
(* The walk over the graph.                                                *)
Beyond(S) == S \cup {n \in Walked!Nodes : Walked!IsSymbol(n) /\
               \E e \in graph : Walked!Leads(e) /\ n \in {e.from, e.to} /\ {e.from, e.to} \cap S # {}}
End == Walked!Cap(hops)
\* Everything that is next to S is in V.
Closed(S, V) ==
  \A e \in graph : \A n \in Walked!Nodes :
    Walked!Leads(e) /\ Walked!IsSymbol(n) /\ n \in {e.from, e.to} /\ {e.from, e.to} \cap S # {} => n \in V

WalkTyped ==
  /\ turn \in {"start", "query", "select", "done"} /\ walk \in {"edges", "neighbors"}
  /\ graph \subseteq Pool /\ anchors \in Inputs /\ hops \in Nat /\ hop \in Nat /\ hop <= End
  /\ frontier \subseteq visited /\ visited \subseteq Walked!Nodes
  /\ turn = "start" => hop = 0 /\ visited = {} /\ rows = {} /\ found = {}
  /\ turn \in {"query", "select"} => Walked!Seeds \subseteq visited
  /\ turn = "query" /\ hop = 0 => visited = Walked!Seeds
WalkNeighbors ==
  walk = "neighbors" =>
    /\ \A i \in DOMAIN anchors : Walked!IsSymbol(anchors[i])
    /\ found \subseteq visited /\ \A n \in found : Walked!IsSymbol(n)
    /\ turn \in {"query", "select"} => found = visited \ Walked!Seeds
    /\ Cardinality(found) <= WalkLimit
WalkRows ==
  walk = "edges" =>
    /\ rows \subseteq {r \in Pool \X Walked!Nodes : r[2] \in {r[1].from, r[1].to}}
    /\ turn # "done" => found = {}
    /\ turn = "done" => found = Walked!Best(Walked!Accepted(rows))
WalkReach ==
  ~dropped =>
    /\ turn # "start" => visited \subseteq Walked!Reach[hop]
    /\ walk = "edges" /\ turn = "query" => rows = Walked!Rows(visited \ frontier)
    /\ walk = "edges" /\ turn \in {"select", "done"} => rows = Walked!Rows(visited)
WalkWhole ==
  ~dropped /\ ~cut =>
    /\ turn = "query" => visited = Walked!Reach[hop] /\ Closed(visited \ frontier, visited)
    /\ turn = "select" => visited = Walked!Reach[End]
    /\ turn = "done" /\ anchors # <<>> =>
         IF walk = "edges" THEN visited = Walked!Reach[End]
         ELSE Cardinality(found) = WalkLimit \/ hops < 1 \/ (visited = Walked!Reach[End] /\ found = visited \ Walked!Seeds)

WalkInv == WalkTyped /\ WalkNeighbors /\ WalkRows /\ WalkReach /\ WalkWhole

-----------------------------------------------------------------------------
(* The first of a set in an order.                                         *)
Below(S, R, r) == {q \in S : <<q, r>> \in R}
TopOf(S, R, n) == {r \in S : Cardinality(Below(S, R, r)) < n}
Orders(R, S) ==
  /\ \A p \in S : <<p, p>> \notin R
  /\ \A p, q, r \in S : <<p, q>> \in R /\ <<q, r>> \in R => <<p, r>> \in R
  /\ \A p, q \in S : p # q => <<p, q>> \in R \/ <<q, p>> \in R

LEMMA BelowCounts ==
  ASSUME NEW S, IsFiniteSet(S), NEW R, Orders(R, S)
  PROVE  /\ \A r \in S : Cardinality(Below(S, R, r)) \in 0..Cardinality(S) - 1
         /\ \A p, r \in S : <<p, r>> \in R => Cardinality(Below(S, R, p)) < Cardinality(Below(S, R, r))
<1>1. \A r \in S : IsFiniteSet(Below(S, R, r)) /\ Cardinality(Below(S, R, r)) \in Nat
  <2>1. \A r \in S : Below(S, R, r) \subseteq S
    BY DEF Below
  <2> QED
    BY <2>1, FS_Subset, FS_CardinalityType
<1>2. ASSUME NEW r \in S PROVE Cardinality(Below(S, R, r)) \in 0..Cardinality(S) - 1
  <2>1. Below(S, R, r) \subseteq S \ {r}
    BY DEF Below, Orders
  <2>2. IsFiniteSet(S \ {r}) /\ Cardinality(S \ {r}) = Cardinality(S) - 1 /\ Cardinality(S) \in Nat
    BY FS_RemoveElement, FS_CardinalityType
  <2>3. Cardinality(Below(S, R, r)) <= Cardinality(S \ {r})
    BY <2>1, <2>2, FS_Subset
  <2> QED
    BY <1>1, <2>2, <2>3
<1>3. ASSUME NEW p \in S, NEW r \in S, <<p, r>> \in R
      PROVE  Cardinality(Below(S, R, p)) < Cardinality(Below(S, R, r))
  <2>1. Below(S, R, p) \cup {p} \subseteq Below(S, R, r) /\ p \notin Below(S, R, p)
    BY <1>3 DEF Below, Orders
  <2>2. Cardinality(Below(S, R, p) \cup {p}) = Cardinality(Below(S, R, p)) + 1
    BY <1>1, <2>1, FS_AddElement
  <2>3. Cardinality(Below(S, R, p) \cup {p}) <= Cardinality(Below(S, R, r))
    BY <1>1, <2>1, FS_Subset
  <2> QED
    BY <1>1, <2>2, <2>3
<1> QED
  BY <1>2, <1>3

LEMMA Numbers == \A j \in Nat : IsFiniteSet(0..j - 1) /\ Cardinality(0..j - 1) = j
<1>1. ASSUME NEW j \in Nat PROVE IsFiniteSet(0..j - 1) /\ Cardinality(0..j - 1) = j
  <2>1. 0 \in Int /\ j - 1 \in Int
    OBVIOUS
  <2>2. IsFiniteSet(0..j - 1) /\ Cardinality(0..j - 1) = IF 0 > j - 1 THEN 0 ELSE (j - 1) - 0 + 1
    BY <2>1, FS_Interval
  <2> QED
    BY <2>2
<1> QED
  BY <1>1

\* In an order, each has a rank of its own.
RankOf(S, R) == [r \in S |-> Cardinality(Below(S, R, r))]
LEMMA RanksAll ==
  ASSUME NEW S, IsFiniteSet(S), NEW R, Orders(R, S)
  PROVE  LET rank == RankOf(S, R) IN
         /\ rank \in [S -> 0..Cardinality(S) - 1]
         /\ \A p, r \in S : <<p, r>> \in R => rank[p] < rank[r]
         /\ \A p, r \in S : p # r => rank[p] # rank[r]
         /\ \A k \in 0..Cardinality(S) - 1 : \E r \in S : rank[r] = k
<1> DEFINE m == Cardinality(S)
           rank == RankOf(S, R)
<1>1. m \in Nat
  BY FS_CardinalityType
<1>2. /\ rank \in [S -> 0..m - 1]
      /\ \A r \in S : rank[r] = Cardinality(Below(S, R, r))
  BY BelowCounts DEF RankOf
<1>3. \A p, r \in S : <<p, r>> \in R => rank[p] < rank[r]
  BY <1>2, BelowCounts
<1> HIDE DEF rank
<1>4. \A p, r \in S : p # r => rank[p] # rank[r]
  <2>1. \A r \in S : rank[r] \in Nat
    BY <1>2, <1>1
  <2> SUFFICES ASSUME NEW p \in S, NEW r \in S, p # r PROVE rank[p] # rank[r]
    OBVIOUS
  <2>2. <<p, r>> \in R \/ <<r, p>> \in R
    BY DEF Orders
  <2> QED
    BY <1>3, <2>1, <2>2
<1>5. rank \in Injection(S, 0..m - 1)
  BY <1>2, <1>4 DEF Injection, IsInjective
<1>6. IsFiniteSet(0..m - 1) /\ Cardinality(0..m - 1) = m
  BY <1>1, Numbers
<1>7. rank \in Surjection(S, 0..m - 1)
  BY <1>1, <1>5, <1>6, FS_Injection
<1>8. \A k \in 0..m - 1 : \E r \in S : rank[r] = k
  BY <1>7 DEF Surjection
<1> QED
  BY <1>2, <1>3, <1>4, <1>8 DEF rank

\* The first n of a finite set are n, or all of it.
LEMMA TopCounts ==
  ASSUME NEW S, IsFiniteSet(S), NEW R, Orders(R, S), NEW n \in Nat
  PROVE  Cardinality(TopOf(S, R, n)) = IF n < Cardinality(S) THEN n ELSE Cardinality(S)
<1> DEFINE m == Cardinality(S)
           k == IF n < m THEN n ELSE m
           B == TopOf(S, R, n)
           rank == RankOf(S, R)
<1>1. m \in Nat /\ k \in Nat /\ k <= m /\ k <= n
  BY FS_CardinalityType
<1>2. /\ rank \in [S -> 0..m - 1]
      /\ \A r \in S : rank[r] = Cardinality(Below(S, R, r))
  BY BelowCounts DEF RankOf
<1>3. /\ \A p, r \in S : p # r => rank[p] # rank[r]
      /\ \A x \in 0..m - 1 : \E r \in S : rank[r] = x
  BY RanksAll
<1> HIDE DEF rank
<1>6. \A j \in Nat : IsFiniteSet(0..j - 1) /\ Cardinality(0..j - 1) = j
  BY Numbers
<1>8. B = {r \in S : rank[r] < n}
  BY <1>2 DEF TopOf
<1> DEFINE g == [r \in B |-> rank[r]]
<1>9. g \in [B -> 0..k - 1]
  <2>1. \A r \in B : rank[r] \in 0..m - 1 /\ rank[r] < n
    BY <1>2, <1>8
  <2>2. \A x \in 0..m - 1 : x < n => x \in 0..k - 1
    BY <1>1
  <2> QED
    BY <2>1, <2>2
<1>10. \A r \in B : r \in S /\ g[r] = rank[r]
  BY <1>8
<1>11. \A x \in 0..k - 1 : \E r \in B : g[r] = x
  <2>1. ASSUME NEW x \in 0..k - 1 PROVE \E r \in B : g[r] = x
    <3>1. x \in 0..m - 1 /\ x < n
      BY <1>1
    <3>2. PICK r \in S : rank[r] = x
      BY <3>1, <1>3
    <3> QED
      BY <3>1, <3>2, <1>8, <1>10
  <2> QED
    BY <2>1
<1> HIDE DEF g, B
<1>12. g \in Bijection(B, 0..k - 1)
  BY <1>3, <1>9, <1>10, <1>11 DEF Bijection, Injection, Surjection, IsInjective
<1>13. IsFiniteSet(B)
  BY <1>8, FS_Subset
<1>14. Cardinality(B) = Cardinality(0..k - 1)
  BY <1>12, <1>13, FS_Bijection DEF ExistsBijection
<1> QED
  BY <1>1, <1>6, <1>14 DEF B

-----------------------------------------------------------------------------
LEMMA SameCounts == \A S : Walked!Cardinality(S) = Cardinality(S) /\ (Walked!IsFiniteSet(S) <=> IsFiniteSet(S))
  BY DEF Walked!Cardinality, Cardinality, Walked!IsFiniteSet, IsFiniteSet

LEMMA ReachIs == Walked!Reach[0] = Walked!Seeds /\ \A k \in 0..2 : Walked!Reach[k + 1] = Beyond(Walked!Reach[k])
<1> DEFINE R0 == Walked!Seeds
           R1 == Beyond(R0)
           R2 == Beyond(R1)
           f == [k \in 0..3 |-> IF k = 0 THEN R0 ELSE IF k = 1 THEN R1 ELSE IF k = 2 THEN R2 ELSE Beyond(R2)]
           Is(g) == g = [k \in 0..3 |-> IF k = 0 THEN Walked!Seeds ELSE Beyond(g[k - 1])]
<1>1. Is(f)
  <2>1. f[0] = R0 /\ f[1] = R1 /\ f[2] = R2 /\ f[3] = Beyond(R2)
    OBVIOUS
  <2>2. f = [k \in 0..3 |-> f[k]]
    OBVIOUS
  <2> HIDE DEF f
  <2>3. \A k \in 0..3 : k = 0 \/ k = 1 \/ k = 2 \/ k = 3
    OBVIOUS
  <2>4. \A k \in 0..3 : f[k] = IF k = 0 THEN Walked!Seeds ELSE Beyond(f[k - 1])
    BY <2>1, <2>3
  <2> QED
    BY <2>2, <2>4
<1>2. Walked!Reach = CHOOSE g : Is(g)
  BY DEF Walked!Reach, Beyond
<1>3. Is(Walked!Reach)
  <2> HIDE DEF f, Is
  <2> QED
    BY <1>1, <1>2
<1>4. \A k \in 0..3 : Walked!Reach[k] = IF k = 0 THEN Walked!Seeds ELSE Beyond(Walked!Reach[k - 1])
  BY <1>3
<1>5. \A k \in 0..2 : k + 1 \in 0..3 /\ k + 1 # 0 /\ (k + 1) - 1 = k
  OBVIOUS
<1> QED
  BY <1>4, <1>5

LEMMA ReachKeeps ==
  ASSUME UNCHANGED <<graph, anchors, walk>>
  PROVE  Walked!Reach' = Walked!Reach
  BY DEF Walked!Reach, Walked!Seeds, Walked!SeedsOf

-----------------------------------------------------------------------------
(* The order of the edges: rank, relationship, direction, id.              *)
Ends == {r \in Pool \X Walked!Nodes : r[2] \in {r[1].from, r[1].to}}
Way(r) == IF Walked!Outgoing(r) THEN 0 ELSE 1
LexLess(a1, a2, a3, a4, b1, b2, b3, b4) ==
  \/ a1 < b1
  \/ a1 = b1 /\ a2 < b2
  \/ a1 = b1 /\ a2 = b2 /\ a3 < b3
  \/ a1 = b1 /\ a2 = b2 /\ a3 = b3 /\ a4 < b4

LEMMA RanksAreNumbers ==
  ASSUME anchors \in Seq(DOMAIN Role), Len(anchors) < Walked!Unranked, NEW n
  PROVE  /\ Walked!Rank(n) \in Nat
         /\ n \in Walked!ToSet(anchors) => Walked!Rank(n) < Walked!Unranked
         /\ n \notin Walked!ToSet(anchors) => Walked!Rank(n) = Walked!Unranked
<1>1. DOMAIN anchors = 1..Len(anchors) /\ Walked!Unranked \in Nat /\ Len(anchors) \in Nat
  BY DEF Walked!Unranked
<1>2. n \in Walked!ToSet(anchors) <=> \E i \in DOMAIN anchors : anchors[i] = n
  BY DEF Walked!ToSet
<1>3. CASE n \in Walked!ToSet(anchors)
  <2> DEFINE i == CHOOSE i \in DOMAIN anchors : anchors[i] = n
  <2>1. i \in DOMAIN anchors
    BY <1>2, <1>3
  <2>2. Walked!Rank(n) = i
    BY <1>2, <1>3 DEF Walked!Rank
  <2> HIDE DEF i
  <2>3. i \in Nat /\ i < Walked!Unranked
    BY <1>1, <2>1
  <2> QED
    BY <1>3, <2>2, <2>3
<1>4. CASE n \notin Walked!ToSet(anchors)
  <2>1. Walked!Rank(n) = Walked!Unranked
    BY <1>2, <1>4 DEF Walked!Rank
  <2> QED
    BY <1>1, <1>4, <2>1
<1> QED
  BY <1>3, <1>4

LEMMA KeysAreNumbers ==
  ASSUME Walked!GraphAssumption, anchors \in Inputs, NEW r \in Ends
  PROVE  /\ Walked!Rank(r[2]) \in Nat /\ Walked!OfType(r[1]) \in Nat /\ Way(r) \in Nat /\ r[1].id \in Nat
         /\ Walked!KeyOf(r) = <<Walked!Rank(r[2]), Walked!OfType(r[1]), Way(r), r[1].id>>
<1>1. anchors \in Seq(DOMAIN Role) /\ Len(anchors) < Walked!Unranked
  BY DEF Walked!GraphAssumption
<1>2. r[1] \in Pool /\ r[1].id \in Nat /\ \E i \in DOMAIN Walked!Order : Walked!Order[i] = r[1].type
  BY DEF Walked!GraphAssumption, Ends
<1>3. Walked!OfType(r[1]) \in DOMAIN Walked!Order
  BY <1>2 DEF Walked!OfType
<1>4. DOMAIN Walked!Order = 1..7
  BY DEF Walked!Order
<1>5. Walked!OfType(r[1]) \in Nat
  BY <1>3, <1>4
<1>6. Walked!Rank(r[2]) \in Nat
  BY <1>1, RanksAreNumbers
<1> QED
  BY <1>2, <1>5, <1>6 DEF Way, Walked!KeyOf

LEMMA BeforeIs ==
  ASSUME Walked!GraphAssumption, anchors \in Inputs, NEW p \in Ends, NEW q \in Ends
  PROVE  Walked!Before(p, q) <=>
           LexLess(Walked!Rank(p[2]), Walked!OfType(p[1]), Way(p), p[1].id, Walked!Rank(q[2]), Walked!OfType(q[1]), Way(q), q[1].id)
<1> DEFINE a == Walked!KeyOf(p)
           b == Walked!KeyOf(q)
<1>1. Walked!Before(p, q) <=> \E i \in 1..4 : a[i] < b[i] /\ \A j \in 1..(i - 1) : a[j] = b[j]
  BY DEF Walked!Before
<1>2. /\ a[1] = Walked!Rank(p[2]) /\ a[2] = Walked!OfType(p[1]) /\ a[3] = Way(p) /\ a[4] = p[1].id
      /\ b[1] = Walked!Rank(q[2]) /\ b[2] = Walked!OfType(q[1]) /\ b[3] = Way(q) /\ b[4] = q[1].id
  BY KeysAreNumbers
<1> HIDE DEF a, b
<1>3. 1..4 = {1, 2, 3, 4} /\ 1..1 - 1 = {} /\ 1..2 - 1 = {1} /\ 1..3 - 1 = {1, 2} /\ 1..4 - 1 = {1, 2, 3}
  OBVIOUS
<1>4. Walked!Before(p, q) <=> LexLess(a[1], a[2], a[3], a[4], b[1], b[2], b[3], b[4])
  <2>1. Walked!Before(p, q) <=>
          \/ a[1] < b[1] /\ \A j \in 1..1 - 1 : a[j] = b[j]
          \/ a[2] < b[2] /\ \A j \in 1..2 - 1 : a[j] = b[j]
          \/ a[3] < b[3] /\ \A j \in 1..3 - 1 : a[j] = b[j]
          \/ a[4] < b[4] /\ \A j \in 1..4 - 1 : a[j] = b[j]
    BY <1>1, <1>3
  <2> QED
    BY <2>1, <1>3 DEF LexLess
<1> QED
  BY <1>2, <1>4

LEMMA EdgesAreOrdered ==
  ASSUME Walked!GraphAssumption, anchors \in Inputs, NEW S \in SUBSET Ends
  PROVE  Orders({w \in S \X S : Walked!Before(w[1], w[2])}, S)
<1> DEFINE R == {w \in S \X S : Walked!Before(w[1], w[2])}
           k1(r) == Walked!Rank(r[2])
           k2(r) == Walked!OfType(r[1])
           k3(r) == Way(r)
           k4(r) == r[1].id
<1>1. \A p, q \in S : <<p, q>> \in R <=> LexLess(k1(p), k2(p), k3(p), k4(p), k1(q), k2(q), k3(q), k4(q))
  BY BeforeIs
<1>2. \A r \in S : k1(r) \in Nat /\ k2(r) \in Nat /\ k3(r) \in Nat /\ k4(r) \in Nat
  BY KeysAreNumbers
<1>3. ASSUME NEW p \in S, NEW q \in S, k1(p) = k1(q), k2(p) = k2(q), k3(p) = k3(q), k4(p) = k4(q) PROVE p = q
  <2>1. p \in Pool \X Walked!Nodes /\ q \in Pool \X Walked!Nodes
    BY DEF Ends
  <2>2. p[1] = q[1]
    BY <1>3, <2>1 DEF Walked!GraphAssumption
  <2>3. Walked!Outgoing(p) <=> Walked!Outgoing(q)
    BY <1>3 DEF Way
  <2>4. p[2] = q[2]
    BY <2>2, <2>3 DEF Ends, Walked!Outgoing
  <2> QED
    BY <2>1, <2>2, <2>4
<1> HIDE DEF R, k1, k2, k3, k4
<1>4. \A p \in S : <<p, p>> \notin R
  BY <1>1, <1>2 DEF LexLess
<1>5. ASSUME NEW p \in S, NEW q \in S, NEW r \in S, <<p, q>> \in R, <<q, r>> \in R PROVE <<p, r>> \in R
  <2>1. \A a1, a2, a3, a4, b1, b2, b3, b4, c1, c2, c3, c4 \in Nat :
          LexLess(a1, a2, a3, a4, b1, b2, b3, b4) /\ LexLess(b1, b2, b3, b4, c1, c2, c3, c4)
            => LexLess(a1, a2, a3, a4, c1, c2, c3, c4)
    BY DEF LexLess
  <2>2. LexLess(k1(p), k2(p), k3(p), k4(p), k1(q), k2(q), k3(q), k4(q)) /\ LexLess(k1(q), k2(q), k3(q), k4(q), k1(r), k2(r), k3(r), k4(r))
    BY <1>1, <1>5
  <2>3. LexLess(k1(p), k2(p), k3(p), k4(p), k1(r), k2(r), k3(r), k4(r))
    BY <1>2, <2>1, <2>2
  <2> QED
    BY <1>1, <2>3
<1>6. ASSUME NEW p \in S, NEW q \in S, p # q PROVE <<p, q>> \in R \/ <<q, p>> \in R
  <2>1. \A a1, a2, a3, a4, b1, b2, b3, b4 \in Nat :
          \/ LexLess(a1, a2, a3, a4, b1, b2, b3, b4) \/ LexLess(b1, b2, b3, b4, a1, a2, a3, a4)
          \/ a1 = b1 /\ a2 = b2 /\ a3 = b3 /\ a4 = b4
    BY DEF LexLess
  <2>2. \/ LexLess(k1(p), k2(p), k3(p), k4(p), k1(q), k2(q), k3(q), k4(q))
        \/ LexLess(k1(q), k2(q), k3(q), k4(q), k1(p), k2(p), k3(p), k4(p))
        \/ k1(p) = k1(q) /\ k2(p) = k2(q) /\ k3(p) = k3(q) /\ k4(p) = k4(q)
    BY <1>2, <2>1
  <2> QED
    BY <1>1, <1>3, <1>6, <2>2
<1>7. Orders(R, S)
  BY <1>4, <1>5, <1>6 DEF Orders
<1> QED
  BY <1>7 DEF R

\* An answer shows as many edges as it may, or all, and never a later one without an earlier one.
LEMMA BestAreFirst ==
  ASSUME Walked!GraphAssumption, anchors \in Inputs, NEW S \in SUBSET Ends, IsFiniteSet(S)
  PROVE  /\ Walked!Best(S) \subseteq S
         /\ Cardinality(Walked!Best(S)) = IF EdgeLimit < Cardinality(S) THEN EdgeLimit ELSE Cardinality(S)
         /\ \A q \in Walked!Best(S) : \A r \in S : Walked!Before(r, q) => r \in Walked!Best(S)
<1> DEFINE R == {w \in S \X S : Walked!Before(w[1], w[2])}
<1>1. Orders(R, S)
  BY EdgesAreOrdered
<1>2. \A r \in S : {q \in S : Walked!Before(q, r)} = Below(S, R, r)
  BY DEF Below
<1>3. Walked!Best(S) = TopOf(S, R, EdgeLimit)
  BY <1>2, SameCounts DEF Walked!Best, TopOf
<1>4. \A p, r \in S : Walked!Before(p, r) => <<p, r>> \in R
  OBVIOUS
<1> HIDE DEF R
<1>5. EdgeLimit \in Nat /\ Cardinality(S) \in Nat
  BY FS_CardinalityType DEF Walked!GraphAssumption
<1>6. ASSUME NEW q \in Walked!Best(S), NEW r \in S, Walked!Before(r, q) PROVE r \in Walked!Best(S)
  <2>1. q \in S /\ Cardinality(Below(S, R, q)) < EdgeLimit
    BY <1>3 DEF TopOf
  <2>2. <<r, q>> \in R
    BY <1>4, <1>6, <2>1
  <2>3. Cardinality(Below(S, R, r)) < Cardinality(Below(S, R, q))
    BY <1>1, <2>1, <2>2, BelowCounts
  <2>4. Cardinality(Below(S, R, r)) \in 0..Cardinality(S) - 1 /\ Cardinality(Below(S, R, q)) \in 0..Cardinality(S) - 1
    BY <1>1, <2>1, BelowCounts
  <2>5. Cardinality(Below(S, R, r)) < EdgeLimit
    BY <1>5, <2>1, <2>3, <2>4
  <2> QED
    BY <1>3, <2>5 DEF TopOf
<1>7. Cardinality(Walked!Best(S)) = IF EdgeLimit < Cardinality(S) THEN EdgeLimit ELSE Cardinality(S)
  BY <1>1, <1>3, <1>5, TopCounts
<1> QED
  BY <1>3, <1>6, <1>7 DEF TopOf

-----------------------------------------------------------------------------
(* What the hops reach.                                                    *)
LEMMA EndIs ==
  ASSUME walk \in {"edges", "neighbors"}, hops \in Nat
  PROVE  End \in 0..3 /\ (walk = "neighbors" => End >= 1)
<1>1. CASE walk = "edges"
  <2>1. End = IF hops < 3 THEN hops ELSE 3
    BY <1>1 DEF End, Walked!Cap, Walked!Least
  <2> QED
    BY <1>1, <2>1
<1>2. CASE walk = "neighbors"
  <2>1. End = IF hops < 1 THEN 1 ELSE IF hops < 3 THEN hops ELSE 3
    BY <1>2 DEF End, Walked!Cap, Walked!Least
  <2> QED
    BY <2>1
<1> QED
  BY <1>1, <1>2

LEMMA ReachGrows ==
  ASSUME NEW k \in 0..3, NEW l \in 0..3, k <= l
  PROVE  /\ Walked!Reach[k] \subseteq Walked!Reach[l] /\ Walked!Seeds \subseteq Walked!Reach[l]
         /\ Beyond(Walked!Reach[k]) = Walked!Reach[k] => Walked!Reach[l] = Walked!Reach[k]
<1> DEFINE R(i) == Walked!Reach[i]
<1>1. \A S : S \subseteq Beyond(S)
  BY DEF Beyond
<1>2. R(0) = Walked!Seeds /\ R(1) = Beyond(R(0)) /\ R(2) = Beyond(R(1)) /\ R(3) = Beyond(R(2))
  <2>1. 0 \in 0..2 /\ 1 \in 0..2 /\ 2 \in 0..2 /\ 0 + 1 = 1 /\ 1 + 1 = 2 /\ 2 + 1 = 3
    OBVIOUS
  <2> QED
    BY <2>1, ReachIs
<1> HIDE DEF R
<1>3. k \in {0, 1, 2, 3} /\ l \in {0, 1, 2, 3}
  OBVIOUS
<1>4. R(k) \subseteq R(l) /\ Walked!Seeds \subseteq R(l) /\ (Beyond(R(k)) = R(k) => R(l) = R(k))
  <2>1. CASE k = 0
    BY <2>1, <1>1, <1>2, <1>3
  <2>2. CASE k = 1
    <3>1. l \in {1, 2, 3}
      BY <2>2
    <3> QED
      BY <2>2, <3>1, <1>1, <1>2
  <2>3. CASE k = 2
    <3>1. l \in {2, 3}
      BY <2>3
    <3> QED
      BY <2>3, <3>1, <1>1, <1>2
  <2>4. CASE k = 3
    <3>1. l = 3
      BY <2>4
    <3> QED
      BY <2>4, <3>1, <1>1, <1>2
  <2> QED
    BY <2>1, <2>2, <2>3, <2>4, <1>3
<1> QED
  BY <1>4 DEF R

LEMMA SeedsAreNodes ==
  ASSUME Walked!GraphAssumption, anchors \in Inputs
  PROVE  Walked!Seeds \subseteq Walked!Nodes
<1>1. anchors \in Seq(Walked!Nodes)
  BY DEF Walked!GraphAssumption, Walked!Nodes
<1>2. \A i \in DOMAIN anchors : anchors[i] \in Walked!Nodes
  BY <1>1
<1> QED
  BY <1>2 DEF Walked!Seeds, Walked!SeedsOf, Walked!ToSet

LEMMA AroundIs ==
  ASSUME Walked!GraphAssumption, graph \subseteq Pool, frontier \subseteq Walked!Nodes
  PROVE  Walked!Around(Walked!Rows(frontier)) =
           {n \in Walked!Nodes \ frontier : Walked!IsSymbol(n) /\
              \E e \in graph : Walked!Leads(e) /\ n \in {e.from, e.to} /\ {e.from, e.to} \cap frontier # {}}
<1> DEFINE A == Walked!Around(Walked!Rows(frontier))
           B == {n \in Walked!Nodes \ frontier : Walked!IsSymbol(n) /\
                   \E e \in graph : Walked!Leads(e) /\ n \in {e.from, e.to} /\ {e.from, e.to} \cap frontier # {}}
<1>1. \A e \in graph : e.from \in Walked!Nodes /\ e.to \in Walked!Nodes
  BY DEF Walked!GraphAssumption, Walked!Nodes
<1>2. ASSUME NEW n \in A PROVE n \in B
  <2>1. PICK r \in Walked!Rows(frontier) :
          n = Walked!Other(r) /\ Walked!Follows(r[1]) /\ Role[Walked!Other(r)] = "symbol" /\ n \notin frontier
    BY <1>2 DEF Walked!Around
  <2>2. r[1] \in graph /\ r[2] \in frontier /\ r[2] \in {r[1].from, r[1].to}
    BY DEF Walked!Rows
  <2>3. n \in {r[1].from, r[1].to}
    BY <2>1 DEF Walked!Other
  <2>4. Walked!Leads(r[1]) /\ Walked!IsSymbol(n)
    BY <2>1 DEF Walked!Leads, Walked!Follows, Walked!IsSymbol
  <2> QED
    BY <1>1, <2>1, <2>2, <2>3, <2>4
<1>3. ASSUME NEW n \in B PROVE n \in A
  <2>1. PICK e \in graph : Walked!Leads(e) /\ n \in {e.from, e.to} /\ {e.from, e.to} \cap frontier # {}
    BY <1>3
  <2>2. PICK m \in frontier : m \in {e.from, e.to}
    BY <2>1
  <2> DEFINE r == <<e, m>>
  <2>3. r \in Walked!Rows(frontier)
    BY <2>2 DEF Walked!Rows
  <2>4. n # m
    BY <1>3
  <2>5. Walked!Other(r) = n
    BY <2>1, <2>2, <2>4 DEF Walked!Other, Walked!Outgoing
  <2>6. Walked!Follows(r[1]) /\ Role[n] = "symbol"
    BY <1>3, <2>1 DEF Walked!Leads, Walked!Follows, Walked!IsSymbol
  <2> QED
    BY <1>3, <2>3, <2>5, <2>6 DEF Walked!Around
<1> QED
  BY <1>2, <1>3

LEMMA Finite ==
  ASSUME Walked!GraphAssumption
  PROVE  /\ \A S \in SUBSET Walked!Nodes : IsFiniteSet(S) /\ Cardinality(S) \in Nat
         /\ \A S \in SUBSET Ends : IsFiniteSet(S) /\ Cardinality(S) \in Nat
<1>1. IsFiniteSet(Walked!Nodes) /\ IsFiniteSet(Pool)
  BY SameCounts DEF Walked!GraphAssumption, Walked!Nodes
<1>2. IsFiniteSet(Pool \X Walked!Nodes)
  BY <1>1, FS_Product
<1>3. \A S \in SUBSET Ends : S \subseteq Pool \X Walked!Nodes
  BY DEF Ends
<1> QED
  BY <1>1, <1>2, <1>3, FS_Subset, FS_CardinalityType

-----------------------------------------------------------------------------
LEMMA WalkBegins ==
  ASSUME Walked!GraphAssumption, Walked!Init
  PROVE  WalkInv
<1>1. /\ walk \in {"edges", "neighbors"} /\ graph \subseteq Pool /\ anchors \in Inputs
      /\ walk = "neighbors" => \A i \in DOMAIN anchors : Walked!IsSymbol(anchors[i])
      /\ turn = "start" /\ hop = 0 /\ frontier = {} /\ visited = {} /\ rows = {} /\ found = {}
      /\ hops \in Nat
  BY DEF Walked!Init, Walked!GraphAssumption
<1>2. hop <= End
  BY <1>1, EndIs
<1>3. Cardinality({}) = 0 /\ WalkLimit \in Nat
  BY FS_EmptySet DEF Walked!GraphAssumption
<1> QED
  BY <1>1, <1>2, <1>3 DEF WalkInv, WalkTyped, WalkNeighbors, WalkRows, WalkReach, WalkWhole

LEMMA WalkDropped ==
  ASSUME WalkInv, Walked!Drop
  PROVE  WalkInv'
<1>1. /\ UNCHANGED <<turn, walk, anchors, hops, hop, frontier, visited, rows, found, cut>> /\ dropped' = TRUE /\ graph' = {}
  BY DEF Walked!Drop
<1>2. Walked!Seeds' = Walked!Seeds /\ End' = End
  BY <1>1 DEF Walked!Seeds, Walked!SeedsOf, End, Walked!Cap
<1>3. Walked!Best(Walked!Accepted(rows))' = Walked!Best(Walked!Accepted(rows))
  BY <1>1 DEF Walked!Best, Walked!Accepted, Walked!Before, Walked!KeyOf, Walked!Rank
<1>4. WalkTyped' /\ WalkNeighbors' /\ WalkRows'
  BY <1>1, <1>2, <1>3 DEF WalkInv, WalkTyped, WalkNeighbors, WalkRows
<1>5. WalkReach' /\ WalkWhole'
  BY <1>1 DEF WalkReach, WalkWhole
<1> QED
  BY <1>4, <1>5 DEF WalkInv

LEMMA WalkStarts ==
  ASSUME Walked!GraphAssumption, WalkInv, Walked!Start
  PROVE  WalkInv'
<1> USE DEF WalkInv
<1>1. /\ UNCHANGED <<walk, graph, anchors, hops, hop, rows, found, cut, dropped>> /\ turn = "start"
      /\ \/ /\ anchors = <<>> \/ (walk = "neighbors" /\ hops < 1)
            /\ turn' = "done" /\ UNCHANGED <<frontier, visited>>
         \/ /\ turn' = "query" /\ frontier' = Walked!Seeds /\ visited' = Walked!Seeds
  BY DEF Walked!Start
<1>2. Walked!Seeds' = Walked!Seeds /\ End' = End /\ Walked!Reach' = Walked!Reach
  BY <1>1, ReachKeeps DEF Walked!Seeds, Walked!SeedsOf, End, Walked!Cap
<1>3. hop = 0 /\ visited = {} /\ frontier = {} /\ rows = {} /\ found = {} /\ anchors \in Inputs
  BY <1>1 DEF WalkTyped
<1>4. Walked!Rows({}) = {} /\ Walked!Best(Walked!Accepted({})) = {}
  BY DEF Walked!Rows, Walked!Best, Walked!Accepted
<1>5. Cardinality({}) = 0 /\ WalkLimit \in Nat
  BY FS_EmptySet DEF Walked!GraphAssumption
<1>6. CASE turn' = "done"
  <2>1. UNCHANGED <<frontier, visited>> /\ (anchors = <<>> \/ (walk = "neighbors" /\ hops < 1))
    BY <1>1, <1>6
  <2>2. WalkTyped' /\ WalkNeighbors'
    BY <1>1, <1>2, <1>6, <2>1 DEF WalkTyped, WalkNeighbors
  <2>3. WalkRows'
    <3>1. (Walked!Best(Walked!Accepted(rows)))' = {}
      <4>1. rows' = {}
        BY <1>1, <1>3
      <4> QED
        BY <4>1 DEF Walked!Best, Walked!Accepted
    <3> QED
      BY <1>1, <1>3, <1>6, <3>1 DEF WalkRows
  <2>4. WalkReach'
    <3>1. (Walked!Rows(visited))' = {}
      <4>1. visited' = {}
        BY <1>3, <2>1
      <4> QED
        BY <4>1 DEF Walked!Rows
    <3> QED
      BY <1>1, <1>3, <1>6, <2>1, <3>1 DEF WalkReach
  <2>5. WalkWhole'
    BY <1>1, <1>6, <2>1 DEF WalkWhole
  <2> QED
    BY <2>2, <2>3, <2>4, <2>5
<1>7. CASE turn' = "query"
  <2>1. frontier' = Walked!Seeds /\ visited' = Walked!Seeds
    BY <1>1, <1>7
  <2>2. Walked!Seeds \subseteq Walked!Nodes
    BY <1>3, SeedsAreNodes
  <2>3. WalkTyped'
    BY <1>1, <1>2, <1>7, <2>1, <2>2 DEF WalkTyped
  <2>4. WalkNeighbors'
    BY <1>1, <1>2, <1>3, <1>5, <1>7, <2>1 DEF WalkNeighbors
  <2>5. WalkRows'
    BY <1>1, <1>7 DEF WalkRows
  <2>6. (visited \ frontier)' = {}
    BY <2>1
  <2>7. WalkReach'
    <3>1. (Walked!Rows(visited \ frontier))' = {}
      BY <2>6 DEF Walked!Rows
    <3>2. Walked!Reach'[hop'] = Walked!Seeds
      BY <1>1, <1>2, <1>3, ReachIs
    <3> QED
      BY <1>1, <1>3, <1>7, <2>1, <3>1, <3>2 DEF WalkReach
  <2>8. WalkWhole'
    <3>1. Closed(visited \ frontier, visited)'
      BY <2>6 DEF Closed
    <3>2. Walked!Reach'[hop'] = Walked!Seeds
      BY <1>1, <1>2, <1>3, ReachIs
    <3> QED
      BY <1>1, <1>7, <2>1, <3>1, <3>2 DEF WalkWhole
  <2> QED
    BY <2>3, <2>4, <2>5, <2>7, <2>8
<1> QED
  BY <1>1, <1>6, <1>7

\* When nothing is next to the frontier either, the walk has what the hops reach.
LEMMA NothingBeyond ==
  ASSUME WalkTyped, turn = "query", visited = Walked!Reach[hop], Closed(visited, visited)
  PROVE  visited = Walked!Reach[End]
<1>1. hop \in 0..3 /\ End \in 0..3 /\ hop <= End
  BY EndIs DEF WalkTyped
<1>2. Beyond(visited) = visited
  BY DEF Beyond, Closed, WalkTyped
<1> QED
  BY <1>1, <1>2, ReachGrows

\* The steps that only end the hops.
LEMMA WalkStopped ==
  ASSUME Walked!GraphAssumption, WalkInv, Walked!Stops \/ Walked!LastQuery
  PROVE  WalkInv'
<1> USE DEF WalkInv
<1>1. /\ UNCHANGED <<walk, graph, anchors, hops, hop, frontier, visited, found, cut, dropped>>
      /\ turn = "query" /\ turn' = "select" /\ walk \in {"edges", "neighbors"}
  BY DEF Walked!Stops, Walked!LastQuery, WalkTyped
<1>2. Walked!Seeds' = Walked!Seeds /\ End' = End /\ Walked!Reach' = Walked!Reach
  BY <1>1, ReachKeeps DEF Walked!Seeds, Walked!SeedsOf, End, Walked!Cap
<1>3. \A V : Walked!Rows(V)' = Walked!Rows(V)
  BY <1>1 DEF Walked!Rows
<1>4. \/ Walked!Stops /\ rows' = rows
      \/ Walked!LastQuery /\ rows' = rows \cup Walked!Rows(frontier) /\ walk = "edges"
  BY DEF Walked!Stops, Walked!LastQuery
<1>5. WalkTyped'
  BY <1>1, <1>2 DEF WalkTyped
<1>6. WalkNeighbors'
  BY <1>1, <1>2 DEF WalkNeighbors
<1>7. Walked!Rows(frontier) \subseteq Ends
  BY DEF Walked!Rows, Ends, WalkTyped
<1>8. WalkRows'
  BY <1>1, <1>4, <1>7 DEF WalkRows, Ends
<1>9. ASSUME ~dropped, walk = "edges" PROVE rows' = Walked!Rows(visited)
  <2>1. rows = Walked!Rows(visited \ frontier)
    BY <1>1, <1>9 DEF WalkReach
  <2>2. frontier \subseteq visited
    BY DEF WalkTyped
  <2>3. CASE Walked!Stops
    <3>1. frontier = {}
      BY <1>9, <2>3 DEF Walked!Stops
    <3>2. visited \ frontier = visited
      BY <3>1
    <3> QED
      BY <1>4, <2>1, <2>3, <3>2 DEF Walked!Stops, Walked!LastQuery
  <2>4. CASE Walked!LastQuery
    <3>1. rows' = rows \cup Walked!Rows(frontier)
      BY <2>4 DEF Walked!LastQuery
    <3>2. Walked!Rows(visited) = Walked!Rows(visited \ frontier) \cup Walked!Rows(frontier)
      BY <2>2 DEF Walked!Rows
    <3> QED
      BY <2>1, <3>1, <3>2
  <2> QED
    BY <1>4, <2>3, <2>4
<1>10. WalkReach'
  <2>1. (Walked!Rows(visited))' = Walked!Rows(visited)
    BY <1>1 DEF Walked!Rows
  <2> QED
    BY <1>1, <1>2, <1>9, <2>1 DEF WalkReach
<1>11. ASSUME ~dropped, ~cut PROVE visited = Walked!Reach[End]
  <2>1. visited = Walked!Reach[hop] /\ Closed(visited \ frontier, visited)
    BY <1>1, <1>11 DEF WalkWhole
  <2>2. CASE hop >= End
    <3>1. hop \in Nat /\ hop <= End /\ End \in 0..3
      BY EndIs DEF WalkTyped
    <3>2. hop = End
      BY <2>2, <3>1
    <3> QED
      BY <2>1, <3>2
  <2>3. CASE frontier = {}
    <3>1. visited \ frontier = visited
      BY <2>3
    <3> QED
      BY <1>1, <2>1, <3>1, NothingBeyond
  <2>4. CASE Walked!Rows(frontier) = {}
    <3>1. \A e \in graph : {e.from, e.to} \cap frontier = {}
      <4> SUFFICES ASSUME NEW e \in graph, NEW n \in frontier, n \in {e.from, e.to} PROVE FALSE
        OBVIOUS
      <4>1. <<e, n>> \in Walked!Rows(frontier)
        BY DEF Walked!Rows
      <4> QED
        BY <2>4, <4>1
    <3>2. Closed(visited, visited)
      BY <2>1, <3>1 DEF Closed
    <3> QED
      BY <1>1, <2>1, <3>2, NothingBeyond
  <2> QED
    BY <2>2, <2>3, <2>4 DEF Walked!Stops, Walked!LastQuery, Walked!LastHop, End
<1>12. WalkWhole'
  BY <1>1, <1>2, <1>11 DEF WalkWhole
<1> QED
  BY <1>5, <1>6, <1>8, <1>10, <1>12

LEMMA WalkSelected ==
  ASSUME Walked!GraphAssumption, WalkInv, Walked!Select
  PROVE  WalkInv'
<1> USE DEF WalkInv
<1>1. /\ UNCHANGED <<walk, graph, anchors, hops, hop, frontier, visited, rows, cut, dropped>>
      /\ turn = "select" /\ turn' = "done"
      /\ walk = "edges" => found' = Walked!Best(Walked!Accepted(rows))
      /\ walk # "edges" => found' = found
  BY DEF Walked!Select
<1>2. Walked!Seeds' = Walked!Seeds /\ End' = End /\ Walked!Reach' = Walked!Reach
  BY <1>1, ReachKeeps DEF Walked!Seeds, Walked!SeedsOf, End, Walked!Cap
<1>3. (Walked!Best(Walked!Accepted(rows)))' = Walked!Best(Walked!Accepted(rows))
  BY <1>1 DEF Walked!Best, Walked!Accepted, Walked!Before, Walked!KeyOf, Walked!Rank
<1>4. (Walked!Rows(visited))' = Walked!Rows(visited)
  BY <1>1 DEF Walked!Rows
<1>5. WalkTyped'
  BY <1>1, <1>2 DEF WalkTyped
<1>6. WalkNeighbors'
  BY <1>1, <1>2 DEF WalkNeighbors
<1>7. WalkRows'
  BY <1>1, <1>3 DEF WalkRows
<1>8. WalkReach'
  BY <1>1, <1>2, <1>4 DEF WalkReach
<1>9. WalkWhole'
  <2>1. walk = "neighbors" => found = visited \ Walked!Seeds
    BY <1>1 DEF WalkNeighbors
  <2>2. walk \in {"edges", "neighbors"}
    BY DEF WalkTyped
  <2> QED
    BY <1>1, <1>2, <2>1, <2>2 DEF WalkWhole
<1> QED
  BY <1>5, <1>6, <1>7, <1>8, <1>9

LEMMA WalkHops ==
  ASSUME Walked!GraphAssumption, WalkInv, Walked!Query
  PROVE  WalkInv'
<1> USE DEF WalkInv
<1> DEFINE around == Walked!Around(Walked!Rows(frontier))
<1>1. /\ UNCHANGED <<walk, graph, anchors, hops, dropped>> /\ hop' = hop + 1 /\ turn = "query" /\ ~(hop >= End)
  BY DEF Walked!Query, Walked!LastHop, End
<1>2. PICK S \in SUBSET around :
        /\ cut' = (cut \/ S # around) /\ frontier' = S \ visited /\ visited' = visited \cup S
        /\ walk = "edges" => found' = found
        /\ walk # "edges" => \E T \in SUBSET frontier' :
             /\ Walked!Cardinality(T) = Walked!Least(WalkLimit - Walked!Cardinality(found), Walked!Cardinality(frontier'))
             /\ found' = found \cup T
  BY DEF Walked!Query
<1>3. /\ walk = "edges" => rows' = rows \cup Walked!Rows(frontier) /\ turn' = "query"
      /\ walk # "edges" => rows' = rows /\ turn' = IF Cardinality(found') >= WalkLimit THEN "done" ELSE "query"
  BY SameCounts DEF Walked!Query
<1>4. Walked!Seeds' = Walked!Seeds /\ End' = End /\ Walked!Reach' = Walked!Reach
  BY <1>1, ReachKeeps DEF Walked!Seeds, Walked!SeedsOf, End, Walked!Cap
<1>5. /\ walk \in {"edges", "neighbors"} /\ graph \subseteq Pool /\ anchors \in Inputs /\ hops \in Nat
      /\ hop \in Nat /\ hop <= End /\ frontier \subseteq visited /\ visited \subseteq Walked!Nodes /\ Walked!Seeds \subseteq visited
  BY <1>1 DEF WalkTyped
<1>6. End \in 0..3 /\ hop \in 0..2 /\ hop + 1 \in 0..3 /\ hop + 1 <= End /\ hop \in 0..3
  BY <1>1, <1>5, EndIs
<1>7. around = {n \in Walked!Nodes \ frontier : Walked!IsSymbol(n) /\
                  \E e \in graph : Walked!Leads(e) /\ n \in {e.from, e.to} /\ {e.from, e.to} \cap frontier # {}}
  BY <1>5, AroundIs
<1> HIDE DEF around
<1>8. S \subseteq Walked!Nodes /\ S \cap frontier = {} /\ \A n \in S : Walked!IsSymbol(n)
  BY <1>7
<1>9. visited' \ frontier' = visited
  BY <1>2
<1>10. turn' \in {"query", "done"}
  BY <1>3, <1>5
<1>11. WalkTyped'
  BY <1>1, <1>2, <1>4, <1>5, <1>6, <1>8, <1>10 DEF WalkTyped
<1>12. WalkRows'
  <2>1. Walked!Rows(frontier) \subseteq Ends
    BY <1>5 DEF Walked!Rows, Ends
  <2> QED
    BY <1>1, <1>2, <1>3, <2>1 DEF WalkRows, Ends
<1>13. WalkReach'
  <2> SUFFICES ASSUME ~dropped
               PROVE  /\ visited' \subseteq Walked!Reach[hop + 1]
                      /\ walk = "edges" => rows' = Walked!Rows(visited)
    <3>1. (Walked!Rows(visited \ frontier))' = Walked!Rows(visited)
      BY <1>1, <1>9 DEF Walked!Rows
    <3>2. walk = "edges" => turn' = "query"
      BY <1>3
    <3> QED
      BY <1>1, <1>4, <3>1, <3>2 DEF WalkReach
  <2>1. visited \subseteq Walked!Reach[hop]
    BY <1>1 DEF WalkReach
  <2>2. visited' \subseteq Beyond(Walked!Reach[hop])
    BY <1>2, <1>5, <1>7, <2>1 DEF Beyond
  <2>3. visited' \subseteq Walked!Reach[hop + 1]
    BY <1>6, <2>2, ReachIs
  <2>4. ASSUME walk = "edges" PROVE rows' = Walked!Rows(visited)
    <3>1. rows = Walked!Rows(visited \ frontier)
      BY <1>1, <2>4 DEF WalkReach
    <3>2. Walked!Rows(visited) = Walked!Rows(visited \ frontier) \cup Walked!Rows(frontier)
      BY <1>5 DEF Walked!Rows
    <3> QED
      BY <1>3, <2>4, <3>1, <3>2
  <2> QED
    BY <2>3, <2>4
\* The walk without a cut.
<1>14. ASSUME ~dropped, ~cut' PROVE visited' = Walked!Reach[hop + 1] /\ Closed(visited, visited')
  <2>1. ~cut /\ S = around
    BY <1>2, <1>14
  <2>2. visited = Walked!Reach[hop] /\ Closed(visited \ frontier, visited)
    BY <1>1, <1>14, <2>1 DEF WalkWhole
  <2>3. Closed(visited, visited')
    <3> SUFFICES ASSUME NEW e \in graph, NEW n \in Walked!Nodes, Walked!Leads(e), Walked!IsSymbol(n), n \in {e.from, e.to},
                        {e.from, e.to} \cap visited # {}
                 PROVE  n \in visited'
      BY DEF Closed
    <3>1. CASE {e.from, e.to} \cap (visited \ frontier) # {}
      BY <1>2, <2>2, <3>1 DEF Closed
    <3>2. CASE {e.from, e.to} \cap frontier # {}
      <4>1. n \in around \/ n \in frontier
        BY <1>7, <3>2
      <4> QED
        BY <1>2, <1>5, <2>1, <4>1
    <3> QED
      BY <3>1, <3>2
  <2>4. Beyond(visited) = visited'
    <3>1. Beyond(visited) \subseteq visited'
      BY <1>2, <2>3 DEF Beyond, Closed
    <3>2. visited' \subseteq Beyond(visited)
      BY <1>2, <1>5, <1>7 DEF Beyond
    <3> QED
      BY <3>1, <3>2
  <2>5. visited' = Walked!Reach[hop + 1]
    BY <1>6, <2>2, <2>4, ReachIs
  <2> QED
    BY <2>3, <2>5
<1>15. CASE walk = "edges"
  <2>1. WalkNeighbors'
    BY <1>1, <1>15 DEF WalkNeighbors
  <2>2. WalkWhole'
    <3>1. ASSUME ~dropped, ~cut' PROVE Closed(visited \ frontier, visited)'
      BY <1>1, <1>9, <1>14, <3>1 DEF Closed
    <3>2. turn' = "query"
      BY <1>3, <1>15
    <3> QED
      BY <1>1, <1>4, <1>14, <3>1, <3>2 DEF WalkWhole
  <2> QED
    BY <1>11, <1>12, <1>13, <2>1, <2>2
<1>16. CASE walk = "neighbors"
  <2>1. PICK T \in SUBSET frontier' :
          /\ Cardinality(T) = Walked!Least(WalkLimit - Cardinality(found), Cardinality(frontier'))
          /\ found' = found \cup T
    BY <1>2, <1>16, SameCounts
  <2>2. /\ found \subseteq visited /\ found = visited \ Walked!Seeds /\ Cardinality(found) <= WalkLimit
        /\ \A n \in found : Walked!IsSymbol(n) /\ \A i \in DOMAIN anchors : Walked!IsSymbol(anchors[i])
    BY <1>1, <1>16 DEF WalkNeighbors
  <2>3. /\ frontier' \subseteq Walked!Nodes /\ T \subseteq Walked!Nodes /\ found \subseteq Walked!Nodes
        /\ found \cap T = {} /\ frontier' \cap Walked!Seeds = {}
    BY <1>2, <1>5, <1>8, <2>1, <2>2
  <2>4. /\ IsFiniteSet(frontier') /\ Cardinality(frontier') \in Nat /\ IsFiniteSet(T) /\ Cardinality(T) \in Nat
        /\ IsFiniteSet(found) /\ Cardinality(found) \in Nat /\ WalkLimit \in Nat
    BY <2>3, Finite DEF Walked!GraphAssumption
  <2>5. Cardinality(found') = Cardinality(found) + Cardinality(T)
    <3>1. Cardinality(found \cap T) = 0
      BY <2>3, FS_EmptySet
    <3>2. Cardinality(found \cup T) = Cardinality(found) + Cardinality(T) - Cardinality(found \cap T)
      BY <2>4, FS_Union
    <3> QED
      BY <2>1, <2>4, <3>1, <3>2
  <2>6. /\ Cardinality(T) <= WalkLimit - Cardinality(found)
        /\ Cardinality(T) = WalkLimit - Cardinality(found) \/ Cardinality(T) = Cardinality(frontier')
    BY <2>1, <2>2, <2>4 DEF Walked!Least
  <2>7. Cardinality(found') <= WalkLimit /\ (Cardinality(found') < WalkLimit => Cardinality(T) = Cardinality(frontier'))
    BY <2>2, <2>4, <2>5, <2>6
  <2>8. turn' = "query" => found' = visited' \ Walked!Seeds
    <3> SUFFICES ASSUME turn' = "query" PROVE found' = visited' \ Walked!Seeds
      OBVIOUS
    <3>1. ~(Cardinality(found') >= WalkLimit)
      BY <1>3, <1>16
    <3>2. Cardinality(T) = Cardinality(frontier')
      BY <2>4, <2>5, <2>7, <3>1
    <3>3. T = frontier'
      BY <2>4, <3>2, FS_Subset
    <3> QED
      BY <1>2, <1>5, <2>1, <2>2, <2>3, <3>3
  <2>9. turn' # "select"
    BY <1>10
  <2>10. WalkNeighbors'
    <3>1. found' \subseteq visited' /\ \A n \in found' : Walked!IsSymbol(n)
      BY <1>2, <1>8, <2>1, <2>2
    <3> QED
      BY <1>1, <1>4, <2>2, <2>7, <2>8, <2>9, <3>1 DEF WalkNeighbors
  <2>11. turn' = "done" => Cardinality(found') = WalkLimit
    <3>1. turn' = "done" => Cardinality(found') >= WalkLimit
      BY <1>3, <1>16
    <3> QED
      BY <2>4, <2>5, <2>7, <3>1
  <2>12. WalkWhole'
    <3>1. ASSUME ~dropped, ~cut' PROVE Closed(visited \ frontier, visited)'
      BY <1>1, <1>9, <1>14, <3>1 DEF Closed
    <3> QED
      BY <1>1, <1>4, <1>14, <1>16, <2>9, <2>11, <3>1 DEF WalkWhole
  <2> QED
    BY <1>11, <1>12, <1>13, <2>10, <2>12
<1> QED
  BY <1>5, <1>15, <1>16

LEMMA WalkSteps ==
  ASSUME Walked!GraphAssumption, WalkInv, Walked!Next
  PROVE  WalkInv'
  BY WalkStarts, WalkStopped, WalkHops, WalkSelected, WalkDropped DEF Walked!Next

\* What the invariant says of what the walk finds.
LEMMA WalkGives ==
  ASSUME Walked!GraphAssumption, WalkInv
  PROVE  Walked!TypeOK /\ Walked!WithinHops /\ Walked!NothingMissed /\ Walked!AnchorsFirst
<1> USE DEF WalkInv
<1> DEFINE good == Walked!Accepted(rows)
<1>1. /\ turn \in {"start", "query", "select", "done"} /\ walk \in {"edges", "neighbors"} /\ anchors \in Inputs
      /\ graph \subseteq Pool /\ visited \subseteq Walked!Nodes
  BY DEF WalkTyped
<1>2. End \in 0..3 /\ hop \in 0..3 /\ hop <= End /\ EdgeLimit \in Nat /\ WalkLimit \in Nat
  BY EndIs DEF WalkTyped, Walked!GraphAssumption
<1>3. walk = "edges" => good \subseteq rows /\ good \subseteq Ends /\ rows \subseteq Ends
  BY DEF Walked!Accepted, WalkRows, Ends
<1>4. ASSUME walk = "edges", turn = "done"
      PROVE  /\ found = Walked!Best(good) /\ found \subseteq good
             /\ Cardinality(found) = IF EdgeLimit < Cardinality(good) THEN EdgeLimit ELSE Cardinality(good)
             /\ Cardinality(good) \in Nat
             /\ \A q \in found : \A r \in good : Walked!Before(r, q) => r \in found
  <2>1. found = Walked!Best(good)
    BY <1>4 DEF WalkRows
  <2>2. good \in SUBSET Ends /\ IsFiniteSet(good) /\ Cardinality(good) \in Nat
    BY <1>3, <1>4, Finite
  <2> HIDE DEF good
  <2> QED
    BY <1>1, <2>1, <2>2, BestAreFirst
<1>5. Walked!TypeOK
  <2>1. ASSUME walk = "neighbors" PROVE Walked!Cardinality(found) <= WalkLimit /\ \A n \in found : Walked!IsSymbol(n)
    BY <2>1, SameCounts DEF WalkNeighbors
  <2>2. ASSUME walk = "edges" PROVE Walked!Cardinality(found) <= EdgeLimit
    <3>1. CASE turn = "done"
      BY <1>2, <1>4, <2>2, <3>1, SameCounts
    <3>2. CASE turn # "done"
      <4>1. found = {} /\ Cardinality({}) = 0
        BY <2>2, <3>2, FS_EmptySet DEF WalkRows
      <4> QED
        BY <1>2, <4>1, SameCounts
    <3> QED
      BY <3>1, <3>2
  <2> QED
    BY <1>1, <1>2, <2>1, <2>2 DEF Walked!TypeOK
<1>6. ~dropped /\ turn = "done" => visited \subseteq Walked!Reach[End]
  <2>1. Walked!Reach[hop] \subseteq Walked!Reach[End]
    BY <1>2, ReachGrows
  <2> QED
    BY <2>1 DEF WalkReach
<1>7. ASSUME ~dropped, turn = "done", walk = "edges" PROVE rows = Walked!Rows(visited)
  BY <1>7 DEF WalkReach
<1>8. Walked!WithinHops
  <2> SUFFICES ASSUME turn = "done", ~dropped
               PROVE  IF walk = "edges" THEN \A r \in found : r[2] \in Walked!Reach[End] ELSE found \subseteq Walked!Reach[End]
    BY DEF Walked!WithinHops, End
  <2>1. CASE walk = "edges"
    <3>1. \A r \in found : r \in Walked!Rows(visited)
      BY <1>3, <1>4, <1>7, <2>1
    <3>2. \A r \in found : r[2] \in visited
      BY <3>1 DEF Walked!Rows
    <3> QED
      BY <1>6, <2>1, <3>2
  <2>2. CASE walk = "neighbors"
    BY <1>6, <2>2 DEF WalkNeighbors
  <2> QED
    BY <1>1, <2>1, <2>2
<1>9. Walked!NothingMissed
  <2> DEFINE all == {r \in graph \X Walked!Reach[End] : r[2] \in {r[1].from, r[1].to} /\ Walked!Allowed(r)
                                                        /\ Role[r[1].from] # "none" /\ Role[r[1].to] # "none"}
  <2> SUFFICES ASSUME turn = "done", ~dropped, ~cut, anchors # <<>>
               PROVE  IF walk = "edges"
                      THEN Walked!Cardinality(found) = Walked!Least(EdgeLimit, Walked!Cardinality(all)) /\ found \subseteq all
                      ELSE Walked!Cardinality(found) = WalkLimit \/ hops < 1 \/ found = Walked!Reach[End] \ Walked!Seeds
    BY DEF Walked!NothingMissed, End
  <2>1. CASE walk = "edges"
    <3>1. visited = Walked!Reach[End]
      BY <2>1 DEF WalkWhole
    <3>2. rows = {r \in graph \X Walked!Reach[End] : r[2] \in {r[1].from, r[1].to}}
      BY <1>7, <2>1, <3>1 DEF Walked!Rows
    <3>3. ASSUME NEW r, r[2] \in {r[1].from, r[1].to}
          PROVE  Walked!Member(r) <=> Role[r[1].from] # "none" /\ Role[r[1].to] # "none"
      BY <3>3 DEF Walked!Member, Walked!Other, Walked!Outgoing
    <3>4. good = all
      BY <3>2, <3>3 DEF Walked!Accepted
    <3> HIDE DEF all, good
    <3> QED
      BY <1>2, <1>4, <2>1, <3>4, SameCounts DEF Walked!Least
  <2>2. CASE walk = "neighbors"
    BY <2>2, SameCounts DEF WalkWhole
  <2> QED
    BY <1>1, <2>1, <2>2
<1>10. Walked!AnchorsFirst
  <2> SUFFICES ASSUME turn = "done", walk = "edges", NEW r \in good \ found, r[2] \in Walked!ToSet(anchors),
                      NEW q \in found, q[2] \notin Walked!ToSet(anchors)
               PROVE  FALSE
    BY DEF Walked!AnchorsFirst
  <2>1. r \in Ends /\ q \in Ends
    BY <1>3, <1>4
  <2>2. anchors \in Seq(DOMAIN Role) /\ Len(anchors) < Walked!Unranked
    BY <1>1 DEF Walked!GraphAssumption
  <2>3. Walked!Rank(r[2]) < Walked!Rank(q[2])
    BY <2>2, RanksAreNumbers
  <2>4. Walked!Before(r, q)
    BY <1>1, <2>1, <2>3, BeforeIs DEF LexLess
  <2> QED
    BY <1>4, <2>4
<1> QED
  BY <1>5, <1>8, <1>9, <1>10

WalkedInv == part = "graph" => WalkInv

\* A walk finds what its hops reach and nothing further, all of it when no query was cut, and an answer
\* shows the edges of the anchors first, in every graph (graph_expand.py, answer.py).
THEOREM WalksAreBounded == SearchSpec => []WalkIsBounded
<1>1. SearchInit => WalkedInv
  BY SearchAssumption, WalkBegins DEF SearchInit, WalkedInv
<1>2. WalkedInv /\ [SearchNext]_allVars => WalkedInv'
  <2> SUFFICES ASSUME WalkedInv, [SearchNext]_allVars, part' = "graph" PROVE WalkInv'
    BY DEF WalkedInv
  <2>1. part = "graph" /\ WalkInv
    BY DEF WalkedInv, SearchNext, PlanStep, VectorStep, GraphStep, FusionStep, ChoiceStep, BodyStep, FollowStep, allVars
  <2>2. Walked!Next \/ UNCHANGED walkedVars
    BY <2>1 DEF SearchNext, PlanStep, VectorStep, GraphStep, FusionStep, ChoiceStep, BodyStep, FollowStep, allVars
  <2>3. CASE Walked!Next
    BY <2>1, <2>3, WalkSteps, SearchAssumption
  <2>4. CASE UNCHANGED walkedVars
    <3>1. UNCHANGED <<turn, walk, graph, anchors, hops, hop, frontier, visited, rows, found, cut, dropped>>
      BY <2>4 DEF walkedVars
    <3>2. Walked!Seeds' = Walked!Seeds /\ End' = End /\ Walked!Reach' = Walked!Reach
      BY <3>1, ReachKeeps DEF Walked!Seeds, Walked!SeedsOf, End, Walked!Cap
    <3>3. (Walked!Best(Walked!Accepted(rows)))' = Walked!Best(Walked!Accepted(rows))
      BY <3>1 DEF Walked!Best, Walked!Accepted, Walked!Before, Walked!KeyOf, Walked!Rank
    <3>4. /\ (Walked!Rows(visited))' = Walked!Rows(visited)
          /\ (Walked!Rows(visited \ frontier))' = Walked!Rows(visited \ frontier)
          /\ Closed(visited \ frontier, visited)' <=> Closed(visited \ frontier, visited)
      BY <3>1 DEF Walked!Rows, Closed
    <3>5. WalkTyped' /\ WalkNeighbors' /\ WalkRows'
      BY <2>1, <3>1, <3>2, <3>3 DEF WalkInv, WalkTyped, WalkNeighbors, WalkRows
    <3>6. WalkReach' /\ WalkWhole'
      BY <2>1, <3>1, <3>2, <3>4 DEF WalkInv, WalkReach, WalkWhole
    <3> QED
      BY <3>5, <3>6 DEF WalkInv
  <2> QED
    BY <2>2, <2>3, <2>4
<1>3. WalkedInv => WalkIsBounded
  BY SearchAssumption, WalkGives DEF WalkedInv, WalkIsBounded
<1> QED
  BY <1>1, <1>2, <1>3, PTL DEF SearchSpec

-----------------------------------------------------------------------------
(* A finite set listed in an order, the places of a list, the first of     *)
(* some numbers.                                                           *)

LEMMA CountedAlike == \A S : Joined!Cardinality(S) = Cardinality(S) /\ (Joined!IsFiniteSet(S) <=> IsFiniteSet(S))
  BY DEF Joined!Cardinality, Cardinality, Joined!IsFiniteSet, IsFiniteSet
LEMMA OnList == \A s : Joined!ToSet(s) = {s[i] : i \in DOMAIN s}
  BY DEF Joined!ToSet

LEMMA RankedList ==
  ASSUME NEW S, IsFiniteSet(S), NEW R, Orders(R, S)
  PROVE  LET s == Joined!Ranked(S, R) IN
         /\ s \in Seq(S) /\ Len(s) = Cardinality(S) /\ Plain(s)
         /\ \A c \in S : Listed(c, s)
         /\ \A i, j \in 1..Len(s) : i < j => <<s[i], s[j]>> \in R
<1> DEFINE m == Cardinality(S)
           rank == RankOf(S, R)
           s == Joined!Ranked(S, R)
<1>1. m \in Nat
  BY FS_CardinalityType
<1>2. /\ rank \in [S -> 0..m - 1]
      /\ \A p, r \in S : <<p, r>> \in R => rank[p] < rank[r]
      /\ \A p, r \in S : p # r => rank[p] # rank[r]
      /\ \A k \in 0..m - 1 : \E r \in S : rank[r] = k
  BY RanksAll
<1>3. \A r \in S : Cardinality({y \in S : <<y, r>> \in R}) = rank[r]
  BY DEF RankOf, Below
<1> HIDE DEF rank
<1>4. s = [i \in 1..m |-> CHOOSE x \in S : Cardinality({y \in S : <<y, x>> \in R}) = i - 1]
  BY DEF Joined!Ranked, Joined!Cardinality, Cardinality
<1>5. ASSUME NEW i \in 1..m PROVE s[i] \in S /\ rank[s[i]] = i - 1
  <2>1. i - 1 \in 0..m - 1
    BY <1>1
  <2>2. \E x \in S : Cardinality({y \in S : <<y, x>> \in R}) = i - 1
    BY <1>2, <1>3, <2>1
  <2>3. s[i] \in S /\ Cardinality({y \in S : <<y, s[i]>> \in R}) = i - 1
    BY <1>4, <2>2
  <2> QED
    BY <1>3, <2>3
<1> HIDE DEF s
<1>6. s \in Seq(S) /\ Len(s) = m
  <2>1. s \in [1..m -> S]
    BY <1>4, <1>5
  <2> QED
    BY <1>1, <2>1
<1>7. ASSUME NEW i \in 1..m, NEW j \in 1..m, i < j PROVE <<s[i], s[j]>> \in R /\ s[i] # s[j]
  <2>1. s[i] \in S /\ s[j] \in S /\ rank[s[i]] < rank[s[j]] /\ rank[s[i]] \in Int /\ rank[s[j]] \in Int
    BY <1>1, <1>5, <1>7
  <2>2. s[i] # s[j] /\ <<s[j], s[i]>> \notin R
    BY <1>2, <2>1
  <2> QED
    BY <2>1, <2>2 DEF Orders
<1>8. \A c \in S : Listed(c, s)
  <2> SUFFICES ASSUME NEW c \in S PROVE \E i \in 1..m : s[i] = c
    BY <1>6 DEF Listed
  <2>1. rank[c] + 1 \in 1..m /\ rank[c] \in Nat
    BY <1>1, <1>2
  <2>2. s[rank[c] + 1] \in S /\ rank[s[rank[c] + 1]] = rank[c]
    BY <1>5, <2>1
  <2>3. s[rank[c] + 1] = c
    BY <1>2, <2>2
  <2> QED
    BY <2>1, <2>3
<1>9. Plain(s)
  <2> SUFFICES ASSUME NEW i \in 1..m, NEW j \in 1..m, i # j PROVE s[i] # s[j]
    BY <1>6 DEF Plain
  <2>1. i < j \/ j < i
    BY <1>1
  <2> QED
    BY <1>7, <2>1
<1> QED
  BY <1>6, <1>7, <1>8, <1>9 DEF s

\* Some numbers have a first one.
LEMMA FirstIs ==
  ASSUME NEW I \in SUBSET Nat, I # {}
  PROVE  Joined!First(I) \in I /\ \A j \in I : Joined!First(I) <= j
<1>1. IsWellFoundedOn(OpToRel(<,Nat), Nat)
  BY NatLessThanWellFounded
<1>2. PICK x \in I : \A y \in I : ~(<<y, x>> \in OpToRel(<,Nat))
  BY <1>1, WFMin
<1>3. \A y \in I : <<y, x>> \in OpToRel(<,Nat) <=> y < x
  BY DEF OpToRel
<1>4. ASSUME NEW y \in I PROVE x <= y
  <2>1. ~(y < x) /\ x \in Nat /\ y \in Nat
    BY <1>2, <1>3
  <2> QED
    BY <2>1
<1> QED
  BY <1>4 DEF Joined!First

\* What is at some places of a list, in order.
LEMMA PickedList ==
  ASSUME NEW S, NEW s \in Seq(S), NEW I \in SUBSET (1..Len(s))
  PROVE  LET t == Joined!Picked(s, I) IN
         /\ t \in Seq(S)
         /\ \E up \in [1..Len(t) -> I] :
              /\ \A k \in 1..Len(t) : t[k] = s[up[k]]
              /\ \A i \in I : \E k \in 1..Len(t) : up[k] = i
              /\ \A k, l \in 1..Len(t) : k < l => up[k] < up[l]
<1> DEFINE R == {p \in I \X I : p[1] < p[2]}
           up == Joined!Ranked(I, R)
           n == Cardinality(I)
           t == Joined!Picked(s, I)
<1>0. Len(s) \in Nat
  OBVIOUS
<1>1. IsFiniteSet(I)
  <2>1. 1 \in Int /\ Len(s) \in Int
    BY <1>0
  <2>2. IsFiniteSet(1..Len(s))
    BY <2>1, FS_Interval
  <2> QED
    BY <2>2, FS_Subset
<1>2. I \subseteq Int
  BY <1>0
<1>3. \A i, j \in I : <<i, j>> \in R <=> i < j
  OBVIOUS
<1> HIDE DEF R
<1>4. Orders(R, I)
  BY <1>2, <1>3 DEF Orders
<1>5. /\ up \in Seq(I) /\ Len(up) = n
      /\ \A i \in I : Listed(i, up)
      /\ \A i, j \in 1..Len(up) : i < j => <<up[i], up[j]>> \in R
  BY <1>1, <1>4, RankedList
<1>6. n \in Nat
  BY <1>1, FS_CardinalityType
<1>7. t = [k \in 1..n |-> s[up[k]]]
  BY CountedAlike DEF Joined!Picked, R
<1> HIDE DEF up, n, t
<1>8. up \in [1..n -> I]
  BY <1>5
<1>9. ASSUME NEW k \in 1..n PROVE up[k] \in 1..Len(s) /\ s[up[k]] \in S
  <2>1. up[k] \in I
    BY <1>8
  <2>2. up[k] \in 1..Len(s)
    BY <2>1
  <2> QED
    BY <2>2
<1>10. t \in Seq(S) /\ Len(t) = n /\ \A k \in 1..n : t[k] = s[up[k]]
  BY <1>6, <1>7, <1>9
<1>11. \A i \in I : \E k \in 1..n : up[k] = i
  BY <1>5 DEF Listed
<1>12. \A k, l \in 1..n : k < l => up[k] < up[l]
  BY <1>3, <1>5, <1>8
<1> QED
  BY <1>8, <1>10, <1>11, <1>12 DEF t

\* A list without repetition is as long as the set of what is on it.
LEMMA PlainCounts ==
  ASSUME NEW S, NEW s \in Seq(S), Plain(s)
  PROVE  Joined!Cardinality(Joined!ToSet(s)) = Len(s)
<1> DEFINE T == {s[i] : i \in 1..Len(s)}
           f == [i \in 1..Len(s) |-> s[i]]
<1>1. Joined!ToSet(s) = T /\ Len(s) \in Nat
  <2>1. DOMAIN s = 1..Len(s)
    OBVIOUS
  <2> QED
    BY <2>1, OnList
<1>2. f \in Bijection(1..Len(s), T)
  BY DEF Bijection, Injection, Surjection, IsInjective, Plain
<1>3. IsFiniteSet(1..Len(s)) /\ Cardinality(1..Len(s)) = Len(s)
  <2>1. 1 \in Int /\ Len(s) \in Int
    BY <1>1
  <2>2. IsFiniteSet(1..Len(s)) /\ Cardinality(1..Len(s)) = IF 1 > Len(s) THEN 0 ELSE Len(s) - 1 + 1
    BY <2>1, FS_Interval
  <2> QED
    BY <1>1, <2>2
<1>4. f \in Surjection(1..Len(s), T) /\ f \in Injection(1..Len(s), T)
  BY <1>2 DEF Bijection
<1>5. Cardinality(T) = Cardinality(1..Len(s))
  BY <1>3, <1>4, FS_Surjection
<1> QED
  BY <1>1, <1>3, <1>5, CountedAlike

-----------------------------------------------------------------------------
(* The anchors: a better rank in a lane is a larger share of the score.    *)

\* What a lane may return.
IsLane(l) == l \in Seq(Joined!Hits) /\ Len(l) <= HitLimit

LEMMA LanesGive ==
  ASSUME Joined!FusionAssumption, NEW l \in ByName \cup ByText
  PROVE  IsLane(l)
BY DEF IsLane, Joined!FusionAssumption

LEMMA BestHits ==
  ASSUME NEW l, IsLane(l), NEW a \in Joined!AnchorsOf(l)
  PROVE  /\ Joined!BestHit(l, a) \in 1..Len(l) /\ l[Joined!BestHit(l, a)].anchor = a
<1> DEFINE I == {i \in DOMAIN l : l[i].anchor = a}
<1>1. DOMAIN l = 1..Len(l) /\ Len(l) \in Nat
  BY DEF IsLane
<1>2. I \in SUBSET Nat /\ I # {}
  BY <1>1 DEF Joined!AnchorsOf
<1>3. Joined!First(I) \in I
  BY <1>2, FirstIs
<1> QED
  BY <1>1, <1>3 DEF Joined!BestHit

\* A rank is a number up to the limit of the lane, and a better hit has a smaller one.
LEMMA RanksOfLane ==
  ASSUME HitLimit \in Nat, NEW l, IsLane(l)
  PROVE  /\ \A a \in Joined!AnchorsOf(l) : Joined!RankIn(l, a) \in 1..HitLimit
         /\ \A a, b \in Joined!AnchorsOf(l) :
              Joined!BestHit(l, a) < Joined!BestHit(l, b) => Joined!RankIn(l, a) < Joined!RankIn(l, b)
<1> DEFINE A == Joined!AnchorsOf(l)
           R == {p \in A \X A : Joined!BestHit(l, p[1]) < Joined!BestHit(l, p[2])}
           f == [i \in 1..Len(l) |-> l[i].anchor]
           n == Len(l)
<1>1. n \in Nat /\ n <= HitLimit /\ DOMAIN l = 1..n
  BY DEF IsLane
<1>2. A = {l[i].anchor : i \in 1..n}
  BY <1>1 DEF Joined!AnchorsOf
<1>3. f \in Surjection(1..n, A)
  BY <1>2 DEF Surjection
<1>4. IsFiniteSet(1..n) /\ Cardinality(1..n) = n
  <2>1. 1 \in Int /\ n \in Int
    BY <1>1
  <2>2. IsFiniteSet(1..n) /\ Cardinality(1..n) = IF 1 > n THEN 0 ELSE n - 1 + 1
    BY <2>1, FS_Interval
  <2> QED
    BY <1>1, <2>2
<1>5. IsFiniteSet(A) /\ Cardinality(A) <= n
  BY <1>3, <1>4, FS_Surjection
<1>6. \A a \in A : Joined!BestHit(l, a) \in 1..n /\ l[Joined!BestHit(l, a)].anchor = a
  BY BestHits
<1> HIDE DEF A
<1>7. \A a, b \in A : <<a, b>> \in R <=> Joined!BestHit(l, a) < Joined!BestHit(l, b)
  OBVIOUS
<1>8. \A a, b \in A : Joined!BestHit(l, a) = Joined!BestHit(l, b) => a = b
  BY <1>6
<1> HIDE DEF R
<1>9. Orders(R, A)
  <2>1. \A a \in A : Joined!BestHit(l, a) \in Int
    BY <1>1, <1>6
  <2> QED
    BY <1>7, <1>8, <2>1 DEF Orders
<1>10. /\ \A a \in A : Cardinality(Below(A, R, a)) \in 0..Cardinality(A) - 1
       /\ \A a, b \in A : <<a, b>> \in R => Cardinality(Below(A, R, a)) < Cardinality(Below(A, R, b))
  BY <1>5, <1>9, BelowCounts
<1>11. ASSUME NEW a \in A PROVE Joined!RankIn(l, a) = 1 + Cardinality(Below(A, R, a))
  <2>1. {b \in A : Joined!BestHit(l, b) < Joined!BestHit(l, a)} = Below(A, R, a)
    BY <1>7 DEF Below
  <2> QED
    BY <2>1, CountedAlike DEF Joined!RankIn, A
<1>12. Cardinality(A) \in Nat
  BY <1>5, FS_CardinalityType
<1>13. ASSUME NEW a \in A PROVE Joined!RankIn(l, a) \in 1..HitLimit
  BY <1>1, <1>5, <1>10, <1>11, <1>12
<1>14. ASSUME NEW a \in A, NEW b \in A, Joined!BestHit(l, a) < Joined!BestHit(l, b)
       PROVE  Joined!RankIn(l, a) < Joined!RankIn(l, b)
  <2>1. Cardinality(Below(A, R, a)) < Cardinality(Below(A, R, b))
    BY <1>7, <1>10, <1>14
  <2>2. Cardinality(Below(A, R, a)) \in Int /\ Cardinality(Below(A, R, b)) \in Int
    BY <1>10, <1>12
  <2> QED
    BY <1>11, <2>1, <2>2
<1> QED
  BY <1>13, <1>14 DEF A

LEMMA SharesFall ==
  ASSUME Joined!FusionAssumption
  PROVE  /\ HitLimit \in Nat
         /\ \A r \in 1..HitLimit : Joined!Share(r) \in Nat /\ 0 < Joined!Share(r)
         /\ \A r, t \in 1..HitLimit : r < t => Joined!Share(t) < Joined!Share(r)
<1>1. HitLimit \in Nat /\ Unit \in Nat /\ Unit # 0
  BY DEF Joined!FusionAssumption
<1>2. ASSUME NEW r \in 1..HitLimit
      PROVE  Joined!Share(r) \in Nat /\ Unit = Joined!Share(r) * (60 + r) /\ 0 < Joined!Share(r)
  <2> DEFINE q == Joined!Share(r)
  <2>1. r \in Nat
    BY <1>1
  <2>2. q * (60 + r) = Unit
    BY DEF Joined!FusionAssumption
  <2>3. q \in Int
    BY <1>1, <2>1 DEF Joined!Share
  <2> HIDE DEF q
  <2>4. 0 < q
    BY <1>1, <2>1, <2>2, <2>3
  <2> QED
    BY <2>2, <2>3, <2>4 DEF q
<1>3. ASSUME NEW r \in 1..HitLimit, NEW t \in 1..HitLimit, r < t
      PROVE  Joined!Share(t) < Joined!Share(r)
  <2> DEFINE x == Joined!Share(r)
             y == Joined!Share(t)
  <2>1. x \in Nat /\ y \in Nat /\ Unit = x * (60 + r) /\ Unit = y * (60 + t) /\ 0 < y
    BY <1>2
  <2>2. r \in Nat /\ t \in Nat
    BY <1>1
  <2> HIDE DEF x, y
  <2>3. y * (60 + t) = y * (60 + r) + y * (t - r)
    BY <2>1, <2>2
  <2>4. 0 < y * (t - r)
    BY <1>3, <2>1, <2>2
  <2>5. y * (60 + r) < x * (60 + r)
    BY <2>1, <2>2, <2>3, <2>4
  <2>6. y < x
    BY <2>1, <2>2, <2>5
  <2> QED
    BY <2>6 DEF x, y
<1> QED
  BY <1>1, <1>2, <1>3

LEMMA ScoresAgree ==
  ASSUME Joined!FusionAssumption, name \in ByName, text \in ByText, vector \in ByText, NEW a, NEW b
  PROVE  /\ Joined!Score(a) \in Nat
         /\ Joined!Dominates(a, b) => Joined!Score(b) < Joined!Score(a)
<1>1. IsLane(name) /\ IsLane(text) /\ IsLane(vector)
  BY LanesGive
<1> DEFINE in(l, c) == IF c \in Joined!AnchorsOf(l) THEN Joined!Share(Joined!RankIn(l, c)) ELSE 0
<1>2. \A c : Joined!Score(c) = in(name, c) + in(text, c) + in(vector, c)
  BY DEF Joined!Score, Joined!In, Joined!Lanes
<1>3. ASSUME NEW l, IsLane(l)
      PROVE  /\ \A c : in(l, c) \in Nat
             /\ \A c : c \in Joined!AnchorsOf(l) => 0 < in(l, c)
             /\ Joined!NotBehind(a, b, l) => in(l, b) <= in(l, a)
             /\ Joined!NotBehind(a, b, l) /\ a \in Joined!AnchorsOf(l) => in(l, b) < in(l, a)
  <2>1. \A c : c \in Joined!AnchorsOf(l) => Joined!RankIn(l, c) \in 1..HitLimit
    BY <1>3, RanksOfLane, SharesFall
  <2>2. /\ \A c : c \in Joined!AnchorsOf(l) => in(l, c) \in Nat /\ 0 < in(l, c)
        /\ \A c : c \notin Joined!AnchorsOf(l) => in(l, c) = 0
    BY <2>1, SharesFall
  <2>3. ASSUME Joined!NotBehind(a, b, l), b \in Joined!AnchorsOf(l)
        PROVE  in(l, b) < in(l, a)
    <3>1. a \in Joined!AnchorsOf(l) /\ Joined!BestHit(l, a) < Joined!BestHit(l, b)
      BY <2>3 DEF Joined!NotBehind
    <3>2. Joined!RankIn(l, a) < Joined!RankIn(l, b)
      BY <1>3, <2>3, <3>1, RanksOfLane, SharesFall
    <3>3. Joined!Share(Joined!RankIn(l, b)) < Joined!Share(Joined!RankIn(l, a))
      BY <2>1, <2>3, <3>1, <3>2, SharesFall
    <3> QED
      BY <2>3, <3>1, <3>3
  <2>4. \A c : in(l, c) \in Nat
    BY <2>2
  <2> HIDE DEF in
  <2> QED
    BY <2>2, <2>3, <2>4
<1> HIDE DEF in
<1>4. Joined!Score(a) \in Nat
  BY <1>1, <1>2, <1>3
<1>5. ASSUME Joined!Dominates(a, b) PROVE Joined!Score(b) < Joined!Score(a)
  <2>1. Joined!ToSet(Joined!Lanes) = {name, text, vector}
    <3>1. DOMAIN Joined!Lanes = 1..3
      BY DEF Joined!Lanes
    <3>2. Joined!Lanes[1] = name /\ Joined!Lanes[2] = text /\ Joined!Lanes[3] = vector
      BY DEF Joined!Lanes
    <3>3. \A i \in 1..3 : i = 1 \/ i = 2 \/ i = 3
      OBVIOUS
    <3> QED
      BY <3>1, <3>2, <3>3, OnList
  <2>2. /\ Joined!NotBehind(a, b, name) /\ Joined!NotBehind(a, b, text) /\ Joined!NotBehind(a, b, vector)
        /\ \/ a \in Joined!AnchorsOf(name) \/ a \in Joined!AnchorsOf(text) \/ a \in Joined!AnchorsOf(vector)
    BY <1>5, <2>1 DEF Joined!Dominates
  <2>3. /\ {in(name, a), in(text, a), in(vector, a), in(name, b), in(text, b), in(vector, b)} \subseteq Nat
        /\ in(name, b) <= in(name, a) /\ in(text, b) <= in(text, a) /\ in(vector, b) <= in(vector, a)
        /\ \/ in(name, b) < in(name, a) \/ in(text, b) < in(text, a) \/ in(vector, b) < in(vector, a)
    BY <1>1, <1>3, <2>2
  <2> QED
    BY <1>2, <2>3
<1> QED
  BY <1>4, <1>5

\* The fused anchors are those of the lanes, each once, by score and id.
Ordered ==
  /\ fused \in Seq(Joined!Fusable) /\ Plain(fused)
  /\ \A a \in Joined!Fusable : Listed(a, fused)
  /\ \A i, j \in 1..Len(fused) : i < j => Joined!Ahead(fused[i], fused[j])

LEMMA AnchorsFinite ==
  ASSUME NEW l, IsLane(l)
  PROVE  IsFiniteSet(Joined!AnchorsOf(l)) /\ Joined!AnchorsOf(l) \subseteq Joined!ToSet(IdsInOrder)
<1>1. Len(l) \in Nat /\ DOMAIN l = 1..Len(l) /\ \A i \in 1..Len(l) : l[i] \in Joined!Hits
  BY DEF IsLane
<1> DEFINE f == [i \in 1..Len(l) |-> l[i].anchor]
<1>2. Joined!AnchorsOf(l) = {l[i].anchor : i \in 1..Len(l)}
  BY <1>1 DEF Joined!AnchorsOf
<1>3. f \in Surjection(1..Len(l), Joined!AnchorsOf(l))
  BY <1>2 DEF Surjection
<1>4. IsFiniteSet(1..Len(l))
  <2>1. 1 \in Int /\ Len(l) \in Int
    BY <1>1
  <2> QED
    BY <2>1, FS_Interval
<1>5. \A i \in 1..Len(l) : l[i].anchor \in Joined!ToSet(IdsInOrder)
  BY <1>1 DEF Joined!Hits
<1> QED
  BY <1>2, <1>3, <1>4, <1>5, FS_Surjection

LEMMA AnchorsFused ==
  ASSUME Joined!FusionAssumption, name \in ByName, text \in ByText, vector \in ByText, Joined!Fuse
  PROVE  Ordered'
<1> DEFINE A == Joined!Fusable
           R == {p \in A \X A : Joined!Ahead(p[1], p[2])}
<1>1. /\ fused' = Joined!Ranked(A, R) /\ UNCHANGED <<name, text, vector>>
  BY DEF Joined!Fuse
<1>2. IsFiniteSet(A) /\ A \subseteq Joined!ToSet(IdsInOrder)
  <2>1. IsLane(name) /\ IsLane(text) /\ IsLane(vector)
    BY LanesGive
  <2>2. \A l : IsLane(l) => IsFiniteSet(Joined!AnchorsOf(l)) /\ Joined!AnchorsOf(l) \subseteq Joined!ToSet(IdsInOrder)
    BY AnchorsFinite
  <2>3. IsFiniteSet(Joined!AnchorsOf(name) \cup Joined!AnchorsOf(text))
    BY <2>1, <2>2, FS_Union
  <2>4. IsFiniteSet((Joined!AnchorsOf(name) \cup Joined!AnchorsOf(text)) \cup Joined!AnchorsOf(vector))
    BY <2>1, <2>2, <2>3, FS_Union
  <2> QED
    BY <2>1, <2>2, <2>4 DEF Joined!Fusable
<1>3. /\ A' = A
      /\ \A a, b : Joined!Ahead(a, b)' <=> Joined!Ahead(a, b)
  BY <1>1 DEF Joined!Fusable, Joined!Ahead, Joined!Score, Joined!In, Joined!Lanes, Joined!Place
<1>4. \A a, b \in A : <<a, b>> \in R <=> Joined!Ahead(a, b)
  OBVIOUS
<1> HIDE DEF R
<1>5. Orders(R, A)
  <2>1. \A a \in A : Joined!Score(a) \in Nat
    BY ScoresAgree
  <2>2. \A a \in A : Joined!Place(a) \in Int /\ IdsInOrder[Joined!Place(a)] = a
    <3>1. \A a \in A : \E i \in DOMAIN IdsInOrder : IdsInOrder[i] = a
      BY <1>2, OnList
    <3>2. \A i \in DOMAIN IdsInOrder : i \in Int
      <4>1. IdsInOrder \in Seq(Joined!ToSet(IdsInOrder))
        BY DEF Joined!FusionAssumption
      <4> QED
        BY <4>1
    <3> QED
      BY <3>1, <3>2 DEF Joined!Place
  <2>3. \A a, b \in A : Joined!Place(a) = Joined!Place(b) => a = b
    BY <2>2
  <2> HIDE DEF A
  <2> QED
    BY <1>4, <2>1, <2>2, <2>3 DEF Orders, Joined!Ahead
<1> HIDE DEF A
<1>6. /\ fused' \in Seq(A) /\ Plain(fused') /\ \A a \in A : Listed(a, fused')
      /\ \A i, j \in 1..Len(fused') : i < j => <<fused'[i], fused'[j]>> \in R
  BY <1>1, <1>2, <1>5, RankedList
<1>7. ASSUME NEW i \in 1..Len(fused'), NEW j \in 1..Len(fused'), i < j PROVE Joined!Ahead(fused[i], fused[j])'
  <2>1. Joined!Ahead(fused'[i], fused'[j])
    <3>1. fused'[i] \in A /\ fused'[j] \in A /\ <<fused'[i], fused'[j]>> \in R
      BY <1>6, <1>7
    <3> QED
      BY <1>4, <3>1
  <2> QED
    BY <1>1, <2>1 DEF Joined!Ahead, Joined!Score, Joined!In, Joined!Lanes, Joined!Place
<1> QED
  BY <1>3, <1>6, <1>7 DEF Ordered, A

LEMMA OrderAgrees ==
  ASSUME Joined!FusionAssumption, name \in ByName, text \in ByText, vector \in ByText, Ordered,
         NEW i \in DOMAIN fused, NEW j \in DOMAIN fused, Joined!Dominates(fused[i], fused[j]), i # j
  PROVE  i < j
<1>1. DOMAIN fused = 1..Len(fused) /\ Len(fused) \in Nat
  BY DEF Ordered
<1>2. /\ Joined!Score(fused[i]) \in Nat /\ Joined!Score(fused[j]) \in Nat
      /\ Joined!Score(fused[j]) < Joined!Score(fused[i])
  BY ScoresAgree
<1>3. ~Joined!Ahead(fused[j], fused[i])
  BY <1>2 DEF Joined!Ahead
<1> QED
  BY <1>1, <1>3 DEF Ordered

-----------------------------------------------------------------------------
(* The chunks of an anchor.                                                *)

SymbolOfAll(S, a) == S \subseteq Pieces /\ a # "" /\ \A c \in S : PieceSymbol[c] = a

\* What represents the chunks of a symbol: its body, or all the parts in the order of the source.
LEMMA SymbolIsWhole ==
  ASSUME Joined!FusionAssumption, NEW a, NEW S, SymbolOfAll(S, a)
  PROVE  LET r == Joined!Representatives(S) IN
         /\ r \in Seq(S) /\ Plain(r) /\ (S # {} => 0 < Len(r))
         /\ S # {} => \/ \E i \in 1..Len(r) : PieceKind[r[i]] = "symbol_body"
                      \/ /\ \A c \in S : Listed(c, r)
                         /\ \A i, j \in 1..Len(r) : i < j => PieceOrdinal[r[i]] < PieceOrdinal[r[j]]
                         /\ \A c \in S : PieceKind[c] = "symbol_part"
<1> DEFINE r == Joined!Representatives(S)
           bodies == Joined!OfKind(S, {"symbol_body"})
           parts == Joined!OfKind(S, {"symbol_part"})
<1>1. /\ IsFiniteSet(S)
      /\ \A c \in S : PieceOrdinal[c] \in Nat /\ PieceSize[c] \in Nat /\ PieceKind[c] \in {"symbol_body", "symbol_part"}
      /\ \A c, d \in S : c # d => PieceOrdinal[c] # PieceOrdinal[d]
  <2>1. /\ \A c \in Pieces : {PieceOrdinal[c], PieceSize[c]} \subseteq Nat
        /\ \A c \in Pieces : PieceSymbol[c] # "" => PieceKind[c] \in {"symbol_body", "symbol_part"}
        /\ \A c, d \in Pieces : PieceSymbol[c] = PieceSymbol[d] /\ PieceSymbol[c] # "" /\ c # d =>
                                  PieceOrdinal[c] # PieceOrdinal[d]
    BY DEF Joined!FusionAssumption
  <2>2. IsFiniteSet(S)
    BY FS_Subset, CountedAlike DEF SymbolOfAll, Joined!FusionAssumption
  <2> QED
    BY <2>1, <2>2 DEF SymbolOfAll
<1>2. CASE S = {}
  <2>1. r = <<>>
    BY <1>2 DEF Joined!Representatives, Joined!OfKind
  <2>2. r \in Seq(S) /\ Len(r) = 0
    BY <2>1
  <2> HIDE DEF r
  <2> QED
    BY <1>2, <2>2 DEF Plain, r
<1>3. CASE bodies # {}
  <2> DEFINE R == {p \in bodies \X bodies : Joined!Larger(p[1], p[2])}
             s == Joined!Ranked(bodies, R)
  <2>1. IsFiniteSet(bodies) /\ bodies \subseteq S /\ \A c \in bodies : PieceKind[c] = "symbol_body"
    <3>1. bodies \subseteq S /\ \A c \in bodies : PieceKind[c] = "symbol_body"
      BY DEF Joined!OfKind
    <3> QED
      BY <1>1, <3>1, FS_Subset
  <2>2. \A c, d \in bodies : <<c, d>> \in R <=> Joined!Larger(c, d)
    OBVIOUS
  <2>6. r = <<Joined!Largest(bodies)>>
    <3>1. S # {}
      BY <1>3, <2>1
    <3> QED
      BY <1>3, <3>1 DEF Joined!Representatives
  <2> HIDE DEF R, bodies
  <2>3. Orders(R, bodies)
    BY <1>1, <2>1, <2>2 DEF Orders, Joined!Larger
  <2>4. /\ s \in Seq(bodies) /\ \A c \in bodies : Listed(c, s)
        /\ \A i, j \in 1..Len(s) : i < j => <<s[i], s[j]>> \in R
    BY <2>1, <2>3, RankedList
  <2> HIDE DEF s
  <2>5. \E c \in bodies : \A d \in bodies \ {c} : Joined!Larger(c, d)
    <3>1. 1 \in 1..Len(s) /\ s[1] \in bodies
      <4>1. PICK c \in bodies : TRUE
        BY <1>3
      <4>2. PICK i \in 1..Len(s) : s[i] = c
        BY <2>4, <4>1 DEF Listed
      <4>3. Len(s) \in Nat
        BY <2>4
      <4> QED
        BY <2>4, <4>2, <4>3
    <3>2. ASSUME NEW d \in bodies \ {s[1]} PROVE Joined!Larger(s[1], d)
      <4>1. PICK i \in 1..Len(s) : s[i] = d
        BY <2>4 DEF Listed
      <4>2. i # 1
        BY <4>1
      <4>3. 1 < i
        BY <4>1, <4>2
      <4>4. <<s[1], s[i]>> \in R
        BY <2>4, <3>1, <4>1, <4>3
      <4> QED
        BY <2>2, <3>1, <4>1, <4>4
    <3> QED
      BY <3>1, <3>2
  <2>7. Joined!Largest(bodies) \in bodies
    BY <2>5 DEF Joined!Largest
  <2>8. r \in Seq(S) /\ Len(r) = 1 /\ PieceKind[r[1]] = "symbol_body"
    BY <2>1, <2>6, <2>7
  <2> HIDE DEF r
  <2> QED
    BY <2>8 DEF Plain, r
<1>4. CASE S # {} /\ bodies = {}
  <2> DEFINE R == {p \in S \X S : PieceOrdinal[p[1]] < PieceOrdinal[p[2]]}
  <2>1. parts = S /\ \A c \in S : PieceKind[c] = "symbol_part"
    BY <1>1, <1>4 DEF Joined!OfKind
  <2>2. r = Joined!AllParts(parts)
    <3>1. S # {} /\ bodies = {} /\ parts # {}
      BY <1>4, <2>1
    <3> HIDE DEF bodies
    <3> QED
      BY <3>1 DEF Joined!Representatives, bodies
  <2>3. r = Joined!Ranked(S, R)
    BY <2>1, <2>2 DEF Joined!AllParts
  <2>4. \A c, d \in S : <<c, d>> \in R <=> PieceOrdinal[c] < PieceOrdinal[d]
    OBVIOUS
  <2> HIDE DEF R, r
  <2>5. Orders(R, S)
    BY <1>1, <2>4 DEF Orders
  <2>6. /\ r \in Seq(S) /\ Len(r) = Cardinality(S) /\ Plain(r) /\ \A c \in S : Listed(c, r)
        /\ \A i, j \in 1..Len(r) : i < j => <<r[i], r[j]>> \in R
    BY <1>1, <2>3, <2>5, RankedList
  <2>7. ASSUME NEW i \in 1..Len(r), NEW j \in 1..Len(r), i < j PROVE PieceOrdinal[r[i]] < PieceOrdinal[r[j]]
    <3>1. r[i] \in S /\ r[j] \in S /\ <<r[i], r[j]>> \in R
      BY <2>6, <2>7
    <3> QED
      BY <2>4, <3>1
  <2>8. 0 < Len(r)
    <3>1. PICK c \in S : TRUE
      BY <1>4
    <3>2. PICK i \in 1..Len(r) : r[i] = c
      BY <2>6, <3>1 DEF Listed
    <3> QED
      BY <2>6, <3>2
  <2> QED
    BY <2>1, <2>6, <2>7, <2>8 DEF r
<1> QED
  BY <1>2, <1>3, <1>4

Lane == name \o text \o vector

LEMMA LaneIs ==
  ASSUME Joined!FusionAssumption, name \in ByName, text \in ByText, vector \in ByText
  PROVE  /\ Joined!LaneHits = Lane /\ Lane \in Seq(Joined!Hits)
         /\ Joined!Fusable = {Lane[i].anchor : i \in 1..Len(Lane)}
<1>1. /\ name \in Seq(Joined!Hits) /\ text \in Seq(Joined!Hits) /\ vector \in Seq(Joined!Hits)
  BY LanesGive DEF IsLane
<1>2. Joined!LaneHits = Lane /\ Lane \in Seq(Joined!Hits)
  BY <1>1 DEF Joined!LaneHits, Lane
<1>3. \A l \in Seq(Joined!Hits) : Joined!AnchorsOf(l) = {l[i].anchor : i \in 1..Len(l)}
  <2>1. \A l \in Seq(Joined!Hits) : DOMAIN l = 1..Len(l)
    OBVIOUS
  <2> QED
    BY <2>1 DEF Joined!AnchorsOf
<1>4. ASSUME NEW l \in Seq(Joined!Hits), NEW k \in Seq(Joined!Hits)
      PROVE  {(l \o k)[i].anchor : i \in 1..Len(l \o k)} =
               {l[i].anchor : i \in 1..Len(l)} \cup {k[i].anchor : i \in 1..Len(k)}
  <2>1. /\ Len(l \o k) = Len(l) + Len(k) /\ Len(l) \in Nat /\ Len(k) \in Nat
        /\ \A i \in 1..Len(l) : (l \o k)[i] = l[i]
        /\ \A i \in 1..Len(k) : (l \o k)[Len(l) + i] = k[i]
    BY Concatenated
  <2> DEFINE u == l \o k
  <2> HIDE DEF u
  <2>2. \A i \in 1..Len(u) : i \in 1..Len(l) \/ (i - Len(l) \in 1..Len(k) /\ Len(l) + (i - Len(l)) = i)
    BY <2>1 DEF u
  <2>3. \A i \in 1..Len(u) : (i \in 1..Len(l) /\ u[i] = l[i]) \/ (i - Len(l) \in 1..Len(k) /\ u[i] = k[i - Len(l)])
    BY <2>1, <2>2 DEF u
  <2>4. /\ \A i \in 1..Len(l) : i \in 1..Len(u) /\ u[i] = l[i]
        /\ \A i \in 1..Len(k) : Len(l) + i \in 1..Len(u) /\ u[Len(l) + i] = k[i]
    BY <2>1 DEF u
  <2>5. {u[i].anchor : i \in 1..Len(u)} \subseteq {l[i].anchor : i \in 1..Len(l)} \cup {k[i].anchor : i \in 1..Len(k)}
    BY <2>3
  <2>6. {l[i].anchor : i \in 1..Len(l)} \cup {k[i].anchor : i \in 1..Len(k)} \subseteq {u[i].anchor : i \in 1..Len(u)}
    BY <2>4
  <2> QED
    BY <2>5, <2>6 DEF u
<1>5. Joined!AnchorsOf(name \o text) = Joined!AnchorsOf(name) \cup Joined!AnchorsOf(text)
  <2>1. name \o text \in Seq(Joined!Hits)
    BY <1>1
  <2> QED
    BY <1>1, <1>3, <1>4, <2>1
<1>6. Joined!AnchorsOf(Lane) = Joined!AnchorsOf(name \o text) \cup Joined!AnchorsOf(vector)
  <2>1. name \o text \in Seq(Joined!Hits)
    BY <1>1
  <2> QED
    BY <1>1, <1>2, <1>3, <1>4, <2>1 DEF Lane
<1> QED
  BY <1>2, <1>3, <1>5, <1>6 DEF Joined!Fusable

\* The chunks the lanes hit under an anchor.
LEMMA HitsOfAnchor ==
  ASSUME Joined!FusionAssumption, name \in ByName, text \in ByText, vector \in ByText, NEW a
  PROVE  /\ Joined!HitChunks(a) \in Seq(Pieces)
         /\ \A c : Listed(c, Joined!HitChunks(a)) <=>
              \E i \in 1..Len(Lane) : Lane[i].anchor = a /\ Lane[i].chunk = c /\ c # "no"
<1> DEFINE I == {i \in DOMAIN Joined!LaneHits : Joined!LaneHits[i].anchor = a /\ Joined!LaneHits[i].chunk # "no"}
           mine == Joined!Picked(Lane, I)
<1>1. Joined!LaneHits = Lane /\ Lane \in Seq(Joined!Hits) /\ DOMAIN Lane = 1..Len(Lane)
  BY LaneIs
<1>2. I = {i \in 1..Len(Lane) : Lane[i].anchor = a /\ Lane[i].chunk # "no"}
  BY <1>1
<1> HIDE DEF I
<1>3. I \in SUBSET (1..Len(Lane))
  BY <1>2
<1>4. /\ mine \in Seq(Joined!Hits)
      /\ \E up \in [1..Len(mine) -> I] :
           /\ \A k \in 1..Len(mine) : mine[k] = Lane[up[k]]
           /\ \A i \in I : \E k \in 1..Len(mine) : up[k] = i
           /\ \A k, l \in 1..Len(mine) : k < l => up[k] < up[l]
  BY <1>1, <1>3, PickedList
<1>5. Joined!HitChunks(a) = [k \in DOMAIN mine |-> mine[k].chunk]
  BY <1>1 DEF Joined!HitChunks, I
<1> HIDE DEF mine
<1>6. PICK up \in [1..Len(mine) -> I] :
           /\ \A k \in 1..Len(mine) : mine[k] = Lane[up[k]]
           /\ \A i \in I : \E k \in 1..Len(mine) : up[k] = i
  BY <1>4
<1>7. DOMAIN mine = 1..Len(mine) /\ Len(mine) \in Nat
  BY <1>4
<1>8. \A i \in 1..Len(Lane) : Lane[i].chunk = "no" \/ Lane[i].chunk \in Pieces
  BY <1>1 DEF Joined!Hits
<1>9. \A k \in 1..Len(mine) : up[k] \in I /\ mine[k].chunk \in Pieces
  BY <1>2, <1>6, <1>8
<1>10. /\ Joined!HitChunks(a) \in Seq(Pieces) /\ Len(Joined!HitChunks(a)) = Len(mine)
       /\ \A k \in 1..Len(mine) : Joined!HitChunks(a)[k] = mine[k].chunk
  BY <1>5, <1>7, <1>9
<1>11. ASSUME NEW c, Listed(c, Joined!HitChunks(a))
       PROVE  \E i \in 1..Len(Lane) : Lane[i].anchor = a /\ Lane[i].chunk = c /\ c # "no"
  <2>1. PICK k \in 1..Len(mine) : mine[k].chunk = c
    BY <1>10, <1>11 DEF Listed
  <2>2. up[k] \in 1..Len(Lane) /\ Lane[up[k]].anchor = a /\ Lane[up[k]].chunk # "no" /\ mine[k] = Lane[up[k]]
    BY <1>2, <1>6, <1>9, <2>1
  <2> QED
    BY <2>1, <2>2
<1>12. ASSUME NEW i \in 1..Len(Lane), Lane[i].anchor = a, Lane[i].chunk # "no"
       PROVE  Listed(Lane[i].chunk, Joined!HitChunks(a))
  <2>1. i \in I
    BY <1>2, <1>12
  <2>2. PICK k \in 1..Len(mine) : up[k] = i
    BY <1>6, <2>1
  <2>3. Joined!HitChunks(a)[k] = Lane[i].chunk
    BY <1>6, <1>10, <2>2
  <2> QED
    BY <1>10, <2>2, <2>3 DEF Listed
<1> QED
  BY <1>10, <1>11, <1>12

\* Every fused anchor brings chunks of its own, or that were hit under it.
LEMMA GroupGives ==
  ASSUME Joined!FusionAssumption, name \in ByName, text \in ByText, vector \in ByText, Ordered,
         NEW a \in Joined!Fusable
  PROVE  /\ Joined!Group(a) \in Seq(Pieces)
         /\ \A c : Listed(c, Joined!HitChunks(a)) => Listed(c, Joined!Group(a))
         /\ \A c : Listed(c, Joined!Group(a)) =>
              \/ \E i \in 1..Len(Lane) : Lane[i].anchor = a /\ Lane[i].chunk = c
              \/ PieceSymbol[c] = a /\ a # "" /\ Joined!HitChunks(a) = <<>>
         /\ Joined!HitChunks(a) = <<>> => /\ a # "" /\ Joined!OfAnchor(a) = {c \in Pieces : PieceSymbol[c] = a}
                                          /\ Joined!Group(a) = Joined!Representatives(Joined!OfAnchor(a))
<1>1. /\ Joined!LaneHits = Lane /\ Lane \in Seq(Joined!Hits)
      /\ Joined!Fusable = {Lane[i].anchor : i \in 1..Len(Lane)}
  BY LaneIs
<1>2. /\ Joined!HitChunks(a) \in Seq(Pieces)
      /\ \A c : Listed(c, Joined!HitChunks(a)) <=>
           \E i \in 1..Len(Lane) : Lane[i].anchor = a /\ Lane[i].chunk = c /\ c # "no"
  BY HitsOfAnchor
<1>3. CASE Joined!HitChunks(a) # <<>>
  <2>1. Joined!Group(a) = Joined!HitChunks(a)
    BY <1>3 DEF Joined!Group
  <2> QED
    BY <1>2, <1>3, <2>1
<1>4. CASE Joined!HitChunks(a) = <<>>
  <2> DEFINE S == {c \in Pieces : PieceSymbol[c] = a}
  <2>1. PICK i \in 1..Len(Lane) : Lane[i].anchor = a
    BY <1>1
  <2>2. Lane[i] \in Joined!Hits /\ ~Listed(Lane[i].chunk, Joined!HitChunks(a))
    BY <1>1, <1>4, <2>1 DEF Listed
  <2>3. Lane[i].chunk = "no"
    BY <1>2, <2>1, <2>2
  <2>4. a \in Joined!ToSet(IdsInOrder) /\ \A c \in Pieces : PieceFile[c] # a
    BY <2>1, <2>2, <2>3 DEF Joined!Hits
  <2>5. a # ""
    BY <2>4 DEF Joined!FusionAssumption
  <2>6. a \in Joined!ToSet(fused)
    <3>1. PICK k \in 1..Len(fused) : fused[k] = a
      BY DEF Ordered, Listed
    <3>2. DOMAIN fused = 1..Len(fused)
      BY DEF Ordered
    <3> QED
      BY <3>1, <3>2, OnList
  <2>7. Joined!OfAnchor(a) = S
    BY <2>4, <2>5, <2>6 DEF Joined!OfAnchor, Joined!Loaded, Joined!Anchor
  <2>8. Joined!Group(a) = Joined!Representatives(S)
    BY <1>4, <2>7 DEF Joined!Group
  <2>9. Joined!Representatives(S) \in Seq(S)
    BY <2>5, SymbolIsWhole DEF SymbolOfAll
  <2>10. \A c : ~Listed(c, Joined!HitChunks(a))
    BY <1>4 DEF Listed
  <2>11. \A c : Listed(c, Joined!Group(a)) => c \in S
    BY <2>8, <2>9 DEF Listed
  <2>12. Joined!Group(a) \in Seq(Pieces)
    BY <2>8, <2>9
  <2> QED
    BY <1>4, <2>5, <2>7, <2>8, <2>10, <2>11, <2>12
<1> QED
  BY <1>3, <1>4

\* The groups, one after the other, without what was gathered before.
GroupOf(groups, n, c) == Joined!First({k \in 1..n : Listed(c, groups[k])})
PlaceOf(groups, n, c) == LET g == groups[GroupOf(groups, n, c)] IN Joined!First({m \in 1..Len(g) : g[m] = c})

LEMMA UnseenList ==
  ASSUME IsFiniteSet(Pieces), NEW n \in Nat, NEW groups \in [1..n -> Seq(Pieces)]
  PROVE  LET t == Joined!Unseen(groups) IN
         /\ t \in Seq(Pieces) /\ Plain(t)
         /\ \A c : Listed(c, t) <=> \E k \in 1..n : Listed(c, groups[k])
         /\ \A i, j \in 1..Len(t) : i < j =>
              \/ GroupOf(groups, n, t[i]) < GroupOf(groups, n, t[j])
              \/ /\ GroupOf(groups, n, t[i]) = GroupOf(groups, n, t[j])
                 /\ PlaceOf(groups, n, t[i]) < PlaceOf(groups, n, t[j])
         /\ \A c : Listed(c, t) =>
              LET k == GroupOf(groups, n, c)
                  m == PlaceOf(groups, n, c)
              IN /\ k \in 1..n /\ m \in 1..Len(groups[k]) /\ groups[k][m] = c
                 /\ \A h \in 1..n : Listed(c, groups[h]) => k <= h
<1> DEFINE gathered == {c \in Pieces : \E k \in 1..n : Listed(c, groups[k])}
           group == [c \in gathered |-> GroupOf(groups, n, c)]
           place == [c \in gathered |-> PlaceOf(groups, n, c)]
           R == {p \in gathered \X gathered : Joined!SeenBefore(groups, p[1], p[2])}
           t == Joined!Ranked(gathered, R)
<1>1. \A k \in 1..n : groups[k] \in Seq(Pieces) /\ DOMAIN groups[k] = 1..Len(groups[k]) /\ Len(groups[k]) \in Nat
  <2>1. \A k \in 1..n : groups[k] \in Seq(Pieces)
    OBVIOUS
  <2> QED
    BY <2>1
<1>2. \A c : \A k \in 1..n : c \in Joined!ToSet(groups[k]) <=> Listed(c, groups[k])
  BY <1>1, OnList DEF Listed
<1>3. \A k \in 1..n : \A c : Listed(c, groups[k]) => c \in Pieces
  BY <1>1 DEF Listed
<1>4. UNION {Joined!ToSet(groups[k]) : k \in DOMAIN groups} = gathered
  <2>1. DOMAIN groups = 1..n
    OBVIOUS
  <2> QED
    BY <1>2, <1>3, <2>1
<1>5. ASSUME NEW c \in gathered
      PROVE  /\ Joined!First({k \in DOMAIN groups : c \in Joined!ToSet(groups[k])}) = GroupOf(groups, n, c)
             /\ GroupOf(groups, n, c) \in 1..n /\ Listed(c, groups[GroupOf(groups, n, c)])
             /\ \A h \in 1..n : Listed(c, groups[h]) => GroupOf(groups, n, c) <= h
  <2> DEFINE K == {k \in 1..n : Listed(c, groups[k])}
  <2>1. {k \in DOMAIN groups : c \in Joined!ToSet(groups[k])} = K
    BY <1>2
  <2>2. K \in SUBSET Nat /\ K # {}
    <3>1. \E k \in 1..n : Listed(c, groups[k])
      OBVIOUS
    <3>2. \A k \in 1..n : k \in Nat
      OBVIOUS
    <3> HIDE DEF gathered
    <3> QED
      BY <3>1, <3>2
  <2>3. Joined!First(K) \in K /\ \A j \in K : Joined!First(K) <= j
    BY <2>2, FirstIs
  <2> QED
    BY <2>1, <2>3 DEF GroupOf
<1>6. ASSUME NEW c \in gathered
      PROVE  LET k == GroupOf(groups, n, c) IN
             /\ Joined!First({m \in DOMAIN groups[k] : groups[k][m] = c}) = PlaceOf(groups, n, c)
             /\ PlaceOf(groups, n, c) \in 1..Len(groups[k]) /\ groups[k][PlaceOf(groups, n, c)] = c
  <2> DEFINE g == groups[GroupOf(groups, n, c)]
             M == {m \in 1..Len(g) : g[m] = c}
  <2>1. DOMAIN g = 1..Len(g) /\ Len(g) \in Nat /\ Listed(c, g)
    BY <1>1, <1>5
  <2>2. PlaceOf(groups, n, c) = Joined!First(M)
    BY DEF PlaceOf
  <2> HIDE DEF g
  <2>3. M \in SUBSET Nat /\ M # {}
    <3>1. \E m \in 1..Len(g) : g[m] = c
      BY <2>1 DEF Listed
    <3>2. \A m \in 1..Len(g) : m \in Nat
      BY <2>1
    <3> HIDE DEF gathered
    <3> QED
      BY <3>1, <3>2
  <2>4. Joined!First(M) \in M
    BY <2>3, FirstIs
  <2>5. {m \in DOMAIN g : g[m] = c} = M
    BY <2>1
  <2> QED
    BY <2>2, <2>4, <2>5 DEF g
<1>7. ASSUME NEW c \in gathered, NEW d \in gathered
      PROVE  Joined!SeenBefore(groups, c, d) <=>
               \/ GroupOf(groups, n, c) < GroupOf(groups, n, d)
               \/ /\ GroupOf(groups, n, c) = GroupOf(groups, n, d)
                  /\ PlaceOf(groups, n, c) < PlaceOf(groups, n, d)
  <2>1. /\ Joined!FirstGroup(groups, c) = GroupOf(groups, n, c)
        /\ Joined!FirstGroup(groups, d) = GroupOf(groups, n, d)
    BY <1>5 DEF Joined!FirstGroup
  <2>2. /\ Joined!FirstPlace(groups[GroupOf(groups, n, c)], c) = PlaceOf(groups, n, c)
        /\ Joined!FirstPlace(groups[GroupOf(groups, n, d)], d) = PlaceOf(groups, n, d)
    BY <1>6 DEF Joined!FirstPlace
  <2> HIDE DEF gathered
  <2> QED
    BY <2>1, <2>2 DEF Joined!SeenBefore
<1>19. Joined!Unseen(groups) = t
  BY <1>4 DEF Joined!Unseen
<1>8. /\ \A c \in gathered : group[c] = GroupOf(groups, n, c) /\ place[c] = PlaceOf(groups, n, c)
      /\ \A c \in gathered : group[c] \in 1..n /\ place[c] \in 1..Len(groups[group[c]]) /\ groups[group[c]][place[c]] = c
  BY <1>5, <1>6
<1>9. IsFiniteSet(gathered) /\ gathered \subseteq Pieces
  BY FS_Subset
<1>10. \A c, d \in gathered : <<c, d>> \in R <=> group[c] < group[d] \/ (group[c] = group[d] /\ place[c] < place[d])
  <2>1. \A c, d \in gathered : <<c, d>> \in R <=> Joined!SeenBefore(groups, c, d)
    OBVIOUS
  <2> HIDE DEF R, gathered
  <2>2. \A c \in gathered : group[c] = GroupOf(groups, n, c) /\ place[c] = PlaceOf(groups, n, c)
    BY <1>8
  <2> QED
    BY <1>7, <2>1, <2>2
<1>11. \A c : c \in gathered <=> \E k \in 1..n : Listed(c, groups[k])
  BY <1>3
<1> HIDE DEF gathered, group, place, R
<1>12. \A c \in gathered : group[c] \in Int /\ place[c] \in Int
  BY <1>1, <1>8
<1>13. \A c, d \in gathered : group[c] = group[d] /\ place[c] = place[d] => c = d
  BY <1>8
<1>14. Orders(R, gathered)
  BY <1>10, <1>12, <1>13 DEF Orders
<1>15. /\ t \in Seq(gathered) /\ Plain(t)
       /\ \A c \in gathered : Listed(c, t)
       /\ \A i, j \in 1..Len(t) : i < j => <<t[i], t[j]>> \in R
  BY <1>9, <1>14, RankedList
<1> HIDE DEF t
<1>16. t \in Seq(Pieces)
  BY <1>9, <1>15
<1>17. \A c : Listed(c, t) <=> c \in gathered
  BY <1>15 DEF Listed
<1>18. ASSUME NEW i \in 1..Len(t), NEW j \in 1..Len(t), i < j
       PROVE  \/ GroupOf(groups, n, t[i]) < GroupOf(groups, n, t[j])
              \/ /\ GroupOf(groups, n, t[i]) = GroupOf(groups, n, t[j])
                 /\ PlaceOf(groups, n, t[i]) < PlaceOf(groups, n, t[j])
  <2>1. t[i] \in gathered /\ t[j] \in gathered /\ <<t[i], t[j]>> \in R
    BY <1>15, <1>18
  <2>2. ASSUME NEW c \in gathered, NEW d \in gathered, <<c, d>> \in R
        PROVE  \/ GroupOf(groups, n, c) < GroupOf(groups, n, d)
               \/ /\ GroupOf(groups, n, c) = GroupOf(groups, n, d)
                  /\ PlaceOf(groups, n, c) < PlaceOf(groups, n, d)
    BY <1>8, <1>10, <2>2
  <2> QED
    BY <2>1, <2>2
<1> QED
  BY <1>5, <1>6, <1>19, <1>11, <1>15, <1>16, <1>17, <1>18

\* A symbol is whole in a list: by its body, or by all its parts in order.
WholeIn(a, t) ==
  \/ \E i \in 1..Len(t) : PieceSymbol[t[i]] = a /\ PieceKind[t[i]] = "symbol_body"
  \/ /\ \A c \in Pieces : PieceSymbol[c] = a => Listed(c, t)
     /\ \A i, j \in 1..Len(t) : i < j /\ PieceSymbol[t[i]] = a /\ PieceSymbol[t[j]] = a =>
          PieceOrdinal[t[i]] < PieceOrdinal[t[j]]
ByItself(a) == Joined!HitChunks(a) = <<>> /\ \E c \in Pieces : PieceSymbol[c] = a

\* The path of a file hits the first part of a symbol, if there is no body in it.
LEMMA FirstPart ==
  ASSUME Joined!FusionAssumption, NEW x \in Pieces, NEW y \in Pieces, PieceFile[x] = PieceFile[y],
         PieceKind[x] = "symbol_part", PieceKind[y] = "symbol_part", x \in Joined!FileChunks(PieceFile[x])
  PROVE  PieceOrdinal[x] <= PieceOrdinal[y]
<1> DEFINE all == {c \in Pieces : PieceFile[c] = PieceFile[x]}
           bodies == Joined!OfKind(all, {"symbol_body"})
           parts == Joined!OfKind(all, {"symbol_part"})
<1>1. x \in parts /\ y \in parts
  BY DEF Joined!OfKind
<1>2. x \notin bodies
  BY DEF Joined!OfKind
<1>3. Joined!Largests(bodies) \subseteq bodies
  BY DEF Joined!Largests
<1>4. bodies = {}
  <2> SUFFICES ASSUME bodies # {} PROVE FALSE
    OBVIOUS
  <2>1. Joined!FileChunks(PieceFile[x]) = Joined!Largests(bodies)
    BY DEF Joined!FileChunks
  <2> QED
    BY <1>2, <1>3, <2>1
<1>5. Joined!FileChunks(PieceFile[x]) = {c \in parts : \A d \in parts : PieceOrdinal[c] <= PieceOrdinal[d]}
  <2>1. bodies = {} /\ parts # {}
    BY <1>1, <1>4
  <2> QED
    BY <2>1 DEF Joined!FileChunks
<1> QED
  BY <1>1, <1>5

LEMMA Materialized ==
  ASSUME Joined!FusionAssumption, name \in ByName, text \in ByText, vector \in ByText, Ordered
  PROVE  LET t == Joined!Unseen([k \in DOMAIN fused |-> Joined!Group(fused[k])]) IN
         /\ t \in Seq(Pieces) /\ Plain(t)
         /\ \A i \in 1..Len(Lane) : Lane[i].chunk = "no" \/ Listed(Lane[i].chunk, t)
         /\ \A i \in 1..Len(t) : ~Joined!OnlyNear(t[i])
         /\ \A a \in Joined!Fusable : ByItself(a) => WholeIn(a, t)
<1> DEFINE n == Len(fused)
           groups == [k \in DOMAIN fused |-> Joined!Group(fused[k])]
           t == Joined!Unseen(groups)
<1>1. /\ n \in Nat /\ DOMAIN fused = 1..n /\ \A k \in 1..n : fused[k] \in Joined!Fusable
      /\ \A a \in Joined!Fusable : \E k \in 1..n : fused[k] = a
      /\ \A k, l \in 1..n : k # l => fused[k] # fused[l]
      /\ Joined!ToSet(fused) = {fused[k] : k \in 1..n}
  <2>1. n \in Nat /\ DOMAIN fused = 1..n /\ \A k \in 1..n : fused[k] \in Joined!Fusable
    BY DEF Ordered
  <2> QED
    BY <2>1, OnList DEF Ordered, Listed, Plain
<1>2. /\ Joined!LaneHits = Lane /\ Lane \in Seq(Joined!Hits) /\ DOMAIN Lane = 1..Len(Lane)
      /\ Joined!Fusable = {Lane[i].anchor : i \in 1..Len(Lane)}
  BY LaneIs
<1>3. \A k \in 1..n : groups[k] = Joined!Group(fused[k]) /\ Joined!Group(fused[k]) \in Seq(Pieces)
  BY <1>1, GroupGives
<1>4. groups \in [1..n -> Seq(Pieces)]
  BY <1>1, <1>3
<1>5. IsFiniteSet(Pieces)
  BY CountedAlike DEF Joined!FusionAssumption
<1> HIDE DEF groups
<1>6. /\ t \in Seq(Pieces) /\ Plain(t)
      /\ \A c : Listed(c, t) <=> \E k \in 1..n : Listed(c, groups[k])
      /\ \A i, j \in 1..Len(t) : i < j =>
           \/ GroupOf(groups, n, t[i]) < GroupOf(groups, n, t[j])
           \/ /\ GroupOf(groups, n, t[i]) = GroupOf(groups, n, t[j])
              /\ PlaceOf(groups, n, t[i]) < PlaceOf(groups, n, t[j])
      /\ \A c : Listed(c, t) =>
           LET k == GroupOf(groups, n, c)
               m == PlaceOf(groups, n, c)
           IN /\ k \in 1..n /\ m \in 1..Len(groups[k]) /\ groups[k][m] = c
              /\ \A h \in 1..n : Listed(c, groups[h]) => k <= h
  BY <1>1, <1>4, <1>5, UnseenList
<1> HIDE DEF t, n
<1>7. ASSUME NEW i \in 1..Len(Lane), Lane[i].chunk # "no" PROVE Listed(Lane[i].chunk, t)
  <2>1. Lane[i].anchor \in Joined!Fusable
    BY <1>2
  <2>2. Listed(Lane[i].chunk, Joined!HitChunks(Lane[i].anchor))
    BY <1>7, HitsOfAnchor
  <2>3. Listed(Lane[i].chunk, Joined!Group(Lane[i].anchor))
    BY <2>1, <2>2, GroupGives
  <2>4. PICK k \in 1..n : fused[k] = Lane[i].anchor
    BY <1>1, <2>1
  <2>5. Listed(Lane[i].chunk, groups[k])
    BY <1>3, <2>3, <2>4
  <2> QED
    BY <1>6, <2>5
<1>8. ASSUME NEW i \in 1..Len(t) PROVE ~Joined!OnlyNear(t[i])
  <2>1. Listed(t[i], t)
    BY DEF Listed
  <2>2. PICK k \in 1..n : Listed(t[i], Joined!Group(fused[k]))
    BY <1>3, <1>6, <2>1
  <2>3. \/ \E h \in 1..Len(Lane) : Lane[h].chunk = t[i]
        \/ PieceSymbol[t[i]] = fused[k] /\ fused[k] # ""
    BY <1>1, <2>2, GroupGives
  <2> QED
    BY <1>1, <1>2, <2>3 DEF Joined!OnlyNear, Joined!WasHit, Joined!Anchor
<1>9. ASSUME NEW a \in Joined!Fusable, ByItself(a) PROVE WholeIn(a, t)
  <2> DEFINE S == {c \in Pieces : PieceSymbol[c] = a}
             r == Joined!Representatives(S)
  <2>1. a # "" /\ Joined!Group(a) = r /\ S # {}
    <3>1. Joined!HitChunks(a) = <<>> /\ S # {}
      BY <1>9 DEF ByItself
    <3> QED
      BY <3>1, GroupGives
  <2>2. /\ r \in Seq(S)
        /\ \/ \E i \in 1..Len(r) : PieceKind[r[i]] = "symbol_body"
           \/ /\ \A c \in S : Listed(c, r)
              /\ \A i, j \in 1..Len(r) : i < j => PieceOrdinal[r[i]] < PieceOrdinal[r[j]]
              /\ \A c \in S : PieceKind[c] = "symbol_part"
    BY <2>1, SymbolIsWhole DEF SymbolOfAll
  <2>3. PICK ka \in 1..n : fused[ka] = a
    BY <1>1
  <2>4. groups[ka] = r
    BY <1>3, <2>1, <2>3
  <2> HIDE DEF r
  <2>5. \A c : Listed(c, r) => Listed(c, t)
    BY <1>6, <2>4
  <2>6. CASE \E i \in 1..Len(r) : PieceKind[r[i]] = "symbol_body"
    <3>1. PICK i \in 1..Len(r) : PieceKind[r[i]] = "symbol_body"
      BY <2>6
    <3>2. r[i] \in S
      BY <2>2
    <3>3. Listed(r[i], t)
      BY <2>5 DEF Listed
    <3> QED
      BY <3>1, <3>2, <3>3 DEF WholeIn, Listed
  <2>7. CASE /\ \A c \in S : Listed(c, r)
             /\ \A i, j \in 1..Len(r) : i < j => PieceOrdinal[r[i]] < PieceOrdinal[r[j]]
             /\ \A c \in S : PieceKind[c] = "symbol_part"
    <3>1. \A c \in Pieces : PieceSymbol[c] = a => Listed(c, t)
      BY <2>5, <2>7
    <3>2. ASSUME NEW i \in 1..Len(t), NEW j \in 1..Len(t), i < j, PieceSymbol[t[i]] = a, PieceSymbol[t[j]] = a
          PROVE  PieceOrdinal[t[i]] < PieceOrdinal[t[j]]
      <4> DEFINE x == t[i]
                 y == t[j]
                 gx == GroupOf(groups, n, x)
                 gy == GroupOf(groups, n, y)
                 px == PlaceOf(groups, n, x)
                 py == PlaceOf(groups, n, y)
      <4>1. x \in S /\ y \in S /\ x # y
        <5>1. Len(t) \in Nat /\ i # j
          BY <1>6, <3>2
        <5> QED
          BY <1>6, <3>2, <5>1 DEF Plain
      <4>2. Listed(x, t) /\ Listed(y, t)
        BY DEF Listed
      <4>3. /\ gx \in 1..n /\ px \in 1..Len(groups[gx]) /\ groups[gx][px] = x
            /\ gy \in 1..n /\ py \in 1..Len(groups[gy]) /\ groups[gy][py] = y
        BY <1>6, <4>2
      <4>4. gx <= ka /\ gy <= ka
        BY <1>6, <2>4, <2>7, <4>1, <4>2
      <4>5. gx < gy \/ (gx = gy /\ px < py)
        BY <1>6, <3>2
      <4> HIDE DEF gx, gy, px, py, x, y
      <4>6. CASE gx = ka
        <5>1. gx = gy /\ px < py
          BY <1>1, <4>3, <4>4, <4>5, <4>6
        <5>2. r[px] = x /\ r[py] = y /\ px \in 1..Len(r) /\ py \in 1..Len(r)
          BY <2>4, <4>3, <4>6, <5>1
        <5>3. PieceOrdinal[x] < PieceOrdinal[y]
          BY <2>7, <5>1, <5>2
        <5> QED
          BY <5>3 DEF x, y
      <4>7. CASE gx # ka
        <5>1. fused[gx] # a /\ fused[gx] \in Joined!Fusable
          BY <1>1, <2>3, <4>3, <4>7
        <5>2. Listed(x, Joined!Group(fused[gx]))
          BY <1>3, <4>3 DEF Listed
        <5>3. PieceSymbol[x] = a /\ PieceSymbol[y] = a /\ x \in Pieces /\ y \in Pieces
          BY <4>1
        <5>4. PICK h \in 1..Len(Lane) : Lane[h].anchor = fused[gx] /\ Lane[h].chunk = x
          BY <5>1, <5>2, <5>3, GroupGives
        <5>5. Lane[h] \in Joined!Hits /\ x # "no"
          <6>1. Lane[h] \in Joined!Hits
            BY <1>2
          <6>2. "no" \notin Pieces
            BY DEF Joined!FusionAssumption
          <6> QED
            BY <5>3, <6>1, <6>2
        <5>6. Joined!Anchor(x) = a
          BY <2>1, <5>3 DEF Joined!Anchor
        <5>7. x \in Joined!FileChunks(PieceFile[x])
          BY <5>1, <5>4, <5>5, <5>6 DEF Joined!Hits
        <5>8. PieceFile[x] = PieceFile[y] /\ PieceOrdinal[x] # PieceOrdinal[y]
          BY <2>1, <4>1, <5>3 DEF Joined!FusionAssumption
        <5>9. PieceKind[x] = "symbol_part" /\ PieceKind[y] = "symbol_part"
          BY <2>7, <4>1
        <5>10. PieceOrdinal[x] <= PieceOrdinal[y]
          BY <5>3, <5>7, <5>8, <5>9, FirstPart
        <5>11. PieceOrdinal[x] \in Nat /\ PieceOrdinal[y] \in Nat
          BY <5>3 DEF Joined!FusionAssumption
        <5>12. PieceOrdinal[x] < PieceOrdinal[y]
          BY <5>8, <5>10, <5>11
        <5> QED
          BY <5>12 DEF x, y
      <4> QED
        BY <4>6, <4>7
    <3> QED
      BY <3>1, <3>2 DEF WholeIn
  <2> QED
    BY <2>2, <2>6, <2>7
<1> QED
  BY <1>6, <1>7, <1>8, <1>9 DEF t, groups

-----------------------------------------------------------------------------
Adjacent == {PieceSymbol[c] : c \in Pieces} \ {""}

\* Before the graph is asked, what it adds comes last; at the end only a path goes before it.
FusionInv ==
  /\ stage \in {"lanes", "fused", "spans", "done"}
  /\ name \in ByName /\ text \in ByText /\ vector \in ByText /\ near \in Seq(Adjacent)
  /\ stage # "lanes" => Ordered
  /\ spans \in Seq(Pieces) /\ Plain(spans)
  /\ stage \in {"spans", "done"} => \A i \in 1..Len(Lane) : Lane[i].chunk = "no" \/ Listed(Lane[i].chunk, spans)
  /\ stage = "spans" =>
       /\ \A i, j \in 1..Len(spans) : Joined!OnlyNear(spans[i]) /\ ~Joined!OnlyNear(spans[j]) => j < i
       /\ \A a \in Joined!Fusable : ByItself(a) => WholeIn(a, spans)
  /\ stage = "done" => \A i, j \in 1..Len(spans) :
       Joined!OnlyNear(spans[i]) /\ spans[i] \notin paths /\ ~Joined!OnlyNear(spans[j]) => j < i

LEMMA FusionBegins ==
  ASSUME Joined!FusionAssumption, Joined!Init
  PROVE  FusionInv
<1>1. /\ name \in ByName /\ text \in ByText /\ vector \in ByText /\ near \in Neighbors
      /\ stage = "lanes" /\ spans = <<>>
  BY DEF Joined!Init
<1>2. near \in Seq(Adjacent)
  BY <1>1 DEF Joined!FusionAssumption, Adjacent
<1>3. spans \in Seq(Pieces) /\ Plain(spans)
  BY <1>1 DEF Plain
<1> QED
  BY <1>1, <1>2, <1>3 DEF FusionInv

LEMMA FusionKept ==
  ASSUME UNCHANGED <<name, text, vector, fused>>
  PROVE  /\ Ordered' <=> Ordered
         /\ Lane' = Lane /\ Joined!Fusable' = Joined!Fusable
         /\ \A c : Joined!OnlyNear(c)' <=> Joined!OnlyNear(c)
         /\ \A a : ByItself(a)' <=> ByItself(a)
<1>1. Lane' = Lane /\ Joined!Fusable' = Joined!Fusable
  BY DEF Lane, Joined!Fusable
<1>2. Ordered' <=> Ordered
  BY DEF Ordered, Joined!Fusable, Joined!Ahead, Joined!Score, Joined!In, Joined!Lanes, Joined!Place
<1>3. \A c : Joined!OnlyNear(c)' <=> Joined!OnlyNear(c)
  BY DEF Joined!OnlyNear, Joined!WasHit, Joined!LaneHits, Joined!Anchor
<1>4. \A a : ByItself(a)' <=> ByItself(a)
  BY DEF ByItself, Joined!HitChunks, Joined!LaneHits
<1> QED
  BY <1>1, <1>2, <1>3, <1>4

LEMMA FusionFuses ==
  ASSUME Joined!FusionAssumption, FusionInv, Joined!Fuse
  PROVE  FusionInv'
<1>1. stage' = "fused" /\ UNCHANGED <<name, text, vector, spans, near, paths>>
  BY DEF Joined!Fuse
<1>2. Ordered'
  BY AnchorsFused DEF FusionInv
<1> QED
  BY <1>1, <1>2 DEF FusionInv

LEMMA FusionMaterializes ==
  ASSUME Joined!FusionAssumption, FusionInv, Joined!Materialize
  PROVE  FusionInv'
<1> DEFINE t == Joined!Unseen([k \in DOMAIN fused |-> Joined!Group(fused[k])])
<1>1. /\ stage = "fused" /\ stage' = "spans" /\ spans' = t
      /\ UNCHANGED <<name, text, vector, fused, near, paths>>
  BY DEF Joined!Materialize
<1>2. name \in ByName /\ text \in ByText /\ vector \in ByText /\ near \in Seq(Adjacent) /\ Ordered
  BY <1>1 DEF FusionInv
<1>3. /\ t \in Seq(Pieces) /\ Plain(t)
      /\ \A i \in 1..Len(Lane) : Lane[i].chunk = "no" \/ Listed(Lane[i].chunk, t)
      /\ \A i \in 1..Len(t) : ~Joined!OnlyNear(t[i])
      /\ \A a \in Joined!Fusable : ByItself(a) => WholeIn(a, t)
  BY <1>2, Materialized
<1> HIDE DEF t
<1>4. /\ Ordered' <=> Ordered
      /\ Lane' = Lane /\ Joined!Fusable' = Joined!Fusable
      /\ \A c : Joined!OnlyNear(c)' <=> Joined!OnlyNear(c)
      /\ \A a : ByItself(a)' <=> ByItself(a)
  BY <1>1, FusionKept
<1>5. ASSUME NEW i \in 1..Len(spans'), NEW j \in 1..Len(spans'),
             Joined!OnlyNear(spans[i])', ~Joined!OnlyNear(spans[j])'
      PROVE  j < i
  <2>1. PICK c : c = spans'[i]
    OBVIOUS
  <2>2. ~Joined!OnlyNear(c)
    BY <1>1, <1>3, <2>1
  <2> QED
    BY <1>1, <1>5, <2>1, <2>2 DEF Joined!OnlyNear, Joined!WasHit, Joined!LaneHits, Joined!Anchor
<1>6. \A a \in Joined!Fusable' : ByItself(a)' => WholeIn(a, spans')
  BY <1>1, <1>3, <1>4
<1> QED
  BY <1>1, <1>2, <1>3, <1>4, <1>5, <1>6 DEF FusionInv, WholeIn

LEMMA FusionAdds ==
  ASSUME Joined!FusionAssumption, FusionInv, Joined!AddNear
  PROVE  FusionInv'
<1> DEFINE s == Head(near)
           N == Joined!Neighbor(s)
           S == {c \in Pieces : PieceSymbol[c] = s}
           m == Len(spans)
<1>1. /\ stage = "spans" /\ near # <<>> /\ near' = Tail(near)
      /\ spans' = IF Joined!Absent(s) THEN Append(spans, N) ELSE spans
      /\ UNCHANGED <<stage, name, text, vector, fused, paths>>
  BY DEF Joined!AddNear, Joined!PutLast
<1>2. /\ name \in ByName /\ text \in ByText /\ vector \in ByText /\ near \in Seq(Adjacent) /\ Ordered
      /\ spans \in Seq(Pieces) /\ Plain(spans)
      /\ \A i \in 1..Len(Lane) : Lane[i].chunk = "no" \/ Listed(Lane[i].chunk, spans)
      /\ \A i, j \in 1..Len(spans) : Joined!OnlyNear(spans[i]) /\ ~Joined!OnlyNear(spans[j]) => j < i
      /\ \A a \in Joined!Fusable : ByItself(a) => WholeIn(a, spans)
  BY <1>1 DEF FusionInv
<1>3. near' \in Seq(Adjacent) /\ s \in Adjacent
  BY <1>1, <1>2
<1>4. /\ Ordered' <=> Ordered
      /\ Lane' = Lane /\ Joined!Fusable' = Joined!Fusable
      /\ \A c : Joined!OnlyNear(c)' <=> Joined!OnlyNear(c)
      /\ \A a : ByItself(a)' <=> ByItself(a)
  BY <1>1, FusionKept
<1>5. N \in S /\ s # ""
  <2>1. s # "" /\ S # {}
    BY <1>3 DEF Adjacent
  <2> DEFINE r == Joined!Representatives(S)
  <2>2. r \in Seq(S) /\ 0 < Len(r)
    BY <2>1, SymbolIsWhole DEF SymbolOfAll
  <2>3. N = r[1]
    BY DEF Joined!Neighbor
  <2> HIDE DEF r, N, S
  <2>4. Len(r) \in Nat /\ 1 \in 1..Len(r)
    BY <2>2
  <2>5. r[1] \in S
    BY <2>2, <2>4
  <2> QED
    BY <2>1, <2>3, <2>5
<1>6. CASE ~Joined!Absent(s)
  <2>1. spans' = spans
    BY <1>1, <1>6
  <2>2. ASSUME NEW i \in 1..Len(spans'), NEW j \in 1..Len(spans'),
               Joined!OnlyNear(spans[i])', ~Joined!OnlyNear(spans[j])'
        PROVE  j < i
    <3>1. Joined!OnlyNear(spans'[i]) /\ ~Joined!OnlyNear(spans'[j])
      BY <1>1, <2>2 DEF Joined!OnlyNear, Joined!WasHit, Joined!LaneHits, Joined!Anchor
    <3> QED
      BY <1>2, <2>1, <3>1
  <2>3. \A a \in Joined!Fusable' : ByItself(a)' => WholeIn(a, spans)'
    BY <1>2, <1>4, <2>1 DEF WholeIn
  <2> QED
    BY <1>1, <1>2, <1>3, <1>4, <2>1, <2>2, <2>3 DEF FusionInv
<1>7. CASE Joined!Absent(s)
  <2> HIDE DEF N, S, s
  <2>1. spans' = Append(spans, N) /\ N \in Pieces /\ PieceSymbol[N] = s
    BY <1>1, <1>5, <1>7 DEF S
  <2>2. /\ m \in Nat /\ spans' \in Seq(Pieces) /\ Len(spans') = m + 1 /\ spans'[m + 1] = N
        /\ \A i \in 1..m : spans'[i] = spans[i]
    BY <1>2, <2>1
  <2>3. DOMAIN spans = 1..m /\ DOMAIN fused = 1..Len(fused)
    BY <1>2 DEF Ordered
  <2>4. s \notin Joined!ToSet(fused) /\ ~Listed(N, spans)
    BY <1>7, <2>3, OnList DEF Joined!Absent, Listed, N
  <2>5. Joined!OnlyNear(N)
    <3>1. Joined!LaneHits = Lane /\ DOMAIN Lane = 1..Len(Lane)
      <4>1. Joined!LaneHits = Lane /\ Lane \in Seq(Joined!Hits)
        BY <1>2, LaneIs
      <4> QED
        BY <4>1
    <3>2. N # "no"
      BY <2>1 DEF Joined!FusionAssumption
    <3> QED
      BY <1>2, <1>5, <2>1, <2>4, <3>1, <3>2 DEF Joined!OnlyNear, Joined!WasHit, Joined!Anchor
  <2>6. \A c : Listed(c, spans) => Listed(c, spans')
    BY <2>2 DEF Listed
  <2>7. \A i \in 1..Len(spans') : (i \in 1..m /\ spans'[i] = spans[i]) \/ (i = m + 1 /\ spans'[i] = N)
    BY <2>2
  <2>8. Plain(spans')
    BY <1>2, <2>4, <2>7 DEF Plain, Listed
  <2>9. ASSUME NEW i \in 1..Len(spans'), NEW j \in 1..Len(spans'),
               Joined!OnlyNear(spans[i])', ~Joined!OnlyNear(spans[j])'
        PROVE  j < i
    <3>1. Joined!OnlyNear(spans'[i]) /\ ~Joined!OnlyNear(spans'[j])
      BY <1>1, <2>9 DEF Joined!OnlyNear, Joined!WasHit, Joined!LaneHits, Joined!Anchor
    <3>2. j \in 1..m /\ spans'[j] = spans[j]
      BY <2>5, <2>7, <3>1
    <3>3. CASE i = m + 1
      BY <2>2, <3>2, <3>3
    <3>4. CASE i \in 1..m /\ spans'[i] = spans[i]
      BY <1>2, <3>1, <3>2, <3>4
    <3> QED
      BY <2>7, <3>3, <3>4
  <2>10. ASSUME NEW a \in Joined!Fusable, ByItself(a) PROVE WholeIn(a, spans')
    <3>1. WholeIn(a, spans)
      BY <1>2, <2>10
    <3>2. a # s
      <4>1. a \in Joined!ToSet(fused)
        BY <1>2, <2>3, OnList DEF Ordered, Listed
      <4> QED
        BY <2>4, <4>1
    <3>3. CASE \E i \in 1..Len(spans) : PieceSymbol[spans[i]] = a /\ PieceKind[spans[i]] = "symbol_body"
      <4>1. \E i \in 1..Len(spans') : PieceSymbol[spans'[i]] = a /\ PieceKind[spans'[i]] = "symbol_body"
        BY <2>2, <3>3
      <4> QED
        BY <4>1 DEF WholeIn
    <3>4. CASE /\ \A c \in Pieces : PieceSymbol[c] = a => Listed(c, spans)
               /\ \A i, j \in 1..Len(spans) : i < j /\ PieceSymbol[spans[i]] = a /\ PieceSymbol[spans[j]] = a =>
                    PieceOrdinal[spans[i]] < PieceOrdinal[spans[j]]
      <4>1. ASSUME NEW i \in 1..Len(spans'), NEW j \in 1..Len(spans'), i < j,
                   PieceSymbol[spans'[i]] = a, PieceSymbol[spans'[j]] = a
            PROVE  PieceOrdinal[spans'[i]] < PieceOrdinal[spans'[j]]
        <5>1. i \in 1..m /\ spans'[i] = spans[i] /\ j \in 1..m /\ spans'[j] = spans[j]
          BY <2>1, <2>7, <3>2, <4>1
        <5> QED
          BY <3>4, <4>1, <5>1
      <4> QED
        BY <2>6, <3>4, <4>1 DEF WholeIn
    <3> QED
      BY <3>1, <3>3, <3>4 DEF WholeIn
  <2>11. \A a \in Joined!Fusable' : ByItself(a)' => WholeIn(a, spans)'
    BY <1>4, <2>10 DEF WholeIn
  <2>12. \A i \in 1..Len(Lane') : Lane'[i].chunk = "no" \/ Listed(Lane'[i].chunk, spans')
    BY <1>2, <1>4, <2>6
  <2> QED
    BY <1>1, <1>2, <1>3, <1>4, <2>2, <2>8, <2>9, <2>11, <2>12 DEF FusionInv, Listed
<1> QED
  BY <1>6, <1>7

LEMMA FusionReorders ==
  ASSUME Joined!FusionAssumption, FusionInv, Joined!ToFront
  PROVE  FusionInv'
<1> DEFINE I == {i \in DOMAIN spans : spans[i] \in paths}
           J == DOMAIN spans \ I
           f == Joined!Picked(spans, I)
           b == Joined!Picked(spans, J)
           t == f \o b
<1>1. /\ stage = "spans" /\ stage' = "done" /\ spans' = t
      /\ UNCHANGED <<name, text, vector, fused, near, paths>>
  BY DEF Joined!ToFront, Joined!InPaths
<1>2. /\ name \in ByName /\ text \in ByText /\ vector \in ByText /\ near \in Seq(Adjacent) /\ Ordered
      /\ spans \in Seq(Pieces) /\ Plain(spans)
      /\ \A i \in 1..Len(Lane) : Lane[i].chunk = "no" \/ Listed(Lane[i].chunk, spans)
      /\ \A i, j \in 1..Len(spans) : Joined!OnlyNear(spans[i]) /\ ~Joined!OnlyNear(spans[j]) => j < i
  BY <1>1 DEF FusionInv
<1>3. DOMAIN spans = 1..Len(spans) /\ Len(spans) \in Nat
  BY <1>2
<1>4. I \in SUBSET (1..Len(spans)) /\ J \in SUBSET (1..Len(spans))
  BY <1>3
<1>5. /\ f \in Seq(Pieces)
      /\ \E up \in [1..Len(f) -> I] :
           /\ \A k \in 1..Len(f) : f[k] = spans[up[k]]
           /\ \A i \in I : \E k \in 1..Len(f) : up[k] = i
           /\ \A k, l \in 1..Len(f) : k < l => up[k] < up[l]
  BY <1>2, <1>4, PickedList
<1>6. /\ b \in Seq(Pieces)
      /\ \E up \in [1..Len(b) -> J] :
           /\ \A k \in 1..Len(b) : b[k] = spans[up[k]]
           /\ \A i \in J : \E k \in 1..Len(b) : up[k] = i
           /\ \A k, l \in 1..Len(b) : k < l => up[k] < up[l]
  BY <1>2, <1>4, PickedList
<1> HIDE DEF f, b
<1>7. PICK u \in [1..Len(f) -> I] :
           /\ \A k \in 1..Len(f) : f[k] = spans[u[k]]
           /\ \A i \in I : \E k \in 1..Len(f) : u[k] = i
           /\ \A k, l \in 1..Len(f) : k < l => u[k] < u[l]
  BY <1>5
<1>8. PICK v \in [1..Len(b) -> J] :
           /\ \A k \in 1..Len(b) : b[k] = spans[v[k]]
           /\ \A i \in J : \E k \in 1..Len(b) : v[k] = i
           /\ \A k, l \in 1..Len(b) : k < l => v[k] < v[l]
  BY <1>6
<1>9. /\ t \in Seq(Pieces) /\ Len(t) = Len(f) + Len(b) /\ Len(f) \in Nat /\ Len(b) \in Nat
      /\ \A k \in 1..Len(f) : t[k] = f[k]
      /\ \A k \in 1..Len(b) : t[Len(f) + k] = b[k]
  BY <1>5, <1>6, Concatenated
<1> HIDE DEF t
<1>10. \A i \in I : i \in 1..Len(spans) /\ spans[i] \in paths
  BY <1>3
<1>11. \A i \in J : i \in 1..Len(spans) /\ spans[i] \notin paths /\ i \notin I
  BY <1>3
<1>12. \A i \in 1..Len(spans) : i \in I \/ i \in J
  BY <1>3
<1> HIDE DEF I, J
<1> DEFINE From(i, p) == \/ i \in 1..Len(f) /\ p = u[i] /\ p \in I
                         \/ i - Len(f) \in 1..Len(b) /\ p = v[i - Len(f)] /\ p \in J
<1>13. ASSUME NEW i \in 1..Len(t)
       PROVE  \E p \in 1..Len(spans) : From(i, p) /\ t[i] = spans[p]
  <2>1. CASE i \in 1..Len(f)
    <3>1. u[i] \in I /\ t[i] = spans[u[i]]
      BY <1>7, <1>9, <2>1
    <3> QED
      BY <1>10, <2>1, <3>1
  <2>2. CASE i \notin 1..Len(f)
    <3>1. i - Len(f) \in 1..Len(b) /\ Len(f) + (i - Len(f)) = i
      BY <1>9, <2>2
    <3>2. v[i - Len(f)] \in J /\ t[i] = spans[v[i - Len(f)]]
      BY <1>8, <1>9, <3>1
    <3> QED
      BY <1>11, <3>1, <3>2
  <2> QED
    BY <2>1, <2>2
<1>14. ASSUME NEW p \in 1..Len(spans) PROVE Listed(spans[p], t)
  <2>1. CASE p \in I
    <3>1. PICK k \in 1..Len(f) : u[k] = p
      BY <1>7, <2>1
    <3>2. k \in 1..Len(t) /\ t[k] = spans[p]
      BY <1>7, <1>9, <3>1
    <3> QED
      BY <3>2 DEF Listed
  <2>2. CASE p \in J
    <3>1. PICK k \in 1..Len(b) : v[k] = p
      BY <1>8, <2>2
    <3>2. Len(f) + k \in 1..Len(t) /\ t[Len(f) + k] = spans[p]
      BY <1>8, <1>9, <3>1
    <3> QED
      BY <3>2 DEF Listed
  <2> QED
    BY <1>12, <2>1, <2>2
<1>15. ASSUME NEW i \in 1..Len(t), NEW j \in 1..Len(t), i # j PROVE t[i] # t[j]
  <2>1. PICK p \in 1..Len(spans) : From(i, p) /\ t[i] = spans[p]
    BY <1>13
  <2>2. PICK q \in 1..Len(spans) : From(j, q) /\ t[j] = spans[q]
    BY <1>13
  <2>3. \A k, l \in 1..Len(f) : k # l => u[k] # u[l]
    <3>1. \A k, l \in 1..Len(f) : k # l => k < l \/ l < k
      BY <1>9
    <3>2. \A k \in 1..Len(f) : u[k] \in Int
      <4>1. \A k \in 1..Len(f) : u[k] \in I
        BY <1>7
      <4>2. \A p1 \in I : p1 \in Int
        BY <1>3, <1>10
      <4> QED
        BY <4>1, <4>2
    <3> QED
      BY <1>7, <3>1, <3>2
  <2>4. \A k, l \in 1..Len(b) : k # l => v[k] # v[l]
    <3>1. \A k, l \in 1..Len(b) : k # l => k < l \/ l < k
      BY <1>9
    <3>2. \A k \in 1..Len(b) : v[k] \in Int
      BY <1>8, <1>11, <1>3
    <3> QED
      BY <1>8, <3>1, <3>2
  <2>5. i - Len(f) # j - Len(f)
    BY <1>9, <1>15
  <2>6. p # q
    BY <1>11, <1>15, <2>1, <2>2, <2>3, <2>4, <2>5
  <2> QED
    BY <1>2, <2>1, <2>2, <2>6 DEF Plain
<1>16. ASSUME NEW i \in 1..Len(t), NEW j \in 1..Len(t),
              Joined!OnlyNear(t[i]), t[i] \notin paths, ~Joined!OnlyNear(t[j])
       PROVE  j < i
  <2>1. PICK p \in 1..Len(spans) : From(i, p) /\ t[i] = spans[p]
    BY <1>13
  <2>2. PICK q \in 1..Len(spans) : From(j, q) /\ t[j] = spans[q]
    BY <1>13
  <2>3. q < p
    BY <1>2, <1>16, <2>1, <2>2
  <2>4. i - Len(f) \in 1..Len(b) /\ p = v[i - Len(f)]
    BY <1>10, <1>16, <2>1
  <2>5. CASE j \in 1..Len(f)
    BY <1>9, <2>4, <2>5
  <2>6. CASE j - Len(f) \in 1..Len(b) /\ q = v[j - Len(f)]
    <3> DEFINE k == i - Len(f)
               l == j - Len(f)
    <3>1. p = v[k] /\ q = v[l] /\ k \in 1..Len(b) /\ l \in 1..Len(b)
      BY <2>4, <2>6
    <3>2. k \in Int /\ l \in Int /\ i = k + Len(f) /\ j = l + Len(f)
      BY <1>9
    <3> HIDE DEF k, l
    <3>3. k # l
      BY <2>3, <3>1
    <3>4. ~(k < l)
      <4>1. k < l => p < q
        BY <1>8, <3>1
      <4> QED
        BY <2>3, <4>1
    <3>5. l < k
      BY <3>2, <3>3, <3>4
    <3> QED
      BY <1>9, <3>2, <3>5
  <2> QED
    BY <2>2, <2>5, <2>6
<1>17. /\ Ordered' <=> Ordered
       /\ Lane' = Lane
  BY <1>1, FusionKept
<1>18. ASSUME NEW i \in 1..Len(spans'), NEW j \in 1..Len(spans'),
              Joined!OnlyNear(spans[i])', spans'[i] \notin paths', ~Joined!OnlyNear(spans[j])'
       PROVE  j < i
  <2>1. Joined!OnlyNear(spans'[i]) /\ ~Joined!OnlyNear(spans'[j])
    BY <1>1, <1>18 DEF Joined!OnlyNear, Joined!WasHit, Joined!LaneHits, Joined!Anchor
  <2> QED
    BY <1>1, <1>16, <1>18, <2>1
<1>19. \A c : Listed(c, spans) => Listed(c, spans')
  BY <1>1, <1>14 DEF Listed
<1>20. \A i \in 1..Len(Lane') : Lane'[i].chunk = "no" \/ Listed(Lane'[i].chunk, spans')
  BY <1>2, <1>17, <1>19
<1>21. Plain(spans')
  BY <1>1, <1>15 DEF Plain
<1> QED
  BY <1>1, <1>2, <1>9, <1>17, <1>18, <1>20, <1>21 DEF FusionInv, Listed

LEMMA FusionSteps ==
  ASSUME Joined!FusionAssumption, FusionInv, Joined!Next
  PROVE  FusionInv'
<1>1. CASE Joined!Fuse
  BY <1>1, FusionFuses
<1>2. CASE Joined!Materialize
  BY <1>2, FusionMaterializes
<1>3. CASE Joined!AddNear
  BY <1>3, FusionAdds
<1>4. CASE Joined!ToFront
  BY <1>4, FusionReorders
<1> QED
  BY <1>1, <1>2, <1>3, <1>4 DEF Joined!Next

LEMMA FusionStays ==
  ASSUME FusionInv, UNCHANGED <<stage, name, text, vector, fused, spans, near, paths>>
  PROVE  FusionInv'
<1>1. /\ Ordered' <=> Ordered
      /\ Lane' = Lane /\ Joined!Fusable' = Joined!Fusable
      /\ \A a : ByItself(a)' <=> ByItself(a)
  BY FusionKept
<1>2. /\ stage \in {"lanes", "fused", "spans", "done"}
      /\ name \in ByName /\ text \in ByText /\ vector \in ByText /\ near \in Seq(Adjacent)
      /\ stage # "lanes" => Ordered
      /\ spans \in Seq(Pieces) /\ Plain(spans)
      /\ stage \in {"spans", "done"} => \A i \in 1..Len(Lane) : Lane[i].chunk = "no" \/ Listed(Lane[i].chunk, spans)
  BY DEF FusionInv
<1>3. ASSUME stage = "spans"
      PROVE  /\ \A i, j \in 1..Len(spans) : Joined!OnlyNear(spans[i]) /\ ~Joined!OnlyNear(spans[j]) => j < i
             /\ \A a \in Joined!Fusable : ByItself(a) => WholeIn(a, spans)
  BY <1>3 DEF FusionInv
<1>4. ASSUME stage = "done", NEW i \in 1..Len(spans), NEW j \in 1..Len(spans),
             Joined!OnlyNear(spans[i]), spans[i] \notin paths, ~Joined!OnlyNear(spans[j])
      PROVE  j < i
  BY <1>4 DEF FusionInv
<1>5. ASSUME NEW i \in 1..Len(spans'), NEW j \in 1..Len(spans'),
             Joined!OnlyNear(spans[i])', ~Joined!OnlyNear(spans[j])'
      PROVE  /\ i \in 1..Len(spans) /\ j \in 1..Len(spans)
             /\ Joined!OnlyNear(spans[i]) /\ ~Joined!OnlyNear(spans[j])
  BY <1>5 DEF Joined!OnlyNear, Joined!WasHit, Joined!LaneHits, Joined!Anchor
<1>6. ASSUME stage' = "spans", NEW i \in 1..Len(spans'), NEW j \in 1..Len(spans'),
             Joined!OnlyNear(spans[i])', ~Joined!OnlyNear(spans[j])'
      PROVE  j < i
  BY <1>3, <1>5, <1>6
<1>7. ASSUME stage' = "spans", NEW a \in Joined!Fusable', ByItself(a)' PROVE WholeIn(a, spans)'
  BY <1>1, <1>3, <1>7 DEF WholeIn
<1>8. ASSUME stage' = "done", NEW i \in 1..Len(spans'), NEW j \in 1..Len(spans'),
             Joined!OnlyNear(spans[i])', spans'[i] \notin paths', ~Joined!OnlyNear(spans[j])'
      PROVE  j < i
  BY <1>4, <1>5, <1>8
<1> QED
  BY <1>1, <1>2, <1>6, <1>7, <1>8 DEF FusionInv, Listed

LEMMA FusionGives ==
  ASSUME Joined!FusionAssumption, FusionInv
  PROVE  Joined!TypeOK /\ Joined!Agreed /\ Joined!WholeSymbol /\ Joined!FoundFirst
<1>1. /\ stage \in {"lanes", "fused", "spans", "done"}
      /\ name \in ByName /\ text \in ByText /\ vector \in ByText
      /\ stage # "lanes" => Ordered
      /\ spans \in Seq(Pieces) /\ Plain(spans)
      /\ stage \in {"spans", "done"} => \A i \in 1..Len(Lane) : Lane[i].chunk = "no" \/ Listed(Lane[i].chunk, spans)
  BY DEF FusionInv
<1>2. Joined!LaneHits = Lane /\ DOMAIN Lane = 1..Len(Lane) /\ DOMAIN spans = 1..Len(spans)
  <2>1. Joined!LaneHits = Lane /\ Lane \in Seq(Joined!Hits)
    BY <1>1, LaneIs
  <2> QED
    BY <1>1, <2>1
<1>3. \A c : c \in Joined!ToSet(spans) <=> Listed(c, spans)
  BY <1>2, OnList DEF Listed
<1>4. Joined!TypeOK
  <2>1. Joined!Cardinality(Joined!ToSet(spans)) = Len(spans)
    BY <1>1, PlainCounts
  <2>2. ASSUME stage \in {"spans", "done"}, NEW i \in DOMAIN Joined!LaneHits
        PROVE  Joined!LaneHits[i].chunk \in Joined!ToSet(spans) \cup {"no"}
    BY <1>1, <1>2, <1>3, <2>2
  <2> QED
    BY <1>1, <2>1, <2>2 DEF Joined!TypeOK
<1>5. Joined!Agreed
  <2> SUFFICES ASSUME stage # "lanes", NEW i \in DOMAIN fused, NEW j \in DOMAIN fused,
                      Joined!Dominates(fused[i], fused[j]), i # j
               PROVE  i < j
    BY DEF Joined!Agreed
  <2> QED
    BY <1>1, OrderAgrees
<1>6. Joined!WholeSymbol
  <2> SUFFICES ASSUME stage = "spans", NEW a \in Joined!ToSet(fused), Joined!HitChunks(a) = <<>>,
                      {c \in Pieces : PieceSymbol[c] = a} # {}
               PROVE  \/ \E c \in Joined!ToSet(spans) : PieceSymbol[c] = a /\ PieceKind[c] = "symbol_body"
                      \/ /\ {c \in Joined!ToSet(spans) : PieceSymbol[c] = a} = {c \in Pieces : PieceSymbol[c] = a}
                         /\ \A i, j \in DOMAIN spans : i < j /\ PieceSymbol[spans[i]] = a /\ PieceSymbol[spans[j]] = a =>
                              PieceOrdinal[spans[i]] < PieceOrdinal[spans[j]]
    BY DEF Joined!WholeSymbol
  <2>1. a \in Joined!Fusable
    <3>1. fused \in Seq(Joined!Fusable)
      BY <1>1 DEF Ordered
    <3>2. \A i \in DOMAIN fused : fused[i] \in Joined!Fusable
      BY <3>1
    <3> QED
      BY <3>2, OnList
  <2>2. ByItself(a)
    BY DEF ByItself
  <2>3. WholeIn(a, spans)
    BY <2>1, <2>2 DEF FusionInv
  <2>4. CASE \E i \in 1..Len(spans) : PieceSymbol[spans[i]] = a /\ PieceKind[spans[i]] = "symbol_body"
    <3>1. \A i \in 1..Len(spans) : spans[i] \in Joined!ToSet(spans)
      BY <1>2, OnList
    <3> QED
      BY <2>4, <3>1
  <2>5. CASE /\ \A c \in Pieces : PieceSymbol[c] = a => Listed(c, spans)
             /\ \A i, j \in 1..Len(spans) : i < j /\ PieceSymbol[spans[i]] = a /\ PieceSymbol[spans[j]] = a =>
                  PieceOrdinal[spans[i]] < PieceOrdinal[spans[j]]
    <3>1. \A c \in Joined!ToSet(spans) : c \in Pieces
      <4>1. \A i \in 1..Len(spans) : spans[i] \in Pieces
        BY <1>1
      <4> QED
        BY <1>2, <4>1, OnList
    <3>2. {c \in Joined!ToSet(spans) : PieceSymbol[c] = a} = {c \in Pieces : PieceSymbol[c] = a}
      BY <1>3, <2>5, <3>1
    <3> QED
      BY <1>2, <2>5, <3>2
  <2> QED
    BY <2>3, <2>4, <2>5 DEF WholeIn
<1>7. Joined!FoundFirst
  <2> SUFFICES ASSUME stage = "done", NEW i \in DOMAIN spans, NEW j \in DOMAIN spans,
                      Joined!OnlyNear(spans[i]), spans[i] \notin paths, ~Joined!OnlyNear(spans[j])
               PROVE  j < i
    BY DEF Joined!FoundFirst
  <2> QED
    BY <1>2 DEF FusionInv
<1> QED
  BY <1>4, <1>5, <1>6, <1>7

FusedInv == part = "fusion" => FusionInv

\* An anchor that no lane ranks behind another comes first, a symbol hit by its name keeps all of itself in
\* the order of the source, no chunk a lane hit is lost or repeated, and what a lane found comes before
\* what only the graph knows, for all lanes and chunks (fusion.py, chunk_selection.py, answer.py).
THEOREM LanesAreFused == SearchSpec => []LanesAgree
<1>1. SearchInit => FusedInv
  BY SearchAssumption, FusionBegins DEF SearchInit, FusedInv
<1>2. FusedInv /\ [SearchNext]_allVars => FusedInv'
  <2> SUFFICES ASSUME FusedInv, [SearchNext]_allVars, part' = "fusion" PROVE FusionInv'
    BY DEF FusedInv
  <2>1. part = "fusion" /\ FusionInv
    BY DEF FusedInv, SearchNext, PlanStep, VectorStep, GraphStep, FusionStep, ChoiceStep, BodyStep, FollowStep, allVars
  <2>2. Joined!Next \/ UNCHANGED fusedVars
    BY <2>1 DEF SearchNext, PlanStep, VectorStep, GraphStep, FusionStep, ChoiceStep, BodyStep, FollowStep, allVars
  <2>3. CASE Joined!Next
    BY <2>1, <2>3, FusionSteps, SearchAssumption
  <2>4. CASE UNCHANGED fusedVars
    BY <2>1, <2>4, FusionStays DEF fusedVars
  <2> QED
    BY <2>2, <2>3, <2>4
<1>3. FusedInv => LanesAgree
  BY SearchAssumption, FusionGives DEF FusedInv, LanesAgree
<1> QED
  BY <1>1, <1>2, <1>3, PTL DEF SearchSpec
=============================================================================
