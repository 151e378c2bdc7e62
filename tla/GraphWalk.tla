------------------------------- MODULE GraphWalk -------------------------------
(***************************************************************************)
(* The graph lane: from the fused anchors over calls, references and       *)
(* protocol routes, hop by hop, to the edges an answer may show, and the   *)
(* walk to the symbols around an anchor.  The graph answers in any order,  *)
(* so a cut takes any of the rows; the generation may be deleted between   *)
(* two queries.                                                            *)
(***************************************************************************)
EXTENDS Naturals, Sequences, FiniteSets, SequencesExt

CONSTANTS Pool,       \* edges a graph may have: [id, type, from, to, res]
          Role,       \* of each node: "symbol", "module", "file", "directory"; "none" is not in the generation
          Limit, EdgeLimit, MaxHops,
          Inputs      \* sequences of fused anchors

Order == <<"CALLS", "ROUTES_TO", "REFERENCES", "IMPORTS", "DEPENDS_ON", "DECLARES", "CONTAINS">>
Unranked == 1000000   \* the rank of an anchor that is not fused
GraphAssumption ==
  /\ IsFiniteSet(Pool) /\ IsFiniteSet(DOMAIN Role) /\ {Limit, EdgeLimit, MaxHops} \subseteq Nat
  /\ \A e \in Pool : e.id \in Nat /\ {e.from, e.to} \subseteq DOMAIN Role /\ \E i \in DOMAIN Order : Order[i] = e.type
  /\ \A e, f \in Pool : e.id = f.id => e = f
  /\ \A s \in Inputs : s \in Seq(DOMAIN Role) /\ Len(s) < Unranked

VARIABLES stage, walk, graph, fused, hops, hop, frontier, visited, rows, found, cut, dropped
vars == <<stage, walk, graph, fused, hops, hop, frontier, visited, rows, found, cut, dropped>>

Nodes == DOMAIN Role
Least(a, b) == IF a < b THEN a ELSE b
Cap(h) == IF walk = "edges" THEN Least(h, 3) ELSE IF h < 1 THEN 1 ELSE Least(h, 3)

\* seed_symbol_anchors: the symbols among the anchors, or all of them when there is none.
IsSymbol(n) == Role[n] = "symbol"
SeedsOf(anchors) ==
  LET symbols == {i \in DOMAIN anchors : IsSymbol(anchors[i])}
      from == IF symbols # {} THEN symbols ELSE DOMAIN anchors
  IN {anchors[i] : i \in {j \in from : Cardinality({k \in from : k < j}) < Limit}}
Seeds == IF walk = "edges" THEN SeedsOf(fused) ELSE ToSet(fused)

Init == /\ walk \in {"edges", "neighbors"} /\ graph \in SUBSET Pool /\ fused \in Inputs /\ hops \in 0..MaxHops
        /\ walk = "neighbors" => \A i \in DOMAIN fused : IsSymbol(fused[i])
        /\ stage = "start" /\ hop = 0 /\ frontier = {} /\ visited = {} /\ rows = {} /\ found = {}
        /\ cut = FALSE /\ dropped = FALSE

-----------------------------------------------------------------------------
\* The rows of a query: each edge once for each of its ends that was asked about.
Rows(anchors) == {r \in graph \X anchors : r[2] \in {r[1].from, r[1].to}}
Outgoing(r) == r[1].from = r[2]
Target(r) == r[1].to   \* mutant: only along the direction of the edge
Other(r) == IF Outgoing(r) THEN r[1].to ELSE r[1].from

Follows(e) == e.type \in {"CALLS", "REFERENCES"} \/ (e.type = "ROUTES_TO" /\ e.res = "protocol")
Around(batch) == {Other(r) : r \in {q \in batch : Follows(q[1]) /\ Role[Other(q)] = "symbol"}} \ frontier

Start == /\ stage = "start"
         /\ IF fused = <<>> \/ (walk = "neighbors" /\ hops < 1)
            THEN stage' = "done" /\ UNCHANGED <<frontier, visited>>
            ELSE stage' = "query" /\ frontier' = Seeds /\ visited' = Seeds
         /\ UNCHANGED <<walk, graph, fused, hops, hop, rows, found, cut, dropped>>

LastHop == hop >= Cap(hops)
Stops == /\ stage = "query"
         /\ frontier = {} \/ (walk = "neighbors" /\ (LastHop \/ Rows(frontier) = {}))
         /\ stage' = "select"
         /\ UNCHANGED <<walk, graph, fused, hops, hop, frontier, visited, rows, found, cut, dropped>>
LastQuery == /\ stage = "query" /\ walk = "edges" /\ frontier # {} /\ LastHop
             /\ rows' = rows \cup Rows(frontier) /\ stage' = "select"
             /\ UNCHANGED <<walk, graph, fused, hops, hop, frontier, visited, found, cut, dropped>>
\* next_symbol_frontier: Limit of the symbols around, the visited ones among them; those lead no further.
Query ==
  /\ stage = "query" /\ frontier # {} /\ ~LastHop
  /\ walk = "neighbors" => Rows(frontier) # {}
  /\ LET around == Around(Rows(frontier)) IN
     \E S \in SUBSET around :
       /\ Cardinality(S) = Least(Limit, Cardinality(around))
       /\ cut' = (cut \/ S # around)
       /\ frontier' = S \ visited
       /\ visited' = visited \cup S
       /\ IF walk = "edges" THEN UNCHANGED found
          ELSE \E T \in SUBSET frontier' :    \* the walk returns as soon as it has Limit symbols
                 /\ Cardinality(T) = Least(Limit - Cardinality(found), Cardinality(frontier'))
                 /\ found' = found \cup T
  /\ IF walk = "edges" THEN rows' = rows \cup Rows(frontier) /\ stage' = "query"
     ELSE UNCHANGED rows /\ stage' = IF Cardinality(found') >= Limit THEN "done" ELSE "query"
  /\ hop' = hop + 1
  /\ UNCHANGED <<walk, graph, fused, hops, dropped>>

\* allow_edge
Allowed(r) ==
  LET here == Role[r[2]]
      there == Role[Other(r)]
  IN CASE r[1].type \in {"CALLS", "REFERENCES"} -> TRUE
       [] r[1].type = "ROUTES_TO"  -> here = "symbol" /\ there = "symbol"
       [] r[1].type = "IMPORTS"    -> here = "file" \/ (~Outgoing(r) /\ here = "module")
       [] r[1].type = "DEPENDS_ON" -> here = "module" /\ there = "module"
       [] r[1].type = "DECLARES"   -> ~Outgoing(r) /\ here \in {"symbol", "module"}
       [] r[1].type = "CONTAINS"   -> ~Outgoing(r) /\ here = "file"
       [] OTHER -> FALSE
Member(r) == Role[r[2]] # "none" /\ Role[Other(r)] # "none"
Accepted(rs) == {r \in rs : Member(r) /\ Allowed(r)}

\* select_edges: by the rank of the anchor, the relationship, the direction and the id.
OfType(e) == CHOOSE i \in DOMAIN Order : Order[i] = e.type
Rank(n) == IF \E i \in DOMAIN fused : fused[i] = n THEN CHOOSE i \in DOMAIN fused : fused[i] = n ELSE Unranked
KeyOf(r) == <<Rank(r[2]), OfType(r[1]), IF Outgoing(r) THEN 0 ELSE 1, r[1].id>>
Before(p, q) == \E i \in 1..4 : KeyOf(p)[i] < KeyOf(q)[i] /\ \A j \in 1..(i - 1) : KeyOf(p)[j] = KeyOf(q)[j]
Best(rs) == {r \in rs : Cardinality({q \in rs : Before(q, r)}) < EdgeLimit}
Select ==
  /\ stage = "select" /\ stage' = "done"
  /\ found' = IF walk = "edges" THEN Best(Accepted(rows)) ELSE found
  /\ UNCHANGED <<walk, graph, fused, hops, hop, frontier, visited, rows, cut, dropped>>

Drop == /\ ~dropped /\ dropped' = TRUE /\ graph' = {}
        /\ UNCHANGED <<stage, walk, fused, hops, hop, frontier, visited, rows, found, cut>>

Next == Start \/ Stops \/ LastQuery \/ Query \/ Select \/ Drop
Spec == Init /\ [][Next]_vars

-----------------------------------------------------------------------------
\* What the walk promises, without its frontier: the symbols some hops away over edges that lead on.
Leads(e) == e.type \in {"CALLS", "REFERENCES"} \/ (e.type = "ROUTES_TO" /\ e.res = "protocol")
Reach[k \in 0..3] ==
  IF k = 0 THEN Seeds
  ELSE Reach[k - 1] \cup {n \in Nodes : IsSymbol(n) /\
         \E e \in graph : Leads(e) /\ n \in {e.from, e.to} /\ {e.from, e.to} \cap Reach[k - 1] # {}}

TypeOK == /\ hop <= 3 /\ stage \in {"start", "query", "select", "done"}
          /\ walk = "neighbors" => Cardinality(found) <= Limit /\ \A n \in found : IsSymbol(n)
          /\ walk = "edges" => Cardinality(found) <= EdgeLimit

\* Nothing further than the hops that were asked for is shown, whatever the cuts took.
WithinHops ==
  stage = "done" /\ ~dropped =>
    IF walk = "edges" THEN \A r \in found : r[2] \in Reach[Cap(hops)] ELSE found \subseteq Reach[Cap(hops)]

\* Without a cut the walk has everything within the hops: a symbol reached on two ways is not lost to either.
NothingMissed ==
  stage = "done" /\ ~dropped /\ ~cut /\ fused # <<>> =>
    IF walk = "edges"
    THEN LET all == {r \in graph \X Reach[Cap(hops)] : r[2] \in {r[1].from, r[1].to} /\ Allowed(r)
                                                        /\ Role[r[1].from] # "none" /\ Role[r[1].to] # "none"}
         IN Cardinality(found) = Least(EdgeLimit, Cardinality(all)) /\ found \subseteq all
    ELSE Cardinality(found) = Limit \/ hops < 1 \/ found = Reach[Cap(hops)] \ Seeds

\* An edge of an anchor the lanes found is not displaced by an edge of one that only the walk reached.
AnchorsFirst ==
  stage = "done" /\ walk = "edges" =>
    \A r \in Accepted(rows) \ found : r[2] \in ToSet(fused) => \A q \in found : q[2] \in ToSet(fused)
===============================================================================
