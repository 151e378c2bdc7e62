------------------------------ MODULE MCSearch ------------------------------
(***************************************************************************)
(* How a question finds its evidence, for TLC: the plan made from what the *)
(* index was measured to support, the vector and graph lanes, their fusion *)
(* into spans, the choice among the spans, the calls a span shows and the  *)
(* calls followed from it.                                                 *)
(* Each takes what the one before it gives in the forms listed here:       *)
(* `part' says which runs, and the variables of the others are None.       *)
(***************************************************************************)
EXTENDS Naturals, Sequences, FiniteSets, SequencesExt, Functions, TLC

None == "none"

-----------------------------------------------------------------------------
(* What repositories hold and questions ask.                              *)
VARIABLES repo, frameworks, row, words, profile, plan, pc

Source(language, symbols, parsed, calls) ==
  [language |-> language, symbols |-> symbols, parsed |-> parsed, calls |-> calls]
FileUniverse ==
  {Source("python", "python", TRUE, <<"resolved">>), Source("python", "python", TRUE, <<"unresolved", "resolved">>),
   Source("python", "python", TRUE, <<"ambiguous", "external">>), Source("python", "python", FALSE, <<>>),
   Source("typescript", "tsx", TRUE, <<"external">>), Source("typescript", "typescript", TRUE, <<"resolved">>),
   Source("javascript", "tsx", TRUE, <<"resolved", "unresolved">>), Source("javascript", "javascript", TRUE, <<>>),
   Source("go", "go", TRUE, <<"resolved">>), Source("go", "go", TRUE, <<"unresolved">>),
   Source("cobol", "cobol", TRUE, <<>>), Source("markdown", "markdown", FALSE, <<>>)}
Detected == {{}, {"fastapi"}, {"nextjs"}, {"fastapi", "nextjs"}}
Levels == [python |-> 3, javascript |-> 3, typescript |-> 3, go |-> 2]
WordUniverse == {"frontend", "state", "click", "request", "fetch", "api", "db", "trace", "other"}
Cues == [frontend |-> "frontend_update", state |-> "frontend_update", click |-> "event_handler",
         request |-> "http_request", fetch |-> "http_request", api |-> "api_handler", db |-> "database",
         trace |-> "", other |-> ""]
NotCode == {"markdown", "configuration", "json", "yaml", "toml", "html", "css", "unknown"}
CONSTANTS Files, MaxFiles, FrameworkSets, Level, Prose, Words, MaxWords, Cue
Planned == INSTANCE Capability
PlannedOff ==
  /\ repo = None /\ frameworks = None /\ row = None /\ words = None /\ profile = None /\ plan = None
  /\ pc = None
-----------------------------------------------------------------------------
(* Points of a collection; they are alike but for their order.             *)
VARIABLES lane, kind, index, links, first, offset, examined, page, size, seen, kept, gone

CONSTANTS Chunks, LaneLimit, RawLimit, Batch
Nearest == INSTANCE VectorLane
  WITH stage <- lane, dropped <- gone

CONSTANTS v1, v2, v3, v4
Points == {v1, v2, v3, v4}
Alike == Permutations(Points)
NearestOff ==
  /\ lane = None /\ kind = None /\ index = None /\ links = None /\ first = None /\ offset = None
  /\ examined = None /\ page = None /\ size = None /\ seen = None /\ kept = None /\ gone = None
-----------------------------------------------------------------------------
(* A call graph with a cycle, a route, a package and files.                *)
VARIABLES turn, walk, graph, anchors, hops, hop, frontier, visited, rows, found, cut, dropped

Roles == [a |-> "symbol", b |-> "symbol", c |-> "symbol", d |-> "symbol", m |-> "module", f |-> "file", p |-> "none"]
Line(i, t, x, y, r) == [id |-> i, type |-> t, from |-> x, to |-> y, res |-> r]
Lines == {Line(1, "CALLS", "a", "b", "resolved"), Line(2, "CALLS", "b", "c", "resolved"),
           Line(3, "CALLS", "c", "a", "resolved"), Line(4, "ROUTES_TO", "c", "d", "protocol"),
           Line(5, "DECLARES", "f", "b", ""), Line(6, "CALLS", "b", "p", "external"),
           Line(7, "REFERENCES", "a", "d", "resolved"), Line(8, "IMPORTS", "f", "m", "resolved")}
Starts == {<<>>, <<"a">>, <<"f">>, <<"a", "c">>, <<"m", "b">>, <<"f", "d", "a">>}
CONSTANTS Role, Pool, WalkLimit, EdgeLimit, MaxHops, Inputs
Walked == INSTANCE GraphWalk
  WITH Limit <- WalkLimit, stage <- turn, fused <- anchors
WalkedOff ==
  /\ turn = None /\ walk = None /\ graph = None /\ anchors = None /\ hops = None /\ hop = None
  /\ frontier = None /\ visited = None /\ rows = None /\ found = None /\ cut = None /\ dropped = None
-----------------------------------------------------------------------------
(* Hits of the three lanes: by name, and by text and vector.               *)
VARIABLES stage, name, text, vector, fused, spans, near, paths

PieceUniverse == {"h", "s", "p", "q", "g", "u", "v"}
PieceFiles == [h |-> "F", s |-> "F", p |-> "F", q |-> "F", g |-> "E", u |-> "G", v |-> "G"]
PieceSymbols == [h |-> "", s |-> "S", p |-> "P", q |-> "P", g |-> "", u |-> "U", v |-> "U"]
PieceKinds == [h |-> "import_block", s |-> "symbol_body", p |-> "symbol_part", q |-> "symbol_part",
           g |-> "non_code", u |-> "symbol_part", v |-> "symbol_part"]
PieceOrdinals == [h |-> 0, s |-> 0, p |-> 0, q |-> 1, g |-> 0, u |-> 0, v |-> 1]
PieceSizes == [h |-> 1, s |-> 3, p |-> 2, q |-> 3, g |-> 2, u |-> 3, v |-> 1]
Hit(a, c) == [anchor |-> a, chunk |-> c]
HitByText(c) == Hit(IF PieceSymbols[c] # "" THEN PieceSymbols[c] ELSE PieceFiles[c], c)
Seqs(S, n) == UNION {{s \in [1..k -> S] : \A i, j \in 1..k : i # j => s[i] # s[j]} : k \in 0..n}
Named == Seqs({Hit(a, "no") : a \in {"S", "P", "U"}} \cup {Hit("F", "s"), Hit("G", "u"), Hit("E", "g")}, 2)
Texts ==
  Seqs({HitByText(c) : c \in {"h", "p", "q"}}, 2)
    \cup {<<HitByText("v")>>, <<HitByText("v"), HitByText("p")>>, <<HitByText("p"), HitByText("q"), HitByText("s")>>}
Beside == {<<>>, <<"U", "P">>}
Paths == {{}, {"s", "u"}}
Ids == <<"E", "F", "G", "P", "S", "U">>
CONSTANTS Pieces, PieceFile, PieceSymbol, PieceKind, PieceOrdinal, PieceSize, ByName, ByText, Neighbors, ByPath,
          HitLimit, Unit, IdsInOrder
Joined == INSTANCE Fusion
  WITH Chunks <- Pieces, NoSymbol <- "", NoChunk <- "no", File <- PieceFile, SymbolOf <- PieceSymbol,
       KindOf <- PieceKind, Ordinal <- PieceOrdinal, Size <- PieceSize, NameLanes <- ByName, TextLanes <- ByText,
       Nears <- Neighbors, PathSets <- ByPath, LaneLimit <- HitLimit, IdOrder <- IdsInOrder
JoinedOff ==
  /\ stage = None /\ name = None /\ text = None /\ vector = None /\ fused = None /\ spans = None
  /\ near = None /\ paths = None
-----------------------------------------------------------------------------
(* A file of three symbols, one in parts, a test and a readme.             *)
VARIABLES step, prefer, asksTests, question, chosen, read

Bits == {"h", "s", "k", "p1", "p2", "p3", "p4", "q", "x", "r"}
BitFile == [h |-> "F", s |-> "F", k |-> "F", p1 |-> "F", p2 |-> "F", p3 |-> "F", p4 |-> "F", q |-> "G", x |-> "T", r |-> "R"]
BitSymbol == [h |-> "", s |-> "S", k |-> "K", p1 |-> "P", p2 |-> "P", p3 |-> "P", p4 |-> "P", q |-> "Q", x |-> "X", r |-> ""]
BitKind == [h |-> "import_block", s |-> "symbol_body", k |-> "symbol_body", p1 |-> "symbol_part", p2 |-> "symbol_part",
           p3 |-> "symbol_part", p4 |-> "symbol_part", q |-> "symbol_body", x |-> "symbol_body", r |-> "non_code"]
BitOrdinal == [h |-> 0, s |-> 1, k |-> 2, p1 |-> 3, p2 |-> 4, p3 |-> 5, p4 |-> 6, q |-> 1, x |-> 1, r |-> 0]
BitSize == [h |-> 1, s |-> 3, k |-> 2, p1 |-> 4, p2 |-> 4, p3 |-> 1, p4 |-> 4, q |-> 1, x |-> 3, r |-> 3]
FoundBits == UNION {{s \in [1..n -> Bits] : \A i, j \in 1..n : i # j => s[i] # s[j]} : n \in 1..3}
Names(symbols) ==
  [named |-> symbols, expanded |-> <<>>, behavior |-> <<>>, spelled |-> ToSet(symbols),
   hit |-> [x \in {"S", "K", "P", "Q", "X"} |-> IF x = "K" THEN 1 ELSE IF x = "Q" THEN 2 ELSE 3], paths |-> {},
   docs |-> FALSE, imports |-> FALSE, overview |-> FALSE]
Asked ==
  {[Names(<<>>) EXCEPT !.docs = TRUE, !.hit["S"] = 0, !.spelled = {"K"}], Names(<<"P">>), [Names(<<"X">>) EXCEPT !.paths = {"F"}], Names(<<"Q", "P">>),
   [Names(<<"S">>) EXCEPT !.expanded = <<"P">>, !.behavior = <<"Q">>, !.imports = TRUE],
   [Names(<<"P">>) EXCEPT !.behavior = <<"K", "P">>, !.paths = {"R", "G"}, !.overview = TRUE],
   Names(<<"S", "K", "P">>)}
Reloads == {<<"q">>, <<"p2">>, <<"x", "k">>}
Overviews == {<<"r">>}
Chosen == INSTANCE Selection
  WITH Chunks <- Bits, NoSymbol <- "", File <- BitFile, SymbolOf <- BitSymbol, KindOf <- BitKind,
       Ordinal <- BitOrdinal, Size <- BitSize, Floor <- 2, TestFiles <- {"T"}, DocFiles <- {"R"}, WeakFiles <- {"R"}, Found <- FoundBits,
       Questions <- Asked, Boosts <- Reloads, Docs <- Overviews, SpanLimit <- 2, Bonus <- 3, MaxAdded <- 3,
       MaxReload <- 3, BodiesPerFile <- 4, PerFile <- 2, stage <- step, spans <- chosen, loaded <- read
ChosenOff ==
  /\ step = None /\ prefer = None /\ asksTests = None /\ question = None /\ chosen = None /\ read = None
-----------------------------------------------------------------------------
(* A form, its handler and what they call; names defined twice and in tests. *)
VARIABLES edges, strategies, blocked, foreign, loaded, stages, choices, passes, stop, missing, verified, targets, packed, phase

StageNames == <<"http_request", "api_handler", "business_logic", "database">>
Like(keys) == [k \in ToSet(StageNames) |-> IF k \in keys THEN 1 ELSE 0]
Span(symbol, file, at, thin, calls, looks) ==
  [symbol |-> symbol, file |-> file, at |-> at, thin |-> thin, calls |-> calls, requests |-> <<>>,
   serves |-> <<>>, looks |-> Like(looks)]
Spans ==
  [form |-> [Span("form", "ui", 1, FALSE, <<"save">>, {"http_request"}) EXCEPT !.requests = <<"post">>],
   form2 |-> Span("form", "ui", 2, TRUE, <<"open">>, {}),
   menu |-> Span("menu", "ui", 3, TRUE, <<"twice">>, {"http_request"}),
   post |-> [Span("post", "ui", 1, FALSE, <<"store", "twice">>, {"api_handler", "database"})
             EXCEPT !.serves = <<"post">>],
   list |-> Span("list", "api", 2, TRUE, <<"store", "save">>, {"api_handler"}),
   save |-> Span("save", "db", 1, FALSE, <<"store">>, {"business_logic"}),
   guide |-> Span("guide", "db", 0, FALSE, <<>>, {"database"}),
   store |-> Span("store", "db", 2, FALSE, <<"open">>, {}),
   store2 |-> Span("store", "db", 3, TRUE, <<>>, {}),
   open |-> Span("open", "disk", 4, FALSE, <<>>, {"database"})]
Definition(symbol, test) == [symbol |-> symbol, test |-> test]
Defined == [save |-> <<Definition("save", FALSE)>>, store |-> <<Definition("store", FALSE), Definition("test_store", TRUE)>>,
          open |-> <<Definition("fixture", TRUE), Definition("open", FALSE)>>,
          twice |-> <<Definition("fixture", TRUE), Definition("list", FALSE), Definition("menu", FALSE)>>]
Edge(type, resolution, outgoing, anchor, other) ==
  [type |-> type, resolution |-> resolution, outgoing |-> outgoing, anchor |-> anchor, other |-> other, name |-> "n"]
EdgeUniverse ==
  {Edge("CALLS", "resolved", TRUE, "post", "store"), Edge("CALLS", "resolved", FALSE, "open", "store"),
   Edge("CALLS", "ambiguous", TRUE, "menu", "list"), Edge("ROUTES_TO", "protocol", TRUE, "form", "post"),
   Edge("ROUTES_TO", "protocol", FALSE, "post", "menu")}
AllEdges == {<<>>} \union {<<a, Edge("CALLS", "ambiguous", TRUE, "menu", "list")>> : a \in EdgeUniverse}
Loaded(s) == [spans |-> s, docs |-> <<>>]
AllSeeds ==
  {Loaded(SetToSeq(s)) : s \in {s \in SUBSET (DOMAIN Spans \ {"guide", "form2", "menu"}) : Cardinality(s) \in 1..2}}
  \union {Loaded(<<"menu", "form", "form2">>), Loaded(<<"menu", "post", "list">>), Loaded(<<"menu", "store2", "save">>)}
  \union {[spans |-> s, docs |-> <<"guide">>] :
            s \in {<<"save">>, <<"store2">>, <<"store2", "save">>, <<"save", "menu">>, <<"store", "store2", "save">>}}
Asking(ways, wanted) == [strategies |-> ways, stages |-> wanted, blocked |-> {}, foreign |-> FALSE]
Ways == {{"follow_verified_calls", "discover_http_routes"}, {"inspect_source_call_sites", "lexical_route_inspection"},
         {"follow_verified_calls", "inspect_source_call_sites", "discover_http_routes", "follow_protocol_links"},
         {"lexical_catalogue_search"}}
StageSets == {{}, {"database"}, {"http_request", "api_handler", "database"}}
AllPlans ==
  {Asking(ways, wanted) : ways \in Ways, wanted \in StageSets}
  \union {[Asking({"follow_verified_calls"}, wanted) EXCEPT !.blocked = {"http_request"}] :
            wanted \in {{}, {"api_handler", "database"}}}
  \union {[Asking({"follow_verified_calls"}, {}) EXCEPT !.foreign = TRUE]}
Followed == INSTANCE Investigation
  WITH Chunk <- Spans, Catalogue <- Defined, EdgeLists <- AllEdges, Seeds <- AllSeeds, Plans <- AllPlans, MaxClaims <- 2, Order <- StageNames, Limit <- 3, FileCap <- 2, MaxTargets <- 4, RowLimit <- 3,
       MaxPasses <- 3, MaxLeftOut <- 1, pc <- phase
FollowedOff ==
  /\ edges = None /\ strategies = None /\ blocked = None /\ foreign = None /\ loaded = None /\ stages = None /\ choices = None /\ passes = None
  /\ stop = None /\ missing = None /\ verified = None /\ targets = None /\ packed = None /\ phase = None
-----------------------------------------------------------------------------
(* Bodies whose branches, loops, handlers and functions stand in each other. *)
VARIABLES tree, todo, bound, calls

Node(type, inside) == [kind |-> type, kids |-> inside]
Leaf(type) == Node(type, <<>>)
Block(s) == Node("block", s)
One(s) == Block(<<s>>)
Shapes(S, T) ==
  UNION {{Node("if", <<One(s)>>) : s \in S},
         {Node("if", <<One(s), Node("else", <<One(t)>>)>>) : s \in S, t \in T},
         {Node("if", <<One(Leaf("call")), Node("elif", <<One(s)>>), Node("else", <<One(t)>>)>>) : s \in S, t \in T},
         {Block(<<One(s), Node("handler", <<One(t)>>), Node("bare", <<One(t)>>)>>) : s \in S, t \in T},
         {Node("loop", <<One(s)>>) : s \in S},
         {Node("loop", <<One(s), Node("else", <<One(t)>>)>>) : s \in S, t \in T},
         {Node("fn", <<One(s)>>) : s \in S}}
Statements == {Leaf("call"), Leaf("return")} \union Shapes({Leaf("raise")}, {Leaf("call")})
Bodies == {Block(<<Node("fn", <<Block(<<s, Leaf("return")>>)>>)>>) : s \in Shapes(Statements, Statements)}
Observed == INSTANCE Branches WITH Trees <- Bodies, MaxDepth <- 12
ObservedOff == tree = None /\ todo = None /\ bound = None /\ calls = None
-----------------------------------------------------------------------------
VARIABLE part

plansVars == <<repo, frameworks, row, words, profile, plan, pc>>
nearestVars == <<lane, kind, index, links, first, offset, examined, page, size, seen, kept, gone>>
walkedVars == <<turn, walk, graph, anchors, hops, hop, frontier, visited, rows, found, cut, dropped>>
fusedVars == <<stage, name, text, vector, fused, spans, near, paths>>
chosenVars == <<step, prefer, asksTests, question, chosen, read>>
observedVars == <<tree, todo, bound, calls>>
followedVars == <<edges, strategies, blocked, foreign, loaded, stages, choices, passes, stop, missing, verified, targets, packed, phase>>
allVars == <<part, plansVars, nearestVars, walkedVars, fusedVars, chosenVars, observedVars, followedVars>>

ASSUME SearchAssumption ==
  Planned!CapabilityAssumption /\ Nearest!LaneAssumption /\ Walked!GraphAssumption /\ Joined!FusionAssumption

SearchInit ==
  /\ part \in {"plan", "vector", "graph", "fusion", "choice", "bodies", "follow"}
  /\ IF part = "plan" THEN Planned!Init ELSE PlannedOff
  /\ IF part = "vector" THEN Nearest!Init ELSE NearestOff
  /\ IF part = "graph" THEN Walked!Init ELSE WalkedOff
  /\ IF part = "fusion" THEN Joined!Init ELSE JoinedOff
  /\ IF part = "choice" THEN Chosen!Init ELSE ChosenOff
  /\ IF part = "bodies" THEN Observed!Init ELSE ObservedOff
  /\ IF part = "follow" THEN Followed!Init ELSE FollowedOff

PlanStep ==
  /\ part = "plan" /\ Planned!Next
  /\ UNCHANGED <<part, nearestVars, walkedVars, fusedVars, chosenVars, observedVars, followedVars>>
VectorStep ==
  /\ part = "vector" /\ Nearest!Next
  /\ UNCHANGED <<part, plansVars, walkedVars, fusedVars, chosenVars, observedVars, followedVars>>
GraphStep ==
  /\ part = "graph" /\ Walked!Next
  /\ UNCHANGED <<part, plansVars, nearestVars, fusedVars, chosenVars, observedVars, followedVars>>
FusionStep ==
  /\ part = "fusion" /\ Joined!Next
  /\ UNCHANGED <<part, plansVars, nearestVars, walkedVars, chosenVars, observedVars, followedVars>>
ChoiceStep ==
  /\ part = "choice" /\ Chosen!Next
  /\ UNCHANGED <<part, plansVars, nearestVars, walkedVars, fusedVars, observedVars, followedVars>>
BodyStep ==
  /\ part = "bodies" /\ Observed!Next
  /\ UNCHANGED <<part, plansVars, nearestVars, walkedVars, fusedVars, chosenVars, followedVars>>
FollowStep ==
  /\ part = "follow" /\ Followed!Next
  /\ UNCHANGED <<part, plansVars, nearestVars, walkedVars, fusedVars, chosenVars, observedVars>>

SearchNext == PlanStep \/ VectorStep \/ GraphStep \/ FusionStep \/ ChoiceStep \/ BodyStep \/ FollowStep
SearchSpec == SearchInit /\ [][SearchNext]_allVars

-----------------------------------------------------------------------------
\* A plan follows verified calls only where the index has one, rests on no other generation's report,
\* and lists each stage once, also when the profile is applied again (capability_profile.py, execution_trace.py).
PlanIsMeasured ==
  part = "plan" => Planned!TypeOK /\ Planned!FollowsVerified /\ Planned!OwnReportOnly /\ Planned!OneList

\* The vector lane gives the nearest ready chunks of its own generation, none skipped or repeated at
\* the turn of a page, while other questions add points between two pages (answer.py).
NearestFirst ==
  part = "vector" => Nearest!TypeOK /\ Nearest!OwnOnly /\ Nearest!BestFirst /\ Nearest!Complete

\* A walk finds what its hops reach and nothing further, over edges in either direction, and its rows
\* lead with the anchors, whatever the graph loses meanwhile (graph_expand.py, answer.py).
WalkIsBounded ==
  part = "graph" => Walked!TypeOK /\ Walked!WithinHops /\ Walked!NothingMissed /\ Walked!AnchorsFirst

\* What more lanes agree on is read first, a symbol's hit brings all its parts or its body, and no
\* supplement goes before what was found (fusion.py).
LanesAgree ==
  part = "fusion" => Joined!TypeOK /\ Joined!Agreed /\ Joined!WholeSymbol /\ Joined!FoundFirst

\* From fusion to prompt, a symbol the question names has the first places, is completed as far as
\* the limits allow and loses nothing to the trim; the limit per file splits no symbol and lets no
\* file take all the places, and each symbol is read in its order (chunk_selection.py, fusion.py).
ChoiceIsWhole ==
  part = "choice" => /\ Chosen!TypeOK /\ Chosen!NamedWhole /\ Chosen!NeverSplit
                     /\ Chosen!Diverse /\ Chosen!Together /\ Chosen!TargetsLead

\* Following calls loses no span but one over the limit of its file, and splits no symbol in any pass,
\* records as a call only what the index resolved or a span shows, claims the first of these, each of
\* the symbol that calls, and says a stage is covered only with a span of it loaded (execution_trace.py).  A span shows the calls of its own function, all of them but those of a loop's
\* else, in the order of the source, each under the test of the branch that makes it (structure.py).
FollowsTruly ==
  /\ [](part = "follow" => Followed!TypeOK /\ Followed!CallsAreCalls /\ Followed!ClaimedByCaller)
  /\ [](part = "bodies" => Observed!OwnArm /\ Observed!InSourceOrder /\ Observed!AllSeen)
  /\ [][part = "follow" => Followed!NothingLost /\ Followed!WholeSymbols /\ Followed!CoveredIsLoaded]_allVars
=============================================================================
