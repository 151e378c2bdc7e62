----------------------------- MODULE Investigation -----------------------------
(***************************************************************************)
(* A trace question followed through the repository: up to three passes of *)
(* expand_execution_trace_evidence over the spans already loaded, each     *)
(* followed by the merge, the per-file cap and the reordering of           *)
(* _answer_events, then the order by stage and the claims made without a   *)
(* model.  A chunk keeps its symbol and file, whether it is thin, the      *)
(* names it calls, the handlers its HTTP strings and its own routes lead   *)
(* to, and how strongly it looks like each stage.                          *)
(***************************************************************************)
EXTENDS Integers, Sequences, SequencesExt, FiniteSets, FiniteSetsExt, Functions

CONSTANTS Chunk,       \* the chunks of the generation, by id
          Catalogue,   \* the definitions of a called name, in catalogue order: [symbol, test]
          EdgeLists,   \* the graph edges of the answer
          Seeds,       \* the spans loaded before, and the documents put in front when they are thin: [spans, docs]
          Plans,       \* the plan: its strategies, its stages, those its profile blocks, whether it is foreign
          Order,       \* STAGE_ORDER
          Limit,       \* choices of one pass
          FileCap,     \* per_file_cap
          MaxTargets,  \* _MAX_FOLLOWUP_SYMBOLS
          RowLimit,    \* rows _unique_symbol_by_name reads
          MaxPasses,   \* _MAX_INVESTIGATION_PASSES
          MaxClaims,   \* the claims partial_trace_claims stops at
          MaxLeftOut   \* bound: spans the prompt has no room for

VARIABLES edges, strategies, blocked, foreign, loaded, stages, choices, passes, stop, missing, verified, targets, packed, pc
vars == <<edges, strategies, blocked, foreign, loaded, stages, choices, passes, stop, missing, verified, targets, packed, pc>>

Symbol(c) == Chunk[c].symbol
SymbolsIn(spans) == {Symbol(c) : c \in Range(spans)}

(***************************************************************************)
(* limit_spans_per_file: at most cap symbols of a file, each with all its  *)
(* chunks; deprioritize_thin_spans; _merge_loaded_spans.                   *)
(***************************************************************************)
Used(kept, c) == Cardinality({Symbol(d) : d \in {d \in Range(kept) : Chunk[d].file = Chunk[c].file}})
CappedByChunk(spans) ==   \* mutant: the later parts of an admitted symbol count, too
  FoldLeft(LAMBDA kept, c :
             IF Cardinality({d \in Range(kept) : Chunk[d].file = Chunk[c].file}) < FileCap
             THEN Append(kept, c) ELSE kept, <<>>, spans)
PerFile(spans) ==
  FoldLeft(LAMBDA kept, c : IF Symbol(c) \in SymbolsIn(kept) \/ Used(kept, c) < FileCap
                            THEN Append(kept, c) ELSE kept, <<>>, spans)
ThinLast(spans) == SelectSeq(spans, LAMBDA c : ~Chunk[c].thin) \o SelectSeq(spans, LAMBDA c : Chunk[c].thin)
Merge(spans, extra) == spans \o SelectSeq(extra, LAMBDA c : c \notin Range(spans))

(***************************************************************************)
(* The documents of a thin pack come after the cap, so that a file may be  *)
(* over it; the sorts that follow are any order.  A plan is of another     *)
(* generation (`foreign') when the profile applied to it is.               *)
(***************************************************************************)
Init ==
  /\ edges \in EdgeLists
  /\ \E plan \in Plans : /\ strategies = plan.strategies /\ stages = plan.stages
                        /\ blocked = plan.blocked /\ foreign = plan.foreign
  /\ \E seed \in Seeds : loaded \in SetToSeqs(Range(Merge(seed.docs, PerFile(seed.spans))))
  /\ choices = <<>> /\ passes = 0 /\ stop = "" /\ missing = {} /\ verified = <<>> /\ targets = <<>>
  /\ packed = <<>> /\ pc = "expand"

(***************************************************************************)
(* _stage_for_span: the stage of the plan the span looks most like.        *)
(***************************************************************************)
Place(key) == CHOOSE k \in DOMAIN Order : Order[k] = key
Stage(c, of) ==
  LET candidates == IF of = {} THEN Range(Order) ELSE of
      scored == {k \in candidates : Chunk[c].looks[k] > 0}
      best   == {k \in scored : \A j \in scored : Chunk[c].looks[j] <= Chunk[c].looks[k]}
  IN  IF scored = {} THEN "other" ELSE CHOOSE k \in best : \A j \in best : Place(k) <= Place(j)
Present(spans, of) == {Stage(c, of) : c \in Range(spans)} \ {"other"}
\* _refine_stages_from_evidence: only a plan without stages has any stage left to reveal, and those
\* the plan calls neither its own nor blocked are the ones it calls not applicable.
Refined(spans) == stages \union (Present(spans, stages) \ blocked)

(***************************************************************************)
(* One pass.  The work of a pass is a record of what it has chosen, seen,  *)
(* aimed at and remembered.                                                *)
(***************************************************************************)
Remember(w, rel) ==
  IF \E k \in DOMAIN w.verified : [w.verified[k] EXCEPT !.chunk = rel.chunk] = rel THEN w
  ELSE [w EXCEPT !.verified = Append(@, rel)]
\* pick_symbol_implementation_chunks: the chunks of a symbol, in source order.
Implementation(s) == SetToSortSeq({c \in DOMAIN Chunk : Symbol(c) = s}, LAMBDA a, b : Chunk[a].at < Chunk[b].at)
Targeted(ts, s) == IF Contains(ts, s) THEN ts ELSE Append(ts, s)
Aim(w, s) ==
  IF s \in w.symbols \/ Len(w.choices) >= Limit THEN w
  ELSE LET new  == SelectSeq(Implementation(s), LAMBDA c : c \notin w.chunks)
           room == Limit - Len(w.choices)
           take == SubSeq(new, 1, Min({room, Len(new)}))
       IN  [w EXCEPT !.choices = @ \o take, !.chunks = @ \union Range(take), !.symbols = @ \union {s},
                     !.targets = Targeted(@, s)]

Source(edge) == IF edge.outgoing THEN edge.anchor ELSE edge.other
Target(edge) == IF edge.outgoing THEN edge.other ELSE edge.anchor
Follow(w, edge, kind) ==
  Remember(Aim(w, Target(edge)),
           [kind |-> kind, from |-> Source(edge), name |-> edge.name, to |-> Target(edge), chunk |-> ""])
CallEdge(w, edge) ==
  IF edge.type = "CALLS" /\ edge.resolution = "resolved" THEN Follow(w, edge, "calls_resolved") ELSE w
RouteEdge(w, edge) ==
  IF edge.type = "ROUTES_TO" /\ edge.resolution = "protocol" THEN Follow(w, edge, "http_route") ELSE w

FollowCalls == "follow_verified_calls" \in strategies
InspectCalls == FollowCalls \/ "inspect_source_call_sites" \in strategies
FollowHttp == strategies \intersect {"discover_http_routes", "follow_protocol_links"} # {}
LexicalHttp == "lexical_route_inspection" \in strategies

Routes(w, c) ==
  LET bound == FoldLeft(LAMBDA v, h : Remember(Aim(v, h),
                          [kind |-> "http_route", from |-> Symbol(c), name |-> "route", to |-> h, chunk |-> c]),
                        w, Chunk[c].requests)
  IN  FoldLeft(Aim, bound, Chunk[c].serves)

\* _unique_symbol_by_name.
Definitions(name) == SelectSeq(SubSeq(Catalogue[name], 1, Min({RowLimit, Len(Catalogue[name])})), LAMBDA d : ~d.test)
Full(w) == Len(w.targets) >= MaxTargets
Call(w, c, name) ==
  IF w.halted THEN w
  ELSE LET from == [kind |-> "unresolved", from |-> Symbol(c), name |-> name, to |-> "", chunk |-> c]
           defs == Definitions(name)
       IN  IF Len(defs) # 1 THEN Remember(w, from)
           ELSE LET v == Remember(Aim(w, defs[1].symbol),
                                  [from EXCEPT !.kind = "calls_observed", !.to = defs[1].symbol])
                IN  [v EXCEPT !.halted = Full(v)]
Span(w, c) ==
  IF w.halted THEN w
  ELSE LET v == IF FollowHttp \/ LexicalHttp THEN Routes(w, c) ELSE w
           u == IF InspectCalls THEN FoldLeft(LAMBDA t, name : Call(t, c, name), v, Chunk[c].calls) ELSE v
       IN  [u EXCEPT !.halted = InspectCalls /\ Full(u)]
Pass ==
  LET start  == [choices |-> <<>>, chunks |-> Range(loaded), symbols |-> SymbolsIn(loaded),
                 targets |-> targets, verified |-> verified, halted |-> FALSE]
      called == IF FollowCalls THEN FoldLeft(CallEdge, start, edges) ELSE start
      routed == IF FollowHttp THEN FoldLeft(RouteEdge, called, edges) ELSE called
  IN  FoldLeft(Span, routed, loaded)

Missing(spans, of) == (of \ Present(spans, of)) \ blocked
Reason(found, pass, lacking) ==
  CASE found = <<>> -> (IF stop = "" THEN "no_followup_targets" ELSE stop)
    [] found # <<>> /\ pass >= MaxPasses -> "pass_budget"
    [] found # <<>> /\ pass < MaxPasses /\ lacking = {} ->
         (IF blocked = {} THEN "stages_covered" ELSE "partial_capability_limit")
    [] OTHER -> "continue"

Expand ==
  /\ pc = "expand" /\ ~foreign
  /\ LET w == Pass
         found == w.choices
     IN  /\ choices' = found /\ targets' = w.targets /\ verified' = w.verified
         /\ stages' = Refined(loaded)
         /\ missing' = Missing(loaded, stages')
         /\ passes' = passes + 1
         /\ stop' = Reason(found, passes', missing')
         /\ loaded' = IF found = <<>> THEN loaded ELSE ThinLast(PerFile(Merge(loaded, found)))
         /\ pc' = IF found = <<>> \/ stop' # "continue" \/ passes' = 3 THEN "order" ELSE "expand"
  /\ UNCHANGED <<edges, strategies, blocked, foreign, packed>>
Mismatch ==
  /\ pc = "expand" /\ foreign /\ stop' = "capability_generation_mismatch" /\ pc' = "order"
  /\ UNCHANGED <<edges, strategies, blocked, foreign, loaded, stages, choices, passes, missing, verified, targets, packed>>

(***************************************************************************)
(* order_spans_by_execution_stage; a plan without stages is read for its   *)
(* "business_logic".                                                       *)
(***************************************************************************)
InStage(spans, key) == SelectSeq(spans, LAMBDA c : Stage(c, stages) = key)
ByStage(spans) ==
  LET read == IF stages = {} THEN {"business_logic"} ELSE stages
      keys == SelectSeq(Order, LAMBDA k : k \in read)
  IN  FlattenSeq([k \in DOMAIN keys |-> InStage(spans, keys[k])])
      \o SelectSeq(spans, LAMBDA c : Stage(c, stages) \notin read)
Arrange ==
  /\ pc = "order" /\ pc' = "pack" /\ loaded' = ByStage(loaded)
  /\ UNCHANGED <<edges, strategies, blocked, foreign, stages, choices, passes, stop, missing, verified, targets, packed>>
\* The budget of the prompt leaves spans out (_pack_repository_evidence).
Pack == /\ pc = "pack" /\ pc' = "done"
        /\ \E n \in 0..Min({MaxLeftOut, Len(loaded)}) : \E out \in kSubset(n, Range(loaded)) :
             packed' = SelectSeq(loaded, LAMBDA c : c \notin out)
        /\ UNCHANGED <<edges, strategies, blocked, foreign, loaded, stages, choices, passes, stop, missing, verified, targets>>

Next == Expand \/ Mismatch \/ Arrange \/ Pack
Spec == Init /\ [][Next]_vars

\* partial_trace_claims: the span a remembered relationship is claimed from, <<>> if none.
FileOf(s) == {Chunk[c].file : c \in {c \in DOMAIN Chunk : Symbol(c) = s}}
InFiles(files) == SelectSeq(packed, LAMBDA c : Chunk[c].file \in files)
Evidence(rel) ==
  IF rel.chunk \in Range(packed) THEN <<rel.chunk>>
  ELSE IF rel.chunk = "" THEN <<>>
  ELSE LET near == InFiles(FileOf(rel.to)) \o InFiles(FileOf(rel.from)) IN SubSeq(near, 1, Min({1, Len(near)}))
\* The relationships claimed are the first that have a span, in the order remembered, routes among them.
Claimed ==
  LET shown == SelectSeq(verified, LAMBDA r : r.kind # "unresolved" /\ Evidence(r) # <<>>)
  IN  SubSeq(shown, 1, Min({MaxClaims, Len(shown)}))
\* The symbol a claim says calls.
Claimant(rel) == Symbol(Evidence(rel)[1])

-----------------------------------------------------------------------------
TypeOK ==
  /\ Range(loaded) \union Range(choices) \subseteq DOMAIN Chunk
  /\ IsInjective(loaded) /\ IsInjective(targets) /\ passes \in 0..3
  /\ missing \subseteq stages /\ stages \subseteq Range(Order) /\ stages \intersect blocked = {}
  /\ stop \in {"", "no_followup_targets", "pass_budget", "stages_covered", "partial_capability_limit", "continue",
              "capability_generation_mismatch"}

\* A pass loses evidence only where the documents put in front had filled the file past its cap, and
\* no pass after the first that adds anything loses any, whatever the reordering between passes does
\* (a cap counted before the reordering is still met after it).
NothingLost ==
  \A c \in Range(loaded) \ Range(loaded') :
    /\ passes = 0 /\ Used(loaded', c) = FileCap /\ Used(loaded, c) > FileCap

\* A symbol split into parts is kept whole or not at all (limit_spans_per_file: "split oversized
\* functions stay intact"): the cap never cuts between the parts a pass has loaded.
WholeSymbols ==
  \A s \in SymbolsIn(loaded') :
    \A c \in Range(loaded) \union Range(choices') : Symbol(c) = s => c \in Range(loaded')

\* Nothing is recorded as a call but what the index resolved or a loaded span shows: a protocol
\* edge stays a route ("not a CALLS edge"), and a name defined twice in what was read stays open.
CallsAreCalls ==
  \A r \in Range(verified) :
    /\ r.kind = "calls_resolved" => \E e \in Range(edges) :
         e.type = "CALLS" /\ e.resolution = "resolved" /\ Source(e) = r.from /\ Target(e) = r.to
    /\ r.kind = "calls_observed" =>
         /\ r.chunk \in DOMAIN Chunk /\ r.name \in Range(Chunk[r.chunk].calls) /\ Symbol(r.chunk) = r.from
         /\ \E d \in Range(Catalogue[r.name]) : d.symbol = r.to /\ ~d.test

\* While the span of an observed call is in the prompt, the claim made of it names the symbol that makes
\* the call, whatever passes and limits came between; it goes unclaimed only when as many claims as
\* there may be are of relationships seen before it (partial_trace_claims).
ClaimedByCaller ==
  \A k \in DOMAIN verified :
    LET r == verified[k]
    IN  r.kind = "calls_observed" /\ r.chunk \in Range(packed) =>
          IF r \in Range(Claimed) THEN Claimant(r) = r.from
          ELSE Len(Claimed) = MaxClaims /\ Range(Claimed) \subseteq Range(SubSeq(verified, 1, k - 1))

\* A pass that ends the investigation because no stage is missing leaves a span of each stage loaded,
\* unless documents put in front had filled a file past its cap.
CoveredIsLoaded ==
  pc = "expand" /\ stop' \in {"stages_covered", "partial_capability_limit"} /\ PerFile(loaded) = loaded =>
    stages' \subseteq Present(loaded', stages')

=============================================================================
