------------------------------- MODULE Selection -------------------------------
(***************************************************************************)
(* From the fused choices to the order of the spans an answer packs: named *)
(* symbols are kept, header hits become bodies, symbols are completed with *)
(* their parts, the list is trimmed, loaded, limited per file and sorted.  *)
(* A choice is a chunk with the anchor it stands for; a loaded span is its *)
(* chunk.  The catalogue gives each chunk a file, a symbol (NoSymbol for   *)
(* none), a kind, an ordinal in its file and a size.                       *)
(*                                                                         *)
(* A question names symbols; its expansions spell more (expanded), and so  *)
(* do the words for a behaviour (behavior).  Of its text the code asks     *)
(* which qualified names it contains (spelled), how it meets the name of a *)
(* symbol (hit, 0 for the name itself to 3 for not at all), the paths it   *)
(* hints at, and whether it is about imports, documents or an overview.    *)
(***************************************************************************)
EXTENDS Naturals, Sequences, FiniteSets, SequencesExt, TLC

CONSTANTS Chunks, NoSymbol, File, SymbolOf, KindOf, Ordinal, Size, Floor,
          TestFiles, DocFiles, WeakFiles,   \* is_test_path, is_documentation_path, readmes and manifests
          Found,          \* sequences of chunks the fusion and its boosts may give
          Questions,
          Boosts, Docs,   \* what the reload and the overview supplement may choose
          SpanLimit, Bonus, MaxAdded, MaxReload, BodiesPerFile, PerFile

VARIABLES stage, prefer, asksTests, question, spans, loaded
vars == <<stage, prefer, asksTests, question, spans, loaded>>

Of(f, v) == {c \in Chunks : f[c] = v}
Kind(S, kinds) == {c \in S : KindOf[c] \in kinds}
Headers == {"import_block", "file_overview", "non_code"}
Slices == {"symbol_body", "symbol_part"}
Earlier(c, d) == Ordinal[c] < Ordinal[d]
Sorted(S) == SetToSortSeq(S, Earlier)
Largest(S) == CHOOSE c \in S : \A d \in S \ {c} :
                Size[c] > Size[d] \/ (Size[c] = Size[d] /\ Ordinal[c] > Ordinal[d])
Own(c) == IF SymbolOf[c] # NoSymbol THEN SymbolOf[c] ELSE File[c]
Choice(c) == [chunk |-> c, anchor |-> Own(c)]
ChoicesOf(s) == [i \in DOMAIN s |-> Choice(s[i])]
ChunksOf(s) == {s[i].chunk : i \in DOMAIN s}
Least(a, b) == IF a < b THEN a ELSE b
Take(s, n) == SubSeq(s, 1, Least(n, Len(s)))

\* pick_symbol_implementation_chunks for each named symbol: the largest body, or every part.
Implementation(s) == LET bodies == Kind(Of(SymbolOf, s), {"symbol_body"})
                     IN IF bodies # {} THEN <<Largest(bodies)>> ELSE Sorted(Kind(Of(SymbolOf, s), {"symbol_part"}))
Spans(symbols) == ChoicesOf(FlattenSeq([i \in DOMAIN symbols |-> Implementation(symbols[i])]))
Once(s) == FoldLeft(LAMBDA got, x : IF x \in ToSet(got) THEN got ELSE Append(got, x), <<>>, s)
Leading == Once(Spans(question.named) \o Spans(question.expanded) \o Spans(question.behavior))
Targets == ToSet(question.named)   \* named_anchors
Required == Targets \cup ToSet(question.expanded)   \* required_symbol_ids

Init == /\ spans \in {ChoicesOf(s) : s \in Found} /\ prefer \in BOOLEAN /\ asksTests \in BOOLEAN
        /\ question \in Questions
        /\ stage = "found" /\ loaded = <<>>

Step(from, to) == stage = from /\ stage' = to /\ UNCHANGED <<prefer, asksTests, question>>

-----------------------------------------------------------------------------
\* preserve_named_spans: the named choices first, then the order there was, within the limit.
Preserve == /\ Step("found", "preserved")
            /\ LET front == Leading
                   rest(x) == x.chunk \notin ChunksOf(front)
               IN spans' = Take(front \o SelectSeq(spans, rest), SpanLimit)
            /\ UNCHANGED loaded

\* upgrade_chunk_choice, enrich_spans_with_bodies: a header becomes a body of its file.
BodyOfFile(c) == LET bodies == Kind(Of(File, File[c]), {"symbol_body"}) IN IF bodies = {} THEN c ELSE Largest(bodies)
BodyOfSymbol(c) == LET bodies == Kind(Of(SymbolOf, SymbolOf[c]), {"symbol_body"})
                   IN IF bodies = {} THEN c ELSE Largest(bodies)
Upgraded(c) == CASE KindOf[c] = "symbol_part" /\ SymbolOf[c] # NoSymbol -> BodyOfSymbol(c)
                 [] KindOf[c] \in Headers -> BodyOfFile(c)
                 [] OTHER -> c
Enriched(x) ==
  LET best == Upgraded(x.chunk)
      own == SymbolOf[x.chunk]
      foreign == \/ own # NoSymbol /\ SymbolOf[best] \notin {NoSymbol, own}
                 \/ KindOf[x.chunk] = "symbol_part" /\ SymbolOf[best] \notin {NoSymbol, x.anchor}
  IN IF best = x.chunk \/ foreign THEN x
     ELSE [chunk |-> best, anchor |-> IF SymbolOf[best] # NoSymbol THEN SymbolOf[best] ELSE x.anchor]
Enrich == /\ Step("preserved", "enriched")
          /\ spans' = [i \in DOMAIN spans |-> Enriched(spans[i])] /\ UNCHANGED loaded

-----------------------------------------------------------------------------
\* _adjacent_symbol_parts: outwards from the seed, the left neighbour first.
Grow(S, chosen, left) ==
  LET beside == {c \in S \ chosen : \E d \in chosen :
                   IF left THEN Ordinal[c] + 1 = Ordinal[d] ELSE Ordinal[c] = Ordinal[d] + 1}
  IN chosen \cup beside
Adjacent(S, seeds, n) ==
  IF seeds = {} THEN ToSet(Take(Sorted(S), n))
  ELSE FoldLeft(LAMBDA chosen, i : IF Cardinality(chosen) >= n THEN chosen ELSE Grow(S, chosen, i % 2 = 1),
                seeds, [i \in 1..(2 * n) |-> i])

\* expand_spans_with_sibling_bodies, first half: the rest of each chosen symbol, in the order chosen.
Requested(s) == LET symbolOf == [i \in DOMAIN s |-> SymbolOf[s[i].chunk]]
                    isSymbol(x) == x # NoSymbol
                IN Once(SelectSeq(symbolOf, isSymbol))
Seed(s, symbol) ==   \* the first part chosen of a symbol
  LET ofIt(x) == SymbolOf[x.chunk] = symbol /\ KindOf[x.chunk] = "symbol_part"
      parts == SelectSeq(s, ofIt)
  IN IF parts = <<>> THEN {} ELSE {parts[1].chunk}
Candidates(s, symbol, room) ==
  LET all == Of(SymbolOf, symbol) bodies == Kind(all, {"symbol_body"})
  IN IF bodies # {} THEN Sorted(bodies) ELSE Sorted(Adjacent(Kind(all, {"symbol_part"}), Seed(s, symbol), room))
Fresh(candidates, seen) == LET new(c) == c \notin seen IN SelectSeq(candidates, new)
OwnParts(s, most) ==
  FoldLeft(LAMBDA extra, symbol :
             IF Len(extra) >= most THEN extra
             ELSE extra \o Take(Fresh(Candidates(s, symbol, most - Len(extra)), ChunksOf(s) \cup ToSet(extra)),
                                most - Len(extra)),
           <<>>, Requested(s))

\* Second half: other bodies of the files, which the set gives in any order.
HeaderHit(s, f) == \E c \in ChunksOf(s) : File[c] = f /\ KindOf[c] \in Headers
PeerRoom(s, f) == IF HeaderHit(s, f) THEN BodiesPerFile ELSE IF BodiesPerFile < 4 THEN 1 ELSE BodiesPerFile \div 2
Peers(s, files, own, most) ==
  FoldLeft(LAMBDA extra, f :
             LET peers == {c \in Kind(Of(File, f), {"symbol_body"}) : SymbolOf[c] \notin ToSet(Requested(s))}
             IN extra \o Take(Fresh(Sorted(peers), ChunksOf(s) \cup ToSet(extra)),
                              Least(PeerRoom(s, f), IF Len(extra) > most THEN 0 ELSE most - Len(extra))),
           own, files)
FileOrders(s) == SetToSeqs({File[c] : c \in ChunksOf(s)})
Expansions(s, most) == {s \o ChoicesOf(Peers(s, files, OwnParts(s, most), most)) : files \in FileOrders(s)}

\* Trimming keeps every choice that stands for a named symbol.
Wide == IF prefer THEN SpanLimit + Bonus ELSE SpanLimit
CutOff(s) == Take(s, Wide)   \* mutant: named or not, the tail goes
Trimmed(s) == LET essential(x) == x.anchor \in Targets
                  other(x) == x.anchor \notin Targets
                  keep == SelectSeq(s, essential)
              IN IF Targets = {} \/ Len(s) <= Wide THEN Take(s, Wide)
                 ELSE keep \o Take(SelectSeq(s, other), IF Len(keep) > Wide THEN 0 ELSE Wide - Len(keep))
Expand == /\ Step("enriched", "trimmed")
          /\ IF prefer \/ Leading # <<>> THEN \E s \in Expansions(spans, MaxAdded) : spans' = Trimmed(s)
             ELSE UNCHANGED spans
          /\ UNCHANGED loaded

-----------------------------------------------------------------------------
\* Orders on loaded spans: a stable sort, and the slices of a symbol brought together.
StableSort(s, Key(_)) ==
  LET before(i, j) == Key(s[i]) < Key(s[j]) \/ (Key(s[i]) = Key(s[j]) /\ i < j)
      order == SortSeq([i \in DOMAIN s |-> i], before)
  IN [k \in DOMAIN s |-> s[order[k]]]
Slice(c) == SymbolOf[c] # NoSymbol /\ KindOf[c] \in Slices
Joins(c, d) == Slice(c) /\ Slice(d) /\ SymbolOf[c] = SymbolOf[d]
Coalesce(s) ==
  FoldLeft(LAMBDA out, c : IF \E d \in ToSet(out) : Joins(c, d) THEN out
                           ELSE IF ~Slice(c) THEN Append(out, c)
                           ELSE LET joins(d) == Joins(c, d) IN out \o SortSeq(SelectSeq(s, joins), Earlier),
           <<>>, s)
Substantive(c) == KindOf[c] \in Slices /\ Size[c] >= Floor
Test(c) == File[c] \in TestFiles
Doc(c) == File[c] \in DocFiles

\* _load_span_text with implementation_before_tests: what the question spells first, tests last.
Group(c) == IF SymbolOf[c] \in question.spelled THEN 0 ELSE IF Test(c) THEN 2 ELSE 1
Load == /\ Step("trimmed", "loaded")
        /\ loaded' = StableSort([i \in DOMAIN spans |-> spans[i].chunk], Group) /\ UNCHANGED spans

\* limit_spans_per_file: a file's share of symbols and other chunks; the slices of an admitted symbol are free.
Free(c, kept) == KindOf[c] \in Slices /\ \E d \in ToSet(kept) : SymbolOf[d] = SymbolOf[c] /\ SymbolOf[c] # NoSymbol
Counted(s) == FoldLeft(LAMBDA a, c : IF Free(c, a.kept) THEN [a EXCEPT !.kept = Append(@, c)]
                                     ELSE IF a.used[File[c]] >= PerFile THEN a
                                     ELSE [kept |-> Append(a.kept, c), used |-> [a.used EXCEPT ![File[c]] = @ + 1]],
                       [kept |-> <<>>, used |-> [f \in {File[c] : c \in Chunks} |-> 0]], s)
PerFileLimited(s) == LET kept == Counted(s).kept IN IF kept # <<>> THEN kept ELSE s
Limit == /\ Step("loaded", "limited") /\ loaded' = PerFileLimited(loaded) /\ UNCHANGED spans

\* loaded_needs_more_bodies: too few bodies, or mostly headers and slivers; both of its uses are
\* settings, on by default.
Sliver(c) == KindOf[c] \in {"import_block", "file_overview"} \/ (KindOf[c] = "symbol_part" /\ Size[c] < Floor) \/ Size[c] < 1
NeedsMore(s, least) == s = <<>> \/ Len(SelectSeq(s, Substantive)) < least \/ Len(SelectSeq(s, Sliver)) > Len(s) \div 2
Merged(s, more) == LET new(c) == c \notin ToSet(s) IN s \o SelectSeq(more, new)
Reload == /\ Step("limited", "reloaded")
          /\ IF NeedsMore(loaded, 4)
             THEN \E b \in Boosts : \E s \in Expansions(ChoicesOf(b), MaxReload) :
                    loaded' = PerFileLimited(Merged(loaded, [i \in DOMAIN s |-> s[i].chunk]))
             ELSE UNCHANGED loaded
          /\ UNCHANGED spans

\* omit_test_spans_unless_asked, then the documents that fill a thin pack.
NotTest(c) == ~Test(c)
WithoutTests(s) == IF asksTests \/ SelectSeq(s, NotTest) = <<>> THEN s ELSE SelectSeq(s, NotTest)
Supplemented(s) == IF NeedsMore(s, 2) THEN {s} \cup {Merged(d, s) : d \in Docs} ELSE {s}
Supplement == /\ Step("reloaded", "supplemented")
              /\ loaded' \in Supplemented(WithoutTests(loaded)) /\ UNCHANGED spans

\* deprioritize_thin_spans, sort_loaded_spans of the named and of the rest, prioritize_question_targets.
ThinLast(s) == LET thin(c) == ~Substantive(c)
                   front == SelectSeq(s, Substantive)
               IN IF front = <<>> THEN s ELSE front \o SelectSeq(s, thin)
DocRank(c) == IF Doc(c) /\ ~question.overview THEN 1 ELSE 0
SortLoaded(s) == Coalesce(StableSort(s, DocRank))
KindRank(c) == CASE KindOf[c] = "symbol_body" -> 0 [] KindOf[c] = "symbol_part" -> 1 [] KindOf[c] = "non_code" -> 2
                 [] KindOf[c] = "import_block" -> 3 [] OTHER -> 4
NamedHit(c) == CASE SymbolOf[c] = NoSymbol -> 3 [] SymbolOf[c] \in Required -> 0 [] OTHER -> question.hit[SymbolOf[c]]
PathHit(c) == IF File[c] \in question.paths THEN 0 ELSE 1
AsksDocs == question.docs /\ ~prefer
DocFirst(c) == IF AsksDocs /\ ~Doc(c) THEN 1 ELSE 0
Weak(c) == KindOf[c] \in Headers \/ File[c] \in WeakFiles
WeakRank(c) == IF ~Weak(c) THEN 0 ELSE IF prefer /\ ~question.imports THEN 2 ELSE 1
Rank(c) == 60 * NamedHit(c) + 30 * PathHit(c) + 15 * DocFirst(c) + 5 * WeakRank(c) + KindRank(c)
Order == /\ Step("supplemented", "ordered")
         /\ LET s == ThinLast(loaded)
                front == ChunksOf(Leading)
                first(c) == c \in front
                rest(c) == ~first(c)
            IN loaded' = Coalesce(StableSort(SortLoaded(SelectSeq(s, first)) \o SortLoaded(SelectSeq(s, rest)), Rank))
         /\ UNCHANGED spans

Next == Preserve \/ Enrich \/ Expand \/ Load \/ Limit \/ Reload \/ Supplement \/ Order
Spec == Init /\ [][Next]_vars

-----------------------------------------------------------------------------
\* A choice always stands for its own chunk's symbol or file, and a loaded span is one that was chosen or added.
TypeOK ==
  /\ stage \in {"found", "preserved", "enriched", "trimmed", "loaded", "limited", "reloaded", "supplemented", "ordered"}
  /\ \A i \in DOMAIN spans : spans[i].anchor = Own(spans[i].chunk)

\* The places up to the limit are the named symbols' and stay so, and a named symbol in the list
\* is whole after the trim unless named chunks have used up what the expansion may hold: only
\* preserve_named_spans' limit and max_added may cost a part, not the trim.
NamedWhole ==
  /\ stage \in {"preserved", "enriched", "trimmed"} =>
       ChunksOf(Take(Spans(question.named), SpanLimit)) \subseteq ChunksOf(spans)
  /\ stage = "trimmed" =>
       LET ofTargets == {c \in ChunksOf(spans) : SymbolOf[c] \in Targets}
       IN \A a \in Targets : (\E i \in DOMAIN spans : spans[i].anchor = a) =>
            \/ \E c \in ofTargets : SymbolOf[c] = a /\ KindOf[c] = "symbol_body"
            \/ Of(SymbolOf, a) \subseteq ofTargets
            \/ Cardinality(ofTargets) >= MaxAdded

\* The limit per file never takes a part of a symbol and leaves another.
NeverSplit ==
  stage = "limited" => \A i, j \in DOMAIN spans :
    Joins(spans[i].chunk, spans[j].chunk) /\ spans[i].chunk \in ToSet(loaded) => spans[j].chunk \in ToSet(loaded)

\* No file fills the pack: it has its share of symbols and of chunks without one, and a symbol
\* that the question spells loses its share only to others it spells.
Shares(f, S) == {IF Slice(c) THEN SymbolOf[c] ELSE c : c \in {d \in S : File[d] = f}}
Spelled(S) == {c \in S : SymbolOf[c] \in question.spelled}
Diverse ==
  /\ stage \in {"limited", "reloaded"} =>
       \A f \in {File[c] : c \in Chunks} : Cardinality(Shares(f, ToSet(loaded))) <= PerFile
  /\ stage = "limited" => \A c \in Spelled(ChunksOf(spans)) \ ToSet(loaded) :
       Cardinality(Shares(File[c], Spelled(ToSet(loaded)))) = PerFile

\* In the order packed each symbol reads from its start to its end, with nothing in between.
Together ==
  stage = "ordered" => \A i, j \in DOMAIN loaded : i < j /\ Joins(loaded[i], loaded[j]) =>
    /\ Ordinal[loaded[i]] <= Ordinal[loaded[j]]
    /\ \A k \in i..j : Joins(loaded[i], loaded[k])

\* What the question names leads, whatever was added after it, thin or not; only a symbol it meets
\* by the same name may stand beside it (prioritize_question_targets).
TargetsLead ==
  stage = "ordered" => \A i, j \in DOMAIN loaded :
    SymbolOf[loaded[i]] \in Required /\ NamedHit(loaded[j]) > 0 => i < j

=============================================================================
