------------------------------ MODULE Chunking ------------------------------
(***************************************************************************)
(* How a file becomes chunks (ingestion/chunking.py build_chunks) and how a *)
(* chunk gets its line numbers (storage/identity.py line_labels).  A byte  *)
(* is one of the classes the code tells apart: an ASCII letter or digit    *)
(* ("word"), a byte of a letter outside ASCII ("wide"), punctuation        *)
(* ("mark") or a line break ("nl").  Offsets count from 0, as in the code. *)
(***************************************************************************)
EXTENDS Integers, Sequences, SequencesExt, FiniteSetsExt

CONSTANTS Bytes,      \* the byte classes of a payload
          Limit,      \* MAX_CHUNK_BYTES
          MaxLen,     \* bound on a payload
          MaxSymbols, \* bounds on the symbols and imports of a file
          MaxImports

VARIABLES payload,  \* the bytes of the file
          symbols,  \* its symbols in source order: kind and span
          imports,  \* its import statements in source order
          chunks    \* what build_chunks returned, <<>> before

vars == <<payload, symbols, imports, chunks>>

Span(a, b) == [start |-> a, end |-> b]
At(i) == payload[i + 1]
Size == Len(payload)
Inside(s) == s.start..(s.end - 1)
Disjoint(s, t) == s.end <= t.start \/ t.end <= s.start
Nested(s, t) == t.start <= s.start /\ s.end <= t.end

(***************************************************************************)
(* Inputs.  A syntax node starts and ends on a token, so never on a line   *)
(* break, and two nodes are disjoint or nested.                            *)
(***************************************************************************)
Nodes(p) ==
  {s \in [start : 0..Len(p), end : 0..Len(p)] :
     s.start < s.end /\ p[s.start + 1] # "nl" /\ p[s.end] # "nl"}
Symbol(p) == {[kind |-> k, span |-> s] : k \in {"class", "function"}, s \in Nodes(p)}
InSourceOrder(syms) ==
  \A i, j \in DOMAIN syms : i < j =>
    \/ Nested(syms[j].span, syms[i].span)
    \/ syms[i].span.end <= syms[j].span.start
\* An import stands outside a symbol or, as in a function's body, behind its first token.
IsImport(p, syms, t) ==
  /\ p[t.start + 1] = "word"
  /\ \A i \in DOMAIN syms :
       \/ Disjoint(t, syms[i].span)
       \/ Nested(t, syms[i].span) /\ t.start > syms[i].span.start
Init ==
  /\ payload \in UNION {[1..n -> Bytes] : n \in 1..MaxLen}
  /\ symbols \in {s \in UNION {[1..n -> Symbol(payload)] : n \in 0..MaxSymbols} : InSourceOrder(s)}
  /\ LET statements == {t \in Nodes(payload) : IsImport(payload, symbols, t)}
     IN  imports \in {s \in UNION {[1..n -> statements] : n \in 0..MaxImports} :
                       \A i, j \in DOMAIN s : i < j => s[i].end <= s[j].start}
  /\ chunks = <<>>

(***************************************************************************)
(* _contiguous_import_spans: imports with nothing but space between them   *)
(* are one, also where a function ends between them.                       *)
(***************************************************************************)
Blank(a, b) == \A k \in a..(b - 1) : At(k) = "nl"
Lengthen(done, s) ==
  IF done = <<>> \/ ~ Blank(Last(done).end, s.start) THEN Append(done, s)
  ELSE Append(Front(done), Span(Last(done).start, s.end))
ImportSpans == FoldLeft(Lengthen, <<>>, imports)

(***************************************************************************)
(* split_on_newlines: where the piece that starts at a ends.               *)
(***************************************************************************)
Breaks(a, b) == {i \in a..(b - 1) : At(i) = "nl"}
Cut(a, b) ==
  IF b - a <= Limit THEN b
  ELSE IF Breaks(a, a + Limit) # {} THEN Max(Breaks(a, a + Limit)) + 1
  ELSE IF Breaks(a + Limit, b) # {} THEN Min(Breaks(a + Limit, b)) + 1 ELSE b
Pieces(s) ==
  LET From[a \in s.start..s.end] ==
        IF a = s.end THEN <<>> ELSE <<Span(a, Cut(a, s.end))>> \o From[Cut(a, s.end)]
  IN  From[s.start]

(***************************************************************************)
(* _first_member_starts and _header_end: a class keeps what precedes its   *)
(* first member.                                                           *)
(***************************************************************************)
Members(i) ==
  {j \in DOMAIN symbols : /\ Nested(symbols[j].span, symbols[i].span)
                          /\ symbols[j].span # symbols[i].span}
HasMember(i) == symbols[i].kind = "class" /\ Members(i) # {}
FirstMember(i) == Min({symbols[j].span.start : j \in Members(i)})
Header(i) ==
  LET start == symbols[i].span.start
      end == Max({start} \union {k + 1 : k \in {k \in start..(FirstMember(i) - 1) : At(k) # "nl"}})
  IN  Span(start, IF start < end /\ end < Size /\ At(end) = "nl" THEN end + 1 ELSE end)
SpanOf(i) == IF HasMember(i) THEN Header(i) ELSE symbols[i].span

Chunk(anchor, symbol, kind, ordinal, s) ==
  [anchor |-> anchor, symbol |-> symbol, kind |-> kind, ordinal |-> ordinal, span |-> s]
SymbolChunks(i) ==
  LET s == SpanOf(i)
      kind == IF s.end - s.start > Limit THEN "symbol_part" ELSE "symbol_body"
      pieces == Pieces(s)
  IN  IF s.start = s.end THEN <<>>
      ELSE [k \in DOMAIN pieces |-> Chunk("symbol", i, kind, k - 1, pieces[k])]
ImportChunks ==
  LET spans == ImportSpans
  IN  [k \in DOMAIN spans |-> Chunk("file", 0, "import_block", k - 1, spans[k])]

(***************************************************************************)
(* merge_spans, uncovered_spans and _trim_gap.                             *)
(***************************************************************************)
Claimed == {s \in {SpanOf(i) : i \in DOMAIN symbols} : s.start # s.end} \union ToSet(ImportSpans)
Before(s, t) == s.start < t.start \/ (s.start = t.start /\ s.end < t.end)
Merge(done, s) ==
  IF done = <<>> \/ s.start > Last(done).end THEN Append(done, s)
  ELSE Append(Front(done), Span(Last(done).start, Max({Last(done).end, s.end})))
Merged == FoldLeft(Merge, <<>>, SetToSortSeq(Claimed, Before))
UncoveredBefore(merged) ==   \* mutant: what follows the last span is forgotten
  LET n == Len(merged)
      cursor(k) == IF k = 1 THEN 0 ELSE merged[k - 1].end
  IN  IF merged = <<>> THEN <<Span(0, Size)>>
      ELSE SelectSeq([k \in 1..n |-> Span(cursor(k), merged[k].start)], LAMBDA s : s.start < s.end)
Uncovered(merged) ==
  LET n == Len(merged)
      cursor(k) == IF k = 1 THEN 0 ELSE merged[k - 1].end
      gap(k) == Span(cursor(k), IF k = n + 1 THEN Size ELSE merged[k].start)
  IN  SelectSeq([k \in 1..(n + 1) |-> gap(k)], LAMBDA s : s.start < s.end)
WordAt(s) == {k \in Inside(s) : At(k) = "word"}
Trimmed(s) ==
  LET before == {k + 1 : k \in Breaks(s.start, Min(WordAt(s)))}
      after == {k + 1 : k \in Breaks(Max(WordAt(s)), s.end)}
  IN  Span(Max({s.start} \union before), IF after = {} THEN s.end ELSE Min(after))
WordPieces(s) ==
  IF WordAt(s) = {} THEN <<>> ELSE SelectSeq(Pieces(Trimmed(s)), LAMBDA t : WordAt(t) # {})
GapChunks ==
  LET gaps == Uncovered(Merged)
      pieces == FlattenSeq([k \in DOMAIN gaps |-> WordPieces(gaps[k])])
  IN  IF gaps = <<Span(0, Size)>> /\ Size <= Limit
      THEN <<Chunk("file", 0, "file_overview", 0, Span(0, Size))>>
      ELSE [k \in DOMAIN pieces |-> Chunk("file", 0, "non_code", k - 1, pieces[k])]

Build ==
  /\ chunks = <<>>
  /\ chunks' = FlattenSeq([i \in DOMAIN symbols |-> SymbolChunks(i)]) \o ImportChunks \o GapChunks
  /\ UNCHANGED <<payload, symbols, imports>>
Next == Build
Spec == Init /\ [][Next]_vars

(***************************************************************************)
(* line_spans and line_labels: a binary search for the first line that     *)
(* ends after the span starts, then a walk to the last one it reaches.     *)
(***************************************************************************)
LineEnds ==
  SetToSortSeq({k + 1 : k \in Breaks(0, Size)} \union {Size}, <)
Lines ==
  LET ends == LineEnds
  IN  [n \in DOMAIN ends |-> Span(IF n = 1 THEN 0 ELSE ends[n - 1], ends[n])]
FirstLine(lines, a) ==
  LET n == Len(lines)
      Search[low \in 0..n, high \in 0..n] ==
        IF low >= high THEN low
        ELSE LET mid == (low + high) \div 2
             IN  IF lines[mid + 1].end <= a THEN Search[mid + 1, high] ELSE Search[low, mid]
  IN  Search[0, n] + 1
Labels(lines, s) ==
  LET first == FirstLine(lines, s.start)
  IN  <<first, Max({first} \union {n \in (first + 1)..Len(lines) : lines[n].start < s.end})>>

-----------------------------------------------------------------------------
TypeOK ==
  /\ chunks \in Seq([anchor : {"symbol", "file"}, symbol : 0..MaxSymbols, ordinal : 0..MaxLen,
                     kind : {"symbol_body", "symbol_part", "import_block", "file_overview", "non_code"},
                     span : {s \in [start : 0..Size, end : 0..Size] : s.start < s.end}])

Built == chunks # <<>>
Covered == UNION {Inside(chunks[c].span) : c \in DOMAIN chunks}

\* No code is lost: however symbols nest and wherever pieces are cut, each letter or digit of
\* the file is in a chunk (build_chunks), so a question can find it.
WordsCovered ==
  LET covered == Covered IN
  Built => \A k \in 0..(Size - 1) : At(k) = "word" => k \in covered

\* What is indexed twice is twice in the source's structure (build_chunks, CONTAINER_KINDS): a
\* symbol in a function, or an import in a symbol.  A class's own chunk holds no byte of a symbol
\* inside it, a chunk of text between symbols none of a symbol or an import, no two blocks of
\* imports and no two pieces of one symbol meet.
OnceOnly ==
  \A c, d \in DOMAIN chunks : c # d /\ ~ Disjoint(chunks[c].span, chunks[d].span) =>
    /\ {"file_overview", "non_code"} \intersect {chunks[c].kind, chunks[d].kind} = {}
    /\ {chunks[c].anchor, chunks[d].anchor} # {"file"}
    /\ chunks[c].anchor = "symbol" /\ chunks[d].anchor = "symbol" =>
         \E i, j \in {chunks[c].symbol, chunks[d].symbol} :
           /\ i # j /\ Nested(symbols[j].span, symbols[i].span)
           /\ symbols[i].kind = "function" \/ symbols[i].span = symbols[j].span
    /\ chunks[c].anchor = "file" /\ chunks[d].anchor = "symbol" =>
         \E k \in DOMAIN imports : /\ Nested(imports[k], chunks[c].span)
                                   /\ Nested(imports[k], symbols[chunks[d].symbol].span)

\* A chunk outgrows the limit only where no line break lets it be cut sooner, and one is not cut
\* where the next piece would still have fitted (split_on_newlines).
CutsAreTight ==
  \A c \in DOMAIN chunks : chunks[c].kind # "import_block" =>
    LET s == chunks[c].span IN
    /\ s.end - s.start > Limit => Breaks(s.start, s.end - 1) = {}
    /\ \A d \in DOMAIN chunks :
         chunks[d].symbol = chunks[c].symbol /\ chunks[d].kind = "symbol_part" /\ chunks[d].span.start = s.end
           => chunks[d].span.end - s.start > Limit

\* The chunks of a file have different identities even with the same bytes: write_draft would
\* meet its own primary key otherwise (chunk_id).
IdentitiesDiffer ==
  \A c, d \in DOMAIN chunks : c # d =>
    \/ chunks[c].anchor # chunks[d].anchor \/ chunks[c].symbol # chunks[d].symbol
    \/ chunks[c].kind # chunks[d].kind \/ chunks[c].ordinal # chunks[d].ordinal

\* The line numbers an answer cites are the lines the chunk has bytes on (line_labels).
LabelsTouch ==
  LET lines == Lines IN
  \A c \in DOMAIN chunks :
    LET touched == {n \in DOMAIN lines : ~ Disjoint(lines[n], chunks[c].span)}
    IN  Labels(lines, chunks[c].span) = <<Min(touched), Max(touched)>>

=============================================================================
