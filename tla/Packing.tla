------------------------------- MODULE Packing -------------------------------
(***************************************************************************)
(* The evidence that goes into a prompt: pack_evidence takes the spans, the *)
(* edges and the technologies one by one, each if it still fits, and the   *)
(* answer writes what was kept under short aliases and counts it again.    *)
(* Sizes stand for the text: a span has raw bytes and a piece with its id. *)
(***************************************************************************)
EXTENDS Integers, Sequences, FiniteSets, Functions, Lists

CONSTANTS Loaded,       \* lists of spans: [id, file, from, to, symbol, body]
          Others,       \* lists of sizes: the pieces of the edges, and of the technologies
          Needs,        \* sets of required symbols
          Headers,      \* sizes: question, notes, history
          NoteSize,     \* the note about partial coverage
          IdSize,       \* of a chunk id in a piece; an alias takes 1
          SourceCap, EvidenceCap, Context, Output, Margin,
          Strategies,   \* of the budget: "tiktoken", "qwen" or "bytes"
          Fails         \* whether the tokenizer may fail at a count

\* A chunk does not end before it begins, and nothing has a negative size.
PackingAssumption ==
  /\ \A list \in Loaded : list \in Seq(Range(list))
  /\ \A list \in Loaded : \A i \in DOMAIN list : list[i].from \in Nat /\ list[i].to \in Nat /\ list[i].from <= list[i].to
  /\ Others \subseteq Seq(Nat) /\ Headers \subseteq Nat
  /\ IdSize \in Nat \ {0} /\ {NoteSize, SourceCap, EvidenceCap, Context, Output, Margin} \subseteq Nat
  /\ Strategies \subseteq {"tiktoken", "qwen", "bytes"} /\ Fails \in BOOLEAN

VARIABLES spans, others, required, header, strategy, order, at, kept, others_kept, excluded, text, raw, stage, boosted, up
inputs == <<others, required, header, strategy>>
vars == <<spans, inputs, order, at, kept, others_kept, excluded, text, raw, stage, boosted, up>>

-----------------------------------------------------------------------------
\* Raw bytes of a span, the piece that holds them.
Raw(s) == s.to - s.from
Piece(s) == Raw(s) + IdSize
BodyKind(s) == s.body
IsRequired(s) == s.symbol \in required /\ BodyKind(s)

\* Required symbol bodies first, when there are any; each group as it came.
Order(list) ==
  LET all == [i \in DOMAIN list |-> i]
      first(i) == IsRequired(list[i])
      rest(i) == ~first(i)
  IN  Filter(all, first) \o Filter(all, rest)

Same(s, t) == s.id = t.id
Overlaps(s, t) == Same(s, t) \/ (s.file = t.file /\ ~(s.to <= t.from \/ t.to <= s.from))

\* prompt_budget.py: tokens and margin of a text; a tokenizer that fails falls back to bytes, and the
\* missing margin is added to the count.
ByBytes(n) == (n + 2) \div 3
ByTokenizer(n) == (n + 3) \div 4
ResolvedMargin == IF strategy = "tiktoken" THEN 0 ELSE Margin
Exact == strategy # "bytes" /\ up
Bare(n) == IF Exact THEN ByTokenizer(n) ELSE ByBytes(n)   \* mutant: no margin added
Count(n) == IF Exact THEN ByTokenizer(n) ELSE ByBytes(n) + (Margin - ResolvedMargin)
InContext(n) == Count(n) + Output + ResolvedMargin <= Context

\* The caps are for optional context; the context window is for all.
Fits(n, bytes) == bytes <= SourceCap /\ n <= EvidenceCap + header /\ InContext(n)

-----------------------------------------------------------------------------
Start(list) == /\ order = Order(list) /\ at = 1 /\ kept = <<>> /\ others_kept = {} /\ excluded = {}
               /\ text = header /\ raw = 0 /\ stage = "spans"
Init == /\ spans \in Loaded /\ others \in Others /\ required \in Needs /\ header \in Headers
        /\ strategy \in Strategies /\ boosted = FALSE /\ up = TRUE /\ Start(spans)

Now == spans[order[at]]
Keep(s) == /\ kept' = Append(kept, order[at]) /\ text' = text + Piece(s) /\ raw' = raw + Raw(s)
           /\ UNCHANGED excluded
LeaveOut(reason) == excluded' = excluded \cup {<<order[at], reason>>} /\ UNCHANGED <<kept, text, raw>>
Clashes(s) == \E i \in Range(kept) : Overlaps(s, spans[i])
TakeSpan ==
  /\ stage = "spans" /\ at <= Len(order)
  /\ IF Clashes(Now) THEN LeaveOut("overlap")
     ELSE IF IsRequired(Now)
          THEN IF InContext(text + Piece(Now)) THEN Keep(Now) ELSE LeaveOut("context")
          ELSE IF raw + Raw(Now) > SourceCap THEN LeaveOut("source")
               ELSE IF Fits(text + Piece(Now), raw + Raw(Now)) THEN Keep(Now) ELSE LeaveOut("context")
  /\ at' = at + 1
  /\ UNCHANGED <<spans, inputs, order, others_kept, stage, boosted, up>>
SpansDone ==
  /\ stage = "spans" /\ at > Len(order)
  /\ stage' = "others" /\ at' = 1
  /\ UNCHANGED <<spans, inputs, order, kept, others_kept, excluded, text, raw, boosted, up>>
TakeOther ==
  /\ stage = "others" /\ at <= Len(others)
  /\ IF Fits(text + others[at], raw)
     THEN others_kept' = others_kept \cup {at} /\ text' = text + others[at]
     ELSE UNCHANGED <<others_kept, text>>
  /\ at' = at + 1
  /\ UNCHANGED <<spans, inputs, order, kept, excluded, raw, stage, boosted, up>>

\* _pack_repository_evidence: no span and no edge kept, so other spans are loaded and all is packed once
\* more.  Technologies are not asked about: of the others kept, any may be edges, or none.
Boost ==
  /\ stage = "others" /\ at > Len(others) /\ kept = <<>> /\ ~boosted
  /\ boosted' = TRUE
  /\ \E more \in Loaded :
       IF more = <<>> THEN stage' = "packed" /\ UNCHANGED <<spans, order, at, kept, others_kept, excluded, text, raw>>
       ELSE spans' = more /\ order' = Order(more) /\ at' = 1 /\ excluded' = {} /\ text' = header /\ stage' = "spans"
            /\ others_kept' = {} /\ UNCHANGED <<kept, raw>>
  /\ UNCHANGED <<inputs, up>>
Packed ==
  /\ stage = "others" /\ at > Len(others) /\ (kept # <<>> \/ others_kept # {} \/ boosted)
  /\ stage' = "packed"
  /\ UNCHANGED <<spans, inputs, order, at, kept, others_kept, excluded, text, raw, boosted, up>>

\* _incomplete_target_records: fewer parts of a required symbol are kept than were loaded.
Parts(symbol, of) == {i \in of : spans[i].symbol = symbol /\ BodyKind(spans[i])}
PartsMissing(symbol) == Cardinality(Parts(symbol, Range(kept))) < Cardinality(Parts(symbol, DOMAIN spans))
Incomplete == {symbol \in required : Parts(symbol, DOMAIN spans) # {} /\ PartsMissing(symbol)}

\* The packet of the answer: the note about partial coverage joins the question, the ids are aliases.
Packet == text - (IdSize - 1) * Len(kept) + (IF Incomplete = {} THEN 0 ELSE NoteSize)
FinalCheck ==
  /\ stage = "packed"
  /\ stage' = IF InContext(Packet) THEN "asked" ELSE "refused"
  /\ UNCHANGED <<spans, inputs, order, at, kept, others_kept, excluded, text, raw, boosted, up>>

\* A tokenizer that was found when the budget was made cannot be loaded, or fails to encode, later.
TokenizerFails ==
  /\ Fails /\ Exact /\ stage \notin {"asked", "refused"}
  /\ up' = FALSE
  /\ UNCHANGED <<spans, inputs, order, at, kept, others_kept, excluded, text, raw, stage, boosted>>

Next == TokenizerFails \/ TakeSpan \/ SpansDone \/ TakeOther \/ Boost \/ Packed \/ FinalCheck
Spec == Init /\ [][Next]_vars

-----------------------------------------------------------------------------
Bytes(of) == UNION {{<<spans[i].file, b>> : b \in spans[i].from .. spans[i].to - 1} : i \in of}
Optional(i) == ~IsRequired(spans[i])
TypeOK ==
  /\ Range(kept) \subseteq DOMAIN spans /\ \A x \in excluded : x[1] \in DOMAIN spans
  /\ at \in 1 .. Len(order) + Len(others) + 1 /\ others_kept \subseteq DOMAIN others
  /\ \A i, j \in DOMAIN kept : i # j => kept[i] # kept[j]
  /\ \A x \in excluded : x[1] \notin Range(kept)
  /\ text >= header /\ raw >= 0
  /\ stage \in {"spans", "others", "packed", "asked", "refused"}

\* No byte of the source is in the packet twice, in whatever order and under whatever chunk it came.
NoOverlap == \A i, j \in Range(kept) : i # j => Bytes({i}) \cap Bytes({j}) = {}

\* "Optional neighbours must not steal that budget from the named function": when a part of a required
\* symbol finds no room, all that was taken before it was required too.
NeverDisplaced ==
  \A i \in DOMAIN spans : <<i, "context">> \in excluded' \ excluded /\ IsRequired(spans[i])
    => \A k \in Range(kept) : IsRequired(spans[k])

\* What is optional stays within the caps, whatever the required parts took of them.
OptionalWithinCaps ==
  /\ (\E i \in Range(kept) : Optional(i)) \/ others_kept # {} => raw <= SourceCap
  /\ others_kept # {} => text <= EvidenceCap + header

\* A required symbol one of whose bytes was loaded and is not in the packet is reported as incomplete.
MissingIsTold ==
  stage = "packed" => \A symbol \in required :
    ~(Bytes(Parts(symbol, DOMAIN spans)) \subseteq Bytes(Range(kept))) => symbol \in Incomplete

\* Whatever is taken fits the context, with the margin of the way it was counted: also when the
\* tokenizer fails in the middle, and pack_evidence goes on with the margin it was given at the start.
CountedFits ==
  text' > text =>
    Output + (IF up /\ strategy = "tiktoken" THEN ByTokenizer(text')
              ELSE IF up /\ strategy = "qwen" THEN ByTokenizer(text') + Margin
              ELSE ByBytes(text') + Margin) <= Context

=============================================================================
