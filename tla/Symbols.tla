------------------------------- MODULE Symbols -------------------------------
(***************************************************************************)
(* From a syntax tree to the symbols and mentions of a file: the walk of   *)
(* parse.py; what grammars.py makes of other languages, from the outline   *)
(* the language pack gives or from the tree when that has nothing; the     *)
(* neutral form of ir.py and back; and _symbol_records of assemble.py.     *)
(*                                                                         *)
(* A tree is a sequence of nodes in the order the walk meets them; up is   *)
(* the parent's place (0 for the root) and name the name a declaration     *)
(* declares, an impl implements, a call calls or an identifier is.         *)
(***************************************************************************)
EXTENDS Integers, Sequences, SequencesExt, FiniteSetsExt

CONSTANTS Labels,      \* the kinds and names of nodes that parse.py meets
          PackLabels,  \* and of those that grammars.py meets
          MaxNodes,    \* bounds on a tree, by which of the two walks it
          MaxPack

VARIABLES tree,      \* the syntax tree
          front,     \* the walk used: "own" (parse.py) or "pack" (grammars.py)
          items,     \* the declarations in result.structure of the language pack
          told,      \* and those in its flat result.symbols
          hasError,  \* the parser met a syntax error
          at,        \* the next node to visit
          symbols,   \* found so far
          mentions,  \* found so far
          records    \* what _symbol_records made of them
vars == <<tree, front, items, told, hasError, at, symbols, mentions, records>>

Label ==
  [kind : {"def", "class", "const", "call", "ident", "params", "import", "impl", "method"}, name : STRING]

NoNode == 0
Up(n) == tree[n].up
Above(n) ==
  LET Chain[k \in 0..Len(tree)] == IF k = 0 THEN {} ELSE {Up(k)} \union Chain[Up(k)]
  IN  Chain[n] \ {0}
Below(n) == {k \in DOMAIN tree : n \in Above(k)}
Start(n) == n
End(n) == Max({n} \union Below(n)) + 1
\* The order of the walk: a node follows its parent and all that is below its earlier siblings.
IsTree(t) ==
  \A n \in DOMAIN t :
    /\ t[n].up < n
    /\ t[n].up # 0 => t[t[n].up].kind # "ident"
    /\ n > 1 => \/ t[n].up = n - 1
                \/ \E k \in 0..(n - 1) : t[n].up = k /\ \A m \in (k + 1)..(n - 1) : t[m].up >= k
Trees(labels, max) ==
  UNION {{t \in [1..n -> {[kind |-> l.kind, name |-> l.name, up |-> u] : l \in labels, u \in 0..(n - 1)}] :
            IsTree(t)} : n \in 1..max}
OfKind(kinds) == {n \in DOMAIN tree : tree[n].kind \in kinds}
\* What the language pack lists is its own choice: any of the declarations, in either form.
Init ==
  /\ \/ /\ front = "own" /\ tree \in Trees(Labels, MaxNodes) /\ items = {} /\ told = {}
     \/ /\ front = "pack" /\ tree \in Trees(PackLabels, MaxPack)
        /\ items \in SUBSET OfKind({"def", "class", "method", "impl"})
        /\ told \in SUBSET OfKind({"def", "class", "method", "const"})
  /\ hasError \in BOOLEAN
  /\ at = 1 /\ symbols = <<>> /\ mentions = <<>> /\ records = <<>>

(***************************************************************************)
(* _walk of parse.py.                                                      *)
(***************************************************************************)
\* The stack of visit: the innermost symbol open at node n, 0 for none.
Enclosing(n) == Max({0} \union {i \in DOMAIN symbols : symbols[i].node \in Above(n)})
Open(n) == {i \in DOMAIN symbols : symbols[i].node \in Above(n)}
Declares(n) ==
  \/ tree[n].kind \in {"def", "class"}
  \/ tree[n].kind = "const" /\ \A i \in Open(n) : symbols[i].kind \notin {"function", "method"}
SymbolKind(n) ==
  CASE tree[n].kind = "class" -> "class"
    [] tree[n].kind = "const" -> "constant"
    [] OTHER -> IF \E i \in Open(n) : symbols[i].kind = "class" THEN "method" ELSE "function"
Qualify(parent, name) == IF parent = 0 THEN <<name>> ELSE symbols[parent].qualified \o <<name>>
Declaration(n) ==
  [kind |-> SymbolKind(n), name |-> tree[n].name, qualified |-> Qualify(Enclosing(n), tree[n].name),
   parent |-> Enclosing(n), node |-> n, start |-> Start(n), end |-> End(n)]
Mention(relationship, n, source) ==
  [relationship |-> relationship, name |-> tree[n].name, source |-> source, start |-> Start(n)]
MentionsAt(n) ==
  CASE tree[n].kind = "import" -> <<Mention("IMPORTS", n, 0)>>
    [] tree[n].kind = "call" -> <<Mention("CALLS", n, Enclosing(n))>>
    [] tree[n].kind = "ident" /\ \A k \in Above(n) : tree[k].kind # "params"
         -> <<Mention("REFERENCES", n, Enclosing(n))>>
    [] OTHER -> <<>>
Visit ==
  /\ at \in DOMAIN tree /\ front = "own"
  /\ symbols' = IF Declares(at) THEN Append(symbols, Declaration(at)) ELSE symbols
  /\ mentions' = mentions \o MentionsAt(at)
  /\ at' = at + 1
  /\ UNCHANGED <<tree, front, items, told, hasError, records>>

(***************************************************************************)
(* _declarations of grammars.py: the items of the outline under the items  *)
(* they are in, then what only the flat list has, under none.  An impl is  *)
(* no symbol, its name goes before those of its members; a method that is  *)
(* in nothing is named after its receiver, here T.                         *)
(***************************************************************************)
InOrder(nodes) == SetToSortSeq(nodes, <)
PackKind(n) ==
  CASE tree[n].kind \in {"class", "impl"} -> "class" [] tree[n].kind = "const" -> "constant"
    [] tree[n].kind = "method" -> "method" [] OTHER -> "function"
Impls == OfKind({"impl"})
Added(n, qualified, parent) ==
  [kind |-> PackKind(n), name |-> tree[n].name, qualified |-> qualified,
   parent |-> parent, node |-> n, start |-> Start(n), end |-> End(n)]
Unseen == told \ items   \* by span and name
Owned(n) == IF tree[n].kind = "method" THEN <<"T", tree[n].name>> ELSE <<tree[n].name>>
AddItem(done, n) ==
  LET parent == Max({0} \union {i \in DOMAIN done : done[i].node \in Above(n)})
      prefixes == items \intersect Impls \intersect Above(n)
      name == tree[n].name
  IN  Append(done, Added(n,
        IF parent # 0 THEN Append(done[parent].qualified, name)
        ELSE IF prefixes # {} THEN <<tree[Max(prefixes)].name, name>> ELSE Owned(n), parent))
Outlined ==
  FoldLeft(AddItem, <<>>, InOrder(items \ Impls))
    \o LET flat == InOrder(Unseen) IN [k \in DOMAIN flat |-> Added(flat[k], Owned(flat[k]), 0)]

(***************************************************************************)
(* _declarations_from_tree: every declaration is collected first and       *)
(* nested by spans afterwards (_nest), with no stack.                      *)
(***************************************************************************)
Found ==
  LET nodes == InOrder(OfKind({"def", "class", "method", "impl"}))
  IN  [i \in DOMAIN nodes |-> Added(nodes[i], <<tree[nodes[i]].name>>, 0)]
Size(s) == s.end - s.start
Encloses(s, t) == s.start <= t.start /\ t.end <= s.end /\ (s.start # t.start \/ s.end # t.end)
NestParent(found, i) ==
  LET around == {j \in DOMAIN found : Encloses(found[j], found[i])}
  IN  IF around = {} THEN 0 ELSE CHOOSE j \in around : \A k \in around : Size(found[j]) <= Size(found[k])
NestOne(found, i) ==
  LET p == NestParent(found, i)
  IN  IF p = 0 THEN found
      ELSE [found EXCEPT ![i].parent = p, ![i].qualified = found[p].qualified \o <<@[Len(@)]>>]
Nest(found) == FoldLeft(NestOne, found, [i \in DOMAIN found |-> i])
\* _enclosing: the smallest function or method around an offset.
Around(syms, n) ==
  LET around == {i \in DOMAIN syms : /\ syms[i].kind \in {"function", "method"}
                                     /\ syms[i].start <= Start(n) /\ Start(n) < syms[i].end}
  IN  IF around = {} THEN 0 ELSE CHOOSE i \in around : \A k \in around : Size(syms[i]) <= Size(syms[k])
PackMentions(syms) ==
  LET calls == InOrder(OfKind({"call"}))
      imports == InOrder(OfKind({"import"}))
  IN  [i \in DOMAIN calls |-> Mention("CALLS", calls[i], Around(syms, calls[i]))]
        \o [i \in DOMAIN imports |-> Mention("IMPORTS", imports[i], 0)]
PackSymbols == IF Outlined # <<>> THEN Outlined ELSE Nest(Found)
VisitPack ==
  /\ at \in DOMAIN tree /\ front = "pack"
  /\ symbols' = PackSymbols
  /\ mentions' = PackMentions(PackSymbols)
  /\ at' = Len(tree) + 1
  /\ UNCHANGED <<tree, front, items, told, hasError, records>>

(***************************************************************************)
(* The end of parse_file and of parse_other.                               *)
(***************************************************************************)
Module ==
  [kind |-> "module", name |-> "module", qualified |-> <<"module">>, parent |-> 0,
   node |-> NoNode, start |-> 0, end |-> Len(tree) + 1]
\* The filters at the end of _walk.
OwnName(m) == m.source # 0 /\ m.name = symbols[m.source].name
Filtered ==
  IF front = "pack" THEN mentions
  ELSE SelectSeq(mentions, LAMBDA m : ~ (m.relationship = "REFERENCES" /\ OwnName(m)))
ParsedSymbols == IF hasError THEN symbols ELSE Append(symbols, Module)
ParsedMentions ==
  IF ~ hasError THEN Filtered
  ELSE IF symbols = <<>> THEN <<>>
  ELSE SelectSeq(Filtered, LAMBDA m : m.relationship = "IMPORTS" \/ m.source # 0)

(***************************************************************************)
(* parsed_file_to_ir and ir_to_parsed_file.                                *)
(***************************************************************************)
Entity(syms, i) == [symbol |-> syms[i], index |-> i, synthetic |-> FALSE]
Synthetic == [symbol |-> Module, index |-> 0, synthetic |-> TRUE]
Extracted(syms, ments) ==
  [i \in DOMAIN syms |-> Entity(syms, i)] \o
    (IF /\ \A i \in DOMAIN syms : syms[i].kind # "module"
        /\ \E k \in DOMAIN ments : ments[k].source = 0
     THEN <<Synthetic>> ELSE <<>>)
SourceEntity(entities, m) ==
  IF m.source # 0 THEN m.source
  ELSE SelectInSeq(entities, LAMBDA e : e.symbol.kind = "module")
Project(entities) ==
  LET own == SelectSeq(entities, LAMBDA e : ~ e.synthetic)
  IN  [k \in DOMAIN own |-> own[k].symbol]

(***************************************************************************)
(* _symbol_records.  The id stands for the symbol_id: kind, qualified name *)
(* and ordinal (a signature would only tell more symbols apart).           *)
(***************************************************************************)
Same(s, t) == s.kind = t.kind /\ s.qualified = t.qualified
Ordinal(syms, i) ==
  Cardinality({j \in DOMAIN syms :
    /\ Same(syms[j], syms[i])
    /\ syms[j].start < syms[i].start \/ (syms[j].start = syms[i].start /\ j < i)})
Id(syms, i) == <<syms[i].kind, syms[i].qualified, Ordinal(syms, i)>>
Record(syms, i) ==
  [id |-> Id(syms, i), kind |-> syms[i].kind, node |-> syms[i].node,
   parent |-> IF syms[i].parent = 0 THEN <<>> ELSE Id(syms, syms[i].parent)]
Assemble ==
  /\ at = Len(tree) + 1
  /\ LET projected == Project(Extracted(ParsedSymbols, ParsedMentions))
     IN  records' = [i \in DOMAIN projected |-> Record(projected, i)]
  /\ symbols' = ParsedSymbols
  /\ mentions' = ParsedMentions
  /\ at' = at + 1
  /\ UNCHANGED <<tree, front, items, told, hasError>>
\* The symbol _edges takes a mention to come from: none for a synthetic entity without a module.
SourceRecord(m) ==
  LET entities == Extracted(symbols, mentions)
      k == SourceEntity(entities, m)
  IN  IF entities[k].synthetic THEN 0 ELSE entities[k].index

Next == Visit \/ VisitPack \/ Assemble
Spec == Init /\ [][Next]_vars
Assembled == at = Len(tree) + 2

-----------------------------------------------------------------------------
Names == {l.name : l \in Labels \union PackLabels} \union {"module", "T"}
TypeOK ==
  /\ \A i \in DOMAIN symbols :
       /\ symbols[i].kind \in {"function", "method", "class", "constant", "module"}
       /\ symbols[i].name \in Names
       /\ symbols[i].qualified \in Seq(Names) /\ symbols[i].parent \in 0..(i - 1)
       /\ symbols[i].start < symbols[i].end
  /\ \A k \in DOMAIN mentions :
       /\ mentions[k].relationship \in {"IMPORTS", "CALLS", "REFERENCES"}
       /\ mentions[k].source \in 0..Len(symbols)

\* A symbol's parent is the closest symbol around it, found before it, and its qualified name
\* spells the way to it, whether by the stack of parse.py, the outline of the language pack or
\* the spans of grammars.py.  What only the flat list has is in nothing and around nothing, and
\* the members of an impl begin with its name.
Outside == IF items \ Impls = {} /\ Unseen = {} THEN {} ELSE Unseen
Nesting ==
  \A i \in DOMAIN symbols :
    LET s == symbols[i]
        around == {j \in DOMAIN symbols : symbols[j].node \in Above(s.node) \ Outside}
        impls == items \intersect Impls \intersect Above(s.node)
    IN  s.node # NoNode =>
          /\ s.parent = (IF around = {} \/ s.node \in Outside THEN 0 ELSE CHOOSE j \in around :
                           \A k \in around : symbols[j].node >= symbols[k].node)
          /\ at > Len(tree) => /\ Last(s.qualified) = s.name
                               /\ s.parent # 0 => Front(s.qualified) = symbols[s.parent].qualified
                               /\ s.parent = 0 /\ s.node \in items /\ impls # {} =>
                                    s.qualified[1] = tree[Max(impls)].name

\* No two symbols of a file share an identity, however often a name is declared again
\* (_symbol_records, symbol_id): the second would be written over the first.  And a declaration
\* is one symbol, also when the language pack lists it twice.
IdsDiffer ==
  \A i, j \in DOMAIN records : i # j => records[i].id # records[j].id /\ records[i].node # records[j].node

\* A mention belongs to a symbol that was open where it stands: the trip through the neutral
\* form neither shifts the symbols nor lends a call to another function (ir.py, _edges).
MentionsStay ==
  Assembled =>
    /\ [i \in DOMAIN records |-> records[i].node] = [i \in DOMAIN symbols |-> symbols[i].node]
    /\ \A k \in DOMAIN mentions :
         LET i == SourceRecord(mentions[k])
         IN  i # 0 => \/ records[i].node \in Above(mentions[k].start)
                      \/ records[i].kind = "module"

\* parse.py:4: a syntax error "does not invent a module symbol", and the mentions it leaves
\* have a symbol or are imports.
NoModuleOnError ==
  Assembled /\ hasError =>
    /\ \A i \in DOMAIN records : records[i].kind # "module"
    /\ \A k \in DOMAIN mentions : mentions[k].source = 0 => mentions[k].relationship = "IMPORTS"
=============================================================================
