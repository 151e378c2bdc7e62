------------------------------- MODULE Relations -------------------------------
(***************************************************************************)
(* What the imports and calls of one file are resolved to, and what the    *)
(* capability report makes of it: relationship_resolve.py, _edges of       *)
(* assemble.py and coverage_state.  A symbol has a kind, a name and the    *)
(* class that owns it; <<f, k>> is symbol k of file f, <<f, 0>> the file.  *)
(* Which files a specifier may name is ImportTargets' answer; here it is   *)
(* any of TargetMaps.                                                      *)
(***************************************************************************)
EXTENDS Integers, Sequences, SequencesExt, FiniteSets

CONSTANTS Own,          \* the file whose relationships are resolved
          OwnTables,    \* the symbols it may have
          OtherTables,  \* the symbols the other files may have: functions from files to sequences
          BindingLists, \* what its imports may bind
          TargetMaps,   \* which files its specifiers may name
          Mentions,     \* the relationships it may mention
          MaxMentions,
          Hosts,        \* _EXTERNAL_RECEIVERS
          Common,       \* _AMBIGUOUS_CALL_NAMES
          Packages      \* the specifiers _looks_external_module takes for packages

VARIABLES table, bindings, targets, mentions, done, edges
vars == <<table, bindings, targets, mentions, done, edges>>

Callable == {"function", "method"}
Symbols(f) == {<<f, k>> : k \in DOMAIN table[f]}
At(id) == table[id[1]][id[2]]

Init ==
  /\ \E own \in OwnTables, others \in OtherTables :
       table = [f \in {Own} \union DOMAIN others |-> IF f = Own THEN own ELSE others[f]]
  /\ bindings \in BindingLists /\ targets \in TargetMaps
  /\ \E n \in 1..MaxMentions : mentions \in [1..n -> {m \in Mentions : m.from \in 0..Len(table[Own])}]
  /\ edges = <<>> /\ done = 0

\* The symbols of f, in its order, that satisfy P.
Listed(f, P(_)) == SelectSeq([k \in DOMAIN table[f] |-> <<f, k>>], P)
Named(f, name) == Listed(f, LAMBDA s : At(s).kind \in Callable /\ At(s).name = name)

(***************************************************************************)
(* build_import_scope.  A later binding of a local name replaces an        *)
(* earlier one, unless it names no file, or not one.                       *)
(***************************************************************************)
AnyTarget(b) == targets[b.spec] # <<>>   \* mutant: the first of several files is taken
OneTarget(b) == Len(targets[b.spec]) = 1
Final(P(_)) == {k \in DOMAIN bindings : P(bindings[k]) /\ \A j \in k + 1 .. Len(bindings) :
                  P(bindings[j]) => bindings[j].local # bindings[k].local}
Namespaces ==
  LET kept == Final(LAMBDA b : b.kind = "namespace" /\ targets[b.spec] # <<>>)
  IN  [n \in {bindings[k].local : k \in kept} |->
         targets[bindings[CHOOSE k \in kept : bindings[k].local = n].spec]]
ByName(name) ==
  LET kept == {k \in Final(LAMBDA b : b.kind = "named" /\ OneTarget(b)) : bindings[k].local = name}
  IN  IF kept = {} THEN <<>>
      ELSE LET b == bindings[CHOOSE k \in kept : TRUE]
           IN  Listed(targets[b.spec][1], LAMBDA s :
                 At(s).kind \in Callable \union {"class", "constant"} /\ At(s).name = b.imported)
\* Without bindings, every function of the one file an import names.
ByImport(name) ==
  FlattenSeq([k \in DOMAIN mentions |->
    IF mentions[k].kind = "IMPORTS" /\ Len(targets[mentions[k].name]) = 1
    THEN Named(targets[mentions[k].name][1], name) ELSE <<>>])
\* With bindings that name nothing, those of the file a named binding or a bare import names.
ByModule(name) ==
  FlattenSeq([k \in DOMAIN bindings |->
    LET b == bindings[k]
    IN  IF b.kind \in {"named", "module"} /\ OneTarget(b)
        THEN Listed(targets[b.spec][1], LAMBDA s :
               /\ At(s).kind \in Callable
               /\ b.imported \in {"", At(s).name}
               /\ name = IF b.local = "" THEN At(s).name ELSE b.local)
        ELSE <<>>])
ScopeNames(name) ==
  IF bindings = <<>> THEN ByImport(name)
  ELSE IF \A k \in DOMAIN bindings : ByName(bindings[k].local) = <<>> THEN ByModule(name)
  ELSE ByName(name)

-----------------------------------------------------------------------------
Answer(resolution, target, strategy) ==
  [resolution |-> resolution, target |-> target, strategy |-> strategy]
NoTarget == <<Own, 0>>

\* _from_candidates, with _looks_external_callee.
FromCandidates(found, strategy, host) ==
  IF found = <<>> THEN Answer(IF host THEN "external" ELSE "unresolved", NoTarget, strategy)
  ELSE IF Cardinality(ToSet(found)) > 1 THEN Answer("ambiguous", NoTarget, strategy)
  ELSE Answer("resolved", found[1], strategy)

\* self.name: the methods of the caller's class, or else any of that name in the file.
OwnerOf(s) == IF s.owner = "" THEN s.name ELSE s.owner
SelfMethods(m) ==
  LET here == Named(Own, m.name)
      same == SelectSeq(here, LAMBDA s : At(s).owner = OwnerOf(table[Own][m.from]))
  IN  IF m.from = 0 \/ same = <<>> THEN here ELSE same

\* resolve_call; a chain goes through more than one dot.
ResolveReceiver(m) ==
  IF m.recv \in DOMAIN Namespaces /\ ~ m.chain
    THEN FromCandidates(FlattenSeq([k \in DOMAIN Namespaces[m.recv] |-> Named(Namespaces[m.recv][k], m.name)]),
                        "import_namespace", m.recv \in Hosts)
  ELSE IF m.recv = "self" /\ ~ m.chain THEN FromCandidates(SelfMethods(m), "self_method", FALSE)
  ELSE IF m.recv \in Hosts THEN Answer("external", NoTarget, "external_receiver")
  ELSE Answer("unresolved", NoTarget, "dynamic_or_typed_receiver")
ResolveName(m) ==
  LET here == Named(Own, m.name)
      found == IF here = <<>> THEN ScopeNames(m.name) ELSE here
  IN  IF found = <<>> /\ m.name \in Hosts THEN Answer("external", NoTarget, "builtin_or_host")
      ELSE IF found = <<>> /\ m.name \in Common THEN Answer("unresolved", NoTarget, "common_name")
      ELSE FromCandidates(found, IF here = <<>> THEN "import_scoped" ELSE "local_exact", FALSE)
ResolveCall(m) == IF m.recv = "" THEN ResolveName(m) ELSE ResolveReceiver(m)

\* _endpoint_ids and resolve_import_targets.
ModuleOf(f) ==
  LET found == Listed(f, LAMBDA s : At(s).kind = "module")
  IN  IF found = <<>> THEN <<f, 0>> ELSE found[1]
ResolveImport(m) ==
  IF Len(targets[m.name]) = 1 THEN Answer("resolved", ModuleOf(targets[m.name][1]), "unique_module")
  ELSE IF m.name \in Packages THEN Answer("external", NoTarget, "external_module")
  ELSE Answer("unresolved", NoTarget, "no_target")

-----------------------------------------------------------------------------
Edge(kind, source, name, answer) ==
  [kind |-> kind, source |-> source, name |-> name, target |-> answer.target,
   resolution |-> answer.resolution, strategy |-> answer.strategy]
Id(e) == <<e.kind, e.source, e.target, e.name, e.resolution>>
\* add: an edge once, and its strategy counts.
Add(all, e) == IF Contains(all, e) THEN all ELSE Append(all, e)

\* The text of a mention.
Text(m) == <<m.recv, m.name, m.chain>>
Imported(m) ==
  LET answer == ResolveImport(m)
      own == ModuleOf(Own)
      edge == Edge("IMPORTS", <<Own, 0>>, Text(m), answer)
  IN  IF answer.resolution = "resolved" /\ own[2] # 0 /\ answer.target[2] # 0
      THEN Add(Add(edges, edge), Edge("DEPENDS_ON", own, "", Answer("resolved", answer.target, "import_module")))
      ELSE Add(edges, edge)
\* A call at the top of a file without a module symbol has no source and no edge.
Called(m) ==
  LET source == IF m.from = 0 THEN ModuleOf(Own) ELSE <<Own, m.from>>
  IN  IF source[2] = 0 THEN edges ELSE Add(edges, Edge(m.kind, source, Text(m), ResolveCall(m)))

Resolve ==
  /\ done < Len(mentions) /\ done' = done + 1
  /\ LET m == mentions[done + 1]
     IN  edges' = IF m.kind = "IMPORTS" THEN Imported(m) ELSE Called(m)
  /\ UNCHANGED <<table, bindings, targets, mentions>>
Next == Resolve
Spec == Init /\ [][Next]_vars

(***************************************************************************)
(* aggregate_relationship_metrics and coverage_state, for the language of  *)
(* this file.                                                              *)
(***************************************************************************)
Sites(kind) == SelectSeq(edges, LAMBDA e : e.kind = kind)
Count(kind, resolution) == Len(SelectSeq(Sites(kind), LAMBDA e : e.resolution = resolution))
Internal(kind) == Len(Sites(kind)) - Count(kind, "external") - Count(kind, "protocol")
Coverage(kind) ==
  IF Internal(kind) = 0 THEN "no_sites"
  ELSE IF Count(kind, "resolved") = 0 THEN "zero_verified"
  ELSE IF Count(kind, "resolved") < Internal(kind) THEN "partial"
  ELSE "supported"

-----------------------------------------------------------------------------
Ids == UNION {{<<f, k>> : k \in 0..Len(table[f])} : f \in DOMAIN table}
TypeOK ==
  /\ done \in 0..Len(mentions)
  /\ \A k \in DOMAIN edges :
       /\ edges[k].source \in Ids /\ edges[k].target \in Ids
       /\ edges[k].resolution \in {"resolved", "unresolved", "ambiguous", "external"}

Edges == ToSet(edges)
\* edge_id leaves the strategy out while add tells edges apart by it: no two edges may share an id,
\* or the second row of the graph is refused.
EdgeIdsDiffer == \A j, k \in DOMAIN edges : Id(edges[j]) = Id(edges[k]) => j = k

\* The names a binding gives to a symbol of the only file its specifier names.
Bound(local, s) ==
  \E k \in DOMAIN bindings :
    /\ targets[bindings[k].spec] = <<s[1]>>
    /\ \/ bindings[k].local = local /\ bindings[k].imported \in {"", At(s).name}
       \/ bindings[k].local = "" /\ At(s).name = local
ImportedWhole(s) ==
  bindings = <<>> /\ \E k \in DOMAIN mentions :
    mentions[k].kind = "IMPORTS" /\ targets[mentions[k].name] = <<s[1]>>

\* A resolved call by a bare name leads to a symbol of that name in the caller's file, or to one that
\* a binding of that name, or else an import, takes from a file it names without ambiguity.
ResolvedIsNamed ==
  \A e \in Edges : e.resolution = "resolved" /\ e.kind \in {"CALLS", "REFERENCES"} /\ e.name[1] = "" =>
    \/ e.target[1] = Own /\ At(e.target).name = e.name[2]
    \/ Bound(e.name[2], e.target)
    \/ ImportedWhole(e.target) /\ At(e.target).name = e.name[2]

\* relationship_resolve.py:3: an ambiguous target stays unresolved.  When two functions of the file
\* bear the called name, only self, by its class, may decide between them.
AmbiguousIsOpen ==
  \A e \in Edges : e.resolution = "resolved" /\ e.kind \in {"CALLS", "REFERENCES"} =>
    \A s \in Symbols(e.target[1]) :
      s # e.target /\ At(e.target).kind \in Callable /\ At(s).kind \in Callable /\ At(s).name = At(e.target).name =>
        e.name[1] = "self" /\ At(s).owner # At(e.target).owner

\* A language is reported as supported only when every call site the repository could answer has a
\* verified target.
SupportedIsWhole ==
  Coverage("CALLS") = "supported" =>
    \A e \in Edges : e.kind = "CALLS" /\ e.resolution # "external" => e.target # NoTarget

=============================================================================
