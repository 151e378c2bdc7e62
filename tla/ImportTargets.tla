---------------------------- MODULE ImportTargets ----------------------------
(***************************************************************************)
(* Which files an import may name: _import_targets of assemble.py and      *)
(* go_import_targets of relationship_resolve.py.  A path is its directory, *)
(* a sequence of names, with a stem and an extension.  A specifier is what *)
(* the code takes it apart into: names, an extension, and dots, the number *)
(* of leading dots in Python, 1 for ./ and one more for each ../ in        *)
(* JavaScript, 0 for neither.                                              *)
(***************************************************************************)
EXTENDS Integers, Sequences, SequencesExt, FiniteSets

CONSTANTS Files,      \* the paths a repository may have
          Specifiers, \* the imports a file may have
          RuleLists,  \* the alias rules a tsconfig.json may have, in its order
          Sources     \* the paths a file with an import may have

VARIABLES paths, source, specifier, rules, targets, done
vars == <<paths, source, specifier, rules, targets, done>>

Path(dir, stem, ext) == [dir |-> dir, stem |-> stem, ext |-> ext]
Js == <<"js", "jsx", "ts", "tsx">>

Init ==
  /\ source \in Sources
  /\ \E others \in SUBSET Files : paths = others \union {source}
  /\ specifier \in Specifiers /\ rules \in RuleLists
  /\ targets = <<>> /\ done = FALSE

(***************************************************************************)
(* _path_candidates: a file of that name, or the entry of a package.       *)
(***************************************************************************)
FilesOf(names, ext) ==
  IF names = <<>> THEN <<>>
  ELSE <<Path(Front(names), Last(names), ext), Path(names, "__init__", ext), Path(names, "index", ext)>>
Candidates(names, extensions) ==
  SelectSeq(FlattenSeq([k \in DOMAIN extensions |-> FilesOf(names, extensions[k])]),
            LAMBDA p : p \in paths)
Up(dir, n) == SubSeq(dir, 1, Len(dir) - n)

\* _python_targets.
Climb(s) == s.dots - 1
PythonTargets(s) ==
  IF s.dots = 0 THEN Candidates(s.names, <<"py">>)
  ELSE IF Climb(s) > Len(source.dir) THEN <<>>
  ELSE Candidates(Up(source.dir, Climb(s)) \o s.names, <<"py">>)

\* _relative_targets: the path as written, or with an extension added.
RelativeTargets(s) ==
  LET joined == Up(source.dir, s.dots - 1) \o s.names
  IN  IF s.dots - 1 > Len(source.dir) THEN <<>>
      ELSE IF s.ext # "" THEN SelectSeq(<<Path(Front(joined), Last(joined), s.ext)>>, LAMBDA p : p \in paths)
      ELSE Candidates(joined, Js)

(***************************************************************************)
(* _js_alias_targets: the first rule that matches decides, found or not;   *)
(* without rules, the usual prefixes and roots.                            *)
(***************************************************************************)
Matches(rule, s) ==
  IF rule.star THEN IsPrefix(rule.head, s.names) ELSE rule.head = s.names
Captured(rule, s) == SubSeq(s.names, Len(rule.head) + 1, Len(s.names))
Unique(s) == FoldLeft(LAMBDA acc, x : IF Contains(acc, x) THEN acc ELSE Append(acc, x), <<>>, s)
FirstMatch(s) == SelectInSeq(rules, LAMBDA r : Matches(r, s))
RuleTargets(s) ==
  IF FirstMatch(s) = 0 THEN <<>>
  ELSE LET rule == rules[FirstMatch(s)]
       IN  Unique(FlattenSeq([k \in DOMAIN rule.roots |->
             Candidates(rule.roots[k] \o Captured(rule, s), Js)]))
DefaultRoots == <<<<>>, <<"src">>, <<"app">>, <<"lib">>>>
DefaultTargets(s) ==
  LET stem == Tail(s.names)
      found(k) == Candidates(DefaultRoots[k] \o stem, Js)
      hits == {k \in DOMAIN DefaultRoots : found(k) # <<>>}
  IN  IF Head(s.names) \notin {"@", "~", "#"} \/ stem = <<>> \/ hits = {} THEN <<>>
      ELSE Unique(found(CHOOSE k \in hits : \A j \in hits : k <= j))
AliasTargets(s) == IF rules # <<>> THEN RuleTargets(s) ELSE DefaultTargets(s)

\* go_import_targets: a prefix of the path, so the packages below as well; s.names follows the
\* module's own name.
GoTargets(s) ==
  SetToSeq({p \in paths : /\ p.ext = "go"
                          /\ IF s.names = <<>> THEN p.dir = <<>> ELSE IsPrefix(s.names, p.dir)})

Dispatch ==
  CASE source.ext = "py" -> PythonTargets(specifier)
    [] source.ext = "go" -> GoTargets(specifier)
    [] source.ext \notin {"py", "go"} /\ specifier.dots > 0 -> RelativeTargets(specifier)
    [] OTHER -> AliasTargets(specifier)
Resolve ==
  /\ ~ done /\ done' = TRUE
  /\ targets' = Dispatch
  /\ UNCHANGED <<paths, source, specifier, rules>>
Next == Resolve
Spec == Init /\ [][Next]_vars

-----------------------------------------------------------------------------
TypeOK == ToSet(targets) \subseteq paths /\ Len(targets) = Cardinality(ToSet(targets))

\* The names a file answers to: its own path, and its directory when it is a package's entry.
NamesOf(p) ==
  {p.dir \o <<p.stem>>} \union (IF p.stem \in {"__init__", "index"} THEN {p.dir} ELSE {})
Absolute == IF specifier.dots = 0 THEN specifier.names
            ELSE Up(source.dir, specifier.dots - 1) \o specifier.names
Rooted == specifier.dots - 1 <= Len(source.dir)

\* A relative import or one of a Python module names the files that answer to the name the language
\* gives it, and no others: a dot too many links one package to another.
TargetsNamed ==
  done /\ (source.ext = "py" \/ (source.ext # "go" /\ specifier.dots > 0)) =>
    \A k \in DOMAIN targets : Rooted /\ Absolute \in NamesOf(targets[k])

\* None of the files that answer to that name is missed: two of them make the import ambiguous.
\* (The package at the root of the repository has no name and is never found.)
TargetsFound ==
  done /\ source.ext = "py" /\ Rooted /\ Absolute # <<>> =>
    \A p \in paths : p.ext = "py" /\ Absolute \in NamesOf(p) => Contains(targets, p)

\* An alias resolves by the first rule that matches it, as the compiler options list them, even
\* when another rule would find a file.
FirstRuleDecides ==
  done /\ source.ext \in {"js", "ts"} /\ specifier.dots = 0 /\ rules # <<>> =>
    \A k \in DOMAIN targets : \E r \in DOMAIN rules :
      /\ Matches(rules[r], specifier)
      /\ \A q \in 1..(r - 1) : ~ Matches(rules[q], specifier)
      /\ \E j \in DOMAIN rules[r].roots :
           rules[r].roots[j] \o Captured(rules[r], specifier) \in NamesOf(targets[k])

=============================================================================
