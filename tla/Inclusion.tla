------------------------------ MODULE Inclusion ------------------------------
(***************************************************************************)
(* Which files of a commit are indexed.  One rule decides it for the work  *)
(* tree, its validation, the draft and the catalog; the language tables    *)
(* decide who parses a file.  A path is a record: a folder that is         *)
(* excluded or not, a name, its suffixes (all of them, last one last).     *)
(***************************************************************************)
EXTENDS Naturals, Sequences, FiniteSets, SequencesExt

CONSTANTS Files,      \* what a commit may list
          MaxListed,  \* bound
          NamesSet,   \* does the module assign its two limits?  At this commit nothing in src/ does
          Detects     \* external: the grammar pack's name of a suffix

VARIABLES listed, at, tree, phase, draft, languages
vars == <<listed, at, tree, phase, draft, languages>>

None == "none"
Look(table, key) == IF key \in DOMAIN table THEN table[key] ELSE None

-----------------------------------------------------------------------------
\* A row of each sort of the tables: the one of inclusion.py (a thousand rows), the one of parse.py,
\* the adapters as they are registered.
LanguageByExtension ==
  [x \in {"py", "pyi", "js", "jsx", "mts", "tsx", "go", "md", "txt", "cmake.in"} |->
     CASE x \in {"py", "pyi"} -> "python" [] x \in {"js", "jsx"} -> "javascript" [] x \in {"mts", "tsx"} -> "typescript"
       [] x = "go" -> "go" [] x = "md" -> "markdown" [] x = "txt" -> "text" [] x = "cmake.in" -> "cmake"]
WalkedByExtension == [py |-> "python", js |-> "javascript", jsx |-> "tsx", tsx |-> "tsx"]
Adapters == <<
  [id |-> "python_treesitter", languages |-> {"python"}, extensions |-> {"py"}],
  [id |-> "javascript_treesitter", languages |-> {"javascript"}, extensions |-> {"js", "jsx", "mjs", "cjs"}],
  [id |-> "typescript_treesitter", languages |-> {"typescript", "tsx"}, extensions |-> {"ts", "tsx"}],
  [id |-> "go_language_pack", languages |-> {"go"}, extensions |-> {"go"}]>>

\* PurePosixPath.suffix: the last one, and none when the name begins with its only dot.
Suffix(f) == IF f.suffixes = <<>> \/ (f.stem = "" /\ Len(f.suffixes) = 1) THEN None ELSE Last(f.suffixes)
Manifest(f) == f.kind = "manifest"
IsIncluded(f) ==
  /\ f.mode = "regular" /\ ~f.excluded /\ f.kind # "lockfile"
  /\ Manifest(f) \/ f.kind = "dockerfile" \/ Suffix(f) \in DOMAIN LanguageByExtension
IsIndexable(f) == IF ~NamesSet THEN "raises" ELSE IF f.payload \in {"text", "late_zero"} THEN "yes" ELSE "no"
IsIndexed(f) == IF IsIncluded(f) THEN IsIndexable(f) ELSE "no"

\* The three tables: the catalog's language, the walker of parse.py, the grammar of the pack.
Extension(f) == IF f.suffixes = <<>> THEN None ELSE Last(f.suffixes)
CatalogLanguage(f) == IF Manifest(f) THEN None ELSE Look(LanguageByExtension, Extension(f))
Walker(f) == Look(WalkedByExtension, Extension(f))
Unparsed == {"markdown", "text"}
Grammar(f) ==
  LET detected == Look(Detects, Extension(f))
  IN  IF Manifest(f) \/ CatalogLanguage(f) \in Unparsed \cup {None} \/ Suffix(f) = None
         \/ detected \in {"python", "javascript", "typescript", "tsx"}
      THEN None ELSE detected
ParsedBy(f) == IF Walker(f) # None THEN Walker(f) ELSE Grammar(f)
\* The first adapter registered that can parse the file; every one of them calls parse_file.
CanParse(adapter, f) == CatalogLanguage(f) \in adapter.languages \/ Extension(f) \in adapter.extensions
AdapterFor(f) == IF \E i \in DOMAIN Adapters : CanParse(Adapters[i], f)
                 THEN Adapters[CHOOSE i \in DOMAIN Adapters : CanParse(Adapters[i], f)
                                 /\ \A j \in 1 .. i - 1 : ~CanParse(Adapters[j], f)].id
                 ELSE "source_only"

\* No suffix holds a dot, no manifest has the suffix of a walker, and the pack names a suffix as the
\* catalog does, or as one of the walked languages, which it is not asked for.
InclusionAssumption ==
  /\ MaxListed \in Nat
  /\ \A f \in Files : /\ f.suffixes \in Seq(STRING \ {"cmake.in"})
                      /\ Manifest(f) => Walker(f) = None
  /\ \A x \in DOMAIN Detects \cap DOMAIN LanguageByExtension :
       Detects[x] \in {LanguageByExtension[x], "python", "javascript", "typescript", "tsx"}

-----------------------------------------------------------------------------
Init == /\ listed \in [1..MaxListed -> Files] /\ \A i, j \in 1..MaxListed : i # j => listed[i] # listed[j]
        /\ at = 1 /\ tree = [i \in 1..MaxListed |-> "checkout"] /\ phase = "write"
        /\ draft = {} /\ languages = [i \in 1..MaxListed |-> <<>>]

\* ls-tree lists submodules too; only blobs are read.
Blobs == {i \in 1..MaxListed : listed[i].mode # "submodule"}

Skips(i) == i \notin Blobs \/ IsIndexed(listed[i]) = "no"
NeverWrite(i) == tree   \* mutant: the checkout is trusted
Written(i) == [tree EXCEPT ![i] = "blob"]

\* write_detached_tree: git checks the files out, then the bytes of each indexed blob are written over it.
WriteNext ==
  /\ phase = "write" /\ at <= MaxListed
  /\ IF at \in Blobs /\ IsIndexed(listed[at]) = "raises"
     THEN phase' = "raised" /\ UNCHANGED <<at, tree>>
     ELSE /\ tree' = IF Skips(at) THEN tree ELSE Written(at)
          /\ at' = at + 1 /\ UNCHANGED phase
  /\ UNCHANGED <<listed, draft, languages>>

\* validate_worktree_bytes; a checkout may have converted the bytes of a file.
Bytes(i) == IF tree[i] = "blob" \/ ~listed[i].converts THEN "blob" ELSE "converted"
Checked == {i \in Blobs : IsIndexed(listed[i]) = "yes"}
Validate ==
  /\ phase = "write" /\ at > MaxListed
  /\ phase' = IF \A i \in Checked : Bytes(i) = "blob" THEN "assemble" ELSE "refused"
  /\ UNCHANGED <<listed, at, tree, draft, languages>>

\* assemble_generation, then _assert_catalog counts the files the rule admits.
InDraft == {i \in Blobs : IsIndexed(listed[i]) = "yes"}
Assemble ==
  /\ phase = "assemble"
  /\ draft' = InDraft
  /\ languages' = [i \in 1..MaxListed |-> IF i \in InDraft THEN <<AdapterFor(listed[i]), ParsedBy(listed[i])>> ELSE <<>>]
  /\ phase' = IF Cardinality(InDraft) = Cardinality(Checked) THEN "indexed" ELSE "refused"
  /\ UNCHANGED <<listed, at, tree>>

Next == WriteNext \/ Validate \/ Assemble
Spec == Init /\ [][Next]_vars

-----------------------------------------------------------------------------
TypeOK == /\ at \in 1 .. MaxListed + 1 /\ draft \subseteq Blobs
          /\ tree \in [1..MaxListed -> {"checkout", "blob"}]
          /\ phase \in {"write", "raised", "assemble", "refused", "indexed"}

\* No commit is refused: what the work tree, its validation, the draft and the catalog take for the
\* files of a commit is one set, and a file that the checkout converts has the blob's bytes again.
NeverRefused == phase # "refused"

\* A file of the draft is in no excluded folder, no lock file, no link and no binary, and a file
\* outside of it keeps what the checkout made of it.
OnlySource ==
  phase = "indexed" =>
    \A i \in 1..MaxListed :
      IF i \in draft
      THEN ~listed[i].excluded /\ listed[i].kind # "lockfile" /\ listed[i].mode = "regular"
           /\ listed[i].payload \notin {"big", "early_zero"} /\ tree[i] = "blob"
      ELSE tree[i] = "checkout"

\* A file is parsed by no grammar but that of the language the catalog lists it as (.jsx and .tsx
\* have a grammar of their own), a text file by none; and the adapter that the capability report and
\* the import resolution go by is one of that language.
OneLanguage ==
  \A i \in draft : languages[i][2] # None =>
    LET own == CatalogLanguage(listed[i])
    IN  /\ <<own, languages[i][2]>> \in {<<l, l>> : l \in {"python", "typescript", "javascript", "go", "rust"}}
                                        \cup {<<"javascript", "tsx">>, <<"typescript", "tsx">>}
        /\ \A a \in Range(Adapters) : own \in a.languages => languages[i][1] = a.id

=============================================================================
