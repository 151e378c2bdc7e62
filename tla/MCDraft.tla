------------------------------ MODULE MCDraft -------------------------------
(***************************************************************************)
(* From a commit to the rows of a draft, for TLC: which files are taken,   *)
(* what their syntax trees and bytes give, what imports, calls and routes  *)
(* name, the cache of parsed files, the vectors of the chunks, and the     *)
(* names and ids of it all.  Each takes what the one before it gives in    *)
(* the forms listed here: `part' says which one runs, and the variables of *)
(* the others are None.                                                    *)
(***************************************************************************)
EXTENDS Reuse, TLC

-----------------------------------------------------------------------------
(* Ids: the words share their first letters, and the letters are tags and  *)
(* lengths too.                                                            *)
Relationships == {"CALLS", "HAS_GENERATION"}
Types == {"repository", "source_revision", "logical_file", "directory", "file", "symbol", "chunk",
          "index_generation", "point", "identity_key"}
Words ==
  [repository |-> <<1>>, source_revision |-> <<1, 1>>, logical_file |-> <<1, 2>>, directory |-> <<2>>, file |-> <<2, 1>>,
   symbol |-> <<>>, chunk |-> <<1, 1, 1>>, index_generation |-> <<3>>, point |-> <<2, 1, 1>>, identity_key |-> <<4>>,
   CALLS |-> <<1, 0>>, HAS_GENERATION |-> <<1, 0, 2>>]
T == {<<>>, <<1>>, <<1, 0>>, <<1, 1>>}
S == {<<>>, <<2>>}
U == {<<2>>}
Named ==
  [type : {"repository"}, parts : {<<t>> : t \in T}]
  \cup [type : {"source_revision", "logical_file", "directory"}, parts : S \X T]
  \cup [type : {"file"}, parts : U \X T \X S]
  \cup [type : {"symbol"}, parts : U \X S \X T \X U \X S \X {0, 1}]
  \cup [type : {"chunk"}, parts : {<<>>, <<1>>} \X S \X U \X T \X S \X {<<>>} \X {1} \X {<<1>>}]
  \cup [type : {"index_generation"}, parts : U \X T \X S \X {<<>>} \X S \X {<<1>>} \X {0, 1}]
  \cup [type : {"point"}, parts : U \X S \X S]
  \cup [type : {"identity_key"}, parts : U \X S \X T \X S \X {<<>>}]
  \cup [type : {"CALLS", "HAS_GENERATION"}, parts : U \X S \X U \X S \X S]

-----------------------------------------------------------------------------
(* Files of a commit.                                                      *)
Listed(stem, suffixes) ==
  [stem |-> stem, suffixes |-> suffixes, kind |-> "plain", mode |-> "regular", payload |-> "text",
   excluded |-> FALSE, vendored |-> FALSE, converts |-> FALSE]
Python == Listed("app", <<"py">>)
Commit == {
  Python, [Python EXCEPT !.converts = TRUE], [Python EXCEPT !.excluded = TRUE], [Python EXCEPT !.vendored = TRUE],
  [Python EXCEPT !.payload = "big"], [Python EXCEPT !.payload = "early_zero", !.converts = TRUE],
  [Python EXCEPT !.payload = "late_zero"], [Python EXCEPT !.mode = "link"],
  [Listed("sub", <<>>) EXCEPT !.mode = "submodule"], Listed("README", <<>>), Listed("", <<"py">>),
  Listed("stub", <<"pyi">>), Listed("mod", <<"mts">>), Listed("view", <<"jsx">>), Listed("page", <<"tsx">>),
  Listed("main", <<"go">>), [Listed("notes", <<"md">>) EXCEPT !.converts = TRUE], Listed("logo", <<"png">>),
  Listed("a.min", <<"js">>), Listed("rules", <<"cmake", "in">>),
  [Listed("poetry", <<"lock">>) EXCEPT !.kind = "lockfile"], [Listed("Makefile", <<>>) EXCEPT !.kind = "manifest"],
  [Listed("requirements", <<"txt">>) EXCEPT !.kind = "manifest"],
  [Listed("Dockerfile", <<"hosted">>) EXCEPT !.kind = "dockerfile"]}
Pack == [py |-> "python", pyi |-> "python", js |-> "javascript", jsx |-> "javascript", mts |-> "typescript",
         tsx |-> "tsx", go |-> "go", md |-> "markdown", txt |-> "text", hosted |-> "none"]

-----------------------------------------------------------------------------
(* Symbols and mentions of a syntax tree; names repeat.                    *)
VARIABLES tree, front, items, told, hasError, at, symbols, mentions, records

TreeLabels ==
  {[kind |-> k, name |-> "a"] : k \in {"def", "class", "const", "call", "ident"}}
    \union {[kind |-> "ident", name |-> "b"], [kind |-> "params", name |-> ""], [kind |-> "import", name |-> "m"]}
OtherLabels ==
  {[kind |-> k, name |-> "a"] : k \in {"def", "class", "method", "const", "call"}}
    \union {[kind |-> "impl", name |-> "b"], [kind |-> "import", name |-> "m"]}
Parsed == INSTANCE Symbols WITH Labels <- TreeLabels, PackLabels <- OtherLabels, MaxNodes <- 4, MaxPack <- 3
ParsedOff == /\ tree = None /\ front = None /\ items = {} /\ told = {} /\ hasError = FALSE /\ at = 0
             /\ symbols = None /\ mentions = None /\ records = None

(* Chunks of a payload.                                                    *)
VARIABLES payload, spans, imports, chunks
Cut == INSTANCE Chunking
  WITH Bytes <- {"word", "mark", "nl"}, Limit <- 2, MaxLen <- 5, MaxSymbols <- 2, MaxImports <- 2, symbols <- spans
CutOff == payload = None /\ spans = None /\ imports = None /\ chunks = None

-----------------------------------------------------------------------------
(* Imports of a file: of a package, of its __init__ and index, through the *)
(* aliases of a tsconfig.json.                                             *)
VARIABLES paths, source, specifier, rules, targets, resolved

File(dir, stem, ext) == [dir |-> dir, stem |-> stem, ext |-> ext]
Paths ==
  {File(<<>>, "a", "py"), File(<<"a">>, "__init__", "py"), File(<<"a">>, "b", "py"), File(<<"a">>, "index", "py"),
   File(<<"a">>, "b", "ts"), File(<<"a", "b">>, "index", "js"), File(<<"src">>, "b", "ts"), File(<<"a">>, "f", "go")}
Importers == {File(d, "s", x) : d \in {<<>>, <<"a">>, <<"a", "b">>}, x \in {"py", "ts", "go"}}
Spelled(dots, names, ext) == [dots |-> dots, names |-> names, ext |-> ext]
Specifiers ==
  {Spelled(d, n, "") : d \in 0..3, n \in {<<"a">>, <<"b">>, <<"a", "b">>}} \union
  {Spelled(1, <<>>, ""), Spelled(1, <<"b">>, "ts"), Spelled(0, <<"@", "b">>, "")}
Rule(head, star, roots) == [head |-> head, star |-> star, roots |-> roots]
RuleLists ==
  {<<>>, <<Rule(<<"@">>, TRUE, <<<<"src">>, <<"a">>, <<"src">>>>)>>,
   <<Rule(<<"a">>, FALSE, <<<<"src", "b">>>>), Rule(<<"a">>, TRUE, <<<<"a">>>>)>>,
   <<Rule(<<"a">>, TRUE, <<<<"src">>>>), Rule(<<"a", "b">>, FALSE, <<<<"a", "b">>>>)>>}
Imported == INSTANCE ImportTargets
  WITH Files <- Paths, Sources <- Importers, Specifiers <- Specifiers, RuleLists <- RuleLists, done <- resolved
ImportedOff == paths = None /\ source = None /\ specifier = None /\ rules = None /\ targets = None /\ resolved = FALSE

-----------------------------------------------------------------------------
(* Calls and references of a file: to its own symbols, to bound names, to  *)
(* names of the host.                                                      *)
VARIABLES table, bindings, files, mentioned, counted, edges

Sym(kind, name, of) == [kind |-> kind, name |-> name, owner |-> of]
Mod == Sym("module", "m", "")
Fa == Sym("function", "a", "")
Aa == Sym("method", "a", "A")
Ba == Sym("method", "a", "B")
Ab == Sym("method", "open", "A")
OwnTables == {<<Mod, Fa>>, <<Mod, Ab, Fa>>, <<Mod, Aa, Ba>>, <<Mod, Ba, Ab>>, <<Aa, Ab>>, <<Mod>>}
OtherTables ==
  {[f \in {"g", "h"} |-> IF f = "g" THEN g ELSE <<Mod, Fa>>] :
     g \in {<<>>, <<Mod, Fa>>, <<Sym("class", "a", ""), Ab>>}}
Bind(kind, local, imported, spec) == [kind |-> kind, local |-> local, imported |-> imported, spec |-> spec]
BindingLists ==
  {<<>>, <<Bind("named", "a", "a", "s")>>, <<Bind("named", "b", "a", "s"), Bind("named", "b", "a", "t")>>,
   <<Bind("namespace", "n", "*", "s")>>, <<Bind("module", "", "", "s")>>,
   <<Bind("default", "a", "default", "s"), Bind("named", "a", "a", "t")>>,
   <<Bind("namespace", "json", "*", "s"), Bind("namespace", "json", "*", "t")>>,
   <<Bind("named", "open", "x", "s"), Bind("module", "", "", "t")>>}
TargetMaps ==
  {[x \in {"s", "t"} |-> IF x = "s" THEN s ELSE t] : s \in {<<>>, <<"g">>, <<"g", "h">>}, t \in {<<>>, <<"g">>, <<"h">>}}
Mention(kind, recv, name, from) == [kind |-> kind, recv |-> recv, name |-> name, chain |-> FALSE, from |-> from]
Mentions ==
  {Mention("IMPORTS", "", s, 0) : s \in {"s", "t"}} \union
  {Mention("CALLS", "", n, 1) : n \in {"a", "b", "open"}} \union {Mention("CALLS", "", "a", 0)} \union
  {Mention("CALLS", "self", n, k) : n \in {"a", "open"}, k \in {0, 2, 3}} \union
  {Mention("CALLS", r, "a", 1) : r \in {"n", "json"}} \union
  {Mention("REFERENCES", "", "a", 1), [Mention("CALLS", "self", "a", 1) EXCEPT !.chain = TRUE]}
Related == INSTANCE Relations
  WITH Own <- "f", OwnTables <- OwnTables, OtherTables <- OtherTables, BindingLists <- BindingLists,
       TargetMaps <- TargetMaps, Mentions <- Mentions, MaxMentions <- 2, Hosts <- {"json", "fetch"},
       Common <- {"open", "json"}, Packages <- {"t"}, targets <- files, mentions <- mentioned, done <- counted
RelatedOff == /\ table = None /\ bindings = None /\ files = None /\ mentioned = None
              /\ counted = 0 /\ edges = None

-----------------------------------------------------------------------------
(* Routes and the requests of a client.                                    *)
Declare(framework, file, way, methods) ==
  [framework |-> framework, file |-> file, path |-> way, methods |-> methods, prefix |-> <<>>,
   receiver |-> "app", restricted |-> FALSE, controller |-> FALSE]
Items == <<"api", "items">>
Mounted == [Declare("fastapi", "p.py", <<"items">>, {"GET"}) EXCEPT !.prefix = <<"api">>, !.receiver = "router"]
Mapping == [Declare("spring_boot", "C.java", <<"api", "{id}">>, {}) EXCEPT !.controller = TRUE]
Handlers ==
  {Mounted, [Mounted EXCEPT !.receiver = "app"], Mapping, [Mapping EXCEPT !.restricted = TRUE],
   [Mapping EXCEPT !.restricted = TRUE, !.methods = {"GET", "POST"}, !.controller = FALSE],
   Declare("nextjs", "n.ts", Items, {"GET", "POST"}), Declare("nextjs", "n.ts", <<"api", "posts">>, {}),
   Declare("express", "e.js", <<"api", "{id}">>, {"GET"}), Declare("express", "e.js", Items, {"POST"}),
   Declare("go_net_http", "g.go", Items, {}), Declare("go_net_http", "g.go", <<"posts">>, {"GET"})}
Ask(callee, way, option, plain, near) ==
  [callee |-> callee, path |-> way, option |-> option, plain |-> plain, near |-> near]
Asked ==
  {Ask("fetch", Items, "", TRUE, FALSE), Ask("fetch", Items, "POST", TRUE, FALSE),
   Ask("fetch", <<"api", "posts">>, "", TRUE, TRUE), Ask("fetch", <<"posts">>, "", TRUE, TRUE),
   Ask("POST", <<"api", "{param}">>, "", FALSE, FALSE), Ask("fetch", <<"api", "{param}">>, "", FALSE, TRUE),
   Ask("none", Items, "", TRUE, FALSE)}
Manifests ==
  {{"fastapi", "nextjs", "express", "spring_boot", "go_net_http"}, {"nextjs", "express"}, {"fastapi", "go_net_http"}}
Holding == [x \in {"api", "items", "posts", "{id}", "{param}"} |-> IF x = "posts" THEN "POST" ELSE ""]

-----------------------------------------------------------------------------
(* Builders that share a cache: two, and one in a single process; files of *)
(* the same bytes at two paths, and one path under two fingerprints.       *)
FilesOf == [x |-> <<"a1f", "b1f">>, y |-> <<"a1f", "b1g">>, z |-> <<"b1f", "c2f">>]
BytesOf == [a1f |-> "1", b1f |-> "1", c2f |-> "2", a1g |-> "1", b1g |-> "1"]

(* Builds of two chunks in batches of one, and one that is put off.        *)
TwoChunks == <<"c", "b">>
OneLater == <<"d">>
Hashes == <<[c |-> 1, b |-> 1, d |-> 1]>>

-----------------------------------------------------------------------------
(* The names of repositories and chunks.                                   *)
Long == {<<"/", "o", "/", "r">>, <<"/", "o">>}
Endings == {<<>>, <<"/">>, <<".git">>, <<".git", "/">>, <<"/", "/">>, <<".git", ".git">>, <<"/", ".git">>}
UrlUniverse ==
  [form : {"url"}, scheme : {"https", "http", "ssh"}, user : {"", "me", "localhost"}, host : {"H", "h", "localhost"},
   port : {0, 80}, path : {p \o e : p \in Long, e \in Endings} \cup {<<>>, <<"/">>}, tail : {"", "?x"}]
  \cup [form : {"scp"}, scheme : {""}, user : {""}, host : {"H", "h", "localhost"}, port : {0},
        path : {Tail(p) \o e : p \in Long, e \in Endings} \cup {<<>>}, tail : {""}]
Runs(n) == UNION {[1..k -> {"a", "::", "("}] : k \in 1..n}
PathTokens == Runs(2)
ParentTokens == {<<>>} \cup Runs(3)
SignatureTokens == {<<>>, <<"a">>, <<")", "::">>}
LowerCase == [H |-> "h", h |-> "h", localhost |-> "localhost"]
Setups == [model : {"m", "n"}, revision : {"r"}, dimensions : {1, 2}, distance : {"cosine"}]

-----------------------------------------------------------------------------
parsedVars == <<tree, front, items, told, hasError, at, symbols, mentions, records>>
cutVars == <<payload, spans, imports, chunks>>
importedVars == <<paths, source, specifier, rules, targets, resolved>>
relatedVars == <<table, bindings, files, mentioned, counted, edges>>
otherVars == <<vars, parsedVars, cutVars, importedVars, relatedVars>>
allVars == <<otherVars, reuseVars>>

DraftInit ==
  /\ part \in {"ids", "files", "symbols", "chunks", "imports", "calls", "routes", "cache", "vectors", "names"}
  /\ ReuseInit
  /\ IF part = "ids" THEN Init ELSE one = None /\ other = None /\ id = <<>>
  /\ IF part = "symbols" THEN Parsed!Init ELSE ParsedOff
  /\ IF part = "chunks" THEN Cut!Init ELSE CutOff
  /\ IF part = "imports" THEN Imported!Init ELSE ImportedOff
  /\ IF part = "calls" THEN Related!Init ELSE RelatedOff

IdsStep ==
  /\ part = "ids" /\ Next
  /\ UNCHANGED <<parsedVars, cutVars, importedVars, relatedVars, reuseVars>>
SymbolsStep ==
  /\ part = "symbols" /\ Parsed!Next
  /\ UNCHANGED <<vars, cutVars, importedVars, relatedVars, reuseVars>>
ChunksStep ==
  /\ part = "chunks" /\ Cut!Next
  /\ UNCHANGED <<vars, parsedVars, importedVars, relatedVars, reuseVars>>
ImportsStep ==
  /\ part = "imports" /\ Imported!Next
  /\ UNCHANGED <<vars, parsedVars, cutVars, relatedVars, reuseVars>>
CallsStep ==
  /\ part = "calls" /\ Related!Next
  /\ UNCHANGED <<vars, parsedVars, cutVars, importedVars, reuseVars>>
ReuseStep == ReuseNext /\ UNCHANGED otherVars

DraftNext ==
  \/ IdsStep \/ SymbolsStep \/ ChunksStep \/ ImportsStep
  \/ CallsStep \/ ReuseStep

DraftSpec == DraftInit /\ [][DraftNext]_allVars

-----------------------------------------------------------------------------
\* What a file holds is in its draft.  Symbols nest as their nodes do and keep their mentions
\* through either front end, and no two have an id; each letter or digit is in a chunk, no byte in
\* two but where a symbol or an import stands in a symbol, and none is cut where the next piece
\* fitted (parse.py, grammars.py, ir.py, chunking.py).
ExtractedWhole ==
  /\ part = "symbols" => /\ Parsed!TypeOK /\ Parsed!Nesting /\ Parsed!IdsDiffer
                         /\ Parsed!MentionsStay /\ Parsed!NoModuleOnError
  /\ part = "chunks" => /\ Cut!TypeOK /\ Cut!WordsCovered /\ Cut!OnceOnly /\ Cut!CutsAreTight
                        /\ Cut!IdentitiesDiffer /\ Cut!LabelsTouch

\* What is called resolved is the one thing that was named: by the path of the import or the first
\* alias rule that matches it, by a binding or the caller's own file; what two things could be stays
\* open, and a language is reported as supported only when nothing did (relationship_resolve.py).
TargetsNamed ==
  /\ part = "imports" => Imported!TypeOK /\ Imported!TargetsNamed /\ Imported!TargetsFound /\ Imported!FirstRuleDecides
  /\ part = "calls" => /\ Related!TypeOK /\ Related!EdgeIdsDiffer /\ Related!ResolvedIsNamed
                       /\ Related!AmbiguousIsOpen /\ Related!SupportedIsWhole

=============================================================================
