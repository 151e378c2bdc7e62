-------------------------------- MODULE Routes --------------------------------
(***************************************************************************)
(* Which server file answers the requests of a client file: the routes the *)
(* framework adapters of adapters/builtin.py discover, the requests        *)
(* extract_client_http_paths reads and the links of link_http_routes,      *)
(* protocol_links.py.  A path is the sequence of its segments.             *)
(***************************************************************************)
EXTENDS Integers, Sequences, SequencesExt, FiniteSets, Lists

CONSTANTS Declarations,    \* the handlers a repository may declare
          MaxDeclarations,
          Calls,           \* the requests a client file may make, in its order
          MaxCalls,
          HintSets,        \* the frameworks its manifests may name
          Templates,       \* the segments that stand for any segment
          WordIn           \* the method whose name a segment holds, or ""

RoutesAssumption ==
  /\ {MaxDeclarations, MaxCalls} \subseteq Nat
  /\ \A d \in Declarations : IsFiniteSet(d.methods)

VARIABLES declared, hints, pom, calls, phase, routes, hits, links
vars == <<declared, hints, pom, calls, phase, routes, hits, links>>

Init ==
  /\ \E n \in 1..MaxDeclarations : declared \in [1..n -> Declarations]
  /\ \E n \in 1..MaxCalls : calls \in [1..n -> Calls]
  /\ hints \in HintSets /\ pom \in BOOLEAN
  /\ phase = "discover" /\ routes = <<>> /\ hits = <<>> /\ links = <<>>

(***************************************************************************)
(* detect and discover_routes of the five adapters, in the order they are  *)
(* registered.                                                             *)
(***************************************************************************)
Frameworks == <<"fastapi", "nextjs", "express", "spring_boot", "go_net_http">>
Detected(f) ==
  \/ f \in hints
  \/ f = "spring_boot" /\ pom /\ \E k \in DOMAIN declared :
       declared[k].framework = f /\ declared[k].controller
\* A mapping without a method, and a Go pattern without one, answer them all; a mapping whose methods
\* are not known, and a Next.js file without exports, answer none.
SpringMethods(d) == IF d.restricted THEN d.methods ELSE {"*"}
GoMethods(d) == IF d.methods = {} THEN {"*"} ELSE d.methods
Exported(d) == d.methods
Called(d) == d.methods
Methods(d) ==
  CASE d.framework = "spring_boot" -> SpringMethods(d)
    [] d.framework = "go_net_http" -> GoMethods(d)
    [] d.framework = "nextjs" -> Exported(d)
    [] OTHER -> Called(d)
\* FastAPI: the prefix of an APIRouter declared in the same file; app has none.
FullPath(d) ==
  IF d.framework = "fastapi" /\ d.receiver # "app" THEN d.prefix \o d.path ELSE d.path
Route(d, method) == [method |-> method, path |-> FullPath(d), file |-> d.file]
RoutesOf(f) ==
  FlattenSeq([k \in DOMAIN declared |->
    IF declared[k].framework # f THEN <<>>
    ELSE SetToSeq({Route(declared[k], m) : m \in Methods(declared[k])})])
Discover ==
  /\ phase = "discover" /\ phase' = "extract"
  /\ routes' = FlattenSeq([k \in DOMAIN Frameworks |->
                 IF Detected(Frameworks[k]) THEN RoutesOf(Frameworks[k]) ELSE <<>>])
  /\ UNCHANGED <<declared, hints, pom, calls, hits, links>>

(***************************************************************************)
(* extract_client_http_paths.  The method is a word found in the call, its *)
(* URL included, unless a method option follows within 220 characters: the *)
(* call's own, or that of the next one.                                    *)
(***************************************************************************)
MethodWords == <<"POST", "PUT", "PATCH", "DELETE">>
Words(c) == {c.callee} \union {WordIn[c.path[k]] : k \in DOMAIN c.path}
Worded(c) ==
  LET k == SelectInSeq(MethodWords, LAMBDA w : w \in Words(c))
  IN  IF k = 0 THEN "GET" ELSE MethodWords[k]
\* near: the next call starts within those 220 characters.
Option(k) ==
  IF calls[k].option = "" /\ calls[k].near /\ k < Len(calls) THEN calls[k + 1].option ELSE calls[k].option
Hit(method, path) == [method |-> method, path |-> path]
\* A bare string makes no request; plain ones that start with /api or /v are hits of any method.
Requests ==
  FlattenSeq([k \in DOMAIN calls |->
    IF calls[k].callee = "none" THEN <<>>
    ELSE <<Hit(IF Option(k) = "" THEN Worded(calls[k]) ELSE Option(k), calls[k].path)>>])
Strings ==
  FlattenSeq([k \in DOMAIN calls |->
    IF calls[k].plain /\ Head(calls[k].path) \in {"api", "v1"} THEN <<Hit("*", calls[k].path)>> ELSE <<>>])
Once(s) == Those(s, {i \in DOMAIN s : \A j \in 1..i - 1 : s[j] # s[i]})
Extract ==
  /\ phase = "extract" /\ phase' = "link"
  /\ hits' = Once(Requests \o Strings)
  /\ UNCHANGED <<declared, hints, pom, calls, routes, links>>

(***************************************************************************)
(* link_http_routes.                                                       *)
(***************************************************************************)
Compatible(p, q) ==
  Len(p) = Len(q) /\ \A k \in DOMAIN p : p[k] = q[k] \/ {p[k], q[k]} \cap Templates # {}
Accepts(hit, r) == hit.method \in {"*", r.method} \/ r.method = "*"
\* The places of the routes that a hit may be for.
Preferred(hit, all) ==
  LET matches == {k \in DOMAIN all : Compatible(hit.path, all[k].path)}
      exact == {k \in matches : all[k].path = hit.path}
  IN  IF exact # {} THEN exact ELSE matches
Filtered(hit, all) == {k \in Preferred(hit, all) : Accepts(hit, all[k])}
NoneOrSome(found) == found = {}   \* mutant: the first of several routes is linked
NotUnique(found) == Cardinality(found) # 1
First(found) == CHOOSE k \in found : \A j \in found : k <= j
LinkTo(hit, r) ==
  [method |-> IF r.method # "*" THEN r.method ELSE hit.method, path |-> hit.path, server |-> r.file]
LinkOne(hit, all) ==
  LET found == Filtered(hit, all)
      link == LinkTo(hit, all[First(found)])
  IN  IF NotUnique(found) \/ link.method = "*" THEN <<>> ELSE <<link>>
LinksOf(all, asked) == Once(FlattenSeq([i \in DOMAIN asked |-> LinkOne(asked[i], all)]))
Link ==
  /\ phase = "link" /\ phase' = "done"
  /\ links' = LinksOf(routes, hits)
  /\ UNCHANGED <<declared, hints, pom, calls, routes, hits>>

Next == Discover \/ Extract \/ Link
Spec == Init /\ [][Next]_vars

-----------------------------------------------------------------------------
Files == {declared[k].file : k \in DOMAIN declared}
TypeOK ==
  /\ phase \in {"discover", "extract", "link", "done"}
  /\ \A k \in DOMAIN links : links[k].method # "*" /\ links[k].server \in Files
  /\ \A j, k \in DOMAIN links : links[j] = links[k] => j = k

\* protocol_links.py:84: "only when exactly one server route matches".  Of the routes that may answer
\* the method and path of a link, one is as specific as any, and it is declared in the linked file.
Answering(l) ==
  {k \in DOMAIN routes :
     /\ Compatible(l.path, routes[k].path) /\ routes[k].method \in {l.method, "*"}
     /\ routes[k].path = l.path \/ \A j \in DOMAIN routes : routes[j].path # l.path}
OneServer ==
  phase = "done" => \A n \in DOMAIN links :
    \E k \in DOMAIN routes : Answering(links[n]) = {k} /\ routes[k].file = links[n].server

\* The order in which adapters and files are walked, and requests are read, decides nothing: the
\* same repository always gets the same links.
OrderFree ==
  phase = "done" => ToSet(links) = ToSet(LinksOf(Reverse(routes), Reverse(hits)))

=============================================================================
