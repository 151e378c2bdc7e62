------------------------------ MODULE Capability ------------------------------
(***************************************************************************)
(* What an index generation is measured to support, and what a trace       *)
(* question is therefore planned to do: build_capability_report, the       *)
(* report kept with the generation, the profile read back from it, and the *)
(* investigation plan made from question and profile, then grounded.  A    *)
(* file keeps the language it is listed under, the one its symbols carry,  *)
(* whether it parsed and what its calls were resolved to.  Levels 1 and 2  *)
(* of a language, which no decision here tells apart, are both 2.          *)
(***************************************************************************)
EXTENDS Integers, Sequences, FiniteSets, FiniteSetsExt

CONSTANTS Files,         \* the files a repository may have
          MaxFiles,
          FrameworkSets, \* the frameworks its manifests may show
          Level,         \* the languages with an adapter, and the adapter's level
          Prose,         \* the languages that are not code
          Words,         \* the words a question may have
          MaxWords,
          Cue            \* _QUESTION_STAGE_CUES: the stage a word asks for, "" if none

Stages == {"entry_point", "event_handler", "http_request", "api_handler", "authentication", "validation",
           "business_logic", "ai_or_rules", "database", "response", "frontend_update"}
CapabilityAssumption ==
  /\ \A w \in Words : Cue[w] \in Stages \cup {""}
  /\ \A lang \in DOMAIN Level : Level[lang] \in Nat

VARIABLES repo, frameworks, row, words, profile, plan, pc
vars == <<repo, frameworks, row, words, profile, plan, pc>>

FrontendStages == {"event_handler", "frontend_update", "http_request"}
HttpStages == {"api_handler", "http_request"}
Facets == {"calls", "http", "protocol", "database", "frontend", "multi", "tracing"}
States == {"SUPPORTED", "PARTIAL", "UNSUPPORTED", "NOT_APPLICABLE", "UNKNOWN"}
Own == "own"

NoProfile == [generation |-> "", facets |-> <<>>, frameworks |-> {}, level |-> 0]
NoReport == [languages |-> {}, frameworks |-> {}]
Kept(owner, report) == [generation |-> owner, report |-> report]
NoPlan == [stages |-> {}, na |-> {}, blocked |-> {}, status |-> <<>>, strategies |-> {}]

Init ==
  /\ \E n \in 1..MaxFiles : repo \in kSubset(n, Files)
  /\ frameworks \in FrameworkSets
  /\ row = Kept("none", NoReport) /\ words = {} /\ profile = NoProfile /\ plan = NoPlan /\ pc = "index"

(***************************************************************************)
(* build_capability_report.                                                *)
(***************************************************************************)
Languages == {f.language : f \in repo}
\* _normalise_language of the language of the symbols that call.
Bucket(f) == IF f.symbols = "tsx" THEN "typescript" ELSE f.symbols
Sites(lang) == UNION {{<<f, k>> : k \in DOMAIN f.calls} : f \in {g \in repo : Bucket(g) = lang}}
Resolution(site) == site[1].calls[site[2]]
Total(lang) == Cardinality(Sites(lang))
Verified(lang) == Cardinality({s \in Sites(lang) : Resolution(s) = "resolved"})
Internal(lang) == Cardinality({s \in Sites(lang) : Resolution(s) # "external"})
Adapter(lang) == IF lang \in DOMAIN Level THEN Level[lang] ELSE 0
Coverage(lang) == CASE Internal(lang) = 0 -> (IF Adapter(lang) >= 3 THEN "no_sites" ELSE "unsupported")
                    [] Internal(lang) # 0 /\ Verified(lang) = 0 -> "zero_verified"
                    [] OTHER -> IF Verified(lang) < Internal(lang) THEN "partial" ELSE "supported"
Effective(lang) ==
  IF ~\E f \in repo : f.language = lang /\ f.parsed THEN 0
  ELSE IF Adapter(lang) >= 3 /\ Coverage(lang) \in {"unsupported", "zero_verified", "no_sites"} THEN 2
  ELSE Adapter(lang)
Entry(lang) ==
  [language |-> lang, level |-> Effective(lang),
   resolves |-> Coverage(lang) \in {"partial", "supported"},
   coverage |-> IF Adapter(lang) >= 3 \/ Total(lang) > 0 THEN Coverage(lang) ELSE "unknown"]
Report == [languages |-> {Entry(lang) : lang \in Languages}, frameworks |-> frameworks]

\* write_draft keeps the report under the generation's id.  A generation indexed before the
\* column existed has none; what is kept may not be JSON; and a copied row may name another generation.
Index ==
  /\ pc = "index"
  /\ \/ \E owner \in {Own, "other"} : row' = Kept(owner, Report)
     \/ \E none \in {"none", "corrupt"} : row' = Kept(none, NoReport)
  /\ pc' = "load" /\ UNCHANGED <<repo, frameworks, words, profile, plan>>

(***************************************************************************)
(* profile_from_report and its facets.                                     *)
(***************************************************************************)
Code(entries) == {e \in entries : e.language \notin Prose}
Read(e) == IF e.coverage # "unknown" THEN e.coverage
           ELSE IF e.resolves THEN "supported"
           ELSE IF e.level < 3 THEN "unsupported" ELSE "unknown"
MeasuredCalls(entries) == {Read(e) : e \in Code(entries)} \ {"no_sites"}
AnyCoverage(entries) ==   \* mutant: a language without a verified call is a partial one
  IF MeasuredCalls(entries) = {} THEN "UNKNOWN"
  ELSE IF MeasuredCalls(entries) = {"supported"} THEN "SUPPORTED" ELSE "PARTIAL"
CallsFacet(entries) ==
  LET seen == MeasuredCalls(entries)
  IN  CASE Code(entries) = {} -> "NOT_APPLICABLE"
        [] Code(entries) # {} /\ seen \subseteq {"unknown"} -> "UNKNOWN"
        [] seen # {} /\ seen \subseteq {"unsupported", "zero_verified"} -> "UNSUPPORTED"
        [] seen = {"supported"} -> "SUPPORTED"
        [] OTHER -> "PARTIAL"
FrontendFacet(langs, found) ==
  IF langs \intersect {"javascript", "typescript", "tsx", "dart"} # {} \/ "nextjs" \in found
  THEN "SUPPORTED" ELSE "NOT_APPLICABLE"
MultiFacet(langs) == CASE Cardinality(langs) >= 2 -> "SUPPORTED"
                       [] Cardinality(langs) = 1 -> "NOT_APPLICABLE" [] OTHER -> "UNKNOWN"
FacetsOf(report) ==
  LET entries == report.languages
      code    == {e.language : e \in Code(entries)}
      http    == IF report.frameworks # {} THEN "SUPPORTED" ELSE "NOT_APPLICABLE"
      multi   == MultiFacet(code)
      calls   == CallsFacet(entries)
      top     == Max({0} \union {e.level : e \in entries})
  IN  [calls |-> calls, http |-> http, multi |-> multi,
       protocol |-> CASE multi = "NOT_APPLICABLE" -> "NOT_APPLICABLE"
                      [] multi # "NOT_APPLICABLE" /\ http = "SUPPORTED" -> "PARTIAL"
                      [] OTHER -> "UNSUPPORTED",
       database |-> IF code = {} THEN "NOT_APPLICABLE" ELSE "UNKNOWN",
       frontend |-> FrontendFacet({e.language : e \in entries}, report.frameworks),
       tracing |-> CASE top >= 3 /\ calls \in {"SUPPORTED", "PARTIAL"} -> "SUPPORTED"
                     [] top < 3 /\ top = 0 /\ code = {} -> "UNSUPPORTED"
                     [] OTHER -> "PARTIAL"]
UnknownProfile == [generation |-> Own, facets |-> [f \in Facets |-> "UNKNOWN"], frameworks |-> {}, level |-> 0]
FromReport(report) == [generation |-> Own, facets |-> FacetsOf(report), frameworks |-> report.frameworks,
                       level |-> Max({0} \union {e.level : e \in report.languages})]
FromRow(kept) == IF kept.generation = Own THEN FromReport(kept.report) ELSE UnknownProfile
Fallback == [UnknownProfile EXCEPT !.facets = [@ EXCEPT !.frontend = FrontendFacet(Languages, {}),
                                                       !.multi = MultiFacet(Languages \ Prose)]]
Load ==
  /\ pc = "load"
  /\ profile' = IF row.generation \in {"none", "corrupt"} THEN Fallback ELSE FromRow(row)
  /\ pc' = "build" /\ UNCHANGED <<repo, frameworks, row, words, plan>>

(***************************************************************************)
(* build_investigation_plan: the stages the words of question and history  *)
(* ask for, adjusted by apply_capability_profile.                          *)
(***************************************************************************)
Wanted(asked) ==
  LET named == {Cue[w] : w \in asked} \ {""}
  IN  IF named # {} \/ "trace" \notin asked THEN named ELSE {"business_logic", "response"}
Requires(asked, key) ==
  \/ key = "frontend_update" /\ "frontend" \in asked
  \/ key = "event_handler" /\ "click" \in asked
  \/ key = "http_request" /\ "fetch" \in asked
Verdict(key, asked) ==
  CASE key \in FrontendStages /\ profile.facets.frontend = "NOT_APPLICABLE" ->
         (IF Requires(asked, key) THEN "blocked_unsupported" ELSE "not_applicable")
    [] key = "database" /\ profile.facets.database = "UNSUPPORTED" -> "blocked_unsupported"
    [] ~(key \in FrontendStages /\ profile.facets.frontend = "NOT_APPLICABLE") /\ key \in HttpStages
         /\ profile.facets.http = "NOT_APPLICABLE" /\ profile.frameworks = {} /\ "api" \in asked -> "applicable_lexical"
    [] OTHER -> "applicable"
Shallow == profile.facets.tracing \in {"UNSUPPORTED", "UNKNOWN"} /\ profile.facets.calls = "UNSUPPORTED"
Depth(verdict) == IF Shallow /\ verdict = "applicable" THEN "applicable_lexical" ELSE verdict

Strategies(kept) ==
  LET calls == profile.facets.calls
      http  == profile.facets.http \in {"SUPPORTED", "PARTIAL"}
  IN  IF calls = "UNSUPPORTED" /\ profile.level = 0 THEN {"lexical_catalogue_search", "source_span_retrieval"}
      ELSE {"lexical_catalogue_search", "source_span_retrieval"}
           \union (IF calls \in {"SUPPORTED", "PARTIAL"} THEN {"follow_verified_calls"} ELSE {})
           \union (IF calls \in {"PARTIAL", "UNKNOWN"} THEN {"inspect_source_call_sites"} ELSE {})
           \union (IF http THEN {"discover_http_routes"}
                   ELSE IF kept \intersect HttpStages # {} THEN {"lexical_route_inspection"} ELSE {})
           \union (IF profile.facets.protocol \in {"SUPPORTED", "PARTIAL"} /\ profile.facets.multi \in {"SUPPORTED", "PARTIAL"}
                   THEN {"follow_protocol_links"} ELSE {})

\* The frontend stages of a repository without a frontend that the plan does not keep.
Idle(kept, blocked) ==
  IF profile.facets.frontend = "NOT_APPLICABLE" THEN (FrontendStages \ kept) \ blocked ELSE {}
Apply(p, asked) ==
  LET judged  == [key \in p.stages |-> Verdict(key, asked)]
      blocked == {key \in p.stages : judged[key] = "blocked_unsupported"}
      kept    == {key \in p.stages : judged[key] \notin {"blocked_unsupported", "not_applicable"}}
      idle    == Idle(kept, blocked)
      known   == p.stages \union DOMAIN p.status
  IN  [stages |-> kept, blocked |-> blocked,
       na |-> (p.na \union idle \union {key \in p.stages : judged[key] = "not_applicable"}) \ kept,
       strategies |-> Strategies(kept),
       status |-> [key \in known \union idle |->
                     IF key \in p.stages THEN Depth(judged[key])
                     ELSE IF key \in known THEN p.status[key] ELSE "not_applicable"]]

Build ==
  /\ pc = "build"
  /\ \E n \in 1..MaxWords : \E asked \in kSubset(n, Words) :
       /\ words' = asked
       /\ plan' = Apply([NoPlan EXCEPT !.stages = Wanted(asked), !.na = Stages \ Wanted(asked)], asked)
  /\ pc' = "ground" /\ UNCHANGED <<repo, frameworks, row, profile>>

\* ground_investigation_plan applies the profile again, without the question.
Ground ==
  /\ pc = "ground"
  /\ plan' = Apply(plan, {})
  /\ pc' = "done" /\ UNCHANGED <<repo, frameworks, row, words, profile>>

Next == Index \/ Load \/ Build \/ Ground
Spec == Init /\ [][Next]_vars

-----------------------------------------------------------------------------
TypeOK ==
  /\ repo \subseteq Files /\ words \subseteq Words /\ pc \in {"index", "load", "build", "ground", "done"}
  /\ profile.facets # <<>> => profile.facets \in [Facets -> States]
  /\ plan.stages \union plan.na \union plan.blocked \subseteq Stages

Planned == pc \in {"ground", "done"}

\* A plan follows verified calls only in a repository whose index has one: the coverage that
\* coverage_state measures, the level it takes down, the facet made of all languages and the
\* strategies of _strategies_for_profile never add up to more than the edges show.
FollowsVerified ==
  Planned /\ "follow_verified_calls" \in plan.strategies =>
    \E f \in repo : \E k \in DOMAIN f.calls : f.calls[k] = "resolved"

\* A plan never rests on the report of another generation ("Never uses another generation's
\* report", load_capability_profile): from such a row no stage is ruled out and nothing is followed.
OwnReportOnly ==
  Planned /\ row.generation = "other" =>
    /\ plan.blocked = {} /\ plan.stages = Wanted(words)
    /\ plan.strategies \intersect {"follow_verified_calls", "discover_http_routes", "follow_protocol_links"} = {}

\* Every stage is applicable, not applicable or blocked, and never two of these, after the
\* profile was applied once and after it was applied again.
OneList ==
  Planned => /\ plan.stages \union plan.na \union plan.blocked = Stages
             /\ plan.stages \intersect plan.na = {} /\ plan.stages \intersect plan.blocked = {}
             /\ plan.na \intersect plan.blocked = {}

=============================================================================
