--------------------------------- MODULE Names ---------------------------------
(***************************************************************************)
(* The names the code derives from what a user or a file gives: the one    *)
(* URL of a repository, the prefix a chunk is embedded and shown under,    *)
(* and the fingerprint and collection of an embedding configuration.  Text *)
(* is a sequence of tokens; ".git" and "::" are one token each.            *)
(***************************************************************************)
EXTENDS Naturals, Sequences, SequencesExt

CONSTANTS Tokens,      \* what text is made of
          Urls,        \* [form, scheme, user, host, port, path, tail]; a user of "" is none
          Loopback,    \* hosts of this machine
          Lower,       \* each host in lower case
          RelPaths, Parents, Signatures,   \* sequences of tokens; <<>> for none
          Configs      \* [model, revision, dimensions, distance]

NamesAssumption ==
  /\ {"/", ".git", "::", "(", ")"} \subseteq Tokens
  /\ Urls \subseteq [form : {"url", "scp"}, scheme : STRING, user : STRING, host : DOMAIN Lower, port : Nat,
                      path : Seq(Tokens), tail : STRING]
  /\ RelPaths \cup Parents \cup Signatures \subseteq Seq(Tokens) /\ <<>> \notin RelPaths

VARIABLES url, allowed, stored, path, parent, signature, prefix, config
vars == <<url, allowed, stored, path, parent, signature, prefix, config>>

Nothing(scheme) == [scheme |-> scheme, host |-> "", port |-> 0, path |-> <<>>]
Init == /\ stored = Nothing("none") /\ prefix = <<>>
        /\ \/ /\ url \in Urls /\ allowed \in BOOLEAN
              /\ path = <<>> /\ parent = <<>> /\ signature = <<>> /\ config = <<>>
           \/ /\ path \in RelPaths /\ parent \in Parents /\ signature \in Signatures /\ config \in Configs \X Configs
              /\ url = "none" /\ allowed = FALSE

-----------------------------------------------------------------------------
\* normalize_repository_url: git@host:path is https://host/path; user, query and fragment go.
Given(u) == IF u.form = "scp" THEN [u EXCEPT !.scheme = "https", !.user = "", !.path = <<"/">> \o @] ELSE u
Without(p, token) == IF p # <<>> /\ p[Len(p)] = token THEN SubSeq(p, 1, Len(p) - 1) ELSE p
GitFirst(p) == Without(Without(p, ".git"), "/")   \* mutant: the two endings are taken off in the other order
Trimmed(p) == Without(Without(p, "/"), ".git")
Local(u) == Lower[u.host] \in Loopback
Accepts(u) == \/ u.scheme = "http" /\ Local(u) /\ allowed
              \/ u.scheme = "https"
Normalized(u) == LET g == Given(u)
                 IN IF ~Accepts(g) \/ Trimmed(g.path) \in {<<>>, <<"/">>} THEN Nothing("rejected")
                    ELSE [scheme |-> g.scheme, host |-> Lower[g.host], port |-> g.port, path |-> Trimmed(g.path)]
Store == /\ stored.scheme = "none" /\ path = <<>>
         /\ stored' = Normalized(url)
         /\ UNCHANGED <<url, allowed, path, parent, signature, prefix, config>>

-----------------------------------------------------------------------------
\* context_prefix, embedding_prefix, display_prefix.
ContextPrefix == IF parent = <<>> THEN <<>>
                 ELSE IF signature # <<>> THEN parent \o <<"(">> \o signature \o <<")">> ELSE parent
EmbeddingPrefix == IF ContextPrefix = <<>> THEN path ELSE path \o <<"::">> \o ContextPrefix
Lead(p) == p \o <<"::">>
DisplayPrefix(pre, p) ==
  IF pre = p THEN <<>>
  ELSE IF IsPrefix(Lead(p), pre) THEN SubSeq(pre, Len(Lead(p)) + 1, Len(pre)) ELSE pre
Prefix == /\ path # <<>> /\ prefix = <<>>
          /\ prefix' = EmbeddingPrefix
          /\ UNCHANGED <<url, allowed, stored, path, parent, signature, config>>

Next == Store \/ Prefix
Spec == Init /\ [][Next]_vars

\* embedding_config_fingerprint is over all of it, collection_name over what a collection is built for.
Fingerprint(c) == <<c.dimensions, c.distance, c.model, c.revision>>
CollectionName(c) == <<c.model, c.dimensions, c.distance>>

-----------------------------------------------------------------------------
TypeOK == /\ stored.scheme \in {"none", "rejected", "https", "http"} /\ DOMAIN stored = {"scheme", "host", "port", "path"}
          /\ stored.scheme = "http" => url.form = "url"
          /\ prefix = <<>> \/ path # <<>>

\* Every accepted spelling of a repository, by scp or by https, with or without a user, a query, a last slash
\* and .git, in any case of the host, is stored under one URL.
Endings == {<<>>, <<"/">>, <<".git">>, <<".git", "/">>}
Plain(p) == p # <<>> /\ p[1] = "/" /\ p[Len(p)] \notin {"/", ".git"}
Spells(u, p) == \E e \in Endings : u.path = (IF u.form = "scp" THEN Tail(p) ELSE p) \o e
OneRepository ==
  stored.scheme # "none" => \A n \in 2..Len(Given(url).path) :
    LET p == SubSeq(Given(url).path, 1, n)
    IN Plain(p) /\ Spells(url, p) /\ (url.scheme = "https" \/ url.form = "scp") =>
       stored = [scheme |-> "https", host |-> Lower[url.host], port |-> url.port, path |-> p]

\* identity.py:249: "Non-loopback repositories must remain HTTPS.", whatever the user part looks like.
HttpIsLocal == stored.scheme = "http" => allowed /\ stored.host \in Loopback

\* What is shown of a stored prefix is the symbol it was made from, whatever separators path and symbol contain.
ShownIsStored == prefix # <<>> => DisplayPrefix(prefix, path) = ContextPrefix

\* A point found by its fingerprint lies in the collection its configuration names.
FingerprintPinsCollection ==
  config # <<>> /\ Fingerprint(config[1]) = Fingerprint(config[2]) =>
    CollectionName(config[1]) = CollectionName(config[2])
=============================================================================
