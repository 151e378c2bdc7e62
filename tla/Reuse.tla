-------------------------------- MODULE Reuse --------------------------------
(***************************************************************************)
(* What builds decide once and use again: ids (Identity), the products of  *)
(* files in the parse cache (FileProducts), the vectors of chunks          *)
(* (Embedding), the files of a commit (Inclusion), the links between files *)
(* (Routes) and stored names (Names).  The parts share no state: `part'    *)
(* says which one runs, and the variables of the others are None.          *)
(***************************************************************************)
EXTENDS Identity, FiniteSets

None == "none"

VARIABLE part

-----------------------------------------------------------------------------
CONSTANTS Builders, BlobsOf, Contents, Serial, Window, Kept, Inodes, MaxCrashes, MaxFailures
VARIABLES phase, products, cursor, missing, pending, finished, done, writing, cached, temporary, content,
          crashes, failures
cachedVars ==
  <<phase, products, cursor, missing, pending, finished, done, writing, cached, temporary, content,
    crashes, failures>>

Cached == INSTANCE FileProducts WITH Bytes <- Contents, Blobs <- BlobsOf
CachedOff ==
  /\ phase = None /\ products = None /\ cursor = None /\ missing = None /\ pending = None /\ finished = None
  /\ done = None /\ writing = None /\ cached = None /\ temporary = None /\ content = None
  /\ crashes = 0 /\ failures = 0

-----------------------------------------------------------------------------
CONSTANTS Workers, Catalogue, Deferred, Input, Batch, MaxGen
VARIABLES vectors, rows, active, settings, last, owner, holder, pc, gen, left, known, without, own, alive,
          asking, dropped, since
embeddedVars ==
  <<vectors, rows, active, settings, last, owner, holder, pc, gen, left, known, without, own, alive,
    asking, dropped, since>>

Embedded == INSTANCE Embedding
  WITH Nobody <- None, points <- vectors, row <- rows, lack <- without, mine <- own, job <- asking
EmbeddedOff ==
  /\ vectors = None /\ rows = None /\ active = None /\ settings = None /\ last = None /\ owner = None
  /\ holder = None /\ pc = None /\ gen = None /\ left = None /\ known = None /\ without = None
  /\ own = None /\ alive = None /\ asking = None /\ dropped = None /\ since = None

-----------------------------------------------------------------------------
CONSTANTS Possible, MaxListed, NamesSet, Detects
VARIABLES listed, next, written, decision, draft, languages
takenVars == <<listed, next, written, decision, draft, languages>>

Taken == INSTANCE Inclusion WITH Files <- Possible, at <- next, tree <- written, phase <- decision
TakenOff == listed = None /\ next = 0 /\ written = None /\ decision = None /\ draft = None /\ languages = None

-----------------------------------------------------------------------------
CONSTANTS Tokens, Urls, Loopback, Lower, RelPaths, Parents, Signatures, Configs
VARIABLES url, allowed, stored, path, parent, signature, prefix, config
storedVars == <<url, allowed, stored, path, parent, signature, prefix, config>>

Stored == INSTANCE Names
StoredOff == /\ url = None /\ allowed = FALSE /\ stored = None /\ path = None /\ parent = None
             /\ signature = None /\ prefix = None /\ config = None

-----------------------------------------------------------------------------
CONSTANTS Declarations, MaxDeclarations, Calls, MaxCalls, HintSets, Templates, WordIn
VARIABLES declared, hints, pom, calls, scan, routes, hits, links
servedVars == <<declared, hints, pom, calls, scan, routes, hits, links>>

Served == INSTANCE Routes WITH phase <- scan
ServedOff == /\ declared = None /\ hints = None /\ pom = FALSE /\ calls = None
             /\ scan = None /\ routes = None /\ hits = None /\ links = None

-----------------------------------------------------------------------------
ASSUME ReuseAssumption == /\ Cached!ProductsAssumption /\ Embedded!EmbeddingAssumption
                          /\ Taken!InclusionAssumption /\ Stored!NamesAssumption /\ Served!RoutesAssumption

reuseVars == <<part, cachedVars, embeddedVars, takenVars, storedVars, servedVars>>

ReuseInit ==
  /\ IF part = "cache" THEN Cached!Init ELSE CachedOff
  /\ IF part = "vectors" THEN Embedded!Init ELSE EmbeddedOff
  /\ IF part = "files" THEN Taken!Init ELSE TakenOff
  /\ IF part = "names" THEN Stored!Init ELSE StoredOff
  /\ IF part = "routes" THEN Served!Init ELSE ServedOff
ReuseNext ==
  /\ UNCHANGED part
  /\ \/ part = "cache" /\ Cached!Next /\ UNCHANGED <<embeddedVars, takenVars, storedVars, servedVars>>
     \/ part = "vectors" /\ Embedded!Next /\ UNCHANGED <<cachedVars, takenVars, storedVars, servedVars>>
     \/ part = "files" /\ Taken!Next /\ UNCHANGED <<cachedVars, embeddedVars, storedVars, servedVars>>
     \/ part = "names" /\ Stored!Next /\ UNCHANGED <<cachedVars, embeddedVars, takenVars, servedVars>>
     \/ part = "routes" /\ Served!Next /\ UNCHANGED <<cachedVars, embeddedVars, takenVars, storedVars>>

ReuseSpec == ReuseInit /\ [][ReuseNext]_reuseVars

\* What is used again is one's own.  Every file of a finished draft has the product of its own bytes
\* under its own path and fingerprint, whoever parsed and stored it, in whatever order and however
\* often the index was stopped (assemble.py, checkpoint.py).  And a chunk whose row says it is embedded
\* has a vector of its own text, whichever build or question stored it: when builders overlap, when a
\* point vanishes between two looks, and when a late deletion takes them all before a build has checked
\* them (embedding_reuse.py, vector_store.py, pipeline.py).
OwnProducts ==
  /\ part = "cache" => Cached!TypeOK /\ Cached!OwnProducts /\ Cached!CacheIsSound
  /\ part = "vectors" => /\ Embedded!TypeOK /\ Embedded!ReadyHasPoint
                         /\ Embedded!FinishedIsWhole /\ Embedded!EmbeddedFirst

\* What the work tree, its validation, the draft and the catalog take for the files of a commit is
\* one set, no commit is refused, and each file is parsed by the grammar of the language that the
\* catalog lists it as, or by none (inclusion.py, materialize.py, assemble.py).
FilesAgree ==
  part = "files" => Taken!TypeOK /\ Taken!NeverRefused /\ Taken!OnlySource /\ Taken!OneLanguage

\* Every accepted spelling of a repository is stored under one URL, plain HTTP stays on this machine,
\* a stored prefix shows the symbol it was made from, and a fingerprint names one collection
\* (identity.py, assemble.py).
OneRepository ==
  part = "names" => /\ Stored!TypeOK /\ Stored!OneRepository /\ Stored!HttpIsLocal
                    /\ Stored!ShownIsStored /\ Stored!FingerprintPinsCollection

\* A request is linked to a handler only when exactly one route answers it, and the order in which
\* adapters, files and requests are read decides nothing (protocol_links.py).
OneServer == part = "routes" => Served!TypeOK /\ Served!OneServer /\ Served!OrderFree
=============================================================================
