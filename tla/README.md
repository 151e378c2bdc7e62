# Formal model of Repona

Repona indexes Git repositories and answers questions about them with evidence from
the indexed commit. This directory holds TLA+ modules that model its server
(`src/backend/app`), TLC configurations that check them, and proofs checked by TLAPS.
Paths below are relative to `src/backend/app` unless they begin with `src/`.

## The system

A browser client indexes a repository with `POST /repository` and asks about it with
`POST /ask`. FastAPI runs each request in a thread with a SQLAlchemy session of its
own; several server processes may share one PostgreSQL, one Qdrant, one Neo4j and one
data directory. There is no background worker: **an index build runs inside the HTTP
request that starts it**. What serializes builds is a lease stored in the repository's
row, together with row locks.

| Component | State | Operations | Talks to |
|---|---|---|---|
| Refresh coordination (`ingestion/coordination.py`, `refresh.py`) | none (pure decisions on rows) | lease held, may activate, recovery action, build plan, pin and GC decisions | everything below |
| Index requests (`services/refresh_service.py`) | a session; membership and credential rows | `index`, `ask`, `_apply`, `_run`, `_join`, `_revoke` | upstream, pipeline, pins |
| Pipeline (`ingestion/pipeline.py`) | `refresh_*` columns of the repository row | `ingest_commit`, `adopt_expired_refresh`, `complete_owned_refresh`, `_finish_generation`, `_renew_lease`, `_fail_if_owner` | claims, disk, persist, graph, vectors |
| Generations (`ingestion/persist.py`, `models/catalog.py`) | status of each generation; `active_generation_id` | insert pending, write draft, activate, retire | PostgreSQL |
| Work tree claims (`ingestion/claims.py`) | `snapshot_state`, paths, creation and deletion leases of a source revision; pins | claim, publish, abort, recover; pin, renew, collect, delete | disk |
| Work trees (`ingestion/materialize.py`, `validation.py`) | directories `<revision>` and `<revision>.creating-<uuid>` | write, validate, adopt or promote | Git |
| Expired refreshes (`ingestion/host_paths.py`) | - | `repair_repository_data_paths`, `reset_expired_refresh` | rows above |
| Graph (`ingestion/graph_store.py`) | Neo4j nodes and edges with the epoch that wrote them | guarded writes, prune, publish epoch | Neo4j |
| Vectors (`ingestion/embedding_reuse.py`, `lazy_vectors.py`, `vector_store.py`) | points; `vector_status` per chunk | look up and reuse, upsert, mark ready, ensure at question time | Qdrant |
| Deletion, expiry (`services/repository_delete.py`, `client_session.py`) | users' last activity, memberships | leave, purge, sweep inactive clients | all stores |
| Retrieval, answers (`retrieval/`) | the pin of a question | select, fuse, pack, call the model, validate claims, renew the pin | pins, vectors, providers |
| Drafts (`ingestion/assemble.py`, `parse.py`, `chunking.py`, ...) | parse cache | blobs to files, symbols, chunks, edges | - |
| Providers (`services/llm/`) | bridge semaphore | one call with a time-out | network, CLIs |
| Rate limit, logs (`middleware/`, `core/log_buffer.py`) | times of the requests let through; a ring | allow or refuse; append, read the newest | - |

Which of them is modelled, partly or not, and why, is in `PROJECT.json`
("components"); the hazards of each, at their lines, are under "hazards" there.

### What is hard here

* **Sessions hold rows.** `SELECT ... FOR UPDATE` through an ORM session locks a row
  but does not reload an object that the session already holds. A request loads the
  repository row, then fetches from Git for up to half an hour, then locks the row and
  decides on the copy.
* **Renewals are not committed.** During a build the lease is renewed in the open
  transaction that also locks the row. Others read the committed lease, which runs out.
* **Crashes** leave a running refresh, a pending generation, a creation claim and
  partial trees, which later requests adopt, reset, recover or discard.
* **Ownership is by user and epoch**, not by request: two tabs of one user are the same
  owner to every check.
* **Deadlocks** between a reset (generations first, repository row second) and a builder
  (repository row first, generations second); between a pin (generation, revision, and at last
  the repository, through its foreign key) and the collector or a build, which take the
  repository first; between two questions that insert the same bodies in different orders.
* **Reads apart.** Under READ COMMITTED two SELECTs of one transaction see what was committed
  between them: a join reads the repository, its members and its own membership one by one, and
  the repository may be another by then.
* **Several stores** (PostgreSQL, the disk, Neo4j, Qdrant) change without a common
  transaction.
* **Identities are derived** from URL, commit and attempt: a repository that was deleted and
  is indexed again has the ids, the paths and the epochs of its former life.
* **Questions write.** A progressive index leaves bodies out; questions insert their rows,
  embed them and mark them, several at once, in the session that reads.
* **Long sequential computations** (chunking, resolution, selection, packing, investigation)
  apply one pass after another to the same list; what one pass ensures the next may undo.

### What makes each component correct

* Indexing: questions read one ready generation, replaced in one step by one that was
  just finished by the refresh in progress; a running refresh can be completed by an
  adopter; every refresh ends; every request ends.
* Work trees: one creator per tree; what a ready revision names is a whole tree.
* Pins: a pinned generation and its tree are not removed before the pin expires; no pin
  outlives its hard deadline.
* Graph: a late builder never overwrites or deletes what a newer epoch wrote.
* Vectors: a chunk marked ready has its point.
* Deletion: a repository that is gone leaves nothing a new index of its URL would read;
  one with active members is not purged.
* Rate limit, bridge, log: no more than the limit per window; slots returned; a reader gets
  the newest entries that match.
* Drafts: every byte with a letter or digit is in a chunk; what is called resolved is the one
  thing that was named; a product is the one of its own bytes.
* Retrieval and answers: limits never split a symbol the question names; a relationship is
  claimed only where the source shows it; the packet fits; the calls of the model are bounded.

## The modules

One module per component; each names its code in its header, and `PROJECT.json` ("map")
gives the lines of every definition. Six `MC` modules instantiate and combine them for TLC.

**State shared by requests**

| Module | Models | State and actions against the code |
|---|---|---|
| `Coordination` | `ingestion/coordination.py`, `question_plan` | pure decisions, one operator each; time is relative: a deadline is the time left until it, a heartbeat its age, so the state space is finite without a bound on the clock |
| `Indexing` | `refresh_service.index`, `pipeline.py`, `claims.py`, `materialize.py`, `host_paths.py` | one repository and any number of concurrent requests; see below |
| `Cutover` | the promise of indexing | abstract: a build begins, builds are given up, questions are cut over to a finished build |
| `Lifecycle` | `repository_delete.py`, `client_session.py`, `_join`, `_revoke`, `ask` | one URL: row, owner, members, what is left on disk and in Qdrant and Neo4j; probe, the reads of a join and its commit one by one, sweep, deletion, purge step by step, coarse builds; `lives` counts insertions of the row, `since` the one in which a member's join began |
| `ReaderPins` | pins and collection in `claims.py` | rows of generations, revisions and pins; locks of the repository, each generation and each revision, taken one after another in the code's order, and the deadlocks they lead to; a session decides on what it has loaded (`held`); pin, renewal, collection (its locks, its two counts, its commit), finish of a deletion, recovery, build; `overtaken` marks a pin written over a claim |
| `GraphEpoch` | `graph_store.py`, `graph_cleanup.py` | nodes, edges with the epoch that wrote them; merge, take over, prune, verify, publish, by overlapping builders of one life and of former ones; purges that delete the rows and, later, whatever graph is there (`former`, `lost`) |
| `Embedding` | `embedding_reuse.py`, `_embed_and_upsert_batches`, `_assert_points`, `ensure_chunk_vectors` | points, `vector_status`, batches of a build and their two lookups, chunks put off, early activation, adoption, lost sessions, a question that embeds, a late deletion of a former life |
| `Question` | `ask.py`, `answer.py` up to the model, `chunk_materialize.py`, `lazy_vectors.py` | each question's session with its uncommitted rows, waits and deadlocks of PostgreSQL, commits, rollback, cancellation |
| `FileProducts` | `_file_products`, `checkpoint.py` | the pool with its window of files, the shared cache with temporary names and inodes; crash and restart |
| `RateLimit`, `LogBuffer`, `CursorBridge` | `rate_limit.py`, `log_buffer.py`, `cursor_bridge.py` with `cli_runner.py` and `cursor_provider.py` | deque of admitted times; the ring and a reader; slots, CLI, helpers, clients that leave, exceptions that end a handler without an answer |

**From a commit to a draft**

| Module | Models |
|---|---|
| `Inclusion` | which files are written, validated, listed and parsed, under one rule (`inclusion.py`) |
| `Symbols` | the walk of `parse.py`; `grammars.py` from the language pack's outline (`_declarations`) or, where that gives nothing, from the tree; `ir.py` there and back, `_symbol_records` |
| `Chunking` | `build_chunks`: spans of imports (also inside a function), symbols and parts, gaps, cuts at line breaks, line labels |
| `ImportTargets`, `Relations` | `_import_targets`, `go_import_targets`, bindings, `resolve_call`, coverage of a language |
| `Routes` | the routes adapters discover, the requests in client files, their links |
| `Identity`, `Names` | what is hashed into ids; the canonical names of repositories, prefixes, collections |

**From a question to an answer**

| Module | Models |
|---|---|
| `Capability` | the report of an index, the profile read back, the investigation plan |
| `VectorLane`, `GraphWalk`, `Fusion` | the pages of the vector lane, the walk of the graph, the fusion of the lanes into anchors and spans |
| `Selection` | every limit and reordering between fusion and prompt, with the ranks of `evidence_scoring.py` |
| `Branches` | which calls a body shows and under which condition (`structure.py`) |
| `Investigation` | three passes that follow calls and routes, the merge and cap after each, why they stop, the first claims |
| `Packing`, `Turns` | the packet under the budget; the turns of the model, repairs, rounds, the review of claims |

The theorems are in `IndexingProofs`, `LifecycleProofs`, `ReaderPinsProofs`, `GraphEpochProofs`,
and in the proofs of composites: `StoresProofs` (of `MCStores`), `ReuseProofs` (of
`Reuse`: `Identity`, `FileProducts`, `Embedding`, `Inclusion`, `Routes`, `Names`), `SearchProofs` (of `MCSearch`:
`Capability`, `VectorLane`, `GraphWalk`) and `RequestsProofs` (of `Requests`: `RateLimit`,
`Question`, `LogBuffer`, `CursorBridge`, `Packing`, `Turns`). `Lists` has Python's list
comprehension, for modules that are proved about. Sequential code is a module all the same: its variables are what the passes hand
on, one action is one pass, and its inputs are chosen in `Init`. Where the code's answer
depends on an order it does not control (rows of a query without an order, dictionaries of
another process) any order is allowed.

### How the parts are composed

`Indexing` extends `Coordination` and is shown to implement `Cutover`. `ReaderPins` has the
decisions on pins and collection that the code keeps in `coordination.py` too. The other components meet through a few values (a generation that is
active, a tree that is there, rows that are ready), which each module has as inputs that may
change at any time. The composite runs therefore put modules **side by side**: `part` says
which one moves, all others stay where they begin. That is no loss where they share no state,
and it is stated in each MC module. What does interact is in one module: builds and resets in
`Indexing`; deletion, sweep, join and build in `Lifecycle`; question, collector and build in
`ReaderPins`; builders and purges of any life of a URL in `GraphEpoch`; builders, questions and a
late deletion in `Embedding`; two questions in `Question`.

The composites that theorems are about are general modules of their own: `Reuse` and `Requests` have the
constants of their components as constants; `MCDraft` extends `Reuse` with the components that have no theorem,
`MCRequests` gives `Requests` its values, and `MCStores` and `MCSearch` have the constants of the components their theorems are about from
`stores.cfg` and `search.cfg` alone. Every behaviour of an MC
module is one of the composite it extends, with steps that leave the composite as it is.

### Indexing and the code

State: `repo` is the committed repository row (`refresh_state`, `refresh_generation_id`,
`refresh_owner`, `refresh_epoch`, `refresh_heartbeat_at`, `refresh_lease_expires_at`,
`active_generation_id`); `status` and `commitOf` are the committed generations; `rev`
the source revisions (their state, whether `snapshot_path` is set, whose claim names
`creating_path`, creation owner and lease); `creating` and `publish` the trees on disk,
each missing, partial or whole. `rowLock` and `genLock` say which session has locked the
repository row and each generation's row. Per worker, `pc` is what its request does next
and `cache` and `claim` are the repository and source revision rows *its session holds*.
A step that decides on a held row reads these; a step that reads the database reads
`repo` and `rev`. A flush writes the columns that differ from what the session loaded
(`FlushRow`, `FlushRevision`). `NewRow` in `cache` stands for a session that holds
nothing; no step reads it then.

One action stands for the code between two points where other sessions can interfere:

| Action | Code |
|---|---|
| `Join` | `index` after the probe: `_join`, repair of the paths, the read half of `reset_expired_refresh` |
| `ResetGens`, `ResetRow` | the commit of that reset, which locks generations, then the row |
| `Answer`, `PlanBuild` | `_apply`: serve or wait; start or adopt |
| `Fetch`, `FetchFails` | `fetch_branch` and the comparison of commits |
| `Start`, `StartRefused` | `ingest_commit` up to its commit, with recovery and claim of the tree |
| `Adopt`, `AdoptRefused` | `adopt_expired_refresh` |
| `Complete`, `CompleteRefused` | `complete_owned_refresh` up to its commit |
| `BeginWrite` ... `Publish` | the creation of the tree and the commit that publishes it |
| `Validate` | the check of a reused tree (also the last step before the lock after `Publish`) |
| `Acquire`, `Renew` | the first `_renew_lease`, which locks the row, and the later ones |
| `WriteDraft` | `write_draft`, which updates the generation's row |
| `Activate`, `CommitActivation`, `Finish` | graph, checks, vectors, `activate_generation`; its commit; what follows an early commit |
| `Fails`, `Rollback`, `AbortClaim`, `FailIfOwner` | the `except` of `_finish_generation` |
| `ResetDeadlock`, `FailDeadlock` | PostgreSQL aborts a session that waits in a cycle |
| `Crash` | the process dies: rollback, the disk stays |
| `Tick` | time passes for every deadline and heartbeat |

Abstracted here: the contents of a draft, of the graph and of vectors (steps that pass or
raise; see `GraphEpoch` and `Embedding`); `deleting` revisions (nothing in the repository calls
`claim_garbage_collection`, the only code that starts a deletion) and the pin of a served answer
(see `ReaderPins`); membership (see `Lifecycle`). The URL, branch and access are authorized.
The uniqueness of generation attempts makes a generation a value used once.

## What the runs check

| Run | Instance | Checks |
|---|---|---|
| `index_safety` | one user in two tabs, 2 commits, 2 generations, epochs to 2, lease 1, heartbeat stale at once | `TypeOK`, `ReadyIsActive`, `RunningNamesPending`, `ActivatorOwnsRefresh`, `ActivatesRefresh`, `ImplementsCutover` |
| `index_trees` | two users, 1 commit, 2 generations, epochs to 2, lease 2, heartbeat stale at once; `TimelySpec` | `OneCreator`, `PublishedWhole` |
| `index_progress` | two users, 1 commit, 1 generation, epochs to 2, lease 1, heartbeat stale at once; `FairSpec` | `RefreshEnds`, `RequestEnds` |
| `stores` | `Lifecycle` over 2 lives with 2 requests, of 2 clients or of one that also builds; `ReaderPins` with 1 question, 1 collector, 3 generations of 2 revisions, time to 2; `GraphEpoch` with 2 builders, 2 edges, epochs to 3, and with builders that lose their sessions, 1 edge, epochs to 2; 1 purge that has its clean-up to do (2.3M states) | `TypeOK`, `OneOwner`, `PurgeSparesNewRefresh`, `ActiveHasTree`, `PinnedStays`, `GraphWhole` |
| `ends` | `CursorBridge` with 2 requests for 1 slot; `ReaderPins`; `Question` with 2 questions of 2 symbols, from their second insertion on; `FileProducts` with a builder that is stopped and starts again; under fairness (ENDS states) | `SessionsEnd`, `QuestionsEnd`, `RequestsEnd`, `Finishes` |
| `draft` | ids; files; trees of 4 nodes; files of 5 bytes; imports; 2 mentions; 2 routes and 2 requests; 3 builders of the cache; 2 builders of vectors, 3 chunks, one put off, batches of 1; spellings of a URL (DRAFT states) | `Distinct`, `FilesAgree`, `ExtractedWhole`, `TargetsNamed`, `OneServer`, `OwnProducts`, `OneRepository` |
| `search` | 2 files, 2 words of a question; 4 points, lane limit 2, pages of 2; a graph of 7 nodes; fusion of 7 chunks, 2 hits per lane (one of 3), 2 neighbours, 2 named chunks; every choice of up to 3 of 10 chunks under 7 questions; 351 bodies, two branches deep; 10 spans under 15 plans, three passes (SEARCH states) | `PlanIsMeasured`, `NearestFirst`, `WalkIsBounded`, `LanesAgree`, `ChoiceIsWhole`, `FollowsTruly` |
| `requests` | 1 client, limit 2, window of 5 ticks, time to 7; a ring of 3; 2 questions of 2 symbols; 3 calls of the bridge for 2 slots; packets of up to 3 of 7 chunks; turns of 2 claims, alone and in a loop of 2 rounds (REQUESTS states) | `WindowBound`, `RetryAfterHolds`, `NewestInOrder`, `BodiesAreThere`, `ClaimsAreHonest`, `SlotsAreBack`, `PacketFits` |
| `active_is_ready`, `no_second_start`, `live_refresh_kept` | as `index_trees`, `Spec` | violated: `ActiveIsReady`, `NoSecondStart`, `LiveRefreshKept` |
| `question_answered` | `Question`, 1 question, 1 symbol | violated: `ServedIsAnswered` |

A property of a composite run is the conjunction of what its part promises; the comment above
it says what that is, and the component's module states each conjunct.

**Bounds of indexing.** All instances have two requests at a time (`Workers = {w1, w2}`; a
worker that ends can begin again, so there are unboundedly many requests in sequence). Two are
enough for every race of the code: each is between one builder and one other request. `Gens`
bounds the builds ever begun and `MaxEpoch` the epoch; both stop requests at the fetch
(`BuildBudget`), a state from which they can only fail; an adoption needs no new generation.
Two generations let one be active while another is built, retired by it, or failed under it;
epoch 2 lets a refresh be adopted or started over. One user in two tabs is the harder case for
safety, since the owner checks never tell the two apart; two users are the case in which the
code promises exclusive work trees. A lease of 1 with a heartbeat that is stale at once is the
coarsest clock on which a lease can be held, lapse and be renewed; the runs with lease 2 also
meet a stale heartbeat under an unexpired lease, as the code's two and ten minutes do.
`index_progress` has one build, which may be adopted, reset, failed or crashed in between; two
make the check of liveness too long. Generations, commits and the requests of one user are
symmetric where no liveness is checked.

**Other bounds.** `ReaderPins` needs three generations so that one of two revisions is
collected, rebuilt and read again, and a time of 2 so that a pin runs out before its hard
deadline and at it; one question and one collector are enough for each race of a pin with a
claim, and with the builder for each cycle of waits. `Lifecycle` needs two lives and two requests
for a join that spans a purge. `GraphEpoch` needs epoch 3 for a builder that is adopted, and a
successor, and one clean-up that is late. In `ends` the two questions start at their second
insertion (stage `edges`), where both insert the same two bodies in any order; from
their very start they have 6.7M states.
`Embedding` puts one chunk off and embeds two in batches of one, so that a build is interrupted
between batches and after its early activation; two generations that share chunks (3.2M
states) were checked too, as were larger instances of `Lifecycle` (12.5M) and `Relations` (20.4M). `RateLimit` fills the window twice within its time; a slot
for two requests makes one wait; a ring of three loses its oldest entry to a fourth. The
vector lane pages twice through four points; the walk crosses each kind of edge in both
directions; `Selection` has a symbol of four parts, a limit of two spans, a bonus of three, three
additions and two symbols per file; `Investigation` stops at two claims where the code stops at
eight. In `Chunking` an import may stand in a symbol, behind its first token; two imports do not
overlap. In `Symbols` the outline of the language pack is
any part of the declarations. The bodies
of `Branches` put every kind of statement with a branch into every arm of another. The
sequential parts read the limits of the code (spans per file, hops, tokens) scaled to these
sizes, so that each limit is reached and passed.

**`TimelySpec`.** The creation lease of a work tree is set once (ten minutes) and not renewed
while the tree is written. The run on work trees assumes that a creation, its publication and
the clean-up after its failure stay within that lease; without the assumption the code does
not promise exclusion. `ReaderPins` assumes the same of a deletion (`DeletionInLease`): a
finisher that is delayed past the lease of its own claim can delete a tree that was built again,
or that a later claim is deleting. `Spec` assumes nothing about time, and of the theorems only
`CreatorsApart`, `PublishedTreesWhole`, `ActiveTreeKept`, `DeletionsApart` and `PinnedStay` do.

**Fairness.** *Indexing:* a request that can take a step or whose next check fails does so (the
thread runs; strong fairness because row locks come and go, and PostgreSQL grants them in the
order they were asked for); time passes; index requests keep coming, since nothing but a later
request ends the refresh of a crashed process. No fairness is assumed of success: a fetch may
always fail, `Fails` may always happen, and a crash may always happen except that not every
request crashes before its reset. *`ends`:* handler threads of the bridge run and a client
whose timeout is over leaves; a row lock that is free again and again is granted, and PostgreSQL notices a
deadlock and fails one of those in it (which one is open); a question that serves is answered or
cancelled; the thread of a question runs; the builder and its pool run. No CLI is assumed to end: the bridge's own timeout
ends it. The assumption that a CLI's helpers stay in its process group is stated in
`CursorBridge`.

**Deadlock** is not checked where a system may really stop: requests that are all answered, or
a computation at its end.

## Where the repository says otherwise

Runs with a violation:

* `ActiveIsReady` ("Keeps the previous ready generation active until a new generation is
  ready", `src/README.md:17`): a reset lists the pending generations while a worker is about to
  commit its activation, then marks the now active one failed. Questions are answered "wait"
  until the next index. That `ReadyIsActive` holds all the same says what the code does
  guarantee: never two ready generations, and the active one is ready or was failed by such a
  reset.
* `NoSecondStart` ("a refresh is already running for this repository",
  `ingestion/pipeline.py:85`): the check reads the row the session loaded before its fetch.
* `LiveRefreshKept` ("True while an indexer is likely still running",
  `ingestion/coordination.py:16`): renewals stay uncommitted during a build.
* `ServedIsAnswered` ("Search one pinned generation and return cited claims",
  `retrieval/answer.py:1`): line 1157 extends a local name, `suffix`, that no path assigns. The
  question ends with an error before the model is called; the loop below (1148-1415) is not
  reached. `Turns`, `Packing` and `Investigation` model that loop as it stands.

Met while modelling, and kept in the models as the code has them:

* `inclusion.py:1059` reads `MAX_INDEXED_FILE_BYTES` and `BINARY_SNIFF_BYTES`, which nothing
  assigns: the first included file raises. `Inclusion` has both cases (`NamesSet`); all else
  assumes that they have a value. Table keys with two suffixes are never matched.
* Deletion (`repository_delete.py:54`) waits only for a build whose committed lease is fresh;
  the paths of a crashed creation stay on disk; the sweep removes a repository of which another
  member is active.
* `claims.py:139` pins a generation that the session loaded, also one retired and even claimed
  since: the check of `garbage_claim_at` reads the loaded copy. Such a pin protects nothing; `ReaderPins`
  calls it `overtaken`, and `PinnedStays` is about the others. The INSERT's foreign key locks the
  repository last, the collector locks it first: they may deadlock, and PostgreSQL fails one. The
  collector (`claim_garbage_collection`) has no caller, and renewals lie behind the error above.
* `refresh_service.py:365`, `:378` and `:380-384` are three reads. Between them a purge may delete the
  repository and another client index it anew; a client whose first read saw the former life and whose
  third saw no member yet is given the role of an owner, and no constraint refuses a second one.
  `OneOwner` is therefore about the members whose join began in the present life.
* `repository_delete.py:111-114` deletes the graph after the commit that deletes the rows. A new index
  of the URL has the same generation ids by then and may have written or activated its graph, which goes
  too; so may the builder of a former life write to it. `GraphWhole` excludes the generations to which
  that has happened (`lost`).
* `cli_runner.py:25` says that callers still get a generic "unavailable" error; output that is not UTF-8
  raises `UnicodeDecodeError` in `communicate()` (46, 49), which `cursor_bridge.py:225` does not catch: the
  connection is closed without an answer. `RequestsEnd` counts that as an end.
* `answer.py:1008` puts overview documents in front after the limit per file (991), so a file may be over
  it until the cap at 1055. `execution_trace.py:1043` stops at eight claims, so calls that were observed
  and packed after those are not claimed.
* `fusion.py:145` and `chunk_selection.py:390-408` cut a named symbol of many parts: what is
  promised of it (`NamedWhole`) is that only these two limits cost it a part.
* An import inside a function is in an import block and in the function's chunks (`chunking.py:159-170`).
* `claims.py:225` (`finish_worktree_deletion`) looks at the state of the revision only: a finisher whose
  claim was recovered after its lease takes the tree of a later claim as its own, whose lease is
  then not its own either. The timing assumption of `ReaderPins` is therefore stated on the lease
  the finisher's own claim was given (`InLease`); stated on the lease in the row it does not make
  the deletions exclusive.
* `rate_limit.py:1` speaks of fixed windows; the window slides (a stronger limit).
* `chunking.py:10` looks for ASCII letters: a gap in another script is no chunk.
* `assemble.py:989` tries `index.py` for a Python import; `relationship_resolve.py:415` gives a Go
  import the files of subdirectories; `:354` and `:372` resolve `self.a()` and a builtin's name
  to functions of the file.
* `protocol_links.py:56` and `:66` read a method option past the end of the call, and link a string
  that begins with `/api` whatever method was stated. Prefixes of Spring classes, Express mounts
  and `include_router` are not composed.
* `execution_trace.py:466` empties the blocked stages when the plan is grounded;
  `capabilities.py:75` counts `.jsx` as TypeScript; `execution_trace.py:850` names stages as missing
  that a later pass loads, `:1098` takes one of two definitions for the only one behind seven test
  doubles, `:1026` can claim another symbol of the file as the caller.
* `checkpoint.py:35` shares one temporary name, so an entry may be torn (and is parsed again).
* `packet.py:111` reports a symbol inside another as partly covered; `answer.py:1225` extends a
  header that was already counted.
* `chunk_selection.py:402` counts chosen parts against the window of a symbol's own parts.
* `graph_expand.py:118` follows protocol routes where line 100 says calls and references.
* After an early activation, the late deletion of a former life can take the points of rows that
  are already committed; a build that *finishes* after it is whole (`FinishedIsWhole`).
* `model_call.py:344-351` drops evidence ids that are malformed before the review: `HonestCitations` is about
  those that are well formed.
* `structure.py` records no call in the else of a loop, in a loop's or a `with` header, or to the
  right of an assignment that is not itself a call.

## What is proved

`IndexingProofs` proves, for every set of workers, users, commits and generations,
every assignment of users, every `MaxEpoch` and all durations:

| Theorem | Says |
|---|---|
| `TypeCorrect` | `Spec => []TypeOK` |
| `RunningRefreshCompletes` | `Spec => []RunningNamesPending` |
| `OneReadyGeneration` | `Spec => []ReadyIsActive` |
| `ActivationIsOwned` | `Spec => []ActivatorOwnsRefresh` |
| `OnlyRefreshActivates` | `Spec => ActivatesRefresh` |
| `IndexingImplementsCutover` | `Spec => ImplementsCutover` |
| `CreatorsApart` | `TimelySpec => []OneCreator`, if no user has two requests at once |
| `PublishedTreesWhole` | `TimelySpec => []PublishedWhole`, under the same condition |

They rest on `DurationAssumption` (`Coordination`) and `IndexingAssumption` (`Indexing`),
which TLC evaluates in every run.

The inductive invariant is `TypeInv /\ SafeInv`. `TypeOK` alone is not inductive:
`commitOf[gen[w]]` has a type only if a worker that finishes a build has a generation
that was begun. `TypeInv` adds `Anchored`: a request under way has a commit it wants, a
finishing worker a begun generation, a writer a claim with a directory, and every
generation a row names was begun. `SafeInv` adds the two facts that make held rows safe:

* `BuilderSees`: a worker that builds holds the row lock, so the row it holds agrees
  with the committed one in everything but the times, and names its generation;
* `ResetterSees`: a worker about to commit a reset saw a running refresh, so its UPDATE
  sets the state to idle whatever the row has become, and its victims are begun.

With these, an activation can only be of the committed refresh, and every step that
fails a generation also ends the refresh that names it. The step lemmas are grouped by
what they touch (`QuietStep`, `WriterStep`, `BuilderStep`, `LeavingStep`, ...), one lemma
for each action that changes the row or a status. The refinement proof shows that each
action is a `Begin`, a `GiveUp`, a `CutOver` or a stutter of `Cutover`.

`TreesInv`, on which the last two rest, says of every request what it may count on at each of its
steps: while it creates, the row names its claim, its user and a lease that has not run out
(`ClaimShown`), and its own copy says so too (`ClaimSeen`); from the promotion on its tree is whole;
what is published, what a question may read, and what a session holds a reusable copy of since
before its fetch, has its tree. `OneCreator` alone is far from inductive: the recovery of
`ingest_commit` decides on that copy. The lemmas show for each action that it spares published
trees and the claims of others (`SparesTrees`). With two requests of one user the theorem is
false, since claims are told apart by user (`index_safety` has that case); without the timing
assumption too.

`LifecycleProofs` proves, for any requests, clients, lives of a URL and refreshes,

| Theorem | Says |
|---|---|
| `TypeCorrect` | `Spec => []TypeOK` |
| `OneOwnerStays` | `Spec => []OneOwner` |
| `PurgeSparesRefresh` | `Spec => [][PurgeSparesNewRefresh]_vars` |

`_join` gives a role from three reads that its commit may find outdated. `SawRow` says what they are
worth: the join that inserts the row is alone with it and saw no member; one that found the row as it is
now saw a member, its own or another's. `OwnerKnown` says that while there is a row, of the
members whose join began with it exactly one is an owner; one that began before and ends up an owner
(see above) is of a former life, which `since` tells. `LateKnown` says that a purge
past its UPDATE is alone, and either loaded the row when the refresh was running or will fail on
rows that were added since. It rests on `LifecycleAssumption`.

`ReaderPinsProofs` proves, for any questions, collectors, generations and revisions,

| Theorem | Says |
|---|---|
| `TypeCorrect` | `Spec => []TypeOK`, and a question that is served or renews its pin has one |
| `ActiveTreeKept` | `DeletionInLease` and `Spec` imply `[]ActiveHasTree` |
| `DeletionsApart` | under the same assumption a deletion is the only one of its tree, and its row is as its claim left it |
| `PinnedStay` | `DeletionInLease` and `Spec` imply `[]PinnedStays` |

The invariant `Deletions` ties a deletion to the lease its own claim was given, which is what
the exclusion of a recovery and of a second claim follows from; `BuildState` that the generation
that is built is not the active one, and has its revision, so that no claim takes the tree from
under it. `PinnedStay` needs the locks: a collector counts pins in one step, decides on the tree
in another and commits in a third, and a pin is decided on and written in two. `LocksHeld` says which
rows a session at each step holds; `InFlight` that what a collector has counted is still so
until its commit, since a pin of the generation needs the generation's row and one of another
generation of the tree needs the revision's; `ReadyTrees` that a ready revision has its tree; `PinsHold` that a
pin not written over a claim has its generation and its revision. It rests on `PinsAssumption`.

`GraphEpochProofs` proves, for any builders, edges, epochs and attempts, `TypeCorrect` and
`GraphStaysWhole` (`Spec => []GraphWhole`), for builders that keep their session and for builders that
lose it between two statements and go on, beside any purges and builders of former lives. `Refreshes`:
a builder that is of no former life has an epoch that this life has given out, the owner of the refresh
builds its last attempt, and no builder of a former life owns it; `Holder`: who holds the row owns the refresh, and is of this life, as a purge waits for it;
`Checked`: what the holder has verified stays, as nobody else of its life has a newer epoch, unless a
former life has touched the generation (`lost`); `ActiveIsNewest`: no builder of this life has
a newer epoch than the edges of the active generation it writes to, so that a late prune takes none.
It rests on `EpochAssumption`.

`StoresProofs` has the theorems of these three as they stand for the composite that `stores` checks
(`TypeCorrect`, `OneOwnerStays`, `PurgeSparesRefresh`, `ActiveTreeKept`, `PinnedStay`,
`GraphStaysWhole`: one for each property of the run, for any constants that satisfy
`StoresAssumption`). `part` is chosen once, so a behaviour of the composite is one of the chosen component, and the
component's theorem is cited for it.

`RequestsProofs` proves, for every set of clients, limit, window and clock rate, any questions and
any finite set of bodies, a ring of any size, any finite set of calls of the bridge and number of slots, any
spans, sizes and budgets of a packet, any replies of the model and any number of rounds,

| Theorem | Says |
|---|---|
| `WindowNeverExceeded` | `Spec => []WindowBound`: no window of an address and rule has more than the limit |
| `RetryAfterKept` | `Spec => []RetryAfterHolds`: who waits as told, and the second cut off, is let through |
| `BodiesAreKept` | `SharedSpec => []BodiesAreThere`: types, `ReadyHasPoint` and `HydratedIsSearched` of `Question` |
| `NewestAreGiven` | `SharedSpec => []NewestInOrder`: a reader of `LogBuffer` is given the newest entries that match, up to its limit, in order |
| `SlotsStayWhole` | `SharedSpec => []SlotsAreBack`: types, `SlotsConserved` and `AtMostSlots` of `CursorBridge` |
| `PacketsStayFit` | `SharedSpec => PacketFits`: types, `NoOverlap`, `OptionalWithinCaps` and `MissingIsTold` of `Packing` always, `NeverDisplaced` and `CountedFits` of each of its steps |
| `ClaimsStayHonest` | `SharedSpec => []ClaimsAreHonest`: types, `CallsBounded`, `HonestCitations` and `FirstKept` of `Turns`, for both callers |

None is inductive. `SlidingLog` adds that the times in a deque never decrease and are not
ahead of the clock, that what was popped is a window old, and that no deque is longer than the
limit; `Promise` that what a refused client waits for leaves the window in time. They rest on
`LimitAssumption` (a limit of 0 makes `_consume` raise) and `TimeAssumption`. In `Question` a body is
marked ready in two steps, after its vector was stored (`MarksHavePoints`), by a job whose session is usable
(`JobUsable`: an error of PostgreSQL ends the job, and nothing begins another before the rollback), and what
was hydrated is committed (`HydratedCommitted`).

In `LogBuffer` the ring is the newest of all that was logged (`LogInv`), so the rows a reader copied are
the newest of what had been logged when it copied them. Its answer goes up through the positions it is
due: what a comprehension leaves of a list is the list of the elements at the places it keeps
(`ThoseList`), and how many of these are later than one of them is counted along that list
(`CountedAround`), which identifies it with the entry `NewestMatching` names. In `Turns`, `TurnsBudget`
bounds the calls by the rounds spent and the stage reached; `TurnsPayload` says that what goes to
the review is the good claims of the last reply, and that a first reply which cites the packet is
not left before it.

Both need induction over a list, which the library's theorems cannot be used for here. `PrefixesExist` and
`OnePlaceMore` argue by a least counterexample instead (`WFMin` with `NatLessThanWellFounded`). That
works for the recursive function `Those` in `Lists`, and is why these modules filter with it: the
prover cannot expand the `SelectSeq` of the standard modules.

In `CursorBridge` slots and holders always add up, and a CLI that is alive belongs to a holder (`OwnedCli`), so
there are never more than the slots. In `Packing` the order of packing lists every number once, the required
ones first (`RequiredFirst`), and everything kept or left out stands in it before the place that is reached
(`PackTaken`): so nothing optional is in the packet when a required part finds no room. What is kept does
not overlap pairwise (`PackApart`), and a symbol with a byte missing has a part missing, which is what
`_incomplete_target_records` counts.

`ReuseProofs` proves

| Theorem | Says |
|---|---|
| `NamesDistinct` | `Spec => []Distinct`: for every set of entities, words for types and sizes of parts, two entities are hashed from the same bytes only if they are the same |
| `CacheIsOwn` | types, `OwnProducts` and `CacheIsSound` of `FileProducts`, for any builders, files, keys, inodes and window |
| `VectorsAreThere` | types, `ReadyHasPoint`, `FinishedIsWhole` and `EmbeddedFirst` of `Embedding`, for any builders, catalogue, deferred chunks and batch |
| `ProductsAreOwn` | `ReuseSpec => []OwnProducts`: the two together, as `draft` checks them |
| `FilesAgreeAlways` | `ReuseSpec => []FilesAgree`: for any set of files and number of them in a commit, what is listed was written and validated, with the bytes of the blob, and what the parser is given is what `select_adapter` names |
| `RepositoriesAreOne` | `ReuseSpec => []OneRepository`: for any URLs and paths, each accepted spelling of a repository gives one stored URL, `http` stays on this machine, a prefix shows its symbol and a fingerprint names one collection |
| `LinksAreCertain` | `ReuseSpec => []OneServer`: for any handlers, manifests and requests, a link is to the one route that may answer it, and reading routes and requests backwards gives the same links |

* `Identity`: a frame can be peeled off the front of what is hashed because its length stands before its
  payload; the type is peeled first, then each component. It rests on the assumptions of `Identity`: the
  words of types are distinct, and a length or number fits the four bytes the code packs it in. That
  SHA-1 keeps different bytes apart is outside the model.
* `FileProducts`: under each key there are an older version, a torn file or the key's own product
  (`CacheInv`); each file of a builder is a product, in the pool, or still on its list of the
  missing (`Gathered`), and the window bounds what is submitted (`Ordered`).
* `Inclusion`: the tree is written, validated and listed under one rule, so `FilesInv` says of each
  file before the place a pass has reached that it stands with its blob's bytes exactly if the rule takes
  it. A file is parsed with a language that one of three tables gives for its suffixes; that these agree
  (`TablesAgree`, suffix by suffix) rests on `InclusionAssumption`: the suffixes of a name hold
  no dot, no manifest has a suffix that a walker reads (`_is_manifest`, `inclusion.py:1006`), and the
  external pack's names for a suffix are the catalogue's or one of the walkers'.
* `Names`: the endings come off a spelling in one order, so a second pass finds none (`EndingsGo`,
  `SpelledOnce`); `http` stays only for a loopback host (`HttpStays`); a prefix is the path and what
  stands after it (`ShownAfter`). `NamesAssumption` is about the shape of the inputs only.
* `Routes`: a link is made of a hit for which exactly one place in the list of routes fits (`Fits`, `Makes`), so
  the places of the reversed list that fit are the mirrored ones (`FitsTurned`). The links are the elements of
  lists that are joined and read once (`JoinedList`, `OnceList`, by a least counterexample, as in `RequestsProofs`).
  `RoutesAssumption`: the methods of a handler are finitely many.
* `Embedding`: `BatchInv` says what of its batch a builder has stored at each step, and
  `CatalogueInv` that each chunk is marked or still on its list; `AskingInv` and `HolderInv` say the
  same of a question that embeds and of the row's lock. What was stored stays until the late
  deletion; after it, `since` counts what is there again, which a build that finishes has all of.

`SearchProofs` proves, for every index, graph, question and limit,

| Theorem | Says |
|---|---|
| `NearestComeFirst` | `SearchSpec => []NearestFirst`: the hits of `VectorLane` are ready chunks of this generation, each once, nothing nearer is skipped, and a lane that ends below its limits has all of them |
| `PlansAreMeasured` | `SearchSpec => []PlanIsMeasured`: calls are followed only where the index resolved one, nothing rests on the report of another generation, and each stage is in one list |
| `WalksAreBounded` | `SearchSpec => []WalkIsBounded`: what is found is within the hops; without a cut nothing within them is missed, up to the limit; an anchor's edges go first |
| `LanesAreFused` | `SearchSpec => []LanesAgree`: an anchor no lane ranks behind another comes first, a symbol hit by its name keeps all of itself in source order, no chunk a lane hit is lost or repeated, and what only the graph knows comes last unless the question names its file |

* `VectorLane`: the index only grows while pages are read, until it is dropped, and keeps its order
  (`LaneFirst`); so whatever was there at the start and stands before the offset has been read (`ReadTo`), and
  what stood before a chunk of the page was read or is on the page before it (`NoneNearer`). A page is a slice
  of a list without repetition, and a list that grew by one (`Longer`) is without repetition again.
* `Capability`: a strategy follows from its facet, the facet from the coverage of a language, the
  coverage from the sites that were counted; `PlanLists` says that the stages are divided between what is
  supported, missing and blocked.
* `GraphWalk`: what was visited after a hop is what that many hops reach (`WalkReach`); the edges that a hop
  does not ask for again lie between nodes visited before (`Closed`). The sort key of the edges is a
  total order, since ids differ, so how many are shown can be counted by their ranks (`TopOf`): the
  ranks in a finite set of `n` are an injection into the numbers below `n`.
* `Fusion`: a sort is the list whose i-th element has i - 1 before it (`Ranked`, `RankedList`), so the
  ranks above say what it returns. A better rank is a larger share (`SharesFall`), and sums keep
  it (`ScoresAgree`): `Dominates` forces the order of the scores. A symbol without a chunk of its own
  among the hits enters as one group; if a part of it was hit as the chunk of its file, that is its first part
  (`FirstPart`), so the group stays in source order whichever comes first. `FusionInv` adds that
  before the graph is asked nothing is `OnlyNear`, and that neighbours are appended after the rest.

It rests on `SearchAssumption`: the chunks and edges are finite, a page is not empty, an edge's ends are
nodes and its id is its own, the words of a question are cues of known stages; the parts of a symbol have
different ordinals and one file, a hit is of one of the three kinds the lanes make (`Hits`), a lane has a limit,
and scores are whole multiples of `1 / Unit` (the code adds floats; `Unit` is a multiple of every `60 + rank`).

The assumption of a component that no MC module extends is a definition (`LifecycleAssumption`,
`PinsAssumption`, `ProductsAssumption`, ...) and a hypothesis of its theorems. `StoresAssumption`,
`ReuseAssumption` and `SharedAssumption` assume it of the composites' instances, so that TLC
evaluates it for the constants of the runs.

### Only model-checked

* Liveness (`RefreshEnds`, `RequestEnds`, `SessionsEnd`, `QuestionsEnd`, `RequestsEnd`, `Finishes`):
  liveness under fairness and ENABLED are out of the prover's reach.
* What folds, `SelectSeq` and recursive operators compute for every input. The library's theorems on induction
  take an operator as a parameter, which the installed provers cannot instantiate, and they
  do not expand these definitions. A least counterexample replaces induction where a module
  is written with recursive functions (see `RequestsProofs`). The modules behind `ExtractedWhole`,
  `TargetsNamed` (`draft`) and behind `ChoiceIsWhole` and `FollowsTruly`
  (`search`) are not: they walk trees, or fold a list into an accumulator.

## Not modelled

* Upstream Git (`upstream.py`): its results are inputs; the classification of its errors reads text.
* Grammars and queries of tree-sitter, manifests of projects and technologies, the lexical index,
  scores made from words: tables and text, taken as inputs in `Symbols`, `Capability`, `Fusion` and `Selection`.
* What stands beside a modelled step: the anchors of a trace and the seeds of an investigation that are put in
  front of the fused list (`answer.py:875`, `:891`); a URL with an empty user (`https://@host`); an
  ambiguous import of a bare package name, which the code makes external, is checked for calls only.
* Prompts and the prose of answers; `structure_decision` and `compose_model_answer` have only tests
  as callers (the latter is `caller = "compose"` in `Turns`).
* Providers other than Cursor's: one HTTP call or one CLI run each.
* Routing, settings, schema upgrades, the evaluation harness, scripts and the frontend.

## Plan

1. Proofs: `Relations` and `Selection` with their filters and sorts written over `Ranked` and
   `Picked`, as in `Fusion`; then the rest of `search` and `draft`.
2. An abstract specification of a repository's life (what a client has indexed stays until it
   leaves), refined by `Lifecycle`.
3. `expansion.py`, `catalog_context.py` and `question_intent.py`, as far as control is in them.
