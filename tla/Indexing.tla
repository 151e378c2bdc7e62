------------------------------ MODULE Indexing ------------------------------
(***************************************************************************)
(* One repository being indexed by concurrent requests: the repository row *)
(* with its refresh lease, the generations, the source revisions and their *)
(* work trees on disk, and the SQLAlchemy sessions of the workers.         *)
(*                                                                         *)
(* A worker is one request (RefreshService.index) with its session.  The   *)
(* session keeps the rows it has loaded until its next commit or rollback: *)
(* SELECT ... FOR UPDATE locks a row but does not reload an object the     *)
(* session already holds.  "cache" is the repository row so held and       *)
(* "claim" the source revision so held; a step that decides on a held row  *)
(* reads them, a step that reads the database reads "repo" and "rev".      *)
(* Rows a session has changed and not committed stay in its cache; the     *)
(* row locks they hold are rowLock (repository) and genLock (generation).  *)
(***************************************************************************)
EXTENDS Coordination, FiniteSets

CONSTANTS
    Workers,      \* requests that may run at once
    Users,
    Commits,      \* heads the tracked branch may have
    Gens,         \* generations that may ever be built: bounds the number of builds
    MaxEpoch,     \* bound on refresh_epoch
    User,         \* User[w]: the user who sends request w
    None          \* SQL NULL; also "nobody" for locks

ASSUME IndexingAssumption ==
    /\ User \in [Workers -> Users]
    /\ None \notin Workers \cup Users \cup Commits \cup Gens
    /\ MaxEpoch \in Nat \ {0}

VARIABLES
    repo,       \* the committed repository row
    status,     \* generation -> its status, "none" before it is inserted
    commitOf,   \* generation -> the commit it indexes
    rev,        \* commit -> its source revision row
    creating,   \* commit -> worker -> the tree at that claim's creating path
    publish,    \* commit -> the tree at the revision's publish path
    rowLock,    \* the session that has locked the repository row
    genLock,    \* generation -> the session that has updated its row
    pc,         \* worker -> what its request does next
    want,       \* worker -> the remote head its request saw, until it has a build
    cache,      \* worker -> the repository row its session holds
    claim,      \* worker -> the source revision its session holds
    gen,        \* worker -> the generation it builds
    epoch,      \* worker -> the epoch it builds under
    victims     \* worker -> the pending generations a reset has listed

disk == <<creating, publish>>
locks == <<rowLock, genLock>>
session == <<want, cache, claim, gen, epoch, victims>>
vars == <<repo, status, commitOf, rev, disk, locks, pc, session>>

-----------------------------------------------------------------------------
Statuses == {"none", "pending", "ready", "failed", "retired"}

RepositoryRow ==
    [state : {"idle", "running"}, gen : Gens \cup {None},
     owner : Users \cup {None}, epoch : 0..MaxEpoch,
     heartbeat : HeartbeatAge, lease : TimeLeft, active : Gens \cup {None}]

\* path: snapshot_path is set (it is always the publish path).
\* dir: the worker whose claim names creating_path.
RevisionRow ==
    [state : {"absent", "creating", "ready"}, path : BOOLEAN,
     dir : Workers \cup {None}, owner : Users \cup {None}, lease : TimeLeft]

Tree == {"missing", "partial", "whole"}

\* A worker between its first renewal and its activation commit.
Building == {"build", "draft", "activated"}

PCs == {"idle", "resetGens", "resetRow", "plan", "fetchStart", "fetchAdopt",
        "start", "adopt", "complete", "write", "writing", "promote", "publish",
        "validate", "acquire", "defer", "rollback", "abort", "fail"} \cup Building

TypeOK ==
    /\ repo \in RepositoryRow
    /\ status \in [Gens -> Statuses]
    /\ commitOf \in [Gens -> Commits \cup {None}]
    /\ rev \in [Commits -> RevisionRow]
    /\ creating \in [Commits -> [Workers -> Tree]]
    /\ publish \in [Commits -> Tree]
    /\ rowLock \in Workers \cup {None}
    /\ genLock \in [Gens -> Workers \cup {None}]
    /\ pc \in [Workers -> PCs]
    /\ want \in [Workers -> Commits \cup {None}]
    /\ cache \in [Workers -> RepositoryRow]
    /\ claim \in [Workers -> RevisionRow \cup {None}]
    /\ gen \in [Workers -> Gens \cup {None}]
    /\ epoch \in [Workers -> 0..MaxEpoch]
    /\ victims \in [Workers -> SUBSET Gens]

NewRow == [state |-> "idle", gen |-> None, owner |-> None, epoch |-> 0,
           heartbeat |-> 0, lease |-> 0, active |-> None]

AbsentRevision ==
    [state |-> "absent", path |-> FALSE, dir |-> None, owner |-> None, lease |-> 0]

Init ==
    /\ repo = NewRow
    /\ status = [g \in Gens |-> "none"]
    /\ commitOf = [g \in Gens |-> None]
    /\ rev = [c \in Commits |-> AbsentRevision]
    /\ creating = [c \in Commits |-> [w \in Workers |-> "missing"]]
    /\ publish = [c \in Commits |-> "missing"]
    /\ rowLock = None
    /\ genLock = [g \in Gens |-> None]
    /\ pc = [w \in Workers |-> "idle"]
    /\ want = [w \in Workers |-> None]
    /\ cache = [w \in Workers |-> NewRow]
    /\ claim = [w \in Workers |-> None]
    /\ gen = [w \in Workers |-> None]
    /\ epoch = [w \in Workers |-> 0]
    /\ victims = [w \in Workers |-> {}]

-----------------------------------------------------------------------------
(* Rows *)

Idle(row) ==
    [row EXCEPT !.state = "idle", !.gen = None, !.owner = None, !.lease = 0]

\* refresh_lease_held for a row a session holds.
Held(row) == RefreshLeaseHeld(row.lease, row.heartbeat)

\* reset_expired_refresh has something to reset; the mutant resets no refresh that
\* has an owner.
ExpiredUnowned(row) == row.state = "running" /\ ~Held(row) /\ row.owner = None
Expired(row) == row.state = "running" /\ ~Held(row)

\* The row reset_expired_refresh leaves.
Reset(row) == [Idle(row) EXCEPT !.heartbeat = 0]

\* The row ingest_commit leaves for its new generation g, adopt_expired_refresh for
\* its new owner, and activate_generation for what it activates.
Started(row, g, w) ==
    [row EXCEPT !.state = "running", !.gen = g, !.owner = User[w], !.epoch = @ + 1,
                !.heartbeat = 0, !.lease = LEASE]
Adopted(row, w) ==
    [row EXCEPT !.owner = User[w], !.epoch = @ + 1, !.heartbeat = 0, !.lease = LEASE]
Served(row, g) == [Idle(row) EXCEPT !.active = g, !.heartbeat = 0]

\* activate_generation and _retire_previous; the mutant does not retire.
ActivatedOnly(g, previous) == [status EXCEPT ![g] = "ready"]
Activated(g, previous) ==
    [h \in Gens |-> IF h = g THEN "ready"
                    ELSE IF h = previous THEN "retired" ELSE status[h]]

Pending == {g \in Gens : status[g] = "pending"}

\* A revision whose published tree passes validate_worktree_bytes.
SourceValid(c) == rev[c].state = "ready" /\ rev[c].path /\ publish[c] = "whole"

\* The claim of claim_snapshot on a revision that is not ready; its mutant keeps
\* the request for the user.
ClaimedByRequest(r, w) ==
    [r EXCEPT !.state = "creating", !.dir = w, !.owner = w, !.lease = LEASE]
Claimed(r, w) ==
    [r EXCEPT !.state = "creating", !.dir = w, !.owner = User[w], !.lease = LEASE]

Unclaimed(r) == [r EXCEPT !.dir = None, !.owner = None, !.lease = 0]

\* The repository row, or generation g for session w, is not locked by another
\* session; the mutant is a SELECT without FOR UPDATE.
RowUnlocked == TRUE
RowFree == rowLock = None
GenFree(w, g) == genLock[g] \in {None, w}

\* The generations when session w has ended its transaction; the mutant leaves the
\* transaction open.
StillLocked(w) == genLock
Unlocked(w) == [g \in Gens |-> IF genLock[g] = w THEN None ELSE genLock[g]]

\* The request ends: its session is closed and forgets what it held.
EndRequest(w) ==
    /\ pc' = [pc EXCEPT ![w] = "idle"]
    /\ want' = [want EXCEPT ![w] = None]
    /\ cache' = [cache EXCEPT ![w] = NewRow]
    /\ claim' = [claim EXCEPT ![w] = None]
    /\ gen' = [gen EXCEPT ![w] = None]
    /\ epoch' = [epoch EXCEPT ![w] = 0]
    /\ victims' = [victims EXCEPT ![w] = {}]

Goto(w, from, to) ==
    /\ pc[w] = from
    /\ pc' = [pc EXCEPT ![w] = to]

\* An UPDATE writes the columns whose value differs from the one the session
\* holds; the times are assigned anew by every operation that assigns them.
FlushRow(db, held, new) ==
    [state |-> IF new.state = held.state THEN db.state ELSE new.state,
     gen |-> IF new.gen = held.gen THEN db.gen ELSE new.gen,
     owner |-> IF new.owner = held.owner THEN db.owner ELSE new.owner,
     epoch |-> IF new.epoch = held.epoch THEN db.epoch ELSE new.epoch,
     heartbeat |-> new.heartbeat,
     lease |-> new.lease,
     active |-> IF new.active = held.active THEN db.active ELSE new.active]

\* A claim's creating path is a fresh name even when its worker had one before.
FlushRevision(db, held, new) ==
    [state |-> IF new.state = held.state THEN db.state ELSE new.state,
     path |-> IF new.path = held.path THEN db.path ELSE new.path,
     dir |-> IF new.dir = None /\ held.dir = None THEN db.dir ELSE new.dir,
     owner |-> IF new.owner = held.owner THEN db.owner ELSE new.owner,
     lease |-> IF new.lease = 0 /\ held.lease = 0 THEN db.lease ELSE new.lease]

-----------------------------------------------------------------------------
(* POST /repository up to the decision to build *)

\* repair_repository_data_paths: a ready revision whose tree is gone is absent.
Repaired(c) ==
    IF rev[c].state = "ready" /\ rev[c].path /\ publish[c] = "missing"
    THEN [rev[c] EXCEPT !.state = "absent", !.path = FALSE, !.dir = None]
    ELSE rev[c]

\* index, up to the first half of _prepare_repository: the probe returned head c,
\* _join committed and reloaded the row, the paths are repaired, and
\* reset_expired_refresh reads the row and lists the pending generations.
Join(w) ==
    /\ pc[w] = "idle"
    /\ \E c \in Commits : want' = [want EXCEPT ![w] = c]
    /\ rev' = [c \in Commits |-> Repaired(c)]
    /\ cache' = [cache EXCEPT ![w] = repo]
    /\ victims' = [victims EXCEPT ![w] = IF Expired(repo) THEN Pending ELSE {}]
    /\ pc' = [pc EXCEPT ![w] = IF Expired(repo) THEN "resetGens" ELSE "plan"]
    /\ UNCHANGED <<repo, status, commitOf, disk, locks, claim, gen, epoch>>

\* The commit of reset_expired_refresh updates the generations first: it waits
\* for their row locks and holds them.
ResetGens(w) ==
    /\ pc[w] = "resetGens"
    /\ \A g \in victims[w] : GenFree(w, g)
    /\ genLock' = [g \in Gens |-> IF g \in victims[w] THEN w ELSE genLock[g]]
    /\ pc' = [pc EXCEPT ![w] = "resetRow"]
    /\ UNCHANGED <<repo, status, commitOf, rev, disk, rowLock, session>>

\* It then updates the repository row, commits, and reloads the row.
ResetRow(w) ==
    /\ pc[w] = "resetRow"
    /\ RowFree
    /\ repo' = FlushRow(repo, cache[w], Reset(cache[w]))
    /\ status' = [g \in Gens |-> IF g \in victims[w] THEN "failed" ELSE status[g]]
    /\ genLock' = Unlocked(w)
    /\ cache' = [cache EXCEPT ![w] = repo']
    /\ victims' = [victims EXCEPT ![w] = {}]
    /\ pc' = [pc EXCEPT ![w] = "plan"]
    /\ UNCHANGED <<commitOf, rev, disk, rowLock, want, claim, gen, epoch>>

\* The active generation already is the wanted commit and its tree is intact.
ActiveServes(w) ==
    LET g == cache[w].active IN
    /\ g # None
    /\ status[g] = "ready"
    /\ commitOf[g] = want[w]
    /\ SourceValid(want[w])

Decision(w) == BuildPlan(ActiveServes(w), cache[w].state, Held(cache[w]))

\* _apply, when no build is due: the request answers "serve" or "wait".
Answer(w) ==
    /\ pc[w] = "plan"
    /\ Decision(w) \in {"serve", "wait"}
    /\ EndRequest(w)
    /\ UNCHANGED <<repo, status, commitOf, rev, disk, locks>>

\* _apply, when a build is due.  The session goes on holding the repository row
\* and, if it is the wanted commit's, the active generation's revision, which a
\* start reads (an adoption commits before it reads a revision).
PlanBuild(w) ==
    LET g == cache[w].active IN
    /\ pc[w] = "plan"
    /\ Decision(w) \in {"start", "adopt"}
    /\ pc' = [pc EXCEPT ![w] =
                 IF Decision(w) = "start" THEN "fetchStart" ELSE "fetchAdopt"]
    /\ claim' = [claim EXCEPT ![w] =
                    IF g # None /\ commitOf[g] = want[w] /\ Decision(w) = "start"
                    THEN rev[want[w]] ELSE None]
    /\ UNCHANGED <<repo, status, commitOf, rev, disk, locks,
                   want, cache, gen, epoch, victims>>

Unbuilt == {g \in Gens : status[g] = "none"}

\* Bounds, of the model and not of the code: epochs left and, to start a build,
\* generations left.
BuildBudget(w) ==
    /\ cache[w].epoch < MaxEpoch
    /\ pc[w] = "fetchStart" =>
         Cardinality(Unbuilt) > Cardinality({v \in Workers : pc[v] = "start"})

\* fetch_branch returned the head the probe saw.
Fetch(w) ==
    /\ pc[w] \in {"fetchStart", "fetchAdopt"}
    /\ BuildBudget(w)
    /\ pc' = [pc EXCEPT ![w] = IF pc[w] = "fetchStart" THEN "start" ELSE "adopt"]
    /\ UNCHANGED <<repo, status, commitOf, rev, disk, locks, session>>

\* The fetch failed, or the branch had moved on: 500 or 503.
FetchFails(w) ==
    /\ pc[w] \in {"fetchStart", "fetchAdopt"}
    /\ EndRequest(w)
    /\ UNCHANGED <<repo, status, commitOf, rev, disk, locks>>

-----------------------------------------------------------------------------
(* Taking a work tree: recover_creating_snapshot and claim_snapshot *)

DirTree(c, r) == IF r.dir = None THEN "missing" ELSE creating[c][r.dir]

Discards(c, r) ==
    /\ r.state = "creating"
    /\ CreationRecoveryAction(publish[c] # "missing", DirTree(c, r) # "missing",
                              publish[c] = "whole") = "discard"

\* The revision r as recover_creating_snapshot leaves it.
Recovered(c, r) ==
    IF r.state # "creating" THEN r
    ELSE IF Discards(c, r)
         THEN [Unclaimed(r) EXCEPT !.state = "absent", !.path = FALSE]
         ELSE [Unclaimed(r) EXCEPT !.state = "ready", !.path = TRUE]

Reusable(r) == r.state = "ready" /\ r.path

\* Worker w recovers the revision its session sees as r and then reuses its
\* published tree or claims the creation of a new one.
TakeTree(w, c, r) ==
    LET found == Recovered(c, r)
        taken == IF Reusable(found) THEN found ELSE Claimed(found, w)
    IN
    /\ rev' = [rev EXCEPT ![c] = FlushRevision(rev[c], r, taken)]
    /\ creating' = [creating EXCEPT ![c] = [v \in Workers |->
                       IF \/ Discards(c, r) /\ v = r.dir
                          \/ ~Reusable(found) /\ v = w
                       THEN "missing" ELSE creating[c][v]]]
    /\ publish' = [publish EXCEPT ![c] =
                      IF Discards(c, r) /\ ~r.path THEN "missing" ELSE publish[c]]
    /\ pc' = [pc EXCEPT ![w] = IF Reusable(found) THEN "validate" ELSE "write"]

\* recover_creating_snapshot raises: 409 "creation claim is still held".
TreeRefused(w, r) == r.state = "creating" /\ ClaimHeldByOther(r.lease, r.owner, User[w])

-----------------------------------------------------------------------------
(* ingest_commit, adopt_expired_refresh and complete_owned_refresh.  Each  *)
(* locks the repository row first and holds it until its commit.           *)

\* The revision ingest_commit sees: the one still held since _apply, or a fresh one.
SeenRevision(w) == IF claim[w] # None THEN claim[w] ELSE rev[want[w]]

StartRefused(w) ==
    /\ pc[w] = "start"
    /\ RowFree
    /\ cache[w].state = "running" \/ TreeRefused(w, SeenRevision(w))
    /\ EndRequest(w)
    /\ UNCHANGED <<repo, status, commitOf, rev, disk, locks>>

\* ingest_commit up to the commit that makes the pending generation visible.
Start(w) ==
    LET row == cache[w] IN
    /\ pc[w] = "start"
    /\ RowFree
    /\ row.state # "running"
    /\ ~TreeRefused(w, SeenRevision(w))
    /\ row.epoch < MaxEpoch
    /\ \E g \in Unbuilt :
         /\ repo' = FlushRow(repo, row, Started(row, g, w))
         /\ status' = [status EXCEPT ![g] = "pending"]
         /\ commitOf' = [commitOf EXCEPT ![g] = want[w]]
         /\ gen' = [gen EXCEPT ![w] = g]
    /\ epoch' = [epoch EXCEPT ![w] = row.epoch + 1]
    /\ TakeTree(w, want[w], SeenRevision(w))
    /\ cache' = [cache EXCEPT ![w] = NewRow]
    /\ claim' = [claim EXCEPT ![w] = None]
    /\ want' = [want EXCEPT ![w] = None]
    /\ UNCHANGED <<locks, victims>>

\* 409 "the refresh lease is still held": the heartbeat was stale, the lease not.
AdoptRefused(w) ==
    /\ pc[w] = "adopt"
    /\ RowFree
    /\ cache[w].state # "running" \/ cache[w].gen = None \/ cache[w].lease > 0
    /\ EndRequest(w)
    /\ UNCHANGED <<repo, status, commitOf, rev, disk, locks>>

\* adopt_expired_refresh commits and reads the row again to return its epoch.
Adopt(w) ==
    LET row == cache[w] IN
    /\ pc[w] = "adopt"
    /\ RowFree
    /\ row.state = "running" /\ row.gen # None /\ row.lease = 0
    /\ row.epoch < MaxEpoch
    /\ repo' = FlushRow(repo, row, Adopted(row, w))
    /\ cache' = [cache EXCEPT ![w] = repo']
    /\ claim' = [claim EXCEPT ![w] = None]
    /\ pc' = [pc EXCEPT ![w] = "complete"]
    /\ want' = [want EXCEPT ![w] = None]
    /\ UNCHANGED <<status, commitOf, rev, disk, locks, gen, epoch, victims>>

\* The row the session holds still names a refresh of this user to complete.
MayComplete(w) ==
    LET row == cache[w] IN
    /\ row.state = "running" /\ row.owner = User[w] /\ row.lease > 0
    /\ row.gen # None
    /\ status[row.gen] = "pending"

CompleteRefused(w) ==
    /\ pc[w] = "complete"
    /\ RowFree
    /\ MayComplete(w) => TreeRefused(w, rev[commitOf[cache[w].gen]])
    /\ EndRequest(w)
    /\ UNCHANGED <<repo, status, commitOf, rev, disk, locks>>

\* complete_owned_refresh up to its commit.
Complete(w) ==
    LET row == cache[w] IN
    /\ pc[w] = "complete"
    /\ RowFree
    /\ MayComplete(w)
    /\ ~TreeRefused(w, rev[commitOf[row.gen]])
    /\ TakeTree(w, commitOf[row.gen], rev[commitOf[row.gen]])
    /\ gen' = [gen EXCEPT ![w] = row.gen]
    /\ epoch' = [epoch EXCEPT ![w] = row.epoch]
    /\ cache' = [cache EXCEPT ![w] = NewRow]
    /\ UNCHANGED <<repo, status, commitOf, locks, want, claim, victims>>

-----------------------------------------------------------------------------
(* _finish_generation: the work tree *)

Target(w) == commitOf[gen[w]]

\* write_detached_tree starts over in the creating path of the claim it reads.
BeginWrite(w) ==
    LET c == Target(w) IN
    /\ Goto(w, "write", "writing")
    /\ rev[c].dir # None
    /\ claim' = [claim EXCEPT ![w] = rev[c]]
    /\ creating' = [creating EXCEPT ![c][rev[c].dir] = "partial"]
    /\ UNCHANGED <<repo, status, commitOf, rev, publish, locks,
                   want, cache, gen, epoch, victims>>

\* The tree is written and passes validate_worktree_bytes.  A directory removed
\* under the writer may be made again by the files still to be written.
FinishWrite(w) ==
    /\ Goto(w, "writing", "promote")
    /\ creating' = [creating EXCEPT ![Target(w)][claim[w].dir] = "whole"]
    /\ UNCHANGED <<repo, status, commitOf, rev, publish, locks, session>>

\* adopt_or_promote_tree: a whole published tree is kept, any other replaced.
Promote(w) ==
    LET c == Target(w)
        d == claim[w].dir
    IN
    /\ Goto(w, "promote", "publish")
    /\ publish[c] = "whole" \/ creating[c][d] # "missing"
    /\ publish' = [publish EXCEPT ![c] =
                     IF publish[c] = "whole" THEN "whole" ELSE creating[c][d]]
    /\ creating' = [creating EXCEPT ![c][d] = "missing"]
    /\ UNCHANGED <<repo, status, commitOf, rev, locks, session>>

\* publish_snapshot_claim on the revision held since BeginWrite, and its commit.
Publish(w) ==
    LET c == Target(w)
        held == claim[w]
    IN
    /\ Goto(w, "publish", "validate")
    /\ held.state = "creating" /\ held.owner = User[w]
    /\ rev' = [rev EXCEPT ![c] = FlushRevision(rev[c], held,
                  [Unclaimed(held) EXCEPT !.state = "ready", !.path = TRUE])]
    /\ claim' = [claim EXCEPT ![w] = None]
    /\ UNCHANGED <<repo, status, commitOf, disk, locks,
                   want, cache, gen, epoch, victims>>

Validate(w) ==
    /\ Goto(w, "validate", "acquire")
    /\ rev[Target(w)].path
    /\ publish[Target(w)] = "whole"
    /\ UNCHANGED <<repo, status, commitOf, rev, disk, locks, session>>

-----------------------------------------------------------------------------
(* _finish_generation: the catalogue, under the repository row's lock *)

Renewed(row) == [row EXCEPT !.heartbeat = 0, !.lease = LEASE]

\* The first _renew_lease since a commit loads the row as it locks it.  Later
\* ones only flush: the lock is held, and the renewal unseen, until a commit.
Acquire(w) ==
    /\ Goto(w, "acquire", "build")
    /\ RowFree
    /\ repo.owner = User[w] /\ repo.epoch = epoch[w] /\ repo.lease > 0
    /\ rowLock' = w
    /\ cache' = [cache EXCEPT ![w] = Renewed(repo)]
    /\ UNCHANGED <<repo, status, commitOf, rev, disk, genLock,
                   want, claim, gen, epoch, victims>>

Renew(w) ==
    /\ pc[w] \in {"build", "draft"}
    /\ cache[w].lease > 0
    /\ cache' = [cache EXCEPT ![w] = Renewed(cache[w])]
    /\ UNCHANGED <<repo, status, commitOf, rev, disk, locks, pc,
                   want, claim, gen, epoch, victims>>

\* write_draft stores the capability report in the generation's row.
WriteDraft(w) ==
    /\ Goto(w, "build", "draft")
    /\ GenFree(w, gen[w])
    /\ genLock' = [genLock EXCEPT ![gen[w]] = w]
    /\ UNCHANGED <<repo, status, commitOf, rev, disk, rowLock, session>>

\* Graph, checks and vectors are done; the last renewal, then activate_generation.
Activate(w) ==
    /\ Goto(w, "draft", "activated")
    /\ cache[w].lease > 0
    /\ RefreshMayActivate(Renewed(cache[w]), gen[w], User[w], epoch[w])
    /\ cache' = [cache EXCEPT ![w] = Renewed(cache[w])]
    /\ UNCHANGED <<repo, status, commitOf, rev, disk, locks,
                   want, claim, gen, epoch, victims>>

\* The commit that makes the activation visible, early or at the end.
CommitActivation(w) ==
    LET row == cache[w]
        previous == row.active
    IN
    /\ pc[w] = "activated"
    /\ previous # None => GenFree(w, previous)
    /\ status' = Activated(gen[w], previous)
    /\ repo' = FlushRow(repo, row, Served(row, gen[w]))
    /\ rowLock' = None
    /\ genLock' = Unlocked(w)
    /\ pc' = [pc EXCEPT ![w] = "defer"]
    /\ cache' = [cache EXCEPT ![w] = NewRow]
    /\ UNCHANGED <<commitOf, rev, disk, want, claim, gen, epoch, victims>>

\* After the early commit: the deferred chunks and the check of the points.
Finish(w) ==
    /\ pc[w] = "defer"
    /\ EndRequest(w)
    /\ UNCHANGED <<repo, status, commitOf, rev, disk, locks>>

-----------------------------------------------------------------------------
(* _finish_generation: failure *)

\* Any step of _finish_generation may raise: a check that does not hold, Git, the
\* disk, the embedding model, Qdrant, Neo4j or the database.
Fails(w) ==
    /\ pc[w] \in {"write", "writing", "promote", "publish", "validate",
                   "acquire", "defer"} \cup Building
    /\ pc' = [pc EXCEPT ![w] = "rollback"]
    /\ UNCHANGED <<repo, status, commitOf, rev, disk, locks, session>>

\* The rollback unlocks; the first half of abort_snapshot_claim removes the trees
\* of the claim the database shows, if its owner is this user.
Rollback(w) ==
    LET c == Target(w)
        r == rev[c]
        aborts == r.state = "creating" /\ r.owner = User[w]
    IN
    /\ pc[w] = "rollback"
    /\ pc' = [pc EXCEPT ![w] = IF aborts THEN "abort" ELSE "fail"]
    /\ claim' = [claim EXCEPT ![w] = IF aborts THEN r ELSE None]
    /\ creating' = [creating EXCEPT ![c] = [v \in Workers |->
                       IF aborts /\ v = r.dir THEN "missing" ELSE creating[c][v]]]
    /\ publish' = [publish EXCEPT ![c] =
                      IF aborts /\ ~r.path THEN "missing" ELSE publish[c]]
    /\ rowLock' = IF rowLock = w THEN None ELSE rowLock
    /\ genLock' = Unlocked(w)
    /\ cache' = [cache EXCEPT ![w] = NewRow]
    /\ UNCHANGED <<repo, status, commitOf, rev, want, gen, epoch, victims>>

\* Its second half and the commit.
AbortClaim(w) ==
    LET c == Target(w) IN
    /\ Goto(w, "abort", "fail")
    /\ rev' = [rev EXCEPT ![c] = FlushRevision(rev[c], claim[w],
                  [Unclaimed(claim[w]) EXCEPT !.state = "absent"])]
    /\ claim' = [claim EXCEPT ![w] = None]
    /\ UNCHANGED <<repo, status, commitOf, disk, locks,
                   want, cache, gen, epoch, victims>>

OwnsRefresh(w) == repo.owner = User[w] /\ repo.epoch = epoch[w]

\* The mutant fails the generation whoever owns the refresh by now.
FailsAnyway(w) == status[gen[w]] = "pending"
FailsGeneration(w) == OwnsRefresh(w) /\ status[gen[w]] = "pending"

\* _fail_if_owner: the refresh is over if it is still this user's and epoch's.
FailIfOwner(w) ==
    /\ pc[w] = "fail"
    /\ RowFree
    /\ FailsGeneration(w) => GenFree(w, gen[w])
    /\ repo' = IF OwnsRefresh(w) THEN Idle(repo) ELSE repo
    /\ status' = IF FailsGeneration(w)
                 THEN [status EXCEPT ![gen[w]] = "failed"] ELSE status
    /\ EndRequest(w)
    /\ UNCHANGED <<commitOf, rev, disk, locks>>

-----------------------------------------------------------------------------
(* The database, the process and time *)

\* Worker v, holding the repository row, waits for a generation row of session w.
WaitsFor(v, w) ==
    \/ pc[v] = "build" /\ genLock[gen[v]] = w
    \/ pc[v] = "activated" /\ cache[v].active # None /\ genLock[cache[v].active] = w
    \/ pc[v] = "fail" /\ RowFree /\ FailsGeneration(v) /\ genLock[gen[v]] = w

\* A reset and a builder wait for each other's rows: PostgreSQL aborts one of
\* them.  Here the reset; a builder that is aborted takes Fails.
ResetDeadlock(w) ==
    /\ pc[w] = "resetRow"
    /\ \E v \in Workers \ {w} : WaitsFor(v, w)
    /\ EndRequest(w)
    /\ genLock' = Unlocked(w)
    /\ UNCHANGED <<repo, status, commitOf, rev, disk, rowLock>>

\* Here a worker in _fail_if_owner, whose error ends its request.
FailDeadlock(w) ==
    /\ pc[w] = "fail"
    /\ \E v \in Workers \ {w} : pc[v] = "resetRow" /\ WaitsFor(w, v)
    /\ EndRequest(w)
    /\ UNCHANGED <<repo, status, commitOf, rev, disk, locks>>

\* The process dies: the database rolls its transaction back, the disk stays.
Crash(w) ==
    /\ pc[w] # "idle"
    /\ EndRequest(w)
    /\ rowLock' = IF rowLock = w THEN None ELSE rowLock
    /\ genLock' = Unlocked(w)
    /\ UNCHANGED <<repo, status, commitOf, rev, disk>>

AgedRow(row) ==
    [row EXCEPT !.lease = Sooner(@), !.heartbeat = Older(@)]

AgedRevision(r) == [r EXCEPT !.lease = Sooner(@)]

Tick ==
    /\ repo' = AgedRow(repo)
    /\ cache' = [w \in Workers |->
                   IF cache[w] = NewRow THEN NewRow ELSE AgedRow(cache[w])]
    /\ rev' = [c \in Commits |-> AgedRevision(rev[c])]
    /\ claim' = [w \in Workers |->
                   IF claim[w] = None THEN None ELSE AgedRevision(claim[w])]
    /\ UNCHANGED <<status, commitOf, disk, locks, pc,
                   want, gen, epoch, victims>>

\* A step of a request, apart from a failure or the arrival of the request.
Request(w) ==
    \/ ResetGens(w) \/ ResetRow(w) \/ ResetDeadlock(w)
    \/ Answer(w) \/ PlanBuild(w) \/ Fetch(w)
    \/ StartRefused(w) \/ Start(w)
    \/ AdoptRefused(w) \/ Adopt(w) \/ CompleteRefused(w) \/ Complete(w)
    \/ BeginWrite(w) \/ FinishWrite(w) \/ Promote(w) \/ Publish(w) \/ Validate(w)
    \/ Acquire(w) \/ WriteDraft(w) \/ Activate(w) \/ CommitActivation(w) \/ Finish(w)
    \/ Rollback(w) \/ AbortClaim(w) \/ FailIfOwner(w) \/ FailDeadlock(w)

Trouble(w) == FetchFails(w) \/ Fails(w)

Step(w) == Join(w) \/ Renew(w) \/ Request(w) \/ Trouble(w) \/ Crash(w)

Next == (\E w \in Workers : Step(w)) \/ Tick

Spec == Init /\ [][Next]_vars

-----------------------------------------------------------------------------
(* Safety *)

\* The repository has at most one ready generation, the one questions read, and
\* that one has been finished and was not retired: an activation retires what it
\* replaces, although it takes its name from a row loaded when the lease was first
\* renewed.  ("failed": see ActiveIsReady.)
ReadyIsActive ==
    /\ \A g \in Gens : status[g] = "ready" => repo.active = g
    /\ repo.active # None => status[repo.active] \in {"ready", "failed"}

\* A running refresh names a generation that is still pending, so an adopter
\* finds something to finish, whichever requests started, failed, reset or
\* adopted refreshes in between.
RunningNamesPending ==
    repo.state = "running" =>
        /\ repo.gen # None
        /\ status[repo.gen] = "pending"

\* Whoever is about to activate holds the committed row's refresh: nobody has
\* started, adopted, reset or failed a refresh since its check.
ActivatorOwnsRefresh ==
    \A w \in Workers : pc[w] = "activated" =>
        /\ rowLock = w
        /\ repo.state = "running"
        /\ repo.gen = gen[w]
        /\ repo.owner = User[w]
        /\ repo.epoch = epoch[w]

\* What questions read moves only to the generation in refresh.
ActivatesRefresh ==
    [][repo'.active # repo.active =>
         repo.state = "running" /\ repo'.active = repo.gen]_vars

\* README: "Keeps the previous ready generation active until a new generation is
\* ready": what questions read is ready.
ActiveIsReady ==
    repo.active # None => status[repo.active] = "ready"

\* ingest_commit: "a refresh is already running for this repository".
NoSecondStart ==
    [][\A w \in Workers :
         pc[w] = "start" /\ pc'[w] \in {"write", "validate"} =>
            ~(repo.state = "running" /\ repo.lease > 0)]_vars

\* coordination.py: a lease is held "while an indexer is likely still running": no
\* request finds the lease lapsed while the worker that owns it keeps renewing it.
LiveRefreshKept ==
    [][\A v, w \in Workers :
         /\ pc[v] = "idle" /\ pc'[v] = "resetGens"
         /\ pc[w] \in Building
         => ~(OwnsRefresh(w) /\ Held(cache[w]))]_vars

-----------------------------------------------------------------------------
(* Work trees, while their creation does not outlast its lease *)

Creators == {w \in Workers : pc[w] \in {"write", "writing", "promote", "publish"}}

\* The creation lease is not renewed: nothing but its length keeps a creation, or
\* its clean-up, within it.
CreationTimely ==
    \A w \in Workers :
        pc[w] \in {"write", "writing", "promote", "publish", "rollback", "abort"} =>
            rev[Target(w)].lease # 1

TimelyNext == (\E w \in Workers : Step(w)) \/ (CreationTimely /\ Tick)

TimelySpec == Init /\ [][TimelyNext]_vars

\* Two requests never create the tree of one commit at once, so neither removes,
\* publishes or aborts what the other writes.
OneCreator ==
    \A v, w \in Creators : v # w => Target(v) # Target(w)

\* What a ready revision publishes is a whole tree: not one still being written,
\* and not one that a recovery or an abort has removed.
PublishedWhole ==
    \A c \in Commits : Reusable(rev[c]) => publish[c] = "whole"

-----------------------------------------------------------------------------
(* Progress *)

\* The check a request is about to make fails, so its next step is to raise.
CheckFails(w) ==
    \/ pc[w] = "write" /\ rev[Target(w)].dir = None
    \/ /\ pc[w] = "promote"
       /\ publish[Target(w)] # "whole"
       /\ creating[Target(w)][claim[w].dir] = "missing"
    \/ pc[w] = "publish" /\ (claim[w].state # "creating" \/ claim[w].owner # User[w])
    \/ pc[w] = "validate" /\ ~(rev[Target(w)].path /\ publish[Target(w)] = "whole")
    \/ pc[w] = "acquire" /\ RowFree /\ ~(OwnsRefresh(w) /\ repo.lease > 0)
    \/ /\ pc[w] = "draft"
       /\ ~(/\ cache[w].lease > 0
            /\ RefreshMayActivate(Renewed(cache[w]), gen[w], User[w], epoch[w]))

\* A request that can go on does: it takes its next step, or raises if that step's
\* check fails or its fetch does; PostgreSQL grants row locks in the order they were
\* asked for, so one that is free again and again is had in the end.  Time passes,
\* and index requests keep coming, not all of which crash before their reset.
Fairness ==
    /\ WF_vars(Tick)
    /\ \A w \in Workers :
         /\ WF_vars(Join(w))
         /\ SF_vars(Request(w) \/ (Fails(w) /\ CheckFails(w)) \/ FetchFails(w))
         /\ SF_vars(ResetGens(w))
         /\ SF_vars(ResetRow(w))

FairSpec == Spec /\ Fairness

\* A refresh does not stay running for ever, whether its worker finished, failed,
\* lost it to another or crashed.
RefreshEnds == repo.state = "running" ~> repo.state = "idle"

\* No request waits for ever on row locks.
RequestEnds == \A w \in Workers : pc[w] # "idle" ~> pc[w] = "idle"

-----------------------------------------------------------------------------
(* Cutover *)

\* What questions see of indexing implements Cutover.
Promise == INSTANCE Cutover WITH
    Generations <- Gens,
    Nothing <- None,
    reading <- repo.active,
    building <- Pending,
    begun <- Gens \ Unbuilt

ImplementsCutover == Promise!CutoverSpec

=============================================================================
