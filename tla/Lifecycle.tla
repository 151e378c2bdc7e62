------------------------------ MODULE Lifecycle ------------------------------
(***************************************************************************)
(* The life of one repository URL: who joins it, who deletes it, the sweep *)
(* of inactive clients, and what is left outside PostgreSQL.               *)
(*                                                                         *)
(* The identity of a repository is a function of its URL, so a repository  *)
(* that is deleted and indexed again has the same row key, the same paths  *)
(* on disk and, as its epochs start over, the same refresh epochs.  "lives" *)
(* counts how often the row was inserted; the code cannot see it.          *)
(*                                                                         *)
(* A request first runs the sweep when one is due, then marks its client   *)
(* active, then does its own work.  A build is the coarse form of the one  *)
(* in Indexing: one commit, one work tree, one generation at a time.       *)
(***************************************************************************)
EXTENDS Naturals, FiniteSets

CONSTANTS
    Workers,      \* requests that may run at once
    Users,
    MaxLife,      \* bound on how often the repository is created
    MaxEpoch,     \* bound on refresh_epoch
    None          \* no row; nobody

VARIABLES
    repo,         \* the committed repository row
    revision,     \* the row of the source revision: its state
    member,       \* user -> the membership row
    account,      \* user -> the user row: its activity
    lives,        \* how often the repository row was inserted (history)
    stored,       \* what exists outside PostgreSQL
    rowLock,      \* the session that holds the repository row FOR UPDATE or has updated it
    pc,           \* worker -> what its request does next
    req           \* worker -> the local state of its request

rows == <<repo, revision, member, account, lives>>
vars == <<rows, stored, rowLock, pc, req>>

-----------------------------------------------------------------------------
\* What a repository has outside PostgreSQL: the clone, the tree at the publish path,
\* graph nodes and points, and a tree at the creating path of a claim of worker w.
Stores == {"git", "tree", "graph"} \cup Workers

RepositoryRow ==
    [life : 1..MaxLife, running : BOOLEAN, owner : Users \cup {None},
     epoch : 0..MaxEpoch, lease : BOOLEAN, beat : BOOLEAN, active : BOOLEAN]

\* by: creation_owner; dir: the worker whose claim names creating_path.
RevisionRow ==
    [state : {"none", "absent", "creating", "ready"}, by : Users \cup {None},
     dir : Workers \cup {None}]

RevisionIn(state) == [state |-> state, by |-> None, dir |-> None]

\* since: the life in which its join began (history).
MemberRow == [role : {"owner", "reader"}, status : {"active", "revoked"}, since : 1..MaxLife]

\* What the statements of _join have read: whether the user has a row; the repository, by its
\* life, 0 when there was none; the membership; anybody's membership.
Seen == [user : BOOLEAN, life : 0..MaxLife, member : BOOLEAN, revoked : BOOLEAN, others : BOOLEAN]

Sweeping == {"sweep"}
Purging == {"purge", "purged", "stores"}
Joining == {"join", "member", "others", "commit", "plan", "begin"}
Building == {"write", "publish", "build", "activate"}
PCs == {"idle", "handle", "record", "fail"}
          \cup Sweeping \cup Purging \cup Joining \cup Building

\* user: who sends the request; held: the repository row its session holds; todo, gone: users the sweep has still to handle and those
\* it has marked for deletion; committed: the sweep has committed a purge, which
\* expires the users its session holds; listed, path: the purge has listed a
\* generation, a published tree; late: dependent rows were inserted after the purge
\* deleted those it saw; life, epoch: of the build.
Request ==
    [user : Users \cup {None}, kind : {"none", "sweep", "delete"},
     held : RepositoryRow \cup {None}, saw : Seen,
     todo : SUBSET Users, gone : SUBSET Users, target : Users \cup {None},
     committed : BOOLEAN, listed : BOOLEAN, path : BOOLEAN, late : BOOLEAN,
     life : 0..MaxLife, epoch : 0..MaxEpoch]

TypeOK ==
    /\ repo \in RepositoryRow \cup {None}
    /\ revision \in RevisionRow
    /\ member \in [Users -> MemberRow \cup {None}]
    /\ account \in [Users -> {"none", "active", "stale"}]
    /\ lives \in 0..MaxLife
    /\ stored \subseteq Stores
    /\ rowLock \in Workers \cup {None}
    /\ pc \in [Workers -> PCs]
    /\ req \in [Workers -> Request]

\* What the constants are taken to be: None is no user, no request and no row.
LifecycleAssumption ==
    /\ None \notin Users \cup Workers \cup RepositoryRow \cup MemberRow
    /\ MaxLife \in Nat /\ MaxEpoch \in Nat

Nothing == [user |-> FALSE, life |-> 0, member |-> FALSE, revoked |-> FALSE, others |-> FALSE]

NoRequest ==
    [user |-> None, kind |-> "none", held |-> None, saw |-> Nothing,
     todo |-> {}, gone |-> {}, target |-> None, committed |-> FALSE, listed |-> FALSE,
     path |-> FALSE, late |-> FALSE, life |-> 0, epoch |-> 0]

Init ==
    /\ repo = None
    /\ revision = RevisionIn("none")
    /\ member = [u \in Users |-> None]
    /\ account = [u \in Users |-> "none"]
    /\ lives = 0
    /\ stored = {}
    /\ rowLock = None
    /\ pc = [w \in Workers |-> "idle"]
    /\ req = [w \in Workers |-> NoRequest]

-----------------------------------------------------------------------------
(* Sessions *)

RowFree(w) == rowLock \in {None, w}

Released(w) == IF rowLock = w THEN None ELSE rowLock

\* The request of w goes on at p with local state r.
Goto(w, p, r) ==
    /\ pc' = [pc EXCEPT ![w] = p]
    /\ req' = [req EXCEPT ![w] = r]

\* The request ends, with an answer or an error; what it did not commit is undone.
End(w) ==
    /\ Goto(w, "idle", NoRequest)
    /\ rowLock' = Released(w)

\* A row that refers to the repository can be inserted: its row is not held FOR UPDATE.
KeyShareable == \A p \in Workers : rowLock = p => pc[p] = "purged"

\* The requests of the others, once w has inserted rows that refer to the repository.
WithLate(w, r) ==
    [p \in Workers |-> IF p = w THEN r
                       ELSE IF pc[p] = "purged" THEN [req[p] EXCEPT !.late = TRUE]
                       ELSE req[p]]

Members == {u \in Users : member[u] # None}

-----------------------------------------------------------------------------
(* Every request: the sweep, then the client's activity *)

\* maybe_expire_inactive_clients: due or not, expire_inactive_clients lists stale users.
Arrive(w) ==
    /\ pc[w] = "idle"
    /\ \E u \in Users :
        LET r == [NoRequest EXCEPT !.user = u]
            stale == {v \in Users : account[v] = "stale"}
        IN  \/ Goto(w, "handle", r)
            \/ stale # {} /\ Goto(w, "sweep", [r EXCEPT !.kind = "sweep", !.todo = stale])
    /\ UNCHANGED <<rows, stored, rowLock>>

\* purge_repository loads the row, lists the collections of its generations and the
\* published trees.
Listed(r, u) ==
    [r EXCEPT !.target = u, !.held = repo, !.listed = revision.state # "none",
              !.path = revision.state = "ready"]

\* The next stale user: purge the repository it is a member of, or mark it for deletion.
\* A user the session has to reload and finds deleted ends the request with an error.
SweepUser(w) ==
    /\ pc[w] = "sweep"
    /\ \E u \in req[w].todo :
        IF account[u] = "none" /\ req[w].committed
        THEN End(w)
        ELSE /\ UNCHANGED rowLock
             /\ IF u \in Members
                THEN Goto(w, "purge", Listed(req[w], u))
                ELSE Goto(w, "sweep", [req[w] EXCEPT !.todo = @ \ {u}, !.gone = @ \cup {u}])
    /\ UNCHANGED <<rows, stored>>

\* The commit at the end of the sweep deletes the marked users; one that has joined again
\* meanwhile cannot be deleted.
SweepCommit(w) ==
    /\ pc[w] = "sweep"
    /\ req[w].todo = {}
    /\ IF req[w].gone \cap Members # {}
       THEN UNCHANGED account /\ End(w)
       ELSE /\ account' = [u \in Users |-> IF u \in req[w].gone THEN "none" ELSE account[u]]
            /\ Goto(w, "handle", [NoRequest EXCEPT !.user = req[w].user])
            /\ UNCHANGED rowLock
    /\ UNCHANGED <<repo, revision, member, lives, stored>>

\* touch_client_activity, which starts every handler; GET requests do no more.
Touched(w) == account' = [account EXCEPT ![req[w].user] = "active"]

Touch(w) ==
    /\ pc[w] = "handle"
    /\ Touched(w)
    /\ End(w)
    /\ UNCHANGED <<repo, revision, member, lives, stored>>

-----------------------------------------------------------------------------
(* Deletion *)

LeaseHeld(row) == row # None /\ row.lease

\* delete_repository: only an active member, and not while the lease is held.
DeleteStart(w) ==
    /\ pc[w] = "handle"
    /\ Touched(w)
    /\ LET u == req[w].user
       IN  IF u \in Members /\ member[u].status = "active" /\ ~LeaseHeld(repo)
           THEN /\ Goto(w, "purge", Listed([req[w] EXCEPT !.kind = "delete"], u))
                /\ UNCHANGED rowLock
           ELSE End(w)
    /\ UNCHANGED <<repo, revision, member, lives, stored>>

\* The row a session holds has a column that the purge sets to NULL.
Clears(held) == held.active \/ held.running \/ held.beat

\* The UPDATE writes the columns that were not NULL in the held copy.  A generation that
\* the row still names after it cannot be deleted; the mutant deletes it.
NamesNothing(row, held) == FALSE
StillNames(row, held) ==
    row # None /\ ((row.active /\ ~held.active) \/ (row.running /\ ~held.running))

\* That UPDATE and the bulk deletes.  They wait for another purge that has deleted the
\* same rows.
PurgeWrite(w) ==
    /\ pc[w] = "purge"
    /\ \A p \in Workers \ {w} : pc[p] # "purged"
    /\ Clears(req[w].held) => RowFree(w)
    /\ IF StillNames(repo, req[w].held) \/ (repo = None /\ Clears(req[w].held))
       THEN End(w)
       ELSE /\ Goto(w, "purged", req[w])
            /\ rowLock' = IF Clears(req[w].held) THEN w ELSE rowLock
    /\ UNCHANGED <<rows, stored>>

\* The DELETE of the row and the commit; a dependent row inserted meanwhile forbids it.
PurgeCommit(w) ==
    /\ pc[w] = "purged"
    /\ RowFree(w)
    /\ IF req[w].late
       THEN End(w) /\ UNCHANGED rows
       ELSE /\ repo' = None
            /\ revision' = RevisionIn("none")
            /\ member' = [u \in Users |-> None]
            /\ account' = [u \in Users |-> IF u \in req[w].gone THEN "none" ELSE account[u]]
            /\ Goto(w, "stores", [req[w] EXCEPT !.committed = req[w].kind = "sweep", !.gone = {},
                                                 !.held = None])
            /\ rowLock' = Released(w)
            /\ UNCHANGED lives
    /\ UNCHANGED stored

\* What a purge goes on to delete: the clone, the listed tree, nodes and points.
Removable(r) ==
    {"git"} \cup (IF r.path THEN {"tree"} ELSE {}) \cup (IF r.listed THEN {"graph"} ELSE {})

\* After the commit: points of the listed collections (an error there is ignored), the
\* graph (an error there ends the request), then the clone and the listed trees.  The
\* sweep goes on with its next user.
DeleteStores(w) ==
    /\ pc[w] = "stores"
    /\ \/ UNCHANGED stored /\ End(w)
       \/ /\ \/ stored' = stored \ Removable(req[w])
             \/ stored' = stored \ (Removable(req[w]) \ {"graph"})
          /\ IF req[w].kind = "sweep"
             THEN /\ Goto(w, "sweep", [req[w] EXCEPT
                         !.todo = @ \ {req[w].target}, !.gone = @ \cup {req[w].target},
                         !.target = None, !.listed = FALSE, !.path = FALSE])
                  /\ UNCHANGED rowLock
             ELSE End(w)
    /\ UNCHANGED rows

-----------------------------------------------------------------------------
(* Indexing: probe and join *)

\* _revoke: the membership stays, revoked; the request ends with an error.
Revoked(u) ==
    [member EXCEPT ![u] = IF @ = None THEN @ ELSE [@ EXCEPT !.status = "revoked"]]

\* The client's activity and the probe: authorized; unauthorized, which revokes a
\* membership; or any other answer (not found, unavailable, another branch), which ends the
\* request.
Probe(w) ==
    /\ pc[w] = "handle"
    /\ Touched(w)
    /\ \/ Goto(w, "join", req[w]) /\ UNCHANGED <<member, rowLock>>
       \/ member' = Revoked(req[w].user) /\ End(w)
       \/ UNCHANGED member /\ End(w)
    /\ UNCHANGED <<repo, revision, lives, stored>>

\* A request that has inserted the repository and not committed: a second insertion waits
\* for it, and fails if it commits.
Inserts(w) == pc[w] \in {"member", "others", "commit"} /\ req[w].saw.life = 0

SeeRepository(r) ==
    [r EXCEPT !.saw.user = account[r.user] # "none", !.saw.life = IF repo = None THEN 0 ELSE repo.life]

\* _join reads the user and the repository, and inserts what is not there.
JoinRepository(w) ==
    /\ pc[w] = "join"
    /\ \/ repo = None /\ \E v \in Workers : Inserts(v) /\ End(w)
       \/ /\ repo = None => \A v \in Workers : ~Inserts(v)
          /\ Goto(w, "member", SeeRepository(req[w]))
          /\ UNCHANGED rowLock
    /\ UNCHANGED <<rows, stored>>

SeeMember(r) ==
    [r EXCEPT !.saw.member = r.user \in Members,
              !.saw.revoked = r.user \in Members /\ member[r.user].status = "revoked"]

\* _member, of this user; without one, whether the repository has any, in a statement of its
\* own.
JoinMember(w) ==
    /\ pc[w] = "member"
    /\ Goto(w, IF req[w].user \in Members THEN "commit" ELSE "others", SeeMember(req[w]))
    /\ UNCHANGED <<rows, stored, rowLock>>

JoinOthers(w) ==
    /\ pc[w] = "others"
    /\ Goto(w, "commit", [req[w] EXCEPT !.saw.others = Members # {}])
    /\ UNCHANGED <<rows, stored, rowLock>>

NewRow(life) ==
    [life |-> life, running |-> FALSE, owner |-> None, epoch |-> 0, lease |-> FALSE,
     beat |-> FALSE, active |-> FALSE]

\* What refuses the commit of _join, which may insert a credential: a key that exists by
\* now, a row referred to or updated that is gone, and the bound on lives.
JoinConflict(r, token) ==
    LET u == r.user
    IN  \/ r.saw.user /\ (~r.saw.member \/ token) /\ account[u] = "none"
        \/ ~r.saw.user /\ account[u] # "none"
        \/ r.saw.life # 0 /\ repo = None
        \/ ~r.saw.member /\ u \in Members
        \/ r.saw.revoked /\ u \notin Members
        \/ r.saw.life = 0 /\ lives = MaxLife

\* The membership after _join: a new one, a revoked one made active, or untouched.  The
\* mutant does not ask whether the repository has members.
RoleOfUser(saw) == IF saw.member THEN "reader" ELSE "owner"
NewRole(saw) == IF saw.others THEN "reader" ELSE "owner"

Joined(r, life) ==
    IF ~r.saw.member THEN [role |-> NewRole(r.saw), status |-> "active", since |-> life]
    ELSE IF r.saw.revoked THEN [member[r.user] EXCEPT !.status = "active"]
    ELSE member[r.user]

\* The commit of _join; an insertion waits for a builder that holds the row FOR UPDATE.
JoinCommit(w) ==
    LET r == req[w]
        first == r.saw.life = 0
        next == [r EXCEPT !.saw = Nothing]
    IN  /\ pc[w] = "commit"
        /\ \E token \in BOOLEAN :
            /\ ~r.saw.member \/ token => KeyShareable
            /\ IF JoinConflict(r, token)
               THEN End(w) /\ UNCHANGED rows
               ELSE /\ lives' = IF first THEN lives + 1 ELSE lives
                    /\ repo' = IF first THEN NewRow(lives + 1) ELSE repo
                    /\ member' = [member EXCEPT ![r.user] =
                                     Joined(r, IF first THEN lives + 1 ELSE r.saw.life)]
                    /\ account' = [account EXCEPT ![r.user] = IF r.saw.user THEN @ ELSE "active"]
                    /\ pc' = [pc EXCEPT ![w] = "plan"]
                    /\ req' = IF ~r.saw.member \/ token
                              THEN WithLate(w, next)
                              ELSE [req EXCEPT ![w] = next]
                    /\ UNCHANGED <<revision, rowLock>>
        /\ UNCHANGED stored

\* reset_expired_refresh, which updates the row; then the plan: serve with a pin, wait,
\* or build.
Plan(w) ==
    /\ pc[w] = "plan"
    /\ IF repo = None
       THEN UNCHANGED repo /\ End(w)
       ELSE /\ repo.running /\ ~repo.lease => RowFree(w)
            /\ repo' = IF repo.running /\ ~repo.lease
                       THEN [repo EXCEPT !.running = FALSE, !.owner = None, !.beat = FALSE]
                       ELSE repo
            /\ \/ End(w)
               \/ /\ repo.active
                  /\ pc' = [pc EXCEPT ![w] = "idle"]
                  /\ req' = WithLate(w, NoRequest)
                  /\ UNCHANGED rowLock
               \/ ~repo'.running /\ Goto(w, "begin", req[w]) /\ UNCHANGED rowLock
    /\ UNCHANGED <<revision, member, account, lives, stored>>

-----------------------------------------------------------------------------
(* Indexing: the build *)

\* recover_creating_snapshot adopts a published tree whose claim left no creating
\* directory, and otherwise discards both.
Recovers == revision.state = "creating" /\ "tree" \in stored /\ revision.dir \notin stored
Discards == revision.state = "creating" /\ ~Recovers

\* fetch_branch, which clones into the path of this URL whatever became of the row; then
\* ingest_commit up to its commit: the row must exist, no refresh run, and no other user
\* hold the claim of the tree (it may have lapsed).
Begin(w) ==
    /\ pc[w] = "begin"
    /\ RowFree(w)
    /\ \/ /\ stored' \in {stored, stored \cup {"git"}}
          /\ \/ stored' = stored
             \/ repo = None
             \/ repo # None /\ (repo.running \/ repo.epoch = MaxEpoch)
             \/ revision.state = "creating" /\ revision.by # req[w].user
          /\ End(w)
          /\ UNCHANGED rows
       \/ /\ repo # None
          /\ ~repo.running /\ repo.epoch < MaxEpoch
          /\ repo' = [repo EXCEPT !.running = TRUE, !.owner = req[w].user, !.beat = TRUE,
                                  !.epoch = @ + 1, !.lease = TRUE]
          /\ LET reuse == Recovers \/ revision.state = "ready"
             IN  /\ revision' = IF reuse
                                THEN RevisionIn("ready")
                                ELSE [state |-> "creating", by |-> req[w].user, dir |-> w]
                 /\ pc' = [pc EXCEPT ![w] = IF reuse THEN "build" ELSE "write"]
          /\ stored' = {"git"} \cup (IF Discards THEN stored \ {revision.dir, "tree"} ELSE stored)
          /\ req' = WithLate(w, [req[w] EXCEPT !.life = repo.life, !.epoch = repo.epoch + 1])
          /\ UNCHANGED <<member, account, lives, rowLock>>

\* write_detached_tree under the creating path.
WriteTree(w) ==
    /\ pc[w] = "write"
    /\ "git" \in stored
    /\ stored' = stored \cup {w}
    /\ Goto(w, "publish", req[w])
    /\ UNCHANGED <<rows, rowLock>>

\* The tree is renamed to the publish path; the commit that publishes it updates the row
\* of the revision, waiting for a purge that has deleted it.
Publish(w) ==
    /\ pc[w] = "publish"
    /\ w \in stored
    /\ \A p \in Workers : pc[p] # "purged"
    /\ stored' = (stored \ {w}) \cup {"tree"}
    /\ IF revision.state = "none"
       THEN Goto(w, "fail", req[w]) /\ UNCHANGED revision
       ELSE Goto(w, "build", req[w]) /\ revision' = RevisionIn("ready")
    /\ UNCHANGED <<repo, member, account, lives, rowLock>>

\* As far as the row tells, the refresh is the one this request began.
Owns(r) == repo # None /\ repo.owner = r.user /\ repo.epoch = r.epoch

\* validate_worktree_bytes of the published tree, the first _renew_lease, which locks the
\* row, then the draft, the graph and the points.
Build(w) ==
    /\ pc[w] = "build"
    /\ RowFree(w)
    /\ {"git", "tree"} \subseteq stored
    /\ Owns(req[w]) /\ repo.lease
    /\ rowLock' = w
    /\ stored' = stored \cup {"graph"}
    /\ Goto(w, "activate", req[w])
    /\ UNCHANGED rows

\* activate_generation and its commit.
Activate(w) ==
    /\ pc[w] = "activate"
    /\ repo' = [repo EXCEPT !.running = FALSE, !.owner = None, !.lease = FALSE,
                            !.beat = FALSE, !.active = TRUE]
    /\ End(w)
    /\ UNCHANGED <<revision, member, account, lives, stored>>

\* Any step of a build may raise; a step that cannot go on does.
Fails(w) ==
    /\ pc[w] \in Building
    /\ Goto(w, "fail", req[w])
    /\ rowLock' = Released(w)
    /\ UNCHANGED <<rows, stored>>

\* abort_snapshot_claim and _fail_if_owner; without a row it raises again.
FailIfOwner(w) ==
    /\ pc[w] = "fail"
    /\ RowFree(w)
    /\ IF revision.state = "creating" /\ revision.by = req[w].user
       THEN revision' = RevisionIn("absent") /\ stored' = stored \ {revision.dir, "tree"}
       ELSE UNCHANGED <<revision, stored>>
    /\ repo' = IF Owns(req[w])
               THEN [repo EXCEPT !.running = FALSE, !.owner = None, !.lease = FALSE]
               ELSE repo
    /\ End(w)
    /\ UNCHANGED <<member, account, lives>>

-----------------------------------------------------------------------------
(* Questions *)

\* RefreshService.ask: an active member; one with a credential is probed first, and
\* revoked if its token no longer grants access.  Serving inserts a pin.
Ask(w) ==
    /\ pc[w] = "handle"
    /\ Touched(w)
    /\ LET u == req[w].user
       IN  \/ u \in Members /\ member[u].status = "active" /\ member' = Revoked(u) /\ End(w)
           \/ UNCHANGED member /\ End(w)
           \/ /\ u \in Members /\ member[u].status = "active"
              /\ repo # None /\ repo.active /\ revision.state = "ready"
              /\ pc' = [pc EXCEPT ![w] = "record"]
              /\ req' = WithLate(w, req[w])
              /\ UNCHANGED <<member, rowLock>>
    /\ UNCHANGED <<repo, revision, lives, stored>>

\* record_qa_message after the answer; without the repository it raises.
Record(w) ==
    /\ pc[w] = "record"
    /\ KeyShareable
    /\ pc' = [pc EXCEPT ![w] = "idle"]
    /\ req' = IF repo = None THEN [req EXCEPT ![w] = NoRequest] ELSE WithLate(w, NoRequest)
    /\ UNCHANGED <<rows, stored, rowLock>>

-----------------------------------------------------------------------------
(* The environment *)

\* The process dies: open transactions are undone, what is stored elsewhere stays.
Crash(w) ==
    /\ pc[w] # "idle"
    /\ End(w)
    /\ UNCHANGED <<rows, stored>>

\* Time passes the lease that others can see.
LeaseLapses ==
    /\ LeaseHeld(repo)
    /\ repo' = [repo EXCEPT !.lease = FALSE]
    /\ UNCHANGED <<revision, member, account, lives, stored, rowLock, pc, req>>

\* A client is silent for CLIENT_SESSION_TTL_HOURS; no request lasts that long.
GoesStale(u) ==
    /\ account[u] = "active"
    /\ \A w \in Workers : req[w].user # u
    /\ account' = [account EXCEPT ![u] = "stale"]
    /\ UNCHANGED <<repo, revision, member, lives, stored, rowLock, pc, req>>

Next ==
    \/ \E w \in Workers :
        \/ Arrive(w) \/ SweepUser(w) \/ SweepCommit(w) \/ Touch(w)
        \/ DeleteStart(w) \/ PurgeWrite(w) \/ PurgeCommit(w) \/ DeleteStores(w)
        \/ Probe(w) \/ JoinRepository(w) \/ JoinMember(w) \/ JoinOthers(w) \/ JoinCommit(w) \/ Plan(w) \/ Begin(w)
        \/ WriteTree(w) \/ Publish(w) \/ Build(w) \/ Activate(w)
        \/ Fails(w) \/ FailIfOwner(w) \/ Ask(w) \/ Record(w) \/ Crash(w)
    \/ LeaseLapses
    \/ \E u \in Users : GoesStale(u)

Spec == Init /\ [][Next]_vars

-----------------------------------------------------------------------------
(* Properties *)

\* Of the clients whose join began in the present life of the repository exactly one is its
\* owner, the one whose first index inserted the row, however joins, deletions and new first
\* indexes of its URL interleave: _join decides on the role from three reads that its commit
\* may find outdated.  A client whose join began in a former life may own it as well: it read
\* the members after the purge, and its own membership refers to the row inserted since.
OneOwner ==
    Cardinality({u \in Members : member[u].role = "owner" /\ member[u].since = repo.life})
        = IF repo = None THEN 0 ELSE 1

Purges(w) == pc[w] = "purged" /\ repo # None /\ repo' = None

\* A purge that saw no refresh in the row never removes a repository whose refresh began
\* since: the lease was checked on the copy loaded before.
PurgeSparesNewRefresh ==
    \A w \in Workers : Purges(w) /\ repo.running => req[w].held.running
=============================================================================
