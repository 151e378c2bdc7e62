--------------------------- MODULE LifecycleProofs ---------------------------
(***************************************************************************)
(* For any number of requests, clients, lives and refreshes: of those who  *)
(* joined in its present life a repository has one owner, and a purge      *)
(* spares the refresh it has not seen.                                     *)
(***************************************************************************)
EXTENDS Lifecycle, FiniteSetTheorems, TLAPS

-----------------------------------------------------------------------------
(* Types *)

\* A request that is under way has a client, a purge has one too for whom it runs; one that activates holds the row.
RequestsKnow ==
    \A w \in Workers :
        /\ pc[w] # "idle" => req[w].user \in Users
        /\ pc[w] \in Purging => req[w].target \in Users
        /\ pc[w] = "activate" => rowLock = w /\ repo # None

TInv == TypeOK /\ RequestsKnow

LEMMA PCsKnown ==
  /\ Purging = {"purge", "purged", "stores"}
  /\ PCs = {"idle", "handle", "record", "fail", "sweep", "purge", "purged", "stores", "join", "member", "others", "commit",
            "plan", "begin",
            "write", "publish", "build", "activate"}
  BY DEF PCs, Sweeping, Purging, Joining, Building

LEMMA NoRequestTyped ==
  ASSUME LifecycleAssumption
  PROVE  NoRequest \in Request
  BY DEF LifecycleAssumption, NoRequest, Request, Nothing, Seen

\* The local states a request goes on with.
LEMMA LateRequest == ASSUME NEW r \in Request PROVE [r EXCEPT !.late = TRUE] \in Request
  BY DEF Request

LEMMA SawRequest ==
  ASSUME NEW r \in Request, NEW s \in Seen
  PROVE  [r EXCEPT !.saw = s] \in Request
  BY DEF Request

LEMMA BuildRequest ==
  ASSUME NEW r \in Request, NEW l \in 0..MaxLife, NEW e \in 0..MaxEpoch
  PROVE  [r EXCEPT !.life = l, !.epoch = e] \in Request
  BY DEF Request

LEMMA DeleteRequest == ASSUME NEW r \in Request PROVE [r EXCEPT !.kind = "delete"] \in Request
  BY DEF Request

LEMMA SweepRequest ==
  ASSUME NEW r \in Request, NEW U \in SUBSET Users
  PROVE  [r EXCEPT !.kind = "sweep", !.todo = U] \in Request
  BY DEF Request

LEMMA SweptRequest ==
  ASSUME NEW r \in Request, NEW U \in SUBSET Users, NEW V \in SUBSET Users
  PROVE  [r EXCEPT !.todo = U, !.gone = V] \in Request
  BY DEF Request

LEMMA ListedRequest ==
  ASSUME TypeOK, NEW r \in Request, NEW u \in Users
  PROVE  Listed(r, u) \in Request /\ Listed(r, u).user = r.user /\ Listed(r, u).target = u
  BY DEF Request, Listed, TypeOK

LEMMA PurgedRequest ==
  ASSUME NEW r \in Request, NEW b \in BOOLEAN
  PROVE  [r EXCEPT !.committed = b, !.gone = {}, !.held = None] \in Request
  BY DEF Request

LEMMA RemovedRequest ==
  ASSUME NEW r \in Request, NEW U \in SUBSET Users, NEW V \in SUBSET Users
  PROVE  [r EXCEPT !.todo = U, !.gone = V, !.target = None, !.listed = FALSE, !.path = FALSE] \in Request
  BY DEF Request

LEMMA UserRequest ==
  ASSUME NEW r \in Request, NEW u \in Users
  PROVE  [r EXCEPT !.user = u] \in Request /\ [r EXCEPT !.user = u].user = u
  BY DEF Request

LEMMA GotoTyped ==
  ASSUME TypeOK, NEW w \in Workers, NEW p \in PCs, NEW r \in Request, Goto(w, p, r)
  PROVE  pc' \in [Workers -> PCs] /\ req' \in [Workers -> Request]
  BY DEF TypeOK, Goto

LEMMA EndTyped ==
  ASSUME LifecycleAssumption, TypeOK, NEW w \in Workers, End(w)
  PROVE  pc' \in [Workers -> PCs] /\ req' \in [Workers -> Request] /\ rowLock' \in Workers \cup {None}
<1>1. Goto(w, "idle", NoRequest) /\ "idle" \in PCs
  BY PCsKnown DEF End
<1>2. rowLock' \in Workers \cup {None}
  BY DEF End, Released, TypeOK
<1> QED BY <1>1, <1>2, NoRequestTyped, GotoTyped

LEMMA LateTyped ==
  ASSUME LifecycleAssumption, TypeOK, NEW w \in Workers, NEW r \in Request
  PROVE  WithLate(w, r) \in [Workers -> Request]
<1>1. \A p \in Workers : [req[p] EXCEPT !.late = TRUE] \in Request
  BY LateRequest DEF TypeOK
<1> QED BY <1>1 DEF WithLate, TypeOK

\* What w does leaves the requests of the others where they are, but for "late".
OthersStay(w) ==
    \A p \in Workers \ {w} :
        /\ pc'[p] = pc[p] /\ req'[p].user = req[p].user /\ req'[p].saw = req[p].saw
        /\ req'[p].held = req[p].held /\ req'[p].target = req[p].target
        /\ req[p].late => req'[p].late

LEMMA GotoStays ==
  ASSUME TypeOK, NEW w \in Workers, NEW p, NEW r, Goto(w, p, r)
  PROVE  OthersStay(w) /\ pc'[w] = p /\ req'[w] = r
  BY DEF TypeOK, Goto, OthersStay

LEMMA LateStays ==
  ASSUME TypeOK, NEW w \in Workers, NEW p, NEW r, pc' = [pc EXCEPT ![w] = p], req' = WithLate(w, r)
  PROVE  /\ OthersStay(w) /\ pc'[w] = p /\ req'[w] = r
         /\ \A q \in Workers \ {w} : pc[q] = "purged" => req'[q].late
  BY DEF TypeOK, WithLate, OthersStay, Request

\* A step of w that takes no lock from another, and removes no row from under one.
LEMMA StepKnows ==
  ASSUME TInv, NEW w \in Workers, OthersStay(w),
         pc'[w] # "idle" => req'[w].user \in Users,
         pc'[w] \in Purging => req'[w].target \in Users,
         pc'[w] = "activate" => rowLock' = w /\ repo' # None,
         \A p \in Workers \ {w} : rowLock = p => rowLock' = p /\ (repo # None => repo' # None)
  PROVE  RequestsKnow'
  BY DEF TInv, RequestsKnow, OthersStay

LEMMA EndStays ==
  ASSUME LifecycleAssumption, TypeOK, NEW w \in Workers, End(w)
  PROVE  /\ OthersStay(w) /\ pc'[w] = "idle"
         /\ \A p \in Workers \ {w} : rowLock = p => rowLock' = p
  BY GotoStays DEF End, Released, LifecycleAssumption

\* A request that ends, and changes no row but of another kind.
LEMMA EndKnows ==
  ASSUME LifecycleAssumption, TInv, NEW w \in Workers, End(w), repo # None => repo' # None
  PROVE  RequestsKnow'
<1>1. OthersStay(w) /\ pc'[w] = "idle" /\ \A p \in Workers \ {w} : rowLock = p => rowLock' = p
  BY EndStays DEF TInv
<1> QED BY <1>1, StepKnows, PCsKnown

LEMMA GotoKnows ==
  ASSUME TInv, NEW w \in Workers, NEW p \in PCs \ {"idle", "activate"}, NEW r, Goto(w, p, r), r.user \in Users,
         p \in Purging => r.target \in Users, UNCHANGED rowLock, repo # None => repo' # None
  PROVE  RequestsKnow'
<1>1. OthersStay(w) /\ pc'[w] = p /\ req'[w] = r
  BY GotoStays DEF TInv
<1> QED BY <1>1, StepKnows, PCsKnown

LEMMA ArriveTyped ==
  ASSUME LifecycleAssumption, TInv, NEW w \in Workers, Arrive(w)
  PROVE  TInv'
<1> USE DEF TInv
<1>1. PICK u \in Users, p \in {"handle", "sweep"}, r \in Request : Goto(w, p, r) /\ r.user = u
  <2>1. PICK u \in Users : \/ Goto(w, "handle", [NoRequest EXCEPT !.user = u])
                           \/ Goto(w, "sweep", [[NoRequest EXCEPT !.user = u] EXCEPT
                                 !.kind = "sweep", !.todo = {v \in Users : account[v] = "stale"}])
    BY DEF Arrive
  <2>2. [NoRequest EXCEPT !.user = u] \in Request /\ [NoRequest EXCEPT !.user = u].user = u
    BY NoRequestTyped, UserRequest
  <2>3. \A U \in SUBSET Users :
          /\ [[NoRequest EXCEPT !.user = u] EXCEPT !.kind = "sweep", !.todo = U] \in Request
          /\ [[NoRequest EXCEPT !.user = u] EXCEPT !.kind = "sweep", !.todo = U].user = u
    BY <2>2, SweepRequest DEF Request
  <2> QED BY <2>1, <2>2, <2>3
<1>2. UNCHANGED <<rows, stored, rowLock>>
  BY DEF Arrive
<1>3. TypeOK'
  BY <1>1, <1>2, GotoTyped, PCsKnown DEF rows, TypeOK
<1> QED BY <1>1, <1>2, <1>3, GotoKnows, PCsKnown DEF rows

LEMMA SweepTyped ==
  ASSUME LifecycleAssumption, TInv, NEW w \in Workers, SweepUser(w) \/ SweepCommit(w)
  PROVE  TInv'
<1> USE DEF TInv
<1>0. req[w] \in Request /\ req[w].user \in Users
  BY DEF SweepUser, SweepCommit, RequestsKnow, TypeOK
<1>1. CASE SweepUser(w)
  <2>1. PICK u \in req[w].todo :
          \/ End(w)
          \/ UNCHANGED rowLock /\ Goto(w, "purge", Listed(req[w], u))
          \/ UNCHANGED rowLock /\ Goto(w, "sweep", [req[w] EXCEPT !.todo = @ \ {u}, !.gone = @ \cup {u}])
    BY <1>1 DEF SweepUser
  <2>2. u \in Users /\ UNCHANGED <<rows, stored>>
    BY <1>0, <1>1 DEF SweepUser, Request
  <2>3. Listed(req[w], u) \in Request /\ Listed(req[w], u).user \in Users /\ Listed(req[w], u).target \in Users
    BY <1>0, <2>2, ListedRequest
  <2>4. /\ [req[w] EXCEPT !.todo = @ \ {u}, !.gone = @ \cup {u}] \in Request
        /\ [req[w] EXCEPT !.todo = @ \ {u}, !.gone = @ \cup {u}].user \in Users
    BY <1>0, <2>2, SweptRequest DEF Request
  <2>5. CASE End(w)
    BY <2>2, <2>5, EndTyped, EndKnows DEF TypeOK, rows
  <2>6. CASE UNCHANGED rowLock /\ Goto(w, "purge", Listed(req[w], u))
    BY <2>2, <2>3, <2>6, GotoTyped, GotoKnows, PCsKnown DEF TypeOK, rows
  <2>7. CASE UNCHANGED rowLock /\ Goto(w, "sweep", [req[w] EXCEPT !.todo = @ \ {u}, !.gone = @ \cup {u}])
    BY <2>2, <2>4, <2>7, GotoTyped, GotoKnows, PCsKnown DEF TypeOK, rows
  <2> QED BY <2>1, <2>5, <2>6, <2>7
<1>2. CASE SweepCommit(w)
  <2>1. UNCHANGED <<repo, revision, member, lives, stored>>
    BY <1>2 DEF SweepCommit
  <2>2. account' \in [Users -> {"none", "active", "stale"}]
    BY <1>2 DEF SweepCommit, TypeOK
  <2>3. CASE End(w)
    BY <2>1, <2>2, <2>3, EndTyped, EndKnows DEF TypeOK
  <2>4. CASE Goto(w, "handle", [NoRequest EXCEPT !.user = req[w].user]) /\ UNCHANGED rowLock
    <3>1. /\ [NoRequest EXCEPT !.user = req[w].user] \in Request
          /\ [NoRequest EXCEPT !.user = req[w].user].user \in Users
      BY <1>0, NoRequestTyped, UserRequest
    <3> QED BY <2>1, <2>2, <2>4, <3>1, GotoTyped, GotoKnows, PCsKnown DEF TypeOK
  <2> QED BY <1>2, <2>3, <2>4 DEF SweepCommit
<1> QED BY <1>1, <1>2

LEMMA TouchedTyped ==
  ASSUME TypeOK, NEW w \in Workers, Touched(w)
  PROVE  account' \in [Users -> {"none", "active", "stale"}]
  BY DEF Touched, TypeOK

LEMMA RevokedTyped ==
  ASSUME TypeOK, NEW u \in Users
  PROVE  Revoked(u) \in [Users -> MemberRow \cup {None}]
<1>1. Revoked(u) = [member EXCEPT ![u] = IF member[u] = None THEN None ELSE [member[u] EXCEPT !.status = "revoked"]]
  BY DEF Revoked
<1>2. member[u] # None => [member[u] EXCEPT !.status = "revoked"] \in MemberRow
  BY DEF TypeOK, MemberRow
<1> QED BY <1>1, <1>2 DEF TypeOK

LEMMA HandleTyped ==
  ASSUME LifecycleAssumption, TInv, NEW w \in Workers, Touch(w) \/ DeleteStart(w) \/ Probe(w) \/ Ask(w)
  PROVE  TInv'
<1> USE DEF TInv
<1>0. req[w] \in Request /\ req[w].user \in Users
  BY DEF Touch, DeleteStart, Probe, Ask, RequestsKnow, TypeOK
<1>a. account' \in [Users -> {"none", "active", "stale"}]
  BY TouchedTyped DEF Touch, DeleteStart, Probe, Ask
<1>b. UNCHANGED <<repo, revision, lives, stored>>
  BY DEF Touch, DeleteStart, Probe, Ask
<1>c. Revoked(req[w].user) \in [Users -> MemberRow \cup {None}]
  BY <1>0, RevokedTyped
<1>1. ASSUME End(w), UNCHANGED member \/ member' = Revoked(req[w].user) PROVE TInv'
  BY <1>1, <1>a, <1>b, <1>c, EndTyped, EndKnows DEF TypeOK
<1>2. CASE Touch(w)
  BY <1>1, <1>2 DEF Touch
<1>3. CASE DeleteStart(w)
  <2> DEFINE r == [req[w] EXCEPT !.kind = "delete"]
  <2>1. r \in Request
    BY <1>0, DeleteRequest
  <2>2. Listed(r, req[w].user) \in Request
    <3> HIDE DEF r
    <3> QED BY <1>0, <2>1, ListedRequest
  <2>3. Listed(r, req[w].user).user \in Users /\ Listed(r, req[w].user).target \in Users
    BY <1>0 DEF Listed, Request
  <2>4. CASE UNCHANGED <<member, rowLock>> /\ Goto(w, "purge", Listed(r, req[w].user))
    BY <1>a, <1>b, <2>2, <2>3, <2>4, GotoTyped, GotoKnows, PCsKnown DEF TypeOK
  <2> QED BY <1>1, <1>3, <2>4 DEF DeleteStart
<1>4. CASE Probe(w)
  <2>1. CASE Goto(w, "join", req[w]) /\ UNCHANGED <<member, rowLock>>
    BY <1>0, <1>a, <1>b, <2>1, GotoTyped, GotoKnows, PCsKnown DEF TypeOK
  <2> QED BY <1>1, <1>4, <2>1 DEF Probe
<1>5. CASE Ask(w)
  <2>1. CASE UNCHANGED <<member, rowLock>> /\ pc' = [pc EXCEPT ![w] = "record"] /\ req' = WithLate(w, req[w])
    <3>1. OthersStay(w) /\ pc'[w] = "record" /\ req'[w] = req[w]
      BY <2>1, LateStays
    <3>2. TypeOK'
      BY <1>0, <1>a, <1>b, <2>1, LateTyped, PCsKnown DEF TypeOK
    <3> QED BY <1>0, <1>b, <2>1, <3>1, <3>2, StepKnows, PCsKnown
  <2> QED BY <1>1, <1>5, <2>1 DEF Ask
<1> QED BY <1>2, <1>3, <1>4, <1>5

LEMMA PurgeTyped ==
  ASSUME LifecycleAssumption, TInv, NEW w \in Workers, PurgeWrite(w) \/ PurgeCommit(w) \/ DeleteStores(w)
  PROVE  TInv'
<1> USE DEF TInv
<1>0. req[w] \in Request /\ req[w].user \in Users
  BY DEF PurgeWrite, PurgeCommit, DeleteStores, RequestsKnow, TypeOK
<1>a. req[w].target \in Users
  BY PCsKnown DEF PurgeWrite, PurgeCommit, DeleteStores, RequestsKnow
<1>1. CASE PurgeWrite(w)
  <2>1. UNCHANGED <<rows, stored>>
    BY <1>1 DEF PurgeWrite
  <2>2. CASE End(w)
    BY <2>1, <2>2, EndTyped, EndKnows DEF TypeOK, rows
  <2>3. CASE /\ Goto(w, "purged", req[w]) /\ (Clears(req[w].held) => RowFree(w))
             /\ rowLock' = IF Clears(req[w].held) THEN w ELSE rowLock
    <3>1. OthersStay(w) /\ pc'[w] = "purged" /\ req'[w] = req[w]
      BY <2>3, GotoStays
    <3>2. TypeOK'
      BY <1>0, <2>1, <2>3, GotoTyped, PCsKnown DEF TypeOK, rows
    <3>3. \A p \in Workers \ {w} : rowLock = p => rowLock' = p
      BY <2>3 DEF RowFree, LifecycleAssumption
    <3> QED BY <1>0, <1>a, <2>1, <3>1, <3>2, <3>3, StepKnows DEF rows
  <2> QED BY <1>1, <2>2, <2>3 DEF PurgeWrite
<1>2. CASE PurgeCommit(w)
  <2>1. CASE End(w) /\ UNCHANGED <<rows, stored>>
    BY <2>1, EndTyped, EndKnows DEF TypeOK, rows
  <2>2. CASE ~req[w].late
    <3> DEFINE r == [req[w] EXCEPT !.committed = req[w].kind = "sweep", !.gone = {}, !.held = None]
    <3>1. /\ RowFree(w) /\ repo' = None /\ revision' = RevisionIn("none") /\ member' = [u \in Users |-> None]
          /\ account' = [u \in Users |-> IF u \in req[w].gone THEN "none" ELSE account[u]]
          /\ Goto(w, "stores", r) /\ rowLock' = Released(w) /\ UNCHANGED <<lives, stored>>
      BY <1>2, <2>2 DEF PurgeCommit
    <3>2. r \in Request /\ r.user \in Users /\ r.target \in Users
      BY <1>0, <1>a, PurgedRequest DEF Request
    <3>3. OthersStay(w) /\ pc'[w] = "stores" /\ req'[w] = r
      <4> HIDE DEF r
      <4> QED BY <3>1, GotoStays
    <3>4. /\ account' \in [Users -> {"none", "active", "stale"}] /\ revision' \in RevisionRow
          /\ rowLock' \in Workers \cup {None}
      BY <3>1 DEF TypeOK, RevisionIn, RevisionRow, Released
    <3>5. pc' \in [Workers -> PCs] /\ req' \in [Workers -> Request]
      <4> HIDE DEF r
      <4> QED BY <3>1, <3>2, GotoTyped, PCsKnown
    <3>6. TypeOK'
      BY <3>1, <3>4, <3>5 DEF TypeOK
    <3>7. \A p \in Workers \ {w} : rowLock # p
      BY <3>1 DEF RowFree, LifecycleAssumption
    <3> HIDE DEF r
    <3> QED BY <3>2, <3>3, <3>6, <3>7, StepKnows
  <2> QED BY <1>2, <2>1, <2>2 DEF PurgeCommit
<1>3. CASE DeleteStores(w)
  <2>1. stored' \subseteq Stores /\ UNCHANGED rows
    BY <1>3 DEF DeleteStores, TypeOK
  <2>2. CASE End(w)
    BY <2>1, <2>2, EndTyped, EndKnows DEF TypeOK, rows
  <2>3. CASE /\ Goto(w, "sweep", [req[w] EXCEPT
                   !.todo = @ \ {req[w].target}, !.gone = @ \cup {req[w].target},
                   !.target = None, !.listed = FALSE, !.path = FALSE])
             /\ UNCHANGED rowLock
    <3> DEFINE r == [req[w] EXCEPT !.todo = @ \ {req[w].target}, !.gone = @ \cup {req[w].target},
                                   !.target = None, !.listed = FALSE, !.path = FALSE]
    <3>1. r \in Request /\ r.user \in Users
      BY <1>0, <1>a, RemovedRequest DEF Request
    <3>2. Goto(w, "sweep", r) /\ UNCHANGED rowLock
      BY <2>3
    <3> HIDE DEF r
    <3> QED BY <2>1, <3>1, <3>2, GotoTyped, GotoKnows, PCsKnown DEF TypeOK, rows
  <2> QED BY <1>3, <2>2, <2>3 DEF DeleteStores
<1> QED BY <1>1, <1>2, <1>3

\* What becomes of the row while it is there.
LEMMA RowTyped ==
  ASSUME LifecycleAssumption, TypeOK, repo # None
  PROVE  /\ [repo EXCEPT !.running = FALSE, !.owner = None, !.beat = FALSE] \in RepositoryRow
         /\ [repo EXCEPT !.running = FALSE, !.owner = None, !.lease = FALSE] \in RepositoryRow
         /\ [repo EXCEPT !.running = FALSE, !.owner = None, !.lease = FALSE, !.beat = FALSE, !.active = TRUE]
              \in RepositoryRow
         /\ [repo EXCEPT !.lease = FALSE] \in RepositoryRow
         /\ None \notin RepositoryRow
<1>1. repo \in RepositoryRow
  BY DEF TypeOK
<1> QED BY <1>1 DEF RepositoryRow, LifecycleAssumption

LEMMA SeeTyped ==
  ASSUME LifecycleAssumption, TypeOK, NEW r \in Request, NEW b \in BOOLEAN
  PROVE  /\ SeeRepository(r) \in Request /\ SeeRepository(r).user = r.user
         /\ SeeMember(r) \in Request /\ SeeMember(r).user = r.user
         /\ [r EXCEPT !.saw.others = b] \in Request /\ [r EXCEPT !.saw.others = b].user = r.user
<1>1. (IF repo = None THEN 0 ELSE repo.life) \in 0..MaxLife
  BY DEF TypeOK, RepositoryRow, LifecycleAssumption
<1>2. [r.saw EXCEPT !.user = account[r.user] # "none", !.life = IF repo = None THEN 0 ELSE repo.life] \in Seen
  BY <1>1 DEF Request, Seen
<1>3. SeeRepository(r) = [r EXCEPT !.saw = [r.saw EXCEPT !.user = account[r.user] # "none",
                                             !.life = IF repo = None THEN 0 ELSE repo.life]]
  BY DEF SeeRepository, Request, Seen
<1>4. [r.saw EXCEPT !.member = r.user \in Members,
                    !.revoked = r.user \in Members /\ member[r.user].status = "revoked"] \in Seen
  <2> DEFINE p == r.user \in Members
             q == r.user \in Members /\ member[r.user].status = "revoked"
  <2>1. p \in BOOLEAN /\ q \in BOOLEAN
    OBVIOUS
  <2> HIDE DEF p, q
  <2>2. [r.saw EXCEPT !.member = p, !.revoked = q] \in Seen
    BY <2>1 DEF Request, Seen
  <2> QED BY <2>2 DEF p, q
<1>5. SeeMember(r) = [r EXCEPT !.saw = [r.saw EXCEPT !.member = r.user \in Members,
                          !.revoked = r.user \in Members /\ member[r.user].status = "revoked"]]
  BY DEF SeeMember, Request, Seen
<1>6. [r EXCEPT !.saw.others = b] \in Request /\ [r EXCEPT !.saw.others = b].user = r.user
  BY DEF Request, Seen
<1>7. \A s \in Seen : [r EXCEPT !.saw = s] \in Request /\ [r EXCEPT !.saw = s].user = r.user
  BY SawRequest DEF Request
<1>8. SeeRepository(r) \in Request /\ SeeRepository(r).user = r.user
  BY <1>2, <1>3, <1>7
<1>9. SeeMember(r) \in Request /\ SeeMember(r).user = r.user
  BY <1>4, <1>5, <1>7
<1> QED BY <1>6, <1>8, <1>9

LEMMA JoinReadsTyped ==
  ASSUME LifecycleAssumption, TInv, NEW w \in Workers, JoinRepository(w) \/ JoinMember(w) \/ JoinOthers(w)
  PROVE  TInv'
<1> USE DEF TInv
<1>1. req[w] \in Request /\ req[w].user \in Users /\ UNCHANGED <<rows, stored>>
  BY DEF JoinRepository, JoinMember, JoinOthers, RequestsKnow, TypeOK
<1>2. CASE End(w)
  BY <1>1, <1>2, EndTyped, EndKnows DEF TypeOK, rows
<1>3. ASSUME NEW p \in {"member", "others", "commit"}, NEW r \in Request, r.user \in Users, Goto(w, p, r),
             UNCHANGED rowLock
      PROVE  TInv'
  BY <1>1, <1>3, GotoTyped, GotoKnows, PCsKnown DEF TypeOK, rows
<1>4. CASE JoinRepository(w)
  BY <1>1, <1>2, <1>3, <1>4, SeeTyped DEF JoinRepository
<1>5. CASE JoinMember(w)
  BY <1>1, <1>3, <1>5, SeeTyped DEF JoinMember
<1>6. CASE JoinOthers(w)
  BY <1>1, <1>3, <1>6, SeeTyped DEF JoinOthers
<1> QED BY <1>4, <1>5, <1>6

LEMMA JoinTyped ==
  ASSUME LifecycleAssumption, TInv, NEW w \in Workers, JoinCommit(w)
  PROVE  TInv'
<1> USE DEF TInv
<1> DEFINE r == req[w]
           first == r.saw.life = 0
           next == [r EXCEPT !.saw = Nothing]
<1>0. r \in Request /\ r.user \in Users
  BY DEF JoinCommit, RequestsKnow, TypeOK
<1>1. next \in Request /\ next.user = r.user
  <2>1. Nothing \in Seen
    BY DEF Nothing, Seen, LifecycleAssumption
  <2> QED BY <1>0, <2>1, SawRequest DEF Request
<1>2. CASE End(w) /\ UNCHANGED <<rows, stored>>
  BY <1>2, EndTyped, EndKnows DEF TypeOK, rows
<1>3. ASSUME NEW token \in BOOLEAN, ~JoinConflict(r, token),
             /\ lives' = IF first THEN lives + 1 ELSE lives
             /\ repo' = IF first THEN NewRow(lives + 1) ELSE repo
             /\ member' = [member EXCEPT ![r.user] = Joined(r, IF first THEN lives + 1 ELSE r.saw.life)]
             /\ account' = [account EXCEPT ![r.user] = IF r.saw.user THEN @ ELSE "active"]
             /\ pc' = [pc EXCEPT ![w] = "plan"]
             /\ req' = IF ~r.saw.member \/ token THEN WithLate(w, next) ELSE [req EXCEPT ![w] = next]
             /\ UNCHANGED <<revision, rowLock, stored>>
      PROVE  TInv'
  <2>1. lives' \in 0..MaxLife /\ (first => lives + 1 \in 1..MaxLife)
    BY <1>3 DEF JoinConflict, TypeOK, LifecycleAssumption
  <2>2. repo' \in RepositoryRow \cup {None} /\ (repo # None => repo' # None)
    <3>1. first => NewRow(lives + 1) \in RepositoryRow
      BY <2>1 DEF NewRow, RepositoryRow, LifecycleAssumption
    <3>2. None \notin RepositoryRow
      BY DEF LifecycleAssumption
    <3> QED BY <1>3, <3>1, <3>2 DEF TypeOK
  <2>a. (IF first THEN lives + 1 ELSE r.saw.life) \in 1..MaxLife
    BY <1>0, <2>1 DEF Request, Seen
  <2>b. account' \in [Users -> {"none", "active", "stale"}]
    BY <1>0, <1>3 DEF TypeOK
  <2>3. Joined(r, IF first THEN lives + 1 ELSE r.saw.life) \in MemberRow \cup {None}
    <3>1. CASE ~r.saw.member
      BY <2>a, <3>1 DEF Joined, NewRole, MemberRow
    <3>2. CASE r.saw.member /\ r.saw.revoked
      <4>1. member[r.user] \in MemberRow
        BY <1>0, <1>3, <3>2 DEF JoinConflict, Members, TypeOK
      <4> QED BY <3>2, <4>1 DEF Joined, MemberRow
    <3>3. CASE r.saw.member /\ ~r.saw.revoked
      BY <1>0, <3>3 DEF Joined, TypeOK
    <3> QED BY <3>1, <3>2, <3>3
  <2>4. member' \in [Users -> MemberRow \cup {None}]
    <3> HIDE DEF r, first
    <3> QED BY <1>3, <2>3 DEF TypeOK
  <2> HIDE DEF r, next, first
  <2>5. req' \in [Workers -> Request] /\ OthersStay(w) /\ pc'[w] = "plan" /\ req'[w] = next
    <3>0. pc' = [pc EXCEPT ![w] = "plan"] /\ (req' = WithLate(w, next) \/ req' = [req EXCEPT ![w] = next])
      BY <1>3
    <3>1. CASE req' = WithLate(w, next)
      BY <1>1, <3>0, <3>1, LateTyped, LateStays
    <3>2. CASE req' = [req EXCEPT ![w] = next]
      BY <1>1, <3>0, <3>2 DEF OthersStay, TypeOK
    <3> QED BY <3>0, <3>1, <3>2
  <2>6. TypeOK'
    BY <1>3, <2>1, <2>2, <2>b, <2>4, <2>5, PCsKnown DEF TypeOK
  <2> QED BY <1>0, <1>1, <1>3, <2>2, <2>5, <2>6, StepKnows, PCsKnown
<1> HIDE DEF next
<1> QED BY <1>2, <1>3 DEF JoinCommit, next

LEMMA PlanTyped ==
  ASSUME LifecycleAssumption, TInv, NEW w \in Workers, Plan(w)
  PROVE  TInv'
<1> USE DEF TInv
<1>0. req[w] \in Request /\ req[w].user \in Users
  BY DEF Plan, RequestsKnow, TypeOK
<1>1. UNCHANGED <<revision, member, account, lives, stored>>
  BY DEF Plan
<1>2. repo' \in RepositoryRow \cup {None} /\ (repo # None => repo' # None)
  BY RowTyped DEF Plan, TypeOK
<1>3. CASE End(w)
  BY <1>1, <1>2, <1>3, EndTyped, EndKnows DEF TypeOK
<1>4. CASE /\ pc' = [pc EXCEPT ![w] = "idle"] /\ req' = WithLate(w, NoRequest) /\ UNCHANGED rowLock
  <2>1. OthersStay(w) /\ pc'[w] = "idle"
    BY <1>4, LateStays
  <2>2. TypeOK'
    BY <1>1, <1>2, <1>4, LateTyped, NoRequestTyped, PCsKnown DEF TypeOK
  <2> QED BY <1>2, <1>4, <2>1, <2>2, StepKnows, PCsKnown
<1>5. CASE Goto(w, "begin", req[w]) /\ UNCHANGED rowLock
  BY <1>0, <1>1, <1>2, <1>5, GotoTyped, GotoKnows, PCsKnown DEF TypeOK
<1> QED BY <1>3, <1>4, <1>5 DEF Plan

LEMMA BeginTyped ==
  ASSUME LifecycleAssumption, TInv, NEW w \in Workers, Begin(w)
  PROVE  TInv'
<1> USE DEF TInv
<1>0. req[w] \in Request /\ req[w].user \in Users
  BY DEF Begin, RequestsKnow, TypeOK
<1>1. stored' \subseteq Stores
  BY DEF Begin, Stores, TypeOK
<1>2. CASE End(w) /\ UNCHANGED rows
  BY <1>1, <1>2, EndTyped, EndKnows DEF TypeOK, rows
<1>3. CASE ~(End(w) /\ UNCHANGED rows)
  <2> DEFINE r == [req[w] EXCEPT !.life = repo.life, !.epoch = repo.epoch + 1]
             reuse == Recovers \/ revision.state = "ready"
  <2>1. /\ repo # None /\ repo.epoch < MaxEpoch
        /\ repo' = [repo EXCEPT !.running = TRUE, !.owner = req[w].user, !.beat = TRUE,
                                !.epoch = @ + 1, !.lease = TRUE]
        /\ revision' = IF reuse THEN RevisionIn("ready")
                       ELSE [state |-> "creating", by |-> req[w].user, dir |-> w]
        /\ pc' = [pc EXCEPT ![w] = IF reuse THEN "build" ELSE "write"]
        /\ req' = WithLate(w, r)
        /\ UNCHANGED <<member, account, lives, rowLock>>
    BY <1>3 DEF Begin
  <2>2. repo \in RepositoryRow /\ repo.epoch + 1 \in 0..MaxEpoch /\ repo.life \in 0..MaxLife
    BY <2>1 DEF TypeOK, RepositoryRow, LifecycleAssumption
  <2>3. repo' \in RepositoryRow /\ repo' # None
    BY <1>0, <2>1, <2>2 DEF RepositoryRow, LifecycleAssumption
  <2>4. revision' \in RevisionRow
    BY <1>0, <2>1 DEF RevisionIn, RevisionRow
  <2>5. r \in Request /\ r.user = req[w].user
    BY <1>0, <2>2, BuildRequest DEF Request
  <2> HIDE DEF r, reuse
  <2>6. PICK p \in {"build", "write"} : pc' = [pc EXCEPT ![w] = p]
    BY <2>1
  <2>7. OthersStay(w) /\ pc'[w] = p /\ req'[w] = r
    BY <2>1, <2>6, LateStays
  <2>8. TypeOK'
    BY <1>1, <2>1, <2>3, <2>4, <2>5, <2>6, LateTyped, PCsKnown DEF TypeOK
  <2> QED BY <1>0, <2>1, <2>3, <2>5, <2>6, <2>7, <2>8, StepKnows, PCsKnown
<1> QED BY <1>2, <1>3

LEMMA BuildTyped ==
  ASSUME LifecycleAssumption, TInv, NEW w \in Workers,
         WriteTree(w) \/ Publish(w) \/ Build(w) \/ Activate(w) \/ Fails(w) \/ FailIfOwner(w)
  PROVE  TInv'
<1> USE DEF TInv
<1>0. req[w] \in Request /\ req[w].user \in Users
  BY PCsKnown DEF WriteTree, Publish, Build, Activate, Fails, FailIfOwner, RequestsKnow, TypeOK, Building
<1>1. CASE WriteTree(w)
  <2>1. stored' \subseteq Stores /\ UNCHANGED <<rows, rowLock>> /\ Goto(w, "publish", req[w])
    BY <1>1 DEF WriteTree, Stores, TypeOK
  <2> QED BY <1>0, <2>1, GotoTyped, GotoKnows, PCsKnown DEF TypeOK, rows
<1>2. CASE Publish(w)
  <2>1. /\ stored' \subseteq Stores /\ revision' \in RevisionRow
        /\ UNCHANGED <<repo, member, account, lives, rowLock>>
    BY <1>2 DEF Publish, Stores, TypeOK, RevisionIn, RevisionRow
  <2>2. PICK p \in {"fail", "build"} : Goto(w, p, req[w])
    BY <1>2 DEF Publish
  <2> QED BY <1>0, <2>1, <2>2, GotoTyped, GotoKnows, PCsKnown DEF TypeOK
<1>3. CASE Build(w)
  <2>1. /\ RowFree(w) /\ repo # None /\ rowLock' = w /\ stored' \subseteq Stores /\ UNCHANGED rows
        /\ Goto(w, "activate", req[w])
    BY <1>3 DEF Build, Owns, Stores, TypeOK
  <2>2. OthersStay(w) /\ pc'[w] = "activate" /\ req'[w] = req[w]
    BY <2>1, GotoStays
  <2>3. TypeOK'
    BY <1>0, <2>1, GotoTyped, PCsKnown DEF TypeOK, rows
  <2>4. \A p \in Workers \ {w} : rowLock # p
    BY <2>1 DEF RowFree, LifecycleAssumption
  <2> QED BY <1>0, <2>1, <2>2, <2>3, <2>4, StepKnows, PCsKnown DEF rows
<1>4. CASE Activate(w)
  <2>1. repo # None
    BY <1>4 DEF Activate, RequestsKnow
  <2>2. /\ repo' \in RepositoryRow /\ repo' # None /\ End(w)
        /\ UNCHANGED <<revision, member, account, lives, stored>>
    BY <1>4, <2>1, RowTyped DEF Activate
  <2> QED BY <2>2, EndTyped, EndKnows DEF TypeOK
<1>5. CASE Fails(w)
  <2>1. Goto(w, "fail", req[w]) /\ rowLock' = Released(w) /\ UNCHANGED <<rows, stored>>
    BY <1>5 DEF Fails
  <2>2. OthersStay(w) /\ pc'[w] = "fail" /\ req'[w] = req[w]
    BY <2>1, GotoStays
  <2>3. TypeOK'
    BY <1>0, <2>1, GotoTyped, PCsKnown DEF TypeOK, rows, Released
  <2>4. \A p \in Workers \ {w} : rowLock = p => rowLock' = p
    BY <2>1 DEF Released
  <2> QED BY <1>0, <2>1, <2>2, <2>3, <2>4, StepKnows, PCsKnown DEF rows
<1>6. CASE FailIfOwner(w)
  <2>1. revision' \in RevisionRow /\ stored' \subseteq Stores /\ End(w) /\ UNCHANGED <<member, account, lives>>
    BY <1>6 DEF FailIfOwner, RevisionIn, RevisionRow, TypeOK
  <2>2. repo' \in RepositoryRow \cup {None} /\ (repo # None => repo' # None)
    BY <1>6, RowTyped DEF FailIfOwner, Owns, TypeOK
  <2> QED BY <2>1, <2>2, EndTyped, EndKnows DEF TypeOK
<1> QED BY <1>1, <1>2, <1>3, <1>4, <1>5, <1>6

LEMMA OtherTyped ==
  ASSUME LifecycleAssumption, TInv,
         \/ \E w \in Workers : Record(w) \/ Crash(w)
         \/ LeaseLapses
         \/ \E u \in Users : GoesStale(u)
         \/ UNCHANGED vars
  PROVE  TInv'
<1> USE DEF TInv
<1>1. ASSUME NEW w \in Workers, Record(w) PROVE TInv'
  <2>1. UNCHANGED <<rows, stored, rowLock>> /\ pc' = [pc EXCEPT ![w] = "idle"]
    BY <1>1 DEF Record
  <2>2. req' \in [Workers -> Request] /\ OthersStay(w) /\ pc'[w] = "idle"
    <3>1. CASE req' = [req EXCEPT ![w] = NoRequest]
      BY <2>1, <3>1, NoRequestTyped DEF TypeOK, OthersStay
    <3>2. CASE req' = WithLate(w, NoRequest)
      BY <2>1, <3>2, NoRequestTyped, LateTyped, LateStays
    <3> QED BY <1>1, <3>1, <3>2 DEF Record
  <2>3. TypeOK'
    BY <2>1, <2>2, PCsKnown DEF TypeOK, rows
  <2> QED BY <2>1, <2>2, <2>3, StepKnows, PCsKnown DEF rows
<1>2. ASSUME NEW w \in Workers, Crash(w) PROVE TInv'
  BY <1>2, EndTyped, EndKnows DEF Crash, TypeOK, rows
<1>3. CASE LeaseLapses
  <2>1. repo # None
    BY <1>3 DEF LeaseLapses, LeaseHeld
  <2> QED BY <1>3, <2>1, RowTyped DEF LeaseLapses, TypeOK, RequestsKnow
<1>4. ASSUME NEW u \in Users, GoesStale(u) PROVE TInv'
  BY <1>4 DEF GoesStale, TypeOK, RequestsKnow
<1>5. CASE UNCHANGED vars
  BY <1>5 DEF vars, rows, TypeOK, RequestsKnow
<1> QED BY <1>1, <1>2, <1>3, <1>4, <1>5

LEMMA NextTyped ==
  ASSUME LifecycleAssumption, TInv, [Next]_vars
  PROVE  TInv'
  BY ArriveTyped, SweepTyped, HandleTyped, PurgeTyped, JoinReadsTyped, JoinTyped, PlanTyped, BeginTyped, BuildTyped, OtherTyped
     DEF Next

LEMMA InitTyped ==
  ASSUME LifecycleAssumption, Init
  PROVE  TInv
<1>1. TypeOK
  BY NoRequestTyped, PCsKnown DEF Init, TypeOK, LifecycleAssumption, RevisionIn, RevisionRow
<1>2. RequestsKnow
  BY PCsKnown DEF Init, RequestsKnow
<1> QED BY <1>1, <1>2 DEF TInv

\* Rows and requests are of their types; a refresh is activated, the row it names locked, only
\* while the repository is there.
THEOREM TypeCorrect ==
  ASSUME LifecycleAssumption
  PROVE  Spec => []TypeOK
<1>1. Init => TInv
  BY InitTyped
<1>2. TInv /\ [Next]_vars => TInv'
  BY NextTyped
<1>3. TInv => TypeOK
  BY DEF TInv
<1> QED BY <1>1, <1>2, <1>3, PTL DEF Spec

-----------------------------------------------------------------------------
(* Owners and purges *)

Owners == {u \in Members : member[u].role = "owner" /\ member[u].since = repo.life}

\* Without a row nobody is a member; one that is there is of the last life, and has an owner.
OwnerKnown ==
    /\ repo = None => Members = {}
    /\ repo # None => repo.life = lives /\ \E u \in Users : Owners = {u}

AtJoin == {"member", "others", "commit"}

\* What a join has read, which its commit goes by.  The one that inserts the row is alone with
\* it; of one that found the row there was a member to see, unless it is another row by now.
SawRow ==
    \A w \in Workers : pc[w] \in AtJoin =>
        /\ req[w].saw.life <= lives
        /\ req[w].saw.life = 0 => repo = None /\ \A v \in Workers : Inserts(v) => v = w
        /\ req[w].saw.life = 0 /\ pc[w] # "member" => ~req[w].saw.member
        /\ req[w].saw.life = 0 /\ pc[w] = "commit" => ~req[w].saw.others
        /\ pc[w] = "commit" /\ repo # None /\ req[w].saw.life = repo.life =>
             req[w].saw.member \/ req[w].saw.others

\* A purge past its UPDATE is the only one there; it knows of the refresh, or its commit will
\* find rows that came late.
LateKnown ==
    \A w \in Workers : pc[w] = "purged" =>
        /\ repo # None /\ repo.running => req[w].late \/ req[w].held.running
        /\ \A v \in Workers : pc[v] = "purged" => v = w

IInv == TInv /\ OwnerKnown /\ SawRow /\ LateKnown

LEMMA MembersKnown ==
  ASSUME LifecycleAssumption, OwnerKnown
  PROVE  (Members # {}) <=> (repo # None)
  BY DEF OwnerKnown, Owners

\* No membership changes but for its status, and the row stays, or stays away.
SameMembers ==
    /\ repo' = None <=> repo = None
    /\ repo # None => repo'.life = repo.life
    /\ lives' = lives
    /\ \A u \in Users : /\ member'[u] = None <=> member[u] = None
                        /\ member[u] # None => /\ member'[u].role = member[u].role
                                               /\ member'[u].since = member[u].since

LEMMA SameOwners ==
  ASSUME TypeOK, OwnerKnown, SameMembers
  PROVE  OwnerKnown'
<1>1. Members' = Members
  BY DEF Members, SameMembers
<1>2. repo # None => Owners' = Owners
  BY <1>1 DEF Members, Owners, SameMembers
<1> QED BY <1>1, <1>2 DEF OwnerKnown, SameMembers

\* Such a step of w, which begins no refresh and goes neither on with a join nor past the
\* UPDATE of a purge.
LEMMA QuietStep ==
  ASSUME IInv, NEW w \in Workers, OthersStay(w), pc'[w] \notin AtJoin \cup {"purged"},
         SameMembers, repo' # None /\ repo'.running => repo.running
  PROVE  OwnerKnown' /\ SawRow' /\ LateKnown'
<1>1. OwnerKnown'
  BY SameOwners DEF IInv, TInv
<1>2. SawRow'
  BY DEF IInv, SawRow, OthersStay, SameMembers, Inserts, AtJoin
<1>3. LateKnown'
  BY DEF IInv, LateKnown, OthersStay, SameMembers
<1> QED BY <1>1, <1>2, <1>3

\* The same of a step that goes on with a join, once its own part is known.
LEMMA JoiningStep ==
  ASSUME IInv, NEW w \in Workers, NEW p \in AtJoin, NEW r, Goto(w, p, r), pc[w] \in AtJoin \cup {"join"},
         UNCHANGED <<repo, member, lives>>,
         r.saw.life <= lives,
         r.saw.life = 0 => repo = None /\ \A v \in Workers : Inserts(v) => v = w,
         r.saw.life = 0 /\ p # "member" => ~r.saw.member,
         r.saw.life = 0 /\ p = "commit" => ~r.saw.others,
         p = "commit" /\ repo # None /\ r.saw.life = repo.life => r.saw.member \/ r.saw.others,
         Inserts(w) => r.saw.life = 0
  PROVE  OwnerKnown' /\ SawRow' /\ LateKnown'
<1> USE DEF IInv, TInv
<1>1. OthersStay(w) /\ pc'[w] = p /\ req'[w] = r
  BY GotoStays
<1>2. OwnerKnown'
  BY SameOwners DEF SameMembers
<1>3. \A v \in Workers \ {w} : Inserts(v)' <=> Inserts(v)
  BY <1>1 DEF Inserts, OthersStay
<1>4. \A v \in Workers \ {w} : pc[v] \in AtJoin /\ req[v].saw.life = 0 => ~Inserts(w)'
  BY <1>1 DEF SawRow, Inserts, AtJoin
<1>5. SawRow'
  <2> SUFFICES ASSUME NEW v \in Workers, pc'[v] \in AtJoin
               PROVE  /\ req'[v].saw.life <= lives
                      /\ req'[v].saw.life = 0 => repo = None /\ \A u \in Workers : Inserts(u)' => u = v
                      /\ req'[v].saw.life = 0 /\ pc'[v] # "member" => ~req'[v].saw.member
                      /\ req'[v].saw.life = 0 /\ pc'[v] = "commit" => ~req'[v].saw.others
                      /\ pc'[v] = "commit" /\ repo # None /\ req'[v].saw.life = repo.life =>
                           req'[v].saw.member \/ req'[v].saw.others
    BY DEF SawRow
  <2>1. CASE v = w
    BY <1>1, <1>3, <2>1
  <2>2. CASE v # w
    BY <1>1, <1>3, <1>4, <2>2 DEF SawRow, OthersStay
  <2> QED BY <2>1, <2>2
<1>6. LateKnown'
  BY <1>1 DEF LateKnown, OthersStay, AtJoin
<1> QED BY <1>2, <1>5, <1>6

LEMMA RevokedSame ==
  ASSUME LifecycleAssumption, TypeOK, NEW u \in Users, member' = Revoked(u), UNCHANGED <<repo, lives>>
  PROVE  SameMembers
<1>1. member' = [member EXCEPT ![u] = IF member[u] = None THEN None ELSE [member[u] EXCEPT !.status = "revoked"]]
  BY DEF Revoked
<1>2. member[u] # None => /\ [member[u] EXCEPT !.status = "revoked"] \in MemberRow
                          /\ [member[u] EXCEPT !.status = "revoked"].role = member[u].role
                          /\ [member[u] EXCEPT !.status = "revoked"].since = member[u].since
  BY DEF TypeOK, MemberRow
<1> QED BY <1>1, <1>2 DEF TypeOK, LifecycleAssumption, SameMembers

LEMMA QuietActions ==
  ASSUME LifecycleAssumption, IInv, NEW w \in Workers,
         \/ Arrive(w) \/ SweepUser(w) \/ SweepCommit(w) \/ Touch(w) \/ DeleteStart(w) \/ DeleteStores(w)
         \/ WriteTree(w) \/ Publish(w) \/ Build(w) \/ Fails(w) \/ Record(w) \/ Crash(w)
  PROVE  OwnerKnown' /\ SawRow' /\ LateKnown'
<1> USE DEF IInv, TInv
<1>1. UNCHANGED <<repo, member, lives>>
  BY DEF Arrive, SweepUser, SweepCommit, Touch, DeleteStart, DeleteStores, WriteTree, Publish, Build, Fails,
         Record, Crash, rows
<1>2. \/ End(w)
      \/ \E p \in PCs \ (AtJoin \cup {"purged"}) : \E r : Goto(w, p, r)
      \/ pc' = [pc EXCEPT ![w] = "idle"] /\ req' = WithLate(w, NoRequest)
  <2>1. CASE Arrive(w) \/ SweepUser(w) \/ SweepCommit(w) \/ DeleteStart(w)
    BY <2>1, PCsKnown DEF Arrive, SweepUser, SweepCommit, DeleteStart, AtJoin
  <2>2. CASE Touch(w) \/ DeleteStores(w) \/ WriteTree(w) \/ Publish(w) \/ Build(w) \/ Fails(w)
    BY <2>2, PCsKnown DEF Touch, DeleteStores, WriteTree, Publish, Build, Fails, AtJoin
  <2>3. CASE Record(w) \/ Crash(w)
    BY <2>3, PCsKnown DEF Record, Crash, Goto, AtJoin
  <2> QED BY <2>1, <2>2, <2>3
<1>3. OthersStay(w) /\ pc'[w] \notin AtJoin \cup {"purged"}
  <2>1. CASE End(w)
    BY <2>1, EndStays DEF AtJoin
  <2>2. CASE \E p \in PCs \ (AtJoin \cup {"purged"}) : \E r : Goto(w, p, r)
    BY <2>2, GotoStays
  <2>3. CASE pc' = [pc EXCEPT ![w] = "idle"] /\ req' = WithLate(w, NoRequest)
    BY <2>3, LateStays DEF AtJoin
  <2> QED BY <1>2, <2>1, <2>2, <2>3
<1> QED BY <1>1, <1>3, QuietStep DEF SameMembers

\* The commits that purge, join, plan, begin, activate and end a refresh.
LEMMA PurgeStep ==
  ASSUME LifecycleAssumption, IInv, NEW w \in Workers, PurgeWrite(w) \/ PurgeCommit(w)
  PROVE  OwnerKnown' /\ SawRow' /\ LateKnown'
<1> USE DEF IInv, TInv
<1>1. CASE PurgeWrite(w)
  <2>1. UNCHANGED <<repo, member, lives>>
    BY <1>1 DEF PurgeWrite, rows
  <2>2. CASE End(w)
    <3>1. OthersStay(w) /\ pc'[w] \notin AtJoin \cup {"purged"}
      BY <2>2, EndStays DEF AtJoin
    <3> QED BY <2>1, <3>1, QuietStep DEF SameMembers
  <2>3. CASE ~StillNames(repo, req[w].held) /\ Goto(w, "purged", req[w])
    <3>0. pc[w] = "purge" /\ \A p \in Workers \ {w} : pc[p] # "purged"
      BY <1>1 DEF PurgeWrite
    <3>1. OthersStay(w) /\ pc'[w] = "purged" /\ req'[w] = req[w]
      BY <2>3, GotoStays
    <3>2. repo # None /\ repo.running => req[w].held.running
      BY <2>3 DEF StillNames
    <3>3. OwnerKnown'
      BY <2>1, SameOwners DEF SameMembers
    <3>4. SawRow'
      BY <2>1, <3>0, <3>1 DEF SawRow, OthersStay, Inserts, AtJoin
    <3>5. LateKnown'
      BY <2>1, <3>0, <3>1, <3>2 DEF LateKnown, OthersStay
    <3> QED BY <3>3, <3>4, <3>5
  <2> QED BY <1>1, <2>2, <2>3 DEF PurgeWrite
<1>2. CASE PurgeCommit(w)
  <2>1. CASE End(w) /\ UNCHANGED rows
    <3>1. OthersStay(w) /\ pc'[w] \notin AtJoin \cup {"purged"}
      BY <2>1, EndStays DEF AtJoin
    <3> QED BY <2>1, <3>1, QuietStep DEF SameMembers, rows
  <2>2. CASE /\ repo' = None /\ member' = [u \in Users |-> None] /\ lives' = lives
             /\ \E r : Goto(w, "stores", r)
    <3>1. OthersStay(w) /\ pc'[w] = "stores" /\ pc[w] = "purged"
      BY <1>2, <2>2, GotoStays DEF PurgeCommit
    <3>2. OwnerKnown'
      BY <2>2 DEF OwnerKnown, Members
    <3>3. SawRow'
      BY <2>2, <3>1 DEF SawRow, OthersStay, Inserts, AtJoin
    <3>4. LateKnown'
      BY <2>2, <3>1 DEF LateKnown, OthersStay
    <3> QED BY <3>2, <3>3, <3>4
  <2> QED BY <1>2, <2>1, <2>2 DEF PurgeCommit
<1> QED BY <1>1, <1>2

LEMMA HandleStep ==
  ASSUME LifecycleAssumption, IInv, NEW w \in Workers, Probe(w) \/ Ask(w)
  PROVE  OwnerKnown' /\ SawRow' /\ LateKnown'
<1> USE DEF IInv, TInv
<1>0. req[w].user \in Users /\ UNCHANGED <<repo, lives>>
  BY DEF Probe, Ask, RequestsKnow
<1>1. SameMembers
  <2>1. CASE UNCHANGED member
    BY <1>0, <2>1 DEF SameMembers
  <2>2. CASE member' = Revoked(req[w].user)
    BY <1>0, <2>2, RevokedSame
  <2> QED BY <2>1, <2>2 DEF Probe, Ask
<1>2. OthersStay(w) /\ pc'[w] \in {"idle", "join", "record"}
  <2>1. CASE End(w)
    BY <2>1, EndStays
  <2>2. CASE Goto(w, "join", req[w])
    BY <2>2, GotoStays
  <2>3. CASE pc' = [pc EXCEPT ![w] = "record"] /\ req' = WithLate(w, req[w])
    BY <2>3, LateStays
  <2> QED BY <2>1, <2>2, <2>3 DEF Probe, Ask
<1>3. pc'[w] \notin AtJoin \cup {"purged"}
  BY <1>2 DEF AtJoin
<1> QED BY <1>0, <1>1, <1>2, <1>3, QuietStep

\* What a read of _join adds to what its request has seen.
LEMMA SeeFields ==
  ASSUME NEW r \in Request, NEW b \in BOOLEAN
  PROVE  /\ SeeRepository(r).saw.life = (IF repo = None THEN 0 ELSE repo.life)
         /\ SeeMember(r).saw.life = r.saw.life /\ SeeMember(r).saw.member = (r.user \in Members)
         /\ [r EXCEPT !.saw.others = b].saw.life = r.saw.life
         /\ [r EXCEPT !.saw.others = b].saw.member = r.saw.member
         /\ [r EXCEPT !.saw.others = b].saw.others = b
  BY DEF SeeRepository, SeeMember, Request, Seen

LEMMA JoinReadsStep ==
  ASSUME LifecycleAssumption, IInv, NEW w \in Workers, JoinRepository(w) \/ JoinMember(w) \/ JoinOthers(w)
  PROVE  OwnerKnown' /\ SawRow' /\ LateKnown'
<1> USE DEF IInv, TInv
<1>1. /\ UNCHANGED <<repo, member, lives>> /\ req[w] \in Request /\ req[w].user \in Users
      /\ pc[w] \in {"join", "member", "others"}
  BY DEF JoinRepository, JoinMember, JoinOthers, RequestsKnow, TypeOK, rows
<1>2. CASE End(w)
  <2>1. OthersStay(w) /\ pc'[w] \notin AtJoin \cup {"purged"}
    BY <1>2, EndStays DEF AtJoin
  <2> QED BY <1>1, <2>1, QuietStep DEF SameMembers
<1>3. CASE JoinRepository(w) /\ ~End(w)
  <2> DEFINE r == SeeRepository(req[w])
  <2>1. /\ pc[w] = "join" /\ Goto(w, "member", r) /\ (repo = None => \A v \in Workers : ~Inserts(v))
    BY <1>3 DEF JoinRepository
  <2>2. r.saw.life = (IF repo = None THEN 0 ELSE repo.life)
    BY <1>1, SeeFields
  <2>3. lives \in Nat /\ (repo # None => repo.life = lives /\ repo.life # 0)
    BY DEF OwnerKnown, TypeOK, RepositoryRow, LifecycleAssumption
  <2>4. ~Inserts(w)
    BY <2>1 DEF Inserts
  <2>5. "member" \in AtJoin
    BY DEF AtJoin
  <2> HIDE DEF r
  <2> QED BY <1>1, <2>1, <2>2, <2>3, <2>4, <2>5, JoiningStep
<1>4. CASE JoinMember(w)
  <2> DEFINE r == SeeMember(req[w])
             p == IF req[w].user \in Members THEN "commit" ELSE "others"
  <2>1. pc[w] = "member" /\ Goto(w, p, r) /\ p \in AtJoin /\ pc[w] \in AtJoin
    BY <1>4 DEF JoinMember, AtJoin
  <2>2. r.saw.life = req[w].saw.life /\ r.saw.member = (req[w].user \in Members)
    BY <1>1, SeeFields
  <2>3. /\ req[w].saw.life <= lives
        /\ req[w].saw.life = 0 => repo = None /\ \A v \in Workers : Inserts(v) => v = w
    BY <2>1 DEF SawRow
  <2>4. req[w].saw.life = 0 => req[w].user \notin Members
    BY <2>3 DEF OwnerKnown
  <2>5. Inserts(w) => req[w].saw.life = 0
    BY DEF Inserts
  <2>6. p = "commit" => req[w].user \in Members
    OBVIOUS
  <2> HIDE DEF r, p
  <2> QED BY <1>1, <2>1, <2>2, <2>3, <2>4, <2>5, <2>6, JoiningStep
<1>5. CASE JoinOthers(w)
  <2> DEFINE r == [req[w] EXCEPT !.saw.others = Members # {}]
  <2>1. pc[w] = "others" /\ Goto(w, "commit", r) /\ "commit" \in AtJoin /\ pc[w] \in AtJoin
    BY <1>5 DEF JoinOthers, AtJoin
  <2>2. /\ r.saw.life = req[w].saw.life /\ r.saw.member = req[w].saw.member
        /\ r.saw.others = (Members # {})
    <3> DEFINE b == Members # {}
    <3>1. b \in BOOLEAN
      OBVIOUS
    <3> HIDE DEF b
    <3>2. /\ [req[w] EXCEPT !.saw.others = b].saw.life = req[w].saw.life
          /\ [req[w] EXCEPT !.saw.others = b].saw.member = req[w].saw.member
          /\ [req[w] EXCEPT !.saw.others = b].saw.others = b
      BY <1>1, <3>1, SeeFields
    <3> QED BY <3>2 DEF b
  <2>3. /\ req[w].saw.life <= lives
        /\ req[w].saw.life = 0 => repo = None /\ \A v \in Workers : Inserts(v) => v = w
        /\ req[w].saw.life = 0 => ~req[w].saw.member
    BY <2>1 DEF SawRow
  <2>4. Inserts(w) => req[w].saw.life = 0
    BY DEF Inserts
  <2>5. (Members # {}) <=> (repo # None)
    BY MembersKnown
  <2> HIDE DEF r
  <2> QED BY <1>1, <2>1, <2>2, <2>3, <2>4, <2>5, JoiningStep
<1> QED BY <1>2, <1>3, <1>4, <1>5

LEMMA NewRowTyped ==
  ASSUME LifecycleAssumption, NEW n \in 1..MaxLife
  PROVE  NewRow(n) # None /\ ~NewRow(n).running /\ NewRow(n).life = n
<1>1. NewRow(n) \in RepositoryRow
  BY DEF NewRow, RepositoryRow, LifecycleAssumption
<1> QED BY <1>1 DEF NewRow, LifecycleAssumption

\* The first member of a new row owns it; whoever joins the row it found finds its owner too,
\* and one that joins a row inserted since began in a former life.
LEMMA JoinStep ==
  ASSUME LifecycleAssumption, IInv, NEW w \in Workers, JoinCommit(w)
  PROVE  OwnerKnown' /\ SawRow' /\ LateKnown'
<1> USE DEF IInv, TInv
<1> DEFINE r == req[w]
           u == r.user
           life == IF r.saw.life = 0 THEN lives + 1 ELSE r.saw.life
           next == [r EXCEPT !.saw = Nothing]
<1>0. r \in Request /\ u \in Users /\ pc[w] = "commit" /\ pc[w] \in AtJoin /\ lives \in Nat
      /\ r.saw.life \in Nat
  BY DEF JoinCommit, RequestsKnow, TypeOK, AtJoin, LifecycleAssumption, Request, Seen
<1>a. /\ r.saw.life <= lives
      /\ r.saw.life = 0 => repo = None /\ ~r.saw.member /\ ~r.saw.others /\ \A v \in Workers : Inserts(v) => v = w
      /\ repo # None /\ r.saw.life = repo.life => r.saw.member \/ r.saw.others
  BY <1>0 DEF SawRow
<1>1. CASE End(w) /\ UNCHANGED rows
  <2>1. OthersStay(w) /\ pc'[w] \notin AtJoin \cup {"purged"}
    BY <1>1, EndStays DEF AtJoin
  <2> QED BY <1>1, <2>1, QuietStep DEF SameMembers, rows
<1>2. ASSUME NEW token \in BOOLEAN, ~JoinConflict(r, token),
             lives' = IF r.saw.life = 0 THEN lives + 1 ELSE lives,
             repo' = IF r.saw.life = 0 THEN NewRow(lives + 1) ELSE repo,
             member' = [member EXCEPT ![u] = Joined(r, life)],
             pc' = [pc EXCEPT ![w] = "plan"],
             req' = IF ~r.saw.member \/ token THEN WithLate(w, next) ELSE [req EXCEPT ![w] = next]
      PROVE  OwnerKnown' /\ SawRow' /\ LateKnown'
  <2>1. /\ r.saw.life # 0 => repo # None
        /\ ~r.saw.member => u \notin Members
        /\ r.saw.revoked => u \in Members
        /\ r.saw.life = 0 => lives + 1 \in 1..MaxLife
    BY <1>0, <1>2 DEF JoinConflict, TypeOK, LifecycleAssumption
  <2>2. /\ repo' # None
        /\ r.saw.life = 0 => ~repo'.running /\ repo'.life = lives + 1
        /\ r.saw.life # 0 => repo' = repo
    BY <1>2, <2>1, NewRowTyped
  <2>3. member'[u] = Joined(r, life) /\ \A v \in Users \ {u} : member'[v] = member[v]
    <3> HIDE DEF life
    <3> QED BY <1>0, <1>2 DEF TypeOK
  <2>4. OthersStay(w) /\ pc'[w] = "plan"
    <3> HIDE DEF next
    <3>1. CASE req' = WithLate(w, next)
      BY <1>2, <3>1, LateStays
    <3>2. CASE req' = [req EXCEPT ![w] = next]
      BY <1>2, <3>2 DEF OthersStay, TypeOK
    <3> QED BY <1>2, <3>1, <3>2
  <2>5. OwnerKnown'
    <3>1. CASE r.saw.life = 0
      <4>1. Joined(r, life) # None /\ Joined(r, life).role = "owner" /\ Joined(r, life).since = lives + 1
        <5>1. Joined(r, life) = [role |-> "owner", status |-> "active", since |-> lives + 1]
          BY <1>a, <3>1 DEF Joined, NewRole
        <5>2. [role |-> "owner", status |-> "active", since |-> lives + 1] \in MemberRow
          BY <2>1, <3>1 DEF MemberRow
        <5> QED BY <5>1, <5>2 DEF LifecycleAssumption
      <4>2. \A v \in Users : member[v] = None
        BY <1>a, <3>1 DEF OwnerKnown, Members
      <4>3. Owners' = {u}
        BY <1>0, <2>2, <2>3, <3>1, <4>1, <4>2 DEF Owners, Members
      <4> QED BY <1>0, <1>2, <2>2, <3>1, <4>3 DEF OwnerKnown
    <3>2. CASE r.saw.life # 0
      <4>1. repo # None /\ repo' = repo /\ lives' = lives /\ life = r.saw.life
        BY <1>2, <2>1, <2>2, <3>2
      <4>2. Owners' = Owners
        <5>1. CASE ~r.saw.member
          <6>1. Joined(r, life).role = "reader" \/ Joined(r, life).since # repo.life
            BY <1>a, <4>1, <5>1 DEF Joined, NewRole
          <6> QED BY <2>1, <2>3, <4>1, <5>1, <6>1 DEF Owners, Members
        <5>2. CASE r.saw.member /\ r.saw.revoked
          <6>1. member[u] \in MemberRow /\ member[u] # None
            BY <1>0, <2>1, <5>2 DEF Members, TypeOK
          <6>2. Joined(r, life) = [member[u] EXCEPT !.status = "active"]
            BY <5>2 DEF Joined
          <6>3. /\ Joined(r, life) # None
                /\ Joined(r, life).role = member[u].role /\ Joined(r, life).since = member[u].since
            BY <6>1, <6>2 DEF MemberRow, LifecycleAssumption
          <6> QED BY <2>3, <4>1, <6>1, <6>3 DEF Owners, Members
        <5>3. CASE r.saw.member /\ ~r.saw.revoked
          <6>1. Joined(r, life) = member[u]
            BY <5>3 DEF Joined
          <6> QED BY <2>3, <4>1, <6>1 DEF Owners, Members
        <5> QED BY <5>1, <5>2, <5>3
      <4> QED BY <4>1, <4>2 DEF OwnerKnown
    <3> QED BY <3>1, <3>2
  <2>6. SawRow'
    <3> SUFFICES ASSUME NEW v \in Workers, pc'[v] \in AtJoin
                 PROVE  /\ req'[v].saw.life <= lives'
                        /\ req'[v].saw.life = 0 => repo' = None /\ \A x \in Workers : Inserts(x)' => x = v
                        /\ req'[v].saw.life = 0 /\ pc'[v] # "member" => ~req'[v].saw.member
                        /\ req'[v].saw.life = 0 /\ pc'[v] = "commit" => ~req'[v].saw.others
                        /\ pc'[v] = "commit" /\ repo' # None /\ req'[v].saw.life = repo'.life =>
                             req'[v].saw.member \/ req'[v].saw.others
      BY DEF SawRow
    <3>1. v # w /\ pc'[v] = pc[v] /\ req'[v].saw = req[v].saw
      BY <2>4 DEF OthersStay, AtJoin
    <3>2. req[v].saw.life \in Nat /\ req[v].saw.life <= lives
      BY <3>1 DEF SawRow, TypeOK, Request, Seen
    <3>3. req[v].saw.life # 0
      BY <1>a, <2>1, <3>1 DEF SawRow, Inserts, AtJoin
    <3>4. pc[v] = "commit" /\ repo' # None /\ req[v].saw.life = repo'.life => req[v].saw.member \/ req[v].saw.others
      <4>1. CASE r.saw.life = 0
        BY <1>0, <2>2, <3>2, <4>1
      <4>2. CASE r.saw.life # 0
        BY <2>2, <3>1, <4>2 DEF SawRow
      <4> QED BY <4>1, <4>2
    <3> QED BY <1>0, <1>2, <3>1, <3>2, <3>3, <3>4
  <2>7. LateKnown'
    BY <2>1, <2>2, <2>4 DEF LateKnown, OthersStay
  <2> QED BY <2>5, <2>6, <2>7
<1> HIDE DEF next
<1> QED BY <1>1, <1>2 DEF JoinCommit, next

\* The row while there is one.
LEMMA RefreshStep ==
  ASSUME LifecycleAssumption, IInv, NEW w \in Workers,
         Plan(w) \/ Begin(w) \/ Activate(w) \/ FailIfOwner(w)
  PROVE  OwnerKnown' /\ SawRow' /\ LateKnown' /\ (repo # None => repo' # None)
<1> USE DEF IInv, TInv
<1>0. UNCHANGED <<member, lives>>
  BY DEF Plan, Begin, Activate, FailIfOwner, rows
<1>q. ASSUME repo' = None <=> repo = None, repo # None => repo'.life = repo.life,
             repo' # None /\ repo'.running => repo.running,
             OthersStay(w), pc'[w] \in {"idle", "begin"}
      PROVE  OwnerKnown' /\ SawRow' /\ LateKnown' /\ (repo # None => repo' # None)
  <2>1. pc'[w] \notin AtJoin \cup {"purged"} /\ SameMembers
    BY <1>0, <1>q DEF AtJoin, SameMembers
  <2> QED BY <1>q, <2>1, QuietStep
<1>1. CASE Plan(w)
  <2>1. /\ repo' = None <=> repo = None
        /\ repo' # None /\ repo'.running => repo.running
        /\ repo # None => repo'.life = repo.life
    BY <1>1, RowTyped DEF Plan, TypeOK, RepositoryRow
  <2>2. OthersStay(w) /\ pc'[w] \in {"idle", "begin"}
    <3>1. CASE End(w)
      BY <3>1, EndStays
    <3>2. CASE pc' = [pc EXCEPT ![w] = "idle"] /\ req' = WithLate(w, NoRequest)
      BY <3>2, LateStays
    <3>3. CASE Goto(w, "begin", req[w])
      BY <3>3, GotoStays
    <3> QED BY <1>1, <3>1, <3>2, <3>3 DEF Plan
  <2> QED BY <2>1, <2>2, <1>q
<1>2. CASE Begin(w)
  <2>1. CASE End(w) /\ UNCHANGED rows
    BY <1>q, <2>1, EndStays DEF rows
  <2>2. CASE ~(End(w) /\ UNCHANGED rows)
    <3>1. /\ repo # None
          /\ repo' = [repo EXCEPT !.running = TRUE, !.owner = req[w].user, !.beat = TRUE,
                                  !.epoch = @ + 1, !.lease = TRUE]
          /\ req' = WithLate(w, [req[w] EXCEPT !.life = repo.life, !.epoch = repo.epoch + 1])
      BY <1>2, <2>2 DEF Begin
    <3>2. PICK p \in {"build", "write"} : pc' = [pc EXCEPT ![w] = p] /\ pc[w] = "begin"
      BY <1>2, <2>2 DEF Begin
    <3>3. repo' # None /\ repo'.life = repo.life
      <4>1. repo \in RepositoryRow /\ repo.epoch + 1 \in 0..MaxEpoch /\ req[w].user \in Users
        BY <1>2, <2>2, <3>1 DEF Begin, RequestsKnow, TypeOK, RepositoryRow, LifecycleAssumption
      <4>2. repo' \in RepositoryRow
        BY <3>1, <4>1 DEF RepositoryRow
      <4> QED BY <3>1, <4>1, <4>2 DEF LifecycleAssumption, RepositoryRow
    <3>4. OthersStay(w) /\ pc'[w] = p /\ \A q \in Workers \ {w} : pc[q] = "purged" => req'[q].late
      BY <3>1, <3>2, LateStays
    <3>5. SameMembers
      BY <1>0, <3>1, <3>3 DEF SameMembers
    <3>6. OwnerKnown'
      BY <3>5, SameOwners
    <3>7. SawRow'
      BY <3>2, <3>4, <3>5 DEF SawRow, OthersStay, SameMembers, Inserts, AtJoin
    <3>8. LateKnown'
      BY <3>2, <3>3, <3>4 DEF LateKnown, OthersStay
    <3> QED BY <3>3, <3>6, <3>7, <3>8
  <2> QED BY <2>1, <2>2
<1>3. CASE Activate(w)
  <2>1. repo # None
    BY <1>3 DEF Activate, RequestsKnow
  <2>2. repo' # None /\ ~repo'.running /\ repo'.life = repo.life /\ End(w)
    BY <1>3, <2>1, RowTyped DEF Activate, TypeOK, RepositoryRow
  <2> QED BY <1>q, <2>1, <2>2, EndStays
<1>4. CASE FailIfOwner(w)
  <2>1. /\ repo' = None <=> repo = None
        /\ repo' # None /\ repo'.running => repo.running
        /\ repo # None => repo'.life = repo.life
        /\ End(w)
    BY <1>4, RowTyped DEF FailIfOwner, Owns, TypeOK, RepositoryRow
  <2> QED BY <1>q, <2>1, EndStays
<1> QED BY <1>1, <1>2, <1>3, <1>4

\* Only the commit of a purge removes the row.
LEMMA RowStays ==
  ASSUME LifecycleAssumption, IInv, Next, repo # None, repo' = None
  PROVE  \E w \in Workers : pc[w] = "purged" /\ ~req[w].late
<1> USE DEF IInv, TInv
<1>1. ASSUME NEW w \in Workers,
             \/ Arrive(w) \/ SweepUser(w) \/ SweepCommit(w) \/ Touch(w) \/ DeleteStart(w) \/ PurgeWrite(w)
             \/ DeleteStores(w) \/ WriteTree(w) \/ Publish(w) \/ Build(w) \/ Fails(w) \/ Record(w) \/ Crash(w)
             \/ Probe(w) \/ JoinRepository(w) \/ JoinMember(w) \/ JoinOthers(w) \/ Ask(w)
      PROVE  FALSE
  BY <1>1 DEF Arrive, SweepUser, SweepCommit, Touch, DeleteStart, PurgeWrite, DeleteStores, WriteTree, Publish,
              Build, Fails, Record, Crash, Probe, JoinRepository, JoinMember, JoinOthers, Ask, rows
<1>2. ASSUME NEW w \in Workers, Plan(w) \/ Begin(w) \/ Activate(w) \/ FailIfOwner(w) PROVE FALSE
  BY <1>2, RefreshStep
<1>3. ASSUME NEW w \in Workers, JoinCommit(w) PROVE FALSE
  <2>1. lives \in Nat /\ MaxLife \in Nat /\ lives <= MaxLife
    BY DEF TypeOK, LifecycleAssumption
  <2>2. UNCHANGED repo \/ (repo' = NewRow(lives + 1) /\ lives # MaxLife)
    BY <1>3 DEF JoinCommit, JoinConflict, rows
  <2> QED BY <2>1, <2>2, NewRowTyped
<1>4. ASSUME NEW w \in Workers, PurgeCommit(w) PROVE pc[w] = "purged" /\ ~req[w].late
  BY <1>4 DEF PurgeCommit, rows
<1>5. CASE LeaseLapses
  BY <1>5, RowTyped DEF LeaseLapses
<1>6. ASSUME NEW u \in Users, GoesStale(u) PROVE FALSE
  BY <1>6 DEF GoesStale
<1> QED BY <1>1, <1>2, <1>3, <1>4, <1>5, <1>6 DEF Next

LEMMA OtherStep ==
  ASSUME LifecycleAssumption, IInv, LeaseLapses \/ (\E u \in Users : GoesStale(u)) \/ UNCHANGED vars
  PROVE  OwnerKnown' /\ SawRow' /\ LateKnown'
<1> USE DEF IInv, TInv
<1>1. UNCHANGED <<member, lives, pc, req>>
  BY DEF LeaseLapses, GoesStale, vars, rows
<1>2. /\ repo' = None <=> repo = None
      /\ repo' # None /\ repo'.running => repo.running
      /\ repo # None => repo'.life = repo.life
  <2>1. CASE LeaseLapses
    BY <2>1, RowTyped DEF LeaseLapses, LeaseHeld, TypeOK, RepositoryRow
  <2>2. CASE UNCHANGED repo
    BY <2>2
  <2> QED BY <2>1, <2>2 DEF GoesStale, vars, rows
<1>3. SameMembers
  BY <1>1, <1>2 DEF SameMembers
<1>4. OwnerKnown'
  BY <1>3, SameOwners
<1>5. SawRow'
  BY <1>1, <1>3 DEF SawRow, SameMembers, Inserts
<1>6. LateKnown'
  BY <1>1, <1>2 DEF LateKnown
<1> QED BY <1>4, <1>5, <1>6

LEMMA IInvHolds ==
  ASSUME LifecycleAssumption
  PROVE  Spec => []IInv
<1>1. Init => IInv
  <2>1. ASSUME Init PROVE OwnerKnown /\ SawRow /\ LateKnown
    BY <2>1 DEF Init, OwnerKnown, SawRow, LateKnown, Members, AtJoin
  <2> QED BY <2>1, InitTyped DEF IInv
<1>2. IInv /\ [Next]_vars => IInv'
  <2>1. ASSUME IInv, [Next]_vars PROVE TInv'
    BY <2>1, NextTyped DEF IInv
  <2>2. ASSUME IInv, [Next]_vars PROVE OwnerKnown' /\ SawRow' /\ LateKnown'
    BY <2>2, QuietActions, PurgeStep, HandleStep, JoinReadsStep, JoinStep, RefreshStep, OtherStep DEF Next
  <2> QED BY <2>1, <2>2 DEF IInv
<1> QED BY <1>1, <1>2, PTL DEF Spec

\* Of the clients whose join began in its present life a repository has exactly one owner,
\* whoever joins, leaves, purges it or indexes its URL for the first time again between the
\* three reads of _join and its commit.
THEOREM OneOwnerStays ==
  ASSUME LifecycleAssumption
  PROVE  Spec => []OneOwner
<1>1. IInv => OneOwner
  <2> SUFFICES ASSUME IInv PROVE OneOwner
    OBVIOUS
  <2>1. CASE repo = None
    <3>1. Owners = {}
      BY <2>1 DEF IInv, OwnerKnown, Owners
    <3> QED BY <2>1, <3>1, FS_EmptySet DEF OneOwner, Owners
  <2>2. CASE repo # None
    <3>1. PICK u \in Users : Owners = {u}
      BY <2>2 DEF IInv, OwnerKnown
    <3> QED BY <2>2, <3>1, FS_Singleton DEF OneOwner, Owners
  <2> QED BY <2>1, <2>2
<1> QED BY <1>1, IInvHolds, PTL

\* No purge removes a repository whose refresh began after the purge loaded the row
\* (purge_repository goes by that copy), in any number of lives of the URL.
THEOREM PurgeSparesRefresh ==
  ASSUME LifecycleAssumption
  PROVE  Spec => [][PurgeSparesNewRefresh]_vars
<1>1. IInv /\ [Next]_vars => [PurgeSparesNewRefresh]_vars
  <2> SUFFICES ASSUME IInv, Next, NEW w \in Workers, Purges(w), repo.running PROVE req[w].held.running
    BY DEF PurgeSparesNewRefresh
  <2>1. pc[w] = "purged" /\ repo # None /\ repo' = None
    BY DEF Purges
  <2>2. ~req[w].late
    BY <2>1, RowStays DEF IInv, LateKnown
  <2> QED BY <2>1, <2>2 DEF IInv, LateKnown
<1> QED BY <1>1, IInvHolds, PTL DEF Spec
=============================================================================
