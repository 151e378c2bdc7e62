--------------------------- MODULE IndexingProofs ---------------------------
(***************************************************************************)
(* Theorems about Indexing, for any workers, users, commits, generations,  *)
(* bound on epochs and durations.                                          *)
(***************************************************************************)
EXTENDS Indexing, TLAPS

-----------------------------------------------------------------------------
(* Rows *)

USE DEF TimeLeft, HeartbeatAge

LEMMA TimePasses ==
    /\ \A left \in TimeLeft : Sooner(left) \in TimeLeft
    /\ \A age \in HeartbeatAge : Older(age) \in HeartbeatAge
    /\ LEASE \in TimeLeft
    /\ 0 \in TimeLeft
    /\ 0 \in HeartbeatAge
BY DurationAssumption DEF Sooner, Older

LEMMA FlushRowType ==
    ASSUME NEW db \in RepositoryRow, NEW held \in RepositoryRow,
           NEW new \in RepositoryRow
    PROVE  FlushRow(db, held, new) \in RepositoryRow
BY DEF FlushRow, RepositoryRow

LEMMA RowTypes ==
    ASSUME NEW row \in RepositoryRow
    PROVE  /\ Idle(row) \in RepositoryRow
           /\ Reset(row) \in RepositoryRow
           /\ Renewed(row) \in RepositoryRow
           /\ AgedRow(row) \in RepositoryRow
BY TimePasses DEF Idle, Reset, Renewed, AgedRow, RepositoryRow

\* What the rows name: nothing new but what an operation sets.
LEMMA FlushRowNames ==
    ASSUME NEW db \in RepositoryRow, NEW held \in RepositoryRow,
           NEW new \in RepositoryRow
    PROVE  /\ FlushRow(db, held, new).gen \in {db.gen, new.gen}
           /\ FlushRow(db, held, new).active \in {db.active, new.active}
BY DEF FlushRow

LEMMA RowNames ==
    ASSUME NEW row \in RepositoryRow
    PROVE  /\ Idle(row).gen = None /\ Idle(row).active = row.active
           /\ Reset(row).gen = None /\ Reset(row).active = row.active
           /\ Renewed(row).gen = row.gen /\ Renewed(row).active = row.active
           /\ AgedRow(row).gen = row.gen /\ AgedRow(row).active = row.active
BY DEF Idle, Reset, Renewed, AgedRow, RepositoryRow

\* The rows of a start, an adoption and an activation.
LEMMA BuildRows ==
    ASSUME NEW row \in RepositoryRow, NEW w \in Workers, NEW g \in Gens
    PROVE  /\ Served(row, g) \in RepositoryRow
           /\ Served(row, g).gen = None /\ Served(row, g).active = g
           /\ row.epoch < MaxEpoch =>
                /\ Started(row, g, w) \in RepositoryRow
                /\ Started(row, g, w).gen = g
                /\ Started(row, g, w).active = row.active
                /\ Adopted(row, w) \in RepositoryRow
                /\ Adopted(row, w).gen = row.gen
                /\ Adopted(row, w).active = row.active
<1>1. User[w] \in Users /\ MaxEpoch \in Nat
  BY IndexingAssumption
<1>2. Served(row, g) \in RepositoryRow
  BY TimePasses DEF Served, Idle, RepositoryRow
<1>3. Served(row, g).gen = None /\ Served(row, g).active = g
  BY DEF Served, Idle, RepositoryRow
<1>4. ASSUME row.epoch < MaxEpoch PROVE row.epoch + 1 \in 0..MaxEpoch
  BY <1>1, <1>4 DEF RepositoryRow
<1>5. ASSUME row.epoch < MaxEpoch
      PROVE  /\ Started(row, g, w) \in RepositoryRow
             /\ Started(row, g, w).gen = g
             /\ Started(row, g, w).active = row.active
  BY <1>1, <1>4, <1>5, TimePasses DEF Started, RepositoryRow
<1>6. ASSUME row.epoch < MaxEpoch
      PROVE  /\ Adopted(row, w) \in RepositoryRow
             /\ Adopted(row, w).gen = row.gen
             /\ Adopted(row, w).active = row.active
  BY <1>1, <1>4, <1>6, TimePasses DEF Adopted, RepositoryRow
<1> QED
  BY <1>2, <1>3, <1>5, <1>6

LEMMA NewRowType == NewRow \in RepositoryRow
BY TimePasses, IndexingAssumption DEF NewRow, RepositoryRow

LEMMA FlushRevisionType ==
    ASSUME NEW db \in RevisionRow, NEW held \in RevisionRow, NEW new \in RevisionRow
    PROVE  FlushRevision(db, held, new) \in RevisionRow
BY DEF FlushRevision, RevisionRow

LEMMA RevisionTypes ==
    ASSUME NEW r \in RevisionRow, NEW c \in Commits, NEW w \in Workers
    PROVE  /\ Unclaimed(r) \in RevisionRow
           /\ Claimed(r, w) \in RevisionRow
           /\ AgedRevision(r) \in RevisionRow
           /\ Recovered(c, r) \in RevisionRow
           /\ [Unclaimed(r) EXCEPT !.state = "absent"] \in RevisionRow
           /\ [Unclaimed(r) EXCEPT !.state = "ready", !.path = TRUE] \in RevisionRow
BY TimePasses, IndexingAssumption
   DEF Unclaimed, Claimed, AgedRevision, Recovered, RevisionRow

-----------------------------------------------------------------------------
(* Types.  Some steps only keep them because of where a request has been:  *)
(* from its claim on, it has a generation whose commit is known, and from  *)
(* the write on, a claimed revision.                                       *)

Finishing == {"write", "writing", "promote", "publish", "validate", "acquire",
              "defer", "rollback", "abort", "fail"} \cup Building

CommitsKnown == \A g \in Gens : status[g] # "none" => commitOf[g] \in Commits

\* The generations a row names have been begun.
NamesBegun(row) ==
    /\ row.gen # None => status[row.gen] # "none"
    /\ row.active # None => status[row.active] # "none"

AnchoredAt(w) ==
    /\ pc[w] \in {"resetGens", "resetRow", "plan", "fetchStart", "fetchAdopt",
                 "start", "adopt"} => want[w] \in Commits
    /\ pc[w] \in Finishing => gen[w] \in Gens /\ status[gen[w]] # "none"
    /\ pc[w] \in {"writing", "promote", "publish", "abort"} =>
         claim[w] \in RevisionRow
    /\ pc[w] \in {"writing", "promote"} => claim[w].dir \in Workers
    /\ \A g \in victims[w] : status[g] # "none"
    /\ NamesBegun(cache[w])

Anchored ==
    /\ CommitsKnown
    /\ NamesBegun(repo)
    /\ \A w \in Workers : AnchoredAt(w)

\* No generation is forgotten.
StayBegun == \A g \in Gens : status[g] # "none" => status'[g] # "none"

TypeInv == TypeOK /\ Anchored

USE DEF Finishing, Building, PCs, Statuses, Tree

\* A row that names what rows of before the step named.
LEMMA NamesFrom ==
    ASSUME TypeInv, StayBegun,
           NEW row \in RepositoryRow, NEW a \in RepositoryRow, NEW b \in RepositoryRow,
           NamesBegun(a), NamesBegun(b),
           row.gen \in {a.gen, b.gen, None}, row.active \in {a.active, b.active, None}
    PROVE  /\ row.gen # None => status'[row.gen] # "none"
           /\ row.active # None => status'[row.active] # "none"
BY DEF NamesBegun, StayBegun, RepositoryRow

LEMMA RowsNamesBegun ==
    ASSUME TypeInv, NEW w \in Workers
    PROVE  /\ repo \in RepositoryRow /\ NamesBegun(repo)
           /\ cache[w] \in RepositoryRow /\ NamesBegun(cache[w])
BY DEF TypeInv, TypeOK, Anchored, AnchoredAt

\* A step of w leaves the sessions of the others alone.
OthersStay(w) ==
    \A v \in Workers \ {w} :
        /\ pc'[v] = pc[v] /\ want'[v] = want[v] /\ cache'[v] = cache[v]
        /\ claim'[v] = claim[v] /\ gen'[v] = gen[v]
        /\ epoch'[v] = epoch[v] /\ victims'[v] = victims[v]

LEMMA StepAnchored ==
    ASSUME TypeInv, NEW w \in Workers, OthersStay(w), StayBegun, CommitsKnown',
           NamesBegun(repo)', AnchoredAt(w)'
    PROVE  Anchored'
<1>1. ASSUME NEW v \in Workers, v # w PROVE AnchoredAt(v)'
  <2>1. AnchoredAt(v)
    BY <1>1 DEF TypeInv, Anchored
  <2>2. cache[v] \in RepositoryRow /\ victims[v] \subseteq Gens
    BY DEF TypeInv, TypeOK
  <2>3. UNCHANGED <<pc[v], want[v], cache[v], claim[v], gen[v], victims[v]>>
    BY <1>1 DEF OthersStay
  <2> QED
    BY <2>1, <2>2, <2>3 DEF AnchoredAt, NamesBegun, StayBegun, RepositoryRow
<1> QED
  BY <1>1 DEF Anchored

\* A request that ends leaves its session empty and everybody else's alone.
LEMMA EndRequestType ==
    ASSUME TypeInv, NEW w \in Workers, EndRequest(w)
    PROVE  /\ pc' \in [Workers -> PCs]
           /\ want' \in [Workers -> Commits \cup {None}]
           /\ cache' \in [Workers -> RepositoryRow]
           /\ claim' \in [Workers -> RevisionRow \cup {None}]
           /\ gen' \in [Workers -> Gens \cup {None}]
           /\ epoch' \in [Workers -> 0..MaxEpoch]
           /\ victims' \in [Workers -> SUBSET Gens]
           /\ pc'[w] = "idle" /\ victims'[w] = {} /\ cache'[w] = NewRow
           /\ OthersStay(w)
BY IndexingAssumption, NewRowType DEF EndRequest, OthersStay, TypeInv, TypeOK

LEMMA EndRequestAnchored ==
    ASSUME TypeInv, NEW w \in Workers, EndRequest(w), StayBegun, CommitsKnown',
           NamesBegun(repo)'
    PROVE  Anchored'
<1>1. AnchoredAt(w)'
  BY EndRequestType DEF AnchoredAt, NamesBegun, NewRow
<1> QED
  BY <1>1, EndRequestType, StepAnchored

LEMMA UnlockedType ==
    ASSUME TypeInv, NEW w \in Workers
    PROVE  Unlocked(w) \in [Gens -> Workers \cup {None}]
BY DEF Unlocked, TypeInv, TypeOK

LEMMA TakeTreeType ==
    ASSUME TypeInv, NEW w \in Workers, NEW c \in Commits, NEW r \in RevisionRow,
           TakeTree(w, c, r)
    PROVE  /\ rev' \in [Commits -> RevisionRow]
           /\ creating' \in [Commits -> [Workers -> Tree]]
           /\ publish' \in [Commits -> Tree]
           /\ pc' \in [Workers -> PCs]
           /\ pc'[w] \in {"write", "validate"}
           /\ \A v \in Workers \ {w} : pc'[v] = pc[v]
<1> DEFINE found == Recovered(c, r)
           taken == IF Reusable(found) THEN found ELSE Claimed(found, w)
<1>1. found \in RevisionRow /\ taken \in RevisionRow
  BY RevisionTypes
<1>2. FlushRevision(rev[c], r, taken) \in RevisionRow
  BY <1>1, FlushRevisionType DEF TypeInv, TypeOK
<1>3. rev' = [rev EXCEPT ![c] = FlushRevision(rev[c], r, taken)]
  BY DEF TakeTree
<1>4. rev' \in [Commits -> RevisionRow]
  BY <1>2, <1>3 DEF TypeInv, TypeOK
<1> QED
  BY <1>4 DEF TakeTree, TypeInv, TypeOK

LEMMA InitTypes == Init => TypeInv
BY IndexingAssumption, NewRowType, TimePasses
   DEF Init, TypeInv, TypeOK, Anchored, AnchoredAt, CommitsKnown,
       AbsentRevision, RevisionRow, NamesBegun, NewRow

\* The steps that end a request and change neither generations nor revisions.
LEMMA EndingStep ==
    ASSUME TypeInv, NEW w \in Workers, EndRequest(w),
           UNCHANGED <<repo, status, commitOf, rev, disk>>,
           rowLock' \in Workers \cup {None},
           genLock' \in [Gens -> Workers \cup {None}]
    PROVE  TypeInv'
<1>1. TypeOK'
  BY EndRequestType DEF TypeInv, TypeOK, disk
<1>2. StayBegun /\ CommitsKnown' /\ NamesBegun(repo)'
  BY DEF StayBegun, CommitsKnown, NamesBegun, TypeInv, Anchored
<1> QED
  BY <1>1, <1>2, EndRequestAnchored DEF TypeInv

LEMMA ResetRowTypes ==
    ASSUME TypeInv, NEW w \in Workers, ResetRow(w) PROVE TypeInv'
<1>1. TypeOK'
  <2>1. repo' \in RepositoryRow
    BY RowTypes, FlushRowType DEF ResetRow, TypeInv, TypeOK
  <2>2. status' \in [Gens -> Statuses]
    BY DEF ResetRow, TypeInv, TypeOK
  <2>3. genLock' \in [Gens -> Workers \cup {None}]
    BY UnlockedType DEF ResetRow
  <2>4. /\ cache' \in [Workers -> RepositoryRow]
        /\ victims' \in [Workers -> SUBSET Gens]
        /\ pc' \in [Workers -> PCs]
    BY <2>1 DEF ResetRow, TypeInv, TypeOK
  <2>5. UNCHANGED <<commitOf, rev, creating, publish, rowLock,
                    want, claim, gen, epoch>>
    BY DEF ResetRow, disk
  <2> QED
    BY <2>1, <2>2, <2>3, <2>4, <2>5 DEF TypeInv, TypeOK
<1>2. OthersStay(w) /\ StayBegun /\ CommitsKnown'
  BY DEF ResetRow, OthersStay, StayBegun, CommitsKnown, TypeInv, TypeOK,
         Anchored, AnchoredAt
<1>3. NamesBegun(repo)'
  <2>1. repo' \in RepositoryRow
    BY <1>1 DEF TypeOK
  <2>2. /\ repo'.gen \in {repo.gen, cache[w].gen, None}
        /\ repo'.active \in {repo.active, cache[w].active, None}
    BY RowsNamesBegun, RowTypes, RowNames, FlushRowNames DEF ResetRow
  <2> QED
    BY <1>2, <2>1, <2>2, RowsNamesBegun, NamesFrom DEF NamesBegun
<1>4. AnchoredAt(w)'
  BY <1>3 DEF ResetRow, AnchoredAt, NamesBegun, TypeInv, TypeOK, Anchored
<1> QED
  BY <1>1, <1>2, <1>3, <1>4, StepAnchored DEF TypeInv

LEMMA JoinTypes ==
    ASSUME TypeInv, NEW w \in Workers, Join(w) PROVE TypeInv'
<1>1. TypeOK'
  <2>1. ASSUME NEW c \in Commits PROVE Repaired(c) \in RevisionRow
    <3>1. rev[c] \in RevisionRow
      BY DEF TypeInv, TypeOK
    <3> QED
      BY <3>1 DEF Repaired, RevisionRow
  <2>2. Pending \in SUBSET Gens
    BY DEF Pending
  <2> QED
    BY <2>1, <2>2 DEF Join, TypeInv, TypeOK, disk, locks
<1>2. OthersStay(w) /\ StayBegun /\ CommitsKnown' /\ NamesBegun(repo)'
  BY DEF Join, OthersStay, StayBegun, CommitsKnown, NamesBegun, TypeInv, TypeOK, Anchored
<1>3. AnchoredAt(w)'
  BY DEF Join, AnchoredAt, NamesBegun, TypeInv, TypeOK, Anchored, Pending, CommitsKnown
<1> QED
  BY <1>1, <1>2, <1>3, StepAnchored DEF TypeInv

LEMMA ResetGensTypes ==
    ASSUME TypeInv, NEW w \in Workers, ResetGens(w) PROVE TypeInv'
<1>1. TypeOK'
  BY DEF ResetGens, TypeInv, TypeOK, disk, locks, session
<1>2. OthersStay(w) /\ StayBegun /\ CommitsKnown' /\ NamesBegun(repo)'
  BY DEF ResetGens, OthersStay, StayBegun, CommitsKnown, NamesBegun, TypeInv, TypeOK, Anchored, session, disk, locks
<1>3. AnchoredAt(w)'
  BY DEF ResetGens, AnchoredAt, NamesBegun, TypeInv, TypeOK, Anchored, CommitsKnown, session, disk, locks
<1> QED
  BY <1>1, <1>2, <1>3, StepAnchored DEF TypeInv

LEMMA PlanBuildTypes ==
    ASSUME TypeInv, NEW w \in Workers, PlanBuild(w) PROVE TypeInv'
<1>1. TypeOK'
  <2>1. want[w] \in Commits
    BY DEF PlanBuild, TypeInv, Anchored, AnchoredAt
  <2> QED
    BY <2>1 DEF PlanBuild, TypeInv, TypeOK, disk, locks, session
<1>2. OthersStay(w) /\ StayBegun /\ CommitsKnown' /\ NamesBegun(repo)'
  BY DEF PlanBuild, OthersStay, StayBegun, CommitsKnown, NamesBegun, TypeInv, TypeOK, Anchored, session, disk, locks
<1>3. AnchoredAt(w)'
  BY DEF PlanBuild, AnchoredAt, NamesBegun, TypeInv, TypeOK, Anchored, CommitsKnown, session, disk, locks
<1> QED
  BY <1>1, <1>2, <1>3, StepAnchored DEF TypeInv

LEMMA FetchTypes ==
    ASSUME TypeInv, NEW w \in Workers, Fetch(w) PROVE TypeInv'
<1>1. TypeOK'
  BY DEF Fetch, TypeInv, TypeOK, disk, locks, session
<1>2. OthersStay(w) /\ StayBegun /\ CommitsKnown' /\ NamesBegun(repo)'
  BY DEF Fetch, OthersStay, StayBegun, CommitsKnown, NamesBegun, TypeInv, TypeOK, Anchored, session, disk, locks
<1>3. AnchoredAt(w)'
  BY DEF Fetch, AnchoredAt, NamesBegun, TypeInv, TypeOK, Anchored, CommitsKnown, session, disk, locks
<1> QED
  BY <1>1, <1>2, <1>3, StepAnchored DEF TypeInv

LEMMA FinishWriteTypes ==
    ASSUME TypeInv, NEW w \in Workers, FinishWrite(w) PROVE TypeInv'
<1>1. TypeOK'
  BY DEF FinishWrite, TypeInv, TypeOK, disk, locks, session, Goto
<1>2. OthersStay(w) /\ StayBegun /\ CommitsKnown' /\ NamesBegun(repo)'
  BY DEF FinishWrite, OthersStay, StayBegun, CommitsKnown, NamesBegun, TypeInv, TypeOK, Anchored, Goto, session, disk, locks
<1>3. AnchoredAt(w)'
  BY DEF FinishWrite, AnchoredAt, NamesBegun, TypeInv, TypeOK, Anchored, Goto, CommitsKnown, session, disk, locks
<1> QED
  BY <1>1, <1>2, <1>3, StepAnchored DEF TypeInv

LEMMA ValidateTypes ==
    ASSUME TypeInv, NEW w \in Workers, Validate(w) PROVE TypeInv'
<1>1. TypeOK'
  BY DEF Validate, TypeInv, TypeOK, disk, locks, session, Goto
<1>2. OthersStay(w) /\ StayBegun /\ CommitsKnown' /\ NamesBegun(repo)'
  BY DEF Validate, OthersStay, StayBegun, CommitsKnown, NamesBegun, TypeInv, TypeOK, Anchored, Goto, session, disk, locks
<1>3. AnchoredAt(w)'
  BY DEF Validate, AnchoredAt, NamesBegun, TypeInv, TypeOK, Anchored, Goto, CommitsKnown, session, disk, locks
<1> QED
  BY <1>1, <1>2, <1>3, StepAnchored DEF TypeInv

LEMMA AcquireTypes ==
    ASSUME TypeInv, NEW w \in Workers, Acquire(w) PROVE TypeInv'
<1>1. TypeOK'
  BY RowTypes DEF Acquire, TypeInv, TypeOK, disk, locks, session, Goto
<1>2. OthersStay(w) /\ StayBegun /\ CommitsKnown' /\ NamesBegun(repo)'
  BY DEF Acquire, OthersStay, StayBegun, CommitsKnown, NamesBegun, TypeInv, TypeOK, Anchored, Goto, session, disk, locks
<1>3. NamesBegun(Renewed(repo))
  BY RowsNamesBegun, RowNames DEF NamesBegun
<1>4. AnchoredAt(w)'
  BY <1>3 DEF Acquire, Goto, AnchoredAt, NamesBegun, TypeInv, TypeOK, Anchored, session
<1> QED
  BY <1>1, <1>2, <1>4, StepAnchored DEF TypeInv

LEMMA RenewTypes ==
    ASSUME TypeInv, NEW w \in Workers, Renew(w) PROVE TypeInv'
<1>1. TypeOK'
  BY RowTypes DEF Renew, TypeInv, TypeOK, disk, locks, session
<1>2. OthersStay(w) /\ StayBegun /\ CommitsKnown' /\ NamesBegun(repo)'
  BY DEF Renew, OthersStay, StayBegun, CommitsKnown, NamesBegun, TypeInv, TypeOK, Anchored, session, disk, locks
<1>3. NamesBegun(Renewed(cache[w]))
  BY RowsNamesBegun, RowNames DEF NamesBegun
<1>4. AnchoredAt(w)'
  BY <1>3 DEF Renew, AnchoredAt, NamesBegun, TypeInv, TypeOK, Anchored, session
<1> QED
  BY <1>1, <1>2, <1>4, StepAnchored DEF TypeInv

LEMMA WriteDraftTypes ==
    ASSUME TypeInv, NEW w \in Workers, WriteDraft(w) PROVE TypeInv'
<1>1. TypeOK'
  BY DEF WriteDraft, TypeInv, TypeOK, disk, locks, session, Goto
<1>2. OthersStay(w) /\ StayBegun /\ CommitsKnown' /\ NamesBegun(repo)'
  BY DEF WriteDraft, OthersStay, StayBegun, CommitsKnown, NamesBegun, TypeInv, TypeOK, Anchored, Goto, session, disk, locks
<1>3. AnchoredAt(w)'
  BY DEF WriteDraft, AnchoredAt, NamesBegun, TypeInv, TypeOK, Anchored, Goto, CommitsKnown, session, disk, locks
<1> QED
  BY <1>1, <1>2, <1>3, StepAnchored DEF TypeInv

LEMMA ActivateTypes ==
    ASSUME TypeInv, NEW w \in Workers, Activate(w) PROVE TypeInv'
<1>1. TypeOK'
  BY RowTypes DEF Activate, TypeInv, TypeOK, disk, locks, session, Goto
<1>2. OthersStay(w) /\ StayBegun /\ CommitsKnown' /\ NamesBegun(repo)'
  BY DEF Activate, OthersStay, StayBegun, CommitsKnown, NamesBegun, TypeInv, TypeOK, Anchored, Goto, session, disk, locks
<1>3. NamesBegun(Renewed(cache[w]))
  BY RowsNamesBegun, RowNames DEF NamesBegun
<1>4. AnchoredAt(w)'
  BY <1>3 DEF Activate, Goto, AnchoredAt, NamesBegun, TypeInv, TypeOK, Anchored, session
<1> QED
  BY <1>1, <1>2, <1>4, StepAnchored DEF TypeInv

LEMMA FailsTypes ==
    ASSUME TypeInv, NEW w \in Workers, Fails(w) PROVE TypeInv'
<1>1. TypeOK'
  BY DEF Fails, TypeInv, TypeOK, disk, locks, session
<1>2. OthersStay(w) /\ StayBegun /\ CommitsKnown' /\ NamesBegun(repo)'
  BY DEF Fails, OthersStay, StayBegun, CommitsKnown, NamesBegun, TypeInv, TypeOK, Anchored, session, disk, locks
<1>3. AnchoredAt(w)'
  BY DEF Fails, AnchoredAt, NamesBegun, TypeInv, TypeOK, Anchored, CommitsKnown, session, disk, locks
<1> QED
  BY <1>1, <1>2, <1>3, StepAnchored DEF TypeInv

LEMMA BeginWriteTypes ==
    ASSUME TypeInv, NEW w \in Workers, BeginWrite(w) PROVE TypeInv'
<1> DEFINE c == Target(w)
<1>0. c \in Commits
  BY DEF BeginWrite, Goto, Target, CommitsKnown, AnchoredAt, TypeInv, Anchored
<1>1. TypeOK'
  <2>1. rev[c] \in RevisionRow
    BY <1>0 DEF TypeInv, TypeOK
  <2>2. claim' \in [Workers -> RevisionRow \cup {None}]
    BY <2>1 DEF BeginWrite, TypeInv, TypeOK
  <2>3. creating' \in [Commits -> [Workers -> Tree]]
    BY DEF BeginWrite, TypeInv, TypeOK
  <2>4. pc' \in [Workers -> PCs]
    BY DEF BeginWrite, Goto, TypeInv, TypeOK
  <2> QED
    BY <2>2, <2>3, <2>4 DEF BeginWrite, TypeInv, TypeOK, locks
<1>2. OthersStay(w) /\ StayBegun /\ CommitsKnown' /\ NamesBegun(repo)'
  BY DEF BeginWrite, OthersStay, StayBegun, CommitsKnown, NamesBegun, TypeInv, TypeOK, Anchored, Goto
<1>3. AnchoredAt(w)'
  <2>1. rev[c] \in RevisionRow /\ rev[c].dir \in Workers
    BY <1>0 DEF BeginWrite, RevisionRow, TypeInv, TypeOK
  <2> QED
    BY <2>1 DEF BeginWrite, Goto, AnchoredAt, NamesBegun, TypeInv, TypeOK, Anchored
<1> QED
  BY <1>1, <1>2, <1>3, StepAnchored DEF TypeInv

LEMMA PromoteTypes ==
    ASSUME TypeInv, NEW w \in Workers, Promote(w) PROVE TypeInv'
<1> DEFINE c == Target(w)
<1>0. c \in Commits
  BY DEF Promote, Goto, Target, CommitsKnown, AnchoredAt, TypeInv, Anchored
<1>1. TypeOK'
  <2>1. claim[w].dir \in Workers
    BY DEF Promote, Goto, TypeInv, Anchored, AnchoredAt
  <2>2. creating[c][claim[w].dir] \in Tree
    BY <1>0, <2>1 DEF TypeInv, TypeOK
  <2>3. publish' \in [Commits -> Tree]
    BY <2>2 DEF Promote, TypeInv, TypeOK
  <2>4. creating' \in [Commits -> [Workers -> Tree]]
    BY DEF Promote, TypeInv, TypeOK
  <2>5. pc' \in [Workers -> PCs]
    BY DEF Promote, Goto, TypeInv, TypeOK
  <2> QED
    BY <2>3, <2>4, <2>5 DEF Promote, TypeInv, TypeOK, locks, session
<1>2. OthersStay(w) /\ StayBegun /\ CommitsKnown' /\ NamesBegun(repo)'
  BY DEF Promote, OthersStay, StayBegun, CommitsKnown, NamesBegun, TypeInv, TypeOK, Anchored, Goto, session
<1>3. AnchoredAt(w)'
  BY DEF Promote, AnchoredAt, NamesBegun, TypeInv, TypeOK, Anchored, Goto, session
<1> QED
  BY <1>1, <1>2, <1>3, StepAnchored DEF TypeInv

LEMMA PublishTypes ==
    ASSUME TypeInv, NEW w \in Workers, Publish(w) PROVE TypeInv'
<1> DEFINE c == Target(w)
<1>0. c \in Commits
  BY DEF Publish, Goto, Target, CommitsKnown, AnchoredAt, TypeInv, Anchored
<1>1. TypeOK'
  <2>1. claim[w] \in RevisionRow
    BY DEF Publish, Goto, TypeInv, Anchored, AnchoredAt
  <2>2. rev[c] \in RevisionRow
    BY <1>0 DEF TypeInv, TypeOK
  <2>3. FlushRevision(rev[c], claim[w],
          [Unclaimed(claim[w]) EXCEPT !.state = "ready", !.path = TRUE]) \in RevisionRow
    BY <1>0, <2>1, <2>2, RevisionTypes, FlushRevisionType
  <2>4. rev' \in [Commits -> RevisionRow]
    BY <2>3 DEF Publish, TypeInv, TypeOK
  <2>5. claim' \in [Workers -> RevisionRow \cup {None}] /\ pc' \in [Workers -> PCs]
    BY DEF Publish, Goto, TypeInv, TypeOK
  <2> QED
    BY <2>4, <2>5 DEF Publish, TypeInv, TypeOK, locks, disk
<1>2. OthersStay(w) /\ StayBegun /\ CommitsKnown' /\ NamesBegun(repo)'
  BY DEF Publish, OthersStay, StayBegun, CommitsKnown, NamesBegun, TypeInv, TypeOK, Anchored, Goto
<1>3. AnchoredAt(w)'
  BY DEF Publish, AnchoredAt, NamesBegun, TypeInv, TypeOK, Anchored, Goto
<1> QED
  BY <1>1, <1>2, <1>3, StepAnchored DEF TypeInv

LEMMA AbortClaimTypes ==
    ASSUME TypeInv, NEW w \in Workers, AbortClaim(w) PROVE TypeInv'
<1> DEFINE c == Target(w)
<1>0. c \in Commits
  BY DEF AbortClaim, Goto, Target, CommitsKnown, AnchoredAt, TypeInv, Anchored
<1>1. TypeOK'
  <2>1. claim[w] \in RevisionRow
    BY DEF AbortClaim, Goto, TypeInv, Anchored, AnchoredAt
  <2>2. rev[c] \in RevisionRow
    BY <1>0 DEF TypeInv, TypeOK
  <2>3. FlushRevision(rev[c], claim[w],
          [Unclaimed(claim[w]) EXCEPT !.state = "absent"]) \in RevisionRow
    BY <1>0, <2>1, <2>2, RevisionTypes, FlushRevisionType
  <2>4. rev' \in [Commits -> RevisionRow]
    BY <2>3 DEF AbortClaim, TypeInv, TypeOK
  <2>5. claim' \in [Workers -> RevisionRow \cup {None}] /\ pc' \in [Workers -> PCs]
    BY DEF AbortClaim, Goto, TypeInv, TypeOK
  <2> QED
    BY <2>4, <2>5 DEF AbortClaim, TypeInv, TypeOK, locks, disk
<1>2. OthersStay(w) /\ StayBegun /\ CommitsKnown' /\ NamesBegun(repo)'
  BY DEF AbortClaim, OthersStay, StayBegun, CommitsKnown, NamesBegun, TypeInv, TypeOK, Anchored, Goto
<1>3. AnchoredAt(w)'
  BY DEF AbortClaim, AnchoredAt, NamesBegun, TypeInv, TypeOK, Anchored, Goto
<1> QED
  BY <1>1, <1>2, <1>3, StepAnchored DEF TypeInv

LEMMA RollbackTypes ==
    ASSUME TypeInv, NEW w \in Workers, Rollback(w) PROVE TypeInv'
<1> DEFINE c == Target(w)
<1>0. c \in Commits
  BY DEF Rollback, Goto, Target, CommitsKnown, AnchoredAt, TypeInv, Anchored
<1>1. TypeOK'
  <2>1. rev[c] \in RevisionRow
    BY <1>0 DEF TypeInv, TypeOK
  <2>2. claim' \in [Workers -> RevisionRow \cup {None}]
    BY <2>1 DEF Rollback, TypeInv, TypeOK
  <2>3. creating' \in [Commits -> [Workers -> Tree]] /\ publish' \in [Commits -> Tree]
    BY DEF Rollback, TypeInv, TypeOK
  <2>4. /\ rowLock' \in Workers \cup {None}
        /\ genLock' \in [Gens -> Workers \cup {None}]
        /\ cache' \in [Workers -> RepositoryRow]
        /\ pc' \in [Workers -> PCs]
    BY UnlockedType, NewRowType DEF Rollback, TypeInv, TypeOK
  <2> QED
    BY <2>2, <2>3, <2>4 DEF Rollback, TypeInv, TypeOK
<1>2. OthersStay(w) /\ StayBegun /\ CommitsKnown' /\ NamesBegun(repo)'
  BY DEF Rollback, OthersStay, StayBegun, CommitsKnown, NamesBegun, TypeInv, TypeOK, Anchored
<1>3. AnchoredAt(w)'
  <2>1. rev[c] \in RevisionRow
    BY <1>0 DEF TypeInv, TypeOK
  <2> QED
    BY <2>1 DEF Rollback, AnchoredAt, NamesBegun, NewRow, TypeInv, TypeOK, Anchored
<1> QED
  BY <1>1, <1>2, <1>3, StepAnchored DEF TypeInv

LEMMA CommitActivationTypes ==
    ASSUME TypeInv, NEW w \in Workers, CommitActivation(w) PROVE TypeInv'
<1>1. /\ gen[w] \in Gens /\ status[gen[w]] # "none"
      /\ cache[w] \in RepositoryRow /\ NamesBegun(cache[w])
      /\ repo \in RepositoryRow /\ NamesBegun(repo)
  BY RowsNamesBegun DEF CommitActivation, TypeInv, Anchored, AnchoredAt
<1>2. repo' = FlushRow(repo, cache[w], Served(cache[w], gen[w]))
  BY DEF CommitActivation
<1>3. repo' \in RepositoryRow
  BY <1>1, <1>2, BuildRows, FlushRowType
<1>4. status' = Activated(gen[w], cache[w].active)
  BY DEF CommitActivation
<1>5. TypeOK'
  <2>1. status' \in [Gens -> Statuses]
    BY <1>4 DEF Activated, TypeInv, TypeOK
  <2>2. /\ rowLock' \in Workers \cup {None}
        /\ genLock' \in [Gens -> Workers \cup {None}]
        /\ cache' \in [Workers -> RepositoryRow]
        /\ pc' \in [Workers -> PCs]
    BY UnlockedType, NewRowType DEF CommitActivation, TypeInv, TypeOK
  <2> QED
    BY <1>3, <2>1, <2>2 DEF CommitActivation, TypeInv, TypeOK, disk
<1>6. OthersStay(w) /\ StayBegun
  BY DEF CommitActivation, Activated, OthersStay, StayBegun, TypeInv, TypeOK
<1>7. CommitsKnown'
  <2> SUFFICES ASSUME NEW g \in Gens, status'[g] # "none"
               PROVE  commitOf[g] \in Commits
    BY DEF CommitsKnown, CommitActivation
  <2>1. status[g] # "none"
    BY <1>1, <1>4, IndexingAssumption DEF Activated, NamesBegun, TypeInv, TypeOK
  <2> QED
    BY <2>1 DEF CommitsKnown, TypeInv, Anchored
<1>8. NamesBegun(repo)'
  <2> DEFINE new == Served(cache[w], gen[w])
  <2>1. new \in RepositoryRow /\ new.gen = None /\ new.active = gen[w]
    BY <1>1, BuildRows
  <2> HIDE DEF new
  <2>2. repo'.gen \in {repo.gen, new.gen} /\ repo'.active \in {repo.active, new.active}
    BY <1>1, <1>2, <2>1, FlushRowNames DEF new
  <2> QED
    BY <1>1, <1>3, <1>6, <2>1, <2>2 DEF NamesBegun, StayBegun, RepositoryRow
<1>9. AnchoredAt(w)'
  BY <1>1, <1>6 DEF CommitActivation, AnchoredAt, StayBegun, NamesBegun, NewRow,
                    TypeInv, TypeOK, Anchored
<1> QED
  BY <1>5, <1>6, <1>7, <1>8, <1>9, StepAnchored DEF TypeInv

LEMMA AdoptTypes ==
    ASSUME TypeInv, NEW w \in Workers, Adopt(w) PROVE TypeInv'
<1>1. /\ cache[w] \in RepositoryRow /\ NamesBegun(cache[w])
      /\ repo \in RepositoryRow /\ NamesBegun(repo)
  BY RowsNamesBegun
<1>2. /\ repo' = FlushRow(repo, cache[w], Adopted(cache[w], w))
      /\ cache[w].epoch < MaxEpoch
      /\ cache[w].gen \in Gens
  BY <1>1 DEF Adopt, RepositoryRow
<1>3. repo' \in RepositoryRow
  BY <1>1, <1>2, BuildRows, FlushRowType
<1>4. TypeOK'
  <2>1. /\ cache' \in [Workers -> RepositoryRow]
        /\ claim' \in [Workers -> RevisionRow \cup {None}]
        /\ pc' \in [Workers -> PCs]
    BY <1>3 DEF Adopt, TypeInv, TypeOK
  <2> QED
    BY <1>3, <2>1 DEF Adopt, TypeInv, TypeOK, disk, locks
<1>5. OthersStay(w) /\ StayBegun /\ CommitsKnown'
  BY DEF Adopt, OthersStay, StayBegun, CommitsKnown, TypeInv, TypeOK, Anchored
<1>6. NamesBegun(repo)'
  <2> DEFINE new == Adopted(cache[w], w)
  <2>1. /\ new \in RepositoryRow
        /\ new.gen = cache[w].gen /\ new.active = cache[w].active
    BY <1>1, <1>2, BuildRows
  <2> HIDE DEF new
  <2>2. /\ repo'.gen \in {repo.gen, new.gen}
        /\ repo'.active \in {repo.active, new.active}
    BY <1>1, <1>2, <2>1, FlushRowNames DEF new
  <2> QED
    BY <1>1, <1>3, <1>5, <2>1, <2>2, NamesFrom DEF NamesBegun
<1>7. AnchoredAt(w)'
  BY <1>6 DEF Adopt, AnchoredAt, NamesBegun, TypeInv, TypeOK, Anchored
<1> QED
  BY <1>4, <1>5, <1>6, <1>7, StepAnchored DEF TypeInv

LEMMA StartTypes ==
    ASSUME TypeInv, NEW w \in Workers, Start(w) PROVE TypeInv'
<1> DEFINE row == cache[w]
<1>1. want[w] \in Commits /\ SeenRevision(w) \in RevisionRow
  BY DEF Start, SeenRevision, TypeInv, TypeOK, Anchored, AnchoredAt
<1>2. /\ rev' \in [Commits -> RevisionRow]
      /\ creating' \in [Commits -> [Workers -> Tree]]
      /\ publish' \in [Commits -> Tree]
      /\ pc' \in [Workers -> PCs]
      /\ pc'[w] \in {"write", "validate"}
      /\ \A v \in Workers \ {w} : pc'[v] = pc[v]
  BY <1>1, TakeTreeType DEF Start
<1>3. PICK g \in Unbuilt :
        /\ repo' = FlushRow(repo, row, Started(row, g, w))
        /\ status' = [status EXCEPT ![g] = "pending"]
        /\ commitOf' = [commitOf EXCEPT ![g] = want[w]]
        /\ gen' = [gen EXCEPT ![w] = g]
  BY DEF Start
<1>4. /\ g \in Gens /\ row.epoch < MaxEpoch
      /\ row \in RepositoryRow /\ NamesBegun(row)
      /\ repo \in RepositoryRow /\ NamesBegun(repo)
  BY RowsNamesBegun DEF Unbuilt, Start
<1>5. repo' \in RepositoryRow
  BY <1>3, <1>4, BuildRows, FlushRowType
<1>6. TypeOK'
  <2>1. /\ status' \in [Gens -> Statuses]
        /\ commitOf' \in [Gens -> Commits \cup {None}]
        /\ gen' \in [Workers -> Gens \cup {None}]
    BY <1>1, <1>3, <1>4 DEF TypeInv, TypeOK
  <2>2. row.epoch + 1 \in 0..MaxEpoch
    BY <1>4, IndexingAssumption DEF RepositoryRow
  <2>3. /\ epoch' \in [Workers -> 0..MaxEpoch]
        /\ cache' \in [Workers -> RepositoryRow]
        /\ claim' \in [Workers -> RevisionRow \cup {None}]
    BY <2>2, NewRowType DEF Start, TypeInv, TypeOK
  <2> QED
    BY <1>2, <1>5, <2>1, <2>3 DEF Start, TypeInv, TypeOK, locks
<1>7. OthersStay(w)
  BY <1>2, <1>3 DEF Start, OthersStay, TypeInv, TypeOK
<1>8. StayBegun /\ CommitsKnown' /\ status'[g] # "none"
  BY <1>1, <1>3, <1>4 DEF StayBegun, CommitsKnown, TypeInv, TypeOK, Anchored
<1>9. AnchoredAt(w)'
  BY <1>2, <1>3, <1>4, <1>8
     DEF Start, AnchoredAt, StayBegun, NamesBegun, NewRow, TypeInv, TypeOK, Anchored
<1>10. NamesBegun(repo)'
  <2> DEFINE new == Started(row, g, w)
  <2>1. new \in RepositoryRow /\ new.gen = g /\ new.active = row.active
    BY <1>4, BuildRows
  <2> HIDE DEF new
  <2>2. repo'.gen \in {repo.gen, new.gen} /\ repo'.active \in {repo.active, new.active}
    BY <1>3, <1>4, <2>1, FlushRowNames DEF new
  <2> QED
    BY <1>4, <1>5, <1>8, <2>1, <2>2 DEF NamesBegun, StayBegun, RepositoryRow
<1> QED
  BY <1>6, <1>7, <1>8, <1>9, <1>10, StepAnchored DEF TypeInv

LEMMA CompleteTypes ==
    ASSUME TypeInv, NEW w \in Workers, Complete(w) PROVE TypeInv'
<1> DEFINE row == cache[w]
           c == commitOf[row.gen]
<1>1. row \in RepositoryRow /\ row.gen \in Gens /\ status[row.gen] = "pending"
  BY DEF Complete, MayComplete, TypeInv, TypeOK, RepositoryRow
<1>2. c \in Commits /\ rev[c] \in RevisionRow
  BY <1>1 DEF TypeInv, TypeOK, Anchored, CommitsKnown
<1>3. /\ rev' \in [Commits -> RevisionRow]
      /\ creating' \in [Commits -> [Workers -> Tree]]
      /\ publish' \in [Commits -> Tree]
      /\ pc' \in [Workers -> PCs]
      /\ pc'[w] \in {"write", "validate"}
      /\ \A v \in Workers \ {w} : pc'[v] = pc[v]
  BY <1>2, TakeTreeType DEF Complete
<1>4. TypeOK'
  <2>1. row.epoch \in 0..MaxEpoch
    BY <1>1 DEF RepositoryRow
  <2>2. /\ gen' \in [Workers -> Gens \cup {None}]
        /\ epoch' \in [Workers -> 0..MaxEpoch]
        /\ cache' \in [Workers -> RepositoryRow]
    BY <1>1, <2>1, NewRowType DEF Complete, TypeInv, TypeOK
  <2> QED
    BY <1>3, <2>2 DEF Complete, TypeInv, TypeOK, locks
<1>5. OthersStay(w) /\ StayBegun /\ CommitsKnown' /\ NamesBegun(repo)'
  BY <1>3 DEF Complete, OthersStay, StayBegun, CommitsKnown, NamesBegun,
              TypeInv, TypeOK, Anchored
<1>6. AnchoredAt(w)'
  BY <1>1, <1>3 DEF Complete, AnchoredAt, NamesBegun, NewRow, TypeInv, TypeOK, Anchored
<1> QED
  BY <1>4, <1>5, <1>6, StepAnchored DEF TypeInv

LEMMA FailIfOwnerTypes ==
    ASSUME TypeInv, NEW w \in Workers, FailIfOwner(w) PROVE TypeInv'
<1>1. gen[w] \in Gens /\ status[gen[w]] # "none" /\ repo \in RepositoryRow
  BY DEF FailIfOwner, TypeInv, TypeOK, Anchored, AnchoredAt
<1>2. repo' \in RepositoryRow
  BY <1>1, RowTypes DEF FailIfOwner
<1>3. status' \in [Gens -> Statuses] /\ StayBegun /\ CommitsKnown'
  BY <1>1 DEF FailIfOwner, StayBegun, CommitsKnown, TypeInv, TypeOK, Anchored
<1>4. NamesBegun(repo)'
  BY <1>1, <1>3 DEF FailIfOwner, Idle, NamesBegun, StayBegun, RepositoryRow, TypeInv, Anchored
<1>5. TypeOK'
  BY <1>2, <1>3, EndRequestType DEF FailIfOwner, TypeInv, TypeOK, disk, locks
<1> QED
  BY <1>3, <1>4, <1>5, EndRequestAnchored DEF FailIfOwner, TypeInv

LEMMA TickTypes ==
    ASSUME TypeInv, Tick PROVE TypeInv'
<1>1. repo' \in RepositoryRow
  BY RowTypes DEF Tick, TypeInv, TypeOK
<1>2. cache' \in [Workers -> RepositoryRow]
  BY RowTypes, NewRowType DEF Tick, TypeInv, TypeOK
<1>3. rev' \in [Commits -> RevisionRow]
  <2>1. ASSUME NEW c \in Commits PROVE AgedRevision(rev[c]) \in RevisionRow
    <3>1. rev[c] \in RevisionRow
      BY DEF TypeInv, TypeOK
    <3> QED
      BY <3>1, TimePasses DEF AgedRevision, RevisionRow
  <2> QED
    BY <2>1 DEF Tick
<1>4. ASSUME NEW w \in Workers
      PROVE  /\ claim'[w] \in RevisionRow \cup {None}
             /\ claim[w] \in RevisionRow =>
                  claim'[w] \in RevisionRow /\ claim'[w].dir = claim[w].dir
  BY TimePasses DEF Tick, AgedRevision, RevisionRow, TypeInv, TypeOK
<1>5. claim' \in [Workers -> RevisionRow \cup {None}]
  BY <1>4 DEF Tick
<1>6. TypeOK'
  BY <1>1, <1>2, <1>3, <1>5 DEF Tick, TypeInv, TypeOK, disk, locks
<1>7. CommitsKnown' /\ NamesBegun(repo)'
  BY RowNames DEF Tick, CommitsKnown, NamesBegun, TypeInv, TypeOK, Anchored
<1>8. ASSUME NEW w \in Workers PROVE AnchoredAt(w)'
  <2>1. NamesBegun(cache[w])'
    BY RowNames DEF Tick, NamesBegun, NewRow, AnchoredAt, TypeInv, TypeOK, Anchored
  <2> QED
    BY <1>4, <2>1 DEF Tick, AnchoredAt, NamesBegun, TypeInv, TypeOK, Anchored
<1> QED
  BY <1>6, <1>7, <1>8 DEF TypeInv, Anchored

LEMMA TypeStep == TypeInv /\ [Next]_vars => TypeInv'
<1> SUFFICES ASSUME TypeInv, [Next]_vars PROVE TypeInv'
  OBVIOUS
<1>1. ASSUME NEW w \in Workers,
             \/ Answer(w) \/ FetchFails(w) \/ StartRefused(w) \/ AdoptRefused(w)
             \/ CompleteRefused(w) \/ Finish(w) \/ FailDeadlock(w)
      PROVE  TypeInv'
  <2>1. EndRequest(w) /\ UNCHANGED <<repo, status, commitOf, rev, disk, rowLock, genLock>>
    BY <1>1 DEF Answer, FetchFails, StartRefused, AdoptRefused, CompleteRefused,
                Finish, FailDeadlock, locks
  <2> QED
    BY <2>1, EndingStep DEF TypeInv, TypeOK
<1>2. ASSUME NEW w \in Workers, ResetDeadlock(w) \/ Crash(w) PROVE TypeInv'
  <2>1. /\ EndRequest(w) /\ UNCHANGED <<repo, status, commitOf, rev, disk>>
        /\ rowLock' \in Workers \cup {None} /\ genLock' = Unlocked(w)
    BY <1>2 DEF ResetDeadlock, Crash, TypeInv, TypeOK
  <2> QED
    BY <2>1, EndingStep, UnlockedType
<1>3. CASE UNCHANGED vars
  BY <1>3 DEF vars, disk, locks, session, TypeInv, TypeOK, Anchored, AnchoredAt,
              CommitsKnown, NamesBegun
<1>4. ASSUME NEW w \in Workers,
             Join(w) \/ Renew(w) \/ Request(w) \/ Trouble(w) \/ Crash(w)
      PROVE  TypeInv'
  BY <1>1, <1>2, <1>4,
     JoinTypes, ResetGensTypes, ResetRowTypes, PlanBuildTypes, FetchTypes,
     StartTypes, AdoptTypes, CompleteTypes, BeginWriteTypes, FinishWriteTypes,
     PromoteTypes, PublishTypes, ValidateTypes, AcquireTypes, RenewTypes,
     WriteDraftTypes, ActivateTypes, CommitActivationTypes, FailsTypes,
     RollbackTypes, AbortClaimTypes, FailIfOwnerTypes
     DEF Request, Trouble
<1> QED
  BY <1>3, <1>4, TickTypes DEF Next, Step

\* The rows, the locks, the trees and the sessions are always of their types: no
\* request writes a tree, publishes or activates without the row it does it for.
THEOREM TypeCorrect == Spec => []TypeOK
<1>1. Spec => []TypeInv
  BY InitTypes, TypeStep, PTL DEF Spec
<1> QED
  BY <1>1, PTL DEF TypeInv

-----------------------------------------------------------------------------
(* The safety invariants.  They are inductive once it is known what the    *)
(* stale rows may be stale about: a worker that builds holds the lock, so  *)
(* the row it has loaded is the committed one but for the times, and one   *)
(* that resets has seen a running refresh, so its UPDATE ends it.          *)

BuilderSees(w) ==
    pc[w] \in Building =>
        /\ rowLock = w
        /\ cache[w].state = repo.state /\ cache[w].gen = repo.gen
        /\ cache[w].owner = repo.owner /\ cache[w].epoch = repo.epoch
        /\ cache[w].active = repo.active
        /\ repo.owner = User[w] /\ repo.epoch = epoch[w]
        /\ pc[w] = "activated" => repo.state = "running" /\ repo.gen = gen[w]

ResetterSees(w) == pc[w] \in {"resetGens", "resetRow"} => cache[w].state = "running"

SafeInv ==
    /\ \A w \in Workers : BuilderSees(w) /\ ResetterSees(w)
    /\ RunningNamesPending
    /\ ReadyIsActive

LEMMA InitSafe == Init => SafeInv
BY DEF Init, NewRow, SafeInv, BuilderSees, ResetterSees, RunningNamesPending,
       ReadyIsActive

\* While the repository row is unlocked, nobody builds.
LEMMA FreeNobodyBuilds ==
    ASSUME TypeInv, SafeInv, RowFree, NEW w \in Workers
    PROVE  pc[w] \notin Building
BY IndexingAssumption DEF SafeInv, BuilderSees, RowFree

\* A step that writes neither the row, nor a status, nor the lock, and does not
\* make its worker build or reset.
QuietFor(w) ==
    /\ OthersStay(w)
    /\ UNCHANGED <<repo, status, rowLock>>
    /\ pc'[w] \notin Building \cup {"resetGens", "resetRow"}

LEMMA QuietStep ==
    ASSUME TypeInv, SafeInv, NEW w \in Workers, QuietFor(w)
    PROVE  SafeInv'
<1>1. ASSUME NEW v \in Workers PROVE BuilderSees(v)' /\ ResetterSees(v)'
  <2>1. CASE v = w
    BY <2>1 DEF QuietFor, BuilderSees, ResetterSees
  <2>2. CASE v # w
    BY <2>2 DEF QuietFor, OthersStay, SafeInv, BuilderSees, ResetterSees
  <2> QED
    BY <2>1, <2>2
<1>2. RunningNamesPending' /\ ReadyIsActive'
  BY DEF QuietFor, SafeInv, RunningNamesPending, ReadyIsActive
<1> QED
  BY <1>1, <1>2 DEF SafeInv

\* A step that writes the row while it is unlocked.
WritesFreeRow(w) ==
    /\ OthersStay(w)
    /\ RowFree
    /\ UNCHANGED rowLock
    /\ pc'[w] \notin Building \cup {"resetGens", "resetRow"}

LEMMA WriterStep ==
    ASSUME TypeInv, SafeInv, NEW w \in Workers, WritesFreeRow(w)
    PROVE  \A v \in Workers : BuilderSees(v)' /\ ResetterSees(v)'
<1> SUFFICES ASSUME NEW v \in Workers PROVE BuilderSees(v)' /\ ResetterSees(v)'
  OBVIOUS
<1>1. CASE v = w
  BY <1>1 DEF WritesFreeRow, BuilderSees, ResetterSees
<1>2. CASE v # w
  <2>1. pc[v] \notin Building
    BY FreeNobodyBuilds DEF WritesFreeRow
  <2> QED
    BY <1>2, <2>1 DEF WritesFreeRow, OthersStay, SafeInv, BuilderSees, ResetterSees
<1> QED
  BY <1>1, <1>2

LEMMA ResetRowSafe ==
    ASSUME TypeInv, SafeInv, NEW w \in Workers, ResetRow(w) PROVE SafeInv'
<1>1. WritesFreeRow(w)
  BY DEF ResetRow, WritesFreeRow, OthersStay, TypeInv, TypeOK
<1>2. cache[w].state = "running" /\ cache[w] \in RepositoryRow /\ repo \in RepositoryRow
  BY RowsNamesBegun DEF ResetRow, SafeInv, ResetterSees
<1>3. repo'.state = "idle" /\ repo'.active = repo.active
  BY <1>2 DEF ResetRow, FlushRow, Reset, Idle, RepositoryRow
<1>4. RunningNamesPending'
  BY <1>3 DEF RunningNamesPending
<1>5. ReadyIsActive'
  BY <1>2, <1>3 DEF ResetRow, ReadyIsActive, SafeInv, TypeInv, TypeOK, RepositoryRow
<1> QED
  BY <1>1, <1>4, <1>5, WriterStep DEF SafeInv

LEMMA StartSafe ==
    ASSUME TypeInv, SafeInv, NEW w \in Workers, Start(w) PROVE SafeInv'
<1> DEFINE row == cache[w]
<1>1. PICK g \in Unbuilt :
        /\ repo' = FlushRow(repo, row, Started(row, g, w))
        /\ status' = [status EXCEPT ![g] = "pending"]
        /\ gen' = [gen EXCEPT ![w] = g]
  BY DEF Start
<1>2. /\ g \in Gens /\ status[g] = "none" /\ g # None
      /\ row \in RepositoryRow /\ NamesBegun(row) /\ row.state = "idle"
      /\ repo \in RepositoryRow /\ NamesBegun(repo)
  BY RowsNamesBegun, IndexingAssumption DEF Unbuilt, Start, RepositoryRow
<1>3. WritesFreeRow(w)
  <2>1. want[w] \in Commits /\ SeenRevision(w) \in RevisionRow
    BY DEF Start, SeenRevision, TypeInv, TypeOK, Anchored, AnchoredAt
  <2>2. pc'[w] \in {"write", "validate"} /\ \A v \in Workers \ {w} : pc'[v] = pc[v]
    BY <2>1, TakeTreeType DEF Start
  <2> QED
    BY <1>1, <2>2 DEF Start, WritesFreeRow, OthersStay, locks, TypeInv, TypeOK
<1>4. repo'.gen = g /\ repo'.active = repo.active
  BY <1>1, <1>2 DEF FlushRow, Started, NamesBegun, RepositoryRow
<1>5. RunningNamesPending'
  BY <1>1, <1>2, <1>4 DEF RunningNamesPending, TypeInv, TypeOK
<1>6. ReadyIsActive'
  BY <1>1, <1>2, <1>4
     DEF ReadyIsActive, SafeInv, NamesBegun, TypeInv, TypeOK, RepositoryRow
<1> QED
  BY <1>3, <1>5, <1>6, WriterStep DEF SafeInv

LEMMA AdoptSafe ==
    ASSUME TypeInv, SafeInv, NEW w \in Workers, Adopt(w) PROVE SafeInv'
<1>1. WritesFreeRow(w) /\ status' = status
  BY DEF Adopt, WritesFreeRow, OthersStay, locks, TypeInv, TypeOK
<1>2. cache[w] \in RepositoryRow /\ repo \in RepositoryRow
  BY RowsNamesBegun
<1>3. UNCHANGED <<repo.state, repo.gen, repo.active>>
  BY <1>2 DEF Adopt, FlushRow, Adopted, RepositoryRow
<1>4. RunningNamesPending' /\ ReadyIsActive'
  BY <1>1, <1>3 DEF RunningNamesPending, ReadyIsActive, SafeInv
<1> QED
  BY <1>1, <1>4, WriterStep DEF SafeInv

LEMMA FailIfOwnerSafe ==
    ASSUME TypeInv, SafeInv, NEW w \in Workers, FailIfOwner(w) PROVE SafeInv'
<1>1. WritesFreeRow(w)
  BY EndRequestType DEF FailIfOwner, WritesFreeRow, locks
<1>2. repo \in RepositoryRow /\ gen[w] \in Gens
  BY DEF FailIfOwner, TypeInv, TypeOK, Anchored, AnchoredAt
<1>3. repo'.active = repo.active
  BY <1>2, RowNames DEF FailIfOwner
<1>4. RunningNamesPending'
  <2>1. CASE OwnsRefresh(w)
    BY <1>2, <2>1 DEF FailIfOwner, Idle, RunningNamesPending, RepositoryRow
  <2>2. CASE ~OwnsRefresh(w)
    BY <2>2 DEF FailIfOwner, FailsGeneration, RunningNamesPending, SafeInv
  <2> QED
    BY <2>1, <2>2
<1>5. ReadyIsActive'
  BY <1>2, <1>3
     DEF FailIfOwner, FailsGeneration, ReadyIsActive, SafeInv, TypeInv, TypeOK,
         RepositoryRow
<1> QED
  BY <1>1, <1>4, <1>5, WriterStep DEF SafeInv

\* What a step of a builder keeps: it alone has the lock.
LEMMA OthersDoNotBuild ==
    ASSUME TypeInv, SafeInv, NEW w \in Workers, rowLock = w, OthersStay(w)
    PROVE  \A v \in Workers \ {w} : BuilderSees(v)' /\ ResetterSees(v)'
<1> SUFFICES ASSUME NEW v \in Workers \ {w}
             PROVE  BuilderSees(v)' /\ ResetterSees(v)'
  OBVIOUS
<1>1. pc[v] \notin Building
  BY DEF SafeInv, BuilderSees
<1> QED
  BY <1>1 DEF OthersStay, SafeInv, BuilderSees, ResetterSees

LEMMA BuilderStep ==
    ASSUME TypeInv, SafeInv, NEW w \in Workers,
           Renew(w) \/ WriteDraft(w) \/ Activate(w)
    PROVE  SafeInv'
<1>1. pc[w] \in Building /\ cache[w] \in RepositoryRow /\ rowLock = w
  BY DEF Renew, WriteDraft, Activate, Goto, SafeInv, BuilderSees, TypeInv, TypeOK
<1>2. OthersStay(w) /\ UNCHANGED <<repo, status, rowLock, gen, epoch>>
  BY DEF Renew, WriteDraft, Activate, Goto, OthersStay, locks, session, TypeInv, TypeOK
<1>3. /\ pc'[w] \in Building
      /\ cache'[w] \in {cache[w], Renewed(cache[w])}
      /\ pc'[w] = "activated" =>
           \/ pc[w] = "activated"
           \/ RefreshMayActivate(Renewed(cache[w]), gen[w], User[w], epoch[w])
  BY DEF Renew, WriteDraft, Activate, Goto, session, TypeInv, TypeOK
<1>4. BuilderSees(w)' /\ ResetterSees(w)'
  BY <1>1, <1>2, <1>3
     DEF SafeInv, BuilderSees, ResetterSees, Renewed, RefreshMayActivate, RepositoryRow
<1>5. RunningNamesPending' /\ ReadyIsActive'
  BY <1>2 DEF RunningNamesPending, ReadyIsActive, SafeInv
<1> QED
  BY <1>1, <1>2, <1>4, <1>5, OthersDoNotBuild DEF SafeInv

LEMMA AcquireSafe ==
    ASSUME TypeInv, SafeInv, NEW w \in Workers, Acquire(w) PROVE SafeInv'
<1>1. /\ OthersStay(w) /\ UNCHANGED <<repo, status, gen, epoch>>
      /\ rowLock' = w /\ pc'[w] = "build" /\ cache'[w] = Renewed(repo)
      /\ repo.owner = User[w] /\ repo.epoch = epoch[w] /\ repo \in RepositoryRow
  BY DEF Acquire, Goto, OthersStay, TypeInv, TypeOK
<1>2. BuilderSees(w)' /\ ResetterSees(w)'
  BY <1>1 DEF BuilderSees, ResetterSees, Renewed, RepositoryRow
<1>3. ASSUME NEW v \in Workers, v # w PROVE BuilderSees(v)' /\ ResetterSees(v)'
  <2>1. pc[v] \notin Building
    BY FreeNobodyBuilds DEF Acquire
  <2> QED
    BY <1>1, <1>3, <2>1 DEF OthersStay, SafeInv, BuilderSees, ResetterSees
<1>4. RunningNamesPending' /\ ReadyIsActive'
  BY <1>1 DEF RunningNamesPending, ReadyIsActive, SafeInv
<1> QED
  BY <1>2, <1>3, <1>4 DEF SafeInv

\* An activation makes its generation the active one, whatever was active before.
LEMMA Activation ==
    ASSUME TypeInv, SafeInv, NEW w \in Workers, CommitActivation(w)
    PROVE  /\ gen[w] \in Gens /\ status[gen[w]] = "pending"
           /\ repo.state = "running" /\ repo.gen = gen[w]
           /\ repo'.state = "idle" /\ repo'.active = gen[w]
           /\ status' = Activated(gen[w], repo.active)
           /\ rowLock = w
<1>1. /\ rowLock = w /\ repo.state = "running" /\ repo.gen = gen[w] /\ gen[w] \in Gens
      /\ cache[w].state = "running" /\ cache[w].active = repo.active
      /\ cache[w] \in RepositoryRow /\ repo \in RepositoryRow
  BY RowsNamesBegun
     DEF CommitActivation, SafeInv, BuilderSees, TypeInv, Anchored, AnchoredAt
<1>2. status[gen[w]] = "pending"
  BY <1>1 DEF SafeInv, RunningNamesPending
<1>3. repo'.state = "idle" /\ repo'.active = gen[w]
  BY <1>1 DEF CommitActivation, FlushRow, Served, Idle, RepositoryRow
<1>4. status' = Activated(gen[w], repo.active)
  BY <1>1 DEF CommitActivation
<1> QED
  BY <1>1, <1>2, <1>3, <1>4

LEMMA CommitActivationSafe ==
    ASSUME TypeInv, SafeInv, NEW w \in Workers, CommitActivation(w) PROVE SafeInv'
<1>1. OthersStay(w) /\ pc'[w] = "defer"
  BY DEF CommitActivation, OthersStay, TypeInv, TypeOK
<1>2. \A v \in Workers \ {w} : BuilderSees(v)' /\ ResetterSees(v)'
  BY <1>1, Activation, OthersDoNotBuild
<1>3. BuilderSees(w)' /\ ResetterSees(w)'
  BY <1>1 DEF BuilderSees, ResetterSees
<1>4. RunningNamesPending'
  BY Activation DEF RunningNamesPending
<1>5. ReadyIsActive'
  BY Activation DEF Activated, ReadyIsActive, SafeInv, TypeInv, TypeOK
<1> QED
  BY <1>2, <1>3, <1>4, <1>5 DEF SafeInv

\* A request that ends or fails gives the lock back, if it has it.
LEMMA LeavingStep ==
    ASSUME TypeInv, SafeInv, NEW w \in Workers, Rollback(w) \/ Crash(w)
    PROVE  SafeInv'
<1>1. /\ OthersStay(w) /\ UNCHANGED <<repo, status>>
      /\ pc'[w] \notin Building \cup {"resetGens", "resetRow"}
  <2>1. CASE Rollback(w)
    BY <2>1 DEF Rollback, OthersStay, TypeInv, TypeOK
  <2>2. CASE Crash(w)
    BY <2>2, EndRequestType DEF Crash
  <2> QED
    BY <2>1, <2>2
<1>2. rowLock' = IF rowLock = w THEN None ELSE rowLock
  BY DEF Rollback, Crash
<1>3. CASE rowLock = w
  <2>1. BuilderSees(w)' /\ ResetterSees(w)'
    BY <1>1 DEF BuilderSees, ResetterSees
  <2>2. \A v \in Workers \ {w} : BuilderSees(v)' /\ ResetterSees(v)'
    BY <1>1, <1>3, OthersDoNotBuild
  <2>3. RunningNamesPending' /\ ReadyIsActive'
    BY <1>1 DEF RunningNamesPending, ReadyIsActive, SafeInv
  <2> QED
    BY <2>1, <2>2, <2>3 DEF SafeInv
<1>4. CASE rowLock # w
  BY <1>1, <1>2, <1>4, QuietStep DEF QuietFor
<1> QED
  BY <1>3, <1>4

LEMMA ResetListingStep ==
    ASSUME TypeInv, SafeInv, NEW w \in Workers, Join(w) \/ ResetGens(w)
    PROVE  SafeInv'
<1>1. /\ OthersStay(w) /\ UNCHANGED <<repo, status, rowLock>>
      /\ pc'[w] \notin Building
  BY DEF Join, ResetGens, OthersStay, locks, session, TypeInv, TypeOK
<1>2. ResetterSees(w)'
  <2>1. CASE Join(w)
    BY <2>1 DEF Join, ResetterSees, Expired, TypeInv, TypeOK
  <2>2. CASE ResetGens(w)
    BY <2>2 DEF ResetGens, ResetterSees, session, SafeInv, TypeInv, TypeOK
  <2> QED
    BY <2>1, <2>2
<1>3. BuilderSees(w)'
  BY <1>1 DEF BuilderSees
<1>4. ASSUME NEW v \in Workers, v # w PROVE BuilderSees(v)' /\ ResetterSees(v)'
  BY <1>1, <1>4 DEF OthersStay, SafeInv, BuilderSees, ResetterSees
<1>5. RunningNamesPending' /\ ReadyIsActive'
  BY <1>1 DEF RunningNamesPending, ReadyIsActive, SafeInv
<1> QED
  BY <1>2, <1>3, <1>4, <1>5 DEF SafeInv

LEMMA TickSafe ==
    ASSUME TypeInv, SafeInv, Tick PROVE SafeInv'
<1>1. /\ repo'.state = repo.state /\ repo'.gen = repo.gen /\ repo'.owner = repo.owner
      /\ repo'.epoch = repo.epoch /\ repo'.active = repo.active
  BY DEF Tick, AgedRow, TypeInv, TypeOK, RepositoryRow
<1>2. ASSUME NEW w \in Workers
      PROVE  /\ cache'[w].state = cache[w].state /\ cache'[w].gen = cache[w].gen
             /\ cache'[w].owner = cache[w].owner /\ cache'[w].epoch = cache[w].epoch
             /\ cache'[w].active = cache[w].active
  <2>1. cache[w] \in RepositoryRow
    BY DEF TypeInv, TypeOK
  <2>2. cache'[w] = IF cache[w] = NewRow THEN cache[w] ELSE AgedRow(cache[w])
    BY DEF Tick
  <2> QED
    BY <2>1, <2>2 DEF AgedRow, RepositoryRow
<1>3. ASSUME NEW w \in Workers PROVE BuilderSees(w)' /\ ResetterSees(w)'
  BY <1>1, <1>2 DEF Tick, locks, SafeInv, BuilderSees, ResetterSees
<1>4. RunningNamesPending' /\ ReadyIsActive'
  BY <1>1 DEF Tick, RunningNamesPending, ReadyIsActive, SafeInv
<1> QED
  BY <1>3, <1>4 DEF SafeInv

\* The steps that do not concern the refresh.
Quiet(w) ==
    \/ Answer(w) \/ PlanBuild(w) \/ Fetch(w) \/ FetchFails(w) \/ StartRefused(w)
    \/ AdoptRefused(w) \/ CompleteRefused(w) \/ Complete(w) \/ BeginWrite(w)
    \/ FinishWrite(w) \/ Promote(w) \/ Publish(w) \/ Validate(w) \/ Finish(w)
    \/ Fails(w) \/ AbortClaim(w) \/ ResetDeadlock(w) \/ FailDeadlock(w)

LEMMA QuietSteps ==
    ASSUME TypeInv, NEW w \in Workers, Quiet(w) PROVE QuietFor(w)
<1>1. CASE \/ Answer(w) \/ FetchFails(w) \/ StartRefused(w) \/ AdoptRefused(w)
           \/ CompleteRefused(w) \/ Finish(w) \/ ResetDeadlock(w) \/ FailDeadlock(w)
  <2>1. EndRequest(w) /\ UNCHANGED <<repo, status, rowLock>>
    BY <1>1 DEF Answer, FetchFails, StartRefused, AdoptRefused, CompleteRefused,
                Finish, ResetDeadlock, FailDeadlock, locks
  <2> QED
    BY <2>1, EndRequestType DEF QuietFor
<1>2. CASE PlanBuild(w) \/ Fetch(w) \/ Fails(w)
  BY <1>2 DEF PlanBuild, Fetch, Fails, QuietFor, OthersStay, locks, session,
              TypeInv, TypeOK
<1>3. CASE BeginWrite(w) \/ FinishWrite(w) \/ Promote(w) \/ Publish(w) \/ Validate(w)
           \/ AbortClaim(w)
  BY <1>3 DEF BeginWrite, FinishWrite, Promote, Publish, Validate, AbortClaim, Goto,
              QuietFor, OthersStay, locks, session, TypeInv, TypeOK
<1>4. CASE Complete(w)
  <2> DEFINE c == commitOf[cache[w].gen]
  <2>1. cache[w].gen \in Gens /\ status[cache[w].gen] = "pending"
    BY <1>4 DEF Complete, MayComplete, TypeInv, TypeOK, RepositoryRow
  <2>2. c \in Commits /\ rev[c] \in RevisionRow
    BY <2>1 DEF TypeInv, TypeOK, Anchored, CommitsKnown
  <2>3. pc'[w] \in {"write", "validate"} /\ \A v \in Workers \ {w} : pc'[v] = pc[v]
    BY <1>4, <2>2, TakeTreeType DEF Complete
  <2> QED
    BY <1>4, <2>3 DEF Complete, QuietFor, OthersStay, locks, TypeInv, TypeOK
<1> QED
  BY <1>1, <1>2, <1>3, <1>4 DEF Quiet

LEMMA SafeStep == TypeInv /\ SafeInv /\ [Next]_vars => SafeInv'
<1> SUFFICES ASSUME TypeInv, SafeInv, [Next]_vars PROVE SafeInv'
  OBVIOUS
<1>1. CASE UNCHANGED vars
  BY <1>1 DEF vars, disk, locks, session, SafeInv, BuilderSees, ResetterSees,
              RunningNamesPending, ReadyIsActive
<1>2. ASSUME NEW w \in Workers,
             Join(w) \/ Renew(w) \/ Request(w) \/ Trouble(w) \/ Crash(w)
      PROVE  SafeInv'
  <2>1. CASE Quiet(w)
    BY <2>1, QuietSteps, QuietStep
  <2>2. CASE ~Quiet(w)
    BY <1>2, <2>2, ResetListingStep, ResetRowSafe, StartSafe, AdoptSafe, AcquireSafe,
       BuilderStep, CommitActivationSafe, LeavingStep, FailIfOwnerSafe
       DEF Request, Trouble, Quiet
  <2> QED
    BY <2>1, <2>2
<1> QED
  BY <1>1, <1>2, TickSafe DEF Next, Step

LEMMA Inductive == Spec => [](TypeInv /\ SafeInv)
BY InitTypes, TypeStep, InitSafe, SafeStep, PTL DEF Spec

\* A running refresh always has a pending generation to finish, whatever other
\* requests have done to it: adopt_expired_refresh needs one.
THEOREM RunningRefreshCompletes == Spec => []RunningNamesPending
BY Inductive, PTL DEF SafeInv

\* Questions have one ready generation at most, the active one, although activation
\* retires what a row loaded earlier calls active.
THEOREM OneReadyGeneration == Spec => []ReadyIsActive
BY Inductive, PTL DEF SafeInv

\* A worker past activate_generation's check still has the refresh it checked: the
\* row lock makes the check on its loaded row as good as one on the committed row.
THEOREM ActivationIsOwned == Spec => []ActivatorOwnsRefresh
<1>1. SafeInv => ActivatorOwnsRefresh
  BY DEF SafeInv, BuilderSees, ActivatorOwnsRefresh
<1> QED
  BY <1>1, Inductive, PTL

-----------------------------------------------------------------------------
(* The cutover.  Only CommitActivation changes what questions read.        *)

LEMMA OthersKeepActive ==
    ASSUME TypeInv, SafeInv, [Next]_vars,
           \A w \in Workers : ~CommitActivation(w)
    PROVE  repo'.active = repo.active
<1>1. CASE UNCHANGED vars
  BY <1>1 DEF vars
<1>2. CASE Tick
  BY <1>2, RowNames DEF Tick, TypeInv, TypeOK
<1>3. ASSUME NEW w \in Workers,
             Join(w) \/ Renew(w) \/ Request(w) \/ Trouble(w) \/ Crash(w)
      PROVE  repo'.active = repo.active
  <2>1. /\ repo \in RepositoryRow /\ cache[w] \in RepositoryRow
    BY RowsNamesBegun
  <2>2. CASE Quiet(w)
    BY <2>2, QuietSteps DEF QuietFor
  <2>3. CASE ResetRow(w)
    BY <2>1, <2>3 DEF ResetRow, FlushRow, Reset, Idle, RepositoryRow
  <2>4. CASE Start(w)
    BY <2>1, <2>4 DEF Start, FlushRow, Started, RepositoryRow
  <2>5. CASE Adopt(w)
    BY <2>1, <2>5 DEF Adopt, FlushRow, Adopted, RepositoryRow
  <2>6. CASE FailIfOwner(w)
    BY <2>1, <2>6, RowNames DEF FailIfOwner
  <2>7. CASE \/ Join(w) \/ ResetGens(w) \/ Renew(w) \/ Acquire(w) \/ WriteDraft(w)
             \/ Activate(w) \/ Rollback(w) \/ Crash(w)
    BY <2>7 DEF Join, ResetGens, Renew, Acquire, WriteDraft, Activate, Rollback, Crash
  <2> QED
    BY <1>3, <2>2, <2>3, <2>4, <2>5, <2>6, <2>7 DEF Request, Trouble, Quiet
<1> QED
  BY <1>1, <1>2, <1>3 DEF Next, Step

\* What questions read only ever moves to the generation in refresh.
THEOREM OnlyRefreshActivates == Spec => ActivatesRefresh
<1>1. TypeInv /\ SafeInv /\ [Next]_vars =>
        [repo'.active # repo.active =>
           repo.state = "running" /\ repo'.active = repo.gen]_vars
  <2> SUFFICES ASSUME TypeInv, SafeInv, [Next]_vars, repo'.active # repo.active
               PROVE  repo.state = "running" /\ repo'.active = repo.gen
    OBVIOUS
  <2>1. PICK w \in Workers : CommitActivation(w)
    BY OthersKeepActive
  <2> QED
    BY <2>1, Activation
<1> QED
  BY <1>1, Inductive, PTL DEF Spec, ActivatesRefresh

\* The generations a step other than an activation gives up or begins.
LEMMA OthersGiveUp ==
    ASSUME TypeInv, SafeInv, [Next]_vars,
           \A w \in Workers : ~CommitActivation(w) /\ ~Start(w)
    PROVE  Pending' \subseteq Pending /\ Unbuilt' = Unbuilt
<1>1. CASE UNCHANGED vars
  BY <1>1 DEF vars, Pending, Unbuilt
<1>2. CASE Tick
  BY <1>2 DEF Tick, Pending, Unbuilt
<1>3. ASSUME NEW w \in Workers,
             Join(w) \/ Renew(w) \/ Request(w) \/ Trouble(w) \/ Crash(w)
      PROVE  Pending' \subseteq Pending /\ Unbuilt' = Unbuilt
  <2>1. CASE Quiet(w)
    BY <2>1, QuietSteps DEF QuietFor, Pending, Unbuilt
  <2>2. CASE ResetRow(w)
    BY <2>2 DEF ResetRow, Pending, Unbuilt, AnchoredAt, TypeInv, TypeOK, Anchored
  <2>3. CASE FailIfOwner(w)
    BY <2>3 DEF FailIfOwner, FailsGeneration, Pending, Unbuilt, AnchoredAt,
                TypeInv, TypeOK, Anchored
  <2>4. CASE \/ Join(w) \/ ResetGens(w) \/ Renew(w) \/ Acquire(w) \/ WriteDraft(w)
             \/ Activate(w) \/ Rollback(w) \/ Crash(w) \/ Adopt(w)
    BY <2>4 DEF Join, ResetGens, Renew, Acquire, WriteDraft, Activate, Rollback,
                Crash, Adopt, Pending, Unbuilt
  <2> QED
    BY <1>3, <2>1, <2>2, <2>3, <2>4 DEF Request, Trouble, Quiet
<1> QED
  BY <1>1, <1>2, <1>3 DEF Next, Step

LEMMA CutoverStep ==
    TypeInv /\ SafeInv /\ [Next]_vars => [Promise!CutoverNext]_(Promise!abstractVars)
<1> SUFFICES ASSUME TypeInv, SafeInv, [Next]_vars
             PROVE  [Promise!CutoverNext]_(Promise!abstractVars)
  OBVIOUS
<1> USE DEF Promise!CutoverNext, Promise!abstractVars
<1>1. ASSUME NEW w \in Workers, CommitActivation(w)
      PROVE  Promise!CutOver(gen[w]) /\ gen[w] \in Gens
  <2> DEFINE g == gen[w]
             previous == repo.active
  <2>1. /\ g \in Gens /\ status[g] = "pending"
        /\ status' = [h \in Gens |-> IF h = g THEN "ready"
                                     ELSE IF h = previous THEN "retired" ELSE status[h]]
    BY <1>1, Activation DEF Activated
  <2>2. \A h \in Gens : h = previous => status[h] \in {"ready", "failed"}
    BY IndexingAssumption DEF SafeInv, ReadyIsActive
  <2>3. ASSUME NEW h \in Gens
        PROVE  /\ status'[h] = "none" <=> status[h] = "none"
               /\ status'[h] = "pending" <=> status[h] = "pending" /\ h # g
    BY <2>1, <2>2
  <2>4. Unbuilt' = Unbuilt /\ Pending' = Pending \ {g}
    BY <2>3 DEF Unbuilt, Pending
  <2> QED
    BY <1>1, <2>1, <2>4, Activation DEF Promise!CutOver, Pending
<1>2. ASSUME NEW w \in Workers, Start(w)
      PROVE  \E g \in Gens : Promise!Begin(g)
  <2>1. PICK g \in Unbuilt : status' = [status EXCEPT ![g] = "pending"]
    BY <1>2 DEF Start
  <2>2. g \in Gens /\ Unbuilt' = Unbuilt \ {g} /\ Pending' = Pending \cup {g}
    BY <2>1 DEF Unbuilt, Pending, TypeInv, TypeOK
  <2>3. repo'.active = repo.active
    BY <1>2, RowsNamesBegun DEF Start, FlushRow, Started, RepositoryRow
  <2> QED
    BY <2>1, <2>2, <2>3 DEF Promise!Begin
<1>3. CASE \A w \in Workers : ~CommitActivation(w) /\ ~Start(w)
  <2>1. Pending' \subseteq Pending /\ Unbuilt' = Unbuilt /\ repo'.active = repo.active
    BY <1>3, OthersGiveUp, OthersKeepActive
  <2>2. Promise!GiveUp(Pending \ Pending')
    BY <2>1 DEF Promise!GiveUp
  <2> QED
    BY <2>1, <2>2
<1> QED
  BY <1>1, <1>2, <1>3

\* What questions see of indexing is Cutover: one step from a generation to one
\* that was pending until then; whatever else requests do to one another's
\* refreshes gives pending generations up.
THEOREM IndexingImplementsCutover == Spec => ImplementsCutover
<1>1. Init => Promise!CutoverInit
  BY DEF Init, NewRow, Promise!CutoverInit, Pending, Unbuilt
<1> QED
  BY <1>1, CutoverStep, Inductive, PTL DEF Spec, ImplementsCutover, Promise!CutoverSpec

-----------------------------------------------------------------------------
(* Work trees, while a creation stays within its lease (TimelySpec) and no *)
(* user has two requests at once.  Whoever creates a tree then holds the   *)
(* revision's claim until it has published or aborted: recovery refuses    *)
(* the others.  So what a session holds of a revision, however long since, *)
(* is either that claim or a published tree, which nothing takes back.     *)

\* The claim check compares users, not requests.
DistinctUsers == \A v, w \in Workers : User[v] = User[w] => v = w

\* The database shows the claim of w, in its lease; the session of w has seen it.
ClaimShown(w) ==
    LET r == rev[Target(w)] IN
    r.state = "creating" /\ r.owner = User[w] /\ r.dir = w /\ r.lease > 0
ClaimSeen(w) ==
    /\ claim[w].state = "creating" /\ claim[w].owner = User[w]
    /\ claim[w].dir = w /\ ~claim[w].path

\* The commit of generation g is published.
TreeOf(g) == g # None => SourceValid(commitOf[g])

TreesAt(w) ==
    /\ w \in Creators => ClaimShown(w)
    /\ pc[w] \in {"writing", "promote", "publish"} => ClaimSeen(w)
    /\ pc[w] = "promote" => creating[Target(w)][w] = "whole"
    /\ pc[w] = "publish" => publish[Target(w)] = "whole"
    /\ pc[w] \in {"validate", "acquire", "defer"} \cup Building => SourceValid(Target(w))
    /\ pc[w] = "rollback" => ClaimShown(w) \/ SourceValid(Target(w))
    /\ pc[w] = "abort" => ClaimShown(w) /\ ClaimSeen(w)
    /\ pc[w] \in {"fetchStart", "start"} /\ claim[w] # None =>
         Reusable(claim[w]) /\ SourceValid(want[w])
    /\ TreeOf(cache[w].active)

PathsValid == \A c \in Commits : rev[c].path => SourceValid(c)

TreesInv == PathsValid /\ TreeOf(repo.active) /\ \A w \in Workers : TreesAt(w)

\* Generations keep their commits.
CommitsStay == \A g \in Gens : status[g] # "none" => commitOf'[g] = commitOf[g]

ValidNext(c) == rev'[c].state = "ready" /\ rev'[c].path /\ publish'[c] = "whole"

\* What a step of w leaves alone: a published tree, and what another user creates.
Spares(w, c) ==
    /\ SourceValid(c) => ValidNext(c)
    /\ rev[c].state = "creating" /\ rev[c].owner # User[w] /\ rev[c].lease > 0 =>
         rev'[c] = rev[c] /\ creating'[c] = creating[c] /\ publish'[c] = publish[c]

SparesTrees(w) == \A c \in Commits : Spares(w, c)

LEMMA TargetKnown ==
    ASSUME TypeInv, CommitsStay, NEW w \in Workers, pc[w] \in Finishing
    PROVE  /\ gen[w] \in Gens /\ Target(w) \in Commits
           /\ commitOf'[gen[w]] = Target(w)
BY DEF TypeInv, Anchored, AnchoredAt, CommitsKnown, CommitsStay, Target

\* A published commit stays so for whoever names its generation.
LEMMA TreeStays ==
    ASSUME TypeInv, CommitsStay, NEW w \in Workers, SparesTrees(w),
           NEW row \in RepositoryRow, NamesBegun(row), TreeOf(row.active)
    PROVE  row.active # None => ValidNext(commitOf'[row.active])
<1> SUFFICES ASSUME row.active # None PROVE ValidNext(commitOf'[row.active])
  OBVIOUS
<1>1. row.active \in Gens /\ status[row.active] # "none"
  BY DEF RepositoryRow, NamesBegun
<1>2. commitOf'[row.active] = commitOf[row.active] /\ commitOf[row.active] \in Commits
  BY <1>1 DEF CommitsStay, TypeInv, Anchored, CommitsKnown
<1> QED
  BY <1>2 DEF TreeOf, SparesTrees, Spares

LEMMA OthersKeepTrees ==
    ASSUME DistinctUsers, TypeInv, TreesInv, CommitsStay,
           NEW w \in Workers, OthersStay(w), SparesTrees(w),
           NEW v \in Workers, v # w
    PROVE  TreesAt(v)'
<1>1. UNCHANGED <<pc[v], want[v], cache[v], claim[v], gen[v]>> /\ TreesAt(v)
  BY DEF OthersStay, TreesInv
<1>2. User[v] # User[w]
  BY DEF DistinctUsers
<1>3. ASSUME pc[v] \in Finishing, ClaimShown(v)
      PROVE  /\ ClaimShown(v)'
             /\ creating'[Target(v)] = creating[Target(v)]
             /\ publish'[Target(v)] = publish[Target(v)]
             /\ Target(v)' = Target(v)
  BY <1>1, <1>2, <1>3, TargetKnown DEF ClaimShown, SparesTrees, Spares, Target
<1>4. ASSUME pc[v] \in Finishing, SourceValid(Target(v)) PROVE SourceValid(Target(v))'
  <2>1. Target(v)' = Target(v) /\ Target(v) \in Commits
    BY <1>1, <1>4, TargetKnown DEF Target
  <2> QED
    BY <1>4, <2>1 DEF SparesTrees, Spares, ValidNext, SourceValid
<1>5. pc[v] \in {"fetchStart", "start"} /\ claim[v] # None =>
        Reusable(claim[v])' /\ SourceValid(want[v])'
  <2>1. pc[v] \in {"fetchStart", "start"} => want[v] \in Commits
    BY DEF TypeInv, Anchored, AnchoredAt
  <2> QED
    BY <1>1, <2>1 DEF TreesAt, SparesTrees, Spares, ValidNext, SourceValid, Reusable
<1>6. TreeOf(cache[v].active)'
  BY <1>1, RowsNamesBegun, TreeStays DEF TreeOf, ValidNext, SourceValid, TreesAt
<1> QED
  BY <1>1, <1>3, <1>4, <1>5, <1>6 DEF TreesAt, Creators, ClaimSeen

\* A step of w is proved by what it does to its own session and the rows.
LEMMA StepTrees ==
    ASSUME DistinctUsers, TypeInv, TreesInv, CommitsStay,
           NEW w \in Workers, OthersStay(w), SparesTrees(w),
           PathsValid', TreeOf(repo.active)', TreesAt(w)'
    PROVE  TreesInv'
BY OthersKeepTrees DEF TreesInv

\* The steps that touch no tree.
StillTrees(w) ==
    /\ UNCHANGED <<rev, creating, publish, commitOf>>
    /\ repo'.active \in {repo.active, cache[w].active}
         \cup {g \in Gens : pc[w] \in Finishing /\ g = gen[w] /\ SourceValid(Target(w))}

LEMMA StillStep ==
    ASSUME DistinctUsers, TypeInv, TreesInv, NEW w \in Workers, OthersStay(w),
           StillTrees(w), TreesAt(w)'
    PROVE  TreesInv'
<1>1. CommitsStay /\ SparesTrees(w)
  BY DEF StillTrees, CommitsStay, SparesTrees, Spares, ValidNext, SourceValid
<1>2. PathsValid'
  BY DEF StillTrees, PathsValid, TreesInv, SourceValid
<1>3. TreeOf(repo.active)'
  BY DEF StillTrees, TreesInv, TreesAt, TreeOf, SourceValid, Target
<1> QED
  BY <1>1, <1>2, <1>3, StepTrees

\* A request that ends holds nothing.

\* A request that ends holds nothing.
LEMMA EndingTrees ==
    ASSUME DistinctUsers, TypeInv, TreesInv, NEW w \in Workers, EndRequest(w),
           UNCHANGED <<rev, creating, publish, commitOf>>,
           repo'.active \in {repo.active, cache[w].active}
    PROVE  TreesInv'
<1>1. OthersStay(w) /\ pc'[w] = "idle" /\ cache'[w] = NewRow
  BY EndRequestType
<1>2. TreesAt(w)'
  BY <1>1 DEF TreesAt, TreeOf, NewRow, Creators
<1> QED
  BY <1>1, <1>2, StillStep DEF StillTrees

\* Rows keep the active generation but for an activation.
LEMMA KeepsActive ==
    ASSUME TypeInv, NEW w \in Workers
    PROVE  /\ FlushRow(repo, cache[w], Reset(cache[w])).active
                \in {repo.active, cache[w].active}
           /\ Idle(repo).active = repo.active
           /\ Renewed(cache[w]).active = cache[w].active
           /\ Renewed(repo).active = repo.active
<1>1. repo \in RepositoryRow /\ cache[w] \in RepositoryRow
  BY RowsNamesBegun
<1>2. Reset(cache[w]) \in RepositoryRow /\ Reset(cache[w]).active = cache[w].active
  BY <1>1, RowTypes, RowNames
<1>3. FlushRow(repo, cache[w], Reset(cache[w])).active
        \in {repo.active, Reset(cache[w]).active}
  BY <1>1, <1>2, FlushRowNames
<1> QED
  BY <1>1, <1>2, <1>3, RowNames

LEMMA EndingSteps ==
    ASSUME DistinctUsers, TypeInv, TreesInv, NEW w \in Workers,
           \/ Answer(w) \/ FetchFails(w) \/ StartRefused(w) \/ AdoptRefused(w)
           \/ CompleteRefused(w) \/ Finish(w) \/ FailDeadlock(w) \/ ResetDeadlock(w)
           \/ Crash(w) \/ FailIfOwner(w)
    PROVE  TreesInv'
<1>1. EndRequest(w) /\ UNCHANGED <<rev, creating, publish, commitOf>>
  BY DEF Answer, FetchFails, StartRefused, AdoptRefused, CompleteRefused, Finish,
         FailDeadlock, ResetDeadlock, Crash, FailIfOwner, disk
<1>2. repo'.active = repo.active
  BY KeepsActive DEF Answer, FetchFails, StartRefused, AdoptRefused, CompleteRefused,
         Finish, FailDeadlock, ResetDeadlock, Crash, FailIfOwner
<1> QED
  BY <1>1, <1>2, EndingTrees

\* The steps of a request that only move on, in the order of the code.
LEMMA ListingTrees ==
    ASSUME DistinctUsers, TypeInv, TreesInv, NEW w \in Workers,
           Join(w) \/ ResetGens(w) \/ ResetRow(w)
    PROVE  TreesInv'
<1>1. CASE Join(w)
  <2>1. ASSUME NEW c \in Commits PROVE Repaired(c) = rev[c]
    BY DEF Repaired, TreesInv, PathsValid, SourceValid
  <2>2. rev' = rev
    BY <1>1, <2>1 DEF Join, TypeInv, TypeOK
  <2>3. OthersStay(w) /\ StillTrees(w)
    BY <1>1, <2>2 DEF Join, OthersStay, StillTrees, disk, TypeInv, TypeOK
  <2>4. TreesAt(w)'
    BY <1>1, <2>2 DEF Join, TreesAt, TreeOf, TreesInv, Creators, SourceValid, disk, TypeInv, TypeOK
  <2> QED
    BY <2>3, <2>4, StillStep
<1>2. CASE ResetGens(w)
  <2>1. OthersStay(w) /\ StillTrees(w)
    BY <1>2 DEF ResetGens, OthersStay, StillTrees, disk, session, TypeInv, TypeOK
  <2>2. TreesAt(w)'
    BY <1>2 DEF ResetGens, TreesAt, TreeOf, TreesInv, Creators, SourceValid, disk, session, TypeInv, TypeOK
  <2> QED
    BY <2>1, <2>2, StillStep
<1>3. CASE ResetRow(w)
  <2>1. OthersStay(w) /\ StillTrees(w)
    BY <1>3, KeepsActive DEF ResetRow, OthersStay, StillTrees, disk, TypeInv, TypeOK
  <2>2. cache'[w] = repo' /\ pc'[w] = "plan"
    BY <1>3 DEF ResetRow, TypeInv, TypeOK
  <2>3. TreeOf(cache[w].active)'
    BY <2>1, <2>2 DEF StillTrees, TreeOf, TreesInv, TreesAt, SourceValid, Target
  <2>4. TreesAt(w)'
    BY <2>2, <2>3 DEF TreesAt, Creators
  <2> QED
    BY <2>1, <2>4, StillStep
<1> QED
  BY <1>1, <1>2, <1>3

LEMMA PlanningTrees ==
    ASSUME DistinctUsers, TypeInv, TreesInv, NEW w \in Workers,
           PlanBuild(w) \/ Fetch(w) \/ Adopt(w)
    PROVE  TreesInv'
<1>1. TreesAt(w) /\ TreeOf(cache[w].active)
  BY DEF TreesInv, TreesAt
<1>2. CASE PlanBuild(w)
  <2>1. OthersStay(w) /\ StillTrees(w)
    BY <1>2 DEF PlanBuild, OthersStay, StillTrees, disk, TypeInv, TypeOK
  <2>2. pc'[w] \in {"fetchStart", "fetchAdopt"} /\ want'[w] = want[w]
        /\ cache'[w] = cache[w]
    BY <1>2 DEF PlanBuild, TypeInv, TypeOK
  <2>3. claim'[w] # None => claim'[w] = rev[want[w]] /\ SourceValid(want[w])
    BY <1>1, <1>2 DEF PlanBuild, TreeOf, TypeInv, TypeOK
  <2>4. TreesAt(w)'
    BY <1>1, <2>1, <2>2, <2>3 DEF TreesAt, TreeOf, StillTrees, SourceValid, Reusable, Creators
  <2> QED
    BY <2>1, <2>4, StillStep
<1>3. CASE Fetch(w)
  <2>1. OthersStay(w) /\ StillTrees(w)
    BY <1>3 DEF Fetch, OthersStay, StillTrees, disk, session, TypeInv, TypeOK
  <2>2. pc'[w] = "adopt" \/ (pc[w] = "fetchStart" /\ pc'[w] = "start")
    BY <1>3 DEF Fetch, TypeInv, TypeOK
  <2>3. TreesAt(w)'
    BY <1>1, <1>3, <2>1, <2>2
       DEF Fetch, TreesAt, TreeOf, StillTrees, SourceValid, Reusable, Creators, session
  <2> QED
    BY <2>1, <2>3, StillStep
<1>4. CASE Adopt(w)
  <2>1. repo'.active \in {repo.active, cache[w].active}
    <3>1. /\ cache[w] \in RepositoryRow /\ repo \in RepositoryRow
          /\ cache[w].gen # None /\ cache[w].epoch < MaxEpoch
      BY <1>4, RowsNamesBegun DEF Adopt
    <3>2. /\ Adopted(cache[w], w) \in RepositoryRow
          /\ Adopted(cache[w], w).active = cache[w].active
      <4>1. cache[w].gen \in Gens
        BY <3>1 DEF RepositoryRow
      <4> QED
        BY <3>1, <4>1, BuildRows
    <3> QED
      BY <1>4, <3>1, <3>2, FlushRowNames DEF Adopt
  <2>2. OthersStay(w) /\ StillTrees(w)
    BY <1>4, <2>1 DEF Adopt, OthersStay, StillTrees, disk, TypeInv, TypeOK
  <2>3. cache'[w] = repo' /\ pc'[w] = "complete"
    BY <1>4 DEF Adopt, TypeInv, TypeOK
  <2>4. TreeOf(cache[w].active)'
    BY <1>1, <2>1, <2>2, <2>3 DEF StillTrees, TreeOf, TreesInv, SourceValid
  <2>5. TreesAt(w)'
    BY <2>3, <2>4 DEF TreesAt, Creators
  <2> QED
    BY <2>2, <2>5, StillStep
<1> QED
  BY <1>2, <1>3, <1>4

\* From the validated tree to the activation, and a failure anywhere.
LEMMA BuildingTrees ==
    ASSUME DistinctUsers, TypeInv, TreesInv, NEW w \in Workers,
           \/ Validate(w) \/ Acquire(w) \/ Renew(w) \/ WriteDraft(w) \/ Activate(w)
           \/ Fails(w)
    PROVE  TreesInv'
<1>1. TreesAt(w) /\ TreeOf(cache[w].active) /\ TreeOf(repo.active)
  BY DEF TreesInv, TreesAt
<1>2. /\ OthersStay(w) /\ StillTrees(w) /\ gen'[w] = gen[w] /\ claim'[w] = claim[w]
      /\ cache'[w].active \in {cache[w].active, repo.active}
  BY KeepsActive DEF Validate, Acquire, Renew, WriteDraft, Activate, Fails, Goto,
     OthersStay, StillTrees, disk, session, TypeInv, TypeOK
<1>3. TreeOf(cache[w].active)'
  BY <1>1, <1>2 DEF StillTrees, TreeOf, SourceValid
<1>4. Target(w)' = Target(w) /\ (SourceValid(Target(w)) => SourceValid(Target(w))')
  BY <1>2 DEF StillTrees, Target, SourceValid
<1>5. CASE Fails(w)
  <2>1. pc'[w] = "rollback"
    BY <1>5 DEF Fails, TypeInv, TypeOK
  <2>2. ClaimShown(w) \/ SourceValid(Target(w))
    BY <1>1, <1>5 DEF Fails, TreesAt, Creators
  <2>3. ClaimShown(w) => ClaimShown(w)'
    BY <1>2, <1>4 DEF StillTrees, ClaimShown
  <2> QED
    BY <1>2, <1>3, <1>4, <2>1, <2>2, <2>3, StillStep DEF TreesAt, Creators
<1>6. CASE Validate(w) \/ Acquire(w) \/ Renew(w) \/ WriteDraft(w) \/ Activate(w)
  <2>1. pc'[w] \in {"acquire"} \cup Building /\ SourceValid(Target(w))
    BY <1>1, <1>6 DEF Validate, Acquire, Renew, WriteDraft, Activate, Goto, TreesAt,
       TypeInv, TypeOK
  <2> QED
    BY <1>2, <1>3, <1>4, <2>1, StillStep DEF TreesAt, Creators
<1> QED
  BY <1>5, <1>6

LEMMA CommitActivationTrees ==
    ASSUME DistinctUsers, TypeInv, TreesInv, NEW w \in Workers, CommitActivation(w)
    PROVE  TreesInv'
<1>1. pc[w] = "activated" /\ SourceValid(Target(w)) /\ TreeOf(cache[w].active)
  BY DEF CommitActivation, TreesInv, TreesAt
<1>2. gen[w] \in Gens
  BY <1>1 DEF TypeInv, Anchored, AnchoredAt
<1>3. repo'.active \in {repo.active, gen[w]}
  <2>1. cache[w] \in RepositoryRow /\ repo \in RepositoryRow
    BY RowsNamesBegun
  <2>2. Served(cache[w], gen[w]) \in RepositoryRow /\ Served(cache[w], gen[w]).active = gen[w]
    BY <1>2, <2>1, BuildRows
  <2> QED
    BY <2>1, <2>2, FlushRowNames DEF CommitActivation
<1>4. OthersStay(w) /\ StillTrees(w)
  BY <1>1, <1>2, <1>3 DEF CommitActivation, OthersStay, StillTrees, disk, TypeInv, TypeOK
<1>5. pc'[w] = "defer" /\ cache'[w] = NewRow /\ gen' = gen
  BY DEF CommitActivation, TypeInv, TypeOK
<1>6. TreesAt(w)'
  BY <1>1, <1>4, <1>5 DEF TreesAt, TreeOf, NewRow, Creators, StillTrees, Target, SourceValid
<1> QED
  BY <1>4, <1>6, StillStep


\* A flush of a row the session has just read writes the row it leaves.
LEMMA FreshFlush ==
    ASSUME NEW r \in RevisionRow, NEW new \in RevisionRow
    PROVE  FlushRevision(r, r, new) = new
BY DEF FlushRevision, RevisionRow

\* claim_snapshot, on the revision in the database or on a published one that the
\* session has held since _apply.
LEMMA TakeTreeTrees ==
    ASSUME TypeInv, TreesInv, NEW w \in Workers,
           NEW c \in Commits, NEW r \in RevisionRow,
           r = rev[c] \/ (Reusable(r) /\ SourceValid(c)),
           ~TreeRefused(w, r), TakeTree(w, c, r)
    PROVE  /\ SparesTrees(w)
           /\ PathsValid'
           /\ pc'[w] = "validate" => ValidNext(c)
           /\ pc'[w] = "write" =>
                /\ rev'[c].state = "creating" /\ rev'[c].owner = User[w]
                /\ rev'[c].dir = w /\ rev'[c].lease > 0
<1> DEFINE found == Recovered(c, r)
           taken == IF Reusable(found) THEN found ELSE Claimed(found, w)
<1>1. /\ rev[c] \in RevisionRow /\ found \in RevisionRow /\ taken \in RevisionRow
  BY RevisionTypes DEF TypeInv, TypeOK
<1>2. /\ rev'[c] = FlushRevision(rev[c], r, taken)
      /\ \A d \in Commits \ {c} : rev'[d] = rev[d]
      /\ \A d \in Commits \ {c} : creating'[d] = creating[d]
      /\ \A d \in Commits \ {c} : publish'[d] = publish[d]
      /\ publish'[c] = IF Discards(c, r) /\ ~r.path THEN "missing" ELSE publish[c]
      /\ pc'[w] = IF Reusable(found) THEN "validate" ELSE "write"
  BY DEF TakeTree, TypeInv, TypeOK
<1>3. ASSUME NEW d \in Commits, d # c
      PROVE  Spares(w, d) /\ (rev'[d].path => SourceValid(d)')
  BY <1>2, <1>3 DEF Spares, ValidNext, SourceValid, TreesInv, PathsValid
<1>4. CASE SourceValid(c)
  <2>1. r.state = "ready" /\ r.path
    BY <1>4 DEF SourceValid, Reusable
  <2>2. found = r /\ taken = r /\ ~Discards(c, r) /\ Reusable(found)
    BY <2>1 DEF Recovered, Discards, Reusable
  <2>3. rev'[c].state = rev[c].state /\ rev'[c].path = rev[c].path
    BY <1>2, <2>2 DEF FlushRevision
  <2>4. publish'[c] = publish[c] /\ pc'[w] = "validate"
    BY <1>2, <2>2
  <2>5. Spares(w, c) /\ ValidNext(c)
    BY <1>4, <2>3, <2>4 DEF Spares, ValidNext, SourceValid
  <2> QED
    BY <1>3, <2>4, <2>5 DEF SparesTrees, PathsValid, ValidNext, SourceValid
<1>5. CASE ~SourceValid(c)
  <2>1. r = rev[c] /\ ~r.path
    BY <1>5 DEF TreesInv, PathsValid
  <2>2. rev'[c] = taken
    BY <1>1, <1>2, <2>1, FreshFlush
  <2>3. Spares(w, c)
    BY <1>5, <2>1 DEF Spares, TreeRefused, ClaimHeldByOther
  <2>4. CASE Reusable(found)
    <3>1. r.state = "creating" /\ ~Discards(c, r)
      BY <2>1, <2>4 DEF Recovered, Reusable, Unclaimed, RevisionRow
    <3>2. publish[c] = "whole"
      BY <3>1 DEF Discards, CreationRecoveryAction
    <3>3. ValidNext(c) /\ pc'[w] = "validate"
      BY <1>2, <2>2, <2>4, <3>1, <3>2 DEF ValidNext, Reusable
    <3> QED
      BY <1>3, <2>3, <3>3 DEF SparesTrees, PathsValid, ValidNext, SourceValid
  <2>5. CASE ~Reusable(found)
    <3>1. taken = Claimed(found, w)
      BY <2>5
    <3>2. ~found.path
      BY <2>1, <2>5 DEF Recovered, Reusable, Unclaimed, RevisionRow
    <3> HIDE DEF found, taken
    <3>3. /\ taken.state = "creating" /\ taken.owner = User[w]
          /\ taken.dir = w /\ taken.lease > 0 /\ ~taken.path
      BY <1>1, <3>1, <3>2, DurationAssumption DEF Claimed, RevisionRow
    <3> QED
      BY <1>2, <1>3, <2>2, <2>3, <2>5, <3>3 DEF SparesTrees, PathsValid
  <2> QED
    BY <2>4, <2>5
<1> QED
  BY <1>4, <1>5

LEMMA StartTrees ==
    ASSUME DistinctUsers, TypeInv, TreesInv, NEW w \in Workers, Start(w)
    PROVE  TreesInv'
<1> DEFINE c == want[w]
           r == SeenRevision(w)
<1>1. c \in Commits /\ pc[w] = "start" /\ TreesAt(w)
  BY DEF Start, TreesInv, TypeInv, Anchored, AnchoredAt
<1>2. r \in RevisionRow /\ (r = rev[c] \/ (Reusable(r) /\ SourceValid(c)))
  BY <1>1 DEF SeenRevision, TreesAt, TypeInv, TypeOK
<1>3. PICK g \in Unbuilt :
        /\ repo' = FlushRow(repo, cache[w], Started(cache[w], g, w))
        /\ commitOf' = [commitOf EXCEPT ![g] = want[w]]
        /\ gen' = [gen EXCEPT ![w] = g]
  BY DEF Start
<1>4. /\ cache' = [cache EXCEPT ![w] = NewRow]
      /\ claim' = [claim EXCEPT ![w] = None]
      /\ want' = [want EXCEPT ![w] = None]
      /\ epoch' = [epoch EXCEPT ![w] = cache[w].epoch + 1]
      /\ victims' = victims
      /\ cache[w].epoch < MaxEpoch
      /\ TakeTree(w, c, r) /\ ~TreeRefused(w, r)
  BY DEF Start
<1> HIDE DEF r
<1>5. /\ pc'[w] \in {"write", "validate"}
      /\ \A v \in Workers \ {w} : pc'[v] = pc[v]
  BY <1>1, <1>2, <1>4, TakeTreeType
<1>6. OthersStay(w)
  BY <1>3, <1>4, <1>5 DEF OthersStay, TypeInv, TypeOK
<1>7. g \in Gens /\ status[g] = "none" /\ CommitsStay
  BY <1>3 DEF Unbuilt, CommitsStay, TypeInv, TypeOK
<1>8. /\ SparesTrees(w) /\ PathsValid'
      /\ pc'[w] = "validate" => ValidNext(c)
      /\ pc'[w] = "write" =>
           /\ rev'[c].state = "creating" /\ rev'[c].owner = User[w]
           /\ rev'[c].dir = w /\ rev'[c].lease > 0
  BY <1>1, <1>2, <1>4, TakeTreeTrees
<1>9. Target(w)' = c 
  BY <1>1, <1>3, <1>4, <1>7 DEF Target, TypeInv, TypeOK
<1>10. repo'.active \in {repo.active, cache[w].active}
  <2>1. cache[w] \in RepositoryRow /\ repo \in RepositoryRow
    BY RowsNamesBegun
  <2>2. /\ Started(cache[w], g, w) \in RepositoryRow
        /\ Started(cache[w], g, w).active = cache[w].active
    BY <1>4, <1>7, <2>1, BuildRows
  <2> QED
    BY <1>3, <2>1, <2>2, FlushRowNames
<1>11. TreeOf(repo.active)'
  BY <1>1, <1>7, <1>8, <1>10, RowsNamesBegun, TreeStays
     DEF TreeOf, TreesAt, TreesInv, SourceValid, ValidNext
<1>12. TreesAt(w)'
  <2>1. cache'[w] = NewRow
    BY <1>4 DEF TypeInv, TypeOK
  <2>2. pc'[w] = "validate" => SourceValid(Target(w))'
    BY <1>8, <1>9 DEF SourceValid, ValidNext
  <2>3. pc'[w] = "write" => ClaimShown(w)'
    BY <1>8, <1>9 DEF ClaimShown
  <2> QED
    BY <1>5, <2>1, <2>2, <2>3 DEF TreesAt, TreeOf, NewRow, Creators
<1> QED
  BY <1>6, <1>7, <1>8, <1>11, <1>12, StepTrees

LEMMA CompleteTrees ==
    ASSUME DistinctUsers, TypeInv, TreesInv, NEW w \in Workers, Complete(w)
    PROVE  TreesInv'
<1> DEFINE g == cache[w].gen
           c == commitOf[g]
<1>1. g \in Gens /\ c \in Commits /\ rev[c] \in RevisionRow
  <2>1. g \in Gens /\ status[g] = "pending"
    BY DEF Complete, MayComplete, TypeInv, TypeOK, RepositoryRow
  <2> QED
    BY <2>1 DEF TypeInv, TypeOK, Anchored, CommitsKnown
<1>2. TakeTree(w, c, rev[c]) /\ ~TreeRefused(w, rev[c])
  BY DEF Complete
<1>3. /\ pc'[w] \in {"write", "validate"}
      /\ \A v \in Workers \ {w} : pc'[v] = pc[v]
  BY <1>1, <1>2, TakeTreeType
<1>4. OthersStay(w) /\ CommitsStay /\ cache'[w] = NewRow /\ repo'.active = repo.active
  BY <1>3 DEF Complete, OthersStay, CommitsStay, TypeInv, TypeOK
<1>5. Target(w)' = c
  BY DEF Complete, Target, TypeInv, TypeOK
<1>6. /\ SparesTrees(w) /\ PathsValid'
      /\ pc'[w] = "validate" => ValidNext(c)
      /\ pc'[w] = "write" =>
           /\ rev'[c].state = "creating" /\ rev'[c].owner = User[w]
           /\ rev'[c].dir = w /\ rev'[c].lease > 0
  <2> HIDE DEF c
  <2> QED
    BY <1>1, <1>2, TakeTreeTrees
<1>7. TreeOf(repo.active)'
  BY <1>4, <1>6, RowsNamesBegun, TreeStays DEF TreeOf, TreesInv, SourceValid, ValidNext
<1>8. TreesAt(w)'
  <2>1. pc'[w] = "validate" => SourceValid(Target(w))'
    BY <1>5, <1>6 DEF SourceValid, ValidNext
  <2>2. pc'[w] = "write" => ClaimShown(w)'
    BY <1>5, <1>6 DEF ClaimShown
  <2> QED
    BY <1>3, <1>4, <2>1, <2>2 DEF TreesAt, TreeOf, NewRow, Creators
<1> QED
  BY <1>4, <1>6, <1>7, <1>8, StepTrees


\* The steps of the creator of a tree, on the rows and the trees of its commit only.
OnTarget(w) ==
    LET c == Target(w) IN
    /\ UNCHANGED <<repo, status, commitOf, gen>> /\ OthersStay(w)
    /\ \A d \in Commits \ {c} :
         rev'[d] = rev[d] /\ creating'[d] = creating[d] /\ publish'[d] = publish[d]

LEMMA OnTargetStep ==
    ASSUME DistinctUsers, TypeInv, TreesInv, NEW w \in Workers, OnTarget(w),
           pc[w] \in Finishing, Spares(w, Target(w)),
           rev'[Target(w)].path => ValidNext(Target(w)),
           TreesAt(w)'
    PROVE  TreesInv'
<1>1. CommitsStay /\ Target(w) \in Commits /\ OthersStay(w)
  BY TargetKnown DEF OnTarget, CommitsStay
<1>2. ASSUME NEW d \in Commits, d # Target(w)
      PROVE  Spares(w, d) /\ (rev'[d].path => ValidNext(d))
  BY <1>2 DEF OnTarget, Spares, ValidNext, SourceValid, TreesInv, PathsValid
<1>3. SparesTrees(w) /\ PathsValid'
  BY <1>1, <1>2 DEF SparesTrees, PathsValid, ValidNext, SourceValid
<1>4. TreeOf(repo.active)'
  BY <1>1, <1>3, RowsNamesBegun, TreeStays
     DEF OnTarget, TreeOf, TreesInv, SourceValid, ValidNext
<1> QED
  BY <1>1, <1>3, <1>4, StepTrees

\* A creator's row is not published, and a step of its own spares the others.
LEMMA CreatorAlone ==
    ASSUME TypeInv, TreesInv, NEW w \in Workers, pc[w] \in Finishing, ClaimShown(w)
    PROVE  /\ Spares(w, Target(w)) /\ Target(w) \in Commits
           /\ rev[Target(w)] \in RevisionRow /\ ~rev[Target(w)].path
<1>1. Target(w) \in Commits
  BY DEF TypeInv, Anchored, AnchoredAt, CommitsKnown, Target
<1> QED
  BY <1>1 DEF ClaimShown, Spares, SourceValid, TreesInv, PathsValid, TypeInv, TypeOK

\* Before it publishes, its row stays what it was.
LEMMA WritingTrees ==
    ASSUME DistinctUsers, TypeInv, TreesInv, NEW w \in Workers,
           BeginWrite(w) \/ FinishWrite(w) \/ Promote(w)
    PROVE  TreesInv'
<1> DEFINE c == Target(w)
<1>1. pc[w] \in {"write", "writing", "promote"} /\ TreesAt(w)
  BY DEF BeginWrite, FinishWrite, Promote, Goto, TreesInv
<1>2. ClaimShown(w) /\ (pc[w] # "write" => ClaimSeen(w))
  BY <1>1 DEF TreesAt, Creators
<1>3. c \in Commits /\ rev[c] \in RevisionRow /\ ~rev[c].path /\ Spares(w, c)
  BY <1>1, <1>2, CreatorAlone
<1>4. rev' = rev /\ cache' = cache /\ OnTarget(w)
  BY <1>1, <1>2, <1>3 DEF BeginWrite, FinishWrite, Promote, Goto, OnTarget, OthersStay,
     disk, locks, session, TypeInv, TypeOK
<1>5. Target(w)' = c /\ ClaimShown(w)' /\ TreeOf(cache[w].active)'
  <2>1. Target(w)' = c /\ ClaimShown(w)'
    BY <1>2, <1>4 DEF OnTarget, Target, ClaimShown
  <2>2. /\ cache[w] \in RepositoryRow /\ NamesBegun(cache[w])
        /\ TreeOf(cache[w].active) /\ CommitsStay
    BY <1>1, <1>4, RowsNamesBegun DEF TreesAt, OnTarget, CommitsStay
  <2>3. SparesTrees(w)
    <3>1. ASSUME NEW d \in Commits, d # c PROVE Spares(w, d)
      BY <1>4, <3>1 DEF OnTarget, Spares, SourceValid, ValidNext
    <3> QED
      BY <1>3, <3>1 DEF SparesTrees
  <2>4. TreeOf(cache[w].active)'
    BY <1>4, <2>2, <2>3, TreeStays DEF TreeOf, SourceValid, ValidNext
  <2> QED
    BY <2>1, <2>4
<1>6. TreesAt(w)'
  <2>1. CASE BeginWrite(w)
    <3>1. pc'[w] = "writing" /\ claim'[w] = rev[c]
      BY <2>1 DEF BeginWrite, Goto, TypeInv, TypeOK
    <3>2. ClaimSeen(w)'
      BY <1>2, <1>3, <3>1 DEF ClaimShown, ClaimSeen, RevisionRow
    <3> QED
      BY <1>5, <3>1, <3>2 DEF TreesAt, Creators
  <2>2. CASE FinishWrite(w)
    <3>1. /\ pc'[w] = "promote" /\ claim'[w] = claim[w]
          /\ creating' = [creating EXCEPT ![c][claim[w].dir] = "whole"]
      BY <2>2 DEF FinishWrite, Goto, session, TypeInv, TypeOK
    <3>2. ClaimSeen(w)' /\ creating'[c][w] = "whole"
      BY <1>1, <1>2, <1>3, <2>2, <3>1 DEF FinishWrite, Goto, ClaimSeen, TypeInv, TypeOK
    <3> QED
      BY <1>5, <3>1, <3>2 DEF TreesAt, Creators
  <2>3. CASE Promote(w)
    <3>1. pc[w] = "promote" /\ pc'[w] = "publish" /\ claim'[w] = claim[w]
      BY <2>3 DEF Promote, Goto, session, TypeInv, TypeOK
    <3>2. ClaimSeen(w)' /\ publish'[c] = "whole"
      BY <1>1, <1>2, <1>3, <2>3, <3>1 DEF Promote, ClaimSeen, TreesAt, TypeInv, TypeOK
    <3> QED
      BY <1>5, <3>1, <3>2 DEF TreesAt, Creators
  <2> QED
    BY <2>1, <2>2, <2>3
<1> QED
  BY <1>1, <1>3, <1>4, <1>6, OnTargetStep



LEMMA PublishTrees ==
    ASSUME DistinctUsers, TypeInv, TreesInv, NEW w \in Workers, Publish(w)
    PROVE  TreesInv'
<1> DEFINE c == Target(w)
           published == [Unclaimed(claim[w]) EXCEPT !.state = "ready", !.path = TRUE]
<1>1. pc[w] = "publish" /\ TreesAt(w) /\ ClaimShown(w) /\ ClaimSeen(w)
      /\ publish[c] = "whole"
  BY DEF Publish, Goto, TreesInv, TreesAt, Creators
<1>2. c \in Commits /\ rev[c] \in RevisionRow /\ Spares(w, c)
      /\ claim[w] \in RevisionRow
  BY <1>1, CreatorAlone DEF TypeInv, Anchored, AnchoredAt
<1>3. rev'[c] = FlushRevision(rev[c], claim[w], published)
  BY <1>2 DEF Publish, TypeInv, TypeOK
<1>4. published.state = "ready" /\ published.path = TRUE /\ claim[w].path = FALSE
  BY <1>1, <1>2 DEF Unclaimed, RevisionRow, ClaimSeen
<1>5. rev'[c].state = "ready" /\ rev'[c].path
  <2> HIDE DEF published
  <2> QED
    BY <1>1, <1>3, <1>4 DEF FlushRevision, ClaimSeen
<1>6. /\ OnTarget(w) /\ publish' = publish /\ pc'[w] = "validate"
      /\ cache' = cache /\ gen' = gen /\ commitOf' = commitOf
  BY <1>2 DEF Publish, Goto, OnTarget, OthersStay, disk, TypeInv, TypeOK
<1>7. ValidNext(c) /\ SourceValid(Target(w))'
  BY <1>1, <1>5, <1>6 DEF ValidNext, SourceValid, Target
<1>8. CommitsStay /\ SparesTrees(w)
  BY <1>2, <1>6 DEF CommitsStay, SparesTrees, Spares, OnTarget, SourceValid, ValidNext
<1>9. TreeOf(cache[w].active)'
  BY <1>1, <1>6, <1>8, RowsNamesBegun, TreeStays
     DEF TreesAt, TreeOf, SourceValid, ValidNext
<1>10. TreesAt(w)'
  BY <1>6, <1>7, <1>9 DEF TreesAt, Creators
<1> QED
  BY <1>1, <1>2, <1>6, <1>7, <1>10, OnTargetStep

\* A failure takes back the claim of its own request, or none.
LEMMA RollbackTrees ==
    ASSUME DistinctUsers, TypeInv, TreesInv, NEW w \in Workers, Rollback(w)
    PROVE  TreesInv'
<1> DEFINE c == Target(w)
           aborts == rev[c].state = "creating" /\ rev[c].owner = User[w]
<1>1. pc[w] = "rollback" /\ TreesAt(w) /\ (ClaimShown(w) \/ SourceValid(c))
  BY DEF Rollback, TreesInv, TreesAt
<1>2. c \in Commits /\ rev[c] \in RevisionRow
  BY <1>1 DEF TypeInv, TypeOK, Anchored, AnchoredAt, CommitsKnown, Target
<1>3. /\ rev' = rev /\ OnTarget(w) /\ cache'[w] = NewRow
      /\ gen' = gen /\ commitOf' = commitOf
      /\ creating'[c] = [v \in Workers |->
            IF aborts /\ v = rev[c].dir THEN "missing" ELSE creating[c][v]]
      /\ publish'[c] = IF aborts /\ ~rev[c].path THEN "missing" ELSE publish[c]
      /\ pc'[w] = IF aborts THEN "abort" ELSE "fail"
      /\ aborts => claim'[w] = rev[c]
  BY <1>2 DEF Rollback, OnTarget, OthersStay, TypeInv, TypeOK
<1>4. Target(w)' = c
  BY <1>3 DEF Target
<1>5. CASE aborts
  <2>1. ClaimShown(w) /\ Spares(w, c) /\ ~rev[c].path
    BY <1>1, <1>5, CreatorAlone DEF SourceValid
  <2>2. ClaimShown(w)' /\ ClaimSeen(w)'
    BY <1>3, <1>4, <1>5, <2>1 DEF ClaimShown, ClaimSeen
  <2>3. TreesAt(w)'
    BY <1>3, <1>5, <2>2 DEF TreesAt, TreeOf, NewRow, Creators
  <2> QED
    BY <1>1, <1>3, <2>1, <2>3, OnTargetStep
<1>6. CASE ~aborts
  <2>1. SourceValid(c)
    BY <1>1, <1>6 DEF ClaimShown
  <2>2. Spares(w, c) /\ ValidNext(c)
    BY <1>3, <1>6, <2>1 DEF Spares, SourceValid, ValidNext
  <2>3. TreesAt(w)'
    BY <1>3, <1>6 DEF TreesAt, TreeOf, NewRow, Creators
  <2> QED
    BY <1>1, <1>3, <2>2, <2>3, OnTargetStep
<1> QED
  BY <1>5, <1>6

LEMMA AbortTrees ==
    ASSUME DistinctUsers, TypeInv, TreesInv, NEW w \in Workers, AbortClaim(w)
    PROVE  TreesInv'
<1> DEFINE c == Target(w)
           aborted == [Unclaimed(claim[w]) EXCEPT !.state = "absent"]
<1>1. pc[w] = "abort" /\ TreesAt(w) /\ ClaimShown(w) /\ ClaimSeen(w)
  BY DEF AbortClaim, Goto, TreesInv, TreesAt
<1>2. c \in Commits /\ rev[c] \in RevisionRow /\ ~rev[c].path /\ Spares(w, c)
      /\ claim[w] \in RevisionRow
  BY <1>1, CreatorAlone DEF TypeInv, Anchored, AnchoredAt
<1>3. rev'[c] = FlushRevision(rev[c], claim[w], aborted)
  BY <1>2 DEF AbortClaim, TypeInv, TypeOK
<1>4. ~aborted.path
  BY <1>1, <1>2 DEF Unclaimed, RevisionRow, ClaimSeen
<1>5. ~rev'[c].path
  <2> HIDE DEF aborted
  <2> QED
    BY <1>2, <1>3, <1>4 DEF FlushRevision
<1>6. /\ OnTarget(w) /\ pc'[w] = "fail"
      /\ cache' = cache /\ gen' = gen /\ commitOf' = commitOf
  BY <1>2 DEF AbortClaim, Goto, OnTarget, OthersStay, disk, TypeInv, TypeOK
<1>7. CommitsStay /\ SparesTrees(w)
  BY <1>2, <1>6 DEF CommitsStay, SparesTrees, Spares, OnTarget, SourceValid, ValidNext
<1>8. TreeOf(cache[w].active)'
  BY <1>1, <1>6, <1>7, RowsNamesBegun, TreeStays
     DEF TreesAt, TreeOf, SourceValid, ValidNext
<1>9. TreesAt(w)'
  BY <1>6, <1>8 DEF TreesAt, Creators
<1> QED
  BY <1>1, <1>2, <1>5, <1>6, <1>9, OnTargetStep

\* Time passes, but no creation or clean-up outlasts its lease.
LEMMA TickTrees ==
    ASSUME TypeInv, TreesInv, CreationTimely, Tick
    PROVE  TreesInv'
<1>1. UNCHANGED <<status, commitOf, creating, publish, pc, want, gen>>
  BY DEF Tick, disk
<1>2. ASSUME NEW c \in Commits
      PROVE  /\ rev'[c].state = rev[c].state /\ rev'[c].path = rev[c].path
             /\ rev'[c].owner = rev[c].owner /\ rev'[c].dir = rev[c].dir
             /\ rev[c].lease > 0 /\ rev[c].lease # 1 => rev'[c].lease > 0
             /\ SourceValid(c) => ValidNext(c)
  <2>1. rev[c] \in RevisionRow /\ rev'[c] = AgedRevision(rev[c])
    BY DEF Tick, TypeInv, TypeOK
  <2>2. /\ rev'[c].state = rev[c].state /\ rev'[c].path = rev[c].path
        /\ rev'[c].owner = rev[c].owner /\ rev'[c].dir = rev[c].dir
        /\ rev'[c].lease = Sooner(rev[c].lease)
    BY <2>1 DEF AgedRevision, RevisionRow
  <2>3. rev[c].lease > 0 /\ rev[c].lease # 1 => Sooner(rev[c].lease) > 0
    BY <2>1, DurationAssumption DEF RevisionRow, Sooner
  <2> QED
    BY <1>1, <2>2, <2>3 DEF SourceValid, ValidNext
<1>3. ASSUME NEW row \in RepositoryRow, NamesBegun(row), TreeOf(row.active)
      PROVE  row.active # None => ValidNext(commitOf'[row.active])
  <2>1. row.active # None => commitOf[row.active] \in Commits
    BY <1>3 DEF NamesBegun, RepositoryRow, TypeInv, Anchored, CommitsKnown
  <2> QED
    BY <1>1, <1>2, <1>3, <2>1 DEF TreeOf
<1>4. PathsValid'
  BY <1>2 DEF PathsValid, TreesInv, SourceValid, ValidNext
<1>5. TreeOf(repo.active)'
  <2>1. repo'.active = repo.active
    BY RowNames DEF Tick, TypeInv, TypeOK
  <2>2. repo \in RepositoryRow /\ NamesBegun(repo) /\ TreeOf(repo.active)
    BY DEF TypeInv, TypeOK, Anchored, TreesInv
  <2> QED
    BY <1>3, <2>1, <2>2 DEF TreeOf, SourceValid, ValidNext
<1>6. ASSUME NEW w \in Workers PROVE TreesAt(w)'
  <2>1. TreesAt(w) /\ cache[w] \in RepositoryRow /\ NamesBegun(cache[w])
    BY RowsNamesBegun DEF TreesInv
  <2>2. cache'[w].active = cache[w].active
    BY <2>1, RowNames DEF Tick, TypeInv, TypeOK
  <2>3. TreeOf(cache[w].active)'
    BY <1>3, <2>1, <2>2 DEF TreeOf, TreesAt, SourceValid, ValidNext
  <2>4. pc[w] \in Finishing => Target(w) \in Commits /\ Target(w)' = Target(w)
    BY <1>1 DEF Target, TypeInv, Anchored, AnchoredAt, CommitsKnown
  <2>5. pc[w] \in {"write", "writing", "promote", "publish", "rollback", "abort"}
        /\ ClaimShown(w) => ClaimShown(w)'
    BY <1>2, <2>4 DEF ClaimShown, CreationTimely
  <2>6. pc[w] \in Finishing /\ SourceValid(Target(w)) => SourceValid(Target(w))'
    BY <1>2, <2>4 DEF SourceValid, ValidNext
  <2>7. claim[w] \in RevisionRow /\ ClaimSeen(w) => ClaimSeen(w)'
    BY DEF Tick, ClaimSeen, AgedRevision, RevisionRow, TypeInv, TypeOK
  <2>8. pc[w] \in {"writing", "promote", "publish", "abort"} => claim[w] \in RevisionRow
    BY DEF TypeInv, Anchored, AnchoredAt
  <2>9. pc[w] \in {"fetchStart", "start"} /\ claim'[w] # None =>
          Reusable(claim[w])' /\ SourceValid(want[w])'
    <3> SUFFICES ASSUME pc[w] \in {"fetchStart", "start"}, claim'[w] # None
                 PROVE  Reusable(claim[w])' /\ SourceValid(want[w])'
      OBVIOUS
    <3>1. claim[w] # None /\ claim[w] \in RevisionRow /\ claim'[w] = AgedRevision(claim[w])
      BY DEF Tick, TypeInv, TypeOK
    <3>2. Reusable(claim[w]) /\ SourceValid(want[w]) /\ want[w] \in Commits
      BY <2>1, <3>1 DEF TreesAt, TypeInv, Anchored, AnchoredAt
    <3> QED
      BY <1>1, <1>2, <3>1, <3>2 DEF Reusable, AgedRevision, RevisionRow, SourceValid, ValidNext
  <2> QED
    BY <1>1, <2>1, <2>3, <2>4, <2>5, <2>6, <2>7, <2>8, <2>9 DEF TreesAt, Creators
<1> QED
  BY <1>4, <1>5, <1>6 DEF TreesInv

LEMMA InitTrees == Init => TreesInv
BY DEF Init, TreesInv, PathsValid, TreesAt, TreeOf, NewRow, AbsentRevision, Creators

LEMMA TreesStep ==
    ASSUME DistinctUsers, TypeInv, TreesInv, [TimelyNext]_vars
    PROVE  TreesInv'
<1>1. CASE UNCHANGED vars
  BY <1>1 DEF vars, disk, locks, session, TreesInv, PathsValid, TreesAt, TreeOf, Creators,
              ClaimShown, ClaimSeen, SourceValid, Reusable, Target
<1>2. ASSUME NEW w \in Workers,
             Join(w) \/ Renew(w) \/ Request(w) \/ Trouble(w) \/ Crash(w)
      PROVE  TreesInv'
  BY <1>2, EndingSteps, ListingTrees, PlanningTrees, StartTrees, CompleteTrees,
     WritingTrees, PublishTrees, BuildingTrees, CommitActivationTrees, RollbackTrees,
     AbortTrees
     DEF Request, Trouble
<1> QED
  BY <1>1, <1>2, TickTrees DEF TimelyNext, Step

LEMMA TreesInductive ==
    ASSUME DistinctUsers
    PROVE  TimelySpec => [](TypeInv /\ TreesInv)
<1>1. TypeInv /\ [TimelyNext]_vars => TypeInv'
  BY TypeStep DEF TimelyNext, Next
<1>2. TypeInv /\ TreesInv /\ [TimelyNext]_vars => TreesInv'
  BY TreesStep
<1> QED
  BY InitTypes, InitTrees, <1>1, <1>2, PTL DEF TimelySpec

\* Two requests of different users never create the tree of one commit at once, as
\* long as a creation and its clean-up stay within its lease: claim_snapshot and the
\* recoveries of ingest_commit and complete_owned_refresh refuse the second, also when
\* the revision it decides on has been in its session since before the fetch.
THEOREM CreatorsApart ==
    ASSUME DistinctUsers
    PROVE  TimelySpec => []OneCreator
<1>1. TypeInv /\ TreesInv => OneCreator
  BY DEF TreesInv, TreesAt, ClaimShown, OneCreator, DistinctUsers, Creators
<1> QED
  BY <1>1, TreesInductive, PTL

\* Under the same assumptions what a ready revision publishes is a whole tree,
\* whichever workers crashed, failed and recovered one another's claims before.
THEOREM PublishedTreesWhole ==
    ASSUME DistinctUsers
    PROVE  TimelySpec => []PublishedWhole
<1>1. TypeInv /\ TreesInv => PublishedWhole
  BY DEF TreesInv, PathsValid, SourceValid, Reusable, PublishedWhole
<1> QED
  BY <1>1, TreesInductive, PTL
=============================================================================
