------------------------------ MODULE ReaderPins ------------------------------
(***************************************************************************)
(* Reader pins against garbage collection and the deletion of work trees.  *)
(*                                                                         *)
(* A question pins the generation it reads, a collector claims generations *)
(* that nobody reads and deletes their trees, and a build may need a tree  *)
(* that is being deleted.  They meet in three kinds of rows that they lock *)
(* one after the other, questions the repository last, collectors and      *)
(* builds first: they may wait for each other, and PostgreSQL fails one.   *)
(* The state of a row that a session has loaded is not read again when the *)
(* row is locked: "held" is what a session goes by.                        *)
(*                                                                         *)
(* The collector and the renewal are operations without a caller that is   *)
(* ever reached in this version of the code (see Question).                *)
(***************************************************************************)
EXTENDS Naturals, FiniteSets

CONSTANTS
    Askers,
    Collectors,
    Generations,
    Revisions,
    Revision,        \* Revision[g]: the source revision generation g indexes
    First,           \* the generation that is active at the start
    None,
    PinLife,         \* two minutes
    Lease,           \* ten minutes: hard deadline of a pin, lease of a deletion
    MaxTime,         \* bound on the clock
    DeletionInLease  \* a collector deletes a tree before the lease of its own claim ends

VARIABLES
    now,
    active, refresh, \* repositories.active_generation_id, refresh_generation_id
    generation,      \* the generation rows
    revision,        \* the source revision rows
    pin,             \* asker -> its pin row
    tree,            \* revisions whose tree is at the publish path
    lock,            \* row -> the session that holds it FOR UPDATE
    pc,
    local,           \* session -> what it works on and the rows it holds
    overtaken        \* askers whose pin was written over a claim (history)

rows == <<active, refresh, generation, revision, pin, overtaken>>
vars == <<now, rows, tree, lock, pc, local>>

-----------------------------------------------------------------------------
Actors == Askers \cup Collectors \cup {"builder"}
Rows == {"repository"} \cup Generations \cup Revisions
Times == 0..(MaxTime + Lease)

GenerationRow ==
    [status : {"none", "pending", "ready", "retired", "failed"}, claimed : BOOLEAN]
RevisionRow == [state : {"absent", "creating", "ready", "deleting"}, lease : Times]
PinRow == [gen : Generations, expires : Times, deadline : Times]

Held == [generation : GenerationRow, revision : RevisionRow]

\* gives: a claim gives the tree up.
Local == [gen : Generations \cup {None}, held : Held \cup {None}, at : 0..MaxTime, gives : BOOLEAN]

\* What the constants are taken to be: sessions and rows are told apart, and None is neither
\* of them.
PinsAssumption ==
    /\ First \in Generations /\ Revision \in [Generations -> Revisions]
    /\ None \notin Generations \cup PinRow \cup Held \cup Actors
    /\ Askers \cap Collectors = {} /\ "builder" \notin Askers \cup Collectors
    /\ Generations \cap Revisions = {} /\ "repository" \notin Generations \cup Revisions
    /\ PinLife \in Nat /\ Lease \in Nat /\ MaxTime \in Nat

Idle == [gen |-> None, held |-> None, at |-> 0, gives |-> FALSE]

AskerPCs == {"idle", "pin", "insert", "flush", "serving", "renew", "extend"}
CollectorPCs == {"idle", "generation", "revision", "count", "claimed", "commit", "finish", "remove",
                 "removed"}
BuilderPCs == {"idle", "begin", "activate"}
PCs == AskerPCs \cup CollectorPCs \cup BuilderPCs

TypeOK ==
    /\ now \in 0..MaxTime
    /\ active \in Generations
    /\ refresh \in Generations \cup {None}
    /\ generation \in [Generations -> GenerationRow]
    /\ revision \in [Revisions -> RevisionRow]
    /\ pin \in [Askers -> PinRow \cup {None}]
    /\ tree \subseteq Revisions
    /\ lock \in [Rows -> Actors \cup {None}]
    /\ pc \in [Actors -> PCs]
    /\ local \in [Actors -> Local]
    /\ overtaken \subseteq Askers

Init ==
    /\ now = 0
    /\ active = First
    /\ refresh = None
    /\ generation = [g \in Generations |->
           [status |-> IF g = First THEN "ready" ELSE "none", claimed |-> FALSE]]
    /\ revision = [r \in Revisions |->
           [state |-> IF r = Revision[First] THEN "ready" ELSE "absent", lease |-> 0]]
    /\ pin = [a \in Askers |-> None]
    /\ tree = {Revision[First]}
    /\ lock = [row \in Rows |-> None]
    /\ pc = [p \in Actors |-> "idle"]
    /\ local = [p \in Actors |-> Idle]
    /\ overtaken = {}

-----------------------------------------------------------------------------
(* Sessions *)

Free(p, row) == lock[row] \in {None, p}

Locked(p, row) == [lock EXCEPT ![row] = p]

\* What remains locked once p commits or rolls back.  The mutant forgets to.
KeepsLocks(p) == lock
Released(p) == [row \in Rows |-> IF lock[row] = p THEN None ELSE lock[row]]

RowsOf(g) == [generation |-> generation[g], revision |-> revision[Revision[g]]]

\* What a locking SELECT gives a session: the copies it holds, if it holds them.
Seen(p) == IF local[p].held # None THEN local[p].held ELSE RowsOf(local[p].gen)

Goto(p, at, l) ==
    /\ pc' = [pc EXCEPT ![p] = at]
    /\ local' = [local EXCEPT ![p] = l]

\* The request of p ends; what it did not commit is undone.
End(p) ==
    /\ lock' = Released(p)
    /\ Goto(p, "idle", Idle)

\* The mutant adds the lease twice.
LeaseDeadlineTwice(t) == t + 2 * Lease
LeaseDeadline(t) == t + Lease

Live(row, t) == row # None /\ t < row.expires /\ t < row.deadline

-----------------------------------------------------------------------------
(* Questions *)

Servable(rs) ==
    rs.generation.status = "ready" /\ ~rs.generation.claimed /\ rs.revision.state = "ready"

\* ask and _serve_active load the active generation and its revision.
Ask(a) ==
    /\ pc[a] = "idle"
    /\ Servable(RowsOf(active))
    /\ Goto(a, "pin", [Idle EXCEPT !.gen = active, !.held = RowsOf(active), !.at = now])
    /\ UNCHANGED <<now, rows, tree, lock>>

\* insert_reader_pin and renew_reader_pin lock the generation, then the revision.
LockGeneration(a) ==
    /\ pc[a] \in {"pin", "renew"}
    /\ Free(a, local[a].gen)
    /\ lock' = Locked(a, local[a].gen)
    /\ Goto(a, IF pc[a] = "pin" THEN "insert" ELSE "extend", local[a])
    /\ UNCHANGED <<now, rows, tree>>

PinMayInsert(rs, expires, deadline) ==
    ~rs.generation.claimed /\ rs.revision.state = "ready" /\ expires <= deadline

PinMayRenew(rs, expires, deadline) == PinMayInsert(rs, expires, deadline)

\* The pin is decided on the held copies; without one the request is told to wait.
DecidePin(a) ==
    LET t == local[a].at
    IN  /\ pc[a] = "insert"
        /\ Free(a, Revision[local[a].gen])
        /\ IF PinMayInsert(Seen(a), t + PinLife, LeaseDeadline(t))
           THEN lock' = Locked(a, Revision[local[a].gen]) /\ Goto(a, "flush", local[a])
           ELSE End(a)
        /\ UNCHANGED <<now, rows, tree>>

\* The rows as they are forbid the pin that a session writes on its copies.
Overtaken(g) == generation[g].claimed \/ revision[Revision[g]].state # "ready"

Writes(a, row) ==
    /\ pin' = [pin EXCEPT ![a] = row]
    /\ overtaken' = IF Overtaken(row.gen) THEN overtaken \cup {a} ELSE overtaken \ {a}

\* The INSERT, whose foreign key locks the repository FOR KEY SHARE and waits for a session
\* that holds it FOR UPDATE; the commit lets go of all rows.
InsertPin(a) ==
    LET l == local[a]
    IN  /\ pc[a] = "flush"
        /\ Free(a, "repository")
        /\ Writes(a, [gen |-> l.gen, expires |-> l.at + PinLife, deadline |-> LeaseDeadline(l.at)])
        /\ lock' = Released(a)
        /\ Goto(a, "serving", [l EXCEPT !.held = None])
        /\ UNCHANGED <<now, active, refresh, generation, revision, tree>>

\* The answer loads the generation and the revision again, and goes on with those copies.
Load(a) ==
    /\ pc[a] = "serving"
    /\ local[a].held = None
    /\ Goto(a, "serving", [local[a] EXCEPT !.held = RowsOf(local[a].gen)])
    /\ UNCHANGED <<now, rows, tree, lock>>

\* _ensure_open and the first check of a renewal delete a pin that has run out and cancel
\* the question.
Cancel(a) ==
    /\ pc[a] = "serving"
    /\ ~Live(pin[a], now)
    /\ pin' = [pin EXCEPT ![a] = None]
    /\ Goto(a, "idle", Idle)
    /\ UNCHANGED <<now, active, refresh, generation, revision, overtaken, tree, lock>>

\* An answer ends, or finds its tree gone: the pin stays until it has run out.
Answered(a) ==
    /\ pc[a] = "serving"
    /\ Goto(a, "idle", Idle)
    /\ UNCHANGED <<now, rows, tree, lock>>

\* _renew, which takes the time, finds the pin alive and locks its row.
StartRenewal(a) ==
    /\ pc[a] = "serving"
    /\ Live(pin[a], now)
    /\ Goto(a, "renew", [local[a] EXCEPT !.at = now])
    /\ UNCHANGED <<now, rows, tree, lock>>

\* Renewed up to the hard deadline, or deleted, which cancels the question.
ExtendPin(a) ==
    LET l == local[a]
        until == pin[a].deadline
    IN  /\ pc[a] = "extend"
        /\ Free(a, Revision[l.gen])
        /\ lock' = Released(a)
        /\ IF PinMayRenew(Seen(a), until, pin[a].deadline)
           THEN Writes(a, [pin[a] EXCEPT !.expires = until])
                /\ Goto(a, "serving", [l EXCEPT !.held = None])
           ELSE pin' = [pin EXCEPT ![a] = None] /\ UNCHANGED overtaken
                /\ Goto(a, "idle", Idle)
        /\ UNCHANGED <<now, active, refresh, generation, revision, tree>>

-----------------------------------------------------------------------------
(* Garbage collection *)

\* claim_garbage_collection takes the time and locks the repository, then the generation,
\* then the revision; its session is new and reads each row as it locks it.
Collect(c) ==
    /\ pc[c] = "idle"
    /\ Free(c, "repository")
    /\ lock' = Locked(c, "repository")
    /\ \E g \in Generations :
        /\ generation[g].status # "none"
        /\ Goto(c, "generation", [Idle EXCEPT !.gen = g, !.at = now])
    /\ UNCHANGED <<now, rows, tree>>

CollectGeneration(c) ==
    /\ pc[c] = "generation"
    /\ Free(c, local[c].gen)
    /\ lock' = Locked(c, local[c].gen)
    /\ Goto(c, "revision", local[c])
    /\ UNCHANGED <<now, rows, tree>>

CollectRevision(c) ==
    LET r == Revision[local[c].gen]
    IN  /\ pc[c] = "revision"
        /\ Free(c, r)
        /\ lock' = Locked(c, r)
        /\ Goto(c, "count", local[c])
        /\ UNCHANGED <<now, rows, tree>>

\* Unexpired pins of some generations.
Pinned(gs, t) == \E a \in Askers : pin[a] # None /\ pin[a].gen \in gs /\ pin[a].expires > t

GcMayClaim(g, pinned) ==
    /\ generation[g].status \in {"retired", "failed"}
    /\ g \notin {active, refresh}
    /\ ~generation[g].claimed
    /\ revision[Revision[g]].state # "deleting"
    /\ ~pinned

\* The pins of the generation are counted, and its rows deleted.
CountPins(c) ==
    LET g == local[c].gen
    IN  /\ pc[c] = "count"
        /\ IF GcMayClaim(g, Pinned({g}, local[c].at))
           THEN Goto(c, "claimed", local[c]) /\ UNCHANGED lock
           ELSE End(c)
        /\ UNCHANGED <<now, rows, tree>>

\* The generations whose pins keep a tree, those of its revision.  The mutant asks for the
\* pins of the claimed generation once more.
OwnPins(g) == {g}
SharedPins(g) == {h \in Generations : Revision[h] = Revision[g]}

OtherLive(g) == \E h \in SharedPins(g) \ {g} : generation[h].status \in {"pending", "ready"}

GcMayDeleteWorktree(g, pinned) ==
    /\ revision[Revision[g]].state = "ready"
    /\ ~OtherLive(g)
    /\ Revision[g] \notin {Revision[h] : h \in {active, refresh} \ {None}}
    /\ ~pinned

\* The other generations and the pins of the revision are counted.
CountRevision(c) ==
    LET g == local[c].gen
    IN  /\ pc[c] = "claimed"
        /\ Goto(c, "commit", [local[c] EXCEPT !.gives =
                                 GcMayDeleteWorktree(g, Pinned(SharedPins(g), local[c].at))])
        /\ UNCHANGED <<now, rows, tree, lock>>

\* The commit of the claim, and of that on the deletion of the tree.
Claim(c) ==
    LET l == local[c]
    IN  /\ pc[c] = "commit"
        /\ generation' = [generation EXCEPT ![l.gen].claimed = TRUE]
        /\ lock' = Released(c)
        /\ IF l.gives
           THEN /\ revision' = [revision EXCEPT ![Revision[l.gen]] =
                                   [state |-> "deleting", lease |-> LeaseDeadline(l.at)]]
                /\ Goto(c, "finish", l)
           ELSE UNCHANGED revision /\ Goto(c, "idle", Idle)
        /\ UNCHANGED <<now, active, refresh, pin, overtaken, tree>>

\* finish_worktree_deletion looks at the state of the revision, not at whose deletion it is,
\* deletes the tree, and commits; with DeletionInLease nobody calls it past the lease that
\* its own claim was given.
InLease(c) == now < LeaseDeadline(local[c].at)
Finish(c) ==
    /\ pc[c] = "finish"
    /\ IF /\ revision[Revision[local[c].gen]].state = "deleting"
          /\ DeletionInLease => InLease(c)
       THEN Goto(c, "remove", local[c])
       ELSE Goto(c, "idle", Idle)
    /\ UNCHANGED <<now, rows, tree, lock>>

RemoveTree(c) ==
    /\ pc[c] = "remove"
    /\ tree' = tree \ {Revision[local[c].gen]}
    /\ Goto(c, "removed", local[c])
    /\ UNCHANGED <<now, rows, lock>>

CommitDeletion(c) ==
    LET r == Revision[local[c].gen]
    IN  /\ pc[c] = "removed"
        /\ Free(c, r)
        /\ revision' = [revision EXCEPT ![r].state = "absent"]
        /\ Goto(c, "idle", Idle)
        /\ UNCHANGED <<now, active, refresh, generation, pin, overtaken, tree, lock>>

-----------------------------------------------------------------------------
(* Builds, in the coarse form of Indexing *)

\* ingest_commit locks the repository.
Open(g) ==
    /\ pc["builder"] = "idle"
    /\ generation[g].status = "none" /\ refresh = None
    /\ Free("builder", "repository")
    /\ lock' = Locked("builder", "repository")
    /\ Goto("builder", "begin", [Idle EXCEPT !.gen = g])
    /\ UNCHANGED <<now, rows, tree>>

\* A tree that is being deleted is waited for while its lease holds, and otherwise deleted
\* first (recover_deleting_snapshot).  The mutant ignores the lease.
DeletionHeldNever(r) == FALSE
DeletionHeld(r) == revision[r].state = "deleting" /\ revision[r].lease > now

\* The pending generation is inserted and the revision updated, which waits for a session
\* that holds its row.
Begin ==
    LET g == local["builder"].gen
        r == Revision[g]
    IN  /\ pc["builder"] = "begin"
        /\ Free("builder", r)
        /\ End("builder")
        /\ IF DeletionHeld(r)
           THEN UNCHANGED <<refresh, generation, revision, tree>>
           ELSE /\ refresh' = g
                /\ generation' = [generation EXCEPT ![g].status = "pending"]
                /\ IF revision[r].state = "ready"
                   THEN UNCHANGED <<revision, tree>>
                   ELSE /\ revision' = [revision EXCEPT ![r].state = "creating"]
                        /\ tree' = tree \ {r}
        /\ UNCHANGED <<now, active, pin, overtaken>>

\* The tree is published, which updates the revision, and validated; the first renewal
\* locks the repository until the commit that activates.
Publish ==
    LET r == Revision[refresh]
    IN  /\ pc["builder"] = "idle" /\ refresh # None
        /\ \A row \in {"repository", r} : Free("builder", row)
        /\ revision[r].state = "ready" => r \in tree
        /\ revision' = [revision EXCEPT ![r].state = "ready"]
        /\ tree' = tree \cup {r}
        /\ lock' = Locked("builder", "repository")
        /\ Goto("builder", "activate", [Idle EXCEPT !.gen = refresh])
        /\ UNCHANGED <<now, active, refresh, generation, pin, overtaken>>

\* activate_generation, which updates the generation and the one before it.
Activate ==
    /\ pc["builder"] = "activate"
    /\ \A g \in {refresh, active} : Free("builder", g)
    /\ generation' = [generation EXCEPT ![refresh].status = "ready", ![active].status = "retired"]
    /\ active' = refresh
    /\ refresh' = None
    /\ End("builder")
    /\ UNCHANGED <<now, revision, pin, overtaken, tree>>

\* The build fails, rolls back, and aborts its claim.
BuildFails ==
    LET r == Revision[refresh]
    IN  /\ pc["builder"] \in {"idle", "activate"} /\ refresh # None
        /\ \A row \in {"repository", refresh, r} : Free("builder", row)
        /\ revision' = [revision EXCEPT ![r].state = IF @ = "creating" THEN "absent" ELSE @]
        /\ generation' = [generation EXCEPT ![refresh].status = "failed"]
        /\ refresh' = None
        /\ End("builder")
        /\ UNCHANGED <<now, active, pin, overtaken, tree>>

-----------------------------------------------------------------------------
(* The environment *)

\* A collector dies; its open transaction is undone.
Crash(c) ==
    /\ pc[c] # "idle"
    /\ End(c)
    /\ UNCHANGED <<now, rows, tree>>

\* The row a session that waits may be waiting for.
Wanted(p) ==
    LET g == local[p].gen
    IN  CASE pc[p] \in {"pin", "renew", "generation"} -> g
          [] pc[p] \in {"insert", "extend", "revision", "begin"} -> Revision[g]
          [] pc[p] = "flush" -> "repository"
          [] pc[p] = "activate" -> IF Free(p, active) THEN g ELSE active
          [] OTHER -> None

Waiting == {p \in Actors : Wanted(p) # None /\ ~Free(p, Wanted(p))}

\* p is one of those who wait for each other in a circle.
Deadlocked(p) ==
    \E S \in SUBSET Waiting : p \in S /\ {lock[Wanted(q)] : q \in S} = S

\* PostgreSQL ends a deadlock by failing one of the statements in it.
Aborts(p) ==
    /\ Deadlocked(p)
    /\ End(p)
    /\ UNCHANGED <<now, rows, tree>>

\* With DeletionInLease a collector that deletes a tree does not outlive its lease.
Tick ==
    /\ now < MaxTime
    /\ DeletionInLease => \A c \in Collectors :
           pc[c] \in {"remove", "removed"} => now + 1 < LeaseDeadline(local[c].at)
    /\ now' = now + 1
    /\ UNCHANGED <<rows, tree, lock, pc, local>>

Waits(a) == LockGeneration(a) \/ DecidePin(a) \/ InsertPin(a) \/ ExtendPin(a)
Asks(a) == Waits(a) \/ Answered(a) \/ Cancel(a)
Collects(c) ==
    \/ CollectGeneration(c) \/ CollectRevision(c) \/ CountPins(c) \/ CountRevision(c) \/ Claim(c)
    \/ Finish(c) \/ RemoveTree(c) \/ CommitDeletion(c)
Builds == Begin \/ Activate

Next ==
    \/ \E a \in Askers : Ask(a) \/ Load(a) \/ StartRenewal(a) \/ Asks(a)
    \/ \E c \in Collectors : Collect(c) \/ Collects(c) \/ Crash(c)
    \/ \E g \in Generations : Open(g)
    \/ Builds \/ Publish \/ BuildFails
    \/ \E p \in Actors : Aborts(p)
    \/ Tick

Spec == Init /\ [][Next]_vars

\* Every session runs, PostgreSQL gives a row lock to each that waits for it and notices
\* each deadlock; a question is answered or cancelled in the end.
Fairness ==
    /\ \A a \in Askers : SF_vars(Waits(a)) /\ SF_vars(Answered(a))
    /\ \A c \in Collectors : SF_vars(Collects(c))
    /\ SF_vars(Builds)
    /\ WF_vars(\E p \in Actors : Aborts(p))

FairSpec == Spec /\ Fairness

-----------------------------------------------------------------------------
(* Properties *)

\* What questions read has its tree: no sequence of claims, deletions, recoveries and
\* builds leaves the active generation without it, while a deletion stays in its lease.
ActiveHasTree ==
    /\ revision[Revision[active]].state = "ready"
    /\ Revision[active] \in tree

\* What a live pin reads stays: its generation is not claimed and its tree is in place,
\* however insertions, renewals, claims, deletions and builds interleave - unless the pin was
\* itself written over a claim, on copies that the session had loaded before it.
PinnedStays ==
    \A a \in Askers : pin[a] # None /\ Live(pin[a], now) /\ a \notin overtaken =>
        /\ ~Overtaken(pin[a].gen)
        /\ Revision[pin[a].gen] \in tree

\* Questions, collections and the steps of a build that hold rows end, although they take
\* the repository, a generation and a revision in opposite orders.
SessionsEnd == \A p \in Actors : pc[p] # "idle" ~> pc[p] = "idle"

=============================================================================
