--------------------------- MODULE ReaderPinsProofs ---------------------------
(***************************************************************************)
(* For any number of questions, collectors, generations and revisions: the *)
(* types of the reader pins; and, while deletions stay in their leases,    *)
(* that the active generation keeps its tree, that deletions do not meet,  *)
(* and that a live pin keeps what it reads.  The last rests on the locks:  *)
(* a claim goes by pins, rows and a repository it counted steps before.    *)
(***************************************************************************)
EXTENDS ReaderPins, TLAPS

-----------------------------------------------------------------------------
(* Types *)

\* What a session at work knows: its generation, a time that has come, when it serves a
\* question the pin on that generation, and that a pin it inserts ends in time.
Knows(p) ==
    /\ pc[p] # "idle" => local[p].gen \in Generations
    /\ local[p].at <= now
    /\ p \in Askers => pc[p] \in AskerPCs
    /\ p \in Collectors => pc[p] \in CollectorPCs
    /\ p = "builder" => pc[p] \in BuilderPCs /\ (pc[p] = "activate" => refresh # None)
    /\ p \in Askers /\ pc[p] \in {"serving", "renew", "extend"} =>
           pin[p] # None /\ pin[p].gen = local[p].gen
    /\ pc[p] = "flush" => local[p].at + PinLife <= LeaseDeadline(local[p].at)

TInv == TypeOK /\ \A p \in Actors : Knows(p)

LEMMA InitTyped ==
  ASSUME PinsAssumption, Init
  PROVE  TInv
<1>1. TypeOK
  BY DEF PinsAssumption, Init, TypeOK, GenerationRow, RevisionRow, Times, Local, Idle, PCs, AskerPCs, Rows, Actors
<1>2. \A p \in Actors : Knows(p)
  BY DEF Init, Knows, Idle, AskerPCs, CollectorPCs, BuilderPCs
<1> QED BY <1>1, <1>2 DEF TInv

\* The copies a session goes by are rows, the deadline of a lease is a time.
LEMMA RowsOfTyped ==
  ASSUME PinsAssumption, TypeOK, NEW g \in Generations
  PROVE  RowsOf(g) \in Held /\ Revision[g] \in Revisions
  BY DEF PinsAssumption, TypeOK, RowsOf, Held

LEMMA DeadlineTyped ==
  ASSUME PinsAssumption, NEW t \in 0..MaxTime
  PROVE  LeaseDeadline(t) \in Times
  BY DEF PinsAssumption, LeaseDeadline, Times

LEMMA IdleTyped == ASSUME PinsAssumption PROVE Idle \in Local /\ Idle.at = 0
  BY DEF PinsAssumption, Idle, Local

\* What is left of the types when p moves on: the rows that the step writes, and what p knows.
LEMMA StepTyped ==
  ASSUME PinsAssumption, TInv, NEW p \in Actors, NEW at \in PCs, NEW l \in Local, Goto(p, at, l),
         active' \in Generations, refresh' \in Generations \cup {None},
         generation' \in [Generations -> GenerationRow], revision' \in [Revisions -> RevisionRow],
         pin' \in [Askers -> PinRow \cup {None}], tree' \subseteq Revisions, overtaken' \subseteq Askers,
         lock' = lock \/ lock' = Released(p) \/ \E row : lock' = Locked(p, row),
         UNCHANGED now, \A a \in Askers \ {p} : pin'[a] = pin[a],
         p = "builder" \/ UNCHANGED refresh, Knows(p)'
  PROVE  TInv'
<1> USE DEF TInv, TypeOK
<1>1. pc' \in [Actors -> PCs] /\ local' \in [Actors -> Local]
  BY DEF Goto
<1>2. lock' \in [Rows -> Actors \cup {None}]
  <2>1. Released(p) \in [Rows -> Actors \cup {None}]
    BY DEF Released
  <2>2. \A row : Locked(p, row) \in [Rows -> Actors \cup {None}]
    BY DEF Locked
  <2> QED BY <2>1, <2>2
<1>3. \A q \in Actors \ {p} : pc'[q] = pc[q] /\ local'[q] = local[q]
  BY DEF Goto
<1>4. \A q \in Actors \ {p} : Knows(q)'
  BY <1>3 DEF Knows
<1> QED BY <1>1, <1>2, <1>4

\* The steps that write no row.
LEMMA QuietTyped ==
  ASSUME PinsAssumption, TInv, NEW p \in Actors, NEW at \in PCs, NEW l \in Local, Goto(p, at, l),
         UNCHANGED <<now, rows, tree>>,
         lock' = lock \/ lock' = Released(p) \/ \E row : lock' = Locked(p, row),
         at # "idle" => l.gen \in Generations, l.at <= now,
         p \in Askers => at \in AskerPCs, p \in Collectors => at \in CollectorPCs,
         p = "builder" => at \in BuilderPCs \ {"activate"},
         p \in Askers /\ at \in {"serving", "renew", "extend"} => pin[p] # None /\ pin[p].gen = l.gen,
         at = "flush" => l.at + PinLife <= LeaseDeadline(l.at)
  PROVE  TInv'
<1>1. pc'[p] = at /\ local'[p] = l
  BY DEF Goto, TInv, TypeOK
<1>2. Knows(p)'
  BY <1>1 DEF Knows, rows, LeaseDeadline
<1> QED BY <1>2, StepTyped DEF TInv, TypeOK, rows

\* A session whose request ends knows nothing any more.
LEMMA EndTyped ==
  ASSUME PinsAssumption, TInv, NEW p \in Actors, Goto(p, "idle", Idle), UNCHANGED <<now, rows, tree>>,
         lock' = lock \/ lock' = Released(p)
  PROVE  TInv'
<1>1. Idle.at <= now
  BY IdleTyped DEF TInv, TypeOK
<1>2. "idle" \in PCs \cap AskerPCs \cap CollectorPCs \cap BuilderPCs
  BY DEF PCs, AskerPCs, CollectorPCs, BuilderPCs
<1> QED BY <1>1, <1>2, IdleTyped, QuietTyped

LEMMA AskerStepTyped ==
  ASSUME PinsAssumption, TInv, NEW a \in Askers, Ask(a) \/ Load(a) \/ StartRenewal(a) \/ Asks(a)
  PROVE  TInv'
<1>p. /\ a \in Actors /\ a \notin Collectors /\ a # "builder" /\ local[a] \in Local
      /\ now \in 0..MaxTime /\ active \in Generations /\ Knows(a)
      /\ pin[a] \in PinRow \cup {None} /\ pin \in [Askers -> PinRow \cup {None}] /\ overtaken \subseteq Askers
      /\ pc[a] \in PCs /\ pc \in [Actors -> PCs] /\ local \in [Actors -> Local]
  BY DEF Actors, TInv, TypeOK, PinsAssumption
<1> USE <1>p DEF AskerPCs, PCs
<1>1. CASE Ask(a)
  <2> DEFINE l == [Idle EXCEPT !.gen = active, !.held = RowsOf(active), !.at = now]
  <2>1. RowsOf(active) \in Held
    BY RowsOfTyped DEF TInv
  <2>2. l \in Local /\ l.gen = active /\ l.at = now
    BY <2>1, IdleTyped DEF Local
  <2>3. Goto(a, "pin", l) /\ UNCHANGED <<now, rows, tree, lock>>
    BY <1>1 DEF Ask
  <2> HIDE DEF l
  <2> QED BY <2>2, <2>3, QuietTyped
<1>2. CASE Load(a)
  <2> DEFINE l == [local[a] EXCEPT !.held = RowsOf(local[a].gen)]
  <2>1. local[a].gen \in Generations /\ pin[a] # None /\ pin[a].gen = local[a].gen /\ local[a].at <= now
    BY <1>2 DEF Load, Knows
  <2>2. RowsOf(local[a].gen) \in Held
    BY <2>1, RowsOfTyped DEF TInv
  <2>3. l \in Local /\ l.gen = local[a].gen /\ l.at = local[a].at
    BY <2>2 DEF Local
  <2>4. Goto(a, "serving", l) /\ UNCHANGED <<now, rows, tree, lock>>
    BY <1>2 DEF Load
  <2> HIDE DEF l
  <2> QED BY <2>1, <2>3, <2>4, QuietTyped
<1>3. CASE StartRenewal(a)
  <2> DEFINE l == [local[a] EXCEPT !.at = now]
  <2>1. local[a].gen \in Generations /\ pin[a] # None /\ pin[a].gen = local[a].gen
    BY <1>3 DEF StartRenewal, Knows
  <2>2. l \in Local /\ l.gen = local[a].gen /\ l.at = now
    BY DEF Local
  <2>3. Goto(a, "renew", l) /\ UNCHANGED <<now, rows, tree, lock>>
    BY <1>3 DEF StartRenewal
  <2> HIDE DEF l
  <2> QED BY <2>1, <2>2, <2>3, QuietTyped
<1>4. CASE LockGeneration(a)
  <2>1. local[a].gen \in Generations /\ local[a].at <= now
        /\ (pc[a] = "renew" => pin[a] # None /\ pin[a].gen = local[a].gen)
    BY <1>4 DEF LockGeneration, Knows
  <2>2. lock' = Locked(a, local[a].gen) /\ UNCHANGED <<now, rows, tree>>
    BY <1>4 DEF LockGeneration
  <2>3. CASE pc[a] = "pin" /\ Goto(a, "insert", local[a])
    BY <2>1, <2>2, <2>3, QuietTyped
  <2>4. CASE pc[a] = "renew" /\ Goto(a, "extend", local[a])
    BY <2>1, <2>2, <2>4, QuietTyped
  <2> QED BY <1>4, <2>3, <2>4 DEF LockGeneration
<1>5. CASE DecidePin(a)
  <2>1. local[a].gen \in Generations /\ local[a].at <= now /\ UNCHANGED <<now, rows, tree>>
    BY <1>5 DEF DecidePin, Knows
  <2>2. CASE End(a)
    BY <2>1, <2>2, EndTyped DEF End
  <2>3. CASE /\ lock' = Locked(a, Revision[local[a].gen]) /\ Goto(a, "flush", local[a])
             /\ local[a].at + PinLife <= LeaseDeadline(local[a].at)
    BY <2>1, <2>3, QuietTyped
  <2> QED BY <1>5, <2>2, <2>3 DEF DecidePin, PinMayInsert
<1>6. CASE InsertPin(a)
  <2> DEFINE l == local[a]
             m == [l EXCEPT !.held = None]
             row == [gen |-> l.gen, expires |-> l.at + PinLife, deadline |-> LeaseDeadline(l.at)]
  <2>1. l.gen \in Generations /\ l.at \in 0..MaxTime /\ l.at <= now
        /\ l.at + PinLife <= LeaseDeadline(l.at)
    BY <1>6 DEF InsertPin, Knows, Local
  <2>2. row \in PinRow
    BY <2>1, DeadlineTyped DEF PinRow, Times, PinsAssumption
  <2>3. m \in Local /\ m.gen = l.gen /\ m.at = l.at
    BY DEF Local
  <2>4. pin' = [pin EXCEPT ![a] = row] /\ overtaken' \subseteq Askers /\ lock' = Released(a)
        /\ Goto(a, "serving", m) /\ UNCHANGED <<now, active, refresh, generation, revision, tree>>
    BY <1>6 DEF InsertPin, Writes
  <2>5. row.gen = l.gen
    OBVIOUS
  <2> HIDE DEF m, row
  <2>6. pin'[a] = row /\ row # None /\ pin' \in [Askers -> PinRow \cup {None}]
        /\ \A b \in Askers \ {a} : pin'[b] = pin[b]
    BY <2>2, <2>4 DEF PinsAssumption
  <2>7. pc'[a] = "serving" /\ local'[a] = m
    BY <2>4 DEF Goto
  <2>8. Knows(a)'
    BY <2>1, <2>3, <2>4, <2>5, <2>6, <2>7 DEF Knows
  <2> QED BY <2>3, <2>4, <2>6, <2>8, StepTyped DEF TInv, TypeOK
<1>7. CASE Answered(a)
  BY <1>7, EndTyped DEF Answered
<1>8. CASE Cancel(a)
  <2>1. pin' = [pin EXCEPT ![a] = None] /\ Goto(a, "idle", Idle)
        /\ UNCHANGED <<now, active, refresh, generation, revision, overtaken, tree, lock>>
    BY <1>8 DEF Cancel
  <2>2. Knows(a)'
    BY <2>1, IdleTyped DEF Knows, Goto
  <2> QED BY <2>1, <2>2, IdleTyped, StepTyped DEF TInv, TypeOK
<1>9. CASE ExtendPin(a)
  <2> DEFINE m == [local[a] EXCEPT !.held = None]
             row == [pin[a] EXCEPT !.expires = pin[a].deadline]
  <2>1. pin[a] \in PinRow /\ local[a].gen \in Generations /\ local[a].at <= now /\ pin[a].gen = local[a].gen
    BY <1>9 DEF ExtendPin, Knows
  <2>2. lock' = Released(a) /\ UNCHANGED <<now, active, refresh, generation, revision, tree>>
    BY <1>9 DEF ExtendPin
  <2>3. row \in PinRow /\ row.gen = local[a].gen
    BY <2>1 DEF PinRow
  <2>4. m \in Local /\ m.gen = local[a].gen /\ m.at = local[a].at
    BY DEF Local
  <2>5. \/ /\ pin' = [pin EXCEPT ![a] = row] /\ overtaken' \subseteq Askers
           /\ Goto(a, "serving", m)
        \/ /\ pin' = [pin EXCEPT ![a] = None] /\ UNCHANGED overtaken /\ Goto(a, "idle", Idle)
    BY <1>9 DEF ExtendPin, Writes
  <2> HIDE DEF m, row
  <2>6. CASE pin' = [pin EXCEPT ![a] = row] /\ overtaken' \subseteq Askers /\ Goto(a, "serving", m)
    <3>1. pin'[a] = row /\ row # None /\ pin' \in [Askers -> PinRow \cup {None}]
          /\ \A b \in Askers \ {a} : pin'[b] = pin[b]
      BY <2>3, <2>6 DEF PinsAssumption
    <3>2. pc'[a] = "serving" /\ local'[a] = m
      BY <2>6 DEF Goto
    <3>3. Knows(a)'
      BY <2>1, <2>2, <2>3, <2>4, <3>1, <3>2 DEF Knows
    <3> QED BY <2>2, <2>4, <2>6, <3>1, <3>3, StepTyped DEF TInv, TypeOK
  <2>7. CASE pin' = [pin EXCEPT ![a] = None] /\ UNCHANGED overtaken /\ Goto(a, "idle", Idle)
    <3>1. Knows(a)'
      BY <2>2, <2>7, IdleTyped DEF Knows, Goto
    <3> QED BY <2>2, <2>7, <3>1, IdleTyped, StepTyped DEF TInv, TypeOK
  <2> QED BY <2>5, <2>6, <2>7
<1> QED BY <1>1, <1>2, <1>3, <1>4, <1>5, <1>6, <1>7, <1>8, <1>9 DEF Asks, Waits

LEMMA CollectorStepTyped ==
  ASSUME PinsAssumption, TInv, NEW c \in Collectors, Collect(c) \/ Collects(c) \/ Crash(c)
  PROVE  TInv'
<1>p. /\ c \in Actors /\ c \notin Askers /\ c # "builder" /\ local[c] \in Local
      /\ now \in 0..MaxTime /\ Knows(c) /\ pc[c] \in PCs
      /\ pc \in [Actors -> PCs] /\ local \in [Actors -> Local]
  BY DEF Actors, TInv, TypeOK, PinsAssumption
<1> USE <1>p DEF CollectorPCs, PCs
<1>0. pc[c] # "idle" => local[c].gen \in Generations /\ local[c].at <= now
  BY DEF Knows
<1>1. CASE Collect(c)
  <2>1. PICK g \in Generations : Goto(c, "generation", [Idle EXCEPT !.gen = g, !.at = now])
    BY <1>1 DEF Collect
  <2> DEFINE l == [Idle EXCEPT !.gen = g, !.at = now]
  <2>2. l \in Local /\ l.gen = g /\ l.at = now
    BY IdleTyped DEF Local
  <2>3. Goto(c, "generation", l)
    BY <2>1
  <2> HIDE DEF l
  <2>4. UNCHANGED <<now, rows, tree>> /\ lock' = Locked(c, "repository")
    BY <1>1 DEF Collect
  <2>5. l.gen \in Generations /\ l.at <= now
    BY <2>2
  <2> QED BY <2>2, <2>3, <2>4, <2>5, QuietTyped
<1>2. CASE CollectGeneration(c)
  BY <1>2, <1>0, QuietTyped DEF CollectGeneration
<1>3. CASE CollectRevision(c)
  BY <1>3, <1>0, QuietTyped DEF CollectRevision
<1>4. CASE CountPins(c)
  <2>1. CASE End(c)
    BY <1>4, <2>1, EndTyped DEF CountPins, End
  <2>2. CASE Goto(c, "claimed", local[c]) /\ UNCHANGED lock
    BY <1>4, <1>0, <2>2, QuietTyped DEF CountPins
  <2> QED BY <1>4, <2>1, <2>2 DEF CountPins
<1>5. CASE CountRevision(c)
  <2> DEFINE gives == GcMayDeleteWorktree(local[c].gen, Pinned(SharedPins(local[c].gen), local[c].at))
             l == [local[c] EXCEPT !.gives = gives]
  <2>1. gives \in BOOLEAN
    BY DEF GcMayDeleteWorktree
  <2>2. l \in Local /\ l.gen = local[c].gen /\ l.at = local[c].at
    <3> HIDE DEF gives
    <3> QED BY <2>1 DEF Local
  <2>3. Goto(c, "commit", l) /\ UNCHANGED <<now, rows, tree, lock>> /\ pc[c] = "claimed"
    BY <1>5 DEF CountRevision
  <2> HIDE DEF l
  <2> QED BY <1>0, <2>2, <2>3, QuietTyped
<1>6. CASE Claim(c)
  <2> DEFINE g == local[c].gen
             r == Revision[g]
             t == local[c].at
  <2>1. g \in Generations /\ r \in Revisions /\ t \in 0..MaxTime /\ t <= now
    BY <1>6, <1>0 DEF Claim, Local, PinsAssumption
  <2>2. /\ generation' = [generation EXCEPT ![g].claimed = TRUE] /\ lock' = Released(c)
        /\ UNCHANGED <<now, active, refresh, pin, overtaken, tree>>
        /\ \/ /\ revision' = [revision EXCEPT ![r] = [state |-> "deleting", lease |-> LeaseDeadline(t)]]
              /\ Goto(c, "finish", local[c])
           \/ UNCHANGED revision /\ Goto(c, "idle", Idle)
    BY <1>6 DEF Claim
  <2>3. [state |-> "deleting", lease |-> LeaseDeadline(t)] \in RevisionRow
    BY <2>1, DeadlineTyped DEF RevisionRow
  <2> HIDE DEF g, r, t
  <2>4. generation' \in [Generations -> GenerationRow]
    BY <2>1, <2>2 DEF TInv, TypeOK, GenerationRow
  <2>5. revision' \in [Revisions -> RevisionRow]
    BY <2>2, <2>3 DEF TInv, TypeOK
  <2>6. CASE Goto(c, "finish", local[c])
    <3>1. Knows(c)'
      BY <1>6, <1>0, <2>2, <2>6 DEF Claim, Knows, Goto
    <3> QED BY <2>2, <2>4, <2>5, <2>6, <3>1, StepTyped DEF TInv, TypeOK
  <2>7. CASE Goto(c, "idle", Idle)
    <3>1. Knows(c)'
      BY <2>2, <2>7, IdleTyped DEF Knows, Goto
    <3> QED BY <2>2, <2>4, <2>5, <2>7, <3>1, IdleTyped, StepTyped DEF TInv, TypeOK
  <2> QED BY <2>2, <2>6, <2>7
<1>7. CASE Finish(c)
  <2>1. CASE Goto(c, "idle", Idle)
    BY <1>7, <2>1, EndTyped DEF Finish
  <2>2. CASE Goto(c, "remove", local[c])
    BY <1>7, <1>0, <2>2, QuietTyped DEF Finish
  <2> QED BY <1>7, <2>1, <2>2 DEF Finish
<1>8. CASE RemoveTree(c)
  <2>1. Knows(c)'
    BY <1>8, <1>0 DEF RemoveTree, Knows, Goto, rows
  <2> QED BY <1>8, <2>1, StepTyped DEF RemoveTree, rows, TInv, TypeOK
<1>9. CASE CommitDeletion(c)
  <2> DEFINE r == Revision[local[c].gen]
  <2>1. revision' = [revision EXCEPT ![r].state = "absent"] /\ Goto(c, "idle", Idle)
        /\ UNCHANGED <<now, active, refresh, generation, pin, overtaken, tree, lock>>
    BY <1>9 DEF CommitDeletion
  <2> HIDE DEF r
  <2>2. revision' \in [Revisions -> RevisionRow]
    BY <2>1 DEF TInv, TypeOK, RevisionRow
  <2>3. Knows(c)'
    BY <2>1, IdleTyped DEF Knows, Goto
  <2> QED BY <2>1, <2>2, <2>3, IdleTyped, StepTyped DEF TInv, TypeOK
<1>10. CASE Crash(c)
  BY <1>10, EndTyped DEF Crash, End
<1> QED BY <1>1, <1>2, <1>3, <1>4, <1>5, <1>6, <1>7, <1>8, <1>9, <1>10 DEF Collects

LEMMA BuildStepTyped ==
  ASSUME PinsAssumption, TInv, (\E g \in Generations : Open(g)) \/ Builds \/ Publish \/ BuildFails
  PROVE  TInv'
<1> DEFINE b == "builder"
<1>p. /\ b \in Actors /\ b \notin Askers /\ b \notin Collectors /\ local[b] \in Local
      /\ now \in 0..MaxTime /\ Knows(b) /\ pc[b] \in PCs
      /\ pc \in [Actors -> PCs] /\ local \in [Actors -> Local]
  BY DEF Actors, TInv, TypeOK, PinsAssumption
<1>e. ASSUME Goto(b, "idle", Idle), UNCHANGED <<now, pin>> PROVE Knows(b)'
  BY <1>e, <1>p, IdleTyped DEF Knows, Goto, BuilderPCs
<1> USE <1>p DEF BuilderPCs, PCs
<1>1. ASSUME NEW g \in Generations, Open(g) PROVE TInv'
  <2> DEFINE l == [Idle EXCEPT !.gen = g]
  <2>1. l \in Local /\ l.gen = g /\ l.at = 0
    BY IdleTyped DEF Local, Idle
  <2>2. Goto(b, "begin", l) /\ UNCHANGED <<now, rows, tree>> /\ lock' = Locked(b, "repository")
    BY <1>1 DEF Open
  <2> HIDE DEF l
  <2>3. l.gen \in Generations /\ l.at <= now
    BY <2>1
  <2> QED BY <2>1, <2>2, <2>3, QuietTyped
<1>2. CASE Begin
  <2> DEFINE g == local[b].gen
             r == Revision[g]
  <2>1. g \in Generations /\ r \in Revisions
    BY <1>2 DEF Begin, Knows, PinsAssumption
  <2>2. /\ refresh' \in {refresh, g} /\ generation' \in {generation, [generation EXCEPT ![g].status = "pending"]}
        /\ revision' \in {revision, [revision EXCEPT ![r].state = "creating"]} /\ tree' \subseteq tree
        /\ lock' = Released(b) /\ Goto(b, "idle", Idle) /\ UNCHANGED <<now, active, pin, overtaken>>
    BY <1>2 DEF Begin, End
  <2> HIDE DEF g, r
  <2>3. generation' \in [Generations -> GenerationRow]
    BY <2>2 DEF TInv, TypeOK, GenerationRow
  <2>4. revision' \in [Revisions -> RevisionRow]
    BY <2>2 DEF TInv, TypeOK, RevisionRow
  <2> QED BY <1>e, <2>1, <2>2, <2>3, <2>4, IdleTyped, StepTyped DEF TInv, TypeOK
<1>3. CASE Publish
  <2> DEFINE r == Revision[refresh]
             l == [Idle EXCEPT !.gen = refresh]
  <2>1. refresh \in Generations /\ r \in Revisions
    BY <1>3 DEF Publish, PinsAssumption, TInv, TypeOK
  <2>2. l \in Local /\ l.gen = refresh /\ l.at = 0
    BY <2>1, IdleTyped DEF Local, Idle
  <2>3. /\ revision' = [revision EXCEPT ![r].state = "ready"] /\ tree' = tree \cup {r}
        /\ lock' = Locked(b, "repository") /\ Goto(b, "activate", l)
        /\ UNCHANGED <<now, active, refresh, generation, pin, overtaken>>
    BY <1>3 DEF Publish
  <2> HIDE DEF r, l
  <2>4. revision' \in [Revisions -> RevisionRow] /\ tree' \subseteq Revisions
    BY <2>1, <2>3 DEF TInv, TypeOK, RevisionRow
  <2>5. Knows(b)'
    <3>1. refresh' # None /\ l.at <= now
      BY <2>1, <2>2, <2>3 DEF PinsAssumption
    <3> QED BY <2>1, <2>2, <2>3, <3>1 DEF Knows, Goto
  <2> QED BY <2>2, <2>3, <2>4, <2>5, StepTyped DEF TInv, TypeOK
<1>4. CASE Activate
  <2>1. refresh \in Generations
    BY <1>4 DEF Activate, Knows, TInv, TypeOK
  <2>2. /\ generation' = [generation EXCEPT ![refresh].status = "ready", ![active].status = "retired"]
        /\ active' = refresh /\ refresh' = None /\ lock' = Released(b) /\ Goto(b, "idle", Idle)
        /\ UNCHANGED <<now, revision, pin, overtaken, tree>>
    BY <1>4 DEF Activate, End
  <2>3. generation' \in [Generations -> GenerationRow]
    BY <2>2 DEF TInv, TypeOK, GenerationRow
  <2> QED BY <1>e, <2>1, <2>2, <2>3, IdleTyped, StepTyped DEF TInv, TypeOK
<1>5. CASE BuildFails
  <2> DEFINE r == Revision[refresh]
  <2>1. refresh \in Generations /\ r \in Revisions
    BY <1>5 DEF BuildFails, PinsAssumption, TInv, TypeOK
  <2>2. /\ revision' = [revision EXCEPT ![r].state = IF @ = "creating" THEN "absent" ELSE @]
        /\ generation' = [generation EXCEPT ![refresh].status = "failed"] /\ refresh' = None
        /\ lock' = Released(b) /\ Goto(b, "idle", Idle)
        /\ UNCHANGED <<now, active, pin, overtaken, tree>>
    BY <1>5 DEF BuildFails, End
  <2> HIDE DEF r
  <2>3. generation' \in [Generations -> GenerationRow]
    BY <2>2 DEF TInv, TypeOK, GenerationRow
  <2>4. revision' \in [Revisions -> RevisionRow]
    BY <2>2 DEF TInv, TypeOK, RevisionRow
  <2> QED BY <1>e, <2>2, <2>3, <2>4, IdleTyped, StepTyped DEF TInv, TypeOK
<1> QED BY <1>1, <1>2, <1>3, <1>4, <1>5 DEF Builds

LEMMA NextTyped ==
  ASSUME PinsAssumption, TInv, [Next]_vars
  PROVE  TInv'
<1>1. CASE UNCHANGED vars
  BY <1>1 DEF vars, rows, TInv, TypeOK, Knows, LeaseDeadline
<1>2. ASSUME NEW p \in Actors, Aborts(p) PROVE TInv'
  BY <1>2, EndTyped DEF Aborts, End
<1>3. CASE Tick
  <2>1. now' \in 0..MaxTime /\ now' >= now
    BY <1>3 DEF Tick, TInv, TypeOK, PinsAssumption
  <2>2. UNCHANGED <<rows, tree, lock, pc, local>>
    BY <1>3 DEF Tick
  <2>3. TypeOK'
    BY <2>1, <2>2 DEF rows, TInv, TypeOK
  <2>4. \A p \in Actors : Knows(p)'
    <3> SUFFICES ASSUME NEW p \in Actors PROVE Knows(p)'
      OBVIOUS
    <3>1. local[p].at \in 0..MaxTime /\ now \in 0..MaxTime /\ Knows(p)
      BY DEF TInv, TypeOK, Local
    <3> QED BY <2>1, <2>2, <3>1 DEF Knows, rows, LeaseDeadline
  <2> QED BY <2>3, <2>4 DEF TInv
<1> QED BY <1>1, <1>2, <1>3, AskerStepTyped, CollectorStepTyped, BuildStepTyped DEF Next

\* Rows, pins, locks and copies are of their types in every reachable state, and a question
\* that is served, or renews its pin, has one on the generation it reads: _renew reads the
\* pin without looking for None.
THEOREM TypeCorrect ==
  ASSUME PinsAssumption
  PROVE  Spec => []TypeOK
<1>1. Init => TInv
  BY InitTyped
<1>2. TInv /\ [Next]_vars => TInv'
  BY NextTyped
<1>3. TInv => TypeOK
  BY DEF TInv
<1> QED BY <1>1, <1>2, <1>3, PTL DEF Spec

-----------------------------------------------------------------------------
(* Locks *)

TreeOf(p) == Revision[local[p].gen]

\* The rows a session has locked, by where it is.
Holding(p) ==
    CASE pc[p] \in {"generation", "begin", "activate"} -> {"repository"}
      [] pc[p] = "revision" -> {"repository", local[p].gen}
      [] pc[p] \in {"count", "claimed", "commit"} -> {"repository", local[p].gen, TreeOf(p)}
      [] pc[p] \in {"insert", "extend"} -> {local[p].gen}
      [] pc[p] = "flush" -> {local[p].gen, TreeOf(p)}
      [] OTHER -> {}

LocksHeld == \A p \in Actors : \A row \in Holding(p) : lock[row] = p

\* A row has one holder, and who may lock it is not hindered by another.
LEMMA OneHolder ==
  ASSUME PinsAssumption, LocksHeld, NEW p \in Actors, NEW q \in Actors, NEW row \in Holding(p),
         row \in Holding(q) \/ Free(q, row)
  PROVE  p = q
  BY DEF PinsAssumption, LocksHeld, Free

\* A step of p in which it locks a free row, or lets go of all, takes no row from others.
LEMMA LockStep ==
  ASSUME PinsAssumption, TInv, LocksHeld, NEW p \in Actors, NEW at, NEW l, Goto(p, at, l),
         \/ lock' = lock
         \/ lock' = Released(p)
         \/ \E row \in Rows : Free(p, row) /\ lock' = Locked(p, row),
         \A row \in Holding(p)' : lock'[row] = p
  PROVE  LocksHeld'
<1>1. \A q \in Actors \ {p} : pc'[q] = pc[q] /\ local'[q] = local[q]
  BY DEF Goto, TInv, TypeOK
<1>2. \A q \in Actors \ {p} : Holding(q)' = Holding(q)
  BY <1>1 DEF Holding, TreeOf
<1>3. \A q \in Actors \ {p} : Holding(q) \subseteq Rows
  BY DEF Holding, TreeOf, Rows, TInv, Knows, PinsAssumption
<1>4. \A q \in Actors \ {p} : \A row \in Rows : lock[row] = q => lock'[row] = q
  <2>1. CASE lock' = Released(p)
    BY <2>1 DEF Released
  <2>2. ASSUME NEW row \in Rows, Free(p, row), lock' = Locked(p, row)
        PROVE  \A q \in Actors \ {p} : \A o \in Rows : lock[o] = q => lock'[o] = q
    BY <2>2 DEF Free, Locked, TInv, TypeOK, PinsAssumption
  <2> QED BY <2>1, <2>2
<1> QED BY <1>2, <1>3, <1>4 DEF LocksHeld

\* Where nothing is held nothing need be.
LEMMA FreeStep ==
  ASSUME PinsAssumption, TInv, LocksHeld, NEW p \in Actors, NEW at, NEW l, Goto(p, at, l),
         lock' = lock \/ lock' = Released(p),
         at \in {"idle", "pin", "serving", "renew", "finish", "remove", "removed"}
  PROVE  LocksHeld'
<1>1. pc'[p] = at
  BY DEF Goto, TInv, TypeOK
<1>2. Holding(p)' = {}
  BY <1>1 DEF Holding
<1> QED BY <1>2, LockStep

LEMMA LocksKept ==
  ASSUME PinsAssumption, TInv, LocksHeld, [Next]_vars
  PROVE  LocksHeld'
<1>g. ASSUME NEW p \in Actors, pc[p] # "idle"
      PROVE  local[p].gen \in Generations /\ local[p].gen \in Rows /\ TreeOf(p) \in Rows
             /\ "repository" \in Rows
  BY <1>g DEF TInv, Knows, Rows, TreeOf, PinsAssumption
<1>s. ASSUME NEW p \in Actors, NEW at, Goto(p, at, local[p]) \/ \E l : l.gen = local[p].gen /\ Goto(p, at, l)
      PROVE  pc'[p] = at /\ local'[p].gen = local[p].gen /\ TreeOf(p)' = TreeOf(p)
  BY <1>s DEF Goto, TInv, TypeOK, TreeOf
<1>l. ASSUME NEW p \in Actors, NEW row \in Rows, lock' = Locked(p, row)
      PROVE  lock'[row] = p /\ \A o \in Rows : lock[o] = p => lock'[o] = p
  BY <1>l DEF Locked, TInv, TypeOK
<1>h. \A p \in Actors : \A row \in Holding(p) : lock[row] = p
  BY DEF LocksHeld
<1>1. CASE UNCHANGED vars
  BY <1>1 DEF vars, LocksHeld, Holding, TreeOf
<1>2. ASSUME NEW a \in Askers, Ask(a) \/ Load(a) \/ StartRenewal(a) \/ Asks(a) PROVE LocksHeld'
  <2>a. a \in Actors
    BY DEF Actors
  <2>1. CASE Ask(a) \/ Load(a) \/ StartRenewal(a) \/ Answered(a) \/ Cancel(a)
    BY <2>a, <2>1, FreeStep DEF Ask, Load, StartRenewal, Answered, Cancel
  <2>2. CASE InsertPin(a) \/ ExtendPin(a)
    BY <2>a, <2>2, FreeStep DEF InsertPin, ExtendPin
  <2>3. CASE LockGeneration(a)
    <3>1. pc[a] # "idle" /\ lock' = Locked(a, local[a].gen) /\ Free(a, local[a].gen)
          /\ \E at \in {"insert", "extend"} : Goto(a, at, local[a])
      BY <2>3 DEF LockGeneration
    <3>2. PICK at \in {"insert", "extend"} : Goto(a, at, local[a])
      BY <3>1
    <3>3. Holding(a)' = {local[a].gen}
      BY <2>a, <3>2, <1>s DEF Holding
    <3>4. lock'[local[a].gen] = a
      BY <2>a, <3>1, <1>g, <1>l
    <3> QED BY <2>a, <3>1, <3>2, <3>3, <3>4, <1>g, LockStep
  <2>4. CASE DecidePin(a)
    <3>1. CASE End(a)
      BY <2>a, <3>1, FreeStep DEF End
    <3>2. CASE lock' = Locked(a, TreeOf(a)) /\ Goto(a, "flush", local[a])
      <4>1. pc[a] = "insert" /\ Free(a, TreeOf(a))
        BY <2>4 DEF DecidePin, TreeOf
      <4>2. Holding(a)' = {local[a].gen, TreeOf(a)}
        BY <2>a, <3>2, <1>s DEF Holding
      <4>3. lock[local[a].gen] = a
        BY <2>a, <4>1, <1>h DEF Holding
      <4>4. lock'[local[a].gen] = a /\ lock'[TreeOf(a)] = a
        BY <2>a, <3>2, <4>1, <4>3, <1>g, <1>l
      <4> QED BY <2>a, <3>2, <4>1, <4>2, <4>4, <1>g, LockStep
    <3> QED BY <2>4, <3>1, <3>2 DEF DecidePin, TreeOf
  <2> QED BY <1>2, <2>1, <2>2, <2>3, <2>4 DEF Asks, Waits
<1>3. ASSUME NEW c \in Collectors, Collect(c) \/ Collects(c) \/ Crash(c) PROVE LocksHeld'
  <2>a. c \in Actors
    BY DEF Actors
  <2>1. CASE Collect(c)
    <3>1. PICK l : Goto(c, "generation", l)
      BY <2>1 DEF Collect
    <3>2. Holding(c)' = {"repository"}
      BY <2>a, <3>1 DEF Holding, Goto, TInv, TypeOK
    <3>3. Free(c, "repository") /\ lock' = Locked(c, "repository") /\ "repository" \in Rows
      BY <2>1 DEF Collect, Rows
    <3>4. lock'["repository"] = c
      BY <2>a, <3>3, <1>l
    <3> QED BY <2>a, <3>1, <3>2, <3>3, <3>4, LockStep
  <2>2. CASE CollectGeneration(c)
    <3>1. pc[c] = "generation" /\ lock' = Locked(c, local[c].gen) /\ Free(c, local[c].gen)
          /\ Goto(c, "revision", local[c])
      BY <2>2 DEF CollectGeneration
    <3>2. Holding(c)' = {"repository", local[c].gen}
      BY <2>a, <3>1, <1>s DEF Holding
    <3>3. lock["repository"] = c
      BY <2>a, <3>1, <1>h DEF Holding
    <3>4. lock'["repository"] = c /\ lock'[local[c].gen] = c
      BY <2>a, <3>1, <3>3, <1>g, <1>l
    <3> QED BY <2>a, <3>1, <3>2, <3>4, <1>g, LockStep
  <2>3. CASE CollectRevision(c)
    <3>1. pc[c] = "revision" /\ lock' = Locked(c, TreeOf(c)) /\ Free(c, TreeOf(c))
          /\ Goto(c, "count", local[c])
      BY <2>3 DEF CollectRevision, TreeOf
    <3>2. Holding(c)' = {"repository", local[c].gen, TreeOf(c)}
      BY <2>a, <3>1, <1>s DEF Holding
    <3>3. lock["repository"] = c /\ lock[local[c].gen] = c
      BY <2>a, <3>1, <1>h DEF Holding
    <3>4. lock'["repository"] = c /\ lock'[local[c].gen] = c /\ lock'[TreeOf(c)] = c
      BY <2>a, <3>1, <3>3, <1>g, <1>l
    <3> QED BY <2>a, <3>1, <3>2, <3>4, <1>g, LockStep
  <2>4. ASSUME NEW at \in {"claimed", "commit"}, NEW l, Goto(c, at, l), l.gen = local[c].gen,
               pc[c] \in {"count", "claimed"}, UNCHANGED lock
        PROVE  LocksHeld'
    <3>1. Holding(c)' = Holding(c)
      BY <2>a, <2>4, <1>s DEF Holding
    <3> QED BY <2>a, <2>4, <3>1, <1>h, LockStep
  <2>5. CASE CountPins(c)
    <3>1. CASE End(c)
      BY <2>a, <3>1, FreeStep DEF End
    <3> QED BY <2>4, <2>5, <3>1 DEF CountPins
  <2>6. CASE CountRevision(c)
    <3> DEFINE l == [local[c] EXCEPT !.gives =
                        GcMayDeleteWorktree(local[c].gen, Pinned(SharedPins(local[c].gen), local[c].at))]
    <3>1. l.gen = local[c].gen
      BY <2>a DEF TInv, TypeOK, Local
    <3>2. Goto(c, "commit", l) /\ pc[c] = "claimed" /\ UNCHANGED lock
      BY <2>6 DEF CountRevision
    <3> HIDE DEF l
    <3> QED BY <2>4, <3>1, <3>2
  <2>7. CASE Claim(c) \/ Finish(c) \/ RemoveTree(c) \/ CommitDeletion(c) \/ Crash(c)
    BY <2>a, <2>7, FreeStep DEF Claim, Finish, RemoveTree, CommitDeletion, Crash, End
  <2> QED BY <1>3, <2>1, <2>2, <2>3, <2>5, <2>6, <2>7 DEF Collects
<1>4. ASSUME (\E g \in Generations : Open(g)) \/ Builds \/ Publish \/ BuildFails PROVE LocksHeld'
  <2>a. "builder" \in Actors
    BY DEF Actors
  <2>1. CASE (\E g \in Generations : Open(g)) \/ Publish
    <3>1. PICK at \in {"begin", "activate"} : \E l : Goto("builder", at, l)
      BY <2>1 DEF Open, Publish
    <3>2. PICK l : Goto("builder", at, l)
      BY <3>1
    <3>3. Free("builder", "repository") /\ lock' = Locked("builder", "repository") /\ "repository" \in Rows
      BY <2>1 DEF Open, Publish, Rows
    <3>4. Holding("builder")' = {"repository"}
      BY <2>a, <3>2 DEF Holding, Goto, TInv, TypeOK
    <3>5. lock'["repository"] = "builder"
      BY <2>a, <3>3, <1>l
    <3> QED BY <2>a, <3>2, <3>3, <3>4, <3>5, LockStep
  <2>2. CASE Builds \/ BuildFails
    BY <2>a, <2>2, FreeStep DEF Builds, Begin, Activate, BuildFails, End
  <2> QED BY <1>4, <2>1, <2>2
<1>5. ASSUME NEW p \in Actors, Aborts(p) PROVE LocksHeld'
  BY <1>5, FreeStep DEF Aborts, End
<1>6. CASE Tick
  BY <1>6 DEF Tick, LocksHeld, Holding, TreeOf
<1> QED BY <1>1, <1>2, <1>3, <1>4, <1>5, <1>6 DEF Next

-----------------------------------------------------------------------------
(* Claims in flight *)

\* What a collector has counted is still so when it commits.
CountsHold(c) ==
    /\ pc[c] \in {"claimed", "commit"} => GcMayClaim(local[c].gen, Pinned({local[c].gen}, local[c].at))
    /\ pc[c] = "commit" /\ local[c].gives =>
           GcMayDeleteWorktree(local[c].gen, Pinned(SharedPins(local[c].gen), local[c].at))

InFlight == \A c \in Collectors : CountsHold(c)

\* Steps that leave the generations, the tree that c counts on and its pins alone.
LEMMA CountsKept ==
  ASSUME PinsAssumption, TInv, TInv', NEW c \in Collectors, CountsHold(c), pc'[c] = pc[c], local'[c] = local[c],
         UNCHANGED <<active, refresh, generation>>,
         pc[c] \in {"claimed", "commit"} => revision'[TreeOf(c)] = revision[TreeOf(c)],
         pc[c] \in {"claimed", "commit"} =>
             \A a \in Askers : pin'[a] # None /\ Revision[pin'[a].gen] = TreeOf(c) => pin'[a] = pin[a]
  PROVE  CountsHold(c)'
<1> SUFFICES ASSUME pc[c] \in {"claimed", "commit"} PROVE CountsHold(c)'
  BY DEF CountsHold
<1>1. local[c].gen \in Generations
  BY DEF TInv, Knows, Actors
<1>2. \A a \in Askers : pin'[a] # None => pin'[a].gen \in Generations
  BY DEF TInv, TypeOK, PinRow
<1>3. ASSUME NEW gs \in SUBSET SharedPins(local[c].gen), Pinned(gs, local[c].at)'
      PROVE  Pinned(gs, local[c].at)
  <2>1. PICK a \in Askers : pin'[a] # None /\ pin'[a].gen \in gs /\ pin'[a].expires > local[c].at
    BY <1>3 DEF Pinned
  <2>2. Revision[pin'[a].gen] = TreeOf(c)
    BY <1>3, <2>1 DEF SharedPins, TreeOf
  <2>3. pin'[a] = pin[a]
    BY <2>1, <2>2
  <2> QED BY <2>1, <2>3 DEF Pinned
<1>4. {local[c].gen} \subseteq SharedPins(local[c].gen) /\ SharedPins(local[c].gen)' = SharedPins(local[c].gen)
  BY <1>1 DEF SharedPins
<1>5. GcMayClaim(local[c].gen, Pinned({local[c].gen}, local[c].at))'
  <2>1. Pinned({local[c].gen}, local[c].at)' => Pinned({local[c].gen}, local[c].at)
    BY <1>3, <1>4 DEF Pinned
  <2> QED BY <2>1 DEF CountsHold, GcMayClaim, TreeOf
<1>6. ASSUME pc[c] = "commit", local[c].gives
      PROVE  GcMayDeleteWorktree(local[c].gen, Pinned(SharedPins(local[c].gen), local[c].at))'
  <2>1. Pinned(SharedPins(local[c].gen), local[c].at)' => Pinned(SharedPins(local[c].gen), local[c].at)
    BY <1>3, <1>4 DEF Pinned
  <2>2. GcMayDeleteWorktree(local[c].gen, Pinned(SharedPins(local[c].gen), local[c].at))
    BY <1>6 DEF CountsHold
  <2>3. OtherLive(local[c].gen)' = OtherLive(local[c].gen)
    BY <1>4 DEF OtherLive
  <2> QED BY <2>1, <2>2, <2>3 DEF GcMayDeleteWorktree, TreeOf
<1> QED BY <1>5, <1>6 DEF CountsHold

\* A collector that has counted holds the repository, so that nobody inserts a pin, builds or
\* commits another claim, and the revision, so that nobody renews a pin of it.
LEMMA InFlightKept ==
  ASSUME PinsAssumption, TInv, LocksHeld, InFlight, [Next]_vars
  PROVE  InFlight'
<1>t. TInv'
  BY NextTyped
<1>s. ASSUME NEW p \in Actors, NEW at, NEW l, Goto(p, at, l)
      PROVE  /\ pc'[p] = at /\ local'[p] = l
             /\ \A q \in Actors \ {p} : pc'[q] = pc[q] /\ local'[q] = local[q]
  BY <1>s DEF Goto, TInv, TypeOK
<1>a. \A c \in Collectors : c \in Actors /\ c \notin Askers /\ c # "builder"
  BY DEF Actors, PinsAssumption
<1>h. ASSUME NEW c \in Collectors, pc[c] \in {"claimed", "commit"}
      PROVE  "repository" \in Holding(c) /\ TreeOf(c) \in Holding(c)
  BY <1>h DEF Holding
<1>i. ASSUME NEW c \in Collectors, pc'[c] \notin {"claimed", "commit"} PROVE CountsHold(c)'
  BY <1>i DEF CountsHold
<1>1. CASE UNCHANGED vars
  BY <1>1, <1>t, CountsKept DEF vars, rows, InFlight
<1>2. ASSUME NEW a \in Askers, Ask(a) \/ Load(a) \/ StartRenewal(a) \/ Asks(a), NEW c \in Collectors
      PROVE  CountsHold(c)'
  <2>a. a \in Actors /\ c \in Actors /\ a # c
    BY <1>a DEF Actors
  <2>1. \E at : \E l : Goto(a, at, l)
    BY <1>2 DEF Ask, Load, StartRenewal, Asks, Waits, LockGeneration, DecidePin, InsertPin, ExtendPin,
                Answered, Cancel, End
  <2>2. pc'[c] = pc[c] /\ local'[c] = local[c]
    BY <1>s, <2>a, <2>1
  <2>3. UNCHANGED <<active, refresh, generation, revision>>
    BY <1>2 DEF Ask, Load, StartRenewal, Asks, Waits, LockGeneration, DecidePin, InsertPin, ExtendPin,
                Answered, Cancel, rows
  <2>4. ASSUME pc[c] \in {"claimed", "commit"}, NEW b \in Askers, pin'[b] # None,
               Revision[pin'[b].gen] = TreeOf(c)
        PROVE  pin'[b] = pin[b]
    <3>1. CASE UNCHANGED pin
      BY <3>1
    <3>2. CASE InsertPin(a)
      BY <3>2, <2>a, <2>4, <1>h, OneHolder DEF InsertPin
    <3>3. CASE Cancel(a)
      BY <3>3, <2>4 DEF Cancel, TInv, TypeOK
    <3>4. CASE ExtendPin(a)
      <4>1. TreeOf(a) # TreeOf(c)
        BY <3>4, <2>a, <2>4, <1>h, OneHolder DEF ExtendPin, TreeOf
      <4>2. pin[a] \in PinRow /\ pin[a].gen = local[a].gen
        BY <3>4, <2>a DEF ExtendPin, TInv, TypeOK, Knows
      <4> DEFINE row == [pin[a] EXCEPT !.expires = pin[a].deadline]
      <4>3. row.gen = local[a].gen
        BY <4>2 DEF PinRow
      <4>4. pin' \in {[pin EXCEPT ![a] = row], [pin EXCEPT ![a] = None]}
        BY <3>4 DEF ExtendPin, Writes
      <4> HIDE DEF row
      <4>5. b # a
        BY <2>4, <4>1, <4>3, <4>4 DEF TInv, TypeOK, TreeOf
      <4> QED BY <4>4, <4>5 DEF TInv, TypeOK
    <3> QED BY <1>2, <3>1, <3>2, <3>3, <3>4 DEF Ask, Load, StartRenewal, Asks, Waits, LockGeneration,
                DecidePin, Answered, rows
  <2> QED BY <1>t, <2>2, <2>3, <2>4, CountsKept DEF InFlight
<1>3. ASSUME NEW d \in Collectors, Collect(d) \/ Collects(d) \/ Crash(d), NEW c \in Collectors
      PROVE  CountsHold(c)'
  <2>a. c \in Actors /\ d \in Actors
    BY <1>a
  <2>u. active' = active /\ refresh' = refresh /\ pin' = pin
    BY <1>3 DEF Collect, Collects, Crash, CollectGeneration, CollectRevision, CountPins, CountRevision,
                Claim, Finish, RemoveTree, CommitDeletion, rows
  <2>1. CASE c = d
    <3>1. CASE CountPins(c)
      <4>1. CASE End(c)
        BY <2>a, <4>1, <1>s, <1>i DEF End
      <4>2. CASE GcMayClaim(local[c].gen, Pinned({local[c].gen}, local[c].at)) /\ Goto(c, "claimed", local[c])
        <5>1. pc'[c] = "claimed" /\ local'[c] = local[c]
          BY <2>a, <4>2, <1>s
        <5>2. UNCHANGED rows
          BY <3>1 DEF CountPins
        <5> QED BY <4>2, <5>1, <5>2 DEF CountsHold, GcMayClaim, Pinned, rows
      <4> QED BY <3>1, <4>1, <4>2 DEF CountPins
    <3>2. CASE CountRevision(c)
      <4> DEFINE gives == GcMayDeleteWorktree(local[c].gen, Pinned(SharedPins(local[c].gen), local[c].at))
      <4>1. pc'[c] = "commit" /\ local'[c] = [local[c] EXCEPT !.gives = gives]
        BY <2>a, <3>2, <1>s DEF CountRevision
      <4>2. local'[c].gen = local[c].gen /\ local'[c].at = local[c].at /\ local'[c].gives = gives
        BY <2>a, <4>1 DEF TInv, TypeOK, Local
      <4>3. UNCHANGED rows /\ pc[c] = "claimed"
        BY <3>2 DEF CountRevision
      <4>4. GcMayClaim(local[c].gen, Pinned({local[c].gen}, local[c].at))
        BY <4>3 DEF InFlight, CountsHold
      <4>5. GcMayClaim(local[c].gen, Pinned({local[c].gen}, local[c].at))'
        BY <4>2, <4>3, <4>4 DEF GcMayClaim, Pinned, rows
      <4>6. gives' = gives
        BY <4>2, <4>3 DEF GcMayDeleteWorktree, OtherLive, SharedPins, Pinned, rows
      <4> QED BY <4>1, <4>2, <4>5, <4>6 DEF CountsHold
    <3>3. CASE ~(CountPins(c) \/ CountRevision(c))
      <4>1. PICK at \in {"generation", "revision", "count", "finish", "remove", "removed", "idle"} :
               \E l : Goto(c, at, l)
        BY <1>3, <2>1, <3>3 DEF Collect, Collects, Crash, CollectGeneration, CollectRevision,
                  Claim, Finish, RemoveTree, CommitDeletion, End
      <4>2. pc'[c] = at
        BY <2>a, <4>1, <1>s
      <4> QED BY <4>2, <1>i
    <3> QED BY <3>1, <3>2, <3>3
  <2>2. CASE c # d
    <3>1. \E at : \E l : Goto(d, at, l)
      BY <1>3 DEF Collect, Collects, Crash, CollectGeneration, CollectRevision, CountPins, CountRevision,
                  Claim, Finish, RemoveTree, CommitDeletion, End
    <3>2. pc'[c] = pc[c] /\ local'[c] = local[c]
      BY <2>a, <2>2, <3>1, <1>s
    <3> SUFFICES ASSUME pc[c] \in {"claimed", "commit"} PROVE CountsHold(c)'
      BY <3>2, <1>i
    <3>3. ~Claim(d)
      BY <2>a, <2>2, <1>h, OneHolder DEF Claim, Holding
    <3>4. generation' = generation
      BY <1>3, <3>3 DEF Collect, Collects, Crash, CollectGeneration, CollectRevision, CountPins, CountRevision,
                  Finish, RemoveTree, CommitDeletion, rows
    <3>5. revision'[TreeOf(c)] = revision[TreeOf(c)]
      <4>1. CASE CommitDeletion(d)
        <5>1. TreeOf(d) # TreeOf(c)
          BY <2>a, <2>2, <4>1, <1>h, OneHolder DEF CommitDeletion, TreeOf
        <5> QED BY <4>1, <5>1 DEF CommitDeletion, TreeOf
      <4>2. CASE UNCHANGED revision
        BY <4>2
      <4> QED BY <1>3, <3>3, <4>1, <4>2 DEF Collect, Collects, Crash, CollectGeneration, CollectRevision,
                  CountPins, CountRevision, Finish, RemoveTree, rows
    <3> QED BY <1>t, <2>u, <3>2, <3>4, <3>5, CountsKept DEF InFlight
  <2> QED BY <2>1, <2>2
<1>4. ASSUME (\E g \in Generations : Open(g)) \/ Builds \/ Publish \/ BuildFails, NEW c \in Collectors
      PROVE  CountsHold(c)'
  <2>a. c \in Actors /\ "builder" \in Actors /\ c # "builder"
    BY <1>a DEF Actors
  <2>1. \E at : \E l : Goto("builder", at, l)
    BY <1>4 DEF Open, Builds, Begin, Activate, Publish, BuildFails, End
  <2>2. pc'[c] = pc[c]
    BY <2>a, <2>1, <1>s
  <2> SUFFICES ASSUME pc[c] \in {"claimed", "commit"} PROVE FALSE
    BY <2>2, <1>i
  <2>3. \/ Free("builder", "repository")
        \/ "repository" \in Holding("builder")
    BY <1>4 DEF Open, Builds, Begin, Activate, Publish, BuildFails, Holding
  <2> QED BY <2>a, <2>3, <1>h, OneHolder
<1>5. ASSUME NEW p \in Actors, Aborts(p), NEW c \in Collectors PROVE CountsHold(c)'
  <2>1. UNCHANGED rows /\ Goto(p, "idle", Idle)
    BY <1>5 DEF Aborts, End
  <2>2. CASE p = c
    BY <1>a, <2>1, <2>2, <1>s, <1>i
  <2>3. CASE p # c
    <3>1. pc'[c] = pc[c] /\ local'[c] = local[c]
      BY <1>a, <2>1, <2>3, <1>s
    <3> QED BY <1>t, <2>1, <3>1, CountsKept DEF InFlight, rows
  <2> QED BY <2>2, <2>3
<1>6. ASSUME Tick, NEW c \in Collectors PROVE CountsHold(c)'
  BY <1>6, <1>t, CountsKept DEF InFlight, Tick, rows
<1> QED BY <1>1, <1>2, <1>3, <1>4, <1>5, <1>6 DEF Next, InFlight

-----------------------------------------------------------------------------
(* Trees, builds, deletions and pins *)

\* Whose deletion may still touch the tree.
Deleting(c) == pc[c] \in {"finish", "remove", "removed"} /\ InLease(c)

\* In its lease, a deletion finds the row as its claim left it, and is the only one of its
\* tree; past it, nobody touches the tree any more.
Deletions ==
    /\ \A c \in Collectors : Deleting(c) =>
           /\ revision[TreeOf(c)].state = "deleting"
           /\ revision[TreeOf(c)].lease = LeaseDeadline(local[c].at)
    /\ \A c, d \in Collectors : Deleting(c) /\ Deleting(d) /\ TreeOf(c) = TreeOf(d) => c = d
    /\ \A c \in Collectors : pc[c] \in {"remove", "removed"} => Deleting(c)

\* The active generation is ready, and the one that is built is not it: a build has its
\* revision, so that no claim takes the tree away from under it.
BuildState ==
    /\ generation[active].status = "ready" /\ revision[Revision[active]].state = "ready"
    /\ refresh # None =>
           /\ generation[refresh].status = "pending"
           /\ revision[Revision[refresh]].state \in {"creating", "ready"}
    /\ pc["builder"] = "begin" => refresh = None /\ generation[local["builder"].gen].status = "none"
    /\ pc["builder"] = "activate" => revision[Revision[refresh]].state = "ready"

\* A revision is ready only with its tree in place.
ReadyTrees == \A r \in Revisions : revision[r].state = "ready" => r \in tree

PinsHold ==
    \A a \in Askers : pin[a] # None /\ Live(pin[a], now) /\ a \notin overtaken => ~Overtaken(pin[a].gen)

IInv == TInv /\ LocksHeld /\ InFlight /\ Deletions /\ BuildState /\ ReadyTrees /\ PinsHold

LEMMA InitIInv ==
  ASSUME PinsAssumption, Init
  PROVE  IInv
<1>1. TInv
  BY InitTyped
<1>2. BuildState /\ ReadyTrees
  BY DEF Init, BuildState, ReadyTrees, PinsAssumption, Actors
<1>3. Deletions /\ LocksHeld /\ InFlight /\ PinsHold
  BY DEF Init, Deletions, Deleting, LocksHeld, Holding, InFlight, CountsHold, PinsHold, Actors
<1> QED BY <1>1, <1>2, <1>3 DEF IInv

\* The steps that write none of the rows these invariants speak of, and start no deletion.
LEMMA QuietState ==
  ASSUME PinsAssumption, IInv, NEW p \in Actors, NEW at \in PCs, NEW l \in Local, Goto(p, at, l),
         UNCHANGED <<now, rows, tree>>, TInv',
         at \notin {"finish", "remove", "removed"}, at # "activate",
         at = "begin" => refresh = None /\ generation[l.gen].status = "none"
  PROVE  (Deletions /\ BuildState /\ ReadyTrees /\ PinsHold)'
<1> USE DEF IInv, TInv, TypeOK
<1>1. /\ pc'[p] = at /\ local'[p] = l
      /\ \A q \in Actors \ {p} : pc'[q] = pc[q] /\ local'[q] = local[q]
  BY DEF Goto
<1>2. ReadyTrees' /\ PinsHold'
  BY DEF ReadyTrees, PinsHold, Overtaken, rows
<1>3. BuildState'
  BY <1>1 DEF BuildState, Actors, rows
<1>4. \A q \in Collectors : Deleting(q)' => q # p /\ Deleting(q) /\ TreeOf(q)' = TreeOf(q)
  BY <1>1 DEF Deleting, InLease, TreeOf, Actors
<1>5. \A q \in Collectors : pc'[q] \in {"remove", "removed"} => Deleting(q)'
  BY <1>1 DEF Deletions, Deleting, InLease, Actors
<1>6. Deletions'
  BY <1>1, <1>4, <1>5 DEF Deletions, rows, Actors
<1> QED BY <1>2, <1>3, <1>6

\* Deletions outlive what does not touch their trees.
LEMMA DeletionsKept ==
  ASSUME PinsAssumption, IInv, now' = now,
         \A d \in Collectors : pc'[d] # "idle" => pc'[d] = pc[d] /\ local'[d] = local[d],
         \A d \in Collectors : Deleting(d) /\ pc'[d] # "idle" => revision'[TreeOf(d)] = revision[TreeOf(d)]
  PROVE  Deletions'
<1>1. \A d \in Collectors : Deleting(d)' => Deleting(d) /\ TreeOf(d)' = TreeOf(d) /\ local'[d] = local[d]
  BY DEF Deleting, InLease, TreeOf
<1>2. \A d \in Collectors : Deleting(d)' => pc'[d] # "idle"
  BY DEF Deleting
<1>3. \A d \in Collectors : pc'[d] \in {"remove", "removed"} => Deleting(d)'
  BY DEF IInv, Deletions, Deleting, InLease
<1>4. \A d \in Collectors : Deleting(d)' =>
          revision'[TreeOf(d)'].state = "deleting" /\ revision'[TreeOf(d)'].lease = LeaseDeadline(local'[d].at)
  BY <1>1, <1>2 DEF IInv, Deletions
<1>5. \A c, d \in Collectors : Deleting(c)' /\ Deleting(d)' /\ TreeOf(c)' = TreeOf(d)' => c = d
  BY <1>1 DEF IInv, Deletions
<1> QED BY <1>3, <1>4, <1>5 DEF Deletions

LEMMA AskerStep ==
  ASSUME PinsAssumption, IInv, NEW a \in Askers, Ask(a) \/ Load(a) \/ StartRenewal(a) \/ Asks(a)
  PROVE  (Deletions /\ BuildState /\ ReadyTrees /\ PinsHold)'
<1> USE DEF IInv
<1>a. /\ a \in Actors /\ a \notin Collectors /\ a # "builder" /\ "builder" \in Actors
      /\ pin \in [Askers -> PinRow \cup {None}] /\ pc \in [Actors -> PCs]
  BY DEF Actors, TInv, TypeOK, PinsAssumption
<1>1. UNCHANGED <<now, active, refresh, generation, revision, tree>>
  BY DEF Ask, Load, StartRenewal, Asks, Waits, LockGeneration, DecidePin, InsertPin, ExtendPin,
         Answered, Cancel, rows
<1>2. \E at : \E l : Goto(a, at, l)
  BY DEF Ask, Load, StartRenewal, Asks, Waits, LockGeneration, DecidePin, InsertPin, ExtendPin,
         Answered, Cancel, End
<1>3. \A q \in Actors \ {a} : pc'[q] = pc[q] /\ local'[q] = local[q]
  BY <1>2 DEF Goto, TInv, TypeOK
<1>4. Deletions'
  BY <1>1, <1>3, <1>a, DeletionsKept DEF Actors
<1>5. BuildState' /\ ReadyTrees'
  BY <1>1, <1>3, <1>a DEF BuildState, ReadyTrees
<1>6. PinsHold'
  <2>1. ASSUME UNCHANGED overtaken, pin' = pin \/ pin' = [pin EXCEPT ![a] = None]
        PROVE  PinsHold'
    BY <1>1, <1>a, <2>1 DEF PinsHold, Overtaken
  <2>2. ASSUME NEW row, Writes(a, row)
        PROVE  PinsHold'
    <3>1. pin'[a] = row /\ \A b \in Askers \ {a} : pin'[b] = pin[b]
      BY <1>a, <2>2 DEF Writes
    <3>2. a \notin overtaken' => ~Overtaken(row.gen)
      BY <2>2 DEF Writes
    <3>3. \A b \in Askers \ {a} : b \in overtaken' <=> b \in overtaken
      BY <2>2 DEF Writes
    <3>4. \A b \in Askers : Overtaken(pin[b].gen)' <=> Overtaken(pin'[b].gen)
      BY <1>1 DEF Overtaken
    <3>5. ASSUME NEW b \in Askers, pin'[b] # None, Live(pin'[b], now'), b \notin overtaken'
          PROVE  ~Overtaken(pin[b].gen)'
      <4>1. CASE b = a
        BY <3>1, <3>2, <3>4, <3>5, <4>1
      <4>2. CASE b # a
        BY <1>1, <3>1, <3>3, <3>4, <3>5, <4>2 DEF PinsHold
      <4> QED BY <4>1, <4>2
    <3> QED BY <3>5 DEF PinsHold
  <2>3. CASE InsertPin(a)
    BY <2>2, <2>3 DEF InsertPin
  <2>4. CASE ExtendPin(a)
    BY <2>1, <2>2, <2>4 DEF ExtendPin
  <2> QED BY <2>1, <2>3, <2>4 DEF Ask, Load, StartRenewal, Asks, Waits, LockGeneration, DecidePin,
         Answered, Cancel, rows
<1> QED BY <1>4, <1>5, <1>6

\* A claim takes no tree from the active generation, a build or a deletion, and nothing from a
\* live pin.
LEMMA ClaimStep ==
  ASSUME PinsAssumption, IInv, NEW c \in Collectors, Claim(c)
  PROVE  (Deletions /\ BuildState /\ ReadyTrees /\ PinsHold)'
<1> USE DEF IInv
<1> DEFINE g == local[c].gen
           r == Revision[g]
           t == local[c].at
<1>a. c \in Actors /\ c # "builder" /\ "builder" \in Actors
  BY DEF Actors, PinsAssumption
<1>0. /\ g \in Generations /\ r \in Revisions /\ pc[c] = "commit" /\ t \in 0..MaxTime /\ t <= now
      /\ UNCHANGED <<now, active, refresh, pin, overtaken, tree>>
      /\ generation' = [generation EXCEPT ![g].claimed = TRUE]
  BY <1>a DEF Claim, TInv, TypeOK, Knows, Local, PinsAssumption
<1>1. /\ \A h \in Generations : generation'[h].status = generation[h].status
      /\ \A h \in Generations \ {g} : generation'[h] = generation[h]
  BY <1>0 DEF TInv, TypeOK, GenerationRow
<1>2. /\ \E at \in {"finish", "idle"} : pc'[c] = at
      /\ \A q \in Actors \ {c} : pc'[q] = pc[q] /\ local'[q] = local[q]
  BY <1>a DEF Claim, Goto, TInv, TypeOK
<1>3. GcMayClaim(g, Pinned({g}, t))
  BY <1>0 DEF InFlight, CountsHold
<1>p. \A a \in Askers : pin[a] # None => pin[a] \in PinRow
  BY DEF TInv, TypeOK
<1>4. \A a \in Askers : pin[a] # None /\ Live(pin[a], now) => pin[a].gen # g
  BY <1>0, <1>3, <1>p DEF GcMayClaim, Pinned, Live, PinRow, Times, PinsAssumption, TInv, TypeOK
<1>5. CASE UNCHANGED revision /\ Goto(c, "idle", Idle)
  <2>1. Deletions'
    BY <1>0, <1>2, <1>5, <1>a, DeletionsKept DEF Actors, Goto, TInv, TypeOK
  <2>2. BuildState' /\ ReadyTrees'
    BY <1>0, <1>1, <1>2, <1>5, <1>a DEF BuildState, ReadyTrees, TInv, TypeOK, Knows
  <2>3. PinsHold'
    BY <1>0, <1>1, <1>4, <1>5, <1>p DEF PinsHold, Overtaken, PinRow
  <2> QED BY <2>1, <2>2, <2>3
<1>6. CASE /\ local[c].gives /\ Goto(c, "finish", local[c])
           /\ revision' = [revision EXCEPT ![r] = [state |-> "deleting", lease |-> LeaseDeadline(t)]]
  <2>1. GcMayDeleteWorktree(g, Pinned(SharedPins(g), t))
    BY <1>0, <1>6 DEF InFlight, CountsHold
  <2>2. revision[r].state = "ready" /\ r # Revision[active] /\ (refresh # None => r # Revision[refresh])
    BY <2>1 DEF GcMayDeleteWorktree, TInv, TypeOK, PinsAssumption
  <2>3. revision'[r].state = "deleting" /\ revision'[r].lease = LeaseDeadline(t)
        /\ \A q \in Revisions \ {r} : revision'[q] = revision[q]
    BY <1>0, <1>6 DEF TInv, TypeOK
  <2>4. pc'[c] = "finish" /\ local'[c] = local[c]
    BY <1>a, <1>6 DEF Goto, TInv, TypeOK
  <2>5. ReadyTrees'
    BY <1>0, <2>3 DEF ReadyTrees
  <2>6. BuildState'
    <3>1. refresh # None => refresh \in Generations /\ Revision[refresh] \in Revisions
      BY DEF TInv, TypeOK, PinsAssumption
    <3>2. active \in Generations /\ Revision[active] \in Revisions
      BY DEF TInv, TypeOK, PinsAssumption
    <3>3. pc["builder"] # "begin" /\ pc["builder"] # "activate"
      BY <1>0, <1>a, OneHolder DEF Holding
    <3> QED BY <1>0, <1>1, <1>2, <1>a, <2>2, <2>3, <3>1, <3>2, <3>3 DEF BuildState
  <2>7. PinsHold'
    <3>1. ASSUME NEW a \in Askers, pin[a] # None, Live(pin[a], now), a \notin overtaken
          PROVE  ~Overtaken(pin[a].gen)'
      <4>1. pin[a].gen \in Generations /\ pin[a].gen # g /\ ~Overtaken(pin[a].gen)
        BY <1>4, <1>p, <3>1 DEF PinRow, PinsHold
      <4>2. Revision[pin[a].gen] # r
        <5>1. ~Pinned(SharedPins(g), t)
          BY <2>1 DEF GcMayDeleteWorktree
        <5>2. pin[a].expires > t
          BY <1>0, <1>p, <3>1 DEF Live, PinRow, Times, PinsAssumption, TInv, TypeOK
        <5> QED BY <3>1, <4>1, <5>1, <5>2 DEF Pinned, SharedPins
      <4> QED BY <1>0, <1>1, <2>3, <4>1, <4>2 DEF Overtaken, PinsAssumption
    <3> QED BY <1>0, <3>1 DEF PinsHold
  <2>8. Deletions'
    <3>1. \A d \in Collectors : Deleting(d) => TreeOf(d) # r
      BY <2>2 DEF Deletions
    <3>2. \A d \in Collectors \ {c} : (Deleting(d)' <=> Deleting(d)) /\ TreeOf(d)' = TreeOf(d)
      BY <1>0, <1>2 DEF Deleting, InLease, TreeOf, Actors
    <3>3. \A d \in Collectors : Deleting(d) => TreeOf(d) \in Revisions
      BY DEF Deleting, TreeOf, TInv, Knows, PinsAssumption, Actors
    <3>4. TreeOf(c)' = r
      BY <2>4 DEF TreeOf
    <3>5. ASSUME NEW d \in Collectors, Deleting(d)'
          PROVE  /\ revision'[TreeOf(d)'].state = "deleting"
                 /\ revision'[TreeOf(d)'].lease = LeaseDeadline(local'[d].at)
      <4>1. CASE d = c
        BY <2>3, <2>4, <3>4, <4>1
      <4>2. CASE d # c
        BY <1>2, <2>3, <3>1, <3>2, <3>3, <3>5, <4>2 DEF Deletions, Actors
      <4> QED BY <4>1, <4>2
    <3>6. ASSUME NEW d \in Collectors, NEW e \in Collectors, Deleting(d)', Deleting(e)', TreeOf(d)' = TreeOf(e)'
          PROVE  d = e
      BY <3>1, <3>2, <3>4, <3>6 DEF Deletions
    <3>7. \A d \in Collectors : pc'[d] \in {"remove", "removed"} => Deleting(d)'
      BY <1>2, <2>4, <3>2 DEF Deletions, Actors
    <3> QED BY <3>5, <3>6, <3>7 DEF Deletions, LeaseDeadline
  <2> QED BY <2>5, <2>6, <2>7, <2>8
<1> QED BY <1>5, <1>6 DEF Claim

LEMMA CollectorStep ==
  ASSUME PinsAssumption, DeletionInLease, IInv, NEW c \in Collectors, Collect(c) \/ Collects(c) \/ Crash(c)
  PROVE  (Deletions /\ BuildState /\ ReadyTrees /\ PinsHold)'
<1> USE DEF IInv
<1>a. TInv' /\ c \in Actors /\ c # "builder" /\ "builder" \in Actors
  BY CollectorStepTyped DEF Actors, PinsAssumption
<1>b. ASSUME NEW at, NEW l, Goto(c, at, l)
      PROVE  /\ pc'[c] = at /\ local'[c] = l
             /\ \A q \in Actors \ {c} : pc'[q] = pc[q] /\ local'[q] = local[q]
  BY <1>b, <1>a DEF Goto, TInv, TypeOK
<1>q. ASSUME NEW at \in {"generation", "revision", "count", "claimed", "commit", "idle"}, NEW l, Goto(c, at, l),
             UNCHANGED <<now, rows, tree>>
      PROVE  (Deletions /\ BuildState /\ ReadyTrees /\ PinsHold)'
  <2>1. l \in Local
    BY <1>q, <1>a, <1>b DEF TInv, TypeOK
  <2> QED BY <1>q, <1>a, <2>1, QuietState DEF PCs, CollectorPCs
<1>1. CASE Collect(c)
  BY <1>1, <1>q DEF Collect
<1>2. CASE CollectGeneration(c) \/ CollectRevision(c) \/ CountPins(c) \/ CountRevision(c) \/ Crash(c)
  BY <1>2, <1>q DEF CollectGeneration, CollectRevision, CountPins, CountRevision, Crash, End
<1>3. CASE Claim(c)
  BY <1>3, ClaimStep
<1>4. CASE Finish(c)
  <2>1. CASE Goto(c, "idle", Idle)
    BY <1>4, <2>1, <1>q DEF Finish
  <2>2. CASE Goto(c, "remove", local[c]) /\ InLease(c)
    <3>1. UNCHANGED <<now, rows, tree>> /\ pc[c] = "finish"
      BY <1>4 DEF Finish
    <3>2. local' = local /\ pc' = [pc EXCEPT ![c] = "remove"]
      BY <2>2 DEF Goto, TInv, TypeOK
    <3>3. BuildState' /\ ReadyTrees' /\ PinsHold'
      BY <3>1, <3>2, <1>a DEF BuildState, ReadyTrees, PinsHold, Overtaken, rows
    <3>4. \A d \in Collectors : (Deleting(d)' <=> Deleting(d)) /\ TreeOf(d)' = TreeOf(d)
      BY <2>2, <1>b, <3>1, <3>2 DEF Deleting, InLease, TreeOf, Actors
    <3>5. \A d \in Collectors : pc'[d] \in {"remove", "removed"} => Deleting(d)
      BY <2>2, <1>b, <3>1 DEF Deletions, Deleting, Actors
    <3>6. Deletions'
      BY <3>1, <3>2, <3>4, <3>5 DEF Deletions, rows, LeaseDeadline
    <3> QED BY <3>3, <3>6
  <2> QED BY <1>4, <2>1, <2>2 DEF Finish
<1>5. CASE RemoveTree(c)
  <2>1. Deleting(c) /\ revision[TreeOf(c)].state = "deleting"
    BY <1>5 DEF RemoveTree, Deletions
  <2>2. UNCHANGED <<now, rows>> /\ tree' = tree \ {TreeOf(c)} /\ Goto(c, "removed", local[c])
    BY <1>5 DEF RemoveTree, TreeOf
  <2>3. local' = local
    BY <2>2 DEF Goto, TInv, TypeOK
  <2>4. BuildState' /\ ReadyTrees' /\ PinsHold'
    BY <2>1, <2>2, <1>a, <1>b DEF BuildState, ReadyTrees, PinsHold, Overtaken, rows
  <2>5. \A d \in Collectors : (Deleting(d)' <=> Deleting(d)) /\ TreeOf(d)' = TreeOf(d)
    BY <2>1, <2>2, <2>3, <1>b DEF Deleting, InLease, TreeOf, rows, Actors
  <2>6. \A d \in Collectors : pc'[d] \in {"remove", "removed"} => Deleting(d)
    BY <2>1, <2>2, <1>b DEF Deletions, Actors
  <2>7. Deletions'
    BY <2>2, <2>3, <2>5, <2>6 DEF Deletions, rows, LeaseDeadline
  <2> QED BY <2>4, <2>7
<1>6. CASE CommitDeletion(c)
  <2>1. Deleting(c) /\ revision[TreeOf(c)].state = "deleting"
    BY <1>6 DEF CommitDeletion, Deletions
  <2>2. TreeOf(c) \in Revisions
    BY <1>6, <1>a DEF CommitDeletion, TreeOf, TInv, Knows, PinsAssumption
  <2>3. /\ UNCHANGED <<now, active, refresh, generation, pin, overtaken, tree>> /\ Goto(c, "idle", Idle)
        /\ revision' = [revision EXCEPT ![TreeOf(c)].state = "absent"]
    BY <1>6 DEF CommitDeletion, TreeOf
  <2>4. /\ \A q \in Revisions \ {TreeOf(c)} : revision'[q] = revision[q]
        /\ revision'[TreeOf(c)].state = "absent"
    BY <2>2, <2>3 DEF TInv, TypeOK, RevisionRow
  <2>5. pc'[c] = "idle" /\ \A q \in Actors \ {c} : pc'[q] = pc[q] /\ local'[q] = local[q]
    BY <2>3, <1>b
  <2>6. BuildState'
    <3>1. refresh # None => refresh \in Generations /\ Revision[refresh] \in Revisions
      BY DEF TInv, TypeOK, PinsAssumption
    <3>2. active \in Generations /\ Revision[active] \in Revisions
      BY DEF TInv, TypeOK, PinsAssumption
    <3>3. pc["builder"] = "activate" => refresh # None
      BY <1>a DEF TInv, Knows
    <3> QED BY <1>a, <2>1, <2>3, <2>4, <2>5, <3>1, <3>2, <3>3 DEF BuildState
  <2>7. ReadyTrees'
    BY <2>3, <2>4 DEF ReadyTrees
  <2>8. PinsHold'
    <3>1. \A a \in Askers : pin[a] # None => Revision[pin[a].gen] \in Revisions
      BY DEF TInv, TypeOK, PinRow, PinsAssumption
    <3> QED BY <2>1, <2>3, <2>4, <3>1 DEF PinsHold, Overtaken
  <2>9. \A d \in Collectors : Deleting(d) /\ d # c => TreeOf(d) \in Revisions \ {TreeOf(c)}
    BY <2>1 DEF Deletions, Deleting, TreeOf, TInv, Knows, PinsAssumption, Actors
  <2>10. Deletions'
    BY <2>3, <2>4, <2>5, <2>9, DeletionsKept DEF Actors
  <2> QED BY <2>6, <2>7, <2>8, <2>10
<1> QED BY <1>1, <1>2, <1>3, <1>4, <1>5, <1>6 DEF Collects

LEMMA BuildStep ==
  ASSUME PinsAssumption, IInv, (\E g \in Generations : Open(g)) \/ Builds \/ Publish \/ BuildFails
  PROVE  (Deletions /\ BuildState /\ ReadyTrees /\ PinsHold)'
<1> USE DEF IInv
<1> DEFINE b == "builder"
<1>a. b \in Actors /\ b \notin Collectors /\ TInv'
  BY BuildStepTyped DEF Actors, PinsAssumption
<1>b. ASSUME NEW at, NEW l, Goto(b, at, l)
      PROVE  /\ pc'[b] = at /\ local'[b] = l
             /\ \A q \in Collectors : pc'[q] = pc[q] /\ local'[q] = local[q]
  BY <1>b, <1>a DEF Goto, TInv, TypeOK, Actors
<1>p. \A a \in Askers : pin[a] # None => pin[a].gen \in Generations /\ Revision[pin[a].gen] \in Revisions
  BY DEF TInv, TypeOK, PinRow, PinsAssumption
<1>t. /\ active \in Generations /\ Revision[active] \in Revisions
      /\ refresh # None => refresh \in Generations /\ Revision[refresh] \in Revisions
  BY DEF TInv, TypeOK, PinsAssumption
\* A row of a revision that is written by a build is in no deletion.
<1>d. ASSUME NEW r \in Revisions, revision[r].state # "deleting" \/ revision[r].lease <= now, now' = now,
             \A q \in Revisions \ {r} : revision'[q] = revision[q],
             \E at : \E l : Goto(b, at, l)
      PROVE  Deletions'
  <2>1. \A d \in Collectors : Deleting(d) => TreeOf(d) \in Revisions \ {r}
    <3> SUFFICES ASSUME NEW d \in Collectors, Deleting(d) PROVE TreeOf(d) \in Revisions \ {r}
      OBVIOUS
    <3>1. TreeOf(d) \in Revisions
      BY DEF Deleting, TreeOf, TInv, Knows, PinsAssumption, Actors
    <3>2. revision[TreeOf(d)].state = "deleting" /\ revision[TreeOf(d)].lease > now
      <4>1. LeaseDeadline(local[d].at) \in Nat /\ now \in Nat
        BY DEF LeaseDeadline, PinsAssumption, Local, Actors, TInv, TypeOK
      <4> QED BY <4>1 DEF Deletions, Deleting, InLease
    <3>3. revision[TreeOf(d)].lease \in Nat /\ now \in Nat
      BY <3>1 DEF TInv, TypeOK, RevisionRow, Times, PinsAssumption
    <3> QED BY <1>d, <3>1, <3>2, <3>3
  <2>2. \A d \in Collectors : pc'[d] = pc[d] /\ local'[d] = local[d]
    BY <1>d, <1>b
  <2> QED BY <1>d, <2>1, <2>2, DeletionsKept
<1>1. ASSUME NEW g \in Generations, Open(g) PROVE (Deletions /\ BuildState /\ ReadyTrees /\ PinsHold)'
  <2> DEFINE l == [Idle EXCEPT !.gen = g]
  <2>1. l \in Local /\ l.gen = g
    BY IdleTyped DEF Local
  <2>2. Goto(b, "begin", l) /\ UNCHANGED <<now, rows, tree>> /\ refresh = None /\ generation[g].status = "none"
    BY <1>1 DEF Open
  <2> HIDE DEF l
  <2> QED BY <1>a, <2>1, <2>2, QuietState DEF PCs, BuilderPCs
<1>2. CASE Begin
  <2> DEFINE g == local[b].gen
             r == Revision[g]
  <2>0. g \in Generations /\ r \in Revisions /\ pc[b] = "begin" /\ Goto(b, "idle", Idle)
    BY <1>2, <1>a DEF Begin, End, TInv, Knows, PinsAssumption
  <2>1. refresh = None /\ generation[g].status = "none" /\ g # active
    BY <2>0 DEF BuildState
  <2>2. CASE UNCHANGED <<refresh, generation, revision, tree>>
    BY <1>2, <1>a, <2>0, <2>2, QuietState, IdleTyped DEF Begin, rows, PCs, AskerPCs
  <2>3. CASE /\ ~DeletionHeld(r) /\ refresh' = g
             /\ generation' = [generation EXCEPT ![g].status = "pending"]
             /\ \/ revision[r].state = "ready" /\ UNCHANGED <<revision, tree>>
                \/ /\ revision[r].state # "ready"
                   /\ revision' = [revision EXCEPT ![r].state = "creating"]
                   /\ tree' = tree \ {r}
    <3>1. UNCHANGED <<now, active, pin, overtaken>>
      BY <1>2 DEF Begin
    <3>2. /\ generation'[g].status = "pending" /\ generation'[g].claimed = generation[g].claimed
          /\ \A h \in Generations \ {g} : generation'[h] = generation[h]
      BY <2>0, <2>3 DEF TInv, TypeOK, GenerationRow
    <3>3. /\ revision'[r].state \in {"creating", "ready"}
          /\ revision[r].state # "ready" => revision'[r].state = "creating"
          /\ revision[r].state = "ready" => revision'[r].state = "ready"
          /\ \A q \in Revisions \ {r} : revision'[q] = revision[q]
      BY <2>0, <2>3 DEF TInv, TypeOK, RevisionRow
    <3>4. BuildState'
      BY <1>b, <1>t, <2>0, <2>1, <2>3, <3>1, <3>2, <3>3 DEF BuildState
    <3>5. ReadyTrees'
      BY <2>0, <2>3, <3>3 DEF ReadyTrees
    <3>6. PinsHold'
      BY <1>p, <3>1, <3>2, <3>3 DEF PinsHold, Overtaken
    <3>7. Deletions'
      BY <1>d, <2>0, <2>3, <3>1, <3>3 DEF DeletionHeld, TInv, TypeOK, RevisionRow, Times, PinsAssumption
    <3> QED BY <3>4, <3>5, <3>6, <3>7
  <2> QED BY <1>2, <2>2, <2>3 DEF Begin
<1>3. CASE Publish
  <2> DEFINE r == Revision[refresh]
  <2>0. /\ refresh # None /\ r \in Revisions /\ tree' = tree \cup {r}
        /\ revision' = [revision EXCEPT ![r].state = "ready"]
        /\ UNCHANGED <<now, active, refresh, generation, pin, overtaken>>
    BY <1>3, <1>t DEF Publish
  <2>1. /\ revision'[r].state = "ready" /\ \A q \in Revisions \ {r} : revision'[q] = revision[q]
    BY <2>0 DEF TInv, TypeOK, RevisionRow
  <2>2. PICK l : Goto(b, "activate", l)
    BY <1>3 DEF Publish
  <2>3. BuildState'
    BY <1>b, <1>t, <2>0, <2>1, <2>2 DEF BuildState
  <2>4. ReadyTrees'
    BY <2>0, <2>1 DEF ReadyTrees
  <2>5. PinsHold'
    BY <1>p, <2>0, <2>1 DEF PinsHold, Overtaken
  <2>6. Deletions'
    BY <1>d, <2>0, <2>1, <2>2 DEF BuildState
  <2> QED BY <2>3, <2>4, <2>5, <2>6
<1>4. CASE Activate
  <2>0. /\ refresh # None /\ pc[b] = "activate" /\ Goto(b, "idle", Idle)
        /\ generation' = [generation EXCEPT ![refresh].status = "ready", ![active].status = "retired"]
        /\ active' = refresh /\ refresh' = None /\ UNCHANGED <<now, revision, pin, overtaken, tree>>
    BY <1>4, <1>a DEF Activate, End, TInv, Knows
  <2>1. refresh # active
    BY <2>0 DEF BuildState
  <2>2. /\ generation'[refresh].status = "ready"
        /\ \A h \in Generations : generation'[h].claimed = generation[h].claimed
    BY <1>t, <2>0, <2>1 DEF TInv, TypeOK, GenerationRow
  <2>3. BuildState'
    BY <1>b, <2>0, <2>2 DEF BuildState
  <2>4. ReadyTrees'
    BY <2>0 DEF ReadyTrees
  <2>5. PinsHold'
    BY <1>p, <2>0, <2>2 DEF PinsHold, Overtaken
  <2>6. \A d \in Collectors : pc'[d] = pc[d] /\ local'[d] = local[d]
    BY <2>0, <1>b
  <2>7. Deletions'
    BY <2>0, <2>6, DeletionsKept
  <2> QED BY <2>3, <2>4, <2>5, <2>7
<1>5. CASE BuildFails
  <2> DEFINE r == Revision[refresh]
  <2>0. /\ refresh # None /\ r \in Revisions /\ Goto(b, "idle", Idle)
        /\ revision' = [revision EXCEPT ![r].state = IF @ = "creating" THEN "absent" ELSE @]
        /\ generation' = [generation EXCEPT ![refresh].status = "failed"]
        /\ refresh' = None /\ UNCHANGED <<now, active, pin, overtaken, tree>>
    BY <1>5, <1>t DEF BuildFails, End
  <2>1. /\ revision'[r].state = "ready" <=> revision[r].state = "ready"
        /\ \A q \in Revisions \ {r} : revision'[q] = revision[q]
    BY <2>0 DEF TInv, TypeOK, RevisionRow
  <2>2. /\ \A h \in Generations \ {refresh} : generation'[h] = generation[h]
        /\ generation'[refresh].claimed = generation[refresh].claimed
    BY <1>t, <2>0 DEF TInv, TypeOK, GenerationRow
  <2>3. refresh # active
    BY <2>0 DEF BuildState
  <2>4. BuildState'
    BY <1>b, <1>t, <2>0, <2>1, <2>2, <2>3 DEF BuildState
  <2>5. ReadyTrees'
    BY <2>0, <2>1 DEF ReadyTrees
  <2>6. PinsHold'
    BY <1>p, <1>t, <2>0, <2>1, <2>2 DEF PinsHold, Overtaken
  <2>7. Deletions'
    BY <1>d, <2>0, <2>1 DEF BuildState
  <2> QED BY <2>4, <2>5, <2>6, <2>7
<1> QED BY <1>1, <1>2, <1>3, <1>4, <1>5 DEF Builds

LEMMA NextKeepsIInv ==
  ASSUME PinsAssumption, DeletionInLease, IInv, [Next]_vars
  PROVE  IInv'
<1> USE DEF IInv
<1>a. TInv' /\ LocksHeld' /\ InFlight'
  BY NextTyped, LocksKept, InFlightKept
<1>1. CASE UNCHANGED vars
  <2>1. Deletions'
    BY <1>1, DeletionsKept DEF vars, rows
  <2> QED BY <1>1, <1>a, <2>1 DEF vars, rows, BuildState, ReadyTrees, PinsHold, Overtaken
<1>2. ASSUME NEW p \in Actors, Aborts(p) PROVE (Deletions /\ BuildState /\ ReadyTrees /\ PinsHold)'
  BY <1>2, <1>a, QuietState, IdleTyped DEF Aborts, End, PCs, AskerPCs
<1>3. CASE Tick
  <2>1. UNCHANGED <<rows, tree, pc, local>> /\ now' = now + 1 /\ now \in Nat
    BY <1>3 DEF Tick, PinsAssumption, TInv, TypeOK
  <2>2. BuildState' /\ ReadyTrees'
    BY <2>1 DEF BuildState, ReadyTrees, rows
  <2>3. PinsHold'
    <3>1. \A a \in Askers : pin[a] # None => pin[a] \in PinRow
      BY DEF TInv, TypeOK
    <3>2. \A a \in Askers : pin[a] # None /\ Live(pin[a], now + 1) => Live(pin[a], now)
      BY <2>1, <3>1 DEF Live, PinRow, Times, PinsAssumption
    <3> QED BY <2>1, <3>2 DEF PinsHold, Overtaken, rows
  <2>4. \A d \in Collectors : Deleting(d)' => Deleting(d) /\ TreeOf(d)' = TreeOf(d)
    <3> SUFFICES ASSUME NEW d \in Collectors, Deleting(d)' PROVE Deleting(d) /\ TreeOf(d)' = TreeOf(d)
      OBVIOUS
    <3>1. LeaseDeadline(local[d].at) \in Nat
      BY DEF LeaseDeadline, PinsAssumption, Local, Actors, TInv, TypeOK
    <3>2. now + 1 < LeaseDeadline(local[d].at)
      BY <2>1 DEF Deleting, InLease, LeaseDeadline
    <3> QED BY <2>1, <3>1, <3>2 DEF Deleting, InLease, TreeOf
  <2>5. \A d \in Collectors : pc'[d] \in {"remove", "removed"} => Deleting(d)'
    BY <1>3, <2>1 DEF Tick, Deleting, InLease, LeaseDeadline
  <2>6. Deletions'
    BY <2>1, <2>4, <2>5 DEF Deletions, rows, LeaseDeadline
  <2> QED BY <1>a, <2>2, <2>3, <2>6
<1> QED BY <1>a, <1>1, <1>2, <1>3, AskerStep, CollectorStep, BuildStep DEF Next

LEMMA IInvHolds ==
  ASSUME PinsAssumption, DeletionInLease
  PROVE  Spec => []IInv
<1>1. Init => IInv
  BY InitIInv
<1>2. IInv /\ [Next]_vars => IInv'
  BY NextKeepsIInv
<1> QED BY <1>1, <1>2, PTL DEF Spec

\* What questions read has its tree, with any number of generations, collectors and builds,
\* while each deletion stays in the lease its own claim was given (claim_garbage_collection,
\* finish_worktree_deletion, recover_deleting_snapshot, activate_generation).
THEOREM ActiveTreeKept ==
  ASSUME PinsAssumption, DeletionInLease
  PROVE  Spec => []ActiveHasTree
<1>1. IInv => ActiveHasTree
  BY DEF IInv, BuildState, ReadyTrees, ActiveHasTree, TInv, TypeOK, PinsAssumption
<1> QED BY <1>1, IInvHolds, PTL

\* A tree that is built from or read belongs to no deletion that may still touch it: whoever
\* calls finish_worktree_deletion in its lease finds the row of its own claim.
OwnDeletion ==
    \A c \in Collectors : pc[c] \in {"remove", "removed"} =>
        /\ revision[TreeOf(c)].state = "deleting"
        /\ revision[TreeOf(c)].lease = LeaseDeadline(local[c].at)
        /\ \A d \in Collectors \ {c} : pc[d] \in {"remove", "removed"} => TreeOf(d) # TreeOf(c)

\* A deletion of a tree is the only one of it, and the row is still as its claim left it.
THEOREM DeletionsApart ==
  ASSUME PinsAssumption, DeletionInLease
  PROVE  Spec => []OwnDeletion
<1>1. IInv => OwnDeletion
  BY DEF IInv, Deletions, OwnDeletion
<1> QED BY <1>1, IInvHolds, PTL

\* What a live pin reads stays claimed by nobody and in place, with any number of questions,
\* collectors and generations that share trees, unless the pin was itself written over a
\* claim: the collector's locks make its counts good until it commits
\* (claim_garbage_collection, insert_reader_pin, renew_reader_pin).
THEOREM PinnedStay ==
  ASSUME PinsAssumption, DeletionInLease
  PROVE  Spec => []PinnedStays
<1>1. IInv => PinnedStays
  <2> SUFFICES ASSUME IInv, NEW a \in Askers, pin[a] # None, Live(pin[a], now), a \notin overtaken
               PROVE  ~Overtaken(pin[a].gen) /\ Revision[pin[a].gen] \in tree
    BY DEF PinnedStays
  <2>1. ~Overtaken(pin[a].gen)
    BY DEF IInv, PinsHold
  <2>2. Revision[pin[a].gen] \in Revisions
    BY DEF IInv, TInv, TypeOK, PinRow, PinsAssumption
  <2> QED BY <2>1, <2>2 DEF IInv, ReadyTrees, Overtaken
<1> QED BY <1>1, IInvHolds, PTL
=============================================================================
