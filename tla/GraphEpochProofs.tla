--------------------------- MODULE GraphEpochProofs ---------------------------
(***************************************************************************)
(* For any number of builders, edges, generations, epochs and lives: what  *)
(* questions read is the graph the active generation was activated with,   *)
(* until a former life writes to it or its clean-up deletes it; no builder *)
(* of its own life changes it, with its session or without.                *)
(***************************************************************************)
EXTENDS GraphEpoch, TLAPS

Writing == {"nodes", "write", "prune", "verify", "check", "publish", "activate"}
Verified == {"check", "publish", "activate"}

\* A worker at work has a refresh; one of this life has one of this life's epochs, and if it
\* still owns the refresh, the one for the latest generation, which is not active yet.
Refreshes ==
  /\ \A w \in Workers : pc[w] # "idle" => 0 < mine[w].epoch /\ mine[w].gen \in Generations
  /\ \A w \in Workers \ former : pc[w] # "idle" =>
       mine[w].epoch <= epoch /\ (Owns(w) => mine[w].gen = attempts)
  /\ \A w \in former : pc[w] # "idle" /\ owner # w
  /\ owner # Nobody => active < attempts
  /\ active <= attempts

\* Who holds the row owns the refresh, and writes; only a dropped session writes without it.
Holder ==
  /\ \A w \in Workers : lock = w => pc[w] \in Writing /\ Owns(w)
  /\ ~SessionsMayDrop => \A w \in Workers : pc[w] \in Writing => lock = w

\* What the holder has written and verified stays so, as far as this life goes: nobody else
\* of it has a newer epoch.
Checked ==
  \A w \in Workers : lock = w /\ mine[w].gen \notin lost =>
    /\ pc[w] # "nodes" => mine[w].gen \in nodes
    /\ pc[w] \in Verified => \A e \in Edges : writer[mine[w].gen][e] = mine[w].epoch
    /\ ~SessionsMayDrop /\ pc[w] = "activate" => served[mine[w].gen] = mine[w].epoch

\* No builder of this life has a newer epoch than the active generation it writes to.
ActiveIsNewest ==
  active # 0 => \A w \in Workers \ former : pc[w] # "idle" /\ mine[w].gen = active => mine[w].epoch <= shown

IInv == TypeOK /\ Refreshes /\ Holder /\ Checked /\ ActiveIsNewest /\ GraphWhole

-----------------------------------------------------------------------------
(* Types *)

LEMMA NothingTyped ==
  ASSUME EpochAssumption
  PROVE  /\ 0 \in 0..MaxEpoch /\ 0 \in 0..MaxAttempt /\ 0 \in 0..MaxCleaning
         /\ NoRefresh \in [epoch : 0..MaxEpoch, gen : 0..MaxAttempt]
         /\ NoEdges \in [Generations -> [Edges -> 0..MaxEpoch]]
         /\ [g \in Generations |-> 0] \in [Generations -> 0..MaxEpoch]
<1>1. 0 \in 0..MaxEpoch /\ 0 \in 0..MaxAttempt /\ 0 \in 0..MaxCleaning
  BY DEF EpochAssumption
<1>2. [e \in Edges |-> 0] \in [Edges -> 0..MaxEpoch]
  BY <1>1
<1> QED BY <1>1, <1>2 DEF NoRefresh, NoEdges

LEMMA InitTyped ==
  ASSUME EpochAssumption, Init
  PROVE  TypeOK
  BY NothingTyped DEF Init, TypeOK

\* What the edges of a generation become is an epoch again.
LEMMA EdgesTyped ==
  ASSUME EpochAssumption, TypeOK, NEW g \in Generations, NEW F \in [Edges -> 0..MaxEpoch],
         writer' = [writer EXCEPT ![g] = F]
  PROVE  writer' \in [Generations -> [Edges -> 0..MaxEpoch]]
  BY DEF TypeOK

LEMMA NextTyped ==
  ASSUME EpochAssumption, TypeOK, Refreshes, [Next]_vars
  PROVE  TypeOK'
<1> USE DEF TypeOK, EpochAssumption
<1>0. ASSUME NEW w \in Workers, pc[w] # "idle"
      PROVE  mine[w] \in [epoch : 0..MaxEpoch, gen : 0..MaxAttempt] /\ mine[w].gen \in Generations
  BY <1>0 DEF Refreshes
<1>1. ASSUME NEW w \in Workers, Start(w) \/ Adopt(w) PROVE TypeOK'
  <2>1. NextEpoch \in 0..MaxEpoch /\ epoch' \in 0..MaxEpoch
    BY <1>1 DEF Start, Adopt, NextEpoch
  <2>2. CASE Start(w)
    <3>1. attempts + 1 \in 0..MaxAttempt
      BY <2>2 DEF Start
    <3> QED BY <2>1, <2>2, <3>1 DEF Start, Goto, store
  <2>3. CASE Adopt(w)
    BY <2>1, <2>3 DEF Adopt, Goto, store
  <2> QED BY <1>1, <2>2, <2>3
<1>2. ASSUME NEW w \in Workers, Renew(w) \/ WriteNodes(w) PROVE TypeOK'
  <2>1. CASE Renew(w)
    BY <2>1 DEF Renew, Goto, rows, store
  <2>2. CASE WriteNodes(w)
    BY <2>2, <1>0 DEF WriteNodes, Goto, rows
  <2> QED BY <1>2, <2>1, <2>2
<1>3. ASSUME NEW w \in Workers, WriteEdges(w) PROVE TypeOK'
  <2>1. PICK batch \in SUBSET todo[w] \ {{}} :
          /\ writer' = [writer EXCEPT ![mine[w].gen] = [e \in Edges |->
                          IF e \in batch /\ mine[w].gen \in nodes THEN TakesOver(@[e], mine[w].epoch) ELSE @[e]]]
          /\ todo' = [todo EXCEPT ![w] = @ \ batch]
          /\ Goto(w, IF batch = todo[w] THEN "prune" ELSE "write")
    BY <1>3 DEF WriteEdges
  <2>2. mine[w].gen \in Generations /\ mine[w].epoch \in 0..MaxEpoch
    BY <1>3, <1>0 DEF WriteEdges
  <2>3. [e \in Edges |-> IF e \in batch /\ mine[w].gen \in nodes
                         THEN TakesOver(writer[mine[w].gen][e], mine[w].epoch)
                         ELSE writer[mine[w].gen][e]] \in [Edges -> 0..MaxEpoch]
    BY <2>2 DEF TakesOver
  <2>4. writer' \in [Generations -> [Edges -> 0..MaxEpoch]]
    BY <2>1, <2>2, <2>3, EdgesTyped
  <2>5. lost' \subseteq Generations
    BY <1>3, <2>2 DEF WriteEdges, Touches
  <2> QED BY <1>3, <2>1, <2>4, <2>5 DEF WriteEdges, Goto, rows
<1>4. ASSUME NEW w \in Workers, Prune(w) PROVE TypeOK'
  <2>1. mine[w].gen \in Generations
    BY <1>4, <1>0 DEF Prune
  <2>2. [e \in Edges |-> IF Outdated(writer[mine[w].gen][e], mine[w].epoch) THEN 0
                         ELSE writer[mine[w].gen][e]] \in [Edges -> 0..MaxEpoch]
    BY <2>1
  <2>3. writer' \in [Generations -> [Edges -> 0..MaxEpoch]]
    BY <1>4, <2>1, <2>2, EdgesTyped DEF Prune
  <2>4. lost' \subseteq Generations
    BY <1>4, <2>1 DEF Prune, Touches
  <2> QED BY <1>4, <2>3, <2>4 DEF Prune, Goto, rows
<1>5. ASSUME NEW w \in Workers, Verify(w) \/ AssertCatalog(w) PROVE TypeOK'
  BY <1>5 DEF Verify, AssertCatalog, Goto, rows, store
<1>6. ASSUME NEW w \in Workers, Publish(w) PROVE TypeOK'
  <2>1. mine[w].gen \in Generations /\ mine[w].epoch \in 0..MaxEpoch
    BY <1>6, <1>0 DEF Publish
  <2>2. lost' \subseteq Generations
    BY <1>6, <2>1 DEF Publish, Touches
  <2> QED BY <1>6, <2>1, <2>2 DEF Publish, Goto, rows
<1>7. ASSUME NEW w \in Workers, Activate(w) PROVE TypeOK'
  BY <1>7, <1>0, NothingTyped DEF Activate, Leaves, Goto, store
<1>8. ASSUME NEW w \in Workers, Fails(w) \/ Crash(w) PROVE TypeOK'
  <2>1. CASE Fails(w)
    BY <2>1, NothingTyped DEF Fails, Leaves, Goto, store
  <2>2. CASE Crash(w)
    BY <2>2, NothingTyped DEF Crash, Leaves, Goto, rows, store
  <2> QED BY <1>8, <2>1, <2>2
<1>9. ASSUME NEW w \in Workers, Drops(w) PROVE TypeOK'
  BY <1>9 DEF Drops, rows, store
<1>10. CASE Purge
  BY <1>10, NothingTyped DEF Purge, store
<1>11. CASE DeleteGraph
  BY <1>11, NothingTyped DEF DeleteGraph, rows, store
<1>12. CASE UNCHANGED vars
  BY <1>12 DEF vars, rows, store
<1> QED BY <1>1, <1>2, <1>3, <1>4, <1>5, <1>6, <1>7, <1>8, <1>9, <1>10, <1>11, <1>12 DEF Next

-----------------------------------------------------------------------------
(* The steps of a builder *)

Rest == Refreshes /\ Holder /\ Checked /\ ActiveIsNewest /\ GraphWhole

LEMMA InitIInv ==
  ASSUME EpochAssumption, Init
  PROVE  IInv
<1>1. TypeOK
  BY InitTyped
<1>2. Refreshes /\ Holder /\ Checked /\ ActiveIsNewest
  BY DEF EpochAssumption, Init, Refreshes, Holder, Checked, ActiveIsNewest, Writing
<1>3. GraphWhole
  BY DEF Init, GraphWhole, ActiveEdgesAgree, ActiveIsServed
<1> QED BY <1>1, <1>2, <1>3 DEF IInv

\* A step that goes on with a build: it changes edges of its own generation only, those of
\* older epochs, and publishes only its own epoch there; if it is one of a former life, the
\* generation counts as lost.
LEMMA WriterStep ==
  ASSUME EpochAssumption, IInv, NEW w \in Workers, pc[w] \in Writing,
         NEW step \in Writing \ {"nodes"}, Goto(w, step),
         UNCHANGED <<rows, lock, mine, cleaning, former>>,
         \A g \in Generations, e \in Edges :
            writer'[g][e] = writer[g][e] \/ (g = mine[w].gen /\ writer[g][e] < mine[w].epoch),
         served' = served \/ \E n \in 0..MaxEpoch : served' = [served EXCEPT ![mine[w].gen] = n],
         nodes \subseteq nodes',
         \A g \in Generations \ lost' : g \notin lost \/ (lock = w /\ g = mine[w].gen),
         w \in former => mine[w].gen \in lost' \/ (writer' = writer /\ served' = served),
         lock = w /\ mine[w].gen \notin lost' =>
           /\ mine[w].gen \in nodes'
           /\ step \in Verified => \A e \in Edges : writer'[mine[w].gen][e] = mine[w].epoch
           /\ step = "activate" => served'[mine[w].gen] = mine[w].epoch
  PROVE  Rest'
<1> USE DEF IInv, TypeOK, EpochAssumption
<1>1. pc[w] # "idle" /\ step # "idle" /\ step # "nodes" /\ pc'[w] = step /\ \A v \in Workers \ {w} : pc'[v] = pc[v]
  BY DEF Writing, Goto
<1>2. mine[w].epoch \in Nat /\ (w \notin former => mine[w].epoch <= epoch) /\ mine[w].gen \in Generations
  BY <1>1 DEF Refreshes
<1>3. Refreshes'
  BY <1>1 DEF Refreshes, Owns, rows
<1>4. Holder'
  BY <1>1 DEF Holder, Owns, rows
<1>5. \A v \in Workers : lock = v =>
        /\ owner = v /\ v \notin former /\ mine[v].epoch = epoch /\ mine[v].gen = attempts /\ pc[v] # "idle"
        /\ active < attempts
  BY DEF Holder, Owns, Refreshes, Writing
<1>6. Checked'
  <2> SUFFICES ASSUME NEW v \in Workers, lock = v, mine[v].gen \notin lost'
               PROVE  /\ pc'[v] # "nodes" => mine[v].gen \in nodes'
                      /\ pc'[v] \in Verified => \A e \in Edges : writer'[mine[v].gen][e] = mine[v].epoch
                      /\ ~SessionsMayDrop /\ pc'[v] = "activate" => served'[mine[v].gen] = mine[v].epoch
    BY DEF Checked
  <2>1. CASE v = w
    BY <2>1, <1>1
  <2>2. CASE v # w
    <3>1. mine[v].gen \in Generations /\ mine[v].epoch \in Nat /\ pc'[v] = pc[v]
      BY <2>2, <1>1, <1>5 DEF Refreshes
    <3>2. mine[v].gen \notin lost
      BY <2>2, <3>1
    <3>3. pc[v] # "nodes" => mine[v].gen \in nodes'
      BY <3>2 DEF Checked
    <3>4. ASSUME pc[v] \in Verified, NEW e \in Edges PROVE writer'[mine[v].gen][e] = mine[v].epoch
      <4>1. writer[mine[v].gen][e] = mine[v].epoch
        BY <3>2, <3>4 DEF Checked
      <4> QED BY <4>1, <3>1, <1>2, <1>5
    <3>5. SessionsMayDrop
      BY <2>2 DEF Holder
    <3> QED BY <3>1, <3>3, <3>4, <3>5
  <2> QED BY <2>1, <2>2
<1>7. ASSUME active \notin lost' \cup {0}
      PROVE  active \in Generations /\ active \notin lost
  <2>1. active \in Generations
    BY <1>7 DEF Generations
  <2>2. lock = w => mine[w].gen # active
    BY <1>5
  <2> QED BY <1>7, <2>1, <2>2
<1>8. ASSUME active \notin lost' \cup {0}, NEW e \in Edges
      PROVE  writer'[active][e] = writer[active][e]
  <2>1. active \in Generations /\ writer[active][e] = shown /\ shown \in Nat
    BY <1>7, <1>8 DEF GraphWhole, ActiveEdgesAgree
  <2>2. active = mine[w].gen /\ w \notin former => mine[w].epoch <= shown
    BY <1>1, <1>8 DEF ActiveIsNewest
  <2> QED BY <1>8, <2>1, <2>2, <1>2
<1>9. ActiveIsNewest'
  BY <1>1 DEF ActiveIsNewest, rows
<1>10. GraphWhole'
  <2>1. ActiveEdgesAgree'
    BY <1>7, <1>8 DEF GraphWhole, ActiveEdgesAgree, rows
  <2>2. ASSUME ~SessionsMayDrop, active \notin lost' \cup {0} PROVE served'[active] = served[active]
    <3>1. lock = w
      BY <2>2 DEF Holder
    <3>2. mine[w].gen # active
      BY <3>1, <1>5
    <3> QED BY <3>2, <2>2, <1>7
  <2> QED BY <2>1, <2>2, <1>7 DEF GraphWhole, ActiveIsServed, rows
<1> QED BY <1>3, <1>4, <1>6, <1>9, <1>10 DEF Rest

LEMMA BuildsOn ==
  ASSUME EpochAssumption, IInv, NEW w \in Workers,
         WriteNodes(w) \/ WriteEdges(w) \/ Prune(w) \/ Verify(w) \/ AssertCatalog(w) \/ Publish(w)
  PROVE  Rest'
<1> USE DEF IInv, TypeOK, EpochAssumption
<1>1. mine[w].gen \in Generations /\ mine[w].epoch \in 0..MaxEpoch
  BY DEF WriteNodes, WriteEdges, Prune, Verify, AssertCatalog, Publish, Refreshes
<1>a. lock = w => w \notin former
  BY DEF Holder, Owns, Refreshes
<1>b. ASSUME Touches(w) PROVE
        /\ \A g \in Generations \ lost' : g \notin lost
        /\ w \in former => mine[w].gen \in lost'
        /\ lock = w => lost' = lost
  BY <1>b, <1>a DEF Touches
<1>c. lock = w /\ mine[w].gen \notin lost /\ pc[w] # "nodes" => mine[w].gen \in nodes
  BY DEF Checked
<1>2. CASE WriteNodes(w)
  <2>1. UNCHANGED <<rows, lock, mine, writer, served, cleaning, former>> /\ pc[w] \in Writing /\ Goto(w, "write")
    BY <1>2 DEF WriteNodes, Writing
  <2>2. nodes \subseteq nodes' /\ mine[w].gen \in nodes'
    BY <1>2 DEF WriteNodes
  <2>3. \A g \in Generations \ lost' : g \notin lost \/ (lock = w /\ g = mine[w].gen)
    BY <1>2 DEF WriteNodes, HasSession
  <2> QED BY <2>1, <2>2, <2>3, WriterStep DEF Writing, Verified
<1>3. CASE WriteEdges(w)
  <2>1. PICK batch \in SUBSET todo[w] \ {{}} :
          /\ writer' = [writer EXCEPT ![mine[w].gen] = [e \in Edges |->
                          IF e \in batch /\ mine[w].gen \in nodes THEN TakesOver(@[e], mine[w].epoch) ELSE @[e]]]
          /\ Goto(w, IF batch = todo[w] THEN "prune" ELSE "write")
    BY <1>3 DEF WriteEdges
  <2>2. PICK step \in {"prune", "write"} : Goto(w, step)
    BY <2>1
  <2>3. \A g \in Generations, e \in Edges :
          writer'[g][e] = writer[g][e] \/ (g = mine[w].gen /\ writer[g][e] < mine[w].epoch)
    BY <1>1, <2>1 DEF TakesOver
  <2>4. UNCHANGED <<rows, lock, mine, nodes, served, cleaning, former>> /\ pc[w] \in Writing /\ pc[w] # "nodes" /\ Touches(w)
    BY <1>3 DEF WriteEdges, Writing
  <2> QED BY <2>2, <2>3, <2>4, <1>b, <1>c, WriterStep DEF Writing, Verified
<1>4. CASE Prune(w)
  <2>1. \A g \in Generations, e \in Edges :
          writer'[g][e] = writer[g][e] \/ (g = mine[w].gen /\ writer[g][e] < mine[w].epoch)
    BY <1>1, <1>4 DEF Prune, Outdated
  <2>2. UNCHANGED <<rows, lock, mine, nodes, served, cleaning, former>> /\ pc[w] \in Writing /\ pc[w] # "nodes"
        /\ Goto(w, "verify") /\ Touches(w)
    BY <1>4 DEF Prune, Writing
  <2> QED BY <2>1, <2>2, <1>b, <1>c, WriterStep DEF Writing, Verified
<1>5. CASE Verify(w)
  <2>1. \A e \in Edges : writer[mine[w].gen][e] = mine[w].epoch
    BY <1>5 DEF Verify, Present
  <2>2. /\ UNCHANGED <<rows, lock, mine, nodes, writer, served, lost, cleaning, former>>
        /\ pc[w] \in Writing /\ pc[w] # "nodes" /\ Goto(w, "check")
    BY <1>5 DEF Verify, Writing, store
  <2> QED BY <2>1, <2>2, <1>c, WriterStep DEF Writing
<1>6. CASE AssertCatalog(w)
  <2>1. /\ UNCHANGED <<rows, lock, mine, nodes, writer, served, lost, cleaning, former>>
        /\ pc[w] \in Writing /\ pc[w] # "nodes" /\ Goto(w, "publish")
    BY <1>6 DEF AssertCatalog, Writing, store
  <2>2. mine[w].gen \notin lost => \A e \in Edges : writer[mine[w].gen][e] = mine[w].epoch
    BY <1>6 DEF AssertCatalog, HasSession, Checked, Verified
  <2> QED BY <2>1, <2>2, <1>c, WriterStep DEF Writing
<1>7. CASE Publish(w)
  <2>1. /\ UNCHANGED <<rows, lock, mine, nodes, writer, cleaning, former>> /\ pc[w] \in Writing /\ pc[w] # "nodes"
        /\ Goto(w, "activate") /\ Touches(w)
        /\ served' = [served EXCEPT ![mine[w].gen] = IF mine[w].gen \in nodes THEN mine[w].epoch ELSE @]
    BY <1>7 DEF Publish, Writing
  <2>2. lock = w /\ mine[w].gen \notin lost => \A e \in Edges : writer[mine[w].gen][e] = mine[w].epoch
    BY <1>7 DEF Publish, Checked, Verified
  <2>3. mine[w].gen \in nodes => served'[mine[w].gen] = mine[w].epoch
    BY <1>1, <2>1
  <2>4. served' = served \/ \E n \in 0..MaxEpoch : served' = [served EXCEPT ![mine[w].gen] = n]
    <3>1. CASE mine[w].gen \in nodes
      BY <3>1, <2>1, <1>1
    <3>2. CASE mine[w].gen \notin nodes
      BY <3>2, <2>1, <1>1
    <3> QED BY <3>1, <3>2
  <2> QED BY <2>1, <2>2, <2>3, <2>4, <1>b, <1>c, WriterStep DEF Writing, Verified
<1> QED BY <1>2, <1>3, <1>4, <1>5, <1>6, <1>7

\* A new refresh, or the adoption of one, under an epoch that nobody of this life had.
LEMMA Begins ==
  ASSUME EpochAssumption, IInv, NEW w \in Workers, Start(w) \/ Adopt(w)
  PROVE  Rest'
<1> USE DEF IInv, TypeOK, EpochAssumption
<1>1. /\ lock = Nobody /\ pc[w] = "idle" /\ pc' = [pc EXCEPT ![w] = "begun"] /\ epoch' = epoch + 1 /\ owner' = w
      /\ mine' = [mine EXCEPT ![w] = [epoch |-> epoch + 1, gen |-> attempts']]
      /\ UNCHANGED <<active, shown, lock, nodes, writer, served, lost, cleaning, former>>
  BY DEF Start, Adopt, Goto, NextEpoch, store
<1>2. active < attempts' /\ attempts' \in Generations
  <2>1. CASE Start(w)
    BY <2>1 DEF Start, Refreshes, Generations
  <2>2. CASE Adopt(w)
    BY <2>2 DEF Adopt, Refreshes, Generations
  <2> QED BY <2>1, <2>2
<1>3. \A v \in Workers \ {w} : pc'[v] = pc[v] /\ mine'[v] = mine[v]
  BY <1>1
<1>4. pc'[w] = "begun" /\ mine'[w].epoch = epoch + 1 /\ mine'[w].gen = attempts' /\ w \notin former
  BY <1>1 DEF Refreshes
<1>5. \A v \in Workers \ {w} : ~Owns(v)'
  BY <1>1 DEF Owns
<1>6. Refreshes'
  BY <1>1, <1>2, <1>3, <1>4, <1>5 DEF Refreshes, Generations
<1>7. Holder' /\ Checked'
  BY <1>1, <1>2, <1>3, <1>4 DEF Holder, Checked, Writing, Verified
<1>8. ActiveIsNewest'
  BY <1>1, <1>2, <1>3, <1>4 DEF ActiveIsNewest
<1>9. GraphWhole'
  BY <1>1 DEF GraphWhole, ActiveEdgesAgree, ActiveIsServed
<1> QED BY <1>6, <1>7, <1>8, <1>9 DEF Rest

LEMMA Renews ==
  ASSUME EpochAssumption, IInv, NEW w \in Workers, Renew(w)
  PROVE  Rest'
<1> USE DEF IInv, TypeOK, EpochAssumption
<1>1. /\ lock = Nobody /\ lock' = w /\ pc[w] = "begun" /\ Owns(w) /\ pc' = [pc EXCEPT ![w] = "nodes"]
      /\ UNCHANGED <<rows, mine, nodes, writer, served, lost, cleaning, former>>
  BY DEF Renew, Goto, store
<1>2. pc'[w] = "nodes" /\ \A v \in Workers \ {w} : pc'[v] = pc[v] /\ lock' # v
  BY <1>1
<1>3. \A v \in Workers : pc'[v] = "idle" <=> pc[v] = "idle"
  BY <1>1, <1>2
<1>4. Refreshes' /\ ActiveIsNewest'
  BY <1>1, <1>3 DEF Refreshes, ActiveIsNewest, Owns, rows
<1>5. Holder' /\ Checked'
  BY <1>1, <1>2 DEF Holder, Checked, Owns, Writing, Verified, rows
<1>6. GraphWhole'
  BY <1>1 DEF GraphWhole, ActiveEdgesAgree, ActiveIsServed, rows
<1> QED BY <1>4, <1>5, <1>6 DEF Rest

LEMMA Activates ==
  ASSUME EpochAssumption, IInv, NEW w \in Workers, Activate(w)
  PROVE  Rest'
<1> USE DEF IInv, TypeOK, EpochAssumption
<1>1. /\ pc[w] = "activate" /\ lock = w /\ active' = mine[w].gen /\ shown' = mine[w].epoch /\ owner' = Nobody
      /\ lock' = Nobody /\ pc' = [pc EXCEPT ![w] = "idle"] /\ mine' = [mine EXCEPT ![w] = NoRefresh]
      /\ former' = former \ {w}
      /\ UNCHANGED <<epoch, attempts, nodes, writer, served, lost, cleaning>>
  BY DEF Activate, Leaves, Goto, HasSession, store
<1>2. /\ 0 < mine[w].epoch /\ mine[w].epoch = epoch /\ mine[w].gen = attempts /\ attempts \in Generations
      /\ owner = w /\ w \notin former
  BY <1>1 DEF Refreshes, Holder, Owns
<1>3. attempts \notin lost => \A e \in Edges : writer[attempts][e] = epoch
  BY <1>1, <1>2 DEF Checked, Verified
<1>4. \A v \in Workers : pc'[v] # "idle" => v # w /\ pc'[v] = pc[v] /\ mine'[v] = mine[v]
  BY <1>1
<1>5. Refreshes'
  <2>1. \A v \in Workers : ~Owns(v)'
    BY <1>1 DEF Owns
  <2>2. \A v \in former' : pc'[v] # "idle" /\ owner' # v
    BY <1>1, <1>2 DEF Refreshes
  <2> QED BY <1>1, <1>2, <1>4, <2>1, <2>2 DEF Refreshes, Generations
<1>6. Holder' /\ Checked'
  BY <1>1, <1>2, <1>4 DEF Holder, Checked, Writing
<1>7. ActiveIsNewest'
  BY <1>1, <1>2, <1>4 DEF ActiveIsNewest, Refreshes
<1>8. ~SessionsMayDrop /\ attempts \notin lost => served[attempts] = epoch
  BY <1>1, <1>2 DEF Checked
<1>9. GraphWhole'
  BY <1>1, <1>2, <1>3, <1>8 DEF GraphWhole, ActiveEdgesAgree, ActiveIsServed
<1> QED BY <1>5, <1>6, <1>7, <1>9 DEF Rest

\* A builder that is gone, with its refresh or without it.
LEMMA Goes ==
  ASSUME EpochAssumption, IInv, NEW w \in Workers, Fails(w) \/ Crash(w)
  PROVE  Rest'
<1> USE DEF IInv, TypeOK, EpochAssumption
<1>1. /\ pc' = [pc EXCEPT ![w] = "idle"] /\ mine' = [mine EXCEPT ![w] = NoRefresh] /\ pc[w] # "idle"
      /\ UNCHANGED <<epoch, attempts, active, shown, nodes, writer, served, lost, cleaning>>
      /\ owner' = owner \/ (owner' = Nobody /\ (lock # Nobody => lock = w))
      /\ lock' = (IF lock = w THEN Nobody ELSE lock)
      /\ former' = former \ {w}
  BY DEF Fails, Crash, Leaves, Goto, rows, store
<1>2. pc'[w] = "idle" /\ \A v \in Workers \ {w} : pc'[v] = pc[v] /\ mine'[v] = mine[v]
  BY <1>1
<1>3. lock' # w /\ \A v \in Workers : lock' = v => lock = v /\ owner' = owner
  BY <1>1
<1>4. \A v \in Workers \ {w} : Owns(v)' => Owns(v)
  BY <1>1, <1>2 DEF Owns
<1>5. Refreshes'
  <2>1. \A v \in former' : v # w /\ pc'[v] # "idle" /\ owner' # v
    BY <1>1, <1>2 DEF Refreshes
  <2>2. \A v \in Workers : pc'[v] # "idle" => v # w
    BY <1>2
  <2> QED BY <1>1, <1>2, <1>4, <2>1, <2>2 DEF Refreshes, Generations
<1>6. Holder'
  <2>1. \A v \in Workers : lock' = v => pc'[v] \in Writing /\ Owns(v)'
    BY <1>1, <1>2, <1>3 DEF Holder, Owns
  <2>2. ~SessionsMayDrop => \A v \in Workers : pc'[v] \in Writing => lock' = v
    BY <1>1, <1>2 DEF Holder, Writing
  <2> QED BY <2>1, <2>2 DEF Holder
<1>7. Checked' /\ ActiveIsNewest'
  BY <1>1, <1>2, <1>3 DEF Checked, ActiveIsNewest
<1>8. GraphWhole'
  BY <1>1 DEF GraphWhole, ActiveEdgesAgree, ActiveIsServed
<1> QED BY <1>5, <1>6, <1>7, <1>8 DEF Rest

LEMMA Environment ==
  ASSUME EpochAssumption, IInv, (\E w \in Workers : Drops(w)) \/ Purge \/ DeleteGraph \/ UNCHANGED vars
  PROVE  Rest'
<1> USE DEF IInv, TypeOK, EpochAssumption
<1>1. ASSUME NEW w \in Workers, Drops(w) PROVE Rest'
  <2>1. SessionsMayDrop /\ lock' = Nobody /\ UNCHANGED <<rows, pc, mine, nodes, writer, served, lost, former>>
    BY <1>1 DEF Drops, store
  <2>2. Refreshes' /\ ActiveIsNewest'
    BY <2>1 DEF Refreshes, ActiveIsNewest, Owns, rows
  <2>3. Holder' /\ Checked'
    BY <2>1 DEF Holder, Checked
  <2>4. GraphWhole'
    BY <2>1 DEF GraphWhole, ActiveEdgesAgree, ActiveIsServed, rows
  <2> QED BY <2>2, <2>3, <2>4 DEF Rest
<1>2. CASE Purge
  <2>1. /\ lock = Nobody /\ lock' = Nobody /\ owner' = Nobody /\ attempts' = 0 /\ active' = 0
        /\ former' = {w \in Workers : pc[w] # "idle"} /\ UNCHANGED <<pc, mine>>
    BY <1>2 DEF Purge
  <2>2. Refreshes'
    BY <2>1 DEF Refreshes
  <2>3. Holder' /\ Checked' /\ ActiveIsNewest' /\ GraphWhole'
    BY <2>1 DEF Holder, Checked, ActiveIsNewest, GraphWhole, ActiveEdgesAgree, ActiveIsServed
  <2> QED BY <2>2, <2>3 DEF Rest
<1>3. CASE DeleteGraph
  <2>1. UNCHANGED <<rows, lock, pc, mine, former>>
    BY <1>3 DEF DeleteGraph
  <2>2. lost' = Generations \/ UNCHANGED store
    BY <1>3 DEF DeleteGraph
  <2>3. Refreshes' /\ Holder' /\ ActiveIsNewest'
    BY <2>1 DEF Refreshes, Holder, ActiveIsNewest, Owns, rows
  <2>4. ASSUME NEW w \in Workers, lock = w PROVE mine[w].gen \in Generations
    BY <2>4 DEF Holder, Refreshes, Writing
  <2>5. Checked'
    BY <2>1, <2>2, <2>4 DEF Checked, store
  <2>6. active \in Generations \cup {0}
    BY DEF Generations
  <2>7. GraphWhole'
    BY <2>1, <2>2, <2>6 DEF GraphWhole, ActiveEdgesAgree, ActiveIsServed, rows, store
  <2> QED BY <2>3, <2>5, <2>7 DEF Rest
<1>4. CASE UNCHANGED vars
  BY <1>4 DEF vars, rows, store, Rest, Refreshes, Holder, Checked, ActiveIsNewest, GraphWhole, ActiveEdgesAgree,
              ActiveIsServed, Owns
<1> QED BY <1>1, <1>2, <1>3, <1>4

LEMMA NextKeepsIInv ==
  ASSUME EpochAssumption, IInv, [Next]_vars
  PROVE  IInv'
<1>1. TypeOK'
  BY NextTyped DEF IInv
<1>2. Rest'
  BY BuildsOn, Begins, Renews, Activates, Goes, Environment DEF Next
<1> QED BY <1>1, <1>2 DEF IInv, Rest

LEMMA IInvHolds ==
  ASSUME EpochAssumption
  PROVE  Spec => []IInv
<1>1. Init => IInv
  BY InitIInv
<1>2. IInv /\ [Next]_vars => IInv'
  BY NextKeepsIInv
<1> QED BY <1>1, <1>2, PTL DEF Spec

\* Epochs, steps and edges are of their types: no builder writes outside the generations.
THEOREM TypeCorrect ==
  ASSUME EpochAssumption
  PROVE  Spec => []TypeOK
<1>1. IInv => TypeOK
  BY DEF IInv
<1> QED BY <1>1, IInvHolds, PTL

\* Whatever purges, adoptions, crashes and late builders do, every edge of the active generation
\* bears the epoch of its activation and, where builders keep their session, its node publishes
\* it, until a former life's builder writes to it or a former life's clean-up deletes it
\* (delete_edges_outside_expected, publish_graph_epoch, delete_repository_graph).
THEOREM GraphStaysWhole ==
  ASSUME EpochAssumption
  PROVE  Spec => []GraphWhole
<1>1. IInv => GraphWhole
  BY DEF IInv
<1> QED BY <1>1, IInvHolds, PTL
=============================================================================
