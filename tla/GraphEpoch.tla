----------------------------- MODULE GraphEpoch -----------------------------
(***************************************************************************)
(* The Neo4j graph of one repository's generations                         *)
(* (ingestion/graph_store.py, graph_cleanup.py, and the steps of           *)
(* _finish_generation in ingestion/pipeline.py that use them).             *)
(*                                                                         *)
(* Edge ids are derived from the generation, generation ids from the       *)
(* commit and the number of the attempt, the repository's id from its URL: *)
(* a repository that was purged and is indexed again writes the ids of its *)
(* former life, and counts its refresh epochs from 1 again.  A builder     *)
(* merges its edges, takes over those of an older epoch, deletes those it  *)
(* has not taken over, checks that all bear its epoch, and publishes the   *)
(* epoch on the generation's node; questions read the edges of that epoch. *)
(*                                                                         *)
(* The builder holds the repository's row from its first renewal to its    *)
(* activation, and a purge's DELETE waits for the row.  Nothing else       *)
(* stands between them: a purge may take the rows of a builder that has    *)
(* not taken the row yet, and it deletes the graph after its commit, while *)
(* the next life may be building already.  With SessionsMayDrop the        *)
(* database may end a builder's session, which it notices at its next      *)
(* statement to the database, not to Neo4j.                                *)
(***************************************************************************)
EXTENDS Naturals

CONSTANTS Workers, Edges, Nobody,
          MaxEpoch, MaxAttempt,   \* bounds on refreshes and on generations of a life
          MaxCleaning,            \* bound on purges that have still to delete the graph
          SessionsMayDrop

VARIABLES epoch, owner, attempts, active,   \* the repository and its generations; owner of the refresh
          shown,     \* graph_epoch in the row of the active generation
          lock,      \* holder of the repository's row
          pc, mine,  \* step of a worker; epoch and generation of its refresh
          todo,      \* edges it has still to write
          nodes,     \* generations whose nodes are there
          writer,    \* writer_epoch of the edges of each generation, 0 when there is none
          served,    \* graph_epoch on the node of each generation, 0 when there is none
          cleaning,  \* purges that have committed and not yet deleted the graph
          former,    \* workers whose refresh went with a purge
          lost       \* generations that a former life has written to or deleted since the
                     \* holder of the row began to write them

\* What the constants are taken to be.
EpochAssumption ==
  /\ Nobody \notin Workers
  /\ MaxEpoch \in Nat /\ MaxAttempt \in Nat /\ MaxCleaning \in Nat

rows == <<epoch, owner, attempts, active, shown>>
store == <<nodes, writer, served, lost>>
vars == <<rows, lock, pc, mine, todo, store, cleaning, former>>

Generations == 1..MaxAttempt
NoEdges == [g \in Generations |-> [e \in Edges |-> 0]]
NoRefresh == [epoch |-> 0, gen |-> 0]

TypeOK ==
  /\ epoch \in 0..MaxEpoch /\ owner \in Workers \cup {Nobody}
  /\ attempts \in 0..MaxAttempt /\ active \in 0..MaxAttempt /\ shown \in 0..MaxEpoch
  /\ lock \in Workers \cup {Nobody}
  /\ pc \in [Workers -> {"idle", "begun", "nodes", "write", "prune", "verify", "check", "publish",
                         "activate"}]
  /\ mine \in [Workers -> [epoch : 0..MaxEpoch, gen : 0..MaxAttempt]]
  /\ todo \in [Workers -> SUBSET Edges]
  /\ nodes \subseteq Generations
  /\ writer \in [Generations -> [Edges -> 0..MaxEpoch]]
  /\ served \in [Generations -> 0..MaxEpoch]
  /\ cleaning \in 0..MaxCleaning
  /\ former \subseteq Workers
  /\ lost \subseteq Generations

Init ==
  /\ epoch = 0 /\ owner = Nobody /\ attempts = 0 /\ active = 0 /\ shown = 0
  /\ lock = Nobody
  /\ pc = [w \in Workers |-> "idle"]
  /\ mine = [w \in Workers |-> NoRefresh]
  /\ todo = [w \in Workers |-> {}]
  /\ nodes = {} /\ writer = NoEdges /\ served = [g \in Generations |-> 0]
  /\ cleaning = 0 /\ former = {} /\ lost = {}

Goto(w, step) == pc' = [pc EXCEPT ![w] = step]
Owns(w) == owner = w /\ epoch = mine[w].epoch
HasSession(w) == lock = w

NextEpoch == epoch + 1

\* ingest_commit: a new attempt under the next epoch.
Start(w) ==
  /\ pc[w] = "idle" /\ lock = Nobody /\ owner = Nobody
  /\ epoch < MaxEpoch /\ attempts < MaxAttempt
  /\ epoch' = NextEpoch /\ attempts' = attempts + 1 /\ owner' = w
  /\ mine' = [mine EXCEPT ![w] = [epoch |-> NextEpoch, gen |-> attempts + 1]]
  /\ Goto(w, "begun")
  /\ UNCHANGED <<active, shown, lock, todo, store, cleaning, former>>

\* adopt_expired_refresh: the pending generation goes on under the next epoch, whether its
\* former worker is gone or only late.
Adopt(w) ==
  /\ pc[w] = "idle" /\ lock = Nobody /\ owner # Nobody
  /\ epoch < MaxEpoch
  /\ epoch' = NextEpoch /\ owner' = w
  /\ mine' = [mine EXCEPT ![w] = [epoch |-> NextEpoch, gen |-> attempts]]
  /\ Goto(w, "begun")
  /\ UNCHANGED <<attempts, active, shown, lock, todo, store, cleaning, former>>

\* The first _renew_lease takes the row, for the refresh the row names.
Renew(w) ==
  /\ pc[w] = "begun" /\ lock = Nobody /\ Owns(w)
  /\ lock' = w
  /\ todo' = [todo EXCEPT ![w] = Edges]
  /\ Goto(w, "nodes")
  /\ UNCHANGED <<rows, mine, store, cleaning, former>>

\* write_graph up to its edges.
WriteNodes(w) ==
  /\ pc[w] = "nodes"
  /\ nodes' = nodes \cup {mine[w].gen}
  /\ lost' = IF HasSession(w) THEN lost \ {mine[w].gen} ELSE lost
  /\ Goto(w, "write")
  /\ UNCHANGED <<rows, lock, mine, todo, writer, served, cleaning, former>>

\* What the builder of a former life does to a generation.
Touches(w) == lost' = IF w \in former THEN lost \cup {mine[w].gen} ELSE lost

\* _write_edges, batch by batch: an edge is taken over only from an older epoch, and merged
\* only between nodes that are there.
TakesOver(old, e) == IF old < e THEN e ELSE old
WriteEdges(w) ==
  /\ pc[w] = "write"
  /\ LET g == mine[w].gen
     IN  \E batch \in SUBSET todo[w] \ {{}} :
           /\ writer' = [writer EXCEPT ![g] = [e \in Edges |->
                            IF e \in batch /\ g \in nodes THEN TakesOver(@[e], mine[w].epoch) ELSE @[e]]]
           /\ todo' = [todo EXCEPT ![w] = @ \ batch]
           /\ Goto(w, IF batch = todo[w] THEN "prune" ELSE "write")
  /\ Touches(w)
  /\ UNCHANGED <<rows, lock, mine, nodes, served, cleaning, former>>

\* delete_edges_outside_expected.
PrunesOthers(old, e) == old # e   \* mutant
Outdated(old, e) == old < e
Prune(w) ==
  /\ pc[w] = "prune"
  /\ LET g == mine[w].gen
     IN  writer' = [writer EXCEPT ![g] = [e \in Edges |->
                      IF Outdated(@[e], mine[w].epoch) THEN 0 ELSE @[e]]]
  /\ Touches(w)
  /\ Goto(w, "verify")
  /\ UNCHANGED <<rows, lock, mine, todo, nodes, served, cleaning, former>>

\* current_epoch_edge_ids against the expected set, then the catalogue checks.
Present(g, e) == {x \in Edges : writer[g][x] = e}
Verify(w) ==
  /\ pc[w] = "verify"
  /\ Present(mine[w].gen, mine[w].epoch) = Edges
  /\ Goto(w, "check")
  /\ UNCHANGED <<rows, lock, mine, todo, store, cleaning, former>>

AssertCatalog(w) ==
  /\ pc[w] = "check" /\ HasSession(w)
  /\ Goto(w, "publish")
  /\ UNCHANGED <<rows, lock, mine, todo, store, cleaning, former>>

\* publish_graph_epoch: whatever the node says, if there is one.
Publish(w) ==
  /\ pc[w] = "publish"
  /\ served' = [served EXCEPT ![mine[w].gen] = IF mine[w].gen \in nodes THEN mine[w].epoch ELSE @]
  /\ Touches(w)
  /\ Goto(w, "activate")
  /\ UNCHANGED <<rows, lock, mine, todo, nodes, writer, cleaning, former>>

Leaves(w) ==
  /\ Goto(w, "idle")
  /\ mine' = [mine EXCEPT ![w] = NoRefresh] /\ todo' = [todo EXCEPT ![w] = {}]
  /\ former' = former \ {w}
  /\ lock' = IF lock = w THEN Nobody ELSE lock

\* The last renewal, activate_generation and the commit.
Activate(w) ==
  /\ pc[w] = "activate" /\ HasSession(w)
  /\ active' = mine[w].gen /\ shown' = mine[w].epoch /\ owner' = Nobody
  /\ Leaves(w)
  /\ UNCHANGED <<epoch, attempts, store, cleaning>>

\* A step that raises: rollback, and the refresh ends if it is still this worker's.
Fails(w) ==
  /\ pc[w] # "idle" /\ lock \in {w, Nobody}
  /\ owner' = IF Owns(w) THEN Nobody ELSE owner
  /\ Leaves(w)
  /\ UNCHANGED <<epoch, attempts, active, shown, store, cleaning>>

\* The server dies in the middle of a build: the graph keeps what was written.
Crash(w) ==
  /\ pc[w] # "idle"
  /\ Leaves(w)
  /\ UNCHANGED <<rows, store, cleaning>>

\* The database ends the session of a builder that talks to Neo4j.
Drops(w) ==
  /\ SessionsMayDrop /\ lock = w
  /\ lock' = Nobody
  /\ UNCHANGED <<rows, pc, mine, todo, store, cleaning, former>>

\* purge_repository: its DELETE waits for the row, and for nobody who has not taken it.
Purge ==
  /\ attempts > 0 /\ lock = Nobody /\ cleaning < MaxCleaning
  /\ epoch' = 0 /\ owner' = Nobody /\ attempts' = 0 /\ active' = 0 /\ shown' = 0
  /\ cleaning' = cleaning + 1
  /\ former' = {w \in Workers : pc[w] # "idle"}
  /\ UNCHANGED <<lock, pc, mine, todo, store>>

\* delete_repository_graph, of whatever life the graph is by then; or the purge stops before
\* it and the graph stays.
DeleteGraph ==
  /\ cleaning > 0
  /\ \/ nodes' = {} /\ writer' = NoEdges /\ served' = [g \in Generations |-> 0] /\ lost' = Generations
     \/ UNCHANGED store
  /\ cleaning' = cleaning - 1
  /\ UNCHANGED <<rows, lock, pc, mine, todo, former>>

Next ==
  \/ \E w \in Workers :
       \/ Start(w) \/ Adopt(w) \/ Renew(w) \/ WriteNodes(w) \/ WriteEdges(w) \/ Prune(w) \/ Verify(w)
       \/ AssertCatalog(w) \/ Publish(w) \/ Activate(w) \/ Fails(w) \/ Crash(w) \/ Drops(w)
  \/ Purge \/ DeleteGraph

Spec == Init /\ [][Next]_vars

-----------------------------------------------------------------------------
(* Every edge of the active generation bears the epoch of its activation,  *)
(* whoever adopted the refresh, failed or crashed, and whatever graph a    *)
(* former life left behind: what a builder has verified stays so under     *)
(* every other builder of its life, those included that lost their session *)
(* and go on with Neo4j.  Only a former life can harm it: the late         *)
(* clean-up of a purge, or a builder that outlived one.                    *)
ActiveEdgesAgree ==
  active \notin lost \cup {0} => \A e \in Edges : writer[active][e] = shown

(* And questions read them: all of them where a builder keeps its session; *)
(* where it may lose it, all or none, for it may publish its old epoch     *)
(* over its successor's.                                                   *)
ActiveIsServed ==
  active \notin lost \cup {0} => served[active] = shown

(* What questions depend on, in both.                                      *)
GraphWhole == ActiveEdgesAgree /\ (~SessionsMayDrop => ActiveIsServed)
=============================================================================
