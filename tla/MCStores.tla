------------------------------ MODULE MCStores ------------------------------
(***************************************************************************)
(* The parts that change rows, trees and graph nodes: repository           *)
(* lifecycle, reader pins and graph epochs.  They share no state in the    *)
(* abstractions chosen for them, so one specification has them side by     *)
(* side, each with its theorems: `part' says which one moves, and the      *)
(* others stay where they begin.                                           *)
(***************************************************************************)
EXTENDS Naturals, FiniteSets, TLC

CONSTANTS None,
          Workers,                               \* requests, builders
          Users, Lone, MaxLife, MaxRefresh,      \* clients; those of a repository that comes back
          Askers, Collectors, PinnedGens, Revisions, Revision, First, PinLife, Lease, MaxTime,
          Edges, MaxEpoch, MaxAttempt, MaxCleaning   \* of the graph

VARIABLES part,
          repo, revision, member, account, lives, stored, rowLock, doing, req,
          now, reading, refresh, generation, tree_of, pin, tree, lock, at, local, overtaken,
          epoch, owner, attempts, serving, shown, writing_row, step, mine, todo,
          nodes, writer, served, cleaning, former, lost

lifecycle == <<repo, revision, member, account, lives, stored, rowLock, doing, req>>
pins == <<now, reading, refresh, generation, tree_of, pin, tree, lock, at, local, overtaken>>
graph == <<epoch, owner, attempts, serving, shown, writing_row, step, mine, todo,
           nodes, writer, served, cleaning, former, lost>>
vars == <<part, lifecycle, pins, graph>>

\* Clients that join and delete a repository that comes back; one that also indexes it.
Clients == INSTANCE LifecycleProofs WITH MaxEpoch <- 0, pc <- doing
Again == INSTANCE LifecycleProofs WITH Users <- Lone, MaxEpoch <- MaxRefresh, pc <- doing

Pins == INSTANCE ReaderPinsProofs
  WITH Generations <- PinnedGens, DeletionInLease <- TRUE, active <- reading, revision <- tree_of, pc <- at

\* A builder that keeps its session, and one that may lose it and go on.
Epochs == INSTANCE GraphEpochProofs
  WITH Nobody <- None, SessionsMayDrop <- FALSE, active <- serving, lock <- writing_row, pc <- step
Drops == INSTANCE GraphEpochProofs
  WITH Nobody <- None, SessionsMayDrop <- TRUE, MaxEpoch <- MaxRefresh, Edges <- Lone,
       active <- serving, lock <- writing_row, pc <- step

\* What the theorems about the parts take their constants to be.
ASSUME StoresAssumption ==
  /\ Clients!LifecycleAssumption /\ Again!LifecycleAssumption
  /\ Pins!PinsAssumption /\ Epochs!EpochAssumption /\ Drops!EpochAssumption

Init ==
  /\ part \in {"clients", "again", "pins", "epochs", "drops"}
  /\ IF part = "clients" THEN Clients!Init ELSE Again!Init
  /\ Pins!Init
  /\ IF part = "drops" THEN Drops!Init ELSE Epochs!Init

Next ==
  /\ UNCHANGED part
  /\ \/ part = "clients" /\ Clients!Next /\ UNCHANGED <<pins, graph>>
     \/ part = "again" /\ Again!Next /\ UNCHANGED <<pins, graph>>
     \/ part = "pins" /\ Pins!Next /\ UNCHANGED <<lifecycle, graph>>
     \/ part = "epochs" /\ Epochs!Next /\ UNCHANGED <<lifecycle, pins>>
     \/ part = "drops" /\ Drops!Next /\ UNCHANGED <<lifecycle, pins>>

Spec == Init /\ [][Next]_vars

-----------------------------------------------------------------------------
\* Rows, requests, pins, locks, edges and epochs of the part that moves are of their types.
TypeOK ==
  /\ part = "clients" => Clients!TypeOK
  /\ part = "again" => Again!TypeOK
  /\ part = "pins" => Pins!TypeOK
  /\ part = "epochs" => Epochs!TypeOK
  /\ part = "drops" => Drops!TypeOK

\* Of the clients whose join began in the present life of the repository exactly one is its
\* owner, the one whose first index inserted the row, however joins, deletions and new first
\* indexes of its URL interleave: _join decides on the role from three reads that its commit
\* may find outdated.
OneOwner == IF part = "clients" THEN Clients!OneOwner ELSE Again!OneOwner

\* A purge that saw no refresh in the row never removes a repository whose refresh began
\* since: purge_repository checked the lease on the copy its session had loaded.
PurgeSparesNewRefresh == [][part = "again" => Again!PurgeSparesNewRefresh]_vars

\* What questions read has its tree: no sequence of claims, deletions, recoveries and builds
\* leaves the active generation without it, while a deletion stays in its lease.
ActiveHasTree == Pins!ActiveHasTree

\* What a live pin reads stays: its generation is not claimed and its tree is in place,
\* however insertions, renewals, claims, deletions and builds interleave - unless the pin was
\* itself written over a claim, on copies that the session had loaded before it.
PinnedStays == Pins!PinnedStays

\* Every edge of the active generation bears the epoch of its activation, whoever adopted the
\* refresh, failed or crashed, whatever a former life left behind, and though a builder that
\* lost its session may go on writing to Neo4j; where builders keep their sessions the node
\* publishes that epoch, so that questions read them all.  Only the late clean-up of a purge,
\* or a builder that outlived one, takes it away.
GraphWhole ==
  /\ part = "epochs" => Epochs!GraphWhole
  /\ part = "drops" => Drops!GraphWhole

-----------------------------------------------------------------------------
(* The instance: two requests of two clients whose repository comes back,  *)
(* or of one that also indexes it; three generations, the first and the    *)
(* third of one revision, with one question and one collector; two         *)
(* builders, two edges - one where sessions may be lost - and purges that  *)
(* are late with their clean-up.                                           *)
CONSTANTS w1, w2, u1, u2, g1, g2, g3, r1, r2

TwoOfThree == g1 :> r1 @@ g2 :> r2 @@ g3 :> r1

\* Requests and clients are interchangeable, and so are builders and relationships.
Symmetry == Permutations({w1, w2}) \cup Permutations({u1, u2})
=============================================================================
