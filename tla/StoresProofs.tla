---------------------------- MODULE StoresProofs -----------------------------
(***************************************************************************)
(* What the stores run checks, for all requests, clients, generations,     *)
(* revisions, edges and bounds: each part runs by its own specification,   *)
(* of which LifecycleProofs, ReaderPinsProofs and GraphEpochProofs prove   *)
(* what is asked.                                                          *)
(***************************************************************************)
EXTENDS MCStores, TLAPS

-----------------------------------------------------------------------------
(* The part that moves is chosen once, and moves by its own rules.         *)

LEMMA ClientsRun == Spec => (part = "clients" => Clients!Spec /\ [](part = "clients"))
<1>1. Init => (part = "clients" => Clients!Init)
  BY DEF Init
<1>2. part = "clients" /\ [Next]_vars => (part = "clients")' /\ [Clients!Next]_Clients!vars
  BY DEF Next, vars, lifecycle, Clients!vars, Clients!rows
<1> QED BY <1>1, <1>2, PTL DEF Spec, Clients!Spec

LEMMA AgainRuns == Spec => (~(part = "clients") => Again!Spec /\ [](~(part = "clients")))
<1>1. Init => (~(part = "clients") => Again!Init)
  BY DEF Init
<1>2. ~(part = "clients") /\ [Next]_vars => (~(part = "clients"))' /\ [Again!Next]_Again!vars
  BY DEF Next, vars, lifecycle, Again!vars, Again!rows
<1> QED BY <1>1, <1>2, PTL DEF Spec, Again!Spec

LEMMA PinsRun == Spec => Pins!Spec
<1>1. Init => Pins!Init
  BY DEF Init
<1>2. [Next]_vars => [Pins!Next]_Pins!vars
  BY DEF Next, vars, pins, Pins!vars, Pins!rows
<1> QED BY <1>1, <1>2, PTL DEF Spec, Pins!Spec

LEMMA EpochsRun == Spec => (~(part = "drops") => Epochs!Spec /\ [](~(part = "drops")))
<1>1. Init => (~(part = "drops") => Epochs!Init)
  BY DEF Init
<1>2. ~(part = "drops") /\ [Next]_vars => (~(part = "drops"))' /\ [Epochs!Next]_Epochs!vars
  BY DEF Next, vars, graph, Epochs!vars, Epochs!rows, Epochs!store
<1> QED BY <1>1, <1>2, PTL DEF Spec, Epochs!Spec

LEMMA DropsRun == Spec => (part = "drops" => Drops!Spec /\ [](part = "drops"))
<1>1. Init => (part = "drops" => Drops!Init)
  BY DEF Init
<1>2. part = "drops" /\ [Next]_vars => (part = "drops")' /\ [Drops!Next]_Drops!vars
  BY DEF Next, vars, graph, Drops!vars, Drops!rows, Drops!store
<1> QED BY <1>1, <1>2, PTL DEF Spec, Drops!Spec

-----------------------------------------------------------------------------
\* Rows, requests, pins, locks, edges and epochs are of their types, whichever part moves.
THEOREM TypeCorrect == Spec => []TypeOK
<1>1. Clients!Spec => []Clients!TypeOK
  BY StoresAssumption, Clients!TypeCorrect
<1>2. Again!Spec => []Again!TypeOK
  BY StoresAssumption, Again!TypeCorrect
<1>3. Pins!Spec => []Pins!TypeOK
  BY StoresAssumption, Pins!TypeCorrect
<1>4. Epochs!Spec => []Epochs!TypeOK
  BY StoresAssumption, Epochs!TypeCorrect
<1>5. Drops!Spec => []Drops!TypeOK
  BY StoresAssumption, Drops!TypeCorrect
<1>6. /\ part = "clients" => Clients!TypeOK
      /\ ~(part = "clients") => Again!TypeOK
      /\ Pins!TypeOK
      /\ part = "drops" => Drops!TypeOK
      /\ ~(part = "drops") => Epochs!TypeOK
      => TypeOK
  BY DEF TypeOK
<1> QED
  BY <1>1, <1>2, <1>3, <1>4, <1>5, <1>6, ClientsRun, AgainRuns, PinsRun, EpochsRun, DropsRun, PTL

\* Of the clients whose join began in the present life of the repository exactly one is its
\* owner, whoever joins, leaves, purges it or indexes its URL for the first time again
\* (the three reads and the commit of _join, leave, purge_repository).
THEOREM OneOwnerStays == Spec => []OneOwner
<1>1. Clients!Spec => []Clients!OneOwner
  BY StoresAssumption, Clients!OneOwnerStays
<1>2. Again!Spec => []Again!OneOwner
  BY StoresAssumption, Again!OneOwnerStays
<1>3. (part = "clients" => Clients!OneOwner) /\ (~(part = "clients") => Again!OneOwner) => OneOwner
  BY DEF OneOwner
<1> QED BY <1>1, <1>2, <1>3, ClientsRun, AgainRuns, PTL

\* No purge removes a repository whose refresh began after the purge loaded the row, in any number
\* of lives of the URL (purge_repository goes by that copy).
THEOREM PurgeSparesRefresh == Spec => PurgeSparesNewRefresh
<1>1. Again!Spec => [][Again!PurgeSparesNewRefresh]_Again!vars
  BY StoresAssumption, Again!PurgeSparesRefresh
<1>2. [Again!PurgeSparesNewRefresh]_Again!vars => [part = "again" => Again!PurgeSparesNewRefresh]_vars
  BY DEF vars, lifecycle, Again!vars, Again!rows, Again!PurgeSparesNewRefresh, Again!Purges
<1>3. part = "clients" => [part = "again" => Again!PurgeSparesNewRefresh]_vars
  OBVIOUS
<1> QED BY <1>1, <1>2, <1>3, ClientsRun, AgainRuns, PTL DEF PurgeSparesNewRefresh

\* What questions read has its tree, with any number of generations, collectors and builds, while
\* each deletion stays in the lease of its own claim (claims.py).
THEOREM ActiveTreeKept == Spec => []ActiveHasTree
<1>1. Pins!Spec => []Pins!ActiveHasTree
  BY StoresAssumption, Pins!ActiveTreeKept
<1> QED BY <1>1, PinsRun, PTL DEF ActiveHasTree

\* What a live pin reads stays claimed by nobody and in place, unless the pin was written over a
\* claim (claim_garbage_collection, insert_reader_pin, renew_reader_pin).
THEOREM PinnedStay == Spec => []PinnedStays
<1>1. Pins!Spec => []Pins!PinnedStays
  BY StoresAssumption, Pins!PinnedStay
<1> QED BY <1>1, PinsRun, PTL DEF PinnedStays

\* The graph that questions read is whole, for builders that keep their session and for those that
\* lose it and go on, until the clean-up of a former life is late or one of its builders is
\* (publish_graph_epoch, delete_edges_outside_expected, delete_repository_graph).
THEOREM GraphStaysWhole == Spec => []GraphWhole
<1>1. Epochs!Spec => []Epochs!GraphWhole
  BY StoresAssumption, Epochs!GraphStaysWhole
<1>2. Drops!Spec => []Drops!GraphWhole
  BY StoresAssumption, Drops!GraphStaysWhole
<1>3. (~(part = "drops") => Epochs!GraphWhole) /\ (part = "drops" => Drops!GraphWhole) => GraphWhole
  BY DEF GraphWhole
<1> QED BY <1>1, <1>2, <1>3, EpochsRun, DropsRun, PTL
=============================================================================
