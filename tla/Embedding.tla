------------------------------- MODULE Embedding -------------------------------
(***************************************************************************)
(* The vectors of a build: the chunks of its catalogue, and those it put   *)
(* off, are embedded batch by batch; a chunk whose point is already in the *)
(* collection, from another generation or an attempt that failed, is not   *)
(* embedded again (ingestion/pipeline.py, embedding_reuse.py,              *)
(* vector_store.py).  Points are written at once, rows with the commit.    *)
(*                                                                         *)
(* A builder holds the repository's row until it activates; its session    *)
(* may end without its noticing before the next statement, and its refresh *)
(* may be adopted.  Meanwhile questions embed chunks of the active         *)
(* generation, and the deletion of a former life of the repository may     *)
(* reach the collection late.                                              *)
(***************************************************************************)
EXTENDS Naturals, Sequences, SequencesExt, FiniteSets

CONSTANTS Workers, Nobody,
          Catalogue, Deferred,   \* the chunks of a draft, in its order
          Input,                 \* embedding_input_hash of a chunk in a generation
          Batch,                 \* chunks of a batch
          MaxGen                 \* bound on the generations

EmbeddingAssumption ==
  /\ Nobody \notin Workers /\ Batch \in Nat \ {0} /\ MaxGen \in Nat \ {0}
  /\ Catalogue \in Seq(ToSet(Catalogue)) /\ Deferred \in Seq(ToSet(Deferred))

VARIABLES points,    \* what the collection holds
          row,       \* committed vector_status of a generation's chunks, "none" without a row
          active,    \* the generation questions read, 0 at first
          settings,  \* of the process
          last,      \* the latest generation
          owner, holder,   \* of the refresh; of the repository's row
          pc, gen, left, known, lack, mine, alive,   \* a builder's step, work and session
          job,       \* what a question is embedding
          dropped, since   \* the late deletion; the generations finished after it
build == <<pc, gen, left, known, lack, mine, alive>>
vars == <<points, row, active, settings, last, owner, holder, build, job, dropped, since>>

Generations == 1..MaxGen
Chunks == ToSet(Catalogue) \cup ToSet(Deferred)
PutOff == IF settings.progressive THEN Deferred ELSE <<>>
Key(g, c) == <<c, Input[g][c]>>
Held(g, S) == {c \in S : Key(g, c) \in points}
NoRows == [c \in Chunks |-> "none"]
NoJob == [gen |-> 0, chunk |-> Nobody]
Early == PutOff # <<>> \/ ~settings.embedFirst   \* catalogue_queryable

Init ==
  /\ points \in SUBSET {Key(1, c) : c \in Chunks}
  /\ row = [g \in Generations |-> NoRows] /\ active = 0 /\ last = 0
  /\ settings \in [progressive : BOOLEAN, embedFirst : BOOLEAN, store : BOOLEAN, complete : BOOLEAN]
  /\ owner = Nobody /\ holder = Nobody
  /\ pc = [w \in Workers |-> "idle"] /\ gen = [w \in Workers |-> 0]
  /\ left = [w \in Workers |-> <<>>]
  /\ known = [w \in Workers |-> {}] /\ lack = [w \in Workers |-> {}]
  /\ mine = [w \in Workers |-> NoRows] /\ alive = [w \in Workers |-> FALSE]
  /\ job = NoJob /\ dropped = FALSE /\ since = {}

-----------------------------------------------------------------------------
\* What a builder's session sees, and what its commit leaves: its own rows over the committed ones.
View(w) == [c \in Chunks |-> IF mine[w][c] # "none" THEN mine[w][c] ELSE row[gen[w]][c]]
Goto(w, step) == pc' = [pc EXCEPT ![w] = step]
BatchOf(w) == ToSet(SubSeq(left[w], 1, IF Len(left[w]) < Batch THEN Len(left[w]) ELSE Batch))
Rest(w) == SubSeq(left[w], Batch + 1, Len(left[w]))
AfterCatalogue == IF settings.embedFirst /\ Catalogue # <<>> THEN "lookup" ELSE "activate"

\* A new refresh, or the adoption of one whose lease has expired: the rows of the draft are inserted,
\* those of the chunks put off only when they are to be stored.
Inserted == [c \in Chunks |-> IF c \in ToSet(Catalogue) \/ (c \in ToSet(PutOff) /\ settings.store)
                              THEN "pending" ELSE "none"]
Begin(w, g) ==
  /\ gen' = [gen EXCEPT ![w] = g] /\ owner' = w /\ holder' = w
  /\ alive' = [alive EXCEPT ![w] = TRUE] /\ mine' = [mine EXCEPT ![w] = Inserted]
  /\ left' = [left EXCEPT ![w] = Catalogue] /\ Goto(w, AfterCatalogue)
  /\ UNCHANGED <<points, row, active, settings, known, lack, job, dropped, since>>
Start(w) == /\ pc[w] = "idle" /\ owner = Nobody /\ holder = Nobody /\ last < MaxGen
            /\ last' = last + 1 /\ Begin(w, last + 1)
Adopt(w) == /\ pc[w] = "idle" /\ owner # Nobody /\ holder = Nobody
            /\ Begin(w, last) /\ UNCHANGED last

-----------------------------------------------------------------------------
\* embed_chunks_with_reuse: the points that bear the chunk's id and input, then their vectors; what
\* has none by then is embedded.
Lookup(w) ==
  /\ pc[w] = "lookup" /\ Goto(w, "embed")
  /\ known' = [known EXCEPT ![w] = Held(gen[w], BatchOf(w))]
  /\ UNCHANGED <<points, row, active, settings, last, owner, holder, gen, left, lack, mine, alive, job, dropped, since>>
OnlyReused(w) == Held(gen[w], known[w])   \* mutant: a point gone since the lookup leaves no vector
Vectors(w) == Held(gen[w], known[w]) \cup (BatchOf(w) \ Held(gen[w], known[w]))
Embed(w) ==
  /\ pc[w] = "embed" /\ Goto(w, "look")
  /\ known' = [known EXCEPT ![w] = Vectors(w)]
  /\ UNCHANGED <<points, row, active, settings, last, owner, holder, gen, left, lack, mine, alive, job, dropped, since>>

\* upsert_missing_points: the points there are stay as they are; a chunk without one needs a vector.
Look(w) ==
  /\ pc[w] = "look" /\ Goto(w, "put")
  /\ lack' = [lack EXCEPT ![w] = BatchOf(w) \ Held(gen[w], BatchOf(w))]
  /\ UNCHANGED <<points, row, active, settings, last, owner, holder, gen, left, known, mine, alive, job, dropped, since>>
Put(w) ==
  /\ pc[w] = "put" /\ lack[w] \subseteq known[w] /\ Goto(w, "mark")
  /\ points' = points \cup {Key(gen[w], c) : c \in lack[w]}
  /\ UNCHANGED <<row, active, settings, last, owner, holder, gen, left, known, lack, mine, alive, job, dropped, since>>

\* mark_vectors_ready, in the session: the rows that exist.  Then the next batch.
Marked(w) == [c \in Chunks |-> IF c \in BatchOf(w) \cap known[w] /\ View(w)[c] # "none" THEN "ready" ELSE mine[w][c]]
Mark(w) ==
  /\ pc[w] = "mark" /\ alive[w]
  /\ mine' = [mine EXCEPT ![w] = Marked(w)] /\ left' = [left EXCEPT ![w] = Rest(w)]
  /\ Goto(w, CASE Rest(w) # <<>> -> "lookup"
               [] Rest(w) = <<>> /\ holder = w -> "activate"
               [] OTHER -> "assert")
  /\ UNCHANGED <<points, row, active, settings, last, owner, holder, gen, known, lack, alive, job, dropped, since>>

-----------------------------------------------------------------------------
\* activate_generation; committed at once when questions may use the catalogue before all is embedded.
\* Then the chunks put off, if this build is to embed them.
Commit(w) ==
  /\ row' = [row EXCEPT ![gen[w]] = View(w)] /\ active' = gen[w]
  /\ owner' = Nobody /\ holder' = Nobody
Activate(w) ==
  /\ pc[w] = "activate" /\ alive[w] /\ owner = w
  /\ IF Early THEN Commit(w) /\ mine' = [mine EXCEPT ![w] = NoRows]
     ELSE UNCHANGED <<row, active, owner, holder, mine>>
  /\ Goto(w, IF settings.complete /\ PutOff # <<>> THEN "append" ELSE "assert")
  /\ UNCHANGED <<points, settings, last, gen, left, known, lack, alive, job, dropped, since>>
Appended(w) == [c \in Chunks |-> IF c \in ToSet(PutOff) /\ row[gen[w]][c] = "none" THEN "pending" ELSE "none"]
AppendDeferred(w) ==
  /\ pc[w] = "append" /\ alive[w] /\ Goto(w, "lookup")
  /\ mine' = [mine EXCEPT ![w] = Appended(w)] /\ left' = [left EXCEPT ![w] = PutOff]
  /\ UNCHANGED <<points, row, active, settings, last, owner, holder, gen, known, lack, alive, job, dropped, since>>

\* _assert_points: the rows that are ready, of the chunks this build has indexed, have their points.
Unchecked(w) == {}   \* mutant
Indexed == ToSet(Catalogue) \cup (IF settings.complete THEN ToSet(PutOff) ELSE {})
ToCheck(w) == {c \in Indexed : View(w)[c] = "ready"}
Finish(w) ==
  /\ pc[w] = "assert" /\ alive[w] /\ ToCheck(w) \subseteq Held(gen[w], Chunks)
  /\ IF holder = w THEN Commit(w)
     ELSE row' = [row EXCEPT ![gen[w]] = View(w)] /\ UNCHANGED <<active, owner, holder>>
  /\ since' = IF dropped THEN since \cup {gen[w]} ELSE since
  /\ mine' = [mine EXCEPT ![w] = NoRows] /\ alive' = [alive EXCEPT ![w] = FALSE]
  /\ gen' = [gen EXCEPT ![w] = 0] /\ left' = [left EXCEPT ![w] = <<>>]
  /\ known' = [known EXCEPT ![w] = {}] /\ lack' = [lack EXCEPT ![w] = {}]
  /\ Goto(w, "idle")
  /\ UNCHANGED <<points, settings, last, job, dropped>>

\* A step that raises: rollback and, if the refresh is still this builder's, its end.  A process that
\* dies leaves the refresh to an adopter.
Forget(w) ==
  /\ pc[w] # "idle" /\ Goto(w, "idle")
  /\ mine' = [mine EXCEPT ![w] = NoRows] /\ alive' = [alive EXCEPT ![w] = FALSE]
  /\ gen' = [gen EXCEPT ![w] = 0] /\ left' = [left EXCEPT ![w] = <<>>]
  /\ known' = [known EXCEPT ![w] = {}] /\ lack' = [lack EXCEPT ![w] = {}]
  /\ holder' = IF holder = w THEN Nobody ELSE holder
  /\ UNCHANGED <<points, row, active, settings, last, job, dropped, since>>
Fails(w) == Forget(w) /\ holder \in {w, Nobody} /\ owner' = IF owner = w THEN Nobody ELSE owner
Dies(w) == Forget(w) /\ UNCHANGED owner
LosesSession(w) ==
  /\ alive[w] /\ alive' = [alive EXCEPT ![w] = FALSE] /\ mine' = [mine EXCEPT ![w] = NoRows]
  /\ holder' = IF holder = w THEN Nobody ELSE holder
  /\ UNCHANGED <<points, row, active, settings, last, owner, pc, gen, left, known, lack, job, dropped, since>>

-----------------------------------------------------------------------------
\* ensure_chunk_vectors: a question stores the point of a chunk that is not ready, then marks the row;
\* a row that a builder has not committed makes it wait.
AskPut ==
  /\ active # 0 /\ job = NoJob
  /\ \E c \in ToSet(Catalogue) \cup ToSet(PutOff) :
       /\ row[active][c] # "ready"
       /\ job' = [gen |-> active, chunk |-> c] /\ points' = points \cup {Key(active, c)}
  /\ UNCHANGED <<row, active, settings, last, owner, holder, build, dropped, since>>
Locked(g, c) == \E w \in Workers : alive[w] /\ gen[w] = g /\ mine[w][c] # "none"
AskMark ==
  /\ job # NoJob /\ ~Locked(job.gen, job.chunk)
  /\ row' = [row EXCEPT ![job.gen][job.chunk] = "ready"] /\ job' = NoJob
  /\ UNCHANGED <<points, active, settings, last, owner, holder, build, dropped, since>>
AskFails == /\ job # NoJob /\ job' = NoJob
            /\ UNCHANGED <<points, row, active, settings, last, owner, holder, build, dropped, since>>

\* delete_points_for_repository, of a deletion whose rows were gone before this life began.
Drop == /\ ~dropped /\ dropped' = TRUE /\ points' = {}
        /\ UNCHANGED <<row, active, settings, last, owner, holder, build, job, since>>

Next == \/ \E w \in Workers : \/ Start(w) \/ Adopt(w) \/ Lookup(w) \/ Embed(w) \/ Look(w) \/ Put(w) \/ Mark(w)
                              \/ Activate(w) \/ AppendDeferred(w) \/ Finish(w)
                              \/ Fails(w) \/ Dies(w) \/ LosesSession(w)
        \/ AskPut \/ AskMark \/ AskFails \/ Drop
Spec == Init /\ [][Next]_vars

-----------------------------------------------------------------------------
TypeOK ==
  /\ points \subseteq {Key(g, c) : g \in Generations, c \in Chunks}
  /\ row \in [Generations -> [Chunks -> {"none", "pending", "ready"}]]
  /\ mine \in [Workers -> [Chunks -> {"none", "pending", "ready"}]]
  /\ active \in 0..last /\ last \in 0..MaxGen
  /\ holder # Nobody => holder = owner /\ alive[holder]
  /\ \A w \in Workers : known[w] \cup lack[w] \subseteq Chunks

\* A row that says ready has its vector, of its own input, whatever build or question stored it and
\* wherever it was interrupted.
ReadyHasPoint ==
  ~dropped => \A g \in Generations, c \in Chunks : row[g][c] = "ready" => Key(g, c) \in points

\* A build that ends well after the late deletion has all its vectors, also those it had marked before.
FinishedIsWhole ==
  settings.embedFirst => \A g \in since, c \in ToSet(Catalogue) : Key(g, c) \in points

\* When builds embed first, questions find the whole catalogue of the active generation embedded.
EmbeddedFirst ==
  settings.embedFirst /\ active # 0 => \A c \in ToSet(Catalogue) : row[active][c] = "ready"
=============================================================================
