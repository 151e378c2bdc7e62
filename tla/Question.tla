------------------------------ MODULE Question ------------------------------
(***************************************************************************)
(* Questions of one indexed generation, from the route to the last step    *)
(* before the model is asked (api/v1/routes/ask.py, retrieval/answer.py),  *)
(* and the search bodies they create on the way.  A progressive index      *)
(* leaves the bodies of most symbols out; a question parses those it needs *)
(* from the tree, inserts their rows (ingestion/chunk_materialize.py,      *)
(* persist.py), writes their vectors to Qdrant (lazy_vectors.py,           *)
(* embedding_reuse.py, vector_store.py) and marks the rows ready, all in   *)
(* the one database session of its request.                                *)
(*                                                                         *)
(* Questions run concurrently and want the same symbols.  An insert waits  *)
(* for another session's uncommitted row of the same key, and fails if     *)
(* that session commits; an update waits for the row's lock; PostgreSQL    *)
(* ends a cycle of waits by failing one of its members.  A failed flush    *)
(* leaves the SQLAlchemy session unusable ("broken"), a failed statement   *)
(* leaves the transaction aborted: only a commit, which PostgreSQL turns   *)
(* into a rollback, gets out of that one.                                  *)
(*                                                                         *)
(* Time is abstract: a pin may fall due whenever the question is open.     *)
(***************************************************************************)
EXTENDS Naturals, Sequences, SequencesExt, Lists

CONSTANTS Questions,   \* the requests
          Symbols      \* the symbols whose bodies the index left out

QuestionAssumption == IsFiniteSet(Symbols)

VARIABLES row,      \* committed generation_chunks row of a symbol's body
          points,   \* symbols whose vector is in Qdrant
          at,       \* the stage a question has reached
          job,      \* what it does inside materialize_symbol_chunks
          todo,     \* the rows it still has to insert
          lack,     \* the chunks it still has to embed and to mark
          mine,     \* its uncommitted rows
          tx,       \* its session: "ok", "aborted" or "broken"
          pin,      \* its reader pin
          hydrated, \* bodies its hydrate stage committed
          saw,      \* bodies its search lanes could read
          fault,    \* something outside the program failed it
          status    \* the HTTP status it ended with, 0 before

store == <<row, points>>
work  == <<job, todo, lack, mine, tx>>
vars  == <<row, points, at, job, todo, lack, mine, tx, pin, hydrated, saw, fault, status>>

RowStatus == {"none", "pending", "ready"}
Stages == {"open", "route", "hydrate", "warm", "lanes", "retry", "anchors",
           "edges", "named", "load", "compose", "end"}
After == [open |-> "route", route |-> "hydrate", hydrate |-> "warm", warm |-> "lanes",
          lanes |-> "retry", retry |-> "anchors", anchors |-> "edges",
          edges |-> "named", named |-> "load", load |-> "compose"]
NoRows == [s \in Symbols |-> "none"]

TypeOK ==
  /\ row \in [Symbols -> RowStatus] /\ points \subseteq Symbols
  /\ at \in [Questions -> Stages]
  /\ job \in [Questions -> {"none", "parse", "insert", "embed", "mark"}]
  /\ todo \in [Questions -> Seq(Symbols)] /\ lack \in [Questions -> SUBSET Symbols]
  /\ mine \in [Questions -> [Symbols -> RowStatus]]
  /\ tx \in [Questions -> {"ok", "aborted", "broken"}]
  /\ pin \in [Questions -> {"live", "due", "gone"}]
  /\ hydrated \in [Questions -> SUBSET Symbols] /\ saw \in [Questions -> SUBSET Symbols]
  /\ fault \in [Questions -> BOOLEAN]
  /\ status \in [Questions -> {0, 200, 408, 409, 500, 503}]

\* Questions at their stages that have created nothing so far.
StartsAt(stages) ==
  /\ row = NoRows /\ points = {}
  /\ at = stages
  /\ job = [q \in Questions |-> "none"]
  /\ todo = [q \in Questions |-> <<>>] /\ lack = [q \in Questions |-> {}]
  /\ mine = [q \in Questions |-> NoRows]
  /\ tx = [q \in Questions |-> "ok"]
  /\ pin = [q \in Questions |-> "live"]
  /\ hydrated = [q \in Questions |-> {}] /\ saw = [q \in Questions |-> {}]
  /\ fault = [q \in Questions |-> FALSE] /\ status = [q \in Questions |-> 0]

Init == StartsAt([q \in Questions |-> "open"])

-----------------------------------------------------------------------------
(* What a session sees and what it waits for.                              *)

Visible(q, s) == IF mine[q][s] # "none" THEN mine[q][s] ELSE row[s]
MissingBodies(q) == {s \in Symbols : Visible(q, s) = "none"}
Unready(q) == {s \in Symbols : Visible(q, s) = "pending"}
Holders(q, s) == {r \in Questions \ {q} : mine[r][s] # "none"}

WaitsFor(q) ==
  IF job[q] = "insert" /\ todo[q] # <<>> THEN Holders(q, Head(todo[q]))
  ELSE IF job[q] = "mark" THEN UNION {Holders(q, s) : s \in lack[q]}
  ELSE {}

Merge(rows, own) == [s \in Symbols |-> IF own[s] # "none" THEN own[s] ELSE rows[s]]

\* db.commit(): the rows become everybody's; an aborted transaction is rolled back.
Commit(q) ==
  /\ row' = IF tx[q] = "ok" THEN Merge(row, mine[q]) ELSE row
  /\ mine' = [mine EXCEPT ![q] = NoRows]
  /\ tx' = [tx EXCEPT ![q] = "ok"]

\* The request ends: get_db closes the session, which rolls back.
ClosedLate(rows) == rows   \* mutant: the session is never closed
Closed(rows) == NoRows
Ends(q, code) ==
  /\ at' = [at EXCEPT ![q] = "end"]
  /\ status' = [status EXCEPT ![q] = code]
  /\ mine' = [mine EXCEPT ![q] = Closed(mine[q])]
  /\ job' = [job EXCEPT ![q] = "none"]
  /\ todo' = [todo EXCEPT ![q] = <<>>]
  /\ lack' = [lack EXCEPT ![q] = {}]
  /\ tx' = [tx EXCEPT ![q] = "ok"]

Moves(q) == at' = [at EXCEPT ![q] = After[at[q]]]
Idle(q, stage) == at[q] = stage /\ job[q] = "none"
Usable(q, stage) == Idle(q, stage) /\ tx[q] = "ok"

-----------------------------------------------------------------------------
(* The stages.                                                             *)

\* A question is served a pin; the generation may be one that cannot be searched.
Open(q) ==
  /\ Usable(q, "open") /\ pin[q] = "live"
  /\ \/ Moves(q) /\ UNCHANGED <<fault, status, work>>
     \/ Ends(q, 409) /\ fault' = [fault EXCEPT ![q] = TRUE]
  /\ UNCHANGED <<store, pin, hydrated, saw>>

\* The planner is asked at most twice; whatever it does the question has a route.
Route(q) ==
  /\ Usable(q, "route")
  /\ Moves(q)
  /\ UNCHANGED <<store, work, pin, hydrated, saw, fault, status>>

\* materialize_symbol_chunks for the bodies this session finds missing, in the order of
\* the question's hits; the warm and retry stages also embed rows that are pending.
WantedBodies(q) == UNION {SetToSeqs(S) : S \in SUBSET MissingBodies(q)}
Materialize(q, stage, pendings) ==
  /\ Usable(q, stage)
  /\ \E want \in WantedBodies(q), old \in pendings :
       /\ want # <<>> \/ old # {}
       /\ todo' = [todo EXCEPT ![q] = want]
       /\ lack' = [lack EXCEPT ![q] = old]
  /\ job' = [job EXCEPT ![q] = "parse"]
  /\ UNCHANGED <<store, at, mine, tx, pin, hydrated, saw, fault, status>>

Hydrate(q) == Materialize(q, "hydrate", {{}})
Warm(q) == Materialize(q, "warm", SUBSET Unready(q))
Retry(q) == Materialize(q, "retry", SUBSET Unready(q))
Anchors(q) == pin[q] = "live" /\ Materialize(q, "anchors", {{}})
Edges(q) == pin[q] = "live" /\ Materialize(q, "edges", {{}})
Named(q) == Materialize(q, "named", {{}})

\* append_generation_chunks reads which rows exist, now that the files are parsed.
Parsed(q) ==
  /\ job[q] = "parse"
  /\ todo' = [todo EXCEPT ![q] = Filter(@, LAMBDA s : Visible(q, s) = "none")]
  /\ lack' = [lack EXCEPT ![q] =
                @ \cup {s \in ToSet(todo[q]) : Visible(q, s) # "ready"}]
  /\ job' = [job EXCEPT ![q] = "insert"]
  /\ UNCHANGED <<store, at, mine, tx, pin, hydrated, saw, fault, status>>

\* Losing the race for a key fails the flush: the rows so far are rolled back.
Breaks(q) ==
  /\ tx' = [tx EXCEPT ![q] = "broken"]
  /\ mine' = [mine EXCEPT ![q] = NoRows]
  /\ job' = [job EXCEPT ![q] = "none"]
  /\ todo' = [todo EXCEPT ![q] = <<>>]
  /\ lack' = [lack EXCEPT ![q] = {}]

Insert(q) ==
  /\ job[q] = "insert" /\ todo[q] # <<>>
  /\ Holders(q, Head(todo[q])) = {}
  /\ IF row[Head(todo[q])] # "none"
     THEN Breaks(q)
     ELSE /\ mine' = [mine EXCEPT ![q][Head(todo[q])] = "pending"]
          /\ todo' = [todo EXCEPT ![q] = Tail(@)]
          /\ UNCHANGED <<job, lack, tx>>
  /\ UNCHANGED <<store, at, pin, hydrated, saw, fault, status>>

\* The rows are flushed.  Vectors are written where the question may embed lazily.
Inserted(q) ==
  /\ job[q] = "insert" /\ todo[q] = <<>>
  /\ job' = [job EXCEPT ![q] = "embed"]
  /\ UNCHANGED <<store, at, todo, lack, mine, tx, pin, hydrated, saw, fault, status>>

\* Points first: a body that is there already is reused, never written twice.
Upserted(q) == points \cup lack[q]
Embed(q) ==
  /\ job[q] = "embed"
  /\ lack' = [lack EXCEPT ![q] = @ \cap Unready(q)]
  /\ points' = Upserted(q)
  /\ job' = [job EXCEPT ![q] = "mark"]
  /\ UNCHANGED <<row, at, todo, mine, tx, pin, hydrated, saw, fault, status>>

\* mark_vectors_ready: one UPDATE, which locks row after row.
Mark(q) ==
  /\ job[q] = "mark"
  /\ \E s \in lack[q] :
       /\ Holders(q, s) = {}
       /\ mine' = [mine EXCEPT ![q][s] = "ready"]
       /\ lack' = [lack EXCEPT ![q] = @ \ {s}]
  /\ UNCHANGED <<store, at, job, todo, tx, pin, hydrated, saw, fault, status>>

\* What follows a successful materialize: hydrate, warm and retry commit, the others do not.
CommitsAfterWarm(stage) == stage \in {"warm", "retry"}   \* mutant
CommitsAfter(stage) == stage \in {"hydrate", "warm", "retry"}
Materialized(q) ==
  /\ \/ job[q] = "mark" /\ lack[q] = {}
     \/ job[q] = "embed" /\ at[q] # "warm"      \* no embedder: the rows stay pending
  /\ job' = [job EXCEPT ![q] = "none"]
  /\ lack' = [lack EXCEPT ![q] = {}]
  /\ hydrated' = IF at[q] = "hydrate"
                 THEN [hydrated EXCEPT ![q] = {s \in Symbols : mine[q][s] # "none"}]
                 ELSE hydrated
  /\ IF CommitsAfter(at[q]) THEN Commit(q) ELSE UNCHANGED <<row, mine, tx>>
  /\ Moves(q)
  /\ UNCHANGED <<points, todo, pin, saw, fault, status>>

\* Qdrant or the embedder fails, or a file is gone: the error is noted and the stage is
\* over.  Only the warm stage commits after its error; what is flushed otherwise stays open.
MaterializeFails(q) ==
  /\ job[q] \in {"parse", "embed"}
  /\ job' = [job EXCEPT ![q] = "none"]
  /\ todo' = [todo EXCEPT ![q] = <<>>]
  /\ lack' = [lack EXCEPT ![q] = {}]
  /\ fault' = [fault EXCEPT ![q] = TRUE]
  /\ IF at[q] = "warm" THEN Commit(q) ELSE UNCHANGED <<row, mine, tx>>
  /\ Moves(q)
  /\ UNCHANGED <<points, pin, hydrated, saw, status>>

\* deadlock_timeout: one member of a cycle of waits is failed.
Deadlock(q) ==
  /\ \E r \in WaitsFor(q) : q \in WaitsFor(r)
  /\ \/ job[q] = "insert" /\ Breaks(q) /\ UNCHANGED <<row, at>>
     \/ /\ job[q] = "mark"
        /\ mine' = [mine EXCEPT ![q] = NoRows]
        /\ job' = [job EXCEPT ![q] = "none"]
        /\ lack' = [lack EXCEPT ![q] = {}]
        /\ UNCHANGED <<todo, row>>
        /\ IF at[q] = "warm"
           THEN Moves(q) /\ UNCHANGED tx       \* the commit after the error gets out of it
           ELSE tx' = [tx EXCEPT ![q] = "aborted"] /\ UNCHANGED at
  /\ UNCHANGED <<points, pin, hydrated, saw, fault, status>>

\* The swallowed error comes back at the session's next statement, as a server error.
NextStatement(q) ==
  /\ tx[q] # "ok" /\ job[q] = "none"
  /\ Ends(q, 500)
  /\ UNCHANGED <<store, pin, hydrated, saw, fault>>

\* A stage that does not run, or runs and finds nothing to create: then the warm and
\* retry stages commit what an earlier stage left open.
Skips(q) ==
  /\ job[q] = "none" /\ tx[q] = "ok"
  /\ at[q] \in {"hydrate", "warm", "retry", "anchors", "edges", "named"}
  /\ at[q] \in {"anchors", "edges"} => pin[q] = "live"
  /\ \/ UNCHANGED <<row, mine, tx>>
     \/ at[q] \in {"warm", "retry"} /\ Commit(q)
  /\ Moves(q)
  /\ UNCHANGED <<points, job, todo, lack, pin, hydrated, saw, fault, status>>

\* The three lanes read through sessions of their own: committed rows only.
Readable(q) == {s \in Symbols : row[s] # "none"}
Lanes(q) ==
  /\ Usable(q, "lanes") /\ pin[q] = "live"
  /\ \/ /\ Moves(q)
        /\ saw' = [saw EXCEPT ![q] = Readable(q)]
        /\ UNCHANGED <<fault, status, work>>
     \/ /\ Ends(q, 503)                        \* Qdrant refuses the vector lane
        /\ fault' = [fault EXCEPT ![q] = TRUE]
        /\ UNCHANGED saw
  /\ UNCHANGED <<store, pin, hydrated>>

\* The tree must be the indexed one before its bytes are read.
Load(q) ==
  /\ Usable(q, "load") /\ pin[q] = "live"
  /\ \/ Moves(q) /\ UNCHANGED <<work, fault, status>>
     \/ Ends(q, 409) /\ fault' = [fault EXCEPT ![q] = TRUE]
  /\ UNCHANGED <<store, pin, hydrated, saw>>

\* The prompt's style suffix is added to a name that was never assigned.
Compose(q) ==
  /\ Usable(q, "compose")
  /\ Ends(q, 500)
  /\ UNCHANGED <<store, pin, hydrated, saw, fault>>

\* _ensure_open at the head of four stages: a pin past its time is deleted and the
\* question is cancelled, after a commit that keeps the rows it had flushed.
Cancel(q) ==
  /\ at[q] \in {"open", "lanes", "anchors", "edges", "load"}
  /\ job[q] = "none" /\ tx[q] = "ok" /\ pin[q] = "due"
  /\ row' = Merge(row, mine[q])
  /\ pin' = [pin EXCEPT ![q] = "gone"]
  /\ fault' = [fault EXCEPT ![q] = TRUE]
  /\ Ends(q, 408)
  /\ UNCHANGED <<points, hydrated, saw>>

PinFallsDue(q) ==
  /\ pin[q] = "live" /\ at[q] # "end"
  /\ pin' = [pin EXCEPT ![q] = "due"]
  /\ UNCHANGED <<store, at, work, hydrated, saw, fault, status>>

Steps(q) ==
  \/ Open(q) \/ Route(q) \/ Hydrate(q) \/ Warm(q) \/ Retry(q) \/ Anchors(q)
  \/ Edges(q) \/ Named(q) \/ Parsed(q) \/ Insert(q) \/ Inserted(q) \/ Embed(q)
  \/ Mark(q) \/ Materialized(q) \/ MaterializeFails(q) \/ Deadlock(q)
  \/ NextStatement(q) \/ Skips(q) \/ Lanes(q) \/ Load(q) \/ Compose(q) \/ Cancel(q)

Next == \E q \in Questions : Steps(q) \/ PinFallsDue(q)
Spec == Init /\ [][Next]_vars
\* A request's thread runs on, and PostgreSQL resolves every cycle of waits.
FairSpec == Spec /\ \A q \in Questions : WF_vars(Steps(q))

-----------------------------------------------------------------------------
(* A row that is marked ready has its vector in Qdrant, in the committed   *)
(* rows and in every open session: points are written before the mark      *)
(* (lazy_vectors.py 290-377), and what rolls back is only ever the mark.   *)
ReadyHasPoint ==
  \A s \in Symbols :
    row[s] = "ready" \/ (\E q \in Questions : mine[q][s] = "ready") => s \in points

(* The bodies a question hydrated are there for its own search: the lanes  *)
(* run in other sessions (answer.py 337-378) and would not see rows that   *)
(* were only flushed.                                                      *)
HydratedIsSearched ==
  \A q \in Questions :
    at[q] \in {"retry", "anchors", "edges", "named", "load", "compose"}
      => hydrated[q] \subseteq saw[q]

(* Both, for every question and every body.                                *)
BodiesAreThere == ReadyHasPoint /\ HydratedIsSearched

(* Every question ends, whatever the others hold: a wait ends with the     *)
(* other's transaction or with the deadlock detector.                      *)
QuestionsEnd == \A q \in Questions : <>(at[q] = "end")

(* answer.py 1 and _answer_events: a served question is searched and       *)
(* answered.  Nothing outside failed it, so it ends with an answer.        *)
ServedIsAnswered ==
  \A q \in Questions : at[q] = "end" /\ ~fault[q] => status[q] = 200
=============================================================================
