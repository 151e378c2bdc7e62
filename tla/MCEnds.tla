------------------------------- MODULE MCEnds -------------------------------
(***************************************************************************)
(* What must end, for TLC: questions and collections that hold row locks,  *)
(* a question's own stages, requests to the Cursor bridge, and the parse   *)
(* of a draft that is stopped and started again.  `part' says which of the *)
(* four moves; the bridge is extended under its own names.                 *)
(***************************************************************************)
EXTENDS CursorBridge, TLC

CONSTANTS a1, c1,          \* a question that reads a generation, a collector
          g1, g2, rev1, rev2,
          q1, q2, s1, s2,  \* questions that create chunks, and their symbols
          None

VARIABLES part,
          now, active, refresh, generation, revision, pinned, tree, lock, at, local, overtaken,
          row, points, stage, job, todo, lack, mine, tx, pin, hydrated, saw, fault, code,
          phase, products, cursor, missing, pending, finished, done, writing,
          cached, temporary, content, crashes, failures

pinsVars == <<now, active, refresh, generation, revision, pinned, tree, lock, at, local, overtaken>>
questionVars == <<row, points, stage, job, todo, lack, mine, tx, pin, hydrated, saw, fault, code>>
productVars == <<phase, products, cursor, missing, pending, finished, done, writing,
                 cached, temporary, content, crashes, failures>>
allVars == <<part, vars, pinsVars, questionVars, productVars>>

Pins == INSTANCE ReaderPins
  WITH Askers <- {a1}, Collectors <- {c1}, Generations <- {g1, g2}, Revisions <- {rev1, rev2},
       Revision <- (g1 :> rev1 @@ g2 :> rev2), First <- g1, PinLife <- 1, Lease <- 1, MaxTime <- 1,
       DeletionInLease <- FALSE, pin <- pinned, pc <- at

Asked == INSTANCE Question
  WITH Questions <- {q1, q2}, Symbols <- {s1, s2}, at <- stage, status <- code

\* Three files; the first two hold the same bytes.
Draft == INSTANCE FileProducts
  WITH Builders <- {"x"}, Blobs <- [x |-> <<"a1f", "b1f", "c2f">>],
       Bytes <- [a1f |-> "1", b1f |-> "1", c2f |-> "2"], Serial <- {}, Window <- 2,
       Kept <- {"none", "legacy", "obsolete"}, Inodes <- {1, 2, 3}, MaxCrashes <- 2, MaxFailures <- 1

\* Two questions that have found nothing to create on their way, and are about to create what
\* the graph's edges lead to and what the user named: bodies of the same symbols, in orders of
\* their own.
Arrived == [q \in {q1, q2} |-> "edges"]

EndsInit ==
  /\ part \in {"bridge", "pins", "questions", "draft"}
  /\ Init /\ Pins!Init /\ Asked!StartsAt(Arrived) /\ Draft!Init
  /\ part # "draft" => \A k \in DOMAIN cached : cached[k] = 0

EndsNext ==
  /\ UNCHANGED part
  /\ \/ part = "bridge" /\ Next /\ UNCHANGED <<pinsVars, questionVars, productVars>>
     \/ part = "pins" /\ Pins!Next /\ UNCHANGED <<vars, questionVars, productVars>>
     \/ part = "questions" /\ Asked!Next /\ UNCHANGED <<vars, pinsVars, productVars>>
     \/ part = "draft" /\ Draft!Next /\ UNCHANGED <<vars, pinsVars, questionVars>>

\* The fairness of each component, owed while it moves.
BridgeRuns ==
  \A r \in Requests :
    WF_vars(part = "bridge" /\ Handler(r)) /\ WF_vars(part = "bridge" /\ ClientLeaves(r))
SessionsRun ==
  /\ SF_pinsVars(part = "pins" /\ Pins!Waits(a1)) /\ SF_pinsVars(part = "pins" /\ Pins!Answered(a1))
  /\ SF_pinsVars(part = "pins" /\ Pins!Collects(c1)) /\ SF_pinsVars(part = "pins" /\ Pins!Builds)
  /\ WF_pinsVars(part = "pins" /\ \E p \in Pins!Actors : Pins!Aborts(p))
QuestionsRun == \A q \in {q1, q2} : WF_questionVars(part = "questions" /\ Asked!Steps(q))
BuilderRuns ==
  WF_productVars(part = "draft" /\ Draft!Work("x")) /\ WF_productVars(part = "draft" /\ Draft!Parse("x"))

EndsSpec ==
  EndsInit /\ [][EndsNext]_allVars /\ BridgeRuns /\ SessionsRun /\ QuestionsRun /\ BuilderRuns

-----------------------------------------------------------------------------
\* Questions, collections and the steps of a build that hold rows end, although they take the
\* repository, a generation and a revision in opposite orders: PostgreSQL fails one of those
\* who wait for each other, and what it held is free.
SessionsEnd == Pins!SessionsEnd

\* Every question comes to an end, with an answer or an error, when several insert the chunks
\* of the same symbols in opposite orders and PostgreSQL breaks their deadlocks.
QuestionsEnd == part = "questions" => Asked!QuestionsEnd

\* A draft that is not stopped for ever, and none of whose files fails, has all its products at
\* last; one of whose files fails, fails.
Finishes == \A b \in {"x"} : part = "draft" ~> phase[b] \in {"done", "failed"}
=============================================================================
