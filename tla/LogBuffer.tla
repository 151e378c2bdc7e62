------------------------------ MODULE LogBuffer ------------------------------
(***************************************************************************)
(* The ring of log entries (core/log_buffer.py) and the request that reads *)
(* it (api/v1/routes/logs.py).  Any thread appends at any time; a reader   *)
(* copies it under the lock and filters the copy without it.               *)
(***************************************************************************)
EXTENDS Integers, Sequences, FiniteSets, Lists

CONSTANTS Readers, Loggers, Levels, Capacity,
          MaxLogged   \* bound on the entries ever logged

LogAssumption == Levels \subseteq Int /\ Capacity \in Nat \ {0} /\ MaxLogged \in Nat

VARIABLES entries,  \* the ring
          logged,   \* every entry ever appended
          pc, asked, rows, seen
          \* of a reader: its step, its query, its copy of the ring, and how much had been
          \* logged when it copied

vars == <<entries, logged, pc, asked, rows, seen>>

Entry == [level : Levels, logger : Loggers]
Query == [limit : 1..Capacity, floor : Levels, loggers : SUBSET Loggers \ {{}}]

TypeOK ==
  /\ entries \in Seq(Entry) /\ Len(entries) <= Capacity
  /\ logged \in Seq(Entry) /\ Len(logged) <= MaxLogged
  /\ pc \in [Readers -> {"idle", "copied", "answered"}]
  /\ asked \in [Readers -> Query]
  /\ rows \in [Readers -> Seq(Entry)]
  /\ seen \in [Readers -> 0..MaxLogged]

Init ==
  /\ entries = <<>> /\ logged = <<>>
  /\ pc = [r \in Readers |-> "idle"]
  /\ asked \in [Readers -> Query]
  /\ rows = [r \in Readers |-> <<>>]
  /\ seen = [r \in Readers |-> 0]

Newest(s, n) == SubSeq(s, (IF Len(s) > n THEN Len(s) - n ELSE 0) + 1, Len(s))

\* deque(maxlen): an append to a full ring drops the oldest.
Push(ring, e) == Newest(Append(ring, e), Capacity)
Log(e) ==
  /\ Len(logged) < MaxLogged
  /\ entries' = Push(entries, e)
  /\ logged' = Append(logged, e)
  /\ UNCHANGED <<pc, asked, rows, seen>>

\* fetch, up to the release of the lock.
Copy(r) ==
  /\ pc[r] = "idle"
  /\ rows' = [rows EXCEPT ![r] = entries]
  /\ seen' = [seen EXCEPT ![r] = Len(logged)]
  /\ pc' = [pc EXCEPT ![r] = "copied"]
  /\ UNCHANGED <<entries, logged, asked>>

\* The filter and the tail of fetch.
Wanted(q, e) == e.level >= q.floor /\ e.logger \in q.loggers
FetchTailFirst(q, copy) ==   \* mutant: the limit before the filter
  Filter(Newest(copy, q.limit), LAMBDA e : Wanted(q, e))
Fetch(q, copy) == Newest(Filter(copy, LAMBDA e : Wanted(q, e)), q.limit)
Answer(r) ==
  /\ pc[r] = "copied"
  /\ rows' = [rows EXCEPT ![r] = Fetch(asked[r], @)]
  /\ pc' = [pc EXCEPT ![r] = "answered"]
  /\ UNCHANGED <<entries, logged, asked, seen>>

Next ==
  \/ \E e \in Entry : Log(e)
  \/ \E r \in Readers : Copy(r) \/ Answer(r)

Spec == Init /\ [][Next]_vars

-----------------------------------------------------------------------------
\* The positions, among all that was logged when the reader copied, that it should be given:
\* those it asked for, still kept, with fewer than its limit of them later.
Due(r) ==
  LET q == asked[r]
      kept == {i \in 1..seen[r] : i + Capacity > seen[r] /\ logged[i].level >= q.floor
                                  /\ logged[i].logger \in q.loggers}
  IN  {i \in kept : Cardinality({j \in kept : j > i}) < q.limit}

\* An answer holds the newest entries that match, in the order they were logged: a burst of
\* entries below the level, or of other loggers, takes none of the limit.
NewestMatching ==
  \A r \in Readers : pc[r] = "answered" =>
    rows[r] = [n \in 1..Cardinality(Due(r)) |->
                 logged[CHOOSE i \in Due(r) : Cardinality({j \in Due(r) : j < i}) = n - 1]]
=============================================================================
