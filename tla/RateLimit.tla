------------------------------ MODULE RateLimit ------------------------------
(***************************************************************************)
(* RateLimitMiddleware (middleware/rate_limit.py): per address and rule a  *)
(* deque of the times at which requests were let through.  dispatch reads  *)
(* the clock and calls _consume without awaiting anything in between, on   *)
(* the one event loop of the process, so a request is one step.            *)
(*                                                                         *)
(* The deque is what follows the first head[k] entries of admitted[k]: a   *)
(* popleft advances head, an append extends admitted.  Time is in ticks,   *)
(* Second of them to the second; Retry-After is cut to whole seconds.      *)
(***************************************************************************)
EXTENDS Integers, Sequences

CONSTANTS Clients, Limit, Window, Second,
          MaxTime   \* bound on the clock

ASSUME LimitAssumption == Limit \in Nat \ {0}
ASSUME TimeAssumption == Window \in Nat \ {0} /\ Second \in Nat \ {0} /\ MaxTime \in Nat

VARIABLES clock, admitted, head,
          last   \* last answer of each key: its status, its time, and, refused, the time by
                 \* which its Retry-After has passed

vars == <<clock, admitted, head, last>>

Paths == {"/ask", "/ask/stream", "/repository"}
Rules == {"ask", "index"}
Rule(path) == IF path = "/repository" THEN "index" ELSE "ask"
Keys == Clients \X Rules

NoAnswer == [status |-> "none", at |-> 0, due |-> 0]

TypeOK ==
  /\ clock \in Nat
  /\ admitted \in [Keys -> Seq(Nat)]
  /\ head \in [Keys -> Nat] /\ \A k \in Keys : head[k] <= Len(admitted[k])
  /\ last \in [Keys -> [status : {"none", "ok", "refused"}, at : Nat, due : Nat]]

Init ==
  /\ clock = 0
  /\ admitted = [k \in Keys |-> <<>>]
  /\ head = [k \in Keys |-> 0]
  /\ last = [k \in Keys |-> NoAnswer]

Tick ==
  /\ clock < MaxTime
  /\ clock' = clock + 1
  /\ UNCHANGED <<admitted, head, last>>

\* The deque is emptied from the left up to the first event inside the window.
Expired(t) == t <= clock - Window
Popped(log, from) ==
  {to \in from..Len(log) : /\ \A i \in from + 1..to : Expired(log[i])
                           /\ to < Len(log) => ~Expired(log[to + 1])}

HasRoomForOneMore(log, to) == Len(log) - to <= Limit   \* mutant
HasRoom(log, to) == Len(log) - to < Limit

\* Whole seconds until the oldest event leaves the window, at least one.
RetryNow(oldest) == 1   \* mutant
RetryAfter(oldest) ==
  LET left == (oldest + Window - clock) \div Second
  IN  IF left < 1 THEN 1 ELSE left

\* The time a refused client is told to wait until, a second being allowed for the cut; a
\* client refused again has still the earlier promise.
DueTime(k, oldest) ==
  LET due == clock + Second * (RetryAfter(oldest) + 1)
  IN  IF last[k].status = "refused" /\ last[k].due < due THEN last[k].due ELSE due

\* dispatch for a limited path.
Request(c, path) ==
  LET k == <<c, Rule(path)>>
  IN  \E to \in Popped(admitted[k], head[k]) :
        /\ head' = [head EXCEPT ![k] = to]
        /\ \/ /\ HasRoom(admitted[k], to)
              /\ admitted' = [admitted EXCEPT ![k] = Append(@, clock)]
              /\ last' = [last EXCEPT ![k] = [status |-> "ok", at |-> clock, due |-> 0]]
           \/ /\ ~HasRoom(admitted[k], to)
              /\ last' = [last EXCEPT ![k] =
                            [status |-> "refused", at |-> clock,
                             due |-> DueTime(k, admitted[k][to + 1])]]
              /\ UNCHANGED admitted
        /\ UNCHANGED clock

Next == Tick \/ \E c \in Clients, path \in Paths : Request(c, path)

Spec == Init /\ [][Next]_vars

-----------------------------------------------------------------------------
\* No Limit + 1 requests of one address and rule get through within one window, wherever the
\* window starts: of Limit + 1 consecutive ones the last is a window after the first.
WindowBound ==
  \A k \in Keys : \A i \in DOMAIN admitted[k] :
    i + Limit <= Len(admitted[k]) => admitted[k][i + Limit] >= admitted[k][i] + Window

\* A client that was refused, waited as Retry-After said and a second more (the header is cut
\* to whole seconds), and got nothing else through meanwhile, is let through.
RetryAfterHolds ==
  \A k \in Keys : last[k].status = "refused" => last[k].at < last[k].due

=============================================================================
