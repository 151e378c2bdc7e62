--------------------------- MODULE RequestsProofs ---------------------------
(***************************************************************************)
(* Theorems about what requests share, for any clients and limits, any     *)
(* questions and bodies, any ring of the log and its readers, any calls of *)
(* the bridge, any evidence and budget, any replies of the model.          *)
(*                                                                         *)
(* The rate limit: the bound on any window and the promise of Retry-After. *)
(* Neither is inductive.  What makes them so: the times in a deque never   *)
(* decrease and are not ahead of the clock, everything popped is a window  *)
(* old, and no deque is longer than the limit (SlidingLog); and the        *)
(* promise made to a refused client ends after the event it waits for has  *)
(* left the window (Promise).                                              *)
(***************************************************************************)
EXTENDS Requests, Lists, SequencesExt, FiniteSetTheorems, WellFoundedInduction, TLAPS

-----------------------------------------------------------------------------
SlidingLog(k) ==
  /\ \A i, j \in 1..Len(admitted[k]) : i <= j => admitted[k][i] <= admitted[k][j]
  /\ \A i \in 1..Len(admitted[k]) : admitted[k][i] <= clock
  /\ \A i \in 1..head[k] : admitted[k][i] + Window <= clock
  /\ Len(admitted[k]) - head[k] <= Limit

Promise(k) ==
  last[k].status = "refused" =>
    /\ Len(admitted[k]) >= Limit
    /\ last[k].at < last[k].due
    /\ admitted[k][Len(admitted[k]) - Limit + 1] + Window < last[k].due

IInv ==
  /\ TypeOK
  /\ \A k \in Keys : SlidingLog(k)
  /\ \A k \in Keys : Promise(k)
  /\ WindowBound

\* Cutting to whole seconds loses less than a second.
LEMMA CutSecond == ASSUME NEW n \in Nat, NEW s \in Nat \ {0}
                   PROVE  /\ n \div s \in Nat
                          /\ s * (n \div s + 1) > n
  OBVIOUS

\* The wait a client is given, with the second allowed for, covers what is left of the window.
LEMMA WaitCovers ==
  ASSUME TypeOK, NEW oldest \in Nat, oldest + Window > clock
  PROVE  /\ RetryAfter(oldest) \in Nat
         /\ Second * (RetryAfter(oldest) + 1) > 0
         /\ clock + Second * (RetryAfter(oldest) + 1) > oldest + Window
<1> DEFINE n == oldest + Window - clock
           q == n \div Second
<1>1. n \in Nat /\ Second \in Nat \ {0} /\ clock \in Nat
  BY TimeAssumption DEF TypeOK
<1>2. q \in Nat /\ Second * (q + 1) > n
  BY <1>1, CutSecond
<1>3. RetryAfter(oldest) = IF q < 1 THEN 1 ELSE q
  BY DEF RetryAfter
<1>4. RetryAfter(oldest) \in Nat /\ RetryAfter(oldest) >= q
  <2> HIDE DEF q
  <2> QED BY <1>2, <1>3
<1>5. Second * (RetryAfter(oldest) + 1) >= Second * (q + 1)
  <2> HIDE DEF q
  <2>1. \A a, b, c \in Nat : a >= b => c * (a + 1) >= c * (b + 1)
    OBVIOUS
  <2> QED BY <2>1, <1>1, <1>2, <1>4
<1>6. Second * (RetryAfter(oldest) + 1) \in Int /\ Second * (q + 1) \in Int
  <2> HIDE DEF q
  <2> QED BY <1>1, <1>2, <1>4
<1> DEFINE a == Second * (RetryAfter(oldest) + 1)
           b == Second * (q + 1)
<1>7. a \in Int /\ b \in Int /\ a >= b /\ b > n
  BY <1>2, <1>5, <1>6
<1>8. a > n
  <2> HIDE DEF a, b, n
  <2> QED BY <1>7, <1>1
<1>9. a > 0 /\ clock + a > oldest + Window
  <2> HIDE DEF a
  <2> QED BY <1>7, <1>8, <1>1, TimeAssumption DEF n
<1> QED BY <1>4, <1>9

\* A full deque is exactly the last Limit events.
LEMMA FullDeque ==
  ASSUME NEW n \in Nat, NEW h \in Nat, NEW to \in Nat, NEW limit \in Nat \ {0},
         h <= to, to <= n, n - h <= limit, ~(n - to < limit)
  PROVE  n - to <= limit /\ n - to >= limit /\ to = n - limit /\ to < n /\ n >= limit
OBVIOUS

\* One more event of time t: the list stays sorted, and when fewer than limit events followed
\* the popped ones, no limit + 1 events are within a window.
LEMMA OneMore ==
  ASSUME NEW log \in Seq(Nat), NEW t \in Nat, NEW to \in Nat, to <= Len(log),
         NEW limit \in Nat \ {0}, NEW w \in Nat, Len(log) - to < limit,
         \A i, j \in 1..Len(log) : i <= j => log[i] <= log[j],
         \A i \in 1..Len(log) : log[i] <= t,
         \A i \in 1..to : log[i] + w <= t,
         \A i \in 1..Len(log) : i + limit <= Len(log) => log[i + limit] >= log[i] + w
  PROVE  LET longer == Append(log, t)
         IN  /\ \A i, j \in 1..Len(longer) : i <= j => longer[i] <= longer[j]
             /\ \A i \in 1..Len(longer) : longer[i] <= t
             /\ \A i \in 1..to : longer[i] + w <= t
             /\ Len(longer) - to <= limit
             /\ \A i \in 1..Len(longer) :
                  i + limit <= Len(longer) => longer[i + limit] >= longer[i] + w
<1> DEFINE longer == Append(log, t)
           n == Len(log)
<1>1. /\ n \in Nat /\ Len(longer) = n + 1 /\ longer[n + 1] = t
      /\ \A i \in 1..n : longer[i] = log[i] /\ log[i] \in Nat
  OBVIOUS
<1>2. n - to < limit /\ to <= n
  OBVIOUS
<1>3. ASSUME NEW i \in 1..n + 1, NEW j \in 1..n + 1, i <= j
      PROVE  longer[i] <= longer[j]
  <2>1. CASE j = n + 1
    <3>1. i \in 1..n \/ i = n + 1
      BY <1>1
    <3> QED BY <3>1, <2>1, <1>1
  <2>2. CASE j # n + 1
    <3>1. i \in 1..n /\ j \in 1..n
      BY <2>2, <1>1, <1>3
    <3> QED BY <3>1, <1>1, <1>3
  <2> QED BY <2>1, <2>2
<1>4. ASSUME NEW i \in 1..n + 1 PROVE longer[i] <= t
  BY <1>1, <1>4
<1>5. ASSUME NEW i \in 1..to PROVE longer[i] + w <= t
  <2>1. i \in 1..n
    BY <1>1, <1>2
  <2> QED BY <2>1, <1>1
<1>6. ASSUME NEW i \in 1..n + 1, i + limit <= n + 1
      PROVE  longer[i + limit] >= longer[i] + w
  <2>1. CASE i + limit = n + 1
    <3>1. i \in 1..to
      BY <2>1, <1>1, <1>2
    <3> QED BY <3>1, <1>5, <2>1, <1>1
  <2>2. CASE i + limit # n + 1
    <3>1. i \in 1..n /\ i + limit \in 1..n /\ i + limit <= n
      <4>1. n \in Nat /\ i \in 1..n + 1 /\ i + limit <= n + 1 /\ i + limit # n + 1
        BY <2>2, <1>1, <1>6
      <4> HIDE DEF n
      <4> QED BY <4>1
    <3> QED BY <3>1, <1>1
  <2> QED BY <2>1, <2>2
<1>7. Len(longer) - to <= limit
  <2> HIDE DEF longer, n
  <2> QED BY <1>1, <1>2
<1> QED BY <1>1, <1>3, <1>4, <1>5, <1>6, <1>7

LEMMA InitIInv == Init => IInv
BY LimitAssumption, TimeAssumption DEF Init, IInv, TypeOK, SlidingLog, Promise, WindowBound, NoAnswer

LEMMA TickIInv == IInv /\ Tick => IInv'
<1> SUFFICES ASSUME IInv, Tick PROVE IInv'
  OBVIOUS
<1>1. TypeOK'
  BY DEF IInv, Tick, TypeOK
<1>2. ASSUME NEW k \in Keys PROVE SlidingLog(k)'
  BY TimeAssumption DEF IInv, Tick, TypeOK, SlidingLog
<1>3. ASSUME NEW k \in Keys PROVE Promise(k)'
  BY DEF IInv, Tick, Promise
<1>4. WindowBound'
  BY DEF IInv, Tick, WindowBound
<1> QED BY <1>1, <1>2, <1>3, <1>4 DEF IInv

\* One request: k is its key, to the entries popped before it is judged.
LEMMA RequestIInv ==
  ASSUME IInv, NEW c \in Clients, NEW path \in Paths, Request(c, path)
  PROVE  IInv'
<1> DEFINE k == <<c, Rule(path)>>
           log == admitted[k]
<1>0. k \in Keys
  BY DEF Keys, Rules, Rule
<1>1. TypeOK /\ SlidingLog(k) /\ Promise(k) /\ WindowBound
  BY <1>0 DEF IInv
<1>2. PICK to \in Popped(log, head[k]) :
        /\ head' = [head EXCEPT ![k] = to]
        /\ \/ /\ HasRoom(log, to)
              /\ admitted' = [admitted EXCEPT ![k] = Append(@, clock)]
              /\ last' = [last EXCEPT ![k] = [status |-> "ok", at |-> clock, due |-> 0]]
           \/ /\ ~HasRoom(log, to)
              /\ last' = [last EXCEPT ![k] =
                            [status |-> "refused", at |-> clock,
                             due |-> DueTime(k, log[to + 1])]]
              /\ UNCHANGED admitted
        /\ UNCHANGED clock
  BY DEF Request
<1>3. /\ log \in Seq(Nat) /\ Len(log) \in Nat /\ head[k] \in Nat /\ head[k] <= Len(log)
      /\ clock \in Nat /\ Window \in Nat \ {0} /\ Limit \in Nat \ {0}
      /\ \A i \in 1..Len(log) : log[i] \in Nat
  <2>1. log \in Seq(Nat) /\ head[k] \in Nat /\ head[k] <= Len(log) /\ clock \in Nat
    BY <1>0, <1>1 DEF TypeOK
  <2> HIDE DEF log, k
  <2>2. Len(log) \in Nat /\ \A i \in 1..Len(log) : log[i] \in Nat
    BY <2>1
  <2> QED BY <2>1, <2>2, LimitAssumption, TimeAssumption
<1>4. /\ to \in Nat /\ head[k] <= to /\ to <= Len(log)
      /\ \A i \in 1..to : log[i] + Window <= clock
      /\ to < Len(log) => log[to + 1] + Window > clock
  <2>1. /\ to \in head[k]..Len(log)
        /\ \A i \in head[k] + 1..to : log[i] <= clock - Window
        /\ to < Len(log) => ~(log[to + 1] <= clock - Window)
    BY DEF Popped, Expired
  <2>2. \A i \in 1..head[k] : log[i] + Window <= clock
    BY <1>1 DEF SlidingLog
  <2>3. /\ head[k] \in Nat /\ Len(log) \in Nat /\ clock \in Nat /\ Window \in Nat
        /\ \A i \in 1..Len(log) : log[i] \in Nat
    BY <1>3
  <2> HIDE DEF log, k
  <2>4. to \in Nat /\ head[k] <= to /\ to <= Len(log)
    BY <2>1, <2>3
  <2>5. \A i \in 1..to : log[i] + Window <= clock
    BY <2>1, <2>2, <2>3, <2>4
  <2>6. to < Len(log) => log[to + 1] + Window > clock
    BY <2>1, <2>3, <2>4
  <2> QED BY <2>4, <2>5, <2>6
<1>5. CASE /\ HasRoom(log, to)
           /\ admitted' = [admitted EXCEPT ![k] = Append(@, clock)]
           /\ last' = [last EXCEPT ![k] = [status |-> "ok", at |-> clock, due |-> 0]]
  <2> DEFINE longer == Append(log, clock)
  <2>1. /\ longer \in Seq(Nat) /\ Len(longer) = Len(log) + 1
        /\ \A i \in 1..Len(log) : longer[i] = log[i]
        /\ longer[Len(log) + 1] = clock
    <3> HIDE DEF log
    <3> QED BY <1>3
  <2>2. /\ admitted'[k] = longer /\ head'[k] = to /\ last'[k].status = "ok" /\ clock' = clock
        /\ \A other \in Keys \ {k} : /\ admitted'[other] = admitted[other]
                                     /\ head'[other] = head[other] /\ last'[other] = last[other]
    BY <1>0, <1>1, <1>2, <1>5 DEF TypeOK
  <2>3. TypeOK'
    <3>1. admitted' \in [Keys -> Seq(Nat)]
      BY <1>0, <1>1, <1>5, <2>1 DEF TypeOK
    <3>2. head' \in [Keys -> Nat] /\ last' \in [Keys -> [status : {"none", "ok", "refused"}, at : Nat, due : Nat]]
      BY <1>0, <1>1, <1>2, <1>3, <1>4, <1>5 DEF TypeOK
    <3>3. \A key \in Keys : head'[key] <= Len(admitted'[key])
      <4> TAKE key \in Keys
      <4>1. CASE key = k
        <5> HIDE DEF log, longer, k
        <5> QED BY <4>1, <2>1, <2>2, <1>3, <1>4
      <4>2. CASE key # k
        BY <4>2, <2>2, <1>1 DEF TypeOK
      <4> QED BY <4>1, <4>2
    <3> QED BY <3>1, <3>2, <3>3, <1>2, <1>3 DEF TypeOK
  <2>4. ASSUME NEW key \in Keys PROVE SlidingLog(key)'
    <3>1. CASE key = k
      <4>1. /\ \A i, j \in 1..Len(log) : i <= j => log[i] <= log[j]
            /\ \A i \in 1..Len(log) : log[i] <= clock
        BY <1>1 DEF SlidingLog
      <4>2. Len(log) - to < Limit
        BY <1>5 DEF HasRoom
      <4>0. \A i \in 1..Len(log) : i + Limit <= Len(log) => log[i + Limit] >= log[i] + Window
        <5>1. DOMAIN admitted[k] = 1..Len(log)
          BY <1>3
        <5> QED BY <1>0, <1>1, <5>1 DEF WindowBound
      <4>3. /\ \A i, j \in 1..Len(longer) : i <= j => longer[i] <= longer[j]
            /\ \A i \in 1..Len(longer) : longer[i] <= clock
            /\ \A i \in 1..to : longer[i] + Window <= clock
            /\ Len(longer) - to <= Limit
        <5> HIDE DEF log
        <5> QED BY <4>0, <4>1, <4>2, <1>3, <1>4, OneMore
      <4> HIDE DEF log, longer, k
      <4> QED BY <4>3, <3>1, <2>2 DEF SlidingLog
    <3>2. CASE key # k
      BY <3>2, <2>2 DEF IInv, SlidingLog
    <3> QED BY <3>1, <3>2
  <2>5. ASSUME NEW key \in Keys PROVE Promise(key)'
    BY <2>2 DEF IInv, Promise
  <2>6. WindowBound'
    <3> SUFFICES ASSUME NEW key \in Keys, NEW i \in DOMAIN admitted'[key],
                        i + Limit <= Len(admitted'[key])
                 PROVE  admitted'[key][i + Limit] >= admitted'[key][i] + Window
      BY DEF WindowBound
    <3>1. CASE key = k
      <4>1. \A j \in 1..Len(log) : j + Limit <= Len(log) => log[j + Limit] >= log[j] + Window
        <5>1. DOMAIN admitted[k] = 1..Len(log)
          BY <1>3
        <5> QED BY <1>0, <1>1, <5>1 DEF WindowBound
      <4>2. Len(log) - to < Limit
        BY <1>5 DEF HasRoom
      <4>3. i \in 1..Len(longer) /\ i + Limit <= Len(longer)
        BY <3>1, <2>1, <2>2
      <4>5. /\ \A m, j \in 1..Len(log) : m <= j => log[m] <= log[j]
            /\ \A m \in 1..Len(log) : log[m] <= clock
        BY <1>1 DEF SlidingLog
      <4>4. longer[i + Limit] >= longer[i] + Window
        <5> HIDE DEF log
        <5> QED BY <4>1, <4>2, <4>3, <4>5, <1>3, <1>4, OneMore
      <4> HIDE DEF log, longer, k
      <4> QED BY <4>4, <3>1, <2>2
    <3>2. CASE key # k
      BY <3>2, <2>2, <1>1 DEF WindowBound
    <3> QED BY <3>1, <3>2
  <2> QED BY <2>3, <2>4, <2>5, <2>6 DEF IInv
<1>6. CASE /\ ~HasRoom(log, to)
           /\ last' = [last EXCEPT ![k] = [status |-> "refused", at |-> clock,
                                          due |-> DueTime(k, log[to + 1])]]
           /\ UNCHANGED admitted
  <2> DEFINE oldest == log[to + 1]
             due == DueTime(k, oldest)
  <2>1. /\ Len(log) - to <= Limit /\ Len(log) - to >= Limit
        /\ to = Len(log) - Limit /\ to < Len(log) /\ Len(log) >= Limit
    <3>1. Len(log) - head[k] <= Limit
      BY <1>1 DEF SlidingLog
    <3>2. ~(Len(log) - to < Limit)
      BY <1>6 DEF HasRoom
    <3>3. /\ Len(log) \in Nat /\ head[k] \in Nat /\ to \in Nat /\ Limit \in Nat \ {0}
          /\ head[k] <= to /\ to <= Len(log)
      BY <1>3, <1>4
    <3> HIDE DEF log, k
    <3> QED BY <3>1, <3>2, <3>3, FullDeque
  <2>2. oldest \in Nat /\ oldest + Window > clock
    <3> HIDE DEF log, k
    <3> QED BY <2>1, <1>3, <1>4
  <2>3. /\ due \in Nat /\ clock < due /\ oldest + Window < due
    <3> DEFINE new == clock + Second * (RetryAfter(oldest) + 1)
    <3>1. new \in Nat /\ clock < new /\ oldest + Window < new
      <4>1. Second * (RetryAfter(oldest) + 1) \in Int
        BY <1>1, <2>2, WaitCovers, TimeAssumption
      <4> DEFINE w == Second * (RetryAfter(oldest) + 1)
      <4>2. w \in Int /\ w > 0 /\ clock + w > oldest + Window
        BY <4>1, <1>1, <2>2, WaitCovers
      <4> HIDE DEF w, oldest
      <4>3. clock + w \in Nat /\ clock < clock + w
        BY <4>2, <1>3
      <4> QED BY <4>2, <4>3 DEF w
    <3>2. due = IF last[k].status = "refused" /\ last[k].due < new THEN last[k].due ELSE new
      BY DEF DueTime
    <3>3. last[k].status = "refused" => oldest + Window < last[k].due
      <4>1. last[k].status = "refused" => log[Len(log) - Limit + 1] + Window < last[k].due
        BY <1>1 DEF Promise
      <4> QED BY <4>1, <2>1
    <3>4. last[k].due \in Nat
      BY <1>0, <1>1 DEF TypeOK
    <3> HIDE DEF new, due, oldest
    <3> QED BY <3>1, <3>2, <3>3, <3>4, <2>2, <1>3
  <2>4. /\ admitted' = admitted /\ head'[k] = to /\ clock' = clock
        /\ last'[k] = [status |-> "refused", at |-> clock, due |-> due]
        /\ \A other \in Keys \ {k} : head'[other] = head[other] /\ last'[other] = last[other]
    BY <1>0, <1>1, <1>2, <1>6 DEF TypeOK
  <2>5. TypeOK'
    <3>1. head' \in [Keys -> Nat]
      BY <1>0, <1>1, <1>2, <1>4 DEF TypeOK
    <3>2. last' \in [Keys -> [status : {"none", "ok", "refused"}, at : Nat, due : Nat]]
      BY <1>0, <1>1, <1>3, <1>6, <2>3 DEF TypeOK
    <3>3. \A key \in Keys : head'[key] <= Len(admitted'[key])
      <4> TAKE key \in Keys
      <4>1. CASE key = k
        BY <4>1, <2>4, <1>4
      <4>2. CASE key # k
        BY <4>2, <2>4, <1>1 DEF TypeOK
      <4> QED BY <4>1, <4>2
    <3> QED BY <3>1, <3>2, <3>3, <2>4, <1>1 DEF TypeOK
  <2>6. ASSUME NEW key \in Keys PROVE SlidingLog(key)'
    <3>1. CASE key = k
      <4>1. /\ \A i, j \in 1..Len(log) : i <= j => log[i] <= log[j]
            /\ \A i \in 1..Len(log) : log[i] <= clock
        BY <1>1 DEF SlidingLog
      <4> QED BY <4>1, <3>1, <2>1, <2>4, <1>4 DEF SlidingLog
    <3>2. CASE key # k
      BY <3>2, <2>4 DEF IInv, SlidingLog
    <3> QED BY <3>1, <3>2
  <2>7. ASSUME NEW key \in Keys PROVE Promise(key)'
    <3>1. CASE key = k
      <4>1. log[Len(log) - Limit + 1] = oldest
        BY <2>1
      <4> QED BY <4>1, <3>1, <2>1, <2>3, <2>4 DEF Promise
    <3>2. CASE key # k
      BY <3>2, <2>4 DEF IInv, Promise
    <3> QED BY <3>1, <3>2
  <2>8. WindowBound'
    BY <2>4, <1>1 DEF WindowBound
  <2> QED BY <2>5, <2>6, <2>7, <2>8 DEF IInv
<1> QED BY <1>2, <1>5, <1>6

LEMMA InductiveInvariant == Spec => []IInv
<1>1. IInv /\ [Next]_vars => IInv'
  <2> SUFFICES ASSUME IInv, [Next]_vars PROVE IInv'
    OBVIOUS
  <2>1. CASE Tick
    BY <2>1, TickIInv
  <2>2. CASE \E c \in Clients, path \in Paths : Request(c, path)
    BY <2>2, RequestIInv
  <2>3. CASE UNCHANGED vars
    BY <2>3 DEF vars, IInv, TypeOK, SlidingLog, Promise, WindowBound
  <2> QED BY <2>1, <2>2, <2>3 DEF Next
<1> QED BY InitIInv, <1>1, PTL DEF Spec

\* No window of an address and rule lets more than Limit requests through (_consume), whatever
\* the limit, the window and the pace of the requests.
THEOREM WindowNeverExceeded == Spec => []WindowBound
<1>1. IInv => WindowBound
  BY DEF IInv
<1> QED BY InductiveInvariant, <1>1, PTL

\* Who waits as long as Retry-After says, and the second it was cut by, is let through.
THEOREM RetryAfterKept == Spec => []RetryAfterHolds
<1>1. IInv => RetryAfterHolds
  BY DEF IInv, Promise, RetryAfterHolds
<1> QED BY InductiveInvariant, <1>1, PTL

-----------------------------------------------------------------------------
(* List comprehensions (Lists).  A property of every list is proved by     *)
(* induction on how much of the list has been looked at: had it failed, it *)
(* would have failed first somewhere (Least), because < is well founded.   *)

\* A set of naturals that is not empty has a least element.
LEMMA Least ==
  ASSUME NEW T \in SUBSET Nat, T # {}
  PROVE  \E m \in T : \A k \in T : m <= k
<1>1. IsWellFoundedOn(OpToRel(<,Nat), Nat)
  BY NatLessThanWellFounded
<1>2. PICK x \in T : \A y \in T : ~(<<y, x>> \in OpToRel(<,Nat))
  BY <1>1, WFMin
<1>3. \A y \in T : <<y, x>> \in OpToRel(<,Nat) <=> y < x
  BY DEF OpToRel
<1>4. \A y \in T : ~(y < x)
  BY <1>2, <1>3
<1> QED
  BY <1>4

\* Induction: 0 and the successors of its elements make all the naturals.
LEMMA UpTo ==
  ASSUME NEW T, 0 \in T, \A n \in Nat : n \in T => n + 1 \in T
  PROVE  Nat \subseteq T
<1> SUFFICES ASSUME Nat \ T # {} PROVE FALSE
  OBVIOUS
<1>1. PICK m \in Nat \ T : \A k \in Nat \ T : m <= k
  BY Least
<1>2. m # 0 /\ m - 1 \in Nat /\ m - 1 \in T
  BY <1>1
<1> QED
  BY <1>1, <1>2

\* g[i] is the list of what is at the places of I up to i.
PartsOf(g, s, I, n) ==
  g = [i \in 0..n |-> IF i = 0 THEN <<>> ELSE IF i \in I THEN Append(g[i - 1], s[i]) ELSE g[i - 1]]

LEMMA PrefixesExist ==
  ASSUME NEW s, NEW I, NEW n \in Nat
  PROVE  \E g : PartsOf(g, s, I, n)
<1> DEFINE T == {k \in Nat : \E g : PartsOf(g, s, I, k)}
<1>1. 0 \in T
  <2>1. PartsOf([i \in 0..0 |-> <<>>], s, I, 0)
    BY DEF PartsOf
  <2> QED
    BY <2>1
<1>2. ASSUME NEW k \in Nat, k \in T PROVE k + 1 \in T
  <2>1. PICK g : PartsOf(g, s, I, k)
    BY <1>2
  <2> DEFINE h == [i \in 0..k + 1 |-> IF i = k + 1 THEN IF k + 1 \in I THEN Append(g[k], s[k + 1]) ELSE g[k] ELSE g[i]]
  <2>2. \A i \in 0..k : h[i] = g[i]
    OBVIOUS
  <2>4. \A i \in 0..k : g[i] = IF i = 0 THEN <<>> ELSE IF i \in I THEN Append(g[i - 1], s[i]) ELSE g[i - 1]
    BY <2>1 DEF PartsOf
  <2>3. \A i \in 0..k + 1 : h[i] = IF i = 0 THEN <<>> ELSE IF i \in I THEN Append(h[i - 1], s[i]) ELSE h[i - 1]
    <3>1. ASSUME NEW i \in 0..k
          PROVE h[i] = IF i = 0 THEN <<>> ELSE IF i \in I THEN Append(h[i - 1], s[i]) ELSE h[i - 1]
      <4>1. CASE i = 0
        BY <4>1, <2>2, <2>4
      <4>2. CASE i # 0
        <5>1. i - 1 \in 0..k
          BY <4>2
        <5>2. h[i] = g[i] /\ h[i - 1] = g[i - 1]
          BY <5>1, <2>2
        <5> HIDE DEF h
        <5> QED
          BY <4>2, <5>2, <2>4
      <4> QED BY <4>1, <4>2
    <3>2. h[k + 1] = IF k + 1 \in I THEN Append(h[k], s[k + 1]) ELSE h[k]
      BY <2>2
    <3>3. \A i \in 0..k + 1 : i \in 0..k \/ i = k + 1
      OBVIOUS
    <3>4. k + 1 # 0 /\ (k + 1) - 1 = k
      OBVIOUS
    <3> HIDE DEF h
    <3> QED BY <3>1, <3>2, <3>3, <3>4
  <2>5. h = [i \in 0..k + 1 |-> h[i]]
    OBVIOUS
  <2> HIDE DEF h
  <2>6. PartsOf(h, s, I, k + 1)
    BY <2>3, <2>5 DEF PartsOf
  <2> QED
    BY <2>6
<1> HIDE DEF T
<1>3. Nat \subseteq T
  BY <1>1, <1>2, UpTo
<1> QED
  BY <1>3 DEF T

LEMMA ThosePrefix ==
  ASSUME NEW s, NEW I, Len(s) \in Nat
  PROVE  \E g : PartsOf(g, s, I, Len(s)) /\ Those(s, I) = g[Len(s)]
<1>1. \E g : PartsOf(g, s, I, Len(s))
  BY PrefixesExist
<1> DEFINE f == CHOOSE g : PartsOf(g, s, I, Len(s))
<1>2. PartsOf(f, s, I, Len(s))
  BY <1>1
<1>3. Those(s, I) = f[Len(s)]
  BY DEF Those, PartsOf
<1> QED BY <1>2, <1>3

\* p goes up through the places of I that are not after n.
Places(p, I, n) ==
  /\ p \in Seq(Nat) /\ Len(p) <= n
  /\ \A a \in 1..Len(p) : p[a] \in I \cap (1..n)
  /\ \A a, b \in 1..Len(p) : a < b => p[a] < p[b]
  /\ \A i \in I \cap (1..n) : \E a \in 1..Len(p) : p[a] = i
At(s, p) == [a \in 1..Len(p) |-> s[p[a]]]

LEMMA OnePlaceMore ==
  ASSUME NEW s, NEW I, NEW n \in Nat, NEW p, Places(p, I, n)
  PROVE  IF n + 1 \in I THEN /\ Places(Append(p, n + 1), I, n + 1)
                             /\ At(s, Append(p, n + 1)) = Append(At(s, p), s[n + 1])
                        ELSE Places(p, I, n + 1)
<1> DEFINE longer == Append(p, n + 1)
<1>0. p \in Seq(Nat) /\ Len(p) \in Nat /\ Len(p) <= n
  BY DEF Places
<1>1. CASE n + 1 \in I
  <2>1. /\ longer \in Seq(Nat) /\ Len(longer) = Len(p) + 1 /\ longer[Len(p) + 1] = n + 1
        /\ \A a \in 1..Len(p) : longer[a] = p[a]
    BY <1>0
  <2> HIDE DEF longer
  <2>2. \A a \in 1..Len(longer) : a \in 1..Len(p) \/ a = Len(p) + 1
    BY <2>1, <1>0
  <2>3. \A a \in 1..Len(longer) : longer[a] \in I \cap (1..n + 1)
    BY <1>1, <2>1, <2>2 DEF Places
  <2>4. ASSUME NEW a \in 1..Len(longer), NEW b \in 1..Len(longer), a < b PROVE longer[a] < longer[b]
    <3>1. a \in 1..Len(p)
      BY <2>1, <2>4, <1>0
    <3>2. CASE b \in 1..Len(p)
      BY <3>1, <3>2, <2>1, <2>4 DEF Places
    <3>3. CASE b = Len(p) + 1
      <4>1. p[a] \in 1..n
        BY <3>1 DEF Places
      <4> QED BY <4>1, <3>1, <3>3, <2>1
    <3> QED BY <2>2, <3>2, <3>3
  <2>5. ASSUME NEW i \in I \cap (1..n + 1) PROVE \E a \in 1..Len(longer) : longer[a] = i
    <3>1. CASE i = n + 1
      <4>1. Len(p) + 1 \in 1..Len(longer)
        BY <2>1, <1>0
      <4> QED BY <4>1, <3>1, <2>1
    <3>2. CASE i # n + 1
      <4>1. i \in I \cap (1..n)
        BY <3>2
      <4>2. PICK a \in 1..Len(p) : p[a] = i
        BY <4>1 DEF Places
      <4>3. a \in 1..Len(longer) /\ longer[a] = i
        BY <4>2, <2>1, <1>0
      <4> QED BY <4>3
    <3> QED BY <3>1, <3>2
  <2>6. Places(longer, I, n + 1)
    BY <1>0, <2>1, <2>3, <2>4, <2>5 DEF Places
  <2>7. At(s, longer) = Append(At(s, p), s[n + 1])
    <3>1. Len(At(s, p)) = Len(p) /\ \A a \in 1..Len(p) : At(s, p)[a] = s[p[a]]
      BY <1>0 DEF At
    <3>2. Append(At(s, p), s[n + 1]) = [a \in 1..Len(p) + 1 |-> IF a = Len(p) + 1 THEN s[n + 1] ELSE s[p[a]]]
      BY <3>1, <1>0 DEF At
    <3>3. At(s, longer) = [a \in 1..Len(p) + 1 |-> s[longer[a]]]
      BY <2>1 DEF At
    <3>4. \A a \in 1..Len(p) + 1 : s[longer[a]] = IF a = Len(p) + 1 THEN s[n + 1] ELSE s[p[a]]
      BY <2>1, <2>2
    <3> QED BY <3>2, <3>3, <3>4
  <2> QED BY <1>1, <2>6, <2>7 DEF longer
<1>2. CASE n + 1 \notin I
  <2>1. \A i \in I \cap (1..n + 1) : i \in I \cap (1..n)
    BY <1>2
  <2>2. Places(p, I, n + 1)
    BY <1>0, <2>1 DEF Places
  <2> QED BY <1>2, <2>2
<1> QED BY <1>1, <1>2

\* Those lists what is at the places of I, in order.
LEMMA ThoseList ==
  ASSUME NEW S, NEW s \in Seq(S), NEW I
  PROVE  \E p : Places(p, I, Len(s)) /\ Those(s, I) = At(s, p)
<1>0. Len(s) \in Nat
  OBVIOUS
<1>1. PICK g : PartsOf(g, s, I, Len(s)) /\ Those(s, I) = g[Len(s)]
  BY <1>0, ThosePrefix
<1> DEFINE T == {n \in Nat : n <= Len(s) => \E p : Places(p, I, n) /\ g[n] = At(s, p)}
<1>2. 0 \in T
  <2>1. g[0] = <<>> /\ <<>> = At(s, <<>>)
    BY <1>0, <1>1 DEF PartsOf, At
  <2>2. Places(<<>>, I, 0)
    BY DEF Places
  <2> QED BY <2>1, <2>2
<1>3. ASSUME NEW n \in Nat, n \in T PROVE n + 1 \in T
  <2> SUFFICES ASSUME n + 1 <= Len(s) PROVE \E p : Places(p, I, n + 1) /\ g[n + 1] = At(s, p)
    OBVIOUS
  <2>1. PICK p : Places(p, I, n) /\ g[n] = At(s, p)
    BY <1>3, <1>0
  <2>2. g[n + 1] = IF n + 1 \in I THEN Append(g[n], s[n + 1]) ELSE g[n]
    <3>1. n + 1 \in 0..Len(s) /\ n + 1 # 0 /\ (n + 1) - 1 = n
      BY <1>0
    <3> QED BY <3>1, <1>1 DEF PartsOf
  <2>3. CASE n + 1 \in I
    BY <2>1, <2>2, <2>3, OnePlaceMore
  <2>4. CASE n + 1 \notin I
    BY <2>1, <2>2, <2>4, OnePlaceMore
  <2> QED BY <2>3, <2>4
<1> HIDE DEF T
<1>4. Nat \subseteq T
  BY <1>2, <1>3, UpTo
<1>5. Len(s) \in T
  BY <1>0, <1>4
<1> QED BY <1>0, <1>1, <1>5 DEF T

\* What a list keeps: its type, at most its length, nothing but what is at a place of I.
LEMMA ThoseKept ==
  ASSUME NEW S, NEW s \in Seq(S), NEW I
  PROVE  /\ Those(s, I) \in Seq(S) /\ Len(Those(s, I)) <= Len(s)
         /\ \A k \in DOMAIN Those(s, I) : \E i \in I \cap DOMAIN s : Those(s, I)[k] = s[i]
<1>1. PICK p : Places(p, I, Len(s)) /\ Those(s, I) = At(s, p)
  BY ThoseList
<1>2. Len(p) \in Nat /\ Len(p) <= Len(s) /\ \A a \in 1..Len(p) : p[a] \in I \cap DOMAIN s
  BY <1>1 DEF Places
<1>3. At(s, p) \in [1..Len(p) -> S] /\ \A a \in 1..Len(p) : At(s, p)[a] = s[p[a]]
  BY <1>2 DEF At
<1>4. At(s, p) \in Seq(S) /\ Len(At(s, p)) = Len(p) /\ DOMAIN At(s, p) = 1..Len(p)
  BY <1>2, <1>3
<1> DEFINE t == At(s, p)
<1>5. t \in Seq(S) /\ Len(t) <= Len(s)
  BY <1>2, <1>4
<1>6. ASSUME NEW k \in DOMAIN t PROVE \E i \in I \cap DOMAIN s : t[k] = s[i]
  <2>1. k \in 1..Len(p)
    BY <1>4
  <2>2. p[k] \in I \cap DOMAIN s /\ t[k] = s[p[k]]
    BY <2>1, <1>2, <1>3
  <2> QED BY <2>2
<1> HIDE DEF t
<1> QED BY <1>1, <1>5, <1>6 DEF t

\* What is at a place of I is kept.
LEMMA NoneLost ==
  ASSUME NEW S, NEW s \in Seq(S), NEW I, NEW i \in I, i \in DOMAIN s
  PROVE  \E k \in DOMAIN Those(s, I) : Those(s, I)[k] = s[i]
<1>1. PICK p : Places(p, I, Len(s)) /\ Those(s, I) = At(s, p)
  BY ThoseList
<1>2. PICK a \in 1..Len(p) : p[a] = i
  BY <1>1 DEF Places
<1>3. a \in DOMAIN At(s, p) /\ At(s, p)[a] = s[i]
  BY <1>2 DEF At
<1> QED BY <1>1, <1>3

LEMMA SameThose == \A s, I : Asked!Those(s, I) = Those(s, I) /\ Logged!Those(s, I) = Those(s, I) /\ Turned!Those(s, I) = Those(s, I)
BY DEF Asked!Those, Logged!Those, Turned!Those, Those

-----------------------------------------------------------------------------
(* The bodies of questions, for any questions and symbols.                 *)
\* A job runs in one of six stages and in a usable session: every error ends the job, and
\* no stage begins another before the session has been rolled back.
JobStages == {"hydrate", "warm", "retry", "anchors", "edges", "named"}
JobUsable == \A q \in Questions : job[q] # "none" => tx[q] = "ok" /\ at[q] \in JobStages

\* A row to be marked has its vector already, and what was hydrated is committed.
MarksHavePoints == \A q \in Questions : job[q] = "mark" => lack[q] \subseteq points
HydratedCommitted == \A q \in Questions : \A s \in hydrated[q] : row[s] # "none"

BodyRows ==
  /\ row \in [Symbols -> Asked!RowStatus]
  /\ mine \in [Questions -> [Symbols -> Asked!RowStatus]]
  /\ at \in [Questions -> Asked!Stages] /\ tx \in [Questions -> {"ok", "aborted", "broken"}]
  /\ job \in [Questions -> {"none", "parse", "insert", "embed", "mark"}]
  /\ hydrated \in [Questions -> SUBSET Symbols] /\ saw \in [Questions -> SUBSET Symbols]
  /\ DOMAIN lack = Questions

BodiesInv ==
  /\ BodyRows /\ JobUsable /\ MarksHavePoints /\ HydratedCommitted
  /\ Asked!ReadyHasPoint /\ Asked!HydratedIsSearched

LEMMA BodiesInit == Asked!Init => BodiesInv
BY DEF Asked!Init, Asked!StartsAt, BodiesInv, BodyRows, JobUsable, MarksHavePoints, HydratedCommitted,
       Asked!ReadyHasPoint, Asked!HydratedIsSearched, Asked!NoRows, Asked!RowStatus, Asked!Stages

USE DEF Asked!store, Asked!work, Asked!Stages, Asked!RowStatus

\* What a step of q may do: to the rows, to its own uncommitted ones, to its session.
RowsOf(q) ==
  /\ row' \in [Symbols -> Asked!RowStatus]
  /\ \A s \in Symbols : row'[s] = row[s] \/ (row'[s] # "none" /\ row'[s] = mine[q][s])
OwnOf(q) ==
  /\ mine' \in [Questions -> [Symbols -> Asked!RowStatus]]
  /\ \A p \in Questions \ {q} : mine'[p] = mine[p]
  /\ \A s \in Symbols :
       mine'[q][s] = "ready" => mine[q][s] = "ready" \/ (job[q] = "mark" /\ s \in lack[q])
TxOf(q) ==
  /\ tx' \in [Questions -> {"ok", "aborted", "broken"}]
  /\ \A p \in Questions \ {q} : tx'[p] = tx[p]
JobOf(q) ==
  /\ at' \in [Questions -> Asked!Stages]
  /\ job' \in [Questions -> {"none", "parse", "insert", "embed", "mark"}]
  /\ DOMAIN lack' = Questions
  /\ \A p \in Questions \ {q} : at'[p] = at[p] /\ job'[p] = job[p] /\ lack'[p] = lack[p]
SeenBy(q) ==
  /\ hydrated' \in [Questions -> SUBSET Symbols] /\ saw' \in [Questions -> SUBSET Symbols]
  /\ \A p \in Questions \ {q} : hydrated'[p] = hydrated[p] /\ saw'[p] = saw[p]

Searched == {"retry", "anchors", "edges", "named", "load", "compose"}

LEMMA StepOf ==
  ASSUME BodiesInv, NEW q \in Questions,
         RowsOf(q), OwnOf(q), TxOf(q), JobOf(q), SeenBy(q), points \subseteq points',
         job'[q] # "none" => tx'[q] = "ok" /\ at'[q] \in JobStages,
         job'[q] = "mark" => lack'[q] \subseteq points',
         \A s \in hydrated'[q] : s \in hydrated[q] \/ row'[s] # "none",
         at'[q] \in Searched => hydrated'[q] \subseteq saw'[q]
  PROVE  BodiesInv'
<1>1. BodyRows'
  BY DEF BodyRows, RowsOf, OwnOf, TxOf, JobOf, SeenBy
<1>2. JobUsable'
  BY DEF BodiesInv, JobUsable, TxOf, JobOf
<1>3. MarksHavePoints'
  BY DEF BodiesInv, MarksHavePoints, JobOf
<1>4. HydratedCommitted'
  BY DEF BodiesInv, BodyRows, HydratedCommitted, RowsOf, SeenBy
<1>5. Asked!ReadyHasPoint'
  BY DEF BodiesInv, MarksHavePoints, Asked!ReadyHasPoint, RowsOf, OwnOf
<1>6. Asked!HydratedIsSearched'
  BY DEF BodiesInv, Asked!HydratedIsSearched, JobOf, SeenBy, Searched
<1> QED
  BY <1>1, <1>2, <1>3, <1>4, <1>5, <1>6 DEF BodiesInv

\* What commits, ends and rolls back, and what leaves each of them alone.
LEMMA CommitRows ==
  ASSUME BodiesInv, NEW q \in Questions, Asked!Commit(q)
  PROVE  /\ RowsOf(q) /\ OwnOf(q) /\ TxOf(q) /\ tx'[q] = "ok"
         /\ tx[q] = "ok" => \A s \in Symbols : mine[q][s] # "none" => row'[s] = mine[q][s]
BY DEF Asked!Commit, Asked!Merge, Asked!NoRows, RowsOf, OwnOf, TxOf, BodiesInv, BodyRows

LEMMA EndRows ==
  ASSUME BodiesInv, NEW q \in Questions, NEW code, Asked!Ends(q, code)
  PROVE  OwnOf(q) /\ TxOf(q) /\ JobOf(q) /\ at'[q] = "end" /\ job'[q] = "none"
BY DEF Asked!Ends, Asked!Closed, Asked!NoRows, OwnOf, TxOf, JobOf, BodiesInv, BodyRows

LEMMA StillRows ==
  ASSUME BodiesInv, NEW q \in Questions
  PROVE  /\ row' = row => RowsOf(q)
         /\ mine' = mine => OwnOf(q)
         /\ tx' = tx => TxOf(q)
         /\ UNCHANGED <<at, job, lack>> => JobOf(q)
         /\ UNCHANGED <<hydrated, saw>> => SeenBy(q)
         /\ \A s \in hydrated[q] : row[s] # "none"
         /\ at[q] \in Searched => hydrated[q] \subseteq saw[q]
BY DEF RowsOf, OwnOf, TxOf, JobOf, SeenBy, BodiesInv, BodyRows, HydratedCommitted,
       Asked!HydratedIsSearched, Searched

\* The next stage: what a question hydrated it searches, from the retry on.
LEMMA NextStage ==
  ASSUME BodiesInv, NEW q \in Questions, Asked!Moves(q),
         at[q] \in Asked!Stages \ {"compose", "end"}
  PROVE  /\ at' \in [Questions -> Asked!Stages]
         /\ \A p \in Questions \ {q} : at'[p] = at[p]
         /\ at'[q] \in Searched <=> at[q] \in (Searched \cup {"lanes"}) \ {"compose"}
BY DEF Asked!Moves, Asked!After, Searched, BodiesInv, BodyRows

LEMMA EndingQuestion ==
  ASSUME BodiesInv, NEW q \in Questions, NEW code, Asked!Ends(q, code),
         RowsOf(q), UNCHANGED <<points, hydrated, saw>>
  PROVE  BodiesInv'
<1>1. OwnOf(q) /\ TxOf(q) /\ JobOf(q) /\ at'[q] = "end" /\ job'[q] = "none"
  BY EndRows
<1>2. SeenBy(q)
  BY StillRows
<1> QED
  BY <1>1, <1>2, StepOf DEF Searched

\* The stages between two jobs.
LEMMA StageSteps ==
  ASSUME BodiesInv, NEW q \in Questions,
         Asked!Open(q) \/ Asked!Route(q) \/ Asked!Load(q) \/ Asked!Lanes(q)
  PROVE  BodiesInv'
<1>1. UNCHANGED <<row, points, hydrated>> /\ RowsOf(q) /\ SeenBy(q)
  <2>1. UNCHANGED <<row, points, hydrated>>
    BY DEF Asked!Open, Asked!Route, Asked!Load, Asked!Lanes
  <2>2. saw' = saw \/ saw' = [saw EXCEPT ![q] = Asked!Readable(q)]
    BY DEF Asked!Open, Asked!Route, Asked!Load, Asked!Lanes
  <2> QED
    BY <2>1, <2>2, StillRows DEF SeenBy, Asked!Readable, BodiesInv, BodyRows
<1>2. CASE \E code : Asked!Ends(q, code) /\ saw' = saw
  BY <1>1, <1>2, EndingQuestion
<1>3. CASE Asked!Moves(q) /\ UNCHANGED Asked!work
  <2>1. at[q] \in {"open", "route", "load", "lanes"} /\ job[q] = "none"
    BY DEF Asked!Open, Asked!Route, Asked!Load, Asked!Lanes, Asked!Usable, Asked!Idle
  <2>2. OwnOf(q) /\ TxOf(q) /\ JobOf(q)
    BY <1>3, <2>1, NextStage, StillRows DEF JobOf, BodiesInv, BodyRows
  <2>3. at'[q] \in Searched => at[q] \in {"load", "lanes"}
    BY <1>3, <2>1, NextStage DEF Searched
  <2>4. at[q] = "lanes" => saw'[q] = Asked!Readable(q)
    BY <1>3, <2>1 DEF Asked!Open, Asked!Route, Asked!Load, Asked!Lanes, Asked!Ends,
       Asked!Usable, Asked!Idle, Asked!Moves, Asked!After, BodiesInv, BodyRows
  <2>5. at[q] = "load" => saw' = saw
    BY <2>1 DEF Asked!Open, Asked!Route, Asked!Load, Asked!Lanes, Asked!Usable, Asked!Idle
  <2>6. at'[q] \in Searched => hydrated'[q] \subseteq saw'[q]
    <3>1. hydrated[q] \subseteq Asked!Readable(q)
      BY StillRows DEF Asked!Readable, BodiesInv, BodyRows
    <3> QED
      BY <1>1, <2>3, <2>4, <2>5, <3>1, StillRows DEF Searched
  <2> QED
    BY <1>1, <1>3, <2>1, <2>2, <2>6, StillRows, StepOf DEF SeenBy
<1> QED
  BY <1>2, <1>3 DEF Asked!Open, Asked!Route, Asked!Load, Asked!Lanes

LEMMA LastSteps ==
  ASSUME BodiesInv, NEW q \in Questions,
         Asked!NextStatement(q) \/ Asked!Compose(q) \/ Asked!Cancel(q)
  PROVE  BodiesInv'
<1>1. RowsOf(q)
  BY StillRows DEF Asked!NextStatement, Asked!Compose, Asked!Cancel, Asked!Merge, RowsOf,
     BodiesInv, BodyRows
<1> QED
  BY <1>1, EndingQuestion DEF Asked!NextStatement, Asked!Compose, Asked!Cancel

LEMMA SkippedStages ==
  ASSUME BodiesInv, NEW q \in Questions, Asked!Skips(q)
  PROVE  BodiesInv'
<1>1. /\ at[q] \in {"hydrate", "warm", "retry", "anchors", "edges", "named"}
      /\ job[q] = "none" /\ Asked!Moves(q) /\ UNCHANGED <<points, job, lack, hydrated, saw>>
  BY DEF Asked!Skips
<1>2. RowsOf(q) /\ OwnOf(q) /\ TxOf(q)
  BY StillRows, CommitRows DEF Asked!Skips
<1>3. JobOf(q)
  BY <1>1, NextStage DEF JobOf, BodiesInv, BodyRows
<1>4. at'[q] \in Searched => hydrated'[q] \subseteq saw'[q]
  BY <1>1, NextStage, StillRows DEF Searched
<1> QED
  BY <1>1, <1>2, <1>3, <1>4, StillRows, StepOf

\* A job's steps up to its marks: the stage and what was seen stay.
LEMMA JobStep ==
  ASSUME BodiesInv, NEW q \in Questions, UNCHANGED <<row, at, hydrated, saw>>,
         OwnOf(q), TxOf(q), JobOf(q), points \subseteq points',
         job'[q] # "none" => tx'[q] = "ok" /\ at[q] \in JobStages,
         job'[q] = "mark" => lack'[q] \subseteq points'
  PROVE  BodiesInv'
BY StillRows, StepOf

LEMMA JobSteps ==
  ASSUME BodiesInv, NEW q \in Questions,
         \/ Asked!Hydrate(q) \/ Asked!Warm(q) \/ Asked!Retry(q)
         \/ Asked!Anchors(q) \/ Asked!Edges(q) \/ Asked!Named(q)
         \/ Asked!Parsed(q) \/ Asked!Insert(q) \/ Asked!Inserted(q)
         \/ Asked!Embed(q) \/ Asked!Mark(q)
  PROVE  BodiesInv'
<1>1. CASE \/ Asked!Hydrate(q) \/ Asked!Warm(q) \/ Asked!Retry(q)
           \/ Asked!Anchors(q) \/ Asked!Edges(q) \/ Asked!Named(q)
  <2>1. UNCHANGED <<row, points, at, hydrated, saw, mine, tx>> /\ tx[q] = "ok"
    BY <1>1 DEF Asked!Hydrate, Asked!Warm, Asked!Retry, Asked!Anchors, Asked!Edges, Asked!Named,
       Asked!Materialize, Asked!Usable
  <2>3. at[q] \in JobStages
    BY <1>1 DEF Asked!Hydrate, Asked!Warm, Asked!Retry, Asked!Anchors, Asked!Edges, Asked!Named,
       Asked!Materialize, Asked!Usable, Asked!Idle, JobStages
  <2>2. JobOf(q) /\ job'[q] = "parse"
    BY <1>1 DEF Asked!Hydrate, Asked!Warm, Asked!Retry, Asked!Anchors, Asked!Edges, Asked!Named,
       Asked!Materialize, JobOf, BodiesInv, BodyRows
  <2> QED
    BY <2>1, <2>2, <2>3, StillRows, JobStep
<1>2. CASE Asked!Parsed(q) \/ Asked!Inserted(q)
  <2>1. UNCHANGED <<row, points, at, hydrated, saw, mine, tx>> /\ tx[q] = "ok" /\ at[q] \in JobStages
    BY <1>2 DEF Asked!Parsed, Asked!Inserted, BodiesInv, JobUsable
  <2>2. JobOf(q) /\ job'[q] \in {"insert", "embed"}
    BY <1>2 DEF Asked!Parsed, Asked!Inserted, JobOf, BodiesInv, BodyRows
  <2> QED
    BY <2>1, <2>2, StillRows, JobStep
<1>3. CASE Asked!Insert(q)
  <2>1. UNCHANGED <<row, points, at, hydrated, saw>> /\ job[q] = "insert" /\ tx[q] = "ok"
        /\ at[q] \in JobStages
    BY <1>3 DEF Asked!Insert, BodiesInv, JobUsable
  <2>2. OwnOf(q) /\ TxOf(q) /\ JobOf(q)
    <3>1. CASE Asked!Breaks(q)
      BY <2>1, <3>1 DEF Asked!Breaks, Asked!NoRows, OwnOf, TxOf, JobOf, BodiesInv, BodyRows
    <3>2. CASE /\ mine' = [mine EXCEPT ![q][Head(todo[q])] = "pending"]
               /\ UNCHANGED <<job, lack, tx>>
      <4>1. mine' = [mine EXCEPT ![q] = [mine[q] EXCEPT ![Head(todo[q])] = "pending"]]
        BY <3>2
      <4>2. OwnOf(q)
        BY <4>1 DEF OwnOf, BodiesInv, BodyRows
      <4> QED
        BY <2>1, <3>2, <4>2, StillRows
    <3> QED
      BY <1>3, <3>1, <3>2 DEF Asked!Insert
  <2>3. job'[q] = "none" \/ (job'[q] = "insert" /\ tx'[q] = "ok")
    BY <1>3, <2>1 DEF Asked!Insert, Asked!Breaks, BodiesInv, BodyRows
  <2> QED
    BY <2>1, <2>2, <2>3, JobStep
<1>4. CASE Asked!Embed(q)
  <2>1. UNCHANGED <<row, at, hydrated, saw, mine, tx>> /\ job[q] = "embed" /\ tx[q] = "ok"
        /\ at[q] \in JobStages
    BY <1>4 DEF Asked!Embed, BodiesInv, JobUsable
  <2>2. JobOf(q) /\ points' = points \cup lack[q] /\ lack'[q] \subseteq lack[q]
    BY <1>4 DEF Asked!Embed, Asked!Upserted, JobOf, BodiesInv, BodyRows
  <2> QED
    BY <2>1, <2>2, StillRows, JobStep
<1>5. CASE Asked!Mark(q)
  <2>1. UNCHANGED <<row, points, at, hydrated, saw, job, tx>> /\ job[q] = "mark" /\ tx[q] = "ok"
        /\ at[q] \in JobStages
    BY <1>5 DEF Asked!Mark, BodiesInv, JobUsable
  <2>2. PICK s \in lack[q] : /\ mine' = [mine EXCEPT ![q][s] = "ready"]
                             /\ lack' = [lack EXCEPT ![q] = lack[q] \ {s}]
    BY <1>5 DEF Asked!Mark
  <2>4. mine' = [mine EXCEPT ![q] = [mine[q] EXCEPT ![s] = "ready"]]
    BY <2>2
  <2>5. OwnOf(q)
    BY <2>1, <2>4 DEF OwnOf, BodiesInv, BodyRows
  <2>6. JobOf(q) /\ lack'[q] \subseteq lack[q]
    BY <2>1, <2>2 DEF JobOf, BodiesInv, BodyRows
  <2>3. lack[q] \subseteq points
    BY <2>1 DEF BodiesInv, MarksHavePoints
  <2> QED
    BY <2>1, <2>3, <2>5, <2>6, StillRows, JobStep
<1> QED
  BY <1>1, <1>2, <1>3, <1>4, <1>5

\* A job that is over, well or with an error: the stages that commit its rows, and those
\* that leave them open.
LEMMA EndedJob ==
  ASSUME BodiesInv, NEW q \in Questions, at[q] \in JobStages, job[q] # "none",
         job' = [job EXCEPT ![q] = "none"], lack' = [lack EXCEPT ![q] = {}],
         UNCHANGED <<points, saw>>, Asked!Moves(q),
         RowsOf(q), OwnOf(q), TxOf(q), SeenBy(q),
         \A s \in hydrated'[q] : s \in hydrated[q] \/ row'[s] # "none",
         at[q] \in Searched => hydrated'[q] = hydrated[q]
  PROVE  BodiesInv'
<1>1. JobOf(q) /\ job'[q] = "none"
  BY NextStage DEF JobOf, JobStages, BodiesInv, BodyRows
<1>2. at'[q] \in Searched => at[q] \in Searched
  BY NextStage DEF Searched, JobStages
<1>3. at'[q] \in Searched => hydrated'[q] \subseteq saw'[q]
  BY <1>2, StillRows
<1> QED
  BY <1>1, <1>3, StepOf

LEMMA EndedJobs ==
  ASSUME BodiesInv, NEW q \in Questions,
         Asked!Materialized(q) \/ Asked!MaterializeFails(q)
  PROVE  BodiesInv'
<1>1. job[q] # "none" /\ at[q] \in JobStages /\ tx[q] = "ok"
  BY DEF Asked!Materialized, Asked!MaterializeFails, BodiesInv, JobUsable
<1>2. RowsOf(q) /\ OwnOf(q) /\ TxOf(q)
  BY StillRows, CommitRows DEF Asked!Materialized, Asked!MaterializeFails
<1>3. CASE Asked!Materialized(q)
  <2>1. CASE at[q] = "hydrate"
    <3>1. hydrated' = [hydrated EXCEPT ![q] = {s \in Symbols : mine[q][s] # "none"}]
          /\ saw' = saw /\ Asked!Commit(q)
      BY <1>3, <2>1 DEF Asked!Materialized, Asked!CommitsAfter
    <3>2. SeenBy(q) /\ hydrated'[q] = {s \in Symbols : mine[q][s] # "none"}
      BY <3>1 DEF SeenBy, BodiesInv, BodyRows
    <3>3. \A s \in hydrated'[q] : row'[s] # "none"
      BY <1>1, <3>1, <3>2, CommitRows
    <3> QED
      BY <1>1, <1>2, <1>3, <2>1, <3>2, <3>3, EndedJob DEF Asked!Materialized, Searched
  <2>2. CASE at[q] # "hydrate"
    <3>1. UNCHANGED <<hydrated, saw>>
      BY <1>3, <2>2 DEF Asked!Materialized
    <3> QED
      BY <1>1, <1>2, <1>3, <3>1, StillRows, EndedJob DEF Asked!Materialized
  <2> QED
    BY <2>1, <2>2
<1>4. CASE Asked!MaterializeFails(q)
  BY <1>1, <1>2, <1>4, StillRows, EndedJob DEF Asked!MaterializeFails
<1> QED
  BY <1>3, <1>4

LEMMA DeadlockStep ==
  ASSUME BodiesInv, NEW q \in Questions, Asked!Deadlock(q)
  PROVE  BodiesInv'
<1>1. UNCHANGED <<row, points, hydrated, saw>> /\ job[q] # "none" /\ at[q] \in JobStages
  BY DEF Asked!Deadlock, BodiesInv, JobUsable
<1>2. mine' = [mine EXCEPT ![q] = Asked!NoRows]
      /\ job' = [job EXCEPT ![q] = "none"] /\ lack' = [lack EXCEPT ![q] = {}]
  BY DEF Asked!Deadlock, Asked!Breaks
<1>3. OwnOf(q) /\ job'[q] = "none"
  BY <1>2 DEF OwnOf, Asked!NoRows, BodiesInv, BodyRows
<1>4. TxOf(q)
  BY DEF Asked!Deadlock, Asked!Breaks, TxOf, BodiesInv, BodyRows
<1>5. CASE UNCHANGED at
  <2>1. JobOf(q)
    BY <1>2, <1>5 DEF JobOf, BodiesInv, BodyRows
  <2> QED
    BY <1>1, <1>3, <1>4, <1>5, <2>1, StillRows, JobStep
<1>6. CASE Asked!Moves(q)
  BY <1>1, <1>2, <1>3, <1>4, <1>6, StillRows, EndedJob
<1> QED
  BY <1>5, <1>6 DEF Asked!Deadlock

LEMMA BodiesStep == BodiesInv /\ [Asked!Next]_Asked!vars => BodiesInv'
<1> SUFFICES ASSUME BodiesInv, [Asked!Next]_Asked!vars PROVE BodiesInv'
  OBVIOUS
<1>1. ASSUME NEW q \in Questions, Asked!Steps(q) PROVE BodiesInv'
  BY <1>1, StageSteps, LastSteps, SkippedStages, JobSteps, EndedJobs, DeadlockStep DEF Asked!Steps
<1>2. ASSUME NEW q \in Questions, Asked!PinFallsDue(q) PROVE BodiesInv'
  BY <1>2 DEF Asked!PinFallsDue, BodiesInv, BodyRows, JobUsable, MarksHavePoints, HydratedCommitted,
     Asked!ReadyHasPoint, Asked!HydratedIsSearched
<1>3. CASE UNCHANGED Asked!vars
  BY <1>3 DEF Asked!vars, BodiesInv, BodyRows, JobUsable, MarksHavePoints, HydratedCommitted,
     Asked!ReadyHasPoint, Asked!HydratedIsSearched
<1> QED
  BY <1>1, <1>2, <1>3 DEF Asked!Next

\* The types that the argument above does not need: the lists and sets of a job stay among the bodies.
QuestionsTyped ==
  /\ points \subseteq Symbols
  /\ todo \in [Questions -> Seq(Symbols)] /\ lack \in [Questions -> SUBSET Symbols]
  /\ pin \in [Questions -> {"live", "due", "gone"}]
  /\ fault \in [Questions -> BOOLEAN]
  /\ status \in [Questions -> {0, 200, 408, 409, 500, 503}]

LEMMA WantedAreLists ==
  ASSUME Asked!QuestionAssumption, NEW q \in Questions, NEW want \in Asked!WantedBodies(q)
  PROVE  want \in Seq(Symbols)
<1>1. PICK S \in SUBSET Symbols : want \in Asked!SetToSeqs(S)
  BY DEF Asked!WantedBodies, Asked!MissingBodies
<1>2. IsFiniteSet(Symbols)
  BY DEF Asked!QuestionAssumption, Asked!IsFiniteSet, IsFiniteSet
<1>3. Cardinality(S) \in Nat
  BY <1>2, FS_Subset, FS_CardinalityType
<1>4. Asked!Cardinality(S) = Cardinality(S)
  BY DEF Asked!Cardinality, Cardinality
<1>5. want \in [1 .. Cardinality(S) -> S]
  BY <1>1, <1>4 DEF Asked!SetToSeqs
<1> QED
  BY <1>3, <1>5

LEMMA TypedStages ==
  ASSUME QuestionsTyped, NEW q \in Questions,
         \/ Asked!Open(q) \/ Asked!Route(q) \/ Asked!Load(q) \/ Asked!Lanes(q) \/ Asked!Skips(q)
         \/ Asked!NextStatement(q) \/ Asked!Compose(q) \/ Asked!Cancel(q) \/ Asked!PinFallsDue(q)
  PROVE  QuestionsTyped'
<1>1. UNCHANGED points
  BY DEF Asked!Open, Asked!Route, Asked!Load, Asked!Lanes, Asked!Skips, Asked!NextStatement, Asked!Compose,
     Asked!Cancel, Asked!PinFallsDue
<1>2. \/ UNCHANGED <<todo, lack, status>>
      \/ \E code \in {408, 409, 500, 503} : Asked!Ends(q, code)
  BY DEF Asked!Open, Asked!Route, Asked!Load, Asked!Lanes, Asked!Skips, Asked!NextStatement, Asked!Compose,
     Asked!Cancel, Asked!PinFallsDue
<1>3. fault' = fault \/ fault' = [fault EXCEPT ![q] = TRUE]
  BY DEF Asked!Open, Asked!Route, Asked!Load, Asked!Lanes, Asked!Skips, Asked!NextStatement, Asked!Compose,
     Asked!Cancel, Asked!PinFallsDue
<1>4. pin' = pin \/ pin' = [pin EXCEPT ![q] = "gone"] \/ pin' = [pin EXCEPT ![q] = "due"]
  BY DEF Asked!Open, Asked!Route, Asked!Load, Asked!Lanes, Asked!Skips, Asked!NextStatement, Asked!Compose,
     Asked!Cancel, Asked!PinFallsDue
<1>5. todo' \in [Questions -> Seq(Symbols)] /\ lack' \in [Questions -> SUBSET Symbols]
      /\ status' \in [Questions -> {0, 200, 408, 409, 500, 503}]
  <2>1. CASE UNCHANGED <<todo, lack, status>>
    BY <2>1 DEF QuestionsTyped
  <2>2. CASE \E code \in {408, 409, 500, 503} : Asked!Ends(q, code)
    BY <2>2 DEF QuestionsTyped, Asked!Ends
  <2> QED
    BY <1>2, <2>1, <2>2
<1>6. fault' \in [Questions -> BOOLEAN]
  <2>1. fault \in [Questions -> BOOLEAN]
    BY DEF QuestionsTyped
  <2>2. [fault EXCEPT ![q] = TRUE] \in [Questions -> BOOLEAN]
    BY <2>1
  <2> QED
    BY <1>3, <2>1, <2>2
<1>7. pin' \in [Questions -> {"live", "due", "gone"}]
  BY <1>4 DEF QuestionsTyped
<1>8. points' \subseteq Symbols
  BY <1>1 DEF QuestionsTyped
<1> QED
  BY <1>5, <1>6, <1>7, <1>8 DEF QuestionsTyped

LEMMA TypedJobs ==
  ASSUME Asked!QuestionAssumption, BodiesInv, QuestionsTyped, NEW q \in Questions,
         \/ Asked!Hydrate(q) \/ Asked!Warm(q) \/ Asked!Retry(q)
         \/ Asked!Anchors(q) \/ Asked!Edges(q) \/ Asked!Named(q)
         \/ Asked!Parsed(q) \/ Asked!Insert(q) \/ Asked!Inserted(q) \/ Asked!Embed(q) \/ Asked!Mark(q)
         \/ Asked!Materialized(q) \/ Asked!MaterializeFails(q) \/ Asked!Deadlock(q)
  PROVE  QuestionsTyped'
<1>1. UNCHANGED <<pin, status>> /\ (fault' = fault \/ fault' = [fault EXCEPT ![q] = TRUE])
  BY DEF Asked!Hydrate, Asked!Warm, Asked!Retry, Asked!Anchors, Asked!Edges, Asked!Named, Asked!Materialize,
     Asked!Parsed, Asked!Insert, Asked!Inserted, Asked!Embed, Asked!Mark, Asked!Materialized,
     Asked!MaterializeFails, Asked!Deadlock
<1>2. points' = points \/ points' = points \cup lack[q]
  BY DEF Asked!Hydrate, Asked!Warm, Asked!Retry, Asked!Anchors, Asked!Edges, Asked!Named, Asked!Materialize,
     Asked!Parsed, Asked!Insert, Asked!Inserted, Asked!Embed, Asked!Upserted, Asked!Mark, Asked!Materialized,
     Asked!MaterializeFails, Asked!Deadlock
<1>3. todo' = todo \/ \E list \in Seq(Symbols) : todo' = [todo EXCEPT ![q] = list]
  <2>1. CASE \/ Asked!Hydrate(q) \/ Asked!Warm(q) \/ Asked!Retry(q)
             \/ Asked!Anchors(q) \/ Asked!Edges(q) \/ Asked!Named(q)
    <3>1. \E want \in Asked!WantedBodies(q) : todo' = [todo EXCEPT ![q] = want]
      BY <2>1 DEF Asked!Hydrate, Asked!Warm, Asked!Retry, Asked!Anchors, Asked!Edges, Asked!Named,
         Asked!Materialize
    <3> QED
      BY <3>1, WantedAreLists
  <2>2. CASE Asked!Parsed(q)
    <3> DEFINE I == {i \in DOMAIN todo[q] : Asked!Visible(q, todo[q][i]) = "none"}
    <3>1. todo' = [todo EXCEPT ![q] = Those(todo[q], I)]
      BY <2>2, SameThose DEF Asked!Parsed, Asked!Filter, QuestionsTyped
    <3>2. todo[q] \in Seq(Symbols)
      BY DEF QuestionsTyped
    <3> HIDE DEF I
    <3>3. Those(todo[q], I) \in Seq(Symbols)
      BY <3>2, ThoseKept
    <3> QED
      BY <3>1, <3>3
  <2>3. CASE Asked!Insert(q)
    <3>1. todo[q] \in Seq(Symbols) /\ todo[q] # <<>>
      BY <2>3 DEF Asked!Insert, QuestionsTyped
    <3>2. Tail(todo[q]) \in Seq(Symbols) /\ <<>> \in Seq(Symbols)
      BY <3>1
    <3>3. todo' = [todo EXCEPT ![q] = Tail(todo[q])] \/ todo' = [todo EXCEPT ![q] = <<>>]
      BY <2>3 DEF Asked!Insert, Asked!Breaks
    <3> QED
      BY <3>2, <3>3
  <2>4. CASE \/ Asked!Inserted(q) \/ Asked!Embed(q) \/ Asked!Mark(q) \/ Asked!Materialized(q)
             \/ Asked!MaterializeFails(q) \/ Asked!Deadlock(q)
    <3>1. todo' = todo \/ todo' = [todo EXCEPT ![q] = <<>>]
      BY <2>4 DEF Asked!Inserted, Asked!Embed, Asked!Mark, Asked!Materialized, Asked!MaterializeFails,
         Asked!Deadlock, Asked!Breaks
    <3>2. <<>> \in Seq(Symbols)
      OBVIOUS
    <3> QED
      BY <3>1, <3>2
  <2> QED
    BY <2>1, <2>2, <2>3, <2>4
<1>4. lack' = lack \/ \E some \in SUBSET Symbols : lack' = [lack EXCEPT ![q] = some]
  <2>1. CASE \/ Asked!Hydrate(q) \/ Asked!Warm(q) \/ Asked!Retry(q)
             \/ Asked!Anchors(q) \/ Asked!Edges(q) \/ Asked!Named(q)
    BY <2>1 DEF Asked!Hydrate, Asked!Warm, Asked!Retry, Asked!Anchors, Asked!Edges, Asked!Named,
       Asked!Materialize, Asked!Unready
  <2>2. CASE Asked!Parsed(q)
    <3>1. lack' = [lack EXCEPT ![q] =
                     lack[q] \cup {s \in Asked!ToSet(todo[q]) : Asked!Visible(q, s) # "ready"}]
      BY <2>2 DEF Asked!Parsed
    <3>2. lack[q] \subseteq Symbols /\ Asked!ToSet(todo[q]) \subseteq Symbols
      BY DEF QuestionsTyped, Asked!ToSet
    <3> QED
      BY <3>1, <3>2
  <2>3. CASE \/ Asked!Insert(q) \/ Asked!Inserted(q) \/ Asked!Embed(q) \/ Asked!Mark(q)
             \/ Asked!Materialized(q) \/ Asked!MaterializeFails(q) \/ Asked!Deadlock(q)
    <3>1. \/ lack' = lack \/ lack' = [lack EXCEPT ![q] = {}]
          \/ lack' = [lack EXCEPT ![q] = lack[q] \cap Asked!Unready(q)]
          \/ \E s \in lack[q] : lack' = [lack EXCEPT ![q] = lack[q] \ {s}]
      BY <2>3 DEF Asked!Insert, Asked!Inserted, Asked!Embed, Asked!Mark, Asked!Materialized,
         Asked!MaterializeFails, Asked!Deadlock, Asked!Breaks
    <3>2. lack[q] \subseteq Symbols
      BY DEF QuestionsTyped
    <3> QED
      BY <3>1, <3>2
  <2> QED
    BY <2>1, <2>2, <2>3
<1>5. fault' \in [Questions -> BOOLEAN]
  <2>1. fault \in [Questions -> BOOLEAN]
    BY DEF QuestionsTyped
  <2>2. [fault EXCEPT ![q] = TRUE] \in [Questions -> BOOLEAN]
    BY <2>1
  <2> QED
    BY <1>1, <2>1, <2>2
<1>6. UNCHANGED <<pin, status>> /\ points' \subseteq Symbols
  BY <1>1, <1>2 DEF QuestionsTyped
<1>7. todo' \in [Questions -> Seq(Symbols)]
  <2>1. \A list \in Seq(Symbols) : [todo EXCEPT ![q] = list] \in [Questions -> Seq(Symbols)]
    BY DEF QuestionsTyped
  <2>2. CASE todo' = todo
    BY <2>2 DEF QuestionsTyped
  <2>3. CASE \E list \in Seq(Symbols) : todo' = [todo EXCEPT ![q] = list]
    <3>1. PICK list \in Seq(Symbols) : todo' = [todo EXCEPT ![q] = list]
      BY <2>3
    <3> QED
      BY <2>1, <3>1
  <2> QED
    BY <1>3, <2>2, <2>3
<1>8. lack' \in [Questions -> SUBSET Symbols]
  <2>1. \A some \in SUBSET Symbols : [lack EXCEPT ![q] = some] \in [Questions -> SUBSET Symbols]
    BY DEF QuestionsTyped
  <2>2. CASE lack' = lack
    BY <2>2 DEF QuestionsTyped
  <2>3. CASE \E some \in SUBSET Symbols : lack' = [lack EXCEPT ![q] = some]
    <3>1. PICK some \in SUBSET Symbols : lack' = [lack EXCEPT ![q] = some]
      BY <2>3
    <3> QED
      BY <2>1, <3>1
  <2> QED
    BY <1>4, <2>2, <2>3
<1> QED
  BY <1>5, <1>6, <1>7, <1>8 DEF QuestionsTyped

LEMMA TypedStep ==
  Asked!QuestionAssumption /\ BodiesInv /\ QuestionsTyped /\ [Asked!Next]_Asked!vars => QuestionsTyped'
<1> SUFFICES ASSUME Asked!QuestionAssumption, BodiesInv, QuestionsTyped, [Asked!Next]_Asked!vars
             PROVE  QuestionsTyped'
  OBVIOUS
<1>1. ASSUME NEW q \in Questions, Asked!Steps(q) \/ Asked!PinFallsDue(q) PROVE QuestionsTyped'
  BY <1>1, TypedStages, TypedJobs DEF Asked!Steps
<1>2. CASE UNCHANGED Asked!vars
  BY <1>2 DEF Asked!vars, QuestionsTyped
<1> QED
  BY <1>1, <1>2 DEF Asked!Next

\* lazy_vectors.py 290-377 and answer.py 337-378: whatever questions do at once, a body marked ready has
\* its vector, in the committed rows and in every open session, and a question's lanes read what it
\* hydrated.
THEOREM BodiesStay ==
  ASSUME Asked!QuestionAssumption
  PROVE  Asked!Spec => [](Asked!TypeOK /\ Asked!BodiesAreThere)
<1>1. Asked!Init => QuestionsTyped
  BY DEF Asked!Init, Asked!StartsAt, QuestionsTyped
<1>2. BodiesInv /\ QuestionsTyped => Asked!TypeOK /\ Asked!BodiesAreThere
  BY DEF BodiesInv, BodyRows, QuestionsTyped, Asked!TypeOK, Asked!BodiesAreThere
<1> QED
  BY <1>1, <1>2, BodiesInit, BodiesStep, TypedStep, PTL DEF Asked!Spec

-----------------------------------------------------------------------------
(* The ring of the log.                                                    *)

\* p goes up through D.
Ascends(p, D) ==
  /\ p \in Seq(Int)
  /\ \A a, b \in 1..Len(p) : a < b => p[a] < p[b]
  /\ D = {p[a] : a \in 1..Len(p)}

Between(p, a, b) == {p[c] : c \in a..b}

LEMMA CountedImage ==
  ASSUME NEW p, NEW a \in Int, NEW b \in Int, \A c \in a..b : p[c] \in Int,
         \A c, d \in a..b : c < d => p[c] < p[d], a <= b + 1
  PROVE  Cardinality(Between(p, a, b)) = b - a + 1
<1> DEFINE T == {p[c] : c \in a..b}
           f == [c \in a..b |-> p[c]]
<1>1. f \in Bijection(a..b, T)
  <2>1. f \in [a..b -> T]
    OBVIOUS
  <2>2. \A c, d \in a..b : f[c] = f[d] => c = d
    <3> SUFFICES ASSUME NEW c \in a..b, NEW d \in a..b, p[c] = p[d], c # d PROVE FALSE
      OBVIOUS
    <3>1. c < d \/ d < c
      OBVIOUS
    <3> QED BY <3>1
  <2>3. \A t \in T : \E c \in a..b : f[c] = t
    OBVIOUS
  <2> QED BY <2>1, <2>2, <2>3 DEF Bijection, Injection, Surjection, IsInjective
<1>2. ExistsBijection(a..b, T)
  BY <1>1 DEF ExistsBijection
<1>3. IsFiniteSet(a..b) /\ Cardinality(a..b) = b - a + 1
  <2>1. IsFiniteSet(a..b) /\ Cardinality(a..b) = IF a > b THEN 0 ELSE b - a + 1
    BY FS_Interval
  <2>2. CASE a > b
    <3>1. b - a + 1 = 0
      BY <2>2
    <3> QED BY <2>1, <2>2, <3>1
  <2>3. CASE ~(a > b)
    BY <2>1, <2>3
  <2> QED BY <2>2, <2>3
<1> QED
  BY <1>2, <1>3, FS_Bijection DEF Between

\* In a set that p goes up through, a - 1 elements are before p[a], and Len(p) - a after it.
LEMMA CountedAround ==
  ASSUME NEW p, NEW D, Ascends(p, D)
  PROVE  /\ Cardinality(D) = Len(p)
         /\ \A a \in 1..Len(p) : /\ Cardinality({j \in D : j < p[a]}) = a - 1
                                 /\ Cardinality({j \in D : j > p[a]}) = Len(p) - a
<1>1. /\ Len(p) \in Nat /\ D = {p[c] : c \in 1..Len(p)} /\ \A c \in 1..Len(p) : p[c] \in Int
      /\ \A c, d \in 1..Len(p) : c < d => p[c] < p[d]
  BY DEF Ascends
<1>2. Cardinality(D) = Len(p)
  <2>1. D = Between(p, 1, Len(p))
    BY <1>1 DEF Between
  <2>2. Cardinality(Between(p, 1, Len(p))) = Len(p) - 1 + 1
    BY <1>1, CountedImage
  <2>3. Len(p) - 1 + 1 = Len(p)
    BY <1>1
  <2> QED BY <2>1, <2>2, <2>3
<1>3. ASSUME NEW a \in 1..Len(p) PROVE Cardinality({j \in D : j < p[a]}) = a - 1
  <2>1. {j \in D : j < p[a]} = Between(p, 1, a - 1)
    <3>1. \A c \in 1..Len(p) : p[c] < p[a] <=> c < a
      BY <1>1
    <3>2. \A c : c \in 1..(a - 1) <=> c \in 1..Len(p) /\ c < a
      BY <1>1
    <3> QED BY <1>1, <3>1, <3>2 DEF Between
  <2>2. Cardinality(Between(p, 1, a - 1)) = (a - 1) - 1 + 1
    <3>1. 1 \in Int /\ a - 1 \in Int /\ 1 <= (a - 1) + 1 /\ \A c \in 1..(a - 1) : c \in 1..Len(p)
      BY <1>1
    <3>2. (\A c \in 1..(a - 1) : p[c] \in Int) /\ (\A c, d \in 1..(a - 1) : c < d => p[c] < p[d])
      BY <3>1, <1>1
    <3> QED BY <3>1, <3>2, CountedImage
  <2>3. (a - 1) - 1 + 1 = a - 1
    BY <1>1
  <2> QED BY <2>1, <2>2, <2>3
<1>4. ASSUME NEW a \in 1..Len(p) PROVE Cardinality({j \in D : j > p[a]}) = Len(p) - a
  <2>1. {j \in D : j > p[a]} = Between(p, a + 1, Len(p))
    <3>1. \A c \in 1..Len(p) : p[c] > p[a] <=> c > a
      BY <1>1
    <3>2. \A c : c \in (a + 1)..Len(p) <=> c \in 1..Len(p) /\ c > a
      BY <1>1
    <3> QED BY <1>1, <3>1, <3>2 DEF Between
  <2>2. Cardinality(Between(p, a + 1, Len(p))) = Len(p) - (a + 1) + 1
    <3>1. a + 1 \in Int /\ Len(p) \in Int /\ a + 1 <= Len(p) + 1 /\ \A c \in (a + 1)..Len(p) : c \in 1..Len(p)
      BY <1>1
    <3>2. (\A c \in (a + 1)..Len(p) : p[c] \in Int) /\ (\A c, d \in (a + 1)..Len(p) : c < d => p[c] < p[d])
      BY <3>1, <1>1
    <3> QED BY <3>1, <3>2, CountedImage
  <2>3. Len(p) - (a + 1) + 1 = Len(p) - a
    BY <1>1
  <2> QED BY <2>1, <2>2, <2>3
<1> QED
  BY <1>2, <1>3, <1>4

\* The newest n of a list, one by one.
Skipped(s, n) == IF Len(s) > n THEN Len(s) - n ELSE 0

LEMMA SameLists ==
  ASSUME NEW S, NEW s \in Seq(S), NEW t \in Seq(S), Len(s) = Len(t), \A i \in 1..Len(s) : s[i] = t[i]
  PROVE  s = t
OBVIOUS

NewestOf(S, s, n, t) ==
  /\ Len(s) \in Nat /\ Skipped(s, n) \in 0..Len(s) /\ t \in Seq(S) /\ Len(t) = Len(s) - Skipped(s, n)
  /\ \A i \in 1..Len(s) - Skipped(s, n) : t[i] = s[Skipped(s, n) + i]

LEMMA NewestIs ==
  ASSUME NEW S, NEW s \in Seq(S), NEW n \in Nat
  PROVE  NewestOf(S, s, n, Logged!Newest(s, n))
<1> DEFINE d == Skipped(s, n)
<1>1. Len(s) \in Nat /\ d \in 0..Len(s)
  BY DEF Skipped
<1>2. Logged!Newest(s, n) = SubSeq(s, d + 1, Len(s))
  BY DEF Logged!Newest, Skipped
<1> HIDE DEF d
<1>3. /\ SubSeq(s, d + 1, Len(s)) \in Seq(S) /\ Len(SubSeq(s, d + 1, Len(s))) = Len(s) - d
      /\ \A i \in 1..Len(s) - d : SubSeq(s, d + 1, Len(s))[i] = s[d + i]
  BY <1>1
<1> QED
  BY <1>1, <1>2, <1>3 DEF d, NewestOf

LEMMA SkippedIs ==
  ASSUME NEW s, NEW n \in Nat, Len(s) \in Nat
  PROVE  /\ Len(s) > n => Skipped(s, n) = Len(s) - n
         /\ Len(s) <= n => Skipped(s, n) = 0
BY DEF Skipped

LEMMA TwoSkips ==
  ASSUME NEW n \in Nat, NEW c \in Nat \ {0}, NEW d \in Nat, NEW m \in Nat, NEW k \in Nat, NEW dt \in Nat, NEW ds \in Nat,
         n > c => d = n - c, n <= c => d = 0, m = n - d + 1, k = n + 1,
         m > c => dt = m - c, m <= c => dt = 0, k > c => ds = k - c, k <= c => ds = 0
  PROVE  ds = d + dt /\ dt <= 1 /\ ds \in 0..n
OBVIOUS

\* deque(maxlen): the newest of a list and of its newest are the same after an append.
LEMMA PushIs ==
  ASSUME NEW S, NEW s \in Seq(S), NEW e \in S, Capacity \in Nat \ {0}
  PROVE  Logged!Push(Logged!Newest(s, Capacity), e) = Logged!Newest(Append(s, e), Capacity)
<1> DEFINE t == Logged!Newest(s, Capacity)
           d == Skipped(s, Capacity)
<1>0. Capacity \in Nat /\ Capacity >= 1
  OBVIOUS
<1>1. /\ Len(s) \in Nat /\ d \in 0..Len(s) /\ t \in Seq(S) /\ Len(t) = Len(s) - d
      /\ \A i \in 1..Len(s) - d : t[i] = s[d + i]
  <2>1. NewestOf(S, s, Capacity, Logged!Newest(s, Capacity))
    BY <1>0, NewestIs
  <2> QED BY <2>1 DEF NewestOf
<1>2. (Len(s) > Capacity => d = Len(s) - Capacity) /\ (Len(s) <= Capacity => d = 0)
  BY <1>0, SkippedIs
<1>3. Logged!Push(t, e) = Logged!Newest(Append(t, e), Capacity)
  BY DEF Logged!Push
<1> HIDE DEF t, d
<1> DEFINE tt == Append(t, e)
           ss == Append(s, e)
<1>4. /\ tt \in Seq(S) /\ Len(tt) = Len(s) - d + 1 /\ tt[Len(s) - d + 1] = e
      /\ \A i \in 1..Len(s) - d : tt[i] = s[d + i]
  BY <1>1
<1>5. /\ ss \in Seq(S) /\ Len(ss) = Len(s) + 1 /\ ss[Len(s) + 1] = e
      /\ \A i \in 1..Len(s) : ss[i] = s[i]
  BY <1>1
<1> HIDE DEF tt, ss
<1> DEFINE dt == Skipped(tt, Capacity)
           ds == Skipped(ss, Capacity)
           nt == Logged!Newest(tt, Capacity)
           ns == Logged!Newest(ss, Capacity)
<1>6. /\ nt \in Seq(S) /\ Len(nt) = Len(tt) - dt /\ \A i \in 1..Len(tt) - dt : nt[i] = tt[dt + i]
      /\ ns \in Seq(S) /\ Len(ns) = Len(ss) - ds /\ \A i \in 1..Len(ss) - ds : ns[i] = ss[ds + i]
  <2>1. NewestOf(S, tt, Capacity, Logged!Newest(tt, Capacity)) /\ NewestOf(S, ss, Capacity, Logged!Newest(ss, Capacity))
    BY <1>0, <1>4, <1>5, NewestIs
  <2> QED BY <2>1 DEF NewestOf
<1>7. ds = d + dt /\ dt \in Nat /\ dt <= 1 /\ ds \in 0..Len(s)
  <2>1. /\ (Len(ss) > Capacity => ds = Len(ss) - Capacity) /\ (Len(ss) <= Capacity => ds = 0)
        /\ (Len(tt) > Capacity => dt = Len(tt) - Capacity) /\ (Len(tt) <= Capacity => dt = 0)
    BY <1>0, <1>4, <1>5, SkippedIs
  <2>2. dt \in Nat /\ ds \in Nat
    <3>1. NewestOf(S, tt, Capacity, Logged!Newest(tt, Capacity)) /\ NewestOf(S, ss, Capacity, Logged!Newest(ss, Capacity))
      BY <1>0, <1>4, <1>5, NewestIs
    <3>2. Len(tt) \in Nat /\ dt \in 0..Len(tt) /\ Len(ss) \in Nat /\ ds \in 0..Len(ss)
      BY <3>1 DEF NewestOf
    <3> HIDE DEF dt, ds
    <3> QED BY <3>2
  <2>3. Len(s) \in Nat /\ d \in Nat /\ Len(ss) \in Nat /\ Len(tt) \in Nat
    BY <1>1, <1>4, <1>5
  <2> HIDE DEF ds, dt
  <2>4. Len(ss) = Len(s) + 1 /\ Len(tt) = Len(s) - d + 1
    BY <1>4, <1>5
  <2> QED BY <2>1, <2>2, <2>3, <2>4, <1>2, TwoSkips
<1> HIDE DEF dt, ds, nt, ns
<1>8. Len(nt) = Len(ns) /\ Len(ns) = Len(s) + 1 - ds
  BY <1>1, <1>4, <1>5, <1>6, <1>7
<1>9. ASSUME NEW i \in 1..Len(nt) PROVE nt[i] = ns[i]
  <2>1. nt[i] = tt[dt + i] /\ ns[i] = ss[ds + i]
    BY <1>4, <1>5, <1>6, <1>8
  <2>2. /\ i \in Nat /\ dt + i \in 1..Len(s) - d + 1 /\ ds + i \in 1..Len(s) + 1
        /\ (dt + i = Len(s) - d + 1 <=> ds + i = Len(s) + 1) /\ d + (dt + i) = ds + i
    BY <1>1, <1>7, <1>8
  <2>3. CASE ds + i = Len(s) + 1
    BY <2>1, <2>2, <2>3, <1>4, <1>5
  <2>4. CASE ds + i # Len(s) + 1
    <3>1. dt + i \in 1..Len(s) - d /\ ds + i \in 1..Len(s)
      BY <2>2, <2>4, <1>1
    <3> QED BY <2>1, <2>2, <3>1, <1>4, <1>5
  <2> QED BY <2>3, <2>4
<1>10. nt = ns
  BY <1>6, <1>8, <1>9, SameLists
<1> QED
  BY <1>3, <1>10 DEF nt, ns, tt, ss, t

\* What a reader that copied when n entries had been logged should be given.
KeptIn(l, n, q) == {i \in 1..n : i + Capacity > n /\ l[i].level >= q.floor /\ l[i].logger \in q.loggers}
DueIn(l, n, q) == {i \in KeptIn(l, n, q) : Cardinality({j \in KeptIn(l, n, q) : j > i}) < q.limit}
Gives(p, l, list) == list = [k \in 1..Len(p) |-> l[p[k]]]

LEMMA DueIs == \A r : Logged!Due(r) = DueIn(logged, seen[r], asked[r])
BY DEF Logged!Due, DueIn, KeptIn, Logged!Cardinality, Cardinality

\* A list that goes up through what is due is the answer, as NewestMatching says it.
LEMMA AnswerIs ==
  ASSUME NEW p, NEW D, NEW l, NEW list, Ascends(p, D), Gives(p, l, list)
  PROVE  list = [n \in 1..Cardinality(D) |-> l[CHOOSE i \in D : Cardinality({j \in D : j < i}) = n - 1]]
<1>1. Cardinality(D) = Len(p) /\ \A a \in 1..Len(p) : Cardinality({j \in D : j < p[a]}) = a - 1
  BY CountedAround
<1>2. Len(p) \in Nat /\ D = {p[a] : a \in 1..Len(p)}
  BY DEF Ascends
<1>3. ASSUME NEW n \in 1..Len(p)
      PROVE  (CHOOSE i \in D : Cardinality({j \in D : j < i}) = n - 1) = p[n]
  <2>1. p[n] \in D /\ Cardinality({j \in D : j < p[n]}) = n - 1
    BY <1>1, <1>2
  <2>2. ASSUME NEW i \in D, Cardinality({j \in D : j < i}) = n - 1 PROVE i = p[n]
    <3>1. PICK a \in 1..Len(p) : i = p[a]
      BY <1>2
    <3>2. a - 1 = n - 1
      BY <2>2, <3>1, <1>1
    <3>3. a = n
      BY <3>2, <1>2
    <3> QED BY <3>1, <3>3
  <2> QED BY <2>1, <2>2
<1> QED
  BY <1>1, <1>3 DEF Gives

\* The copy of a reader, and what its query leaves of it.
LEMMA FetchIs ==
  ASSUME Logged!LogAssumption, NEW l \in Seq(Logged!Entry), NEW n \in 0..Len(l), NEW q \in Logged!Query
  PROVE  /\ Logged!Fetch(q, Logged!Newest(SubSeq(l, 1, n), Capacity)) \in Seq(Logged!Entry)
         /\ \E p : /\ Ascends(p, DueIn(l, n, q))
                   /\ Gives(p, l, Logged!Fetch(q, Logged!Newest(SubSeq(l, 1, n), Capacity)))
<1> DEFINE s == SubSeq(l, 1, n)
           c == Logged!Newest(s, Capacity)
           d == Skipped(s, Capacity)
           I == {i \in DOMAIN c : Logged!Wanted(q, c[i])}
           f == Those(c, I)
           e == Skipped(f, q.limit)
           g == Logged!Newest(f, q.limit)
           K == KeptIn(l, n, q)
<1>0. /\ Capacity \in Nat /\ Capacity >= 1 /\ n \in Nat /\ n <= Len(l) /\ Len(l) \in Nat
      /\ q.limit \in Nat /\ q.limit >= 1
  BY DEF Logged!LogAssumption, Logged!Query
<1>1. s \in Seq(Logged!Entry) /\ Len(s) = n /\ \A i \in 1..n : s[i] = l[i]
  BY <1>0
<1> HIDE DEF s
<1>2. NewestOf(Logged!Entry, s, Capacity, c)
  BY <1>0, <1>1, NewestIs
<1>3. /\ c \in Seq(Logged!Entry) /\ d \in 0..n /\ Len(c) = n - d /\ \A i \in 1..n - d : c[i] = l[d + i]
  <2>1. /\ c \in Seq(Logged!Entry) /\ d \in 0..n /\ Len(c) = n - d /\ \A i \in 1..n - d : c[i] = s[d + i]
    BY <1>1, <1>2 DEF NewestOf
  <2> HIDE DEF c, d
  <2>2. \A i \in 1..n - d : d + i \in 1..n
    BY <2>1, <1>0
  <2> QED BY <2>1, <2>2, <1>1
<1>4. (n > Capacity => d = n - Capacity) /\ (n <= Capacity => d = 0)
  BY <1>0, <1>1, SkippedIs
<1>5. Logged!Fetch(q, c) = g
  BY SameThose DEF Logged!Fetch, Logged!Filter
<1> HIDE DEF c, d
<1>6. PICK p : Places(p, I, Len(c)) /\ f = At(c, p)
  <2> HIDE DEF I
  <2> QED BY <1>3, ThoseList
<1>7. f \in Seq(Logged!Entry)
  <2> HIDE DEF I
  <2> QED BY <1>3, ThoseKept
<1> DEFINE m == Len(p)
<1>8. m \in Nat /\ Len(f) = m /\ \A a \in 1..m : p[a] \in I /\ p[a] \in 1..n - d /\ f[a] = c[p[a]]
  <2>1. m \in Nat /\ (\A a \in 1..m : p[a] \in I /\ p[a] \in 1..Len(c))
    BY <1>6 DEF Places
  <2>2. f = [a \in 1..m |-> c[p[a]]]
    BY <1>6 DEF At
  <2> HIDE DEF I, f
  <2> QED BY <2>1, <2>2, <1>3
<1> HIDE DEF f
<1>9. NewestOf(Logged!Entry, f, q.limit, g)
  BY <1>0, <1>7, NewestIs
<1>10. /\ e \in 0..m /\ g \in Seq(Logged!Entry) /\ Len(g) = m - e /\ \A k \in 1..m - e : g[k] = f[e + k]
       /\ (m > q.limit => e = m - q.limit) /\ (m <= q.limit => e = 0)
  <2>1. /\ e \in 0..m /\ g \in Seq(Logged!Entry) /\ Len(g) = m - e /\ \A k \in 1..m - e : g[k] = f[e + k]
    BY <1>8, <1>9 DEF NewestOf
  <2>2. (m > q.limit => e = m - q.limit) /\ (m <= q.limit => e = 0)
    BY <1>0, <1>8, SkippedIs
  <2> QED BY <2>1, <2>2
<1> HIDE DEF e, g
<1> DEFINE wanted == [a \in 1..m |-> d + p[a]]
<1>11. Ascends(wanted, K)
  <2>1. wanted \in Seq(Int) /\ Len(wanted) = m
    <3>1. wanted \in [1..m -> Int]
      BY <1>3, <1>8
    <3> QED BY <3>1, <1>8
  <2>2. \A a, b \in 1..m : a < b => wanted[a] < wanted[b]
    <3>1. \A a, b \in 1..m : a < b => p[a] < p[b]
      BY <1>6 DEF Places
    <3> QED BY <3>1, <1>3, <1>8
  <2>3. \A a \in 1..m : wanted[a] \in K
    <3> TAKE a \in 1..m
    <3>1. p[a] \in I /\ p[a] \in 1..n - d /\ c[p[a]] = l[d + p[a]]
      BY <1>3, <1>8
    <3>2. l[d + p[a]].level >= q.floor /\ l[d + p[a]].logger \in q.loggers
      BY <3>1 DEF Logged!Wanted
    <3>3. d + p[a] \in 1..n /\ d + p[a] + Capacity > n
      <4>1. \A x \in 1..n - d : d + x \in 1..n /\ d + x + Capacity > n
        BY <1>0, <1>3, <1>4
      <4> QED BY <3>1, <4>1
    <3> QED BY <3>2, <3>3 DEF KeptIn
  <2>4. ASSUME NEW i \in K PROVE \E a \in 1..m : wanted[a] = i
    <3>1. i \in 1..n /\ i + Capacity > n /\ l[i].level >= q.floor /\ l[i].logger \in q.loggers
      BY DEF KeptIn
    <3>2. i - d \in 1..n - d /\ d + (i - d) = i
      BY <3>1, <1>0, <1>3, <1>4
    <3>3. c[i - d] = l[i]
      BY <3>2, <1>3
    <3>4. i - d \in I
      BY <3>1, <3>2, <3>3, <1>3 DEF Logged!Wanted
    <3>5. PICK a \in 1..m : p[a] = i - d
      BY <3>2, <3>4, <1>3, <1>6 DEF Places
    <3>6. wanted[a] = i
      BY <3>2, <3>5
    <3> QED BY <3>6
  <2> HIDE DEF wanted, K
  <2>5. K = {wanted[a] : a \in 1..m}
    BY <2>3, <2>4
  <2> QED BY <2>1, <2>2, <2>5 DEF Ascends
<1>12. Len(wanted) = m /\ \A a \in 1..m : wanted[a] = d + p[a] /\ wanted[a] \in Int
  BY <1>3, <1>8
<1>13. \A a \in 1..m : wanted[a] \in DueIn(l, n, q) <=> a > e
  <2> TAKE a \in 1..m
  <2>1. Cardinality({j \in K : j > wanted[a]}) = m - a
    <3> HIDE DEF wanted, K
    <3>1. \A b \in 1..Len(wanted) : Cardinality({j \in K : j > wanted[b]}) = Len(wanted) - b
      BY <1>11, CountedAround
    <3> QED BY <3>1, <1>12
  <2>2. wanted[a] \in K
    <3> HIDE DEF wanted, K
    <3> QED BY <1>11, <1>12 DEF Ascends
  <2>3. wanted[a] \in DueIn(l, n, q) <=> m - a < q.limit
    <3> HIDE DEF wanted
    <3> QED BY <2>1, <2>2 DEF DueIn
  <2>4. m - a < q.limit <=> a > e
    BY <1>0, <1>8, <1>10
  <2> QED BY <2>3, <2>4
<1> DEFINE due == [k \in 1..m - e |-> wanted[e + k]]
<1>14. /\ m - e \in Nat /\ \A k \in 1..m - e : e + k \in 1..m /\ due[k] = wanted[e + k]
  BY <1>8, <1>10
<1> HIDE DEF wanted
<1>15. due \in Seq(Int) /\ Len(due) = m - e
  <2>1. due \in [1..m - e -> Int]
    BY <1>12, <1>14
  <2>2. DOMAIN due = 1..m - e
    OBVIOUS
  <2> DEFINE width == m - e
  <2>3. width \in Nat /\ due \in [1..width -> Int]
    BY <2>1, <1>14
  <2> HIDE DEF due, width
  <2>4. due \in Seq(Int) /\ Len(due) = width
    BY <2>3
  <2> QED BY <2>4 DEF width
<1>16. \A a, b \in 1..m - e : a < b => due[a] < due[b]
  <2>1. \A a, b \in 1..m : a < b => wanted[a] < wanted[b]
    BY <1>11, <1>12 DEF Ascends
  <2>2. \A a, b \in 1..m - e : a < b => e + a < e + b
    BY <1>10
  <2> HIDE DEF due
  <2> QED BY <2>1, <2>2, <1>14
<1>17. DueIn(l, n, q) = {due[k] : k \in 1..m - e}
  <2> HIDE DEF due
  <2>1. ASSUME NEW k \in 1..m - e PROVE due[k] \in DueIn(l, n, q)
    <3>1. e + k \in 1..m /\ e + k > e
      BY <1>10, <1>14
    <3> QED BY <3>1, <1>13, <1>14
  <2>2. ASSUME NEW i \in DueIn(l, n, q) PROVE \E k \in 1..m - e : due[k] = i
    <3>1. PICK a \in 1..m : wanted[a] = i
      BY <1>11, <1>12 DEF DueIn, Ascends
    <3>2. a > e
      BY <3>1, <1>13
    <3>3. a - e \in 1..m - e /\ e + (a - e) = a
      BY <3>2, <1>8, <1>10
    <3> QED BY <3>1, <3>3, <1>14
  <2> QED BY <2>1, <2>2
<1>18. Ascends(due, DueIn(l, n, q))
  <2> HIDE DEF due
  <2> QED BY <1>15, <1>16, <1>17 DEF Ascends
<1>19. Gives(due, l, g)
  <2>1. ASSUME NEW k \in 1..m - e PROVE g[k] = l[due[k]]
    <3>1. e + k \in 1..m /\ g[k] = f[e + k] /\ due[k] = d + p[e + k]
      BY <1>10, <1>12, <1>14
    <3>2. f[e + k] = c[p[e + k]] /\ c[p[e + k]] = l[d + p[e + k]]
      BY <3>1, <1>3, <1>8
    <3> QED BY <3>1, <3>2
  <2>2. g = [k \in 1..m - e |-> g[k]]
    BY <1>10, <1>14
  <2> HIDE DEF due
  <2> QED BY <2>1, <2>2, <1>15 DEF Gives
<1> QED
  BY <1>5, <1>10, <1>18, <1>19 DEF c, s

LogReader(r) ==
  /\ seen[r] <= Len(logged)
  /\ pc[r] = "copied" => rows[r] = Logged!Newest(SubSeq(logged, 1, seen[r]), Capacity)
  /\ pc[r] = "answered" => \E p : Ascends(p, DueIn(logged, seen[r], asked[r])) /\ Gives(p, logged, rows[r])

LogInv ==
  /\ Logged!TypeOK
  /\ entries = Logged!Newest(logged, Capacity)
  /\ \A r \in Readers : LogReader(r)

LEMMA LogInit == Logged!LogAssumption /\ Logged!Init => LogInv
<1> SUFFICES ASSUME Logged!LogAssumption, Logged!Init PROVE LogInv
  OBVIOUS
<1>1. /\ Capacity \in Nat /\ MaxLogged \in Nat /\ <<>> \in Seq(Logged!Entry) /\ Len(<<>>) = 0
  BY DEF Logged!LogAssumption
<1>2. Logged!TypeOK
  BY <1>1 DEF Logged!Init, Logged!TypeOK
<1>3. NewestOf(Logged!Entry, <<>>, Capacity, Logged!Newest(<<>>, Capacity))
  BY <1>1, NewestIs
<1>4. Logged!Newest(<<>>, Capacity) = <<>>
  BY <1>1, <1>3 DEF NewestOf
<1>5. ASSUME NEW r \in Readers PROVE LogReader(r)
  BY <1>1 DEF Logged!Init, LogReader
<1> QED
  BY <1>2, <1>4, <1>5 DEF Logged!Init, LogInv

\* An append changes nothing of what a reader copied or was given.
LEMMA LoggedStep == ASSUME Logged!LogAssumption, LogInv, NEW e \in Logged!Entry, Logged!Log(e) PROVE LogInv'
<1>1. /\ Len(logged) < MaxLogged /\ entries' = Logged!Push(entries, e) /\ logged' = Append(logged, e)
      /\ UNCHANGED <<pc, asked, rows, seen>>
  BY DEF Logged!Log
<1>2. /\ logged \in Seq(Logged!Entry) /\ Len(logged) \in Nat /\ MaxLogged \in Nat /\ Capacity \in Nat \ {0}
  BY DEF LogInv, Logged!TypeOK, Logged!LogAssumption
<1>3. /\ logged' \in Seq(Logged!Entry) /\ Len(logged') = Len(logged) + 1
      /\ \A i \in 1..Len(logged) : logged'[i] = logged[i]
  BY <1>1, <1>2
<1>4. entries' = Logged!Newest(logged', Capacity)
  <2>1. entries = Logged!Newest(logged, Capacity)
    BY DEF LogInv
  <2> QED BY <2>1, <1>1, <1>2, PushIs
<1>5. entries' \in Seq(Logged!Entry) /\ Len(entries') <= Capacity
  <2>1. NewestOf(Logged!Entry, logged', Capacity, entries')
    BY <1>2, <1>3, <1>4, NewestIs
  <2>2. /\ Len(logged') > Capacity => Skipped(logged', Capacity) = Len(logged') - Capacity
        /\ Len(logged') <= Capacity => Skipped(logged', Capacity) = 0
    BY <1>2, <1>3, SkippedIs
  <2> QED BY <2>1, <2>2, <1>2, <1>3 DEF NewestOf
<1>6. Logged!TypeOK'
  <2>1. Len(logged') <= MaxLogged
    BY <1>1, <1>2, <1>3
  <2> QED BY <2>1, <1>1, <1>3, <1>5 DEF LogInv, Logged!TypeOK
<1>7. ASSUME NEW r \in Readers PROVE LogReader(r)'
  <2>1. seen[r] \in Nat /\ seen[r] <= Len(logged) /\ seen'[r] = seen[r] /\ pc'[r] = pc[r] /\ rows'[r] = rows[r] /\ asked'[r] = asked[r]
    BY <1>1, <1>2 DEF LogInv, LogReader, Logged!TypeOK
  <2>2. SubSeq(logged', 1, seen[r]) = SubSeq(logged, 1, seen[r])
    <3>1. /\ SubSeq(logged', 1, seen[r]) \in Seq(Logged!Entry) /\ Len(SubSeq(logged', 1, seen[r])) = seen[r]
          /\ \A i \in 1..seen[r] : SubSeq(logged', 1, seen[r])[i] = logged'[i]
      BY <2>1, <1>2, <1>3
    <3>2. /\ SubSeq(logged, 1, seen[r]) \in Seq(Logged!Entry) /\ Len(SubSeq(logged, 1, seen[r])) = seen[r]
          /\ \A i \in 1..seen[r] : SubSeq(logged, 1, seen[r])[i] = logged[i]
      BY <2>1, <1>2
    <3>3. \A i \in 1..seen[r] : logged'[i] = logged[i]
      BY <2>1, <1>2, <1>3
    <3> QED BY <3>1, <3>2, <3>3, SameLists
  <2>3. CASE pc[r] = "copied"
    <3>1. rows[r] = Logged!Newest(SubSeq(logged, 1, seen[r]), Capacity)
      BY <2>3 DEF LogInv, LogReader
    <3>2. rows'[r] = Logged!Newest(SubSeq(logged', 1, seen'[r]), Capacity)
      BY <3>1, <2>1, <2>2
    <3>3. seen'[r] <= Len(logged') /\ pc'[r] # "answered"
      BY <2>1, <2>3, <1>2, <1>3
    <3> QED BY <3>2, <3>3 DEF LogReader
  <2>4. CASE pc[r] = "answered"
    <3>1. PICK p : Ascends(p, DueIn(logged, seen[r], asked[r])) /\ Gives(p, logged, rows[r])
      BY <2>4 DEF LogInv, LogReader
    <3>2. \A i \in 1..seen[r] : logged'[i] = logged[i]
      BY <2>1, <1>2, <1>3
    <3>3. KeptIn(logged', seen[r], asked[r]) = KeptIn(logged, seen[r], asked[r])
      BY <3>2 DEF KeptIn
    <3>4. DueIn(logged', seen[r], asked[r]) = DueIn(logged, seen[r], asked[r])
      BY <3>3 DEF DueIn
    <3>5. \A k \in 1..Len(p) : p[k] \in 1..seen[r]
      BY <3>1 DEF Ascends, DueIn, KeptIn
    <3>6. Gives(p, logged', rows[r])
      BY <3>1, <3>2, <3>5 DEF Gives
    <3>7. Ascends(p, DueIn(logged', seen'[r], asked'[r])) /\ Gives(p, logged', rows'[r])
      BY <3>1, <3>4, <3>6, <2>1
    <3> QED BY <3>7, <2>1, <2>4, <1>2, <1>3 DEF LogReader
  <2>5. CASE pc[r] \notin {"copied", "answered"}
    BY <2>1, <2>5, <1>2, <1>3 DEF LogReader
  <2> QED BY <2>3, <2>4, <2>5
<1> QED
  BY <1>4, <1>6, <1>7 DEF LogInv

LEMMA CopyStep == ASSUME Logged!LogAssumption, LogInv, NEW r \in Readers, Logged!Copy(r) PROVE LogInv'
<1>1. /\ rows' = [rows EXCEPT ![r] = entries] /\ seen' = [seen EXCEPT ![r] = Len(logged)]
      /\ pc' = [pc EXCEPT ![r] = "copied"] /\ UNCHANGED <<entries, logged, asked>>
  BY DEF Logged!Copy
<1>2. Logged!TypeOK /\ entries = Logged!Newest(logged, Capacity)
  BY DEF LogInv
<1>3. Len(logged) \in 0..MaxLogged /\ entries \in Seq(Logged!Entry)
  BY <1>2 DEF Logged!TypeOK, Logged!LogAssumption
<1>4. Logged!TypeOK'
  BY <1>1, <1>2, <1>3 DEF Logged!TypeOK
<1>5. ASSUME NEW o \in Readers PROVE LogReader(o)'
  <2>1. CASE o = r
    <3>1. rows'[r] = entries /\ seen'[r] = Len(logged) /\ pc'[r] = "copied" /\ logged' = logged
      BY <1>1, <1>2 DEF Logged!TypeOK
    <3>2. SubSeq(logged, 1, Len(logged)) = logged
      <4>1. logged \in Seq(Logged!Entry)
        BY <1>2 DEF Logged!TypeOK
      <4> QED BY <4>1
    <3>3. rows'[r] = Logged!Newest(SubSeq(logged', 1, seen'[r]), Capacity)
      BY <3>1, <3>2, <1>2
    <3>4. seen'[r] <= Len(logged') /\ pc'[r] # "answered"
      BY <3>1, <1>3
    <3> QED BY <2>1, <3>3, <3>4 DEF LogReader
  <2>2. CASE o # r
    <3>1. rows'[o] = rows[o] /\ seen'[o] = seen[o] /\ pc'[o] = pc[o] /\ logged' = logged /\ asked' = asked
      BY <1>1, <1>2, <2>2 DEF Logged!TypeOK
    <3> QED BY <3>1 DEF LogInv, LogReader
  <2> QED BY <2>1, <2>2
<1> QED
  BY <1>1, <1>2, <1>4, <1>5 DEF LogInv

LEMMA AnswerStep == ASSUME Logged!LogAssumption, LogInv, NEW r \in Readers, Logged!Answer(r) PROVE LogInv'
<1> DEFINE list == Logged!Fetch(asked[r], rows[r])
<1>1. /\ pc[r] = "copied" /\ rows' = [rows EXCEPT ![r] = list]
      /\ pc' = [pc EXCEPT ![r] = "answered"] /\ UNCHANGED <<entries, logged, asked, seen>>
  BY DEF Logged!Answer
<1>2. Logged!TypeOK /\ entries = Logged!Newest(logged, Capacity)
  BY DEF LogInv
<1>3. /\ rows[r] = Logged!Newest(SubSeq(logged, 1, seen[r]), Capacity) /\ seen[r] <= Len(logged)
      /\ seen[r] \in Nat /\ logged \in Seq(Logged!Entry) /\ asked[r] \in Logged!Query
  BY <1>1, <1>2 DEF LogInv, LogReader, Logged!TypeOK, Logged!LogAssumption
<1>4. seen[r] \in 0..Len(logged)
  BY <1>3
<1>5. list \in Seq(Logged!Entry) /\ \E p : Ascends(p, DueIn(logged, seen[r], asked[r])) /\ Gives(p, logged, list)
  BY <1>3, <1>4, FetchIs
<1> HIDE DEF list
<1>6. Logged!TypeOK'
  BY <1>1, <1>2, <1>5 DEF Logged!TypeOK
<1>7. ASSUME NEW o \in Readers PROVE LogReader(o)'
  <2>1. CASE o = r
    <3>1. rows'[r] = list /\ pc'[r] = "answered" /\ logged' = logged /\ seen' = seen /\ asked' = asked
      BY <1>1, <1>2 DEF Logged!TypeOK
    <3> QED BY <2>1, <3>1, <1>3, <1>5 DEF LogReader
  <2>2. CASE o # r
    <3>1. rows'[o] = rows[o] /\ seen'[o] = seen[o] /\ pc'[o] = pc[o] /\ logged' = logged /\ asked' = asked
      BY <1>1, <1>2, <2>2 DEF Logged!TypeOK
    <3> QED BY <3>1 DEF LogInv, LogReader
  <2> QED BY <2>1, <2>2
<1> QED
  BY <1>1, <1>2, <1>6, <1>7 DEF LogInv

LEMMA RingStep == Logged!LogAssumption /\ LogInv /\ [Logged!Next]_Logged!vars => LogInv'
<1> SUFFICES ASSUME Logged!LogAssumption, LogInv, [Logged!Next]_Logged!vars PROVE LogInv'
  OBVIOUS
<1>1. CASE Logged!Next
  BY <1>1, LoggedStep, CopyStep, AnswerStep DEF Logged!Next
<1>2. CASE UNCHANGED Logged!vars
  BY <1>2 DEF Logged!vars, LogInv, LogReader, Logged!TypeOK
<1> QED
  BY <1>1, <1>2

LEMMA AnswersAreDue == LogInv => Logged!NewestMatching
<1> SUFFICES ASSUME LogInv, NEW r \in Readers, pc[r] = "answered"
             PROVE  rows[r] = [n \in 1..Logged!Cardinality(Logged!Due(r)) |->
                                 logged[CHOOSE i \in Logged!Due(r) : Logged!Cardinality({j \in Logged!Due(r) : j < i}) = n - 1]]
  BY DEF Logged!NewestMatching
<1> DEFINE D == Logged!Due(r)
<1>1. PICK p : Ascends(p, DueIn(logged, seen[r], asked[r])) /\ Gives(p, logged, rows[r])
  BY DEF LogInv, LogReader
<1>2. D = DueIn(logged, seen[r], asked[r])
  BY DueIs
<1> HIDE DEF D
<1> DEFINE list == rows[r]
<1>3. Ascends(p, D) /\ Gives(p, logged, list)
  BY <1>1, <1>2
<1> HIDE DEF list
<1>4. list = [n \in 1..Cardinality(D) |-> logged[CHOOSE i \in D : Cardinality({j \in D : j < i}) = n - 1]]
  BY <1>3, AnswerIs
<1>5. rows[r] = [n \in 1..Cardinality(D) |-> logged[CHOOSE i \in D : Cardinality({j \in D : j < i}) = n - 1]]
  BY <1>4 DEF list
<1>6. \A S : Logged!Cardinality(S) = Cardinality(S)
  BY DEF Logged!Cardinality, Cardinality
<1> QED
  BY <1>5, <1>6 DEF D

\* core/log_buffer.py: a reader of the ring is given the newest entries that match its query, in order,
\* whatever is appended while it filters its copy.
THEOREM NewestStay ==
  ASSUME Logged!LogAssumption
  PROVE  Logged!Spec => [](Logged!TypeOK /\ Logged!NewestMatching)
<1>1. LogInv => Logged!TypeOK /\ Logged!NewestMatching
  BY AnswersAreDue DEF LogInv
<1> QED
  BY <1>1, LogInit, RingStep, PTL DEF Logged!Spec

-----------------------------------------------------------------------------
(* The turns of the model.                                                 *)

LEMMA CutIs ==
  ASSUME Turned!TurnsAssumption, NEW r \in Replies, Turned!HasList(r)
  PROVE  Turned!Cut(r) \in Seq(Kinds) /\ Len(Turned!Cut(r)) <= MaxClaims
<1>1. r.claims \in Seq(Kinds) /\ Len(r.claims) \in Nat /\ MaxClaims \in Nat
  BY DEF Turned!TurnsAssumption, Turned!HasList, Turned!IsObject
<1> DEFINE m == IF Len(r.claims) < MaxClaims THEN Len(r.claims) ELSE MaxClaims
<1>2. m \in 0..Len(r.claims) /\ m <= MaxClaims
  BY <1>1
<1>3. Turned!Cut(r) = SubSeq(r.claims, 1, m)
  BY DEF Turned!Cut
<1> HIDE DEF m
<1> QED
  BY <1>1, <1>2, <1>3

\* The claims kept of a reply: well formed, not more than the limit, and none of the good ones is missing.
LEMMA GoodIs ==
  ASSUME Turned!TurnsAssumption, NEW r \in Replies, Turned!HasList(r)
  PROVE  /\ Turned!Good(r) \in Seq(Kinds) /\ Len(Turned!Good(r)) <= MaxClaims
         /\ \A k \in DOMAIN Turned!Good(r) : Turned!WellFormed(Turned!Good(r)[k])
         /\ \A i \in DOMAIN Turned!Cut(r) :
              Turned!WellFormed(Turned!Cut(r)[i]) =>
                \E k \in DOMAIN Turned!Good(r) : Turned!Good(r)[k] = Turned!Cut(r)[i]
<1> DEFINE s == Turned!Cut(r)
           I == {i \in DOMAIN s : Turned!WellFormed(s[i])}
<1>1. s \in Seq(Kinds) /\ Len(s) <= MaxClaims /\ MaxClaims \in Nat
  BY CutIs DEF Turned!TurnsAssumption
<1>2. Turned!Good(r) = Those(s, I)
  BY SameThose DEF Turned!Good, Turned!Filter
<1>3. /\ Those(s, I) \in Seq(Kinds) /\ Len(Those(s, I)) <= Len(s)
      /\ \A k \in DOMAIN Those(s, I) : \E i \in I \cap DOMAIN s : Those(s, I)[k] = s[i]
  <2> HIDE DEF I
  <2> QED BY <1>1, ThoseKept
<1> DEFINE t == Those(s, I)
<1>4. t \in Seq(Kinds) /\ Len(t) <= MaxClaims
  BY <1>1, <1>3
<1>5. \A k \in DOMAIN t : Turned!WellFormed(t[k])
  BY <1>3
<1>6. ASSUME NEW i \in DOMAIN s, Turned!WellFormed(s[i]) PROVE \E k \in DOMAIN t : t[k] = s[i]
  <2>1. i \in I
    BY <1>6
  <2> HIDE DEF I
  <2> QED BY <2>1, <1>1, NoneLost
<1> HIDE DEF t
<1> QED
  BY <1>2, <1>4, <1>5, <1>6 DEF t, s

\* What a turn can be.
LEMMA TurnIs ==
  ASSUME Turned!TurnsAssumption, NEW r \in Replies
  PROVE  /\ \/ Turned!Legacy(r) = Turned!None
            \/ Turned!HasList(r) /\ Turned!Legacy(r) = Turned!Final(Turned!Good(r))
         /\ \/ Turned!Turn(r) = Turned!None \/ Turned!Turn(r) = Turned!Need
            \/ Turned!HasList(r) /\ Turned!Turn(r) = Turned!Final(Turned!Good(r))
         /\ Turned!Accepted(r) => Turned!HasList(r)
<1>1. Turned!Accepted(r) => Turned!HasList(r)
  BY DEF Turned!Accepted
<1>2. \/ Turned!Legacy(r) = Turned!None
      \/ Turned!HasList(r) /\ Turned!Legacy(r) = Turned!Final(Turned!Good(r))
  BY <1>1 DEF Turned!Legacy
<1>3. \/ Turned!Stated(r) = Turned!None \/ Turned!Stated(r) = Turned!Need
      \/ Turned!HasList(r) /\ Turned!Stated(r) = Turned!Final(Turned!Good(r))
  <2>1. CASE ~Turned!IsObject(r)
    BY <2>1 DEF Turned!Stated
  <2>2. CASE Turned!IsObject(r) /\ r.status = "need"
    BY <2>2 DEF Turned!Stated
  <2>3. CASE Turned!IsObject(r) /\ r.status # "need"
    BY <2>3 DEF Turned!Stated
  <2> QED BY <2>1, <2>2, <2>3
<1> QED BY <1>1, <1>2, <1>3 DEF Turned!Turn

\* A reply that cites the packet is a turn, with all of its good claims, unless it is a request for more
\* that is granted.
LEMMA BringsClaims ==
  ASSUME Turned!TurnsAssumption, NEW r \in Replies, Turned!Brings(r)
  PROVE  /\ Turned!HasList(r) /\ Turned!Good(r) # <<>>
         /\ \E k \in DOMAIN Turned!Good(r) : Turned!CitesPacket(Turned!Good(r)[k])
         /\ Turned!Turn(r) # Turned!None
         /\ \/ Turned!Answered(r) = Turned!Final(Turned!Good(r))
            \/ Turned!Answered(r) = Turned!Need /\ Turned!Allowed
<1>1. PICK i \in DOMAIN Turned!Cut(r) : Turned!CitesPacket(Turned!Cut(r)[i])
  BY DEF Turned!Brings
<1>2. Turned!HasList(r) /\ Turned!WellFormed(Turned!Cut(r)[i])
  BY <1>1 DEF Turned!Brings, Turned!CitesPacket, Turned!WellFormed
<1>3. PICK k \in DOMAIN Turned!Good(r) : Turned!Good(r)[k] = Turned!Cut(r)[i]
  BY <1>2, GoodIs
<1>4. Turned!Good(r) # <<>>
  BY <1>3
<1>5. Turned!Legacy(r) = Turned!Final(Turned!Good(r))
  BY <1>2, <1>4 DEF Turned!Legacy, Turned!Accepted
<1>6. Turned!None # Turned!Need /\ \A c : Turned!Final(c) # Turned!None /\ Turned!Final(c) # Turned!Need
  BY DEF Turned!None, Turned!Need, Turned!Final
<1>7. Turned!Turn(r) = Turned!Need \/ Turned!Turn(r) = Turned!Final(Turned!Good(r))
  BY <1>5, <1>6, TurnIs DEF Turned!Turn
<1> QED
  BY <1>1, <1>2, <1>3, <1>4, <1>5, <1>6, <1>7 DEF Turned!Answered

Spent == CASE turn = "turn" -> 0 [] turn = "repair_turn" -> 1 [] turn \in {"fetch", "claims"} -> 2
           [] turn = "repair_claims" -> 3 [] OTHER -> 4

TurnsTyped ==
  /\ caller \in {"loop", "compose"} /\ valid \in BOOLEAN
  /\ turn \in {"turn", "repair_turn", "fetch", "claims", "repair_claims", "review", "answered", "raised"}
TurnsBudget ==
  /\ round \in Nat /\ round <= MaxRounds /\ fetched = round /\ (turn = "fetch" => round < MaxRounds)
  /\ told \in Nat /\ told <= 2 * round + Spent
  /\ Turned!Composes => /\ turn \notin {"fetch", "claims", "repair_claims"}
                 /\ told <= 2 /\ (turn = "turn" => told = 0) /\ (turn = "repair_turn" => told <= 1)
TurnsCalls ==
  /\ calls \in Nat /\ (turn = "turn" => calls = 0) /\ (turn \in {"claims", "repair_claims"} => calls >= 1)
  /\ turn = "repair_turn" => calls = 1
TurnsPayload ==
  /\ turn \notin {"review", "answered"} => payload = <<>>
  /\ payload # <<>> => reply \in Replies /\ Turned!HasList(reply) /\ payload = Turned!Good(reply)
  /\ turn = "review" /\ calls = 1 /\ Turned!Brings(reply) => payload # <<>>
TurnsReviewed ==
  /\ turn # "answered" => claims = <<>> /\ ~valid
  /\ Len(claims) <= Len(payload)
  /\ Turned!HonestCitations /\ Turned!FirstKept
TurnsInv == TurnsTyped /\ TurnsBudget /\ TurnsCalls /\ TurnsPayload /\ TurnsReviewed

LEMMA TurnsInit == Turned!TurnsAssumption /\ Turned!Init => TurnsInv
<1> SUFFICES ASSUME Turned!TurnsAssumption, Turned!Init PROVE TurnsInv
  OBVIOUS
<1>1. Turned!HonestCitations /\ Turned!FirstKept
  BY DEF Turned!Init, Turned!HonestCitations, Turned!FirstKept
<1>2. MaxRounds \in Nat
  BY DEF Turned!TurnsAssumption
<1>3. turn = "turn" /\ Spent = 0
  BY DEF Turned!Init, Spent
<1>4. caller \in {"loop", "compose"} /\ valid \in BOOLEAN /\ ~valid
  BY DEF Turned!Init
<1>5. Len(claims) <= Len(payload)
  BY DEF Turned!Init
<1> QED
  BY <1>1, <1>2, <1>3, <1>4, <1>5 DEF Turned!Init, TurnsInv, TurnsTyped, TurnsBudget, TurnsCalls, TurnsPayload, TurnsReviewed

LEMMA TurnsTypes ==
  Turned!TurnsAssumption /\ TurnsInv =>
    Turned!TypeOK /\ Turned!CallsBounded /\ Turned!HonestCitations /\ Turned!FirstKept
<1> SUFFICES ASSUME Turned!TurnsAssumption, TurnsInv
             PROVE  Turned!TypeOK /\ Turned!CallsBounded /\ Turned!HonestCitations /\ Turned!FirstKept
  OBVIOUS
<1>1. Len(payload) <= MaxClaims /\ \A i \in DOMAIN payload : Turned!WellFormed(payload[i])
  <2>1. CASE payload = <<>>
    <3>1. Len(payload) = 0 /\ DOMAIN payload = {} /\ MaxClaims \in Nat
      BY <2>1 DEF Turned!TurnsAssumption
    <3> QED BY <3>1
  <2>2. CASE payload # <<>>
    BY <2>2, GoodIs DEF TurnsInv, TurnsPayload
  <2> QED BY <2>1, <2>2
<1>2. MaxRounds \in Nat /\ round \in 0..MaxRounds
  <2>1. MaxRounds \in Nat
    BY DEF Turned!TurnsAssumption
  <2>2. round \in Nat /\ round <= MaxRounds
    BY DEF TurnsInv, TurnsBudget
  <2> QED BY <2>1, <2>2
<1>3. Turned!CallsBounded
  <2>1. /\ told \in Nat /\ told <= 2 * round + Spent /\ fetched = round /\ round <= MaxRounds
        /\ Turned!Composes => told <= 2
    BY DEF TurnsInv, TurnsBudget
  <2>2. Spent \in 0..4 /\ 2 * (MaxRounds + 2) = 2 * MaxRounds + 4
    BY <1>2 DEF Spent
  <2>3. CASE Turned!Composes
    <3>1. told <= 2
      BY <2>3, <2>1
    <3> QED BY <1>2, <2>1, <2>3, <3>1 DEF Turned!CallsBounded
  <2>4. CASE ~Turned!Composes
    <3>1. 2 * round <= 2 * MaxRounds /\ 2 * round \in Nat /\ 2 * MaxRounds \in Nat
      BY <1>2
    <3>3. told <= 2 * round + Spent
      BY <2>1
    <3>2. told <= 2 * (MaxRounds + 2)
      BY <2>1, <2>2, <3>1, <3>3
    <3> QED BY <1>2, <2>1, <2>4, <3>2 DEF Turned!CallsBounded
  <2> QED BY <2>3, <2>4
<1> QED
  BY <1>1, <1>2, <1>3 DEF TurnsInv, TurnsTyped, TurnsReviewed, Turned!TypeOK

\* What becomes of the claims before they are reviewed says nothing of the citations.
LEMMA NotYetReviewed ==
  ASSUME TurnsInv, turn' # "answered", claims' = claims, valid' = valid, turn # "answered"
  PROVE  TurnsReviewed' <=> Len(claims') <= Len(payload')
<1>1. claims' = <<>> /\ ~valid'
  BY DEF TurnsInv, TurnsReviewed
<1>2. Turned!HonestCitations' /\ Turned!FirstKept'
  BY <1>1 DEF Turned!HonestCitations, Turned!FirstKept
<1> QED
  BY <1>1, <1>2 DEF TurnsReviewed

LEMMA ContinueIs ==
  ASSUME Turned!TurnsAssumption, NEW r \in Replies, NEW t, payload = <<>>, caller \in {"loop", "compose"}, Turned!Continue(t),
         \/ t \in {Turned!None, Turned!Need, Turned!Final(<<>>)}
         \/ Turned!HasList(r) /\ t = Turned!Final(Turned!Good(r))
  PROVE  /\ payload' = <<>> \/ (Turned!HasList(r) /\ payload' = Turned!Good(r))
         /\ \/ turn' = "fetch" /\ ~Turned!Composes /\ round < MaxRounds /\ payload' = <<>> /\ t = Turned!Need /\ Turned!Allowed
            \/ turn' = "claims" /\ ~Turned!Composes /\ payload' = <<>> /\ payload' = t.claims
            \/ turn' = "answered" /\ Turned!Composes /\ payload' = <<>> /\ t.status # "final"
            \/ turn' = "review" /\ payload' = t.claims
<1>1. /\ Turned!None.claims = <<>> /\ Turned!Need.claims = <<>> /\ \A c : Turned!Final(c).claims = c
      /\ Turned!None.status # "final" /\ Turned!Need.status # "final" /\ \A c : Turned!Final(c).status = "final"
  BY DEF Turned!None, Turned!Need, Turned!Final
<1>2. t.claims = <<>> \/ (Turned!HasList(r) /\ t.claims = Turned!Good(r))
  BY <1>1
<1>3. t.status # "final" => t.claims = <<>>
  BY <1>1
<1>4. CASE t = Turned!Need /\ Turned!Allowed
  BY <1>4 DEF Turned!Continue, Turned!Allowed
<1>5. CASE ~(t = Turned!Need /\ Turned!Allowed)
  <2>1. payload' = t.claims
    BY <1>5 DEF Turned!Continue
  <2>2. CASE Turned!Composes
    <3>1. turn' = IF t.status = "final" THEN "review" ELSE "answered"
      BY <1>5, <2>2 DEF Turned!Continue
    <3> QED BY <2>1, <2>2, <3>1, <1>2, <1>3
  <2>3. CASE ~Turned!Composes
    <3>1. turn' = IF t.claims = <<>> THEN "claims" ELSE "review"
      BY <1>5, <2>3 DEF Turned!Continue
    <3> QED BY <2>1, <2>3, <3>1, <1>2
  <2> QED BY <2>2, <2>3
<1> QED BY <1>4, <1>5

\* A turn of the model, understood as t.
LEMMA ContinueStep ==
  ASSUME Turned!TurnsAssumption, TurnsInv, NEW r \in Replies, NEW t, turn \in {"turn", "repair_turn"},
         Turned!Call(r), Turned!Continue(t), UNCHANGED <<caller, round, force, fetched, reader, claims, valid>>,
         \/ t \in {Turned!None, Turned!Need, Turned!Final(<<>>)}
         \/ Turned!HasList(r) /\ t = Turned!Final(Turned!Good(r)),
         turn = "turn" /\ Turned!Brings(r) => \/ t = Turned!Final(Turned!Good(r)) /\ Turned!Good(r) # <<>>
                                              \/ t = Turned!Need /\ Turned!Allowed
  PROVE  TurnsInv'
<1>1. reply' = r /\ calls' = calls + 1 /\ told' = told + 1
  BY DEF Turned!Call
<1>2. payload = <<>> /\ caller \in {"loop", "compose"} /\ claims = <<>>
  BY DEF TurnsInv, TurnsTyped, TurnsPayload, TurnsReviewed
<1>3. payload' = <<>> \/ (Turned!HasList(r) /\ payload' = Turned!Good(r))
  BY <1>2, ContinueIs
<1>4. \/ turn' = "fetch" /\ ~Turned!Composes /\ round < MaxRounds /\ payload' = <<>> /\ t = Turned!Need /\ Turned!Allowed
      \/ turn' = "claims" /\ ~Turned!Composes /\ payload' = <<>> /\ payload' = t.claims
      \/ turn' = "answered" /\ Turned!Composes /\ payload' = <<>> /\ t.status # "final"
      \/ turn' = "review" /\ payload' = t.claims
  BY <1>2, ContinueIs
<1>5. TurnsTyped'
  BY <1>4 DEF TurnsInv, TurnsTyped
<1>6. TurnsBudget'
  <2>1. told' \in Nat /\ told' <= 2 * round + 2
    BY <1>1 DEF TurnsInv, TurnsBudget, Spent
  <2>2. Spent' >= 2 /\ Spent' \in Nat
    BY <1>4 DEF Spent
  <2>5. /\ round' = round /\ fetched' = fetched /\ round \in Nat /\ round <= MaxRounds /\ fetched = round
        /\ (Turned!Composes' <=> Turned!Composes)
    BY DEF TurnsInv, TurnsBudget, Turned!Composes
  <2>3. told' <= 2 * round + Spent'
    <3>1. \A a, b, c \in Nat : a <= b + 2 /\ c >= 2 => a <= b + c
      OBVIOUS
    <3>2. 2 * round \in Nat
      BY <2>5
    <3> QED BY <3>1, <3>2, <2>1, <2>2
  <2>4. Turned!Composes => told' <= 2
    BY <1>1 DEF TurnsInv, TurnsBudget
  <2> QED BY <1>4, <2>1, <2>3, <2>4, <2>5 DEF TurnsBudget
<1>7. TurnsCalls'
  BY <1>1, <1>4 DEF TurnsInv, TurnsCalls
<1>8. turn' \in {"review", "answered"} /\ calls' = 1 /\ Turned!Brings(r) => turn' = "review" /\ payload' # <<>>
  <2> SUFFICES ASSUME turn' \in {"review", "answered"}, calls' = 1, Turned!Brings(r)
               PROVE  turn' = "review" /\ payload' # <<>>
    OBVIOUS
  <2>1. turn = "turn"
    BY <1>1 DEF TurnsInv, TurnsCalls
  <2>2. t = Turned!Final(Turned!Good(r)) /\ Turned!Good(r) # <<>>
    <3>1. CASE t = Turned!Need /\ Turned!Allowed
      <4>1. turn' = "fetch"
        BY <3>1 DEF Turned!Continue
      <4> QED BY <4>1
    <3> QED BY <2>1, <3>1
  <2>3. t.status = "final" /\ t.claims = Turned!Good(r)
    BY <2>2 DEF Turned!Final
  <2> QED BY <2>2, <2>3, <1>4
<1>9. TurnsPayload'
  BY <1>1, <1>3, <1>4, <1>8 DEF TurnsPayload
<1>10. TurnsReviewed'
  <2>1. Len(claims') <= Len(payload')
    <3>1. payload' = <<>> \/ payload' \in Seq(Kinds)
      BY <1>3, GoodIs
    <3> QED BY <3>1, <1>2
  <2>2. CASE turn' # "answered"
    BY <2>1, <2>2, NotYetReviewed
  <2>3. CASE turn' = "answered"
    <3>1. ~valid'
      BY DEF TurnsInv, TurnsReviewed
    <3>2. Turned!HonestCitations'
      BY <3>1 DEF Turned!HonestCitations
    <3>3. Turned!FirstKept'
      BY <2>3, <1>1, <1>8 DEF Turned!FirstKept
    <3> QED BY <2>1, <2>3, <3>2, <3>3 DEF TurnsReviewed
  <2> QED BY <2>2, <2>3
<1> QED
  BY <1>5, <1>6, <1>7, <1>9, <1>10 DEF TurnsInv

\* What the model is asked: a turn, its repair, the claims, their repair.
LEMMA AskTurnStep ==
  ASSUME Turned!TurnsAssumption, TurnsInv, NEW r \in Replies, Turned!AskTurn(r)
  PROVE  TurnsInv'
<1>1. turn = "turn" /\ Turned!Call(r) /\ UNCHANGED <<caller, round, force, fetched, reader, claims, valid>>
  BY DEF Turned!AskTurn
<1>2. CASE Turned!Turn(r) # Turned!None /\ Turned!Continue(Turned!Answered(r))
  <2>1. \/ Turned!Answered(r) \in {Turned!None, Turned!Need, Turned!Final(<<>>)}
        \/ Turned!HasList(r) /\ Turned!Answered(r) = Turned!Final(Turned!Good(r))
    BY TurnIs DEF Turned!Answered
  <2>2. Turned!Brings(r) => \/ Turned!Answered(r) = Turned!Final(Turned!Good(r)) /\ Turned!Good(r) # <<>>
                            \/ Turned!Answered(r) = Turned!Need /\ Turned!Allowed
    BY BringsClaims
  <2> QED BY <1>1, <1>2, <2>1, <2>2, ContinueStep
<1>3. CASE Turned!Turn(r) = Turned!None /\ Turned!Continue(Turned!None)
  <2>1. ~Turned!Brings(r)
    BY <1>3, BringsClaims
  <2> QED BY <1>1, <1>3, <2>1, ContinueStep
<1>4. CASE Turned!Turn(r) = Turned!None /\ turn' = "repair_turn" /\ UNCHANGED payload
  <2>1. reply' = r /\ calls' = calls + 1 /\ told' = told + 1 /\ payload' = payload
    BY <1>1, <1>4 DEF Turned!Call
  <2>2. TurnsTyped'
    BY <1>1, <1>4 DEF TurnsInv, TurnsTyped
  <2>3. TurnsBudget'
    BY <1>1, <1>4, <2>1 DEF TurnsInv, TurnsBudget, Spent, Turned!Composes
  <2>4. TurnsCalls' /\ TurnsPayload'
    BY <1>1, <1>4, <2>1 DEF TurnsInv, TurnsCalls, TurnsPayload
  <2>5. Len(claims') <= Len(payload')
    BY <1>1, <2>1 DEF TurnsInv, TurnsReviewed
  <2>6. TurnsReviewed'
    BY <1>1, <1>4, <2>5, NotYetReviewed
  <2> QED BY <2>2, <2>3, <2>4, <2>6 DEF TurnsInv
<1> QED
  BY <1>2, <1>3, <1>4 DEF Turned!AskTurn

LEMMA RepairTurnStep ==
  ASSUME Turned!TurnsAssumption, TurnsInv, NEW r \in Replies, Turned!RepairTurn(r)
  PROVE  TurnsInv'
<1>1. /\ turn = "repair_turn" /\ Turned!Call(r) /\ Turned!Continue(Turned!Turn(r))
      /\ UNCHANGED <<caller, round, force, fetched, reader, claims, valid>>
  BY DEF Turned!RepairTurn
<1>2. \/ Turned!Turn(r) \in {Turned!None, Turned!Need, Turned!Final(<<>>)}
      \/ Turned!HasList(r) /\ Turned!Turn(r) = Turned!Final(Turned!Good(r))
  BY TurnIs
<1> QED
  BY <1>1, <1>2, ContinueStep

LEMMA FetchStep == Turned!TurnsAssumption /\ TurnsInv /\ Turned!Fetch => TurnsInv'
<1> SUFFICES ASSUME Turned!TurnsAssumption, TurnsInv, Turned!Fetch PROVE TurnsInv'
  OBVIOUS
<1>1. /\ turn = "fetch" /\ turn' = "turn" /\ fetched' = fetched + 1 /\ round' = round + 1 /\ calls' = 0
      /\ UNCHANGED <<caller, told, reply, payload, claims, valid>>
  BY DEF Turned!Fetch
<1>2. TurnsTyped' /\ TurnsCalls'
  BY <1>1 DEF TurnsInv, TurnsTyped, TurnsCalls
<1>3. TurnsBudget'
  <2>1. /\ round \in Nat /\ MaxRounds \in Nat /\ round < MaxRounds /\ fetched = round /\ told \in Nat
        /\ told <= 2 * round + 2 /\ ~Turned!Composes
    BY <1>1 DEF TurnsInv, TurnsBudget, Spent, Turned!TurnsAssumption
  <2>2. Spent' = 0 /\ ~Turned!Composes'
    BY <1>1, <2>1 DEF Spent, Turned!Composes
  <2>3. 2 * round' = 2 * round + 2 /\ round' \in Nat /\ round' <= MaxRounds
    BY <1>1, <2>1
  <2> QED BY <1>1, <2>1, <2>2, <2>3 DEF TurnsBudget
<1>4. TurnsPayload'
  BY <1>1 DEF TurnsInv, TurnsPayload
<1>5. TurnsReviewed'
  <2>1. Len(claims') <= Len(payload')
    BY <1>1 DEF TurnsInv, TurnsReviewed
  <2> QED BY <1>1, <2>1, NotYetReviewed
<1> QED
  BY <1>2, <1>3, <1>4, <1>5 DEF TurnsInv

LEMMA ClaimsStep ==
  ASSUME Turned!TurnsAssumption, TurnsInv, NEW r \in Replies, Turned!AskClaims(r) \/ Turned!RepairClaims(r)
  PROVE  TurnsInv'
<1>1. /\ reply' = r /\ calls' = calls + 1 /\ told' = told + 1
      /\ UNCHANGED <<caller, round, force, fetched, claims, valid>>
  BY DEF Turned!AskClaims, Turned!RepairClaims, Turned!Call
<1>2. turn \in {"claims", "repair_claims"}
  BY DEF Turned!AskClaims, Turned!RepairClaims
<1>3. turn' \in {"review", "repair_claims"} /\ (turn' = "repair_claims" => turn = "claims" /\ payload' = payload)
  BY DEF Turned!AskClaims, Turned!RepairClaims
<1>4. payload = <<>> /\ claims = <<>>
  BY <1>2 DEF TurnsInv, TurnsPayload, TurnsReviewed
<1>5. payload' = <<>> \/ (Turned!HasList(r) /\ payload' = Turned!Good(r))
  BY <1>4, TurnIs DEF Turned!AskClaims, Turned!RepairClaims
<1>6. TurnsTyped' /\ TurnsCalls'
  BY <1>1, <1>2, <1>3 DEF TurnsInv, TurnsTyped, TurnsCalls
<1>7. TurnsBudget'
  BY <1>1, <1>2, <1>3 DEF TurnsInv, TurnsBudget, Spent, Turned!Composes
<1>8. calls' # 1
  BY <1>1, <1>2 DEF TurnsInv, TurnsCalls
<1>9. TurnsPayload'
  BY <1>1, <1>3, <1>4, <1>5, <1>8 DEF TurnsPayload
<1>10. TurnsReviewed'
  <2>1. payload' = <<>> \/ payload' \in Seq(Kinds)
    BY <1>5, GoodIs
  <2>2. Len(claims') <= Len(payload')
    BY <1>1, <1>4, <2>1
  <2> QED BY <1>1, <1>2, <1>3, <2>2, NotYetReviewed
<1> QED
  BY <1>6, <1>7, <1>9, <1>10 DEF TurnsInv

\* The review: what is kept cites the packet, and is called valid only if nothing cites anything else.
LEMMA ReviewStep == Turned!TurnsAssumption /\ TurnsInv /\ Turned!Review => TurnsInv'
<1> SUFFICES ASSUME Turned!TurnsAssumption, TurnsInv, Turned!Review PROVE TurnsInv'
  OBVIOUS
<1> DEFINE I == {i \in DOMAIN payload : Turned!CitesPacket(payload[i])}
<1>1. /\ turn = "review" /\ turn' = "answered" /\ claims' = Those(payload, I)
      /\ (valid' <=> claims' # <<>> /\ Turned!NoInvalid(payload)) /\ valid' \in BOOLEAN
      /\ UNCHANGED <<caller, round, force, calls, told, fetched, reply, payload>>
  BY SameThose DEF Turned!Review, Turned!Filter
<1>2. payload \in Seq(Kinds)
  <2>1. payload = <<>> \/ payload \in Seq(Kinds)
    BY GoodIs DEF TurnsInv, TurnsPayload
  <2>2. <<>> \in Seq(Kinds)
    OBVIOUS
  <2> QED BY <2>1, <2>2
<1>3. Len(claims') <= Len(payload)
  <2> HIDE DEF I
  <2> QED BY <1>1, <1>2, ThoseKept
<1>4. payload = <<>> => claims' = <<>>
  <2>1. claims' \in Seq(Kinds)
    <3> HIDE DEF I
    <3> QED BY <1>1, <1>2, ThoseKept
  <2>2. payload = <<>> => Len(claims') <= 0
    BY <1>3
  <2> QED BY <2>1, <2>2
<1>5. payload # <<>> => reply \in Replies /\ Turned!HasList(reply) /\ payload = Turned!Good(reply)
  BY DEF TurnsInv, TurnsPayload
<1>6. Turned!HonestCitations'
  <2> SUFFICES ASSUME valid' PROVE claims' # <<>> /\ \A i \in DOMAIN Turned!Good(reply) : ~Turned!CitesOther(Turned!Good(reply)[i])
    BY <1>1 DEF Turned!HonestCitations
  <2>1. claims' # <<>> /\ Turned!NoInvalid(payload)
    BY <1>1
  <2> QED BY <2>1, <1>4, <1>5 DEF Turned!NoInvalid
<1>7. Turned!FirstKept'
  <2> SUFFICES ASSUME calls = 1, Turned!Brings(reply) PROVE claims' # <<>>
    BY <1>1 DEF Turned!FirstKept
  <2>1. reply \in Replies /\ payload = Turned!Good(reply)
    BY <1>1, <1>5 DEF TurnsInv, TurnsPayload
  <2>2. PICK i \in DOMAIN payload : Turned!CitesPacket(payload[i])
    BY <2>1, BringsClaims
  <2>3. i \in I
    BY <2>2
  <2>4. \E k \in DOMAIN claims' : claims'[k] = payload[i]
    <3> HIDE DEF I
    <3> QED BY <1>1, <1>2, <2>2, <2>3, NoneLost
  <2> QED BY <2>4
<1>8. TurnsReviewed'
  BY <1>1, <1>3, <1>6, <1>7 DEF TurnsReviewed
<1>9. TurnsTyped' /\ TurnsCalls' /\ TurnsPayload'
  BY <1>1, <1>5 DEF TurnsInv, TurnsTyped, TurnsCalls, TurnsPayload
<1>10. TurnsBudget'
  BY <1>1 DEF TurnsInv, TurnsBudget, Spent, Turned!Composes
<1> QED
  BY <1>8, <1>9, <1>10 DEF TurnsInv

\* The pin of the question closes, or the call raises for it, or nothing happens.
LEMMA PinSteps == TurnsInv /\ (Turned!PinCloses \/ Turned!RenewRaises \/ UNCHANGED Turned!vars) => TurnsInv'
<1> SUFFICES ASSUME TurnsInv, Turned!PinCloses \/ Turned!RenewRaises \/ UNCHANGED Turned!vars PROVE TurnsInv'
  OBVIOUS
<1>1. UNCHANGED <<caller, round, calls, told, fetched, reply, payload, claims, valid>>
  BY DEF Turned!PinCloses, Turned!RenewRaises, Turned!vars
<1>2. CASE turn' = turn
  BY <1>1, <1>2 DEF TurnsInv, TurnsTyped, TurnsBudget, Spent, TurnsCalls, TurnsPayload, TurnsReviewed,
     Turned!Composes, Turned!Brings, Turned!HasList, Turned!Good, Turned!Cut, Turned!IsObject,
     Turned!HonestCitations, Turned!FirstKept
<1>3. CASE turn' = "raised" /\ turn \in {"turn", "repair_turn", "claims", "repair_claims"}
  <2>1. TurnsTyped' /\ TurnsCalls' /\ TurnsPayload'
    BY <1>1, <1>3 DEF TurnsInv, TurnsTyped, TurnsCalls, TurnsPayload
  <2>2. TurnsBudget'
    BY <1>1, <1>3 DEF TurnsInv, TurnsBudget, Spent, Turned!Composes
  <2>3. Len(claims') <= Len(payload')
    BY <1>1 DEF TurnsInv, TurnsReviewed
  <2>4. TurnsReviewed'
    BY <1>1, <1>3, <2>3, NotYetReviewed
  <2> QED BY <2>1, <2>2, <2>4 DEF TurnsInv
<1> QED
  BY <1>2, <1>3 DEF Turned!PinCloses, Turned!RenewRaises, Turned!Asking, Turned!vars

LEMMA TurnsStep == Turned!TurnsAssumption /\ TurnsInv /\ [Turned!Next]_Turned!vars => TurnsInv'
BY AskTurnStep, RepairTurnStep, ClaimsStep, FetchStep, ReviewStep, PinSteps DEF Turned!Next

\* answer_turn.py, model_call.py and _answer_events: the calls of a question are bounded, citations are
\* called valid only if no claim of the reply cites anything outside the packet, and a first reply that
\* cites it is not wasted.
THEOREM TurnsStay ==
  ASSUME Turned!TurnsAssumption
  PROVE  Turned!Spec => [](Turned!TypeOK /\ Turned!CallsBounded /\ Turned!HonestCitations /\ Turned!FirstKept)
BY TurnsInit, TurnsStep, TurnsTypes, PTL DEF Turned!Spec

-----------------------------------------------------------------------------
(* The Cursor bridge, for any finite set of requests and number of slots.  *)
(* Slots and holders always add up (Balanced), and a CLI that is alive     *)
(* belongs to a holder (OwnedCli), so there are never more than the slots. *)
Holders == {r \in Posts : post[r] \in Bridged!Holding}

\* SlotsConserved, of the same holders.
Balanced == slots + Cardinality(Holders) = Slots

\* A CLI that is alive belongs to a holder of a slot.
OwnedCli == \A r \in Posts : cli[r] = "alive" => post[r] = "running"

BridgeInv == Bridged!TypeOK /\ Balanced /\ OwnedCli

LEMMA BridgeIs == IsFiniteSet(Posts) /\ Slots \in Nat \ {0}
BY SharedAssumption DEF Bridged!BridgeAssumption, Bridged!IsFiniteSet, IsFiniteSet

LEMMA HoldersFinite == IsFiniteSet(Holders) /\ Cardinality(Holders) \in Nat
<1>1. IsFiniteSet(Holders)
  BY BridgeIs, FS_Subset DEF Holders
<1> QED BY <1>1, FS_CardinalityType

LEMMA HoldersFinitePrime == IsFiniteSet(Holders') /\ Cardinality(Holders') \in Nat
<1>1. IsFiniteSet(Holders')
  BY BridgeIs, FS_Subset DEF Holders
<1> QED BY <1>1, FS_CardinalityType

\* Steps of a request that is not, and does not become, a holder, or stays one.
LEMMA SameHolders ==
  ASSUME BridgeInv, NEW r \in Posts, NEW step, post' = [post EXCEPT ![r] = step],
         step \in Bridged!Holding <=> post[r] \in Bridged!Holding, slots' = slots
  PROVE  Balanced'
<1>1. Holders' = Holders
  BY DEF Holders, BridgeInv, Bridged!TypeOK
<1> QED BY <1>1 DEF BridgeInv, Balanced, Holders

LEMMA TakesSlot ==
  ASSUME BridgeInv, NEW r \in Posts, NEW step, post' = [post EXCEPT ![r] = step],
         step \in Bridged!Holding, post[r] \notin Bridged!Holding, slots' = slots - 1
  PROVE  Balanced'
<1>1. Holders' = Holders \cup {r} /\ r \notin Holders
  BY DEF Holders, BridgeInv, Bridged!TypeOK
<1>2. Cardinality(Holders') = Cardinality(Holders) + 1
  BY <1>1, HoldersFinite, FS_AddElement
<1>3. slots \in Int /\ slots + Cardinality(Holders) = Slots /\ Cardinality(Holders) \in Nat
  BY HoldersFinite DEF BridgeInv, Bridged!TypeOK, Balanced, Holders
<1>4. slots' + Cardinality(Holders') = Slots
  BY <1>2, <1>3
<1> QED BY <1>4 DEF Balanced, Holders

LEMMA GivesSlot ==
  ASSUME BridgeInv, NEW r \in Posts, NEW step, post' = [post EXCEPT ![r] = step],
         step \notin Bridged!Holding, post[r] \in Bridged!Holding, slots' = slots + 1
  PROVE  Balanced' /\ slots' \in 0..Slots
<1>1. Holders' = Holders \ {r} /\ r \in Holders
  BY DEF Holders, BridgeInv, Bridged!TypeOK
<1>2. Cardinality(Holders') = Cardinality(Holders) - 1
  BY <1>1, HoldersFinite, FS_RemoveElement
<1>3. slots \in Int /\ slots >= 0 /\ slots + Cardinality(Holders) = Slots /\ Cardinality(Holders) \in Nat
  BY HoldersFinite, BridgeIs DEF BridgeInv, Bridged!TypeOK, Balanced, Holders
<1>4. Cardinality(Holders') \in Nat
  BY HoldersFinitePrime
<1>5. slots' + Cardinality(Holders') = Slots /\ slots' \in 0..Slots
  BY <1>2, <1>3, <1>4, BridgeIs
<1> QED BY <1>5 DEF Balanced, Holders

LEMMA BridgeInit == Bridged!Init => BridgeInv
<1> SUFFICES ASSUME Bridged!Init PROVE BridgeInv
  OBVIOUS
<1>1. Bridged!TypeOK /\ OwnedCli
  BY BridgeIs DEF Bridged!Init, Bridged!TypeOK, OwnedCli
<1>2. Holders = {}
  BY DEF Bridged!Init, Holders, Bridged!Holding
<1>3. Balanced
  BY <1>2, FS_EmptySet, BridgeIs DEF Bridged!Init, Balanced, Holders
<1> QED BY <1>1, <1>3 DEF BridgeInv

LEMMA HandlerInv ==
  ASSUME BridgeInv, NEW r \in Posts, Bridged!Handler(r)
  PROVE  BridgeInv'
<1> USE DEF Bridged!Goto, Bridged!Send, Bridged!Raise, Bridged!Holding
<1>1. CASE Bridged!Refuse(r)
  <2>1. Bridged!TypeOK' /\ OwnedCli'
    BY <1>1 DEF Bridged!Refuse, BridgeInv, Bridged!TypeOK, OwnedCli, Bridged!Answers
  <2>2. Balanced'
    BY <1>1, SameHolders DEF Bridged!Refuse
  <2> QED BY <2>1, <2>2 DEF BridgeInv
<1>2. CASE Bridged!Read(r)
  <2>1. Bridged!TypeOK' /\ OwnedCli'
    BY <1>2 DEF Bridged!Read, BridgeInv, Bridged!TypeOK, OwnedCli
  <2>2. Balanced'
    BY <1>2, SameHolders DEF Bridged!Read
  <2> QED BY <2>1, <2>2 DEF BridgeInv
<1>3. CASE Bridged!Parse(r)
  <2>1. Bridged!TypeOK' /\ OwnedCli'
    BY <1>3 DEF Bridged!Parse, BridgeInv, Bridged!TypeOK, OwnedCli, Bridged!Answers
  <2>2. Balanced'
    BY <1>3, SameHolders DEF Bridged!Parse
  <2> QED BY <2>1, <2>2 DEF BridgeInv
<1>4. CASE Bridged!Acquire(r)
  <2>1. slots' \in 0..Slots
    BY <1>4, BridgeIs DEF Bridged!Acquire, Bridged!Free, BridgeInv, Bridged!TypeOK
  <2>2. Bridged!TypeOK' /\ OwnedCli'
    BY <1>4, <2>1 DEF Bridged!Acquire, BridgeInv, Bridged!TypeOK, OwnedCli
  <2>3. Balanced'
    BY <1>4, TakesSlot DEF Bridged!Acquire
  <2> QED BY <2>2, <2>3 DEF BridgeInv
<1>5. CASE Bridged!Start(r)
  <2>1. CASE Bridged!Goto(r, "running") /\ cli' = [cli EXCEPT ![r] = "alive"] /\ UNCHANGED slots
    <3>1. Bridged!TypeOK' /\ OwnedCli'
      BY <1>5, <2>1 DEF Bridged!Start, BridgeInv, Bridged!TypeOK, OwnedCli
    <3>2. Balanced'
      BY <1>5, <2>1, SameHolders DEF Bridged!Start
    <3> QED BY <3>1, <3>2 DEF BridgeInv
  <2>2. CASE (Bridged!Send(r, 503) \/ Bridged!Raise(r)) /\ Bridged!Release /\ UNCHANGED cli
    <3>1. Balanced' /\ slots' \in 0..Slots
      BY <1>5, <2>2, GivesSlot DEF Bridged!Start, Bridged!Release
    <3>2. Bridged!TypeOK' /\ OwnedCli'
      BY <1>5, <2>2, <3>1 DEF Bridged!Start, BridgeInv, Bridged!TypeOK, OwnedCli, Bridged!Answers
    <3> QED BY <3>1, <3>2 DEF BridgeInv
  <2> QED BY <1>5, <2>1, <2>2 DEF Bridged!Start
<1>6. CASE Bridged!Collect(r)
  <2>1. Balanced' /\ slots' \in 0..Slots
    BY <1>6, GivesSlot DEF Bridged!Collect, Bridged!Release
  <2>2. Bridged!TypeOK' /\ OwnedCli'
    BY <1>6, <2>1 DEF Bridged!Collect, BridgeInv, Bridged!TypeOK, OwnedCli, Bridged!Answers
  <2> QED BY <2>1, <2>2 DEF BridgeInv
<1>7. CASE Bridged!Timeout(r)
  <2>1. Bridged!TypeOK' /\ OwnedCli'
    BY <1>7 DEF Bridged!Timeout, Bridged!KillsGroup, BridgeInv, Bridged!TypeOK, OwnedCli
  <2>2. Balanced'
    BY <1>7, SameHolders DEF Bridged!Timeout
  <2> QED BY <2>1, <2>2 DEF BridgeInv
<1>8. CASE Bridged!Reap(r)
  <2>1. Balanced' /\ slots' \in 0..Slots
    BY <1>8, GivesSlot DEF Bridged!Reap, Bridged!ReleaseLate, Bridged!Release
  <2>2. Bridged!TypeOK' /\ OwnedCli'
    BY <1>8, <2>1 DEF Bridged!Reap, BridgeInv, Bridged!TypeOK, OwnedCli, Bridged!Answers
  <2> QED BY <2>1, <2>2 DEF BridgeInv
<1> QED BY <1>1, <1>2, <1>3, <1>4, <1>5, <1>6, <1>7, <1>8 DEF Bridged!Handler

LEMMA OutsideInv ==
  ASSUME BridgeInv, NEW r \in Posts,
         Bridged!CliEnds(r) \/ Bridged!CliForks(r) \/ Bridged!HelperEnds(r) \/ Bridged!ClientLeaves(r)
  PROVE  BridgeInv'
<1>1. post' = post /\ slots' = slots
  BY DEF Bridged!CliEnds, Bridged!CliForks, Bridged!HelperEnds, Bridged!ClientLeaves
<1>2. Balanced'
  BY <1>1 DEF BridgeInv, Balanced, Holders
<1>3. Bridged!TypeOK' /\ OwnedCli'
  BY DEF Bridged!CliEnds, Bridged!CliForks, Bridged!HelperEnds, Bridged!ClientLeaves, BridgeInv, Bridged!TypeOK, OwnedCli
<1> QED BY <1>2, <1>3 DEF BridgeInv

LEMMA BridgeHolds == Bridged!Spec => []BridgeInv
<1>1. BridgeInv /\ [Bridged!Next]_Bridged!vars => BridgeInv'
  <2> SUFFICES ASSUME BridgeInv, [Bridged!Next]_Bridged!vars PROVE BridgeInv'
    OBVIOUS
  <2>1. CASE Bridged!Next
    BY <2>1, HandlerInv, OutsideInv DEF Bridged!Next
  <2>2. CASE UNCHANGED Bridged!vars
    BY <2>2 DEF Bridged!vars, BridgeInv, Bridged!TypeOK, Balanced, Holders, OwnedCli
  <2> QED BY <2>1, <2>2
<1> QED BY BridgeInit, <1>1, PTL DEF Bridged!Spec

LEMMA SameCount == \A S : Bridged!Cardinality(S) = Cardinality(S)
BY DEF Bridged!Cardinality, Cardinality

LEMMA NoMoreThanSlots == BridgeInv => Bridged!AtMostSlots
<1> SUFFICES ASSUME BridgeInv PROVE Bridged!AtMostSlots
  OBVIOUS
<1> DEFINE Alive == {r \in Posts : cli[r] = "alive"}
<1>1. Alive \subseteq Holders
  BY DEF BridgeInv, OwnedCli, Holders, Bridged!Holding
<1>2. Cardinality(Alive) <= Cardinality(Holders) /\ Cardinality(Alive) \in Nat
  BY <1>1, HoldersFinite, FS_Subset, FS_CardinalityType
<1>3. slots + Cardinality(Holders) = Slots /\ slots \in Nat
  BY BridgeIs DEF BridgeInv, Balanced, Bridged!TypeOK
<1>4. Cardinality(Alive) <= Slots
  <2> HIDE DEF Alive
  <2> QED BY <1>2, <1>3, HoldersFinite, BridgeIs
<1> QED BY <1>4, SameCount DEF Bridged!AtMostSlots

\* do_POST and run_cli: every way out of "with cli_slots" gives back the one slot that was taken, and at
\* most CURSOR_BRIDGE_MAX_CONCURRENT CLIs run, for any number of requests.
THEOREM SlotsComeBack ==
  Bridged!Spec => [](Bridged!TypeOK /\ Bridged!SlotsConserved /\ Bridged!AtMostSlots)
<1>1. BridgeInv => Bridged!TypeOK /\ Bridged!SlotsConserved
  BY SameCount DEF BridgeInv, Balanced, Holders, Bridged!SlotsConserved
<1> QED BY BridgeHolds, <1>1, NoMoreThanSlots, PTL

-----------------------------------------------------------------------------
(* The order in which evidence is packed.                                  *)
PackThose == \A s, I : Packs!Those(s, I) = Those(s, I)
LEMMA SamePackThose == PackThose
BY DEF PackThose, Packs!Those, Those

LEMMA PackingIs ==
  /\ \A list \in Loaded : list \in Seq(Packs!Range(list)) /\ Len(list) \in Nat
  /\ \A list \in Loaded : \A i \in DOMAIN list : list[i].from \in Nat /\ list[i].to \in Nat /\ list[i].from <= list[i].to
  /\ Others \subseteq Seq(Nat) /\ Headers \subseteq Nat
  /\ IdSize \in Nat \ {0} /\ {NoteSize, SourceCap, EvidenceCap, Context, Output, Margin} \subseteq Nat
  /\ Strategies \subseteq {"tiktoken", "qwen", "bytes"}
BY SharedAssumption DEF Packs!PackingAssumption

\* A comprehension over the numbers of a list goes up through those that pass.
LEMMA Ascending ==
  ASSUME NEW n \in Nat, NEW I
  PROVE  LET t == Those([i \in 1..n |-> i], I)
         IN  /\ t \in Seq(1..n) /\ \A k \in DOMAIN t : t[k] \in I \cap (1..n)
             /\ \A j, k \in DOMAIN t : j < k => t[j] < t[k]
<1> DEFINE all == [i \in 1..n |-> i]
           t == Those(all, I)
<1>1. all \in Seq(1..n) /\ Len(all) = n
  OBVIOUS
<1>2. PICK p : Places(p, I, Len(all)) /\ t = At(all, p)
  BY <1>1, ThoseList
<1>3. p \in Seq(Nat) /\ Len(p) \in Nat /\ \A a \in 1..Len(p) : p[a] \in I \cap (1..n)
  BY <1>1, <1>2 DEF Places
<1>4. t = [a \in 1..Len(p) |-> p[a]]
  BY <1>2, <1>3 DEF At
<1>5. DOMAIN t = 1..Len(p) /\ \A a \in 1..Len(p) : t[a] = p[a]
  <2> HIDE DEF t
  <2> QED BY <1>4
<1>6. t \in Seq(1..n)
  <2>1. [a \in 1..Len(p) |-> p[a]] \in [1..Len(p) -> 1..n]
    BY <1>3
  <2> HIDE DEF t
  <2> QED BY <2>1, <1>3, <1>4
<1>7. \A j, k \in DOMAIN t : j < k => t[j] < t[k]
  <2> HIDE DEF t, all
  <2> QED BY <1>1, <1>2, <1>5 DEF Places
<1> HIDE DEF t
<1> QED BY <1>3, <1>5, <1>6, <1>7 DEF t

\* The order of packing: numbers of spans, none twice, the required ones first.
RequiredFirst(list, o) ==
  /\ o \in Seq(DOMAIN list) /\ Len(o) \in Nat
  /\ \A i, j \in 1..Len(o) : i # j => o[i] # o[j]
  /\ \A i, j \in 1..Len(o) : i < j /\ Packs!IsRequired(list[o[j]]) => Packs!IsRequired(list[o[i]])

LEMMA OrderIs == ASSUME NEW list \in Loaded PROVE RequiredFirst(list, Packs!Order(list))
<1>1. PICK n \in Nat : DOMAIN list = 1..n
  BY PackingIs
<1> DEFINE all == [i \in 1..n |-> i]
           R == {i \in 1..n : Packs!IsRequired(list[i])}
           N == {i \in 1..n : ~Packs!IsRequired(list[i])}
           a == Those(all, R)
           b == Those(all, N)
<1>2. Packs!Order(list) = a \o b
  <2>1. DOMAIN all = 1..n /\ \A i \in 1..n : all[i] = i
    OBVIOUS
  <2>2. {i \in DOMAIN all : Packs!IsRequired(list[all[i]])} = R /\ {i \in DOMAIN all : ~Packs!IsRequired(list[all[i]])} = N
    BY <2>1
  <2>3. Packs!Order(list) = Packs!Those(all, {i \in DOMAIN all : Packs!IsRequired(list[all[i]])})
                            \o Packs!Those(all, {i \in DOMAIN all : ~Packs!IsRequired(list[all[i]])})
    BY <1>1 DEF Packs!Order, Packs!Filter
  <2> HIDE DEF all, R, N
  <2> QED BY <2>2, <2>3, SamePackThose DEF PackThose
<1>3. /\ a \in Seq(1..n) /\ \A k \in DOMAIN a : a[k] \in R
      /\ \A j, k \in DOMAIN a : j < k => a[j] < a[k]
  BY Ascending
<1>4. /\ b \in Seq(1..n) /\ \A k \in DOMAIN b : b[k] \in N
      /\ \A j, k \in DOMAIN b : j < k => b[j] < b[k]
  BY Ascending
<1> DEFINE o == a \o b
           la == Len(a)
           lb == Len(b)
<1> HIDE DEF a, b
<1>5. la \in Nat /\ lb \in Nat /\ DOMAIN a = 1..la /\ DOMAIN b = 1..lb
  BY <1>3, <1>4
<1>6. /\ o \in Seq(1..n) /\ Len(o) = la + lb
      /\ \A k \in 1..Len(o) : o[k] = IF k <= la THEN a[k] ELSE b[k - la]
  BY <1>3, <1>4
<1> HIDE DEF o, la, lb
<1>7. \A k \in 1..Len(o) : (k <= la => k \in 1..la /\ o[k] = a[k]) /\ (k > la => k - la \in 1..lb /\ o[k] = b[k - la])
  BY <1>5, <1>6
<1>8. ASSUME NEW i \in 1..Len(o), NEW j \in 1..Len(o), i < j
      PROVE o[i] # o[j] /\ (Packs!IsRequired(list[o[j]]) => Packs!IsRequired(list[o[i]]))
  <2>1. CASE j <= la
    <3>1. i <= la
      BY <2>1, <1>8, <1>5, <1>6
    <3>2. o[i] = a[i] /\ o[j] = a[j] /\ i \in 1..la /\ j \in 1..la
      BY <2>1, <3>1, <1>7
    <3>3. a[i] < a[j] /\ a[i] \in R /\ a[j] \in R
      BY <3>2, <1>3, <1>5, <1>8
    <3> QED BY <3>2, <3>3
  <2>2. CASE i > la
    <3>1. j > la
      BY <2>2, <1>8, <1>5, <1>6
    <3>2. o[i] = b[i - la] /\ o[j] = b[j - la] /\ i - la \in 1..lb /\ j - la \in 1..lb
      BY <2>2, <3>1, <1>7
    <3>5. i - la < j - la
      BY <1>5, <1>6, <1>8
    <3>3. b[i - la] < b[j - la] /\ b[j - la] \in N
      BY <3>2, <3>5, <1>4, <1>5
    <3>4. b[i - la] \in N
      BY <3>2, <1>4, <1>5
    <3> QED BY <3>2, <3>3, <3>4
  <2>3. CASE i <= la /\ j > la
    <3>1. o[i] \in R /\ o[j] \in N
      BY <2>3, <1>7, <1>3, <1>4, <1>5
    <3> QED BY <3>1
  <2> QED BY <2>1, <2>2, <2>3, <1>5, <1>6
<1>9. \A i, j \in 1..Len(o) : i # j => o[i] # o[j]
  <2> SUFFICES ASSUME NEW i \in 1..Len(o), NEW j \in 1..Len(o), i # j PROVE o[i] # o[j]
    OBVIOUS
  <2>1. i < j \/ j < i
    BY <1>5, <1>6
  <2> QED BY <2>1, <1>8
<1>10. o \in Seq(DOMAIN list) /\ Len(o) \in Nat
  BY <1>1, <1>6, <1>5
<1>11. RequiredFirst(list, o)
  BY <1>8, <1>9, <1>10 DEF RequiredFirst
<1> QED BY <1>2, <1>11 DEF o

-----------------------------------------------------------------------------
(* The packet.                                                             *)
PackTyped ==
  /\ spans \in Loaded /\ others \in Others /\ header \in Headers /\ strategy \in Strategies
  /\ kept \in Seq(DOMAIN spans) /\ others_kept \subseteq DOMAIN others
  /\ text \in Nat /\ text >= header /\ raw \in Nat /\ next \in Nat \ {0}
  /\ stage \in {"spans", "others", "packed", "asked", "refused"}
  /\ RequiredFirst(spans, order)

PackPlace ==
  /\ stage = "spans" => next <= Len(order) + 1 /\ others_kept = {}
  /\ stage = "others" => next <= Len(others) + 1
  /\ next <= Len(order) + Len(others) + 1

\* What was decided about, in the order of packing: no span twice, and none kept that was left out.
PackTaken ==
  /\ \A x \in excluded : x[1] \in DOMAIN spans
  /\ \A i, j \in 1..Len(kept) : i # j => kept[i] # kept[j]
  /\ \A x \in excluded : \A i \in 1..Len(kept) : kept[i] # x[1]
  /\ stage = "spans" =>
       /\ \A i \in 1..Len(kept) : \E j \in 1..next - 1 : kept[i] = order[j]
       /\ \A x \in excluded : \E j \in 1..next - 1 : x[1] = order[j]

PackApart ==
  \A i, j \in 1..Len(kept) : i # j => ~Packs!Overlaps(spans[kept[i]], spans[kept[j]])

PackCaps ==
  /\ (\E i \in 1..Len(kept) : ~Packs!IsRequired(spans[kept[i]])) => raw <= SourceCap
  /\ others_kept # {} => raw <= SourceCap /\ text <= EvidenceCap + header

PackInv == PackTyped /\ PackPlace /\ PackTaken /\ PackApart /\ PackCaps

LEMMA PackInit == Packs!Init => PackInv
<1> SUFFICES ASSUME Packs!Init PROVE PackInv
  OBVIOUS
<1>0. /\ spans \in Loaded /\ others \in Others /\ header \in Headers /\ strategy \in Strategies
      /\ order = Packs!Order(spans) /\ next = 1 /\ kept = <<>> /\ others_kept = {} /\ excluded = {}
      /\ text = header /\ raw = 0 /\ stage = "spans"
  BY DEF Packs!Init, Packs!Start
<1>1. RequiredFirst(spans, order)
  BY <1>0, OrderIs
<1>2. header \in Nat /\ Len(order) \in Nat /\ Len(others) \in Nat
  BY <1>0, <1>1, PackingIs DEF RequiredFirst
<1>3. kept \in Seq(DOMAIN spans) /\ Len(kept) = 0
  BY <1>0
<1>4. PackTyped
  BY <1>0, <1>1, <1>2, <1>3 DEF PackTyped
<1>5. PackPlace
  BY <1>0, <1>2 DEF PackPlace
<1>6. 1..Len(kept) = {}
  BY <1>3
<1>7. PackTaken /\ PackApart /\ PackCaps
  BY <1>0, <1>6 DEF PackTaken, PackApart, PackCaps
<1> QED BY <1>4, <1>5, <1>7 DEF PackInv

LEMMA OverlapsBoth == \A s, t : Packs!Overlaps(s, t) <=> Packs!Overlaps(t, s)
BY DEF Packs!Overlaps, Packs!Same

LEMMA KeepStep ==
  ASSUME PackInv, stage = "spans", next <= Len(order), ~Packs!Clashes(Packs!Now), Packs!Keep(Packs!Now),
         next' = next + 1, UNCHANGED <<spans, others, required, header, strategy, order, others_kept, stage>>,
         Packs!IsRequired(Packs!Now) \/ raw + Packs!Raw(Packs!Now) <= SourceCap
  PROVE  PackInv'
<1> DEFINE i == order[next]
           n == Len(kept)
<1>0. RequiredFirst(spans, order) /\ spans \in Loaded /\ next \in 1..Len(order) /\ i \in DOMAIN spans
      /\ Packs!Now = spans[i] /\ next \in Nat \ {0} /\ Len(order) \in Nat
  BY DEF PackInv, PackTyped, RequiredFirst, Packs!Now
<1>1. Packs!Raw(spans[i]) \in Nat /\ Packs!Piece(spans[i]) \in Nat
  <2>1. spans[i].from \in Nat /\ spans[i].to \in Nat /\ spans[i].from <= spans[i].to /\ IdSize \in Nat
    BY <1>0, PackingIs
  <2> HIDE DEF i
  <2> QED BY <2>1 DEF Packs!Raw, Packs!Piece
<1>2. /\ kept' = Append(kept, i) /\ text' = text + Packs!Piece(spans[i]) /\ raw' = raw + Packs!Raw(spans[i])
      /\ excluded' = excluded
  BY <1>0 DEF Packs!Keep
<1> HIDE DEF i
<1>3. /\ kept \in Seq(DOMAIN spans) /\ n \in Nat /\ kept' \in Seq(DOMAIN spans) /\ Len(kept') = n + 1 /\ kept'[n + 1] = i
      /\ \A k \in 1..n : kept'[k] = kept[k]
  BY <1>0, <1>2 DEF PackInv, PackTyped
<1> HIDE DEF n
<1>4. \A k \in 1..Len(kept') : k \in 1..n \/ k = n + 1
  BY <1>3
<1>5. text \in Nat /\ text >= header /\ raw \in Nat /\ header \in Nat
  BY PackingIs DEF PackInv, PackTyped
<1>6. PackTyped'
  <2>1. text' \in Nat /\ text' >= header /\ raw' \in Nat
    BY <1>1, <1>2, <1>5
  <2>2. next' \in Nat \ {0}
    BY <1>0
  <2> QED BY <2>1, <2>2, <1>3 DEF PackInv, PackTyped, RequiredFirst, Packs!IsRequired, Packs!BodyKind
<1>7. PackPlace'
  <2>1. others \in Others /\ Len(others) \in Nat
    BY PackingIs DEF PackInv, PackTyped
  <2> QED BY <2>1, <1>0 DEF PackInv, PackPlace
<1>8. \A k \in 1..n : \E j \in 1..next - 1 : kept[k] = order[j]
  BY <1>0 DEF PackInv, PackTaken, n
<1>9. \A j \in 1..next - 1 : j \in 1..Len(order) /\ j # next /\ j < next /\ order[j] # i
  BY <1>0 DEF RequiredFirst, i
<1>10. \A k \in 1..n : kept[k] # i
  BY <1>8, <1>9
<1>11. PackTaken'
  <2>1. \A x \in excluded : x[1] # i
    BY <1>9 DEF PackInv, PackTaken
  <2>2. \A j \in 1..next - 1 : j \in 1..next' - 1
    BY <1>0
  <2>3. next \in 1..next' - 1 /\ i = order[next]
    BY <1>0 DEF i
  <2>4. \A a, b \in 1..Len(kept') : a # b => kept'[a] # kept'[b]
    BY <1>3, <1>4, <1>10 DEF PackInv, PackTaken, n
  <2>5. \A x \in excluded : \A a \in 1..Len(kept') : kept'[a] # x[1]
    BY <1>3, <1>4, <2>1 DEF PackInv, PackTaken, n
  <2>6. \A a \in 1..Len(kept') : \E j \in 1..next' - 1 : kept'[a] = order[j]
    BY <1>3, <1>4, <1>8, <2>2, <2>3
  <2>7. \A x \in excluded : x[1] \in DOMAIN spans /\ \E j \in 1..next' - 1 : x[1] = order[j]
    BY <2>2 DEF PackInv, PackTaken
  <2> QED BY <1>2, <2>4, <2>5, <2>6, <2>7 DEF PackTaken
<1>12. PackApart'
  <2>1. \A k \in 1..n : ~Packs!Overlaps(spans[i], spans[kept[k]])
    <3>1. DOMAIN kept = 1..n
      BY <1>3 DEF n
    <3> QED BY <1>0, <3>1 DEF Packs!Clashes, Packs!Range
  <2>2. \A a, b \in 1..n : a # b => ~Packs!Overlaps(spans[kept[a]], spans[kept[b]])
    BY DEF PackInv, PackApart, n
  <2>3. \A a, b \in 1..Len(kept') : a # b => ~Packs!Overlaps(spans[kept'[a]], spans[kept'[b]])
    BY <2>1, <2>2, <1>3, <1>4, OverlapsBoth
  <2> QED BY <2>3 DEF PackApart, Packs!Overlaps, Packs!Same
<1>13. PackCaps'
  <2>1. others_kept' = {}
    BY DEF PackInv, PackPlace
  <2>2. ASSUME NEW a \in 1..Len(kept'), ~Packs!IsRequired(spans[kept'[a]]) PROVE raw' <= SourceCap
    <3>1. ~Packs!IsRequired(spans[i])
      <4>1. CASE a = n + 1
        BY <4>1, <2>2, <1>3
      <4>2. CASE a \in 1..n
        <5>1. PICK j \in 1..next - 1 : kept[a] = order[j]
          BY <4>2, <1>8
        <5>2. j \in 1..Len(order) /\ j < next /\ ~Packs!IsRequired(spans[order[j]])
          BY <5>1, <1>9, <2>2, <4>2, <1>3
        <5> QED BY <5>2, <1>0 DEF RequiredFirst, i
      <4> QED BY <1>4, <4>1, <4>2
    <3> QED BY <3>1, <1>0, <1>2
  <2>3. (\E a \in 1..Len(kept') : ~Packs!IsRequired(spans[kept'[a]])) => raw' <= SourceCap
    BY <2>2
  <2>4. UNCHANGED required /\ UNCHANGED spans
    OBVIOUS
  <2> QED BY <2>1, <2>3, <2>4 DEF PackCaps, Packs!IsRequired, Packs!BodyKind
<1> QED BY <1>6, <1>7, <1>11, <1>12, <1>13 DEF PackInv

LEMMA LeaveStep ==
  ASSUME PackInv, stage = "spans", next <= Len(order), NEW reason, Packs!LeaveOut(reason),
         next' = next + 1, UNCHANGED <<spans, others, required, header, strategy, order, others_kept, stage>>
  PROVE  PackInv'
<1> DEFINE i == order[next]
<1>0. RequiredFirst(spans, order) /\ spans \in Loaded /\ next \in 1..Len(order) /\ i \in DOMAIN spans
      /\ next \in Nat \ {0} /\ Len(order) \in Nat
  BY DEF PackInv, PackTyped, RequiredFirst
<1>2. excluded' = excluded \cup {<<i, reason>>} /\ UNCHANGED <<kept, text, raw>>
  BY DEF Packs!LeaveOut
<1>6. PackTyped'
  <2>2. next' \in Nat \ {0}
    BY <1>0
  <2> QED BY <2>2, <1>2 DEF PackInv, PackTyped, RequiredFirst, Packs!IsRequired, Packs!BodyKind
<1>7. PackPlace'
  <2>1. others \in Others /\ Len(others) \in Nat
    BY PackingIs DEF PackInv, PackTyped
  <2> QED BY <2>1, <1>0 DEF PackInv, PackPlace
<1>8. \A k \in 1..Len(kept) : \E j \in 1..next - 1 : kept[k] = order[j]
  BY <1>0 DEF PackInv, PackTaken
<1>9. \A j \in 1..next - 1 : j \in 1..Len(order) /\ j # next /\ order[j] # i
  BY <1>0 DEF RequiredFirst
<1>11. PackTaken'
  <2>1. \A k \in 1..Len(kept) : kept[k] # i
    BY <1>8, <1>9
  <2>2. \A j \in 1..next - 1 : j \in 1..next' - 1
    BY <1>0
  <2>3. next \in 1..next' - 1
    BY <1>0
  <2>4. \A x \in excluded' : x \in excluded \/ x[1] = i
    BY <1>2
  <2> HIDE DEF i
  <2>5. \A x \in excluded' : x[1] \in DOMAIN spans /\ \A a \in 1..Len(kept) : kept[a] # x[1]
    BY <1>0, <2>1, <2>4 DEF PackInv, PackTaken
  <2>6. \A a \in 1..Len(kept) : \E j \in 1..next' - 1 : kept[a] = order[j]
    BY <1>8, <2>2
  <2>7. \A x \in excluded' : \E j \in 1..next' - 1 : x[1] = order[j]
    BY <2>2, <2>3, <2>4 DEF PackInv, PackTaken, i
  <2> QED BY <1>2, <2>5, <2>6, <2>7 DEF PackTaken, PackInv
<1>12. PackApart'
  BY <1>2 DEF PackInv, PackApart, Packs!Overlaps, Packs!Same
<1>13. PackCaps'
  BY <1>2 DEF PackInv, PackCaps, Packs!IsRequired, Packs!BodyKind
<1> QED BY <1>6, <1>7, <1>11, <1>12, <1>13 DEF PackInv

LEMMA TakeSpanStep == ASSUME PackInv, Packs!TakeSpan PROVE PackInv'
<1>1. /\ stage = "spans" /\ next <= Len(order) /\ next' = next + 1
      /\ UNCHANGED <<spans, others, required, header, strategy, order, others_kept, stage>>
  BY DEF Packs!TakeSpan, Packs!inputs
<1>2. CASE \E reason \in {"overlap", "context", "source"} : Packs!LeaveOut(reason)
  BY <1>1, <1>2, LeaveStep
<1>3. CASE /\ Packs!Keep(Packs!Now) /\ ~Packs!Clashes(Packs!Now)
           /\ Packs!IsRequired(Packs!Now) \/ raw + Packs!Raw(Packs!Now) <= SourceCap
  BY <1>1, <1>3, KeepStep
<1> QED BY <1>2, <1>3 DEF Packs!TakeSpan, Packs!Fits

LEMMA TakeOtherStep == ASSUME PackInv, Packs!TakeOther PROVE PackInv'
<1>1. /\ stage = "others" /\ next <= Len(others) /\ next' = next + 1
      /\ UNCHANGED <<spans, others, required, header, strategy, order, kept, excluded, raw, stage>>
  BY DEF Packs!TakeOther, Packs!inputs
<1>2. \/ UNCHANGED <<others_kept, text>>
      \/ /\ raw <= SourceCap /\ text + others[next] <= EvidenceCap + header
         /\ others_kept' = others_kept \cup {next} /\ text' = text + others[next]
  BY DEF Packs!TakeOther, Packs!Fits
<1>3. /\ others \in Seq(Nat) /\ Len(others) \in Nat /\ next \in Nat \ {0} /\ next \in DOMAIN others /\ others[next] \in Nat
      /\ text \in Nat /\ text >= header /\ header \in Nat /\ Len(order) \in Nat
  BY <1>1, PackingIs DEF PackInv, PackTyped, RequiredFirst
<1>4. text' \in Nat /\ text' >= header /\ others_kept' \subseteq DOMAIN others
  BY <1>2, <1>3 DEF PackInv, PackTyped
<1>5. PackTyped'
  <2>1. next' \in Nat \ {0}
    BY <1>1, <1>3
  <2> QED BY <2>1, <1>1, <1>4 DEF PackInv, PackTyped, RequiredFirst, Packs!IsRequired, Packs!BodyKind
<1>6. PackPlace'
  BY <1>1, <1>3 DEF PackInv, PackPlace
<1>7. PackTaken' /\ PackApart'
  BY <1>1 DEF PackInv, PackTaken, PackApart, Packs!Overlaps, Packs!Same
<1>8. PackCaps'
  BY <1>1, <1>2 DEF PackInv, PackCaps, Packs!IsRequired, Packs!BodyKind
<1> QED BY <1>5, <1>6, <1>7, <1>8 DEF PackInv

LEMMA BoostStep == ASSUME PackInv, Packs!Boost PROVE PackInv'
<1>1. /\ stage = "others" /\ kept = <<>>
      /\ UNCHANGED <<others, required, header, strategy, kept, raw>>
  BY DEF Packs!Boost, Packs!inputs
<1>2. PICK more \in Loaded :
        \/ stage' = "packed" /\ UNCHANGED <<spans, order, next, others_kept, excluded, text>>
        \/ /\ spans' = more /\ order' = Packs!Order(more) /\ next' = 1 /\ excluded' = {} /\ text' = header
           /\ stage' = "spans" /\ others_kept' = {}
  BY DEF Packs!Boost
<1>3. CASE stage' = "packed" /\ UNCHANGED <<spans, order, next, others_kept, excluded, text>>
  <2>1. PackTyped' /\ PackPlace'
    BY <1>1, <1>3 DEF PackInv, PackTyped, PackPlace, RequiredFirst, Packs!IsRequired, Packs!BodyKind
  <2>2. PackTaken' /\ PackApart' /\ PackCaps'
    BY <1>1, <1>3 DEF PackInv, PackTaken, PackApart, PackCaps, Packs!Overlaps, Packs!Same, Packs!IsRequired, Packs!BodyKind
  <2> QED BY <2>1, <2>2 DEF PackInv
<1>4. CASE /\ spans' = more /\ order' = Packs!Order(more) /\ next' = 1 /\ excluded' = {} /\ text' = header
           /\ stage' = "spans" /\ others_kept' = {}
  <2>1. RequiredFirst(more, Packs!Order(more))
    BY OrderIs
  <2>2. RequiredFirst(spans, order)'
    BY <2>1, <1>1, <1>4 DEF RequiredFirst, Packs!IsRequired, Packs!BodyKind
  <2>3. header \in Nat /\ Len(others) \in Nat /\ Len(order') \in Nat
    BY <1>4, <2>1, PackingIs DEF PackInv, PackTyped, RequiredFirst
  <2>4. kept' \in Seq(DOMAIN spans') /\ 1..Len(kept') = {} /\ others_kept' = {}
    BY <1>1, <1>4
  <2>5. PackTyped'
    BY <1>1, <1>4, <2>2, <2>3, <2>4 DEF PackInv, PackTyped
  <2>6. PackPlace'
    BY <1>1, <1>4, <2>3, <2>4 DEF PackPlace
  <2>7. PackTaken' /\ PackApart' /\ PackCaps'
    BY <1>4, <2>4 DEF PackTaken, PackApart, PackCaps
  <2> QED BY <2>5, <2>6, <2>7 DEF PackInv
<1> QED BY <1>2, <1>3, <1>4

\* The steps that take nothing.
LEMMA OtherPackSteps ==
  PackInv /\ (Packs!SpansDone \/ Packs!Packed \/ Packs!FinalCheck \/ Packs!TokenizerFails \/ UNCHANGED Packs!vars) => PackInv'
<1> SUFFICES ASSUME PackInv,
             Packs!SpansDone \/ Packs!Packed \/ Packs!FinalCheck \/ Packs!TokenizerFails \/ UNCHANGED Packs!vars
             PROVE PackInv'
  OBVIOUS
<1>1. UNCHANGED <<spans, others, required, header, strategy, order, kept, others_kept, excluded, text, raw>>
  BY DEF Packs!SpansDone, Packs!Packed, Packs!FinalCheck, Packs!TokenizerFails, Packs!vars, Packs!inputs
<1>2. \/ UNCHANGED <<stage, next>>
      \/ stage = "spans" /\ stage' = "others" /\ next' = 1
      \/ stage' \in {"packed", "asked", "refused"} /\ UNCHANGED next
  BY DEF Packs!SpansDone, Packs!Packed, Packs!FinalCheck, Packs!TokenizerFails, Packs!vars
<1>3. Len(order) \in Nat /\ Len(others) \in Nat
  BY PackingIs DEF PackInv, PackTyped, RequiredFirst
<1>4. PackTyped' /\ PackPlace'
  BY <1>1, <1>2, <1>3 DEF PackInv, PackTyped, PackPlace, RequiredFirst, Packs!IsRequired, Packs!BodyKind
<1>5. PackTaken'
  BY <1>1, <1>2 DEF PackInv, PackTaken
<1>6. PackApart' /\ PackCaps'
  BY <1>1 DEF PackInv, PackApart, PackCaps, Packs!Overlaps, Packs!Same, Packs!IsRequired, Packs!BodyKind
<1> QED BY <1>4, <1>5, <1>6 DEF PackInv

LEMMA PackStays == PackInv /\ [Packs!Next]_Packs!vars => PackInv'
BY TakeSpanStep, TakeOtherStep, BoostStep, OtherPackSteps DEF Packs!Next

-----------------------------------------------------------------------------
(* What the packet promises follows.                                       *)
LEMMA KeptAre == PackInv => Packs!Range(kept) = {kept[i] : i \in 1..Len(kept)} /\ Packs!Range(kept) \subseteq DOMAIN spans
BY DEF PackInv, PackTyped, Packs!Range

LEMMA PackTypes == PackInv => Packs!TypeOK
<1> SUFFICES ASSUME PackInv PROVE Packs!TypeOK
  OBVIOUS
<1>1. DOMAIN kept = 1..Len(kept) /\ Len(order) \in Nat /\ Len(others) \in Nat
  BY PackingIs DEF PackInv, PackTyped, RequiredFirst
<1>2. next \in 1..Len(order) + Len(others) + 1
  BY <1>1 DEF PackInv, PackTyped, PackPlace
<1>3. \A x \in excluded : x[1] \in DOMAIN spans /\ x[1] \notin Packs!Range(kept)
  BY KeptAre DEF PackInv, PackTaken
<1>4. \A i, j \in DOMAIN kept : i # j => kept[i] # kept[j]
  BY <1>1 DEF PackInv, PackTaken
<1>5. raw >= 0
  BY DEF PackInv, PackTyped
<1> QED BY <1>2, <1>3, <1>4, <1>5, KeptAre DEF PackInv, PackTyped, Packs!TypeOK

\* Spans that do not overlap have no byte in common.
LEMMA PackNoOverlap == PackInv => Packs!NoOverlap
<1> SUFFICES ASSUME PackInv, NEW i \in Packs!Range(kept), NEW j \in Packs!Range(kept), i # j,
                    NEW b \in Packs!Bytes({i}) \cap Packs!Bytes({j})
             PROVE  FALSE
  BY DEF Packs!NoOverlap
<1>1. PICK k \in 1..Len(kept), l \in 1..Len(kept) : i = kept[k] /\ j = kept[l]
  BY KeptAre
<1>2. ~Packs!Overlaps(spans[i], spans[j])
  BY <1>1 DEF PackInv, PackApart
<1>3. i \in DOMAIN spans /\ j \in DOMAIN spans /\ spans \in Loaded
  BY KeptAre DEF PackInv, PackTyped
<1>4. spans[i].from \in Nat /\ spans[i].to \in Nat /\ spans[j].from \in Nat /\ spans[j].to \in Nat
  BY <1>3, PackingIs
<1>5. PICK m \in spans[i].from .. spans[i].to - 1 : b = <<spans[i].file, m>>
  BY DEF Packs!Bytes
<1>6. PICK n \in spans[j].from .. spans[j].to - 1 : b = <<spans[j].file, n>>
  BY DEF Packs!Bytes
<1>7. spans[i].file = spans[j].file /\ m = n
  BY <1>5, <1>6
<1>9. \A p, q, x \in Nat : x \in p .. q - 1 => p <= x /\ x < q
  OBVIOUS
<1>10. m \in Nat
  BY <1>4
<1>8. ~(spans[i].to <= spans[j].from \/ spans[j].to <= spans[i].from)
  <2>1. spans[i].from <= m /\ m < spans[i].to
    BY <1>4, <1>9, <1>10
  <2>2. spans[j].from <= m /\ m < spans[j].to
    BY <1>4, <1>6, <1>7, <1>9, <1>10
  <2> QED BY <1>4, <1>10, <2>1, <2>2
<1> QED BY <1>2, <1>7, <1>8 DEF Packs!Overlaps

LEMMA PackWithinCaps == PackInv => Packs!OptionalWithinCaps
BY KeptAre DEF PackInv, PackCaps, Packs!OptionalWithinCaps, Packs!Optional

\* A symbol with a byte missing has a part missing, and then fewer parts are kept than were loaded.
LEMMA PackTells == PackInv => Packs!MissingIsTold
<1> SUFFICES ASSUME PackInv, NEW symbol \in required,
                    ~(Packs!Bytes(Packs!Parts(symbol, DOMAIN spans)) \subseteq Packs!Bytes(Packs!Range(kept)))
             PROVE  symbol \in Packs!Incomplete
  BY DEF Packs!MissingIsTold
<1> DEFINE here == Packs!Parts(symbol, Packs!Range(kept))
           there == Packs!Parts(symbol, DOMAIN spans)
<1>1. here \subseteq there
  BY KeptAre DEF Packs!Parts
<1>2. here # there
  <2> SUFFICES ASSUME here = there PROVE FALSE
    OBVIOUS
  <2>1. \A i \in there : i \in Packs!Range(kept)
    BY DEF Packs!Parts
  <2> HIDE DEF here, there
  <2>2. Packs!Bytes(there) \subseteq Packs!Bytes(Packs!Range(kept))
    BY <2>1 DEF Packs!Bytes
  <2> QED BY <2>2 DEF there
<1>3. IsFiniteSet(there)
  <2>1. PICK n \in Nat : DOMAIN spans = 1..n
    BY PackingIs DEF PackInv, PackTyped
  <2>2. IsFiniteSet(1..n)
    BY FS_Interval
  <2>3. there \subseteq 1..n
    BY <2>1 DEF Packs!Parts
  <2> HIDE DEF there
  <2> QED BY <2>2, <2>3, FS_Subset
<1>4. Cardinality(here) < Cardinality(there)
  <2> HIDE DEF here, there
  <2>1. Cardinality(here) <= Cardinality(there) /\ (Cardinality(here) = Cardinality(there) => here = there)
        /\ IsFiniteSet(here)
    BY <1>1, <1>3, FS_Subset
  <2>2. Cardinality(here) \in Nat /\ Cardinality(there) \in Nat
    BY <2>1, <1>3, FS_CardinalityType
  <2> QED BY <1>2, <2>1, <2>2
<1>5. there # {}
  BY <1>1, <1>2
<1>6. \A S : Packs!Cardinality(S) = Cardinality(S)
  BY DEF Packs!Cardinality, Cardinality
<1>7. Packs!PartsMissing(symbol)
  BY <1>4, <1>6 DEF Packs!PartsMissing
<1> QED BY <1>5, <1>7 DEF Packs!Incomplete

\* Where a required part finds no room, all that was taken is before it in the order, so required as well.
LEMMA PackDisplaces == PackInv /\ [Packs!Next]_Packs!vars => Packs!NeverDisplaced
<1> SUFFICES ASSUME PackInv, [Packs!Next]_Packs!vars,
                    NEW i \in DOMAIN spans, <<i, "context">> \in excluded' \ excluded, Packs!IsRequired(spans[i]),
                    NEW k \in Packs!Range(kept)
             PROVE  Packs!IsRequired(spans[k])
  BY DEF Packs!NeverDisplaced
<1>1. Packs!TakeSpan
  BY DEF Packs!Next, Packs!SpansDone, Packs!TakeOther, Packs!Boost, Packs!Packed, Packs!FinalCheck,
     Packs!TokenizerFails, Packs!vars, Packs!inputs
<1>2. stage = "spans" /\ next <= Len(order) /\ \E reason : excluded' = excluded \cup {<<order[next], reason>>}
  BY <1>1 DEF Packs!TakeSpan, Packs!Keep, Packs!LeaveOut
<1>3. i = order[next]
  BY <1>2
<1>4. PICK a \in 1..Len(kept) : k = kept[a]
  BY KeptAre
<1>5. PICK j \in 1..next - 1 : k = order[j]
  BY <1>2, <1>4 DEF PackInv, PackTaken
<1>6. Len(order) \in Nat /\ next \in Nat \ {0} /\ RequiredFirst(spans, order)
  BY DEF PackInv, PackTyped, RequiredFirst
<1>7. j \in 1..Len(order) /\ next \in 1..Len(order) /\ j < next
  BY <1>2, <1>5, <1>6
<1> QED BY <1>3, <1>5, <1>6, <1>7 DEF RequiredFirst

\* What pack_counter lets in fits by the count of the tokenizer, or by bytes with the margin.
LEMMA CountHolds ==
  ASSUME PackInv, NEW n \in Nat, Packs!InContext(n)
  PROVE  Output + (IF up /\ strategy = "tiktoken" THEN Packs!ByTokenizer(n)
                   ELSE IF up /\ strategy = "qwen" THEN Packs!ByTokenizer(n) + Margin
                   ELSE Packs!ByBytes(n) + Margin) <= Context
<1>1. strategy \in {"tiktoken", "qwen", "bytes"} /\ Output \in Nat /\ Margin \in Nat /\ Context \in Nat
  BY PackingIs DEF PackInv, PackTyped
<1>2. Packs!ByBytes(n) \in Nat /\ Packs!ByTokenizer(n) \in Nat
  BY DEF Packs!ByBytes, Packs!ByTokenizer
<1>3. Packs!Count(n) + Output + Packs!ResolvedMargin <= Context
  BY DEF Packs!InContext
<1>4. CASE up /\ strategy = "tiktoken"
  BY <1>1, <1>2, <1>3, <1>4 DEF Packs!Count, Packs!ResolvedMargin, Packs!Exact
<1>5. CASE up /\ strategy = "qwen"
  BY <1>1, <1>2, <1>3, <1>5 DEF Packs!Count, Packs!ResolvedMargin, Packs!Exact
<1>6. CASE ~up \/ strategy = "bytes"
  <2>1. Packs!Count(n) = Packs!ByBytes(n) + (Margin - Packs!ResolvedMargin)
    BY <1>6 DEF Packs!Count, Packs!Exact
  <2>2. Packs!ResolvedMargin \in Nat
    BY <1>1 DEF Packs!ResolvedMargin
  <2>3. Output + (Packs!ByBytes(n) + Margin) <= Context
    BY <1>1, <1>2, <1>3, <2>1, <2>2
  <2> QED BY <1>1, <1>6, <2>3
<1> QED BY <1>1, <1>4, <1>5, <1>6

LEMMA PackCounts == PackInv /\ [Packs!Next]_Packs!vars => Packs!CountedFits
<1> SUFFICES ASSUME PackInv, [Packs!Next]_Packs!vars, text' > text
             PROVE  Packs!InContext(text') /\ text' \in Nat
  BY CountHolds DEF Packs!CountedFits
<1>1. text' \in Nat /\ text \in Nat /\ text >= header /\ header \in Nat
  BY PackStays, PackingIs DEF PackInv, PackTyped
<1>2. Packs!TakeSpan \/ Packs!TakeOther
  BY <1>1 DEF Packs!Next, Packs!SpansDone, Packs!Boost, Packs!Packed, Packs!FinalCheck,
     Packs!TokenizerFails, Packs!vars, Packs!inputs
<1>3. Packs!InContext(text')
  BY <1>1, <1>2 DEF Packs!TakeSpan, Packs!TakeOther, Packs!Keep, Packs!LeaveOut, Packs!Fits
<1> QED BY <1>1, <1>3

\* packet.py, answer.py and prompt_budget.py: for any spans, sizes, budgets and limits, no byte is in the packet
\* twice, what is optional stays within its caps and never takes the room of what is required, what is missing
\* is told, and all that is taken fits the context however it is counted.
THEOREM PacketsFit ==
  Packs!Spec =>
    /\ [](Packs!TypeOK /\ Packs!NoOverlap /\ Packs!OptionalWithinCaps /\ Packs!MissingIsTold)
    /\ [][Packs!NeverDisplaced /\ Packs!CountedFits]_Packs!vars
<1>1. PackInv => Packs!TypeOK /\ Packs!NoOverlap /\ Packs!OptionalWithinCaps /\ Packs!MissingIsTold
  BY PackTypes, PackNoOverlap, PackWithinCaps, PackTells
<1>2. PackInv /\ [Packs!Next]_Packs!vars => [Packs!NeverDisplaced /\ Packs!CountedFits]_Packs!vars
  BY PackDisplaces, PackCounts
<1> QED BY PackInit, PackStays, <1>1, <1>2, PTL DEF Packs!Spec

-----------------------------------------------------------------------------
(* Each runs by its own specification, whatever runs beside it.            *)

\* Concurrent questions of any number, for any bodies the index left out (answer.py, lazy_vectors.py):
\* a row marked ready has its vector, and what a question hydrated its own search reads.
THEOREM BodiesAreKept == SharedSpec => []BodiesAreThere
<1>1. Asked!Spec => [](Asked!TypeOK /\ Asked!BodiesAreThere)
  BY SharedAssumption, BodiesStay
<1>2. SharedInit => (part = "questions" => Asked!Init)
  BY DEF SharedInit
<1>3. part = "questions" /\ [SharedNext]_sharedVars => (part = "questions")' /\ [Asked!Next]_Asked!vars
  BY DEF SharedNext, LimitStep, QuestionStep, LogStep, TurnStep, BridgeStep, PackStep, sharedVars, questionVars, Asked!vars
<1>4. ~(part = "questions") /\ [SharedNext]_sharedVars => (~(part = "questions"))'
  BY DEF SharedNext, LimitStep, QuestionStep, LogStep, TurnStep, BridgeStep, PackStep, sharedVars
<1>5. part = "questions" /\ Asked!TypeOK /\ Asked!BodiesAreThere => BodiesAreThere
  BY DEF BodiesAreThere
<1>6. ~(part = "questions") => BodiesAreThere
  BY DEF BodiesAreThere
<1> QED
  BY <1>1, <1>2, <1>3, <1>4, <1>5, <1>6, PTL DEF SharedSpec, Asked!Spec

\* Any readers and loggers of a ring of any size (core/log_buffer.py): an answer is the newest entries
\* that match its query, as many as it asked for, in the order they were logged.
THEOREM NewestAreGiven == SharedSpec => []NewestInOrder
<1>1. Logged!Spec => [](Logged!TypeOK /\ Logged!NewestMatching)
  BY SharedAssumption, NewestStay
<1>2. SharedInit => (part = "log" => Logged!Init)
  BY DEF SharedInit
<1>3. part = "log" /\ [SharedNext]_sharedVars => (part = "log")' /\ [Logged!Next]_Logged!vars
  BY DEF SharedNext, LimitStep, QuestionStep, LogStep, TurnStep, BridgeStep, PackStep, sharedVars, logVars, Logged!vars
<1>4. ~(part = "log") /\ [SharedNext]_sharedVars => (~(part = "log"))'
  BY DEF SharedNext, LimitStep, QuestionStep, LogStep, TurnStep, BridgeStep, PackStep, sharedVars
<1>5. part = "log" /\ Logged!TypeOK /\ Logged!NewestMatching => NewestInOrder
  BY DEF NewestInOrder
<1>6. ~(part = "log") => NewestInOrder
  BY DEF NewestInOrder
<1> QED
  BY <1>1, <1>2, <1>3, <1>4, <1>5, <1>6, PTL DEF SharedSpec, Logged!Spec

\* Any replies, any limit of claims, any number of rounds (answer_turn.py, model_call.py): calls are
\* bounded, citations are called valid only when they are, a first reply that cites is not wasted.
THEOREM ClaimsStayHonest == SharedSpec => []ClaimsAreHonest
<1>1. Turned!Spec => [](Turned!TypeOK /\ Turned!CallsBounded /\ Turned!HonestCitations /\ Turned!FirstKept)
  BY SharedAssumption, TurnsStay
<1>2. SharedInit => (part = "turns" => Turned!Init)
  BY DEF SharedInit
<1>3. part = "turns" /\ [SharedNext]_sharedVars => (part = "turns")' /\ [Turned!Next]_Turned!vars
  BY DEF SharedNext, LimitStep, QuestionStep, LogStep, TurnStep, BridgeStep, PackStep, sharedVars, turnVars, Turned!vars
<1>4. ~(part = "turns") /\ [SharedNext]_sharedVars => (~(part = "turns"))'
  BY DEF SharedNext, LimitStep, QuestionStep, LogStep, TurnStep, BridgeStep, PackStep, sharedVars
<1>5. part = "turns" /\ Turned!TypeOK /\ Turned!CallsBounded /\ Turned!HonestCitations /\ Turned!FirstKept
      => ClaimsAreHonest
  BY DEF ClaimsAreHonest
<1>6. ~(part = "turns") => ClaimsAreHonest
  BY DEF ClaimsAreHonest
<1> QED
  BY <1>1, <1>2, <1>3, <1>4, <1>5, <1>6, PTL DEF SharedSpec, Turned!Spec

\* Any calls of the Cursor bridge and any number of its slots (cursor_bridge.py, cli_runner.py): a slot that is
\* taken comes back once, and no more CLIs run than there are slots.
THEOREM SlotsStayWhole == SharedSpec => []SlotsAreBack
<1>1. Bridged!Spec => [](Bridged!TypeOK /\ Bridged!SlotsConserved /\ Bridged!AtMostSlots)
  BY SlotsComeBack
<1>2. SharedInit => (part = "bridge" => Bridged!Init)
  BY DEF SharedInit
<1>3. part = "bridge" /\ [SharedNext]_sharedVars => (part = "bridge")' /\ [Bridged!Next]_Bridged!vars
  BY DEF SharedNext, LimitStep, QuestionStep, LogStep, TurnStep, BridgeStep, PackStep, sharedVars, bridgeVars, Bridged!vars
<1>4. ~(part = "bridge") /\ [SharedNext]_sharedVars => (~(part = "bridge"))'
  BY DEF SharedNext, LimitStep, QuestionStep, LogStep, TurnStep, BridgeStep, PackStep, sharedVars
<1>5. part = "bridge" /\ Bridged!TypeOK /\ Bridged!SlotsConserved /\ Bridged!AtMostSlots => SlotsAreBack
  BY DEF SlotsAreBack
<1>6. ~(part = "bridge") => SlotsAreBack
  BY DEF SlotsAreBack
<1> QED
  BY <1>1, <1>2, <1>3, <1>4, <1>5, <1>6, PTL DEF SharedSpec, Bridged!Spec

\* Any spans, sizes, wanted symbols, budgets and limits (packet.py, answer.py, prompt_budget.py): the packet
\* holds no byte twice, keeps room for what is required, tells what is missing and fits the context.
THEOREM PacketsStayFit == SharedSpec => PacketFits
<1>1. SharedInit => (part = "pack" => PackInv)
  BY PackInit DEF SharedInit
<1>2. part = "pack" /\ [SharedNext]_sharedVars => (part = "pack")' /\ [Packs!Next]_Packs!vars
  BY DEF SharedNext, LimitStep, QuestionStep, LogStep, TurnStep, BridgeStep, PackStep, sharedVars, packVars, Packs!vars, Packs!inputs
<1>3. ~(part = "pack") /\ [SharedNext]_sharedVars => (~(part = "pack"))'
  BY DEF SharedNext, LimitStep, QuestionStep, LogStep, TurnStep, BridgeStep, PackStep, sharedVars
<1>4. (part = "pack" => PackInv) /\ [SharedNext]_sharedVars => (part = "pack" => PackInv)'
  BY <1>2, <1>3, PackStays
<1>5. (part = "pack" => PackInv)
      => (part = "pack" => Packs!TypeOK /\ Packs!NoOverlap /\ Packs!OptionalWithinCaps /\ Packs!MissingIsTold)
  BY PackTypes, PackNoOverlap, PackWithinCaps, PackTells
<1>6. (part = "pack" => PackInv) /\ [SharedNext]_sharedVars
      => [part = "pack" => Packs!NeverDisplaced /\ Packs!CountedFits]_sharedVars
  BY <1>2, PackDisplaces, PackCounts
<1> QED
  BY <1>1, <1>4, <1>5, <1>6, PTL DEF SharedSpec, PacketFits
=============================================================================
