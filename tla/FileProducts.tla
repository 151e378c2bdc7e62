----------------------------- MODULE FileProducts -----------------------------
(***************************************************************************)
(* The files of a commit turned into products by a pool of processes, and  *)
(* the parse cache that lets a stopped index go on: _file_products and     *)
(* ParseCache.  A blob stands for its product: path, bytes and embedding   *)
(* fingerprint decide it.  The cache of a repository is shared by all who  *)
(* index it; a file being written has an inode that a second opening of    *)
(* the same temporary name truncates, and that a rename carries along.     *)
(***************************************************************************)
EXTENDS Integers, Sequences, FiniteSets, Functions

CONSTANTS Builders,
          Blobs,      \* of a builder: its included blobs, by path
          Bytes,      \* what is in a blob: the same bytes may be at two paths
          Serial,     \* the builders with one worker
          Window,     \* count * 2
          Kept,       \* what the cache may hold at the start
          Inodes,     \* bound: files a cache entry has had
          MaxCrashes,
          MaxFailures \* bound: files whose parse fails

\* A builder's files are a list; a stopped index leaves whole products of older versions at most.
ProductsAssumption ==
  /\ \A b \in Builders : Blobs[b] \in Seq(Range(Blobs[b]) \ {"none"})
  /\ Kept \subseteq {"none", "partial", "obsolete", "legacy"}
  /\ 1 \in Inodes /\ 0 \notin Inodes /\ Window \in Nat

VARIABLES phase, products, cursor, missing, pending, finished, done, writing, cached, temporary, content, crashes, failures
vars == <<phase, products, cursor, missing, pending, finished, done, writing, cached, temporary, content, crashes, failures>>

Unset == "none"
Files(b) == DOMAIN Blobs[b]
BytesOnly(blob) == Bytes[blob]   \* mutant: path and fingerprint are left out of the name
Key(blob) == blob
Keys == {Key(blob) : blob \in UNION {Range(Blobs[b]) : b \in Builders}}
NotWriting == [index |-> 0, inode |-> 0, step |-> Unset, of |-> Unset]

Init ==
  /\ phase = [b \in Builders |-> "load"] /\ cursor = [b \in Builders |-> 1]
  /\ products = [b \in Builders |-> [i \in Files(b) |-> Unset]]
  /\ missing = [b \in Builders |-> <<>>] /\ pending = [b \in Builders |-> {}] /\ finished = [b \in Builders |-> {}]
  /\ done = [b \in Builders |-> {}]
  /\ writing = [b \in Builders |-> NotWriting]
  /\ \E old \in Kept : content = [k \in Keys |-> [n \in Inodes |-> IF n = 1 THEN old ELSE Unset]]
  /\ cached = [k \in Keys |-> IF content[k][1] = Unset THEN 0 ELSE 1]
  /\ temporary = [k \in Keys |-> 0]
  /\ crashes = 0 /\ failures = 0

Idle(b) == writing[b].step = Unset
At(b) == Key(Blobs[b][cursor[b]])

(***************************************************************************)
(* ParseCache.load and _normalize_cached_file_product: a whole product, an *)
(* older one that is upgraded and stored again, or nothing of use.         *)
(***************************************************************************)
Read(k) == IF cached[k] = 0 THEN Unset ELSE content[k][cached[k]]
Useful(found) == found \notin {Unset, "partial", "obsolete"}
Load(b) ==
  /\ phase[b] = "load" /\ b \notin Serial /\ Idle(b) /\ cursor[b] <= Len(Blobs[b])
  /\ LET found == Read(At(b))
         blob  == Blobs[b][cursor[b]]
     IN  IF ~Useful(found)
         THEN /\ missing' = [missing EXCEPT ![b] = Append(@, cursor[b])] /\ UNCHANGED <<products, writing>>
         ELSE /\ products' = [products EXCEPT ![b][cursor[b]] = IF found = "legacy" THEN blob ELSE found]
              /\ writing' = IF found = "legacy"
                            THEN [writing EXCEPT ![b] = [index |-> cursor[b], inode |-> 0, step |-> "open", of |-> blob]]
                            ELSE writing
              /\ UNCHANGED missing
  /\ cursor' = [cursor EXCEPT ![b] = @ + 1]
  /\ UNCHANGED <<phase, pending, finished, done, cached, temporary, content, crashes, failures>>
Loaded(b) ==
  /\ phase[b] = "load" /\ b \notin Serial /\ Idle(b) /\ cursor[b] > Len(Blobs[b])
  /\ phase' = [phase EXCEPT ![b] = IF missing[b] = <<>> THEN "done" ELSE "pool"]
  /\ cursor' = [cursor EXCEPT ![b] = 1]
  /\ UNCHANGED <<products, missing, pending, finished, done, writing, cached, temporary, content, crashes, failures>>

\* One worker: each file in turn, without the cache.
BuildNext(b) ==
  /\ phase[b] = "load" /\ b \in Serial
  /\ IF cursor[b] > Len(Blobs[b])
     THEN /\ phase' = [phase EXCEPT ![b] = "done"] /\ UNCHANGED <<products, cursor>>
     ELSE /\ products' = [products EXCEPT ![b][cursor[b]] = Blobs[b][cursor[b]]]
          /\ cursor' = [cursor EXCEPT ![b] = @ + 1] /\ UNCHANGED phase
  /\ UNCHANGED <<missing, pending, finished, done, writing, cached, temporary, content, crashes, failures>>

(***************************************************************************)
(* The pool: at most Window files are out, and they come back in any order.*)
(***************************************************************************)
Submit(b) ==
  /\ phase[b] = "pool" /\ Idle(b) /\ done[b] = {} /\ cursor[b] <= Len(missing[b]) /\ Cardinality(pending[b]) < Window
  /\ pending' = [pending EXCEPT ![b] = @ \union {missing[b][cursor[b]]}]
  /\ cursor' = [cursor EXCEPT ![b] = @ + 1]
  /\ UNCHANGED <<phase, products, missing, finished, done, writing, cached, temporary, content, crashes, failures>>
Parse(b) ==
  /\ \E i \in pending[b] \ finished[b] : finished' = [finished EXCEPT ![b] = @ \union {i}]
  /\ UNCHANGED <<phase, products, cursor, missing, pending, done, writing, cached, temporary, content, crashes, failures>>
\* The builder waits only when it can submit no more, and then takes all that have come back.
Never(b) ==   \* mutant: it waits for the window to fill
  /\ phase[b] = "pool" /\ Idle(b) /\ done[b] = {} /\ finished[b] # {} /\ Cardinality(pending[b]) >= Window
  /\ done' = [done EXCEPT ![b] = finished[b]]
  /\ UNCHANGED <<phase, products, cursor, missing, pending, finished, writing, cached, temporary, content, crashes, failures>>
Wait(b) ==
  /\ phase[b] = "pool" /\ Idle(b) /\ done[b] = {} /\ finished[b] # {}
  /\ cursor[b] > Len(missing[b]) \/ Cardinality(pending[b]) >= Window
  /\ done' = [done EXCEPT ![b] = finished[b]]
  /\ UNCHANGED <<phase, products, cursor, missing, pending, finished, writing, cached, temporary, content, crashes, failures>>
Slot(b, i) == i
Collect(b) ==
  /\ phase[b] = "pool" /\ Idle(b)
  /\ \E i \in done[b] :
       /\ pending' = [pending EXCEPT ![b] = @ \ {i}] /\ finished' = [finished EXCEPT ![b] = @ \ {i}]
       /\ done' = [done EXCEPT ![b] = @ \ {i}]
       /\ products' = [products EXCEPT ![b][Slot(b, i)] = Blobs[b][i]]
       /\ writing' = [writing EXCEPT ![b] = [index |-> i, inode |-> 0, step |-> "open", of |-> Blobs[b][i]]]
  /\ UNCHANGED <<phase, cursor, missing, cached, temporary, content, crashes, failures>>
\* future.result() raises what the parse raised, and the build fails.
Fail(b) ==
  /\ phase[b] = "pool" /\ Idle(b) /\ done[b] # {} /\ failures < MaxFailures
  /\ failures' = failures + 1 /\ phase' = [phase EXCEPT ![b] = "failed"]
  /\ pending' = [pending EXCEPT ![b] = {}] /\ finished' = [finished EXCEPT ![b] = {}]
  /\ done' = [done EXCEPT ![b] = {}]
  /\ UNCHANGED <<products, cursor, missing, writing, cached, temporary, content, crashes>>
Finish(b) ==
  /\ phase[b] = "pool" /\ Idle(b) /\ cursor[b] > Len(missing[b]) /\ pending[b] = {}
  /\ phase' = [phase EXCEPT ![b] = "done"]
  /\ UNCHANGED <<products, cursor, missing, pending, finished, done, writing, cached, temporary, content, crashes, failures>>

(***************************************************************************)
(* ParseCache.store: open the temporary name, write, rename.               *)
(***************************************************************************)
Now(b) == Key(writing[b].of)
Free(k) == {n \in Inodes : content[k][n] = Unset \/ (n # cached[k] /\ \A b \in Builders : writing[b].inode # n)}
Fresh(k) == CHOOSE n \in Free(k) : TRUE
Open(b) ==
  /\ writing[b].step = "open" /\ (temporary[Now(b)] # 0 \/ Free(Now(b)) # {})
  /\ LET n == IF temporary[Now(b)] # 0 THEN temporary[Now(b)] ELSE Fresh(Now(b))
     IN  /\ temporary' = [temporary EXCEPT ![Now(b)] = n]
         /\ content' = [content EXCEPT ![Now(b)][n] = "partial"]
         /\ writing' = [writing EXCEPT ![b].inode = n, ![b].step = "write"]
  /\ UNCHANGED <<phase, products, cursor, missing, pending, finished, done, cached, crashes, failures>>
Write(b) ==
  /\ writing[b].step = "write"
  /\ content' = [content EXCEPT ![Now(b)][writing[b].inode] = writing[b].of]
  /\ writing' = [writing EXCEPT ![b].step = "rename"]
  /\ UNCHANGED <<phase, products, cursor, missing, pending, finished, done, cached, temporary, crashes, failures>>
\* The name may be gone: then the store gives up, and the product stays where the other put it.
Rename(b) ==
  /\ writing[b].step = "rename"
  /\ IF temporary[Now(b)] = 0 THEN UNCHANGED <<cached, temporary>>
     ELSE /\ cached' = [cached EXCEPT ![Now(b)] = temporary[Now(b)]]
          /\ temporary' = [temporary EXCEPT ![Now(b)] = 0]
  /\ writing' = [writing EXCEPT ![b] = NotWriting]
  /\ UNCHANGED <<phase, products, cursor, missing, pending, finished, done, content, crashes, failures>>

\* The process dies anywhere, and the index is started again from what the cache holds.
Crash(b) ==
  /\ phase[b] \in {"load", "pool"} /\ crashes < MaxCrashes /\ crashes' = crashes + 1
  /\ phase' = [phase EXCEPT ![b] = "load"] /\ cursor' = [cursor EXCEPT ![b] = 1]
  /\ products' = [products EXCEPT ![b] = [i \in Files(b) |-> Unset]]
  /\ missing' = [missing EXCEPT ![b] = <<>>] /\ pending' = [pending EXCEPT ![b] = {}]
  /\ finished' = [finished EXCEPT ![b] = {}] /\ done' = [done EXCEPT ![b] = {}] /\ writing' = [writing EXCEPT ![b] = NotWriting]
  /\ UNCHANGED <<cached, temporary, content, failures>>

Work(b) == Load(b) \/ Loaded(b) \/ BuildNext(b) \/ Submit(b) \/ Wait(b) \/ Collect(b) \/ Finish(b) \/ Open(b) \/ Write(b) \/ Rename(b)
Next == \E b \in Builders : Work(b) \/ Parse(b) \/ Fail(b) \/ Crash(b)
Spec == Init /\ [][Next]_vars
FairSpec == Spec /\ \A b \in Builders : WF_vars(Work(b)) /\ WF_vars(Parse(b))

-----------------------------------------------------------------------------
TypeOK ==
  /\ \A b \in Builders : done[b] \subseteq finished[b] /\ finished[b] \subseteq pending[b] /\ pending[b] \subseteq Files(b)
  /\ \A b \in Builders : phase[b] # "pool" => pending[b] = {}
  /\ \A b \in Builders : cursor[b] \in 1 .. Len(Blobs[b]) + 1 /\ Cardinality(pending[b]) <= Window
  /\ \A k \in Keys : cached[k] # 0 => content[k][cached[k]] # Unset

\* Every file of a finished draft has the product of its own bytes under its own path and
\* fingerprint: whoever parsed it, in whatever order the pool returned it, whichever cache entry
\* it came from and however often the index was stopped.
OwnProducts == \A b \in Builders : phase[b] = "done" => \A i \in Files(b) : products[b][i] = Blobs[b][i]

\* What the cache gives for a file is never the product of another.
CacheIsSound ==
  \A b \in Builders : \A i \in Files(b) :
    Read(Key(Blobs[b][i])) \in {Unset, "partial", "obsolete", "legacy", Blobs[b][i]}

\* An index that is not stopped for ever, and none of whose files fails, has all its products at last.
Finishes == \A b \in Builders : <>(phase[b] \in {"done", "failed"})

=============================================================================
