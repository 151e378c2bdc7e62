----------------------------- MODULE ReuseProofs -----------------------------
(***************************************************************************)
(* Theorems about what builds decide once and use again: the products of   *)
(* files in the parse cache (FileProducts), the vectors of a build         *)
(* (Embedding), the ids of it all (Identity), the files of a commit        *)
(* (Inclusion), the links between files (Routes) and stored names (Names), *)
(* each for every value of its constants.                                  *)
(***************************************************************************)
EXTENDS Reuse, Sequences, FiniteSetTheorems, SequenceTheorems, WellFoundedInduction, TLAPS

-----------------------------------------------------------------------------
(* The products of files and the parse cache, for any builders, any blobs  *)
(* and any window.                                                         *)

\* What the cache holds under a key: an older version, a torn file, or the key's own product; a name
\* that is there has a file.
CacheInv ==
  /\ DOMAIN content = Cached!Keys /\ \A k \in Cached!Keys : DOMAIN content[k] = Inodes
  /\ cached \in [Cached!Keys -> Inodes \cup {0}] /\ temporary \in [Cached!Keys -> Inodes \cup {0}]
  /\ \A k \in Cached!Keys : \A n \in Inodes : content[k][n] \in {"none", "partial", "obsolete", "legacy", k}
  /\ \A k \in Cached!Keys : /\ cached[k] # 0 => content[k][cached[k]] # "none"
                            /\ temporary[k] # 0 => content[k][temporary[k]] # "none"

\* What a builder has of its files: those it has read are products or on the list of the missing,
\* and the missing are products, in the pool, or to be submitted.
Has(b, i) == products[b][i] = BlobsOf[b][i]
Awaited(b, i, from) == \E j \in from .. Len(missing[b]) : missing[b][j] = i
Gathered(b) ==
  \A i \in 1 .. Len(BlobsOf[b]) :
    /\ phase[b] = "load" /\ i < cursor[b] => Has(b, i) \/ (b \notin Serial /\ Awaited(b, i, 1))
    /\ phase[b] = "pool" => Has(b, i) \/ i \in pending[b] \/ Awaited(b, i, cursor[b])
    /\ phase[b] = "done" => Has(b, i)

\* And the order of its lists: what is done is finished, what is finished was submitted.
Ordered(b) ==
  /\ phase[b] \in {"load", "pool", "done", "failed"}
  /\ cursor[b] \in 1 .. Len(BlobsOf[b]) + 1
  /\ DOMAIN products[b] = 1 .. Len(BlobsOf[b])
  /\ missing[b] \in Seq(1 .. Len(BlobsOf[b])) /\ Len(missing[b]) <= Len(BlobsOf[b])
  /\ phase[b] = "load" => Len(missing[b]) < cursor[b]
  /\ done[b] \subseteq finished[b] /\ finished[b] \subseteq pending[b] /\ pending[b] \subseteq 1 .. Len(BlobsOf[b])
  /\ phase[b] # "pool" => pending[b] = {}
  /\ IsFiniteSet(pending[b]) /\ Cardinality(pending[b]) <= Window

PoolDomains ==
  /\ DOMAIN phase = Builders /\ DOMAIN cursor = Builders /\ DOMAIN products = Builders /\ DOMAIN missing = Builders
  /\ DOMAIN pending = Builders /\ DOMAIN finished = Builders /\ DOMAIN done = Builders

PoolInv == PoolDomains /\ \A b \in Builders : Ordered(b) /\ Gathered(b)
ProductsInv == CacheInv /\ PoolInv

LEMMA BlobsAreLists ==
  ASSUME Cached!ProductsAssumption, NEW b \in Builders
  PROVE  /\ Cached!Files(b) = 1 .. Len(BlobsOf[b]) /\ Len(BlobsOf[b]) \in Nat
         /\ \A i \in 1 .. Len(BlobsOf[b]) : BlobsOf[b][i] \in Cached!Keys /\ BlobsOf[b][i] # "none"
<1>1. BlobsOf[b] \in Seq(Cached!Range(BlobsOf[b]) \ {"none"})
  BY DEF Cached!ProductsAssumption
<1>2. \A i \in 1 .. Len(BlobsOf[b]) : BlobsOf[b][i] \in Cached!Range(BlobsOf[b]) /\ BlobsOf[b][i] # "none"
  BY <1>1 DEF Cached!Range
<1>3. \A x \in Cached!Range(BlobsOf[b]) : x \in Cached!Keys
  BY DEF Cached!Keys, Cached!Key
<1> QED
  BY <1>1, <1>2, <1>3 DEF Cached!Files

LEMMA KeysAreBlobs ==
  ASSUME Cached!ProductsAssumption, NEW k \in Cached!Keys
  PROVE  k # "none"
<1>1. PICK b \in Builders : k \in Cached!Range(BlobsOf[b])
  BY DEF Cached!Keys, Cached!Key
<1>2. BlobsOf[b] \in Seq(Cached!Range(BlobsOf[b]) \ {"none"})
  BY DEF Cached!ProductsAssumption
<1>3. PICK i \in DOMAIN BlobsOf[b] : BlobsOf[b][i] = k
  BY <1>1 DEF Cached!Range
<1> QED
  BY <1>2, <1>3

LEMMA SizesAgree == ASSUME NEW Some PROVE Cached!Cardinality(Some) = Cardinality(Some)
BY DEF Cached!Cardinality, Cardinality

LEMMA ProductsInit == Cached!ProductsAssumption /\ Cached!Init => ProductsInv
<1> SUFFICES ASSUME Cached!ProductsAssumption, Cached!Init PROVE ProductsInv
  OBVIOUS
<1>1. CacheInv
  <2>1. PICK old \in Kept : content = [k \in Cached!Keys |-> [n \in Inodes |-> IF n = 1 THEN old ELSE "none"]]
    BY DEF Cached!Init, Cached!Unset
  <2>2. /\ cached = [k \in Cached!Keys |-> IF content[k][1] = "none" THEN 0 ELSE 1]
        /\ temporary = [k \in Cached!Keys |-> 0]
    BY DEF Cached!Init, Cached!Unset
  <2>3. old \in {"none", "partial", "obsolete", "legacy"} /\ 1 \in Inodes
    BY DEF Cached!ProductsAssumption
  <2> QED
    BY <2>1, <2>2, <2>3 DEF CacheInv
<1>2. PoolDomains
  BY DEF Cached!Init, PoolDomains
<1>3. ASSUME NEW b \in Builders PROVE Ordered(b) /\ Gathered(b)
  <2>1. phase[b] = "load" /\ cursor[b] = 1 /\ DOMAIN products[b] = 1 .. Len(BlobsOf[b]) /\ missing[b] = <<>>
        /\ pending[b] = {} /\ finished[b] = {} /\ done[b] = {}
    BY BlobsAreLists DEF Cached!Init
  <2>2. IsFiniteSet(pending[b]) /\ Cardinality(pending[b]) <= Window
    BY <2>1, FS_EmptySet DEF Cached!ProductsAssumption
  <2>3. Len(missing[b]) = 0 /\ missing[b] \in Seq(1 .. Len(BlobsOf[b]))
    BY <2>1
  <2> QED
    BY <2>1, <2>2, <2>3, BlobsAreLists DEF Ordered, Gathered
<1> QED
  BY <1>1, <1>2, <1>3 DEF ProductsInv, PoolInv

\* ParseCache.store: whichever of two writers renames, the file holds what its name says.
LEMMA StoreSteps ==
  ASSUME Cached!ProductsAssumption, ProductsInv, NEW b \in Builders,
         Cached!Open(b) \/ Cached!Write(b) \/ Cached!Rename(b)
  PROVE  ProductsInv'
<1>1. PoolInv'
  <2>1. UNCHANGED <<phase, cursor, products, missing, pending, finished, done>>
    BY DEF Cached!Open, Cached!Write, Cached!Rename
  <2>2. PoolInv
    BY DEF ProductsInv
  <2> QED
    BY <2>1, <2>2 DEF PoolInv, PoolDomains, Ordered, Gathered, Has, Awaited
<1>2. CASE Cached!Open(b)
  <2> DEFINE k == Cached!Now(b)
             n == IF temporary[k] # 0 THEN temporary[k] ELSE Cached!Fresh(k)
  <2>1. /\ temporary' = [temporary EXCEPT ![k] = n] /\ cached' = cached
        /\ content' = [content EXCEPT ![k][n] = "partial"]
        /\ temporary[k] # 0 \/ Cached!Free(k) # {}
    BY <1>2 DEF Cached!Open
  <2>2. k \in Cached!Keys => n \in Inodes
    BY <2>1 DEF Cached!Fresh, Cached!Free, ProductsInv, CacheInv
  <2> HIDE DEF k, n
  <2>3. CASE k \notin Cached!Keys
    <3>1. /\ UNCHANGED <<cached, temporary>> /\ DOMAIN content' = Cached!Keys
          /\ \A h \in Cached!Keys : content'[h] = content[h]
      BY <2>1, <2>3 DEF ProductsInv, CacheInv
    <3> QED
      BY <1>1, <3>1, SMTT(30) DEF ProductsInv, CacheInv, Cached!Keys
  <2>4. CASE k \in Cached!Keys
    <3>1. n \in Inodes /\ n # 0 /\ 0 \notin Inodes
      BY <2>2, <2>4 DEF Cached!ProductsAssumption
    <3>2. \A h \in Cached!Keys : \A m \in Inodes :
            content'[h][m] = IF h = k /\ m = n THEN "partial" ELSE content[h][m]
      BY <2>1, <2>4, <3>1 DEF ProductsInv, CacheInv
    <3>3. \A h \in Cached!Keys : temporary'[h] = IF h = k THEN n ELSE temporary[h]
      BY <2>1, <2>4 DEF ProductsInv, CacheInv
    <3>4. /\ DOMAIN content' = Cached!Keys /\ \A h \in Cached!Keys : DOMAIN content'[h] = Inodes
          /\ temporary' \in [Cached!Keys -> Inodes \cup {0}]
      BY <2>1, <2>4, <3>1 DEF ProductsInv, CacheInv
    <3>5. \A h \in Cached!Keys : /\ cached'[h] # 0 => content'[h][cached'[h]] # "none"
                                /\ temporary'[h] # 0 => content'[h][temporary'[h]] # "none"
      BY <2>1, <3>1, <3>2, <3>3 DEF ProductsInv, CacheInv
    <3>6. \A h \in Cached!Keys : \A m \in Inodes :
            content'[h][m] \in {"none", "partial", "obsolete", "legacy", h}
      BY <3>2 DEF ProductsInv, CacheInv
    <3> QED
      <4>1. CacheInv
        BY DEF ProductsInv
      <4>2. CacheInv'
        BY <2>1, <3>4, <3>5, <3>6, <4>1, SMTT(30) DEF CacheInv, Cached!Keys
      <4> QED
        BY <1>1, <4>2 DEF ProductsInv
  <2> QED
    BY <2>3, <2>4
<1>3. CASE Cached!Write(b)
  <2> DEFINE k == Cached!Now(b)
             n == writing[b].inode
  <2>1. UNCHANGED <<cached, temporary>> /\ content' = [content EXCEPT ![k][n] = k]
    BY <1>3 DEF Cached!Write, Cached!Now, Cached!Key
  <2> HIDE DEF k, n
  <2>2. CacheInv'
    BY <2>1, KeysAreBlobs DEF ProductsInv, CacheInv, Cached!Keys
  <2> QED
    BY <1>1, <2>2 DEF ProductsInv
<1>4. CASE Cached!Rename(b)
  <2>1. CacheInv'
    BY <1>4 DEF Cached!Rename, ProductsInv, CacheInv, Cached!Keys
  <2> QED
    BY <1>1, <2>1 DEF ProductsInv
<1> QED
  BY <1>2, <1>3, <1>4

\* What a step of one builder leaves alone.
OthersStay(b) ==
  /\ PoolDomains' /\ UNCHANGED <<cached, temporary, content>>
  /\ \A p \in Builders \ {b} :
       /\ phase'[p] = phase[p] /\ cursor'[p] = cursor[p] /\ products'[p] = products[p] /\ missing'[p] = missing[p]
       /\ pending'[p] = pending[p] /\ finished'[p] = finished[p] /\ done'[p] = done[p]

LEMMA BuilderStep ==
  ASSUME ProductsInv, NEW b \in Builders, OthersStay(b), Ordered(b)', Gathered(b)'
  PROVE  ProductsInv'
<1>1. CacheInv'
  BY DEF OthersStay, ProductsInv, CacheInv, Cached!Keys
<1>2. ASSUME NEW p \in Builders PROVE Ordered(p)' /\ Gathered(p)'
  <2>1. CASE p = b
    BY <2>1
  <2>2. CASE p # b
    <3>1. /\ phase'[p] = phase[p] /\ cursor'[p] = cursor[p] /\ products'[p] = products[p]
          /\ missing'[p] = missing[p] /\ pending'[p] = pending[p] /\ finished'[p] = finished[p]
          /\ done'[p] = done[p]
      BY <2>2 DEF OthersStay
    <3>2. Ordered(p) /\ Gathered(p)
      BY DEF ProductsInv, PoolInv
    <3>3. Ordered(p)'
      BY <3>1, <3>2 DEF Ordered
    <3>4. Gathered(p)'
      BY <3>1, <3>2 DEF Gathered, Has, Awaited
    <3> QED
      BY <3>3, <3>4
  <2> QED
    BY <2>1, <2>2
<1> QED
  BY <1>1, <1>2 DEF OthersStay, ProductsInv, PoolInv

\* ParseCache.load: what is of use is the file's own product, or one that is upgraded to it.
LEMMA LoadStep ==
  ASSUME Cached!ProductsAssumption, ProductsInv, NEW b \in Builders, Cached!Load(b)
  PROVE  ProductsInv'
<1> DEFINE c == cursor[b]
           blob == BlobsOf[b][c]
           found == Cached!Read(blob)
<1>1. /\ phase[b] = "load" /\ b \notin Serial /\ c \in 1 .. Len(BlobsOf[b]) /\ Len(BlobsOf[b]) \in Nat
      /\ blob \in Cached!Keys /\ blob # "none"
  BY BlobsAreLists DEF Cached!Load, ProductsInv, PoolInv, Ordered
<1>2. found \in {"none", "partial", "obsolete", "legacy", blob}
  BY <1>1 DEF Cached!Read, Cached!Unset, ProductsInv, CacheInv
<1>3. OthersStay(b)
  BY DEF Cached!Load, OthersStay, ProductsInv, PoolInv, PoolDomains
<1>4. UNCHANGED <<phase, pending, finished, done>> /\ cursor' = [cursor EXCEPT ![b] = c + 1]
  BY DEF Cached!Load
<1>5. CASE missing' = [missing EXCEPT ![b] = Append(missing[b], c)] /\ UNCHANGED products
  <2> DEFINE m == missing[b]
  <2>1. cursor'[b] = c + 1 /\ missing'[b] = Append(m, c)
    BY <1>4, <1>5 DEF ProductsInv, PoolInv, PoolDomains
  <2>4. m \in Seq(1 .. Len(BlobsOf[b])) /\ Len(m) < c
    BY <1>1 DEF ProductsInv, PoolInv, Ordered
  <2>5. /\ Append(m, c) \in Seq(1 .. Len(BlobsOf[b])) /\ Len(Append(m, c)) = Len(m) + 1 /\ Len(m) \in Nat
        /\ Append(m, c)[Len(m) + 1] = c /\ \A j \in 1 .. Len(m) : Append(m, c)[j] = m[j]
    BY <1>1, <2>4
  <2>2. Ordered(b)'
    <3>1. /\ missing'[b] \in Seq(1 .. Len(BlobsOf[b])) /\ Len(missing'[b]) <= Len(BlobsOf[b])
          /\ Len(missing'[b]) < cursor'[b] /\ cursor'[b] \in 1 .. Len(BlobsOf[b]) + 1
      BY <1>1, <2>1, <2>4, <2>5
    <3>2. Ordered(b)
      BY DEF ProductsInv, PoolInv
    <3> HIDE DEF m, c
    <3> QED
      BY <1>1, <1>4, <1>5, <3>1, <3>2 DEF Ordered
  <2>3. Gathered(b)'
    <3>2. \E j \in 1 .. Len(missing'[b]) : missing'[b][j] = c
      <4>1. Len(m) + 1 \in 1 .. Len(missing'[b])
        BY <2>1, <2>5
      <4> QED
        BY <2>1, <2>5, <4>1
    <3>3. \A i \in 1 .. Len(BlobsOf[b]) :
            Awaited(b, i, 1) => \E j \in 1 .. Len(missing'[b]) : missing'[b][j] = i
      BY <2>1, <2>5 DEF Awaited
    <3>4. \A i \in 1 .. Len(BlobsOf[b]) : i < c => Has(b, i) \/ Awaited(b, i, 1)
      BY <1>1 DEF ProductsInv, PoolInv, Gathered
    <3>5. \A i \in 1 .. Len(BlobsOf[b]) : i < cursor'[b] => i < c \/ i = c
      BY <1>1, <2>1
    <3>6. phase'[b] = "load" /\ products'[b] = products[b]
      BY <1>1, <1>4, <1>5
    <3> QED
      BY <1>1, <3>2, <3>3, <3>4, <3>5, <3>6 DEF Gathered, Has, Awaited
  <2> QED
    BY <1>3, <2>2, <2>3, BuilderStep
<1>6. CASE products' = [products EXCEPT ![b][c] = blob] /\ UNCHANGED missing
  <2>1. /\ cursor'[b] = c + 1 /\ DOMAIN products'[b] = 1 .. Len(BlobsOf[b])
        /\ \A i \in 1 .. Len(BlobsOf[b]) : products'[b][i] = IF i = c THEN blob ELSE products[b][i]
    BY <1>1, <1>4, <1>6 DEF ProductsInv, PoolInv, PoolDomains, Ordered
  <2>2. Ordered(b)'
    BY <1>1, <1>4, <1>6, <2>1 DEF ProductsInv, PoolInv, Ordered
  <2>3. Gathered(b)'
    BY <1>1, <1>4, <1>6, <2>1 DEF ProductsInv, PoolInv, Ordered, Gathered, Has, Awaited
  <2> QED
    BY <1>3, <2>2, <2>3, BuilderStep
<1>7. \/ missing' = [missing EXCEPT ![b] = Append(missing[b], c)] /\ UNCHANGED products
      \/ products' = [products EXCEPT ![b][c] = blob] /\ UNCHANGED missing
  <2>1. CASE ~Cached!Useful(found)
    BY <2>1 DEF Cached!Load, Cached!At, Cached!Key
  <2>2. CASE Cached!Useful(found)
    <3>1. (IF found = "legacy" THEN blob ELSE found) = blob
      BY <1>2, <2>2 DEF Cached!Useful, Cached!Unset
    <3> QED
      BY <2>2, <3>1 DEF Cached!Load, Cached!At, Cached!Key
  <2> QED
    BY <2>1, <2>2
<1> QED
  BY <1>5, <1>6, <1>7

LEMMA LoadedStep ==
  ASSUME Cached!ProductsAssumption, ProductsInv, NEW b \in Builders, Cached!Loaded(b)
  PROVE  ProductsInv'
<1>1. /\ phase[b] = "load" /\ b \notin Serial /\ cursor[b] > Len(BlobsOf[b]) /\ Len(BlobsOf[b]) \in Nat
      /\ UNCHANGED <<products, missing, pending, finished, done>> /\ cursor' = [cursor EXCEPT ![b] = 1]
      /\ phase' = [phase EXCEPT ![b] = IF missing[b] = <<>> THEN "done" ELSE "pool"]
  BY BlobsAreLists DEF Cached!Loaded
<1>2. OthersStay(b)
  BY DEF Cached!Loaded, OthersStay, ProductsInv, PoolInv, PoolDomains
<1>3. cursor'[b] = 1 /\ phase'[b] = IF missing[b] = <<>> THEN "done" ELSE "pool"
  BY <1>1 DEF ProductsInv, PoolInv, PoolDomains
<1>4. Ordered(b)'
  BY <1>1, <1>3 DEF ProductsInv, PoolInv, Ordered
<1>5. missing[b] = <<>> => Len(missing[b]) = 0
  OBVIOUS
<1>6. Gathered(b)'
  BY <1>1, <1>3, <1>5 DEF ProductsInv, PoolInv, Ordered, Gathered, Has, Awaited
<1> QED
  BY <1>2, <1>4, <1>6, BuilderStep

LEMMA BuildStep ==
  ASSUME Cached!ProductsAssumption, ProductsInv, NEW b \in Builders, Cached!BuildNext(b)
  PROVE  ProductsInv'
<1>1. /\ phase[b] = "load" /\ b \in Serial /\ Len(BlobsOf[b]) \in Nat
      /\ UNCHANGED <<missing, pending, finished, done>>
  BY BlobsAreLists DEF Cached!BuildNext
<1>2. OthersStay(b)
  BY DEF Cached!BuildNext, OthersStay, ProductsInv, PoolInv, PoolDomains
<1>3. CASE cursor[b] > Len(BlobsOf[b])
  <2>1. UNCHANGED <<products, cursor>> /\ phase'[b] = "done"
    BY <1>3 DEF Cached!BuildNext, ProductsInv, PoolInv, PoolDomains
  <2> QED
    <3>1. Ordered(b)'
      BY <1>1, <2>1 DEF ProductsInv, PoolInv, Ordered
    <3>2. Gathered(b)'
      BY <1>1, <1>3, <2>1 DEF ProductsInv, PoolInv, Ordered, Gathered, Has
    <3> QED
      BY <1>2, <3>1, <3>2, BuilderStep
<1>4. CASE ~(cursor[b] > Len(BlobsOf[b]))
  <2> DEFINE c == cursor[b]
  <2>1. /\ phase' = phase /\ cursor'[b] = c + 1 /\ products' = [products EXCEPT ![b][c] = BlobsOf[b][c]]
        /\ c \in 1 .. Len(BlobsOf[b])
    BY <1>1, <1>4 DEF Cached!BuildNext, ProductsInv, PoolInv, PoolDomains, Ordered
  <2>2. /\ DOMAIN products'[b] = 1 .. Len(BlobsOf[b])
        /\ \A i \in 1 .. Len(BlobsOf[b]) : products'[b][i] = IF i = c THEN BlobsOf[b][c] ELSE products[b][i]
    BY <2>1 DEF ProductsInv, PoolInv, PoolDomains, Ordered
  <2>3. Ordered(b)'
    BY <1>1, <2>1, <2>2 DEF ProductsInv, PoolInv, Ordered
  <2>4. Gathered(b)'
    BY <1>1, <2>1, <2>2 DEF ProductsInv, PoolInv, Ordered, Gathered, Has, Awaited
  <2> QED
    BY <1>2, <2>3, <2>4, BuilderStep
<1> QED
  BY <1>3, <1>4

\* The pool: what is out comes back in any order, and each product goes to its own file.
LEMMA SubmitStep ==
  ASSUME Cached!ProductsAssumption, ProductsInv, NEW b \in Builders, Cached!Submit(b)
  PROVE  ProductsInv'
<1> DEFINE c == cursor[b]
           i == missing[b][c]
<1>1. /\ phase[b] = "pool" /\ c \in 1 .. Len(missing[b]) /\ Cardinality(pending[b]) < Window
      /\ Len(missing[b]) <= Len(BlobsOf[b]) /\ Len(BlobsOf[b]) \in Nat /\ Len(missing[b]) \in Nat
      /\ UNCHANGED <<phase, products, missing, finished, done>>
  <2>1. phase[b] = "pool" /\ UNCHANGED <<phase, products, missing, finished, done>>
    BY DEF Cached!Submit
  <2>4. c <= Len(missing[b])
    BY DEF Cached!Submit
  <2>5. Cardinality(pending[b]) < Window
    BY SizesAgree DEF Cached!Submit
  <2>2. c \in 1 .. Len(BlobsOf[b]) + 1 /\ missing[b] \in Seq(1 .. Len(BlobsOf[b])) /\ Len(missing[b]) <= Len(BlobsOf[b])
    BY DEF ProductsInv, PoolInv, Ordered
  <2>3. Len(missing[b]) \in Nat /\ Len(BlobsOf[b]) \in Nat
    BY <2>2, BlobsAreLists
  <2> QED
    BY <2>1, <2>2, <2>3, <2>4, <2>5
<1>2. OthersStay(b)
  BY DEF Cached!Submit, OthersStay, ProductsInv, PoolInv, PoolDomains
<1>3. cursor'[b] = c + 1 /\ pending'[b] = pending[b] \cup {i}
  BY DEF Cached!Submit, ProductsInv, PoolInv, PoolDomains
<1>4. i \in 1 .. Len(BlobsOf[b])
  BY <1>1 DEF ProductsInv, PoolInv, Ordered
<1>5. IsFiniteSet(pending'[b]) /\ Cardinality(pending'[b]) <= Window
  <2>1. IsFiniteSet(pending[b])
    BY DEF ProductsInv, PoolInv, Ordered
  <2>2. Cardinality(pending[b]) \in Nat /\ Window \in Nat
    BY <2>1, FS_CardinalityType DEF Cached!ProductsAssumption
  <2>3. IsFiniteSet(pending'[b])
        /\ (Cardinality(pending'[b]) = Cardinality(pending[b]) + 1
            \/ Cardinality(pending'[b]) = Cardinality(pending[b]))
    <3> HIDE DEF i
    <3> QED
      BY <1>3, <2>1, FS_AddElement
  <2> QED
    BY <1>1, <2>2, <2>3
<1>6. Ordered(b)'
  <2>1. Ordered(b)
    BY DEF ProductsInv, PoolInv
  <2>2. cursor'[b] \in 1 .. Len(BlobsOf[b]) + 1
    BY <1>1, <1>3
  <2> HIDE DEF c, i
  <2> QED
    BY <1>1, <1>3, <1>4, <1>5, <2>1, <2>2 DEF Ordered
<1>7. Gathered(b)'
  BY <1>1, <1>3 DEF ProductsInv, PoolInv, Gathered, Has, Awaited
<1> QED
  BY <1>2, <1>6, <1>7, BuilderStep

LEMMA WaitSteps ==
  ASSUME ProductsInv, NEW b \in Builders, Cached!Parse(b) \/ Cached!Wait(b)
  PROVE  ProductsInv'
<1>1. UNCHANGED <<phase, products, cursor, missing, pending>> /\ OthersStay(b)
  BY DEF Cached!Parse, Cached!Wait, OthersStay, ProductsInv, PoolInv, PoolDomains
<1>2. Ordered(b) /\ Gathered(b)
  BY DEF ProductsInv, PoolInv
<1>3. done'[b] \subseteq finished'[b] /\ finished'[b] \subseteq pending[b]
  BY <1>2 DEF Cached!Parse, Cached!Wait, ProductsInv, PoolInv, PoolDomains, Ordered
<1>4. Ordered(b)'
  BY <1>1, <1>2, <1>3 DEF Ordered
<1>5. Gathered(b)'
  BY <1>1, <1>2 DEF Gathered, Has, Awaited
<1> QED
  BY <1>1, <1>4, <1>5, BuilderStep

LEMMA CollectStep ==
  ASSUME Cached!ProductsAssumption, ProductsInv, NEW b \in Builders, Cached!Collect(b)
  PROVE  ProductsInv'
<1>1. /\ phase[b] = "pool" /\ UNCHANGED <<phase, cursor, missing>> /\ OthersStay(b)
  BY DEF Cached!Collect, OthersStay, ProductsInv, PoolInv, PoolDomains
<1>2. PICK i \in done[b] :
        /\ pending' = [pending EXCEPT ![b] = @ \ {i}] /\ finished' = [finished EXCEPT ![b] = @ \ {i}]
        /\ done' = [done EXCEPT ![b] = @ \ {i}] /\ products' = [products EXCEPT ![b][i] = BlobsOf[b][i]]
  BY DEF Cached!Collect, Cached!Slot
<1>3. Ordered(b) /\ Gathered(b)
  BY DEF ProductsInv, PoolInv
<1>4. /\ pending'[b] = pending[b] \ {i} /\ finished'[b] = finished[b] \ {i} /\ done'[b] = done[b] \ {i}
      /\ DOMAIN products'[b] = 1 .. Len(BlobsOf[b])
      /\ \A j \in 1 .. Len(BlobsOf[b]) : products'[b][j] = IF j = i THEN BlobsOf[b][i] ELSE products[b][j]
  BY <1>2, <1>3 DEF ProductsInv, PoolInv, PoolDomains, Ordered
<1>5. IsFiniteSet(pending'[b]) /\ Cardinality(pending'[b]) <= Window
  <2>1. i \in pending[b] /\ IsFiniteSet(pending[b]) /\ Cardinality(pending[b]) <= Window
    BY <1>3 DEF Ordered
  <2>2. IsFiniteSet(pending'[b]) /\ Cardinality(pending'[b]) = Cardinality(pending[b]) - 1
    BY <1>4, <2>1, FS_RemoveElement
  <2>3. Cardinality(pending[b]) \in Nat
    BY <2>1, FS_CardinalityType
  <2> QED
    BY <2>1, <2>2, <2>3 DEF Cached!ProductsAssumption
<1>6. Ordered(b)'
  BY <1>1, <1>3, <1>4, <1>5 DEF Ordered
<1>7. Gathered(b)'
  BY <1>1, <1>3, <1>4 DEF Gathered, Has, Awaited
<1> QED
  BY <1>1, <1>6, <1>7, BuilderStep

LEMMA EndSteps ==
  ASSUME Cached!ProductsAssumption, ProductsInv, NEW b \in Builders, Cached!Fail(b) \/ Cached!Finish(b)
  PROVE  ProductsInv'
<1>1. /\ phase[b] = "pool" /\ UNCHANGED <<products, cursor, missing>> /\ OthersStay(b)
  BY DEF Cached!Fail, Cached!Finish, OthersStay, ProductsInv, PoolInv, PoolDomains
<1>2. Ordered(b) /\ Gathered(b) /\ Len(missing[b]) \in Nat
  BY DEF ProductsInv, PoolInv, Ordered
<1>3. pending'[b] = {} /\ finished'[b] = {} /\ done'[b] = {} /\ phase'[b] \in {"failed", "done"}
  BY <1>2 DEF Cached!Fail, Cached!Finish, ProductsInv, PoolInv, PoolDomains, Ordered
<1>4. phase'[b] = "done" => pending[b] = {} /\ cursor[b] > Len(missing[b])
  BY DEF Cached!Fail, Cached!Finish, ProductsInv, PoolInv, PoolDomains
<1>5. IsFiniteSet(pending'[b]) /\ Cardinality(pending'[b]) <= Window
  BY <1>3, FS_EmptySet DEF Cached!ProductsAssumption
<1>6. Ordered(b)'
  BY <1>1, <1>2, <1>3, <1>5 DEF Ordered
<1>7. Gathered(b)'
  BY <1>1, <1>2, <1>3, <1>4 DEF Ordered, Gathered, Has, Awaited
<1> QED
  BY <1>1, <1>6, <1>7, BuilderStep

LEMMA CrashStep ==
  ASSUME Cached!ProductsAssumption, ProductsInv, NEW b \in Builders, Cached!Crash(b)
  PROVE  ProductsInv'
<1>1. OthersStay(b)
  BY DEF Cached!Crash, OthersStay, ProductsInv, PoolInv, PoolDomains
<1>2. /\ phase'[b] = "load" /\ cursor'[b] = 1 /\ products'[b] = [i \in Cached!Files(b) |-> "none"]
      /\ missing'[b] = <<>> /\ pending'[b] = {} /\ finished'[b] = {} /\ done'[b] = {}
  BY DEF Cached!Crash, Cached!Unset, ProductsInv, PoolInv, PoolDomains
<1>3. IsFiniteSet(pending'[b]) /\ Cardinality(pending'[b]) <= Window
  BY <1>2, FS_EmptySet DEF Cached!ProductsAssumption
<1>4. missing'[b] \in Seq(1 .. Len(BlobsOf[b])) /\ Len(missing'[b]) = 0
  BY <1>2
<1>5. Ordered(b)'
  BY <1>2, <1>3, <1>4, BlobsAreLists DEF Ordered
<1>6. Gathered(b)'
  BY <1>2, BlobsAreLists DEF Gathered
<1> QED
  BY <1>1, <1>5, <1>6, BuilderStep

LEMMA ProductsStep ==
  Cached!ProductsAssumption /\ ProductsInv /\ [Cached!Next]_Cached!vars => ProductsInv'
<1> SUFFICES ASSUME Cached!ProductsAssumption, ProductsInv, [Cached!Next]_Cached!vars PROVE ProductsInv'
  OBVIOUS
<1>1. ASSUME NEW b \in Builders, Cached!Work(b) \/ Cached!Parse(b) \/ Cached!Fail(b) \/ Cached!Crash(b)
      PROVE  ProductsInv'
  BY <1>1, StoreSteps, LoadStep, LoadedStep, BuildStep, SubmitStep, WaitSteps, CollectStep, EndSteps, CrashStep
     DEF Cached!Work
<1>2. CASE UNCHANGED Cached!vars
  <2>1. CacheInv'
    BY <1>2 DEF Cached!vars, ProductsInv, CacheInv, Cached!Keys
  <2>2. PoolInv'
    BY <1>2 DEF Cached!vars, ProductsInv, PoolInv, PoolDomains, Ordered, Gathered, Has, Awaited
  <2> QED
    BY <2>1, <2>2 DEF ProductsInv
<1> QED
  BY <1>1, <1>2 DEF Cached!Next

LEMMA ProductsHold ==
  Cached!ProductsAssumption /\ ProductsInv => Cached!TypeOK /\ Cached!OwnProducts /\ Cached!CacheIsSound
<1> SUFFICES ASSUME Cached!ProductsAssumption, ProductsInv
             PROVE  Cached!TypeOK /\ Cached!OwnProducts /\ Cached!CacheIsSound
  OBVIOUS
<1>1. ASSUME NEW b \in Builders
      PROVE  /\ done[b] \subseteq finished[b] /\ finished[b] \subseteq pending[b]
             /\ pending[b] \subseteq Cached!Files(b)
             /\ phase[b] # "pool" => pending[b] = {}
             /\ cursor[b] \in 1 .. Len(BlobsOf[b]) + 1 /\ Cardinality(pending[b]) <= Window
             /\ phase[b] = "done" => \A i \in Cached!Files(b) : products[b][i] = BlobsOf[b][i]
  BY BlobsAreLists DEF ProductsInv, PoolInv, Ordered, Gathered, Has
<1>2. \A b \in Builders : Cached!Cardinality(pending[b]) = Cardinality(pending[b])
  BY SizesAgree
<1>3. Cached!TypeOK
  BY <1>1, <1>2 DEF Cached!TypeOK, Cached!Unset, ProductsInv, CacheInv
<1>4. Cached!OwnProducts
  BY <1>1 DEF Cached!OwnProducts
<1>5. ASSUME NEW b \in Builders, NEW i \in Cached!Files(b)
      PROVE  Cached!Read(BlobsOf[b][i]) \in {"none", "partial", "obsolete", "legacy", BlobsOf[b][i]}
  <2>1. BlobsOf[b][i] \in Cached!Keys
    BY BlobsAreLists
  <2> QED
    BY <2>1 DEF Cached!Read, Cached!Unset, ProductsInv, CacheInv
<1> QED
  BY <1>3, <1>4, <1>5 DEF Cached!CacheIsSound, Cached!Key, Cached!Unset

(* assemble.py _file_products and checkpoint.py: however many builders     *)
(* share the cache and a window of workers, are stopped and fail, each     *)
(* file of a finished draft has the product of its own bytes, path and     *)
(* fingerprint, and the cache gives a file no other's.                     *)
THEOREM CacheIsOwn ==
  ASSUME Cached!ProductsAssumption
  PROVE  Cached!Spec => [](Cached!TypeOK /\ Cached!OwnProducts /\ Cached!CacheIsSound)
<1>1. Cached!Init => ProductsInv
  BY ProductsInit
<1>2. ProductsInv /\ [Cached!Next]_Cached!vars => ProductsInv'
  BY ProductsStep
<1>3. ProductsInv => Cached!TypeOK /\ Cached!OwnProducts /\ Cached!CacheIsSound
  BY ProductsHold
<1> QED
  BY <1>1, <1>2, <1>3, PTL DEF Cached!Spec

-----------------------------------------------------------------------------
(* The vectors of builds, for any workers, catalogue and batch.            *)

Listable == Embedded!ToSet(Catalogue)
InStore(g, c) == Embedded!Key(g, c) \in vectors

BuildDomains ==
  /\ DOMAIN pc = Workers /\ DOMAIN gen = Workers /\ DOMAIN left = Workers /\ DOMAIN known = Workers
  /\ DOMAIN without = Workers /\ DOMAIN alive = Workers
  /\ own \in [Workers -> [Embedded!Chunks -> {"none", "pending", "ready"}]]
  /\ rows \in [Embedded!Generations -> [Embedded!Chunks -> {"none", "pending", "ready"}]]
  /\ last \in 0 .. MaxGen /\ active \in 0 .. last
  /\ vectors \subseteq {Embedded!Key(g, c) : g \in Embedded!Generations, c \in Embedded!Chunks}

Looping == {"lookup", "embed", "look", "put", "mark"}

\* What a builder knows of its batch, and when its catalogue is embedded: every chunk is marked or
\* still on its list, and when the list is empty every row its session sees is ready.
Readied(w, c) == Embedded!View(w)[c] = "ready"
BatchInv(w) ==
  /\ pc[w] \in Looping \cup {"idle", "activate", "append", "assert"}
  /\ left[w] \in Seq(Embedded!Chunks) /\ known[w] \subseteq Embedded!Chunks /\ without[w] \subseteq Embedded!Chunks
  /\ pc[w] # "idle" => gen[w] \in 1 .. last
  /\ pc[w] = "append" => \A c \in Embedded!Chunks : own[w][c] = "none"
  /\ pc[w] \in {"look", "put", "mark"} => Embedded!BatchOf(w) \subseteq known[w]
  /\ pc[w] = "put" /\ ~dropped => \A c \in Embedded!BatchOf(w) : c \in without[w] \/ InStore(gen[w], c)
  /\ pc[w] = "mark" /\ ~dropped => \A c \in Embedded!BatchOf(w) : InStore(gen[w], c)
  /\ ~dropped => \A c \in Embedded!Chunks : own[w][c] = "ready" => InStore(gen[w], c)
CatalogueInv(w) ==
  settings.embedFirst /\ alive[w] =>
    /\ pc[w] \in Looping =>
         \A c \in Listable : Readied(w, c) \/ (own[w][c] = "pending" /\ c \in Embedded!ToSet(left[w]))
    /\ pc[w] \in {"activate", "append", "assert"} => \A c \in Listable : Readied(w, c)

\* And what all share.
AskingInv ==
  asking # Embedded!NoJob =>
    /\ asking.gen \in 1 .. last /\ asking.chunk \in Embedded!Chunks
    /\ ~dropped => InStore(asking.gen, asking.chunk)
HolderInv ==
  /\ holder # None => holder \in Workers /\ holder = owner /\ alive[holder]
  /\ owner # None => 1 <= last
WholeInv ==
  /\ Embedded!ReadyHasPoint /\ Embedded!FinishedIsWhole /\ Embedded!EmbeddedFirst
  /\ ~dropped => since = {}

VectorsInv ==
  /\ BuildDomains /\ AskingInv /\ HolderInv /\ WholeInv
  /\ \A w \in Workers : BatchInv(w) /\ CatalogueInv(w)

LEMMA CatalogueIsListed ==
  ASSUME Embedded!EmbeddingAssumption
  PROVE  /\ Listable \subseteq Embedded!Chunks /\ Catalogue \in Seq(Embedded!Chunks)
         /\ Embedded!PutOff \in Seq(Embedded!Chunks) /\ Embedded!ToSet(Embedded!PutOff) \subseteq Embedded!Chunks
<1>1. Catalogue \in Seq(Embedded!ToSet(Catalogue)) /\ Deferred \in Seq(Embedded!ToSet(Deferred))
  BY DEF Embedded!EmbeddingAssumption
<1>2. Embedded!ToSet(<<>>) = {}
  BY DEF Embedded!ToSet
<1>3. Embedded!ToSet(Catalogue) \subseteq Embedded!Chunks /\ Embedded!ToSet(Deferred) \subseteq Embedded!Chunks
  BY DEF Embedded!Chunks
<1> QED
  BY <1>1, <1>2, <1>3 DEF Embedded!PutOff, Listable

\* The front of a list, its rest and what is on them.
LEMMA BatchIsCut ==
  ASSUME Embedded!EmbeddingAssumption, NEW w \in Workers, left[w] \in Seq(Embedded!Chunks)
  PROVE  /\ Embedded!BatchOf(w) \subseteq Embedded!Chunks /\ Embedded!Rest(w) \in Seq(Embedded!Chunks)
         /\ \A c \in Embedded!ToSet(left[w]) : c \in Embedded!BatchOf(w) \/ c \in Embedded!ToSet(Embedded!Rest(w))
         /\ Embedded!Rest(w) = <<>> => Embedded!ToSet(Embedded!Rest(w)) = {}
<1> DEFINE s == left[w]
           n == IF Len(s) < Batch THEN Len(s) ELSE Batch
           batch == SubSeq(s, 1, n)
           rest == SubSeq(s, Batch + 1, Len(s))
<1>1. s \in Seq(Embedded!Chunks) /\ Batch \in Nat \ {0} /\ Len(s) \in Nat /\ n \in 0 .. Len(s)
  BY DEF Embedded!EmbeddingAssumption
<1>2. /\ batch \in Seq(Embedded!Chunks) /\ Len(batch) = n
      /\ \A i \in 1 .. n : batch[i] = s[i]
  BY <1>1
<1>3. /\ rest \in Seq(Embedded!Chunks) /\ Len(rest) = IF Batch + 1 <= Len(s) THEN Len(s) - Batch ELSE 0
      /\ \A i \in 1 .. Len(rest) : rest[i] = s[Batch + i]
  BY <1>1
<1>4. \A i \in 1 .. Len(s) : i \in 1 .. n \/ i - Batch \in 1 .. Len(rest)
  BY <1>1, <1>3
<1> HIDE DEF batch, rest, n
<1>5. \A i \in 1 .. Len(s) : s[i] \in Embedded!ToSet(batch) \/ s[i] \in Embedded!ToSet(rest)
  <2>1. ASSUME NEW i \in 1 .. n PROVE s[i] \in Embedded!ToSet(batch)
    BY <1>2, <2>1 DEF Embedded!ToSet
  <2>2. ASSUME NEW i \in 1 .. Len(s), i - Batch \in 1 .. Len(rest) PROVE s[i] \in Embedded!ToSet(rest)
    <3>1. rest[i - Batch] = s[i]
      BY <1>1, <1>3, <2>2
    <3> QED
      BY <1>3, <2>2, <3>1 DEF Embedded!ToSet
  <2> QED
    BY <1>4, <2>1, <2>2
<1>6. Embedded!ToSet(batch) \subseteq Embedded!Chunks
  BY <1>2 DEF Embedded!ToSet
<1>7. rest = <<>> => Embedded!ToSet(rest) = {}
  BY DEF Embedded!ToSet
<1>8. Embedded!BatchOf(w) = Embedded!ToSet(batch) /\ Embedded!Rest(w) = rest
  BY DEF Embedded!BatchOf, Embedded!Rest, batch, rest, n
<1>9. ASSUME NEW c \in Embedded!ToSet(s) PROVE c \in Embedded!ToSet(batch) \/ c \in Embedded!ToSet(rest)
  <2>1. PICK i \in 1 .. Len(s) : s[i] = c
    BY <1>1 DEF Embedded!ToSet
  <2> QED
    BY <1>5, <2>1
<1> QED
  BY <1>3, <1>6, <1>7, <1>8, <1>9
LEMMA VectorsInit == Embedded!EmbeddingAssumption /\ Embedded!Init => VectorsInv
<1> SUFFICES ASSUME Embedded!EmbeddingAssumption, Embedded!Init PROVE VectorsInv
  OBVIOUS
<1>1. BuildDomains
  <2>1. vectors \subseteq {Embedded!Key(g, c) : g \in Embedded!Generations, c \in Embedded!Chunks}
    <3>1. 1 \in Embedded!Generations
      BY DEF Embedded!EmbeddingAssumption, Embedded!Generations
    <3> QED
      BY <3>1 DEF Embedded!Init
  <2> QED
    BY <2>1 DEF Embedded!Init, BuildDomains, Embedded!NoRows, Embedded!EmbeddingAssumption
<1>2. AskingInv /\ HolderInv
  BY DEF Embedded!Init, AskingInv, HolderInv
<1>3. WholeInv
  BY DEF Embedded!Init, WholeInv, Embedded!ReadyHasPoint, Embedded!FinishedIsWhole, Embedded!EmbeddedFirst, Embedded!NoRows
<1>4. ASSUME NEW w \in Workers PROVE BatchInv(w) /\ CatalogueInv(w)
  BY DEF Embedded!Init, BatchInv, CatalogueInv, Looping, Embedded!NoRows
<1> QED
  BY <1>1, <1>2, <1>3, <1>4 DEF VectorsInv
\* What any step leaves to the other builders: points go only with the late deletion, and a row of
\* the catalogue that is ready stays so where builds embed first.
Keeps ==
  /\ UNCHANGED settings /\ last' \in Nat /\ last <= last' /\ (dropped => dropped')
  /\ ~dropped' => vectors \subseteq vectors'
  /\ \A g \in Embedded!Generations, c \in Listable :
       settings.embedFirst /\ rows[g][c] = "ready" => rows'[g][c] = "ready"
Unmoved(w) ==
  /\ pc'[w] = pc[w] /\ gen'[w] = gen[w] /\ left'[w] = left[w] /\ known'[w] = known[w]
  /\ without'[w] = without[w] /\ own'[w] = own[w] /\ alive'[w] = alive[w]

LEMMA WorkerStays ==
  ASSUME Embedded!EmbeddingAssumption, VectorsInv, NEW w \in Workers, Keeps, Unmoved(w)
  PROVE  BatchInv(w)' /\ CatalogueInv(w)'
<1>1. BatchInv(w) /\ CatalogueInv(w)
  BY DEF VectorsInv
<1>2. last \in Nat /\ last <= MaxGen /\ MaxGen \in Nat
  BY DEF VectorsInv, BuildDomains, Embedded!EmbeddingAssumption
<1>3. Embedded!BatchOf(w)' = Embedded!BatchOf(w) /\ Embedded!ToSet(left'[w]) = Embedded!ToSet(left[w])
  BY DEF Unmoved, Embedded!BatchOf
<1>4. BatchInv(w)'
  <2>1. pc'[w] # "idle" => gen'[w] \in 1 .. last'
    BY <1>1, <1>2 DEF Unmoved, Keeps, BatchInv
  <2>2. ~dropped' => ~dropped
    BY DEF Keeps
  <2>3. /\ pc'[w] = "put" /\ ~dropped' => \A c \in Embedded!BatchOf(w)' : c \in without'[w] \/ InStore(gen[w], c)'
        /\ pc'[w] = "mark" /\ ~dropped' => \A c \in Embedded!BatchOf(w)' : InStore(gen[w], c)'
        /\ ~dropped' => \A c \in Embedded!Chunks : own'[w][c] = "ready" => InStore(gen[w], c)'
    <3>1. gen'[w] = gen[w] /\ own'[w] = own[w] /\ pc'[w] = pc[w] /\ without'[w] = without[w]
      BY DEF Unmoved
    <3>2. \A c : ~dropped' /\ InStore(gen[w], c) => InStore(gen[w], c)'
      BY <3>1 DEF Keeps, InStore, Embedded!Key
    <3> QED
      BY <1>1, <1>3, <2>2, <3>1, <3>2 DEF BatchInv
  <2> QED
    BY <1>1, <1>3, <2>1, <2>3 DEF Unmoved, BatchInv
<1>5. CatalogueInv(w)'
  <2> SUFFICES ASSUME settings.embedFirst, alive[w] PROVE CatalogueInv(w)'
    BY DEF CatalogueInv, Keeps, Unmoved
  <2>1. gen[w] \in 1 .. MaxGen \/ pc[w] = "idle"
    BY <1>1, <1>2 DEF BatchInv
  <2>2. ASSUME NEW c \in Listable, Readied(w, c), pc[w] # "idle" PROVE Readied(w, c)'
    <3>1. c \in Embedded!Chunks
      BY CatalogueIsListed
    <3>2. gen[w] \in Embedded!Generations
      BY <2>1, <2>2 DEF Embedded!Generations
    <3> QED
      BY <2>2, <3>1, <3>2 DEF Readied, Embedded!View, Keeps, Unmoved
  <2> QED
    BY <1>1, <1>3, <2>2 DEF CatalogueInv, Keeps, Unmoved, Looping
<1> QED
  BY <1>4, <1>5
\* A step of one builder that writes no row.
Quiet(w) ==
  /\ UNCHANGED <<rows, active, settings, asking, dropped, since>>
  /\ vectors \subseteq vectors' /\ last' \in Nat /\ last <= last'
  /\ \A p \in Workers \ {w} : Unmoved(p)

LEMMA QuietStep ==
  ASSUME Embedded!EmbeddingAssumption, VectorsInv, NEW w \in Workers, Quiet(w),
         BuildDomains', HolderInv', BatchInv(w)', CatalogueInv(w)'
  PROVE  VectorsInv'
<1>1. Keeps
  BY DEF Quiet, Keeps
<1>2. ASSUME NEW p \in Workers PROVE BatchInv(p)' /\ CatalogueInv(p)'
  <2>1. CASE p = w
    BY <2>1
  <2>2. CASE p # w
    BY <1>1, <2>2, WorkerStays DEF Quiet
  <2> QED
    BY <2>1, <2>2
<1>3. WholeInv'
  BY DEF Quiet, VectorsInv, WholeInv, Embedded!ReadyHasPoint, Embedded!FinishedIsWhole, Embedded!EmbeddedFirst, Embedded!Key
<1>4. AskingInv'
  <2>1. last \in Nat
    BY DEF VectorsInv, BuildDomains, Embedded!EmbeddingAssumption
  <2> QED
    BY <2>1 DEF Quiet, VectorsInv, AskingInv, InStore, Embedded!Key, Embedded!NoJob
<1> QED
  BY <1>2, <1>3, <1>4 DEF VectorsInv

\* A build begins, or one is taken over: the catalogue's rows are there and wait.
LEMMA BeginStep ==
  ASSUME Embedded!EmbeddingAssumption, VectorsInv, NEW w \in Workers, Embedded!Start(w) \/ Embedded!Adopt(w)
  PROVE  VectorsInv'
<1>1. PICK g \in 1 .. last' : Embedded!Begin(w, g)
  <2>1. last \in Nat
    BY DEF VectorsInv, BuildDomains, Embedded!EmbeddingAssumption
  <2>2. CASE Embedded!Start(w)
    BY <2>1, <2>2 DEF Embedded!Start
  <2>3. CASE Embedded!Adopt(w)
    <3>1. last \in 1 .. last'
      BY <2>1, <2>3 DEF Embedded!Adopt, VectorsInv, HolderInv
    <3> QED
      BY <2>3, <3>1 DEF Embedded!Adopt
  <2> QED
    BY <2>2, <2>3
<1>2. /\ gen'[w] = g /\ owner' = w /\ holder' = w /\ alive'[w] = TRUE /\ own'[w] = Embedded!Inserted
      /\ left'[w] = Catalogue /\ pc'[w] = Embedded!AfterCatalogue
      /\ UNCHANGED <<vectors, rows, active, settings, known, without, asking, dropped, since>>
      /\ \A p \in Workers \ {w} : Unmoved(p)
  BY <1>1 DEF Embedded!Begin, Embedded!Goto, VectorsInv, BuildDomains, Unmoved
<1>3. last \in Nat /\ last' \in 0 .. MaxGen /\ last <= last' /\ MaxGen \in Nat
  BY DEF Embedded!Start, Embedded!Adopt, VectorsInv, BuildDomains, Embedded!EmbeddingAssumption
<1>4. /\ Embedded!Inserted \in [Embedded!Chunks -> {"none", "pending", "ready"}]
      /\ \A c \in Embedded!Chunks : Embedded!Inserted[c] # "ready"
      /\ \A c \in Listable : Embedded!Inserted[c] = "pending"
  BY CatalogueIsListed DEF Embedded!Inserted, Listable
<1>5. Quiet(w)
  BY <1>2, <1>3 DEF Quiet
<1>6. BuildDomains'
  <2>1. own' \in [Workers -> [Embedded!Chunks -> {"none", "pending", "ready"}]]
    BY <1>1, <1>4 DEF Embedded!Begin, VectorsInv, BuildDomains
  <2>2. active' \in 0 .. last'
    BY <1>2, <1>3 DEF VectorsInv, BuildDomains
  <2> QED
    BY <1>1, <1>2, <1>3, <2>1, <2>2 DEF Embedded!Begin, Embedded!Goto, VectorsInv, BuildDomains
<1>7. HolderInv'
  BY <1>2, <1>1, <1>3 DEF HolderInv
<1>8. pc'[w] \in {"lookup", "activate"} /\ (pc'[w] = "activate" => ~settings.embedFirst \/ Catalogue = <<>>)
  BY <1>2 DEF Embedded!AfterCatalogue
<1>9. BatchInv(w)'
  BY <1>2, <1>3, <1>4, <1>8, CatalogueIsListed DEF VectorsInv, BatchInv, Looping
<1>10. CatalogueInv(w)'
  <2>1. Catalogue = <<>> => Listable = {}
    BY DEF Listable, Embedded!ToSet
  <2>2. \A c \in Listable : own'[w][c] = "pending" /\ c \in Embedded!ToSet(left'[w])
    <3>1. \A c \in Listable : own'[w][c] = "pending"
      BY <1>2, <1>4
    <3>2. Embedded!ToSet(left'[w]) = Listable
      BY <1>2 DEF Listable
    <3> QED
      BY <3>1, <3>2
  <2>3. settings'.embedFirst => Listable = {} \/ pc'[w] = "lookup"
    BY <1>2, <1>8, <2>1
  <2> QED
    BY <1>8, <2>2, <2>3 DEF CatalogueInv, Looping, Listable
<1> QED
  BY <1>5, <1>6, <1>7, <1>9, <1>10, QuietStep
\* A batch: what has a vector to be written, what lacks a point, and the points.
LEMMA LookupSteps ==
  ASSUME Embedded!EmbeddingAssumption, VectorsInv, NEW w \in Workers,
         Embedded!Lookup(w) \/ Embedded!Embed(w) \/ Embedded!Look(w) \/ Embedded!Put(w)
  PROVE  VectorsInv'
<1>1. /\ UNCHANGED <<rows, active, settings, last, owner, holder, gen, left, own, alive, asking, dropped, since>>
      /\ pc[w] \in {"lookup", "embed", "look", "put"} /\ pc'[w] \in Looping
      /\ vectors \subseteq vectors'
      /\ \A p \in Workers \ {w} : Unmoved(p)
  BY DEF Embedded!Lookup, Embedded!Embed, Embedded!Look, Embedded!Put, Embedded!Goto, Unmoved, VectorsInv, BuildDomains, Looping
<1>2. BatchInv(w) /\ CatalogueInv(w) /\ Embedded!BatchOf(w) \subseteq Embedded!Chunks
      /\ last \in 0 .. MaxGen /\ MaxGen \in Nat
  BY BatchIsCut DEF VectorsInv, BatchInv, BuildDomains, Embedded!EmbeddingAssumption
<1>3. Quiet(w)
  BY <1>1, <1>2 DEF Quiet
<1>4. BuildDomains'
  <2>1. \A c \in without[w] : c \in Embedded!Chunks /\ gen[w] \in Embedded!Generations
    BY <1>1, <1>2 DEF BatchInv, Embedded!Generations
  <2>2. vectors' \subseteq {Embedded!Key(g, c) : g \in Embedded!Generations, c \in Embedded!Chunks}
    BY <2>1 DEF Embedded!Lookup, Embedded!Embed, Embedded!Look, Embedded!Put, VectorsInv, BuildDomains
  <2> QED
    BY <1>1, <2>2 DEF Embedded!Lookup, Embedded!Embed, Embedded!Look, Embedded!Put, Embedded!Goto, VectorsInv, BuildDomains
<1>5. HolderInv'
  BY <1>1 DEF VectorsInv, HolderInv
<1>6. /\ Embedded!BatchOf(w)' = Embedded!BatchOf(w)
      /\ \A c : InStore(gen[w], c) => InStore(gen[w], c)'
  BY <1>1 DEF Embedded!BatchOf, InStore, Embedded!Key
<1>7. CatalogueInv(w)'
  BY <1>1, <1>2 DEF CatalogueInv, Readied, Embedded!View, Looping
<1>8. ASSUME known'[w] \subseteq Embedded!Chunks, without'[w] \subseteq Embedded!Chunks,
             pc'[w] \in {"look", "put", "mark"} => Embedded!BatchOf(w) \subseteq known'[w],
             pc'[w] = "put" => \A c \in Embedded!BatchOf(w) : c \in without'[w] \/ InStore(gen[w], c),
             pc'[w] = "mark" /\ ~dropped => \A c \in Embedded!BatchOf(w) : InStore(gen[w], c)'
      PROVE  BatchInv(w)'
  BY <1>1, <1>2, <1>6, <1>8 DEF BatchInv, Looping
<1>9. BatchInv(w)'
  <2>1. CASE Embedded!Lookup(w)
    <3>1. known'[w] = Embedded!Held(gen[w], Embedded!BatchOf(w)) /\ without' = without /\ pc'[w] = "embed"
      BY <2>1 DEF Embedded!Lookup, Embedded!Goto, VectorsInv, BuildDomains
    <3> QED
      BY <1>2, <1>8, <3>1 DEF Embedded!Held, BatchInv
  <2>2. CASE Embedded!Embed(w)
    <3>1. known'[w] = Embedded!Vectors(w) /\ without' = without /\ pc'[w] = "look"
      BY <2>2 DEF Embedded!Embed, Embedded!Goto, VectorsInv, BuildDomains
    <3> QED
      BY <1>2, <1>8, <3>1 DEF Embedded!Vectors, Embedded!Held, BatchInv
  <2>3. CASE Embedded!Look(w)
    <3>1. without'[w] = Embedded!BatchOf(w) \ Embedded!Held(gen[w], Embedded!BatchOf(w)) /\ known' = known
          /\ pc[w] = "look" /\ pc'[w] = "put"
      BY <2>3 DEF Embedded!Look, Embedded!Goto, VectorsInv, BuildDomains
    <3> QED
      BY <1>2, <1>8, <3>1 DEF Embedded!Held, BatchInv, InStore
  <2>4. CASE Embedded!Put(w)
    <3>1. UNCHANGED <<known, without>> /\ vectors' = vectors \cup {Embedded!Key(gen[w], c) : c \in without[w]}
          /\ pc[w] = "put" /\ pc'[w] = "mark"
      BY <2>4 DEF Embedded!Put, Embedded!Goto, VectorsInv, BuildDomains
    <3>2. \A c \in without[w] : InStore(gen[w], c)'
      BY <1>1, <3>1 DEF InStore, Embedded!Key
    <3> QED
      BY <1>2, <1>6, <1>8, <3>1, <3>2 DEF BatchInv
  <2> QED
    BY <2>1, <2>2, <2>3, <2>4
<1> QED
  BY <1>3, <1>4, <1>5, <1>7, <1>9, QuietStep
\* The rows of a batch are marked, each with its vector; then the next, or the builder is through.
LEMMA MarkStep ==
  ASSUME Embedded!EmbeddingAssumption, VectorsInv, NEW w \in Workers, Embedded!Mark(w)
  PROVE  VectorsInv'
<1>1. /\ pc[w] = "mark" /\ alive[w] /\ own'[w] = Embedded!Marked(w) /\ left'[w] = Embedded!Rest(w)
      /\ UNCHANGED <<vectors, rows, active, settings, last, owner, holder, gen, known, without,
                     alive, asking, dropped, since>>
      /\ \A p \in Workers \ {w} : Unmoved(p)
  BY DEF Embedded!Mark, Embedded!Goto, Unmoved, VectorsInv, BuildDomains
<1>2. /\ Embedded!Rest(w) # <<>> => pc'[w] = "lookup"
      /\ Embedded!Rest(w) = <<>> => pc'[w] \in {"activate", "assert"}
  BY DEF Embedded!Mark, Embedded!Goto, VectorsInv, BuildDomains
<1>3. BatchInv(w) /\ CatalogueInv(w) /\ last \in 0 .. MaxGen /\ MaxGen \in Nat
  BY DEF VectorsInv, BuildDomains, Embedded!EmbeddingAssumption
<1>4. /\ Embedded!BatchOf(w) \subseteq Embedded!Chunks /\ Embedded!Rest(w) \in Seq(Embedded!Chunks)
      /\ \A c \in Embedded!ToSet(left[w]) : c \in Embedded!BatchOf(w) \/ c \in Embedded!ToSet(Embedded!Rest(w))
      /\ Embedded!Rest(w) = <<>> => Embedded!ToSet(Embedded!Rest(w)) = {}
  BY <1>3, BatchIsCut DEF BatchInv
<1>5. Quiet(w)
  BY <1>1, <1>3 DEF Quiet
<1>6. own[w] \in [Embedded!Chunks -> {"none", "pending", "ready"}]
      /\ Embedded!Marked(w) \in [Embedded!Chunks -> {"none", "pending", "ready"}]
  BY DEF Embedded!Marked, VectorsInv, BuildDomains
<1>7. BuildDomains'
  <2>1. own' \in [Workers -> [Embedded!Chunks -> {"none", "pending", "ready"}]]
    BY <1>6 DEF Embedded!Mark, VectorsInv, BuildDomains
  <2> QED
    BY <1>1, <2>1 DEF Embedded!Mark, Embedded!Goto, VectorsInv, BuildDomains
<1>8. HolderInv'
  BY <1>1 DEF VectorsInv, HolderInv
<1>9. BatchInv(w)'
  <2>1. ASSUME NEW c \in Embedded!Chunks, own'[w][c] = "ready", ~dropped PROVE InStore(gen[w], c)'
    <3>1. c \in Embedded!BatchOf(w) \/ own[w][c] = "ready"
      BY <1>1, <2>1 DEF Embedded!Marked
    <3>2. InStore(gen[w], c)
      BY <1>1, <1>3, <2>1, <3>1 DEF BatchInv
    <3> QED
      BY <1>1, <3>2 DEF InStore, Embedded!Key
  <2>2. pc'[w] \in {"lookup", "activate", "assert"}
    BY <1>2
  <2> QED
    BY <1>1, <1>3, <1>4, <2>1, <2>2 DEF BatchInv, Looping
<1>10. CatalogueInv(w)'
  <2> SUFFICES ASSUME settings.embedFirst PROVE CatalogueInv(w)'
    BY <1>1 DEF CatalogueInv
  <2>1. ASSUME NEW c \in Listable
        PROVE  Readied(w, c)' \/ (own'[w][c] = "pending" /\ c \in Embedded!ToSet(left'[w]))
    <3>1. c \in Embedded!Chunks
      BY CatalogueIsListed
    <3>2. gen'[w] = gen[w] /\ rows' = rows /\ own'[w][c] = Embedded!Marked(w)[c]
      BY <1>1
    <3>3. CASE Readied(w, c)
      BY <3>1, <3>2, <3>3 DEF Readied, Embedded!View, Embedded!Marked
    <3>4. CASE own[w][c] = "pending" /\ c \in Embedded!ToSet(left[w])
      <4>1. CASE c \in Embedded!BatchOf(w)
        <5>1. c \in known[w]
          BY <1>1, <1>3, <4>1 DEF BatchInv
        <5>2. own'[w][c] = "ready"
          BY <3>1, <3>2, <3>4, <4>1, <5>1 DEF Embedded!Marked, Embedded!View
        <5> QED
          BY <3>1, <5>2 DEF Readied, Embedded!View
      <4>2. CASE c \notin Embedded!BatchOf(w)
        BY <1>1, <1>4, <3>1, <3>2, <3>4, <4>2 DEF Embedded!Marked
      <4> QED
        BY <4>1, <4>2
    <3> QED
      BY <1>1, <1>3, <3>3, <3>4 DEF CatalogueInv, Looping
  <2>2. pc'[w] \in {"activate", "append", "assert"} => Embedded!ToSet(left'[w]) = {}
    BY <1>1, <1>2, <1>4
  <2> QED
    BY <2>1, <2>2 DEF CatalogueInv, Looping
<1> QED
  BY <1>5, <1>7, <1>8, <1>9, <1>10, QuietStep

\* The chunks put off get their rows, in the generation that is committed by then.
LEMMA AppendStep ==
  ASSUME Embedded!EmbeddingAssumption, VectorsInv, NEW w \in Workers, Embedded!AppendDeferred(w)
  PROVE  VectorsInv'
<1>1. /\ pc[w] = "append" /\ alive[w] /\ own'[w] = Embedded!Appended(w) /\ left'[w] = Embedded!PutOff /\ pc'[w] = "lookup"
      /\ UNCHANGED <<vectors, rows, active, settings, last, owner, holder, gen, known, without,
                     alive, asking, dropped, since>>
      /\ \A p \in Workers \ {w} : Unmoved(p)
  BY DEF Embedded!AppendDeferred, Embedded!Goto, Unmoved, VectorsInv, BuildDomains
<1>2. BatchInv(w) /\ CatalogueInv(w) /\ last \in 0 .. MaxGen /\ MaxGen \in Nat
  BY DEF VectorsInv, BuildDomains, Embedded!EmbeddingAssumption
<1>3. Quiet(w)
  BY <1>1, <1>2 DEF Quiet
<1>4. Embedded!Appended(w) \in [Embedded!Chunks -> {"none", "pending", "ready"}]
      /\ \A c \in Embedded!Chunks : Embedded!Appended(w)[c] # "ready"
  BY DEF Embedded!Appended
<1>5. BuildDomains'
  <2>1. own' \in [Workers -> [Embedded!Chunks -> {"none", "pending", "ready"}]]
    BY <1>4 DEF Embedded!AppendDeferred, VectorsInv, BuildDomains
  <2> QED
    BY <1>1, <2>1 DEF Embedded!AppendDeferred, Embedded!Goto, VectorsInv, BuildDomains
<1>6. HolderInv'
  BY <1>1 DEF VectorsInv, HolderInv
<1>7. BatchInv(w)'
  BY <1>1, <1>2, <1>4, CatalogueIsListed DEF BatchInv, Looping
<1>8. CatalogueInv(w)'
  <2> SUFFICES ASSUME settings.embedFirst PROVE CatalogueInv(w)'
    BY <1>1 DEF CatalogueInv
  <2>1. ASSUME NEW c \in Listable PROVE Readied(w, c)'
    <3>1. c \in Embedded!Chunks /\ Readied(w, c) /\ own[w][c] = "none"
      BY <1>1, <1>2, CatalogueIsListed DEF BatchInv, CatalogueInv
    <3>2. rows[gen[w]][c] = "ready"
      BY <3>1 DEF Readied, Embedded!View
    <3>3. own'[w][c] = "none"
      BY <1>1, <3>1, <3>2 DEF Embedded!Appended
    <3> QED
      BY <1>1, <3>1, <3>2, <3>3 DEF Readied, Embedded!View
  <2> QED
    BY <1>1, <2>1 DEF CatalogueInv, Looping
<1> QED
  BY <1>3, <1>5, <1>6, <1>7, <1>8, QuietStep
\* A session that ends, with the build or before it, takes its rows along.
LEMMA LostSteps ==
  ASSUME Embedded!EmbeddingAssumption, VectorsInv, NEW w \in Workers,
         Embedded!Fails(w) \/ Embedded!Dies(w) \/ Embedded!LosesSession(w)
  PROVE  VectorsInv'
<1>1. /\ UNCHANGED <<vectors, rows, active, settings, last, asking, dropped, since>>
      /\ own' = [own EXCEPT ![w] = Embedded!NoRows] /\ alive'[w] = FALSE
      /\ holder' = IF holder = w THEN None ELSE holder
      /\ \A p \in Workers \ {w} : Unmoved(p)
  BY DEF Embedded!Fails, Embedded!Dies, Embedded!LosesSession, Embedded!Forget, Embedded!Goto, Unmoved, VectorsInv, BuildDomains
<1>2. BatchInv(w) /\ last \in 0 .. MaxGen /\ MaxGen \in Nat
  BY DEF VectorsInv, BuildDomains, Embedded!EmbeddingAssumption
<1>3. Quiet(w)
  BY <1>1, <1>2 DEF Quiet
<1>4. own' \in [Workers -> [Embedded!Chunks -> {"none", "pending", "ready"}]]
      /\ \A c \in Embedded!Chunks : own'[w][c] = "none"
  BY <1>1 DEF Embedded!NoRows, VectorsInv, BuildDomains
<1>5. BuildDomains'
  BY <1>1, <1>4 DEF Embedded!Fails, Embedded!Dies, Embedded!LosesSession, Embedded!Forget, Embedded!Goto, VectorsInv, BuildDomains
<1>6. HolderInv'
  <2>1. holder' # None => holder' = holder /\ holder # w /\ holder \in Workers /\ holder = owner /\ alive[holder]
    BY <1>1 DEF VectorsInv, HolderInv
  <2>2. holder' # None => owner' = owner /\ alive'[holder] = alive[holder]
    <3>1. Embedded!Fails(w) => holder' = None
      BY <1>1 DEF Embedded!Fails
    <3>2. ~Embedded!Fails(w) => owner' = owner
      BY DEF Embedded!Dies, Embedded!LosesSession
    <3> QED
      BY <1>1, <2>1, <3>1, <3>2 DEF Unmoved
  <2>3. owner' # None => owner # None
    BY DEF Embedded!Fails, Embedded!Dies, Embedded!LosesSession
  <2> QED
    BY <1>1, <2>1, <2>2, <2>3 DEF VectorsInv, HolderInv
<1>7. BatchInv(w)'
  <2>1. CASE Embedded!LosesSession(w)
    <3>1. UNCHANGED <<pc, gen, left, known, without>>
      BY <2>1 DEF Embedded!LosesSession
    <3>2. Embedded!BatchOf(w)' = Embedded!BatchOf(w)
      BY <3>1 DEF Embedded!BatchOf
    <3> QED
      BY <1>1, <1>2, <1>4, <3>1, <3>2 DEF BatchInv, InStore, Embedded!Key
  <2>2. CASE Embedded!Forget(w)
    <3>1. pc'[w] = "idle" /\ left'[w] = <<>> /\ known'[w] = {} /\ without'[w] = {}
      BY <2>2 DEF Embedded!Forget, Embedded!Goto, VectorsInv, BuildDomains
    <3> QED
      BY <1>4, <3>1 DEF BatchInv, Looping
  <2> QED
    BY <2>1, <2>2 DEF Embedded!Fails, Embedded!Dies
<1>8. CatalogueInv(w)'
  BY <1>1 DEF CatalogueInv
<1> QED
  BY <1>3, <1>5, <1>6, <1>7, <1>8, QuietStep

\* What a builder's commit leaves: no row ready without its vector, and the catalogue embedded if
\* builds embed first.
LEMMA CommittedRows ==
  ASSUME Embedded!EmbeddingAssumption, VectorsInv, NEW w \in Workers, alive[w], pc[w] \in {"activate", "assert"},
         rows' = [rows EXCEPT ![gen[w]] = Embedded!View(w)], UNCHANGED <<vectors, settings, dropped>>
  PROVE  /\ rows' \in [Embedded!Generations -> [Embedded!Chunks -> {"none", "pending", "ready"}]]
         /\ gen[w] \in Embedded!Generations /\ rows'[gen[w]] = Embedded!View(w)
         /\ Embedded!ReadyHasPoint'
         /\ settings.embedFirst => \A c \in Listable : rows'[gen[w]][c] = "ready"
         /\ \A g \in Embedded!Generations, c \in Listable :
              settings.embedFirst /\ rows[g][c] = "ready" => rows'[g][c] = "ready"
<1>1. BatchInv(w) /\ CatalogueInv(w) /\ gen[w] \in Embedded!Generations
  BY DEF VectorsInv, BatchInv, BuildDomains, Embedded!Generations, Embedded!EmbeddingAssumption
<1>2. Embedded!View(w) \in [Embedded!Chunks -> {"none", "pending", "ready"}]
  BY <1>1 DEF Embedded!View, VectorsInv, BuildDomains
<1>3. rows' \in [Embedded!Generations -> [Embedded!Chunks -> {"none", "pending", "ready"}]]
      /\ \A g \in Embedded!Generations : rows'[g] = IF g = gen[w] THEN Embedded!View(w) ELSE rows[g]
  BY <1>1, <1>2 DEF VectorsInv, BuildDomains
<1>4. ASSUME ~dropped, NEW c \in Embedded!Chunks, Embedded!View(w)[c] = "ready" PROVE InStore(gen[w], c)
  BY <1>1, <1>4 DEF Embedded!View, BatchInv, InStore, VectorsInv, WholeInv, Embedded!ReadyHasPoint
<1>5. Embedded!ReadyHasPoint'
  <2> SUFFICES ASSUME ~dropped, NEW g \in Embedded!Generations, NEW c \in Embedded!Chunks, rows'[g][c] = "ready"
               PROVE  InStore(g, c)
    BY DEF Embedded!ReadyHasPoint, InStore, Embedded!Key
  <2> QED
    BY <1>3, <1>4 DEF InStore, VectorsInv, WholeInv, Embedded!ReadyHasPoint
<1>6. settings.embedFirst => \A c \in Listable : Embedded!View(w)[c] = "ready"
  BY <1>1 DEF CatalogueInv, Readied
<1> QED
  BY <1>1, <1>3, <1>5, <1>6
\* A step of one builder that writes rows.
LEMMA CommitStep ==
  ASSUME Embedded!EmbeddingAssumption, VectorsInv, NEW w \in Workers, Keeps,
         UNCHANGED <<vectors, last, asking, dropped>>, \A p \in Workers \ {w} : Unmoved(p),
         BuildDomains', HolderInv', WholeInv', BatchInv(w)', CatalogueInv(w)'
  PROVE  VectorsInv'
<1>1. ASSUME NEW p \in Workers PROVE BatchInv(p)' /\ CatalogueInv(p)'
  <2>1. CASE p = w
    BY <2>1
  <2>2. CASE p # w
    BY <2>2, WorkerStays
  <2> QED
    BY <2>1, <2>2
<1>2. AskingInv'
  BY DEF VectorsInv, AskingInv, InStore, Embedded!Key, Embedded!NoJob
<1> QED
  BY <1>1, <1>2 DEF VectorsInv

LEMMA ActivateStep ==
  ASSUME Embedded!EmbeddingAssumption, VectorsInv, NEW w \in Workers, Embedded!Activate(w)
  PROVE  VectorsInv'
<1>1. /\ pc[w] = "activate" /\ alive[w] /\ owner = w
      /\ pc'[w] = (IF settings.complete /\ Embedded!PutOff # <<>> THEN "append" ELSE "assert")
      /\ UNCHANGED <<vectors, settings, last, gen, left, known, without, alive, asking, dropped, since>>
  BY DEF Embedded!Activate, Embedded!Goto, VectorsInv, BuildDomains
<1>2. BatchInv(w) /\ CatalogueInv(w) /\ last \in 0 .. MaxGen /\ MaxGen \in Nat /\ gen[w] \in 1 .. last
  BY <1>1 DEF VectorsInv, BatchInv, BuildDomains, Embedded!EmbeddingAssumption
<1>3. \A p \in Workers \ {w} : Unmoved(p)
  BY <1>1 DEF Embedded!Activate, Embedded!Commit, Embedded!Goto, Unmoved, VectorsInv, BuildDomains
<1>4. CASE Embedded!Early
  <2>1. /\ rows' = [rows EXCEPT ![gen[w]] = Embedded!View(w)] /\ active' = gen[w] /\ owner' = None /\ holder' = None
        /\ own' = [own EXCEPT ![w] = Embedded!NoRows]
    BY <1>4 DEF Embedded!Activate, Embedded!Commit
  <2>2. /\ rows' \in [Embedded!Generations -> [Embedded!Chunks -> {"none", "pending", "ready"}]]
        /\ gen[w] \in Embedded!Generations /\ rows'[gen[w]] = Embedded!View(w)
        /\ Embedded!ReadyHasPoint'
        /\ settings.embedFirst => \A c \in Listable : rows'[gen[w]][c] = "ready"
        /\ \A g \in Embedded!Generations, c \in Listable :
             settings.embedFirst /\ rows[g][c] = "ready" => rows'[g][c] = "ready"
    BY <1>1, <2>1, CommittedRows
  <2>3. own' \in [Workers -> [Embedded!Chunks -> {"none", "pending", "ready"}]]
        /\ \A c \in Embedded!Chunks : own'[w][c] = "none"
    BY <2>1 DEF Embedded!NoRows, VectorsInv, BuildDomains
  <2>4. BuildDomains'
    BY <1>1, <1>2, <2>1, <2>2, <2>3 DEF Embedded!Activate, Embedded!Goto, VectorsInv, BuildDomains
  <2>5. Keeps
    BY <1>1, <1>2, <2>2 DEF Keeps
  <2>6. HolderInv'
    BY <2>1 DEF HolderInv
  <2>7. WholeInv'
    <3>1. Embedded!FinishedIsWhole' /\ (~dropped' => since' = {})
      BY <1>1 DEF VectorsInv, WholeInv, Embedded!FinishedIsWhole, Embedded!Key
    <3>2. Embedded!EmbeddedFirst'
      BY <1>1, <2>1, <2>2 DEF Embedded!EmbeddedFirst, Listable
    <3> QED
      BY <2>2, <3>1, <3>2 DEF WholeInv
  <2>8. BatchInv(w)'
    BY <1>1, <1>2, <2>3 DEF BatchInv, Looping
  <2>9. CatalogueInv(w)'
    <3>1. ASSUME settings.embedFirst, NEW c \in Listable PROVE Readied(w, c)'
      <4>1. c \in Embedded!Chunks
        BY CatalogueIsListed
      <4> QED
        BY <1>1, <2>2, <2>3, <3>1, <4>1 DEF Readied, Embedded!View
    <3> QED
      BY <1>1, <3>1 DEF CatalogueInv, Looping
  <2> QED
    BY <1>1, <1>3, <2>4, <2>5, <2>6, <2>7, <2>8, <2>9, CommitStep
<1>5. CASE ~Embedded!Early
  <2>1. UNCHANGED <<rows, active, owner, holder, own>>
    BY <1>5 DEF Embedded!Activate
  <2>2. pc'[w] = "assert"
    BY <1>1, <1>5 DEF Embedded!Early
  <2>3. Quiet(w)
    BY <1>1, <1>2, <1>3, <2>1 DEF Quiet
  <2>4. BuildDomains'
    BY <1>1, <2>1 DEF Embedded!Activate, Embedded!Goto, VectorsInv, BuildDomains
  <2>5. HolderInv'
    BY <1>1, <2>1 DEF VectorsInv, HolderInv
  <2>6. BatchInv(w)'
    BY <1>1, <1>2, <2>1, <2>2 DEF BatchInv, InStore, Embedded!Key, Looping
  <2>7. CatalogueInv(w)'
    BY <1>1, <1>2, <2>1, <2>2 DEF CatalogueInv, Readied, Embedded!View, Looping
  <2> QED
    BY <2>3, <2>4, <2>5, <2>6, <2>7, QuietStep
<1> QED
  BY <1>4, <1>5

LEMMA FinishStep ==
  ASSUME Embedded!EmbeddingAssumption, VectorsInv, NEW w \in Workers, Embedded!Finish(w)
  PROVE  VectorsInv'
<1>1. /\ pc[w] = "assert" /\ alive[w] /\ Embedded!ToCheck(w) \subseteq Embedded!Held(gen[w], Embedded!Chunks)
      /\ rows' = [rows EXCEPT ![gen[w]] = Embedded!View(w)]
      /\ since' = (IF dropped THEN since \cup {gen[w]} ELSE since)
      /\ own' = [own EXCEPT ![w] = Embedded!NoRows] /\ alive'[w] = FALSE
      /\ pc'[w] = "idle" /\ left'[w] = <<>> /\ known'[w] = {} /\ without'[w] = {}
      /\ UNCHANGED <<vectors, settings, last, asking, dropped>>
  BY DEF Embedded!Finish, Embedded!Commit, Embedded!Goto, VectorsInv, BuildDomains
<1>2. BatchInv(w) /\ CatalogueInv(w) /\ last \in 0 .. MaxGen /\ MaxGen \in Nat /\ gen[w] \in 1 .. last
  BY <1>1 DEF VectorsInv, BatchInv, BuildDomains, Embedded!EmbeddingAssumption
<1>3. \A p \in Workers \ {w} : Unmoved(p)
  BY DEF Embedded!Finish, Embedded!Goto, Unmoved, VectorsInv, BuildDomains
<1>4. \/ active' = gen[w] /\ owner' = None /\ holder' = None
      \/ holder # w /\ UNCHANGED <<active, owner, holder>>
  BY DEF Embedded!Finish, Embedded!Commit
<1>5. /\ rows' \in [Embedded!Generations -> [Embedded!Chunks -> {"none", "pending", "ready"}]]
      /\ gen[w] \in Embedded!Generations /\ rows'[gen[w]] = Embedded!View(w)
      /\ Embedded!ReadyHasPoint'
      /\ settings.embedFirst => \A c \in Listable : rows'[gen[w]][c] = "ready"
      /\ \A g \in Embedded!Generations, c \in Listable :
           settings.embedFirst /\ rows[g][c] = "ready" => rows'[g][c] = "ready"
  BY <1>1, CommittedRows
<1>6. own' \in [Workers -> [Embedded!Chunks -> {"none", "pending", "ready"}]]
      /\ \A c \in Embedded!Chunks : own'[w][c] = "none"
  BY <1>1 DEF Embedded!NoRows, VectorsInv, BuildDomains
<1>7. BuildDomains'
  BY <1>1, <1>2, <1>4, <1>5, <1>6 DEF Embedded!Finish, Embedded!Goto, VectorsInv, BuildDomains
<1>8. Keeps
  BY <1>1, <1>2, <1>5 DEF Keeps
<1>9. HolderInv'
  BY <1>1, <1>3, <1>4 DEF VectorsInv, HolderInv, Unmoved
<1>10. WholeInv'
  <2>1. Embedded!EmbeddedFirst'
    <3>1. CASE active' = gen[w]
      BY <1>1, <1>5, <3>1 DEF Embedded!EmbeddedFirst, Listable
    <3>2. CASE active' = active
      <4>1. active # 0 => active \in Embedded!Generations
        BY <1>2 DEF VectorsInv, BuildDomains, Embedded!Generations
      <4> QED
        BY <1>1, <1>5, <3>2, <4>1 DEF VectorsInv, WholeInv, Embedded!EmbeddedFirst, Listable
    <3> QED
      BY <1>4, <3>1, <3>2
  <2>2. Embedded!FinishedIsWhole'
    <3>1. ASSUME settings.embedFirst, NEW c \in Listable PROVE InStore(gen[w], c)
      <4>1. c \in Embedded!Chunks /\ c \in Embedded!Indexed /\ Embedded!View(w)[c] = "ready"
        BY <1>1, <1>2, <3>1, CatalogueIsListed DEF Embedded!Indexed, Listable, CatalogueInv, Readied
      <4>2. c \in Embedded!ToCheck(w)
        BY <4>1 DEF Embedded!ToCheck
      <4> QED
        BY <1>1, <4>2 DEF Embedded!Held, InStore
    <3>2. settings.embedFirst => \A g \in since, c \in Listable : InStore(g, c)
      BY DEF VectorsInv, WholeInv, Embedded!FinishedIsWhole, InStore, Listable
    <3>3. settings.embedFirst => \A g \in since', c \in Listable : InStore(g, c)
      BY <1>1, <3>1, <3>2
    <3> QED
      BY <1>1, <3>3 DEF Embedded!FinishedIsWhole, InStore, Embedded!Key, Listable
  <2>3. ~dropped' => since' = {}
    BY <1>1 DEF VectorsInv, WholeInv
  <2> QED
    BY <1>5, <2>1, <2>2, <2>3 DEF WholeInv
<1>11. BatchInv(w)'
  BY <1>1, <1>6 DEF BatchInv, Looping
<1>12. CatalogueInv(w)'
  BY <1>1 DEF CatalogueInv
<1> QED
  BY <1>1, <1>3, <1>7, <1>8, <1>9, <1>10, <1>11, <1>12, CommitStep
\* Questions, the late deletion, and nothing at all: no builder moves.
LEMMA NoBuilderMoves ==
  ASSUME Embedded!EmbeddingAssumption, VectorsInv, Keeps,
         UNCHANGED <<active, settings, last, owner, holder, Embedded!build, since>>,
         rows' \in [Embedded!Generations -> [Embedded!Chunks -> {"none", "pending", "ready"}]],
         vectors' \subseteq {Embedded!Key(g, c) : g \in Embedded!Generations, c \in Embedded!Chunks},
         AskingInv', WholeInv'
  PROVE  VectorsInv'
<1>1. \A w \in Workers : Unmoved(w)
  BY DEF Unmoved, Embedded!build
<1>2. \A w \in Workers : BatchInv(w)' /\ CatalogueInv(w)'
  BY <1>1, WorkerStays
<1>3. BuildDomains'
  BY DEF VectorsInv, BuildDomains, Embedded!build
<1>4. HolderInv'
  BY DEF VectorsInv, HolderInv, Embedded!build
<1> QED
  BY <1>2, <1>3, <1>4 DEF VectorsInv

LEMMA AskSteps ==
  ASSUME Embedded!EmbeddingAssumption, VectorsInv,
         Embedded!AskPut \/ Embedded!AskMark \/ Embedded!AskFails \/ Embedded!Drop \/ UNCHANGED Embedded!vars
  PROVE  VectorsInv'
<1>1. UNCHANGED <<active, settings, last, owner, holder, Embedded!build, since>>
  BY DEF Embedded!AskPut, Embedded!AskMark, Embedded!AskFails, Embedded!Drop, Embedded!vars
<1>2. last \in 0 .. MaxGen /\ MaxGen \in Nat /\ active \in 0 .. last
  BY DEF VectorsInv, BuildDomains, Embedded!EmbeddingAssumption
<1>3. CASE Embedded!AskPut
  <2>1. PICK c \in Listable \cup Embedded!ToSet(Embedded!PutOff) :
          asking' = [gen |-> active, chunk |-> c] /\ vectors' = vectors \cup {Embedded!Key(active, c)}
    BY <1>3 DEF Embedded!AskPut, Listable
  <2>2. c \in Embedded!Chunks /\ active \in Embedded!Generations /\ active \in 1 .. last /\ UNCHANGED <<rows, dropped>>
    BY <1>2, <1>3, CatalogueIsListed DEF Embedded!AskPut, Embedded!Generations
  <2>3. Keeps
    BY <1>1, <1>2, <2>1, <2>2 DEF Keeps
  <2>4. AskingInv'
    BY <1>1, <2>1, <2>2 DEF AskingInv, InStore, Embedded!Key
  <2>5. WholeInv'
    BY <1>1, <2>1, <2>2 DEF VectorsInv, WholeInv, Embedded!ReadyHasPoint, Embedded!FinishedIsWhole, Embedded!EmbeddedFirst,
       Embedded!Key
  <2>6. vectors' \subseteq {Embedded!Key(g, d) : g \in Embedded!Generations, d \in Embedded!Chunks}
    BY <2>1, <2>2 DEF VectorsInv, BuildDomains
  <2>7. rows' \in [Embedded!Generations -> [Embedded!Chunks -> {"none", "pending", "ready"}]]
    BY <2>2 DEF VectorsInv, BuildDomains
  <2> QED
    BY <1>1, <2>3, <2>4, <2>5, <2>6, <2>7, NoBuilderMoves
<1>4. CASE Embedded!AskMark
  <2> DEFINE g == asking.gen
             c == asking.chunk
  <2>1. /\ rows' = [rows EXCEPT ![g] = [rows[g] EXCEPT ![c] = "ready"]]
        /\ asking' = Embedded!NoJob /\ UNCHANGED <<vectors, dropped>>
        /\ g \in Embedded!Generations /\ c \in Embedded!Chunks /\ (~dropped => InStore(g, c))
    BY <1>2, <1>4 DEF Embedded!AskMark, VectorsInv, AskingInv, Embedded!Generations
  <2> HIDE DEF g, c
  <2>2. /\ rows' \in [Embedded!Generations -> [Embedded!Chunks -> {"none", "pending", "ready"}]]
        /\ \A h \in Embedded!Generations, d \in Embedded!Chunks :
             rows'[h][d] = IF h = g /\ d = c THEN "ready" ELSE rows[h][d]
    BY <2>1 DEF VectorsInv, BuildDomains
  <2>3. Keeps
    BY <1>1, <1>2, <2>1, <2>2, CatalogueIsListed DEF Keeps
  <2>4. AskingInv'
    BY <2>1 DEF AskingInv, Embedded!NoJob
  <2>5. WholeInv'
    <3>1. Embedded!ReadyHasPoint'
      BY <2>1, <2>2 DEF VectorsInv, WholeInv, Embedded!ReadyHasPoint, InStore, Embedded!Key
    <3>2. Embedded!FinishedIsWhole' /\ (~dropped' => since' = {})
      BY <1>1, <2>1 DEF VectorsInv, WholeInv, Embedded!FinishedIsWhole, Embedded!Key
    <3>3. Embedded!EmbeddedFirst'
      <4>1. active # 0 => active \in Embedded!Generations
        BY <1>2 DEF Embedded!Generations
      <4> QED
        BY <1>1, <2>2, <4>1, CatalogueIsListed DEF VectorsInv, WholeInv, Embedded!EmbeddedFirst, Listable
    <3> QED
      BY <3>1, <3>2, <3>3 DEF WholeInv
  <2> QED
    BY <1>1, <2>1, <2>2, <2>3, <2>4, <2>5, NoBuilderMoves DEF VectorsInv, BuildDomains
<1>5. CASE Embedded!AskFails \/ UNCHANGED Embedded!vars
  <2>1. UNCHANGED <<vectors, rows, dropped>> /\ (asking' = asking \/ asking' = Embedded!NoJob)
    BY <1>5 DEF Embedded!AskFails, Embedded!vars
  <2>2. Keeps
    BY <1>1, <1>2, <2>1 DEF Keeps
  <2>3. AskingInv'
    BY <1>1, <2>1 DEF VectorsInv, AskingInv, InStore, Embedded!Key, Embedded!NoJob
  <2>4. WholeInv'
    BY <1>1, <2>1 DEF VectorsInv, WholeInv, Embedded!ReadyHasPoint, Embedded!FinishedIsWhole, Embedded!EmbeddedFirst, Embedded!Key
  <2> QED
    BY <1>1, <2>1, <2>2, <2>3, <2>4, NoBuilderMoves DEF VectorsInv, BuildDomains
<1>6. CASE Embedded!Drop
  <2>1. dropped' = TRUE /\ vectors' = {} /\ ~dropped /\ UNCHANGED <<rows, asking>>
    BY <1>6 DEF Embedded!Drop
  <2>2. Keeps
    BY <1>1, <1>2, <2>1 DEF Keeps
  <2>3. AskingInv'
    BY <1>1, <2>1 DEF VectorsInv, AskingInv, Embedded!NoJob
  <2>4. WholeInv'
    BY <1>1, <2>1 DEF VectorsInv, WholeInv, Embedded!ReadyHasPoint, Embedded!FinishedIsWhole, Embedded!EmbeddedFirst
  <2> QED
    BY <1>1, <2>1, <2>2, <2>3, <2>4, NoBuilderMoves DEF VectorsInv, BuildDomains
<1> QED
  BY <1>3, <1>4, <1>5, <1>6

LEMMA VectorsKept ==
  Embedded!EmbeddingAssumption /\ VectorsInv /\ [Embedded!Next]_Embedded!vars => VectorsInv'
<1> SUFFICES ASSUME Embedded!EmbeddingAssumption, VectorsInv, [Embedded!Next]_Embedded!vars PROVE VectorsInv'
  OBVIOUS
<1>1. ASSUME NEW w \in Workers,
             \/ Embedded!Start(w) \/ Embedded!Adopt(w) \/ Embedded!Lookup(w) \/ Embedded!Embed(w) \/ Embedded!Look(w)
             \/ Embedded!Put(w) \/ Embedded!Mark(w) \/ Embedded!Activate(w) \/ Embedded!AppendDeferred(w)
             \/ Embedded!Finish(w) \/ Embedded!Fails(w) \/ Embedded!Dies(w) \/ Embedded!LosesSession(w)
      PROVE  VectorsInv'
  BY <1>1, BeginStep, LookupSteps, MarkStep, ActivateStep, AppendStep, FinishStep, LostSteps
<1> QED
  BY <1>1, AskSteps DEF Embedded!Next

(* pipeline.py, embedding_reuse.py and vector_store.py: builds that        *)
(* overlap, lose their session and are taken over, and questions that      *)
(* embed on their own, leave no row ready without its vector; a build that *)
(* ends after the late deletion has all of its own, and where builds embed *)
(* first questions find the whole catalogue embedded.                      *)
THEOREM VectorsAreThere ==
  ASSUME Embedded!EmbeddingAssumption
  PROVE  Embedded!Spec => [](Embedded!TypeOK /\ Embedded!ReadyHasPoint /\ Embedded!FinishedIsWhole /\ Embedded!EmbeddedFirst)
<1>1. Embedded!Init => VectorsInv
  BY VectorsInit
<1>2. VectorsInv /\ [Embedded!Next]_Embedded!vars => VectorsInv'
  BY VectorsKept
<1>3. VectorsInv => Embedded!TypeOK /\ Embedded!ReadyHasPoint /\ Embedded!FinishedIsWhole /\ Embedded!EmbeddedFirst
  BY DEF VectorsInv, WholeInv, BuildDomains, HolderInv, BatchInv, Embedded!TypeOK
<1> QED
  BY <1>1, <1>2, <1>3, PTL DEF Embedded!Spec

-----------------------------------------------------------------------------
(* For every set of entities, words for the types and sizes of the parts:  *)
(* equal bytes come from equal types and equal components.  A frame can be *)
(* peeled off the front of what is hashed because its length stands before *)
(* its payload (PeelFrame); the type is peeled first, then each component. *)

Begins(x, t, v, r) == x = Frame(t, v) \o r

\* A frame is bytes.
LEMMA FrameIsBytes == ASSUME NEW t \in Nat, NEW v \in Bytes PROVE Frame(t, v) \in Bytes
  BY DEF Frame, Bytes
\* Bytes followed by bytes are bytes.
LEMMA Joined == ASSUME NEW r \in Bytes, NEW s \in Bytes PROVE r \o s \in Bytes
  BY DEF Bytes
\* So is every component as it is written.
LEMMA Framed ==
  /\ \A v \in Bytes : FrameText(v) \in Bytes /\ FrameUuid(v) \in Bytes /\ FrameBytes(v) \in Bytes
  /\ \A n \in Nat : <<n>> \in Bytes /\ FrameUint(n) \in Bytes
<1>1. \A v \in Bytes : Frame(1, v) \in Bytes /\ Frame(2, v) \in Bytes /\ Frame(3, v) \in Bytes
  BY FrameIsBytes
<1>2. \A n \in Nat : <<n>> \in Bytes
  BY DEF Bytes
<1>3. \A n \in Nat : Frame(4, <<n>>) \in Bytes
  BY <1>2, FrameIsBytes
<1> QED BY <1>1, <1>2, <1>3 DEF FrameText, FrameUuid, FrameBytes, FrameUint

\* Where the length, the payload and what follows a frame stand.
LEMMA FrameParts ==
  ASSUME NEW t \in Nat, NEW v \in Bytes, NEW r \in Bytes, NEW x, Begins(x, t, v, r)
  PROVE  /\ Len(x) = 2 + Len(v) + Len(r)
         /\ x[2] = Len(v)
         /\ \A i \in 1..Len(v) : x[2 + i] = v[i]
         /\ \A i \in 1..Len(r) : x[2 + Len(v) + i] = r[i]
  BY DEF Begins, Frame, Bytes

\* Of two frames that begin the same bytes, the payloads and what follows are the same.
LEMMA PeelFrame ==
  ASSUME NEW t \in Nat, NEW v \in Bytes, NEW w \in Bytes, NEW r \in Bytes, NEW s \in Bytes, NEW x,
         Begins(x, t, v, r), Begins(x, t, w, s)
  PROVE  v = w /\ r = s
<1>1. /\ Len(x) = 2 + Len(v) + Len(r)
      /\ x[2] = Len(v)
      /\ \A i \in 1..Len(v) : x[2 + i] = v[i]
      /\ \A i \in 1..Len(r) : x[2 + Len(v) + i] = r[i]
  BY FrameParts
<1>2. /\ Len(x) = 2 + Len(w) + Len(s)
      /\ x[2] = Len(w)
      /\ \A i \in 1..Len(w) : x[2 + i] = w[i]
      /\ \A i \in 1..Len(s) : x[2 + Len(w) + i] = s[i]
  BY FrameParts
<1>3. Len(v) = Len(w) /\ Len(r) = Len(s) /\ Len(v) \in Nat /\ Len(r) \in Nat
  BY <1>1, <1>2 DEF Bytes
<1>4. \A i \in 1..Len(v) : v[i] = w[i]
  BY <1>1, <1>2, <1>3
<1>5. \A i \in 1..Len(r) : r[i] = s[i]
  BY <1>1, <1>2, <1>3
<1>6. v = w
  BY <1>3, <1>4, SeqEqual DEF Bytes
<1>7. r = s
  BY <1>3, <1>5, SeqEqual DEF Bytes
<1> QED BY <1>6, <1>7

\* Nothing need follow.
LEMMA SameFrame ==
  ASSUME NEW t \in Nat, NEW v \in Bytes, NEW w \in Bytes, Frame(t, v) = Frame(t, w)
  PROVE  v = w
<1>1. <<>> \in Bytes
  BY DEF Bytes
<1>2. Begins(Frame(t, v) \o <<>>, t, v, <<>>) /\ Begins(Frame(t, v) \o <<>>, t, w, <<>>)
  BY DEF Begins
<1> QED BY <1>1, <1>2, PeelFrame

\* The first frame is the type: equal bytes are of one type, and of equal components.
LEMMA SameType ==
  ASSUME NEW t \in EntityTypes \cup RelationTypes, NEW u \in EntityTypes \cup RelationTypes,
         NEW r \in Bytes, NEW s \in Bytes, EntityId(t, r) = EntityId(u, s)
  PROVE  t = u /\ r = s
<1>1. TypeName[t] \in Bytes /\ TypeName[u] \in Bytes
  BY NameAssumption DEF Bytes
<1>2. Begins(EntityId(t, r), 1, TypeName[t], r) /\ Begins(EntityId(t, r), 1, TypeName[u], s)
  BY DEF Begins, EntityId, FrameText
<1>3. TypeName[t] = TypeName[u] /\ r = s
  BY <1>1, <1>2, PeelFrame
<1> QED BY <1>3, NameAssumption

\* Repositories: what follows the type is bytes, and the name gives back each component.
LEMMA RepositoryTyped ==
  ASSUME NEW a \in Parts("repository")
  PROVE  /\ a[1] \in Bytes
         /\ \E r \in Bytes : RepositoryId(a) = EntityId("repository", r)
<1> DEFINE A1 == FrameText(a[1])
<1>1. a[1] \in Bytes
  BY DEF Parts, Uuid
<1>2. A1 \in Bytes
  BY <1>1, Framed
<1>3. RepositoryId(a) = EntityId("repository", A1)
  BY DEF RepositoryId
<1> HIDE DEF A1
<1> QED BY <1>1, <1>2, <1>3
\* The same bytes give the same components.
LEMMA RepositoryDistinct ==
  ASSUME NEW a \in Parts("repository"), NEW b \in Parts("repository"),
         RepositoryId(a) = RepositoryId(b)
  PROVE  a = b
<1> DEFINE A1 == FrameText(a[1])
           B1 == FrameText(b[1])
<1>1. a[1] \in Bytes
  BY RepositoryTyped
<1>2. b[1] \in Bytes
  BY RepositoryTyped
<1>3. A1 \in Bytes /\ B1 \in Bytes
  BY <1>1, <1>2, Framed
<1>4. A1 = B1
  <2>1. EntityId("repository", A1) = EntityId("repository", B1)
    BY DEF RepositoryId
  <2>2. "repository" \in EntityTypes \cup RelationTypes
    BY TypesAssumption
  <2> HIDE DEF A1, B1
  <2> QED BY <2>1, <2>2, <1>3, SameType
<1>5. a[1] = b[1]
  <2>1. Frame(1, a[1]) = Frame(1, b[1])
    BY <1>4 DEF FrameText
  <2>2. a[1] \in Bytes /\ b[1] \in Bytes
    BY <1>1, <1>2, Framed
  <2> HIDE DEF A1, B1
  <2> QED BY <2>1, <2>2, SameFrame
<1> QED BY <1>5 DEF Parts

\* Source revisions: what follows the type is bytes, and the name gives back each component.
LEMMA RevisionTyped ==
  ASSUME NEW a \in Parts("source_revision")
  PROVE  /\ a[1] \in Bytes /\ a[2] \in Bytes
         /\ \E r \in Bytes : RevisionId(a) = EntityId("source_revision", r)
<1> DEFINE A2 == FrameText(a[2])
           A1 == FrameUuid(a[1]) \o A2
<1>1. a[1] \in Bytes /\ a[2] \in Bytes
  BY DEF Parts, Uuid
<1>2. A2 \in Bytes
  BY <1>1, Framed
<1>3. A1 \in Bytes
  <2>1. FrameUuid(a[1]) \in Bytes
    BY <1>1, Framed
  <2> HIDE DEF A2
  <2> QED BY <2>1, <1>2, Joined
<1>4. RevisionId(a) = EntityId("source_revision", A1)
  BY DEF RevisionId
<1> HIDE DEF A1
<1> QED BY <1>1, <1>3, <1>4
\* The same bytes give the same components.
LEMMA RevisionDistinct ==
  ASSUME NEW a \in Parts("source_revision"), NEW b \in Parts("source_revision"),
         RevisionId(a) = RevisionId(b)
  PROVE  a = b
<1> DEFINE A2 == FrameText(a[2])
           B2 == FrameText(b[2])
           A1 == FrameUuid(a[1]) \o A2
           B1 == FrameUuid(b[1]) \o B2
<1>1. a[1] \in Bytes /\ a[2] \in Bytes
  BY RevisionTyped
<1>2. b[1] \in Bytes /\ b[2] \in Bytes
  BY RevisionTyped
<1>3. A2 \in Bytes /\ B2 \in Bytes
  BY <1>1, <1>2, Framed
<1>4. A1 \in Bytes /\ B1 \in Bytes
  <2>1. FrameUuid(a[1]) \in Bytes /\ FrameUuid(b[1]) \in Bytes
    BY <1>1, <1>2, Framed
  <2> HIDE DEF A2, B2
  <2> QED BY <2>1, <1>3, Joined
<1>5. A1 = B1
  <2>1. EntityId("source_revision", A1) = EntityId("source_revision", B1)
    BY DEF RevisionId
  <2>2. "source_revision" \in EntityTypes \cup RelationTypes
    BY TypesAssumption
  <2> HIDE DEF A1, B1
  <2> QED BY <2>1, <2>2, <1>4, SameType
<1>6. a[1] = b[1] /\ A2 = B2
  <2>1. Begins(A1, 2, a[1], A2) /\ Begins(A1, 2, b[1], B2)
    BY <1>5 DEF Begins, FrameUuid
  <2> HIDE DEF A1, A2, B2
  <2>2. a[1] \in Bytes /\ b[1] \in Bytes
    BY <1>1, <1>2, Framed
  <2> QED BY <2>1, <2>2, <1>3, PeelFrame
<1>7. a[2] = b[2]
  <2>1. Frame(1, a[2]) = Frame(1, b[2])
    BY <1>6 DEF FrameText
  <2>2. a[2] \in Bytes /\ b[2] \in Bytes
    BY <1>1, <1>2, Framed
  <2> HIDE DEF A2, B2
  <2> QED BY <2>1, <2>2, SameFrame
<1> QED BY <1>6, <1>7 DEF Parts

\* Logical files: what follows the type is bytes, and the name gives back each component.
LEMMA FileKeyTyped ==
  ASSUME NEW a \in Parts("logical_file")
  PROVE  /\ a[1] \in Bytes /\ a[2] \in Bytes
         /\ \E r \in Bytes : FileKey(a) = EntityId("logical_file", r)
<1> DEFINE A2 == FrameText(a[2])
           A1 == FrameUuid(a[1]) \o A2
<1>1. a[1] \in Bytes /\ a[2] \in Bytes
  BY DEF Parts, Uuid
<1>2. A2 \in Bytes
  BY <1>1, Framed
<1>3. A1 \in Bytes
  <2>1. FrameUuid(a[1]) \in Bytes
    BY <1>1, Framed
  <2> HIDE DEF A2
  <2> QED BY <2>1, <1>2, Joined
<1>4. FileKey(a) = EntityId("logical_file", A1)
  BY DEF FileKey
<1> HIDE DEF A1
<1> QED BY <1>1, <1>3, <1>4
\* The same bytes give the same components.
LEMMA FileKeyDistinct ==
  ASSUME NEW a \in Parts("logical_file"), NEW b \in Parts("logical_file"),
         FileKey(a) = FileKey(b)
  PROVE  a = b
<1> DEFINE A2 == FrameText(a[2])
           B2 == FrameText(b[2])
           A1 == FrameUuid(a[1]) \o A2
           B1 == FrameUuid(b[1]) \o B2
<1>1. a[1] \in Bytes /\ a[2] \in Bytes
  BY FileKeyTyped
<1>2. b[1] \in Bytes /\ b[2] \in Bytes
  BY FileKeyTyped
<1>3. A2 \in Bytes /\ B2 \in Bytes
  BY <1>1, <1>2, Framed
<1>4. A1 \in Bytes /\ B1 \in Bytes
  <2>1. FrameUuid(a[1]) \in Bytes /\ FrameUuid(b[1]) \in Bytes
    BY <1>1, <1>2, Framed
  <2> HIDE DEF A2, B2
  <2> QED BY <2>1, <1>3, Joined
<1>5. A1 = B1
  <2>1. EntityId("logical_file", A1) = EntityId("logical_file", B1)
    BY DEF FileKey
  <2>2. "logical_file" \in EntityTypes \cup RelationTypes
    BY TypesAssumption
  <2> HIDE DEF A1, B1
  <2> QED BY <2>1, <2>2, <1>4, SameType
<1>6. a[1] = b[1] /\ A2 = B2
  <2>1. Begins(A1, 2, a[1], A2) /\ Begins(A1, 2, b[1], B2)
    BY <1>5 DEF Begins, FrameUuid
  <2> HIDE DEF A1, A2, B2
  <2>2. a[1] \in Bytes /\ b[1] \in Bytes
    BY <1>1, <1>2, Framed
  <2> QED BY <2>1, <2>2, <1>3, PeelFrame
<1>7. a[2] = b[2]
  <2>1. Frame(1, a[2]) = Frame(1, b[2])
    BY <1>6 DEF FrameText
  <2>2. a[2] \in Bytes /\ b[2] \in Bytes
    BY <1>1, <1>2, Framed
  <2> HIDE DEF A2, B2
  <2> QED BY <2>1, <2>2, SameFrame
<1> QED BY <1>6, <1>7 DEF Parts

\* Directories: what follows the type is bytes, and the name gives back each component.
LEMMA DirectoryTyped ==
  ASSUME NEW a \in Parts("directory")
  PROVE  /\ a[1] \in Bytes /\ a[2] \in Bytes
         /\ \E r \in Bytes : DirectoryId(a) = EntityId("directory", r)
<1> DEFINE A2 == FrameText(a[2])
           A1 == FrameUuid(a[1]) \o A2
<1>1. a[1] \in Bytes /\ a[2] \in Bytes
  BY DEF Parts, Uuid
<1>2. A2 \in Bytes
  BY <1>1, Framed
<1>3. A1 \in Bytes
  <2>1. FrameUuid(a[1]) \in Bytes
    BY <1>1, Framed
  <2> HIDE DEF A2
  <2> QED BY <2>1, <1>2, Joined
<1>4. DirectoryId(a) = EntityId("directory", A1)
  BY DEF DirectoryId
<1> HIDE DEF A1
<1> QED BY <1>1, <1>3, <1>4
\* The same bytes give the same components.
LEMMA DirectoryDistinct ==
  ASSUME NEW a \in Parts("directory"), NEW b \in Parts("directory"),
         DirectoryId(a) = DirectoryId(b)
  PROVE  a = b
<1> DEFINE A2 == FrameText(a[2])
           B2 == FrameText(b[2])
           A1 == FrameUuid(a[1]) \o A2
           B1 == FrameUuid(b[1]) \o B2
<1>1. a[1] \in Bytes /\ a[2] \in Bytes
  BY DirectoryTyped
<1>2. b[1] \in Bytes /\ b[2] \in Bytes
  BY DirectoryTyped
<1>3. A2 \in Bytes /\ B2 \in Bytes
  BY <1>1, <1>2, Framed
<1>4. A1 \in Bytes /\ B1 \in Bytes
  <2>1. FrameUuid(a[1]) \in Bytes /\ FrameUuid(b[1]) \in Bytes
    BY <1>1, <1>2, Framed
  <2> HIDE DEF A2, B2
  <2> QED BY <2>1, <1>3, Joined
<1>5. A1 = B1
  <2>1. EntityId("directory", A1) = EntityId("directory", B1)
    BY DEF DirectoryId
  <2>2. "directory" \in EntityTypes \cup RelationTypes
    BY TypesAssumption
  <2> HIDE DEF A1, B1
  <2> QED BY <2>1, <2>2, <1>4, SameType
<1>6. a[1] = b[1] /\ A2 = B2
  <2>1. Begins(A1, 2, a[1], A2) /\ Begins(A1, 2, b[1], B2)
    BY <1>5 DEF Begins, FrameUuid
  <2> HIDE DEF A1, A2, B2
  <2>2. a[1] \in Bytes /\ b[1] \in Bytes
    BY <1>1, <1>2, Framed
  <2> QED BY <2>1, <2>2, <1>3, PeelFrame
<1>7. a[2] = b[2]
  <2>1. Frame(1, a[2]) = Frame(1, b[2])
    BY <1>6 DEF FrameText
  <2>2. a[2] \in Bytes /\ b[2] \in Bytes
    BY <1>1, <1>2, Framed
  <2> HIDE DEF A2, B2
  <2> QED BY <2>1, <2>2, SameFrame
<1> QED BY <1>6, <1>7 DEF Parts

\* Files: what follows the type is bytes, and the name gives back each component.
LEMMA FileTyped ==
  ASSUME NEW a \in Parts("file")
  PROVE  /\ a[1] \in Bytes /\ a[2] \in Bytes /\ a[3] \in Bytes
         /\ \E r \in Bytes : FileId(a) = EntityId("file", r)
<1> DEFINE A3 == FrameBytes(a[3])
           A2 == FrameText(a[2]) \o A3
           A1 == FrameUuid(a[1]) \o A2
<1>1. a[1] \in Bytes /\ a[2] \in Bytes /\ a[3] \in Bytes
  BY DEF Parts, Uuid
<1>2. A3 \in Bytes
  BY <1>1, Framed
<1>3. A2 \in Bytes
  <2>1. FrameText(a[2]) \in Bytes
    BY <1>1, Framed
  <2> HIDE DEF A3
  <2> QED BY <2>1, <1>2, Joined
<1>4. A1 \in Bytes
  <2>1. FrameUuid(a[1]) \in Bytes
    BY <1>1, Framed
  <2> HIDE DEF A2
  <2> QED BY <2>1, <1>3, Joined
<1>5. FileId(a) = EntityId("file", A1)
  BY DEF FileId
<1> HIDE DEF A1
<1> QED BY <1>1, <1>4, <1>5
\* The same bytes give the same components.
LEMMA FileDistinct ==
  ASSUME NEW a \in Parts("file"), NEW b \in Parts("file"),
         FileId(a) = FileId(b)
  PROVE  a = b
<1> DEFINE A3 == FrameBytes(a[3])
           B3 == FrameBytes(b[3])
           A2 == FrameText(a[2]) \o A3
           B2 == FrameText(b[2]) \o B3
           A1 == FrameUuid(a[1]) \o A2
           B1 == FrameUuid(b[1]) \o B2
<1>1. a[1] \in Bytes /\ a[2] \in Bytes /\ a[3] \in Bytes
  BY FileTyped
<1>2. b[1] \in Bytes /\ b[2] \in Bytes /\ b[3] \in Bytes
  BY FileTyped
<1>3. A3 \in Bytes /\ B3 \in Bytes
  BY <1>1, <1>2, Framed
<1>4. A2 \in Bytes /\ B2 \in Bytes
  <2>1. FrameText(a[2]) \in Bytes /\ FrameText(b[2]) \in Bytes
    BY <1>1, <1>2, Framed
  <2> HIDE DEF A3, B3
  <2> QED BY <2>1, <1>3, Joined
<1>5. A1 \in Bytes /\ B1 \in Bytes
  <2>1. FrameUuid(a[1]) \in Bytes /\ FrameUuid(b[1]) \in Bytes
    BY <1>1, <1>2, Framed
  <2> HIDE DEF A2, B2
  <2> QED BY <2>1, <1>4, Joined
<1>6. A1 = B1
  <2>1. EntityId("file", A1) = EntityId("file", B1)
    BY DEF FileId
  <2>2. "file" \in EntityTypes \cup RelationTypes
    BY TypesAssumption
  <2> HIDE DEF A1, B1
  <2> QED BY <2>1, <2>2, <1>5, SameType
<1>7. a[1] = b[1] /\ A2 = B2
  <2>1. Begins(A1, 2, a[1], A2) /\ Begins(A1, 2, b[1], B2)
    BY <1>6 DEF Begins, FrameUuid
  <2> HIDE DEF A1, A2, B2
  <2>2. a[1] \in Bytes /\ b[1] \in Bytes
    BY <1>1, <1>2, Framed
  <2> QED BY <2>1, <2>2, <1>4, PeelFrame
<1>8. a[2] = b[2] /\ A3 = B3
  <2>1. Begins(A2, 1, a[2], A3) /\ Begins(A2, 1, b[2], B3)
    BY <1>7 DEF Begins, FrameText
  <2> HIDE DEF A2, A3, B3
  <2>2. a[2] \in Bytes /\ b[2] \in Bytes
    BY <1>1, <1>2, Framed
  <2> QED BY <2>1, <2>2, <1>3, PeelFrame
<1>9. a[3] = b[3]
  <2>1. Frame(3, a[3]) = Frame(3, b[3])
    BY <1>8 DEF FrameBytes
  <2>2. a[3] \in Bytes /\ b[3] \in Bytes
    BY <1>1, <1>2, Framed
  <2> HIDE DEF A3, B3
  <2> QED BY <2>1, <2>2, SameFrame
<1> QED BY <1>7, <1>8, <1>9 DEF Parts

\* Symbols: what follows the type is bytes, and the name gives back each component.
LEMMA SymbolTyped ==
  ASSUME NEW a \in Parts("symbol")
  PROVE  /\ a[1] \in Bytes /\ a[2] \in Bytes /\ a[3] \in Bytes
         /\ a[4] \in Bytes /\ a[5] \in Bytes /\ a[6] \in Nat
         /\ \E r \in Bytes : SymbolId(a) = EntityId("symbol", r)
<1> DEFINE A6 == FrameUint(a[6])
           A5 == FrameText(a[5]) \o A6
           A4 == FrameText(a[4]) \o A5
           A3 == FrameText(a[3]) \o A4
           A2 == FrameText(a[2]) \o A3
           A1 == FrameUuid(a[1]) \o A2
<1>1. /\ a[1] \in Bytes /\ a[2] \in Bytes /\ a[3] \in Bytes
      /\ a[4] \in Bytes /\ a[5] \in Bytes /\ a[6] \in Nat
  BY DEF Parts, Uuid
<1>2. A6 \in Bytes
  BY <1>1, Framed
<1>3. A5 \in Bytes
  <2>1. FrameText(a[5]) \in Bytes
    BY <1>1, Framed
  <2> HIDE DEF A6
  <2> QED BY <2>1, <1>2, Joined
<1>4. A4 \in Bytes
  <2>1. FrameText(a[4]) \in Bytes
    BY <1>1, Framed
  <2> HIDE DEF A5
  <2> QED BY <2>1, <1>3, Joined
<1>5. A3 \in Bytes
  <2>1. FrameText(a[3]) \in Bytes
    BY <1>1, Framed
  <2> HIDE DEF A4
  <2> QED BY <2>1, <1>4, Joined
<1>6. A2 \in Bytes
  <2>1. FrameText(a[2]) \in Bytes
    BY <1>1, Framed
  <2> HIDE DEF A3
  <2> QED BY <2>1, <1>5, Joined
<1>7. A1 \in Bytes
  <2>1. FrameUuid(a[1]) \in Bytes
    BY <1>1, Framed
  <2> HIDE DEF A2
  <2> QED BY <2>1, <1>6, Joined
<1>8. SymbolId(a) = EntityId("symbol", A1)
  BY DEF SymbolId
<1> HIDE DEF A1
<1> QED BY <1>1, <1>7, <1>8
\* The same bytes give the same components.
LEMMA SymbolDistinct ==
  ASSUME NEW a \in Parts("symbol"), NEW b \in Parts("symbol"),
         SymbolId(a) = SymbolId(b)
  PROVE  a = b
<1> DEFINE A6 == FrameUint(a[6])
           B6 == FrameUint(b[6])
           A5 == FrameText(a[5]) \o A6
           B5 == FrameText(b[5]) \o B6
           A4 == FrameText(a[4]) \o A5
           B4 == FrameText(b[4]) \o B5
           A3 == FrameText(a[3]) \o A4
           B3 == FrameText(b[3]) \o B4
           A2 == FrameText(a[2]) \o A3
           B2 == FrameText(b[2]) \o B3
           A1 == FrameUuid(a[1]) \o A2
           B1 == FrameUuid(b[1]) \o B2
<1>1. /\ a[1] \in Bytes /\ a[2] \in Bytes /\ a[3] \in Bytes
      /\ a[4] \in Bytes /\ a[5] \in Bytes /\ a[6] \in Nat
  BY SymbolTyped
<1>2. /\ b[1] \in Bytes /\ b[2] \in Bytes /\ b[3] \in Bytes
      /\ b[4] \in Bytes /\ b[5] \in Bytes /\ b[6] \in Nat
  BY SymbolTyped
<1>3. A6 \in Bytes /\ B6 \in Bytes
  BY <1>1, <1>2, Framed
<1>4. A5 \in Bytes /\ B5 \in Bytes
  <2>1. FrameText(a[5]) \in Bytes /\ FrameText(b[5]) \in Bytes
    BY <1>1, <1>2, Framed
  <2> HIDE DEF A6, B6
  <2> QED BY <2>1, <1>3, Joined
<1>5. A4 \in Bytes /\ B4 \in Bytes
  <2>1. FrameText(a[4]) \in Bytes /\ FrameText(b[4]) \in Bytes
    BY <1>1, <1>2, Framed
  <2> HIDE DEF A5, B5
  <2> QED BY <2>1, <1>4, Joined
<1>6. A3 \in Bytes /\ B3 \in Bytes
  <2>1. FrameText(a[3]) \in Bytes /\ FrameText(b[3]) \in Bytes
    BY <1>1, <1>2, Framed
  <2> HIDE DEF A4, B4
  <2> QED BY <2>1, <1>5, Joined
<1>7. A2 \in Bytes /\ B2 \in Bytes
  <2>1. FrameText(a[2]) \in Bytes /\ FrameText(b[2]) \in Bytes
    BY <1>1, <1>2, Framed
  <2> HIDE DEF A3, B3
  <2> QED BY <2>1, <1>6, Joined
<1>8. A1 \in Bytes /\ B1 \in Bytes
  <2>1. FrameUuid(a[1]) \in Bytes /\ FrameUuid(b[1]) \in Bytes
    BY <1>1, <1>2, Framed
  <2> HIDE DEF A2, B2
  <2> QED BY <2>1, <1>7, Joined
<1>9. A1 = B1
  <2>1. EntityId("symbol", A1) = EntityId("symbol", B1)
    BY DEF SymbolId
  <2>2. "symbol" \in EntityTypes \cup RelationTypes
    BY TypesAssumption
  <2> HIDE DEF A1, B1
  <2> QED BY <2>1, <2>2, <1>8, SameType
<1>10. a[1] = b[1] /\ A2 = B2
  <2>1. Begins(A1, 2, a[1], A2) /\ Begins(A1, 2, b[1], B2)
    BY <1>9 DEF Begins, FrameUuid
  <2> HIDE DEF A1, A2, B2
  <2>2. a[1] \in Bytes /\ b[1] \in Bytes
    BY <1>1, <1>2, Framed
  <2> QED BY <2>1, <2>2, <1>7, PeelFrame
<1>11. a[2] = b[2] /\ A3 = B3
  <2>1. Begins(A2, 1, a[2], A3) /\ Begins(A2, 1, b[2], B3)
    BY <1>10 DEF Begins, FrameText
  <2> HIDE DEF A2, A3, B3
  <2>2. a[2] \in Bytes /\ b[2] \in Bytes
    BY <1>1, <1>2, Framed
  <2> QED BY <2>1, <2>2, <1>6, PeelFrame
<1>12. a[3] = b[3] /\ A4 = B4
  <2>1. Begins(A3, 1, a[3], A4) /\ Begins(A3, 1, b[3], B4)
    BY <1>11 DEF Begins, FrameText
  <2> HIDE DEF A3, A4, B4
  <2>2. a[3] \in Bytes /\ b[3] \in Bytes
    BY <1>1, <1>2, Framed
  <2> QED BY <2>1, <2>2, <1>5, PeelFrame
<1>13. a[4] = b[4] /\ A5 = B5
  <2>1. Begins(A4, 1, a[4], A5) /\ Begins(A4, 1, b[4], B5)
    BY <1>12 DEF Begins, FrameText
  <2> HIDE DEF A4, A5, B5
  <2>2. a[4] \in Bytes /\ b[4] \in Bytes
    BY <1>1, <1>2, Framed
  <2> QED BY <2>1, <2>2, <1>4, PeelFrame
<1>14. a[5] = b[5] /\ A6 = B6
  <2>1. Begins(A5, 1, a[5], A6) /\ Begins(A5, 1, b[5], B6)
    BY <1>13 DEF Begins, FrameText
  <2> HIDE DEF A5, A6, B6
  <2>2. a[5] \in Bytes /\ b[5] \in Bytes
    BY <1>1, <1>2, Framed
  <2> QED BY <2>1, <2>2, <1>3, PeelFrame
<1>15. a[6] = b[6]
  <2>1. Frame(4, <<a[6]>>) = Frame(4, <<b[6]>>)
    BY <1>14 DEF FrameUint
  <2>2. <<a[6]>> \in Bytes /\ <<b[6]>> \in Bytes
    BY <1>1, <1>2, Framed
  <2> HIDE DEF A6, B6
  <2> QED BY <2>1, <2>2, SameFrame
<1> QED BY <1>10, <1>11, <1>12, <1>13, <1>14, <1>15 DEF Parts

\* Chunks: what follows the type is bytes, and the name gives back each component.
LEMMA ChunkTyped ==
  ASSUME NEW a \in Parts("chunk")
  PROVE  /\ a[1] \in Bytes /\ a[2] \in Bytes /\ a[3] \in Bytes /\ a[4] \in Bytes
         /\ a[5] \in Bytes /\ a[6] \in Bytes /\ a[7] \in Nat /\ a[8] \in Bytes
         /\ \E r \in Bytes : ChunkId(a) = EntityId("chunk", r)
<1> DEFINE A8 == FrameBytes(a[8])
           A7 == FrameUint(a[7]) \o A8
           A6 == FrameText(a[6]) \o A7
           A5 == FrameText(a[5]) \o A6
           A4 == FrameText(a[4]) \o A5
           A3 == FrameUuid(a[3]) \o A4
           A2 == FrameUuid(a[2]) \o A3
           A1 == FrameText(a[1]) \o A2
<1>1. /\ a[1] \in Bytes /\ a[2] \in Bytes /\ a[3] \in Bytes /\ a[4] \in Bytes
      /\ a[5] \in Bytes /\ a[6] \in Bytes /\ a[7] \in Nat /\ a[8] \in Bytes
  BY DEF Parts, Uuid
<1>2. A8 \in Bytes
  BY <1>1, Framed
<1>3. A7 \in Bytes
  <2>1. FrameUint(a[7]) \in Bytes
    BY <1>1, Framed
  <2> HIDE DEF A8
  <2> QED BY <2>1, <1>2, Joined
<1>4. A6 \in Bytes
  <2>1. FrameText(a[6]) \in Bytes
    BY <1>1, Framed
  <2> HIDE DEF A7
  <2> QED BY <2>1, <1>3, Joined
<1>5. A5 \in Bytes
  <2>1. FrameText(a[5]) \in Bytes
    BY <1>1, Framed
  <2> HIDE DEF A6
  <2> QED BY <2>1, <1>4, Joined
<1>6. A4 \in Bytes
  <2>1. FrameText(a[4]) \in Bytes
    BY <1>1, Framed
  <2> HIDE DEF A5
  <2> QED BY <2>1, <1>5, Joined
<1>7. A3 \in Bytes
  <2>1. FrameUuid(a[3]) \in Bytes
    BY <1>1, Framed
  <2> HIDE DEF A4
  <2> QED BY <2>1, <1>6, Joined
<1>8. A2 \in Bytes
  <2>1. FrameUuid(a[2]) \in Bytes
    BY <1>1, Framed
  <2> HIDE DEF A3
  <2> QED BY <2>1, <1>7, Joined
<1>9. A1 \in Bytes
  <2>1. FrameText(a[1]) \in Bytes
    BY <1>1, Framed
  <2> HIDE DEF A2
  <2> QED BY <2>1, <1>8, Joined
<1>10. ChunkId(a) = EntityId("chunk", A1)
  BY DEF ChunkId
<1> HIDE DEF A1
<1> QED BY <1>1, <1>9, <1>10
\* The same bytes give the same components.
LEMMA ChunkDistinct ==
  ASSUME NEW a \in Parts("chunk"), NEW b \in Parts("chunk"),
         ChunkId(a) = ChunkId(b)
  PROVE  a = b
<1> DEFINE A8 == FrameBytes(a[8])
           B8 == FrameBytes(b[8])
           A7 == FrameUint(a[7]) \o A8
           B7 == FrameUint(b[7]) \o B8
           A6 == FrameText(a[6]) \o A7
           B6 == FrameText(b[6]) \o B7
           A5 == FrameText(a[5]) \o A6
           B5 == FrameText(b[5]) \o B6
           A4 == FrameText(a[4]) \o A5
           B4 == FrameText(b[4]) \o B5
           A3 == FrameUuid(a[3]) \o A4
           B3 == FrameUuid(b[3]) \o B4
           A2 == FrameUuid(a[2]) \o A3
           B2 == FrameUuid(b[2]) \o B3
           A1 == FrameText(a[1]) \o A2
           B1 == FrameText(b[1]) \o B2
<1>1. /\ a[1] \in Bytes /\ a[2] \in Bytes /\ a[3] \in Bytes /\ a[4] \in Bytes
      /\ a[5] \in Bytes /\ a[6] \in Bytes /\ a[7] \in Nat /\ a[8] \in Bytes
  BY ChunkTyped
<1>2. /\ b[1] \in Bytes /\ b[2] \in Bytes /\ b[3] \in Bytes /\ b[4] \in Bytes
      /\ b[5] \in Bytes /\ b[6] \in Bytes /\ b[7] \in Nat /\ b[8] \in Bytes
  BY ChunkTyped
<1>3. A8 \in Bytes /\ B8 \in Bytes
  BY <1>1, <1>2, Framed
<1>4. A7 \in Bytes /\ B7 \in Bytes
  <2>1. FrameUint(a[7]) \in Bytes /\ FrameUint(b[7]) \in Bytes
    BY <1>1, <1>2, Framed
  <2> HIDE DEF A8, B8
  <2> QED BY <2>1, <1>3, Joined
<1>5. A6 \in Bytes /\ B6 \in Bytes
  <2>1. FrameText(a[6]) \in Bytes /\ FrameText(b[6]) \in Bytes
    BY <1>1, <1>2, Framed
  <2> HIDE DEF A7, B7
  <2> QED BY <2>1, <1>4, Joined
<1>6. A5 \in Bytes /\ B5 \in Bytes
  <2>1. FrameText(a[5]) \in Bytes /\ FrameText(b[5]) \in Bytes
    BY <1>1, <1>2, Framed
  <2> HIDE DEF A6, B6
  <2> QED BY <2>1, <1>5, Joined
<1>7. A4 \in Bytes /\ B4 \in Bytes
  <2>1. FrameText(a[4]) \in Bytes /\ FrameText(b[4]) \in Bytes
    BY <1>1, <1>2, Framed
  <2> HIDE DEF A5, B5
  <2> QED BY <2>1, <1>6, Joined
<1>8. A3 \in Bytes /\ B3 \in Bytes
  <2>1. FrameUuid(a[3]) \in Bytes /\ FrameUuid(b[3]) \in Bytes
    BY <1>1, <1>2, Framed
  <2> HIDE DEF A4, B4
  <2> QED BY <2>1, <1>7, Joined
<1>9. A2 \in Bytes /\ B2 \in Bytes
  <2>1. FrameUuid(a[2]) \in Bytes /\ FrameUuid(b[2]) \in Bytes
    BY <1>1, <1>2, Framed
  <2> HIDE DEF A3, B3
  <2> QED BY <2>1, <1>8, Joined
<1>10. A1 \in Bytes /\ B1 \in Bytes
  <2>1. FrameText(a[1]) \in Bytes /\ FrameText(b[1]) \in Bytes
    BY <1>1, <1>2, Framed
  <2> HIDE DEF A2, B2
  <2> QED BY <2>1, <1>9, Joined
<1>11. A1 = B1
  <2>1. EntityId("chunk", A1) = EntityId("chunk", B1)
    BY DEF ChunkId
  <2>2. "chunk" \in EntityTypes \cup RelationTypes
    BY TypesAssumption
  <2> HIDE DEF A1, B1
  <2> QED BY <2>1, <2>2, <1>10, SameType
<1>12. a[1] = b[1] /\ A2 = B2
  <2>1. Begins(A1, 1, a[1], A2) /\ Begins(A1, 1, b[1], B2)
    BY <1>11 DEF Begins, FrameText
  <2> HIDE DEF A1, A2, B2
  <2>2. a[1] \in Bytes /\ b[1] \in Bytes
    BY <1>1, <1>2, Framed
  <2> QED BY <2>1, <2>2, <1>9, PeelFrame
<1>13. a[2] = b[2] /\ A3 = B3
  <2>1. Begins(A2, 2, a[2], A3) /\ Begins(A2, 2, b[2], B3)
    BY <1>12 DEF Begins, FrameUuid
  <2> HIDE DEF A2, A3, B3
  <2>2. a[2] \in Bytes /\ b[2] \in Bytes
    BY <1>1, <1>2, Framed
  <2> QED BY <2>1, <2>2, <1>8, PeelFrame
<1>14. a[3] = b[3] /\ A4 = B4
  <2>1. Begins(A3, 2, a[3], A4) /\ Begins(A3, 2, b[3], B4)
    BY <1>13 DEF Begins, FrameUuid
  <2> HIDE DEF A3, A4, B4
  <2>2. a[3] \in Bytes /\ b[3] \in Bytes
    BY <1>1, <1>2, Framed
  <2> QED BY <2>1, <2>2, <1>7, PeelFrame
<1>15. a[4] = b[4] /\ A5 = B5
  <2>1. Begins(A4, 1, a[4], A5) /\ Begins(A4, 1, b[4], B5)
    BY <1>14 DEF Begins, FrameText
  <2> HIDE DEF A4, A5, B5
  <2>2. a[4] \in Bytes /\ b[4] \in Bytes
    BY <1>1, <1>2, Framed
  <2> QED BY <2>1, <2>2, <1>6, PeelFrame
<1>16. a[5] = b[5] /\ A6 = B6
  <2>1. Begins(A5, 1, a[5], A6) /\ Begins(A5, 1, b[5], B6)
    BY <1>15 DEF Begins, FrameText
  <2> HIDE DEF A5, A6, B6
  <2>2. a[5] \in Bytes /\ b[5] \in Bytes
    BY <1>1, <1>2, Framed
  <2> QED BY <2>1, <2>2, <1>5, PeelFrame
<1>17. a[6] = b[6] /\ A7 = B7
  <2>1. Begins(A6, 1, a[6], A7) /\ Begins(A6, 1, b[6], B7)
    BY <1>16 DEF Begins, FrameText
  <2> HIDE DEF A6, A7, B7
  <2>2. a[6] \in Bytes /\ b[6] \in Bytes
    BY <1>1, <1>2, Framed
  <2> QED BY <2>1, <2>2, <1>4, PeelFrame
<1>18. a[7] = b[7] /\ A8 = B8
  <2>1. Begins(A7, 4, <<a[7]>>, A8) /\ Begins(A7, 4, <<b[7]>>, B8)
    BY <1>17 DEF Begins, FrameUint
  <2> HIDE DEF A7, A8, B8
  <2>2. <<a[7]>> \in Bytes /\ <<b[7]>> \in Bytes
    BY <1>1, <1>2, Framed
  <2> QED BY <2>1, <2>2, <1>3, PeelFrame
<1>19. a[8] = b[8]
  <2>1. Frame(3, a[8]) = Frame(3, b[8])
    BY <1>18 DEF FrameBytes
  <2>2. a[8] \in Bytes /\ b[8] \in Bytes
    BY <1>1, <1>2, Framed
  <2> HIDE DEF A8, B8
  <2> QED BY <2>1, <2>2, SameFrame
<1> QED BY <1>12, <1>13, <1>14, <1>15, <1>16, <1>17, <1>18, <1>19 DEF Parts

\* Generations: what follows the type is bytes, and the name gives back each component.
LEMMA GenerationTyped ==
  ASSUME NEW a \in Parts("index_generation")
  PROVE  /\ a[1] \in Bytes /\ a[2] \in Bytes /\ a[3] \in Bytes /\ a[4] \in Bytes
         /\ a[5] \in Bytes /\ a[6] \in Bytes /\ a[7] \in Nat
         /\ \E r \in Bytes : GenerationId(a) = EntityId("index_generation", r)
<1> DEFINE A7 == FrameUint(a[7])
           A6 == FrameBytes(a[6]) \o A7
           A5 == FrameText(a[5]) \o A6
           A4 == FrameText(a[4]) \o A5
           A3 == FrameText(a[3]) \o A4
           A2 == FrameText(a[2]) \o A3
           A1 == FrameUuid(a[1]) \o A2
<1>1. /\ a[1] \in Bytes /\ a[2] \in Bytes /\ a[3] \in Bytes /\ a[4] \in Bytes
      /\ a[5] \in Bytes /\ a[6] \in Bytes /\ a[7] \in Nat
  BY DEF Parts, Uuid
<1>2. A7 \in Bytes
  BY <1>1, Framed
<1>3. A6 \in Bytes
  <2>1. FrameBytes(a[6]) \in Bytes
    BY <1>1, Framed
  <2> HIDE DEF A7
  <2> QED BY <2>1, <1>2, Joined
<1>4. A5 \in Bytes
  <2>1. FrameText(a[5]) \in Bytes
    BY <1>1, Framed
  <2> HIDE DEF A6
  <2> QED BY <2>1, <1>3, Joined
<1>5. A4 \in Bytes
  <2>1. FrameText(a[4]) \in Bytes
    BY <1>1, Framed
  <2> HIDE DEF A5
  <2> QED BY <2>1, <1>4, Joined
<1>6. A3 \in Bytes
  <2>1. FrameText(a[3]) \in Bytes
    BY <1>1, Framed
  <2> HIDE DEF A4
  <2> QED BY <2>1, <1>5, Joined
<1>7. A2 \in Bytes
  <2>1. FrameText(a[2]) \in Bytes
    BY <1>1, Framed
  <2> HIDE DEF A3
  <2> QED BY <2>1, <1>6, Joined
<1>8. A1 \in Bytes
  <2>1. FrameUuid(a[1]) \in Bytes
    BY <1>1, Framed
  <2> HIDE DEF A2
  <2> QED BY <2>1, <1>7, Joined
<1>9. GenerationId(a) = EntityId("index_generation", A1)
  BY DEF GenerationId
<1> HIDE DEF A1
<1> QED BY <1>1, <1>8, <1>9
\* The same bytes give the same components.
LEMMA GenerationDistinct ==
  ASSUME NEW a \in Parts("index_generation"), NEW b \in Parts("index_generation"),
         GenerationId(a) = GenerationId(b)
  PROVE  a = b
<1> DEFINE A7 == FrameUint(a[7])
           B7 == FrameUint(b[7])
           A6 == FrameBytes(a[6]) \o A7
           B6 == FrameBytes(b[6]) \o B7
           A5 == FrameText(a[5]) \o A6
           B5 == FrameText(b[5]) \o B6
           A4 == FrameText(a[4]) \o A5
           B4 == FrameText(b[4]) \o B5
           A3 == FrameText(a[3]) \o A4
           B3 == FrameText(b[3]) \o B4
           A2 == FrameText(a[2]) \o A3
           B2 == FrameText(b[2]) \o B3
           A1 == FrameUuid(a[1]) \o A2
           B1 == FrameUuid(b[1]) \o B2
<1>1. /\ a[1] \in Bytes /\ a[2] \in Bytes /\ a[3] \in Bytes /\ a[4] \in Bytes
      /\ a[5] \in Bytes /\ a[6] \in Bytes /\ a[7] \in Nat
  BY GenerationTyped
<1>2. /\ b[1] \in Bytes /\ b[2] \in Bytes /\ b[3] \in Bytes /\ b[4] \in Bytes
      /\ b[5] \in Bytes /\ b[6] \in Bytes /\ b[7] \in Nat
  BY GenerationTyped
<1>3. A7 \in Bytes /\ B7 \in Bytes
  BY <1>1, <1>2, Framed
<1>4. A6 \in Bytes /\ B6 \in Bytes
  <2>1. FrameBytes(a[6]) \in Bytes /\ FrameBytes(b[6]) \in Bytes
    BY <1>1, <1>2, Framed
  <2> HIDE DEF A7, B7
  <2> QED BY <2>1, <1>3, Joined
<1>5. A5 \in Bytes /\ B5 \in Bytes
  <2>1. FrameText(a[5]) \in Bytes /\ FrameText(b[5]) \in Bytes
    BY <1>1, <1>2, Framed
  <2> HIDE DEF A6, B6
  <2> QED BY <2>1, <1>4, Joined
<1>6. A4 \in Bytes /\ B4 \in Bytes
  <2>1. FrameText(a[4]) \in Bytes /\ FrameText(b[4]) \in Bytes
    BY <1>1, <1>2, Framed
  <2> HIDE DEF A5, B5
  <2> QED BY <2>1, <1>5, Joined
<1>7. A3 \in Bytes /\ B3 \in Bytes
  <2>1. FrameText(a[3]) \in Bytes /\ FrameText(b[3]) \in Bytes
    BY <1>1, <1>2, Framed
  <2> HIDE DEF A4, B4
  <2> QED BY <2>1, <1>6, Joined
<1>8. A2 \in Bytes /\ B2 \in Bytes
  <2>1. FrameText(a[2]) \in Bytes /\ FrameText(b[2]) \in Bytes
    BY <1>1, <1>2, Framed
  <2> HIDE DEF A3, B3
  <2> QED BY <2>1, <1>7, Joined
<1>9. A1 \in Bytes /\ B1 \in Bytes
  <2>1. FrameUuid(a[1]) \in Bytes /\ FrameUuid(b[1]) \in Bytes
    BY <1>1, <1>2, Framed
  <2> HIDE DEF A2, B2
  <2> QED BY <2>1, <1>8, Joined
<1>10. A1 = B1
  <2>1. EntityId("index_generation", A1) = EntityId("index_generation", B1)
    BY DEF GenerationId
  <2>2. "index_generation" \in EntityTypes \cup RelationTypes
    BY TypesAssumption
  <2> HIDE DEF A1, B1
  <2> QED BY <2>1, <2>2, <1>9, SameType
<1>11. a[1] = b[1] /\ A2 = B2
  <2>1. Begins(A1, 2, a[1], A2) /\ Begins(A1, 2, b[1], B2)
    BY <1>10 DEF Begins, FrameUuid
  <2> HIDE DEF A1, A2, B2
  <2>2. a[1] \in Bytes /\ b[1] \in Bytes
    BY <1>1, <1>2, Framed
  <2> QED BY <2>1, <2>2, <1>8, PeelFrame
<1>12. a[2] = b[2] /\ A3 = B3
  <2>1. Begins(A2, 1, a[2], A3) /\ Begins(A2, 1, b[2], B3)
    BY <1>11 DEF Begins, FrameText
  <2> HIDE DEF A2, A3, B3
  <2>2. a[2] \in Bytes /\ b[2] \in Bytes
    BY <1>1, <1>2, Framed
  <2> QED BY <2>1, <2>2, <1>7, PeelFrame
<1>13. a[3] = b[3] /\ A4 = B4
  <2>1. Begins(A3, 1, a[3], A4) /\ Begins(A3, 1, b[3], B4)
    BY <1>12 DEF Begins, FrameText
  <2> HIDE DEF A3, A4, B4
  <2>2. a[3] \in Bytes /\ b[3] \in Bytes
    BY <1>1, <1>2, Framed
  <2> QED BY <2>1, <2>2, <1>6, PeelFrame
<1>14. a[4] = b[4] /\ A5 = B5
  <2>1. Begins(A4, 1, a[4], A5) /\ Begins(A4, 1, b[4], B5)
    BY <1>13 DEF Begins, FrameText
  <2> HIDE DEF A4, A5, B5
  <2>2. a[4] \in Bytes /\ b[4] \in Bytes
    BY <1>1, <1>2, Framed
  <2> QED BY <2>1, <2>2, <1>5, PeelFrame
<1>15. a[5] = b[5] /\ A6 = B6
  <2>1. Begins(A5, 1, a[5], A6) /\ Begins(A5, 1, b[5], B6)
    BY <1>14 DEF Begins, FrameText
  <2> HIDE DEF A5, A6, B6
  <2>2. a[5] \in Bytes /\ b[5] \in Bytes
    BY <1>1, <1>2, Framed
  <2> QED BY <2>1, <2>2, <1>4, PeelFrame
<1>16. a[6] = b[6] /\ A7 = B7
  <2>1. Begins(A6, 3, a[6], A7) /\ Begins(A6, 3, b[6], B7)
    BY <1>15 DEF Begins, FrameBytes
  <2> HIDE DEF A6, A7, B7
  <2>2. a[6] \in Bytes /\ b[6] \in Bytes
    BY <1>1, <1>2, Framed
  <2> QED BY <2>1, <2>2, <1>3, PeelFrame
<1>17. a[7] = b[7]
  <2>1. Frame(4, <<a[7]>>) = Frame(4, <<b[7]>>)
    BY <1>16 DEF FrameUint
  <2>2. <<a[7]>> \in Bytes /\ <<b[7]>> \in Bytes
    BY <1>1, <1>2, Framed
  <2> HIDE DEF A7, B7
  <2> QED BY <2>1, <2>2, SameFrame
<1> QED BY <1>11, <1>12, <1>13, <1>14, <1>15, <1>16, <1>17 DEF Parts

\* Points: what follows the type is bytes, and the name gives back each component.
LEMMA PointTyped ==
  ASSUME NEW a \in Parts("point")
  PROVE  /\ a[1] \in Bytes /\ a[2] \in Bytes /\ a[3] \in Bytes
         /\ \E r \in Bytes : PointId(a) = EntityId("point", r)
<1> DEFINE A3 == FrameBytes(a[3])
           A2 == FrameBytes(a[2]) \o A3
           A1 == FrameUuid(a[1]) \o A2
<1>1. a[1] \in Bytes /\ a[2] \in Bytes /\ a[3] \in Bytes
  BY DEF Parts, Uuid
<1>2. A3 \in Bytes
  BY <1>1, Framed
<1>3. A2 \in Bytes
  <2>1. FrameBytes(a[2]) \in Bytes
    BY <1>1, Framed
  <2> HIDE DEF A3
  <2> QED BY <2>1, <1>2, Joined
<1>4. A1 \in Bytes
  <2>1. FrameUuid(a[1]) \in Bytes
    BY <1>1, Framed
  <2> HIDE DEF A2
  <2> QED BY <2>1, <1>3, Joined
<1>5. PointId(a) = EntityId("point", A1)
  BY DEF PointId
<1> HIDE DEF A1
<1> QED BY <1>1, <1>4, <1>5
\* The same bytes give the same components.
LEMMA PointDistinct ==
  ASSUME NEW a \in Parts("point"), NEW b \in Parts("point"),
         PointId(a) = PointId(b)
  PROVE  a = b
<1> DEFINE A3 == FrameBytes(a[3])
           B3 == FrameBytes(b[3])
           A2 == FrameBytes(a[2]) \o A3
           B2 == FrameBytes(b[2]) \o B3
           A1 == FrameUuid(a[1]) \o A2
           B1 == FrameUuid(b[1]) \o B2
<1>1. a[1] \in Bytes /\ a[2] \in Bytes /\ a[3] \in Bytes
  BY PointTyped
<1>2. b[1] \in Bytes /\ b[2] \in Bytes /\ b[3] \in Bytes
  BY PointTyped
<1>3. A3 \in Bytes /\ B3 \in Bytes
  BY <1>1, <1>2, Framed
<1>4. A2 \in Bytes /\ B2 \in Bytes
  <2>1. FrameBytes(a[2]) \in Bytes /\ FrameBytes(b[2]) \in Bytes
    BY <1>1, <1>2, Framed
  <2> HIDE DEF A3, B3
  <2> QED BY <2>1, <1>3, Joined
<1>5. A1 \in Bytes /\ B1 \in Bytes
  <2>1. FrameUuid(a[1]) \in Bytes /\ FrameUuid(b[1]) \in Bytes
    BY <1>1, <1>2, Framed
  <2> HIDE DEF A2, B2
  <2> QED BY <2>1, <1>4, Joined
<1>6. A1 = B1
  <2>1. EntityId("point", A1) = EntityId("point", B1)
    BY DEF PointId
  <2>2. "point" \in EntityTypes \cup RelationTypes
    BY TypesAssumption
  <2> HIDE DEF A1, B1
  <2> QED BY <2>1, <2>2, <1>5, SameType
<1>7. a[1] = b[1] /\ A2 = B2
  <2>1. Begins(A1, 2, a[1], A2) /\ Begins(A1, 2, b[1], B2)
    BY <1>6 DEF Begins, FrameUuid
  <2> HIDE DEF A1, A2, B2
  <2>2. a[1] \in Bytes /\ b[1] \in Bytes
    BY <1>1, <1>2, Framed
  <2> QED BY <2>1, <2>2, <1>4, PeelFrame
<1>8. a[2] = b[2] /\ A3 = B3
  <2>1. Begins(A2, 3, a[2], A3) /\ Begins(A2, 3, b[2], B3)
    BY <1>7 DEF Begins, FrameBytes
  <2> HIDE DEF A2, A3, B3
  <2>2. a[2] \in Bytes /\ b[2] \in Bytes
    BY <1>1, <1>2, Framed
  <2> QED BY <2>1, <2>2, <1>3, PeelFrame
<1>9. a[3] = b[3]
  <2>1. Frame(3, a[3]) = Frame(3, b[3])
    BY <1>8 DEF FrameBytes
  <2>2. a[3] \in Bytes /\ b[3] \in Bytes
    BY <1>1, <1>2, Framed
  <2> HIDE DEF A3, B3
  <2> QED BY <2>1, <2>2, SameFrame
<1> QED BY <1>7, <1>8, <1>9 DEF Parts

\* Identity keys: what follows the type is bytes, and the name gives back each component.
LEMMA KeyTyped ==
  ASSUME NEW a \in Parts("identity_key")
  PROVE  /\ a[1] \in Bytes /\ a[2] \in Bytes /\ a[3] \in Bytes /\ a[4] \in Bytes /\ a[5] \in Bytes
         /\ \E r \in Bytes : IdentityKey(a) = EntityId("identity_key", r)
<1> DEFINE A5 == FrameText(a[5])
           A4 == FrameText(a[4]) \o A5
           A3 == FrameText(a[3]) \o A4
           A2 == FrameText(a[2]) \o A3
           A1 == FrameUuid(a[1]) \o A2
<1>1. a[1] \in Bytes /\ a[2] \in Bytes /\ a[3] \in Bytes /\ a[4] \in Bytes /\ a[5] \in Bytes
  BY DEF Parts, Uuid
<1>2. A5 \in Bytes
  BY <1>1, Framed
<1>3. A4 \in Bytes
  <2>1. FrameText(a[4]) \in Bytes
    BY <1>1, Framed
  <2> HIDE DEF A5
  <2> QED BY <2>1, <1>2, Joined
<1>4. A3 \in Bytes
  <2>1. FrameText(a[3]) \in Bytes
    BY <1>1, Framed
  <2> HIDE DEF A4
  <2> QED BY <2>1, <1>3, Joined
<1>5. A2 \in Bytes
  <2>1. FrameText(a[2]) \in Bytes
    BY <1>1, Framed
  <2> HIDE DEF A3
  <2> QED BY <2>1, <1>4, Joined
<1>6. A1 \in Bytes
  <2>1. FrameUuid(a[1]) \in Bytes
    BY <1>1, Framed
  <2> HIDE DEF A2
  <2> QED BY <2>1, <1>5, Joined
<1>7. IdentityKey(a) = EntityId("identity_key", A1)
  BY DEF IdentityKey
<1> HIDE DEF A1
<1> QED BY <1>1, <1>6, <1>7
\* The same bytes give the same components.
LEMMA KeyDistinct ==
  ASSUME NEW a \in Parts("identity_key"), NEW b \in Parts("identity_key"),
         IdentityKey(a) = IdentityKey(b)
  PROVE  a = b
<1> DEFINE A5 == FrameText(a[5])
           B5 == FrameText(b[5])
           A4 == FrameText(a[4]) \o A5
           B4 == FrameText(b[4]) \o B5
           A3 == FrameText(a[3]) \o A4
           B3 == FrameText(b[3]) \o B4
           A2 == FrameText(a[2]) \o A3
           B2 == FrameText(b[2]) \o B3
           A1 == FrameUuid(a[1]) \o A2
           B1 == FrameUuid(b[1]) \o B2
<1>1. a[1] \in Bytes /\ a[2] \in Bytes /\ a[3] \in Bytes /\ a[4] \in Bytes /\ a[5] \in Bytes
  BY KeyTyped
<1>2. b[1] \in Bytes /\ b[2] \in Bytes /\ b[3] \in Bytes /\ b[4] \in Bytes /\ b[5] \in Bytes
  BY KeyTyped
<1>3. A5 \in Bytes /\ B5 \in Bytes
  BY <1>1, <1>2, Framed
<1>4. A4 \in Bytes /\ B4 \in Bytes
  <2>1. FrameText(a[4]) \in Bytes /\ FrameText(b[4]) \in Bytes
    BY <1>1, <1>2, Framed
  <2> HIDE DEF A5, B5
  <2> QED BY <2>1, <1>3, Joined
<1>5. A3 \in Bytes /\ B3 \in Bytes
  <2>1. FrameText(a[3]) \in Bytes /\ FrameText(b[3]) \in Bytes
    BY <1>1, <1>2, Framed
  <2> HIDE DEF A4, B4
  <2> QED BY <2>1, <1>4, Joined
<1>6. A2 \in Bytes /\ B2 \in Bytes
  <2>1. FrameText(a[2]) \in Bytes /\ FrameText(b[2]) \in Bytes
    BY <1>1, <1>2, Framed
  <2> HIDE DEF A3, B3
  <2> QED BY <2>1, <1>5, Joined
<1>7. A1 \in Bytes /\ B1 \in Bytes
  <2>1. FrameUuid(a[1]) \in Bytes /\ FrameUuid(b[1]) \in Bytes
    BY <1>1, <1>2, Framed
  <2> HIDE DEF A2, B2
  <2> QED BY <2>1, <1>6, Joined
<1>8. A1 = B1
  <2>1. EntityId("identity_key", A1) = EntityId("identity_key", B1)
    BY DEF IdentityKey
  <2>2. "identity_key" \in EntityTypes \cup RelationTypes
    BY TypesAssumption
  <2> HIDE DEF A1, B1
  <2> QED BY <2>1, <2>2, <1>7, SameType
<1>9. a[1] = b[1] /\ A2 = B2
  <2>1. Begins(A1, 2, a[1], A2) /\ Begins(A1, 2, b[1], B2)
    BY <1>8 DEF Begins, FrameUuid
  <2> HIDE DEF A1, A2, B2
  <2>2. a[1] \in Bytes /\ b[1] \in Bytes
    BY <1>1, <1>2, Framed
  <2> QED BY <2>1, <2>2, <1>6, PeelFrame
<1>10. a[2] = b[2] /\ A3 = B3
  <2>1. Begins(A2, 1, a[2], A3) /\ Begins(A2, 1, b[2], B3)
    BY <1>9 DEF Begins, FrameText
  <2> HIDE DEF A2, A3, B3
  <2>2. a[2] \in Bytes /\ b[2] \in Bytes
    BY <1>1, <1>2, Framed
  <2> QED BY <2>1, <2>2, <1>5, PeelFrame
<1>11. a[3] = b[3] /\ A4 = B4
  <2>1. Begins(A3, 1, a[3], A4) /\ Begins(A3, 1, b[3], B4)
    BY <1>10 DEF Begins, FrameText
  <2> HIDE DEF A3, A4, B4
  <2>2. a[3] \in Bytes /\ b[3] \in Bytes
    BY <1>1, <1>2, Framed
  <2> QED BY <2>1, <2>2, <1>4, PeelFrame
<1>12. a[4] = b[4] /\ A5 = B5
  <2>1. Begins(A4, 1, a[4], A5) /\ Begins(A4, 1, b[4], B5)
    BY <1>11 DEF Begins, FrameText
  <2> HIDE DEF A4, A5, B5
  <2>2. a[4] \in Bytes /\ b[4] \in Bytes
    BY <1>1, <1>2, Framed
  <2> QED BY <2>1, <2>2, <1>3, PeelFrame
<1>13. a[5] = b[5]
  <2>1. Frame(1, a[5]) = Frame(1, b[5])
    BY <1>12 DEF FrameText
  <2>2. a[5] \in Bytes /\ b[5] \in Bytes
    BY <1>1, <1>2, Framed
  <2> HIDE DEF A5, B5
  <2> QED BY <2>1, <2>2, SameFrame
<1> QED BY <1>9, <1>10, <1>11, <1>12, <1>13 DEF Parts

\* Edges of one type: what follows the type is bytes, and the name gives back each component.
LEMMA EdgeTyped ==
  ASSUME NEW t \in RelationTypes, NEW a \in Parts(t)
  PROVE  /\ a[1] \in Bytes /\ a[2] \in Bytes /\ a[3] \in Bytes /\ a[4] \in Bytes /\ a[5] \in Bytes
         /\ \E r \in Bytes : EdgeId(t, a) = EntityId(t, r)
<1> DEFINE A5 == FrameText(a[5])
           A4 == FrameText(a[4]) \o A5
           A3 == FrameUuid(a[3]) \o A4
           A2 == FrameUuid(a[2]) \o A3
           A1 == FrameUuid(a[1]) \o A2
<1>1. a[1] \in Bytes /\ a[2] \in Bytes /\ a[3] \in Bytes /\ a[4] \in Bytes /\ a[5] \in Bytes
  BY TypesAssumption DEF Parts, Uuid
<1>2. A5 \in Bytes
  BY <1>1, Framed
<1>3. A4 \in Bytes
  <2>1. FrameText(a[4]) \in Bytes
    BY <1>1, Framed
  <2> HIDE DEF A5
  <2> QED BY <2>1, <1>2, Joined
<1>4. A3 \in Bytes
  <2>1. FrameUuid(a[3]) \in Bytes
    BY <1>1, Framed
  <2> HIDE DEF A4
  <2> QED BY <2>1, <1>3, Joined
<1>5. A2 \in Bytes
  <2>1. FrameUuid(a[2]) \in Bytes
    BY <1>1, Framed
  <2> HIDE DEF A3
  <2> QED BY <2>1, <1>4, Joined
<1>6. A1 \in Bytes
  <2>1. FrameUuid(a[1]) \in Bytes
    BY <1>1, Framed
  <2> HIDE DEF A2
  <2> QED BY <2>1, <1>5, Joined
<1>7. EdgeId(t, a) = EntityId(t, A1)
  BY DEF EdgeId
<1> HIDE DEF A1
<1> QED BY <1>1, <1>6, <1>7
\* The same bytes give the same components.
LEMMA EdgeDistinct ==
  ASSUME NEW t \in RelationTypes, NEW a \in Parts(t), NEW b \in Parts(t),
         EdgeId(t, a) = EdgeId(t, b)
  PROVE  a = b
<1> DEFINE A5 == FrameText(a[5])
           B5 == FrameText(b[5])
           A4 == FrameText(a[4]) \o A5
           B4 == FrameText(b[4]) \o B5
           A3 == FrameUuid(a[3]) \o A4
           B3 == FrameUuid(b[3]) \o B4
           A2 == FrameUuid(a[2]) \o A3
           B2 == FrameUuid(b[2]) \o B3
           A1 == FrameUuid(a[1]) \o A2
           B1 == FrameUuid(b[1]) \o B2
<1>1. a[1] \in Bytes /\ a[2] \in Bytes /\ a[3] \in Bytes /\ a[4] \in Bytes /\ a[5] \in Bytes
  BY EdgeTyped
<1>2. b[1] \in Bytes /\ b[2] \in Bytes /\ b[3] \in Bytes /\ b[4] \in Bytes /\ b[5] \in Bytes
  BY EdgeTyped
<1>3. A5 \in Bytes /\ B5 \in Bytes
  BY <1>1, <1>2, Framed
<1>4. A4 \in Bytes /\ B4 \in Bytes
  <2>1. FrameText(a[4]) \in Bytes /\ FrameText(b[4]) \in Bytes
    BY <1>1, <1>2, Framed
  <2> HIDE DEF A5, B5
  <2> QED BY <2>1, <1>3, Joined
<1>5. A3 \in Bytes /\ B3 \in Bytes
  <2>1. FrameUuid(a[3]) \in Bytes /\ FrameUuid(b[3]) \in Bytes
    BY <1>1, <1>2, Framed
  <2> HIDE DEF A4, B4
  <2> QED BY <2>1, <1>4, Joined
<1>6. A2 \in Bytes /\ B2 \in Bytes
  <2>1. FrameUuid(a[2]) \in Bytes /\ FrameUuid(b[2]) \in Bytes
    BY <1>1, <1>2, Framed
  <2> HIDE DEF A3, B3
  <2> QED BY <2>1, <1>5, Joined
<1>7. A1 \in Bytes /\ B1 \in Bytes
  <2>1. FrameUuid(a[1]) \in Bytes /\ FrameUuid(b[1]) \in Bytes
    BY <1>1, <1>2, Framed
  <2> HIDE DEF A2, B2
  <2> QED BY <2>1, <1>6, Joined
<1>8. A1 = B1
  <2>1. EntityId(t, A1) = EntityId(t, B1)
    BY DEF EdgeId
  <2>2. t \in EntityTypes \cup RelationTypes
    OBVIOUS
  <2> HIDE DEF A1, B1
  <2> QED BY <2>1, <2>2, <1>7, SameType
<1>9. a[1] = b[1] /\ A2 = B2
  <2>1. Begins(A1, 2, a[1], A2) /\ Begins(A1, 2, b[1], B2)
    BY <1>8 DEF Begins, FrameUuid
  <2> HIDE DEF A1, A2, B2
  <2>2. a[1] \in Bytes /\ b[1] \in Bytes
    BY <1>1, <1>2, Framed
  <2> QED BY <2>1, <2>2, <1>6, PeelFrame
<1>10. a[2] = b[2] /\ A3 = B3
  <2>1. Begins(A2, 2, a[2], A3) /\ Begins(A2, 2, b[2], B3)
    BY <1>9 DEF Begins, FrameUuid
  <2> HIDE DEF A2, A3, B3
  <2>2. a[2] \in Bytes /\ b[2] \in Bytes
    BY <1>1, <1>2, Framed
  <2> QED BY <2>1, <2>2, <1>5, PeelFrame
<1>11. a[3] = b[3] /\ A4 = B4
  <2>1. Begins(A3, 2, a[3], A4) /\ Begins(A3, 2, b[3], B4)
    BY <1>10 DEF Begins, FrameUuid
  <2> HIDE DEF A3, A4, B4
  <2>2. a[3] \in Bytes /\ b[3] \in Bytes
    BY <1>1, <1>2, Framed
  <2> QED BY <2>1, <2>2, <1>4, PeelFrame
<1>12. a[4] = b[4] /\ A5 = B5
  <2>1. Begins(A4, 1, a[4], A5) /\ Begins(A4, 1, b[4], B5)
    BY <1>11 DEF Begins, FrameText
  <2> HIDE DEF A4, A5, B5
  <2>2. a[4] \in Bytes /\ b[4] \in Bytes
    BY <1>1, <1>2, Framed
  <2> QED BY <2>1, <2>2, <1>3, PeelFrame
<1>13. a[5] = b[5]
  <2>1. Frame(1, a[5]) = Frame(1, b[5])
    BY <1>12 DEF FrameText
  <2>2. a[5] \in Bytes /\ b[5] \in Bytes
    BY <1>1, <1>2, Framed
  <2> HIDE DEF A5, B5
  <2> QED BY <2>1, <2>2, SameFrame
<1> QED BY <1>9, <1>10, <1>11, <1>12, <1>13, TypesAssumption DEF Parts

\* What is hashed for an entity begins with its type.
LEMMA TypeFirst ==
  ASSUME NEW e, Entity(e)
  PROVE  \E r \in Bytes : Id(e) = EntityId(e.type, r)
<1>1. e.type \in EntityTypes \cup RelationTypes /\ e.parts \in Parts(e.type)
  BY DEF Entity
<1>2. CASE e.type = "repository"
  BY <1>1, <1>2, RepositoryTyped DEF Id
<1>3. CASE e.type = "source_revision"
  BY <1>1, <1>3, RevisionTyped DEF Id
<1>4. CASE e.type = "logical_file"
  BY <1>1, <1>4, FileKeyTyped DEF Id
<1>5. CASE e.type = "directory"
  BY <1>1, <1>5, DirectoryTyped DEF Id
<1>6. CASE e.type = "file"
  BY <1>1, <1>6, FileTyped DEF Id
<1>7. CASE e.type = "symbol"
  BY <1>1, <1>7, SymbolTyped DEF Id
<1>8. CASE e.type = "chunk"
  BY <1>1, <1>8, ChunkTyped DEF Id
<1>9. CASE e.type = "index_generation"
  BY <1>1, <1>9, GenerationTyped DEF Id
<1>10. CASE e.type = "point"
  BY <1>1, <1>10, PointTyped DEF Id
<1>11. CASE e.type = "identity_key"
  BY <1>1, <1>11, KeyTyped DEF Id
<1>12. CASE e.type \in RelationTypes
  <2>1. Id(e) = EdgeId(e.type, e.parts)
    BY <1>12, TypesAssumption DEF Id
  <2> QED BY <2>1, <1>1, <1>12, EdgeTyped
<1> QED BY <1>1, <1>2, <1>3, <1>4, <1>5, <1>6, <1>7, <1>8, <1>9, <1>10, <1>11, <1>12, TypesAssumption

\* For all entities there can be, what is hashed for two of them is the same only when they are the same.
LEMMA IdInjective ==
  ASSUME NEW e, NEW f, Entity(e), Entity(f), Id(e) = Id(f)
  PROVE  e = f
<1>1. /\ e.type \in EntityTypes \cup RelationTypes /\ e.parts \in Parts(e.type)
      /\ f.type \in EntityTypes \cup RelationTypes /\ f.parts \in Parts(f.type)
  BY DEF Entity
<1>2. PICK r \in Bytes : Id(e) = EntityId(e.type, r)
  BY TypeFirst
<1>3. PICK s \in Bytes : Id(f) = EntityId(f.type, s)
  BY TypeFirst
<1>4. e.type = f.type
  <2>1. EntityId(e.type, r) = EntityId(f.type, s)
    BY <1>2, <1>3
  <2> QED BY <2>1, <1>1, SameType
<1>5. CASE e.type = "repository"
  <2>1. RepositoryId(e.parts) = RepositoryId(f.parts)
    BY <1>4, <1>5 DEF Id
  <2>2. e.parts = f.parts
    BY <2>1, <1>1, <1>4, <1>5, RepositoryDistinct
  <2> QED BY <2>2, <1>4 DEF Entity
<1>6. CASE e.type = "source_revision"
  <2>1. RevisionId(e.parts) = RevisionId(f.parts)
    BY <1>4, <1>6 DEF Id
  <2>2. e.parts = f.parts
    BY <2>1, <1>1, <1>4, <1>6, RevisionDistinct
  <2> QED BY <2>2, <1>4 DEF Entity
<1>7. CASE e.type = "logical_file"
  <2>1. FileKey(e.parts) = FileKey(f.parts)
    BY <1>4, <1>7 DEF Id
  <2>2. e.parts = f.parts
    BY <2>1, <1>1, <1>4, <1>7, FileKeyDistinct
  <2> QED BY <2>2, <1>4 DEF Entity
<1>8. CASE e.type = "directory"
  <2>1. DirectoryId(e.parts) = DirectoryId(f.parts)
    BY <1>4, <1>8 DEF Id
  <2>2. e.parts = f.parts
    BY <2>1, <1>1, <1>4, <1>8, DirectoryDistinct
  <2> QED BY <2>2, <1>4 DEF Entity
<1>9. CASE e.type = "file"
  <2>1. FileId(e.parts) = FileId(f.parts)
    BY <1>4, <1>9 DEF Id
  <2>2. e.parts = f.parts
    BY <2>1, <1>1, <1>4, <1>9, FileDistinct
  <2> QED BY <2>2, <1>4 DEF Entity
<1>10. CASE e.type = "symbol"
  <2>1. SymbolId(e.parts) = SymbolId(f.parts)
    BY <1>4, <1>10 DEF Id
  <2>2. e.parts = f.parts
    BY <2>1, <1>1, <1>4, <1>10, SymbolDistinct
  <2> QED BY <2>2, <1>4 DEF Entity
<1>11. CASE e.type = "chunk"
  <2>1. ChunkId(e.parts) = ChunkId(f.parts)
    BY <1>4, <1>11 DEF Id
  <2>2. e.parts = f.parts
    BY <2>1, <1>1, <1>4, <1>11, ChunkDistinct
  <2> QED BY <2>2, <1>4 DEF Entity
<1>12. CASE e.type = "index_generation"
  <2>1. GenerationId(e.parts) = GenerationId(f.parts)
    BY <1>4, <1>12 DEF Id
  <2>2. e.parts = f.parts
    BY <2>1, <1>1, <1>4, <1>12, GenerationDistinct
  <2> QED BY <2>2, <1>4 DEF Entity
<1>13. CASE e.type = "point"
  <2>1. PointId(e.parts) = PointId(f.parts)
    BY <1>4, <1>13 DEF Id
  <2>2. e.parts = f.parts
    BY <2>1, <1>1, <1>4, <1>13, PointDistinct
  <2> QED BY <2>2, <1>4 DEF Entity
<1>14. CASE e.type = "identity_key"
  <2>1. IdentityKey(e.parts) = IdentityKey(f.parts)
    BY <1>4, <1>14 DEF Id
  <2>2. e.parts = f.parts
    BY <2>1, <1>1, <1>4, <1>14, KeyDistinct
  <2> QED BY <2>2, <1>4 DEF Entity
<1>15. CASE e.type \in RelationTypes
  <2>1. EdgeId(e.type, e.parts) = EdgeId(e.type, f.parts)
    BY <1>4, <1>15, TypesAssumption DEF Id
  <2>2. e.parts = f.parts
    BY <2>1, <1>1, <1>4, <1>15, EdgeDistinct
  <2> QED BY <2>2, <1>4 DEF Entity
<1> QED BY <1>1, <1>5, <1>6, <1>7, <1>8, <1>9, <1>10, <1>11, <1>12, <1>13, <1>14, <1>15, TypesAssumption

\* identity.py:3, for every set of entities: equal bytes to hash come from equal component lists.
Identified == /\ one \in Entities /\ other \in Entities
         /\ id \in {<<>>, <<Id(one)>>, <<Id(one), Id(other)>>}
THEOREM NamesDistinct == Spec => []Distinct
<1>1. Init => Identified
  BY DEF Init, Identified
<1>2. Identified /\ [Next]_vars => Identified'
  <2> SUFFICES ASSUME Identified, [Next]_vars PROVE Identified'
    OBVIOUS
  <2>1. CASE NameOne
    BY <2>1 DEF Identified, NameOne
  <2>2. CASE NameOther
    <3>1. id = <<Id(one)>>
      BY <2>2 DEF Identified, NameOther
    <3>2. id' = <<Id(one), Id(other)>>
      BY <3>1, <2>2 DEF NameOther
    <3> QED BY <3>2, <2>2 DEF Identified, NameOther
  <2>3. CASE UNCHANGED vars
    BY <2>3 DEF Identified, vars
  <2> QED BY <2>1, <2>2, <2>3 DEF Next
<1>3. Identified => Distinct
  <2> SUFFICES ASSUME Identified, Len(id) = 2, id[1] = id[2] PROVE one = other
    BY DEF Distinct
  <2>1. id = <<Id(one), Id(other)>>
    BY DEF Identified
  <2>2. Entity(one) /\ Entity(other)
    BY EntitiesAssumption DEF Identified
  <2> QED BY <2>1, <2>2, IdInjective
<1> QED BY <1>1, <1>2, <1>3, PTL DEF Spec

-----------------------------------------------------------------------------
(* The files of a commit.                                                  *)
IsTaken(i) == i \in Taken!Blobs /\ Taken!IsIndexed(listed[i]) = "yes"
FilesInv ==
  /\ listed \in [1..MaxListed -> Possible] /\ Taken!TypeOK
  /\ decision # "refused" /\ (decision \in {"assemble", "indexed"} => next = MaxListed + 1)
  /\ \A i \in 1..MaxListed : IF i < next /\ IsTaken(i) THEN written[i] = "blob" ELSE written[i] = "checkout"
  /\ decision # "indexed" => draft = {}
  /\ decision = "indexed" =>
       /\ draft = {i \in Taken!Blobs : Taken!IsIndexed(listed[i]) = "yes"}
       /\ \A i \in draft : languages[i] = <<Taken!AdapterFor(listed[i]), Taken!ParsedBy(listed[i])>>

\* The first adapter that can parse a file is the one of its language.
LEMMA AdapterIs ==
  ASSUME NEW f, NEW j \in 1..4, Taken!CanParse(Taken!Adapters[j], f),
         \A k \in 1 .. j - 1 : ~Taken!CanParse(Taken!Adapters[k], f)
  PROVE  Taken!AdapterFor(f) = Taken!Adapters[j].id
<1> DEFINE First(i) == /\ Taken!CanParse(Taken!Adapters[i], f)
                       /\ \A k \in 1 .. i - 1 : ~Taken!CanParse(Taken!Adapters[k], f)
<1>1. DOMAIN Taken!Adapters = 1..4
  BY DEF Taken!Adapters
<1>2. First(j)
  OBVIOUS
<1>3. \A i \in 1..4 : First(i) => i = j
  OBVIOUS
<1>4. (CHOOSE i \in 1..4 : First(i)) = j
  <2> HIDE DEF First
  <2> QED
    BY <1>2, <1>3
<1>5. Taken!AdapterFor(f) = Taken!Adapters[CHOOSE i \in 1..4 : First(i)].id
  BY <1>1 DEF Taken!AdapterFor
<1> QED
  BY <1>4, <1>5

\* The languages of a file that a walker or a grammar parses, and the adapter that lists them.
Tables(f, lang, parsed, j) ==
  /\ Taken!Extension(f) \in {"py", "js", "jsx", "tsx", "go"}
  /\ lang = Taken!CatalogLanguage(f) /\ parsed = Taken!ParsedBy(f)
  /\ \/ Taken!Extension(f) = "py" /\ lang = "python" /\ parsed = "python" /\ j = 1
     \/ Taken!Extension(f) = "js" /\ lang = "javascript" /\ parsed = "javascript" /\ j = 2
     \/ Taken!Extension(f) = "jsx" /\ lang = "javascript" /\ parsed = "tsx" /\ j = 2
     \/ Taken!Extension(f) = "tsx" /\ lang = "typescript" /\ parsed = "tsx" /\ j = 3
     \/ Taken!Extension(f) = "go" /\ lang = "go" /\ parsed = "go" /\ j = 4

LEMMA TablesAgree ==
  ASSUME Taken!InclusionAssumption, NEW f \in Possible, Taken!ParsedBy(f) # "none"
  PROVE  \E j \in 1..4 : Tables(f, Taken!CatalogLanguage(f), Taken!ParsedBy(f), j)
<1> DEFINE x == Taken!Extension(f)
           Unwalked == {"pyi", "mts", "go", "md", "txt", "cmake.in"}
<1> USE DEF Taken!None
<1>1. ~Taken!Manifest(f)
  BY DEF Taken!ParsedBy, Taken!InclusionAssumption, Taken!Grammar
<1>2. x # "cmake.in"
  BY DEF Taken!InclusionAssumption, Taken!Extension, Taken!Last
<1>3. Taken!CatalogLanguage(f) = Taken!Look(Taken!LanguageByExtension, x)
  BY <1>1 DEF Taken!CatalogLanguage
<1>4. Taken!Walker(f) = Taken!Look(Taken!WalkedByExtension, x)
  BY DEF Taken!Walker
<1>5. DOMAIN Taken!WalkedByExtension = {"py", "js", "jsx", "tsx"}
  BY DEF Taken!WalkedByExtension
<1>6. DOMAIN Taken!LanguageByExtension = {"py", "pyi", "js", "jsx", "mts", "tsx", "go", "md", "txt", "cmake.in"}
  BY DEF Taken!LanguageByExtension
<1>7. CASE x \in {"py", "js", "jsx", "tsx"}
  <2>1. Taken!ParsedBy(f) = Taken!WalkedByExtension[x] /\ Taken!CatalogLanguage(f) = Taken!LanguageByExtension[x]
    BY <1>3, <1>4, <1>5, <1>6, <1>7 DEF Taken!ParsedBy, Taken!Look, Taken!WalkedByExtension
  <2>2. CASE x = "py"
    <3>1. Tables(f, Taken!CatalogLanguage(f), Taken!ParsedBy(f), 1)
      BY <2>1, <2>2 DEF Tables, Taken!WalkedByExtension, Taken!LanguageByExtension
    <3> QED
      BY <3>1
  <2>3. CASE x = "js"
    <3>1. Tables(f, Taken!CatalogLanguage(f), Taken!ParsedBy(f), 2)
      BY <2>1, <2>3 DEF Tables, Taken!WalkedByExtension, Taken!LanguageByExtension
    <3> QED
      BY <3>1
  <2>4. CASE x = "jsx"
    <3>1. Tables(f, Taken!CatalogLanguage(f), Taken!ParsedBy(f), 2)
      BY <2>1, <2>4 DEF Tables, Taken!WalkedByExtension, Taken!LanguageByExtension
    <3> QED
      BY <3>1
  <2>5. CASE x = "tsx"
    <3>1. Tables(f, Taken!CatalogLanguage(f), Taken!ParsedBy(f), 3)
      BY <2>1, <2>5 DEF Tables, Taken!WalkedByExtension, Taken!LanguageByExtension
    <3> QED
      BY <3>1
  <2> QED
    BY <1>7, <2>2, <2>3, <2>4, <2>5
<1>8. CASE x \notin {"py", "js", "jsx", "tsx"}
  <2> DEFINE d == Taken!Look(Detects, x)
  <2>1. Taken!ParsedBy(f) = Taken!Grammar(f) /\ Taken!Grammar(f) # "none"
    BY <1>4, <1>5, <1>8 DEF Taken!ParsedBy, Taken!Look
  <2>2. /\ Taken!CatalogLanguage(f) \notin {"markdown", "text", "none"}
        /\ d \notin {"python", "javascript", "typescript", "tsx"} /\ Taken!Grammar(f) = d
    BY <2>1 DEF Taken!Grammar, Taken!Unparsed
  <2>3. x \in {"pyi", "mts", "go"}
    <3>1. x \in DOMAIN Taken!LanguageByExtension
      BY <1>3, <2>2 DEF Taken!Look
    <3>2. x # "md" /\ x # "txt"
      BY <1>3, <2>2, <3>1 DEF Taken!Look, Taken!LanguageByExtension
    <3> QED
      BY <1>2, <1>6, <1>8, <3>1, <3>2
  <2>4. Taken!CatalogLanguage(f) = Taken!LanguageByExtension[x]
    BY <1>3, <1>6, <2>3 DEF Taken!Look
  <2>5. d = Taken!LanguageByExtension[x]
    <3>1. x \in DOMAIN Detects /\ d = Detects[x]
      BY <2>1, <2>2 DEF Taken!Look
    <3> QED
      BY <1>6, <2>2, <2>3, <3>1 DEF Taken!InclusionAssumption
  <2>6. x = "go"
    BY <2>2, <2>3, <2>5 DEF Taken!LanguageByExtension
  <2>7. Tables(f, Taken!CatalogLanguage(f), Taken!ParsedBy(f), 4)
    BY <2>1, <2>2, <2>4, <2>5, <2>6 DEF Tables, Taken!LanguageByExtension
  <2> QED
    BY <2>7
<1> QED
  BY <1>7, <1>8

LEMMA ParsedAsListed ==
  ASSUME Taken!InclusionAssumption, NEW f \in Possible, Taken!ParsedBy(f) # "none",
         NEW lang, lang = Taken!CatalogLanguage(f)
  PROVE  /\ <<lang, Taken!ParsedBy(f)>> \in {<<l, l>> : l \in {"python", "typescript", "javascript", "go", "rust"}}
                                             \cup {<<"javascript", "tsx">>, <<"typescript", "tsx">>}
         /\ \A a \in Taken!Range(Taken!Adapters) : lang \in a.languages => Taken!AdapterFor(f) = a.id
<1>1. PICK j \in 1..4 : Tables(f, lang, Taken!ParsedBy(f), j)
  BY TablesAgree
<1>2. <<lang, Taken!ParsedBy(f)>> \in {<<l, l>> : l \in {"python", "typescript", "javascript", "go", "rust"}}
                                       \cup {<<"javascript", "tsx">>, <<"typescript", "tsx">>}
  BY <1>1 DEF Tables
<1>3. /\ Taken!CanParse(Taken!Adapters[j], f)
      /\ \A k \in 1 .. j - 1 : ~Taken!CanParse(Taken!Adapters[k], f)
      /\ \A k \in 1..4 : lang \in Taken!Adapters[k].languages => k = j
  BY <1>1 DEF Tables, Taken!CanParse, Taken!Adapters
<1>4. Taken!AdapterFor(f) = Taken!Adapters[j].id
  BY <1>3, AdapterIs
<1>5. \A a \in Taken!Range(Taken!Adapters) : \E k \in 1..4 : a = Taken!Adapters[k]
  BY DEF Taken!Range, Taken!Adapters
<1> QED
  BY <1>2, <1>3, <1>4, <1>5

LEMMA FilesBegin ==
  ASSUME Taken!InclusionAssumption, Taken!Init
  PROVE  FilesInv
<1>1. /\ MaxListed \in Nat /\ listed \in [1..MaxListed -> Possible] /\ next = 1 /\ decision = "write" /\ draft = {}
      /\ \A i \in 1..MaxListed : written[i] = "checkout"
      /\ written = [i \in 1..MaxListed |-> "checkout"]
  BY DEF Taken!Init, Taken!InclusionAssumption
<1>2. Taken!TypeOK
  BY <1>1 DEF Taken!TypeOK
<1> QED
  BY <1>1, <1>2 DEF FilesInv

LEMMA FileWritten ==
  ASSUME Taken!InclusionAssumption, FilesInv, Taken!WriteNext
  PROVE  FilesInv'
<1>1. /\ MaxListed \in Nat /\ decision = "write" /\ next \in 1..MaxListed /\ listed' = listed /\ draft' = draft
      /\ languages' = languages /\ draft = {}
      /\ written \in [1..MaxListed -> {"checkout", "blob"}] /\ listed \in [1..MaxListed -> Possible]
  BY DEF Taken!WriteNext, FilesInv, Taken!InclusionAssumption, Taken!TypeOK
<1>2. Taken!Blobs' = Taken!Blobs /\ \A i \in 1..MaxListed : IsTaken(i)' <=> IsTaken(i)
  BY <1>1 DEF Taken!Blobs, IsTaken
<1>3. CASE next \in Taken!Blobs /\ Taken!IsIndexed(listed[next]) = "raises"
  <2>1. decision' = "raised" /\ next' = next /\ written' = written
    BY <1>3 DEF Taken!WriteNext
  <2>2. Taken!TypeOK'
    BY <1>1, <1>2, <2>1 DEF Taken!TypeOK
  <2> QED
    BY <1>1, <1>2, <2>1, <2>2 DEF FilesInv
<1>4. CASE ~(next \in Taken!Blobs /\ Taken!IsIndexed(listed[next]) = "raises")
  <2>1. decision' = "write" /\ next' = next + 1
    BY <1>1, <1>4 DEF Taken!WriteNext
  <2>2. Taken!IsIndexed(listed[next]) \in {"yes", "no", "raises"}
    BY DEF Taken!IsIndexed, Taken!IsIndexable
  <2>3. IF IsTaken(next) THEN written' = [written EXCEPT ![next] = "blob"] ELSE written' = written
    BY <1>1, <1>4, <2>2 DEF Taken!WriteNext, IsTaken, Taken!Skips, Taken!Written
  <2>4. written' \in [1..MaxListed -> {"checkout", "blob"}]
    BY <1>1, <2>3
  <2>5. Taken!TypeOK'
    BY <1>1, <1>2, <2>1, <2>4 DEF Taken!TypeOK
  <2>6. ASSUME NEW i \in 1..MaxListed
        PROVE  IF i < next' /\ IsTaken(i)' THEN written'[i] = "blob" ELSE written'[i] = "checkout"
    <3>1. IF i < next /\ IsTaken(i) THEN written[i] = "blob" ELSE written[i] = "checkout"
      BY DEF FilesInv
    <3>2. next' = next + 1 /\ next \in Nat /\ i \in Nat /\ (IsTaken(i)' <=> IsTaken(i))
      BY <1>1, <1>2, <2>1
    <3>3. CASE i = next
      BY <1>1, <2>3, <3>1, <3>2, <3>3
    <3>4. CASE i # next
      <4>1. written'[i] = written[i]
        BY <1>1, <2>3, <3>4
      <4>2. i < next' <=> i < next
        BY <3>2, <3>4
      <4> QED
        BY <3>1, <3>2, <4>1, <4>2
    <3> QED
      BY <3>3, <3>4
  <2> QED
    BY <1>1, <2>1, <2>5, <2>6 DEF FilesInv
<1> QED
  BY <1>3, <1>4

LEMMA FilesValidated ==
  ASSUME Taken!InclusionAssumption, FilesInv, Taken!Validate
  PROVE  FilesInv'
<1>1. /\ MaxListed \in Nat /\ decision = "write" /\ next = MaxListed + 1 /\ listed' = listed /\ draft' = draft
      /\ next' = next /\ written' = written /\ languages' = languages
  BY DEF Taken!Validate, FilesInv, Taken!InclusionAssumption, Taken!TypeOK
<1>2. Taken!Blobs' = Taken!Blobs /\ \A i \in 1..MaxListed : IsTaken(i)' <=> IsTaken(i)
  BY <1>1 DEF Taken!Blobs, IsTaken
<1>3. \A i \in Taken!Checked : Taken!Bytes(i) = "blob"
  BY <1>1 DEF Taken!Checked, Taken!Bytes, FilesInv, IsTaken, Taken!Blobs
<1>4. decision' = "assemble"
  BY <1>3 DEF Taken!Validate
<1>5. Taken!TypeOK'
  BY <1>1, <1>2, <1>4 DEF Taken!TypeOK, FilesInv
<1> QED
  BY <1>1, <1>2, <1>4, <1>5 DEF FilesInv

LEMMA FilesAssembled ==
  ASSUME Taken!InclusionAssumption, FilesInv, Taken!Assemble
  PROVE  FilesInv'
<1>1. /\ MaxListed \in Nat /\ decision = "assemble" /\ listed' = listed /\ next' = next /\ written' = written
      /\ draft' = Taken!InDraft
      /\ languages' = [i \in 1..MaxListed |->
           IF i \in Taken!InDraft THEN <<Taken!AdapterFor(listed[i]), Taken!ParsedBy(listed[i])>> ELSE <<>>]
  BY DEF Taken!Assemble, FilesInv, Taken!InclusionAssumption, Taken!TypeOK
<1>2. Taken!Blobs' = Taken!Blobs /\ \A i \in 1..MaxListed : IsTaken(i)' <=> IsTaken(i)
  BY <1>1 DEF Taken!Blobs, IsTaken
<1>3. Taken!InDraft = Taken!Checked /\ Taken!InDraft \subseteq Taken!Blobs /\ Taken!Blobs \subseteq 1..MaxListed
  BY DEF Taken!InDraft, Taken!Checked, Taken!Blobs
<1>4. decision' = "indexed"
  BY <1>3 DEF Taken!Assemble
<1>5. Taken!TypeOK'
  BY <1>1, <1>2, <1>3, <1>4 DEF Taken!TypeOK, FilesInv
<1>6. \A i \in draft' : languages'[i] = <<Taken!AdapterFor(listed[i]), Taken!ParsedBy(listed[i])>>
  BY <1>1, <1>3
<1>7. draft' = {i \in Taken!Blobs : Taken!IsIndexed(listed[i]) = "yes"}
  BY <1>1 DEF Taken!InDraft
<1> QED
  BY <1>1, <1>2, <1>4, <1>5, <1>6, <1>7 DEF FilesInv

LEMMA FilesGive ==
  ASSUME Taken!InclusionAssumption, FilesInv
  PROVE  Taken!TypeOK /\ Taken!NeverRefused /\ Taken!OnlySource /\ Taken!OneLanguage
<1>1. Taken!TypeOK /\ Taken!NeverRefused
  BY DEF FilesInv, Taken!NeverRefused
<1>2. ASSUME decision = "indexed" PROVE Taken!OnlySource
  <2>1. draft = {i \in Taken!Blobs : Taken!IsIndexed(listed[i]) = "yes"} /\ next = MaxListed + 1
    BY <1>2 DEF FilesInv
  <2>2. ASSUME NEW i \in 1..MaxListed, i \in draft
        PROVE  /\ ~listed[i].excluded /\ listed[i].kind # "lockfile" /\ listed[i].mode = "regular"
               /\ listed[i].payload \notin {"big", "early_zero"} /\ written[i] = "blob"
    <3>1. IsTaken(i) /\ i < next
      BY <2>1, <2>2 DEF IsTaken, Taken!InclusionAssumption
    <3> QED
      BY <3>1 DEF FilesInv, IsTaken, Taken!IsIndexed, Taken!IsIncluded, Taken!IsIndexable
  <2>3. ASSUME NEW i \in 1..MaxListed, i \notin draft
        PROVE  written[i] = "checkout"
    BY <2>1, <2>3 DEF FilesInv, IsTaken
  <2> QED
    BY <2>2, <2>3 DEF Taken!OnlySource
<1>3. ASSUME decision = "indexed" PROVE Taken!OneLanguage
  <2> SUFFICES ASSUME NEW i \in draft, languages[i][2] # Taken!None, NEW lang, lang = Taken!CatalogLanguage(listed[i])
               PROVE  /\ <<lang, languages[i][2]>> \in {<<l, l>> : l \in {"python", "typescript", "javascript", "go", "rust"}}
                                                       \cup {<<"javascript", "tsx">>, <<"typescript", "tsx">>}
                      /\ \A a \in Taken!Range(Taken!Adapters) : lang \in a.languages => languages[i][1] = a.id
    BY DEF Taken!OneLanguage
  <2>1. listed[i] \in Possible /\ languages[i] = <<Taken!AdapterFor(listed[i]), Taken!ParsedBy(listed[i])>>
    BY <1>3 DEF FilesInv, Taken!Blobs
  <2>2. languages[i][1] = Taken!AdapterFor(listed[i]) /\ languages[i][2] = Taken!ParsedBy(listed[i])
    BY <2>1
  <2>3. Taken!ParsedBy(listed[i]) # "none"
    BY <2>2 DEF Taken!None
  <2> HIDE DEF Taken!ParsedBy
  <2> QED
    BY <2>1, <2>2, <2>3, ParsedAsListed
<1>4. decision # "indexed" => Taken!OnlySource /\ Taken!OneLanguage
  BY DEF FilesInv, Taken!OnlySource, Taken!OneLanguage
<1> QED
  BY <1>1, <1>2, <1>3, <1>4

\* inclusion.py: the rule decides the same for the tree, its validation, the draft and the catalogue, for
\* every commit whose suffixes and manifests are as the tables take them.
THEOREM FilesAreDecided ==
  ASSUME Taken!InclusionAssumption
  PROVE  Taken!Spec => [](Taken!TypeOK /\ Taken!NeverRefused /\ Taken!OnlySource /\ Taken!OneLanguage)
<1>1. Taken!Init => FilesInv
  BY FilesBegin
<1>2. FilesInv /\ [Taken!Next]_Taken!vars => FilesInv'
  <2> SUFFICES ASSUME FilesInv, [Taken!Next]_Taken!vars PROVE FilesInv'
    OBVIOUS
  <2>1. CASE Taken!Next
    BY <2>1, FileWritten, FilesValidated, FilesAssembled DEF Taken!Next
  <2>2. CASE UNCHANGED Taken!vars
    BY <2>2 DEF FilesInv, Taken!vars, Taken!TypeOK, Taken!Blobs, IsTaken
  <2> QED
    BY <2>1, <2>2
<1>3. FilesInv => Taken!TypeOK /\ Taken!NeverRefused /\ Taken!OnlySource /\ Taken!OneLanguage
  BY FilesGive
<1> QED
  BY <1>1, <1>2, <1>3, PTL DEF Taken!Spec

-----------------------------------------------------------------------------
(* The stored names.                                                       *)
StoredInv ==
  /\ stored = Stored!Nothing("none") \/ (url \in Urls /\ stored = Stored!Normalized(url))
  /\ prefix = <<>> \/ (path \in RelPaths /\ parent \in Parents /\ signature \in Signatures /\ prefix = Stored!EmbeddingPrefix)
  /\ \/ url \in Urls /\ path = <<>>
     \/ path \in RelPaths /\ parent \in Parents /\ signature \in Signatures

\* Taking off an ending.
LEMMA WithoutLast ==
  ASSUME NEW T, NEW q \in Seq(T), NEW t \in T
  PROVE  Stored!Without(Append(q, t), t) = q
  BY DEF Stored!Without
LEMMA WithoutNone ==
  ASSUME NEW T, NEW q \in Seq(T), NEW t, q # <<>> => q[Len(q)] # t
  PROVE  Stored!Without(q, t) = q
  BY DEF Stored!Without

LEMMA EndingsGo ==
  ASSUME NEW T, {"/", ".git"} \subseteq T, NEW p \in Seq(T), Stored!Plain(p), NEW e \in Stored!Endings
  PROVE  Stored!Trimmed(p \o e) = p
<1>1. p # <<>> /\ p[Len(p)] # "/" /\ p[Len(p)] # ".git" /\ Len(p) \in Nat
  BY DEF Stored!Plain
<1>2. Stored!Without(p, "/") = p /\ Stored!Without(p, ".git") = p
  BY ONLY <1>1, p \in Seq(T), WithoutNone
<1>3. CASE e = <<>>
  <2>1. p \o e = p
    BY <1>3
  <2> QED
    BY <1>2, <2>1 DEF Stored!Trimmed
<1>4. CASE e = <<"/">>
  <2>1. p \o e = Append(p, "/")
    BY <1>4
  <2> QED
    BY <1>2, <2>1, WithoutLast DEF Stored!Trimmed
<1>5. CASE e = <<".git">>
  <2>1. p \o e = Append(p, ".git") /\ Append(p, ".git") \in Seq(T)
    BY <1>5
  <2>2. Append(p, ".git")[Len(Append(p, ".git"))] = ".git"
    BY <1>1
  <2>3. Stored!Without(Append(p, ".git"), "/") = Append(p, ".git")
    BY <2>1, <2>2, WithoutNone
  <2> QED
    BY <2>1, <2>3, WithoutLast DEF Stored!Trimmed
<1>6. CASE e = <<".git", "/">>
  <2>1. p \o e = Append(Append(p, ".git"), "/") /\ Append(p, ".git") \in Seq(T)
    BY <1>6
  <2> QED
    BY <2>1, WithoutLast DEF Stored!Trimmed
<1> QED
  BY <1>3, <1>4, <1>5, <1>6 DEF Stored!Endings

LEMMA SpelledOnce ==
  ASSUME Stored!NamesAssumption, url \in Urls, NEW n \in 2..Len(Stored!Given(url).path),
         NEW p, p = SubSeq(Stored!Given(url).path, 1, n),
         Stored!Plain(p), Stored!Spells(url, p), url.scheme = "https" \/ url.form = "scp"
  PROVE  Stored!Normalized(url) = [scheme |-> "https", host |-> Lower[url.host], port |-> url.port, path |-> p]
<1> DEFINE g == Stored!Given(url)
<1>1. /\ url \in [form : {"url", "scp"}, scheme : STRING, user : STRING, host : DOMAIN Lower, port : Nat,
                  path : Seq(Tokens), tail : STRING]
  BY DEF Stored!NamesAssumption
<1>2. /\ g.scheme = "https" /\ g.host = url.host /\ g.port = url.port
      /\ g.path = IF url.form = "scp" THEN <<"/">> \o url.path ELSE url.path
      /\ g.path \in Seq(Tokens)
  BY <1>1 DEF Stored!Given, Stored!NamesAssumption
<1>3. p \in Seq(Tokens) /\ p # <<>> /\ p[1] = "/"
  <2>1. Len(g.path) \in Nat /\ n \in 1..Len(g.path)
    BY <1>2
  <2>2. SubSeq(g.path, 1, n) \in Seq(Tokens)
    BY <1>2, <2>1
  <2> QED
    BY <2>2 DEF Stored!Plain
<1>4. PICK e \in Stored!Endings : url.path = (IF url.form = "scp" THEN Tail(p) ELSE p) \o e
  BY DEF Stored!Spells
<1>5. e \in Seq(Tokens)
  <2>1. "/" \in Tokens /\ ".git" \in Tokens
    BY DEF Stored!NamesAssumption
  <2>2. e \in {<<>>, <<"/">>, <<".git">>, <<".git", "/">>}
    BY DEF Stored!Endings
  <2>3. <<>> \in Seq(Tokens) /\ <<"/">> \in Seq(Tokens) /\ <<".git">> \in Seq(Tokens) /\ <<".git", "/">> \in Seq(Tokens)
    BY <2>1
  <2> QED
    BY <2>2, <2>3
<1>6. g.path = p \o e
  <2>1. CASE url.form = "scp"
    <3>1. g.path = <<"/">> \o (Tail(p) \o e)
      BY <1>2, <1>4, <2>1
    <3>2. p = <<"/">> \o Tail(p) /\ Tail(p) \in Seq(Tokens)
      BY <1>3
    <3>3. "/" \in Tokens
      BY DEF Stored!NamesAssumption
    <3>4. p \o e = (<<"/">> \o Tail(p)) \o e
      BY <3>2
    <3>5. <<"/">> \in Seq(Tokens)
      BY <3>3
    <3>6. (<<"/">> \o Tail(p)) \o e = <<"/">> \o (Tail(p) \o e)
      BY ONLY <1>5, <3>2, <3>5, ConcatAssociative
    <3> QED
      BY <3>1, <3>4, <3>6
  <2>2. CASE url.form # "scp"
    BY <1>2, <1>4, <2>2
  <2> QED
    BY <2>1, <2>2
<1>7. Stored!Trimmed(g.path) = p
  BY <1>3, <1>6, EndingsGo DEF Stored!NamesAssumption
<1>8. p # <<"/">>
  BY DEF Stored!Plain
<1>9. Stored!Accepts(g)
  BY <1>2 DEF Stored!Accepts
<1> HIDE DEF g
<1>10. Stored!Normalized(url) = [scheme |-> g.scheme, host |-> Lower[g.host], port |-> g.port, path |-> p]
  BY <1>3, <1>7, <1>8, <1>9 DEF Stored!Normalized, g
<1> QED
  BY <1>2, <1>10

LEMMA HttpStays ==
  ASSUME Stored!NamesAssumption, url \in Urls, Stored!Normalized(url).scheme = "http"
  PROVE  url.form = "url" /\ allowed /\ Stored!Normalized(url).host \in Loopback
<1> DEFINE g == Stored!Given(url)
<1>1. Stored!Accepts(g) /\ Stored!Normalized(url).scheme = g.scheme /\ Stored!Normalized(url).host = Lower[g.host]
  BY DEF Stored!Normalized, Stored!Nothing
<1>2. url \in [form : {"url", "scp"}, scheme : STRING, user : STRING, host : DOMAIN Lower, port : Nat,
               path : Seq(Tokens), tail : STRING]
  BY DEF Stored!NamesAssumption
<1>3. url.form = "scp" => g.scheme = "https"
  BY <1>2 DEF Stored!Given
<1>4. Lower[g.host] \in Loopback /\ allowed
  BY <1>1 DEF Stored!Accepts, Stored!Local
<1> QED
  BY <1>1, <1>2, <1>3, <1>4

\* A prefix shows what was put behind the path.
LEMMA ShownAfter ==
  ASSUME NEW T, "::" \in T, NEW p \in Seq(T), NEW c \in Seq(T), c # <<>>
  PROVE  Stored!DisplayPrefix(p \o <<"::">> \o c, p) = c
<1> DEFINE l == Stored!Lead(p)
           pre == p \o <<"::">> \o c
<1>1. l = p \o <<"::">> /\ pre = l \o c
  BY DEF Stored!Lead
<1>2. l \in Seq(T) /\ Len(l) = Len(p) + 1 /\ Len(p) \in Nat /\ Len(c) \in Nat
  BY <1>1
<1>3. pre \in Seq(T) /\ Len(pre) = Len(l) + Len(c)
  BY <1>1, <1>2
<1>4. pre # p
  BY <1>2, <1>3
<1> HIDE DEF l, pre
<1>5. SubSeq(l, 1, Len(l)) = SubSeq(pre, 1, Len(l)) /\ Len(l) <= Len(pre)
  BY <1>1, <1>2, <1>3
<1>6. Stored!IsPrefix(l, pre)
  BY <1>5 DEF Stored!IsPrefix
<1>7. SubSeq(pre, Len(l) + 1, Len(pre)) = c
  BY <1>1, <1>2, <1>3
<1> USE DEF l, pre
<1> QED
  BY <1>4, <1>6, <1>7 DEF Stored!DisplayPrefix

LEMMA PrefixShown ==
  ASSUME Stored!NamesAssumption, path \in RelPaths, parent \in Parents, signature \in Signatures
  PROVE  Stored!DisplayPrefix(Stored!EmbeddingPrefix, path) = Stored!ContextPrefix
<1>1. path \in Seq(Tokens) /\ parent \in Seq(Tokens) /\ signature \in Seq(Tokens) /\ {"::", "(", ")"} \subseteq Tokens
  BY DEF Stored!NamesAssumption
<1>2. Stored!ContextPrefix \in Seq(Tokens)
  BY <1>1 DEF Stored!ContextPrefix
<1>3. CASE Stored!ContextPrefix = <<>>
  BY <1>3 DEF Stored!EmbeddingPrefix, Stored!DisplayPrefix
<1>4. CASE Stored!ContextPrefix # <<>>
  <2>1. Stored!EmbeddingPrefix = path \o <<"::">> \o Stored!ContextPrefix
    BY <1>4 DEF Stored!EmbeddingPrefix
  <2> QED
    BY <1>1, <1>2, <1>4, <2>1, ShownAfter
<1> QED
  BY <1>3, <1>4

LEMMA StoredTyped ==
  ASSUME Stored!NamesAssumption, StoredInv
  PROVE  Stored!TypeOK
<1>1. /\ stored.scheme \in {"none", "rejected", "https", "http"} /\ DOMAIN stored = {"scheme", "host", "port", "path"}
      /\ stored.scheme = "http" => url.form = "url"
  <2>1. CASE stored = Stored!Nothing("none")
    BY <2>1 DEF Stored!Nothing
  <2>2. CASE url \in Urls /\ stored = Stored!Normalized(url)
    <3>1. stored.scheme = "http" => url.form = "url"
      BY <2>2, HttpStays
    <3>2. stored.scheme \in {"rejected", "https", "http"} /\ DOMAIN stored = {"scheme", "host", "port", "path"}
      BY <2>2 DEF Stored!Normalized, Stored!Nothing, Stored!Accepts
    <3> QED
      BY <3>1, <3>2
  <2> QED
    BY <2>1, <2>2 DEF StoredInv
<1>2. prefix = <<>> \/ path # <<>>
  BY DEF StoredInv, Stored!NamesAssumption
<1> QED
  BY <1>1, <1>2 DEF Stored!TypeOK

LEMMA NamesGive ==
  ASSUME Stored!NamesAssumption, StoredInv
  PROVE  /\ Stored!TypeOK /\ Stored!OneRepository /\ Stored!HttpIsLocal
         /\ Stored!ShownIsStored /\ Stored!FingerprintPinsCollection
<1>1. Stored!OneRepository /\ Stored!HttpIsLocal
  <2>1. CASE stored = Stored!Nothing("none")
    <3>1. stored.scheme = "none"
      BY <2>1 DEF Stored!Nothing
    <3> QED
      BY <3>1 DEF Stored!OneRepository, Stored!HttpIsLocal
  <2>2. CASE url \in Urls /\ stored = Stored!Normalized(url)
    BY <2>2, SpelledOnce, HttpStays DEF Stored!OneRepository, Stored!HttpIsLocal
  <2> QED
    BY <2>1, <2>2 DEF StoredInv
<1>2. Stored!ShownIsStored
  BY PrefixShown DEF StoredInv, Stored!ShownIsStored
<1>3. Stored!FingerprintPinsCollection
  BY DEF Stored!FingerprintPinsCollection, Stored!Fingerprint, Stored!CollectionName
<1> QED
  BY <1>1, <1>2, <1>3, StoredTyped

\* identity.py: one stored URL for every spelling of a repository, HTTP on this machine only, and prefixes that
\* show what they were made from, for any hosts, paths, symbols and configurations.
THEOREM NamesAreOne ==
  ASSUME Stored!NamesAssumption
  PROVE  Stored!Spec => [](/\ Stored!TypeOK /\ Stored!OneRepository /\ Stored!HttpIsLocal
                           /\ Stored!ShownIsStored /\ Stored!FingerprintPinsCollection)
<1>1. Stored!Init => StoredInv
  BY DEF Stored!Init, StoredInv
<1>2. StoredInv /\ [Stored!Next]_Stored!vars => StoredInv'
  <2> SUFFICES ASSUME StoredInv, [Stored!Next]_Stored!vars PROVE StoredInv'
    OBVIOUS
  <2>1. CASE Stored!Store
    <3>1. /\ url' = url /\ path' = path /\ parent' = parent /\ signature' = signature /\ prefix' = prefix
          /\ config' = config /\ allowed' = allowed /\ path = <<>> /\ stored' = Stored!Normalized(url)
      BY <2>1 DEF Stored!Store
    <3>2. url \in Urls /\ prefix = <<>>
      BY <3>1 DEF StoredInv, Stored!NamesAssumption
    <3>3. Stored!Normalized(url)' = Stored!Normalized(url)
      BY <3>1 DEF Stored!Normalized, Stored!Given, Stored!Accepts, Stored!Trimmed, Stored!Local
    <3> QED
      BY <3>1, <3>2, <3>3 DEF StoredInv
  <2>2. CASE Stored!Prefix
    <3>1. /\ url' = url /\ path' = path /\ parent' = parent /\ signature' = signature /\ stored' = stored
          /\ config' = config /\ allowed' = allowed /\ path # <<>> /\ prefix' = Stored!EmbeddingPrefix
      BY <2>2 DEF Stored!Prefix
    <3>2. Stored!Normalized(url)' = Stored!Normalized(url) /\ Stored!EmbeddingPrefix' = Stored!EmbeddingPrefix
      BY <3>1 DEF Stored!Normalized, Stored!Given, Stored!Accepts, Stored!Trimmed, Stored!Local, Stored!EmbeddingPrefix,
        Stored!ContextPrefix
    <3> QED
      BY <3>1, <3>2 DEF StoredInv
  <2>3. CASE UNCHANGED Stored!vars
    <3>1. UNCHANGED <<url, allowed, stored, path, parent, signature, prefix, config>>
      BY <2>3 DEF Stored!vars
    <3>2. Stored!Normalized(url)' = Stored!Normalized(url) /\ Stored!EmbeddingPrefix' = Stored!EmbeddingPrefix
      BY <3>1 DEF Stored!Normalized, Stored!Given, Stored!Accepts, Stored!Trimmed, Stored!Local, Stored!EmbeddingPrefix,
        Stored!ContextPrefix
    <3> QED
      BY <3>1, <3>2 DEF StoredInv
  <2> QED
    BY <2>1, <2>2, <2>3 DEF Stored!Next
<1>3. StoredInv => /\ Stored!TypeOK /\ Stored!OneRepository /\ Stored!HttpIsLocal
                   /\ Stored!ShownIsStored /\ Stored!FingerprintPinsCollection
  BY NamesGive
<1> QED
  BY <1>1, <1>2, <1>3, PTL DEF Stored!Spec

-----------------------------------------------------------------------------
(* Lists: what a comprehension leaves (Those), and lists joined into one.  *)
(* Induction is on how much of a list has been looked at: had a claim      *)
(* failed, it would have failed first somewhere.                           *)

\* A set of naturals that is not empty has a least element.
LEMMA Least ==
  ASSUME NEW T \in SUBSET Nat, T # {}
  PROVE  \E m \in T : \A k \in T : m <= k
<1>1. IsWellFoundedOn(OpToRel(<,Nat), Nat)
  BY NatLessThanWellFounded
<1>2. PICK x \in T : \A y \in T : ~(<<y, x>> \in OpToRel(<,Nat))
  BY <1>1, WFMin
<1>3. \A y \in T : <<y, x>> \in OpToRel(<,Nat) <=> y < x
  BY DEF OpToRel
<1>4. \A y \in T : ~(y < x)
  BY <1>2, <1>3
<1> QED
  BY <1>4

\* Induction: 0 and the successors of its elements make all the naturals.
LEMMA UpTo ==
  ASSUME NEW T, 0 \in T, \A n \in Nat : n \in T => n + 1 \in T
  PROVE  Nat \subseteq T
<1> SUFFICES ASSUME Nat \ T # {} PROVE FALSE
  OBVIOUS
<1>1. PICK m \in Nat \ T : \A k \in Nat \ T : m <= k
  BY Least
<1>2. m # 0 /\ m - 1 \in Nat /\ m - 1 \in T
  BY <1>1
<1> QED
  BY <1>1, <1>2

\* g[i] is the list of what is at the places of I up to i.
PartsOf(g, s, I, n) ==
  g = [i \in 0..n |-> IF i = 0 THEN <<>> ELSE IF i \in I THEN Append(g[i - 1], s[i]) ELSE g[i - 1]]

LEMMA PrefixesExist ==
  ASSUME NEW s, NEW I, NEW n \in Nat
  PROVE  \E g : PartsOf(g, s, I, n)
<1> DEFINE T == {k \in Nat : \E g : PartsOf(g, s, I, k)}
<1>1. 0 \in T
  <2>1. PartsOf([i \in 0..0 |-> <<>>], s, I, 0)
    BY DEF PartsOf
  <2> QED
    BY <2>1
<1>2. ASSUME NEW k \in Nat, k \in T PROVE k + 1 \in T
  <2>1. PICK g : PartsOf(g, s, I, k)
    BY <1>2
  <2> DEFINE h == [i \in 0..k + 1 |-> IF i = k + 1 THEN IF k + 1 \in I THEN Append(g[k], s[k + 1]) ELSE g[k] ELSE g[i]]
  <2>2. \A i \in 0..k : h[i] = g[i]
    OBVIOUS
  <2>4. \A i \in 0..k : g[i] = IF i = 0 THEN <<>> ELSE IF i \in I THEN Append(g[i - 1], s[i]) ELSE g[i - 1]
    BY <2>1 DEF PartsOf
  <2>3. \A i \in 0..k + 1 : h[i] = IF i = 0 THEN <<>> ELSE IF i \in I THEN Append(h[i - 1], s[i]) ELSE h[i - 1]
    <3>1. ASSUME NEW i \in 0..k
          PROVE h[i] = IF i = 0 THEN <<>> ELSE IF i \in I THEN Append(h[i - 1], s[i]) ELSE h[i - 1]
      <4>1. CASE i = 0
        BY <4>1, <2>2, <2>4
      <4>2. CASE i # 0
        <5>1. i - 1 \in 0..k
          BY <4>2
        <5>2. h[i] = g[i] /\ h[i - 1] = g[i - 1]
          BY <5>1, <2>2
        <5> HIDE DEF h
        <5> QED
          BY <4>2, <5>2, <2>4
      <4> QED BY <4>1, <4>2
    <3>2. h[k + 1] = IF k + 1 \in I THEN Append(h[k], s[k + 1]) ELSE h[k]
      BY <2>2
    <3>3. \A i \in 0..k + 1 : i \in 0..k \/ i = k + 1
      OBVIOUS
    <3>4. k + 1 # 0 /\ (k + 1) - 1 = k
      OBVIOUS
    <3> HIDE DEF h
    <3> QED BY <3>1, <3>2, <3>3, <3>4
  <2>5. h = [i \in 0..k + 1 |-> h[i]]
    OBVIOUS
  <2> HIDE DEF h
  <2>6. PartsOf(h, s, I, k + 1)
    BY <2>3, <2>5 DEF PartsOf
  <2> QED
    BY <2>6
<1> HIDE DEF T
<1>3. Nat \subseteq T
  BY <1>1, <1>2, UpTo
<1> QED
  BY <1>3 DEF T

LEMMA ThosePrefix ==
  ASSUME NEW s, NEW I, Len(s) \in Nat
  PROVE  \E g : PartsOf(g, s, I, Len(s)) /\ Served!Those(s, I) = g[Len(s)]
<1>1. \E g : PartsOf(g, s, I, Len(s))
  BY PrefixesExist
<1> DEFINE f == CHOOSE g : PartsOf(g, s, I, Len(s))
<1>2. PartsOf(f, s, I, Len(s))
  BY <1>1
<1>3. Served!Those(s, I) = f[Len(s)]
  BY DEF Served!Those, PartsOf
<1> QED BY <1>2, <1>3

\* p goes up through the places of I that are not after n.
Places(p, I, n) ==
  /\ p \in Seq(Nat) /\ Len(p) <= n
  /\ \A a \in 1..Len(p) : p[a] \in I \cap (1..n)
  /\ \A a, b \in 1..Len(p) : a < b => p[a] < p[b]
  /\ \A i \in I \cap (1..n) : \E a \in 1..Len(p) : p[a] = i
At(s, p) == [a \in 1..Len(p) |-> s[p[a]]]

LEMMA OnePlaceMore ==
  ASSUME NEW s, NEW I, NEW n \in Nat, NEW p, Places(p, I, n)
  PROVE  IF n + 1 \in I THEN /\ Places(Append(p, n + 1), I, n + 1)
                             /\ At(s, Append(p, n + 1)) = Append(At(s, p), s[n + 1])
                        ELSE Places(p, I, n + 1)
<1> DEFINE longer == Append(p, n + 1)
<1>0. p \in Seq(Nat) /\ Len(p) \in Nat /\ Len(p) <= n
  BY DEF Places
<1>1. CASE n + 1 \in I
  <2>1. /\ longer \in Seq(Nat) /\ Len(longer) = Len(p) + 1 /\ longer[Len(p) + 1] = n + 1
        /\ \A a \in 1..Len(p) : longer[a] = p[a]
    BY <1>0
  <2> HIDE DEF longer
  <2>2. \A a \in 1..Len(longer) : a \in 1..Len(p) \/ a = Len(p) + 1
    BY <2>1, <1>0
  <2>3. \A a \in 1..Len(longer) : longer[a] \in I \cap (1..n + 1)
    BY <1>1, <2>1, <2>2 DEF Places
  <2>4. ASSUME NEW a \in 1..Len(longer), NEW b \in 1..Len(longer), a < b PROVE longer[a] < longer[b]
    <3>1. a \in 1..Len(p)
      BY <2>1, <2>4, <1>0
    <3>2. CASE b \in 1..Len(p)
      BY <3>1, <3>2, <2>1, <2>4 DEF Places
    <3>3. CASE b = Len(p) + 1
      <4>1. p[a] \in 1..n
        BY <3>1 DEF Places
      <4> QED BY <4>1, <3>1, <3>3, <2>1
    <3> QED BY <2>2, <3>2, <3>3
  <2>5. ASSUME NEW i \in I \cap (1..n + 1) PROVE \E a \in 1..Len(longer) : longer[a] = i
    <3>1. CASE i = n + 1
      <4>1. Len(p) + 1 \in 1..Len(longer)
        BY <2>1, <1>0
      <4> QED BY <4>1, <3>1, <2>1
    <3>2. CASE i # n + 1
      <4>1. i \in I \cap (1..n)
        BY <3>2
      <4>2. PICK a \in 1..Len(p) : p[a] = i
        BY <4>1 DEF Places
      <4>3. a \in 1..Len(longer) /\ longer[a] = i
        BY <4>2, <2>1, <1>0
      <4> QED BY <4>3
    <3> QED BY <3>1, <3>2
  <2>6. Places(longer, I, n + 1)
    BY <1>0, <2>1, <2>3, <2>4, <2>5 DEF Places
  <2>7. At(s, longer) = Append(At(s, p), s[n + 1])
    <3>1. Len(At(s, p)) = Len(p) /\ \A a \in 1..Len(p) : At(s, p)[a] = s[p[a]]
      BY <1>0 DEF At
    <3>2. Append(At(s, p), s[n + 1]) = [a \in 1..Len(p) + 1 |-> IF a = Len(p) + 1 THEN s[n + 1] ELSE s[p[a]]]
      BY <3>1, <1>0 DEF At
    <3>3. At(s, longer) = [a \in 1..Len(p) + 1 |-> s[longer[a]]]
      BY <2>1 DEF At
    <3>4. \A a \in 1..Len(p) + 1 : s[longer[a]] = IF a = Len(p) + 1 THEN s[n + 1] ELSE s[p[a]]
      BY <2>1, <2>2
    <3> QED BY <3>2, <3>3, <3>4
  <2> QED BY <1>1, <2>6, <2>7 DEF longer
<1>2. CASE n + 1 \notin I
  <2>1. \A i \in I \cap (1..n + 1) : i \in I \cap (1..n)
    BY <1>2
  <2>2. Places(p, I, n + 1)
    BY <1>0, <2>1 DEF Places
  <2> QED BY <1>2, <2>2
<1> QED BY <1>1, <1>2

\* Those lists what is at the places of I, in order.
LEMMA ThoseList ==
  ASSUME NEW S, NEW s \in Seq(S), NEW I
  PROVE  \E p : Places(p, I, Len(s)) /\ Served!Those(s, I) = At(s, p)
<1>0. Len(s) \in Nat
  OBVIOUS
<1>1. PICK g : PartsOf(g, s, I, Len(s)) /\ Served!Those(s, I) = g[Len(s)]
  BY <1>0, ThosePrefix
<1> DEFINE T == {n \in Nat : n <= Len(s) => \E p : Places(p, I, n) /\ g[n] = At(s, p)}
<1>2. 0 \in T
  <2>1. g[0] = <<>> /\ <<>> = At(s, <<>>)
    BY <1>0, <1>1 DEF PartsOf, At
  <2>2. Places(<<>>, I, 0)
    BY DEF Places
  <2> QED BY <2>1, <2>2
<1>3. ASSUME NEW n \in Nat, n \in T PROVE n + 1 \in T
  <2> SUFFICES ASSUME n + 1 <= Len(s) PROVE \E p : Places(p, I, n + 1) /\ g[n + 1] = At(s, p)
    OBVIOUS
  <2>1. PICK p : Places(p, I, n) /\ g[n] = At(s, p)
    BY <1>3, <1>0
  <2>2. g[n + 1] = IF n + 1 \in I THEN Append(g[n], s[n + 1]) ELSE g[n]
    <3>1. n + 1 \in 0..Len(s) /\ n + 1 # 0 /\ (n + 1) - 1 = n
      BY <1>0
    <3> QED BY <3>1, <1>1 DEF PartsOf
  <2>3. CASE n + 1 \in I
    BY <2>1, <2>2, <2>3, OnePlaceMore
  <2>4. CASE n + 1 \notin I
    BY <2>1, <2>2, <2>4, OnePlaceMore
  <2> QED BY <2>3, <2>4
<1> HIDE DEF T
<1>4. Nat \subseteq T
  BY <1>2, <1>3, UpTo
<1>5. Len(s) \in T
  BY <1>0, <1>4
<1> QED BY <1>0, <1>1, <1>5 DEF T

On(x, s) == \E i \in 1..Len(s) : s[i] = x
Single(s) == \A i, j \in 1..Len(s) : i # j => s[i] # s[j]

\* Nothing is lost of a list, and nothing stays twice.
LEMMA OnceList ==
  ASSUME NEW S, NEW s \in Seq(S)
  PROVE  /\ Served!Once(s) \in Seq(S) /\ Single(Served!Once(s))
         /\ \A x : On(x, Served!Once(s)) <=> On(x, s)
<1> DEFINE I == {i \in DOMAIN s : \A j \in 1..i - 1 : s[j] # s[i]}
<1>0. Len(s) \in Nat /\ DOMAIN s = 1..Len(s) /\ \A i \in 1..Len(s) : s[i] \in S
  OBVIOUS
<1>1. PICK p : Places(p, I, Len(s)) /\ Served!Those(s, I) = At(s, p)
  BY ThoseList
<1>2. Served!Once(s) = At(s, p)
  BY <1>1 DEF Served!Once
<1>3. /\ Len(p) \in Nat /\ \A a \in 1..Len(p) : p[a] \in I /\ p[a] \in 1..Len(s)
      /\ \A a, b \in 1..Len(p) : a < b => p[a] < p[b]
      /\ \A i \in I : \E a \in 1..Len(p) : p[a] = i
  BY <1>0, <1>1 DEF Places
<1>4. /\ At(s, p) \in Seq(S) /\ Len(At(s, p)) = Len(p)
      /\ \A a \in 1..Len(p) : At(s, p)[a] = s[p[a]]
  BY <1>0, <1>3 DEF At
<1>5. \A i \in I : i \in 1..Len(s) /\ \A j \in 1..i - 1 : s[j] # s[i]
  BY <1>0
<1>6. \A a, b \in 1..Len(p) : a < b => s[p[a]] # s[p[b]]
  <2> TAKE a, b \in 1..Len(p)
  <2> HAVE a < b
  <2>1. p[a] < p[b] /\ p[b] \in I /\ p[a] \in 1..Len(s) /\ p[b] \in 1..Len(s)
    BY <1>3
  <2>2. p[a] \in 1..p[b] - 1
    BY <2>1
  <2> HIDE DEF I
  <2> QED
    BY <2>1, <2>2, <1>5
<1>7. Single(At(s, p))
  BY <1>3, <1>4, <1>6 DEF Single
<1>8. ASSUME NEW x, On(x, s) PROVE On(x, At(s, p))
  <2> DEFINE T == {i \in 1..Len(s) : s[i] = x}
  <2>1. T \in SUBSET Nat /\ T # {}
    BY <1>0, <1>8 DEF On
  <2>2. PICK m \in T : \A k \in T : m <= k
    BY <2>1, Least
  <2>3. m \in I /\ s[m] = x
    BY <1>0, <2>2
  <2> HIDE DEF I
  <2>4. PICK a \in 1..Len(p) : p[a] = m
    BY <1>3, <2>3
  <2>5. At(s, p)[a] = x
    BY <1>4, <2>3, <2>4
  <2> QED
    BY <1>4, <2>4, <2>5 DEF On
<1>9. ASSUME NEW x, On(x, At(s, p)) PROVE On(x, s)
  BY <1>3, <1>4, <1>9 DEF On
<1> HIDE DEF I
<1> QED
  BY <1>2, <1>4, <1>7, <1>8, <1>9

LEMMA JoinedHas ==
  ASSUME NEW S, NEW s \in Seq(S), NEW t \in Seq(S)
  PROVE  \A x : On(x, s \o t) <=> On(x, s) \/ On(x, t)
<1>1. /\ Len(s \o t) = Len(s) + Len(t) /\ Len(s) \in Nat /\ Len(t) \in Nat
      /\ \A i \in 1..Len(s) : (s \o t)[i] = s[i]
      /\ \A i \in 1..Len(t) : (s \o t)[Len(s) + i] = t[i]
  OBVIOUS
<1> DEFINE u == s \o t
<1> HIDE DEF u
<1>2. ASSUME NEW x, NEW i \in 1..Len(u), u[i] = x PROVE On(x, s) \/ On(x, t)
  <2>1. CASE i <= Len(s)
    BY <1>1, <1>2, <2>1 DEF On, u
  <2>2. CASE ~(i <= Len(s))
    <3>1. i - Len(s) \in 1..Len(t) /\ Len(s) + (i - Len(s)) = i
      BY <1>1, <1>2, <2>2 DEF u
    <3> QED
      BY <1>1, <1>2, <3>1 DEF On, u
  <2> QED
    BY <2>1, <2>2
<1>3. \A i \in 1..Len(s) : i \in 1..Len(u)
  BY <1>1 DEF u
<1>4. \A i \in 1..Len(t) : Len(s) + i \in 1..Len(u)
  BY <1>1 DEF u
<1> QED
  BY <1>1, <1>2, <1>3, <1>4 DEF On, u

\* g[i] is the first i lists, joined.
JoinsOf(g, ss, n) == g = [i \in 1..n |-> IF i = 1 THEN ss[i] ELSE g[i - 1] \o ss[i]]

LEMMA JoinsExist ==
  ASSUME NEW ss, NEW n \in Nat
  PROVE  \E g : JoinsOf(g, ss, n)
<1> DEFINE T == {k \in Nat : \E g : JoinsOf(g, ss, k)}
<1>1. 0 \in T
  <2>1. JoinsOf([i \in 1..0 |-> <<>>], ss, 0)
    BY DEF JoinsOf
  <2> QED
    BY <2>1
<1>2. ASSUME NEW k \in Nat, k \in T PROVE k + 1 \in T
  <2>1. PICK g : JoinsOf(g, ss, k)
    BY <1>2
  <2> DEFINE h == [i \in 1..k + 1 |-> IF i = k + 1 THEN IF k = 0 THEN ss[k + 1] ELSE g[k] \o ss[k + 1] ELSE g[i]]
  <2>2. \A i \in 1..k : h[i] = g[i] /\ g[i] = IF i = 1 THEN ss[i] ELSE g[i - 1] \o ss[i]
    <3>1. g = [i \in 1..k |-> IF i = 1 THEN ss[i] ELSE g[i - 1] \o ss[i]]
      BY <2>1 DEF JoinsOf
    <3>2. \A i \in 1..k : g[i] = IF i = 1 THEN ss[i] ELSE g[i - 1] \o ss[i]
      BY <3>1
    <3>3. \A i \in 1..k : h[i] = g[i]
      OBVIOUS
    <3> QED
      BY <3>2, <3>3
  <2>3. ASSUME NEW i \in 1..k + 1 PROVE h[i] = IF i = 1 THEN ss[i] ELSE h[i - 1] \o ss[i]
    <3>1. CASE i = k + 1 /\ k = 0
      BY <3>1
    <3>2. CASE i = k + 1 /\ k # 0
      <4>1. h[i] = g[k] \o ss[k + 1]
        BY <3>2
      <4>2. h[k] = g[k]
        BY <2>2, <3>2
      <4> HIDE DEF h
      <4>3. i # 1 /\ i - 1 = k
        BY <3>2
      <4> QED
        BY <3>2, <4>1, <4>2, <4>3
    <3>3. CASE i # k + 1 /\ i # 1
      <4>1. i \in 1..k /\ i - 1 \in 1..k
        BY <3>3
      <4> HIDE DEF h
      <4> QED
        BY <2>2, <3>3, <4>1
    <3>4. CASE i # k + 1 /\ i = 1
      <4>1. i \in 1..k
        BY <3>4
      <4> HIDE DEF h
      <4> QED
        BY <2>2, <3>4, <4>1
    <3> QED
      BY <3>1, <3>2, <3>3, <3>4
  <2>4. h = [i \in 1..k + 1 |-> h[i]]
    OBVIOUS
  <2> HIDE DEF h
  <2>5. JoinsOf(h, ss, k + 1)
    BY <2>3, <2>4 DEF JoinsOf
  <2> QED
    BY <2>5
<1> HIDE DEF T
<1>3. Nat \subseteq T
  BY <1>1, <1>2, UpTo
<1> QED
  BY <1>3 DEF T

\* A list of lists joined has what is on one of them.
LEMMA JoinedList ==
  ASSUME NEW S, NEW n \in Nat, NEW ss \in [1..n -> Seq(S)]
  PROVE  /\ Served!FlattenSeq(ss) \in Seq(S)
         /\ \A x : On(x, Served!FlattenSeq(ss)) <=> \E k \in 1..n : On(x, ss[k])
<1>0. ss \in Seq(Seq(S)) /\ Len(ss) = n
  OBVIOUS
<1>1. CASE n = 0
  <2>1. Served!FlattenSeq(ss) = ss /\ ss = <<>>
    BY <1>0, <1>1 DEF Served!FlattenSeq
  <2> QED
    BY <1>1, <2>1 DEF On
<1>2. CASE n # 0
  <2> DEFINE f == CHOOSE g : JoinsOf(g, ss, n)
  <2>1. JoinsOf(f, ss, n)
    BY JoinsExist
  <2>2. Served!FlattenSeq(ss) = f[n]
    BY <1>0, <1>2 DEF Served!FlattenSeq, JoinsOf
  <2> HIDE DEF f
  <2> DEFINE T == {i \in Nat : i \in 1..n => f[i] \in Seq(S) /\ \A x : On(x, f[i]) <=> \E k \in 1..i : On(x, ss[k])}
  <2>3. 0 \in T
    OBVIOUS
  <2>4. ASSUME NEW i \in Nat, i \in T PROVE i + 1 \in T
    <3> SUFFICES ASSUME i + 1 \in 1..n
                 PROVE  f[i + 1] \in Seq(S) /\ \A x : On(x, f[i + 1]) <=> \E k \in 1..i + 1 : On(x, ss[k])
      OBVIOUS
    <3>1. f[i + 1] = IF i + 1 = 1 THEN ss[i + 1] ELSE f[(i + 1) - 1] \o ss[i + 1]
      BY <2>1 DEF JoinsOf
    <3>2. CASE i = 0
      <4>1. f[i + 1] = ss[1] /\ \A k \in 1..i + 1 : k = 1
        BY <3>1, <3>2
      <4> QED
        BY <3>2, <4>1
    <3>3. CASE i # 0
      <4>1. f[i + 1] = f[i] \o ss[i + 1] /\ i \in 1..n
        <5>1. i + 1 # 1 /\ (i + 1) - 1 = i /\ i \in 1..n
          BY <3>3
        <5> QED
          BY <3>1, <5>1
      <4>2. f[i] \in Seq(S) /\ ss[i + 1] \in Seq(S)
        BY <2>4, <4>1
      <4>3. \A x : On(x, f[i]) <=> \E k \in 1..i : On(x, ss[k])
        BY <2>4, <4>1
      <4>4. \A x : On(x, f[i + 1]) <=> On(x, f[i]) \/ On(x, ss[i + 1])
        BY <4>1, <4>2, JoinedHas
      <4>5. \A k \in 1..i + 1 : k \in 1..i \/ k = i + 1
        OBVIOUS
      <4>6. f[i + 1] \in Seq(S)
        BY <4>1, <4>2
      <4>7. ASSUME NEW x PROVE On(x, f[i + 1]) <=> \E k \in 1..i + 1 : On(x, ss[k])
        <5>1. \A k \in 1..i : k \in 1..i + 1
          OBVIOUS
        <5>2. i + 1 \in 1..i + 1
          OBVIOUS
        <5> QED
          BY <4>3, <4>4, <4>5, <5>1, <5>2
      <4> QED
        BY <4>6, <4>7
    <3> QED
      BY <3>2, <3>3
  <2> HIDE DEF T
  <2>5. n \in T
    BY <2>3, <2>4, UpTo
  <2> QED
    BY <1>2, <2>2, <2>5 DEF T
<1> QED
  BY <1>1, <1>2

-----------------------------------------------------------------------------
(* Requests and the routes that answer them.                               *)

\* The route at place k is one that the hit may be for.
Fits(hit, all, k) ==
  /\ k \in DOMAIN all /\ Served!Compatible(hit.path, all[k].path) /\ Served!Accepts(hit, all[k])
  /\ \/ all[k].path = hit.path
     \/ ~ \E j \in DOMAIN all : Served!Compatible(hit.path, all[j].path) /\ all[j].path = hit.path
\* The link that a hit gives, if it gives one.
Makes(hit, all, l) ==
  \E k \in DOMAIN all : /\ \A j : Fits(hit, all, j) <=> j = k
                        /\ l = Served!LinkTo(hit, all[k]) /\ l.method # "*"

LEMMA FilteredFits ==
  ASSUME NEW hit, NEW all
  PROVE  \A k : k \in Served!Filtered(hit, all) <=> Fits(hit, all, k)
  BY DEF Served!Filtered, Served!Preferred, Fits

LEMMA CountsAlike == \A S : Served!Cardinality(S) = Cardinality(S)
  BY DEF Served!Cardinality, Cardinality

LEMMA FiniteAlike == \A S : Served!IsFiniteSet(S) <=> IsFiniteSet(S)
  BY DEF Served!IsFiniteSet, IsFiniteSet

LEMMA OneLink ==
  ASSUME NEW R, NEW all \in Seq(R), NEW hit, NEW X,
         \A r \in R : Served!LinkTo(hit, r) \in X
  PROVE  /\ Served!LinkOne(hit, all) \in Seq(X)
         /\ \A l : On(l, Served!LinkOne(hit, all)) <=> Makes(hit, all, l)
<1> DEFINE found == Served!Filtered(hit, all)
           link == Served!LinkTo(hit, all[Served!First(found)])
<1>1. \A k : k \in found <=> Fits(hit, all, k)
  BY FilteredFits
<1>2. found \subseteq 1..Len(all) /\ Len(all) \in Nat
  BY <1>1 DEF Fits
<1>3. IsFiniteSet(found)
  <2>1. IsFiniteSet(1..Len(all))
    BY <1>2, FS_Interval
  <2> HIDE DEF found
  <2> QED
    BY <1>2, <2>1, FS_Subset
<1>4. Served!NotUnique(found) <=> ~ \E k : found = {k}
  BY <1>3, FS_Singleton, CountsAlike DEF Served!NotUnique
<1>5. Served!LinkOne(hit, all) = IF Served!NotUnique(found) \/ link.method = "*" THEN <<>> ELSE <<link>>
  BY DEF Served!LinkOne
<1> HIDE DEF found
<1>6. CASE Served!NotUnique(found)
  <2>1. ASSUME NEW l, Makes(hit, all, l) PROVE FALSE
    <3>1. PICK k \in DOMAIN all : (\A j : Fits(hit, all, j) <=> j = k) /\ l = Served!LinkTo(hit, all[k]) /\ l.method # "*"
      BY <2>1 DEF Makes
    <3>2. found = {k}
      BY <1>1, <3>1
    <3> QED
      BY <1>4, <1>6, <3>2
  <2> QED
    BY <1>5, <1>6, <2>1 DEF On
<1>7. CASE ~Served!NotUnique(found)
  <2>1. PICK k : found = {k}
    BY <1>4, <1>7
  <2>2. k \in DOMAIN all /\ all[k] \in R
    BY <1>2, <2>1
  <2>3. Served!First(found) = k
    BY <1>2, <2>1 DEF Served!First
  <2>4. link = Served!LinkTo(hit, all[k]) /\ link \in X
    BY <2>2, <2>3
  <2>5. \A l : Makes(hit, all, l) <=> l = link /\ l.method # "*"
    BY <1>1, <2>1, <2>2, <2>4 DEF Makes
  <2> HIDE DEF link
  <2>6. <<link>> \in Seq(X) /\ \A l : On(l, <<link>>) <=> l = link
    BY <2>4 DEF On
  <2> QED
    BY <1>5, <1>7, <2>5, <2>6 DEF On
<1> QED
  BY <1>6, <1>7

LinkSet(H, R) == {Served!LinkTo(h, r) : h \in H, r \in R}

LEMMA AllLinks ==
  ASSUME NEW R, NEW all \in Seq(R), NEW H, NEW asked \in Seq(H)
  PROVE  /\ Served!LinksOf(all, asked) \in Seq(LinkSet(H, R))
         /\ Single(Served!LinksOf(all, asked))
         /\ \A l : On(l, Served!LinksOf(all, asked)) <=> \E i \in 1..Len(asked) : Makes(asked[i], all, l)
<1> DEFINE X == LinkSet(H, R)
           ss == [i \in DOMAIN asked |-> Served!LinkOne(asked[i], all)]
<1>1. Len(asked) \in Nat /\ DOMAIN asked = 1..Len(asked) /\ \A i \in 1..Len(asked) : asked[i] \in H
  OBVIOUS
<1>2. ASSUME NEW i \in 1..Len(asked)
      PROVE  /\ Served!LinkOne(asked[i], all) \in Seq(X)
             /\ \A l : On(l, Served!LinkOne(asked[i], all)) <=> Makes(asked[i], all, l)
  <2>1. \A r \in R : Served!LinkTo(asked[i], r) \in X
    BY <1>1 DEF LinkSet
  <2> HIDE DEF X
  <2> QED
    BY <2>1, OneLink
<1> HIDE DEF X
<1>3. ss \in [1..Len(asked) -> Seq(X)]
  BY <1>1, <1>2
<1>4. \A i \in 1..Len(asked) : ss[i] = Served!LinkOne(asked[i], all)
  BY <1>1
<1>5. Served!LinksOf(all, asked) = Served!Once(Served!FlattenSeq(ss))
  BY DEF Served!LinksOf
<1> HIDE DEF ss
<1>6. /\ Served!FlattenSeq(ss) \in Seq(X)
      /\ \A l : On(l, Served!FlattenSeq(ss)) <=> \E i \in 1..Len(asked) : On(l, ss[i])
  BY <1>1, <1>3, JoinedList
<1>7. /\ Served!LinksOf(all, asked) \in Seq(X) /\ Single(Served!LinksOf(all, asked))
      /\ \A l : On(l, Served!LinksOf(all, asked)) <=> On(l, Served!FlattenSeq(ss))
  BY <1>5, <1>6, OnceList
<1>8. \A l : \A i \in 1..Len(asked) : On(l, ss[i]) <=> Makes(asked[i], all, l)
  BY <1>2, <1>4
<1>9. \A l : On(l, Served!LinksOf(all, asked)) <=> \E i \in 1..Len(asked) : Makes(asked[i], all, l)
  BY <1>6, <1>7, <1>8
<1> QED
  BY <1>7, <1>9 DEF X

\* Backwards, a list has the same routes, and the same one of them is the only one.
LEMMA Turned ==
  ASSUME NEW R, NEW s \in Seq(R)
  PROVE  /\ Served!Reverse(s) \in Seq(R) /\ Len(Served!Reverse(s)) = Len(s) /\ Len(s) \in Nat
         /\ \A k \in 1..Len(s) : Len(s) - k + 1 \in 1..Len(s) /\ Served!Reverse(s)[k] = s[Len(s) - k + 1]
                                 /\ Len(s) - (Len(s) - k + 1) + 1 = k
<1>1. Served!Reverse(s) = [i \in 1..Len(s) |-> s[(Len(s) - i) + 1]]
  BY DEF Served!Reverse
<1> QED
  BY <1>1

LEMMA TurnedTwice ==
  ASSUME NEW R, NEW s \in Seq(R)
  PROVE  Served!Reverse(Served!Reverse(s)) = s
<1> DEFINE t == Served!Reverse(s)
           n == Len(s)
<1>1. /\ t \in Seq(R) /\ Len(t) = n /\ n \in Nat
      /\ \A k \in 1..n : n - k + 1 \in 1..n /\ t[k] = s[n - k + 1] /\ n - (n - k + 1) + 1 = k
  BY Turned
<1> HIDE DEF t
<1>2. Served!Reverse(t) = [i \in 1..n |-> t[(n - i) + 1]]
  BY <1>1 DEF Served!Reverse
<1>3. \A i \in 1..n : t[(n - i) + 1] = s[i]
  BY <1>1
<1>4. s = [i \in 1..n |-> s[i]]
  BY <1>1
<1> QED
  BY <1>2, <1>3, <1>4 DEF t

LEMMA FitsTurned ==
  ASSUME NEW R, NEW all \in Seq(R), NEW hit, NEW k \in 1..Len(all)
  PROVE  Fits(hit, Served!Reverse(all), k) <=> Fits(hit, all, Len(all) - k + 1)
<1> DEFINE back == Served!Reverse(all)
           n == Len(all)
<1>1. /\ back \in Seq(R) /\ Len(back) = n /\ n \in Nat
      /\ \A i \in 1..n : n - i + 1 \in 1..n /\ back[i] = all[n - i + 1] /\ n - (n - i + 1) + 1 = i
  BY Turned
<1>2. DOMAIN back = 1..n /\ DOMAIN all = 1..n
  BY <1>1
<1> HIDE DEF back
<1>3. (\E j \in 1..n : Served!Compatible(hit.path, back[j].path) /\ back[j].path = hit.path)
        <=> (\E j \in 1..n : Served!Compatible(hit.path, all[j].path) /\ all[j].path = hit.path)
  <2>1. ASSUME NEW j \in 1..n, Served!Compatible(hit.path, back[j].path) /\ back[j].path = hit.path
        PROVE  \E i \in 1..n : Served!Compatible(hit.path, all[i].path) /\ all[i].path = hit.path
    BY <1>1, <2>1
  <2>2. ASSUME NEW j \in 1..n, Served!Compatible(hit.path, all[j].path) /\ all[j].path = hit.path
        PROVE  \E i \in 1..n : Served!Compatible(hit.path, back[i].path) /\ back[i].path = hit.path
    <3>1. n - j + 1 \in 1..n /\ back[n - j + 1] = all[j]
      BY <1>1
    <3> QED
      BY <2>2, <3>1
  <2> QED
    BY <2>1, <2>2
<1>4. k \in 1..n /\ n - k + 1 \in 1..n /\ back[k] = all[n - k + 1]
  BY <1>1
<1> HIDE DEF n
<1>5. Fits(hit, back, k) <=> Fits(hit, all, n - k + 1)
  BY <1>2, <1>3, <1>4 DEF Fits
<1> QED
  BY <1>5 DEF back, n

LEMMA MakesTurned ==
  ASSUME NEW R, NEW all \in Seq(R), NEW hit, NEW l, Makes(hit, all, l)
  PROVE  Makes(hit, Served!Reverse(all), l)
<1> DEFINE back == Served!Reverse(all)
           n == Len(all)
<1>1. /\ back \in Seq(R) /\ Len(back) = n /\ n \in Nat
      /\ \A i \in 1..n : n - i + 1 \in 1..n /\ back[i] = all[n - i + 1] /\ n - (n - i + 1) + 1 = i
  BY Turned
<1>2. DOMAIN back = 1..n /\ DOMAIN all = 1..n
  BY <1>1
<1>3. \A i \in 1..n : Fits(hit, back, i) <=> Fits(hit, all, n - i + 1)
  BY FitsTurned
<1> HIDE DEF back
<1>4. PICK k \in 1..n : (\A j : Fits(hit, all, j) <=> j = k) /\ l = Served!LinkTo(hit, all[k]) /\ l.method # "*"
  BY <1>2 DEF Makes
<1> DEFINE m == n - k + 1
<1>5. m \in 1..n /\ n - m + 1 = k
  BY <1>1
<1>6. back[m] = all[k]
  BY <1>1, <1>5
<1>7. \A j : Fits(hit, back, j) => j \in 1..n
  BY <1>2 DEF Fits
<1>8. \A j \in 1..n : n - j + 1 = k <=> j = m
  BY <1>1, <1>5
<1> HIDE DEF m
<1>9. \A j : Fits(hit, back, j) <=> j = m
  BY <1>3, <1>4, <1>5, <1>7, <1>8
<1> HIDE DEF n
<1>10. Makes(hit, back, l)
  BY <1>2, <1>4, <1>5, <1>6, <1>9 DEF Makes
<1> QED
  BY <1>10 DEF back

Heard == {"*"} \cup {IF Served!Option(k) = "" THEN Served!Worded(calls[k]) ELSE Served!Option(k) : k \in DOMAIN calls}
Offered == UNION {Served!Methods(declared[k]) : k \in DOMAIN declared}
RouteSet == {Served!Route(declared[k], m) : k \in DOMAIN declared, m \in Offered}
HitSet == {Served!Hit(m, calls[k].path) : k \in DOMAIN calls, m \in Heard}

RoutesInv ==
  /\ scan \in {"discover", "extract", "link", "done"}
  /\ \E n \in Nat : declared \in [1..n -> Declarations]
  /\ \E n \in Nat : calls \in [1..n -> Calls]
  /\ routes \in Seq(RouteSet) /\ hits \in Seq(HitSet)
  /\ links = IF scan = "done" THEN Served!LinksOf(routes, hits) ELSE <<>>

LEMMA MethodsFinite ==
  ASSUME Served!RoutesAssumption, NEW d \in Declarations
  PROVE  IsFiniteSet(Served!Methods(d))
<1>1. IsFiniteSet(d.methods)
  BY FiniteAlike DEF Served!RoutesAssumption
<1>2. IsFiniteSet({"*"})
  BY FS_Singleton
<1>3. Served!Methods(d) = d.methods \/ Served!Methods(d) = {"*"}
  BY DEF Served!Methods, Served!SpringMethods, Served!GoMethods, Served!Exported, Served!Called
<1> QED
  BY <1>1, <1>2, <1>3

\* What a finite set is listed as.
LEMMA ListedSet ==
  ASSUME NEW S, IsFiniteSet(S)
  PROVE  Served!SetToSeq(S) \in Seq(S)
<1>1. Cardinality(S) \in Nat /\ ExistsBijection(1..Cardinality(S), S)
  BY FS_CardinalityType
<1>2. PICK f \in [1..Cardinality(S) -> S] : \A a, b \in 1..Cardinality(S) : f[a] = f[b] => a = b
  BY <1>1 DEF ExistsBijection, Bijection, Injection, IsInjective
<1>3. Served!IsInjective(f)
  BY <1>2 DEF Served!IsInjective
<1>4. Served!SetToSeq(S) \in [1..Cardinality(S) -> S]
  BY <1>2, <1>3, CountsAlike DEF Served!SetToSeq
<1> QED
  BY <1>1, <1>4

LEMMA ImageFinite ==
  ASSUME NEW M, IsFiniteSet(M), NEW d
  PROVE  IsFiniteSet({Served!Route(d, m) : m \in M})
<1> DEFINE f == [m \in M |-> Served!Route(d, m)]
           S == {Served!Route(d, m) : m \in M}
<1>1. f \in Surjection(M, S)
  BY DEF Surjection
<1> HIDE DEF f, S
<1>2. IsFiniteSet(S)
  BY <1>1, FS_Surjection
<1> QED
  BY <1>2 DEF S

LEMMA RoutesFound ==
  ASSUME Served!RoutesAssumption, RoutesInv, NEW f
  PROVE  Served!RoutesOf(f) \in Seq(RouteSet)
<1>1. PICK n \in Nat : declared \in [1..n -> Declarations]
  BY DEF RoutesInv
<1> DEFINE ss == [k \in DOMAIN declared |->
                    IF declared[k].framework # f THEN <<>>
                    ELSE Served!SetToSeq({Served!Route(declared[k], m) : m \in Served!Methods(declared[k])})]
<1>2. ASSUME NEW k \in 1..n
      PROVE  Served!SetToSeq({Served!Route(declared[k], m) : m \in Served!Methods(declared[k])}) \in Seq(RouteSet)
  <2> DEFINE S == {Served!Route(declared[k], m) : m \in Served!Methods(declared[k])}
  <2>1. declared[k] \in Declarations /\ k \in DOMAIN declared
    BY <1>1
  <2>2. IsFiniteSet(Served!Methods(declared[k]))
    BY <2>1, MethodsFinite
  <2>3. IsFiniteSet(S)
    BY <2>2, ImageFinite
  <2>4. S \subseteq RouteSet
    BY <2>1 DEF RouteSet, Offered
  <2> HIDE DEF S
  <2>5. Served!SetToSeq(S) \in Seq(S)
    BY <2>3, ListedSet
  <2>6. Served!SetToSeq(S) \in Seq(RouteSet)
    BY <2>4, <2>5
  <2> QED
    BY <2>6 DEF S
<1>3. ss \in [1..n -> Seq(RouteSet)]
  <2>1. DOMAIN declared = 1..n /\ <<>> \in Seq(RouteSet)
    BY <1>1
  <2> QED
    BY <1>2, <2>1
<1>4. Served!RoutesOf(f) = Served!FlattenSeq(ss)
  BY DEF Served!RoutesOf
<1> HIDE DEF ss
<1> QED
  BY <1>3, <1>4, JoinedList

LEMMA DiscoverTyped ==
  ASSUME Served!RoutesAssumption, RoutesInv, Served!Discover
  PROVE  routes' \in Seq(RouteSet)
<1> DEFINE ss == [k \in DOMAIN Served!Frameworks |->
                    IF Served!Detected(Served!Frameworks[k]) THEN Served!RoutesOf(Served!Frameworks[k]) ELSE <<>>]
<1>1. DOMAIN Served!Frameworks = 1..5
  BY DEF Served!Frameworks
<1>2. \A k \in 1..5 : Served!RoutesOf(Served!Frameworks[k]) \in Seq(RouteSet)
  BY RoutesFound
<1>3. ss \in [1..5 -> Seq(RouteSet)]
  <2>1. <<>> \in Seq(RouteSet)
    OBVIOUS
  <2> QED
    BY <1>1, <1>2, <2>1
<1>4. routes' = Served!FlattenSeq(ss)
  BY DEF Served!Discover
<1> HIDE DEF ss
<1> QED
  BY <1>3, <1>4, JoinedList

LEMMA ExtractTyped ==
  ASSUME RoutesInv, Served!Extract
  PROVE  hits' \in Seq(HitSet)
<1>1. PICK n \in Nat : calls \in [1..n -> Calls]
  BY DEF RoutesInv
<1>2. DOMAIN calls = 1..n /\ <<>> \in Seq(HitSet)
  BY <1>1
<1> DEFINE rr == [k \in DOMAIN calls |->
                    IF calls[k].callee = "none" THEN <<>>
                    ELSE <<Served!Hit(IF Served!Option(k) = "" THEN Served!Worded(calls[k]) ELSE Served!Option(k), calls[k].path)>>]
           tt == [k \in DOMAIN calls |->
                    IF calls[k].plain /\ Head(calls[k].path) \in {"api", "v1"} THEN <<Served!Hit("*", calls[k].path)>> ELSE <<>>]
<1>3. rr \in [1..n -> Seq(HitSet)]
  <2>1. ASSUME NEW k \in 1..n PROVE rr[k] \in Seq(HitSet)
    <3> DEFINE m == IF Served!Option(k) = "" THEN Served!Worded(calls[k]) ELSE Served!Option(k)
    <3>1. m \in Heard /\ k \in DOMAIN calls
      BY <1>2 DEF Heard
    <3>2. rr[k] = IF calls[k].callee = "none" THEN <<>> ELSE <<Served!Hit(m, calls[k].path)>>
      BY <1>2
    <3> HIDE DEF m, rr
    <3>3. Served!Hit(m, calls[k].path) \in HitSet
      BY <3>1 DEF HitSet
    <3>4. <<Served!Hit(m, calls[k].path)>> \in Seq(HitSet)
      BY <3>3
    <3> QED
      BY <1>2, <3>2, <3>4
  <2>2. DOMAIN rr = 1..n /\ rr = [k \in 1..n |-> rr[k]]
    BY <1>2
  <2> HIDE DEF rr
  <2> QED
    BY <2>1, <2>2
<1>4. tt \in [1..n -> Seq(HitSet)]
  <2>1. ASSUME NEW k \in 1..n PROVE Served!Hit("*", calls[k].path) \in HitSet
    <3>1. "*" \in Heard /\ k \in DOMAIN calls
      BY <1>2 DEF Heard
    <3> QED
      BY <3>1 DEF HitSet
  <2>2. ASSUME NEW k \in 1..n PROVE <<Served!Hit("*", calls[k].path)>> \in Seq(HitSet)
    BY <2>1
  <2> QED
    BY <1>2, <2>2
<1>5. hits' = Served!Once(Served!FlattenSeq(rr) \o Served!FlattenSeq(tt))
  BY DEF Served!Extract, Served!Requests, Served!Strings
<1> HIDE DEF rr, tt
<1>6. Served!FlattenSeq(rr) \in Seq(HitSet) /\ Served!FlattenSeq(tt) \in Seq(HitSet)
  BY <1>3, <1>4, JoinedList
<1>7. Served!FlattenSeq(rr) \o Served!FlattenSeq(tt) \in Seq(HitSet)
  BY <1>6
<1> QED
  BY <1>5, <1>7, OnceList

LEMMA RoutesGive ==
  ASSUME RoutesInv
  PROVE  Served!TypeOK /\ Served!OneServer /\ Served!OrderFree
<1> DEFINE out == Served!LinksOf(routes, hits)
<1>1. routes \in Seq(RouteSet) /\ hits \in Seq(HitSet)
  BY DEF RoutesInv
<1>2. /\ out \in Seq(LinkSet(HitSet, RouteSet)) /\ Single(out)
      /\ \A l : On(l, out) <=> \E i \in 1..Len(hits) : Makes(hits[i], routes, l)
  BY <1>1, AllLinks
<1> HIDE DEF out
<1>3. DOMAIN out = 1..Len(out) /\ Len(out) \in Nat
  BY <1>2
<1>4. ASSUME NEW n \in DOMAIN out
      PROVE  \E i \in 1..Len(hits) : Makes(hits[i], routes, out[n])
  BY <1>2, <1>3 DEF On
<1>5. CASE scan # "done"
  <2>1. links = <<>> /\ DOMAIN links = {}
    BY <1>5 DEF RoutesInv
  <2> QED
    BY <1>5, <2>1 DEF RoutesInv, Served!TypeOK, Served!OneServer, Served!OrderFree
<1>6. CASE scan = "done"
  <2>1. links = out
    BY <1>6 DEF RoutesInv, out
  <2>2. ASSUME NEW n \in DOMAIN out
        PROVE  /\ out[n].method # "*" /\ out[n].server \in Served!Files
               /\ \E k \in DOMAIN routes : Served!Answering(out[n]) = {k} /\ routes[k].file = out[n].server
    <3>1. PICK i \in 1..Len(hits) : Makes(hits[i], routes, out[n])
      BY <1>4, <2>2
    <3> DEFINE h == hits[i]
               l == out[n]
    <3>2. PICK k \in DOMAIN routes : /\ \A j : Fits(h, routes, j) <=> j = k
                                     /\ l = Served!LinkTo(h, routes[k]) /\ l.method # "*"
      BY <3>1 DEF Makes
    <3>3. routes[k] \in RouteSet
      BY <1>1
    <3>4. routes[k].file \in Served!Files
      BY <3>3 DEF RouteSet, Served!Route, Served!Files
    <3> HIDE DEF h, l
    <3>5. l.server = routes[k].file /\ l.path = h.path
          /\ l.method = IF routes[k].method # "*" THEN routes[k].method ELSE h.method
      BY <3>2 DEF Served!LinkTo
    <3>6. \A j : j \in Served!Answering(l) <=> Fits(h, routes, j)
      <4>1. Fits(h, routes, k)
        BY <3>2
      <4>2. \A j \in DOMAIN routes : Served!Compatible(l.path, routes[j].path) <=> Served!Compatible(h.path, routes[j].path)
        BY <3>5
      <4>3. (\A j \in DOMAIN routes : routes[j].path # l.path) <=>
            ~ \E j \in DOMAIN routes : Served!Compatible(h.path, routes[j].path) /\ routes[j].path = h.path
        BY <3>5 DEF Served!Compatible
      <4>4. \A j \in DOMAIN routes : Fits(h, routes, j) => routes[j].method \in {l.method, "*"}
        BY <3>2, <3>5
      <4>5. \A j \in DOMAIN routes : routes[j].method \in {l.method, "*"} => Served!Accepts(h, routes[j])
        BY <3>2, <3>5, <4>1 DEF Fits, Served!Accepts
      <4> QED
        BY <3>5, <4>2, <4>3, <4>4, <4>5 DEF Served!Answering, Fits
    <3>7. Served!Answering(l) = {k}
      BY <3>2, <3>6
    <3> QED
      BY <3>2, <3>4, <3>5, <3>7 DEF l
  <2>3. \A j, k \in DOMAIN out : out[j] = out[k] => j = k
    BY <1>2, <1>3 DEF Single
  <2>4. Served!TypeOK /\ Served!OneServer
    BY <1>6, <2>1, <2>2, <2>3 DEF Served!TypeOK, Served!OneServer
  <2>5. Served!OrderFree
    <3> DEFINE back == Served!Reverse(routes)
               turned == Served!Reverse(hits)
               again == Served!LinksOf(back, turned)
    <3>1. /\ back \in Seq(RouteSet) /\ turned \in Seq(HitSet) /\ Len(turned) = Len(hits)
          /\ \A i \in 1..Len(hits) : Len(hits) - i + 1 \in 1..Len(hits) /\ turned[i] = hits[Len(hits) - i + 1]
                                     /\ Len(hits) - (Len(hits) - i + 1) + 1 = i
      BY <1>1, Turned
    <3>2. /\ again \in Seq(LinkSet(HitSet, RouteSet))
          /\ \A l : On(l, again) <=> \E i \in 1..Len(turned) : Makes(turned[i], back, l)
      BY <3>1, AllLinks
    <3>3. \A hit, l : Makes(hit, routes, l) => Makes(hit, back, l)
      BY <1>1, MakesTurned
    <3>4. \A hit, l : Makes(hit, back, l) => Makes(hit, Served!Reverse(back), l)
      BY <3>1, MakesTurned
    <3>5. Served!Reverse(back) = routes
      BY <1>1, TurnedTwice
    <3> HIDE DEF back, turned, again
    <3>6. \A l : On(l, again) <=> On(l, out)
      <4>1. ASSUME NEW l, On(l, again) PROVE On(l, out)
        <5>1. PICK i \in 1..Len(hits) : Makes(turned[i], back, l)
          BY <3>1, <3>2, <4>1
        <5>2. Makes(hits[Len(hits) - i + 1], routes, l) /\ Len(hits) - i + 1 \in 1..Len(hits)
          BY <3>1, <3>4, <3>5, <5>1
        <5> QED
          BY <1>2, <5>2
      <4>2. ASSUME NEW l, On(l, out) PROVE On(l, again)
        <5>1. PICK i \in 1..Len(hits) : Makes(hits[i], routes, l)
          BY <1>2, <4>2
        <5>2. Makes(turned[Len(hits) - i + 1], back, l) /\ Len(hits) - i + 1 \in 1..Len(turned)
          BY <3>1, <3>3, <5>1
        <5> QED
          BY <3>2, <5>2
      <4> QED
        BY <4>1, <4>2
    <3>7. DOMAIN again = 1..Len(again)
      BY <3>2
    <3>8. \A l : l \in Served!ToSet(out) <=> On(l, out)
      BY <1>3 DEF Served!ToSet, On
    <3>9. \A l : l \in Served!ToSet(again) <=> On(l, again)
      BY <3>7 DEF Served!ToSet, On
    <3>10. Served!ToSet(out) = Served!ToSet(again)
      BY <3>6, <3>8, <3>9
    <3> QED
      BY <2>1, <3>10 DEF Served!OrderFree, again, back, turned
  <2> QED
    BY <2>4, <2>5
<1> QED
  BY <1>5, <1>6

\* protocol_links.py and adapters/builtin.py: for any handlers a repository declares and any requests of a
\* client, a link is to the one route that answers it, and the order of routes and requests decides nothing.
THEOREM RoutesAreLinked ==
  ASSUME Served!RoutesAssumption
  PROVE  Served!Spec => [](Served!TypeOK /\ Served!OneServer /\ Served!OrderFree)
<1>1. Served!Init => RoutesInv
  <2> SUFFICES ASSUME Served!Init PROVE RoutesInv
    OBVIOUS
  <2>1. \E n \in Nat : declared \in [1..n -> Declarations]
    BY DEF Served!Init, Served!RoutesAssumption
  <2>2. \E n \in Nat : calls \in [1..n -> Calls]
    BY DEF Served!Init, Served!RoutesAssumption
  <2>3. routes = <<>> /\ hits = <<>> /\ links = <<>> /\ scan = "discover"
    BY DEF Served!Init
  <2> QED
    BY <2>1, <2>2, <2>3 DEF RoutesInv
<1>2. RoutesInv /\ [Served!Next]_Served!vars => RoutesInv'
  <2> SUFFICES ASSUME RoutesInv, [Served!Next]_Served!vars PROVE RoutesInv'
    OBVIOUS
  <2>1. UNCHANGED <<declared, calls>>
    BY DEF Served!Next, Served!Discover, Served!Extract, Served!Link, Served!vars
  <2>2. RouteSet' = RouteSet /\ HitSet' = HitSet
    BY <2>1 DEF RouteSet, HitSet, Heard, Offered, Served!Option
  <2>3. CASE Served!Discover
    BY <2>1, <2>2, <2>3, DiscoverTyped DEF RoutesInv, Served!Discover
  <2>4. CASE Served!Extract
    BY <2>1, <2>2, <2>4, ExtractTyped DEF RoutesInv, Served!Extract
  <2>5. CASE Served!Link
    BY <2>1, <2>2, <2>5 DEF RoutesInv, Served!Link
  <2>6. CASE UNCHANGED Served!vars
    BY <2>1, <2>2, <2>6 DEF RoutesInv, Served!vars
  <2> QED
    BY <2>3, <2>4, <2>5, <2>6 DEF Served!Next
<1> QED
  BY <1>1, <1>2, RoutesGive, PTL DEF Served!Spec

-----------------------------------------------------------------------------
(* Each part runs by its own specification, whatever runs beside it.   *)

LEMMA CacheRuns == ReuseSpec => (part = "cache" => Cached!Spec /\ [](part = "cache"))
<1>1. ReuseInit => (part = "cache" => Cached!Init)
  BY DEF ReuseInit
<1>2. part = "cache" /\ [ReuseNext]_reuseVars => (part = "cache")' /\ [Cached!Next]_Cached!vars
  BY DEF ReuseNext, reuseVars, cachedVars, Cached!vars
<1> QED BY <1>1, <1>2, PTL DEF ReuseSpec, Cached!Spec

LEMMA VectorsRun == ReuseSpec => (part = "vectors" => Embedded!Spec /\ [](part = "vectors"))
<1>1. ReuseInit => (part = "vectors" => Embedded!Init)
  BY DEF ReuseInit
<1>2. part = "vectors" /\ [ReuseNext]_reuseVars => (part = "vectors")' /\ [Embedded!Next]_Embedded!vars
  BY DEF ReuseNext, reuseVars, embeddedVars, Embedded!vars, Embedded!build
<1> QED BY <1>1, <1>2, PTL DEF ReuseSpec, Embedded!Spec

LEMMA FilesRun == ReuseSpec => (part = "files" => Taken!Spec /\ [](part = "files"))
<1>1. ReuseInit => (part = "files" => Taken!Init)
  BY DEF ReuseInit
<1>2. part = "files" /\ [ReuseNext]_reuseVars => (part = "files")' /\ [Taken!Next]_Taken!vars
  BY DEF ReuseNext, reuseVars, takenVars, Taken!vars
<1> QED
  BY <1>1, <1>2, PTL DEF ReuseSpec, Taken!Spec

LEMMA NamesRun == ReuseSpec => (part = "names" => Stored!Spec /\ [](part = "names"))
<1>1. ReuseInit => (part = "names" => Stored!Init)
  BY DEF ReuseInit
<1>2. part = "names" /\ [ReuseNext]_reuseVars => (part = "names")' /\ [Stored!Next]_Stored!vars
  BY DEF ReuseNext, reuseVars, storedVars, Stored!vars
<1> QED
  BY <1>1, <1>2, PTL DEF ReuseSpec, Stored!Spec

LEMMA RoutesRun == ReuseSpec => (part = "routes" => Served!Spec /\ [](part = "routes"))
<1>1. ReuseInit => (part = "routes" => Served!Init)
  BY DEF ReuseInit
<1>2. part = "routes" /\ [ReuseNext]_reuseVars => (part = "routes")' /\ [Served!Next]_Served!vars
  BY DEF ReuseNext, reuseVars, servedVars, Served!vars
<1> QED
  BY <1>1, <1>2, PTL DEF ReuseSpec, Served!Spec

\* What is used again is one's own, for every set of builders that share the parse cache, and for
\* every set of builds and questions that share vectors (assemble.py, checkpoint.py, pipeline.py,
\* embedding_reuse.py, vector_store.py).
THEOREM ProductsAreOwn == ReuseSpec => []OwnProducts
<1>1. Cached!Spec => [](Cached!TypeOK /\ Cached!OwnProducts /\ Cached!CacheIsSound)
  BY ReuseAssumption, CacheIsOwn
<1>2. Embedded!Spec =>
        [](Embedded!TypeOK /\ Embedded!ReadyHasPoint /\ Embedded!FinishedIsWhole /\ Embedded!EmbeddedFirst)
  BY ReuseAssumption, VectorsAreThere
<1>3. part = "cache" /\ Cached!TypeOK /\ Cached!OwnProducts /\ Cached!CacheIsSound => OwnProducts
  BY DEF OwnProducts
<1>4. part = "vectors" /\ Embedded!TypeOK /\ Embedded!ReadyHasPoint /\ Embedded!FinishedIsWhole
        /\ Embedded!EmbeddedFirst => OwnProducts
  BY DEF OwnProducts
<1>5. ~(part = "cache") /\ ~(part = "vectors") => OwnProducts
  BY DEF OwnProducts
<1>6. ~(part = "cache") /\ [ReuseNext]_reuseVars => (~(part = "cache"))'
  BY DEF ReuseNext, reuseVars
<1>7. ~(part = "vectors") /\ [ReuseNext]_reuseVars => (~(part = "vectors"))'
  BY DEF ReuseNext, reuseVars
<1> QED BY <1>1, <1>2, <1>3, <1>4, <1>5, <1>6, <1>7, CacheRuns, VectorsRun, PTL DEF ReuseSpec

\* Work tree, validation, draft and catalogue take one set of files, no commit is refused, and a file is
\* parsed as the catalogue lists it, for any commit (inclusion.py, materialize.py, assemble.py).
THEOREM FilesAgreeAlways == ReuseSpec => []FilesAgree
<1>1. Taken!Spec => [](Taken!TypeOK /\ Taken!NeverRefused /\ Taken!OnlySource /\ Taken!OneLanguage)
  BY ReuseAssumption, FilesAreDecided
<1>2. part = "files" /\ Taken!TypeOK /\ Taken!NeverRefused /\ Taken!OnlySource /\ Taken!OneLanguage => FilesAgree
  BY DEF FilesAgree
<1>3. ~(part = "files") => FilesAgree
  BY DEF FilesAgree
<1>4. ~(part = "files") /\ [ReuseNext]_reuseVars => (~(part = "files"))'
  BY DEF ReuseNext, reuseVars
<1> QED
  BY <1>1, <1>2, <1>3, <1>4, FilesRun, PTL DEF ReuseSpec

\* Every accepted spelling of a repository is stored under one URL, plain HTTP stays on this machine, and
\* a stored prefix shows its symbol, for any hosts, paths and symbols (identity.py, assemble.py).
THEOREM RepositoriesAreOne == ReuseSpec => []OneRepository
<1>1. Stored!Spec => [](/\ Stored!TypeOK /\ Stored!OneRepository /\ Stored!HttpIsLocal
                        /\ Stored!ShownIsStored /\ Stored!FingerprintPinsCollection)
  BY ReuseAssumption, NamesAreOne
<1>2. part = "names" /\ Stored!TypeOK /\ Stored!OneRepository /\ Stored!HttpIsLocal
        /\ Stored!ShownIsStored /\ Stored!FingerprintPinsCollection => OneRepository
  BY DEF OneRepository
<1>3. ~(part = "names") => OneRepository
  BY DEF OneRepository
<1>4. ~(part = "names") /\ [ReuseNext]_reuseVars => (~(part = "names"))'
  BY DEF ReuseNext, reuseVars
<1> QED
  BY <1>1, <1>2, <1>3, <1>4, NamesRun, PTL DEF ReuseSpec

\* A request is linked to a handler only when exactly one route answers it, and the order of adapters, files and
\* requests decides nothing, for any handlers, manifests and requests (protocol_links.py, adapters/builtin.py).
THEOREM LinksAreCertain == ReuseSpec => []OneServer
<1>1. Served!Spec => [](Served!TypeOK /\ Served!OneServer /\ Served!OrderFree)
  BY ReuseAssumption, RoutesAreLinked
<1>2. part = "routes" /\ Served!TypeOK /\ Served!OneServer /\ Served!OrderFree => OneServer
  BY DEF OneServer
<1>3. ~(part = "routes") => OneServer
  BY DEF OneServer
<1>4. ~(part = "routes") /\ [ReuseNext]_reuseVars => (~(part = "routes"))'
  BY DEF ReuseNext, reuseVars
<1> QED
  BY <1>1, <1>2, <1>3, <1>4, RoutesRun, PTL DEF ReuseSpec
==============================================================================
