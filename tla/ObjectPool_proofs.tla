--------------------------- MODULE ObjectPool_proofs ---------------------------
(***************************************************************************)
(* Proofs about ObjectPool, for any number of pools, segments, owners and  *)
(* mishaps.                                                                *)
(*                                                                         *)
(* The free queue of a pool is a ring of distinct blocks of the pool that  *)
(* are not in use.  A corrupt link can only be the last one: what was      *)
(* behind it is no longer on the queue.  Every operation is shown to turn  *)
(* such a ring into another one.                                           *)
(***************************************************************************)
EXTENDS ObjectPool, FiniteSetTheorems, WellFoundedInduction, TLAPS

-----------------------------------------------------------------------------
(* Induction.  The order of the natural numbers is that of the intervals    *)
(* below them, and no set of finite sets is without a smallest one.         *)

\* A set of natural numbers has a least element.
LEMMA LeastElement ==
  ASSUME NEW T \in SUBSET Nat, T # {}
  PROVE  \E n \in T : \A m \in T : n <= m
<1> DEFINE R == StrictSubsetOrdering(Nat)
           S == FiniteSubsetsOf(Nat)
           below == {0 .. n - 1 : n \in T}
<1>1. \A n \in T : 0 .. n - 1 \in SUBSET Nat /\ IsFiniteSet(0 .. n - 1)
  <2> TAKE n \in T
  <2>1. n \in Nat /\ n - 1 \in Int
    OBVIOUS
  <2> QED BY <2>1, FS_Interval
<1>2. IsWellFoundedOn(R, S) /\ below \subseteq S /\ below # {}
  BY <1>1, FS_StrictSubsetOrderingWellFounded DEF FiniteSubsetsOf
<1> HIDE DEF R, S
<1>3. PICK x \in below : \A y \in below : ~(<<y, x>> \in R)
  BY <1>2, WFMin
<1>4. PICK n \in T : x = 0 .. n - 1
  BY <1>3
<1>5. ASSUME NEW m \in T, m < n PROVE FALSE
  <2>1. 0 .. m - 1 \subseteq 0 .. n - 1
    BY <1>5
  <2>2. m \in 0 .. n - 1 /\ m \notin 0 .. m - 1
    BY <1>5
  <2>3. <<0 .. m - 1, x>> \in R
    BY <1>1, <1>4, <2>1, <2>2 DEF R, StrictSubsetOrdering, FiniteSubsetsOf
  <2> QED BY <1>3, <2>3
<1>6. \A m \in T : n <= m
  BY <1>5
<1> QED BY <1>4, <1>6

\* Induction over the natural numbers.
LEMMA Induction ==
  ASSUME NEW S, 0 \in S, \A n \in Nat : n \in S => n + 1 \in S
  PROVE  Nat \subseteq S
<1> SUFFICES ASSUME Nat \ S # {} PROVE FALSE
  OBVIOUS
<1>1. PICK n \in Nat \ S : \A m \in Nat \ S : n <= m
  BY LeastElement
<1>2. n # 0 /\ n - 1 \in Nat /\ n - 1 \in S
  BY <1>1
<1> QED BY <1>1, <1>2

\* Functions of an index and of the value before it, and the values they lead to.
Steps(D) == [Nat \X D -> D]

Iterates(D, a, F, n, v) ==
  /\ v \in [0 .. n -> D]
  /\ v[0] = a
  /\ \A k \in 1 .. n : v[k] = F[<<k, v[k - 1]>>]

\* Such a function and a first value define a sequence of values.
LEMMA Recursion ==
  ASSUME NEW D, NEW a \in D, NEW F \in Steps(D), NEW n \in Nat
  PROVE  \E v : Iterates(D, a, F, n, v)
<1> DEFINE Is(v, j) == /\ v \in [0 .. j -> D]
                       /\ \A k \in 0 .. j : v[k] = IF k = 0 THEN a ELSE F[<<k, v[k - 1]>>]
           S == {j \in Nat : \E v : Is(v, j)}
<1> USE DEF Steps
<1>1. 0 \in S
  <2>1. Is([k \in 0 .. 0 |-> a], 0)
    OBVIOUS
  <2> QED BY <2>1
<1>2. ASSUME NEW j \in Nat, j \in S PROVE j + 1 \in S
  <2>1. PICK v : Is(v, j)
    BY <1>2
  <2> DEFINE w == [k \in 0 .. j + 1 |-> IF k <= j THEN v[k] ELSE F[<<j + 1, v[j]>>]]
  <2>2. \A k \in 0 .. j : w[k] = v[k]
    OBVIOUS
  <2>3. w[j + 1] = F[<<j + 1, v[j]>>] /\ v[j] \in D /\ w[0] = a
    <3>1. j \in 0 .. j /\ 0 \in 0 .. j
      OBVIOUS
    <3>2. v[0] = a /\ v[j] \in D
      BY <2>1, <3>1
    <3>3. w[0] = a
      BY <2>2, <3>1, <3>2
    <3> QED BY <3>2, <3>3
  <2>4. w \in [0 .. j + 1 -> D]
    BY <2>1, <2>3
  <2> HIDE DEF w
  <2>5. \A k \in 0 .. j + 1 : w[k] = IF k = 0 THEN a ELSE F[<<k, w[k - 1]>>]
    <3> TAKE k \in 0 .. j + 1
    <3>1. CASE k = 0
      BY <2>3, <3>1
    <3>2. CASE k \in 1 .. j
      <4>1. w[k] = v[k] /\ w[k - 1] = v[k - 1] /\ v[k] = F[<<k, v[k - 1]>>]
        BY <2>1, <2>2, <3>2
      <4> QED BY <3>2, <4>1
    <3>3. CASE k = j + 1
      <4>1. w[k] = F[<<k, v[j]>>] /\ w[k - 1] = v[j]
        BY <2>2, <2>3, <3>3
      <4> QED BY <3>3, <4>1
    <3> QED BY <3>1, <3>2, <3>3
  <2>6. Is(w, j + 1) /\ j + 1 \in Nat
    BY <2>4, <2>5
  <2> HIDE DEF Is
  <2> QED BY <2>6
<1>3. n \in S
  BY <1>1, <1>2, Induction
<1>4. PICK v : Is(v, n)
  BY <1>3
<1>5. 0 \in 0 .. n /\ \A k \in 1 .. n : k \in 0 .. n /\ k # 0
  OBVIOUS
<1> QED BY <1>4, <1>5 DEF Iterates

-----------------------------------------------------------------------------
(* Memories.                                                               *)

Links == Block \cup {Nil, Bad}

PoolRecord ==
  [segs : 0 .. MaxSegments, tail : Links, avail : Int, delta : Int, badHead : BOOLEAN]

BlockRecord ==
  [link : Links, assigned : BOOLEAN, orphaned : 0 .. 255, corrupt : BOOLEAN,
   holder : Owners \cup {None}, moved : BOOLEAN, age : Nat]

Mem == [pool : [Pools -> PoolRecord], block : [Block -> BlockRecord]]

\* The blocks of a pool are numbered from 1 on.
LEMMA BlocksAre ==
  ASSUME NEW m \in Mem, NEW p \in Pools
  PROVE  /\ Total(m, p) \in Nat
         /\ Blocks(m, p) = {p} \X (1 .. Total(m, p))
         /\ Blocks(m, p) \subseteq Block
<1> DEFINE k == m.pool[p].segs
           T == k * PerSegment
           All == MaxSegments * PerSegment
<1>1. k \in 0 .. MaxSegments
  BY DEF Mem, PoolRecord
<1>2. PerSegment \in Nat /\ MaxSegments \in Nat
  BY PoolAssumption
<1>3. T \in Nat /\ T <= All /\ All \in Nat
  <2> HIDE DEF k
  <2>1. \A a, b, c \in Nat : a <= b => a * c <= b * c /\ a * c \in Nat /\ b * c \in Nat
    OBVIOUS
  <2>2. k \in Nat /\ k <= MaxSegments
    BY <1>1, <1>2
  <2> QED BY <2>1, <2>2, <1>2
<1>4. Total(m, p) = T
  BY DEF Total
<1> HIDE DEF T, k
<1>5. \A b : b \in Block <=> \E x \in Pools, i \in 1 .. All : b = <<x, i>>
  BY DEF Block
<1> HIDE DEF All
<1>6. Blocks(m, p) = {b \in Block : b[1] = p /\ b[2] <= T}
  BY DEF Blocks, T, k
<1>7. \A b \in Blocks(m, p) : b \in {p} \X (1 .. T)
  BY <1>5, <1>6
<1>8. \A b \in {p} \X (1 .. T) : b \in Blocks(m, p)
  <2> SUFFICES ASSUME NEW i \in 1 .. T PROVE <<p, i>> \in Blocks(m, p)
    OBVIOUS
  <2>1. i \in 1 .. All
    BY <1>3
  <2> QED BY <1>5, <1>6, <2>1
<1> QED BY <1>3, <1>4, <1>6, <1>7, <1>8

\* The blocks on the free queue of P, from its tail on: S[0] is the tail, and each block
\* links to the next one, the last one to the tail unless its link was corrupted.  They
\* are marked for the O-th time.
Ring(m, p, s, n, o) ==
  /\ n \in Nat /\ s \in [0 .. n - 1 -> Blocks(m, p)]
  /\ \A i, j \in 0 .. n - 1 : s[i] = s[j] => i = j
  /\ m.pool[p].tail \in IF n = 0 THEN {Nil, Bad} ELSE {s[0]}
  /\ \A i \in 0 .. n - 2 : m.block[s[i]].link = s[i + 1]
  /\ n > 0 => m.block[s[n - 1]].link \in {s[0], Bad}
  /\ \A i \in 0 .. n - 1 :
       LET x == m.block[s[i]]
       IN  ~x.assigned /\ x.age = 0 /\ x.orphaned = o /\ (x.corrupt => x.link = Bad)

\* No link of the queue is corrupt.
Sound(m, p, s, n) == m.pool[p].tail # Bad /\ (n > 0 => m.block[s[n - 1]].link = s[0])

\* The number of available blocks is right, or too high if some were lost.
Counted(m, p, s, n) ==
  /\ n <= m.pool[p].avail
  /\ Sound(m, p, s, n) => m.pool[p].avail = n
  /\ m.pool[p].badHead => m.pool[p].tail = Bad

On(s, n) == {s[i] : i \in 0 .. n - 1}

\* A block that is not in use, and for which the audit counted no cycle
Idle(x) == ~x.assigned /\ x.age = 0

\* No link is corrupt.
NoBad(m) ==
  /\ \A p \in Pools : m.pool[p].tail # Bad
  /\ \A b \in Block : m.block[b].link # Bad

\* R is M after blocks were put on queues or taken from them.
Alters(m, r) ==
  /\ \A b \in Block : r.block[b] = m.block[b] \/ Idle(r.block[b])
  /\ \A p \in Pools : Blocks(m, p) \subseteq Blocks(r, p)
  /\ NoBad(m) => NoBad(r)

\* No pool loses a block when only P gets more of them.
LEMMA SameBlocks ==
  ASSUME NEW m, NEW r, NEW p, \A x \in Pools : x # p => r.pool[x] = m.pool[x],
         r.pool[p].segs = m.pool[p].segs \/ Blocks(m, p) \subseteq Blocks(r, p)
  PROVE  \A x \in Pools : Blocks(m, x) \subseteq Blocks(r, x)
<1>1. Blocks(m, p) \subseteq Blocks(r, p)
  BY DEF Blocks
<1>2. ASSUME NEW x \in Pools, x # p PROVE Blocks(m, x) \subseteq Blocks(r, x)
  BY <1>2 DEF Blocks
<1> QED BY <1>1, <1>2

\* This may be done many times, or not at all.
LEMMA AltersTwice ==
  ASSUME NEW m, NEW r, NEW q, Alters(m, r), Alters(r, q)
  PROVE  Alters(m, q)
BY DEF Alters

\* Nothing may change,
LEMMA AltersNone ==
  ASSUME NEW m
  PROVE  Alters(m, m)
BY DEF Alters

\* R differs from M in the free queue of P.
Frame(m, r, p) ==
  /\ r \in Mem
  /\ \A x \in Pools : x # p => r.pool[x] = m.pool[x]
  /\ r.pool[p].delta = m.pool[p].delta
  /\ \A b \in Block : b[1] # p => r.block[b] = m.block[b]
  /\ \A b \in Block : r.block[b].assigned => m.block[b].assigned
  /\ Alters(m, r)

\* X is block Y with another link.
Relinked(x, y, l) ==
  /\ x.link = l /\ x.assigned = y.assigned /\ x.orphaned = y.orphaned
  /\ x.age = y.age /\ x.corrupt = y.corrupt

\* X is pool Y with another tail and another count.
Headed(x, y, t, n) ==
  /\ x.tail = t /\ x.avail = n
  /\ x.segs = y.segs /\ x.delta = y.delta /\ x.badHead = y.badHead

\* Q is M with block B at the tail of the queue of P, where T was.
Enqueued(m, p, b, t, q) ==
  /\ q \in Mem
  /\ \A x \in Pools : x # p => q.pool[x] = m.pool[x]
  /\ Headed(q.pool[p], m.pool[p], b, m.pool[p].avail + 1)
  /\ \A x \in Block : x # b /\ x # t => q.block[x] = m.block[x]
  /\ t # Nil => Relinked(q.block[t], m.block[t], b)
  /\ Relinked(q.block[b], FreeBlock(m.block[b]), IF t = Nil THEN b ELSE m.block[t].link)

\* What changes in a record
LEMMA Records ==
  /\ \A x \in BlockRecord : \A l \in Links :
       [x EXCEPT !.link = l] \in BlockRecord /\ Relinked([x EXCEPT !.link = l], x, l)
  /\ \A x \in PoolRecord : \A l \in Links : \A n \in Int :
       /\ [x EXCEPT !.tail = l, !.avail = n] \in PoolRecord
       /\ Headed([x EXCEPT !.tail = l, !.avail = n], x, l, n)
<1>1. ASSUME NEW x \in BlockRecord, NEW l \in Links
      PROVE  [x EXCEPT !.link = l] \in BlockRecord /\ Relinked([x EXCEPT !.link = l], x, l)
  BY DEF BlockRecord, Relinked
<1>2. ASSUME NEW x \in PoolRecord, NEW l \in Links, NEW n \in Int
      PROVE  /\ [x EXCEPT !.tail = l, !.avail = n] \in PoolRecord
             /\ Headed([x EXCEPT !.tail = l, !.avail = n], x, l, n)
  BY DEF PoolRecord, Headed
<1> QED BY <1>1, <1>2

\* A function that was changed in one place.
LEMMA Update ==
  ASSUME NEW D, NEW R, NEW f \in [D -> R], NEW x \in D, NEW v \in R, NEW g,
         g = [f EXCEPT ![x] = v]
  PROVE  /\ g \in [D -> R] /\ g[x] = v
         /\ \A y \in D : y # x => g[y] = f[y]
  OBVIOUS

\* A block that is not refused goes to the tail.
LEMMA EnqueueIs ==
  ASSUME NEW m \in Mem, NEW p \in Pools, NEW b \in Block, b[1] = p,
         NEW t, t = m.pool[p].tail, t \in Block \cup {Nil}, t # b,
         ~Refused(m.block[b]), NEW q, q = Enqueue(m, b)
  PROVE  Enqueued(m, p, b, t, q)
<1> DEFINE f == [m EXCEPT !.block[b] = FreeBlock(@)]
           next == IF t = Nil THEN b ELSE f.block[t].link
           old == IF t = Nil THEN f.block ELSE [f.block EXCEPT ![t].link = b]
           e == [pool |-> [f.pool EXCEPT ![p].tail = b], block |-> [old EXCEPT ![b].link = next]]
           r == [e EXCEPT !.pool[p].avail = @ + 1]
<1>1. /\ m.pool \in [Pools -> PoolRecord] /\ m.block \in [Block -> BlockRecord]
      /\ m = [pool |-> m.pool, block |-> m.block]
  BY DEF Mem
<1>2. FreeBlock(m.block[b]) \in BlockRecord /\ FreeBlock(m.block[b]).link = Nil
  <2>1. m.block[b] \in BlockRecord
    BY <1>1
  <2>2. ASSUME NEW x \in BlockRecord
        PROVE  FreeBlock(x) \in BlockRecord /\ FreeBlock(x).link = Nil
    <3> DEFINE y == [x EXCEPT !.link = Nil, !.assigned = FALSE]
               z == [y EXCEPT !.orphaned = 0]
    <3>1. FreeBlock(x) = [z EXCEPT !.corrupt = FALSE, !.moved = FALSE, !.age = 0]
      BY DEF FreeBlock
    <3>2. Nil \in Links
      BY DEF Links
    <3>3. y \in BlockRecord /\ y.link = Nil
      BY <3>2 DEF BlockRecord
    <3> HIDE DEF y
    <3>4. z \in BlockRecord /\ z.link = Nil
      BY <3>3 DEF BlockRecord
    <3> DEFINE w == [z EXCEPT !.corrupt = FALSE, !.moved = FALSE, !.age = 0]
    <3>5. FreeBlock(x) = w
      BY <3>1
    <3> HIDE DEF z
    <3>6. w \in BlockRecord
      BY <3>4 DEF BlockRecord
    <3>7. w.link = Nil
      BY <3>4 DEF BlockRecord
    <3> QED BY <3>5, <3>6, <3>7
  <2> QED BY <2>1, <2>2
<1>3. /\ f.pool = m.pool /\ f.block \in [Block -> BlockRecord]
      /\ f.block[b] = FreeBlock(m.block[b]) /\ \A x \in Block : x # b => f.block[x] = m.block[x]
  BY <1>1, <1>2
<1>4. Nil \notin Block
  BY LinkAssumption
<1>5. Enqueue(m, b) = r
  <2>1. f.block[b].link = Nil
    BY <1>2, <1>3
  <2>2. Enqueue(m, b) = [Q1Enq(f, b) EXCEPT !.pool[p].avail = @ + 1]
    BY DEF Enqueue
  <2> HIDE DEF f
  <2>3. Q1Enq(f, b) = e
    BY <1>3, <2>1 DEF Q1Enq
  <2> HIDE DEF e
  <2> QED BY <2>2, <2>3
<1> HIDE DEF f
<1>6. next \in Links /\ next = IF t = Nil THEN b ELSE m.block[t].link
  BY <1>1, <1>3, <1>4 DEF Links, BlockRecord
<1>7. /\ old \in [Block -> BlockRecord] /\ old[b] = FreeBlock(m.block[b])
      /\ \A x \in Block : x # b /\ x # t => old[x] = m.block[x]
      /\ t # Nil => old[t] = [m.block[t] EXCEPT !.link = b]
  <2>1. CASE t = Nil
    BY <1>3, <1>4, <2>1
  <2>2. CASE t # Nil
    <3>1. t \in Block /\ f.block[t] = m.block[t] /\ m.block[t] \in BlockRecord
      BY <1>1, <1>3, <2>2
    <3>2. ASSUME NEW x \in BlockRecord PROVE [x EXCEPT !.link = b] \in BlockRecord
      BY DEF BlockRecord, Links
    <3>3. old = [f.block EXCEPT ![t] = [f.block[t] EXCEPT !.link = b]]
      BY <2>2
    <3>4. t # b /\ b \in Block
      OBVIOUS
    <3> HIDE DEF old
    <3> QED BY <1>3, <2>2, <3>1, <3>2, <3>3, <3>4
  <2> QED BY <2>1, <2>2
<1> HIDE DEF next, old
<1>8. /\ e.block \in [Block -> BlockRecord]
      /\ e.block[b] = [FreeBlock(m.block[b]) EXCEPT !.link = next]
      /\ \A x \in Block : x # b => e.block[x] = old[x]
  <2>1. ASSUME NEW x \in BlockRecord PROVE [x EXCEPT !.link = next] \in BlockRecord
    BY <1>6, ZenonT(30) DEF BlockRecord
  <2>2. e.block = [old EXCEPT ![b] = [old[b] EXCEPT !.link = next]]
    OBVIOUS
  <2> DEFINE x == [old[b] EXCEPT !.link = next]
  <2>3. x \in BlockRecord
    BY <1>2, <1>7, <2>1
  <2>4. e.block = [old EXCEPT ![b] = x]
    BY <2>2
  <2>5. x = [FreeBlock(m.block[b]) EXCEPT !.link = next]
    BY <1>7, Zenon
  <2> HIDE DEF x, e
  <2>6. /\ old \in [Block -> BlockRecord] /\ \A y \in Block : y # b => e.block[y] = old[y]
        /\ e.block \in [Block -> BlockRecord] /\ e.block[b] = x
    <3> HIDE DEF old, next
    <3>1. old \in [Block -> BlockRecord] /\ b \in Block
      BY <1>7
    <3> QED BY <2>3, <2>4, <3>1, Update
  <2> QED BY <2>5, <2>6, Zenon
<1>9. /\ e.pool \in [Pools -> PoolRecord] /\ e.pool[p] = [m.pool[p] EXCEPT !.tail = b]
      /\ \A x \in Pools : x # p => e.pool[x] = m.pool[x]
  BY <1>1, <1>3 DEF PoolRecord, Links
<1>10. e = [pool |-> e.pool, block |-> e.block]
  OBVIOUS
<1> HIDE DEF e
<1>11. /\ r.block = e.block /\ r.pool \in [Pools -> PoolRecord]
       /\ r.pool[p] = [m.pool[p] EXCEPT !.tail = b, !.avail = @ + 1]
       /\ \A x \in Pools : x # p => r.pool[x] = m.pool[x]
       /\ r = [pool |-> r.pool, block |-> r.block]
  <2>1. /\ r.block = e.block /\ r.pool = [e.pool EXCEPT ![p] = [e.pool[p] EXCEPT !.avail = @ + 1]]
        /\ r = [pool |-> r.pool, block |-> r.block]
    BY <1>10
  <2>2. ASSUME NEW x \in PoolRecord PROVE [x EXCEPT !.avail = @ + 1] \in PoolRecord
    BY DEF PoolRecord
  <2>3. m.pool[p] \in PoolRecord
    BY <1>1
  <2>4. [e.pool[p] EXCEPT !.avail = @ + 1] = [m.pool[p] EXCEPT !.tail = b, !.avail = @ + 1]
    BY <1>9, <2>3 DEF PoolRecord
  <2>5. e.pool[p] \in PoolRecord
    BY <1>9
  <2> HIDE DEF r
  <2>6. r.pool \in [Pools -> PoolRecord] /\ r.pool[p] = [e.pool[p] EXCEPT !.avail = @ + 1]
    <3> DEFINE x == [e.pool[p] EXCEPT !.avail = @ + 1]
    <3>1. x \in PoolRecord
      BY <2>2, <2>5
    <3>2. r.pool = [e.pool EXCEPT ![p] = x]
      BY <2>1
    <3> HIDE DEF x
    <3>3. r.pool \in [Pools -> PoolRecord] /\ r.pool[p] = x
      BY <1>9, <3>1, <3>2
    <3> QED BY <3>3 DEF x
  <2>7. \A x \in Pools : x # p => r.pool[x] = m.pool[x]
    BY <1>9, <2>1
  <2> QED BY <2>1, <2>4, <2>6, <2>7
<1> HIDE DEF r
<1>12. r \in Mem
  BY <1>8, <1>11 DEF Mem
<1>17. \A x \in Block : x # b => r.block[x] = old[x]
  <2>1. r.block = e.block
    BY <1>11
  <2> QED BY <1>8, <2>1
<1>13. Headed(r.pool[p], m.pool[p], b, m.pool[p].avail + 1)
  <2>1. m.pool[p] \in PoolRecord /\ b \in Links
    BY <1>1 DEF Links
  <2>2. m.pool[p].avail + 1 \in Int
    BY <2>1 DEF PoolRecord
  <2> DEFINE k == m.pool[p].avail + 1
  <2>3. r.pool[p] = [m.pool[p] EXCEPT !.tail = b, !.avail = k]
    BY <1>11
  <2> HIDE DEF k
  <2>4. k \in Int
    BY <2>2 DEF k
  <2>5. Headed([m.pool[p] EXCEPT !.tail = b, !.avail = k], m.pool[p], b, k)
    BY <2>1, <2>4, Records
  <2>6. Headed(r.pool[p], m.pool[p], b, k)
    BY <2>3, <2>5
  <2> QED BY <2>6 DEF k
<1>14. t # Nil => Relinked(r.block[t], m.block[t], b)
  <2> SUFFICES ASSUME t # Nil PROVE Relinked(r.block[t], m.block[t], b)
    OBVIOUS
  <2>1. t \in Block /\ m.block[t] \in BlockRecord /\ b \in Links
    BY <1>1 DEF Links
  <2>2. r.block[t] = [m.block[t] EXCEPT !.link = b]
    <3>1. r.block[t] = old[t]
      BY <1>17, <2>1, Zenon
    <3> QED BY <1>7, <3>1, Zenon
  <2>3. Relinked([m.block[t] EXCEPT !.link = b], m.block[t], b)
    BY <2>1, Records
  <2> QED BY <2>2, <2>3
<1>15. Relinked(r.block[b], FreeBlock(m.block[b]), next)
  <2> DEFINE x == [FreeBlock(m.block[b]) EXCEPT !.link = next]
  <2>1. Relinked(x, FreeBlock(m.block[b]), next)
    BY <1>2, <1>6, Records
  <2>2. r.block[b] = x
    BY <1>8, <1>11
  <2> HIDE DEF x
  <2> QED BY <2>1, <2>2, Zenon
<1>16. \A x \in Block : x # b /\ x # t => r.block[x] = m.block[x]
  BY <1>7, <1>17
<1> QED BY <1>5, <1>6, <1>11, <1>12, <1>13, <1>14, <1>15, <1>16 DEF Enqueued

\* The blocks of a queue.
LEMMA RingBlocks ==
  ASSUME NEW m \in Mem, NEW p \in Pools, NEW s, NEW n, NEW o, Ring(m, p, s, n, o)
  PROVE  /\ n \in Nat /\ Bad \notin Block /\ Nil \notin Block /\ Nil # Bad
         /\ \A i \in 0 .. n - 1 : s[i] \in Blocks(m, p) /\ s[i] \in Block /\ s[i] # Nil /\ s[i] # Bad
         /\ n > 0 => 0 \in 0 .. n - 1 /\ n - 1 \in 0 .. n - 1 /\ m.pool[p].tail = s[0]
         /\ n = 0 => m.pool[p].tail \in {Nil, Bad}
<1>1. n \in Nat /\ s \in [0 .. n - 1 -> Blocks(m, p)] /\ Blocks(m, p) \subseteq Block
  BY BlocksAre DEF Ring
<1> QED BY <1>1, LinkAssumption DEF Ring

\* A block that is put at the tail is in the ring.  If a link was corrupt, what was
\* the tail is lost.
LEMMA EnqueueRing ==
  ASSUME NEW m \in Mem, NEW p \in Pools, NEW b \in Blocks(m, p), NEW s, NEW n,
         Ring(m, p, s, n, 0), Counted(m, p, s, n), m.pool[p].tail # Bad,
         b \notin On(s, n), ~Refused(m.block[b]), NEW r, r = Enqueue(m, b)
  PROVE  /\ \E z, k : /\ Ring(r, p, z, k, 0) /\ Counted(r, p, z, k)
                      /\ On(z, k) \subseteq On(s, n) \cup {b}
                      /\ Sound(m, p, s, n) => Sound(r, p, z, k)
         /\ Frame(m, r, p) /\ r.pool[p].segs = m.pool[p].segs /\ r.pool[p].tail = b
         /\ Idle(r.block[b])
         /\ \A x \in Block : x \notin On(s, n) \cup {b} => r.block[x] = m.block[x]
<1> DEFINE t == m.pool[p].tail
           B == Blocks(m, p)
<1>1. b \in Block /\ b[1] = p /\ B \subseteq Block
  BY BlocksAre
<1>2. /\ n \in Nat /\ Bad \notin Block /\ Nil \notin Block /\ Nil # Bad
      /\ \A i \in 0 .. n - 1 : s[i] \in B /\ s[i] \in Block /\ s[i] # Nil /\ s[i] # Bad
      /\ n > 0 => 0 \in 0 .. n - 1 /\ n - 1 \in 0 .. n - 1 /\ t = s[0]
      /\ n = 0 => t = Nil
  BY RingBlocks
<1>3. \A i \in 0 .. n - 1 : s[i] # b
  BY DEF On
<1>4. t \in Block \cup {Nil} /\ t # b
  BY <1>1, <1>2, <1>3
<1>5. Enqueued(m, p, b, t, r)
  <2>1. t = m.pool[p].tail /\ r = Enqueue(m, b)
    OBVIOUS
  <2> HIDE DEF t, B
  <2> QED BY <1>1, <1>4, <2>1, EnqueueIs
<1>6. /\ r \in Mem
      /\ \A x \in Pools : x # p => r.pool[x] = m.pool[x]
      /\ \A x \in Block : x # b /\ x # t => r.block[x] = m.block[x]
  BY <1>5 DEF Enqueued
<1>7. /\ r.pool[p].tail = b /\ r.pool[p].avail = m.pool[p].avail + 1
      /\ r.pool[p].segs = m.pool[p].segs /\ r.pool[p].delta = m.pool[p].delta
      /\ r.pool[p].badHead = m.pool[p].badHead /\ m.pool[p].avail \in Int
  <2>1. m.pool[p].avail \in Int
    BY DEF Mem, PoolRecord
  <2> QED BY <1>5, <2>1 DEF Enqueued, Headed
<1>8. /\ ~r.block[b].assigned /\ r.block[b].age = 0 /\ r.block[b].orphaned = 0
      /\ ~r.block[b].corrupt
      /\ r.block[b].link = IF t = Nil THEN b ELSE m.block[t].link
  <2>1. m.block[b] \in BlockRecord
    BY <1>1 DEF Mem
  <2> DEFINE x == FreeBlock(m.block[b])
  <2>2. ~x.assigned /\ x.age = 0 /\ x.orphaned = 0 /\ ~x.corrupt
    BY <2>1 DEF FreeBlock, BlockRecord
  <2>3. Relinked(r.block[b], x, IF t = Nil THEN b ELSE m.block[t].link)
    BY <1>5 DEF Enqueued
  <2> HIDE DEF x, t, B
  <2> QED BY <2>2, <2>3 DEF Relinked
<1>9. t # Nil => /\ t \in Block /\ r.block[t].link = b
                 /\ r.block[t].assigned = m.block[t].assigned
                 /\ r.block[t].orphaned = m.block[t].orphaned /\ r.block[t].age = m.block[t].age
                 /\ r.block[t].corrupt = m.block[t].corrupt
  BY <1>4, <1>5 DEF Enqueued, Relinked
<1>10. Blocks(r, p) = B
  BY <1>7 DEF Blocks
<1>11. \A x \in Block : x \notin On(s, n) \cup {b} => r.block[x] = m.block[x]
  <2>1. \A x \in Block : x \notin On(s, n) => x # t \/ t = Nil
    BY <1>2 DEF On
  <2>2. \A x \in Block : x # Nil
    BY <1>2
  <2> HIDE DEF t, B
  <2> QED BY <1>6, <2>1, <2>2
<1>12. Frame(m, r, p)
  <2>1. \A x \in Block : x[1] # p => x # b /\ x # t
    <3>1. \A x \in B : x[1] = p
      BY BlocksAre
    <3> QED BY <1>1, <1>2, <3>1
  <2>2. \A x \in Block : r.block[x].assigned => m.block[x].assigned
    BY <1>2, <1>6, <1>8, <1>9
  <2>3. Alters(m, r)
    <3>1. t # Nil => Idle(r.block[t])
      <4>1. t # Nil => ~m.block[t].assigned /\ m.block[t].age = 0
        BY <1>2 DEF Ring
      <4> QED BY <1>9, <4>1 DEF Idle
    <3>2. Idle(r.block[b])
      BY <1>8 DEF Idle
    <3>3. \A x \in Block : r.block[x] = m.block[x] \/ Idle(r.block[x])
      BY <1>2, <1>4, <1>6, <3>1, <3>2
    <3>4. ASSUME NoBad(m) PROVE NoBad(r)
      <4>1. \A x \in Pools : r.pool[x].tail # Bad
        <5>1. b # Bad
          BY <1>1, <1>2
        <5> HIDE DEF t, B
        <5> QED BY <5>1, <1>6, <1>7, <3>4 DEF NoBad
      <4>2. \A x \in Block : r.block[x].link # Bad
        <5>1. /\ \A x \in Block : m.block[x].link # Bad
              /\ b # Bad /\ (t # Nil => t \in Block)
          BY <1>1, <1>2, <1>4, <3>4 DEF NoBad
        <5>2. r.block[b].link # Bad /\ (t # Nil => r.block[t].link # Bad)
          BY <1>8, <1>9, <5>1
        <5>3. \A x \in Block : x # Nil
          BY <1>2
        <5> HIDE DEF t, B
        <5> QED BY <1>6, <5>1, <5>2, <5>3
      <4> QED BY <4>1, <4>2 DEF NoBad
    <3>5. \A x \in Pools : Blocks(m, x) \subseteq Blocks(r, x)
      <4>1. r.pool[p].segs = m.pool[p].segs
        BY <1>7
      <4> HIDE DEF B, t
      <4>2. \A x \in Pools : x # p => r.pool[x] = m.pool[x]
        BY <1>6
      <4> QED BY <4>1, <4>2, SameBlocks
    <3> QED BY <3>3, <3>4, <3>5 DEF Alters
  <2> QED BY <1>6, <1>7, <2>1, <2>2, <2>3 DEF Frame
<1>19. Idle(r.block[b])
  BY <1>8 DEF Idle
<1>13. ~m.pool[p].badHead /\ n <= m.pool[p].avail
  BY DEF Counted
<1>14. /\ \A i, j \in 0 .. n - 1 : s[i] = s[j] => i = j
       /\ \A i \in 0 .. n - 2 : m.block[s[i]].link = s[i + 1]
       /\ n > 0 => m.block[s[n - 1]].link \in {s[0], Bad}
       /\ \A i \in 0 .. n - 1 : /\ ~m.block[s[i]].assigned /\ m.block[s[i]].age = 0 /\ m.block[s[i]].orphaned = 0
                                /\ m.block[s[i]].corrupt => m.block[s[i]].link = Bad
  BY DEF Ring
<1>15. \A i \in 1 .. n - 1 : r.block[s[i]] = m.block[s[i]]
  <2> TAKE i \in 1 .. n - 1
  <2>1. i \in 0 .. n - 1 /\ i # 0 /\ 0 \in 0 .. n - 1 /\ t = s[0]
    BY <1>2
  <2>2. s[i] # t /\ s[i] # b /\ s[i] \in Block
    BY <1>2, <1>3, <1>14, <2>1
  <2> HIDE DEF t, B
  <2> QED BY <1>6, <2>2
<1> HIDE DEF B, t
<1>16. CASE n = 0
  <2> DEFINE z == [i \in 0 .. 0 |-> b]
  <2>1. t = Nil /\ r.block[b].link = b
    BY <1>2, <1>8, <1>16
  <2>2. Ring(r, p, z, 1, 0)
    BY <1>1, <1>7, <1>8, <1>10, <2>1 DEF Ring, B
  <2>3. m.pool[p].avail = 0
    BY <1>16, <2>1, <1>2 DEF Counted, Sound, t
  <2>4. Counted(r, p, z, 1)
    BY <1>7, <1>13, <2>3 DEF Counted
  <2>5. On(z, 1) \subseteq On(s, n) \cup {b}
    BY DEF On
  <2>6. Sound(r, p, z, 1)
    BY <1>1, <1>2, <1>7, <2>1 DEF Sound
  <2> HIDE DEF z
  <2> QED BY <1>7, <1>11, <1>12, <1>19, <2>2, <2>4, <2>5, <2>6
<1>17. CASE n > 0 /\ m.block[s[n - 1]].link = s[0]
  <2> DEFINE z == [i \in 0 .. n |-> IF i = 0 THEN b ELSE IF i < n THEN s[i] ELSE s[0]]
  <2>1. /\ z[0] = b /\ z[n] = s[0] /\ (\A i \in 1 .. n - 1 : z[i] = s[i])
        /\ z \in [0 .. n -> B]
    BY <1>2, <1>17 DEF B
  <2>2. \A i \in 0 .. n : i = 0 \/ i \in 1 .. n - 1 \/ i = n
    BY <1>2
  <2> HIDE DEF z
  <2>3. \A i, j \in 0 .. n : z[i] = z[j] => i = j
    <3> SUFFICES ASSUME NEW i \in 0 .. n, NEW j \in 0 .. n, z[i] = z[j] PROVE i = j
      OBVIOUS
    <3> DEFINE u(k) == IF k = n THEN 0 ELSE k
    <3>1. \A k \in 1 .. n : u(k) \in 0 .. n - 1 /\ z[k] = s[u(k)]
      BY <1>2, <1>17, <2>1
    <3>2. \A k, l \in 1 .. n : u(k) = u(l) => k = l
      BY <1>2, <1>17
    <3> HIDE DEF u
    <3>3. CASE i \in 1 .. n /\ j \in 1 .. n
      BY <1>14, <3>1, <3>2, <3>3
    <3>4. CASE i = 0 \/ j = 0
      BY <1>2, <1>3, <2>1, <2>2, <3>1, <3>4
    <3> QED BY <1>2, <3>3, <3>4
  <2>4. t = s[0] /\ t # Nil
    BY <1>2, <1>17
  <2>5. \A i \in 0 .. n - 1 : r.block[z[i]].link = z[i + 1]
    <3> TAKE i \in 0 .. n - 1
    <3>1. CASE i = 0
      <4>1. r.block[b].link = m.block[s[0]].link
        BY <1>8, <2>4
      <4>2. CASE n = 1
        BY <1>17, <2>1, <3>1, <4>1, <4>2
      <4>3. CASE n > 1
        <5>1. 0 \in 0 .. n - 2 /\ 1 \in 1 .. n - 1 /\ z[1] = s[1]
          BY <1>2, <2>1, <4>3
        <5>2. m.block[s[0]].link = s[1]
          BY <1>14, <5>1
        <5> QED BY <2>1, <3>1, <4>1, <5>1, <5>2
      <4> QED BY <1>2, <1>17, <4>2, <4>3
    <3>2. CASE i \in 1 .. n - 2
      <4>1. z[i] = s[i] /\ z[i + 1] = s[i + 1] /\ i \in 1 .. n - 1 /\ i \in 0 .. n - 2
        BY <1>2, <2>1, <3>2
      <4> QED BY <1>14, <1>15, <4>1
    <3>3. CASE i = n - 1 /\ i # 0
      <4>1. z[i] = s[n - 1] /\ z[i + 1] = s[0] /\ n - 1 \in 1 .. n - 1
        BY <1>2, <2>1, <3>3
      <4> QED BY <1>15, <1>17, <4>1
    <3> QED BY <1>2, <3>1, <3>2, <3>3
  <2>6. r.block[z[n]].link = z[0]
    BY <1>9, <2>1, <2>4
  <2>7. \A i \in 0 .. n : /\ ~r.block[z[i]].assigned /\ r.block[z[i]].age = 0 /\ r.block[z[i]].orphaned = 0
                          /\ ~r.block[z[i]].corrupt
    <3>1. \A i \in 0 .. n - 1 : m.block[s[i]].link # Bad
      <4>1. \A i \in 0 .. n - 1 : i \in 0 .. n - 2 \/ i = n - 1
        BY <1>2
      <4>2. \A i \in 0 .. n - 2 : i + 1 \in 0 .. n - 1
        BY <1>2
      <4> QED BY <1>2, <1>14, <1>17, <4>1, <4>2
    <3>2. \A i \in 1 .. n - 1 : i \in 0 .. n - 1
      BY <1>2
    <3>3. \A i \in 1 .. n - 1 : /\ ~r.block[s[i]].assigned /\ r.block[s[i]].age = 0 /\ r.block[s[i]].orphaned = 0
                                /\ ~r.block[s[i]].corrupt
      BY <1>14, <1>15, <3>1, <3>2
    <3>4. ~r.block[s[0]].assigned /\ r.block[s[0]].age = 0 /\ r.block[s[0]].orphaned = 0 /\ ~r.block[s[0]].corrupt
      BY <1>2, <1>9, <1>14, <1>17, <2>4, <3>1
    <3> QED BY <1>8, <2>1, <2>2, <3>3, <3>4
  <2>8. Ring(r, p, z, n + 1, 0)
    <3>1. n + 1 \in Nat /\ n + 1 - 1 = n /\ n + 1 - 2 = n - 1 /\ n + 1 # 0
      BY <1>2
    <3> QED BY <1>7, <1>10, <2>1, <2>3, <2>5, <2>6, <2>7, <3>1 DEF Ring
  <2>9. Counted(r, p, z, n + 1)
    <3>1. Sound(m, p, s, n)
      BY <1>17 DEF Sound
    <3>2. m.pool[p].avail = n
      BY <3>1 DEF Counted
    <3> QED BY <1>2, <1>7, <1>13, <3>2 DEF Counted
  <2>10. On(z, n + 1) \subseteq On(s, n) \cup {b}
    <3>1. n + 1 - 1 = n /\ \A i \in 1 .. n - 1 : i \in 0 .. n - 1
      BY <1>2
    <3> QED BY <1>2, <1>17, <2>1, <2>2, <3>1 DEF On
  <2>11. Sound(r, p, z, n + 1)
    <3>1. n + 1 - 1 = n /\ b # Bad
      BY <1>1, <1>2
    <3>2. z[n + 1 - 1] = z[n] /\ r.pool[p].tail # Bad
      BY <1>7, <3>1
    <3>3. r.block[z[n + 1 - 1]].link = z[0]
      BY <2>6, <3>2
    <3> QED BY <1>2, <3>1, <3>2, <3>3 DEF Sound
  <2>12. \E y, k : /\ Ring(r, p, y, k, 0) /\ Counted(r, p, y, k)
                   /\ On(y, k) \subseteq On(s, n) \cup {b}
                   /\ Sound(m, p, s, n) => Sound(r, p, y, k)
    <3> DEFINE l == n + 1
    <3>1. /\ Ring(r, p, z, l, 0) /\ Counted(r, p, z, l)
          /\ On(z, l) \subseteq On(s, n) \cup {b} /\ Sound(r, p, z, l)
      BY <2>8, <2>9, <2>10, <2>11
    <3> HIDE DEF l
    <3> QED BY <3>1
  <2> QED BY <1>7, <1>11, <1>12, <1>19, <2>12
<1>18. CASE n > 0 /\ m.block[s[n - 1]].link = Bad
  <2> DEFINE z == [i \in 0 .. n - 1 |-> IF i = 0 THEN b ELSE s[i]]
  <2>1. z[0] = b /\ (\A i \in 1 .. n - 1 : z[i] = s[i]) /\ z \in [0 .. n - 1 -> B]
    BY <1>2, <1>18 DEF B
  <2>2. \A i \in 0 .. n - 1 : i = 0 \/ i \in 1 .. n - 1
    BY <1>2
  <2> HIDE DEF z
  <2>3. \A i, j \in 0 .. n - 1 : z[i] = z[j] => i = j
    BY <1>3, <1>14, <2>1, <2>2
  <2>4. t = s[0] /\ t # Nil
    BY <1>2, <1>18
  <2>5. r.block[b].link = m.block[s[0]].link
    BY <1>8, <2>4
  <2>6. \A i \in 0 .. n - 2 : r.block[z[i]].link = z[i + 1]
    <3> TAKE i \in 0 .. n - 2
    <3>1. i + 1 \in 1 .. n - 1 /\ z[i + 1] = s[i + 1] /\ m.block[s[i]].link = s[i + 1]
      BY <1>2, <1>14, <2>1
    <3>2. CASE i = 0
      BY <2>1, <2>5, <3>1, <3>2
    <3>3. CASE i \in 1 .. n - 1
      BY <1>15, <2>1, <3>1, <3>3
    <3> QED BY <1>2, <3>2, <3>3
  <2>7. r.block[z[n - 1]].link = Bad
    <3>1. CASE n = 1
      BY <1>18, <2>1, <2>5, <3>1
    <3>2. CASE n > 1
      <4>1. n - 1 \in 1 .. n - 1
        BY <1>2, <3>2
      <4> QED BY <1>15, <1>18, <2>1, <4>1
    <3> QED BY <1>2, <1>18, <3>1, <3>2
  <2>8. \A i \in 0 .. n - 1 : /\ ~r.block[z[i]].assigned /\ r.block[z[i]].age = 0 /\ r.block[z[i]].orphaned = 0
                              /\ r.block[z[i]].corrupt => r.block[z[i]].link = Bad
    BY <1>8, <1>14, <1>15, <2>1, <2>2
  <2>9. Ring(r, p, z, n, 0)
    <3>1. n # 0
      BY <1>18
    <3> QED BY <1>2, <1>7, <1>10, <2>1, <2>3, <2>6, <2>7, <2>8, <3>1 DEF Ring
  <2>10. Counted(r, p, z, n)
    <3>1. ~Sound(r, p, z, n)
      BY <1>1, <1>2, <1>18, <2>1, <2>7 DEF Sound
    <3> QED BY <1>2, <1>7, <1>13, <3>1 DEF Counted
  <2>11. On(z, n) \subseteq On(s, n) \cup {b}
    BY <2>1, <2>2 DEF On
  <2>12. ~Sound(m, p, s, n)
    BY <1>2, <1>18 DEF Sound
  <2> QED BY <1>7, <1>11, <1>12, <1>19, <2>9, <2>10, <2>11, <2>12
<1> QED BY <1>2, <1>14, <1>16, <1>17, <1>18

\* Q is M without the front B of the queue of P, whose tail is T.
Taken(m, p, b, t, q) ==
  /\ q \in Mem
  /\ \A x \in Pools : x # p => q.pool[x] = m.pool[x]
  /\ Headed(q.pool[p], m.pool[p], IF b = t THEN Nil ELSE t, m.pool[p].avail - 1)
  /\ \A x \in Block : x # b /\ x # t => q.block[x] = m.block[x]
  /\ b # t => Relinked(q.block[t], m.block[t], m.block[b].link)
  /\ Relinked(q.block[b], m.block[b], Nil)

\* T is the tail of the queue of P, and B its front.
Ends(m, p, b, t) == t = m.pool[p].tail /\ b = m.block[t].link

\* What a memory is made of.
LEMMA Memories ==
  ASSUME NEW f \in [Pools -> PoolRecord], NEW g \in [Block -> BlockRecord]
  PROVE  [pool |-> f, block |-> g] \in Mem
  BY DEF Mem

\* What Deq does to the block B that was at the front.
LEMMA DequeueIs ==
  ASSUME NEW m \in Mem, NEW p \in Pools, NEW t \in Block, NEW b \in Block,
         Ends(m, p, b, t), NEW q, q = [Q1Deq(m, p) EXCEPT !.pool[p].avail = @ - 1]
  PROVE  Taken(m, p, b, t, q)
<1> DEFINE Linked(x, l) == [x EXCEPT !.link = l]
           new == [m.pool[p] EXCEPT !.tail = IF b = t THEN Nil ELSE t, !.avail = @ - 1]
           rest == IF b = t THEN m.block
                            ELSE [m.block EXCEPT ![t] = Linked(m.block[t], m.block[b].link)]
           P == [m.pool EXCEPT ![p] = new]
           B == [rest EXCEPT ![b] = Linked(m.block[b], Nil)]
<1>1. /\ m.pool \in [Pools -> PoolRecord] /\ m.block \in [Block -> BlockRecord]
      /\ m = [pool |-> m.pool, block |-> m.block]
  BY DEF Mem
<1>2. m.pool[p] \in PoolRecord /\ m.block[t] \in BlockRecord /\ m.block[b] \in BlockRecord
  BY <1>1
<1>3. m.block[b].link \in Links /\ Nil \in Links
  BY <1>2 DEF BlockRecord, Links
<1>4. new \in PoolRecord
  <2> DEFINE x == [m.pool[p] EXCEPT !.tail = IF b = t THEN Nil ELSE t]
  <2>1. x \in PoolRecord
    <3>1. (IF b = t THEN Nil ELSE t) \in Links
      BY DEF Links
    <3> DEFINE l == IF b = t THEN Nil ELSE t
    <3> HIDE DEF l
    <3>2. [m.pool[p] EXCEPT !.tail = l] \in PoolRecord
      BY <1>2, <3>1 DEF PoolRecord, l
    <3> QED BY <3>2 DEF l
  <2>2. new = [x EXCEPT !.avail = @ - 1]
    BY <1>2 DEF PoolRecord
  <2> HIDE DEF x, new
  <2> QED BY <2>1, <2>2 DEF PoolRecord
<1>5. \A x \in BlockRecord, l \in Links : Linked(x, l) \in BlockRecord
  BY DEF BlockRecord
<1>6. q = [pool |-> P, block |-> B]
  <2>1. CASE b = t
    <3>1. Q1Deq(m, p) = [pool |-> [m.pool EXCEPT ![p].tail = Nil],
                         block |-> [m.block EXCEPT ![b].link = Nil]]
      BY <2>1 DEF Q1Deq, Q1Front, Ends
    <3> DEFINE d == [m.pool EXCEPT ![p].tail = Nil]
               c == [m.block EXCEPT ![b].link = Nil]
    <3>2. q = [pool |-> [d EXCEPT ![p].avail = @ - 1], block |-> c]
      <4>1. Q1Deq(m, p) = [pool |-> d, block |-> c]
        BY <3>1
      <4> HIDE DEF d, c
      <4> QED BY <4>1
    <3>3. [d EXCEPT ![p].avail = @ - 1] = P
      <4> DEFINE x == [m.pool[p] EXCEPT !.tail = Nil]
      <4>1. d = [m.pool EXCEPT ![p] = x] /\ d[p] = x
        BY <1>1
      <4>2. new = [x EXCEPT !.avail = @ - 1]
        BY <1>2, <2>1 DEF PoolRecord
      <4>3. [d EXCEPT ![p].avail = @ - 1] = [d EXCEPT ![p] = [x EXCEPT !.avail = @ - 1]]
        <5> HIDE DEF d, x
        <5> QED BY <4>1
      <4> HIDE DEF x, new
      <4> QED BY <1>1, <4>1, <4>2, <4>3
    <3>4. [m.block EXCEPT ![b].link = Nil] = B
      BY <2>1
    <3> HIDE DEF P, B, d
    <3> QED BY <3>2, <3>3, <3>4
  <2>2. CASE b # t
    <3> DEFINE c == [m.block EXCEPT ![t].link = m.block[b].link]
    <3>1. Q1Deq(m, p) = [m EXCEPT !.block = [c EXCEPT ![b].link = Nil]]
      BY <2>2 DEF Q1Deq, Q1Front, Ends
    <3>2. Q1Deq(m, p) = [pool |-> m.pool, block |-> [c EXCEPT ![b].link = Nil]]
      <4> HIDE DEF c
      <4> QED BY <1>1, <3>1
    <3>3. q = [pool |-> [m.pool EXCEPT ![p].avail = @ - 1], block |-> [c EXCEPT ![b].link = Nil]]
      <4> DEFINE f == m.pool
                 g == [c EXCEPT ![b].link = Nil]
      <4>1. Q1Deq(m, p) = [pool |-> f, block |-> g]
        BY <3>2
      <4> HIDE DEF f, g
      <4>2. q = [pool |-> [f EXCEPT ![p].avail = @ - 1], block |-> g]
        BY <4>1
      <4> HIDE DEF c
      <4> QED BY <4>2 DEF f, g
    <3>4. [m.pool EXCEPT ![p].avail = @ - 1] = P
      <4>1. new = [m.pool[p] EXCEPT !.avail = @ - 1]
        <5>1. m.pool[p].tail = t /\ m.pool[p] \in PoolRecord
          BY <1>2 DEF Ends
        <5> QED BY <2>2, <5>1 DEF PoolRecord
      <4> HIDE DEF new
      <4> QED BY <4>1
    <3>5. c = rest /\ c[b] = m.block[b]
      BY <1>1, <2>2
    <3>6. [c EXCEPT ![b].link = Nil] = B
      <4> HIDE DEF c, rest
      <4> QED BY <3>5
    <3> HIDE DEF P, B, c
    <3> QED BY <3>3, <3>4, <3>6
  <2> QED BY <2>1, <2>2
<1>7. /\ rest \in [Block -> BlockRecord]
      /\ b # t => rest[t] = Linked(m.block[t], m.block[b].link)
      /\ \A x \in Block : x # t => rest[x] = m.block[x]
  <2>1. Linked(m.block[t], m.block[b].link) \in BlockRecord
    BY <1>2, <1>3, <1>5
  <2> HIDE DEF Linked
  <2>2. CASE b = t
    BY <1>1, <2>2
  <2>3. CASE b # t
    <3>1. rest = [m.block EXCEPT ![t] = Linked(m.block[t], m.block[b].link)]
      BY <2>3
    <3> HIDE DEF rest
    <3> QED BY <1>1, <2>1, <3>1, Update
  <2> QED BY <2>2, <2>3
<1>8. /\ P \in [Pools -> PoolRecord] /\ P[p] = new
      /\ \A x \in Pools : x # p => P[x] = m.pool[x]
  <2> HIDE DEF new
  <2> QED BY <1>1, <1>4, Update
<1>9. /\ B \in [Block -> BlockRecord] /\ B[b] = Linked(m.block[b], Nil)
      /\ \A x \in Block : x # b => B[x] = rest[x]
  <2>1. Linked(m.block[b], Nil) \in BlockRecord
    BY <1>2, <1>3, <1>5
  <2> HIDE DEF Linked, rest
  <2> QED BY <1>7, <2>1, Update
<1>10. q.pool = P /\ q.block = B
  <2> HIDE DEF P, B
  <2> QED BY <1>6
<1>11. q \in Mem
  <2>1. P \in [Pools -> PoolRecord] /\ B \in [Block -> BlockRecord]
    BY <1>8, <1>9
  <2> HIDE DEF P, B
  <2>2. [pool |-> P, block |-> B] \in Mem
    BY <2>1, Memories
  <2> QED BY <1>6, <2>2
<1>12. new = [m.pool[p] EXCEPT !.tail = IF b = t THEN Nil ELSE t, !.avail = m.pool[p].avail - 1]
  OBVIOUS
<1>13. (IF b = t THEN Nil ELSE t) \in Links /\ m.pool[p].avail - 1 \in Int
  <2>1. m.pool[p].avail \in Int
    BY <1>2 DEF PoolRecord
  <2> QED BY <1>3, <2>1 DEF Links
<1> HIDE DEF P, B, rest, new
<1>14. Headed(q.pool[p], m.pool[p], IF b = t THEN Nil ELSE t, m.pool[p].avail - 1)
  <2> DEFINE l == IF b = t THEN Nil ELSE t
             k == m.pool[p].avail - 1
  <2>1. q.pool[p] = [m.pool[p] EXCEPT !.tail = l, !.avail = k] /\ l \in Links /\ k \in Int
    BY <1>8, <1>10, <1>12, <1>13
  <2> HIDE DEF l, k
  <2>2. Headed(q.pool[p], m.pool[p], l, k)
    BY <1>2, <2>1, Records
  <2> QED BY <2>2 DEF l, k
<1>15. \A x \in BlockRecord : \A l \in Links : Relinked(Linked(x, l), x, l)
  BY Records
<1> HIDE DEF Linked
<1>16. b # t => Relinked(q.block[t], m.block[t], m.block[b].link)
  <2> SUFFICES ASSUME b # t PROVE Relinked(q.block[t], m.block[t], m.block[b].link)
    OBVIOUS
  <2>1. q.block[t] = Linked(m.block[t], m.block[b].link)
    BY <1>7, <1>9, <1>10
  <2> QED BY <1>2, <1>3, <1>15, <2>1
<1>17. Relinked(q.block[b], m.block[b], Nil)
  BY <1>2, <1>3, <1>9, <1>10, <1>15
<1>18. \A x \in Pools : x # p => q.pool[x] = m.pool[x]
  BY <1>8, <1>10
<1>19. \A x \in Block : x # b /\ x # t => q.block[x] = m.block[x]
  BY <1>7, <1>9, <1>10
<1> QED BY <1>11, <1>14, <1>16, <1>17, <1>18, <1>19 DEF Taken

\* The block at the front is taken out of the ring.
LEMMA DequeueRing ==
  ASSUME NEW m \in Mem, NEW p \in Pools, NEW s, NEW n,
         Ring(m, p, s, n, 0), Counted(m, p, s, n),
         NEW t \in Block, NEW b \in Block, Ends(m, p, b, t),
         NEW r, Taken(m, p, b, t, r)
  PROVE  /\ b \in On(s, n)
         /\ \E z, k : Ring(r, p, z, k, 0) /\ Counted(r, p, z, k) /\ On(z, k) \subseteq On(s, n) \ {b}
         /\ Frame(m, r, p) /\ r.pool[p].segs = m.pool[p].segs /\ r.pool[p].tail # Bad
         /\ 0 < m.pool[p].avail /\ r.pool[p].avail = m.pool[p].avail - 1
<1> DEFINE B == Blocks(m, p)
<1>1. \A x \in B : x \in Block /\ x[1] = p
  BY BlocksAre
<1>2. /\ n \in Nat /\ Bad \notin Block /\ Nil \notin Block /\ Nil # Bad
      /\ \A i \in 0 .. n - 1 : s[i] \in B /\ s[i] \in Block /\ s[i] # Nil /\ s[i] # Bad
      /\ n > 0 /\ 0 \in 0 .. n - 1 /\ n - 1 \in 0 .. n - 1 /\ t = s[0]
      /\ m.pool[p].tail = t
  <2>1. m.pool[p].tail = t
    BY DEF Ends
  <2> QED BY <2>1, RingBlocks
<1>4. /\ r \in Mem
      /\ \A x \in Pools : x # p => r.pool[x] = m.pool[x]
      /\ \A x \in Block : x # b /\ x # t => r.block[x] = m.block[x]
  BY DEF Taken
<1>5. /\ r.pool[p].tail = (IF b = t THEN Nil ELSE t) /\ r.pool[p].avail = m.pool[p].avail - 1
      /\ r.pool[p].segs = m.pool[p].segs /\ r.pool[p].delta = m.pool[p].delta
      /\ r.pool[p].badHead = m.pool[p].badHead /\ m.pool[p].avail \in Int
  <2>1. m.pool[p].avail \in Int
    BY DEF Mem, PoolRecord
  <2> HIDE DEF B
  <2> QED BY <2>1 DEF Taken, Headed
<1>6. /\ r.block[b].assigned = m.block[b].assigned
      /\ b # t => /\ r.block[t].assigned = m.block[t].assigned
                  /\ r.block[t].orphaned = m.block[t].orphaned /\ r.block[t].age = m.block[t].age
                  /\ r.block[t].corrupt = m.block[t].corrupt
                  /\ r.block[t].link = m.block[b].link
  BY DEF Taken, Relinked
<1>7. Blocks(r, p) = B
  BY <1>5 DEF Blocks
<1>8. /\ \A i, j \in 0 .. n - 1 : s[i] = s[j] => i = j
      /\ \A i \in 0 .. n - 2 : m.block[s[i]].link = s[i + 1]
      /\ m.block[s[n - 1]].link \in {s[0], Bad}
      /\ \A i \in 0 .. n - 1 : /\ ~m.block[s[i]].assigned /\ m.block[s[i]].age = 0 /\ m.block[s[i]].orphaned = 0
                               /\ m.block[s[i]].corrupt => m.block[s[i]].link = Bad
  BY <1>2 DEF Ring
<1>20. (n = 1 => b = s[0]) /\ (n > 1 => b = s[1])
  <2>1. m.block[s[0]].link = b
    BY <1>2 DEF Ends
  <2>2. n > 1 => 0 \in 0 .. n - 2
    BY <1>2
  <2> QED BY <1>2, <1>8, <2>1, <2>2
<1>9. ~m.pool[p].badHead /\ n <= m.pool[p].avail
  BY <1>2 DEF Counted
<1>13. r.block[b].age = m.block[b].age /\ r.block[b].link = Nil
  BY DEF Taken, Relinked
<1>12. Alters(m, r)
  <2>1. b \in Block /\ ~m.block[b].assigned /\ m.block[b].age = 0
    <3>1. n > 1 => 0 \in 0 .. n - 2 /\ 1 \in 0 .. n - 1
      BY <1>2
    <3>2. CASE n > 1
      BY <1>8, <1>20, <3>1, <3>2
    <3>3. CASE n = 1
      BY <1>2, <1>8, <1>20, <3>3
    <3> QED BY <1>2, <3>2, <3>3
  <2>2. ~m.block[t].assigned /\ m.block[t].age = 0
    BY <1>2, <1>8
  <2>3. Idle(r.block[b]) /\ Idle(r.block[t])
    BY <1>6, <1>13, <2>1, <2>2 DEF Idle
  <2>4. \A x \in Block : r.block[x] = m.block[x] \/ Idle(r.block[x])
    BY <1>4, <2>3
  <2>5. ASSUME NoBad(m) PROVE NoBad(r)
    <3>1. \A x \in Pools : r.pool[x].tail # Bad
      <4>1. \A x \in Pools : m.pool[x].tail # Bad
        BY <2>5 DEF NoBad
      <4>2. r.pool[p].tail # Bad
        BY <1>2, <1>5
      <4> QED BY <1>4, <4>1, <4>2
    <3>2. \A x \in Block : r.block[x].link # Bad
      <4>1. r.block[b].link # Bad
        BY <1>2, <1>13
      <4>2. b # t => r.block[t].link # Bad
        BY <1>6, <2>1, <2>5 DEF NoBad
      <4>3. \A x \in Block : x # b /\ x # t => r.block[x].link # Bad
        BY <1>4, <2>5 DEF NoBad
      <4> QED BY <4>1, <4>2, <4>3
    <3> QED BY <3>1, <3>2 DEF NoBad
  <2>6. \A x \in Pools : Blocks(m, x) \subseteq Blocks(r, x)
    <3>1. r.pool[p].segs = m.pool[p].segs
      BY <1>5
    <3> HIDE DEF B
    <3>2. \A x \in Pools : x # p => r.pool[x] = m.pool[x]
      BY <1>4
    <3> QED BY <3>1, <3>2, SameBlocks
  <2> QED BY <2>4, <2>5, <2>6 DEF Alters
<1> HIDE DEF B
<1>10. CASE n = 1
  <2>1. b = s[0]
    BY <1>10, <1>20
  <2>2. b \in B /\ b \in On(s, n)
    BY <1>2, <2>1 DEF On
  <2>3. Frame(m, r, p)
    <3>1. \A x \in Block : x[1] # p => x # b /\ x # t
      BY <1>1, <1>2, <2>1
    <3>2. \A x \in Block : r.block[x].assigned => m.block[x].assigned
      BY <1>2, <1>4, <1>6, <2>1
    <3> QED BY <1>4, <1>5, <1>12, <3>1, <3>2 DEF Frame
  <2> DEFINE z == [i \in 0 .. -1 |-> b]
  <2>4. r.pool[p].tail = Nil
    BY <1>2, <1>5, <2>1
  <2>5. Ring(r, p, z, 0, 0) /\ On(z, 0) \subseteq On(s, n) \ {b}
    BY <2>4 DEF Ring, On
  <2>6. m.pool[p].avail = 1
    <3>1. Sound(m, p, s, n)
      <4>1. m.block[s[n - 1]].link = s[0]
        BY <1>2, <1>8, <1>10, <1>20 DEF Ends
      <4> QED BY <1>2, <4>1 DEF Sound
    <3> QED BY <1>10, <3>1 DEF Counted
  <2>7. Counted(r, p, z, 0)
    BY <1>5, <1>9, <2>6 DEF Counted
  <2> HIDE DEF z
  <2> QED BY <1>2, <1>5, <2>2, <2>3, <2>4, <2>5, <2>6, <2>7
<1>11. CASE n > 1
  <2>1. 0 \in 0 .. n - 2 /\ 1 \in 0 .. n - 1
    BY <1>2, <1>11
  <2>2. b = s[1] /\ b # t /\ b \in B /\ b \in On(s, n)
    BY <1>2, <1>8, <1>11, <1>20, <2>1 DEF On
  <2>3. Frame(m, r, p)
    <3>1. \A x \in Block : x[1] # p => x # b /\ x # t
      BY <1>1, <1>2, <2>2
    <3>2. \A x \in Block : r.block[x].assigned => m.block[x].assigned
      BY <1>4, <1>6, <2>2
    <3> QED BY <1>4, <1>5, <1>12, <3>1, <3>2 DEF Frame
  <2> DEFINE z == [i \in 0 .. n - 2 |-> IF i = 0 THEN s[0] ELSE s[i + 1]]
  <2>4. \A i \in 1 .. n - 2 : i + 1 \in 0 .. n - 1 /\ i + 1 \in 2 .. n - 1
    BY <1>2
  <2>5. z[0] = s[0] /\ (\A i \in 1 .. n - 2 : z[i] = s[i + 1]) /\ z \in [0 .. n - 2 -> B]
    <3>1. \A i \in 0 .. n - 2 : i = 0 \/ i \in 1 .. n - 2
      BY <1>2
    <3> QED BY <1>2, <2>1, <2>4, <3>1
  <2>6. \A i \in 0 .. n - 2 : i = 0 \/ i \in 1 .. n - 2
    BY <1>2
  <2> HIDE DEF z
  <2>7. \A i, j \in 0 .. n - 2 : z[i] = z[j] => i = j
    <3> SUFFICES ASSUME NEW i \in 0 .. n - 2, NEW j \in 0 .. n - 2, z[i] = z[j] PROVE i = j
      OBVIOUS
    <3> DEFINE u(k) == IF k = 0 THEN 0 ELSE k + 1
    <3>1. \A k \in 0 .. n - 2 : u(k) \in 0 .. n - 1 /\ z[k] = s[u(k)]
      BY <1>2, <2>4, <2>5, <2>6
    <3>2. \A k, l \in 0 .. n - 2 : u(k) = u(l) => k = l
      BY <1>2
    <3> HIDE DEF u
    <3> QED BY <1>8, <3>1, <3>2
  <2>8. \A i \in 2 .. n - 1 : i \in 0 .. n - 1 /\ s[i] # b /\ s[i] # t /\ r.block[s[i]] = m.block[s[i]]
    <3>1. \A i \in 2 .. n - 1 : i \in 0 .. n - 1 /\ i # 0 /\ i # 1
      BY <1>2
    <3>2. \A i \in 2 .. n - 1 : s[i] # b /\ s[i] # t /\ s[i] \in Block
      BY <1>2, <1>8, <2>1, <2>2, <3>1
    <3> QED BY <1>4, <3>1, <3>2
  <2>9. \A i \in 0 .. n - 3 : r.block[z[i]].link = z[i + 1]
    <3> TAKE i \in 0 .. n - 3
    <3>1. i + 1 \in 1 .. n - 2 /\ z[i + 1] = s[i + 2]
      <4>1. i + 1 \in 1 .. n - 2 /\ i + 1 + 1 = i + 2
        BY <1>2
      <4> QED BY <2>5, <4>1
    <3>2. CASE i = 0
      <4>1. 1 \in 0 .. n - 2 /\ m.block[s[1]].link = s[2]
        BY <1>2, <1>8, <3>1
      <4> QED BY <1>2, <1>6, <2>2, <2>5, <3>1, <3>2, <4>1
    <3>3. CASE i \in 1 .. n - 3
      <4>1. i + 1 \in 2 .. n - 1 /\ i + 1 \in 0 .. n - 2 /\ i \in 1 .. n - 2 /\ i + 1 + 1 = i + 2
        BY <1>2, <3>3
      <4> QED BY <1>8, <2>5, <2>8, <3>1, <4>1
    <3> QED BY <1>2, <3>2, <3>3
  <2>10. r.block[z[n - 2]].link = m.block[s[n - 1]].link
    <3>1. CASE n = 2
      BY <1>2, <1>6, <2>2, <2>5, <3>1
    <3>2. CASE n > 2
      <4>1. n - 2 \in 1 .. n - 2 /\ n - 2 + 1 = n - 1 /\ n - 1 \in 2 .. n - 1
        BY <1>2, <3>2
      <4> QED BY <2>5, <2>8, <4>1
    <3> QED BY <1>2, <1>11, <3>1, <3>2
  <2>11. \A i \in 0 .. n - 2 :
           /\ ~r.block[z[i]].assigned /\ r.block[z[i]].age = 0 /\ r.block[z[i]].orphaned = 0
           /\ r.block[z[i]].corrupt => r.block[z[i]].link = Bad
    <3> TAKE i \in 0 .. n - 2
    <3>1. CASE i = 0
      <4>1. /\ ~m.block[t].corrupt /\ ~m.block[t].assigned /\ m.block[t].age = 0
            /\ m.block[t].orphaned = 0
        BY <1>2, <1>8
      <4>2. z[i] = t
        BY <1>2, <2>5, <3>1
      <4> QED BY <1>6, <2>2, <4>1, <4>2
    <3>2. CASE i # 0
      <4>1. i \in 1 .. n - 2 /\ i + 1 \in 2 .. n - 1 /\ i + 1 \in 0 .. n - 1
        BY <1>2, <2>6, <3>2
      <4>2. z[i] = s[i + 1] /\ r.block[s[i + 1]] = m.block[s[i + 1]]
        BY <2>5, <2>8, <4>1
      <4> QED BY <1>8, <4>1, <4>2
    <3> QED BY <3>1, <3>2
  <2>12. r.pool[p].tail = z[0]
    BY <1>2, <1>5, <2>2, <2>5
  <2>13. Ring(r, p, z, n - 1, 0)
    <3>1. n - 1 \in Nat /\ n - 1 - 1 = n - 2 /\ n - 1 - 2 = n - 3 /\ n - 1 # 0
      BY <1>2, <1>11
    <3> QED BY <1>7, <1>8, <2>5, <2>7, <2>9, <2>10, <2>11, <2>12, <3>1 DEF Ring
  <2>14. Counted(r, p, z, n - 1)
    <3>1. Sound(r, p, z, n - 1) => Sound(m, p, s, n)
      <4>1. n - 1 > 0 /\ n - 1 - 1 = n - 2
        BY <1>2, <1>11
      <4> QED BY <1>2, <2>5, <2>10, <4>1 DEF Sound
    <3> QED BY <1>2, <1>5, <1>9, <3>1 DEF Counted
  <2>15. On(z, n - 1) \subseteq On(s, n) \ {b}
    <3>1. n - 1 - 1 = n - 2
      BY <1>2
    <3>2. \A i \in 0 .. n - 2 : z[i] \in On(s, n) /\ z[i] # b
      BY <1>2, <2>2, <2>4, <2>5, <2>6, <2>8 DEF On
    <3> QED BY <3>1, <3>2 DEF On
  <2> QED BY <1>2, <1>5, <1>9, <2>2, <2>3, <2>12, <2>13, <2>14, <2>15
<1> QED BY <1>2, <1>10, <1>11

\* R is M after some blocks of S went to the queue of P, which was S[0] .. S[n - 1].
Refilled(m, p, s, n, S, r) ==
  /\ Frame(m, r, p) /\ r.pool[p].segs = m.pool[p].segs /\ r.pool[p].tail # Bad
  /\ \E z, k : /\ Ring(r, p, z, k, 0) /\ Counted(r, p, z, k)
               /\ On(z, k) \subseteq On(s, n) \cup S
               /\ Sound(m, p, s, n) => Sound(r, p, z, k)
  /\ \A x \in Block : x \notin On(s, n) \cup S => r.block[x] = m.block[x]

\* A block is refused when it is on the queue.
LEMMA RefillOne ==
  ASSUME NEW m \in Mem, NEW p \in Pools, NEW s, NEW n, NEW S \in SUBSET Blocks(m, p),
         NEW r, Refilled(m, p, s, n, S, r), NEW b \in S
  PROVE  /\ Refilled(m, p, s, n, S, Enqueue(r, b)) /\ Alters(r, Enqueue(r, b))
         /\ Refused(r.block[b]) \/ Idle(Enqueue(r, b).block[b])
<1> DEFINE q == Enqueue(r, b)
<1>1. /\ Frame(m, r, p) /\ r \in Mem /\ r.pool[p].segs = m.pool[p].segs /\ r.pool[p].tail # Bad
      /\ \A x \in Block : x \notin On(s, n) \cup S => r.block[x] = m.block[x]
  BY DEF Refilled, Frame
<1>2. PICK z, k : /\ Ring(r, p, z, k, 0) /\ Counted(r, p, z, k)
                  /\ On(z, k) \subseteq On(s, n) \cup S
                  /\ Sound(m, p, s, n) => Sound(r, p, z, k)
  BY DEF Refilled
<1>3. Blocks(r, p) = Blocks(m, p)
  BY <1>1 DEF Blocks
<1>4. CASE Refused(r.block[b])
  BY <1>4, AltersNone DEF Enqueue
<1>5. CASE ~Refused(r.block[b])
  <2>1. b \notin On(z, k)
    BY <1>2, <1>5 DEF Ring, On, Refused
  <2>2. /\ \E y, j : /\ Ring(q, p, y, j, 0) /\ Counted(q, p, y, j)
                     /\ On(y, j) \subseteq On(z, k) \cup {b}
                     /\ Sound(r, p, z, k) => Sound(q, p, y, j)
        /\ Frame(r, q, p) /\ q.pool[p].segs = r.pool[p].segs /\ q.pool[p].tail = b
        /\ Idle(q.block[b])
        /\ \A x \in Block : x \notin On(z, k) \cup {b} => q.block[x] = r.block[x]
    BY <1>1, <1>2, <1>3, <1>5, <2>1, EnqueueRing
  <2> HIDE DEF q
  <2>3. b \in Block /\ b # Bad
    BY BlocksAre, LinkAssumption
  <2>4. Frame(m, q, p)
    BY <1>1, <2>2, AltersTwice DEF Frame
  <2>5. \E y, j : /\ Ring(q, p, y, j, 0) /\ Counted(q, p, y, j)
                  /\ On(y, j) \subseteq On(s, n) \cup S
                  /\ Sound(m, p, s, n) => Sound(q, p, y, j)
    BY <1>2, <2>2
  <2>6. \A x \in Block : x \notin On(s, n) \cup S => q.block[x] = m.block[x]
    BY <1>1, <1>2, <2>2
  <2>7. Refilled(m, p, s, n, S, q)
    BY <1>1, <2>2, <2>3, <2>4, <2>5, <2>6 DEF Refilled
  <2>8. Alters(r, q)
    BY <2>2 DEF Frame
  <2> QED BY <2>2, <2>7, <2>8 DEF q
<1> QED BY <1>4, <1>5

\* The loop that returns blocks.
LEMMA EnqueueAllRing ==
  ASSUME NEW m \in Mem, NEW p \in Pools, NEW s, NEW n, NEW S \in SUBSET Blocks(m, p),
         Ring(m, p, s, n, 0), Counted(m, p, s, n), m.pool[p].tail # Bad
  PROVE  /\ Refilled(m, p, s, n, S, EnqueueAll(m, p, S))
         /\ \A b \in S : Refused(m.block[b]) \/ Idle(EnqueueAll(m, p, S).block[b])
<1> DEFINE D == {x \in Mem : Refilled(m, p, s, n, S, x)}
           F == [x \in Nat \X D |-> IF <<p, x[1]>> \in S THEN Enqueue(x[2], <<p, x[1]>>) ELSE x[2]]
           T == Total(m, p)
           Is(v) == v = [i \in 0 .. T |-> IF i = 0 THEN m
                                          ELSE IF <<p, i>> \in S THEN Enqueue(v[i - 1], <<p, i>>)
                                          ELSE v[i - 1]]
           done == CHOOSE v : Is(v)
<1>1. m \in D
  BY AltersNone DEF Refilled, Frame
<1>2. \A x \in D, b \in S : /\ Enqueue(x, b) \in D /\ Alters(m, x) /\ Alters(x, Enqueue(x, b))
                            /\ Refused(x.block[b]) \/ Idle(Enqueue(x, b).block[b])
  <2> TAKE x \in D, b \in S
  <2>1. /\ Refilled(m, p, s, n, S, Enqueue(x, b)) /\ Alters(x, Enqueue(x, b))
        /\ Refused(x.block[b]) \/ Idle(Enqueue(x, b).block[b])
    BY RefillOne
  <2>2. Enqueue(x, b) \in Mem
    BY <2>1 DEF Refilled, Frame
  <2>3. Alters(m, x)
    BY DEF Refilled, Frame
  <2> QED BY <2>1, <2>2, <2>3
<1>3. T \in Nat
  BY BlocksAre
<1> HIDE DEF D, T
<1>4. \A k \in Nat, x \in D : (IF <<p, k>> \in S THEN Enqueue(x, <<p, k>>) ELSE x) \in D
  <2>1. \A x \in D, b \in S : Enqueue(x, b) \in D
    BY <1>2
  <2> QED BY <2>1
<1>5. F \in [Nat \X D -> D] /\ \A k \in Nat, x \in D :
        F[<<k, x>>] = IF <<p, k>> \in S THEN Enqueue(x, <<p, k>>) ELSE x
  BY <1>4
<1> HIDE DEF F
<1>6. PICK v : /\ v \in [0 .. T -> D] /\ v[0] = m
               /\ \A k \in 1 .. T : v[k] = F[<<k, v[k - 1]>>]
  <2>1. F \in Steps(D)
    BY <1>5 DEF Steps
  <2>2. \E v : Iterates(D, m, F, T, v)
    BY <1>1, <1>3, <2>1, Recursion
  <2> QED BY <2>2 DEF Iterates
<1>7. Is(v)
  <2>1. \A k \in 1 .. T : k \in Nat /\ v[k - 1] \in D
    <3>1. \A k \in 1 .. T : k \in Nat /\ k - 1 \in 0 .. T
      BY <1>3
    <3> QED BY <1>6, <3>1
  <2>2. \A k \in 1 .. T : v[k] = IF <<p, k>> \in S THEN Enqueue(v[k - 1], <<p, k>>) ELSE v[k - 1]
    BY <1>5, <1>6, <2>1
  <2>3. \A k \in 0 .. T :
          v[k] = IF k = 0 THEN m
                 ELSE IF <<p, k>> \in S THEN Enqueue(v[k - 1], <<p, k>>) ELSE v[k - 1]
    <3>1. \A k \in 0 .. T : k = 0 \/ k \in 1 .. T
      BY <1>3
    <3> QED BY <1>6, <2>2, <3>1
  <2>4. v = [k \in 0 .. T |-> v[k]]
    BY <1>6
  <2> QED BY <2>3, <2>4
<1>8. Is(done)
  <2> HIDE DEF Is
  <2> QED BY <1>7
<1>9. EnqueueAll(m, p, S) = done[T]
  BY DEF EnqueueAll, T
<1> HIDE DEF done
<1> DEFINE Put(x, b) == Refused(m.block[b]) \/ Idle(x.block[b])
           Good(i) == done[i] \in D /\ \A j \in 1 .. i : <<p, j>> \in S => Put(done[i], <<p, j>>)
           G == {i \in Nat : i <= T => Good(i)}
<1>10. 0 \in G
  BY <1>1, <1>3, <1>8
<1>11. ASSUME NEW i \in Nat, i \in G PROVE i + 1 \in G
  <2> SUFFICES ASSUME i + 1 <= T PROVE Good(i + 1)
    BY <1>11
  <2>1. Good(i) /\ done[i] \in D /\ i + 1 \in 0 .. T /\ i + 1 # 0 /\ i + 1 - 1 = i
    BY <1>3, <1>11
  <2>2. done[i + 1] = IF <<p, i + 1>> \in S THEN Enqueue(done[i], <<p, i + 1>>) ELSE done[i]
    <3>1. \A k \in 0 .. T :
            done[k] = IF k = 0 THEN m
                      ELSE IF <<p, k>> \in S THEN Enqueue(done[k - 1], <<p, k>>) ELSE done[k - 1]
      BY <1>8, Zenon
    <3> HIDE DEF Is
    <3> QED BY <2>1, <3>1
  <2>3. (IF <<p, i + 1>> \in S THEN Enqueue(done[i], <<p, i + 1>>) ELSE done[i]) \in D
    BY <1>4, <2>1
  <2>4. CASE <<p, i + 1>> \notin S
    <3>1. done[i + 1] = done[i]
      BY <2>2, <2>4
    <3>2. \A j \in 1 .. i + 1 : j \in 1 .. i \/ j = i + 1
      OBVIOUS
    <3> HIDE DEF Put, done
    <3> QED BY <2>1, <2>4, <3>1, <3>2
  <2>5. CASE <<p, i + 1>> \in S
    <3> DEFINE b == <<p, i + 1>>
               x == done[i]
               y == done[i + 1]
    <3>1. y = Enqueue(x, b) /\ x \in D /\ y \in D /\ b \in S
      BY <2>1, <2>2, <2>3, <2>5
    <3> HIDE DEF b, x, y
    <3>2. Alters(m, x) /\ Alters(x, y) /\ (Refused(x.block[b]) \/ Idle(y.block[b]))
      BY <1>2, <3>1
    <3>3. \A c \in S : c \in Block
      BY BlocksAre
    <3>4. \A c \in S : Put(x, c) => Put(y, c)
      BY <3>2, <3>3 DEF Alters, Idle
    <3>5. Put(y, b)
      BY <3>1, <3>2, <3>3 DEF Alters, Idle
    <3>6. \A j \in 1 .. i + 1 : j \in 1 .. i \/ j = i + 1
      OBVIOUS
    <3> HIDE DEF Put
    <3> QED BY <2>1, <3>1, <3>4, <3>5, <3>6 DEF x, y, b
  <2> QED BY <2>4, <2>5
<1>12. T \in G
  <2> HIDE DEF G
  <2> QED BY <1>3, <1>10, <1>11, Induction
<1>13. Good(T)
  BY <1>3, <1>12
<1>14. \A b \in S : Put(done[T], b)
  <2> TAKE b \in S
  <2>1. b \in {p} \X (1 .. T)
    BY BlocksAre DEF T
  <2>2. b = <<p, b[2]>> /\ b[2] \in 1 .. T
    BY <2>1
  <2> HIDE DEF Put
  <2> QED BY <1>13, <2>2
<1> QED BY <1>9, <1>13, <1>14 DEF D

\* When there is nothing to return, nothing happens.
LEMMA EnqueueNone ==
  ASSUME NEW m \in Mem, NEW p \in Pools
  PROVE  EnqueueAll(m, p, {}) = m
<1> DEFINE T == Total(m, p)
           Is(v) == v = [i \in 0 .. T |-> IF i = 0 THEN m
                                          ELSE IF <<p, i>> \in {} THEN Enqueue(v[i - 1], <<p, i>>)
                                          ELSE v[i - 1]]
           done == CHOOSE v : Is(v)
           v == [i \in 0 .. T |-> m]
<1>1. T \in Nat
  BY BlocksAre
<1>2. EnqueueAll(m, p, {}) = done[T]
  BY DEF EnqueueAll
<1> HIDE DEF T
<1>3. Is(v)
  <2>1. v = [i \in 0 .. T |-> v[i]] /\ \A i \in 0 .. T : v[i] = m
    OBVIOUS
  <2>2. \A i \in 0 .. T : i # 0 => i - 1 \in 0 .. T
    BY <1>1
  <2> HIDE DEF v
  <2>3. \A i \in 0 .. T : v[i] = IF i = 0 THEN m
                                  ELSE IF <<p, i>> \in {} THEN Enqueue(v[i - 1], <<p, i>>)
                                  ELSE v[i - 1]
    BY <2>1, <2>2
  <2> QED BY <2>1, <2>3
<1>4. Is(done)
  <2> HIDE DEF Is
  <2> QED BY <1>3
<1> HIDE DEF done
<1>5. \A k \in 0 .. T : done[k] = IF k = 0 THEN m ELSE done[k - 1]
  BY <1>4
<1> HIDE DEF Is
<1> DEFINE G == {k \in Nat : k <= T => done[k] = m}
<1>6. 0 \in G
  BY <1>1, <1>5
<1>7. ASSUME NEW k \in Nat, k \in G PROVE k + 1 \in G
  <2> SUFFICES ASSUME k + 1 <= T PROVE done[k + 1] = m
    BY <1>7
  <2>1. done[k] = m /\ k + 1 \in 0 .. T /\ k + 1 # 0 /\ k + 1 - 1 = k
    BY <1>1, <1>7
  <2> QED BY <1>5, <2>1
<1>8. T \in G
  <2> HIDE DEF G
  <2> QED BY <1>1, <1>6, <1>7, Induction
<1> QED BY <1>1, <1>2, <1>8

\* The fields of a block that matter to a queue
SameItem(x, y) ==
  /\ x.link = y.link /\ x.assigned = y.assigned
  /\ x.orphaned = y.orphaned /\ x.age = y.age /\ x.corrupt = y.corrupt

\* and those of a pool.
SameHead(x, y) == x.tail = y.tail /\ x.avail = y.avail /\ x.badHead = y.badHead

\* A queue stays what it is as long as nothing happens to it.
LEMMA SameRing ==
  ASSUME NEW m \in Mem, NEW r \in Mem, NEW p \in Pools, NEW s, NEW n, NEW o,
         Ring(m, p, s, n, o), Blocks(m, p) \subseteq Blocks(r, p),
         SameHead(r.pool[p], m.pool[p]),
         \A b \in On(s, n) : SameItem(r.block[b], m.block[b])
  PROVE  /\ Ring(r, p, s, n, o)
         /\ Counted(m, p, s, n) => Counted(r, p, s, n)
         /\ Sound(m, p, s, n) => Sound(r, p, s, n)
<1>1. \A i \in 0 .. n - 1 : SameItem(r.block[s[i]], m.block[s[i]])
  BY DEF On
<1>2. n \in Nat /\ (n > 0 => n - 1 \in 0 .. n - 1) /\ \A i \in 0 .. n - 2 : i \in 0 .. n - 1
  BY DEF Ring
<1>3. s \in [0 .. n - 1 -> Blocks(r, p)]
  BY DEF Ring
<1>4. \A i \in 0 .. n - 2 : r.block[s[i]].link = s[i + 1]
  BY <1>1, <1>2 DEF Ring, SameItem
<1>5. n > 0 => r.block[s[n - 1]].link = m.block[s[n - 1]].link
  BY <1>1, <1>2 DEF SameItem
<1>6. \A i \in 0 .. n - 1 :
        /\ ~r.block[s[i]].assigned /\ r.block[s[i]].age = 0 /\ r.block[s[i]].orphaned = o
        /\ r.block[s[i]].corrupt => r.block[s[i]].link = Bad
  <2> TAKE i \in 0 .. n - 1
  <2>1. /\ ~m.block[s[i]].assigned /\ m.block[s[i]].age = 0 /\ m.block[s[i]].orphaned = o
        /\ m.block[s[i]].corrupt => m.block[s[i]].link = Bad
    BY DEF Ring
  <2>2. SameItem(r.block[s[i]], m.block[s[i]])
    BY <1>1
  <2> QED BY <2>1, <2>2 DEF SameItem
<1>7. Ring(r, p, s, n, o)
  BY <1>2, <1>3, <1>4, <1>5, <1>6 DEF Ring, SameHead
<1>8. Counted(m, p, s, n) => Counted(r, p, s, n)
  BY <1>5 DEF Counted, Sound, SameHead
<1>9. Sound(m, p, s, n) => Sound(r, p, s, n)
  BY <1>5 DEF Sound, SameHead
<1> QED BY <1>7, <1>8, <1>9

\* A pool with more segments has more blocks.
LEMMA BlocksGrow ==
  ASSUME NEW m \in Mem, NEW r \in Mem, NEW p \in Pools, m.pool[p].segs <= r.pool[p].segs
  PROVE  Blocks(m, p) \subseteq Blocks(r, p)
<1> DEFINE k == m.pool[p].segs
           l == r.pool[p].segs
<1>1. k \in Nat /\ l \in Nat /\ k <= l /\ PerSegment \in Nat /\ MaxSegments \in Nat
  BY PoolAssumption DEF Mem, PoolRecord
<1>2. Total(m, p) = k * PerSegment /\ Total(r, p) = l * PerSegment
  BY DEF Total
<1>3. /\ Total(m, p) \in Nat /\ Blocks(m, p) = {p} \X (1 .. Total(m, p))
      /\ Total(r, p) \in Nat /\ Blocks(r, p) = {p} \X (1 .. Total(r, p))
  BY BlocksAre
<1> HIDE DEF k, l
<1>4. Total(m, p) <= Total(r, p)
  <2>1. \A a, b, c \in Nat : a <= b => a * c <= b * c
    OBVIOUS
  <2> QED BY <1>1, <1>2, <2>1
<1>5. 1 .. Total(m, p) \subseteq 1 .. Total(r, p)
  BY <1>3, <1>4
<1> QED BY <1>3, <1>5

\* Memories with another pool and with other blocks.
WithPool(m, p, x) == [m EXCEPT !.pool[p] = x]
WithBlocks(m, f) == [m EXCEPT !.block = f]

\* A pool that is changed,
LEMMA PoolChanged ==
  ASSUME NEW m \in Mem, NEW p \in Pools, NEW x \in PoolRecord,
         NEW r, r = WithPool(m, p, x)
  PROVE  /\ r \in Mem /\ r.pool[p] = x /\ r.block = m.block
         /\ \A y \in Pools : y # p => r.pool[y] = m.pool[y]
<1> DEFINE f == [m.pool EXCEPT ![p] = x]
<1>1. /\ m.pool \in [Pools -> PoolRecord] /\ m.block \in [Block -> BlockRecord]
      /\ m = [pool |-> m.pool, block |-> m.block]
  BY DEF Mem
<1>2. r = [m EXCEPT !.pool = f]
  BY DEF WithPool
<1>3. f \in [Pools -> PoolRecord] /\ f[p] = x /\ \A y \in Pools : y # p => f[y] = m.pool[y]
  BY <1>1, Update
<1> HIDE DEF f
<1>4. r = [pool |-> f, block |-> m.block]
  BY <1>1, <1>2
<1>5. r \in Mem
  BY <1>1, <1>3, <1>4, Memories
<1> QED BY <1>3, <1>4, <1>5

\* and all blocks.
LEMMA BlocksChanged ==
  ASSUME NEW m \in Mem, NEW f \in [Block -> BlockRecord], NEW r, r = WithBlocks(m, f)
  PROVE  r \in Mem /\ r.pool = m.pool /\ r.block = f
<1>1. /\ m.pool \in [Pools -> PoolRecord] /\ m = [pool |-> m.pool, block |-> m.block]
  BY DEF Mem
<1>2. r = [pool |-> m.pool, block |-> f]
  BY <1>1 DEF WithBlocks
<1>3. r \in Mem
  BY <1>1, <1>2, Memories
<1> QED BY <1>2, <1>3

\* A pool got more blocks: those that had been there are on its queue only if they were.
Grown(m, r, p, s, n) ==
  /\ r \in Mem /\ m.pool[p].segs <= r.pool[p].segs /\ r.pool[p].tail # Bad
  /\ \A x \in Pools : x # p => r.pool[x] = m.pool[x]
  /\ \A b \in Block : b[1] # p => r.block[b] = m.block[b]
  /\ \A b \in Block : r.block[b].assigned => m.block[b].assigned
  /\ Alters(m, r)
  /\ \E z, k : /\ Ring(r, p, z, k, 0) /\ Counted(r, p, z, k)
               /\ On(z, k) \cap Blocks(m, p) \subseteq On(s, n)
               /\ Sound(m, p, s, n) => Sound(r, p, z, k)

\* A block is in a legal state as soon as its segment exists.
LEMMA NewBlockType == NewBlock \in BlockRecord
BY DEF NewBlock, BlockRecord, Links, OrphanThreshold

\* A segment is added.
LEMMA AllocRing ==
  ASSUME NEW m \in Mem, NEW p \in Pools, NEW s, NEW n,
         Ring(m, p, s, n, 0), Counted(m, p, s, n), m.pool[p].tail # Bad,
         m.pool[p].segs < MaxSegments, NEW r, r = AllocBlocks(m, p)
  PROVE  /\ Grown(m, r, p, s, n)
         /\ r.pool[p].segs = m.pool[p].segs + 1 /\ r.pool[p].delta = m.pool[p].delta
<1> DEFINE y == [m.pool[p] EXCEPT !.segs = @ + 1]
           more == WithPool(m, p, y)
           new == Blocks(more, p) \ Blocks(m, p)
           init == [b \in Block |-> IF b \in new THEN NewBlock ELSE m.block[b]]
           x == WithBlocks(more, init)
<1>1. m.pool[p] \in PoolRecord /\ m.block \in [Block -> BlockRecord]
  BY DEF Mem
<1>2. /\ y \in PoolRecord /\ y.segs = m.pool[p].segs + 1 /\ SameHead(y, m.pool[p])
      /\ y.delta = m.pool[p].delta
  BY <1>1, PoolAssumption DEF PoolRecord, SameHead
<1>3. r = EnqueueAll(x, p, new)
  <2>1. [m EXCEPT !.pool[p].segs = @ + 1] = more
    BY DEF WithPool
  <2> HIDE DEF more
  <2> QED BY <2>1 DEF AllocBlocks, WithBlocks
<1> HIDE DEF y
<1>4. /\ more \in Mem /\ more.pool[p] = y /\ more.block = m.block
      /\ \A q \in Pools : q # p => more.pool[q] = m.pool[q]
  BY <1>2, PoolChanged
<1> HIDE DEF more
<1>5. init \in [Block -> BlockRecord]
  BY <1>1, NewBlockType
<1>6. x \in Mem /\ x.pool = more.pool /\ x.block = init
  <2> HIDE DEF init
  <2> QED BY <1>4, <1>5, BlocksChanged
<1> HIDE DEF x
<1>7. Blocks(x, p) = Blocks(more, p)
  BY <1>6 DEF Blocks
<1>8. Blocks(m, p) \subseteq Blocks(x, p)
  <2>1. m.pool[p].segs \in Int
    BY <1>1 DEF PoolRecord
  <2> QED BY <1>2, <1>4, <1>6, <2>1, BlocksGrow
<1>9. /\ \A b \in Blocks(m, p) : b \in Block /\ init[b] = m.block[b]
      /\ \A b \in Block : b[1] # p => init[b] = m.block[b]
      /\ \A b \in Block : init[b].assigned => m.block[b].assigned
  <2>1. /\ \A b \in new : b[1] = p
        /\ \A b \in Blocks(m, p) : b \in Block
    BY <1>4, BlocksAre
  <2>2. ~NewBlock.assigned
    BY DEF NewBlock
  <2> HIDE DEF new
  <2>3. \A b \in Block : init[b] = IF b \in new THEN NewBlock ELSE m.block[b]
    OBVIOUS
  <2>4. \A b \in Blocks(m, p) : b \notin new
    BY DEF new
  <2> HIDE DEF init
  <2> QED BY <2>1, <2>2, <2>3, <2>4
<1>10. \A b \in On(s, n) : b \in Blocks(m, p)
  BY RingBlocks DEF On
<1>11. /\ Ring(x, p, s, n, 0) /\ Counted(x, p, s, n)
       /\ Sound(m, p, s, n) => Sound(x, p, s, n)
  <2>1. \A b \in On(s, n) : SameItem(x.block[b], m.block[b])
    BY <1>6, <1>9, <1>10 DEF SameItem
  <2>2. SameHead(x.pool[p], m.pool[p])
    BY <1>2, <1>4, <1>6
  <2> QED BY <1>6, <1>8, <2>1, <2>2, SameRing
<1>12. x.pool[p].tail # Bad
  BY <1>2, <1>4, <1>6 DEF SameHead
<1>13. new \in SUBSET Blocks(x, p)
  BY <1>7
<1>14. Refilled(x, p, s, n, new, r)
  <2> HIDE DEF new
  <2> QED BY <1>3, <1>6, <1>11, <1>12, <1>13, EnqueueAllRing
<1>15. /\ Frame(x, r, p) /\ r.pool[p].segs = x.pool[p].segs /\ r.pool[p].tail # Bad
       /\ \E z, k : /\ Ring(r, p, z, k, 0) /\ Counted(r, p, z, k)
                    /\ On(z, k) \subseteq On(s, n) \cup new
                    /\ Sound(x, p, s, n) => Sound(r, p, z, k)
  BY <1>14 DEF Refilled
<1>16. new \cap Blocks(m, p) = {}
  OBVIOUS
<1> HIDE DEF new, init
<1>17. \E z, k : /\ Ring(r, p, z, k, 0) /\ Counted(r, p, z, k)
                 /\ On(z, k) \cap Blocks(m, p) \subseteq On(s, n)
                 /\ Sound(m, p, s, n) => Sound(r, p, z, k)
  BY <1>11, <1>15, <1>16
<1>18. r.pool[p].segs = m.pool[p].segs + 1 /\ r.pool[p].delta = m.pool[p].delta
  BY <1>2, <1>4, <1>6, <1>15 DEF Frame
<1>19. m.pool[p].segs \in Int
  BY <1>1 DEF PoolRecord
<1>20. /\ r \in Mem /\ m.pool[p].segs <= r.pool[p].segs /\ r.pool[p].tail # Bad
       /\ \A q \in Pools : q # p => r.pool[q] = m.pool[q]
       /\ \A b \in Block : b[1] # p => r.block[b] = m.block[b]
       /\ \A b \in Block : r.block[b].assigned => m.block[b].assigned
  BY <1>4, <1>6, <1>9, <1>15, <1>18, <1>19 DEF Frame
<1>21. Alters(m, r)
  <2>1. Alters(m, x)
    <3>1. \A b \in Block : init[b] = m.block[b] \/ Idle(init[b])
      <4>1. Idle(NewBlock)
        BY DEF NewBlock, Idle
      <4> QED BY <4>1 DEF init
    <3>2. \A b \in Block : init[b].link # m.block[b].link => init[b].link = Nil
      <4>1. NewBlock.link = Nil
        BY DEF NewBlock
      <4> QED BY <4>1 DEF init
    <3>3. ASSUME NoBad(m) PROVE NoBad(x)
      BY <1>2, <1>4, <1>6, <3>2, <3>3, LinkAssumption DEF NoBad, SameHead
    <3>4. \A q \in Pools : Blocks(m, q) \subseteq Blocks(x, q)
      BY <1>4, <1>6, <1>8, SameBlocks
    <3> QED BY <1>6, <3>1, <3>3, <3>4 DEF Alters
  <2> QED BY <1>15, <2>1, AltersTwice DEF Frame
<1> QED BY <1>17, <1>18, <1>20, <1>21 DEF Grown

\* The count of blocks taken or returned since the last call to UpdateAlarm is in range.
Delta == 1 - DeltaLimit .. DeltaLimit - 1

WithDelta(x, d) == [x EXCEPT !.delta = d]

\* A change of DELTA_ does not matter to the queue.
LEMMA DeltaRing ==
  ASSUME NEW m \in Mem, NEW p \in Pools, NEW s, NEW n,
         Ring(m, p, s, n, 0), Counted(m, p, s, n), m.pool[p].tail # Bad,
         NEW d \in Int, NEW x, x = WithPool(m, p, WithDelta(m.pool[p], d))
  PROVE  /\ Ring(x, p, s, n, 0) /\ Counted(x, p, s, n) /\ x \in Mem
         /\ x.pool[p].segs = m.pool[p].segs /\ x.pool[p].tail = m.pool[p].tail
         /\ x.pool[p].avail = m.pool[p].avail
         /\ x.pool[p].delta = d /\ Blocks(x, p) = Blocks(m, p) /\ x.block = m.block
         /\ \A y \in Pools : y # p => x.pool[y] = m.pool[y]
         /\ Grown(m, x, p, s, n)
         /\ \A r : Grown(x, r, p, s, n) => Grown(m, r, p, s, n)
<1> DEFINE f == WithDelta(m.pool[p], d)
<1>1. m.pool[p] \in PoolRecord
  BY DEF Mem
<1>2. /\ f \in PoolRecord /\ f.delta = d /\ f.segs = m.pool[p].segs
      /\ SameHead(f, m.pool[p])
  BY <1>1 DEF PoolRecord, SameHead, WithDelta
<1>3. x = WithPool(m, p, f)
  OBVIOUS
<1> HIDE DEF f
<1>4. /\ x \in Mem /\ x.pool[p] = f /\ x.block = m.block
      /\ \A y \in Pools : y # p => x.pool[y] = m.pool[y]
  BY <1>2, <1>3, PoolChanged
<1>5. Blocks(x, p) = Blocks(m, p)
  BY <1>2, <1>4 DEF Blocks
<1>6. /\ Ring(x, p, s, n, 0) /\ Counted(x, p, s, n)
      /\ Sound(m, p, s, n) <=> Sound(x, p, s, n)
  <2>1. /\ Ring(x, p, s, n, 0) /\ Counted(x, p, s, n)
        /\ Sound(m, p, s, n) => Sound(x, p, s, n)
    BY <1>2, <1>4, <1>5, SameRing DEF SameItem
  <2>2. Sound(x, p, s, n) => Sound(m, p, s, n)
    BY <1>2, <1>4 DEF Sound, SameHead
  <2> QED BY <2>1, <2>2
<1>7. x.pool[p].tail = m.pool[p].tail /\ x.pool[p].avail = m.pool[p].avail
  BY <1>2, <1>4 DEF SameHead
<1>8. Grown(m, x, p, s, n)
  <2>1. m.pool[p].segs \in Int
    BY <1>1 DEF PoolRecord
  <2>2. \E z, k : /\ Ring(x, p, z, k, 0) /\ Counted(x, p, z, k)
                  /\ On(z, k) \cap Blocks(m, p) \subseteq On(s, n)
                  /\ Sound(m, p, s, n) => Sound(x, p, z, k)
    BY <1>6
  <2>3. Alters(m, x)
    <3>1. \A y \in Pools : Blocks(m, y) \subseteq Blocks(x, y)
      BY <1>4, <1>5, SameBlocks
    <3> QED BY <1>2, <1>4, <3>1 DEF Alters, NoBad, SameHead
  <2> QED BY <1>2, <1>4, <1>7, <2>1, <2>2, <2>3 DEF Grown
<1>9. \A r : Grown(x, r, p, s, n) => Grown(m, r, p, s, n)
  <2> SUFFICES ASSUME NEW r, Grown(x, r, p, s, n) PROVE Grown(m, r, p, s, n)
    OBVIOUS
  <2>1. Alters(m, r)
    BY <1>8, AltersTwice DEF Grown
  <2> QED BY <1>2, <1>4, <1>5, <1>6, <2>1 DEF Grown
<1> QED BY <1>2, <1>4, <1>5, <1>6, <1>7, <1>8, <1>9

\* The pool is expanded if need be.
LEMMA UpdateAlarmRing ==
  ASSUME NEW m \in Mem, NEW p \in Pools, NEW s, NEW n,
         Ring(m, p, s, n, 0), Counted(m, p, s, n), m.pool[p].tail # Bad,
         NEW r, r = UpdateAlarm(m, p)
  PROVE  Grown(m, r, p, s, n) /\ r.pool[p].delta = 0
<1> DEFINE x == WithPool(m, p, WithDelta(m.pool[p], 0))
<1>1. [m EXCEPT !.pool[p].delta = 0] = x
  BY DEF WithPool, WithDelta
<1>2. /\ Ring(x, p, s, n, 0) /\ Counted(x, p, s, n) /\ x \in Mem
      /\ x.pool[p].segs = m.pool[p].segs /\ x.pool[p].tail = m.pool[p].tail
      /\ x.pool[p].delta = 0
      /\ Grown(m, x, p, s, n)
      /\ \A y : Grown(x, y, p, s, n) => Grown(m, y, p, s, n)
  BY DeltaRing
<1> HIDE DEF x
<1>3. r = IF /\ m.pool[p].avail <= Total(m, p) \div 64
             /\ m.pool[p].segs < MaxSegments
          THEN AllocBlocks(x, p) ELSE x
  BY <1>1 DEF UpdateAlarm
<1>4. CASE r = x
  BY <1>2, <1>4
<1>5. CASE m.pool[p].segs < MaxSegments /\ r = AllocBlocks(x, p)
  BY <1>2, <1>5, AllocRing
<1> QED BY <1>3, <1>4, <1>5

\* A block taken or returned is counted.
LEMMA CountDeltaRing ==
  ASSUME NEW m \in Mem, NEW p \in Pools, NEW s, NEW n,
         Ring(m, p, s, n, 0), Counted(m, p, s, n), m.pool[p].tail # Bad,
         m.pool[p].delta \in Delta, NEW d \in {1, -1}, NEW r, r = CountDelta(m, p, d)
  PROVE  Grown(m, r, p, s, n) /\ r.pool[p].delta \in Delta
<1> DEFINE e == m.pool[p].delta + d
           x == WithPool(m, p, WithDelta(m.pool[p], e))
<1>1. DeltaLimit \in Nat /\ DeltaLimit > 0 /\ e \in Int
  BY PoolAssumption DEF Delta
<1>2. [m EXCEPT !.pool[p].delta = @ + d] = x
  BY DEF WithPool, WithDelta
<1>3. r = IF (IF d > 0 THEN x.pool[p].delta >= DeltaLimit
                       ELSE x.pool[p].delta <= -DeltaLimit)
          THEN UpdateAlarm(x, p) ELSE x
  <2> HIDE DEF x
  <2> QED BY <1>2 DEF CountDelta
<1> HIDE DEF e
<1>4. /\ Ring(x, p, s, n, 0) /\ Counted(x, p, s, n) /\ x \in Mem
      /\ x.pool[p].tail = m.pool[p].tail /\ x.pool[p].delta = e
      /\ Grown(m, x, p, s, n)
      /\ \A y : Grown(x, y, p, s, n) => Grown(m, y, p, s, n)
  BY <1>1, DeltaRing
<1> HIDE DEF x
<1>5. CASE r = UpdateAlarm(x, p)
  <2>1. Grown(x, r, p, s, n) /\ r.pool[p].delta = 0
    BY <1>4, <1>5, UpdateAlarmRing
  <2> QED BY <1>1, <1>4, <2>1 DEF Delta
<1>6. CASE r = x /\ ~(IF d > 0 THEN x.pool[p].delta >= DeltaLimit
                              ELSE x.pool[p].delta <= -DeltaLimit)
  <2>1. e \in Delta
    BY <1>1, <1>4, <1>6 DEF Delta, e
  <2> QED BY <1>4, <1>6, <2>1
<1> QED BY <1>3, <1>5, <1>6

\* The links of a queue, followed from its tail.
Follows(m, p, v) ==
  /\ v \in [0 .. Total(m, p) -> Links]
  /\ v[0] = m.pool[p].tail
  /\ \A k \in 1 .. Total(m, p) :
       v[k] = IF v[k - 1] \in Block THEN m.block[v[k - 1]].link ELSE v[k - 1]

\* The traversal of a queue follows its links.
LEMMA VisitIs ==
  ASSUME NEW m \in Mem, NEW p \in Pools
  PROVE  Follows(m, p, Visit(m, p))
<1> DEFINE T == Total(m, p)
           a == m.pool[p].tail
           F == [x \in Nat \X Links |-> IF x[2] \in Block THEN m.block[x[2]].link ELSE x[2]]
           Is(v) == v = [k \in 0 .. T |-> IF k = 0 THEN a
                                          ELSE IF v[k - 1] \in Block THEN m.block[v[k - 1]].link
                                          ELSE v[k - 1]]
           V == CHOOSE v : Is(v)
<1>1. Visit(m, p) = V
  BY DEF Visit
<1>2. T \in Nat /\ a \in Links
  BY BlocksAre DEF Mem, PoolRecord
<1> HIDE DEF T, a
<1>3. \A x \in Links : (IF x \in Block THEN m.block[x].link ELSE x) \in Links
  BY DEF Mem, BlockRecord
<1>4. F \in Steps(Links) /\ \A k \in Nat, x \in Links :
        F[<<k, x>>] = IF x \in Block THEN m.block[x].link ELSE x
  BY <1>3 DEF Steps
<1> HIDE DEF F
<1>5. \E v : Iterates(Links, a, F, T, v)
  BY <1>2, <1>4, Recursion
<1>6. PICK v : /\ v \in [0 .. T -> Links] /\ v[0] = a
               /\ \A k \in 1 .. T : v[k] = F[<<k, v[k - 1]>>]
  BY <1>5 DEF Iterates
<1>7. Is(v)
  <2>1. \A k \in 1 .. T : k \in Nat /\ v[k - 1] \in Links
    <3>1. \A k \in 1 .. T : k \in Nat /\ k - 1 \in 0 .. T
      BY <1>2
    <3> QED BY <1>6, <3>1
  <2>2. \A k \in 1 .. T : v[k] = IF v[k - 1] \in Block THEN m.block[v[k - 1]].link ELSE v[k - 1]
    BY <1>4, <1>6, <2>1
  <2>3. \A k \in 0 .. T :
          v[k] = IF k = 0 THEN a
                 ELSE IF v[k - 1] \in Block THEN m.block[v[k - 1]].link ELSE v[k - 1]
    <3>1. \A k \in 0 .. T : k = 0 \/ k \in 1 .. T
      BY <1>2
    <3> QED BY <1>6, <2>2, <3>1
  <2>4. v = [k \in 0 .. T |-> v[k]]
    BY <1>6
  <2> QED BY <2>3, <2>4
<1>8. Is(V)
  <2> HIDE DEF Is
  <2> QED BY <1>7
<1> HIDE DEF V
<1>9. \A k \in 0 .. T :
        V[k] = IF k = 0 THEN a
               ELSE IF V[k - 1] \in Block THEN m.block[V[k - 1]].link ELSE V[k - 1]
  BY <1>8, Zenon
<1>10. V = [k \in 0 .. T |-> V[k]]
  <2> HIDE DEF Is
  <2>1. \A x : Is(x) => x = [k \in 0 .. T |-> x[k]]
    BY DEF Is
  <2> QED BY <1>8, <2>1
<1> HIDE DEF Is
<1> DEFINE G == {k \in Nat : k <= T => V[k] \in Links}
<1>11. 0 \in G
  BY <1>2, <1>9
<1>12. ASSUME NEW k \in Nat, k \in G PROVE k + 1 \in G
  <2> SUFFICES ASSUME k + 1 <= T PROVE V[k + 1] \in Links
    BY <1>12
  <2>1. V[k] \in Links /\ k + 1 \in 0 .. T /\ k + 1 # 0 /\ k + 1 - 1 = k
    BY <1>2, <1>12
  <2> QED BY <1>3, <1>9, <2>1
<1>13. Nat \subseteq G
  <2> HIDE DEF G
  <2> QED BY <1>11, <1>12, Induction
<1>14. \A k \in 0 .. T : V[k] \in Links
  BY <1>2, <1>13
<1>15. V \in [0 .. T -> Links]
  BY <1>10, <1>14
<1>16. /\ V[0] = a
       /\ \A k \in 1 .. T : V[k] = IF V[k - 1] \in Block THEN m.block[V[k - 1]].link ELSE V[k - 1]
  <2>1. 0 \in 0 .. T /\ \A k \in 1 .. T : k \in 0 .. T /\ k # 0
    BY <1>2
  <2> QED BY <1>9, <2>1
<1> QED BY <1>1, <1>15, <1>16 DEF Follows, T, a

\* A queue has no more items than the pool has blocks.
LEMMA RingIsShort ==
  ASSUME NEW m \in Mem, NEW p \in Pools, NEW s, NEW n, NEW o, Ring(m, p, s, n, o)
  PROVE  /\ n <= Total(m, p) /\ IsFiniteSet(On(s, n)) /\ Cardinality(On(s, n)) = n
<1> DEFINE I == 0 .. n - 1
           B == Blocks(m, p)
           T == Total(m, p)
           S == On(s, n)
<1>1. /\ n \in Nat /\ T \in Nat /\ B = {p} \X (1 .. T)
      /\ s \in [I -> B] /\ \A i, j \in I : s[i] = s[j] => i = j
  BY BlocksAre DEF Ring
<1>2. IsFiniteSet(I) /\ Cardinality(I) = n
  <2>1. 0 \in Int /\ n - 1 \in Int /\ (IF 0 > n - 1 THEN 0 ELSE n - 1 - 0 + 1) = n
    BY <1>1
  <2> QED BY <2>1, FS_Interval
<1>3. IsFiniteSet(1 .. T) /\ Cardinality(1 .. T) = T
  <2>1. 1 \in Int /\ T \in Int /\ (IF 1 > T THEN 0 ELSE T - 1 + 1) = T
    BY <1>1
  <2> QED BY <2>1, FS_Interval
<1> HIDE DEF I, T
<1> DEFINE f == [i \in I |-> s[i][2]]
<1>4. f \in Injection(I, 1 .. T)
  <2>1. \A i \in I : s[i] = <<p, s[i][2]>> /\ s[i][2] \in 1 .. T
    BY <1>1
  <2>2. f \in [I -> 1 .. T]
    BY <2>1
  <2>3. \A i, j \in I : f[i] = f[j] => i = j
    BY <1>1, <2>1
  <2> HIDE DEF f
  <2> QED BY <2>2, <2>3 DEF Injection, IsInjective
<1>5. n <= T
  <2> HIDE DEF f
  <2> QED BY <1>2, <1>3, <1>4, FS_Injection
<1>6. s \in Bijection(I, S)
  BY <1>1 DEF Bijection, Injection, Surjection, IsInjective, On, I
<1>7. IsFiniteSet(S) /\ Cardinality(S) = n
  <2> HIDE DEF S
  <2>1. ExistsBijection(I, S)
    BY <1>6 DEF ExistsBijection
  <2> QED BY <1>2, <2>1, FS_Bijection
<1> QED BY <1>5, <1>7 DEF T

\* What is visited from the tail: the queue first, then what its last link leads to.
Visits(m, p, s, n, v) ==
  /\ n \in 0 .. Total(m, p) /\ Total(m, p) \in Nat
  /\ v \in [0 .. Total(m, p) -> Links]
  /\ \A k \in 0 .. n - 1 : v[k] = s[k]
  /\ v[n] = IF n = 0 THEN m.pool[p].tail ELSE m.block[s[n - 1]].link
  /\ \A k \in 0 .. Total(m, p) : v[k] \in On(s, n) \cup {Nil, Bad}
  /\ Sound(m, p, s, n) <=> \A k \in 0 .. Total(m, p) : v[k] # Bad

\* It passes all blocks of a ring.
LEMMA VisitRing ==
  ASSUME NEW m \in Mem, NEW p \in Pools, NEW s, NEW n, NEW o, Ring(m, p, s, n, o)
  PROVE  Visits(m, p, s, n, Visit(m, p))
<1> DEFINE v == Visit(m, p)
           T == Total(m, p)
           t == m.pool[p].tail
           S == On(s, n)
           link(x) == m.block[x].link
<1>1. /\ v \in [0 .. T -> Links] /\ v[0] = t
      /\ \A k \in 1 .. T : v[k] = IF v[k - 1] \in Block THEN link(v[k - 1]) ELSE v[k - 1]
  BY VisitIs DEF Follows
<1>2. T \in Nat /\ n \in Nat /\ n <= T
  <2>1. T \in Nat
    BY BlocksAre
  <2>2. n \in Nat
    BY DEF Ring
  <2>3. n <= T
    BY RingIsShort
  <2> QED BY <2>1, <2>2, <2>3
<1>3. /\ Bad \notin Block /\ Nil \notin Block /\ Nil # Bad
      /\ \A i \in 0 .. n - 1 : s[i] \in Block
      /\ n > 0 => 0 \in 0 .. n - 1 /\ n - 1 \in 0 .. n - 1 /\ t = s[0]
      /\ n = 0 => t \in {Nil, Bad}
  BY RingBlocks
<1>4. /\ \A i \in 0 .. n - 2 : link(s[i]) = s[i + 1]
      /\ n > 0 => link(s[n - 1]) \in {s[0], Bad}
  BY DEF Ring
<1>5. \A x \in S : x \in Block
  BY <1>3 DEF On
<1>6. \A x \in S : link(x) \in S \cup {Bad}
  <2> SUFFICES ASSUME NEW i \in 0 .. n - 1 PROVE link(s[i]) \in S \cup {Bad}
    BY DEF On
  <2>1. CASE i = n - 1
    BY <1>2, <1>3, <1>4, <2>1 DEF On
  <2>2. CASE i \in 0 .. n - 2
    <3>1. i + 1 \in 0 .. n - 1
      BY <1>2, <2>2
    <3> QED BY <1>4, <2>2, <3>1 DEF On
  <2> QED BY <1>2, <2>1, <2>2
<1>7. Sound(m, p, s, n) => \A x \in S : link(x) \in S
  <2> SUFFICES ASSUME Sound(m, p, s, n), NEW i \in 0 .. n - 1 PROVE link(s[i]) \in S
    BY DEF On
  <2>1. CASE i = n - 1
    BY <1>2, <1>3, <2>1 DEF On, Sound
  <2>2. CASE i \in 0 .. n - 2
    <3>1. i + 1 \in 0 .. n - 1
      BY <1>2, <2>2
    <3> QED BY <1>4, <2>2, <3>1 DEF On
  <2> QED BY <1>2, <2>1, <2>2
<1>8. t \in S \cup {Nil, Bad} /\ (Sound(m, p, s, n) => t # Bad)
  BY <1>2, <1>3 DEF On, Sound
<1> HIDE DEF v, T, S, link, t
<1>9. ASSUME NEW k \in Nat, k + 1 <= T
      PROVE  /\ v[k + 1] = IF v[k] \in Block THEN link(v[k]) ELSE v[k]
             /\ k \in 0 .. T /\ k + 1 \in 0 .. T
  <2>1. k + 1 \in 1 .. T /\ k + 1 - 1 = k
    BY <1>2, <1>9
  <2>2. v[k + 1] = IF v[k + 1 - 1] \in Block THEN link(v[k + 1 - 1]) ELSE v[k + 1 - 1]
    BY <1>1, <2>1
  <2> QED BY <1>2, <1>9, <2>1, <2>2
<1>10. \A k \in 0 .. n - 1 : v[k] = s[k]
  <2> DEFINE G == {k \in Nat : k <= n - 1 => v[k] = s[k]}
  <2>1. 0 \in G
    BY <1>1, <1>2, <1>3
  <2>2. ASSUME NEW k \in Nat, k \in G PROVE k + 1 \in G
    <3> SUFFICES ASSUME k + 1 <= n - 1 PROVE v[k + 1] = s[k + 1]
      BY <2>2
    <3>1. k \in 0 .. n - 1 /\ k \in 0 .. n - 2 /\ k + 1 <= T /\ v[k] = s[k]
      BY <1>2, <2>2
    <3>2. v[k + 1] = link(s[k])
      BY <1>3, <1>9, <3>1
    <3> QED BY <1>4, <3>1, <3>2
  <2>3. Nat \subseteq G
    <3> HIDE DEF G
    <3> QED BY <2>1, <2>2, Induction
  <2> QED BY <1>2, <2>3
<1>11. v[n] = IF n = 0 THEN t ELSE link(s[n - 1])
  <2>1. CASE n = 0
    BY <1>1, <2>1
  <2>2. CASE n > 0
    <3>1. n - 1 \in Nat /\ n - 1 + 1 = n /\ n - 1 \in 0 .. n - 1
      BY <1>2, <2>2
    <3>2. v[n - 1 + 1] = link(v[n - 1])
      BY <1>2, <1>3, <1>9, <1>10, <3>1
    <3> QED BY <1>10, <2>2, <3>1, <3>2
  <2> QED BY <1>2, <2>1, <2>2
<1>12. \A k \in 0 .. T : v[k] \in S \cup {Nil, Bad}
  <2> DEFINE G == {k \in Nat : k <= T => v[k] \in S \cup {Nil, Bad}}
  <2>1. 0 \in G
    BY <1>1, <1>8
  <2>2. ASSUME NEW k \in Nat, k \in G PROVE k + 1 \in G
    <3> SUFFICES ASSUME k + 1 <= T PROVE v[k + 1] \in S \cup {Nil, Bad}
      BY <2>2
    <3>1. k <= T /\ v[k] \in S \cup {Nil, Bad}
      BY <1>2, <2>2
    <3> QED BY <1>3, <1>5, <1>6, <1>9, <3>1
  <2>3. Nat \subseteq G
    <3> HIDE DEF G
    <3> QED BY <2>1, <2>2, Induction
  <2> QED BY <1>2, <2>3
<1>13. ASSUME Sound(m, p, s, n) PROVE \A k \in 0 .. T : v[k] # Bad
  <2> DEFINE G == {k \in Nat : k <= T => v[k] \in S \cup {Nil}}
  <2>1. 0 \in G
    BY <1>1, <1>8, <1>13
  <2>2. ASSUME NEW k \in Nat, k \in G PROVE k + 1 \in G
    <3> SUFFICES ASSUME k + 1 <= T PROVE v[k + 1] \in S \cup {Nil}
      BY <2>2
    <3>1. k <= T /\ v[k] \in S \cup {Nil}
      BY <1>2, <2>2
    <3> QED BY <1>3, <1>5, <1>7, <1>9, <1>13, <3>1
  <2>3. Nat \subseteq G
    <3> HIDE DEF G
    <3> QED BY <2>1, <2>2, Induction
  <2> QED BY <1>2, <1>3, <1>5, <2>3
<1>14. ASSUME ~Sound(m, p, s, n) PROVE \E k \in 0 .. T : v[k] = Bad
  <2>1. CASE t = Bad
    BY <1>1, <1>2, <2>1
  <2>2. CASE t # Bad
    <3>1. n > 0 /\ link(s[n - 1]) = Bad
      BY <1>3, <1>4, <1>14, <2>2 DEF Sound, t, link
    <3> QED BY <1>2, <1>11, <3>1
  <2> QED BY <2>1, <2>2
<1>15. n \in 0 .. T
  BY <1>2
<1> QED BY <1>1, <1>2, <1>10, <1>11, <1>12, <1>13, <1>14, <1>15 DEF Visits, T, S, t, link, v

\* The blocks on the free queue are those of the ring.
LEMMA FreeQueueIs ==
  ASSUME NEW m \in Mem, NEW p \in Pools, NEW s, NEW n, NEW o, Ring(m, p, s, n, o)
  PROVE  FreeQueue(m, p) = On(s, n)
<1> DEFINE v == Visit(m, p)
           T == Total(m, p)
<1>1. /\ n \in 0 .. T /\ T \in Nat /\ v \in [0 .. T -> Links]
      /\ \A k \in 0 .. n - 1 : v[k] = s[k]
      /\ \A k \in 0 .. T : v[k] \in On(s, n) \cup {Nil, Bad}
  BY VisitRing DEF Visits
<1>2. \A i \in 0 .. n - 1 : s[i] # Nil /\ s[i] # Bad
  BY RingBlocks
<1>3. FreeQueue(m, p) = {v[k] : k \in DOMAIN v} \ {Nil, Bad}
  BY DEF FreeQueue
<1> HIDE DEF v, T
<1>4. DOMAIN v = 0 .. T /\ \A i \in 0 .. n - 1 : i \in 0 .. T
  BY <1>1
<1>5. \A x \in On(s, n) : x \in {v[k] : k \in DOMAIN v} \ {Nil, Bad}
  <2> SUFFICES ASSUME NEW i \in 0 .. n - 1 PROVE s[i] \in {v[k] : k \in DOMAIN v} \ {Nil, Bad}
    BY DEF On
  <2> QED BY <1>1, <1>2, <1>4
<1>6. \A x \in {v[k] : k \in DOMAIN v} \ {Nil, Bad} : x \in On(s, n)
  BY <1>1, <1>4
<1> QED BY <1>3, <1>5, <1>6

-----------------------------------------------------------------------------
(* The inductive invariant.                                                 *)

\* What is in use belongs to the pool, and its free queue is a ring of blocks that are not.
PoolInv(m, p) ==
  /\ 1 <= m.pool[p].segs /\ m.pool[p].delta \in Delta
  /\ \E s, n : Ring(m, p, s, n, 0) /\ Counted(m, p, s, n)
  /\ \A b \in Block : b[1] = p /\ m.block[b].assigned => b \in Blocks(m, p)

MemInv(m) == m \in Mem /\ \A p \in Pools : PoolInv(m, p)

AuditInv ==
  /\ phase \in Phases /\ pid \in Pools /\ claimed \in 0 .. NumOwners
  /\ sick \subseteq Owners /\ avoided \subseteq sick
  /\ lab \in BOOLEAN /\ mishaps \in 0 .. MaxMishaps

IInv == MemInv(Memory) /\ AuditInv

\* A pool is as good in one memory as in another.
LEMMA SamePool ==
  ASSUME NEW m \in Mem, NEW x \in Pools, PoolInv(m, x), NEW r \in Mem,
         r.pool[x] = m.pool[x],
         \A b \in Block : b[1] = x => r.block[b] = m.block[b]
  PROVE  PoolInv(r, x)
<1>1. PICK s, n : Ring(m, x, s, n, 0) /\ Counted(m, x, s, n)
  BY DEF PoolInv
<1>2. Blocks(r, x) = Blocks(m, x)
  BY DEF Blocks
<1>3. \A b \in On(s, n) : SameItem(r.block[b], m.block[b])
  <2>1. \A b \in On(s, n) : b \in Block /\ b[1] = x
    BY <1>1, RingBlocks, BlocksAre DEF On
  <2> QED BY <2>1 DEF SameItem
<1>4. Ring(r, x, s, n, 0) /\ Counted(r, x, s, n)
  BY <1>1, <1>2, <1>3, SameRing DEF SameHead
<1>5. \A b \in Block : b[1] = x /\ r.block[b].assigned => b \in Blocks(r, x)
  BY <1>2 DEF PoolInv
<1> QED BY <1>4, <1>5 DEF PoolInv

\* What happens to a pool does not matter to the others.
LEMMA OtherPools ==
  ASSUME NEW m, MemInv(m), NEW p \in Pools, NEW r \in Mem,
         \A x \in Pools : x # p => r.pool[x] = m.pool[x],
         \A b \in Block : b[1] # p => r.block[b] = m.block[b],
         PoolInv(r, p)
  PROVE  MemInv(r)
<1> SUFFICES ASSUME NEW x \in Pools, x # p PROVE PoolInv(r, x)
  BY DEF MemInv
<1>1. m \in Mem /\ PoolInv(m, x)
  BY DEF MemInv
<1>2. r.pool[x] = m.pool[x] /\ \A b \in Block : b[1] = x => r.block[b] = m.block[b]
  OBVIOUS
<1> QED BY <1>1, <1>2, SamePool

\* Blocks that are not on a queue may change.
LEMMA OtherBlocks ==
  ASSUME NEW m, MemInv(m), NEW r \in Mem, r.pool = m.pool,
         \A b \in Block : \/ SameItem(r.block[b], m.block[b])
                          \/ m.block[b].assigned \/ m.block[b].orphaned # 0
                          \/ b \notin FreeQueue(m, b[1]),
         \A b \in Block : r.block[b].assigned => m.block[b].assigned
  PROVE  MemInv(r)
<1> SUFFICES ASSUME NEW p \in Pools PROVE PoolInv(r, p)
  BY DEF MemInv
<1>1. m \in Mem /\ PoolInv(m, p)
  BY DEF MemInv
<1>2. PICK s, n : Ring(m, p, s, n, 0) /\ Counted(m, p, s, n)
  BY <1>1 DEF PoolInv
<1>3. Blocks(r, p) = Blocks(m, p)
  BY DEF Blocks
<1>4. \A b \in On(s, n) : SameItem(r.block[b], m.block[b])
  <2>1. \A i \in 0 .. n - 1 : /\ s[i] \in Block /\ ~m.block[s[i]].assigned
                              /\ m.block[s[i]].orphaned = 0
    <3>1. \A i \in 0 .. n - 1 : s[i] \in Block
      BY <1>1, <1>2, RingBlocks
    <3> QED BY <1>2, <3>1 DEF Ring
  <2>2. \A b \in On(s, n) : b[1] = p /\ b \in FreeQueue(m, p)
    BY <1>1, <1>2, RingBlocks, BlocksAre, FreeQueueIs DEF On
  <2> QED BY <2>1, <2>2 DEF On
<1>5. Ring(r, p, s, n, 0) /\ Counted(r, p, s, n)
  BY <1>1, <1>2, <1>3, <1>4, SameRing DEF SameHead
<1>6. \A b \in Block : b[1] = p /\ r.block[b].assigned => b \in Blocks(r, p)
  BY <1>1, <1>3 DEF PoolInv
<1> QED BY <1>1, <1>5, <1>6 DEF PoolInv

\* A pool that has grown
LEMMA GrownInv ==
  ASSUME NEW m \in Mem, NEW p \in Pools, NEW s, NEW n, NEW r, Grown(m, r, p, s, n),
         1 <= m.pool[p].segs, r.pool[p].delta \in Delta,
         \A b \in Block : b[1] = p /\ m.block[b].assigned => b \in Blocks(m, p)
  PROVE  PoolInv(r, p)
<1>1. /\ r \in Mem /\ m.pool[p].segs <= r.pool[p].segs
      /\ \A b \in Block : r.block[b].assigned => m.block[b].assigned
      /\ \E z, k : Ring(r, p, z, k, 0) /\ Counted(r, p, z, k)
  BY DEF Grown
<1>2. m.pool[p].segs \in Int /\ r.pool[p].segs \in Int
  BY <1>1 DEF Mem, PoolRecord
<1>3. Blocks(m, p) \subseteq Blocks(r, p)
  BY <1>1, BlocksGrow
<1> QED BY <1>1, <1>2, <1>3 DEF PoolInv

\* Memories with another block.
WithBlock(m, b, x) == [m EXCEPT !.block[b] = x]

\* What is left alone when a block changes.
LEMMA BlockChanged ==
  ASSUME NEW m \in Mem, NEW b \in Block, NEW x \in BlockRecord,
         NEW r, r = WithBlock(m, b, x)
  PROVE  /\ r \in Mem /\ r.block[b] = x /\ r.pool = m.pool
         /\ \A y \in Block : y # b => r.block[y] = m.block[y]
<1> DEFINE f == [m.block EXCEPT ![b] = x]
<1>1. m.block \in [Block -> BlockRecord]
  BY DEF Mem
<1>2. r = WithBlocks(m, f)
  BY DEF WithBlock, WithBlocks
<1>3. f \in [Block -> BlockRecord] /\ f[b] = x /\ \A y \in Block : y # b => f[y] = m.block[y]
  BY <1>1, Update
<1> HIDE DEF f
<1>4. r \in Mem /\ r.pool = m.pool /\ r.block = f
  BY <1>2, <1>3, BlocksChanged
<1> QED BY <1>3, <1>4

\* What an enqueued block is like.
LEMMA FreeBlockIs ==
  ASSUME NEW x \in BlockRecord
  PROVE  /\ FreeBlock(x) \in BlockRecord /\ FreeBlock(x).link = Nil
         /\ ~FreeBlock(x).assigned /\ FreeBlock(x).age = 0 /\ FreeBlock(x).orphaned = 0
<1> DEFINE y == [x EXCEPT !.link = Nil, !.assigned = FALSE]
           z == [y EXCEPT !.orphaned = 0]
           w == [z EXCEPT !.corrupt = FALSE, !.moved = FALSE, !.age = 0]
<1>1. FreeBlock(x) = w
  BY DEF FreeBlock
<1>2. y \in BlockRecord /\ y.link = Nil /\ ~y.assigned
  BY DEF BlockRecord, Links
<1> HIDE DEF y
<1>3. z \in BlockRecord
  BY <1>2 DEF BlockRecord
<1>4. z.link = Nil /\ ~z.assigned /\ z.orphaned = 0
  BY <1>2 DEF BlockRecord
<1> HIDE DEF z
<1>5. w \in BlockRecord
  BY <1>3 DEF BlockRecord
<1>6. w.link = Nil /\ ~w.assigned /\ w.age = 0 /\ w.orphaned = 0
  BY <1>3, <1>4 DEF BlockRecord
<1> QED BY <1>1, <1>5, <1>6

\* A block is put at the tail and counted.
LEMMA ReturnInv ==
  ASSUME NEW m, MemInv(m), NEW p \in Pools, NEW b \in Blocks(m, p), m.pool[p].tail # Bad
  PROVE  /\ MemInv(CountDelta(Enqueue(m, b), p, 1))
         /\ Alters(m, CountDelta(Enqueue(m, b), p, 1))
<1> DEFINE q == Enqueue(m, b)
           r == CountDelta(q, p, 1)
<1>1. m \in Mem /\ PoolInv(m, p)
  BY DEF MemInv
<1>2. PICK s, n : Ring(m, p, s, n, 0) /\ Counted(m, p, s, n)
  BY <1>1 DEF PoolInv
<1>3. Refilled(m, p, s, n, {b}, q)
  <2>1. Refilled(m, p, s, n, {b}, m)
    BY <1>1, <1>2, AltersNone DEF Refilled, Frame
  <2> QED BY <1>1, <2>1, RefillOne
<1> HIDE DEF q
<1>4. /\ Frame(m, q, p) /\ q \in Mem /\ q.pool[p].segs = m.pool[p].segs /\ q.pool[p].tail # Bad
      /\ q.pool[p].delta = m.pool[p].delta
  BY <1>3 DEF Refilled, Frame
<1>5. PICK z, k : Ring(q, p, z, k, 0) /\ Counted(q, p, z, k)
  BY <1>3 DEF Refilled
<1>6. q.pool[p].delta \in Delta
  BY <1>1, <1>4 DEF PoolInv
<1>7. Grown(q, r, p, z, k) /\ r.pool[p].delta \in Delta
  BY <1>4, <1>5, <1>6, CountDeltaRing
<1> HIDE DEF r
<1>8. \A x \in Block : x[1] = p /\ q.block[x].assigned => x \in Blocks(q, p)
  BY <1>1, <1>4 DEF PoolInv, Frame, Blocks
<1>9. PoolInv(r, p)
  <2>1. 1 <= q.pool[p].segs
    BY <1>1, <1>4 DEF PoolInv
  <2> QED BY <1>4, <1>7, <1>8, <2>1, GrownInv
<1>10. MemInv(r)
  BY <1>4, <1>7, <1>9, OtherPools DEF Frame, Grown
<1>11. Alters(m, r)
  BY <1>4, <1>7, AltersTwice DEF Frame, Grown
<1> QED BY <1>10, <1>11 DEF q, r

\* The queue without its front, before it is counted
Without(m, p) == [Q1Deq(m, p) EXCEPT !.pool[p].avail = @ - 1]

\* and afterwards.
LEMMA TakeInv ==
  ASSUME NEW m, MemInv(m), NEW p \in Pools, m.pool[p].tail \in Block, NEW b \in Block,
         b = Q1Front(m, p),
         NEW r, r = CountDelta(Without(m, p), p, -1)
  PROVE  MemInv(r) /\ b \in Blocks(r, p) /\ b \notin FreeQueue(r, p) /\ Alters(m, r)
<1> DEFINE t == m.pool[p].tail
           q == Without(m, p)
<1>1. m \in Mem /\ PoolInv(m, p) /\ b = m.block[t].link
  BY DEF MemInv, Q1Front
<1>2. PICK s, n : Ring(m, p, s, n, 0) /\ Counted(m, p, s, n)
  BY <1>1 DEF PoolInv
<1>3. r = CountDelta(q, p, -1) /\ t = m.pool[p].tail /\ t \in Block
  OBVIOUS
<1>4. Taken(m, p, b, t, q)
  <2> HIDE DEF t
  <2>1. Ends(m, p, b, t)
    BY <1>1, <1>3 DEF Ends
  <2> QED BY <1>1, <1>3, <2>1, DequeueIs DEF Without
<1> HIDE DEF q, t
<1>5. /\ b \in On(s, n)
      /\ \E z, k : Ring(q, p, z, k, 0) /\ Counted(q, p, z, k) /\ On(z, k) \subseteq On(s, n) \ {b}
      /\ Frame(m, q, p) /\ q.pool[p].segs = m.pool[p].segs /\ q.pool[p].tail # Bad
  <2>1. Ends(m, p, b, t)
    BY <1>1, <1>3 DEF Ends
  <2>2. m \in Mem /\ t \in Block
    BY <1>1, <1>3
  <2> QED BY <1>2, <1>4, <2>1, <2>2, DequeueRing
<1>6. PICK z, k : Ring(q, p, z, k, 0) /\ Counted(q, p, z, k) /\ On(z, k) \subseteq On(s, n) \ {b}
  BY <1>5
<1>7. q \in Mem /\ q.pool[p].delta \in Delta /\ Blocks(q, p) = Blocks(m, p)
  BY <1>1, <1>5 DEF PoolInv, Frame, Blocks
<1>8. Grown(q, r, p, z, k) /\ r.pool[p].delta \in Delta
  BY <1>3, <1>5, <1>6, <1>7, CountDeltaRing
<1>9. \A x \in Block : x[1] = p /\ q.block[x].assigned => x \in Blocks(q, p)
  BY <1>1, <1>5, <1>7 DEF PoolInv, Frame
<1>10. PoolInv(r, p)
  <2>1. 1 <= q.pool[p].segs
    BY <1>1, <1>5 DEF PoolInv
  <2> QED BY <1>7, <1>8, <1>9, <2>1, GrownInv
<1>11. MemInv(r)
  <2>1. r \in Mem /\ \A x \in Pools : x # p => r.pool[x] = m.pool[x]
    BY <1>5, <1>8 DEF Frame, Grown
  <2>2. \A x \in Block : x[1] # p => r.block[x] = m.block[x]
    BY <1>5, <1>8 DEF Frame, Grown
  <2> QED BY <1>10, <2>1, <2>2, OtherPools
<1>12. b \in Blocks(q, p)
  BY <1>1, <1>2, <1>5, <1>7, RingBlocks DEF On
<1>13. r \in Mem /\ q.pool[p].segs <= r.pool[p].segs
  BY <1>8 DEF Grown
<1>14. b \in Blocks(r, p)
  BY <1>7, <1>12, <1>13, BlocksGrow
<1>15. PICK y, l : Ring(r, p, y, l, 0) /\ On(y, l) \cap Blocks(q, p) \subseteq On(z, k)
  BY <1>8 DEF Grown
<1>16. FreeQueue(r, p) = On(y, l)
  BY <1>13, <1>15, FreeQueueIs
<1>17. Alters(m, r)
  BY <1>5, <1>8, AltersTwice DEF Frame, Grown
<1> QED BY <1>6, <1>11, <1>12, <1>14, <1>15, <1>16, <1>17

\* How a block is used
SameUse(x, y) ==
  /\ x.assigned = y.assigned /\ x.holder = y.holder
  /\ x.orphaned = y.orphaned /\ x.moved = y.moved

\* A block that is in use, and whose object is not lost
InUse(x) == x.assigned /\ x.holder # None

\* What others than the audit may do to a block Y
Quiet(x, y) ==
  /\ InUse(x) => x.orphaned = 0 \/ SameUse(x, y)
  /\ \/ x.age = 0
     \/ x.age = y.age /\ x.orphaned = y.orphaned /\ (InUse(x) => InUse(y))

\* and to a memory.
Quietly(m, r) ==
  /\ \A b \in Block : Quiet(r.block[b], m.block[b])
  /\ \A p \in Pools : Blocks(m, p) \subseteq Blocks(r, p)
  /\ NoBad(m) => NoBad(r)

\* Blocks that are put on queues, or taken from them, are not in use.
LEMMA AltersQuietly ==
  ASSUME NEW m, NEW r, Alters(m, r)
  PROVE  Quietly(m, r)
BY DEF Alters, Idle, Quietly, Quiet, InUse, SameUse

\* Two such changes are one.
LEMMA QuietlyTwice ==
  ASSUME NEW m, NEW r, NEW q, Quietly(m, r), Quietly(r, q)
  PROVE  Quietly(m, q)
<1>1. ASSUME NEW x, NEW y, NEW z, Quiet(y, x), Quiet(z, y)
      PROVE  Quiet(z, x)
  BY <1>1 DEF Quiet, InUse, SameUse
<1> QED BY <1>1 DEF Quietly

\* What is stored is the memory afterwards.
LEMMA Stored ==
  ASSUME NEW m, MemInv(m), Store(m)
  PROVE  Memory' = m
<1>1. m \in Mem /\ pool' = m.pool /\ block' = m.block
  BY DEF MemInv, Store
<1>2. m = [pool |-> m.pool, block |-> m.block]
  BY <1>1 DEF Mem
<1> QED BY <1>1, <1>2 DEF Memory

\* What a step stores is what it has computed.
LEMMA StoreInv ==
  ASSUME NEW m, MemInv(m), Store(m), AuditInv'
  PROVE  IInv' /\ Memory' = m
<1>1. Memory' = m
  BY Stored
<1>2. MemInv(Memory)'
  BY <1>1
<1> QED BY <1>1, <1>2 DEF IInv

\* The audit's data is in order as long as nothing happens to it.
LEMMA AuditSame ==
  ASSUME AuditInv, UNCHANGED <<audit, faults>>
  PROVE  AuditInv'
BY DEF AuditInv, audit, faults

\* A constructed object is in use: its block had left the queue.
LEMMA ConstructInv ==
  ASSUME NEW m, MemInv(m), NEW p \in Pools, NEW b \in Block, b \in Blocks(m, p),
         b \notin FreeQueue(m, p), NEW o \in Owners
  PROVE  MemInv(Construct(m, b, o)) /\ Quietly(m, Construct(m, b, o))
<1> DEFINE x == [m.block[b] EXCEPT !.assigned = TRUE, !.orphaned = 0, !.corrupt = FALSE,
                                   !.holder = o, !.moved = FALSE, !.age = 0]
           r == WithBlock(m, b, x)
<1>1. m \in Mem /\ PoolInv(m, p) /\ m.block[b] \in BlockRecord /\ b[1] = p
  BY BlocksAre DEF MemInv, Mem
<1>2. x \in BlockRecord
  <2> DEFINE y == [m.block[b] EXCEPT !.assigned = TRUE]
             z == [y EXCEPT !.orphaned = 0]
             w == [z EXCEPT !.corrupt = FALSE, !.moved = FALSE, !.age = 0]
  <2>1. y \in BlockRecord
    BY <1>1 DEF BlockRecord
  <2> HIDE DEF y
  <2>2. z \in BlockRecord
    BY <2>1 DEF BlockRecord
  <2> HIDE DEF z
  <2>3. w \in BlockRecord
    BY <2>2 DEF BlockRecord
  <2> HIDE DEF w
  <2>4. [w EXCEPT !.holder = o] \in BlockRecord
    BY <2>3 DEF BlockRecord
  <2>5. x = [w EXCEPT !.holder = o]
    BY <1>1 DEF BlockRecord, w, z, y
  <2> QED BY <2>4, <2>5
<1>3. Construct(m, b, o) = r
  BY DEF Construct, WithBlock
<1>14. x.orphaned = 0 /\ x.age = 0 /\ x.link = m.block[b].link
  BY <1>1 DEF BlockRecord
<1> HIDE DEF x
<1>4. /\ r \in Mem /\ r.block[b] = x /\ r.pool = m.pool
      /\ \A y \in Block : y # b => r.block[y] = m.block[y]
  BY <1>1, <1>2, BlockChanged
<1> HIDE DEF r
<1>5. PICK s, n : Ring(m, p, s, n, 0) /\ Counted(m, p, s, n)
  BY <1>1 DEF PoolInv
<1>6. b \notin On(s, n)
  BY <1>1, <1>5, FreeQueueIs
<1>7. Blocks(r, p) = Blocks(m, p)
  BY <1>4 DEF Blocks
<1>8. \A c \in On(s, n) : SameItem(r.block[c], m.block[c])
  <2>1. \A c \in On(s, n) : c \in Block /\ c # b
    BY <1>1, <1>5, <1>6, RingBlocks DEF On
  <2> QED BY <1>4, <2>1 DEF SameItem
<1>9. Ring(r, p, s, n, 0) /\ Counted(r, p, s, n)
  BY <1>1, <1>4, <1>5, <1>7, <1>8, SameRing DEF SameHead
<1>10. \A c \in Block : c[1] = p /\ r.block[c].assigned => c \in Blocks(r, p)
  BY <1>1, <1>4, <1>7 DEF PoolInv
<1>11. PoolInv(r, p)
  BY <1>1, <1>4, <1>9, <1>10 DEF PoolInv
<1>12. \A c \in Block : c[1] # p => r.block[c] = m.block[c]
  BY <1>1, <1>4
<1>13. MemInv(r)
  BY <1>4, <1>11, <1>12, OtherPools
<1>15. Quietly(m, r)
  <2>1. \A c \in Block : Quiet(r.block[c], m.block[c])
    BY <1>4, <1>14 DEF Quiet, SameUse
  <2>2. \A c \in Block : r.block[c].link = m.block[c].link
    BY <1>4, <1>14
  <2>3. \A y \in Pools : Blocks(m, y) \subseteq Blocks(r, y)
    BY <1>4 DEF Blocks
  <2> QED BY <1>4, <2>1, <2>2, <2>3 DEF Quietly, NoBad
<1> QED BY <1>3, <1>13, <1>15

-----------------------------------------------------------------------------
(* Steps of applications.                                                  *)

\* Allocation takes the front of the queue (ObjectPool::DeqBlock).
LEMMA AllocateInv ==
  ASSUME IInv, NEW p \in Pools, NEW o \in Owners, Allocate(p, o)
  PROVE  IInv' /\ Quietly(Memory, Memory')
<1> DEFINE b == Q1Front(Memory, p)
           r == CountDelta(Without(Memory, p), p, -1)
<1>1. MemInv(Memory) /\ Memory.pool[p].tail \in Block /\ b \in Block
  BY DEF IInv, Allocate, CanDequeue, Memory
<1>2. Store(Construct(r, b, o))
  BY DEF Allocate, Dequeued, Without
<1>3. MemInv(r) /\ b \in Blocks(r, p) /\ b \notin FreeQueue(r, p) /\ Alters(Memory, r)
  <2> HIDE DEF b
  <2> QED BY <1>1, TakeInv DEF b
<1> HIDE DEF b, r
<1>4. MemInv(Construct(r, b, o)) /\ Quietly(r, Construct(r, b, o))
  BY <1>1, <1>3, ConstructInv
<1>5. AuditInv'
  BY AuditSame DEF IInv, Allocate
<1> DEFINE q == Construct(r, b, o)
<1> HIDE DEF q
<1>6. Quietly(Memory, q)
  BY <1>3, <1>4, AltersQuietly, QuietlyTwice DEF q
<1>7. IInv' /\ Memory' = q
  BY <1>2, <1>4, <1>5, StoreInv DEF q
<1> QED BY <1>6, <1>7

\* A trap before the constructor leaves a block that is nowhere.
LEMMA AllocateAndTrapInv ==
  ASSUME IInv, NEW p \in Pools, AllocateAndTrap(p)
  PROVE  IInv' /\ Quietly(Memory, Memory')
<1> DEFINE b == Q1Front(Memory, p)
           r == CountDelta(Without(Memory, p), p, -1)
<1>1. MemInv(Memory) /\ Memory.pool[p].tail \in Block /\ b \in Block
  BY DEF IInv, AllocateAndTrap, CanDequeue, Memory
<1>2. Store(r)
  BY DEF AllocateAndTrap, Dequeued, Without
<1>3. MemInv(r) /\ Alters(Memory, r)
  BY <1>1, TakeInv
<1> HIDE DEF r
<1>4. AuditInv'
  BY AuditSame DEF IInv, AllocateAndTrap
<1>5. IInv' /\ Memory' = r
  BY <1>2, <1>3, <1>4, StoreInv
<1> QED BY <1>3, <1>5, AltersQuietly

\* A field of an object that is in use, and that does not matter to a queue, may change.
LEMMA HeldChanged ==
  ASSUME NEW m, MemInv(m), NEW b \in Block, m.block[b].assigned, NEW x \in BlockRecord
  PROVE  /\ MemInv(WithBlock(m, b, x))
         /\ Quiet(x, m.block[b]) /\ x.link \in {m.block[b].link, Nil}
            => Quietly(m, WithBlock(m, b, x))
<1> DEFINE r == WithBlock(m, b, x)
<1>1. m \in Mem
  BY DEF MemInv
<1>2. /\ r \in Mem /\ r.pool = m.pool /\ r.block[b] = x
      /\ \A y \in Block : y # b => r.block[y] = m.block[y]
  BY <1>1, BlockChanged
<1> HIDE DEF r
<1>3. \A c \in Block : SameItem(r.block[c], m.block[c]) \/ m.block[c].assigned
  BY <1>2 DEF SameItem
<1>4. \A c \in Block : r.block[c].assigned => m.block[c].assigned
  BY <1>2
<1>5. MemInv(r)
  BY <1>2, <1>3, <1>4, OtherBlocks
<1>6. ASSUME Quiet(x, m.block[b]), x.link \in {m.block[b].link, Nil}
      PROVE  Quietly(m, r)
  <2>1. \A c \in Block : Quiet(r.block[c], m.block[c])
    BY <1>2, <1>6 DEF Quiet, SameUse
  <2>2. \A c \in Block : r.block[c].link \in {m.block[c].link, Nil}
    BY <1>2, <1>6
  <2>3. \A p \in Pools : Blocks(m, p) \subseteq Blocks(r, p)
    BY <1>2 DEF Blocks
  <2> QED BY <1>2, <2>1, <2>2, <2>3, LinkAssumption DEF Quietly, NoBad
<1> QED BY <1>5, <1>6 DEF r

\* A lost object is still in use as far as its block is concerned.
LEMMA LoseInv ==
  ASSUME IInv, NEW b \in Block, Lose(b)
  PROVE  IInv' /\ Quietly(Memory, Memory')
<1> DEFINE x == [block[b] EXCEPT !.holder = None, !.moved = FALSE]
<1>1. MemInv(Memory) /\ Memory.block = block /\ block[b].assigned
  BY DEF IInv, Memory, Lose, Held
<1>2. block[b] \in BlockRecord
  BY <1>1 DEF MemInv, Mem
<1>3. x \in BlockRecord
  <2>1. [block[b] EXCEPT !.holder = None] \in BlockRecord
    BY <1>2 DEF BlockRecord
  <2> DEFINE y == [block[b] EXCEPT !.holder = None]
  <2>2. x = [y EXCEPT !.moved = FALSE]
    BY <1>2 DEF BlockRecord
  <2> HIDE DEF y, x
  <2> QED BY <2>1, <2>2 DEF BlockRecord, y
<1>4. Store(WithBlock(Memory, b, x))
  BY <1>2, ZenonT(40) DEF Lose, Memory, WithBlock, Store, BlockRecord
<1>5. Quiet(x, block[b]) /\ x.link = block[b].link
  BY <1>2 DEF Quiet, InUse, BlockRecord
<1> HIDE DEF x
<1>6. MemInv(WithBlock(Memory, b, x)) /\ Quietly(Memory, WithBlock(Memory, b, x))
  BY <1>1, <1>3, <1>5, HeldChanged
<1>7. AuditInv'
  BY AuditSame DEF IInv, Lose
<1>8. IInv' /\ Memory' = WithBlock(Memory, b, x)
  BY <1>4, <1>6, <1>7, StoreInv
<1> QED BY <1>6, <1>8

\* Objects may change hands.
LEMMA MoveInv ==
  ASSUME IInv, NEW b \in Block, NEW o \in Owners, Move(b, o)
  PROVE  /\ IInv' /\ (NoBad(Memory) => NoBad(Memory'))
         /\ block'[b].assigned = block[b].assigned /\ block'[b].holder = o
         /\ block'[b].orphaned = block[b].orphaned /\ block'[b].moved
         /\ block'[b].age = block[b].age
         /\ \A c \in Block : c # b => block'[c] = block[c]
         /\ UNCHANGED pool
<1> DEFINE y == [block[b] EXCEPT !.holder = o]
           x == [block[b] EXCEPT !.holder = o, !.moved = TRUE]
<1>1. MemInv(Memory) /\ Memory.block = block /\ block[b].assigned
  BY DEF IInv, Memory, Move, Held
<1>2. block[b] \in BlockRecord
  BY <1>1 DEF MemInv, Mem
<1>3. x \in BlockRecord
  <2>1. y \in BlockRecord
    BY <1>2 DEF BlockRecord
  <2>2. x = [y EXCEPT !.moved = TRUE]
    BY <1>2 DEF BlockRecord
  <2> HIDE DEF y, x
  <2> QED BY <2>1, <2>2 DEF BlockRecord
<1>4. Store(WithBlock(Memory, b, x))
  BY <1>2, ZenonT(40) DEF Move, Memory, WithBlock, Store, BlockRecord
<1>5. /\ x.assigned = block[b].assigned /\ x.holder = o /\ x.orphaned = block[b].orphaned
      /\ x.moved /\ x.age = block[b].age /\ x.link = block[b].link
  BY <1>2 DEF BlockRecord
<1> HIDE DEF x
<1> DEFINE r == WithBlock(Memory, b, x)
<1>6. MemInv(r)
  BY <1>1, <1>3, HeldChanged
<1>7. /\ r.block[b] = x /\ r.pool = Memory.pool
      /\ \A c \in Block : c # b => r.block[c] = block[c]
  BY <1>1, <1>3, BlockChanged DEF MemInv
<1>8. AuditInv'
  BY AuditSame DEF IInv, Move
<1> HIDE DEF r
<1>9. IInv' /\ Memory' = r
  BY <1>4, <1>6, <1>8, StoreInv DEF r
<1>10. block' = r.block /\ pool' = r.pool
  BY <1>9 DEF Memory
<1>11. NoBad(Memory) => NoBad(r)
  BY <1>1, <1>5, <1>7 DEF NoBad
<1> QED BY <1>5, <1>7, <1>9, <1>10, <1>11 DEF Memory

\* A deleted object's block goes to the tail (ObjectPool::EnqBlock), or nowhere if the
\* queue header is bad.
LEMMA DeleteInv ==
  ASSUME IInv, NEW b \in Block, Delete(b)
  PROVE  IInv' /\ Quietly(Memory, Memory')
<1> DEFINE p == b[1]
           x == [block[b] EXCEPT !.holder = None]
           m == WithBlock(Memory, b, x)
<1>1. /\ MemInv(Memory) /\ Memory.block = block /\ Memory.pool = pool /\ block[b].assigned
      /\ p \in Pools /\ Memory \in Mem
  BY DEF IInv, Memory, Delete, Held, Block, MemInv
<1>2. block[b] \in BlockRecord
  BY <1>1 DEF Mem
<1>3. x \in BlockRecord
  BY <1>2 DEF BlockRecord
<1>4. x.assigned /\ x.link = block[b].link /\ Quiet(x, block[b])
  BY <1>1, <1>2 DEF BlockRecord, Quiet, InUse
<1>5. IF pool[p].tail = Bad
        THEN Store(WithBlock(m, b, FreeBlock(m.block[b])))
        ELSE Store(CountDelta(Enqueue(m, b), p, 1))
  <2> DEFINE d == [Memory EXCEPT !.block[b].holder = None]
  <2>1. d = m
    BY <1>1 DEF WithBlock
  <2>2. IF pool[p].tail = Bad
          THEN Store([d EXCEPT !.block[b] = FreeBlock(@)])
          ELSE Store(CountDelta(Enqueue(d, b), p, 1))
    BY DEF Delete
  <2> HIDE DEF d, m
  <2> QED BY <2>1, <2>2 DEF WithBlock
<1> HIDE DEF x
<1>6. MemInv(m) /\ Quietly(Memory, m)
  BY <1>1, <1>3, <1>4, HeldChanged
<1>7. m.block[b] = x /\ m.pool = pool
  BY <1>1, <1>3, BlockChanged
<1> HIDE DEF m, p
<1>8. AuditInv'
  BY AuditSame DEF IInv, Delete
<1>9. CASE pool[p].tail = Bad
  <2> DEFINE y == FreeBlock(x)
             r == WithBlock(m, b, y)
  <2>1. y \in BlockRecord /\ y.link = Nil /\ Quiet(y, x)
    BY <1>3, FreeBlockIs DEF Quiet, InUse
  <2>2. Store(r)
    BY <1>5, <1>7, <1>9
  <2> HIDE DEF y
  <2>3. MemInv(r) /\ Quietly(m, r)
    BY <1>4, <1>6, <1>7, <2>1, HeldChanged
  <2> HIDE DEF r
  <2>4. IInv' /\ Memory' = r
    BY <1>8, <2>2, <2>3, StoreInv
  <2> QED BY <1>6, <2>3, <2>4, QuietlyTwice
<1>10. CASE pool[p].tail # Bad
  <2>1. b \in Blocks(m, p)
    BY <1>1, <1>4, <1>6, <1>7 DEF MemInv, PoolInv, p
  <2> DEFINE r == CountDelta(Enqueue(m, b), p, 1)
  <2>2. MemInv(r) /\ Alters(m, r)
    BY <1>1, <1>6, <1>7, <1>10, <2>1, ReturnInv
  <2>3. Store(r)
    BY <1>5, <1>10
  <2> HIDE DEF r
  <2>4. IInv' /\ Memory' = r
    BY <1>8, <2>2, <2>3, StoreInv
  <2> QED BY <1>6, <2>2, <2>4, AltersQuietly, QuietlyTwice
<1> QED BY <1>9, <1>10

Cut(x) == [x EXCEPT !.link = Bad]
CutOff(x) == [x EXCEPT !.tail = Bad]

\* Only links differ.
SameUses(m, r) ==
  /\ \A b \in Block : SameUse(r.block[b], m.block[b]) /\ r.block[b].age = m.block[b].age
  /\ \A p \in Pools : Blocks(m, p) \subseteq Blocks(r, p)

\* Behind a bad link, the rest of a queue is lost.
LEMMA CutRing ==
  ASSUME NEW m, MemInv(m), NEW p \in Pools, NEW k \in DOMAIN Visit(m, p),
         NEW b \in Block, b = Visit(m, p)[k],
         NEW r, r = WithBlock(m, b, Cut(m.block[b]))
  PROVE  MemInv(r) /\ SameUses(m, r)
<1> DEFINE x == Cut(m.block[b])
           v == Visit(m, p)
           T == Total(m, p)
<1>1. m \in Mem /\ PoolInv(m, p) /\ m.block[b] \in BlockRecord
  BY DEF MemInv, Mem
<1>2. PICK s, n : Ring(m, p, s, n, 0) /\ Counted(m, p, s, n)
  BY <1>1 DEF PoolInv
<1>3. b \in On(s, n)
  <2>1. v \in [0 .. T -> Links] /\ \A j \in 0 .. T : v[j] \in On(s, n) \cup {Nil, Bad}
    BY <1>1, <1>2, VisitRing DEF Visits
  <2>2. b = v[k] /\ k \in DOMAIN v
    OBVIOUS
  <2> HIDE DEF v
  <2> QED BY <2>1, <2>2, LinkAssumption
<1>4. PICK j \in 0 .. n - 1 : b = s[j]
  BY <1>3 DEF On
<1>5. x \in BlockRecord
  BY <1>1 DEF BlockRecord, Links, Cut
<1>6. /\ x.link = Bad /\ x.assigned = m.block[b].assigned
      /\ x.orphaned = m.block[b].orphaned /\ x.age = m.block[b].age
      /\ SameUse(x, m.block[b])
  BY <1>1 DEF BlockRecord, Cut, SameUse
<1>7. r = WithBlock(m, b, x)
  OBVIOUS
<1> HIDE DEF x
<1>8. /\ r \in Mem /\ r.block[b] = x /\ r.pool = m.pool
      /\ \A y \in Block : y # b => r.block[y] = m.block[y]
  BY <1>1, <1>5, <1>7, BlockChanged
<1>9. /\ n \in Nat
      /\ \A i \in 0 .. n - 1 : s[i] \in Blocks(m, p) /\ s[i] \in Block
      /\ n > 0 => m.pool[p].tail = s[0]
  BY <1>1, <1>2, RingBlocks
<1> DEFINE z == [i \in 0 .. j |-> s[i]]
           l == j + 1
<1>10. /\ l \in Nat /\ l > 0 /\ l <= n /\ l - 1 = j /\ l - 2 = j - 1 /\ 0 \in 0 .. j
       /\ j \in 0 .. j
       /\ \A i \in 0 .. j : i \in 0 .. n - 1
       /\ \A i \in 0 .. j - 1 : i \in 0 .. j /\ i + 1 \in 0 .. j /\ i \in 0 .. n - 2 /\ i # j
  BY <1>4, <1>9
<1>11. z[j] = b /\ \A i \in 0 .. j : z[i] = s[i]
  BY <1>4, <1>10
<1>12. Blocks(r, p) = Blocks(m, p)
  BY <1>8 DEF Blocks
<1>13. z \in [0 .. j -> Blocks(r, p)]
  BY <1>9, <1>10, <1>12
<1> HIDE DEF z, l
<1>14. /\ \A i, h \in 0 .. n - 1 : s[i] = s[h] => i = h
       /\ \A i \in 0 .. n - 2 : m.block[s[i]].link = s[i + 1]
       /\ \A i \in 0 .. n - 1 :
            /\ ~m.block[s[i]].assigned /\ m.block[s[i]].age = 0 /\ m.block[s[i]].orphaned = 0
            /\ m.block[s[i]].corrupt => m.block[s[i]].link = Bad
  BY <1>2 DEF Ring
<1>15. \A i, h \in 0 .. j : z[i] = z[h] => i = h
  BY <1>10, <1>11, <1>14
<1>16. \A i \in 0 .. j - 1 : r.block[z[i]].link = z[i + 1]
  <2> TAKE i \in 0 .. j - 1
  <2>1. /\ i \in 0 .. j /\ i + 1 \in 0 .. j /\ i \in 0 .. n - 2 /\ i # j
        /\ i \in 0 .. n - 1 /\ j \in 0 .. n - 1
    BY <1>4, <1>10
  <2>2. s[i] # b /\ s[i] \in Block
    BY <1>4, <1>9, <1>14, <2>1
  <2> QED BY <1>8, <1>11, <1>14, <2>1, <2>2
<1>17. \A i \in 0 .. j :
         /\ ~r.block[z[i]].assigned /\ r.block[z[i]].age = 0 /\ r.block[z[i]].orphaned = 0
         /\ r.block[z[i]].corrupt => r.block[z[i]].link = Bad
  <2> TAKE i \in 0 .. j
  <2>1. i \in 0 .. n - 1 /\ z[i] = s[i] /\ s[i] \in Block
    BY <1>9, <1>10, <1>11
  <2>2. /\ ~m.block[s[i]].assigned /\ m.block[s[i]].age = 0 /\ m.block[s[i]].orphaned = 0
        /\ m.block[s[i]].corrupt => m.block[s[i]].link = Bad
    BY <1>14, <2>1
  <2>3. CASE s[i] = b
    BY <1>6, <1>8, <2>1, <2>2, <2>3
  <2>4. CASE s[i] # b
    BY <1>8, <2>1, <2>2, <2>4
  <2> QED BY <2>3, <2>4
<1>18. r.block[z[j]].link = Bad
  BY <1>6, <1>8, <1>11
<1>19. r.pool[p].tail = z[0]
  <2>1. n > 0 /\ z[0] = s[0]
    BY <1>9, <1>10, <1>11
  <2>2. r.pool[p].tail = m.pool[p].tail
    BY <1>8, SMTT(20)
  <2> QED BY <1>9, <2>1, <2>2
<1>20. Ring(r, p, z, l, 0)
  <2>1. /\ l \in Nat /\ z \in [0 .. l - 1 -> Blocks(r, p)]
        /\ \A i, h \in 0 .. l - 1 : z[i] = z[h] => i = h
    BY <1>10, <1>13, <1>15
  <2>2. /\ \A i \in 0 .. l - 2 : r.block[z[i]].link = z[i + 1]
        /\ r.block[z[l - 1]].link \in {z[0], Bad}
    BY <1>10, <1>16, <1>18
  <2>3. \A i \in 0 .. l - 1 :
          /\ ~r.block[z[i]].assigned /\ r.block[z[i]].age = 0 /\ r.block[z[i]].orphaned = 0
          /\ r.block[z[i]].corrupt => r.block[z[i]].link = Bad
    BY <1>10, <1>17
  <2> QED BY <1>10, <1>19, <2>1, <2>2, <2>3 DEF Ring
<1>21. Counted(r, p, z, l)
  <2>1. /\ n <= m.pool[p].avail /\ (m.pool[p].badHead => m.pool[p].tail = Bad)
        /\ m.pool[p].avail \in Int
    BY <1>1, <1>2 DEF Counted, Mem, PoolRecord
  <2>2. ~Sound(r, p, z, l)
    <3>1. z[0] # Bad
      BY <1>9, <1>10, <1>11, LinkAssumption
    <3> QED BY <1>10, <1>18, <3>1 DEF Sound
  <2>3. l <= r.pool[p].avail
    BY <1>8, <1>9, <1>10, <2>1
  <2> QED BY <1>8, <2>1, <2>2, <2>3 DEF Counted
<1>22. \A c \in Block : c[1] = p /\ r.block[c].assigned => c \in Blocks(r, p)
  BY <1>1, <1>6, <1>8, <1>12 DEF PoolInv
<1>23. PoolInv(r, p)
  BY <1>1, <1>8, <1>20, <1>21, <1>22 DEF PoolInv
<1>24. \A c \in Block : c[1] # p => r.block[c] = m.block[c]
  <2>1. b[1] = p
    BY <1>1, <1>4, <1>9, BlocksAre
  <2> QED BY <1>8, <2>1
<1>25. SameUses(m, r)
  <2>1. \A c \in Pools : Blocks(m, c) \subseteq Blocks(r, c)
    BY <1>8 DEF Blocks
  <2> QED BY <1>6, <1>8, <2>1 DEF SameUses, SameUse
<1> QED BY <1>8, <1>23, <1>24, <1>25, OtherPools

\* Behind a bad header, all of it is.
LEMMA CutHead ==
  ASSUME NEW m, MemInv(m), NEW p \in Pools, NEW x, x = CutOff(m.pool[p]),
         NEW r, r = WithPool(m, p, x)
  PROVE  MemInv(r) /\ SameUses(m, r)
<1>1. m \in Mem /\ PoolInv(m, p) /\ m.pool[p] \in PoolRecord
  BY DEF MemInv, Mem
<1>2. PICK s, n : Ring(m, p, s, n, 0) /\ Counted(m, p, s, n)
  BY <1>1 DEF PoolInv
<1>3. /\ x \in PoolRecord /\ x.tail = Bad /\ x.segs = m.pool[p].segs
      /\ x.avail = m.pool[p].avail /\ x.delta = m.pool[p].delta
  BY <1>1 DEF PoolRecord, Links, CutOff
<1>4. /\ r \in Mem /\ r.pool[p] = x /\ r.block = m.block
      /\ \A y \in Pools : y # p => r.pool[y] = m.pool[y]
  BY <1>1, <1>3, PoolChanged
<1> DEFINE z == [i \in 0 .. -1 |-> Nil]
<1>5. Ring(r, p, z, 0, 0)
  <2>1. z \in [0 .. 0 - 1 -> Blocks(r, p)] /\ 0 .. 0 - 1 = {} /\ 0 .. 0 - 2 = {}
    OBVIOUS
  <2> HIDE DEF z
  <2> QED BY <1>3, <1>4, <2>1 DEF Ring
<1>6. Counted(r, p, z, 0)
  <2>1. n \in Nat /\ n <= m.pool[p].avail /\ m.pool[p].avail \in Int
    BY <1>1, <1>2 DEF Counted, Ring, PoolRecord
  <2>2. 0 <= r.pool[p].avail /\ r.pool[p].tail = Bad
    BY <1>3, <1>4, <2>1
  <2> QED BY <2>2 DEF Counted, Sound
<1>7. Blocks(r, p) = Blocks(m, p)
  BY <1>3, <1>4 DEF Blocks
<1>8. PoolInv(r, p)
  BY <1>1, <1>3, <1>4, <1>5, <1>6, <1>7 DEF PoolInv
<1>9. SameUses(m, r)
  <2>1. r.pool[p].segs = m.pool[p].segs
    BY <1>3, <1>4
  <2>2. \A c \in Pools : Blocks(m, c) \subseteq Blocks(r, c)
    BY <1>4, <2>1, SameBlocks
  <2> QED BY <1>4, <2>2 DEF SameUses, SameUse
<1> QED BY <1>4, <1>8, <1>9, OtherPools

\* Testers corrupt a queue header or a link on the queue.
LEMMA CorruptInv ==
  ASSUME IInv, NEW p \in Pools, Corrupt(p)
  PROVE  IInv' /\ SameUses(Memory, Memory')
<1>1. MemInv(Memory) /\ AuditInv
  BY DEF IInv
<1>2. AuditInv'
  BY <1>1, PoolAssumption DEF AuditInv, Corrupt, Mishap, audit
<1> DEFINE x == CutOff(Memory.pool[p])
<1>3. CASE Store(WithPool(Memory, p, x))
  <2>1. MemInv(WithPool(Memory, p, x)) /\ SameUses(Memory, WithPool(Memory, p, x))
    BY <1>1, CutHead
  <2> QED BY <1>2, <1>3, <2>1, StoreInv
<1>4. ASSUME NEW k \in DOMAIN Visit(Memory, p), Visit(Memory, p)[k] \in Block,
             Store([Memory EXCEPT !.block[Visit(Memory, p)[k]].link = Bad])
      PROVE  IInv' /\ SameUses(Memory, Memory')
  <2> DEFINE b == Visit(Memory, p)[k]
             r == WithBlock(Memory, b, Cut(Memory.block[b]))
  <2>1. Store(r)
    BY <1>4 DEF WithBlock, Cut
  <2>2. b \in Block
    BY <1>4
  <2>3. MemInv(r) /\ SameUses(Memory, r)
    <3> HIDE DEF b
    <3>1. b = Visit(Memory, p)[k]
      BY DEF b
    <3> QED BY <1>1, <2>2, <3>1, CutRing
  <2> HIDE DEF r
  <2> QED BY <1>2, <2>1, <2>3, StoreInv
<1>5. \/ Store(WithPool(Memory, p, x))
      \/ \E k \in DOMAIN Visit(Memory, p) :
            /\ Visit(Memory, p)[k] \in Block
            /\ Store([Memory EXCEPT !.block[Visit(Memory, p)[k]].link = Bad])
  BY DEF Corrupt, WithPool, CutOff
<1> QED BY <1>3, <1>4, <1>5

-----------------------------------------------------------------------------
(* Steps of the audit.                                                     *)

\* A step that leaves the memory alone.
LEMMA MemorySame ==
  ASSUME MemInv(Memory), UNCHANGED <<pool, block>>, AuditInv'
  PROVE  IInv'
<1>1. Memory' = Memory
  BY DEF Memory
<1>2. MemInv(Memory)'
  BY <1>1
<1> QED BY <1>2 DEF IInv

\* Owners are damaged.
LEMMA SickenInv ==
  ASSUME IInv, NEW o \in Owners, Sicken(o)
  PROVE  IInv'
<1>1. AuditInv'
  BY PoolAssumption DEF IInv, AuditInv, Sicken, Mishap, audit
<1> QED BY <1>1, MemorySame DEF IInv, Sicken

\* The audit's thread is replaced.
LEMMA ReplaceInv ==
  ASSUME IInv, Replace
  PROVE  IInv'
<1>1. AuditInv'
  BY PoolAssumption DEF IInv, AuditInv, Replace, Mishap, Phases, Pools
<1> QED BY <1>1, MemorySame DEF IInv, Replace

\* The audit goes on to the next pool or phase.
LEMMA NextPoolOK ==
  ASSUME AuditInv, NEW f \in Phases, NextPool(f)
  PROVE  phase' \in Phases /\ pid' \in Pools
BY PoolAssumption DEF AuditInv, NextPool, Pools

\* The audit goes on when all owners have claimed their blocks.
LEMMA ClaimsDoneInv ==
  ASSUME IInv, ClaimsDone
  PROVE  IInv'
<1>1. phase' \in Phases /\ pid' \in Pools
  BY NextPoolOK DEF IInv, ClaimsDone, Phases
<1>2. AuditInv'
  BY <1>1, PoolAssumption DEF IInv, AuditInv, ClaimsDone, faults
<1> QED BY <1>2, MemorySame DEF IInv, ClaimsDone

\* A block was claimed.
IsClaimed(x, y) ==
  /\ x.orphaned = 0
  /\ x.assigned = y.assigned /\ x.holder = y.holder /\ x.moved = y.moved
  /\ x.age = y.age /\ x.link = y.link

\* The blocks of an owner were claimed.
ClaimedBy(m, o, r) ==
  \A b \in Block : IF m.block[b].assigned /\ m.block[b].holder = o
                     THEN IsClaimed(r.block[b], m.block[b])
                     ELSE r.block[b] = m.block[b]

\* What an owner claims is in use.
LEMMA ClaimKeeps ==
  ASSUME NEW m, MemInv(m), NEW o
  PROVE  /\ MemInv(Claim(m, o)) /\ ClaimedBy(m, o, Claim(m, o))
         /\ NoBad(m) => NoBad(Claim(m, o))
         /\ Claim(m, o).pool = m.pool
<1> DEFINE g(b) == [m.block[b] EXCEPT !.orphaned = 0]
           own(b) == m.block[b].assigned /\ m.block[b].holder = o
           f == [b \in Block |-> IF own(b) THEN g(b) ELSE m.block[b]]
           r == WithBlocks(m, f)
<1>1. m \in Mem /\ \A b \in Block : m.block[b] \in BlockRecord
  BY DEF MemInv, Mem
<1>2. Claim(m, o) = r
  BY DEF Claim, WithBlocks
<1>3. \A b \in Block : g(b) \in BlockRecord /\ IsClaimed(g(b), m.block[b])
  <2> SUFFICES ASSUME NEW b \in Block, NEW x, x = m.block[b], x \in BlockRecord
               PROVE  LET y == [x EXCEPT !.orphaned = 0]
                      IN  y \in BlockRecord /\ IsClaimed(y, x)
    BY <1>1
  <2> QED BY DEF BlockRecord, IsClaimed
<1>4. \A b \in Block : own(b) => m.block[b].assigned
  OBVIOUS
<1> HIDE DEF g, own
<1>5. /\ f \in [Block -> BlockRecord]
      /\ \A b \in Block : f[b] = IF own(b) THEN g(b) ELSE m.block[b]
  BY <1>1, <1>3
<1> HIDE DEF f
<1>6. r \in Mem /\ r.pool = m.pool /\ r.block = f
  BY <1>1, <1>5, BlocksChanged
<1> HIDE DEF r
<1>7. \A b \in Block : SameItem(r.block[b], m.block[b]) \/ m.block[b].assigned
  BY <1>4, <1>5, <1>6 DEF SameItem
<1>8. \A b \in Block : r.block[b].assigned => m.block[b].assigned
  BY <1>4, <1>5, <1>6
<1>9. MemInv(r)
  BY <1>6, <1>7, <1>8, OtherBlocks
<1>10. ClaimedBy(m, o, r)
  BY <1>3, <1>5, <1>6 DEF ClaimedBy, own
<1>11. NoBad(m) => NoBad(r)
  BY <1>6, <1>10 DEF NoBad, ClaimedBy, IsClaimed
<1> QED BY <1>2, <1>6, <1>9, <1>10, <1>11

\* An owner claims its blocks or is avoided.
LEMMA ClaimOwnerInv ==
  ASSUME IInv, ClaimOwner
  PROVE  /\ IInv' /\ (NoBad(Memory) => NoBad(Memory'))
         /\ \/ ClaimedBy(Memory, claimed + 1, Memory')
            \/ claimed + 1 \in sick /\ UNCHANGED block
         /\ UNCHANGED pool
<1> DEFINE o == claimed + 1
<1>1. o \in Owners /\ AuditInv /\ MemInv(Memory)
  BY DEF ClaimOwner, IInv
<1>2. claimed' = o /\ UNCHANGED <<sick, lab, mishaps>>
  BY DEF ClaimOwner
<1>3. CASE o \in sick /\ o \notin avoided
  <2>1. avoided' = avoided \union {o} /\ UNCHANGED <<phase, pid, pool, block>>
    BY <1>3 DEF ClaimOwner, Reenter
  <2>2. AuditInv'
    BY <1>1, <1>2, <1>3, <2>1, PoolAssumption DEF AuditInv, Owners
  <2>3. Memory' = Memory
    BY <2>1 DEF Memory
  <2> QED BY <1>1, <1>3, <2>1, <2>2, <2>3, MemorySame
<1>4. CASE ~(o \in sick /\ o \notin avoided)
  <2>1. /\ UNCHANGED <<phase, pid, avoided>>
        /\ Store(IF o \in avoided THEN Memory ELSE Claim(Memory, o))
    BY <1>4 DEF ClaimOwner
  <2>2. AuditInv'
    BY <1>1, <1>2, <2>1, PoolAssumption DEF AuditInv, Owners
  <2> DEFINE r == IF o \in avoided THEN Memory ELSE Claim(Memory, o)
  <2>3. /\ MemInv(r) /\ (NoBad(Memory) => NoBad(r))
        /\ ClaimedBy(Memory, o, r) \/ (o \in sick /\ r = Memory)
        /\ r.pool = Memory.pool
    <3>1. CASE o \in avoided
      BY <1>1, <3>1 DEF AuditInv
    <3>2. CASE o \notin avoided
      <4>1. r = Claim(Memory, o)
        BY <3>2
      <4> HIDE DEF r, o
      <4>2. /\ MemInv(Claim(Memory, o)) /\ ClaimedBy(Memory, o, Claim(Memory, o))
            /\ NoBad(Memory) => NoBad(Claim(Memory, o))
            /\ Claim(Memory, o).pool = Memory.pool
        BY <1>1, ClaimKeeps
      <4> QED BY <4>1, <4>2
    <3> QED BY <3>1, <3>2
  <2> HIDE DEF r
  <2>4. Store(r)
    BY <2>1 DEF r
  <2>5. IInv' /\ Memory' = r
    BY <2>2, <2>3, <2>4, StoreInv
  <2>6. r = Memory => UNCHANGED block
    BY <2>5 DEF Memory
  <2>7. UNCHANGED pool
    BY <2>3, <2>5 DEF Memory
  <2> QED BY <2>3, <2>5, <2>6, <2>7
<1> QED BY <1>3, <1>4

\* Orphans let go of what they own.  None of them is on a free queue.
LEMMA CleanUpKeeps ==
  ASSUME NEW m, MemInv(m), NEW S, \A b \in S : m.block[b].orphaned # 0,
         NEW r, r = CleanUp(m, S)
  PROVE  /\ MemInv(r) /\ r.pool = m.pool
         /\ \A b \in Block : /\ r.block[b].orphaned = m.block[b].orphaned
                             /\ r.block[b].assigned = m.block[b].assigned
                             /\ b \in S => r.block[b].link = Nil
                             /\ b \notin S => r.block[b] = m.block[b]
<1> DEFINE g(b) == [m.block[b] EXCEPT !.link = Nil, !.holder = None]
           f == [b \in Block |-> IF b \in S THEN g(b) ELSE m.block[b]]
<1>1. m \in Mem /\ \A b \in Block : m.block[b] \in BlockRecord
  BY DEF MemInv, Mem
<1>2. r = WithBlocks(m, f)
  BY DEF CleanUp, WithBlocks
<1>3. \A b \in Block : /\ g(b) \in BlockRecord
                       /\ g(b).assigned = m.block[b].assigned
                       /\ g(b).orphaned = m.block[b].orphaned /\ g(b).link = Nil
  <2> SUFFICES ASSUME NEW b \in Block, NEW x, x = m.block[b], x \in BlockRecord
               PROVE  LET y == [x EXCEPT !.link = Nil, !.holder = None]
                      IN /\ y \in BlockRecord
                         /\ y.assigned = x.assigned /\ y.orphaned = x.orphaned /\ y.link = Nil
    BY <1>1
  <2> DEFINE z == [x EXCEPT !.link = Nil]
             y == [x EXCEPT !.link = Nil, !.holder = None]
  <2>1. z \in BlockRecord
    BY DEF BlockRecord, Links
  <2>2. y = [z EXCEPT !.holder = None]
    BY DEF BlockRecord
  <2>3. y.assigned = x.assigned /\ y.orphaned = x.orphaned /\ y.link = Nil
    BY DEF BlockRecord
  <2> HIDE DEF y, z
  <2>4. y \in BlockRecord
    BY <2>1, <2>2 DEF BlockRecord
  <2> QED BY <2>3, <2>4 DEF y
<1> HIDE DEF g
<1>4. /\ f \in [Block -> BlockRecord]
      /\ \A b \in Block : f[b] = IF b \in S THEN g(b) ELSE m.block[b]
  BY <1>1, <1>3
<1> HIDE DEF f
<1>5. r \in Mem /\ r.pool = m.pool /\ r.block = f
  BY <1>1, <1>2, <1>4, BlocksChanged
<1>6. \A b \in Block : SameItem(r.block[b], m.block[b]) \/ m.block[b].orphaned # 0
  BY <1>4, <1>5 DEF SameItem
<1>7. \A b \in Block : /\ r.block[b].orphaned = m.block[b].orphaned
                       /\ r.block[b].assigned = m.block[b].assigned
                       /\ b \in S => r.block[b].link = Nil
                       /\ b \notin S => r.block[b] = m.block[b]
  BY <1>3, <1>4, <1>5
<1>8. MemInv(r)
  BY <1>5, <1>6, <1>7, OtherBlocks
<1> QED BY <1>5, <1>7, <1>8

\* Blocks are returned to a pool without being counted.
LEMMA RefillInv ==
  ASSUME NEW m, MemInv(m), NEW p \in Pools, NEW S \in SUBSET Blocks(m, p),
         m.pool[p].tail # Bad, NEW r, r = EnqueueAll(m, p, S)
  PROVE  /\ MemInv(r) /\ Alters(m, r)
         /\ \A b \in Block : b[1] # p \/ (m.block[b].assigned /\ b \notin S)
                            => r.block[b] = m.block[b]
         /\ \A b \in S : Refused(m.block[b]) \/ Idle(r.block[b])
<1>1. m \in Mem /\ PoolInv(m, p)
  BY DEF MemInv
<1>2. PICK s, n : Ring(m, p, s, n, 0) /\ Counted(m, p, s, n)
  BY <1>1 DEF PoolInv
<1>3. /\ Refilled(m, p, s, n, S, r)
      /\ \A b \in S : Refused(m.block[b]) \/ Idle(r.block[b])
  BY <1>1, <1>2, EnqueueAllRing
<1>4. /\ Frame(m, r, p) /\ r \in Mem /\ r.pool[p].segs = m.pool[p].segs
      /\ r.pool[p].delta = m.pool[p].delta
      /\ \E z, k : Ring(r, p, z, k, 0) /\ Counted(r, p, z, k)
  BY <1>3 DEF Refilled, Frame
<1>5. \A x \in Block : x[1] = p /\ r.block[x].assigned => x \in Blocks(r, p)
  BY <1>1, <1>4 DEF PoolInv, Frame, Blocks
<1>6. PoolInv(r, p)
  BY <1>1, <1>4, <1>5 DEF PoolInv
<1>7. \A b \in Block : b[1] # p \/ (m.block[b].assigned /\ b \notin S)
                       => r.block[b] = m.block[b]
  <2>1. \A b \in On(s, n) : ~m.block[b].assigned
    BY <1>2 DEF Ring, On
  <2> QED BY <1>3, <1>4, <2>1 DEF Refilled, Frame
<1>8. MemInv(r) /\ Alters(m, r)
  BY <1>4, <1>6, OtherPools DEF Frame
<1> QED BY <1>3, <1>7, <1>8

\* The cycles for which blocks were lost are counted.
LEMMA AgedKeeps ==
  ASSUME NEW m, MemInv(m), NEW p, NEW r, r = Aged(m, p)
  PROVE  /\ MemInv(r) /\ r.pool = m.pool
         /\ \A b \in Block : b[1] # p => r.block[b] = m.block[b]
         /\ \A b \in Block : /\ SameUse(r.block[b], m.block[b]) /\ r.block[b].link = m.block[b].link
                             /\ \/ r.block[b] = m.block[b]
                                \/ Lost(m, b) /\ r.block[b].age = m.block[b].age + 1
<1> DEFINE g(b) == [m.block[b] EXCEPT !.age = @ + 1]
           old(b) == b[1] = p /\ Lost(m, b)
           f == [b \in Block |-> IF old(b) THEN g(b) ELSE m.block[b]]
<1>1. m \in Mem /\ \A b \in Block : m.block[b] \in BlockRecord
  BY DEF MemInv, Mem
<1>2. r = WithBlocks(m, f)
  BY DEF Aged, WithBlocks
<1>3. \A b \in Block : /\ g(b) \in BlockRecord /\ SameUse(g(b), m.block[b])
                       /\ g(b).link = m.block[b].link /\ g(b).age = m.block[b].age + 1
  <2> SUFFICES ASSUME NEW b \in Block, NEW x, x = m.block[b], x \in BlockRecord
               PROVE  LET y == [x EXCEPT !.age = @ + 1]
                      IN  /\ y \in BlockRecord /\ SameUse(y, x)
                          /\ y.link = x.link /\ y.age = x.age + 1
    BY <1>1
  <2> DEFINE y == [x EXCEPT !.age = @ + 1]
  <2>1. y \in BlockRecord
    BY DEF BlockRecord
  <2>2. SameUse(y, x) /\ y.link = x.link /\ y.age = x.age + 1
    BY DEF BlockRecord, SameUse
  <2> QED BY <2>1, <2>2
<1> HIDE DEF g
<1>4. \A b \in Block : old(b) => b[1] = p /\ Lost(m, b) /\ b \notin FreeQueue(m, b[1])
  BY DEF Lost
<1> HIDE DEF old
<1>5. /\ f \in [Block -> BlockRecord]
      /\ \A b \in Block : f[b] = IF old(b) THEN g(b) ELSE m.block[b]
  BY <1>1, <1>3
<1> HIDE DEF f
<1>6. r \in Mem /\ r.pool = m.pool /\ r.block = f
  BY <1>1, <1>2, <1>5, BlocksChanged
<1>7. \A b \in Block : /\ SameUse(r.block[b], m.block[b]) /\ r.block[b].link = m.block[b].link
                       /\ \/ r.block[b] = m.block[b]
                          \/ Lost(m, b) /\ r.block[b].age = m.block[b].age + 1
  BY <1>3, <1>4, <1>5, <1>6 DEF SameUse
<1>8. \A b \in Block : SameItem(r.block[b], m.block[b]) \/ b \notin FreeQueue(m, b[1])
  BY <1>4, <1>5, <1>6 DEF SameItem
<1>9. \A b \in Block : r.block[b].assigned => m.block[b].assigned
  BY <1>7 DEF SameUse
<1>10. MemInv(r)
  BY <1>6, <1>8, <1>9, OtherBlocks
<1>11. \A b \in Block : b[1] # p => r.block[b] = m.block[b]
  BY <1>4, <1>5, <1>6
<1> QED BY <1>6, <1>7, <1>10, <1>11

\* A block is left to its owner, and a cycle counted if it has none.
Left(x, y) == SameUse(x, y) /\ (x.age = y.age \/ (x.age = y.age + 1 /\ ~InUse(y)))

Freed(x) == ~x.assigned /\ x.age <= 1

\* What becomes of the blocks of pool P whose orphans S are recovered
Recovered(m, p, S, r) ==
  \A b \in Block :
    IF b[1] # p THEN r.block[b] = m.block[b]
    ELSE /\ \/ Freed(r.block[b]) /\ (b \in S \/ ~m.block[b].assigned)
            \/ b \notin S /\ Left(r.block[b], m.block[b])
         /\ r.block[b].age # 0 /\ r.block[b].age # m.block[b].age => b \in Blocks(r, p)

\* What becomes of a pool whose orphans are recovered (ObjectPool::RecoverBlocks).
LEMMA RecoverAll ==
  ASSUME NEW m, MemInv(m), NEW p \in Pools, NEW S \in SUBSET Blocks(m, p),
         \A b \in S : m.block[b].orphaned # 0, S = {} \/ m.pool[p].tail # Bad,
         NEW r, r = Aged(EnqueueAll(CleanUp(m, S), p, S), p)
  PROVE  /\ MemInv(r) /\ Recovered(m, p, S, r) /\ (NoBad(m) => NoBad(r))
         /\ \A x \in Pools : Blocks(m, x) \subseteq Blocks(r, x)
<1> DEFINE q == CleanUp(m, S)
           e == EnqueueAll(q, p, S)
<1>1. /\ MemInv(q) /\ q.pool = m.pool
      /\ \A b \in Block : /\ q.block[b].orphaned = m.block[b].orphaned
                          /\ q.block[b].assigned = m.block[b].assigned
                          /\ b \in S => q.block[b].link = Nil
                          /\ b \notin S => q.block[b] = m.block[b]
  BY CleanUpKeeps
<1> HIDE DEF q
<1>2. /\ MemInv(e) /\ Alters(q, e)
      /\ \A b \in Block : b[1] # p \/ (q.block[b].assigned /\ b \notin S)
                         => e.block[b] = q.block[b]
      /\ \A b \in S : Refused(q.block[b]) \/ Idle(e.block[b])
  <2>1. S \in SUBSET Blocks(q, p)
    BY <1>1 DEF Blocks
  <2>2. CASE m.pool[p].tail # Bad
    BY <1>1, <2>1, <2>2, RefillInv
  <2>3. CASE S = {}
    <3>1. e = q
      BY <1>1, <2>3, EnqueueNone DEF MemInv
    <3> HIDE DEF e
    <3> QED BY <1>1, <2>3, <3>1, AltersNone
  <2> QED BY <2>2, <2>3
<1> HIDE DEF e
<1>3. /\ MemInv(r) /\ r.pool = e.pool
      /\ \A b \in Block : b[1] # p => r.block[b] = e.block[b]
      /\ \A b \in Block : /\ SameUse(r.block[b], e.block[b])
                          /\ r.block[b].link = e.block[b].link
                          /\ \/ r.block[b] = e.block[b]
                             \/ Lost(e, b) /\ r.block[b].age = e.block[b].age + 1
  BY <1>2, AgedKeeps DEF e, q
<1>4. S \subseteq Block /\ \A b \in S : b[1] = p
  BY BlocksAre DEF MemInv
<1>12. \A x \in Pools : Blocks(m, x) \subseteq Blocks(r, x)
  <2>1. \A x \in Pools : Blocks(m, x) = Blocks(q, x) /\ Blocks(e, x) = Blocks(r, x)
    BY <1>1, <1>3 DEF Blocks
  <2> QED BY <1>2, <2>1 DEF Alters
<1>5. ASSUME NEW b \in Block, Idle(e.block[b])
      PROVE  Freed(r.block[b])
  BY <1>3, <1>5 DEF Idle, Freed, SameUse
<1>6. ASSUME NEW b \in S PROVE Freed(r.block[b])
  <2>1. q.block[b].link = Nil /\ q.block[b].orphaned # 0
    BY <1>1, <1>4
  <2>2. ~Refused(q.block[b])
    BY <2>1 DEF Refused
  <2> QED BY <1>2, <1>4, <1>5, <2>2
<1>7. ASSUME NEW b \in Block, b \notin S, b[1] = p
      PROVE  \/ Freed(r.block[b]) /\ ~m.block[b].assigned
             \/ Left(r.block[b], m.block[b])
  <2>1. q.block[b] = m.block[b]
    BY <1>1, <1>7
  <2>2. CASE e.block[b] = m.block[b]
    <3>1. Lost(e, b) => ~InUse(m.block[b])
      BY <2>2 DEF Lost, InUse
    <3>2. SameUse(r.block[b], m.block[b])
      BY <1>3, <2>2
    <3>3. \/ r.block[b].age = m.block[b].age
          \/ r.block[b].age = m.block[b].age + 1 /\ ~InUse(m.block[b])
      BY <1>3, <2>2, <3>1
    <3> QED BY <3>2, <3>3 DEF Left
  <2>3. CASE e.block[b] # m.block[b]
    <3>1. Idle(e.block[b]) /\ ~m.block[b].assigned
      BY <1>2, <1>7, <2>1, <2>3 DEF Alters
    <3> QED BY <1>5, <3>1
  <2> QED BY <2>2, <2>3
<1>8. \A b \in Block : b[1] # p => r.block[b] = m.block[b]
  BY <1>1, <1>2, <1>3, <1>4
<1>11. ASSUME NEW b \in Block, b[1] = p, r.block[b].age # 0, r.block[b].age # m.block[b].age
       PROVE  b \in Blocks(r, p)
  <2>1. CASE r.block[b] # e.block[b]
    <3>1. b \in Blocks(e, b[1])
      BY <1>3, <2>1 DEF Lost
    <3> QED BY <1>3, <1>11, <3>1 DEF Blocks
  <2>2. CASE r.block[b] = e.block[b]
    <3>1. e.block[b] = q.block[b]
      BY <1>2, <1>11, <2>2 DEF Alters, Idle
    <3>2. b \in S
      BY <1>1, <1>11, <2>2, <3>1
    <3> QED BY <1>12, <3>2
  <2> QED BY <2>1, <2>2
<1>9. Recovered(m, p, S, r)
  BY <1>6, <1>7, <1>8, <1>11 DEF Recovered
<1>10. NoBad(m) => NoBad(r)
  <2>1. NoBad(m) => NoBad(q)
    BY <1>1, LinkAssumption DEF NoBad
  <2>2. NoBad(e) => NoBad(r)
    BY <1>3 DEF NoBad
  <2> QED BY <1>2, <2>1, <2>2 DEF Alters
<1> QED BY <1>3, <1>9, <1>10, <1>12

\* Orphans go to the free queue (ObjectPool::RecoverBlocks).  None of them is on it,
\* because those were unmarked.
LEMMA RecoverBlocksInv ==
  ASSUME IInv, RecoverBlocks
  PROVE  /\ IInv' /\ (NoBad(Memory) => NoBad(Memory'))
         /\ \/ NextPool("CheckingFreeq") /\ Recovered(Memory, pid, Orphans(pid), Memory')
            \/ Reenter /\ \A b \in Block : \/ block'[b] = block[b]
                                           \/ b \in Orphans(pid) /\ Idle(block'[b])
         /\ \A x \in Pools : Blocks(Memory, x) \subseteq Blocks(Memory', x)
<1> DEFINE p == pid
           S == Orphans(p)
           first == CHOOSE b \in S : \A c \in S : b[2] <= c[2]
<1>1. MemInv(Memory) /\ AuditInv /\ p \in Pools /\ Memory \in Mem
  BY DEF IInv, AuditInv, MemInv
<1>2. /\ S \subseteq Blocks(Memory, p)
      /\ \A b \in S : Memory.block[b].orphaned # 0
  BY DEF Orphans, Memory, OrphanThreshold
<1>3. /\ UNCHANGED <<claimed, faults>>
      /\ \/ /\ NextPool("CheckingFreeq")
            /\ S = {} \/ pool[p].tail # Bad
            /\ Store(Aged(EnqueueAll(CleanUp(Memory, S), p, S), p))
         \/ /\ Reenter
            /\ S # {} /\ pool[p].tail = Bad
            /\ Store([CleanUp(Memory, {first}) EXCEPT !.block[first] = FreeBlock(@)])
  BY DEF RecoverBlocks
<1> HIDE DEF p, S
<1>4. CASE /\ NextPool("CheckingFreeq")
           /\ S = {} \/ pool[p].tail # Bad
           /\ Store(Aged(EnqueueAll(CleanUp(Memory, S), p, S), p))
  <2> DEFINE r == Aged(EnqueueAll(CleanUp(Memory, S), p, S), p)
  <2>1. /\ MemInv(r) /\ Recovered(Memory, p, S, r) /\ (NoBad(Memory) => NoBad(r))
        /\ \A x \in Pools : Blocks(Memory, x) \subseteq Blocks(r, x)
    <3>1. S \in SUBSET Blocks(Memory, p) /\ (S = {} \/ Memory.pool[p].tail # Bad)
      BY <1>2, <1>4 DEF Memory
    <3> QED BY <1>1, <1>2, <3>1, RecoverAll
  <2>2. Store(r)
    BY <1>4
  <2> HIDE DEF r
  <2>3. AuditInv'
    <3>1. phase' \in Phases /\ pid' \in Pools
      BY <1>1, <1>4, NextPoolOK DEF Phases
    <3> QED BY <1>1, <1>3, <3>1 DEF AuditInv, faults
  <2>4. IInv' /\ Memory' = r
    BY <2>1, <2>2, <2>3, StoreInv
  <2> QED BY <1>4, <2>1, <2>4 DEF S, p
<1>5. CASE /\ Reenter
           /\ S # {} /\ pool[p].tail = Bad
           /\ Store([CleanUp(Memory, {first}) EXCEPT !.block[first] = FreeBlock(@)])
  <2>1. first \in S /\ first \in Block
    <3> DEFINE T == {b[2] : b \in S}
    <3>1. T \in SUBSET Nat /\ T # {}
      BY <1>1, <1>2, <1>5, BlocksAre
    <3>2. PICK i \in T : \A j \in T : i <= j
      <4> HIDE DEF T
      <4> QED BY <3>1, LeastElement
    <3>3. PICK b \in S : b[2] = i
      BY <3>2
    <3>4. \A c \in S : b[2] <= c[2]
      BY <3>2, <3>3
    <3>5. first \in S
      BY <3>4
    <3> QED BY <1>1, <1>2, <3>5, BlocksAre
  <2> HIDE DEF first
  <2> DEFINE m == CleanUp(Memory, {first})
             x == FreeBlock(m.block[first])
             r == WithBlock(m, first, x)
  <2>2. /\ MemInv(m)
        /\ m.block[first].orphaned # 0
        /\ \A b \in Block : b # first => m.block[b] = Memory.block[b]
        /\ m.pool = Memory.pool
    BY <1>1, <1>2, <2>1, CleanUpKeeps
  <2>3. Store(r)
    BY <1>5 DEF WithBlock
  <2> HIDE DEF m
  <2>4. m \in Mem /\ m.block[first] \in BlockRecord
    BY <2>1, <2>2 DEF MemInv, Mem
  <2>5. x \in BlockRecord /\ ~x.assigned /\ Idle(x)
    BY <2>4, FreeBlockIs DEF Idle
  <2> HIDE DEF x
  <2>6. /\ r \in Mem /\ r.block[first] = x /\ r.pool = m.pool
        /\ \A y \in Block : y # first => r.block[y] = m.block[y]
    BY <2>1, <2>4, <2>5, BlockChanged
  <2> HIDE DEF r
  <2>7. \A b \in Block : SameItem(r.block[b], m.block[b]) \/ m.block[b].orphaned # 0
    BY <2>2, <2>6 DEF SameItem
  <2>8. \A b \in Block : r.block[b].assigned => m.block[b].assigned
    BY <2>5, <2>6
  <2>9. MemInv(r)
    BY <2>2, <2>6, <2>7, <2>8, OtherBlocks
  <2>10. AuditInv'
    BY <1>1, <1>3, <1>5 DEF AuditInv, faults, Reenter
  <2>11. IInv' /\ Memory' = r
    BY <2>3, <2>9, <2>10, StoreInv
  <2>12. \A b \in Block : \/ block'[b] = block[b]
                          \/ b \in S /\ Idle(block'[b])
    <3>1. block' = r.block /\ Memory.block = block
      BY <2>11 DEF Memory
    <3> QED BY <2>1, <2>2, <2>5, <2>6, <3>1
  <2>14. \A y \in Pools : Blocks(Memory, y) \subseteq Blocks(Memory', y)
    BY <2>6, <2>11, <2>2 DEF Blocks
  <2>13. ~NoBad(Memory)
    BY <1>1, <1>5 DEF NoBad, Memory
  <2> QED BY <1>5, <2>11, <2>12, <2>13, <2>14 DEF S, p
<1> QED BY <1>3, <1>4, <1>5

\* The pool P of M is as before except for marks, and its queue is S.
Seen(m, p, s, n, o, r) ==
  /\ r \in Mem /\ r.pool = m.pool
  /\ \A b \in Block : b[1] # p => r.block[b] = m.block[b]
  /\ \A b \in Block : r.block[b].assigned = m.block[b].assigned
  /\ Ring(r, p, s, n, o) /\ Counted(r, p, s, n)

\* A block was marked.
OnceMore(x, y) ==
  /\ x.orphaned = (y.orphaned + 1) % 256
  /\ x.assigned = y.assigned /\ x.holder = y.holder /\ x.moved = y.moved
  /\ x.age = y.age /\ x.link = y.link

\* Blocks were marked, and some of them put on the queue.
Audited(m, p, r) ==
  /\ \A b \in Block :
       \/ Idle(r.block[b])
       \/ IF b \in Blocks(m, p) THEN OnceMore(r.block[b], m.block[b])
                              ELSE r.block[b] = m.block[b]
  /\ \A x \in Pools : Blocks(m, x) \subseteq Blocks(r, x)
  /\ NoBad(m) => NoBad(r)

\* A truncated queue may get another segment.
LEMMA AuditedAlters ==
  ASSUME NEW m, NEW p, NEW r, NEW q, Audited(m, p, r), Alters(r, q)
  PROVE  Audited(m, p, q)
BY DEF Audited, Alters

\* All blocks are marked.
LEMMA MarkedRing ==
  ASSUME NEW m \in Mem, NEW p \in Pools, NEW s, NEW n,
         Ring(m, p, s, n, 0), Counted(m, p, s, n), NEW r, r = Marked(m, p)
  PROVE  /\ Seen(m, p, s, n, 1, r)
         /\ Audited(m, p, r)
<1> DEFINE g(b) == [m.block[b] EXCEPT !.orphaned = (@ + 1) % 256]
           B == Blocks(m, p)
           f == [b \in Block |-> IF b \in B THEN g(b) ELSE m.block[b]]
<1>1. \A b \in Block : m.block[b] \in BlockRecord
  BY DEF Mem
<1>2. r = WithBlocks(m, f)
  BY ZenonT(40) DEF Marked, WithBlocks
<1>3. \A b \in Block : /\ g(b) \in BlockRecord /\ g(b).link = m.block[b].link
                       /\ g(b).assigned = m.block[b].assigned
                       /\ g(b).corrupt = m.block[b].corrupt
                       /\ m.block[b].orphaned = 0 => g(b).orphaned = 1
                       /\ g(b).age = m.block[b].age /\ OnceMore(g(b), m.block[b])
  <2> SUFFICES ASSUME NEW b \in Block, NEW x, x = m.block[b], x \in BlockRecord
               PROVE  LET y == [x EXCEPT !.orphaned = (@ + 1) % 256]
                      IN /\ y \in BlockRecord /\ y.link = x.link
                         /\ y.assigned = x.assigned /\ y.corrupt = x.corrupt
                         /\ x.orphaned = 0 => y.orphaned = 1
                         /\ y.age = x.age /\ OnceMore(y, x)
    BY <1>1
  <2> DEFINE k == (x.orphaned + 1) % 256
             y == [x EXCEPT !.orphaned = k]
  <2>1. x.orphaned \in 0 .. 255
    BY DEF BlockRecord
  <2>2. \A i \in 0 .. 255 : (i + 1) % 256 \in 0 .. 255 /\ (i = 0 => (i + 1) % 256 = 1)
    BY SMTT(20)
  <2>3. k \in 0 .. 255 /\ (x.orphaned = 0 => k = 1)
    BY <2>1, <2>2
  <2> HIDE DEF k
  <2>4. y \in BlockRecord
    BY <2>3 DEF BlockRecord
  <2>5. /\ y.link = x.link /\ y.assigned = x.assigned /\ y.corrupt = x.corrupt
        /\ y.orphaned = k /\ y.age = x.age
    BY DEF BlockRecord
  <2>6. y.holder = x.holder /\ y.moved = x.moved
    BY DEF BlockRecord
  <2> HIDE DEF y
  <2>7. OnceMore(y, x)
    BY <2>5, <2>6 DEF OnceMore, k
  <2> QED BY <2>3, <2>4, <2>5, <2>7 DEF y, k
<1> HIDE DEF g
<1>4. B \subseteq Block /\ \A b \in B : b[1] = p
  BY BlocksAre
<1> HIDE DEF B
<1>5. /\ f \in [Block -> BlockRecord]
      /\ \A b \in Block : f[b] = IF b \in B THEN g(b) ELSE m.block[b]
  BY <1>1, <1>3
<1> HIDE DEF f
<1>6. r \in Mem /\ r.pool = m.pool /\ r.block = f
  BY <1>2, <1>5, BlocksChanged
<1>7. Blocks(r, p) = B
  BY <1>6 DEF Blocks, B
<1>8. /\ n \in Nat
      /\ \A i \in 0 .. n - 1 : s[i] \in B /\ s[i] \in Block
      /\ n > 0 => n - 1 \in 0 .. n - 1
  BY RingBlocks DEF B
<1>9. \A i \in 0 .. n - 1 : r.block[s[i]].link = m.block[s[i]].link
  BY <1>3, <1>5, <1>6, <1>8
<1>10. \A i \in 0 .. n - 1 :
         /\ ~r.block[s[i]].assigned /\ r.block[s[i]].age = 0 /\ r.block[s[i]].orphaned = 1
         /\ r.block[s[i]].corrupt => r.block[s[i]].link = Bad
  <2>1. \A i \in 0 .. n - 1 :
          /\ ~m.block[s[i]].assigned /\ m.block[s[i]].age = 0 /\ m.block[s[i]].orphaned = 0
          /\ m.block[s[i]].corrupt => m.block[s[i]].link = Bad
    BY DEF Ring
  <2> QED BY <1>3, <1>5, <1>6, <1>8, <2>1
<1>11. Ring(r, p, s, n, 1)
  <2>1. /\ s \in [0 .. n - 1 -> Blocks(r, p)]
        /\ \A i, j \in 0 .. n - 1 : s[i] = s[j] => i = j
        /\ m.pool[p].tail \in IF n = 0 THEN {Nil, Bad} ELSE {s[0]}
        /\ \A i \in 0 .. n - 2 : m.block[s[i]].link = s[i + 1]
        /\ n > 0 => m.block[s[n - 1]].link \in {s[0], Bad}
    BY <1>7 DEF Ring, B
  <2>2. \A i \in 0 .. n - 2 : i \in 0 .. n - 1
    BY <1>8
  <2>3. \A i \in 0 .. n - 2 : r.block[s[i]].link = s[i + 1]
    BY <1>9, <2>1, <2>2
  <2>4. n > 0 => r.block[s[n - 1]].link \in {s[0], Bad}
    BY <1>8, <1>9, <2>1
  <2> QED BY <1>6, <1>8, <1>10, <2>1, <2>3, <2>4 DEF Ring
<1>12. Counted(r, p, s, n)
  BY <1>6, <1>8, <1>9 DEF Counted, Sound
<1>13. \A b \in Block : b[1] # p => r.block[b] = m.block[b]
  BY <1>4, <1>5, <1>6
<1>14. \A b \in Block : r.block[b].assigned = m.block[b].assigned
  BY <1>3, <1>5, <1>6
<1>15. Audited(m, p, r)
  <2>1. \A b \in Block : IF b \in B THEN OnceMore(r.block[b], m.block[b])
                                   ELSE r.block[b] = m.block[b]
    BY <1>3, <1>5, <1>6
  <2>2. \A b \in Block : r.block[b].link = m.block[b].link
    BY <1>3, <1>5, <1>6
  <2>3. \A x \in Pools : Blocks(m, x) \subseteq Blocks(r, x)
    BY <1>6 DEF Blocks
  <2> QED BY <1>6, <2>1, <2>2, <2>3 DEF Audited, NoBad, B
<1> QED BY <1>6, <1>11, <1>12, <1>13, <1>14, <1>15 DEF Seen, B

\* The traversal ends behind the last item of the queue.
LEMMA FirstEndIs ==
  ASSUME NEW m \in Mem, NEW p \in Pools, NEW s, NEW n,
         Ring(m, p, s, n, 1), Counted(m, p, s, n), NEW v, v = Visit(m, p)
  PROVE  FirstEnd(m, p, v) = n
<1> DEFINE T == Total(m, p)
<1>1. /\ n \in 0 .. T /\ T \in Nat /\ v \in [0 .. T -> Links]
      /\ \A k \in 0 .. n - 1 : v[k] = s[k]
      /\ v[n] = IF n = 0 THEN m.pool[p].tail ELSE m.block[s[n - 1]].link
  BY VisitRing DEF Visits
<1>2. /\ Bad \notin Block /\ Nil \notin Block
      /\ \A i \in 0 .. n - 1 : s[i] \in Block
      /\ n > 0 => 0 \in 0 .. n - 1 /\ n - 1 \in 0 .. n - 1 /\ m.pool[p].tail = s[0]
      /\ n = 0 => m.pool[p].tail \in {Nil, Bad}
  BY RingBlocks
<1>3. /\ \A i, j \in 0 .. n - 1 : s[i] = s[j] => i = j
      /\ \A i \in 0 .. n - 2 : m.block[s[i]].link = s[i + 1]
      /\ n > 0 => m.block[s[n - 1]].link \in {s[0], Bad}
      /\ \A i \in 0 .. n - 1 : m.block[s[i]].orphaned = 1
      /\ \A i \in 0 .. n - 1 : m.block[s[i]].corrupt => m.block[s[i]].link = Bad
  BY DEF Ring
<1>4. m.pool[p].badHead => m.pool[p].tail = Bad
  BY DEF Counted
<1> HIDE DEF T
<1>5. EndsAt(m, p, v, n)
  <2>1. \A j \in 0 .. n - 1 : v[j] \in Block
    BY <1>1, <1>2
  <2>2. Closed(v, n) \/ v[n] \notin Block
    <3>1. CASE n = 0
      BY <1>1, <1>2, <3>1
    <3>2. CASE n > 0
      BY <1>1, <1>2, <1>3, <3>2 DEF Closed
    <3> QED BY <1>1, <3>1, <3>2
  <2> QED BY <2>1, <2>2 DEF EndsAt
<1>6. ASSUME NEW k \in 0 .. n - 1 PROVE ~EndsAt(m, p, v, k)
  <2>1. v[k] = s[k] /\ v[k] \in Block /\ 0 \in 0 .. n - 1 /\ v[0] = s[0] /\ n > 0
    BY <1>1, <1>2
  <2>2. ~Closed(v, k)
    BY <1>3, <2>1 DEF Closed
  <2>3. ~Flagged(m, p, v, k)
    <3>1. CASE k = 0
      BY <1>2, <1>4, <2>1, <3>1 DEF Flagged
    <3>2. CASE k > 0
      <4>1. k - 1 \in 0 .. n - 1 /\ k - 1 \in 0 .. n - 2 /\ k - 1 + 1 = k /\ k # 0
        BY <1>1, <3>2
      <4>2. m.block[s[k - 1]].link = s[k] /\ v[k - 1] = s[k - 1]
        BY <1>1, <1>3, <4>1
      <4>3. ~m.block[s[k - 1]].corrupt
        BY <1>2, <1>3, <4>1, <4>2
      <4> QED BY <4>1, <4>2, <4>3 DEF Flagged
    <3> QED BY <1>1, <3>1, <3>2
  <2>4. ~OutOfPlace(m, v, k)
    <3>1. \A j \in 0 .. k - 1 : j \in 0 .. n - 1 /\ j # k
      BY <1>1
    <3>2. \A j \in 0 .. k - 1 : v[j] # v[k]
      BY <1>1, <1>3, <2>1, <3>1
    <3>3. m.block[v[k]].orphaned \in 1 .. OrphanThreshold
      BY <1>3, <2>1 DEF OrphanThreshold
    <3> QED BY <3>2, <3>3 DEF OutOfPlace
  <2> QED BY <2>1, <2>2, <2>3, <2>4 DEF EndsAt, BadLink
<1> DEFINE First(k) == EndsAt(m, p, v, k) /\ \A j \in 0 .. k - 1 : ~EndsAt(m, p, v, j)
           D == DOMAIN v
<1>7. n \in D /\ First(n)
  BY <1>1, <1>5, <1>6
<1>8. ASSUME NEW k \in D, First(k) PROVE k = n
  <2>1. k \in 0 .. T
    BY <1>1
  <2>2. CASE k < n
    <3>1. k \in 0 .. n - 1
      BY <1>1, <2>1, <2>2
    <3> QED BY <1>6, <1>8, <3>1
  <2>3. CASE n < k
    <3>1. n \in 0 .. k - 1
      BY <1>1, <2>1, <2>3
    <3> QED BY <1>5, <1>8, <3>1
  <2> QED BY <1>1, <2>1, <2>2, <2>3
<1>9. FirstEnd(m, p, v) = CHOOSE k \in D : First(k)
  BY DEF FirstEnd
<1> HIDE DEF First, D
<1> QED BY <1>7, <1>8, <1>9

\* A flag may be set or reset.
LEMMA FlagType ==
  ASSUME NEW x \in BlockRecord, NEW c \in BOOLEAN
  PROVE  [x EXCEPT !.corrupt = c] \in BlockRecord
BY DEF BlockRecord

\* Those on the queue are unmarked.
LEMMA UnmarkRing ==
  ASSUME NEW m \in Mem, NEW p \in Pools, NEW s, NEW n,
         Ring(m, p, s, n, 1), Counted(m, p, s, n), NEW v, v = Visit(m, p),
         NEW r, r = Unmark(m, v, n)
  PROVE  /\ Seen(m, p, s, n, 0, r) /\ Alters(m, r)
         /\ \A i \in 0 .. n - 1 : /\ ~r.block[s[i]].corrupt
                                  /\ r.block[s[i]].link = m.block[s[i]].link
<1> DEFINE g(b) == [m.block[b] EXCEPT !.orphaned = 0, !.corrupt = FALSE]
           S == On(s, n)
           f == [b \in Block |-> IF b \in S THEN g(b) ELSE m.block[b]]
<1>1. \A b \in Block : m.block[b] \in BlockRecord
  BY DEF Mem
<1>2. /\ n \in Nat
      /\ \A i \in 0 .. n - 1 : s[i] \in Block /\ s[i] \in Blocks(m, p)
      /\ n > 0 => n - 1 \in 0 .. n - 1
  BY RingBlocks
<1>3. r = WithBlocks(m, f)
  <2>1. \A k \in 0 .. n - 1 : v[k] = s[k]
    BY VisitRing DEF Visits
  <2>2. \A b \in Block : (\E j \in 0 .. n - 1 : v[j] = b) <=> b \in S
    BY <2>1 DEF On
  <2> HIDE DEF S
  <2>3. [b \in Block |-> IF \E j \in 0 .. n - 1 : v[j] = b
                           THEN [m.block[b] EXCEPT !.orphaned = 0, !.corrupt = FALSE]
                           ELSE m.block[b]] = f
    BY <2>2
  <2> HIDE DEF f
  <2> QED BY <2>3 DEF Unmark, WithBlocks
<1>4. \A b \in Block : /\ g(b) \in BlockRecord /\ g(b).link = m.block[b].link
                       /\ g(b).assigned = m.block[b].assigned
                       /\ g(b).orphaned = 0 /\ ~g(b).corrupt /\ g(b).age = m.block[b].age
  <2> SUFFICES ASSUME NEW b \in Block, NEW x, x = m.block[b], x \in BlockRecord
               PROVE  LET y == [x EXCEPT !.orphaned = 0, !.corrupt = FALSE]
                      IN /\ y \in BlockRecord /\ y.link = x.link
                         /\ y.assigned = x.assigned
                         /\ y.orphaned = 0 /\ ~y.corrupt /\ y.age = x.age
    BY <1>1
  <2> DEFINE z == [x EXCEPT !.orphaned = 0]
             y == [x EXCEPT !.orphaned = 0, !.corrupt = FALSE]
  <2>1. z \in BlockRecord
    BY DEF BlockRecord
  <2>2. y = [z EXCEPT !.corrupt = FALSE]
    BY DEF BlockRecord
  <2>3. /\ y.link = x.link /\ y.assigned = x.assigned /\ y.orphaned = 0 /\ ~y.corrupt
        /\ y.age = x.age
    BY DEF BlockRecord
  <2> HIDE DEF z, y
  <2>4. y \in BlockRecord
    BY <2>1, <2>2, FlagType
  <2> QED BY <2>3, <2>4 DEF y
<1> HIDE DEF g
<1>5. /\ S \subseteq Block /\ (\A i \in 0 .. n - 1 : s[i] \in S)
      /\ \A b \in S : b[1] = p
  BY <1>2, BlocksAre DEF On
<1> HIDE DEF S
<1>6. /\ f \in [Block -> BlockRecord]
      /\ \A b \in Block : f[b] = IF b \in S THEN g(b) ELSE m.block[b]
  BY <1>1, <1>4
<1> HIDE DEF f
<1>7. r \in Mem /\ r.pool = m.pool /\ r.block = f
  BY <1>3, <1>6, BlocksChanged
<1>8. Blocks(r, p) = Blocks(m, p)
  BY <1>7 DEF Blocks
<1>9. \A i \in 0 .. n - 1 : /\ r.block[s[i]].link = m.block[s[i]].link
                            /\ r.block[s[i]].assigned = m.block[s[i]].assigned
                            /\ r.block[s[i]].orphaned = 0 /\ ~r.block[s[i]].corrupt
                            /\ r.block[s[i]].age = m.block[s[i]].age
  BY <1>2, <1>4, <1>5, <1>6, <1>7
<1>10. Ring(r, p, s, n, 0)
  <2>1. /\ s \in [0 .. n - 1 -> Blocks(r, p)]
        /\ \A i, j \in 0 .. n - 1 : s[i] = s[j] => i = j
        /\ m.pool[p].tail \in IF n = 0 THEN {Nil, Bad} ELSE {s[0]}
        /\ \A i \in 0 .. n - 2 : m.block[s[i]].link = s[i + 1]
        /\ n > 0 => m.block[s[n - 1]].link \in {s[0], Bad}
        /\ \A i \in 0 .. n - 1 : ~m.block[s[i]].assigned /\ m.block[s[i]].age = 0
    BY <1>8 DEF Ring
  <2>2. \A i \in 0 .. n - 2 : i \in 0 .. n - 1
    BY <1>2
  <2>3. \A i \in 0 .. n - 2 : r.block[s[i]].link = s[i + 1]
    BY <1>9, <2>1, <2>2
  <2>4. n > 0 => r.block[s[n - 1]].link \in {s[0], Bad}
    BY <1>2, <1>9, <2>1
  <2>5. \A i \in 0 .. n - 1 :
          /\ ~r.block[s[i]].assigned /\ r.block[s[i]].age = 0 /\ r.block[s[i]].orphaned = 0
          /\ r.block[s[i]].corrupt => r.block[s[i]].link = Bad
    BY <1>9, <2>1
  <2> QED BY <1>2, <1>7, <2>1, <2>3, <2>4, <2>5 DEF Ring
<1>11. Counted(r, p, s, n)
  BY <1>2, <1>7, <1>9 DEF Counted, Sound
<1>12. \A b \in Block : b[1] # p => r.block[b] = m.block[b]
  BY <1>5, <1>6, <1>7
<1>13. \A b \in Block : r.block[b].assigned = m.block[b].assigned
  BY <1>4, <1>6, <1>7
<1>14. Alters(m, r)
  <2>1. \A i \in 0 .. n - 1 : Idle(r.block[s[i]])
    BY <1>10 DEF Ring, Idle
  <2>2. \A b \in S : Idle(r.block[b])
    BY <2>1 DEF On, S
  <2>3. \A b \in Block : r.block[b] = m.block[b] \/ Idle(r.block[b])
    BY <1>6, <1>7, <2>2
  <2>4. \A b \in Block : r.block[b].link = m.block[b].link
    BY <1>4, <1>6, <1>7
  <2>5. \A x \in Pools : Blocks(m, x) \subseteq Blocks(r, x)
    BY <1>7 DEF Blocks
  <2> QED BY <1>7, <2>3, <2>4, <2>5 DEF Alters, NoBad
<1> QED BY <1>7, <1>9, <1>10, <1>11, <1>12, <1>13, <1>14 DEF Seen

\* All links of a queue can be followed.
Repaired(m, p) == Bad \notin {Visit(m, p)[k] : k \in DOMAIN Visit(m, p)}

\* A queue that can be followed has no corrupt link.
LEMMA RepairedIs ==
  ASSUME NEW m \in Mem, NEW p \in Pools, NEW s, NEW n, NEW o, Ring(m, p, s, n, o)
  PROVE  Repaired(m, p) <=> Sound(m, p, s, n)
<1> DEFINE v == Visit(m, p)
           T == Total(m, p)
<1>1. /\ v \in [0 .. T -> Links]
      /\ Sound(m, p, s, n) <=> \A k \in 0 .. T : v[k] # Bad
  BY VisitRing DEF Visits
<1>2. Repaired(m, p) <=> Bad \notin {v[k] : k \in DOMAIN v}
  BY DEF Repaired
<1> HIDE DEF v, T
<1> QED BY <1>1, <1>2

\* A pool whose queue is a ring keeps the invariant if no block is in use that was not.
LEMMA RingInv ==
  ASSUME NEW m, MemInv(m), NEW p \in Pools, NEW r \in Mem,
         \A x \in Pools : x # p => r.pool[x] = m.pool[x],
         \A b \in Block : b[1] # p => r.block[b] = m.block[b],
         \A b \in Block : r.block[b].assigned => m.block[b].assigned,
         r.pool[p].segs = m.pool[p].segs, r.pool[p].delta \in Delta,
         \E s, n : Ring(r, p, s, n, 0) /\ Counted(r, p, s, n)
  PROVE  MemInv(r)
<1>1. m \in Mem /\ PoolInv(m, p)
  BY DEF MemInv
<1>2. Blocks(r, p) = Blocks(m, p)
  BY DEF Blocks
<1>3. \A b \in Block : b[1] = p /\ r.block[b].assigned => b \in Blocks(r, p)
  BY <1>1, <1>2 DEF PoolInv
<1>4. PoolInv(r, p)
  BY <1>1, <1>3 DEF PoolInv
<1> QED BY <1>4, OtherPools

\* What the audit has seen of a queue leaves it as it was.
LEMMA SeenInv ==
  ASSUME NEW m, MemInv(m), NEW p \in Pools, NEW s, NEW n, NEW r, Seen(m, p, s, n, 0, r)
  PROVE  MemInv(r)
<1>1. m.pool[p].delta \in Delta
  BY DEF MemInv, PoolInv
<1>2. /\ r \in Mem /\ r.pool = m.pool
      /\ \A b \in Block : b[1] # p => r.block[b] = m.block[b]
      /\ \A b \in Block : r.block[b].assigned => m.block[b].assigned
      /\ \E z, k : Ring(r, p, z, k, 0) /\ Counted(r, p, z, k)
  BY DEF Seen
<1> QED BY <1>1, <1>2, RingInv

\* After the traversal of a good queue, the flag of its header is clear.
GoodHead(x) == [x EXCEPT !.badHead = FALSE]

\* The flag of a queue header is set only while the header is bad.
LEMMA GoodHeadInv ==
  ASSUME NEW m, MemInv(m), NEW p \in Pools, NEW s, NEW n,
         Ring(m, p, s, n, 0), Counted(m, p, s, n), m.pool[p].tail # Bad
  PROVE  WithPool(m, p, GoodHead(m.pool[p])) = m
<1>1. m \in Mem /\ m.pool[p] \in PoolRecord /\ m.pool \in [Pools -> PoolRecord]
  BY DEF MemInv, Mem
<1>2. m.pool[p].badHead = FALSE
  BY <1>1 DEF Counted, PoolRecord
<1>3. GoodHead(m.pool[p]) = m.pool[p]
  BY <1>1, <1>2 DEF GoodHead, PoolRecord
<1>4. [m.pool EXCEPT ![p] = m.pool[p]] = m.pool
  BY <1>1
<1>5. m = [pool |-> m.pool, block |-> m.block]
  BY <1>1 DEF Mem
<1>6. WithPool(m, p, m.pool[p]) = [m EXCEPT !.pool = [m.pool EXCEPT ![p] = m.pool[p]]]
  BY DEF WithPool
<1>7. WithPool(m, p, m.pool[p]) = [m EXCEPT !.pool = m.pool]
  BY <1>4, <1>6
<1>8. [m EXCEPT !.pool = m.pool] = m
  BY <1>5
<1> QED BY <1>3, <1>7, <1>8

\* What a header is after the truncation of a queue,
Emptied(x) == [x EXCEPT !.tail = Nil, !.avail = 0, !.badHead = FALSE]
Recounted(x, n) == [x EXCEPT !.avail = n]
LinkedTo(x, l) == [x EXCEPT !.link = l]
BadLinked(x) == [x EXCEPT !.corrupt = TRUE]
BadHead(x) == [x EXCEPT !.badHead = TRUE]
WithFlag(m, p, v, n) == SetFlag(m, p, v, n, TRUE)

\* and what the truncation of a queue with a bad link leaves.
LEMMA TruncatedInv ==
  ASSUME NEW m, MemInv(m), NEW p \in Pools, NEW s, NEW n,
         Ring(m, p, s, n, 0), Counted(m, p, s, n),
         \A i \in 0 .. n - 1 : ~m.block[s[i]].corrupt,
         NEW v, \A i \in 0 .. n - 1 : v[i] = s[i],
         NEW r, r = Truncated(m, p, v, n)
  PROVE  /\ MemInv(r) /\ Ring(r, p, s, n, 0) /\ Counted(r, p, s, n) /\ Sound(r, p, s, n)
         /\ Alters(m, r)
<1>1. m \in Mem /\ PoolInv(m, p) /\ m.pool[p] \in PoolRecord
  BY DEF MemInv, Mem
<1>2. /\ n \in Nat
      /\ \A i \in 0 .. n - 1 : s[i] \in Block /\ s[i] \in Blocks(m, p)
      /\ n > 0 => 0 \in 0 .. n - 1 /\ n - 1 \in 0 .. n - 1 /\ m.pool[p].tail = s[0]
  BY <1>1, RingBlocks
<1>3. CASE n = 0
  <2> DEFINE x == Emptied(m.pool[p])
  <2>1. r = WithPool(m, p, x)
    BY <1>3 DEF Truncated, WithPool, Emptied
  <2>2. x \in PoolRecord
    <3> DEFINE y == [m.pool[p] EXCEPT !.tail = Nil]
               z == [y EXCEPT !.avail = 0]
    <3>1. y \in PoolRecord
      BY <1>1 DEF PoolRecord, Links
    <3>2. x = [[y EXCEPT !.avail = 0] EXCEPT !.badHead = FALSE]
      BY <1>1 DEF PoolRecord, Emptied
    <3> HIDE DEF x, y
    <3>3. z \in PoolRecord
      BY <3>1 DEF PoolRecord
    <3>4. x = [z EXCEPT !.badHead = FALSE]
      BY <3>2
    <3> HIDE DEF z
    <3> QED BY <3>3, <3>4 DEF PoolRecord
  <2>3. /\ x.tail = Nil /\ x.avail = 0 /\ ~x.badHead
        /\ x.segs = m.pool[p].segs /\ x.delta = m.pool[p].delta
    BY <1>1 DEF PoolRecord, Emptied
  <2> HIDE DEF x
  <2>4. /\ r \in Mem /\ r.pool[p] = x /\ r.block = m.block
        /\ \A y \in Pools : y # p => r.pool[y] = m.pool[y]
    BY <1>1, <2>1, <2>2, PoolChanged
  <2>5. Ring(r, p, s, n, 0)
    <3>1. Blocks(r, p) = Blocks(m, p)
      BY <2>3, <2>4 DEF Blocks
    <3>2. s \in [0 .. n - 1 -> Blocks(r, p)] /\ 0 .. n - 1 = {} /\ 0 .. n - 2 = {}
      BY <1>3, <3>1 DEF Ring
    <3> QED BY <1>2, <1>3, <2>3, <2>4, <3>2 DEF Ring
  <2>6. Sound(r, p, s, n) /\ Counted(r, p, s, n)
    BY <1>3, <2>3, <2>4, LinkAssumption DEF Sound, Counted
  <2>7. MemInv(r)
    <3>1. r.pool[p].segs = m.pool[p].segs /\ r.pool[p].delta \in Delta
      BY <1>1, <2>3, <2>4 DEF PoolInv
    <3>2. \E z, k : Ring(r, p, z, k, 0) /\ Counted(r, p, z, k)
      BY <2>5, <2>6
    <3> QED BY <2>4, <3>1, <3>2, RingInv
  <2>8. Alters(m, r)
    <3>1. \A c \in Pools : Blocks(m, c) \subseteq Blocks(r, c)
      <4>1. r.pool[p].segs = m.pool[p].segs
        BY <2>3, <2>4
      <4> QED BY <2>4, <4>1, SameBlocks
    <3> QED BY <2>3, <2>4, <3>1, LinkAssumption DEF Alters, NoBad
  <2> QED BY <2>5, <2>6, <2>7, <2>8
<1>4. CASE n > 0
  <2> DEFINE b == s[n - 1]
             x == LinkedTo(m.block[b], s[0])
             q == WithBlock(m, b, x)
             y == Recounted(q.pool[p], n)
  <2>1. b \in Block /\ s[0] \in Block /\ v[n - 1] = b /\ v[0] = s[0] /\ n # 0
    BY <1>2, <1>4
  <2>2. m.block[b] \in BlockRecord
    BY <1>1, <2>1 DEF Mem
  <2>3. r = WithPool(q, p, y)
    <3>1. r = [m EXCEPT !.block[v[n - 1]].link = v[0], !.pool[p].avail = n]
      BY <2>1 DEF Truncated
    <3>2. r = [[m EXCEPT !.block[b].link = s[0]] EXCEPT !.pool[p].avail = n]
      BY <2>1, <3>1
    <3>3. q = [m EXCEPT !.block[b].link = s[0]]
      BY DEF WithBlock, LinkedTo
    <3>4. r = [q EXCEPT !.pool[p].avail = n]
      BY <3>2, <3>3
    <3> HIDE DEF q
    <3> QED BY <3>4, SMTT(20) DEF WithPool, Recounted
  <2>4. x \in BlockRecord
    BY <2>1, <2>2 DEF BlockRecord, LinkedTo, Links
  <2>5. /\ x.link = s[0] /\ x.assigned = m.block[b].assigned
        /\ x.orphaned = m.block[b].orphaned /\ x.age = m.block[b].age /\ x.corrupt = m.block[b].corrupt
    BY <2>2 DEF BlockRecord, LinkedTo
  <2> HIDE DEF x
  <2>6. /\ q \in Mem /\ q.block[b] = x /\ q.pool = m.pool
        /\ \A c \in Block : c # b => q.block[c] = m.block[c]
    BY <1>1, <2>1, <2>4, BlockChanged
  <2> HIDE DEF q
  <2>7. y \in PoolRecord /\ y.avail = n /\ y.tail = m.pool[p].tail /\ y.segs = m.pool[p].segs
        /\ y.delta = m.pool[p].delta /\ y.badHead = m.pool[p].badHead
    <3>1. q.pool[p] \in PoolRecord /\ q.pool[p] = m.pool[p]
      BY <1>1, <2>6
    <3>2. y \in PoolRecord
      BY <1>2, <3>1 DEF Recounted, PoolRecord
    <3>3. /\ y.avail = n /\ y.tail = m.pool[p].tail /\ y.segs = m.pool[p].segs
          /\ y.delta = m.pool[p].delta /\ y.badHead = m.pool[p].badHead
      BY <3>1 DEF Recounted, PoolRecord
    <3> QED BY <3>2, <3>3
  <2> HIDE DEF y
  <2>8. /\ r \in Mem /\ r.pool[p] = y /\ r.block = q.block
        /\ \A c \in Pools : c # p => r.pool[c] = m.pool[c]
    BY <2>3, <2>6, <2>7, PoolChanged
  <2>9. Blocks(r, p) = Blocks(m, p)
    BY <2>7, <2>8 DEF Blocks
  <2>10. \A i \in 0 .. n - 1 :
           /\ r.block[s[i]].assigned = m.block[s[i]].assigned
           /\ r.block[s[i]].orphaned = m.block[s[i]].orphaned /\ r.block[s[i]].age = m.block[s[i]].age
           /\ ~r.block[s[i]].corrupt
    BY <1>2, <2>1, <2>5, <2>6, <2>8
  <2>11. \A i \in 0 .. n - 2 : i \in 0 .. n - 1 /\ r.block[s[i]] = m.block[s[i]]
    <3> TAKE i \in 0 .. n - 2
    <3>1. i \in 0 .. n - 1 /\ n - 1 \in 0 .. n - 1 /\ i # n - 1
      BY <1>2, <1>4
    <3>2. s[i] # b
      BY <3>1 DEF Ring
    <3> QED BY <1>2, <2>6, <2>8, <3>1, <3>2
  <2>12. r.block[s[n - 1]].link = s[0]
    BY <2>5, <2>6, <2>8
  <2>13. Ring(r, p, s, n, 0)
    <3>1. /\ s \in [0 .. n - 1 -> Blocks(r, p)]
          /\ \A i, j \in 0 .. n - 1 : s[i] = s[j] => i = j
          /\ \A i \in 0 .. n - 2 : m.block[s[i]].link = s[i + 1]
          /\ \A i \in 0 .. n - 1 : ~m.block[s[i]].assigned /\ m.block[s[i]].age = 0 /\ m.block[s[i]].orphaned = 0
      BY <2>9 DEF Ring
    <3>2. \A i \in 0 .. n - 2 : r.block[s[i]].link = s[i + 1]
      BY <2>11, <3>1
    <3>3. \A i \in 0 .. n - 1 :
            /\ ~r.block[s[i]].assigned /\ r.block[s[i]].age = 0 /\ r.block[s[i]].orphaned = 0
            /\ r.block[s[i]].corrupt => r.block[s[i]].link = Bad
      BY <2>10, <3>1
    <3>4. r.pool[p].tail \in IF n = 0 THEN {Nil, Bad} ELSE {s[0]}
      BY <1>2, <1>4, <2>1, <2>7, <2>8
    <3> QED BY <1>2, <2>12, <3>1, <3>2, <3>3, <3>4 DEF Ring
  <2>14. Sound(r, p, s, n)
    BY <1>2, <1>4, <2>1, <2>7, <2>8, <2>12, LinkAssumption DEF Sound
  <2>15. Counted(r, p, s, n)
    BY <1>2, <2>7, <2>8 DEF Counted
  <2>16. MemInv(r)
    <3>1. r.pool[p].segs = m.pool[p].segs /\ r.pool[p].delta \in Delta
      BY <1>1, <2>7, <2>8 DEF PoolInv
    <3>2. \E z, k : Ring(r, p, z, k, 0) /\ Counted(r, p, z, k)
      BY <2>13, <2>15
    <3>3. \A c \in Block : c[1] # p => r.block[c] = m.block[c]
      <4>1. b[1] = p
        BY <1>1, <1>2, <1>4, BlocksAre
      <4> QED BY <2>6, <2>8, <4>1
    <3>4. \A c \in Block : r.block[c].assigned => m.block[c].assigned
      BY <2>5, <2>6, <2>8
    <3> QED BY <2>8, <3>1, <3>2, <3>3, <3>4, RingInv
  <2>17. Alters(m, r)
    <3>1. Idle(x)
      BY <1>2, <1>4, <2>5 DEF Ring, Idle
    <3>2. \A c \in Block : r.block[c] = m.block[c] \/ Idle(r.block[c])
      BY <2>6, <2>8, <3>1
    <3>3. \A c \in Block : m.block[c].link # Bad => r.block[c].link # Bad
      BY <2>1, <2>5, <2>6, <2>8, LinkAssumption
    <3>4. \A c \in Pools : r.pool[c].tail = m.pool[c].tail
      BY <2>7, <2>8
    <3>5. \A c \in Pools : Blocks(m, c) \subseteq Blocks(r, c)
      BY <2>7, <2>8, SameBlocks
    <3> QED BY <3>2, <3>3, <3>4, <3>5 DEF Alters, NoBad
  <2> QED BY <2>13, <2>14, <2>15, <2>16, <2>17
<1> QED BY <1>2, <1>3, <1>4

\* A bad link that was not known is flagged, and the audit traps.
LEMMA SetFlagInv ==
  ASSUME NEW m, MemInv(m), NEW p \in Pools, NEW s, NEW n,
         Ring(m, p, s, n, 0), Counted(m, p, s, n), ~Sound(m, p, s, n),
         NEW v, \A i \in 0 .. n - 1 : v[i] = s[i],
         NEW r, r = WithFlag(m, p, v, n)
  PROVE  MemInv(r) /\ Alters(m, r)
<1>1. m \in Mem /\ PoolInv(m, p) /\ m.pool[p] \in PoolRecord
  BY DEF MemInv, Mem
<1>2. /\ n \in Nat
      /\ \A i \in 0 .. n - 1 : s[i] \in Block /\ s[i] \in Blocks(m, p)
      /\ n > 0 => 0 \in 0 .. n - 1 /\ n - 1 \in 0 .. n - 1 /\ m.pool[p].tail = s[0]
      /\ n = 0 => m.pool[p].tail \in {Nil, Bad}
  BY <1>1, RingBlocks
<1>3. CASE n = 0
  <2> DEFINE x == BadHead(m.pool[p])
  <2>1. r = WithPool(m, p, x)
    BY <1>3 DEF WithFlag, SetFlag, WithPool, BadHead
  <2>2. x \in PoolRecord
    BY <1>1 DEF PoolRecord, BadHead
  <2>3. /\ x.tail = m.pool[p].tail /\ x.avail = m.pool[p].avail
        /\ x.segs = m.pool[p].segs /\ x.delta = m.pool[p].delta
    BY <1>1 DEF PoolRecord, BadHead
  <2> HIDE DEF x
  <2>4. /\ r \in Mem /\ r.pool[p] = x /\ r.block = m.block
        /\ \A y \in Pools : y # p => r.pool[y] = m.pool[y]
    BY <1>1, <2>1, <2>2, PoolChanged
  <2>5. m.pool[p].tail = Bad
    BY <1>3 DEF Sound
  <2>6. Ring(r, p, s, n, 0)
    <3>1. Blocks(r, p) = Blocks(m, p)
      BY <2>3, <2>4 DEF Blocks
    <3>2. s \in [0 .. n - 1 -> Blocks(r, p)] /\ 0 .. n - 1 = {} /\ 0 .. n - 2 = {}
      BY <1>3, <3>1 DEF Ring
    <3> QED BY <1>2, <1>3, <2>3, <2>4, <3>2 DEF Ring
  <2>7. Counted(r, p, s, n)
    BY <2>3, <2>4, <2>5 DEF Sound, Counted
  <2>8. r.pool[p].segs = m.pool[p].segs /\ r.pool[p].delta \in Delta
    BY <1>1, <2>3, <2>4 DEF PoolInv
  <2>9. \E z, k : Ring(r, p, z, k, 0) /\ Counted(r, p, z, k)
    BY <2>6, <2>7
  <2>10. Alters(m, r)
    <3>1. \A c \in Pools : Blocks(m, c) \subseteq Blocks(r, c)
      BY <2>3, <2>4, SameBlocks
    <3> QED BY <2>3, <2>4, <3>1 DEF Alters, NoBad
  <2> QED BY <2>4, <2>8, <2>9, <2>10, RingInv
<1>4. CASE n > 0
  <2> DEFINE b == s[n - 1]
             x == BadLinked(m.block[b])
  <2>1. b \in Block /\ s[0] \in Block /\ v[n - 1] = b /\ n # 0
    BY <1>2, <1>4
  <2>2. m.block[b] \in BlockRecord
    BY <1>1, <2>1 DEF Mem
  <2>3. r = WithBlock(m, b, x)
    BY <2>1 DEF WithFlag, SetFlag, WithBlock, BadLinked
  <2>4. x \in BlockRecord
    BY <2>2, FlagType DEF BadLinked
  <2>5. /\ x.link = m.block[b].link /\ x.assigned = m.block[b].assigned
        /\ x.orphaned = m.block[b].orphaned /\ x.age = m.block[b].age
    BY <2>2 DEF BlockRecord, BadLinked
  <2> HIDE DEF x
  <2>6. /\ r \in Mem /\ r.block[b] = x /\ r.pool = m.pool
        /\ \A c \in Block : c # b => r.block[c] = m.block[c]
    BY <1>1, <2>1, <2>3, <2>4, BlockChanged
  <2>7. m.block[b].link = Bad
    <3>1. m.pool[p].tail # Bad
      BY <1>2, <1>4, <2>1, LinkAssumption
    <3> QED BY <1>4, <3>1 DEF Sound, Ring
  <2>8. \A i \in 0 .. n - 1 :
          /\ r.block[s[i]].link = m.block[s[i]].link
          /\ r.block[s[i]].assigned = m.block[s[i]].assigned
          /\ r.block[s[i]].orphaned = m.block[s[i]].orphaned /\ r.block[s[i]].age = m.block[s[i]].age
          /\ s[i] # b => r.block[s[i]] = m.block[s[i]]
    BY <1>2, <2>1, <2>5, <2>6
  <2>9. Ring(r, p, s, n, 0)
    <3>1. Blocks(r, p) = Blocks(m, p)
      BY <2>6 DEF Blocks
    <3>2. /\ s \in [0 .. n - 1 -> Blocks(r, p)]
          /\ \A i, j \in 0 .. n - 1 : s[i] = s[j] => i = j
          /\ \A i \in 0 .. n - 2 : m.block[s[i]].link = s[i + 1]
          /\ m.block[s[n - 1]].link \in {s[0], Bad}
          /\ \A i \in 0 .. n - 1 : /\ ~m.block[s[i]].assigned /\ m.block[s[i]].age = 0 /\ m.block[s[i]].orphaned = 0
                                   /\ m.block[s[i]].corrupt => m.block[s[i]].link = Bad
          /\ r.pool[p].tail \in IF n = 0 THEN {Nil, Bad} ELSE {s[0]}
      BY <1>4, <2>6, <3>1 DEF Ring
    <3>3. \A i \in 0 .. n - 2 : i \in 0 .. n - 1
      BY <1>2
    <3>4. \A i \in 0 .. n - 2 : r.block[s[i]].link = s[i + 1]
      BY <2>8, <3>2, <3>3
    <3>5. r.block[s[n - 1]].link \in {s[0], Bad}
      BY <1>2, <1>4, <2>8, <3>2
    <3>6. \A i \in 0 .. n - 1 :
            /\ ~r.block[s[i]].assigned /\ r.block[s[i]].age = 0 /\ r.block[s[i]].orphaned = 0
            /\ r.block[s[i]].corrupt => r.block[s[i]].link = Bad
      BY <2>7, <2>8, <3>2
    <3> QED BY <1>2, <3>2, <3>4, <3>5, <3>6 DEF Ring
  <2>10. Counted(r, p, s, n)
    BY <1>2, <2>6, <2>8 DEF Counted, Sound
  <2>11. \A c \in Block : c[1] # p => r.block[c] = m.block[c]
    <3>1. b[1] = p
      BY <1>1, <1>2, <1>4, BlocksAre
    <3> QED BY <2>6, <3>1
  <2>12. \A c \in Block : r.block[c].assigned => m.block[c].assigned
    BY <2>5, <2>6
  <2>13. \E z, k : Ring(r, p, z, k, 0) /\ Counted(r, p, z, k)
    BY <2>9, <2>10
  <2>14. r.pool[p].segs = m.pool[p].segs /\ r.pool[p].delta \in Delta
    BY <1>1, <2>6 DEF PoolInv
  <2>15. Alters(m, r)
    <3>1. Idle(x)
      BY <1>2, <1>4, <2>5 DEF Ring, Idle
    <3>2. \A c \in Block : r.block[c] = m.block[c] \/ Idle(r.block[c])
      BY <2>6, <3>1
    <3>3. \A c \in Block : r.block[c].link = m.block[c].link
      BY <2>5, <2>6
    <3>4. \A c \in Pools : Blocks(m, c) \subseteq Blocks(r, c)
      BY <2>6 DEF Blocks
    <3> QED BY <2>6, <3>2, <3>3, <3>4 DEF Alters, NoBad
  <2> QED BY <2>6, <2>11, <2>12, <2>13, <2>14, <2>15, RingInv
<1> QED BY <1>2, <1>3, <1>4

\* Truncation and the pool's expansion leave a good queue.
LEMMA TruncatedAlarm ==
  ASSUME NEW m, MemInv(m), NEW p \in Pools, NEW s, NEW n,
         Ring(m, p, s, n, 0), Counted(m, p, s, n),
         \A i \in 0 .. n - 1 : ~m.block[s[i]].corrupt,
         NEW v, \A i \in 0 .. n - 1 : v[i] = s[i],
         NEW r, r = UpdateAlarm(Truncated(m, p, v, n), p)
  PROVE  MemInv(r) /\ Repaired(r, p) /\ Alters(m, r)
<1> DEFINE t == Truncated(m, p, v, n)
<1>1. /\ MemInv(t) /\ Ring(t, p, s, n, 0) /\ Counted(t, p, s, n) /\ Sound(t, p, s, n)
      /\ Alters(m, t)
  BY TruncatedInv
<1>2. r = UpdateAlarm(t, p)
  OBVIOUS
<1> HIDE DEF t
<1>3. t \in Mem /\ PoolInv(t, p) /\ t.pool[p].tail # Bad
  BY <1>1 DEF MemInv, Sound
<1>4. Grown(t, r, p, s, n) /\ r.pool[p].delta = 0
  BY <1>1, <1>2, <1>3, UpdateAlarmRing
<1>5. 0 \in Delta
  BY PoolAssumption DEF Delta
<1>6. PoolInv(r, p)
  <2>1. /\ 1 <= t.pool[p].segs
        /\ \A b \in Block : b[1] = p /\ t.block[b].assigned => b \in Blocks(t, p)
    BY <1>3 DEF PoolInv
  <2> QED BY <1>3, <1>4, <1>5, <2>1, GrownInv
<1>7. MemInv(r)
  BY <1>1, <1>4, <1>6, OtherPools DEF Grown
<1>8. PICK z, k : Ring(r, p, z, k, 0) /\ Sound(r, p, z, k)
  BY <1>1, <1>4 DEF Grown
<1>9. Repaired(r, p)
  BY <1>7, <1>8, RepairedIs DEF MemInv
<1>10. Alters(m, r)
  BY <1>1, <1>4, AltersTwice DEF Grown
<1> QED BY <1>7, <1>9, <1>10

\* The audit of a free queue.
LEMMA AuditFreeqInv ==
  ASSUME IInv, AuditFreeq
  PROVE  /\ IInv' /\ (Reenter \/ Repaired(Memory', pid))
         /\ Audited(Memory, pid, Memory')
         /\ (Reenter /\ ~NoBad(Memory)) \/ NextPool("ClaimingBlocks")
<1> DEFINE p == pid
           m == Marked(Memory, p)
           v == Visit(m, p)
           k == FirstEnd(m, p, v)
           rest == Unmark(m, v, k)
           empty == v[0] = Nil
           count == IF empty THEN 0 ELSE k
           seen == IF empty THEN m ELSE [rest EXCEPT !.pool[p].badHead = FALSE]
<1>1. /\ UNCHANGED <<claimed, faults>>
      /\ \/ /\ NextPool("ClaimingBlocks")
            /\ empty \/ Closed(v, k)
            /\ Store(IF pool[p].avail = count THEN seen
                     ELSE UpdateAlarm([seen EXCEPT !.pool[p].avail = count], p))
         \/ /\ NextPool("ClaimingBlocks")
            /\ ~empty /\ ~Closed(v, k)
            /\ Store(UpdateAlarm(Truncated(rest, p, v, k), p))
         \/ /\ Reenter
            /\ ~empty /\ ~Closed(v, k)
            /\ Store(SetFlag(rest, p, v, k, TRUE))
  BY DEF AuditFreeq
<1>2. /\ MemInv(Memory) /\ Memory \in Mem /\ PoolInv(Memory, p) /\ p \in Pools /\ AuditInv
      /\ Memory.pool = pool
  BY DEF IInv, MemInv, AuditInv, Memory
<1>3. PICK s, n : Ring(Memory, p, s, n, 0) /\ Counted(Memory, p, s, n)
  BY <1>2 DEF PoolInv
<1>4. Seen(Memory, p, s, n, 1, m) /\ Audited(Memory, p, m)
  BY <1>2, <1>3, MarkedRing
<1> HIDE DEF m
<1>5. /\ m \in Mem /\ m.pool = Memory.pool
      /\ \A b \in Block : b[1] # p => m.block[b] = Memory.block[b]
      /\ \A b \in Block : m.block[b].assigned = Memory.block[b].assigned
      /\ Ring(m, p, s, n, 1) /\ Counted(m, p, s, n)
  BY <1>4 DEF Seen
<1>6. k = n
  BY <1>2, <1>5, FirstEndIs
<1>7. /\ Seen(m, p, s, n, 0, rest) /\ Alters(m, rest)
      /\ \A i \in 0 .. n - 1 : /\ ~rest.block[s[i]].corrupt
                               /\ rest.block[s[i]].link = m.block[s[i]].link
  BY <1>2, <1>5, <1>6, UnmarkRing
<1> HIDE DEF rest
<1>8. /\ rest \in Mem /\ rest.pool = m.pool /\ Seen(Memory, p, s, n, 0, rest)
      /\ Ring(rest, p, s, n, 0) /\ Counted(rest, p, s, n)
  BY <1>5, <1>7 DEF Seen
<1>9. MemInv(rest) /\ Audited(Memory, p, rest)
  BY <1>2, <1>4, <1>7, <1>8, SeenInv, AuditedAlters
<1>10. /\ \A i \in 0 .. n - 1 : v[i] = s[i]
       /\ v[n] = IF n = 0 THEN m.pool[p].tail ELSE m.block[s[n - 1]].link
  BY <1>2, <1>5, VisitRing DEF Visits
<1>11. /\ n \in Nat /\ Nil # Bad
       /\ \A i \in 0 .. n - 1 : s[i] \in Block /\ s[i] # Nil /\ s[i] # Bad
       /\ n > 0 => 0 \in 0 .. n - 1 /\ n - 1 \in 0 .. n - 1 /\ m.pool[p].tail = s[0]
       /\ n = 0 => m.pool[p].tail \in {Nil, Bad}
  BY <1>2, <1>5, RingBlocks
<1> HIDE DEF v, k
<1>12. empty <=> n = 0 /\ m.pool[p].tail = Nil
  BY <1>10, <1>11
<1>13. Closed(v, n) <=> n > 0 /\ m.block[s[n - 1]].link = s[0]
  BY <1>10, <1>11 DEF Closed
<1>14. empty \/ Closed(v, n) <=> Sound(m, p, s, n)
  BY <1>11, <1>12, <1>13 DEF Sound
<1> HIDE DEF empty
<1>16. ASSUME Reenter \/ NextPool("ClaimingBlocks") PROVE AuditInv'
  <2>1. phase' \in Phases /\ pid' \in Pools
    BY <1>2, <1>16, NextPoolOK DEF Reenter, AuditInv, Phases
  <2> QED BY <1>1, <1>2, <2>1 DEF AuditInv, faults
<1>17. CASE /\ NextPool("ClaimingBlocks")
            /\ empty
            /\ Store(IF pool[p].avail = count THEN seen
                     ELSE UpdateAlarm([seen EXCEPT !.pool[p].avail = count], p))
  <2>1. n = 0 /\ Sound(m, p, s, n)
    BY <1>12, <1>14, <1>17
  <2>2. pool[p].avail = 0
    BY <1>2, <1>5, <2>1 DEF Counted
  <2>3. count = 0 /\ seen = m
    BY <1>17
  <2> HIDE DEF count, seen
  <2>4. Store(m)
    BY <1>17, <2>2, <2>3
  <2>5. Seen(Memory, p, s, n, 0, m)
    <3>1. Ring(m, p, s, n, 0)
      BY <1>5, <2>1 DEF Ring
    <3> QED BY <1>5, <3>1 DEF Seen
  <2>6. MemInv(m)
    BY <1>2, <2>5, SeenInv
  <2>7. Repaired(m, p)
    BY <1>2, <1>5, <2>1, RepairedIs
  <2>8. Memory' = m
    BY <2>4, <2>6, Stored
  <2> QED BY <1>4, <1>16, <1>17, <2>4, <2>6, <2>7, <2>8, StoreInv
<1>18. CASE /\ NextPool("ClaimingBlocks")
            /\ ~empty /\ Closed(v, k)
            /\ Store(IF pool[p].avail = count THEN seen
                     ELSE UpdateAlarm([seen EXCEPT !.pool[p].avail = count], p))
  <2>1. Sound(m, p, s, n)
    BY <1>6, <1>14, <1>18
  <2>2. pool[p].avail = n
    BY <1>2, <1>5, <2>1 DEF Counted
  <2>3. Sound(rest, p, s, n) /\ rest.pool[p].tail # Bad
    BY <1>7, <1>8, <1>11, <2>1 DEF Sound
  <2>4. count = n /\ seen = rest
    <3>1. WithPool(rest, p, GoodHead(rest.pool[p])) = rest
      BY <1>2, <1>8, <1>9, <2>3, GoodHeadInv
    <3>2. [rest EXCEPT !.pool[p].badHead = FALSE] = rest
      BY <3>1 DEF WithPool, GoodHead
    <3> QED BY <1>6, <1>18, <3>2
  <2> HIDE DEF count, seen
  <2>5. Store(rest)
    BY <1>18, <2>2, <2>4
  <2>6. Repaired(rest, p)
    BY <1>2, <1>8, <2>3, RepairedIs
  <2>7. Memory' = rest
    BY <1>9, <2>5, Stored
  <2> QED BY <1>9, <1>16, <1>18, <2>5, <2>6, <2>7, StoreInv
<1>19. CASE /\ NextPool("ClaimingBlocks")
            /\ Store(UpdateAlarm(Truncated(rest, p, v, k), p))
  <2> DEFINE r == UpdateAlarm(Truncated(rest, p, v, n), p)
  <2>1. Store(r)
    BY <1>6, <1>19
  <2>2. MemInv(r) /\ Repaired(r, p) /\ Alters(rest, r)
    BY <1>2, <1>7, <1>8, <1>9, <1>10, TruncatedAlarm
  <2> HIDE DEF r
  <2>3. Memory' = r
    BY <2>1, <2>2, Stored
  <2>4. Audited(Memory, p, r)
    BY <1>9, <2>2, AuditedAlters
  <2> QED BY <1>16, <1>19, <2>1, <2>2, <2>3, <2>4, StoreInv
<1>20. CASE /\ Reenter
            /\ ~empty /\ ~Closed(v, k)
            /\ Store(SetFlag(rest, p, v, k, TRUE))
  <2> DEFINE r == WithFlag(rest, p, v, n)
  <2>1. Store(r)
    BY <1>6, <1>20 DEF WithFlag
  <2>2. ~Sound(rest, p, s, n)
    <3>1. ~Sound(m, p, s, n)
      BY <1>6, <1>14, <1>20
    <3> QED BY <1>7, <1>8, <1>11, <3>1 DEF Sound
  <2>3. MemInv(r) /\ Alters(rest, r)
    BY <1>2, <1>8, <1>9, <1>10, <2>2, SetFlagInv
  <2> HIDE DEF r
  <2>4. IInv' /\ Memory' = r
    BY <1>16, <1>20, <2>1, <2>3, StoreInv
  <2>5. Audited(Memory, p, r)
    BY <1>9, <2>3, AuditedAlters
  <2>6. ~NoBad(Memory)
    <3>1. NoBad(rest) => Sound(rest, p, s, n)
      BY <1>2, <1>8, <1>11 DEF NoBad, Sound, Ring
    <3> QED BY <1>9, <2>2, <3>1 DEF Audited
  <2> QED BY <1>20, <2>4, <2>5, <2>6
<1> HIDE DEF count, seen
<1> QED BY <1>1, <1>17, <1>18, <1>19, <1>20 DEF p

-----------------------------------------------------------------------------
(* The theorems.                                                           *)

\* The first segment of a pool leaves all of its blocks on its queue.
LEMMA StartupInv ==
  ASSUME NEW p \in Pools, NEW r, r = AllocBlocks(NoMemory, p)
  PROVE  r \in Mem /\ PoolInv(r, p) /\ Alters(NoMemory, r)
<1> DEFINE m == NoMemory
           z == [i \in 0 .. -1 |-> Nil]
<1>1. EmptyPool \in PoolRecord
  <2>1. 0 \in 0 .. MaxSegments
    BY PoolAssumption
  <2> QED BY <2>1 DEF EmptyPool, PoolRecord, Links
<1>2. m \in Mem
  BY <1>1, NewBlockType, Memories DEF NoMemory
<1>3. m.pool[p] = EmptyPool /\ \A b \in Block : ~m.block[b].assigned
  BY DEF NoMemory, NewBlock
<1> HIDE DEF m
<1>4. Ring(m, p, z, 0, 0) /\ Counted(m, p, z, 0)
  BY <1>3 DEF Ring, Counted, EmptyPool, Sound, On
<1>5. m.pool[p].tail # Bad /\ m.pool[p].segs < MaxSegments /\ m.pool[p].segs = 0 /\ m.pool[p].delta = 0
  BY <1>3, LinkAssumption, PoolAssumption DEF EmptyPool
<1>6. /\ Grown(m, r, p, z, 0)
      /\ r.pool[p].segs = m.pool[p].segs + 1 /\ r.pool[p].delta = m.pool[p].delta
  <2> HIDE DEF z
  <2>1. r = AllocBlocks(m, p)
    BY DEF m
  <2> QED BY <1>2, <1>4, <1>5, <2>1, AllocRing
<1> HIDE DEF z
<1>7. 0 \in Delta
  BY PoolAssumption DEF Delta
<1>8. r \in Mem /\ \A b \in Block : ~r.block[b].assigned
  BY <1>3, <1>6 DEF Grown
<1>9. \E s, n : Ring(r, p, s, n, 0) /\ Counted(r, p, s, n)
  BY <1>6 DEF Grown
<1>10. 1 <= r.pool[p].segs /\ r.pool[p].delta \in Delta
  BY <1>5, <1>6, <1>7
<1>11. Alters(m, r)
  BY <1>6 DEF Grown
<1> QED BY <1>8, <1>9, <1>10, <1>11 DEF PoolInv, m

\* ObjectPool::Startup leaves pools whose blocks are all on their queues.
LEMMA InitInv == Init => IInv
<1> SUFFICES ASSUME Init PROVE IInv
  OBVIOUS
<1> DEFINE r(p) == AllocBlocks(NoMemory, p)
<1>1. \A p \in Pools : r(p) \in Mem /\ PoolInv(r(p), p)
  BY StartupInv
<1>2. pool = [p \in Pools |-> r(p).pool[p]] /\ block = [b \in Block |-> r(b[1]).block[b]]
  BY DEF Init
<1> HIDE DEF r
<1>3. \A b \in Block : b[1] \in Pools
  BY DEF Block
<1>4. \A p \in Pools : r(p).pool[p] \in PoolRecord
  BY <1>1 DEF Mem
<1>5. \A b \in Block : r(b[1]).block[b] \in BlockRecord
  BY <1>1, <1>3 DEF Mem
<1>6. pool \in [Pools -> PoolRecord] /\ block \in [Block -> BlockRecord]
  BY <1>2, <1>4, <1>5
<1>7. Memory \in Mem
  BY <1>6, Memories DEF Memory
<1>8. ASSUME NEW p \in Pools PROVE PoolInv(Memory, p)
  <2>1. Memory.pool[p] = r(p).pool[p] /\ \A b \in Block : b[1] = p => Memory.block[b] = r(p).block[b]
    BY <1>2 DEF Memory
  <2> QED BY <1>1, <1>7, <2>1, SamePool
<1>9. AuditInv
  <2>1. 1 \in Pools /\ 0 \in 0 .. NumOwners /\ 0 \in 0 .. MaxMishaps
    BY PoolAssumption DEF Pools
  <2> QED BY <2>1 DEF Init, AuditInv, Phases
<1> QED BY <1>7, <1>8, <1>9 DEF IInv, MemInv

\* Every step keeps the free queues rings of unused blocks.
LEMMA Preserved == IInv /\ [Next]_vars => IInv'
<1> SUFFICES ASSUME IInv, [Next]_vars PROVE IInv'
  OBVIOUS
<1>1. CASE \E p \in Pools, o \in Owners : Allocate(p, o)
  BY <1>1, AllocateInv
<1>2. CASE \E p \in Pools : AllocateAndTrap(p)
  BY <1>2, AllocateAndTrapInv
<1>3. CASE \E p \in Pools : Corrupt(p)
  BY <1>3, CorruptInv
<1>4. CASE \E b \in Block : Delete(b)
  BY <1>4, DeleteInv
<1>5. CASE \E b \in Block : Lose(b)
  BY <1>5, LoseInv
<1>6. CASE \E b \in Block, o \in Owners : Move(b, o)
  BY <1>6, MoveInv
<1>7. CASE \E o \in Owners : Sicken(o)
  BY <1>7, SickenInv
<1>8. CASE Replace
  BY <1>8, ReplaceInv
<1>9. CASE AuditFreeq
  BY <1>9, AuditFreeqInv
<1>10. CASE ClaimOwner
  BY <1>10, ClaimOwnerInv
<1>11. CASE ClaimsDone
  BY <1>11, ClaimsDoneInv
<1>12. CASE RecoverBlocks
  BY <1>12, RecoverBlocksInv
<1>13. CASE UNCHANGED vars
  <2>1. UNCHANGED <<pool, block>> /\ UNCHANGED <<audit, faults>>
    BY <1>13 DEF vars
  <2>2. AuditInv'
    BY <2>1, AuditSame DEF IInv
  <2> QED BY <2>1, <2>2, MemorySame DEF IInv
<1> QED BY <1>1, <1>2, <1>3, <1>4, <1>5, <1>6, <1>7, <1>8, <1>9, <1>10, <1>11, <1>12, <1>13
        DEF Next, AuditStep

\* At all times, the free queue of each pool is a ring of distinct unused blocks of the
\* pool that ends with its last block or with a corrupt link, and the count of available
\* blocks is never too low, whatever applications, testers and the audit do
\* (ObjectPool::EnqBlock, DeqBlock, AuditFreeq and RecoverBlocks).
THEOREM Invariant == Spec => []IInv
BY InitInv, Preserved, PTL DEF Spec

\* The invariant bounds all counters and links.
LEMMA InvType == IInv => PoolTypeOK
<1> SUFFICES ASSUME IInv PROVE PoolTypeOK
  OBVIOUS
<1> DEFINE R == [segs : 1 .. MaxSegments, tail : Block \cup {Nil, Bad},
                 avail : Nat, delta : -DeltaLimit .. DeltaLimit, badHead : BOOLEAN]
<1>1. /\ Memory \in Mem /\ AuditInv /\ Memory.pool = pool /\ Memory.block = block
      /\ \A p \in Pools : PoolInv(Memory, p)
  BY DEF IInv, MemInv, Memory
<1>2. pool \in [Pools -> PoolRecord] /\ block \in [Block -> BlockRecord]
  BY <1>1 DEF Mem
<1>3. ASSUME NEW p \in Pools PROVE pool[p] \in R
  <2>1. PoolInv(Memory, p) /\ pool[p] \in PoolRecord
    BY <1>1, <1>2
  <2>2. PICK s, n : Ring(Memory, p, s, n, 0) /\ Counted(Memory, p, s, n)
    BY <2>1 DEF PoolInv
  <2>3. pool[p].avail \in Nat
    <3>1. n \in Nat /\ pool[p].avail \in Int
      BY <2>1, <2>2 DEF Ring, PoolRecord
    <3> QED BY <1>1, <2>2, <3>1 DEF Counted
  <2>4. pool[p].segs \in 1 .. MaxSegments /\ pool[p].delta \in -DeltaLimit .. DeltaLimit
    BY <1>1, <2>1, PoolAssumption DEF PoolInv, PoolRecord, Delta
  <2> QED BY <2>1, <2>3, <2>4 DEF PoolRecord, Links
<1>4. pool \in [Pools -> R]
  BY <1>2, <1>3
<1> HIDE DEF R
<1>5. block \in [Block -> [link : Block \cup {Nil, Bad}, assigned : BOOLEAN,
                           orphaned : 0 .. 255, corrupt : BOOLEAN,
                           holder : Owners \cup {None}, moved : BOOLEAN,
                           age : Nat]]
  BY <1>2 DEF BlockRecord, Links
<1> QED BY <1>1, <1>4, <1>5 DEF PoolTypeOK, AuditInv, R

\* The type invariant: in particular, the number of available blocks never drops below
\* zero, a pool never has more than MaxSegments segments, and delta_ stays within its
\* limit, which UpdateAlarm (ObjectPool::EnqBlock and DeqBlock) resets.
THEOREM TypeCorrect == Spec => []PoolTypeOK
BY Invariant, InvType, PTL

\* What is on a ring is unused.
LEMMA InvFree == IInv => FreeIsUnused
<1> SUFFICES ASSUME IInv, NEW p \in Pools, NEW b \in FreeQueue(Memory, p)
             PROVE  ~block[b].assigned /\ b \in Blocks(Memory, p)
  BY DEF FreeIsUnused
<1>1. Memory \in Mem /\ PoolInv(Memory, p) /\ Memory.block = block
  BY DEF IInv, MemInv, Memory
<1>2. PICK s, n : Ring(Memory, p, s, n, 0)
  BY <1>1 DEF PoolInv
<1>3. b \in On(s, n)
  BY <1>1, <1>2, FreeQueueIs
<1> QED BY <1>1, <1>2, <1>3 DEF Ring, On

\* No block has two users: what ObjectPool::DeqBlock can reach is not in use and belongs
\* to the pool.
THEOREM FreeBlocksAreUnused == Spec => []FreeIsUnused
BY Invariant, InvFree, PTL

\* A ring whose links are good has as many blocks as were counted.
LEMMA InvCount == IInv => CountIsTrue
<1> SUFFICES ASSUME IInv, NEW p \in Pools, IsSound(p)
             PROVE  pool[p].avail = Cardinality(FreeQueue(Memory, p))
  BY DEF CountIsTrue
<1>1. Memory \in Mem /\ PoolInv(Memory, p) /\ Memory.pool = pool
  BY DEF IInv, MemInv, Memory
<1>2. PICK s, n : Ring(Memory, p, s, n, 0) /\ Counted(Memory, p, s, n)
  BY <1>1 DEF PoolInv
<1>3. FreeQueue(Memory, p) = On(s, n) /\ Cardinality(On(s, n)) = n
  BY <1>1, <1>2, FreeQueueIs, RingIsShort
<1>4. Sound(Memory, p, s, n)
  BY <1>1, <1>2, RepairedIs DEF IsSound, Repaired
<1> QED BY <1>1, <1>2, <1>3, <1>4 DEF Counted

\* availCount_ is the number of blocks on the queue whenever none of its links is bad,
\* although blocks are lost, recovered and cut off (ObjectPool::AuditFreeq sets it when
\* it truncates a queue).
THEOREM CountIsRight == Spec => []CountIsTrue
BY Invariant, InvCount, PTL

\* Only AuditFreeq leads from one pool to the next while free queues are checked.
LEMMA FreeqStep ==
  ASSUME IInv, [Next]_vars, NEW p \in Pools, phase = "CheckingFreeq", pid = p,
         pid' = p + 1 \/ phase' = "ClaimingBlocks"
  PROVE  IsSound(p)'
<1>1. p \in Nat /\ p > 0 /\ p + 1 # p /\ p + 1 # 1
  BY DEF Pools
<1>2. phase' # phase \/ (pid' # pid /\ pid' # 1)
  BY <1>1
<1>3. AuditFreeq
  <2>1. ~UNCHANGED <<phase, pid>>
    BY <1>2
  <2>2. ~UNCHANGED vars /\ ~UNCHANGED audit
    BY <2>1 DEF vars, audit
  <2>3. ~Replace
    BY <1>1 DEF Replace
  <2>4. ~ClaimOwner /\ ~ClaimsDone /\ ~RecoverBlocks
    <3>1. ~ClaimOwner
      BY ZenonT(40) DEF ClaimOwner, Phase
    <3>2. ~ClaimsDone
      BY ZenonT(40) DEF ClaimsDone, Phase
    <3>3. ~RecoverBlocks
      BY ZenonT(40) DEF RecoverBlocks, Phase
    <3> QED BY <3>1, <3>2, <3>3
  <2>5. /\ \A x \in Pools, o \in Owners : ~Allocate(x, o)
        /\ \A x \in Pools : ~AllocateAndTrap(x) /\ ~Corrupt(x)
        /\ \A b \in Block : ~Delete(b) /\ ~Lose(b)
        /\ \A b \in Block, o \in Owners : ~Move(b, o)
        /\ \A o \in Owners : ~Sicken(o)
    BY <2>2 DEF Allocate, AllocateAndTrap, Corrupt, Delete, Lose, Move, Sicken
  <2> QED BY <2>2, <2>3, <2>4, <2>5 DEF Next, AuditStep
<1>4. ~Reenter
  BY <1>2 DEF Reenter
<1>5. Repaired(Memory', p)
  BY <1>3, <1>4, AuditFreeqInv
<1> QED BY <1>5 DEF Repaired, IsSound

\* The audit goes on to the next pool, or to its next phase, only when no link of the
\* free queue that it checked is bad: it truncated the queue, or it found it good
\* (ObjectPool::AuditFreeq).
THEOREM FreeqGetsRepaired == Spec => FreeqIsRepaired
<1>1. IInv /\ [Next]_vars
      => [\A p \in Pools :
            /\ phase = "CheckingFreeq" /\ pid = p
            /\ pid' = p + 1 \/ phase' = "ClaimingBlocks"
            => IsSound(p)']_vars
  BY FreeqStep
<1> QED BY <1>1, Invariant, PTL DEF Spec, FreeqIsRepaired

-----------------------------------------------------------------------------
(* Objects that are in use.                                                *)

\* The blocks of pool P are not marked yet in this cycle of the audit.
Before(p) ==
  \/ phase = "CheckingFreeq" /\ pid <= p
  \/ phase = "RecoveringBlocks" /\ p < pid

\* What only a mishap brings about
PastInv ==
  /\ phase = "RecoveringBlocks" => claimed = 0
  /\ phase = "CheckingFreeq" /\ claimed # 0 => mishaps >= 1
  /\ sick # {} \/ ~NoBad(Memory) => mishaps >= 1
  /\ phase = "CheckingFreeq" /\ claimed # 0 /\ ~NoBad(Memory) => mishaps >= 2

\* A block was just claimed, or the audit will claim it before it looks for orphans, or
\* the block was marked only once.
Tried(b) ==
  LET x == block[b]
  IN  \/ x.orphaned = 0
      \/ Before(b[1]) /\ x.holder > claimed /\ Mishaps(b) # 0
      \/ /\ ~Before(b[1]) /\ phase # "RecoveringBlocks"
         /\ x.orphaned <= 1 \/ x.holder > claimed
         /\ Mishaps(b) = 0 => x.orphaned <= 1 /\ x.holder > claimed
      \/ /\ ~Before(b[1]) /\ phase = "RecoveringBlocks"
         /\ x.orphaned <= 1 /\ Mishaps(b) # 0

LiveInv ==
  \A b \in Block :
    Held(b) /\ block[b].holder \notin sick /\ Mishaps(b) <= 1 => Tried(b)

\* The fields that tell how a block is used, and the audit's data.
LEMMA UseTypes ==
  ASSUME IInv, NEW b \in Block
  PROVE  /\ block[b].orphaned \in Nat /\ block[b].holder \in Nat
         /\ block[b].holder \in Owners \cup {None}
         /\ block[b].orphaned \in 0 .. 255
         /\ block[b].moved \in BOOLEAN /\ block[b].assigned \in BOOLEAN
         /\ mishaps \in Nat /\ claimed \in Nat /\ claimed \in 0 .. NumOwners
         /\ pid \in Nat /\ pid \in Pools /\ b[1] \in Pools /\ b[1] \in Nat
         /\ NumPools \in Nat /\ NumOwners \in Nat /\ phase \in Phases
<1>1. block[b] \in BlockRecord
  BY DEF IInv, MemInv, Mem, Memory
<1>2. b[1] \in Pools
  BY DEF Block
<1>3. AuditInv
  BY DEF IInv
<1>4. /\ block[b].orphaned \in 0 .. 255 /\ block[b].holder \in Owners \cup {None}
      /\ block[b].moved \in BOOLEAN /\ block[b].assigned \in BOOLEAN
  BY <1>1 DEF BlockRecord
<1> QED BY <1>2, <1>3, <1>4, PoolAssumption DEF AuditInv, Owners, None, Pools

\* What changes with the pool that is audited
LEMMA NextBefore ==
  ASSUME AuditInv, NEW p \in Pools
  PROVE  /\ phase = "CheckingFreeq" /\ NextPool("ClaimingBlocks")
            => /\ phase' \in {"CheckingFreeq", "ClaimingBlocks"}
               /\ Before(p)' <=> Before(p) /\ p # pid
         /\ phase = "ClaimingBlocks" /\ NextPool("RecoveringBlocks")
            => /\ phase' \in {"ClaimingBlocks", "RecoveringBlocks"}
               /\ ~Before(p) /\ ~Before(p)'
         /\ phase = "RecoveringBlocks" /\ NextPool("CheckingFreeq")
            => /\ phase' \in {"RecoveringBlocks", "CheckingFreeq"}
               /\ Before(p)' <=> Before(p) \/ p = pid
<1>1. /\ p \in Nat /\ 1 <= p /\ p <= NumPools /\ pid \in Nat /\ 1 <= pid /\ pid <= NumPools
      /\ NumPools \in Nat
  BY PoolAssumption DEF AuditInv, Pools
<1>2. ASSUME phase = "CheckingFreeq", NextPool("ClaimingBlocks")
      PROVE  /\ phase' \in {"CheckingFreeq", "ClaimingBlocks"}
             /\ Before(p)' <=> Before(p) /\ p # pid
  BY <1>1, <1>2 DEF NextPool, Before
<1>3. ASSUME phase = "ClaimingBlocks", NextPool("RecoveringBlocks")
      PROVE  /\ phase' \in {"ClaimingBlocks", "RecoveringBlocks"}
             /\ ~Before(p) /\ ~Before(p)'
  BY <1>1, <1>3 DEF NextPool, Before
<1>4. ASSUME phase = "RecoveringBlocks", NextPool("CheckingFreeq")
      PROVE  /\ phase' \in {"RecoveringBlocks", "CheckingFreeq"}
             /\ Before(p)' <=> Before(p) \/ p = pid
  BY <1>1, <1>4 DEF NextPool, Before
<1> QED BY <1>2, <1>3, <1>4

\* Others than the audit leave objects in use, or create new ones.
LEMMA QuietLive ==
  ASSUME IInv, PastInv, LiveInv, Quietly(Memory, Memory'), UNCHANGED <<audit, faults>>
  PROVE  PastInv' /\ LiveInv'
<1>1. /\ \A b \in Block : Quiet(block'[b], block[b])
      /\ NoBad(Memory) => NoBad(Memory')
  BY DEF Quietly, Memory
<1>2. UNCHANGED <<phase, pid, claimed, sick, mishaps>>
  BY DEF audit, faults
<1>3. PastInv'
  BY <1>1, <1>2 DEF PastInv
<1>4. ASSUME NEW b \in Block, Held(b)', (block[b].holder \notin sick)', (Mishaps(b) <= 1)'
      PROVE  Tried(b)'
  <2>1. block'[b].orphaned = 0 \/ SameUse(block'[b], block[b])
    BY <1>1, <1>4 DEF Quiet, Held, InUse
  <2>2. CASE block'[b].orphaned = 0
    BY <2>2 DEF Tried
  <2>3. CASE SameUse(block'[b], block[b])
    <3>1. Tried(b)
      BY <1>2, <1>4, <2>3 DEF LiveInv, Held, Mishaps, SameUse
    <3> QED BY <1>2, <2>3, <3>1 DEF Tried, SameUse, Before, Mishaps
  <2> QED BY <2>1, <2>2, <2>3
<1> QED BY <1>3, <1>4 DEF LiveInv

\* An object that was moved once may be marked in a cycle that did not claim it.
LEMMA MoveLive ==
  ASSUME IInv, PastInv, LiveInv, NEW b \in Block, NEW o \in Owners, Move(b, o)
  PROVE  PastInv' /\ LiveInv'
<1>1. /\ NoBad(Memory) => NoBad(Memory')
      /\ block'[b].assigned = block[b].assigned /\ block'[b].holder = o
      /\ block'[b].orphaned = block[b].orphaned /\ block'[b].moved
      /\ \A c \in Block : c # b => block'[c] = block[c]
  BY MoveInv
<1>2. /\ UNCHANGED <<phase, pid, claimed, sick, mishaps>>
      /\ Held(b) /\ ~block[b].moved
  BY DEF Move, audit, faults
<1>3. PastInv'
  BY <1>1, <1>2 DEF PastInv
<1>4. ASSUME NEW c \in Block, Held(c)', (block[c].holder \notin sick)', (Mishaps(c) <= 1)'
      PROVE  Tried(c)'
  <2>1. CASE c # b
    <3>1. Tried(c)
      BY <1>1, <1>2, <1>4, <2>1 DEF LiveInv, Held, Mishaps
    <3> QED BY <1>1, <1>2, <2>1, <3>1 DEF Tried, Before, Mishaps
  <2>2. CASE c = b
    <3>1. mishaps = 0 /\ Mishaps(b) = 0 /\ Mishaps(b)' = 1
      BY <1>1, <1>2, <1>4, <2>2, UseTypes DEF Mishaps
    <3>2. sick = {}
      BY <3>1 DEF PastInv
    <3>3. Tried(b)
      BY <1>2, <3>1, <3>2 DEF LiveInv
    <3>4. CASE block[b].orphaned = 0
      BY <1>1, <2>2, <3>4 DEF Tried
    <3>5. CASE ~Before(b[1]) /\ phase # "RecoveringBlocks" /\ block[b].orphaned <= 1
      <4>1. ~Before(b[1])'
        BY <1>2, <3>5 DEF Before
      <4> QED BY <1>1, <1>2, <2>2, <3>1, <3>5, <4>1 DEF Tried
    <3> QED BY <3>1, <3>3, <3>4, <3>5 DEF Tried
  <2> QED BY <2>1, <2>2
<1> QED BY <1>3, <1>4 DEF LiveInv

\* A mishap befalls only objects that nothing befell before.
LEMMA MishapLive ==
  ASSUME IInv, PastInv, LiveInv, mishaps' = mishaps + 1, sick \subseteq sick',
         claimed' = claimed, SameUses(Memory, Memory'),
         \/ UNCHANGED <<phase, pid>>
         \/ phase' = "CheckingFreeq" /\ pid' = 1 /\ Memory' = Memory
  PROVE  PastInv' /\ LiveInv'
<1>1. mishaps \in Nat
  BY DEF IInv, AuditInv
<1>2. PastInv'
  BY <1>1 DEF PastInv
<1>3. ASSUME NEW b \in Block, Held(b)', (block[b].holder \notin sick)', (Mishaps(b) <= 1)'
      PROVE  Tried(b)'
  <2>1. SameUse(block'[b], block[b])
    BY DEF SameUses, Memory
  <2>2. mishaps = 0 /\ Mishaps(b) = 0 /\ Mishaps(b)' = 1
    BY <1>1, <1>3, <2>1, UseTypes DEF Mishaps, SameUse
  <2>3. Held(b) /\ sick = {}
    BY <1>3, <2>1, <2>2 DEF Held, SameUse, PastInv
  <2>4. Tried(b)
    BY <2>2, <2>3 DEF LiveInv
  <2>5. CASE block[b].orphaned = 0
    BY <2>1, <2>5 DEF Tried, SameUse
  <2>6. CASE /\ ~Before(b[1]) /\ phase # "RecoveringBlocks"
             /\ block[b].orphaned <= 1 /\ block[b].holder > claimed
    <3>1. CASE UNCHANGED <<phase, pid>>
      <4>1. ~Before(b[1])'
        BY <2>6, <3>1 DEF Before
      <4> QED BY <2>1, <2>2, <2>6, <3>1, <4>1 DEF Tried, SameUse
    <3>2. CASE phase' = "CheckingFreeq" /\ pid' = 1
      <4>1. Before(b[1])'
        BY <3>2, UseTypes DEF Before, Pools
      <4> QED BY <2>1, <2>2, <2>6, <4>1 DEF Tried, SameUse
    <3> QED BY <3>1, <3>2
  <2> QED BY <2>2, <2>4, <2>5, <2>6 DEF Tried
<1> QED BY <1>2, <1>3 DEF LiveInv

\* A corrupt link is a mishap.
LEMMA CorruptLive ==
  ASSUME IInv, PastInv, LiveInv, NEW p \in Pools, Corrupt(p)
  PROVE  PastInv' /\ LiveInv'
<1>1. SameUses(Memory, Memory')
  BY CorruptInv
<1>2. mishaps' = mishaps + 1 /\ UNCHANGED <<sick, claimed, phase, pid>>
  BY DEF Corrupt, Mishap, audit
<1> QED BY <1>1, <1>2, MishapLive

\* So is a damaged owner,
LEMMA SickenLive ==
  ASSUME IInv, PastInv, LiveInv, NEW o \in Owners, Sicken(o)
  PROVE  PastInv' /\ LiveInv'
<1>1. SameUses(Memory, Memory')
  BY DEF Sicken, Memory, SameUses, SameUse
<1>2. mishaps' = mishaps + 1 /\ UNCHANGED <<claimed, phase, pid>> /\ sick \subseteq sick'
  BY DEF Sicken, Mishap, audit
<1> QED BY <1>1, <1>2, MishapLive

\* and the loss of the audit's thread.
LEMMA ReplaceLive ==
  ASSUME IInv, PastInv, LiveInv, Replace
  PROVE  PastInv' /\ LiveInv'
<1>1. SameUses(Memory, Memory') /\ Memory' = Memory
  BY DEF Replace, Memory, SameUses, SameUse
<1>2. /\ mishaps' = mishaps + 1 /\ UNCHANGED <<claimed, sick>>
      /\ phase' = "CheckingFreeq" /\ pid' = 1
  BY DEF Replace, Mishap
<1> QED BY <1>1, <1>2, MishapLive

\* Marking leaves an object that is claimed later in the cycle.
LEMMA AuditFreeqLive ==
  ASSUME IInv, PastInv, LiveInv, AuditFreeq
  PROVE  PastInv' /\ LiveInv'
<1>1. /\ Audited(Memory, pid, Memory')
      /\ (Reenter /\ ~NoBad(Memory)) \/ NextPool("ClaimingBlocks")
  BY AuditFreeqInv
<1>2. UNCHANGED <<claimed, sick, mishaps>> /\ phase = "CheckingFreeq" /\ AuditInv
  BY DEF AuditFreeq, faults, Phase, IInv
<1>3. /\ \A b \in Block :
           \/ Idle(block'[b])
           \/ IF b \in Blocks(Memory, pid) THEN OnceMore(block'[b], block[b])
                                           ELSE block'[b] = block[b]
      /\ NoBad(Memory) => NoBad(Memory')
  BY <1>1 DEF Audited, Memory
<1>4. phase' \in {"CheckingFreeq", "ClaimingBlocks"}
  <2>1. pid \in Pools
    BY <1>2 DEF AuditInv
  <2> QED BY <1>1, <1>2, <2>1, NextBefore DEF Reenter
<1>5. PastInv'
  BY <1>2, <1>3, <1>4 DEF PastInv
<1>6. ASSUME NEW b \in Block, Held(b)', (block[b].holder \notin sick)', (Mishaps(b) <= 1)'
      PROVE  Tried(b)'
  <2>1. /\ block'[b].assigned = block[b].assigned /\ block'[b].holder = block[b].holder
        /\ block'[b].moved = block[b].moved
        /\ \/ block'[b].orphaned = block[b].orphaned /\ b \notin Blocks(Memory, pid)
           \/ block'[b].orphaned = (block[b].orphaned + 1) % 256 /\ b \in Blocks(Memory, pid)
    BY <1>3, <1>6 DEF Held, Idle, OnceMore
  <2>2. Held(b) /\ block[b].holder \notin sick /\ Mishaps(b) <= 1 /\ Mishaps(b)' = Mishaps(b)
    BY <1>2, <1>6, <2>1 DEF Held, Mishaps
  <2>3. Tried(b)
    BY <2>2 DEF LiveInv
  <2>4. b \in Blocks(Memory, pid) <=> b[1] = pid
    <3>1. block[b].assigned /\ Memory.block = block /\ PoolInv(Memory, b[1]) /\ Memory \in Mem
      BY <2>2, UseTypes DEF Held, Memory, IInv, MemInv
    <3>2. b \in Blocks(Memory, b[1])
      BY <3>1 DEF PoolInv
    <3> QED BY <3>1, <3>2, UseTypes, BlocksAre
  <2>5. block[b].holder >= 1 /\ Mishaps(b) \in Nat /\ Mishaps(b) >= mishaps
    BY <2>2, UseTypes DEF Held, None, Owners, Mishaps
  <2>6. CASE NextPool("ClaimingBlocks")
    <3>1. Before(b[1])' <=> Before(b[1]) /\ b[1] # pid
      BY <1>2, <2>6, NextBefore, UseTypes
    <3>2. CASE b[1] # pid
      BY <1>2, <1>4, <2>1, <2>2, <2>3, <2>4, <3>1, <3>2 DEF Tried
    <3>3. CASE b[1] = pid
      <4>1. Before(b[1])
        BY <1>2, <3>3, UseTypes DEF Before
      <4>2. CASE block[b].orphaned = 0
        <5>1. block'[b].orphaned = 1
          BY <2>1, <2>4, <3>3, <4>2
        <5>2. Mishaps(b) = 0 => block[b].holder > claimed
          <6>1. Mishaps(b) = 0 => claimed = 0
            BY <1>2, <2>5, UseTypes DEF PastInv
          <6> QED BY <2>5, <6>1, UseTypes
        <5> QED BY <1>2, <1>4, <2>1, <2>2, <3>1, <3>3, <5>1, <5>2 DEF Tried
      <4>3. CASE block[b].holder > claimed /\ Mishaps(b) # 0
        BY <1>2, <1>4, <2>1, <2>2, <3>1, <3>3, <4>3 DEF Tried
      <4> QED BY <2>3, <4>1, <4>2, <4>3 DEF Tried
    <3> QED BY <3>2, <3>3
  <2>7. CASE Reenter /\ ~NoBad(Memory)
    <3>1. mishaps = 1 /\ Mishaps(b) # 0 /\ claimed = 0
      BY <1>2, <2>2, <2>5, <2>7, UseTypes DEF PastInv
    <3>2. Before(b[1])' <=> Before(b[1])
      BY <2>7 DEF Reenter, Before
    <3>3. CASE b[1] # pid
      BY <1>2, <2>1, <2>2, <2>3, <2>4, <2>7, <3>2, <3>3 DEF Tried, Reenter
    <3>4. CASE b[1] = pid
      <4>1. Before(b[1])
        BY <1>2, <3>4, UseTypes DEF Before
      <4>2. block[b].holder > claimed
        BY <2>5, <3>1, UseTypes
      <4>3. block'[b].holder > claimed' /\ Mishaps(b)' # 0 /\ Before(b[1])'
        BY <1>2, <2>1, <2>2, <3>1, <3>2, <4>1, <4>2
      <4> QED BY <4>3 DEF Tried
    <3> QED BY <3>3, <3>4
  <2> QED BY <1>1, <2>6, <2>7
<1> QED BY <1>5, <1>6 DEF LiveInv

\* An owner whose objects can be traversed claims all of them.
LEMMA ClaimOwnerLive ==
  ASSUME IInv, PastInv, LiveInv, ClaimOwner
  PROVE  PastInv' /\ LiveInv'
<1> DEFINE o == claimed + 1
<1>1. /\ NoBad(Memory) => NoBad(Memory')
      /\ \/ \A b \in Block : IF block[b].assigned /\ block[b].holder = o
                             THEN IsClaimed(block'[b], block[b])
                             ELSE block'[b] = block[b]
         \/ o \in sick /\ UNCHANGED block
  BY ClaimOwnerInv DEF ClaimedBy, Memory
<1>2. UNCHANGED <<sick, mishaps, phase, pid>> /\ claimed' = o /\ phase = "ClaimingBlocks"
  BY DEF ClaimOwner, Phase, Reenter
<1>3. PastInv'
  BY <1>1, <1>2 DEF PastInv
<1>4. ASSUME NEW b \in Block, Held(b)', (block[b].holder \notin sick)', (Mishaps(b) <= 1)'
      PROVE  Tried(b)'
  <2>1. CASE block'[b] = block[b] /\ block[b].holder # o
    <3>1. Tried(b)
      BY <1>2, <1>4, <2>1 DEF LiveInv, Held, Mishaps
    <3>2. block[b].holder > claimed => block'[b].holder > claimed'
      BY <1>2, <2>1, UseTypes
    <3>3. ~Before(b[1]) /\ ~Before(b[1])' /\ Mishaps(b)' = Mishaps(b)
      BY <1>2, <2>1 DEF Before, Mishaps
    <3> QED BY <1>2, <2>1, <3>1, <3>2, <3>3 DEF Tried
  <2>2. CASE IsClaimed(block'[b], block[b])
    BY <2>2 DEF Tried, IsClaimed
  <2>3. CASE block'[b] = block[b] /\ block[b].holder = o
    BY <1>1, <1>2, <1>4, <2>3 DEF Held, Tried, IsClaimed
  <2> QED BY <1>1, <2>1, <2>2, <2>3
<1> QED BY <1>3, <1>4 DEF LiveInv

\* When all owners have claimed their blocks, only a mishap explains that one is marked.
LEMMA ClaimsDoneLive ==
  ASSUME IInv, PastInv, LiveInv, ClaimsDone
  PROVE  PastInv' /\ LiveInv'
<1>1. /\ UNCHANGED <<pool, block, sick, mishaps>> /\ phase = "ClaimingBlocks"
      /\ NextPool("RecoveringBlocks") /\ (pid = NumPools => claimed = NumOwners)
      /\ claimed' = IF pid = NumPools THEN 0 ELSE claimed
  BY DEF ClaimsDone, faults, Phase
<1>2. AuditInv /\ pid \in Pools
  BY DEF IInv, AuditInv
<1>3. \/ pid # NumPools /\ phase' = phase /\ claimed' = claimed
      \/ pid = NumPools /\ phase' = "RecoveringBlocks" /\ claimed' = 0
  BY <1>1, <1>2, PoolAssumption DEF NextPool, Pools
<1>4. PastInv'
  <2>1. Memory' = Memory
    BY <1>1 DEF Memory
  <2> QED BY <1>1, <1>3, <2>1 DEF PastInv
<1>5. ASSUME NEW b \in Block, Held(b)', (block[b].holder \notin sick)', (Mishaps(b) <= 1)'
      PROVE  Tried(b)'
  <2>1. Tried(b) /\ Mishaps(b)' = Mishaps(b)
    BY <1>1, <1>5 DEF LiveInv, Held, Mishaps
  <2>2. ~Before(b[1]) /\ ~Before(b[1])'
    BY <1>1, <1>2, NextBefore, UseTypes
  <2>3. CASE pid # NumPools
    BY <1>1, <1>3, <2>1, <2>2, <2>3 DEF Tried
  <2>4. CASE pid = NumPools
    <3>1. ~(block[b].holder > claimed)
      BY <1>1, <2>4, UseTypes DEF Owners, None
    <3> QED BY <1>1, <1>3, <2>1, <2>2, <2>4, <3>1 DEF Tried
  <2> QED BY <2>3, <2>4
<1> QED BY <1>4, <1>5 DEF LiveInv

\* What is recovered is not in use.
LEMMA RecoverBlocksLive ==
  ASSUME IInv, PastInv, LiveInv, RecoverBlocks
  PROVE  /\ PastInv' /\ LiveInv'
         /\ \A b \in Block : Held(b) /\ block[b].holder \notin sick /\ Mishaps(b) <= 1
                             => block'[b].assigned /\ block'[b].holder # None
<1>1. /\ NoBad(Memory) => NoBad(Memory')
      /\ \/ NextPool("CheckingFreeq") /\ Recovered(Memory, pid, Orphans(pid), Memory')
         \/ Reenter /\ \A b \in Block : \/ block'[b] = block[b]
                                        \/ b \in Orphans(pid) /\ Idle(block'[b])
  BY RecoverBlocksInv
<1>2. /\ UNCHANGED <<claimed, sick, mishaps>> /\ phase = "RecoveringBlocks"
      /\ AuditInv /\ pid \in Pools
  BY DEF RecoverBlocks, faults, Phase, IInv, AuditInv
<1>3. claimed = 0
  BY <1>2 DEF PastInv
<1>4. PastInv'
  BY <1>1, <1>2, <1>3 DEF PastInv
<1>5. ASSUME NEW b \in Block
      PROVE  \/ SameUse(block'[b], block[b]) /\ (b[1] # pid \/ b \notin Orphans(pid) \/ Reenter)
             \/ b \in Orphans(pid) /\ ~block'[b].assigned
             \/ ~block[b].assigned /\ ~block'[b].assigned
  BY <1>1 DEF Recovered, Memory, Left, Freed, Idle, SameUse
<1>6. ASSUME NEW b \in Block, Held(b), block[b].holder \notin sick, Mishaps(b) <= 1
      PROVE  b \notin Orphans(pid)
  <2>1. Tried(b)
    BY <1>6 DEF LiveInv
  <2>2. CASE b[1] = pid
    <3>1. ~Before(b[1])
      BY <1>2, <2>2, UseTypes DEF Before
    <3>2. block[b].orphaned <= 1
      BY <1>2, <2>1, <3>1 DEF Tried
    <3> QED BY <3>2, UseTypes DEF Orphans, OrphanThreshold
  <2>3. CASE b[1] # pid
    BY <2>3 DEF Orphans, Blocks
  <2> QED BY <2>2, <2>3
<1>7. ASSUME NEW b \in Block, Held(b)', (block[b].holder \notin sick)', (Mishaps(b) <= 1)'
      PROVE  Tried(b)'
  <2>1. SameUse(block'[b], block[b])
    BY <1>5, <1>7 DEF Held
  <2>2. /\ Held(b) /\ block[b].holder \notin sick /\ Mishaps(b) <= 1
        /\ Mishaps(b)' = Mishaps(b)
    BY <1>2, <1>7, <2>1 DEF Held, SameUse, Mishaps
  <2>3. Tried(b)
    BY <2>2 DEF LiveInv
  <2>4. block[b].holder > claimed
    BY <1>3, <2>2, UseTypes DEF Held, None
  <2>5. CASE Reenter
    BY <1>2, <2>1, <2>2, <2>3, <2>5 DEF Tried, SameUse, Reenter, Before
  <2>6. CASE NextPool("CheckingFreeq")
    <3>1. /\ Before(b[1])' <=> Before(b[1]) \/ b[1] = pid
          /\ phase' \in {"CheckingFreeq", "RecoveringBlocks"}
      BY <1>2, <2>6, NextBefore, UseTypes
    <3>2. CASE Mishaps(b) = 0
      BY <1>2, <2>1, <2>3, <3>2 DEF Tried, SameUse
    <3>3. CASE Mishaps(b) # 0 /\ Before(b[1])'
      BY <1>2, <2>1, <2>2, <2>4, <3>3 DEF Tried, SameUse
    <3>4. CASE Mishaps(b) # 0 /\ ~Before(b[1])'
      <4>1. ~Before(b[1]) /\ b[1] # pid /\ phase' = "RecoveringBlocks"
        <5>1. ~Before(b[1]) /\ b[1] # pid
          BY <3>1, <3>4
        <5>2. phase' # "CheckingFreeq"
          BY <1>2, <2>6, <3>4, <5>1, UseTypes DEF NextPool, Before, Pools
        <5> QED BY <3>1, <5>1, <5>2
      <4> QED BY <1>2, <2>1, <2>2, <2>3, <3>4, <4>1 DEF Tried, SameUse
    <3> QED BY <3>2, <3>3, <3>4
  <2> QED BY <1>1, <2>5, <2>6
<1>8. ASSUME NEW b \in Block, Held(b), block[b].holder \notin sick, Mishaps(b) <= 1
      PROVE  block'[b].assigned /\ block'[b].holder # None
  BY <1>5, <1>6, <1>8 DEF Held, SameUse
<1> QED BY <1>4, <1>7, <1>8 DEF LiveInv

\* At first, no block is in use.
LEMMA InitLive == Init => PastInv /\ LiveInv
<1> SUFFICES ASSUME Init PROVE PastInv /\ LiveInv
  OBVIOUS
<1> DEFINE r(p) == AllocBlocks(NoMemory, p)
<1>1. \A p \in Pools : Alters(NoMemory, r(p))
  BY StartupInv
<1>2. pool = [p \in Pools |-> r(p).pool[p]] /\ block = [b \in Block |-> r(b[1]).block[b]]
  BY DEF Init
<1> HIDE DEF r
<1>3. \A b \in Block : b[1] \in Pools
  BY DEF Block
<1>4. NoBad(NoMemory) /\ \A b \in Block : ~NoMemory.block[b].assigned
  BY LinkAssumption DEF NoBad, NoMemory, EmptyPool, NewBlock
<1>5. \A p \in Pools : pool[p].tail # Bad
  BY <1>1, <1>2, <1>4 DEF Alters, NoBad
<1>6. \A b \in Block : block[b].link # Bad /\ ~block[b].assigned
  BY <1>1, <1>2, <1>3, <1>4 DEF Alters, NoBad, Idle
<1>7. NoBad(Memory)
  BY <1>5, <1>6 DEF NoBad, Memory
<1>8. PastInv
  BY <1>7 DEF Init, PastInv
<1> QED BY <1>6, <1>8 DEF LiveInv, Held

\* Every step keeps objects that are in use from being marked twice.
LEMMA LivePreserved == IInv /\ PastInv /\ LiveInv /\ [Next]_vars => PastInv' /\ LiveInv'
<1> SUFFICES ASSUME IInv, PastInv, LiveInv, [Next]_vars PROVE PastInv' /\ LiveInv'
  OBVIOUS
<1>1. CASE \E p \in Pools, o \in Owners : Allocate(p, o)
  BY <1>1, AllocateInv, QuietLive DEF Allocate
<1>2. CASE \E p \in Pools : AllocateAndTrap(p)
  BY <1>2, AllocateAndTrapInv, QuietLive DEF AllocateAndTrap
<1>3. CASE \E p \in Pools : Corrupt(p)
  BY <1>3, CorruptLive
<1>4. CASE \E b \in Block : Delete(b)
  BY <1>4, DeleteInv, QuietLive DEF Delete
<1>5. CASE \E b \in Block : Lose(b)
  BY <1>5, LoseInv, QuietLive DEF Lose
<1>6. CASE \E b \in Block, o \in Owners : Move(b, o)
  BY <1>6, MoveLive
<1>7. CASE \E o \in Owners : Sicken(o)
  BY <1>7, SickenLive
<1>8. CASE Replace
  BY <1>8, ReplaceLive
<1>9. CASE AuditFreeq
  BY <1>9, AuditFreeqLive
<1>10. CASE ClaimOwner
  BY <1>10, ClaimOwnerLive
<1>11. CASE ClaimsDone
  BY <1>11, ClaimsDoneLive
<1>12. CASE RecoverBlocks
  BY <1>12, RecoverBlocksLive
<1>13. CASE UNCHANGED vars
  <2>1. Memory' = Memory /\ UNCHANGED <<audit, faults>>
    BY <1>13 DEF vars, Memory
  <2>2. Quietly(Memory, Memory')
    BY <2>1 DEF Quietly, Quiet, SameUse
  <2> QED BY <2>1, <2>2, QuietLive
<1> QED BY <1>1, <1>2, <1>3, <1>4, <1>5, <1>6, <1>7, <1>8, <1>9, <1>10, <1>11, <1>12, <1>13
        DEF Next, AuditStep

\* Objects that are in use were not marked twice in vain.
LEMMA LiveObjects == Spec => [](IInv /\ PastInv /\ LiveInv)
<1>1. Init => IInv /\ PastInv /\ LiveInv
  BY InitInv, InitLive
<1>2. IInv /\ PastInv /\ LiveInv /\ [Next]_vars => (IInv /\ PastInv /\ LiveInv)'
  BY Preserved, LivePreserved
<1> QED BY <1>1, <1>2, PTL DEF Spec

\* The audit recovers no block that a healthy owner holds, although one mishap befell it:
\* a trap had AuditFreeq mark it again, a thread was replaced, or the object moved while
\* owners were claimed (ObjectPool::AuditFreeq, ClaimBlocks and RecoverBlocks).
THEOREM LiveObjectsSurvive == Spec => LiveSurvives
<1>1. IInv /\ PastInv /\ LiveInv /\ [Next]_vars
      => [RecoverBlocks => \A b \in Block :
            Held(b) /\ block[b].holder \notin sick /\ Mishaps(b) <= 1
              => block'[b].assigned /\ block'[b].holder # None]_vars
  BY RecoverBlocksLive
<1> QED BY <1>1, LiveObjects, PTL DEF Spec, LiveSurvives

-----------------------------------------------------------------------------
(* Blocks that nobody holds.                                               *)

\* The audit does not mark a block so often that orphaned_ starts over.
NoWrap == \A b \in Block : block[b].orphaned < 255

\* A block that was left lost is not in use, and was marked in each cycle since then.
AgeInv ==
  \A b \in Block :
    LET x == block[b]
    IN  x.age > 0 => /\ b \in Blocks(Memory, b[1]) /\ ~InUse(x)
                     /\ x.age <= OrphanThreshold
                     /\ x.age <= x.orphaned + (IF Before(b[1]) THEN 1 ELSE 0)

\* The ages and marks of blocks.
LEMMA AgeTypes ==
  ASSUME IInv, NEW b \in Block
  PROVE  block[b].age \in Nat /\ block[b].orphaned \in Nat /\ block[b].orphaned \in 0 .. 255
BY DEF IInv, MemInv, Mem, Memory, BlockRecord

\* An age holds for as long as the block is lost and no mark is taken from it.
LEMMA AgeKept ==
  ASSUME IInv, AgeInv, \A p \in Pools : Blocks(Memory, p) \subseteq Blocks(Memory, p)',
         \A b \in Block :
           \/ block'[b].age = 0
           \/ /\ block'[b].age = block[b].age /\ (InUse(block'[b]) => InUse(block[b]))
              /\ block'[b].orphaned = block[b].orphaned
              /\ Before(b[1]) => Before(b[1])'
  PROVE  AgeInv'
<1> SUFFICES ASSUME NEW b \in Block, (block[b].age > 0)'
             PROVE  /\ b \in Blocks(Memory, b[1])' /\ ~InUse(block'[b])
                    /\ block'[b].age <= OrphanThreshold
                    /\ block'[b].age <= block'[b].orphaned
                                        + (IF Before(b[1])' THEN 1 ELSE 0)
  BY DEF AgeInv
<1>1. /\ block'[b].age = block[b].age /\ (InUse(block'[b]) => InUse(block[b]))
      /\ block'[b].orphaned = block[b].orphaned /\ (Before(b[1]) => Before(b[1])')
  OBVIOUS
<1>2. /\ b \in Blocks(Memory, b[1]) /\ ~InUse(block[b])
      /\ block[b].age <= OrphanThreshold
      /\ block[b].age <= block[b].orphaned + (IF Before(b[1]) THEN 1 ELSE 0)
  BY <1>1 DEF AgeInv
<1>3. b[1] \in Pools
  BY DEF Block
<1>4. b \in Blocks(Memory, b[1])'
  BY <1>2, <1>3
<1>5. block'[b].age <= block'[b].orphaned + (IF Before(b[1])' THEN 1 ELSE 0)
  BY <1>1, <1>2, AgeTypes
<1> QED BY <1>1, <1>2, <1>4, <1>5

\* Others than the audit leave lost blocks alone, or put them to use.
LEMMA QuietAge ==
  ASSUME IInv, AgeInv, Quietly(Memory, Memory'), UNCHANGED <<audit, faults>>
  PROVE  AgeInv'
<1>1. \A b \in Block : Quiet(block'[b], block[b])
  BY DEF Quietly, Memory
<1>2. \A p \in Pools : Blocks(Memory, p) \subseteq Blocks(Memory, p)'
  BY DEF Quietly, Blocks
<1>3. \A b \in Block : Before(b[1]) => Before(b[1])'
  BY DEF audit, Before
<1> QED BY <1>1, <1>2, <1>3, AgeKept DEF Quiet

\* So do mishaps.
LEMMA MishapAge ==
  ASSUME IInv, AgeInv, SameUses(Memory, Memory'),
         UNCHANGED <<phase, pid>> \/ (phase' = "CheckingFreeq" /\ pid' = 1)
  PROVE  AgeInv'
<1>1. \A b \in Block : SameUse(block'[b], block[b]) /\ block'[b].age = block[b].age
  BY DEF SameUses, Memory
<1>2. \A p \in Pools : Blocks(Memory, p) \subseteq Blocks(Memory, p)'
  BY DEF SameUses, Blocks
<1>3. \A b \in Block : Before(b[1]) => Before(b[1])'
  BY UseTypes DEF Before, Pools
<1> QED BY <1>1, <1>2, <1>3, AgeKept DEF SameUse, InUse

\* An object that changes hands was not lost.
LEMMA MoveAge ==
  ASSUME IInv, AgeInv, NEW b \in Block, NEW o \in Owners, Move(b, o)
  PROVE  AgeInv'
<1>1. /\ block'[b].age = block[b].age /\ UNCHANGED pool
      /\ \A c \in Block : c # b => block'[c] = block[c]
  BY MoveInv
<1>2. InUse(block[b]) /\ UNCHANGED audit
  BY DEF Move, Held, InUse
<1>3. block[b].age = 0
  BY <1>2, AgeTypes DEF AgeInv
<1>4. \A p \in Pools : Blocks(Memory, p) \subseteq Blocks(Memory, p)'
  BY <1>1 DEF Blocks, Memory
<1>5. \A c \in Block : Before(c[1]) => Before(c[1])'
  BY <1>2 DEF audit, Before
<1> QED BY <1>1, <1>3, <1>4, <1>5, AgeKept

\* The mark that a lost block gets makes up for the end of the previous cycle.
LEMMA AuditFreeqAge ==
  ASSUME IInv, AgeInv, NoWrap, AuditFreeq
  PROVE  AgeInv'
<1>1. /\ Audited(Memory, pid, Memory')
      /\ Reenter \/ NextPool("ClaimingBlocks")
      /\ phase = "CheckingFreeq" /\ AuditInv /\ pid \in Pools
  BY AuditFreeqInv DEF AuditFreeq, Phase, IInv, AuditInv
<1> SUFFICES ASSUME NEW b \in Block, (block[b].age > 0)'
             PROVE  /\ b \in Blocks(Memory, b[1])' /\ ~InUse(block'[b])
                    /\ block'[b].age <= OrphanThreshold
                    /\ block'[b].age <= block'[b].orphaned
                                        + (IF Before(b[1])' THEN 1 ELSE 0)
  BY DEF AgeInv
<1>2. IF b \in Blocks(Memory, pid) THEN OnceMore(block'[b], block[b])
                                   ELSE block'[b] = block[b]
  BY <1>1 DEF Audited, Memory, Idle
<1>3. block'[b].age = block[b].age /\ InUse(block'[b]) = InUse(block[b])
  BY <1>2 DEF OnceMore, InUse
<1>4. /\ b \in Blocks(Memory, b[1]) /\ ~InUse(block[b])
      /\ block[b].age <= OrphanThreshold
      /\ block[b].age <= block[b].orphaned + (IF Before(b[1]) THEN 1 ELSE 0)
  BY <1>3 DEF AgeInv
<1>5. b \in Blocks(Memory, b[1])'
  BY <1>1, <1>4, UseTypes DEF Audited, Blocks
<1>6. CASE b[1] = pid
  <2>1. block'[b].orphaned = block[b].orphaned + 1
    BY <1>2, <1>4, <1>6, AgeTypes DEF OnceMore, NoWrap
  <2> QED BY <1>3, <1>4, <1>5, <2>1, AgeTypes
<1>7. CASE b[1] # pid
  <2>1. block'[b] = block[b]
    BY <1>2, <1>7 DEF Blocks
  <2>2. Before(b[1]) => Before(b[1])'
    BY <1>1, <1>7, NextBefore, UseTypes DEF Reenter, Before
  <2> QED BY <1>3, <1>4, <1>5, <2>1, <2>2, AgeTypes
<1> QED BY <1>6, <1>7

\* A lost block is not claimed.
LEMMA ClaimOwnerAge ==
  ASSUME IInv, AgeInv, ClaimOwner
  PROVE  AgeInv'
<1> DEFINE o == claimed + 1
<1>1. /\ UNCHANGED pool
      /\ \A b \in Block : \/ block'[b] = block[b]
                          \/ /\ block[b].assigned /\ block[b].holder = o
                             /\ block'[b].age = block[b].age
  BY ClaimOwnerInv DEF ClaimedBy, Memory, IsClaimed
<1>2. UNCHANGED <<phase, pid>> /\ o \in Owners
  BY DEF ClaimOwner, Reenter
<1>3. \A b \in Block : block'[b] = block[b] \/ block'[b].age = 0
  <2> SUFFICES ASSUME NEW b \in Block, block[b].assigned, block[b].holder = o,
                      block'[b].age = block[b].age
               PROVE  block'[b].age = 0
    BY <1>1
  <2>1. InUse(block[b])
    BY <1>2 DEF InUse, Owners, None
  <2> QED BY <2>1, AgeTypes DEF AgeInv
<1>4. \A p \in Pools : Blocks(Memory, p) \subseteq Blocks(Memory, p)'
  BY <1>1 DEF Blocks, Memory
<1>5. \A c \in Block : Before(c[1]) => Before(c[1])'
  BY <1>2 DEF Before
<1> QED BY <1>3, <1>4, <1>5, AgeKept

\* The end of the claims changes no block.
LEMMA ClaimsDoneAge ==
  ASSUME IInv, AgeInv, ClaimsDone
  PROVE  AgeInv'
<1>1. /\ UNCHANGED <<pool, block>> /\ phase = "ClaimingBlocks"
      /\ NextPool("RecoveringBlocks") /\ AuditInv
  BY DEF ClaimsDone, Phase, IInv
<1>2. \A p \in Pools : Blocks(Memory, p) \subseteq Blocks(Memory, p)'
  BY <1>1 DEF Blocks, Memory
<1>3. \A b \in Block : Before(b[1]) => Before(b[1])'
  BY <1>1, NextBefore, UseTypes
<1> QED BY <1>1, <1>2, <1>3, AgeKept

\* A block that was marked twice is recovered, so one that is left was marked once.
LEMMA RecoverBlocksAge ==
  ASSUME IInv, AgeInv, RecoverBlocks
  PROVE  AgeInv'
<1>1. /\ \/ NextPool("CheckingFreeq") /\ Recovered(Memory, pid, Orphans(pid), Memory')
         \/ Reenter /\ \A b \in Block : \/ block'[b] = block[b]
                                        \/ b \in Orphans(pid) /\ Idle(block'[b])
      /\ \A p \in Pools : Blocks(Memory, p) \subseteq Blocks(Memory, p)'
  BY RecoverBlocksInv DEF Blocks
<1>2. phase = "RecoveringBlocks" /\ AuditInv /\ pid \in Pools
  BY DEF RecoverBlocks, Phase, IInv, AuditInv
<1>3. CASE Reenter /\ \A b \in Block : \/ block'[b] = block[b]
                                       \/ b \in Orphans(pid) /\ Idle(block'[b])
  <2>1. \A b \in Block : Before(b[1]) => Before(b[1])'
    BY <1>3 DEF Before, Reenter
  <2> QED BY <1>1, <1>3, <2>1, AgeKept DEF Idle
<1>4. ASSUME NextPool("CheckingFreeq"), Recovered(Memory, pid, Orphans(pid), Memory'),
             NEW b \in Block, (block[b].age > 0)'
      PROVE  /\ b \in Blocks(Memory, b[1])' /\ ~InUse(block'[b])
             /\ block'[b].age <= OrphanThreshold
             /\ block'[b].age <= block'[b].orphaned + (IF Before(b[1])' THEN 1 ELSE 0)
  <2>1. Before(b[1])' <=> Before(b[1]) \/ b[1] = pid
    BY <1>2, <1>4, NextBefore, UseTypes
  <2>2. block[b].age > 0 => /\ b \in Blocks(Memory, b[1]) /\ ~InUse(block[b])
                            /\ block[b].age <= OrphanThreshold
                            /\ block[b].age <= block[b].orphaned
                                               + (IF Before(b[1]) THEN 1 ELSE 0)
    BY DEF AgeInv
  <2>3. /\ block[b].age \in Nat /\ block[b].orphaned \in Nat
        /\ block'[b].age \in Nat /\ block'[b].orphaned \in Nat
    <3>1. IInv'
      BY RecoverBlocksInv
    <3>2. Memory' \in Mem /\ Memory'.block = block'
      BY <3>1 DEF IInv, MemInv, Memory
    <3>3. block'[b] \in BlockRecord
      BY <3>2 DEF Mem
    <3> QED BY <3>3, AgeTypes DEF BlockRecord
  <2>4. CASE b[1] # pid
    <3>1. block'[b] = block[b]
      BY <1>4, <2>4 DEF Recovered, Memory
    <3> QED BY <1>1, <1>4, <2>1, <2>2, <2>3, <2>4, <3>1, UseTypes
  <2>5. CASE b[1] = pid
    <3>1. /\ \/ Freed(block'[b])
             \/ b \notin Orphans(pid) /\ Left(block'[b], block[b])
          /\ block'[b].age # block[b].age => b \in Blocks(Memory', pid)
      BY <1>4, <2>3, <2>5 DEF Recovered, Memory
    <3>2. b \in Blocks(Memory, b[1])'
      <4>1. CASE block'[b].age # block[b].age
        BY <2>5, <3>1, <4>1 DEF Blocks
      <4>2. CASE block'[b].age = block[b].age
        BY <1>1, <1>4, <2>2, <4>2, UseTypes
      <4> QED BY <4>1, <4>2
    <3>3. Before(b[1])' /\ ~Before(b[1])
      BY <1>2, <2>1, <2>5, UseTypes DEF Before
    <3>4. CASE Freed(block'[b])
      BY <2>3, <3>2, <3>3, <3>4 DEF Freed, InUse, OrphanThreshold
    <3>5. CASE b \notin Orphans(pid) /\ Left(block'[b], block[b])
      <4>1. ~InUse(block'[b]) /\ block'[b].age <= block[b].age + 1
        BY <1>4, <2>2, <2>3, <3>5 DEF Left, SameUse, InUse
      <4>2. block'[b].orphaned = block[b].orphaned
        BY <3>5 DEF Left, SameUse
      <4>3. CASE block[b].age = 0
        BY <2>3, <3>2, <3>3, <4>1, <4>2, <4>3 DEF OrphanThreshold
      <4>4. CASE block[b].age > 0
        <5>1. block[b].age <= block[b].orphaned /\ b \in Blocks(Memory, pid)
          BY <2>2, <2>3, <2>5, <3>3, <4>4
        <5>2. block[b].orphaned < OrphanThreshold
          BY <2>3, <3>5, <5>1 DEF Orphans, OrphanThreshold
        <5> QED BY <2>3, <3>2, <3>3, <4>1, <4>2, <5>1, <5>2 DEF OrphanThreshold
      <4> QED BY <2>3, <4>3, <4>4
    <3> QED BY <3>1, <3>4, <3>5
  <2> QED BY <2>4, <2>5
<1> QED BY <1>1, <1>3, <1>4 DEF AgeInv

\* At first, no block has an age.
LEMMA InitAge == Init => AgeInv
<1> SUFFICES ASSUME Init PROVE AgeInv
  OBVIOUS
<1> DEFINE r(p) == AllocBlocks(NoMemory, p)
<1>1. \A p \in Pools : Alters(NoMemory, r(p))
  BY StartupInv
<1>2. block = [b \in Block |-> r(b[1]).block[b]]
  BY DEF Init
<1> HIDE DEF r
<1>3. \A b \in Block : b[1] \in Pools /\ NoMemory.block[b].age = 0
  BY DEF Block, NoMemory, NewBlock
<1>4. \A b \in Block : block[b].age = 0
  BY <1>1, <1>2, <1>3 DEF Alters, Idle
<1> QED BY <1>4 DEF AgeInv

\* Every step keeps the ages.
LEMMA AgePreserved == IInv /\ AgeInv /\ NoWrap /\ [Next]_vars => AgeInv'
<1> SUFFICES ASSUME IInv, AgeInv, NoWrap, [Next]_vars PROVE AgeInv'
  OBVIOUS
<1>1. CASE \E p \in Pools, o \in Owners : Allocate(p, o)
  BY <1>1, AllocateInv, QuietAge DEF Allocate
<1>2. CASE \E p \in Pools : AllocateAndTrap(p)
  BY <1>2, AllocateAndTrapInv, QuietAge DEF AllocateAndTrap
<1>3. ASSUME NEW p \in Pools, Corrupt(p)
      PROVE  AgeInv'
  <2>1. SameUses(Memory, Memory')
    BY <1>3, CorruptInv
  <2>2. UNCHANGED <<phase, pid>>
    BY <1>3 DEF Corrupt, audit
  <2> QED BY <2>1, <2>2, MishapAge
<1>4. CASE \E b \in Block : Delete(b)
  BY <1>4, DeleteInv, QuietAge DEF Delete
<1>5. CASE \E b \in Block : Lose(b)
  BY <1>5, LoseInv, QuietAge DEF Lose
<1>6. CASE \E b \in Block, o \in Owners : Move(b, o)
  BY <1>6, MoveAge
<1>7. ASSUME NEW o \in Owners, Sicken(o)
      PROVE  AgeInv'
  <2>1. SameUses(Memory, Memory')
    BY <1>7 DEF Sicken, Memory, SameUses, SameUse
  <2>2. UNCHANGED <<phase, pid>>
    BY <1>7 DEF Sicken, audit
  <2> QED BY <2>1, <2>2, MishapAge
<1>8. CASE Replace
  <2>1. SameUses(Memory, Memory')
    BY <1>8 DEF Replace, Memory, SameUses, SameUse
  <2>2. phase' = "CheckingFreeq" /\ pid' = 1
    BY <1>8 DEF Replace
  <2> QED BY <2>1, <2>2, MishapAge
<1>9. CASE AuditFreeq
  BY <1>9, AuditFreeqAge
<1>10. CASE ClaimOwner
  BY <1>10, ClaimOwnerAge
<1>11. CASE ClaimsDone
  BY <1>11, ClaimsDoneAge
<1>12. CASE RecoverBlocks
  BY <1>12, RecoverBlocksAge
<1>13. CASE UNCHANGED vars
  <2>1. Memory' = Memory /\ UNCHANGED <<audit, faults>>
    BY <1>13 DEF vars, Memory
  <2>2. Quietly(Memory, Memory')
    BY <2>1 DEF Quietly, Quiet, SameUse
  <2> QED BY <2>1, <2>2, QuietAge
<1> QED BY <1>1, <1>2, <1>3, <1>4, <1>5, <1>6, <1>7, <1>8, <1>9, <1>10, <1>11, <1>12, <1>13
        DEF Next, AuditStep

\* A block that nobody holds returns to the free queue before a third cycle of the audit has
\* left it lost, whatever applications, testers and traps do (ObjectPool::AuditFreeq and
\* RecoverBlocks), as long as no block is marked so often that its eight-bit counter
\* orphaned_ starts over.
THEOREM LostBlocksReturn == Spec /\ []NoWrap => []OrphansReturn
<1>1. Init => AgeInv
  BY InitAge
<1>2. IInv /\ AgeInv /\ NoWrap /\ [Next]_vars => AgeInv'
  BY AgePreserved
<1>3. IInv /\ AgeInv => OrphansReturn
  BY AgeTypes DEF AgeInv, OrphansReturn, OrphanThreshold
<1> QED BY <1>1, <1>2, <1>3, Invariant, PTL DEF Spec
===============================================================================
