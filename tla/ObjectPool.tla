------------------------------ MODULE ObjectPool ------------------------------
(***************************************************************************)
(* Object pools (nb/ObjectPool.cpp) and the thread that audits them        *)
(* (nb/ObjectPoolAudit.cpp, ObjectPoolRegistry::AuditPools).               *)
(*                                                                         *)
(* A pool hands out blocks from a circular one-way queue (nb/Q1Way.h) and  *)
(* adds a segment of blocks when few are left.  The audit runs through     *)
(* three phases, and other threads run after each of its steps:            *)
(*  - it marks every block of a pool and unmarks those that it finds on    *)
(*    the free queue, which it truncates where a link is corrupt;          *)
(*  - it has the owners of objects (contexts) claim their blocks;          *)
(*  - it recovers a block that is marked for the second time.              *)
(* A bad link makes the audit trap.  It is then reentered in the phase and *)
(* pool where it trapped.  A thread that replaces the audit's thread starts *)
(* with the first phase.                                                   *)
(*                                                                         *)
(* Whatever holds blocks is an Owner.  An object is lost when no owner     *)
(* refers to it: the code that owned it trapped, or forgot to delete it.   *)
(***************************************************************************)
EXTENDS Integers, FiniteSets

CONSTANTS
  NumPools,      \* pools are audited in the order of their identifiers
  PerSegment,    \* ObjectPool::ObjectsPerSegment (1024)
  MaxSegments,   \* ObjectPool::MaxSegments (256)
  DeltaLimit,    \* blocks taken or returned between calls to UpdateAlarm (50)
  NumOwners,     \* owners claim their blocks in this order
  MaxMishaps,    \* bound on corrupt links, corrupt owners and killed audits
  Nil, Bad       \* a null link, and a link to an illegal address

ASSUME PoolAssumption ==
  /\ NumPools \in Nat \ {0} /\ PerSegment \in Nat \ {0}
  /\ MaxSegments \in Nat \ {0} /\ DeltaLimit \in Nat \ {0}
  /\ NumOwners \in Nat /\ MaxMishaps \in Nat

Pools  == 1 .. NumPools
Owners == 1 .. NumOwners
None   == 0                               \* the holder of a block nobody holds
Block  == Pools \X (1 .. MaxSegments * PerSegment)

ASSUME LinkAssumption == Nil \notin Block /\ Bad \notin Block /\ Nil # Bad

OrphanThreshold == 2

Phases == {"CheckingFreeq", "ClaimingBlocks", "RecoveringBlocks"}

VARIABLES
  pool,      \* pool[p]: segments, tail of the free queue and its bookkeeping
  block,     \* block[b]: the fields of Pooled, and who holds the object
  phase,     \* ObjectPoolAudit::phase_
  pid,       \* ObjectPoolAudit::pid_
  claimed,   \* ProtocolSMPool::psmToAudit_: owners that were claimed so far
  sick,      \* owners that trap when their objects are traversed
  avoided,   \* owners whose corrupt_ flag is set
  lab,       \* Element::RunningInLab: testers may corrupt a free queue
  mishaps    \* number of corrupt links, corrupt owners and killed audits

audit == <<phase, pid, claimed>>
faults == <<sick, avoided, lab, mishaps>>
vars == <<pool, block, audit, faults>>

-----------------------------------------------------------------------------
(* Pools and their blocks.  A memory m is a pair of the two functions.     *)

Memory == [pool |-> pool, block |-> block]

Store(m) == pool' = m.pool /\ block' = m.block

Blocks(m, p) == {b \in Block : b[1] = p /\ b[2] <= m.pool[p].segs * PerSegment}

Total(m, p) == m.pool[p].segs * PerSegment

\* Puts an unlinked block at the back of the circular queue.
Q1Enq(m, b) ==
  LET p == b[1]
      tail == m.pool[p].tail
      next == IF tail = Nil THEN b ELSE m.block[tail].link
      old == IF tail = Nil THEN m.block
                           ELSE [m.block EXCEPT ![tail].link = b]
  IN IF m.block[b].link # Nil
       THEN m
       ELSE [pool |-> [m.pool EXCEPT ![p].tail = b],
             block |-> [old EXCEPT ![b].link = next]]

\* The front of the queue, and the queue without it.
Q1Front(m, p) == m.block[m.pool[p].tail].link

\* Mutant: the last item keeps its link to the item that is removed.
Q1DeqStuck(m, p) == [m EXCEPT !.block[Q1Front(m, p)].link = Nil]

Q1Deq(m, p) ==
  LET tail == m.pool[p].tail
      item == Q1Front(m, p)
      rest == [m.block EXCEPT ![tail].link = m.block[item].link]
  IN IF item = tail
       THEN [pool |-> [m.pool EXCEPT ![p].tail = Nil],
             block |-> [m.block EXCEPT ![item].link = Nil]]
       ELSE [m EXCEPT !.block = [rest EXCEPT ![item].link = Nil]]

\* A block that EnqBlock refuses: it is on the free queue or another queue.
Refused(x) == IF x.assigned THEN x.link # Nil ELSE x.orphaned = 0

FreeBlock(x) ==
  [x EXCEPT !.link = Nil, !.assigned = FALSE, !.orphaned = 0,
            !.corrupt = FALSE, !.moved = FALSE, !.age = 0]

\* Mutant: a block is returned without counting it.
EnqueueUncounted(m, b) ==
  IF Refused(m.block[b]) THEN m
                         ELSE Q1Enq([m EXCEPT !.block[b] = FreeBlock(@)], b)

\* EnqBlock, without its update of the alarm.
Enqueue(m, b) ==
  LET freed == [m EXCEPT !.block[b] = FreeBlock(@)]
  IN IF Refused(m.block[b]) THEN m
     ELSE [Q1Enq(freed, b) EXCEPT !.pool[b[1]].avail = @ + 1]

\* Returns the blocks of S to pool P, in the order of their indices.
EnqueueAll(m, p, S) ==
  LET done[i \in 0 .. Total(m, p)] ==
        IF i = 0 THEN m
        ELSE IF <<p, i>> \in S THEN Enqueue(done[i - 1], <<p, i>>)
        ELSE done[i - 1]
  IN done[Total(m, p)]

NewBlock == [link |-> Nil, assigned |-> FALSE, orphaned |-> OrphanThreshold,
             corrupt |-> FALSE, holder |-> None, moved |-> FALSE, age |-> 0]

\* Adds a segment of blocks to a pool.
AllocBlocks(m, p) ==
  LET more == [m EXCEPT !.pool[p].segs = @ + 1]
      new == Blocks(more, p) \ Blocks(m, p)
      init == [b \in Block |-> IF b \in new THEN NewBlock ELSE m.block[b]]
  IN EnqueueAll([more EXCEPT !.block = init], p, new)

\* When few blocks remain, the pool is expanded.
UpdateAlarm(m, p) ==
  LET reset == [m EXCEPT !.pool[p].delta = 0]
  IN IF /\ m.pool[p].avail <= Total(m, p) \div 64
        /\ m.pool[p].segs < MaxSegments
       THEN AllocBlocks(reset, p)
       ELSE reset

\* Mutant: the alarm is never updated.
CountDeltaOnly(m, p, n) == [m EXCEPT !.pool[p].delta = @ + n]

CountDelta(m, p, n) ==
  LET counted == [m EXCEPT !.pool[p].delta = @ + n]
  IN IF (IF n > 0 THEN counted.pool[p].delta >= DeltaLimit
                  ELSE counted.pool[p].delta <= -DeltaLimit)
       THEN UpdateAlarm(counted, p) ELSE counted

-----------------------------------------------------------------------------
(* What applications do.                                                   *)

EmptyPool == [segs |-> 0, tail |-> Nil, avail |-> 0, delta |-> 0,
              badHead |-> FALSE]

NoMemory == [pool |-> [p \in Pools |-> EmptyPool],
             block |-> [b \in Block |-> NewBlock]]

\* ObjectPool::Startup allocates the first segment of each pool.
Init ==
  /\ pool = [p \in Pools |-> AllocBlocks(NoMemory, p).pool[p]]
  /\ block = [b \in Block |-> AllocBlocks(NoMemory, b[1]).block[b]]
  /\ phase = "CheckingFreeq" /\ pid = 1 /\ claimed = 0
  /\ sick = {} /\ avoided = {} /\ mishaps = 0
  /\ lab \in BOOLEAN

\* The queue can be used if following its header and its last link is safe.
CanDequeue(p) ==
  /\ pool[p].tail \in Block
  /\ Q1Front(Memory, p) \in Block

\* moved and age record what befell the block: whether it was moved to another
\* owner, and how often the audit left it lost.
Construct(m, b, o) ==
  [m EXCEPT !.block[b] = [@ EXCEPT !.assigned = TRUE, !.orphaned = 0,
                            !.corrupt = FALSE, !.holder = o, !.moved = FALSE,
                            !.age = 0]]

Dequeued(p) ==
  CountDelta([Q1Deq(Memory, p) EXCEPT !.pool[p].avail = @ - 1], p, -1)

\* DeqBlock, and the constructor of the object.
Allocate(p, o) ==
  /\ CanDequeue(p)
  /\ Store(Construct(Dequeued(p), Q1Front(Memory, p), o))
  /\ UNCHANGED <<audit, faults>>

\* The thread traps after DeqBlock, before the constructor is reached.
AllocateAndTrap(p) ==
  /\ CanDequeue(p)
  /\ Store(Dequeued(p))
  /\ UNCHANGED <<audit, faults>>

Held(b) == block[b].assigned /\ block[b].holder # None

\* An owner deletes an object.  Returning it needs a queue header that can be
\* followed; if it cannot be, Enq traps after the block was reset.
Delete(b) ==
  LET p == b[1]
      m == [Memory EXCEPT !.block[b].holder = None]
  IN /\ Held(b)
     /\ IF pool[p].tail = Bad
          THEN Store([m EXCEPT !.block[b] = FreeBlock(@)])
          ELSE Store(CountDelta(Enqueue(m, b), p, 1))
     /\ UNCHANGED <<audit, faults>>

\* The last reference to an object disappears without its deletion.
Lose(b) ==
  /\ Held(b)
  /\ Store([Memory EXCEPT !.block[b].holder = None, !.block[b].moved = FALSE])
  /\ UNCHANGED <<audit, faults>>

\* A message is moved to the context that receives it.  The bound is one move
\* for each object.
Move(b, o) ==
  /\ Held(b) /\ ~block[b].moved /\ block[b].holder # o
  /\ Store([Memory EXCEPT !.block[b].holder = o, !.block[b].moved = TRUE])
  /\ UNCHANGED <<audit, faults>>

-----------------------------------------------------------------------------
(* Faults.                                                                 *)

Mishap == lab /\ mishaps < MaxMishaps /\ mishaps' = mishaps + 1

\* The blocks that are reached from the queue header, by number of links.
Visit(m, p) ==
  LET tail == m.pool[p].tail
      v[k \in 0 .. Total(m, p)] ==
        IF k = 0 THEN tail
        ELSE IF v[k - 1] \in Block THEN m.block[v[k - 1]].link ELSE v[k - 1]
  IN v

\* The blocks on a free queue, up to a bad link.
FreeQueue(m, p) ==
  LET v == Visit(m, p) IN {v[k] : k \in DOMAIN v} \ {Nil, Bad}

\* A block that nobody holds and that is not on the free queue.
Lost(m, b) ==
  /\ b \in Blocks(m, b[1]) \ FreeQueue(m, b[1])
  /\ ~m.block[b].assigned \/ m.block[b].holder = None

\* A tester corrupts the queue header or the link of a block on the queue.
Corrupt(p) ==
  /\ Mishap
  /\ \/ Store([Memory EXCEPT !.pool[p].tail = Bad])
     \/ \E k \in DOMAIN Visit(Memory, p) :
          LET b == Visit(Memory, p)[k]
          IN b \in Block /\ Store([Memory EXCEPT !.block[b].link = Bad])
  /\ UNCHANGED <<audit, sick, avoided, lab>>

\* An owner is damaged so that the audit traps when it traverses it.
Sicken(o) ==
  /\ Mishap /\ o \notin sick
  /\ sick' = sick \union {o}
  /\ UNCHANGED <<pool, block, audit, avoided, lab>>

-----------------------------------------------------------------------------
(* The audit.                                                              *)

Phase(f) == phase = f

NextPool(f) ==
  IF pid < NumPools
    THEN pid' = pid + 1 /\ phase' = phase
    ELSE pid' = 1 /\ phase' = f

\* After a trap, the audit is reentered where it was.
Reenter == UNCHANGED <<phase, pid>>

\* orphaned_ has eight bits.
Marked(m, p) ==
  [m EXCEPT !.block =
     [b \in Block |-> IF b \in Blocks(m, p)
                        THEN [m.block[b] EXCEPT !.orphaned = (@ + 1) % 256]
                        ELSE m.block[b]]]

\* The flag of the link that leads to the k-th item: that of the queue header,
\* or that of the previous item.
Flagged(m, p, v, k) ==
  IF k = 0 THEN m.pool[p].badHead ELSE m.block[v[k - 1]].corrupt

SetFlag(m, p, v, k, f) ==
  IF k = 0 THEN [m EXCEPT !.pool[p].badHead = f]
           ELSE [m EXCEPT !.block[v[k - 1]].corrupt = f]

\* The k-th item is a block that cannot be on the queue: it is not marked, or
\* the traversal has been there.
OutOfPlace(m, v, k) ==
  /\ v[k] \in Block
  /\ \/ m.block[v[k]].orphaned \notin 1 .. OrphanThreshold
     \/ \E j \in 0 .. k - 1 : v[j] = v[k]

Closed(v, k) == k > 0 /\ v[k] = v[0]

BadLink(m, p, v, k) == Flagged(m, p, v, k) \/ OutOfPlace(m, v, k)

\* The traversal ends with the first item that closes the queue, whose link is
\* known to be bad, or whose address cannot be followed.
EndsAt(m, p, v, k) ==
  /\ Closed(v, k) \/ BadLink(m, p, v, k) \/ v[k] \notin Block
  /\ \A j \in 0 .. k - 1 : v[j] \in Block

FirstEnd(m, p, v) ==
  CHOOSE k \in DOMAIN v :
    /\ EndsAt(m, p, v, k)
    /\ \A j \in 0 .. k - 1 : ~EndsAt(m, p, v, j)

Unmark(m, v, n) ==
  [m EXCEPT !.block =
     [b \in Block |-> IF \E j \in 0 .. n - 1 : v[j] = b
                        THEN [m.block[b] EXCEPT !.orphaned = 0, !.corrupt = FALSE]
                        ELSE m.block[b]]]

\* Mutant: a queue whose first link is good is cut in its count only.
TruncatedInName(m, p, v, n) ==
  IF n = 0
    THEN [m EXCEPT !.pool[p] = [@ EXCEPT !.tail = Nil, !.avail = 0,
                                         !.badHead = FALSE]]
    ELSE [m EXCEPT !.pool[p].avail = n]

\* Keeps the n items in front of a bad link.
Truncated(m, p, v, n) ==
  IF n = 0
    THEN [m EXCEPT !.pool[p] = [@ EXCEPT !.tail = Nil, !.avail = 0,
                                         !.badHead = FALSE]]
    ELSE [m EXCEPT !.block[v[n - 1]].link = v[0], !.pool[p].avail = n]

\* AuditFreeq: marks all blocks, then unmarks those on the free queue.
AuditFreeq ==
  LET p == pid
      m == Marked(Memory, p)
      v == Visit(m, p)
      n == FirstEnd(m, p, v)
      rest == Unmark(m, v, n)
      empty == v[0] = Nil
  IN /\ Phase("CheckingFreeq")
     /\ UNCHANGED <<claimed, faults>>
     /\ \/ /\ NextPool("ClaimingBlocks")
           /\ empty \/ Closed(v, n)
           /\ LET count == IF empty THEN 0 ELSE n
                  seen == IF empty THEN m ELSE [rest EXCEPT !.pool[p].badHead = FALSE]
              IN Store(IF pool[p].avail = count THEN seen
                       ELSE UpdateAlarm([seen EXCEPT !.pool[p].avail = count], p))
        \/ /\ NextPool("ClaimingBlocks")
           /\ ~empty /\ ~Closed(v, n) /\ BadLink(m, p, v, n)
           /\ Store(UpdateAlarm(Truncated(rest, p, v, n), p))
        \/ /\ Reenter
           /\ ~empty /\ ~Closed(v, n) /\ ~BadLink(m, p, v, n)
           /\ Store(SetFlag(rest, p, v, n, TRUE))

Claim(m, o) ==
  [m EXCEPT !.block =
     [b \in Block |-> IF m.block[b].assigned /\ m.block[b].holder = o
                        THEN [m.block[b] EXCEPT !.orphaned = 0]
                        ELSE m.block[b]]]

\* ClaimBlocks of the pool whose objects lead to all owners, the last one:
\* the other pools' functions claim no owner.  The audit pauses between owners.
ClaimOwner ==
  LET o == claimed + 1
  IN /\ Phase("ClaimingBlocks") /\ pid = NumPools /\ o \in Owners
     /\ claimed' = o
     /\ IF o \in sick /\ o \notin avoided
          THEN /\ avoided' = avoided \union {o} /\ Reenter
               /\ UNCHANGED <<pool, block>>
          ELSE /\ Store(IF o \in avoided THEN Memory ELSE Claim(Memory, o))
               /\ UNCHANGED <<phase, pid, avoided>>
     /\ UNCHANGED <<sick, lab, mishaps>>

ClaimsDone ==
  /\ Phase("ClaimingBlocks")
  /\ pid = NumPools => claimed = NumOwners
  /\ claimed' = IF pid = NumPools THEN 0 ELSE claimed
  /\ NextPool("RecoveringBlocks")
  /\ UNCHANGED <<pool, block, faults>>

\* Mutants: one cycle too late, and one too early.
OrphansLate(p) == {b \in Blocks(Memory, p) : block[b].orphaned > OrphanThreshold}
OrphansSoon(p) ==
  {b \in Blocks(Memory, p) : block[b].orphaned >= OrphanThreshold - 1}

Orphans(p) == {b \in Blocks(Memory, p) : block[b].orphaned >= OrphanThreshold}

\* What is done to an orphan before its block is put on the free queue: its
\* Cleanup has it let go of what it owned, and its owner of it.  A trap in
\* Cleanup is left out.
CleanUp(m, S) ==
  [m EXCEPT !.block =
     [b \in Block |-> IF b \in S
                        THEN [m.block[b] EXCEPT !.link = Nil, !.holder = None]
                        ELSE m.block[b]]]

\* Counts a cycle for the blocks that the audit leaves lost.
Aged(m, p) ==
  [m EXCEPT !.block =
     [b \in Block |-> IF b[1] = p /\ Lost(m, b)
                        THEN [m.block[b] EXCEPT !.age = @ + 1]
                        ELSE m.block[b]]]

\* RecoverBlocks puts all orphans on the free queue.  It traps at the first
\* one if the queue header is bad.
RecoverBlocks ==
  LET p == pid
      first == CHOOSE b \in Orphans(p) : \A c \in Orphans(p) : b[2] <= c[2]
  IN /\ Phase("RecoveringBlocks")
     /\ UNCHANGED <<claimed, faults>>
     /\ \/ /\ NextPool("CheckingFreeq")
           /\ Orphans(p) = {} \/ pool[p].tail # Bad
           /\ Store(Aged(EnqueueAll(CleanUp(Memory, Orphans(p)), p, Orphans(p)), p))
        \/ /\ Reenter
           /\ Orphans(p) # {} /\ pool[p].tail = Bad
           /\ Store([CleanUp(Memory, {first}) EXCEPT !.block[first] = FreeBlock(@)])

\* The audit's thread is killed.  The one that replaces it starts from the
\* beginning, except that psmToAudit_ is in the pool and keeps its value.
Replace ==
  /\ Mishap
  /\ phase' = "CheckingFreeq" /\ pid' = 1
  /\ UNCHANGED <<pool, block, claimed, sick, avoided, lab>>

-----------------------------------------------------------------------------
AuditStep == AuditFreeq \/ ClaimOwner \/ ClaimsDone \/ RecoverBlocks

Next ==
  \/ \E p \in Pools, o \in Owners : Allocate(p, o)
  \/ \E p \in Pools : AllocateAndTrap(p) \/ Corrupt(p)
  \/ \E b \in Block : Delete(b) \/ Lose(b)
  \/ \E b \in Block, o \in Owners : Move(b, o)
  \/ \E o \in Owners : Sicken(o)
  \/ Replace
  \/ AuditStep

Spec == Init /\ [][Next]_vars

-----------------------------------------------------------------------------
(* Properties.                                                             *)

\* The type invariant: counters stay within their bounds, and links lead to blocks,
\* although blocks are lost and the queue is corrupted (ObjectPool::AuditFreeq).
PoolTypeOK ==
  /\ pool \in [Pools -> [segs : 1 .. MaxSegments, tail : Block \union {Nil, Bad},
                         avail : Nat, delta : -DeltaLimit .. DeltaLimit,
                         badHead : BOOLEAN]]
  /\ block \in [Block -> [link : Block \union {Nil, Bad}, assigned : BOOLEAN,
                          orphaned : 0 .. 255, corrupt : BOOLEAN,
                          holder : Owners \union {None}, moved : BOOLEAN,
                          age : Nat]]
  /\ phase \in Phases /\ pid \in Pools /\ claimed \in 0 .. NumOwners
  /\ sick \subseteq Owners /\ avoided \subseteq sick
  /\ lab \in BOOLEAN /\ mishaps \in 0 .. MaxMishaps

IsSound(p) == Bad \notin {Visit(Memory, p)[k] : k \in DOMAIN Visit(Memory, p)}

\* A block that can be handed out is never in use, belongs to the pool, and
\* would not be refused when it is returned: no block has two users.
FreeIsUnused ==
  \A p \in Pools : \A b \in FreeQueue(Memory, p) :
    /\ ~block[b].assigned
    /\ b \in Blocks(Memory, p)

\* The count of available blocks is that of the blocks on the queue whenever
\* no link of the queue is bad.
CountIsTrue ==
  \A p \in Pools :
    IsSound(p) => pool[p].avail = Cardinality(FreeQueue(Memory, p))

\* What a cycle of the audit may have done twice or not at all for an object:
\* marking it again after a trap or in a new thread, and claiming its owner
\* before it moved there.
Mishaps(b) == mishaps + (IF block[b].moved THEN 1 ELSE 0)

\* An object that is in use keeps its block: the audit recovers no block that
\* a healthy owner holds, although one mishap may have befallen it.  Two mishaps
\* cost it its block: a move that hides it from one cycle, and a trap that has
\* AuditFreeq mark it twice in that cycle.
LiveSurvives ==
  [][RecoverBlocks => \A b \in Block :
       Held(b) /\ block[b].holder \notin sick /\ Mishaps(b) <= 1
         => block'[b].assigned /\ block'[b].holder # None]_vars

\* A block that nobody holds returns to the free queue, whatever happened: its
\* object was lost, it was behind a bad link, or its return was refused.  The
\* audit that runs when it is lost may find it claimed, the next one marks it
\* once, and the third one recovers it.  The audit that a mishap interrupted is
\* not one of them.
OrphansReturn == \A b \in Block : block[b].age <= OrphanThreshold

\* AuditFreeq is done with a free queue only when all of its links are good.
FreeqIsRepaired ==
  [][\A p \in Pools :
       /\ phase = "CheckingFreeq" /\ pid = p
       /\ pid' = p + 1 \/ phase' = "ClaimingBlocks"
       => IsSound(p)']_vars
=============================================================================
