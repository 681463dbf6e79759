----------------------- MODULE InvokerRestart_proofs -----------------------
(* Proofs about module InvokerRestart: whatever warm restarts do to an       *)
(* invoker pool, each context is on one work queue at most, a ready context  *)
(* is on one, and no context is left running without an invoker, for any     *)
(* number of invokers, contexts, messages and restarts.                      *)
EXTENDS InvokerRestart, InvokerPool_proofs

-----------------------------------------------------------------------------
(* The inductive invariant                                                  *)

InProcessWork == {"Process", "PriMsg", "StdMsg"}

\* What the steps of the invokers rely on.  The owner of a context and the
\* lengths of the work queues, on which IInv relies, are not restored by a restart.
FormInv ==
    /\ state \in [Contexts -> ContextState]
    /\ ctx \in [Invokers -> Contexts \cup {Nil}]
    /\ frame \in [Invokers -> Contexts \cup {Nil}]
    /\ pc \in [Invokers -> InvokerPc]
    /\ \A i \in Invokers : pc[i] \in InProcessWork \cup {"Paused"} => frame[i] \in Contexts

\* Each context is on one of the queues at most, and once.
Linked(w) ==
    /\ w \in [Priority -> Seq(Contexts)]
    /\ \A p \in Priority : Distinct(w[p])
    /\ \A p, q \in Priority : \A c : In(w[p], c) /\ In(w[q], c) => p = q

OnQueue(w, c) == \E p \in Priority : In(w[p], c)

ReadyInv == \A c \in Contexts : state[c] = "Ready" => OnQueue(workq, c)

Serves(i, c) == frame[i] = c /\ ctx[i] = c /\ pc[i] \in InProcessWork

HeldInv ==
    ~strayed =>
        \A c \in Contexts : state[c] = "Running" => \E i \in Invokers : Serves(i, c)

RInv == FormInv /\ Linked(workq) /\ ReadyInv /\ HeldInv

-----------------------------------------------------------------------------
(* Work queues                                                              *)

\* Unlinking C takes it off every queue, and nothing else.
LEMMA UnlinkLinked ==
    ASSUME NEW w, Linked(w), NEW c \in Contexts
    PROVE  /\ Linked(Unlink(w, c))
           /\ \A p \in Priority : \A d :
                In(Unlink(w, c)[p], d) <=> In(w[p], d) /\ d # c
<1> DEFINE v == Unlink(w, c)
<1>1. v = [p \in Priority |-> RemoveFirst(w[p], c)]
  BY DEF Unlink
<1> HIDE DEF v
<1>2. ASSUME NEW p \in Priority
      PROVE  /\ v[p] \in Seq(Contexts)
             /\ Distinct(v[p])
             /\ \A d : In(v[p], d) <=> In(w[p], d) /\ d # c
  <2>1. w[p] \in Seq(Contexts) /\ Distinct(w[p]) /\ v[p] = RemoveFirst(w[p], c)
    BY <1>1 DEF Linked
  <2> QED BY <2>1, RemoveFirstProperties
<1>3. v \in [Priority -> Seq(Contexts)]
  BY <1>1, <1>2
<1>4. Linked(v)
  BY <1>2, <1>3 DEF Linked
<1> QED BY <1>2, <1>4 DEF v

\* An item that is put in front of items among which it is not.
LEMMA PushProperties ==
    ASSUME NEW S, NEW s \in Seq(S), NEW e \in S, Distinct(s), ~In(s, e)
    PROVE  /\ <<e>> \o s \in Seq(S)
           /\ Distinct(<<e>> \o s)
           /\ \A x : In(<<e>> \o s, x) <=> In(s, x) \/ x = e
<1> DEFINE t == <<e>> \o s
<1>1. Len(s) \in Nat
  BY LenProperties
<1>2. <<e>> \in Seq(S) /\ Len(<<e>>) = 1 /\ <<e>>[1] = e
  OBVIOUS
<1>3. /\ t \in Seq(S)
      /\ Len(t) = 1 + Len(s)
      /\ \A k \in 1 .. 1 + Len(s) : t[k] = IF k <= 1 THEN e ELSE s[k - 1]
  <2>1. \A k \in 1 .. 1 + Len(s) :
          t[k] = IF k <= 1 THEN <<e>>[k] ELSE s[k - 1]
    BY <1>2, ConcatProperties
  <2>2. t \in Seq(S) /\ Len(t) = 1 + Len(s)
    BY <1>2, ConcatProperties
  <2>3. \A k \in 1 .. 1 + Len(s) : k <= 1 => k = 1
    BY <1>1
  <2> QED BY <1>2, <2>1, <2>2, <2>3
<1> HIDE DEF t
<1>4. Distinct(t)
  BY <1>1, <1>3, SMTT(30) DEF Distinct, In
<1>5. ASSUME NEW x PROVE In(t, x) <=> In(s, x) \/ x = e
  <2>1. ASSUME NEW k \in 1 .. Len(s) PROVE k + 1 \in 1 .. Len(t) /\ t[k + 1] = s[k]
    BY <1>1, <1>3
  <2>2. 1 \in 1 .. Len(t) /\ t[1] = e
    BY <1>1, <1>3
  <2>3. ASSUME NEW k \in 1 .. Len(t), k # 1
        PROVE  k - 1 \in 1 .. Len(s) /\ t[k] = s[k - 1]
    BY <1>1, <1>3, <2>3
  <2>4. In(s, x) => In(t, x)
    BY <2>1 DEF In
  <2>5. x = e => In(t, x)
    BY <2>2 DEF In
  <2>6. ASSUME In(t, x) PROVE In(s, x) \/ x = e
    <3>1. PICK k \in 1 .. Len(t) : t[k] = x
      BY <2>6 DEF In
    <3> QED BY <2>2, <2>3, <3>1 DEF In
  <2> QED BY <2>4, <2>5, <2>6
<1> QED BY <1>3, <1>4, <1>5 DEF t

\* Enq and Henq leave C on queue P, and the others where they are.
LEMMA EnqueuedLinked ==
    ASSUME NEW w, Linked(w), NEW c \in Contexts, NEW p \in Priority, NEW henq
    PROVE  /\ Linked(Enqueued(w, c, p, henq))
           /\ OnQueue(Enqueued(w, c, p, henq), c)
           /\ \A d : OnQueue(w, d) => OnQueue(Enqueued(w, c, p, henq), d)
<1> DEFINE v == Unlink(w, c)
           s == IF henq THEN <<c>> \o v[p] ELSE Append(v[p], c)
           u == Enqueued(w, c, p, henq)
<1>1. /\ Linked(v)
      /\ \A q \in Priority : \A d : In(v[q], d) <=> In(w[q], d) /\ d # c
  BY UnlinkLinked
<1> HIDE DEF v
<1>2. v[p] \in Seq(Contexts) /\ Distinct(v[p]) /\ ~In(v[p], c)
  BY <1>1 DEF Linked
<1>3. /\ s \in Seq(Contexts)
      /\ Distinct(s)
      /\ \A x : In(s, x) <=> In(v[p], x) \/ x = c
  BY <1>2, PushProperties, AppendDistinct
<1>4. u = [v EXCEPT ![p] = s]
  BY DEF Enqueued, v
<1> HIDE DEF s, u
<1>5. /\ u \in [Priority -> Seq(Contexts)]
      /\ u[p] = s
      /\ \A q \in Priority \ {p} : u[q] = v[q]
  BY <1>1, <1>3, <1>4 DEF Linked
<1>6. \A q \in Priority : Distinct(u[q])
  BY <1>1, <1>3, <1>5 DEF Linked
<1>7. \A q \in Priority : \A d :
        In(u[q], d) <=> (d = c /\ q = p) \/ (d # c /\ In(w[q], d))
  BY <1>1, <1>3, <1>5
<1>8. Linked(u)
  BY <1>5, <1>6, <1>7 DEF Linked
<1>9. OnQueue(u, c)
  BY <1>7 DEF OnQueue
<1>10. \A d : OnQueue(w, d) => OnQueue(u, d)
  BY <1>7 DEF OnQueue
<1> QED BY <1>8, <1>9, <1>10 DEF u

\* A step that moves one context at most, to a queue when it becomes ready and
\* off its queue only when it is not ready.
Moves(c) ==
    /\ \A d \in Contexts \ {c} : state'[d] = "Ready" => state[d] = "Ready"
    /\ \/ workq' = workq /\ (state'[c] = "Ready" => state[c] = "Ready")
       \/ workq' = Unlink(workq, c) /\ state'[c] # "Ready"
       \/ \E p \in Priority, henq \in BOOLEAN : workq' = Enqueued(workq, c, p, henq)

\* Such a step keeps the queues linked and the ready contexts on them.
LEMMA MovesInv ==
    ASSUME RInv, NEW c \in Contexts, Moves(c)
    PROVE  Linked(workq)' /\ ReadyInv'
<1> USE DEF RInv
<1>1. CASE workq' = workq /\ (state'[c] = "Ready" => state[c] = "Ready")
  <2>1. \A d \in Contexts : state'[d] = "Ready" => state[d] = "Ready"
    BY <1>1 DEF Moves
  <2> QED BY <1>1, <2>1 DEF Linked, ReadyInv
<1>2. CASE workq' = Unlink(workq, c) /\ state'[c] # "Ready"
  <2>1. /\ Linked(workq')
        /\ \A d \in Contexts : d # c /\ OnQueue(workq, d) => OnQueue(workq', d)
    BY <1>2, UnlinkLinked DEF OnQueue
  <2> QED BY <1>2, <2>1 DEF ReadyInv, Moves, Linked
<1>3. CASE \E p \in Priority, henq \in BOOLEAN : workq' = Enqueued(workq, c, p, henq)
  <2>1. PICK p \in Priority, henq \in BOOLEAN : workq' = Enqueued(workq, c, p, henq)
    BY <1>3
  <2>2. /\ Linked(workq')
        /\ OnQueue(workq', c)
        /\ \A d \in Contexts : OnQueue(workq, d) => OnQueue(workq', d)
    BY <2>1, EnqueuedLinked
  <2> QED BY <2>2 DEF ReadyInv, Moves, Linked
<1> QED BY <1>1, <1>2, <1>3 DEF Moves

-----------------------------------------------------------------------------
(* Invokers                                                                 *)

\* A step of invoker I that leaves each context that is then running with I, or
\* with the invoker that had it.
LEMMA HeldStep ==
    ASSUME HeldInv, RestartNext, NEW i \in Invokers,
           \A j \in Invokers \ {i} :
             frame'[j] = frame[j] /\ ctx'[j] = ctx[j] /\ pc'[j] = pc[j],
           \A d \in Contexts :
             state'[d] = "Running" =>
               Serves(i, d)' \/ (state[d] = "Running" /\ ~Serves(i, d))
    PROVE  HeldInv'
<1> SUFFICES ASSUME ~strayed', NEW d \in Contexts, state'[d] = "Running"
             PROVE  \E j \in Invokers : Serves(j, d)'
  BY DEF HeldInv
<1>1. ~strayed
  BY DEF RestartNext
<1>2. CASE Serves(i, d)'
  BY <1>2
<1>3. CASE state[d] = "Running" /\ ~Serves(i, d)
  <2>1. PICK j \in Invokers : Serves(j, d)
    BY <1>1, <1>3 DEF HeldInv
  <2>2. Serves(j, d)'
    BY <1>3, <2>1 DEF Serves
  <2> QED BY <2>2
<1> QED BY <1>2, <1>3

\* A step that moves no context, and takes none from an invoker that runs it.
LEMMA QuietStep ==
    ASSUME RInv, strayed => strayed', UNCHANGED <<state, workq, ctx, frame>>,
           pc' \in [Invokers -> InvokerPc],
           \A i \in Invokers :
             /\ pc[i] \in InProcessWork => pc'[i] \in InProcessWork
             /\ pc'[i] \in InProcessWork \cup {"Paused"} => pc[i] \in InProcessWork \cup {"Paused"}
    PROVE  RInv'
<1> USE DEF RInv
<1>1. FormInv'
  BY DEF FormInv
<1>2. Linked(workq)' /\ ReadyInv'
  BY DEF Linked, ReadyInv
<1>3. HeldInv'
  BY DEF HeldInv, Serves
<1> QED BY <1>1, <1>2, <1>3

\* An invoker runs no context after it has returned, trapped or exited.
Leaves(i) ==
    /\ ctx' = [ctx EXCEPT ![i] = Nil]
    /\ frame' = [frame EXCEPT ![i] = Nil]
    /\ \E n \in {"Find", "Exited"} : pc' = [pc EXCEPT ![i] = n]

\* Invoker I gives up context C, which no longer runs.
LEMMA LeaveInv ==
    ASSUME RInv, RestartNext, NEW i \in Invokers, NEW c \in Contexts,
           Leaves(i), Moves(c),
           \E s \in ContextState \ {"Running"} : state' = [state EXCEPT ![c] = s],
           \A d \in Contexts \ {c} : ~Serves(i, d)
    PROVE  RInv'
<1> USE DEF RInv
<1>1. FormInv'
  BY DEF FormInv, Leaves, InProcessWork, InvokerPc
<1>2. Linked(workq)' /\ ReadyInv'
  BY MovesInv
<1>3. HeldInv'
  <2>1. \A j \in Invokers \ {i} :
          frame'[j] = frame[j] /\ ctx'[j] = ctx[j] /\ pc'[j] = pc[j]
    BY DEF FormInv, Leaves
  <2>2. ASSUME NEW d \in Contexts, state'[d] = "Running"
        PROVE  state[d] = "Running" /\ ~Serves(i, d)
    BY <2>2 DEF FormInv
  <2> QED BY <2>1, <2>2, HeldStep
<1> QED BY <1>1, <1>2, <1>3

\* Invoker I, which has no context of its own, leaves.
LEMMA LeaveNothingInv ==
    ASSUME RInv, RestartNext, NEW i \in Invokers, Leaves(i),
           UNCHANGED <<state, workq>>,
           \A d \in Contexts : ~Serves(i, d)
    PROVE  RInv'
<1> USE DEF RInv
<1>1. FormInv'
  BY DEF FormInv, Leaves, InProcessWork, InvokerPc
<1>2. Linked(workq)' /\ ReadyInv'
  BY DEF Linked, ReadyInv
<1>3. HeldInv'
  <2>1. \A j \in Invokers \ {i} :
          frame'[j] = frame[j] /\ ctx'[j] = ctx[j] /\ pc'[j] = pc[j]
    BY DEF FormInv, Leaves
  <2> QED BY <2>1, HeldStep
<1> QED BY <1>1, <1>2, <1>3

-----------------------------------------------------------------------------
(* Steps of the invokers                                                    *)

\* Deleting a context moves it off the queues.
LEMMA DeleteMoves ==
    ASSUME RInv, NEW c \in Contexts, Delete(c)
    PROVE  /\ Moves(c)
           /\ state' = [state EXCEPT ![c] = "Free"]
BY DEF Delete, Moves, RInv, FormInv

\* Linking a context moves it to a queue.
LEMMA LinkMoves ==
    ASSUME RInv, NEW c \in Contexts, NEW p \in Priority, NEW henq \in BOOLEAN,
           Link(c, p, henq)
    PROVE  /\ Moves(c)
           /\ state' = [state EXCEPT ![c] = "Ready"]
BY DEF Link, Moves, RInv, FormInv

\* The start of work on a context preserves the invariant.
LEMMA StartWorkR ==
    ASSUME RInv, RestartNext, NEW i \in Invokers, StartWork(i)
    PROVE  RInv'
<1> USE DEF RInv
<1>1. PICK p \in Priority :
        /\ workq[p] # <<>>
        /\ LET c == Head(workq[p])
           IN  /\ workq' = Unlink(workq, c)
               /\ state' = [state EXCEPT ![c] = "Running"]
               /\ ctx' = [ctx EXCEPT ![i] = c]
               /\ frame' = [frame EXCEPT ![i] = c]
               /\ pc' = [pc EXCEPT ![i] = "Process"]
  BY DEF StartWork
<1>2. Head(workq[p]) \in Contexts
  BY <1>1, HeadProperties DEF Linked
<1>3. PICK c \in Contexts :
        /\ workq' = Unlink(workq, c)
        /\ state' = [state EXCEPT ![c] = "Running"]
        /\ ctx' = [ctx EXCEPT ![i] = c]
        /\ frame' = [frame EXCEPT ![i] = c]
        /\ pc' = [pc EXCEPT ![i] = "Process"]
  BY <1>1, <1>2
<1>4. FormInv'
  BY <1>2, <1>3 DEF FormInv, InvokerPc, ContextState, InProcessWork
<1>5. Linked(workq)' /\ ReadyInv'
  <2>1. Moves(c)
    BY <1>2, <1>3 DEF Moves, FormInv
  <2> QED BY <1>2, <2>1, MovesInv
<1>6. HeldInv'
  <2>1. \A j \in Invokers \ {i} :
          frame'[j] = frame[j] /\ ctx'[j] = ctx[j] /\ pc'[j] = pc[j]
    BY <1>3 DEF FormInv
  <2>2. Serves(i, c)'
    BY <1>2, <1>3 DEF FormInv, Serves, InProcessWork
  <2>3. \A d \in Contexts : ~Serves(i, d)
    BY DEF StartWork, Run, Serves, InProcessWork
  <2>4. \A d \in Contexts \ {c} : state'[d] = state[d]
    BY <1>3 DEF FormInv
  <2> QED BY <2>1, <2>2, <2>3, <2>4, HeldStep
<1> QED BY <1>4, <1>5, <1>6

\* An invoker that goes on with its context preserves the invariant.
LEMMA ContinueR ==
    ASSUME RInv, RestartNext, NEW i \in Invokers,
           pc[i] \in InProcessWork \cup {"Paused"}, Continue(i, "Process"),
           UNCHANGED workq,
           \/ UNCHANGED state
           \/ state' = [state EXCEPT ![frame[i]] = "Running"]
    PROVE  RInv'
<1> USE DEF RInv
<1>1. PICK c \in Contexts : frame[i] = c
  BY DEF FormInv
<1>2. /\ ctx' = [ctx EXCEPT ![i] = c]
      /\ frame' = frame
      /\ pc' = [pc EXCEPT ![i] = "Process"]
      /\ \/ state' = state
         \/ state' = [state EXCEPT ![c] = "Running"]
  BY <1>1 DEF Continue
<1>3. FormInv'
  BY <1>1, <1>2 DEF FormInv, InvokerPc, ContextState
<1>4. Linked(workq)' /\ ReadyInv'
  BY <1>1, <1>2 DEF Linked, ReadyInv, FormInv
<1>5. HeldInv'
  <2>1. \A j \in Invokers \ {i} :
          frame'[j] = frame[j] /\ ctx'[j] = ctx[j] /\ pc'[j] = pc[j]
    BY <1>2 DEF FormInv
  <2>2. Serves(i, c)'
    BY <1>1, <1>2 DEF FormInv, Serves, InProcessWork
  <2>3. \A d \in Contexts \ {c} : state'[d] = state[d] /\ ~Serves(i, d)
    BY <1>1, <1>2 DEF FormInv, Serves
  <2> QED BY <2>1, <2>2, <2>3, HeldStep
<1> QED BY <1>3, <1>4, <1>5

\* An invoker that returns leaves.
LEMMA ReturnLeaves ==
    ASSUME NEW i \in Invokers, Return(i)
    PROVE  Leaves(i)
BY DEF Return, Leaves, Block

\* The end of a transaction that deletes the context preserves the invariant.
LEMMA DeleteAndReturnR ==
    ASSUME RInv, RestartNext, NEW i \in Invokers, pc[i] \in InProcessWork,
           Delete(frame[i]), Return(i)
    PROVE  RInv'
<1>1. frame[i] \in Contexts
  BY DEF RInv, FormInv
<1>2. Moves(frame[i]) /\ state' = [state EXCEPT ![frame[i]] = "Free"]
  BY <1>1, DeleteMoves
<1>3. \A d \in Contexts \ {frame[i]} : ~Serves(i, d)
  BY DEF Serves
<1> QED BY <1>1, <1>2, <1>3, ReturnLeaves, LeaveInv DEF ContextState

\* The end of a transaction after which the context is dormant preserves the invariant.
LEMMA DormantR ==
    ASSUME RInv, RestartNext, NEW i \in Invokers, pc[i] \in InProcessWork,
           state' = [state EXCEPT ![frame[i]] = "Dormant"], UNCHANGED workq, Return(i)
    PROVE  RInv'
<1>1. frame[i] \in Contexts
  BY DEF RInv, FormInv
<1>2. Moves(frame[i])
  BY <1>1 DEF Moves, RInv, FormInv
<1>3. \A d \in Contexts \ {frame[i]} : ~Serves(i, d)
  BY DEF Serves
<1> QED BY <1>1, <1>2, <1>3, ReturnLeaves, LeaveInv DEF ContextState

\* The end of an immediate message preserves the invariant.
LEMMA EndPriMsgR ==
    ASSUME RInv, RestartNext, NEW i \in Invokers, EndPriMsg(i)
    PROVE  RInv'
<1>1. pc[i] \in InProcessWork /\ frame[i] \in Contexts
  BY DEF EndPriMsg, Run, InProcessWork, RInv, FormInv
<1>2. CASE Link(frame[i], PROGRESS, FALSE) /\ Return(i)
  <2>1. PROGRESS \in Priority
    BY DEF Priority, PROGRESS, INGRESS, IMMEDIATE
  <2>2. Moves(frame[i]) /\ state' = [state EXCEPT ![frame[i]] = "Ready"]
    BY <1>1, <1>2, <2>1, LinkMoves
  <2>3. \A d \in Contexts \ {frame[i]} : ~Serves(i, d)
    BY DEF Serves
  <2> QED BY <1>1, <1>2, <2>2, <2>3, ReturnLeaves, LeaveInv DEF ContextState
<1>3. CASE /\ state' = [state EXCEPT ![frame[i]] = "Dormant"]
           /\ UNCHANGED workVars
           /\ Return(i)
  BY <1>1, <1>3, DormantR DEF workVars
<1>4. CASE UNCHANGED <<state, workVars>> /\ Continue(i, "Process")
  BY <1>1, <1>4, ContinueR DEF workVars
<1> QED BY <1>2, <1>3, <1>4 DEF EndPriMsg

\* The end of a standard message preserves the invariant.
LEMMA EndStdMsgR ==
    ASSUME RInv, RestartNext, NEW i \in Invokers, EndStdMsg(i)
    PROVE  RInv'
<1>0. frame[i] \in Contexts
  BY DEF EndStdMsg, Run, InProcessWork, RInv, FormInv
<1>1. PICK c \in Contexts : pc[i] \in InProcessWork /\ frame[i] = c
  BY <1>0 DEF EndStdMsg, Run, InProcessWork
<1>2. CASE /\ state' = [state EXCEPT ![c] = "Dormant"]
           /\ UNCHANGED workVars
           /\ Return(i)
  BY <1>1, <1>2, DormantR DEF workVars
<1>3. CASE /\ state' = [state EXCEPT ![c] = "Paused"]
           /\ UNCHANGED workVars
           /\ Block(i, "BlockedOnClock", "Paused")
           /\ UNCHANGED <<ctx, frame>>
  <2> USE DEF RInv, Block, workVars
  <2>1. FormInv'
    BY <1>1, <1>3 DEF FormInv, InvokerPc, ContextState, InProcessWork
  <2>2. Moves(c)
    BY <1>1, <1>3 DEF Moves, FormInv
  <2>3. \A d \in Contexts : state'[d] = "Running" => state[d] = "Running" /\ d # c
    BY <1>1, <1>3 DEF FormInv
  <2>4. \A d \in Contexts \ {c} : ~Serves(i, d)
    BY <1>1 DEF Serves
  <2>5. \A j \in Invokers \ {i} :
          frame'[j] = frame[j] /\ ctx'[j] = ctx[j] /\ pc'[j] = pc[j]
    BY <1>3 DEF FormInv
  <2> QED BY <1>1, <2>1, <2>2, <2>3, <2>4, <2>5, MovesInv, HeldStep
<1>4. CASE UNCHANGED <<state, workVars>> /\ Continue(i, "Process")
  BY <1>1, <1>4, ContinueR DEF workVars
<1> QED BY <1>1, <1>2, <1>3, <1>4 DEF EndStdMsg

\* The end of a pause preserves the invariant.
LEMMA ResumeContextR ==
    ASSUME RInv, RestartNext, NEW i \in Invokers, ResumeContext(i)
    PROVE  RInv'
<1>1. pc[i] = "Paused"
  BY DEF ResumeContext, Run
<1>2. CASE Return(i) /\ UNCHANGED <<ctxVars, workVars>>
  <2>1. \A d \in Contexts : ~Serves(i, d)
    BY <1>1 DEF Serves, InProcessWork
  <2> QED BY <1>2, <2>1, ReturnLeaves, LeaveNothingInv DEF ctxVars, workVars
<1>3. CASE /\ state' = [state EXCEPT ![frame[i]] = "Running"]
           /\ Continue(i, "Process")
           /\ UNCHANGED workVars
  BY <1>1, <1>3, ContinueR DEF workVars
<1> QED BY <1>2, <1>3 DEF ResumeContext

\* The loss of an invoker's context after a trap or an exit preserves the invariant.
LEMMA DropContextR ==
    ASSUME RInv, RestartNext, NEW i \in Invokers, DropContext(i), Leaves(i)
    PROVE  RInv'
<1>1. CASE ctx[i] = Nil
  <2>1. UNCHANGED <<state, workq>>
    BY <1>1 DEF DropContext, ctxVars, workVars
  <2>2. \A d \in Contexts : ~Serves(i, d)
    BY <1>1, ContextsAssumption DEF Serves
  <2> QED BY <2>1, <2>2, LeaveNothingInv
<1>2. CASE ctx[i] # Nil
  <2>1. ctx[i] \in Contexts
    BY <1>2 DEF RInv, FormInv
  <2>2. Moves(ctx[i]) /\ state' = [state EXCEPT ![ctx[i]] = "Free"]
    BY <1>2, <2>1, DeleteMoves DEF DropContext
  <2>3. \A d \in Contexts \ {ctx[i]} : ~Serves(i, d)
    BY DEF Serves
  <2> QED BY <2>1, <2>2, <2>3, LeaveInv DEF ContextState
<1> QED BY <1>1, <1>2

-----------------------------------------------------------------------------
(* Steps of the restart                                                     *)

\* An exit during a restart preserves the invariant.
LEMMA ExitInRestartR ==
    ASSUME RInv, RestartNext, NEW i \in Invokers, ExitInRestart(i)
    PROVE  RInv'
<1>1. Leaves(i)
  BY DEF ExitInRestart, Leaves
<1>2. RequeueContext(i)
  BY DEF ExitInRestart
<1>3. \A d \in Contexts \ {ctx[i]} : ~Serves(i, d)
  BY DEF Serves
<1>4. CASE ctx[i] = Nil
  <2>1. UNCHANGED <<state, workq>>
    BY <1>2, <1>4 DEF RequeueContext, workVars
  <2>2. \A d \in Contexts : ~Serves(i, d)
    BY <1>3, <1>4, ContextsAssumption
  <2> QED BY <1>1, <2>1, <2>2, LeaveNothingInv
<1>5. CASE ctx[i] # Nil
  <2>1. ctx[i] \in Contexts
    BY <1>5 DEF RInv, FormInv
  <2>2. CASE state[ctx[i]] \in {"Ready", "Paused"}
    <3>1. UNCHANGED <<state, workq>>
      BY <1>2, <2>2 DEF RequeueContext, workVars
    <3>2. Moves(ctx[i])
      BY <3>1 DEF Moves
    <3>3. state' = [state EXCEPT ![ctx[i]] = state[ctx[i]]]
      BY <2>1, <3>1 DEF RInv, FormInv
    <3> QED BY <1>1, <1>3, <2>1, <2>2, <3>2, <3>3, LeaveInv DEF ContextState
  <2>3. CASE state[ctx[i]] \notin {"Ready", "Paused"}
    <3> DEFINE h == (state[ctx[i]] = "Running")
    <3>1. Link(ctx[i], PROGRESS, h)
      BY <1>2, <1>5, <2>3 DEF RequeueContext
    <3>2. h \in BOOLEAN
      OBVIOUS
    <3> HIDE DEF h
    <3>3. PROGRESS \in Priority
      BY DEF Priority, PROGRESS, INGRESS, IMMEDIATE
    <3>4. Moves(ctx[i]) /\ state' = [state EXCEPT ![ctx[i]] = "Ready"]
      BY <2>1, <3>1, <3>2, <3>3, LinkMoves
    <3> QED BY <1>1, <1>3, <2>1, <3>4, LeaveInv DEF ContextState
  <2> QED BY <2>2, <2>3
<1> QED BY <1>4, <1>5

\* The end of a restart preserves the invariant: no invoker runs a context.
LEMMA EndRestartR ==
    ASSUME RInv, RestartNext, EndRestart
    PROVE  RInv'
<1> USE DEF RInv
<1>1. /\ UNCHANGED <<state, workq, ctx, frame>>
      /\ pc' = [i \in Invokers |-> "Find"]
      /\ \A i \in Invokers : pc[i] = "Exited"
  BY DEF EndRestart, workVars
<1>2. strayed => strayed'
  BY DEF RestartNext
<1> QED BY <1>1, <1>2, QuietStep DEF InvokerPc, InProcessWork

\* The arrival of a message at any time preserves the invariant: an invoker from
\* which its context is taken runs no other.
LEMMA ReceiveMsgR ==
    ASSUME RInv, RestartNext, NEW c \in Contexts, NEW m \in Msgs, NEW p \in Priority,
           NEW lev, ReceiveMsg(c, m, p, lev)
    PROVE  RInv'
<1> USE DEF RInv
<1>1. UNCHANGED <<frame, pc>> /\ Enqueue(c, p, lev)
  BY DEF ReceiveMsg
<1>2. Moves(c) /\ (\/ UNCHANGED state
                   \/ state' = [state EXCEPT ![c] = "Ready"])
  <2>1. CASE UNCHANGED <<state, workq>>
    BY <2>1 DEF Moves
  <2>2. CASE \E h \in BOOLEAN : Link(c, p, h)
    BY <2>2, LinkMoves
  <2>3. CASE /\ p = IMMEDIATE
             /\ workq' = Enqueued(workq, c, IMMEDIATE, FALSE)
             /\ UNCHANGED state
    BY <2>3 DEF Moves
  <2>4. EnqueueReady(c, p) => \/ UNCHANGED <<state, workq>>
                              \/ /\ p = IMMEDIATE
                                 /\ workq' = Enqueued(workq, c, IMMEDIATE, FALSE)
                                 /\ UNCHANGED state
    BY DEF EnqueueReady, Enqueued, workVars
  <2>5. EnqueueRunning(c, p, lev) \/ EnqueueDormant(c, p) \/ EnqueuePaused(c, p) =>
          UNCHANGED <<state, workq>> \/ \E h \in BOOLEAN : Link(c, p, h)
    BY DEF EnqueueRunning, EnqueueDormant, EnqueuePaused, workVars
  <2> QED BY <1>1, <2>1, <2>2, <2>3, <2>4, <2>5 DEF Enqueue
<1>3. Linked(workq)' /\ ReadyInv'
  BY <1>2, MovesInv
<1>4. \/ UNCHANGED ctx
      \/ /\ state[c] = "Paused" /\ Link(c, p, FALSE)
         /\ ctx' = [i \in Invokers |-> IF i = thread[c] THEN Nil ELSE ctx[i]]
  BY <1>1 DEF Enqueue, EnqueueRunning, EnqueueDormant, EnqueueReady, EnqueuePaused
<1>5. FormInv'
  BY <1>1, <1>2, <1>4 DEF FormInv, ContextState
<1>6. HeldInv'
  <2> SUFFICES ASSUME ~strayed', NEW d \in Contexts, state'[d] = "Running"
               PROVE  \E i \in Invokers : Serves(i, d)'
    BY DEF HeldInv
  <2>1. ~strayed /\ ~Strays
    BY DEF RestartNext
  <2>2. state[d] = "Running"
    BY <1>2 DEF FormInv
  <2>3. PICK i \in Invokers : Serves(i, d)
    BY <2>1, <2>2 DEF HeldInv
  <2>4. ctx'[i] = ctx[i]
    <3>1. CASE UNCHANGED ctx
      BY <3>1
    <3>2. CASE /\ state[c] = "Paused" /\ Link(c, p, FALSE)
               /\ ctx' = [j \in Invokers |-> IF j = thread[c] THEN Nil ELSE ctx[j]]
      <4>1. state'[c] = "Ready"
        BY <3>2, LinkMoves DEF FormInv
      <4>2. thread[c] # Nil => ctx[thread[c]] = c
        BY <2>1, <3>2, <4>1 DEF Strays
      <4>3. i # thread[c]
        BY <2>2, <2>3, <3>2, <4>2, InvokersAssumption DEF Serves
      <4> QED BY <3>2, <4>3
    <3> QED BY <1>4, <3>1, <3>2
  <2> QED BY <1>1, <2>3, <2>4 DEF Serves
<1> QED BY <1>3, <1>5, <1>6

-----------------------------------------------------------------------------
(* The theorems                                                             *)

\* The initial state satisfies the invariant.
LEMMA InitR == RestartInit => RInv
<1> SUFFICES ASSUME RestartInit PROVE RInv
  OBVIOUS
<1> USE DEF RestartInit, Init
<1>1. FormInv
  BY DEF FormInv, ContextState, InvokerPc, InProcessWork
<1>2. Linked(workq)
  BY EmptySeq DEF Linked, Distinct, In
<1>3. ReadyInv /\ HeldInv
  BY DEF ReadyInv, HeldInv
<1> QED BY <1>1, <1>2, <1>3 DEF RInv

\* The steps of the threads that move no context preserve the invariant.
LEMMA ThreadStepR ==
    ASSUME RInv, RestartNext,
           \/ ScheduleIO \/ SuspendIO \/ BeginRestart \/ NotifyThreads
           \/ \E i \in Invokers :
                \/ Wakeup(i) \/ ScheduleIn(i) \/ Recreate(i)
                \/ NoWork(i) \/ NextMsg(i) \/ StopTimer(i)
                \/ BlockInMsg(i, "BlockedOnClock") \/ BlockInMsg(i, "BlockedOnDatabase")
    PROVE  RInv'
<1> USE DEF ctxVars, workVars, invVars, vars
<1>1. strayed => strayed'
  BY DEF RestartNext
<1>2. pc \in [Invokers -> InvokerPc]
  BY DEF RInv, FormInv
<1>3. CASE ScheduleIO \/ SuspendIO \/ BeginRestart \/ NotifyThreads
  BY <1>1, <1>2, <1>3, QuietStep DEF ScheduleIO, SuspendIO, BeginRestart, NotifyThreads
<1>4. ASSUME NEW i \in Invokers, Wakeup(i) \/ ScheduleIn(i) \/ Recreate(i)
      PROVE  RInv'
  <2>1. UNCHANGED <<state, workq, ctx, frame>>
    BY <1>4 DEF Wakeup, ScheduleIn, Recreate
  <2>2. \/ pc' = pc
        \/ pc[i] \in {"Idle", "Exited"} /\ pc' = [pc EXCEPT ![i] = "Find"]
    BY <1>2, <1>4 DEF Wakeup, ScheduleIn, Recreate
  <2> QED BY <1>1, <1>2, <2>1, <2>2, QuietStep DEF InvokerPc, InProcessWork
<1>5. ASSUME NEW i \in Invokers, NoWork(i) \/ NextMsg(i) \/ StopTimer(i)
      PROVE  RInv'
  <2>1. UNCHANGED <<state, workq, ctx, frame>>
    BY <1>5 DEF NoWork, NextMsg, StopTimer
  <2>2. \/ pc' = pc
        \/ pc[i] = "Find" /\ pc' = [pc EXCEPT ![i] = "Idle"]
        \/ pc[i] = "Process" /\ \E n \in {"PriMsg", "StdMsg"} : pc' = [pc EXCEPT ![i] = n]
    BY <1>2, <1>5 DEF NoWork, NextMsg, StopTimer, Run, Block
  <2> QED BY <1>1, <1>2, <2>1, <2>2, QuietStep DEF InvokerPc, InProcessWork
<1>6. ASSUME NEW i \in Invokers, NEW why, BlockInMsg(i, why)
      PROVE  RInv'
  <2>1. UNCHANGED <<state, workq, ctx, frame>> /\ pc' = pc
    BY <1>2, <1>6 DEF BlockInMsg, Block
  <2> QED BY <1>1, <1>2, <2>1, QuietStep
<1> QED BY <1>3, <1>4, <1>5, <1>6

\* Every step preserves the invariant.
LEMMA NextR ==
    RInv /\ [RestartNext]_<<vars, restartVars, strayed>> => RInv'
<1> SUFFICES ASSUME RInv, [RestartNext]_<<vars, restartVars, strayed>>
             PROVE  RInv'
  OBVIOUS
<1>1. CASE UNCHANGED <<vars, restartVars, strayed>>
  <2>1. UNCHANGED <<state, workq, ctx, frame, pc, strayed>>
    BY <1>1 DEF vars, ctxVars, workVars, invVars
  <2> QED BY <2>1, QuietStep DEF RInv, FormInv
<1>2. CASE RestartNext
  <2>1. CASE Arrival(level)
    <3>1. PICK c \in Contexts, m \in Msgs, p \in MsgPriorities :
            ReceiveMsg(c, m, p, level)
      BY <2>1 DEF Arrival, ReceiveBuff, SendMsg
    <3>2. p \in Priority
      BY PriorityAssumption
    <3> QED BY <1>2, <3>1, <3>2, ReceiveMsgR
  <2>2. ASSUME NEW i \in Invokers, RunInvoker(i) PROVE RInv'
    BY <1>2, <2>2, StartWorkR, ResumeContextR, ThreadStepR DEF RunInvoker
  <2>3. ASSUME NEW i \in Invokers, EndMsg(i) PROVE RInv'
    <3>1. EndContext(i) =>
            pc[i] \in InProcessWork /\ Delete(frame[i]) /\ Return(i)
      BY DEF EndContext, Run, InProcessIcMsg, InProcessWork
    <3> QED BY <1>2, <2>3, <3>1, DeleteAndReturnR, EndPriMsgR, EndStdMsgR DEF EndMsg
  <2>4. ASSUME NEW i \in Invokers, Recover(i) \/ Exit(i) PROVE RInv'
    <3>1. DropContext(i) /\ Leaves(i)
      BY <2>4 DEF Recover, Exit, Leaves, Block
    <3> QED BY <1>2, <3>1, DropContextR
  <2>5. ASSUME NEW i \in Invokers, EmptyContext(i) PROVE RInv'
    <3>1. pc[i] \in InProcessWork /\ Return(i)
      BY <2>5 DEF EmptyContext, Run, InProcessWork
    <3>2. \/ Delete(frame[i])
          \/ state' = [state EXCEPT ![frame[i]] = "Dormant"] /\ UNCHANGED workq
      BY <2>5 DEF EmptyContext, workVars
    <3> QED BY <1>2, <3>1, <3>2, DeleteAndReturnR, DormantR
  <2>6. CASE \/ ScheduleIO \/ SuspendIO \/ BeginRestart \/ NotifyThreads
             \/ \E i \in Invokers :
                  \/ Wakeup(i) \/ ScheduleIn(i) \/ Recreate(i) \/ StopTimer(i)
                  \/ BlockInMsg(i, "BlockedOnClock")
                  \/ BlockInMsg(i, "BlockedOnDatabase")
    BY <1>2, <2>6, ThreadStepR
  <2>7. CASE EndRestart \/ \E i \in Invokers : ExitInRestart(i)
    BY <1>2, <2>7, EndRestartR, ExitInRestartR
  <2> QED BY <1>2, <2>1, <2>2, <2>3, <2>4, <2>5, <2>6, <2>7
      DEF RestartNext, WhileRunning, UntilDrained
<1> QED BY <1>1, <1>2

\* The invariant holds in every reachable state, whatever restarts occur.
THEOREM RestartInvariant == RestartSpec => []RInv
BY InitR, NextR, PTL DEF RestartSpec

\* Restarts that requeue contexts never link one twice, so that the pointers of
\* the work queues stay intact (Q2Way::Enq, Henq).
THEOREM NeverLinkedTwice == RestartSpec => []LinkedOnce
<1>1. RInv => LinkedOnce
  BY DEF RInv, Linked, LinkedOnce, Distinct, In
<1> QED BY <1>1, RestartInvariant, PTL

\* A ready context is on a work queue, so that an invoker will find it when the
\* restart is over.
THEOREM ReadyFound == RestartSpec => []ReadyIsQueued
<1>1. RInv => ReadyIsQueued
  <2> SUFFICES ASSUME RInv, NEW c \in Contexts, state[c] = "Ready"
               PROVE  \E p \in Priority : c \in ToSet(workq[p])
    BY DEF ReadyIsQueued
  <2>1. PICK p \in Priority : \E k \in 1 .. Len(workq[p]) : workq[p][k] = c
    BY DEF RInv, ReadyInv, OnQueue, In
  <2>2. DOMAIN workq[p] = 1 .. Len(workq[p])
    BY LenProperties DEF RInv, Linked
  <2>3. c \in ToSet(workq[p])
    BY <2>1, <2>2 DEF ToSet
  <2> QED BY <2>3
<1> QED BY <1>1, RestartInvariant, PTL

\* An exit or a trap, in a restart or not, leaves no context in the running state
\* without the invoker that runs it, unless Context::Enqueue had cleared the
\* context of the wrong invoker.
THEOREM NoneForgotten == RestartSpec => []NoneLeftRunning
<1>1. RInv => NoneLeftRunning
  BY DEF RInv, HeldInv, NoneLeftRunning, Serves, InProcessWork
<1> QED BY <1>1, RestartInvariant, PTL
=============================================================================
