------------------------ MODULE InvokerPool_proofs ------------------------
(* Proofs about module InvokerPool, for any number of invokers, contexts and *)
(* messages: its types, its work queues, the ownership of its contexts, and  *)
(* that it implements ContextService.                                        *)
EXTENDS InvokerPool, SequenceTheorems, TLAPS

-----------------------------------------------------------------------------
(* Sequences                                                                *)

Distinct(s) == \A j, k \in 1 .. Len(s) : s[j] = s[k] => j = k
In(s, e) == \E k \in 1 .. Len(s) : s[k] = e

\* Removal of the item at position K: the items behind it move up.
LEMMA RemoveAtProperties ==
    ASSUME NEW S, NEW s \in Seq(S), NEW k \in 1 .. Len(s)
    PROVE  /\ RemoveAt(s, k) \in Seq(S)
           /\ Len(RemoveAt(s, k)) = Len(s) - 1
           /\ \A j \in 1 .. Len(s) - 1 :
                RemoveAt(s, k)[j] = IF j < k THEN s[j] ELSE s[j + 1]
<1> DEFINE a == SubSeq(s, 1, k - 1)
           b == SubSeq(s, k + 1, Len(s))
<1>1. Len(s) \in Nat /\ s \in [1 .. Len(s) -> S]
  BY LenProperties
<1>2. /\ a \in Seq(S)
      /\ Len(a) = k - 1
      /\ \A i \in 1 .. k - 1 : a[i] = s[i]
  <2>1. \A i \in 1 .. k - 1 : s[i] \in S
    BY <1>1
  <2> QED BY <1>1, <2>1, SubSeqProperties
<1>3. /\ b \in Seq(S)
      /\ Len(b) = Len(s) - k
      /\ \A i \in 1 .. Len(s) - k : b[i] = s[k + i]
  <2>1. \A i \in k + 1 .. Len(s) : s[i] \in S
    BY <1>1
  <2>2. k + 1 \in Int /\ Len(s) \in Int
    BY <1>1
  <2>3. /\ b \in Seq(S)
        /\ Len(b) = IF k + 1 <= Len(s) THEN Len(s) - (k + 1) + 1 ELSE 0
        /\ \A i \in 1 .. Len(s) - (k + 1) + 1 : b[i] = s[k + 1 + i - 1]
    BY <2>1, <2>2, SubSeqProperties
  <2> HIDE DEF b
  <2>4. ASSUME NEW i \in 1 .. Len(s) - k PROVE b[i] = s[k + i]
    <3>1. i \in 1 .. Len(s) - (k + 1) + 1 /\ k + 1 + i - 1 = k + i
      BY <1>1
    <3>2. b[i] = s[k + 1 + i - 1]
      BY <2>3, <3>1
    <3> QED BY <3>1, <3>2
  <2>5. Len(b) = Len(s) - k
    <3>1. CASE k + 1 <= Len(s)
      BY <1>1, <2>3, <3>1
    <3>2. CASE k = Len(s)
      BY <1>1, <2>3, <3>2
    <3>3. k \in Int /\ Len(s) \in Int /\ k <= Len(s)
      BY <1>1
    <3>4. k + 1 <= Len(s) \/ k = Len(s)
      BY <3>3
    <3> QED BY <3>1, <3>2, <3>4
  <2> QED BY <2>3, <2>4, <2>5
<1>4. RemoveAt(s, k) = a \o b
  BY DEF RemoveAt
<1> HIDE DEF a, b
<1>5. /\ a \o b \in Seq(S)
      /\ Len(a \o b) = Len(a) + Len(b)
      /\ \A i \in 1 .. Len(a) + Len(b) :
            (a \o b)[i] = IF i <= Len(a) THEN a[i] ELSE b[i - Len(a)]
  BY <1>2, <1>3, ConcatProperties
<1> QED BY <1>1, <1>2, <1>3, <1>4, <1>5

\* RemoveFirst removes E, and nothing else, from items that are distinct.
LEMMA RemoveFirstProperties ==
    ASSUME NEW S, NEW s \in Seq(S), NEW e, Distinct(s)
    PROVE  LET t == RemoveFirst(s, e)
           IN  /\ t \in Seq(S)
               /\ Distinct(t)
               /\ \A x : In(t, x) <=> In(s, x) /\ x # e
               /\ ~In(s, e) => t = s
               /\ In(s, e) => Len(t) = Len(s) - 1
<1>1. Len(s) \in Nat
  BY LenProperties
<1>2. CASE ~In(s, e)
  <2>1. RemoveFirst(s, e) = s
    BY <1>2 DEF RemoveFirst, In
  <2> QED BY <1>2, <2>1 DEF In
<1>3. CASE In(s, e)
  <2>1. PICK k \in 1 .. Len(s) : s[k] = e
    BY <1>3 DEF In
  <2>2. {i \in 1 .. Len(s) : s[i] = e} = {k}
    BY <2>1 DEF Distinct
  <2>3. Min({k}) = k
    BY DEF Min
  <2>4. RemoveFirst(s, e) = RemoveAt(s, k)
    BY <2>1, <2>2, <2>3 DEF RemoveFirst, SelectInSeq
  <2> DEFINE t == RemoveAt(s, k)
  <2>5. /\ t \in Seq(S)
        /\ Len(t) = Len(s) - 1
        /\ \A j \in 1 .. Len(s) - 1 : t[j] = IF j < k THEN s[j] ELSE s[j + 1]
    BY RemoveAtProperties
  <2> HIDE DEF t
  <2>6. Distinct(t)
    BY <1>1, <2>5 DEF Distinct
  <2>7. ASSUME NEW x PROVE In(t, x) <=> In(s, x) /\ x # e
    <3>1. ASSUME In(t, x) PROVE In(s, x) /\ x # e
      <4>1. PICK j \in 1 .. Len(s) - 1 : t[j] = x
        BY <2>5, <3>1 DEF In
      <4>2. x = IF j < k THEN s[j] ELSE s[j + 1]
        BY <2>5, <4>1
      <4> QED BY <1>1, <2>1, <4>1, <4>2 DEF In, Distinct
    <3>2. ASSUME In(s, x), x # e PROVE In(t, x)
      <4>1. PICK j \in 1 .. Len(s) : s[j] = x
        BY <3>2 DEF In
      <4>2. CASE j < k
        BY <1>1, <2>5, <4>1, <4>2 DEF In
      <4>3. CASE j > k
        <5>1. j - 1 \in 1 .. Len(s) - 1 /\ ~(j - 1 < k) /\ (j - 1) + 1 = j
          BY <1>1, <4>1, <4>3
        <5> QED BY <2>5, <4>1, <5>1 DEF In
      <4> QED BY <2>1, <3>2, <4>1, <4>2, <4>3
    <3> QED BY <3>1, <3>2
  <2> QED BY <1>3, <2>4, <2>5, <2>6, <2>7 DEF t
<1> QED BY <1>2, <1>3

\* The first item is on the queue.
LEMMA HeadProperties ==
    ASSUME NEW S, NEW s \in Seq(S), s # <<>>
    PROVE  Head(s) \in S /\ In(s, Head(s))
BY EmptySeq, HeadTailProperties DEF In

\* Append adds E, and keeps items distinct if E is not among them.
LEMMA AppendDistinct ==
    ASSUME NEW S, NEW s \in Seq(S), NEW e \in S, Distinct(s), ~In(s, e)
    PROVE  /\ Append(s, e) \in Seq(S)
           /\ Distinct(Append(s, e))
           /\ \A x : In(Append(s, e), x) <=> In(s, x) \/ x = e
           /\ Len(Append(s, e)) = Len(s) + 1
BY AppendProperties, LenProperties DEF In, Distinct

-----------------------------------------------------------------------------
(* The inductive invariant                                                  *)

\* An invoker that runs, waits, is idle or has exited is in no other condition.
ThreadInv ==
    \A i \in Invokers :
        /\ active = i => ~waiting[i] /\ blocked[i] = "NotBlocked"
        /\ active = i \/ waiting[i] => pc[i] \notin {"Idle", "Exited"}
        /\ waiting[i] => blocked[i] = "NotBlocked"
        /\ pc[i] = "Idle" => blocked[i] = "BlockedOnClock"
        /\ pc[i] = "Exited" => blocked[i] = "NotBlocked"

\* OneInvoker, and what an invoker that processes no message owns.
OwnerInv ==
    /\ OneInvoker
    /\ \A i \in Invokers :
        /\ pc[i] \in {"Idle", "Find", "Exited"} => ctx[i] = Nil
        /\ pc[i] = "Paused" =>
             /\ frame[i] # Nil
             /\ ctx[i] # Nil => state[ctx[i]] = "Paused"

\* QueueConsistent, with the occurrence of an item on a sequence given a name.
QueueInv ==
    /\ \A p \in Priority :
        /\ Distinct(workq[p])
        /\ length[p] = Len(workq[p])
        /\ \A c \in Contexts :
             In(workq[p], c) <=> state[c] = "Ready" /\ prio[c] = p
    /\ \A c \in Contexts :
        whichq[c] = IF state[c] = "Ready" THEN prio[c] ELSE Nil

\* NoStrandedMsg and ImmediateFirst, the queue that has the message being
\* processed, and the reason why a context has immediate priority.
MsgInv ==
    /\ NoStrandedMsg
    /\ ImmediateFirst
    /\ \A i \in Invokers :
        /\ pc[i] = "PriMsg" => priMsgq[ctx[i]] # <<>>
        /\ pc[i] = "StdMsg" => stdMsgq[ctx[i]] # <<>>
    /\ \A c \in Contexts :
        state[c] \in {"Ready", "Paused", "Running"} /\ prio[c] = IMMEDIATE =>
            priMsgq[c] # <<>>

IInv ==
    /\ TypeOK
    /\ ThreadInv
    /\ OwnerInv
    /\ QueueInv
    /\ MsgInv
    /\ WorkIsNoticed
    /\ NoLockout

-----------------------------------------------------------------------------
(* Steps of the threads                                                     *)

\* The initial state satisfies the invariant.
LEMMA InitInv == Init => IInv
<1> SUFFICES ASSUME Init PROVE IInv
  OBVIOUS
<1> USE InvokersAssumption, ContextsAssumption, DeathsAssumption, EmptySeq
<1>1. TypeOK
  BY DEF Init, TypeOK, ContextState, InvokerPc, BlockingReason, Priority, INGRESS, IMMEDIATE
<1>2. ThreadInv
  BY DEF Init, ThreadInv
<1>3. OwnerInv
  BY DEF Init, OwnerInv, OneInvoker
<1>4. QueueInv
  BY DEF Init, QueueInv, Distinct, In
<1>5. MsgInv
  BY DEF Init, MsgInv, NoStrandedMsg, ImmediateFirst
<1>6. WorkIsNoticed /\ NoLockout
  BY DEF Init, WorkIsNoticed, NoLockout
<1> QED BY <1>1, <1>2, <1>3, <1>4, <1>5, <1>6 DEF IInv

\* The end of an invoker's delay or operation preserves the invariant.
LEMMA WakeupInv ==
    ASSUME IInv, NEW i \in Invokers, Wakeup(i)
    PROVE  IInv'
<1> USE DEF IInv
<1>1. TypeOK'
  BY DEF Wakeup, Delays, TypeOK, InvokerPc, BlockingReason, ctxVars, workVars
<1>2. ThreadInv'
  BY DEF Wakeup, ThreadInv, TypeOK, ctxVars, workVars
<1>3. OwnerInv'
  BY DEF Wakeup, OwnerInv, OneInvoker, TypeOK, ctxVars, workVars
<1>4. QueueInv'
  BY DEF Wakeup, QueueInv, ctxVars, workVars
<1>5. MsgInv'
  BY DEF Wakeup, MsgInv, NoStrandedMsg, ImmediateFirst, TypeOK, ctxVars, workVars
<1>6. WorkIsNoticed'
  BY DEF Wakeup, WorkIsNoticed, TypeOK, ctxVars, workVars
<1>7. NoLockout'
  BY DEF Wakeup, NoLockout, TypeOK, ctxVars, workVars
<1> QED BY <1>1, <1>2, <1>3, <1>4, <1>5, <1>6, <1>7

\* Scheduling an invoker in preserves the invariant.
LEMMA ScheduleInInv ==
    ASSUME IInv, NEW i \in Invokers, ScheduleIn(i)
    PROVE  IInv'
<1> USE DEF IInv
<1>1. TypeOK'
  BY DEF ScheduleIn, TypeOK, ctxVars, workVars
<1>2. ThreadInv'
  BY InvokersAssumption DEF ScheduleIn, ThreadInv, TypeOK, ctxVars, workVars
<1>3. OwnerInv'
  BY DEF ScheduleIn, OwnerInv, OneInvoker, TypeOK, ctxVars, workVars
<1>4. QueueInv'
  BY DEF ScheduleIn, QueueInv, ctxVars, workVars
<1>5. MsgInv'
  BY DEF ScheduleIn, MsgInv, NoStrandedMsg, ImmediateFirst, ctxVars, workVars
<1>6. WorkIsNoticed' /\ NoLockout'
  BY DEF ScheduleIn, WorkIsNoticed, NoLockout, ctxVars, workVars
<1> QED BY <1>1, <1>2, <1>3, <1>4, <1>5, <1>6

\* The steps of the receiving thread other than the receipt of a message preserve the invariant.
LEMMA InputInv ==
    ASSUME IInv, ScheduleIO \/ SuspendIO
    PROVE  IInv'
<1> USE DEF IInv, ScheduleIO, SuspendIO, ctxVars, workVars, invVars
<1>1. TypeOK'
  BY DEF TypeOK
<1>2. ThreadInv'
  BY InvokersAssumption DEF ThreadInv
<1>3. OwnerInv'
  BY DEF OwnerInv, OneInvoker
<1>4. QueueInv'
  BY DEF QueueInv
<1>5. MsgInv'
  BY DEF MsgInv, NoStrandedMsg, ImmediateFirst
<1>6. WorkIsNoticed' /\ NoLockout'
  BY DEF WorkIsNoticed, NoLockout
<1> QED BY <1>1, <1>2, <1>3, <1>4, <1>5, <1>6

\* A database operation, if it is allowed, preserves the invariant.
LEMMA BlockInMsgInv ==
    ASSUME IInv, NEW i \in Invokers, NEW why \in {"BlockedOnClock", "BlockedOnDatabase"},
           BlockInMsg(i, why)
    PROVE  IInv'
<1> USE DEF IInv, BlockInMsg, Run, Block, InProcessIcMsg, ctxVars, workVars
<1>1. TypeOK'
  BY DEF TypeOK, BlockingReason
<1>2. ThreadInv'
  BY InvokersAssumption DEF ThreadInv, TypeOK
<1>3. OwnerInv'
  BY DEF OwnerInv, OneInvoker, TypeOK
<1>4. QueueInv'
  BY DEF QueueInv
<1>5. MsgInv'
  BY DEF MsgInv, NoStrandedMsg, ImmediateFirst, TypeOK
<1>6. WorkIsNoticed'
  BY DEF WorkIsNoticed, TypeOK
<1>7. NoLockout'
  <2>1. CASE why = "BlockedOnClock"
    BY <2>1 DEF NoLockout, TypeOK
  <2>2. CASE why = "BlockedOnDatabase"
    <3>1. PICK j \in Ready : j # i
      BY <2>2
    <3>2. j \in Invokers /\ blocked'[j] = blocked[j] /\ blocked[j] # "BlockedOnDatabase"
      BY <3>1 DEF Ready, TypeOK
    <3> QED BY <3>2 DEF NoLockout
  <2> QED BY <2>1, <2>2
<1> QED BY <1>1, <1>2, <1>3, <1>4, <1>5, <1>6, <1>7

\* The recreation of an invoker preserves the invariant.
LEMMA RecreateInv ==
    ASSUME IInv, NEW i \in Invokers, Recreate(i)
    PROVE  IInv'
<1> USE DEF IInv, Recreate, ctxVars, workVars
<1>1. TypeOK'
  BY DEF TypeOK, InvokerPc
<1>2. ThreadInv'
  BY DEF ThreadInv, TypeOK
<1>3. OwnerInv'
  BY DEF OwnerInv, OneInvoker, TypeOK
<1>4. QueueInv'
  BY DEF QueueInv
<1>5. MsgInv'
  BY DEF MsgInv, NoStrandedMsg, ImmediateFirst, TypeOK
<1>6. WorkIsNoticed' /\ NoLockout'
  BY DEF WorkIsNoticed, NoLockout, TypeOK
<1> QED BY <1>1, <1>2, <1>3, <1>4, <1>5, <1>6

-----------------------------------------------------------------------------
(* Work queues and contexts                                                 *)

\* Unlinking C takes it off the queue of its priority, if it is ready.
LEMMA UnlinkProperties ==
    ASSUME TypeOK, QueueInv, NEW c \in Contexts
    PROVE  LET w == Unlink(workq, c)
           IN  /\ w \in [Priority -> Seq(Contexts)]
               /\ \A p \in Priority :
                    /\ Distinct(w[p])
                    /\ \A x : In(w[p], x) <=> In(workq[p], x) /\ x # c
                    /\ Len(w[p]) = IF state[c] = "Ready" /\ prio[c] = p
                                   THEN length[p] - 1 ELSE length[p]
               /\ state[c] # "Ready" => w = workq
<1> DEFINE w == Unlink(workq, c)
<1>1. w = [p \in Priority |-> RemoveFirst(workq[p], c)]
  BY DEF Unlink
<1> HIDE DEF w
<1>2. ASSUME NEW p \in Priority
      PROVE  /\ w[p] \in Seq(Contexts)
             /\ Distinct(w[p])
             /\ \A x : In(w[p], x) <=> In(workq[p], x) /\ x # c
             /\ Len(w[p]) = IF state[c] = "Ready" /\ prio[c] = p
                            THEN length[p] - 1 ELSE length[p]
             /\ state[c] # "Ready" => w[p] = workq[p]
  <2>1. workq[p] \in Seq(Contexts) /\ Distinct(workq[p])
    BY DEF TypeOK, QueueInv
  <2>2. w[p] = RemoveFirst(workq[p], c)
    BY <1>1
  <2>3. In(workq[p], c) <=> state[c] = "Ready" /\ prio[c] = p
    BY DEF QueueInv
  <2>4. length[p] = Len(workq[p])
    BY DEF QueueInv
  <2> QED BY <2>1, <2>2, <2>3, <2>4, RemoveFirstProperties
<1>3. w \in [Priority -> Seq(Contexts)]
  BY <1>1, <1>2
<1>4. ASSUME state[c] # "Ready" PROVE w = workq
  BY <1>2, <1>3, <1>4 DEF TypeOK
<1> QED BY <1>2, <1>3, <1>4 DEF w

\* The context of an invoker that processes a message is its own.
LEMMA Serving ==
    ASSUME TypeOK, OwnerInv, NEW i \in Invokers,
           pc[i] \in {"Process", "PriMsg", "StdMsg"}
    PROVE  /\ frame[i] \in Contexts
           /\ ctx[i] = frame[i]
           /\ state[frame[i]] = "Running"
           /\ thread[frame[i]] = i
           /\ \A j \in Invokers : ctx[j] = frame[i] => j = i
BY DEF TypeOK, OwnerInv, OneInvoker

\* Taking the next message of a context preserves the invariant.
LEMMA NextMsgInv ==
    ASSUME IInv, NEW i \in Invokers, NextMsg(i)
    PROVE  IInv'
<1> USE DEF IInv, NextMsg, Run, ctxVars, workVars
<1>1. TypeOK'
  BY DEF TypeOK, InvokerPc
<1>2. ThreadInv'
  BY DEF ThreadInv, TypeOK
<1>3. OwnerInv'
  BY DEF OwnerInv, OneInvoker, TypeOK
<1>4. QueueInv'
  BY DEF QueueInv
<1>5. MsgInv'
  BY Serving DEF MsgInv, NoStrandedMsg, ImmediateFirst, TypeOK
<1>6. WorkIsNoticed' /\ NoLockout'
  BY DEF WorkIsNoticed, NoLockout, TypeOK
<1> QED BY <1>1, <1>2, <1>3, <1>4, <1>5, <1>6

\* The withdrawal of a timeout message preserves the invariant.
LEMMA StopTimerInv ==
    ASSUME IInv, NEW i \in Invokers, StopTimer(i)
    PROVE  IInv'
<1> USE DEF IInv
<1> DEFINE c == frame[i]
<1>1. /\ pc[i] \in {"PriMsg", "StdMsg"}
      /\ c \in Contexts /\ ctx[i] = c /\ state[c] = "Running"
      /\ \A j \in Invokers : ctx[j] = c => j = i
  BY Serving DEF StopTimer, Run, InProcessIcMsg
<1>2. PICK k \in 1 .. Len(stdMsgq[c]) :
        /\ pc[i] = "StdMsg" => k > 1
        /\ stdMsgq' = [stdMsgq EXCEPT ![c] = RemoveAt(@, k)]
  BY DEF StopTimer
<1>3. stdMsgq[c] \in Seq(Msgs) /\ Len(stdMsgq[c]) \in Nat
  BY <1>1, LenProperties DEF TypeOK
<1>4. /\ RemoveAt(stdMsgq[c], k) \in Seq(Msgs)
      /\ pc[i] = "StdMsg" => RemoveAt(stdMsgq[c], k) # <<>>
  BY <1>2, <1>3, RemoveAtProperties, EmptySeq
<1> HIDE DEF c
<1> USE DEF StopTimer, workVars, invVars
<1>5. TypeOK'
  BY <1>1, <1>2, <1>4 DEF TypeOK
<1>6. ThreadInv'
  BY DEF ThreadInv
<1>7. OwnerInv'
  BY DEF OwnerInv, OneInvoker
<1>8. QueueInv'
  BY DEF QueueInv
<1>9. MsgInv'
  BY <1>1, <1>2, <1>4 DEF MsgInv, NoStrandedMsg, ImmediateFirst, TypeOK, OwnerInv, OneInvoker
<1>10. WorkIsNoticed' /\ NoLockout'
  BY DEF WorkIsNoticed, NoLockout
<1> QED BY <1>5, <1>6, <1>7, <1>8, <1>9, <1>10

\* An invoker that finds no work preserves the invariant.
LEMMA NoWorkInv ==
    ASSUME IInv, NEW i \in Invokers, NoWork(i)
    PROVE  IInv'
<1> USE DEF IInv, NoWork, Run, Block
<1>1. TypeOK'
  BY DEF TypeOK, InvokerPc, BlockingReason, ctxVars
<1>2. ThreadInv'
  BY InvokersAssumption DEF ThreadInv, TypeOK
<1>3. OwnerInv'
  BY DEF OwnerInv, OneInvoker, TypeOK, ctxVars
<1>4. QueueInv'
  <2>1. \A p \in Priority : Len(workq[p]) = 0
    BY EmptySeq
  <2> QED BY <2>1 DEF QueueInv, ctxVars
<1>5. MsgInv'
  BY DEF MsgInv, NoStrandedMsg, ImmediateFirst, TypeOK, ctxVars
<1>6. WorkIsNoticed' /\ NoLockout'
  BY DEF WorkIsNoticed, NoLockout, TypeOK
<1> QED BY <1>1, <1>2, <1>3, <1>4, <1>5, <1>6

\* Taking a context from a work queue preserves the invariant.
LEMMA StartWorkInv ==
    ASSUME IInv, NEW i \in Invokers, StartWork(i)
    PROVE  IInv'
<1> USE DEF IInv
<1>1. PICK p \in Priority :
        /\ workq[p] # <<>>
        /\ \A q \in Priority : q > p => workq[q] = <<>>
        /\ LET c == Head(workq[p])
               w == Unlink(workq, c)
               zeroed == [q \in Priority |-> IF q > p THEN 0 ELSE length[q]]
           IN  /\ workq' = w
               /\ length' = Dequeued(zeroed, w, prio[c])
               /\ whichq' = [whichq EXCEPT ![c] = Nil]
               /\ state' = [state EXCEPT ![c] = "Running"]
               /\ thread' = [thread EXCEPT ![c] = i]
               /\ ctx' = [ctx EXCEPT ![i] = c]
               /\ frame' = [frame EXCEPT ![i] = c]
               /\ pc' = [pc EXCEPT ![i] = "Process"]
  BY DEF StartWork
<1> DEFINE c == Head(workq[p])
           w == Unlink(workq, c)
           zeroed == [q \in Priority |-> IF q > p THEN 0 ELSE length[q]]
<1>2. /\ active = i /\ pc[i] = "Find"
      /\ UNCHANGED <<prio, priMsgq, stdMsgq, blocked, waiting, event, active,
                     unsent, deaths>>
  BY DEF StartWork, Run
<1>3. c \in Contexts /\ state[c] = "Ready" /\ prio[c] = p
  <2>1. workq[p] \in Seq(Contexts)
    BY DEF TypeOK
  <2>2. c \in Contexts /\ In(workq[p], c)
    BY <1>1, <2>1, HeadProperties
  <2> QED BY <2>2 DEF QueueInv
<1>4. /\ w \in [Priority -> Seq(Contexts)]
      /\ \A q \in Priority :
            /\ Distinct(w[q])
            /\ \A x : In(w[q], x) <=> In(workq[q], x) /\ x # c
            /\ Len(w[q]) = IF q = p THEN length[q] - 1 ELSE length[q]
  <2>1. /\ w \in [Priority -> Seq(Contexts)]
        /\ \A q \in Priority :
              /\ Distinct(w[q])
              /\ \A x : In(w[q], x) <=> In(workq[q], x) /\ x # c
              /\ Len(w[q]) = IF state[c] = "Ready" /\ prio[c] = q
                             THEN length[q] - 1 ELSE length[q]
    BY <1>3, UnlinkProperties
  <2> HIDE DEF c, w
  <2> QED BY <1>3, <2>1
<1>5. zeroed = length
  <2>1. \A q \in Priority : q > p => length[q] = 0
    BY <1>1, EmptySeq DEF QueueInv
  <2> QED BY <2>1 DEF TypeOK
<1>6. length[p] \in Nat /\ length[p] > 0
  <2>1. Len(workq[p]) \in Nat \ {0}
    BY <1>1, EmptySeq DEF TypeOK
  <2> QED BY <2>1 DEF QueueInv
<1>7. length' = [length EXCEPT ![p] = @ - 1]
  BY <1>1, <1>3, <1>5, <1>6 DEF Dequeued, TypeOK
<1>8. /\ workq' = w
      /\ whichq' = [whichq EXCEPT ![c] = Nil]
      /\ state' = [state EXCEPT ![c] = "Running"]
      /\ thread' = [thread EXCEPT ![c] = i]
      /\ ctx' = [ctx EXCEPT ![i] = c]
      /\ frame' = [frame EXCEPT ![i] = c]
      /\ pc' = [pc EXCEPT ![i] = "Process"]
  BY <1>1
<1> HIDE DEF c, w, zeroed
<1>9. TypeOK'
  BY <1>2, <1>3, <1>4, <1>6, <1>7, <1>8 DEF TypeOK, ContextState, InvokerPc
<1>10. ThreadInv'
  BY <1>2, <1>8 DEF ThreadInv, TypeOK
<1>11. OwnerInv'
  <2>1. ctx[i] = Nil /\ thread[c] = Nil
    BY <1>2, <1>3 DEF OwnerInv, OneInvoker
  <2>2. \A j \in Invokers : ctx[j] # c
    BY <2>1, InvokersAssumption, <1>3, ContextsAssumption DEF OwnerInv, OneInvoker
  <2>3. ASSUME NEW d \in Contexts
        PROVE  IF state'[d] \in {"Paused", "Running"}
               THEN thread'[d] # Nil /\ ctx'[thread'[d]] = d
               ELSE thread'[d] = Nil
    <3>1. CASE d = c
      BY <1>3, <1>8, <3>1, InvokersAssumption DEF TypeOK
    <3>2. CASE d # c
      BY <1>3, <1>8, <2>1, <3>2, ContextsAssumption DEF TypeOK, OwnerInv, OneInvoker
    <3> QED BY <3>1, <3>2
  <2>4. ASSUME NEW j \in Invokers
        PROVE  /\ ctx'[j] # Nil => frame'[j] = ctx'[j] /\ thread'[ctx'[j]] = j
               /\ pc'[j] \in {"Process", "PriMsg", "StdMsg"} =>
                    ctx'[j] # Nil /\ state'[ctx'[j]] = "Running"
               /\ pc'[j] \in {"Idle", "Find", "Exited"} => ctx'[j] = Nil
               /\ pc'[j] = "Paused" =>
                    /\ frame'[j] # Nil
                    /\ ctx'[j] # Nil => state'[ctx'[j]] = "Paused"
    <3>1. CASE j = i
      BY <1>3, <1>8, <3>1, ContextsAssumption DEF TypeOK
    <3>2. CASE j # i
      BY <1>3, <1>8, <2>2, <3>2 DEF TypeOK, OwnerInv, OneInvoker
    <3> QED BY <3>1, <3>2
  <2> QED BY <2>3, <2>4 DEF OwnerInv, OneInvoker
<1>12. QueueInv'
  <2>1. ASSUME NEW q \in Priority
        PROVE  /\ Distinct(w[q])
               /\ length'[q] = Len(w[q])
               /\ \A d \in Contexts :
                    In(w[q], d) <=> state'[d] = "Ready" /\ prio[d] = q
    <3>1. length'[q] = Len(w[q])
      BY <1>4, <1>7 DEF TypeOK
    <3>2. ASSUME NEW d \in Contexts
          PROVE  In(w[q], d) <=> state'[d] = "Ready" /\ prio[d] = q
      <4>1. In(w[q], d) <=> In(workq[q], d) /\ d # c
        BY <1>4
      <4>2. In(workq[q], d) <=> state[d] = "Ready" /\ prio[d] = q
        BY DEF QueueInv
      <4>3. state'[d] = IF d = c THEN "Running" ELSE state[d]
        BY <1>3, <1>8 DEF TypeOK
      <4> QED BY <4>1, <4>2, <4>3
    <3> QED BY <1>4, <3>1, <3>2
  <2>2. \A d \in Contexts :
          whichq'[d] = IF state'[d] = "Ready" THEN prio[d] ELSE Nil
    BY <1>3, <1>8 DEF TypeOK, QueueInv
  <2> QED BY <1>2, <1>8, <2>1, <2>2 DEF QueueInv
<1>13. MsgInv'
  BY <1>2, <1>3, <1>8 DEF MsgInv, NoStrandedMsg, ImmediateFirst, OwnerInv, OneInvoker, TypeOK
<1>14. WorkIsNoticed' /\ NoLockout'
  BY <1>2, <1>8 DEF WorkIsNoticed, NoLockout, TypeOK
<1> QED BY <1>9, <1>10, <1>11, <1>12, <1>13, <1>14

\* Deleting a context that is on no queue leaves the queues alone.
LEMMA DeleteProperties ==
    ASSUME TypeOK, QueueInv, NEW c \in Contexts, state[c] # "Ready", Delete(c)
    PROVE  /\ workq' = workq /\ length' = length /\ prio' = prio
           /\ whichq' = [whichq EXCEPT ![c] = Nil]
           /\ state' = [state EXCEPT ![c] = "Free"]
           /\ thread' = [thread EXCEPT ![c] = Nil]
           /\ priMsgq' = [priMsgq EXCEPT ![c] = <<>>]
           /\ stdMsgq' = [stdMsgq EXCEPT ![c] = <<>>]
           /\ QueueInv'
<1>1. workq' = workq /\ length' = length
  BY UnlinkProperties DEF Delete, QueueInv
<1>2. QueueInv'
  BY <1>1 DEF QueueInv, Delete, TypeOK
<1> QED BY <1>1, <1>2 DEF Delete

\* A context that is on no queue joins the queue of its new priority.
LEMMA LinkProperties ==
    ASSUME TypeOK, QueueInv, NEW c \in Contexts, NEW p \in Priority,
           state[c] # "Ready", Link(c, p, FALSE)
    PROVE  /\ workq' \in [Priority -> Seq(Contexts)]
           /\ length' \in [Priority -> Nat]
           /\ QueueInv'
<1>1. Unlink(workq, c) = workq
  BY UnlinkProperties
<1>2. workq' = [workq EXCEPT ![p] = Append(@, c)]
  BY <1>1 DEF Link, Enqueued
<1>3. /\ length' = [length EXCEPT ![p] = @ + 1]
      /\ whichq' = [whichq EXCEPT ![c] = p]
      /\ state' = [state EXCEPT ![c] = "Ready"]
      /\ prio' = [prio EXCEPT ![c] = p]
  BY DEF Link
<1>4. /\ Append(workq[p], c) \in Seq(Contexts)
      /\ Distinct(Append(workq[p], c))
      /\ \A x : In(Append(workq[p], c), x) <=> In(workq[p], x) \/ x = c
      /\ Len(Append(workq[p], c)) = Len(workq[p]) + 1
  BY AppendDistinct DEF TypeOK, QueueInv
<1>5. workq' \in [Priority -> Seq(Contexts)] /\ length' \in [Priority -> Nat]
  BY <1>2, <1>3, <1>4 DEF TypeOK
<1>6. QueueInv'
  <2>1. ASSUME NEW q \in Priority
        PROVE  /\ Distinct(workq'[q])
               /\ length'[q] = Len(workq'[q])
               /\ \A d \in Contexts :
                    In(workq'[q], d) <=> state'[d] = "Ready" /\ prio'[d] = q
    <3>1. CASE q = p
      <4>1. workq'[q] = Append(workq[p], c) /\ length'[q] = length[p] + 1
        BY <1>2, <1>3, <3>1 DEF TypeOK
      <4>2. length'[q] = Len(workq'[q])
        BY <1>4, <4>1 DEF QueueInv
      <4>3. ASSUME NEW d \in Contexts
            PROVE  In(workq'[q], d) <=> state'[d] = "Ready" /\ prio'[d] = q
        <5>1. In(workq'[q], d) <=> In(workq[p], d) \/ d = c
          BY <1>4, <4>1
        <5>2. In(workq[p], d) <=> state[d] = "Ready" /\ prio[d] = p
          BY DEF QueueInv
        <5> QED BY <1>3, <3>1, <5>1, <5>2 DEF TypeOK
      <4> QED BY <1>4, <4>1, <4>2, <4>3
    <3>2. CASE q # p
      BY <1>2, <1>3, <3>2 DEF TypeOK, QueueInv
    <3> QED BY <3>1, <3>2
  <2>2. \A d \in Contexts :
          whichq'[d] = IF state'[d] = "Ready" THEN prio'[d] ELSE Nil
    BY <1>3 DEF TypeOK, QueueInv
  <2> QED BY <2>1, <2>2 DEF QueueInv
<1> QED BY <1>5, <1>6

\* The owner of a context gives it up: it has processed it, has trapped or has
\* exited, or has paused and lost it.
LEMMA Release ==
    ASSUME TypeOK, OwnerInv,
           NEW i \in Invokers, NEW c \in Contexts, ctx[i] = c,
           NEW s \in {"Free", "Dormant", "Ready"},
           state' = [state EXCEPT ![c] = s],
           thread' = [thread EXCEPT ![c] = Nil],
           ctx' = [ctx EXCEPT ![i] = Nil],
           \/ /\ pc' = pc /\ pc[i] = "Paused" /\ frame' = frame
           \/ /\ frame' = [frame EXCEPT ![i] = Nil]
              /\ \E n \in {"Find", "Exited"} : pc' = [pc EXCEPT ![i] = n]
    PROVE  OwnerInv'
<1>1. thread[c] = i /\ \A j \in Invokers : ctx[j] = c => j = i
  BY ContextsAssumption DEF OwnerInv, OneInvoker
<1>2. ASSUME NEW d \in Contexts
      PROVE  IF state'[d] \in {"Paused", "Running"}
             THEN thread'[d] # Nil /\ ctx'[thread'[d]] = d
             ELSE thread'[d] = Nil
  <2>1. CASE d = c
    BY <2>1 DEF TypeOK
  <2>2. CASE d # c
    BY <2>2 DEF TypeOK, OwnerInv, OneInvoker
  <2> QED BY <2>1, <2>2
<1>3. ASSUME NEW j \in Invokers
      PROVE  /\ ctx'[j] # Nil => frame'[j] = ctx'[j] /\ thread'[ctx'[j]] = j
             /\ pc'[j] \in {"Process", "PriMsg", "StdMsg"} =>
                  ctx'[j] # Nil /\ state'[ctx'[j]] = "Running"
             /\ pc'[j] \in {"Idle", "Find", "Exited"} => ctx'[j] = Nil
             /\ pc'[j] = "Paused" =>
                  /\ frame'[j] # Nil
                  /\ ctx'[j] # Nil => state'[ctx'[j]] = "Paused"
  <2>1. CASE j = i
    BY <2>1 DEF TypeOK, OwnerInv
  <2>2. CASE j # i
    BY <1>1, <2>2, SMTT(30) DEF TypeOK, OwnerInv, OneInvoker
  <2> QED BY <2>1, <2>2
<1> QED BY <1>2, <1>3 DEF OwnerInv, OneInvoker

\* An invoker that returns will look for work, now or after it has yielded.
LEMMA ReturnProperties ==
    ASSUME TypeOK, ThreadInv, NoLockout, NEW i \in Invokers, active = i, Return(i)
    PROVE  /\ pc' = [pc EXCEPT ![i] = "Find"]
           /\ ctx' = [ctx EXCEPT ![i] = Nil]
           /\ frame' = [frame EXCEPT ![i] = Nil]
           /\ UNCHANGED <<waiting, event, unsent, deaths>>
           /\ blocked' \in [Invokers -> BlockingReason]
           /\ active' \in Invokers \cup {IO, Nil}
           /\ ThreadInv'
           /\ WorkIsNoticed'
           /\ NoLockout'
<1>1. /\ pc' = [pc EXCEPT ![i] = "Find"]
      /\ ctx' = [ctx EXCEPT ![i] = Nil]
      /\ frame' = [frame EXCEPT ![i] = Nil]
      /\ UNCHANGED <<waiting, event, unsent, deaths>>
  BY DEF Return, Block
<1>2. \/ blocked' = [blocked EXCEPT ![i] = "BlockedOnClock"] /\ active' = Nil
      \/ UNCHANGED <<blocked, active>>
  BY DEF Return, Block
<1>3. blocked' \in [Invokers -> BlockingReason] /\ active' \in Invokers \cup {IO, Nil}
  BY <1>2 DEF TypeOK, BlockingReason
<1>4. ThreadInv'
  BY <1>1, <1>2, InvokersAssumption DEF ThreadInv, TypeOK
<1>5. WorkIsNoticed'
  BY <1>1 DEF WorkIsNoticed, TypeOK
<1>6. NoLockout'
  BY <1>2 DEF NoLockout, TypeOK
<1> QED BY <1>1, <1>3, <1>4, <1>5, <1>6

-----------------------------------------------------------------------------
(* Transactions                                                             *)

\* Deletion of the invoker's context, at the end of a transaction.
LEMMA DeleteAndReturn ==
    ASSUME IInv, NEW i \in Invokers, active = i,
           pc[i] \in {"Process", "PriMsg", "StdMsg"},
           Delete(frame[i]), Return(i)
    PROVE  IInv'
<1> USE DEF IInv
<1> DEFINE c == frame[i]
<1>1. /\ c \in Contexts /\ ctx[i] = c /\ state[c] = "Running"
      /\ \A j \in Invokers : ctx[j] = c => j = i
  BY Serving
<1> HIDE DEF c
<1>2. /\ workq' = workq /\ length' = length /\ prio' = prio
      /\ whichq' = [whichq EXCEPT ![c] = Nil]
      /\ state' = [state EXCEPT ![c] = "Free"]
      /\ thread' = [thread EXCEPT ![c] = Nil]
      /\ priMsgq' = [priMsgq EXCEPT ![c] = <<>>]
      /\ stdMsgq' = [stdMsgq EXCEPT ![c] = <<>>]
      /\ QueueInv'
  BY <1>1, DeleteProperties DEF c
<1>3. /\ pc' = [pc EXCEPT ![i] = "Find"]
      /\ ctx' = [ctx EXCEPT ![i] = Nil]
      /\ frame' = [frame EXCEPT ![i] = Nil]
      /\ UNCHANGED <<waiting, event, unsent, deaths>>
      /\ blocked' \in [Invokers -> BlockingReason]
      /\ active' \in Invokers \cup {IO, Nil}
      /\ ThreadInv' /\ WorkIsNoticed' /\ NoLockout'
  BY ReturnProperties
<1>4. TypeOK'
  BY <1>1, <1>2, <1>3 DEF TypeOK, ContextState, InvokerPc
<1>5. OwnerInv'
  BY <1>1, <1>2, <1>3, Release
<1>6. MsgInv'
  BY <1>1, <1>2, <1>3 DEF MsgInv, NoStrandedMsg, ImmediateFirst, OwnerInv, OneInvoker, TypeOK
<1> QED BY <1>2, <1>3, <1>4, <1>5, <1>6

\* The end of a transaction that deletes its context preserves the invariant.
LEMMA EndContextInv ==
    ASSUME IInv, NEW i \in Invokers, EndContext(i)
    PROVE  IInv'
BY DeleteAndReturn DEF EndContext, Run, InProcessIcMsg

\* An invoker that resumes after a pause preserves the invariant, whether it lost its context or not.
LEMMA ResumeContextInv ==
    ASSUME IInv, NEW i \in Invokers, ResumeContext(i)
    PROVE  IInv'
<1> USE DEF IInv
<1> DEFINE c == frame[i]
<1>1. active = i /\ pc[i] = "Paused" /\ c \in Contexts
  BY DEF ResumeContext, Run, OwnerInv, TypeOK
<1> HIDE DEF c
<1>2. CASE ctx[i] # c
  <2>1. Return(i) /\ UNCHANGED <<ctxVars, workVars>>
    BY <1>2 DEF ResumeContext, c
  <2>2. ctx[i] = Nil
    BY <1>2 DEF OwnerInv, OneInvoker, c
  <2>3. /\ pc' = [pc EXCEPT ![i] = "Find"]
        /\ ctx' = ctx
        /\ frame' = [frame EXCEPT ![i] = Nil]
        /\ UNCHANGED <<waiting, event, unsent, deaths>>
        /\ blocked' \in [Invokers -> BlockingReason]
        /\ active' \in Invokers \cup {IO, Nil}
        /\ ThreadInv' /\ WorkIsNoticed' /\ NoLockout'
    <3>1. ctx' = [ctx EXCEPT ![i] = Nil]
      BY <1>1, <2>1, ReturnProperties
    <3>2. ctx' = ctx
      BY <2>2, <3>1 DEF TypeOK
    <3> QED BY <1>1, <2>1, <3>2, ReturnProperties
  <2>4. TypeOK'
    BY <2>1, <2>3 DEF TypeOK, InvokerPc, ctxVars, workVars
  <2>5. OwnerInv'
    BY <2>1, <2>2, <2>3 DEF OwnerInv, OneInvoker, TypeOK, ctxVars
  <2>6. QueueInv' /\ MsgInv'
    BY <2>1, <2>3
    DEF QueueInv, MsgInv, NoStrandedMsg, ImmediateFirst, TypeOK, ctxVars, workVars
  <2> QED BY <2>3, <2>4, <2>5, <2>6
<1>3. CASE ctx[i] = c
  <2>1. /\ state' = [state EXCEPT ![c] = "Running"]
        /\ ctx' = [ctx EXCEPT ![i] = frame[i]]
        /\ pc' = [pc EXCEPT ![i] = "Process"]
        /\ UNCHANGED <<whichq, prio, priMsgq, stdMsgq, thread, workq, length>>
        /\ UNCHANGED <<frame, blocked, waiting, event, active, unsent, deaths>>
    BY <1>3 DEF ResumeContext, Continue, c, workVars
  <2>2. ctx' = ctx
    BY <1>3, <2>1 DEF TypeOK, c
  <2>3. /\ state[c] = "Paused"
        /\ \A j \in Invokers : ctx[j] = c => j = i
    BY <1>1, <1>3, ContextsAssumption DEF OwnerInv, OneInvoker
  <2>4. TypeOK'
    BY <2>1, <2>2 DEF TypeOK, InvokerPc, ContextState
  <2>5. ThreadInv' /\ WorkIsNoticed' /\ NoLockout'
    BY <1>1, <2>1 DEF ThreadInv, WorkIsNoticed, NoLockout, TypeOK
  <2>6. OwnerInv'
    BY <1>1, <1>3, <2>1, <2>2, <2>3, ContextsAssumption DEF OwnerInv, OneInvoker, TypeOK
  <2>7. QueueInv'
    BY <1>1, <2>1, <2>3 DEF QueueInv, TypeOK
  <2>8. MsgInv'
    BY <1>1, <2>1, <2>2, <2>3 DEF MsgInv, NoStrandedMsg, ImmediateFirst, TypeOK
  <2> QED BY <2>4, <2>5, <2>6, <2>7, <2>8
<1> QED BY <1>2, <1>3

\* The transaction goes on with the invoker's own context.
LEMMA ContinueProperties ==
    ASSUME TypeOK, ThreadInv, NoLockout, NEW i \in Invokers, active = i,
           ctx[i] = frame[i], Continue(i, "Process")
    PROVE  /\ pc' = [pc EXCEPT ![i] = "Process"]
           /\ UNCHANGED <<ctx, frame, blocked, waiting, event, active, unsent, deaths>>
           /\ ThreadInv' /\ WorkIsNoticed' /\ NoLockout'
<1>1. /\ pc' = [pc EXCEPT ![i] = "Process"]
      /\ UNCHANGED <<ctx, frame, blocked, waiting, event, active, unsent, deaths>>
  BY DEF Continue, TypeOK
<1>2. ThreadInv' /\ WorkIsNoticed' /\ NoLockout'
  BY <1>1 DEF ThreadInv, WorkIsNoticed, NoLockout, TypeOK
<1> QED BY <1>1, <1>2

\* The end of an immediate message preserves the invariant.
LEMMA EndPriMsgInv ==
    ASSUME IInv, NEW i \in Invokers, EndPriMsg(i)
    PROVE  IInv'
<1> USE DEF IInv
<1> DEFINE c == frame[i]
           rest == Tail(priMsgq[c])
<1>1. active = i /\ pc[i] = "PriMsg"
  BY DEF EndPriMsg, Run
<1>2. /\ c \in Contexts /\ ctx[i] = c /\ state[c] = "Running"
      /\ \A j \in Invokers : ctx[j] = c => j = i
  BY <1>1, Serving
<1>3. rest \in Seq(Msgs)
  <2>1. priMsgq[c] \in Seq(Msgs) /\ priMsgq[c] # <<>>
    BY <1>1, <1>2 DEF TypeOK, MsgInv
  <2> QED BY <2>1, HeadTailProperties
<1>4. priMsgq' = [priMsgq EXCEPT ![c] = rest] /\ UNCHANGED stdMsgq
  BY DEF EndPriMsg
<1> HIDE DEF c, rest
<1>5. CASE /\ rest = <<>> /\ stdMsgq[c] # <<>>
           /\ Link(c, PROGRESS, FALSE)
           /\ thread' = [thread EXCEPT ![c] = Nil]
           /\ Return(i)
  <2>1. PROGRESS \in Priority /\ PROGRESS # IMMEDIATE
    BY DEF PROGRESS, IMMEDIATE, INGRESS, Priority
  <2>2. /\ workq' \in [Priority -> Seq(Contexts)]
        /\ length' \in [Priority -> Nat]
        /\ QueueInv'
    BY <1>2, <1>5, <2>1, LinkProperties
  <2>3. /\ whichq' = [whichq EXCEPT ![c] = PROGRESS]
        /\ state' = [state EXCEPT ![c] = "Ready"]
        /\ prio' = [prio EXCEPT ![c] = PROGRESS]
    BY <1>5 DEF Link
  <2>4. /\ pc' = [pc EXCEPT ![i] = "Find"]
        /\ ctx' = [ctx EXCEPT ![i] = Nil]
        /\ frame' = [frame EXCEPT ![i] = Nil]
        /\ UNCHANGED <<waiting, event, unsent, deaths>>
        /\ blocked' \in [Invokers -> BlockingReason]
        /\ active' \in Invokers \cup {IO, Nil}
        /\ ThreadInv' /\ WorkIsNoticed' /\ NoLockout'
    BY <1>1, <1>5, ReturnProperties
  <2>5. TypeOK'
    BY <1>2, <1>3, <1>4, <1>5, <2>1, <2>2, <2>3, <2>4 DEF TypeOK, ContextState, InvokerPc
  <2>6. OwnerInv'
    BY <1>2, <1>5, <2>3, <2>4, Release
  <2>7. MsgInv'
    BY <1>2, <1>4, <1>5, <2>1, <2>3, <2>4
    DEF MsgInv, NoStrandedMsg, ImmediateFirst, OwnerInv, OneInvoker, TypeOK
  <2> QED BY <2>2, <2>4, <2>5, <2>6, <2>7
<1>6. CASE /\ rest = <<>> /\ stdMsgq[c] = <<>>
           /\ state' = [state EXCEPT ![c] = "Dormant"]
           /\ thread' = [thread EXCEPT ![c] = Nil]
           /\ UNCHANGED <<whichq, prio, workVars>>
           /\ Return(i)
  <2>1. /\ pc' = [pc EXCEPT ![i] = "Find"]
        /\ ctx' = [ctx EXCEPT ![i] = Nil]
        /\ frame' = [frame EXCEPT ![i] = Nil]
        /\ UNCHANGED <<waiting, event, unsent, deaths>>
        /\ blocked' \in [Invokers -> BlockingReason]
        /\ active' \in Invokers \cup {IO, Nil}
        /\ ThreadInv' /\ WorkIsNoticed' /\ NoLockout'
    BY <1>1, <1>6, ReturnProperties
  <2>2. TypeOK'
    BY <1>2, <1>3, <1>4, <1>6, <2>1 DEF TypeOK, ContextState, InvokerPc, workVars
  <2>3. OwnerInv'
    BY <1>2, <1>6, <2>1, Release
  <2>4. QueueInv'
    BY <1>2, <1>6, SMTT(30) DEF QueueInv, TypeOK, workVars
  <2>5. MsgInv'
    BY <1>2, <1>4, <1>6, <2>1
    DEF MsgInv, NoStrandedMsg, ImmediateFirst, OwnerInv, OneInvoker, TypeOK
  <2> QED BY <2>1, <2>2, <2>3, <2>4, <2>5
<1>7. CASE /\ rest # <<>>
           /\ UNCHANGED <<state, whichq, prio, thread, workVars>>
           /\ Continue(i, "Process")
  <2>1. /\ pc' = [pc EXCEPT ![i] = "Process"]
        /\ UNCHANGED <<ctx, frame, blocked, waiting, event, active, unsent, deaths>>
        /\ ThreadInv' /\ WorkIsNoticed' /\ NoLockout'
    BY <1>1, <1>2, <1>7, ContinueProperties DEF c
  <2>2. TypeOK'
    BY <1>2, <1>3, <1>4, <1>7, <2>1 DEF TypeOK, InvokerPc, workVars
  <2>3. OwnerInv'
    BY <1>1, <1>7, <2>1 DEF OwnerInv, OneInvoker, TypeOK
  <2>4. QueueInv'
    BY <1>7 DEF QueueInv, workVars
  <2>5. MsgInv'
    BY <1>2, <1>4, <1>7, <2>1
    DEF MsgInv, NoStrandedMsg, ImmediateFirst, OwnerInv, OneInvoker, TypeOK
  <2> QED BY <2>1, <2>2, <2>3, <2>4, <2>5
<1> QED BY <1>5, <1>6, <1>7 DEF EndPriMsg, c, rest

\* The end of a standard message preserves the invariant, also if the invoker requeues its context.
LEMMA EndStdMsgInv ==
    ASSUME IInv, NEW i \in Invokers, EndStdMsg(i)
    PROVE  IInv'
<1> USE DEF IInv
<1> DEFINE c == frame[i]
           rest == Tail(stdMsgq[c])
<1>1. active = i /\ pc[i] = "StdMsg"
  BY DEF EndStdMsg, Run
<1>2. /\ c \in Contexts /\ ctx[i] = c /\ state[c] = "Running"
      /\ \A j \in Invokers : ctx[j] = c => j = i
  BY <1>1, Serving
<1>3. rest \in Seq(Msgs)
  <2>1. stdMsgq[c] \in Seq(Msgs) /\ stdMsgq[c] # <<>>
    BY <1>1, <1>2 DEF TypeOK, MsgInv
  <2> QED BY <2>1, HeadTailProperties
<1>4. /\ stdMsgq' = [stdMsgq EXCEPT ![c] = rest]
      /\ UNCHANGED <<whichq, prio, priMsgq, workq, length>>
  BY DEF EndStdMsg, workVars
<1> HIDE DEF c, rest
<1>5. CASE /\ priMsgq[c] = <<>> /\ rest = <<>>
           /\ state' = [state EXCEPT ![c] = "Dormant"]
           /\ thread' = [thread EXCEPT ![c] = Nil]
           /\ Return(i)
  <2>1. /\ pc' = [pc EXCEPT ![i] = "Find"]
        /\ ctx' = [ctx EXCEPT ![i] = Nil]
        /\ frame' = [frame EXCEPT ![i] = Nil]
        /\ UNCHANGED <<waiting, event, unsent, deaths>>
        /\ blocked' \in [Invokers -> BlockingReason]
        /\ active' \in Invokers \cup {IO, Nil}
        /\ ThreadInv' /\ WorkIsNoticed' /\ NoLockout'
    BY <1>1, <1>5, ReturnProperties
  <2>2. TypeOK'
    BY <1>2, <1>3, <1>4, <1>5, <2>1 DEF TypeOK, ContextState, InvokerPc
  <2>3. OwnerInv'
    BY <1>2, <1>5, <2>1, Release
  <2>4. QueueInv'
    BY <1>2, <1>4, <1>5 DEF QueueInv, TypeOK
  <2>5. MsgInv'
    BY <1>2, <1>4, <1>5, <2>1
    DEF MsgInv, NoStrandedMsg, ImmediateFirst, OwnerInv, OneInvoker, TypeOK
  <2> QED BY <2>1, <2>2, <2>3, <2>4, <2>5
<1>6. CASE /\ priMsgq[c] = <<>> /\ rest # <<>>
           /\ state' = [state EXCEPT ![c] = "Paused"]
           /\ Block(i, "BlockedOnClock", "Paused")
           /\ UNCHANGED <<thread, ctx, frame, waiting, event, unsent, deaths>>
  <2>1. /\ pc' = [pc EXCEPT ![i] = "Paused"]
        /\ blocked' = [blocked EXCEPT ![i] = "BlockedOnClock"]
        /\ active' = Nil
    BY <1>6 DEF Block
  <2>2. TypeOK'
    BY <1>2, <1>3, <1>4, <1>6, <2>1 DEF TypeOK, ContextState, InvokerPc, BlockingReason
  <2>3. ThreadInv' /\ WorkIsNoticed' /\ NoLockout'
    BY <1>1, <1>6, <2>1, InvokersAssumption DEF ThreadInv, WorkIsNoticed, NoLockout, TypeOK
  <2>4. OwnerInv'
    <3>1. thread[c] = i
      BY <1>2, ContextsAssumption DEF OwnerInv, OneInvoker
    <3>2. ASSUME NEW d \in Contexts
          PROVE  IF state'[d] \in {"Paused", "Running"}
                 THEN thread[d] # Nil /\ ctx[thread[d]] = d
                 ELSE thread[d] = Nil
      BY <1>2, <1>6 DEF OwnerInv, OneInvoker, TypeOK
    <3>3. ASSUME NEW j \in Invokers
          PROVE  /\ pc'[j] \in {"Process", "PriMsg", "StdMsg"} =>
                      ctx[j] # Nil /\ state'[ctx[j]] = "Running"
                 /\ pc'[j] \in {"Idle", "Find", "Exited"} => ctx[j] = Nil
                 /\ pc'[j] = "Paused" =>
                      /\ frame[j] # Nil
                      /\ ctx[j] # Nil => state'[ctx[j]] = "Paused"
      <4>1. CASE j = i
        BY <1>2, <1>6, <2>1, <4>1, ContextsAssumption DEF TypeOK, c
      <4>2. CASE j # i
        BY <1>2, <1>6, <2>1, <4>2 DEF OwnerInv, OneInvoker, TypeOK
      <4> QED BY <4>1, <4>2
    <3> QED BY <1>6, <3>2, <3>3 DEF OwnerInv, OneInvoker
  <2>5. QueueInv'
    BY <1>2, <1>4, <1>6 DEF QueueInv, TypeOK
  <2>6. MsgInv'
    BY <1>2, <1>4, <1>6, <2>1
    DEF MsgInv, NoStrandedMsg, ImmediateFirst, OwnerInv, OneInvoker, TypeOK
  <2> QED BY <2>2, <2>3, <2>4, <2>5, <2>6
<1>7. CASE /\ ~(priMsgq[c] = <<>> /\ rest = <<>>)
           /\ UNCHANGED <<state, thread>>
           /\ Continue(i, "Process")
  <2>1. /\ pc' = [pc EXCEPT ![i] = "Process"]
        /\ UNCHANGED <<ctx, frame, blocked, waiting, event, active, unsent, deaths>>
        /\ ThreadInv' /\ WorkIsNoticed' /\ NoLockout'
    BY <1>1, <1>2, <1>7, ContinueProperties DEF c
  <2>2. TypeOK'
    BY <1>2, <1>3, <1>4, <1>7, <2>1 DEF TypeOK, InvokerPc
  <2>3. OwnerInv'
    BY <1>1, <1>7, <2>1 DEF OwnerInv, OneInvoker, TypeOK
  <2>4. QueueInv'
    BY <1>4, <1>7 DEF QueueInv
  <2>5. MsgInv'
    BY <1>2, <1>4, <1>7, <2>1
    DEF MsgInv, NoStrandedMsg, ImmediateFirst, OwnerInv, OneInvoker, TypeOK
  <2> QED BY <2>1, <2>2, <2>3, <2>4, <2>5
<1> QED BY <1>5, <1>6, <1>7 DEF EndStdMsg, c, rest

-----------------------------------------------------------------------------
(* Traps and exits                                                          *)

\* What a thread that drops its context, if any, leaves behind.  N is where the
\* thread will resume, if at all.
LEMMA DropContextProperties ==
    ASSUME TypeOK, OwnerInv, QueueInv, MsgInv, NEW i \in Invokers, DropContext(i),
           NEW n \in {"Find", "Exited"},
           ctx' = [ctx EXCEPT ![i] = Nil],
           frame' = [frame EXCEPT ![i] = Nil],
           pc' = [pc EXCEPT ![i] = n]
    PROVE  /\ state' \in [Contexts -> ContextState]
           /\ whichq' \in [Contexts -> Priority \cup {Nil}]
           /\ prio' \in [Contexts -> Priority]
           /\ priMsgq' \in [Contexts -> Seq(Msgs)]
           /\ stdMsgq' \in [Contexts -> Seq(Msgs)]
           /\ thread' \in [Contexts -> Invokers \cup {Nil}]
           /\ UNCHANGED <<workq, length>>
           /\ OwnerInv' /\ QueueInv' /\ MsgInv'
<1>1. CASE ctx[i] = Nil
  <2>1. UNCHANGED <<state, whichq, prio, priMsgq, stdMsgq, thread, workq, length>>
    BY <1>1 DEF DropContext, ctxVars, workVars
  <2>2. ctx' = ctx
    BY <1>1 DEF TypeOK
  <2>3. OwnerInv'
    BY <1>1, <2>1, <2>2 DEF OwnerInv, OneInvoker, TypeOK
  <2>4. QueueInv' /\ MsgInv'
    BY <2>1, <2>2 DEF QueueInv, MsgInv, NoStrandedMsg, ImmediateFirst, TypeOK
  <2> QED BY <2>1, <2>3, <2>4 DEF TypeOK
<1>2. CASE ctx[i] # Nil
  <2> DEFINE c == ctx[i]
  <2>1. /\ c \in Contexts /\ state[c] # "Ready"
        /\ \A j \in Invokers : ctx[j] = c => j = i
    <3>1. c \in Contexts
      BY <1>2 DEF TypeOK
    <3>2. thread[c] = i /\ thread[c] # Nil
      BY <1>2, InvokersAssumption DEF OwnerInv, OneInvoker
    <3>3. state[c] \in {"Paused", "Running"}
      BY <3>1, <3>2 DEF OwnerInv, OneInvoker
    <3>4. \A j \in Invokers : ctx[j] = c => j = i
      BY <1>2, <3>2 DEF OwnerInv, OneInvoker
    <3> QED BY <3>1, <3>3, <3>4
  <2>2. Delete(c)
    BY <1>2 DEF DropContext
  <2> HIDE DEF c
  <2>3. /\ workq' = workq /\ length' = length /\ prio' = prio
        /\ whichq' = [whichq EXCEPT ![c] = Nil]
        /\ state' = [state EXCEPT ![c] = "Free"]
        /\ thread' = [thread EXCEPT ![c] = Nil]
        /\ priMsgq' = [priMsgq EXCEPT ![c] = <<>>]
        /\ stdMsgq' = [stdMsgq EXCEPT ![c] = <<>>]
        /\ QueueInv'
    BY <2>1, <2>2, DeleteProperties
  <2>4. OwnerInv'
    BY <2>1, <2>3, Release DEF c
  <2>5. MsgInv'
    BY <2>1, <2>3 DEF MsgInv, NoStrandedMsg, ImmediateFirst, OwnerInv, OneInvoker, TypeOK
  <2> QED BY <2>1, <2>3, <2>4, <2>5 DEF TypeOK, ContextState
<1> QED BY <1>1, <1>2

\* The recovery of an invoker that trapped preserves the invariant.
LEMMA RecoverInv ==
    ASSUME IInv, NEW i \in Invokers, Recover(i)
    PROVE  IInv'
<1> USE DEF IInv
<1>1. /\ active = i /\ pc[i] \in {"PriMsg", "StdMsg"} /\ DropContext(i)
      /\ ctx' = [ctx EXCEPT ![i] = Nil]
      /\ frame' = [frame EXCEPT ![i] = Nil]
      /\ pc' = [pc EXCEPT ![i] = "Find"]
      /\ blocked' = [blocked EXCEPT ![i] = "BlockedOnClock"]
      /\ active' = Nil
      /\ UNCHANGED <<waiting, event, unsent, deaths>>
  BY DEF Recover, Run, Block, InProcessIcMsg
<1>2. /\ state' \in [Contexts -> ContextState]
      /\ whichq' \in [Contexts -> Priority \cup {Nil}]
      /\ prio' \in [Contexts -> Priority]
      /\ priMsgq' \in [Contexts -> Seq(Msgs)]
      /\ stdMsgq' \in [Contexts -> Seq(Msgs)]
      /\ thread' \in [Contexts -> Invokers \cup {Nil}]
      /\ UNCHANGED <<workq, length>>
      /\ OwnerInv' /\ QueueInv' /\ MsgInv'
  BY <1>1, DropContextProperties
<1>3. TypeOK'
  BY <1>1, <1>2 DEF TypeOK, InvokerPc, BlockingReason
<1>4. ThreadInv'
  BY <1>1, InvokersAssumption DEF ThreadInv, TypeOK
<1>5. WorkIsNoticed' /\ NoLockout'
  BY <1>1 DEF WorkIsNoticed, NoLockout, TypeOK
<1> QED BY <1>2, <1>3, <1>4, <1>5

\* The exit of an invoker preserves the invariant.
LEMMA ExitInv ==
    ASSUME IInv, NEW i \in Invokers, Exit(i)
    PROVE  IInv'
<1> USE DEF IInv
<1>1. /\ deaths < MaxDeaths /\ deaths' = deaths + 1
      /\ \/ active = i
         \/ blocked[i] # "NotBlocked"
      /\ DropContext(i)
      /\ ctx' = [ctx EXCEPT ![i] = Nil]
      /\ frame' = [frame EXCEPT ![i] = Nil]
      /\ pc' = [pc EXCEPT ![i] = "Exited"]
      /\ blocked' = [blocked EXCEPT ![i] = "NotBlocked"]
      /\ event' = [event EXCEPT ![i] = FALSE]
      /\ active' = IF active = i THEN Nil ELSE active
      /\ UNCHANGED <<waiting, unsent>>
  BY DEF Exit, Run
<1>2. /\ state' \in [Contexts -> ContextState]
      /\ whichq' \in [Contexts -> Priority \cup {Nil}]
      /\ prio' \in [Contexts -> Priority]
      /\ priMsgq' \in [Contexts -> Seq(Msgs)]
      /\ stdMsgq' \in [Contexts -> Seq(Msgs)]
      /\ thread' \in [Contexts -> Invokers \cup {Nil}]
      /\ UNCHANGED <<workq, length>>
      /\ OwnerInv' /\ QueueInv' /\ MsgInv'
  BY <1>1, DropContextProperties
<1>3. deaths' \in 0 .. MaxDeaths
  BY <1>1, DeathsAssumption DEF TypeOK
<1>4. TypeOK'
  BY <1>1, <1>2, <1>3 DEF TypeOK, InvokerPc, BlockingReason
<1>5. ThreadInv'
  BY <1>1, InvokersAssumption DEF ThreadInv, TypeOK
<1>6. WorkIsNoticed' /\ NoLockout'
  BY <1>1 DEF WorkIsNoticed, NoLockout, TypeOK
<1> QED BY <1>2, <1>4, <1>5, <1>6

-----------------------------------------------------------------------------
(* Arrival of messages                                                      *)

\* An interrupt is not sent only if an invoker will look for work anyway.
LEMMA KickProperties ==
    ASSUME TypeOK, ThreadInv, KickThread, pc' = pc
    PROVE  /\ event' \in [Invokers -> BOOLEAN]
           /\ WorkIsNoticed'
<1>1. CASE \E i \in Invokers : waiting[i]
  <2>1. PICK i \in Invokers : waiting[i]
    BY <1>1
  <2>2. pc[i] # "Idle" /\ event' = event
    BY <1>1, <2>1 DEF ThreadInv, KickThread
  <2> QED BY <2>2 DEF WorkIsNoticed, TypeOK
<1>2. CASE Ready = {}
  <2>1. PICK i \in Invokers : TRUE
    BY InvokersAssumption
  <2>2. pc[i] # "Idle" /\ event' = event
    BY <1>2 DEF ThreadInv, KickThread, Ready
  <2> QED BY <2>2 DEF WorkIsNoticed, TypeOK
<1>3. CASE \E i \in Ready : event' = [event EXCEPT ![i] = TRUE]
  <2>1. PICK i \in Ready : event' = [event EXCEPT ![i] = TRUE]
    BY <1>3
  <2>2. i \in Invokers
    BY DEF Ready
  <2> QED BY <2>1, <2>2 DEF WorkIsNoticed, TypeOK
<1> QED BY <1>1, <1>2, <1>3 DEF KickThread

\* The message is on the queue for its priority, and no other message moves.
LEMMA ArrivedProperties ==
    ASSUME TypeOK, NEW c \in Contexts, NEW m \in Msgs, NEW p \in Priority,
           ReceiveMsg(c, m, p, "RestartNil")
    PROVE  /\ priMsgq' \in [Contexts -> Seq(Msgs)]
           /\ stdMsgq' \in [Contexts -> Seq(Msgs)]
           /\ \A d \in Contexts :
                /\ priMsgq[d] # <<>> => priMsgq'[d] # <<>>
                /\ stdMsgq[d] # <<>> => stdMsgq'[d] # <<>>
                /\ d # c => priMsgq'[d] = priMsgq[d] /\ stdMsgq'[d] = stdMsgq[d]
           /\ p = IMMEDIATE => priMsgq'[c] # <<>>
           /\ p # IMMEDIATE => priMsgq' = priMsgq /\ stdMsgq'[c] # <<>>
<1>1. CASE p = IMMEDIATE
  <2>1. priMsgq' = [priMsgq EXCEPT ![c] = Append(@, m)] /\ stdMsgq' = stdMsgq
    BY <1>1 DEF ReceiveMsg
  <2>2. Append(priMsgq[c], m) \in Seq(Msgs) /\ Append(priMsgq[c], m) # <<>>
    <3>1. priMsgq[c] \in Seq(Msgs)
      BY DEF TypeOK
    <3> QED BY <3>1, AppendProperties
  <2> QED BY <1>1, <2>1, <2>2 DEF TypeOK
<1>2. CASE p # IMMEDIATE
  <2>1. stdMsgq' = [stdMsgq EXCEPT ![c] = Append(@, m)] /\ priMsgq' = priMsgq
    BY <1>2 DEF ReceiveMsg
  <2>2. Append(stdMsgq[c], m) \in Seq(Msgs) /\ Append(stdMsgq[c], m) # <<>>
    <3>1. stdMsgq[c] \in Seq(Msgs)
      BY DEF TypeOK
    <3> QED BY <3>1, AppendProperties
  <2> QED BY <1>2, <2>1, <2>2 DEF TypeOK
<1> QED BY <1>1, <1>2

\* A ready context moves to the immediate queue.
LEMMA MoveProperties ==
    ASSUME TypeOK, QueueInv, NEW c \in Contexts,
           state[c] = "Ready", prio[c] # IMMEDIATE,
           EnqueueReady(c, IMMEDIATE)
    PROVE  /\ workq' \in [Priority -> Seq(Contexts)]
           /\ length' \in [Priority -> Nat]
           /\ whichq' = [whichq EXCEPT ![c] = IMMEDIATE]
           /\ prio' = [prio EXCEPT ![c] = IMMEDIATE]
           /\ thread' = [thread EXCEPT ![c] = Nil]
           /\ UNCHANGED <<state, ctx>>
           /\ QueueInv'
<1> DEFINE w == Unlink(workq, c)
           len == Dequeued(length, w, prio[c])
           o == prio[c]
<1>1. /\ workq' = [w EXCEPT ![IMMEDIATE] = Append(@, c)]
      /\ length' = [len EXCEPT ![IMMEDIATE] = @ + 1]
      /\ whichq' = [whichq EXCEPT ![c] = IMMEDIATE]
      /\ prio' = [prio EXCEPT ![c] = IMMEDIATE]
      /\ thread' = [thread EXCEPT ![c] = Nil]
      /\ UNCHANGED <<state, ctx>>
  BY DEF EnqueueReady
<1>2. /\ w \in [Priority -> Seq(Contexts)]
      /\ \A p \in Priority :
            /\ Distinct(w[p])
            /\ \A x : In(w[p], x) <=> In(workq[p], x) /\ x # c
            /\ Len(w[p]) = IF p = prio[c] THEN length[p] - 1 ELSE length[p]
  BY UnlinkProperties
<1>3. o \in Priority /\ IMMEDIATE \in Priority /\ o # IMMEDIATE
  BY DEF TypeOK, Priority, IMMEDIATE, INGRESS
<1>4. length[o] \in Nat /\ length[o] > 0
  <2>1. In(workq[o], c) /\ length[o] = Len(workq[o])
    BY <1>3 DEF QueueInv
  <2>2. Len(workq[o]) \in Nat
    BY <1>3, LenProperties DEF TypeOK
  <2> QED BY <2>1, <2>2 DEF In
<1>5. len = [length EXCEPT ![o] = @ - 1]
  BY <1>4 DEF Dequeued
<1> HIDE DEF w, len, o
<1>6. /\ len \in [Priority -> Nat]
      /\ \A p \in Priority : len[p] = Len(w[p])
  BY <1>2, <1>3, <1>4, <1>5 DEF TypeOK, o
<1>7. /\ Append(w[IMMEDIATE], c) \in Seq(Contexts)
      /\ Distinct(Append(w[IMMEDIATE], c))
      /\ \A x : In(Append(w[IMMEDIATE], c), x) <=> In(w[IMMEDIATE], x) \/ x = c
      /\ Len(Append(w[IMMEDIATE], c)) = Len(w[IMMEDIATE]) + 1
  BY <1>2, <1>3, AppendDistinct
<1>8. workq' \in [Priority -> Seq(Contexts)] /\ length' \in [Priority -> Nat]
  BY <1>1, <1>2, <1>3, <1>6, <1>7
<1>9. QueueInv'
  <2>1. ASSUME NEW p \in Priority
        PROVE  /\ Distinct(workq'[p])
               /\ length'[p] = Len(workq'[p])
               /\ \A d \in Contexts :
                    In(workq'[p], d) <=> state[d] = "Ready" /\ prio'[d] = p
    <3>1. CASE p = IMMEDIATE
      <4>1. workq'[p] = Append(w[p], c) /\ length'[p] = len[p] + 1
        BY <1>1, <1>2, <1>3, <1>6, <3>1
      <4>2. ASSUME NEW d \in Contexts
            PROVE  In(workq'[p], d) <=> state[d] = "Ready" /\ prio'[d] = p
        <5>1. In(workq'[p], d) <=> In(workq[p], d) \/ d = c
          BY <1>2, <1>7, <3>1, <4>1
        <5>2. In(workq[p], d) <=> state[d] = "Ready" /\ prio[d] = p
          BY DEF QueueInv
        <5> QED BY <1>1, <3>1, <5>1, <5>2 DEF TypeOK
      <4>3. length'[p] = Len(workq'[p])
        BY <1>6, <1>7, <3>1, <4>1
      <4> QED BY <1>7, <3>1, <4>1, <4>2, <4>3
    <3>2. CASE p # IMMEDIATE
      <4>1. workq'[p] = w[p] /\ length'[p] = len[p]
        BY <1>1, <1>2, <1>6, <3>2
      <4>2. ASSUME NEW d \in Contexts
            PROVE  In(workq'[p], d) <=> state[d] = "Ready" /\ prio'[d] = p
        <5>1. In(workq'[p], d) <=> In(workq[p], d) /\ d # c
          BY <1>2, <4>1
        <5>2. In(workq[p], d) <=> state[d] = "Ready" /\ prio[d] = p
          BY DEF QueueInv
        <5> QED BY <1>1, <3>2, <5>1, <5>2 DEF TypeOK
      <4> QED BY <1>2, <1>6, <4>1, <4>2
    <3> QED BY <3>1, <3>2
  <2>2. \A d \in Contexts :
          whichq'[d] = IF state[d] = "Ready" THEN prio'[d] ELSE Nil
    BY <1>1 DEF TypeOK, QueueInv
  <2> QED BY <1>1, <2>1, <2>2 DEF QueueInv
<1> QED BY <1>1, <1>8, <1>9

\* The arrival of a message, for a context in any state, preserves the invariant.
LEMMA ReceiveMsgInv ==
    ASSUME IInv, NEW c \in Contexts, NEW m \in Msgs, NEW p \in Priority,
           ReceiveMsg(c, m, p, "RestartNil")
    PROVE  IInv'
<1> USE DEF IInv
<1>1. /\ priMsgq' \in [Contexts -> Seq(Msgs)]
      /\ stdMsgq' \in [Contexts -> Seq(Msgs)]
      /\ \A d \in Contexts :
            /\ priMsgq[d] # <<>> => priMsgq'[d] # <<>>
            /\ stdMsgq[d] # <<>> => stdMsgq'[d] # <<>>
            /\ d # c => priMsgq'[d] = priMsgq[d] /\ stdMsgq'[d] = stdMsgq[d]
      /\ p = IMMEDIATE => priMsgq'[c] # <<>>
      /\ p # IMMEDIATE => priMsgq' = priMsgq /\ stdMsgq'[c] # <<>>
  BY ArrivedProperties
<1>2. /\ unsent' = unsent \ {m} /\ KickThread /\ Enqueue(c, p, "RestartNil")
      /\ UNCHANGED <<frame, pc, blocked, waiting, active, deaths>>
  BY DEF ReceiveMsg
<1>3. event' \in [Invokers -> BOOLEAN] /\ WorkIsNoticed'
  BY <1>2, KickProperties
<1>4. ThreadInv' /\ NoLockout' /\ unsent' \in SUBSET Msgs
  BY <1>2 DEF ThreadInv, NoLockout, TypeOK
\* The cases in which only the queues of messages change
<1>5. CASE /\ UNCHANGED <<state, whichq, prio, workq, length, thread, ctx>>
           /\ state[c] \in {"Ready", "Paused", "Running"}
           /\ state[c] = "Ready" /\ p = IMMEDIATE => prio[c] = IMMEDIATE
           /\ state[c] = "Paused" => p # IMMEDIATE
  <2>1. TypeOK'
    BY <1>1, <1>2, <1>3, <1>4, <1>5 DEF TypeOK
  <2>2. OwnerInv' /\ QueueInv'
    BY <1>2, <1>5 DEF OwnerInv, OneInvoker, QueueInv
  <2>3. MsgInv'
    BY <1>1, <1>2, <1>5, SMTT(30) DEF MsgInv, NoStrandedMsg, ImmediateFirst, OwnerInv, OneInvoker, TypeOK
  <2> QED BY <1>3, <1>4, <2>1, <2>2, <2>3
\* The cases in which the context joins a work queue, on behalf of no invoker
<1>6. CASE /\ state[c] \in {"Free", "Dormant", "Paused"}
           /\ Link(c, p, FALSE)
           /\ \/ state[c] # "Paused" /\ UNCHANGED <<thread, ctx>>
              \/ /\ state[c] = "Paused" /\ p = IMMEDIATE
                 /\ ctx' = [i \in Invokers |-> IF i = thread[c] THEN Nil ELSE ctx[i]]
                 /\ thread' = [thread EXCEPT ![c] = Nil]
  <2>1. /\ workq' \in [Priority -> Seq(Contexts)]
        /\ length' \in [Priority -> Nat]
        /\ QueueInv'
    BY <1>6, LinkProperties
  <2>2. /\ whichq' = [whichq EXCEPT ![c] = p]
        /\ state' = [state EXCEPT ![c] = "Ready"]
        /\ prio' = [prio EXCEPT ![c] = p]
    BY <1>6 DEF Link
  <2>3. TypeOK'
    BY <1>1, <1>2, <1>3, <1>4, <1>6, <2>1, <2>2, ZenonT(30) DEF TypeOK, ContextState
  <2>4. OwnerInv'
    <3>1. CASE state[c] # "Paused" /\ UNCHANGED <<thread, ctx>>
      BY <1>2, <1>6, <2>2, <3>1, InvokersAssumption DEF OwnerInv, OneInvoker, TypeOK
    <3>2. CASE /\ state[c] = "Paused" /\ p = IMMEDIATE
               /\ ctx' = [i \in Invokers |-> IF i = thread[c] THEN Nil ELSE ctx[i]]
               /\ thread' = [thread EXCEPT ![c] = Nil]
      <4>1. PICK i \in Invokers : thread[c] = i /\ ctx[i] = c
        BY <3>2 DEF OwnerInv, OneInvoker, TypeOK
      <4>2. ctx' = [ctx EXCEPT ![i] = Nil]
        BY <3>2, <4>1 DEF TypeOK
      <4>3. pc[i] = "Paused"
        <5>1. pc[i] \in InvokerPc /\ ctx[i] # Nil
          BY <4>1, ContextsAssumption DEF TypeOK
        <5>2. pc[i] \notin {"Process", "PriMsg", "StdMsg"}
          BY <3>2, <4>1 DEF OwnerInv, OneInvoker
        <5>3. pc[i] \notin {"Idle", "Find", "Exited"}
          BY <5>1 DEF OwnerInv
        <5> QED BY <5>1, <5>2, <5>3 DEF InvokerPc
      <4> QED BY <1>2, <2>2, <3>2, <4>1, <4>2, <4>3, Release
    <3> QED BY <1>6, <3>1, <3>2
  <2>5. MsgInv'
    <3>1. \A i \in Invokers : ctx'[i] # Nil => ctx'[i] = ctx[i]
      BY <1>6 DEF TypeOK
    <3>2. \A i \in Invokers : pc[i] \in {"PriMsg", "StdMsg"} =>
            ctx[i] \in Contexts /\ ctx'[i] = ctx[i]
      BY <1>2, <2>4, <3>1 DEF OwnerInv, OneInvoker, TypeOK
    <3>3. /\ state'[c] = "Ready" /\ prio'[c] = p
          /\ \A d \in Contexts :
               d # c => state'[d] = state[d] /\ prio'[d] = prio[d]
      BY <2>2 DEF TypeOK
    <3>4. ASSUME NEW d \in Contexts
          PROVE  /\ state'[d] \in {"Free", "Dormant"} => priMsgq'[d] = <<>> /\ stdMsgq'[d] = <<>>
                 /\ state'[d] = "Ready" => priMsgq'[d] # <<>> \/ stdMsgq'[d] # <<>>
                 /\ priMsgq'[d] # <<>> =>
                      /\ state'[d] # "Paused"
                      /\ state'[d] = "Ready" => prio'[d] = IMMEDIATE
                 /\ state'[d] \in {"Ready", "Paused", "Running"} /\ prio'[d] = IMMEDIATE =>
                      priMsgq'[d] # <<>>
      <4>1. CASE d # c
        <5>1. /\ priMsgq'[d] = priMsgq[d] /\ stdMsgq'[d] = stdMsgq[d]
              /\ state'[d] = state[d] /\ prio'[d] = prio[d]
          BY <1>1, <3>3, <4>1
        <5> QED BY <5>1 DEF MsgInv, NoStrandedMsg, ImmediateFirst
      <4>2. CASE d = c
        <5>1. p # IMMEDIATE => priMsgq[c] = <<>>
          BY <1>6 DEF MsgInv, NoStrandedMsg, ImmediateFirst
        <5> QED BY <1>1, <3>3, <4>2, <5>1
      <4> QED BY <4>1, <4>2
    <3>5. ASSUME NEW j \in Invokers
          PROVE  /\ pc'[j] = "PriMsg" => priMsgq'[ctx'[j]] # <<>>
                 /\ pc'[j] = "StdMsg" => stdMsgq'[ctx'[j]] # <<>>
      BY <1>1, <1>2, <3>2 DEF MsgInv
    <3> QED BY <3>4, <3>5 DEF MsgInv, NoStrandedMsg, ImmediateFirst
  <2> QED BY <1>3, <1>4, <2>1, <2>3, <2>4, <2>5
<1>7. CASE EnqueueRunning(c, p, "RestartNil")
  BY <1>5, <1>7 DEF EnqueueRunning, workVars
<1>8. CASE EnqueueDormant(c, p)
  BY <1>6, <1>8 DEF EnqueueDormant
<1>9. CASE EnqueueReady(c, p)
  <2>1. CASE ~(p = IMMEDIATE /\ prio[c] # IMMEDIATE)
    BY <1>5, <1>9, <2>1 DEF EnqueueReady, workVars
  <2>2. CASE p = IMMEDIATE /\ prio[c] # IMMEDIATE
    <3>1. /\ workq' \in [Priority -> Seq(Contexts)]
          /\ length' \in [Priority -> Nat]
          /\ whichq' = [whichq EXCEPT ![c] = IMMEDIATE]
          /\ prio' = [prio EXCEPT ![c] = IMMEDIATE]
          /\ thread' = [thread EXCEPT ![c] = Nil]
          /\ UNCHANGED <<state, ctx>>
          /\ QueueInv'
      BY <1>9, <2>2, MoveProperties DEF EnqueueReady
    <3>2. state[c] = "Ready" /\ thread' = thread
      <4>1. state[c] = "Ready"
        BY <1>9 DEF EnqueueReady
      <4>2. thread[c] = Nil
        BY <4>1 DEF OwnerInv, OneInvoker
      <4> QED BY <3>1, <4>1, <4>2 DEF TypeOK
    <3>3. TypeOK'
      BY <1>1, <1>2, <1>3, <1>4, <2>2, <3>1, <3>2 DEF TypeOK
    <3>4. OwnerInv'
      BY <1>2, <3>1, <3>2 DEF OwnerInv, OneInvoker
    <3>5. MsgInv'
      <4>1. \A d \in Contexts : d # c => prio'[d] = prio[d]
        BY <3>1 DEF TypeOK
      <4>2. prio'[c] = IMMEDIATE /\ priMsgq'[c] # <<>> /\ state'[c] = "Ready"
        BY <1>1, <2>2, <3>1, <3>2 DEF TypeOK
      <4>3. NoStrandedMsg' /\ ImmediateFirst'
        BY <1>1, <3>1, <4>1, <4>2 DEF MsgInv, NoStrandedMsg, ImmediateFirst
      <4>4. ASSUME NEW i \in Invokers
            PROVE  /\ pc'[i] = "PriMsg" => priMsgq'[ctx'[i]] # <<>>
                   /\ pc'[i] = "StdMsg" => stdMsgq'[ctx'[i]] # <<>>
        <5>1. pc[i] \in {"PriMsg", "StdMsg"} => ctx[i] \in Contexts
          BY DEF OwnerInv, OneInvoker, TypeOK
        <5> QED BY <1>1, <1>2, <3>1, <5>1 DEF MsgInv
      <4>5. \A d \in Contexts :
              state'[d] \in {"Ready", "Paused", "Running"} /\ prio'[d] = IMMEDIATE =>
                priMsgq'[d] # <<>>
        BY <1>1, <3>1, <4>1, <4>2 DEF MsgInv
      <4> QED BY <4>3, <4>4, <4>5 DEF MsgInv
    <3> QED BY <1>3, <1>4, <3>1, <3>3, <3>4, <3>5
  <2> QED BY <2>1, <2>2
<1>10. CASE EnqueuePaused(c, p)
  <2>1. prio[c] # IMMEDIATE
    BY <1>10 DEF EnqueuePaused, MsgInv, ImmediateFirst
  <2>2. CASE p = IMMEDIATE
    BY <1>6, <1>10, <2>1, <2>2 DEF EnqueuePaused
  <2>3. CASE p # IMMEDIATE
    BY <1>5, <1>10, <2>3 DEF EnqueuePaused, workVars
  <2> QED BY <2>2, <2>3
<1> QED BY <1>2, <1>7, <1>8, <1>9, <1>10 DEF Enqueue

-----------------------------------------------------------------------------
(* Theorems                                                                 *)

\* Every step preserves the invariant.
LEMMA NextInv == IInv /\ [Next]_vars => IInv'
<1> SUFFICES ASSUME IInv, [Next]_vars PROVE IInv'
  OBVIOUS
<1>1. CASE Arrival("RestartNil")
  <2>1. PICK c \in Contexts, m \in Msgs, p \in MsgPriorities :
          ReceiveMsg(c, m, p, "RestartNil")
    BY <1>1 DEF Arrival, ReceiveBuff, SendMsg
  <2>2. p \in Priority
    BY PriorityAssumption
  <2> QED BY <2>1, <2>2, ReceiveMsgInv
<1>2. CASE ScheduleIO \/ SuspendIO
  BY <1>2, InputInv
<1>3. ASSUME NEW i \in Invokers, Invoker(i) PROVE IInv'
  <2>1. CASE RunInvoker(i)
    BY <2>1, StartWorkInv, NoWorkInv, NextMsgInv, ResumeContextInv
    DEF RunInvoker
  <2>2. CASE EndMsg(i)
    BY <2>2, EndContextInv, EndPriMsgInv, EndStdMsgInv DEF EndMsg
  <2>3. CASE BlockInMsg(i, "BlockedOnClock") \/ BlockInMsg(i, "BlockedOnDatabase")
    BY <2>3, BlockInMsgInv
  <2>4. CASE Wakeup(i) \/ ScheduleIn(i) \/ StopTimer(i)
    BY <2>4, WakeupInv, ScheduleInInv, StopTimerInv
  <2>5. CASE Recover(i) \/ Exit(i) \/ Recreate(i)
    BY <2>5, RecoverInv, ExitInv, RecreateInv
  <2> QED BY <1>3, <2>1, <2>2, <2>3, <2>4, <2>5 DEF Invoker
<1>4. CASE UNCHANGED vars
  <2> USE <1>4 DEF vars, ctxVars, workVars, invVars
  <2>1. TypeOK' /\ ThreadInv' /\ WorkIsNoticed' /\ NoLockout'
    BY DEF IInv, TypeOK, ThreadInv, WorkIsNoticed, NoLockout
  <2>2. OwnerInv' /\ QueueInv'
    BY DEF IInv, OwnerInv, OneInvoker, QueueInv
  <2>3. MsgInv'
    BY DEF IInv, MsgInv, NoStrandedMsg, ImmediateFirst
  <2> QED BY <2>1, <2>2, <2>3 DEF IInv
<1> QED BY <1>1, <1>2, <1>3, <1>4 DEF Next

\* The invariant holds in every reachable state, for any invokers, contexts and messages.
THEOREM InductiveInvariant == Spec => []IInv
BY InitInv, NextInv, PTL DEF Spec

\* The types of the variables, for any number of invokers, contexts and messages.
THEOREM TypeCorrect == Spec => []TypeOK
BY InductiveInvariant, PTL DEF IInv

\* A context is processed by at most one invoker, which agrees that it owns it.
THEOREM Ownership == Spec => []OneInvoker
BY InductiveInvariant, PTL DEF IInv, OwnerInv

\* Work queues hold the ready contexts, once, and their lengths are accurate.
THEOREM Queues == Spec => []QueueConsistent
<1>1. IInv => QueueConsistent
  <2> SUFFICES ASSUME IInv PROVE QueueConsistent
    OBVIOUS
  <2>1. ASSUME NEW p \in Priority, NEW k \in DOMAIN workq[p]
        PROVE  /\ state[workq[p][k]] = "Ready"
               /\ prio[workq[p][k]] = p
               /\ \A j \in DOMAIN workq[p] : workq[p][j] = workq[p][k] => j = k
    <3>1. /\ workq[p] \in Seq(Contexts)
          /\ DOMAIN workq[p] = 1 .. Len(workq[p])
          /\ workq[p][k] \in Contexts
      BY <2>1, LenProperties DEF IInv, TypeOK
    <3>2. In(workq[p], workq[p][k]) /\ Distinct(workq[p])
      BY <2>1, <3>1 DEF IInv, QueueInv, In
    <3> QED BY <2>1, <3>1, <3>2 DEF IInv, QueueInv, Distinct
  <2>2. ASSUME NEW c \in Contexts, state[c] = "Ready"
        PROVE  \E k \in DOMAIN workq[prio[c]] : workq[prio[c]][k] = c
    <3>1. prio[c] \in Priority
      BY DEF IInv, TypeOK
    <3>2. DOMAIN workq[prio[c]] = 1 .. Len(workq[prio[c]])
      BY <3>1, LenProperties DEF IInv, TypeOK
    <3> QED BY <2>2, <3>1, <3>2 DEF IInv, QueueInv, In
  <2> QED BY <2>1, <2>2 DEF QueueConsistent, IInv, QueueInv
<1> QED BY <1>1, InductiveInvariant, PTL

\* No message waits in a context that no invoker will look at.
THEOREM NoneStranded == Spec => []NoStrandedMsg
<1>1. IInv => NoStrandedMsg
  BY DEF IInv, MsgInv
<1> QED BY <1>1, InductiveInvariant, PTL

\* A context with an immediate message waits on the queue for immediate work, or
\* is processed.
THEOREM ImmediateAhead == Spec => []ImmediateFirst
<1>1. IInv => ImmediateFirst
  BY DEF IInv, MsgInv
<1> QED BY <1>1, InductiveInvariant, PTL

\* Queued work always has an invoker that will look for it.
THEOREM Noticed == Spec => []WorkIsNoticed
BY InductiveInvariant, PTL DEF IInv

\* Some invoker is always free of database operations.
THEOREM Lockout == Spec => []NoLockout
BY InductiveInvariant, PTL DEF IInv

-----------------------------------------------------------------------------
(* An invoker never looks in vain for a message                             *)

\* NeverInVain, that only the thread that runs is about to look for a message, and
\* that a context only pauses with work to come back to.
VainInv ==
    /\ NeverInVain
    /\ \A i \in Invokers : pc[i] = "Process" => active = i
    /\ \A c \in Contexts : state[c] = "Paused" => stdMsgq[c] # <<>>

\* A step after which no invoker is about to look for a message, and that leaves
\* the contexts that are paused with their messages, preserves VainInv.
LEMMA NobodyLooks ==
    ASSUME \A j \in Invokers : pc'[j] # "Process",
           \A c \in Contexts : state'[c] = "Paused" => stdMsgq'[c] # <<>>
    PROVE  VainInv'
BY DEF VainInv, NeverInVain

\* A step that takes the running invoker to the head of the loop of
\* Context::ProcessWork, in a context that has a message, preserves VainInv.
LEMMA RunnerLooks ==
    ASSUME IInv, VainInv, NEW i \in Invokers, active = i,
           UNCHANGED active,
           pc' = [pc EXCEPT ![i] = "Process"],
           priMsgq'[frame'[i]] # <<>> \/ stdMsgq'[frame'[i]] # <<>>,
           \A c \in Contexts : state'[c] = "Paused" => stdMsgq'[c] # <<>>
    PROVE  VainInv'
<1>1. ASSUME NEW j \in Invokers, pc'[j] = "Process" PROVE j = i
  <2>1. CASE j # i
    BY <1>1, <2>1 DEF IInv, TypeOK, VainInv
  <2> QED BY <2>1
<1> QED BY <1>1 DEF VainInv, NeverInVain

\* The arrival of a message preserves VainInv: no invoker is at the head of its loop.
LEMMA ReceiveMsgVain ==
    ASSUME IInv, VainInv, \A j \in Invokers : pc[j] # "Process",
           NEW c \in Contexts, NEW m \in Msgs, NEW p \in Priority,
           ReceiveMsg(c, m, p, "RestartNil")
    PROVE  VainInv'
<1>1. pc' = pc
  BY DEF ReceiveMsg
<1>2. \A d \in Contexts : stdMsgq[d] # <<>> => stdMsgq'[d] # <<>>
  <2>1. stdMsgq[c] \in Seq(Msgs)
    BY DEF IInv, TypeOK
  <2>2. Append(stdMsgq[c], m) # <<>>
    BY <2>1, AppendProperties, EmptySeq
  <2> QED BY <2>2 DEF ReceiveMsg, IInv, TypeOK
<1>3. \A d \in Contexts : state'[d] = "Paused" => state[d] = "Paused"
  BY DEF ReceiveMsg, Enqueue, EnqueueRunning, EnqueueDormant, EnqueueReady, EnqueuePaused,
         Link, IInv, TypeOK
<1> QED BY <1>1, <1>2, <1>3, NobodyLooks DEF VainInv

\* Invokers that look for work, take the next message or resume preserve VainInv.
LEMMA RunInvokerVain ==
    ASSUME IInv, VainInv, NEW i \in Invokers, RunInvoker(i)
    PROVE  VainInv'
<1> USE DEF Run
<1>1. active = i /\ \A j \in Invokers : pc[j] = "Process" => j = i
  BY DEF RunInvoker, StartWork, NoWork, NextMsg, ResumeContext, VainInv
<1>2. CASE StartWork(i)
  <2>1. PICK p \in Priority :
          LET c == Head(workq[p])
          IN  /\ workq[p] # <<>>
              /\ state' = [state EXCEPT ![c] = "Running"]
              /\ frame' = [frame EXCEPT ![i] = c]
              /\ pc' = [pc EXCEPT ![i] = "Process"]
    BY <1>2 DEF StartWork
  <2> DEFINE c == Head(workq[p])
  <2>2. c \in Contexts /\ state[c] = "Ready"
    BY <2>1, HeadProperties DEF IInv, TypeOK, QueueInv
  <2>3. priMsgq[c] # <<>> \/ stdMsgq[c] # <<>>
    BY <2>2 DEF IInv, MsgInv, NoStrandedMsg
  <2>4. UNCHANGED <<priMsgq, stdMsgq, active>>
    BY <1>2 DEF StartWork
  <2>5. frame'[i] = c
    BY <2>1 DEF IInv, TypeOK
  <2>6. \A d \in Contexts : state'[d] = "Paused" => state[d] = "Paused"
    BY <2>1, <2>2 DEF IInv, TypeOK
  <2> HIDE DEF c
  <2> QED BY <1>1, <2>1, <2>3, <2>4, <2>5, <2>6, RunnerLooks DEF VainInv
<1>3. CASE NoWork(i)
  <2>1. \A j \in Invokers : pc'[j] # "Process"
    BY <1>1, <1>3 DEF NoWork, Block, IInv, TypeOK
  <2> QED BY <1>3, <2>1, NobodyLooks DEF NoWork, ctxVars, VainInv
<1>4. CASE NextMsg(i)
  <2>1. \A j \in Invokers : pc'[j] # "Process"
    BY <1>1, <1>4 DEF NextMsg, IInv, TypeOK
  <2> QED BY <1>4, <2>1, NobodyLooks DEF NextMsg, ctxVars, VainInv
<1>5. CASE ResumeContext(i)
  <2>1. CASE ctx[i] # frame[i]
    <3>1. Return(i) /\ UNCHANGED <<ctxVars, workVars>>
      BY <1>5, <2>1 DEF ResumeContext
    <3>2. \A j \in Invokers : pc'[j] # "Process"
      BY <1>1, <3>1, ReturnProperties, ZenonT(30) DEF IInv, TypeOK
    <3> QED BY <3>1, <3>2, NobodyLooks DEF ctxVars, VainInv
  <2>2. CASE ctx[i] = frame[i]
    <3> DEFINE c == frame[i]
    <3>1. /\ state' = [state EXCEPT ![c] = "Running"]
          /\ Continue(i, "Process")
          /\ UNCHANGED <<priMsgq, stdMsgq>>
      BY <1>5, <2>2 DEF ResumeContext
    <3>2. c \in Contexts /\ state[c] = "Paused"
      BY <1>5, <2>2 DEF ResumeContext, IInv, OwnerInv, TypeOK
    <3>3. stdMsgq[c] # <<>>
      BY <3>2 DEF VainInv
    <3>4. pc' = [pc EXCEPT ![i] = "Process"] /\ UNCHANGED <<frame, active>>
      BY <3>1 DEF Continue
    <3>5. \A d \in Contexts : state'[d] = "Paused" => state[d] = "Paused"
      BY <3>1, <3>2 DEF IInv, TypeOK
    <3> QED BY <1>1, <3>1, <3>3, <3>4, <3>5, RunnerLooks DEF VainInv
  <2> QED BY <2>1, <2>2
<1> QED BY <1>2, <1>3, <1>4, <1>5 DEF RunInvoker

\* The end of a transaction preserves VainInv: the invoker goes on in a context that
\* has another message, pauses in one, or leaves it.
LEMMA EndMsgVain ==
    ASSUME IInv, VainInv, NEW i \in Invokers, EndMsg(i)
    PROVE  VainInv'
<1> DEFINE c == frame[i]
<1>1. /\ active = i /\ pc[i] \in {"PriMsg", "StdMsg"}
      /\ \A j \in Invokers : pc[j] # "Process"
  BY DEF EndMsg, EndContext, EndPriMsg, EndStdMsg, Run, InProcessIcMsg, VainInv
<1>2. c \in Contexts /\ state[c] = "Running"
  BY <1>1, Serving DEF IInv
<1> HIDE DEF c
<1>3. ASSUME Return(i) PROVE \A j \in Invokers : pc'[j] # "Process"
  BY <1>1, <1>3, ReturnProperties DEF IInv, TypeOK
<1>4. CASE EndContext(i)
  <2>1. Delete(c) /\ Return(i)
    BY <1>4 DEF EndContext, c
  <2>2. \A d \in Contexts :
          state'[d] = "Paused" => state[d] = "Paused" /\ stdMsgq'[d] = stdMsgq[d]
    BY <1>2, <2>1 DEF Delete, IInv, TypeOK
  <2> QED BY <1>3, <2>1, <2>2, NobodyLooks DEF VainInv
<1>5. CASE EndPriMsg(i)
  <2>1. /\ priMsgq' = [priMsgq EXCEPT ![c] = Tail(priMsgq[c])]
        /\ UNCHANGED stdMsgq
        /\ \/ Return(i)
           \/ Tail(priMsgq[c]) # <<>> /\ UNCHANGED state /\ Continue(i, "Process")
    BY <1>5 DEF EndPriMsg, c
  <2>2. \A d \in Contexts : state'[d] = "Paused" => state[d] = "Paused"
    BY <1>2, <1>5 DEF EndPriMsg, Link, IInv, TypeOK, c
  <2>3. CASE Return(i)
    BY <1>3, <2>1, <2>2, <2>3, NobodyLooks DEF VainInv
  <2>4. CASE Tail(priMsgq[c]) # <<>> /\ Continue(i, "Process")
    <3>1. pc' = [pc EXCEPT ![i] = "Process"] /\ UNCHANGED <<frame, active>>
      BY <2>4 DEF Continue
    <3>2. priMsgq'[frame'[i]] # <<>>
      BY <1>2, <2>1, <2>4, <3>1 DEF c, IInv, TypeOK
    <3> QED BY <1>1, <2>1, <2>2, <3>1, <3>2, RunnerLooks DEF VainInv
  <2> QED BY <2>1, <2>3, <2>4
<1>6. CASE EndStdMsg(i)
  <2> DEFINE rest == Tail(stdMsgq[c])
  <2>1. stdMsgq' = [stdMsgq EXCEPT ![c] = rest] /\ UNCHANGED priMsgq
    BY <1>6 DEF EndStdMsg, c
  <2>2. \/ state' = [state EXCEPT ![c] = "Dormant"] /\ Return(i)
        \/ /\ rest # <<>>
           /\ state' = [state EXCEPT ![c] = "Paused"]
           /\ Block(i, "BlockedOnClock", "Paused")
        \/ /\ priMsgq[c] # <<>> \/ rest # <<>>
           /\ UNCHANGED state
           /\ Continue(i, "Process")
    BY <1>6 DEF EndStdMsg, c
  <2>3. stdMsgq'[c] = rest
    BY <1>2, <2>1 DEF IInv, TypeOK
  <2> HIDE DEF rest
  <2>4. \A d \in Contexts : state'[d] = "Paused" => stdMsgq'[d] # <<>>
    BY <1>2, <2>1, <2>2, <2>3 DEF VainInv, IInv, TypeOK
  <2>5. CASE Return(i)
    BY <1>3, <2>4, <2>5, NobodyLooks
  <2>6. CASE Block(i, "BlockedOnClock", "Paused")
    <3>1. \A j \in Invokers : pc'[j] # "Process"
      BY <1>1, <2>6 DEF Block, IInv, TypeOK
    <3> QED BY <2>4, <3>1, NobodyLooks
  <2>7. CASE (priMsgq[c] # <<>> \/ rest # <<>>) /\ Continue(i, "Process")
    <3>1. pc' = [pc EXCEPT ![i] = "Process"] /\ UNCHANGED <<frame, active>>
      BY <2>7 DEF Continue
    <3>2. priMsgq'[frame'[i]] # <<>> \/ stdMsgq'[frame'[i]] # <<>>
      BY <2>1, <2>3, <2>7, <3>1 DEF c
    <3> QED BY <1>1, <2>4, <3>1, <3>2, RunnerLooks
  <2> QED BY <2>2, <2>5, <2>6, <2>7
<1> QED BY <1>4, <1>5, <1>6 DEF EndMsg

\* A thread that traps or exits, and its replacement, preserve VainInv: the context
\* that it deletes is not the one of the thread that runs.
LEMMA ExitVain ==
    ASSUME IInv, VainInv, NEW i \in Invokers, Recover(i) \/ Exit(i)
    PROVE  VainInv'
<1>1. /\ DropContext(i)
      /\ frame' = [frame EXCEPT ![i] = Nil]
      /\ pc' = [pc EXCEPT ![i] = IF Recover(i) THEN "Find" ELSE "Exited"]
  BY DEF Recover, Exit, Block
<1>2. \A d \in Contexts :
        /\ state'[d] = "Paused" => state[d] = "Paused"
        /\ ctx[i] # d => stdMsgq'[d] = stdMsgq[d] /\ priMsgq'[d] = priMsgq[d]
        /\ ctx[i] = d => state'[d] # "Paused"
  <2>1. CASE ctx[i] = Nil
    BY <1>1, <2>1, ContextsAssumption DEF DropContext, ctxVars, IInv, TypeOK
  <2>2. CASE ctx[i] # Nil
    <3>1. ctx[i] \in Contexts /\ Delete(ctx[i])
      BY <1>1, <2>2 DEF DropContext, IInv, TypeOK
    <3> QED BY <3>1 DEF Delete, IInv, TypeOK
  <2> QED BY <2>1, <2>2
<1>3. ASSUME NEW j \in Invokers, pc'[j] = "Process"
      PROVE  /\ active' = j
             /\ priMsgq'[frame'[j]] # <<>> \/ stdMsgq'[frame'[j]] # <<>>
  <2>1. j # i /\ pc[j] = "Process"
    BY <1>1, <1>3 DEF IInv, TypeOK
  <2>2. active = j
    BY <2>1 DEF VainInv
  <2>3. active' = j
    BY <2>1, <2>2 DEF Recover, Exit, Run
  <2>4. frame[j] \in Contexts /\ frame'[j] = frame[j] /\ ctx[i] # frame[j]
    BY <1>1, <2>1, Serving DEF IInv, TypeOK
  <2> QED BY <1>2, <2>1, <2>3, <2>4 DEF VainInv, NeverInVain
<1> QED BY <1>2, <1>3 DEF VainInv, NeverInVain

\* Every step preserves VainInv.
LEMMA NextVain == IInv /\ VainInv /\ [Next]_vars => VainInv'
<1> SUFFICES ASSUME IInv, VainInv, [Next]_vars PROVE VainInv'
  OBVIOUS
<1>1. CASE Arrival("RestartNil")
  <2>1. \A j \in Invokers : pc[j] # "Process"
    BY <1>1, InvokersAssumption
    DEF Arrival, ReceiveBuff, SendMsg, Run, InProcessIcMsg, VainInv
  <2>2. PICK c \in Contexts, m \in Msgs, p \in MsgPriorities :
          ReceiveMsg(c, m, p, "RestartNil")
    BY <1>1 DEF Arrival, ReceiveBuff, SendMsg
  <2>3. p \in Priority
    BY PriorityAssumption
  <2> QED BY <2>1, <2>2, <2>3, ReceiveMsgVain
<1>2. CASE ScheduleIO \/ SuspendIO
  <2>1. \A j \in Invokers : pc'[j] # "Process"
    BY <1>2, InvokersAssumption DEF ScheduleIO, SuspendIO, invVars, VainInv
  <2> QED BY <1>2, <2>1, NobodyLooks DEF ScheduleIO, SuspendIO, ctxVars, VainInv
<1>3. ASSUME NEW i \in Invokers, Invoker(i) PROVE VainInv'
  <2>1. CASE RunInvoker(i)
    BY <2>1, RunInvokerVain
  <2>2. CASE EndMsg(i)
    BY <2>2, EndMsgVain
  <2>3. CASE BlockInMsg(i, "BlockedOnClock") \/ BlockInMsg(i, "BlockedOnDatabase")
    <3>1. \A j \in Invokers : pc'[j] # "Process"
      BY <2>3 DEF BlockInMsg, Block, Run, InProcessIcMsg, VainInv, IInv, TypeOK
    <3> QED BY <2>3, <3>1, NobodyLooks DEF BlockInMsg, ctxVars, VainInv
  <2>4. CASE Wakeup(i) \/ Recreate(i)
    <3>1. pc[i] # "Process" /\ pc'[i] # "Process"
      BY <2>4 DEF Wakeup, Recreate, VainInv, IInv, ThreadInv, TypeOK
    <3>2. /\ \A j \in Invokers : j # i => pc'[j] = pc[j]
          /\ UNCHANGED <<ctxVars, frame, active>>
      BY <2>4 DEF Wakeup, Recreate, IInv, TypeOK
    <3> QED BY <3>1, <3>2 DEF VainInv, NeverInVain, ctxVars
  <2>5. CASE ScheduleIn(i)
    <3>1. \A j \in Invokers : pc'[j] # "Process"
      BY <2>5, InvokersAssumption DEF ScheduleIn, VainInv
    <3> QED BY <2>5, <3>1, NobodyLooks DEF ScheduleIn, ctxVars, VainInv
  <2>6. CASE StopTimer(i)
    <3>1. \A j \in Invokers : pc'[j] # "Process"
      BY <2>6 DEF StopTimer, Run, InProcessIcMsg, VainInv, invVars
    <3>2. frame[i] \in Contexts /\ state[frame[i]] = "Running" /\ UNCHANGED state
      BY <2>6, Serving DEF StopTimer, Run, InProcessIcMsg, IInv
    <3>3. \A d \in Contexts : state'[d] = "Paused" => stdMsgq'[d] = stdMsgq[d]
      BY <2>6, <3>2 DEF StopTimer, IInv, TypeOK
    <3> QED BY <3>1, <3>2, <3>3, NobodyLooks DEF VainInv
  <2>7. CASE Recover(i) \/ Exit(i)
    BY <2>7, ExitVain
  <2> QED BY <1>3, <2>1, <2>2, <2>3, <2>4, <2>5, <2>6, <2>7 DEF Invoker
<1>4. CASE UNCHANGED vars
  BY <1>4 DEF vars, ctxVars, invVars, VainInv, NeverInVain
<1> QED BY <1>1, <1>2, <1>3, <1>4 DEF Next

\* An invoker that was invoked or has resumed always finds a message: the branch of
\* Context::ProcessWork for a context without messages is never taken.
THEOREM AlwaysMessages == Spec => []NeverInVain
<1>1. Init => VainInv
  BY DEF Init, VainInv, NeverInVain
<1> QED BY <1>1, NextVain, InductiveInvariant, PTL DEF Spec, VainInv

-----------------------------------------------------------------------------
(* The message that each context is processing                              *)

Processes(i) == pc[i] \in InProcessIcMsg
QueueOf(q) == IF q = "PriMsg" THEN "immediate" ELSE "standard"
InProgress == [c \in Contexts |-> Current(c)]

\* A context's message in progress does not change if the invokers that process
\* messages remain the same, in the same contexts.
LEMMA SameMessage ==
    ASSUME \A j \in Invokers, q \in InProcessIcMsg : pc'[j] = q <=> pc[j] = q,
           \A j \in Invokers : Processes(j) => frame'[j] = frame[j]
    PROVE  InProgress' = InProgress
<1>1. ASSUME NEW c \in Contexts, NEW q \in InProcessIcMsg
      PROVE  (\E j \in Invokers : pc'[j] = q /\ frame'[j] = c)
             <=> (\E j \in Invokers : pc[j] = q /\ frame[j] = c)
  BY DEF Processes
<1>2. \A c \in Contexts : Current(c)' = Current(c)
  BY <1>1 DEF Current, InProcessIcMsg
<1> QED BY <1>2 DEF InProgress

\* No other invoker processes a message of a context that an invoker owns.
LEMMA ServesAlone ==
    ASSUME IInv, NEW i \in Invokers, ctx[i] # Nil,
           NEW j \in Invokers, Processes(j), frame[j] = ctx[i]
    PROVE  j = i
<1>1. ctx[j] = ctx[i] /\ thread[frame[j]] = j
  BY Serving DEF IInv, Processes, InProcessIcMsg
<1>2. thread[ctx[i]] = i
  BY DEF IInv, OwnerInv, OneInvoker
<1> QED BY <1>1, <1>2

\* An invoker that processes a message determines what is in progress in its context.
LEMMA ServedMessage ==
    ASSUME IInv, NEW i \in Invokers, Processes(i)
    PROVE  /\ frame[i] \in Contexts /\ ctx[i] = frame[i]
           /\ InProgress[frame[i]] = QueueOf(pc[i])
<1>1. frame[i] \in Contexts /\ ctx[i] = frame[i]
  BY Serving DEF IInv, Processes, InProcessIcMsg
<1>2. ctx[i] # Nil
  BY <1>1, ContextsAssumption
<1>3. ASSUME NEW j \in Invokers, Processes(j), frame[j] = frame[i] PROVE j = i
  BY <1>1, <1>2, <1>3, ServesAlone
<1>4. Current(frame[i]) = QueueOf(pc[i])
  BY <1>3 DEF Current, Processes, InProcessIcMsg, QueueOf
<1> QED BY <1>1, <1>4 DEF InProgress

\* An invoker that is the only one to serve a context C and stops doing so leaves
\* nothing in progress there, and all else as it is.
LEMMA MessageEnds ==
    ASSUME IInv, NEW i \in Invokers, NEW c \in Contexts, ctx[i] = c,
           Processes(i) => frame[i] = c,
           NEW n, n \notin InProcessIcMsg,
           pc' = [pc EXCEPT ![i] = n],
           \A j \in Invokers : j # i => frame'[j] = frame[j]
    PROVE  InProgress' = [InProgress EXCEPT ![c] = "none"]
<1>1. ctx[i] # Nil
  BY ContextsAssumption
<1>2. ASSUME NEW j \in Invokers, Processes(j), j # i PROVE frame[j] # c
  BY <1>1, <1>2, ServesAlone
<1>3. ~Processes(i)' /\ \A j \in Invokers : j # i => pc'[j] = pc[j]
  BY DEF Processes, IInv, TypeOK
<1>4. Current(c)' = "none"
  <2>1. \A j \in Invokers : ~(Processes(j)' /\ frame'[j] = c)
    BY <1>2, <1>3 DEF Processes
  <2> QED BY <2>1 DEF Current, Processes, InProcessIcMsg
<1>5. ASSUME NEW d \in Contexts, d # c PROVE Current(d)' = Current(d)
  <2>1. ASSUME NEW q \in InProcessIcMsg
        PROVE  (\E j \in Invokers : pc'[j] = q /\ frame'[j] = d)
               <=> (\E j \in Invokers : pc[j] = q /\ frame[j] = d)
    <3>1. ASSUME NEW j \in Invokers
          PROVE  pc'[j] = q /\ frame'[j] = d <=> pc[j] = q /\ frame[j] = d
      <4>1. CASE j = i
        BY <1>3, <1>5, <4>1 DEF Processes
      <4>2. CASE j # i
        BY <1>3, <4>2
      <4> QED BY <4>1, <4>2
    <3> QED BY <3>1
  <2> QED BY <2>1 DEF Current, InProcessIcMsg
<1> QED BY <1>4, <1>5 DEF InProgress

\* Likewise for an invoker that begins to process a message of its context, in which
\* nothing was in progress.
LEMMA MessageBegins ==
    ASSUME IInv, NEW i \in Invokers, NEW c \in Contexts, frame[i] = c,
           pc[i] = "Process", pc'[i] \in InProcessIcMsg,
           \A j \in Invokers : j # i => pc'[j] = pc[j],
           frame' = frame
    PROVE  /\ InProgress[c] = "none"
           /\ InProgress' = [InProgress EXCEPT ![c] = QueueOf(pc'[i])]
<1>1. ctx[i] = c /\ ctx[i] # Nil
  BY Serving, ContextsAssumption DEF IInv
<1>2. ~Processes(i)
  BY DEF Processes, InProcessIcMsg
<1>3. ASSUME NEW j \in Invokers, Processes(j) PROVE frame[j] # c /\ j # i
  BY <1>1, <1>2, <1>3, ServesAlone
<1>4. Current(c) = "none"
  BY <1>3 DEF Current, Processes, InProcessIcMsg
<1>5. Current(c)' = QueueOf(pc'[i])
  <2>1. \A j \in Invokers : pc'[j] \in InProcessIcMsg /\ frame'[j] = c => j = i
    BY <1>3 DEF Processes
  <2> QED BY <2>1 DEF Current, InProcessIcMsg, QueueOf
<1>6. ASSUME NEW d \in Contexts, d # c PROVE Current(d)' = Current(d)
  <2>1. ASSUME NEW r \in InProcessIcMsg
        PROVE  (\E j \in Invokers : pc'[j] = r /\ frame'[j] = d)
               <=> (\E j \in Invokers : pc[j] = r /\ frame[j] = d)
    <3>1. ASSUME NEW j \in Invokers
          PROVE  pc'[j] = r /\ frame'[j] = d <=> pc[j] = r /\ frame[j] = d
      <4>1. CASE j = i
        BY <1>6, <4>1
      <4>2. CASE j # i
        BY <4>2
      <4> QED BY <4>1, <4>2
    <3> QED BY <3>1
  <2> QED BY <2>1 DEF Current, InProcessIcMsg
<1> QED BY <1>1, <1>4, <1>5, <1>6 DEF InProgress

-----------------------------------------------------------------------------
(* Each step of the pool is a step of the service, or none                  *)

\* A step that leaves messages alone and the invokers that process them where they
\* are is not visible to contexts.
LEMMA NotVisible ==
    ASSUME UNCHANGED <<priMsgq, stdMsgq, unsent>>, InProgress' = InProgress
    PROVE  UNCHANGED Service!vars
BY DEF Service!vars, InProgress

\* The arrival of a message, whatever it does to the context and to work queues.
LEMMA ReceiveMsgServes ==
    ASSUME NEW c \in Contexts, NEW m \in Msgs, NEW p \in Priority,
           ReceiveMsg(c, m, p, "RestartNil")
    PROVE  Service!Next
<1>1. InProgress' = InProgress
  BY SameMessage DEF ReceiveMsg
<1>2. Service!Arrive(c, m)
  BY <1>1 DEF ReceiveMsg, Service!Arrive, InProgress
<1> QED BY <1>2 DEF Service!Next

\* The search for work, pauses, and the scheduling of threads.
LEMMA SchedulingServes ==
    ASSUME IInv, NEW i \in Invokers,
           \/ StartWork(i) \/ NoWork(i) \/ ResumeContext(i)
           \/ Wakeup(i) \/ ScheduleIn(i) \/ Recreate(i)
           \/ BlockInMsg(i, "BlockedOnClock") \/ BlockInMsg(i, "BlockedOnDatabase")
    PROVE  UNCHANGED Service!vars
<1> USE DEF Processes, InProcessIcMsg, Run, IInv, TypeOK
<1>1. /\ UNCHANGED <<priMsgq, stdMsgq, unsent>>
      /\ \A j \in Invokers : j # i => pc'[j] = pc[j] /\ frame'[j] = frame[j]
      /\ \/ pc' = pc /\ frame' = frame
         \/ ~Processes(i) /\ ~Processes(i)'
  <2>1. CASE StartWork(i)
    BY <2>1 DEF StartWork
  <2>2. CASE NoWork(i)
    BY <2>2 DEF NoWork, Block, ctxVars
  <2>3. CASE ResumeContext(i)
    BY <2>3 DEF ResumeContext, Return, Continue, Block, ctxVars
  <2>4. CASE Wakeup(i)
    BY <2>4 DEF Wakeup, ctxVars
  <2>5. CASE ScheduleIn(i) \/ Recreate(i)
    BY <2>5 DEF ScheduleIn, Recreate, ctxVars
  <2>6. CASE BlockInMsg(i, "BlockedOnClock") \/ BlockInMsg(i, "BlockedOnDatabase")
    BY <2>6 DEF BlockInMsg, Block, ctxVars
  <2> QED BY <2>1, <2>2, <2>3, <2>4, <2>5, <2>6
<1>2. /\ \A j \in Invokers, q \in InProcessIcMsg : pc'[j] = q <=> pc[j] = q
      /\ \A j \in Invokers : Processes(j) => frame'[j] = frame[j]
  BY <1>1
<1>3. InProgress' = InProgress
  BY <1>2, SameMessage
<1> QED BY <1>1, <1>3, NotVisible

\* An invoker that takes the next message begins with the first immediate one, or if
\* there is none with the first standard one.
LEMMA NextMsgServes ==
    ASSUME IInv, NEW i \in Invokers, NextMsg(i)
    PROVE  Service!Next
<1>1. PICK c \in Contexts : frame[i] = c
  BY Serving DEF NextMsg, Run, IInv
<1>2. PICK q \in InProcessIcMsg :
        /\ pc' = [pc EXCEPT ![i] = q]
        /\ q = "PriMsg" => priMsgq[c] # <<>>
        /\ q # "PriMsg" => priMsgq[c] = <<>> /\ stdMsgq[c] # <<>>
  BY <1>1 DEF NextMsg, InProcessIcMsg
<1>3. pc[i] = "Process" /\ frame' = frame /\ UNCHANGED <<priMsgq, stdMsgq, unsent>>
  BY DEF NextMsg, Run, ctxVars
<1>4. /\ InProgress[c] = "none"
      /\ InProgress' = [InProgress EXCEPT ![c] = QueueOf(q)]
  <2>1. pc'[i] = q /\ \A j \in Invokers : j # i => pc'[j] = pc[j]
    BY <1>2 DEF IInv, TypeOK
  <2> QED BY <1>1, <1>3, <2>1, MessageBegins
<1>5. Service!Begin(c)
  BY <1>2, <1>3, <1>4 DEF Service!Begin, InProgress, QueueOf
<1> QED BY <1>5 DEF Service!Next

\* A timeout message that is withdrawn is not the one being processed.
LEMMA StopTimerServes ==
    ASSUME IInv, NEW i \in Invokers, StopTimer(i)
    PROVE  Service!Next
<1>1. Processes(i) /\ UNCHANGED <<priMsgq, unsent, pc, frame>>
  BY DEF StopTimer, Run, Processes, invVars
<1>2. PICK c \in Contexts : frame[i] = c
  BY <1>1, ServedMessage
<1>3. InProgress[c] = QueueOf(pc[i])
  BY <1>1, <1>2, ServedMessage
<1>4. InProgress' = InProgress
  BY <1>1, SameMessage
<1>5. Service!Withdraw(c)
  BY <1>1, <1>2, <1>3, <1>4
  DEF Service!Withdraw, Service!RemoveAt, RemoveAt, StopTimer, InProgress, Processes, InProcessIcMsg, QueueOf
<1> QED BY <1>5 DEF Service!Next

\* An invoker that deletes its context discards the messages.
LEMMA DeleteServes ==
    ASSUME IInv, NEW i \in Invokers, NEW c \in Contexts, ctx[i] = c, Delete(c),
           Processes(i) => frame[i] = c,
           NEW n, n \notin InProcessIcMsg,
           pc' = [pc EXCEPT ![i] = n],
           frame' = [frame EXCEPT ![i] = Nil],
           UNCHANGED unsent
    PROVE  Service!Next
<1>1. \A j \in Invokers : j # i => frame'[j] = frame[j]
  BY DEF IInv, TypeOK
<1>2. InProgress' = [InProgress EXCEPT ![c] = "none"]
  BY <1>1, MessageEnds
<1>3. Service!Discard(c)
  BY <1>2 DEF Service!Discard, Delete, InProgress
<1> QED BY <1>3 DEF Service!Next

\* The end of a transaction removes its message, the first one, or discards them all.
LEMMA EndMsgServes ==
    ASSUME IInv, NEW i \in Invokers, EndMsg(i)
    PROVE  Service!Next
<1>1. Processes(i) /\ active = i
  BY DEF EndMsg, EndContext, EndPriMsg, EndStdMsg, Run, InProcessIcMsg, Processes
<1>2. PICK c \in Contexts : frame[i] = c /\ ctx[i] = c
  BY <1>1, ServedMessage
<1>3. InProgress[c] = QueueOf(pc[i])
  BY <1>1, <1>2, ServedMessage
<1>4. CASE EndContext(i)
  <2>1. Delete(c) /\ Return(i)
    BY <1>2, <1>4 DEF EndContext
  <2>2. /\ pc' = [pc EXCEPT ![i] = "Find"]
        /\ frame' = [frame EXCEPT ![i] = Nil]
        /\ UNCHANGED unsent
    BY <1>1, <2>1, ReturnProperties DEF IInv
  <2>3. "Find" \notin InProcessIcMsg
    BY DEF InProcessIcMsg
  <2> QED BY <1>2, <2>1, <2>2, <2>3, DeleteServes
<1>5. CASE EndPriMsg(i) \/ EndStdMsg(i)
  <2>1. PICK n \in {"Find", "Paused", "Process"} : pc' = [pc EXCEPT ![i] = n]
    BY <1>5 DEF EndPriMsg, EndStdMsg, Return, Continue, Block
  <2>2. /\ \A j \in Invokers : j # i => frame'[j] = frame[j]
        /\ UNCHANGED unsent
    BY <1>5 DEF EndPriMsg, EndStdMsg, Return, Continue, Block, IInv, TypeOK
  <2>3. InProgress' = [InProgress EXCEPT ![c] = "none"]
    BY <1>2, <2>1, <2>2, MessageEnds DEF InProcessIcMsg
  <2>4. CASE EndPriMsg(i)
    <3>1. /\ InProgress[c] = "immediate"
          /\ priMsgq' = [priMsgq EXCEPT ![c] = Tail(@)]
          /\ UNCHANGED stdMsgq
      BY <1>2, <1>3, <2>4 DEF EndPriMsg, Run, QueueOf
    <3> QED BY <2>2, <2>3, <3>1 DEF Service!End, Service!Next, InProgress
  <2>5. CASE EndStdMsg(i)
    <3>1. /\ InProgress[c] = "standard"
          /\ stdMsgq' = [stdMsgq EXCEPT ![c] = Tail(@)]
          /\ UNCHANGED priMsgq
      BY <1>2, <1>3, <2>5 DEF EndStdMsg, Run, QueueOf
    <3> QED BY <2>2, <2>3, <3>1 DEF Service!End, Service!Next, InProgress
  <2> QED BY <1>5, <2>4, <2>5
<1> QED BY <1>4, <1>5 DEF EndMsg

\* A thread that traps or exits discards the messages of the context that it owns,
\* even if it has paused; if it owns none, the service does not notice.
LEMMA ExitServes ==
    ASSUME IInv, NEW i \in Invokers, Recover(i) \/ Exit(i)
    PROVE  Service!Next \/ UNCHANGED Service!vars
<1>1. PICK n \in {"Find", "Exited"} :
        /\ DropContext(i)
        /\ frame' = [frame EXCEPT ![i] = Nil]
        /\ pc' = [pc EXCEPT ![i] = n]
        /\ UNCHANGED unsent
  BY DEF Recover, Exit, Block
<1>2. n \notin InProcessIcMsg
  BY DEF InProcessIcMsg
<1>3. Processes(i) => frame[i] = ctx[i] /\ ctx[i] \in Contexts
  BY ServedMessage
<1>4. CASE ctx[i] = Nil
  <2>1. ~Processes(i)
    BY <1>3, <1>4, ContextsAssumption
  <2>2. /\ \A j \in Invokers, q \in InProcessIcMsg : pc'[j] = q <=> pc[j] = q
        /\ \A j \in Invokers : Processes(j) => frame'[j] = frame[j]
    BY <1>1, <1>2, <2>1 DEF Processes, IInv, TypeOK
  <2>3. UNCHANGED <<priMsgq, stdMsgq>>
    BY <1>1, <1>4 DEF DropContext, ctxVars
  <2> QED BY <1>1, <2>2, <2>3, SameMessage, NotVisible
<1>5. CASE ctx[i] # Nil
  <2>1. PICK c \in Contexts : ctx[i] = c
    BY <1>5 DEF IInv, TypeOK
  <2>2. Delete(c)
    BY <1>1, <1>5, <2>1 DEF DropContext
  <2> QED BY <1>1, <1>2, <1>3, <2>1, <2>2, DeleteServes
<1> QED BY <1>4, <1>5

\* Every step of the pool is a step of the service, or changes nothing that it sees.
LEMMA NextServes == IInv /\ [Next]_vars => [Service!Next]_Service!vars
<1> SUFFICES ASSUME IInv, [Next]_vars PROVE Service!Next \/ UNCHANGED Service!vars
  OBVIOUS
<1>1. CASE Arrival("RestartNil")
  <2>1. PICK c \in Contexts, m \in Msgs, p \in MsgPriorities :
          ReceiveMsg(c, m, p, "RestartNil")
    BY <1>1 DEF Arrival, ReceiveBuff, SendMsg
  <2> QED BY <2>1, PriorityAssumption, ReceiveMsgServes
<1>2. CASE ScheduleIO \/ SuspendIO \/ UNCHANGED vars
  <2>1. UNCHANGED <<priMsgq, stdMsgq, unsent, pc, frame>>
    BY <1>2 DEF ScheduleIO, SuspendIO, vars, ctxVars, invVars
  <2> QED BY <2>1, SameMessage, NotVisible
<1>3. ASSUME NEW i \in Invokers, Invoker(i)
      PROVE  Service!Next \/ UNCHANGED Service!vars
  <2>1. CASE NextMsg(i) \/ EndMsg(i) \/ StopTimer(i)
    BY <2>1, NextMsgServes, EndMsgServes, StopTimerServes
  <2>2. CASE Recover(i) \/ Exit(i)
    BY <2>2, ExitServes
  <2> QED BY <1>3, <2>1, <2>2, SchedulingServes DEF Invoker, RunInvoker
<1> QED BY <1>1, <1>2, <1>3 DEF Next

\* A pool of any number of invokers processes each context's messages one at a time,
\* in order and immediate ones first (Context.h, InvokerPool.h).
THEOREM Refinement == Spec => ServesContexts
<1>1. Init => Service!Init
  BY DEF Init, Service!Init, Current
<1> QED BY <1>1, NextServes, InductiveInvariant, PTL DEF Spec, ServesContexts, Service!Spec
=============================================================================
