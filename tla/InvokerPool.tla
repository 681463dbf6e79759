---------------------------- MODULE InvokerPool ----------------------------
(* The work queues of a SessionBase invoker pool, the contexts that wait on *)
(* them and the invoker threads that service them: sb/InvokerPool.cpp,      *)
(* sb/Context.cpp, sb/InvokerThread.cpp.                                    *)
(*                                                                          *)
(* Invokers and the I/O threads run unpreemptably: at most one of them runs *)
(* ("active") until it enters a blocking operation, so what one of them     *)
(* does between two blocking operations is not interleaved with the others. *)
(* How the scheduler provides that is the subject of module Scheduler.      *)
EXTENDS Integers, Sequences, SequencesExt

CONSTANTS
    Invokers,       \* the invoker threads of the pool
    Contexts,       \* the blocks of the context pool
    Msgs,           \* the messages that arrive, each of them once
    MsgPriorities,  \* the priorities that these messages have
    MaxDeaths,      \* bound on the number of times that an invoker exits
    Nil, IO         \* nullptr, and the thread that receives from the network

\* MsgPriority (sb/SbTypes.h)
INGRESS == 0
EGRESS == 1
PROGRESS == 2
IMMEDIATE == 3
Priority == INGRESS .. IMMEDIATE

ASSUME InvokersAssumption == Invokers # {} /\ Nil \notin Invokers /\ IO \notin Invokers
ASSUME ContextsAssumption == Nil \notin Contexts /\ IO # Nil
ASSUME PriorityAssumption == MsgPriorities \subseteq Priority
ASSUME DeathsAssumption == MaxDeaths \in Nat

VARIABLES
    state,    \* Context::state_, "Free" when the block is on the free queue
    whichq,   \* Context::whichq_, identified by its priority
    prio,     \* Context::prio_
    priMsgq,  \* Context::priMsgq_
    stdMsgq,  \* Context::stdMsgq_
    thread,   \* Context::thread_
    workq,    \* InvokerWork::contextq_
    length,   \* InvokerWork::length_
    ctx,      \* InvokerThread::ctx_
    frame,    \* "this" in the Context::ProcessWork on the invoker's stack
    pc,       \* what the invoker does, or will do when it next runs
    blocked,  \* Thread::blocked_
    waiting,  \* Thread::waiting_
    event,    \* the interrupt that will end the thread's next Delay
    active,   \* the thread that runs unpreemptably
    unsent,   \* the messages that have yet to arrive
    deaths    \* the number of invokers that have exited

ctxVars == <<state, whichq, prio, priMsgq, stdMsgq, thread>>
workVars == <<workq, length>>
invVars == <<ctx, frame, pc, blocked, waiting, event>>
vars == <<ctxVars, workVars, invVars, active, unsent, deaths>>

ContextState == {"Free", "Dormant", "Ready", "Paused", "Running"}
\* Idle: in Pause(TIMEOUT_NEVER).  Find: about to call FindWork.  Process: at
\* the head of the loop in Context::ProcessWork.  PriMsg, StdMsg: in
\* ProcessIcMsg with the first message of that queue.  Paused: in the Pause of
\* Context::ProcessWork.  Exited: the thread no longer exists.
InvokerPc == {"Idle", "Find", "Process", "PriMsg", "StdMsg", "Paused", "Exited"}
BlockingReason == {"NotBlocked", "BlockedOnClock", "BlockedOnDatabase"}

\* The type invariant of the members of Context, InvokerWork and InvokerThread.
TypeOK ==
    /\ state \in [Contexts -> ContextState]
    /\ whichq \in [Contexts -> Priority \cup {Nil}]
    /\ prio \in [Contexts -> Priority]
    /\ priMsgq \in [Contexts -> Seq(Msgs)]
    /\ stdMsgq \in [Contexts -> Seq(Msgs)]
    /\ thread \in [Contexts -> Invokers \cup {Nil}]
    /\ workq \in [Priority -> Seq(Contexts)]
    /\ length \in [Priority -> Nat]
    /\ ctx \in [Invokers -> Contexts \cup {Nil}]
    /\ frame \in [Invokers -> Contexts \cup {Nil}]
    /\ pc \in [Invokers -> InvokerPc]
    /\ blocked \in [Invokers -> BlockingReason]
    /\ waiting \in [Invokers -> BOOLEAN]
    /\ event \in [Invokers -> BOOLEAN]
    /\ active \in Invokers \cup {IO, Nil}
    /\ unsent \in SUBSET Msgs
    /\ deaths \in 0 .. MaxDeaths

(* InvokerPool::Startup has created the threads, which wait to be scheduled *)
(* (Thread::EnterThread) and will then look for work.                       *)
Init ==
    /\ state = [c \in Contexts |-> "Free"]
    /\ whichq = [c \in Contexts |-> Nil]
    /\ prio = [c \in Contexts |-> INGRESS]
    /\ priMsgq = [c \in Contexts |-> <<>>]
    /\ stdMsgq = [c \in Contexts |-> <<>>]
    /\ thread = [c \in Contexts |-> Nil]
    /\ workq = [p \in Priority |-> <<>>]
    /\ length = [p \in Priority |-> 0]
    /\ ctx = [i \in Invokers |-> Nil]
    /\ frame = [i \in Invokers |-> Nil]
    /\ pc = [i \in Invokers |-> "Find"]
    /\ blocked = [i \in Invokers |-> "NotBlocked"]
    /\ waiting = [i \in Invokers |-> TRUE]
    /\ event = [i \in Invokers |-> FALSE]
    /\ active = Nil
    /\ unsent = Msgs
    /\ deaths = 0

-----------------------------------------------------------------------------
(* Work queues                                                              *)

\* Q2Way::Exq of C from whichever queue it is on
Unlink(w, c) == [p \in Priority |-> RemoveFirst(w[p], c)]

\* Mutant of Dequeued: the length is not reduced
DequeuedNever(len, w, p) == len

\* InvokerPool::Dequeued for queue P, which W already shows without the context
Dequeued(len, w, p) ==
    [len EXCEPT ![p] = IF @ > 0 THEN @ - 1 ELSE Len(w[p])]

\* Mutants of Enqueued: an item that is queued is queued again, or only exqueued
EnqueuedAgain(w, c, p, henq) == [w EXCEPT ![p] = Append(@, c)]
EnqueuedOnce(w, c, p, henq) ==
    IF w # Unlink(w, c) THEN Unlink(w, c) ELSE [w EXCEPT ![p] = Append(@, c)]

\* Q2Way::Enq and Henq, which first exqueue an item that is queued
Enqueued(w, c, p, henq) ==
    LET v == Unlink(w, c)
    IN  [v EXCEPT ![p] = IF henq THEN <<c>> \o @ ELSE Append(@, c)]

\* Context::Enqueue, the steps shared by a running and a dormant context
Link(c, p, henq) ==
    /\ workq' = Enqueued(workq, c, p, henq)
    /\ length' = [length EXCEPT ![p] = @ + 1]
    /\ whichq' = [whichq EXCEPT ![c] = p]
    /\ state' = [state EXCEPT ![c] = "Ready"]
    /\ prio' = [prio EXCEPT ![c] = p]

EnqueueRunning(c, p, level) ==
    /\ state[c] = "Running"
    /\ IF level = "RestartNil"
       THEN UNCHANGED <<state, whichq, prio, workVars>>
       ELSE Link(c, p, TRUE)
    /\ UNCHANGED <<thread, ctx>>

\* Mutant of EnqueueDormant: only a new context is enqueued
EnqueueNew(c, p) ==
    /\ state[c] \in {"Free", "Dormant"}
    /\ IF state[c] = "Free"
       THEN Link(c, p, FALSE)
       ELSE UNCHANGED <<state, whichq, prio, workVars>>
    /\ UNCHANGED <<thread, ctx>>

EnqueueDormant(c, p) ==
    /\ state[c] \in {"Free", "Dormant"}
    /\ Link(c, p, FALSE)
    /\ UNCHANGED <<thread, ctx>>

\* A ready context only moves, to the immediate queue, for an immediate message
\* (the screening of its messages by its factory, ScreenIcMsgs, is PotsCall's)
EnqueueReady(c, p) ==
    /\ state[c] = "Ready"
    /\ IF p = IMMEDIATE /\ prio[c] # IMMEDIATE
       THEN LET w == Unlink(workq, c)
                len == Dequeued(length, w, prio[c])
            IN  /\ workq' = [w EXCEPT ![IMMEDIATE] = Append(@, c)]
                /\ length' = [len EXCEPT ![IMMEDIATE] = @ + 1]
                /\ whichq' = [whichq EXCEPT ![c] = IMMEDIATE]
                /\ prio' = [prio EXCEPT ![c] = IMMEDIATE]
                /\ thread' = [thread EXCEPT ![c] = Nil]
       ELSE UNCHANGED <<workVars, whichq, prio, thread>>
    /\ UNCHANGED <<state, ctx>>

\* Mutant of EnqueuePaused: the context stays with its invoker
EnqueuePausedLater(c, p) ==
    /\ state[c] = "Paused"
    /\ UNCHANGED <<state, whichq, prio, workVars, thread, ctx>>

\* A paused context is taken from its invoker, but only for an immediate message
EnqueuePaused(c, p) ==
    /\ state[c] = "Paused"
    /\ IF p = IMMEDIATE /\ prio[c] # IMMEDIATE
       THEN /\ ctx' = [i \in Invokers |-> IF i = thread[c] THEN Nil ELSE ctx[i]]
            /\ thread' = [thread EXCEPT ![c] = Nil]
            /\ Link(c, p, FALSE)
       ELSE UNCHANGED <<state, whichq, prio, workVars, thread, ctx>>

Enqueue(c, p, level) ==
    \/ EnqueueRunning(c, p, level)
    \/ EnqueueDormant(c, p)
    \/ EnqueueReady(c, p)
    \/ EnqueuePaused(c, p)

-----------------------------------------------------------------------------
(* Threads                                                                  *)

\* InvokerPool::ReadyCount; these are also the invokers that can be interrupted
Ready == {i \in Invokers : pc[i] # "Exited" /\ blocked[i] # "BlockedOnDatabase"}

\* Mutant of KickThread: nothing if an invoker could look for work
KickNone ==
    IF Ready # {} THEN UNCHANGED event ELSE event' = [i \in Invokers |-> TRUE]

\* InvokerPool::KickThread: nothing if an invoker is already scheduled, else
\* the first invoker that can be interrupted
KickThread ==
    IF \/ \E i \in Invokers : waiting[i]
       \/ Ready = {}
    THEN UNCHANGED event
    ELSE \E i \in Ready : event' = [event EXCEPT ![i] = TRUE]

\* InvokerPool::ReceiveMsg: the factory finds C, or has just created it, and
\* adds M to its queue.  The default screening of ingress messages does nothing;
\* one that a factory overrides is left out.
ReceiveMsg(c, m, p, level) ==
    /\ m \in unsent
    /\ unsent' = unsent \ {m}
    /\ IF p = IMMEDIATE
       THEN priMsgq' = [priMsgq EXCEPT ![c] = Append(@, m)] /\ UNCHANGED stdMsgq
       ELSE stdMsgq' = [stdMsgq EXCEPT ![c] = Append(@, m)] /\ UNCHANGED priMsgq
    /\ Enqueue(c, p, level)
    /\ KickThread
    /\ UNCHANGED <<frame, pc, blocked, waiting, active, deaths>>

\* An I/O thread runs, may put messages on work queues, and blocks again
ScheduleIO ==
    /\ active = Nil
    /\ active' = IO
    /\ UNCHANGED <<ctxVars, workVars, invVars, unsent, deaths>>

SuspendIO ==
    /\ active = IO
    /\ active' = Nil
    /\ UNCHANGED <<ctxVars, workVars, invVars, unsent, deaths>>

\* (no message of immediate priority comes from another processor)
ReceiveBuff(c, m, p, level) ==
    /\ active = IO
    /\ p # IMMEDIATE
    /\ ReceiveMsg(c, m, p, level)

\* Suspend, after EnterBlockingOperation(WHY): the thread will resume at NEXT
Block(i, why, next) ==
    /\ blocked' = [blocked EXCEPT ![i] = why]
    /\ pc' = [pc EXCEPT ![i] = next]
    /\ active' = Nil

\* The thread is in SysThread::Delay, which an interrupt ends.  A thread that
\* merely yields (Pause with TIMEOUT_IMMED) does not call it.
Delays(i) == blocked[i] = "BlockedOnClock" /\ pc[i] \notin {"Find", "Paused"}

\* ExitBlockingOperation and Ready: the operation ends, and the thread waits to
\* be scheduled.  An idle invoker only wakes up when it is interrupted.
Wakeup(i) ==
    /\ blocked[i] # "NotBlocked"
    /\ pc[i] = "Idle" => event[i]
    /\ blocked' = [blocked EXCEPT ![i] = "NotBlocked"]
    /\ waiting' = [waiting EXCEPT ![i] = TRUE]
    /\ event' = [event EXCEPT ![i] = @ /\ ~Delays(i)]
    /\ pc' = [pc EXCEPT ![i] = IF @ = "Idle" THEN "Find" ELSE @]
    /\ UNCHANGED <<ctxVars, workVars, ctx, frame, active, unsent, deaths>>

ScheduleIn(i) ==
    /\ active = Nil
    /\ waiting[i]
    /\ active' = i
    /\ waiting' = [waiting EXCEPT ![i] = FALSE]
    /\ UNCHANGED <<ctxVars, workVars, ctx, frame, pc, blocked, event, unsent,
                   deaths>>

Run(i, at) == active = i /\ pc[i] \in at

-----------------------------------------------------------------------------
(* Context: the transactions of the invoker that is running                 *)

\* Context::~Context, which also unlinks C from a work queue and its invoker
Delete(c) ==
    LET w == Unlink(workq, c)
    IN  /\ state' = [state EXCEPT ![c] = "Free"]
        /\ workq' = w
        /\ length' = IF whichq[c] = Nil THEN length
                     ELSE Dequeued(length, w, whichq[c])
        /\ whichq' = [whichq EXCEPT ![c] = Nil]
        /\ priMsgq' = [priMsgq EXCEPT ![c] = <<>>]
        /\ stdMsgq' = [stdMsgq EXCEPT ![c] = <<>>]
        /\ thread' = [thread EXCEPT ![c] = Nil]
        /\ UNCHANGED prio

\* Context::ProcessWork returns: the invoker clears its context and then, in
\* InvokerPool::ProcessWork, yields if it has used most of its time.
Return(i) ==
    /\ ctx' = [ctx EXCEPT ![i] = Nil]
    /\ frame' = [frame EXCEPT ![i] = Nil]
    /\ \/ Block(i, "BlockedOnClock", "Find")
       \/ pc' = [pc EXCEPT ![i] = "Find"] /\ UNCHANGED <<blocked, active>>
    /\ UNCHANGED <<waiting, event, unsent, deaths>>

\* The transaction goes on, in this context
Continue(i, next) ==
    /\ ctx' = [ctx EXCEPT ![i] = frame[i]]
    /\ pc' = [pc EXCEPT ![i] = next]
    /\ UNCHANGED <<frame, blocked, waiting, event, active, unsent, deaths>>

\* InvokerPool::FindWork returns the first context on the queue of highest
\* priority, and Context::ProcessWork starts to run on the invoker
StartWork(i) ==
    /\ Run(i, {"Find"})
    /\ \E p \in Priority :
        /\ workq[p] # <<>>
        /\ \A q \in Priority : q > p => workq[q] = <<>>
        /\ LET c == Head(workq[p])
               w == Unlink(workq, c)
               zeroed == [q \in Priority |-> IF q > p THEN 0 ELSE length[q]]
           IN  /\ workq' = w
               /\ length' = Dequeued(zeroed, w, prio[c])
               /\ whichq' = [whichq EXCEPT ![c] = Nil]
               /\ state' = [state EXCEPT ![c] = "Running"]
               /\ thread' = [thread EXCEPT ![c] = i]
               /\ ctx' = [ctx EXCEPT ![i] = c]
               /\ frame' = [frame EXCEPT ![i] = c]
               /\ pc' = [pc EXCEPT ![i] = "Process"]
    /\ UNCHANGED <<prio, priMsgq, stdMsgq, blocked, waiting, event, active,
                   unsent, deaths>>

\* FindWork finds nothing: Pause(TIMEOUT_NEVER)
NoWork(i) ==
    /\ Run(i, {"Find"})
    /\ \A p \in Priority : workq[p] = <<>>
    /\ length' = [p \in Priority |-> 0]
    /\ Block(i, "BlockedOnClock", "Idle")
    /\ UNCHANGED <<ctxVars, workq, ctx, frame, waiting, event, unsent, deaths>>

\* Mutant of NextMsg: standard messages come first
NextStdMsg(i) ==
    LET c == frame[i]
    IN  /\ Run(i, {"Process"})
        /\ \/ stdMsgq[c] # <<>> /\ pc' = [pc EXCEPT ![i] = "StdMsg"]
           \/ stdMsgq[c] = <<>> /\ pc' = [pc EXCEPT ![i] = "PriMsg"]
        /\ UNCHANGED <<ctxVars, workVars, ctx, frame, blocked, waiting, event,
                       active, unsent, deaths>>

\* The head of the loop in Context::ProcessWork selects the next message.  Its branch
\* for a context that has none is only reached after a restart (InvokerRestart).
NextMsg(i) ==
    LET c == frame[i]
    IN  /\ Run(i, {"Process"})
        /\ \/ priMsgq[c] # <<>> /\ pc' = [pc EXCEPT ![i] = "PriMsg"]
           \/ /\ priMsgq[c] = <<>> /\ stdMsgq[c] # <<>>
              /\ pc' = [pc EXCEPT ![i] = "StdMsg"]
        /\ UNCHANGED <<ctxVars, workVars, ctx, frame, blocked, waiting, event,
                       active, unsent, deaths>>

InProcessIcMsg == {"PriMsg", "StdMsg"}

\* The transaction sends a message within the processor, to a context that may be
\* its own.  Message::Send promotes ingress messages to progress.
SendMsg(i, c, m, p, level) ==
    /\ Run(i, InProcessIcMsg)
    /\ p # INGRESS
    /\ ReceiveMsg(c, m, p, level)

\* Mutant of BlockInMsg: blocking is always allowed
BlockAnyone(i, why) ==
    /\ Run(i, InProcessIcMsg)
    /\ Block(i, why, pc[i])
    /\ UNCHANGED <<ctxVars, workVars, ctx, frame, waiting, event, unsent, deaths>>

\* The transaction blocks, unless InvokerThread::BlockingAllowed refuses
BlockInMsg(i, why) ==
    /\ Run(i, InProcessIcMsg)
    /\ \/ why = "BlockedOnClock"
       \/ why = "BlockedOnDatabase" /\ \E j \in Ready : j # i
    /\ Block(i, why, pc[i])
    /\ UNCHANGED <<ctxVars, workVars, ctx, frame, waiting, event, unsent, deaths>>

\* Context::StopTimer deletes a timeout message that is behind the current one
StopTimer(i) ==
    LET c == frame[i]
    IN  /\ Run(i, InProcessIcMsg)
        /\ \E k \in 1 .. Len(stdMsgq[c]) :
             /\ pc[i] = "StdMsg" => k > 1
             /\ stdMsgq' = [stdMsgq EXCEPT ![c] = RemoveAt(@, k)]
        /\ UNCHANGED <<state, whichq, prio, priMsgq, thread, workVars, invVars,
                       active, unsent, deaths>>

\* After ProcessIcMsg, ProcessMsg deletes a context that has become idle
EndContext(i) ==
    /\ Run(i, InProcessIcMsg)
    /\ Delete(frame[i])
    /\ Return(i)

\* After the last immediate message, the context becomes dormant and is requeued
\* on the progress queue (InvokerPool::Requeue) if it has standard messages
EndPriMsg(i) ==
    LET c == frame[i]
        rest == Tail(priMsgq[c])
    IN  /\ Run(i, {"PriMsg"})
        /\ priMsgq' = [priMsgq EXCEPT ![c] = rest]
        /\ UNCHANGED stdMsgq
        /\ \/ /\ rest = <<>> /\ stdMsgq[c] # <<>>
              /\ Link(c, PROGRESS, FALSE)
              /\ thread' = [thread EXCEPT ![c] = Nil]
              /\ Return(i)
           \/ /\ rest = <<>> /\ stdMsgq[c] = <<>>
              /\ state' = [state EXCEPT ![c] = "Dormant"]
              /\ thread' = [thread EXCEPT ![c] = Nil]
              /\ UNCHANGED <<whichq, prio, workVars>>
              /\ Return(i)
           \/ /\ rest # <<>>
              /\ UNCHANGED <<state, whichq, prio, thread, workVars>>
              /\ Continue(i, "Process")

\* After a standard message, the context becomes dormant, pauses if the invoker
\* has used most of its time, or goes on
EndStdMsg(i) ==
    LET c == frame[i]
        rest == Tail(stdMsgq[c])
    IN  /\ Run(i, {"StdMsg"})
        /\ stdMsgq' = [stdMsgq EXCEPT ![c] = rest]
        /\ UNCHANGED <<whichq, prio, priMsgq, workVars>>
        /\ \/ /\ priMsgq[c] = <<>> /\ rest = <<>>
              /\ state' = [state EXCEPT ![c] = "Dormant"]
              /\ thread' = [thread EXCEPT ![c] = Nil]
              /\ Return(i)
           \/ /\ priMsgq[c] = <<>> /\ rest # <<>>
              /\ state' = [state EXCEPT ![c] = "Paused"]
              /\ Block(i, "BlockedOnClock", "Paused")
              /\ UNCHANGED <<thread, ctx, frame, waiting, event, unsent, deaths>>
           \/ /\ ~(priMsgq[c] = <<>> /\ rest = <<>>)
              /\ UNCHANGED <<state, thread>>
              /\ Continue(i, "Process")

\* Mutant of ResumeContext: the invoker does not check that it owns the context
ResumeBlindly(i) ==
    /\ Run(i, {"Paused"})
    /\ state' = [state EXCEPT ![frame[i]] = "Running"]
    /\ Continue(i, "Process")
    /\ UNCHANGED <<whichq, prio, priMsgq, stdMsgq, thread, workVars>>

\* The pause has ended.  The invoker goes on unless it has lost the context.
ResumeContext(i) ==
    LET c == frame[i]
    IN  /\ Run(i, {"Paused"})
        /\ IF ctx[i] # c
           THEN Return(i) /\ UNCHANGED <<ctxVars, workVars>>
           ELSE /\ state' = [state EXCEPT ![c] = "Running"]
                /\ Continue(i, "Process")
                /\ UNCHANGED <<whichq, prio, priMsgq, stdMsgq, thread, workVars>>

-----------------------------------------------------------------------------
(* Traps and exits                                                          *)

\* The invoker's context, if any, is deleted
DropContext(i) ==
    IF ctx[i] = Nil THEN UNCHANGED <<ctxVars, workVars>> ELSE Delete(ctx[i])

\* The transaction traps: Recover deletes the context, and the thread pauses
\* before it reenters its Enter function
Recover(i) ==
    /\ Run(i, InProcessIcMsg)
    /\ DropContext(i)
    /\ ctx' = [ctx EXCEPT ![i] = Nil]
    /\ frame' = [frame EXCEPT ![i] = Nil]
    /\ Block(i, "BlockedOnClock", "Find")
    /\ UNCHANGED <<waiting, event, unsent, deaths>>

\* The thread exits, with the context that it owns: while it is running, after
\* too many traps, or when it leaves a blocking operation, after SIGPURGE
Exit(i) ==
    /\ deaths < MaxDeaths
    /\ \/ Run(i, InProcessIcMsg)
       \/ blocked[i] # "NotBlocked"
    /\ deaths' = deaths + 1
    /\ DropContext(i)
    /\ ctx' = [ctx EXCEPT ![i] = Nil]
    /\ frame' = [frame EXCEPT ![i] = Nil]
    /\ pc' = [pc EXCEPT ![i] = "Exited"]
    /\ blocked' = [blocked EXCEPT ![i] = "NotBlocked"]
    /\ event' = [event EXCEPT ![i] = FALSE]
    /\ active' = IF active = i THEN Nil ELSE active
    /\ UNCHANGED <<waiting, unsent>>

\* The daemon is told of the exit, and InitThread has it create a new invoker,
\* which waits to be scheduled (InitThread::RecreateThreads)
Recreate(i) ==
    /\ pc[i] = "Exited"
    /\ pc' = [pc EXCEPT ![i] = "Find"]
    /\ waiting' = [waiting EXCEPT ![i] = TRUE]
    /\ UNCHANGED <<ctxVars, workVars, ctx, frame, blocked, event, active, unsent,
                   deaths>>

-----------------------------------------------------------------------------
\* What an invoker does without a choice by the application
RunInvoker(i) ==
    \/ StartWork(i)
    \/ NoWork(i)
    \/ NextMsg(i)
    \/ ResumeContext(i)

EndMsg(i) == EndContext(i) \/ EndPriMsg(i) \/ EndStdMsg(i)

Invoker(i) ==
    \/ Wakeup(i)
    \/ ScheduleIn(i)
    \/ RunInvoker(i)
    \/ EndMsg(i)
    \/ BlockInMsg(i, "BlockedOnClock")
    \/ BlockInMsg(i, "BlockedOnDatabase")
    \/ StopTimer(i)
    \/ Recover(i)
    \/ Exit(i)
    \/ Recreate(i)

Arrival(level) ==
    \E c \in Contexts, m \in Msgs, p \in MsgPriorities :
        \/ ReceiveBuff(c, m, p, level)
        \/ \E i \in Invokers : SendMsg(i, c, m, p, level)

Next ==
    \/ Arrival("RestartNil")
    \/ ScheduleIO
    \/ SuspendIO
    \/ \E i \in Invokers : Invoker(i)

(* Fairness: a blocking operation ends and a thread that is running goes on;*)
(* Thread::Select is a round robin, so a thread that waits is scheduled     *)
(* however often others run; and the application finishes each transaction  *)
(* (if it does not, the thread is trapped for running too long).            *)
Fairness ==
    /\ WF_vars(SuspendIO)
    /\ \A i \in Invokers :
        /\ WF_vars(Wakeup(i))
        /\ SF_vars(ScheduleIn(i))
        /\ WF_vars(RunInvoker(i))
        /\ SF_vars(EndMsg(i))
        /\ WF_vars(Recreate(i))

Spec == Init /\ [][Next]_vars
FairSpec == Spec /\ Fairness

-----------------------------------------------------------------------------
(* Properties                                                               *)

\* A context is on a work queue exactly when it is ready, once, on the queue of
\* its priority, and the lengths that overload control reads are the real ones
\* (Context::Enqueue, Exqueue, InvokerPool::Enqueued, Dequeued).
QueueConsistent ==
    /\ \A p \in Priority :
        /\ length[p] = Len(workq[p])
        /\ \A k \in DOMAIN workq[p] :
            /\ state[workq[p][k]] = "Ready"
            /\ prio[workq[p][k]] = p
            /\ \A j \in DOMAIN workq[p] : workq[p][j] = workq[p][k] => j = k
    /\ \A c \in Contexts :
        /\ state[c] = "Ready" => \E k \in DOMAIN workq[prio[c]] : workq[prio[c]][k] = c
        /\ whichq[c] = IF state[c] = "Ready" THEN prio[c] ELSE Nil

\* A context that is being processed has one invoker, which agrees that it owns
\* the context, and no other invoker owns or runs it: an invoker that resumes
\* after its context was taken from it leaves the context alone
\* (Context::ProcessWork, Enqueue; InvokerThread::ClearContext).
OneInvoker ==
    /\ \A c \in Contexts :
        IF state[c] \in {"Paused", "Running"}
        THEN thread[c] # Nil /\ ctx[thread[c]] = c
        ELSE thread[c] = Nil
    /\ \A i \in Invokers :
        /\ ctx[i] # Nil => frame[i] = ctx[i] /\ thread[ctx[i]] = i
        /\ pc[i] \in {"Process", "PriMsg", "StdMsg"} =>
             ctx[i] # Nil /\ state[ctx[i]] = "Running"

\* No message is stranded: a context that has a message is on a work queue or is
\* being processed, and a context on a work queue has a message.
NoStrandedMsg ==
    \A c \in Contexts :
        /\ state[c] \in {"Free", "Dormant"} => priMsgq[c] = <<>> /\ stdMsgq[c] = <<>>
        /\ state[c] = "Ready" => priMsgq[c] # <<>> \/ stdMsgq[c] # <<>>

\* An invoker that was invoked, or resumes after yielding, never finds that its
\* context has no message ("Bizarre", Context::ProcessWork).
NeverInVain ==
    \A i \in Invokers :
        pc[i] = "Process" => priMsgq[frame[i]] # <<>> \/ stdMsgq[frame[i]] # <<>>

\* An immediate message never waits behind an invoker that has paused, nor on a
\* queue other than the immediate one ("if this is a priority message, it must
\* be handled immediately", Context::Enqueue).
ImmediateFirst ==
    \A c \in Contexts :
        priMsgq[c] # <<>> =>
            /\ state[c] # "Paused"
            /\ state[c] = "Ready" => prio[c] = IMMEDIATE

\* When work is queued, some invoker is certain to look for it: one runs, waits
\* to be scheduled, is about to, or has been interrupted, or an exited invoker
\* is about to be recreated (InvokerPool::KickThread relies on this when it
\* returns without an interrupt).
WorkIsNoticed ==
    (\E p \in Priority : workq[p] # <<>>) =>
        \E i \in Invokers : pc[i] = "Idle" => event[i]

\* Invokers never lock themselves out: one is free to look for work, whether
\* now or once it has been recreated (InvokerThread::BlockingAllowed).
NoLockout == \E i \in Invokers : blocked[i] # "BlockedOnDatabase"

\* Every context that is queued is taken off its queue, to be processed or
\* deleted, once messages stop to arrive.
EventuallyServed == \A c \in Contexts : state[c] = "Ready" ~> state[c] # "Ready"

\* Every message that has arrived is processed, or is deleted with its context.
Drained ==
    \A c \in Contexts :
        (priMsgq[c] # <<>> \/ stdMsgq[c] # <<>>) ~> priMsgq[c] = <<>> /\ stdMsgq[c] = <<>>

-----------------------------------------------------------------------------
(* What the pool promises, whichever invokers do the work                   *)

\* The queue of C that an invoker is processing
Current(c) ==
    IF \E i \in Invokers : pc[i] = "PriMsg" /\ frame[i] = c THEN "immediate"
    ELSE IF \E i \in Invokers : pc[i] = "StdMsg" /\ frame[i] = c THEN "standard"
    ELSE "none"

Service == INSTANCE ContextService
    WITH immediate <- priMsgq, standard <- stdMsgq,
         current <- [c \in Contexts |-> Current(c)]

\* The pool serves each context as if one thread of its own processed its
\* messages: one at a time, in order, immediate messages first, and none is
\* lost unless the context is deleted.
ServesContexts == Service!Spec
=============================================================================
