--------------------------- MODULE InvokerRestart --------------------------
(* An invoker pool during a warm restart (ModuleRegistry::Restart, Shutdown,*)
(* InvokerThread::Shutdown).  InitThread, which is never locked out by the  *)
(* invokers, first lets the running thread finish what it does, then makes  *)
(* every thread exit and finally creates new ones.  A warm restart keeps    *)
(* contexts and messages; other restarts delete them and are not modelled.  *)
EXTENDS InvokerPool

CONSTANT MaxRestarts  \* bound on the number of restarts

ASSUME RestartsAssumption == MaxRestarts \in Nat

VARIABLES
    level,    \* Restart::Level_
    phase,    \* where ModuleRegistry::Restart and Shutdown are
    restarts, \* the number of restarts so far
    strayed   \* history: ClearContext was called on an invoker by way of a
              \* pointer to one that a restart deleted

restartVars == <<level, phase, restarts>>

\* Draining: only the factions that shut down first are enabled.  Exiting: every
\* thread has been sent SIGCLOSE and all factions are enabled.
Phase == {"Running", "Draining", "Exiting"}

RestartTypeOK ==
    /\ TypeOK
    /\ level \in {"RestartNil", "RestartWarm"}
    /\ phase \in Phase
    /\ restarts \in 0 .. MaxRestarts
    /\ strayed \in BOOLEAN

RestartInit ==
    /\ Init
    /\ level = "RestartNil"
    /\ phase = "Running"
    /\ restarts = 0
    /\ strayed = FALSE

\* ModuleRegistry::Restart sets the level while another thread may be running
BeginRestart ==
    /\ phase = "Running"
    /\ restarts < MaxRestarts
    /\ level' = "RestartWarm"
    /\ phase' = "Draining"
    /\ restarts' = restarts + 1
    /\ UNCHANGED vars

\* ModuleRegistry::Shutdown has seen no thread run for a while: SIGCLOSE, which
\* interrupts, is raised for all threads, and all factions are enabled
NotifyThreads ==
    /\ phase = "Draining"
    /\ active = Nil
    /\ phase' = "Exiting"
    /\ event' = [i \in Invokers |-> event[i] \/ i \in Ready]
    /\ UNCHANGED <<ctxVars, workVars, ctx, frame, pc, blocked, waiting, active,
                   unsent, deaths, level, restarts>>

\* Mutant of RequeueContext: the context is forgotten
RequeueNothing(i) == UNCHANGED <<state, whichq, prio, workVars>>

\* InvokerThread::Shutdown for a warm restart requeues the invoker's context,
\* which Context::Enqueue only does if it is running (or dormant)
RequeueContext(i) ==
    LET c == ctx[i]
    IN  IF c = Nil \/ state[c] \in {"Ready", "Paused"}
        THEN UNCHANGED <<state, whichq, prio, workVars>>
        ELSE Link(c, PROGRESS, state[c] = "Running")

\* The thread is trapped before it resumes execution, and exits: at the end of a
\* blocking operation, or when it is scheduled after Ready.  In the draining
\* phase it exits if its transaction traps, because Recover then refuses.
ExitInRestart(i) ==
    /\ \/ phase = "Exiting" /\ blocked[i] # "NotBlocked"
       \/ phase = "Exiting" /\ waiting[i]
       \/ phase = "Draining" /\ Run(i, InProcessIcMsg)
    /\ RequeueContext(i)
    /\ ctx' = [ctx EXCEPT ![i] = Nil]
    /\ frame' = [frame EXCEPT ![i] = Nil]
    /\ pc' = [pc EXCEPT ![i] = "Exited"]
    /\ blocked' = [blocked EXCEPT ![i] = "NotBlocked"]
    /\ waiting' = [waiting EXCEPT ![i] = FALSE]
    /\ event' = [event EXCEPT ![i] = FALSE]
    /\ active' = IF active = i THEN Nil ELSE active
    /\ UNCHANGED <<priMsgq, stdMsgq, thread, unsent, deaths, restartVars>>

\* "Bizarre": Context::ProcessWork finds no message.  A context that a restart put
\* on a work queue while it was running finishes its messages and is then serviced
\* once more; without a restart, this does not happen (NeverInVain).
EmptyContext(i) ==
    LET c == frame[i]
    IN  /\ phase \in {"Running", "Draining"}
        /\ Run(i, {"Process"})
        /\ priMsgq[c] = <<>> /\ stdMsgq[c] = <<>>
        /\ \/ Delete(c)
           \/ /\ state' = [state EXCEPT ![c] = "Dormant"]
              /\ thread' = [thread EXCEPT ![c] = Nil]
              /\ UNCHANGED <<whichq, prio, priMsgq, stdMsgq, workVars>>
        /\ Return(i)
        /\ UNCHANGED restartVars

\* All threads have exited.  Startup creates new ones, and the restart is over.
\* Contexts that paused still refer to invokers that have been deleted.  A new
\* invoker may have been created where such a pointer leads to, or it leads to
\* other memory.
EndRestart ==
    /\ phase = "Exiting"
    /\ \A i \in Invokers : pc[i] = "Exited"
    /\ pc' = [i \in Invokers |-> "Find"]
    /\ waiting' = [i \in Invokers |-> TRUE]
    /\ phase' = "Running"
    /\ level' = "RestartNil"
    /\ \E reused \in SUBSET Invokers :
         thread' = [c \in Contexts |-> IF thread[c] \in reused THEN thread[c] ELSE Nil]
    /\ UNCHANGED <<state, whichq, prio, priMsgq, stdMsgq, workVars, ctx, frame,
                   blocked, event, active, unsent, deaths, restarts>>

\* What the threads do between restarts, and while the restart drains: threads
\* that have been scheduled go on, and the others are no longer scheduled
WhileRunning ==
    /\ phase = "Running"
    /\ \/ ScheduleIO
       \/ \E i \in Invokers :
            ScheduleIn(i) \/ Recover(i) \/ Exit(i) \/ Recreate(i)

UntilDrained ==
    /\ phase \in {"Running", "Draining"}
    /\ \/ Arrival(level)
       \/ SuspendIO
       \/ \E i \in Invokers :
            \/ Wakeup(i)
            \/ RunInvoker(i)
            \/ EndMsg(i)
            \/ BlockInMsg(i, "BlockedOnClock")
            \/ BlockInMsg(i, "BlockedOnDatabase")
            \/ StopTimer(i)

\* A message of immediate priority takes a paused context from an invoker that
\* does not have it (EnqueuePaused)
Strays ==
    \E c \in Contexts :
        /\ state[c] = "Paused" /\ state'[c] = "Ready"
        /\ thread[c] # Nil /\ ctx[thread[c]] # c

RestartNext ==
    /\ \/ (WhileRunning \/ UntilDrained) /\ UNCHANGED restartVars
       \/ BeginRestart
       \/ NotifyThreads
       \/ \E i \in Invokers : EmptyContext(i) \/ ExitInRestart(i)
       \/ EndRestart
    /\ strayed' = (strayed \/ Strays)

RestartSpec == RestartInit /\ [][RestartNext]_<<vars, restartVars, strayed>>

-----------------------------------------------------------------------------
\* A context that restarts have put on work queues at odd moments is still on
\* one queue at most, and in one place (Q2Way::Enq and Henq, Context::Enqueue).
LinkedOnce ==
    \A p, q \in Priority :
        \A j \in 1 .. Len(workq[p]), k \in 1 .. Len(workq[q]) :
            workq[p][j] = workq[q][k] => p = q /\ j = k

\* A context that is ready is on a work queue, throughout a restart and after it.
ReadyIsQueued ==
    \A c \in Contexts :
        state[c] = "Ready" => \E p \in Priority : c \in ToSet(workq[p])

\* No context is left in the running state by an invoker that exited or trapped,
\* whether in a restart or not: it has an invoker that runs it and that knows
\* about it, or is on a work queue (InvokerThread::Shutdown, Recover).  This is so
\* until Context::Enqueue clears the context of the wrong invoker.
NoneLeftRunning ==
    ~strayed =>
        \A c \in Contexts : state[c] = "Running" =>
            \E i \in Invokers :
                frame[i] = c /\ ctx[i] = c /\ pc[i] \in {"Process", "PriMsg", "StdMsg"}

\* "During a warm restart, put our context back on a work queue so that it can be
\* serviced after the restart is over" (InvokerThread.cpp): when all threads have
\* exited, a context that still has messages is on a work queue.
ContextsAreRequeued ==
    phase = "Exiting" /\ (\A i \in Invokers : pc[i] = "Exited") =>
        \A c \in Contexts :
            stdMsgq[c] # <<>> => \E p \in Priority : c \in ToSet(workq[p])
=============================================================================
