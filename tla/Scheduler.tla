----------------------------- MODULE Scheduler -----------------------------
(* The cooperative scheduler: nb/Thread.cpp and nb/InitThread.cpp.          *)
(*                                                                          *)
(* A thread that is unpreemptable (locked) must be the only one.  A thread  *)
(* gives up its turn by itself, when it blocks; only InitThread, which the  *)
(* platform runs whenever it wants to run, gives a turn to a thread.  There *)
(* is no mutex: threads and InitThread share ActiveThread_, an atomic, and  *)
(* some unprotected members, and run in parallel.                           *)
EXTENDS Integers, FiniteSets

CONSTANTS
    N,           \* threads are identified by their place in ThreadRegistry
    Flexible,    \* threads that may use MakePreemptable and MakeUnpreemptable
    Nil

Threads == 1 .. N

ASSUME ThreadsAssumption == N \in Nat \ {0} /\ Flexible \subseteq Threads
ASSUME NilAssumption == Nil \notin Threads

VARIABLES
    flexible,    \* the threads that do, which is a matter of their code
    active,      \* ActiveThread_
    start,       \* Start_, where the next search begins
    pc,          \* what each thread does
    blocked,     \* blocked_ # NotBlocked
    waiting,     \* waiting_
    unpreempts,  \* unpreempts_ > 0
    guard,       \* the sentry guard_, which is reset when a wait returns
    ipc,         \* what InitThread does
    curr, next,  \* the threads on which InitThread works
    switching,   \* InitThread has invoked ContextSwitch
    schedule,    \* InitThread's Schedule flag
    event,       \* the sentry event_ of InitThread
    resignals    \* ThreadAdmin's counter of that name is not zero

threadVars == <<pc, blocked, waiting, unpreempts>>
initVars == <<ipc, curr, next, switching>>
vars == <<flexible, active, start, threadVars, guard, initVars, schedule, event, resignals>>

\* Run: it may do its work.  Pause and Suspend: about to give up its turn.  Yield:
\* to interrupt InitThread.  Blocked: in a call to the platform.  Ready and Tell:
\* to ask for a turn.  Wait: at its guard.  Resumed: the wait has returned.
Pc == {"Run", "Pause", "Suspend", "Yield", "Blocked", "Ready", "Check", "Tell", "Wait", "Resumed"}

InitPc == {"Asleep", "Timeout", "Switch", "Test", "Select", "Install", "Proceed", "Signal", "Reset"}

\* The type invariant: the places in the code of Thread and InitThread.
TypeOK ==
    /\ flexible \in SUBSET Flexible
    /\ active \in Threads \cup {Nil}
    /\ start \in Threads
    /\ pc \in [Threads -> Pc]
    /\ blocked \in [Threads -> BOOLEAN]
    /\ waiting \in [Threads -> BOOLEAN]
    /\ unpreempts \in [Threads -> BOOLEAN]
    /\ guard \in [Threads -> BOOLEAN]
    /\ ipc \in InitPc
    /\ curr \in Threads \cup {Nil}
    /\ next \in Threads \cup {Nil}
    /\ switching \in BOOLEAN
    /\ schedule \in BOOLEAN
    /\ event \in BOOLEAN
    /\ resignals \in BOOLEAN

\* All threads sleep, and were unpreemptable when they were entered
Init ==
    /\ flexible \in SUBSET Flexible
    /\ active = Nil
    /\ start = 1
    /\ pc = [t \in Threads |-> "Blocked"]
    /\ blocked = [t \in Threads |-> TRUE]
    /\ waiting = [t \in Threads |-> FALSE]
    /\ unpreempts = [t \in Threads |-> TRUE]
    /\ guard = [t \in Threads |-> FALSE]
    /\ ipc = "Asleep"
    /\ curr = Nil /\ next = Nil
    /\ switching = FALSE
    /\ schedule = FALSE
    /\ event = FALSE
    /\ resignals = FALSE

-----------------------------------------------------------------------------
(* Threads                                                                  *)

At(t, from, to) ==
    /\ pc[t] = from
    /\ pc' = [pc EXCEPT ![t] = to]

\* Interrupt(ScheduleMask) of InitThread: the flag is set before the event
InterruptInit == schedule' = TRUE /\ event' = TRUE

\* EnterBlockingOperation (also from Pause): blocked_ is set
EnterBlockingOperation(t) ==
    /\ At(t, pc[t], "Suspend")
    /\ pc[t] \in {"Run", "Pause"}
    /\ blocked' = [blocked EXCEPT ![t] = TRUE]
    /\ UNCHANGED <<flexible, active, start, waiting, unpreempts, guard, initVars, schedule, event, resignals>>

\* MakePreemptable and MakeUnpreemptable, until they invoke Pause
MakePreemptable(t) ==
    /\ At(t, "Run", "Pause")
    /\ t \in flexible
    /\ unpreempts[t]
    /\ unpreempts' = [unpreempts EXCEPT ![t] = FALSE]
    /\ UNCHANGED <<flexible, active, start, blocked, waiting, guard, initVars, schedule, event, resignals>>

MakeUnpreemptable(t) ==
    /\ At(t, "Run", "Pause")
    /\ ~unpreempts[t]
    /\ unpreempts' = [unpreempts EXCEPT ![t] = TRUE]
    /\ UNCHANGED <<flexible, active, start, blocked, waiting, guard, initVars, schedule, event, resignals>>

\* Suspend and Schedule: a thread that is not the active one (any more) leaves
\* the active one alone
Suspend(t) ==
    /\ \/ At(t, "Suspend", "Yield") /\ active = t /\ active' = Nil
       \/ At(t, "Suspend", "Blocked") /\ active # t /\ UNCHANGED active
    /\ UNCHANGED <<flexible, start, blocked, waiting, unpreempts, guard, initVars, schedule, event, resignals>>

Yield(t) ==
    /\ At(t, "Yield", "Blocked")
    /\ InterruptInit
    /\ UNCHANGED <<flexible, active, start, blocked, waiting, unpreempts, guard, initVars, resignals>>

\* The platform call returns: ExitBlockingOperation
ExitBlockingOperation(t) ==
    /\ At(t, "Blocked", "Ready")
    /\ blocked' = [blocked EXCEPT ![t] = FALSE]
    /\ UNCHANGED <<flexible, active, start, waiting, unpreempts, guard, initVars, schedule, event, resignals>>

\* Ready, in steps: waiting_ is set, ActiveThread is read, InitThread is told
Ready(t) ==
    /\ At(t, "Ready", "Check")
    /\ waiting' = [waiting EXCEPT ![t] = TRUE]
    /\ UNCHANGED <<flexible, active, start, blocked, unpreempts, guard, initVars, schedule, event, resignals>>

Check(t) ==
    /\ \/ At(t, "Check", "Tell") /\ active = Nil
       \/ At(t, "Check", "Wait") /\ active # Nil
    /\ UNCHANGED <<flexible, active, start, blocked, waiting, unpreempts, guard, initVars, schedule, event, resignals>>

Tell(t) ==
    /\ At(t, "Tell", "Wait")
    /\ InterruptInit
    /\ UNCHANGED <<flexible, active, start, blocked, waiting, unpreempts, guard, initVars, resignals>>

\* systhrd_->Wait() returns, and resets the guard
Wait(t) ==
    /\ At(t, "Wait", "Resumed")
    /\ guard[t]
    /\ guard' = [guard EXCEPT ![t] = FALSE]
    /\ UNCHANGED <<flexible, active, start, blocked, waiting, unpreempts, initVars, schedule, event, resignals>>

Resume(t) ==
    /\ At(t, "Resumed", "Run")
    /\ waiting' = [waiting EXCEPT ![t] = FALSE]
    /\ UNCHANGED <<flexible, active, start, blocked, unpreempts, guard, initVars, schedule, event, resignals>>

Thread(t) ==
    \/ EnterBlockingOperation(t) \/ MakePreemptable(t) \/ MakeUnpreemptable(t)
    \/ Suspend(t) \/ Yield(t)
    \/ ExitBlockingOperation(t)
    \/ Ready(t) \/ Check(t) \/ Tell(t) \/ Wait(t) \/ Resume(t)

-----------------------------------------------------------------------------
(* InitThread                                                               *)

Goto(to) == ipc' = to

\* HandleInterrupt: Pause returned because of the event
HandleInterrupt ==
    /\ ipc = "Asleep"
    /\ event
    /\ event' = FALSE
    /\ switching' = schedule
    /\ IF schedule THEN Goto("Switch") ELSE UNCHANGED ipc
    /\ UNCHANGED <<flexible, active, start, threadVars, guard, curr, next, schedule, resignals>>

\* HandleTimeout: Pause returned because of its delay
HandleTimeout ==
    /\ ipc = "Asleep"
    /\ ~event
    /\ Goto("Timeout")
    /\ curr' = active
    /\ switching' = FALSE
    /\ UNCHANGED <<flexible, active, start, threadVars, guard, next, schedule, event, resignals>>

\* LockedThread, unless it is Nil
IsLocked(t) == t # Nil /\ unpreempts[t]

\* Mutant of AfterTimeout: a locked thread is left alone
AfterTimeoutIgnore ==
    /\ ipc = "Timeout"
    /\ IF IsLocked(curr) THEN Goto("Asleep") ELSE Goto("Switch")
    /\ switching' = ~IsLocked(curr)
    /\ UNCHANGED <<flexible, active, start, threadVars, guard, curr, next, schedule, event, resignals>>

\* ContextSwitch if no thread is locked; another signal if it still waits for one.
\* (If not, RtcTimeout sees to it that the thread yields before long.)
AfterTimeout ==
    /\ ipc = "Timeout"
    /\ \/ ~IsLocked(curr) /\ Goto("Switch") /\ switching' = TRUE /\ UNCHANGED <<next, resignals>>
       \/ /\ IsLocked(curr) /\ waiting[curr]
          /\ Goto("Proceed")
          /\ next' = curr
          /\ resignals' = TRUE
          /\ UNCHANGED switching
       \/ IsLocked(curr) /\ ~waiting[curr] /\ Goto("Asleep") /\ UNCHANGED <<next, switching, resignals>>
    /\ UNCHANGED <<flexible, active, start, threadVars, guard, curr, schedule, event>>

\* SwitchContext: ActiveThread is read, and then its members
ReadActive ==
    /\ ipc = "Switch"
    /\ curr' = active
    /\ Goto("Test")
    /\ UNCHANGED <<flexible, active, start, threadVars, guard, next, switching, schedule, event, resignals>>

\* Mutant of TestActive: a locked thread is preempted
TestNothing ==
    /\ ipc = "Test"
    /\ Goto("Select")
    /\ UNCHANGED <<flexible, active, start, threadVars, guard, curr, next, switching, schedule, event, resignals>>

TestActive ==
    /\ ipc = "Test"
    /\ \/ ~IsLocked(curr) /\ Goto("Select") /\ UNCHANGED <<next, resignals>>
       \/ IsLocked(curr) /\ waiting[curr] /\ Goto("Proceed") /\ next' = curr /\ resignals' = TRUE
       \/ IsLocked(curr) /\ ~waiting[curr] /\ Goto("Reset") /\ UNCHANGED <<next, resignals>>
    /\ UNCHANGED <<flexible, active, start, threadVars, guard, curr, switching, schedule, event>>

\* The thread in ThreadRegistry that follows T, the last of which precedes the first
Successor(t) == IF t = N THEN 1 ELSE t + 1

\* How far T is from S, cyclically
Distance(s, t) == IF t >= s THEN t - s ELSE t - s + N

CanBeScheduled(t) == ~blocked[t]

\* Select: the first thread from Start_ that can be scheduled
First(t) ==
    /\ CanBeScheduled(t)
    /\ \A u \in Threads : CanBeScheduled(u) => Distance(start, t) <= Distance(start, u)

Select ==
    /\ ipc = "Select"
    /\ \/ \E t \in Threads :
             /\ First(t)
             /\ next' = t
             /\ start' = Successor(t)
             /\ IF t = curr THEN Goto("Reset") ELSE Goto("Install")
       \/ /\ \A t \in Threads : ~CanBeScheduled(t)
          /\ Goto("Reset")
          /\ UNCHANGED <<next, start>>
    /\ UNCHANGED <<flexible, active, threadVars, guard, curr, switching, schedule, event, resignals>>

\* NEXT becomes the active thread unless CURR has just given up its turn
Install ==
    /\ ipc = "Install"
    /\ IF active = curr THEN active' = next /\ Goto("Proceed") ELSE UNCHANGED active /\ Goto("Reset")
    /\ UNCHANGED <<flexible, start, threadVars, guard, curr, next, switching, schedule, event, resignals>>

Done == IF switching THEN Goto("Reset") ELSE Goto("Asleep")

\* Proceed: a signal, if the thread waits for it
Proceed ==
    /\ ipc = "Proceed"
    /\ IF waiting[next] THEN Goto("Signal") ELSE Done
    /\ UNCHANGED <<flexible, active, start, threadVars, guard, curr, next, switching, schedule, event, resignals>>

Signal ==
    /\ ipc = "Signal"
    /\ guard' = [guard EXCEPT ![next] = TRUE]
    /\ Done
    /\ UNCHANGED <<flexible, active, start, threadVars, curr, next, switching, schedule, event, resignals>>

\* The end of ContextSwitch
ResetSchedule ==
    /\ ipc = "Reset"
    /\ schedule' = FALSE
    /\ Goto("Asleep")
    /\ UNCHANGED <<flexible, active, start, threadVars, guard, curr, next, switching, event, resignals>>

InitThread ==
    \/ HandleInterrupt \/ HandleTimeout \/ AfterTimeout
    \/ ReadActive \/ TestActive \/ Select \/ Install \/ Proceed \/ Signal \/ ResetSchedule

Next == InitThread \/ \E t \in Threads : Thread(t)

Spec == Init /\ [][Next]_vars

(* Fairness: InitThread has a high priority, sleeps no longer than its      *)
(* delay and waits for nothing.  Every thread gets to the end of what it    *)
(* does, in Run because a thread that runs too long is trapped, and returns *)
(* from a blocking call, for a thread that sleeps wakes up.                 *)
Progress(t) ==
    \/ EnterBlockingOperation(t) \/ Suspend(t) \/ Yield(t) \/ ExitBlockingOperation(t)
    \/ Ready(t) \/ Check(t) \/ Tell(t) \/ Wait(t) \/ Resume(t)

FairSpec == Spec /\ WF_vars(InitThread) /\ \A t \in Threads : WF_vars(Progress(t))

-----------------------------------------------------------------------------
(* Properties                                                               *)

\* Threads that run unpreemptably (from Ready on to Schedule)
RunsLocked(t) == unpreempts[t] /\ pc[t] \in {"Resumed", "Run"}

\* "UNPREEMPTABLE THREADS RAN SIMULTANEOUSLY" is what ContextSwitches logs, with a
\* software log, if this is false: at most one thread runs unpreemptably.
OneUnpreemptable == \A t, u \in Threads : RunsLocked(t) /\ RunsLocked(u) => t = u

\* If all threads are unpreemptable, then what makes two of them run at once is the
\* second signal that InitThread sends to one it finds waiting, and nothing else:
\* the race between threads that suspend, that become ready, and InitThread is
\* harmless as long as the counter of these signals is zero.
RunsAlone == flexible = {} /\ ~resignals => OneUnpreemptable

\* Whatever is signalled when: a thread that runs unpreemptably and is active stays
\* active until it gives up its turn itself (SwitchContext does not preempt it).
KeepsItsTurn ==
    [][\A t \in Threads : active = t /\ RunsLocked(t) => active' = t]_vars

\* If all threads are unpreemptable, one that waits for its turn gets it, although
\* InitThread may lose a request to schedule and a thread may miss its signal.
EventuallyRuns ==
    \A t \in Threads : flexible = {} /\ waiting[t] ~> ~waiting[t]
=============================================================================
