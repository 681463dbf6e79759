------------------------------- MODULE Daemon ------------------------------
(* Daemons, which recreate the threads that were forced to exit:            *)
(* nb/Daemon.cpp, and the loop of nb/InitThread.cpp that invokes them.      *)
(*                                                                          *)
(* Three kinds of threads meet here.  InitThread is preemptable and of high *)
(* priority, so it runs while the CLI thread executes a command, and an     *)
(* exiting thread tells its daemon after it has given up the run lock       *)
(* (Thread::~Thread suspends before it releases its resources).             *)
EXTENDS Integers

CONSTANTS
    NumDaemons,   \* daemons are identified by their place in DaemonRegistry
    Invokers,     \* which of them is the InvokerDaemon
    Size,         \* the number of threads for which each one was constructed
    MaxExits,     \* bound on the number of threads that exit
    MaxTraps,     \* bound on the number of traps when threads are created
    MaxCommands,  \* bound on the number of CLI commands
    Init_, Cli, Nil  \* InitThread, the CLI thread, and neither

Daemons == 1 .. NumDaemons
Threads == {Init_, Cli}

ASSUME DaemonsAssumption == NumDaemons \in Nat /\ Invokers \in Daemons
ASSUME SizeAssumption == Size \in [Daemons -> Nat \ {0}]
ASSUME ThreadsAssumption == Init_ # Cli /\ Nil \notin Daemons
ASSUME BoundsAssumption == MaxExits \in Nat /\ MaxTraps \in Nat /\ MaxCommands \in Nat

VARIABLES
    threads,   \* the number of threads in Daemon::threads_
    traps,     \* Daemon::traps_
    alarm,     \* the status of Daemon::alarm_
    recreate,  \* InitThread's Recreate flag
    event,     \* InitThread has been interrupted and has yet to notice
    pc,        \* what InitThread and the CLI thread do
    target,    \* the daemon that each of them deals with
    exits, failures, commands  \* what has happened so far, of what is bounded

daemonVars == <<threads, traps, alarm>>
boundVars == <<exits, failures, commands>>
vars == <<daemonVars, recreate, event, pc, target, boundVars>>

\* Idle: InitThread is in Pause, or the CLI thread has no command for a daemon.
\* Visit: InitThread's loop is at its target.  Others: steps of CreateThreads.
Pc == {"Idle", "Visit", "CreateThreads", "Recover", "While", "Create"}

\* The type invariant: traps_ is a byte, and every place in the code and alarm a known one.
TypeOK ==
    /\ threads \in [Daemons -> Nat]
    /\ traps \in [Daemons -> 0 .. 255]
    /\ alarm \in [Daemons -> {"NoAlarm", "MinorAlarm", "MajorAlarm"}]
    /\ recreate \in BOOLEAN
    /\ event \in BOOLEAN
    /\ pc \in [Threads -> Pc]
    /\ target \in [Threads -> Daemons \cup {Nil}]
    /\ exits \in 0 .. MaxExits
    /\ failures \in 0 .. MaxTraps
    /\ commands \in 0 .. MaxCommands

\* Daemon::size_: InvokerDaemon's constructor passes on 1, not its argument
TargetSize(d) == IF d = Invokers THEN 1 ELSE Size[d]

\* The system has been initialized, and all threads have been created
Init ==
    /\ threads = [d \in Daemons |-> TargetSize(d)]
    /\ traps = [d \in Daemons |-> 0]
    /\ alarm = [d \in Daemons |-> "NoAlarm"]
    /\ recreate = FALSE
    /\ event = FALSE
    /\ pc = [t \in Threads |-> "Idle"]
    /\ target = [t \in Threads |-> Nil]
    /\ exits = 0 /\ failures = 0 /\ commands = 0

-----------------------------------------------------------------------------
(* InitThread and the threads that exit                                     *)

\* Daemon::ThreadDeleted, for a thread of D that exits
ThreadDeleted(d) ==
    /\ exits < MaxExits
    /\ threads[d] > 0
    /\ threads' = [threads EXCEPT ![d] = @ - 1]
    /\ recreate' = TRUE
    /\ event' = TRUE
    /\ exits' = exits + 1
    /\ UNCHANGED <<traps, alarm, pc, target, failures, commands>>

\* InitThread is also interrupted to switch threads (Thread::Suspend)
OtherInterrupt ==
    /\ event' = TRUE
    /\ UNCHANGED <<daemonVars, recreate, pc, target, boundVars>>

Go(t, at, d) ==
    /\ pc' = [pc EXCEPT ![t] = at]
    /\ target' = [target EXCEPT ![t] = d]

\* InitThread::HandleInterrupt, when Pause returns
HandleInterrupt ==
    /\ pc[Init_] = "Idle"
    /\ event
    /\ event' = FALSE
    /\ IF recreate /\ NumDaemons > 0 THEN Go(Init_, "Visit", 1) ELSE UNCHANGED <<pc, target>>
    /\ UNCHANGED <<daemonVars, recreate, boundVars>>

\* InitThread::RecreateThreads: the flag is reset after the last daemon
NextDaemon(d) ==
    IF d < NumDaemons
    THEN Go(Init_, "Visit", d + 1) /\ UNCHANGED recreate
    ELSE Go(Init_, "Idle", Nil) /\ recreate' = FALSE

VisitDaemon ==
    LET d == target[Init_]
    IN  /\ pc[Init_] = "Visit"
        /\ IF threads[d] < TargetSize(d)
           THEN Go(Init_, "CreateThreads", d) /\ UNCHANGED recreate
           ELSE NextDaemon(d)
        /\ UNCHANGED <<daemonVars, event, boundVars>>

-----------------------------------------------------------------------------
(* Daemon::CreateThreads, executed by thread T                              *)

Return(t) ==
    IF t = Init_ THEN NextDaemon(target[t])
    ELSE Go(t, "Idle", Nil) /\ UNCHANGED recreate

\* Daemon::GetAlarmLevel
RaiseAlarm(d) ==
    alarm' = [alarm EXCEPT ![d] = IF threads[d] = 0 THEN "MajorAlarm" ELSE "MinorAlarm"]

SetTraps(d, n) == traps' = [traps EXCEPT ![d] = n % 256]

\* Mutant of CountTraps: a daemon that has trapped twice is left without an alarm
CountQuietly(t) ==
    LET d == target[t]
    IN  /\ pc[t] = "CreateThreads"
        /\ IF traps[d] = 0 THEN Go(t, "While", d) /\ UNCHANGED <<traps, recreate>>
           ELSE IF traps[d] = 1 THEN Go(t, "Recover", d) /\ SetTraps(d, 2) /\ UNCHANGED recreate
           ELSE Return(t) /\ UNCHANGED traps
        /\ UNCHANGED <<threads, alarm, event, boundVars>>

\* The switch statement
CountTraps(t) ==
    LET d == target[t]
    IN  /\ pc[t] = "CreateThreads"
        /\ \/ /\ traps[d] = 0
              /\ Go(t, "While", d)
              /\ UNCHANGED <<traps, alarm, recreate>>
           \/ /\ traps[d] = 1
              /\ SetTraps(d, 2)
              /\ Go(t, "Recover", d)
              /\ UNCHANGED <<alarm, recreate>>
           \/ /\ traps[d] >= 2
              /\ RaiseAlarm(d)
              /\ Return(t)
              /\ UNCHANGED traps
        /\ UNCHANGED <<threads, event, boundVars>>

\* Mutant of Recovered: the counter is not an unsigned byte
RecoveredSigned(t) ==
    /\ pc[t] = "Recover"
    /\ traps' = [traps EXCEPT ![target[t]] = @ - 1]
    /\ Go(t, "While", target[t])
    /\ UNCHANGED <<threads, alarm, recreate, event, boundVars>>

\* Recover (which daemons may override) returns, and --traps_
Recovered(t) ==
    /\ pc[t] = "Recover"
    /\ SetTraps(target[t], traps[target[t]] + 255)
    /\ Go(t, "While", target[t])
    /\ UNCHANGED <<threads, alarm, recreate, event, boundVars>>

\* Mutant of While: one thread more than the target
WhileNotMore(t) ==
    LET d == target[t]
    IN  /\ pc[t] = "While"
        /\ IF threads[d] <= TargetSize(d)
           THEN SetTraps(d, traps[d] + 1) /\ Go(t, "Create", d) /\ UNCHANGED <<alarm, recreate>>
           ELSE alarm' = [alarm EXCEPT ![d] = "NoAlarm"] /\ Return(t) /\ UNCHANGED traps
        /\ UNCHANGED <<threads, event, boundVars>>

\* Mutant of While: an alarm is never cleared
WhileAlarmed(t) ==
    LET d == target[t]
    IN  /\ pc[t] = "While"
        /\ IF threads[d] < TargetSize(d)
           THEN SetTraps(d, traps[d] + 1) /\ Go(t, "Create", d) /\ UNCHANGED recreate
           ELSE Return(t) /\ UNCHANGED traps
        /\ UNCHANGED <<threads, alarm, event, boundVars>>

\* The condition of the loop and ++traps_, or the end of the loop
While(t) ==
    LET d == target[t]
    IN  /\ pc[t] = "While"
        /\ \/ /\ threads[d] < TargetSize(d)
              /\ SetTraps(d, traps[d] + 1)
              /\ Go(t, "Create", d)
              /\ UNCHANGED <<alarm, recreate>>
           \/ /\ threads[d] >= TargetSize(d)
              /\ alarm' = [alarm EXCEPT ![d] = "NoAlarm"]
              /\ Return(t)
              /\ UNCHANGED traps
        /\ UNCHANGED <<threads, event, boundVars>>

\* CreateThread returns a thread
Created(t) ==
    LET d == target[t]
    IN  /\ pc[t] = "Create"
        /\ threads' = [threads EXCEPT ![d] = @ + 1]
        /\ SetTraps(d, 0)
        /\ Go(t, "While", d)
        /\ UNCHANGED <<alarm, recreate, event, boundVars>>

\* CreateThread returns nullptr
NotCreated(t) ==
    LET d == target[t]
    IN  /\ pc[t] = "Create"
        /\ failures < MaxTraps
        /\ failures' = failures + 1
        /\ SetTraps(d, 0)
        /\ RaiseAlarm(d)
        /\ Return(t)
        /\ UNCHANGED <<threads, event, exits, commands>>

\* Mutant of Trap: InitThread goes back to sleep
TrapAndSleep(t) ==
    /\ pc[t] \in {"Recover", "Create"}
    /\ failures < MaxTraps
    /\ failures' = failures + 1
    /\ Go(t, "Idle", Nil)
    /\ UNCHANGED <<daemonVars, recreate, event, exits, commands>>

\* CreateThread or Recover traps.  InitThread, when it is reentered, handles its
\* flags again; the CLI thread waits for another command.
Trap(t) ==
    /\ pc[t] \in {"Recover", "Create"}
    /\ failures < MaxTraps
    /\ failures' = failures + 1
    /\ IF t = Init_ /\ recreate THEN Go(t, "Visit", 1) ELSE Go(t, "Idle", Nil)
    /\ UNCHANGED <<daemonVars, recreate, event, exits, commands>>

CreateThreads(t) ==
    \/ CountTraps(t)
    \/ Recovered(t)
    \/ While(t)
    \/ Created(t)
    \/ NotCreated(t)
    \/ Trap(t)

-----------------------------------------------------------------------------
(* CLI commands                                                             *)

Command ==
    /\ pc[Cli] = "Idle"
    /\ commands < MaxCommands
    /\ commands' = commands + 1

\* Daemon::Disable
Disable(d) ==
    /\ Command
    /\ SetTraps(d, 2)
    /\ UNCHANGED <<threads, alarm, recreate, event, pc, target, exits, failures>>

\* Daemon::Enable, which creates threads if the daemon was disabled
Enable(d) ==
    /\ Command
    /\ SetTraps(d, 0)
    /\ IF traps[d] >= 2 THEN Go(Cli, "CreateThreads", d) ELSE UNCHANGED <<pc, target>>
    /\ UNCHANGED <<threads, alarm, recreate, event, exits, failures>>

-----------------------------------------------------------------------------
InitThread ==
    \/ HandleInterrupt
    \/ VisitDaemon
    \/ CreateThreads(Init_)

Next ==
    \/ \E d \in Daemons : ThreadDeleted(d) \/ Disable(d) \/ Enable(d)
    \/ OtherInterrupt
    \/ InitThread
    \/ CreateThreads(Cli)

Spec == Init /\ [][Next]_vars

(* Fairness: InitThread has a high priority and never waits for another     *)
(* thread, and the CLI thread, once it runs, completes its command.         *)
FairSpec == Spec /\ WF_vars(InitThread) /\ WF_vars(CreateThreads(Cli))

-----------------------------------------------------------------------------
(* Properties                                                               *)

Short(d) == threads[d] < TargetSize(d)

\* A daemon that is short of threads when InitThread learns of it gets its
\* threads back, or an alarm that tells the operator, however often the creation
\* of a thread traps or fails (InitThread::RecreateThreads, CreateThreads).
EventuallyRestored ==
    \A d \in Daemons :
        (pc[Init_] = "Idle" /\ recreate /\ Short(d)) ~> (~Short(d) \/ alarm[d] # "NoAlarm")

\* A daemon that gives up creating threads because of traps never does so silently
\* (Daemon.h: "the alarm that will be raised, and CreateThread will no longer be
\* invoked"): until the operator steps in, InitThread is still at work or there is
\* an alarm.  A command may wrap the counter of traps (see Recovered), hence the
\* restriction to behaviours without one.
NotSilentlyOff ==
    commands = 0 => \A d \in Daemons : traps[d] >= 2 => recreate \/ alarm[d] # "NoAlarm"

\* An alarm of a daemon that InitThread does not work on is true: threads are
\* missing, and it is not left over from a shortage that was repaired.
AlarmIsTrue ==
    \A d \in Daemons :
        commands = 0 /\ target[Init_] # d /\ alarm[d] # "NoAlarm" => Short(d)

\* Daemon.h: "Creates threads when there are fewer than size_".  CreateThreads is not
\* a critical section, so InitThread and an Enable command can both create the last
\* missing thread, but no more than one thread too many is created.
AtMostOneExtra == \A d \in Daemons : threads[d] <= TargetSize(d) + 1

\* "A thread cannot exit without its daemon being notified" and the daemon exists
\* "to monitor such a thread and recreate it": when InitThread sleeps with nothing
\* left to do, no thread is missing of a daemon that is enabled and not alarmed.
NoneForgotten ==
    pc[Init_] = "Idle" /\ ~recreate =>
        \A d \in Daemons : Short(d) => alarm[d] # "NoAlarm" \/ traps[d] > 0
=============================================================================
