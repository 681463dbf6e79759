---------------------------- MODULE SystemRestart ----------------------------
(* The initialization and the restarts of a system: nb/RootThread.cpp,      *)
(* nb/InitThread.cpp, nb/ModuleRegistry.cpp and what nb/Thread.cpp does to  *)
(* a thread during a restart.                                               *)
(*                                                                          *)
(* InitThread shuts modules down and starts them up again.  RootThread      *)
(* creates it and is its watchdog.  Other threads request restarts, and     *)
(* exit in them.  The platform runs RootThread and InitThread whenever they *)
(* want to run, in parallel with each other and with one other thread.      *)
(*                                                                          *)
(* The parameters that allow breakpoint debugging have their default values. *)
EXTENDS Integers, FiniteSets

CONSTANTS
    NumModules,    \* modules are started in the order of their identifiers
    NumThreads,    \* threads are created by the startup of a module
    Owner,         \* Owner[t]: the module that creates thread t
    Housekeepers,  \* threads of factions that are enabled to output logs
    Readers,       \* threads that may block on console input (CinThread, of NbModule)
    Reasons,       \* the levels that reasons for restarts lead to
    MaxRequests, MaxTraps, MaxLate, MaxLosses    \* bounds on what goes wrong

Modules == 1 .. NumModules
Threads == 1 .. NumThreads

Nil == 0
Warm == 1
Cold == 2
Reload == 3
Reboot == 4
\* RestartExit, which leaves the process, is left out
Levels == Nil .. Reboot

ASSUME RestartAssumption ==
    /\ NumModules \in Nat \ {0} /\ NumThreads \in Nat
    /\ Owner \in [Threads -> Modules]
    /\ Housekeepers \subseteq Threads
    /\ Readers \subseteq {t \in Threads : Owner[t] = 1}
    /\ Reasons \subseteq Levels \ {Nil}
    /\ MaxRequests \in Nat /\ MaxTraps \in Nat /\ MaxLate \in Nat /\ MaxLosses \in Nat

VARIABLES
    rstate, rpc,       \* RootThread: its state, and where it is
    rflag, revent,     \* its Restart flag, and whether its sleep is interrupted
    istate, ipc,       \* InitThread: its state, and where it is
    iflag, ievent,     \* the same for InitThread
    closing,           \* InitThread has SIGCLOSE pending
    status, level,     \* Restart::Status_ and Restart::Level_
    reason,            \* the level of ModuleRegistry's reason_
    reentered,         \* a local of ModuleRegistry::Restart
    mod,               \* the module that is shut down or started up next
    up,                \* the modules that are started
    factions,          \* the factions that are enabled
    thread,            \* what each thread does
    request,           \* how far each thread has come with a request
    critical,          \* a thread whose death is critical
    recreate,          \* InitThread's Recreate flag
    tried,             \* the levels tried since the system was in service
    restarts,          \* the number of restarts of a system in service
    owed,              \* a restart was requested and has not begun
    requests, traps, late, losses

rootVars == <<rstate, rpc, rflag, revent>>
initVars == <<istate, ipc, iflag, ievent, closing>>
regVars == <<status, level, reentered, mod, up, factions>>
history == <<tried, restarts, owed>>
counts == <<requests, traps, late, losses>>
vars == <<rootVars, initVars, regVars, reason, thread, request, critical, recreate,
          history, counts>>

RootPc == {"Create", "Pause", "Test", "Settle"}

InitPc == {"None", "Enter", "Loop", "Drain", "Exits", "Shutdown", "Startup", "Done",
           "Pause", "Interrupted", "Recreate"}

Statuses == {"Initial", "StartingUp", "Running", "ShuttingDown"}

\* Asleep: it survives a restart because it is blocked on input.  Resting: so it
\* did, and it is now blocked in the pause into which it was forced.  Leaving: it
\* was, and has been told to exit when the restart was tried again.
ThreadState == {"None", "Up", "Reading", "Asleep", "Resting", "Exiting", "Leaving"}

\* How far a thread has come that caught the exception of Restart::Initiate.
\* Stale: the InitThread whose address it has is deleted.
RequestPc == {"Idle", "Root", "StaleRoot", "Init"}

Init ==
    /\ rstate = "Initializing" /\ rpc = "Create" /\ rflag = FALSE /\ revent = FALSE
    /\ istate = "Initializing" /\ ipc = "None" /\ iflag = FALSE /\ ievent = FALSE
    /\ closing = FALSE
    /\ status = "Initial" /\ level = Nil /\ reason = Warm /\ reentered = FALSE
    /\ mod = 1 /\ up = {} /\ factions = "All"
    /\ thread = [t \in Threads |-> "None"] /\ request = [t \in Threads |-> "Idle"]
    /\ critical = "Alive" /\ recreate = FALSE
    /\ tried = {} /\ restarts = 0 /\ owed = FALSE
    /\ requests = 0 /\ traps = 0 /\ late = 0 /\ losses = 0

-----------------------------------------------------------------------------
(* RootThread.                                                              *)

\* InitThread's constructor, invoked by the first who refers to it.
NewInitThread ==
    /\ istate' = "Initializing" /\ ipc' = "Enter"
    /\ iflag' = FALSE /\ ievent' = FALSE /\ closing' = FALSE /\ recreate' = FALSE
    /\ request' = [t \in Threads |-> CASE request[t] = "Root" -> "StaleRoot"
                                      [] request[t] = "Init" -> "Idle"
                                      [] OTHER -> request[t]]

InterruptRoot(flag) ==
    /\ rflag' = (rflag \/ flag)
    /\ revent' = TRUE

RootCreate ==
    /\ rpc = "Create"
    /\ IF ipc = "None" THEN NewInitThread
                       ELSE UNCHANGED <<initVars, recreate, request>>
    /\ rpc' = "Pause"
    /\ UNCHANGED <<rstate, rflag, revent, regVars, reason, thread, critical, history, counts>>

RootWakes ==
    /\ rpc = "Pause" /\ revent
    /\ revent' = FALSE
    /\ rpc' = "Test"
    /\ UNCHANGED <<rstate, rflag, initVars, regVars, reason, thread, request, critical, recreate, history, counts>>

\* Initializing, a restart restarts the watchdog; running, it starts the watchdog
\* of a restart.  Any other interrupt says that InitThread is well.
RootTests ==
    /\ rpc = "Test"
    /\ rflag' = FALSE
    /\ rstate' = IF rflag THEN "Initializing" ELSE "Running"
    /\ rpc' = IF rflag THEN "Create" ELSE "Pause"
    /\ UNCHANGED <<revent, initVars, regVars, reason, thread, request, critical, recreate, history, counts>>

\* The watchdog expires: in time if InitThread is gone, and too soon at most
\* MaxLate times.
Expires ==
    /\ rpc = "Pause" /\ ~revent
    /\ late' = IF ipc = "None" THEN late ELSE late + 1
    /\ late' <= MaxLate

\* An initialization takes too long: InitThread is forced to exit.
InitTimeout ==
    /\ rstate = "Initializing" /\ Expires
    /\ IF ipc = "None" THEN rpc' = "Create" /\ UNCHANGED <<closing, ievent>>
                       ELSE rpc' = "Settle" /\ closing' = TRUE /\ ievent' = TRUE
    /\ UNCHANGED <<rstate, rflag, revent, istate, ipc, iflag, regVars, reason, thread,
                   request, critical, recreate, history, requests, traps, losses>>

\* No heartbeat: InitThread is told to restart the system.
SchedTimeout ==
    /\ rstate = "Running" /\ Expires
    /\ IF ipc = "None" THEN UNCHANGED <<iflag, ievent>>
                       ELSE iflag' = TRUE /\ ievent' = TRUE
    /\ rstate' = "Initializing" /\ rpc' = "Create"
    /\ UNCHANGED <<rflag, revent, istate, ipc, closing, regVars, reason, thread,
                   request, critical, recreate, history, requests, traps, losses>>

\* A short pause, which an interrupt ends, before InitThread is created again.
RootSettles ==
    /\ rpc = "Settle"
    /\ revent' = FALSE /\ rpc' = "Create"
    /\ UNCHANGED <<rstate, rflag, initVars, regVars, reason, thread, request, critical, recreate, history, counts>>

-----------------------------------------------------------------------------
(* InitThread and ModuleRegistry.                                           *)

\* Enter, after the thread's creation or a trap.
InitEnter ==
    /\ ipc = "Enter"
    /\ IF istate = "Running"
         THEN ipc' = "Interrupted" /\ UNCHANGED reentered
         ELSE ipc' = "Loop" /\ reentered' = TRUE
    /\ UNCHANGED <<rootVars, istate, iflag, ievent, closing, status, level, mod, up, factions,
                   reason, thread, request, critical, recreate, history, counts>>

\* Mutant of NextLevel: a restart that fails is tried again at the same level
SameLevel == level

NextLevel == IF level \in {Warm, Cold} THEN level + 1 ELSE Reboot

LoopInitial ==
    /\ status = "Initial"
    /\ factions' = "None" /\ reentered' = FALSE
    /\ level' = Reboot /\ status' = "StartingUp"
    /\ UNCHANGED <<ipc, mod, tried, restarts, owed>>

LoopStartup ==
    /\ status = "StartingUp"
    /\ factions' = "None"
    /\ IF reentered THEN status' = "ShuttingDown" /\ UNCHANGED <<ipc, mod>>
                    ELSE ipc' = "Startup" /\ mod' = 1 /\ UNCHANGED status
    /\ UNCHANGED <<level, reentered, tried, restarts, owed>>

LoopRunning ==
    /\ status = "Running"
    /\ reentered' = FALSE
    /\ level' = reason /\ status' = "ShuttingDown"
    /\ restarts' = restarts + 1
    /\ UNCHANGED <<ipc, mod, factions, tried, owed>>

LoopShutdown ==
    /\ status = "ShuttingDown"
    /\ level' = IF reentered THEN NextLevel ELSE level
    /\ factions' = "Housekeeping"
    /\ ipc' = "Drain"
    /\ tried' = tried \union {level'} /\ owed' = FALSE
    /\ UNCHANGED <<status, reentered, mod, restarts>>

\* One pass through the loop of ModuleRegistry::Restart, up to the loop in which
\* Shutdown waits for logs to be output.
RestartLoop ==
    /\ ipc = "Loop"
    /\ LoopInitial \/ LoopStartup \/ LoopRunning \/ LoopShutdown
    /\ UNCHANGED <<rootVars, istate, iflag, ievent, closing, up, reason, thread, request,
                   critical, recreate, counts>>

\* Thread::Restarting: who is not blocked on input is told to exit.  Who sleeps
\* since it survived an earlier try of this restart may still be blocked.
Notified(s) == CASE s \in {"Reading", "Asleep"} -> "Asleep"
                 [] s \in {"Resting", "Leaving"} -> "Leaving"
                 [] s \in {"Up", "Exiting"} -> "Exiting"
                 [] s = "None" -> "None"

\* Mutant: a pause resets the flag as well.
PauseForgets == ievent' = FALSE /\ iflag' = FALSE

\* An interrupt ends the pauses of Shutdown, but its flag stays.
PauseInShutdown == ievent' = FALSE /\ UNCHANGED iflag

\* Logs have been output; Shutdown notifies the threads.
Drained ==
    /\ ipc = "Drain"
    /\ thread' = [t \in Threads |-> Notified(thread[t])]
    /\ factions' = "All" /\ ipc' = "Exits" /\ PauseInShutdown
    /\ UNCHANGED <<rootVars, istate, closing, status, level, reentered, mod, up,
                   reason, request, critical, recreate, history, counts>>

\* Mutant: the threads are not waited for.
NoneAwaited == TRUE

AllExited == \A t \in Threads : thread[t] \notin {"Exiting", "Leaving"}

\* The planned number of threads have exited; modules are shut down from the last.
ThreadsExited ==
    /\ ipc = "Exits" /\ AllExited
    /\ factions' = "None" /\ ipc' = "Shutdown" /\ mod' = NumModules /\ PauseInShutdown
    /\ UNCHANGED <<rootVars, istate, closing, status, level, reentered, up,
                   reason, thread, request, critical, recreate, history, counts>>

ShutdownModule ==
    /\ ipc = "Shutdown"
    /\ IF mod = 0
         THEN /\ reentered' = FALSE /\ status' = "StartingUp" /\ ipc' = "Loop"
              /\ UNCHANGED <<mod, up>>
         ELSE /\ up' = up \ {mod} /\ mod' = mod - 1
              /\ UNCHANGED <<reentered, status, ipc>>
    /\ UNCHANGED <<rootVars, istate, iflag, ievent, closing, level, factions, reason, thread,
                   request, critical, recreate, history, counts>>

\* The startup of a module creates its threads.  That of the first one, which has
\* the registries of threads and daemons, wakes the survivors.
StartThreads ==
    thread' = [t \in Threads |->
                 IF thread[t] = "None" /\ Owner[t] = mod THEN "Up"
                 ELSE IF thread[t] = "Asleep" /\ mod = 1 THEN "Reading"
                 ELSE IF thread[t] = "Resting" /\ mod = 1 THEN "Up"
                 ELSE thread[t]]

\* Mutant: the factions remain disabled.
InServiceSilently ==
    /\ level' = Nil /\ status' = "Running" /\ UNCHANGED factions
    /\ ipc' = "Done" /\ tried' = {}

InService ==
    /\ level' = Nil /\ status' = "Running" /\ factions' = "All"
    /\ ipc' = "Done" /\ tried' = {}

StartupModule ==
    /\ ipc = "Startup"
    /\ IF mod > NumModules
         THEN InService /\ UNCHANGED <<mod, up, thread, critical>>
         ELSE /\ up' = up \union {mod} /\ mod' = mod + 1
              /\ StartThreads
              /\ critical' = IF mod = 1 THEN "Alive" ELSE critical
              /\ UNCHANGED <<level, status, factions, ipc, tried>>
    /\ UNCHANGED <<rootVars, istate, iflag, ievent, closing, reentered, reason, request,
                   recreate, restarts, owed, counts>>

\* The end of InitializeSystem: the system is in service.
InitDone ==
    /\ ipc = "Done"
    /\ istate' = "Running" /\ ipc' = "Pause"
    /\ InterruptRoot(FALSE)
    /\ UNCHANGED <<rstate, rpc, iflag, ievent, closing, regVars, reason, thread, request,
                   critical, recreate, history, counts>>

InitWakes ==
    /\ ipc = "Pause" /\ ievent
    /\ ievent' = FALSE /\ ipc' = "Interrupted"
    /\ UNCHANGED <<rootVars, istate, iflag, closing, regVars, reason, thread, request, critical,
                   recreate, history, counts>>

\* HandleTimeout looks at no flag.
InitTimesOut ==
    /\ ipc = "Pause" /\ ~ievent
    /\ InterruptRoot(FALSE)
    /\ UNCHANGED <<rstate, rpc, initVars, regVars, reason, thread, request, critical, recreate,
                   history, counts>>

\* Mutant: the flags are not reset.
KeepFlags == UNCHANGED <<iflag, recreate>>

ResetFlags == iflag' = FALSE /\ recreate' = FALSE

HandleInterrupt ==
    /\ ipc = "Interrupted"
    /\ IF iflag
         THEN /\ ResetFlags
              /\ istate' = "Initializing" /\ ipc' = "Loop" /\ reentered' = TRUE
              /\ UNCHANGED <<rflag, revent>>
         ELSE /\ InterruptRoot(FALSE)
              /\ ipc' = IF recreate THEN "Recreate" ELSE "Pause"
              /\ UNCHANGED <<iflag, recreate, istate, reentered>>
    /\ UNCHANGED <<rstate, rpc, ievent, closing, status, level, mod, up, factions, reason,
                   thread, request, critical, history, counts>>

\* RecreateThreads finds nothing missing, or replaces what is.
Recreated ==
    /\ ipc = "Recreate" /\ critical # "Dead"
    /\ critical' = "Alive" /\ recreate' = FALSE /\ ipc' = "Pause"
    /\ UNCHANGED <<rootVars, istate, iflag, ievent, closing, regVars, reason, thread, request,
                   history, counts>>

\* The daemon of a critical thread cannot replace it and raises a critical alarm.
\* Restart::Initiate throws, and InitThread is reentered.
RaiseCriticalAlarm ==
    /\ ipc = "Recreate" /\ critical # "Alive"
    /\ critical' = "Dead" /\ ipc' = "Enter"
    /\ UNCHANGED <<rootVars, istate, iflag, ievent, closing, regVars, reason, thread, request,
                   recreate, history, counts>>

\* InitThread traps, or the startup of a module throws, and InitThread is
\* reentered unless it has trapped too often.
InitTraps ==
    /\ ipc \notin {"None", "Enter", "Pause"} /\ traps < MaxTraps
    /\ traps' = traps + 1
    /\ ipc' \in {"Enter", "None"}
    /\ UNCHANGED <<rootVars, istate, iflag, ievent, closing, regVars, reason, thread, request,
                   critical, recreate, history, requests, late, losses>>

\* SIGCLOSE is thrown when it is safe to do so.
InitExits ==
    /\ ipc # "None" /\ closing
    /\ ipc' = "None"
    /\ UNCHANGED <<rootVars, istate, iflag, ievent, closing, regVars, reason, thread, request,
                   critical, recreate, history, counts>>

-----------------------------------------------------------------------------
(* Other threads.                                                           *)

Enabled(t) ==
    \/ factions = "All"
    \/ factions = "Housekeeping" /\ t \in Housekeepers

\* A thread initiates a restart; its Start function catches the exception.  A
\* thread that finds no InitThread would create it: RootThread, which is faster,
\* does so here.
Request(t) ==
    /\ thread[t] = "Up" /\ request[t] = "Idle" /\ Enabled(t)
    /\ ipc # "None" /\ requests < MaxRequests /\ requests' = requests + 1
    /\ reason' \in Reasons
    /\ request' = [request EXCEPT ![t] = "Root"]
    /\ UNCHANGED <<rootVars, initVars, regVars, thread, critical, recreate, history, traps, late, losses>>

RequestRoot(t) ==
    /\ request[t] \in {"Root", "StaleRoot"}
    /\ InterruptRoot(TRUE)
    /\ request' = [request EXCEPT ![t] = IF @ = "Root" THEN "Init" ELSE "Idle"]
    /\ UNCHANGED <<rstate, rpc, initVars, regVars, reason, thread, critical, recreate, history, counts>>

\* If InitThread is gone meanwhile, nothing is interrupted.
RequestInit(t) ==
    /\ request[t] = "Init"
    /\ IF ipc = "None" THEN UNCHANGED <<iflag, ievent, owed>>
                       ELSE iflag' = TRUE /\ ievent' = TRUE /\ owed' = TRUE
    /\ request' = [request EXCEPT ![t] = "Idle"]
    /\ UNCHANGED <<rootVars, istate, ipc, closing, regVars, reason, thread, critical, recreate,
                   tried, restarts, counts>>

\* A thread that yields has InitThread schedule another one.
Yield(t) ==
    /\ thread[t] = "Up" /\ factions = "All" /\ ipc # "None"
    /\ ievent' = TRUE
    /\ UNCHANGED <<rootVars, istate, ipc, iflag, closing, regVars, reason, thread, request,
                   critical, recreate, history, counts>>

Read(t) ==
    /\ t \in Readers /\ thread[t] = "Up" /\ request[t] = "Idle" /\ Enabled(t)
    /\ thread' = [thread EXCEPT ![t] = "Reading"]
    /\ UNCHANGED <<rootVars, initVars, regVars, reason, request, critical, recreate, history, counts>>

\* Input arrives.  A thread that sleeps during a restart pauses now, and will be
\* told to exit if the restart is tried again.
HasRead(t) ==
    /\ thread[t] \in {"Reading", "Asleep"}
    /\ thread' = [thread EXCEPT ![t] = IF @ = "Reading" THEN "Up" ELSE "Resting"]
    /\ UNCHANGED <<rootVars, initVars, regVars, reason, request, critical, recreate, history, counts>>

\* A thread that was told to exit is scheduled and does so, even while it requests
\* a restart.
ExitThread(t) ==
    /\ thread[t] \in {"Exiting", "Leaving"} /\ Enabled(t)
    /\ thread' = [thread EXCEPT ![t] = "None"]
    /\ request' = [request EXCEPT ![t] = "Idle"]
    /\ UNCHANGED <<rootVars, initVars, regVars, reason, critical, recreate, history, counts>>

LoseCritical ==
    /\ status = "Running" /\ factions = "All" /\ critical = "Alive"
    /\ ipc # "None" /\ losses < MaxLosses
    /\ losses' = losses + 1
    /\ critical' = "Missing"
    /\ recreate' = TRUE /\ ievent' = TRUE
    /\ UNCHANGED <<rootVars, istate, ipc, iflag, closing, regVars, reason, thread, request,
                   history, requests, traps, late>>

-----------------------------------------------------------------------------
RootStep == RootCreate \/ RootWakes \/ RootTests \/ RootSettles

InitStep ==
    \/ InitEnter \/ RestartLoop \/ Drained \/ ThreadsExited \/ ShutdownModule
    \/ StartupModule \/ InitDone \/ InitWakes \/ InitTimesOut \/ HandleInterrupt
    \/ Recreated \/ RaiseCriticalAlarm

Watchdog == InitTimeout \/ SchedTimeout

Next ==
    \/ RootStep \/ Watchdog
    \/ InitStep \/ InitTraps \/ InitExits
    \/ \E t \in Threads : Request(t) \/ RequestRoot(t) \/ RequestInit(t)
    \/ \E t \in Threads : Yield(t) \/ Read(t) \/ HasRead(t) \/ ExitThread(t)
    \/ LoseCritical

Spec == Init /\ [][Next]_vars

\* RootThread and InitThread run whenever they want to, and RootThread's timer
\* expires.  Other threads get their turns (module Scheduler) while their faction
\* is enabled; one that is in the middle of a request goes on with it.  Neither
\* input nor requests nor faults have to occur.
FairSpec ==
    /\ Spec
    /\ WF_vars(RootStep) /\ WF_vars(ipc = "None" /\ Watchdog)
    /\ WF_vars(InitStep) /\ WF_vars(InitExits)
    /\ \A t \in Threads :
         /\ WF_vars(RequestRoot(t) \/ RequestInit(t))
         /\ WF_vars(Yield(t)) /\ WF_vars(ExitThread(t))

-----------------------------------------------------------------------------
(* Properties.                                                              *)

RootTypeOK ==
    /\ rstate \in {"Initializing", "Running"} /\ rpc \in RootPc
    /\ rflag \in BOOLEAN /\ revent \in BOOLEAN

InitTypeOK ==
    /\ istate \in {"Initializing", "Running"} /\ ipc \in InitPc
    /\ iflag \in BOOLEAN /\ ievent \in BOOLEAN /\ closing \in BOOLEAN

RegTypeOK ==
    /\ status \in Statuses /\ level \in Levels /\ reason \in Levels \ {Nil}
    /\ reentered \in BOOLEAN /\ mod \in 0 .. NumModules + 1 /\ up \subseteq Modules
    /\ factions \in {"None", "Housekeeping", "All"}

ThreadTypeOK ==
    /\ thread \in [Threads -> ThreadState] /\ request \in [Threads -> RequestPc]
    /\ critical \in {"Alive", "Missing", "Dead"} /\ recreate \in BOOLEAN

HistoryTypeOK == tried \subseteq Levels /\ restarts \in Nat /\ owed \in BOOLEAN

CountTypeOK ==
    /\ requests \in 0 .. MaxRequests /\ traps \in 0 .. MaxTraps
    /\ late \in 0 .. MaxLate /\ losses \in 0 .. MaxLosses

\* The variables keep their types, although restarts are escalated without end
\* and the modules are counted up and down from wherever a trap left them.
RestartTypeOK ==
    /\ RootTypeOK /\ InitTypeOK /\ RegTypeOK /\ ThreadTypeOK
    /\ HistoryTypeOK /\ CountTypeOK

\* A thread that may run finds the module that created it, and with it the data
\* that the module manages: no module is shut down before its threads have exited,
\* although restarts are interrupted anywhere and begun again.  Only a survivor
\* of an earlier try, which is Leaving, exits while its module is down.
ThreadsHaveModules ==
    \A t \in Threads : thread[t] \in {"Up", "Reading", "Exiting"} => Owner[t] \in up

\* A restart that failed is not tried again at a level that did not work, unless
\* that is the highest one.
Escalates ==
    [][ipc = "Loop" /\ ipc' = "Drain" => level' \notin tried \/ level' = Reboot]_vars

\* A system in service is restarted at most once for each request, watchdog and
\* trap: no restart leaves behind what causes the next one.
NoNeedlessRestart == restarts <= requests + late + traps

\* A restart that was requested begins, whatever happens to InitThread, and even
\* if it was requested during another one.
RequestsAreServed == owed ~> ~owed

\* When nothing goes wrong any more, the system comes into service and stays there.
EventuallyInService == <>[](status = "Running" /\ factions = "All" /\ up = Modules)

\* "Anything other than a critical alarm is rather hypothetical because there
\* should have been enough traps to cause a restart" (SbDaemons.cpp): a critical
\* alarm invokes Restart::Initiate, which "forces a restart" (Restart.h).
CriticalDeathRestarts == critical = "Dead" ~> status # "Running"
=============================================================================
