------------------------- MODULE SystemRestart_proofs -------------------------
(***************************************************************************)
(* Proofs about SystemRestart, for any number of modules and threads and   *)
(* any number of requests, traps, early watchdogs and losses.              *)
(***************************************************************************)
EXTENDS SystemRestart, FiniteSetTheorems, TLAPS

\* Only a thread that reads input survives a restart.  Once threads are told to
\* exit, none runs normally; once they are awaited, only survivors are left.
ThreadInv ==
    \A t \in Threads :
        /\ thread[t] \in {"Reading", "Asleep", "Resting", "Leaving"} => t \in Readers
        /\ ipc = "Exits" => thread[t] \notin {"Up", "Reading"}
        /\ ipc = "Shutdown" => thread[t] \in {"None", "Asleep", "Resting"}

\* The levels that have been tried are below the one that is tried next, and the
\* first try of a restart follows a system in service.
LevelInv ==
    /\ \A l \in tried : l <= level
    /\ status \in {"Initial", "Running"} => tried = {}
    /\ ipc = "Loop" /\ status = "ShuttingDown" => reentered \/ tried = {}

\* Modules are started up from the first and shut down from the last.
ModInv == (ipc = "Startup" => mod > 0) /\ (ipc = "Shutdown" => mod <= NumModules)

TypeInv == RestartTypeOK /\ ModInv

IInv == TypeInv /\ ThreadsHaveModules /\ ThreadInv /\ LevelInv

-----------------------------------------------------------------------------
(* Types.                                                                   *)

\* Restart levels are the numbers 0 to 4.
LEMMA LevelsAre ==
  /\ Levels = {Nil, Warm, Cold, Reload, Reboot} /\ Levels \subseteq Nat
  /\ Nil = 0 /\ Warm = 1 /\ Cold = 2 /\ Reload = 3 /\ Reboot = 4
  BY DEF Levels, Nil, Warm, Cold, Reload, Reboot

\* The bounds are numbers, and there is a module.
LEMMA BoundsAre ==
  /\ NumModules \in Nat /\ NumModules > 0
  /\ MaxRequests \in Nat /\ MaxTraps \in Nat /\ MaxLate \in Nat /\ MaxLosses \in Nat
  BY RestartAssumption

\* A request for a restart names a level.
LEMMA ReasonsAre == Reasons \subseteq Levels \ {Nil}
  BY RestartAssumption

\* The types hold initially.
LEMMA InitTypes == Init => TypeInv
<1> SUFFICES ASSUME Init PROVE TypeInv
  OBVIOUS
<1>1. RootTypeOK /\ InitTypeOK
  BY DEF Init, RootTypeOK, InitTypeOK, RootPc, InitPc
<1>2. RegTypeOK
  <2>1. mod \in 0 .. NumModules + 1
    BY BoundsAre DEF Init
  <2>2. level \in Levels /\ reason \in Levels \ {Nil}
    BY LevelsAre DEF Init
  <2> QED BY <2>1, <2>2 DEF Init, RegTypeOK, Statuses
<1>3. ThreadTypeOK
  BY DEF Init, ThreadTypeOK, ThreadState, RequestPc
<1>4. HistoryTypeOK /\ CountTypeOK
  <2>1. restarts \in Nat
    BY DEF Init
  <2>2. owed \in BOOLEAN /\ tried \subseteq Levels
    BY DEF Init
  <2>3. CountTypeOK
    BY BoundsAre DEF Init, CountTypeOK
  <2> QED BY <2>1, <2>2, <2>3 DEF HistoryTypeOK
<1>5. ModInv
  BY DEF Init, ModInv
<1> QED BY <1>1, <1>2, <1>3, <1>4, <1>5 DEF RestartTypeOK, TypeInv

\* The variables of each part are unchanged, and with them the part.
LEMMA UnchangedTypes ==
  /\ RootTypeOK /\ UNCHANGED rootVars => RootTypeOK'
  /\ InitTypeOK /\ UNCHANGED initVars => InitTypeOK'
  /\ RegTypeOK /\ UNCHANGED <<regVars, reason>> => RegTypeOK'
  /\ ThreadTypeOK /\ UNCHANGED <<thread, request, critical, recreate>> => ThreadTypeOK'
  /\ HistoryTypeOK /\ UNCHANGED history => HistoryTypeOK'
  /\ CountTypeOK /\ UNCHANGED counts => CountTypeOK'
<1>1. RootTypeOK /\ UNCHANGED rootVars => RootTypeOK'
  BY DEF RootTypeOK, rootVars
<1>2. InitTypeOK /\ UNCHANGED initVars => InitTypeOK'
  BY DEF InitTypeOK, initVars
<1>3. RegTypeOK /\ UNCHANGED <<regVars, reason>> => RegTypeOK'
  BY DEF RegTypeOK, regVars
<1>4. ThreadTypeOK /\ UNCHANGED <<thread, request, critical, recreate>> => ThreadTypeOK'
  BY DEF ThreadTypeOK
<1>5. HistoryTypeOK /\ UNCHANGED history => HistoryTypeOK'
  BY DEF HistoryTypeOK, history
<1>6. CountTypeOK /\ UNCHANGED counts => CountTypeOK'
  BY DEF CountTypeOK, counts
<1> QED BY <1>1, <1>2, <1>3, <1>4, <1>5, <1>6

\* RootThread and its watchdog preserve the types.
LEMMA RootTypes ==
  ASSUME TypeInv, RootStep \/ Watchdog
  PROVE  TypeInv'
<1> USE DEF TypeInv, RestartTypeOK, ModInv
<1>1. RegTypeOK' /\ HistoryTypeOK'
  BY UnchangedTypes DEF RootStep, RootCreate, RootWakes, RootTests, RootSettles, Watchdog,
                        InitTimeout, SchedTimeout
<1>2. CASE RootCreate
  <2>1. RootTypeOK' /\ CountTypeOK'
    BY <1>2, UnchangedTypes DEF RootCreate, RootTypeOK, RootPc
  <2>2. CASE ipc = "None"
    <3>1. InitTypeOK'
      BY <1>2, <2>2 DEF RootCreate, NewInitThread, InitTypeOK, InitPc
    <3>2. ThreadTypeOK'
      BY <1>2, <2>2 DEF RootCreate, NewInitThread, ThreadTypeOK, RequestPc
    <3>3. ModInv'
      BY <1>2, <2>2 DEF RootCreate, NewInitThread
    <3> QED BY <1>1, <2>1, <3>1, <3>2, <3>3
  <2>3. CASE ipc # "None"
    <3>1. InitTypeOK' /\ ThreadTypeOK' /\ ModInv'
      BY <1>2, <2>3, UnchangedTypes DEF RootCreate, initVars, regVars
    <3> QED BY <1>1, <2>1, <3>1
  <2> QED BY <2>2, <2>3
<1>3. CASE RootWakes \/ RootTests \/ RootSettles
  <2>1. RootTypeOK'
    BY <1>3 DEF RootWakes, RootTests, RootSettles, RootTypeOK, RootPc
  <2>2. InitTypeOK' /\ ThreadTypeOK' /\ CountTypeOK' /\ ModInv'
    BY <1>3, UnchangedTypes DEF RootWakes, RootTests, RootSettles, initVars, regVars
  <2> QED BY <1>1, <2>1, <2>2
<1>4. CASE Watchdog
  <2>1. RootTypeOK' /\ InitTypeOK'
    BY <1>4 DEF Watchdog, InitTimeout, SchedTimeout, RootTypeOK, RootPc, InitTypeOK
  <2>2. ThreadTypeOK' /\ ModInv'
    BY <1>4, UnchangedTypes DEF Watchdog, InitTimeout, SchedTimeout, regVars
  <2>3. CountTypeOK'
    BY <1>4, BoundsAre DEF Watchdog, InitTimeout, SchedTimeout, Expires, CountTypeOK
  <2> QED BY <1>1, <2>1, <2>2, <2>3
<1> QED BY <1>2, <1>3, <1>4 DEF RootStep

\* So does the choice of a level and of what to do,
LEMMA LoopTypes ==
  ASSUME TypeInv, RestartLoop
  PROVE  TypeInv'
<1> USE DEF TypeInv, RestartTypeOK
<1>1. RootTypeOK' /\ ThreadTypeOK' /\ CountTypeOK'
  BY UnchangedTypes DEF RestartLoop
<1>2. NextLevel \in Levels /\ Reboot \in Levels /\ reason \in Levels /\ level \in Levels
  BY LevelsAre DEF NextLevel, RegTypeOK
<1>3. mod' \in 0 .. NumModules + 1
  BY BoundsAre
     DEF RestartLoop, LoopInitial, LoopStartup, LoopRunning, LoopShutdown, RegTypeOK
<1>4. level' \in Levels
  BY <1>2 DEF RestartLoop, LoopInitial, LoopStartup, LoopRunning, LoopShutdown
<1>5. RegTypeOK'
  BY <1>3, <1>4
     DEF RestartLoop, LoopInitial, LoopStartup, LoopRunning, LoopShutdown, RegTypeOK, Statuses
<1>6. InitTypeOK'
  BY DEF RestartLoop, LoopInitial, LoopStartup, LoopRunning, LoopShutdown, InitTypeOK, InitPc
<1>7. HistoryTypeOK'
  <2> USE DEF RestartLoop, LoopInitial, LoopStartup, LoopRunning, LoopShutdown, HistoryTypeOK
  <2>1. tried' \subseteq Levels
    BY <1>4
  <2>2. restarts' \in Nat
    OBVIOUS
  <2>3. owed' \in BOOLEAN
    OBVIOUS
  <2> QED BY <2>1, <2>2, <2>3
<1>8. ModInv'
  BY DEF RestartLoop, LoopInitial, LoopStartup, LoopRunning, LoopShutdown, ModInv
<1> QED BY <1>1, <1>5, <1>6, <1>7, <1>8

\* so does the shutdown of modules,
LEMMA ShutdownTypes ==
  ASSUME TypeInv, Drained \/ ThreadsExited \/ ShutdownModule
  PROVE  TypeInv'
<1> USE DEF TypeInv, RestartTypeOK
<1>1. RootTypeOK' /\ HistoryTypeOK' /\ CountTypeOK'
  BY UnchangedTypes DEF Drained, ThreadsExited, ShutdownModule
<1>2. InitTypeOK'
  BY DEF Drained, ThreadsExited, ShutdownModule, PauseInShutdown, InitTypeOK, InitPc
<1>3. ThreadTypeOK'
  <2>1. \A t \in Threads : Notified(thread[t]) \in ThreadState
    BY DEF ThreadTypeOK, Notified, ThreadState
  <2>2. CASE Drained
    BY <2>1, <2>2 DEF Drained, ThreadTypeOK
  <2>3. CASE ThreadsExited \/ ShutdownModule
    BY <2>3, UnchangedTypes DEF ThreadsExited, ShutdownModule
  <2> QED BY <2>2, <2>3
<1>4. mod' \in 0 .. NumModules + 1 /\ ModInv'
  BY BoundsAre DEF Drained, ThreadsExited, ShutdownModule, RegTypeOK, ModInv
<1>5. RegTypeOK'
  BY <1>4 DEF Drained, ThreadsExited, ShutdownModule, RegTypeOK, Statuses
<1> QED BY <1>1, <1>2, <1>3, <1>4, <1>5

\* so does their startup,
LEMMA StartupTypes ==
  ASSUME TypeInv, StartupModule
  PROVE  TypeInv'
<1> USE DEF TypeInv, RestartTypeOK
<1>1. RootTypeOK' /\ CountTypeOK'
  BY UnchangedTypes DEF StartupModule
<1>2. InitTypeOK' /\ HistoryTypeOK'
  BY DEF StartupModule, InService, InitTypeOK, InitPc, HistoryTypeOK
<1>3. ThreadTypeOK'
  BY DEF StartupModule, StartThreads, ThreadTypeOK, ThreadState
<1>4. mod' \in 0 .. NumModules + 1 /\ ModInv'
  BY BoundsAre DEF StartupModule, InService, RegTypeOK, ModInv
<1>5. up' \subseteq Modules
  <2>1. CASE mod > NumModules
    BY <2>1 DEF StartupModule, RegTypeOK
  <2>2. CASE ~(mod > NumModules)
    <3>1. mod \in Modules
      BY <2>2, BoundsAre DEF StartupModule, RegTypeOK, ModInv, Modules
    <3>2. up' = up \union {mod}
      BY <2>2 DEF StartupModule
    <3> QED BY <3>1, <3>2 DEF RegTypeOK
  <2> QED BY <2>1, <2>2
<1>6. RegTypeOK'
  BY <1>4, <1>5, LevelsAre DEF StartupModule, InService, RegTypeOK, Statuses
<1> QED BY <1>1, <1>2, <1>3, <1>4, <1>6

\* so does what InitThread does between restarts, or when it traps,
LEMMA RunningTypes ==
  ASSUME TypeInv,
         InitEnter \/ InitDone \/ InitWakes \/ InitTimesOut \/ HandleInterrupt
           \/ Recreated \/ RaiseCriticalAlarm \/ InitTraps \/ InitExits
  PROVE  TypeInv'
<1> USE DEF TypeInv, RestartTypeOK
<1>1. HistoryTypeOK'
  BY UnchangedTypes DEF InitEnter, InitDone, InitWakes, InitTimesOut, HandleInterrupt,
                        Recreated, RaiseCriticalAlarm, InitTraps, InitExits
<1>2. RootTypeOK'
  BY DEF InitEnter, InitDone, InitWakes, InitTimesOut, HandleInterrupt, Recreated,
         RaiseCriticalAlarm, InitTraps, InitExits, InterruptRoot, RootTypeOK, rootVars
<1>3. InitTypeOK'
  BY DEF InitEnter, InitDone, InitWakes, InitTimesOut, HandleInterrupt, Recreated,
         RaiseCriticalAlarm, InitTraps, InitExits, ResetFlags, InitTypeOK, InitPc, initVars
<1>4. RegTypeOK' /\ ModInv'
  BY DEF InitEnter, InitDone, InitWakes, InitTimesOut, HandleInterrupt, Recreated,
         RaiseCriticalAlarm, InitTraps, InitExits, RegTypeOK, ModInv, regVars, initVars
<1>5. ThreadTypeOK'
  BY DEF InitEnter, InitDone, InitWakes, InitTimesOut, HandleInterrupt, Recreated,
         RaiseCriticalAlarm, InitTraps, InitExits, ResetFlags, ThreadTypeOK
<1>6. CountTypeOK'
  <2>1. CASE InitTraps
    BY <2>1, BoundsAre DEF InitTraps, CountTypeOK
  <2>2. CASE ~InitTraps
    BY <2>2, UnchangedTypes
       DEF InitEnter, InitDone, InitWakes, InitTimesOut, HandleInterrupt, Recreated,
           RaiseCriticalAlarm, InitExits
  <2> QED BY <2>1, <2>2
<1> QED BY <1>1, <1>2, <1>3, <1>4, <1>5, <1>6

\* and so do the other threads.
LEMMA OtherTypes ==
  ASSUME TypeInv,
         \/ \E t \in Threads : Request(t) \/ RequestRoot(t) \/ RequestInit(t)
         \/ \E t \in Threads : Yield(t) \/ Read(t) \/ HasRead(t) \/ ExitThread(t)
         \/ LoseCritical
  PROVE  TypeInv'
<1> USE DEF TypeInv, RestartTypeOK
<1>1. RootTypeOK' /\ HistoryTypeOK'
  BY DEF Request, RequestRoot, RequestInit, Yield, Read, HasRead, ExitThread, LoseCritical,
         InterruptRoot, RootTypeOK, rootVars, HistoryTypeOK, history
<1>2. InitTypeOK'
  BY DEF Request, RequestRoot, RequestInit, Yield, Read, HasRead, ExitThread, LoseCritical,
         InitTypeOK, initVars
<1>3. RegTypeOK' /\ ModInv'
  <2>1. CASE \E t \in Threads : Request(t)
    BY <2>1, ReasonsAre DEF Request, RegTypeOK, ModInv, regVars, initVars
  <2>2. CASE LoseCritical
    BY <2>2 DEF LoseCritical, RegTypeOK, ModInv, regVars, initVars
  <2>3. CASE \E t \in Threads : \/ RequestRoot(t) \/ RequestInit(t) \/ Yield(t)
                                \/ Read(t) \/ HasRead(t) \/ ExitThread(t)
    BY <2>3 DEF RequestRoot, RequestInit, Yield, Read, HasRead, ExitThread,
                RegTypeOK, ModInv, regVars, initVars
  <2> QED BY <2>1, <2>2, <2>3
<1>4. ThreadTypeOK'
  BY DEF Request, RequestRoot, RequestInit, Yield, Read, HasRead, ExitThread, LoseCritical,
         ThreadTypeOK, ThreadState, RequestPc
<1>5. CountTypeOK'
  <2>1. CASE \E t \in Threads : Request(t)
    BY <2>1, BoundsAre DEF Request, CountTypeOK
  <2>2. CASE LoseCritical
    BY <2>2, BoundsAre DEF LoseCritical, CountTypeOK
  <2>3. CASE \E t \in Threads : \/ RequestRoot(t) \/ RequestInit(t) \/ Yield(t)
                                \/ Read(t) \/ HasRead(t) \/ ExitThread(t)
    BY <2>3, UnchangedTypes DEF RequestRoot, RequestInit, Yield, Read, HasRead, ExitThread
  <2> QED BY <2>1, <2>2, <2>3
<1> QED BY <1>1, <1>2, <1>3, <1>4, <1>5

\* Every step preserves the types.
LEMMA NextTypes == TypeInv /\ [Next]_vars => TypeInv'
<1> SUFFICES ASSUME TypeInv, [Next]_vars PROVE TypeInv'
  OBVIOUS
<1>1. CASE UNCHANGED vars
  <2>1. ModInv'
    BY <1>1 DEF TypeInv, ModInv, vars, initVars, regVars
  <2> QED BY <1>1, <2>1, UnchangedTypes DEF TypeInv, RestartTypeOK, vars
<1>2. CASE InitStep
  BY <1>2, LoopTypes, ShutdownTypes, StartupTypes, RunningTypes DEF InitStep
<1> QED BY <1>1, <1>2, RootTypes, RunningTypes, OtherTypes DEF Next

-----------------------------------------------------------------------------
(* Threads and their modules.                                               *)

\* A step that neither restarts threads nor changes what they do, and does not
\* begin to await them.
LEMMA StillThreads ==
  ASSUME ThreadsHaveModules, ThreadInv, thread' = thread, up' = up,
         ipc' = ipc \/ ipc' \notin {"Exits", "Shutdown"}
  PROVE  ThreadsHaveModules' /\ ThreadInv'
  BY DEF ThreadsHaveModules, ThreadInv

\* Threads that read input belong to the first module.
LEMMA ReadersAre == \A t \in Readers : t \in Threads /\ Owner[t] = 1
  BY RestartAssumption

\* Every step keeps modules up as long as their threads run.
LEMMA NextThreads == IInv /\ [Next]_vars => ThreadsHaveModules' /\ ThreadInv'
<1> SUFFICES ASSUME IInv, [Next]_vars PROVE ThreadsHaveModules' /\ ThreadInv'
  OBVIOUS
<1> USE DEF IInv
<1>1. CASE UNCHANGED vars
  BY <1>1, StillThreads DEF vars, initVars, regVars
<1>2. CASE RootStep \/ Watchdog
  BY <1>2, StillThreads
     DEF RootStep, RootCreate, RootWakes, RootTests, RootSettles, NewInitThread,
         Watchdog, InitTimeout, SchedTimeout, initVars, regVars
<1>3. CASE Drained
  <2>1. \A t \in Threads : thread'[t] = Notified(thread[t])
    BY <1>3 DEF Drained
  <2>2. up' = up /\ ipc' = "Exits"
    BY <1>3 DEF Drained
  <2>3. \A t \in Threads : thread[t] \in ThreadState
    BY DEF TypeInv, RestartTypeOK, ThreadTypeOK
  <2> QED BY <2>1, <2>2, <2>3 DEF Notified, ThreadState, ThreadsHaveModules, ThreadInv
<1>4. CASE ThreadsExited
  <2>1. \A t \in Threads : thread[t] \in ThreadState
    BY DEF TypeInv, RestartTypeOK, ThreadTypeOK
  <2> QED BY <1>4, <2>1
          DEF ThreadsExited, AllExited, ThreadState, ThreadsHaveModules, ThreadInv
<1>5. CASE ShutdownModule
  <2>1. thread' = thread /\ (ipc' = "Shutdown" \/ ipc' = "Loop")
    BY <1>5 DEF ShutdownModule
  <2>2. \A t \in Threads : thread[t] \in {"None", "Asleep", "Resting"}
    BY <1>5 DEF ShutdownModule, ThreadInv
  <2> QED BY <2>1, <2>2 DEF ThreadsHaveModules, ThreadInv
<1>6. CASE StartupModule
  <2>1. CASE mod > NumModules
    BY <1>6, <2>1, StillThreads DEF StartupModule, InService
  <2>2. CASE ~(mod > NumModules)
    <3>1. up' = up \union {mod} /\ ipc' = "Startup" /\ StartThreads
      BY <1>6, <2>2 DEF StartupModule
    <3> QED BY <3>1, ReadersAre DEF StartThreads, ThreadsHaveModules, ThreadInv
  <2> QED BY <2>1, <2>2
<1>7. CASE RestartLoop
  BY <1>7, StillThreads
     DEF RestartLoop, LoopInitial, LoopStartup, LoopRunning, LoopShutdown
<1>8. CASE \/ InitEnter \/ InitDone \/ InitWakes \/ InitTimesOut \/ HandleInterrupt
           \/ Recreated \/ RaiseCriticalAlarm \/ InitTraps \/ InitExits
  BY <1>8, StillThreads
     DEF InitEnter, InitDone, InitWakes, InitTimesOut, HandleInterrupt, Recreated,
         RaiseCriticalAlarm, InitTraps, InitExits, initVars, regVars
<1>9. CASE \/ \E t \in Threads : Request(t) \/ RequestRoot(t) \/ RequestInit(t) \/ Yield(t)
           \/ LoseCritical
  BY <1>9, StillThreads
     DEF Request, RequestRoot, RequestInit, Yield, LoseCritical, initVars, regVars
<1>10. CASE \E t \in Threads : Read(t) \/ HasRead(t) \/ ExitThread(t)
  <2> PICK t \in Threads : Read(t) \/ HasRead(t) \/ ExitThread(t)
    BY <1>10
  <2>1. /\ up' = up /\ ipc' = ipc
        /\ \A s \in Threads : s # t => thread'[s] = thread[s]
    BY DEF Read, HasRead, ExitThread, initVars, regVars, TypeInv, RestartTypeOK, ThreadTypeOK
  <2>2. \/ thread[t] = "Up" /\ thread'[t] = "Reading" /\ t \in Readers
        \/ thread[t] = "Reading" /\ thread'[t] = "Up"
        \/ thread[t] = "Asleep" /\ thread'[t] = "Resting"
        \/ thread'[t] = "None"
    BY DEF Read, HasRead, ExitThread, TypeInv, RestartTypeOK, ThreadTypeOK
  <2> QED BY <2>1, <2>2 DEF ThreadsHaveModules, ThreadInv
<1> QED BY <1>1, <1>2, <1>3, <1>4, <1>5, <1>6, <1>7, <1>8, <1>9, <1>10
        DEF Next, InitStep

-----------------------------------------------------------------------------
(* Levels.                                                                  *)

\* A step that does not go to the choice of a level keeps what is known of levels.
LEMMA StillLevels ==
  ASSUME LevelInv, tried' = tried, level' = level, status' = status,
         ipc' # "Loop" \/ reentered' \/ (ipc' = ipc /\ reentered' = reentered)
  PROVE  LevelInv'
  BY DEF LevelInv

\* The level of the next try exceeds those before it, or is the highest one.
LEMMA LoopEscalates ==
  ASSUME IInv, RestartLoop, LoopShutdown
  PROVE  /\ level' \notin tried \/ level' = Reboot
         /\ \A l \in tried : l <= level'
         /\ level' \in Nat
<1>1. level \in Levels /\ tried \subseteq Levels
  BY DEF IInv, TypeInv, RestartTypeOK, RegTypeOK, HistoryTypeOK
<1>2. ipc = "Loop" /\ status = "ShuttingDown" /\ (reentered \/ tried = {})
  BY DEF IInv, LevelInv, RestartLoop, LoopShutdown
<1>3. level' = IF reentered THEN NextLevel ELSE level
  BY DEF LoopShutdown
<1>4. CASE tried = {}
  BY <1>1, <1>3, <1>4, LevelsAre DEF NextLevel
<1>5. CASE reentered
  <2>1. level' = NextLevel
    BY <1>3, <1>5
  <2>2. \A l \in tried : l <= level /\ l \in Levels
    BY <1>1 DEF IInv, LevelInv
  <2> QED BY <1>1, <2>1, <2>2, LevelsAre DEF NextLevel
<1> QED BY <1>2, <1>4, <1>5

\* Every step preserves what is known of the levels that were tried.
LEMMA NextLevels == IInv /\ [Next]_vars => LevelInv'
<1> SUFFICES ASSUME IInv, [Next]_vars PROVE LevelInv'
  OBVIOUS
<1> USE DEF IInv
<1>1. CASE UNCHANGED vars
  BY <1>1, StillLevels DEF vars, initVars, regVars, history
<1>2. CASE RootStep \/ Watchdog
  BY <1>2, StillLevels
     DEF RootStep, RootCreate, RootWakes, RootTests, RootSettles, NewInitThread,
         Watchdog, InitTimeout, SchedTimeout, initVars, regVars, history
<1>3. CASE RestartLoop
  <2>1. CASE LoopInitial
    BY <1>3, <2>1 DEF RestartLoop, LoopInitial, LevelInv
  <2>2. CASE LoopStartup
    <3>1. tried' = tried /\ level' = level /\ reentered' = reentered
      BY <2>2 DEF LoopStartup
    <3>2. (status' = "ShuttingDown" /\ reentered) \/ (status' = "StartingUp")
      BY <2>2 DEF LoopStartup
    <3> QED BY <3>1, <3>2 DEF LevelInv
  <2>3. CASE LoopRunning
    BY <2>3 DEF LoopRunning, LevelInv
  <2>4. CASE LoopShutdown
    <3>1. \A l \in tried : l <= level'
      BY <1>3, <2>4, LoopEscalates
    <3>2. level' <= level'
      BY <1>3, <2>4, LoopEscalates
    <3>3. tried' = tried \union {level'} /\ ipc' = "Drain" /\ status' = "ShuttingDown"
      BY <2>4 DEF LoopShutdown
    <3> QED BY <3>1, <3>2, <3>3 DEF LevelInv
  <2> QED BY <1>3, <2>1, <2>2, <2>3, <2>4 DEF RestartLoop
<1>4. CASE Drained \/ ThreadsExited
  BY <1>4, StillLevels DEF Drained, ThreadsExited, history
<1>5. CASE ShutdownModule
  <2>1. tried' = tried /\ level' = level
    BY <1>5 DEF ShutdownModule, history
  <2>2. (status' = "StartingUp") \/ (status' = status /\ ipc' = "Shutdown")
    BY <1>5 DEF ShutdownModule
  <2> QED BY <2>1, <2>2 DEF LevelInv
<1>6. CASE StartupModule
  <2>1. CASE mod > NumModules
    BY <1>6, <2>1 DEF StartupModule, InService, LevelInv
  <2>2. CASE ~(mod > NumModules)
    BY <1>6, <2>2, StillLevels DEF StartupModule
  <2> QED BY <2>1, <2>2
<1>7. CASE \/ InitEnter \/ InitDone \/ InitWakes \/ InitTimesOut \/ HandleInterrupt
           \/ Recreated \/ RaiseCriticalAlarm \/ InitTraps \/ InitExits
  BY <1>7, StillLevels
     DEF InitEnter, InitDone, InitWakes, InitTimesOut, HandleInterrupt, Recreated,
         RaiseCriticalAlarm, InitTraps, InitExits, initVars, regVars, history
<1>8. CASE \/ \E t \in Threads : Request(t) \/ RequestRoot(t) \/ RequestInit(t)
           \/ \E t \in Threads : Yield(t) \/ Read(t) \/ HasRead(t) \/ ExitThread(t)
           \/ LoseCritical
  BY <1>8, StillLevels
     DEF Request, RequestRoot, RequestInit, Yield, Read, HasRead, ExitThread, LoseCritical,
         initVars, regVars, history
<1> QED BY <1>1, <1>2, <1>3, <1>4, <1>5, <1>6, <1>7, <1>8 DEF Next, InitStep

-----------------------------------------------------------------------------
\* The invariant holds initially,
LEMMA InitIInv == Init => IInv
<1> SUFFICES ASSUME Init PROVE IInv
  OBVIOUS
<1>1. ThreadsHaveModules /\ ThreadInv
  BY DEF Init, ThreadsHaveModules, ThreadInv
<1>2. LevelInv
  BY DEF Init, LevelInv
<1> QED BY <1>1, <1>2, InitTypes DEF IInv

\* and every step preserves it.
LEMMA NextIInv == IInv /\ [Next]_vars => IInv'
  BY NextTypes, NextThreads, NextLevels DEF IInv

\* The variables of SystemRestart keep their types, although traps interrupt and
\* repeat the shutdown and the startup of modules anywhere.
THEOREM TypeCorrect == Spec => []RestartTypeOK
<1>1. IInv => RestartTypeOK
  BY DEF IInv, TypeInv
<1> QED BY <1>1, InitIInv, NextIInv, PTL DEF Spec

\* No module is shut down before the threads that it created have exited
\* (ModuleRegistry::Shutdown).
THEOREM ModulesOutliveThreads == Spec => []ThreadsHaveModules
<1>1. IInv => ThreadsHaveModules
  BY DEF IInv
<1> QED BY <1>1, InitIInv, NextIInv, PTL DEF Spec

\* A restart that fails is tried again at a higher level, until it is a reboot
\* (ModuleRegistry::Restart, NextLevel).
THEOREM RestartsEscalate == Spec => Escalates
<1>1. IInv /\ [Next]_vars =>
        (ipc = "Loop" /\ ipc' = "Drain" => level' \notin tried \/ level' = Reboot)
  <2> SUFFICES ASSUME IInv, [Next]_vars, ipc = "Loop", ipc' = "Drain"
               PROVE  level' \notin tried \/ level' = Reboot
    OBVIOUS
  <2>1. CASE RestartLoop
    <3>1. LoopShutdown
      BY <2>1 DEF RestartLoop, LoopInitial, LoopStartup, LoopRunning
    <3> QED BY <2>1, <3>1, LoopEscalates
  <2>2. CASE RootStep \/ Watchdog
    BY <2>2 DEF RootStep, RootCreate, RootWakes, RootTests, RootSettles, NewInitThread,
                Watchdog, InitTimeout, SchedTimeout, initVars
  <2>3. CASE InitStep /\ ~RestartLoop
    BY <2>3 DEF InitStep, InitEnter, Drained, ThreadsExited, ShutdownModule, StartupModule,
                InitDone, InitWakes, InitTimesOut, HandleInterrupt, Recreated,
                RaiseCriticalAlarm
  <2>4. CASE InitTraps \/ InitExits \/ LoseCritical \/ UNCHANGED vars
    BY <2>4 DEF InitTraps, InitExits, LoseCritical, vars, initVars
  <2>5. CASE \/ \E t \in Threads : Request(t) \/ RequestRoot(t) \/ RequestInit(t)
             \/ \E t \in Threads : Yield(t) \/ Read(t) \/ HasRead(t) \/ ExitThread(t)
    BY <2>5 DEF Request, RequestRoot, RequestInit, Yield, Read, HasRead, ExitThread, initVars
  <2> QED BY <2>1, <2>2, <2>3, <2>4, <2>5 DEF Next
<1> QED BY <1>1, InitIInv, NextIInv, PTL DEF Spec, Escalates

-----------------------------------------------------------------------------
(* What causes a restart.                                                   *)

\* The threads that have requested a restart, and have yet to interrupt InitThread.
Asking == {t \in Threads : request[t] # "Idle"}

\* InitThread is on its way to restart a system in service.
Reentering ==
    /\ status = "Running"
    /\ ipc \in {"None", "Loop"} \/ (ipc = "Enter" /\ istate = "Initializing")

One(b) == IF b THEN 1 ELSE 0

\* What may still restart the system: InitThread's flag, its pending SIGCLOSE, and
\* that it is gone or was reentered.
Pending == One(iflag) + One(closing /\ ipc # "None") + One(Reentering)

\* Each restart, and each cause of another one, was paid for by a request, a watchdog
\* or a trap.  InitThread's state says that it is in service while it pauses.
CauseInv ==
    /\ ipc \in {"Pause", "Interrupted", "Recreate"} => istate = "Running"
    /\ restarts + Cardinality(Asking) + Pending <= requests + late + traps

\* What is counted are numbers.
LEMMA CountsAre ==
  ASSUME IInv
  PROVE  /\ restarts \in Nat /\ requests \in Nat /\ late \in Nat /\ traps \in Nat
         /\ Cardinality(Asking) \in Nat /\ Pending \in Nat /\ IsFiniteSet(Asking)
<1>1. restarts \in Nat /\ requests \in Nat /\ late \in Nat /\ traps \in Nat
  BY BoundsAre DEF IInv, TypeInv, RestartTypeOK, HistoryTypeOK, CountTypeOK
<1>2. IsFiniteSet(Threads)
  BY RestartAssumption, FS_Interval DEF Threads
<1>3. IsFiniteSet(Asking) /\ Cardinality(Asking) \in Nat
  <2>1. Asking \subseteq Threads
    BY DEF Asking
  <2> QED BY <1>2, <2>1, FS_Subset, FS_CardinalityType
<1>4. Pending \in Nat
  BY DEF Pending, One
<1> QED BY <1>1, <1>3, <1>4

\* A request that ends, or that goes on, is not counted again.
LEMMA FewerAsk ==
  ASSUME IInv, Asking' \subseteq Asking
  PROVE  Cardinality(Asking') \in Nat /\ Cardinality(Asking') <= Cardinality(Asking)
  BY CountsAre, FS_Subset, FS_CardinalityType

\* Adding up what is counted.
LEMMA PaidSum ==
  ASSUME NEW r \in Nat, NEW s \in Nat, NEW m \in Nat, NEW n \in Nat, NEW p \in Nat, NEW q \in Nat,
         NEW a \in Nat, NEW b \in Nat, NEW c \in Nat, NEW d \in Nat, NEW e \in Nat,
         r + m + p <= a + b + c, n <= m, s + q + b + c <= r + p + d + e
  PROVE  s + n + q <= a + d + e
  OBVIOUS

\* The counters and the requests are unchanged, or a cause is paid for.
LEMMA PaidKeepsCauses ==
  ASSUME IInv, CauseInv, restarts' \in Nat, Asking' \subseteq Asking,
         requests' = requests, late' \in Nat, traps' \in Nat,
         restarts' + Pending' + late + traps <= restarts + Pending + late' + traps',
         ipc' \in {"Pause", "Interrupted", "Recreate"} => istate' = "Running"
  PROVE  CauseInv'
<1>1. /\ restarts \in Nat /\ requests \in Nat /\ late \in Nat /\ traps \in Nat
      /\ Cardinality(Asking) \in Nat /\ Pending \in Nat
  BY CountsAre
<1>2. Cardinality(Asking') \in Nat /\ Cardinality(Asking') <= Cardinality(Asking)
  BY FewerAsk
<1>3. Pending' \in Nat
  BY DEF Pending, One
<1>4. restarts + Cardinality(Asking) + Pending <= requests + late + traps
  BY DEF CauseInv
<1>5. restarts' + Cardinality(Asking') + Pending' <= requests + late' + traps'
  <2> DEFINE m == Cardinality(Asking)
             n == Cardinality(Asking')
             p == Pending
             q == Pending'
             s == restarts'
             d == late'
             e == traps'
  <2>1. /\ m \in Nat /\ n \in Nat /\ p \in Nat /\ q \in Nat /\ s \in Nat /\ d \in Nat
        /\ e \in Nat /\ n <= m
    BY <1>1, <1>2, <1>3
  <2>2. restarts + m + p <= requests + late + traps
    BY <1>4
  <2>3. s + q + late + traps <= restarts + p + d + e
    OBVIOUS
  <2> HIDE DEF m, n, p, q, s, d, e
  <2>4. s + n + q <= requests + d + e
    BY <1>1, <2>1, <2>2, <2>3, PaidSum
  <2> QED BY <2>4 DEF m, n, p, q, s, d, e
<1> QED BY <1>5 DEF CauseInv

\* A step that neither fails nor restarts the system causes nothing new.
LEMMA QuietKeepsCauses ==
  ASSUME IInv, CauseInv, restarts' = restarts, Asking' \subseteq Asking,
         requests' = requests, late' = late, traps' = traps, Pending' <= Pending,
         ipc' \in {"Pause", "Interrupted", "Recreate"} => istate' = "Running"
  PROVE  CauseInv'
<1>1. Pending' \in Nat
  BY DEF Pending, One
<1>2. restarts' + Pending' + late + traps <= restarts + Pending + late' + traps'
  BY <1>1, CountsAre
<1> QED BY <1>2, CountsAre, PaidKeepsCauses

\* RootThread and its watchdog: only a watchdog that expires too soon is a cause,
LEMMA RootKeepsCauses ==
  ASSUME IInv, CauseInv, RootStep \/ Watchdog
  PROVE  CauseInv'
<1>1. /\ restarts' = restarts /\ requests' = requests /\ traps' = traps
      /\ status' = status
  BY DEF RootStep, RootCreate, RootWakes, RootTests, RootSettles, Watchdog, InitTimeout,
         SchedTimeout, regVars, history, counts
<1>2. CASE RootStep
  <2>1. late' = late
    BY <1>2 DEF RootStep, RootCreate, RootWakes, RootTests, RootSettles, counts
  <2>2. Asking' \subseteq Asking
    <3>1. CASE RootCreate /\ ipc = "None"
      BY <3>1 DEF RootCreate, NewInitThread, Asking
    <3>2. CASE ~(RootCreate /\ ipc = "None")
      BY <1>2, <3>2 DEF RootStep, RootCreate, RootWakes, RootTests, RootSettles, Asking
    <3> QED BY <3>1, <3>2
  <2>3. Pending' <= Pending
    BY <1>1, <1>2 DEF RootStep, RootCreate, NewInitThread, RootWakes, RootTests, RootSettles,
                      initVars, Pending, One, Reentering
  <2>4. ipc' \in {"Pause", "Interrupted", "Recreate"} => istate' = "Running"
    BY <1>2 DEF RootStep, RootCreate, NewInitThread, RootWakes, RootTests, RootSettles,
                initVars, CauseInv
  <2> QED BY <1>1, <2>1, <2>2, <2>3, <2>4, QuietKeepsCauses
<1>3. CASE Watchdog
  <2>1. /\ Asking' = Asking /\ ipc' = ipc /\ istate' = istate
        /\ late' = IF ipc = "None" THEN late ELSE late + 1
    BY <1>3 DEF Watchdog, InitTimeout, SchedTimeout, Expires, Asking
  <2>2. Pending' <= IF ipc = "None" THEN Pending ELSE Pending + 1
    BY <1>1, <1>3, <2>1 DEF Watchdog, InitTimeout, SchedTimeout, Pending, One, Reentering
  <2>3. Pending' \in Nat
    BY DEF Pending, One
  <2>4. /\ late' \in Nat
        /\ restarts' + Pending' + late + traps <= restarts + Pending + late' + traps'
    BY <1>1, <2>1, <2>2, <2>3, CountsAre
  <2>5. ipc' \in {"Pause", "Interrupted", "Recreate"} => istate' = "Running"
    BY <2>1 DEF CauseInv
  <2> QED BY <1>1, <2>1, <2>4, <2>5, CountsAre, PaidKeepsCauses
<1> QED BY <1>2, <1>3

\* a restart of a system in service uses up what reentered InitThread,
LEMMA LoopKeepsCauses ==
  ASSUME IInv, CauseInv, RestartLoop
  PROVE  CauseInv'
<1>1. /\ ipc = "Loop" /\ Asking' = Asking /\ requests' = requests /\ late' = late
      /\ traps' = traps /\ iflag' = iflag /\ closing' = closing
  BY DEF RestartLoop, Asking, counts
<1>2. ipc' \in {"Loop", "Startup", "Drain"}
  BY <1>1 DEF RestartLoop, LoopInitial, LoopStartup, LoopRunning, LoopShutdown
<1>3. CASE LoopRunning
  <2>1. restarts' = restarts + 1 /\ status = "Running" /\ status' = "ShuttingDown"
    BY <1>3 DEF LoopRunning
  <2>2. Pending' + 1 <= Pending
    BY <1>1, <1>2, <2>1 DEF Pending, One, Reentering
  <2>3. Pending' \in Nat
    BY DEF Pending, One
  <2>4. restarts' + Pending' + late + traps <= restarts + Pending + late' + traps'
    BY <1>1, <2>1, <2>2, <2>3, CountsAre
  <2> QED BY <1>1, <1>2, <2>1, <2>4, CountsAre, PaidKeepsCauses
<1>4. CASE LoopInitial \/ LoopStartup \/ LoopShutdown
  <2>1. restarts' = restarts /\ status' # "Running"
    BY <1>4 DEF LoopInitial, LoopStartup, LoopShutdown
  <2>2. Pending' <= Pending
    BY <1>1, <1>2, <2>1 DEF Pending, One, Reentering
  <2> QED BY <1>1, <1>2, <2>1, <2>2, QuietKeepsCauses
<1> QED BY <1>3, <1>4 DEF RestartLoop

\* the shutdown and the startup of modules cause nothing,
LEMMA ModulesKeepCauses ==
  ASSUME IInv, CauseInv, Drained \/ ThreadsExited \/ ShutdownModule \/ StartupModule
  PROVE  CauseInv'
<1>1. /\ restarts' = restarts /\ requests' = requests /\ late' = late /\ traps' = traps
      /\ Asking' = Asking /\ iflag' = iflag /\ closing' = closing /\ istate' = istate
  BY DEF Drained, ThreadsExited, ShutdownModule, StartupModule, InService, PauseInShutdown,
         history, counts, Asking
<1>2. /\ ipc # "None" /\ ipc' \in {"Exits", "Shutdown", "Startup", "Done", "Loop"}
      /\ ipc' = "Loop" => status' = "StartingUp"
  BY DEF Drained, ThreadsExited, ShutdownModule, StartupModule, InService
<1>3. Pending' <= Pending
  BY <1>1, <1>2 DEF Pending, One, Reentering
<1> QED BY <1>1, <1>2, <1>3, QuietKeepsCauses

\* nor does a system in service, whose InitThread uses up the flag when it restarts,
LEMMA ServiceKeepsCauses ==
  ASSUME IInv, CauseInv,
         \/ InitEnter \/ InitDone \/ InitWakes \/ InitTimesOut \/ HandleInterrupt
         \/ Recreated \/ RaiseCriticalAlarm
  PROVE  CauseInv'
<1>1. /\ restarts' = restarts /\ requests' = requests /\ late' = late /\ traps' = traps
      /\ Asking' = Asking /\ closing' = closing /\ status' = status
      /\ ipc # "None" /\ ipc' # "None"
  BY DEF InitEnter, InitDone, InitWakes, InitTimesOut, HandleInterrupt, Recreated,
         RaiseCriticalAlarm, initVars, regVars, history, counts, Asking
<1>2. istate \in {"Initializing", "Running"}
  BY DEF IInv, TypeInv, RestartTypeOK, InitTypeOK
<1>3. ipc' \in {"Pause", "Interrupted", "Recreate"} => istate' = "Running"
  BY DEF InitEnter, InitDone, InitWakes, InitTimesOut, HandleInterrupt, Recreated,
         RaiseCriticalAlarm, initVars, CauseInv
<1>4. CASE InitEnter
  BY <1>1, <1>2, <1>3, <1>4, QuietKeepsCauses DEF InitEnter, Pending, One, Reentering
<1>5. CASE HandleInterrupt
  <2>1. Pending' <= Pending
    <3>1. iflag \in BOOLEAN
      BY DEF IInv, TypeInv, RestartTypeOK, InitTypeOK
    <3>2. CASE iflag
      BY <1>1, <1>5, <3>2 DEF HandleInterrupt, ResetFlags, Pending, One, Reentering
    <3>3. CASE ~iflag
      <4>1. iflag' = iflag /\ ipc' # "Enter" /\ ipc' # "Loop"
        BY <1>5, <3>3 DEF HandleInterrupt
      <4> QED BY <1>1, <4>1 DEF Pending, One, Reentering
    <3> QED BY <3>1, <3>2, <3>3
  <2> QED BY <1>1, <1>3, <2>1, QuietKeepsCauses
<1>6. CASE InitDone \/ InitWakes \/ InitTimesOut \/ Recreated \/ RaiseCriticalAlarm
  <2>1. iflag' = iflag /\ (ipc' = "Enter" => istate' = "Running") /\ ipc' # "Loop"
    BY <1>6 DEF InitDone, InitWakes, InitTimesOut, Recreated, RaiseCriticalAlarm, initVars,
                CauseInv
  <2>2. Pending' <= Pending
    BY <1>1, <2>1 DEF Pending, One, Reentering
  <2> QED BY <1>1, <1>3, <2>2, QuietKeepsCauses
<1> QED BY <1>4, <1>5, <1>6

\* a trap is counted, and an exit uses up the SIGCLOSE,
LEMMA TrapsKeepCauses ==
  ASSUME IInv, CauseInv, InitTraps \/ InitExits
  PROVE  CauseInv'
<1>1. /\ restarts' = restarts /\ requests' = requests /\ late' = late
      /\ Asking' = Asking /\ iflag' = iflag /\ closing' = closing /\ status' = status
      /\ istate' = istate /\ ipc # "None" /\ ipc' \in {"Enter", "None"}
  BY DEF InitTraps, InitExits, regVars, history, counts, Asking
<1>2. CASE InitTraps
  <2>1. traps' = traps + 1 /\ Pending' <= Pending + 1
    BY <1>1, <1>2 DEF InitTraps, Pending, One, Reentering
  <2>2. Pending' \in Nat
    BY DEF Pending, One
  <2>3. traps' \in Nat
        /\ restarts' + Pending' + late + traps <= restarts + Pending + late' + traps'
    BY <1>1, <2>1, <2>2, CountsAre
  <2> QED BY <1>1, <2>3, CountsAre, PaidKeepsCauses
<1>3. CASE InitExits
  <2>1. traps' = traps /\ Pending' <= Pending
    BY <1>1, <1>3 DEF InitExits, counts, Pending, One, Reentering
  <2> QED BY <1>1, <2>1, QuietKeepsCauses
<1> QED BY <1>2, <1>3

\* and a request is counted once, from when it is made to when it sets the flag.
LEMMA ThreadsKeepCauses ==
  ASSUME IInv, CauseInv, NEW t \in Threads,
         \/ Request(t) \/ RequestRoot(t) \/ RequestInit(t)
         \/ Yield(t) \/ Read(t) \/ HasRead(t) \/ ExitThread(t)
  PROVE  CauseInv'
<1> DEFINE m == Cardinality(Asking)
           n == Cardinality(Asking')
<1>1. /\ restarts' = restarts /\ late' = late /\ traps' = traps /\ closing' = closing
      /\ status' = status /\ ipc' = ipc /\ istate' = istate
  BY DEF Request, RequestRoot, RequestInit, Yield, Read, HasRead, ExitThread,
         initVars, regVars, history, counts
<1>2. ipc' \in {"Pause", "Interrupted", "Recreate"} => istate' = "Running"
  BY <1>1 DEF CauseInv
<1>3. /\ restarts \in Nat /\ requests \in Nat /\ late \in Nat /\ traps \in Nat
      /\ m \in Nat /\ Pending \in Nat /\ IsFiniteSet(Asking)
  BY CountsAre
<1>4. request \in [Threads -> RequestPc]
  BY DEF IInv, TypeInv, RestartTypeOK, ThreadTypeOK
<1>5. CASE Request(t)
  <2>1. requests' = requests + 1 /\ t \notin Asking /\ Asking' = Asking \union {t}
    BY <1>4, <1>5 DEF Request, Asking
  <2>2. n = m + 1
    BY <1>3, <2>1, FS_AddElement
  <2>3. Pending' = Pending
    BY <1>1, <1>5 DEF Request, initVars, Pending, One, Reentering
  <2>4. restarts + m + Pending <= requests + late + traps
    BY DEF CauseInv
  <2> HIDE DEF m, n
  <2>5. restarts' + n + Pending' <= requests' + late' + traps'
    BY <1>1, <1>3, <2>1, <2>2, <2>3, <2>4
  <2> QED BY <1>2, <2>5 DEF CauseInv, n
<1>6. CASE RequestInit(t)
  <2>1. requests' = requests /\ t \in Asking /\ Asking' = Asking \ {t}
    BY <1>4, <1>6 DEF RequestInit, Asking, counts
  <2>2. n = m - 1
    BY <1>3, <2>1, FS_RemoveElement
  <2>3. Pending' \in Nat /\ Pending' <= Pending + 1
    BY <1>1, <1>6 DEF RequestInit, Pending, One, Reentering
  <2>4. restarts + m + Pending <= requests + late + traps
    BY DEF CauseInv
  <2> DEFINE p == Pending
             q == Pending'
  <2>5. restarts + m + p <= requests + late + traps /\ q \in Nat /\ q <= p + 1 /\ p \in Nat
    BY <1>3, <2>3, <2>4
  <2> HIDE DEF m, n, p, q
  <2>6. restarts + n + q <= requests + late + traps
    BY <1>3, <2>2, <2>5
  <2>7. restarts + n + Pending' <= requests + late + traps
    BY <2>6 DEF q
  <2> QED BY <1>1, <1>2, <2>1, <2>7 DEF CauseInv, n
<1>7. CASE RequestRoot(t) \/ Yield(t) \/ Read(t) \/ HasRead(t) \/ ExitThread(t)
  <2>1. requests' = requests /\ Asking' \subseteq Asking
    BY <1>4, <1>7 DEF RequestRoot, Yield, Read, HasRead, ExitThread, Asking, counts
  <2>2. iflag' = iflag
    BY <1>7 DEF RequestRoot, Yield, Read, HasRead, ExitThread, initVars
  <2>3. Pending' <= Pending
    BY <1>1, <2>2 DEF Pending, One, Reentering
  <2> QED BY <1>1, <1>2, <2>1, <2>3, QuietKeepsCauses
<1> QED BY <1>5, <1>6, <1>7

\* Nothing has been requested or has failed initially.
LEMMA InitCauses == Init => CauseInv
<1> SUFFICES ASSUME Init PROVE CauseInv
  OBVIOUS
<1>1. Asking = {}
  BY DEF Init, Asking
<1>2. Cardinality(Asking) = 0
  BY <1>1, FS_EmptySet
<1> QED BY <1>2 DEF Init, CauseInv, Pending, One, Reentering

\* Every step keeps count of what causes restarts.
LEMMA NextCauses == IInv /\ CauseInv /\ [Next]_vars => CauseInv'
<1> SUFFICES ASSUME IInv, CauseInv, [Next]_vars PROVE CauseInv'
  OBVIOUS
<1>1. CASE UNCHANGED vars
  BY <1>1 DEF vars, initVars, regVars, history, counts, CauseInv, Asking, Pending, One, Reentering
<1>2. CASE LoseCritical
  <2>1. /\ restarts' = restarts /\ requests' = requests /\ late' = late /\ traps' = traps
        /\ Asking' = Asking /\ Pending' = Pending /\ ipc' = ipc /\ istate' = istate
    BY <1>2 DEF LoseCritical, regVars, history, Asking, Pending, One, Reentering
  <2> QED BY <2>1 DEF CauseInv
<1> QED BY <1>1, <1>2, RootKeepsCauses, LoopKeepsCauses, ModulesKeepCauses, ServiceKeepsCauses,
           TrapsKeepCauses, ThreadsKeepCauses DEF Next, InitStep

\* A system in service is restarted at most once for each request, early watchdog and
\* trap, because what causes a restart is used up by it (InitThread::HandleInterrupt,
\* InitThread's destructor and constructor, ModuleRegistry::Restart).
THEOREM RestartsAreNeeded == Spec => []NoNeedlessRestart
<1>1. IInv /\ CauseInv => NoNeedlessRestart
  <2> SUFFICES ASSUME IInv, CauseInv PROVE NoNeedlessRestart
    OBVIOUS
  <2> DEFINE m == Cardinality(Asking)
  <2>1. /\ restarts \in Nat /\ requests \in Nat /\ late \in Nat /\ traps \in Nat
        /\ m \in Nat /\ Pending \in Nat /\ restarts + m + Pending <= requests + late + traps
    BY CountsAre DEF CauseInv
  <2> HIDE DEF m
  <2> QED BY <2>1 DEF NoNeedlessRestart
<1> QED BY <1>1, InitIInv, NextIInv, InitCauses, NextCauses, PTL DEF Spec
=============================================================================
