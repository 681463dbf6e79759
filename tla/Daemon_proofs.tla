--------------------------- MODULE Daemon_proofs ---------------------------
(* Proofs about Daemon: however InitThread and the CLI thread interleave,   *)
(* at most one thread too many is created.                                  *)
EXTENDS Daemon, TLAPS

\* A thread that is not idle deals with a daemon, and only InitThread has a loop
TargetInv ==
    /\ \A t \in Threads : pc[t] # "Idle" => target[t] \in Daemons
    /\ pc[Cli] # "Visit"

Creates(t, d) == pc[t] = "Create" /\ target[t] = d

\* Each thread that is in CreateThread has found the daemon to be short of threads,
\* not counting what the other one has created in the meantime.
ExtraInv ==
    \A d \in Daemons :
        /\ threads[d] <= TargetSize(d) + 1
        /\ Creates(Init_, d) \/ Creates(Cli, d) => threads[d] <= TargetSize(d)
        /\ Creates(Init_, d) /\ Creates(Cli, d) => threads[d] < TargetSize(d)

\* Until there is a command, only InitThread deals with daemons.  A daemon whose
\* traps are counted is short of threads.  One that has trapped twice has an alarm,
\* or InitThread has yet to come to it in its loop.  An alarm is left without a
\* shortage only until InitThread looks at the condition of its loop again.
QuietInv ==
    commands = 0 =>
        /\ pc[Cli] = "Idle"
        /\ pc[Init_] # "Idle" => recreate
        /\ pc[Init_] \in {"CreateThreads", "Recover", "Create"} => Short(target[Init_])
        /\ pc[Init_] = "Recover" => traps[target[Init_]] = 2
        /\ pc[Init_] = "While" => traps[target[Init_]] < 2
        /\ \A d \in Daemons :
             /\ traps[d] <= 2
             /\ traps[d] > 0 => Short(d)
             /\ traps[d] = 2 => \/ alarm[d] # "NoAlarm"
                                \/ recreate /\ (pc[Init_] = "Idle" \/ target[Init_] <= d)
             /\ alarm[d] # "NoAlarm" => \/ Short(d)
                                        \/ pc[Init_] = "While" /\ target[Init_] = d

IInv == TypeOK /\ TargetInv /\ ExtraInv /\ QuietInv

\* A target size is a positive number
LEMMA TargetSizeType ==
    ASSUME NEW d \in Daemons
    PROVE  TargetSize(d) \in Nat \ {0}
BY SizeAssumption DEF TargetSize

\* What the operators do to the types of the variables
LEMMA SetTrapsType ==
    ASSUME TypeOK, NEW d \in Daemons, NEW n \in Nat, SetTraps(d, n)
    PROVE  traps' \in [Daemons -> 0 .. 255]
<1>1. n % 256 \in 0 .. 255
    OBVIOUS
<1>2. QED BY <1>1 DEF TypeOK, SetTraps

\* A thread that goes on has a type-correct place in the code.
LEMMA GoType ==
    ASSUME TypeOK, NEW t \in Threads, NEW at \in Pc, NEW d \in Daemons \cup {Nil}, Go(t, at, d)
    PROVE  pc' \in [Threads -> Pc] /\ target' \in [Threads -> Daemons \cup {Nil}]
BY DEF TypeOK, Go

\* So has InitThread when it goes to the next daemon,
LEMMA NextDaemonType ==
    ASSUME TypeOK, NEW d \in Daemons, NextDaemon(d)
    PROVE  /\ pc' \in [Threads -> Pc] /\ target' \in [Threads -> Daemons \cup {Nil}]
           /\ recreate' \in BOOLEAN
<1>1. Init_ \in Threads /\ "Visit" \in Pc /\ "Idle" \in Pc
    BY DEF Threads, Pc
<1>2. CASE d < NumDaemons
  <2>1. d + 1 \in Daemons
      BY <1>2, DaemonsAssumption DEF Daemons
  <2>2. Go(Init_, "Visit", d + 1) /\ UNCHANGED recreate
      BY <1>2 DEF NextDaemon
  <2>3. QED BY <1>1, <2>1, <2>2, GoType DEF TypeOK
<1>3. CASE ~(d < NumDaemons)
  <2>1. Go(Init_, "Idle", Nil) /\ recreate' = FALSE
      BY <1>3 DEF NextDaemon
  <2>2. QED BY <1>1, <2>1, GoType
<1>4. QED BY <1>2, <1>3

\* and a thread that returns from CreateThreads.
LEMMA ReturnType ==
    ASSUME TypeOK, NEW t \in Threads, target[t] \in Daemons, Return(t)
    PROVE  /\ pc' \in [Threads -> Pc] /\ target' \in [Threads -> Daemons \cup {Nil}]
           /\ recreate' \in BOOLEAN
<1>1. CASE t = Init_
    BY <1>1, NextDaemonType DEF Return
<1>2. CASE t # Init_
  <2>1. "Idle" \in Pc /\ Go(t, "Idle", Nil) /\ UNCHANGED recreate
      BY <1>2 DEF Return, Pc
  <2>2. QED BY <2>1, GoType DEF TypeOK
<1>3. QED BY <1>1, <1>2

\* InitThread goes on to the next daemon, and the CLI thread becomes idle
LEMMA ReturnTarget ==
    ASSUME TypeOK, TargetInv, NEW t \in Threads, target[t] \in Daemons, Return(t)
    PROVE  TargetInv'
<1> USE DaemonsAssumption, ThreadsAssumption DEF TypeOK, TargetInv, Threads, Go
<1>1. CASE t = Init_ /\ target[t] < NumDaemons
  <2>1. target[t] + 1 \in Daemons
      BY <1>1 DEF Daemons
  <2>2. QED BY <1>1, <2>1 DEF Return, NextDaemon
<1>2. CASE t = Init_ /\ ~(target[t] < NumDaemons)
    BY <1>2 DEF Return, NextDaemon
<1>3. CASE t # Init_
    BY <1>3 DEF Return
<1>4. QED BY <1>1, <1>2, <1>3

\* Every step keeps the daemon that a thread deals with
LEMMA TargetStep ==
    ASSUME TypeOK, TargetInv, [Next]_vars
    PROVE  TargetInv'
<1> USE DaemonsAssumption, BoundsAssumption, ThreadsAssumption, TargetSizeType DEF Threads
<1>1. ASSUME NEW d \in Daemons, ThreadDeleted(d) PROVE TargetInv'
    BY <1>1 DEF ThreadDeleted, boundVars, TypeOK, TargetInv, Daemons
<1>2. ASSUME NEW d \in Daemons, Disable(d) PROVE TargetInv'
    BY <1>2 DEF Disable, Command, SetTraps, boundVars, TypeOK, TargetInv, Daemons
<1>3. ASSUME NEW d \in Daemons, Enable(d) PROVE TargetInv'
    BY <1>3 DEF Enable, Command, SetTraps, Go, boundVars, TypeOK, TargetInv, Daemons
<1>4. CASE OtherInterrupt
    BY <1>4 DEF OtherInterrupt, daemonVars, boundVars, TypeOK, TargetInv, Daemons
<1>5. CASE HandleInterrupt
    BY <1>5 DEF HandleInterrupt, Go, daemonVars, boundVars, TypeOK, TargetInv, Daemons
<1>6. CASE VisitDaemon
    BY <1>6 DEF VisitDaemon, Go, NextDaemon, daemonVars, boundVars, TypeOK, TargetInv, Daemons
<1>7. ASSUME NEW t \in Threads, CountTraps(t) PROVE TargetInv'
  <2>1. target[t] \in Daemons
      BY <1>7 DEF CountTraps, TargetInv
  <2>2. CASE Return(t)
      BY <2>1, <2>2, ReturnTarget
  <2>3. CASE Go(t, "While", target[t]) \/ Go(t, "Recover", target[t])
      BY <2>1, <2>3 DEF TypeOK, TargetInv, Go
  <2>4. QED BY <1>7, <2>2, <2>3 DEF CountTraps
<1>8. ASSUME NEW t \in Threads, Recovered(t) PROVE TargetInv'
    BY <1>8 DEF Recovered, Go, SetTraps, boundVars, TypeOK, TargetInv, Daemons
<1>9. ASSUME NEW t \in Threads, While(t) PROVE TargetInv'
    BY <1>9 DEF While, Go, SetTraps, Return, NextDaemon, boundVars, TypeOK, TargetInv, Daemons
<1>10. ASSUME NEW t \in Threads, Created(t) PROVE TargetInv'
    BY <1>10 DEF Created, Go, SetTraps, boundVars, TypeOK, TargetInv, Daemons
<1>11. ASSUME NEW t \in Threads, NotCreated(t) PROVE TargetInv'
    BY <1>11 DEF NotCreated, Go, SetTraps, RaiseAlarm, Return, NextDaemon, boundVars,
       TypeOK, TargetInv, Daemons
<1>12. ASSUME NEW t \in Threads, Trap(t) PROVE TargetInv'
    BY <1>12 DEF Trap, Go, daemonVars, boundVars, TypeOK, TargetInv, Daemons
<1>13. CASE UNCHANGED vars
    BY <1>13 DEF vars, daemonVars, boundVars, TypeOK, TargetInv, Daemons
<1>14. QED BY <1>1, <1>2, <1>3, <1>4, <1>5, <1>6, <1>7, <1>8, <1>9, <1>10, <1>11, <1>12,
   <1>13 DEF Next, InitThread, CreateThreads

\* Every step preserves the types of the variables
LEMMA TypeStep ==
    ASSUME TypeOK, TargetInv, [Next]_vars
    PROVE  TypeOK'
<1> USE DaemonsAssumption, BoundsAssumption, ThreadsAssumption, TargetSizeType DEF Threads
<1>1. ASSUME NEW d \in Daemons, ThreadDeleted(d) PROVE TypeOK'
    BY <1>1 DEF ThreadDeleted, boundVars, TypeOK, TargetInv, Pc
<1>2. ASSUME NEW d \in Daemons, Disable(d) PROVE TypeOK'
    BY <1>2 DEF Disable, Command, SetTraps, boundVars, TypeOK, TargetInv, Pc
<1>3. ASSUME NEW d \in Daemons, Enable(d) PROVE TypeOK'
    BY <1>3 DEF Enable, Command, SetTraps, Go, boundVars, TypeOK, TargetInv, Pc
<1>4. CASE OtherInterrupt
    BY <1>4 DEF OtherInterrupt, daemonVars, boundVars, TypeOK, TargetInv, Pc
<1>5. CASE HandleInterrupt
  <2>1. Init_ \in Threads /\ 1 \in Daemons /\ "Visit" \in Pc
      BY DEF Daemons, Pc
  <2>2. pc' \in [Threads -> Pc] /\ target' \in [Threads -> Daemons \cup {Nil}]
      BY <1>5, <2>1, GoType DEF HandleInterrupt, TypeOK
  <2>3. QED BY <1>5, <2>2 DEF HandleInterrupt, daemonVars, boundVars, TypeOK
<1>6. CASE VisitDaemon
  <2>1. Init_ \in Threads /\ target[Init_] \in Daemons
      BY <1>6 DEF VisitDaemon, TargetInv
  <2>2. pc' \in [Threads -> Pc] /\ target' \in [Threads -> Daemons \cup {Nil}] /\ recreate' \in BOOLEAN
      BY <1>6, <2>1, GoType, NextDaemonType DEF VisitDaemon, Pc, TypeOK
  <2>3. QED BY <1>6, <2>2 DEF VisitDaemon, daemonVars, boundVars, TypeOK
<1>7. ASSUME NEW t \in Threads, CountTraps(t) PROVE TypeOK'
  <2>1. target[t] \in Daemons
      BY <1>7 DEF CountTraps, TargetInv
  <2>2. pc' \in [Threads -> Pc] /\ target' \in [Threads -> Daemons \cup {Nil}]
      BY <1>7, <2>1, GoType, ReturnType DEF CountTraps, Pc
  <2>3. recreate' \in BOOLEAN
      BY <1>7, <2>1, ReturnType DEF CountTraps, TypeOK
  <2>4. traps' \in [Daemons -> 0 .. 255]
      BY <1>7, <2>1, SetTrapsType DEF CountTraps, TypeOK
  <2>5. QED BY <1>7, <2>1, <2>2, <2>3, <2>4 DEF CountTraps, RaiseAlarm, boundVars, TypeOK
<1>8. ASSUME NEW t \in Threads, Recovered(t) PROVE TypeOK'
  <2>1. target[t] \in Daemons
      BY <1>8 DEF Recovered, TargetInv
  <2>2. pc' \in [Threads -> Pc] /\ target' \in [Threads -> Daemons \cup {Nil}]
      BY <1>8, <2>1, GoType, ReturnType DEF Recovered, Pc
  <2>3. recreate' \in BOOLEAN
      BY <1>8, <2>1, ReturnType DEF Recovered, TypeOK
  <2>4. traps' \in [Daemons -> 0 .. 255]
      BY <1>8, <2>1, SetTrapsType, SMTT(30) DEF Recovered, TypeOK
  <2>5. QED BY <1>8, <2>1, <2>2, <2>3, <2>4 DEF Recovered, RaiseAlarm, boundVars, TypeOK
<1>9. ASSUME NEW t \in Threads, While(t) PROVE TypeOK'
  <2>1. target[t] \in Daemons
      BY <1>9 DEF While, TargetInv
  <2>2. pc' \in [Threads -> Pc] /\ target' \in [Threads -> Daemons \cup {Nil}]
      BY <1>9, <2>1, GoType, ReturnType DEF While, Pc
  <2>3. recreate' \in BOOLEAN
      BY <1>9, <2>1, ReturnType DEF While, TypeOK
  <2>4. traps' \in [Daemons -> 0 .. 255]
      BY <1>9, <2>1, SetTrapsType, SMTT(30) DEF While, TypeOK
  <2>5. QED BY <1>9, <2>1, <2>2, <2>3, <2>4 DEF While, RaiseAlarm, boundVars, TypeOK
<1>10. ASSUME NEW t \in Threads, Created(t) PROVE TypeOK'
  <2>1. target[t] \in Daemons
      BY <1>10 DEF Created, TargetInv
  <2>2. pc' \in [Threads -> Pc] /\ target' \in [Threads -> Daemons \cup {Nil}]
      BY <1>10, <2>1, GoType, ReturnType DEF Created, Pc
  <2>3. recreate' \in BOOLEAN
      BY <1>10, <2>1, ReturnType DEF Created, TypeOK
  <2>4. traps' \in [Daemons -> 0 .. 255]
      BY <1>10, <2>1, SetTrapsType DEF Created, TypeOK
  <2>5. threads' \in [Daemons -> Nat]
      BY <1>10, <2>1 DEF Created, TypeOK
  <2>6. alarm' \in [Daemons -> {"NoAlarm", "MinorAlarm", "MajorAlarm"}]
      BY <1>10, <2>1 DEF Created, RaiseAlarm, TypeOK
  <2>7. exits' \in 0 .. MaxExits /\ failures' \in 0 .. MaxTraps /\ commands' \in 0 .. MaxCommands
      BY <1>10 DEF Created, boundVars, TypeOK
  <2>8. event' \in BOOLEAN
      BY <1>10 DEF Created, TypeOK
  <2>9. QED BY <2>2, <2>3, <2>4, <2>5, <2>6, <2>7, <2>8 DEF TypeOK
<1>11. ASSUME NEW t \in Threads, NotCreated(t) PROVE TypeOK'
  <2>1. target[t] \in Daemons
      BY <1>11 DEF NotCreated, TargetInv
  <2>2. pc' \in [Threads -> Pc] /\ target' \in [Threads -> Daemons \cup {Nil}]
      BY <1>11, <2>1, GoType, ReturnType DEF NotCreated, Pc
  <2>3. recreate' \in BOOLEAN
      BY <1>11, <2>1, ReturnType DEF NotCreated, TypeOK
  <2>4. traps' \in [Daemons -> 0 .. 255]
      BY <1>11, <2>1, SetTrapsType DEF NotCreated, TypeOK
  <2>5. threads' \in [Daemons -> Nat]
      BY <1>11, <2>1 DEF NotCreated, TypeOK
  <2>6. alarm' \in [Daemons -> {"NoAlarm", "MinorAlarm", "MajorAlarm"}]
      BY <1>11, <2>1 DEF NotCreated, RaiseAlarm, TypeOK
  <2>7. exits' \in 0 .. MaxExits /\ failures' \in 0 .. MaxTraps /\ commands' \in 0 .. MaxCommands
      BY <1>11 DEF NotCreated, boundVars, TypeOK
  <2>8. event' \in BOOLEAN
      BY <1>11 DEF NotCreated, TypeOK
  <2>9. QED BY <2>2, <2>3, <2>4, <2>5, <2>6, <2>7, <2>8 DEF TypeOK
<1>12. ASSUME NEW t \in Threads, Trap(t) PROVE TypeOK'
  <2>1. target[t] \in Daemons
      BY <1>12 DEF Trap, TargetInv
  <2>2. pc' \in [Threads -> Pc] /\ target' \in [Threads -> Daemons \cup {Nil}]
    <3>1. 1 \in Daemons
        BY DEF Daemons
    <3>2. Go(t, "Visit", 1) \/ Go(t, "Idle", Nil)
        BY <1>12 DEF Trap
    <3>3. "Visit" \in Pc /\ "Idle" \in Pc
        BY DEF Pc
    <3>4. QED BY <3>1, <3>2, <3>3, GoType
  <2>3. recreate' \in BOOLEAN
      BY <1>12, <2>1, ReturnType DEF Trap, TypeOK
  <2>4. traps' \in [Daemons -> 0 .. 255]
      BY <1>12, <2>1, SetTrapsType DEF Trap, daemonVars, TypeOK
  <2>5. QED BY <1>12, <2>1, <2>2, <2>3, <2>4 DEF Trap, RaiseAlarm, daemonVars, boundVars, TypeOK
<1>13. CASE UNCHANGED vars
    BY <1>13 DEF vars, daemonVars, boundVars, TypeOK, TargetInv, Pc
<1>14. QED BY <1>1, <1>2, <1>3, <1>4, <1>5, <1>6, <1>7, <1>8, <1>9, <1>10, <1>11, <1>12,
   <1>13 DEF Next, InitThread, CreateThreads

\* Every step keeps the number of threads within what its creators allow for
LEMMA ExtraStep ==
    ASSUME TypeOK, TargetInv, ExtraInv, [Next]_vars
    PROVE  ExtraInv'
<1> USE DaemonsAssumption, BoundsAssumption, ThreadsAssumption, TargetSizeType DEF Threads
<1>1. ASSUME NEW d \in Daemons, ThreadDeleted(d) PROVE ExtraInv'
    BY <1>1 DEF ThreadDeleted, boundVars, TypeOK, TargetInv, ExtraInv, Creates
<1>2. ASSUME NEW d \in Daemons, Disable(d) PROVE ExtraInv'
    BY <1>2 DEF Disable, Command, SetTraps, boundVars, TypeOK, TargetInv, ExtraInv, Creates
<1>3. ASSUME NEW d \in Daemons, Enable(d) PROVE ExtraInv'
    BY <1>3 DEF Enable, Command, SetTraps, Go, boundVars, TypeOK, TargetInv, ExtraInv, Creates
<1>4. CASE OtherInterrupt
    BY <1>4 DEF OtherInterrupt, daemonVars, boundVars, TypeOK, TargetInv, ExtraInv, Creates
<1>5. CASE HandleInterrupt
    BY <1>5 DEF HandleInterrupt, Go, daemonVars, boundVars, TypeOK, TargetInv, ExtraInv, Creates
<1>6. CASE VisitDaemon
    BY <1>6 DEF VisitDaemon, Go, NextDaemon, daemonVars, boundVars, TypeOK, TargetInv,
       ExtraInv, Creates
<1>7. ASSUME NEW t \in Threads, CountTraps(t) PROVE ExtraInv'
    BY <1>7 DEF CountTraps, Go, SetTraps, RaiseAlarm, Return, NextDaemon, boundVars, TypeOK,
       TargetInv, ExtraInv, Creates
<1>8. ASSUME NEW t \in Threads, Recovered(t) PROVE ExtraInv'
    BY <1>8 DEF Recovered, Go, SetTraps, boundVars, TypeOK, TargetInv, ExtraInv, Creates
<1>9. ASSUME NEW t \in Threads, While(t) PROVE ExtraInv'
    BY <1>9 DEF While, Go, SetTraps, Return, NextDaemon, boundVars, TypeOK, TargetInv,
       ExtraInv, Creates
<1>10. ASSUME NEW t \in Threads, Created(t) PROVE ExtraInv'
    BY <1>10 DEF Created, Go, SetTraps, boundVars, TypeOK, TargetInv, ExtraInv, Creates
<1>11. ASSUME NEW t \in Threads, NotCreated(t) PROVE ExtraInv'
    BY <1>11 DEF NotCreated, Go, SetTraps, RaiseAlarm, Return, NextDaemon, boundVars,
       TypeOK, TargetInv, ExtraInv, Creates
<1>12. ASSUME NEW t \in Threads, Trap(t) PROVE ExtraInv'
    BY <1>12 DEF Trap, Go, daemonVars, boundVars, TypeOK, TargetInv, ExtraInv, Creates
<1>13. CASE UNCHANGED vars
    BY <1>13 DEF vars, daemonVars, boundVars, TypeOK, TargetInv, ExtraInv, Creates
<1>14. QED BY <1>1, <1>2, <1>3, <1>4, <1>5, <1>6, <1>7, <1>8, <1>9, <1>10, <1>11, <1>12,
   <1>13 DEF Next, InitThread, CreateThreads

\* InitThread leaves daemon d and goes on to the next one.  Daemon d must then have
\* an alarm if it has trapped twice, and have it only for a shortage.
LEMMA LeavesQuietly ==
    ASSUME TypeOK, TargetInv, QuietInv, commands = 0, commands' = 0,
           pc[Init_] # "Idle", NEW d \in Daemons, target[Init_] = d, NextDaemon(d),
           threads' = threads,
           \A e \in Daemons \ {d} : traps'[e] = traps[e] /\ alarm'[e] = alarm[e],
           traps'[d] <= 2, traps'[d] > 0 => Short(d),
           traps'[d] = 2 => alarm'[d] # "NoAlarm",
           alarm'[d] # "NoAlarm" => Short(d)
    PROVE  QuietInv'
<1> USE DaemonsAssumption, ThreadsAssumption DEF Threads, Daemons
<1>1. pc'[Cli] = "Idle" /\ (pc'[Init_] = "Visit" \/ pc'[Init_] = "Idle")
    BY DEF NextDaemon, Go, TypeOK, QuietInv
<1>2. \/ pc'[Init_] = "Visit" /\ target'[Init_] = d + 1 /\ recreate' = recreate
      \/ pc'[Init_] = "Idle" /\ d = NumDaemons
    BY DEF NextDaemon, Go, TypeOK
<1>3. pc'[Init_] # "Idle" => recreate'
    BY <1>2 DEF QuietInv
<1>4. ASSUME NEW e \in Daemons
      PROVE  /\ traps'[e] <= 2
             /\ traps'[e] > 0 => Short(e)
             /\ traps'[e] = 2 => \/ alarm'[e] # "NoAlarm"
                                 \/ recreate' /\ target'[Init_] <= e /\ pc'[Init_] = "Visit"
             /\ alarm'[e] # "NoAlarm" => Short(e)
  <2>1. CASE e = d
      BY <2>1
  <2>2. CASE e # d
    <3>1. traps'[e] = traps[e] /\ alarm'[e] = alarm[e]
        BY <2>2
    <3>2. traps[e] = 2 /\ alarm[e] = "NoAlarm" => d < e
        BY <2>2 DEF QuietInv
    <3>3. alarm[e] # "NoAlarm" => Short(e)
        BY <2>2 DEF QuietInv
    <3>4. traps[e] <= 2 /\ (traps[e] > 0 => Short(e))
        BY DEF QuietInv
    <3>5. d < e => pc'[Init_] = "Visit" /\ target'[Init_] <= e /\ recreate'
        BY <1>2, <1>3
    <3>6. QED BY <3>1, <3>2, <3>3, <3>4, <3>5
  <2>3. QED BY <2>1, <2>2
<1>5. \A e \in Daemons : Short(e)' <=> Short(e)
    BY DEF Short, TargetSize
<1>6. QED BY <1>1, <1>3, <1>4, <1>5 DEF QuietInv

\* InitThread takes a step within CreateThreads for daemon d, which is short, and
\* sets its counter of traps to n
LEMMA StaysQuietly ==
    ASSUME TypeOK, QuietInv, commands = 0, commands' = 0, pc[Init_] # "Idle",
           NEW d \in Daemons, target[Init_] = d, Short(d),
           NEW at \in {"Recover", "While", "Create"}, Go(Init_, at, d),
           NEW n \in 0 .. 2, traps' = [traps EXCEPT ![d] = n],
           at = "Recover" => n = 2, at = "While" => n < 2,
           threads' = threads, alarm' = alarm, recreate' = recreate
    PROVE  QuietInv'
<1> USE ThreadsAssumption DEF Threads
<1>1. pc'[Cli] = "Idle" /\ pc'[Init_] = at /\ target'[Init_] = d /\ recreate
    BY DEF Go, TypeOK, QuietInv
<1>2. \A e \in Daemons : Short(e)' <=> Short(e)
    BY DEF Short, TargetSize
<1>3. traps'[d] = n
    BY DEF TypeOK
<1>4. ASSUME NEW e \in Daemons
      PROVE  /\ traps'[e] <= 2
             /\ traps'[e] > 0 => Short(e)
             /\ traps'[e] = 2 => alarm[e] # "NoAlarm" \/ d <= e
             /\ alarm[e] # "NoAlarm" => Short(e) \/ (pc[Init_] = "While" /\ d = e)
  <2>1. CASE e = d
    <3>1. d <= d
        BY DaemonsAssumption DEF Daemons
    <3>2. QED BY <1>3, <2>1, <3>1
  <2>2. CASE e # d
    <3>1. traps'[e] = traps[e]
        BY <2>2 DEF TypeOK
    <3>2. QED BY <2>2, <3>1 DEF QuietInv
  <2>3. QED BY <2>1, <2>2
<1>5. QED BY <1>1, <1>2, <1>3, <1>4 DEF QuietInv

\* Every step keeps what holds until there is a command
LEMMA QuietStep ==
    ASSUME TypeOK, TargetInv, QuietInv, [Next]_vars
    PROVE  QuietInv'
<1> SUFFICES ASSUME commands' = 0 PROVE QuietInv'
    BY DEF QuietInv
<1> USE DaemonsAssumption, BoundsAssumption, ThreadsAssumption, TargetSizeType DEF Threads
<1>0. commands = 0 /\ pc[Cli] = "Idle"
  <2>1. commands \in Nat
      BY DEF TypeOK
  <2>2. commands = 0
      BY <2>1 DEF Next, ThreadDeleted, Disable, Enable, Command, OtherInterrupt, InitThread,
         HandleInterrupt, VisitDaemon, CreateThreads, CountTraps, Recovered, While, Created,
         NotCreated, Trap, boundVars, vars
  <2>3. QED BY <2>2 DEF QuietInv
<1>1. ASSUME NEW d \in Daemons, ThreadDeleted(d) PROVE QuietInv'
    BY <1>0, <1>1 DEF ThreadDeleted, TypeOK, TargetInv, QuietInv, Short, TargetSize
<1>2. ASSUME NEW d \in Daemons, Disable(d) \/ Enable(d) PROVE FALSE
    BY <1>0, <1>2 DEF Disable, Enable, Command, TypeOK
<1>3. CASE OtherInterrupt \/ UNCHANGED vars
    BY <1>0, <1>3 DEF OtherInterrupt, vars, daemonVars, boundVars, QuietInv, Short, TargetSize
<1>4. CASE HandleInterrupt
    BY <1>0, <1>4 DEF HandleInterrupt, Go, daemonVars, boundVars, TypeOK, QuietInv, Short,
       TargetSize, Daemons
<1>5. CASE VisitDaemon
  <2>1. CASE Short(target[Init_])
      BY <1>0, <1>5, <2>1 DEF VisitDaemon, Go, daemonVars, boundVars, TypeOK, TargetInv,
         QuietInv, Short, TargetSize
  <2>2. CASE ~Short(target[Init_])
      BY <1>0, <1>5, <2>2, LeavesQuietly DEF VisitDaemon, daemonVars, boundVars, TypeOK,
         TargetInv, QuietInv, Short
  <2>3. QED BY <2>1, <2>2
<1>6. CASE CountTraps(Init_)
  <2> DEFINE d == target[Init_]
  <2>1. d \in Daemons /\ Short(d)
      BY <1>0, <1>6 DEF CountTraps, TargetInv, QuietInv
  <2>0. pc[Init_] # "Idle"
      BY <1>6 DEF CountTraps
  <2>2. traps[d] \in 0 .. 255 /\ threads' = threads /\ commands' = commands
      BY <1>6, <2>1 DEF CountTraps, boundVars, TypeOK
  <2>3. CASE traps[d] = 0
    <3>1. Go(Init_, "While", d) /\ traps' = traps /\ alarm' = alarm /\ recreate' = recreate
        BY <1>6, <2>3 DEF CountTraps
    <3>2. traps' = [traps EXCEPT ![d] = 0]
        BY <2>1, <2>3, <3>1 DEF TypeOK
    <3>3. 0 \in 0 .. 2 /\ 0 < 2 /\ commands' = 0
        BY <1>0, <2>2
    <3>4. QED BY <1>0, <2>0, <2>1, <2>2, <3>1, <3>2, <3>3, StaysQuietly
  <2>4. CASE traps[d] = 1
    <3>1. Go(Init_, "Recover", d) /\ alarm' = alarm /\ recreate' = recreate
        BY <1>6, <2>4 DEF CountTraps
    <3>2. traps' = [traps EXCEPT ![d] = 2]
        BY <1>6, <2>4 DEF CountTraps, SetTraps
    <3>3. 2 \in 0 .. 2 /\ commands' = 0
        BY <1>0, <2>2
    <3>4. QED BY <1>0, <2>0, <2>1, <2>2, <3>1, <3>2, <3>3, StaysQuietly
  <2>5. CASE traps[d] >= 2
    <3>1. RaiseAlarm(d) /\ NextDaemon(d) /\ traps' = traps
        BY <1>6, <2>2, <2>5 DEF CountTraps, Return
    <3>2. alarm'[d] # "NoAlarm" /\ \A e \in Daemons \ {d} : alarm'[e] = alarm[e]
        BY <2>1, <3>1 DEF RaiseAlarm, TypeOK
    <3>3. traps[d] <= 2 /\ pc[Init_] # "Idle"
        BY <1>0, <1>6, <2>1 DEF CountTraps, QuietInv
    <3>4. QED BY <1>0, <2>1, <2>2, <3>1, <3>2, <3>3, LeavesQuietly
  <2>6. QED BY <2>2, <2>3, <2>4, <2>5
<1>7. CASE Recovered(Init_)
  <2> DEFINE d == target[Init_]
  <2>1. d \in Daemons /\ traps[d] = 2
      BY <1>0, <1>7 DEF Recovered, TargetInv, QuietInv
  <2>2. traps' = [traps EXCEPT ![d] = 1]
      BY <1>7, <2>1 DEF Recovered, SetTraps
  <2>3. QED BY <1>0, <1>7, <2>1, <2>2 DEF Recovered, Go, boundVars, TypeOK, QuietInv, Short,
        TargetSize
<1>8. CASE While(Init_)
  <2> DEFINE d == target[Init_]
  <2>1. d \in Daemons /\ traps[d] < 2 /\ traps[d] \in Nat
      BY <1>0, <1>8 DEF While, TargetInv, QuietInv, TypeOK
  <2>2. CASE Short(d)
    <3>1. traps' = [traps EXCEPT ![d] = traps[d] + 1]
        BY <1>8, <2>1, <2>2 DEF While, SetTraps, Short, TypeOK
    <3>2. /\ Go(Init_, "Create", d) /\ alarm' = alarm /\ recreate' = recreate
          /\ threads' = threads
        BY <1>8, <2>1, <2>2 DEF While, Short, TypeOK
    <3>3. pc[Init_] # "Idle" /\ traps[d] + 1 \in 0 .. 2
        BY <1>8, <2>1 DEF While
    <3>4. QED BY <1>0, <2>1, <2>2, <3>1, <3>2, <3>3, StaysQuietly
  <2>3. CASE ~Short(d)
    <3>1. /\ Return(Init_) /\ alarm' = [alarm EXCEPT ![d] = "NoAlarm"] /\ traps' = traps
          /\ threads' = threads
        BY <1>8, <2>1, <2>3 DEF While, Short, TypeOK
    <3>2. traps[d] = 0
        BY <1>0, <2>1, <2>3 DEF QuietInv
    <3>3. QED BY <1>0, <1>8, <2>1, <3>1, <3>2, LeavesQuietly DEF While, Return, TypeOK
  <2>4. QED BY <2>2, <2>3
<1>9. CASE Created(Init_)
    BY <1>0, <1>9 DEF Created, SetTraps, Go, boundVars, TypeOK, TargetInv, QuietInv, Short,
       TargetSize
<1>10. CASE NotCreated(Init_)
  <2> DEFINE d == target[Init_]
  <2>1. d \in Daemons /\ Short(d)
      BY <1>0, <1>10 DEF NotCreated, TargetInv, QuietInv
  <2>2. traps' = [traps EXCEPT ![d] = 0]
      BY <1>10 DEF NotCreated, SetTraps
  <2>3. QED BY <1>0, <1>10, <2>1, <2>2, LeavesQuietly DEF NotCreated, RaiseAlarm, Return, TypeOK
<1>11. CASE Trap(Init_)
    BY <1>0, <1>11 DEF Trap, Go, daemonVars, boundVars, TypeOK, QuietInv, Short, TargetSize,
       Daemons
<1>12. ASSUME CreateThreads(Cli) PROVE FALSE
    BY <1>0, <1>12 DEF CreateThreads, CountTraps, Recovered, While, Created, NotCreated, Trap
<1>13. QED BY <1>1, <1>2, <1>3, <1>4, <1>5, <1>6, <1>7, <1>8, <1>9, <1>10, <1>11, <1>12
       DEF Next, InitThread, CreateThreads

-----------------------------------------------------------------------------
(* Theorems                                                                 *)

\* The invariant holds in every reachable state
THEOREM InductiveInvariant == Spec => []IInv
<1>1. Init => IInv
  <2> USE DaemonsAssumption, BoundsAssumption, ThreadsAssumption, TargetSizeType DEF Init
  <2>1. Init => TypeOK
    <3> HAVE Init
    <3>1. threads \in [Daemons -> Nat]
        BY TargetSizeType
    <3>2. exits \in 0 .. MaxExits /\ failures \in 0 .. MaxTraps /\ commands \in 0 .. MaxCommands
        OBVIOUS
    <3>3. pc \in [Threads -> Pc] /\ target \in [Threads -> Daemons \cup {Nil}]
        BY DEF Pc
    <3>4. traps \in [Daemons -> 0 .. 255]
        OBVIOUS
    <3>5. QED BY <3>1, <3>2, <3>3, <3>4 DEF TypeOK
  <2>2. Init => TargetInv
      BY DEF TargetInv, Threads
  <2>3. Init => ExtraInv
      BY DEF ExtraInv, Creates, Threads
  <2>4. Init => QuietInv
      BY DEF QuietInv, Threads
  <2>5. QED BY <2>1, <2>2, <2>3, <2>4 DEF IInv
<1>2. IInv /\ [Next]_vars => IInv'
    BY TypeStep, TargetStep, ExtraStep, QuietStep DEF IInv
<1>3. QED BY <1>1, <1>2, PTL DEF Spec

\* The variables of the daemons keep their types: the counter of traps is a byte
THEOREM TypeCorrect == Spec => []TypeOK
<1>1. IInv => TypeOK BY DEF IInv
<1>2. QED BY <1>1, InductiveInvariant, PTL

\* No interleaving of InitThread with the commands of the operator creates more than
\* one thread too many, for any daemons, sizes and numbers of exits, traps and commands
THEOREM ExtraIsBounded == Spec => []AtMostOneExtra
<1>1. IInv => AtMostOneExtra BY DEF IInv, ExtraInv, AtMostOneExtra
<1>2. QED BY <1>1, InductiveInvariant, PTL

\* A daemon that gives up after two traps has an alarm, unless InitThread is still at
\* work: no trap, anywhere in its loop over the daemons, makes it forget one
THEOREM GivesUpLoudly == Spec => []NotSilentlyOff
<1>1. IInv => NotSilentlyOff
    BY DEF IInv, QuietInv, NotSilentlyOff, TypeOK
<1>2. QED BY <1>1, InductiveInvariant, PTL

\* An alarm of a daemon that InitThread is not dealing with is about a real shortage
THEOREM AlarmsAreTrue == Spec => []AlarmIsTrue
<1>1. IInv => AlarmIsTrue
    BY DEF IInv, QuietInv, AlarmIsTrue
<1>2. QED BY <1>1, InductiveInvariant, PTL
=============================================================================
