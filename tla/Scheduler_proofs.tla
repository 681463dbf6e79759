-------------------------- MODULE Scheduler_proofs -------------------------
(* Proofs about Scheduler: a context switch never takes the turn of a       *)
(* thread that runs unpreemptably, and unpreemptable threads run alone as   *)
(* long as InitThread has not sent a second signal.                         *)
EXTENDS Scheduler, TLAPS

\* The steps of a thread between ExitBlockingOperation and the return of Wait
Asking == {"Ready", "Check", "Tell", "Wait"}

\* blocked_ is what the platform call makes of it
BlockedInv == \A t \in Threads : blocked[t] <=> pc[t] \in {"Suspend", "Yield", "Blocked"}

\* While a context switch is prepared, the thread whose turn it is and that was
\* found to be preemptable may lock itself, but then it is about to suspend.
CurrInv ==
    ipc \in {"Select", "Install"} /\ curr \in Threads /\ active = curr =>
        ~unpreempts[curr] \/ pc[curr] \in {"Pause", "Suspend"}

\* With unpreemptable threads only: whoever runs, or is about to suspend, is active
TurnInv ==
    \A t \in Threads :
        /\ unpreempts[t]
        /\ pc[t] # "Pause"
        /\ pc[t] \in {"Resumed", "Run", "Suspend"} => active = t
        /\ guard[t] => active = t /\ pc[t] \in Asking

\* ... and InitThread only gives a turn if nobody has it, and signals once
SwitchInv ==
    /\ ipc = "Test" /\ curr = Nil => active = Nil
    /\ ipc \in {"Select", "Install"} => curr = Nil /\ active = Nil
    /\ ipc = "Install" => next \in Threads /\ pc[next] \in Asking
    /\ ipc \in {"Proceed", "Signal"} =>
           next \in Threads /\ active = next /\ ~guard[next] /\ pc[next] \in Asking

Once == flexible = {} /\ ~resignals

LockInv == Once => TurnInv /\ SwitchInv

IInv == TypeOK /\ BlockedInv /\ CurrInv /\ LockInv

-----------------------------------------------------------------------------
(* Every step preserves each part of the invariant                          *)

\* Every step preserves the types of the variables
LEMMA TypeStep ==
    ASSUME TypeOK, [Next]_vars
    PROVE  TypeOK'
<1> USE ThreadsAssumption, NilAssumption DEF Threads
<1>1. ASSUME NEW t \in Threads, EnterBlockingOperation(t) PROVE TypeOK'
    BY <1>1 DEF EnterBlockingOperation, At, initVars, TypeOK, Pc, InitPc
<1>2. ASSUME NEW t \in Threads, MakePreemptable(t) PROVE TypeOK'
    BY <1>2 DEF MakePreemptable, At, initVars, TypeOK, Pc, InitPc
<1>3. ASSUME NEW t \in Threads, MakeUnpreemptable(t) PROVE TypeOK'
    BY <1>3 DEF MakeUnpreemptable, At, initVars, TypeOK, Pc, InitPc
<1>4. ASSUME NEW t \in Threads, Suspend(t) PROVE TypeOK'
    BY <1>4 DEF Suspend, At, initVars, TypeOK, Pc, InitPc
<1>5. ASSUME NEW t \in Threads, Yield(t) PROVE TypeOK'
    BY <1>5 DEF Yield, At, InterruptInit, initVars, TypeOK, Pc, InitPc
<1>6. ASSUME NEW t \in Threads, ExitBlockingOperation(t) PROVE TypeOK'
    BY <1>6 DEF ExitBlockingOperation, At, initVars, TypeOK, Pc, InitPc
<1>7. ASSUME NEW t \in Threads, Ready(t) PROVE TypeOK'
    BY <1>7 DEF Ready, At, initVars, TypeOK, Pc, InitPc
<1>8. ASSUME NEW t \in Threads, Check(t) PROVE TypeOK'
    BY <1>8 DEF Check, At, initVars, TypeOK, Pc, InitPc
<1>9. ASSUME NEW t \in Threads, Tell(t) PROVE TypeOK'
    BY <1>9 DEF Tell, At, InterruptInit, initVars, TypeOK, Pc, InitPc
<1>10. ASSUME NEW t \in Threads, Wait(t) PROVE TypeOK'
    BY <1>10 DEF Wait, At, initVars, TypeOK, Pc, InitPc
<1>11. ASSUME NEW t \in Threads, Resume(t) PROVE TypeOK'
    BY <1>11 DEF Resume, At, initVars, TypeOK, Pc, InitPc
<1>12. CASE HandleInterrupt
    BY <1>12 DEF HandleInterrupt, Goto, threadVars, TypeOK, Pc, InitPc
<1>13. CASE HandleTimeout
    BY <1>13 DEF HandleTimeout, Goto, threadVars, TypeOK, Pc, InitPc
<1>14. CASE AfterTimeout
    BY <1>14 DEF AfterTimeout, Goto, IsLocked, threadVars, TypeOK, Pc, InitPc
<1>15. CASE ReadActive
    BY <1>15 DEF ReadActive, Goto, threadVars, TypeOK, Pc, InitPc
<1>16. CASE TestActive
    BY <1>16 DEF TestActive, Goto, IsLocked, threadVars, TypeOK, Pc, InitPc
<1>17. CASE Select
    BY <1>17 DEF Select, Goto, First, CanBeScheduled, Successor, threadVars, TypeOK, Pc, InitPc
<1>18. CASE Install
    BY <1>18 DEF Install, Goto, threadVars, TypeOK, Pc, InitPc
<1>19. CASE Proceed
    BY <1>19 DEF Proceed, Goto, Done, threadVars, TypeOK, Pc, InitPc
<1>20. CASE Signal
    BY <1>20 DEF Signal, Goto, Done, threadVars, TypeOK, Pc, InitPc
<1>21. CASE ResetSchedule
    BY <1>21 DEF ResetSchedule, Goto, threadVars, TypeOK, Pc, InitPc
<1>22. CASE UNCHANGED vars
    BY <1>22 DEF vars, threadVars, initVars, TypeOK, Pc, InitPc
<1>23. QED BY <1>1, <1>2, <1>3, <1>4, <1>5, <1>6, <1>7, <1>8, <1>9, <1>10, <1>11, <1>12,
   <1>13, <1>14, <1>15, <1>16, <1>17, <1>18, <1>19, <1>20, <1>21, <1>22 DEF Next, Thread,
   InitThread

\* Every step keeps blocked_ in line with what the thread does
LEMMA BlockedStep ==
    ASSUME TypeOK, BlockedInv, [Next]_vars
    PROVE  BlockedInv'
<1> USE ThreadsAssumption, NilAssumption DEF Threads
<1>1. ASSUME NEW t \in Threads, EnterBlockingOperation(t) PROVE BlockedInv'
    BY <1>1 DEF EnterBlockingOperation, At, initVars, TypeOK, BlockedInv
<1>2. ASSUME NEW t \in Threads, MakePreemptable(t) PROVE BlockedInv'
    BY <1>2 DEF MakePreemptable, At, initVars, TypeOK, BlockedInv
<1>3. ASSUME NEW t \in Threads, MakeUnpreemptable(t) PROVE BlockedInv'
    BY <1>3 DEF MakeUnpreemptable, At, initVars, TypeOK, BlockedInv
<1>4. ASSUME NEW t \in Threads, Suspend(t) PROVE BlockedInv'
    BY <1>4 DEF Suspend, At, initVars, TypeOK, BlockedInv
<1>5. ASSUME NEW t \in Threads, Yield(t) PROVE BlockedInv'
    BY <1>5 DEF Yield, At, InterruptInit, initVars, TypeOK, BlockedInv
<1>6. ASSUME NEW t \in Threads, ExitBlockingOperation(t) PROVE BlockedInv'
    BY <1>6 DEF ExitBlockingOperation, At, initVars, TypeOK, BlockedInv
<1>7. ASSUME NEW t \in Threads, Ready(t) PROVE BlockedInv'
    BY <1>7 DEF Ready, At, initVars, TypeOK, BlockedInv
<1>8. ASSUME NEW t \in Threads, Check(t) PROVE BlockedInv'
    BY <1>8 DEF Check, At, initVars, TypeOK, BlockedInv
<1>9. ASSUME NEW t \in Threads, Tell(t) PROVE BlockedInv'
    BY <1>9 DEF Tell, At, InterruptInit, initVars, TypeOK, BlockedInv
<1>10. ASSUME NEW t \in Threads, Wait(t) PROVE BlockedInv'
    BY <1>10 DEF Wait, At, initVars, TypeOK, BlockedInv
<1>11. ASSUME NEW t \in Threads, Resume(t) PROVE BlockedInv'
    BY <1>11 DEF Resume, At, initVars, TypeOK, BlockedInv
<1>12. CASE HandleInterrupt
    BY <1>12 DEF HandleInterrupt, Goto, threadVars, TypeOK, BlockedInv
<1>13. CASE HandleTimeout
    BY <1>13 DEF HandleTimeout, Goto, threadVars, TypeOK, BlockedInv
<1>14. CASE AfterTimeout
    BY <1>14 DEF AfterTimeout, Goto, IsLocked, threadVars, TypeOK, BlockedInv
<1>15. CASE ReadActive
    BY <1>15 DEF ReadActive, Goto, threadVars, TypeOK, BlockedInv
<1>16. CASE TestActive
    BY <1>16 DEF TestActive, Goto, IsLocked, threadVars, TypeOK, BlockedInv
<1>17. CASE Select
    BY <1>17 DEF Select, Goto, First, CanBeScheduled, Successor, threadVars, TypeOK, BlockedInv
<1>18. CASE Install
    BY <1>18 DEF Install, Goto, threadVars, TypeOK, BlockedInv
<1>19. CASE Proceed
    BY <1>19 DEF Proceed, Goto, Done, threadVars, TypeOK, BlockedInv
<1>20. CASE Signal
    BY <1>20 DEF Signal, Goto, Done, threadVars, TypeOK, BlockedInv
<1>21. CASE ResetSchedule
    BY <1>21 DEF ResetSchedule, Goto, threadVars, TypeOK, BlockedInv
<1>22. CASE UNCHANGED vars
    BY <1>22 DEF vars, threadVars, initVars, TypeOK, BlockedInv
<1>23. QED BY <1>1, <1>2, <1>3, <1>4, <1>5, <1>6, <1>7, <1>8, <1>9, <1>10, <1>11, <1>12,
   <1>13, <1>14, <1>15, <1>16, <1>17, <1>18, <1>19, <1>20, <1>21, <1>22 DEF Next, Thread,
   InitThread

\* Every step keeps what InitThread knows about the active thread
LEMMA CurrStep ==
    ASSUME TypeOK, CurrInv, [Next]_vars
    PROVE  CurrInv'
<1> USE ThreadsAssumption, NilAssumption DEF Threads
<1>1. ASSUME NEW t \in Threads, EnterBlockingOperation(t) PROVE CurrInv'
    BY <1>1 DEF EnterBlockingOperation, At, initVars, TypeOK, CurrInv
<1>2. ASSUME NEW t \in Threads, MakePreemptable(t) PROVE CurrInv'
    BY <1>2 DEF MakePreemptable, At, initVars, TypeOK, CurrInv
<1>3. ASSUME NEW t \in Threads, MakeUnpreemptable(t) PROVE CurrInv'
    BY <1>3 DEF MakeUnpreemptable, At, initVars, TypeOK, CurrInv
<1>4. ASSUME NEW t \in Threads, Suspend(t) PROVE CurrInv'
    BY <1>4 DEF Suspend, At, initVars, TypeOK, CurrInv
<1>5. ASSUME NEW t \in Threads, Yield(t) PROVE CurrInv'
    BY <1>5 DEF Yield, At, InterruptInit, initVars, TypeOK, CurrInv
<1>6. ASSUME NEW t \in Threads, ExitBlockingOperation(t) PROVE CurrInv'
    BY <1>6 DEF ExitBlockingOperation, At, initVars, TypeOK, CurrInv
<1>7. ASSUME NEW t \in Threads, Ready(t) PROVE CurrInv'
    BY <1>7 DEF Ready, At, initVars, TypeOK, CurrInv
<1>8. ASSUME NEW t \in Threads, Check(t) PROVE CurrInv'
    BY <1>8 DEF Check, At, initVars, TypeOK, CurrInv
<1>9. ASSUME NEW t \in Threads, Tell(t) PROVE CurrInv'
    BY <1>9 DEF Tell, At, InterruptInit, initVars, TypeOK, CurrInv
<1>10. ASSUME NEW t \in Threads, Wait(t) PROVE CurrInv'
    BY <1>10 DEF Wait, At, initVars, TypeOK, CurrInv
<1>11. ASSUME NEW t \in Threads, Resume(t) PROVE CurrInv'
    BY <1>11 DEF Resume, At, initVars, TypeOK, CurrInv
<1>12. CASE HandleInterrupt
    BY <1>12 DEF HandleInterrupt, Goto, threadVars, TypeOK, CurrInv
<1>13. CASE HandleTimeout
    BY <1>13 DEF HandleTimeout, Goto, threadVars, TypeOK, CurrInv
<1>14. CASE AfterTimeout
    BY <1>14 DEF AfterTimeout, Goto, IsLocked, threadVars, TypeOK, CurrInv
<1>15. CASE ReadActive
    BY <1>15 DEF ReadActive, Goto, threadVars, TypeOK, CurrInv
<1>16. CASE TestActive
    BY <1>16 DEF TestActive, Goto, IsLocked, threadVars, TypeOK, CurrInv
<1>17. CASE Select
    BY <1>17 DEF Select, Goto, First, CanBeScheduled, Successor, threadVars, TypeOK, CurrInv
<1>18. CASE Install
    BY <1>18 DEF Install, Goto, threadVars, TypeOK, CurrInv
<1>19. CASE Proceed
    BY <1>19 DEF Proceed, Goto, Done, threadVars, TypeOK, CurrInv
<1>20. CASE Signal
    BY <1>20 DEF Signal, Goto, Done, threadVars, TypeOK, CurrInv
<1>21. CASE ResetSchedule
    BY <1>21 DEF ResetSchedule, Goto, threadVars, TypeOK, CurrInv
<1>22. CASE UNCHANGED vars
    BY <1>22 DEF vars, threadVars, initVars, TypeOK, CurrInv
<1>23. QED BY <1>1, <1>2, <1>3, <1>4, <1>5, <1>6, <1>7, <1>8, <1>9, <1>10, <1>11, <1>12,
   <1>13, <1>14, <1>15, <1>16, <1>17, <1>18, <1>19, <1>20, <1>21, <1>22 DEF Next, Thread,
   InitThread

\* Every step keeps turns exclusive, as long as no second signal was sent
LEMMA LockStep ==
    ASSUME TypeOK, BlockedInv, LockInv, [Next]_vars
    PROVE  LockInv'
<1> USE ThreadsAssumption, NilAssumption DEF Threads
<1>1. ASSUME NEW t \in Threads, EnterBlockingOperation(t) PROVE LockInv'
    BY <1>1 DEF EnterBlockingOperation, At, initVars, TypeOK, BlockedInv, LockInv, Once,
       TurnInv, SwitchInv, Asking
<1>2. ASSUME NEW t \in Threads, MakePreemptable(t) PROVE LockInv'
    BY <1>2 DEF MakePreemptable, At, initVars, TypeOK, BlockedInv, LockInv, Once, TurnInv,
       SwitchInv, Asking
<1>3. ASSUME NEW t \in Threads, MakeUnpreemptable(t) PROVE LockInv'
    BY <1>3 DEF MakeUnpreemptable, At, initVars, TypeOK, BlockedInv, LockInv, Once, TurnInv,
       SwitchInv, Asking
<1>4. ASSUME NEW t \in Threads, Suspend(t) PROVE LockInv'
    BY <1>4, ZenonT(30) DEF Suspend, At, initVars, TypeOK, BlockedInv, LockInv, Once, TurnInv,
       SwitchInv, Asking
<1>5. ASSUME NEW t \in Threads, Yield(t) PROVE LockInv'
    BY <1>5 DEF Yield, At, InterruptInit, initVars, TypeOK, BlockedInv, LockInv, Once,
       TurnInv, SwitchInv, Asking
<1>6. ASSUME NEW t \in Threads, ExitBlockingOperation(t) PROVE LockInv'
    BY <1>6 DEF ExitBlockingOperation, At, initVars, TypeOK, BlockedInv, LockInv, Once,
       TurnInv, SwitchInv, Asking
<1>7. ASSUME NEW t \in Threads, Ready(t) PROVE LockInv'
    BY <1>7 DEF Ready, At, initVars, TypeOK, BlockedInv, LockInv, Once, TurnInv, SwitchInv,
       Asking
<1>8. ASSUME NEW t \in Threads, Check(t) PROVE LockInv'
    BY <1>8 DEF Check, At, initVars, TypeOK, BlockedInv, LockInv, Once, TurnInv, SwitchInv,
       Asking
<1>9. ASSUME NEW t \in Threads, Tell(t) PROVE LockInv'
    BY <1>9 DEF Tell, At, InterruptInit, initVars, TypeOK, BlockedInv, LockInv, Once,
       TurnInv, SwitchInv, Asking
<1>10. ASSUME NEW t \in Threads, Wait(t) PROVE LockInv'
    BY <1>10 DEF Wait, At, initVars, TypeOK, BlockedInv, LockInv, Once, TurnInv, SwitchInv,
       Asking
<1>11. ASSUME NEW t \in Threads, Resume(t) PROVE LockInv'
    BY <1>11 DEF Resume, At, initVars, TypeOK, BlockedInv, LockInv, Once, TurnInv,
       SwitchInv, Asking
<1>12. CASE HandleInterrupt
    BY <1>12 DEF HandleInterrupt, Goto, threadVars, TypeOK, BlockedInv, LockInv, Once,
       TurnInv, SwitchInv, Asking
<1>13. CASE HandleTimeout
    BY <1>13 DEF HandleTimeout, Goto, threadVars, TypeOK, BlockedInv, LockInv, Once,
       TurnInv, SwitchInv, Asking
<1>14. CASE AfterTimeout
    BY <1>14 DEF AfterTimeout, Goto, IsLocked, threadVars, TypeOK, BlockedInv, LockInv,
       Once, TurnInv, SwitchInv, Asking
<1>15. CASE ReadActive
    BY <1>15 DEF ReadActive, Goto, threadVars, TypeOK, BlockedInv, LockInv, Once, TurnInv,
       SwitchInv, Asking
<1>16. CASE TestActive
    BY <1>16 DEF TestActive, Goto, IsLocked, threadVars, TypeOK, BlockedInv, LockInv, Once,
       TurnInv, SwitchInv, Asking
<1>17. CASE Select
  <2> SUFFICES ASSUME Once' PROVE TurnInv' /\ SwitchInv'
      BY DEF LockInv
  <2>1. TurnInv /\ SwitchInv
      BY <1>17 DEF Select, Once, LockInv
  <2>2. active = Nil /\ curr = Nil /\ active' = Nil /\ curr' = Nil
      BY <1>17, <2>1 DEF Select, SwitchInv
  <2>3. TurnInv'
      BY <1>17, <2>1 DEF Select, TurnInv, threadVars
  <2>4. CASE \E t \in Threads : First(t) /\ next' = t /\ ipc' \in {"Reset", "Install"}
    <3> PICK t \in Threads : First(t) /\ next' = t /\ ipc' \in {"Reset", "Install"}
        BY <2>4
    <3>1. pc[t] \in Asking
        BY <2>1, <2>2 DEF First, CanBeScheduled, BlockedInv, TurnInv, Asking, TypeOK, Pc
    <3>2. QED BY <1>17, <2>2, <2>3, <3>1 DEF Select, SwitchInv, threadVars
  <2>5. CASE ipc' = "Reset"
      BY <2>2, <2>3, <2>5 DEF SwitchInv
  <2>6. ipc' = "Reset" \/ \E t \in Threads : First(t) /\ next' = t /\ ipc' \in {"Reset", "Install"}
      BY <1>17 DEF Select, Goto
  <2>7. SwitchInv'
      BY <2>4, <2>5, <2>6
  <2>8. QED BY <2>3, <2>7
<1>18. CASE Install
    BY <1>18 DEF Install, Goto, threadVars, TypeOK, BlockedInv, LockInv, Once, TurnInv,
       SwitchInv, Asking
<1>19. CASE Proceed
    BY <1>19 DEF Proceed, Goto, Done, threadVars, TypeOK, BlockedInv, LockInv, Once,
       TurnInv, SwitchInv, Asking
<1>20. CASE Signal
    BY <1>20 DEF Signal, Goto, Done, threadVars, TypeOK, BlockedInv, LockInv, Once, TurnInv,
       SwitchInv, Asking
<1>21. CASE ResetSchedule
    BY <1>21 DEF ResetSchedule, Goto, threadVars, TypeOK, BlockedInv, LockInv, Once,
       TurnInv, SwitchInv, Asking
<1>22. CASE UNCHANGED vars
    BY <1>22 DEF vars, threadVars, initVars, TypeOK, BlockedInv, LockInv, Once, TurnInv,
       SwitchInv, Asking
<1>23. QED BY <1>1, <1>2, <1>3, <1>4, <1>5, <1>6, <1>7, <1>8, <1>9, <1>10, <1>11, <1>12,
   <1>13, <1>14, <1>15, <1>16, <1>17, <1>18, <1>19, <1>20, <1>21, <1>22 DEF Next, Thread,
   InitThread

-----------------------------------------------------------------------------
(* Theorems                                                                 *)

\* The invariant holds in every reachable state
THEOREM InductiveInvariant == Spec => []IInv
<1>1. Init => IInv
  <2> USE ThreadsAssumption, NilAssumption DEF Init
  <2>1. Init => TypeOK
    <3> HAVE Init
    <3>1. start \in Threads
        BY DEF Threads
    <3>2. pc \in [Threads -> Pc] /\ ipc \in InitPc
        BY DEF Pc, InitPc
    <3>3. QED BY <3>1, <3>2 DEF TypeOK
  <2>2. Init => BlockedInv /\ CurrInv
      BY DEF BlockedInv, CurrInv
  <2>3. Init => LockInv
      BY DEF LockInv, TurnInv, SwitchInv
  <2>4. QED BY <2>1, <2>2, <2>3 DEF IInv
<1>2. IInv /\ [Next]_vars => IInv'
    BY TypeStep, BlockedStep, CurrStep, LockStep DEF IInv
<1>3. QED BY <1>1, <1>2, PTL DEF Spec

\* The variables of the scheduler keep their types
THEOREM TypeCorrect == Spec => []TypeOK
<1>1. IInv => TypeOK BY DEF IInv
<1>2. QED BY <1>1, InductiveInvariant, PTL

\* If all threads are unpreemptable and InitThread has sent no second signal, then
\* at most one thread runs unpreemptably
THEOREM LockIsExclusive == Spec => []RunsAlone
<1>1. IInv => RunsAlone
    BY DEF IInv, LockInv, Once, TurnInv, RunsAlone, OneUnpreemptable, RunsLocked
<1>2. QED BY <1>1, InductiveInvariant, PTL

\* A thread that runs unpreemptably and is active stays active until it gives up its
\* turn by itself, whatever InitThread does at the same time
THEOREM TurnsAreKept == Spec => KeepsItsTurn
<1> DEFINE Keeps == \A t \in Threads : active = t /\ RunsLocked(t) => active' = t
<1>1. IInv /\ [Next]_vars => [Keeps]_vars
  <2> SUFFICES ASSUME IInv, Next, NEW t \in Threads, active = t, RunsLocked(t)
               PROVE  active' = t
      OBVIOUS
  <2>1. ASSUME NEW u \in Threads, Thread(u) PROVE active' = t
      BY <2>1 DEF Thread, EnterBlockingOperation, MakePreemptable, MakeUnpreemptable, Suspend,
         Yield, ExitBlockingOperation, Ready, Check, Tell, Wait, Resume, At, RunsLocked
  <2>2. CASE Install
      BY <2>2 DEF Install, IInv, CurrInv, RunsLocked
  <2>3. CASE InitThread /\ ~Install
      BY <2>3 DEF InitThread, HandleInterrupt, HandleTimeout, AfterTimeout, ReadActive,
         TestActive,
         Select, Proceed, Signal, ResetSchedule
  <2>4. QED BY <2>1, <2>2, <2>3 DEF Next
<1>2. QED BY <1>1, InductiveInvariant, PTL DEF Spec, KeepsItsTurn
=============================================================================
