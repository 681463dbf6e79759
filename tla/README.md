# Verification of the Robust Services Core

TLA+ models of the Robust Services Core (RSC, `src/`), a C++ framework for
session-processing servers: their TLC configurations, and theorems whose proofs
TLAPS checks. `PROJECT.json` is the index: components, runs, mutants, the source
lines behind every definition (`map`), findings, hazards and theorems.

    tlc -workers 2 -config InvokerPool_safety.cfg MCInvokerPool    # one of the runs below
    tlapm InvokerPool_proofs.tla                                  # one of the eight proof modules

## 1. Inventory

RSC is layered in namespaces, one directory each. `nb` (NodeBase) is the base,
`nw` adds the network, `sb` (SessionBase) sessions, `mb`/`cb`/`pb`/`sn`/`an` a
POTS application; `ct`, `dip`, `st`, `nt` are tools and tests.

| Component | State it keeps | Operations | Interacts through | Hard behaviour | What makes it correct |
|---|---|---|---|---|---|
| Threads and scheduler (`nb/Thread`, `nb/InitThread`) | `ActiveThread_`, `Start_`; per thread `blocked_`, `waiting_`, `unpreempts_`, two auto-reset sentries, flags | enter/exit a blocking operation, (un)lock, interrupt, select, preempt, proceed, time out | atomics, unprotected members, sentries; InitThread does all switching | no mutex anywhere; lost and duplicate signals; missed requests | one locked thread at a time; a locked thread is not preempted; everyone gets a turn |
| Daemons (`nb/Daemon`, `sb/SbDaemons`, InitThread's loop) | set of threads, target size, counter of traps, alarm, InitThread's `Recreate` flag | thread deleted, create threads, recover, enable, disable | interrupts of InitThread; CLI commands; alarms | traps inside the repair; InitThread against exits and the CLI | lost threads come back or an alarm says so; no surplus |
| Restarts and watchdog (`nb/RootThread`, `InitThread`, `ModuleRegistry`, `Restart`) | status, level, reason, where the modules are, timers | initiate, shut down and start modules, escalate, watch | interrupts, exceptions, flags, signals | a restart within a restart; threads that do not exit; timers | modules outlive their threads; restarts escalate, end, and are not forgotten |
| Object pools and audit (`nb/ObjectPool*`, `Pooled`) | segments, free queue, mark and corrupt flags, phase of the audit | allocate, free, expand, mark, claim, recover, repair the free queue | every pooled object | audit phases against transactions; corrupt queues; traps of the audit | live objects are never recovered, lost ones are |
| Invoker pools and contexts (`sb/InvokerPool`, `Context`, `InvokerThread`) | four work queues with lengths; per context a state, two message queues, an owner; per invoker the context it has | receive a message, enqueue, find work, process, pause, resume, block, trap, exit | intrusive queues, mutual pointers of context and invoker, interrupts | a context is taken from an invoker that pauses; blocked pools; traps | one invoker per context; no message or wake-up is lost; order of messages |
| Sockets and I/O threads (`nw`) | per socket its state, two owners, a queue; poll array | create, accept, poll, send, dispatch, receive, release, erase | input handlers, ports, messages | release while polled; blocked sends; a thread asleep without sockets | a wrapper outlives its users and is then deleted; messages are kept, in order |
| Messages, ports, PSMs, contexts (`sb/Message`, `MsgPort`, `ProtocolSM`, `*Context`) | port and PSM states, message queues | send, receive, end of transaction, release | contexts, factories, profiles | late and crossing messages; contexts deleted with messages | each message finds its state machine or is discarded harmlessly |
| POTS calls (`cb`, `pb`, `sn`, `an`) | circuit, profile, two half calls, CIP states, a timer each | offhook, dial, present, alert, answer, suspend, release, treatments | signals over IP, CIP, timers | glare; releases that cross; rejected offhooks; timeouts against messages | one half call per line; halves in step; nobody hangs or rings for nothing |
| Timers (`sb/Timer*`) | wheel of timer queues, tick | start, stop, time out, catch up | timeout messages to contexts | timeout against stop; delay of the timer thread | at most one timeout, never after a stop |
| Services (`sb/ServiceSM`, `RootServiceSM`, `Initiator`, `Trigger`, `Event`) | stack of SSMs, current event, phase | process event, route SAP/SNP, initiate | parent and modifier SSMs | nested initiation and ending | events are routed to each modifier once |
| Queues and registries (`Q1Way`, `Q2Way`, `Registry`) | intrusive links, cells | enq, henq, deq, exq, insert, erase, purge | all owners of objects | circular links, removal during iteration | they are sequences, and arrays |
| Logs, alarms, statistics, configuration, memory, tracing, CLI (`nb`) | buffers, counters, parameters | output, roll over, parse | all | buffers that outlive restarts | bookkeeping |
| Media (`mb`), tools (`ct st nt dip`), node lists (`cn on rn rsc`) | sessions, circuits | handlers | framework above | as the framework | as the framework |

`PROJECT.json` lists them one by one, with what is modelled of each.

How the parts fit together: an I/O thread receives a message over a **socket** and
queues its context on a work queue of an **invoker pool**; an invoker takes the
context from the queue and runs its transaction, for example one of a **half call**.
Contexts and messages come from **object pools**. All of these run unpreemptably, so
this code has no locks: the **scheduler** must see to it that one unpreemptable thread
runs at a time. Threads that trap too often exit, and their **daemon** replaces them
when InitThread, which is also the scheduler, gets round to it. When that does not
help, the system is **restarted**, at a higher level each time.

## 2. Modules

| Module | What it is |
|---|---|
| `ContextService` | abstract specification: what an invoker pool promises to contexts |
| `InvokerPool` | work queues, contexts and invokers; implements `ContextService` |
| `InvokerRestart` | `InvokerPool` composed with a warm restart |
| `Scheduler` | InitThread and threads that suspend, get ready and wait for their turn |
| `Daemon` | daemons, InitThread's loop over them, and the CLI thread |
| `SystemRestart` | RootThread's watchdog, InitThread, modules and threads in restarts |
| `ObjectPool` | pools, their users, and the audit |
| `TcpSocket` | a TCP port: sockets, applications, the I/O thread and the network |
| `PotsCall` | subscribers, circuits, profiles and the half calls of basic calls |
| `InvokerPool_proofs`, `InvokerRestart_proofs`, `Scheduler_proofs`, `Daemon_proofs`, `SystemRestart_proofs`, `ObjectPool_proofs`, `TcpSocket_proofs`, `PotsCall_proofs` | inductive invariants and theorems |
| `MC...` | instances and symmetry sets for TLC |

Definitions named "mutant" in comments are plausible faults of the code. Nothing
refers to them: they are substituted for the definition after them, one at a time,
to see that a property would notice.

### InvokerPool and ContextService

State is that of the classes, one variable per member: `state_`, `whichq_`,
`prio_`, `priMsgq_`, `stdMsgq_`, `thread_` of a Context, `contextq_` and
`length_` of an InvokerWork, `ctx_` of an InvokerThread, and of a Thread what the
pool depends on (`blocked_`, `waiting_`, the pending interrupt). `frame` is `this`
of the `Context::ProcessWork` on the invoker's stack, which may differ from `ctx_`
after a pause: that is the central hazard of this code.

Because invokers and I/O threads are unpreemptable, a step of `InvokerPool` is what a
thread does between two blocking operations or between two decisions that something
outside can influence (`NextMsg`, `EndMsg`, `BlockInMsg`, `ResumeContext`, ...).
Actions follow `Context::ProcessWork` and `InvokerPool::ProcessWork` from one such
point to the next; `Enqueue` has one definition per case of the switch in
`Context::Enqueue`. `BlockInMsg` is any handler that pauses or does a database
operation, `Recover` the entry after a trap, `Exit` and `Recreate` a thread that is
forced to exit and its replacement. Messages are distinct values, each of which
arrives once, for any context (or a new one), with any of the given priorities, from
the network or from a transaction.

Abstracted: which factory receives a message, the contents of messages, overload
control (`RejectIngressWork` reads `length`, whose accuracy is checked), statistics,
tracing. A factory's screening is left out: of a context's first message (`ScreenFirstMsg`, which
may put the context at the head of a queue or on another one) and of the messages of a ready
context on the ingress queue (`ScreenIcMsgs`, which may delete it); only the factory of calls has
the latter, and `PotsCall` models it. How long a transaction may run (`Pause` when the time limit nears) is a
nondeterministic choice between `EndStdMsg`'s outcomes.

`ContextService` forgets queues, invokers and pauses: each context has two
sequences of messages and at most one message in progress. `ServesContexts` is
`InvokerPool => ContextService!Spec` with the mapping `current <- Current(c)`.

### InvokerRestart

The restart is driven by InitThread while the last transaction may still be running:
`BeginRestart` sets the level, `NotifyThreads` makes every thread exit
(`Thread::Restarting`), `ExitInRestart` performs `InvokerThread::Shutdown` with
`Requeue`, `EndRestart` creates new invokers. `EmptyContext` is the branch of
`Context::ProcessWork` that the code calls bizarre: it is here because only a context that
was requeued while it ran gets there (`NeverInVain` is the proof for the pool without
restarts). Cold and reload restarts delete contexts and are left out.

A context that pauses in a restart keeps a `thread_` that points to a deleted invoker. In
`EndRestart` such pointers lead to any of the new invokers (`reused`), or to other memory
(`Nil`). `strayed` is a history variable: such a pointer was followed to an invoker that
does not have the context.

### Scheduler

`N` threads in the order of `ThreadRegistry`, and InitThread. Steps are single
reads and writes of shared data: `Suspend` is the compare-and-exchange of
`Thread::Schedule`, `Yield` the interrupt after it; `Ready`, `Check`, `Tell`, `Wait`,
`Resume` are the statements of `Thread::Ready`; `ReadActive`, `TestActive`, `Select`,
`Install`, `Proceed`, `Signal`, `ResetSchedule` those of `ContextSwitch`. Sentries are
Windows auto-reset events: a boolean that a completed wait clears. The flag and the
event of an interrupt are set in one step (a flag that InitThread sees early only makes
its next wake-up idle), the loop of `Select` reads `blocked_` of all threads at once,
and `IsLocked` and `IsScheduled` are read together. Platform priorities are left out:
any runnable thread may take the next step, as on several processors.

`flexible` is the set of threads whose code uses MakePreemptable and
MakeUnpreemptable. It is chosen in the initial state and never changes, so that one run
checks what holds for all threads (`KeepsItsTurn`) and what holds if none of them is
flexible (`RunsAlone`, `EventuallyRuns`).

Not modelled: creation, traps and exits of threads, forced sleep in restarts, and
nested locks (`unpreempts` is whether `unpreempts_` is zero).

### Daemon

`CreateThreads` is split where another thread can act: in `Recover`, in `CreateThread`
and between the iterations of its loop. InitThread (preemptable, so it runs beside the
CLI thread) and the CLI thread (`Enable`) execute it with a program counter each;
`Disable` is a single assignment. A trap in `Recover` or `CreateThread` sends InitThread
back to its entry, which handles its flags again. `traps` is an unsigned byte.
`TargetSize` is the code's: `InvokerDaemon` passes 1 to its base class whatever its
argument. Not modelled: `Startup` and what modules do in a restart. The daemons whose alarm
is critical are in `SystemRestart`.

### SystemRestart

RootThread (`Create`, `Pause`, `Test`, `Settle`) creates InitThread and watches it:
`Expires` is its watchdog, which expires because InitThread is gone or, at most
`MaxLate` times, too soon. InitThread's `ipc` follows `InitThread::Enter` into
`ModuleRegistry::Restart`: `Loop` decides the level (`NextLevel` escalates), `Drain` lets logs
be output, `Exits` waits without a bound until threads have exited, `Shutdown` and `Startup`
go through the modules one at a time. `Trap` and `Close` may hit InitThread in any of them;
`reentered` is the local variable that tells a retry. A restart is requested by a thread
(`RequestRoot`, `RequestInit`: the exception of `Restart::Initiate` interrupts RootThread first
and then InitThread, which may have been replaced between the two: `Stale`), by an operator
or by a signal. Threads are created by `Startup` of their module; one that waits for console
input survives the first try of a restart (`Asleep`, `Resting`), and is told to exit if the
restart is tried again (`Leaving`). `LoseCritical` is the death of a thread whose daemon raises
a critical alarm.

`tried`, `restarts` and `owed` are history variables. Not modelled: parameters that
suspend the watchdog for a debugger (they have their default values), how
`CauseRestart` chooses a level, what modules do with their data. A restart that only exits
(`RestartExit`, by an operator) and the logged error of a manual restart at level Nil are left out:
`Levels` ends with Reboot.

### ObjectPool

The free queue is a circular `Q1Way`, link by link, because its corruption and repair are
the point: `Visit` follows the links as `AuditFreeq` does, and a link that is `Bad` makes
it trap. The audit does one step per phase and pool (`AuditFreeq`, `ClaimBlocks`, which claims
one owner per turn, and `RecoverBlocks`), and users run between the steps: they allocate,
return, lose and move objects, expand the pool, and are avoided once claiming their objects
has trapped (`sick`, `avoided`). A trap reenters the audit in the phase and pool where it was; a
replacement of its thread starts over. `age` counts the audits a lost block has survived, and
`moved` marks an object that its new owner had no chance to claim. `ObjectsPerSegment`
(1024), `MaxSegments` (256) and the threshold of `UpdateAlarm` (50) are constants. Not modelled:
statistics, sequence numbers in object identifiers, deletion of pools in a restart, a trap in the
`Cleanup` of an object that is recovered (the audit is reentered and frees the block without it).

### TcpSocket

`sock[s]` is the wrapper `SysTcpSocket` of socket `s` (state, `disconnecting_`, `iotActive_`,
`appState_`, flags, `ogMsgq_`), its connection (`conn`, `wire`, `data`), and who points to it
(`held`: nobody, an initial message, or an application's port). Applications and the I/O thread
are unpreemptable, so a step is what one of them does between two places where the other can
run: for the I/O thread `PollSockets` up to the poll, the poll's return, and one
`ServiceSocket` or `AcceptConn` per `ConditionalPause`. `array` is `sockets_` with the listener
first, and `Erase` moves the last element into the gap. Of its `Capacity` places `cap` are
allocated, which without a listener are fewer; `Extend` then moves the array (`Moved`, if a poll
is in progress). The peer may answer, refuse, hang up, stop reading (`Full`) and read again
(`Drain`), and the system may forget a socket (`Break`), which a poll reports as invalid. A poll
reports what it was asked for when it began (`asked`, `polled`). An application whose first
message cannot be sent opens another socket for the next one and forgets the first (`SendAnew`).

Memory that is used after it was freed leads to the state `Undefined`, after which nothing
more happens: `PollDeleted`, `ServiceDeleted` and `PollMoved` can occur, see findings 1 and 9
below; `PointersAreValid` says that there is no other way.
Abstracted: partial sends, contents of messages, addresses, statistics. Not
modelled: the failure of the listener, the exit of the thread and its destructor, `Unblock` in a
restart, UDP.

### PotsCall

`circuit[u]` is a PotsCircuit (hook, ringing, digits, state), `profile[u]` the state and the
address of a PotsProfile, `ctx[c]` an SsmContext with its half call: state of the BcSsm, model
(originating or terminating), state of the CIP PSM, peer, the timer that runs, treatments left,
and the queue of messages. `toCall` and `toShelf` are the two directions between circuits and
call; CIP messages go straight to the queue of the peer.

A transaction (`Begin`, one handler, `EndOfTransaction`) is one step, as the invoker runs it: the
handler for the state and message, what it sends to its user and to its peer (`NuAnalyzeLocalMessage`
... `ExAnalyzeLocalMessage`, `RemoteEvent`, `AnalyzeNPsmTimeout`), then `AfterTransaction`, in
which a half call that is Null vanishes with its context and all that is queued there.
The profile is written where the code writes it: `SetObjAddr` when the port is allocated,
`ClearObjAddr` in the destructor of the SSM, `SetLine` in the handlers.
`Cancels` and `ScreenIcMsgs` are the factory's screening of a context that has not been served yet.

Abstracted: features and the multiplexer that they need, service codes, media and tones (a
treatment is a number of tones), causes as far as they do not select a treatment, flash, reset
and traffic circuits, statistics, digits one by one. A Supervise without a ring or a scan parameter is not sent: one that carries
only a cause or media would make an idle circuit a terminating one.
An address is not used again while something refers to it (`Unused`): the code has sequence numbers
for this, but see (c) below.

## 3. Runs

| Run | Instance | What it shows |
|---|---|---|
| `pool_safety` | 2 invokers, 2 contexts, 4 messages, priorities ingress, progress, immediate, 1 exit; symmetric | `QueueConsistent`, `OneInvoker`, `NoStrandedMsg`, `NeverInVain`, `ImmediateFirst`, `WorkIsNoticed`, `NoLockout`; `ServesContexts`: the pool refines `ContextService` |
| `pool_liveness` | 2 invokers, 2 contexts, 2 messages, 2 priorities, 1 exit | `EventuallyServed`, `Drained`, under fairness |
| `restart_safety` | 2 invokers, 2 contexts, 4 messages of 2 priorities, 2 warm restarts; symmetric | `LinkedOnce`, `ReadyIsQueued`, `NoneLeftRunning` |
| `restart_requeue` | 1 invoker, 3 messages, 1 restart | **violation** of `ContextsAreRequeued` |
| `sched_turns` | 2 threads, of which none or the first locks and unlocks | `RunsAlone`: exclusive, as long as no second signal is sent; `KeepsItsTurn`: nobody who runs locked is preempted; `EventuallyRuns`, under fairness |
| `daemon` | 3 daemons (targets 2, 1, 1), 2 exits, 2 traps, 2 commands | `TypeOK` (the counter of traps), `NotSilentlyOff`, `AlarmIsTrue`, `AtMostOneExtra`; `EventuallyRestored`, under fairness |
| `daemon_forgotten` | 2 exits, no traps or commands | **violation** of `NoneForgotten` |
| `object_pool` | 1 pool of up to 3 blocks in as many segments, 2 owners, 1 mishap | `PoolTypeOK` (counters), `FreeIsUnused`, `CountIsTrue`, `OrphansReturn`, `LiveSurvives`, `FreeqIsRepaired` |
| `system_restart` | 2 modules with a thread each, one of which reads input; 1 request, 1 trap, 1 early watchdog, 1 loss | `ThreadsHaveModules`, `NoNeedlessRestart`, `Escalates`; `RequestsAreServed`, `EventuallyInService`, under fairness |
| `system_restart_critical` | the same with the loss alone | **violation** of `CriticalDeathRestarts` |
| `tcp_port` | 2 sockets, with or without a listener, 2 and 1 messages, 1 fault | `PointersAreValid`, `MessagesAreKept`; `ReleasedIsDeleted`, `QueuedIsSent`, under fairness |
| `call` | 2 subscribers, 4 contexts, 1 and 2 offhooks, 1 call, 1 tone, 1 rejected message | `OneOwner`, `HalvesInStep`, `RingsForCall`, `NeverHangs` |

Type invariants that are not listed (`InvokerPool!TypeOK`, `Scheduler!TypeOK`,
`SystemRestart!RestartTypeOK`) are theorems; `TcpSocket!SocketsOK` and
`InvokerRestart!RestartTypeOK` have been checked in their runs' instances.

Why the bounds are enough.

* *Pool:* one context to be taken over and one that competes with it, an invoker that loses
  and one that takes; with four messages of three priorities a context can be queued at low
  priority, be moved up, be taken from an invoker that paused, and get more work meanwhile; a
  second exit finds the pool as the first one did. *Restart:* one restart starts from
  every reachable state of the pool.
* *Scheduler:* two threads are needed to run at once; the model has no counters, so runs are
  unbounded. `RunsAlone` and `KeepsItsTurn` are theorems for any number of threads.
* *Daemon:* a daemon before, at and after the place of InitThread's loop, one of which can
  be partly staffed; two traps are what the code distinguishes; two commands disable and enable.
* *Object pool:* three blocks make an expansion, a queue with a head, a middle and a tail, and a
  queue that a bad link splits; one mishap is what `LiveSurvives` tolerates.
* *System restart:* each kind of trouble once, in any order and at any time, so that a restart
  is interrupted by the three others in turn and every level is reached; a second module and a
  second thread tell the order of modules and one thread from another.
* *TCP:* one socket that is erased and one that takes its place in the array; two messages for the
  order, and to block between them; a fault is a connection that becomes Full, a socket that becomes
  invalid, or a poll that fails. Without a listener the second socket makes the array grow.
* *Call:* `MaxOffhooks`, `MaxDials` and `MaxRejects` bound what each subscriber and overload controls
  do; onhooks follow from offhooks. One subscriber goes offhook once and may dial: a bad number,
  himself, or the other, who goes offhook twice and one of whose messages may be rejected. That
  gives glare, a call to oneself, to a busy line, to a line that is being released or whose
  offhook was rejected, an answer, a suspension and a resumption. A subscriber acts only while at
  most `MaxMsgs` of his messages are on the way and a timer expires only when none is (a user and
  a timer are slower than the network), so that crossings are between messages of different
  origin. With 4 contexts, a context is always free when one is needed: more add no states.

Deadlock is checked except in `object_pool` (a pool whose blocks are all in use or lost can
only be audited, and the audit is not forced), `call` (subscribers have used up their offhooks)
and `tcp_port` (a thread without a listener whose sockets are all gone sleeps for good).

### Findings

* `restart_requeue`: `InvokerThread::Shutdown` says it puts its context back on a work
  queue, but `Context::Enqueue` ignores a context that is Paused.
* `daemon_forgotten`: `RecreateThreads` resets its flag after the loop, and loses the
  request of a thread that exits during the loop and whose daemon was already visited.
* `system_restart_critical`: a critical alarm is to restart the system, but the exception of
  `Restart::Initiate`, raised in InitThread, is caught by `Thread::Start`, which tells nobody when the thread
  is of the system faction. InitThread recreates threads and raises the alarm again, for
  ever, and each time reassures the watchdog.

Seen while modelling, and not checked by a run of their own:

*Scheduler and daemons.* A thread may be signalled twice for one turn; the second signal stays
in its sentry and lets it run beside another locked thread. The code suspects as
much: `ContextSwitches` logs it, and a comment in `InitThread::ContextSwitch` reports
corruptions. `RunsAlone` shows that the second signal is the only cause when threads stay locked,
and the mutant of `EventuallyRuns` that the second signal cannot simply be dropped: without
it a thread that missed the first waits forever. An Enable command between `++traps_` and
`--traps_` wraps the counter to 255, which switches the daemon off until the next command
(`NotSilentlyOff` and `AlarmIsTrue` are about behaviours without a command). The invoker
daemon ignores its size (`sb/SbDaemons.cpp:46`): a pool as shipped has one invoker.

*Restarts.* A message of immediate priority for a context that paused in a warm restart follows
`thread_` to a deleted invoker (`sb/Context.cpp:490`). If a new one was created there,
`ClearContext` takes the context that this one runs; when it then traps or exits, its context
stays Running and is never serviced again. It takes 4 messages and a restart
to get there, and `NoneLeftRunning` holds until then. A thread that survived a restart because it waited for input is told to exit when
that restart is tried again, and may then be `Leaving` while its module is already shut
down. RootThread's timeout of a system in service does not set `reason_`, so that the
restart uses the level of an earlier one.

*Calls.* (a) When an offhook and an onhook are both queued for a new context, `ScreenIcMsgs`
(`sn/PotsCallFactory.cpp:251`) deletes it, but the allocation of the port has already made
the profile Active and nothing makes it Idle: the line is busy until its next offhook. The comment says
"An offhook followed by an onhook is a noop". (b) When the timeout that ends a treatment and an onhook
are both queued, the circuit is locked out although it is onhook; its next offhook is
answered by a release, and so on until the subscriber hangs up. (c) `MsgPort::Find` returns a
port whose sequence number differs from the one it was given.

*Sockets.* (1) `Dispatch` means to requeue a message when the socket blocks and says "this is
an error unless the socket blocked", but `SendBuff` then returns `SendQueued`; `SendBlocked` is
returned nowhere. The socket is deregistered and disconnected although it only blocked, and
it stays in the I/O thread's array: when the application releases it, the wrapper is deleted
(`iotActive_` is off) and still polled. `PointersAreValid` therefore excepts sockets for which
`Dispatch` failed, and no others. (2) After a block, messages that are sent directly overtake those that
are queued (`MessagesAreKept` states the order for sockets that never blocked). (3) `ready_` is a
`size_t`, so the test for a failed poll is never true, and stale flags are handled again
(`PollFails`); a connection may be closed for want of data. (4) A socket whose initial message
is discarded is never acquired, and stays until its peer hangs up. (5) `Release` says of a
socket that the I/O thread still has, "When the PollInvalid event occurs, Deregister() will delete
the wrapper" (`nw/SysTcpSocket.cpp:315`), but on that very event `EraseSocket` calls `Invalidate` and
not `Deregister`: `iotActive_` stays set, the wrapper is in no array any more, and whether it was released
before or is released later, nobody deletes it. `ReleasedIsDeleted` excepts such a wrapper; without the
exception TLC refutes it: the wrapper is lost in 7 states (a socket is released during the poll,
and becomes invalid).
(6) An application's socket that
is inserted before the listener exists is taken for it. (7) The thread's destructor, and
`Unblock` in a restart, purge sockets that others use or that are being polled.
(8) A port whose first message could not be sent opens another socket for its next message
(`sb/MsgPort.cpp:419`) and overwrites its pointer to the first, which it has acquired and will never
release: that wrapper leaks. (9) The constructor of `TcpIoThread` allocates "the maximum size of the
sockets_ array immediately", because `Poll` "will fail spectacularly if it was blocked on its polling
operation when the resizing occurred". Without a listener it reserves one place, but
`Array::Init` raises the limit to two: the second socket of a service without a listener extends the array and frees
its memory, and if the I/O thread is polling, it stores the results through that memory. TLC
reaches this (`Moved`) in 4 states: one socket, the poll, another socket. A third socket is refused,
whatever `MaxConns` says. `PointersAreValid` shows that with a listener the array stays where it is,
and `ReleasedIsDeleted` and `QueuedIsSent` claim nothing once the thread has used freed memory.

### Fairness

* Pool: blocking operations end (`WF Wakeup`), a running thread goes on (`WF RunInvoker`,
  `WF SuspendIO`), selection is round robin (`SF ScheduleIn`), a handler terminates
  (`SF EndMsg`, or the thread is trapped for running too long), InitThread recreates
  (`WF Recreate`, which `EventuallyRestored` is about). No fairness of arrivals.
* Scheduler: InitThread has the higher priority and its delays end; threads reach the
  end of what they do and wake up (each has a weakly fair `Progress`). Locking and
  unlocking are never forced. With preemptable threads `EventuallyRuns` is not claimed: there
  are weakly fair schedules in which InitThread's switch is retracted every time, after
  `Start_` has already moved past the thread that waits.
* Daemon: InitThread and a CLI command make progress; exits, traps and commands are not
  forced.
* System restart: RootThread and InitThread have the highest priorities; the watchdog
  expires if InitThread is gone, for it is a timer; a thread passes on a request it has begun, yields
  when told to, and exits when it must. Reading never ends by itself; trouble is not forced.
* TCP: the I/O thread takes its turns, and its poll returns because it has a timeout; a peer
  answers or refuses, and reads what it is sent. Nothing of what applications do is forced.
* Object pool and call have no liveness properties: `OrphansReturn` counts audits instead, and
  `NeverHangs` says what a half call waits for.

`InvokerPool`, `ObjectPool`, `TcpSocket` and `PotsCall` take from `Scheduler` that one
unpreemptable thread runs at a time, which `Scheduler` establishes only without second
signals. Their results hold as long as that does.

## 4. Theorems

All constants are arbitrary: any sets of invokers, contexts, messages, subscribers, any number
of threads, daemons, modules, pools, segments and sockets, any bounds. Assumptions are the named `ASSUME`s: invokers
exist, `Nil` and `IO` are different from everything else, sizes are positive, the CLI
thread is not InitThread, only threads of the first module read input. TLC evaluates them in
the runs.

| Theorem | States |
|---|---|
| `InvokerPool_proofs!TypeCorrect` | `[]TypeOK` |
| `InvokerPool_proofs!Ownership` | `[]OneInvoker` |
| `InvokerPool_proofs!Queues` | `[]QueueConsistent` |
| `InvokerPool_proofs!NoneStranded` | `[]NoStrandedMsg` |
| `InvokerPool_proofs!ImmediateAhead` | `[]ImmediateFirst` |
| `InvokerPool_proofs!Noticed` | `[]WorkIsNoticed` |
| `InvokerPool_proofs!Lockout` | `[]NoLockout` |
| `InvokerPool_proofs!AlwaysMessages` | `[]NeverInVain` |
| `InvokerPool_proofs!Refinement` | `Spec => ServesContexts` |
| `InvokerRestart_proofs!NeverLinkedTwice` | `[]LinkedOnce` |
| `InvokerRestart_proofs!ReadyFound` | `[]ReadyIsQueued` |
| `InvokerRestart_proofs!NoneForgotten` | `[]NoneLeftRunning` |
| `Scheduler_proofs!TypeCorrect` | `[]TypeOK` |
| `Scheduler_proofs!LockIsExclusive` | `[]RunsAlone` |
| `Scheduler_proofs!TurnsAreKept` | `KeepsItsTurn` |
| `Daemon_proofs!TypeCorrect` | `[]TypeOK` |
| `Daemon_proofs!ExtraIsBounded` | `[]AtMostOneExtra` |
| `Daemon_proofs!GivesUpLoudly` | `[]NotSilentlyOff` |
| `Daemon_proofs!AlarmsAreTrue` | `[]AlarmIsTrue` |
| `SystemRestart_proofs!TypeCorrect` | `[]RestartTypeOK` |
| `SystemRestart_proofs!ModulesOutliveThreads` | `[]ThreadsHaveModules` |
| `SystemRestart_proofs!RestartsEscalate` | `Escalates` |
| `SystemRestart_proofs!RestartsAreNeeded` | `[]NoNeedlessRestart` |
| `ObjectPool_proofs!TypeCorrect` | `[]PoolTypeOK` |
| `ObjectPool_proofs!Invariant` | `[]IInv`, the inductive invariant |
| `ObjectPool_proofs!FreeBlocksAreUnused` | `[]FreeIsUnused` |
| `ObjectPool_proofs!CountIsRight` | `[]CountIsTrue` |
| `ObjectPool_proofs!FreeqGetsRepaired` | `FreeqIsRepaired` |
| `ObjectPool_proofs!LiveObjectsSurvive` | `LiveSurvives` |
| `ObjectPool_proofs!LostBlocksReturn` | `[]OrphansReturn`, if `orphaned_` never starts over (`[]NoWrap`) |
| `TcpSocket_proofs!WrappersOutlivePointers` | `[]PointersAreValid` |
| `TcpSocket_proofs!MessagesAreNotLost` | `[]MessagesAreKept` |
| `TcpSocket_proofs!ListenerIsNotErased` | no socket is in the array twice, and the listener is not serviced as a connection |
| `PotsCall_proofs!CallHasOneOwner` | `[]OneOwner` |
| `PotsCall_proofs!LineIsBusy` | the line of a subscriber who has a half call is never Idle |
| `PotsCall_proofs!CallInvariant` | `[]CallInv`, the inductive invariant |
| `PotsCall_proofs!RingsOnlyForCall` | `[]RingsForCall` |
| `PotsCall_proofs!NothingHangs` | `[]NeverHangs` |
| `PotsCall_proofs!HalvesInvariant` | `[]HalfInv`, the inductive invariant of both halves |
| `PotsCall_proofs!HalvesStayInStep` | `[]HalvesInStep` |

*Pool.* `IInv` adds to the checked properties what they rest on: `ThreadInv` (a thread that
runs or waits is not blocked; only an idle invoker sleeps without a context), `OwnerInv`
(between transactions an invoker owns nothing; an invoker that paused owns either nothing
or its own paused context), `QueueInv` (queues without duplicates, membership equals
state and priority) and `MsgInv` (the message in progress is still at the head of its queue;
a context has immediate priority only while it has an immediate message). `WorkIsNoticed`
needs `ThreadInv`, because `KickThread` returns without an interrupt if any invoker is
scheduled. There is one lemma per action, with one step per conjunct, and lemmas on
removal and insertion in sequences without duplicates. `VainInv`, preserved relative to
`IInv`, gives `NeverInVain`: only the thread that runs is about to look for a message, and
a context only pauses with work left. The refinement maps each step to a step of the service
or to none: `ServesAlone` (no second invoker processes a message of a context that is owned)
makes `Current(c)` change exactly when an invoker takes, ends or drops a message.

*Restart.* Most of `IInv` does not survive a restart: contexts that run are queued, and invokers and
contexts no longer agree on who owns whom. `RInv` is what is left: the queues are disjoint and without
duplicates (`Linked`, preserved by `Unlink` and `Enqueued` wherever the context was before), a
ready context is on one of them, and a running one has an invoker that `Serves` it. Every step
is one of three kinds: nothing moves (`QuietStep`), one context moves (`Moves`), or an invoker leaves with or
without its context (`Leaves`).

*Scheduler.* `CurrInv`: between `TestActive` and `Install`, the thread to be preempted is
still preemptable or is about to suspend, in which case the compare-and-exchange of
`Install` fails once it has. `TurnInv` and `SwitchInv`: whoever runs, and whoever has a signal
waiting, is the active thread; InitThread only installs a thread when it saw none
active, and what it is about to signal is still asking for its turn and has no signal yet.
The invariant is conditional on `flexible = {}` and on no second signal.

*Daemon.* `ExtraInv` counts the threads that are being created: each creator found the daemon
short, not counting what the other one has created since. `QuietInv` describes the behaviours
without commands: where InitThread is in its loop decides which daemons may have traps without
an alarm yet, or an alarm that is about to be cleared.

*SystemRestart.* `ThreadInv`: only readers survive; once threads are told to exit none runs
normally, and once modules are shut down only survivors are left. `ModInv` bounds the module that
is next; `LevelInv`: all levels tried are at most the present one, and a first try has none before
it. `ThreadsHaveModules` needs all three, because a trap leaves the modules half shut down
and the next try starts from there. `CauseInv` is for `NoNeedlessRestart`: the restarts so far,
the threads that ask for one (`Asking`) and what may still cause one (`Pending`: InitThread's flag, its
SIGCLOSE, its own reentry) are together no more than the requests, early watchdogs and traps.

*ObjectPool.* `IInv` says that the free queue of a pool is a `Ring`: a sequence of distinct blocks of the
pool, the tail first, each linked to the next one and the last one to the tail, unless a link was corrupted;
then that link is the last one, and the blocks behind it are on no queue. Blocks on the ring are neither
assigned nor marked. `Counted`: `availCount_` is the length of the ring if its links are good and at least
that if not; a header is flagged only while it is bad. Blocks in use lie within the segments of their pool.
`FreeIsUnused` and `CountIsTrue` follow once `FreeQueue`, which follows links, is known to be the set of the
ring's blocks (`FreeQueueIs`, `RingIsShort`). Each operation on memory has a lemma that turns a ring into a
ring: `EnqueueRing` and `EnqueueAllRing` (a block at the tail hides what was behind a corrupt link),
`DequeueRing`, `AllocRing`, `CutRing` and `CutHead` (corruption), and, for `AuditFreeq`, `MarkedRing` (every
block on the ring is now marked once), `FirstEndIs` (so that the traversal stops where the ring ends, and
nowhere before), `UnmarkRing`, `TruncatedInv` and `SetFlagInv`. `RecoverBlocks` takes no block off the ring,
because what it recovers is marked and the ring is not.

`LiveSurvives` compares the marks of a block to the phase of the audit. `PastInv` says what only a mishap
brings about: a sick owner, a bad link, owners that are claimed although the audit started over, and two
mishaps for the last two together. `LiveInv` says that an object in use that met at most one mishap was
just claimed, or will be before the audit looks for orphans, or was marked only once, which is not enough
(`Tried`). `OrphansReturn` needs `AgeInv`: a lost block has been marked in every cycle that it is old, the
present one excepted if its pool is yet to be marked. This theorem has a condition, `NoWrap`: no block is marked
255 times. The code does not promise that: `AuditFreeq` marks all blocks before it follows the links, so
each time that it meets a bad link and is reentered they are marked once more, and an object that is returned
in between can make it meet the same bad link again. TLC finds up to 5 marks with 3 blocks and 6 with 4,
so the marks grow with the pool, and a pool of some 250 blocks could bring `orphaned_`, which has eight
bits, back to zero. In the instance of the run the condition always holds.

A traversal and a loop over blocks are recursive functions:
`LeastElement`, `Induction` and `Recursion` derive what they need from the well-founded order of the finite
intervals of numbers.

*TcpSocket.* `Owned(r)` is what holds for a wrapper whoever does what to it: who points to it decides its
`appState_`, so that `Deregister` finds nobody when it deletes; `Watched(r)`: in the array, it is alive and
`iotActive_` is set, so that `Release` does not delete it. `ArrayInv` (no duplicates, the listener
first) makes the removal of one socket leave no second place, and `BornInv` (sockets are numbered in
order) makes the next socket new. `CauseInv` follows the size of the array and the part of it that
a poll knows: what a poll or `ServiceSocket` finds deleted is a socket of the array, for which
`Dispatch` has failed, and only the array of one place can grow. `KeptInv`: what a socket sent and what it has queued are distinct messages
that were accepted (`Sent`); and on an open socket that did not fail nothing accepted is missing, and as
long as it never blocked nothing stays queued once it is connected (`Complete`), so that no message can
overtake another.

*PotsCall.* `CallInv` has six parts, and a message that one actor sends is traced in it until another
has acted on it. `IInv` is about owners: `OwnerInv` strengthens `OneOwner`, for a subscriber with a half
call has a profile that refers to it and a line that is not Idle, which is all that `SelectFacility` looks
at before it gives the line to another half call; `ContextInv` makes free contexts empty. `MsgsInv` types
the queues. `ShapeInv` says which timers and which CIP states go with a state of the half call: a
state that nobody else ends has a timer, and a half call that was not served yet has its first
message. `TimeoutInv`: at most one timeout of a timer is queued, for otherwise stopping the timer
would leave one behind. `RingInv` looks at the queue from the call to a circuit: the circuit rings, or
a RingOn is the last thing to be said about it (`Pending`), only while the call is
presented, or a message that stops it follows. `UserInv` does the same for the queues from a
circuit through the profile to the half call: if an offhook is not followed by an onhook, the
user is offhook, and a half call that only its user or the other half ends has a user who is
offhook or whose onhook is on its way. `RingsForCall` follows from `RingInv`, `NeverHangs` from
`ShapeInv` and `UserInv`.

A transaction is described by what its handler has done to the half call: `Fresh` until it sets the
line or selects the user, `Complete` afterwards, for `IInv`; `Begun`, then `Sound`, for the others
(a half call that stops presenting tells the circuit to stop, one that now waits for its user
just heard from a user who is offhook). Each handler is proved to keep this, and the end of a transaction turns it into
the invariant: `EndOfTransactionEffect` says which half calls it changes, and one lemma per part follows. What
circuits do is reduced to `Obeys` (the answer to a message says whether the user is
offhook) and `Noticed` (a circuit that changed hook has told the call).
`NilAssumption` keeps "no message" and "no timer" apart from those that exist, and `CipAssumption` keeps
"invalid" apart from the states of the CIP protocol and "nothing to send" from its messages: the values
of an enumeration, and a pointer to a message.

`HalfInv` adds to `CallInv` what holds for two halves and the queues between them. `Reach(s, q, z)`:
the CIP messages of the queue `q` lead the protocol from state `s` to `z`, each of them valid where it
is received and none after a release. `PortInv` says where that must be (`Due`). While the halves refer
to each other, the caller's messages lead it to the `Mirror` of the state of the other half (AnmSent to AnmRcvd),
and the called half has received all there is. Once the other half is gone, whoever released, they lead to Idle, so that the release
is in the queue and nothing follows it. A half that was offered a call counts as one that received
its IAM, which is the first message of its queue. `StageInv` ties the state of a half call to that of its protocol and
to its timers (`Stages`), and bars a timeout of a timer whose state was left, for
it would find no port. A transaction that a handler ran is one of four kinds (`Outcome`): it ends the
half call and releases the other, sends nothing, sends the IAM, or sends an answer that takes its
protocol along `Answers`. Every handler is proved to come to one of these (the lemmas that end in
`Runs`), and then one lemma for each kind shows what the end of the transaction does to the ports of
both halves and of all others (`EndPorted`, `StayPorted`, `IamPorted`, `AnswerPorted`). `HalvesInStep` follows: `Reach`
has a function of states as its witness, and by the least number at which the two differ it is the
one that `MsgsAreValid` defines.

Only model-checked: the liveness properties, for TLAPS cannot handle fairness and ENABLED. Every safety
invariant and every action property of the runs that pass is proved. The induction
theorems of the library take an operator as a parameter, which the installed provers cannot instantiate.
Where a recursive function is to be known (`ObjectPool_proofs`, `PotsCall_proofs`), the proofs use the least
element of a set of numbers instead, from the well-founded order of their finite intervals; the other
modules with proofs use sequences with `RemoveAt`, `Append` and quantified membership only.

## 5. What is not modelled, and the plan

### Not modelled

* `ct` (a C++ parser, editor and static analyser, more than a third of the code), `dip` (a
  game client), `nt`, `st` and most of `an` (tests, and generators of load): sequential
  programs over large data structures, or tests of what is modelled here. Nothing in
  them interleaves or fails halfway; their correctness is that of their input and output.
* The `Sys*` wrappers, heaps, files and consoles: calls to the platform. What the code above
  relies on (auto-reset events, polls, protection of memory) is modelled where it is used.
* The command line, tracing, statistics, configuration parameters, logs and the display
  functions of every class: parsing, formatting and bookkeeping that no interaction depends on.
  Commands that change the state of a modelled component are actions there.
* Features of the POTS call service and media: they need the routing of events between a
  service and its modifiers, which is first in the plan.

The share of the code that the map covers is small for this reason: the files above are the
bulk of it, and in the modelled files every function also has tracing, display,
statistics and patching around it.

### Plan

1. **ServiceSM**: events routed between a parent service and its modifiers (SAP, SNP,
   initiation requests, phase changes); property: each modifier sees an event once.
2. **ThreadLife**: creation, trap, recovery and exit of a thread, composed with `Scheduler`
   and `Daemon` (orphans, a thread that is killed while it waits, the loss of the active
   thread).
3. **TcpSocket**: the exit of the I/O thread, the failure of the listener, `Unblock`.
4. **TimerRegistry**: the wheel of timer queues and catching up after a delay.
5. **Log buffers** across restarts, **LeakyBucketCounter**, links of **Q2Way**.
6. Proofs: how often a bad link can have the audit mark a block.
