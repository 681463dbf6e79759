------------------------------ MODULE TcpSocket ------------------------------
(***************************************************************************)
(* A TCP port (nw): the wrapper objects of its sockets, the applications   *)
(* that send over them, the I/O thread that polls them, and the network.   *)
(*                                                                         *)
(* A wrapper belongs to an application and to the I/O thread.  It has no   *)
(* lock and no count of its users: iotActive_ and appState_ decide which   *)
(* of the two deletes it.  Both run unpreemptably, so a step is what one   *)
(* of them does between two places where the other may have its turn: for  *)
(* the I/O thread these are the poll and each ConditionalPause.            *)
(*                                                                         *)
(* The listener is assumed to work; the thread does not exit; SocketFailed *)
(* is a hint to the application, which may release a socket at any time.   *)
(***************************************************************************)
EXTENDS Integers, SequencesExt, FiniteSets

CONSTANTS
  N,             \* sockets, each of which is allocated once
  MaxConns,      \* MaxConns of a service that accepts connections
  MaxSends,      \* MaxSends[s]: bound on the messages that are sent over s
  MaxFaults      \* bound on how often a socket blocks or becomes invalid, or a poll fails

Sockets == 1 .. N
Listener == 0

ASSUME SocketAssumption ==
  /\ N \in Nat /\ MaxConns \in Nat \ {0, 1}
  /\ MaxSends \in [Sockets -> Nat] /\ MaxFaults \in Nat

VARIABLES
  sock,    \* sock[s]: the wrapper of s, its connection, and who points to it
  array,   \* TcpIoThread::sockets_
  cap,     \* how many places are allocated for it
  listen,  \* listen_, which is that of the service
  pc,      \* what the I/O thread does
  curr,    \* curr_, counted from 1
  polled,  \* the size of the array when the poll began
  asked,   \* the sockets that are polled for being writeable
  woken,   \* an interrupt of the I/O thread
  faults   \* how many of the MaxFaults have occurred

vars == <<sock, array, cap, listen, pc, curr, polled, asked, woken, faults>>
pollVars == <<listen, curr, polled, asked>>
threadVars == <<cap, pc, pollVars>>

Unborn ==
  [ life     |-> "Unborn",  \* Unborn, Alive, or Deleted
    state    |-> "Idle",    \* state_
    disc     |-> FALSE,     \* disconnecting_
    iot      |-> FALSE,     \* iotActive_
    app      |-> "Initial", \* appState_
    write    |-> FALSE,     \* inFlags_: PollWrite
    out      |-> {},        \* outFlags_
    ogMsgq   |-> <<>>,      \* ogMsgq_
    conn     |-> "None",    \* the connection: Full if sending would block, Bad if the
                            \* system knows it no more, Invalid if the wrapper was told
    wire     |-> <<>>,      \* what was sent
    data     |-> FALSE,     \* an initial message arrived and was not read
    held     |-> "No",      \* who points to it: a message, or an application
    given    |-> 0,         \* how many messages were sent or queued
    blocked  |-> FALSE,     \* a message had to wait after the connection was up
    failed   |-> FALSE ]    \* Dispatch could not send everything

Outs == {"HungUp", "Invalid", "Write", "Read"}

Socket ==
  [ life : {"Unborn", "Alive", "Deleted"}, state : {"Idle", "Connecting", "Connected"},
    disc : BOOLEAN, iot : BOOLEAN, app : {"Initial", "Acquired", "Released"},
    write : BOOLEAN, out : SUBSET Outs, ogMsgq : Seq(Nat),
    conn : {"None", "Pending", "Up", "Full", "Closed", "Bad", "Invalid"},
    wire : Seq(Nat), data : BOOLEAN, held : {"No", "Message", "App"}, given : Nat,
    blocked : BOOLEAN, failed : BOOLEAN ]

SocketsOK ==
  /\ sock \in [Sockets -> Socket]
  /\ array \in Seq(Sockets \cup {Listener})
  /\ listen \in BOOLEAN
  /\ cap \in Nat
  /\ pc \in {"Poll", "Sleep", "Polling", "Moved", "Service", "Accept", "Undefined"}
  /\ curr \in Nat \ {0} /\ polled \in Nat
  /\ asked \in SUBSET Sockets
  /\ woken \in BOOLEAN
  /\ faults \in 0 .. MaxFaults

\* The array is limited to Capacity places, of which Reserved are allocated at once.
\* Array::Init turns a limit of 1 into 2.
Capacity == IF listen THEN MaxConns ELSE 2
Reserved == IF listen THEN MaxConns ELSE 1

\* The I/O thread was entered, and has its listener if it needs one
Init ==
  /\ sock = [s \in Sockets |-> Unborn]
  /\ listen \in BOOLEAN
  /\ array = IF listen THEN <<Listener>> ELSE <<>>
  /\ cap = Reserved
  /\ pc = "Poll" /\ curr = 1 /\ polled = 0 /\ asked = {}
  /\ woken = FALSE
  /\ faults = 0

-----------------------------------------------------------------------------
(* What is done to a wrapper R.                                            *)

\* The destructor: the socket is closed, its messages are purged, and its memory is freed
Deleted(r) == [Unborn EXCEPT !.life = "Deleted", !.app = r.app, !.held = r.held, !.failed = r.failed]

IsOpen(r) == ~r.disc /\ r.conn # "Invalid"

\* The socket can no longer send.  The peer finds out, and answers by closing.
Disconnect(r) == IF r.state = "Idle" \/ r.conn = "Invalid" THEN r ELSE [r EXCEPT !.disc = TRUE]

\* The wrapper forgets its socket, but not that the I/O thread uses it
Invalidate(r) == [r EXCEPT !.conn = "Invalid"]

\* No peer is at the other end
IsLost(r) == r.conn \in {"Closed", "Bad"}

\* Mutant of Deregister: a socket that the application did not acquire is deleted
DeregisterInitial(r) ==
  LET q == [r EXCEPT !.iot = FALSE]
  IN  IF r.app # "Acquired" THEN Deleted(q) ELSE Disconnect(q)

Deregister(r) ==
  LET q == [r EXCEPT !.iot = FALSE]
  IN  IF r.app = "Released" \/ (r.app = "Initial" /\ r.state = "Idle") THEN Deleted(q) ELSE Disconnect(q)

Release(r) ==
  LET q == [r EXCEPT !.app = "Released", !.held = "No"]
  IN  IF r.iot THEN Disconnect(q) ELSE Deleted(q)

\* A message goes to the back of the queue, and the socket is to be polled
QueueBuff(r, m) == [r EXCEPT !.ogMsgq = Append(@, m), !.write = TRUE]

\* A message is sent, or it is queued because there is no connection yet or because
\* the socket blocks.  Messages that wait already are not taken into account.
Accepted(r, m) ==
  LET q == [r EXCEPT !.given = m]
  IN  CASE r.state = "Idle"       -> [QueueBuff(q, m) EXCEPT !.state = "Connecting", !.conn = "Pending"]
        [] r.state = "Connecting" -> QueueBuff(q, m)
        [] r.state = "Connected" /\ r.conn = "Up" -> [q EXCEPT !.wire = Append(@, m)]
        [] OTHER -> [QueueBuff(q, m) EXCEPT !.blocked = TRUE]

\* What SendBuff can make of R, if it sends or queues message M, and if it fails:
\* Connect fails, or Send fails, or the peer's address is not known any more.
SendBuff(r, m) ==
  IF ~IsOpen(r) \/ (r.state = "Idle" /\ IsLost(r)) THEN {r}
  ELSE IF r.state = "Connected" /\ IsLost(r) THEN {r, Disconnect(r)}
  ELSE {Accepted(r, m)} \cup (IF r.state = "Idle" THEN {r} ELSE {})

\* Mutant of DispatchUp: the messages are sent, but stay on the queue
DispatchKeeps(r, q) == {[q EXCEPT !.wire = @ \o r.ogMsgq]}

\* The connection is up: all messages are sent, or K of them until the socket blocks.
\* The next one then goes to the back: SendBuff has queued it again, so that putting it
\* at the head has no effect, and what follows is the same as for a failure.
DispatchUp(r, q) ==
  LET m == r.ogMsgq
      Some(k) == Deregister([q EXCEPT !.wire = @ \o SubSeq(m, 1, k),
                                      !.ogMsgq = SubSeq(m, k + 2, Len(m)) \o <<m[k + 1]>>,
                                      !.write = TRUE, !.conn = "Full",
                                      !.blocked = TRUE, !.failed = TRUE])
  IN  {[q EXCEPT !.wire = @ \o m, !.ogMsgq = <<>>]}
      \cup {Some(k) : k \in IF r.conn = "Full" \/ faults < MaxFaults THEN 0 .. Len(m) - 1 ELSE {}}

\* The first message cannot be sent.  It goes back to the head, unless the socket is
\* no longer open: then nobody has it.
DispatchFails(r, q) ==
  LET lost == [q EXCEPT !.ogMsgq = Tail(@), !.failed = TRUE]
      kept == [q EXCEPT !.write = TRUE, !.failed = TRUE]
  IN  IF IsOpen(r) THEN {Deregister(kept), Deregister(Disconnect(lost))} ELSE {Deregister(lost)}

Dispatch(r) ==
  LET q == [r EXCEPT !.state = "Connected", !.write = FALSE]
  IN  IF r.ogMsgq = <<>> THEN {q}
      ELSE IF ~IsOpen(r) \/ IsLost(r) THEN DispatchFails(r, q)
      ELSE DispatchUp(r, q)

\* An initial message is read and points to the socket
Receive(r) == [r EXCEPT !.data = FALSE, !.held = "Message"]

-----------------------------------------------------------------------------
(* The array of the I/O thread.                                            *)

FirstIndex == IF listen THEN 2 ELSE 1

\* The next socket that is allocated
IsNext(s) == s = Cardinality({t \in Sockets : sock[t].life # "Unborn"}) + 1

\* Array::Erase: the last element takes the place of the one that is removed
Erase(a, i) == IF i = Len(a) THEN Front(a) ELSE Front([a EXCEPT ![i] = Last(a)])

\* If the array has to GROW, it is copied to twice as many places, up to its limit, and
\* its memory is freed.  A poll that has begun goes on with that memory.
Extend(grow) ==
  /\ cap' = IF ~grow THEN cap ELSE IF 2 * cap < Capacity THEN 2 * cap ELSE Capacity
  /\ pc' = IF grow /\ pc = "Polling" THEN "Moved" ELSE pc

\* Mutant of InsertSocket: the thread is not told
InsertQuietly(s) ==
  /\ Len(array) < Capacity
  /\ array' = Append(array, s)
  /\ Extend(Len(array) = cap)
  /\ UNCHANGED woken

\* There is a place for S, and a thread that sleeps because it had no sockets is told
InsertSocket(s) ==
  /\ Len(array) < Capacity
  /\ array' = Append(array, s)
  /\ Extend(Len(array) = cap)
  /\ woken' = (woken \/ array = <<>>)

-----------------------------------------------------------------------------
(* Applications.                                                           *)

\* No memory that was freed has been used
Defined == pc # "Undefined"

\* A socket S is allocated and acquired, and a first message is sent over it.  BEFORE
\* are the wrappers as they were then.
OpenSocket(s, before) ==
  /\ IsNext(s) /\ MaxSends[s] > 0
  /\ InsertSocket(s)
  /\ \E r \in SendBuff([Unborn EXCEPT !.life = "Alive", !.iot = TRUE, !.app = "Acquired", !.held = "App"], 1) :
        sock' = [before EXCEPT ![s] = r]

\* MsgPort::SendMsg, the first time
CreateAppSocket(s) ==
  /\ Defined
  /\ OpenSocket(s, sock)
  /\ UNCHANGED <<pollVars, faults>>

\* MsgPort::SendMsg, after its first message could not be sent over S: the port asks for
\* another socket, whether it gets one or not, and forgets S
SendAnew(s) ==
  /\ Defined
  /\ sock[s].held = "App" /\ sock[s].state = "Idle"
  /\ LET forgotten == [sock EXCEPT ![s].held = "No"]
     IN  \/ sock' = forgotten /\ UNCHANGED <<array, cap, pc, woken>>
         \/ \E t \in Sockets : OpenSocket(t, forgotten)
  /\ UNCHANGED <<pollVars, faults>>

Send(s) ==
  /\ Defined
  /\ sock[s].held = "App" /\ sock[s].state # "Idle" /\ sock[s].given < MaxSends[s]
  /\ \E r \in SendBuff(sock[s], sock[s].given + 1) : sock' = [sock EXCEPT ![s] = r]
  /\ UNCHANGED <<array, threadVars, woken, faults>>

\* A port is created for the initial message, and acquires the socket
Acquire(s) ==
  /\ Defined
  /\ sock[s].held = "Message"
  /\ sock' = [sock EXCEPT ![s].held = "App", ![s].app = "Acquired"]
  /\ UNCHANGED <<array, threadVars, woken, faults>>

\* The initial message is discarded, for example by overload controls
Discard(s) ==
  /\ Defined
  /\ sock[s].held = "Message"
  /\ sock' = [sock EXCEPT ![s].held = "No"]
  /\ UNCHANGED <<array, threadVars, woken, faults>>

\* The port is deleted
ReleaseSocket(s) ==
  /\ Defined
  /\ sock[s].held = "App"
  /\ sock' = [sock EXCEPT ![s] = Release(@)]
  /\ UNCHANGED <<array, threadVars, woken, faults>>

-----------------------------------------------------------------------------
(* The I/O thread.                                                         *)

\* Memory that was freed is used: what follows is undefined
Undefined ==
  /\ pc' = "Undefined"
  /\ UNCHANGED <<sock, array, cap, listen, curr, polled, asked, woken, faults>>

\* PollSockets, up to the poll: without sockets it sleeps until it is interrupted
PollSockets ==
  /\ pc = "Poll"
  /\ polled' = Len(array)
  /\ asked' = {s \in Sockets \cap ToSet(array) : sock[s].write}
  /\ pc' = IF array = <<>> THEN "Sleep" ELSE "Polling"
  /\ UNCHANGED <<sock, array, cap, listen, curr, woken, faults>>

Wake ==
  /\ pc = "Sleep" /\ woken
  /\ woken' = FALSE
  /\ pc' = "Service" /\ curr' = FirstIndex
  /\ UNCHANGED <<sock, array, cap, listen, polled, asked, faults>>

Polled == {array[i] : i \in 1 .. polled} \ {Listener}

\* What a poll can report.  A socket that never connected may be reported or not.
Events(s) ==
  LET r == sock[s]
      e == (IF r.conn = "Up" /\ s \in asked THEN {"Write"} ELSE {})
           \cup (IF r.data THEN {"Read"} ELSE {})
           \cup (IF r.conn = "Closed" THEN {"HungUp"} ELSE {})
  IN  CASE r.conn = "None" -> {{}, {"HungUp"}}
        [] r.conn = "Bad"  -> {{"Invalid"}}
        [] OTHER           -> {e}

\* The poll returns, because of an event or because it has timed out
PollReturns ==
  /\ pc = "Polling"
  /\ \A s \in Polled : sock[s].life = "Alive"
  /\ \E out \in [Polled -> UNION {Events(s) : s \in Polled}] :
        /\ \A s \in Polled : out[s] \in Events(s)
        /\ sock' = [s \in Sockets |-> IF s \in Polled THEN [sock[s] EXCEPT !.out = out[s]] ELSE sock[s]]
  /\ pc' = "Service" /\ curr' = FirstIndex
  /\ polled' = 0 /\ asked' = {}
  /\ UNCHANGED <<array, cap, listen, woken, faults>>

\* ready_ is unsigned, so that an error goes unnoticed: the flags of the last poll
\* are handled again
PollFails ==
  /\ pc = "Polling"
  /\ faults < MaxFaults
  /\ \A s \in Polled : sock[s].life = "Alive"
  /\ faults' = faults + 1
  /\ pc' = "Service" /\ curr' = FirstIndex
  /\ polled' = 0 /\ asked' = {}
  /\ UNCHANGED <<sock, array, cap, listen, woken>>

PollDeleted ==
  /\ pc = "Polling"
  /\ \E s \in Polled : sock[s].life # "Alive"
  /\ Undefined

\* The flags of the sockets are stored in the order of an array that was freed
PollMoved ==
  /\ pc = "Moved"
  /\ Undefined

Here == array[curr]

\* R, the wrapper at curr_, is removed from the array
EraseSocket(r) ==
  /\ sock' = [sock EXCEPT ![Here] = IF "Invalid" \in r.out THEN Invalidate(r) ELSE Deregister(r)]
  /\ array' = Erase(array, curr)
  /\ UNCHANGED curr

KeepSocket(r) ==
  /\ sock' = [sock EXCEPT ![Here] = r]
  /\ curr' = curr + 1
  /\ UNCHANGED array

\* Whether the poll has reported that the connection is gone
IsGone(r) == r.out \cap {"HungUp", "Invalid"} # {}

\* Recv fails if there is nothing to read
ReadSocket(r) == IF r.data /\ r.conn # "Bad" THEN KeepSocket(Receive(r)) ELSE EraseSocket(r)

\* Mutant of ServiceSocket: a socket is looked at if it has an event
ServiceIfEvent ==
  /\ pc = "Service" /\ curr <= Len(array)
  /\ sock[Here].life = "Alive"
  /\ LET r == sock[Here]
     IN  \/ r.out # {} /\ (r.app = "Released" \/ IsGone(r)) /\ EraseSocket(r)
         \/ r.out = {} /\ KeepSocket(r)
         \/ /\ r.app # "Released" /\ r.out # {} /\ ~IsGone(r)
            /\ \E q \in IF "Write" \in r.out THEN Dispatch(r) ELSE {r} :
                  IF "Read" \in r.out THEN ReadSocket(q) ELSE KeepSocket(q)
  /\ UNCHANGED <<cap, listen, pc, polled, asked, woken, faults>>

\* Whether a socket that is Up has become Full
Filled(r, q) == IF r.conn = "Up" /\ q.conn = "Full" THEN 1 ELSE 0

\* A socket that the application has released, or that is gone, is erased.  One that is
\* writeable sends what it has queued, and then a message is read.
ServiceSocket ==
  /\ pc = "Service" /\ curr <= Len(array)
  /\ sock[Here].life = "Alive"
  /\ LET r == sock[Here]
     IN  \/ (r.app = "Released" \/ IsGone(r)) /\ EraseSocket(r) /\ UNCHANGED faults
         \/ r.app # "Released" /\ r.out = {} /\ KeepSocket(r) /\ UNCHANGED faults
         \/ /\ r.app # "Released" /\ r.out # {} /\ ~IsGone(r)
            /\ \E q \in IF "Write" \in r.out THEN Dispatch(r) ELSE {r} :
                  /\ IF "Read" \in r.out THEN ReadSocket(q) ELSE KeepSocket(q)
                  /\ faults' = faults + Filled(r, q)
  /\ UNCHANGED <<cap, listen, pc, polled, asked, woken>>

ServiceDeleted ==
  /\ pc = "Service" /\ curr <= Len(array)
  /\ sock[Here].life # "Alive"
  /\ Undefined

\* All sockets have been serviced
EndService ==
  /\ pc = "Service" /\ curr > Len(array)
  /\ pc' = "Accept" /\ curr' = 1
  /\ UNCHANGED <<sock, array, cap, listen, polled, asked, woken, faults>>

\* A peer has connected; its socket is closed again if there is no place for it
AcceptConn(s) ==
  /\ pc = "Accept" /\ listen
  /\ IsNext(s)
  /\ InsertSocket(s)
  /\ sock' = [sock EXCEPT ![s] = [Unborn EXCEPT !.life = "Alive", !.state = "Connected",
                                                !.iot = TRUE, !.conn = "Up"]]
  /\ UNCHANGED <<pollVars, faults>>

EndAccept ==
  /\ pc = "Accept"
  /\ pc' = "Poll"
  /\ UNCHANGED <<sock, array, cap, listen, curr, polled, asked, woken, faults>>

IoThread ==
  \/ PollSockets \/ Wake \/ PollReturns \/ PollFails \/ PollDeleted \/ PollMoved
  \/ ServiceSocket \/ ServiceDeleted \/ EndService \/ EndAccept
  \/ \E s \in Sockets : AcceptConn(s)

-----------------------------------------------------------------------------
(* The network.                                                            *)

\* The connection of a socket that is in use changes
Connection(s, from, to) ==
  /\ Defined
  /\ sock[s].life = "Alive" /\ sock[s].conn \in from
  /\ sock' = [sock EXCEPT ![s].conn = to]
  /\ UNCHANGED <<array, threadVars, woken>>

Answer(s) == Connection(s, {"Pending"}, "Up") /\ UNCHANGED faults
Drain(s) == Connection(s, {"Full"}, "Up") /\ UNCHANGED faults
Close(s) == Connection(s, {"Pending", "Up", "Full"}, "Closed") /\ UNCHANGED faults

Fill(s) ==
  /\ faults < MaxFaults
  /\ faults' = faults + 1
  /\ Connection(s, {"Up"}, "Full")

\* The system no longer knows a socket
Break(s) ==
  /\ faults < MaxFaults
  /\ faults' = faults + 1
  /\ Connection(s, {"None", "Pending", "Up", "Full", "Closed"}, "Bad")

\* The initial message of a peer that has connected
PeerSends(s) ==
  /\ Defined
  /\ sock[s].life = "Alive" /\ sock[s].conn \in {"Up", "Full"}
  /\ sock[s].app = "Initial" /\ sock[s].held = "No" /\ ~sock[s].data
  /\ sock' = [sock EXCEPT ![s].data = TRUE]
  /\ UNCHANGED <<array, threadVars, woken, faults>>

Network(s) == Answer(s) \/ Drain(s) \/ Close(s) \/ Fill(s) \/ Break(s) \/ PeerSends(s)

Application(s) ==
  \/ CreateAppSocket(s) \/ SendAnew(s) \/ Send(s) \/ Acquire(s) \/ Discard(s) \/ ReleaseSocket(s)

Next == IoThread \/ \E s \in Sockets : Application(s) \/ Network(s)

Spec == Init /\ [][Next]_vars

(* Fairness: the I/O thread gets its turn, and its poll returns, for it has *)
(* a timeout.  A peer answers or refuses, and reads what it is sent.        *)
FairSpec ==
  /\ Spec
  /\ WF_vars(IoThread)
  /\ \A s \in Sockets : WF_vars(Answer(s)) /\ WF_vars(Drain(s))

-----------------------------------------------------------------------------
(* Properties.                                                             *)

InArray(s) == \E i \in 1 .. Len(array) : array[i] = s

\* "A pointer to a socket remains valid until both the application and I/O thread have
\* released it" (SysTcpSocket.h): the wrapper to which an application or a message
\* points is not deleted.  Neither is one that is in the I/O thread's array, as long as
\* Dispatch has sent all that was queued; when it has not, it deregisters a socket that
\* stays in the array.  This, and an array that is extended although no listener was to
\* share it, are the only ways in which the I/O thread comes to use memory that was freed.
PointersAreValid ==
  /\ \A s \in Sockets :
       /\ sock[s].held # "No" => sock[s].life = "Alive"
       /\ InArray(s) /\ ~sock[s].failed => sock[s].life = "Alive"
  /\ pc = "Undefined" => (\E s \in Sockets : sock[s].failed) \/ (~listen /\ cap > Reserved)

\* A message is sent at most once, and what an open socket took is sent or queued.
\* Messages are sent in order, unless one had to wait for a socket that blocked: those
\* that follow it are sent before it once the socket is writeable again.
MessagesAreKept ==
  \A s \in Sockets :
    LET all == sock[s].wire \o sock[s].ogMsgq
    IN  /\ \A i, j \in 1 .. Len(all) : all[i] = all[j] => i = j
        /\ sock[s].life = "Alive" /\ IsOpen(sock[s]) => Len(all) = sock[s].given
        /\ ~sock[s].blocked => \A i \in 1 .. Len(sock[s].wire) : sock[s].wire[i] = i

\* A wrapper that its application has released is deleted, for the I/O thread comes
\* across it after the next poll at the latest, whether the peer answers, hangs up or
\* does nothing.  The exception is a wrapper whose socket was found to be invalid: the
\* I/O thread drops it but does not deregister it, so that neither side deletes it.
ReleasedIsDeleted ==
  \A s \in Sockets :
    sock[s].app = "Released" ~> sock[s].life = "Deleted" \/ sock[s].conn = "Invalid" \/ pc = "Undefined"

\* What is queued on a socket is sent, unless the socket is closed, whether it was queued
\* before the thread polled, during the poll, or while the thread slept because it had no
\* sockets.
QueuedIsSent ==
  \A s \in Sockets :
    sock[s].ogMsgq # <<>>
      ~> sock[s].ogMsgq = <<>> \/ ~IsOpen(sock[s]) \/ pc = "Undefined"
=============================================================================
