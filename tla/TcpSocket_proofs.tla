--------------------------- MODULE TcpSocket_proofs ---------------------------
(***************************************************************************)
(* Proofs about TcpSocket, for any number of sockets and messages: while   *)
(* an application, a message or the array of the I/O thread points to a    *)
(* wrapper, it is not deleted, and an open socket loses no message.        *)
(***************************************************************************)
EXTENDS TcpSocket, SequenceTheorems, FiniteSetTheorems, TLAPS

\* A wrapper is a record with the usual fields, whatever these contain
Form(r) ==
  DOMAIN r = { "life", "state", "disc", "iot", "app", "write", "out", "ogMsgq", "conn",
               "wire", "data", "held", "given", "blocked", "failed" }

\* What the application, or a message, may expect of a wrapper.  Deregister deletes
\* one that is Initial and Idle: no message points to such a wrapper, for only a
\* socket that was accepted, and thus is connected, is Initial.
Owned(r) ==
  /\ Form(r)
  /\ r.held # "No" => r.life = "Alive"
  /\ r.app = "Released" => r.held = "No"
  /\ r.held = "App" => r.app = "Acquired"
  /\ r.held = "Message" => r.app = "Initial"
  /\ r.data => r.life = "Alive" /\ r.app = "Initial" /\ r.held = "No"
  /\ r.life = "Alive" /\ r.app = "Initial" => r.state # "Idle"

\* What the I/O thread may expect of a wrapper in its array: Release does not delete
\* it as long as iotActive_ is set.
Watched(r) == ~r.failed => r.life = "Alive" /\ r.iot

WrapperInv == sock = [s \in Sockets |-> sock[s]] /\ \A s \in Sockets : Owned(sock[s])

\* Sockets are numbered in the order of their allocation
BornInv == \E k \in 0 .. N : \A s \in Sockets : sock[s].life # "Unborn" <=> s <= k

\* No socket is in the array twice, and the listener has the first place
ArrayInv ==
  /\ listen \in BOOLEAN
  /\ array \in Seq(Sockets \cup {Listener})
  /\ \A i, j \in 1 .. Len(array) : array[i] = array[j] => i = j
  /\ listen => Len(array) > 0
  /\ \A i \in 1 .. Len(array) : array[i] = Listener <=> listen /\ i = 1

CurrInv == curr \in Nat \ {0} /\ (pc = "Service" => curr >= FirstIndex)

WatchInv ==
  \A i \in 1 .. Len(array) :
    array[i] # Listener => Watched(sock[array[i]]) /\ sock[array[i]].life # "Unborn"

IInv == WrapperInv /\ BornInv /\ ArrayInv /\ CurrInv /\ WatchInv

-----------------------------------------------------------------------------
(* What is done to a wrapper.                                              *)

\* A wrapper that does not exist yet has no users.
LEMMA UnbornIsOwned == Owned(Unborn)
  BY DEF Unborn, Owned, Form

\* Disconnecting changes no user of a wrapper.
LEMMA DisconnectIsOwned ==
  ASSUME NEW r, Owned(r)
  PROVE  LET q == Disconnect(r)
         IN  /\ Owned(q) /\ q.life = r.life /\ q.iot = r.iot /\ q.app = r.app
             /\ q.failed = r.failed /\ q.held = r.held /\ q.state = r.state
  BY DEF Disconnect, Owned, Form

\* A wrapper is deleted by the I/O thread only when the application has released it
LEMMA DeregisterIsOwned ==
  ASSUME NEW r, Owned(r), r.life = "Alive"
  PROVE  LET q == Deregister(r)
         IN  /\ Owned(q) /\ q.life # "Unborn" /\ q.failed = r.failed /\ q.app = r.app
             /\ r.app # "Released" => q.life = "Alive" /\ q.state = r.state
<1> DEFINE q == [r EXCEPT !.iot = FALSE]
<1>1. Owned(q) /\ q.life = "Alive" /\ q.failed = r.failed /\ q.app = r.app /\ q.state = r.state
  BY DEF Owned, Form
<1>2. CASE q.app = "Released" \/ (q.app = "Initial" /\ q.state = "Idle")
  <2>1. q.app = "Released"
    BY <1>1, <1>2 DEF Owned
  <2>2. Deregister(r) = Deleted(q)
    BY <1>1, <1>2 DEF Deregister
  <2>3. Owned(Deleted(q)) /\ Deleted(q).life = "Deleted" /\ Deleted(q).failed = q.failed
        /\ Deleted(q).app = q.app
    BY <1>1, <2>1 DEF Deleted, Unborn, Owned, Form
  <2> HIDE DEF q
  <2> QED BY <1>1, <2>1, <2>2, <2>3
<1>3. CASE ~(q.app = "Released" \/ (q.app = "Initial" /\ q.state = "Idle"))
  <2>1. Deregister(r) = Disconnect(q)
    BY <1>1, <1>3 DEF Deregister
  <2> HIDE DEF q
  <2> QED BY <1>1, <2>1, DisconnectIsOwned
<1> QED BY <1>2, <1>3

\* A wrapper is deleted by the application only when the I/O thread has deregistered it
LEMMA ReleaseIsOwned ==
  ASSUME NEW r, Owned(r), r.life = "Alive", r.held = "App"
  PROVE  /\ Owned(Release(r)) /\ Release(r).life # "Unborn"
         /\ Watched(r) => Watched(Release(r))
<1> DEFINE q == [r EXCEPT !.app = "Released", !.held = "No"]
<1>1. Owned(q) /\ q.life = "Alive" /\ q.failed = r.failed /\ q.iot = r.iot /\ q.app = "Released"
  BY DEF Owned, Form
<1>2. CASE r.iot
  <2>1. Release(r) = Disconnect(q)
    BY <1>2 DEF Release
  <2> HIDE DEF q
  <2> QED BY <1>1, <2>1, DisconnectIsOwned DEF Watched
<1>3. CASE ~r.iot
  <2>1. Release(r) = Deleted(q)
    BY <1>3 DEF Release
  <2>2. Owned(Deleted(q)) /\ Deleted(q).life = "Deleted" /\ Deleted(q).failed = q.failed
    BY <1>1 DEF Deleted, Unborn, Owned, Form
  <2> HIDE DEF q
  <2> QED BY <1>1, <1>3, <2>1, <2>2 DEF Watched
<1> QED BY <1>2, <1>3

\* Q is the wrapper R, alive, with another queue or connection
SameUsers(r, q) ==
  /\ Owned(q) /\ q.life = r.life /\ q.iot = r.iot /\ q.app = r.app
  /\ q.held = r.held /\ q.failed = r.failed

\* Nor does sending a message.
LEMMA SendBuffKeepsUsers ==
  ASSUME NEW r, Owned(r), NEW m, NEW q \in SendBuff(r, m)
  PROVE  SameUsers(r, q)
<1>1. SameUsers(r, r) /\ SameUsers(r, Disconnect(r))
  BY DisconnectIsOwned DEF SameUsers
<1>2. SameUsers(r, Accepted(r, m))
  <2> DEFINE g == [r EXCEPT !.given = m]
             b == QueueBuff(g, m)
  <2>1. SameUsers(r, g)
    BY DEF SameUsers, Owned, Form
  <2>2. SameUsers(r, b)
    BY DEF QueueBuff, SameUsers, Owned, Form
  <2>3. \/ Accepted(r, m) = [b EXCEPT !.state = "Connecting", !.conn = "Pending"]
        \/ Accepted(r, m) = b
        \/ Accepted(r, m) = [g EXCEPT !.wire = Append(@, m)]
        \/ Accepted(r, m) = [b EXCEPT !.blocked = TRUE]
    BY DEF Accepted
  <2>4. ASSUME NEW x, SameUsers(r, x)
        PROVE  /\ SameUsers(r, [x EXCEPT !.state = "Connecting", !.conn = "Pending"])
               /\ SameUsers(r, [x EXCEPT !.wire = Append(@, m)])
               /\ SameUsers(r, [x EXCEPT !.blocked = TRUE])
    BY <2>4 DEF SameUsers, Owned, Form
  <2> HIDE DEF g, b
  <2> QED BY <2>1, <2>2, <2>3, <2>4
<1> QED BY <1>1, <1>2 DEF SendBuff

\* After Dispatch, the wrapper of an application that has not released it is alive.
\* It is still watched, unless sending has failed.
LEMMA DispatchKeepsUsers ==
  ASSUME NEW r, Owned(r), r.life = "Alive", r.app # "Released", Watched(r),
         NEW q \in Dispatch(r)
  PROVE  Owned(q) /\ q.life = "Alive" /\ q.app = r.app /\ Watched(q)
<1> DEFINE Good(x) == Owned(x) /\ x.life = "Alive" /\ x.app = r.app
           p == [r EXCEPT !.state = "Connected", !.write = FALSE]
<1>1. Good(p) /\ Watched(p)
  BY DEF Owned, Form, Watched
<1>2. ASSUME NEW x, Good(x), x.failed
      PROVE  Good(Deregister(x)) /\ Deregister(x).failed
  BY <1>2, DeregisterIsOwned
<1>3. CASE r.ogMsgq = <<>>
  BY <1>1, <1>3 DEF Dispatch
<1>4. CASE r.ogMsgq # <<>> /\ (~IsOpen(r) \/ IsLost(r))
  <2> DEFINE lost == [p EXCEPT !.ogMsgq = Tail(@), !.failed = TRUE]
             kept == [p EXCEPT !.write = TRUE, !.failed = TRUE]
  <2>1. Good(lost) /\ lost.failed /\ Good(kept) /\ kept.failed
    BY <1>1 DEF Owned, Form
  <2>2. Good(Disconnect(lost)) /\ Disconnect(lost).failed
    <3> HIDE DEF lost, p
    <3> QED BY <2>1, DisconnectIsOwned
  <2>3. q \in {Deregister(kept), Deregister(Disconnect(lost)), Deregister(lost)}
    BY <1>4 DEF Dispatch, DispatchFails
  <2> HIDE DEF lost, kept, p
  <2> QED BY <1>2, <2>1, <2>2, <2>3 DEF Watched
<1>5. CASE r.ogMsgq # <<>> /\ IsOpen(r) /\ ~IsLost(r)
  <2>1. q \in DispatchUp(r, p)
    BY <1>5 DEF Dispatch
  <2>2. CASE q = [p EXCEPT !.wire = @ \o r.ogMsgq, !.ogMsgq = <<>>]
    <3> HIDE DEF p
    <3> QED BY <1>1, <2>2 DEF Owned, Form, Watched
  <2>3. ASSUME NEW w, NEW m,
               q = Deregister([p EXCEPT !.wire = w, !.ogMsgq = m, !.write = TRUE, !.conn = "Full",
                                        !.blocked = TRUE, !.failed = TRUE])
        PROVE  Good(q) /\ Watched(q)
    <3> DEFINE x == [p EXCEPT !.wire = w, !.ogMsgq = m, !.write = TRUE, !.conn = "Full",
                              !.blocked = TRUE, !.failed = TRUE]
    <3>1. Good(x) /\ x.failed
      BY <1>1 DEF Owned, Form
    <3>2. q = Deregister(x)
      BY <2>3
    <3> HIDE DEF x, p
    <3> QED BY <1>2, <3>1, <3>2 DEF Watched
  <2>4. CASE q # [p EXCEPT !.wire = @ \o r.ogMsgq, !.ogMsgq = <<>>]
    <3>1. PICK k : q = Deregister([p EXCEPT
             !.wire = @ \o SubSeq(r.ogMsgq, 1, k),
             !.ogMsgq = SubSeq(r.ogMsgq, k + 2, Len(r.ogMsgq)) \o <<r.ogMsgq[k + 1]>>,
             !.write = TRUE, !.conn = "Full", !.blocked = TRUE, !.failed = TRUE])
      BY <2>1, <2>4 DEF DispatchUp
    <3> QED BY <2>3, <3>1
  <2> QED BY <2>2, <2>3, <2>4
<1> QED BY <1>3, <1>4, <1>5

-----------------------------------------------------------------------------
(* What is done to the array.                                              *)

\* Erasing a cell of the array moves the last one into its place.
LEMMA EraseProperties ==
  ASSUME NEW S, NEW a \in Seq(S), NEW i \in 1 .. Len(a)
  PROVE  /\ Erase(a, i) \in Seq(S) /\ Len(Erase(a, i)) = Len(a) - 1
         /\ \A j \in 1 .. Len(a) - 1 : Erase(a, i)[j] = IF j = i THEN a[Len(a)] ELSE a[j]
<1>1. ASSUME NEW b \in Seq(S), Len(b) = Len(a)
      PROVE  /\ Front(b) \in Seq(S) /\ Len(Front(b)) = Len(a) - 1
             /\ \A j \in 1 .. Len(a) - 1 : Front(b)[j] = b[j]
  <2>1. \A j \in 1 .. Len(b) - 1 : b[j] \in S
    OBVIOUS
  <2>2. Len(b) \in Nat /\ Len(b) > 0
    BY <1>1
  <2> QED BY <1>1, <2>1, <2>2, SubSeqProperties DEF Front
<1>2. CASE i = Len(a)
  BY <1>1, <1>2 DEF Erase
<1>3. CASE i # Len(a)
  <2> DEFINE b == [a EXCEPT ![i] = a[Len(a)]]
  <2>1. a[Len(a)] \in S /\ Len(a) \in Nat
    OBVIOUS
  <2>2. /\ b \in Seq(S) /\ Len(b) = Len(a)
        /\ \A j \in 1 .. Len(a) : b[j] = IF j = i THEN a[Len(a)] ELSE a[j]
    BY <2>1, ExceptSeq
  <2>3. Erase(a, i) = Front(b)
    BY <1>3 DEF Erase, Last
  <2> HIDE DEF b
  <2> QED BY <1>1, <2>1, <2>2, <2>3
<1> QED BY <1>2, <1>3

\* The next socket is new, and those before it are not.
LEMMA NextIsUnborn ==
  ASSUME BornInv, NEW s \in Sockets, IsNext(s)
  PROVE  /\ sock[s].life = "Unborn"
         /\ \A t \in Sockets : sock[t].life # "Unborn" <=> t < s
<1>1. PICK k \in 0 .. N : \A t \in Sockets : sock[t].life # "Unborn" <=> t <= k
  BY DEF BornInv
<1>2. {t \in Sockets : sock[t].life # "Unborn"} = 1 .. k
  BY <1>1, SocketAssumption DEF Sockets, SocketAssumption
<1>3. Cardinality(1 .. k) = k
  BY <1>1, FS_Interval
<1>4. s = k + 1
  BY <1>2, <1>3 DEF IsNext
<1> QED BY <1>1, <1>4 DEF Sockets

\* A wrapper changes, and the array does not
LEMMA ChangeKeepsIInv ==
  ASSUME IInv, NEW s \in Sockets, NEW q, sock' = [sock EXCEPT ![s] = q], Owned(q),
         sock[s].life # "Unborn", q.life # "Unborn", Watched(sock[s]) => Watched(q),
         UNCHANGED <<array, listen>>, CurrInv'
  PROVE  IInv'
<1>1. WrapperInv'
  BY DEF IInv, WrapperInv
<1>2. BornInv'
  BY DEF IInv, BornInv, WrapperInv
<1>3. ArrayInv'
  BY DEF IInv, ArrayInv
<1>4. WatchInv'
  BY DEF IInv, WatchInv, WrapperInv
<1> QED BY <1>1, <1>2, <1>3, <1>4 DEF IInv

\* The wrappers of BEFORE are those of sock, but for what does not matter to the I/O thread
Alike(before) ==
  /\ before = [t \in Sockets |-> before[t]]
  /\ \A t \in Sockets :
       Owned(before[t]) /\ before[t].life = sock[t].life /\ (Watched(sock[t]) => Watched(before[t]))

\* A socket that is allocated comes into the array
LEMMA InsertKeepsIInv ==
  ASSUME IInv, NEW s \in Sockets, IsNext(s), NEW before, Alike(before), NEW q,
         sock' = [before EXCEPT ![s] = q], Owned(q), q.life = "Alive", q.iot,
         array' = Append(array, s), UNCHANGED listen, CurrInv'
  PROVE  IInv'
<1>1. \A t \in Sockets : sock'[t] = IF t = s THEN q ELSE before[t]
  BY DEF Alike
<1>2. sock[s].life = "Unborn" /\ \A t \in Sockets : sock[t].life # "Unborn" <=> t < s
  BY NextIsUnborn DEF IInv
<1>3. /\ array' \in Seq(Sockets \cup {Listener}) /\ Len(array') = Len(array) + 1
      /\ \A i \in 1 .. Len(array) : array'[i] = array[i]
      /\ array'[Len(array) + 1] = s
  BY AppendProperties DEF IInv, ArrayInv
<1>4. \A i \in 1 .. Len(array) : array[i] # s
  BY <1>2 DEF IInv, WatchInv, Listener, Sockets
<1>5. s # Listener /\ Len(array) \in Nat
  BY DEF Listener, Sockets, IInv, ArrayInv
<1>6. WrapperInv'
  BY <1>1 DEF Alike, WrapperInv
<1>7. BornInv'
  <2>1. s \in 0 .. N
    BY SocketAssumption DEF Sockets, SocketAssumption
  <2>2. \A t \in Sockets : sock'[t].life # "Unborn" <=> t <= s
    BY <1>1, <1>2 DEF Sockets, Alike
  <2> QED BY <2>1, <2>2 DEF BornInv
<1>8. ArrayInv'
  <2>1. \A i, j \in 1 .. Len(array') : array'[i] = array'[j] => i = j
    BY <1>3, <1>4, <1>5 DEF IInv, ArrayInv
  <2>2. \A i \in 1 .. Len(array') : array'[i] = Listener <=> listen /\ i = 1
    BY <1>3, <1>5 DEF IInv, ArrayInv
  <2> QED BY <1>3, <1>5, <2>1, <2>2 DEF IInv, ArrayInv
<1>9. WatchInv'
  <2> SUFFICES ASSUME NEW i \in 1 .. Len(array'), array'[i] # Listener
               PROVE  Watched(sock'[array'[i]]) /\ sock'[array'[i]].life # "Unborn"
    BY DEF WatchInv
  <2>1. CASE i = Len(array) + 1
    BY <1>1, <1>3, <2>1 DEF Watched
  <2>2. CASE i # Len(array) + 1
    <3>1. i \in 1 .. Len(array) /\ array'[i] = array[i] /\ array[i] # s
      BY <1>3, <1>4, <1>5, <2>2
    <3>2. array[i] \in Sockets /\ sock'[array[i]] = before[array[i]]
      BY <1>1, <1>3, <3>1 DEF IInv, ArrayInv
    <3> QED BY <3>1, <3>2 DEF IInv, WatchInv, Alike
  <2> QED BY <2>1, <2>2
<1> QED BY <1>6, <1>7, <1>8, <1>9 DEF IInv

\* In ServiceSocket, the thread looks at a socket that is in its array
LEMMA HereIsSocket ==
  ASSUME IInv, pc = "Service", curr <= Len(array)
  PROVE  /\ curr \in 1 .. Len(array) /\ Here \in Sockets
         /\ Watched(sock[Here]) /\ sock[Here].life # "Unborn"
<1>1. curr \in 1 .. Len(array) /\ (listen => curr # 1)
  BY DEF IInv, CurrInv, ArrayInv, FirstIndex
<1>2. Here \in Sockets /\ Here # Listener
  BY <1>1 DEF IInv, ArrayInv, Here, Sockets, Listener
<1> QED BY <1>1, <1>2 DEF IInv, WatchInv, Here

\* A socket is removed from the array: whatever happens to its wrapper, none of
\* those that stay there is affected
LEMMA EraseKeepsIInv ==
  ASSUME IInv, pc = "Service", curr <= Len(array), NEW q, Owned(q), q.life # "Unborn",
         sock' = [sock EXCEPT ![Here] = q], array' = Erase(array, curr),
         UNCHANGED <<listen, pc, curr>>
  PROVE  IInv'
<1> DEFINE n == Len(array)
           s == Here
           K(j) == IF j = curr THEN n ELSE j   \* where array'[j] was
<1>1. curr \in 1 .. n /\ s \in Sockets /\ n \in Nat /\ s = array[curr] /\ (listen => curr # 1)
  BY HereIsSocket DEF IInv, CurrInv, ArrayInv, FirstIndex, Here
<1>2. /\ array' \in Seq(Sockets \cup {Listener}) /\ Len(array') = n - 1
      /\ \A j \in 1 .. n - 1 : array'[j] = IF j = curr THEN array[n] ELSE array[j]
  <2>1. array \in Seq(Sockets \cup {Listener})
    BY DEF IInv, ArrayInv
  <2>2. /\ Erase(array, curr) \in Seq(Sockets \cup {Listener}) /\ Len(Erase(array, curr)) = n - 1
        /\ \A j \in 1 .. n - 1 : Erase(array, curr)[j] = IF j = curr THEN array[n] ELSE array[j]
    BY <1>1, <2>1, EraseProperties
  <2> QED BY <2>2
<1>3. \A j \in 1 .. n - 1 : K(j) \in 1 .. n /\ K(j) # curr /\ array'[j] = array[K(j)]
  <2> SUFFICES ASSUME NEW j \in 1 .. n - 1
               PROVE  K(j) \in 1 .. n /\ K(j) # curr /\ array'[j] = array[K(j)]
    OBVIOUS
  <2>1. array'[j] = IF j = curr THEN array[n] ELSE array[j]
    BY <1>2
  <2> HIDE DEF n
  <2> QED BY <1>1, <2>1
<1>4. \A j \in 1 .. n - 1 : array'[j] # s
  BY <1>1, <1>3 DEF IInv, ArrayInv
<1>5. WrapperInv'
  BY DEF IInv, WrapperInv
<1>6. BornInv'
  <2>1. sock[s].life # "Unborn"
    BY HereIsSocket
  <2> QED BY <1>1, <2>1 DEF IInv, BornInv, WrapperInv
<1>7. ArrayInv'
  <2>1. ASSUME NEW i \in 1 .. n - 1, NEW j \in 1 .. n - 1, array'[i] = array'[j] PROVE i = j
    <3>1. K(i) \in 1 .. n /\ K(j) \in 1 .. n /\ array[K(i)] = array[K(j)]
      BY <1>3, <2>1
    <3>2. K(i) = K(j)
      BY <3>1 DEF IInv, ArrayInv
    <3> HIDE DEF n
    <3> QED BY <1>1, <3>2
  <2>2. listen => n > 1
    BY <1>1
  <2>3. \A i \in 1 .. Len(array') : array'[i] = Listener <=> listen /\ i = 1
    BY <1>1, <1>2 DEF IInv, ArrayInv
  <2> QED BY <1>1, <1>2, <2>1, <2>2, <2>3 DEF IInv, ArrayInv
<1>8. WatchInv'
  <2> SUFFICES ASSUME NEW i \in 1 .. Len(array'), array'[i] # Listener
               PROVE  Watched(sock'[array'[i]]) /\ sock'[array'[i]].life # "Unborn"
    BY DEF WatchInv
  <2>1. PICK k \in 1 .. n : array'[i] = array[k]
    <3>1. i \in 1 .. n - 1
      BY <1>2
    <3> QED BY <1>3, <3>1
  <2>2. array[k] \in Sockets /\ array[k] # s
    BY <1>2, <1>4, <2>1 DEF IInv, ArrayInv
  <2>3. sock'[array[k]] = sock[array[k]]
    BY <2>2 DEF IInv, WrapperInv
  <2> QED BY <2>1, <2>3 DEF IInv, WatchInv
<1>9. CurrInv'
  BY DEF IInv, CurrInv, FirstIndex
<1> QED BY <1>5, <1>6, <1>7, <1>8, <1>9 DEF IInv

-----------------------------------------------------------------------------
(* The actions.                                                            *)

\* The invariant holds initially.
LEMMA InitIInv == Init => IInv
<1> SUFFICES ASSUME Init PROVE IInv
  OBVIOUS
<1>1. WrapperInv
  BY UnbornIsOwned DEF Init, WrapperInv
<1>2. BornInv
  <2>1. 0 \in 0 .. N
    BY SocketAssumption DEF SocketAssumption
  <2>2. \A s \in Sockets : sock[s].life # "Unborn" <=> s <= 0
    BY DEF Init, Unborn, Sockets
  <2> QED BY <2>1, <2>2 DEF BornInv
<1>3. ArrayInv
  <2>1. CASE listen
    BY <2>1 DEF Init, ArrayInv
  <2>2. CASE ~listen
    BY <2>2 DEF Init, ArrayInv
  <2> QED BY <2>1, <2>2
<1>4. CurrInv
  BY DEF Init, CurrInv
<1>5. WatchInv
  BY DEF Init, WatchInv
<1> QED BY <1>1, <1>2, <1>3, <1>4, <1>5 DEF IInv

\* Nothing that the invariant is about changes, except where the thread is
LEMMA ThreadKeepsIInv ==
  ASSUME IInv, UNCHANGED <<sock, array, listen>>, CurrInv'
  PROVE  IInv'
  BY DEF IInv, WrapperInv, BornInv, ArrayInv, WatchInv, Watched

\* A change that leaves the users of a wrapper alone keeps it watched.
LEMMA SameUsersKeepWatched ==
  ASSUME NEW r, NEW q, SameUsers(r, q)
  PROVE  Owned(q) /\ q.life = r.life /\ (Watched(r) => Watched(q))
  BY DEF SameUsers, Watched

\* An application that allocates a socket preserves the invariant,
LEMMA OpenKeepsIInv ==
  ASSUME IInv, NEW s \in Sockets, NEW before, Alike(before), OpenSocket(s, before),
         UNCHANGED pollVars
  PROVE  IInv'
<1> DEFINE r == [Unborn EXCEPT !.life = "Alive", !.iot = TRUE, !.app = "Acquired", !.held = "App"]
<1>1. Owned(r) /\ r.life = "Alive" /\ r.iot
  BY DEF Unborn, Owned, Form
<1>2. PICK q \in SendBuff(r, 1) : sock' = [before EXCEPT ![s] = q]
  BY DEF OpenSocket
<1>3. /\ IsNext(s) /\ array' = Append(array, s) /\ UNCHANGED listen
      /\ UNCHANGED curr /\ pc' \in {pc, "Moved"}
  BY DEF OpenSocket, InsertSocket, Extend, pollVars
<1>4. CurrInv'
  BY <1>3 DEF IInv, CurrInv, FirstIndex
<1> HIDE DEF r
<1>5. Owned(q) /\ q.life = "Alive" /\ q.iot
  BY <1>1, <1>2, SendBuffKeepsUsers DEF SameUsers
<1> QED BY <1>2, <1>3, <1>4, <1>5, InsertKeepsIInv

\* as it does by whatever it does to a socket,
LEMMA ApplicationKeepsIInv ==
  ASSUME IInv, NEW s \in Sockets, Application(s)
  PROVE  IInv'
<1>1. Owned(sock[s])
  BY DEF IInv, WrapperInv
<1>2. ASSUME UNCHANGED threadVars PROVE CurrInv' /\ UNCHANGED listen
  BY <1>2 DEF threadVars, pollVars, IInv, CurrInv, FirstIndex
<1>3. CASE CreateAppSocket(s)
  <2>1. Alike(sock)
    BY DEF IInv, WrapperInv, Alike
  <2> QED BY <1>3, <2>1, OpenKeepsIInv DEF CreateAppSocket
<1>4. ASSUME NEW q, sock' = [sock EXCEPT ![s] = q], SameUsers(sock[s], q), sock[s].life = "Alive",
             UNCHANGED array, UNCHANGED threadVars
      PROVE  IInv'
  <2>1. Owned(q) /\ q.life = "Alive" /\ (Watched(sock[s]) => Watched(q))
    BY <1>4, SameUsersKeepWatched
  <2> QED BY <1>2, <1>4, <2>1, ChangeKeepsIInv
<1>5. CASE Send(s)
  <2>1. sock[s].life = "Alive" /\ UNCHANGED array /\ UNCHANGED threadVars
    BY <1>1, <1>5 DEF Send, Owned
  <2>2. PICK q \in SendBuff(sock[s], sock[s].given + 1) : sock' = [sock EXCEPT ![s] = q]
    BY <1>5 DEF Send
  <2> QED BY <1>1, <1>4, <2>1, <2>2, SendBuffKeepsUsers
<1>6. ASSUME NEW q, sock' = [sock EXCEPT ![s] = q], Owned(q), sock[s].life # "Unborn",
             q.life # "Unborn", Watched(sock[s]) => Watched(q), UNCHANGED array, UNCHANGED threadVars
      PROVE  IInv'
  BY <1>2, <1>6, ChangeKeepsIInv
<1>7. CASE Acquire(s)
  <2> DEFINE q == [sock[s] EXCEPT !.held = "App", !.app = "Acquired"]
  <2>1. sock' = [sock EXCEPT ![s] = q] /\ UNCHANGED array /\ UNCHANGED threadVars
    BY <1>7 DEF Acquire
  <2>2. sock[s].life = "Alive" /\ Owned(q) /\ q.life = "Alive" /\ q.iot = sock[s].iot
        /\ q.failed = sock[s].failed
    BY <1>1, <1>7 DEF Acquire, Owned, Form
  <2> HIDE DEF q
  <2> QED BY <1>6, <2>1, <2>2 DEF Watched
<1>8. CASE Discard(s)
  <2> DEFINE q == [sock[s] EXCEPT !.held = "No"]
  <2>1. sock' = [sock EXCEPT ![s] = q] /\ UNCHANGED array /\ UNCHANGED threadVars
    BY <1>8 DEF Discard
  <2>2. sock[s].life = "Alive" /\ Owned(q) /\ q.life = "Alive" /\ q.iot = sock[s].iot
        /\ q.failed = sock[s].failed
    BY <1>1, <1>8 DEF Discard, Owned, Form
  <2> HIDE DEF q
  <2> QED BY <1>6, <2>1, <2>2 DEF Watched
<1>9. CASE SendAnew(s)
  <2> DEFINE q == [sock[s] EXCEPT !.held = "No"]
             before == [sock EXCEPT ![s].held = "No"]
  <2>1. sock[s].life = "Alive" /\ Owned(q) /\ q.life = "Alive" /\ q.iot = sock[s].iot
        /\ q.failed = sock[s].failed
    BY <1>1, <1>9 DEF SendAnew, Owned, Form
  <2>2. before = [sock EXCEPT ![s] = q]
    OBVIOUS
  <2> HIDE DEF q
  <2>3. Watched(sock[s]) => Watched(q)
    BY <2>1 DEF Watched
  <2>4. CASE sock' = before /\ UNCHANGED <<array, cap, pc, woken>>
    <3>1. UNCHANGED array /\ UNCHANGED threadVars
      BY <1>9, <2>4 DEF SendAnew, threadVars
    <3> QED BY <1>6, <2>1, <2>2, <2>3, <2>4, <3>1
  <2>5. ASSUME NEW t \in Sockets, OpenSocket(t, before) PROVE IInv'
    <3>1. \A u \in Sockets : before[u] = IF u = s THEN q ELSE sock[u]
      BY <2>2 DEF IInv, WrapperInv
    <3>2. before = [u \in Sockets |-> before[u]]
      BY <2>2 DEF IInv, WrapperInv
    <3> HIDE DEF before
    <3>3. Alike(before)
      BY <2>1, <2>3, <3>1, <3>2 DEF IInv, WrapperInv, Alike
    <3>4. UNCHANGED pollVars
      BY <1>9 DEF SendAnew
    <3> QED BY <2>5, <3>3, <3>4, OpenKeepsIInv
  <2> QED BY <1>9, <2>4, <2>5 DEF SendAnew
<1>10. CASE ReleaseSocket(s)
  <2>1. sock[s].held = "App" /\ sock[s].life = "Alive" /\ UNCHANGED array /\ UNCHANGED threadVars
    BY <1>1, <1>10 DEF ReleaseSocket, Owned
  <2>2. sock' = [sock EXCEPT ![s] = Release(sock[s])]
    BY <1>10 DEF ReleaseSocket
  <2> QED BY <1>1, <1>6, <2>1, <2>2, ReleaseIsOwned
<1> QED BY <1>3, <1>5, <1>7, <1>8, <1>9, <1>10 DEF Application

\* so does the return from a poll,
LEMMA PollKeepsIInv ==
  ASSUME IInv, PollReturns
  PROVE  IInv'
<1>1. PICK out \in [Polled -> UNION {Events(s) : s \in Polled}] :
        sock' = [s \in Sockets |-> IF s \in Polled THEN [sock[s] EXCEPT !.out = out[s]] ELSE sock[s]]
  BY DEF PollReturns
<1>2. ASSUME NEW s \in Sockets
      PROVE  /\ Owned(sock'[s]) /\ sock'[s].life = sock[s].life
             /\ Watched(sock[s]) => Watched(sock'[s])
  <2>1. Owned(sock[s])
    BY DEF IInv, WrapperInv
  <2>2. ASSUME NEW x
        PROVE  LET q == [sock[s] EXCEPT !.out = x]
               IN  Owned(q) /\ q.life = sock[s].life /\ (Watched(sock[s]) => Watched(q))
    BY <2>1 DEF Owned, Form, Watched
  <2>3. sock'[s] = sock[s] \/ sock'[s] = [sock[s] EXCEPT !.out = out[s]]
    BY <1>1
  <2> QED BY <2>1, <2>2, <2>3
<1>3. UNCHANGED <<array, listen>> /\ CurrInv'
  BY DEF PollReturns, CurrInv, FirstIndex
<1>4. WrapperInv'
  BY <1>1, <1>2 DEF WrapperInv
<1>5. BornInv'
  BY <1>2 DEF IInv, BornInv
<1>6. ArrayInv'
  BY <1>3 DEF IInv, ArrayInv
<1>7. WatchInv'
  BY <1>2, <1>3 DEF IInv, WatchInv, ArrayInv
<1> QED BY <1>3, <1>4, <1>5, <1>6, <1>7 DEF IInv

\* so does the service of a socket,
LEMMA ServiceKeepsIInv ==
  ASSUME IInv, ServiceSocket
  PROVE  IInv'
<1> DEFINE r == sock[Here]
<1>1. /\ pc = "Service" /\ curr <= Len(array) /\ r.life = "Alive"
      /\ UNCHANGED <<listen, pc, polled, asked, woken>>
  BY DEF ServiceSocket
<1>2. curr \in 1 .. Len(array) /\ Here \in Sockets /\ Watched(r) /\ Owned(r)
  BY <1>1, HereIsSocket DEF IInv, WrapperInv
<1>3. ASSUME NEW q, Owned(q), q.life = "Alive", EraseSocket(q) PROVE IInv'
  <2>1. /\ Owned(Deregister(q)) /\ Deregister(q).life # "Unborn"
        /\ Owned(Invalidate(q)) /\ Invalidate(q).life # "Unborn"
    BY <1>3, DeregisterIsOwned DEF Invalidate, Owned, Form
  <2>2. /\ \/ sock' = [sock EXCEPT ![Here] = Deregister(q)]
           \/ sock' = [sock EXCEPT ![Here] = Invalidate(q)]
        /\ array' = Erase(array, curr) /\ UNCHANGED curr
    BY <1>3 DEF EraseSocket
  <2> QED BY <1>1, <2>1, <2>2, EraseKeepsIInv
<1>4. ASSUME NEW q, Owned(q), q.life = "Alive", Watched(q), KeepSocket(q) PROVE IInv'
  <2>1. sock' = [sock EXCEPT ![Here] = q] /\ curr' = curr + 1 /\ UNCHANGED array
    BY <1>4 DEF KeepSocket
  <2>2. CurrInv'
    BY <1>1, <2>1 DEF IInv, CurrInv, FirstIndex
  <2> QED BY <1>1, <1>2, <1>4, <2>1, <2>2, ChangeKeepsIInv
<1>5. ASSUME NEW q, Owned(q), q.life = "Alive", Watched(q), ReadSocket(q) PROVE IInv'
  <2>1. CASE q.data /\ q.conn # "Bad"
    <3>1. Owned(Receive(q)) /\ Receive(q).life = "Alive" /\ Watched(Receive(q))
      BY <1>5, <2>1 DEF Receive, Owned, Form, Watched
    <3> QED BY <1>4, <1>5, <2>1, <3>1 DEF ReadSocket
  <2>2. CASE ~(q.data /\ q.conn # "Bad")
    BY <1>3, <1>5, <2>2 DEF ReadSocket
  <2> QED BY <2>1, <2>2
<1>6. CASE EraseSocket(r)
  BY <1>1, <1>2, <1>3, <1>6
<1>7. CASE KeepSocket(r)
  BY <1>1, <1>2, <1>4, <1>7
<1>8. CASE /\ r.app # "Released"
           /\ \E q \in IF "Write" \in r.out THEN Dispatch(r) ELSE {r} :
                IF "Read" \in r.out THEN ReadSocket(q) ELSE KeepSocket(q)
  <2>1. PICK q \in IF "Write" \in r.out THEN Dispatch(r) ELSE {r} : ReadSocket(q) \/ KeepSocket(q)
    BY <1>8
  <2>2. Owned(q) /\ q.life = "Alive" /\ Watched(q)
    BY <1>1, <1>2, <1>8, DispatchKeepsUsers
  <2> QED BY <1>4, <1>5, <2>1, <2>2
<1> QED BY <1>6, <1>7, <1>8 DEF ServiceSocket

\* so does the acceptance of a connection,
LEMMA AcceptKeepsIInv ==
  ASSUME IInv, NEW s \in Sockets, AcceptConn(s)
  PROVE  IInv'
<1> DEFINE q == [Unborn EXCEPT !.life = "Alive", !.state = "Connected", !.iot = TRUE, !.conn = "Up"]
<1>1. Owned(q) /\ q.life = "Alive" /\ q.iot
  BY DEF Unborn, Owned, Form
<1>2. IsNext(s) /\ array' = Append(array, s) /\ UNCHANGED <<listen, pc, curr>>
      /\ sock' = [sock EXCEPT ![s] = q]
  BY DEF AcceptConn, InsertSocket, Extend, pollVars
<1>3. CurrInv' /\ UNCHANGED listen
  BY <1>2 DEF IInv, CurrInv, FirstIndex
<1>4. Alike(sock)
  BY DEF IInv, WrapperInv, Alike
<1> HIDE DEF q
<1> QED BY <1>1, <1>2, <1>3, <1>4, InsertKeepsIInv

\* hence whatever the I/O thread does,
LEMMA IoThreadKeepsIInv ==
  ASSUME IInv, IoThread
  PROVE  IInv'
<1>1. CASE PollSockets \/ PollDeleted \/ PollMoved \/ ServiceDeleted \/ EndService \/ EndAccept
  <2>1. UNCHANGED <<sock, array, listen>> /\ curr' \in {curr, 1} /\ pc' # "Service"
    BY <1>1 DEF PollSockets, PollDeleted, PollMoved, ServiceDeleted, Undefined, EndService,
                EndAccept
  <2> QED BY <2>1, ThreadKeepsIInv DEF IInv, CurrInv
<1>2. CASE Wake \/ PollFails
  <2>1. UNCHANGED <<sock, array, listen>> /\ curr' = FirstIndex
    BY <1>2 DEF Wake, PollFails
  <2> QED BY <2>1, ThreadKeepsIInv DEF IInv, CurrInv, FirstIndex
<1> QED BY <1>1, <1>2, PollKeepsIInv, ServiceKeepsIInv, AcceptKeepsIInv DEF IoThread

\* and so does the network.
LEMMA NetworkKeepsIInv ==
  ASSUME IInv, NEW s \in Sockets, Network(s)
  PROVE  IInv'
<1>1. Owned(sock[s])
  BY DEF IInv, WrapperInv
<1>2. ASSUME NEW q, sock' = [sock EXCEPT ![s] = q], Owned(q), sock[s].life = "Alive", q.life = "Alive",
             q.iot = sock[s].iot, q.failed = sock[s].failed, UNCHANGED array, UNCHANGED threadVars
      PROVE  IInv'
  <2>1. CurrInv' /\ UNCHANGED listen
    BY <1>2 DEF threadVars, pollVars, IInv, CurrInv, FirstIndex
  <2> QED BY <1>2, <2>1, ChangeKeepsIInv DEF Watched
<1>3. CASE PeerSends(s)
  <2> DEFINE q == [sock[s] EXCEPT !.data = TRUE]
  <2>1. sock' = [sock EXCEPT ![s] = q] /\ UNCHANGED array /\ UNCHANGED threadVars
    BY <1>3 DEF PeerSends
  <2>2. sock[s].life = "Alive" /\ Owned(q) /\ q.life = "Alive" /\ q.iot = sock[s].iot
        /\ q.failed = sock[s].failed
    BY <1>1, <1>3 DEF PeerSends, Owned, Form
  <2> HIDE DEF q
  <2> QED BY <1>2, <2>1, <2>2
<1>4. ASSUME NEW from, NEW to, Connection(s, from, to) PROVE IInv'
  <2> DEFINE q == [sock[s] EXCEPT !.conn = to]
  <2>1. sock' = [sock EXCEPT ![s] = q] /\ UNCHANGED array /\ UNCHANGED threadVars
    BY <1>4 DEF Connection
  <2>2. sock[s].life = "Alive" /\ Owned(q) /\ q.life = "Alive" /\ q.iot = sock[s].iot
        /\ q.failed = sock[s].failed
    BY <1>1, <1>4 DEF Connection, Owned, Form
  <2> HIDE DEF q
  <2> QED BY <1>2, <2>1, <2>2
<1> QED BY <1>3, <1>4 DEF Network, Answer, Drain, Close, Fill, Break

\* Every step preserves the invariant.
LEMMA NextIInv == IInv /\ [Next]_vars => IInv'
<1> SUFFICES ASSUME IInv, [Next]_vars PROVE IInv'
  OBVIOUS
<1>1. CASE UNCHANGED vars
  BY <1>1, ThreadKeepsIInv DEF vars, IInv, CurrInv, FirstIndex
<1> QED BY <1>1, IoThreadKeepsIInv, ApplicationKeepsIInv, NetworkKeepsIInv DEF Next

\* The two ways in which the I/O thread comes to use memory that was freed
Cause == (\E s \in Sockets : sock[s].failed) \/ (~listen /\ cap > Reserved)

\* The poll knows a part of the array.  Only the array of a service without a listener
\* is extended, once.
CauseInv ==
  /\ pc = "Polling" => polled \in 0 .. Len(array)
  /\ IF listen THEN cap = Capacity ELSE cap \in {1, 2}
  /\ pc = "Moved" => ~listen /\ cap = 2
  /\ pc = "Undefined" => Cause

\* It holds initially,
LEMMA InitCause == Init => CauseInv
  BY DEF Init, CauseInv, Capacity, Reserved

\* and while a socket is inserted,
LEMMA InsertKeepsCause ==
  ASSUME IInv, CauseInv, NEW s \in Sockets, InsertSocket(s), UNCHANGED pollVars, Defined
  PROVE  CauseInv'
<1>1. /\ Len(array) \in Nat /\ Len(array) < Capacity /\ Len(array') = Len(array) + 1
      /\ Extend(Len(array) = cap)
  BY AppendProperties, LenProperties DEF InsertSocket, IInv, ArrayInv, Sockets
<1>2. listen \in BOOLEAN /\ UNCHANGED <<listen, polled>> /\ pc # "Undefined"
  BY DEF IInv, ArrayInv, pollVars, Defined
<1>3. /\ Capacity' = Capacity /\ pc' \in {pc, "Moved"}
      /\ cap' = cap \/ (~listen /\ cap' = 2)
  BY <1>1, <1>2 DEF Extend, CauseInv, Capacity
<1>4. pc' = "Moved" => ~listen /\ cap' = 2
  BY <1>1, <1>2 DEF Extend, CauseInv, Capacity
<1> QED BY <1>1, <1>2, <1>3, <1>4 DEF CauseInv

\* when the I/O thread meets a wrapper that was deleted, for then Dispatch has failed,
LEMMA DeletedHasFailed ==
  ASSUME IInv, CauseInv, PollDeleted \/ ServiceDeleted
  PROVE  Cause
<1>1. CASE PollDeleted
  <2>1. PICK i \in 1 .. polled : array[i] # Listener /\ sock[array[i]].life # "Alive"
    BY <1>1 DEF PollDeleted, Polled
  <2>2. i \in 1 .. Len(array)
    BY <1>1, <2>1 DEF PollDeleted, CauseInv, IInv, ArrayInv
  <2>3. array[i] \in Sockets
    BY <2>1, <2>2 DEF IInv, ArrayInv
  <2> QED BY <2>1, <2>2, <2>3 DEF IInv, WatchInv, Watched, Cause
<1>2. CASE ServiceDeleted
  BY <1>2, HereIsSocket DEF ServiceDeleted, Watched, Cause
<1> QED BY <1>1, <1>2

\* and in every other step.
LEMMA NextCause == IInv /\ CauseInv /\ [Next]_vars => CauseInv'
<1> SUFFICES ASSUME IInv, CauseInv, [Next]_vars PROVE CauseInv'
  OBVIOUS
<1>1. CASE UNCHANGED vars
  BY <1>1 DEF vars, CauseInv, Cause, Capacity, Reserved
<1>2. ASSUME UNCHANGED <<array, cap, pc, listen, polled>>, Defined PROVE CauseInv'
  BY <1>2 DEF CauseInv, Capacity, Defined
<1>3. ASSUME NEW s \in Sockets, Application(s) PROVE CauseInv'
  <2>1. CASE \/ Send(s) \/ Acquire(s) \/ Discard(s) \/ ReleaseSocket(s)
    BY <1>2, <2>1 DEF Send, Acquire, Discard, ReleaseSocket, threadVars, pollVars
  <2>2. CASE CreateAppSocket(s)
    BY <2>2, InsertKeepsCause DEF CreateAppSocket, OpenSocket
  <2>3. CASE SendAnew(s)
    <3>1. \/ UNCHANGED <<array, cap, pc, woken>>
          \/ \E t \in Sockets : InsertSocket(t)
      BY <2>3 DEF SendAnew, OpenSocket
    <3>2. Defined /\ UNCHANGED pollVars
      BY <2>3 DEF SendAnew
    <3> QED BY <1>2, <3>1, <3>2, InsertKeepsCause DEF pollVars
  <2> QED BY <1>3, <2>1, <2>2, <2>3 DEF Application
<1>4. ASSUME NEW s \in Sockets, Network(s) PROVE CauseInv'
  <2>1. Defined /\ UNCHANGED <<array, threadVars>>
    BY <1>4 DEF Network, Answer, Drain, Close, Fill, Break, Connection, PeerSends
  <2> QED BY <1>2, <2>1 DEF threadVars, pollVars
<1>5. ASSUME UNCHANGED <<cap, listen>>, pc' \notin {"Polling", "Moved", "Undefined"} PROVE CauseInv'
  BY <1>5 DEF CauseInv, Capacity
<1>6. CASE IoThread
  <2>1. CASE Wake \/ PollReturns \/ PollFails \/ ServiceSocket \/ EndService \/ EndAccept
    BY <1>5, <2>1 DEF Wake, PollReturns, PollFails, ServiceSocket, EndService, EndAccept
  <2>2. CASE PollSockets
    <3>1. Len(array) \in Nat
      BY DEF IInv, ArrayInv
    <3> QED BY <2>2, <3>1 DEF PollSockets, CauseInv, Capacity
  <2>3. CASE PollDeleted \/ ServiceDeleted
    BY <2>3, DeletedHasFailed
       DEF PollDeleted, ServiceDeleted, Undefined, CauseInv, Cause, Capacity, Reserved
  <2>4. CASE PollMoved
    BY <2>4 DEF PollMoved, Undefined, CauseInv, Cause, Capacity, Reserved
  <2>5. ASSUME NEW s \in Sockets, AcceptConn(s) PROVE CauseInv'
    BY <2>5, InsertKeepsCause DEF AcceptConn, Defined
  <2> QED BY <1>6, <2>1, <2>2, <2>3, <2>4, <2>5 DEF IoThread
<1> QED BY <1>1, <1>3, <1>4, <1>6 DEF Next

\* A wrapper is not deleted while an application or a message points to it, nor while
\* the I/O thread polls it unless Dispatch has failed for it, however Release,
\* Deregister, accepted connections, errors and the reordering of the array interleave
\* (SysTcpSocket::Release, SysTcpSocket::Deregister, TcpIoThread::EraseSocket).  Freed
\* memory is used only after that failure, or when the array of a service without a
\* listener was extended (Array::Extend).
THEOREM WrappersOutlivePointers == Spec => []PointersAreValid
<1>1. IInv /\ CauseInv => PointersAreValid
  <2>1. ASSUME IInv, NEW s \in Sockets
        PROVE  /\ sock[s].held # "No" => sock[s].life = "Alive"
               /\ InArray(s) /\ ~sock[s].failed => sock[s].life = "Alive"
    <3>1. s # Listener
      BY DEF Sockets, Listener
    <3> QED BY <2>1, <3>1 DEF IInv, WrapperInv, Owned, WatchInv, Watched, InArray
  <2> QED BY <2>1 DEF PointersAreValid, CauseInv, Cause
<1> QED BY <1>1, InitIInv, NextIInv, InitCause, NextCause, PTL DEF Spec

\* The I/O thread has every socket in its array at most once, and never services the
\* listener as if it were a connection (TcpIoThread::EraseSocket checks for this).
THEOREM ListenerIsNotErased ==
  Spec => []( /\ \A i, j \in 1 .. Len(array) : array[i] = array[j] => i = j
              /\ pc = "Service" /\ curr <= Len(array) => Here \in Sockets )
<1>1. IInv => /\ \A i, j \in 1 .. Len(array) : array[i] = array[j] => i = j
              /\ pc = "Service" /\ curr <= Len(array) => Here \in Sockets
  BY HereIsSocket DEF IInv, ArrayInv
<1> QED BY <1>1, InitIInv, NextIInv, PTL DEF Spec

-----------------------------------------------------------------------------
(* Messages: none is lost, and none is sent twice.                         *)

\* All elements of a sequence differ
Distinct(q) == \A i, j \in 1 .. Len(q) : q[i] = q[j] => i = j

\* W was sent and Q is queued, of the messages 1 to G that were accepted.  Only a
\* socket that is Blocked sends them in another order.
SentSeq(w, q, g, blocked) ==
  /\ w \in Seq(Nat) /\ q \in Seq(Nat) /\ g \in Nat
  /\ \A i \in 1 .. Len(w) : w[i] <= g
  /\ \A i \in 1 .. Len(q) : q[i] <= g
  /\ Distinct(w) /\ Distinct(q)
  /\ \A i \in 1 .. Len(w), j \in 1 .. Len(q) : w[i] # q[j]
  /\ ~blocked => \A i \in 1 .. Len(w) : w[i] = i

Sent(r) == SentSeq(r.wire, r.ogMsgq, r.given, r.blocked)

\* A socket over which messages can be sent
Open(r) == r.life = "Alive" /\ IsOpen(r)

\* No message is lost, and those that are queued are in order.  While a socket does not
\* block, nothing is queued once it is connected, so that nothing is overtaken.
Complete(r) ==
  /\ Len(r.wire) + Len(r.ogMsgq) = r.given
  /\ ~r.blocked => \A i \in 1 .. Len(r.ogMsgq) : r.ogMsgq[i] = Len(r.wire) + i
  /\ r.state = "Connected" /\ r.ogMsgq # <<>> => r.blocked

Kept(r) == Sent(r) /\ (Open(r) => Complete(r))

KeptInv == \A s \in Sockets : Kept(sock[s])

\* The next message is queued,
LEMMA QueueSent ==
  ASSUME NEW w, NEW q, NEW g, NEW b, SentSeq(w, q, g, b)
  PROVE  SentSeq(w, Append(q, g + 1), g + 1, b)
<1> DEFINE x == Append(q, g + 1)
           n == Len(q)
<1>1. w \in Seq(Nat) /\ q \in Seq(Nat) /\ g \in Nat /\ g + 1 \in Nat
  BY DEF SentSeq
<1>2. /\ x \in Seq(Nat) /\ Len(x) = n + 1 /\ n \in Nat /\ x[n + 1] = g + 1
      /\ \A i \in 1 .. n : x[i] = q[i]
  BY <1>1, AppendProperties, LenProperties
<1>3. /\ \A i \in 1 .. n : q[i] \in Nat /\ q[i] <= g
      /\ \A i \in 1 .. Len(w) : w[i] \in Nat /\ w[i] <= g
  BY <1>1 DEF SentSeq
<1> HIDE DEF x, n
<1>4. \A i : i \in 1 .. Len(x) <=> i \in 1 .. n \/ i = n + 1
  BY <1>2
<1>5. \A i \in 1 .. n : q[i] # g + 1
  BY <1>1, <1>3
<1>6. \A i \in 1 .. Len(w) : w[i] # g + 1 /\ w[i] <= g + 1
  BY <1>1, <1>3
<1>7. Distinct(x)
  BY <1>2, <1>4, <1>5 DEF Distinct, SentSeq, n
<1>8. \A i \in 1 .. Len(x) : x[i] <= g + 1
  <2>1. \A i \in 1 .. n : q[i] <= g + 1
    BY <1>1, <1>3
  <2>2. g + 1 <= g + 1
    BY <1>1
  <2> QED BY <1>2, <1>4, <2>1, <2>2
<1>9. \A i \in 1 .. Len(w), j \in 1 .. Len(x) : w[i] # x[j]
  BY <1>2, <1>4, <1>6 DEF SentSeq, n
<1> QED BY <1>1, <1>2, <1>6, <1>7, <1>8, <1>9 DEF SentSeq, x

\* or sent, and then it is the last one unless others wait.
LEMMA SendSent ==
  ASSUME NEW w, NEW q, NEW g, NEW b, SentSeq(w, q, g, b), ~b => Len(w) = g
  PROVE  SentSeq(Append(w, g + 1), q, g + 1, b)
<1> DEFINE x == Append(w, g + 1)
           n == Len(w)
<1>1. w \in Seq(Nat) /\ q \in Seq(Nat) /\ g \in Nat /\ g + 1 \in Nat
  BY DEF SentSeq
<1>2. /\ x \in Seq(Nat) /\ Len(x) = n + 1 /\ n \in Nat /\ x[n + 1] = g + 1
      /\ \A i \in 1 .. n : x[i] = w[i]
  BY <1>1, AppendProperties, LenProperties
<1>3. /\ \A i \in 1 .. n : w[i] \in Nat /\ w[i] <= g
      /\ \A i \in 1 .. Len(q) : q[i] \in Nat /\ q[i] <= g
  BY <1>1 DEF SentSeq
<1>4. /\ \A i, j \in 1 .. n : w[i] = w[j] => i = j
      /\ \A i \in 1 .. n, j \in 1 .. Len(q) : w[i] # q[j]
      /\ ~b => n = g /\ \A i \in 1 .. n : w[i] = i
      /\ Distinct(q)
  BY DEF SentSeq, Distinct
<1> HIDE DEF x, n
<1>5. \A i : i \in 1 .. Len(x) <=> i \in 1 .. n \/ i = n + 1
  BY <1>2
<1>6. \A i \in 1 .. n : w[i] # g + 1
  BY <1>1, <1>3
<1>7. \A i \in 1 .. Len(q) : q[i] # g + 1 /\ q[i] <= g + 1
  BY <1>1, <1>3
<1>8. Distinct(x)
  BY <1>2, <1>5, <1>6, <1>4 DEF Distinct
<1>9. \A i \in 1 .. Len(x) : x[i] <= g + 1
  <2>1. \A i \in 1 .. n : w[i] <= g + 1
    BY <1>1, <1>3
  <2>2. g + 1 <= g + 1
    BY <1>1
  <2> QED BY <1>2, <1>5, <2>1, <2>2
<1>10. \A i \in 1 .. Len(x), j \in 1 .. Len(q) : x[i] # q[j]
  <2> SUFFICES ASSUME NEW i \in 1 .. Len(x), NEW j \in 1 .. Len(q) PROVE x[i] # q[j]
    OBVIOUS
  <2>1. CASE i \in 1 .. n
    <3>1. x[i] = w[i] /\ w[i] # q[j]
      BY <1>2, <1>4, <2>1
    <3> QED BY <3>1
  <2>2. CASE i = n + 1
    <3>1. x[i] = g + 1 /\ q[j] # g + 1
      BY <1>2, <1>7, <2>2
    <3> QED BY <3>1
  <2> QED BY <1>5, <2>1, <2>2
<1>11. ~b => \A i \in 1 .. Len(x) : x[i] = i
  <2> SUFFICES ASSUME ~b, NEW i \in 1 .. Len(x) PROVE x[i] = i
    OBVIOUS
  <2>1. n = g /\ \A j \in 1 .. n : w[j] = j
    BY <1>4
  <2>2. i \in 1 .. n => x[i] = i
    BY <1>2, <2>1
  <2>3. i = n + 1 => x[i] = i
    BY <1>2, <2>1
  <2> QED BY <1>5, <2>2, <2>3
<1> QED BY <1>1, <1>2, <1>7, <1>8, <1>9, <1>10, <1>4, <1>11 DEF SentSeq, x

\* The first message that is queued is lost.
LEMMA TailSent ==
  ASSUME NEW w, NEW q, NEW g, NEW b, SentSeq(w, q, g, b), q # <<>>
  PROVE  SentSeq(w, Tail(q), g, b)
<1> DEFINE x == Tail(q)
           n == Len(q)
<1>1. q \in Seq(Nat) /\ n \in Nat
  BY LenProperties DEF SentSeq
<1>2. /\ x \in Seq(Nat) /\ Len(x) = n - 1
      /\ \A i \in 1 .. n - 1 : x[i] = q[i + 1]
  BY <1>1, HeadTailProperties
<1> HIDE DEF x, n
<1>3. \A i \in 1 .. Len(x) : i + 1 \in 1 .. n /\ x[i] = q[i + 1]
  BY <1>1, <1>2
<1>4. Distinct(x)
  <2> SUFFICES ASSUME NEW i \in 1 .. Len(x), NEW j \in 1 .. Len(x), x[i] = x[j]
               PROVE  i = j
    BY DEF Distinct
  <2>1. i + 1 = j + 1
    BY <1>3 DEF SentSeq, Distinct, n
  <2> QED BY <1>1, <1>2, <2>1
<1> QED BY <1>1, <1>2, <1>3, <1>4 DEF SentSeq, x, n

\* What is sent after W.
LEMMA ConcatSent ==
  ASSUME NEW w \in Seq(Nat), NEW a \in Seq(Nat), Distinct(w), Distinct(a),
         \A i \in 1 .. Len(w), j \in 1 .. Len(a) : w[i] # a[j]
  PROVE  LET x == w \o a
         IN  /\ x \in Seq(Nat) /\ Distinct(x) /\ Len(x) = Len(w) + Len(a)
             /\ \A i \in 1 .. Len(x) :
                  x[i] = IF i <= Len(w) THEN w[i] ELSE a[i - Len(w)]
<1> DEFINE x == w \o a
           n == Len(w)
           m == Len(a)
<1>1. /\ x \in Seq(Nat) /\ Len(x) = n + m /\ n \in Nat /\ m \in Nat
      /\ \A i \in 1 .. n + m : x[i] = IF i <= n THEN w[i] ELSE a[i - n]
  BY ConcatProperties, LenProperties
<1> HIDE DEF x
<1>2. ASSUME NEW i \in 1 .. Len(x), NEW j \in 1 .. Len(x), x[i] = x[j]
      PROVE  i = j
  <2> HIDE DEF n, m
  <2>1. \A k \in 1 .. Len(x) : k <= n => k \in 1 .. n /\ x[k] = w[k]
    BY <1>1
  <2>2. \A k \in 1 .. Len(x) : ~(k <= n) => k - n \in 1 .. m /\ x[k] = a[k - n]
    BY <1>1
  <2>3. CASE i <= n /\ j <= n
    BY <1>2, <2>1, <2>3 DEF Distinct, n
  <2>4. CASE ~(i <= n) /\ ~(j <= n)
    <3>1. i - n = j - n
      BY <1>2, <2>2, <2>4 DEF Distinct, m
    <3> QED BY <1>1, <3>1
  <2>5. CASE i <= n /\ ~(j <= n)
    BY <1>2, <2>1, <2>2, <2>5 DEF n, m
  <2>6. CASE ~(i <= n) /\ j <= n
    BY <1>2, <2>1, <2>2, <2>6 DEF n, m
  <2> QED BY <2>3, <2>4, <2>5, <2>6
<1> QED BY <1>1, <1>2 DEF x, Distinct

\* All messages are sent,
LEMMA FlushSent ==
  ASSUME NEW w, NEW q, NEW g, NEW b, SentSeq(w, q, g, b),
         ~b => \A i \in 1 .. Len(q) : q[i] = Len(w) + i
  PROVE  SentSeq(w \o q, <<>>, g, b) /\ Len(w \o q) = Len(w) + Len(q)
<1> DEFINE x == w \o q
<1>1. /\ w \in Seq(Nat) /\ q \in Seq(Nat) /\ Len(w) \in Nat /\ Len(q) \in Nat
      /\ Distinct(w) /\ Distinct(q)
      /\ \A i \in 1 .. Len(w), j \in 1 .. Len(q) : w[i] # q[j]
  BY LenProperties DEF SentSeq
<1>2. /\ x \in Seq(Nat) /\ Distinct(x) /\ Len(x) = Len(w) + Len(q)
      /\ \A i \in 1 .. Len(x) : x[i] = IF i <= Len(w) THEN w[i] ELSE q[i - Len(w)]
  BY <1>1, ConcatSent
<1> HIDE DEF x
<1>3. \A i \in 1 .. Len(x) :
        \/ i \in 1 .. Len(w) /\ x[i] = w[i]
        \/ i - Len(w) \in 1 .. Len(q) /\ x[i] = q[i - Len(w)] /\ Len(w) + (i - Len(w)) = i
  BY <1>1, <1>2
<1>4. \A i \in 1 .. Len(x) : x[i] <= g
  BY <1>3 DEF SentSeq
<1>5. ~b => \A i \in 1 .. Len(x) : x[i] = i
  BY <1>3 DEF SentSeq
<1>6. <<>> \in Seq(Nat) /\ Len(<<>>) = 0
  OBVIOUS
<1> QED BY <1>2, <1>4, <1>5, <1>6 DEF SentSeq, Distinct, x

\* or K of them, and the next one goes to the back.
LEMMA SplitSent ==
  ASSUME NEW w, NEW q, NEW g, NEW b, SentSeq(w, q, g, b), NEW k \in 0 .. Len(q) - 1
  PROVE  SentSeq(w \o SubSeq(q, 1, k), SubSeq(q, k + 2, Len(q)) \o <<q[k + 1]>>, g, TRUE)
<1> DEFINE n == Len(q)
           a == SubSeq(q, 1, k)
           d == SubSeq(q, k + 2, n)
           e == <<q[k + 1]>>
           x == w \o a
           y == d \o e
<1>1. /\ w \in Seq(Nat) /\ q \in Seq(Nat) /\ Len(w) \in Nat /\ n \in Nat /\ k \in Nat /\ k < n
      /\ Distinct(w) /\ Distinct(q)
      /\ \A i \in 1 .. Len(w), j \in 1 .. n : w[i] # q[j]
  BY LenProperties DEF SentSeq
<1>2. \A i \in 1 .. n : q[i] \in Nat /\ q[i] <= g
  BY <1>1 DEF SentSeq
<1>3. a \in Seq(Nat) /\ Len(a) = k /\ \A i \in 1 .. k : a[i] = q[i]
  <2>1. \A i \in 1 .. k : q[i] \in Nat
    BY <1>1, <1>2
  <2> QED BY <1>1, <2>1, SubSeqProperties
<1>4. d \in Seq(Nat) /\ Len(d) = n - k - 1 /\ \A i \in 1 .. n - k - 1 : d[i] = q[k + 1 + i]
  <2>1. \A i \in k + 2 .. n : q[i] \in Nat
    BY <1>1, <1>2
  <2>2. k + 2 \in Int /\ n \in Int
    BY <1>1
  <2>3. /\ d \in Seq(Nat) /\ Len(d) = IF k + 2 <= n THEN n - (k + 2) + 1 ELSE 0
        /\ \A i \in 1 .. n - (k + 2) + 1 : d[i] = q[(k + 2) + i - 1]
    BY <2>1, <2>2, SubSeqProperties
  <2> HIDE DEF d, n
  <2>4. \A i \in 1 .. n - k - 1 : i \in 1 .. n - (k + 2) + 1 /\ (k + 2) + i - 1 = k + 1 + i
    BY <1>1
  <2> QED BY <1>1, <2>3, <2>4
<1>5. e \in Seq(Nat) /\ Len(e) = 1 /\ e[1] = q[k + 1]
  BY <1>1, <1>2
<1>6. Distinct(a) /\ Distinct(d) /\ Distinct(e)
  <2> HIDE DEF a, d, e, n
  <2>1. Distinct(a)
    <3>1. \A i \in 1 .. k : i \in 1 .. n
      BY <1>1
    <3> QED BY <1>1, <1>3, <3>1 DEF Distinct, n
  <2>2. Distinct(d)
    <3> SUFFICES ASSUME NEW i \in 1 .. n - k - 1, NEW j \in 1 .. n - k - 1, d[i] = d[j]
                 PROVE  i = j
      BY <1>4 DEF Distinct
    <3>1. k + 1 + i \in 1 .. n /\ k + 1 + j \in 1 .. n
      BY <1>1
    <3>2. k + 1 + i = k + 1 + j
      BY <1>1, <1>4, <3>1 DEF Distinct, n
    <3> QED BY <1>1, <3>2
  <2>3. Distinct(e)
    BY <1>5 DEF Distinct
  <2> QED BY <2>1, <2>2, <2>3
<1> HIDE DEF a, d, e, n
<1>7. \A i \in 1 .. n - k - 1 : k + 1 + i \in 1 .. n /\ k + 1 + i # k + 1
  BY <1>1
<1>8. k + 1 \in 1 .. n
  BY <1>1
<1>9. \A i \in 1 .. Len(w), j \in 1 .. Len(a) : w[i] # a[j]
  <2>1. \A i \in 1 .. k : i \in 1 .. n
    BY <1>1
  <2> QED BY <1>1, <1>3, <2>1
<1>10. \A i \in 1 .. Len(d), j \in 1 .. Len(e) : d[i] # e[j]
  <2>1. \A i \in 1 .. n - k - 1 : q[k + 1 + i] # q[k + 1]
    BY <1>1, <1>7, <1>8 DEF Distinct, n
  <2>2. \A j \in 1 .. Len(e) : e[j] = q[k + 1]
    BY <1>5
  <2> QED BY <1>4, <2>1, <2>2
<1>11. /\ x \in Seq(Nat) /\ Distinct(x) /\ Len(x) = Len(w) + k
       /\ \A i \in 1 .. Len(x) : x[i] = IF i <= Len(w) THEN w[i] ELSE a[i - Len(w)]
  BY <1>1, <1>3, <1>6, <1>9, ConcatSent
<1>12. /\ y \in Seq(Nat) /\ Distinct(y) /\ Len(y) = n - k
       /\ \A i \in 1 .. Len(y) : y[i] = IF i <= Len(d) THEN d[i] ELSE e[i - Len(d)]
  <2>1. /\ y \in Seq(Nat) /\ Distinct(y) /\ Len(y) = Len(d) + Len(e)
        /\ \A i \in 1 .. Len(y) : y[i] = IF i <= Len(d) THEN d[i] ELSE e[i - Len(d)]
    BY <1>4, <1>5, <1>6, <1>10, ConcatSent
  <2>2. Len(d) + Len(e) = n - k
    <3> DEFINE i == Len(d)
               j == Len(e)
    <3>1. i = n - k - 1 /\ j = 1 /\ k \in Nat /\ n \in Nat
      BY <1>1, <1>4, <1>5
    <3> HIDE DEF i, j
    <3>2. i + j = n - k
      BY <3>1
    <3> QED BY <3>2 DEF i, j
  <2> QED BY <2>1, <2>2
<1> HIDE DEF x, y
<1>13. \A i \in 1 .. Len(x) : (i \in 1 .. Len(w) /\ x[i] = w[i]) \/ (\E j \in 1 .. k : x[i] = q[j])
  <2> TAKE i \in 1 .. Len(x)
  <2>1. CASE i <= Len(w)
    BY <1>1, <1>11, <2>1
  <2>2. CASE ~(i <= Len(w))
    <3>1. i - Len(w) \in 1 .. k /\ x[i] = a[i - Len(w)]
      BY <1>1, <1>11, <2>2
    <3> QED BY <1>3, <3>1
  <2> QED BY <2>1, <2>2
<1>14. \A i \in 1 .. Len(y) : \E j \in k + 1 .. n : y[i] = q[j]
  <2> TAKE i \in 1 .. Len(y)
  <2>1. CASE i <= Len(d)
    <3>1. i \in 1 .. n - k - 1 /\ y[i] = d[i]
      <4>1. Len(d) = n - k - 1 /\ Len(y) = n - k /\ y[i] = d[i]
        BY <1>4, <1>12, <2>1
      <4> QED BY <1>1, <2>1, <4>1
    <3>2. k + 1 + i \in k + 1 .. n
      BY <1>1, <3>1
    <3> QED BY <1>4, <3>1, <3>2
  <2>2. CASE ~(i <= Len(d))
    <3>1. i - Len(d) = 1 /\ y[i] = e[i - Len(d)]
      BY <1>1, <1>4, <1>12, <2>2
    <3>2. k + 1 \in k + 1 .. n
      BY <1>1
    <3> QED BY <1>5, <3>1, <3>2
  <2> QED BY <2>1, <2>2
<1>15. \A i \in 1 .. k, j \in k + 1 .. n : i \in 1 .. n /\ j \in 1 .. n /\ q[i] # q[j]
  BY <1>1 DEF Distinct, n
<1>16. \A i \in 1 .. Len(x), j \in 1 .. Len(y) : x[i] # y[j]
  <2> TAKE i \in 1 .. Len(x), j \in 1 .. Len(y)
  <2>1. PICK t \in k + 1 .. n : y[j] = q[t]
    BY <1>14
  <2>2. t \in 1 .. n
    BY <1>1
  <2>3. CASE i \in 1 .. Len(w) /\ x[i] = w[i]
    BY <1>1, <2>1, <2>2, <2>3
  <2>4. CASE \E u \in 1 .. k : x[i] = q[u]
    BY <1>15, <2>1, <2>4
  <2> QED BY <1>13, <2>3, <2>4
<1>17. /\ \A i \in 1 .. Len(x) : x[i] <= g
       /\ \A i \in 1 .. Len(y) : y[i] <= g
  <2>1. \A i \in 1 .. Len(w) : w[i] <= g
    BY DEF SentSeq
  <2>2. \A j \in 1 .. k : j \in 1 .. n
    BY <1>1
  <2>3. \A j \in k + 1 .. n : j \in 1 .. n
    BY <1>1
  <2> QED BY <1>2, <1>13, <1>14, <2>1, <2>2, <2>3
<1>18. SentSeq(x, y, g, TRUE)
  BY <1>11, <1>12, <1>16, <1>17 DEF SentSeq
<1> QED BY <1>18 DEF x, y, a, d, e, n

\* A wrapper whose messages are those of another one keeps what is known of them.
LEMMA SameKept ==
  ASSUME NEW r, NEW q, Kept(r), q.wire = r.wire, q.ogMsgq = r.ogMsgq, q.given = r.given,
         q.blocked = r.blocked, q.state = r.state, Open(q) => Open(r)
  PROVE  Kept(q)
  BY DEF Kept, Sent, Complete

\* A wrapper without messages.
LEMMA NothingKept ==
  ASSUME NEW q, q.wire = <<>>, q.ogMsgq = <<>>, q.given = 0
  PROVE  Kept(q)
<1>1. <<>> \in Seq(Nat) /\ Len(<<>>) = 0
  OBVIOUS
<1> QED BY <1>1 DEF Kept, Sent, SentSeq, Complete, Distinct

\* A wrapper that was deleted has none.
LEMMA DeletedKept ==
  ASSUME NEW r
  PROVE  Kept(Deleted(r))
<1> DEFINE q == Deleted(r)
<1>1. q.wire = <<>> /\ q.ogMsgq = <<>> /\ q.given = 0
  BY DEF Deleted, Unborn
<1> QED BY <1>1, NothingKept

\* Disconnecting a socket loses nothing,
LEMMA DisconnectKept ==
  ASSUME NEW r, Form(r), Kept(r)
  PROVE  Kept(Disconnect(r))
<1> DEFINE q == [r EXCEPT !.disc = TRUE]
<1>1. /\ q.wire = r.wire /\ q.ogMsgq = r.ogMsgq /\ q.given = r.given
      /\ q.blocked = r.blocked /\ q.state = r.state /\ q.disc
  BY DEF Form
<1> HIDE DEF q
<1>2. Kept(q)
  BY <1>1, SameKept DEF Open, IsOpen
<1> QED BY <1>2 DEF Disconnect, q

\* and after it nothing is promised any more, so that messages may have been lost.
LEMMA DisconnectSent ==
  ASSUME NEW r, Form(r), Sent(r), r.state # "Idle"
  PROVE  Kept(Disconnect(r))
<1> DEFINE q == [r EXCEPT !.disc = TRUE]
<1>1. /\ q.wire = r.wire /\ q.ogMsgq = r.ogMsgq /\ q.given = r.given
      /\ q.blocked = r.blocked /\ q.disc
  BY DEF Form
<1>2. Disconnect(r) = q \/ (Disconnect(r) = r /\ r.conn = "Invalid")
  BY DEF Disconnect
<1> HIDE DEF q
<1> QED BY <1>1, <1>2 DEF Kept, Sent, Open, IsOpen

\* So it is when the I/O thread deregisters a socket,
LEMMA DeregisterKept ==
  ASSUME NEW r, Form(r), Kept(r) \/ (Sent(r) /\ r.state # "Idle")
  PROVE  Kept(Deregister(r))
<1> DEFINE q == [r EXCEPT !.iot = FALSE]
<1>1. /\ Form(q) /\ q.wire = r.wire /\ q.ogMsgq = r.ogMsgq /\ q.given = r.given
      /\ q.blocked = r.blocked /\ q.state = r.state /\ q.life = r.life /\ q.disc = r.disc
      /\ q.conn = r.conn
  BY DEF Form
<1>2. Deregister(r) = Deleted(q) \/ Deregister(r) = Disconnect(q)
  BY DEF Deregister
<1> HIDE DEF q
<1>3. Kept(q) \/ (Sent(q) /\ q.state # "Idle")
  BY <1>1, SameKept DEF Sent, Open, IsOpen
<1> QED BY <1>1, <1>2, <1>3, DeletedKept, DisconnectKept, DisconnectSent

\* and when the application releases it.
LEMMA ReleaseKept ==
  ASSUME NEW r, Form(r), Kept(r)
  PROVE  Kept(Release(r))
<1> DEFINE q == [r EXCEPT !.app = "Released", !.held = "No"]
<1>1. /\ Form(q) /\ q.wire = r.wire /\ q.ogMsgq = r.ogMsgq /\ q.given = r.given
      /\ q.blocked = r.blocked /\ q.state = r.state /\ q.life = r.life /\ q.disc = r.disc
      /\ q.conn = r.conn
  BY DEF Form
<1>2. Release(r) = Deleted(q) \/ Release(r) = Disconnect(q)
  BY DEF Release
<1> HIDE DEF q
<1>3. Kept(q)
  BY <1>1, SameKept DEF Open, IsOpen
<1> QED BY <1>1, <1>2, <1>3, DeletedKept, DisconnectKept

\* A message that is accepted is the next one, wherever it goes.
LEMMA AcceptedKept ==
  ASSUME NEW r, Form(r), Kept(r), Open(r)
  PROVE  Kept(Accepted(r, r.given + 1))
<1> DEFINE m == r.given + 1
           p == [r EXCEPT !.given = m]
           b == QueueBuff(p, m)
           w == r.wire
           q == r.ogMsgq
           g == r.given
           x == Append(q, m)
           y == Append(w, m)
<1>1. SentSeq(w, q, g, r.blocked) /\ Complete(r)
  BY DEF Kept, Sent
<1>2. SentSeq(w, x, m, r.blocked)
  BY <1>1, QueueSent
<1>3. /\ w \in Seq(Nat) /\ q \in Seq(Nat) /\ g \in Nat /\ Len(w) \in Nat /\ Len(q) \in Nat
  BY <1>1, LenProperties DEF SentSeq
<1>4. Len(x) = Len(q) + 1 /\ x[Len(q) + 1] = m /\ \A i \in 1 .. Len(q) : x[i] = q[i]
  BY <1>3, AppendProperties
<1>5. Len(w) + Len(x) = m
  <2> DEFINE i == Len(w)
             j == Len(q)
             k == Len(x)
  <2>1. i + j = g /\ m = g + 1 /\ k = j + 1 /\ i \in Nat /\ j \in Nat /\ g \in Nat
    BY <1>1, <1>3, <1>4 DEF Complete
  <2> HIDE DEF i, j, k, g, m
  <2>2. i + k = m
    BY <2>1
  <2> QED BY <2>2 DEF i, k
<1>6. ~r.blocked => \A i \in 1 .. Len(x) : x[i] = Len(w) + i
  <2>1. \A i : i \in 1 .. Len(x) <=> i \in 1 .. Len(q) \/ i = Len(q) + 1
    BY <1>3, <1>4
  <2>2. Len(w) + (Len(q) + 1) = m
    BY <1>4, <1>5
  <2>3. ~r.blocked => \A i \in 1 .. Len(q) : q[i] = Len(w) + i
    BY <1>1 DEF Complete
  <2> HIDE DEF x, w, q, m
  <2> QED BY <1>4, <2>1, <2>2, <2>3
<1>7. /\ b.wire = w /\ b.ogMsgq = x /\ b.given = m /\ b.blocked = r.blocked
      /\ b.state = r.state /\ Form(b) /\ Form(p)
      /\ p.wire = w /\ p.ogMsgq = q /\ p.given = m /\ p.blocked = r.blocked
      /\ p.state = r.state
  BY DEF Form, QueueBuff
<1> HIDE DEF m, p, b, w, q, g, x, y
<1>8. CASE r.state = "Idle"
  <2> DEFINE d == [b EXCEPT !.state = "Connecting", !.conn = "Pending"]
  <2>1. Accepted(r, m) = d
    BY <1>8 DEF Accepted, b, p
  <2>2. /\ d.wire = w /\ d.ogMsgq = x /\ d.given = m /\ d.blocked = r.blocked
        /\ d.state = "Connecting"
    BY <1>7 DEF Form
  <2> HIDE DEF d
  <2>3. Kept(d)
    BY <1>2, <1>5, <1>6, <2>2 DEF Kept, Sent, Complete
  <2> QED BY <2>1, <2>3 DEF m
<1>9. CASE r.state = "Connecting"
  <2>1. Accepted(r, m) = b
    BY <1>9 DEF Accepted, b, p
  <2>2. Kept(b)
    BY <1>2, <1>5, <1>6, <1>7, <1>9 DEF Kept, Sent, Complete
  <2> QED BY <2>1, <2>2 DEF m
<1>10. CASE r.state = "Connected" /\ r.conn = "Up"
  <2> DEFINE d == [p EXCEPT !.wire = Append(@, m)]
  <2>1. Accepted(r, m) = d
    BY <1>10 DEF Accepted, p
  <2>2. /\ d.wire = y /\ d.ogMsgq = q /\ d.given = m /\ d.blocked = r.blocked
        /\ d.state = r.state
    BY <1>7 DEF Form, y
  <2> HIDE DEF d
  <2>3. ~r.blocked => q = <<>>
    BY <1>1, <1>10 DEF Complete, q
  <2>4. ~r.blocked => Len(w) = g
    <3>1. q = <<>> => Len(q) = 0
      OBVIOUS
    <3>2. Len(w) + Len(q) = g
      BY <1>1 DEF Complete, w, q, g
    <3> QED BY <1>3, <2>3, <3>1, <3>2
  <2>5. SentSeq(y, q, m, r.blocked)
    BY <1>1, <2>4, SendSent DEF y, m, w, q, g
  <2>6. Len(y) = Len(w) + 1
    BY <1>3, AppendProperties DEF y, m, g
  <2>7. Len(y) + Len(q) = m
    BY <1>3, <1>4, <1>5, <2>6
  <2>8. ~r.blocked => \A i \in 1 .. Len(q) : q[i] = Len(y) + i
    BY <2>3
  <2>9. Kept(d)
    BY <2>2, <2>3, <2>5, <2>7, <2>8 DEF Kept, Sent, Complete
  <2> QED BY <2>1, <2>9 DEF m
<1>11. CASE r.state \notin {"Idle", "Connecting"} /\ ~(r.state = "Connected" /\ r.conn = "Up")
  <2> DEFINE d == [b EXCEPT !.blocked = TRUE]
  <2>1. Accepted(r, m) = d
    BY <1>11 DEF Accepted, b, p
  <2>2. d.wire = w /\ d.ogMsgq = x /\ d.given = m /\ d.blocked = TRUE
    BY <1>7 DEF Form
  <2> HIDE DEF d
  <2>3. SentSeq(w, x, m, TRUE)
    BY <1>2 DEF SentSeq
  <2>4. Kept(d)
    BY <1>5, <2>2, <2>3 DEF Kept, Sent, Complete
  <2> QED BY <2>1, <2>4 DEF m
<1> QED BY <1>8, <1>9, <1>10, <1>11

\* Sending a message accepts it or leaves the messages as they are,
LEMMA SendBuffKept ==
  ASSUME NEW r, Form(r), r.life = "Alive", Kept(r), NEW q \in SendBuff(r, r.given + 1)
  PROVE  Kept(q)
<1>1. Kept(r) /\ Kept(Disconnect(r))
  BY DisconnectKept
<1>2. IsOpen(r) => Kept(Accepted(r, r.given + 1))
  BY AcceptedKept DEF Open
<1> QED BY <1>1, <1>2 DEF SendBuff

\* and so does what the I/O thread sends or cannot send.
LEMMA DispatchKept ==
  ASSUME NEW r, Form(r), r.life = "Alive", Kept(r), NEW q \in Dispatch(r)
  PROVE  Form(q) /\ Kept(q)
<1> DEFINE p == [r EXCEPT !.state = "Connected", !.write = FALSE]
<1>1. /\ Form(p) /\ p.wire = r.wire /\ p.ogMsgq = r.ogMsgq /\ p.given = r.given
      /\ p.blocked = r.blocked /\ p.state = "Connected" /\ p.life = r.life /\ p.disc = r.disc
      /\ p.conn = r.conn
  BY DEF Form
<1>2. Sent(r) /\ Sent(p)
  BY <1>1 DEF Kept, Sent
<1>3. ASSUME NEW x, Form(x), Sent(x), x.state # "Idle"
      PROVE  Form(Deregister(x)) /\ Kept(Deregister(x))
  <2>1. Kept(Deregister(x))
    BY <1>3, DeregisterKept
  <2>2. Form(Deregister(x))
    BY <1>3 DEF Deregister, Deleted, Disconnect, Unborn, Form
  <2> QED BY <2>1, <2>2
<1>4. CASE r.ogMsgq = <<>>
  <2>1. q = p
    BY <1>4 DEF Dispatch
  <2>2. Open(p) => Complete(p)
    BY <1>1, <1>4 DEF Kept, Complete, Open, IsOpen
  <2> HIDE DEF p
  <2> QED BY <1>1, <1>2, <2>1, <2>2 DEF Kept
<1>5. CASE r.ogMsgq # <<>> /\ (~IsOpen(r) \/ IsLost(r))
  <2> DEFINE lost == [p EXCEPT !.ogMsgq = Tail(@), !.failed = TRUE]
             kept == [p EXCEPT !.write = TRUE, !.failed = TRUE]
  <2>1. q \in {Deregister(kept), Deregister(Disconnect(lost)), Deregister(lost)}
    BY <1>5 DEF Dispatch, DispatchFails
  <2> HIDE DEF p
  <2>2. /\ Form(kept) /\ kept.state = "Connected" /\ kept.wire = r.wire
        /\ kept.ogMsgq = r.ogMsgq /\ kept.given = r.given /\ kept.blocked = r.blocked
    BY <1>1 DEF Form
  <2>3. /\ Form(lost) /\ lost.state = "Connected" /\ lost.wire = r.wire
        /\ lost.ogMsgq = Tail(r.ogMsgq) /\ lost.given = r.given /\ lost.blocked = r.blocked
    BY <1>1 DEF Form
  <2> HIDE DEF lost, kept
  <2>4. Sent(kept)
    BY <1>2, <2>2 DEF Sent
  <2>5. Sent(lost)
    BY <1>2, <1>5, <2>3, TailSent DEF Sent
  <2>6. Form(Disconnect(lost)) /\ Disconnect(lost).state = "Connected" /\ Sent(Disconnect(lost))
    <3>1. Disconnect(lost) \in {lost, [lost EXCEPT !.disc = TRUE]}
      BY DEF Disconnect
    <3> DEFINE d == [lost EXCEPT !.disc = TRUE]
    <3>2. /\ Form(d) /\ d.state = "Connected" /\ d.wire = lost.wire /\ d.ogMsgq = lost.ogMsgq
          /\ d.given = lost.given /\ d.blocked = lost.blocked
      BY <2>3 DEF Form
    <3> HIDE DEF d
    <3>3. Sent(d)
      BY <2>5, <3>2 DEF Sent
    <3> QED BY <2>3, <2>5, <3>1, <3>2, <3>3 DEF d
  <2> QED BY <1>3, <2>1, <2>2, <2>3, <2>4, <2>5, <2>6
<1>6. CASE r.ogMsgq # <<>> /\ IsOpen(r) /\ ~IsLost(r)
  <2> DEFINE n == Len(r.ogMsgq)
             all == [p EXCEPT !.wire = @ \o r.ogMsgq, !.ogMsgq = <<>>]
             x(k) == [p EXCEPT !.wire = @ \o SubSeq(r.ogMsgq, 1, k),
                               !.ogMsgq = SubSeq(r.ogMsgq, k + 2, n) \o <<r.ogMsgq[k + 1]>>,
                               !.write = TRUE, !.conn = "Full",
                               !.blocked = TRUE, !.failed = TRUE]
  <2>1. q = all \/ \E k \in 0 .. n - 1 : q = Deregister(x(k))
    BY <1>6 DEF Dispatch, DispatchUp
  <2> HIDE DEF p
  <2>2. CASE q = all
    <3>1. /\ Form(all) /\ all.wire = r.wire \o r.ogMsgq /\ all.ogMsgq = <<>>
          /\ all.given = r.given /\ all.blocked = r.blocked
          /\ all.life = r.life /\ all.disc = r.disc
      BY <1>1 DEF Form
    <3> HIDE DEF all
    <3>2. Complete(r) /\ SentSeq(r.wire, r.ogMsgq, r.given, r.blocked)
      BY <1>2, <1>6 DEF Kept, Sent, Open
    <3>3. /\ SentSeq(r.wire \o r.ogMsgq, <<>>, r.given, r.blocked)
          /\ Len(r.wire \o r.ogMsgq) = r.given
      BY <3>2, FlushSent DEF Complete
    <3>4. Len(<<>>) = 0 /\ r.given \in Nat
      BY <3>2 DEF SentSeq
    <3>5. Complete(all)
      BY <3>1, <3>3, <3>4 DEF Complete
    <3> QED BY <2>2, <3>1, <3>3, <3>5 DEF Kept, Sent
  <2>3. ASSUME NEW k \in 0 .. n - 1, q = Deregister(x(k)) PROVE Form(q) /\ Kept(q)
    <3> DEFINE d == x(k)
               w == r.wire \o SubSeq(r.ogMsgq, 1, k)
               m == SubSeq(r.ogMsgq, k + 2, n) \o <<r.ogMsgq[k + 1]>>
    <3>1. /\ Form(d) /\ d.state = "Connected" /\ d.wire = w /\ d.ogMsgq = m
          /\ d.given = r.given /\ d.blocked = TRUE
      BY <1>1 DEF Form
    <3>2. SentSeq(w, m, r.given, TRUE)
      BY <1>2, SplitSent DEF Sent
    <3> HIDE DEF x, w, m
    <3>3. Sent(d)
      BY <3>1, <3>2 DEF Sent
    <3> QED BY <1>3, <2>3, <3>1, <3>3
  <2> QED BY <2>1, <2>2, <2>3
<1> QED BY <1>4, <1>5, <1>6

\* A step that changes one wrapper keeps the messages of all.
LEMMA ChangeKeepsMessages ==
  ASSUME IInv, KeptInv, NEW s \in Sockets, NEW q, sock' = [sock EXCEPT ![s] = q], Kept(q)
  PROVE  KeptInv'
<1>1. sock = [t \in Sockets |-> sock[t]]
  BY DEF IInv, WrapperInv
<1>2. \A t \in Sockets : sock'[t] = IF t = s THEN q ELSE sock[t]
  BY <1>1
<1>3. \A t \in Sockets : Kept(sock'[t])
  BY <1>2 DEF KeptInv
<1> QED BY <1>3 DEF KeptInv

\* A socket that an application opens loses nothing of what was sent before.
LEMMA OpenKeepsMessages ==
  ASSUME NEW s \in Sockets, NEW before, before = [t \in Sockets |-> before[t]],
         \A t \in Sockets : Kept(before[t]), OpenSocket(s, before)
  PROVE  KeptInv'
<1> DEFINE u == [Unborn EXCEPT !.life = "Alive", !.iot = TRUE, !.app = "Acquired", !.held = "App"]
<1>1. PICK q \in SendBuff(u, 1) : sock' = [before EXCEPT ![s] = q]
  BY DEF OpenSocket
<1>2. Form(u) /\ u.life = "Alive" /\ u.wire = <<>> /\ u.ogMsgq = <<>> /\ u.given = 0
  BY DEF Unborn, Form
<1> HIDE DEF u
<1>3. Kept(u) /\ u.given + 1 = 1
  BY <1>2, NothingKept
<1>4. Kept(q)
  BY <1>1, <1>2, <1>3, SendBuffKept
<1>5. \A t \in Sockets : sock'[t] = IF t = s THEN q ELSE before[t]
  BY <1>1
<1>6. \A t \in Sockets : Kept(sock'[t])
  BY <1>4, <1>5
<1> QED BY <1>6 DEF KeptInv

\* Before anything was sent, nothing was lost.
LEMMA InitKept == Init => KeptInv
<1> SUFFICES ASSUME Init, NEW s \in Sockets PROVE Kept(sock[s])
  BY DEF KeptInv
<1>1. sock[s] = Unborn
  BY DEF Init
<1> QED BY <1>1, NothingKept DEF Unborn

\* Applications keep the messages of all sockets,
LEMMA ApplicationKeepsMessages ==
  ASSUME IInv, KeptInv, NEW s \in Sockets, Application(s)
  PROVE  KeptInv'
<1> DEFINE r == sock[s]
<1>1. Owned(r) /\ Form(r) /\ Kept(r)
  BY DEF IInv, WrapperInv, Owned, KeptInv
<1>2. CASE CreateAppSocket(s)
  <2>1. sock = [t \in Sockets |-> sock[t]]
    BY DEF IInv, WrapperInv
  <2> QED BY <1>2, <2>1, OpenKeepsMessages DEF CreateAppSocket, KeptInv
<1>3. CASE Send(s)
  <2>1. PICK q \in SendBuff(r, r.given + 1) : sock' = [sock EXCEPT ![s] = q]
    BY <1>3 DEF Send
  <2>2. r.life = "Alive"
    BY <1>1, <1>3 DEF Send, Owned
  <2> HIDE DEF r
  <2>3. Kept(q)
    BY <1>1, <2>1, <2>2, SendBuffKept
  <2> QED BY <2>1, <2>3, ChangeKeepsMessages
<1>4. ASSUME NEW q, q \in {[r EXCEPT !.held = "App", !.app = "Acquired"], [r EXCEPT !.held = "No"]}
      PROVE  Kept(q)
  <2> HIDE DEF r
  <2>1. /\ q.wire = r.wire /\ q.ogMsgq = r.ogMsgq /\ q.given = r.given
        /\ q.blocked = r.blocked /\ q.state = r.state /\ q.life = r.life /\ q.disc = r.disc
        /\ q.conn = r.conn
    BY <1>1, <1>4 DEF Form
  <2> QED BY <1>1, <2>1, SameKept DEF Open, IsOpen
<1>5. CASE Acquire(s) \/ Discard(s)
  <2>1. PICK q : /\ sock' = [sock EXCEPT ![s] = q]
                 /\ q \in {[r EXCEPT !.held = "App", !.app = "Acquired"], [r EXCEPT !.held = "No"]}
    BY <1>5 DEF Acquire, Discard
  <2> QED BY <1>4, <2>1, ChangeKeepsMessages
<1>6. CASE SendAnew(s)
  <2> DEFINE q == [r EXCEPT !.held = "No"]
             before == [sock EXCEPT ![s].held = "No"]
  <2>1. before = [sock EXCEPT ![s] = q] /\ Kept(q)
    BY <1>4
  <2>2. CASE sock' = before
    BY <2>1, <2>2, ChangeKeepsMessages
  <2>3. ASSUME NEW t \in Sockets, OpenSocket(t, before) PROVE KeptInv'
    <3>1. /\ before = [u \in Sockets |-> before[u]]
          /\ \A u \in Sockets : before[u] = IF u = s THEN q ELSE sock[u]
      BY <2>1 DEF IInv, WrapperInv
    <3> HIDE DEF before, q
    <3>2. \A u \in Sockets : Kept(before[u])
      BY <2>1, <3>1 DEF KeptInv
    <3> QED BY <2>3, <3>1, <3>2, OpenKeepsMessages
  <2> QED BY <1>6, <2>2, <2>3 DEF SendAnew
<1>7. CASE ReleaseSocket(s)
  <2>1. sock' = [sock EXCEPT ![s] = Release(r)]
    BY <1>7 DEF ReleaseSocket
  <2> QED BY <1>1, <2>1, ReleaseKept, ChangeKeepsMessages
<1> QED BY <1>2, <1>3, <1>5, <1>6, <1>7 DEF Application

\* and so does the network,
LEMMA NetworkKeepsMessages ==
  ASSUME IInv, KeptInv, NEW s \in Sockets, Network(s)
  PROVE  KeptInv'
<1> DEFINE r == sock[s]
<1>1. Form(r) /\ Kept(r)
  BY DEF IInv, WrapperInv, Owned, KeptInv
<1>2. PICK q : /\ sock' = [sock EXCEPT ![s] = q]
               /\ \/ r.conn # "Invalid" /\ \E to : q = [r EXCEPT !.conn = to]
                  \/ q = [r EXCEPT !.data = TRUE]
  BY DEF Network, Answer, Drain, Close, Fill, Break, Connection, PeerSends
<1>3. Kept(q)
  <2> HIDE DEF r
  <2>1. /\ q.wire = r.wire /\ q.ogMsgq = r.ogMsgq /\ q.given = r.given
        /\ q.blocked = r.blocked /\ q.state = r.state /\ q.life = r.life /\ q.disc = r.disc
        /\ r.conn = "Invalid" => q.conn = "Invalid"
    BY <1>1, <1>2 DEF Form
  <2> QED BY <1>1, <2>1, SameKept DEF Open, IsOpen
<1> QED BY <1>2, <1>3, ChangeKeepsMessages

\* the poll,
LEMMA PollKeepsMessages ==
  ASSUME IInv, KeptInv, PollReturns
  PROVE  KeptInv'
<1>1. PICK out \in [Polled -> UNION {Events(s) : s \in Polled}] :
        sock' = [s \in Sockets |-> IF s \in Polled THEN [sock[s] EXCEPT !.out = out[s]] ELSE sock[s]]
  BY DEF PollReturns
<1>2. ASSUME NEW s \in Sockets PROVE Kept(sock'[s])
  <2> DEFINE r == sock[s]
             q == [r EXCEPT !.out = out[s]]
  <2>1. Form(r) /\ Kept(r)
    BY DEF IInv, WrapperInv, Owned, KeptInv
  <2>2. sock'[s] = q \/ sock'[s] = r
    BY <1>1
  <2>3. Kept(q)
    <3> HIDE DEF r
    <3>1. /\ q.wire = r.wire /\ q.ogMsgq = r.ogMsgq /\ q.given = r.given
          /\ q.blocked = r.blocked /\ q.state = r.state /\ q.life = r.life /\ q.disc = r.disc
          /\ q.conn = r.conn
      BY <2>1 DEF Form
    <3> HIDE DEF q
    <3> QED BY <2>1, <3>1, SameKept DEF Open, IsOpen
  <2> QED BY <2>1, <2>2, <2>3
<1> QED BY <1>2 DEF KeptInv

\* and what the I/O thread does to the socket whose turn it is.
LEMMA ServiceKeepsMessages ==
  ASSUME IInv, KeptInv, ServiceSocket
  PROVE  KeptInv'
<1> DEFINE r == sock[Here]
<1>1. pc = "Service" /\ curr <= Len(array) /\ r.life = "Alive"
  BY DEF ServiceSocket
<1>2. Here \in Sockets
  BY <1>1, HereIsSocket
<1>3. Form(r) /\ Kept(r)
  BY <1>2 DEF IInv, WrapperInv, Owned, KeptInv
<1>4. ASSUME NEW q, Form(q), Kept(q), EraseSocket(q)
      PROVE  KeptInv'
  <2>1. Kept(Deregister(q))
    BY <1>4, DeregisterKept
  <2>2. Kept(Invalidate(q))
    BY <1>4 DEF Invalidate, Form, Kept, Sent, Open, IsOpen
  <2> QED BY <1>2, <1>4, <2>1, <2>2, ChangeKeepsMessages DEF EraseSocket
<1>5. ASSUME NEW q, Kept(q), KeepSocket(q)
      PROVE  KeptInv'
  BY <1>2, <1>5, ChangeKeepsMessages DEF KeepSocket
<1>6. ASSUME NEW q, Form(q), Kept(q)
      PROVE  Kept(Receive(q))
  <2> DEFINE d == Receive(q)
  <2>1. /\ d.wire = q.wire /\ d.ogMsgq = q.ogMsgq /\ d.given = q.given
        /\ d.blocked = q.blocked /\ d.state = q.state /\ d.life = q.life /\ d.disc = q.disc
        /\ d.conn = q.conn
    BY <1>6 DEF Form, Receive
  <2> HIDE DEF d
  <2>2. Kept(d)
    BY <1>6, <2>1, SameKept DEF Open, IsOpen
  <2> QED BY <2>2 DEF d
<1>7. CASE EraseSocket(r) \/ KeepSocket(r)
  BY <1>3, <1>4, <1>5, <1>7
<1>8. ASSUME NEW q \in IF "Write" \in r.out THEN Dispatch(r) ELSE {r},
             IF "Read" \in r.out THEN ReadSocket(q) ELSE KeepSocket(q)
      PROVE  KeptInv'
  <2> HIDE DEF r
  <2>1. Form(q) /\ Kept(q)
    BY <1>1, <1>3, <1>8, DispatchKept
  <2>2. EraseSocket(q) \/ KeepSocket(Receive(q)) \/ KeepSocket(q)
    BY <1>8 DEF ReadSocket
  <2> QED BY <1>4, <1>5, <1>6, <2>1, <2>2
<1> QED BY <1>7, <1>8 DEF ServiceSocket

\* A socket that was accepted has no messages.
LEMMA AcceptKeepsMessages ==
  ASSUME IInv, KeptInv, NEW s \in Sockets, AcceptConn(s)
  PROVE  KeptInv'
<1> DEFINE q == [Unborn EXCEPT !.life = "Alive", !.state = "Connected", !.iot = TRUE, !.conn = "Up"]
<1>1. sock' = [sock EXCEPT ![s] = q]
  BY DEF AcceptConn
<1>2. q.wire = <<>> /\ q.ogMsgq = <<>> /\ q.given = 0
  BY DEF Unborn
<1> HIDE DEF q
<1> QED BY <1>1, <1>2, NothingKept, ChangeKeepsMessages

\* Every step keeps the messages of all sockets.
LEMMA NextKept == IInv /\ KeptInv /\ [Next]_vars => KeptInv'
<1> SUFFICES ASSUME IInv, KeptInv, [Next]_vars PROVE KeptInv'
  OBVIOUS
<1>1. CASE UNCHANGED sock
  BY <1>1 DEF KeptInv
<1>2. CASE IoThread
  <2>1. CASE \/ PollSockets \/ Wake \/ PollFails \/ PollDeleted
             \/ PollMoved \/ ServiceDeleted \/ EndService \/ EndAccept
    BY <1>1, <2>1 DEF PollSockets, Wake, PollFails, PollDeleted, PollMoved, ServiceDeleted,
                      Undefined, EndService, EndAccept
  <2> QED BY <1>2, <2>1, PollKeepsMessages, ServiceKeepsMessages, AcceptKeepsMessages DEF IoThread
<1> QED BY <1>1, <1>2, ApplicationKeepsMessages, NetworkKeepsMessages DEF Next, vars

\* What is sent and what is queued, taken together: MessagesAreKept.
LEMMA KeptMessages ==
  ASSUME NEW r, Kept(r)
  PROVE  LET all == r.wire \o r.ogMsgq
         IN  /\ \A i, j \in 1 .. Len(all) : all[i] = all[j] => i = j
             /\ r.life = "Alive" /\ IsOpen(r) => Len(all) = r.given
             /\ ~r.blocked => \A i \in 1 .. Len(r.wire) : r.wire[i] = i
<1>1. SentSeq(r.wire, r.ogMsgq, r.given, r.blocked)
  BY DEF Kept, Sent
<1>2. Distinct(r.wire \o r.ogMsgq) /\ Len(r.wire \o r.ogMsgq) = Len(r.wire) + Len(r.ogMsgq)
  BY <1>1, ConcatSent DEF SentSeq
<1>3. r.life = "Alive" /\ IsOpen(r) => Len(r.wire) + Len(r.ogMsgq) = r.given
  BY DEF Kept, Open, Complete
<1>4. ~r.blocked => \A i \in 1 .. Len(r.wire) : r.wire[i] = i
  BY <1>1 DEF SentSeq
<1> QED BY <1>2, <1>3, <1>4 DEF Distinct

\* A message is sent at most once, an open socket loses none, and while the socket does
\* not block the messages are sent in the order in which they were accepted: MessagesAreKept
\* is true of any number of sockets and messages.
THEOREM MessagesAreNotLost == Spec => []MessagesAreKept
<1>1. KeptInv => MessagesAreKept
  BY KeptMessages DEF KeptInv, MessagesAreKept
<1> QED BY <1>1, InitIInv, NextIInv, InitKept, NextKept, PTL DEF Spec
=============================================================================
