------------------------------- MODULE PotsCall -------------------------------
(***************************************************************************)
(* A basic call between POTS subscribers: the subscribers' circuits (pb),  *)
(* the routing of a circuit's messages to a context by way of the          *)
(* subscriber's profile (sn, sb), and the two half calls (cb, sn).         *)
(*                                                                         *)
(*   circuit --toCall--> profile --> context of a half call                *)
(*      ^                                  |  ^                            *)
(*      +-------------toShelf--------------+  +--- CIP ---> other half     *)
(*                                                                         *)
(* Messages between a circuit and a half call travel over the IP stack, so *)
(* each side sees what the other did with a delay.  CIP messages bypass    *)
(* the IP stack and are queued on the receiving context.  A context        *)
(* handles one message per transaction.  It is deleted in the transaction  *)
(* that ends its half call, along with the messages that are still queued  *)
(* on it.                                                                  *)
(*                                                                         *)
(* Tones, media, causes that select among tones, services, and the states  *)
(* that a call passes within a transaction have no part in this.           *)
(***************************************************************************)
EXTENDS Integers, SequencesExt

CONSTANTS
  Users,         \* subscribers, each with a profile and a circuit
  MaxContexts,   \* bound on the contexts that are in use at the same time
  Tones,         \* tones that a treatment applies before it locks a line out
  MaxOffhooks,   \* bounds on how often each subscriber sends an offhook
  MaxDials,      \* bounds on how often each subscriber dials
  MaxMsgs,       \* bound on the messages on the way when a subscriber acts
  MaxRejects,    \* bounds on the messages of each that overload controls reject
  Nil

Contexts == 1 .. MaxContexts

ASSUME CallAssumption ==
  /\ MaxContexts \in Nat \ {0} /\ Tones \in Nat \ {0}
  /\ MaxOffhooks \in [Users -> Nat] /\ MaxDials \in [Users -> Nat]
  /\ MaxMsgs \in Nat \ {0} /\ MaxRejects \in [Users -> Nat]
  /\ Nil \notin Users /\ Nil \notin Contexts

VARIABLES
  circuit,   \* circuit[u]: PotsCircuit's state_, offhook_, ringing_, digits_
  profile,   \* profile[u]: PotsProfile's state_ and objAddr_
  toShelf,   \* toShelf[u]: messages on their way to u's circuit
  toCall,    \* toCall[u]: messages on their way from u's circuit
  ctx,       \* ctx[c]: the half call of context c, its timer, ports and queue
  offhooks,  \* offhooks[u]: how often u sent an offhook
  dials,     \* dials[u]: how often u dialled
  rejects    \* rejects[u]: how many messages of u overload controls rejected

vars == <<circuit, profile, toShelf, toCall, ctx, offhooks, dials, rejects>>

-----------------------------------------------------------------------------
(* Messages.                                                               *)

\* From a circuit, from the other half call, or from a timer.
Msg(port, sig, arg) == [port |-> port, sig |-> sig, arg |-> arg]
User(sig)    == Msg("U", sig, Nil)
Digits(d)    == Msg("U", "Digits", d)
Cip(sig, arg) == Msg("N", sig, arg)

TimerIds == {"Collection", "Treatment", "Suspend", "Alerting", "Answer", "Iam"}

\* PotsBcSsm::TimerPsm, and CipPsm's own timer
TimerPort(tid) == IF tid \in {"Alerting", "Answer", "Iam"} THEN "N" ELSE "U"
Timeout(tid) == Msg(TimerPort(tid), "Timeout", tid)

\* To a circuit.  A Supervise starts or stops what its parameters mention.
Supervise(ring, digits) == [sig |-> "Supervise", ring |-> ring, digits |-> digits]
RingOn    == Supervise("On", Nil)
RingOff   == Supervise("Off", Nil)
DigitsOn  == Supervise(Nil, "On")
DigitsOff == Supervise(Nil, "Off")
Lockout   == [sig |-> "Lockout"]
Release   == [sig |-> "Release"]

\* Nil is no message, no timer and no mark in a Supervise.
ASSUME NilAssumption ==
  /\ Nil # RingOn /\ Nil # RingOff /\ Nil # Release
  /\ Nil \notin {"On", "Off"} /\ Nil \notin TimerIds

\* What can be dialled: part of a number, a number that is not in service or
\* malformed, or the number of a subscriber.
Dialable == {"Partial", "Bad"} \cup Users

\* The treatment that a cause selects: tones and then lockout, or nothing.
ToneCause == "Tones"
IdleCause == "Idle"

-----------------------------------------------------------------------------
(* Contexts.  A context that was just created is Ready and has no SSM.     *)

NoCall == [st |-> "Free", model |-> Nil, user |-> Nil, npsm |-> "Idle",
           peer |-> Nil, timer |-> Nil, tone |-> 0, q |-> <<>>]

Obc(u, m) == [NoCall EXCEPT !.st = "Ready", !.model = "Obc", !.user = u,
                            !.q = <<m>>]
Tbc(c, m) == [NoCall EXCEPT !.st = "Ready", !.model = "Tbc", !.peer = c,
                            !.q = <<m>>]

\* The ports that a context has for its user and for the other half call.
UserPort(c, u) == c # Nil /\ ctx[c].st # "Free" /\ ctx[c].user = u
NetPort(h)     == \/ h.npsm # "Idle"
                  \/ h.st = "Ready" /\ h.model = "Tbc"

\* An address that nothing refers to: a port's address is not used again
\* while an old reference to it could be mistaken for the new port.
Unused == {c \in Contexts : /\ ctx[c].st = "Free"
                            /\ \A u \in Users : profile[u].addr # c
                            /\ \A d \in Contexts : ctx[d].peer # c}

NewContext == CHOOSE c \in Unused : TRUE

-----------------------------------------------------------------------------
(* The profile of a subscriber.                                            *)

SetObjAddr(p, u, c) ==
  IF UserPort(p.addr, u)
    THEN p
    ELSE [state |-> IF p.state = "Idle" THEN "Active" ELSE p.state, addr |-> c]

ClearObjAddr(p, c) ==
  IF p.addr # c
    THEN p
    ELSE [state |-> IF p.state = "Active" THEN "Idle" ELSE p.state, addr |-> Nil]

SetLine(p, c, state) ==
  IF state # Nil /\ p.addr = c THEN [p EXCEPT !.state = state] ELSE p

-----------------------------------------------------------------------------
(* The circuit of a subscriber.  SendMsg and ReceiveMsg return the circuit *)
(* and the messages that it sends.                                         *)

Sends(k, sig) ==
  CASE sig = "Offhook" ->
         <<[k EXCEPT !.offhook = TRUE,
                     !.state = IF @ = "Idle" THEN "Active" ELSE @], <<User(sig)>>>>
    [] sig = "Onhook" ->
         <<[k EXCEPT !.offhook = FALSE, !.digits = FALSE,
                     !.state = IF @ = "Active" THEN "Idle" ELSE @], <<User(sig)>>>>
    [] sig = "Alerting" -> <<k, IF k.ringing THEN <<User(sig)>> ELSE <<>>>>

\* A Supervise that carries only a cause or media is never sent here
ReceiveSupervise(k, m) ==
  LET up == IF k.state = "Idle" THEN "Terminator" ELSE k.state
      k1 == CASE m.ring = "On"  ->
                   [k EXCEPT !.ringing = TRUE,
                             !.state = IF up = "Active" THEN "Terminator" ELSE up]
              [] m.ring = "Off" -> [k EXCEPT !.ringing = FALSE, !.state = up]
              [] OTHER          -> [k EXCEPT !.state = up]
      s  == CASE m.ring # "On"               -> <<k1, <<>>>>
              [] m.ring = "On" /\ k.offhook  -> Sends(k1, "Offhook")
              [] m.ring = "On" /\ ~k.offhook -> Sends(k1, "Alerting")
      on == m.digits = "On"
  IN IF m.digits = Nil
       THEN s
       ELSE <<[s[1] EXCEPT !.digits = on,
                           !.state = IF on /\ @ = "Active" THEN "Originator" ELSE @],
              s[2]>>

\* Mutant: a circuit that is released while it is offhook stays silent.
ReceiveReleaseSilently(k) ==
  <<[state |-> IF k.offhook THEN "Active" ELSE "Idle", offhook |-> k.offhook,
     ringing |-> k.ringing, digits |-> FALSE], <<>>>>

ReceiveRelease(k) ==
  LET k1 == [state |-> IF k.offhook THEN "Active" ELSE "Idle",
             offhook |-> k.offhook, ringing |-> FALSE, digits |-> FALSE]
  IN IF k.offhook THEN Sends(k1, "Offhook") ELSE <<k1, <<>>>>

ReceiveMsg(k, m) ==
  CASE m.sig = "Supervise" -> ReceiveSupervise(k, m)
    [] m.sig = "Lockout"   -> <<[k EXCEPT !.state = "LockedOut", !.digits = FALSE],
                                <<>>>>
    [] m.sig = "Release"   -> ReceiveRelease(k)

Stimulate(u, s) ==
  /\ circuit' = [circuit EXCEPT ![u] = s[1]]
  /\ toCall' = [toCall EXCEPT ![u] = @ \o s[2]]

ShelfReceives(u) ==
  /\ toShelf[u] # <<>>
  /\ Stimulate(u, ReceiveMsg(circuit[u], Head(toShelf[u])))
  /\ toShelf' = [toShelf EXCEPT ![u] = Tail(@)]
  /\ UNCHANGED <<profile, ctx, offhooks, dials, rejects>>

\* A subscriber who waits for dial tone may send another offhook.
GoesOffhook(u) ==
  /\ offhooks[u] < MaxOffhooks[u]
  /\ Stimulate(u, Sends(circuit[u], "Offhook"))
  /\ offhooks' = [offhooks EXCEPT ![u] = @ + 1]
  /\ UNCHANGED <<profile, toShelf, ctx, dials, rejects>>

GoesOnhook(u) ==
  /\ circuit[u].offhook
  /\ Stimulate(u, Sends(circuit[u], "Onhook"))
  /\ UNCHANGED <<profile, toShelf, ctx, offhooks, dials, rejects>>

Dials(u) ==
  /\ circuit[u].offhook /\ circuit[u].digits /\ dials[u] < MaxDials[u]
  /\ \E d \in Dialable : Stimulate(u, <<circuit[u], <<Digits(d)>>>>)
  /\ dials' = [dials EXCEPT ![u] = @ + 1]
  /\ UNCHANGED <<profile, toShelf, ctx, offhooks, rejects>>

-----------------------------------------------------------------------------
(* Messages from circuits reach the half call that is recorded in the      *)
(* profile, or a new one.                                                  *)

\* Context::Enqueue has the factory screen the messages of a context that no
\* invoker has served yet: an onhook cancels the call that an offhook began,
\* and another offhook is dropped.
Cancels(q)      == q[1].sig = "Offhook" /\ q[2].sig = "Onhook"
ScreenIcMsgs(q) ==
  IF q[1].sig = "Offhook" /\ q[2].sig = "Offhook" THEN RemoveAt(q, 2) ELSE q

ReceiveProgress(u, c, m) ==
  LET q == Append(ctx[c].q, m)
      screened == ctx[c].st = "Ready" /\ ctx[c].model = "Obc"
  IN IF screened /\ Cancels(q)
       THEN /\ ctx' = [ctx EXCEPT ![c] = NoCall]
            /\ toShelf' = [toShelf EXCEPT ![u] = Append(@, Release)]
       ELSE /\ ctx' = [ctx EXCEPT ![c].q = IF screened THEN ScreenIcMsgs(q) ELSE q]
            /\ UNCHANGED toShelf

ReceiveInitial(u, m) ==
  LET c == NewContext
  IN /\ Unused # {}
     /\ ctx' = [ctx EXCEPT ![c] = Obc(u, m)]
     /\ profile' = [profile EXCEPT ![u] = SetObjAddr(@, u, c)]

\* The input handler finds the port in the profile, or starts a half call.
CallReceives(u) ==
  /\ toCall[u] # <<>>
  /\ toCall' = [toCall EXCEPT ![u] = Tail(@)]
  /\ LET m == Head(toCall[u])
         c == profile[u].addr
     IN \/ /\ UserPort(c, u)
           /\ ReceiveProgress(u, c, m)
           /\ UNCHANGED profile
        \/ /\ ~UserPort(c, u)
           /\ ReceiveInitial(u, m)
           /\ UNCHANGED toShelf
  /\ UNCHANGED <<circuit, offhooks, dials, rejects>>

\* Overload controls reject a message that would start a half call.
RejectsIngress(u) ==
  /\ toCall[u] # <<>> /\ rejects[u] < MaxRejects[u]
  /\ ~UserPort(profile[u].addr, u) /\ Head(toCall[u]).sig # "Onhook"
  /\ toCall' = [toCall EXCEPT ![u] = Tail(@)]
  /\ rejects' = [rejects EXCEPT ![u] = @ + 1]
  /\ UNCHANGED <<circuit, profile, toShelf, ctx, offhooks, dials>>

-----------------------------------------------------------------------------
(* The states of a CIP protocol state machine.                             *)

Moves(from, sig, to) == {<<s, sig, to>> : s \in from}

IcMoves ==
  UNION {Moves({"Idle"}, "IAM", "IamRcvd"),
         Moves({"IamSent"}, "EOS", "EosRcvd"),
         Moves({"IamSent", "EosRcvd"}, "ALT", "AltRcvd"),
         Moves({"IamSent", "EosRcvd", "AltRcvd"}, "ANM", "AnmRcvd"),
         Moves({"AnmRcvd"}, "SUS", "SusRcvd"),
         Moves({"SusRcvd"}, "RES", "AnmRcvd")}

\* Mutant: an answer is only expected after an alerting.
OgMovesLate ==
  UNION {Moves({"Idle"}, "IAM", "IamSent"),
         Moves({"IamRcvd"}, "EOS", "EosSent"),
         Moves({"IamRcvd", "EosSent"}, "ALT", "AltSent"),
         Moves({"AltSent"}, "ANM", "AnmSent"),
         Moves({"AnmSent"}, "SUS", "SusSent"),
         Moves({"SusSent"}, "RES", "AnmSent")}

OgMoves ==
  UNION {Moves({"Idle"}, "IAM", "IamSent"),
         Moves({"IamRcvd"}, "EOS", "EosSent"),
         Moves({"IamRcvd", "EosSent"}, "ALT", "AltSent"),
         Moves({"IamRcvd", "EosSent", "AltSent"}, "ANM", "AnmSent"),
         Moves({"AnmSent"}, "SUS", "SusSent"),
         Moves({"SusSent"}, "RES", "AnmSent")}

\* The state that a signal leads to, or Nil if it is invalid.
Move(moves, s, sig) ==
  IF sig = "REL"
    THEN IF s = "Idle" THEN Nil ELSE "Idle"
    ELSE LET to == {x \in moves : x[1] = s /\ x[2] = sig}
         IN IF to = {} THEN Nil ELSE (CHOOSE x \in to : TRUE)[3]

IcNext(s, sig) == Move(IcMoves, s, sig)
OgNext(s, sig) == Move(OgMoves, s, sig)

\* The states that they lead between, and the signals.  Nil is no state and
\* no message.
CipStates == {"Idle", "IamSent", "EosRcvd", "AltRcvd", "AnmRcvd", "SusRcvd",
              "IamRcvd", "EosSent", "AltSent", "AnmSent", "SusSent"}
CipSignals == {"IAM", "EOS", "ALT", "ANM", "SUS", "RES", "REL"}

ASSUME CipAssumption ==
  /\ Nil \notin CipStates
  /\ \A sig \in CipSignals, arg \in Users \cup {ToneCause, IdleCause, Nil} :
       Nil # Cip(sig, arg)

-----------------------------------------------------------------------------
(* Transactions.  A transaction t starts with the half call h, to which    *)
(* handlers add the message nu for the user's circuit, the CIP message     *)
(* cip and the state line of the user's profile.                           *)

Begin(c) == [h |-> [ctx[c] EXCEPT !.q = Tail(@)],
             nu |-> Nil, cip |-> Nil, line |-> Nil]

Go(t, st)        == [t EXCEPT !.h.st = st]
ToUser(t, m)     == IF t.nu = Release THEN t ELSE [t EXCEPT !.nu = m]
ToPeer(t, m)     == [t EXCEPT !.cip = m]
SetLineState(t, s) == [t EXCEPT !.line = s]

StartTimer(t, tid) == [t EXCEPT !.h.timer = tid]
ClearTimer(t)      == [t EXCEPT !.h.timer = Nil]

\* A timeout that is already queued is removed as well.
StopTimer(t) == ClearTimer([t EXCEPT !.h.q = RemoveFirst(@, Timeout(t.h.timer))])

\* The user has a PSM that is not idle.
HasUser(t) == t.h.user # Nil

ClearCall(t, cause) ==
  LET t1 == IF HasUser(t)
              THEN SetLineState(ToUser(t, Release), "Idle") ELSE t
      t2 == IF t.h.npsm = "Idle" THEN t1 ELSE ToPeer(t1, Cip("REL", cause))
  IN Go(t2, "Null")

ApplyTone(t, i) == StartTimer([Go(t, "Ex") EXCEPT !.h.tone = i], "Treatment")

\* The first treatment in the queue that the cause selects.
FirstTreatment(t, cause) ==
  IF cause = IdleCause THEN ClearCall(t, cause) ELSE ApplyTone(t, 1)

NextTreatment(t) ==
  IF t.h.tone < Tones
    THEN ApplyTone(t, t.h.tone + 1)
    ELSE Go(SetLineState(ToUser(t, Lockout), "Lockout"), "Null")

\* Only a user who was in a call, or who originates one, hears why it ended.
ReleaseCall(t, cause) ==
  IF HasUser(t) /\ t.h.st \in {"Ci", "Sc", "Oa", "Ac", "Rs"}
    THEN FirstTreatment(t, cause)
    ELSE ClearCall(t, cause)

-----------------------------------------------------------------------------
(* The end of a transaction sends the messages, deletes what became idle   *)
(* and, with the SSM in the Null state, deletes the context.  A PSM that   *)
(* is not idle when its context is deleted sends a final message.          *)

Queue(m) == IF m = Nil THEN <<>> ELSE <<m>>

UserMsgs(t) ==
  Queue(t.nu) \o IF t.h.st = "Null" /\ HasUser(t) /\ t.nu \notin {Release, Lockout}
                   THEN <<Release>> ELSE <<>>

\* The state of the network-side PSM after it sent t.cip, which it purges
\* when its state does not allow it.
NetState(t) ==
  LET s == IF t.cip = Nil THEN Nil ELSE OgNext(t.h.npsm, t.cip.sig)
  IN IF s = Nil THEN t.h.npsm ELSE s

NetMsgs(t) ==
  (IF t.cip # Nil /\ OgNext(t.h.npsm, t.cip.sig) # Nil THEN <<t.cip>> ELSE <<>>)
    \o IF t.h.st = "Null" /\ NetState(t) # "Idle"
         THEN <<Cip("REL", IdleCause)>> ELSE <<>>

\* The half call after a transaction; new is the context of an IAM, if any.
AfterTransaction(t, new) ==
  IF t.h.st = "Null"
    THEN NoCall
    ELSE [t.h EXCEPT !.npsm = NetState(t),
                     !.peer = IF NetState(t) = "Idle" THEN Nil
                              ELSE IF new # Nil THEN new ELSE @]

ProfileAfter(c, t) ==
  LET p == profile[t.h.user]
      p1 == IF ctx[c].user = Nil THEN SetObjAddr(p, t.h.user, c) ELSE p
      p2 == SetLine(p1, c, t.line)
  IN IF t.h.st = "Null" THEN ClearObjAddr(p2, c) ELSE p2

EndOfTransaction(c, t) ==
  LET msgs == NetMsgs(t)
      iam  == msgs # <<>> /\ msgs[1].sig = "IAM"
      new  == IF iam THEN NewContext ELSE Nil
      p    == t.h.peer
      mine == [ctx EXCEPT ![c] = AfterTransaction(t, new)]
  IN /\ iam => Unused # {}
     /\ ctx' = CASE iam -> [mine EXCEPT ![new] = Tbc(c, msgs[1])]
                 [] /\ ~iam /\ msgs # <<>> /\ p # Nil
                    /\ ctx[p].peer = c /\ NetPort(ctx[p])
                      -> [mine EXCEPT ![p].q = @ \o msgs]
                 [] OTHER -> mine
     /\ IF HasUser(t)
          THEN /\ toShelf' = [toShelf EXCEPT ![t.h.user] = @ \o UserMsgs(t)]
               /\ profile' = [profile EXCEPT ![t.h.user] = ProfileAfter(c, t)]
          ELSE UNCHANGED <<toShelf, profile>>
     /\ UNCHANGED <<circuit, toCall, offhooks, dials, rejects>>

-----------------------------------------------------------------------------
(* Messages from the user's circuit, by state of the half call.            *)

\* The next message is from the user, and the half call is in one of states.
FromUser(c, states) ==
  ctx[c].st \in states /\ ctx[c].q # <<>> /\ Head(ctx[c].q).port = "U"

\* The SSM idles if it has not left the Null state.
\* Mutant: it does not.
SuspendInNull(t) == t

Suspend(t) == IF t.h.st = "Ready" THEN Go(t, "Null") ELSE t

\* PotsBcSsm::AnalyzeMsg: messages that the state of the call does not handle
AnalyzeMsg(t, sig) ==
  CASE sig = "Alerting" /\ t.h.st = "Ready" -> ReleaseCall(t, IdleCause)
    [] sig = "Onhook" /\ t.h.st = "Ready"   -> ReleaseCall(t, ToneCause)
    [] sig = "Onhook" /\ t.h.st \notin {"Ready", "Pc"} -> ReleaseCall(t, IdleCause)
    [] sig = "Timeout" -> ReleaseCall(t, IdleCause)
    [] OTHER -> Suspend(t)

Originate(t) == StartTimer(ToUser(Go(t, "Ci"), DigitsOn), "Collection")

\* The line's state decides what the first message means.
NuAnalyzeLocalMessage(c) ==
  /\ FromUser(c, {"Ready"})
  /\ LET t == Begin(c)
         sig == Head(ctx[c].q).sig
         line == profile[t.h.user].state
     IN EndOfTransaction(c,
          CASE line = "Active" /\ sig = "Offhook" -> Originate(t)
            [] line = "Lockout" /\ sig = "Onhook" ->
                 Suspend(SetLineState(ToUser(t, Release), "Idle"))
            [] OTHER -> AnalyzeMsg(t, sig))

CollectionTimeout(t) == ReleaseCall(ToUser(t, DigitsOff), ToneCause)

SendCall(t, d) == ToPeer(Go(ToUser(t, DigitsOff), "Sc"), Cip("IAM", d))

\* Digits that make up a number lead to a route and to the request to the
\* other half call, in the same transaction.
LocalInformation(t, d) ==
  CASE d = "Partial" -> StartTimer(t, "Collection")
    [] d = "Bad"     -> CollectionTimeout(t)
    [] OTHER         -> SendCall(t, d)

CiAnalyzeLocalMessage(c) ==
  /\ FromUser(c, {"Ci"})
  /\ LET t == Begin(c)
         m == Head(ctx[c].q)
     IN EndOfTransaction(c,
          CASE m.sig = "Digits"  -> LocalInformation(StopTimer(t), m.arg)
            [] m.sig = "Onhook"  -> ClearCall(StopTimer(t), ToneCause)
            [] m.sig = "Timeout" -> CollectionTimeout(ClearTimer(t))
            [] OTHER -> AnalyzeMsg(t, m.sig))

ScAnalyzeLocalMessage(c) ==
  /\ FromUser(c, {"Sc", "Oa"})
  /\ LET t == Begin(c)
         sig == Head(ctx[c].q).sig
     IN EndOfTransaction(c, IF sig = "Onhook" THEN ClearCall(t, ToneCause)
                                             ELSE AnalyzeMsg(t, sig))

LocalAlerting(t) == ToPeer(Go(StartTimer(t, "Answer"), "Ta"), Cip("ALT", Nil))

LocalAnswer(t) == ToPeer(Go(ToUser(t, RingOff), "Ac"), Cip("ANM", Nil))

PcAnalyzeLocalMessage(c) ==
  /\ FromUser(c, {"Pc"})
  /\ LET t == Begin(c)
         sig == Head(ctx[c].q).sig
     IN EndOfTransaction(c,
          CASE sig = "Alerting" -> LocalAlerting(StopTimer(t))
            [] sig = "Offhook" -> LocalAnswer(StopTimer(t))
            [] OTHER -> AnalyzeMsg(t, sig))

TaAnalyzeLocalMessage(c) ==
  /\ FromUser(c, {"Ta"})
  /\ LET t == Begin(c)
         sig == Head(ctx[c].q).sig
     IN EndOfTransaction(c, IF sig = "Offhook" THEN LocalAnswer(StopTimer(t))
                                              ELSE AnalyzeMsg(t, sig))

LocalSuspend(t) == ToPeer(Go(StartTimer(t, "Suspend"), "Ls"), Cip("SUS", Nil))
LocalResume(t)  == ToPeer(Go(t, "Ac"), Cip("RES", Nil))

\* The called user may hang up for a while: the call is suspended.
AcAnalyzeLocalMessage(c) ==
  /\ FromUser(c, {"Ac", "Ls", "Rs"})
  /\ LET t == Begin(c)
         sig == Head(ctx[c].q).sig
     IN EndOfTransaction(c,
          CASE sig = "Onhook" /\ t.h.model = "Obc" -> ClearCall(t, ToneCause)
            [] sig = "Onhook" /\ t.h.model = "Tbc" /\ t.h.st # "Ls" -> LocalSuspend(t)
            [] sig = "Offhook" /\ t.h.st = "Ls" -> LocalResume(StopTimer(t))
            [] sig = "Timeout" -> ClearCall(ClearTimer(t), ToneCause)
            [] OTHER -> AnalyzeMsg(t, sig))

ExAnalyzeLocalMessage(c) ==
  /\ FromUser(c, {"Ex"})
  /\ LET t == Begin(c)
         sig == Head(ctx[c].q).sig
     IN EndOfTransaction(c,
          CASE sig = "Onhook"  -> ClearCall(StopTimer(t), ToneCause)
            [] sig = "Timeout" -> NextTreatment(ClearTimer(t))
            [] OTHER -> AnalyzeMsg(t, sig))

-----------------------------------------------------------------------------
(* Messages from the other half call, and timers of the network side.      *)

FromNet(c) == ctx[c].q # <<>> /\ Head(ctx[c].q).port = "N"

\* Any message from the other half stops the wait for an answer to the IAM.
StopIamTimer(t) ==
  IF t.h.npsm # "IamSent" THEN t
    ELSE [t EXCEPT !.h.q = RemoveFirst(@, Timeout("Iam"))]

PresentCall(t, u) ==
  ToPeer(ToUser(StartTimer([Go(t, "Pc") EXCEPT !.h.user = u], "Alerting"), RingOn),
         Cip("EOS", Nil))

\* The subscriber must have no call.
\* Mutant: the state of the line is not looked at.
SelectFacilityBlindly(t, u) == PresentCall(t, u)

SelectFacility(t, u) ==
  IF profile[u].state = "Idle" THEN PresentCall(t, u) ELSE ClearCall(t, ToneCause)

\* A half call whose state it is to ring or to wait for the user to return
\* releases its circuit.  One in which the user listens applies treatment.
RemoteRelease(t, cause) ==
  IF t.h.st \in {"Pc", "Ta", "Ls"} THEN ClearCall(StopTimer(t), cause)
                                   ELSE ReleaseCall(t, cause)

\* The event that a valid CIP message raises, in the state where it is raised.
RemoteEvent(t, m) ==
  CASE m.sig = "IAM" -> SelectFacility(t, m.arg)
    [] m.sig = "EOS" -> t
    [] m.sig = "ALT" -> Go(t, "Oa")
    [] m.sig = "ANM" -> Go(t, "Ac")
    [] m.sig = "SUS" -> Go(t, "Rs")
    [] m.sig = "RES" -> Go(t, "Ac")
    [] m.sig = "REL" -> RemoteRelease(t, m.arg)

\* A message whose port was deleted while it was queued is discarded.
AnalyzeRemoteMessage(c) ==
  /\ FromNet(c) /\ Head(ctx[c].q).sig # "Timeout"
  /\ LET m == Head(ctx[c].q)
         t == StopIamTimer(Begin(c))
         s == IcNext(t.h.npsm, m.sig)
     IN EndOfTransaction(c,
          CASE ~NetPort(ctx[c]) -> t
            [] NetPort(ctx[c]) /\ s = Nil -> ReleaseCall(t, IdleCause)
            [] OTHER -> RemoteEvent([t EXCEPT !.h.npsm = s], m))

\* Neither an alerting nor an answer came, or no answer to the IAM.
AnalyzeNPsmTimeout(c) ==
  /\ FromNet(c) /\ Head(ctx[c].q).sig = "Timeout"
  /\ EndOfTransaction(c,
       CASE ~NetPort(ctx[c]) -> Begin(c)
         [] NetPort(ctx[c]) /\ Head(ctx[c].q).arg = "Iam" ->
              ReleaseCall(Begin(c), IdleCause)
         [] OTHER -> ClearCall(ClearTimer(Begin(c)), ToneCause))

-----------------------------------------------------------------------------
(* Timers.                                                                 *)

Running(c) ==
  {tid \in {ctx[c].timer} \ {Nil} : TRUE}
    \cup (IF ctx[c].npsm = "IamSent" THEN {"Iam"} ELSE {})

\* Timers run for seconds: meanwhile the messages of circuits arrive, but the
\* queues of contexts wait for invokers.
TimerExpires(c) ==
  \E tid \in Running(c) :
    /\ \A u \in Users : toCall[u] = <<>> /\ toShelf[u] = <<>>
    /\ \A i \in DOMAIN ctx[c].q : ctx[c].q[i] # Timeout(tid)
    /\ ctx' = [ctx EXCEPT ![c].q = Append(@, Timeout(tid))]
    /\ UNCHANGED <<circuit, profile, toShelf, toCall, offhooks, dials, rejects>>

-----------------------------------------------------------------------------
ProcessWork(c) ==
  \/ NuAnalyzeLocalMessage(c)
  \/ CiAnalyzeLocalMessage(c)
  \/ ScAnalyzeLocalMessage(c)
  \/ PcAnalyzeLocalMessage(c)
  \/ TaAnalyzeLocalMessage(c)
  \/ AcAnalyzeLocalMessage(c)
  \/ ExAnalyzeLocalMessage(c)
  \/ AnalyzeRemoteMessage(c)
  \/ AnalyzeNPsmTimeout(c)

Init ==
  /\ circuit = [u \in Users |-> [state |-> "Idle", offhook |-> FALSE,
                                 ringing |-> FALSE, digits |-> FALSE]]
  /\ profile = [u \in Users |-> [state |-> "Idle", addr |-> Nil]]
  /\ toShelf = [u \in Users |-> <<>>] /\ toCall = [u \in Users |-> <<>>]
  /\ ctx = [c \in Contexts |-> NoCall]
  /\ offhooks = [u \in Users |-> 0] /\ dials = [u \in Users |-> 0]
  /\ rejects = [u \in Users |-> 0]

Subscriber(u) ==
  /\ Len(toCall[u]) < MaxMsgs
  /\ GoesOnhook(u) \/ (Len(toShelf[u]) < MaxMsgs /\ (GoesOffhook(u) \/ Dials(u)))

Next ==
  \/ \E u \in Users : Subscriber(u) \/ ShelfReceives(u) \/ CallReceives(u)
                      \/ RejectsIngress(u)
  \/ \E c \in Contexts : ProcessWork(c) \/ TimerExpires(c)

Spec == Init /\ [][Next]_vars

-----------------------------------------------------------------------------
(* Properties.                                                             *)

Live(c)    == ctx[c].st # "Free"

\* A subscriber has at most one half call, and the profile knows it: a call
\* that arrives while the subscriber goes offhook (glare) does not start a
\* second half call, and none continues that the circuit cannot reach
\* (PotsBcNuAnalyzeLocalMessage, PotsBcSelectingFacility's SelectFacility).
OneOwner ==
  \A u \in Users, c \in Contexts : UserPort(c, u) => profile[u].addr = c

\* The messages from the other half call, and their timer, find their port,
\* and are valid in the states in which they will be received: s[i] is the
\* state of the PSM after the first i messages that are now queued.
IsCip(m) == m.port = "N" /\ m.sig # "Timeout"

Received(s, m) == IF s # Nil /\ IsCip(m) THEN IcNext(s, m.sig) ELSE s

MsgsAreValid(c) ==
  LET q == ctx[c].q
      s[i \in 0 .. Len(q)] ==
        IF i = 0 THEN ctx[c].npsm ELSE Received(s[i - 1], q[i])
  IN (\E i \in DOMAIN q : q[i].port = "N") => NetPort(ctx[c]) /\ s[Len(q)] # Nil

\* The halves agree whether the call is answered, and whether suspended.
SameStage(c, p) ==
  /\ ctx[c].st \in {"Ac", "Rs"} <=> ctx[p].st \in {"Ac", "Ls"}
  /\ ctx[c].st = "Rs" <=> ctx[p].st = "Ls"

\* The halves of a call stay in step, however releases, answers, suspensions
\* and timeouts cross: no CIP message is discarded or out of order, which
\* BcPsm::ProcessIcMsg logs before it clears the call, and once the caller has
\* received all of them, both halves are at the same stage.
HalvesInStep ==
  \A c \in Contexts :
    LET p == ctx[c].peer
        received == \A i \in DOMAIN ctx[c].q : ctx[c].q[i].port = "U"
    IN /\ MsgsAreValid(c)
       /\ ctx[c].model = "Obc" /\ received /\ p # Nil /\ ctx[p].peer = c
            => SameStage(c, p)

\* A circuit rings only for a call that is being presented, or until the
\* message that stops it arrives, although the order to ring, the answer and
\* the release cross (PotsCircuit::ReceiveMsg, PotsBcSsm).
RingsForCall ==
  \A u \in Users :
    circuit[u].ringing =>
      \/ \E c \in Contexts : UserPort(c, u) /\ ctx[c].st \in {"Pc", "Ta"}
      \/ \E i \in DOMAIN toShelf[u] : toShelf[u][i] \in {RingOff, Release}

\* No half call hangs: each waits for something that will come or that its
\* user can still do.  It has work in its queue, a timer that runs, or a user
\* who is offhook and whose onhook will reach it, or has yet to reach it,
\* although treatments end, calls are suspended and halves disappear while
\* messages are queued (PotsBcSsm, BcSsm::ClearCall, SsmContext::EndOfTransaction).
NeverHangs ==
  \A c \in Contexts :
    Live(c) =>
      \/ ctx[c].q # <<>> \/ Running(c) # {}
      \/ \E u \in Users :
           /\ UserPort(c, u) /\ profile[u].addr = c
           /\ circuit[u].offhook \/ Contains(toCall[u], User("Onhook"))
=============================================================================
