---------------------------- MODULE PotsCall_proofs ----------------------------
(***************************************************************************)
(* Proofs about PotsCall, for any number of subscribers and contexts: a    *)
(* subscriber has at most one half call and the profile knows it, a        *)
(* circuit rings only for a call that is presented, no half call is left   *)
(* without something that ends it, and the halves of a call stay in step.  *)
(***************************************************************************)
EXTENDS PotsCall, SequenceTheorems, FiniteSetTheorems, WellFoundedInduction, TLAPS

-----------------------------------------------------------------------------
(* Queues.                                                                 *)

\* A message of a kind is queued, and one of a kind is queued that no message
\* of another kind follows.
Has(s, e) == \E i \in 1 .. Len(s) : s[i] \in e
Pending(s, b, e) ==
  \E i \in 1 .. Len(s) : s[i] \in b /\ \A j \in 1 .. Len(s) : i < j => s[j] \notin e

\* Nothing is in an empty queue,
LEMMA EmptyHas ==
  ASSUME NEW b, NEW e
  PROVE  ~Has(<<>>, e) /\ ~Pending(<<>>, b, e)
  BY DEF Has, Pending

\* what appending a message adds to it,
LEMMA AppendHas ==
  ASSUME NEW S, NEW s \in Seq(S), NEW m \in S, NEW b, NEW e
  PROVE  LET r == Append(s, m)
         IN /\ r \in Seq(S) /\ r # <<>>
            /\ Has(r, e) <=> Has(s, e) \/ m \in e
            /\ Pending(r, b, e) <=> m \in b \/ (Pending(s, b, e) /\ m \notin e)
<1> DEFINE r == Append(s, m)
           n == Len(s)
<1>1. n \in Nat /\ r \in Seq(S) /\ Len(r) = n + 1 /\ r[n + 1] = m
      /\ \A i \in 1 .. n : r[i] = s[i]
  BY LenProperties, AppendProperties
<1> HIDE DEF r, n
<1>2. \A i : i \in 1 .. Len(r) <=> i \in 1 .. n \/ i = n + 1
  BY <1>1
<1>3. Has(r, e) <=> Has(s, e) \/ m \in e
  BY <1>1, <1>2 DEF Has, n
<1>4. ASSUME Pending(r, b, e) PROVE m \in b \/ (Pending(s, b, e) /\ m \notin e)
  <2>1. PICK i \in 1 .. Len(r) : r[i] \in b /\ \A j \in 1 .. Len(r) : i < j => r[j] \notin e
    BY <1>4 DEF Pending
  <2>2. CASE i \in 1 .. n
    BY <1>1, <1>2, <2>1, <2>2 DEF Pending, n
  <2> QED BY <1>1, <1>2, <2>1, <2>2
<1>5. ASSUME m \in b PROVE Pending(r, b, e)
  BY <1>1, <1>2, <1>5 DEF Pending
<1>6. ASSUME Pending(s, b, e), m \notin e PROVE Pending(r, b, e)
  <2>1. PICK i \in 1 .. n : s[i] \in b /\ \A j \in 1 .. n : i < j => s[j] \notin e
    BY <1>6 DEF Pending, n
  <2>2. r[i] \in b /\ \A j \in 1 .. Len(r) : i < j => r[j] \notin e
    BY <1>1, <1>2, <1>6, <2>1
  <2> QED BY <1>2, <2>1, <2>2 DEF Pending
<1>7. r # <<>>
  BY <1>1
<1> QED BY <1>1, <1>3, <1>4, <1>5, <1>6, <1>7 DEF r

\* and what taking the first one leaves.
LEMMA TailHas ==
  ASSUME NEW S, NEW s \in Seq(S), s # <<>>, NEW b, NEW e
  PROVE  /\ Head(s) \in S /\ Tail(s) \in Seq(S)
         /\ Has(s, e) <=> Head(s) \in e \/ Has(Tail(s), e)
         /\ Pending(s, b, e) <=> (Head(s) \in b /\ ~Has(Tail(s), e)) \/ Pending(Tail(s), b, e)
<1> DEFINE r == Tail(s)
           n == Len(s)
<1>1. /\ n \in Nat /\ n > 0 /\ Head(s) \in S /\ Head(s) = s[1] /\ r \in Seq(S)
      /\ Len(r) = n - 1 /\ \A i \in 1 .. n - 1 : r[i] = s[i + 1]
  BY LenProperties, EmptySeq, HeadTailProperties
<1> HIDE DEF r, n
<1>2. /\ \A i : i \in 1 .. n <=> i = 1 \/ (i - 1 \in 1 .. Len(r) /\ i \in Int)
      /\ \A i \in 2 .. n : s[i] = r[i - 1] /\ i - 1 \in 1 .. Len(r)
      /\ \A i \in 1 .. Len(r) : s[i + 1] = r[i] /\ i + 1 \in 1 .. n
  BY <1>1
<1>3. Has(s, e) <=> Head(s) \in e \/ Has(r, e)
  <2>1. ASSUME Has(s, e) PROVE Head(s) \in e \/ Has(r, e)
    <3>1. PICK i \in 1 .. n : s[i] \in e
      BY <2>1 DEF Has, n
    <3>2. CASE i = 1
      BY <1>1, <3>1, <3>2
    <3>3. CASE i \in 2 .. n
      BY <1>2, <3>1, <3>3 DEF Has
    <3> QED BY <1>1, <3>1, <3>2, <3>3
  <2>2. ASSUME Head(s) \in e PROVE Has(s, e)
    BY <1>1, <2>2 DEF Has, n
  <2>3. ASSUME Has(r, e) PROVE Has(s, e)
    BY <1>2, <2>3 DEF Has, n
  <2> QED BY <2>1, <2>2, <2>3
<1>4. ASSUME Pending(s, b, e)
      PROVE  (Head(s) \in b /\ ~Has(r, e)) \/ Pending(r, b, e)
  <2>1. PICK i \in 1 .. n : s[i] \in b /\ \A j \in 1 .. n : i < j => s[j] \notin e
    BY <1>4 DEF Pending, n
  <2>2. \A k \in 1 .. Len(r) : i < k + 1 => r[k] \notin e
    BY <1>1, <1>2, <2>1
  <2>3. CASE i = 1
    <3>1. \A k \in 1 .. Len(r) : r[k] \notin e
      BY <1>1, <2>2, <2>3
    <3> QED BY <1>1, <2>1, <2>3, <3>1 DEF Has
  <2>4. CASE i \in 2 .. n
    <3>1. i - 1 \in 1 .. Len(r) /\ r[i - 1] \in b
      BY <1>2, <2>1, <2>4
    <3>2. \A k \in 1 .. Len(r) : i - 1 < k => r[k] \notin e
      BY <1>1, <2>2
    <3> QED BY <3>1, <3>2 DEF Pending
  <2> QED BY <1>1, <2>1, <2>3, <2>4
<1>5. ASSUME Head(s) \in b, ~Has(r, e) PROVE Pending(s, b, e)
  <2>1. \A j \in 1 .. n : 1 < j => s[j] \notin e
    <3> SUFFICES ASSUME NEW j \in 1 .. n, 1 < j PROVE s[j] \notin e
      OBVIOUS
    <3>1. j \in 2 .. n
      BY <1>1
    <3> QED BY <1>2, <1>5, <3>1 DEF Has
  <2> QED BY <1>1, <1>5, <2>1 DEF Pending, n
<1>6. ASSUME Pending(r, b, e) PROVE Pending(s, b, e)
  <2>1. PICK i \in 1 .. Len(r) : r[i] \in b /\ \A j \in 1 .. Len(r) : i < j => r[j] \notin e
    BY <1>6 DEF Pending
  <2>2. \A j \in 1 .. n : i + 1 < j => s[j] \notin e
    <3> SUFFICES ASSUME NEW j \in 1 .. n, i + 1 < j PROVE s[j] \notin e
      OBVIOUS
    <3>1. j \in 2 .. n /\ i < j - 1
      BY <1>1, <2>1
    <3> QED BY <1>2, <2>1, <3>1
  <2> QED BY <1>2, <2>1, <2>2 DEF Pending, n
<1> QED BY <1>1, <1>3, <1>4, <1>5, <1>6 DEF r

\* nothing is added by messages that neither begin nor end anything,
LEMMA ConcatHas ==
  ASSUME NEW S, NEW s \in Seq(S), NEW t \in Seq(S), NEW b, NEW e,
         \A i \in 1 .. Len(t) : t[i] \notin b /\ t[i] \notin e
  PROVE  LET r == s \o t
         IN /\ r \in Seq(S) /\ Len(r) = Len(s) + Len(t)
            /\ s # <<>> => r # <<>> /\ r[1] = s[1]
            /\ Has(r, e) <=> Has(s, e)
            /\ Pending(r, b, e) => Pending(s, b, e)
<1> DEFINE r == s \o t
           n == Len(s)
           k == Len(t)
<1>1. /\ n \in Nat /\ k \in Nat /\ r \in Seq(S) /\ Len(r) = n + k
      /\ \A i \in 1 .. n + k : r[i] = IF i <= n THEN s[i] ELSE t[i - n]
  BY LenProperties, ConcatProperties
<1>2. s # <<>> => n > 0
  BY <1>1, EmptySeq
<1> HIDE DEF r, n, k
<1>3. /\ \A i \in 1 .. n : i \in 1 .. Len(r) /\ r[i] = s[i]
      /\ \A i \in 1 .. Len(r) : i \in 1 .. n \/ (r[i] \notin b /\ r[i] \notin e)
  <2>1. ASSUME NEW i \in 1 .. n PROVE i \in 1 .. Len(r) /\ r[i] = s[i]
    BY <1>1
  <2>2. ASSUME NEW i \in 1 .. Len(r), i \notin 1 .. n
        PROVE  r[i] \notin b /\ r[i] \notin e
    <3>1. r[i] = t[i - n] /\ i - n \in 1 .. k
      BY <1>1, <2>2
    <3> QED BY <3>1 DEF k
  <2> QED BY <2>1, <2>2
<1>4. Has(r, e) <=> Has(s, e)
  BY <1>3 DEF Has, n
<1>5. ASSUME Pending(r, b, e) PROVE Pending(s, b, e)
  <2>1. PICK i \in 1 .. Len(r) : r[i] \in b /\ \A j \in 1 .. Len(r) : i < j => r[j] \notin e
    BY <1>5 DEF Pending
  <2> QED BY <1>3, <2>1 DEF Pending, n
<1>6. ASSUME s # <<>> PROVE r # <<>> /\ r[1] = s[1]
  <2>1. 1 \in 1 .. n /\ Len(r) # 0
    BY <1>1, <1>2, <1>6
  <2> QED BY <1>3, <2>1
<1> QED BY <1>1, <1>4, <1>5, <1>6 DEF r, n, k

\* and nothing is lost with a message that does not end anything.
LEMMA RemoveAtHas ==
  ASSUME NEW S, NEW s \in Seq(S), NEW k \in 1 .. Len(s), NEW b, NEW e, s[k] \notin e
  PROVE  LET r == RemoveAt(s, k)
         IN /\ r \in Seq(S) /\ Len(r) = Len(s) - 1
            /\ \A i \in 1 .. Len(r) : r[i] = IF i < k THEN s[i] ELSE s[i + 1]
            /\ Has(r, e) <=> Has(s, e)
            /\ Pending(r, b, e) => Pending(s, b, e)
<1> DEFINE r == RemoveAt(s, k)
           n == Len(s)
           x == SubSeq(s, 1, k - 1)
           y == SubSeq(s, k + 1, n)
<1>1. n \in Nat /\ \A i \in 1 .. n : s[i] \in S
  BY LenProperties
<1>2. /\ x \in Seq(S) /\ Len(x) = k - 1
      /\ \A i \in 1 .. k - 1 : x[i] = s[i]
  BY <1>1, SubSeqProperties
<1>3. /\ y \in Seq(S) /\ Len(y) = n - k
      /\ \A i \in 1 .. n - k : y[i] = s[k + i]
  BY <1>1, SubSeqProperties
<1>4. r = x \o y
  BY DEF RemoveAt
<1> HIDE DEF r, x, y, n
<1>5. /\ r \in Seq(S) /\ Len(r) = (k - 1) + (n - k)
      /\ \A i \in 1 .. (k - 1) + (n - k) : r[i] = IF i <= k - 1 THEN x[i] ELSE y[i - (k - 1)]
  BY <1>2, <1>3, <1>4, ConcatProperties
<1>6. k \in 1 .. n
  BY DEF n
<1>7. Len(r) = n - 1
  BY <1>1, <1>5, <1>6
<1>8. \A i \in 1 .. Len(r) : r[i] = IF i < k THEN s[i] ELSE s[i + 1]
  <2> SUFFICES ASSUME NEW i \in 1 .. Len(r)
               PROVE  r[i] = IF i < k THEN s[i] ELSE s[i + 1]
    OBVIOUS
  <2>1. CASE i < k
    BY <1>1, <1>2, <1>5, <1>6, <1>7, <2>1
  <2>2. CASE ~(i < k)
    <3>1. r[i] = y[i - (k - 1)] /\ i - (k - 1) \in 1 .. n - k
      BY <1>1, <1>5, <1>6, <1>7, <2>2
    <3>2. y[i - (k - 1)] = s[k + (i - (k - 1))]
      BY <1>3, <3>1
    <3>3. k + (i - (k - 1)) = i + 1
      BY <1>1, <1>6, <1>7
    <3> QED BY <2>2, <3>1, <3>2, <3>3
  <2> QED BY <2>1, <2>2
<1>9. \A i \in 1 .. n : i # k =>
        LET j == IF i < k THEN i ELSE i - 1
        IN j \in 1 .. Len(r) /\ r[j] = s[i]
  <2> SUFFICES ASSUME NEW i \in 1 .. n, i # k, NEW j, j = IF i < k THEN i ELSE i - 1
               PROVE  j \in 1 .. Len(r) /\ r[j] = s[i]
    OBVIOUS
  <2>1. CASE i < k
    BY <1>1, <1>6, <1>7, <1>8, <2>1
  <2>2. CASE i > k
    <3>1. j = i - 1 /\ j \in 1 .. Len(r) /\ ~(j < k) /\ j + 1 = i
      BY <1>1, <1>6, <1>7, <2>2
    <3> QED BY <1>8, <3>1
  <2> QED BY <1>1, <1>6, <2>1, <2>2
<1>10. Has(r, e) <=> Has(s, e)
  <2>1. ASSUME Has(r, e) PROVE Has(s, e)
    <3>1. PICK i \in 1 .. Len(r) : r[i] \in e
      BY <2>1 DEF Has
    <3>2. i \in 1 .. n /\ i + 1 \in 1 .. n
      BY <1>1, <1>7
    <3> QED BY <1>8, <3>1, <3>2 DEF Has, n
  <2>2. ASSUME Has(s, e) PROVE Has(r, e)
    <3>1. PICK i \in 1 .. n : s[i] \in e
      BY <2>2 DEF Has, n
    <3> QED BY <1>9, <3>1 DEF Has
  <2> QED BY <2>1, <2>2
<1>11. ASSUME Pending(r, b, e) PROVE Pending(s, b, e)
  <2>1. PICK i \in 1 .. Len(r) : r[i] \in b /\ \A j \in 1 .. Len(r) : i < j => r[j] \notin e
    BY <1>11 DEF Pending
  <2>2. PICK g \in 1 .. n : g = (IF i < k THEN i ELSE i + 1)
    BY <1>1, <1>6, <1>7
  <2>3. s[g] \in b
    BY <1>8, <2>1, <2>2
  <2>4. ASSUME NEW j \in 1 .. n, g < j PROVE s[j] \notin e
    <3>1. CASE j = k
      BY <3>1
    <3>2. CASE j # k
      <4>1. PICK l \in 1 .. Len(r) : l = (IF j < k THEN j ELSE j - 1) /\ r[l] = s[j]
        BY <1>9, <3>2
      <4>2. i < l
        BY <1>1, <1>6, <1>7, <2>2, <2>4, <3>2, <4>1
      <4> QED BY <2>1, <4>1, <4>2
    <3> QED BY <3>1, <3>2
  <2> QED BY <2>3, <2>4 DEF Pending, n
<1> QED BY <1>5, <1>7, <1>8, <1>10, <1>11 DEF r, n

\* The first of a message is the only one.
LEMMA RemoveFirstIsAt ==
  ASSUME NEW S, NEW s \in Seq(S), NEW m,
         \A i, j \in 1 .. Len(s) : s[i] = m /\ s[j] = m => i = j
  PROVE  \/ RemoveFirst(s, m) = s
         \/ \E k \in 1 .. Len(s) : s[k] = m /\ RemoveFirst(s, m) = RemoveAt(s, k)
<1>1. CASE ~\E i \in 1 .. Len(s) : s[i] = m
  BY <1>1 DEF RemoveFirst
<1>2. ASSUME NEW k \in 1 .. Len(s), s[k] = m PROVE RemoveFirst(s, m) = RemoveAt(s, k)
  <2>1. {i \in 1 .. Len(s) : s[i] = m} = {k}
    BY <1>2
  <2>2. Min({k}) = k
    BY LenProperties DEF Min
  <2> QED BY <1>2, <2>1, <2>2 DEF RemoveFirst, SelectInSeq
<1> QED BY <1>1, <1>2

\* Half calls, transactions and profiles are records with the usual fields,
\* whatever these contain.
HalfForm(h) ==
  h = [st |-> h.st, model |-> h.model, user |-> h.user, npsm |-> h.npsm,
       peer |-> h.peer, timer |-> h.timer, tone |-> h.tone, q |-> h.q]
TransForm(t) ==
  /\ t = [h |-> t.h, nu |-> t.nu, cip |-> t.cip, line |-> t.line]
  /\ HalfForm(t.h)
ProfileForm(p) == p = [state |-> p.state, addr |-> p.addr]

\* The inductive invariant.  OneOwner needs that a line is not Idle while it
\* has a half call, because that is what SelectFacility looks at.
FormInv ==
  /\ ctx = [c \in Contexts |-> ctx[c]] /\ \A c \in Contexts : HalfForm(ctx[c])
  /\ profile = [u \in Users |-> profile[u]]
  /\ \A u \in Users : ProfileForm(profile[u]) /\ profile[u].addr \in Contexts \cup {Nil}

OwnerInv ==
  \A u \in Users, c \in Contexts :
    UserPort(c, u) => profile[u].addr = c /\ profile[u].state # "Idle"

ContextInv ==
  \A c \in Contexts :
    /\ ctx[c].st = "Free" => ctx[c] = NoCall
    /\ ctx[c].peer # c \/ ctx[c].peer = Nil
    /\ ctx[c].st = "Ready" /\ ctx[c].model = "Tbc" => ctx[c].user = Nil

IInv == FormInv /\ OwnerInv /\ ContextInv

-----------------------------------------------------------------------------
(* What handlers do to a transaction.  It is Fresh until a handler sets    *)
(* the state of the line or selects the user; after that it is Complete.   *)

Kept(c, t) ==
  /\ TransForm(t) /\ t.h.st # "Free"
  /\ t.h.peer = ctx[c].peer /\ t.h.model = ctx[c].model

Fresh(c, t) ==
  /\ Kept(c, t) /\ t.line = Nil /\ t.h.user = ctx[c].user
  /\ t.h.st = "Ready" => ctx[c].st = "Ready"

Complete(c, t) ==
  /\ Kept(c, t)
  /\ t.line # Nil => t.h.st = "Null"
  /\ t.h.user = ctx[c].user \/ (ctx[c].user = Nil /\ profile[t.h.user].state = "Idle")
  /\ t.h.st = "Ready" => ctx[c].st = "Ready" /\ t.h.user = ctx[c].user

\* A transaction starts fresh, with the half call of its context.
LEMMA BeginIsFresh ==
  ASSUME IInv, NEW c \in Contexts, ctx[c].st # "Free"
  PROVE  Fresh(c, Begin(c)) /\ Begin(c).h.st = ctx[c].st /\ Begin(c).h.npsm = ctx[c].npsm
<1>1. HalfForm(ctx[c])
  BY DEF IInv, FormInv
<1>2. ASSUME NEW h, HalfForm(h), NEW q
      PROVE  LET g == [h EXCEPT !.q = q]
             IN HalfForm(g) /\ g.st = h.st /\ g.npsm = h.npsm /\ g.peer = h.peer
                /\ g.model = h.model /\ g.user = h.user
  BY <1>2 DEF HalfForm
<1> DEFINE h == [ctx[c] EXCEPT !.q = Tail(@)]
<1>3. HalfForm(h) /\ h.st = ctx[c].st /\ h.npsm = ctx[c].npsm /\ h.peer = ctx[c].peer
      /\ h.model = ctx[c].model /\ h.user = ctx[c].user
  BY <1>1, <1>2
<1>4. Begin(c) = [h |-> h, nu |-> Nil, cip |-> Nil, line |-> Nil]
  BY DEF Begin
<1> HIDE DEF h
<1> QED BY <1>3, <1>4 DEF Fresh, Kept, TransForm

\* A handler may stop there.
LEMMA FreshIsComplete ==
  ASSUME NEW c, NEW t, Fresh(c, t)
  PROVE  Complete(c, t)
  BY DEF Fresh, Complete

\* It stays fresh when the half call changes its state,
LEMMA GoIsFresh ==
  ASSUME NEW c, NEW t, Fresh(c, t), NEW st, st \notin {"Free", "Ready"}
  PROVE  Fresh(c, Go(t, st)) /\ Go(t, st).h.st = st
  BY DEF Fresh, Kept, TransForm, HalfForm, Go

\* when a message is sent to the user,
LEMMA ToUserIsFresh ==
  ASSUME NEW c, NEW t, Fresh(c, t), NEW m
  PROVE  Fresh(c, ToUser(t, m)) /\ ToUser(t, m).h = t.h
  BY DEF Fresh, Kept, TransForm, HalfForm, ToUser

\* or to the other half,
LEMMA ToPeerIsFresh ==
  ASSUME NEW c, NEW t, Fresh(c, t), NEW m
  PROVE  Fresh(c, ToPeer(t, m)) /\ ToPeer(t, m).h = t.h
  BY DEF Fresh, Kept, TransForm, HalfForm, ToPeer

\* when the timer changes,
LEMMA TimerIsFresh ==
  ASSUME NEW c, NEW t, Fresh(c, t), NEW x
  PROVE  Fresh(c, [t EXCEPT !.h.timer = x]) /\ [t EXCEPT !.h.timer = x].h.st = t.h.st
  BY DEF Fresh, Kept, TransForm, HalfForm

\* or the treatment,
LEMMA ToneIsFresh ==
  ASSUME NEW c, NEW t, Fresh(c, t), NEW x
  PROVE  Fresh(c, [t EXCEPT !.h.tone = x])
  BY DEF Fresh, Kept, TransForm, HalfForm

\* or the state of the CIP protocol,
LEMMA NpsmIsFresh ==
  ASSUME NEW c, NEW t, Fresh(c, t), NEW x
  PROVE  Fresh(c, [t EXCEPT !.h.npsm = x]) /\ [t EXCEPT !.h.npsm = x].h.st = t.h.st
  BY DEF Fresh, Kept, TransForm, HalfForm

\* or the queue of messages,
LEMMA QueueIsFresh ==
  ASSUME NEW c, NEW t, Fresh(c, t), NEW x
  PROVE  /\ Fresh(c, [t EXCEPT !.h.q = x]) /\ [t EXCEPT !.h.q = x].h.st = t.h.st
         /\ [t EXCEPT !.h.q = x].h.npsm = t.h.npsm
  BY DEF Fresh, Kept, TransForm, HalfForm

\* hence when timers are started, cleared and stopped.
LEMMA TimersAreFresh ==
  ASSUME NEW c, NEW t, Fresh(c, t), NEW tid
  PROVE  /\ Fresh(c, StartTimer(t, tid)) /\ StartTimer(t, tid).h.st = t.h.st
         /\ Fresh(c, ClearTimer(t)) /\ ClearTimer(t).h.st = t.h.st
         /\ Fresh(c, StopTimer(t)) /\ StopTimer(t).h.st = t.h.st
         /\ Fresh(c, StopIamTimer(t)) /\ StopIamTimer(t).h.st = t.h.st
         /\ StopIamTimer(t).h.npsm = t.h.npsm
<1>1. Fresh(c, StartTimer(t, tid)) /\ StartTimer(t, tid).h.st = t.h.st
  BY TimerIsFresh DEF StartTimer
<1>2. ASSUME NEW u, Fresh(c, u) PROVE Fresh(c, ClearTimer(u)) /\ ClearTimer(u).h.st = u.h.st
  BY <1>2, TimerIsFresh DEF ClearTimer
<1>3. Fresh(c, StopTimer(t)) /\ StopTimer(t).h.st = t.h.st
  <2> DEFINE u == [t EXCEPT !.h.q = RemoveFirst(@, Timeout(t.h.timer))]
  <2>1. Fresh(c, u) /\ u.h.st = t.h.st
    BY QueueIsFresh
  <2>2. StopTimer(t) = ClearTimer(u)
    BY DEF StopTimer
  <2> HIDE DEF u
  <2> QED BY <2>1, <2>2, <1>2
<1>4. /\ Fresh(c, StopIamTimer(t)) /\ StopIamTimer(t).h.st = t.h.st
      /\ StopIamTimer(t).h.npsm = t.h.npsm
  <2> DEFINE u == [t EXCEPT !.h.q = RemoveFirst(@, Timeout("Iam"))]
  <2>1. Fresh(c, u) /\ u.h.st = t.h.st /\ u.h.npsm = t.h.npsm
    BY QueueIsFresh
  <2>2. StopIamTimer(t) = IF t.h.npsm # "IamSent" THEN t ELSE u
    BY DEF StopIamTimer
  <2> HIDE DEF u
  <2> QED BY <2>1, <2>2
<1> QED BY <1>1, <1>2, <1>3, <1>4

\* Clearing a call sets the line, and is the last thing done.
LEMMA ClearCallIsComplete ==
  ASSUME NEW c, NEW t, Fresh(c, t), NEW cause
  PROVE  Complete(c, ClearCall(t, cause))
<1> DEFINE t1 == IF HasUser(t) THEN SetLineState(ToUser(t, Release), "Idle") ELSE t
           t2 == IF t.h.npsm = "Idle" THEN t1 ELSE ToPeer(t1, Cip("REL", cause))
           Changed(x) == Kept(c, x) /\ x.h = t.h
<1>1. Changed(ToUser(t, Release))
  BY ToUserIsFresh DEF Fresh
<1>2. Changed(t1)
  BY <1>1 DEF Fresh, Kept, TransForm, SetLineState
<1>3. Changed(t2)
  BY <1>2 DEF Kept, TransForm, ToPeer
<1>4. Complete(c, Go(t2, "Null"))
  BY <1>3 DEF Fresh, Complete, Kept, TransForm, HalfForm, Go
<1> QED BY <1>4 DEF ClearCall

\* Releasing a call clears it or applies treatment.
LEMMA ReleaseCallIsComplete ==
  ASSUME NEW c, NEW t, Fresh(c, t), NEW cause
  PROVE  /\ Complete(c, ReleaseCall(t, cause))
         /\ \A i : Fresh(c, ApplyTone(t, i))
<1>1. ASSUME NEW i PROVE Fresh(c, ApplyTone(t, i))
  <2> DEFINE t1 == [Go(t, "Ex") EXCEPT !.h.tone = i]
  <2>1. Fresh(c, t1)
    BY GoIsFresh, ToneIsFresh
  <2> QED BY <2>1, TimersAreFresh DEF ApplyTone
<1>2. Complete(c, FirstTreatment(t, cause))
  BY <1>1, ClearCallIsComplete, FreshIsComplete DEF FirstTreatment
<1> QED BY <1>1, <1>2, ClearCallIsComplete DEF ReleaseCall

\* So does the end of a treatment, which may lock out the line.
LEMMA NextTreatmentIsComplete ==
  ASSUME NEW c, NEW t, Fresh(c, t)
  PROVE  Complete(c, NextTreatment(t))
<1> DEFINE t1 == ToUser(t, Lockout)
<1>1. Fresh(c, t1)
  BY ToUserIsFresh
<1> HIDE DEF t1
<1> DEFINE t2 == SetLineState(t1, "Lockout")
<1>a. Kept(c, t2) /\ t2.h = t1.h
  BY <1>1 DEF Fresh, Kept, TransForm, SetLineState
<1> HIDE DEF t2
<1>2. Complete(c, Go(t2, "Null"))
  BY <1>1, <1>a DEF Fresh, Complete, Kept, TransForm, HalfForm, Go
<1> USE DEF t2
<1> USE DEF t1
<1> QED BY <1>2, ReleaseCallIsComplete, FreshIsComplete DEF NextTreatment

\* The default handler of a message completes the transaction.
LEMMA AnalyzeMsgIsComplete ==
  ASSUME NEW c, NEW t, Fresh(c, t), NEW sig
  PROVE  Complete(c, AnalyzeMsg(t, sig))
<1>1. Complete(c, Suspend(t))
  BY GoIsFresh, FreshIsComplete DEF Suspend
<1> QED BY <1>1, ReleaseCallIsComplete DEF AnalyzeMsg

-----------------------------------------------------------------------------
(* The end of a transaction.                                               *)

\* A new context is free, and nothing refers to it.
LEMMA NewContextIsUnused ==
  ASSUME Unused # {}
  PROVE  /\ NewContext \in Contexts /\ ctx[NewContext].st = "Free"
         /\ \A u \in Users : profile[u].addr # NewContext
         /\ \A d \in Contexts : ctx[d].peer # NewContext
  BY DEF NewContext, Unused

\* What the end of a transaction does to the context c that handled it, and
\* to the others.
LEMMA AfterIsForm ==
  ASSUME NEW c, NEW t, Complete(c, t), NEW new
  PROVE  LET h == AfterTransaction(t, new)
         IN /\ HalfForm(h) /\ h.peer \in {Nil, new, ctx[c].peer}
            /\ h.st = "Free" => h = NoCall
            /\ t.h.st = "Null" => h.st = "Free"
            /\ t.h.st # "Null" => h.st = t.h.st /\ h.user = t.h.user /\ h.model = ctx[c].model
<1>1. CASE t.h.st = "Null"
  BY <1>1 DEF AfterTransaction, NoCall, HalfForm
<1>2. CASE t.h.st # "Null"
  BY <1>2 DEF AfterTransaction, Complete, Kept, TransForm, HalfForm
<1> QED BY <1>1, <1>2

\* A half call for the user of a transaction can only be the one it is about.
LEMMA OnlyOwner ==
  ASSUME IInv, NEW c \in Contexts, ctx[c].st # "Free", NEW t, Complete(c, t),
         t.h.user \in Users, NEW d \in Contexts, UserPort(d, t.h.user)
  PROVE  d = c
<1>1. profile[t.h.user].addr = d /\ profile[t.h.user].state # "Idle"
  BY DEF IInv, OwnerInv
<1>2. ctx[c].user = t.h.user
  BY <1>1 DEF Complete
<1> QED BY <1>1, <1>2, CallAssumption DEF IInv, OwnerInv, UserPort

\* What the end of a transaction does to the profile of its user.
LEMMA ProfileAfterIsForm ==
  ASSUME IInv, NEW c \in Contexts, ctx[c].st # "Free", NEW t, Complete(c, t),
         t.h.user \in Users
  PROVE  LET p == ProfileAfter(c, t)
         IN /\ ProfileForm(p) /\ p.addr \in Contexts \cup {Nil}
            /\ t.h.st # "Null" => p.addr = c /\ p.state # "Idle"
<1> DEFINE u == t.h.user
           p0 == profile[u]
           p1 == IF ctx[c].user = Nil THEN SetObjAddr(p0, u, c) ELSE p0
           p2 == SetLine(p1, c, t.line)
<1>1. ProfileForm(p0) /\ p0.addr \in Contexts \cup {Nil}
  BY DEF IInv, FormInv
<1>2. p1.addr = c /\ p1.state # "Idle" /\ ProfileForm(p1)
  <2>1. CASE ctx[c].user = Nil
    <3>1. ~UserPort(p0.addr, u)
      BY <1>1, <2>1, OnlyOwner, CallAssumption DEF UserPort
    <3> QED BY <2>1, <3>1 DEF SetObjAddr, ProfileForm
  <2>2. CASE ctx[c].user # Nil
    <3>1. ctx[c].user = u
      BY <2>2 DEF Complete
    <3>2. UserPort(c, u)
      BY <3>1, CallAssumption DEF UserPort
    <3> QED BY <1>1, <2>2, <3>2 DEF IInv, OwnerInv
  <2> QED BY <2>1, <2>2
<1>3. ProfileForm(p2) /\ p2.addr = c
  BY <1>2 DEF SetLine, ProfileForm
<1>4. CASE t.h.st = "Null"
  BY <1>3, <1>4 DEF ProfileAfter, ClearObjAddr, ProfileForm
<1>5. CASE t.h.st # "Null"
  <2>1. t.line = Nil
    BY <1>5 DEF Complete
  <2>2. p2 = p1
    BY <2>1 DEF SetLine
  <2>3. ProfileAfter(c, t) = p2
    BY <1>5 DEF ProfileAfter
  <2> QED BY <1>2, <1>5, <2>2, <2>3
<1> QED BY <1>4, <1>5

\* A context that receives a message, or is created for an IAM.
LEMMA QueuedIsForm ==
  ASSUME NEW h, HalfForm(h), NEW q
  PROVE  LET g == [h EXCEPT !.q = q]
         IN /\ HalfForm(g) /\ g.st = h.st /\ g.user = h.user
            /\ g.peer = h.peer /\ g.model = h.model
  BY DEF HalfForm

\* A terminating half call that was just created has no user yet.
LEMMA TbcIsForm ==
  ASSUME NEW c, NEW m
  PROVE  LET g == Tbc(c, m)
         IN HalfForm(g) /\ g.st = "Ready" /\ g.user = Nil /\ g.peer = c
<1> DEFINE g1 == [NoCall EXCEPT !.st = "Ready"]
           g2 == [g1 EXCEPT !.model = "Tbc"]
           g3 == [g2 EXCEPT !.peer = c]
           g4 == [g3 EXCEPT !.q = <<m>>]
<1>1. HalfForm(g1) /\ g1.st = "Ready" /\ g1.user = Nil /\ g1.peer = Nil
  BY DEF NoCall, HalfForm
<1> HIDE DEF g1
<1>2. /\ HalfForm(g2) /\ g2.st = "Ready" /\ g2.user = Nil /\ g2.peer = Nil
      /\ g2.model = "Tbc"
  BY <1>1 DEF HalfForm
<1> HIDE DEF g2
<1>3. HalfForm(g3) /\ g3.st = "Ready" /\ g3.user = Nil /\ g3.peer = c
  BY <1>2 DEF HalfForm
<1> HIDE DEF g3
<1>4. HalfForm(g4) /\ g4.st = "Ready" /\ g4.user = Nil /\ g4.peer = c
  BY <1>3 DEF HalfForm
<1>5. Tbc(c, m) = g4
  BY DEF Tbc, g1, g2, g3
<1> QED BY <1>4, <1>5

\* An originating half call that was just created has one.
LEMMA ObcIsForm ==
  ASSUME NEW u, NEW m
  PROVE  LET g == Obc(u, m)
         IN HalfForm(g) /\ g.st = "Ready" /\ g.user = u /\ g.peer = Nil /\ g.model = "Obc"
<1> DEFINE g1 == [NoCall EXCEPT !.st = "Ready"]
           g2 == [g1 EXCEPT !.model = "Obc"]
           g3 == [g2 EXCEPT !.user = u]
           g4 == [g3 EXCEPT !.q = <<m>>]
<1>1. HalfForm(g1) /\ g1.st = "Ready" /\ g1.user = Nil /\ g1.peer = Nil
  BY DEF NoCall, HalfForm
<1> HIDE DEF g1
<1>2. /\ HalfForm(g2) /\ g2.st = "Ready" /\ g2.user = Nil /\ g2.peer = Nil
      /\ g2.model = "Obc"
  BY <1>1 DEF HalfForm
<1> HIDE DEF g2
<1>3. HalfForm(g3) /\ g3.st = "Ready" /\ g3.user = u /\ g3.peer = Nil /\ g3.model = "Obc"
  BY <1>2 DEF HalfForm
<1> HIDE DEF g3
<1>4. HalfForm(g4) /\ g4.st = "Ready" /\ g4.user = u /\ g4.peer = Nil /\ g4.model = "Obc"
  BY <1>3 DEF HalfForm
<1>5. Obc(u, m) = g4
  BY DEF Obc, g1, g2, g3
<1> QED BY <1>4, <1>5

\* The end of a complete transaction preserves the invariant.
LEMMA EndOfTransactionKeepsIInv ==
  ASSUME IInv, NEW c \in Contexts, ctx[c].st # "Free", NEW t, Complete(c, t),
         EndOfTransaction(c, t)
  PROVE  IInv'
<1> DEFINE msgs == NetMsgs(t)
           iam  == msgs # <<>> /\ msgs[1].sig = "IAM"
           new  == IF iam THEN NewContext ELSE Nil
           p    == t.h.peer
           h    == AfterTransaction(t, new)
           mine == [ctx EXCEPT ![c] = h]
           Queued == ~iam /\ msgs # <<>> /\ p # Nil /\ ctx[p].peer = c /\ NetPort(ctx[p])
<1>1. /\ HalfForm(h) /\ h.peer \in {Nil, new, ctx[c].peer}
      /\ h.st = "Free" => h = NoCall
      /\ t.h.st = "Null" => h.st = "Free"
      /\ t.h.st # "Null" => h.st = t.h.st /\ h.user = t.h.user /\ h.model = ctx[c].model
  BY AfterIsForm
<1>2. iam => new \in Contexts /\ ctx[new].st = "Free" /\ new # c
  BY NewContextIsUnused DEF EndOfTransaction
<1>3. ctx' = CASE iam -> [mine EXCEPT ![new] = Tbc(c, msgs[1])]
               [] Queued -> [mine EXCEPT ![p].q = @ \o msgs]
               [] OTHER -> mine
  BY DEF EndOfTransaction
<1>4. ctx[c].peer # c \/ ctx[c].peer = Nil
  BY DEF IInv, ContextInv
<1>5. p = ctx[c].peer
  BY DEF Complete, Kept
<1>6. ctx = [d \in Contexts |-> ctx[d]] /\ \A d \in Contexts : HalfForm(ctx[d])
  BY DEF IInv, FormInv
<1> HIDE DEF msgs, new, h, p
<1>7. /\ ctx' = [d \in Contexts |-> ctx'[d]] /\ ctx'[c] = h
      /\ \A d \in Contexts \ {c} :
           \/ ctx'[d] = ctx[d]
           \/ iam /\ d = new /\ ctx'[d] = Tbc(c, msgs[1])
           \/ NetPort(ctx[d]) /\ ctx'[d] = [ctx[d] EXCEPT !.q = @ \o msgs]
  <2>1. CASE iam
    BY <1>2, <1>3, <1>6, <2>1
  <2>2. CASE Queued
    BY <1>3, <1>4, <1>5, <1>6, <2>2
  <2>3. CASE ~iam /\ ~Queued
    BY <1>3, <1>6, <2>3
  <2> QED BY <2>1, <2>2, <2>3
<1>8. new = Nil \/ (new \in Contexts /\ new # c)
  BY <1>2 DEF new
<1>11. \A d \in Contexts : ctx[d].st = "Free" => ~NetPort(ctx[d])
  BY DEF IInv, ContextInv, NetPort, NoCall
<1>12. \A d \in Contexts \ {c} :
         \/ /\ HalfForm(ctx'[d]) /\ ctx'[d].st = ctx[d].st /\ ctx'[d].user = ctx[d].user
            /\ ctx'[d].peer = ctx[d].peer /\ ctx'[d].model = ctx[d].model
            /\ ctx[d].st = "Free" => ctx'[d] = ctx[d]
         \/ /\ HalfForm(ctx'[d]) /\ ctx'[d].st = "Ready" /\ ctx'[d].user = Nil
            /\ ctx'[d].peer = c
  <2> SUFFICES ASSUME NEW d \in Contexts \ {c}
               PROVE  \/ /\ HalfForm(ctx'[d]) /\ ctx'[d].st = ctx[d].st
                         /\ ctx'[d].user = ctx[d].user /\ ctx'[d].peer = ctx[d].peer
                         /\ ctx'[d].model = ctx[d].model
                         /\ ctx[d].st = "Free" => ctx'[d] = ctx[d]
                      \/ /\ HalfForm(ctx'[d]) /\ ctx'[d].st = "Ready"
                         /\ ctx'[d].user = Nil /\ ctx'[d].peer = c
    OBVIOUS
  <2>1. CASE ctx'[d] = ctx[d]
    BY <1>6, <2>1
  <2>2. CASE ctx'[d] = Tbc(c, msgs[1])
    BY <2>2, TbcIsForm
  <2>3. CASE NetPort(ctx[d]) /\ ctx'[d] = [ctx[d] EXCEPT !.q = @ \o msgs]
    BY <1>6, <1>11, <2>3, QueuedIsForm
  <2> QED BY <1>7, <2>1, <2>2, <2>3
<1>13. \/ /\ t.h.user \in Users
          /\ profile' = [profile EXCEPT ![t.h.user] = ProfileAfter(c, t)]
       \/ t.h.user \notin Users /\ profile' = profile
  <2>1. profile = [u \in Users |-> profile[u]]
    BY DEF IInv, FormInv
  <2>2. CASE HasUser(t)
    BY <2>1, <2>2 DEF EndOfTransaction
  <2>3. CASE ~HasUser(t)
    BY <2>3, CallAssumption DEF EndOfTransaction, HasUser
  <2> QED BY <2>2, <2>3
<1>14. FormInv'
  <2>1. \A d \in Contexts : HalfForm(ctx'[d])
    BY <1>1, <1>7, <1>12
  <2>2. profile' = [u \in Users |-> profile'[u]]
    BY <1>13 DEF IInv, FormInv
  <2>3. ASSUME NEW u \in Users
        PROVE  ProfileForm(profile'[u]) /\ profile'[u].addr \in Contexts \cup {Nil}
    BY <1>13, ProfileAfterIsForm DEF IInv, FormInv
  <2> QED BY <1>7, <2>1, <2>2, <2>3 DEF FormInv, HalfForm, ProfileForm
<1>15. OwnerInv'
  <2> SUFFICES ASSUME NEW u \in Users, NEW d \in Contexts,
                      ctx'[d].st # "Free", ctx'[d].user = u
               PROVE  profile'[u].addr = d /\ profile'[u].state # "Idle"
    BY DEF OwnerInv, UserPort
  <2>1. CASE d = c
    <3>1. t.h.st # "Null" /\ t.h.user = u
      BY <1>1, <1>7, <2>1
    <3>2. ProfileAfter(c, t).addr = c /\ ProfileAfter(c, t).state # "Idle"
      BY <3>1, ProfileAfterIsForm
    <3> QED BY <1>13, <2>1, <3>1, <3>2 DEF IInv, FormInv
  <2>2. CASE d # c
    <3>1. UserPort(d, u)
      BY <1>12, <2>2, CallAssumption DEF UserPort
    <3>2. u # t.h.user
      BY <2>2, <3>1, OnlyOwner
    <3>3. profile'[u] = profile[u]
      BY <1>13, <3>2 DEF IInv, FormInv
    <3> QED BY <3>1, <3>3 DEF IInv, OwnerInv
  <2> QED BY <2>1, <2>2
<1>16. ContextInv'
  <2> SUFFICES ASSUME NEW d \in Contexts
               PROVE  /\ ctx'[d].st = "Free" => ctx'[d] = NoCall
                      /\ ctx'[d].peer # d \/ ctx'[d].peer = Nil
                      /\ ctx'[d].st = "Ready" /\ ctx'[d].model = "Tbc"
                           => ctx'[d].user = Nil
    BY DEF ContextInv, NoCall
  <2>1. CASE d = c
    <3>1. h.st = "Ready" => ctx[c].st = "Ready" /\ h.user = ctx[c].user
      BY <1>1 DEF Complete
    <3>2. h.st = "Ready" => h.model = ctx[c].model
      BY <1>1
    <3> QED BY <1>1, <1>4, <1>7, <1>8, <2>1, <3>1, <3>2 DEF IInv, ContextInv
  <2>2. CASE d # c
    BY <1>12, <2>2 DEF IInv, ContextInv
  <2> QED BY <2>1, <2>2
<1> QED BY <1>14, <1>15, <1>16 DEF IInv

-----------------------------------------------------------------------------
(* What queues hold, what half calls are like, and why circuits ring.      *)

RingOns  == {RingOn}
Stops    == {RingOff, Release}
Offhooks == {User("Offhook")}
Onhooks  == {User("Onhook")}

ShelfMsgs == {RingOn, RingOff, DigitsOn, DigitsOff, Lockout, Release}
UserMsgSet == {User("Offhook"), User("Onhook"), User("Alerting")} \cup {Digits(d) : d \in Dialable}
CipMsgs ==
  {Cip("IAM", u) : u \in Users} \cup {Cip("REL", cause) : cause \in {ToneCause, IdleCause}}
    \cup {Cip(sig, Nil) : sig \in {"EOS", "ALT", "ANM", "SUS", "RES"}}
Timeouts == {Timeout(tid) : tid \in TimerIds}
Msgs == UserMsgSet \cup CipMsgs \cup Timeouts

\* The states in which a half call presents a call, those in which a timer
\* runs, and those that only its user or the other half ends.
Presenting == {"Pc", "Ta"}
Timed      == {"Ci", "Pc", "Ta", "Ls", "Ex"}
Attended   == {"Ci", "Sc", "Oa", "Ac", "Rs"}

\* The states of the CIP protocol in which the other half sent the IAM.
Terminating == {"Idle", "IamRcvd", "EosSent", "AltSent", "AnmSent", "SusSent"}

\* Circuits are records with the usual fields, and queues hold messages.
Fields(k) ==
  k = [state |-> k.state, offhook |-> k.offhook, ringing |-> k.ringing,
       digits |-> k.digits]
CircuitForm(k) == Fields(k) /\ k.offhook \in BOOLEAN /\ k.ringing \in BOOLEAN

MsgsInv ==
  /\ circuit = [u \in Users |-> circuit[u]] /\ \A u \in Users : CircuitForm(circuit[u])
  /\ toShelf \in [Users -> Seq(ShelfMsgs)] /\ toCall \in [Users -> Seq(UserMsgSet)]
  /\ \A c \in Contexts : ctx[c].q \in Seq(Msgs)

\* A half call that has been served, with its CIP protocol in state npsm.
ShapeOf(h, npsm) ==
  /\ h.st \in Timed \cup Attended
  /\ h.user \in Users
  /\ h.st \in {"Pc", "Ta", "Ls"} => h.model = "Tbc"
  /\ h.st = "Ci" => h.model = "Obc"
  /\ h.st \in {"Ci", "Ex"} => npsm = "Idle"
  /\ h.model = "Tbc" => npsm \in Terminating
  /\ h.timer \in TimerIds \cup {Nil}
  /\ h.st \in Timed => h.timer # Nil

\* One that has yet to be served has its first message, and an originating
\* one has heard from nobody but its user.
NewObc(h) ==
  /\ h.model = "Obc" /\ h.user \in Users
  /\ \A i \in 1 .. Len(h.q) : h.q[i].port = "U"
NewTbc(h) ==
  /\ h.model = "Tbc" /\ h.user = Nil /\ h.q[1].sig = "IAM"
  /\ \A i \in 1 .. Len(h.q) : h.q[i].port = "N"
ReadyOf(h) ==
  /\ h.st = "Ready" /\ h.q # <<>> /\ h.npsm = "Idle" /\ h.timer = Nil
  /\ NewObc(h) \/ NewTbc(h)

ShapeInv ==
  \A c \in Contexts : Live(c) => ReadyOf(ctx[c]) \/ ShapeOf(ctx[c], ctx[c].npsm)

\* At most one timeout of a timer is queued.
Single(q) ==
  \A i, j \in 1 .. Len(q) : q[i] \in Timeouts /\ q[i] = q[j] => i = j
TimeoutInv == \A c \in Contexts : Single(ctx[c].q)

Presented(u) == \E c \in Contexts : UserPort(c, u) /\ ctx[c].st \in Presenting

RingInv ==
  \A u \in Users :
    /\ circuit[u].ringing => Presented(u) \/ Has(toShelf[u], Stops)
    /\ Pending(toShelf[u], RingOns, Stops) => Presented(u)

\* The user is offhook, or there is an onhook on the way.
Leaves(u) == circuit[u].offhook \/ Has(toCall[u], Onhooks)

UserInv ==
  /\ \A u \in Users : Pending(toCall[u], Offhooks, Onhooks) => circuit[u].offhook
  /\ \A u \in Users, c \in Contexts :
       UserPort(c, u) =>
         /\ Pending(ctx[c].q, Offhooks, Onhooks) => Leaves(u)
         /\ ctx[c].st \in Attended => Leaves(u) \/ Has(ctx[c].q, Onhooks)

CallInv == IInv /\ MsgsInv /\ ShapeInv /\ TimeoutInv /\ RingInv /\ UserInv

\* A queue from which only timeouts were removed.
Trimmed(s, r) ==
  /\ r \in Seq(Msgs) /\ Single(r)
  /\ Has(r, Onhooks) <=> Has(s, Onhooks)
  /\ Pending(r, Offhooks, Onhooks) => Pending(s, Offhooks, Onhooks)

\* What a transaction has done before its outcome is decided, and the outcome.
Begun(c, t) ==
  /\ Fresh(c, t) /\ t.h.st = ctx[c].st
  /\ t.nu \in {Nil, DigitsOff} /\ t.cip = Nil
  /\ t.h.timer \in TimerIds \cup {Nil}
  /\ Trimmed(Tail(ctx[c].q), t.h.q)

Sound(c, t) ==
  /\ t.nu \in ShelfMsgs \cup {Nil} /\ t.cip \in CipMsgs \cup {Nil}
  /\ t.nu = RingOn => t.h.st = "Pc"
  /\ ctx[c].st \in Presenting /\ t.h.st \notin Presenting /\ HasUser(t) => t.nu \in Stops
  /\ t.h.st = "Null" \/ ShapeOf(t.h, NetState(t))
  /\ Trimmed(Tail(ctx[c].q), t.h.q)
  /\ t.h.st \in Attended => \/ Head(ctx[c].q) \in Offhooks
                            \/ ctx[c].st \in Attended /\ Head(ctx[c].q) \notin Onhooks

\* Messages to a half call are told apart by their signals.
LEMMA MsgFacts ==
  ASSUME NEW m \in Msgs
  PROVE  /\ m.port \in {"U", "N"}
         /\ m \in Offhooks <=> m.sig = "Offhook"
         /\ m \in Onhooks <=> m.sig = "Onhook"
         /\ m \in Timeouts <=> m.sig = "Timeout"
         /\ m \in Timeouts => m.arg \in TimerIds
         /\ m.sig \in {"Offhook", "Onhook"} => m.port = "U"
         /\ m.sig = "Digits" => m.arg \in Dialable
         /\ m.sig = "IAM" => m.port = "N" /\ m.arg \in Users
         /\ m.sig = "REL" => m.arg \in {ToneCause, IdleCause}
<1>1. CASE m \in UserMsgSet
  BY <1>1 DEF UserMsgSet, User, Digits, Msg, Offhooks, Onhooks, Timeouts, Timeout
<1>2. CASE m \in CipMsgs
  BY <1>2 DEF CipMsgs, Cip, User, Msg, Offhooks, Onhooks, Timeouts, Timeout
<1>3. CASE m \in Timeouts
  BY <1>3 DEF User, Msg, Offhooks, Onhooks, Timeouts, Timeout, TimerPort
<1> QED BY <1>1, <1>2, <1>3 DEF Msgs

\* Messages between half calls are neither those of a user nor timeouts.
LEMMA CipFacts ==
  ASSUME NEW m \in CipMsgs
  PROVE  m \in Msgs /\ m.port = "N" /\ m \notin Offhooks /\ m \notin Onhooks
         /\ m \notin Timeouts
<1>1. m \in Msgs
  BY DEF Msgs
<1>2. m.port = "N" /\ m.sig \notin {"Offhook", "Onhook", "Timeout"}
  BY DEF CipMsgs, Cip, Msg
<1> QED BY <1>1, <1>2, MsgFacts

\* Removing the timeout of a timer trims a queue.
LEMMA RemoveTimeoutTrims ==
  ASSUME NEW s, NEW r, Trimmed(s, r), NEW tid
  PROVE  Trimmed(s, RemoveFirst(r, Timeout(tid)))
<1> DEFINE m == Timeout(tid)
           x == RemoveFirst(r, m)
<1>1. r \in Seq(Msgs) /\ Single(r)
  BY DEF Trimmed
<1>2. /\ \A i \in 1 .. Len(r) : r[i] \in Msgs
      /\ Len(r) \in Nat
  BY <1>1, LenProperties
<1>3. m.sig = "Timeout"
  BY DEF Timeout, Msg
<1>4. ASSUME NEW i \in 1 .. Len(r), r[i] = m PROVE r[i] \in Timeouts /\ r[i] \notin Onhooks
  <2> HIDE DEF m
  <2> QED BY <1>2, <1>3, <1>4, MsgFacts
<1> HIDE DEF m
<1>5. \A i, j \in 1 .. Len(r) : r[i] = m /\ r[j] = m => i = j
  BY <1>1, <1>4 DEF Single
<1>6. CASE x = r
  BY <1>6 DEF Trimmed, m
<1>7. ASSUME NEW k \in 1 .. Len(r), r[k] = m, x = RemoveAt(r, k)
      PROVE  Trimmed(s, x)
  <2>1. r[k] \notin Onhooks
    BY <1>4, <1>7
  <2>2. /\ x \in Seq(Msgs) /\ Len(x) = Len(r) - 1
        /\ \A i \in 1 .. Len(x) : x[i] = IF i < k THEN r[i] ELSE r[i + 1]
        /\ Has(x, Onhooks) <=> Has(r, Onhooks)
        /\ Pending(x, Offhooks, Onhooks) => Pending(r, Offhooks, Onhooks)
    BY <1>1, <1>7, <2>1, RemoveAtHas
  <2> HIDE DEF x
  <2>3. Single(x)
    <3> SUFFICES ASSUME NEW i \in 1 .. Len(x), NEW j \in 1 .. Len(x),
                        x[i] \in Timeouts, x[i] = x[j]
                 PROVE  i = j
      BY DEF Single
    <3>1. PICK a \in 1 .. Len(r) : a = (IF i < k THEN i ELSE i + 1)
      BY <1>2, <2>2
    <3>2. PICK b \in 1 .. Len(r) : b = (IF j < k THEN j ELSE j + 1)
      BY <1>2, <2>2
    <3>3. r[a] = x[i] /\ r[b] = x[j]
      BY <2>2, <3>1, <3>2
    <3>4. a = b
      BY <1>1, <3>3 DEF Single
    <3> QED BY <1>2, <2>2, <3>1, <3>2, <3>4
  <2> QED BY <2>2, <2>3 DEF Trimmed
<1> QED BY <1>1, <1>5, <1>6, <1>7, RemoveFirstIsAt DEF m

-----------------------------------------------------------------------------
\* The fields of a transaction that the invariant is about.
Is(t, nu, cip, st, user, model, npsm, timer, q) ==
  /\ TransForm(t) /\ t.nu = nu /\ t.cip = cip
  /\ t.h.st = st /\ t.h.user = user /\ t.h.model = model /\ t.h.npsm = npsm
  /\ t.h.timer = timer /\ t.h.q = q

\* What the steps of handlers do to these fields.
LEMMA GoIs ==
  ASSUME NEW t, TransForm(t), NEW x
  PROVE  Is(Go(t, x), t.nu, t.cip, x, t.h.user, t.h.model, t.h.npsm, t.h.timer, t.h.q)
  BY DEF Is, TransForm, HalfForm, Go

\* selecting the user,
LEMMA UserIs ==
  ASSUME NEW t, TransForm(t), NEW x
  PROVE  Is([t EXCEPT !.h.user = x],
            t.nu, t.cip, t.h.st, x, t.h.model, t.h.npsm, t.h.timer, t.h.q)
  BY DEF Is, TransForm, HalfForm

\* the CIP protocol,
LEMMA NpsmIs ==
  ASSUME NEW t, TransForm(t), NEW x
  PROVE  Is([t EXCEPT !.h.npsm = x],
            t.nu, t.cip, t.h.st, t.h.user, t.h.model, x, t.h.timer, t.h.q)
  BY DEF Is, TransForm, HalfForm

\* the tone,
LEMMA ToneIs ==
  ASSUME NEW t, TransForm(t), NEW x
  PROVE  Is([t EXCEPT !.h.tone = x],
            t.nu, t.cip, t.h.st, t.h.user, t.h.model, t.h.npsm, t.h.timer, t.h.q)
  BY DEF Is, TransForm, HalfForm

\* the queue,
LEMMA QueueIs ==
  ASSUME NEW t, TransForm(t), NEW x
  PROVE  Is([t EXCEPT !.h.q = x],
            t.nu, t.cip, t.h.st, t.h.user, t.h.model, t.h.npsm, t.h.timer, x)
  BY DEF Is, TransForm, HalfForm

\* starting a timer (StartTimer),
LEMMA StartTimerIs ==
  ASSUME NEW t, TransForm(t), NEW x
  PROVE  Is(StartTimer(t, x),
            t.nu, t.cip, t.h.st, t.h.user, t.h.model, t.h.npsm, x, t.h.q)
  BY DEF Is, TransForm, HalfForm, StartTimer

\* forgetting it,
LEMMA ClearTimerIs ==
  ASSUME NEW t, TransForm(t)
  PROVE  Is(ClearTimer(t),
            t.nu, t.cip, t.h.st, t.h.user, t.h.model, t.h.npsm, Nil, t.h.q)
  BY DEF Is, TransForm, HalfForm, ClearTimer

\* a message to the circuit (SendSignal, SendRelease),
LEMMA ToUserIs ==
  ASSUME NEW t, TransForm(t), NEW x
  PROVE  Is(ToUser(t, x),
            IF t.nu = Release THEN Release ELSE x,
            t.cip, t.h.st, t.h.user, t.h.model, t.h.npsm, t.h.timer, t.h.q)
  BY DEF Is, TransForm, HalfForm, ToUser

\* one to the other half (BuildCipRel and the like),
LEMMA ToPeerIs ==
  ASSUME NEW t, TransForm(t), NEW x
  PROVE  Is(ToPeer(t, x),
            t.nu, x, t.h.st, t.h.user, t.h.model, t.h.npsm, t.h.timer, t.h.q)
  BY DEF Is, TransForm, HalfForm, ToPeer

\* and the state of the line (SetState).
LEMMA SetLineIs ==
  ASSUME NEW t, TransForm(t), NEW x
  PROVE  Is(SetLineState(t, x),
            t.nu, t.cip, t.h.st, t.h.user, t.h.model, t.h.npsm, t.h.timer, t.h.q)
  BY DEF Is, TransForm, HalfForm, SetLineState

\* The marks that a Supervise carries tell messages to a circuit apart.
LEMMA ShelfFacts ==
  /\ Nil \notin Stops /\ RingOn \notin Stops /\ RingOn # Nil
  /\ DigitsOn # RingOn /\ DigitsOff # RingOn /\ Lockout # RingOn /\ Release # RingOn
<1>1. RingOn.ring = "On" /\ RingOff.ring = "Off" /\ DigitsOn.ring = Nil /\ DigitsOff.ring = Nil
      /\ RingOn.sig = "Supervise" /\ Lockout.sig = "Lockout" /\ Release.sig = "Release"
  BY DEF RingOn, RingOff, DigitsOn, DigitsOff, Lockout, Release, Supervise
<1>2. RingOn # RingOff /\ DigitsOn # RingOn /\ DigitsOff # RingOn /\ Lockout # RingOn
      /\ Release # RingOn
  BY <1>1, NilAssumption
<1> QED BY <1>2, NilAssumption DEF Stops

\* A half call that clears its call tells its user.
LEMMA ClearCallIsSound ==
  ASSUME NEW c, NEW t, Begun(c, t), NEW cause \in {ToneCause, IdleCause}
  PROVE  Sound(c, ClearCall(t, cause))
<1> DEFINE t0 == ToUser(t, Release)
           t1 == IF HasUser(t) THEN SetLineState(t0, "Idle") ELSE t
           t2 == IF t.h.npsm = "Idle" THEN t1 ELSE ToPeer(t1, Cip("REL", cause))
           t3 == Go(t2, "Null")
<1>1. TransForm(t)
  BY DEF Begun, Fresh, Kept
<1>2. TransForm(t0) /\ t0.nu = Release /\ t0.cip = t.cip /\ t0.h.q = t.h.q
      /\ t0.h.user = t.h.user
  BY <1>1, ToUserIs DEF Is
<1> HIDE DEF t0
<1>3. /\ TransForm(t1) /\ t1.nu = (IF HasUser(t) THEN Release ELSE t.nu)
      /\ t1.cip = t.cip /\ t1.h.q = t.h.q /\ t1.h.user = t.h.user
  BY <1>1, <1>2, SetLineIs DEF Is
<1> HIDE DEF t1
<1>4. TransForm(t2) /\ t2.nu = t1.nu /\ t2.cip \in {t.cip, Cip("REL", cause)}
      /\ t2.h.q = t.h.q /\ t2.h.user = t.h.user
  BY <1>3, ToPeerIs DEF Is
<1> HIDE DEF t2
<1>5. /\ t3.nu = t1.nu /\ t3.cip = t2.cip /\ t3.h.st = "Null" /\ t3.h.q = t.h.q
      /\ t3.h.user = t.h.user
  BY <1>4, GoIs DEF Is
<1> HIDE DEF t3
<1>6. t3.cip \in CipMsgs \cup {Nil}
  BY <1>4, <1>5 DEF CipMsgs, Begun
<1>7. t3.nu \in ShelfMsgs \cup {Nil} /\ (HasUser(t3) => t3.nu \in Stops) /\ t3.nu # RingOn
  BY <1>3, <1>5, ShelfFacts DEF HasUser, ShelfMsgs, Stops, Begun
<1>8. Sound(c, t3)
  BY <1>5, <1>6, <1>7 DEF Sound, Begun, Attended
<1> QED BY <1>8 DEF ClearCall, t0, t1, t2, t3

\* One that applies a tone has done with the other half,
LEMMA ToneIsSound ==
  ASSUME NEW c, NEW t, Begun(c, t), t.h.npsm = "Idle", t.h.user \in Users,
         ctx[c].st \notin Presenting, NEW i
  PROVE  Sound(c, ApplyTone(t, i))
<1> DEFINE t1 == Go(t, "Ex")
           t2 == [t1 EXCEPT !.h.tone = i]
           t3 == StartTimer(t2, "Treatment")
<1>1. TransForm(t)
  BY DEF Begun, Fresh, Kept
<1>2. Is(t1, t.nu, t.cip, "Ex", t.h.user, t.h.model, t.h.npsm, t.h.timer, t.h.q)
  BY <1>1, GoIs
<1> HIDE DEF t1
<1>3. Is(t2, t.nu, t.cip, "Ex", t.h.user, t.h.model, t.h.npsm, t.h.timer, t.h.q)
  <2>1. TransForm(t1)
    BY <1>2 DEF Is
  <2>2. Is(t2, t1.nu, t1.cip, t1.h.st, t1.h.user, t1.h.model, t1.h.npsm, t1.h.timer, t1.h.q)
    BY <2>1, ToneIs
  <2> HIDE DEF t2
  <2> QED BY <1>2, <2>2 DEF Is
<1> HIDE DEF t2
<1>4. Is(t3, t.nu, t.cip, "Ex", t.h.user, t.h.model, t.h.npsm, "Treatment", t.h.q)
  BY <1>3, StartTimerIs DEF Is
<1> HIDE DEF t3
<1>5. t3.cip = Nil /\ NetState(t3) = "Idle"
  BY <1>4 DEF Is, Begun, NetState
<1>6. ShapeOf(t3.h, NetState(t3))
  BY <1>4, <1>5, NilAssumption DEF Is, ShapeOf, Timed, Attended, Terminating, TimerIds
<1>7. Sound(c, t3)
  BY <1>4, <1>5, <1>6, ShelfFacts DEF Is, Sound, Begun, ShelfMsgs, Attended
<1> QED BY <1>7 DEF ApplyTone, t1, t2, t3

\* so that a call is released by clearing it or by a tone.
LEMMA ReleaseCallIsSound ==
  ASSUME NEW c, NEW t, Begun(c, t), NEW cause \in {ToneCause, IdleCause},
         t.h.user \in Users \cup {Nil},
         cause = ToneCause /\ ctx[c].st \in Attended => t.h.npsm = "Idle"
  PROVE  Sound(c, ReleaseCall(t, cause))
<1>1. CASE HasUser(t) /\ t.h.st \in {"Ci", "Sc", "Oa", "Ac", "Rs"}
  <2>1. ctx[c].st \in Attended /\ ctx[c].st \notin Presenting /\ t.h.user \in Users
    BY <1>1 DEF Begun, Attended, Presenting, HasUser
  <2>2. cause # IdleCause => Sound(c, ApplyTone(t, 1))
    BY <2>1, ToneIsSound
  <2> QED BY <1>1, <2>2, ClearCallIsSound DEF ReleaseCall, FirstTreatment
<1>2. CASE ~(HasUser(t) /\ t.h.st \in {"Ci", "Sc", "Oa", "Ac", "Rs"})
  BY <1>2, ClearCallIsSound DEF ReleaseCall
<1> QED BY <1>1, <1>2

\* One that stays as it is keeps its shape,
LEMMA StayIsSound ==
  ASSUME NEW c, NEW t, Begun(c, t), ShapeOf(t.h, t.h.npsm), Head(ctx[c].q) \notin Onhooks
         \/ ctx[c].st \notin Attended
  PROVE  Sound(c, t)
<1>1. t.cip = Nil /\ NetState(t) = t.h.npsm
  BY DEF Begun, NetState
<1> QED BY <1>1, ShelfFacts DEF Sound, Begun, ShelfMsgs, Presenting, Attended, Timed

\* and one that stays in the Null state ends.
LEMMA NullIsSound ==
  ASSUME NEW c, NEW t, Begun(c, t), ctx[c].st \notin Presenting
  PROVE  Sound(c, Go(t, "Null"))
<1>1. TransForm(t)
  BY DEF Begun, Fresh, Kept
<1>2. Is(Go(t, "Null"), t.nu, t.cip, "Null", t.h.user, t.h.model, t.h.npsm, t.h.timer, t.h.q)
  BY <1>1, GoIs
<1> QED BY <1>2, ShelfFacts DEF Sound, Is, Begun, ShelfMsgs, Attended

\* The default handler does one of these.
LEMMA AnalyzeMsgIsSound ==
  ASSUME NEW c, NEW t, Begun(c, t), NEW sig, t.h.user \in Users,
         t.h.st = "Ready" \/ ShapeOf(t.h, t.h.npsm),
         sig # "Onhook" => Head(ctx[c].q) \notin Onhooks
  PROVE  Sound(c, AnalyzeMsg(t, sig))
<1>1. \A cause \in {ToneCause, IdleCause} :
        t.h.st \notin Attended \/ cause = IdleCause => Sound(c, ReleaseCall(t, cause))
  BY ReleaseCallIsSound DEF Begun, IdleCause, ToneCause
<1>2. CASE t.h.st = "Ready"
  <2>1. Sound(c, Suspend(t))
    BY <1>2, NullIsSound DEF Suspend, Begun, Presenting
  <2> QED BY <1>1, <1>2, <2>1 DEF AnalyzeMsg, Attended
<1>3. CASE t.h.st # "Ready"
  <2>1. sig # "Onhook" \/ t.h.st = "Pc" => Sound(c, Suspend(t))
    BY <1>3, StayIsSound DEF Suspend, Begun, Attended
  <2> QED BY <1>1, <1>3, <2>1 DEF AnalyzeMsg
<1> QED BY <1>2, <1>3

\* A transaction begins with the fields of its context,
LEMMA BeginIsBegun ==
  ASSUME IInv, MsgsInv, TimeoutInv, ShapeInv, NEW c \in Contexts,
         ctx[c].st # "Free", ctx[c].q # <<>>
  PROVE  Begun(c, Begin(c)) /\ Begin(c).h.npsm = ctx[c].npsm /\ Begin(c).h.timer = ctx[c].timer
<1> DEFINE q == ctx[c].q
           t == Begin(c)
<1>1. q \in Seq(Msgs) /\ Single(q)
  BY DEF MsgsInv, TimeoutInv
<1>2. Trimmed(Tail(q), Tail(q))
  <2>1. /\ Tail(q) \in Seq(Msgs) /\ Len(Tail(q)) = Len(q) - 1
        /\ \A i \in 1 .. Len(Tail(q)) : Tail(q)[i] = q[i + 1]
    BY <1>1, HeadTailProperties
  <2>2. Len(q) \in Nat
    BY <1>1, LenProperties
  <2> HIDE DEF q
  <2>3. Single(Tail(q))
    <3> SUFFICES ASSUME NEW i \in 1 .. Len(Tail(q)), NEW j \in 1 .. Len(Tail(q)),
                        Tail(q)[i] \in Timeouts, Tail(q)[i] = Tail(q)[j]
                 PROVE  i = j
      BY DEF Single
    <3>1. i + 1 \in 1 .. Len(q) /\ j + 1 \in 1 .. Len(q) /\ q[i + 1] = q[j + 1]
          /\ q[i + 1] \in Timeouts
      BY <2>1, <2>2
    <3>2. i + 1 = j + 1
      BY <1>1, <3>1 DEF Single
    <3> QED BY <2>1, <2>2, <3>2
  <2> QED BY <2>1, <2>3 DEF Trimmed
<1>3. Fresh(c, t) /\ t.h.st = ctx[c].st /\ t.h.npsm = ctx[c].npsm
  BY BeginIsFresh
<1>4. HalfForm(ctx[c])
  BY DEF IInv, FormInv
<1>5. t.nu = Nil /\ t.cip = Nil /\ t.h = [ctx[c] EXCEPT !.q = Tail(q)]
  BY DEF Begin
<1>6. t.h.timer = ctx[c].timer /\ t.h.q = Tail(q)
  BY <1>4, <1>5 DEF HalfForm
<1>7. ctx[c].timer \in TimerIds \cup {Nil}
  BY DEF ShapeInv, Live, ReadyOf, ShapeOf
<1> HIDE DEF t
<1> QED BY <1>2, <1>3, <1>5, <1>6, <1>7 DEF Begun, t

\* and stopping a timer leaves the others as they are,
LEMMA TimersAreBegun ==
  ASSUME NEW c, NEW t, Begun(c, t)
  PROVE  /\ Begun(c, StopTimer(t)) /\ StopTimer(t).h.npsm = t.h.npsm
         /\ Begun(c, ClearTimer(t)) /\ ClearTimer(t).h.npsm = t.h.npsm
         /\ Begun(c, StopIamTimer(t)) /\ StopIamTimer(t).h.npsm = t.h.npsm
         /\ StopIamTimer(t).h.timer = t.h.timer
<1>1. ASSUME NEW r, Begun(c, r) PROVE Begun(c, ClearTimer(r)) /\ ClearTimer(r).h.npsm = r.h.npsm
  <2>1. TransForm(r)
    BY <1>1 DEF Begun, Fresh, Kept
  <2>2. Is(ClearTimer(r), r.nu, r.cip, r.h.st, r.h.user, r.h.model, r.h.npsm, Nil, r.h.q)
    BY <2>1, ClearTimerIs
  <2>3. Fresh(c, r)
    BY <1>1 DEF Begun
  <2>4. Fresh(c, ClearTimer(r))
    BY <2>3, TimersAreFresh
  <2> QED BY <1>1, <2>2, <2>4 DEF Begun, Is
<1>2. ASSUME NEW tid
      PROVE  LET r == [t EXCEPT !.h.q = RemoveFirst(@, Timeout(tid))]
             IN Begun(c, r) /\ r.h.npsm = t.h.npsm /\ r.h.timer = t.h.timer
  <2> DEFINE x == RemoveFirst(t.h.q, Timeout(tid))
             r == [t EXCEPT !.h.q = x]
  <2>1. TransForm(t) /\ Fresh(c, t) /\ Trimmed(Tail(ctx[c].q), t.h.q)
    BY DEF Begun, Fresh, Kept
  <2>2. Trimmed(Tail(ctx[c].q), x)
    BY <2>1, RemoveTimeoutTrims
  <2> HIDE DEF x
  <2>3. Is(r, t.nu, t.cip, t.h.st, t.h.user, t.h.model, t.h.npsm, t.h.timer, x)
    BY <2>1, QueueIs
  <2>4. Fresh(c, r)
    BY <2>1, QueueIsFresh
  <2> HIDE DEF r
  <2>5. Begun(c, r) /\ r.h.npsm = t.h.npsm /\ r.h.timer = t.h.timer
    BY <2>2, <2>3, <2>4 DEF Begun, Is
  <2> QED BY <2>5 DEF r, x
<1>3. Begun(c, StopTimer(t)) /\ StopTimer(t).h.npsm = t.h.npsm
  <2> DEFINE r == [t EXCEPT !.h.q = RemoveFirst(@, Timeout(t.h.timer))]
  <2>1. Begun(c, r) /\ r.h.npsm = t.h.npsm
    BY <1>2
  <2>2. StopTimer(t) = ClearTimer(r)
    BY DEF StopTimer
  <2> HIDE DEF r
  <2> QED BY <1>1, <2>1, <2>2
<1>4. /\ Begun(c, StopIamTimer(t)) /\ StopIamTimer(t).h.npsm = t.h.npsm
      /\ StopIamTimer(t).h.timer = t.h.timer
  <2> DEFINE r == [t EXCEPT !.h.q = RemoveFirst(@, Timeout("Iam"))]
  <2>1. Begun(c, r) /\ r.h.npsm = t.h.npsm /\ r.h.timer = t.h.timer
    BY <1>2
  <2>2. StopIamTimer(t) = IF t.h.npsm # "IamSent" THEN t ELSE r
    BY DEF StopIamTimer
  <2> HIDE DEF r
  <2> QED BY <2>1, <2>2
<1> QED BY <1>1, <1>3, <1>4

\* as do an order to the circuit and a message of the other half.
LEMMA NpsmIsBegun ==
  ASSUME NEW c, NEW t, Begun(c, t), NEW s
  PROVE  LET r == [t EXCEPT !.h.npsm = s]
         IN Begun(c, r) /\ r.h.npsm = s /\ r.h.timer = t.h.timer
<1> DEFINE r == [t EXCEPT !.h.npsm = s]
<1>1. TransForm(t) /\ Fresh(c, t)
  BY DEF Begun, Fresh, Kept
<1>2. Is(r, t.nu, t.cip, t.h.st, t.h.user, t.h.model, s, t.h.timer, t.h.q)
  BY <1>1, NpsmIs
<1>3. Fresh(c, r)
  BY <1>1, NpsmIsFresh
<1> HIDE DEF r
<1> QED BY <1>2, <1>3 DEF Begun, Is, r

\* and so it remains when digits stop being reported.
LEMMA DigitsOffIsBegun ==
  ASSUME NEW c, NEW t, Begun(c, t)
  PROVE  LET r == ToUser(t, DigitsOff)
         IN Begun(c, r) /\ r.h.npsm = t.h.npsm /\ r.h.timer = t.h.timer
<1> DEFINE r == ToUser(t, DigitsOff)
<1>1. TransForm(t) /\ Fresh(c, t) /\ t.nu # Release
  <2>1. DigitsOff # Release
    BY DEF DigitsOff, Release, Supervise
  <2> QED BY <2>1, NilAssumption DEF Begun, Fresh, Kept
<1>2. Is(r, DigitsOff, t.cip, t.h.st, t.h.user, t.h.model, t.h.npsm, t.h.timer, t.h.q)
  BY <1>1, ToUserIs
<1>3. Fresh(c, r)
  BY <1>1, ToUserIsFresh
<1> HIDE DEF r
<1> QED BY <1>2, <1>3 DEF Begun, Is, r

-----------------------------------------------------------------------------
\* The half that received the IAM stays in the states that this led to,
\* whatever it sends, and only awaits a release.
LEMMA TerminatingMoves ==
  ASSUME NEW s \in Terminating, NEW sig
  PROVE  /\ sig \in {"EOS", "ALT", "ANM", "SUS", "RES"} =>
              OgNext(s, sig) \in Terminating \cup {Nil}
         /\ IcNext(s, sig) # Nil =>
              \/ sig = "REL" /\ IcNext(s, sig) = "Idle"
              \/ sig = "IAM" /\ s = "Idle"
<1>1. ASSUME sig \in {"EOS", "ALT", "ANM", "SUS", "RES"}
      PROVE  OgNext(s, sig) \in Terminating \cup {Nil}
  <2> DEFINE to == {x \in OgMoves : x[1] = s /\ x[2] = sig}
  <2>1. \A x \in to : x[3] \in Terminating
    BY <1>1 DEF OgMoves, Moves, Terminating
  <2>2. OgNext(s, sig) = IF to = {} THEN Nil ELSE (CHOOSE x \in to : TRUE)[3]
    BY <1>1 DEF OgNext, Move
  <2> HIDE DEF to
  <2>3. to # {} => (CHOOSE x \in to : TRUE) \in to
    OBVIOUS
  <2> QED BY <2>1, <2>2, <2>3
<1>2. ASSUME IcNext(s, sig) # Nil, sig # "REL" PROVE sig = "IAM" /\ s = "Idle"
  <2>1. PICK x \in IcMoves : x[1] = s /\ x[2] = sig
    BY <1>2 DEF IcNext, Move
  <2> QED BY <2>1 DEF IcMoves, Moves, Terminating
<1>3. IcNext(s, "REL") \in {"Idle", Nil}
  BY DEF IcNext, Move
<1> QED BY <1>1, <1>2, <1>3

\* The IAM makes an idle state machine one of them.
LEMMA IamIsReceived == IcNext("Idle", "IAM") \in {"IamRcvd", Nil}
<1> DEFINE to == {x \in IcMoves : x[1] = "Idle" /\ x[2] = "IAM"}
<1>1. \A x \in to : x[3] = "IamRcvd"
  BY DEF IcMoves, Moves
<1>2. IcNext("Idle", "IAM") = IF to = {} THEN Nil ELSE (CHOOSE x \in to : TRUE)[3]
  BY DEF IcNext, Move
<1> HIDE DEF to
<1>3. to # {} => (CHOOSE x \in to : TRUE) \in to
  OBVIOUS
<1> QED BY <1>1, <1>2, <1>3

\* Sending such a message leaves the CIP protocol in a state of these.
LEMMA NetStateFacts ==
  ASSUME NEW t, NEW sig \in {"EOS", "ALT", "ANM", "SUS", "RES"}, t.cip = Cip(sig, Nil),
         t.h.npsm \in Terminating
  PROVE  NetState(t) \in Terminating
<1>1. t.cip.sig = sig
  BY DEF Cip, Msg
<1>2. OgNext(t.h.npsm, sig) \in Terminating \cup {Nil}
  BY TerminatingMoves
<1> QED BY <1>1, <1>2 DEF NetState

\* Going offhook makes a half call collect digits,
LEMMA OriginateIsSound ==
  ASSUME NEW c, NEW t, Begun(c, t), ctx[c].st = "Ready", t.h.user \in Users,
         t.h.model = "Obc", t.h.npsm = "Idle", Head(ctx[c].q) \in Offhooks
  PROVE  Sound(c, Originate(t))
<1> DEFINE t1 == Go(t, "Ci")
           t2 == ToUser(t1, DigitsOn)
           t3 == StartTimer(t2, "Collection")
<1>1. TransForm(t)
  BY DEF Begun, Fresh, Kept
<1>2. Is(t1, t.nu, t.cip, "Ci", t.h.user, t.h.model, t.h.npsm, t.h.timer, t.h.q)
  BY <1>1, GoIs
<1> HIDE DEF t1
<1>3. TransForm(t2) /\ t2.nu \in {Release, DigitsOn} /\ t2.cip = t.cip /\ t2.h.st = "Ci"
      /\ t2.h.user = t.h.user /\ t2.h.model = t.h.model /\ t2.h.npsm = t.h.npsm
      /\ t2.h.q = t.h.q
  BY <1>2, ToUserIs DEF Is
<1> HIDE DEF t2
<1>4. Is(t3, t2.nu, t.cip, "Ci", t.h.user, t.h.model, t.h.npsm, "Collection", t.h.q)
  BY <1>3, StartTimerIs DEF Is
<1> HIDE DEF t3
<1>5. t3.cip = Nil /\ NetState(t3) = "Idle"
  BY <1>4 DEF Is, Begun, NetState
<1>6. ShapeOf(t3.h, NetState(t3))
  BY <1>4, <1>5, NilAssumption DEF Is, ShapeOf, Timed, Attended, Terminating, TimerIds
<1>7. Sound(c, t3)
  BY <1>3, <1>4, <1>5, <1>6, ShelfFacts DEF Is, Sound, Begun, ShelfMsgs, Presenting
<1> QED BY <1>7 DEF Originate, t1, t2, t3

\* digits make it send its call,
LEMMA SendCallIsSound ==
  ASSUME NEW c, NEW t, Begun(c, t), ctx[c].st = "Ci", t.h.user \in Users,
         t.h.model = "Obc", Head(ctx[c].q) \notin Onhooks, NEW d \in Users
  PROVE  Sound(c, SendCall(t, d))
<1> DEFINE t1 == ToUser(t, DigitsOff)
           t2 == Go(t1, "Sc")
           t3 == ToPeer(t2, Cip("IAM", d))
<1>1. Begun(c, t1)
  BY DigitsOffIsBegun
<1>a. TransForm(t1) /\ t1.h.user = t.h.user /\ t1.h.model = t.h.model
  BY <1>1 DEF Begun, Fresh, Kept
<1> HIDE DEF t1
<1>2. Is(t2, t1.nu, t1.cip, "Sc", t1.h.user, t1.h.model, t1.h.npsm, t1.h.timer, t1.h.q)
  BY <1>a, GoIs
<1> HIDE DEF t2
<1>3. Is(t3, t1.nu, Cip("IAM", d), "Sc", t1.h.user, t1.h.model, t1.h.npsm, t1.h.timer, t1.h.q)
  BY <1>2, ToPeerIs DEF Is
<1> HIDE DEF t3
<1>4. t3.cip \in CipMsgs
  BY <1>3 DEF Is, CipMsgs
<1>5. ShapeOf(t3.h, NetState(t3))
  BY <1>1, <1>a, <1>3 DEF Is, ShapeOf, Timed, Attended, Begun
<1>6. Sound(c, t3)
  BY <1>1, <1>3, <1>4, <1>5, ShelfFacts
     DEF Is, Sound, Begun, ShelfMsgs, Attended, Presenting
<1> QED BY <1>6 DEF SendCall, t1, t2, t3

\* or wait for more,
LEMMA CollectIsSound ==
  ASSUME NEW c, NEW t, Begun(c, t), ctx[c].st = "Ci", t.h.user \in Users,
         t.h.model = "Obc", t.h.npsm = "Idle"
  PROVE  /\ Head(ctx[c].q) \notin Onhooks => Sound(c, StartTimer(t, "Collection"))
         /\ Sound(c, CollectionTimeout(t))
<1>1. ASSUME Head(ctx[c].q) \notin Onhooks PROVE Sound(c, StartTimer(t, "Collection"))
  <2> DEFINE r == StartTimer(t, "Collection")
  <2>1. TransForm(t)
    BY DEF Begun, Fresh, Kept
  <2>2. Is(r, t.nu, t.cip, "Ci", t.h.user, t.h.model, t.h.npsm, "Collection", t.h.q)
    BY <2>1, StartTimerIs DEF Begun
  <2> HIDE DEF r
  <2>3. r.cip = Nil /\ NetState(r) = "Idle"
    BY <2>2 DEF Is, Begun, NetState
  <2>4. ShapeOf(r.h, NetState(r))
    BY <2>2, <2>3, NilAssumption DEF Is, ShapeOf, Timed, Attended, Terminating, TimerIds
  <2>5. Sound(c, r)
    BY <1>1, <2>2, <2>3, <2>4, ShelfFacts
       DEF Is, Sound, Begun, ShelfMsgs, Attended, Presenting
  <2> QED BY <2>5 DEF r
<1>2. Sound(c, CollectionTimeout(t))
  <2> DEFINE r == ToUser(t, DigitsOff)
  <2>1. Begun(c, r) /\ r.h.npsm = "Idle"
    BY DigitsOffIsBegun
  <2>2. r.h.user \in Users
    BY <2>1 DEF Begun, Fresh
  <2> HIDE DEF r
  <2>3. Sound(c, ReleaseCall(r, ToneCause))
    BY <2>1, <2>2, ReleaseCallIsSound
  <2> QED BY <2>3 DEF CollectionTimeout, r
<1> QED BY <1>1, <1>2

\* or end in treatment.
LEMMA LocalInformationIsSound ==
  ASSUME NEW c, NEW t, Begun(c, t), ctx[c].st = "Ci", t.h.user \in Users,
         t.h.model = "Obc", t.h.npsm = "Idle", Head(ctx[c].q) \notin Onhooks,
         NEW d \in Dialable
  PROVE  Sound(c, LocalInformation(t, d))
<1>1. d \notin {"Partial", "Bad"} => d \in Users
  BY DEF Dialable
<1> QED BY <1>1, SendCallIsSound, CollectIsSound DEF LocalInformation

\* A circuit that rings is answered,
LEMMA LocalAlertingIsSound ==
  ASSUME NEW c, NEW t, Begun(c, t), ctx[c].st = "Pc", t.h.user \in Users,
         t.h.model = "Tbc", t.h.npsm \in Terminating
  PROVE  Sound(c, LocalAlerting(t))
<1> DEFINE t1 == StartTimer(t, "Answer")
           t2 == Go(t1, "Ta")
           t3 == ToPeer(t2, Cip("ALT", Nil))
<1>1. TransForm(t)
  BY DEF Begun, Fresh, Kept
<1>2. Is(t1, t.nu, t.cip, t.h.st, t.h.user, t.h.model, t.h.npsm, "Answer", t.h.q)
  BY <1>1, StartTimerIs
<1> HIDE DEF t1
<1>3. Is(t2, t.nu, t.cip, "Ta", t.h.user, t.h.model, t.h.npsm, "Answer", t.h.q)
  BY <1>2, GoIs DEF Is
<1> HIDE DEF t2
<1>4. Is(t3, t.nu, Cip("ALT", Nil), "Ta", t.h.user, t.h.model, t.h.npsm, "Answer", t.h.q)
  BY <1>3, ToPeerIs DEF Is
<1> HIDE DEF t3
<1>5. t3.cip \in CipMsgs /\ NetState(t3) \in Terminating
  BY <1>4, NetStateFacts DEF Is, CipMsgs
<1>6. ShapeOf(t3.h, NetState(t3))
  BY <1>4, <1>5, NilAssumption DEF Is, ShapeOf, Timed, Attended, TimerIds
<1>7. Sound(c, t3)
  BY <1>4, <1>5, <1>6, ShelfFacts
     DEF Is, Sound, Begun, ShelfMsgs, Attended, Presenting
<1> QED BY <1>7 DEF LocalAlerting, t1, t2, t3

\* and told to stop ringing.
LEMMA LocalAnswerIsSound ==
  ASSUME NEW c, NEW t, Begun(c, t), t.h.user \in Users,
         t.h.model = "Tbc", t.h.npsm \in Terminating, Head(ctx[c].q) \in Offhooks
  PROVE  Sound(c, LocalAnswer(t))
<1> DEFINE t1 == ToUser(t, RingOff)
           t2 == Go(t1, "Ac")
           t3 == ToPeer(t2, Cip("ANM", Nil))
<1>1. TransForm(t)
  BY DEF Begun, Fresh, Kept
<1>2. TransForm(t1) /\ t1.nu \in Stops /\ t1.cip = t.cip /\ t1.h.q = t.h.q
      /\ t1.h.user = t.h.user /\ t1.h.model = t.h.model /\ t1.h.npsm = t.h.npsm
      /\ t1.h.timer = t.h.timer
  BY <1>1, ToUserIs DEF Is, Stops
<1> HIDE DEF t1
<1>3. Is(t2, t1.nu, t.cip, "Ac", t.h.user, t.h.model, t.h.npsm, t.h.timer, t.h.q)
  BY <1>2, GoIs DEF Is
<1> HIDE DEF t2
<1>4. Is(t3, t1.nu, Cip("ANM", Nil), "Ac", t.h.user, t.h.model, t.h.npsm, t.h.timer, t.h.q)
  BY <1>3, ToPeerIs DEF Is
<1> HIDE DEF t3
<1>5. t3.cip \in CipMsgs /\ NetState(t3) \in Terminating
  BY <1>4, NetStateFacts DEF Is, CipMsgs
<1>6. ShapeOf(t3.h, NetState(t3))
  BY <1>4, <1>5 DEF Is, ShapeOf, Timed, Attended, Begun
<1>7. Sound(c, t3)
  BY <1>2, <1>4, <1>5, <1>6, ShelfFacts
     DEF Is, Sound, Begun, ShelfMsgs, Stops, Attended, Presenting
<1> QED BY <1>7 DEF LocalAnswer, t1, t2, t3

\* A called user who hangs up suspends the call,
LEMMA LocalSuspendIsSound ==
  ASSUME NEW c, NEW t, Begun(c, t), t.h.user \in Users, ctx[c].st \notin Presenting,
         t.h.model = "Tbc", t.h.npsm \in Terminating
  PROVE  Sound(c, LocalSuspend(t))
<1> DEFINE t1 == StartTimer(t, "Suspend")
           t2 == Go(t1, "Ls")
           t3 == ToPeer(t2, Cip("SUS", Nil))
<1>1. TransForm(t)
  BY DEF Begun, Fresh, Kept
<1>2. Is(t1, t.nu, t.cip, t.h.st, t.h.user, t.h.model, t.h.npsm, "Suspend", t.h.q)
  BY <1>1, StartTimerIs
<1> HIDE DEF t1
<1>3. Is(t2, t.nu, t.cip, "Ls", t.h.user, t.h.model, t.h.npsm, "Suspend", t.h.q)
  BY <1>2, GoIs DEF Is
<1> HIDE DEF t2
<1>4. Is(t3, t.nu, Cip("SUS", Nil), "Ls", t.h.user, t.h.model, t.h.npsm, "Suspend", t.h.q)
  BY <1>3, ToPeerIs DEF Is
<1> HIDE DEF t3
<1>5. t3.cip \in CipMsgs /\ NetState(t3) \in Terminating
  BY <1>4, NetStateFacts DEF Is, CipMsgs
<1>6. ShapeOf(t3.h, NetState(t3))
  BY <1>4, <1>5, NilAssumption DEF Is, ShapeOf, Timed, Attended, TimerIds
<1>7. Sound(c, t3)
  BY <1>4, <1>5, <1>6, ShelfFacts
     DEF Is, Sound, Begun, ShelfMsgs, Attended, Presenting
<1> QED BY <1>7 DEF LocalSuspend, t1, t2, t3

\* and one who returns resumes it.
LEMMA LocalResumeIsSound ==
  ASSUME NEW c, NEW t, Begun(c, t), t.h.user \in Users, ctx[c].st \notin Presenting,
         t.h.model = "Tbc", t.h.npsm \in Terminating, Head(ctx[c].q) \in Offhooks
  PROVE  Sound(c, LocalResume(t))
<1> DEFINE t2 == Go(t, "Ac")
           t3 == ToPeer(t2, Cip("RES", Nil))
<1>1. TransForm(t)
  BY DEF Begun, Fresh, Kept
<1>3. Is(t2, t.nu, t.cip, "Ac", t.h.user, t.h.model, t.h.npsm, t.h.timer, t.h.q)
  BY <1>1, GoIs
<1> HIDE DEF t2
<1>4. Is(t3, t.nu, Cip("RES", Nil), "Ac", t.h.user, t.h.model, t.h.npsm, t.h.timer, t.h.q)
  BY <1>3, ToPeerIs DEF Is
<1> HIDE DEF t3
<1>5. t3.cip \in CipMsgs /\ NetState(t3) \in Terminating
  BY <1>4, NetStateFacts DEF Is, CipMsgs
<1>6. ShapeOf(t3.h, NetState(t3))
  BY <1>4, <1>5 DEF Is, ShapeOf, Timed, Attended, Begun
<1>7. Sound(c, t3)
  BY <1>4, <1>5, <1>6, ShelfFacts
     DEF Is, Sound, Begun, ShelfMsgs, Attended, Presenting
<1> QED BY <1>7 DEF LocalResume, t2, t3

\* The end of a treatment starts the next one or locks the line out.
LEMMA NextTreatmentIsSound ==
  ASSUME NEW c, NEW t, Begun(c, t), ctx[c].st = "Ex", t.h.user \in Users, t.h.npsm = "Idle"
  PROVE  Sound(c, NextTreatment(t))
<1> DEFINE t1 == ToUser(t, Lockout)
           t2 == SetLineState(t1, "Lockout")
           t3 == Go(t2, "Null")
<1>1. TransForm(t)
  BY DEF Begun, Fresh, Kept
<1>2. TransForm(t1) /\ t1.nu \in {Release, Lockout} /\ t1.cip = t.cip /\ t1.h.q = t.h.q
  BY <1>1, ToUserIs DEF Is
<1> HIDE DEF t1
<1>3. TransForm(t2) /\ t2.nu \in {Release, Lockout} /\ t2.cip = t.cip /\ t2.h.q = t.h.q
  BY <1>2, SetLineIs DEF Is
<1> HIDE DEF t2
<1>4. t3.nu \in {Release, Lockout} /\ t3.cip = t.cip /\ t3.h.st = "Null" /\ t3.h.q = t.h.q
  BY <1>3, GoIs DEF Is
<1> HIDE DEF t3
<1>5. Sound(c, t3)
  BY <1>4, ShelfFacts DEF Sound, Begun, ShelfMsgs, Presenting, Attended
<1>6. Sound(c, ApplyTone(t, t.h.tone + 1))
  BY ToneIsSound DEF Presenting
<1> QED BY <1>5, <1>6 DEF NextTreatment, t1, t2, t3

\* A call that is presented rings the circuit.
LEMMA PresentCallIsSound ==
  ASSUME NEW c, NEW t, Begun(c, t), NEW u \in Users, ctx[c].st = "Ready",
         t.h.model = "Tbc", t.h.npsm \in Terminating
  PROVE  Sound(c, PresentCall(t, u))
<1> DEFINE t0 == Go(t, "Pc")
           t1 == [t0 EXCEPT !.h.user = u]
           t2 == StartTimer(t1, "Alerting")
           t3 == ToUser(t2, RingOn)
           t4 == ToPeer(t3, Cip("EOS", Nil))
<1>1. TransForm(t)
  BY DEF Begun, Fresh, Kept
<1>2. Is(t0, t.nu, t.cip, "Pc", t.h.user, t.h.model, t.h.npsm, t.h.timer, t.h.q)
  BY <1>1, GoIs
<1> HIDE DEF t0
<1>3. Is(t1, t.nu, t.cip, "Pc", u, t.h.model, t.h.npsm, t.h.timer, t.h.q)
  <2>1. TransForm(t0)
    BY <1>2 DEF Is
  <2>2. Is(t1, t0.nu, t0.cip, t0.h.st, u, t0.h.model, t0.h.npsm, t0.h.timer, t0.h.q)
    BY <2>1, UserIs
  <2> HIDE DEF t1
  <2> QED BY <1>2, <2>2 DEF Is
<1> HIDE DEF t1
<1>4. Is(t2, t.nu, t.cip, "Pc", u, t.h.model, t.h.npsm, "Alerting", t.h.q)
  BY <1>3, StartTimerIs DEF Is
<1> HIDE DEF t2
<1>5. TransForm(t3) /\ t3.nu \in {Release, RingOn} /\ t3.h.st = "Pc" /\ t3.h.user = u
      /\ t3.h.model = t.h.model /\ t3.h.npsm = t.h.npsm /\ t3.h.timer = "Alerting"
      /\ t3.h.q = t.h.q
  BY <1>4, ToUserIs DEF Is
<1> HIDE DEF t3
<1>6. Is(t4, t3.nu, Cip("EOS", Nil), "Pc", u, t.h.model, t.h.npsm, "Alerting", t.h.q)
  BY <1>5, ToPeerIs DEF Is
<1> HIDE DEF t4
<1>7. t4.cip \in CipMsgs /\ NetState(t4) \in Terminating
  BY <1>6, NetStateFacts DEF Is, CipMsgs
<1>8. ShapeOf(t4.h, NetState(t4))
  BY <1>6, <1>7, NilAssumption DEF Is, ShapeOf, Timed, Attended, TimerIds
<1>9. Sound(c, t4)
  BY <1>5, <1>6, <1>7, <1>8, ShelfFacts
     DEF Is, Sound, Begun, ShelfMsgs, Attended, Presenting
<1> QED BY <1>9 DEF PresentCall, t0, t1, t2, t3, t4

\* The handlers of local events leave the transaction fresh,
LEMMA OgEventsAreFresh ==
  ASSUME NEW c, NEW t, Fresh(c, t)
  PROVE  /\ Fresh(c, Originate(t)) /\ Fresh(c, Suspend(t))
         /\ Fresh(c, LocalAlerting(t)) /\ Fresh(c, LocalAnswer(t))
         /\ Fresh(c, LocalSuspend(t)) /\ Fresh(c, LocalResume(t))
         /\ \A d : Fresh(c, SendCall(t, d))
<1>1. Fresh(c, Originate(t))
  BY GoIsFresh, ToUserIsFresh, TimersAreFresh DEF Originate
<1>2. Fresh(c, Suspend(t))
  BY GoIsFresh DEF Suspend
<1>3. Fresh(c, LocalAlerting(t))
  BY GoIsFresh, ToPeerIsFresh, TimersAreFresh DEF LocalAlerting
<1>4. Fresh(c, LocalAnswer(t))
  BY GoIsFresh, ToUserIsFresh, ToPeerIsFresh DEF LocalAnswer
<1>5. Fresh(c, LocalSuspend(t))
  BY GoIsFresh, ToPeerIsFresh, TimersAreFresh DEF LocalSuspend
<1>6. Fresh(c, LocalResume(t))
  BY GoIsFresh, ToPeerIsFresh DEF LocalResume
<1>7. ASSUME NEW d PROVE Fresh(c, SendCall(t, d))
  BY GoIsFresh, ToUserIsFresh, ToPeerIsFresh DEF SendCall
<1> QED BY <1>1, <1>2, <1>3, <1>4, <1>5, <1>6, <1>7

\* and the one that analyses digits completes it.
LEMMA LocalInformationIsComplete ==
  ASSUME NEW c, NEW t, Fresh(c, t), NEW d
  PROVE  Complete(c, CollectionTimeout(t)) /\ Complete(c, LocalInformation(t, d))
<1>1. Complete(c, CollectionTimeout(t))
  BY ToUserIsFresh, ReleaseCallIsComplete DEF CollectionTimeout
<1>2. Complete(c, StartTimer(t, "Collection")) /\ Complete(c, SendCall(t, d))
  BY TimersAreFresh, OgEventsAreFresh, FreshIsComplete
<1> QED BY <1>1, <1>2 DEF LocalInformation

\* Only an idle protocol state machine accepts an IAM.
LEMMA IamOnlyWhenIdle ==
  ASSUME NEW s, NEW sig, IcNext(s, sig) # Nil
  PROVE  /\ sig \in {"IAM", "EOS", "ALT", "ANM", "SUS", "RES", "REL"}
         /\ sig = "IAM" => s = "Idle"
<1>1. CASE sig = "REL"
  BY <1>1
<1>2. CASE sig # "REL"
  <2>1. PICK x \in IcMoves : x[1] = s /\ x[2] = sig
    BY <1>2 DEF IcNext, Move
  <2> QED BY <2>1 DEF IcMoves, Moves
<1> QED BY <1>1, <1>2

\* A call is only presented to a line that is Idle.
LEMMA SelectFacilityIsComplete ==
  ASSUME NEW c, NEW t, Fresh(c, t), ctx[c].user = Nil, NEW u
  PROVE  Complete(c, SelectFacility(t, u))
<1>1. ASSUME profile[u].state = "Idle" PROVE Complete(c, PresentCall(t, u))
  <2> DEFINE t1 == [Go(t, "Pc") EXCEPT !.h.user = u]
             t2 == StartTimer(t1, "Alerting")
             t3 == ToUser(t2, RingOn)
             Presents(x) == /\ Kept(c, x) /\ x.h.user = u /\ x.line = Nil
                            /\ x.h.st = "Pc"
  <2>1. Presents(t1)
    <3>1. Fresh(c, Go(t, "Pc")) /\ Go(t, "Pc").h.st = "Pc"
      BY GoIsFresh
    <3> QED BY <3>1 DEF Fresh, Kept, TransForm, HalfForm
  <2> HIDE DEF t1
  <2>2. Presents(t2)
    BY <2>1 DEF StartTimer, Kept, TransForm, HalfForm
  <2> HIDE DEF t2
  <2>3. Presents(t3)
    BY <2>2 DEF ToUser, Kept, TransForm
  <2>4. Presents(ToPeer(t3, Cip("EOS", Nil)))
    BY <2>3 DEF ToPeer, Kept, TransForm
  <2> QED BY <1>1, <2>4 DEF PresentCall, Complete, t1, t2
<1> QED BY <1>1, ClearCallIsComplete DEF SelectFacility

\* The events raised by the other half complete the transaction,
LEMMA RemoteEventIsComplete ==
  ASSUME NEW c, NEW t, Fresh(c, t), NEW m,
         m.sig \in {"IAM", "EOS", "ALT", "ANM", "SUS", "RES", "REL"},
         m.sig = "IAM" => ctx[c].user = Nil
  PROVE  Complete(c, RemoteEvent(t, m))
<1>1. \A st \in {"Oa", "Ac", "Rs"} : Complete(c, Go(t, st))
  BY GoIsFresh, FreshIsComplete
<1>2. Complete(c, RemoteRelease(t, m.arg))
  BY TimersAreFresh, ClearCallIsComplete, ReleaseCallIsComplete DEF RemoteRelease
<1>3. m.sig = "IAM" => Complete(c, SelectFacility(t, m.arg))
  BY SelectFacilityIsComplete
<1> QED BY <1>1, <1>2, <1>3, FreshIsComplete DEF RemoteEvent

\* Handlers end a transaction that is complete and sound.
Ends(c) == \E t : Complete(c, t) /\ Sound(c, t) /\ EndOfTransaction(c, t)

\* They begin one in a context that the invariant describes.
LEMMA HandlerBegins ==
  ASSUME CallInv, NEW c \in Contexts, ctx[c].st # "Free", ctx[c].q # <<>>
  PROVE  LET t == Begin(c)
             m == Head(ctx[c].q)
         IN /\ Fresh(c, t) /\ Begun(c, t) /\ m \in Msgs
            /\ t.h.npsm = ctx[c].npsm /\ t.h.user = ctx[c].user
            /\ t.h.model = ctx[c].model /\ t.h.st = ctx[c].st
            /\ ctx[c].st # "Ready" => ShapeOf(ctx[c], ctx[c].npsm) /\ ShapeOf(t.h, t.h.npsm)
            /\ ctx[c].st = "Ready" /\ m.port = "U" =>
                 ctx[c].model = "Obc" /\ ctx[c].npsm = "Idle" /\ ctx[c].user \in Users
            /\ ctx[c].st = "Ready" /\ m.port = "N" =>
                 ctx[c].model = "Tbc" /\ ctx[c].npsm = "Idle" /\ ctx[c].user = Nil
                 /\ m.sig = "IAM"
<1> DEFINE t == Begin(c)
           m == Head(ctx[c].q)
<1>1. /\ Begun(c, t) /\ t.h.npsm = ctx[c].npsm /\ t.h.timer = ctx[c].timer
  BY BeginIsBegun DEF CallInv
<1>2. Fresh(c, t) /\ t.h.st = ctx[c].st /\ t.h.user = ctx[c].user /\ t.h.model = ctx[c].model
  BY <1>1 DEF Begun, Fresh, Kept
<1>3. ctx[c].q \in Seq(Msgs)
  BY DEF CallInv, MsgsInv
<1>4. m \in Msgs /\ m = ctx[c].q[1] /\ 1 \in 1 .. Len(ctx[c].q)
  BY <1>3, LenProperties, EmptySeq, HeadTailProperties
<1>5. ReadyOf(ctx[c]) \/ ShapeOf(ctx[c], ctx[c].npsm)
  BY DEF CallInv, ShapeInv, Live
<1> HIDE DEF t, m
<1>6. CASE ReadyOf(ctx[c])
  <2>1. ctx[c].st = "Ready" /\ ctx[c].npsm = "Idle" /\ (NewObc(ctx[c]) \/ NewTbc(ctx[c]))
    BY <1>6 DEF ReadyOf
  <2>2. /\ m.port = "U" => NewObc(ctx[c])
        /\ m.port = "N" => NewTbc(ctx[c])
    BY <1>4, <2>1 DEF NewObc, NewTbc
  <2> QED BY <1>1, <1>2, <1>4, <2>1, <2>2 DEF NewObc, NewTbc, t, m
<1>7. CASE ShapeOf(ctx[c], ctx[c].npsm)
  <2>1. ctx[c].st # "Ready"
    BY <1>7 DEF ShapeOf, Timed, Attended
  <2>2. ShapeOf(t.h, t.h.npsm)
    BY <1>1, <1>2, <1>7 DEF ShapeOf
  <2> QED BY <1>1, <1>2, <1>4, <1>7, <2>1, <2>2 DEF t, m
<1> QED BY <1>5, <1>6, <1>7

\* So does the handler of the first message,
LEMMA NuEnds ==
  ASSUME CallInv, NEW c \in Contexts, NuAnalyzeLocalMessage(c)
  PROVE  Ends(c)
<1> DEFINE t == Begin(c)
           m == Head(ctx[c].q)
           sig == m.sig
           line == profile[t.h.user].state
           s0 == ToUser(t, Release)
           s == SetLineState(s0, "Idle")
           r == CASE line = "Active" /\ sig = "Offhook" -> Originate(t)
                  [] line = "Lockout" /\ sig = "Onhook" -> Suspend(s)
                  [] OTHER -> AnalyzeMsg(t, sig)
<1>1. ctx[c].st = "Ready" /\ m.port = "U" /\ ctx[c].q # <<>> /\ EndOfTransaction(c, r)
  BY DEF NuAnalyzeLocalMessage, FromUser
<1>2. /\ Fresh(c, t) /\ Begun(c, t) /\ t.h.st = "Ready" /\ m \in Msgs /\ t.h.model = "Obc"
      /\ t.h.npsm = "Idle" /\ t.h.user \in Users
  BY <1>1, HandlerBegins
<1>a. /\ m \in Offhooks <=> sig = "Offhook"
      /\ m \in Onhooks <=> sig = "Onhook"
  BY <1>2, MsgFacts
<1> HIDE DEF t
<1>3. TransForm(s0) /\ s0.nu = Release /\ s0.cip = t.cip /\ s0.h.q = t.h.q
  <2>1. TransForm(t)
    BY <1>2 DEF Fresh, Kept
  <2> QED BY <2>1, ToUserIs DEF Is
<1>4. Kept(c, s) /\ s.h = t.h
  <2>1. Fresh(c, s0) /\ s0.h = t.h
    BY <1>2, ToUserIsFresh
  <2> HIDE DEF s0
  <2> QED BY <2>1 DEF Fresh, Kept, TransForm, SetLineState
<1> HIDE DEF s0
<1>5. Is(s, Release, t.cip, s.h.st, s.h.user, s.h.model, s.h.npsm, s.h.timer, t.h.q)
  BY <1>3, SetLineIs DEF Is
<1> HIDE DEF s
<1>6. Suspend(s) = Go(s, "Null")
  BY <1>2, <1>4 DEF Suspend
<1>7. Complete(c, Suspend(s))
  BY <1>2, <1>4, <1>6 DEF Go, Fresh, Complete, Kept, TransForm, HalfForm
<1>8. Sound(c, Suspend(s))
  <2>1. Is(Go(s, "Null"), Release, t.cip, "Null", s.h.user, s.h.model, s.h.npsm, s.h.timer, t.h.q)
    BY <1>5, GoIs DEF Is
  <2> QED BY <1>1, <1>2, <1>6, <2>1, ShelfFacts
          DEF Is, Sound, Begun, ShelfMsgs, Presenting, Attended
<1>9. Complete(c, Originate(t)) /\ Complete(c, AnalyzeMsg(t, sig))
  BY <1>2, OgEventsAreFresh, FreshIsComplete, AnalyzeMsgIsComplete
<1>10. sig = "Offhook" => Sound(c, Originate(t))
  BY <1>1, <1>2, <1>a, OriginateIsSound
<1>11. Sound(c, AnalyzeMsg(t, sig))
  BY <1>2, <1>a, AnalyzeMsgIsSound
<1> HIDE DEF m
<1>12. Complete(c, r) /\ Sound(c, r)
  BY <1>7, <1>8, <1>9, <1>10, <1>11
<1> HIDE DEF r
<1> QED BY <1>1, <1>12 DEF Ends

\* that of a half call that collects digits,
LEMMA CiEnds ==
  ASSUME CallInv, NEW c \in Contexts, CiAnalyzeLocalMessage(c)
  PROVE  Ends(c)
<1> DEFINE t == Begin(c)
           m == Head(ctx[c].q)
           r == CASE m.sig = "Digits"  -> LocalInformation(StopTimer(t), m.arg)
                  [] m.sig = "Onhook"  -> ClearCall(StopTimer(t), ToneCause)
                  [] m.sig = "Timeout" -> CollectionTimeout(ClearTimer(t))
                  [] OTHER -> AnalyzeMsg(t, m.sig)
<1>1. ctx[c].st = "Ci" /\ ctx[c].q # <<>> /\ EndOfTransaction(c, r)
  BY DEF CiAnalyzeLocalMessage, FromUser
<1>2. /\ Fresh(c, t) /\ Begun(c, t) /\ m \in Msgs /\ ShapeOf(t.h, t.h.npsm) /\ t.h.st = "Ci"
      /\ t.h.npsm = ctx[c].npsm /\ ShapeOf(ctx[c], ctx[c].npsm)
  BY <1>1, HandlerBegins
<1>a. /\ m \in Onhooks <=> m.sig = "Onhook"
      /\ m.sig = "Digits" => m.arg \in Dialable
  BY <1>2, MsgFacts
<1> HIDE DEF t
<1>3. /\ Fresh(c, StopTimer(t)) /\ Fresh(c, ClearTimer(t))
      /\ Begun(c, StopTimer(t)) /\ Begun(c, ClearTimer(t))
      /\ StopTimer(t).h.npsm = "Idle" /\ ClearTimer(t).h.npsm = "Idle"
  <2>1. t.h.npsm = "Idle"
    BY <1>2 DEF ShapeOf
  <2> QED BY <1>2, <2>1, TimersAreBegun, TimersAreFresh
<1>4. /\ StopTimer(t).h.user \in Users /\ ClearTimer(t).h.user \in Users
      /\ StopTimer(t).h.model = "Obc" /\ ClearTimer(t).h.model = "Obc"
      /\ t.h.user \in Users
  BY <1>1, <1>2, <1>3 DEF Fresh, Kept, ShapeOf
<1>5. Complete(c, r)
  BY <1>2, <1>3, LocalInformationIsComplete, ClearCallIsComplete, AnalyzeMsgIsComplete
<1>6. /\ m.sig = "Digits" => Sound(c, LocalInformation(StopTimer(t), m.arg))
      /\ Sound(c, ClearCall(StopTimer(t), ToneCause))
      /\ Sound(c, CollectionTimeout(ClearTimer(t)))
      /\ Sound(c, AnalyzeMsg(t, m.sig))
  BY <1>1, <1>2, <1>a, <1>3, <1>4, LocalInformationIsSound, ClearCallIsSound,
     CollectIsSound, AnalyzeMsgIsSound
<1> HIDE DEF m
<1>7. Sound(c, r)
  BY <1>6
<1> HIDE DEF r
<1> QED BY <1>1, <1>5, <1>7 DEF Ends

\* of one that sent its call or hears ringing,
LEMMA ScEnds ==
  ASSUME CallInv, NEW c \in Contexts, ScAnalyzeLocalMessage(c)
  PROVE  Ends(c)
<1> DEFINE t == Begin(c)
           m == Head(ctx[c].q)
           r == IF m.sig = "Onhook" THEN ClearCall(t, ToneCause) ELSE AnalyzeMsg(t, m.sig)
<1>1. ctx[c].st \in {"Sc", "Oa"} /\ ctx[c].q # <<>> /\ EndOfTransaction(c, r)
  BY DEF ScAnalyzeLocalMessage, FromUser
<1>2. Fresh(c, t) /\ Begun(c, t) /\ m \in Msgs /\ ShapeOf(t.h, t.h.npsm)
  BY <1>1, HandlerBegins
<1>3. m \in Onhooks <=> m.sig = "Onhook"
  BY <1>2, MsgFacts
<1> HIDE DEF t
<1>4. Complete(c, r)
  BY <1>2, ClearCallIsComplete, AnalyzeMsgIsComplete
<1>5. Sound(c, ClearCall(t, ToneCause)) /\ Sound(c, AnalyzeMsg(t, m.sig))
  BY <1>2, <1>3, ClearCallIsSound, AnalyzeMsgIsSound DEF ShapeOf
<1> HIDE DEF m
<1>6. Sound(c, r)
  BY <1>5
<1> HIDE DEF r
<1> QED BY <1>1, <1>4, <1>6 DEF Ends

\* of one that presents a call,
LEMMA PcEnds ==
  ASSUME CallInv, NEW c \in Contexts, PcAnalyzeLocalMessage(c)
  PROVE  Ends(c)
<1> DEFINE t == Begin(c)
           m == Head(ctx[c].q)
           r == CASE m.sig = "Alerting" -> LocalAlerting(StopTimer(t))
                  [] m.sig = "Offhook" -> LocalAnswer(StopTimer(t))
                  [] OTHER -> AnalyzeMsg(t, m.sig)
<1>1. ctx[c].st = "Pc" /\ ctx[c].q # <<>> /\ EndOfTransaction(c, r)
  BY DEF PcAnalyzeLocalMessage, FromUser
<1>2. /\ Fresh(c, t) /\ Begun(c, t) /\ m \in Msgs /\ ShapeOf(t.h, t.h.npsm) /\ t.h.st = "Pc"
  BY <1>1, HandlerBegins
<1>3. /\ m \in Onhooks <=> m.sig = "Onhook"
      /\ m \in Offhooks <=> m.sig = "Offhook"
  BY <1>2, MsgFacts
<1> HIDE DEF t
<1>4. /\ Fresh(c, StopTimer(t)) /\ Begun(c, StopTimer(t))
      /\ StopTimer(t).h.npsm = t.h.npsm
  BY <1>2, TimersAreBegun DEF Begun
<1>5. /\ StopTimer(t).h.user \in Users /\ StopTimer(t).h.model = "Tbc"
      /\ StopTimer(t).h.npsm \in Terminating /\ t.h.user \in Users
  BY <1>2, <1>4 DEF Fresh, Kept, ShapeOf
<1>6. Complete(c, r)
  BY <1>2, <1>4, OgEventsAreFresh, FreshIsComplete, AnalyzeMsgIsComplete
<1>7. /\ Sound(c, LocalAlerting(StopTimer(t)))
      /\ m.sig = "Offhook" => Sound(c, LocalAnswer(StopTimer(t)))
      /\ Sound(c, AnalyzeMsg(t, m.sig))
  BY <1>1, <1>2, <1>3, <1>4, <1>5, LocalAlertingIsSound, LocalAnswerIsSound,
     AnalyzeMsgIsSound
<1> HIDE DEF m
<1>8. Sound(c, r)
  BY <1>7
<1> HIDE DEF r
<1> QED BY <1>1, <1>6, <1>8 DEF Ends

\* of one whose circuit rings,
LEMMA TaEnds ==
  ASSUME CallInv, NEW c \in Contexts, TaAnalyzeLocalMessage(c)
  PROVE  Ends(c)
<1> DEFINE t == Begin(c)
           m == Head(ctx[c].q)
           r == IF m.sig = "Offhook" THEN LocalAnswer(StopTimer(t)) ELSE AnalyzeMsg(t, m.sig)
<1>1. ctx[c].st = "Ta" /\ ctx[c].q # <<>> /\ EndOfTransaction(c, r)
  BY DEF TaAnalyzeLocalMessage, FromUser
<1>2. /\ Fresh(c, t) /\ Begun(c, t) /\ m \in Msgs /\ ShapeOf(t.h, t.h.npsm) /\ t.h.st = "Ta"
  BY <1>1, HandlerBegins
<1>3. /\ m \in Onhooks <=> m.sig = "Onhook"
      /\ m \in Offhooks <=> m.sig = "Offhook"
  BY <1>2, MsgFacts
<1> HIDE DEF t
<1>4. /\ Fresh(c, StopTimer(t)) /\ Begun(c, StopTimer(t))
      /\ StopTimer(t).h.npsm = t.h.npsm
  BY <1>2, TimersAreBegun DEF Begun
<1>5. /\ StopTimer(t).h.user \in Users /\ StopTimer(t).h.model = "Tbc"
      /\ StopTimer(t).h.npsm \in Terminating /\ t.h.user \in Users
  BY <1>2, <1>4 DEF Fresh, Kept, ShapeOf
<1>6. Complete(c, r)
  BY <1>2, <1>4, OgEventsAreFresh, FreshIsComplete, AnalyzeMsgIsComplete
<1>7. /\ m.sig = "Offhook" => Sound(c, LocalAnswer(StopTimer(t)))
      /\ Sound(c, AnalyzeMsg(t, m.sig))
  BY <1>2, <1>3, <1>4, <1>5, LocalAnswerIsSound, AnalyzeMsgIsSound
<1> HIDE DEF m
<1>8. Sound(c, r)
  BY <1>7
<1> HIDE DEF r
<1> QED BY <1>1, <1>6, <1>8 DEF Ends

\* of one that is answered or suspended,
LEMMA AcEnds ==
  ASSUME CallInv, NEW c \in Contexts, AcAnalyzeLocalMessage(c)
  PROVE  Ends(c)
<1> DEFINE t == Begin(c)
           m == Head(ctx[c].q)
           sig == m.sig
           r == CASE sig = "Onhook" /\ t.h.model = "Obc" -> ClearCall(t, ToneCause)
                  [] sig = "Onhook" /\ t.h.model = "Tbc" /\ t.h.st # "Ls" -> LocalSuspend(t)
                  [] sig = "Offhook" /\ t.h.st = "Ls" -> LocalResume(StopTimer(t))
                  [] sig = "Timeout" -> ClearCall(ClearTimer(t), ToneCause)
                  [] OTHER -> AnalyzeMsg(t, sig)
<1>1. ctx[c].st \in {"Ac", "Ls", "Rs"} /\ ctx[c].q # <<>> /\ EndOfTransaction(c, r)
  BY DEF AcAnalyzeLocalMessage, FromUser
<1>2. Fresh(c, t) /\ Begun(c, t) /\ m \in Msgs /\ ShapeOf(t.h, t.h.npsm)
  BY <1>1, HandlerBegins
<1>3. /\ m \in Onhooks <=> m.sig = "Onhook"
      /\ m \in Offhooks <=> m.sig = "Offhook"
  BY <1>2, MsgFacts
<1>b. ctx[c].st \notin Presenting
  BY <1>1 DEF Presenting
<1> HIDE DEF t
<1>4. /\ Fresh(c, StopTimer(t)) /\ Fresh(c, ClearTimer(t))
      /\ Begun(c, StopTimer(t)) /\ Begun(c, ClearTimer(t))
      /\ StopTimer(t).h.npsm = t.h.npsm
  BY <1>2, TimersAreBegun DEF Begun
<1>5. /\ StopTimer(t).h.user = t.h.user /\ StopTimer(t).h.model = t.h.model
      /\ t.h.user \in Users
      /\ t.h.model = "Tbc" => t.h.npsm \in Terminating
      /\ t.h.st = "Ls" => t.h.model = "Tbc"
  BY <1>2, <1>4 DEF Fresh, Kept, ShapeOf
<1>6. /\ Complete(c, LocalSuspend(t)) /\ Complete(c, LocalResume(StopTimer(t)))
      /\ Complete(c, ClearCall(t, ToneCause))
      /\ Complete(c, ClearCall(ClearTimer(t), ToneCause))
      /\ Complete(c, AnalyzeMsg(t, sig))
  BY <1>2, <1>4, OgEventsAreFresh, FreshIsComplete, ClearCallIsComplete,
     AnalyzeMsgIsComplete
<1>7. /\ Sound(c, ClearCall(t, ToneCause)) /\ Sound(c, ClearCall(ClearTimer(t), ToneCause))
      /\ t.h.model = "Tbc" => Sound(c, LocalSuspend(t))
      /\ sig = "Offhook" /\ t.h.st = "Ls" => Sound(c, LocalResume(StopTimer(t)))
      /\ Sound(c, AnalyzeMsg(t, sig))
  BY <1>2, <1>3, <1>b, <1>4, <1>5, ClearCallIsSound, LocalSuspendIsSound,
     LocalResumeIsSound, AnalyzeMsgIsSound
<1> HIDE DEF m
<1>8. Complete(c, r) /\ Sound(c, r)
  BY <1>6, <1>7
<1> HIDE DEF r
<1> QED BY <1>1, <1>8 DEF Ends

\* of one that applies treatment,
LEMMA ExEnds ==
  ASSUME CallInv, NEW c \in Contexts, ExAnalyzeLocalMessage(c)
  PROVE  Ends(c)
<1> DEFINE t == Begin(c)
           m == Head(ctx[c].q)
           r == CASE m.sig = "Onhook"  -> ClearCall(StopTimer(t), ToneCause)
                  [] m.sig = "Timeout" -> NextTreatment(ClearTimer(t))
                  [] OTHER -> AnalyzeMsg(t, m.sig)
<1>1. ctx[c].st = "Ex" /\ ctx[c].q # <<>> /\ EndOfTransaction(c, r)
  BY DEF ExAnalyzeLocalMessage, FromUser
<1>2. /\ Fresh(c, t) /\ Begun(c, t) /\ m \in Msgs /\ ShapeOf(t.h, t.h.npsm) /\ t.h.st = "Ex"
  BY <1>1, HandlerBegins
<1>3. m \in Onhooks <=> m.sig = "Onhook"
  BY <1>2, MsgFacts
<1> HIDE DEF t
<1>4. /\ Fresh(c, StopTimer(t)) /\ Fresh(c, ClearTimer(t))
      /\ Begun(c, StopTimer(t)) /\ Begun(c, ClearTimer(t))
      /\ ClearTimer(t).h.npsm = t.h.npsm
  BY <1>2, TimersAreBegun DEF Begun
<1>5. /\ ClearTimer(t).h.user \in Users /\ ClearTimer(t).h.npsm = "Idle"
      /\ t.h.user \in Users
  BY <1>2, <1>4 DEF Fresh, Kept, ShapeOf
<1>6. Complete(c, r)
  BY <1>2, <1>4, NextTreatmentIsComplete, ClearCallIsComplete, AnalyzeMsgIsComplete
<1>7. /\ Sound(c, ClearCall(StopTimer(t), ToneCause)) /\ Sound(c, NextTreatment(ClearTimer(t)))
      /\ Sound(c, AnalyzeMsg(t, m.sig))
  BY <1>1, <1>2, <1>3, <1>4, <1>5, ClearCallIsSound, NextTreatmentIsSound,
     AnalyzeMsgIsSound
<1> HIDE DEF m
<1>8. Sound(c, r)
  BY <1>7
<1> HIDE DEF r
<1> QED BY <1>1, <1>6, <1>8 DEF Ends

\* The first message of a terminating half call selects its user.
LEMMA IamIsSound ==
  ASSUME NEW c, NEW t, Begun(c, t), ctx[c].st = "Ready", t.h.model = "Tbc",
         t.h.npsm = "IamRcvd", NEW u \in Users
  PROVE  Sound(c, SelectFacility(t, u))
<1>1. Sound(c, PresentCall(t, u))
  BY PresentCallIsSound DEF Terminating
<1> QED BY <1>1, ClearCallIsSound DEF SelectFacility

\* Later ones change what the user hears, or release the call.
LEMMA RemoteEventIsSound ==
  ASSUME NEW c, NEW t, Begun(c, t), NEW m \in Msgs, m = Head(ctx[c].q),
         NEW npsm, ShapeOf(ctx[c], npsm), npsm # "Idle", t.h.npsm = IcNext(npsm, m.sig),
         IcNext(npsm, m.sig) # Nil
  PROVE  Sound(c, RemoteEvent(t, m))
<1>1. TransForm(t) /\ t.h.user = ctx[c].user /\ t.h.model = ctx[c].model
      /\ t.h.st = ctx[c].st
  BY DEF Begun, Fresh, Kept
<1>2. m.sig \in {"EOS", "ALT", "ANM", "SUS", "RES", "REL"}
  BY IamOnlyWhenIdle
<1>3. m.sig = "REL" => m.arg \in {ToneCause, IdleCause} /\ t.h.npsm \in {"Idle", Nil}
  BY MsgFacts DEF IcNext, Move
<1>4. m \notin Onhooks /\ m \notin Offhooks
  BY <1>2, MsgFacts
<1>5. CASE m.sig = "REL"
  <2>1. Begun(c, StopTimer(t))
    BY TimersAreBegun
  <2>2. Sound(c, ClearCall(StopTimer(t), m.arg)) /\ Sound(c, ReleaseCall(t, m.arg))
    BY <1>1, <1>3, <1>5, <2>1, ClearCallIsSound, ReleaseCallIsSound DEF ShapeOf
  <2> QED BY <1>5, <2>2 DEF RemoteEvent, RemoteRelease
<1>6. CASE m.sig # "REL"
  <2>1. ctx[c].model # "Tbc"
    BY <1>2, <1>6, TerminatingMoves DEF ShapeOf
  <2>2. ctx[c].st \in {"Sc", "Oa", "Ac", "Rs"} /\ ctx[c].user \in Users
        /\ ctx[c].timer \in TimerIds \cup {Nil}
    BY <2>1 DEF ShapeOf, Timed, Attended
  <2>3. ASSUME NEW st \in {"Sc", "Oa", "Ac", "Rs"} PROVE Sound(c, Go(t, st))
    <3> DEFINE r == Go(t, st)
    <3>1. Is(r, t.nu, t.cip, st, t.h.user, t.h.model, t.h.npsm, t.h.timer, t.h.q)
      BY <1>1, GoIs
    <3> HIDE DEF r
    <3>2. ShapeOf(r.h, NetState(r))
      BY <1>1, <2>1, <2>2, <2>3, <3>1 DEF Is, ShapeOf, Timed, Attended, Begun
    <3>3. Sound(c, r)
      BY <1>4, <2>2, <2>3, <3>1, <3>2, ShelfFacts
         DEF Is, Sound, Begun, ShelfMsgs, Attended, Presenting
    <3> QED BY <3>3 DEF r
  <2>4. Sound(c, t)
    <3>1. ShapeOf(t.h, t.h.npsm)
      BY <1>1, <2>1, <2>2 DEF ShapeOf, Timed, Attended, Begun
    <3> QED BY <1>4, <3>1, StayIsSound
  <2> QED BY <1>2, <1>6, <2>3, <2>4 DEF RemoteEvent
<1> QED BY <1>5, <1>6

\* that of the other half's messages,
LEMMA RemoteEnds ==
  ASSUME CallInv, NEW c \in Contexts, AnalyzeRemoteMessage(c)
  PROVE  Ends(c)
<1> DEFINE m == Head(ctx[c].q)
           b == Begin(c)
           t == StopIamTimer(b)
           s == IcNext(t.h.npsm, m.sig)
           n == [t EXCEPT !.h.npsm = s]
           r == CASE ~NetPort(ctx[c]) -> t
                  [] NetPort(ctx[c]) /\ s = Nil -> ReleaseCall(t, IdleCause)
                  [] OTHER -> RemoteEvent(n, m)
<1>1. /\ ctx[c].st # "Free" /\ ctx[c].q # <<>> /\ m.port = "N"
      /\ EndOfTransaction(c, r)
  BY DEF AnalyzeRemoteMessage, FromNet, CallInv, IInv, ContextInv, NoCall
<1>2. /\ Fresh(c, b) /\ Begun(c, b) /\ m \in Msgs
      /\ b.h.npsm = ctx[c].npsm /\ b.h.user = ctx[c].user
      /\ b.h.model = ctx[c].model /\ b.h.st = ctx[c].st /\ b.h.timer = ctx[c].timer
      /\ ctx[c].st # "Ready" => ShapeOf(ctx[c], ctx[c].npsm)
      /\ ctx[c].st = "Ready" =>
           ctx[c].model = "Tbc" /\ ctx[c].npsm = "Idle" /\ ctx[c].user = Nil /\ m.sig = "IAM"
  BY <1>1, HandlerBegins, BeginIsBegun DEF CallInv
<1>3. m \notin Onhooks
  BY <1>1, <1>2, MsgFacts
<1> HIDE DEF b
<1>4. /\ Fresh(c, t) /\ Begun(c, t) /\ t.h.npsm = ctx[c].npsm /\ t.h.timer = ctx[c].timer
  BY <1>2, TimersAreBegun, TimersAreFresh
<1>a. t.h.user = ctx[c].user /\ t.h.model = ctx[c].model /\ t.h.st = ctx[c].st
      /\ t.h.user \in Users \cup {Nil}
  BY <1>2, <1>4 DEF Begun, Fresh, Kept, ShapeOf
<1> HIDE DEF t
<1>5. Fresh(c, n) /\ Begun(c, n) /\ n.h.npsm = s
  BY <1>4, NpsmIsFresh, NpsmIsBegun
<1>b. n.h.model = ctx[c].model
  BY <1>5 DEF Fresh, Kept
<1> HIDE DEF n
<1>6. ASSUME NetPort(ctx[c]), s # Nil
      PROVE  Complete(c, RemoteEvent(n, m)) /\ Sound(c, RemoteEvent(n, m))
  <2>1. /\ m.sig \in {"IAM", "EOS", "ALT", "ANM", "SUS", "RES", "REL"}
        /\ m.sig = "IAM" => ctx[c].npsm = "Idle"
    BY <1>4, <1>6, IamOnlyWhenIdle
  <2>2. m.sig = "IAM" => ctx[c].user = Nil
    BY <1>2, <1>6, <2>1 DEF NetPort
  <2>3. Complete(c, RemoteEvent(n, m))
    <3> HIDE DEF m, s
    <3> QED BY <1>5, <2>1, <2>2, RemoteEventIsComplete
  <2>4. CASE ctx[c].st = "Ready"
    <3>1. m.sig = "IAM" /\ m.arg \in Users /\ s = "IamRcvd"
      BY <1>2, <1>4, <1>6, <2>4, MsgFacts, IamIsReceived
    <3>2. Sound(c, SelectFacility(n, m.arg))
      BY <1>2, <1>5, <1>b, <2>4, <3>1, IamIsSound
    <3> QED BY <2>3, <3>1, <3>2 DEF RemoteEvent
  <2>5. CASE ctx[c].st # "Ready"
    <3>1. ctx[c].npsm # "Idle"
      BY <1>6, <2>5 DEF NetPort
    <3>2. Sound(c, RemoteEvent(n, m))
      BY <1>2, <1>4, <1>5, <1>6, <2>5, <3>1, RemoteEventIsSound
    <3> QED BY <2>3, <3>2
  <2> QED BY <2>4, <2>5
<1>7. Complete(c, t) /\ Complete(c, ReleaseCall(t, IdleCause))
  BY <1>4, FreshIsComplete, ReleaseCallIsComplete
<1>8. ~NetPort(ctx[c]) => Sound(c, t)
  <2>1. ~NetPort(ctx[c]) => ctx[c].st # "Ready"
    BY <1>2 DEF NetPort
  <2>2. ctx[c].st # "Ready" => ShapeOf(t.h, t.h.npsm)
    BY <1>2, <1>4, <1>a DEF ShapeOf
  <2> QED BY <1>3, <1>4, <2>1, <2>2, StayIsSound
<1>9. Sound(c, ReleaseCall(t, IdleCause))
  BY <1>4, <1>a, ReleaseCallIsSound DEF IdleCause, ToneCause
<1> HIDE DEF s, m
<1>10. Complete(c, r) /\ Sound(c, r)
  BY <1>6, <1>7, <1>8, <1>9
<1> HIDE DEF r
<1> QED BY <1>1, <1>10 DEF Ends

\* and that of timeouts.
LEMMA TimeoutEnds ==
  ASSUME CallInv, NEW c \in Contexts, AnalyzeNPsmTimeout(c)
  PROVE  Ends(c)
<1> DEFINE b == Begin(c)
           m == Head(ctx[c].q)
           r == CASE ~NetPort(ctx[c]) -> b
                  [] NetPort(ctx[c]) /\ m.arg = "Iam" -> ReleaseCall(b, IdleCause)
                  [] OTHER -> ClearCall(ClearTimer(b), ToneCause)
<1>1. /\ ctx[c].st # "Free" /\ ctx[c].q # <<>> /\ m.port = "N" /\ m.sig = "Timeout"
      /\ EndOfTransaction(c, r)
  BY DEF AnalyzeNPsmTimeout, FromNet, CallInv, IInv, ContextInv, NoCall
<1>2. /\ Fresh(c, b) /\ Begun(c, b) /\ m \in Msgs
      /\ ctx[c].st # "Ready" => ShapeOf(b.h, b.h.npsm)
      /\ ctx[c].st = "Ready" => ctx[c].model = "Tbc" /\ m.sig = "IAM"
  BY <1>1, HandlerBegins
<1>3. m \notin Onhooks
  BY <1>1, <1>2, MsgFacts
<1> HIDE DEF b
<1>4. Fresh(c, ClearTimer(b)) /\ Begun(c, ClearTimer(b))
  BY <1>2, TimersAreBegun, TimersAreFresh
<1>5. Complete(c, r)
  BY <1>2, <1>4, FreshIsComplete, ReleaseCallIsComplete, ClearCallIsComplete
<1>6. ctx[c].st # "Ready" /\ b.h.user \in Users
  BY <1>1, <1>2 DEF ShapeOf
<1>7. Sound(c, b) /\ Sound(c, ReleaseCall(b, IdleCause))
      /\ Sound(c, ClearCall(ClearTimer(b), ToneCause))
  BY <1>2, <1>3, <1>4, <1>6, StayIsSound, ReleaseCallIsSound, ClearCallIsSound
     DEF IdleCause, ToneCause
<1> HIDE DEF m
<1>8. Sound(c, r)
  BY <1>7
<1> HIDE DEF r
<1> QED BY <1>1, <1>5, <1>8 DEF Ends

\* What a transaction does to contexts: its own, the one that its IAM creates, and
\* the one of the other half.
LEMMA EndOfTransactionEffect ==
  ASSUME IInv, NEW c \in Contexts, ctx[c].st # "Free", NEW t, Complete(c, t),
         EndOfTransaction(c, t)
  PROVE  /\ \E new : ctx'[c] = AfterTransaction(t, new)
         /\ \A d \in Contexts \ {c} :
              \/ ctx'[d] = ctx[d]
              \/ /\ ctx[d].st = "Free" /\ NetMsgs(t) # <<>> /\ NetMsgs(t)[1].sig = "IAM"
                 /\ ctx'[d] = Tbc(c, NetMsgs(t)[1])
              \/ NetPort(ctx[d]) /\ ctx'[d] = [ctx[d] EXCEPT !.q = @ \o NetMsgs(t)]
         /\ circuit' = circuit /\ toCall' = toCall
         /\ HasUser(t) => toShelf' = [toShelf EXCEPT ![t.h.user] = @ \o UserMsgs(t)]
         /\ ~HasUser(t) => toShelf' = toShelf
<1> DEFINE msgs == NetMsgs(t)
           iam  == msgs # <<>> /\ msgs[1].sig = "IAM"
           new  == IF iam THEN NewContext ELSE Nil
           p    == t.h.peer
           h    == AfterTransaction(t, new)
           mine == [ctx EXCEPT ![c] = h]
           Queued == ~iam /\ msgs # <<>> /\ p # Nil /\ ctx[p].peer = c /\ NetPort(ctx[p])
<1>1. iam => new \in Contexts /\ ctx[new].st = "Free" /\ new # c
  BY NewContextIsUnused DEF EndOfTransaction
<1>2. ctx' = CASE iam -> [mine EXCEPT ![new] = Tbc(c, msgs[1])]
               [] Queued -> [mine EXCEPT ![p].q = @ \o msgs]
               [] OTHER -> mine
  BY DEF EndOfTransaction
<1>3. p = ctx[c].peer /\ (p # c \/ p = Nil)
  BY DEF Complete, Kept, IInv, ContextInv
<1>4. ctx = [d \in Contexts |-> ctx[d]]
  BY DEF IInv, FormInv
<1>5. /\ circuit' = circuit /\ toCall' = toCall
      /\ HasUser(t) => toShelf' = [toShelf EXCEPT ![t.h.user] = @ \o UserMsgs(t)]
      /\ ~HasUser(t) => toShelf' = toShelf
  BY DEF EndOfTransaction
<1>6. h = AfterTransaction(t, new)
  OBVIOUS
<1> HIDE DEF msgs, new, h, p
<1>7. /\ ctx'[c] = h
      /\ \A d \in Contexts \ {c} :
           \/ ctx'[d] = ctx[d]
           \/ iam /\ d = new /\ ctx'[d] = Tbc(c, msgs[1])
           \/ NetPort(ctx[d]) /\ ctx'[d] = [ctx[d] EXCEPT !.q = @ \o msgs]
  <2>1. CASE iam
    BY <1>1, <1>2, <1>4, <2>1
  <2>2. CASE Queued
    BY <1>2, <1>3, <1>4, <2>2
  <2>3. CASE ~iam /\ ~Queued
    BY <1>2, <1>4, <2>3
  <2> QED BY <2>1, <2>2, <2>3
<1>8. \A d \in Contexts \ {c} :
        \/ ctx'[d] = ctx[d]
        \/ /\ ctx[d].st = "Free" /\ msgs # <<>> /\ msgs[1].sig = "IAM"
           /\ ctx'[d] = Tbc(c, msgs[1])
        \/ NetPort(ctx[d]) /\ ctx'[d] = [ctx[d] EXCEPT !.q = @ \o msgs]
  BY <1>1, <1>7
<1>9. \E x : ctx'[c] = AfterTransaction(t, x)
  BY <1>6, <1>7
<1> QED BY <1>5, <1>8, <1>9 DEF msgs

\* The messages to the other half,
LEMMA NetMsgsFacts ==
  ASSUME NEW c, NEW t, Sound(c, t)
  PROVE  NetMsgs(t) \in Seq(CipMsgs)
<1> DEFINE a == IF t.cip # Nil /\ OgNext(t.h.npsm, t.cip.sig) # Nil THEN <<t.cip>> ELSE <<>>
           b == IF t.h.st = "Null" /\ NetState(t) # "Idle"
                  THEN <<Cip("REL", IdleCause)>> ELSE <<>>
<1>1. a \in Seq(CipMsgs)
  BY DEF Sound
<1>2. b \in Seq(CipMsgs)
  BY DEF CipMsgs
<1>3. NetMsgs(t) = a \o b
  BY DEF NetMsgs
<1> HIDE DEF a, b
<1> QED BY <1>1, <1>2, <1>3, ConcatProperties

\* the circuit's own,
LEMMA UserMsgsFacts ==
  ASSUME NEW c, NEW t, Sound(c, t), NEW s \in Seq(ShelfMsgs)
  PROVE  LET r == s \o UserMsgs(t)
         IN /\ r \in Seq(ShelfMsgs)
            /\ t.h.st \notin Presenting =>
                 /\ Has(s, Stops) => Has(r, Stops)
                 /\ Pending(r, RingOns, Stops) => Pending(s, RingOns, Stops)
                 /\ t.nu \in Stops => Has(r, Stops) /\ ~Pending(r, RingOns, Stops)
<1> DEFINE b == IF t.h.st = "Null" /\ HasUser(t) /\ t.nu \notin {Release, Lockout}
                   THEN <<Release>> ELSE <<>>
           a == Queue(t.nu)
           x == s \o a
           r == s \o UserMsgs(t)
           Better(s1, s2) == /\ s2 \in Seq(ShelfMsgs)
                             /\ t.h.st \notin Presenting =>
                                  /\ Has(s1, Stops) => Has(s2, Stops)
                                  /\ Pending(s2, RingOns, Stops) => Pending(s1, RingOns, Stops)
<1>1. a \in Seq(ShelfMsgs) /\ b \in Seq(ShelfMsgs)
  <2>1. t.nu \in ShelfMsgs \cup {Nil} /\ Release \in ShelfMsgs
    BY DEF Sound, ShelfMsgs
  <2>2. a \in Seq(ShelfMsgs)
    BY <2>1 DEF Queue
  <2>3. b \in Seq(ShelfMsgs)
    BY <2>1
  <2> QED BY <2>2, <2>3
<1>2. r = x \o b
  <2>1. UserMsgs(t) = a \o b
    BY DEF UserMsgs
  <2> HIDE DEF a, b
  <2> QED BY <1>1, <2>1, ConcatAssociative
<1>3. ASSUME NEW s1 \in Seq(ShelfMsgs), NEW m \in ShelfMsgs
      PROVE  /\ s1 \o <<m>> \in Seq(ShelfMsgs)
             /\ Has(s1 \o <<m>>, Stops) <=> Has(s1, Stops) \/ m \in Stops
             /\ Pending(s1 \o <<m>>, RingOns, Stops)
                  <=> m = RingOn \/ (Pending(s1, RingOns, Stops) /\ m \notin Stops)
  <2>1. s1 \o <<m>> = Append(s1, m)
    BY AppendIsConcat
  <2>2. m \in RingOns <=> m = RingOn
    BY DEF RingOns
  <2>3. LET y == Append(s1, m)
        IN /\ y \in Seq(ShelfMsgs)
           /\ Has(y, Stops) <=> Has(s1, Stops) \/ m \in Stops
           /\ Pending(y, RingOns, Stops)
                <=> m \in RingOns \/ (Pending(s1, RingOns, Stops) /\ m \notin Stops)
    BY AppendHas
  <2> QED BY <2>1, <2>2, <2>3
<1>4. \A s1 \in Seq(ShelfMsgs) : s1 \o <<>> = s1
  BY ConcatEmptySeq
<1>5. Better(s, x) /\ (t.h.st \notin Presenting /\ t.nu \in Stops
                         => Has(x, Stops) /\ ~Pending(x, RingOns, Stops))
  <2>1. CASE t.nu = Nil
    <3>1. x = s
      BY <1>4, <2>1 DEF Queue
    <3> QED BY <2>1, <3>1, ShelfFacts
  <2>2. CASE t.nu # Nil
    <3>1. x = s \o <<t.nu>> /\ t.nu \in ShelfMsgs
      BY <2>2 DEF Queue, Sound
    <3>2. t.h.st \notin Presenting => t.nu # RingOn
      BY DEF Sound, Presenting
    <3> HIDE DEF x
    <3> QED BY <1>3, <3>1, <3>2
  <2> QED BY <2>1, <2>2
<1> HIDE DEF x
<1>6. Better(x, r) /\ (Has(x, Stops) => Has(r, Stops))
  <2>1. CASE b = <<>>
    BY <1>2, <1>4, <1>5, <2>1
  <2>2. CASE b = <<Release>>
    <3>1. Release \in ShelfMsgs /\ Release \in Stops /\ Release # RingOn
      BY ShelfFacts DEF ShelfMsgs, Stops
    <3>2. r = x \o <<Release>> /\ x \in Seq(ShelfMsgs)
      BY <1>2, <1>5, <2>2
    <3> HIDE DEF r
    <3> QED BY <1>3, <3>1, <3>2
  <2>3. b = <<>> \/ b = <<Release>>
    OBVIOUS
  <2> QED BY <2>1, <2>2, <2>3
<1> HIDE DEF r
<1>7. /\ r \in Seq(ShelfMsgs)
      /\ t.h.st \notin Presenting =>
           /\ Has(s, Stops) => Has(r, Stops)
           /\ Pending(r, RingOns, Stops) => Pending(s, RingOns, Stops)
           /\ t.nu \in Stops => Has(r, Stops) /\ ~Pending(r, RingOns, Stops)
  BY <1>5, <1>6
<1> QED BY <1>7 DEF r

\* and the contexts that it leaves.
LEMMA AfterIs ==
  ASSUME NEW c, NEW t, Complete(c, t), Sound(c, t), NEW new
  PROVE  LET h == AfterTransaction(t, new)
         IN /\ t.h.st = "Null" => h = NoCall
            /\ t.h.st # "Null" => /\ h.st = t.h.st /\ h.user = t.h.user /\ h.q = t.h.q
                                  /\ ShapeOf(h, h.npsm)
<1> DEFINE h == AfterTransaction(t, new)
<1>1. t.h.st = "Null" => h = NoCall
  BY DEF AfterTransaction
<1>2. ASSUME t.h.st # "Null"
      PROVE  /\ h.st = t.h.st /\ h.user = t.h.user /\ h.q = t.h.q /\ h.model = t.h.model
             /\ h.timer = t.h.timer /\ h.npsm = NetState(t)
  <2> DEFINE p == IF NetState(t) = "Idle" THEN Nil ELSE IF new # Nil THEN new ELSE t.h.peer
             g == [t.h EXCEPT !.npsm = NetState(t), !.peer = p]
  <2>1. h = g
    BY <1>2 DEF AfterTransaction
  <2>2. HalfForm(t.h)
    BY DEF Complete, Kept, TransForm
  <2> HIDE DEF p
  <2>3. /\ g.st = t.h.st /\ g.user = t.h.user /\ g.q = t.h.q /\ g.model = t.h.model
        /\ g.timer = t.h.timer /\ g.npsm = NetState(t)
    BY <2>2 DEF HalfForm
  <2> QED BY <2>1, <2>3
<1> HIDE DEF h
<1>3. t.h.st # "Null" => ShapeOf(h, h.npsm)
  BY <1>2 DEF Sound, ShapeOf
<1> QED BY <1>1, <1>2, <1>3 DEF h

\* The half call that an IAM creates.
LEMMA TbcIs ==
  ASSUME NEW c, NEW m
  PROVE  LET g == Tbc(c, m)
         IN /\ g.st = "Ready" /\ g.user = Nil /\ g.model = "Tbc" /\ g.npsm = "Idle"
            /\ g.timer = Nil /\ g.q = <<m>>
<1> DEFINE g1 == [NoCall EXCEPT !.st = "Ready"]
           g2 == [g1 EXCEPT !.model = "Tbc"]
           g3 == [g2 EXCEPT !.peer = c]
           g4 == [g3 EXCEPT !.q = <<m>>]
<1>1. HalfForm(g1) /\ g1.st = "Ready" /\ g1.user = Nil /\ g1.npsm = "Idle" /\ g1.timer = Nil
  BY DEF NoCall, HalfForm
<1> HIDE DEF g1
<1>2. /\ HalfForm(g2) /\ g2.st = "Ready" /\ g2.user = Nil /\ g2.npsm = "Idle"
      /\ g2.timer = Nil /\ g2.model = "Tbc"
  BY <1>1 DEF HalfForm
<1> HIDE DEF g2
<1>3. /\ HalfForm(g3) /\ g3.st = "Ready" /\ g3.user = Nil /\ g3.npsm = "Idle"
      /\ g3.timer = Nil /\ g3.model = "Tbc"
  BY <1>2 DEF HalfForm
<1> HIDE DEF g3
<1>4. /\ g4.st = "Ready" /\ g4.user = Nil /\ g4.npsm = "Idle"
      /\ g4.timer = Nil /\ g4.model = "Tbc" /\ g4.q = <<m>>
  BY <1>3 DEF HalfForm
<1>5. Tbc(c, m) = g4
  BY DEF Tbc, g1, g2, g3
<1> QED BY <1>4, <1>5

\* A new queue field leaves the rest.
LEMMA QueuedIs ==
  ASSUME NEW h, HalfForm(h), NEW q
  PROVE  LET g == [h EXCEPT !.q = q]
         IN /\ g.st = h.st /\ g.user = h.user /\ g.model = h.model /\ g.npsm = h.npsm
            /\ g.timer = h.timer /\ g.q = q
  BY DEF HalfForm

\* The queue of a half call that was just created.
LEMMA SmallQueues ==
  ASSUME NEW m \in Msgs
  PROVE  /\ <<m>> \in Seq(Msgs) /\ Single(<<m>>) /\ Single(<<>>) /\ <<>> \in Seq(Msgs)
         /\ Has(<<m>>, Onhooks) <=> m \in Onhooks
         /\ Pending(<<m>>, Offhooks, Onhooks) <=> m \in Offhooks
<1>1. Len(<<m>>) = 1 /\ <<m>>[1] = m /\ Len(<<>>) = 0
  OBVIOUS
<1>2. <<m>> \in Seq(Msgs) /\ <<>> \in Seq(Msgs)
  OBVIOUS
<1> DEFINE s == <<m>>
<1> HIDE DEF s
<1>3. Len(s) = 1 /\ s[1] = m
  BY <1>1 DEF s
<1>4. Single(s)
  BY <1>3 DEF Single
<1>5. Single(<<>>)
  BY <1>1 DEF Single
<1>6. Has(s, Onhooks) <=> m \in Onhooks
  BY <1>3 DEF Has
<1>7. Pending(s, Offhooks, Onhooks) <=> m \in Offhooks
  BY <1>3 DEF Pending
<1> QED BY <1>2, <1>4, <1>5, <1>6, <1>7 DEF s

\* Messages of the other half come after what is queued.
LEMMA ConcatCip ==
  ASSUME NEW s \in Seq(Msgs), Single(s), NEW t \in Seq(CipMsgs)
  PROVE  LET r == s \o t
         IN /\ r \in Seq(Msgs) /\ Single(r)
            /\ s # <<>> => r # <<>> /\ r[1] = s[1]
            /\ Has(r, Onhooks) <=> Has(s, Onhooks)
            /\ Pending(r, Offhooks, Onhooks) => Pending(s, Offhooks, Onhooks)
            /\ (\A i \in 1 .. Len(s) : s[i].port = "N") =>
                  \A i \in 1 .. Len(r) : r[i].port = "N"
<1> DEFINE r == s \o t
           n == Len(s)
           k == Len(t)
<1>1. \A i \in 1 .. Len(t) : t[i] \in CipMsgs
  BY LenProperties
<1>2. \A i \in 1 .. Len(t) : t[i] \in Msgs /\ t[i].port = "N" /\ t[i] \notin Offhooks
         /\ t[i] \notin Onhooks /\ t[i] \notin Timeouts
  BY <1>1, CipFacts
<1>3. t \in Seq(Msgs)
  <2>1. t \in [1 .. Len(t) -> Msgs] /\ Len(t) \in Nat
    BY <1>2, LenProperties
  <2> QED BY <2>1
<1>4. /\ r \in Seq(Msgs) /\ Len(r) = Len(s) + Len(t)
      /\ s # <<>> => r # <<>> /\ r[1] = s[1]
      /\ Has(r, Onhooks) <=> Has(s, Onhooks)
      /\ Pending(r, Offhooks, Onhooks) => Pending(s, Offhooks, Onhooks)
  BY <1>2, <1>3, ConcatHas
<1>5. /\ n \in Nat /\ k \in Nat /\ Len(r) = n + k
      /\ \A i \in 1 .. n + k : r[i] = IF i <= n THEN s[i] ELSE t[i - n]
  BY <1>3, LenProperties, ConcatProperties
<1> HIDE DEF r, n, k
<1>6. \A i \in 1 .. Len(r) :
        \/ i \in 1 .. n /\ r[i] = s[i]
        \/ r[i].port = "N" /\ r[i] \notin Timeouts
  <2> SUFFICES ASSUME NEW i \in 1 .. Len(r), i \notin 1 .. n
               PROVE  r[i].port = "N" /\ r[i] \notin Timeouts
    BY <1>5
  <2>1. r[i] = t[i - n] /\ i - n \in 1 .. k
    BY <1>5
  <2> QED BY <1>2, <2>1 DEF k
<1>7. Single(r)
  BY <1>6 DEF Single, n
<1>8. (\A i \in 1 .. Len(s) : s[i].port = "N") => \A i \in 1 .. Len(r) : r[i].port = "N"
  BY <1>6 DEF n
<1> QED BY <1>4, <1>7, <1>8 DEF r

-----------------------------------------------------------------------------
(* What a transaction leaves: its own half call, half calls that receive   *)
(* messages from it, and one that its IAM starts.                          *)

Ended(t, g) ==
  \/ t.h.st = "Null" /\ g = NoCall
  \/ /\ t.h.st # "Null" /\ ShapeOf(g, g.npsm)
     /\ g.st = t.h.st /\ g.user = t.h.user /\ g.q = t.h.q

Grown(h, g) ==
  /\ g.st = h.st /\ g.user = h.user /\ g.model = h.model /\ g.npsm = h.npsm
  /\ g.timer = h.timer /\ g.q \in Seq(Msgs) /\ Single(g.q)
  /\ h.q # <<>> => g.q # <<>> /\ g.q[1] = h.q[1]
  /\ Has(g.q, Onhooks) <=> Has(h.q, Onhooks)
  /\ Pending(g.q, Offhooks, Onhooks) => Pending(h.q, Offhooks, Onhooks)
  /\ (\A i \in 1 .. Len(h.q) : h.q[i].port = "N") => \A i \in 1 .. Len(g.q) : g.q[i].port = "N"
  /\ g = h \/ NetPort(h)

Called(g) ==
  /\ g.st = "Ready" /\ g.user = Nil /\ g.model = "Tbc" /\ g.npsm = "Idle" /\ g.timer = Nil
  /\ g.q \in Seq(Msgs) /\ Single(g.q) /\ g.q # <<>> /\ g.q[1].sig = "IAM"
  /\ \A i \in 1 .. Len(g.q) : g.q[i].port = "N"

\* A half call that receives messages from the other half keeps the rest.
LEMMA QueuedIsGrown ==
  ASSUME NEW h, HalfForm(h), h.q \in Seq(Msgs), Single(h.q), NetPort(h),
         NEW ms \in Seq(CipMsgs)
  PROVE  Grown(h, [h EXCEPT !.q = @ \o ms])
<1> DEFINE g == [h EXCEPT !.q = @ \o ms]
           q == h.q \o ms
<1>1. /\ g.st = h.st /\ g.user = h.user /\ g.model = h.model /\ g.npsm = h.npsm
      /\ g.timer = h.timer /\ g.q = q
  BY DEF HalfForm
<1> HIDE DEF g
<1>2. /\ q \in Seq(Msgs) /\ Single(q)
      /\ h.q # <<>> => q # <<>> /\ q[1] = h.q[1]
      /\ Has(q, Onhooks) <=> Has(h.q, Onhooks)
      /\ Pending(q, Offhooks, Onhooks) => Pending(h.q, Offhooks, Onhooks)
      /\ (\A i \in 1 .. Len(h.q) : h.q[i].port = "N") => \A i \in 1 .. Len(q) : q[i].port = "N"
  BY ConcatCip
<1> HIDE DEF q
<1>3. Grown(h, g)
  BY <1>1, <1>2 DEF Grown
<1> QED BY <1>3 DEF g

\* One that receives nothing keeps everything.
LEMMA SameIsGrown ==
  ASSUME NEW h, h.q \in Seq(Msgs), Single(h.q)
  PROVE  Grown(h, h)
  BY DEF Grown

\* A half call that an IAM starts has yet to look at it.
LEMMA TbcIsCalled ==
  ASSUME NEW c, NEW m \in CipMsgs, m.sig = "IAM"
  PROVE  Called(Tbc(c, m))
<1> DEFINE g == Tbc(c, m)
           s == <<m>>
<1>1. /\ g.st = "Ready" /\ g.user = Nil /\ g.model = "Tbc" /\ g.npsm = "Idle"
      /\ g.timer = Nil /\ g.q = s
  BY TbcIs
<1>2. m \in Msgs /\ m.port = "N"
  BY CipFacts
<1>3. s \in Seq(Msgs) /\ Single(s)
  BY <1>2, SmallQueues
<1>4. Len(s) = 1 /\ s[1] = m /\ s # <<>>
  OBVIOUS
<1> HIDE DEF g, s
<1>5. Called(g)
  BY <1>1, <1>2, <1>3, <1>4 DEF Called
<1> QED BY <1>5 DEF g

\* The outcome of a transaction.
LEMMA OutcomeIs ==
  ASSUME CallInv, NEW c \in Contexts, ctx[c].st # "Free", NEW t, Complete(c, t), Sound(c, t),
         EndOfTransaction(c, t)
  PROVE  /\ Ended(t, ctx'[c])
         /\ \A d \in Contexts \ {c} :
              Grown(ctx[d], ctx'[d]) \/ (ctx[d].st = "Free" /\ Called(ctx'[d]))
         /\ circuit' = circuit /\ toCall' = toCall
         /\ toShelf' = [u \in Users |-> toShelf'[u]]
         /\ \A u \in Users :
              toShelf'[u] = IF u = t.h.user THEN toShelf[u] \o UserMsgs(t) ELSE toShelf[u]
<1>1. IInv /\ MsgsInv /\ TimeoutInv
  BY DEF CallInv
<1>2. /\ \E new : ctx'[c] = AfterTransaction(t, new)
      /\ \A d \in Contexts \ {c} :
           \/ ctx'[d] = ctx[d]
           \/ /\ ctx[d].st = "Free" /\ NetMsgs(t) # <<>> /\ NetMsgs(t)[1].sig = "IAM"
              /\ ctx'[d] = Tbc(c, NetMsgs(t)[1])
           \/ NetPort(ctx[d]) /\ ctx'[d] = [ctx[d] EXCEPT !.q = @ \o NetMsgs(t)]
      /\ circuit' = circuit /\ toCall' = toCall
      /\ HasUser(t) => toShelf' = [toShelf EXCEPT ![t.h.user] = @ \o UserMsgs(t)]
      /\ ~HasUser(t) => toShelf' = toShelf
  BY <1>1, EndOfTransactionEffect
<1>3. Ended(t, ctx'[c])
  <2>1. PICK new : ctx'[c] = AfterTransaction(t, new)
    BY <1>2
  <2> QED BY <2>1, AfterIs DEF Ended
<1>4. ASSUME NEW d \in Contexts \ {c}
      PROVE  Grown(ctx[d], ctx'[d]) \/ (ctx[d].st = "Free" /\ Called(ctx'[d]))
  <2> DEFINE h == ctx[d]
             ms == NetMsgs(t)
  <2>1. HalfForm(h) /\ h.q \in Seq(Msgs) /\ Single(h.q)
    BY <1>1 DEF IInv, FormInv, MsgsInv, TimeoutInv
  <2>2. ms \in Seq(CipMsgs)
    BY NetMsgsFacts
  <2>3. \/ ctx'[d] = h
        \/ h.st = "Free" /\ ms # <<>> /\ ms[1].sig = "IAM" /\ ctx'[d] = Tbc(c, ms[1])
        \/ NetPort(h) /\ ctx'[d] = [h EXCEPT !.q = @ \o ms]
    BY <1>2
  <2> HIDE DEF h, ms
  <2>4. CASE ctx'[d] = h
    BY <2>1, <2>4, SameIsGrown DEF h
  <2>5. CASE h.st = "Free" /\ ms # <<>> /\ ms[1].sig = "IAM" /\ ctx'[d] = Tbc(c, ms[1])
    <3>1. ms[1] \in CipMsgs
      BY <2>2, <2>5
    <3>2. Called(Tbc(c, ms[1]))
      BY <2>5, <3>1, TbcIsCalled
    <3> QED BY <2>5, <3>2 DEF h
  <2>6. CASE NetPort(h) /\ ctx'[d] = [h EXCEPT !.q = @ \o ms]
    <3>1. Grown(h, [h EXCEPT !.q = @ \o ms])
      BY <2>1, <2>2, <2>6, QueuedIsGrown
    <3> QED BY <2>6, <3>1 DEF h
  <2> QED BY <2>3, <2>4, <2>5, <2>6
<1>5. /\ toShelf' = [u \in Users |-> toShelf'[u]]
      /\ \A u \in Users :
           toShelf'[u] = IF u = t.h.user THEN toShelf[u] \o UserMsgs(t) ELSE toShelf[u]
  <2> DEFINE ms == UserMsgs(t)
  <2>1. toShelf \in [Users -> Seq(ShelfMsgs)] /\ Nil \notin Users
    BY <1>1, CallAssumption DEF MsgsInv
  <2>2. \/ toShelf' = [toShelf EXCEPT ![t.h.user] = @ \o ms]
        \/ t.h.user = Nil /\ toShelf' = toShelf
    BY <1>2 DEF HasUser
  <2> HIDE DEF ms
  <2>3. /\ toShelf' = [u \in Users |-> toShelf'[u]]
        /\ \A u \in Users : toShelf'[u] = IF u = t.h.user THEN toShelf[u] \o ms ELSE toShelf[u]
    BY <2>1, <2>2
  <2> QED BY <2>3 DEF ms
<1> QED BY <1>2, <1>3, <1>4, <1>5

\* An empty queue is a proper queue.
LEMMA EmptyIsSingle == <<>> \in Seq(Msgs) /\ Single(<<>>)
<1>1. Len(<<>>) = 0
  OBVIOUS
<1> QED BY <1>1 DEF Single

\* It leaves proper messages and queues,
LEMMA EndKeepsMsgs ==
  ASSUME CallInv, NEW c \in Contexts, ctx[c].st # "Free", NEW t, Complete(c, t), Sound(c, t),
         EndOfTransaction(c, t)
  PROVE  MsgsInv' /\ TimeoutInv'
<1>1. /\ Ended(t, ctx'[c])
      /\ \A d \in Contexts \ {c} :
           Grown(ctx[d], ctx'[d]) \/ (ctx[d].st = "Free" /\ Called(ctx'[d]))
      /\ circuit' = circuit /\ toCall' = toCall
      /\ toShelf' = [u \in Users |-> toShelf'[u]]
      /\ \A u \in Users :
           toShelf'[u] = IF u = t.h.user THEN toShelf[u] \o UserMsgs(t) ELSE toShelf[u]
  BY OutcomeIs
<1>2. MsgsInv
  BY DEF CallInv
<1>3. ASSUME NEW d \in Contexts PROVE ctx'[d].q \in Seq(Msgs) /\ Single(ctx'[d].q)
  <2>1. CASE d # c
    BY <1>1, <2>1 DEF Grown, Called
  <2>2. CASE d = c /\ t.h.st # "Null"
    BY <1>1, <2>2 DEF Ended, Sound, Trimmed
  <2>3. CASE d = c /\ t.h.st = "Null"
    <3>1. ctx'[d].q = <<>>
      BY <1>1, <2>3 DEF Ended, NoCall
    <3> QED BY <3>1, EmptyIsSingle
  <2> QED BY <2>1, <2>2, <2>3
<1>4. ASSUME NEW u \in Users PROVE toShelf'[u] \in Seq(ShelfMsgs)
  <2>1. toShelf[u] \in Seq(ShelfMsgs)
    BY <1>2 DEF MsgsInv
  <2>2. toShelf[u] \o UserMsgs(t) \in Seq(ShelfMsgs)
    BY <2>1, UserMsgsFacts
  <2> QED BY <1>1, <2>1, <2>2
<1>5. toShelf' \in [Users -> Seq(ShelfMsgs)]
  BY <1>1, <1>4
<1> QED BY <1>1, <1>2, <1>3, <1>5 DEF MsgsInv, TimeoutInv

\* half calls that wait as they should,
LEMMA EndKeepsShape ==
  ASSUME CallInv, NEW c \in Contexts, ctx[c].st # "Free", NEW t, Complete(c, t), Sound(c, t),
         EndOfTransaction(c, t)
  PROVE  ShapeInv'
<1>1. /\ Ended(t, ctx'[c])
      /\ \A d \in Contexts \ {c} :
           Grown(ctx[d], ctx'[d]) \/ (ctx[d].st = "Free" /\ Called(ctx'[d]))
  BY OutcomeIs
<1>2. ASSUME NEW d \in Contexts, ctx'[d].st # "Free"
      PROVE  ReadyOf(ctx'[d]) \/ ShapeOf(ctx'[d], ctx'[d].npsm)
  <2> DEFINE g == ctx'[d]
             h == ctx[d]
  <2>1. CASE d = c
    BY <1>1, <1>2, <2>1 DEF Ended, NoCall
  <2>2. CASE Called(g)
    BY <2>2 DEF Called, ReadyOf, NewTbc
  <2>3. CASE Grown(h, g)
    <3>1. ReadyOf(h) \/ ShapeOf(h, h.npsm)
      BY <1>2, <2>3 DEF Grown, CallInv, ShapeInv, Live
    <3>2. CASE ShapeOf(h, h.npsm)
      <4> HIDE DEF g, h
      <4>1. ShapeOf(g, g.npsm)
        BY <2>3, <3>2 DEF Grown, ShapeOf
      <4> QED BY <4>1 DEF g
    <3>3. CASE ReadyOf(h)
      <4> HIDE DEF g, h
      <4>1. CASE g = h
        BY <3>3, <4>1 DEF g
      <4>2. CASE NetPort(h)
        <5>1. h.model = "Tbc" /\ NewTbc(h)
          BY <3>3, <4>2 DEF ReadyOf, NetPort, NewObc
        <5>2. ReadyOf(g)
          BY <2>3, <3>3, <5>1 DEF ReadyOf, NewTbc, Grown
        <5> QED BY <5>2 DEF g
      <4> QED BY <2>3, <4>1, <4>2 DEF Grown
    <3> QED BY <3>1, <3>2, <3>3
  <2> QED BY <1>1, <2>1, <2>2, <2>3
<1> QED BY <1>2 DEF ShapeInv, Live

\* a half call that was presenting a call still does, unless it is the one,
LEMMA EndKeepsPresented ==
  ASSUME NEW c \in Contexts,
         \A d \in Contexts \ {c} :
           Grown(ctx[d], ctx'[d]) \/ (ctx[d].st = "Free" /\ Called(ctx'[d])),
         NEW u \in Users, NEW d \in Contexts \ {c}, UserPort(d, u), ctx[d].st \in Presenting
  PROVE  Presented(u)'
<1>1. ctx[d].st # "Free" /\ d # Nil /\ ctx[d].user = u
  BY DEF UserPort
<1>2. ctx'[d].st = ctx[d].st /\ ctx'[d].user = u
  BY <1>1 DEF Grown
<1> QED BY <1>1, <1>2 DEF Presented, UserPort

\* bells that ring for a call,
LEMMA EndKeepsRing ==
  ASSUME CallInv, NEW c \in Contexts, ctx[c].st # "Free", NEW t, Complete(c, t), Sound(c, t),
         EndOfTransaction(c, t)
  PROVE  RingInv'
<1>1. /\ Ended(t, ctx'[c])
      /\ \A d \in Contexts \ {c} :
           Grown(ctx[d], ctx'[d]) \/ (ctx[d].st = "Free" /\ Called(ctx'[d]))
      /\ circuit' = circuit
      /\ \A u \in Users :
           toShelf'[u] = IF u = t.h.user THEN toShelf[u] \o UserMsgs(t) ELSE toShelf[u]
  BY OutcomeIs
<1>2. RingInv /\ MsgsInv /\ Nil \notin Users /\ Nil \notin Contexts
  BY CallAssumption DEF CallInv
<1>3. ASSUME NEW u \in Users, Presented(u)
      PROVE  Presented(u)' \/ (UserPort(c, u) /\ ctx[c].st \in Presenting)
  <2>1. PICK d \in Contexts : UserPort(d, u) /\ ctx[d].st \in Presenting
    BY <1>3 DEF Presented
  <2>2. CASE d = c
    BY <2>1, <2>2
  <2>3. CASE d # c
    BY <1>1, <2>1, <2>3, EndKeepsPresented
  <2> QED BY <2>2, <2>3
<1>4. ASSUME NEW u \in Users
      PROVE  /\ circuit'[u].ringing => Presented(u)' \/ Has(toShelf'[u], Stops)
             /\ Pending(toShelf'[u], RingOns, Stops) => Presented(u)'
  <2>1. /\ circuit[u].ringing => Presented(u) \/ Has(toShelf[u], Stops)
        /\ Pending(toShelf[u], RingOns, Stops) => Presented(u)
    BY <1>2 DEF RingInv
  <2>2. CASE u # t.h.user
    <3>1. ~UserPort(c, u)
      BY <1>2, <2>2 DEF UserPort, Complete
    <3> QED BY <1>1, <1>3, <2>1, <2>2, <3>1
  <2>3. CASE u = t.h.user /\ t.h.st \in Presenting
    <3>1. ctx'[c].st = t.h.st /\ ctx'[c].user = u /\ t.h.st # "Free"
      BY <1>1, <2>3 DEF Ended, Presenting
    <3>2. Presented(u)'
      BY <1>2, <2>3, <3>1 DEF Presented, UserPort
    <3> QED BY <3>2
  <2>4. CASE u = t.h.user /\ t.h.st \notin Presenting
    <3> DEFINE s == toShelf[u]
               r == s \o UserMsgs(t)
    <3>1. s \in Seq(ShelfMsgs)
      BY <1>2 DEF MsgsInv
    <3>2. /\ Has(s, Stops) => Has(r, Stops)
          /\ Pending(r, RingOns, Stops) => Pending(s, RingOns, Stops)
          /\ t.nu \in Stops => Has(r, Stops) /\ ~Pending(r, RingOns, Stops)
      BY <2>4, <3>1, UserMsgsFacts
    <3>3. toShelf'[u] = r /\ circuit'[u].ringing = circuit[u].ringing
      BY <1>1, <2>4
    <3>4. ctx[c].st \in Presenting => t.nu \in Stops
      BY <1>2, <2>4 DEF Sound, HasUser
    <3> HIDE DEF r
    <3>5. CASE Presented(u)
      BY <1>3, <3>2, <3>3, <3>4, <3>5
    <3>6. CASE ~Presented(u)
      BY <2>1, <3>2, <3>3, <3>6
    <3> QED BY <3>5, <3>6
  <2> QED BY <2>2, <2>3, <2>4
<1> QED BY <1>4 DEF RingInv

\* and users who are there.
LEMMA EndKeepsUser ==
  ASSUME CallInv, NEW c \in Contexts, ctx[c].st # "Free", ctx[c].q # <<>>,
         NEW t, Complete(c, t), Sound(c, t), EndOfTransaction(c, t)
  PROVE  UserInv'
<1>1. /\ Ended(t, ctx'[c])
      /\ \A d \in Contexts \ {c} :
           Grown(ctx[d], ctx'[d]) \/ (ctx[d].st = "Free" /\ Called(ctx'[d]))
      /\ circuit' = circuit /\ toCall' = toCall
  BY OutcomeIs
<1>2. UserInv /\ MsgsInv /\ ShapeInv /\ Nil \notin Users /\ Nil \notin Contexts
  BY CallAssumption DEF CallInv
<1>3. \A u \in Users : Leaves(u)' <=> Leaves(u)
  BY <1>1 DEF Leaves
<1>4. \A u \in Users : Pending(toCall'[u], Offhooks, Onhooks) => circuit'[u].offhook
  BY <1>1, <1>2 DEF UserInv
<1>5. ASSUME NEW u \in Users, NEW d \in Contexts \ {c}, UserPort(d, u)'
      PROVE  /\ Pending(ctx'[d].q, Offhooks, Onhooks) => Leaves(u)
             /\ ctx'[d].st \in Attended => Leaves(u) \/ Has(ctx'[d].q, Onhooks)
  <2>1. ctx'[d].user # Nil /\ ctx'[d].st # "Free" /\ ctx'[d].user = u
    BY <1>2, <1>5 DEF UserPort
  <2>2. Grown(ctx[d], ctx'[d])
    BY <1>1, <2>1 DEF Called
  <2>3. UserPort(d, u)
    BY <1>2, <2>1, <2>2 DEF UserPort, Grown
  <2>4. /\ Pending(ctx[d].q, Offhooks, Onhooks) => Leaves(u)
        /\ ctx[d].st \in Attended => Leaves(u) \/ Has(ctx[d].q, Onhooks)
    BY <1>2, <2>3 DEF UserInv
  <2> QED BY <2>2, <2>4 DEF Grown
<1>6. ASSUME NEW u \in Users, UserPort(c, u)'
      PROVE  /\ Pending(ctx'[c].q, Offhooks, Onhooks) => Leaves(u)
             /\ ctx'[c].st \in Attended => Leaves(u) \/ Has(ctx'[c].q, Onhooks)
  <2> DEFINE s == ctx[c].q
             r == t.h.q
  <2>1. ctx'[c].st # "Free" /\ ctx'[c].user = u
    BY <1>6 DEF UserPort
  <2>2. ctx'[c].st = t.h.st /\ ctx'[c].q = r /\ t.h.user = u
    BY <1>1, <2>1 DEF Ended, NoCall
  <2>3. /\ Has(r, Onhooks) <=> Has(Tail(s), Onhooks)
        /\ Pending(r, Offhooks, Onhooks) => Pending(Tail(s), Offhooks, Onhooks)
        /\ t.h.st \in Attended => \/ Head(s) \in Offhooks
                                  \/ ctx[c].st \in Attended /\ Head(s) \notin Onhooks
    BY DEF Sound, Trimmed
  <2>4. s \in Seq(Msgs) /\ s # <<>>
    BY <1>2 DEF MsgsInv
  <2>5. /\ Has(s, Onhooks) <=> Head(s) \in Onhooks \/ Has(Tail(s), Onhooks)
        /\ Pending(s, Offhooks, Onhooks)
             <=> (Head(s) \in Offhooks /\ ~Has(Tail(s), Onhooks))
                   \/ Pending(Tail(s), Offhooks, Onhooks)
    BY <2>4, TailHas
  <2>6. CASE ctx[c].user = u
    <3>1. UserPort(c, u)
      BY <1>2, <2>6 DEF UserPort
    <3>2. /\ Pending(s, Offhooks, Onhooks) => Leaves(u)
          /\ ctx[c].st \in Attended => Leaves(u) \/ Has(s, Onhooks)
      BY <1>2, <3>1 DEF UserInv
    <3> HIDE DEF s, r
    <3> QED BY <2>2, <2>3, <2>5, <3>2
  <2>7. CASE ctx[c].user # u
    <3>1. ctx[c].user = Nil
      BY <2>2, <2>7 DEF Complete
    <3>2. ReadyOf(ctx[c]) /\ NewTbc(ctx[c])
      BY <1>2, <3>1 DEF ShapeInv, Live, ReadyOf, ShapeOf, NewObc
    <3>3. \A i \in 1 .. Len(s) : s[i] \notin Offhooks
      BY <2>4, <3>2, MsgFacts DEF NewTbc
    <3>4. ~Pending(s, Offhooks, Onhooks)
      BY <3>3 DEF Pending
    <3>5. Head(s) \notin Offhooks
      BY <2>4, <3>3
    <3>6. ctx[c].st \notin Attended
      BY <3>2 DEF ReadyOf, Attended
    <3> HIDE DEF s, r
    <3> QED BY <2>2, <2>3, <2>5, <3>4, <3>5, <3>6
  <2> QED BY <2>6, <2>7
<1>7. ASSUME NEW u \in Users, NEW d \in Contexts, UserPort(d, u)'
      PROVE  /\ Pending(ctx'[d].q, Offhooks, Onhooks) => Leaves(u)'
             /\ ctx'[d].st \in Attended => Leaves(u)' \/ Has(ctx'[d].q, Onhooks)
  BY <1>3, <1>5, <1>6, <1>7
<1> QED BY <1>4, <1>7 DEF UserInv

-----------------------------------------------------------------------------
(* Circuits.                                                               *)

\* Circuits are made of fields,
LEMMA StateIs ==
  ASSUME NEW k, Fields(k), NEW x
  PROVE  LET g == [k EXCEPT !.state = x]
         IN /\ Fields(g) /\ g.state = x /\ g.offhook = k.offhook
            /\ g.ringing = k.ringing /\ g.digits = k.digits
  BY DEF Fields

\* and changing one leaves the others,
LEMMA OffhookIs ==
  ASSUME NEW k, Fields(k), NEW x
  PROVE  LET g == [k EXCEPT !.offhook = x]
         IN /\ Fields(g) /\ g.state = k.state /\ g.offhook = x
            /\ g.ringing = k.ringing /\ g.digits = k.digits
  BY DEF Fields

\* so it is with ringing,
LEMMA RingingIs ==
  ASSUME NEW k, Fields(k), NEW x
  PROVE  LET g == [k EXCEPT !.ringing = x]
         IN /\ Fields(g) /\ g.state = k.state /\ g.offhook = k.offhook
            /\ g.ringing = x /\ g.digits = k.digits
  BY DEF Fields

\* and with the digits.
LEMMA DigitsIs ==
  ASSUME NEW k, Fields(k), NEW x
  PROVE  LET g == [k EXCEPT !.digits = x]
         IN /\ Fields(g) /\ g.state = k.state /\ g.offhook = k.offhook
            /\ g.ringing = k.ringing /\ g.digits = x
  BY DEF Fields

\* of which each operation changes a few:
LEMMA StateUpdate ==
  ASSUME NEW k, Fields(k), NEW x
  PROVE  LET g == [k EXCEPT !.state = x]
         IN Fields(g) /\ g.offhook = k.offhook /\ g.ringing = k.ringing
  BY StateIs

\* The same for the three fields that the invariant tells apart.
LEMMA DigitsUpdate ==
  ASSUME NEW k, Fields(k), NEW z
  PROVE  LET g == [k EXCEPT !.digits = z]
         IN Fields(g) /\ g.offhook = k.offhook /\ g.ringing = k.ringing
  BY DigitsIs

\* Only the hook changes,
LEMMA OffhookUpdate ==
  ASSUME NEW k, Fields(k), NEW y
  PROVE  LET g == [k EXCEPT !.offhook = y]
         IN Fields(g) /\ y = g.offhook /\ g.ringing = k.ringing
  BY OffhookIs

\* or only the ringing.
LEMMA RingingUpdate ==
  ASSUME NEW k, Fields(k), NEW y
  PROVE  LET g == [k EXCEPT !.ringing = y]
         IN Fields(g) /\ g.offhook = k.offhook /\ y = g.ringing
  BY RingingIs

\* an offhook,
LEMMA UpdateOffhook ==
  ASSUME NEW k, Fields(k), NEW x, NEW y
  PROVE  LET g == [k EXCEPT !.offhook = y, !.state = x]
         IN Fields(g) /\ y = g.offhook /\ g.ringing = k.ringing
<1> DEFINE h == [k EXCEPT !.offhook = y]
           n == [h EXCEPT !.state = x]
<1>1. Fields(h) /\ h.offhook = y /\ h.ringing = k.ringing
  BY OffhookUpdate
<1>2. [k EXCEPT !.offhook = y, !.state = x] = n
  OBVIOUS
<1> HIDE DEF h
<1>3. Fields(n) /\ n.offhook = h.offhook /\ n.ringing = h.ringing
  BY <1>1, StateUpdate
<1> HIDE DEF n
<1> QED BY <1>1, <1>2, <1>3

\* ringing,
LEMMA UpdateRinging ==
  ASSUME NEW k, Fields(k), NEW x, NEW y
  PROVE  LET g == [k EXCEPT !.ringing = y, !.state = x]
         IN Fields(g) /\ g.offhook = k.offhook /\ y = g.ringing
<1> DEFINE h == [k EXCEPT !.ringing = y]
           n == [h EXCEPT !.state = x]
<1>1. Fields(h) /\ h.offhook = k.offhook /\ h.ringing = y
  BY RingingUpdate
<1>2. [k EXCEPT !.ringing = y, !.state = x] = n
  OBVIOUS
<1> HIDE DEF h
<1>3. Fields(n) /\ n.offhook = h.offhook /\ n.ringing = h.ringing
  BY <1>1, StateUpdate
<1> HIDE DEF n
<1> QED BY <1>1, <1>2, <1>3

\* the collection of digits,
LEMMA UpdateDigits ==
  ASSUME NEW k, Fields(k), NEW x, NEW z
  PROVE  LET g == [k EXCEPT !.digits = z, !.state = x]
         IN Fields(g) /\ g.offhook = k.offhook /\ g.ringing = k.ringing
<1> DEFINE h == [k EXCEPT !.digits = z]
           n == [h EXCEPT !.state = x]
<1>1. Fields(h) /\ h.offhook = k.offhook /\ h.ringing = k.ringing
  BY DigitsUpdate
<1>2. [k EXCEPT !.digits = z, !.state = x] = n
  OBVIOUS
<1> HIDE DEF h
<1>3. Fields(n) /\ n.offhook = h.offhook /\ n.ringing = h.ringing
  BY <1>1, StateUpdate
<1> HIDE DEF n
<1> QED BY <1>1, <1>2, <1>3

\* and lockout.
LEMMA UpdateLockout ==
  ASSUME NEW k, Fields(k), NEW x, NEW z
  PROVE  LET g == [k EXCEPT !.state = x, !.digits = z]
         IN Fields(g) /\ g.offhook = k.offhook /\ g.ringing = k.ringing
<1> DEFINE h == [k EXCEPT !.state = x]
           n == [h EXCEPT !.digits = z]
<1>1. Fields(h) /\ h.offhook = k.offhook /\ h.ringing = k.ringing
  BY StateUpdate
<1>2. [k EXCEPT !.state = x, !.digits = z] = n
  OBVIOUS
<1> HIDE DEF h
<1>3. Fields(n) /\ n.offhook = h.offhook /\ n.ringing = h.ringing
  BY <1>1, DigitsUpdate
<1> HIDE DEF n
<1> QED BY <1>1, <1>2, <1>3

\* What a circuit sends leaves a circuit.
LEMMA SendsIs ==
  ASSUME NEW k, CircuitForm(k)
  PROVE  /\ LET s == Sends(k, "Offhook")
            IN CircuitForm(s[1]) /\ s[1].offhook /\ s[1].ringing = k.ringing
               /\ s[2] = <<User("Offhook")>>
         /\ LET s == Sends(k, "Onhook")
            IN CircuitForm(s[1]) /\ ~s[1].offhook /\ s[1].ringing = k.ringing
               /\ s[2] = <<User("Onhook")>>
         /\ LET s == Sends(k, "Alerting")
            IN s[1] = k /\ s[2] \in {<<>>, <<User("Alerting")>>}
<1>0. Fields(k)
  BY DEF CircuitForm
<1>3. LET s == Sends(k, "Offhook")
      IN CircuitForm(s[1]) /\ s[1].offhook /\ s[1].ringing = k.ringing
         /\ s[2] = <<User("Offhook")>>
  <2> DEFINE x == IF k.state = "Idle" THEN "Active" ELSE k.state
             y == TRUE
             g == [k EXCEPT !.offhook = y, !.state = x]
             s == Sends(k, "Offhook")
  <2> HIDE DEF y, x
  <2>1. Fields(g) /\ y = g.offhook /\ g.ringing = k.ringing
    BY <1>0, UpdateOffhook
  <2>2. s = <<g, <<User("Offhook")>>>>
    BY DEF Sends, x, y
  <2> HIDE DEF g, s
  <2>3. CircuitForm(s[1]) /\ s[1].offhook /\ s[1].ringing = k.ringing
        /\ s[2] = <<User("Offhook")>>
    BY <2>1, <2>2 DEF CircuitForm, y
  <2> QED BY <2>3 DEF s
<1>4. LET s == Sends(k, "Onhook")
      IN CircuitForm(s[1]) /\ ~s[1].offhook /\ s[1].ringing = k.ringing
         /\ s[2] = <<User("Onhook")>>
  <2> DEFINE x == IF k.state = "Active" THEN "Idle" ELSE k.state
             y == FALSE
             z == FALSE
             h == [k EXCEPT !.offhook = y]
             g == [h EXCEPT !.digits = z, !.state = x]
             s == Sends(k, "Onhook")
  <2>1. s = <<g, <<User("Onhook")>>>>
    BY DEF Sends
  <2> HIDE DEF x, y, z
  <2>2. Fields(h) /\ y = h.offhook /\ h.ringing = k.ringing
    BY <1>0, OffhookUpdate
  <2> HIDE DEF h
  <2>3. Fields(g) /\ g.offhook = h.offhook /\ g.ringing = h.ringing
    BY <2>2, UpdateDigits
  <2> HIDE DEF g, s
  <2>4. CircuitForm(s[1]) /\ ~s[1].offhook /\ s[1].ringing = k.ringing
        /\ s[2] = <<User("Onhook")>>
    BY <2>1, <2>2, <2>3 DEF CircuitForm, y
  <2> QED BY <2>4 DEF s
<1>5. LET s == Sends(k, "Alerting")
      IN s[1] = k /\ s[2] \in {<<>>, <<User("Alerting")>>}
  BY DEF Sends
<1> QED BY <1>3, <1>4, <1>5

\* What a circuit receives has it ring or stop ringing, and may have it say
\* that it rings, or that it is offhook if it is.
Obeys(k, m, s) ==
  /\ CircuitForm(s[1]) /\ s[1].offhook = k.offhook
  /\ s[1].ringing => m = RingOn \/ (k.ringing /\ m \notin Stops)
  /\ s[2] \in {<<>>, <<User("Alerting")>>, <<User("Offhook")>>}
  /\ s[2] = <<User("Offhook")>> => k.offhook

\* A circuit that answers a RingOn never says that it went offhook.
LEMMA OffhookAndAlerting == <<User("Alerting")>> # <<User("Offhook")>>
                            /\ <<>> # <<User("Offhook")>>
<1>1. <<User("Alerting")>>[1].sig # <<User("Offhook")>>[1].sig
  BY DEF User, Msg
<1> QED BY <1>1

\* A Release stops the ringing (PotsCircuit::ReceiveMsg),
LEMMA ReceiveReleaseObeys ==
  ASSUME NEW k, CircuitForm(k)
  PROVE  Obeys(k, Release, ReceiveRelease(k))
<1> DEFINE k1 == [state |-> IF k.offhook THEN "Active" ELSE "Idle",
                  offhook |-> k.offhook, ringing |-> FALSE, digits |-> FALSE]
           s == IF k.offhook THEN Sends(k1, "Offhook") ELSE <<k1, <<>>>>
<1>2. k.offhook \in BOOLEAN
  BY DEF CircuitForm
<1>1. CircuitForm(k1) /\ k1.offhook = k.offhook /\ k1.ringing = FALSE
  <2>1. Fields(k1) /\ k1.offhook = k.offhook /\ k1.ringing = FALSE
    BY DEF Fields
  <2> HIDE DEF k1
  <2> QED BY <1>2, <2>1 DEF CircuitForm
<1> HIDE DEF k1
<1>3. Obeys(k, Release, s)
  <2>1. CASE k.offhook
    <3> DEFINE x == Sends(k1, "Offhook")
    <3>1. CircuitForm(x[1]) /\ x[1].offhook /\ x[1].ringing = k1.ringing
          /\ x[2] = <<User("Offhook")>> /\ x[1].offhook \in BOOLEAN
      BY <1>1, SendsIs DEF CircuitForm
    <3>2. s = x
      BY <2>1
    <3> HIDE DEF x, s
    <3> QED BY <1>1, <1>2, <2>1, <3>1, <3>2 DEF Obeys
  <2>2. CASE ~k.offhook
    <3>1. s = <<k1, <<>>>>
      BY <2>2
    <3> HIDE DEF s
    <3>2. s[1] = k1 /\ s[2] = <<>>
      BY <3>1
    <3> QED BY <1>1, <2>2, <3>2, OffhookAndAlerting DEF Obeys
  <2> QED BY <2>1, <2>2
<1> QED BY <1>3 DEF ReceiveRelease, k1

\* and a Supervise changes it as it says.
LEMMA ReceiveSuperviseObeys ==
  ASSUME NEW k, CircuitForm(k), NEW m \in {RingOn, RingOff, DigitsOn, DigitsOff}
  PROVE  Obeys(k, m, ReceiveSupervise(k, m))
<1> DEFINE up == IF k.state = "Idle" THEN "Terminator" ELSE k.state
           k1 == CASE m.ring = "On"  ->
                        [k EXCEPT !.ringing = TRUE,
                                  !.state = IF up = "Active" THEN "Terminator" ELSE up]
                   [] m.ring = "Off" -> [k EXCEPT !.ringing = FALSE, !.state = up]
                   [] OTHER          -> [k EXCEPT !.state = up]
           s  == CASE m.ring # "On"               -> <<k1, <<>>>>
                   [] m.ring = "On" /\ k.offhook  -> Sends(k1, "Offhook")
                   [] m.ring = "On" /\ ~k.offhook -> Sends(k1, "Alerting")
           on == m.digits = "On"
           r  == IF m.digits = Nil
                   THEN s
                   ELSE <<[s[1] EXCEPT !.digits = on,
                                       !.state = IF on /\ @ = "Active" THEN "Originator" ELSE @],
                          s[2]>>
<1>1. /\ m.ring = "On" <=> m = RingOn
      /\ m \in Stops => m.ring = "Off"
      /\ m.ring = "On" => m \notin Stops
      /\ m.ring = "Off" => m # RingOn
  <2>1. RingOn.ring = "On" /\ RingOff.ring = "Off" /\ DigitsOn.ring = Nil /\ DigitsOff.ring = Nil
        /\ RingOff # Release /\ DigitsOn # Release /\ DigitsOff # Release
    <3>1. RingOff.sig # Release.sig /\ DigitsOn.sig # Release.sig /\ DigitsOff.sig # Release.sig
      BY DEF RingOff, DigitsOn, DigitsOff, Supervise, Release
    <3> QED BY <3>1 DEF RingOn, RingOff, DigitsOn, DigitsOff, Supervise
  <2>2. DigitsOn # RingOff /\ DigitsOff # RingOff
    <3>1. RingOff.ring = "Off" /\ DigitsOn.ring = Nil /\ DigitsOff.ring = Nil
      BY DEF RingOff, DigitsOn, DigitsOff, Supervise
    <3> QED BY <3>1, NilAssumption
  <2>3. Nil # "On" /\ RingOn \notin Stops
    BY NilAssumption, ShelfFacts
  <2>4. m \in Stops <=> m = RingOff
    BY <2>1, <2>2, <2>3 DEF Stops
  <2>5. CASE m = RingOn
    BY <2>1, <2>3, <2>5
  <2>6. CASE m = RingOff
    <3>1. RingOff # RingOn
      BY <2>1
    <3> QED BY <2>1, <2>6, <3>1
  <2>7. CASE m \in {DigitsOn, DigitsOff}
    <3>1. m # RingOff /\ m.ring = Nil
      BY <2>1, <2>2, <2>7
    <3> QED BY <2>1, <2>3, <2>4, <3>1, NilAssumption
  <2> QED BY <2>5, <2>6, <2>7
<1>0. Fields(k)
  BY DEF CircuitForm
<1>2. ASSUME NEW x, NEW y
      PROVE  LET g == [k EXCEPT !.ringing = y, !.state = x]
             IN Fields(g) /\ g.offhook = k.offhook /\ y = g.ringing
  BY <1>0, UpdateRinging
<1>3. ASSUME NEW x
      PROVE  LET g == [k EXCEPT !.state = x]
             IN CircuitForm(g) /\ g.offhook = k.offhook /\ g.ringing = k.ringing
  BY StateUpdate DEF CircuitForm
<1>5. k.offhook \in BOOLEAN
  BY DEF CircuitForm
<1>4. /\ CircuitForm(k1) /\ k1.offhook = k.offhook
      /\ m.ring = "Off" => k1.ringing = FALSE
      /\ m.ring \notin {"On", "Off"} => k1.ringing = k.ringing
  <2>1. CASE m.ring = "On"
    <3> DEFINE x == IF up = "Active" THEN "Terminator" ELSE up
               g == [k EXCEPT !.ringing = TRUE, !.state = x]
    <3>1. Fields(g) /\ g.offhook = k.offhook /\ g.ringing = TRUE
      BY <1>2
    <3>2. k1 = g
      BY <2>1
    <3> HIDE DEF g, k1
    <3> QED BY <1>5, <2>1, <3>1, <3>2 DEF CircuitForm
  <2>2. CASE m.ring = "Off"
    <3> DEFINE g == [k EXCEPT !.ringing = FALSE, !.state = up]
    <3>1. Fields(g) /\ g.offhook = k.offhook /\ g.ringing = FALSE
      BY <1>2
    <3>2. k1 = g
      BY <2>2
    <3> HIDE DEF g, k1
    <3> QED BY <1>5, <2>2, <3>1, <3>2 DEF CircuitForm
  <2>3. CASE m.ring \notin {"On", "Off"}
    BY <1>3, <2>3
  <2> QED BY <2>1, <2>2, <2>3
<1> HIDE DEF k1
<1>6. Obeys(k, m, s)
  <2>1. CASE m.ring # "On"
    <3>1. s = <<k1, <<>>>>
      BY <2>1
    <3> HIDE DEF s
    <3>2. s[1] = k1 /\ s[2] = <<>>
      BY <3>1
    <3> QED BY <1>1, <1>4, <2>1, <3>2, OffhookAndAlerting DEF Obeys
  <2>2. CASE m.ring = "On" /\ k.offhook
    <3> DEFINE x == Sends(k1, "Offhook")
    <3>1. CircuitForm(x[1]) /\ x[1].offhook /\ x[1].ringing = k1.ringing
          /\ x[2] = <<User("Offhook")>> /\ x[1].offhook \in BOOLEAN
      BY <1>4, SendsIs DEF CircuitForm
    <3>2. s = x
      BY <2>2
    <3> HIDE DEF x, s
    <3> QED BY <1>1, <1>5, <2>2, <3>1, <3>2 DEF Obeys
  <2>3. CASE m.ring = "On" /\ ~k.offhook
    <3> DEFINE x == Sends(k1, "Alerting")
    <3>1. x[1] = k1 /\ x[2] \in {<<>>, <<User("Alerting")>>}
      BY <1>4, SendsIs
    <3>2. s = x
      BY <2>3
    <3> HIDE DEF x, s
    <3> QED BY <1>1, <1>4, <2>3, <3>1, <3>2, OffhookAndAlerting DEF Obeys
  <2> QED BY <2>1, <2>2, <2>3
<1> HIDE DEF s
<1>7. ASSUME NEW g, CircuitForm(g), NEW x, NEW y
      PROVE  LET g1 == [g EXCEPT !.digits = x, !.state = y]
             IN CircuitForm(g1) /\ g1.offhook = g.offhook /\ g1.ringing = g.ringing
  BY <1>7, UpdateDigits DEF CircuitForm
<1>8. Obeys(k, m, r)
  <2>1. CASE m.digits = Nil
    BY <1>6, <2>1
  <2>2. CASE m.digits # Nil
    <3> DEFINE x == IF on /\ s[1].state = "Active" THEN "Originator" ELSE s[1].state
               h == s[1]
               o == on
               g == [h EXCEPT !.digits = o, !.state = x]
    <3>4. CircuitForm(h)
      BY <1>6 DEF Obeys
    <3>2. r = <<g, s[2]>>
      BY <2>2
    <3> HIDE DEF h, o, x, r
    <3>1. CircuitForm(g) /\ g.offhook = h.offhook /\ g.ringing = h.ringing
      BY <1>7, <3>4
    <3> HIDE DEF g
    <3>3. r[1] = g /\ r[2] = s[2]
      BY <3>2
    <3> QED BY <1>6, <3>1, <3>3 DEF Obeys, h
  <2> QED BY <2>1, <2>2
<1> QED BY <1>8 DEF ReceiveSupervise, s, k1

\* So every message of the call is obeyed.
LEMMA ReceiveMsgObeys ==
  ASSUME NEW k, CircuitForm(k), NEW m \in ShelfMsgs
  PROVE  Obeys(k, m, ReceiveMsg(k, m))
<1>1. CASE m \in {RingOn, RingOff, DigitsOn, DigitsOff}
  <2>1. m.sig = "Supervise"
    BY <1>1 DEF RingOn, RingOff, DigitsOn, DigitsOff, Supervise
  <2> QED BY <1>1, <2>1, ReceiveSuperviseObeys DEF ReceiveMsg
<1>2. CASE m = Release
  <2>1. m.sig = "Release"
    BY <1>2 DEF Release
  <2> QED BY <1>2, <2>1, ReceiveReleaseObeys DEF ReceiveMsg
<1>3. CASE m = Lockout
  <2> DEFINE g == [k EXCEPT !.state = "LockedOut", !.digits = FALSE]
             s == <<g, <<>>>>
  <2>1. m.sig = "Lockout" /\ m \notin Stops
    BY <1>3 DEF Lockout, Stops, Release, RingOff, Supervise
  <2>2. CircuitForm(g) /\ g.offhook = k.offhook /\ g.ringing = k.ringing
    <3>1. Fields(k) /\ k.offhook \in BOOLEAN /\ k.ringing \in BOOLEAN
      BY DEF CircuitForm
    <3>2. Fields(g) /\ g.offhook = k.offhook /\ g.ringing = k.ringing
      BY <3>1, UpdateLockout
    <3> HIDE DEF g
    <3> QED BY <3>1, <3>2 DEF CircuitForm
  <2>3. ReceiveMsg(k, m) = s
    BY <2>1 DEF ReceiveMsg
  <2> HIDE DEF g
  <2>4. s[1] = g /\ s[2] = <<>>
    OBVIOUS
  <2> HIDE DEF s
  <2> QED BY <2>1, <2>2, <2>3, <2>4, OffhookAndAlerting DEF Obeys
<1> QED BY <1>1, <1>2, <1>3 DEF ShelfMsgs

-----------------------------------------------------------------------------
(* Steps that leave half calls as they are, or only queue something.       *)

\* Changing the queue of a half call that exists disturbs no owner,
LEMMA QueueKeepsIInv ==
  ASSUME IInv, NEW c \in Contexts, ctx[c].st # "Free", NEW q,
         ctx' = [ctx EXCEPT ![c] = [ctx[c] EXCEPT !.q = q]], profile' = profile
  PROVE  IInv'
<1> DEFINE g == [ctx[c] EXCEPT !.q = q]
<1>1. ctx = [d \in Contexts |-> ctx[d]] /\ \A d \in Contexts : HalfForm(ctx[d])
  BY DEF IInv, FormInv
<1>2. /\ HalfForm(g) /\ g.st = ctx[c].st /\ g.user = ctx[c].user
      /\ g.peer = ctx[c].peer /\ g.model = ctx[c].model
  BY <1>1, QueuedIsForm
<1> HIDE DEF g
<1>3. ctx' = [d \in Contexts |-> IF d = c THEN g ELSE ctx[d]]
  BY <1>1 DEF g
<1>4. FormInv'
  BY <1>1, <1>2, <1>3 DEF IInv, FormInv, HalfForm, ProfileForm
<1>5. OwnerInv'
  BY <1>2, <1>3, CallAssumption DEF IInv, OwnerInv, UserPort
<1>6. ContextInv'
  BY <1>2, <1>3 DEF IInv, ContextInv, NoCall
<1> QED BY <1>4, <1>5, <1>6 DEF IInv

\* nor does deleting its context with its profile cleared (Context::ProcessWork),
LEMMA DeleteKeepsIInv ==
  ASSUME IInv, NEW c \in Contexts,
         ctx' = [ctx EXCEPT ![c] = NoCall], profile' = profile
  PROVE  IInv'
<1>1. ctx' = [d \in Contexts |-> IF d = c THEN NoCall ELSE ctx[d]]
  BY DEF IInv, FormInv
<1>2. HalfForm(NoCall) /\ NoCall.st = "Free" /\ NoCall.peer = Nil
  BY DEF NoCall, HalfForm
<1>3. FormInv'
  BY <1>1, <1>2 DEF IInv, FormInv, HalfForm, ProfileForm
<1>4. OwnerInv'
  BY <1>1, <1>2, CallAssumption DEF IInv, OwnerInv, UserPort
<1>5. ContextInv'
  BY <1>1, <1>2 DEF IInv, ContextInv, NoCall
<1> QED BY <1>3, <1>4, <1>5 DEF IInv

\* nor a first offhook, which makes the new half call the one of its profile.
LEMMA InitialKeepsIInv ==
  ASSUME IInv, NEW u \in Users, NEW m, ~UserPort(profile[u].addr, u),
         ReceiveInitial(u, m)
  PROVE  IInv'
<1> DEFINE c == NewContext
           o == Obc(u, m)
           p == SetObjAddr(profile[u], u, c)
<1>1. c \in Contexts /\ ctx[c].st = "Free" /\ \A d \in Contexts : ctx[d].peer # c
  BY NewContextIsUnused DEF ReceiveInitial
<1>2. HalfForm(o) /\ o.st = "Ready" /\ o.user = u /\ o.peer = Nil /\ o.model = "Obc"
  BY ObcIsForm
<1>3. ProfileForm(p) /\ p.addr = c /\ p.state # "Idle"
  BY DEF SetObjAddr, ProfileForm
<1>4. ctx' = [ctx EXCEPT ![c] = o] /\ profile' = [profile EXCEPT ![u] = p]
  BY DEF ReceiveInitial
<1> HIDE DEF c, o, p
<1>5. /\ ctx' = [d \in Contexts |-> IF d = c THEN o ELSE ctx[d]]
      /\ profile' = [v \in Users |-> IF v = u THEN p ELSE profile[v]]
  BY <1>4 DEF IInv, FormInv
<1>6. FormInv'
  BY <1>1, <1>2, <1>3, <1>5 DEF IInv, FormInv, HalfForm, ProfileForm
<1>7. OwnerInv'
  <2> SUFFICES ASSUME NEW v \in Users, NEW d \in Contexts,
                      ctx'[d].st # "Free", ctx'[d].user = v
               PROVE  profile'[v].addr = d /\ profile'[v].state # "Idle"
    BY DEF OwnerInv, UserPort
  <2>1. CASE d = c
    BY <1>2, <1>3, <1>5, <2>1
  <2>2. CASE d # c
    <3>1. UserPort(d, v) /\ profile[v].addr = d /\ profile[v].state # "Idle"
      BY <1>5, <2>2, CallAssumption DEF IInv, OwnerInv, UserPort
    <3>2. v # u
      BY <3>1
    <3> QED BY <1>5, <3>1, <3>2
  <2> QED BY <2>1, <2>2
<1>8. ContextInv'
  BY <1>1, <1>2, <1>5 DEF IInv, ContextInv
<1> QED BY <1>6, <1>7, <1>8 DEF IInv

\* A timer that expires queues its timeout.
LEMMA TimerKeepsIInv ==
  ASSUME IInv, NEW c \in Contexts, TimerExpires(c)
  PROVE  IInv'
<1>1. ctx[c].st # "Free"
  BY DEF TimerExpires, Running, IInv, ContextInv, NoCall
<1>2. PICK q : ctx' = [ctx EXCEPT ![c] = [ctx[c] EXCEPT !.q = q]]
  BY DEF TimerExpires
<1>3. profile' = profile
  BY DEF TimerExpires
<1> QED BY <1>1, <1>2, <1>3, QueueKeepsIInv

\* Other steps leave contexts and profiles alone.
LEMMA UnchangedKeepsIInv ==
  ASSUME IInv, ctx' = ctx, profile' = profile
  PROVE  IInv'
  BY DEF IInv, FormInv, OwnerInv, ContextInv, UserPort, HalfForm, ProfileForm, NoCall

\* The circuit of u can become k, with messages r and s on the way: it rings for a
\* call, and its user does not leave unnoticed.
Noticed(u, k, r, s) ==
  /\ CircuitForm(k) /\ r \in Seq(UserMsgSet) /\ s \in Seq(ShelfMsgs)
  /\ k.ringing => Presented(u) \/ Has(s, Stops)
  /\ Pending(s, RingOns, Stops) => Presented(u)
  /\ Pending(r, Offhooks, Onhooks) => k.offhook
  /\ Leaves(u) => k.offhook \/ Has(r, Onhooks)

\* A circuit that changes, as long as the call will notice it, keeps the invariant;
LEMMA CircuitKeepsCallInv ==
  ASSUME CallInv, NEW u \in Users, NEW k, NEW r, NEW s, Noticed(u, k, r, s),
         circuit' = [circuit EXCEPT ![u] = k], toCall' = [toCall EXCEPT ![u] = r],
         toShelf' = [toShelf EXCEPT ![u] = s], ctx' = ctx, profile' = profile
  PROVE  CallInv'
<1>0. /\ CircuitForm(k) /\ r \in Seq(UserMsgSet) /\ s \in Seq(ShelfMsgs)
      /\ k.ringing => Presented(u) \/ Has(s, Stops)
      /\ Pending(s, RingOns, Stops) => Presented(u)
      /\ Pending(r, Offhooks, Onhooks) => k.offhook
      /\ Leaves(u) => k.offhook \/ Has(r, Onhooks)
  BY DEF Noticed
<1>1. /\ IInv /\ MsgsInv /\ ShapeInv /\ TimeoutInv /\ RingInv /\ UserInv
      /\ Nil \notin Users /\ Nil \notin Contexts
  BY CallAssumption DEF CallInv
<1>2. /\ circuit = [v \in Users |-> circuit[v]] /\ \A v \in Users : CircuitForm(circuit[v])
      /\ toShelf \in [Users -> Seq(ShelfMsgs)] /\ toCall \in [Users -> Seq(UserMsgSet)]
  BY <1>1 DEF MsgsInv
<1>3. /\ circuit' = [v \in Users |-> IF v = u THEN k ELSE circuit[v]]
      /\ toCall' = [v \in Users |-> IF v = u THEN r ELSE toCall[v]]
      /\ toShelf' = [v \in Users |-> IF v = u THEN s ELSE toShelf[v]]
  BY <1>2
<1>4. IInv'
  BY <1>1, UnchangedKeepsIInv
<1>5. MsgsInv'
  <2>1. \A v \in Users : CircuitForm(circuit'[v])
    BY <1>0, <1>2, <1>3
  <2>2. circuit' = [v \in Users |-> circuit'[v]]
    BY <1>3
  <2>3. toShelf' \in [Users -> Seq(ShelfMsgs)] /\ toCall' \in [Users -> Seq(UserMsgSet)]
    BY <1>0, <1>2, <1>3
  <2> QED BY <1>1, <2>1, <2>2, <2>3 DEF MsgsInv
<1>6. ShapeInv' /\ TimeoutInv'
  BY <1>1 DEF ShapeInv, TimeoutInv, Live
<1>7. RingInv'
  <2>1. \A v \in Users : Presented(v)' <=> Presented(v)
    BY DEF Presented, UserPort
  <2>2. ASSUME NEW v \in Users
        PROVE  /\ circuit'[v].ringing => Presented(v)' \/ Has(toShelf'[v], Stops)
               /\ Pending(toShelf'[v], RingOns, Stops) => Presented(v)'
    <3>1. CASE v = u
      BY <1>0, <1>3, <2>1, <3>1
    <3>2. CASE v # u
      BY <1>1, <1>3, <2>1, <3>2 DEF RingInv
    <3> QED BY <3>1, <3>2
  <2> QED BY <2>2 DEF RingInv
<1>8. UserInv'
  <2>1. \A v \in Users : Leaves(v) => Leaves(v)'
    <3> SUFFICES ASSUME NEW v \in Users, Leaves(v) PROVE Leaves(v)'
      OBVIOUS
    <3>1. CASE v = u
      BY <1>0, <1>3, <3>1 DEF Leaves
    <3>2. CASE v # u
      BY <1>3, <3>2 DEF Leaves
    <3> QED BY <3>1, <3>2
  <2>2. \A v \in Users : Pending(toCall'[v], Offhooks, Onhooks) => circuit'[v].offhook
    <3> SUFFICES ASSUME NEW v \in Users, Pending(toCall'[v], Offhooks, Onhooks)
                 PROVE  circuit'[v].offhook
      OBVIOUS
    <3>1. CASE v = u
      BY <1>0, <1>3, <3>1
    <3>2. CASE v # u
      BY <1>1, <1>3, <3>2 DEF UserInv
    <3> QED BY <3>1, <3>2
  <2>3. ASSUME NEW v \in Users, NEW d \in Contexts, UserPort(d, v)'
        PROVE  /\ Pending(ctx'[d].q, Offhooks, Onhooks) => Leaves(v)'
               /\ ctx'[d].st \in Attended => Leaves(v)' \/ Has(ctx'[d].q, Onhooks)
    <3>1. UserPort(d, v)
      BY <2>3 DEF UserPort
    <3>2. /\ Pending(ctx[d].q, Offhooks, Onhooks) => Leaves(v)
          /\ ctx[d].st \in Attended => Leaves(v) \/ Has(ctx[d].q, Onhooks)
      BY <1>1, <3>1 DEF UserInv
    <3> QED BY <2>1, <3>2
  <2> QED BY <2>2, <2>3 DEF UserInv
<1> QED BY <1>4, <1>5, <1>6, <1>7, <1>8 DEF CallInv

\* What a circuit knows of its user.
LEMMA CircuitKnows ==
  ASSUME CallInv, NEW u \in Users
  PROVE  /\ CircuitForm(circuit[u]) /\ circuit = [circuit EXCEPT ![u] = circuit[u]]
         /\ toCall[u] \in Seq(UserMsgSet) /\ toShelf[u] \in Seq(ShelfMsgs)
         /\ toCall = [toCall EXCEPT ![u] = toCall[u]]
         /\ toShelf = [toShelf EXCEPT ![u] = toShelf[u]]
         /\ circuit[u].ringing => Presented(u) \/ Has(toShelf[u], Stops)
         /\ Pending(toShelf[u], RingOns, Stops) => Presented(u)
         /\ Pending(toCall[u], Offhooks, Onhooks) => circuit[u].offhook
         /\ Leaves(u) => circuit[u].offhook \/ Has(toCall[u], Onhooks)
<1>1. MsgsInv /\ RingInv /\ UserInv
  BY DEF CallInv
<1>2. /\ CircuitForm(circuit[u]) /\ circuit = [circuit EXCEPT ![u] = circuit[u]]
      /\ toCall[u] \in Seq(UserMsgSet) /\ toShelf[u] \in Seq(ShelfMsgs)
      /\ toCall = [toCall EXCEPT ![u] = toCall[u]]
      /\ toShelf = [toShelf EXCEPT ![u] = toShelf[u]]
  BY <1>1 DEF MsgsInv
<1> QED BY <1>1, <1>2 DEF RingInv, UserInv, Leaves

\* The user's messages.
LEMMA UserMsgIs ==
  /\ User("Offhook") \in UserMsgSet /\ User("Offhook") \in Offhooks
  /\ User("Offhook") \notin Onhooks
  /\ User("Onhook") \in UserMsgSet /\ User("Onhook") \in Onhooks
  /\ User("Onhook") \notin Offhooks
  /\ User("Alerting") \in UserMsgSet /\ User("Alerting") \notin Offhooks \cup Onhooks
  /\ \A d \in Dialable : Digits(d) \in UserMsgSet /\ Digits(d) \notin Offhooks \cup Onhooks
  BY DEF UserMsgSet, User, Digits, Msg, Offhooks, Onhooks

\* A message that a circuit sends.
LEMMA SentHas ==
  ASSUME NEW s \in Seq(UserMsgSet), NEW m \in UserMsgSet
  PROVE  LET r == s \o <<m>>
         IN /\ r \in Seq(UserMsgSet)
            /\ Has(r, Onhooks) <=> Has(s, Onhooks) \/ m \in Onhooks
            /\ Pending(r, Offhooks, Onhooks)
                 <=> m \in Offhooks \/ (Pending(s, Offhooks, Onhooks) /\ m \notin Onhooks)
<1> DEFINE r == Append(s, m)
<1>1. s \o <<m>> = r
  BY AppendIsConcat
<1>2. /\ r \in Seq(UserMsgSet)
      /\ Has(r, Onhooks) <=> Has(s, Onhooks) \/ m \in Onhooks
      /\ Pending(r, Offhooks, Onhooks)
           <=> m \in Offhooks \/ (Pending(s, Offhooks, Onhooks) /\ m \notin Onhooks)
  BY AppendHas
<1> HIDE DEF r
<1> QED BY <1>1, <1>2

\* a user who goes offhook sends an Offhook,
LEMMA GoesOffhookKeepsCallInv ==
  ASSUME CallInv, NEW u \in Users, GoesOffhook(u)
  PROVE  CallInv'
<1> DEFINE x == Sends(circuit[u], "Offhook")
           k == x[1]
           r == toCall[u] \o x[2]
<1>1. /\ CircuitForm(circuit[u]) /\ toCall[u] \in Seq(UserMsgSet) /\ toShelf[u] \in Seq(ShelfMsgs)
      /\ toShelf = [toShelf EXCEPT ![u] = toShelf[u]]
      /\ circuit[u].ringing => Presented(u) \/ Has(toShelf[u], Stops)
      /\ Pending(toShelf[u], RingOns, Stops) => Presented(u)
  BY CircuitKnows
<1>2. /\ CircuitForm(k) /\ k.offhook /\ k.ringing = circuit[u].ringing
      /\ x[2] = <<User("Offhook")>>
  BY <1>1, SendsIs
<1>3. /\ circuit' = [circuit EXCEPT ![u] = k] /\ toCall' = [toCall EXCEPT ![u] = r]
      /\ toShelf' = toShelf /\ ctx' = ctx /\ profile' = profile
  BY DEF GoesOffhook, Stimulate
<1> HIDE DEF x
<1>4. r \in Seq(UserMsgSet)
  BY <1>1, <1>2, UserMsgIs, SentHas
<1> HIDE DEF r, k
<1>5. Noticed(u, k, r, toShelf[u])
  BY <1>1, <1>2, <1>4 DEF Noticed
<1> QED BY <1>1, <1>3, <1>5, CircuitKeepsCallInv

\* one who goes onhook an Onhook,
LEMMA GoesOnhookKeepsCallInv ==
  ASSUME CallInv, NEW u \in Users, GoesOnhook(u)
  PROVE  CallInv'
<1> DEFINE x == Sends(circuit[u], "Onhook")
           k == x[1]
           r == toCall[u] \o x[2]
<1>1. /\ CircuitForm(circuit[u]) /\ toCall[u] \in Seq(UserMsgSet) /\ toShelf[u] \in Seq(ShelfMsgs)
      /\ toShelf = [toShelf EXCEPT ![u] = toShelf[u]]
      /\ circuit[u].ringing => Presented(u) \/ Has(toShelf[u], Stops)
      /\ Pending(toShelf[u], RingOns, Stops) => Presented(u)
  BY CircuitKnows
<1>2. CircuitForm(k) /\ k.ringing = circuit[u].ringing /\ x[2] = <<User("Onhook")>>
  BY <1>1, SendsIs
<1>3. /\ circuit' = [circuit EXCEPT ![u] = k] /\ toCall' = [toCall EXCEPT ![u] = r]
      /\ toShelf' = toShelf /\ ctx' = ctx /\ profile' = profile
  BY DEF GoesOnhook, Stimulate
<1> HIDE DEF x
<1>4. r \in Seq(UserMsgSet) /\ Has(r, Onhooks) /\ ~Pending(r, Offhooks, Onhooks)
  BY <1>1, <1>2, UserMsgIs, SentHas
<1> HIDE DEF r, k
<1>5. Noticed(u, k, r, toShelf[u])
  BY <1>1, <1>2, <1>4 DEF Noticed
<1> QED BY <1>1, <1>3, <1>5, CircuitKeepsCallInv

\* and digits say nothing about the hook.
LEMMA DialsKeepsCallInv ==
  ASSUME CallInv, NEW u \in Users, Dials(u)
  PROVE  CallInv'
<1>1. PICK d \in Dialable : Stimulate(u, <<circuit[u], <<Digits(d)>>>>)
  BY DEF Dials
<1> DEFINE k == circuit[u]
           r == toCall[u] \o <<Digits(d)>>
<1>2. /\ circuit' = [circuit EXCEPT ![u] = k] /\ toCall' = [toCall EXCEPT ![u] = r]
      /\ toShelf' = toShelf /\ ctx' = ctx /\ profile' = profile
  BY <1>1 DEF Dials, Stimulate
<1>3. /\ CircuitForm(k) /\ toCall[u] \in Seq(UserMsgSet) /\ toShelf[u] \in Seq(ShelfMsgs)
      /\ toShelf = [toShelf EXCEPT ![u] = toShelf[u]]
      /\ k.ringing => Presented(u) \/ Has(toShelf[u], Stops)
      /\ Pending(toShelf[u], RingOns, Stops) => Presented(u)
      /\ Pending(toCall[u], Offhooks, Onhooks) => k.offhook
      /\ Leaves(u) => k.offhook \/ Has(toCall[u], Onhooks)
  BY CircuitKnows
<1>4. Digits(d) \in UserMsgSet /\ Digits(d) \notin Offhooks \cup Onhooks
  BY UserMsgIs
<1>5. /\ r \in Seq(UserMsgSet) /\ (Has(r, Onhooks) <=> Has(toCall[u], Onhooks))
      /\ Pending(r, Offhooks, Onhooks) => Pending(toCall[u], Offhooks, Onhooks)
  BY <1>3, <1>4, SentHas
<1> HIDE DEF r, k
<1>6. Noticed(u, k, r, toShelf[u])
  BY <1>3, <1>5 DEF Noticed
<1> QED BY <1>2, <1>3, <1>6, CircuitKeepsCallInv

\* The shelf hands a message to its circuit, and queues the answer.
LEMMA ShelfReceivesKeepsCallInv ==
  ASSUME CallInv, NEW u \in Users, ShelfReceives(u)
  PROVE  CallInv'
<1> DEFINE q == toShelf[u]
           m == Head(q)
           x == ReceiveMsg(circuit[u], m)
           k == x[1]
           r == toCall[u] \o x[2]
           s == Tail(q)
<1>1. /\ CircuitForm(circuit[u]) /\ toCall[u] \in Seq(UserMsgSet) /\ q \in Seq(ShelfMsgs)
      /\ circuit[u].ringing => Presented(u) \/ Has(q, Stops)
      /\ Pending(q, RingOns, Stops) => Presented(u)
      /\ Pending(toCall[u], Offhooks, Onhooks) => circuit[u].offhook
      /\ Leaves(u) => circuit[u].offhook \/ Has(toCall[u], Onhooks)
  BY CircuitKnows
<1>2. q # <<>>
  BY DEF ShelfReceives
<1>3. /\ m \in ShelfMsgs /\ s \in Seq(ShelfMsgs)
      /\ Has(q, Stops) <=> m \in Stops \/ Has(s, Stops)
      /\ Pending(q, RingOns, Stops)
           <=> (m \in RingOns /\ ~Has(s, Stops)) \/ Pending(s, RingOns, Stops)
  BY <1>1, <1>2, TailHas
<1>4. m \in RingOns <=> m = RingOn
  BY DEF RingOns
<1>5. /\ circuit' = [circuit EXCEPT ![u] = k] /\ toCall' = [toCall EXCEPT ![u] = r]
      /\ toShelf' = [toShelf EXCEPT ![u] = s] /\ ctx' = ctx /\ profile' = profile
  BY DEF ShelfReceives, Stimulate
<1> HIDE DEF m, s, q
<1>6. Obeys(circuit[u], m, x)
  BY <1>1, <1>3, ReceiveMsgObeys
<1>7. /\ CircuitForm(k) /\ k.offhook = circuit[u].offhook
      /\ k.ringing => m = RingOn \/ (circuit[u].ringing /\ m \notin Stops)
  BY <1>6 DEF Obeys
<1>8. /\ r \in Seq(UserMsgSet) /\ (Has(r, Onhooks) <=> Has(toCall[u], Onhooks))
      /\ Pending(r, Offhooks, Onhooks)
           => Pending(toCall[u], Offhooks, Onhooks) \/ circuit[u].offhook
  <2> DEFINE o == x[2]
  <2>1. /\ o \in {<<>>, <<User("Alerting")>>, <<User("Offhook")>>}
        /\ o = <<User("Offhook")>> => circuit[u].offhook
    BY <1>6 DEF Obeys
  <2> HIDE DEF x
  <2>2. CASE o = <<>>
    <3>1. r = toCall[u]
      BY <1>1, <2>2, ConcatEmptySeq
    <3> QED BY <1>1, <3>1
  <2>3. CASE o = <<User("Alerting")>>
    BY <1>1, <2>3, UserMsgIs, SentHas
  <2>4. CASE o = <<User("Offhook")>>
    BY <1>1, <2>1, <2>4, UserMsgIs, SentHas
  <2> QED BY <2>1, <2>2, <2>3, <2>4
<1> HIDE DEF x, k, r
<1>9. k.ringing => Presented(u) \/ Has(s, Stops)
  BY <1>1, <1>3, <1>4, <1>7
<1>10. Pending(s, RingOns, Stops) => Presented(u)
  BY <1>1, <1>3
<1>11. Pending(r, Offhooks, Onhooks) => k.offhook
  BY <1>1, <1>7, <1>8
<1>12. Leaves(u) => k.offhook \/ Has(r, Onhooks)
  BY <1>1, <1>7, <1>8
<1>13. Noticed(u, k, r, s)
  BY <1>3, <1>7, <1>8, <1>9, <1>10, <1>11, <1>12 DEF Noticed
<1> QED BY <1>5, <1>13, CircuitKeepsCallInv

-----------------------------------------------------------------------------
(* Messages that reach a half call.                                        *)

\* What is known of a user whose next message is taken.
LEMMA TakenIs ==
  ASSUME CallInv, NEW u \in Users, toCall[u] # <<>>, circuit' = circuit,
         toCall' = [toCall EXCEPT ![u] = Tail(@)]
  PROVE  LET m == Head(toCall[u])
         IN /\ m \in UserMsgSet
            /\ toCall' \in [Users -> Seq(UserMsgSet)]
            /\ m \in Offhooks => Leaves(u)'
            /\ Leaves(u) => Leaves(u)' \/ m \in Onhooks
            /\ \A v \in Users \ {u} : Leaves(v) => Leaves(v)'
            /\ \A v \in Users : Pending(toCall'[v], Offhooks, Onhooks) => circuit'[v].offhook
<1> DEFINE q == toCall[u]
           m == Head(q)
           r == Tail(q)
<1>1. toCall \in [Users -> Seq(UserMsgSet)] /\ q \in Seq(UserMsgSet)
  BY DEF CallInv, MsgsInv
<1>2. /\ m \in UserMsgSet /\ r \in Seq(UserMsgSet)
      /\ Has(q, Onhooks) <=> m \in Onhooks \/ Has(r, Onhooks)
      /\ Pending(q, Offhooks, Onhooks)
           <=> (m \in Offhooks /\ ~Has(r, Onhooks)) \/ Pending(r, Offhooks, Onhooks)
  BY <1>1, TailHas
<1>3. toCall' = [v \in Users |-> IF v = u THEN r ELSE toCall[v]]
  BY <1>1
<1>4. \A v \in Users : Pending(toCall[v], Offhooks, Onhooks) => circuit[v].offhook
  BY DEF CallInv, UserInv
<1> HIDE DEF q, m, r
<1>5. toCall' \in [Users -> Seq(UserMsgSet)]
  BY <1>1, <1>2, <1>3
<1>6. Leaves(u)' <=> circuit[u].offhook \/ Has(r, Onhooks)
  BY <1>3 DEF Leaves
<1>7. Leaves(u) <=> circuit[u].offhook \/ Has(q, Onhooks)
  BY DEF Leaves, q
<1>8. Pending(q, Offhooks, Onhooks) => circuit[u].offhook
  BY <1>4 DEF q
<1>9. m \in Offhooks => Leaves(u)'
  BY <1>2, <1>6, <1>8
<1>10. Leaves(u) => Leaves(u)' \/ m \in Onhooks
  BY <1>2, <1>6, <1>7
<1>11. \A v \in Users \ {u} : Leaves(v) => Leaves(v)'
  BY <1>3 DEF Leaves
<1>12. ASSUME NEW v \in Users, Pending(toCall'[v], Offhooks, Onhooks) PROVE circuit'[v].offhook
  <2>1. CASE v = u
    BY <1>2, <1>3, <1>8, <1>12, <2>1
  <2>2. CASE v # u
    BY <1>3, <1>4, <1>12, <2>2
  <2> QED BY <2>1, <2>2
<1> QED BY <1>2, <1>5, <1>9, <1>10, <1>11, <1>12 DEF m, q

\* A message for which there is no context makes the shelf release the circuit.
LEMMA RejectsIngressKeepsCallInv ==
  ASSUME CallInv, NEW u \in Users, RejectsIngress(u)
  PROVE  CallInv'
<1> DEFINE k == circuit[u]
           q == toCall[u]
           r == Tail(q)
           s == toShelf[u]
<1>1. /\ CircuitForm(k) /\ circuit = [circuit EXCEPT ![u] = k]
      /\ q \in Seq(UserMsgSet) /\ s \in Seq(ShelfMsgs)
      /\ toShelf = [toShelf EXCEPT ![u] = s]
      /\ k.ringing => Presented(u) \/ Has(s, Stops)
      /\ Pending(s, RingOns, Stops) => Presented(u)
      /\ Pending(q, Offhooks, Onhooks) => k.offhook
      /\ Leaves(u) => k.offhook \/ Has(q, Onhooks)
  BY CircuitKnows
<1>2. /\ q # <<>> /\ Head(q).sig # "Onhook" /\ toCall' = [toCall EXCEPT ![u] = r]
      /\ circuit' = circuit /\ toShelf' = toShelf /\ ctx' = ctx /\ profile' = profile
  BY DEF RejectsIngress
<1>3. /\ Head(q) \in UserMsgSet /\ r \in Seq(UserMsgSet)
      /\ Has(q, Onhooks) <=> Head(q) \in Onhooks \/ Has(r, Onhooks)
      /\ Pending(q, Offhooks, Onhooks)
           <=> (Head(q) \in Offhooks /\ ~Has(r, Onhooks)) \/ Pending(r, Offhooks, Onhooks)
  BY <1>1, <1>2, TailHas
<1>4. Head(q) \notin Onhooks
  BY <1>2 DEF Onhooks, User, Msg
<1> HIDE DEF k, q, r, s
<1>5. Noticed(u, k, r, s)
  BY <1>1, <1>3, <1>4 DEF Noticed
<1> QED BY <1>1, <1>2, <1>5, CircuitKeepsCallInv

\* Context c becomes the only half call of u, or none, and keeps presenting a call.
Joins(u, c, g) ==
  /\ g.q \in Seq(Msgs) /\ Single(g.q)
  /\ g.st # "Free" => g.user = u /\ (ReadyOf(g) \/ ShapeOf(g, g.npsm))
  /\ ctx[c].st # "Free" => ctx[c].user = u
  /\ ctx[c].st \in Presenting => g.st = ctx[c].st
  /\ \A d \in Contexts : UserPort(d, u) => d = c

\* Such a change keeps the invariant as long as the user's departure is seen.
LEMMA JoinKeepsCallInv ==
  ASSUME CallInv, IInv', NEW u \in Users, NEW c \in Contexts, NEW g, Joins(u, c, g),
         toCall[u] # <<>>, circuit' = circuit, toCall' = [toCall EXCEPT ![u] = Tail(@)],
         ctx' = [ctx EXCEPT ![c] = g],
         toShelf' = toShelf \/ toShelf' = [toShelf EXCEPT ![u] = Append(@, Release)],
         g.st # "Free" /\ Pending(g.q, Offhooks, Onhooks) => Leaves(u)',
         g.st \in Attended => Leaves(u)' \/ Has(g.q, Onhooks)
  PROVE  CallInv'
<1>1. /\ MsgsInv /\ ShapeInv /\ TimeoutInv /\ RingInv /\ UserInv
      /\ Nil \notin Users /\ Nil \notin Contexts
      /\ ctx' = [d \in Contexts |-> IF d = c THEN g ELSE ctx[d]]
  BY CallAssumption DEF CallInv, IInv, FormInv
<1>2. /\ g.q \in Seq(Msgs) /\ Single(g.q)
      /\ g.st # "Free" => g.user = u /\ (ReadyOf(g) \/ ShapeOf(g, g.npsm))
      /\ ctx[c].st # "Free" => ctx[c].user = u
      /\ ctx[c].st \in Presenting => g.st = ctx[c].st
      /\ \A d \in Contexts : UserPort(d, u) => d = c
  BY DEF Joins
<1>3. /\ toCall' \in [Users -> Seq(UserMsgSet)]
      /\ \A v \in Users \ {u} : Leaves(v) => Leaves(v)'
      /\ \A v \in Users : Pending(toCall'[v], Offhooks, Onhooks) => circuit'[v].offhook
  BY TakenIs
<1>4. /\ toShelf' \in [Users -> Seq(ShelfMsgs)]
      /\ \A v \in Users : /\ Has(toShelf[v], Stops) => Has(toShelf'[v], Stops)
                          /\ Pending(toShelf'[v], RingOns, Stops)
                               => Pending(toShelf[v], RingOns, Stops)
  <2>1. toShelf \in [Users -> Seq(ShelfMsgs)]
    BY <1>1 DEF MsgsInv
  <2>2. CASE toShelf' = toShelf
    BY <2>1, <2>2
  <2>3. CASE toShelf' = [toShelf EXCEPT ![u] = Append(@, Release)]
    <3> DEFINE s == toShelf[u]
               r == Append(s, Release)
    <3>1. Release \in ShelfMsgs /\ Release \in Stops /\ Release \notin RingOns
      BY ShelfFacts DEF ShelfMsgs, Stops, RingOns
    <3>2. s \in Seq(ShelfMsgs)
      BY <2>1
    <3>3. toShelf' = [v \in Users |-> IF v = u THEN r ELSE toShelf[v]]
      BY <2>1, <2>3
    <3>4. /\ r \in Seq(ShelfMsgs)
          /\ Has(r, Stops) <=> Has(s, Stops) \/ Release \in Stops
          /\ Pending(r, RingOns, Stops)
               <=> Release \in RingOns \/ (Pending(s, RingOns, Stops) /\ Release \notin Stops)
      BY <3>1, <3>2, AppendHas
    <3> HIDE DEF r
    <3> QED BY <2>1, <3>1, <3>3, <3>4
  <2> QED BY <2>2, <2>3
<1>5. MsgsInv' /\ TimeoutInv'
  <2>1. \A d \in Contexts : ctx'[d].q \in Seq(Msgs) /\ Single(ctx'[d].q)
    BY <1>1, <1>2 DEF MsgsInv, TimeoutInv
  <2> QED BY <1>1, <1>3, <1>4, <2>1 DEF MsgsInv, TimeoutInv
<1>6. ShapeInv'
  BY <1>1, <1>2 DEF ShapeInv, Live
<1>7. RingInv'
  <2>1. ASSUME NEW v \in Users, Presented(v) PROVE Presented(v)'
    <3>1. PICK d \in Contexts : UserPort(d, v) /\ ctx[d].st \in Presenting
      BY <2>1 DEF Presented
    <3>2. d # Nil /\ ctx[d].st # "Free" /\ ctx[d].user = v
      BY <3>1 DEF UserPort
    <3>3. CASE d = c
      <4>1. ctx'[c] = g /\ g.st = ctx[c].st /\ v = u /\ g.user = v
        BY <1>1, <1>2, <3>1, <3>2, <3>3
      <4> QED BY <3>1, <3>2, <3>3, <4>1 DEF Presented, UserPort
    <3>4. CASE d # c
      <4>1. ctx'[d] = ctx[d]
        BY <1>1, <3>4
      <4> QED BY <3>1, <3>2, <4>1 DEF Presented, UserPort
    <3> QED BY <3>3, <3>4
  <2>2. \A v \in Users : /\ circuit[v].ringing => Presented(v) \/ Has(toShelf[v], Stops)
                         /\ Pending(toShelf[v], RingOns, Stops) => Presented(v)
    BY <1>1 DEF RingInv
  <2>3. \A v \in Users : /\ circuit'[v].ringing => Presented(v)' \/ Has(toShelf'[v], Stops)
                         /\ Pending(toShelf'[v], RingOns, Stops) => Presented(v)'
    BY <1>4, <2>1, <2>2
  <2> QED BY <2>3 DEF RingInv
<1>8. UserInv'
  <2> SUFFICES ASSUME NEW v \in Users, NEW d \in Contexts, UserPort(d, v)'
               PROVE  /\ Pending(ctx'[d].q, Offhooks, Onhooks) => Leaves(v)'
                      /\ ctx'[d].st \in Attended => Leaves(v)' \/ Has(ctx'[d].q, Onhooks)
    BY <1>3 DEF UserInv
  <2>1. ctx'[d].st # "Free" /\ ctx'[d].user = v
    BY DEF UserPort
  <2>2. CASE d = c
    <3>1. ctx'[d] = g
      BY <1>1, <2>2
    <3>2. v = u
      BY <1>2, <2>1, <3>1
    <3> QED BY <2>1, <3>1, <3>2
  <2>3. CASE d # c
    <3>1. ctx'[d] = ctx[d]
      BY <1>1, <2>3
    <3>2. UserPort(d, v)
      BY <1>1, <2>1, <3>1 DEF UserPort
    <3>3. v # u
      BY <1>2, <2>3, <3>2
    <3>4. /\ Pending(ctx[d].q, Offhooks, Onhooks) => Leaves(v)
          /\ ctx[d].st \in Attended => Leaves(v) \/ Has(ctx[d].q, Onhooks)
      BY <1>1, <3>2 DEF UserInv
    <3> QED BY <1>3, <3>1, <3>3, <3>4
  <2> QED BY <2>2, <2>3
<1> QED BY <1>5, <1>6, <1>7, <1>8 DEF CallInv

\* A queue to which a message is added.
LEMMA LongerQueue ==
  ASSUME NEW s \in Seq(Msgs), Single(s), NEW m \in Msgs,
         m \in Timeouts => \A i \in 1 .. Len(s) : s[i] # m
  PROVE  LET r == Append(s, m)
         IN /\ r \in Seq(Msgs) /\ Single(r) /\ r # <<>>
            /\ s # <<>> => Len(r) >= 2 /\ r[1] = s[1]
            /\ Has(r, Onhooks) <=> Has(s, Onhooks) \/ m \in Onhooks
            /\ Pending(r, Offhooks, Onhooks)
                 <=> m \in Offhooks \/ (Pending(s, Offhooks, Onhooks) /\ m \notin Onhooks)
            /\ (\A i \in 1 .. Len(s) : s[i].port = "U") /\ m.port = "U" =>
                  \A i \in 1 .. Len(r) : r[i].port = "U"
<1> DEFINE r == Append(s, m)
           n == Len(s)
<1>1. /\ r \in Seq(Msgs) /\ r # <<>>
      /\ Has(r, Onhooks) <=> Has(s, Onhooks) \/ m \in Onhooks
      /\ Pending(r, Offhooks, Onhooks)
           <=> m \in Offhooks \/ (Pending(s, Offhooks, Onhooks) /\ m \notin Onhooks)
  BY AppendHas
<1>2. /\ n \in Nat /\ Len(r) = n + 1 /\ r[n + 1] = m
      /\ \A i \in 1 .. n : r[i] = s[i]
  BY LenProperties, AppendProperties
<1>3. s # <<>> => n >= 1
  BY <1>2, EmptySeq
<1> HIDE DEF r
<1>4. Single(r)
  BY <1>2 DEF Single
<1>5. s # <<>> => Len(r) >= 2 /\ r[1] = s[1]
  BY <1>2, <1>3
<1>6. (\A i \in 1 .. Len(s) : s[i].port = "U") /\ m.port = "U" =>
        \A i \in 1 .. Len(r) : r[i].port = "U"
  BY <1>2
<1> QED BY <1>1, <1>4, <1>5, <1>6 DEF r

\* A queue that is screened.
LEMMA ScreenedQueue ==
  ASSUME NEW s \in Seq(Msgs), Single(s), Len(s) >= 2
  PROVE  LET r == ScreenIcMsgs(s)
         IN /\ r \in Seq(Msgs) /\ Single(r) /\ r # <<>>
            /\ Has(r, Onhooks) <=> Has(s, Onhooks)
            /\ Pending(r, Offhooks, Onhooks) => Pending(s, Offhooks, Onhooks)
            /\ (\A i \in 1 .. Len(s) : s[i].port = "U") =>
                  \A i \in 1 .. Len(r) : r[i].port = "U"
<1>1. CASE ~(s[1].sig = "Offhook" /\ s[2].sig = "Offhook")
  <2>1. ScreenIcMsgs(s) = s
    BY <1>1 DEF ScreenIcMsgs
  <2>2. s # <<>>
    BY EmptySeq
  <2> QED BY <2>1, <2>2
<1>2. CASE s[1].sig = "Offhook" /\ s[2].sig = "Offhook"
  <2> DEFINE r == RemoveAt(s, 2)
             n == Len(s)
  <2>1. ScreenIcMsgs(s) = r
    BY <1>2 DEF ScreenIcMsgs
  <2>2. n \in Nat /\ 2 \in 1 .. n
    BY LenProperties
  <2>3. s[2] \notin Onhooks
    BY <1>2 DEF Onhooks, User, Msg
  <2>4. /\ r \in Seq(Msgs) /\ Len(r) = n - 1
        /\ \A i \in 1 .. Len(r) : r[i] = IF i < 2 THEN s[i] ELSE s[i + 1]
        /\ Has(r, Onhooks) <=> Has(s, Onhooks)
        /\ Pending(r, Offhooks, Onhooks) => Pending(s, Offhooks, Onhooks)
    BY <2>2, <2>3, RemoveAtHas
  <2> HIDE DEF r
  <2>5. \A i \in 1 .. Len(r) : \E j \in 1 .. n : r[i] = s[j]
    <3> SUFFICES ASSUME NEW i \in 1 .. Len(r) PROVE \E j \in 1 .. n : r[i] = s[j]
      OBVIOUS
    <3> DEFINE j == IF i < 2 THEN i ELSE i + 1
    <3>1. j \in 1 .. n /\ r[i] = s[j]
      BY <2>2, <2>4
    <3> HIDE DEF j
    <3> QED BY <3>1
  <2>6. Single(r)
    <3> SUFFICES ASSUME NEW i \in 1 .. Len(r), NEW j \in 1 .. Len(r), r[i] \in Timeouts, r[i] = r[j]
                 PROVE  i = j
      BY DEF Single
    <3> DEFINE x == IF i < 2 THEN i ELSE i + 1
               y == IF j < 2 THEN j ELSE j + 1
    <3>1. /\ x \in 1 .. n /\ y \in 1 .. n /\ r[i] = s[x] /\ r[j] = s[y]
          /\ x = y => i = j
      BY <2>2, <2>4
    <3> HIDE DEF x, y
    <3> QED BY <3>1 DEF Single
  <2>7. r # <<>>
    BY <2>2, <2>4, EmptySeq
  <2> QED BY <2>1, <2>4, <2>5, <2>6, <2>7
<1> QED BY <1>1, <1>2

\* A half call that a user starts.
LEMMA ObcIs ==
  ASSUME NEW u, NEW m
  PROVE  LET g == Obc(u, m)
         IN /\ g.st = "Ready" /\ g.user = u /\ g.model = "Obc" /\ g.npsm = "Idle"
            /\ g.timer = Nil /\ g.q = <<m>>
<1> DEFINE g1 == [NoCall EXCEPT !.st = "Ready"]
           g2 == [g1 EXCEPT !.model = "Obc"]
           g3 == [g2 EXCEPT !.user = u]
           g4 == [g3 EXCEPT !.q = <<m>>]
<1>1. HalfForm(g1) /\ g1.st = "Ready" /\ g1.npsm = "Idle" /\ g1.timer = Nil
  BY DEF NoCall, HalfForm
<1> HIDE DEF g1
<1>2. /\ HalfForm(g2) /\ g2.st = "Ready" /\ g2.npsm = "Idle"
      /\ g2.timer = Nil /\ g2.model = "Obc"
  BY <1>1 DEF HalfForm
<1> HIDE DEF g2
<1>3. /\ HalfForm(g3) /\ g3.st = "Ready" /\ g3.npsm = "Idle"
      /\ g3.timer = Nil /\ g3.model = "Obc" /\ g3.user = u
  BY <1>2 DEF HalfForm
<1> HIDE DEF g3
<1>4. /\ g4.st = "Ready" /\ g4.npsm = "Idle" /\ g4.timer = Nil /\ g4.model = "Obc"
      /\ g4.user = u /\ g4.q = <<m>>
  BY <1>3 DEF HalfForm
<1>5. Obc(u, m) = g4
  BY DEF Obc, g1, g2, g3
<1> QED BY <1>4, <1>5

\* The invariant is kept when a message starts a half call,
LEMMA InitialKeepsCallInv ==
  ASSUME CallInv, NEW u \in Users, toCall[u] # <<>>, ~UserPort(profile[u].addr, u),
         ReceiveInitial(u, Head(toCall[u])), circuit' = circuit, toShelf' = toShelf,
         toCall' = [toCall EXCEPT ![u] = Tail(@)]
  PROVE  CallInv'
<1> DEFINE m == Head(toCall[u])
           c == NewContext
           g == Obc(u, m)
<1>1. IInv /\ IInv'
  BY InitialKeepsIInv DEF CallInv
<1>2. c \in Contexts /\ ctx[c].st = "Free" /\ ctx' = [ctx EXCEPT ![c] = g]
  BY NewContextIsUnused DEF ReceiveInitial
<1>3. m \in UserMsgSet /\ (m \in Offhooks => Leaves(u)')
  BY TakenIs
<1>4. /\ g.st = "Ready" /\ g.user = u /\ g.model = "Obc" /\ g.npsm = "Idle"
      /\ g.timer = Nil /\ g.q = <<m>>
  BY ObcIs
<1>5. \A d \in Contexts : ~UserPort(d, u)
  BY <1>1 DEF IInv, OwnerInv
<1> HIDE DEF c, g, m
<1> DEFINE s == <<m>>
<1>6. m \in Msgs /\ m.port = "U"
  BY <1>3 DEF Msgs, UserMsgSet, User, Digits, Msg
<1>7. /\ s \in Seq(Msgs) /\ Single(s)
      /\ Pending(s, Offhooks, Onhooks) <=> m \in Offhooks
  BY <1>6, SmallQueues
<1>8. Len(s) = 1 /\ s[1] = m /\ s # <<>>
  OBVIOUS
<1> HIDE DEF s
<1>9. g.q = s
  BY <1>4 DEF s
<1>10. ReadyOf(g)
  BY <1>4, <1>6, <1>8, <1>9 DEF ReadyOf, NewObc
<1>11. Joins(u, c, g)
  BY <1>2, <1>4, <1>5, <1>7, <1>9, <1>10 DEF Joins, Presenting
<1>12. Pending(g.q, Offhooks, Onhooks) => Leaves(u)'
  BY <1>3, <1>7, <1>9
<1>13. g.st \notin Attended
  BY <1>4 DEF Attended
<1> QED BY <1>1, <1>2, <1>11, <1>12, <1>13, JoinKeepsCallInv

\* when one is cancelled before it began,
LEMMA CancelKeepsCallInv ==
  ASSUME CallInv, NEW u \in Users, NEW c \in Contexts, UserPort(c, u), ctx[c].st = "Ready",
         toCall[u] # <<>>, circuit' = circuit, toCall' = [toCall EXCEPT ![u] = Tail(@)],
         ctx' = [ctx EXCEPT ![c] = NoCall], profile' = profile,
         toShelf' = [toShelf EXCEPT ![u] = Append(@, Release)]
  PROVE  CallInv'
<1>1. IInv /\ IInv'
  BY DeleteKeepsIInv DEF CallInv
<1>2. NoCall.st = "Free" /\ NoCall.q = <<>>
  BY DEF NoCall
<1>3. \A d \in Contexts : UserPort(d, u) => d = c
  BY <1>1 DEF IInv, OwnerInv
<1>4. Joins(u, c, NoCall)
  BY <1>2, <1>3, EmptyIsSingle DEF Joins, Presenting, UserPort
<1>5. NoCall.st \notin Attended
  BY <1>2 DEF Attended
<1> QED BY <1>1, <1>2, <1>4, <1>5, JoinKeepsCallInv

\* and when a message is queued.
LEMMA QueueKeepsCallInv ==
  ASSUME CallInv, NEW u \in Users, NEW c \in Contexts, UserPort(c, u), NEW r,
         toCall[u] # <<>>, circuit' = circuit, toCall' = [toCall EXCEPT ![u] = Tail(@)],
         r = IF ctx[c].st = "Ready" /\ ctx[c].model = "Obc"
               THEN ScreenIcMsgs(Append(ctx[c].q, Head(toCall[u])))
               ELSE Append(ctx[c].q, Head(toCall[u])),
         ctx' = [ctx EXCEPT ![c] = [ctx[c] EXCEPT !.q = r]], profile' = profile,
         toShelf' = toShelf
  PROVE  CallInv'
<1> DEFINE m == Head(toCall[u])
           h == ctx[c]
           q == Append(h.q, m)
           g == [h EXCEPT !.q = r]
<1>1. IInv /\ MsgsInv /\ ShapeInv /\ TimeoutInv /\ UserInv /\ Nil \notin Users
  BY CallAssumption DEF CallInv
<1>2. h.st # "Free" /\ h.user = u
  BY DEF UserPort
<1>3. IInv'
  BY <1>1, <1>2, QueueKeepsIInv
<1>4. /\ m \in UserMsgSet /\ (m \in Offhooks => Leaves(u)')
      /\ Leaves(u) => Leaves(u)' \/ m \in Onhooks
  BY TakenIs
<1>5. \A d \in Contexts : UserPort(d, u) => d = c
  BY <1>1 DEF IInv, OwnerInv
<1>6. HalfForm(h) /\ h.q \in Seq(Msgs) /\ Single(h.q)
  BY <1>1 DEF IInv, FormInv, MsgsInv, TimeoutInv
<1>7. /\ Pending(h.q, Offhooks, Onhooks) => Leaves(u)
      /\ h.st \in Attended => Leaves(u) \/ Has(h.q, Onhooks)
  BY <1>1 DEF UserInv
<1>8. ReadyOf(h) \/ ShapeOf(h, h.npsm)
  BY <1>1, <1>2 DEF ShapeInv, Live
<1> HIDE DEF m, h
<1>9. m \in Msgs /\ m.port = "U" /\ m \notin Timeouts
  <2>1. m \in Msgs /\ m.port = "U" /\ m.sig # "Timeout"
    BY <1>4 DEF Msgs, UserMsgSet, User, Digits, Msg
  <2> QED BY <2>1, MsgFacts
<1>10. /\ q \in Seq(Msgs) /\ Single(q) /\ q # <<>>
       /\ h.q # <<>> => Len(q) >= 2
       /\ Has(q, Onhooks) <=> Has(h.q, Onhooks) \/ m \in Onhooks
       /\ Pending(q, Offhooks, Onhooks)
            <=> m \in Offhooks \/ (Pending(h.q, Offhooks, Onhooks) /\ m \notin Onhooks)
       /\ (\A i \in 1 .. Len(h.q) : h.q[i].port = "U") => \A i \in 1 .. Len(q) : q[i].port = "U"
  BY <1>6, <1>9, LongerQueue
<1> HIDE DEF q
<1>11. /\ r \in Seq(Msgs) /\ Single(r) /\ r # <<>>
       /\ Has(r, Onhooks) <=> Has(q, Onhooks)
       /\ Pending(r, Offhooks, Onhooks) => Pending(q, Offhooks, Onhooks)
       /\ (\A i \in 1 .. Len(q) : q[i].port = "U") => \A i \in 1 .. Len(r) : r[i].port = "U"
  <2>1. CASE h.st = "Ready" /\ h.model = "Obc"
    <3>1. r = ScreenIcMsgs(q)
      BY <2>1 DEF q, h, m
    <3>2. h.q # <<>>
      BY <1>8, <2>1 DEF ReadyOf, ShapeOf, Timed, Attended
    <3> QED BY <1>10, <3>1, <3>2, ScreenedQueue
  <2>2. CASE ~(h.st = "Ready" /\ h.model = "Obc")
    <3>1. r = q
      BY <2>2 DEF q, h, m
    <3> QED BY <1>10, <3>1
  <2> QED BY <2>1, <2>2
<1>12. /\ g.st = h.st /\ g.user = h.user /\ g.model = h.model /\ g.npsm = h.npsm
       /\ g.timer = h.timer /\ g.q = r
  BY <1>6, QueuedIs
<1>13. ctx' = [ctx EXCEPT ![c] = g]
  BY DEF h
<1> HIDE DEF g
<1>14. ReadyOf(g) \/ ShapeOf(g, g.npsm)
  <2>1. CASE ShapeOf(h, h.npsm)
    BY <1>12, <2>1 DEF ShapeOf
  <2>2. CASE ReadyOf(h)
    <3>1. NewObc(h)
      BY <1>1, <1>2, <2>2 DEF ReadyOf, NewTbc
    <3>2. \A i \in 1 .. Len(r) : r[i].port = "U"
      BY <1>10, <1>11, <3>1 DEF NewObc
    <3> QED BY <1>11, <1>12, <2>2, <3>1, <3>2 DEF ReadyOf, NewObc
  <2> QED BY <1>8, <2>1, <2>2
<1>15. Joins(u, c, g)
  BY <1>2, <1>5, <1>11, <1>12, <1>14 DEF Joins, h
<1>16. Pending(g.q, Offhooks, Onhooks) => Leaves(u)'
  BY <1>4, <1>7, <1>10, <1>11, <1>12
<1>17. g.st \in Attended => Leaves(u)' \/ Has(g.q, Onhooks)
  BY <1>4, <1>7, <1>10, <1>11, <1>12
<1> QED BY <1>3, <1>13, <1>15, <1>16, <1>17, JoinKeepsCallInv

\* A message of a user reaches the half call, or starts it (PotsCallFactory).
LEMMA CallReceivesKeepsCallInv ==
  ASSUME CallInv, NEW u \in Users, CallReceives(u)
  PROVE  CallInv'
<1> DEFINE m == Head(toCall[u])
           c == profile[u].addr
<1>1. /\ toCall[u] # <<>> /\ circuit' = circuit /\ toCall' = [toCall EXCEPT ![u] = Tail(@)]
  BY DEF CallReceives
<1>2. \/ UserPort(c, u) /\ ReceiveProgress(u, c, m) /\ profile' = profile
      \/ ~UserPort(c, u) /\ ReceiveInitial(u, m) /\ toShelf' = toShelf
  BY DEF CallReceives
<1>3. CASE ~UserPort(c, u) /\ ReceiveInitial(u, m) /\ toShelf' = toShelf
  BY <1>1, <1>3, InitialKeepsCallInv
<1>4. CASE UserPort(c, u) /\ ReceiveProgress(u, c, m) /\ profile' = profile
  <2>1. c \in Contexts
    BY <1>4 DEF UserPort, CallInv, IInv, FormInv
  <2> DEFINE q == Append(ctx[c].q, m)
             screened == ctx[c].st = "Ready" /\ ctx[c].model = "Obc"
             r == IF screened THEN ScreenIcMsgs(q) ELSE q
  <2>2. \/ /\ screened /\ ctx' = [ctx EXCEPT ![c] = NoCall]
           /\ toShelf' = [toShelf EXCEPT ![u] = Append(@, Release)]
        \/ ctx' = [ctx EXCEPT ![c] = [ctx[c] EXCEPT !.q = r]] /\ toShelf' = toShelf
    BY <1>4 DEF ReceiveProgress
  <2>3. CASE /\ screened /\ ctx' = [ctx EXCEPT ![c] = NoCall]
             /\ toShelf' = [toShelf EXCEPT ![u] = Append(@, Release)]
    <3> HIDE DEF c
    <3> QED BY <1>1, <1>4, <2>1, <2>3, CancelKeepsCallInv
  <2>4. CASE ctx' = [ctx EXCEPT ![c] = [ctx[c] EXCEPT !.q = r]] /\ toShelf' = toShelf
    <3>1. r = IF ctx[c].st = "Ready" /\ ctx[c].model = "Obc"
                THEN ScreenIcMsgs(Append(ctx[c].q, Head(toCall[u])))
                ELSE Append(ctx[c].q, Head(toCall[u]))
      OBVIOUS
    <3> HIDE DEF c, r
    <3> QED BY <1>1, <1>4, <2>1, <2>4, <3>1, QueueKeepsCallInv
  <2> QED BY <2>2, <2>3, <2>4
<1> QED BY <1>2, <1>3, <1>4

-----------------------------------------------------------------------------
(* Timers.                                                                 *)

\* A timer runs in a half call that was served, and its timeout is not queued.
LEMMA RunningIs ==
  ASSUME CallInv, NEW c \in Contexts, NEW tid \in Running(c)
  PROVE  /\ ctx[c].st # "Free" /\ ShapeOf(ctx[c], ctx[c].npsm) /\ tid \in TimerIds
<1>1. IInv /\ ShapeInv
  BY DEF CallInv
<1>2. \/ tid = ctx[c].timer /\ tid # Nil
      \/ tid = "Iam" /\ ctx[c].npsm = "IamSent"
  BY DEF Running
<1>3. ctx[c].st # "Free"
  <2>1. NoCall.timer = Nil /\ NoCall.npsm = "Idle"
    BY DEF NoCall
  <2> QED BY <1>1, <1>2, <2>1 DEF IInv, ContextInv
<1>4. ShapeOf(ctx[c], ctx[c].npsm)
  BY <1>1, <1>2, <1>3 DEF ShapeInv, Live, ReadyOf
<1> QED BY <1>2, <1>3, <1>4 DEF ShapeOf, TimerIds

\* The timeout that is queued is the only one of its timer.
LEMMA TimerKeepsCallInv ==
  ASSUME CallInv, NEW c \in Contexts, TimerExpires(c)
  PROVE  CallInv'
<1>1. PICK tid \in Running(c) :
        /\ \A i \in DOMAIN ctx[c].q : ctx[c].q[i] # Timeout(tid)
        /\ ctx' = [ctx EXCEPT ![c].q = Append(@, Timeout(tid))]
        /\ circuit' = circuit /\ toShelf' = toShelf /\ toCall' = toCall
  BY DEF TimerExpires
<1> DEFINE m == Timeout(tid)
           h == ctx[c]
           r == Append(h.q, m)
           g == [h EXCEPT !.q = r]
<1>2. /\ IInv /\ MsgsInv /\ ShapeInv /\ TimeoutInv /\ RingInv /\ UserInv
      /\ Nil \notin Users /\ Nil \notin Contexts
  BY CallAssumption DEF CallInv
<1>3. IInv'
  BY <1>2, TimerKeepsIInv
<1>4. h.st # "Free" /\ ShapeOf(h, h.npsm) /\ m \in Timeouts /\ m \in Msgs
  BY RunningIs DEF Timeouts, Msgs
<1>5. m \notin Onhooks /\ m \notin Offhooks
  BY <1>4, MsgFacts
<1>6. HalfForm(h) /\ h.q \in Seq(Msgs) /\ Single(h.q)
  BY <1>2 DEF IInv, FormInv, MsgsInv, TimeoutInv
<1>7. \A i \in 1 .. Len(h.q) : h.q[i] # m
  BY <1>1, <1>6
<1>8. ctx' = [d \in Contexts |-> IF d = c THEN g ELSE ctx[d]]
  BY <1>1, <1>2 DEF IInv, FormInv
<1> HIDE DEF m, h
<1>9. /\ r \in Seq(Msgs) /\ Single(r)
      /\ Has(r, Onhooks) <=> Has(h.q, Onhooks) \/ m \in Onhooks
      /\ Pending(r, Offhooks, Onhooks)
           <=> m \in Offhooks \/ (Pending(h.q, Offhooks, Onhooks) /\ m \notin Onhooks)
  BY <1>4, <1>6, <1>7, LongerQueue
<1> HIDE DEF r
<1>10. /\ g.st = h.st /\ g.user = h.user /\ g.model = h.model /\ g.npsm = h.npsm
       /\ g.timer = h.timer /\ g.q = r
  BY <1>6, QueuedIs
<1> HIDE DEF g
<1>11. \A d \in Contexts : ctx'[d].st = ctx[d].st /\ ctx'[d].user = ctx[d].user
  BY <1>8, <1>10 DEF h
<1>12. \A u \in Users, d \in Contexts : UserPort(d, u)' <=> UserPort(d, u)
  BY <1>11 DEF UserPort
<1>13. MsgsInv' /\ TimeoutInv'
  <2>1. \A d \in Contexts : ctx'[d].q \in Seq(Msgs) /\ Single(ctx'[d].q)
    BY <1>2, <1>8, <1>9, <1>10 DEF MsgsInv, TimeoutInv
  <2> QED BY <1>1, <1>2, <2>1 DEF MsgsInv, TimeoutInv
<1>14. ShapeInv'
  <2>1. ShapeOf(g, g.npsm)
    BY <1>4, <1>10 DEF ShapeOf
  <2> QED BY <1>2, <1>8, <2>1 DEF ShapeInv, Live
<1>15. RingInv'
  <2>1. \A u \in Users : Presented(u) => Presented(u)'
    BY <1>11, <1>12 DEF Presented
  <2> QED BY <1>1, <1>2, <2>1 DEF RingInv
<1>16. UserInv'
  <2>1. \A u \in Users : Leaves(u)' <=> Leaves(u)
    BY <1>1 DEF Leaves
  <2>2. ASSUME NEW u \in Users, NEW d \in Contexts, UserPort(d, u)'
        PROVE  /\ Pending(ctx'[d].q, Offhooks, Onhooks) => Leaves(u)'
               /\ ctx'[d].st \in Attended => Leaves(u)' \/ Has(ctx'[d].q, Onhooks)
    <3>1. UserPort(d, u)
      BY <1>12, <2>2
    <3>2. /\ Pending(ctx[d].q, Offhooks, Onhooks) => Leaves(u)
          /\ ctx[d].st \in Attended => Leaves(u) \/ Has(ctx[d].q, Onhooks)
      BY <1>2, <3>1 DEF UserInv
    <3>3. CASE d = c
      <4>1. ctx'[d].q = r /\ ctx'[d].st = h.st
        BY <1>8, <1>10, <3>3
      <4> QED BY <1>5, <1>9, <2>1, <3>2, <3>3, <4>1 DEF h
    <3>4. CASE d # c
      BY <1>8, <2>1, <3>2, <3>4
    <3> QED BY <3>3, <3>4
  <2>3. \A u \in Users : Pending(toCall'[u], Offhooks, Onhooks) => circuit'[u].offhook
    BY <1>1, <1>2 DEF UserInv
  <2> QED BY <2>2, <2>3 DEF UserInv
<1> QED BY <1>3, <1>13, <1>14, <1>15, <1>16 DEF CallInv

-----------------------------------------------------------------------------
(* The invariant.                                                          *)

\* The end of a transaction keeps each part,
LEMMA EndsKeepsCallInv ==
  ASSUME CallInv, NEW c \in Contexts, ctx[c].st # "Free", ctx[c].q # <<>>, Ends(c)
  PROVE  CallInv'
<1>1. PICK t : Complete(c, t) /\ Sound(c, t) /\ EndOfTransaction(c, t)
  BY DEF Ends
<1>2. IInv'
  BY <1>1, EndOfTransactionKeepsIInv DEF CallInv
<1>3. MsgsInv' /\ TimeoutInv' /\ ShapeInv' /\ RingInv' /\ UserInv'
  BY <1>1, EndKeepsMsgs, EndKeepsShape, EndKeepsRing, EndKeepsUser
<1> QED BY <1>2, <1>3 DEF CallInv

\* so serving a context does,
LEMMA ProcessWorkKeepsCallInv ==
  ASSUME CallInv, NEW c \in Contexts, ProcessWork(c)
  PROVE  CallInv'
<1>1. Ends(c)
  BY NuEnds, CiEnds, ScEnds, PcEnds, TaEnds, AcEnds, ExEnds, RemoteEnds, TimeoutEnds
     DEF ProcessWork
<1>2. ctx[c].q # <<>>
  BY DEF ProcessWork, FromUser, FromNet, NuAnalyzeLocalMessage, CiAnalyzeLocalMessage,
         ScAnalyzeLocalMessage, PcAnalyzeLocalMessage, TaAnalyzeLocalMessage,
         AcAnalyzeLocalMessage, ExAnalyzeLocalMessage, AnalyzeRemoteMessage,
         AnalyzeNPsmTimeout
<1>3. ctx[c].st # "Free"
  BY <1>2 DEF CallInv, IInv, ContextInv, NoCall
<1> QED BY <1>1, <1>2, <1>3, EndsKeepsCallInv

\* and so does a step in which nothing happens.
LEMMA UnchangedKeepsCallInv ==
  ASSUME CallInv, UNCHANGED vars
  PROVE  CallInv'
<1>1. /\ circuit' = circuit /\ toShelf' = toShelf /\ toCall' = toCall /\ ctx' = ctx
      /\ profile' = profile
  BY DEF vars
<1>2. IInv'
  BY <1>1, UnchangedKeepsIInv DEF CallInv
<1>3. MsgsInv' /\ ShapeInv' /\ TimeoutInv'
  BY <1>1 DEF CallInv, MsgsInv, ShapeInv, TimeoutInv, Live
<1>4. RingInv'
  <2>1. \A u \in Users : Presented(u)' <=> Presented(u)
    BY <1>1 DEF Presented, UserPort
  <2> QED BY <1>1, <2>1 DEF CallInv, RingInv
<1>5. UserInv'
  <2>1. \A u \in Users : Leaves(u)' <=> Leaves(u)
    BY <1>1 DEF Leaves
  <2>2. \A u \in Users, c \in Contexts : UserPort(c, u)' <=> UserPort(c, u)
    BY <1>1 DEF UserPort
  <2> QED BY <1>1, <2>1, <2>2 DEF CallInv, UserInv
<1> QED BY <1>2, <1>3, <1>4, <1>5 DEF CallInv

\* Nothing is in progress at first.
LEMMA InitCallInv == Init => CallInv
<1> SUFFICES ASSUME Init PROVE CallInv
  OBVIOUS
<1>1. /\ circuit = [u \in Users |-> [state |-> "Idle", offhook |-> FALSE,
                                     ringing |-> FALSE, digits |-> FALSE]]
      /\ profile = [u \in Users |-> [state |-> "Idle", addr |-> Nil]]
      /\ toShelf = [u \in Users |-> <<>>] /\ toCall = [u \in Users |-> <<>>]
      /\ ctx = [c \in Contexts |-> NoCall]
  BY DEF Init
<1>2. HalfForm(NoCall) /\ NoCall.st = "Free" /\ NoCall.peer = Nil /\ NoCall.q = <<>>
  BY DEF NoCall, HalfForm
<1>3. IInv
  BY <1>1, <1>2 DEF IInv, FormInv, OwnerInv, ContextInv, UserPort, ProfileForm
<1>4. MsgsInv /\ TimeoutInv
  <2>1. \A u \in Users : CircuitForm(circuit[u])
    BY <1>1 DEF CircuitForm, Fields
  <2>2. /\ toShelf \in [Users -> Seq(ShelfMsgs)] /\ toCall \in [Users -> Seq(UserMsgSet)]
        /\ circuit = [u \in Users |-> circuit[u]]
    BY <1>1
  <2>3. \A c \in Contexts : ctx[c].q \in Seq(Msgs) /\ Single(ctx[c].q)
    BY <1>1, <1>2, EmptyIsSingle
  <2> QED BY <2>1, <2>2, <2>3 DEF MsgsInv, TimeoutInv
<1>5. ShapeInv
  BY <1>1, <1>2 DEF ShapeInv, Live
<1>6. RingInv
  <2>1. \A u \in Users : ~circuit[u].ringing /\ toShelf[u] = <<>>
    BY <1>1
  <2> QED BY <2>1, EmptyHas DEF RingInv
<1>7. UserInv
  <2>1. \A u \in Users : toCall[u] = <<>>
    BY <1>1
  <2>2. \A u \in Users, c \in Contexts : ~UserPort(c, u)
    BY <1>1, <1>2 DEF UserPort
  <2> QED BY <2>1, <2>2, EmptyHas DEF UserInv
<1> QED BY <1>3, <1>4, <1>5, <1>6, <1>7 DEF CallInv

\* Every step keeps the invariant.
LEMMA NextCallInv == CallInv /\ [Next]_vars => CallInv'
<1> SUFFICES ASSUME CallInv, [Next]_vars PROVE CallInv'
  OBVIOUS
<1>1. ASSUME NEW u \in Users, Subscriber(u) PROVE CallInv'
  BY <1>1, GoesOnhookKeepsCallInv, GoesOffhookKeepsCallInv, DialsKeepsCallInv DEF Subscriber
<1>2. ASSUME NEW u \in Users, ShelfReceives(u) PROVE CallInv'
  BY <1>2, ShelfReceivesKeepsCallInv
<1>3. ASSUME NEW u \in Users, CallReceives(u) PROVE CallInv'
  BY <1>3, CallReceivesKeepsCallInv
<1>4. ASSUME NEW u \in Users, RejectsIngress(u) PROVE CallInv'
  BY <1>4, RejectsIngressKeepsCallInv
<1>5. ASSUME NEW c \in Contexts, ProcessWork(c) PROVE CallInv'
  BY <1>5, ProcessWorkKeepsCallInv
<1>6. ASSUME NEW c \in Contexts, TimerExpires(c) PROVE CallInv'
  BY <1>6, TimerKeepsCallInv
<1>7. CASE UNCHANGED vars
  BY <1>7, UnchangedKeepsCallInv
<1> QED BY <1>1, <1>2, <1>3, <1>4, <1>5, <1>6, <1>7 DEF Next

\* The inductive invariant: the profile and the half call of a user know each
\* other, queues hold what can be sent, a served half call has a timer or a user
\* who will end it, and a circuit rings for a call or is about to be stopped.
THEOREM CallInvariant == Spec => []CallInv
  BY InitCallInv, NextCallInv, PTL DEF Spec

\* A subscriber has at most one half call, and the profile refers to it,
\* whatever crosses (SelectFacility, SetObjAddr, ClearObjAddr).
THEOREM CallHasOneOwner == Spec => []OneOwner
<1>1. CallInv => OneOwner
  BY DEF CallInv, IInv, OwnerInv, OneOwner
<1> QED BY <1>1, CallInvariant, PTL

\* The line of a subscriber who has a half call is never seen as idle, also
\* when another state was set by treatment or the context has yet to run: it is
\* all that SelectFacility looks at before it presents a call.
THEOREM LineIsBusy ==
  Spec => [](\A u \in Users, c \in Contexts :
               UserPort(c, u) => profile[u].state # "Idle")
<1>1. CallInv => \A u \in Users, c \in Contexts :
                   UserPort(c, u) => profile[u].state # "Idle"
  BY DEF CallInv, IInv, OwnerInv
<1> QED BY <1>1, CallInvariant, PTL

\* A circuit rings only while a call is presented, or until the message that
\* stops it arrives.
THEOREM RingsOnlyForCall == Spec => []RingsForCall
<1>1. ASSUME CallInv PROVE RingsForCall
  <2> SUFFICES ASSUME NEW u \in Users, circuit[u].ringing
               PROVE  \/ \E c \in Contexts : UserPort(c, u) /\ ctx[c].st \in {"Pc", "Ta"}
                      \/ \E i \in DOMAIN toShelf[u] : toShelf[u][i] \in {RingOff, Release}
    BY DEF RingsForCall
  <2>1. Presented(u) \/ Has(toShelf[u], Stops)
    BY <1>1 DEF CallInv, RingInv
  <2>2. toShelf[u] \in Seq(ShelfMsgs)
    BY <1>1 DEF CallInv, MsgsInv
  <2>3. DOMAIN toShelf[u] = 1 .. Len(toShelf[u])
    BY <2>2
  <2> QED BY <2>1, <2>3 DEF Presented, Presenting, Has, Stops
<1> QED BY <1>1, CallInvariant, PTL

\* Every half call has work, a timer, or a user who is offhook or whose onhook
\* will reach it.
THEOREM NothingHangs == Spec => []NeverHangs
<1>1. ASSUME CallInv PROVE NeverHangs
  <2> SUFFICES ASSUME NEW c \in Contexts, Live(c), ctx[c].q = <<>>, Running(c) = {}
               PROVE  \E u \in Users :
                        /\ UserPort(c, u) /\ profile[u].addr = c
                        /\ circuit[u].offhook \/ Contains(toCall[u], User("Onhook"))
    BY DEF NeverHangs
  <2>1. /\ IInv /\ MsgsInv /\ ShapeInv /\ UserInv /\ Nil \notin Contexts
    BY <1>1, CallAssumption DEF CallInv
  <2>2. ShapeOf(ctx[c], ctx[c].npsm)
    BY <2>1 DEF ShapeInv, ReadyOf
  <2>3. ctx[c].timer = Nil
    BY DEF Running
  <2>4. ctx[c].st \in Attended /\ ctx[c].user \in Users
    BY <2>2, <2>3 DEF ShapeOf
  <2> DEFINE u == ctx[c].user
  <2>5. UserPort(c, u) /\ profile[u].addr = c
    BY <2>1, <2>4 DEF UserPort, Live, IInv, OwnerInv
  <2>6. Leaves(u) \/ Has(ctx[c].q, Onhooks)
    BY <2>1, <2>4, <2>5 DEF UserInv
  <2>7. ~Has(ctx[c].q, Onhooks)
    BY EmptyHas
  <2>8. Has(toCall[u], Onhooks) => Contains(toCall[u], User("Onhook"))
    <3>1. toCall[u] \in Seq(UserMsgSet)
      BY <2>1, <2>4 DEF MsgsInv
    <3> QED BY <3>1 DEF Has, Onhooks, Contains
  <2> QED BY <2>4, <2>5, <2>6, <2>7, <2>8 DEF Leaves
<1> QED BY <1>1, CallInvariant, PTL

-----------------------------------------------------------------------------
(* What the messages of the other half lead to.                            *)

\* Every set of numbers that is not empty has a least element.
LEMMA LeastElement ==
  ASSUME NEW T \in SUBSET Nat, T # {}
  PROVE  \E n \in T : \A m \in T : n <= m
<1> DEFINE R == StrictSubsetOrdering(Nat)
           S == FiniteSubsetsOf(Nat)
           below == {0 .. n - 1 : n \in T}
<1>1. \A n \in T : 0 .. n - 1 \in SUBSET Nat /\ IsFiniteSet(0 .. n - 1)
  <2> TAKE n \in T
  <2>1. n \in Nat /\ n - 1 \in Int
    OBVIOUS
  <2> QED BY <2>1, FS_Interval
<1>2. IsWellFoundedOn(R, S) /\ below \subseteq S /\ below # {}
  BY <1>1, FS_StrictSubsetOrderingWellFounded DEF FiniteSubsetsOf
<1> HIDE DEF R, S
<1>3. PICK x \in below : \A y \in below : ~(<<y, x>> \in R)
  BY <1>2, WFMin
<1>4. PICK n \in T : x = 0 .. n - 1
  BY <1>3
<1>5. ASSUME NEW m \in T, m < n PROVE FALSE
  <2>1. 0 .. m - 1 \subseteq 0 .. n - 1
    BY <1>5
  <2>2. m \in 0 .. n - 1 /\ m \notin 0 .. m - 1
    BY <1>5
  <2>3. <<0 .. m - 1, x>> \in R
    BY <1>1, <1>4, <2>1, <2>2 DEF R, StrictSubsetOrdering, FiniteSubsetsOf
  <2> QED BY <1>3, <2>3
<1>6. \A m \in T : n <= m
  BY <1>5
<1> QED BY <1>4, <1>6

\* The states f of a PSM that starts in s and receives the messages of q, all of
\* them valid, and none after a release.
Path(s, q, f) ==
  /\ f[0] = s /\ \A i \in 0 .. Len(q) : f[i] \in CipStates
  /\ \A i \in 1 .. Len(q) :
       f[i] = Received(f[i - 1], q[i]) /\ (IsCip(q[i]) => f[i - 1] # "Idle")

\* It ends in state z.
Reach(s, q, z) == \E f : Path(s, q, f) /\ f[Len(q)] = z

\* No message of q is from the other half.
Quiet(q) == \A i \in 1 .. Len(q) : ~IsCip(q[i])

\* A set of states that no message leads out of is not left.
LEMMA PathStays ==
  ASSUME NEW S, NEW q \in Seq(S), NEW s, NEW f, Path(s, q, f), NEW P, s \in P,
         \A i \in 1 .. Len(q) : f[i - 1] \in P => f[i] \in P
  PROVE  \A i \in 0 .. Len(q) : f[i] \in P
<1> DEFINE n == Len(q)
           T == {i \in 0 .. n : f[i] \notin P}
<1>1. n \in Nat /\ f[0] \in P
  BY LenProperties DEF Path
<1> HIDE DEF n
<1>2. T \subseteq Nat
  BY <1>1
<1>3. CASE T = {}
  BY <1>3 DEF n
<1>4. CASE T # {}
  <2>1. PICK i \in T : \A j \in T : i <= j
    BY <1>2, <1>4, LeastElement
  <2>2. i \in 1 .. n /\ i - 1 \in 0 .. n /\ ~(i <= i - 1)
    BY <1>1, <2>1
  <2>3. f[i - 1] \in P
    BY <2>1, <2>2
  <2> QED BY <2>1, <2>2, <2>3 DEF n
<1> QED BY <1>3, <1>4

\* Nothing is received by way of an empty queue,
LEMMA ReachEmpty ==
  ASSUME NEW s \in CipStates
  PROVE  Reach(s, <<>>, s)
<1> DEFINE q == <<>>
           f == [i \in 0 .. 0 |-> s]
<1>1. Len(q) = 0 /\ f[0] = s
  OBVIOUS
<1> HIDE DEF q, f
<1>2. Path(s, q, f)
  BY <1>1 DEF Path
<1> QED BY <1>1, <1>2 DEF Reach, q

\* or of one in which no message is from the other half.
LEMMA ReachQuiet ==
  ASSUME NEW S, NEW q \in Seq(S), Quiet(q), NEW s \in CipStates
  PROVE  Reach(s, q, s) /\ \A z : Reach(s, q, z) => z = s
<1> DEFINE n == Len(q)
           g == [i \in 0 .. n |-> s]
<1>1. n \in Nat /\ \A i \in 0 .. n : g[i] = s
  BY LenProperties
<1> HIDE DEF g
<1>2. Path(s, q, g)
  BY <1>1 DEF Path, Quiet, Received, n
<1>3. Reach(s, q, s)
  BY <1>1, <1>2 DEF Reach, n
<1>4. ASSUME NEW z, Reach(s, q, z) PROVE z = s
  <2>1. PICK f : Path(s, q, f) /\ f[n] = z
    BY <1>4 DEF Reach, n
  <2>2. \A i \in 0 .. Len(q) : f[i] \in {s}
    <3>1. \A i \in 1 .. Len(q) : f[i - 1] \in {s} => f[i] \in {s}
      BY <2>1 DEF Path, Quiet, Received
    <3> QED BY <2>1, <3>1, PathStays
  <2> QED BY <1>1, <2>1, <2>2 DEF n
<1> QED BY <1>3, <1>4

\* A message is added to those that will be received,
LEMMA ReachAppend ==
  ASSUME NEW S, NEW q \in Seq(S), NEW s, NEW z, Reach(s, q, z), NEW m \in S,
         Received(z, m) \in CipStates, IsCip(m) => z # "Idle"
  PROVE  Reach(s, Append(q, m), Received(z, m))
<1> DEFINE n == Len(q)
           r == Append(q, m)
<1>1. PICK f : Path(s, q, f) /\ f[n] = z
  BY DEF Reach
<1>2. n \in Nat /\ Len(r) = n + 1 /\ r[n + 1] = m /\ \A i \in 1 .. n : r[i] = q[i]
  BY LenProperties, AppendProperties
<1> DEFINE g == [i \in 0 .. n + 1 |-> IF i <= n THEN f[i] ELSE Received(z, m)]
<1>3. g[n + 1] = Received(z, m) /\ \A i \in 0 .. n : g[i] = f[i]
  BY <1>2
<1> HIDE DEF g, r
<1>4. ASSUME NEW i \in 0 .. Len(r) PROVE g[i] \in CipStates
  BY <1>1, <1>2, <1>3 DEF Path, n
<1>5. ASSUME NEW i \in 1 .. Len(r)
      PROVE  g[i] = Received(g[i - 1], r[i]) /\ (IsCip(r[i]) => g[i - 1] # "Idle")
  <2>1. CASE i \in 1 .. n
    <3>1. i \in 0 .. n /\ i - 1 \in 0 .. n
      BY <1>2, <2>1
    <3> QED BY <1>1, <1>2, <1>3, <2>1, <3>1 DEF Path, n
  <2>2. CASE i = n + 1
    <3>1. g[i - 1] = z /\ r[i] = m
      BY <1>1, <1>2, <1>3, <2>2
    <3> QED BY <1>3, <2>2, <3>1
  <2> QED BY <1>2, <2>1, <2>2
<1>6. g[0] = s
  BY <1>1, <1>2, <1>3 DEF Path
<1>7. Path(s, r, g)
  BY <1>4, <1>5, <1>6 DEF Path
<1> QED BY <1>2, <1>3, <1>7 DEF Reach, r

\* the first one is taken,
LEMMA ReachTail ==
  ASSUME NEW S, NEW q \in Seq(S), q # <<>>, NEW s, NEW z, Reach(s, q, z)
  PROVE  /\ Received(s, Head(q)) \in CipStates /\ (IsCip(Head(q)) => s # "Idle")
         /\ Reach(Received(s, Head(q)), Tail(q), z)
<1> DEFINE n == Len(q)
           r == Tail(q)
           m == Head(q)
           x == Received(s, m)
<1>1. PICK f : Path(s, q, f) /\ f[n] = z
  BY DEF Reach
<1>2. /\ n \in Nat /\ n > 0 /\ m = q[1] /\ Len(r) = n - 1
      /\ \A i \in 1 .. n - 1 : r[i] = q[i + 1]
  BY LenProperties, EmptySeq, HeadTailProperties
<1>3. f[0] = s /\ f[1] = x /\ x \in CipStates /\ (IsCip(m) => s # "Idle")
  <2>1. 1 \in 1 .. n /\ 1 \in 0 .. n /\ 1 - 1 = 0
    BY <1>2
  <2> HIDE DEF m
  <2> QED BY <1>1, <1>2, <2>1 DEF Path, n
<1> DEFINE g == [i \in 0 .. n - 1 |-> f[i + 1]]
<1>4. \A i \in 0 .. n - 1 : g[i] = f[i + 1]
  OBVIOUS
<1> HIDE DEF g, r, m, x
<1>5. ASSUME NEW i \in 0 .. Len(r) PROVE g[i] \in CipStates
  <2>1. i + 1 \in 0 .. n /\ i \in 0 .. n - 1
    BY <1>2
  <2> QED BY <1>1, <1>4, <2>1 DEF Path, n
<1>6. ASSUME NEW i \in 1 .. Len(r)
      PROVE  g[i] = Received(g[i - 1], r[i]) /\ (IsCip(r[i]) => g[i - 1] # "Idle")
  <2>1. i + 1 \in 1 .. n /\ (i + 1) - 1 = i /\ i \in 0 .. n - 1 /\ i - 1 \in 0 .. n - 1
        /\ (i - 1) + 1 = i /\ i \in 1 .. n - 1
    BY <1>2
  <2>2. g[i] = f[i + 1] /\ g[i - 1] = f[i] /\ r[i] = q[i + 1]
    BY <1>2, <1>4, <2>1
  <2> QED BY <1>1, <2>1, <2>2 DEF Path, n
<1>7. g[0] = x
  BY <1>2, <1>3, <1>4
<1>8. Path(x, r, g)
  BY <1>5, <1>6, <1>7 DEF Path
<1>9. g[Len(r)] = z
  <2>1. Len(r) \in 0 .. n - 1 /\ Len(r) + 1 = n
    BY <1>2
  <2> QED BY <1>1, <1>4, <2>1
<1> QED BY <1>3, <1>8, <1>9 DEF Reach, r, m, x

\* and one that is not from the other half is removed.
LEMMA ReachRemove ==
  ASSUME NEW S, NEW q \in Seq(S), NEW s, NEW z, Reach(s, q, z),
         NEW k \in 1 .. Len(q), ~IsCip(q[k])
  PROVE  Reach(s, RemoveAt(q, k), z)
<1> DEFINE n == Len(q)
           r == RemoveAt(q, k)
<1>1. PICK f : Path(s, q, f) /\ f[n] = z
  BY DEF Reach
<1>2. n \in Nat /\ k \in 1 .. n
  BY LenProperties
<1>3. Len(r) = n - 1 /\ \A i \in 1 .. n - 1 : r[i] = IF i < k THEN q[i] ELSE q[i + 1]
  <2>1. q[k] \notin {}
    OBVIOUS
  <2>2. ASSUME NEW e, q[k] \notin e
        PROVE  Len(r) = n - 1 /\ \A i \in 1 .. Len(r) : r[i] = IF i < k THEN q[i] ELSE q[i + 1]
    BY <2>2, RemoveAtHas
  <2> HIDE DEF r
  <2> QED BY <2>1, <2>2
<1>4. f[k] = f[k - 1]
  BY <1>1, <1>2 DEF Path, Received, n
<1> DEFINE g == [i \in 0 .. n - 1 |-> IF i < k THEN f[i] ELSE f[i + 1]]
<1>5. \A i \in 0 .. n - 1 : g[i] = IF i < k THEN f[i] ELSE f[i + 1]
  OBVIOUS
<1> HIDE DEF g, r
<1>6. ASSUME NEW i \in 0 .. Len(r) PROVE g[i] \in CipStates
  <2>1. i \in 0 .. n /\ i + 1 \in 0 .. n /\ i \in 0 .. n - 1
    BY <1>2, <1>3
  <2> QED BY <1>1, <1>5, <2>1 DEF Path, n
<1>7. ASSUME NEW i \in 1 .. Len(r)
      PROVE  g[i] = Received(g[i - 1], r[i]) /\ (IsCip(r[i]) => g[i - 1] # "Idle")
  <2>1. i \in 0 .. n - 1 /\ i - 1 \in 0 .. n - 1 /\ i \in 1 .. n - 1
    BY <1>2, <1>3
  <2>2. CASE i < k
    <3>1. g[i] = f[i] /\ g[i - 1] = f[i - 1] /\ r[i] = q[i] /\ i \in 1 .. n
      BY <1>2, <1>3, <1>5, <2>1, <2>2
    <3> QED BY <1>1, <3>1 DEF Path, n
  <2>3. CASE ~(i < k)
    <3>1. /\ g[i] = f[i + 1] /\ r[i] = q[i + 1] /\ i + 1 \in 1 .. n /\ (i + 1) - 1 = i
      BY <1>2, <1>3, <1>5, <2>1, <2>3
    <3>2. g[i - 1] = f[i]
      <4>1. CASE i = k
        BY <1>2, <1>4, <1>5, <2>1, <4>1
      <4>2. CASE i > k
        BY <1>2, <1>5, <2>1, <4>2
      <4> QED BY <1>2, <2>1, <2>3, <4>1, <4>2
    <3> QED BY <1>1, <3>1, <3>2 DEF Path, n
  <2> QED BY <2>2, <2>3
<1>8. g[0] = s
  BY <1>1, <1>2, <1>5 DEF Path
<1>9. g[n - 1] = z
  <2>1. CASE k = n
    BY <1>1, <1>2, <1>4, <1>5, <2>1
  <2>2. CASE k < n
    BY <1>1, <1>2, <1>5, <2>2
  <2> QED BY <1>2, <2>1, <2>2
<1>10. Path(s, r, g)
  BY <1>6, <1>7, <1>8 DEF Path
<1> QED BY <1>3, <1>9, <1>10 DEF Reach, r

\* Nothing follows a release.
LEMMA ReachIdle ==
  ASSUME NEW S, NEW q \in Seq(S), NEW z, Reach("Idle", q, z)
  PROVE  z = "Idle" /\ Quiet(q)
<1>1. PICK f : Path("Idle", q, f) /\ f[Len(q)] = z
  BY DEF Reach
<1>2. \A i \in 0 .. Len(q) : f[i] \in {"Idle"}
  <2>1. \A i \in 1 .. Len(q) : f[i - 1] \in {"Idle"} => f[i] \in {"Idle"}
    BY <1>1 DEF Path, Received
  <2> QED BY <1>1, <2>1, PathStays
<1>3. Len(q) \in Nat
  BY LenProperties
<1>4. ASSUME NEW i \in 1 .. Len(q) PROVE ~IsCip(q[i])
  <2>1. i - 1 \in 0 .. Len(q)
    BY <1>3
  <2> QED BY <1>1, <1>2, <2>1 DEF Path
<1> QED BY <1>1, <1>2, <1>3, <1>4 DEF Quiet

-----------------------------------------------------------------------------
(* The states of the CIP protocol.                                         *)

\* The states of the half that received the IAM.
Waiting == {"IamRcvd", "EosSent", "AltSent", "AnmSent", "SusSent"}

\* The state that the other half comes to once it has received what a half in
\* this state has sent.
Mirror(s) ==
  CASE s = "IamRcvd" -> "IamSent"
    [] s = "EosSent" -> "EosRcvd"
    [] s = "AltSent" -> "AltRcvd"
    [] s = "AnmSent" -> "AnmRcvd"
    [] s = "SusSent" -> "SusRcvd"

\* A move is found if there is only one of its kind.
LEMMA MoveIs ==
  ASSUME NEW moves, NEW s, NEW sig, sig # "REL", NEW x, <<s, sig, x>> \in moves,
         \A y \in moves : y[1] = s /\ y[2] = sig => y[3] = x
  PROVE  Move(moves, s, sig) = x
<1> DEFINE to == {y \in moves : y[1] = s /\ y[2] = sig}
<1>1. <<s, sig, x>> \in to
  OBVIOUS
<1>2. Move(moves, s, sig) = (CHOOSE y \in to : TRUE)[3]
  BY <1>1 DEF Move
<1>3. (CHOOSE y \in to : TRUE) \in to
  BY <1>1
<1> QED BY <1>2, <1>3

\* What is sent and what is received leads to a state of its own.
LEMMA EveryMove ==
  /\ \A y \in OgMoves :
       /\ y[2] = "IAM" => y[3] = "IamSent"
       /\ y[2] = "EOS" => y[3] = "EosSent"
       /\ y[2] = "ALT" => y[3] = "AltSent"
       /\ y[2] = "ANM" => y[3] = "AnmSent"
       /\ y[2] = "SUS" => y[3] = "SusSent"
       /\ y[2] = "RES" => y[3] = "AnmSent"
  /\ \A y \in IcMoves :
       /\ y[2] = "IAM" => y[3] = "IamRcvd"
       /\ y[2] = "EOS" => y[3] = "EosRcvd"
       /\ y[2] = "ALT" => y[3] = "AltRcvd"
       /\ y[2] = "ANM" => y[3] = "AnmRcvd"
       /\ y[2] = "SUS" => y[3] = "SusRcvd"
       /\ y[2] = "RES" => y[3] = "AnmRcvd"
<1>1. ASSUME NEW y \in OgMoves
      PROVE  \/ (y[2] = "IAM" /\ y[3] = "IamSent") \/ (y[2] = "EOS" /\ y[3] = "EosSent")
             \/ (y[2] = "ALT" /\ y[3] = "AltSent") \/ (y[2] = "ANM" /\ y[3] = "AnmSent")
             \/ (y[2] = "SUS" /\ y[3] = "SusSent") \/ (y[2] = "RES" /\ y[3] = "AnmSent")
  <2>1. \/ y \in Moves({"Idle"}, "IAM", "IamSent")
        \/ y \in Moves({"IamRcvd"}, "EOS", "EosSent")
        \/ y \in Moves({"IamRcvd", "EosSent"}, "ALT", "AltSent")
        \/ y \in Moves({"IamRcvd", "EosSent", "AltSent"}, "ANM", "AnmSent")
        \/ y \in Moves({"AnmSent"}, "SUS", "SusSent")
        \/ y \in Moves({"SusSent"}, "RES", "AnmSent")
    BY DEF OgMoves
  <2> QED BY <2>1 DEF Moves
<1>2. ASSUME NEW y \in IcMoves
      PROVE  \/ (y[2] = "IAM" /\ y[3] = "IamRcvd") \/ (y[2] = "EOS" /\ y[3] = "EosRcvd")
             \/ (y[2] = "ALT" /\ y[3] = "AltRcvd") \/ (y[2] = "ANM" /\ y[3] = "AnmRcvd")
             \/ (y[2] = "SUS" /\ y[3] = "SusRcvd") \/ (y[2] = "RES" /\ y[3] = "AnmRcvd")
  <2>1. \/ y \in Moves({"Idle"}, "IAM", "IamRcvd")
        \/ y \in Moves({"IamSent"}, "EOS", "EosRcvd")
        \/ y \in Moves({"IamSent", "EosRcvd"}, "ALT", "AltRcvd")
        \/ y \in Moves({"IamSent", "EosRcvd", "AltRcvd"}, "ANM", "AnmRcvd")
        \/ y \in Moves({"AnmRcvd"}, "SUS", "SusRcvd")
        \/ y \in Moves({"SusRcvd"}, "RES", "AnmRcvd")
    BY DEF IcMoves
  <2> QED BY <2>1 DEF Moves
<1> QED BY <1>1, <1>2

\* The messages that a half call sends, and what they do to the other half.
LEMMA OgNextIs ==
  /\ OgNext("Idle", "IAM") = "IamSent" /\ OgNext("IamRcvd", "EOS") = "EosSent"
  /\ OgNext("EosSent", "ALT") = "AltSent"
  /\ OgNext("EosSent", "ANM") = "AnmSent" /\ OgNext("AltSent", "ANM") = "AnmSent"
  /\ OgNext("AnmSent", "SUS") = "SusSent" /\ OgNext("SusSent", "RES") = "AnmSent"
<1>1. /\ <<"Idle", "IAM", "IamSent">> \in OgMoves /\ <<"IamRcvd", "EOS", "EosSent">> \in OgMoves
      /\ <<"EosSent", "ALT", "AltSent">> \in OgMoves
      /\ <<"EosSent", "ANM", "AnmSent">> \in OgMoves /\ <<"AltSent", "ANM", "AnmSent">> \in OgMoves
      /\ <<"AnmSent", "SUS", "SusSent">> \in OgMoves /\ <<"SusSent", "RES", "AnmSent">> \in OgMoves
  BY DEF OgMoves, Moves
<1>2. /\ Move(OgMoves, "Idle", "IAM") = "IamSent" /\ Move(OgMoves, "IamRcvd", "EOS") = "EosSent"
      /\ Move(OgMoves, "EosSent", "ALT") = "AltSent"
      /\ Move(OgMoves, "EosSent", "ANM") = "AnmSent" /\ Move(OgMoves, "AltSent", "ANM") = "AnmSent"
      /\ Move(OgMoves, "AnmSent", "SUS") = "SusSent" /\ Move(OgMoves, "SusSent", "RES") = "AnmSent"
  BY <1>1, EveryMove, MoveIs
<1> QED BY <1>2 DEF OgNext

\* The states that the signals lead the receiving half to.
LEMMA IcNextIs ==
  /\ IcNext("Idle", "IAM") = "IamRcvd" /\ IcNext("IamSent", "EOS") = "EosRcvd"
  /\ IcNext("EosRcvd", "ALT") = "AltRcvd"
  /\ IcNext("EosRcvd", "ANM") = "AnmRcvd" /\ IcNext("AltRcvd", "ANM") = "AnmRcvd"
  /\ IcNext("AnmRcvd", "SUS") = "SusRcvd" /\ IcNext("SusRcvd", "RES") = "AnmRcvd"
<1>1. /\ <<"Idle", "IAM", "IamRcvd">> \in IcMoves /\ <<"IamSent", "EOS", "EosRcvd">> \in IcMoves
      /\ <<"EosRcvd", "ALT", "AltRcvd">> \in IcMoves
      /\ <<"EosRcvd", "ANM", "AnmRcvd">> \in IcMoves /\ <<"AltRcvd", "ANM", "AnmRcvd">> \in IcMoves
      /\ <<"AnmRcvd", "SUS", "SusRcvd">> \in IcMoves /\ <<"SusRcvd", "RES", "AnmRcvd">> \in IcMoves
  BY DEF IcMoves, Moves
<1>2. /\ Move(IcMoves, "Idle", "IAM") = "IamRcvd" /\ Move(IcMoves, "IamSent", "EOS") = "EosRcvd"
      /\ Move(IcMoves, "EosRcvd", "ALT") = "AltRcvd"
      /\ Move(IcMoves, "EosRcvd", "ANM") = "AnmRcvd" /\ Move(IcMoves, "AltRcvd", "ANM") = "AnmRcvd"
      /\ Move(IcMoves, "AnmRcvd", "SUS") = "SusRcvd" /\ Move(IcMoves, "SusRcvd", "RES") = "AnmRcvd"
  BY <1>1, EveryMove, MoveIs
<1> QED BY <1>2 DEF IcNext

\* A release is the last message.
LEMMA RelIs ==
  ASSUME NEW s, s # "Idle"
  PROVE  IcNext(s, "REL") = "Idle" /\ OgNext(s, "REL") = "Idle"
  BY DEF IcNext, OgNext, Move

\* A message that is sent is one that can be received,
LEMMA SendIsReceived ==
  ASSUME NEW s \in Waiting, NEW sig \in {"EOS", "ALT", "ANM", "SUS", "RES"},
         OgNext(s, sig) # Nil, OgNext(s, sig) \in {"EosSent", "AltSent", "AnmSent", "SusSent"},
         \/ s = "IamRcvd" /\ sig = "EOS"
         \/ s = "EosSent" /\ sig \in {"ALT", "ANM"}
         \/ s = "AltSent" /\ sig = "ANM"
         \/ s = "AnmSent" /\ sig = "SUS"
         \/ s = "SusSent" /\ sig = "RES"
  PROVE  IcNext(Mirror(s), sig) = Mirror(OgNext(s, sig))
  BY OgNextIs, IcNextIs DEF Mirror

\* The half that sent the IAM receives these messages,
LEMMA IcNextCases ==
  ASSUME NEW s, NEW sig, IcNext(s, sig) # Nil
  PROVE  \/ sig = "IAM" /\ s = "Idle" /\ IcNext(s, sig) = "IamRcvd"
         \/ sig = "EOS" /\ s = "IamSent" /\ IcNext(s, sig) = "EosRcvd"
         \/ sig = "ALT" /\ s \in {"IamSent", "EosRcvd"} /\ IcNext(s, sig) = "AltRcvd"
         \/ sig = "ANM" /\ s \in {"IamSent", "EosRcvd", "AltRcvd"} /\ IcNext(s, sig) = "AnmRcvd"
         \/ sig = "SUS" /\ s = "AnmRcvd" /\ IcNext(s, sig) = "SusRcvd"
         \/ sig = "RES" /\ s = "SusRcvd" /\ IcNext(s, sig) = "AnmRcvd"
         \/ sig = "REL" /\ s # "Idle" /\ IcNext(s, sig) = "Idle"
<1>1. CASE sig = "REL"
  BY <1>1 DEF IcNext, Move
<1>2. CASE sig # "REL"
  <2> DEFINE to == {x \in IcMoves : x[1] = s /\ x[2] = sig}
             x == CHOOSE x \in to : TRUE
  <2>1. to # {} /\ IcNext(s, sig) = x[3]
    BY <1>2 DEF IcNext, Move
  <2>2. x \in to
    BY <2>1
  <2> HIDE DEF x
  <2>3. x \in IcMoves /\ x[1] = s /\ x[2] = sig
    BY <2>2
  <2> QED BY <1>2, <2>1, <2>3 DEF IcMoves, Moves
<1> QED BY <1>1, <1>2

\* and the other half only a release.
LEMMA WaitingReceives ==
  ASSUME NEW s \in Waiting, NEW m, IsCip(m), Received(s, m) \in CipStates
  PROVE  /\ m.sig = "REL" /\ Received(s, m) = "Idle"
         /\ \A x \in Waiting : Received(x, m) = "Idle"
<1>1. \A x \in Waiting : x # Nil /\ x # "Idle" /\ Received(x, m) = IcNext(x, m.sig)
  BY CipAssumption DEF Waiting, CipStates, Received
<1>2. IcNext(s, m.sig) # Nil
  BY <1>1, CipAssumption
<1>3. m.sig = "REL"
  BY <1>2, IcNextCases DEF Waiting
<1> QED BY <1>1, <1>3, RelIs

\* So it does not matter to it what it sends in the meantime.
LEMMA ReachWaiting ==
  ASSUME NEW S, NEW q \in Seq(S), NEW s \in Waiting, NEW x \in Waiting, NEW z, Reach(s, q, z)
  PROVE  z \in {s, "Idle"} /\ Reach(x, q, IF z = s THEN x ELSE "Idle")
<1> DEFINE n == Len(q)
<1>1. PICK f : Path(s, q, f) /\ f[n] = z
  BY DEF Reach
<1>2. n \in Nat /\ s # "Idle" /\ x # "Idle" /\ x \in CipStates /\ "Idle" \in CipStates
  BY LenProperties DEF Waiting, CipStates
<1>3. \A i \in 1 .. n : i \in 0 .. n /\ i - 1 \in 0 .. n
  BY <1>2
<1>4. ASSUME NEW i \in 1 .. n
      PROVE  /\ f[i] \in CipStates /\ f[i] = Received(f[i - 1], q[i])
             /\ IsCip(q[i]) => f[i - 1] # "Idle"
             /\ ~IsCip(q[i]) => f[i] = f[i - 1]
  BY <1>1, <1>3 DEF Path, Received, n
<1>5. \A i \in 0 .. n : f[i] \in {s, "Idle"}
  <2>1. ASSUME NEW i \in 1 .. Len(q), f[i - 1] \in {s, "Idle"} PROVE f[i] \in {s, "Idle"}
    BY <1>4, <2>1, WaitingReceives
  <2> QED BY <1>1, <2>1, PathStays DEF n
<1> DEFINE g == [i \in 0 .. n |-> IF f[i] = s THEN x ELSE "Idle"]
<1>6. \A i \in 0 .. n : g[i] = IF f[i] = s THEN x ELSE "Idle"
  OBVIOUS
<1> HIDE DEF g
<1>7. ASSUME NEW i \in 1 .. n
      PROVE  g[i] = Received(g[i - 1], q[i]) /\ (IsCip(q[i]) => g[i - 1] # "Idle")
  <2>1. CASE ~IsCip(q[i])
    BY <1>3, <1>4, <1>6, <2>1 DEF Received
  <2>2. CASE IsCip(q[i])
    <3>1. f[i - 1] = s /\ Received(s, q[i]) \in CipStates
      BY <1>3, <1>4, <1>5, <2>2
    <3>2. f[i] = "Idle" /\ Received(x, q[i]) = "Idle"
      BY <1>4, <2>2, <3>1, WaitingReceives
    <3> QED BY <1>2, <1>3, <1>6, <3>1, <3>2
  <2> QED BY <2>1, <2>2
<1>8. g[0] = x /\ \A i \in 0 .. n : g[i] \in CipStates
  BY <1>1, <1>2, <1>6 DEF Path
<1>9. Path(x, q, g)
  BY <1>7, <1>8 DEF Path, n
<1>10. z \in {s, "Idle"} /\ g[n] = IF z = s THEN x ELSE "Idle"
  BY <1>1, <1>2, <1>5, <1>6
<1> QED BY <1>9, <1>10 DEF Reach, n

-----------------------------------------------------------------------------
(* The halves of a call.                                                   *)

\* The state of a half call goes with that of its CIP protocol, and with the
\* timer that runs.
Stages ==
  {<<"Obc", "Idle", "Ci">>, <<"Obc", "Idle", "Ex">>, <<"Obc", "IamSent", "Sc">>,
   <<"Obc", "EosRcvd", "Sc">>, <<"Obc", "AltRcvd", "Oa">>, <<"Obc", "AnmRcvd", "Ac">>,
   <<"Obc", "SusRcvd", "Rs">>,
   <<"Tbc", "Idle", "Ex">>, <<"Tbc", "EosSent", "Pc">>, <<"Tbc", "AltSent", "Ta">>,
   <<"Tbc", "AnmSent", "Ac">>, <<"Tbc", "SusSent", "Ls">>}

\* A half call whose timers on the network side go with its state.
StageOf(model, npsm, st, timer) ==
  /\ <<model, npsm, st>> \in Stages
  /\ timer # "Iam" /\ (timer = "Alerting" <=> st = "Pc") /\ (timer = "Answer" <=> st = "Ta")

\* Nothing is left of a timer on the network side once the state is left in
\* which it runs.
Absent(q, tid) == \A i \in 1 .. Len(q) : q[i] # Timeout(tid)

\* No timeout in the queue is late.
OnTime(q, npsm, st) ==
  /\ npsm = "IamSent" \/ Absent(q, "Iam")
  /\ st = "Pc" \/ Absent(q, "Alerting")
  /\ st = "Ta" \/ Absent(q, "Answer")

\* Each half call is in one of these, and none has a timeout that is late.
StageInv ==
  \A c \in Contexts :
    LET h == ctx[c]
    IN /\ OnTime(h.q, h.npsm, h.st)
       /\ h.st \notin {"Free", "Ready"} => StageOf(h.model, h.npsm, h.st, h.timer)

\* A half call that was offered a call acts as if it had received the IAM.
Offered(h) == h.st = "Ready" /\ h.model = "Tbc"
At(h)      == IF Offered(h) THEN "IamRcvd" ELSE h.npsm
Rest(h)    == IF Offered(h) THEN Tail(h.q) ELSE h.q

\* The halves refer to each other until one of them is gone or released.
Joined(c) == ctx[c].peer # Nil /\ ctx[ctx[c].peer].peer = c

\* The state that the messages in its queue lead a half call to: the one that
\* goes with the other half's, its own if it only waits for a release, or Idle
\* because the release is in its queue.
Due(c) ==
  IF Joined(c)
    THEN IF ctx[c].model = "Obc" THEN Mirror(At(ctx[ctx[c].peer])) ELSE At(ctx[c])
    ELSE "Idle"

\* A half call has a peer while it has a port to it, and its messages lead it to
\* where it is due.
Ported(c) ==
  /\ ctx[c].peer \in Contexts \cup {Nil}
  /\ ctx[c].peer = Nil <=> At(ctx[c]) = "Idle"
  /\ Reach(At(ctx[c]), Rest(ctx[c]), Due(c))
  /\ Joined(c) => ctx[ctx[c].peer].model # ctx[c].model

PortInv == \A c \in Contexts : Ported(c)

HalfInv == CallInv /\ StageInv /\ PortInv

\* What a half call is like.
LEMMA HalfFacts ==
  ASSUME HalfInv, NEW c \in Contexts
  PROVE  /\ NetPort(ctx[c]) <=> At(ctx[c]) # "Idle"
         /\ ctx[c].st = "Free" => At(ctx[c]) = "Idle" /\ ~Offered(ctx[c]) /\ ctx[c].peer = Nil
         /\ ctx[c].st # "Free" => ctx[c].model \in {"Obc", "Tbc"}
         /\ ctx[c].st = "Ready" => ReadyOf(ctx[c])
         /\ ctx[c].model = "Tbc" /\ At(ctx[c]) # "Idle" => At(ctx[c]) \in Waiting
         /\ ctx[c].q \in Seq(Msgs) /\ Single(ctx[c].q) /\ HalfForm(ctx[c])
         /\ Offered(ctx[c]) => ctx[c].q # <<>>
         /\ Rest(ctx[c]) \in Seq(Msgs)
<1> DEFINE h == ctx[c]
<1>1. /\ h.st = "Free" => h = NoCall
      /\ h.st # "Free" => ReadyOf(h) \/ ShapeOf(h, h.npsm)
      /\ h.q \in Seq(Msgs) /\ Single(h.q) /\ HalfForm(h)
  BY DEF HalfInv, CallInv, IInv, FormInv, ContextInv, ShapeInv, Live, MsgsInv, TimeoutInv
<1>2. NoCall.st = "Free" /\ NoCall.npsm = "Idle" /\ NoCall.peer = Nil
  BY DEF NoCall
<1>3. h.st \notin {"Free", "Ready"} => <<h.model, h.npsm, h.st>> \in Stages
  BY DEF HalfInv, StageInv, StageOf
<1>4. NetPort(h) <=> At(h) # "Idle"
  BY DEF NetPort, At, Offered
<1> HIDE DEF h
<1>5. /\ h.st = "Free" => At(h) = "Idle" /\ ~Offered(h) /\ h.peer = Nil
  BY <1>1, <1>2 DEF At, Offered
<1>6. ASSUME h.st = "Ready" PROVE ReadyOf(h) /\ h.model \in {"Obc", "Tbc"} /\ h.npsm = "Idle"
  <2>1. ReadyOf(h)
    BY <1>1, <1>6 DEF ShapeOf, Timed, Attended
  <2> QED BY <2>1 DEF ReadyOf, NewObc, NewTbc
<1>7. ASSUME h.st \notin {"Free", "Ready"}
      PROVE  h.model \in {"Obc", "Tbc"}
             /\ (h.model = "Tbc" => h.npsm \in {"Idle"} \cup Waiting)
  BY <1>3, <1>7 DEF Stages, Waiting
<1>8. h.model = "Tbc" /\ At(h) # "Idle" => At(h) \in Waiting
  BY <1>5, <1>6, <1>7 DEF At, Offered, Waiting
<1>9. Offered(h) => h.q # <<>>
  BY <1>6 DEF Offered, ReadyOf
<1>10. Rest(h) \in Seq(Msgs)
  BY <1>1, <1>9, HeadTailProperties DEF Rest
<1> QED BY <1>1, <1>4, <1>5, <1>6, <1>7, <1>8, <1>9, <1>10 DEF h

\* The halves of a call are of different kinds, and neither was released.
LEMMA JoinedFacts ==
  ASSUME HalfInv, NEW c \in Contexts
  PROVE  /\ Joined(c) => LET p == ctx[c].peer
                         IN /\ p \in Contexts /\ p # c /\ Joined(p) /\ ctx[p].peer = c
                            /\ At(ctx[c]) # "Idle" /\ At(ctx[p]) # "Idle"
                            /\ \/ ctx[c].model = "Obc" /\ ctx[p].model = "Tbc"
                                  /\ At(ctx[p]) \in Waiting
                               \/ ctx[c].model = "Tbc" /\ ctx[p].model = "Obc"
                                  /\ At(ctx[c]) \in Waiting
         /\ Joined(c) <=> Due(c) # "Idle"
         /\ ctx[c].peer # Nil => ctx[c].peer \in Contexts
<1> DEFINE p == ctx[c].peer
<1>1. ASSUME Joined(c)
      PROVE  /\ p \in Contexts /\ p # c /\ Joined(p) /\ ctx[p].peer = c
             /\ At(ctx[c]) # "Idle" /\ At(ctx[p]) # "Idle"
             /\ ctx[p].model # ctx[c].model
             /\ ctx[p].model \in {"Obc", "Tbc"} /\ ctx[c].model \in {"Obc", "Tbc"}
  <2>1. Nil \notin Contexts /\ c # Nil /\ p # Nil /\ ctx[p].peer = c
    BY <1>1, CallAssumption DEF Joined
  <2>2. p \in Contexts /\ ctx[p].model # ctx[c].model
    BY <1>1, <2>1 DEF HalfInv, PortInv, Ported
  <2>3. At(ctx[c]) # "Idle" /\ At(ctx[p]) # "Idle"
    BY <2>1, <2>2 DEF HalfInv, PortInv, Ported
  <2>4. ctx[c].st # "Free" /\ ctx[p].st # "Free"
    BY <2>2, <2>3, HalfFacts
  <2>5. p # c
    BY <2>2
  <2>6. Joined(p)
    BY <2>1 DEF Joined
  <2> QED BY <2>1, <2>2, <2>3, <2>4, <2>5, <2>6, HalfFacts
<1>2. ASSUME Joined(c)
      PROVE  \/ ctx[c].model = "Obc" /\ ctx[p].model = "Tbc" /\ At(ctx[p]) \in Waiting
             \/ ctx[c].model = "Tbc" /\ ctx[p].model = "Obc" /\ At(ctx[c]) \in Waiting
  BY <1>1, <1>2, HalfFacts
<1>3. ASSUME Joined(c) PROVE Due(c) # "Idle"
  <2>1. \A s \in Waiting : Mirror(s) # "Idle"
    BY DEF Waiting, Mirror
  <2> QED BY <1>1, <1>2, <1>3, <2>1 DEF Due
<1>4. ~Joined(c) => Due(c) = "Idle"
  BY DEF Due
<1>5. p # Nil => p \in Contexts
  BY DEF HalfInv, PortInv, Ported
<1> QED BY <1>1, <1>2, <1>3, <1>4, <1>5

-----------------------------------------------------------------------------
\* A message from the other half is one that can be sent to it.
LEMMA CipMsgFacts ==
  ASSUME NEW m \in Msgs
  PROVE  /\ IsCip(m) <=> m.port = "N" /\ m \notin Timeouts
         /\ m \in CipMsgs => IsCip(m) /\ m # Nil /\ m.sig \in CipSignals
         /\ m.port = "U" => ~IsCip(m)
<1>1. IsCip(m) <=> m.port = "N" /\ m \notin Timeouts
  BY MsgFacts DEF IsCip
<1>2. ASSUME m \in CipMsgs PROVE IsCip(m) /\ m # Nil /\ m.sig \in CipSignals
  <2>1. IsCip(m)
    BY <1>1, <1>2, CipFacts
  <2>2. PICK sig \in CipSignals, arg \in Users \cup {ToneCause, IdleCause, Nil} : m = Cip(sig, arg)
    BY <1>2 DEF CipMsgs, CipSignals
  <2>3. m.sig = sig
    BY <2>2 DEF Cip, Msg
  <2> QED BY <2>1, <2>2, <2>3, CipAssumption
<1> QED BY <1>1, <1>2

\* Timeouts are not from the other half, and those of different timers differ.
LEMMA TimeoutFacts ==
  ASSUME NEW tid
  PROVE  /\ ~IsCip(Timeout(tid)) /\ Timeout(tid).sig = "Timeout"
         /\ \A x : Timeout(x) = Timeout(tid) => x = tid
  BY DEF Timeout, Msg, IsCip

\* What removing a timeout does to a queue.
LEMMA RemoveTimeout ==
  ASSUME NEW q \in Seq(Msgs), Single(q), NEW tid
  PROVE  LET r == RemoveFirst(q, Timeout(tid))
         IN /\ r \in Seq(Msgs) /\ Single(r)
            /\ \A s, z : Reach(s, q, z) => Reach(s, r, z)
            /\ tid \in TimerIds => Absent(r, tid)
            /\ \A x : Absent(q, x) => Absent(r, x)
<1> DEFINE m == Timeout(tid)
           r == RemoveFirst(q, m)
<1>0. Trimmed(q, q)
  BY DEF Trimmed
<1>1. r \in Seq(Msgs) /\ Single(r)
  <2>1. Trimmed(q, r)
    BY <1>0, RemoveTimeoutTrims
  <2> QED BY <2>1 DEF Trimmed
<1>2. ~IsCip(m) /\ m.sig = "Timeout" /\ (tid \in TimerIds => m \in Timeouts)
  BY TimeoutFacts DEF Timeouts
<1>3. Len(q) \in Nat /\ \A i \in 1 .. Len(q) : q[i] \in Msgs
  BY LenProperties
<1> HIDE DEF m
<1>4. \A i, j \in 1 .. Len(q) : q[i] = m /\ q[j] = m => i = j
  <2>1. \A i \in 1 .. Len(q) : q[i] = m => q[i] \in Timeouts
    BY <1>2, <1>3, MsgFacts
  <2> QED BY <2>1 DEF Single
<1>5. \/ r = q /\ \A i \in 1 .. Len(q) : q[i] # m
      \/ \E k \in 1 .. Len(q) : q[k] = m /\ r = RemoveAt(q, k)
  <2>1. CASE \E i \in 1 .. Len(q) : q[i] = m
    <3>1. PICK k \in 1 .. Len(q) : q[k] = m
      BY <2>1
    <3>2. {i \in 1 .. Len(q) : q[i] = m} = {k}
      BY <1>4, <3>1
    <3>3. Min({k}) = k
      BY <1>3 DEF Min
    <3>4. r = RemoveAt(q, k)
      BY <3>1, <3>2, <3>3 DEF RemoveFirst, SelectInSeq
    <3> QED BY <3>1, <3>4
  <2>2. CASE ~\E i \in 1 .. Len(q) : q[i] = m
    BY <2>2 DEF RemoveFirst
  <2> QED BY <2>1, <2>2
<1> HIDE DEF r
<1>6. CASE r = q /\ \A i \in 1 .. Len(q) : q[i] # m
  BY <1>1, <1>6 DEF Absent, r, m
<1>7. ASSUME NEW k \in 1 .. Len(q), q[k] = m, r = RemoveAt(q, k)
      PROVE  /\ \A s, z : Reach(s, q, z) => Reach(s, r, z)
             /\ Absent(r, tid)
             /\ \A x : Absent(q, x) => Absent(r, x)
  <2>1. \A s, z : Reach(s, q, z) => Reach(s, r, z)
    BY <1>2, <1>7, ReachRemove
  <2>2. Len(r) = Len(q) - 1 /\ \A i \in 1 .. Len(r) : r[i] = IF i < k THEN q[i] ELSE q[i + 1]
    <3>1. q[k] \notin {}
      OBVIOUS
    <3>2. ASSUME NEW e, q[k] \notin e
          PROVE  Len(r) = Len(q) - 1 /\ \A i \in 1 .. Len(r) : r[i] = IF i < k THEN q[i] ELSE q[i + 1]
      BY <1>7, <3>2, RemoveAtHas
    <3> QED BY <3>1, <3>2
  <2>3. ASSUME NEW i \in 1 .. Len(r) PROVE \E j \in 1 .. Len(q) : j # k /\ r[i] = q[j]
    <3>1. CASE i < k
      BY <1>3, <2>2, <3>1
    <3>2. CASE ~(i < k)
      <4>1. i + 1 \in 1 .. Len(q) /\ i + 1 # k /\ r[i] = q[i + 1]
        BY <1>3, <2>2, <3>2
      <4> QED BY <4>1
    <3> QED BY <3>1, <3>2
  <2>4. \A i \in 1 .. Len(r) : r[i] # m
    BY <1>4, <1>7, <2>3
  <2> QED BY <2>1, <2>3, <2>4 DEF Absent, m
<1> QED BY <1>1, <1>5, <1>6, <1>7 DEF r, m

\* The rest of a queue from which a message was taken.
LEMMA TailAbsent ==
  ASSUME NEW q \in Seq(Msgs), q # <<>>
  PROVE  /\ Tail(q) \in Seq(Msgs) /\ Head(q) \in Msgs
         /\ \A x : Absent(q, x) => Absent(Tail(q), x) /\ Head(q) # Timeout(x)
<1> DEFINE n == Len(q)
           r == Tail(q)
           m == Head(q)
<1>1. /\ n \in Nat /\ n > 0 /\ m = q[1] /\ Len(r) = n - 1 /\ r \in Seq(Msgs) /\ m \in Msgs
      /\ \A i \in 1 .. n - 1 : r[i] = q[i + 1]
  BY LenProperties, EmptySeq, HeadTailProperties
<1> HIDE DEF r, m, n
<1>2. \A i \in 1 .. Len(r) : i + 1 \in 1 .. n /\ r[i] = q[i + 1]
  BY <1>1
<1>3. 1 \in 1 .. n
  BY <1>1
<1> QED BY <1>1, <1>2, <1>3 DEF Absent, r, m, n

-----------------------------------------------------------------------------
(* What handlers do to the half call's side of the CIP protocol.           *)

\* The fields of a transaction that this is about.
Net(c, t, cip, st, npsm, timer, q) ==
  /\ TransForm(t) /\ t.h.model = ctx[c].model /\ t.h.peer = ctx[c].peer
  /\ t.cip = cip /\ t.h.st = st /\ t.h.npsm = npsm /\ t.h.timer = timer /\ t.h.q = q

\* What a transaction with these fields has received, when it is about to end.
Taken(c, npsm, q) ==
  /\ q \in Seq(Msgs) /\ Reach(npsm, q, Due(c)) /\ (At(ctx[c]) = "Idle" => npsm = "Idle")
  /\ ctx[c].model = "Tbc" => npsm \in {At(ctx[c]), "Idle"}

\* What the half that received the IAM sends, and the state that this leads to.
Answers ==
  {<<"IamRcvd", "EOS", "EosSent">>, <<"EosSent", "ALT", "AltSent">>,
   <<"EosSent", "ANM", "AnmSent">>, <<"AltSent", "ANM", "AnmSent">>,
   <<"AnmSent", "SUS", "SusSent">>, <<"SusSent", "RES", "AnmSent">>}

\* A transaction ends the half call, sends nothing, sends an IAM or answers one.
Outcome(cip, st, model, npsm, timer, q) ==
  \/ st = "Null" /\ (cip = Nil \/ \E cause \in {ToneCause, IdleCause} : cip = Cip("REL", cause))
  \/ st # "Null" /\ cip = Nil /\ StageOf(model, npsm, st, timer) /\ OnTime(q, npsm, st)
  \/ /\ st # "Null" /\ model = "Obc" /\ npsm = "Idle" /\ \E u \in Users : cip = Cip("IAM", u)
     /\ StageOf(model, "IamSent", st, timer) /\ OnTime(q, "IamSent", st)
  \/ /\ st # "Null" /\ model = "Tbc"
     /\ \E a \in Answers : /\ a[1] = npsm /\ cip = Cip(a[2], Nil)
                           /\ StageOf(model, a[3], st, timer) /\ OnTime(q, a[3], st)

\* A transaction that ran and is about to end.
Ran(c, t) ==
  /\ Net(c, t, t.cip, t.h.st, t.h.npsm, t.h.timer, t.h.q) /\ Taken(c, t.h.npsm, t.h.q)
  /\ Outcome(t.cip, t.h.st, ctx[c].model, t.h.npsm, t.h.timer, t.h.q)

\* What a transaction has received before a handler decides on its outcome.
Serving(c, t, npsm, timer, q) ==
  /\ Net(c, t, Nil, ctx[c].st, npsm, timer, q)
  /\ Taken(c, npsm, q) /\ Single(q) /\ OnTime(q, npsm, ctx[c].st)

\* What the steps of a handler do to these fields.
LEMMA NetSteps ==
  ASSUME NEW c, NEW t, NEW cip, NEW st, NEW npsm, NEW timer, NEW q,
         Net(c, t, cip, st, npsm, timer, q)
  PROVE  /\ \A x : Net(c, Go(t, x), cip, x, npsm, timer, q)
         /\ \A m : Net(c, ToUser(t, m), cip, st, npsm, timer, q)
         /\ \A m : Net(c, ToPeer(t, m), m, st, npsm, timer, q)
         /\ \A x : Net(c, SetLineState(t, x), cip, st, npsm, timer, q)
         /\ \A tid : Net(c, StartTimer(t, tid), cip, st, npsm, tid, q)
         /\ Net(c, ClearTimer(t), cip, st, npsm, Nil, q)
         /\ \A u : Net(c, [t EXCEPT !.h.user = u], cip, st, npsm, timer, q)
         /\ \A i : Net(c, [t EXCEPT !.h.tone = i], cip, st, npsm, timer, q)
         /\ \A s : Net(c, [t EXCEPT !.h.npsm = s], cip, st, s, timer, q)
         /\ \A r : Net(c, [t EXCEPT !.h.q = r], cip, st, npsm, timer, r)
<1>1. \A x : Net(c, Go(t, x), cip, x, npsm, timer, q)
  BY DEF Net, TransForm, HalfForm, Go
<1>2. \A m : Net(c, ToUser(t, m), cip, st, npsm, timer, q)
  BY DEF Net, TransForm, HalfForm, ToUser
<1>3. \A m : Net(c, ToPeer(t, m), m, st, npsm, timer, q)
  BY DEF Net, TransForm, HalfForm, ToPeer
<1>4. \A x : Net(c, SetLineState(t, x), cip, st, npsm, timer, q)
  BY DEF Net, TransForm, HalfForm, SetLineState
<1>5. \A tid : Net(c, StartTimer(t, tid), cip, st, npsm, tid, q)
  BY DEF Net, TransForm, HalfForm, StartTimer
<1>6. Net(c, ClearTimer(t), cip, st, npsm, Nil, q)
  BY DEF Net, TransForm, HalfForm, ClearTimer
<1>7. \A u : Net(c, [t EXCEPT !.h.user = u], cip, st, npsm, timer, q)
  BY DEF Net, TransForm, HalfForm
<1>8. \A i : Net(c, [t EXCEPT !.h.tone = i], cip, st, npsm, timer, q)
  BY DEF Net, TransForm, HalfForm
<1>9. \A s : Net(c, [t EXCEPT !.h.npsm = s], cip, st, s, timer, q)
  BY DEF Net, TransForm, HalfForm
<1>10. \A r : Net(c, [t EXCEPT !.h.q = r], cip, st, npsm, timer, r)
  BY DEF Net, TransForm, HalfForm
<1> QED BY <1>1, <1>2, <1>3, <1>4, <1>5, <1>6, <1>7, <1>8, <1>9, <1>10

\* What a transaction with given fields ran to.
LEMMA RanBy ==
  ASSUME NEW c, NEW t, NEW cip, NEW st, NEW npsm, NEW timer, NEW q,
         Net(c, t, cip, st, npsm, timer, q), Taken(c, npsm, q),
         Outcome(cip, st, ctx[c].model, npsm, timer, q)
  PROVE  Ran(c, t)
  BY DEF Net, Ran

\* Clearing a call ends it, with a release if the other half has yet to know,
LEMMA ClearCallRuns ==
  ASSUME NEW c, NEW t, NEW npsm, NEW timer, NEW q, Serving(c, t, npsm, timer, q),
         NEW cause \in {ToneCause, IdleCause}
  PROVE  Ran(c, ClearCall(t, cause))
<1> DEFINE t1 == IF HasUser(t) THEN SetLineState(ToUser(t, Release), "Idle") ELSE t
           t2 == IF t.h.npsm = "Idle" THEN t1 ELSE ToPeer(t1, Cip("REL", cause))
           st == ctx[c].st
           model == ctx[c].model
<1>1. Net(c, t, Nil, st, npsm, timer, q) /\ Taken(c, npsm, q)
  BY DEF Serving
<1>2. Net(c, t1, Nil, st, npsm, timer, q)
  BY <1>1, NetSteps
<1> HIDE DEF t1
<1>3. \/ Net(c, t2, Nil, st, npsm, timer, q)
      \/ Net(c, t2, Cip("REL", cause), st, npsm, timer, q)
  BY <1>2, NetSteps
<1> HIDE DEF t2
<1>4. \/ Net(c, Go(t2, "Null"), Nil, "Null", npsm, timer, q)
      \/ Net(c, Go(t2, "Null"), Cip("REL", cause), "Null", npsm, timer, q)
  BY <1>3, NetSteps
<1>5. /\ Outcome(Nil, "Null", model, npsm, timer, q)
      /\ Outcome(Cip("REL", cause), "Null", model, npsm, timer, q)
  BY DEF Outcome
<1>6. Ran(c, Go(t2, "Null"))
  BY <1>1, <1>4, <1>5, RanBy
<1> QED BY <1>6 DEF ClearCall, t1, t2

\* and a tone is only applied once it does.
LEMMA ToneRuns ==
  ASSUME NEW c, NEW t, NEW timer, NEW q, Serving(c, t, "Idle", timer, q),
         ctx[c].model \in {"Obc", "Tbc"}, ctx[c].st \notin {"Pc", "Ta"}, NEW i
  PROVE  Ran(c, ApplyTone(t, i))
<1> DEFINE t1 == Go(t, "Ex")
           t2 == [t1 EXCEPT !.h.tone = i]
           model == ctx[c].model
<1>1. Net(c, t, Nil, ctx[c].st, "Idle", timer, q) /\ Taken(c, "Idle", q)
      /\ OnTime(q, "Idle", ctx[c].st)
  BY DEF Serving
<1>2. Net(c, t1, Nil, "Ex", "Idle", timer, q)
  BY <1>1, NetSteps
<1> HIDE DEF t1
<1>3. Net(c, t2, Nil, "Ex", "Idle", timer, q)
  BY <1>2, NetSteps
<1> HIDE DEF t2
<1>4. Net(c, StartTimer(t2, "Treatment"), Nil, "Ex", "Idle", "Treatment", q)
  BY <1>3, NetSteps
<1>5. StageOf(model, "Idle", "Ex", "Treatment") /\ OnTime(q, "Idle", "Ex")
  BY <1>1 DEF StageOf, Stages, OnTime
<1>6. Outcome(Nil, "Ex", model, "Idle", "Treatment", q)
  BY <1>5 DEF Outcome
<1>7. Ran(c, StartTimer(t2, "Treatment"))
  BY <1>1, <1>4, <1>6, RanBy
<1> QED BY <1>7 DEF ApplyTone, t1, t2

\* So does releasing a call,
LEMMA ReleaseCallRuns ==
  ASSUME NEW c, NEW t, NEW npsm, NEW timer, NEW q, Serving(c, t, npsm, timer, q),
         NEW cause \in {ToneCause, IdleCause}, ctx[c].model \in {"Obc", "Tbc"},
         cause = IdleCause \/ ctx[c].st = "Ready" \/ npsm = "Idle"
  PROVE  Ran(c, ReleaseCall(t, cause))
<1>1. t.h.st = ctx[c].st
  BY DEF Serving, Net
<1>2. CASE HasUser(t) /\ t.h.st \in {"Ci", "Sc", "Oa", "Ac", "Rs"}
  <2>1. cause # IdleCause => Ran(c, ApplyTone(t, 1))
    BY <1>1, <1>2, ToneRuns
  <2> QED BY <1>2, <2>1, ClearCallRuns DEF ReleaseCall, FirstTreatment
<1>3. CASE ~(HasUser(t) /\ t.h.st \in {"Ci", "Sc", "Oa", "Ac", "Rs"})
  BY <1>3, ClearCallRuns DEF ReleaseCall
<1> QED BY <1>2, <1>3

\* and a half call that waits stays as it is.
LEMMA StayRuns ==
  ASSUME NEW c, NEW t, NEW npsm, NEW timer, NEW q, Serving(c, t, npsm, timer, q),
         StageOf(ctx[c].model, npsm, ctx[c].st, timer)
  PROVE  Ran(c, t)
<1>1. /\ Net(c, t, Nil, ctx[c].st, npsm, timer, q) /\ Taken(c, npsm, q)
      /\ OnTime(q, npsm, ctx[c].st)
  BY DEF Serving
<1>2. ctx[c].st # "Null"
  BY DEF StageOf, Stages
<1>3. Outcome(Nil, ctx[c].st, ctx[c].model, npsm, timer, q)
  BY <1>1, <1>2 DEF Outcome
<1> QED BY <1>1, <1>3, RanBy

\* It may end before it has begun.
LEMMA NullRuns ==
  ASSUME NEW c, NEW t, NEW st, NEW npsm, NEW timer, NEW q,
         Net(c, t, Nil, st, npsm, timer, q), Taken(c, npsm, q)
  PROVE  Ran(c, Go(t, "Null"))
<1>1. Net(c, Go(t, "Null"), Nil, "Null", npsm, timer, q)
  BY NetSteps
<1>2. Outcome(Nil, "Null", ctx[c].model, npsm, timer, q)
  BY DEF Outcome
<1> QED BY <1>1, <1>2, RanBy

\* A message that its handler does not expect ends the half call or leaves it.
LEMMA AnalyzeMsgRuns ==
  ASSUME NEW c, NEW t, NEW npsm, NEW timer, NEW q, Serving(c, t, npsm, timer, q),
         ctx[c].model \in {"Obc", "Tbc"}, NEW sig,
         ctx[c].st = "Ready" \/ StageOf(ctx[c].model, npsm, ctx[c].st, timer)
  PROVE  Ran(c, AnalyzeMsg(t, sig))
<1>1. t.h.st = ctx[c].st
  BY DEF Serving, Net
<1>2. Ran(c, ReleaseCall(t, IdleCause))
  BY ReleaseCallRuns DEF ToneCause, IdleCause
<1>3. CASE ctx[c].st = "Ready"
  <2>1. Ran(c, ReleaseCall(t, ToneCause))
    BY <1>3, ReleaseCallRuns
  <2>2. Ran(c, Suspend(t))
    BY <1>1, <1>3, NullRuns DEF Suspend, Serving
  <2> QED BY <1>1, <1>2, <1>3, <2>1, <2>2 DEF AnalyzeMsg
<1>4. CASE ctx[c].st # "Ready"
  <2>1. Ran(c, Suspend(t))
    BY <1>1, <1>4, StayRuns DEF Suspend
  <2> QED BY <1>1, <1>2, <1>4, <2>1 DEF AnalyzeMsg
<1> QED BY <1>3, <1>4

-----------------------------------------------------------------------------
\* Stopping a timer removes its timeout.
LEMMA StopTimerServes ==
  ASSUME NEW c, NEW t, NEW npsm, NEW timer, NEW q, Serving(c, t, npsm, timer, q)
  PROVE  /\ Serving(c, ClearTimer(t), npsm, Nil, q)
         /\ \E r : /\ Serving(c, StopTimer(t), npsm, Nil, r)
                   /\ timer \in TimerIds => Absent(r, timer)
<1> DEFINE r == RemoveFirst(q, Timeout(timer))
           t1 == [t EXCEPT !.h.q = r]
<1>1. /\ Net(c, t, Nil, ctx[c].st, npsm, timer, q) /\ Taken(c, npsm, q)
      /\ OnTime(q, npsm, ctx[c].st) /\ Single(q) /\ q \in Seq(Msgs)
  BY DEF Serving, Taken
<1>2. Serving(c, ClearTimer(t), npsm, Nil, q)
  BY <1>1, NetSteps DEF Serving
<1>3. /\ r \in Seq(Msgs) /\ Single(r)
      /\ \A s, z : Reach(s, q, z) => Reach(s, r, z)
      /\ timer \in TimerIds => Absent(r, timer)
      /\ \A x : Absent(q, x) => Absent(r, x)
  BY <1>1, RemoveTimeout
<1>4. StopTimer(t) = ClearTimer(t1)
  BY <1>1 DEF StopTimer, Net
<1> HIDE DEF r
<1>5. Net(c, t1, Nil, ctx[c].st, npsm, timer, r)
  BY <1>1, NetSteps
<1> HIDE DEF t1
<1>6. Net(c, StopTimer(t), Nil, ctx[c].st, npsm, Nil, r)
  BY <1>4, <1>5, NetSteps
<1>7. Taken(c, npsm, r) /\ OnTime(r, npsm, ctx[c].st)
  BY <1>1, <1>3 DEF Taken, OnTime
<1> QED BY <1>2, <1>3, <1>6, <1>7 DEF Serving

\* The handler of a message that is not from the other half begins with what
\* its context holds.
LEMMA BeginServes ==
  ASSUME HalfInv, NEW c \in Contexts, ctx[c].st # "Free", ctx[c].q # <<>>
  PROVE  LET t == Begin(c)
             m == Head(ctx[c].q)
             h == ctx[c]
         IN /\ m \in Msgs /\ h.model \in {"Obc", "Tbc"}
            /\ Net(c, t, Nil, h.st, h.npsm, h.timer, Tail(h.q))
            /\ Single(Tail(h.q)) /\ Tail(h.q) \in Seq(Msgs) /\ OnTime(Tail(h.q), h.npsm, h.st)
            /\ ~IsCip(m) => Serving(c, t, h.npsm, h.timer, Tail(h.q)) /\ ~Offered(h)
            /\ h.st # "Ready" => StageOf(h.model, h.npsm, h.st, h.timer)
            /\ h.st = "Ready" => h.npsm = "Idle"
<1> DEFINE t == Begin(c)
           m == Head(ctx[c].q)
           h == ctx[c]
           r == Tail(h.q)
<1>0. CallInv /\ IInv /\ MsgsInv /\ TimeoutInv /\ ShapeInv
  BY DEF HalfInv, CallInv
<1>1. /\ Begun(c, t) /\ t.h.npsm = h.npsm /\ t.h.timer = h.timer
  BY <1>0, BeginIsBegun
<1>2. /\ m \in Msgs /\ t.h.st = h.st /\ t.h.model = h.model
      /\ h.st = "Ready" /\ m.port = "U" => h.model = "Obc"
      /\ h.st = "Ready" /\ m.port = "N" => m.sig = "IAM"
  BY <1>0, HandlerBegins
<1>3. t.h.q = r
  <2>1. HalfForm(h) /\ t.h = [h EXCEPT !.q = r]
    BY HalfFacts DEF Begin
  <2> QED BY <2>1 DEF HalfForm
<1>4. Net(c, t, Nil, h.st, h.npsm, h.timer, r)
  BY <1>1, <1>2, <1>3 DEF Begun, Fresh, Kept, Net
<1>5. Single(r)
  BY <1>1, <1>3 DEF Begun, Trimmed
<1>6. r \in Seq(Msgs) /\ (\A x : Absent(h.q, x) => Absent(r, x)) /\ h.q \in Seq(Msgs)
  BY HalfFacts, TailAbsent
<1>7. OnTime(r, h.npsm, h.st)
  <2>1. OnTime(h.q, h.npsm, h.st)
    BY DEF HalfInv, StageInv
  <2> QED BY <1>6, <2>1 DEF OnTime
<1>8. /\ h.st # "Ready" => StageOf(h.model, h.npsm, h.st, h.timer)
      /\ h.st = "Ready" => h.npsm = "Idle"
      /\ h.model \in {"Obc", "Tbc"}
  <2>1. h.st # "Ready" => StageOf(h.model, h.npsm, h.st, h.timer)
    BY DEF HalfInv, StageInv
  <2>2. h.st = "Ready" => h.npsm = "Idle"
    BY HalfFacts DEF ReadyOf
  <2> QED BY <2>1, <2>2, HalfFacts
<1>9. ASSUME ~IsCip(m) PROVE Serving(c, t, h.npsm, h.timer, r) /\ ~Offered(h)
  <2>1. ~Offered(h)
    BY <1>2, <1>9, MsgFacts DEF Offered, IsCip
  <2>2. At(h) = h.npsm /\ Rest(h) = h.q
    BY <2>1 DEF At, Rest
  <2>3. Reach(h.npsm, h.q, Due(c))
    BY <2>2 DEF HalfInv, PortInv, Ported
  <2>4. Received(h.npsm, m) = h.npsm
    BY <1>9 DEF Received
  <2>5. Reach(h.npsm, r, Due(c))
    BY <1>6, <2>3, <2>4, ReachTail
  <2>6. Taken(c, h.npsm, r)
    BY <1>6, <2>2, <2>5 DEF Taken
  <2> QED BY <1>4, <1>5, <1>7, <2>1, <2>6 DEF Serving
<1> QED BY <1>2, <1>4, <1>5, <1>6, <1>7, <1>8, <1>9

\* For a message from the user,
LEMMA UserServes ==
  ASSUME HalfInv, NEW c \in Contexts, NEW states, FromUser(c, states), "Free" \notin states
  PROVE  LET h == ctx[c]
         IN /\ Serving(c, Begin(c), h.npsm, h.timer, Tail(h.q)) /\ h.model \in {"Obc", "Tbc"}
            /\ h.st # "Ready" => StageOf(h.model, h.npsm, h.st, h.timer)
            /\ h.st = "Ready" => h.model = "Obc" /\ h.npsm = "Idle"
            /\ h.st \in states
<1>1. /\ ctx[c].st \in states /\ ctx[c].st # "Free" /\ ctx[c].q # <<>>
      /\ Head(ctx[c].q).port = "U"
  BY DEF FromUser
<1>2. ~IsCip(Head(ctx[c].q))
  BY <1>1 DEF IsCip
<1>3. ctx[c].st = "Ready" => ctx[c].model = "Obc"
  BY <1>1, HandlerBegins DEF HalfInv
<1> QED BY <1>1, <1>2, <1>3, BeginServes

\* the handler of the first one begins a call or ends it,
LEMMA NuRuns ==
  ASSUME HalfInv, NEW c \in Contexts, NuAnalyzeLocalMessage(c)
  PROVE  \E t : Ran(c, t) /\ EndOfTransaction(c, t)
<1> DEFINE t == Begin(c)
           h == ctx[c]
           sig == Head(h.q).sig
           line == profile[t.h.user].state
           s0 == ToUser(t, Release)
           s == SetLineState(s0, "Idle")
           q == Tail(h.q)
           r == CASE line = "Active" /\ sig = "Offhook" -> Originate(t)
                  [] line = "Lockout" /\ sig = "Onhook" -> Suspend(s)
                  [] OTHER -> AnalyzeMsg(t, sig)
<1>1. FromUser(c, {"Ready"}) /\ EndOfTransaction(c, r)
  BY DEF NuAnalyzeLocalMessage
<1>2. Serving(c, t, h.npsm, h.timer, q) /\ h.model = "Obc" /\ h.npsm = "Idle" /\ h.st = "Ready"
  BY <1>1, UserServes
<1>3. /\ Net(c, t, Nil, h.st, "Idle", h.timer, q) /\ Taken(c, "Idle", q)
      /\ OnTime(q, "Idle", h.st)
  BY <1>2 DEF Serving
<1> HIDE DEF t, q
<1>4. Ran(c, Originate(t))
  <2> DEFINE t1 == Go(t, "Ci")
             t2 == ToUser(t1, DigitsOn)
             t3 == StartTimer(t2, "Collection")
  <2>1. Net(c, t1, Nil, "Ci", "Idle", h.timer, q)
    BY <1>3, NetSteps
  <2> HIDE DEF t1
  <2>2. Net(c, t2, Nil, "Ci", "Idle", h.timer, q)
    BY <2>1, NetSteps
  <2> HIDE DEF t2
  <2>3. Net(c, t3, Nil, "Ci", "Idle", "Collection", q)
    BY <2>2, NetSteps
  <2> HIDE DEF t3
  <2>4. StageOf(h.model, "Idle", "Ci", "Collection") /\ OnTime(q, "Idle", "Ci")
    BY <1>2, <1>3 DEF StageOf, Stages, OnTime
  <2>5. Outcome(Nil, "Ci", h.model, "Idle", "Collection", q)
    BY <2>4 DEF Outcome
  <2>6. Ran(c, t3)
    BY <1>3, <2>3, <2>5, RanBy
  <2> QED BY <2>6 DEF Originate, t1, t2, t3
<1>5. Ran(c, AnalyzeMsg(t, sig))
  BY <1>2, AnalyzeMsgRuns
<1>6. Ran(c, Suspend(s))
  <2>1. Net(c, s0, Nil, h.st, "Idle", h.timer, q)
    BY <1>3, NetSteps
  <2> HIDE DEF s0
  <2>2. Net(c, s, Nil, h.st, "Idle", h.timer, q)
    BY <2>1, NetSteps
  <2> HIDE DEF s
  <2>3. Suspend(s) = Go(s, "Null")
    BY <1>2, <2>2 DEF Suspend, Net
  <2> QED BY <1>3, <2>2, <2>3, NullRuns
<1>7. Ran(c, r)
  BY <1>4, <1>5, <1>6
<1> HIDE DEF r
<1> QED BY <1>1, <1>7

\* and that of one that collects digits sends the call or applies treatment.
LEMMA CiRuns ==
  ASSUME HalfInv, NEW c \in Contexts, CiAnalyzeLocalMessage(c)
  PROVE  \E t : Ran(c, t) /\ EndOfTransaction(c, t)
<1> DEFINE t == Begin(c)
           h == ctx[c]
           m == Head(h.q)
           q == Tail(h.q)
           r == CASE m.sig = "Digits"  -> LocalInformation(StopTimer(t), m.arg)
                  [] m.sig = "Onhook"  -> ClearCall(StopTimer(t), ToneCause)
                  [] m.sig = "Timeout" -> CollectionTimeout(ClearTimer(t))
                  [] OTHER -> AnalyzeMsg(t, m.sig)
<1>1. FromUser(c, {"Ci"}) /\ EndOfTransaction(c, r)
  BY DEF CiAnalyzeLocalMessage
<1>2. /\ Serving(c, t, h.npsm, h.timer, q) /\ h.st = "Ci"
      /\ StageOf(h.model, h.npsm, h.st, h.timer)
  BY <1>1, UserServes
<1>3. h.model = "Obc" /\ h.npsm = "Idle"
  BY <1>2 DEF StageOf, Stages
<1>4. m \in Msgs /\ (m.sig = "Digits" => m.arg \in Dialable)
  BY <1>1, BeginServes, MsgFacts DEF FromUser
<1> HIDE DEF t, q, m
<1>5. /\ Serving(c, ClearTimer(t), "Idle", Nil, q)
      /\ \E x : Serving(c, StopTimer(t), "Idle", Nil, x)
  BY <1>2, <1>3, StopTimerServes
<1>6. ASSUME NEW b, NEW x, Serving(c, b, "Idle", Nil, x) PROVE Ran(c, CollectionTimeout(b))
  <2> DEFINE b1 == ToUser(b, DigitsOff)
  <2>1. Serving(c, b1, "Idle", Nil, x)
    BY <1>6, NetSteps DEF Serving
  <2> HIDE DEF b1
  <2>2. Ran(c, ReleaseCall(b1, ToneCause))
    BY <1>3, <2>1, ReleaseCallRuns
  <2> QED BY <2>2 DEF CollectionTimeout, b1
<1>7. ASSUME NEW b, NEW x, Serving(c, b, "Idle", Nil, x), NEW u \in Users
      PROVE  Ran(c, SendCall(b, u))
  <2> DEFINE b1 == ToUser(b, DigitsOff)
             b2 == Go(b1, "Sc")
             b3 == ToPeer(b2, Cip("IAM", u))
  <2>1. /\ Net(c, b, Nil, h.st, "Idle", Nil, x) /\ Taken(c, "Idle", x)
        /\ OnTime(x, "Idle", h.st)
    BY <1>7 DEF Serving
  <2>2. Net(c, b1, Nil, h.st, "Idle", Nil, x)
    BY <2>1, NetSteps
  <2> HIDE DEF b1
  <2>3. Net(c, b2, Nil, "Sc", "Idle", Nil, x)
    BY <2>2, NetSteps
  <2> HIDE DEF b2
  <2>4. Net(c, b3, Cip("IAM", u), "Sc", "Idle", Nil, x)
    BY <2>3, NetSteps
  <2> HIDE DEF b3
  <2>5. StageOf(h.model, "IamSent", "Sc", Nil) /\ OnTime(x, "IamSent", "Sc")
    BY <1>2, <1>3, <2>1, NilAssumption DEF StageOf, Stages, OnTime, TimerIds
  <2>6. Outcome(Cip("IAM", u), "Sc", h.model, "Idle", Nil, x)
    BY <1>3, <2>5 DEF Outcome
  <2>7. Ran(c, b3)
    BY <2>1, <2>4, <2>6, RanBy
  <2> QED BY <2>7 DEF SendCall, b1, b2, b3
<1>8. ASSUME NEW b, NEW x, Serving(c, b, "Idle", Nil, x)
      PROVE  Ran(c, StartTimer(b, "Collection"))
  <2>1. Serving(c, StartTimer(b, "Collection"), "Idle", "Collection", x)
    BY <1>8, NetSteps DEF Serving
  <2>2. StageOf(h.model, "Idle", h.st, "Collection")
    BY <1>2, <1>3 DEF StageOf, Stages
  <2> QED BY <2>1, <2>2, StayRuns
<1>9. m.sig = "Digits" => Ran(c, LocalInformation(StopTimer(t), m.arg))
  BY <1>4, <1>5, <1>6, <1>7, <1>8 DEF LocalInformation, Dialable
<1>10. Ran(c, ClearCall(StopTimer(t), ToneCause)) /\ Ran(c, CollectionTimeout(ClearTimer(t)))
  BY <1>5, <1>6, ClearCallRuns
<1>11. Ran(c, AnalyzeMsg(t, m.sig))
  BY <1>2, <1>3, AnalyzeMsgRuns
<1>12. Ran(c, r)
  BY <1>9, <1>10, <1>11
<1> HIDE DEF r
<1> QED BY <1>1, <1>12

\* The handler of one that sent its call or hears ringing ends the call or waits.
LEMMA ScRuns ==
  ASSUME HalfInv, NEW c \in Contexts, ScAnalyzeLocalMessage(c)
  PROVE  \E t : Ran(c, t) /\ EndOfTransaction(c, t)
<1> DEFINE t == Begin(c)
           h == ctx[c]
           sig == Head(h.q).sig
           r == IF sig = "Onhook" THEN ClearCall(t, ToneCause) ELSE AnalyzeMsg(t, sig)
<1>1. FromUser(c, {"Sc", "Oa"}) /\ EndOfTransaction(c, r)
  BY DEF ScAnalyzeLocalMessage
<1>2. /\ Serving(c, t, h.npsm, h.timer, Tail(h.q)) /\ h.model \in {"Obc", "Tbc"}
      /\ StageOf(h.model, h.npsm, h.st, h.timer)
  BY <1>1, UserServes
<1> HIDE DEF t
<1>3. Ran(c, r)
  BY <1>2, ClearCallRuns, AnalyzeMsgRuns
<1> HIDE DEF r
<1> QED BY <1>1, <1>3

\* A circuit that rings is reported, and answered.
LEMMA AlertingRuns ==
  ASSUME NEW c, NEW t, NEW npsm, NEW q, Serving(c, t, npsm, Nil, q),
         StageOf(ctx[c].model, npsm, "Pc", "Alerting"), Absent(q, "Alerting"),
         ctx[c].st = "Pc"
  PROVE  Ran(c, LocalAlerting(t))
<1> DEFINE t1 == StartTimer(t, "Answer")
           t2 == Go(t1, "Ta")
           t3 == ToPeer(t2, Cip("ALT", Nil))
           model == ctx[c].model
<1>1. /\ Net(c, t, Nil, "Pc", npsm, Nil, q) /\ Taken(c, npsm, q) /\ OnTime(q, npsm, "Pc")
  BY DEF Serving
<1>2. Net(c, t1, Nil, "Pc", npsm, "Answer", q)
  BY <1>1, NetSteps
<1> HIDE DEF t1
<1>3. Net(c, t2, Nil, "Ta", npsm, "Answer", q)
  BY <1>2, NetSteps
<1> HIDE DEF t2
<1>4. Net(c, t3, Cip("ALT", Nil), "Ta", npsm, "Answer", q)
  BY <1>3, NetSteps
<1> HIDE DEF t3
<1>5. model = "Tbc" /\ npsm = "EosSent"
  BY DEF StageOf, Stages
<1>6. StageOf(model, "AltSent", "Ta", "Answer") /\ OnTime(q, "AltSent", "Ta")
  BY <1>1, <1>5 DEF StageOf, Stages, OnTime
<1>7. Outcome(Cip("ALT", Nil), "Ta", model, npsm, "Answer", q)
  <2>1. <<"EosSent", "ALT", "AltSent">> \in Answers
    BY DEF Answers
  <2> QED BY <1>5, <1>6, <2>1 DEF Outcome
<1>8. Ran(c, t3)
  BY <1>1, <1>4, <1>7, RanBy
<1> QED BY <1>8 DEF LocalAlerting, t1, t2, t3

\* One that presents a call or hears ringing answers it,
LEMMA AnswerRuns ==
  ASSUME NEW c, NEW t, NEW npsm, NEW timer, NEW q, Serving(c, t, npsm, Nil, q),
         StageOf(ctx[c].model, npsm, ctx[c].st, timer), ctx[c].st \in {"Pc", "Ta"},
         Absent(q, timer)
  PROVE  Ran(c, LocalAnswer(t))
<1> DEFINE t1 == ToUser(t, RingOff)
           t2 == Go(t1, "Ac")
           t3 == ToPeer(t2, Cip("ANM", Nil))
           model == ctx[c].model
           st == ctx[c].st
<1>1. /\ Net(c, t, Nil, st, npsm, Nil, q) /\ Taken(c, npsm, q) /\ OnTime(q, npsm, st)
  BY DEF Serving
<1>2. Net(c, t1, Nil, st, npsm, Nil, q)
  BY <1>1, NetSteps
<1> HIDE DEF t1
<1>3. Net(c, t2, Nil, "Ac", npsm, Nil, q)
  BY <1>2, NetSteps
<1> HIDE DEF t2
<1>4. Net(c, t3, Cip("ANM", Nil), "Ac", npsm, Nil, q)
  BY <1>3, NetSteps
<1> HIDE DEF t3
<1>5. model = "Tbc" /\ npsm \in {"EosSent", "AltSent"}
  BY DEF StageOf, Stages
<1>6. StageOf(model, "AnmSent", "Ac", Nil) /\ OnTime(q, "AnmSent", "Ac")
  <2>1. StageOf(model, "AnmSent", "Ac", Nil)
    BY <1>5, NilAssumption DEF StageOf, Stages, TimerIds
  <2>2. npsm # "IamSent" /\ ((st = "Pc" /\ timer = "Alerting") \/ (st = "Ta" /\ timer = "Answer"))
    BY <1>5 DEF StageOf
  <2>3. OnTime(q, "AnmSent", "Ac")
    BY <1>1, <2>2 DEF OnTime
  <2> QED BY <2>1, <2>3
<1>7. Outcome(Cip("ANM", Nil), "Ac", model, npsm, Nil, q)
  <2>1. <<npsm, "ANM", "AnmSent">> \in Answers
    BY <1>5 DEF Answers
  <2> QED BY <1>5, <1>6, <2>1 DEF Outcome
<1>8. Ran(c, t3)
  BY <1>1, <1>4, <1>7, RanBy
<1> QED BY <1>8 DEF LocalAnswer, t1, t2, t3

\* and so does the handler of one that presents a call, unless the call is
\* now ringing, ends or waits,
LEMMA PcRuns ==
  ASSUME HalfInv, NEW c \in Contexts, PcAnalyzeLocalMessage(c)
  PROVE  \E t : Ran(c, t) /\ EndOfTransaction(c, t)
<1> DEFINE t == Begin(c)
           h == ctx[c]
           sig == Head(h.q).sig
           r == CASE sig = "Alerting" -> LocalAlerting(StopTimer(t))
                  [] sig = "Offhook" -> LocalAnswer(StopTimer(t))
                  [] OTHER -> AnalyzeMsg(t, sig)
<1>1. FromUser(c, {"Pc"}) /\ EndOfTransaction(c, r)
  BY DEF PcAnalyzeLocalMessage
<1>2. /\ Serving(c, t, h.npsm, h.timer, Tail(h.q)) /\ h.model \in {"Obc", "Tbc"}
      /\ h.st = "Pc" /\ StageOf(h.model, h.npsm, h.st, h.timer)
  BY <1>1, UserServes
<1> HIDE DEF t
<1>3. h.timer = "Alerting" /\ h.timer \in TimerIds
  BY <1>2 DEF StageOf, TimerIds
<1>4. PICK q : Serving(c, StopTimer(t), h.npsm, Nil, q) /\ Absent(q, h.timer)
  BY <1>2, <1>3, StopTimerServes
<1>5. Ran(c, LocalAlerting(StopTimer(t))) /\ Ran(c, LocalAnswer(StopTimer(t)))
  BY <1>2, <1>3, <1>4, AlertingRuns, AnswerRuns
<1>6. Ran(c, r)
  BY <1>2, <1>5, AnalyzeMsgRuns
<1> HIDE DEF r
<1> QED BY <1>1, <1>6

\* and the handler of one that rings.
LEMMA TaRuns ==
  ASSUME HalfInv, NEW c \in Contexts, TaAnalyzeLocalMessage(c)
  PROVE  \E t : Ran(c, t) /\ EndOfTransaction(c, t)
<1> DEFINE t == Begin(c)
           h == ctx[c]
           sig == Head(h.q).sig
           r == IF sig = "Offhook" THEN LocalAnswer(StopTimer(t)) ELSE AnalyzeMsg(t, sig)
<1>1. FromUser(c, {"Ta"}) /\ EndOfTransaction(c, r)
  BY DEF TaAnalyzeLocalMessage
<1>2. /\ Serving(c, t, h.npsm, h.timer, Tail(h.q)) /\ h.model \in {"Obc", "Tbc"}
      /\ h.st = "Ta" /\ StageOf(h.model, h.npsm, h.st, h.timer)
  BY <1>1, UserServes
<1> HIDE DEF t
<1>3. h.timer \in TimerIds
  BY <1>2 DEF StageOf, TimerIds
<1>4. PICK q : Serving(c, StopTimer(t), h.npsm, Nil, q) /\ Absent(q, h.timer)
  BY <1>2, <1>3, StopTimerServes
<1>5. Ran(c, LocalAnswer(StopTimer(t)))
  BY <1>2, <1>3, <1>4, AnswerRuns
<1>6. Ran(c, r)
  BY <1>2, <1>5, AnalyzeMsgRuns
<1> HIDE DEF r
<1> QED BY <1>1, <1>6

\* A called user suspends the call and resumes it.
LEMMA SuspendRuns ==
  ASSUME NEW c, NEW t, NEW npsm, NEW timer, NEW q, Serving(c, t, npsm, timer, q),
         ctx[c].model = "Tbc", ctx[c].st \in {"Ac", "Rs"}, NEW old,
         StageOf(ctx[c].model, npsm, ctx[c].st, old)
  PROVE  Ran(c, LocalSuspend(t))
<1> DEFINE t1 == StartTimer(t, "Suspend")
           t2 == Go(t1, "Ls")
           t3 == ToPeer(t2, Cip("SUS", Nil))
           model == ctx[c].model
           st == ctx[c].st
<1>1. /\ Net(c, t, Nil, st, npsm, timer, q) /\ Taken(c, npsm, q) /\ OnTime(q, npsm, st)
  BY DEF Serving
<1>2. Net(c, t1, Nil, st, npsm, "Suspend", q)
  BY <1>1, NetSteps
<1> HIDE DEF t1
<1>3. Net(c, t2, Nil, "Ls", npsm, "Suspend", q)
  BY <1>2, NetSteps
<1> HIDE DEF t2
<1>4. Net(c, t3, Cip("SUS", Nil), "Ls", npsm, "Suspend", q)
  BY <1>3, NetSteps
<1> HIDE DEF t3
<1>5. npsm = "AnmSent"
  BY DEF StageOf, Stages
<1>6. StageOf(model, "SusSent", "Ls", "Suspend") /\ OnTime(q, "SusSent", "Ls")
  <2>1. StageOf(model, "SusSent", "Ls", "Suspend")
    BY DEF StageOf, Stages
  <2>2. OnTime(q, "SusSent", "Ls")
    BY <1>1, <1>5 DEF OnTime
  <2> QED BY <2>1, <2>2
<1>7. Outcome(Cip("SUS", Nil), "Ls", model, npsm, "Suspend", q)
  <2>1. <<npsm, "SUS", "SusSent">> \in Answers
    BY <1>5 DEF Answers
  <2> QED BY <1>6, <2>1 DEF Outcome
<1>8. Ran(c, t3)
  BY <1>1, <1>4, <1>7, RanBy
<1> QED BY <1>8 DEF LocalSuspend, t1, t2, t3

\* One that suspended its call resumes it,
LEMMA ResumeRuns ==
  ASSUME NEW c, NEW t, NEW npsm, NEW q, Serving(c, t, npsm, Nil, q),
         ctx[c].st = "Ls", NEW old, StageOf(ctx[c].model, npsm, ctx[c].st, old)
  PROVE  Ran(c, LocalResume(t))
<1> DEFINE t2 == Go(t, "Ac")
           t3 == ToPeer(t2, Cip("RES", Nil))
           model == ctx[c].model
<1>1. /\ Net(c, t, Nil, "Ls", npsm, Nil, q) /\ Taken(c, npsm, q) /\ OnTime(q, npsm, "Ls")
  BY DEF Serving
<1>3. Net(c, t2, Nil, "Ac", npsm, Nil, q)
  BY <1>1, NetSteps
<1> HIDE DEF t2
<1>4. Net(c, t3, Cip("RES", Nil), "Ac", npsm, Nil, q)
  BY <1>3, NetSteps
<1> HIDE DEF t3
<1>5. npsm = "SusSent" /\ model = "Tbc"
  BY DEF StageOf, Stages
<1>6. StageOf(model, "AnmSent", "Ac", Nil) /\ OnTime(q, "AnmSent", "Ac")
  <2>1. StageOf(model, "AnmSent", "Ac", Nil)
    BY <1>5, NilAssumption DEF StageOf, Stages, TimerIds
  <2>2. OnTime(q, "AnmSent", "Ac")
    BY <1>1, <1>5 DEF OnTime
  <2> QED BY <2>1, <2>2
<1>7. Outcome(Cip("RES", Nil), "Ac", model, npsm, Nil, q)
  <2>1. <<npsm, "RES", "AnmSent">> \in Answers
    BY <1>5 DEF Answers
  <2> QED BY <1>5, <1>6, <2>1 DEF Outcome
<1>8. Ran(c, t3)
  BY <1>1, <1>4, <1>7, RanBy
<1> QED BY <1>8 DEF LocalResume, t2, t3

\* as does the handler of one that was answered, unless it suspends or ends
\* the call or waits.
LEMMA AcRuns ==
  ASSUME HalfInv, NEW c \in Contexts, AcAnalyzeLocalMessage(c)
  PROVE  \E t : Ran(c, t) /\ EndOfTransaction(c, t)
<1> DEFINE t == Begin(c)
           h == ctx[c]
           sig == Head(h.q).sig
           r == CASE sig = "Onhook" /\ t.h.model = "Obc" -> ClearCall(t, ToneCause)
                  [] sig = "Onhook" /\ t.h.model = "Tbc" /\ t.h.st # "Ls" -> LocalSuspend(t)
                  [] sig = "Offhook" /\ t.h.st = "Ls" -> LocalResume(StopTimer(t))
                  [] sig = "Timeout" -> ClearCall(ClearTimer(t), ToneCause)
                  [] OTHER -> AnalyzeMsg(t, sig)
<1>1. FromUser(c, {"Ac", "Ls", "Rs"}) /\ EndOfTransaction(c, r)
  BY DEF AcAnalyzeLocalMessage
<1>2. /\ Serving(c, t, h.npsm, h.timer, Tail(h.q)) /\ h.model \in {"Obc", "Tbc"}
      /\ h.st \in {"Ac", "Ls", "Rs"} /\ StageOf(h.model, h.npsm, h.st, h.timer)
  BY <1>1, UserServes
<1> HIDE DEF t
<1>3. t.h.model = h.model /\ t.h.st = h.st
  BY <1>2 DEF Serving, Net
<1>4. /\ Serving(c, ClearTimer(t), h.npsm, Nil, Tail(h.q))
      /\ \E q : Serving(c, StopTimer(t), h.npsm, Nil, q)
  BY <1>2, StopTimerServes
<1>5. t.h.model = "Tbc" /\ t.h.st # "Ls" => Ran(c, LocalSuspend(t))
  BY <1>2, <1>3, SuspendRuns
<1>6. t.h.st = "Ls" => Ran(c, LocalResume(StopTimer(t)))
  BY <1>2, <1>3, <1>4, ResumeRuns
<1>7. Ran(c, ClearCall(t, ToneCause)) /\ Ran(c, ClearCall(ClearTimer(t), ToneCause))
      /\ Ran(c, AnalyzeMsg(t, sig))
  BY <1>2, <1>4, ClearCallRuns, AnalyzeMsgRuns
<1>8. Ran(c, r)
  BY <1>5, <1>6, <1>7
<1> HIDE DEF r
<1> QED BY <1>1, <1>8

\* The handler of one that applies treatment.
LEMMA ExRuns ==
  ASSUME HalfInv, NEW c \in Contexts, ExAnalyzeLocalMessage(c)
  PROVE  \E t : Ran(c, t) /\ EndOfTransaction(c, t)
<1> DEFINE t == Begin(c)
           h == ctx[c]
           sig == Head(h.q).sig
           b == ClearTimer(t)
           q == Tail(h.q)
           r == CASE sig = "Onhook"  -> ClearCall(StopTimer(t), ToneCause)
                  [] sig = "Timeout" -> NextTreatment(b)
                  [] OTHER -> AnalyzeMsg(t, sig)
<1>1. FromUser(c, {"Ex"}) /\ EndOfTransaction(c, r)
  BY DEF ExAnalyzeLocalMessage
<1>2. /\ Serving(c, t, h.npsm, h.timer, q) /\ h.model \in {"Obc", "Tbc"}
      /\ h.st = "Ex" /\ StageOf(h.model, h.npsm, h.st, h.timer)
  BY <1>1, UserServes
<1> HIDE DEF t, q
<1>3. h.npsm = "Idle"
  BY <1>2 DEF StageOf, Stages
<1>4. /\ Serving(c, b, "Idle", Nil, q)
      /\ \E x : Serving(c, StopTimer(t), "Idle", Nil, x)
  BY <1>2, <1>3, StopTimerServes
<1> HIDE DEF b
<1>5. Ran(c, NextTreatment(b))
  <2> DEFINE s0 == ToUser(b, Lockout)
             s == SetLineState(s0, "Lockout")
  <2>1. Net(c, b, Nil, h.st, "Idle", Nil, q) /\ Taken(c, "Idle", q)
    BY <1>4 DEF Serving
  <2>2. Net(c, s0, Nil, h.st, "Idle", Nil, q)
    BY <2>1, NetSteps
  <2> HIDE DEF s0
  <2>3. Net(c, s, Nil, h.st, "Idle", Nil, q)
    BY <2>2, NetSteps
  <2> HIDE DEF s
  <2>4. Ran(c, Go(s, "Null"))
    BY <2>1, <2>3, NullRuns
  <2>5. Ran(c, ApplyTone(b, b.h.tone + 1))
    BY <1>2, <1>4, ToneRuns
  <2> QED BY <2>4, <2>5 DEF NextTreatment, s, s0
<1>6. Ran(c, ClearCall(StopTimer(t), ToneCause)) /\ Ran(c, AnalyzeMsg(t, sig))
  BY <1>2, <1>4, ClearCallRuns, AnalyzeMsgRuns
<1>7. Ran(c, r)
  BY <1>5, <1>6
<1> HIDE DEF r
<1> QED BY <1>1, <1>7

\* A call that is offered is presented or cleared.
LEMMA PresentRuns ==
  ASSUME NEW c, NEW t, NEW timer, NEW q, Serving(c, t, "IamRcvd", timer, q),
         ctx[c].model = "Tbc", ctx[c].st = "Ready", NEW u
  PROVE  Ran(c, SelectFacility(t, u))
<1> DEFINE t0 == Go(t, "Pc")
           t1 == [t0 EXCEPT !.h.user = u]
           t2 == StartTimer(t1, "Alerting")
           t3 == ToUser(t2, RingOn)
           t4 == ToPeer(t3, Cip("EOS", Nil))
<1>1. /\ Net(c, t, Nil, "Ready", "IamRcvd", timer, q) /\ Taken(c, "IamRcvd", q)
      /\ OnTime(q, "IamRcvd", "Ready")
  BY DEF Serving
<1>2. Net(c, t0, Nil, "Pc", "IamRcvd", timer, q)
  BY <1>1, NetSteps
<1> HIDE DEF t0
<1>3. Net(c, t1, Nil, "Pc", "IamRcvd", timer, q)
  BY <1>2, NetSteps
<1> HIDE DEF t1
<1>4. Net(c, t2, Nil, "Pc", "IamRcvd", "Alerting", q)
  BY <1>3, NetSteps
<1> HIDE DEF t2
<1>5. Net(c, t3, Nil, "Pc", "IamRcvd", "Alerting", q)
  BY <1>4, NetSteps
<1> HIDE DEF t3
<1>6. Net(c, t4, Cip("EOS", Nil), "Pc", "IamRcvd", "Alerting", q)
  BY <1>5, NetSteps
<1> HIDE DEF t4
<1>7. StageOf("Tbc", "EosSent", "Pc", "Alerting") /\ OnTime(q, "EosSent", "Pc")
  <2>1. StageOf("Tbc", "EosSent", "Pc", "Alerting")
    BY DEF StageOf, Stages
  <2>2. OnTime(q, "EosSent", "Pc")
    BY <1>1 DEF OnTime
  <2> QED BY <2>1, <2>2
<1>8. Outcome(Cip("EOS", Nil), "Pc", "Tbc", "IamRcvd", "Alerting", q)
  <2>1. <<"IamRcvd", "EOS", "EosSent">> \in Answers
    BY DEF Answers
  <2> QED BY <1>7, <2>1 DEF Outcome
<1>9. Ran(c, t4)
  BY <1>1, <1>6, <1>8, RanBy
<1>10. Ran(c, PresentCall(t, u))
  BY <1>9 DEF PresentCall, t0, t1, t2, t3, t4
<1>11. Ran(c, ClearCall(t, ToneCause))
  BY ClearCallRuns
<1> QED BY <1>10, <1>11 DEF SelectFacility

\* What the other half did takes the half call to another state.
LEMMA GoRuns ==
  ASSUME NEW c, NEW t, NEW npsm, NEW timer, NEW q, Serving(c, t, npsm, timer, q),
         ctx[c].st \notin {"Pc", "Ta"}, NEW st \in {"Oa", "Ac", "Rs"},
         StageOf(ctx[c].model, npsm, st, timer)
  PROVE  Ran(c, Go(t, st))
<1>1. /\ Net(c, t, Nil, ctx[c].st, npsm, timer, q) /\ Taken(c, npsm, q)
      /\ OnTime(q, npsm, ctx[c].st)
  BY DEF Serving
<1>2. Net(c, Go(t, st), Nil, st, npsm, timer, q)
  BY <1>1, NetSteps
<1>3. OnTime(q, npsm, st)
  BY <1>1 DEF OnTime
<1>4. Outcome(Nil, st, ctx[c].model, npsm, timer, q)
  BY <1>3 DEF Outcome
<1> QED BY <1>1, <1>2, <1>4, RanBy

\* A message of the other half that is valid brings the half call to the stage
\* that goes with the PSM's state, or ends it.
LEMMA RemoteEventRuns ==
  ASSUME NEW c, NEW n, NEW s, NEW m \in Msgs, NEW npsm, s = IcNext(npsm, m.sig), s # Nil,
         npsm # "Idle", NEW timer, NEW q, Serving(c, n, s, timer, q),
         StageOf(ctx[c].model, npsm, ctx[c].st, timer), ctx[c].model \in {"Obc", "Tbc"}
  PROVE  Ran(c, RemoteEvent(n, m))
<1> DEFINE model == ctx[c].model
           st == ctx[c].st
<1>2. \/ m.sig = "EOS" /\ npsm = "IamSent" /\ s = "EosRcvd"
      \/ m.sig = "ALT" /\ npsm \in {"IamSent", "EosRcvd"} /\ s = "AltRcvd"
      \/ m.sig = "ANM" /\ npsm \in {"IamSent", "EosRcvd", "AltRcvd"} /\ s = "AnmRcvd"
      \/ m.sig = "SUS" /\ npsm = "AnmRcvd" /\ s = "SusRcvd"
      \/ m.sig = "RES" /\ npsm = "SusRcvd" /\ s = "AnmRcvd"
      \/ m.sig = "REL" /\ s = "Idle"
  BY IcNextCases
<1>3. CASE m.sig = "REL"
  <2>1. m.arg \in {ToneCause, IdleCause} /\ s = "Idle"
    BY <1>2, <1>3, MsgFacts
  <2>2. \E r : Serving(c, StopTimer(n), s, Nil, r)
    BY StopTimerServes
  <2>3. Ran(c, ClearCall(StopTimer(n), m.arg)) /\ Ran(c, ReleaseCall(n, m.arg))
    BY <2>1, <2>2, ClearCallRuns, ReleaseCallRuns
  <2> QED BY <1>3, <2>3 DEF RemoteEvent, RemoteRelease
<1>4. CASE m.sig # "REL"
  <2>1. npsm \in {"IamSent", "EosRcvd", "AltRcvd", "AnmRcvd", "SusRcvd"}
    BY <1>2, <1>4
  <2>2. <<model, npsm, st>> \in Stages
    BY DEF StageOf
  <2>3. model = "Obc" /\ st \notin {"Pc", "Ta"} /\ (npsm = "IamSent" => st = "Sc")
    BY <2>1, <2>2 DEF Stages
  <2>4. timer \notin {"Iam", "Alerting", "Answer"}
    BY <2>3 DEF StageOf
  <2>5. CASE m.sig = "EOS"
    <3>1. StageOf(model, s, st, timer)
      BY <1>2, <2>3, <2>4, <2>5 DEF StageOf, Stages
    <3>2. Ran(c, n)
      BY <3>1, StayRuns
    <3> QED BY <2>5, <3>2 DEF RemoteEvent
  <2>6. CASE m.sig = "ALT"
    <3>1. StageOf(model, s, "Oa", timer)
      BY <1>2, <2>3, <2>4, <2>6 DEF StageOf, Stages
    <3>2. Ran(c, Go(n, "Oa"))
      BY <2>3, <3>1, GoRuns
    <3> QED BY <2>6, <3>2 DEF RemoteEvent
  <2>7. CASE m.sig \in {"ANM", "RES"}
    <3>1. StageOf(model, s, "Ac", timer)
      BY <1>2, <2>3, <2>4, <2>7 DEF StageOf, Stages
    <3>2. Ran(c, Go(n, "Ac"))
      BY <2>3, <3>1, GoRuns
    <3> QED BY <2>7, <3>2 DEF RemoteEvent
  <2>8. CASE m.sig = "SUS"
    <3>1. StageOf(model, s, "Rs", timer)
      BY <1>2, <2>3, <2>4, <2>8 DEF StageOf, Stages
    <3>2. Ran(c, Go(n, "Rs"))
      BY <2>3, <3>1, GoRuns
    <3> QED BY <2>8, <3>2 DEF RemoteEvent
  <2> QED BY <1>2, <1>4, <2>5, <2>6, <2>7, <2>8
<1> QED BY <1>3, <1>4

\* The handler of the other half's messages receives one that is valid.
LEMMA RemoteRuns ==
  ASSUME HalfInv, NEW c \in Contexts, AnalyzeRemoteMessage(c)
  PROVE  \E t : Ran(c, t) /\ EndOfTransaction(c, t)
<1> DEFINE h == ctx[c]
           m == Head(h.q)
           q == Tail(h.q)
           b == Begin(c)
           t == StopIamTimer(b)
           s == IcNext(t.h.npsm, m.sig)
           n == [t EXCEPT !.h.npsm = s]
           r == CASE ~NetPort(h) -> t
                  [] NetPort(h) /\ s = Nil -> ReleaseCall(t, IdleCause)
                  [] OTHER -> RemoteEvent(n, m)
<1>1. /\ h.st # "Free" /\ h.q # <<>> /\ m.port = "N" /\ m.sig # "Timeout"
      /\ EndOfTransaction(c, r)
  <2>1. h.q # <<>> /\ m.port = "N" /\ m.sig # "Timeout" /\ EndOfTransaction(c, r)
    BY DEF AnalyzeRemoteMessage, FromNet
  <2>2. h.st # "Free"
    BY <2>1 DEF HalfInv, CallInv, IInv, ContextInv, NoCall
  <2> QED BY <2>1, <2>2
<1>2. /\ m \in Msgs /\ h.model \in {"Obc", "Tbc"}
      /\ Net(c, b, Nil, h.st, h.npsm, h.timer, q)
      /\ Single(q) /\ q \in Seq(Msgs) /\ OnTime(q, h.npsm, h.st)
      /\ h.st # "Ready" => StageOf(h.model, h.npsm, h.st, h.timer)
      /\ h.st = "Ready" => h.npsm = "Idle"
  BY <1>1, BeginServes
<1>3. /\ IsCip(m)
      /\ h.st = "Ready" => h.model = "Tbc" /\ m.sig = "IAM"
  BY <1>1, HandlerBegins DEF IsCip, HalfInv
<1>4. NetPort(h) <=> At(h) # "Idle"
  BY HalfFacts
<1> HIDE DEF b, m, q
<1>5. PICK x : /\ Net(c, t, Nil, h.st, h.npsm, h.timer, x)
               /\ x \in Seq(Msgs) /\ Single(x) /\ Absent(x, "Iam") /\ OnTime(x, h.npsm, h.st)
               /\ \A y, z : Reach(y, q, z) => Reach(y, x, z)
  <2> DEFINE x == RemoveFirst(q, Timeout("Iam"))
             b1 == [b EXCEPT !.h.q = RemoveFirst(@, Timeout("Iam"))]
  <2>1. b.h.npsm = h.npsm /\ b.h.q = q
    BY <1>2 DEF Net
  <2>2. CASE h.npsm # "IamSent"
    <3>1. t = b /\ Absent(q, "Iam")
      BY <1>2, <2>1, <2>2 DEF StopIamTimer, OnTime
    <3> QED BY <1>2, <3>1
  <2>3. CASE h.npsm = "IamSent"
    <3>1. /\ x \in Seq(Msgs) /\ Single(x) /\ Absent(x, "Iam")
          /\ \A y, z : Reach(y, q, z) => Reach(y, x, z)
          /\ \A y : Absent(q, y) => Absent(x, y)
      BY <1>2, RemoveTimeout DEF TimerIds
    <3>2. b1 = [b EXCEPT !.h.q = x]
      BY <2>1
    <3> HIDE DEF x
    <3>3. Net(c, b1, Nil, h.st, h.npsm, h.timer, x)
      BY <1>2, <3>2, NetSteps
    <3>4. t = b1
      BY <2>1, <2>3 DEF StopIamTimer
    <3> HIDE DEF b1
    <3>5. OnTime(x, h.npsm, h.st)
      BY <1>2, <3>1 DEF OnTime
    <3> QED BY <3>1, <3>3, <3>4, <3>5
  <2> QED BY <2>2, <2>3
<1>6. t.h.npsm = h.npsm /\ s = IcNext(h.npsm, m.sig)
  BY <1>5 DEF Net
<1> HIDE DEF t, s
<1>7. Net(c, n, Nil, h.st, s, h.timer, x)
  BY <1>5, NetSteps
<1>8. ASSUME NEW y PROVE OnTime(x, y, h.st)
  BY <1>5 DEF OnTime
<1> HIDE DEF n
<1>9. CASE Offered(h)
  <2>1. h.st = "Ready" /\ h.model = "Tbc" /\ At(h) = "IamRcvd" /\ Rest(h) = q
    BY <1>9 DEF Offered, At, Rest, q
  <2>2. s = "IamRcvd" /\ m.sig = "IAM"
    BY <1>2, <1>3, <1>6, <2>1, IcNextIs
  <2>3. Reach("IamRcvd", x, Due(c))
    BY <1>5, <2>1 DEF HalfInv, PortInv, Ported
  <2>4. Taken(c, "IamRcvd", x)
    BY <1>5, <2>1, <2>3 DEF Taken
  <2>5. Serving(c, n, "IamRcvd", h.timer, x)
    BY <1>5, <1>7, <1>8, <2>2, <2>4 DEF Serving
  <2>6. Ran(c, RemoteEvent(n, m))
    BY <2>1, <2>2, <2>5, PresentRuns DEF RemoteEvent
  <2>7. s # Nil
    BY <2>2, CipAssumption DEF CipStates
  <2> QED BY <1>1, <1>4, <2>1, <2>6, <2>7
<1>10. CASE ~Offered(h)
  <2>1. At(h) = h.npsm /\ Rest(h) = h.q /\ h.st # "Ready"
    BY <1>3, <1>10 DEF At, Rest, Offered
  <2>2. Reach(h.npsm, h.q, Due(c)) /\ h.q \in Seq(Msgs)
    BY <2>1, HalfFacts DEF HalfInv, PortInv, Ported
  <2>3. /\ Received(h.npsm, m) \in CipStates /\ h.npsm # "Idle"
        /\ Reach(Received(h.npsm, m), q, Due(c))
    BY <1>1, <1>3, <2>2, ReachTail DEF m, q
  <2>4. Received(h.npsm, m) = s /\ s # Nil
    BY <1>3, <1>6, <2>3, CipAssumption DEF Received
  <2>5. h.model = "Tbc" => s \in {At(h), "Idle"}
    <3>1. h.model = "Tbc" => h.npsm \in Waiting
      BY <2>1, <2>3, HalfFacts
    <3> QED BY <1>3, <2>3, <2>4, <3>1, WaitingReceives
  <2>6. Taken(c, s, x)
    BY <1>5, <2>1, <2>3, <2>4, <2>5 DEF Taken
  <2>7. Serving(c, n, s, h.timer, x)
    BY <1>5, <1>7, <1>8, <2>6 DEF Serving
  <2>8. Ran(c, RemoteEvent(n, m))
    BY <1>2, <1>6, <2>1, <2>3, <2>4, <2>7, RemoteEventRuns
  <2> QED BY <1>1, <1>4, <2>1, <2>3, <2>4, <2>8
<1> QED BY <1>9, <1>10

\* A timeout on the network side clears the call.
LEMMA TimeoutRuns ==
  ASSUME HalfInv, NEW c \in Contexts, AnalyzeNPsmTimeout(c)
  PROVE  \E t : Ran(c, t) /\ EndOfTransaction(c, t)
<1> DEFINE b == Begin(c)
           h == ctx[c]
           m == Head(h.q)
           q == Tail(h.q)
           r == CASE ~NetPort(h) -> b
                  [] NetPort(h) /\ m.arg = "Iam" -> ReleaseCall(b, IdleCause)
                  [] OTHER -> ClearCall(ClearTimer(b), ToneCause)
<1>1. /\ h.st # "Free" /\ h.q # <<>> /\ m.port = "N" /\ m.sig = "Timeout"
      /\ EndOfTransaction(c, r)
  <2>1. h.q # <<>> /\ m.port = "N" /\ m.sig = "Timeout" /\ EndOfTransaction(c, r)
    BY DEF AnalyzeNPsmTimeout, FromNet
  <2>2. h.st # "Free"
    BY <2>1 DEF HalfInv, CallInv, IInv, ContextInv, NoCall
  <2> QED BY <2>1, <2>2
<1>2. ~IsCip(m) /\ h.st # "Ready"
  BY <1>1, HandlerBegins DEF IsCip, HalfInv
<1>3. /\ Serving(c, b, h.npsm, h.timer, q) /\ h.model \in {"Obc", "Tbc"}
      /\ StageOf(h.model, h.npsm, h.st, h.timer)
  BY <1>1, <1>2, BeginServes
<1> HIDE DEF b, q
<1>4. Ran(c, b)
  BY <1>3, StayRuns
<1>5. Ran(c, ReleaseCall(b, IdleCause))
  BY <1>3, ReleaseCallRuns DEF ToneCause, IdleCause
<1>6. Ran(c, ClearCall(ClearTimer(b), ToneCause))
  BY <1>3, StopTimerServes, ClearCallRuns
<1>7. Ran(c, r)
  BY <1>4, <1>5, <1>6
<1> HIDE DEF r
<1> QED BY <1>1, <1>7

\* Serving a context has one of these outcomes.
LEMMA ProcessWorkRuns ==
  ASSUME HalfInv, NEW c \in Contexts, ProcessWork(c)
  PROVE  /\ \E t : Ran(c, t) /\ EndOfTransaction(c, t)
         /\ ctx[c].q # <<>> /\ ctx[c].st # "Free"
<1>1. \E t : Ran(c, t) /\ EndOfTransaction(c, t)
  BY NuRuns, CiRuns, ScRuns, PcRuns, TaRuns, AcRuns, ExRuns, RemoteRuns, TimeoutRuns
     DEF ProcessWork
<1>2. ctx[c].q # <<>>
  BY DEF ProcessWork, FromUser, FromNet, NuAnalyzeLocalMessage, CiAnalyzeLocalMessage,
         ScAnalyzeLocalMessage, PcAnalyzeLocalMessage, TaAnalyzeLocalMessage,
         AcAnalyzeLocalMessage, ExAnalyzeLocalMessage, AnalyzeRemoteMessage,
         AnalyzeNPsmTimeout
<1>3. ctx[c].st # "Free"
  BY <1>2 DEF HalfInv, CallInv, IInv, ContextInv, NoCall
<1> QED BY <1>1, <1>2, <1>3

-----------------------------------------------------------------------------
(* What the end of a transaction does to the halves.                       *)

\* What a transaction that ran sends, and the state of the PSM that this leaves.
Sent(st, model, npsm, timer, q, ms, x) ==
  \/ /\ st = "Null"
     /\ npsm = "Idle" => ms = <<>>
     /\ npsm # "Idle" => \E cause \in {ToneCause, IdleCause} : ms = <<Cip("REL", cause)>>
  \/ /\ st # "Null" /\ StageOf(model, x, st, timer) /\ OnTime(q, x, st)
     /\ \/ ms = <<>> /\ x = npsm
        \/ /\ model = "Obc" /\ npsm = "Idle" /\ x = "IamSent"
           /\ \E u \in Users : ms = <<Cip("IAM", u)>>
        \/ /\ model = "Tbc"
           /\ \E a \in Answers : a[1] = npsm /\ x = a[3] /\ ms = <<Cip(a[2], Nil)>>

\* What its PSM sends when it ends is so.
LEMMA NetMsgsAre ==
  ASSUME NEW c, NEW t, Ran(c, t)
  PROVE  Sent(t.h.st, ctx[c].model, t.h.npsm, t.h.timer, t.h.q, NetMsgs(t), NetState(t))
<1> DEFINE cip == t.cip
           st == t.h.st
           npsm == t.h.npsm
           model == ctx[c].model
           timer == t.h.timer
           q == t.h.q
           ms == NetMsgs(t)
           x == NetState(t)
           next == OgNext(npsm, cip.sig)
           a == IF cip # Nil /\ next # Nil THEN <<cip>> ELSE <<>>
           b == IF st = "Null" /\ x # "Idle" THEN <<Cip("REL", IdleCause)>> ELSE <<>>
<1>1. ms = a \o b
  BY DEF NetMsgs
<1>2. /\ cip = Nil \/ next = Nil => x = npsm
      /\ cip # Nil /\ next # Nil => x = next
  BY DEF NetState
<1>3. Outcome(cip, st, model, npsm, timer, q)
  BY DEF Ran
<1>4. /\ a = <<>> => ms = b
      /\ b = <<>> => ms = a
  BY <1>1, ConcatEmptySeq
<1>5. Nil \notin CipStates
  BY CipAssumption
<1>6. \A sig \in CipSignals, arg \in Users \cup {ToneCause, IdleCause, Nil} :
        Cip(sig, arg) # Nil /\ Cip(sig, arg).sig = sig
  BY CipAssumption DEF Cip, Msg
<1>7. /\ cip = Nil => a = <<>>
      /\ next = Nil => a = <<>>
      /\ cip # Nil /\ next # Nil => a = <<cip>>
      /\ st # "Null" => b = <<>>
      /\ x = "Idle" => b = <<>>
      /\ st = "Null" /\ x # "Idle" => b = <<Cip("REL", IdleCause)>>
  OBVIOUS
<1> HIDE DEF a, b, x, ms, st, npsm, cip, timer, q, model
<1>8. ASSUME st = "Null", cip = Nil
      PROVE  Sent(st, model, npsm, timer, q, ms, x)
  <2>1. npsm = "Idle" => ms = <<>>
    BY <1>2, <1>4, <1>7, <1>8
  <2>2. npsm # "Idle" => ms = <<Cip("REL", IdleCause)>>
    BY <1>2, <1>4, <1>7, <1>8
  <2> QED BY <1>8, <2>1, <2>2 DEF Sent
<1>9. ASSUME st = "Null", NEW cause \in {ToneCause, IdleCause}, cip = Cip("REL", cause)
      PROVE  Sent(st, model, npsm, timer, q, ms, x)
  <2>1. cip # Nil /\ cip.sig = "REL"
    BY <1>6, <1>9 DEF CipSignals
  <2>2. npsm = "Idle" => next = Nil
    BY <2>1 DEF OgNext, Move
  <2>3. npsm # "Idle" => next = "Idle" /\ next # Nil
    BY <1>5, <2>1, RelIs DEF CipStates
  <2>4. npsm = "Idle" => ms = <<>>
    BY <1>2, <1>4, <1>7, <2>2
  <2>5. npsm # "Idle" => ms = <<Cip("REL", cause)>>
    BY <1>2, <1>4, <1>7, <1>9, <2>1, <2>3
  <2> QED BY <1>9, <2>4, <2>5 DEF Sent
<1>10. ASSUME st # "Null", cip = Nil, StageOf(model, npsm, st, timer), OnTime(q, npsm, st)
       PROVE  Sent(st, model, npsm, timer, q, ms, x)
  <2>1. ms = <<>> /\ x = npsm
    BY <1>2, <1>4, <1>7, <1>10
  <2> QED BY <1>10, <2>1 DEF Sent
<1>11. ASSUME st # "Null", model = "Obc", npsm = "Idle", NEW u \in Users, cip = Cip("IAM", u),
              StageOf(model, "IamSent", st, timer), OnTime(q, "IamSent", st)
       PROVE  Sent(st, model, npsm, timer, q, ms, x)
  <2>1. cip # Nil /\ cip.sig = "IAM"
    BY <1>6, <1>11 DEF CipSignals
  <2>2. next = "IamSent" /\ next # Nil
    BY <1>5, <1>11, <2>1, OgNextIs DEF CipStates
  <2>3. ms = <<Cip("IAM", u)>> /\ x = "IamSent"
    BY <1>2, <1>4, <1>7, <1>11, <2>1, <2>2
  <2> QED BY <1>11, <2>3 DEF Sent
<1>12. ASSUME st # "Null", model = "Tbc", NEW e \in Answers, e[1] = npsm, cip = Cip(e[2], Nil),
              StageOf(model, e[3], st, timer), OnTime(q, e[3], st)
       PROVE  Sent(st, model, npsm, timer, q, ms, x)
  <2>1. e[2] \in CipSignals /\ OgNext(e[1], e[2]) = e[3] /\ e[3] \in CipStates
    BY OgNextIs DEF Answers, CipSignals, CipStates
  <2>2. cip # Nil /\ cip.sig = e[2]
    BY <1>6, <1>12, <2>1
  <2>3. next = e[3] /\ next # Nil
    BY <1>5, <1>12, <2>1, <2>2
  <2>4. ms = <<Cip(e[2], Nil)>> /\ x = e[3]
    BY <1>2, <1>4, <1>7, <1>12, <2>2, <2>3
  <2> QED BY <1>12, <2>4 DEF Sent
<1>13. Sent(st, model, npsm, timer, q, ms, x)
  BY <1>3, <1>8, <1>9, <1>10, <1>11, <1>12 DEF Outcome
<1> QED BY <1>13 DEF ms, x, st, npsm, timer, q, model

\* What a half call is like after a transaction.
LEMMA AfterFields ==
  ASSUME NEW c, NEW t, Ran(c, t), NEW new
  PROVE  LET g == AfterTransaction(t, new)
             x == NetState(t)
         IN /\ t.h.st = "Null" => g = NoCall
            /\ t.h.st # "Null" =>
                 /\ g.st = t.h.st /\ g.model = ctx[c].model /\ g.npsm = x /\ g.timer = t.h.timer
                 /\ g.q = t.h.q
                 /\ x = "Idle" => g.peer = Nil
                 /\ x # "Idle" => g.peer = IF new # Nil THEN new ELSE ctx[c].peer
<1> DEFINE x == NetState(t)
<1>1. HalfForm(t.h) /\ t.h.model = ctx[c].model /\ t.h.peer = ctx[c].peer
  BY DEF Ran, Net, TransForm
<1> HIDE DEF x
<1>2. ASSUME NEW h, HalfForm(h), NEW y, NEW z
      PROVE  LET g == [h EXCEPT !.npsm = y, !.peer = z]
             IN /\ g.st = h.st /\ g.model = h.model /\ g.npsm = y /\ g.timer = h.timer
                /\ g.q = h.q /\ g.peer = z
  BY <1>2 DEF HalfForm
<1>3. t.h.st = "Null" => AfterTransaction(t, new) = NoCall
  BY DEF AfterTransaction
<1>4. t.h.st # "Null" =>
        AfterTransaction(t, new) =
          [t.h EXCEPT !.npsm = x,
                      !.peer = IF x = "Idle" THEN Nil ELSE IF new # Nil THEN new ELSE t.h.peer]
  BY DEF AfterTransaction, x
<1>5. ASSUME t.h.st # "Null"
      PROVE  LET g == AfterTransaction(t, new)
             IN /\ g.st = t.h.st /\ g.model = ctx[c].model /\ g.npsm = x /\ g.timer = t.h.timer
                /\ g.q = t.h.q
                /\ g.peer = IF x = "Idle" THEN Nil ELSE IF new # Nil THEN new ELSE ctx[c].peer
  <2> DEFINE z == IF x = "Idle" THEN Nil ELSE IF new # Nil THEN new ELSE t.h.peer
             g == [t.h EXCEPT !.npsm = x, !.peer = z]
  <2>1. AfterTransaction(t, new) = g
    BY <1>4, <1>5
  <2>2. z = IF x = "Idle" THEN Nil ELSE IF new # Nil THEN new ELSE ctx[c].peer
    BY <1>1
  <2> HIDE DEF z
  <2>3. /\ g.st = t.h.st /\ g.model = t.h.model /\ g.npsm = x /\ g.timer = t.h.timer
        /\ g.q = t.h.q /\ g.peer = z
    BY <1>1, <1>2
  <2> HIDE DEF g
  <2> QED BY <1>1, <2>1, <2>2, <2>3
<1> QED BY <1>3, <1>5 DEF x

\* A message that is added to the queue of a half call with a port.
LEMMA QueueOnIs ==
  ASSUME HalfInv, NEW d \in Contexts, NEW m \in Msgs
  PROVE  LET h == ctx[d]
             g == [h EXCEPT !.q = @ \o <<m>>]
         IN /\ g.st = h.st /\ g.model = h.model /\ g.npsm = h.npsm /\ g.timer = h.timer
            /\ g.peer = h.peer /\ At(g) = At(h) /\ g.q = Append(h.q, m)
            /\ Rest(g) = Append(Rest(h), m)
<1> DEFINE h == ctx[d]
           g == [h EXCEPT !.q = @ \o <<m>>]
<1>1. h.q \in Seq(Msgs) /\ HalfForm(h) /\ (Offered(h) => h.q # <<>>)
  BY HalfFacts
<1> HIDE DEF h
<1>2. /\ g.st = h.st /\ g.model = h.model /\ g.npsm = h.npsm /\ g.timer = h.timer
      /\ g.peer = h.peer /\ g.q = h.q \o <<m>>
  BY <1>1 DEF HalfForm
<1> HIDE DEF g
<1>3. g.q = Append(h.q, m)
  BY <1>1, <1>2, AppendIsConcat
<1>4. (Offered(g) <=> Offered(h)) /\ At(g) = At(h)
  BY <1>2 DEF Offered, At
<1>5. h.q # <<>> => Tail(Append(h.q, m)) = Append(Tail(h.q), m)
  BY <1>1, HeadTailAppend
<1>6. Rest(g) = Append(Rest(h), m)
  BY <1>1, <1>3, <1>4, <1>5 DEF Rest
<1> QED BY <1>2, <1>3, <1>4, <1>6 DEF g, h

\* A half call that was just created.
LEMMA TbcHalf ==
  ASSUME NEW c, NEW m
  PROVE  LET g == Tbc(c, m)
         IN /\ g.st = "Ready" /\ g.model = "Tbc" /\ g.npsm = "Idle" /\ g.timer = Nil
            /\ g.q = <<m>> /\ g.peer = c /\ At(g) = "IamRcvd" /\ Rest(g) = <<>>
<1> DEFINE g == Tbc(c, m)
<1>1. /\ g.st = "Ready" /\ g.model = "Tbc" /\ g.npsm = "Idle" /\ g.timer = Nil
      /\ g.q = <<m>> /\ g.peer = c
  BY TbcIs, TbcIsForm
<1> HIDE DEF g
<1>2. Tail(<<m>>) = <<>>
  OBVIOUS
<1>3. At(g) = "IamRcvd" /\ Rest(g) = <<>>
  BY <1>1, <1>2 DEF At, Rest, Offered
<1> QED BY <1>1, <1>3 DEF g

\* What the end of a transaction does to contexts.
LEMMA EndIs ==
  ASSUME HalfInv, NEW c \in Contexts, ctx[c].st # "Free", NEW t, Ran(c, t),
         EndOfTransaction(c, t)
  PROVE  LET ms  == NetMsgs(t)
             iam == ms # <<>> /\ ms[1].sig = "IAM"
             new == IF iam THEN NewContext ELSE Nil
         IN /\ iam => new \in Unused /\ new # c
            /\ ctx'[c] = AfterTransaction(t, new)
            /\ \A d \in Contexts \ {c} :
                 ctx'[d] = IF iam /\ d = new THEN Tbc(c, ms[1])
                           ELSE IF ~iam /\ ms # <<>> /\ Joined(c) /\ d = ctx[c].peer
                                  THEN [ctx[d] EXCEPT !.q = @ \o ms]
                                  ELSE ctx[d]
<1> DEFINE ms  == NetMsgs(t)
           iam == ms # <<>> /\ ms[1].sig = "IAM"
           new == IF iam THEN NewContext ELSE Nil
           p   == t.h.peer
           h   == AfterTransaction(t, new)
           mine == [ctx EXCEPT ![c] = h]
           Queued == ~iam /\ ms # <<>> /\ p # Nil /\ ctx[p].peer = c /\ NetPort(ctx[p])
<1>1. iam => new \in Unused /\ new \in Contexts /\ new # c
  <2>1. iam => Unused # {}
    BY DEF EndOfTransaction
  <2>2. iam => new \in Unused
    BY <2>1 DEF NewContext
  <2> QED BY <2>2 DEF Unused
<1>2. ctx' = CASE iam -> [mine EXCEPT ![new] = Tbc(c, ms[1])]
               [] Queued -> [mine EXCEPT ![p].q = @ \o ms]
               [] OTHER -> mine
  BY DEF EndOfTransaction
<1>3. p = ctx[c].peer
  BY DEF Ran, Net
<1>4. Joined(c) <=> p # Nil /\ ctx[p].peer = c
  BY <1>3 DEF Joined
<1>5. Joined(c) => NetPort(ctx[p]) /\ p # c /\ p \in Contexts
  BY <1>3, JoinedFacts, HalfFacts
<1>6. Queued <=> ~iam /\ ms # <<>> /\ Joined(c)
  BY <1>4, <1>5
<1>7. ctx = [d \in Contexts |-> ctx[d]]
  BY DEF HalfInv, CallInv, IInv, FormInv
<1>8. h = AfterTransaction(t, new)
  OBVIOUS
<1> HIDE DEF h, ms, new, p, Queued
<1>9. CASE iam
  <2> DEFINE k == Tbc(c, ms[1])
  <2> HIDE DEF iam, mine
  <2>1. ctx' = [mine EXCEPT ![new] = k]
    BY <1>2, <1>6, <1>9
  <2> HIDE DEF k
  <2>2. /\ ctx'[c] = h
        /\ \A d \in Contexts \ {c} : ctx'[d] = IF d = new THEN k ELSE ctx[d]
    BY <1>1, <1>7, <1>9, <2>1 DEF mine
  <2>3. ASSUME NEW d \in Contexts \ {c}
        PROVE  ctx'[d] = IF iam /\ d = new THEN Tbc(c, ms[1])
                         ELSE IF ~iam /\ ms # <<>> /\ Joined(c) /\ d = p
                                THEN [ctx[d] EXCEPT !.q = @ \o ms]
                                ELSE ctx[d]
    BY <1>9, <2>2 DEF k
  <2>4. (iam => new \in Unused /\ new # c) /\ ctx'[c] = AfterTransaction(t, new)
    BY <1>1, <1>8, <2>2
  <2> QED BY <1>3, <2>3, <2>4 DEF iam, ms, new
<1>10. CASE ~iam /\ ms # <<>> /\ Joined(c)
  <2>1. ctx' = [mine EXCEPT ![p].q = @ \o ms]
    BY <1>2, <1>6, <1>10
  <2>2. /\ ctx'[c] = h
        /\ \A d \in Contexts \ {c} : ctx'[d] = IF d = p THEN [ctx[d] EXCEPT !.q = @ \o ms] ELSE ctx[d]
    BY <1>5, <1>7, <1>10, <2>1
  <2> QED BY <1>3, <1>8, <1>10, <2>2 DEF ms, new
<1>11. CASE ~iam /\ ~(ms # <<>> /\ Joined(c))
  <2>1. ctx' = mine
    BY <1>2, <1>6, <1>11
  <2>2. ctx'[c] = h /\ \A d \in Contexts \ {c} : ctx'[d] = ctx[d]
    BY <1>7, <2>1
  <2> QED BY <1>8, <1>11, <2>2 DEF ms, new
<1> QED BY <1>9, <1>10, <1>11

-----------------------------------------------------------------------------
(* The halves stay in step at the end of a transaction.                    *)

\* Two states of a half call that are alike for the other half.
Alike(g, h) == g.peer = h.peer /\ g.model = h.model /\ At(g) = At(h)

\* A half call that keeps its port, as the other half does.
LEMMA PortKept ==
  ASSUME HalfInv, NEW d \in Contexts,
         ctx'[d].peer = ctx[d].peer, At(ctx'[d]) = "Idle" <=> At(ctx[d]) = "Idle",
         Reach(At(ctx'[d]), Rest(ctx'[d]), Due(d)),
         ctx[d].peer # Nil => (ctx'[ctx[d].peer].peer = d <=> ctx[ctx[d].peer].peer = d),
         Joined(d) => /\ ctx'[d].model = ctx[d].model
                      /\ ctx[d].model = "Tbc" => At(ctx'[d]) = At(ctx[d])
                      /\ LET p == ctx[d].peer
                         IN /\ ctx'[p].model = ctx[p].model
                            /\ ctx[p].model = "Tbc" => At(ctx'[p]) = At(ctx[p])
  PROVE  Ported(d)'
<1> DEFINE p == ctx[d].peer
<1>1. /\ p \in Contexts \cup {Nil} /\ (p = Nil <=> At(ctx[d]) = "Idle")
      /\ Joined(d) => ctx[p].model # ctx[d].model
  BY DEF HalfInv, PortInv, Ported
<1>2. Joined(d) => \/ ctx[d].model = "Obc" /\ ctx[p].model = "Tbc"
                   \/ ctx[d].model = "Tbc" /\ ctx[p].model = "Obc"
  BY JoinedFacts
<1>3. ctx'[d].peer = p
  OBVIOUS
<1>4. Joined(d)' <=> Joined(d)
  BY <1>3 DEF Joined
<1>5. Due(d)' = Due(d)
  <2>1. CASE ~Joined(d)
    BY <1>4, <2>1 DEF Due
  <2>2. CASE Joined(d) /\ ctx[d].model = "Obc" /\ ctx[p].model = "Tbc"
    <3>1. ctx'[d].model = "Obc" /\ At(ctx'[p]) = At(ctx[p])
      BY <2>2
    <3>2. Due(d) = Mirror(At(ctx[p]))
      BY <2>2 DEF Due
    <3>3. Due(d)' = Mirror(At(ctx'[p]))
      BY <1>3, <1>4, <2>2, <3>1 DEF Due
    <3> QED BY <3>1, <3>2, <3>3
  <2>3. CASE Joined(d) /\ ctx[d].model = "Tbc"
    <3>1. ctx'[d].model = "Tbc" /\ At(ctx'[d]) = At(ctx[d])
      BY <2>3
    <3> QED BY <1>4, <2>3, <3>1 DEF Due
  <2> QED BY <1>2, <2>1, <2>2, <2>3
<1>6. Joined(d)' => ctx'[p].model # ctx'[d].model
  BY <1>1, <1>4
<1> QED BY <1>1, <1>3, <1>5, <1>6 DEF Ported

\* A half call that does not change when context c does, and possibly the one that
\* c refers to.
LEMMA OtherPorted ==
  ASSUME HalfInv, NEW c \in Contexts, NEW d \in Contexts \ {c}, ctx'[d] = ctx[d],
         ctx[d].peer \in Contexts \ {c} => Alike(ctx'[ctx[d].peer], ctx[ctx[d].peer]),
         ctx[d].peer = c =>
           /\ ctx'[c].peer = d <=> ctx[c].peer = d
           /\ ctx[c].peer = d => /\ ctx'[c].model = ctx[c].model
                                 /\ ctx[c].model = "Tbc" => At(ctx'[c]) = At(ctx[c])
  PROVE  Ported(d)'
<1> DEFINE p == ctx[d].peer
<1>1. p \in Contexts \cup {Nil} /\ Reach(At(ctx[d]), Rest(ctx[d]), Due(d))
  BY DEF HalfInv, PortInv, Ported
<1>2. p # Nil => (ctx'[p].peer = d <=> ctx[p].peer = d)
  BY <1>1 DEF Alike
<1>3. Joined(d) => ctx[p].peer = d /\ p \in Contexts
  BY <1>1 DEF Joined
<1>4. Joined(d) => /\ ctx'[p].model = ctx[p].model
                   /\ ctx[p].model = "Tbc" => At(ctx'[p]) = At(ctx[p])
  BY <1>3 DEF Alike
<1> QED BY <1>1, <1>2, <1>4, PortKept

\* One that is joined to c is the one that c refers to.
LEMMA PeerIs ==
  ASSUME NEW c \in Contexts, NEW d \in Contexts \ {c}, ctx[d].peer = c, ctx[c].peer = d
  PROVE  Joined(c) /\ Joined(d)
  BY CallAssumption DEF Joined

\* A half call that ends releases the other,
LEMMA EndPorted ==
  ASSUME HalfInv, NEW c \in Contexts, NEW ms,
         ctx'[c] = NoCall,
         Joined(c) => \E cause \in {ToneCause, IdleCause} : ms = <<Cip("REL", cause)>>,
         \A d \in Contexts \ {c} :
           ctx'[d] = IF Joined(c) /\ d = ctx[c].peer THEN [ctx[d] EXCEPT !.q = @ \o ms]
                                                     ELSE ctx[d]
  PROVE  PortInv'
<1>1. /\ At(NoCall) = "Idle" /\ Rest(NoCall) = <<>> /\ NoCall.peer = Nil /\ Nil \notin Contexts
  BY CallAssumption DEF NoCall, At, Rest, Offered
<1>2. Ported(c)'
  <2>1. ~Joined(c)'
    BY <1>1 DEF Joined
  <2>2. Due(c)' = "Idle"
    BY <2>1 DEF Due
  <2>3. Reach("Idle", <<>>, "Idle")
    BY ReachEmpty DEF CipStates
  <2> QED BY <1>1, <2>1, <2>2, <2>3 DEF Ported
<1>3. ASSUME Joined(c), NEW p \in Contexts, p = ctx[c].peer
      PROVE  Ported(p)' /\ Alike(ctx'[p], ctx[p])
  <2>1. PICK cause \in {ToneCause, IdleCause} : ms = <<Cip("REL", cause)>>
    BY <1>3
  <2> DEFINE m == Cip("REL", cause)
             g == [ctx[p] EXCEPT !.q = @ \o <<m>>]
  <2>2. m \in CipMsgs /\ m \in Msgs /\ m.sig = "REL"
    BY DEF CipMsgs, Msgs, Cip, Msg
  <2>3. IsCip(m)
    BY <2>2, CipMsgFacts
  <2> HIDE DEF m
  <2>4. p # c /\ Joined(p) /\ ctx[p].peer = c /\ At(ctx[p]) # "Idle"
    BY <1>3, JoinedFacts
  <2>5. ctx'[p] = g
    BY <1>3, <2>1, <2>4 DEF m
  <2>6. /\ g.model = ctx[p].model /\ g.peer = ctx[p].peer /\ At(g) = At(ctx[p])
        /\ Rest(g) = Append(Rest(ctx[p]), m)
    BY <2>2, <2>4, QueueOnIs
  <2> HIDE DEF g
  <2>7. ctx'[p].peer = c /\ ~Joined(p)'
    BY <1>1, <2>4, <2>5, <2>6 DEF Joined
  <2>8. Due(p)' = "Idle"
    BY <2>7 DEF Due
  <2>9. Rest(ctx[p]) \in Seq(Msgs) /\ Reach(At(ctx[p]), Rest(ctx[p]), Due(p)) /\ Due(p) # "Idle"
    BY <2>4, HalfFacts, JoinedFacts DEF HalfInv, PortInv, Ported
  <2>10. Due(p) \in CipStates /\ Due(p) # Nil
    <3>1. PICK f : Path(At(ctx[p]), Rest(ctx[p]), f) /\ f[Len(Rest(ctx[p]))] = Due(p)
      BY <2>9 DEF Reach
    <3>2. Len(Rest(ctx[p])) \in Nat
      BY <2>9, LenProperties
    <3> QED BY <3>1, <3>2, CipAssumption DEF Path
  <2>11. Received(Due(p), m) = "Idle"
    BY <2>2, <2>3, <2>9, <2>10, RelIs DEF Received
  <2>12. Received(Due(p), m) \in CipStates
    BY <2>11 DEF CipStates
  <2>13. Reach(At(ctx[p]), Append(Rest(ctx[p]), m), Received(Due(p), m))
    BY <2>2, <2>9, <2>12, ReachAppend
  <2>14. Ported(p)'
    BY <1>1, <2>4, <2>5, <2>6, <2>7, <2>8, <2>11, <2>13 DEF Ported
  <2> QED BY <2>5, <2>6, <2>14 DEF Alike
<1>4. ASSUME NEW d \in Contexts \ {c}, ~(Joined(c) /\ d = ctx[c].peer)
      PROVE  Ported(d)'
  <2>1. ctx'[d] = ctx[d]
    BY <1>4
  <2>2. ASSUME ctx[d].peer \in Contexts \ {c}
        PROVE  Alike(ctx'[ctx[d].peer], ctx[ctx[d].peer])
    BY <1>3, <1>4, <2>2 DEF Alike
  <2>3. ASSUME ctx[d].peer = c PROVE ctx'[c].peer # d /\ ctx[c].peer # d
    BY <1>1, <1>4, <2>3, PeerIs
  <2> QED BY <2>1, <2>2, <2>3, OtherPorted
<1> QED BY <1>2, <1>3, <1>4 DEF PortInv

\* one that sends nothing keeps its port unless the other released it,
LEMMA StayPorted ==
  ASSUME HalfInv, NEW c \in Contexts, NEW npsm, NEW q, Taken(c, npsm, q),
         At(ctx'[c]) = npsm, Rest(ctx'[c]) = q, ctx'[c].model = ctx[c].model,
         ctx'[c].peer = IF npsm = "Idle" THEN Nil ELSE ctx[c].peer,
         \A d \in Contexts \ {c} : ctx'[d] = ctx[d]
  PROVE  PortInv'
<1>1. /\ q \in Seq(Msgs) /\ Reach(npsm, q, Due(c)) /\ (At(ctx[c]) = "Idle" => npsm = "Idle")
      /\ ctx[c].model = "Tbc" => npsm \in {At(ctx[c]), "Idle"}
      /\ Nil \notin Contexts
  BY CallAssumption DEF Taken
<1>2. CASE npsm = "Idle"
  <2>1. ~Joined(c) /\ Due(c) = "Idle"
    BY <1>1, <1>2, ReachIdle, JoinedFacts
  <2>2. ~Joined(c)'
    BY <1>2 DEF Joined
  <2>3. Ported(c)'
    <3>1. Due(c)' = "Idle"
      BY <2>2 DEF Due
    <3> QED BY <1>1, <1>2, <2>1, <2>2, <3>1 DEF Ported
  <2>4. ASSUME NEW d \in Contexts \ {c} PROVE Ported(d)'
    <3>1. ctx[d].peer = c => ctx'[c].peer # d /\ ctx[c].peer # d
      BY <1>1, <1>2, <2>1, PeerIs
    <3> QED BY <3>1, OtherPorted DEF Alike
  <2> QED BY <2>3, <2>4 DEF PortInv
<1>3. CASE npsm # "Idle"
  <2>1. ctx'[c].peer = ctx[c].peer
    BY <1>3
  <2>2. ASSUME NEW d \in Contexts \ {c} PROVE Ported(d)'
    <3>1. ctx[c].model = "Tbc" => At(ctx'[c]) = At(ctx[c])
      BY <1>1, <1>3
    <3> QED BY <2>1, <3>1, OtherPorted DEF Alike
  <2>3. Ported(c)'
    <3> DEFINE p == ctx[c].peer
    <3>1. Joined(c) => ctx'[p] = ctx[p]
      BY JoinedFacts
    <3>2. p # Nil => (ctx'[p].peer = c <=> ctx[p].peer = c)
      <4>1. p # Nil => p \in Contexts
        BY JoinedFacts
      <4>2. p # c \/ p = Nil
        BY DEF HalfInv, CallInv, IInv, ContextInv
      <4> QED BY <4>1, <4>2
    <3>3. ctx[c].model = "Tbc" => At(ctx'[c]) = At(ctx[c])
      BY <1>1, <1>3
    <3>4. At(ctx'[c]) = "Idle" <=> At(ctx[c]) = "Idle"
      BY <1>1, <1>3
    <3>5. Reach(At(ctx'[c]), Rest(ctx'[c]), Due(c))
      BY <1>1
    <3> HIDE DEF p
    <3> QED BY <2>1, <3>1, <3>2, <3>3, <3>4, <3>5, PortKept DEF p
  <2> QED BY <2>2, <2>3 DEF PortInv
<1> QED BY <1>2, <1>3

\* one that sends an IAM creates the other,
LEMMA IamPorted ==
  ASSUME HalfInv, NEW c \in Contexts, NEW q, Taken(c, "Idle", q), NEW new \in Unused, new # c,
         NEW m, ctx'[new] = Tbc(c, m),
         At(ctx'[c]) = "IamSent", Rest(ctx'[c]) = q, ctx'[c].model = "Obc", ctx'[c].peer = new,
         \A d \in Contexts \ {c, new} : ctx'[d] = ctx[d]
  PROVE  PortInv'
<1> DEFINE n == Tbc(c, m)
<1>1. /\ q \in Seq(Msgs) /\ Reach("Idle", q, Due(c)) /\ Nil \notin Contexts
      /\ new \in Contexts /\ \A d \in Contexts : ctx[d].peer # new
  BY CallAssumption DEF Taken, Unused
<1>2. Due(c) = "Idle" /\ Quiet(q)
  BY <1>1, ReachIdle
<1>3. ~Joined(c)
  BY <1>2, JoinedFacts
<1>4. n.model = "Tbc" /\ n.peer = c /\ At(n) = "IamRcvd" /\ Rest(n) = <<>>
  BY TbcHalf
<1> HIDE DEF n
<1>5. ctx'[new] = n
  BY DEF n
<1>6. Joined(c)' /\ Joined(new)'
  BY <1>1, <1>4, <1>5 DEF Joined
<1>7. Due(c)' = "IamSent" /\ Due(new)' = "IamRcvd"
  <2>1. Due(c)' = Mirror("IamRcvd")
    BY <1>4, <1>5, <1>6 DEF Due
  <2>2. Due(new)' = "IamRcvd"
    BY <1>4, <1>5, <1>6 DEF Due
  <2> QED BY <2>1, <2>2 DEF Mirror
<1>8. Ported(c)'
  <2>1. Reach("IamSent", q, "IamSent")
    BY <1>1, <1>2, ReachQuiet DEF CipStates
  <2> QED BY <1>1, <1>4, <1>5, <1>6, <1>7, <2>1 DEF Ported
<1>9. Ported(new)'
  <2>1. Reach("IamRcvd", <<>>, "IamRcvd")
    BY ReachEmpty DEF CipStates
  <2> QED BY <1>1, <1>4, <1>5, <1>6, <1>7, <2>1 DEF Ported
<1>10. ASSUME NEW d \in Contexts \ {c, new} PROVE Ported(d)'
  <2>1. ctx[d].peer # new /\ ctx'[d] = ctx[d]
    BY <1>1
  <2>2. ctx[d].peer = c => ctx'[c].peer # d /\ ctx[c].peer # d
    BY <1>3, PeerIs
  <2>3. ctx[d].peer \in Contexts \ {c} => Alike(ctx'[ctx[d].peer], ctx[ctx[d].peer])
    BY <2>1 DEF Alike
  <2> QED BY <2>1, <2>2, <2>3, OtherPorted
<1> QED BY <1>8, <1>9, <1>10 DEF PortInv

\* and one that answers tells the other.
LEMMA AnswerPorted ==
  ASSUME HalfInv, NEW c \in Contexts, ctx[c].model = "Tbc", NEW a \in Answers, NEW q,
         Taken(c, a[1], q), At(ctx'[c]) = a[3], Rest(ctx'[c]) = q, ctx'[c].model = "Tbc",
         ctx'[c].peer = ctx[c].peer,
         \A d \in Contexts \ {c} :
           ctx'[d] = IF Joined(c) /\ d = ctx[c].peer
                       THEN [ctx[d] EXCEPT !.q = @ \o <<Cip(a[2], Nil)>>] ELSE ctx[d]
  PROVE  PortInv'
<1> DEFINE p == ctx[c].peer
           m == Cip(a[2], Nil)
<1>1. /\ a[1] \in Waiting /\ a[3] \in Waiting /\ a[1] # "Idle" /\ a[3] # "Idle"
      /\ a[2] \in {"EOS", "ALT", "ANM", "SUS", "RES"}
      /\ IcNext(Mirror(a[1]), a[2]) = Mirror(a[3])
      /\ Mirror(a[1]) # "Idle" /\ Mirror(a[1]) \in CipStates /\ Mirror(a[3]) \in CipStates
  BY IcNextIs DEF Answers, Waiting, Mirror, CipStates
<1>2. q \in Seq(Msgs) /\ Reach(a[1], q, Due(c)) /\ At(ctx[c]) = a[1]
  BY <1>1 DEF Taken
<1>3. Due(c) = IF Joined(c) THEN a[1] ELSE "Idle"
  BY <1>2 DEF Due
<1>4. Reach(a[3], q, IF Joined(c) THEN a[3] ELSE "Idle")
  <2>1. Reach(a[3], q, IF Due(c) = a[1] THEN a[3] ELSE "Idle")
    BY <1>1, <1>2, ReachWaiting
  <2> QED BY <1>1, <1>3, <2>1
<1>5. /\ p # Nil /\ p \in Contexts /\ p # c /\ Nil \notin Contexts
  <2>1. p # Nil
    BY <1>1, <1>2 DEF HalfInv, PortInv, Ported
  <2>2. p # c
    BY <2>1 DEF HalfInv, CallInv, IInv, ContextInv
  <2> QED BY <2>1, <2>2, JoinedFacts, CallAssumption
<1>6. m \in CipMsgs /\ m \in Msgs /\ m.sig = a[2] /\ IsCip(m)
  <2>1. m \in CipMsgs /\ m \in Msgs /\ m.sig = a[2]
    BY <1>1 DEF CipMsgs, Msgs, Cip, Msg
  <2> QED BY <2>1, CipMsgFacts
<1> HIDE DEF m
<1>7. Alike(ctx'[p], ctx[p]) /\ (Joined(c) => Rest(ctx'[p]) = Append(Rest(ctx[p]), m))
  <2> DEFINE g == [ctx[p] EXCEPT !.q = @ \o <<m>>]
  <2>1. /\ g.model = ctx[p].model /\ g.peer = ctx[p].peer /\ At(g) = At(ctx[p])
        /\ Rest(g) = Append(Rest(ctx[p]), m)
    BY <1>5, <1>6, QueueOnIs
  <2>2. ctx'[p] = IF Joined(c) THEN g ELSE ctx[p]
    BY <1>5 DEF m
  <2> HIDE DEF g
  <2> QED BY <2>1, <2>2 DEF Alike
<1>8. Joined(c)' <=> Joined(c)
  BY <1>7 DEF Alike, Joined
<1>9. Ported(c)'
  <2>1. Due(c)' = IF Joined(c) THEN a[3] ELSE "Idle"
    BY <1>8 DEF Due
  <2>2. Joined(c) => ctx[p].model # ctx[c].model
    BY DEF HalfInv, PortInv, Ported
  <2> QED BY <1>1, <1>4, <1>5, <1>7, <1>8, <2>1, <2>2 DEF Ported, Alike
<1>10. ASSUME Joined(c), NEW d \in Contexts, d = p PROVE Ported(d)'
  <2>1. /\ Joined(d) /\ ctx[d].peer = c /\ ctx[d].model = "Obc" /\ At(ctx[d]) # "Idle"
    BY <1>10, JoinedFacts
  <2>2. Due(d) = Mirror(a[1])
    BY <1>2, <2>1 DEF Due
  <2>3. /\ ctx'[d].peer = c /\ ctx'[d].model = "Obc" /\ At(ctx'[d]) = At(ctx[d])
        /\ Rest(ctx'[d]) = Append(Rest(ctx[d]), m) /\ ctx'[c].peer = d
    BY <1>7, <1>10, <2>1 DEF Alike
  <2>4. Joined(d)' /\ Due(d)' = Mirror(a[3])
    <3>1. Joined(d)'
      BY <1>5, <2>3 DEF Joined
    <3> QED BY <2>3, <3>1 DEF Due
  <2>5. Rest(ctx[d]) \in Seq(Msgs) /\ Reach(At(ctx[d]), Rest(ctx[d]), Mirror(a[1]))
    BY <2>2, HalfFacts DEF HalfInv, PortInv, Ported
  <2>6. Received(Mirror(a[1]), m) = Mirror(a[3])
    BY <1>1, <1>6, CipAssumption DEF Received
  <2>7. Reach(At(ctx[d]), Append(Rest(ctx[d]), m), Received(Mirror(a[1]), m))
    BY <1>1, <1>6, <2>5, <2>6, ReachAppend
  <2>8. Reach(At(ctx'[d]), Rest(ctx'[d]), Due(d)')
    BY <2>3, <2>4, <2>6, <2>7
  <2>9. ctx'[d].peer = Nil <=> At(ctx'[d]) = "Idle"
    BY <1>5, <2>1, <2>3
  <2> QED BY <2>3, <2>8, <2>9 DEF Ported
<1>11. ASSUME NEW d \in Contexts \ {c}, ~(Joined(c) /\ d = p)
       PROVE  Ported(d)'
  <2>1. ctx'[d] = ctx[d]
    BY <1>11
  <2>2. ASSUME ctx[d].peer \in Contexts \ {c}
        PROVE  Alike(ctx'[ctx[d].peer], ctx[ctx[d].peer])
    BY <1>7, <2>2 DEF Alike
  <2>3. ctx[d].peer = c => ctx[c].peer # d
    BY <1>11, PeerIs
  <2> QED BY <2>1, <2>2, <2>3, OtherPorted
<1> QED BY <1>9, <1>10, <1>11 DEF PortInv

-----------------------------------------------------------------------------
\* What a transaction that ran leaves, by what it sends.
EndSent(c, t) ==
  LET st == t.h.st
      x == NetState(t)
      q == t.h.q
      g == ctx'[c]
      ms == NetMsgs(t)
  IN /\ st = "Null" => g = NoCall
     /\ st # "Null" => /\ g.st = st /\ g.model = ctx[c].model /\ g.npsm = x /\ g.timer = t.h.timer
                       /\ g.q = q /\ At(g) = x /\ Rest(g) = q
                       /\ StageOf(g.model, x, st, t.h.timer) /\ OnTime(q, x, st)
                       /\ x = "Idle" => g.peer = Nil

\* It leaves that.
LEMMA EndLeaves ==
  ASSUME HalfInv, NEW c \in Contexts, ctx[c].st # "Free", NEW t, Ran(c, t),
         EndOfTransaction(c, t)
  PROVE  EndSent(c, t)
<1>1. PICK new : ctx'[c] = AfterTransaction(t, new)
  BY EndIs
<1>2. Sent(t.h.st, ctx[c].model, t.h.npsm, t.h.timer, t.h.q, NetMsgs(t), NetState(t))
  BY NetMsgsAre
<1> DEFINE g == ctx'[c]
           st == t.h.st
           x == NetState(t)
<1>3. /\ st = "Null" => g = NoCall
      /\ st # "Null" =>
           /\ g.st = st /\ g.model = ctx[c].model /\ g.npsm = x /\ g.timer = t.h.timer
           /\ g.q = t.h.q /\ (x = "Idle" => g.peer = Nil)
  BY <1>1, AfterFields
<1>4. st # "Null" => StageOf(ctx[c].model, x, st, t.h.timer) /\ OnTime(t.h.q, x, st)
  BY <1>2 DEF Sent
<1>5. st # "Null" => st # "Ready"
  BY <1>4 DEF StageOf, Stages
<1> HIDE DEF g, st, x
<1>6. st # "Null" => At(g) = x /\ Rest(g) = t.h.q
  BY <1>3, <1>5 DEF At, Rest, Offered
<1> QED BY <1>3, <1>4, <1>6 DEF EndSent, g, st, x

\* The end of a transaction keeps the halves together,
LEMMA EndKeepsPort ==
  ASSUME HalfInv, NEW c \in Contexts, ctx[c].st # "Free", NEW t, Ran(c, t),
         EndOfTransaction(c, t)
  PROVE  PortInv'
<1> DEFINE st == t.h.st
           x == NetState(t)
           q == t.h.q
           npsm == t.h.npsm
           model == ctx[c].model
           ms == NetMsgs(t)
           iam == ms # <<>> /\ ms[1].sig = "IAM"
           new == IF iam THEN NewContext ELSE Nil
<1>1. /\ iam => new \in Unused /\ new # c
      /\ ctx'[c] = AfterTransaction(t, new)
      /\ \A d \in Contexts \ {c} :
           ctx'[d] = IF iam /\ d = new THEN Tbc(c, ms[1])
                     ELSE IF ~iam /\ ms # <<>> /\ Joined(c) /\ d = ctx[c].peer
                            THEN [ctx[d] EXCEPT !.q = @ \o ms]
                            ELSE ctx[d]
  BY EndIs
<1>2. Sent(st, model, npsm, t.h.timer, q, ms, x)
  BY NetMsgsAre
<1>3. Taken(c, npsm, q)
  BY DEF Ran
<1>4. /\ st = "Null" => ctx'[c] = NoCall
      /\ st # "Null" => At(ctx'[c]) = x /\ Rest(ctx'[c]) = q /\ ctx'[c].model = model
  BY EndLeaves DEF EndSent
<1>5. st # "Null" => ctx'[c].peer = IF x = "Idle" THEN Nil ELSE IF new # Nil THEN new ELSE ctx[c].peer
  BY <1>1, AfterFields
<1>6. \A sig, arg : <<Cip(sig, arg)>> # <<>> /\ <<Cip(sig, arg)>>[1].sig = sig
  BY DEF Cip, Msg
<1>7. new \notin Unused => new = Nil
  BY <1>1
<1>8. \A d \in Unused : d # Nil
  BY CallAssumption DEF Unused
<1> HIDE DEF st, x, q, npsm, model, ms, new
<1>9. CASE st = "Null"
  <2>1. Joined(c) => npsm # "Idle"
    BY <1>3, ReachIdle, JoinedFacts DEF Taken
  <2>2. /\ npsm = "Idle" => ms = <<>>
        /\ npsm # "Idle" => \E cause \in {ToneCause, IdleCause} : ms = <<Cip("REL", cause)>>
    BY <1>2, <1>9 DEF Sent
  <2>3. ~iam
    BY <1>6, <2>2
  <2>4. \A d \in Contexts \ {c} :
          ctx'[d] = IF Joined(c) /\ d = ctx[c].peer THEN [ctx[d] EXCEPT !.q = @ \o ms]
                                                    ELSE ctx[d]
    <3>1. Joined(c) => ms # <<>>
      BY <1>6, <2>1, <2>2
    <3> QED BY <1>1, <2>3, <3>1
  <2> QED BY <1>4, <1>9, <2>1, <2>2, <2>4, EndPorted
<1>10. ASSUME st # "Null", ms = <<>>, x = npsm PROVE PortInv'
  <2>1. new = Nil /\ \A d \in Contexts \ {c} : ctx'[d] = ctx[d]
    BY <1>1, <1>10 DEF new
  <2>2. ctx'[c].peer = IF npsm = "Idle" THEN Nil ELSE ctx[c].peer
    BY <1>5, <1>10, <2>1
  <2> QED BY <1>3, <1>4, <1>10, <2>1, <2>2, StayPorted DEF model
<1>11. ASSUME st # "Null", model = "Obc", npsm = "Idle", x = "IamSent",
              NEW u \in Users, ms = <<Cip("IAM", u)>>
       PROVE  PortInv'
  <2>1. iam
    BY <1>6, <1>11
  <2>2. new \in Unused /\ new # c /\ new # Nil /\ new \in Contexts
    BY <1>1, <1>8, <2>1 DEF Unused
  <2>3. ctx'[new] = Tbc(c, ms[1]) /\ \A d \in Contexts \ {c, new} : ctx'[d] = ctx[d]
    BY <1>1, <2>1, <2>2
  <2>4. ctx'[c].peer = new
    BY <1>5, <1>11, <2>2
  <2>5. PICK n \in Unused : n = new
    BY <2>2
  <2>6. ctx'[n] = Tbc(c, ms[1]) /\ ctx'[c].peer = n /\ n # c
        /\ \A d \in Contexts \ {c, n} : ctx'[d] = ctx[d]
    BY <2>2, <2>3, <2>4, <2>5
  <2> QED BY <1>3, <1>4, <1>11, <2>6, IamPorted
<1>12. ASSUME st # "Null", model = "Tbc", NEW a \in Answers, a[1] = npsm, x = a[3],
              ms = <<Cip(a[2], Nil)>>
       PROVE  PortInv'
  <2>1. a[2] # "IAM" /\ a[3] # "Idle"
    BY DEF Answers
  <2>2. ~iam /\ ms # <<>> /\ new = Nil
    BY <1>6, <1>12, <2>1 DEF new
  <2>3. ctx'[c].peer = ctx[c].peer
    BY <1>5, <1>12, <2>1, <2>2
  <2>4. \A d \in Contexts \ {c} :
          ctx'[d] = IF Joined(c) /\ d = ctx[c].peer
                      THEN [ctx[d] EXCEPT !.q = @ \o <<Cip(a[2], Nil)>>] ELSE ctx[d]
    BY <1>1, <1>12, <2>2
  <2> QED BY <1>3, <1>4, <1>12, <2>3, <2>4, AnswerPorted DEF model
<1> QED BY <1>2, <1>9, <1>10, <1>11, <1>12 DEF Sent

\* No timeout is among what a half call sends.
LEMMA SentIsNoTimeout ==
  ASSUME NEW c, NEW t, Ran(c, t), NetMsgs(t) # <<>>
  PROVE  \E m \in CipMsgs : NetMsgs(t) = <<m>> /\ \A tid : m # Timeout(tid)
<1>1. Sent(t.h.st, ctx[c].model, t.h.npsm, t.h.timer, t.h.q, NetMsgs(t), NetState(t))
  BY NetMsgsAre
<1>2. \E m \in CipMsgs : NetMsgs(t) = <<m>>
  <2>1. \A a \in Answers : Cip(a[2], Nil) \in CipMsgs
    BY DEF Answers, CipMsgs
  <2>2. /\ \A u \in Users : Cip("IAM", u) \in CipMsgs
        /\ \A cause \in {ToneCause, IdleCause} : Cip("REL", cause) \in CipMsgs
    BY DEF CipMsgs
  <2> QED BY <1>1, <2>1, <2>2 DEF Sent
<1>3. \A m \in CipMsgs : \A tid : m # Timeout(tid)
  <2>1. \A m \in CipMsgs : IsCip(m)
    BY CipMsgFacts DEF Msgs
  <2> QED BY <2>1, TimeoutFacts
<1> QED BY <1>2, <1>3

\* A queue to which a message is added that is not a timeout of a timer.
LEMMA AppendAbsent ==
  ASSUME NEW q \in Seq(Msgs), NEW m \in Msgs
  PROVE  \A tid : Absent(q, tid) /\ m # Timeout(tid) => Absent(Append(q, m), tid)
<1> DEFINE r == Append(q, m)
<1>1. /\ Len(q) \in Nat /\ Len(r) = Len(q) + 1 /\ r[Len(q) + 1] = m
      /\ \A i \in 1 .. Len(q) : r[i] = q[i]
  BY LenProperties, AppendProperties
<1> HIDE DEF r
<1>2. \A i \in 1 .. Len(r) : i \in 1 .. Len(q) \/ i = Len(q) + 1
  BY <1>1
<1>3. \A tid : Absent(q, tid) /\ m # Timeout(tid) => Absent(r, tid)
  BY <1>1, <1>2 DEF Absent
<1> QED BY <1>3 DEF r

\* and their timers and states.
LEMMA EndKeepsStage ==
  ASSUME HalfInv, NEW c \in Contexts, ctx[c].st # "Free", NEW t, Ran(c, t),
         EndOfTransaction(c, t)
  PROVE  StageInv'
<1> DEFINE ms == NetMsgs(t)
           Staged(h) == /\ OnTime(h.q, h.npsm, h.st)
                        /\ h.st \notin {"Free", "Ready"} => StageOf(h.model, h.npsm, h.st, h.timer)
<1>0. \A d \in Contexts \ {c} :
        \/ ctx'[d] = ctx[d]
        \/ ms # <<>> /\ ctx'[d] = Tbc(c, ms[1])
        \/ ms # <<>> /\ ctx'[d] = [ctx[d] EXCEPT !.q = @ \o ms]
  <2> DEFINE iam == ms # <<>> /\ ms[1].sig = "IAM"
             new == IF iam THEN NewContext ELSE Nil
  <2>1. /\ iam => new \in Unused /\ new # c
        /\ ctx'[c] = AfterTransaction(t, new)
        /\ \A d \in Contexts \ {c} :
             ctx'[d] = IF iam /\ d = new THEN Tbc(c, ms[1])
                       ELSE IF ~iam /\ ms # <<>> /\ Joined(c) /\ d = ctx[c].peer
                              THEN [ctx[d] EXCEPT !.q = @ \o ms]
                              ELSE ctx[d]
    BY EndIs
  <2> HIDE DEF ms, new
  <2> QED BY <2>1
<1>1. Staged(ctx'[c])
  <2>1. Staged(NoCall)
    BY DEF NoCall, OnTime, Absent
  <2>2. EndSent(c, t)
    BY EndLeaves
  <2> DEFINE g == ctx'[c]
  <2>3. CASE t.h.st = "Null"
    BY <2>1, <2>2, <2>3 DEF EndSent
  <2>4. CASE t.h.st # "Null"
    <3>1. /\ OnTime(g.q, g.npsm, g.st) /\ StageOf(g.model, g.npsm, g.st, g.timer)
      BY <2>2, <2>4 DEF EndSent
    <3> QED BY <3>1
  <2> QED BY <2>3, <2>4
<1>2. ASSUME NEW d \in Contexts \ {c} PROVE Staged(ctx'[d])
  <2>1. Staged(ctx[d])
    BY DEF HalfInv, StageInv
  <2>2. CASE ctx'[d] = ctx[d]
    BY <2>1, <2>2
  <2>3. CASE ms # <<>>
    <3>1. PICK m \in CipMsgs : ms = <<m>> /\ \A tid : m # Timeout(tid)
      BY <2>3, SentIsNoTimeout
    <3>2. m \in Msgs /\ ms[1] = m
      BY <3>1 DEF Msgs
    <3>3. \/ ctx'[d] = ctx[d]
          \/ ctx'[d] = Tbc(c, m)
          \/ ctx'[d] = [ctx[d] EXCEPT !.q = @ \o <<m>>]
      BY <1>0, <3>1, <3>2
    <3>4. CASE ctx'[d] = Tbc(c, m)
      <4>1. ctx'[d].st = "Ready" /\ ctx'[d].q = <<m>>
        BY <3>4, TbcHalf
      <4>2. \A tid : Absent(<<m>>, tid)
        BY <3>1 DEF Absent
      <4> QED BY <4>1, <4>2 DEF OnTime
    <3>5. CASE ctx'[d] = [ctx[d] EXCEPT !.q = @ \o <<m>>]
      <4> DEFINE h == ctx[d]
                 g == ctx'[d]
      <4>1. /\ g.st = h.st /\ g.model = h.model /\ g.npsm = h.npsm /\ g.timer = h.timer
            /\ g.q = Append(h.q, m)
        <5> DEFINE k == [h EXCEPT !.q = @ \o <<m>>]
        <5>1. /\ k.st = h.st /\ k.model = h.model /\ k.npsm = h.npsm /\ k.timer = h.timer
              /\ k.q = Append(h.q, m)
          BY <3>2, QueueOnIs
        <5>2. g = k
          BY <3>5
        <5> HIDE DEF k, g, h
        <5> QED BY <5>1, <5>2
      <4>a. h.q \in Seq(Msgs)
        BY HalfFacts
      <4> HIDE DEF g, h
      <4>2. \A tid : Absent(h.q, tid) => Absent(g.q, tid)
        BY <3>1, <3>2, <4>a, <4>1, AppendAbsent
      <4>3. OnTime(h.q, h.npsm, h.st) => OnTime(g.q, g.npsm, g.st)
        BY <4>1, <4>2 DEF OnTime
      <4>4. Staged(h) => Staged(g)
        BY <4>1, <4>3
      <4> QED BY <2>1, <4>4 DEF g, h
    <3> QED BY <2>2, <3>3, <3>4, <3>5
  <2>4. ms = <<>> => ctx'[d] = ctx[d]
    BY <1>0
  <2> QED BY <2>2, <2>3, <2>4
<1> QED BY <1>1, <1>2 DEF StageInv

-----------------------------------------------------------------------------
(* The halves stay in step when a message of a user or a timeout is queued. *)

\* Messages lead to a state.
LEMMA ReachState ==
  ASSUME NEW S, NEW q \in Seq(S), NEW s, NEW z, Reach(s, q, z)
  PROVE  z \in CipStates
<1>1. PICK f : Path(s, q, f) /\ f[Len(q)] = z
  BY DEF Reach
<1>2. Len(q) \in Nat
  BY LenProperties
<1> QED BY <1>1, <1>2 DEF Path

\* A context that changes, but neither its port nor the state of its protocol.
LEMMA ChangeKeepsHalves ==
  ASSUME HalfInv, CallInv', NEW c \in Contexts, NEW g, ctx' = [ctx EXCEPT ![c] = g],
         g.peer = ctx[c].peer, At(g) = At(ctx[c]), g.model = ctx[c].model \/ ctx[c].peer = Nil,
         Reach(At(g), Rest(g), Due(c)), OnTime(g.q, g.npsm, g.st),
         g.st \notin {"Free", "Ready"} => StageOf(g.model, g.npsm, g.st, g.timer)
  PROVE  HalfInv'
<1>1. ctx = [d \in Contexts |-> ctx[d]]
  BY DEF HalfInv, CallInv, IInv, FormInv
<1>2. ctx'[c] = g /\ \A d \in Contexts \ {c} : ctx'[d] = ctx[d]
  BY <1>1
<1>3. StageInv'
  BY <1>2 DEF StageInv, HalfInv
<1>4. Nil \notin Contexts /\ (ctx[c].peer # c \/ ctx[c].peer = Nil)
      /\ ctx[c].peer \in Contexts \cup {Nil}
  BY CallAssumption DEF HalfInv, PortInv, Ported, CallInv, IInv, ContextInv
<1>5. Ported(c)'
  <2>1. ctx[c].peer # Nil => ctx'[ctx[c].peer] = ctx[ctx[c].peer]
    BY <1>2, <1>4
  <2>2. Joined(c) => ctx[c].peer # Nil
    BY DEF Joined
  <2> QED BY <1>2, <2>1, <2>2, PortKept
<1>6. ASSUME NEW d \in Contexts \ {c} PROVE Ported(d)'
  <2>1. ctx[c].peer = d => ctx'[c].model = ctx[c].model
    BY <1>2, <1>4
  <2> QED BY <1>2, <2>1, OtherPorted DEF Alike
<1> QED BY <1>3, <1>5, <1>6 DEF HalfInv, PortInv

\* Contexts that do not change.
LEMMA SameKeepsHalves ==
  ASSUME HalfInv, CallInv', ctx' = ctx
  PROVE  HalfInv'
<1>1. StageInv'
  BY DEF HalfInv, StageInv
<1>2. \A d \in Contexts : (Joined(d)' <=> Joined(d)) /\ Due(d)' = Due(d)
  BY DEF Joined, Due
<1>3. PortInv'
  BY <1>2 DEF HalfInv, PortInv, Ported
<1> QED BY <1>1, <1>3 DEF HalfInv

\* A half call that has only heard from its user.
LEMMA NewObcFacts ==
  ASSUME NEW h, h.q \in Seq(Msgs), NewObc(h), h.npsm = "Idle"
  PROVE  At(h) = "Idle" /\ Rest(h) = h.q /\ Reach("Idle", h.q, "Idle") /\ OnTime(h.q, h.npsm, h.st)
<1>1. At(h) = "Idle" /\ Rest(h) = h.q
  BY DEF NewObc, At, Rest, Offered
<1>2. Quiet(h.q)
  BY DEF NewObc, Quiet, IsCip
<1>3. Reach("Idle", h.q, "Idle")
  BY <1>2, ReachQuiet DEF CipStates
<1>4. \A tid \in {"Iam", "Alerting", "Answer"} : Timeout(tid).port = "N"
  BY DEF Timeout, TimerPort, Msg
<1>5. \A tid \in {"Iam", "Alerting", "Answer"} : Absent(h.q, tid)
  BY <1>4 DEF Absent, NewObc
<1>6. OnTime(h.q, h.npsm, h.st)
  BY <1>5 DEF OnTime
<1> QED BY <1>1, <1>3, <1>6

\* A message that starts a half call,
LEMMA InitialKeepsHalves ==
  ASSUME HalfInv, CallInv', NEW u \in Users, NEW m \in UserMsgSet, ReceiveInitial(u, m)
  PROVE  HalfInv'
<1> DEFINE g == Obc(u, m)
<1>1. PICK c \in Contexts : ctx[c].st = "Free" /\ ctx' = [ctx EXCEPT ![c] = g]
  BY NewContextIsUnused DEF ReceiveInitial
<1>2. /\ g.st = "Ready" /\ g.user = u /\ g.model = "Obc" /\ g.npsm = "Idle"
      /\ g.timer = Nil /\ g.q = <<m>> /\ g.peer = Nil
  BY ObcIs, ObcIsForm
<1>3. m \in Msgs /\ m.port = "U"
  BY DEF Msgs, UserMsgSet, User, Digits, Msg
<1> HIDE DEF g
<1>4. g.q \in Seq(Msgs) /\ NewObc(g)
  BY <1>2, <1>3 DEF NewObc
<1>5. At(g) = "Idle" /\ Reach(At(g), Rest(g), "Idle") /\ OnTime(g.q, g.npsm, g.st)
  BY <1>2, <1>4, NewObcFacts
<1>6. At(ctx[c]) = "Idle" /\ ctx[c].peer = Nil
  BY <1>1, HalfFacts
<1>7. Due(c) = "Idle"
  BY <1>6 DEF Due, Joined
<1> QED BY <1>1, <1>2, <1>5, <1>6, <1>7, ChangeKeepsHalves

\* cancels one,
LEMMA CancelKeepsHalves ==
  ASSUME HalfInv, CallInv', NEW c \in Contexts, ctx[c].st = "Ready", ctx[c].model = "Obc",
         ctx' = [ctx EXCEPT ![c] = NoCall]
  PROVE  HalfInv'
<1>1. /\ NoCall.st = "Free" /\ NoCall.peer = Nil /\ At(NoCall) = "Idle" /\ Rest(NoCall) = <<>>
      /\ NoCall.q = <<>>
  BY DEF NoCall, At, Rest, Offered
<1>2. At(ctx[c]) = "Idle" /\ ctx[c].peer = Nil
  <2>1. ctx[c].npsm = "Idle"
    BY HalfFacts DEF ReadyOf
  <2>2. At(ctx[c]) = "Idle"
    BY <2>1 DEF At, Offered
  <2> QED BY <2>2 DEF HalfInv, PortInv, Ported
<1>3. Due(c) = "Idle"
  BY <1>2 DEF Due, Joined
<1>4. Reach("Idle", <<>>, "Idle")
  BY ReachEmpty DEF CipStates
<1>5. OnTime(NoCall.q, NoCall.npsm, NoCall.st)
  BY <1>1 DEF OnTime, Absent
<1> QED BY <1>1, <1>2, <1>3, <1>4, <1>5, ChangeKeepsHalves

\* or is added to the queue of one that has been served,
LEMMA AppendKeepsHalves ==
  ASSUME HalfInv, CallInv', NEW c \in Contexts, NEW m \in Msgs, ~IsCip(m),
         ctx' = [ctx EXCEPT ![c] = [ctx[c] EXCEPT !.q = Append(ctx[c].q, m)]],
         m = Timeout("Iam") => ctx[c].npsm = "IamSent",
         m = Timeout("Alerting") => ctx[c].st = "Pc",
         m = Timeout("Answer") => ctx[c].st = "Ta"
  PROVE  HalfInv'
<1> DEFINE h == ctx[c]
           g == [h EXCEPT !.q = Append(h.q, m)]
<1>1. /\ h.q \in Seq(Msgs) /\ Rest(h) \in Seq(Msgs) /\ Reach(At(h), Rest(h), Due(c))
      /\ OnTime(h.q, h.npsm, h.st)
      /\ h.st \notin {"Free", "Ready"} => StageOf(h.model, h.npsm, h.st, h.timer)
  BY HalfFacts DEF HalfInv, PortInv, Ported, StageInv
<1> DEFINE k == [h EXCEPT !.q = @ \o <<m>>]
<1>2. g = k
  <2>1. Append(h.q, m) = h.q \o <<m>>
    BY <1>1, AppendIsConcat
  <2> QED BY <2>1
<1>a. /\ k.st = h.st /\ k.model = h.model /\ k.npsm = h.npsm /\ k.timer = h.timer
      /\ k.peer = h.peer /\ At(k) = At(h) /\ k.q = Append(h.q, m)
      /\ Rest(k) = Append(Rest(h), m)
  BY QueueOnIs
<1>3. /\ g.st = h.st /\ g.model = h.model /\ g.npsm = h.npsm /\ g.timer = h.timer
      /\ g.peer = h.peer /\ At(g) = At(h) /\ g.q = Append(h.q, m)
      /\ Rest(g) = Append(Rest(h), m)
  <2> HIDE DEF g, k, h
  <2> QED BY <1>2, <1>a
<1>4. ctx' = [ctx EXCEPT ![c] = g]
  OBVIOUS
<1>5. \A tid : Absent(h.q, tid) /\ m # Timeout(tid) => Absent(g.q, tid)
  <2> HIDE DEF g, h
  <2> QED BY <1>1, <1>3, AppendAbsent
<1> HIDE DEF g
<1>6. OnTime(g.q, g.npsm, g.st)
  BY <1>1, <1>3, <1>5 DEF OnTime
<1>7. Reach(At(g), Rest(g), Due(c))
  <2>1. Due(c) \in CipStates /\ Received(Due(c), m) = Due(c)
    BY <1>1, ReachState DEF Received
  <2>2. Reach(At(h), Append(Rest(h), m), Received(Due(c), m))
    BY <1>1, <2>1, ReachAppend
  <2> QED BY <1>3, <2>1, <2>2
<1> QED BY <1>1, <1>3, <1>4, <1>6, <1>7, ChangeKeepsHalves

\* or to be served.
LEMMA ScreenKeepsHalves ==
  ASSUME HalfInv, CallInv', NEW c \in Contexts, ctx[c].st = "Ready", ctx[c].model = "Obc",
         NEW r, ctx' = [ctx EXCEPT ![c] = [ctx[c] EXCEPT !.q = r]]
  PROVE  HalfInv'
<1> DEFINE h == ctx[c]
           g == [h EXCEPT !.q = r]
<1>1. ReadyOf(h) /\ HalfForm(h)
  BY HalfFacts
<1>2. ctx = [d \in Contexts |-> ctx[d]]
  BY DEF HalfInv, CallInv, IInv, FormInv
<1>3. ctx' = [ctx EXCEPT ![c] = g]
  OBVIOUS
<1>9. ctx'[c] = g
  BY <1>2
<1>4. /\ g.st = "Ready" /\ g.model = "Obc" /\ g.npsm = "Idle" /\ g.q = r /\ g.peer = h.peer
  BY <1>1 DEF ReadyOf, HalfForm
<1> HIDE DEF g
<1>5. g.q \in Seq(Msgs) /\ NewObc(g)
  <2>1. g.q \in Seq(Msgs) /\ (ReadyOf(g) \/ ShapeOf(g, g.npsm))
    BY <1>4, <1>9 DEF CallInv, MsgsInv, ShapeInv, Live
  <2> QED BY <1>4, <2>1 DEF ReadyOf, NewTbc, ShapeOf, Timed, Attended
<1>6. At(g) = "Idle" /\ Reach(At(g), Rest(g), "Idle") /\ OnTime(g.q, g.npsm, g.st)
  BY <1>4, <1>5, NewObcFacts
<1>7. At(h) = "Idle" /\ h.peer = Nil
  <2>1. At(h) = "Idle"
    BY <1>1 DEF At, Offered, ReadyOf
  <2> QED BY <2>1 DEF HalfInv, PortInv, Ported
<1>8. Due(c) = "Idle"
  BY <1>7 DEF Due, Joined
<1>10. /\ g.peer = ctx[c].peer /\ At(g) = At(ctx[c]) /\ g.model = ctx[c].model
       /\ Reach(At(g), Rest(g), Due(c)) /\ g.st = "Ready"
  BY <1>4, <1>6, <1>7, <1>8
<1>11. OnTime(g.q, g.npsm, g.st)
  BY <1>6
<1> QED BY <1>3, <1>10, <1>11, ChangeKeepsHalves

\* A message of a user does one of these.
LEMMA CallReceivesKeepsHalves ==
  ASSUME HalfInv, CallInv', NEW u \in Users, CallReceives(u)
  PROVE  HalfInv'
<1> DEFINE m == Head(toCall[u])
           c == profile[u].addr
<1>1. m \in UserMsgSet
  <2>1. toCall[u] # <<>> /\ toCall[u] \in Seq(UserMsgSet)
    BY DEF CallReceives, HalfInv, CallInv, MsgsInv
  <2> QED BY <2>1, HeadTailProperties
<1>2. \/ UserPort(c, u) /\ ReceiveProgress(u, c, m)
      \/ ReceiveInitial(u, m)
  BY DEF CallReceives
<1>3. m \in Msgs /\ ~IsCip(m) /\ \A tid : m # Timeout(tid)
  <2>1. m \in Msgs /\ m.port = "U" /\ m.sig # "Timeout"
    BY <1>1 DEF Msgs, UserMsgSet, User, Digits, Msg
  <2> QED BY <2>1, TimeoutFacts DEF IsCip
<1>4. UserPort(c, u) => c \in Contexts
  BY DEF UserPort, HalfInv, CallInv, IInv, FormInv
<1> HIDE DEF m, c
<1>5. CASE ReceiveInitial(u, m)
  BY <1>1, <1>5, InitialKeepsHalves
<1>6. CASE UserPort(c, u) /\ ReceiveProgress(u, c, m)
  <2> DEFINE screened == ctx[c].st = "Ready" /\ ctx[c].model = "Obc"
             q == Append(ctx[c].q, m)
             r == IF screened THEN ScreenIcMsgs(q) ELSE q
  <2>1. \/ screened /\ ctx' = [ctx EXCEPT ![c] = NoCall]
        \/ ctx' = [ctx EXCEPT ![c] = [ctx[c] EXCEPT !.q = r]]
    BY <1>6 DEF ReceiveProgress
  <2>2. PICK d \in Contexts : d = c
    BY <1>4, <1>6
  <2>3. CASE screened /\ ctx' = [ctx EXCEPT ![c] = NoCall]
    BY <2>2, <2>3, CancelKeepsHalves
  <2>4. CASE screened /\ ctx' = [ctx EXCEPT ![c] = [ctx[c] EXCEPT !.q = r]]
    <3> HIDE DEF r
    <3> QED BY <2>2, <2>4, ScreenKeepsHalves
  <2>5. CASE ~screened /\ ctx' = [ctx EXCEPT ![c] = [ctx[c] EXCEPT !.q = r]]
    <3>1. ctx' = [ctx EXCEPT ![d] = [ctx[d] EXCEPT !.q = Append(ctx[d].q, m)]]
      BY <2>2, <2>5
    <3> QED BY <1>3, <3>1, AppendKeepsHalves
  <2> QED BY <2>1, <2>3, <2>4, <2>5
<1> QED BY <1>2, <1>5, <1>6

\* A timeout is that of a timer which runs.
LEMMA TimerKeepsHalves ==
  ASSUME HalfInv, CallInv', NEW c \in Contexts, TimerExpires(c)
  PROVE  HalfInv'
<1> DEFINE h == ctx[c]
<1>1. PICK tid \in Running(c) : ctx' = [ctx EXCEPT ![c].q = Append(@, Timeout(tid))]
  BY DEF TimerExpires
<1>2. h.st # "Free" /\ ShapeOf(h, h.npsm) /\ tid \in TimerIds
  BY RunningIs DEF HalfInv
<1>3. h.st \notin {"Free", "Ready"}
  BY <1>2 DEF ShapeOf, Timed, Attended
<1>4. StageOf(h.model, h.npsm, h.st, h.timer)
  BY <1>3 DEF HalfInv, StageInv
<1>5. \/ tid = h.timer
      \/ tid = "Iam" /\ h.npsm = "IamSent"
  BY DEF Running
<1> DEFINE m == Timeout(tid)
<1>6. m \in Msgs /\ ~IsCip(m) /\ \A x : m = Timeout(x) => x = tid
  BY <1>2, TimeoutFacts DEF Msgs, Timeouts
<1> HIDE DEF m
<1>7. /\ m = Timeout("Iam") => h.npsm = "IamSent"
      /\ m = Timeout("Alerting") => h.st = "Pc"
      /\ m = Timeout("Answer") => h.st = "Ta"
  BY <1>4, <1>5, <1>6 DEF StageOf
<1>8. ctx' = [ctx EXCEPT ![c] = [ctx[c] EXCEPT !.q = Append(ctx[c].q, m)]]
  BY <1>1 DEF m
<1> QED BY <1>6, <1>7, <1>8, AppendKeepsHalves

-----------------------------------------------------------------------------
(* The halves are in step.                                                 *)

\* Nothing is in progress at first.
LEMMA InitHalfInv == Init => HalfInv
<1> SUFFICES ASSUME Init PROVE HalfInv
  OBVIOUS
<1>1. CallInv
  BY InitCallInv
<1>2. \A c \in Contexts : ctx[c] = NoCall
  BY DEF Init
<1>3. /\ NoCall.st = "Free" /\ NoCall.peer = Nil /\ At(NoCall) = "Idle" /\ Rest(NoCall) = <<>>
      /\ NoCall.q = <<>>
  BY DEF NoCall, At, Rest, Offered
<1>4. OnTime(NoCall.q, NoCall.npsm, NoCall.st)
  BY <1>3 DEF OnTime, Absent
<1>5. StageInv
  BY <1>2, <1>3, <1>4 DEF StageInv
<1>6. Reach("Idle", <<>>, "Idle")
  BY ReachEmpty DEF CipStates
<1>7. \A c \in Contexts : ~Joined(c) /\ Due(c) = "Idle"
  BY <1>2, <1>3 DEF Joined, Due
<1>8. PortInv
  BY <1>2, <1>3, <1>6, <1>7 DEF PortInv, Ported
<1> QED BY <1>1, <1>5, <1>8 DEF HalfInv

\* Every step keeps the halves in step.
LEMMA NextHalfInv == HalfInv /\ [Next]_vars => HalfInv'
<1> SUFFICES ASSUME HalfInv, [Next]_vars PROVE HalfInv'
  OBVIOUS
<1>1. CallInv'
  BY NextCallInv DEF HalfInv
<1>2. CASE ctx' = ctx
  BY <1>1, <1>2, SameKeepsHalves
<1>3. ASSUME NEW u \in Users, Subscriber(u) \/ ShelfReceives(u) \/ RejectsIngress(u)
      PROVE  ctx' = ctx
  BY <1>3 DEF Subscriber, GoesOnhook, GoesOffhook, Dials, ShelfReceives, RejectsIngress
<1>4. ASSUME NEW u \in Users, CallReceives(u) PROVE HalfInv'
  BY <1>1, <1>4, CallReceivesKeepsHalves
<1>5. ASSUME NEW c \in Contexts, ProcessWork(c) PROVE HalfInv'
  <2>1. PICK t : Ran(c, t) /\ EndOfTransaction(c, t)
    BY <1>5, ProcessWorkRuns
  <2>2. ctx[c].st # "Free"
    BY <1>5, ProcessWorkRuns
  <2> QED BY <1>1, <2>1, <2>2, EndKeepsPort, EndKeepsStage DEF HalfInv
<1>6. ASSUME NEW c \in Contexts, TimerExpires(c) PROVE HalfInv'
  BY <1>1, <1>6, TimerKeepsHalves
<1>7. UNCHANGED vars => ctx' = ctx
  BY DEF vars
<1> QED BY <1>2, <1>3, <1>4, <1>5, <1>6, <1>7 DEF Next

\* The states that MsgsAreValid looks at are those of a function with its equation.
LEMMA ValidIs ==
  ASSUME NEW c, NEW n, n = Len(ctx[c].q), n \in Nat, NEW g,
         g = [i \in 0 .. n |-> IF i = 0 THEN ctx[c].npsm ELSE Received(g[i - 1], ctx[c].q[i])],
         g[n] # Nil, (\E i \in DOMAIN ctx[c].q : ctx[c].q[i].port = "N") => NetPort(ctx[c])
  PROVE  MsgsAreValid(c)
<1> DEFINE q == ctx[c].q
           s[i \in 0 .. Len(q)] == IF i = 0 THEN ctx[c].npsm ELSE Received(s[i - 1], q[i])
<1>1. s = CHOOSE f : f = [i \in 0 .. Len(q) |-> IF i = 0 THEN ctx[c].npsm
                                                         ELSE Received(f[i - 1], q[i])]
  BY DEF s
<1> HIDE DEF s
<1>2. s = [i \in 0 .. n |-> IF i = 0 THEN ctx[c].npsm ELSE Received(s[i - 1], q[i])]
  BY <1>1
<1>3. /\ \A i \in 0 .. n : s[i] = IF i = 0 THEN ctx[c].npsm ELSE Received(s[i - 1], q[i])
      /\ \A i \in 0 .. n : g[i] = IF i = 0 THEN ctx[c].npsm ELSE Received(g[i - 1], q[i])
  <2>1. ASSUME NEW f, NEW e, f = [i \in 0 .. n |-> IF i = 0 THEN e ELSE Received(f[i - 1], q[i])]
        PROVE  \A i \in 0 .. n : f[i] = IF i = 0 THEN e ELSE Received(f[i - 1], q[i])
    <3> DEFINE F(i) == IF i = 0 THEN e ELSE Received(f[i - 1], q[i])
    <3>1. f = [i \in 0 .. n |-> F(i)]
      BY <2>1
    <3> HIDE DEF F
    <3>2. \A i \in 0 .. n : f[i] = F(i)
      BY <3>1
    <3> QED BY <3>2 DEF F
  <2> QED BY <1>2, <2>1
<1> DEFINE T == {i \in 0 .. n : s[i] # g[i]}
<1>4. T = {}
  <2> SUFFICES ASSUME T # {} PROVE FALSE
    OBVIOUS
  <2>1. PICK i \in T : \A j \in T : i <= j
    <3>1. T \in SUBSET Nat
      OBVIOUS
    <3> HIDE DEF T
    <3> QED BY <3>1, LeastElement
  <2>2. i \in 0 .. n /\ s[i] # g[i]
    BY <2>1
  <2>3. i # 0
    BY <1>3, <2>2
  <2>4. i - 1 \in 0 .. n /\ i - 1 \notin T
    <3>1. i - 1 \in 0 .. n /\ ~(i <= i - 1)
      BY <2>2, <2>3
    <3> HIDE DEF T
    <3> QED BY <2>1, <3>1
  <2>5. s[i - 1] = g[i - 1]
    BY <2>4
  <2>6. s[i] = Received(s[i - 1], q[i]) /\ g[i] = Received(g[i - 1], q[i])
    BY <1>3, <2>2, <2>3
  <2> QED BY <2>2, <2>5, <2>6
<1>5. s[Len(q)] # Nil
  <2>1. n \in 0 .. n
    OBVIOUS
  <2>2. s[n] = g[n]
    BY <1>4, <2>1
  <2> QED BY <2>2
<1> QED BY <1>5 DEF MsgsAreValid, s

\* No CIP message is discarded or out of order.
LEMMA HalvesAreValid ==
  ASSUME HalfInv, NEW c \in Contexts
  PROVE  MsgsAreValid(c)
<1> DEFINE h == ctx[c]
           q == h.q
           n == Len(q)
<1>1. q \in Seq(Msgs) /\ n \in Nat /\ DOMAIN q = 1 .. n
  BY HalfFacts, LenProperties
<1>2. Reach(At(h), Rest(h), Due(c)) /\ Rest(h) \in Seq(Msgs)
  BY HalfFacts DEF HalfInv, PortInv, Ported
<1>3. PICK f : Path(At(h), Rest(h), f)
  BY <1>2 DEF Reach
<1>4. (\E i \in DOMAIN q : q[i].port = "N") => NetPort(h)
  <2> SUFFICES ASSUME ~NetPort(h), NEW i \in 1 .. n, q[i].port = "N" PROVE FALSE
    BY <1>1
  <2>1. At(h) = "Idle"
    BY HalfFacts
  <2>2. ~Offered(h) /\ h.npsm = "Idle" /\ Rest(h) = q
    BY <2>1 DEF At, Rest, Offered
  <2>3. Quiet(q)
    BY <1>2, <2>1, <2>2, ReachIdle
  <2>4. q[i] \in Msgs /\ q[i].sig = "Timeout"
    BY <1>1, <2>3 DEF Quiet, IsCip
  <2>5. PICK tid \in TimerIds : q[i] = Timeout(tid)
    BY <2>4, MsgFacts DEF Timeouts
  <2>6. tid \in {"Alerting", "Answer", "Iam"}
    BY <2>5 DEF Timeout, Msg, TimerPort
  <2>7. OnTime(q, h.npsm, h.st) /\ h.st \notin {"Pc", "Ta"}
    BY <2>2 DEF HalfInv, StageInv, StageOf, Stages
  <2>8. Absent(q, tid)
    BY <2>2, <2>6, <2>7 DEF OnTime
  <2> QED BY <2>5, <2>8 DEF Absent
<1> HIDE DEF q, n
<1>5. CASE ~Offered(h)
  <2>1. At(h) = h.npsm /\ Rest(h) = q
    BY <1>5 DEF At, Rest, q
  <2> DEFINE g == [i \in 0 .. n |-> f[i]]
  <2>2. \A i \in 0 .. n : g[i] = f[i]
    OBVIOUS
  <2>3. f[0] = h.npsm /\ f[n] \in CipStates /\ \A i \in 1 .. n : f[i] = Received(f[i - 1], q[i])
    BY <1>1, <1>3, <2>1 DEF Path, n
  <2>4. g = [i \in 0 .. n |-> IF i = 0 THEN h.npsm ELSE Received(g[i - 1], q[i])]
    <3>1. ASSUME NEW i \in 0 .. n
          PROVE  f[i] = IF i = 0 THEN h.npsm ELSE Received(g[i - 1], q[i])
      BY <1>1, <2>2, <2>3
    <3> QED BY <3>1
  <2>5. g[n] # Nil
    BY <1>1, <2>2, <2>3, CipAssumption
  <2> HIDE DEF g
  <2> QED BY <1>1, <1>4, <2>4, <2>5, ValidIs DEF n, q
<1>6. CASE Offered(h)
  <2>1. At(h) = "IamRcvd" /\ Rest(h) = Tail(q) /\ h.npsm = "Idle" /\ q # <<>> /\ q[1].sig = "IAM"
    BY <1>6, HalfFacts DEF At, Rest, q, Offered, ReadyOf, NewObc, NewTbc
  <2>2. /\ n > 0 /\ q[1] \in Msgs /\ Len(Tail(q)) = n - 1
        /\ \A i \in 1 .. n - 1 : Tail(q)[i] = q[i + 1]
    BY <1>1, <2>1, EmptySeq, HeadTailProperties DEF n
  <2>3. Received("Idle", q[1]) = "IamRcvd"
    <3>1. IsCip(q[1]) /\ Nil # "Idle"
      BY <2>1, <2>2, MsgFacts, CipAssumption DEF IsCip, CipStates
    <3> QED BY <2>1, <3>1, IcNextIs DEF Received
  <2>4. /\ f[0] = "IamRcvd" /\ f[n - 1] \in CipStates
        /\ \A i \in 1 .. n - 1 : f[i] = Received(f[i - 1], q[i + 1])
    BY <1>1, <1>3, <2>1, <2>2 DEF Path
  <2> DEFINE g == [i \in 0 .. n |-> IF i = 0 THEN "Idle" ELSE f[i - 1]]
  <2>a. g = [i \in 0 .. n |-> IF i = 0 THEN "Idle" ELSE f[i - 1]]
    OBVIOUS
  <2>5. g[0] = "Idle" /\ \A i \in 1 .. n : g[i] = f[i - 1]
    BY <1>1
  <2> HIDE DEF g
  <2>6. g = [i \in 0 .. n |-> IF i = 0 THEN h.npsm ELSE Received(g[i - 1], q[i])]
    <3>1. ASSUME NEW i \in 1 .. n PROVE f[i - 1] = Received(g[i - 1], q[i])
      <4>1. CASE i = 1
        BY <1>1, <2>3, <2>4, <2>5, <4>1
      <4>2. CASE i # 1
        <5>1. i - 1 \in 1 .. n - 1 /\ (i - 1) + 1 = i /\ i - 1 \in 1 .. n
          BY <1>1, <4>2
        <5> QED BY <2>4, <2>5, <5>1
      <4> QED BY <4>1, <4>2
    <3> DEFINE a(i) == IF i = 0 THEN "Idle" ELSE f[i - 1]
               b(i) == IF i = 0 THEN h.npsm ELSE Received(g[i - 1], q[i])
    <3>2. \A i \in 0 .. n : a(i) = b(i)
      BY <1>1, <2>1, <3>1
    <3>3. g = [i \in 0 .. n |-> a(i)]
      BY <2>a
    <3> HIDE DEF a, b
    <3>4. g = [i \in 0 .. n |-> b(i)]
      BY <3>2, <3>3
    <3> QED BY <3>4 DEF b
  <2>7. g[n] # Nil
    BY <1>1, <2>2, <2>4, <2>5, CipAssumption
  <2> QED BY <1>1, <1>4, <2>6, <2>7, ValidIs DEF n, q
<1> QED BY <1>5, <1>6

\* Once the caller's half has received everything, both are at the same stage.
LEMMA HalvesAgree ==
  ASSUME HalfInv, NEW c \in Contexts, ctx[c].model = "Obc", Joined(c),
         \A i \in DOMAIN ctx[c].q : ctx[c].q[i].port = "U"
  PROVE  SameStage(c, ctx[c].peer)
<1> DEFINE h == ctx[c]
           p == ctx[c].peer
           g == ctx[p]
<1>1. h.q \in Seq(Msgs) /\ DOMAIN h.q = 1 .. Len(h.q) /\ Len(h.q) \in Nat
  BY HalfFacts, LenProperties
<1>2. /\ p \in Contexts /\ Joined(p) /\ At(h) # "Idle" /\ At(g) # "Idle"
      /\ g.model = "Tbc" /\ At(g) \in Waiting
  BY JoinedFacts
<1>3. At(h) = h.npsm /\ Rest(h) = h.q
  BY DEF At, Rest, Offered
<1>4. Quiet(h.q)
  BY <1>1 DEF Quiet, IsCip
<1>5. Reach(h.npsm, h.q, Mirror(At(g)))
  BY <1>3 DEF HalfInv, PortInv, Ported, Due
<1>6. h.npsm \in CipStates
  <2>1. PICK f : Path(h.npsm, h.q, f)
    BY <1>5 DEF Reach
  <2> QED BY <1>1, <2>1 DEF Path
<1>7. h.npsm = Mirror(At(g))
  BY <1>1, <1>4, <1>5, <1>6, ReachQuiet
<1>8. <<"Obc", h.npsm, h.st>> \in Stages
  <2>1. h.st # "Free" /\ h.st # "Ready"
    BY <1>2, <1>3, HalfFacts DEF ReadyOf
  <2> QED BY <2>1 DEF HalfInv, StageInv, StageOf
<1>9. \/ g.st = "Ready" /\ At(g) = "IamRcvd"
      \/ <<"Tbc", At(g), g.st>> \in Stages
  <2>1. g.st # "Free"
    BY <1>2, HalfFacts
  <2>2. g.st = "Ready" => At(g) = "IamRcvd"
    BY <1>2 DEF At, Offered
  <2>3. g.st # "Ready" => At(g) = g.npsm
    BY DEF At, Offered
  <2>4. g.st # "Ready" => <<"Tbc", g.npsm, g.st>> \in Stages
    BY <1>2, <2>1 DEF HalfInv, StageInv, StageOf
  <2> QED BY <2>2, <2>3, <2>4
<1> HIDE DEF g, h
<1>10. /\ h.st \in {"Ac", "Rs"} <=> g.st \in {"Ac", "Ls"}
       /\ h.st = "Rs" <=> g.st = "Ls"
  BY <1>2, <1>7, <1>8, <1>9 DEF Stages, Waiting, Mirror
<1> QED BY <1>10 DEF SameStage, g, h

\* The inductive invariant of the two halves of a call: what the messages in a
\* half's queue lead its CIP protocol to is what the other half's has sent, or idle
\* once that has been released, and the state of a half goes with that of its
\* protocol and with its timer.
THEOREM HalvesInvariant == Spec => []HalfInv
  BY InitHalfInv, NextHalfInv, PTL DEF Spec

\* However releases, answers, suspensions and timeouts cross, no CIP message finds its
\* port gone or is invalid in the state in which it is received (BcPsm::ProcessIcMsg),
\* and a caller's half that has received all of them is at the stage of the other.
THEOREM HalvesStayInStep == Spec => []HalvesInStep
<1>1. ASSUME HalfInv PROVE HalvesInStep
  <2> SUFFICES ASSUME NEW c \in Contexts
               PROVE  /\ MsgsAreValid(c)
                      /\ (/\ ctx[c].model = "Obc"
                          /\ \A i \in DOMAIN ctx[c].q : ctx[c].q[i].port = "U"
                          /\ ctx[c].peer # Nil /\ ctx[ctx[c].peer].peer = c)
                            => SameStage(c, ctx[c].peer)
    BY DEF HalvesInStep
  <2>1. MsgsAreValid(c)
    BY <1>1, HalvesAreValid
  <2>2. ASSUME ctx[c].model = "Obc", \A i \in DOMAIN ctx[c].q : ctx[c].q[i].port = "U",
               ctx[c].peer # Nil, ctx[ctx[c].peer].peer = c
        PROVE  SameStage(c, ctx[c].peer)
    <3>1. Joined(c)
      BY <2>2 DEF Joined
    <3> QED BY <1>1, <2>2, <3>1, HalvesAgree
  <2> QED BY <2>1, <2>2
<1> QED BY <1>1, HalvesInvariant, PTL
=============================================================================
