---------------------------- MODULE ClientProofs ----------------------------
(***************************************************************************)
(* Proofs about Client, for any views, degraded states and operations, and  *)
(* any number of dialogs, stops, time-outs, failed connections and changes: *)
(* the mirror is true once everything is handled, and a dialog shows its     *)
(* own outcome.                                                             *)
(***************************************************************************)
EXTENDS Client, FiniteSetTheorems, TLAPS

Calling  == [c : {"fetch"}, late : BOOLEAN]
            \cup [c : {"ask"}, v : View, d : Nat, late : BOOLEAN]
Message  == [m : {"owner"}, up : BOOLEAN] \cup [m : {"proxy"}, r : {"up", "down", "failed"}]
            \cup [m : {"changed"}, s : Mode] \cup [m : {"fetched"}, s : Mode \cup {"error"}]
            \cup [m : {"started"}, v : View, o : Op \cup {NoOp}]
            \cup [m : {"complete"}, o : Op, ok : BOOLEAN] \cup {Late}
Callback == [c : {"update"}, s : Mode] \cup {Reset}
            \cup [c : {"store"}, v : View, o : Op \cup {NoOp}]

DaemonTypes ==
  /\ alive \in BOOLEAN /\ owner \in Op \cup {NoOp} /\ mode \in Mode
  /\ answer \in [Op -> {"none", "pending", "ok", "failed", "lost"}]

QueueTypes == calls \in Seq(Calling) /\ inbox \in Seq(Message) /\ idleq \in Seq(Callback)

LinkTypes ==
  /\ proxy \in {"none", "ready"} /\ creating \in Nat
  /\ retry \in BOOLEAN /\ connected \in BOOLEAN
  /\ shown \in Mode \cup {"unknown", "unreachable"} /\ unfetched \in BOOLEAN

DialogTypes ==
  /\ stage \in [View -> Running \cup {"none", "preflight"}]
  /\ dialog \in [View -> Nat] /\ left \in [View -> Int] /\ want \in [View -> Nat]
  /\ current \in [View -> Op \cup {NoOp}]
  /\ work \in Nat /\ asker \in [Op -> Nat]

TypeOK == DaemonTypes /\ QueueTypes /\ LinkTypes /\ DialogTypes
-----------------------------------------------------------------------------
(* Sequences: what enters at the end and leaves at the front.               *)

None(q, A) == \A i \in DOMAIN q : q[i] \notin A

(* The last of A in q is of B.                                              *)
LastIn(q, A, B) ==
  None(q, A) \/ \E i \in DOMAIN q : q[i] \in A /\ q[i] \in B /\ \A j \in DOMAIN q : j > i => q[j] \notin A

Once(q, A) == \A i, j \in DOMAIN q : q[i] \in A /\ q[j] \in A => i = j

LEMMA TailIndex ==
  ASSUME NEW S, NEW q \in Seq(S), q # <<>>
  PROVE  /\ Head(q) \in S /\ Tail(q) \in Seq(S) /\ 1 \in DOMAIN q /\ q[1] = Head(q)
         /\ \A i \in DOMAIN q : i \in Int /\ i >= 1
         /\ \A i \in DOMAIN Tail(q) : i \in Int /\ i >= 1 /\ i + 1 \in DOMAIN q /\ Tail(q)[i] = q[i + 1]
         /\ \A i \in DOMAIN q : i = 1 \/ (i - 1 \in DOMAIN Tail(q) /\ Tail(q)[i - 1] = q[i])
OBVIOUS

LEMMA Typing ==
  /\ \A S : \A q \in Seq(S), e \in S : Append(q, e) \in Seq(S)
  /\ \A S : \A q, r \in Seq(S) : q \o r \in Seq(S)
  /\ \A S : \A d, e \in S : <<d, e>> \in Seq(S)
OBVIOUS

LEMMA Pairing ==
  ASSUME NEW S, NEW q \in Seq(S), NEW d \in S, NEW e \in S
  PROVE  q \o <<d, e>> = Append(Append(q, d), e)
<1>1. <<d, e>> = Append(<<d>>, e) /\ Append(q, d) = q \o <<d>>
  OBVIOUS
<1>2. q \o Append(<<d>>, e) = Append(q \o <<d>>, e)
  BY <<d>> \in Seq(S)
<1> QED
  BY <1>1, <1>2

LEMMA Taking ==
  ASSUME NEW S, NEW q \in Seq(S), q # <<>>, NEW A
  PROVE  /\ None(q, A) <=> Head(q) \notin A /\ None(Tail(q), A)
         /\ \A B : LastIn(q, A, B) <=> /\ LastIn(Tail(q), A, B)
                                       /\ Head(q) \in A /\ None(Tail(q), A) => Head(q) \in B
         /\ Once(q, A) <=> Once(Tail(q), A) /\ (Head(q) \in A => None(Tail(q), A))
<1>1. PICK h, r : h = Head(q) /\ r = Tail(q)
  OBVIOUS
<1>2. /\ 1 \in DOMAIN q /\ q[1] = h
      /\ \A i \in DOMAIN q : i \in Int /\ i >= 1
      /\ \A i \in DOMAIN r : i \in Int /\ i >= 1 /\ i + 1 \in DOMAIN q /\ r[i] = q[i + 1]
      /\ \A i \in DOMAIN q : i = 1 \/ (i - 1 \in DOMAIN r /\ r[i - 1] = q[i])
  BY <1>1, TailIndex
<1>3. None(q, A) <=> h \notin A /\ None(r, A)
  BY <1>2 DEF None
<1>4. ASSUME NEW B
      PROVE  LastIn(q, A, B) <=> LastIn(r, A, B) /\ (h \in A /\ None(r, A) => h \in B)
  <2>1. CASE None(r, A)
    <3>1. LastIn(q, A, B) => (h \in A => h \in B)
      <4> SUFFICES ASSUME h \in A, LastIn(q, A, B) PROVE h \in B
        OBVIOUS
      <4>1. ~None(q, A)
        BY <1>3
      <4>2. PICK i \in DOMAIN q : q[i] \in A /\ q[i] \in B
        BY <4>1 DEF LastIn
      <4>3. i = 1
        BY <1>2, <2>1, <4>2 DEF None
      <4> QED
        BY <1>2, <4>2, <4>3
    <3>2. (h \in A => h \in B) => LastIn(q, A, B)
      <4> SUFFICES ASSUME h \in A => h \in B, h \in A PROVE LastIn(q, A, B)
        BY <1>3, <2>1 DEF LastIn
      <4>1. \A j \in DOMAIN q : j > 1 => q[j] \notin A
        BY <1>2, <2>1 DEF None
      <4> QED
        BY <1>2, <4>1 DEF LastIn
    <3> QED
      BY <2>1, <3>1, <3>2 DEF LastIn
  <2>2. CASE ~None(r, A)
    <3>1. ASSUME LastIn(q, A, B) PROVE LastIn(r, A, B)
      <4>1. PICK i \in DOMAIN q : q[i] \in A /\ q[i] \in B /\ \A j \in DOMAIN q : j > i => q[j] \notin A
        BY <1>3, <2>2, <3>1 DEF LastIn
      <4>2. PICK k \in DOMAIN r : r[k] \in A
        BY <2>2 DEF None
      <4>3. i # 1
        <5>1. k + 1 \in DOMAIN q /\ k + 1 > 1 /\ q[k + 1] \in A
          BY <1>2, <4>2
        <5> QED
          BY <4>1, <5>1
      <4>4. ASSUME NEW j \in DOMAIN r, j > i - 1
            PROVE  r[j] \notin A
        <5>1. i \in Int /\ j \in Int /\ j + 1 \in DOMAIN q /\ r[j] = q[j + 1]
          BY <1>2
        <5>2. j + 1 > i
          BY <4>4, <5>1
        <5> QED
          BY <4>1, <5>1, <5>2
      <4> QED
        BY <1>2, <4>1, <4>3, <4>4 DEF LastIn
    <3>2. ASSUME LastIn(r, A, B) PROVE LastIn(q, A, B)
      <4>1. PICK i \in DOMAIN r : r[i] \in A /\ r[i] \in B /\ \A j \in DOMAIN r : j > i => r[j] \notin A
        BY <2>2, <3>2 DEF LastIn
      <4>2. ASSUME NEW j \in DOMAIN q, j > i + 1
            PROVE  q[j] \notin A
        <5>1. j \in Int /\ i \in Int /\ i >= 1 /\ j - 1 > i
          BY <1>2, <4>2
        <5> QED
          BY <1>2, <4>1, <5>1
      <4> QED
        BY <1>2, <4>1, <4>2 DEF LastIn
    <3> QED
      BY <2>2, <3>1, <3>2
  <2> QED
    BY <2>1, <2>2
<1>5. Once(q, A) <=> Once(r, A) /\ (h \in A => None(r, A))
  <2>1. ASSUME Once(q, A) PROVE Once(r, A) /\ (h \in A => None(r, A))
    BY <1>2, <2>1 DEF Once, None
  <2>2. ASSUME Once(r, A), h \in A => None(r, A) PROVE Once(q, A)
    <3> SUFFICES ASSUME NEW i \in DOMAIN q, NEW j \in DOMAIN q, q[i] \in A, q[j] \in A
                 PROVE  i = j
      BY DEF Once
    <3>1. i = 1 \/ j = 1 => i = j
      BY <1>2, <2>2 DEF None
    <3>2. i # 1 /\ j # 1 => i - 1 = j - 1
      BY <1>2, <2>2 DEF Once
    <3> QED
      BY <1>2, <3>1, <3>2
  <2> QED
    BY <2>1, <2>2
<1> QED
  BY <1>1, <1>3, <1>4, <1>5

LEMMA Adding ==
  ASSUME NEW S, NEW q \in Seq(S), NEW e, NEW A
  PROVE  /\ None(Append(q, e), A) <=> None(q, A) /\ e \notin A
         /\ \A B : LastIn(Append(q, e), A, B) <=> IF e \in A THEN e \in B ELSE LastIn(q, A, B)
         /\ Once(Append(q, e), A) <=> Once(q, A) /\ (e \in A => None(q, A))
<1>1. PICK r, n : r = Append(q, e) /\ n = Len(q) + 1
  OBVIOUS
<1>2. /\ n \in DOMAIN r /\ r[n] = e /\ n \in Int
      /\ \A i \in DOMAIN r : i \in Int /\ i <= n /\ (i = n \/ (i \in DOMAIN q /\ r[i] = q[i]))
      /\ \A i \in DOMAIN q : i \in DOMAIN r /\ i < n /\ r[i] = q[i]
  BY <1>1
<1>3. None(r, A) <=> None(q, A) /\ e \notin A
  BY <1>2 DEF None
<1>4. ASSUME NEW B
      PROVE  LastIn(r, A, B) <=> IF e \in A THEN e \in B ELSE LastIn(q, A, B)
  <2>1. CASE e \in A
    <3>1. ASSUME LastIn(r, A, B) PROVE e \in B
      <4>1. PICK i \in DOMAIN r : r[i] \in B /\ \A j \in DOMAIN r : j > i => r[j] \notin A
        BY <1>3, <2>1, <3>1 DEF LastIn
      <4> QED
        BY <1>2, <2>1, <4>1
    <3>2. ASSUME e \in B PROVE LastIn(r, A, B)
      <4>1. \A j \in DOMAIN r : ~(j > n)
        BY <1>2
      <4> QED
        BY <1>2, <2>1, <3>2, <4>1 DEF LastIn
    <3> QED
      BY <2>1, <3>1, <3>2
  <2>2. CASE e \notin A
    <3>1. ASSUME LastIn(r, A, B) PROVE LastIn(q, A, B)
      <4>1. CASE ~None(r, A)
        <5>1. PICK i \in DOMAIN r : r[i] \in A /\ r[i] \in B /\ \A j \in DOMAIN r : j > i => r[j] \notin A
          BY <3>1, <4>1 DEF LastIn
        <5> QED
          BY <1>2, <2>2, <5>1 DEF LastIn
      <4> QED
        BY <1>3, <4>1 DEF LastIn
    <3>2. ASSUME LastIn(q, A, B) PROVE LastIn(r, A, B)
      <4>1. CASE ~None(q, A)
        <5>1. PICK i \in DOMAIN q : q[i] \in A /\ q[i] \in B /\ \A j \in DOMAIN q : j > i => q[j] \notin A
          BY <3>2, <4>1 DEF LastIn
        <5>2. \A j \in DOMAIN r : j > i => r[j] \notin A
          BY <1>2, <2>2, <5>1
        <5> QED
          BY <1>2, <5>1, <5>2 DEF LastIn
      <4> QED
        BY <1>3, <2>2, <4>1 DEF LastIn
    <3> QED
      BY <2>2, <3>1, <3>2
  <2> QED
    BY <2>1, <2>2
<1>5. Once(r, A) <=> Once(q, A) /\ (e \in A => None(q, A))
  BY <1>2 DEF Once, None
<1> QED
  BY <1>1, <1>3, <1>4, <1>5

LEMMA Joining ==
  ASSUME NEW S, NEW q \in Seq(S), NEW r \in Seq(S), NEW A
  PROVE  /\ None(q \o r, A) <=> None(q, A) /\ None(r, A)
         /\ None(r, A) => \A B : LastIn(q \o r, A, B) <=> LastIn(q, A, B)
         /\ Once(q, A) /\ Once(r, A) /\ (None(q, A) \/ None(r, A)) => Once(q \o r, A)
<1>1. PICK t, n : t = q \o r /\ n = Len(q)
  OBVIOUS
<1>2. /\ n \in Int
      /\ \A i \in DOMAIN q : i \in Int /\ i <= n /\ i \in DOMAIN t /\ t[i] = q[i]
      /\ \A i \in DOMAIN r : i \in Int /\ i >= 1 /\ n + i \in DOMAIN t /\ t[n + i] = r[i]
      /\ \A i \in DOMAIN t : i \in Int /\ ((i \in DOMAIN q /\ i <= n) \/ (i > n /\ i - n \in DOMAIN r /\ t[i] = r[i - n]))
  BY <1>1
<1>3. None(t, A) <=> None(q, A) /\ None(r, A)
  BY <1>2 DEF None
<1>4. ASSUME None(r, A), NEW B
      PROVE  LastIn(t, A, B) <=> LastIn(q, A, B)
  <2>1. \A i \in DOMAIN t : i \in DOMAIN q \/ t[i] \notin A
    BY <1>2, <1>4 DEF None
  <2>2. ASSUME LastIn(t, A, B), ~None(t, A) PROVE LastIn(q, A, B)
    <3>1. PICK i \in DOMAIN t : t[i] \in A /\ t[i] \in B /\ \A j \in DOMAIN t : j > i => t[j] \notin A
      BY <2>2 DEF LastIn
    <3> QED
      BY <1>2, <2>1, <3>1 DEF LastIn
  <2>3. ASSUME LastIn(q, A, B), ~None(q, A) PROVE LastIn(t, A, B)
    <3>1. PICK i \in DOMAIN q : q[i] \in A /\ q[i] \in B /\ \A j \in DOMAIN q : j > i => q[j] \notin A
      BY <2>3 DEF LastIn
    <3>2. \A j \in DOMAIN t : j > i => t[j] \notin A
      BY <1>2, <2>1, <3>1
    <3> QED
      BY <1>2, <3>1, <3>2 DEF LastIn
  <2> QED
    BY <1>3, <1>4, <2>2, <2>3 DEF LastIn
<1>5. ASSUME Once(q, A), Once(r, A), None(q, A) \/ None(r, A)
      PROVE  Once(t, A)
  <2> SUFFICES ASSUME NEW i \in DOMAIN t, NEW j \in DOMAIN t, t[i] \in A, t[j] \in A
               PROVE  i = j
    BY DEF Once
  <2> QED
    BY <1>2, <1>5 DEF Once, None
<1> QED
  BY <1>1, <1>3, <1>4, <1>5
(* The last of A is there, when any is.                                     *)
LEMMA LastThere ==
  ASSUME NEW q, NEW A, NEW B, LastIn(q, A, B), ~None(q, A)
  PROVE  ~None(q, B)
BY DEF LastIn, None
-----------------------------------------------------------------------------
(* Types.                                                                   *)

LEMMA MessageKinds ==
  ASSUME NEW h \in Message
  PROVE  /\ h.m = "owner" => h.up \in BOOLEAN /\ h = Owner(h.up)
         /\ h.m = "proxy" => h.r \in {"up", "down", "failed"} /\ h = Proxy(h.r)
         /\ h.m = "changed" => h.s \in Mode /\ h = State("changed", h.s)
         /\ h.m = "fetched" => h.s \in Mode \cup {"error"} /\ h = State("fetched", h.s)
         /\ h.m = "started" => h.v \in View /\ h.o \in Op \cup {NoOp} /\ h = Started(h.v, h.o)
         /\ h.m = "complete" => h.o \in Op /\ h.ok \in BOOLEAN /\ h = Complete(h.o, h.ok)
         /\ h.m = "late" => h = Late
<1>1. CASE h \in [m : {"owner"}, up : BOOLEAN]
  BY <1>1 DEF Owner
<1>2. CASE h \in [m : {"proxy"}, r : {"up", "down", "failed"}]
  BY <1>2 DEF Proxy
<1>3. CASE h \in [m : {"changed"}, s : Mode]
  BY <1>3 DEF State
<1>4. CASE h \in [m : {"fetched"}, s : Mode \cup {"error"}]
  BY <1>4 DEF State
<1>5. CASE h \in [m : {"started"}, v : View, o : Op \cup {NoOp}]
  BY <1>5 DEF Started
<1>6. CASE h \in [m : {"complete"}, o : Op, ok : BOOLEAN]
  BY <1>6 DEF Complete
<1>7. CASE h = Late
  BY <1>7 DEF Late
<1> QED
  BY <1>1, <1>2, <1>3, <1>4, <1>5, <1>6, <1>7 DEF Message

LEMMA MessageTypes ==
  /\ Owner(TRUE) \in Message /\ Owner(FALSE) \in Message
  /\ \A r \in {"up", "down", "failed"} : Proxy(r) \in Message
  /\ \A s \in Mode : State("changed", s) \in Message
  /\ \A s \in Mode \cup {"error"} : State("fetched", s) \in Message
  /\ \A v \in View, o \in Op \cup {NoOp} : Started(v, o) \in Message
  /\ \A o \in Op : Complete(o, TRUE) \in Message /\ Complete(o, FALSE) \in Message
  /\ Late \in Message
<1>1. ASSUME NEW o \in Op PROVE Complete(o, TRUE) \in Message /\ Complete(o, FALSE) \in Message
  BY DEF Message, Complete
<1>2. ASSUME NEW v \in View, NEW o \in Op \cup {NoOp} PROVE Started(v, o) \in Message
  BY DEF Message, Started
<1> QED
  BY <1>1, <1>2 DEF Message, Owner, Proxy, State, Late

LEMMA CallKinds ==
  ASSUME NEW c \in Calling
  PROVE  /\ c.c \in {"fetch", "ask"} /\ c.late \in BOOLEAN
         /\ c.c = "ask" => c.v \in View /\ c.d \in Nat
         /\ Failure(c) \in Message
         /\ \A m \in Message : Reply(c, m) \in Message
<1>1. CASE c \in [c : {"fetch"}, late : BOOLEAN]
  BY <1>1, MessageTypes DEF Failure, Reply
<1>2. CASE c \in [c : {"ask"}, v : View, d : Nat, late : BOOLEAN]
  BY <1>2, MessageTypes DEF Failure, Reply
<1> QED
  BY <1>1, <1>2 DEF Calling

LEMMA CallTypes ==
  /\ Fetch \in Calling
  /\ TypeOK => \A v \in View : Ask(v) \in Calling
BY DEF TypeOK, DialogTypes, Calling, Fetch, Ask

LEMMA GivenUp ==
  ASSUME NEW c \in Calling
  PROVE  [c EXCEPT !.late = TRUE] \in Calling /\ [c EXCEPT !.late = TRUE].late
<1>1. CASE c \in [c : {"fetch"}, late : BOOLEAN]
  BY <1>1 DEF Calling
<1>2. CASE c \in [c : {"ask"}, v : View, d : Nat, late : BOOLEAN]
  BY <1>2 DEF Calling
<1> QED
  BY <1>1, <1>2 DEF Calling

LEMMA CallbackTypes ==
  /\ \A s \in Mode : Update(s) \in Callback
  /\ Reset \in Callback
  /\ \A v \in View, o \in Op \cup {NoOp} : Store(v, o) \in Callback
<1>1. ASSUME NEW v \in View, NEW o \in Op \cup {NoOp} PROVE Store(v, o) \in Callback
  BY DEF Callback, Store
<1> QED
  BY <1>1 DEF Callback, Update, Reset

LEMMA CallbackKinds ==
  ASSUME NEW c \in Callback
  PROVE  /\ c.c = "update" => c.s \in Mode /\ c = Update(c.s)
         /\ c.c = "reset" => c = Reset
         /\ c.c = "store" => c.v \in View /\ c.o \in Op \cup {NoOp} /\ c = Store(c.v, c.o)
<1>1. CASE c \in [c : {"update"}, s : Mode]
  BY <1>1 DEF Update
<1>2. CASE c = Reset
  BY <1>2 DEF Reset
<1>3. CASE c \in [c : {"store"}, v : View, o : Op \cup {NoOp}]
  BY <1>3 DEF Store
<1> QED
  BY <1>1, <1>2, <1>3 DEF Callback

LEMMA FreshType ==
  /\ Fresh \in Op \cup {NoOp}
  /\ Fresh # NoOp => Fresh \in Op /\ answer[Fresh] = "none"
<1>1. CASE \E p \in Op : answer[p] = "none"
  <2>1. \E o \in Op \cup {NoOp} : o \in Op /\ answer[o] = "none"
    BY <1>1
  <2> QED
    BY <1>1, <2>1 DEF Fresh
<1>2. CASE ~ \E p \in Op : answer[p] = "none"
  <2>1. Fresh = NoOp
    BY <1>2 DEF Fresh
  <2> QED
    BY <2>1
<1> QED
  BY <1>1, <1>2

(* What is taken from the bus, or run from the idle queue.                  *)
LEMMA TakeTypes ==
  ASSUME TypeOK, NEW m, Take(m)
  PROVE  inbox # <<>> /\ Head(inbox) \in Message /\ Head(inbox).m = m
         /\ inbox' = Tail(inbox) /\ inbox' \in Seq(Message)
BY TailIndex DEF TypeOK, QueueTypes, Take

LEMMA RunTypes ==
  ASSUME TypeOK, NEW c, Run(c)
  PROVE  idleq # <<>> /\ Head(idleq) \in Callback /\ Head(idleq).c = c
         /\ idleq' = Tail(idleq) /\ idleq' \in Seq(Callback)
BY TailIndex DEF TypeOK, QueueTypes, Run

(* What is sent, told or put off.                                           *)
LEMMA Queued ==
  ASSUME TypeOK
  PROVE  /\ Append(calls, Fetch) \in Seq(Calling)
         /\ \A v \in View : Append(calls, Ask(v)) \in Seq(Calling)
         /\ \A m \in Message : Append(inbox, m) \in Seq(Message)
         /\ \A c \in Callback : Append(idleq, c) \in Seq(Callback)
<1>1. calls \in Seq(Calling) /\ inbox \in Seq(Message) /\ idleq \in Seq(Callback)
  BY DEF TypeOK, QueueTypes
<1> QED
  BY <1>1, Typing, CallTypes

LEMMA TypeInit == Init => TypeOK
<1> SUFFICES ASSUME Init PROVE TypeOK
  OBVIOUS
<1>1. mode \in Mode
  BY ClientConstants DEF Init
<1>2. DaemonTypes
  BY <1>1 DEF Init, SlotInit, DaemonTypes
<1>3. QueueTypes
  BY DEF Init, QueueTypes
<1>4. LinkTypes
  BY DEF Init, LinkTypes
<1>5. DialogTypes
  BY DEF Init, DialogTypes
<1> QED
  BY <1>2, <1>3, <1>4, <1>5 DEF TypeOK

LEMMA TypeStep == TypeOK /\ [Next]_vars => TypeOK'
<1> SUFFICES ASSUME TypeOK, [Next]_vars PROVE TypeOK'
  OBVIOUS
<1> USE DEF TypeOK, DaemonTypes, QueueTypes, LinkTypes, DialogTypes,
            bus, link, views, bounds, notes, slotVars
<1>1. CASE Activate
  <2>1. DaemonTypes'
    BY <1>1, MessageTypes DEF Activate, Begins, SlotStart, Tell
  <2>2. QueueTypes'
    <3>1. inbox' = Append(inbox, Owner(TRUE))
      BY <1>1 DEF Activate, Tell
    <3> QED
      BY <1>1, <3>1, MessageTypes, Queued DEF Activate
  <2>3. LinkTypes'
    BY <1>1, MessageTypes DEF Activate, Begins, SlotStart, Tell
  <2>4. DialogTypes'
    BY <1>1, MessageTypes DEF Activate, Begins, SlotStart, Tell
  <2> QED
    BY <2>1, <2>2, <2>3, <2>4 DEF TypeOK
<1>2. CASE Connect
  <2>0. inbox' \in Seq(Message)
    <3>1. CASE \E r \in {"up", "down", "failed"} : inbox' = Append(inbox, Proxy(r))
      BY <3>1, MessageTypes, Queued
    <3>2. CASE inbox' = inbox \o <<Owner(TRUE), Proxy("up")>>
      <4>1. <<Owner(TRUE), Proxy("up")>> \in Seq(Message)
        BY MessageTypes, Typing
      <4>2. inbox \o <<Owner(TRUE), Proxy("up")>> \in Seq(Message)
        BY <4>1, Typing
      <4> QED
        BY <3>2, <4>2
    <3> QED
      BY <1>2, <3>1, <3>2 DEF Connect, Tell
  <2>1. DaemonTypes'
    BY <1>2, <2>0 DEF Connect, Begins, SlotStart
  <2>2. QueueTypes'
    BY <1>2, <2>0 DEF Connect, Begins, SlotStart
  <2>3. LinkTypes'
    BY <1>2, <2>0 DEF Connect, Begins, SlotStart
  <2>4. DialogTypes'
    BY <1>2, <2>0 DEF Connect, Begins, SlotStart
  <2> QED
    BY <2>1, <2>2, <2>3, <2>4 DEF TypeOK
<1>3. CASE Serve
  <2>1. calls # <<>> /\ Head(calls) \in Calling /\ Tail(calls) \in Seq(Calling)
    BY <1>3, TailIndex DEF Serve
  <2>2. PICK c \in Calling : c = Head(calls)
    BY <2>1
  <2>3. calls' \in Seq(Calling)
    BY <1>3, <2>1 DEF Serve
  <2>4. \E m \in Message : inbox' = Append(inbox, Reply(c, m))
    <3>1. CASE c.c = "fetch" /\ Tell(Reply(c, State("fetched", mode)))
      BY <3>1, MessageTypes DEF Tell
    <3>2. CASE Fresh # NoOp /\ Tell(Reply(c, Started(c.v, Fresh))) /\ c.c = "ask"
      BY <3>2, FreshType, MessageTypes, CallKinds DEF Tell
    <3>3. CASE Tell(Reply(c, Failure(c)))
      BY <3>3, CallKinds DEF Tell
    <3> QED
      BY <1>3, <2>2, <3>1, <3>2, <3>3 DEF Serve
  <2>5. inbox' \in Seq(Message)
    BY <2>4, CallKinds
  <2>6. DaemonTypes' /\ work' \in Nat /\ asker' \in [Op -> Nat]
    <3>1. CASE UNCHANGED <<slotVars, work, asker>>
      BY <1>3, <3>1 DEF Serve
    <3>2. CASE c.c = "ask" /\ Fresh # NoOp /\ Work /\ SlotAccept(Fresh) /\ asker' = [asker EXCEPT ![Fresh] = c.d]
      <4>1. Fresh \in Op /\ c.d \in Nat
        BY <3>2, FreshType, CallKinds
      <4> QED
        BY <1>3, <3>2, <4>1 DEF Serve, SlotAccept, Work
    <3> QED
      BY <1>3, <2>2, <3>1, <3>2 DEF Serve
  <2> QED
    BY <1>3, <2>3, <2>5, <2>6 DEF Serve
<1>4. ASSUME NEW r \in {"ok", "failed"}, Answer(r) PROVE TypeOK'
  <2>1. owner \in Op
    BY <1>4, ClientConstants DEF Answer, SlotAnswer
  <2>2. inbox' \in Seq(Message)
    <3>1. inbox' = Append(inbox, Complete(owner, TRUE)) \/ inbox' = Append(inbox, Complete(owner, FALSE))
      BY <1>4 DEF Answer, Tell
    <3> QED
      BY <2>1, <3>1, MessageTypes, Queued
  <2>3. DaemonTypes'
    BY <1>4, <2>1 DEF Answer, SlotAnswer
  <2> QED
    BY <1>4, <2>2, <2>3 DEF Answer
<1>5. CASE Free
  BY <1>5 DEF Free, SlotFree
<1>6. CASE OnProxyReady
  <2>1. inbox' \in Seq(Message)
    BY <1>6, TakeTypes DEF OnProxyReady
  <2>2. calls' \in Seq(Calling)
    <3>1. calls' = calls \/ calls' = Append(calls, Fetch)
      BY <1>6 DEF OnProxyReady, Send
    <3> QED
      BY <3>1, Queued
  <2>3. LinkTypes'
    BY <1>6 DEF OnProxyReady
  <2> QED
    BY <1>6, <2>1, <2>2, <2>3 DEF OnProxyReady
<1>7. CASE OnOwner
  <2>1. inbox' \in Seq(Message) /\ Head(inbox).up \in BOOLEAN
    BY <1>7, TakeTypes, MessageKinds DEF OnOwner
  <2>2. calls' \in Seq(Calling) /\ idleq' \in Seq(Callback)
    <3>1. calls' = calls \/ calls' = Append(calls, Fetch)
      BY <1>7 DEF OnOwner, Send
    <3>2. idleq' = idleq \/ idleq' = Append(idleq, Reset)
      BY <1>7 DEF OnOwner, ResetLater, Later
    <3> QED
      BY <3>1, <3>2, CallbackTypes, Queued
  <2>3. LinkTypes'
    BY <1>7, <2>1 DEF OnOwner, ResetLater
  <2> QED
    BY <1>7, <2>1, <2>2, <2>3 DEF OnOwner
<1>8. CASE OnState
  <2>1. inbox' \in Seq(Message)
    BY <1>8, TakeTypes DEF OnState
  <2>2. Later(Update(Head(inbox).s)) => idleq' \in Seq(Callback)
    <3>1. Head(inbox).m = "changed" => Head(inbox).s \in Mode
      BY <1>8, TakeTypes, MessageKinds DEF OnState
    <3>2. Head(inbox).m = "fetched" /\ Head(inbox).s # "error" => Head(inbox).s \in Mode
      BY <1>8, TakeTypes, MessageKinds DEF OnState
    <3>3. Later(Update(Head(inbox).s)) => Head(inbox).s \in Mode \/ UNCHANGED idleq
      BY <1>8, <3>1, <3>2 DEF OnState, Take
    <3> QED
      BY <3>3, CallbackTypes DEF Later
  <2>3. idleq' \in Seq(Callback)
    BY <1>8, <2>2 DEF OnState
  <2> QED
    BY <1>8, <2>1, <2>3 DEF OnState
<1>9. CASE OnStarted
  <2>1. inbox' \in Seq(Message) /\ Head(inbox).v \in View /\ Head(inbox).o \in Op \cup {NoOp}
    BY <1>9, TakeTypes, MessageKinds DEF OnStarted
  <2>2. idleq' \in Seq(Callback)
    BY <1>9, <2>1, CallbackTypes DEF OnStarted, Later
  <2> QED
    BY <1>9, <2>1, <2>2 DEF OnStarted
<1>10. CASE OnComplete
  <2>1. inbox' \in Seq(Message)
    BY <1>10, TakeTypes DEF OnComplete
  <2>2. calls' \in Seq(Calling)
    <3>1. calls' = calls \/ \E v \in View : calls' = Append(calls, Ask(v))
      BY <1>10 DEF OnComplete, Send, Mine
    <3> QED
      BY <3>1, Queued
  <2>3. /\ current' \in [View -> Op \cup {NoOp}]
        /\ stage' \in [View -> Running \cup {"none", "preflight"}]
    BY <1>10 DEF OnComplete, Running
  <2>4. left' \in [View -> Int]
    BY <1>10 DEF OnComplete, Continues
  <2> QED
    BY <1>10, <2>1, <2>2, <2>3, <2>4 DEF OnComplete
<1>11. CASE Drop
  BY <1>11, TakeTypes DEF Drop
<1>12. CASE DoUpdate
  <2>1. idleq' \in Seq(Callback) /\ Head(idleq).s \in Mode
    BY <1>12, RunTypes, CallbackKinds DEF DoUpdate
  <2> QED
    BY <1>12, <2>1 DEF DoUpdate
<1>13. CASE DoReset
  <2>1. idleq' \in Seq(Callback)
    BY <1>13, RunTypes DEF DoReset
  <2> QED
    BY <1>13, <2>1 DEF DoReset
<1>14. CASE DoStore
  <2>1. idleq' \in Seq(Callback) /\ Head(idleq).v \in View /\ Head(idleq).o \in Op \cup {NoOp}
    BY <1>14, RunTypes, CallbackKinds DEF DoStore
  <2> QED
    BY <1>14, <2>1 DEF DoStore, Refused, Running
<1>15. CASE Retry
  <2>1. DaemonTypes' /\ QueueTypes' /\ DialogTypes'
    BY <1>15 DEF Retry
  <2>2. creating' \in Nat
    BY <1>15 DEF Retry
  <2>3. retry' \in BOOLEAN /\ UNCHANGED <<proxy, connected, shown, unfetched>>
    BY <1>15 DEF Retry
  <2> QED
    BY <2>1, <2>2, <2>3 DEF TypeOK
<1>16. CASE AcceptOther
  BY <1>16, FreshType DEF AcceptOther, SlotAccept, Work
<1>17. ASSUME NEW s \in Mode, Change(s) PROVE TypeOK'
  BY <1>17, MessageTypes DEF Change, Tell
<1>18. CASE Stop
  <2>1. PICK r : r = [i \in DOMAIN calls |-> Reply(calls[i], Failure(calls[i]))]
    OBVIOUS
  <2>2. DOMAIN r = 1 .. Len(calls) /\ Len(calls) \in Nat
    BY <2>1
  <2>3. \A i \in DOMAIN r : r[i] \in Message
    <3> SUFFICES ASSUME NEW i \in DOMAIN r PROVE r[i] \in Message
      OBVIOUS
    <3>1. calls[i] \in Calling
      BY <2>2
    <3> QED
      BY <2>1, <2>2, <3>1, CallKinds
  <2>4. r \in Seq(Message)
    BY <2>1, <2>2, <2>3
  <2>5. inbox' \in Seq(Message)
    <3>1. Append(inbox, Owner(FALSE)) \in Seq(Message)
      BY MessageTypes, Queued
    <3>2. Append(inbox, Owner(FALSE)) \o r \in Seq(Message)
      BY <2>4, <3>1, Typing
    <3> QED
      BY <1>18, <2>1, <3>2 DEF Stop
  <2>6. DaemonTypes'
    BY <1>18 DEF Stop, SlotStop
  <2>7. calls' \in Seq(Calling)
    BY <1>18 DEF Stop
  <2>8. LinkTypes' /\ DialogTypes'
    BY <1>18 DEF Stop
  <2> QED
    BY <1>18, <2>5, <2>6, <2>7, <2>8 DEF Stop
<1>19. ASSUME NEW i \in 1 .. Len(calls), TimeOut(i) PROVE TypeOK'
  <2>1. calls[i] \in Calling /\ Len(calls) \in Nat
    OBVIOUS
  <2>2. calls' \in Seq(Calling)
    BY <1>19, <2>1, GivenUp DEF TimeOut
  <2>3. inbox' \in Seq(Message)
    BY <1>19, <2>1, CallKinds DEF TimeOut, Tell
  <2> QED
    BY <1>19, <2>2, <2>3 DEF TimeOut
<1>20. CASE RetryClicked
  BY <1>20 DEF RetryClicked
<1>21. ASSUME NEW v \in View, OpenInstall(v) \/ OpenRollback(v) \/ OpenFix(v) PROVE TypeOK'
  <2>1. PICK k \in 1 .. 2 : OpenDialog(v, k)
    BY <1>21 DEF OpenInstall, OpenRollback, OpenFix
  <2> QED
    BY <2>1 DEF OpenDialog, Work
<1>22. ASSUME NEW v \in View, Confirm(v) PROVE TypeOK'
  <2>1. calls' \in Seq(Calling)
    BY <1>22, CallTypes DEF Confirm, Send
  <2>2. stage' \in [View -> Running \cup {"none", "preflight"}]
    BY <1>22 DEF Confirm, Running
  <2>3. left' \in [View -> Int]
    BY <1>22 DEF Confirm
  <2> QED
    BY <1>22, <2>1, <2>2, <2>3 DEF Confirm
<1>23. ASSUME NEW v \in View, Close(v) PROVE TypeOK'
  BY <1>23 DEF Close
<1>24. CASE UNCHANGED vars
  BY <1>24 DEF vars
<1> QED
  BY <1>1, <1>2, <1>3, <1>4, <1>5, <1>6, <1>7, <1>8, <1>9, <1>10, <1>11, <1>12, <1>13, <1>14, <1>15,
     <1>16, <1>17, <1>18, <1>19, <1>20, <1>21, <1>22, <1>23, <1>24
  DEF Next, Daemon, Handle, Idle

THEOREM TypeCorrect == Spec => []TypeOK
BY TypeInit, TypeStep, PTL DEF Spec
-----------------------------------------------------------------------------
(* The mirror.  What the bus has for the GUI, the callbacks it has put off   *)
(* and what it shows are read as one story of the daemon: the last word in  *)
(* it is true.                                                              *)

Comes   == Owner(TRUE)
Goes    == Owner(FALSE)
Ups     == {Comes, Proxy("up")}
Downs   == {Goes, Proxy("down"), Proxy("failed")}
Links   == Ups \cup Downs
Gone    == {Goes}
News    == Ups \cup {State(m, s) : m \in {"changed", "fetched"}, s \in Mode}
Newest(s) == Ups \cup {State(m, s) : m \in {"changed", "fetched"}}
Turns   == News \cup Gone
Error   == State("fetched", "error")
Words   == News \cup {Error}
Fetched == {State("fetched", s) : s \in Mode \cup {"error"}}
Fetches == {Fetch}
Shows   == {Update(s) : s \in Mode} \cup {Reset}
Showing(s) == {Update(s)}
Blanks  == {Reset}

(* The last that is said of the connection is so.                           *)
LinkTrue ==
  /\ LastIn(inbox, Links, IF alive THEN Ups ELSE Downs)
  /\ proxy = "ready" /\ None(inbox, Links) => connected = alive

(* The last news of a daemon that is up are its own, or make the GUI fetch  *)
(* them; those of one that is down end with its going.                      *)
NewsTrue ==
  IF alive THEN LastIn(inbox, News, Newest(mode)) ELSE LastIn(inbox, Turns, Gone)

(* Before there is a proxy nothing is asked for or shown.                   *)
Unlinked ==
  proxy # "ready" =>
    None(idleq, Shows) /\ shown \notin Mode /\ None(inbox, Fetched) /\ None(calls, Fetches)

Settles(A, B) == LastIn(idleq, Shows, A) /\ (None(idleq, Shows) => shown \in B)

(* With a daemon the state is shown, or will be, or is on its way.          *)
Current ==
  alive /\ proxy = "ready" =>
    \/ unfetched \/ ~None(calls, Fetches) \/ ~None(inbox, Words)
    \/ Settles(Showing(mode), {mode})

(* Without one none is shown, or a reset is to come.                        *)
Blank ==
  ~alive /\ proxy = "ready" => ~None(inbox, Gone) \/ Settles(Blanks, {"unknown", "unreachable"})

MirrorInv == LinkTrue /\ NewsTrue /\ Unlinked /\ Current /\ Blank

LEMMA Sorts ==
  /\ Comes.m = "owner" /\ Goes.m = "owner"
  /\ \A r : Proxy(r).m = "proxy"
  /\ \A m, s : State(m, s).m = m /\ State(m, s).s = s
  /\ \A v, o : Started(v, o).m = "started" /\ Started(v, o).v = v /\ Started(v, o).o = o
  /\ \A o : Complete(o, TRUE).m = "complete" /\ Complete(o, FALSE).m = "complete"
  /\ Late.m = "late"
<1>1. \A v, o : Started(v, o).m = "started" /\ Started(v, o).v = v /\ Started(v, o).o = o
  BY DEF Started
<1>2. \A o : Complete(o, TRUE).m = "complete" /\ Complete(o, FALSE).m = "complete"
  BY DEF Complete
<1> QED
  BY <1>1, <1>2 DEF Comes, Goes, Owner, Proxy, State, Late

LEMMA Kinds ==
  /\ \A h \in {Comes, Proxy("up")} :
       /\ h \in Ups /\ h \in Links /\ h \in News /\ h \in Turns /\ h \in Words
       /\ h \notin Downs /\ h \notin Gone /\ h \notin Fetched
       /\ \A s : h \in Newest(s)
  /\ \A h \in {Goes, Proxy("down"), Proxy("failed")} :
       h \in Downs /\ h \in Links /\ h \notin Ups /\ h \notin News /\ h \notin Words /\ h \notin Fetched
  /\ Goes \in Gone /\ Goes \in Turns
  /\ \A h \in {Proxy("down"), Proxy("failed")} : h \notin Gone /\ h \notin Turns
  /\ \A s \in Mode : \A h \in {State("changed", s), State("fetched", s)} :
       /\ h \in News /\ h \in Turns /\ h \in Words /\ h \notin Links /\ h \notin Gone
       /\ \A m \in Mode : h \in Newest(m) <=> s = m
  /\ \A s \in Mode : State("changed", s) \notin Fetched /\ State("fetched", s) \in Fetched
  /\ Error \in Fetched /\ Error \in Words
  /\ Error \notin News /\ Error \notin Turns /\ Error \notin Links /\ Error \notin Gone
<1>0. /\ Proxy("down") # Goes /\ Proxy("failed") # Goes
      /\ Error # Goes /\ Error # Comes /\ \A r : Error # Proxy(r)
  BY Sorts DEF Error
<1>1. "error" \notin Mode
  BY ClientConstants
<1> USE DEF Comes, Goes, Owner, Proxy, State, Ups, Downs, Links, Gone, News, Newest, Turns, Error, Words, Fetched
<1>2. \A h \in {Comes, Proxy("up")} :
       /\ h \in Ups /\ h \in Links /\ h \in News /\ h \in Turns /\ h \in Words
       /\ h \notin Downs /\ h \notin Gone /\ h \notin Fetched
       /\ \A s : h \in Newest(s)
  OBVIOUS
<1>3. \A h \in {Goes, Proxy("down"), Proxy("failed")} :
       h \in Downs /\ h \in Links /\ h \notin Ups /\ h \notin News /\ h \notin Words /\ h \notin Fetched
  OBVIOUS
<1>4. /\ Goes \in Gone /\ Goes \in Turns
      /\ \A h \in {Proxy("down"), Proxy("failed")} : h \notin Gone /\ h \notin Turns
  <2>1. Goes \in Gone /\ Goes \in Turns
    OBVIOUS
  <2>2. Proxy("down") \notin Gone /\ Proxy("failed") \notin Gone
    <3> HIDE DEF Proxy, Comes, Goes
    <3> QED
      BY <1>0
  <2> HIDE DEF Comes, Goes, Proxy, Gone, News
  <2> QED
    BY <1>3, <2>1, <2>2
<1>5. ASSUME NEW s \in Mode, NEW h \in {State("changed", s), State("fetched", s)}
      PROVE  /\ h \in News /\ h \in Turns /\ h \in Words /\ h \notin Links /\ h \notin Gone
             /\ \A m \in Mode : h \in Newest(m) <=> s = m
  OBVIOUS
<1>6. \A s \in Mode : State("changed", s) \notin Fetched /\ State("fetched", s) \in Fetched
  OBVIOUS
<1>7. /\ Error \in Fetched /\ Error \in Words
      /\ Error \notin News /\ Error \notin Turns /\ Error \notin Links /\ Error \notin Gone
  <2>1. Error \in Fetched /\ Error \in Words
    OBVIOUS
  <2>2. Error \notin Links /\ Error \notin Gone
    <3> HIDE DEF Proxy, Comes, Goes, Error
    <3> QED
      BY <1>0
  <2>3. \A m, s : s \in Mode => Error # State(m, s)
    <3> HIDE DEF State
    <3> QED
      BY <1>1, Sorts
  <2> HIDE DEF Comes, Goes, Proxy, State, Error, Gone, Links, Ups, Words, Fetched
  <2>4. Error \notin Ups
    BY <2>2 DEF Links
  <2> HIDE DEF News, Turns
  <2>5. Error \notin News
    BY <2>3, <2>4 DEF News
  <2>6. Error \notin Turns
    BY <2>2, <2>5 DEF Turns
  <2> QED
    BY <2>1, <2>2, <2>5, <2>6
<1> HIDE DEF Comes, Goes, Owner, Proxy, State, Ups, Downs, Links, Gone, News, Newest, Turns, Error, Words, Fetched
<1> QED
  BY <1>2, <1>3, <1>4, <1>5, <1>6, <1>7

(* What says nothing of the daemon.                                         *)
LEMMA SaysNothing ==
  ASSUME NEW h, h.m \in {"started", "complete", "late"}
  PROVE  /\ h \notin Ups /\ h \notin Downs /\ h \notin Links /\ h \notin News /\ h \notin Turns
         /\ h \notin Words /\ h \notin Gone /\ h \notin Fetched
<1>1. h \notin Ups /\ h \notin Downs
  BY Sorts DEF Ups, Downs
<1>2. h \notin {State(m, s) : m \in {"changed", "fetched"}, s \in Mode} /\ h # Error /\ h \notin Fetched
  BY Sorts DEF Error, Fetched
<1>3. h \notin Gone
  BY Sorts DEF Gone
<1> QED
  BY <1>1, <1>2, <1>3 DEF Links, News, Turns, Words

LEMMA CallbackSorts ==
  /\ \A s \in Mode : Update(s) \in Shows /\ Update(s) \notin Blanks
                     /\ \A m \in Mode : Update(s) \in Showing(m) <=> s = m
  /\ Reset \in Shows /\ Reset \in Blanks /\ \A s : Reset \notin Showing(s)
  /\ \A v, o : Store(v, o) \notin Shows
BY DEF Update, Reset, Store, Shows, Showing, Blanks

LEMMA CallSorts ==
  /\ Fetch \in Fetches
  /\ \A v : Ask(v) \notin Fetches
  /\ \A c \in Calling : c \in Fetches <=> c.c = "fetch" /\ ~c.late
<1>1. ASSUME NEW c \in Calling PROVE c \in Fetches <=> c.c = "fetch" /\ ~c.late
  <2>1. CASE c \in [c : {"fetch"}, late : BOOLEAN]
    BY <2>1 DEF Fetches, Fetch
  <2>2. CASE c \in [c : {"ask"}, v : View, d : Nat, late : BOOLEAN]
    BY <2>2 DEF Fetches, Fetch
  <2> QED
    BY <2>1, <2>2 DEF Calling
<1> QED
  BY <1>1 DEF Fetches, Fetch, Ask

(* How a queue's story goes on.                                             *)
LEMMA Took ==
  ASSUME TypeOK, NEW m, Take(m)
  PROVE  \E h \in Message :
           /\ h = Head(inbox) /\ h.m = m
           /\ \A A : None(inbox, A) <=> h \notin A /\ None(inbox', A)
           /\ \A A, B : LastIn(inbox, A, B) <=>
                          LastIn(inbox', A, B) /\ (h \in A /\ None(inbox', A) => h \in B)
           /\ \A A : Once(inbox, A) <=> Once(inbox', A) /\ (h \in A => None(inbox', A))
<1>1. inbox \in Seq(Message) /\ inbox # <<>> /\ inbox' = Tail(inbox) /\ Head(inbox) \in Message /\ Head(inbox).m = m
  BY TakeTypes DEF TypeOK, QueueTypes
<1>2. \A A : /\ None(inbox, A) <=> Head(inbox) \notin A /\ None(Tail(inbox), A)
             /\ \A B : LastIn(inbox, A, B) <=> /\ LastIn(Tail(inbox), A, B)
                                               /\ Head(inbox) \in A /\ None(Tail(inbox), A) => Head(inbox) \in B
             /\ Once(inbox, A) <=> Once(Tail(inbox), A) /\ (Head(inbox) \in A => None(Tail(inbox), A))
  BY <1>1, Taking
<1> QED
  BY <1>1, <1>2

LEMMA Ran ==
  ASSUME TypeOK, NEW k, Run(k)
  PROVE  \E c \in Callback :
           /\ c = Head(idleq) /\ c.c = k
           /\ \A A : None(idleq, A) <=> c \notin A /\ None(idleq', A)
           /\ \A A, B : LastIn(idleq, A, B) <=>
                          LastIn(idleq', A, B) /\ (c \in A /\ None(idleq', A) => c \in B)
           /\ \A A : Once(idleq, A) <=> Once(idleq', A) /\ (c \in A => None(idleq', A))
<1>1. idleq \in Seq(Callback) /\ idleq # <<>> /\ idleq' = Tail(idleq) /\ Head(idleq) \in Callback /\ Head(idleq).c = k
  BY RunTypes DEF TypeOK, QueueTypes
<1>2. \A A : /\ None(idleq, A) <=> Head(idleq) \notin A /\ None(Tail(idleq), A)
             /\ \A B : LastIn(idleq, A, B) <=> /\ LastIn(Tail(idleq), A, B)
                                               /\ Head(idleq) \in A /\ None(Tail(idleq), A) => Head(idleq) \in B
             /\ Once(idleq, A) <=> Once(Tail(idleq), A) /\ (Head(idleq) \in A => None(Tail(idleq), A))
  BY <1>1, Taking
<1> QED
  BY <1>1, <1>2

LEMMA Heard ==
  ASSUME TypeOK, NEW h, inbox' = Append(inbox, h)
  PROVE  /\ \A A : None(inbox', A) <=> None(inbox, A) /\ h \notin A
         /\ \A A, B : LastIn(inbox', A, B) <=> IF h \in A THEN h \in B ELSE LastIn(inbox, A, B)
         /\ \A A : Once(inbox', A) <=> Once(inbox, A) /\ (h \in A => None(inbox, A))
BY Adding DEF TypeOK, QueueTypes

LEMMA PutOff ==
  ASSUME TypeOK, NEW c, idleq' = Append(idleq, c)
  PROVE  /\ \A A : None(idleq', A) <=> None(idleq, A) /\ c \notin A
         /\ \A A, B : LastIn(idleq', A, B) <=> IF c \in A THEN c \in B ELSE LastIn(idleq, A, B)
         /\ \A A : Once(idleq', A) <=> Once(idleq, A) /\ (c \in A => None(idleq, A))
BY Adding DEF TypeOK, QueueTypes

LEMMA Asked ==
  ASSUME TypeOK, NEW c, calls' = Append(calls, c)
  PROVE  /\ \A A : None(calls', A) <=> None(calls, A) /\ c \notin A
         /\ \A A : Once(calls', A) <=> Once(calls, A) /\ (c \in A => None(calls, A))
BY Adding DEF TypeOK, QueueTypes

LEMMA Served ==
  ASSUME TypeOK, calls # <<>>, calls' = Tail(calls)
  PROVE  \E c \in Calling :
           /\ c = Head(calls)
           /\ \A A : None(calls, A) <=> c \notin A /\ None(calls', A)
           /\ \A A : Once(calls, A) <=> Once(calls', A) /\ (c \in A => None(calls', A))
<1>1. calls \in Seq(Calling) /\ Head(calls) \in Calling
  BY TailIndex DEF TypeOK, QueueTypes
<1>2. \A A : /\ None(calls, A) <=> Head(calls) \notin A /\ None(Tail(calls), A)
             /\ Once(calls, A) <=> Once(Tail(calls), A) /\ (Head(calls) \in A => None(Tail(calls), A))
  BY <1>1, Taking
<1> QED
  BY <1>1, <1>2

mirror == <<alive, mode, calls, inbox, idleq, proxy, connected, shown, unfetched>>

LEMMA MirrorFrame == MirrorInv /\ UNCHANGED mirror => MirrorInv'
BY DEF mirror, MirrorInv, LinkTrue, NewsTrue, Unlinked, Settles, Current, Blank

(* What says nothing leaves the mirror as true as it was.                   *)
LEMMA MirrorHears ==
  ASSUME TypeOK, MirrorInv, NEW h, h.m \in {"started", "complete", "late"},
         inbox' = Append(inbox, h), None(calls', Fetches) <=> None(calls, Fetches),
         UNCHANGED <<alive, mode, idleq, proxy, connected, shown, unfetched>>
  PROVE  MirrorInv'
<1>1. /\ h \notin Links /\ h \notin News /\ h \notin Turns
      /\ h \notin Words /\ h \notin Gone /\ h \notin Fetched
  BY SaysNothing
<1>2. /\ \A A : None(inbox', A) <=> None(inbox, A) /\ h \notin A
      /\ \A A, B : LastIn(inbox', A, B) <=> IF h \in A THEN h \in B ELSE LastIn(inbox, A, B)
  BY Heard
<1>3. LinkTrue'
  BY <1>1, <1>2 DEF MirrorInv, LinkTrue
<1>4. NewsTrue'
  BY <1>1, <1>2 DEF MirrorInv, NewsTrue
<1>5. Unlinked'
  BY <1>1, <1>2 DEF MirrorInv, Unlinked
<1>6. Current'
  BY <1>1, <1>2 DEF MirrorInv, Current, Settles, TypeOK, LinkTypes
<1>7. Blank'
  BY <1>1, <1>2 DEF MirrorInv, Blank, Settles
<1> QED
  BY <1>3, <1>4, <1>5, <1>6, <1>7 DEF MirrorInv

(* What is taken and says nothing, while no degraded state is put off.      *)
LEMMA MirrorTakes ==
  ASSUME TypeOK, MirrorInv, NEW m \in {"started", "complete", "late"}, Take(m),
         None(calls', Fetches) <=> None(calls, Fetches),
         idleq' = idleq \/ \E v, o : idleq' = Append(idleq, Store(v, o)),
         UNCHANGED <<alive, mode, proxy, connected, shown, unfetched>>
  PROVE  MirrorInv'
<1>1. PICK h \in Message :
        /\ h.m = m
        /\ \A A : None(inbox, A) <=> h \notin A /\ None(inbox', A)
        /\ \A A, B : LastIn(inbox, A, B) <=>
                       LastIn(inbox', A, B) /\ (h \in A /\ None(inbox', A) => h \in B)
  BY Took
<1>2. /\ h \notin Links /\ h \notin News /\ h \notin Turns
      /\ h \notin Words /\ h \notin Gone /\ h \notin Fetched
  BY <1>1, SaysNothing
<1>3. /\ None(idleq', Shows) <=> None(idleq, Shows)
      /\ \A B : LastIn(idleq', Shows, B) <=> LastIn(idleq, Shows, B)
  <2>1. CASE idleq' = idleq
    BY <2>1
  <2>2. ASSUME NEW v, NEW o, idleq' = Append(idleq, Store(v, o))
        PROVE  /\ None(idleq', Shows) <=> None(idleq, Shows)
               /\ \A B : LastIn(idleq', Shows, B) <=> LastIn(idleq, Shows, B)
    BY <2>2, PutOff, CallbackSorts
  <2> QED
    BY <2>1, <2>2
<1>4. LinkTrue'
  BY <1>1, <1>2 DEF MirrorInv, LinkTrue
<1>5. NewsTrue'
  BY <1>1, <1>2 DEF MirrorInv, NewsTrue
<1>6. Unlinked'
  BY <1>1, <1>2, <1>3 DEF MirrorInv, Unlinked
<1>7. Current'
  BY <1>1, <1>2, <1>3 DEF MirrorInv, Current, Settles
<1>8. Blank'
  BY <1>1, <1>2, <1>3 DEF MirrorInv, Blank, Settles
<1> QED
  BY <1>4, <1>5, <1>6, <1>7, <1>8 DEF MirrorInv

LEMMA MirrorInit == Init => MirrorInv
<1> SUFFICES ASSUME Init PROVE MirrorInv
  OBVIOUS
<1>1. \A A : None(calls, A) /\ None(inbox, A) /\ None(idleq, A)
  BY DEF Init, None
<1>2. shown \notin Mode /\ proxy = "none"
  BY ClientConstants DEF Init
<1> QED
  BY <1>1, <1>2 DEF MirrorInv, LinkTrue, NewsTrue, Unlinked, Current, Blank, LastIn

(* A daemon is up, and the last that is said is that it is.                 *)
LEMMA MirrorUp ==
  ASSUME TypeOK, MirrorInv, NEW q \in Seq(Message), NEW h \in {Comes, Proxy("up")},
         inbox' = Append(q, h), None(inbox, Fetched) => None(q, Fetched), alive' = TRUE,
         UNCHANGED <<calls, idleq, proxy, shown>>
  PROVE  MirrorInv'
<1>1. /\ \A A : None(inbox', A) <=> None(q, A) /\ h \notin A
      /\ \A A, B : LastIn(inbox', A, B) <=> IF h \in A THEN h \in B ELSE LastIn(q, A, B)
  BY Adding
<1>2. LinkTrue'
  BY <1>1, Kinds DEF LinkTrue
<1>3. NewsTrue'
  BY <1>1, Kinds DEF NewsTrue
<1>4. Unlinked'
  BY <1>1, Kinds DEF MirrorInv, Unlinked
<1>5. Current'
  BY <1>1, Kinds DEF Current
<1>6. Blank'
  BY DEF Blank
<1> QED
  BY <1>2, <1>3, <1>4, <1>5, <1>6 DEF MirrorInv

LEMMA MirrorActivate == TypeOK /\ MirrorInv /\ Activate => MirrorInv'
<1> SUFFICES ASSUME TypeOK, MirrorInv, Activate PROVE MirrorInv'
  OBVIOUS
<1>1. inbox' = Append(inbox, Comes) /\ alive' = TRUE /\ UNCHANGED <<calls, idleq, proxy, shown>>
  BY DEF Activate, Begins, SlotStart, Tell, Comes, link
<1> QED
  BY <1>1, MirrorUp DEF TypeOK, QueueTypes

LEMMA MirrorConnect == TypeOK /\ MirrorInv /\ Connect => MirrorInv'
<1> SUFFICES ASSUME TypeOK, MirrorInv, Connect PROVE MirrorInv'
  OBVIOUS
<1>1. inbox \in Seq(Message) /\ UNCHANGED <<calls, idleq, proxy, connected, shown, unfetched>>
  BY DEF Connect, TypeOK, QueueTypes
<1>2. CASE alive /\ Tell(Proxy("up")) /\ UNCHANGED slotVars
  BY <1>1, <1>2, MirrorUp DEF Tell, slotVars
<1>3. CASE Begins /\ inbox' = inbox \o <<Owner(TRUE), Proxy("up")>>
  <2>1. Append(inbox, Comes) \in Seq(Message)
    BY <1>1, MessageTypes, Queued DEF Comes
  <2>2. inbox' = Append(Append(inbox, Comes), Proxy("up"))
    <3>1. Comes \in Message /\ Proxy("up") \in Message /\ inbox' = inbox \o <<Comes, Proxy("up")>>
      BY <1>3, MessageTypes DEF Comes
    <3> QED
      BY <1>1, <3>1, Pairing
  <2>3. None(inbox, Fetched) => None(Append(inbox, Comes), Fetched)
    BY <1>1, Adding, Kinds
  <2> QED
    BY <1>1, <1>3, <2>1, <2>2, <2>3, MirrorUp DEF Begins, SlotStart
<1>4. ASSUME NEW r \in {"down", "failed"}, ~alive, Tell(Proxy(r)), UNCHANGED <<slotVars, mode>>
      PROVE  MirrorInv'
  <2>1. /\ \A A : None(inbox', A) <=> None(inbox, A) /\ Proxy(r) \notin A
        /\ \A A, B : LastIn(inbox', A, B) <=> IF Proxy(r) \in A THEN Proxy(r) \in B ELSE LastIn(inbox, A, B)
    BY <1>4, Heard DEF Tell
  <2>2. /\ Proxy(r) \in Downs /\ Proxy(r) \in Links
        /\ Proxy(r) \notin Turns /\ Proxy(r) \notin Gone /\ Proxy(r) \notin Fetched
    BY Kinds
  <2>3. ~alive' /\ ~alive
    BY <1>4 DEF slotVars
  <2>4. LinkTrue'
    BY <2>1, <2>2, <2>3 DEF LinkTrue
  <2>5. NewsTrue'
    BY <2>1, <2>2, <2>3 DEF MirrorInv, NewsTrue
  <2>6. Unlinked'
    BY <1>1, <2>1, <2>2 DEF MirrorInv, Unlinked
  <2>7. Current'
    BY <2>3 DEF Current
  <2>8. Blank'
    BY <1>1, <2>1, <2>2, <2>3 DEF MirrorInv, Blank, Settles
  <2> QED
    BY <2>4, <2>5, <2>6, <2>7, <2>8 DEF MirrorInv
<1> QED
  BY <1>2, <1>3, <1>4 DEF Connect

(* The daemon says how the GPU is.                                          *)
LEMMA MirrorTold ==
  ASSUME TypeOK, MirrorInv, NEW m \in {"changed", "fetched"}, inbox' = Append(inbox, State(m, mode')),
         m = "fetched" => proxy = "ready", mode' \in Mode, alive, None(calls, Fetches) => None(calls', Fetches),
         UNCHANGED <<alive, idleq, proxy, connected, shown, unfetched>>
  PROVE  MirrorInv'
<1>1. PICK s, h : s = mode' /\ h = State(m, s)
  OBVIOUS
<1>2. /\ h \in News /\ h \in Words /\ h \notin Links /\ h \in Newest(s) /\ (m = "changed" => h \notin Fetched)
  BY <1>1, Kinds
<1>3. /\ \A A : None(inbox', A) <=> None(inbox, A) /\ h \notin A
      /\ \A A, B : LastIn(inbox', A, B) <=> IF h \in A THEN h \in B ELSE LastIn(inbox, A, B)
  BY <1>1, Heard
<1>4. LinkTrue'
  BY <1>2, <1>3 DEF MirrorInv, LinkTrue
<1>5. NewsTrue'
  <2>1. LastIn(inbox', News, Newest(s))
    BY <1>2, <1>3
  <2> QED
    BY <1>1, <2>1 DEF NewsTrue
<1>6. Unlinked'
  BY <1>2, <1>3 DEF MirrorInv, Unlinked
<1>7. Current'
  BY <1>2, <1>3 DEF Current
<1>8. Blank'
  BY DEF Blank
<1> QED
  BY <1>4, <1>5, <1>6, <1>7, <1>8 DEF MirrorInv

LEMMA MirrorServe == TypeOK /\ MirrorInv /\ Serve => MirrorInv'
<1> SUFFICES ASSUME TypeOK, MirrorInv, Serve PROVE MirrorInv'
  OBVIOUS
<1>1. PICK c \in Calling :
        /\ c = Head(calls)
        /\ \A A : None(calls, A) <=> c \notin A /\ None(calls', A)
  BY Served DEF Serve
<1>2. /\ alive' = alive /\ alive /\ mode \in Mode
      /\ UNCHANGED <<mode, idleq, proxy, connected, shown, unfetched>>
  BY DEF Serve, SlotAccept, slotVars, link, TypeOK, DaemonTypes
<1>3. c \in Fetches <=> c.c = "fetch" /\ ~c.late
  BY CallSorts
<1>4. ASSUME NEW m, inbox' = Append(inbox, Reply(c, m)), c \notin Fetches, c.c = "ask" => m.m = "started"
      PROVE  MirrorInv'
  <2>1. PICK h : h = Reply(c, m)
    OBVIOUS
  <2>2. h.m \in {"started", "late"}
    BY <1>3, <1>4, <2>1, CallKinds DEF Reply, Late
  <2>3. None(calls', Fetches) <=> None(calls, Fetches)
    BY <1>1, <1>4
  <2> QED
    BY <1>2, <1>4, <2>1, <2>2, <2>3, MirrorHears
<1>5. CASE c.c = "fetch" /\ Tell(Reply(c, State("fetched", mode)))
  <2>1. CASE c.late
    BY <1>3, <1>4, <1>5, <2>1 DEF Tell
  <2>2. CASE ~c.late
    <3>1. inbox' = Append(inbox, State("fetched", mode')) /\ c \in Fetches
      BY <1>2, <1>3, <1>5, <2>2 DEF Tell, Reply
    <3>2. proxy = "ready" /\ (None(calls, Fetches) => None(calls', Fetches))
      BY <1>1, <3>1 DEF MirrorInv, Unlinked
    <3> QED
      BY <1>2, <3>1, <3>2, MirrorTold
  <2> QED
    BY <2>1, <2>2
<1>6. ASSUME NEW o, c.c = "ask", Tell(Reply(c, Started(c.v, o))) PROVE MirrorInv'
  BY <1>3, <1>4, <1>6 DEF Tell, Started
<1> QED
  BY <1>1, <1>5, <1>6 DEF Serve, Failure

LEMMA MirrorAnswer ==
  ASSUME TypeOK, MirrorInv, NEW r \in {"ok", "failed"}, Answer(r)
  PROVE  MirrorInv'
<1>1. PICK ok \in BOOLEAN : ok <=> r = "ok"
  OBVIOUS
<1>2. \E h : h.m = "complete" /\ inbox' = Append(inbox, h)
  <2>1. CASE r = "ok"
    BY <2>1, Sorts DEF Answer, Tell
  <2>2. CASE r = "failed"
    BY <2>2, Sorts DEF Answer, Tell
  <2> QED
    BY <2>1, <2>2
<1> QED
  BY <1>2, MirrorHears DEF Answer, SlotAnswer, link

LEMMA MirrorChange ==
  ASSUME TypeOK, MirrorInv, NEW s \in Mode, Change(s)
  PROVE  MirrorInv'
<1>1. inbox' = Append(inbox, State("changed", mode')) /\ mode' \in Mode
  BY DEF Change, Tell
<1> QED
  BY <1>1, MirrorTold DEF Change, slotVars, link

LEMMA FailureKinds ==
  ASSUME NEW c \in Calling
  PROVE  \/ Reply(c, Failure(c)).m \in {"started", "late"}
         \/ Reply(c, Failure(c)) = Error /\ c \in Fetches
<1>1. CASE c.late
  BY <1>1, Sorts DEF Reply
<1>2. CASE ~c.late /\ c.c = "fetch"
  BY <1>2, CallSorts DEF Reply, Failure, Error
<1>3. CASE ~c.late /\ c.c = "ask"
  BY <1>3, Sorts DEF Reply, Failure
<1> QED
  BY <1>1, <1>2, <1>3, CallKinds

(* What the daemon's going answers.                                         *)
LEMMA Stopped ==
  ASSUME TypeOK, Stop
  PROVE  \E r \in Seq(Message) :
           /\ inbox' = Append(inbox, Goes) \o r /\ Append(inbox, Goes) \in Seq(Message)
           /\ DOMAIN r = DOMAIN calls
           /\ \A i \in DOMAIN r : /\ calls[i] \in Calling /\ r[i] \in Message
                                 /\ r[i] = Reply(calls[i], Failure(calls[i]))
           /\ calls' = <<>>
<1>1. PICK r : r = [i \in DOMAIN calls |-> Reply(calls[i], Failure(calls[i]))]
  OBVIOUS
<1>2. calls \in Seq(Calling)
  BY DEF TypeOK, QueueTypes
<1>3. \A i \in DOMAIN r : /\ calls[i] \in Calling /\ r[i] \in Message
                         /\ r[i] = Reply(calls[i], Failure(calls[i]))
  <2> SUFFICES ASSUME NEW i \in DOMAIN r
               PROVE  /\ calls[i] \in Calling /\ r[i] \in Message
                      /\ r[i] = Reply(calls[i], Failure(calls[i]))
    OBVIOUS
  <2>1. r[i] = Reply(calls[i], Failure(calls[i])) /\ calls[i] \in Calling
    BY <1>1, <1>2
  <2> QED
    BY <2>1, CallKinds
<1>4. r \in Seq(Message) /\ DOMAIN r = DOMAIN calls
  BY <1>1, <1>2, <1>3
<1>5. inbox' = Append(inbox, Goes) \o r /\ calls' = <<>>
  BY <1>1 DEF Stop, Goes
<1>6. Append(inbox, Goes) \in Seq(Message)
  BY MessageTypes, Queued DEF Goes
<1> QED
  BY <1>3, <1>4, <1>5, <1>6

LEMMA MirrorStop == TypeOK /\ MirrorInv /\ Stop => MirrorInv'
<1> SUFFICES ASSUME TypeOK, MirrorInv, Stop PROVE MirrorInv'
  OBVIOUS
<1>1. PICK r \in Seq(Message) :
        /\ inbox' = Append(inbox, Goes) \o r /\ Append(inbox, Goes) \in Seq(Message) /\ calls' = <<>>
        /\ DOMAIN r = DOMAIN calls
        /\ \A i \in DOMAIN r : calls[i] \in Calling /\ r[i] = Reply(calls[i], Failure(calls[i]))
  BY Stopped
<1>2. inbox \in Seq(Message) /\ r \in Seq(Message)
  BY DEF TypeOK, QueueTypes
<1>3. ASSUME NEW i \in DOMAIN r
      PROVE  r[i].m \in {"started", "late"} \/ (r[i] = Error /\ calls[i] \in Fetches)
  BY <1>1, FailureKinds
<1>4. None(r, Links) /\ None(r, Turns) /\ (None(calls, Fetches) => None(r, Fetched))
  <2>1. \A i \in DOMAIN r : r[i] \notin Links /\ r[i] \notin Turns
    BY <1>3, Kinds, SaysNothing
  <2>2. ASSUME None(calls, Fetches), NEW i \in DOMAIN r PROVE r[i] \notin Fetched
    <3>1. calls[i] \notin Fetches
      BY <1>1, <2>2 DEF None
    <3> QED
      BY <1>3, <3>1, SaysNothing
  <2> QED
    BY <2>1, <2>2 DEF None
<1>5. alive' = FALSE /\ UNCHANGED <<idleq, proxy, connected, shown, unfetched>>
  BY DEF Stop, SlotStop, link
<1>6. /\ \A A : None(inbox', A) <=> None(inbox, A) /\ Goes \notin A /\ None(r, A)
      /\ \A A, B : None(r, A) /\ Goes \in A => (LastIn(inbox', A, B) <=> Goes \in B)
  <2>1. /\ \A A : None(inbox', A) <=> None(Append(inbox, Goes), A) /\ None(r, A)
        /\ \A A, B : None(r, A) => (LastIn(inbox', A, B) <=> LastIn(Append(inbox, Goes), A, B))
    BY <1>1, <1>2, Joining
  <2>2. /\ \A A : None(Append(inbox, Goes), A) <=> None(inbox, A) /\ Goes \notin A
        /\ \A A, B : Goes \in A => (LastIn(Append(inbox, Goes), A, B) <=> Goes \in B)
    BY <1>2, Adding
  <2> QED
    BY <2>1, <2>2
<1>7. LinkTrue'
  BY <1>4, <1>5, <1>6, Kinds DEF LinkTrue
<1>8. NewsTrue'
  BY <1>4, <1>5, <1>6, Kinds DEF NewsTrue
<1>9. Unlinked'
  <2>1. None(calls', Fetches)
    BY <1>1 DEF None
  <2> QED
    BY <1>4, <1>5, <1>6, <2>1, Kinds DEF MirrorInv, Unlinked
<1>10. Current'
  BY <1>5 DEF Current
<1>11. Blank'
  BY <1>6, Kinds DEF Blank
<1> QED
  BY <1>7, <1>8, <1>9, <1>10, <1>11 DEF MirrorInv

LEMMA MirrorTimeOut ==
  ASSUME TypeOK, MirrorInv, NEW i, TimeOut(i)
  PROVE  MirrorInv'
<1>1. /\ calls \in Seq(Calling) /\ i \in DOMAIN calls /\ ~calls[i].late /\ calls[i] \in Calling
      /\ calls' = [calls EXCEPT ![i].late = TRUE] /\ inbox' = Append(inbox, Failure(calls[i]))
      /\ UNCHANGED <<alive, mode, idleq, proxy, connected, shown, unfetched>>
  BY DEF TypeOK, QueueTypes, TimeOut, Tell, slotVars, link
<1>2. /\ DOMAIN calls' = DOMAIN calls
      /\ \A j \in DOMAIN calls : j # i => calls'[j] = calls[j]
      /\ calls'[i] = [calls[i] EXCEPT !.late = TRUE]
  BY <1>1
<1>3. calls'[i] \notin Fetches
  BY <1>1, <1>2, GivenUp, CallSorts
<1>4. None(calls, Fetches) => None(calls', Fetches)
  BY <1>2, <1>3 DEF None
<1>5. CASE calls[i].c = "ask"
  <2>1. PICK h : h = Failure(calls[i]) /\ h.m = "started"
    BY <1>5, Sorts DEF Failure
  <2>2. calls[i] \notin Fetches
    BY <1>1, <1>5, CallSorts
  <2>3. None(calls', Fetches) => None(calls, Fetches)
    BY <1>2, <2>2 DEF None
  <2>4. inbox' = Append(inbox, h) /\ UNCHANGED <<alive, mode, idleq, proxy, connected, shown, unfetched>>
    BY <1>1, <2>1
  <2> QED
    BY <1>4, <2>1, <2>3, <2>4, MirrorHears
<1>6. CASE calls[i].c = "fetch"
  <2>1. inbox' = Append(inbox, Error)
    BY <1>1, <1>6 DEF Failure, Error
  <2>2. /\ \A A : None(inbox', A) <=> None(inbox, A) /\ Error \notin A
        /\ \A A, B : LastIn(inbox', A, B) <=> IF Error \in A THEN Error \in B ELSE LastIn(inbox, A, B)
    BY <2>1, Heard
  <2>3. proxy = "ready"
    <3>1. calls[i] \in Fetches
      BY <1>1, <1>6, CallSorts
    <3> QED
      BY <1>1, <3>1 DEF MirrorInv, Unlinked, None
  <2>4. LinkTrue'
    BY <1>1, <2>2, Kinds DEF MirrorInv, LinkTrue
  <2>5. NewsTrue'
    BY <1>1, <2>2, Kinds DEF MirrorInv, NewsTrue
  <2>6. Unlinked'
    BY <1>1, <2>3 DEF Unlinked
  <2>7. Current'
    BY <2>2, Kinds DEF Current
  <2>8. Blank'
    BY <1>1, <2>2, Kinds DEF MirrorInv, Blank, Settles
  <2> QED
    BY <2>4, <2>5, <2>6, <2>7, <2>8 DEF MirrorInv
<1> QED
  BY <1>1, <1>5, <1>6, CallKinds

(* What was taken is the last word, or another is still to come.            *)
LEMMA MirrorWords ==
  ASSUME TypeOK, MirrorInv, NEW m, Take(m), UNCHANGED <<alive, mode>>
  PROVE  /\ LastIn(inbox', Links, IF alive' THEN Ups ELSE Downs) /\ NewsTrue'
         /\ Head(inbox) \in Links /\ None(inbox', Links) => (alive <=> Head(inbox) \in Ups)
         /\ alive /\ Head(inbox) \in Downs => ~None(inbox', Words)
         /\ alive /\ Head(inbox) \in News /\ Head(inbox) \notin Newest(mode) => ~None(inbox', Words)
         /\ ~alive /\ Head(inbox) \in News => ~None(inbox', Gone)
         /\ None(inbox, Gone) \/ Head(inbox) = Goes \/ ~None(inbox', Gone)
         /\ None(inbox, Fetched) => None(inbox', Fetched) /\ Head(inbox) \notin Fetched
<1>1. PICK h \in Message :
        /\ h = Head(inbox)
        /\ \A A : None(inbox, A) <=> h \notin A /\ None(inbox', A)
        /\ \A A, B : LastIn(inbox, A, B) <=>
                       LastIn(inbox', A, B) /\ (h \in A /\ None(inbox', A) => h \in B)
  BY Took
<1>2. \A q : (None(q, Words) => None(q, News)) /\ (None(q, News) => None(q, Ups))
  BY DEF None, Words, News
<1>3. LastIn(inbox, Links, IF alive THEN Ups ELSE Downs) /\ NewsTrue
  BY DEF MirrorInv, LinkTrue
<1>4. LastIn(inbox', Links, IF alive THEN Ups ELSE Downs) /\ NewsTrue'
  BY <1>1, <1>3 DEF NewsTrue
<1>5. ASSUME h \in Ups PROVE h \notin Downs
  BY <1>5, Kinds DEF Ups
<1>6. ASSUME h \in Links, None(inbox', Links) PROVE alive <=> h \in Ups
  BY <1>1, <1>3, <1>5, <1>6
<1>7. ASSUME alive, h \in Downs PROVE ~None(inbox', Words)
  <2>1. h \in Links /\ h \notin Ups
    BY <1>5, <1>7 DEF Links
  <2>2. ~None(inbox, Links)
    BY <1>1, <2>1
  <2>3. ~None(inbox, Ups)
    BY <1>3, <1>7, <2>2, LastThere
  <2> QED
    BY <1>1, <1>2, <2>1, <2>3
<1>8. ASSUME alive, h \in News, h \notin Newest(mode) PROVE ~None(inbox', Words)
  BY <1>1, <1>2, <1>3, <1>8 DEF NewsTrue
<1>9. ASSUME ~alive, h \in News PROVE ~None(inbox', Gone)
  <2>1. ~None(inbox, Turns)
    BY <1>1, <1>9 DEF Turns
  <2>2. ~None(inbox, Gone)
    BY <1>3, <1>9, <2>1, LastThere DEF NewsTrue
  <2>3. h \notin Gone
    <3>1. Goes \notin News
      BY Kinds
    <3> QED
      BY <1>9, <3>1 DEF Gone
  <2> QED
    BY <1>1, <2>2, <2>3
<1>10. None(inbox, Gone) \/ h = Goes \/ ~None(inbox', Gone)
  BY <1>1 DEF Gone
<1> QED
  BY <1>1, <1>4, <1>6, <1>7, <1>8, <1>9, <1>10

(* The GUI hears of a daemon, and fetches its state.                        *)
LEMMA MirrorFetches ==
  ASSUME TypeOK, MirrorInv, NEW m, Take(m), Head(inbox) \in {Comes, Proxy("up")},
         proxy' = "ready", connected' = TRUE, calls' = Append(calls, Fetch), UNCHANGED <<alive, mode, idleq, shown>>
  PROVE  MirrorInv'
<1>1. Head(inbox) \in Ups /\ Head(inbox) \in Links /\ Head(inbox) \in News
  BY Kinds
<1>2. alive \in BOOLEAN
  BY DEF TypeOK, DaemonTypes
<1>3. LinkTrue' /\ NewsTrue'
  BY <1>1, <1>2, MirrorWords DEF LinkTrue
<1>4. Unlinked'
  BY DEF Unlinked
<1>5. Current'
  BY Asked, CallSorts DEF Current
<1>6. Blank'
  BY <1>1, MirrorWords DEF Blank
<1> QED
  BY <1>3, <1>4, <1>5, <1>6 DEF MirrorInv

(* The GUI hears that there is no daemon: what is shown goes now, and a     *)
(* reset comes later.                                                       *)
LEMMA MirrorLoses ==
  ASSUME TypeOK, MirrorInv, NEW m, Take(m), Head(inbox) \in {Goes, Proxy("down"), Proxy("failed")},
         connected' = FALSE, proxy' = "ready" => proxy = "ready" \/ shown' = "unreachable",
         \/ idleq' = idleq /\ Head(inbox) # Goes /\ shown' \in {shown, "unreachable"}
         \/ idleq' = Append(idleq, Reset) /\ shown' = "unreachable" /\ proxy = "ready" /\ proxy' = "ready",
         UNCHANGED <<alive, mode, calls, unfetched>>,
         proxy = "ready" => proxy' = "ready"
  PROVE  MirrorInv'
<1>1. Head(inbox) \in Downs /\ Head(inbox) \in Links /\ Head(inbox) \notin Ups
  BY Kinds
<1>2. alive \in BOOLEAN
  BY DEF TypeOK, DaemonTypes
<1>3. LinkTrue' /\ NewsTrue'
  BY <1>1, <1>2, MirrorWords DEF LinkTrue
<1>4. Unlinked'
  BY MirrorWords, ClientConstants DEF MirrorInv, Unlinked
<1>5. Current'
  BY <1>1, MirrorWords DEF Current
<1>6. Blank'
  <2>1. CASE idleq' = Append(idleq, Reset)
    <3>1. LastIn(idleq', Shows, Blanks) /\ ~None(idleq', Shows)
      BY <2>1, PutOff, CallbackSorts
    <3> QED
      BY <3>1 DEF Blank, Settles
  <2>2. CASE idleq' = idleq /\ Head(inbox) # Goes /\ shown' \in {shown, "unreachable"}
    <3>1. CASE proxy = "ready"
      BY <2>2, <3>1, MirrorWords DEF MirrorInv, Blank, Settles
    <3>2. CASE proxy # "ready"
      BY <2>2, <3>2 DEF MirrorInv, Unlinked, Blank, Settles, LastIn
    <3> QED
      BY <3>1, <3>2
  <2> QED
    BY <2>1, <2>2
<1> QED
  BY <1>3, <1>4, <1>5, <1>6 DEF MirrorInv

(* A connection fails while there is no daemon, after the GUI was told that  *)
(* there is none: what else is on its way when the failure is heard must not *)
(* say that one came since.                                                  *)
Ends == {Goes, Proxy("down")}
Fails == Proxy("failed")

Warned(q, c) ==
  \A j \in DOMAIN q : q[j] = Fails =>
    \/ \E i \in DOMAIN q : i < j /\ q[i] \in Ends /\ \A k \in DOMAIN q : i < k /\ k < j => q[k] \notin Ups
    \/ ~c /\ \A k \in DOMAIN q : k < j => q[k] \notin Ups

WarnInv == Warned(inbox, connected) /\ (proxy # "ready" => ~connected)

LEMMA EndSorts ==
  /\ Fails \in Downs /\ Fails \in Links /\ Fails \notin Ups /\ Fails \notin Ends
  /\ \A h \in Ends : h \in Downs /\ h \notin Ups
  /\ \A h \in Downs : h \in Ends \/ h = Fails
  /\ \A h : h.m # "proxy" => h # Fails
<1>1. Proxy("failed") # Proxy("down")
  BY DEF Proxy
<1>2. Fails \notin Ends
  BY <1>1, Sorts DEF Ends, Fails
<1>3. \A h : h.m # "proxy" => h # Fails
  BY Sorts DEF Fails
<1>4. Fails \in Downs /\ Fails \in Links /\ Fails \notin Ups
  BY Kinds DEF Fails
<1>5. \A h \in Ends : h \in Downs /\ h \notin Ups
  BY Kinds DEF Ends
<1>6. \A h \in Downs : h \in Ends \/ h = Fails
  BY DEF Downs, Ends, Fails
<1> QED
  BY <1>2, <1>3, <1>4, <1>5, <1>6

LEMMA WarnedAppend ==
  ASSUME NEW S, NEW q \in Seq(S), NEW e, NEW c, Warned(q, c),
         e = Fails => LastIn(q, Links, Downs) /\ (None(q, Links) => ~c)
  PROVE  Warned(Append(q, e), c)
<1>1. PICK r, n : r = Append(q, e) /\ n = Len(q) + 1
  OBVIOUS
<1>2. /\ n \in DOMAIN r /\ r[n] = e /\ n \in Int
      /\ \A i \in DOMAIN r : i \in Int /\ i <= n /\ (i = n \/ (i \in DOMAIN q /\ r[i] = q[i]))
      /\ \A i \in DOMAIN q : i \in DOMAIN r /\ i \in Int /\ i < n /\ r[i] = q[i]
  BY <1>1
<1> SUFFICES ASSUME NEW j \in DOMAIN r, r[j] = Fails
             PROVE  \/ \E i \in DOMAIN r : i < j /\ r[i] \in Ends
                                          /\ \A k \in DOMAIN r : i < k /\ k < j => r[k] \notin Ups
                    \/ ~c /\ \A k \in DOMAIN r : k < j => r[k] \notin Ups
  BY <1>1 DEF Warned
<1>3. CASE j \in DOMAIN q
  <2>1. q[j] = Fails /\ j < n
    BY <1>2, <1>3
  <2>2. \A k \in DOMAIN r : k < j => k \in DOMAIN q /\ r[k] = q[k]
    BY <1>2, <2>1
  <2>3. CASE ~c /\ \A k \in DOMAIN q : k < j => q[k] \notin Ups
    BY <2>2, <2>3
  <2>4. ASSUME NEW i \in DOMAIN q, i < j, q[i] \in Ends, \A k \in DOMAIN q : i < k /\ k < j => q[k] \notin Ups
        PROVE  \E l \in DOMAIN r : l < j /\ r[l] \in Ends
                                   /\ \A k \in DOMAIN r : l < k /\ k < j => r[k] \notin Ups
    BY <1>2, <2>2, <2>4
  <2> QED
    BY <1>3, <2>1, <2>3, <2>4 DEF Warned
<1>4. CASE j = n
  <2>1. LastIn(q, Links, Downs) /\ (None(q, Links) => ~c)
    BY <1>2, <1>4
  <2>2. CASE None(q, Links)
    <3>1. \A k \in DOMAIN r : k < j => r[k] \notin Ups
      BY <1>2, <1>4, <2>2 DEF None, Links
    <3> QED
      BY <2>1, <2>2, <3>1
  <2>3. CASE ~None(q, Links)
    <3>1. PICK l \in DOMAIN q : q[l] \in Downs /\ \A k \in DOMAIN q : k > l => q[k] \notin Links
      BY <2>1, <2>3 DEF LastIn
    <3>2. \A k \in DOMAIN r : k < j => k \in DOMAIN q /\ r[k] = q[k] /\ k \in Int
      BY <1>2, <1>4
    <3>3. \A k \in DOMAIN r : l < k /\ k < j => r[k] \notin Ups
      BY <1>2, <3>1, <3>2 DEF Links
    <3>4. l \in DOMAIN r /\ l < j /\ r[l] = q[l] /\ l \in Int
      BY <1>2, <1>4
    <3>5. CASE q[l] \in Ends
      BY <3>3, <3>4, <3>5
    <3>6. CASE q[l] = Fails
      <4>1. \A k \in DOMAIN r : k < j => k < l \/ k = l \/ l < k
        BY <3>2, <3>4
      <4>2. r[l] \notin Ups
        BY <3>4, <3>6, EndSorts
      <4>3. CASE ~c /\ \A k \in DOMAIN q : k < l => q[k] \notin Ups
        BY <3>2, <3>3, <4>1, <4>2, <4>3
      <4>4. ASSUME NEW i \in DOMAIN q, i < l, q[i] \in Ends, \A k \in DOMAIN q : i < k /\ k < l => q[k] \notin Ups
            PROVE  \E p \in DOMAIN r : p < j /\ r[p] \in Ends
                                       /\ \A k \in DOMAIN r : p < k /\ k < j => r[k] \notin Ups
        <5>1. i \in DOMAIN r /\ i < j /\ r[i] \in Ends
          BY <1>2, <1>4, <4>4
        <5>2. \A k \in DOMAIN r : i < k /\ k < j => r[k] \notin Ups
          BY <3>2, <3>3, <4>1, <4>2, <4>4
        <5> QED
          BY <5>1, <5>2
      <4> QED
        BY <3>6, <4>3, <4>4 DEF Warned
    <3> QED
      BY <3>1, <3>5, <3>6, EndSorts
  <2> QED
    BY <2>2, <2>3
<1> QED
  BY <1>2, <1>3, <1>4

LEMMA WarnedTail ==
  ASSUME NEW S, NEW q \in Seq(S), q # <<>>, NEW c, NEW d, Warned(q, c),
         d => c \/ Head(q) \in Ups, Head(q) \in Ends => ~d
  PROVE  Warned(Tail(q), d) /\ (Head(q) = Fails => ~c)
<1>1. PICK h, r : h = Head(q) /\ r = Tail(q)
  OBVIOUS
<1>2. /\ 1 \in DOMAIN q /\ q[1] = h
      /\ \A i \in DOMAIN q : i \in Int /\ i >= 1
      /\ \A i \in DOMAIN r : i \in Int /\ i >= 1 /\ i + 1 \in DOMAIN q /\ r[i] = q[i + 1]
      /\ \A i \in DOMAIN q : i = 1 \/ (i - 1 \in DOMAIN r /\ r[i - 1] = q[i])
  BY <1>1, TailIndex
<1>3. h = Fails => ~c
  BY <1>2 DEF Warned
<1>4. ASSUME NEW j \in DOMAIN r, r[j] = Fails
      PROVE  \/ \E i \in DOMAIN r : i < j /\ r[i] \in Ends
                                   /\ \A k \in DOMAIN r : i < k /\ k < j => r[k] \notin Ups
             \/ ~d /\ \A k \in DOMAIN r : k < j => r[k] \notin Ups
  <2>1. j + 1 \in DOMAIN q /\ q[j + 1] = Fails /\ j \in Int /\ j >= 1
    BY <1>2, <1>4
  <2>2. CASE ~c /\ \A k \in DOMAIN q : k < j + 1 => q[k] \notin Ups
    <3>1. ~d
      BY <1>1, <1>2, <2>1, <2>2
    <3>2. ASSUME NEW k \in DOMAIN r, k < j PROVE r[k] \notin Ups
      BY <1>2, <2>1, <2>2, <3>2
    <3> QED
      BY <3>1, <3>2
  <2>3. ASSUME NEW i \in DOMAIN q, i < j + 1, q[i] \in Ends,
               \A k \in DOMAIN q : i < k /\ k < j + 1 => q[k] \notin Ups
        PROVE  \/ \E l \in DOMAIN r : l < j /\ r[l] \in Ends
                                     /\ \A k \in DOMAIN r : l < k /\ k < j => r[k] \notin Ups
               \/ ~d /\ \A k \in DOMAIN r : k < j => r[k] \notin Ups
    <3>1. CASE i = 1
      <4>1. ~d
        BY <1>1, <1>2, <2>3, <3>1
      <4>2. ASSUME NEW k \in DOMAIN r, k < j PROVE r[k] \notin Ups
        <5>1. k \in Int /\ k >= 1 /\ k + 1 \in DOMAIN q /\ r[k] = q[k + 1]
          BY <1>2
        <5>2. i < k + 1 /\ k + 1 < j + 1
          BY <2>1, <3>1, <4>2, <5>1
        <5> QED
          BY <2>3, <5>1, <5>2
      <4> QED
        BY <4>1, <4>2
    <3>2. CASE i # 1
      <4>1. i - 1 \in DOMAIN r /\ r[i - 1] = q[i] /\ i - 1 < j /\ i \in Int
        BY <1>2, <2>1, <2>3, <3>2
      <4>2. ASSUME NEW k \in DOMAIN r, i - 1 < k, k < j PROVE r[k] \notin Ups
        <5>1. k \in Int /\ k + 1 \in DOMAIN q /\ r[k] = q[k + 1]
          BY <1>2
        <5>2. i < k + 1 /\ k + 1 < j + 1
          BY <2>1, <4>1, <4>2, <5>1
        <5> QED
          BY <2>3, <5>1, <5>2
      <4> QED
        BY <2>3, <4>1, <4>2
    <3> QED
      BY <3>1, <3>2
  <2> QED
    BY <2>1, <2>2, <2>3 DEF Warned
<1> QED
  BY <1>1, <1>3, <1>4 DEF Warned

LEMMA WarnedJoin ==
  ASSUME NEW S, NEW q \in Seq(S), NEW r \in Seq(S), NEW c, Warned(q, c), \A i \in DOMAIN r : r[i] # Fails
  PROVE  Warned(q \o r, c)
<1>1. PICK t, n : t = q \o r /\ n = Len(q)
  OBVIOUS
<1>2. /\ n \in Int
      /\ \A i \in DOMAIN q : i \in Int /\ i <= n /\ i \in DOMAIN t /\ t[i] = q[i]
      /\ \A i \in DOMAIN t : i \in Int /\ ((i \in DOMAIN q /\ i <= n) \/ (i > n /\ i - n \in DOMAIN r /\ t[i] = r[i - n]))
  BY <1>1
<1>3. ASSUME NEW j \in DOMAIN t, t[j] = Fails
      PROVE  \/ \E i \in DOMAIN t : i < j /\ t[i] \in Ends
                                   /\ \A k \in DOMAIN t : i < k /\ k < j => t[k] \notin Ups
             \/ ~c /\ \A k \in DOMAIN t : k < j => t[k] \notin Ups
  <2>1. j \in DOMAIN q /\ q[j] = Fails
    BY <1>2, <1>3
  <2>2. \A k \in DOMAIN t : k < j => k \in DOMAIN q /\ t[k] = q[k]
    BY <1>2, <2>1
  <2>3. CASE ~c /\ \A k \in DOMAIN q : k < j => q[k] \notin Ups
    BY <2>2, <2>3
  <2>4. ASSUME NEW i \in DOMAIN q, i < j, q[i] \in Ends, \A k \in DOMAIN q : i < k /\ k < j => q[k] \notin Ups
        PROVE  \E l \in DOMAIN t : l < j /\ t[l] \in Ends
                                   /\ \A k \in DOMAIN t : l < k /\ k < j => t[k] \notin Ups
    BY <1>2, <2>2, <2>4
  <2> QED
    BY <2>1, <2>3, <2>4 DEF Warned
<1> QED
  BY <1>1, <1>3 DEF Warned

(* What the bus is given, and what the GUI takes from it.                   *)
LEMMA WarnHears ==
  ASSUME TypeOK, WarnInv, NEW h, inbox' = Append(inbox, h), UNCHANGED <<proxy, connected>>,
         h = Fails => MirrorInv /\ ~alive
  PROVE  WarnInv'
<1>1. h = Fails => LastIn(inbox, Links, Downs) /\ (None(inbox, Links) => ~connected)
  BY DEF MirrorInv, LinkTrue, WarnInv
<1>2. inbox \in Seq(Message) /\ Warned(inbox, connected)
  BY DEF TypeOK, QueueTypes, WarnInv
<1>3. Warned(Append(inbox, h), connected)
  BY <1>1, <1>2, WarnedAppend
<1> QED
  BY <1>3 DEF WarnInv

LEMMA WarnTakes ==
  ASSUME TypeOK, WarnInv, NEW m, Take(m), connected' => connected \/ Head(inbox) \in Ups,
         Head(inbox) \in Ends => ~connected', proxy' # "ready" => ~connected'
  PROVE  WarnInv'
<1>1. inbox \in Seq(Message) /\ Warned(inbox, connected) /\ inbox # <<>> /\ inbox' = Tail(inbox)
  BY DEF TypeOK, QueueTypes, WarnInv, Take
<1>2. Warned(Tail(inbox), connected')
  BY <1>1, WarnedTail
<1> QED
  BY <1>1, <1>2 DEF WarnInv

LEMMA WarnConnect == TypeOK /\ MirrorInv /\ WarnInv /\ Connect => WarnInv'
<1> SUFFICES ASSUME TypeOK, MirrorInv, WarnInv, Connect PROVE WarnInv'
  OBVIOUS
<1>1. inbox \in Seq(Message) /\ UNCHANGED <<proxy, connected>>
  BY DEF Connect, TypeOK, QueueTypes
<1>2. Proxy("up") # Fails /\ Comes # Fails
  BY Kinds, EndSorts
<1>3. CASE alive /\ Tell(Proxy("up"))
  BY <1>1, <1>2, <1>3, WarnHears DEF Tell
<1>4. CASE inbox' = inbox \o <<Owner(TRUE), Proxy("up")>>
  <2>1. Append(inbox, Comes) \in Seq(Message)
    BY <1>1, MessageTypes, Queued DEF Comes
  <2>2. inbox' = Append(Append(inbox, Comes), Proxy("up"))
    <3>1. Comes \in Message /\ Proxy("up") \in Message /\ inbox' = inbox \o <<Comes, Proxy("up")>>
      BY <1>4, MessageTypes DEF Comes
    <3> QED
      BY <1>1, <3>1, Pairing
  <2>3. Warned(Append(inbox, Comes), connected)
    BY <1>1, <1>2, WarnedAppend DEF WarnInv
  <2>4. Warned(inbox', connected)
    BY <1>2, <2>1, <2>2, <2>3, WarnedAppend
  <2> QED
    BY <1>1, <2>4 DEF WarnInv
<1>5. ASSUME NEW r \in {"down", "failed"}, ~alive, Tell(Proxy(r)) PROVE WarnInv'
  BY <1>1, <1>5, WarnHears DEF Tell
<1> QED
  BY <1>3, <1>4, <1>5 DEF Connect

LEMMA WarnStop == TypeOK /\ WarnInv /\ Stop => WarnInv'
<1> SUFFICES ASSUME TypeOK, WarnInv, Stop PROVE WarnInv'
  OBVIOUS
<1>1. PICK r \in Seq(Message) :
        /\ inbox' = Append(inbox, Goes) \o r /\ Append(inbox, Goes) \in Seq(Message)
        /\ \A i \in DOMAIN r : /\ calls[i] \in Calling /\ r[i] \in Message
                              /\ r[i] = Reply(calls[i], Failure(calls[i]))
  BY Stopped
<1>2. \A i \in DOMAIN r : r[i] # Fails
  <2>1. Error # Fails
    BY Kinds, EndSorts
  <2> QED
    BY <1>1, <2>1, FailureKinds, EndSorts
<1>3. Goes # Fails
  BY EndSorts DEF Ends
<1>4. Warned(Append(inbox, Goes), connected)
  BY <1>3, WarnedAppend DEF WarnInv, TypeOK, QueueTypes
<1>5. Warned(inbox', connected)
  BY <1>1, <1>2, <1>4, WarnedJoin
<1> QED
  BY <1>5 DEF WarnInv, Stop, link

LEMMA WarnServe == TypeOK /\ WarnInv /\ Serve => WarnInv'
<1> SUFFICES ASSUME TypeOK, WarnInv, Serve PROVE WarnInv'
  OBVIOUS
<1>1. \E h : inbox' = Append(inbox, h) /\ h.m \in {"fetched", "started", "late"}
  <2>1. \A c, s, o : /\ Reply(c, State("fetched", s)).m \in {"fetched", "late"}
                    /\ Reply(c, Started(c.v, o)).m \in {"started", "late"}
    BY Sorts DEF Reply
  <2>2. \A c : c.c = "ask" => Failure(c) = Started(c.v, NoOp)
    BY DEF Failure
  <2>3. PICK c : c = Head(calls)
    OBVIOUS
  <2>4. \/ inbox' = Append(inbox, Reply(c, State("fetched", mode)))
        \/ inbox' = Append(inbox, Reply(c, Started(c.v, Fresh)))
        \/ c.c = "ask" /\ inbox' = Append(inbox, Reply(c, Failure(c)))
    BY <2>3 DEF Serve, Tell
  <2> QED
    BY <2>1, <2>2, <2>4
<1> QED
  BY <1>1, EndSorts, WarnHears DEF Serve, link

LEMMA WarnHandle == TypeOK /\ WarnInv /\ Handle => WarnInv'
<1> SUFFICES ASSUME TypeOK, WarnInv, Handle PROVE WarnInv'
  OBVIOUS
<1>0. /\ connected \in BOOLEAN /\ retry \in BOOLEAN /\ (proxy # "ready" => ~connected)
      /\ Comes \in Ups /\ Comes \notin Ends /\ Proxy("up") \in Ups /\ Proxy("up") \notin Ends
      /\ \A h : h.m \notin {"owner", "proxy"} => h \notin Ends
  BY Kinds, EndSorts, Sorts DEF TypeOK, LinkTypes, WarnInv, Ends
<1>1. CASE OnProxyReady
  <2>1. PICK h \in Message : h = Head(inbox) /\ h = Proxy(h.r) /\ h.r \in {"up", "down", "failed"}
    BY <1>1, TakeTypes, MessageKinds DEF OnProxyReady
  <2>2. Take("proxy")
    BY <1>1 DEF OnProxyReady
  <2>3. CASE h.r = "up"
    BY <1>0, <1>1, <2>1, <2>2, <2>3, WarnTakes DEF OnProxyReady
  <2>4. CASE h.r = "down"
    BY <1>1, <2>1, <2>2, <2>4, WarnTakes DEF OnProxyReady
  <2>5. CASE h.r = "failed"
    <3>1. h \notin Ends
      BY <2>1, <2>5, EndSorts DEF Fails
    <3> QED
      BY <1>0, <1>1, <2>1, <2>2, <2>5, <3>1, WarnTakes DEF OnProxyReady
  <2> QED
    BY <2>1, <2>3, <2>4, <2>5
<1>2. CASE OnOwner
  <2>1. PICK h \in Message : h = Head(inbox) /\ h = Owner(h.up) /\ h.up \in BOOLEAN
    BY <1>2, TakeTypes, MessageKinds DEF OnOwner
  <2>2. Take("owner") /\ proxy' = proxy
    BY <1>2 DEF OnOwner
  <2>3. CASE proxy # "ready"
    <3>1. connected' = connected
      BY <1>2, <2>3 DEF OnOwner
    <3> QED
      BY <1>0, <2>2, <2>3, <3>1, WarnTakes
  <2>4. CASE proxy = "ready"
    <3>1. connected' = h.up
      BY <1>2, <2>1, <2>4 DEF OnOwner
    <3>2. h.up = TRUE => h \in Ups /\ h \notin Ends
      BY <1>0, <2>1 DEF Comes
    <3> QED
      BY <2>1, <2>2, <2>4, <3>1, <3>2, WarnTakes
  <2> QED
    BY <2>3, <2>4
<1>3. CASE OnState \/ OnStarted \/ OnComplete \/ Drop
  <2>1. PICK m \in {"changed", "fetched", "started", "complete", "late"} :
          Take(m) /\ UNCHANGED <<proxy, connected>>
    BY <1>3 DEF OnState, OnStarted, OnComplete, Drop, link
  <2>2. Head(inbox).m = m
    BY <2>1 DEF Take
  <2> QED
    BY <1>0, <2>1, <2>2, WarnTakes
<1> QED
  BY <1>1, <1>2, <1>3 DEF Handle

LEMMA WarnStep == TypeOK /\ MirrorInv /\ WarnInv /\ [Next]_vars => WarnInv'
<1> SUFFICES ASSUME TypeOK, MirrorInv, WarnInv, [Next]_vars PROVE WarnInv'
  OBVIOUS
<1>1. UNCHANGED <<inbox, proxy, connected>> => WarnInv'
  BY DEF WarnInv, Warned
<1>2. ASSUME NEW h, h.m # "proxy", inbox' = Append(inbox, h), UNCHANGED <<proxy, connected>> PROVE WarnInv'
  BY <1>2, WarnHears, EndSorts
<1>3. CASE Activate
  BY <1>2, <1>3, Sorts DEF Activate, Tell, link, Comes
<1>4. ASSUME NEW r \in {"ok", "failed"}, Answer(r) PROVE WarnInv'
  <2>1. \E h : h.m = "complete" /\ inbox' = Append(inbox, h)
    BY <1>4 DEF Answer, Tell, Complete
  <2> QED
    BY <1>2, <1>4, <2>1 DEF Answer, link
<1>5. CASE Free
  BY <1>1, <1>5 DEF Free, bus, link
<1>6. CASE Idle
  BY <1>1, <1>6 DEF Idle, DoUpdate, DoReset, DoStore, bus, link
<1>7. CASE Retry \/ AcceptOther \/ RetryClicked
  BY <1>1, <1>7 DEF Retry, AcceptOther, RetryClicked, bus, link
<1>8. ASSUME NEW s \in Mode, Change(s) PROVE WarnInv'
  BY <1>2, <1>8, Sorts DEF Change, Tell, link
<1>9. ASSUME NEW i, TimeOut(i) PROVE WarnInv'
  <2>1. \A c : Failure(c).m \in {"fetched", "started"}
    BY Sorts DEF Failure
  <2> QED
    BY <1>2, <1>9, <2>1 DEF TimeOut, Tell, link
<1>10. ASSUME NEW v \in View, OpenInstall(v) \/ OpenRollback(v) \/ OpenFix(v) \/ Confirm(v) \/ Close(v)
       PROVE  WarnInv'
  BY <1>1, <1>10 DEF OpenInstall, OpenRollback, OpenFix, OpenDialog, Confirm, Close, bus, link
<1>11. CASE UNCHANGED vars
  BY <1>1, <1>11 DEF vars, bus, link
<1> QED
  BY <1>3, <1>4, <1>5, <1>6, <1>7, <1>8, <1>9, <1>10, <1>11, WarnConnect, WarnServe, WarnStop, WarnHandle
  DEF Next, Daemon

LEMMA MirrorOnProxyReady == TypeOK /\ MirrorInv /\ WarnInv /\ OnProxyReady => MirrorInv'
<1> SUFFICES ASSUME TypeOK, MirrorInv, WarnInv, OnProxyReady PROVE MirrorInv'
  OBVIOUS
<1>1. Take("proxy") /\ UNCHANGED <<alive, mode, idleq>>
  BY DEF OnProxyReady, slotVars
<1>2. PICK h \in Message : h = Head(inbox) /\ h = Proxy(h.r) /\ h.r \in {"up", "down", "failed"}
  BY <1>1, TakeTypes, MessageKinds
<1>3. CASE h.r = "up"
  BY <1>1, <1>2, <1>3, MirrorFetches DEF OnProxyReady, Send
<1>4. h # Goes
  BY <1>2, Sorts
<1>5. CASE h.r = "down"
  BY <1>1, <1>2, <1>4, <1>5, MirrorLoses DEF OnProxyReady
<1>6. CASE h.r = "failed"
  <2>1. ~connected
    BY <1>1, <1>2, <1>6, WarnedTail DEF Fails, WarnInv, Take, TypeOK, QueueTypes
  <2>2. connected' = FALSE /\ UNCHANGED <<proxy, calls, shown, unfetched>>
    BY <1>2, <1>6, <2>1 DEF OnProxyReady
  <2> QED
    BY <1>1, <1>2, <1>4, <1>6, <2>2, MirrorLoses
<1> QED
  BY <1>2, <1>3, <1>5, <1>6

LEMMA MirrorOnOwner == TypeOK /\ MirrorInv /\ OnOwner => MirrorInv'
<1> SUFFICES ASSUME TypeOK, MirrorInv, OnOwner PROVE MirrorInv'
  OBVIOUS
<1>1. Take("owner") /\ UNCHANGED <<alive, mode, proxy>>
  BY DEF OnOwner, slotVars
<1>2. PICK h \in Message : h = Head(inbox) /\ h = Owner(h.up) /\ h.up \in BOOLEAN
  BY <1>1, TakeTypes, MessageKinds
<1>3. CASE proxy # "ready"
  <2>1. UNCHANGED <<calls, idleq, shown>>
    BY <1>3 DEF OnOwner
  <2>2. LinkTrue' /\ NewsTrue'
    BY <1>1, <1>3, MirrorWords DEF LinkTrue
  <2>3. Unlinked'
    BY <1>1, <2>1, MirrorWords DEF MirrorInv, Unlinked
  <2> QED
    BY <1>1, <1>3, <2>2, <2>3 DEF MirrorInv, Current, Blank
<1>4. CASE proxy = "ready" /\ h.up = TRUE
  <2>1. h = Comes
    BY <1>2, <1>4 DEF Comes
  <2>2. connected' = TRUE /\ calls' = Append(calls, Fetch) /\ UNCHANGED <<idleq, shown>>
    BY <1>2, <1>4 DEF OnOwner, Send
  <2> QED
    BY <1>1, <1>2, <1>4, <2>1, <2>2, MirrorFetches
<1>5. CASE proxy = "ready" /\ h.up = FALSE
  <2>1. h = Goes
    BY <1>2, <1>5 DEF Goes
  <2>2. connected' = FALSE /\ idleq' = Append(idleq, Reset) /\ shown' = "unreachable" /\ UNCHANGED <<calls, unfetched>>
    BY <1>2, <1>5 DEF OnOwner, ResetLater, Later
  <2> QED
    BY <1>1, <1>2, <1>5, <2>1, <2>2, MirrorLoses
<1> QED
  BY <1>2, <1>3, <1>4, <1>5

(* A state that was told is put off to be shown.                            *)
LEMMA MirrorShows ==
  ASSUME TypeOK, MirrorInv, NEW m \in {"changed", "fetched"}, Take(m), NEW s \in Mode, Head(inbox) = State(m, s),
         proxy = "ready", idleq' = Append(idleq, Update(s)), UNCHANGED <<alive, mode, proxy, connected, shown>>
  PROVE  MirrorInv'
<1>1. Head(inbox) \in News /\ Head(inbox) \notin Links /\ \A t \in Mode : Head(inbox) \in Newest(t) <=> s = t
  BY Kinds
<1>2. LastIn(idleq', Shows, Showing(s)) /\ ~None(idleq', Shows)
  BY PutOff, CallbackSorts
<1>3. LinkTrue' /\ NewsTrue'
  <2>1. None(inbox', Links) => None(inbox, Links)
    BY <1>1, Took
  <2> QED
    BY <2>1, MirrorWords DEF MirrorInv, LinkTrue
<1>4. Unlinked'
  BY DEF Unlinked
<1>5. Current'
  <2>1. alive /\ None(inbox', Words) => s = mode
    BY <1>1, MirrorWords DEF TypeOK, DaemonTypes
  <2> QED
    BY <1>2, <2>1 DEF Current, Settles
<1>6. Blank'
  BY <1>1, MirrorWords DEF Blank
<1> QED
  BY <1>3, <1>4, <1>5, <1>6 DEF MirrorInv

LEMMA MirrorOnState == TypeOK /\ MirrorInv /\ OnState => MirrorInv'
<1> SUFFICES ASSUME TypeOK, MirrorInv, OnState PROVE MirrorInv'
  OBVIOUS
<1>1. PICK m \in {"changed", "fetched"} : Take(m) /\ UNCHANGED <<alive, mode, calls, proxy, connected>>
  BY DEF OnState, slotVars, link
<1>2. PICK h \in Message : h = Head(inbox) /\ h.m = m
  BY <1>1, TakeTypes
<1>3. CASE m = "changed" /\ proxy = "ready"
  <2>1. PICK s \in Mode : s = h.s /\ h = State("changed", s)
    BY <1>2, <1>3, MessageKinds
  <2>2. idleq' = Append(idleq, Update(s)) /\ UNCHANGED shown
    BY <1>2, <1>3, <2>1 DEF OnState, Later, Take
  <2> QED
    BY <1>1, <1>2, <1>3, <2>1, <2>2, MirrorShows
<1>4. CASE m = "changed" /\ proxy # "ready"
  <2>1. UNCHANGED <<idleq, shown>>
    BY <1>2, <1>4 DEF OnState, Take
  <2>2. LinkTrue' /\ NewsTrue'
    BY <1>1, <1>4, MirrorWords DEF LinkTrue
  <2>3. Unlinked'
    BY <1>1, <2>1, MirrorWords DEF MirrorInv, Unlinked
  <2> QED
    BY <1>1, <1>4, <2>2, <2>3 DEF MirrorInv, Current, Blank
<1>5. CASE m = "fetched"
  <2>1. PICK s \in Mode \cup {"error"} : s = h.s /\ h = State("fetched", s)
    BY <1>2, <1>5, MessageKinds
  <2>2. proxy = "ready"
    <3>1. h \in Fetched
      BY <2>1 DEF Fetched
    <3> QED
      BY <1>1, <1>2, <3>1, MirrorWords DEF MirrorInv, Unlinked
  <2>3. CASE s # "error"
    <3>1. idleq' = Append(idleq, Update(s)) /\ UNCHANGED shown
      BY <1>2, <1>5, <2>1, <2>3 DEF OnState, Later, Take
    <3> QED
      BY <1>1, <1>2, <1>5, <2>1, <2>2, <2>3, <3>1, MirrorShows
  <2>4. CASE s = "error"
    <3>1. shown' = "unreachable" /\ unfetched' = TRUE /\ idleq' = idleq
      BY <1>2, <1>5, <2>1, <2>4 DEF OnState, Take
    <3>2. h = Error
      BY <2>1, <2>4 DEF Error
    <3>3. LinkTrue' /\ NewsTrue'
      <4>1. None(inbox', Links) => None(inbox, Links)
        BY <1>1, <1>2, <3>2, Took, Kinds
      <4> QED
        BY <1>1, <4>1, MirrorWords DEF MirrorInv, LinkTrue
    <3>4. Blank'
      BY <1>1, <1>2, <2>2, <3>1, <3>2, MirrorWords, Kinds DEF MirrorInv, Blank, Settles, Gone
    <3> QED
      BY <1>1, <2>2, <3>1, <3>3, <3>4 DEF MirrorInv, Unlinked, Current
  <2> QED
    BY <2>3, <2>4
<1> QED
  BY <1>3, <1>4, <1>5

LEMMA MirrorIdle == TypeOK /\ MirrorInv /\ Idle => MirrorInv'
<1> SUFFICES ASSUME TypeOK, MirrorInv, Idle PROVE MirrorInv'
  OBVIOUS
<1>1. PICK k \in {"update", "reset", "store"} :
        Run(k) /\ UNCHANGED <<alive, mode, calls, inbox, proxy, connected, unfetched>>
  BY DEF Idle, DoUpdate, DoReset, DoStore, bus, link, slotVars
<1>2. PICK c \in Callback :
        /\ c = Head(idleq) /\ c.c = k
        /\ \A A : None(idleq, A) <=> c \notin A /\ None(idleq', A)
        /\ \A A, B : LastIn(idleq, A, B) <=>
                       LastIn(idleq', A, B) /\ (c \in A /\ None(idleq', A) => c \in B)
  BY <1>1, Ran
<1>3. LinkTrue' /\ NewsTrue'
  BY <1>1 DEF MirrorInv, LinkTrue, NewsTrue
<1>4. mode \in Mode
  BY DEF TypeOK, DaemonTypes
<1>5. CASE k = "store"
  <2>1. c \notin Shows /\ UNCHANGED shown
    BY <1>1, <1>2, <1>5, CallbackKinds, CallbackSorts DEF Idle, DoUpdate, DoReset, DoStore, Run
  <2> QED
    BY <1>1, <1>2, <1>3, <2>1 DEF MirrorInv, Unlinked, Current, Blank, Settles
<1>6. CASE k = "update"
  <2>1. PICK s \in Mode : c = Update(s) /\ shown' = s
    BY <1>1, <1>2, <1>6, CallbackKinds DEF Idle, DoUpdate, DoReset, DoStore, Run
  <2>2. c \in Shows /\ c \notin Blanks /\ (c \in Showing(mode) => s = mode)
    BY <1>4, <2>1, CallbackSorts
  <2>3. Unlinked'
    BY <1>1, <1>2, <2>2 DEF MirrorInv, Unlinked
  <2>4. Current'
    BY <1>1, <1>2, <2>1, <2>2 DEF MirrorInv, Current, Settles
  <2>5. Blank'
    BY <1>1, <1>2, <2>2 DEF MirrorInv, Blank, Settles
  <2> QED
    BY <1>3, <2>3, <2>4, <2>5 DEF MirrorInv
<1>7. CASE k = "reset"
  <2>1. c = Reset /\ shown' = "unknown"
    BY <1>1, <1>2, <1>7, CallbackKinds DEF Idle, DoUpdate, DoReset, DoStore, Run
  <2>2. c \in Shows /\ c \notin Showing(mode)
    BY <2>1, CallbackSorts
  <2>3. Unlinked'
    BY <1>1, <1>2, <2>2 DEF MirrorInv, Unlinked
  <2>4. Current'
    BY <1>1, <1>2, <2>2 DEF MirrorInv, Current, Settles
  <2>5. Blank'
    BY <1>1, <1>2, <2>1 DEF MirrorInv, Blank, Settles
  <2> QED
    BY <1>3, <2>3, <2>4, <2>5 DEF MirrorInv
<1> QED
  BY <1>5, <1>6, <1>7

(* Asking for an operation and the retry timer leave the mirror alone.      *)
LEMMA MirrorAsks ==
  ASSUME TypeOK, MirrorInv, calls' = calls \/ \E v : calls' = Append(calls, Ask(v)),
         proxy' = proxy \/ (proxy # "ready" /\ proxy' # "ready"),
         UNCHANGED <<alive, mode, inbox, idleq, connected, shown, unfetched>>
  PROVE  MirrorInv'
<1>1. None(calls', Fetches) <=> None(calls, Fetches)
  BY Asked, CallSorts
<1> QED
  BY <1>1 DEF MirrorInv, LinkTrue, NewsTrue, Unlinked, Settles, Current, Blank

LEMMA MirrorOnComplete == TypeOK /\ MirrorInv /\ OnComplete => MirrorInv'
<1> SUFFICES ASSUME TypeOK, MirrorInv, OnComplete PROVE MirrorInv'
  OBVIOUS
<1>1. calls' = calls \/ \E v : calls' = Append(calls, Ask(v))
  BY DEF OnComplete, Send
<1>2. None(calls', Fetches) <=> None(calls, Fetches)
  BY <1>1, Asked, CallSorts
<1> QED
  BY <1>2, MirrorTakes DEF OnComplete, slotVars, link

LEMMA MirrorStep == TypeOK /\ MirrorInv /\ WarnInv /\ [Next]_vars => MirrorInv'
<1> SUFFICES ASSUME TypeOK, MirrorInv, WarnInv, [Next]_vars PROVE MirrorInv'
  OBVIOUS
<1>1. CASE Daemon
  <2>1. CASE Free
    BY <2>1, MirrorFrame DEF Free, SlotFree, mirror, bus, link
  <2> QED
    BY <1>1, <2>1, MirrorActivate, MirrorConnect, MirrorServe, MirrorAnswer DEF Daemon
<1>2. CASE Handle
  <2>1. CASE OnStarted
    BY <2>1, MirrorTakes DEF OnStarted, Later, slotVars, link
  <2>2. CASE Drop
    BY <2>2, MirrorTakes DEF Drop, slotVars, link
  <2> QED
    BY <1>2, <2>1, <2>2, MirrorOnProxyReady, MirrorOnOwner, MirrorOnState, MirrorOnComplete DEF Handle
<1>3. CASE Retry
  BY <1>3, MirrorAsks DEF Retry, slotVars, bus
<1>4. CASE AcceptOther
  BY <1>4, MirrorFrame DEF AcceptOther, SlotAccept, mirror, bus, link
<1>5. CASE RetryClicked
  BY <1>5, MirrorFrame DEF RetryClicked, mirror, bus, slotVars
<1>6. ASSUME NEW v \in View, OpenInstall(v) \/ OpenRollback(v) \/ OpenFix(v) \/ Confirm(v) \/ Close(v)
      PROVE  MirrorInv'
  <2>1. CASE OpenInstall(v) \/ OpenRollback(v) \/ OpenFix(v)
    BY <2>1, MirrorFrame DEF OpenInstall, OpenRollback, OpenFix, OpenDialog, mirror, bus, link, slotVars
  <2>2. CASE Confirm(v)
    BY <2>2, MirrorAsks DEF Confirm, Send, link, slotVars
  <2>3. CASE Close(v)
    BY <2>3, MirrorFrame DEF Close, mirror, bus, link, slotVars
  <2> QED
    BY <1>6, <2>1, <2>2, <2>3
<1>7. CASE UNCHANGED vars
  BY <1>7, MirrorFrame DEF vars, mirror, bus, link, slotVars
<1> QED
  BY <1>1, <1>2, <1>3, <1>4, <1>5, <1>6, <1>7, MirrorIdle, MirrorChange, MirrorStop, MirrorTimeOut DEF Next

(* Once everything sent has been handled, the GUI knows whether the daemon   *)
(* is there and shows its degraded state, unless the last fetch of it        *)
(* failed; without a daemon it shows none (dbus_client.py:86-119,            *)
(* gpu_state.py:133-138 and 213-223: updates and the reset are deferred,     *)
(* "unreachable" and the connection are not).                                *)
THEOREM MirrorCorrect == Spec => []MirrorTrue
<1>1. TypeOK /\ MirrorInv => MirrorTrue
  <2> SUFFICES ASSUME TypeOK, MirrorInv, Quiet, proxy = "ready"
               PROVE  /\ connected = alive
                      /\ alive /\ ~unfetched => shown = mode
                      /\ ~alive => shown \notin Mode
    BY DEF MirrorTrue
  <2>1. \A A : None(calls, A) /\ None(inbox, A) /\ None(idleq, A)
    BY DEF Quiet, None
  <2>2. connected = alive
    BY <2>1 DEF MirrorInv, LinkTrue
  <2>3. alive /\ ~unfetched => shown = mode
    BY <2>1 DEF MirrorInv, Current, Settles
  <2>4. ~alive => shown \notin Mode
    BY <2>1, ClientConstants DEF MirrorInv, Blank, Settles
  <2> QED
    BY <2>2, <2>3, <2>4
<1>2. Init => TypeOK /\ MirrorInv /\ WarnInv
  BY TypeInit, MirrorInit DEF Init, WarnInv, Warned
<1>3. TypeOK /\ MirrorInv /\ WarnInv /\ [Next]_vars => (TypeOK /\ MirrorInv /\ WarnInv)'
  BY TypeStep, MirrorStep, WarnStep
<1> QED
  BY <1>1, <1>2, <1>3, PTL DEF Spec
-----------------------------------------------------------------------------
(* The outcome of a dialog.  Its operation is asked for in a call, started   *)
(* by a reply, stored by a callback and then the view's current one: as long *)
(* as no dialog was closed under its operation, a view has at most one in    *)
(* one of these places, its own, while it shows progress.                    *)

Asks(v)    == {c \in Calling : c.c = "ask" /\ c.v = v /\ ~c.late}
Replies(v) == {Started(v, o) : o \in Op \cup {NoOp}}
Stores(v)  == {Store(v, o) : o \in Op \cup {NoOp}}

(* The operations that another dialog than the view's asked for.            *)
Foreign(v) == {o \in Op : asker[o] # dialog[v]}

StrayAsks(v)    == {c \in Asks(v) : c.d # dialog[v]}
StrayReplies(v) == {Started(v, o) : o \in Foreign(v)}
StrayStores(v)  == {Store(v, o) : o \in Foreign(v)}

Asking(v)  == ~None(calls, Asks(v))
Replied(v) == ~None(inbox, Replies(v))
Storing(v) == ~None(idleq, Stores(v))
Holding(v) == current[v] # NoOp

Single(v) ==
  /\ Once(calls, Asks(v)) /\ Once(inbox, Replies(v)) /\ Once(idleq, Stores(v))
  /\ Asking(v) => ~Replied(v) /\ ~Storing(v) /\ ~Holding(v)
  /\ Replied(v) => ~Storing(v) /\ ~Holding(v)
  /\ Storing(v) => ~Holding(v)
  /\ stage[v] # "progress" => ~Asking(v) /\ ~Replied(v) /\ ~Storing(v) /\ ~Holding(v)

Owns(v) ==
  /\ None(calls, StrayAsks(v)) /\ None(inbox, StrayReplies(v)) /\ None(idleq, StrayStores(v))
  /\ current[v] \notin Foreign(v)

TokenInv == shut = {} => crossed = {} /\ \A v \in View : Single(v) /\ Owns(v)

(* The calls of a dialog, given up or not.                                  *)
AsksOf(d) == {c \in Calling : c.c = "ask" /\ c.d = d}

(* Dialogs are numbered in the order they open, and what they ask for bears  *)
(* their numbers.                                                           *)
DialogsNumbered ==
  /\ \A v \in View : /\ dialog[v] <= work
                     /\ stage[v] # "none" => dialog[v] # 0
                     /\ 0 <= left[v] /\ left[v] <= want[v]
                     /\ stage[v] = "preflight" => left[v] = want[v] /\ left[v] > 0
  /\ \A v, w \in View : dialog[v] = dialog[w] /\ dialog[v] # 0 => v = w

AsksNumbered ==
  /\ \A d \in Nat : d > work => None(calls, AsksOf(d))
  /\ \A o \in Op : asker[o] <= work /\ (answer[o] = "none" => asker[o] = 0)

(* A completion is told once, and after the answer.                         *)
Completions(o) == {Complete(o, TRUE), Complete(o, FALSE)}
Successes(o)   == {Complete(o, TRUE)}
Told ==
  \A o \in Op :
    /\ Once(inbox, Completions(o))
    /\ ~None(inbox, Completions(o)) => answer[o] \in {"ok", "failed"}
    /\ ~None(inbox, Successes(o)) => answer[o] = "ok"

(* What a dialog asked for, what became an operation, what it was told is   *)
(* done.                                                                    *)
At(q, A)  == {i \in DOMAIN q : q[i] \in A}
OpsOf(d)  == {o \in Op : asker[o] = d}
Done(d)   == {o \in OpsOf(d) : answer[o] = "ok" /\ None(inbox, Completions(o))}

Paid(v) ==
  Cardinality(At(calls, AsksOf(dialog[v]))) + Cardinality(OpsOf(dialog[v])) <= want[v] - left[v]

Earned(v) ==
  dialog[v] \notin crossed =>
    /\ stage[v] \in {"progress", "error"} => Cardinality(Done(dialog[v])) >= want[v] - left[v] - 1
    /\ stage[v] = "success" => left[v] = 0 /\ Cardinality(Done(dialog[v])) >= want[v]

Counted == \A v \in View : stage[v] # "none" => Paid(v) /\ Earned(v)

OutcomeInv == TokenInv /\ DialogsNumbered /\ AsksNumbered /\ Told /\ Counted

LEMMA AskSorts ==
  /\ \A v : Fetch \notin Asks(v) /\ Fetch \notin AsksOf(v)
  /\ \A c \in Calling : \A v : c \in Asks(v) <=> c.c = "ask" /\ c.v = v /\ ~c.late
  /\ \A c \in Calling : \A d : c \in AsksOf(d) <=> c.c = "ask" /\ c.d = d
  /\ TypeOK => \A v \in View : /\ \A w : Ask(v) \in Asks(w) <=> w = v
                               /\ \A d : Ask(v) \in AsksOf(d) <=> d = dialog[v]
                               /\ Ask(v).d = dialog[v]
<1>1. Fetch.c # "ask"
  BY DEF Fetch
<1>2. ASSUME TypeOK, NEW v \in View
      PROVE  Ask(v) \in Calling /\ Ask(v).c = "ask" /\ Ask(v).v = v /\ Ask(v).d = dialog[v] /\ ~Ask(v).late
  BY <1>2, CallTypes DEF Ask
<1> QED
  BY <1>1, <1>2 DEF Asks, AsksOf

LEMMA GivenUpKinds ==
  ASSUME NEW c \in Calling
  PROVE  /\ \A v : [c EXCEPT !.late = TRUE] \notin Asks(v)
         /\ \A d : [c EXCEPT !.late = TRUE] \in AsksOf(d) <=> c \in AsksOf(d)
<1>1. PICK k \in Calling : k = [c EXCEPT !.late = TRUE] /\ k.late
  BY GivenUp
<1>2. k.c = c.c /\ (k.c = "ask" => k.d = c.d)
  <2>1. CASE c \in [c : {"fetch"}, late : BOOLEAN]
    BY <1>1, <2>1
  <2>2. CASE c \in [c : {"ask"}, v : View, d : Nat, late : BOOLEAN]
    BY <1>1, <2>2
  <2> QED
    BY <2>1, <2>2 DEF Calling
<1>3. \A v : k \notin Asks(v)
  BY <1>1, AskSorts
<1>4. \A d : k \in AsksOf(d) <=> c \in AsksOf(d)
  BY <1>2, AskSorts
<1> QED
  BY <1>1, <1>3, <1>4

(* How the calls of a time-out go on.                                       *)
LEMMA TimedOut ==
  ASSUME TypeOK, NEW i, TimeOut(i)
  PROVE  /\ i \in DOMAIN calls /\ calls[i] \in Calling /\ DOMAIN calls' = DOMAIN calls
         /\ \A v : calls'[i] \notin Asks(v)
         /\ \A j \in DOMAIN calls : j # i => calls'[j] = calls[j]
         /\ \A j \in DOMAIN calls : \A d : calls'[j] \in AsksOf(d) <=> calls[j] \in AsksOf(d)
<1>1. /\ calls \in Seq(Calling) /\ i \in DOMAIN calls /\ calls[i] \in Calling
      /\ calls' = [calls EXCEPT ![i].late = TRUE]
  BY DEF TypeOK, QueueTypes, TimeOut
<1>2. /\ DOMAIN calls' = DOMAIN calls
      /\ \A j \in DOMAIN calls : j # i => calls'[j] = calls[j]
      /\ calls'[i] = [calls[i] EXCEPT !.late = TRUE]
  BY <1>1
<1> QED
  BY <1>1, <1>2, GivenUpKinds

(* What a completion does to the dialogs: those it hits end, or go on with   *)
(* the next fix.                                                            *)
Hits(v, o)  == current[v] = o /\ stage[v] \in Running
GoesOn(v, h) == Hits(v, h.o) /\ h.ok = TRUE /\ left[v] > 0

LEMMA Completed ==
  ASSUME TypeOK, OnComplete
  PROVE  \E h \in Message :
           /\ h = Head(inbox) /\ h.m = "complete" /\ h.o \in Op /\ h.ok \in BOOLEAN /\ h = Complete(h.o, h.ok)
           /\ \A v \in View : current'[v] = IF current[v] = h.o THEN NoOp ELSE current[v]
           /\ \A v \in View : IF GoesOn(v, h) THEN stage'[v] = "progress" /\ left'[v] = left[v] - 1
                             ELSE left'[v] = left[v]
           /\ \A v \in View : Hits(v, h.o) /\ ~GoesOn(v, h) =>
                               stage'[v] = IF h.ok = TRUE THEN "success" ELSE "error"
           /\ \A v \in View : ~Hits(v, h.o) => stage'[v] = stage[v]
           /\ calls' = calls \/ \E v \in View : GoesOn(v, h) /\ calls' = Append(calls, Ask(v))
           /\ \A d : d \in crossed' <=> \/ d \in crossed
                                       \/ \E v \in View : Hits(v, h.o) /\ asker[h.o] # dialog[v] /\ d = dialog[v]
<1>1. Take("complete")
  BY DEF OnComplete
<1>2. PICK h \in Message : h = Head(inbox) /\ h.m = "complete"
  BY <1>1, TakeTypes
<1>3. h.o \in Op /\ h.ok \in BOOLEAN /\ h = Complete(h.o, h.ok)
  BY <1>2, MessageKinds
<1> DEFINE hit  == {v \in Mine(h.o) : stage[v] \in Running}
           next == {v \in hit : h.ok /\ Continues(v)}
<1>4. \A v \in View : (v \in hit <=> Hits(v, h.o)) /\ (v \in next <=> GoesOn(v, h))
  BY <1>3 DEF Mine, Hits, GoesOn, Continues
<1>5. /\ current' = [v \in View |-> IF v \in Mine(h.o) THEN NoOp ELSE current[v]]
      /\ stage' = [v \in View |->
           IF v \notin hit THEN stage[v]
           ELSE IF v \in next THEN "progress"
           ELSE IF h.ok THEN "success" ELSE "error"]
      /\ left' = [v \in View |-> IF v \in next THEN left[v] - 1 ELSE left[v]]
  BY <1>2 DEF OnComplete
<1>6. calls' = calls \/ \E v \in next : calls' = Append(calls, Ask(v))
  BY <1>2 DEF OnComplete, Send
<1>7. crossed' = crossed \cup {dialog[v] : v \in {w \in hit : asker[h.o] # dialog[w]}}
  BY <1>2 DEF OnComplete
<1>8. hit \subseteq View /\ next \subseteq hit
  BY DEF Mine
<1> HIDE DEF hit, next
<1>9. \A v \in View : current'[v] = IF current[v] = h.o THEN NoOp ELSE current[v]
  BY <1>5 DEF Mine
<1>10. /\ \A v \in View : IF GoesOn(v, h) THEN stage'[v] = "progress" /\ left'[v] = left[v] - 1
                             ELSE left'[v] = left[v]
       /\ \A v \in View : Hits(v, h.o) /\ ~GoesOn(v, h) => stage'[v] = IF h.ok THEN "success" ELSE "error"
       /\ \A v \in View : ~Hits(v, h.o) => stage'[v] = stage[v]
  BY <1>4, <1>5, <1>8
<1>11. calls' = calls \/ \E v \in View : GoesOn(v, h) /\ calls' = Append(calls, Ask(v))
  BY <1>4, <1>6, <1>8
<1>12. \A d : d \in crossed' <=> \/ d \in crossed
                                \/ \E v \in View : Hits(v, h.o) /\ asker[h.o] # dialog[v] /\ d = dialog[v]
  BY <1>4, <1>7, <1>8
<1>13. \A v \in View : Hits(v, h.o) /\ ~GoesOn(v, h) => stage'[v] = IF h.ok = TRUE THEN "success" ELSE "error"
  BY <1>3, <1>10
<1> QED
  BY <1>2, <1>3, <1>9, <1>10, <1>11, <1>12, <1>13

(* Only the opening of a dialog asks for more work than its number tells.   *)
LEMMA NumberedInit == Init => DialogsNumbered /\ AsksNumbered
BY DEF Init, SlotInit, DialogsNumbered, AsksNumbered, None

LEMMA DialogsFrame ==
  ASSUME TypeOK, TypeOK', DialogsNumbered, work' \in {work, work + 1}, UNCHANGED <<dialog, left, want>>,
         \A v \in View : stage'[v] = stage[v] \/ (stage[v] # "none" /\ stage'[v] # "preflight")
  PROVE  DialogsNumbered'
<1>1. work \in Nat /\ \A v \in View : dialog[v] \in Nat
  BY DEF TypeOK, DialogTypes
<1>2. ASSUME NEW v \in View
      PROVE  /\ dialog'[v] <= work'
             /\ stage'[v] # "none" => dialog'[v] # 0
             /\ 0 <= left'[v] /\ left'[v] <= want'[v]
             /\ stage'[v] = "preflight" => left'[v] = want'[v] /\ left'[v] > 0
  BY <1>1 DEF DialogsNumbered
<1> QED
  BY <1>2 DEF DialogsNumbered

LEMMA DialogsStep == TypeOK /\ TypeOK' /\ DialogsNumbered /\ [Next]_vars => DialogsNumbered'
<1> SUFFICES ASSUME TypeOK, TypeOK', DialogsNumbered, [Next]_vars PROVE DialogsNumbered'
  OBVIOUS
<1>0. /\ work \in Nat /\ work' \in Nat
      /\ \A v \in View : dialog[v] \in Nat /\ left[v] \in Int /\ want[v] \in Nat
      /\ stage \in [View -> Running \cup {"none", "preflight"}] /\ dialog \in [View -> Nat]
      /\ left \in [View -> Int] /\ want \in [View -> Nat]
  BY DEF TypeOK, DialogTypes
<1>1. CASE Daemon \/ AcceptOther \/ RetryClicked
  <2>1. CASE Serve
    <3>1. work' \in {work, work + 1} /\ UNCHANGED <<dialog, left, want, stage>>
      BY <2>1 DEF Serve, Work, views
    <3> QED
      BY <3>1, DialogsFrame
  <2>2. CASE Activate \/ Connect \/ (\E r \in {"ok", "failed"} : Answer(r)) \/ Free \/ AcceptOther \/ RetryClicked
    <3>1. work' \in {work, work + 1} /\ UNCHANGED <<dialog, left, want, stage>>
      BY <2>2 DEF Activate, Connect, Answer, Free, AcceptOther, RetryClicked, Work, views, bounds, notes
    <3> QED
      BY <3>1, DialogsFrame
  <2> QED
    BY <1>1, <2>1, <2>2 DEF Daemon
<1>2. CASE OnComplete
  <2>1. \A v \in View : /\ stage'[v] = stage[v] \/ (stage[v] # "none" /\ stage'[v] # "preflight")
                        /\ left'[v] = left[v] \/ (left[v] > 0 /\ left'[v] = left[v] - 1 /\ stage'[v] # "preflight")
    BY <1>2, Completed DEF Hits, GoesOn, Running
  <2>2. UNCHANGED <<dialog, work, want>>
    BY <1>2 DEF OnComplete, bounds
  <2> QED
    BY <1>0, <2>1, <2>2 DEF DialogsNumbered
<1>3. CASE DoStore
  <2>1. \A v \in View : stage'[v] = stage[v] \/ (stage[v] # "none" /\ stage'[v] # "preflight")
    BY <1>0, <1>3 DEF DoStore, Refused, Running
  <2> QED
    BY <1>0, <1>3, <2>1, DialogsFrame DEF DoStore, bounds, notes
<1>4. CASE OnProxyReady \/ OnOwner \/ OnState \/ OnStarted \/ Drop \/ DoUpdate \/ DoReset \/ Retry
  BY <1>0, <1>4, DialogsFrame
  DEF OnProxyReady, OnOwner, OnState, OnStarted, Drop, DoUpdate, DoReset, Retry, views, bounds, notes
<1>5. CASE Stop \/ (\E s \in Mode : Change(s)) \/ (\E i \in 1 .. Len(calls) : TimeOut(i)) \/ UNCHANGED vars
  <2>1. work' = work /\ UNCHANGED <<dialog, left, want, stage>>
    BY <1>5 DEF Change, Stop, TimeOut, vars, views, bounds, notes
  <2> QED
    BY <2>1, DialogsFrame
<1>6. ASSUME NEW v \in View, OpenInstall(v) \/ OpenRollback(v) \/ OpenFix(v) PROVE DialogsNumbered'
  <2>1. PICK k \in 1 .. 2 : OpenDialog(v, k)
    BY <1>6 DEF OpenInstall, OpenRollback, OpenFix
  <2>2. /\ work' = work + 1
        /\ stage'[v] = "preflight" /\ dialog'[v] = work + 1 /\ left'[v] = k /\ want'[v] = k
        /\ \A w \in View : w # v => /\ stage'[w] = stage[w] /\ dialog'[w] = dialog[w]
                                    /\ left'[w] = left[w] /\ want'[w] = want[w]
    BY <1>0, <2>1 DEF OpenDialog, Work
  <2> QED
    BY <1>0, <2>2 DEF DialogsNumbered
<1>7. ASSUME NEW v \in View, Confirm(v) PROVE DialogsNumbered'
  <2>1. /\ stage[v] = "preflight" /\ stage'[v] = "progress" /\ left'[v] = left[v] - 1
        /\ \A w \in View : w # v => stage'[w] = stage[w] /\ left'[w] = left[w]
        /\ UNCHANGED <<work, dialog, want>>
    BY <1>0, <1>7 DEF Confirm, bounds, notes
  <2> QED
    BY <1>0, <2>1 DEF DialogsNumbered
<1>8. ASSUME NEW v \in View, Close(v) PROVE DialogsNumbered'
  <2>1. /\ stage'[v] = "none" /\ dialog'[v] = 0 /\ left'[v] = 0 /\ want'[v] = 0 /\ work' = work
        /\ \A w \in View : w # v => /\ stage'[w] = stage[w] /\ dialog'[w] = dialog[w]
                                    /\ left'[w] = left[w] /\ want'[w] = want[w]
    BY <1>0, <1>8 DEF Close, bounds
  <2> QED
    BY <1>0, <2>1 DEF DialogsNumbered
<1> QED
  BY <1>1, <1>2, <1>3, <1>4, <1>5, <1>6, <1>7, <1>8 DEF Next, Handle, Idle

(* What a step does to the operations, the calls and the count of work.     *)
LEMMA OpsMove ==
  ASSUME TypeOK, [Next]_vars, NEW o \in Op
  PROVE  /\ \/ answer'[o] = answer[o]
            \/ answer[o] = "none" /\ answer'[o] = "pending"
            \/ answer[o] = "pending" /\ answer'[o] \in {"ok", "failed", "lost"}
         /\ \/ asker'[o] = asker[o]
            \/ /\ Serve /\ answer[o] = "none" /\ answer'[o] = "pending"
               /\ Head(calls).c = "ask" /\ asker'[o] = Head(calls).d
<1>1. answer \in [Op -> {"none", "pending", "ok", "failed", "lost"}] /\ asker \in [Op -> Nat]
  BY DEF TypeOK, DaemonTypes, DialogTypes
<1>2. CASE Serve
  <2>1. \/ UNCHANGED <<answer, asker>>
        \/ /\ SlotAccept(Fresh) /\ asker' = [asker EXCEPT ![Fresh] = Head(calls).d] /\ Fresh # NoOp
           /\ Head(calls).c = "ask"
    BY <1>2 DEF Serve, slotVars
  <2>2. CASE /\ SlotAccept(Fresh) /\ asker' = [asker EXCEPT ![Fresh] = Head(calls).d] /\ Fresh # NoOp
             /\ Head(calls).c = "ask"
    BY <1>1, <1>2, <2>2, FreshType DEF SlotAccept
  <2> QED
    BY <2>1, <2>2
<1>3. CASE AcceptOther
  BY <1>1, <1>3, FreshType DEF AcceptOther, SlotAccept, notes
<1>4. ASSUME NEW r \in {"ok", "failed"}, Answer(r)
      PROVE  asker' = asker /\ \/ answer'[o] = answer[o]
                               \/ answer[o] = "pending" /\ answer'[o] \in {"ok", "failed", "lost"}
  BY <1>1, <1>4 DEF Answer, SlotAnswer, notes
<1>5. CASE Stop
  BY <1>1, <1>5 DEF Stop, SlotStop, notes
<1>6. CASE Activate \/ Connect \/ Free
  BY <1>6 DEF Activate, Connect, Free, Begins, SlotStart, SlotFree, slotVars, notes
<1>7. CASE Handle \/ Idle \/ Retry \/ RetryClicked
  BY <1>7 DEF Handle, OnProxyReady, OnOwner, OnState, OnStarted, OnComplete, Drop,
              Idle, DoUpdate, DoReset, DoStore, Retry, RetryClicked, slotVars, notes
<1>8. CASE (\E s \in Mode : Change(s)) \/ (\E i \in 1 .. Len(calls) : TimeOut(i)) \/ UNCHANGED vars
  BY <1>8 DEF Change, TimeOut, vars, slotVars, notes
<1>9. CASE \E v \in View : OpenInstall(v) \/ OpenRollback(v) \/ OpenFix(v) \/ Confirm(v) \/ Close(v)
  BY <1>9 DEF OpenInstall, OpenRollback, OpenFix, OpenDialog, Confirm, Close, slotVars, notes
<1> QED
  BY <1>2, <1>3, <1>4, <1>5, <1>6, <1>7, <1>8, <1>9 DEF Next, Daemon

LEMMA CallsMove ==
  ASSUME TypeOK, [Next]_vars
  PROVE  \/ calls' = calls \/ calls' = <<>> \/ calls' = Append(calls, Fetch)
         \/ \E v \in View : /\ calls' = Append(calls, Ask(v)) /\ dialog' = dialog
                            /\ Confirm(v) \/ (OnComplete /\ left'[v] = left[v] - 1)
         \/ Serve
         \/ \E i : TimeOut(i)
<1>1. CASE OnComplete
  <2>1. PICK h : /\ \A v \in View : GoesOn(v, h) => left'[v] = left[v] - 1
                 /\ calls' = calls \/ \E v \in View : GoesOn(v, h) /\ calls' = Append(calls, Ask(v))
    BY <1>1, Completed
  <2> QED
    BY <1>1, <2>1 DEF OnComplete
<1>2. CASE OnProxyReady \/ OnOwner \/ OnState \/ OnStarted \/ Drop \/ Idle \/ Retry \/ RetryClicked
  BY <1>2 DEF OnProxyReady, OnOwner, OnState, OnStarted, Drop,
              Idle, DoUpdate, DoReset, DoStore, Retry, RetryClicked, bus, Send
<1>3. CASE Daemon \/ AcceptOther \/ Stop
  BY <1>3 DEF Daemon, Activate, Connect, Answer, Free, AcceptOther, Stop, bus
<1>4. CASE (\E s \in Mode : Change(s)) \/ (\E i \in 1 .. Len(calls) : TimeOut(i)) \/ UNCHANGED vars
  BY <1>4 DEF Change, vars, bus
<1>5. ASSUME NEW v \in View, OpenInstall(v) \/ OpenRollback(v) \/ OpenFix(v) \/ Close(v) PROVE calls' = calls
  BY <1>5 DEF OpenInstall, OpenRollback, OpenFix, OpenDialog, Close, bus
<1>6. ASSUME NEW v \in View, Confirm(v) PROVE calls' = Append(calls, Ask(v)) /\ dialog' = dialog
  BY <1>6 DEF Confirm, Send
<1> QED
  BY <1>1, <1>2, <1>3, <1>4, <1>5, <1>6 DEF Next, Handle

LEMMA WorkMoves == TypeOK /\ [Next]_vars => work' \in {work, work + 1}
<1> SUFFICES ASSUME [Next]_vars PROVE work' \in {work, work + 1}
  OBVIOUS
<1>1. CASE Daemon \/ AcceptOther
  BY <1>1 DEF Daemon, Activate, Connect, Serve, Answer, Free, AcceptOther, bounds, Work
<1>2. CASE Handle \/ Idle \/ Retry \/ RetryClicked
  BY <1>2 DEF Handle, OnProxyReady, OnOwner, OnState, OnStarted, OnComplete, Drop,
              Idle, DoUpdate, DoReset, DoStore, Retry, RetryClicked, bounds, Work
<1>3. CASE Stop \/ (\E s \in Mode : Change(s)) \/ (\E i \in 1 .. Len(calls) : TimeOut(i)) \/ UNCHANGED vars
  BY <1>3 DEF Stop, Change, TimeOut, vars, bounds
<1>4. CASE \E v \in View : OpenInstall(v) \/ OpenRollback(v) \/ OpenFix(v) \/ Confirm(v) \/ Close(v)
  BY <1>4 DEF OpenInstall, OpenRollback, OpenFix, OpenDialog, Confirm, Close, bounds, Work
<1> QED
  BY <1>1, <1>2, <1>3, <1>4 DEF Next

LEMMA AsksStep == TypeOK /\ TypeOK' /\ DialogsNumbered /\ AsksNumbered /\ [Next]_vars => AsksNumbered'
<1> SUFFICES ASSUME TypeOK, TypeOK', DialogsNumbered, AsksNumbered, [Next]_vars PROVE AsksNumbered'
  OBVIOUS
<1>1. work \in Nat /\ work' \in Nat /\ work' >= work
  BY WorkMoves DEF TypeOK, DialogTypes
<1>2. ASSUME NEW d \in Nat, d > work' PROVE None(calls', AsksOf(d))
  <2>1. None(calls, AsksOf(d)) /\ d > work
    BY <1>1, <1>2 DEF AsksNumbered
  <2>2. CASE calls' = calls \/ calls' = <<>>
    BY <2>1, <2>2 DEF None
  <2>3. CASE calls' = Append(calls, Fetch)
    BY <2>1, <2>3, Asked, AskSorts
  <2>4. ASSUME NEW v \in View, calls' = Append(calls, Ask(v)) PROVE None(calls', AsksOf(d))
    <3>1. dialog[v] # d
      BY <1>1, <2>1 DEF DialogsNumbered, TypeOK, DialogTypes
    <3> QED
      BY <2>1, <2>4, <3>1, Asked, AskSorts
  <2>5. CASE Serve
    BY <2>1, <2>5, Served DEF Serve
  <2>6. ASSUME NEW i, TimeOut(i) PROVE None(calls', AsksOf(d))
    BY <2>1, <2>6, TimedOut DEF None
  <2> QED
    BY <2>2, <2>3, <2>4, <2>5, <2>6, CallsMove
<1>3. ASSUME NEW o \in Op PROVE asker'[o] <= work' /\ (answer'[o] = "none" => asker'[o] = 0)
  <2>1. asker[o] <= work /\ (answer[o] = "none" => asker[o] = 0) /\ asker[o] \in Nat
    BY DEF AsksNumbered, TypeOK, DialogTypes
  <2>2. CASE asker'[o] = asker[o]
    BY <1>1, <2>1, <2>2, OpsMove
  <2>3. CASE Serve /\ answer'[o] = "pending" /\ Head(calls).c = "ask" /\ asker'[o] = Head(calls).d
    <3>1. PICK c \in Calling : c = Head(calls) /\ \A A : None(calls, A) <=> c \notin A /\ None(calls', A)
      BY <2>3, Served DEF Serve
    <3>2. c.d \in Nat /\ c \in AsksOf(c.d)
      BY <2>3, <3>1, AskSorts, CallKinds
    <3>3. ~(c.d > work)
      BY <3>1, <3>2 DEF AsksNumbered
    <3> QED
      BY <1>1, <2>3, <3>1, <3>2, <3>3
  <2> QED
    BY <2>2, <2>3, OpsMove
<1> QED
  BY <1>2, <1>3 DEF AsksNumbered

(* Only an answer of the daemon is told of as a completion.                 *)
LEMMA CompletionSorts ==
  /\ \A h \in Message : \A o : h.m # "complete" => h \notin Completions(o) /\ h \notin Successes(o)
  /\ \A o, p : /\ Complete(p, TRUE) \in Completions(o) <=> p = o
               /\ Complete(p, FALSE) \in Completions(o) <=> p = o
               /\ Complete(p, TRUE) \in Successes(o) <=> p = o
               /\ Complete(p, FALSE) \notin Successes(o)
<1>1. \A o : /\ Complete(o, TRUE).m = "complete" /\ Complete(o, FALSE).m = "complete"
            /\ Complete(o, TRUE).o = o /\ Complete(o, FALSE).o = o
            /\ Complete(o, TRUE).ok = TRUE /\ Complete(o, FALSE).ok = FALSE
  BY DEF Complete
<1>2. \A h \in Message : \A o : h.m # "complete" => h \notin Completions(o) /\ h \notin Successes(o)
  <2> HIDE DEF Complete
  <2> QED
    BY <1>1 DEF Completions, Successes
<1>3. ASSUME NEW o, NEW p
      PROVE  /\ Complete(p, TRUE) \in Completions(o) <=> p = o
             /\ Complete(p, FALSE) \in Completions(o) <=> p = o
             /\ Complete(p, TRUE) \in Successes(o) <=> p = o
             /\ Complete(p, FALSE) \notin Successes(o)
  <2>1. Complete(p, TRUE) = Complete(o, TRUE) => p = o
    BY <1>1
  <2>2. Complete(p, FALSE) = Complete(o, FALSE) => p = o
    BY <1>1
  <2>3. Complete(p, TRUE) # Complete(o, FALSE) /\ Complete(p, FALSE) # Complete(o, TRUE)
    BY <1>1
  <2> QED
    BY <2>1, <2>2, <2>3 DEF Completions, Successes
<1> QED
  BY <1>2, <1>3

(* What is not in the one queue is not in the other, nor twice.             *)
Keeps(q, r, A) == \A B \in SUBSET A : (None(q, B) => None(r, B)) /\ (Once(q, B) => Once(r, B))

LEMMA KeepsTail ==
  ASSUME NEW S, NEW q \in Seq(S), q # <<>>, NEW A
  PROVE  Keeps(q, Tail(q), A)
BY Taking DEF Keeps

LEMMA KeepsAppend ==
  ASSUME NEW S, NEW q \in Seq(S), NEW e, NEW A, e \notin A
  PROVE  Keeps(q, Append(q, e), A)
BY Adding DEF Keeps

LEMMA KeepsJoin ==
  ASSUME NEW S, NEW q \in Seq(S), NEW r \in Seq(S), NEW A, None(r, A)
  PROVE  Keeps(q, q \o r, A)
<1>1. ASSUME NEW B \in SUBSET A PROVE None(r, B) /\ Once(r, B)
  BY DEF None, Once
<1> QED
  BY <1>1, Joining DEF Keeps

LEMMA KeepsTwice ==
  ASSUME NEW q, NEW r, NEW t, NEW A, Keeps(q, r, A), Keeps(r, t, A)
  PROVE  Keeps(q, t, A)
BY DEF Keeps

(* Only an answer of the daemon tells of a completion.                      *)
Endings == {h \in Message : h.m = "complete"}

LEMMA EndingSorts ==
  ASSUME NEW o \in Op
  PROVE  Completions(o) \in SUBSET Endings /\ Successes(o) \in SUBSET Endings
<1>1. Complete(o, TRUE) \in Message /\ Complete(o, FALSE) \in Message
  BY MessageTypes
<1>2. Complete(o, TRUE).m = "complete" /\ Complete(o, FALSE).m = "complete"
  BY Sorts
<1>3. Complete(o, TRUE) \in Endings /\ Complete(o, FALSE) \in Endings
  BY <1>1, <1>2 DEF Endings
<1> QED
  BY <1>3 DEF Completions, Successes

LEMMA InboxMoves ==
  ASSUME TypeOK, [Next]_vars
  PROVE  Keeps(inbox, inbox', Endings) \/ \E r \in {"ok", "failed"} : Answer(r)
<1>1. inbox \in Seq(Message) /\ calls \in Seq(Calling)
  BY DEF TypeOK, QueueTypes
<1>2. ASSUME NEW h \in Message, h.m # "complete", inbox' = Append(inbox, h)
      PROVE  Keeps(inbox, inbox', Endings)
  BY <1>1, <1>2, KeepsAppend DEF Endings
<1>3. ASSUME NEW m, Take(m) PROVE Keeps(inbox, inbox', Endings)
  BY <1>1, <1>3, KeepsTail DEF Take
<1>4. CASE inbox' = inbox
  BY <1>4 DEF Keeps
<1>5. /\ Comes.m # "complete" /\ Goes.m # "complete" /\ Comes \in Message /\ Goes \in Message
      /\ \A r \in {"up", "down", "failed"} : Proxy(r) \in Message /\ Proxy(r).m # "complete"
      /\ \A s \in Mode : State("changed", s) \in Message /\ State("changed", s).m # "complete"
  <2>1. Comes \in Message /\ Goes \in Message
    BY MessageTypes DEF Comes, Goes
  <2> QED
    BY <2>1, Sorts, MessageTypes
<1>6. ASSUME NEW c \in Calling, NEW m \in Message, m.m # "complete"
      PROVE  Reply(c, m) \in Message /\ Reply(c, m).m # "complete"
  BY <1>6, CallKinds, Sorts DEF Reply
<1>7. ASSUME NEW c \in Calling PROVE Failure(c) \in Message /\ Failure(c).m # "complete"
  BY CallKinds, Sorts DEF Failure
<1>8. CASE Activate
  <2>1. inbox' = Append(inbox, Comes)
    BY <1>8 DEF Activate, Tell, Comes
  <2> QED
    BY <1>2, <1>5, <2>1
<1>9. CASE Connect
  <2>1. CASE \E r \in {"up", "down", "failed"} : inbox' = Append(inbox, Proxy(r))
    BY <1>2, <1>5, <2>1
  <2>2. CASE inbox' = inbox \o <<Comes, Proxy("up")>>
    <3>1. inbox' = Append(Append(inbox, Comes), Proxy("up")) /\ Append(inbox, Comes) \in Seq(Message)
      BY <1>1, <1>5, <2>2, Pairing, Typing
    <3>2. Keeps(inbox, Append(inbox, Comes), Endings) /\ Keeps(Append(inbox, Comes), inbox', Endings)
      BY <1>1, <1>5, <3>1, KeepsAppend DEF Endings
    <3> QED
      BY <3>2, KeepsTwice
  <2> QED
    BY <1>9, <2>1, <2>2 DEF Connect, Tell, Comes
<1>10. CASE Serve
  <2>1. PICK c \in Calling : c = Head(calls)
    BY <1>10, Served DEF Serve
  <2>2. \E m \in Message : m.m # "complete" /\ inbox' = Append(inbox, Reply(c, m))
    <3>1. CASE Tell(Reply(c, State("fetched", mode)))
      BY <3>1, MessageTypes, Sorts DEF Tell, TypeOK, DaemonTypes
    <3>2. CASE Fresh # NoOp /\ Tell(Reply(c, Started(c.v, Fresh))) /\ c.c = "ask"
      BY <3>2, FreshType, MessageTypes, CallKinds, Sorts DEF Tell
    <3>3. CASE Tell(Reply(c, Failure(c)))
      BY <1>7, <3>3 DEF Tell
    <3> QED
      BY <1>10, <2>1, <3>1, <3>2, <3>3 DEF Serve
  <2> QED
    BY <1>2, <1>6, <2>2
<1>11. ASSUME NEW s \in Mode, Change(s) PROVE Keeps(inbox, inbox', Endings)
  BY <1>2, <1>5, <1>11 DEF Change, Tell
<1>12. CASE Stop
  <2>1. PICK r \in Seq(Message) :
          /\ inbox' = Append(inbox, Goes) \o r /\ Append(inbox, Goes) \in Seq(Message)
          /\ \A i \in DOMAIN r : calls[i] \in Calling /\ r[i] = Reply(calls[i], Failure(calls[i]))
    BY <1>12, Stopped
  <2>2. None(r, Endings)
    BY <1>6, <1>7, <2>1 DEF None, Endings
  <2>3. Keeps(inbox, Append(inbox, Goes), Endings) /\ Keeps(Append(inbox, Goes), inbox', Endings)
    BY <1>1, <1>5, <2>1, <2>2, KeepsAppend, KeepsJoin DEF Endings
  <2> QED
    BY <2>3, KeepsTwice
<1>13. ASSUME NEW i, TimeOut(i) PROVE Keeps(inbox, inbox', Endings)
  <2>1. calls[i] \in Calling /\ inbox' = Append(inbox, Failure(calls[i]))
    BY <1>13, TimedOut DEF TimeOut, Tell
  <2> QED
    BY <1>2, <1>7, <2>1
<1>14. CASE Handle
  BY <1>3, <1>14 DEF Handle, OnProxyReady, OnOwner, OnState, OnStarted, OnComplete, Drop
<1>15. CASE Free \/ AcceptOther \/ Idle \/ Retry \/ RetryClicked
  BY <1>4, <1>15 DEF Free, AcceptOther, Idle, DoUpdate, DoReset, DoStore, Retry, RetryClicked, bus
<1>16. CASE UNCHANGED vars \/ \E v \in View : OpenInstall(v) \/ OpenRollback(v) \/ OpenFix(v) \/ Confirm(v) \/ Close(v)
  BY <1>4, <1>16 DEF vars, OpenInstall, OpenRollback, OpenFix, OpenDialog, Confirm, Close, bus
<1> QED
  BY <1>8, <1>9, <1>10, <1>11, <1>12, <1>13, <1>14, <1>15, <1>16 DEF Next, Daemon

LEMMA ToldStep == TypeOK /\ Told /\ [Next]_vars => Told'
<1> SUFFICES ASSUME TypeOK, Told, [Next]_vars, NEW o \in Op
             PROVE  /\ Once(inbox', Completions(o))
                    /\ ~None(inbox', Completions(o)) => answer'[o] \in {"ok", "failed"}
                    /\ ~None(inbox', Successes(o)) => answer'[o] = "ok"
  BY DEF Told
<1>1. CASE Keeps(inbox, inbox', Endings)
  <2>1. Completions(o) \in SUBSET Endings /\ Successes(o) \in SUBSET Endings
    BY EndingSorts
  <2>2. answer[o] \in {"ok", "failed"} => answer'[o] = answer[o]
    BY OpsMove
  <2> QED
    BY <1>1, <2>1, <2>2 DEF Keeps, Told
<1>2. ASSUME NEW r \in {"ok", "failed"}, Answer(r)
      PROVE  /\ Once(inbox', Completions(o))
             /\ ~None(inbox', Completions(o)) => answer'[o] \in {"ok", "failed"}
             /\ ~None(inbox', Successes(o)) => answer'[o] = "ok"
  <2>1. PICK p \in Op : /\ p = owner /\ answer[p] = "pending" /\ answer' = [answer EXCEPT ![p] = r]
    BY <1>2 DEF Answer, SlotAnswer, TypeOK, DaemonTypes
  <2>2. PICK h : /\ inbox' = Append(inbox, h)
                 /\ h = IF r = "ok" THEN Complete(p, TRUE) ELSE Complete(p, FALSE)
    <3>1. CASE r = "ok"
      BY <1>2, <2>1, <3>1 DEF Answer, Tell
    <3>2. CASE r = "failed"
      BY <1>2, <2>1, <3>2 DEF Answer, Tell
    <3> QED
      BY <3>1, <3>2
  <2>3. /\ h \in Completions(o) <=> p = o
        /\ h \in Successes(o) <=> p = o /\ r = "ok"
    BY <2>2, CompletionSorts
  <2>4. /\ \A A : None(inbox', A) <=> None(inbox, A) /\ h \notin A
        /\ \A A : Once(inbox', A) <=> Once(inbox, A) /\ (h \in A => None(inbox, A))
    BY <2>2, Heard
  <2>5. answer \in [Op -> {"none", "pending", "ok", "failed", "lost"}]
    BY DEF TypeOK, DaemonTypes
  <2>6. CASE p = o
    <3>1. None(inbox, Completions(o)) /\ Once(inbox, Completions(o)) /\ None(inbox, Successes(o))
      BY <2>1, <2>6 DEF Told
    <3> QED
      BY <2>1, <2>3, <2>4, <2>5, <2>6, <3>1
  <2>7. CASE p # o
    <3>1. answer'[o] = answer[o]
      BY <2>1, <2>5, <2>7
    <3> QED
      BY <2>3, <2>4, <2>7, <3>1 DEF Told
  <2> QED
    BY <2>6, <2>7
<1> QED
  BY <1>1, <1>2, InboxMoves

(* Counting.                                                                *)
LEMMA CountAppend ==
  ASSUME NEW S, NEW q \in Seq(S), NEW e, NEW A
  PROVE  /\ IsFiniteSet(At(q, A)) /\ Cardinality(At(q, A)) \in Nat
         /\ e \notin A => At(Append(q, e), A) = At(q, A)
         /\ Cardinality(At(Append(q, e), A)) <= Cardinality(At(q, A)) + 1
<1>1. PICK r, n : r = Append(q, e) /\ n = Len(q) + 1
  OBVIOUS
<1>2. /\ n \in DOMAIN r /\ r[n] = e /\ n \in Nat
      /\ \A i \in DOMAIN r : i = n \/ (i \in DOMAIN q /\ r[i] = q[i])
      /\ \A i \in DOMAIN q : i \in DOMAIN r /\ r[i] = q[i] /\ i \in 1 .. n
  BY <1>1
<1>3. IsFiniteSet(At(q, A)) /\ Cardinality(At(q, A)) \in Nat
  <2>1. At(q, A) \in SUBSET (1 .. n)
    BY <1>2 DEF At
  <2>2. IsFiniteSet(1 .. n)
    BY <1>2, FS_Interval
  <2> QED
    BY <2>1, <2>2, FS_Subset, FS_CardinalityType
<1>4. e \notin A => At(r, A) = At(q, A)
  BY <1>2 DEF At
<1>5. At(r, A) \in SUBSET (At(q, A) \cup {n})
  BY <1>2 DEF At
<1>6. IsFiniteSet(At(q, A) \cup {n}) /\ Cardinality(At(q, A) \cup {n}) <= Cardinality(At(q, A)) + 1
      /\ Cardinality(At(q, A) \cup {n}) \in Nat
  <2>1. /\ IsFiniteSet(At(q, A) \cup {n})
        /\ Cardinality(At(q, A) \cup {n}) = IF n \in At(q, A) THEN Cardinality(At(q, A))
                                            ELSE Cardinality(At(q, A)) + 1
    BY <1>3, FS_AddElement
  <2> QED
    BY <1>3, <2>1
<1>7. Cardinality(At(r, A)) <= Cardinality(At(q, A) \cup {n}) /\ Cardinality(At(r, A)) \in Nat
  BY <1>5, <1>6, FS_Subset, FS_CardinalityType
<1>8. Cardinality(At(r, A)) <= Cardinality(At(q, A)) + 1
  BY <1>3, <1>6, <1>7
<1> QED
  BY <1>1, <1>3, <1>4, <1>8

LEMMA CountTail ==
  ASSUME NEW S, NEW q \in Seq(S), q # <<>>, NEW A
  PROVE  Cardinality(At(Tail(q), A)) <= Cardinality(At(q, A)) - (IF Head(q) \in A THEN 1 ELSE 0)
<1>1. PICK h, r : h = Head(q) /\ r = Tail(q)
  OBVIOUS
<1>2. /\ 1 \in DOMAIN q /\ q[1] = h /\ r \in Seq(S)
      /\ \A i \in DOMAIN q : i \in Int /\ i >= 1
      /\ \A i \in DOMAIN r : i \in Int /\ i >= 1 /\ i + 1 \in DOMAIN q /\ r[i] = q[i + 1]
      /\ \A i \in DOMAIN q : i = 1 \/ (i - 1 \in DOMAIN r /\ r[i - 1] = q[i])
  BY <1>1, TailIndex
<1>3. /\ IsFiniteSet(At(q, A)) /\ Cardinality(At(q, A)) \in Nat
      /\ IsFiniteSet(At(r, A)) /\ Cardinality(At(r, A)) \in Nat
  BY <1>2, CountAppend
<1> DEFINE rest == At(q, A) \ {1}
           back == [i \in rest |-> i - 1]
<1>4. IsFiniteSet(rest) /\ Cardinality(rest) = Cardinality(At(q, A)) - (IF h \in A THEN 1 ELSE 0)
  <2>1. 1 \in At(q, A) <=> h \in A
    BY <1>2 DEF At
  <2> QED
    <3>1. /\ IsFiniteSet(At(q, A) \ {1})
          /\ Cardinality(At(q, A) \ {1}) = IF 1 \in At(q, A) THEN Cardinality(At(q, A)) - 1 ELSE Cardinality(At(q, A))
      BY <1>3, FS_RemoveElement
    <3> QED
      BY <1>3, <2>1, <3>1
<1>5. back \in Surjection(rest, At(r, A))
  <2>1. \A i \in rest : i - 1 \in At(r, A)
    BY <1>2 DEF At
  <2>2. back \in [rest -> At(r, A)]
    BY <2>1
  <2>3. \A j \in At(r, A) : j + 1 \in rest /\ back[j + 1] = j
    BY <1>2 DEF At
  <2> QED
    BY <2>2, <2>3 DEF Surjection
<1>6. Cardinality(At(r, A)) <= Cardinality(rest)
  <2> HIDE DEF rest, back
  <2> QED
    BY <1>4, <1>5, FS_Surjection
<1> QED
  BY <1>1, <1>4, <1>6

LEMMA Finite ==
  ASSUME TypeOK
  PROVE  /\ \A A : IsFiniteSet(At(calls, A)) /\ Cardinality(At(calls, A)) \in Nat
         /\ \A d : IsFiniteSet(OpsOf(d)) /\ Cardinality(OpsOf(d)) \in Nat
         /\ \A d : IsFiniteSet(Done(d)) /\ Cardinality(Done(d)) \in Nat /\ Cardinality(Done(d)) <= Cardinality(OpsOf(d))
<1>1. \A A : IsFiniteSet(At(calls, A)) /\ Cardinality(At(calls, A)) \in Nat
  BY CountAppend DEF TypeOK, QueueTypes
<1>2. ASSUME NEW d
      PROVE  /\ IsFiniteSet(OpsOf(d)) /\ Cardinality(OpsOf(d)) \in Nat
             /\ IsFiniteSet(Done(d)) /\ Cardinality(Done(d)) \in Nat /\ Cardinality(Done(d)) <= Cardinality(OpsOf(d))
  <2>1. OpsOf(d) \in SUBSET Op /\ Done(d) \in SUBSET OpsOf(d)
    BY DEF OpsOf, Done
  <2>2. IsFiniteSet(Op)
    BY ClientConstants
  <2>3. IsFiniteSet(OpsOf(d))
    BY <2>1, <2>2, FS_Subset
  <2> QED
    BY <2>1, <2>3, FS_Subset, FS_CardinalityType
<1> QED
  BY <1>1, <1>2

(* A step pays for what it asks for, and loses nothing that is done.        *)
LEMMA Spending ==
  ASSUME TypeOK, TypeOK', [Next]_vars, NEW d
  PROVE  \/ Cardinality(At(calls', AsksOf(d))) + Cardinality(OpsOf(d)')
              <= Cardinality(At(calls, AsksOf(d))) + Cardinality(OpsOf(d))
         \/ /\ Cardinality(At(calls', AsksOf(d))) + Cardinality(OpsOf(d)')
                 <= Cardinality(At(calls, AsksOf(d))) + Cardinality(OpsOf(d)) + 1
            /\ \E v \in View : dialog[v] = d /\ dialog' = dialog /\ (Confirm(v) \/ left'[v] = left[v] - 1)
<1>0. calls \in Seq(Calling)
  BY DEF TypeOK, QueueTypes
<1>1. /\ Cardinality(At(calls, AsksOf(d))) \in Nat /\ Cardinality(At(calls', AsksOf(d))) \in Nat
      /\ Cardinality(OpsOf(d)) \in Nat /\ Cardinality(OpsOf(d)') \in Nat /\ IsFiniteSet(OpsOf(d))
  <2>1. calls' \in Seq(Calling)
    BY DEF TypeOK, QueueTypes
  <2>2. Cardinality(OpsOf(d)') \in Nat
    <3>1. OpsOf(d)' \in SUBSET Op
      BY DEF OpsOf
    <3> QED
      BY <3>1, ClientConstants, FS_Subset, FS_CardinalityType
  <2> QED
    BY <2>1, <2>2, Finite, CountAppend
<1>2. CASE Serve
  <2>1. PICK c \in Calling : c = Head(calls) /\ calls' = Tail(calls) /\ calls # <<>>
    BY <1>0, <1>2, TailIndex DEF Serve
  <2>2. Cardinality(At(calls', AsksOf(d))) <= Cardinality(At(calls, AsksOf(d))) - (IF c \in AsksOf(d) THEN 1 ELSE 0)
    BY <1>0, <2>1, CountTail
  <2>3. CASE asker' = asker
    <3>1. OpsOf(d)' = OpsOf(d)
      BY <2>3 DEF OpsOf
    <3> QED
      BY <1>1, <2>2, <3>1
  <2>4. CASE c.c = "ask" /\ asker' = [asker EXCEPT ![Fresh] = c.d]
    <3>1. asker \in [Op -> Nat]
      BY DEF TypeOK, DialogTypes
    <3>2. CASE c.d = d
      <4>1. OpsOf(d)' \in SUBSET (OpsOf(d) \cup {Fresh})
        BY <2>4, <3>1 DEF OpsOf
      <4>2. Cardinality(OpsOf(d)') <= Cardinality(OpsOf(d)) + 1
        <5>1. /\ IsFiniteSet(OpsOf(d) \cup {Fresh})
              /\ Cardinality(OpsOf(d) \cup {Fresh}) <= Cardinality(OpsOf(d)) + 1
              /\ Cardinality(OpsOf(d) \cup {Fresh}) \in Nat
          <6>1. /\ IsFiniteSet(OpsOf(d) \cup {Fresh})
                /\ Cardinality(OpsOf(d) \cup {Fresh})
                     = IF Fresh \in OpsOf(d) THEN Cardinality(OpsOf(d)) ELSE Cardinality(OpsOf(d)) + 1
            BY <1>1, FS_AddElement
          <6> QED
            BY <1>1, <6>1
        <5>2. Cardinality(OpsOf(d)') <= Cardinality(OpsOf(d) \cup {Fresh})
          BY <4>1, <5>1, FS_Subset
        <5> QED
          BY <1>1, <5>1, <5>2
      <4>3. c \in AsksOf(d)
        BY <2>4, <3>2, AskSorts
      <4> QED
        BY <1>1, <2>2, <4>2, <4>3
    <3>3. CASE c.d # d
      <4>1. OpsOf(d)' \in SUBSET OpsOf(d)
        BY <2>4, <3>1, <3>3 DEF OpsOf
      <4>2. Cardinality(OpsOf(d)') <= Cardinality(OpsOf(d))
        BY <1>1, <4>1, FS_Subset
      <4> QED
        BY <1>1, <2>2, <4>2
    <3> QED
      BY <3>2, <3>3
  <2> QED
    BY <1>2, <2>1, <2>3, <2>4 DEF Serve
<1>3. CASE ~Serve
  <2>1. OpsOf(d)' = OpsOf(d)
    BY <1>3, OpsMove DEF OpsOf
  <2>2. CASE calls' = calls \/ calls' = Append(calls, Fetch)
    <3>1. Fetch \notin AsksOf(d)
      BY AskSorts
    <3>2. At(Append(calls, Fetch), AsksOf(d)) = At(calls, AsksOf(d))
      BY <1>0, <3>1, CountAppend
    <3>3. At(calls', AsksOf(d)) = At(calls, AsksOf(d))
      BY <2>2, <3>2
    <3> QED
      BY <1>1, <2>1, <3>3
  <2>3. CASE calls' = <<>>
    <3>1. At(calls', AsksOf(d)) = {}
      BY <2>3 DEF At
    <3> QED
      BY <1>1, <2>1, <3>1, FS_EmptySet
  <2>4. ASSUME NEW v \in View, calls' = Append(calls, Ask(v)), dialog' = dialog, Confirm(v) \/ left'[v] = left[v] - 1
        PROVE  \/ Cardinality(At(calls', AsksOf(d))) + Cardinality(OpsOf(d)')
                    <= Cardinality(At(calls, AsksOf(d))) + Cardinality(OpsOf(d))
               \/ /\ Cardinality(At(calls', AsksOf(d))) + Cardinality(OpsOf(d)')
                       <= Cardinality(At(calls, AsksOf(d))) + Cardinality(OpsOf(d)) + 1
                  /\ dialog[v] = d
    <3>1. Ask(v) \in AsksOf(d) <=> dialog[v] = d
      BY AskSorts
    <3>2. CASE dialog[v] = d
      <4>1. Cardinality(At(calls', AsksOf(d))) <= Cardinality(At(calls, AsksOf(d))) + 1
        BY <1>0, <2>4, CountAppend
      <4> QED
        BY <1>1, <2>1, <3>2, <4>1
    <3>3. CASE dialog[v] # d
      <4>1. At(calls', AsksOf(d)) = At(calls, AsksOf(d))
        BY <1>0, <2>4, <3>1, <3>3, CountAppend
      <4> QED
        BY <1>1, <2>1, <4>1
    <3> QED
      BY <3>2, <3>3
  <2>5. ASSUME NEW i, TimeOut(i)
        PROVE  At(calls', AsksOf(d)) = At(calls, AsksOf(d))
    BY <2>5, TimedOut DEF At
  <2> QED
    BY <1>1, <1>3, <2>1, <2>2, <2>3, <2>4, <2>5, CallsMove
<1> QED
  BY <1>2, <1>3

LEMMA DoneGrows ==
  ASSUME TypeOK, [Next]_vars, NEW d
  PROVE  Done(d) \subseteq Done(d)'
<1> SUFFICES ASSUME NEW o \in Op, asker[o] = d, answer[o] = "ok", None(inbox, Completions(o))
             PROVE  asker'[o] = d /\ answer'[o] = "ok" /\ None(inbox', Completions(o))
  BY DEF Done, OpsOf
<1>1. asker'[o] = d /\ answer'[o] = "ok"
  BY OpsMove
<1>2. CASE Keeps(inbox, inbox', Endings)
  <2>1. Completions(o) \in SUBSET Endings
    BY EndingSorts
  <2> QED
    BY <1>1, <1>2, <2>1 DEF Keeps
<1>3. ASSUME NEW r \in {"ok", "failed"}, Answer(r)
      PROVE  None(inbox', Completions(o))
  <2>1. owner \in Op /\ owner # o
    BY <1>3 DEF Answer, SlotAnswer, TypeOK, DaemonTypes
  <2>2. \E h : h \notin Completions(o) /\ inbox' = Append(inbox, h)
    <3>1. CASE r = "ok"
      BY <1>3, <2>1, <3>1, CompletionSorts DEF Answer, Tell
    <3>2. CASE r = "failed"
      BY <1>3, <2>1, <3>2, CompletionSorts DEF Answer, Tell
    <3> QED
      BY <3>1, <3>2
  <2> QED
    BY <2>2, Heard
<1> QED
  BY <1>1, <1>2, <1>3, InboxMoves

(* A completion of a success is one more that is done.                      *)
LEMMA DoneMore ==
  ASSUME TypeOK, Told, OnComplete, Head(inbox).ok = TRUE, NEW d, asker[Head(inbox).o] = d
  PROVE  Cardinality(Done(d)') >= Cardinality(Done(d)) + 1
<1>1. PICK h \in Message :
        /\ h = Head(inbox) /\ h.m = "complete"
        /\ \A A : None(inbox, A) <=> h \notin A /\ None(inbox', A)
        /\ \A A : Once(inbox, A) <=> Once(inbox', A) /\ (h \in A => None(inbox', A))
  BY Took DEF OnComplete
<1>2. PICK o \in Op : o = h.o /\ h = Complete(o, TRUE)
  BY <1>1, MessageKinds
<1>3. h \in Completions(o) /\ h \in Successes(o)
  <2>1. Complete(o, TRUE) \in Completions(o) /\ Complete(o, TRUE) \in Successes(o)
    BY CompletionSorts
  <2> QED
    BY <1>2, <2>1
<1>4. answer[o] = "ok" /\ None(inbox', Completions(o)) /\ ~None(inbox, Completions(o))
  BY <1>1, <1>3 DEF Told
<1>5. UNCHANGED <<asker, answer>>
  BY DEF OnComplete, slotVars
<1>6. o \notin Done(d) /\ o \in Done(d)'
  BY <1>1, <1>2, <1>4, <1>5 DEF Done, OpsOf
<1>7. Done(d) \cup {o} \in SUBSET Done(d)'
  <2>1. [Next]_vars
    BY DEF Next, Handle
  <2> QED
    BY <1>6, <2>1, DoneGrows
<1>8. IsFiniteSet(Done(d)') /\ Cardinality(Done(d)') \in Nat
  <2>1. Done(d)' \in SUBSET Op
    BY DEF Done, OpsOf
  <2> QED
    BY <2>1, ClientConstants, FS_Subset, FS_CardinalityType
<1>9. IsFiniteSet(Done(d)) /\ Cardinality(Done(d)) \in Nat
  BY Finite
<1>10. Cardinality(Done(d) \cup {o}) = Cardinality(Done(d)) + 1
  BY <1>6, <1>9, FS_AddElement
<1>11. Cardinality(Done(d) \cup {o}) <= Cardinality(Done(d)')
  BY <1>7, <1>8, FS_Subset
<1> QED
  BY <1>8, <1>9, <1>10, <1>11

(* What a step does to a view's dialog.                                     *)
LEMMA ViewMoves ==
  ASSUME TypeOK, DialogsNumbered, [Next]_vars, NEW v \in View
  PROVE  \/ stage'[v] = "none"
         \/ \E k \in 1 .. 2 : OpenDialog(v, k)
         \/ /\ stage[v] # "none" /\ dialog'[v] = dialog[v] /\ want'[v] = want[v]
            /\ dialog[v] \notin crossed' => dialog[v] \notin crossed
            /\ \/ left'[v] = left[v] /\ (stage'[v] = stage[v] \/ (stage[v] \in Running /\ stage'[v] = "error"))
               \/ OnComplete /\ left'[v] \in {left[v], left[v] - 1}
               \/ Confirm(v) /\ stage[v] = "preflight" /\ stage'[v] = "progress" /\ left'[v] = left[v] - 1
<1>0. /\ stage \in [View -> Running \cup {"none", "preflight"}] /\ dialog \in [View -> Nat]
      /\ left \in [View -> Int] /\ want \in [View -> Nat]
  BY DEF TypeOK, DialogTypes
<1>1. CASE stage[v] = "none" /\ stage'[v] # "none"
  <2>1. CASE DoStore
    BY <1>0, <1>1, <2>1 DEF DoStore, Refused, Running
  <2>2. CASE OnComplete
    BY <1>0, <1>1, <2>2, Completed DEF Hits, GoesOn, Running
  <2>3. ASSUME NEW w \in View, Confirm(w) PROVE FALSE
    BY <1>0, <1>1, <2>3 DEF Confirm
  <2>4. ASSUME NEW w \in View, Close(w) PROVE FALSE
    BY <1>0, <1>1, <2>4 DEF Close
  <2>5. ASSUME NEW w \in View, OpenInstall(w) \/ OpenRollback(w) \/ OpenFix(w)
        PROVE  \E k \in 1 .. 2 : OpenDialog(v, k)
    <3>1. PICK k \in 1 .. 2 : OpenDialog(w, k)
      BY <2>5 DEF OpenInstall, OpenRollback, OpenFix
    <3>2. w = v
      BY <1>0, <1>1, <3>1 DEF OpenDialog
    <3> QED
      BY <3>1, <3>2
  <2>6. CASE stage' = stage
    BY <1>1, <2>6
  <2>7. CASE Daemon \/ AcceptOther \/ Retry \/ RetryClicked
    <3>1. stage' = stage
      BY <2>7 DEF Daemon, Activate, Connect, Serve, Answer, Free, AcceptOther, Retry, RetryClicked, views
    <3> QED
      BY <2>6, <3>1
  <2>8. CASE OnProxyReady \/ OnOwner \/ OnState \/ OnStarted \/ Drop \/ DoUpdate \/ DoReset
    <3>1. stage' = stage
      BY <2>8 DEF OnProxyReady, OnOwner, OnState, OnStarted, Drop, DoUpdate, DoReset, views
    <3> QED
      BY <2>6, <3>1
  <2>9. CASE Stop \/ (\E s \in Mode : Change(s)) \/ (\E i \in 1 .. Len(calls) : TimeOut(i)) \/ UNCHANGED vars
    <3>1. stage' = stage
      BY <2>9 DEF Stop, Change, TimeOut, vars, views
    <3> QED
      BY <2>6, <3>1
  <2> QED
    BY <2>1, <2>2, <2>3, <2>4, <2>5, <2>7, <2>8, <2>9 DEF Next, Handle, Idle
<1>2. CASE stage[v] # "none" /\ stage'[v] # "none"
  <2>1. CASE DoStore
    <3>1. UNCHANGED <<dialog, want, left, crossed>>
      BY <2>1 DEF DoStore, notes
    <3>2. stage'[v] = stage[v] \/ (stage[v] \in Running /\ stage'[v] = "error")
      BY <1>0, <2>1 DEF DoStore, Refused
    <3> QED
      BY <1>2, <3>1, <3>2
  <2>2. CASE OnComplete
    <3>1. UNCHANGED <<dialog, want>>
      BY <2>2 DEF OnComplete
    <3>2. left'[v] \in {left[v], left[v] - 1} /\ (dialog[v] \notin crossed' => dialog[v] \notin crossed)
      BY <2>2, Completed
    <3> QED
      BY <1>2, <2>2, <3>1, <3>2
  <2>3. ASSUME NEW w \in View, Confirm(w)
        PROVE  /\ UNCHANGED <<dialog, want, crossed>>
               /\ IF w = v THEN stage[v] = "preflight" /\ stage'[v] = "progress" /\ left'[v] = left[v] - 1
                  ELSE stage'[v] = stage[v] /\ left'[v] = left[v]
    BY <1>0, <2>3 DEF Confirm, notes
  <2>4. ASSUME NEW w \in View, Close(w)
        PROVE  /\ dialog'[v] = dialog[v] /\ want'[v] = want[v] /\ stage'[v] = stage[v] /\ left'[v] = left[v]
               /\ dialog[v] \notin crossed' => dialog[v] \notin crossed
    <3>1. w # v
      BY <1>0, <1>2, <2>4 DEF Close
    <3>2. dialog[v] # dialog[w]
      BY <1>2, <3>1 DEF DialogsNumbered
    <3>3. crossed' = crossed \ {dialog[w]}
      BY <2>4 DEF Close
    <3>4. dialog'[v] = dialog[v] /\ want'[v] = want[v] /\ stage'[v] = stage[v] /\ left'[v] = left[v]
      BY <1>0, <2>4, <3>1 DEF Close
    <3> QED
      BY <3>2, <3>3, <3>4
  <2>5. ASSUME NEW w \in View, OpenInstall(w) \/ OpenRollback(w) \/ OpenFix(w)
        PROVE  /\ dialog'[v] = dialog[v] /\ want'[v] = want[v] /\ stage'[v] = stage[v] /\ left'[v] = left[v]
               /\ crossed' = crossed
    <3>1. PICK k \in 1 .. 2 : OpenDialog(w, k)
      BY <2>5 DEF OpenInstall, OpenRollback, OpenFix
    <3> QED
      BY <1>0, <1>2, <3>1 DEF OpenDialog
  <2>6. CASE UNCHANGED <<stage, dialog, left, want, crossed>>
    BY <1>2, <2>6
  <2>7. CASE Daemon \/ AcceptOther \/ Retry \/ RetryClicked
    <3>1. UNCHANGED <<stage, dialog, left, want, crossed>>
      BY <2>7 DEF Daemon, Activate, Connect, Serve, Answer, Free, AcceptOther, Retry, RetryClicked, views, notes
    <3> QED
      BY <2>6, <3>1
  <2>8. CASE OnProxyReady \/ OnOwner \/ OnState \/ OnStarted \/ Drop \/ DoUpdate \/ DoReset
    <3>1. UNCHANGED <<stage, dialog, left, want, crossed>>
      BY <2>8 DEF OnProxyReady, OnOwner, OnState, OnStarted, Drop, DoUpdate, DoReset, views, notes
    <3> QED
      BY <2>6, <3>1
  <2>9. CASE Stop \/ (\E s \in Mode : Change(s)) \/ (\E i \in 1 .. Len(calls) : TimeOut(i)) \/ UNCHANGED vars
    <3>1. UNCHANGED <<stage, dialog, left, want, crossed>>
      BY <2>9 DEF Stop, Change, TimeOut, vars, views, notes
    <3> QED
      BY <2>6, <3>1
  <2> QED
    BY <1>2, <2>1, <2>2, <2>3, <2>4, <2>5, <2>7, <2>8, <2>9 DEF Next, Handle, Idle
<1> QED
  BY <1>1, <1>2

LEMMA PaidStep ==
  ASSUME TypeOK, TypeOK', DialogsNumbered, AsksNumbered, [Next]_vars, NEW v \in View,
         stage[v] # "none" => Paid(v), stage'[v] # "none"
  PROVE  Paid(v)'
<1>0. /\ dialog \in [View -> Nat] /\ left \in [View -> Int] /\ want \in [View -> Nat] /\ work \in Nat
      /\ left'[v] \in Int /\ want'[v] \in Nat /\ stage \in [View -> Running \cup {"none", "preflight"}]
  BY DEF TypeOK, DialogTypes
<1>1. ASSUME NEW k \in 1 .. 2, OpenDialog(v, k) PROVE Paid(v)'
  <2>1. PICK d \in Nat : d = work + 1
    BY <1>0
  <2>2. dialog'[v] = d /\ want'[v] = k /\ left'[v] = k /\ calls' = calls /\ asker' = asker
    BY <1>0, <1>1, <2>1 DEF OpenDialog, Work, bus
  <2>3. At(calls', AsksOf(d)) = {}
    <3>1. None(calls, AsksOf(d))
      BY <1>0, <2>1 DEF AsksNumbered
    <3> QED
      BY <2>2, <3>1 DEF At, None
  <2>4. OpsOf(d)' = {}
    <3>1. \A o \in Op : asker[o] # d
      BY <1>0, <2>1 DEF AsksNumbered, TypeOK, DialogTypes
    <3> QED
      BY <2>2, <3>1 DEF OpsOf
  <2>5. Cardinality(At(calls', AsksOf(d))) = 0 /\ Cardinality(OpsOf(d)') = 0
    BY <2>3, <2>4, FS_EmptySet
  <2> QED
    BY <1>0, <2>2, <2>5 DEF Paid, OpsOf
<1>2. ASSUME stage[v] # "none", dialog'[v] = dialog[v], want'[v] = want[v], left'[v] \in {left[v], left[v] - 1}
      PROVE  Paid(v)'
  <2>1. PICK d \in Nat : d = dialog[v]
    BY <1>0
  <2>2. PICK a, b, n, m :
          /\ a = Cardinality(At(calls, AsksOf(d))) /\ b = Cardinality(OpsOf(d))
          /\ n = Cardinality(At(calls', AsksOf(d))) /\ m = Cardinality(OpsOf(d)')
    OBVIOUS
  <2>3. a \in Nat /\ b \in Nat /\ n \in Nat /\ m \in Nat
    <3>1. a \in Nat /\ b \in Nat
      BY <2>2, Finite
    <3>2. n \in Nat
      BY <2>2, CountAppend DEF TypeOK, QueueTypes
    <3>3. m \in Nat
      <4>1. OpsOf(d)' \in SUBSET Op
        BY DEF OpsOf
      <4> QED
        BY <2>2, <4>1, ClientConstants, FS_Subset, FS_CardinalityType
    <3> QED
      BY <3>1, <3>2, <3>3
  <2>4. a + b <= want[v] - left[v]
    BY <1>2, <2>1, <2>2 DEF Paid
  <2>5. n + m <= a + b \/ (n + m <= a + b + 1 /\ left'[v] = left[v] - 1)
    <3>1. CASE n + m <= a + b
      BY <3>1
    <3>2. ASSUME n + m <= a + b + 1, NEW u \in View, dialog[u] = d, Confirm(u) \/ left'[u] = left[u] - 1
          PROVE  left'[v] = left[v] - 1
      <4>1. u = v
        BY <1>2, <2>1, <3>2 DEF DialogsNumbered
      <4>2. CASE Confirm(v)
        BY <1>0, <4>2 DEF Confirm
      <4> QED
        BY <3>2, <4>1, <4>2
    <3> QED
      BY <2>2, <3>1, <3>2, Spending
  <2>6. n + m <= want'[v] - left'[v]
    BY <1>0, <1>2, <2>3, <2>4, <2>5
  <2> QED
    BY <1>2, <2>1, <2>2, <2>6 DEF Paid, OpsOf
<1> QED
  BY <1>1, <1>2, ViewMoves

LEMMA EarnedStep ==
  ASSUME TypeOK, TypeOK', DialogsNumbered, Told, [Next]_vars, NEW v \in View,
         stage[v] # "none" => Earned(v), stage'[v] # "none"
  PROVE  Earned(v)'
<1>0. /\ dialog \in [View -> Nat] /\ left \in [View -> Int] /\ want \in [View -> Nat]
      /\ stage \in [View -> Running \cup {"none", "preflight"}]
  BY DEF TypeOK, DialogTypes
<1>1. ASSUME NEW k \in 1 .. 2, OpenDialog(v, k) PROVE Earned(v)'
  <2>1. stage'[v] = "preflight"
    BY <1>0, <1>1 DEF OpenDialog
  <2> QED
    BY <2>1 DEF Earned
<1>2. ASSUME stage[v] # "none", dialog'[v] = dialog[v], want'[v] = want[v], dialog[v] \notin crossed',
             dialog[v] \notin crossed,
             \/ left'[v] = left[v] /\ (stage'[v] = stage[v] \/ (stage[v] \in Running /\ stage'[v] = "error"))
             \/ OnComplete /\ left'[v] \in {left[v], left[v] - 1}
             \/ Confirm(v) /\ stage[v] = "preflight" /\ stage'[v] = "progress" /\ left'[v] = left[v] - 1
      PROVE  Earned(v)'
  <2>1. PICK d \in Nat : d = dialog[v]
    BY <1>0
  <2>2. PICK n, m : n = Cardinality(Done(d)) /\ m = Cardinality(Done(d)')
    OBVIOUS
  <2>3. n \in Nat /\ m \in Nat /\ m >= n
    <3>1. IsFiniteSet(Done(d)')
      <4>1. Done(d)' \in SUBSET Op
        BY DEF Done, OpsOf
      <4> QED
        BY <4>1, ClientConstants, FS_Subset
    <3>2. Done(d) \in SUBSET Done(d)'
      BY DoneGrows
    <3>3. n \in Nat
      BY <2>2, Finite
    <3> QED
      BY <2>2, <3>1, <3>2, <3>3, FS_Subset, FS_CardinalityType
  <2>4. /\ stage[v] \in {"progress", "error"} => n >= want[v] - left[v] - 1
        /\ stage[v] = "success" => left[v] = 0 /\ n >= want[v]
        /\ 0 <= left[v] /\ (stage[v] = "preflight" => left[v] = want[v])
    BY <1>2, <2>1, <2>2 DEF Earned, DialogsNumbered
  <2>5. /\ stage'[v] \in {"progress", "error"} => m >= want[v] - left'[v] - 1
        /\ stage'[v] = "success" => left'[v] = 0 /\ m >= want[v]
    <3>1. CASE left'[v] = left[v] /\ (stage'[v] = stage[v] \/ (stage[v] \in Running /\ stage'[v] = "error"))
      BY <1>0, <2>3, <2>4, <3>1 DEF Running
    <3>2. CASE Confirm(v) /\ stage[v] = "preflight" /\ stage'[v] = "progress" /\ left'[v] = left[v] - 1
      BY <1>0, <2>3, <2>4, <3>2
    <3>3. CASE OnComplete
      <4>1. PICK h \in Message :
              /\ h = Head(inbox) /\ h.ok \in BOOLEAN
              /\ IF GoesOn(v, h) THEN stage'[v] = "progress" /\ left'[v] = left[v] - 1
                 ELSE left'[v] = left[v]
              /\ Hits(v, h.o) /\ ~GoesOn(v, h) => stage'[v] = IF h.ok = TRUE THEN "success" ELSE "error"
              /\ ~Hits(v, h.o) => stage'[v] = stage[v]
              /\ Hits(v, h.o) /\ asker[h.o] # dialog[v] => dialog[v] \in crossed'
        BY <3>3, Completed
      <4>2. Hits(v, h.o) /\ h.ok = TRUE => m >= n + 1
        BY <1>2, <2>1, <2>2, <3>3, <4>1, DoneMore
      <4>3. CASE ~Hits(v, h.o)
        BY <1>0, <2>3, <2>4, <4>1, <4>3 DEF GoesOn
      <4>4. CASE Hits(v, h.o) /\ h.ok = FALSE
        BY <1>0, <2>3, <2>4, <4>1, <4>4 DEF GoesOn, Hits, Running
      <4>5. CASE Hits(v, h.o) /\ h.ok = TRUE
        <5>1. stage[v] \in Running /\ (GoesOn(v, h) <=> left[v] > 0)
          BY <4>5 DEF Hits, GoesOn
        <5> QED
          BY <1>0, <2>3, <2>4, <4>1, <4>2, <4>5, <5>1 DEF Running
      <4> QED
        BY <4>1, <4>3, <4>4, <4>5
    <3> QED
      BY <1>2, <3>1, <3>2, <3>3
  <2> QED
    BY <1>2, <2>1, <2>2, <2>5 DEF Earned, Done, OpsOf
<1>3. CASE dialog'[v] = dialog[v] /\ dialog[v] \in crossed'
  BY <1>3 DEF Earned
<1> QED
  BY <1>1, <1>2, <1>3, ViewMoves

LEMMA CountedInit == Init => Told /\ Counted
BY DEF Init, Told, Counted, Once, None

LEMMA CountedStep ==
  TypeOK /\ TypeOK' /\ DialogsNumbered /\ AsksNumbered /\ Told /\ Counted /\ [Next]_vars => Counted'
BY PaidStep, EarnedStep DEF Counted

(* Strays are some of the view's own.                                       *)
LEMMA Strays ==
  ASSUME NEW v \in View
  PROVE  /\ StrayAsks(v) \in SUBSET Asks(v) /\ StrayReplies(v) \in SUBSET Replies(v)
         /\ StrayStores(v) \in SUBSET Stores(v)
         /\ StrayAsks(v)' \in SUBSET Asks(v) /\ StrayReplies(v)' \in SUBSET Replies(v)
         /\ StrayStores(v)' \in SUBSET Stores(v)
         /\ NoOp \notin Foreign(v) /\ NoOp \notin Foreign(v)'
         /\ dialog'[v] = dialog[v] => StrayAsks(v)' = StrayAsks(v)
         /\ Foreign(v)' \subseteq Foreign(v) =>
              StrayReplies(v)' \in SUBSET StrayReplies(v) /\ StrayStores(v)' \in SUBSET StrayStores(v)
BY ClientConstants DEF StrayAsks, StrayReplies, StrayStores, Foreign, Asks, Replies, Stores

LEMMA NoneOf ==
  ASSUME NEW q, NEW A, NEW B \in SUBSET A, None(q, A)
  PROVE  None(q, B)
BY DEF None

LEMMA ReplySorts ==
  ASSUME NEW v \in View
  PROVE  /\ \A h \in Message : h.m # "started" => h \notin Replies(v)
         /\ \A w \in View, o \in Op \cup {NoOp} :
              /\ Started(w, o) \in Replies(v) <=> w = v
              /\ Started(v, o) \in StrayReplies(v) <=> o \in Foreign(v)
              /\ Started(v, o) \in StrayReplies(v)' <=> o \in Foreign(v)'
         /\ \A c : c.c \in {"update", "reset"} => c \notin Stores(v)
         /\ \A w \in View, o \in Op \cup {NoOp} :
              /\ Store(w, o) \in Stores(v) <=> w = v
              /\ Store(v, o) \in StrayStores(v) <=> o \in Foreign(v)
              /\ Store(v, o) \in StrayStores(v)' <=> o \in Foreign(v)'
<1>1. \A w, o : Store(w, o).c = "store" /\ Store(w, o).v = w /\ Store(w, o).o = o
  BY DEF Store
<1>2. /\ \A h \in Message : h.m # "started" => h \notin Replies(v)
      /\ \A w \in View, o \in Op \cup {NoOp} :
           /\ Started(w, o) \in Replies(v) <=> w = v
           /\ Started(v, o) \in StrayReplies(v) <=> o \in Foreign(v)
           /\ Started(v, o) \in StrayReplies(v)' <=> o \in Foreign(v)'
  BY Sorts DEF Replies, StrayReplies
<1>3. /\ \A c : c.c \in {"update", "reset"} => c \notin Stores(v)
      /\ \A w \in View, o \in Op \cup {NoOp} :
           /\ Store(w, o) \in Stores(v) <=> w = v
           /\ Store(v, o) \in StrayStores(v) <=> o \in Foreign(v)
           /\ Store(v, o) \in StrayStores(v)' <=> o \in Foreign(v)'
  BY <1>1 DEF Stores, StrayStores
<1> QED
  BY <1>2, <1>3

(* What became an operation stays its dialog's.                             *)
LEMMA ForeignKept ==
  ASSUME TypeOK, DialogsNumbered, AsksNumbered, [Next]_vars, NEW v \in View,
         stage[v] # "none", dialog'[v] = dialog[v]
  PROVE  Foreign(v)' \subseteq Foreign(v)
<1> SUFFICES ASSUME NEW o \in Op, asker'[o] # dialog[v] PROVE asker[o] # dialog[v]
  BY DEF Foreign
<1>1. dialog[v] # 0
  BY DEF DialogsNumbered
<1> QED
  BY <1>1, OpsMove DEF AsksNumbered

(* Nothing but its asking brings a view's ask.                              *)
LEMMA CallsKept ==
  ASSUME TypeOK, NEW v \in View,
         \/ calls' = calls \/ calls' = <<>> \/ calls' = Append(calls, Fetch)
         \/ \E w \in View : w # v /\ calls' = Append(calls, Ask(w))
         \/ calls # <<>> /\ calls' = Tail(calls)
         \/ \E i : TimeOut(i)
  PROVE  Keeps(calls, calls', Asks(v))
<1>0. calls \in Seq(Calling)
  BY DEF TypeOK, QueueTypes
<1>1. CASE calls' = calls \/ calls' = <<>>
  BY <1>1 DEF Keeps, None, Once
<1>2. CASE calls' = Append(calls, Fetch)
  BY <1>0, <1>2, AskSorts, KeepsAppend
<1>3. ASSUME NEW w \in View, calls' = Append(calls, Ask(w)), w # v PROVE Keeps(calls, calls', Asks(v))
  BY <1>0, <1>3, AskSorts, KeepsAppend
<1>4. CASE calls # <<>> /\ calls' = Tail(calls)
  BY <1>0, <1>4, KeepsTail
<1>5. ASSUME NEW i, TimeOut(i) PROVE Keeps(calls, calls', Asks(v))
  <2> SUFFICES ASSUME NEW B \in SUBSET Asks(v)
               PROVE  (None(calls, B) => None(calls', B)) /\ (Once(calls, B) => Once(calls', B))
    BY DEF Keeps
  <2>1. /\ DOMAIN calls' = DOMAIN calls /\ calls'[i] \notin B
        /\ \A j \in DOMAIN calls : j # i => calls'[j] = calls[j]
    BY <1>5, TimedOut
  <2> QED
    BY <2>1 DEF None, Once
<1> QED
  BY <1>1, <1>2, <1>3, <1>4, <1>5

(* A view that none of its own moves for.                                   *)
LEMMA TokenFrame ==
  ASSUME TypeOK, DialogsNumbered, AsksNumbered, [Next]_vars, NEW v \in View, Single(v), Owns(v),
         Keeps(calls, calls', Asks(v)), Keeps(inbox, inbox', Replies(v)), Keeps(idleq, idleq', Stores(v)),
         current'[v] \in {current[v], NoOp},
         stage[v] = "progress" => stage'[v] = "progress" /\ dialog'[v] = dialog[v]
  PROVE  Single(v)' /\ Owns(v)'
<1>1. Single(v)'
  <2>1. /\ None(calls, Asks(v)) => None(calls', Asks(v))
        /\ None(inbox, Replies(v)) => None(inbox', Replies(v))
        /\ None(idleq, Stores(v)) => None(idleq', Stores(v))
        /\ Once(calls, Asks(v)) => Once(calls', Asks(v))
        /\ Once(inbox, Replies(v)) => Once(inbox', Replies(v))
        /\ Once(idleq, Stores(v)) => Once(idleq', Stores(v))
    BY DEF Keeps
  <2>2. Holding(v)' => Holding(v)
    BY DEF Holding
  <2>3. Asks(v)' = Asks(v) /\ Replies(v)' = Replies(v) /\ Stores(v)' = Stores(v)
    BY DEF Asks, Replies, Stores
  <2> QED
    BY <2>1, <2>2, <2>3 DEF Single, Asking, Replied, Storing
<1>2. Owns(v)'
  <2>1. CASE stage[v] = "progress"
    <3>1. Foreign(v)' \subseteq Foreign(v)
      BY <2>1, ForeignKept
    <3>2. /\ StrayAsks(v)' = StrayAsks(v)
          /\ StrayReplies(v)' \in SUBSET StrayReplies(v) /\ StrayStores(v)' \in SUBSET StrayStores(v)
      BY <2>1, <3>1, Strays
    <3>3. None(calls', StrayAsks(v)) /\ None(inbox', StrayReplies(v)) /\ None(idleq', StrayStores(v))
      BY Strays DEF Owns, Keeps
    <3>4. None(calls', StrayAsks(v)') /\ None(inbox', StrayReplies(v)') /\ None(idleq', StrayStores(v)')
      BY <3>2, <3>3, NoneOf
    <3>5. current'[v] \notin Foreign(v)'
      BY <3>1, Strays DEF Owns
    <3> QED
      BY <3>4, <3>5 DEF Owns
  <2>2. CASE stage[v] # "progress"
    <3>1. None(calls', Asks(v)) /\ None(inbox', Replies(v)) /\ None(idleq', Stores(v)) /\ current'[v] = NoOp
      BY <2>2 DEF Single, Asking, Replied, Storing, Holding, Keeps
    <3>2. None(calls', StrayAsks(v)') /\ None(inbox', StrayReplies(v)') /\ None(idleq', StrayStores(v)')
      BY <3>1, Strays, NoneOf
    <3> QED
      BY <3>1, <3>2, Strays DEF Owns
  <2> QED
    BY <2>1, <2>2
<1> QED
  BY <1>1, <1>2

(* The view's own at each place: in a call, in a reply, in a callback, as    *)
(* the current one, or nowhere.                                              *)
LEMMA TokenAsks ==
  ASSUME TypeOK, NEW v \in View, None(calls, Asks(v)), None(inbox', Replies(v)), None(idleq', Stores(v)),
         current'[v] = NoOp, calls' = Append(calls, Ask(v)), stage'[v] = "progress", dialog'[v] = dialog[v]
  PROVE  Single(v)' /\ Owns(v)'
<1>1. Asks(v)' = Asks(v) /\ Replies(v)' = Replies(v) /\ Stores(v)' = Stores(v)
  BY DEF Asks, Replies, Stores
<1>2. Once(calls', Asks(v)) /\ Once(inbox', Replies(v)) /\ Once(idleq', Stores(v))
  <2>1. Once(calls, Asks(v)) /\ Once(inbox', Replies(v)) /\ Once(idleq', Stores(v))
    BY DEF None, Once
  <2> QED
    BY <2>1, Asked
<1>3. Single(v)'
  BY <1>1, <1>2 DEF Single, Asking, Replied, Storing, Holding
<1>4. None(calls', StrayAsks(v)')
  <2>1. Ask(v) \notin StrayAsks(v)
    BY AskSorts DEF StrayAsks
  <2>2. None(calls, StrayAsks(v)) /\ StrayAsks(v)' = StrayAsks(v)
    BY Strays, NoneOf
  <2> QED
    BY <2>1, <2>2, Asked
<1>5. None(inbox', StrayReplies(v)') /\ None(idleq', StrayStores(v)') /\ current'[v] \notin Foreign(v)'
  BY Strays, NoneOf
<1> QED
  BY <1>3, <1>4, <1>5 DEF Owns

LEMMA TokenReplies ==
  ASSUME TypeOK, NEW v \in View, None(calls', Asks(v)), None(inbox, Replies(v)), None(idleq', Stores(v)),
         current'[v] = NoOp, stage'[v] = "progress",
         NEW o \in Op \cup {NoOp}, o \notin Foreign(v)', inbox' = Append(inbox, Started(v, o))
  PROVE  Single(v)' /\ Owns(v)'
<1>1. Asks(v)' = Asks(v) /\ Replies(v)' = Replies(v) /\ Stores(v)' = Stores(v)
  BY DEF Asks, Replies, Stores
<1>2. Once(calls', Asks(v)) /\ Once(inbox', Replies(v)) /\ Once(idleq', Stores(v))
  <2>1. Once(calls', Asks(v)) /\ Once(inbox, Replies(v)) /\ Once(idleq', Stores(v))
    BY DEF None, Once
  <2> QED
    BY <2>1, Heard
<1>3. Single(v)'
  BY <1>1, <1>2 DEF Single, Asking, Replied, Storing, Holding
<1>4. None(inbox', StrayReplies(v)')
  <2>1. Started(v, o) \notin StrayReplies(v)'
    BY ReplySorts
  <2>2. None(inbox, StrayReplies(v)')
    BY Strays, NoneOf
  <2> QED
    BY <2>1, <2>2, Heard
<1>5. None(calls', StrayAsks(v)') /\ None(idleq', StrayStores(v)') /\ current'[v] \notin Foreign(v)'
  BY Strays, NoneOf
<1> QED
  BY <1>3, <1>4, <1>5 DEF Owns

LEMMA TokenStores ==
  ASSUME TypeOK, NEW v \in View, None(calls', Asks(v)), None(inbox', Replies(v)), None(idleq, Stores(v)),
         current'[v] = NoOp, stage'[v] = "progress",
         NEW o \in Op \cup {NoOp}, o \notin Foreign(v)', idleq' = Append(idleq, Store(v, o))
  PROVE  Single(v)' /\ Owns(v)'
<1>1. Asks(v)' = Asks(v) /\ Replies(v)' = Replies(v) /\ Stores(v)' = Stores(v)
  BY DEF Asks, Replies, Stores
<1>2. Once(calls', Asks(v)) /\ Once(inbox', Replies(v)) /\ Once(idleq', Stores(v))
  <2>1. Once(calls', Asks(v)) /\ Once(inbox', Replies(v)) /\ Once(idleq, Stores(v))
    BY DEF None, Once
  <2> QED
    BY <2>1, PutOff
<1>3. Single(v)'
  BY <1>1, <1>2 DEF Single, Asking, Replied, Storing, Holding
<1>4. None(idleq', StrayStores(v)')
  <2>1. Store(v, o) \notin StrayStores(v)'
    BY ReplySorts
  <2>2. None(idleq, StrayStores(v)')
    BY Strays, NoneOf
  <2> QED
    BY <2>1, <2>2, PutOff
<1>5. None(calls', StrayAsks(v)') /\ None(inbox', StrayReplies(v)') /\ current'[v] \notin Foreign(v)'
  BY Strays, NoneOf
<1> QED
  BY <1>3, <1>4, <1>5 DEF Owns

LEMMA TokenHolds ==
  ASSUME NEW v \in View, None(calls', Asks(v)), None(inbox', Replies(v)), None(idleq', Stores(v)),
         current'[v] = NoOp \/ (stage'[v] = "progress" /\ current'[v] \notin Foreign(v)')
  PROVE  Single(v)' /\ Owns(v)'
<1>1. Asks(v)' = Asks(v) /\ Replies(v)' = Replies(v) /\ Stores(v)' = Stores(v)
  BY DEF Asks, Replies, Stores
<1>2. Once(calls', Asks(v)) /\ Once(inbox', Replies(v)) /\ Once(idleq', Stores(v))
  BY DEF None, Once
<1>3. Single(v)'
  BY <1>1, <1>2 DEF Single, Asking, Replied, Storing, Holding
<1>4. /\ None(calls', StrayAsks(v)') /\ None(inbox', StrayReplies(v)') /\ None(idleq', StrayStores(v)')
      /\ current'[v] \notin Foreign(v)'
  BY Strays, NoneOf
<1> QED
  BY <1>3, <1>4 DEF Owns

(* What is queued for the GUI and has nothing to do with a view.            *)
LEMMA InboxKept ==
  ASSUME TypeOK, NEW v \in View,
         \/ inbox' = inbox
         \/ \E m : Take(m)
         \/ \E h : h \notin Replies(v) /\ inbox' = Append(inbox, h)
         \/ inbox' = inbox \o <<Owner(TRUE), Proxy("up")>>
  PROVE  Keeps(inbox, inbox', Replies(v))
<1>1. inbox \in Seq(Message)
  BY DEF TypeOK, QueueTypes
<1>2. CASE inbox' = inbox
  BY <1>2 DEF Keeps
<1>3. ASSUME NEW m, Take(m) PROVE Keeps(inbox, inbox', Replies(v))
  BY <1>1, <1>3, KeepsTail DEF Take
<1>4. ASSUME NEW h, h \notin Replies(v), inbox' = Append(inbox, h) PROVE Keeps(inbox, inbox', Replies(v))
  BY <1>1, <1>4, KeepsAppend
<1>5. CASE inbox' = inbox \o <<Owner(TRUE), Proxy("up")>>
  <2>1. Comes \in Message /\ Proxy("up") \in Message /\ inbox' = inbox \o <<Comes, Proxy("up")>>
    BY <1>5, MessageTypes DEF Comes
  <2>2. inbox' = Append(Append(inbox, Comes), Proxy("up")) /\ Append(inbox, Comes) \in Seq(Message)
    BY <1>1, <2>1, Pairing, Typing
  <2>3. Comes \notin Replies(v) /\ Proxy("up") \notin Replies(v)
    BY <2>1, Sorts, ReplySorts
  <2>4. Keeps(inbox, Append(inbox, Comes), Replies(v)) /\ Keeps(Append(inbox, Comes), inbox', Replies(v))
    BY <1>1, <2>2, <2>3, KeepsAppend
  <2> QED
    BY <2>4, KeepsTwice
<1> QED
  BY <1>2, <1>3, <1>4, <1>5

LEMMA IdleKept ==
  ASSUME TypeOK, NEW v \in View,
         \/ idleq' = idleq
         \/ \E k : Run(k)
         \/ \E c : c \notin Stores(v) /\ idleq' = Append(idleq, c)
  PROVE  Keeps(idleq, idleq', Stores(v))
<1>1. idleq \in Seq(Callback)
  BY DEF TypeOK, QueueTypes
<1>2. CASE idleq' = idleq
  BY <1>2 DEF Keeps
<1>3. ASSUME NEW k, Run(k) PROVE Keeps(idleq, idleq', Stores(v))
  BY <1>1, <1>3, KeepsTail DEF Run
<1>4. ASSUME NEW c, c \notin Stores(v), idleq' = Append(idleq, c) PROVE Keeps(idleq, idleq', Stores(v))
  BY <1>1, <1>4, KeepsAppend
<1> QED
  BY <1>2, <1>3, <1>4

LEMMA FailureOfAsk ==
  ASSUME NEW c \in Calling, NEW v \in View
  PROVE  IF c \in Asks(v) THEN Reply(c, Failure(c)) = Started(v, NoOp) ELSE Reply(c, Failure(c)) \notin Replies(v)
<1>1. c \in Asks(v) <=> c.c = "ask" /\ c.v = v /\ ~c.late
  BY AskSorts
<1>2. Failure(c) \in Message /\ Late \in Message
  BY CallKinds, MessageTypes
<1>3. CASE c.late
  <2>1. Reply(c, Failure(c)) \notin Replies(v)
    BY <1>2, <1>3, Sorts, ReplySorts DEF Reply
  <2> QED
    BY <1>1, <1>3, <2>1
<1>4. CASE ~c.late /\ c.c = "fetch"
  <2>1. Failure(c).m = "fetched"
    BY <1>4, Sorts DEF Failure
  <2>2. Reply(c, Failure(c)) \notin Replies(v)
    BY <1>2, <1>4, <2>1, ReplySorts DEF Reply
  <2> QED
    BY <1>1, <1>4, <2>2
<1>5. CASE ~c.late /\ c.c = "ask"
  <2>1. Reply(c, Failure(c)) = Started(c.v, NoOp) /\ c.v \in View
    BY <1>5, CallKinds DEF Reply, Failure
  <2> QED
    BY <1>1, <1>5, <2>1, ReplySorts
<1> QED
  BY <1>3, <1>4, <1>5, CallKinds

(* A view's call on its way is its only one.                                *)
LEMMA TokenInCall ==
  ASSUME NEW v \in View, Single(v), Owns(v), ~None(calls, Asks(v))
  PROVE  /\ None(inbox, Replies(v)) /\ None(idleq, Stores(v)) /\ current[v] = NoOp /\ stage[v] = "progress"
         /\ \A c : ~None(calls, {c}) /\ c \in Asks(v) => c.d = dialog[v]
<1>1. \A c : ~None(calls, {c}) /\ c \in Asks(v) => c.d = dialog[v]
  BY DEF Owns, StrayAsks, None
<1> QED
  BY <1>1 DEF Single, Asking, Replied, Storing, Holding

LEMMA TokenServe ==
  ASSUME TypeOK, DialogsNumbered, AsksNumbered, NEW v \in View, Single(v), Owns(v), Serve
  PROVE  Single(v)' /\ Owns(v)'
<1>0. /\ [Next]_vars /\ UNCHANGED <<idleq, stage, dialog, current>> /\ calls # <<>> /\ calls' = Tail(calls)
      /\ asker \in [Op -> Nat]
  BY DEF Serve, Next, Daemon, views, TypeOK, DialogTypes
<1>1. PICK c \in Calling :
        /\ c = Head(calls)
        /\ \A A : None(calls, A) <=> c \notin A /\ None(calls', A)
        /\ \A A : Once(calls, A) <=> Once(calls', A) /\ (c \in A => None(calls', A))
  BY <1>0, Served
<1>2. c \in Asks(v) <=> c.c = "ask" /\ c.v = v /\ ~c.late
  BY AskSorts
<1>3. CASE c \in Asks(v)
  <2>1. /\ None(inbox, Replies(v)) /\ None(idleq, Stores(v)) /\ current[v] = NoOp /\ stage[v] = "progress"
        /\ c.d = dialog[v]
    <3>1. ~None(calls, Asks(v)) /\ ~None(calls, {c})
      BY <1>1, <1>3
    <3> QED
      BY <1>3, <3>1, TokenInCall
  <2>2. None(calls', Asks(v))
    BY <1>1, <1>3 DEF Single
  <2>3. PICK o \in Op \cup {NoOp} : inbox' = Append(inbox, Started(v, o)) /\ (o # NoOp => asker'[o] = c.d)
    <3>1. CASE Fresh # NoOp /\ Tell(Reply(c, Started(c.v, Fresh))) /\ asker' = [asker EXCEPT ![Fresh] = c.d]
      BY <1>0, <1>2, <1>3, <3>1, FreshType DEF Tell, Reply
    <3>2. CASE Tell(Reply(c, Failure(c)))
      BY <1>3, <3>2, FailureOfAsk DEF Tell
    <3> QED
      BY <1>1, <1>2, <1>3, <3>1, <3>2 DEF Serve
  <2>4. o \notin Foreign(v)'
    BY <1>0, <2>1, <2>3, Strays DEF Foreign
  <2> QED
    BY <1>0, <2>1, <2>2, <2>3, <2>4, TokenReplies
<1>4. CASE c \notin Asks(v)
  <2>1. \E h : h \notin Replies(v) /\ inbox' = Append(inbox, h)
    <3>1. CASE c.c = "fetch" /\ Tell(Reply(c, State("fetched", mode)))
      <4>1. State("fetched", mode) \in Message /\ Late \in Message
        BY MessageTypes DEF TypeOK, DaemonTypes
      <4>2. Reply(c, State("fetched", mode)) \notin Replies(v)
        BY <4>1, Sorts, ReplySorts DEF Reply
      <4> QED
        BY <3>1, <4>2 DEF Tell
    <3>2. CASE c.c = "ask" /\ Fresh # NoOp /\ Tell(Reply(c, Started(c.v, Fresh)))
      <4>1. CASE c.late
        BY <3>2, <4>1, Sorts, MessageTypes, ReplySorts DEF Tell, Reply
      <4>2. CASE ~c.late
        <5>1. c.v \in View /\ c.v # v
          BY <1>2, <1>4, <3>2, <4>2, CallKinds
        <5> QED
          BY <3>2, <4>2, <5>1, FreshType, ReplySorts DEF Tell, Reply
      <4> QED
        BY <4>1, <4>2
    <3>3. CASE Tell(Reply(c, Failure(c)))
      BY <1>4, <3>3, FailureOfAsk DEF Tell
    <3> QED
      BY <1>1, <3>1, <3>2, <3>3 DEF Serve
  <2> QED
    BY <1>0, <2>1, CallsKept, InboxKept, IdleKept, TokenFrame
<1> QED
  BY <1>3, <1>4

LEMMA TokenTimeOut ==
  ASSUME TypeOK, DialogsNumbered, AsksNumbered, [Next]_vars, NEW v \in View, Single(v), Owns(v), NEW i, TimeOut(i)
  PROVE  Single(v)' /\ Owns(v)'
<1>0. UNCHANGED <<idleq, stage, dialog, current, asker>> /\ inbox' = Append(inbox, Failure(calls[i]))
  BY DEF TimeOut, Tell, views, notes
<1>1. /\ i \in DOMAIN calls /\ calls[i] \in Calling /\ DOMAIN calls' = DOMAIN calls
      /\ calls'[i] \notin Asks(v)
      /\ \A j \in DOMAIN calls : j # i => calls'[j] = calls[j]
  BY TimedOut
<1>2. Failure(calls[i]) = Reply(calls[i], Failure(calls[i]))
  BY DEF TimeOut, Reply
<1>3. CASE calls[i] \in Asks(v)
  <2>1. None(inbox, Replies(v)) /\ None(idleq, Stores(v)) /\ current[v] = NoOp /\ stage[v] = "progress"
    <3>1. ~None(calls, Asks(v))
      BY <1>1, <1>3 DEF None
    <3> QED
      BY <3>1, TokenInCall
  <2>2. None(calls', Asks(v))
    BY <1>1, <1>3 DEF Single, Once, None
  <2>3. inbox' = Append(inbox, Started(v, NoOp))
    BY <1>0, <1>1, <1>2, <1>3, FailureOfAsk
  <2> QED
    BY <1>0, <2>1, <2>2, <2>3, TokenReplies, Strays
<1>4. CASE calls[i] \notin Asks(v)
  <2>1. Failure(calls[i]) \notin Replies(v)
    BY <1>1, <1>2, <1>4, FailureOfAsk
  <2> QED
    BY <1>0, <2>1, CallsKept, InboxKept, IdleKept, TokenFrame
<1> QED
  BY <1>3, <1>4

LEMMA TokenStop ==
  ASSUME TypeOK, DialogsNumbered, AsksNumbered, NEW v \in View, Single(v), Owns(v), Stop
  PROVE  Single(v)' /\ Owns(v)'
<1>0. [Next]_vars /\ UNCHANGED <<idleq, stage, dialog, current, asker>> /\ inbox \in Seq(Message)
  BY DEF Stop, Next, views, notes, TypeOK, QueueTypes
<1>1. PICK r \in Seq(Message) :
        /\ inbox' = Append(inbox, Goes) \o r /\ Append(inbox, Goes) \in Seq(Message)
        /\ DOMAIN r = DOMAIN calls
        /\ \A i \in DOMAIN r : calls[i] \in Calling /\ r[i] = Reply(calls[i], Failure(calls[i]))
        /\ calls' = <<>>
  BY Stopped
<1>2. \A i \in DOMAIN r : IF calls[i] \in Asks(v) THEN r[i] = Started(v, NoOp) ELSE r[i] \notin Replies(v)
  BY <1>1, FailureOfAsk
<1>3. Goes \notin Replies(v)
  BY MessageTypes, Sorts, ReplySorts DEF Goes
<1>4. CASE None(calls, Asks(v))
  <2>1. None(r, Replies(v))
    BY <1>1, <1>2, <1>4 DEF None
  <2>2. Keeps(inbox, Append(inbox, Goes), Replies(v)) /\ Keeps(Append(inbox, Goes), inbox', Replies(v))
    BY <1>0, <1>1, <1>3, <2>1, KeepsAppend, KeepsJoin
  <2> QED
    BY <1>0, <1>1, <2>2, KeepsTwice, CallsKept, IdleKept, TokenFrame
<1>5. CASE ~None(calls, Asks(v))
  <2>1. None(inbox, Replies(v)) /\ None(idleq, Stores(v)) /\ current[v] = NoOp /\ stage[v] = "progress"
    BY <1>5, TokenInCall
  <2>2. None(Append(inbox, Goes), Replies(v))
    BY <1>0, <1>3, <2>1, Adding
  <2>3. Once(r, Replies(v)) /\ None(r, StrayReplies(v)')
    <3>1. Once(r, Replies(v))
      BY <1>1, <1>2 DEF Once, Single
    <3>2. \A i \in DOMAIN r : r[i] \in Replies(v) => r[i] = Started(v, NoOp)
      BY <1>2
    <3>3. Started(v, NoOp) \notin StrayReplies(v)'
      BY ReplySorts, Strays
    <3>4. None(r, StrayReplies(v)')
      BY <3>2, <3>3, Strays DEF None
    <3> QED
      BY <3>1, <3>4
  <2>4. Once(inbox', Replies(v)) /\ None(inbox', StrayReplies(v)')
    <3>1. Once(Append(inbox, Goes), Replies(v)) /\ None(Append(inbox, Goes), StrayReplies(v)')
      BY <2>2, Strays DEF Once, None
    <3> QED
      BY <1>1, <2>2, <2>3, <3>1, Joining
  <2>5. None(calls', Asks(v)) /\ Once(calls', Asks(v)) /\ Once(idleq', Stores(v))
    BY <1>0, <1>1, <2>1 DEF None, Once
  <2>6. Single(v)'
    <3>1. Asks(v)' = Asks(v) /\ Replies(v)' = Replies(v) /\ Stores(v)' = Stores(v)
      BY DEF Asks, Replies, Stores
    <3> QED
      BY <1>0, <2>1, <2>4, <2>5, <3>1 DEF Single, Asking, Replied, Storing, Holding
  <2>7. Owns(v)'
    <3>1. None(calls', StrayAsks(v)') /\ None(idleq', StrayStores(v)')
      BY <1>0, <2>1, <2>5, Strays, NoneOf
    <3> QED
      BY <1>0, <2>1, <2>4, <3>1, Strays DEF Owns
  <2> QED
    BY <2>6, <2>7
<1> QED
  BY <1>4, <1>5

LEMMA TokenOnStarted ==
  ASSUME TypeOK, DialogsNumbered, AsksNumbered, NEW v \in View, Single(v), Owns(v), OnStarted
  PROVE  Single(v)' /\ Owns(v)'
<1>0. [Next]_vars /\ UNCHANGED <<calls, stage, dialog, current, asker>> /\ Take("started")
  BY DEF OnStarted, Next, Handle, views, notes
<1>1. PICK h \in Message :
        /\ h = Head(inbox) /\ h.m = "started"
        /\ \A A : None(inbox, A) <=> h \notin A /\ None(inbox', A)
        /\ \A A : Once(inbox, A) <=> Once(inbox', A) /\ (h \in A => None(inbox', A))
  BY <1>0, Took
<1>2. PICK w \in View, o \in Op \cup {NoOp} : h = Started(w, o) /\ idleq' = Append(idleq, Store(w, o))
  BY <1>1, MessageKinds DEF OnStarted, Later
<1>3. CASE w = v
  <2>1. h \in Replies(v) /\ h \notin StrayReplies(v)
    BY <1>1, <1>2, <1>3, ReplySorts DEF Owns
  <2>2. o \notin Foreign(v)'
    <3>1. o \notin Foreign(v)
      BY <1>2, <1>3, <2>1, ReplySorts
    <3> QED
      BY <1>0, <3>1 DEF Foreign
  <2>3. /\ None(inbox', Replies(v)) /\ None(calls, Asks(v)) /\ None(idleq, Stores(v))
        /\ current[v] = NoOp /\ stage[v] = "progress"
    BY <1>1, <2>1 DEF Single, Asking, Replied, Storing, Holding
  <2> QED
    BY <1>0, <1>2, <1>3, <2>2, <2>3, TokenStores
<1>4. CASE w # v
  <2>1. Store(w, o) \notin Stores(v)
    BY <1>4, ReplySorts
  <2> QED
    BY <1>0, <1>2, <2>1, CallsKept, InboxKept, IdleKept, TokenFrame
<1> QED
  BY <1>3, <1>4

LEMMA TokenDoStore ==
  ASSUME TypeOK, DialogsNumbered, AsksNumbered, NEW v \in View, Single(v), Owns(v), DoStore
  PROVE  Single(v)' /\ Owns(v)'
<1>0. /\ [Next]_vars /\ UNCHANGED <<calls, inbox, dialog, asker>> /\ Run("store")
      /\ stage \in [View -> Running \cup {"none", "preflight"}] /\ current \in [View -> Op \cup {NoOp}]
  BY DEF DoStore, Next, Idle, bus, notes, TypeOK, DialogTypes
<1>1. PICK c \in Callback :
        /\ c = Head(idleq) /\ c.c = "store"
        /\ \A A : None(idleq, A) <=> c \notin A /\ None(idleq', A)
        /\ \A A : Once(idleq, A) <=> Once(idleq', A) /\ (c \in A => None(idleq', A))
  BY <1>0, Ran
<1>2. PICK w \in View, o \in Op \cup {NoOp} : c = Store(w, o) /\ w = c.v /\ o = c.o
  BY <1>1, CallbackKinds
<1>3. \/ o # NoOp /\ current' = [current EXCEPT ![w] = o] /\ UNCHANGED stage
      \/ o = NoOp /\ Refused(w) /\ UNCHANGED current
  BY <1>1, <1>2 DEF DoStore
<1>4. CASE w = v
  <2>1. c \in Stores(v) /\ c \notin StrayStores(v)
    <3>1. c \in Stores(v)
      BY <1>2, <1>4, ReplySorts
    <3>2. None(idleq, StrayStores(v))
      BY DEF Owns
    <3>3. c \notin StrayStores(v)
      BY <1>1, <3>2
    <3> QED
      BY <3>1, <3>3
  <2>2. o \notin Foreign(v)'
    <3>1. o \notin Foreign(v)
      BY <1>2, <1>4, <2>1, ReplySorts
    <3> QED
      BY <1>0, <3>1 DEF Foreign
  <2>3. /\ None(idleq', Stores(v)) /\ None(calls, Asks(v)) /\ None(inbox, Replies(v))
        /\ current[v] = NoOp /\ stage[v] = "progress"
    BY <1>1, <2>1 DEF Single, Asking, Replied, Storing, Holding
  <2>4. current'[v] = NoOp \/ (stage'[v] = "progress" /\ current'[v] \notin Foreign(v)')
    BY <1>0, <1>3, <1>4, <2>2, <2>3
  <2> QED
    BY <1>0, <2>3, <2>4, TokenHolds
<1>5. CASE w # v
  <2>1. current'[v] = current[v] /\ stage'[v] = stage[v]
    BY <1>0, <1>3, <1>5 DEF Refused
  <2> QED
    BY <1>0, <2>1, CallsKept, InboxKept, IdleKept, TokenFrame
<1> QED
  BY <1>4, <1>5

LEMMA TokenOnComplete ==
  ASSUME TypeOK, DialogsNumbered, AsksNumbered, NEW v \in View, Single(v), Owns(v), OnComplete
  PROVE  Single(v)' /\ Owns(v)'
<1>0. [Next]_vars /\ UNCHANGED <<idleq, dialog>> /\ Take("complete")
  BY DEF OnComplete, Next, Handle
<1>1. PICK h \in Message :
        /\ h.o \in Op
        /\ current'[v] = IF current[v] = h.o THEN NoOp ELSE current[v]
        /\ GoesOn(v, h) => stage'[v] = "progress"
        /\ ~Hits(v, h.o) => stage'[v] = stage[v]
        /\ calls' = calls \/ \E u \in View : GoesOn(u, h) /\ calls' = Append(calls, Ask(u))
  BY Completed
<1>2. Keeps(inbox, inbox', Replies(v)) /\ Keeps(idleq, idleq', Stores(v))
  BY <1>0, InboxKept, IdleKept
<1>3. CASE current[v] = h.o
  <2>1. current[v] # NoOp
    BY <1>1, <1>3, ClientConstants
  <2>2. None(calls, Asks(v)) /\ None(inbox, Replies(v)) /\ None(idleq, Stores(v))
    BY <2>1 DEF Single, Asking, Replied, Storing, Holding
  <2>3. None(inbox', Replies(v)) /\ None(idleq', Stores(v)) /\ current'[v] = NoOp
    BY <1>1, <1>2, <1>3, <2>2 DEF Keeps
  <2>4. CASE GoesOn(v, h) /\ calls' = Append(calls, Ask(v))
    BY <1>0, <1>1, <2>2, <2>3, <2>4, TokenAsks
  <2>5. CASE calls' = calls \/ \E u \in View : u # v /\ calls' = Append(calls, Ask(u))
    <3>1. None(calls', Asks(v))
      BY <2>2, <2>5, CallsKept DEF Keeps
    <3> QED
      BY <2>3, <3>1, TokenHolds
  <2> QED
    BY <1>1, <2>4, <2>5
<1>4. CASE current[v] # h.o
  <2>1. ~Hits(v, h.o) /\ ~GoesOn(v, h)
    BY <1>4 DEF Hits, GoesOn
  <2>2. Keeps(calls, calls', Asks(v))
    BY <1>1, <2>1, CallsKept
  <2> QED
    BY <1>0, <1>1, <1>2, <1>4, <2>1, <2>2, TokenFrame
<1> QED
  BY <1>3, <1>4

LEMMA TokenConfirm ==
  ASSUME TypeOK, DialogsNumbered, AsksNumbered, NEW v \in View, Single(v), Owns(v), NEW u \in View, Confirm(u)
  PROVE  Single(v)' /\ Owns(v)'
<1>0. /\ [Next]_vars /\ UNCHANGED <<inbox, idleq, dialog, current>> /\ calls' = Append(calls, Ask(u))
      /\ stage[u] = "preflight" /\ stage' = [stage EXCEPT ![u] = "progress"]
      /\ stage \in [View -> Running \cup {"none", "preflight"}]
  BY DEF Confirm, Send, Next, TypeOK, DialogTypes
<1>1. CASE u = v
  <2>1. None(calls, Asks(v)) /\ None(inbox, Replies(v)) /\ None(idleq, Stores(v)) /\ current[v] = NoOp
    BY <1>0, <1>1 DEF Single, Asking, Replied, Storing, Holding
  <2> QED
    BY <1>0, <1>1, <2>1, TokenAsks
<1>2. CASE u # v
  BY <1>0, <1>2, CallsKept, InboxKept, IdleKept, TokenFrame
<1> QED
  BY <1>1, <1>2

(* The other steps leave the views as they are, but for those of the user.  *)
LEMMA TokenOthers ==
  ASSUME TypeOK, DialogsNumbered, AsksNumbered, [Next]_vars, NEW v \in View, Single(v), Owns(v),
         UNCHANGED <<stage, dialog, current>>,
         calls' = calls \/ calls' = Append(calls, Fetch),
         \/ inbox' = inbox
         \/ \E m : Take(m)
         \/ \E h \in Message : h.m # "started" /\ inbox' = Append(inbox, h)
         \/ inbox' = inbox \o <<Owner(TRUE), Proxy("up")>>,
         \/ idleq' = idleq
         \/ \E k : Run(k)
         \/ \E c : c.c \in {"update", "reset"} /\ idleq' = Append(idleq, c)
  PROVE  Single(v)' /\ Owns(v)'
<1>1. Keeps(calls, calls', Asks(v))
  BY CallsKept
<1>2. Keeps(inbox, inbox', Replies(v))
  BY InboxKept, ReplySorts
<1>3. Keeps(idleq, idleq', Stores(v))
  BY IdleKept, ReplySorts
<1> QED
  BY <1>1, <1>2, <1>3, TokenFrame

LEMMA TokenUser ==
  ASSUME TypeOK, DialogsNumbered, AsksNumbered, [Next]_vars, NEW v \in View, Single(v), Owns(v), NEW u \in View,
         OpenInstall(u) \/ OpenRollback(u) \/ OpenFix(u) \/ (Close(u) /\ (u = v => stage[u] # "progress"))
  PROVE  Single(v)' /\ Owns(v)'
<1>0. stage \in [View -> Running \cup {"none", "preflight"}] /\ dialog \in [View -> Nat]
  BY DEF TypeOK, DialogTypes
<1>1. UNCHANGED <<calls, inbox, idleq, current>>
  BY DEF OpenInstall, OpenRollback, OpenFix, OpenDialog, Close, bus
<1>2. stage[v] = "progress" => stage'[v] = "progress" /\ dialog'[v] = dialog[v]
  <2>1. ASSUME NEW k, OpenDialog(u, k) PROVE stage[v] = "progress" => stage'[v] = "progress" /\ dialog'[v] = dialog[v]
    BY <1>0, <2>1 DEF OpenDialog
  <2>2. CASE Close(u) /\ (u = v => stage[u] # "progress")
    BY <1>0, <2>2 DEF Close
  <2> QED
    BY <2>1, <2>2 DEF OpenInstall, OpenRollback, OpenFix
<1> QED
  BY <1>1, <1>2, CallsKept, InboxKept, IdleKept, TokenFrame

LEMMA TokenQuiet ==
  ASSUME TypeOK, DialogsNumbered, AsksNumbered, NEW v \in View, Single(v), Owns(v),
         \/ Activate \/ Connect \/ Free \/ AcceptOther \/ Retry \/ RetryClicked \/ UNCHANGED vars
         \/ \E r \in {"ok", "failed"} : Answer(r)
         \/ \E s \in Mode : Change(s)
         \/ OnProxyReady \/ OnOwner \/ OnState \/ Drop \/ DoUpdate \/ DoReset
  PROVE  Single(v)' /\ Owns(v)'
<1>0. [Next]_vars
  BY DEF Next, Daemon, Handle, Idle
<1>1. CASE Free \/ AcceptOther \/ Retry \/ RetryClicked \/ UNCHANGED vars
  <2>1. UNCHANGED <<stage, dialog, current, calls, inbox, idleq>>
    BY <1>1 DEF Free, AcceptOther, Retry, RetryClicked, vars, bus, views
  <2> QED
    BY <1>0, <2>1, TokenOthers
<1>2. CASE Activate \/ Connect
  <2>1. UNCHANGED <<stage, dialog, current, calls, idleq>>
    BY <1>2 DEF Activate, Connect, views
  <2>2. \/ \E h \in Message : h.m # "started" /\ inbox' = Append(inbox, h)
        \/ inbox' = inbox \o <<Owner(TRUE), Proxy("up")>>
    <3>1. /\ Comes \in Message /\ Comes.m # "started"
          /\ \A r \in {"up", "down", "failed"} : Proxy(r) \in Message /\ Proxy(r).m # "started"
      BY MessageTypes, Sorts DEF Comes
    <3>2. CASE Activate
      BY <3>1, <3>2 DEF Activate, Tell, Comes
    <3>3. CASE Connect
      BY <3>1, <3>3 DEF Connect, Tell
    <3> QED
      BY <1>2, <3>2, <3>3
  <2> QED
    BY <1>0, <2>1, <2>2, TokenOthers
<1>3. ASSUME NEW r \in {"ok", "failed"}, Answer(r) PROVE Single(v)' /\ Owns(v)'
  <2>1. UNCHANGED <<stage, dialog, current, calls, idleq>>
    BY <1>3 DEF Answer, views
  <2>2. owner \in Op /\ inbox' = Append(inbox, Complete(owner, r = "ok"))
    BY <1>3 DEF Answer, SlotAnswer, Tell, TypeOK, DaemonTypes
  <2>3. /\ Complete(owner, TRUE) \in Message /\ Complete(owner, FALSE) \in Message
        /\ Complete(owner, TRUE).m # "started" /\ Complete(owner, FALSE).m # "started"
    BY <2>2, MessageTypes, Sorts
  <2>4. \E h \in Message : h.m # "started" /\ inbox' = Append(inbox, h)
    <3>1. CASE r = "ok"
      <4>1. inbox' = Append(inbox, Complete(owner, TRUE))
        BY <2>2, <3>1, Zenon
      <4> QED
        BY <2>3, <4>1
    <3>2. CASE r # "ok"
      <4>1. (r = "ok") = FALSE
        BY <3>2
      <4>2. inbox' = Append(inbox, Complete(owner, FALSE))
        BY <2>2, <4>1, Zenon
      <4> QED
        BY <2>3, <4>2
    <3> QED
      BY <3>1, <3>2
  <2> QED
    BY <1>0, <2>1, <2>4, TokenOthers
<1>4. ASSUME NEW s \in Mode, Change(s) PROVE Single(v)' /\ Owns(v)'
  <2>1. UNCHANGED <<stage, dialog, current, calls, idleq>> /\ inbox' = Append(inbox, State("changed", s))
    BY <1>4 DEF Change, Tell, views
  <2>2. State("changed", s) \in Message /\ State("changed", s).m # "started"
    BY MessageTypes, Sorts
  <2> QED
    BY <1>0, <2>1, <2>2, TokenOthers
<1>5. CASE OnProxyReady \/ OnOwner \/ OnState \/ Drop
  <2>1. UNCHANGED <<stage, dialog, current>> /\ \E m : Take(m)
    BY <1>5 DEF OnProxyReady, OnOwner, OnState, Drop, views
  <2>2. calls' = calls \/ calls' = Append(calls, Fetch)
    BY <1>5 DEF OnProxyReady, OnOwner, OnState, Drop, Send
  <2>3. \/ idleq' = idleq
        \/ \E c : c.c \in {"update", "reset"} /\ idleq' = Append(idleq, c)
    <3>1. Reset.c = "reset" /\ \A s : Update(s).c = "update"
      BY DEF Reset, Update
    <3>2. idleq' = idleq \/ idleq' = Append(idleq, Reset) \/ \E s : idleq' = Append(idleq, Update(s))
      BY <1>5 DEF OnProxyReady, OnOwner, OnState, Drop, Later, ResetLater
    <3> QED
      BY <3>1, <3>2
  <2> QED
    BY <1>0, <2>1, <2>2, <2>3, TokenOthers
<1>6. CASE DoUpdate \/ DoReset
  <2>1. UNCHANGED <<stage, dialog, current, calls, inbox>> /\ \E k : Run(k)
    BY <1>6 DEF DoUpdate, DoReset, views, bus
  <2> QED
    BY <1>0, <2>1, TokenOthers
<1> QED
  BY <1>1, <1>2, <1>3, <1>4, <1>5, <1>6

LEMMA TokenView ==
  ASSUME TypeOK, DialogsNumbered, AsksNumbered, [Next]_vars, shut' = {}, NEW v \in View, Single(v), Owns(v)
  PROVE  Single(v)' /\ Owns(v)'
<1>1. CASE Daemon \/ AcceptOther \/ Retry \/ RetryClicked \/ UNCHANGED vars \/ \E s \in Mode : Change(s)
  BY <1>1, TokenServe, TokenQuiet DEF Daemon
<1>2. CASE Stop \/ \E i \in 1 .. Len(calls) : TimeOut(i)
  BY <1>2, TokenStop, TokenTimeOut
<1>3. CASE Handle
  BY <1>3, TokenQuiet, TokenOnStarted, TokenOnComplete DEF Handle
<1>4. CASE Idle
  BY <1>4, TokenQuiet, TokenDoStore DEF Idle
<1>5. ASSUME NEW u \in View, OpenInstall(u) \/ OpenRollback(u) \/ OpenFix(u) PROVE Single(v)' /\ Owns(v)'
  BY <1>5, TokenUser
<1>6. ASSUME NEW u \in View, Confirm(u) PROVE Single(v)' /\ Owns(v)'
  BY <1>6, TokenConfirm
<1>7. ASSUME NEW u \in View, Close(u) PROVE Single(v)' /\ Owns(v)'
  <2>1. stage[u] # "progress"
    BY <1>7 DEF Close
  <2> QED
    BY <1>7, <2>1, TokenUser
<1> QED
  BY <1>1, <1>2, <1>3, <1>4, <1>5, <1>6, <1>7 DEF Next

(* As long as no dialog was closed under its operation, what a view holds is *)
(* its own, and so no completion is taken for another.                      *)
LEMMA Uncrossed ==
  ASSUME TypeOK, [Next]_vars, shut = {}, crossed = {}, \A v \in View : Owns(v)
  PROVE  crossed' = {}
<1>1. CASE OnComplete
  <2>1. PICK h \in Message :
          /\ h.o \in Op
          /\ \A d : d \in crossed' <=> \/ d \in crossed
                                      \/ \E v \in View : Hits(v, h.o) /\ asker[h.o] # dialog[v] /\ d = dialog[v]
    BY <1>1, Completed
  <2>2. \A v \in View : Hits(v, h.o) => asker[h.o] = dialog[v]
    BY <2>1 DEF Hits, Owns, Foreign
  <2> QED
    BY <2>1, <2>2
<1>2. ASSUME NEW v \in View, Close(v) PROVE crossed' = {}
  BY <1>2 DEF Close
<1>3. CASE Daemon \/ AcceptOther \/ Retry \/ RetryClicked \/ UNCHANGED vars \/ (\E s \in Mode : Change(s))
           \/ Stop \/ \E i \in 1 .. Len(calls) : TimeOut(i)
  BY <1>3 DEF Daemon, Activate, Connect, Serve, Answer, Free, AcceptOther, Retry, RetryClicked, Change, Stop,
              TimeOut, vars, notes
<1>4. CASE OnProxyReady \/ OnOwner \/ OnState \/ OnStarted \/ Drop \/ Idle
  BY <1>4 DEF OnProxyReady, OnOwner, OnState, OnStarted, Drop, Idle, DoUpdate, DoReset, DoStore, notes
<1>5. ASSUME NEW v \in View, OpenInstall(v) \/ OpenRollback(v) \/ OpenFix(v) \/ Confirm(v) PROVE crossed' = {}
  BY <1>5 DEF OpenInstall, OpenRollback, OpenFix, OpenDialog, Confirm, notes
<1> QED
  BY <1>1, <1>2, <1>3, <1>4, <1>5 DEF Next, Handle

LEMMA ShutGrows ==
  ASSUME [Next]_vars
  PROVE  shut \subseteq shut'
<1>1. ASSUME NEW v \in View, Close(v) PROVE shut \subseteq shut'
  BY <1>1 DEF Close
<1>2. CASE Daemon \/ AcceptOther \/ Retry \/ RetryClicked \/ UNCHANGED vars \/ (\E s \in Mode : Change(s))
           \/ Stop \/ \E i \in 1 .. Len(calls) : TimeOut(i)
  BY <1>2 DEF Daemon, Activate, Connect, Serve, Answer, Free, AcceptOther, Retry, RetryClicked, Change, Stop,
              TimeOut, vars, notes
<1>3. CASE Handle \/ Idle
  BY <1>3 DEF Handle, OnProxyReady, OnOwner, OnState, OnStarted, OnComplete, Drop, Idle, DoUpdate, DoReset,
              DoStore, notes
<1>4. ASSUME NEW v \in View, OpenInstall(v) \/ OpenRollback(v) \/ OpenFix(v) \/ Confirm(v) PROVE shut \subseteq shut'
  BY <1>4 DEF OpenInstall, OpenRollback, OpenFix, OpenDialog, Confirm, notes
<1> QED
  BY <1>1, <1>2, <1>3, <1>4 DEF Next

LEMMA TokenInit == Init => TokenInv
<1> SUFFICES ASSUME Init PROVE crossed = {} /\ \A v \in View : Single(v) /\ Owns(v)
  BY DEF TokenInv
<1>1. crossed = {} /\ calls = <<>> /\ inbox = <<>> /\ idleq = <<>> /\ \A v \in View : current[v] = NoOp
  BY DEF Init
<1>2. \A A : None(calls, A) /\ None(inbox, A) /\ None(idleq, A) /\ Once(calls, A) /\ Once(inbox, A) /\ Once(idleq, A)
  BY <1>1 DEF None, Once
<1> QED
  BY <1>1, <1>2, Strays DEF Single, Owns, Asking, Replied, Storing, Holding

LEMMA TokenStep == TypeOK /\ DialogsNumbered /\ AsksNumbered /\ TokenInv /\ [Next]_vars => TokenInv'
<1> SUFFICES ASSUME TypeOK, DialogsNumbered, AsksNumbered, TokenInv, [Next]_vars, shut' = {}
             PROVE  crossed' = {} /\ \A v \in View : Single(v)' /\ Owns(v)'
  BY DEF TokenInv
<1>1. shut = {}
  BY ShutGrows
<1>2. crossed = {} /\ \A v \in View : Single(v) /\ Owns(v)
  BY <1>1 DEF TokenInv
<1> QED
  BY <1>1, <1>2, Uncrossed, TokenView

(* A dialog that shows success has paid for and been told of exactly what it *)
(* was opened for.                                                          *)
LEMMA SuccessCounts ==
  ASSUME TypeOK, Counted, NEW v \in View, stage[v] = "success", dialog[v] \notin crossed
  PROVE  Cardinality({o \in Op : asker[o] = dialog[v] /\ answer[o] = "ok"}) = want[v]
<1> DEFINE d   == dialog[v]
           oks == {o \in Op : asker[o] = d /\ answer[o] = "ok"}
<1>1. /\ left[v] = 0 /\ Cardinality(Done(d)) >= want[v]
      /\ Cardinality(At(calls, AsksOf(d))) + Cardinality(OpsOf(d)) <= want[v] - left[v]
  BY DEF Counted, Paid, Earned
<1>2. /\ Cardinality(At(calls, AsksOf(d))) \in Nat
      /\ IsFiniteSet(OpsOf(d)) /\ Cardinality(OpsOf(d)) \in Nat /\ Cardinality(Done(d)) \in Nat
  BY Finite
<1>3. Done(d) \in SUBSET oks /\ oks \in SUBSET OpsOf(d)
  BY DEF Done, OpsOf
<1> HIDE DEF d, oks
<1>4. IsFiniteSet(oks) /\ Cardinality(oks) \in Nat /\ Cardinality(oks) <= Cardinality(OpsOf(d))
  BY <1>2, <1>3, FS_Subset, FS_CardinalityType
<1>5. Cardinality(Done(d)) <= Cardinality(oks)
  BY <1>3, <1>4, FS_Subset
<1>6. want[v] \in Nat
  BY DEF TypeOK, DialogTypes
<1>7. \A a, b, c, e, n \in Nat : c >= n /\ a + b <= n - 0 /\ e <= b /\ c <= e => e = n
  OBVIOUS
<1>8. Cardinality(oks) = want[v]
  BY <1>1, <1>2, <1>4, <1>5, <1>6, <1>7
<1> QED
  BY <1>8 DEF d, oks

\* A dialog that shows success has had every operation it was opened for
\* done: _on_operation_complete compares the id of the signal with the view's
\* own (drivers.py:905-911), the power view counts its fixes down as they
\* complete (power.py:785-815), and no view takes the completion of another
\* dialog's operation unless a window was closed while its operation ran.
THEOREM OwnOutcomeCorrect == Spec => []OwnOutcome
<1>1. TypeOK /\ OutcomeInv => OwnOutcome
  <2> SUFFICES ASSUME TypeOK, OutcomeInv PROVE OwnOutcome
    OBVIOUS
  <2>1. crossed # {} => shut # {}
    BY DEF OutcomeInv, TokenInv
  <2>2. Counted
    BY DEF OutcomeInv
  <2> QED
    BY <2>1, <2>2, SuccessCounts DEF OwnOutcome
<1>2. Init => TypeOK /\ OutcomeInv
  BY TypeInit, NumberedInit, CountedInit, TokenInit DEF OutcomeInv
<1>3. TypeOK /\ OutcomeInv /\ [Next]_vars => (TypeOK /\ OutcomeInv)'
  <2> SUFFICES ASSUME TypeOK, OutcomeInv, [Next]_vars PROVE TypeOK' /\ OutcomeInv'
    OBVIOUS
  <2>1. TypeOK'
    BY TypeStep
  <2>2. TokenInv /\ DialogsNumbered /\ AsksNumbered /\ Told /\ Counted
    BY DEF OutcomeInv
  <2>3. DialogsNumbered' /\ AsksNumbered' /\ Told' /\ Counted' /\ TokenInv'
    BY <2>1, <2>2, DialogsStep, AsksStep, ToldStep, CountedStep, TokenStep
  <2> QED
    BY <2>1, <2>3 DEF OutcomeInv
<1> QED
  BY <1>1, <1>2, <1>3, PTL DEF Spec
=============================================================================
