------------------------- MODULE ClientSocketProofs -------------------------
(***************************************************************************)
(* Proofs about the client's socket and shared transport, and the live     *)
(* view on top of them, for any number of channels, holds, sockets, frames *)
(* and retries.                                                            *)
(*                                                                         *)
(* The gate (GateInv): a queue belongs to the current socket while that is *)
(* open and has no session.  With it the transport implements its promise: *)
(* what is in a queue is never a subscription, because the transport       *)
(* learns of a session only after it.                                      *)
(*                                                                         *)
(* The subscriptions (FollowInv): in a session the transport knows of, the *)
(* channels in its map are those the session is asked for, and the last    *)
(* answer on its way is the server's.                                      *)
(*                                                                         *)
(* The view (ViewInv): an undoubted answer means that nothing about its    *)
(* channel is under way (Answered), the answer a render has seen is the    *)
(* present one (Rendered), and a live view shows the record or will read   *)
(* it (Catches).                                                           *)
(***************************************************************************)
EXTENDS LiveView, SequenceTheorems, FiniteSetTheorems, TLAPS

-----------------------------------------------------------------------------
(* Sequences of frames                                                     *)

LEMMA AboutConcat ==
  ASSUME NEW fs \in Seq(Frames), NEW gs \in Seq(Frames), NEW c
  PROVE  /\ About(c, fs \o gs) = {} <=> About(c, fs) = {} /\ About(c, gs) = {}
         /\ \A i \in About(c, fs) : i \in About(c, fs \o gs)
         /\ \A i \in About(c, gs) : Len(fs) + i \in About(c, fs \o gs)
         /\ \A i \in About(c, fs \o gs) :
               \/ i \in About(c, fs) /\ (fs \o gs)[i] = fs[i] /\ i <= Len(fs)
               \/ i - Len(fs) \in About(c, gs) /\ (fs \o gs)[i] = gs[i - Len(fs)] /\ i > Len(fs)
<1>1. /\ fs \o gs \in Seq(Frames) /\ Len(fs \o gs) = Len(fs) + Len(gs)
      /\ \A i \in 1 .. Len(fs) + Len(gs) :
            (fs \o gs)[i] = IF i <= Len(fs) THEN fs[i] ELSE gs[i - Len(fs)]
  BY ConcatProperties
<1>2. /\ Len(fs) \in Nat /\ Len(gs) \in Nat
      /\ DOMAIN fs = 1 .. Len(fs) /\ DOMAIN gs = 1 .. Len(gs)
      /\ DOMAIN (fs \o gs) = 1 .. (Len(fs) + Len(gs))
  BY <1>1, LenProperties
<1>3. \A i \in About(c, fs) : i \in About(c, fs \o gs)
  BY <1>1, <1>2 DEF About
<1>4. \A i \in About(c, gs) : Len(fs) + i \in About(c, fs \o gs)
  BY <1>1, <1>2 DEF About
<1>5. \A i \in About(c, fs \o gs) :
        \/ i \in About(c, fs) /\ (fs \o gs)[i] = fs[i] /\ i <= Len(fs)
        \/ i - Len(fs) \in About(c, gs) /\ (fs \o gs)[i] = gs[i - Len(fs)] /\ i > Len(fs)
  BY <1>1, <1>2 DEF About
<1> QED BY <1>3, <1>4, <1>5

\* Frames that follow decide, if one of them is about the channel.
LEMMA AskedConcat ==
  ASSUME NEW fs \in Seq(Frames), NEW gs \in Seq(Frames), NEW c, NEW was
  PROVE  /\ About(c, gs) = {} => (AskedBy(fs \o gs, was, c) <=> AskedBy(fs, was, c))
         /\ About(c, gs) # {} => (AskedBy(fs \o gs, was, c) <=> AskedBy(gs, was, c))
<1>0. /\ Len(fs) \in Nat
      /\ \A i \in About(c, fs) : i \in Nat /\ i <= Len(fs)
      /\ \A i \in About(c, gs) : i \in Nat /\ i > 0
      /\ \A i \in About(c, fs \o gs) : i \in Nat
  BY LenProperties, ConcatProperties DEF About
<1>a. /\ About(c, fs \o gs) = {} <=> About(c, fs) = {} /\ About(c, gs) = {}
      /\ \A i \in About(c, fs) : i \in About(c, fs \o gs)
      /\ \A i \in About(c, gs) : Len(fs) + i \in About(c, fs \o gs)
      /\ \A i \in About(c, fs \o gs) :
            \/ i \in About(c, fs) /\ (fs \o gs)[i] = fs[i] /\ i <= Len(fs)
            \/ i - Len(fs) \in About(c, gs) /\ (fs \o gs)[i] = gs[i - Len(fs)] /\ i > Len(fs)
  BY AboutConcat
<1>1. CASE About(c, gs) = {}
  <2>1. /\ About(c, fs \o gs) = About(c, fs)
        /\ \A i \in About(c, fs) : (fs \o gs)[i] = fs[i]
    <3>1. \A i \in About(c, fs \o gs) : i \in About(c, fs)
      BY <1>1, <1>a
    <3>2. \A i \in About(c, fs) : i \in About(c, fs \o gs) /\ (fs \o gs)[i] = fs[i]
      BY <1>1, <1>a
    <3> QED BY <3>1, <3>2
  <2> QED BY <1>1, <2>1 DEF AskedBy
<1>2. CASE About(c, gs) # {}
  <2>1. About(c, fs \o gs) # {}
    BY <1>2, <1>a
  <2>2. ASSUME AskedBy(gs, was, c) PROVE AskedBy(fs \o gs, was, c)
    <3>1. PICK i \in About(c, gs) : \A j \in About(c, gs) : j >= i => gs[j].action = "subscribe"
      BY <1>2, <2>2 DEF AskedBy
    <3>2. Len(fs) + i \in About(c, fs \o gs)
      BY <1>a
    <3>3. ASSUME NEW j \in About(c, fs \o gs), j >= Len(fs) + i
          PROVE  (fs \o gs)[j].action = "subscribe"
      <4>1. i > 0 /\ j \notin {k \in About(c, fs) : k <= Len(fs)} /\ j \in Nat /\ i \in Nat
        BY <1>0, <3>1, <3>3
      <4>2. j - Len(fs) \in About(c, gs) /\ (fs \o gs)[j] = gs[j - Len(fs)]
        BY <1>0, <3>3, <4>1, <1>a
      <4>3. j - Len(fs) >= i
        BY <1>0, <3>3, <4>1
      <4> QED BY <3>1, <4>2, <4>3
    <3> QED BY <2>1, <3>2, <3>3 DEF AskedBy
  <2>3. ASSUME AskedBy(fs \o gs, was, c) PROVE AskedBy(gs, was, c)
    <3>1. PICK i \in About(c, fs \o gs) :
             \A j \in About(c, fs \o gs) : j >= i => (fs \o gs)[j].action = "subscribe"
      BY <2>1, <2>3 DEF AskedBy
    <3>2. ASSUME NEW j \in About(c, gs), Len(fs) + j >= i PROVE gs[j].action = "subscribe"
      <4>1. Len(fs) + j \in About(c, fs \o gs)
        BY <1>a
      <4>2. (fs \o gs)[Len(fs) + j] = gs[j]
        BY <1>0, ConcatProperties, LenProperties DEF About
      <4> QED BY <3>1, <3>2, <4>1, <4>2
    <3>3. CASE i > Len(fs)
      <4>1. i - Len(fs) \in About(c, gs)
        BY <1>0, <3>3, <1>a
      <4>2. \A j \in About(c, gs) : j >= i - Len(fs) => Len(fs) + j >= i
        BY <1>0
      <4> QED BY <1>2, <3>2, <4>1, <4>2 DEF AskedBy
    <3>4. CASE i <= Len(fs)
      <4>1. \A j \in About(c, gs) : Len(fs) + j >= i
        BY <1>0, <3>4
      <4> QED BY <1>2, <3>2, <4>1 DEF AskedBy
    <3>5. i > Len(fs) \/ i <= Len(fs)
      BY <1>0, <3>1
    <3> QED BY <3>3, <3>4, <3>5, Zenon
  <2>4. AskedBy(fs \o gs, was, c) <=> AskedBy(gs, was, c)
    BY <2>2, <2>3
  <2> QED BY <1>2, <2>4, Zenon
<1> QED BY <1>1, <1>2

\* The frames of one message about each channel of S.
LEMMA FramesOfOrder ==
  ASSUME current \in Sockets, NEW S \in SUBSET Channels, NEW order \in Orders(S),
         NEW action \in {"subscribe", "unsubscribe"}
  PROVE  /\ FramesOf(action, order) \in Seq(Frames)
         /\ \A i \in DOMAIN FramesOf(action, order) :
               /\ FramesOf(action, order)[i].via = current
               /\ FramesOf(action, order)[i].action = action
         /\ \A c : About(c, FramesOf(action, order)) # {} <=> c \in S
<1>1. IsFiniteSet(S) /\ Cardinality(S) \in Nat
  BY FS_Subset, FS_CardinalityType, SocketAssumption
<1>2. DOMAIN order = 1 .. Cardinality(S) /\ \A i \in 1 .. Cardinality(S) : order[i] \in S
  BY <1>1 DEF Orders
<1>3. \A i \in 1 .. Cardinality(S) :
         [action |-> action, of |-> order[i], via |-> current] \in Frames
  BY <1>2 DEF Frames
<1>4. FramesOf(action, order) \in [1 .. Cardinality(S) -> Frames]
  BY <1>2, <1>3 DEF FramesOf
<1>5. FramesOf(action, order) \in Seq(Frames)
  BY <1>1, <1>4, SeqDef
<1>6. \A i \in DOMAIN FramesOf(action, order) :
         /\ FramesOf(action, order)[i].via = current
         /\ FramesOf(action, order)[i].action = action
         /\ FramesOf(action, order)[i].of = order[i]
  BY <1>2 DEF FramesOf
<1>7. ASSUME NEW c PROVE About(c, FramesOf(action, order)) # {} <=> c \in S
  <2>1. About(c, FramesOf(action, order)) = {i \in 1 .. Cardinality(S) : order[i] = c}
    BY <1>2, <1>4, <1>6 DEF About
  <2>2. c \in S => \E i \in 1 .. Cardinality(S) : order[i] = c
    BY <1>2 DEF Orders
  <2> QED BY <1>2, <2>1, <2>2
<1> QED BY <1>5, <1>6, <1>7

LEMMA AskedAfterSubscribes ==
  ASSUME current \in Sockets, NEW S \in SUBSET Channels, NEW order \in Orders(S),
         NEW fs \in Seq(Frames), NEW was, NEW c
  PROVE  AskedBy(fs \o FramesOf("subscribe", order), was, c) <=> (AskedBy(fs, was, c) \/ c \in S)
<1> DEFINE gs == FramesOf("subscribe", order)
<1>1. /\ gs \in Seq(Frames)
      /\ \A i \in DOMAIN gs : gs[i].action = "subscribe"
      /\ About(c, gs) # {} <=> c \in S
  BY FramesOfOrder
<1>2. c \in S => AskedBy(gs, was, c)
  BY <1>1 DEF AskedBy, About
<1>3. /\ About(c, gs) = {} => (AskedBy(fs \o gs, was, c) <=> AskedBy(fs, was, c))
      /\ About(c, gs) # {} => (AskedBy(fs \o gs, was, c) <=> AskedBy(gs, was, c))
  BY <1>1, AskedConcat, Zenon
<1> HIDE DEF gs
<1>4. AskedBy(fs \o gs, was, c) <=> (AskedBy(fs, was, c) \/ c \in S)
  BY <1>1, <1>2, <1>3, Zenon
<1> QED BY <1>4 DEF gs

LEMMA AskedAfterUnsubscribes ==
  ASSUME current \in Sockets, NEW S \in SUBSET Channels, NEW order \in Orders(S),
         NEW fs \in Seq(Frames), NEW was, NEW c
  PROVE  AskedBy(fs \o FramesOf("unsubscribe", order), was, c) <=> (AskedBy(fs, was, c) /\ c \notin S)
<1> DEFINE gs == FramesOf("unsubscribe", order)
<1>1. /\ gs \in Seq(Frames)
      /\ \A i \in DOMAIN gs : gs[i].action = "unsubscribe"
      /\ About(c, gs) # {} <=> c \in S
  BY FramesOfOrder
<1>2. c \in S => ~AskedBy(gs, was, c)
  <2>1. \A i \in About(c, gs) : i \in DOMAIN gs /\ i >= i
    BY <1>1, LenProperties DEF About
  <2> QED BY <1>1, <2>1 DEF AskedBy
<1>3. /\ About(c, gs) = {} => (AskedBy(fs \o gs, was, c) <=> AskedBy(fs, was, c))
      /\ About(c, gs) # {} => (AskedBy(fs \o gs, was, c) <=> AskedBy(gs, was, c))
  BY <1>1, AskedConcat, Zenon
<1> HIDE DEF gs
<1>4. AskedBy(fs \o gs, was, c) <=> (AskedBy(fs, was, c) /\ c \notin S)
  BY <1>1, <1>2, <1>3, Zenon
<1> QED BY <1>4 DEF gs

\* Frames that only publish.
Publishes(fs) == \A i \in DOMAIN fs : fs[i].action = "publish"

LEMMA AskedAfterPublishes ==
  ASSUME NEW fs \in Seq(Frames), NEW gs \in Seq(Frames), Publishes(gs), NEW was, NEW c
  PROVE  /\ AskedBy(fs \o gs, was, c) <=> AskedBy(fs, was, c)
         /\ About(c, fs \o gs) = {} <=> About(c, fs) = {}
<1>1. About(c, gs) = {}
  BY DEF About, Publishes
<1>2. /\ About(c, gs) = {} => (AskedBy(fs \o gs, was, c) <=> AskedBy(fs, was, c))
      /\ About(c, gs) # {} => (AskedBy(fs \o gs, was, c) <=> AskedBy(gs, was, c))
  BY AskedConcat, Zenon
<1>3. About(c, fs \o gs) = {} <=> About(c, fs) = {}
  BY <1>1, AboutConcat
<1> QED BY <1>1, <1>2, <1>3, Zenon

\* Serving the first frame: what it says, and the rest after it.
LEMMA AskedAfterHead ==
  ASSUME NEW fs \in Seq(Frames), fs # <<>>, NEW was, NEW is, NEW c,
         Head(fs).action = "publish" \/ Head(fs).of # c => is = was,
         ~(Head(fs).action = "publish" \/ Head(fs).of # c) => (is # "none" <=> Head(fs).action = "subscribe")
  PROVE  /\ AskedBy(Tail(fs), is, c) <=> AskedBy(fs, was, c)
         /\ Head(fs).action = "publish" \/ Head(fs).of # c
               => (About(c, Tail(fs)) = {} <=> About(c, fs) = {})
<1> DEFINE h == <<Head(fs)>>
<1>1. Head(fs) \in Frames /\ Tail(fs) \in Seq(Frames) /\ h \in Seq(Frames)
  BY HeadTailProperties
<1>2. fs = h \o Tail(fs)
  BY <1>1, HeadTailProperties, LenProperties, ConcatProperties
<1>3. /\ About(c, Tail(fs)) = {} => (AskedBy(fs, was, c) <=> AskedBy(h, was, c))
      /\ About(c, Tail(fs)) # {} => (AskedBy(fs, was, c) <=> AskedBy(Tail(fs), was, c))
  <2> HIDE DEF h
  <2>1. /\ About(c, Tail(fs)) = {} => (AskedBy(h \o Tail(fs), was, c) <=> AskedBy(h, was, c))
        /\ About(c, Tail(fs)) # {} => (AskedBy(h \o Tail(fs), was, c) <=> AskedBy(Tail(fs), was, c))
    BY <1>1, AskedConcat, Zenon
  <2> QED BY <1>2, <2>1
<1>4. About(c, h) = IF Head(fs).action = "publish" \/ Head(fs).of # c THEN {} ELSE {1}
  BY <1>1 DEF About
<1>5. AskedBy(h, was, c) <=> is # "none"
  <2>1. CASE Head(fs).action = "publish" \/ Head(fs).of # c
    BY <1>4, <2>1 DEF AskedBy
  <2>2. CASE ~(Head(fs).action = "publish" \/ Head(fs).of # c)
    <3>1. About(c, h) = {1} /\ h[1] = Head(fs)
      BY <1>4, <2>2
    <3>2. AskedBy(h, was, c) <=> Head(fs).action = "subscribe"
      <4> HIDE DEF h
      <4> QED BY <3>1 DEF AskedBy
    <3> QED BY <2>2, <3>2, Zenon
  <2> QED BY <2>1, <2>2, Zenon
<1>6. About(c, Tail(fs)) = {} => (AskedBy(Tail(fs), is, c) <=> is # "none")
  BY DEF AskedBy
<1>7. About(c, Tail(fs)) # {} => (AskedBy(Tail(fs), is, c) <=> AskedBy(Tail(fs), was, c))
  BY DEF AskedBy
<1>8. AskedBy(Tail(fs), is, c) <=> AskedBy(fs, was, c)
  BY <1>3, <1>5, <1>6, <1>7, Zenon
<1>9. Head(fs).action = "publish" \/ Head(fs).of # c
         => (About(c, Tail(fs)) = {} <=> About(c, fs) = {})
  <2>1. About(c, h \o Tail(fs)) = {} <=> About(c, h) = {} /\ About(c, Tail(fs)) = {}
    <3> HIDE DEF h
    <3> QED BY <1>1, AboutConcat
  <2> QED BY <1>2, <1>4, <2>1
<1> QED BY <1>8, <1>9

-----------------------------------------------------------------------------
(* The gate                                                                *)

\* Nothing is on its way over a socket that is not open.
Quiet == \A s \in Sockets :
    phase[s] # "open" => /\ wire[s] = <<>> /\ replies[s] = <<>>
                         /\ subs[s] = [c \in Channels |-> "none"]

\* Sockets are made in order, and the current one was made.
MadeInOrder == /\ \A s \in Sockets : phase[s] = "unmade" <=> s > made
               /\ current <= made

\* A session is on an open socket; the fallback waits for one that is open.
InSession == /\ react.state = "connected" <=> established
             /\ established => CurrentIsOpen
             /\ fallback # NoSocket => fallback = current /\ CurrentIsOpen

\* What waits for the session of the current socket only publishes.
QueueGated == /\ queue # <<>> => CurrentIsOpen /\ ~established
              /\ Publishes(queue)
              /\ \A i \in DOMAIN queue : queue[i].via = current

WiresOwn == \A s \in Sockets : \A i \in DOMAIN wire[s] : wire[s][i].via = s

\* The transport learns of a session after the socket has it.
ToldLate == CurrentIsOpen /\ shown # react => shown.state # "connected"

GateInv == TypeOK /\ Quiet /\ MadeInOrder /\ InSession /\ QueueGated /\ WiresOwn /\ ToldLate

\* The transport only sends subscriptions in a session.
LEMMA SubscribesInSession ==
  ASSUME GateInv, CurrentIsOpen, CanSubscribe(shown) \/ CanSubscribe(react)
  PROVE  established /\ queue = <<>>
<1>1. established
  BY DEF GateInv, ToldLate, InSession, CanSubscribe
<1> QED BY <1>1 DEF GateInv, QueueGated

\* send(): what becomes of the queue and the wires.
LEMMA SendKeepsGate ==
  ASSUME GateInv, NEW fs, CurrentIsOpen => fs \in Seq(Frames),
         CurrentIsOpen => \A i \in DOMAIN fs : fs[i].via = current,
         established \/ Publishes(fs), Send(fs)
  PROVE  /\ queue' \in Seq(Frames)
         /\ wire' \in [Sockets -> Seq(Frames)]
         /\ queue' # <<>> => CurrentIsOpen /\ ~established
         /\ Publishes(queue')
         /\ \A i \in DOMAIN queue' : queue'[i].via = current
         /\ \A s \in Sockets : \A i \in DOMAIN wire'[s] : wire'[s][i].via = s
         /\ \A s \in Sockets : phase[s] # "open" => wire'[s] = wire[s]
<1> USE DEF GateInv
<1>t. queue \in Seq(Frames) /\ wire \in [Sockets -> Seq(Frames)] /\ current \in Sockets \cup {NoSocket}
  BY DEF TypeOK
<1>1. CASE ~CurrentIsOpen /\ UNCHANGED <<queue, wire>>
  BY <1>t, <1>1 DEF QueueGated, WiresOwn, Publishes
<1>2. CASE /\ CurrentIsOpen /\ ~established
           /\ queue' = LastOf(queue \o fs)
           /\ UNCHANGED wire
  <2> DEFINE q == queue \o fs
  <2>1. /\ q \in Seq(Frames) /\ Len(q) \in Nat /\ DOMAIN q = 1 .. Len(q)
        /\ \A i \in 1 .. Len(q) : q[i].action = "publish" /\ q[i].via = current
    <3>1. /\ q \in Seq(Frames) /\ Len(q) = Len(queue) + Len(fs)
          /\ \A i \in 1 .. Len(queue) + Len(fs) :
                q[i] = IF i <= Len(queue) THEN queue[i] ELSE fs[i - Len(queue)]
      BY <1>t, <1>2, ConcatProperties
    <3>2. /\ Len(queue) \in Nat /\ Len(fs) \in Nat
          /\ DOMAIN queue = 1 .. Len(queue) /\ DOMAIN fs = 1 .. Len(fs) /\ DOMAIN q = 1 .. Len(q)
      BY <1>t, <1>2, <3>1, LenProperties
    <3> HIDE DEF q
    <3>3. \A i \in 1 .. Len(queue) : queue[i].action = "publish" /\ queue[i].via = current
      BY <3>2 DEF QueueGated, Publishes
    <3>4. \A i \in 1 .. Len(fs) : fs[i].action = "publish" /\ fs[i].via = current
      BY <1>2, <3>2 DEF Publishes
    <3>5. ASSUME NEW i \in 1 .. Len(queue) + Len(fs), i > Len(queue)
          PROVE  i - Len(queue) \in 1 .. Len(fs)
      BY <3>2, <3>5
    <3>6. ASSUME NEW i \in 1 .. Len(queue) + Len(fs)
          PROVE  q[i].action = "publish" /\ q[i].via = current
      BY <3>1, <3>2, <3>3, <3>4, <3>5
    <3> QED BY <3>1, <3>2, <3>6
  <2> HIDE DEF q
  <2>2. /\ queue' \in Seq(Frames)
        /\ \A i \in DOMAIN queue' : queue'[i].action = "publish" /\ queue'[i].via = current
    <3>1. CASE Len(q) <= QueueMax
      <4>1. queue' = q
        BY <1>2, <2>1, <3>1, SocketAssumption DEF LastOf, q
      <4> QED BY <2>1, <4>1
    <3>2. CASE Len(q) > QueueMax
      <4> DEFINE n == Len(q) - QueueMax + 1
      <4>1. queue' = SubSeq(q, n, Len(q)) /\ n \in Nat /\ n > 0 /\ n <= Len(q)
        <5>1. n \in Nat /\ n > 0 /\ n <= Len(q)
          BY <2>1, <3>2, SocketAssumption
        <5>2. queue' = LastOf(q)
          BY <1>2 DEF q
        <5> QED BY <3>2, <5>1, <5>2 DEF LastOf
      <4>2. \A i \in n .. Len(q) : q[i] \in Frames
        BY <2>1, <4>1, ElementOfSeq
      <4> HIDE DEF n
      <4>3. /\ queue' \in Seq(Frames) /\ Len(queue') = Len(q) - n + 1
            /\ \A i \in 1 .. Len(q) - n + 1 : queue'[i] = q[n + i - 1]
        BY <2>1, <4>1, <4>2, SubSeqProperties
      <4>4. DOMAIN queue' = 1 .. Len(q) - n + 1
        BY <4>3, LenProperties
      <4>5. \A i \in 1 .. Len(q) - n + 1 : n + i - 1 \in 1 .. Len(q)
        BY <2>1, <4>1
      <4> QED BY <2>1, <4>3, <4>4, <4>5
    <3> QED BY <2>1, <3>1, <3>2, SocketAssumption
  <2> QED BY <1>t, <1>2, <2>2 DEF Publishes, WiresOwn
<1>3. CASE /\ CurrentIsOpen /\ established
           /\ wire' = [wire EXCEPT ![current] = @ \o fs]
           /\ UNCHANGED queue
  <2>1. current \in Sockets /\ wire[current] \in Seq(Frames) /\ fs \in Seq(Frames) /\ phase[current] = "open"
    BY <1>t, <1>3 DEF CurrentIsOpen
  <2>2. /\ wire[current] \o fs \in Seq(Frames)
        /\ \A i \in DOMAIN (wire[current] \o fs) : (wire[current] \o fs)[i].via = current
    BY <1>3, <2>1, ConcatProperties, LenProperties DEF WiresOwn
  <2> QED BY <1>t, <1>3, <2>1, <2>2 DEF WiresOwn, QueueGated, Publishes
<1> QED BY <1>1, <1>2, <1>3 DEF Send

LEMMA GateInit == Init => GateInv
<1> SUFFICES ASSUME Init PROVE GateInv
  OBVIOUS
<1>1. TypeOK
  <2>1. 1 \in Sockets /\ 0 \in 0 .. MaxRetries /\ 0 \in 0 .. MaxHolds /\ 0 \in 0 .. MaxFrames
    BY SocketAssumption DEF Sockets
  <2>2. <<>> \in Seq(Frames) /\ <<>> \in Seq(Replies)
    BY EmptySeq
  <2>3. Unheld \in Holds /\ react \in Views /\ shown \in Views
    BY DEF Init, Holds, Unheld, NoSession, Views
  <2> QED BY <2>1, <2>2, <2>3 DEF Init, TypeOK, NoSocket
<1>2. Quiet /\ MadeInOrder /\ InSession
  BY SocketAssumption DEF Init, Quiet, MadeInOrder, InSession, Sockets, NoSocket
<1>3. QueueGated /\ WiresOwn /\ ToldLate
  BY DEF Init, QueueGated, WiresOwn, ToldLate, Publishes
<1> QED BY <1>1, <1>2, <1>3 DEF GateInv

\* Closing sockets loses what is on its way over them, and nothing else.
LEMMA CutKeepsGate ==
  ASSUME GateInv, NEW S, Cut(S)
  PROVE  /\ wire' \in [Sockets -> Seq(Frames)] /\ replies' \in [Sockets -> Seq(Replies)]
         /\ subs' \in [Sockets -> [Channels -> {"none", "subscribed", "refused"}]]
         /\ greeted' \subseteq Sockets
         /\ \A s \in Sockets : \A i \in DOMAIN wire'[s] : wire'[s][i].via = s
         /\ \A s \in Sockets : phase[s] # "open" \/ s \in S =>
               /\ wire'[s] = <<>> /\ replies'[s] = <<>>
               /\ subs'[s] = [c \in Channels |-> "none"]
         /\ \A s \in Sockets : s \notin S =>
               wire'[s] = wire[s] /\ replies'[s] = replies[s] /\ subs'[s] = subs[s]
BY EmptySeq DEF GateInv, TypeOK, Quiet, WiresOwn, Cut

LEMMA ScheduleTyped ==
  ASSUME TypeOK, NEW tries \in 0 .. MaxRetries, NEW armed \in BOOLEAN,
         ScheduleReconnect(tries, armed)
  PROVE  /\ react' \in Views
         /\ react'.state \in {"reconnecting", "disconnected"}
         /\ react'.epoch = react.epoch
         /\ attempt' \in 0 .. MaxRetries
         /\ backoff' \in BOOLEAN
<1>1. CASE tries >= MaxRetries /\ react' = [react EXCEPT !.state = "disconnected"]
           /\ attempt' = tries /\ backoff' = armed
  BY <1>1 DEF TypeOK, Views
<1>2. CASE tries < MaxRetries /\ react' = [react EXCEPT !.state = "reconnecting"]
           /\ attempt' = tries + 1 /\ backoff' = TRUE
  <2>1. tries + 1 \in 0 .. MaxRetries
    BY <1>2, SocketAssumption
  <2>2. react' \in Views /\ react'.state = "reconnecting" /\ react'.epoch = react.epoch
    BY <1>2 DEF TypeOK, Views
  <2> QED BY <1>2, <2>1, <2>2
<1> QED BY <1>1, <1>2 DEF ScheduleReconnect

LEMMA ConnectKeepsGate ==
  ASSUME GateInv, NEW S \in SUBSET Sockets, NEW ref \in {NoSocket, current},
         NEW armed \in BOOLEAN, NEW tries \in 0 .. MaxRetries,
         S \subseteq TheCurrent, Connect(S, ref, armed, tries)
  PROVE  GateInv' /\ (current' = NoSocket \/ phase'[current'] # "open")
<1> DEFINE n == made + 1
<1>1. /\ TypeOK /\ n \in Sockets /\ made' = n /\ phase[n] = "unmade" /\ n \notin S
  <2>1. /\ TypeOK /\ made < MaxSockets /\ made' = n /\ made \in Nat /\ current \in Nat /\ current <= made
    <3>1. TypeOK /\ MadeInOrder /\ made < MaxSockets /\ made' = n
      BY DEF GateInv, Connect
    <3>2. made \in Sockets /\ current \in Sockets \cup {NoSocket}
      BY <3>1 DEF TypeOK
    <3> QED BY <3>1, <3>2 DEF MadeInOrder, Sockets, NoSocket
  <2>2. n \in Sockets /\ n > made
    BY <2>1, SocketAssumption DEF Sockets
  <2>3. n # current
    BY <2>1
  <2> QED BY <2>1, <2>2, <2>3 DEF GateInv, MadeInOrder, TheCurrent
<1>2. /\ wire' \in [Sockets -> Seq(Frames)] /\ replies' \in [Sockets -> Seq(Replies)]
      /\ subs' \in [Sockets -> [Channels -> {"none", "subscribed", "refused"}]]
      /\ greeted' \subseteq Sockets
      /\ \A s \in Sockets : \A i \in DOMAIN wire'[s] : wire'[s][i].via = s
      /\ \A s \in Sockets : phase[s] # "open" \/ s \in S =>
            /\ wire'[s] = <<>> /\ replies'[s] = <<>>
            /\ subs'[s] = [c \in Channels |-> "none"]
  BY CutKeepsGate DEF Connect
<1>3. /\ queue' = <<>> /\ fallback' = NoSocket /\ established' = FALSE
      /\ UNCHANGED <<shown, held, pending, flushing, taken, doubted, sent>>
  BY DEF Connect, Ungated, transportVars
<1>4. /\ phase' \in [Sockets -> {"unmade", "connecting", "open", "closing", "closed"}]
      /\ \A s \in Sockets : phase'[s] # "open" => phase[s] # "open" \/ s \in S
      /\ \A s \in Sockets : phase'[s] = "unmade" <=> phase[s] = "unmade" /\ s # n
  <2>1. PICK x \in {"connecting", "closed"} : phase' = [Closing(S) EXCEPT ![n] = x]
    BY DEF Connect
  <2>2. \A s \in Sockets : phase'[s] = IF s = n THEN x ELSE IF s \in S THEN "closing" ELSE phase[s]
    BY <1>1, <2>1 DEF Closing
  <2>3. \A s \in S : phase[s] # "unmade"
    BY DEF GateInv, MadeInOrder, TypeOK, Sockets, NoSocket, TheCurrent
  <2> QED BY <1>1, <2>1, <2>2, <2>3 DEF TypeOK, Closing
<1>5. /\ current' \in {n, NoSocket}
      /\ react' \in Views
      /\ react'.state # "connected"
      /\ attempt' \in 0 .. MaxRetries /\ backoff' \in BOOLEAN
  <2>1. CASE current' = n /\ react' = [react EXCEPT !.state = "connecting"]
             /\ backoff' = armed /\ attempt' = tries
    <3>1. react' \in Views /\ react'.state = "connecting"
      BY <1>1, <2>1 DEF TypeOK, Views
    <3> QED BY <2>1, <3>1
  <2>2. CASE ref = NoSocket /\ current' = ref /\ ScheduleReconnect(tries, armed)
    BY <1>1, <2>2, ScheduleTyped
  <2> QED BY <2>1, <2>2 DEF Connect
<1>6. TypeOK'
  BY <1>1, <1>2, <1>3, <1>4, <1>5, EmptySeq DEF TypeOK
<1>7. Quiet'
  BY <1>2, <1>4 DEF Quiet
<1>8. MadeInOrder'
  BY <1>1, <1>4, <1>5, SocketAssumption DEF GateInv, MadeInOrder, TypeOK, Sockets, NoSocket
<1>9. current' = NoSocket \/ phase'[current'] # "open"
  <2>1. current' = n => phase'[n] = "connecting"
    <3>1. n # NoSocket
      BY <1>1 DEF Sockets, NoSocket
    <3>2. current' = n => phase' = [Closing(S) EXCEPT ![n] = "connecting"]
      BY <3>1 DEF Connect
    <3> QED BY <1>1, <3>2 DEF Closing
  <2> QED BY <1>5, <2>1
<1>10. InSession' /\ QueueGated' /\ WiresOwn' /\ ToldLate'
  BY <1>2, <1>3, <1>5, <1>9 DEF InSession, QueueGated, WiresOwn, ToldLate, CurrentIsOpen, Publishes
<1> QED BY <1>6, <1>7, <1>8, <1>9, <1>10 DEF GateInv

LEMMA BackoffFiresGate == GateInv /\ BackoffFires => GateInv' /\ (current' = NoSocket \/ phase'[current'] # "open")
<1> SUFFICES ASSUME GateInv, BackoffFires PROVE GateInv' /\ (current' = NoSocket \/ phase'[current'] # "open")
  OBVIOUS
<1>1. /\ {} \in SUBSET Sockets /\ {} \subseteq TheCurrent /\ attempt \in 0 .. MaxRetries
      /\ Connect({}, current, FALSE, attempt)
  BY DEF BackoffFires, GateInv, TypeOK
<1> QED BY <1>1, ConnectKeepsGate

LEMMA ReconnectGate == GateInv /\ Reconnect => GateInv' /\ (current' = NoSocket \/ phase'[current'] # "open")
<1> SUFFICES ASSUME GateInv, Reconnect PROVE GateInv' /\ (current' = NoSocket \/ phase'[current'] # "open")
  OBVIOUS
<1>1. /\ TheCurrent \in SUBSET Sockets /\ backoff \in BOOLEAN /\ 0 \in 0 .. MaxRetries
      /\ Connect(TheCurrent, NoSocket, backoff, 0)
  BY SocketAssumption DEF Reconnect, GateInv, TypeOK, TheCurrent
<1> QED BY <1>1, ConnectKeepsGate

LEMMA RerunGate == GateInv /\ Rerun => GateInv' /\ (current' = NoSocket \/ phase'[current'] # "open")
<1> SUFFICES ASSUME GateInv, Rerun PROVE GateInv' /\ (current' = NoSocket \/ phase'[current'] # "open")
  OBVIOUS
<1>1. /\ TheCurrent \in SUBSET Sockets /\ attempt \in 0 .. MaxRetries
      /\ Connect(TheCurrent, NoSocket, FALSE, attempt)
  BY DEF Rerun, GateInv, TypeOK, TheCurrent
<1> QED BY <1>1, ConnectKeepsGate

LEMMA DisconnectGate == GateInv /\ Disconnect => GateInv' /\ current' = NoSocket
<1> SUFFICES ASSUME GateInv, Disconnect PROVE GateInv' /\ current' = NoSocket
  OBVIOUS
<1>1. /\ wire' \in [Sockets -> Seq(Frames)] /\ replies' \in [Sockets -> Seq(Replies)]
      /\ subs' \in [Sockets -> [Channels -> {"none", "subscribed", "refused"}]]
      /\ greeted' \subseteq Sockets
      /\ \A s \in Sockets : \A i \in DOMAIN wire'[s] : wire'[s][i].via = s
      /\ \A s \in Sockets : phase[s] # "open" \/ s \in TheCurrent =>
            /\ wire'[s] = <<>> /\ replies'[s] = <<>>
            /\ subs'[s] = [c \in Channels |-> "none"]
  BY CutKeepsGate DEF Disconnect
<1>2. /\ current' = NoSocket /\ queue' = <<>> /\ fallback' = NoSocket /\ established' = FALSE
      /\ backoff' = FALSE /\ react' = [react EXCEPT !.state = "disconnected"]
      /\ UNCHANGED <<made, attempt, shown, held, pending, flushing, taken, doubted, sent>>
  BY DEF Disconnect, Ungated, transportVars
<1>3. /\ phase' \in [Sockets -> {"unmade", "connecting", "open", "closing", "closed"}]
      /\ \A s \in Sockets : phase'[s] # "open" => phase[s] # "open" \/ s \in TheCurrent
      /\ \A s \in Sockets : phase'[s] = "unmade" <=> phase[s] = "unmade"
  BY DEF GateInv, MadeInOrder, TypeOK, Disconnect, Closing, TheCurrent, NoSocket, Sockets
<1>4. TypeOK'
  <2>1. TypeOK /\ queue' \in Seq(Frames)
    BY <1>2, EmptySeq DEF GateInv
  <2>2. react' \in Views
    BY <1>2, <2>1 DEF TypeOK, Views
  <2> QED BY <1>1, <1>2, <1>3, <2>1, <2>2 DEF TypeOK
<1>5. Quiet' /\ MadeInOrder'
  BY <1>1, <1>2, <1>3 DEF GateInv, Quiet, MadeInOrder, TypeOK, Sockets, NoSocket
<1>6. InSession' /\ QueueGated' /\ WiresOwn' /\ ToldLate'
  BY <1>1, <1>2 DEF GateInv, TypeOK, InSession, QueueGated, WiresOwn, ToldLate, CurrentIsOpen, Publishes
<1> QED BY <1>2, <1>4, <1>5, <1>6 DEF GateInv

LEMMA SocketOpensGate == ASSUME NEW s \in Sockets, GateInv, SocketOpens(s) PROVE GateInv'
<1>1. /\ phase[s] = "connecting" /\ phase' = [phase EXCEPT ![s] = "open"]
      /\ fallback' = IF s = current THEN s ELSE fallback
      /\ s = current => shown = react
      /\ UNCHANGED <<made, current, established, queue, backoff, attempt, react, shown, held,
                     pending, flushing, taken, doubted, greeted, subs, replies, sent, wire>>
  BY DEF SocketOpens, transportVars, serverVars
<1>2. TypeOK /\ phase \in [Sockets -> {"unmade", "connecting", "open", "closing", "closed"}]
  BY DEF GateInv, TypeOK
<1>3. TypeOK'
  BY <1>1, <1>2 DEF TypeOK
<1>4. Quiet' /\ MadeInOrder' /\ WiresOwn'
  BY <1>1, <1>2 DEF GateInv, Quiet, MadeInOrder, WiresOwn
<1>5. CurrentIsOpen => CurrentIsOpen'
  BY <1>1, <1>2 DEF CurrentIsOpen
<1>6. InSession' /\ QueueGated'
  BY <1>1, <1>2, <1>5 DEF GateInv, InSession, QueueGated, CurrentIsOpen, NoSocket, Publishes, Sockets
<1>7. ToldLate'
  BY <1>1, <1>2 DEF GateInv, ToldLate, CurrentIsOpen
<1> QED BY <1>3, <1>4, <1>6, <1>7 DEF GateInv

LEMMA SocketClosesGate ==
  ASSUME NEW s \in Sockets, GateInv, SocketCloses(s)
  PROVE  GateInv' /\ (s = current => current' = NoSocket) /\ (s # current => current' = current)
<1>1. /\ wire' \in [Sockets -> Seq(Frames)] /\ replies' \in [Sockets -> Seq(Replies)]
      /\ subs' \in [Sockets -> [Channels -> {"none", "subscribed", "refused"}]]
      /\ greeted' \subseteq Sockets
      /\ \A t \in Sockets : \A i \in DOMAIN wire'[t] : wire'[t][i].via = t
      /\ \A t \in Sockets : phase[t] # "open" \/ t \in {s} =>
            /\ wire'[t] = <<>> /\ replies'[t] = <<>>
            /\ subs'[t] = [c \in Channels |-> "none"]
  BY CutKeepsGate DEF SocketCloses
<1>2. /\ TypeOK /\ phase[s] # "unmade" /\ phase' = [phase EXCEPT ![s] = "closed"]
      /\ UNCHANGED <<made, shown, held, pending, flushing, taken, doubted, sent>>
  BY DEF GateInv, SocketCloses, transportVars
<1>3. Quiet' /\ WiresOwn'
  BY <1>1, <1>2 DEF Quiet, WiresOwn, TypeOK
<1>4. CASE /\ s = current /\ current' = NoSocket
           /\ Ungated /\ ScheduleReconnect(attempt, backoff)
  <2>1. attempt \in 0 .. MaxRetries /\ backoff \in BOOLEAN /\ <<>> \in Seq(Frames)
    BY <1>2, EmptySeq DEF TypeOK
  <2>2. react' \in Views /\ react'.state # "connected" /\ attempt' \in 0 .. MaxRetries /\ backoff' \in BOOLEAN
    BY <1>2, <1>4, <2>1, ScheduleTyped
  <2>3. queue' = <<>> /\ fallback' = NoSocket /\ established' = FALSE
    BY <1>4 DEF Ungated
  <2>4. TypeOK'
    BY <1>1, <1>2, <1>4, <2>1, <2>2, <2>3 DEF TypeOK
  <2>5. MadeInOrder'
    BY <1>2, <1>4 DEF GateInv, MadeInOrder, TypeOK, Sockets, NoSocket
  <2>6. InSession' /\ QueueGated' /\ ToldLate'
    BY <1>4, <2>2, <2>3 DEF InSession, QueueGated, ToldLate, CurrentIsOpen, Publishes
  <2> QED BY <1>3, <1>4, <2>4, <2>5, <2>6 DEF GateInv
<1>5. CASE /\ s # current
           /\ UNCHANGED <<current, established, queue, fallback, backoff, attempt, react>>
  <2>1. TypeOK'
    BY <1>1, <1>2, <1>5 DEF TypeOK
  <2>2. CurrentIsOpen' <=> CurrentIsOpen
    BY <1>2, <1>5 DEF CurrentIsOpen, TypeOK
  <2>3. MadeInOrder'
    BY <1>2, <1>5 DEF GateInv, MadeInOrder, TypeOK
  <2>4. InSession' /\ QueueGated' /\ ToldLate'
    BY <1>2, <1>5, <2>2 DEF GateInv, InSession, QueueGated, ToldLate, Publishes
  <2> QED BY <1>3, <1>5, <2>1, <2>3, <2>4 DEF GateInv
<1> QED BY <1>4, <1>5 DEF SocketCloses

\* establishSession on the current socket, which is open.
LEMMA EstablishKeepsGate ==
  ASSUME GateInv, CurrentIsOpen, EstablishSession, UNCHANGED <<phase, current, shown>>
  PROVE  /\ established' \in BOOLEAN /\ fallback' \in Sockets \cup {NoSocket}
         /\ attempt' \in 0 .. MaxRetries /\ react' \in Views
         /\ queue' \in Seq(Frames) /\ wire' \in [Sockets -> Seq(Frames)]
         /\ InSession' /\ QueueGated' /\ WiresOwn' /\ ToldLate'
         /\ \A s \in Sockets : s # current => wire'[s] = wire[s]
<1>1. /\ TypeOK /\ current \in Sockets /\ wire[current] \in Seq(Frames) /\ queue \in Seq(Frames)
      /\ phase[current] = "open" /\ CurrentIsOpen'
  BY DEF GateInv, TypeOK, CurrentIsOpen
<1>2. CASE established /\ UNCHANGED <<established, fallback, attempt, react, queue, wire>>
  BY <1>1, <1>2 DEF GateInv, TypeOK, InSession, QueueGated, WiresOwn, ToldLate, Publishes, CurrentIsOpen
<1>3. CASE /\ ~established /\ established' = TRUE
           /\ fallback' = NoSocket /\ attempt' = 0
           /\ react' = [state |-> "connected", epoch |-> react.epoch + 1]
           /\ wire' = [wire EXCEPT ![current] = @ \o queue]
           /\ queue' = <<>>
  <2>1. /\ wire[current] \o queue \in Seq(Frames)
        /\ \A i \in DOMAIN (wire[current] \o queue) : (wire[current] \o queue)[i].via = current
    BY <1>1, ConcatProperties, LenProperties DEF GateInv, WiresOwn, QueueGated
  <2>2. react' \in Views /\ react'.state = "connected" /\ 0 \in 0 .. MaxRetries /\ <<>> \in Seq(Frames)
    BY <1>1, <1>3, EmptySeq, SocketAssumption DEF TypeOK, Views
  <2>3. WiresOwn' /\ wire' \in [Sockets -> Seq(Frames)]
    BY <1>1, <1>3, <2>1 DEF GateInv, TypeOK, WiresOwn
  <2>4. InSession' /\ QueueGated'
    BY <1>1, <1>3, <2>2 DEF InSession, QueueGated, Publishes
  <2>5. ToldLate'
    <3>1. react.state # "connected"
      BY <1>3 DEF GateInv, InSession
    <3>2. shown.state # "connected"
      BY <3>1 DEF GateInv, ToldLate
    <3> QED BY <3>2 DEF ToldLate
  <2> QED BY <1>1, <1>3, <2>2, <2>3, <2>4, <2>5 DEF TypeOK
<1> QED BY <1>2, <1>3 DEF EstablishSession

LEMMA FallbackFiresGate == GateInv /\ FallbackFires => GateInv'
<1> SUFFICES ASSUME GateInv, FallbackFires PROVE GateInv'
  OBVIOUS
<1>1. /\ TypeOK /\ CurrentIsOpen /\ EstablishSession
      /\ UNCHANGED <<phase, made, current, backoff, shown, held, pending, flushing, taken, doubted,
                     greeted, subs, replies, sent>>
  BY DEF FallbackFires, GateInv, InSession, transportVars, serverVars
<1>2. /\ established' \in BOOLEAN /\ fallback' \in Sockets \cup {NoSocket}
      /\ attempt' \in 0 .. MaxRetries /\ react' \in Views
      /\ queue' \in Seq(Frames) /\ wire' \in [Sockets -> Seq(Frames)]
      /\ InSession' /\ QueueGated' /\ WiresOwn' /\ ToldLate'
      /\ \A s \in Sockets : s # current => wire'[s] = wire[s]
  BY <1>1, EstablishKeepsGate
<1>3. TypeOK'
  BY <1>1, <1>2 DEF TypeOK
<1>4. Quiet' /\ MadeInOrder'
  BY <1>1, <1>2 DEF GateInv, Quiet, MadeInOrder, CurrentIsOpen
<1> QED BY <1>2, <1>3, <1>4 DEF GateInv

\* A step of the transport: at most a send, on sockets left as they are.
LEMMA TransportKeepsGate ==
  ASSUME GateInv, NEW fs, CurrentIsOpen => fs \in Seq(Frames),
         CurrentIsOpen => \A i \in DOMAIN fs : fs[i].via = current,
         CurrentIsOpen => established \/ Publishes(fs),
         Send(fs) \/ UNCHANGED <<queue, wire>>,
         UNCHANGED <<phase, made, current, established, fallback, backoff, attempt, react>>,
         UNCHANGED serverVars,
         shown' \in {shown, react}, held' \in [Channels -> Holds], pending' \subseteq Channels,
         flushing' \in BOOLEAN, taken' \in 0 .. MaxHolds, doubted' \subseteq Channels
  PROVE  GateInv'
<1>1. /\ TypeOK /\ Publishes(queue)
      /\ UNCHANGED <<phase, made, current, established, fallback, backoff, attempt, react,
                     greeted, subs, replies, sent>>
      /\ CurrentIsOpen' <=> CurrentIsOpen
  BY DEF GateInv, QueueGated, serverVars, CurrentIsOpen
<1>2. /\ queue' \in Seq(Frames)
      /\ wire' \in [Sockets -> Seq(Frames)]
      /\ queue' # <<>> => CurrentIsOpen /\ ~established
      /\ Publishes(queue')
      /\ \A i \in DOMAIN queue' : queue'[i].via = current
      /\ \A s \in Sockets : \A i \in DOMAIN wire'[s] : wire'[s][i].via = s
      /\ \A s \in Sockets : phase[s] # "open" => wire'[s] = wire[s]
  <2>1. CASE UNCHANGED <<queue, wire>>
    BY <1>1, <2>1 DEF GateInv, TypeOK, QueueGated, WiresOwn, Publishes
  <2>2. CASE Send(fs) /\ CurrentIsOpen
    BY <2>2, SendKeepsGate
  <2>3. CASE Send(fs) /\ ~CurrentIsOpen
    <3>1. UNCHANGED <<queue, wire>>
      BY <2>3 DEF Send
    <3> QED BY <2>1, <3>1
  <2> QED BY <2>1, <2>2, <2>3
<1>3. TypeOK'
  BY <1>1, <1>2 DEF TypeOK
<1>4. Quiet' /\ MadeInOrder' /\ WiresOwn'
  BY <1>1, <1>2 DEF GateInv, Quiet, MadeInOrder, WiresOwn
<1>5. InSession' /\ QueueGated' /\ ToldLate'
  BY <1>1, <1>2 DEF GateInv, InSession, QueueGated, ToldLate, Publishes
<1> QED BY <1>3, <1>4, <1>5 DEF GateInv

LEMMA PublishGate == ASSUME NEW c \in Channels, GateInv, Publish(c) PROVE GateInv'
<1> DEFINE fs == <<[action |-> "publish", of |-> c, via |-> current]>>
<1>1. TypeOK
  BY DEF GateInv
<1>2. CurrentIsOpen => fs \in Seq(Frames)
  <2>1. CurrentIsOpen => [action |-> "publish", of |-> c, via |-> current] \in Frames
    BY <1>1 DEF TypeOK, CurrentIsOpen, Frames
  <2> QED BY <2>1
<1>3. Publishes(fs) /\ \A i \in DOMAIN fs : fs[i].via = current
  BY DEF Publishes
<1>4. /\ Send(fs)
      /\ UNCHANGED <<phase, made, current, established, fallback, backoff, attempt, react>>
      /\ UNCHANGED serverVars
      /\ UNCHANGED <<shown, held, pending, flushing, taken, doubted>>
  BY DEF Publish, transportVars
<1>5. /\ shown' \in {shown, react} /\ held' \in [Channels -> Holds] /\ pending' \subseteq Channels
      /\ flushing' \in BOOLEAN /\ taken' \in 0 .. MaxHolds /\ doubted' \subseteq Channels
  BY <1>1, <1>4 DEF TypeOK
<1> HIDE DEF fs
<1> QED BY <1>2, <1>3, <1>4, <1>5, TransportKeepsGate

\* What hold sends, if it does: one subscribe, in a session.
LEMMA HoldSends ==
  ASSUME GateInv, NEW c \in Channels, Hold(c)
  PROVE  \/ UNCHANGED <<queue, wire>>
         \/ CanSubscribe(shown) /\ Send(FramesOf("subscribe", <<c>>)) /\ <<c>> \in Orders({c})
<1>1. <<c>> \in Orders({c})
  <2>1. Cardinality({c}) = 1
    BY FS_Singleton
  <2> QED BY <2>1 DEF Orders
<1> QED BY <1>1 DEF Hold

LEMMA HoldGate == ASSUME NEW c \in Channels, GateInv, Hold(c) PROVE GateInv'
<1>1. TypeOK
  BY DEF GateInv
<1>2. /\ UNCHANGED <<phase, made, current, established, fallback, backoff, attempt, react>>
      /\ UNCHANGED serverVars /\ UNCHANGED <<shown, flushing, doubted>>
      /\ pending' = pending \ {c} /\ taken' = taken + 1 /\ taken < MaxHolds
  BY DEF Hold
<1>3. held' \in [Channels -> Holds]
  <2>1. held[c] \in Holds /\ shown \in Views
    BY <1>1 DEF TypeOK
  <2>2. PICK n, s : /\ held' = [held EXCEPT ![c] = [count |-> @.count + 1, sentIn |-> n, state |-> s]]
                    /\ n \in {shown.epoch, held[c].sentIn, NoSession}
                    /\ s \in {"pending", held[c].state}
    BY DEF Hold
  <2>3. [count |-> held[c].count + 1, sentIn |-> n, state |-> s] \in Holds
    BY <2>1, <2>2 DEF Holds, Views, NoSession
  <2> QED BY <1>1, <2>2, <2>3 DEF TypeOK
<1>4. /\ shown' \in {shown, react} /\ pending' \subseteq Channels
      /\ flushing' \in BOOLEAN /\ taken' \in 0 .. MaxHolds /\ doubted' \subseteq Channels
  BY <1>1, <1>2, SocketAssumption DEF TypeOK
<1>5. CASE UNCHANGED <<queue, wire>>
  <2>1. <<>> \in Seq(Frames) /\ Publishes(<<>>) /\ \A i \in DOMAIN <<>> : <<>>[i].via = current
    BY EmptySeq DEF Publishes
  <2> QED BY <1>2, <1>3, <1>4, <1>5, <2>1, TransportKeepsGate
<1>6. CASE CanSubscribe(shown) /\ Send(FramesOf("subscribe", <<c>>)) /\ <<c>> \in Orders({c})
  <2>1. CurrentIsOpen => current \in Sockets /\ established
    BY <1>1, <1>6, SubscribesInSession DEF CurrentIsOpen, TypeOK
  <2>2. CurrentIsOpen => /\ FramesOf("subscribe", <<c>>) \in Seq(Frames)
                         /\ \A i \in DOMAIN FramesOf("subscribe", <<c>>) :
                               FramesOf("subscribe", <<c>>)[i].via = current
    BY <1>6, <2>1, FramesOfOrder
  <2> QED BY <1>2, <1>3, <1>4, <1>6, <2>1, <2>2, TransportKeepsGate
<1> QED BY <1>5, <1>6, HoldSends

LEMMA ReleaseGate == ASSUME NEW c \in Channels, GateInv, Release(c) PROVE GateInv'
<1>1. TypeOK
  BY DEF GateInv
<1>2. /\ UNCHANGED <<phase, made, current, established, fallback, backoff, attempt, react>>
      /\ UNCHANGED serverVars /\ UNCHANGED <<shown, taken, doubted, queue, wire>>
  BY DEF Release, socketVars
<1>3. held' \in [Channels -> Holds]
  <2>1. held' = [held EXCEPT ![c].count = @ - 1] /\ held[c] \in Holds /\ held[c].count > 0
    BY <1>1 DEF TypeOK, Release
  <2>2. held[c].count - 1 \in Nat
    BY <2>1 DEF Holds
  <2> QED BY <1>1, <2>1, <2>2 DEF TypeOK, Holds
<1>4. /\ shown' \in {shown, react} /\ pending' \subseteq Channels
      /\ flushing' \in BOOLEAN /\ taken' \in 0 .. MaxHolds /\ doubted' \subseteq Channels
  BY <1>1, <1>2 DEF TypeOK, Release
<1>5. <<>> \in Seq(Frames) /\ Publishes(<<>>) /\ \A i \in DOMAIN <<>> : <<>>[i].via = current
  BY EmptySeq DEF Publishes
<1> QED BY <1>2, <1>3, <1>4, <1>5, TransportKeepsGate

\* What a flush leaves, in a session.
Gone == {c \in pending : InMap(c) /\ held[c].count = 0}
Left == {c \in Gone : held[c].sentIn = shown.epoch /\ CanSubscribe(shown)}

LEMMA FlushSends ==
  ASSUME GateInv, Flush
  PROVE  /\ held' = [c \in Channels |-> IF c \in Gone THEN Unheld ELSE held[c]]
         /\ Gone \in SUBSET Channels /\ Left \in SUBSET Gone
         /\ \E order \in Orders(Left) : Send(FramesOf("unsubscribe", order))
         /\ Left # {} /\ CurrentIsOpen => established
<1>1. Gone \in SUBSET Channels
  BY DEF Gone, GateInv, TypeOK
<1>2. Left # {} /\ CurrentIsOpen => established
  BY SubscribesInSession DEF Left
<1> QED BY <1>1, <1>2 DEF Flush, Gone, Left

LEMMA FlushGate == GateInv /\ Flush => GateInv'
<1> SUFFICES ASSUME GateInv, Flush PROVE GateInv'
  OBVIOUS
<1>1. TypeOK
  BY DEF GateInv
<1>2. /\ UNCHANGED <<phase, made, current, established, fallback, backoff, attempt, react>>
      /\ UNCHANGED serverVars /\ UNCHANGED <<shown, taken>>
      /\ pending' = {} /\ flushing' = FALSE /\ doubted' \subseteq doubted
  BY DEF Flush
<1>3. /\ held' = [c \in Channels |-> IF c \in Gone THEN Unheld ELSE held[c]]
      /\ Left \in SUBSET Channels
      /\ Left # {} /\ CurrentIsOpen => established
  BY FlushSends
<1>4. held' \in [Channels -> Holds]
  <2>1. Unheld \in Holds
    BY DEF Unheld, Holds, NoSession
  <2> QED BY <1>1, <1>3, <2>1 DEF TypeOK
<1>5. /\ shown' \in {shown, react} /\ pending' \subseteq Channels
      /\ flushing' \in BOOLEAN /\ taken' \in 0 .. MaxHolds /\ doubted' \subseteq Channels
  BY <1>1, <1>2 DEF TypeOK
<1>6. PICK order \in Orders(Left) : Send(FramesOf("unsubscribe", order))
  BY FlushSends
<1> DEFINE fs == FramesOf("unsubscribe", order)
<1>7. CurrentIsOpen => current \in Sockets
  BY <1>1 DEF CurrentIsOpen, TypeOK
<1>8. CurrentIsOpen => /\ fs \in Seq(Frames)
                       /\ \A i \in DOMAIN fs : fs[i].via = current
                       /\ established \/ Publishes(fs)
  <2>1. CurrentIsOpen => /\ fs \in Seq(Frames)
                         /\ \A i \in DOMAIN fs : fs[i].via = current
    BY <1>3, <1>6, <1>7, FramesOfOrder
  <2>2. Left = {} => Publishes(fs)
    <3>1. Left = {} => DOMAIN order = 1 .. 0
      BY <1>6, FS_EmptySet DEF Orders
    <3> QED BY <3>1 DEF Publishes, FramesOf
  <2> QED BY <1>3, <2>1, <2>2
<1> HIDE DEF fs
<1>9. Send(fs)
  BY <1>6 DEF fs
<1> QED BY <1>2, <1>4, <1>5, <1>8, <1>9, TransportKeepsGate

\* What a commit makes of the holds, and asks for.
Now(c) == Rebound(c, react.epoch)
Ask == {c \in Channels : Now(c).count > 0 /\ Now(c).sentIn # react.epoch /\ CanSubscribe(react)}

LEMMA CommitSends ==
  ASSUME GateInv, Commit
  PROVE  /\ held' = [c \in Channels |-> IF c \in Ask
                                        THEN [Now(c) EXCEPT !.sentIn = react.epoch, !.state = "pending"]
                                        ELSE Now(c)]
         /\ \A c \in Channels : Now(c) \in Holds /\ Now(c).count = held[c].count
         /\ \E order \in Orders(Ask) : Send(FramesOf("subscribe", order))
         /\ Ask # {} /\ CurrentIsOpen => established
<1>1. ASSUME NEW c \in Channels PROVE Now(c) \in Holds /\ Now(c).count = held[c].count
  <2>1. held[c] \in Holds
    BY DEF GateInv, TypeOK
  <2>2. CASE react.epoch = shown.epoch
    BY <2>1, <2>2 DEF Now, Rebound
  <2>3. CASE react.epoch # shown.epoch /\ held[c].count = 0
    BY <2>1, <2>3 DEF Now, Rebound, Unheld, Holds, NoSession
  <2>4. CASE react.epoch # shown.epoch /\ held[c].count # 0
    BY <2>1, <2>4 DEF Now, Rebound, Holds, NoSession
  <2> QED BY <2>2, <2>3, <2>4
<1>2. Ask # {} /\ CurrentIsOpen => established
  BY SubscribesInSession DEF Ask
<1> QED BY <1>1, <1>2 DEF Commit, Ask, Now

LEMMA CommitGate == GateInv /\ Commit => GateInv'
<1> SUFFICES ASSUME GateInv, Commit PROVE GateInv'
  OBVIOUS
<1>1. TypeOK
  BY DEF GateInv
<1>2. /\ UNCHANGED <<phase, made, current, established, fallback, backoff, attempt, react>>
      /\ UNCHANGED serverVars /\ UNCHANGED <<flushing, taken>>
      /\ shown' = react /\ pending' \subseteq pending /\ doubted' \subseteq doubted
  BY DEF Commit
<1>3. /\ held' = [c \in Channels |-> IF c \in Ask
                                     THEN [Now(c) EXCEPT !.sentIn = react.epoch, !.state = "pending"]
                                     ELSE Now(c)]
      /\ \A c \in Channels : Now(c) \in Holds
      /\ Ask \in SUBSET Channels
      /\ Ask # {} /\ CurrentIsOpen => established
  BY CommitSends DEF Ask
<1>4. held' \in [Channels -> Holds]
  <2>1. react.epoch \in Nat
    BY <1>1 DEF TypeOK, Views
  <2>2. \A c \in Channels : [Now(c) EXCEPT !.sentIn = react.epoch, !.state = "pending"] \in Holds
    BY <1>3, <2>1 DEF Holds
  <2> QED BY <1>3, <2>2
<1>5. /\ shown' \in {shown, react} /\ pending' \subseteq Channels
      /\ flushing' \in BOOLEAN /\ taken' \in 0 .. MaxHolds /\ doubted' \subseteq Channels
  BY <1>1, <1>2 DEF TypeOK
<1>6. PICK order \in Orders(Ask) : Send(FramesOf("subscribe", order))
  BY CommitSends
<1> DEFINE fs == FramesOf("subscribe", order)
<1>7. CurrentIsOpen => current \in Sockets
  BY <1>1 DEF CurrentIsOpen, TypeOK
<1>8. CurrentIsOpen => /\ fs \in Seq(Frames)
                       /\ \A i \in DOMAIN fs : fs[i].via = current
                       /\ established \/ Publishes(fs)
  <2>1. CurrentIsOpen => /\ fs \in Seq(Frames)
                         /\ \A i \in DOMAIN fs : fs[i].via = current
    BY <1>3, <1>6, <1>7, FramesOfOrder
  <2>2. Ask = {} => Publishes(fs)
    <3>1. Ask = {} => DOMAIN order = 1 .. 0
      BY <1>6, FS_EmptySet DEF Orders
    <3> QED BY <3>1 DEF Publishes, FramesOf
  <2> QED BY <1>3, <2>1, <2>2
<1> HIDE DEF fs
<1>9. Send(fs)
  BY <1>6 DEF fs
<1> QED BY <1>2, <1>4, <1>5, <1>8, <1>9, TransportKeepsGate

LEMMA GreetGate == ASSUME NEW s \in Sockets, GateInv, Greet(s) PROVE GateInv'
<1>1. TypeOK
  BY DEF GateInv
<1>2. /\ UNCHANGED <<phase, made, current, established, queue, fallback, backoff, attempt, react,
                     shown, held, pending, flushing, taken, doubted, subs, sent, wire>>
      /\ phase[s] = "open" /\ greeted' = greeted \cup {s}
      /\ replies' = [replies EXCEPT ![s] = Append(@, [kind |-> "session"])]
  BY DEF Greet, socketVars, transportVars
<1>3. TypeOK'
  <2>1. Append(replies[s], [kind |-> "session"]) \in Seq(Replies)
    BY <1>1 DEF TypeOK, Replies
  <2> QED BY <1>1, <1>2, <2>1 DEF TypeOK
<1>4. Quiet' /\ MadeInOrder' /\ InSession' /\ QueueGated' /\ WiresOwn' /\ ToldLate'
  BY <1>1, <1>2
  DEF GateInv, TypeOK, Quiet, MadeInOrder, InSession, QueueGated, WiresOwn, ToldLate, CurrentIsOpen, Publishes
<1> QED BY <1>3, <1>4 DEF GateInv

\* The answers a frame may have.
LEMMA ServeGate == ASSUME NEW s \in Sockets, GateInv, Serve(s) PROVE GateInv'
<1>1. TypeOK /\ wire[s] \in Seq(Frames) /\ replies[s] \in Seq(Replies)
  BY DEF GateInv, TypeOK
<1>2. /\ UNCHANGED <<phase, made, current, established, queue, fallback, backoff, attempt, react,
                     shown, held, pending, flushing, taken, doubted, sent, greeted>>
      /\ phase[s] = "open" /\ wire[s] # <<>>
      /\ wire' = [wire EXCEPT ![s] = Tail(@)]
  BY DEF Serve, socketVars, transportVars
<1>3. /\ Head(wire[s]) \in Frames /\ Tail(wire[s]) \in Seq(Frames)
      /\ Len(Tail(wire[s])) = Len(wire[s]) - 1 /\ Len(wire[s]) \in Nat
      /\ \A i \in 1 .. Len(Tail(wire[s])) : Tail(wire[s])[i] = wire[s][i + 1]
      /\ DOMAIN wire[s] = 1 .. Len(wire[s]) /\ DOMAIN Tail(wire[s]) = 1 .. Len(Tail(wire[s]))
  BY <1>1, <1>2, HeadTailProperties, LenProperties
<1>4. /\ subs' \in [Sockets -> [Channels -> {"none", "subscribed", "refused"}]]
      /\ replies' \in [Sockets -> Seq(Replies)]
      /\ \A t \in Sockets : t # s => subs'[t] = subs[t] /\ replies'[t] = replies[t]
  <2>1. Head(wire[s]).of \in Channels
    BY <1>3 DEF Frames
  <2>2. CASE \E answer \in Answers :
               /\ subs' = [subs EXCEPT ![s][Head(wire[s]).of] = answer]
               /\ replies' = [replies EXCEPT ![s] =
                                Append(@, [kind |-> answer, of |-> Head(wire[s]).of])]
    <3>1. PICK answer \in Answers :
               /\ subs' = [subs EXCEPT ![s][Head(wire[s]).of] = answer]
               /\ replies' = [replies EXCEPT ![s] =
                                Append(@, [kind |-> answer, of |-> Head(wire[s]).of])]
      BY <2>2
    <3>2. Append(replies[s], [kind |-> answer, of |-> Head(wire[s]).of]) \in Seq(Replies)
      BY <1>1, <2>1, <3>1 DEF Answers, Replies
    <3> QED BY <1>1, <2>1, <3>1, <3>2 DEF TypeOK, Answers
  <2>3. CASE subs' = [subs EXCEPT ![s][Head(wire[s]).of] = "none"] /\ UNCHANGED replies
    BY <1>1, <2>1, <2>3 DEF TypeOK
  <2>4. CASE UNCHANGED <<subs, replies>>
    BY <1>1, <2>4 DEF TypeOK
  <2> QED BY <2>2, <2>3, <2>4 DEF Serve
<1>5. TypeOK'
  BY <1>1, <1>2, <1>3, <1>4 DEF TypeOK
<1>6. WiresOwn'
  BY <1>1, <1>2, <1>3 DEF GateInv, WiresOwn, TypeOK
<1>7. Quiet'
  BY <1>1, <1>2, <1>4 DEF GateInv, Quiet, TypeOK
<1>8. MadeInOrder' /\ InSession' /\ QueueGated' /\ ToldLate'
  BY <1>2 DEF GateInv, MadeInOrder, InSession, QueueGated, ToldLate, CurrentIsOpen, Publishes
<1> QED BY <1>5, <1>6, <1>7, <1>8 DEF GateInv

LEMMA EmitGate == ASSUME NEW c \in Channels, GateInv, Emit(c) PROVE GateInv'
<1>1. TypeOK
  BY DEF GateInv
<1>2. /\ UNCHANGED <<phase, made, current, established, queue, fallback, backoff, attempt, react,
                     shown, held, pending, flushing, taken, doubted, subs, greeted, wire>>
      /\ sent[c] < MaxFrames /\ sent' = [sent EXCEPT ![c] = @ + 1]
      /\ replies' = [s \in Sockets |->
                        IF phase[s] = "open" /\ subs[s][c] = "subscribed"
                        THEN Append(replies[s], [kind |-> "frame", of |-> c]) ELSE replies[s]]
  BY DEF Emit, socketVars, transportVars
<1>3. \A s \in Sockets : Append(replies[s], [kind |-> "frame", of |-> c]) \in Seq(Replies)
  <2>1. [kind |-> "frame", of |-> c] \in Replies
    BY DEF Replies
  <2> QED BY <1>1, <2>1 DEF TypeOK
<1>4. sent[c] + 1 \in 0 .. MaxFrames
  BY <1>1, <1>2, SocketAssumption DEF TypeOK
<1>5. TypeOK'
  BY <1>1, <1>2, <1>3, <1>4 DEF TypeOK
<1>6. Quiet' /\ MadeInOrder' /\ InSession' /\ QueueGated' /\ WiresOwn' /\ ToldLate'
  BY <1>1, <1>2
  DEF GateInv, TypeOK, Quiet, MadeInOrder, InSession, QueueGated, WiresOwn, ToldLate, CurrentIsOpen, Publishes
<1> QED BY <1>5, <1>6 DEF GateInv

\* What is received arrives on the current socket, which is open.
LEMMA ReceivedOnOpen ==
  ASSUME NEW s \in Sockets, GateInv, Receive(s)
  PROVE  s = current /\ CurrentIsOpen /\ replies[s] \in Seq(Replies) /\ replies[s] # <<>>
         /\ Head(replies[s]) \in Replies /\ Tail(replies[s]) \in Seq(Replies)
         /\ replies' = [replies EXCEPT ![s] = Tail(@)]
<1>1. s = current /\ replies[s] # <<>> /\ replies' = [replies EXCEPT ![s] = Tail(@)]
  BY DEF Receive
<1>2. phase[s] = "open" /\ replies[s] \in Seq(Replies)
  BY <1>1 DEF GateInv, Quiet, TypeOK
<1>3. Head(replies[s]) \in Replies /\ Tail(replies[s]) \in Seq(Replies)
  BY <1>1, <1>2, HeadTailProperties
<1> QED BY <1>1, <1>2, <1>3 DEF CurrentIsOpen, Sockets, NoSocket

LEMMA ReceiveGate == ASSUME NEW s \in Sockets, GateInv, Receive(s) PROVE GateInv'
<1>1. /\ TypeOK /\ s = current /\ CurrentIsOpen
      /\ Head(replies[s]) \in Replies /\ Tail(replies[s]) \in Seq(Replies)
      /\ replies' = [replies EXCEPT ![s] = Tail(@)]
      /\ UNCHANGED <<phase, made, current, backoff, shown, pending, flushing, taken, greeted, subs, sent>>
  BY ReceivedOnOpen DEF GateInv, Receive
<1> DEFINE m == Head(replies[s])
<1>2. phase[s] = "open"
  BY <1>1 DEF CurrentIsOpen
<1>3. CASE m.kind = "session" /\ EstablishSession /\ UNCHANGED <<held, doubted>>
  <2>1. /\ established' \in BOOLEAN /\ fallback' \in Sockets \cup {NoSocket}
        /\ attempt' \in 0 .. MaxRetries /\ react' \in Views
        /\ queue' \in Seq(Frames) /\ wire' \in [Sockets -> Seq(Frames)]
        /\ InSession' /\ QueueGated' /\ WiresOwn' /\ ToldLate'
        /\ \A t \in Sockets : t # current => wire'[t] = wire[t]
    BY <1>1, <1>3, EstablishKeepsGate
  <2>2. TypeOK'
    BY <1>1, <1>3, <2>1 DEF TypeOK
  <2>3. Quiet' /\ MadeInOrder'
    BY <1>1, <1>2, <2>1 DEF GateInv, Quiet, MadeInOrder, TypeOK
  <2> QED BY <2>1, <2>2, <2>3 DEF GateInv
<1>4. CASE m.kind # "session" /\ Track(s, m) /\ UNCHANGED <<established, fallback, attempt, react, queue, wire>>
  <2>1. held' \in [Channels -> Holds] /\ doubted' \subseteq Channels
    <3>1. m.of \in Channels
      BY <1>1, <1>4 DEF Replies
    <3>2. CASE m.kind \in Answers /\ held[m.of].count > 0
      <4> HIDE DEF m
      <4>1. /\ held' = [held EXCEPT ![m.of].state = m.kind] /\ m.kind \in {"subscribed", "refused"}
            /\ doubted' \subseteq doubted \cup {m.of}
        BY <1>4, <3>2 DEF Track, Answers
      <4>2. [held[m.of] EXCEPT !.state = m.kind] \in Holds
        BY <1>1, <3>1, <4>1 DEF TypeOK, Holds
      <4> QED BY <1>1, <3>1, <4>1, <4>2 DEF TypeOK
    <3>3. CASE ~(m.kind \in Answers /\ held[m.of].count > 0)
      BY <1>1, <1>4, <3>3 DEF Track, TypeOK
    <3> QED BY <3>2, <3>3
  <2>2. TypeOK'
    BY <1>1, <1>4, <2>1 DEF TypeOK
  <2>3. Quiet' /\ MadeInOrder' /\ InSession' /\ QueueGated' /\ WiresOwn' /\ ToldLate'
    BY <1>1, <1>2, <1>4
    DEF GateInv, TypeOK, Quiet, MadeInOrder, InSession, QueueGated, WiresOwn, ToldLate, CurrentIsOpen, Publishes
  <2> QED BY <2>2, <2>3 DEF GateInv
<1> QED BY <1>3, <1>4 DEF Receive

LEMMA GateStep == GateInv /\ [Next]_vars => GateInv'
<1> SUFFICES ASSUME GateInv, [Next]_vars PROVE GateInv'
  OBVIOUS
<1>1. CASE BackoffFires \/ Reconnect \/ Rerun \/ Disconnect \/ FallbackFires
  BY <1>1, BackoffFiresGate, ReconnectGate, RerunGate, DisconnectGate, FallbackFiresGate
<1>2. ASSUME NEW s \in Sockets,
             SocketOpens(s) \/ SocketCloses(s) \/ Greet(s) \/ Serve(s) \/ Receive(s)
      PROVE  GateInv'
  BY <1>2, SocketOpensGate, SocketClosesGate, GreetGate, ServeGate, ReceiveGate
<1>3. CASE Flush \/ Commit
  BY <1>3, FlushGate, CommitGate
<1>4. ASSUME NEW c \in Channels, Hold(c) \/ Release(c) \/ Emit(c) \/ Publish(c)
      PROVE  GateInv'
  BY <1>4, HoldGate, ReleaseGate, EmitGate, PublishGate
<1>5. CASE UNCHANGED vars
  BY <1>5 DEF vars, socketVars, transportVars, serverVars, GateInv, TypeOK, Quiet, MadeInOrder,
     InSession, QueueGated, WiresOwn, ToldLate, CurrentIsOpen, Publishes
<1> QED BY <1>1, <1>2, <1>3, <1>4, <1>5 DEF Next, SocketNext, TransportNext, ServerNext

\* The queue before a session belongs to the current socket and holds no
\* subscription; every variable keeps its type.
THEOREM Gated == Spec => []GateInv
<1>1. Init => GateInv
  BY GateInit
<1>2. GateInv /\ [Next]_vars => GateInv'
  BY GateStep
<1> QED BY <1>1, <1>2, PTL DEF Spec

\* A frame goes out on the socket it was sent on, or never.
THEOREM FramesStay == Spec => []FramesStayOnTheirSocket
<1>1. GateInv => FramesStayOnTheirSocket
  BY DEF GateInv, QueueGated, WiresOwn, FramesStayOnTheirSocket
<1> QED BY <1>1, Gated, PTL

-----------------------------------------------------------------------------
(* The promise                                                             *)

\* What waits in the queue asks for nothing.
LEMMA AskedOnWire ==
  ASSUME GateInv
  PROVE  Asked = IF current = NoSocket THEN {}
                 ELSE {c \in Channels : AskedBy(wire[current], subs[current][c], c)}
<1>1. CASE current # NoSocket
  <2>1. wire[current] \in Seq(Frames) /\ queue \in Seq(Frames) /\ Publishes(queue)
    BY <1>1 DEF GateInv, TypeOK, QueueGated
  <2>2. \A c : AskedBy(wire[current] \o queue, subs[current][c], c)
                  <=> AskedBy(wire[current], subs[current][c], c)
    BY <2>1, AskedAfterPublishes
  <2> QED BY <1>1, <2>2 DEF Asked
<1> QED BY <1>1 DEF Asked

LEMMA AskedOnWireNext ==
  ASSUME GateInv'
  PROVE  Asked' = IF current' = NoSocket THEN {}
                  ELSE {c \in Channels : AskedBy(wire'[current'], subs'[current'][c], c)}
<1>1. CASE current' # NoSocket
  <2>1. wire'[current'] \in Seq(Frames) /\ queue' \in Seq(Frames) /\ Publishes(queue')
    BY <1>1 DEF GateInv, TypeOK, QueueGated, Publishes
  <2>2. \A c : AskedBy(wire'[current'] \o queue', subs'[current'][c], c)
                  <=> AskedBy(wire'[current'], subs'[current'][c], c)
    BY <2>1, AskedAfterPublishes
  <2> QED BY <1>1, <2>2 DEF Asked
<1> QED BY <1>1 DEF Asked

\* Another socket has been asked for nothing, and so has none.
LEMMA LostStep ==
  ASSUME GateInv, GateInv', current' = NoSocket \/ phase'[current'] # "open", UNCHANGED held,
         current' = NoSocket \/ current' # current
  PROVE  Shared!Lose \/ UNCHANGED Shared!vars
<1>1. Wanted' = Wanted
  BY DEF Wanted
<1>2. Asked' = {}
  <2>1. CASE current' # NoSocket
    <3>1. wire'[current'] = <<>> /\ subs'[current'] = [c \in Channels |-> "none"]
      BY <2>1 DEF GateInv, TypeOK, Quiet
    <3>2. \A c : About(c, <<>>) = {}
      BY DEF About
    <3>3. \A c \in Channels : ~AskedBy(wire'[current'], subs'[current'][c], c)
      BY <3>1, <3>2 DEF AskedBy
    <3> QED BY <2>1, <3>3, AskedOnWireNext
  <2> QED BY <2>1, AskedOnWireNext
<1>3. CASE current' # current
  BY <1>1, <1>2, <1>3 DEF Shared!Lose
<1>4. CASE current' = current
  <2>1. Asked = {}
    BY <1>4 DEF Asked
  <2> QED BY <1>1, <1>2, <1>4, <2>1 DEF Shared!vars
<1> QED BY <1>3, <1>4

\* Whatever the queue and other sockets do, as long as the wire says the same.
LEMMA SameStep ==
  ASSUME GateInv, GateInv', UNCHANGED current, Wanted' = Wanted,
         current # NoSocket => \A c \in Channels :
             AskedBy(wire'[current], subs'[current][c], c) <=> AskedBy(wire[current], subs[current][c], c)
  PROVE  UNCHANGED Shared!vars
<1>1. Asked' = Asked
  <2>1. CASE current = NoSocket
    BY <2>1, AskedOnWire, AskedOnWireNext
  <2>2. CASE current # NoSocket
    BY <2>2, AskedOnWire, AskedOnWireNext
  <2> QED BY <2>1, <2>2
<1> QED BY <1>1 DEF Shared!vars

\* What a send of subscribes, or of unsubscribes, in a session does.
LEMMA SubscribesAsk ==
  ASSUME GateInv, GateInv', UNCHANGED <<current, subs>>, NEW S \in SUBSET Channels,
         NEW order \in Orders(S), Send(FramesOf("subscribe", order)),
         S # {} /\ CurrentIsOpen => established
  PROVE  Asked' \in {Asked, Asked \cup S}
<1>1. CASE UNCHANGED wire
  BY <1>1, AskedOnWire, AskedOnWireNext
<1>2. CASE /\ CurrentIsOpen /\ established
           /\ wire' = [wire EXCEPT ![current] = @ \o FramesOf("subscribe", order)]
  <2>1. /\ current \in Sockets /\ current # NoSocket /\ wire[current] \in Seq(Frames)
        /\ wire'[current] = wire[current] \o FramesOf("subscribe", order)
    BY <1>2 DEF GateInv, TypeOK, CurrentIsOpen
  <2>2. \A c : AskedBy(wire'[current], subs[current][c], c)
                  <=> AskedBy(wire[current], subs[current][c], c) \/ c \in S
    BY <2>1, AskedAfterSubscribes
  <2>3. Asked' = Asked \cup S
    BY <2>1, <2>2, AskedOnWire, AskedOnWireNext
  <2> QED BY <2>3
<1> QED BY <1>1, <1>2 DEF Send

LEMMA UnsubscribesLeave ==
  ASSUME GateInv, GateInv', UNCHANGED <<current, subs>>, NEW S \in SUBSET Channels,
         NEW order \in Orders(S), Send(FramesOf("unsubscribe", order)),
         S # {} /\ CurrentIsOpen => established
  PROVE  Asked' \in {Asked, Asked \ S}
<1>1. CASE UNCHANGED wire
  BY <1>1, AskedOnWire, AskedOnWireNext
<1>2. CASE /\ CurrentIsOpen /\ established
           /\ wire' = [wire EXCEPT ![current] = @ \o FramesOf("unsubscribe", order)]
  <2>1. /\ current \in Sockets /\ current # NoSocket /\ wire[current] \in Seq(Frames)
        /\ wire'[current] = wire[current] \o FramesOf("unsubscribe", order)
    BY <1>2 DEF GateInv, TypeOK, CurrentIsOpen
  <2>2. \A c : AskedBy(wire'[current], subs[current][c], c)
                  <=> AskedBy(wire[current], subs[current][c], c) /\ c \notin S
    BY <2>1, AskedAfterUnsubscribes
  <2>3. Asked' = Asked \ S
    BY <2>1, <2>2, AskedOnWire, AskedOnWireNext
  <2> QED BY <2>3
<1> QED BY <1>1, <1>2 DEF Send

LEMMA HoldKeepsPromise ==
  ASSUME GateInv, GateInv', NEW c \in Channels, Hold(c)
  PROVE  Shared!Hold(c)
<1>1. UNCHANGED <<current, subs>>
  BY DEF Hold, serverVars
<1>2. Wanted' = Wanted \cup {c}
  <2>1. held[c] \in Holds /\ held \in [Channels -> Holds]
    BY DEF GateInv, TypeOK
  <2>2. PICK n, s : held' = [held EXCEPT ![c] = [count |-> @.count + 1, sentIn |-> n, state |-> s]]
    BY DEF Hold
  <2>3. /\ held'[c].count = held[c].count + 1 /\ held[c].count \in Nat
        /\ \A d \in Channels : d # c => held'[d] = held[d]
    BY <2>1, <2>2 DEF Holds
  <2> QED BY <2>3 DEF Wanted
<1>3. Asked' \in {Asked, Asked \cup {c}}
  <2>1. CASE UNCHANGED <<queue, wire>>
    BY <1>1, <2>1, AskedOnWire, AskedOnWireNext
  <2>2. CASE CanSubscribe(shown) /\ Send(FramesOf("subscribe", <<c>>)) /\ <<c>> \in Orders({c})
    <3>1. CurrentIsOpen => established
      BY <2>2, SubscribesInSession
    <3> QED BY <1>1, <2>2, <3>1, SubscribesAsk
  <2> QED BY <2>1, <2>2, HoldSends
<1> QED BY <1>1, <1>2, <1>3 DEF Shared!Hold

LEMMA ReleaseKeepsPromise ==
  ASSUME GateInv, GateInv', NEW c \in Channels, Release(c)
  PROVE  Shared!Release(c) \/ UNCHANGED Shared!vars
<1>1. /\ held' = [held EXCEPT ![c].count = @ - 1] /\ held \in [Channels -> Holds]
      /\ held[c].count \in Nat /\ held[c].count > 0
      /\ UNCHANGED <<current, subs, wire, queue>>
  BY DEF Release, GateInv, TypeOK, Holds, socketVars, serverVars
<1>2. Asked' = Asked
  BY <1>1 DEF Asked
<1>3. /\ held'[c].count = held[c].count - 1
      /\ \A d \in Channels : d # c => held'[d] = held[d]
  BY <1>1 DEF Holds
<1>4. CASE held[c].count = 1
  <2>1. Wanted' = Wanted \ {c}
    BY <1>3, <1>4 DEF Wanted
  <2> QED BY <1>1, <1>2, <2>1 DEF Shared!Release
<1>5. CASE held[c].count > 1
  <2>1. Wanted' = Wanted
    BY <1>1, <1>3, <1>5 DEF Wanted
  <2> QED BY <1>1, <1>2, <2>1 DEF Shared!vars
<1> QED BY <1>1, <1>4, <1>5

LEMMA FlushKeepsPromise ==
  ASSUME GateInv, GateInv', Flush
  PROVE  \E S \in SUBSET Channels : Shared!Leave(S) \/ UNCHANGED Shared!vars
<1>1. /\ held' = [c \in Channels |-> IF c \in Gone THEN Unheld ELSE held[c]]
      /\ Gone \in SUBSET Channels /\ Left \in SUBSET Gone
      /\ \E order \in Orders(Left) : Send(FramesOf("unsubscribe", order))
      /\ Left # {} /\ CurrentIsOpen => established
  BY FlushSends
<1>2. UNCHANGED <<current, subs>>
  BY DEF Flush, serverVars
<1>3. Wanted' = Wanted /\ Left \cap Wanted = {}
  BY <1>1 DEF Wanted, Gone, Left, Unheld
<1>4. Left \in SUBSET Channels /\ Asked' \in {Asked, Asked \ Left}
  BY <1>1, <1>2, UnsubscribesLeave
<1> QED BY <1>2, <1>3, <1>4 DEF Shared!Leave, Shared!vars

LEMMA CommitKeepsPromise ==
  ASSUME GateInv, GateInv', Commit
  PROVE  \E S \in SUBSET Channels : Shared!Ask(S) \/ UNCHANGED Shared!vars
<1>1. /\ held' = [c \in Channels |-> IF c \in Ask
                                     THEN [Now(c) EXCEPT !.sentIn = react.epoch, !.state = "pending"]
                                     ELSE Now(c)]
      /\ \A c \in Channels : Now(c) \in Holds /\ Now(c).count = held[c].count
      /\ \E order \in Orders(Ask) : Send(FramesOf("subscribe", order))
      /\ Ask # {} /\ CurrentIsOpen => established
  BY CommitSends
<1>2. UNCHANGED <<current, subs>>
  BY DEF Commit, serverVars
<1>3. Wanted' = Wanted
  <2>1. \A c \in Channels : held'[c].count = held[c].count
    BY <1>1 DEF Holds
  <2> QED BY <2>1 DEF Wanted
<1>4. Ask \in SUBSET Channels /\ Ask \subseteq Wanted
  BY <1>1 DEF Ask, Wanted
<1>5. Asked' \in {Asked, Asked \cup Ask}
  BY <1>1, <1>2, <1>4, SubscribesAsk
<1> QED BY <1>2, <1>3, <1>4, <1>5 DEF Shared!Ask, Shared!vars

LEMMA ServeKeepsPromise ==
  ASSUME GateInv, GateInv', NEW s \in Sockets, Serve(s)
  PROVE  UNCHANGED Shared!vars
<1> DEFINE f == Head(wire[s])
<1>1. /\ wire[s] \in Seq(Frames) /\ wire[s] # <<>> /\ f \in Frames
      /\ wire \in [Sockets -> Seq(Frames)] /\ wire' = [wire EXCEPT ![s] = Tail(@)]
      /\ subs \in [Sockets -> [Channels -> {"none", "subscribed", "refused"}]]
      /\ UNCHANGED <<current, held>>
  BY HeadTailProperties DEF GateInv, TypeOK, Serve, socketVars, transportVars
<1>2. \A t \in Sockets : t # s => subs'[t] = subs[t] /\ wire'[t] = wire[t]
  BY <1>1 DEF Serve
<1>3. \A c \in Channels :
        /\ f.action = "publish" \/ f.of # c => subs'[s][c] = subs[s][c]
        /\ ~(f.action = "publish" \/ f.of # c) => (subs'[s][c] # "none" <=> f.action = "subscribe")
  BY <1>1 DEF Serve, Frames, Answers
<1>4. \A c \in Channels : AskedBy(Tail(wire[s]), subs'[s][c], c) <=> AskedBy(wire[s], subs[s][c], c)
  BY <1>1, <1>3, AskedAfterHead
<1>5. current # NoSocket => \A c \in Channels :
        AskedBy(wire'[current], subs'[current][c], c) <=> AskedBy(wire[current], subs[current][c], c)
  <2>1. current = NoSocket \/ current \in Sockets
    BY DEF GateInv, TypeOK
  <2>2. CASE current = s
    BY <1>1, <1>4, <2>2
  <2>3. CASE current \in Sockets /\ current # s
    BY <1>2, <2>3
  <2> QED BY <2>1, <2>2, <2>3
<1>6. Wanted' = Wanted
  BY <1>1 DEF Wanted
<1> QED BY <1>1, <1>5, <1>6, SameStep

LEMMA PublishKeepsPromise ==
  ASSUME GateInv, GateInv', NEW c \in Channels, Publish(c)
  PROVE  UNCHANGED Shared!vars
<1>1. UNCHANGED <<current, held, subs, wire>>
  BY DEF Publish, Send, transportVars, serverVars
<1>2. Wanted' = Wanted
  BY <1>1 DEF Wanted
<1> QED BY <1>1, <1>2, SameStep

\* The session starts: what waited goes out, and only publishes.
LEMMA EstablishKeepsPromise ==
  ASSUME GateInv, GateInv', CurrentIsOpen, EstablishSession, UNCHANGED <<current, subs>>,
         Wanted' = Wanted
  PROVE  UNCHANGED Shared!vars
<1>1. /\ current \in Sockets /\ wire[current] \in Seq(Frames) /\ wire \in [Sockets -> Seq(Frames)]
      /\ queue \in Seq(Frames) /\ Publishes(queue)
  BY DEF GateInv, TypeOK, QueueGated, CurrentIsOpen
<1>2. wire'[current] = wire[current] \/ wire'[current] = wire[current] \o queue
  BY <1>1 DEF EstablishSession
<1>3. \A c : AskedBy(wire[current] \o queue, subs[current][c], c)
                <=> AskedBy(wire[current], subs[current][c], c)
  BY <1>1, AskedAfterPublishes
<1>4. \A c \in Channels :
        AskedBy(wire'[current], subs'[current][c], c) <=> AskedBy(wire[current], subs[current][c], c)
  BY <1>2, <1>3
<1> QED BY <1>4, SameStep

LEMMA ReceiveKeepsPromise ==
  ASSUME GateInv, GateInv', NEW s \in Sockets, Receive(s)
  PROVE  UNCHANGED Shared!vars
<1>1. CurrentIsOpen /\ UNCHANGED <<current, subs>> /\ Head(replies[s]) \in Replies
  BY ReceivedOnOpen DEF Receive
<1> DEFINE m == Head(replies[s])
<1>2. CASE m.kind = "session" /\ EstablishSession /\ UNCHANGED <<held, doubted>>
  <2>1. Wanted' = Wanted
    BY <1>2 DEF Wanted
  <2> QED BY <1>1, <1>2, <2>1, EstablishKeepsPromise
<1>3. CASE m.kind # "session" /\ Track(s, m) /\ UNCHANGED <<established, fallback, attempt, react, queue, wire>>
  <2>1. Wanted' = Wanted
    <3>1. held \in [Channels -> Holds] /\ m.of \in Channels
      BY <1>1, <1>3 DEF GateInv, TypeOK, Replies
    <3> HIDE DEF m
    <3>2. UNCHANGED held \/ held' = [held EXCEPT ![m.of].state = m.kind]
      BY <1>3 DEF Track
    <3>3. \A c \in Channels : held'[c].count = held[c].count
      BY <3>1, <3>2 DEF Holds
    <3> QED BY <3>3 DEF Wanted
  <2> QED BY <1>1, <1>3, <2>1, SameStep
<1> QED BY <1>2, <1>3 DEF Receive

LEMMA SocketKeepsPromise ==
  ASSUME GateInv, GateInv', SocketNext
  PROVE  Shared!Lose \/ UNCHANGED Shared!vars
<1>1. UNCHANGED held
  BY DEF SocketNext, BackoffFires, Reconnect, Rerun, Connect, Disconnect, SocketOpens, SocketCloses,
         FallbackFires, transportVars
<1>2. Wanted' = Wanted
  BY <1>1 DEF Wanted
<1>3. CASE BackoffFires \/ Reconnect \/ Rerun
  <2>1. made \in Nat /\ current \in Nat /\ current <= made
    BY DEF GateInv, TypeOK, MadeInOrder, Sockets, NoSocket
  <2>2. current' = NoSocket \/ current' = made + 1
    BY <1>3 DEF BackoffFires, Reconnect, Rerun, Connect
  <2>3. current' = NoSocket \/ current' # current
    BY <2>1, <2>2
  <2>4. current' = NoSocket \/ phase'[current'] # "open"
    BY <1>3, BackoffFiresGate, ReconnectGate, RerunGate
  <2> QED BY <1>1, <2>3, <2>4, LostStep
<1>4. CASE Disconnect
  BY <1>1, <1>4, DisconnectGate, LostStep
<1>5. ASSUME NEW s \in Sockets, SocketOpens(s) PROVE UNCHANGED Shared!vars
  <2>1. UNCHANGED <<current, wire, subs>>
    BY <1>5 DEF SocketOpens, serverVars
  <2> QED BY <1>2, <2>1, SameStep
<1>6. ASSUME NEW s \in Sockets, SocketCloses(s) PROVE Shared!Lose \/ UNCHANGED Shared!vars
  <2>1. CASE s = current
    BY <1>1, <1>6, <2>1, SocketClosesGate, LostStep
  <2>2. CASE s # current
    <3>1. current' = current
      BY <1>6, <2>2, SocketClosesGate
    <3>2. \A t \in Sockets : t \notin {s} => wire'[t] = wire[t] /\ subs'[t] = subs[t]
      BY <1>6, CutKeepsGate DEF SocketCloses
    <3>3. current # NoSocket => wire'[current] = wire[current] /\ subs'[current] = subs[current]
      BY <2>2, <3>2 DEF GateInv, TypeOK
    <3> QED BY <1>2, <3>1, <3>3, SameStep
  <2> QED BY <2>1, <2>2
<1>7. CASE FallbackFires
  <2>1. CurrentIsOpen /\ EstablishSession /\ UNCHANGED <<current, subs>>
    BY <1>7 DEF FallbackFires, serverVars, GateInv, InSession
  <2> QED BY <1>2, <2>1, EstablishKeepsPromise
<1> QED BY <1>3, <1>4, <1>5, <1>6, <1>7 DEF SocketNext

LEMMA PromiseStep == GateInv /\ GateInv' /\ [Next]_vars => [Shared!Next]_(Shared!vars)
<1> SUFFICES ASSUME GateInv, GateInv', [Next]_vars PROVE Shared!Next \/ UNCHANGED Shared!vars
  OBVIOUS
<1>1. CASE SocketNext
  BY <1>1, SocketKeepsPromise DEF Shared!Next
<1>2. CASE Flush \/ Commit
  BY <1>2, FlushKeepsPromise, CommitKeepsPromise DEF Shared!Next
<1>3. ASSUME NEW c \in Channels, Hold(c) \/ Release(c) PROVE Shared!Next \/ UNCHANGED Shared!vars
  BY <1>3, HoldKeepsPromise, ReleaseKeepsPromise DEF Shared!Next
<1>4. ASSUME NEW s \in Sockets, Serve(s) \/ Receive(s) PROVE UNCHANGED Shared!vars
  BY <1>4, ServeKeepsPromise, ReceiveKeepsPromise
<1>5. ASSUME NEW c \in Channels, Publish(c) PROVE UNCHANGED Shared!vars
  BY <1>5, PublishKeepsPromise
<1>6. ASSUME UNCHANGED <<current, held, wire, subs>> PROVE UNCHANGED Shared!vars
  <2>1. Wanted' = Wanted
    BY <1>6 DEF Wanted
  <2> QED BY <1>6, <2>1, SameStep
<1>7. ASSUME NEW s \in Sockets, Greet(s) PROVE UNCHANGED Shared!vars
  BY <1>6, <1>7 DEF Greet, socketVars, transportVars
<1>8. ASSUME NEW c \in Channels, Emit(c) PROVE UNCHANGED Shared!vars
  BY <1>6, <1>8 DEF Emit, socketVars, transportVars
<1>9. CASE UNCHANGED vars
  BY <1>6, <1>9 DEF vars, socketVars, transportVars, serverVars
<1> QED BY <1>1, <1>2, <1>3, <1>4, <1>5, <1>7, <1>8, <1>9 DEF Next, TransportNext, ServerNext

\* The transport implements the promise: it asks for held channels only, leaves
\* a channel only when nobody holds it, and counts on no session but the present.
THEOREM Promise == Spec => FollowsThePromise
<1>1. Init => Shared!Init
  <2> SUFFICES ASSUME Init PROVE Shared!Init
    OBVIOUS
  <2>1. Wanted = {}
    BY DEF Init, Wanted, Unheld
  <2>2. Asked = {}
    <3>1. GateInv /\ current = 1 /\ 1 \in Sockets /\ 1 # NoSocket /\ wire[1] = <<>>
          /\ subs[1] = [c \in Channels |-> "none"]
      BY GateInit, SocketAssumption DEF Init, Sockets, NoSocket
    <3>2. \A c : About(c, <<>>) = {}
      BY DEF About
    <3>3. \A c \in Channels : ~AskedBy(wire[current], subs[current][c], c)
      BY <3>1, <3>2 DEF AskedBy
    <3> QED BY <3>1, <3>3, AskedOnWire
  <2> QED BY <2>1, <2>2 DEF Shared!Init
<1>2. GateInv /\ GateInv' /\ [Next]_vars => [Shared!Next]_(Shared!vars)
  BY PromiseStep
<1> QED BY <1>1, <1>2, Gated, PTL DEF Spec, Shared!Spec, FollowsThePromise

-----------------------------------------------------------------------------
(* The subscriptions                                                       *)

\* The answers about c among the replies in rs, and what the transport will take
\* for the answer on c, having `was`, once it has received them.
AnswersOn(c, rs) == {i \in DOMAIN rs : rs[i].kind \in Answers /\ rs[i].of = c}
LastSays(rs, was, is, c) ==
    IF AnswersOn(c, rs) = {} THEN was = is
    ELSE \E i \in AnswersOn(c, rs) : \A j \in AnswersOn(c, rs) : j >= i => rs[j].kind = is

\* A channel without holds waits for the flush that takes it off the map.
Counted == /\ pending # {} => flushing
           /\ \A c \in Channels : /\ held[c].count > 0 => InMap(c)
                                  /\ InMap(c) /\ held[c].count = 0 => c \in pending

\* The transport has the session's epoch or an earlier one.
Told == /\ shown.epoch <= react.epoch
        /\ established => /\ react.epoch # NoSession
                          /\ shown = react \/ shown.epoch < react.epoch

\* The transport knows the session.
Knows == established /\ shown = react

\* Until then the server was asked for nothing.
Unasked == current # NoSocket /\ ~Knows =>
    \A c \in Channels : About(c, wire[current]) = {} /\ subs[current][c] = "none"

\* From then on it is asked for what is in the map, and answers what it has.
Follows == Knows => \A c \in Channels :
    /\ InMap(c) <=> AskedBy(wire[current], subs[current][c], c)
    /\ InMap(c) => held[c].sentIn = shown.epoch
    /\ InMap(c) /\ About(c, wire[current]) = {}
          => LastSays(replies[current], held[c].state, subs[current][c], c)

FollowInv == Counted /\ Told /\ Unasked /\ Follows

LEMMA SaysAfterAppend ==
  ASSUME NEW rs \in Seq(Replies), NEW m \in Replies, NEW was, NEW is, NEW c
  PROVE  /\ ~(m.kind \in Answers /\ m.of = c) =>
               (LastSays(Append(rs, m), was, is, c) <=> LastSays(rs, was, is, c))
         /\ m.kind \in Answers /\ m.of = c => LastSays(Append(rs, m), was, m.kind, c)
<1> DEFINE n == Len(rs)
           as == Append(rs, m)
<1>1. /\ n \in Nat /\ DOMAIN rs = 1 .. n /\ DOMAIN as = 1 .. n + 1
      /\ as[n + 1] = m /\ \A i \in 1 .. n : as[i] = rs[i]
  BY AppendProperties, LenProperties
<1> HIDE DEF as, n
<1>a. /\ DOMAIN as = DOMAIN rs \cup {n + 1} /\ \A i \in DOMAIN rs : i # n + 1 /\ as[i] = rs[i]
      /\ \A j \in DOMAIN as : j >= n + 1 => j = n + 1
  <2>1. 1 .. n + 1 = (1 .. n) \cup {n + 1}
    BY <1>1
  <2>2. \A i \in 1 .. n : i # n + 1
    BY <1>1
  <2>3. \A j \in 1 .. n + 1 : j >= n + 1 => j = n + 1
    BY <1>1
  <2> QED BY <1>1, <2>1, <2>2, <2>3
<1>2. ASSUME ~(m.kind \in Answers /\ m.of = c)
      PROVE  LastSays(as, was, is, c) <=> LastSays(rs, was, is, c)
  <2>1. \A i : i \in AnswersOn(c, as) <=> i \in AnswersOn(c, rs)
    BY <1>1, <1>2, <1>a, Zenon DEF AnswersOn
  <2>2. \A i \in AnswersOn(c, rs) : as[i] = rs[i]
    BY <1>a DEF AnswersOn
  <2>3. AnswersOn(c, as) = AnswersOn(c, rs)
    BY <2>1
  <2> QED BY <2>2, <2>3 DEF LastSays
<1>3. ASSUME m.kind \in Answers /\ m.of = c PROVE LastSays(as, was, m.kind, c)
  <2>1. n + 1 \in AnswersOn(c, as)
    BY <1>1, <1>3, <1>a, Zenon DEF AnswersOn
  <2>2. \A j \in AnswersOn(c, as) : j >= n + 1 => as[j].kind = m.kind
    BY <1>1, <1>a, Zenon DEF AnswersOn
  <2> QED BY <2>1, <2>2 DEF LastSays
<1> QED BY <1>2, <1>3, Zenon DEF as

LEMMA SaysAfterTail ==
  ASSUME NEW rs \in Seq(Replies), rs # <<>>, NEW was, NEW now, NEW is, NEW c,
         now = IF Head(rs).kind \in Answers /\ Head(rs).of = c THEN Head(rs).kind ELSE was,
         LastSays(rs, was, is, c)
  PROVE  LastSays(Tail(rs), now, is, c)
<1> DEFINE n == Len(rs)
           ts == Tail(rs)
<1>1. /\ n \in Nat /\ n > 0 /\ DOMAIN rs = 1 .. n /\ DOMAIN ts = 1 .. n - 1
      /\ Head(rs) = rs[1] /\ \A i \in 1 .. n - 1 : ts[i] = rs[i + 1]
  BY HeadTailProperties, LenProperties
<1> HIDE DEF ts, n
<1>2. \A i \in AnswersOn(c, ts) : /\ i + 1 \in AnswersOn(c, rs) /\ ts[i] = rs[i + 1]
                                  /\ i \in Nat /\ i > 0
  BY <1>1 DEF AnswersOn
<1>3. \A i \in AnswersOn(c, rs) : /\ i \in Nat /\ i > 0
                                  /\ i # 1 => i - 1 \in AnswersOn(c, ts) /\ ts[i - 1] = rs[i]
  BY <1>1 DEF AnswersOn
<1>4. 1 \in AnswersOn(c, rs) <=> Head(rs).kind \in Answers /\ Head(rs).of = c
  BY <1>1 DEF AnswersOn
<1>5. CASE AnswersOn(c, rs) = {}
  <2>1. AnswersOn(c, ts) = {} /\ now = was /\ was = is
    BY <1>2, <1>4, <1>5 DEF LastSays
  <2> QED BY <2>1 DEF LastSays, ts
<1>6. CASE AnswersOn(c, rs) # {}
  <2>1. PICK i \in AnswersOn(c, rs) : \A j \in AnswersOn(c, rs) : j >= i => rs[j].kind = is
    BY <1>6 DEF LastSays
  <2>2. CASE AnswersOn(c, ts) = {}
    <3>1. AnswersOn(c, rs) = {1}
      BY <1>3, <1>6, <2>2
    <3>2. now = is
      BY <1>1, <1>4, <2>1, <3>1
    <3> QED BY <2>2, <3>2 DEF LastSays, ts
  <2>3. CASE i # 1 /\ AnswersOn(c, ts) # {}
    <3>1. i - 1 \in AnswersOn(c, ts)
      BY <1>3, <2>1, <2>3
    <3>2. ASSUME NEW j \in AnswersOn(c, ts), j >= i - 1 PROVE ts[j].kind = is
      <4>1. j + 1 \in AnswersOn(c, rs) /\ ts[j] = rs[j + 1] /\ j + 1 >= i
        BY <1>2, <1>3, <2>1, <3>2
      <4> QED BY <2>1, <4>1
    <3> QED BY <2>3, <3>1, <3>2 DEF LastSays, ts
  <2>4. CASE i = 1 /\ AnswersOn(c, ts) # {}
    <3>1. ASSUME NEW j \in AnswersOn(c, ts) PROVE ts[j].kind = is
      <4>1. j + 1 \in AnswersOn(c, rs) /\ ts[j] = rs[j + 1] /\ j + 1 >= i
        BY <1>2, <2>4
      <4> QED BY <2>1, <4>1
    <3> QED BY <2>4, <3>1 DEF LastSays, ts
  <2> QED BY <2>2, <2>3, <2>4
<1> QED BY <1>5, <1>6

\* The holds, the session and what the transport was told stay; so do the frames
\* and the answers that tell.
LEMMA KeptFollows ==
  ASSUME FollowInv, UNCHANGED <<current, established, react, shown, held, pending, flushing>>,
         current # NoSocket => wire'[current] = wire[current] /\ subs'[current] = subs[current],
         current # NoSocket => \A c \in Channels : \A was, is :
             LastSays(replies[current], was, is, c) => LastSays(replies'[current], was, is, c),
         established => current # NoSocket
  PROVE  FollowInv'
<1>1. \A c \in Channels : InMap(c)' <=> InMap(c)
  BY DEF InMap
<1>2. Counted' /\ Told'
  BY <1>1 DEF FollowInv, Counted, Told
<1>3. Knows' <=> Knows
  BY DEF Knows
<1>4. Unasked'
  BY <1>3 DEF FollowInv, Unasked
<1>5. Follows'
  <2> SUFFICES ASSUME Knows, NEW c \in Channels
               PROVE  /\ InMap(c)' <=> AskedBy(wire[current], subs[current][c], c)
                      /\ InMap(c)' => held[c].sentIn = shown.epoch
                      /\ InMap(c)' /\ About(c, wire[current]) = {}
                            => LastSays(replies'[current], held[c].state, subs[current][c], c)
    BY <1>3 DEF Follows, Knows
  <2>1. /\ InMap(c) <=> AskedBy(wire[current], subs[current][c], c)
        /\ InMap(c) => held[c].sentIn = shown.epoch
        /\ InMap(c) /\ About(c, wire[current]) = {}
              => LastSays(replies[current], held[c].state, subs[current][c], c)
    BY DEF FollowInv, Follows
  <2>2. current # NoSocket
    BY DEF Knows
  <2>3. LastSays(replies[current], held[c].state, subs[current][c], c)
           => LastSays(replies'[current], held[c].state, subs[current][c], c)
    BY <2>2
  <2> QED BY <1>1, <2>1, <2>3, Zenon
<1> QED BY <1>2, <1>4, <1>5 DEF FollowInv

\* A socket that is lost or new has no session.
LEMMA LostFollows ==
  ASSUME GateInv', FollowInv, ~established', react'.epoch = react.epoch,
         current' = NoSocket \/ phase'[current'] # "open",
         UNCHANGED <<shown, held, pending, flushing>>
  PROVE  FollowInv'
<1>1. Counted' /\ Told'
  BY DEF FollowInv, Counted, Told, InMap
<1>2. Unasked'
  <2>1. ASSUME current' # NoSocket, NEW c \in Channels
        PROVE  About(c, wire'[current']) = {} /\ subs'[current'][c] = "none"
    <3>1. wire'[current'] = <<>> /\ subs'[current'] = [d \in Channels |-> "none"]
      BY <2>1 DEF GateInv, TypeOK, Quiet
    <3> QED BY <3>1 DEF About
  <2> QED BY <2>1 DEF Unasked
<1>3. Follows'
  BY DEF Follows, Knows
<1> QED BY <1>1, <1>2, <1>3 DEF FollowInv

LEMMA EstablishFollows ==
  ASSUME GateInv, FollowInv, CurrentIsOpen, EstablishSession,
         UNCHANGED <<current, subs, shown, held, pending, flushing>>,
         \A c \in Channels : \A was, is :
             LastSays(replies[current], was, is, c) => LastSays(replies'[current], was, is, c)
  PROVE  FollowInv'
<1>1. CASE established /\ UNCHANGED <<established, fallback, attempt, react, queue, wire>>
  <2>1. current # NoSocket
    BY DEF CurrentIsOpen
  <2> QED BY <1>1, <2>1, KeptFollows
<1>2. CASE /\ ~established /\ established' = TRUE
           /\ fallback' = NoSocket /\ attempt' = 0
           /\ react' = [state |-> "connected", epoch |-> react.epoch + 1]
           /\ wire' = [wire EXCEPT ![current] = @ \o queue]
           /\ queue' = <<>>
  <2>1. /\ react.epoch \in Nat /\ shown.epoch \in Nat /\ react'.epoch = react.epoch + 1
        /\ shown.epoch <= react.epoch
    BY <1>2 DEF GateInv, TypeOK, Views, FollowInv, Told
  <2>2. /\ Told' /\ ~Knows'
    BY <1>2, <2>1 DEF Told, Knows, NoSession
  <2>3. Counted'
    BY DEF FollowInv, Counted, InMap
  <2>4. Unasked'
    <3>1. /\ current \in Sockets /\ wire[current] \in Seq(Frames) /\ wire \in [Sockets -> Seq(Frames)]
          /\ queue \in Seq(Frames) /\ Publishes(queue) /\ current # NoSocket
      BY DEF GateInv, TypeOK, QueueGated, CurrentIsOpen
    <3>2. wire'[current] = wire[current] \o queue
      BY <1>2, <3>1
    <3>3. \A c : About(c, wire[current] \o queue) = {} <=> About(c, wire[current]) = {}
      BY <3>1, AskedAfterPublishes
    <3>4. ~Knows
      BY <1>2 DEF Knows
    <3> QED BY <3>1, <3>2, <3>3, <3>4 DEF FollowInv, Unasked
  <2> QED BY <2>2, <2>3, <2>4 DEF FollowInv, Follows
<1> QED BY <1>1, <1>2 DEF EstablishSession

\* A socket that connect makes, or a disconnect, keeps the epoch.
LEMMA ConnectLoses ==
  ASSUME GateInv, BackoffFires \/ Reconnect \/ Rerun \/ Disconnect
  PROVE  ~established' /\ react'.epoch = react.epoch
<1>1. TypeOK /\ react \in Views
  BY DEF GateInv, TypeOK
<1>2. ASSUME NEW S, NEW ref, NEW armed \in BOOLEAN, NEW tries \in 0 .. MaxRetries,
             Connect(S, ref, armed, tries)
      PROVE  ~established' /\ react'.epoch = react.epoch
  <2>1. CASE react' = [react EXCEPT !.state = "connecting"]
    BY <1>1, <1>2, <2>1 DEF Connect, Ungated, Views
  <2>2. CASE ScheduleReconnect(tries, armed)
    BY <1>1, <1>2, <2>2, ScheduleTyped DEF Connect, Ungated
  <2> QED BY <1>2, <2>1, <2>2 DEF Connect
<1>3. CASE BackoffFires \/ Reconnect \/ Rerun
  <2>1. /\ attempt \in 0 .. MaxRetries /\ 0 \in 0 .. MaxRetries /\ backoff \in BOOLEAN
    BY <1>1, SocketAssumption DEF TypeOK
  <2> QED BY <1>2, <1>3, <2>1 DEF BackoffFires, Reconnect, Rerun
<1>4. CASE Disconnect
  BY <1>1, <1>4 DEF Disconnect, Ungated, Views
<1> QED BY <1>3, <1>4

LEMMA SocketFollows ==
  ASSUME GateInv, GateInv', FollowInv, SocketNext
  PROVE  FollowInv'
<1>1. UNCHANGED <<shown, held, pending, flushing>>
  BY DEF SocketNext, BackoffFires, Reconnect, Rerun, Connect, Disconnect, SocketOpens, SocketCloses,
         FallbackFires, transportVars
<1>2. CASE BackoffFires \/ Reconnect \/ Rerun \/ Disconnect
  <2>1. current' = NoSocket \/ phase'[current'] # "open"
    BY <1>2, BackoffFiresGate, ReconnectGate, RerunGate, DisconnectGate
  <2> QED BY <1>1, <1>2, <2>1, ConnectLoses, LostFollows
<1>3. ASSUME NEW s \in Sockets, SocketOpens(s) PROVE FollowInv'
  <2>1. UNCHANGED <<current, established, react, wire, subs, replies>>
    BY <1>3 DEF SocketOpens, serverVars
  <2>2. established => current # NoSocket
    BY DEF GateInv, InSession, CurrentIsOpen
  <2> QED BY <1>1, <2>1, <2>2, KeptFollows
<1>4. ASSUME NEW s \in Sockets, SocketCloses(s) PROVE FollowInv'
  <2>1. CASE s = current /\ Ungated /\ ScheduleReconnect(attempt, backoff)
    <3>1. TypeOK /\ attempt \in 0 .. MaxRetries /\ backoff \in BOOLEAN
      BY DEF GateInv, TypeOK
    <3>2. ~established' /\ react'.epoch = react.epoch /\ current' = NoSocket
      BY <1>4, <2>1, <3>1, ScheduleTyped, SocketClosesGate DEF Ungated
    <3> QED BY <1>1, <3>2, LostFollows
  <2>2. CASE s # current /\ UNCHANGED <<current, established, react>>
    <3>1. \A t \in Sockets : t \notin {s} =>
             wire'[t] = wire[t] /\ replies'[t] = replies[t] /\ subs'[t] = subs[t]
      BY <1>4, CutKeepsGate DEF SocketCloses
    <3>2. current # NoSocket => /\ wire'[current] = wire[current] /\ subs'[current] = subs[current]
                                /\ replies'[current] = replies[current]
      BY <2>2, <3>1 DEF GateInv, TypeOK
    <3>3. established => current # NoSocket
      BY DEF GateInv, InSession, CurrentIsOpen
    <3> QED BY <1>1, <2>2, <3>2, <3>3, KeptFollows
  <2> QED BY <1>4, <2>1, <2>2 DEF SocketCloses
<1>5. CASE FallbackFires
  <2>1. CurrentIsOpen /\ EstablishSession /\ UNCHANGED <<current, subs, replies>>
    BY <1>5 DEF FallbackFires, serverVars, GateInv, InSession
  <2> QED BY <1>1, <2>1, EstablishFollows
<1> QED BY <1>2, <1>3, <1>4, <1>5 DEF SocketNext

\* What is sent in a session goes behind what is on its way.
LEMMA SentInSession ==
  ASSUME GateInv, CurrentIsOpen, established, NEW S \in SUBSET Channels, NEW order \in Orders(S),
         NEW action \in {"subscribe", "unsubscribe"}, Send(FramesOf(action, order)), NEW c
  PROVE  /\ About(c, wire'[current]) = {} <=> About(c, wire[current]) = {} /\ c \notin S
         /\ action = "subscribe" => \A was :
               AskedBy(wire'[current], was, c) <=> AskedBy(wire[current], was, c) \/ c \in S
         /\ action = "unsubscribe" => \A was :
               AskedBy(wire'[current], was, c) <=> AskedBy(wire[current], was, c) /\ c \notin S
<1>1. /\ current \in Sockets /\ wire[current] \in Seq(Frames)
      /\ wire'[current] = wire[current] \o FramesOf(action, order)
  BY DEF GateInv, TypeOK, CurrentIsOpen, Send
<1>2. /\ FramesOf(action, order) \in Seq(Frames)
      /\ About(c, FramesOf(action, order)) # {} <=> c \in S
  BY <1>1, FramesOfOrder
<1>3. About(c, wire'[current]) = {} <=> About(c, wire[current]) = {} /\ c \notin S
  <2> DEFINE gs == FramesOf(action, order)
  <2> HIDE DEF gs
  <2>1. gs \in Seq(Frames) /\ wire'[current] = wire[current] \o gs /\ (About(c, gs) # {} <=> c \in S)
    BY <1>1, <1>2 DEF gs
  <2>2. About(c, wire[current] \o gs) = {} <=> About(c, wire[current]) = {} /\ About(c, gs) = {}
    BY <1>1, <2>1, AboutConcat
  <2> QED BY <2>1, <2>2
<1>4. action = "subscribe" => \A was :
         AskedBy(wire'[current], was, c) <=> AskedBy(wire[current], was, c) \/ c \in S
  BY <1>1, AskedAfterSubscribes
<1>5. action = "unsubscribe" => \A was :
         AskedBy(wire'[current], was, c) <=> AskedBy(wire[current], was, c) /\ c \notin S
  BY <1>1, AskedAfterUnsubscribes
<1> QED BY <1>3, <1>4, <1>5

\* What the transport was told of a session it knows.
LEMMA KnowsSession ==
  ASSUME GateInv, FollowInv
  PROVE  /\ Knows => /\ CurrentIsOpen /\ established /\ CanSubscribe(shown)
                     /\ shown.epoch # NoSession
         /\ CurrentIsOpen /\ CanSubscribe(shown) => Knows
<1>1. ASSUME Knows PROVE CurrentIsOpen /\ established /\ CanSubscribe(shown) /\ shown.epoch # NoSession
  BY <1>1 DEF Knows, GateInv, InSession, FollowInv, Told, CanSubscribe
<1>2. ASSUME CurrentIsOpen, CanSubscribe(shown) PROVE Knows
  BY <1>2 DEF Knows, GateInv, InSession, ToldLate, CanSubscribe
<1> QED BY <1>1, <1>2

LEMMA HoldFollows ==
  ASSUME GateInv, FollowInv, NEW c \in Channels, Hold(c)
  PROVE  FollowInv'
<1> DEFINE ask == (IF InMap(c) THEN held[c].sentIn ELSE NoSession) # shown.epoch /\ CanSubscribe(shown)
<1>1. /\ held \in [Channels -> Holds] /\ held[c].count \in Nat
      /\ UNCHANGED <<phase, current, established, react, shown, flushing, subs, replies>>
      /\ pending' = pending \ {c}
  BY DEF GateInv, TypeOK, Holds, Hold, serverVars
<1>2. /\ \A d \in Channels : d # c => held'[d] = held[d]
      /\ held'[c].count = held[c].count + 1
      /\ InMap(c) /\ ~ask => held'[c].state = held[c].state /\ held'[c].sentIn = held[c].sentIn
      /\ ~InMap(c) \/ ask => held'[c].state = "pending"
      /\ ask => held'[c].sentIn = shown.epoch
  BY <1>1 DEF Hold
<1>3. \/ ask /\ Send(FramesOf("subscribe", <<c>>)) /\ <<c>> \in Orders({c})
      \/ ~ask /\ UNCHANGED wire
  <2>1. <<c>> \in Orders({c})
    <3>1. Cardinality({c}) = 1
      BY FS_Singleton
    <3> QED BY <3>1 DEF Orders
  <2> QED BY <2>1 DEF Hold
<1>4. \A d \in Channels : InMap(d)' <=> InMap(d) \/ d = c
  BY <1>2 DEF InMap
<1>5. Counted'
  BY <1>1, <1>2, <1>4 DEF FollowInv, Counted
<1>6. Told' /\ (Knows' <=> Knows)
  BY <1>1 DEF FollowInv, Told, Knows
<1>7. Unasked'
  <2>1. ASSUME ~Knows PROVE UNCHANGED wire
    <3>1. CASE ~CurrentIsOpen
      BY <1>3, <3>1 DEF Send
    <3>2. CASE CurrentIsOpen
      BY <1>3, <2>1, <3>2, KnowsSession
    <3> QED BY <3>1, <3>2
  <2> QED BY <1>1, <1>6, <2>1 DEF FollowInv, Unasked
<1>8. Follows'
  <2> SUFFICES ASSUME Knows, NEW d \in Channels
               PROVE  /\ InMap(d)' <=> AskedBy(wire'[current], subs[current][d], d)
                      /\ InMap(d)' => held'[d].sentIn = shown.epoch
                      /\ InMap(d)' /\ About(d, wire'[current]) = {}
                            => LastSays(replies[current], held'[d].state, subs[current][d], d)
    BY <1>1, <1>6 DEF Follows
  <2>1. /\ \A e \in Channels :
              /\ InMap(e) <=> AskedBy(wire[current], subs[current][e], e)
              /\ InMap(e) => held[e].sentIn = shown.epoch
              /\ InMap(e) /\ About(e, wire[current]) = {}
                    => LastSays(replies[current], held[e].state, subs[current][e], e)
        /\ CurrentIsOpen /\ established /\ CanSubscribe(shown) /\ shown.epoch # NoSession
    BY KnowsSession DEF FollowInv, Follows
  <2>2. ask <=> ~InMap(c)
    BY <2>1
  <2> HIDE DEF ask
  <2>3. CASE InMap(c)
    <3>1. UNCHANGED wire /\ ~ask
      BY <1>3, <2>2, <2>3
    <3>2. held'[d].sentIn = held[d].sentIn /\ held'[d].state = held[d].state
      BY <1>2, <2>3, <3>1
    <3>3. InMap(d)' <=> InMap(d)
      BY <1>4, <2>3
    <3> QED BY <2>1, <3>1, <3>2, <3>3
  <2>4. CASE ~InMap(c)
    <3>1. ask /\ Send(FramesOf("subscribe", <<c>>)) /\ <<c>> \in Orders({c})
      BY <1>3, <2>2, <2>4
    <3>2. /\ About(d, wire'[current]) = {} <=> About(d, wire[current]) = {} /\ d \notin {c}
          /\ \A was : AskedBy(wire'[current], was, d) <=> AskedBy(wire[current], was, d) \/ d \in {c}
      BY <2>1, <3>1, SentInSession
    <3>3. CASE d = c
      BY <1>2, <1>4, <3>1, <3>2, <3>3
    <3>4. CASE d # c
      <4>1. held'[d] = held[d] /\ (InMap(d)' <=> InMap(d))
        BY <1>2, <1>4, <3>4
      <4> QED BY <2>1, <3>2, <3>4, <4>1
    <3> QED BY <3>3, <3>4
  <2> QED BY <2>3, <2>4
<1> QED BY <1>5, <1>6, <1>7, <1>8 DEF FollowInv

LEMMA ReleaseFollows ==
  ASSUME GateInv, FollowInv, NEW c \in Channels, Release(c)
  PROVE  FollowInv'
<1>1. /\ held \in [Channels -> Holds] /\ held[c] \in Holds /\ held[c].count \in Nat
      /\ UNCHANGED <<current, established, react, shown, wire, subs, replies>>
      /\ held[c].count > 0 /\ held' = [held EXCEPT ![c].count = @ - 1]
  BY DEF GateInv, TypeOK, Holds, Release, socketVars, serverVars
<1>2. /\ \A d \in Channels : d # c => held'[d] = held[d]
      /\ held'[c].count = held[c].count - 1
      /\ held'[c].sentIn = held[c].sentIn /\ held'[c].state = held[c].state
  BY <1>1 DEF Holds
<1>3. \A d \in Channels : /\ InMap(d)' <=> InMap(d)
                          /\ held'[d].sentIn = held[d].sentIn /\ held'[d].state = held[d].state
  BY <1>2 DEF InMap
<1>4. \/ held[c].count = 1 /\ pending' = pending \cup {c} /\ flushing' = TRUE
      \/ held[c].count > 1 /\ UNCHANGED <<pending, flushing>>
  BY DEF Release
<1>5. Counted'
  BY <1>1, <1>2, <1>3, <1>4 DEF FollowInv, Counted
<1>6. Told' /\ (Knows' <=> Knows)
  BY <1>1 DEF FollowInv, Told, Knows
<1>7. Unasked' /\ Follows'
  BY <1>1, <1>3, <1>6 DEF FollowInv, Unasked, Follows
<1> QED BY <1>5, <1>6, <1>7 DEF FollowInv

LEMMA FlushFollows ==
  ASSUME GateInv, FollowInv, Flush
  PROVE  FollowInv'
<1>1. /\ held' = [c \in Channels |-> IF c \in Gone THEN Unheld ELSE held[c]]
      /\ Left \in SUBSET Channels
      /\ pending' = {}
      /\ UNCHANGED <<current, established, react, shown, subs, replies>>
  BY FlushSends DEF Flush, serverVars
<1>2. PICK order \in Orders(Left) : Send(FramesOf("unsubscribe", order))
  BY FlushSends
<1>3. \A c \in Channels : /\ InMap(c)' <=> InMap(c) /\ c \notin Gone
                          /\ c \notin Gone => held'[c] = held[c]
                          /\ c \in Gone => held'[c].count = 0
  BY <1>1 DEF InMap, Unheld
<1>4. Counted'
  <2>1. \A c \in Channels : InMap(c) /\ held[c].count = 0 => c \in Gone
    BY DEF FollowInv, Counted, Gone
  <2> QED BY <1>1, <1>3, <2>1 DEF FollowInv, Counted
<1>5. Told' /\ (Knows' <=> Knows)
  BY <1>1 DEF FollowInv, Told, Knows
<1>6. Unasked'
  <2>1. ASSUME ~Knows, current # NoSocket, NEW c \in Channels PROVE About(c, wire'[current]) = {}
    <3>1. About(c, wire[current]) = {}
      BY <2>1 DEF FollowInv, Unasked
    <3>2. CASE CurrentIsOpen /\ established
      <4>1. Left = {}
        BY <2>1, <3>2, KnowsSession DEF Left
      <4> QED BY <1>1, <1>2, <3>1, <3>2, <4>1, SentInSession
    <3>3. CASE ~(CurrentIsOpen /\ established)
      BY <1>2, <3>1, <3>3 DEF Send
    <3> QED BY <3>2, <3>3
  <2> QED BY <1>1, <1>5, <2>1 DEF FollowInv, Unasked
<1>7. Follows'
  <2> SUFFICES ASSUME Knows, NEW c \in Channels
               PROVE  /\ InMap(c)' <=> AskedBy(wire'[current], subs[current][c], c)
                      /\ InMap(c)' => held'[c].sentIn = shown.epoch
                      /\ InMap(c)' /\ About(c, wire'[current]) = {}
                            => LastSays(replies[current], held'[c].state, subs[current][c], c)
    BY <1>1, <1>5 DEF Follows
  <2>1. /\ \A d \in Channels :
              /\ InMap(d) <=> AskedBy(wire[current], subs[current][d], d)
              /\ InMap(d) => held[d].sentIn = shown.epoch
              /\ InMap(d) /\ About(d, wire[current]) = {}
                    => LastSays(replies[current], held[d].state, subs[current][d], d)
        /\ CurrentIsOpen /\ established /\ CanSubscribe(shown)
    BY KnowsSession DEF FollowInv, Follows
  <2>2. /\ About(c, wire'[current]) = {} <=> About(c, wire[current]) = {} /\ c \notin Left
        /\ \A was : AskedBy(wire'[current], was, c) <=> AskedBy(wire[current], was, c) /\ c \notin Left
    BY <1>1, <1>2, <2>1, SentInSession
  <2>3. c \in Left <=> c \in Gone
    BY <2>1 DEF Left, Gone
  <2>4. CASE c \in Gone
    BY <1>3, <2>2, <2>3, <2>4
  <2>5. CASE c \notin Gone
    <3>1. held'[c] = held[c] /\ (InMap(c)' <=> InMap(c)) /\ c \notin Left
      BY <1>3, <2>3, <2>5
    <3> QED BY <2>1, <2>2, <3>1
  <2> QED BY <2>4, <2>5
<1> QED BY <1>4, <1>5, <1>6, <1>7 DEF FollowInv

LEMMA NowIs ==
  ASSUME NEW c
  PROVE  /\ react.epoch = shown.epoch => Now(c) = held[c]
         /\ react.epoch # shown.epoch /\ held[c].count = 0 => Now(c) = Unheld
         /\ react.epoch # shown.epoch /\ held[c].count # 0
               => Now(c) = [held[c] EXCEPT !.sentIn = NoSession, !.state = "pending"]
<1>1. react.epoch = shown.epoch => Now(c) = held[c]
  BY DEF Now, Rebound
<1>2. react.epoch # shown.epoch /\ held[c].count = 0 => Now(c) = Unheld
  BY DEF Now, Rebound
<1>3. react.epoch # shown.epoch /\ held[c].count # 0
         => Now(c) = [held[c] EXCEPT !.sentIn = NoSession, !.state = "pending"]
  BY DEF Now, Rebound
<1> QED BY <1>1, <1>2, <1>3

LEMMA CommitFollows ==
  ASSUME GateInv, FollowInv, Commit
  PROVE  FollowInv'
<1>1. /\ held' = [c \in Channels |-> IF c \in Ask
                                     THEN [Now(c) EXCEPT !.sentIn = react.epoch, !.state = "pending"]
                                     ELSE Now(c)]
      /\ \A c \in Channels : Now(c) \in Holds /\ Now(c).count = held[c].count
      /\ Ask \in SUBSET Channels
  BY CommitSends DEF Ask
<1>2. PICK order \in Orders(Ask) : Send(FramesOf("subscribe", order))
  BY CommitSends
<1>3. /\ UNCHANGED <<current, established, react, subs, replies, flushing>>
      /\ shown # react /\ shown' = react
      /\ pending' = IF react.epoch = shown.epoch THEN pending ELSE {c \in pending : held[c].count > 0}
      /\ held \in [Channels -> Holds]
  BY DEF Commit, serverVars, GateInv, TypeOK
<1>4. \A c \in Channels :
        /\ held'[c].count = held[c].count
        /\ c \in Ask => /\ held'[c].state = "pending" /\ held'[c].sentIn = react.epoch
                        /\ held[c].count > 0
        /\ c \notin Ask => held'[c] = Now(c)
  BY <1>1 DEF Holds, Ask
<1>5. Counted'
  <2>1. CASE react.epoch = shown.epoch
    <3>1. \A c \in Channels : InMap(c)' <=> InMap(c) \/ c \in Ask
      BY <1>4, <2>1 DEF InMap, Now, Rebound
    <3> QED BY <1>3, <1>4, <2>1, <3>1 DEF FollowInv, Counted
  <2>2. CASE react.epoch # shown.epoch
    <3>1. \A c \in Channels : InMap(c)' <=> held[c].count # 0
      <4> TAKE c \in Channels
      <4>1. CASE c \in Ask
        BY <1>3, <1>4, <4>1 DEF InMap, Holds
      <4>2. CASE c \notin Ask /\ held[c].count = 0
        <5>1. held'[c] = Unheld
          BY <1>4, <2>2, <4>2, NowIs
        <5> QED BY <4>2, <5>1 DEF InMap, Unheld
      <4>3. CASE c \notin Ask /\ held[c].count # 0
        BY <1>3, <1>4, <2>2, <4>3, NowIs DEF InMap, Holds
      <4> QED BY <4>1, <4>2, <4>3
    <3>2. \A c \in Channels : held[c].count \in Nat
      BY <1>3 DEF Holds
    <3>3. pending' \subseteq pending
      BY <1>3, <2>2
    <3> QED BY <1>3, <1>4, <3>1, <3>2, <3>3 DEF FollowInv, Counted
  <2> QED BY <2>1, <2>2
<1>6. react.epoch \in Nat /\ Told' /\ (Knows' <=> established) /\ ~Knows
  BY <1>3 DEF GateInv, TypeOK, Views, FollowInv, Told, Knows
<1>7. current # NoSocket => \A c \in Channels : About(c, wire[current]) = {} /\ subs[current][c] = "none"
  BY <1>6 DEF FollowInv, Unasked
<1>8. Unasked'
  <2>1. ~established => UNCHANGED wire
    BY <1>2 DEF Send
  <2> QED BY <1>3, <1>6, <1>7, <2>1 DEF Unasked
<1>9. Follows'
  <2> SUFFICES ASSUME established, NEW c \in Channels
               PROVE  /\ InMap(c)' <=> AskedBy(wire'[current], subs[current][c], c)
                      /\ InMap(c)' => held'[c].sentIn = react.epoch
                      /\ ~(InMap(c)' /\ About(c, wire'[current]) = {})
    BY <1>3, <1>6 DEF Follows
  <2>1. /\ CurrentIsOpen /\ current # NoSocket /\ CanSubscribe(react)
        /\ react.epoch # NoSession /\ react.epoch # shown.epoch
    BY <1>3 DEF GateInv, TypeOK, Views, InSession, CurrentIsOpen, FollowInv, Told, CanSubscribe
  <2>2. /\ About(c, wire'[current]) = {} <=> About(c, wire[current]) = {} /\ c \notin Ask
        /\ \A was : AskedBy(wire'[current], was, c) <=> AskedBy(wire[current], was, c) \/ c \in Ask
    BY <1>1, <1>2, <2>1, SentInSession
  <2>3. ~AskedBy(wire[current], subs[current][c], c)
    BY <1>7, <2>1 DEF AskedBy
  <2>4. c \in Ask <=> held[c].count # 0
    <3>1. held[c] \in Holds
      BY <1>3
    <3>2. held[c].count # 0 => Now(c).sentIn = NoSession
      BY <2>1, <3>1, NowIs DEF Holds
    <3>3. held[c].count > 0 <=> held[c].count # 0
      BY <3>1 DEF Holds
    <3>4. Now(c).count = held[c].count
      BY <1>1
    <3> QED BY <2>1, <3>2, <3>3, <3>4 DEF Ask
  <2>5. InMap(c)' <=> c \in Ask
    <3>1. c \notin Ask => held'[c].state = "unheld"
      <4>1. c \notin Ask => held'[c] = Unheld
        BY <1>4, <2>1, <2>4, NowIs
      <4> QED BY <4>1 DEF Unheld
    <3> QED BY <1>4, <3>1 DEF InMap
  <2> QED BY <1>4, <1>7, <2>1, <2>2, <2>3, <2>5
<1> QED BY <1>5, <1>6, <1>8, <1>9 DEF FollowInv

LEMMA ServeFollows ==
  ASSUME GateInv, FollowInv, NEW s \in Sockets, Serve(s)
  PROVE  FollowInv'
<1> DEFINE f == Head(wire[s])
<1>1. /\ wire[s] \in Seq(Frames) /\ wire[s] # <<>> /\ f \in Frames
      /\ wire \in [Sockets -> Seq(Frames)] /\ wire' = [wire EXCEPT ![s] = Tail(@)]
      /\ subs \in [Sockets -> [Channels -> {"none", "subscribed", "refused"}]]
      /\ replies \in [Sockets -> Seq(Replies)]
      /\ UNCHANGED <<current, established, react, shown, held, pending, flushing>>
  BY HeadTailProperties DEF GateInv, TypeOK, Serve, socketVars, transportVars
<1>2. established => current # NoSocket
  BY DEF GateInv, InSession, CurrentIsOpen
<1>3. CASE s # current
  <2>1. /\ current # NoSocket => wire'[current] = wire[current] /\ subs'[current] = subs[current]
        /\ current # NoSocket => replies'[current] = replies[current]
    BY <1>1, <1>3 DEF Serve, GateInv, TypeOK
  <2> QED BY <1>1, <1>2, <2>1, KeptFollows
<1>4. CASE s = current
  <2>1. ASSUME NEW c \in Channels
        PROVE  /\ f.action = "publish" \/ f.of # c =>
                     /\ subs'[s][c] = subs[s][c]
                     /\ About(c, Tail(wire[s])) = {} <=> About(c, wire[s]) = {}
               /\ ~(f.action = "publish" \/ f.of # c) =>
                     /\ subs'[s][c] # "none" <=> f.action = "subscribe"
                     /\ About(c, wire[s]) # {}
               /\ AskedBy(Tail(wire[s]), subs'[s][c], c) <=> AskedBy(wire[s], subs[s][c], c)
    <3>1. /\ f.action = "publish" \/ f.of # c => subs'[s][c] = subs[s][c]
          /\ ~(f.action = "publish" \/ f.of # c) => (subs'[s][c] # "none" <=> f.action = "subscribe")
      BY <1>1 DEF Serve, Frames, Answers
    <3>2. ~(f.action = "publish" \/ f.of # c) => 1 \in About(c, wire[s])
      BY <1>1, LenProperties, HeadTailProperties DEF About
    <3>3. /\ AskedBy(Tail(wire[s]), subs'[s][c], c) <=> AskedBy(wire[s], subs[s][c], c)
          /\ f.action = "publish" \/ f.of # c => (About(c, Tail(wire[s])) = {} <=> About(c, wire[s]) = {})
      BY <1>1, <3>1, AskedAfterHead
    <3> QED BY <3>1, <3>2, <3>3
  <2>2. ASSUME NEW c \in Channels, NEW was
        PROVE  /\ (f.action = "publish" \/ f.of # c) /\ LastSays(replies[s], was, subs[s][c], c)
                     => LastSays(replies'[s], was, subs'[s][c], c)
               /\ f.action = "subscribe" /\ f.of = c => LastSays(replies'[s], was, subs'[s][c], c)
    <3>1. f.action = "publish" \/ f.of # c => subs'[s][c] = subs[s][c]
      BY <2>1
    <3>2. CASE \E answer \in Answers :
                 /\ f.action = "subscribe"
                 /\ subs' = [subs EXCEPT ![s][f.of] = answer]
                 /\ replies' = [replies EXCEPT ![s] = Append(@, [kind |-> answer, of |-> f.of])]
      <4>1. PICK answer \in Answers :
                 /\ f.action = "subscribe"
                 /\ subs' = [subs EXCEPT ![s][f.of] = answer]
                 /\ replies' = [replies EXCEPT ![s] = Append(@, [kind |-> answer, of |-> f.of])]
        BY <3>2
      <4> DEFINE m == [kind |-> answer, of |-> f.of]
      <4>2. /\ f.of \in Channels /\ m \in Replies /\ replies[s] \in Seq(Replies)
            /\ replies'[s] = Append(replies[s], m) /\ m.kind = answer /\ m.of = f.of
        BY <1>1, <4>1 DEF Frames, Replies, Answers
      <4> HIDE DEF m
      <4>3. /\ m.of # c => (LastSays(Append(replies[s], m), was, subs[s][c], c)
                               <=> LastSays(replies[s], was, subs[s][c], c))
            /\ m.of = c => LastSays(Append(replies[s], m), was, answer, c)
        BY <4>1, <4>2, SaysAfterAppend
      <4>4. f.of = c => subs'[s][c] = answer
        BY <1>1, <4>1, <4>2
      <4> QED BY <3>1, <4>1, <4>2, <4>3, <4>4
    <3>3. CASE f.action # "subscribe" /\ UNCHANGED replies
      BY <3>1, <3>3
    <3>4. \/ \E answer \in Answers :
                 /\ f.action = "subscribe"
                 /\ subs' = [subs EXCEPT ![s][f.of] = answer]
                 /\ replies' = [replies EXCEPT ![s] = Append(@, [kind |-> answer, of |-> f.of])]
          \/ f.action # "subscribe" /\ UNCHANGED replies
      BY DEF Serve
    <3> QED BY <3>2, <3>3, <3>4
  <2>3. wire'[s] = Tail(wire[s])
    BY <1>1
  <2> HIDE DEF f
  <2>4. \A c \in Channels : InMap(c)' <=> InMap(c)
    BY <1>1 DEF InMap
  <2>5. Counted' /\ Told' /\ (Knows' <=> Knows)
    BY <1>1, <2>4 DEF FollowInv, Counted, Told, Knows
  <2>6. Unasked'
    <3>1. ASSUME ~Knows, NEW c \in Channels
          PROVE  About(c, wire'[s]) = {} /\ subs'[s][c] = "none"
      <4>1. About(c, wire[s]) = {} /\ subs[s][c] = "none"
        BY <1>4, <3>1 DEF FollowInv, Unasked, Sockets, NoSocket
      <4> QED BY <2>1, <2>3, <4>1
    <3> QED BY <1>1, <1>4, <2>5, <3>1 DEF Unasked
  <2>7. Follows'
    <3> SUFFICES ASSUME Knows, NEW c \in Channels
                 PROVE  /\ InMap(c) <=> AskedBy(wire'[s], subs'[s][c], c)
                        /\ InMap(c) => held[c].sentIn = shown.epoch
                        /\ InMap(c) /\ About(c, wire'[s]) = {}
                              => LastSays(replies'[s], held[c].state, subs'[s][c], c)
      BY <1>1, <1>4, <2>4, <2>5 DEF Follows
    <3>1. /\ InMap(c) <=> AskedBy(wire[s], subs[s][c], c)
          /\ InMap(c) => held[c].sentIn = shown.epoch
          /\ InMap(c) /\ About(c, wire[s]) = {}
                => LastSays(replies[s], held[c].state, subs[s][c], c)
      BY <1>4 DEF FollowInv, Follows
    <3>2. InMap(c) <=> AskedBy(wire'[s], subs'[s][c], c)
      BY <2>1, <2>3, <3>1
    <3>3. ASSUME InMap(c), About(c, wire'[s]) = {}
          PROVE  LastSays(replies'[s], held[c].state, subs'[s][c], c)
      <4>1. CASE f.action = "publish" \/ f.of # c
        BY <2>1, <2>2, <2>3, <3>1, <3>3, <4>1
      <4>2. CASE ~(f.action = "publish" \/ f.of # c)
        <5>1. subs'[s][c] # "none"
          BY <3>2, <3>3 DEF AskedBy
        <5> QED BY <2>1, <2>2, <4>2, <5>1
      <4> QED BY <4>1, <4>2
    <3> QED BY <3>1, <3>2, <3>3
  <2> QED BY <2>5, <2>6, <2>7 DEF FollowInv
<1> QED BY <1>3, <1>4

\* An answer finds its hold: what was released is off the map by then.
LEMMA ReceiveFollows ==
  ASSUME InMicrotask, GateInv, FollowInv, NEW s \in Sockets, Receive(s)
  PROVE  FollowInv'
<1> DEFINE m == Head(replies[s])
<1>1. /\ s = current /\ CurrentIsOpen /\ ~flushing
      /\ replies[s] \in Seq(Replies) /\ replies[s] # <<>> /\ m \in Replies
      /\ replies \in [Sockets -> Seq(Replies)] /\ replies'[s] = Tail(replies[s])
      /\ UNCHANGED <<current, shown, pending, flushing, subs>>
      /\ held \in [Channels -> Holds]
  BY ReceivedOnOpen DEF Receive, TaskMayRun, GateInv, TypeOK
<1>2. CASE m.kind = "session" /\ EstablishSession /\ UNCHANGED <<held, doubted>>
  <2>1. ~(m.kind \in Answers)
    BY <1>2 DEF Answers
  <2>2. \A c \in Channels : \A was, is :
           LastSays(replies[current], was, is, c) => LastSays(replies'[current], was, is, c)
    BY <1>1, <2>1, SaysAfterTail
  <2> QED BY <1>1, <1>2, <2>2, EstablishFollows
<1>3. CASE m.kind # "session" /\ Track(s, m) /\ UNCHANGED <<established, fallback, attempt, react, queue, wire>>
  <2>1. \A c \in Channels : InMap(c) => held[c].count > 0
    BY <1>1 DEF FollowInv, Counted, GateInv, TypeOK, Holds
  <2>2. m.of \in Channels
    BY <1>1, <1>3 DEF Replies
  <2> HIDE DEF m
  <2>3. ASSUME NEW c \in Channels
        PROVE  /\ held'[c].count = held[c].count /\ held'[c].sentIn = held[c].sentIn
               /\ InMap(c)' <=> InMap(c)
               /\ InMap(c) => held'[c].state = IF m.kind \in Answers /\ m.of = c THEN m.kind
                                              ELSE held[c].state
    <3>1. held[c] \in Holds
      BY <1>1
    <3>2. CASE m.kind \in Answers /\ m.of = c /\ held[c].count > 0
      <4>1. held' = [held EXCEPT ![c].state = m.kind]
        BY <1>3, <3>2 DEF Track
      <4>2. /\ held'[c].count = held[c].count /\ held'[c].sentIn = held[c].sentIn
            /\ held'[c].state = m.kind
        BY <1>1, <3>1, <4>1 DEF Holds
      <4>3. InMap(c) /\ m.kind # "unheld"
        BY <3>2 DEF FollowInv, Counted, Answers
      <4> QED BY <3>2, <4>2, <4>3 DEF InMap
    <3>3. CASE ~(m.kind \in Answers /\ m.of = c /\ held[c].count > 0)
      <4>1. held'[c] = held[c]
        BY <1>1, <1>3, <2>2, <3>3 DEF Track
      <4> QED BY <2>1, <3>3, <4>1 DEF InMap
    <3> QED BY <3>2, <3>3
  <2>4. Counted' /\ Told' /\ (Knows' <=> Knows)
    BY <1>1, <1>3, <2>3 DEF FollowInv, Counted, Told, Knows
  <2>5. Unasked'
    BY <1>1, <1>3, <2>4 DEF FollowInv, Unasked
  <2>6. Follows'
    <3> SUFFICES ASSUME Knows, NEW c \in Channels
                 PROVE  /\ InMap(c) <=> AskedBy(wire[s], subs[s][c], c)
                        /\ InMap(c) => held'[c].sentIn = shown.epoch
                        /\ InMap(c) /\ About(c, wire[s]) = {}
                              => LastSays(replies'[s], held'[c].state, subs[s][c], c)
      BY <1>1, <1>3, <2>3, <2>4 DEF Follows
    <3>1. /\ InMap(c) <=> AskedBy(wire[s], subs[s][c], c)
          /\ InMap(c) => held[c].sentIn = shown.epoch
          /\ InMap(c) /\ About(c, wire[s]) = {}
                => LastSays(replies[s], held[c].state, subs[s][c], c)
      BY <1>1 DEF FollowInv, Follows
    <3>2. ASSUME InMap(c), About(c, wire[s]) = {}
          PROVE  LastSays(replies'[s], held'[c].state, subs[s][c], c)
      <4>1. held'[c].state = IF m.kind \in Answers /\ m.of = c THEN m.kind ELSE held[c].state
        BY <2>3, <3>2
      <4> QED BY <1>1, <3>1, <3>2, <4>1, SaysAfterTail DEF m
    <3> QED BY <2>3, <3>1, <3>2
  <2> QED BY <2>4, <2>5, <2>6 DEF FollowInv
<1> QED BY <1>2, <1>3 DEF Receive

LEMMA FollowInit == Init => FollowInv
<1> SUFFICES ASSUME Init PROVE FollowInv
  OBVIOUS
<1>1. Counted
  BY DEF Init, Counted, Unheld, InMap
<1>2. Told /\ ~Knows
  BY DEF Init, Told, Knows
<1>3. Unasked
  <2>1. \A c : About(c, <<>>) = {}
    BY DEF About
  <2>2. 1 \in Sockets
    BY SocketAssumption DEF Sockets
  <2> QED BY <2>1, <2>2 DEF Init, Unasked
<1> QED BY <1>1, <1>2, <1>3 DEF FollowInv, Follows

LEMMA FollowStep == InMicrotask /\ GateInv /\ GateInv' /\ FollowInv /\ [Next]_vars => FollowInv'
<1> SUFFICES ASSUME InMicrotask, GateInv, GateInv', FollowInv, [Next]_vars PROVE FollowInv'
  OBVIOUS
<1>1. CASE SocketNext
  BY <1>1, SocketFollows
<1>2. CASE Flush \/ Commit
  BY <1>2, FlushFollows, CommitFollows
<1>3. ASSUME NEW c \in Channels, Hold(c) \/ Release(c) PROVE FollowInv'
  BY <1>3, HoldFollows, ReleaseFollows
<1>4. ASSUME NEW s \in Sockets, Serve(s) \/ Receive(s) PROVE FollowInv'
  BY <1>4, ServeFollows, ReceiveFollows
<1>5. established => current # NoSocket
  BY DEF GateInv, InSession, CurrentIsOpen
<1>6. ASSUME NEW c \in Channels, Publish(c) PROVE FollowInv'
  <2>1. UNCHANGED <<current, established, react, shown, held, pending, flushing, wire, subs, replies>>
    BY <1>6 DEF Publish, Send, transportVars, serverVars
  <2> QED BY <1>5, <2>1, KeptFollows
<1>7. ASSUME NEW s \in Sockets, Greet(s) PROVE FollowInv'
  <2>1. /\ UNCHANGED <<current, established, react, shown, held, pending, flushing, wire, subs>>
        /\ replies' = [replies EXCEPT ![s] = Append(@, [kind |-> "session"])]
        /\ replies \in [Sockets -> Seq(Replies)]
        /\ current \in Sockets \cup {NoSocket}
    BY <1>7 DEF Greet, socketVars, transportVars, GateInv, TypeOK
  <2>2. [kind |-> "session"] \in Replies /\ ~([kind |-> "session"].kind \in Answers)
    BY DEF Replies, Answers
  <2>3. current # NoSocket => \A c \in Channels : \A was, is :
           LastSays(replies[current], was, is, c) => LastSays(replies'[current], was, is, c)
    <3>1. CASE current = s
      BY <2>1, <2>2, <3>1, SaysAfterAppend
    <3>2. CASE current # s
      BY <2>1, <3>2
    <3> QED BY <3>1, <3>2
  <2> QED BY <1>5, <2>1, <2>3, KeptFollows
<1>8. ASSUME NEW d \in Channels, Emit(d) PROVE FollowInv'
  <2>1. /\ UNCHANGED <<current, established, react, shown, held, pending, flushing, wire, subs>>
        /\ replies \in [Sockets -> Seq(Replies)]
        /\ current \in Sockets \cup {NoSocket}
    BY <1>8 DEF Emit, socketVars, transportVars, GateInv, TypeOK
  <2>2. /\ [kind |-> "frame", of |-> d] \in Replies
        /\ ~([kind |-> "frame", of |-> d].kind \in Answers)
    BY DEF Replies, Answers
  <2>3. current # NoSocket => replies'[current] \in
           {replies[current], Append(replies[current], [kind |-> "frame", of |-> d])}
    BY <1>8, <2>1 DEF Emit
  <2>4. ASSUME current # NoSocket, NEW c \in Channels, NEW was, NEW is,
               LastSays(replies[current], was, is, c)
        PROVE  LastSays(replies'[current], was, is, c)
    <3> DEFINE m == [kind |-> "frame", of |-> d]
    <3>1. /\ m \in Replies /\ m.kind \notin Answers /\ replies[current] \in Seq(Replies)
          /\ replies'[current] \in {replies[current], Append(replies[current], m)}
      BY <2>1, <2>2, <2>3, <2>4
    <3> HIDE DEF m
    <3>2. LastSays(Append(replies[current], m), was, is, c) <=> LastSays(replies[current], was, is, c)
      BY <3>1, SaysAfterAppend
    <3> QED BY <2>4, <3>1, <3>2
  <2> QED BY <1>5, <2>1, <2>4, KeptFollows
<1>9. CASE UNCHANGED vars
  <2>1. UNCHANGED <<current, established, react, shown, held, pending, flushing, wire, subs, replies>>
    BY <1>9 DEF vars, socketVars, transportVars, serverVars
  <2> QED BY <1>5, <2>1, KeptFollows
<1> QED BY <1>1, <1>2, <1>3, <1>4, <1>6, <1>7, <1>8, <1>9 DEF Next, TransportNext, ServerNext

\* With the default scheduleRelease: once things settle, what the server of the
\* session has is what is held, and the transport knows each answer.
THEOREM Subscribed == ASSUME InMicrotask PROVE Spec => []SubscriptionsFollowHolds
<1>1. Init => FollowInv
  BY FollowInit
<1>2. GateInv /\ GateInv' /\ FollowInv /\ [Next]_vars => FollowInv'
  BY FollowStep
<1>3. GateInv /\ FollowInv => SubscriptionsFollowHolds
  <2> SUFFICES ASSUME GateInv, FollowInv, Settled, NEW c \in Channels
               PROVE  /\ held[c].count > 0 => /\ subs[current][c] # "none"
                                              /\ held[c].state = subs[current][c]
                      /\ held[c].count = 0 => subs[current][c] = "none" /\ ~InMap(c)
    BY DEF SubscriptionsFollowHolds
  <2>1. Knows /\ wire[current] = <<>> /\ replies[current] = <<>> /\ pending = {}
    BY DEF Settled, Knows, FollowInv, Counted
  <2>2. About(c, wire[current]) = {} /\ AnswersOn(c, replies[current]) = {}
    BY <2>1 DEF About, AnswersOn
  <2>3. /\ InMap(c) <=> subs[current][c] # "none"
        /\ InMap(c) => held[c].state = subs[current][c]
    BY <2>1, <2>2 DEF FollowInv, Follows, AskedBy, LastSays
  <2>4. /\ held[c].count > 0 => InMap(c)
        /\ held[c].count = 0 => ~InMap(c)
    BY <2>1 DEF FollowInv, Counted
  <2> QED BY <2>3, <2>4
<1> QED BY <1>1, <1>2, <1>3, Gated, PTL DEF Spec

-----------------------------------------------------------------------------
(* The steps within a session                                              *)

\* A step of the sockets or the server that ends no session and starts none.
Calm == \/ \E s \in Sockets : \/ SocketOpens(s) \/ Greet(s) \/ Serve(s)
                              \/ SocketCloses(s) /\ s # current
        \/ \E c \in Channels : Emit(c) \/ Publish(c)
        \/ FallbackFires /\ established
        \/ UNCHANGED vars

\* A session that starts is one the transport does not know yet.
LEMMA EstablishKnown ==
  ASSUME GateInv, FollowInv, Knows', EstablishSession, UNCHANGED <<current, shown>>
  PROVE  Knows /\ established /\ UNCHANGED <<current, established, react, shown>>
<1>0. /\ react.epoch \in Nat /\ shown.epoch \in Nat /\ shown.epoch <= react.epoch
  BY DEF GateInv, TypeOK, Views, FollowInv, Told
<1>1. CASE established /\ UNCHANGED <<established, fallback, attempt, react, queue, wire>>
  BY <1>1 DEF Knows
<1>2. CASE react' = [state |-> "connected", epoch |-> react.epoch + 1]
  <2>1. shown' = react' /\ shown' = shown
    BY DEF Knows
  <2>2. shown.epoch = react.epoch + 1
    BY <1>2, <2>1
  <2> QED BY <1>0, <2>2
<1> QED BY <1>1, <1>2 DEF EstablishSession

\* A step of the sockets or the server after which the transport knows the
\* session is calm.
LEMMA CalmStep ==
  ASSUME GateInv, FollowInv, Knows',
         SocketNext \/ ServerNext \/ (\E c \in Channels : Publish(c)) \/ UNCHANGED vars
  PROVE  Knows /\ UNCHANGED <<current, established, react, shown>> /\ Calm
<1> DEFINE Same == Knows /\ UNCHANGED <<current, established, react, shown>>
<1>1. ~(BackoffFires \/ Reconnect \/ Rerun \/ Disconnect)
  BY ConnectLoses DEF Knows
<1>2. ASSUME FallbackFires PROVE Same /\ Calm
  <2>1. EstablishSession /\ UNCHANGED <<current, shown>>
    BY <1>2 DEF FallbackFires, transportVars
  <2> QED BY <1>2, <2>1, EstablishKnown DEF Calm
<1>3. ASSUME NEW s \in Sockets, SocketOpens(s) \/ Greet(s) \/ Serve(s) PROVE Same /\ Calm
  BY <1>3 DEF SocketOpens, Greet, Serve, Calm, Knows, transportVars, socketVars
<1>4. ASSUME NEW s \in Sockets, SocketCloses(s) PROVE Same /\ Calm
  <2>1. CASE s = current
    BY <1>4, <2>1 DEF SocketCloses, Ungated, Knows
  <2>2. CASE s # current
    BY <1>4, <2>2 DEF SocketCloses, Knows, Calm, transportVars
  <2> QED BY <2>1, <2>2
<1>5. ASSUME NEW c \in Channels, Emit(c) \/ Publish(c) PROVE Same /\ Calm
  BY <1>5 DEF Emit, Publish, Calm, Knows, transportVars, socketVars
<1>6. ASSUME UNCHANGED vars PROVE Same /\ Calm
  BY <1>6 DEF vars, socketVars, transportVars, Knows, Calm
<1> HIDE DEF Same
<1>7. Same /\ Calm
  BY <1>1, <1>2, <1>3, <1>4, <1>5, <1>6 DEF SocketNext, ServerNext
<1> QED BY <1>7 DEF Same

\* A session that the transport knows after a step it knew before, unless the
\* step told it of that.
LEMMA SessionStep ==
  ASSUME GateInv, FollowInv, [Next]_vars, Knows'
  PROVE  \/ Commit /\ react.epoch # shown.epoch
         \/ /\ Knows /\ UNCHANGED <<current, established, react, shown>>
            /\ \/ \E c \in Channels : Hold(c) \/ Release(c)
               \/ Flush
               \/ \E s \in Sockets : Receive(s)
               \/ Calm
<1> DEFINE Same == Knows /\ UNCHANGED <<current, established, react, shown>>
<1>1. ASSUME NEW c \in Channels, Hold(c) \/ Release(c) PROVE Same
  BY <1>1 DEF Hold, Release, Knows, socketVars
<1>2. ASSUME Flush PROVE Same
  BY <1>2 DEF Flush, Knows
<1>3. ASSUME Commit PROVE react.epoch # shown.epoch
  <2>1. established /\ shown # react
    BY <1>3 DEF Commit, Knows
  <2> QED BY <2>1 DEF FollowInv, Told, GateInv, TypeOK, Views
<1>4. ASSUME NEW s \in Sockets, Receive(s) PROVE Same
  <2>1. UNCHANGED <<current, shown>>
    BY <1>4 DEF Receive
  <2>2. EstablishSession \/ UNCHANGED <<established, react>>
    BY <1>4 DEF Receive
  <2> QED BY <2>1, <2>2, EstablishKnown DEF Knows
<1>5. ASSUME SocketNext \/ ServerNext \/ (\E c \in Channels : Publish(c)) \/ UNCHANGED vars
      PROVE  Same /\ Calm
  BY <1>5, CalmStep
<1> HIDE DEF Same
<1>6. \/ Commit /\ react.epoch # shown.epoch
      \/ /\ Same
         /\ \/ \E c \in Channels : Hold(c) \/ Release(c)
            \/ Flush
            \/ \E s \in Sockets : Receive(s)
            \/ Calm
  BY <1>1, <1>2, <1>3, <1>4, <1>5 DEF Next, TransportNext
<1> QED BY <1>6 DEF Same

LEMMA AnswersAppend ==
  ASSUME NEW rs \in Seq(Replies), NEW m \in Replies, NEW c
  PROVE  /\ AnswersOn(c, rs) = {} /\ ~(m.kind \in Answers /\ m.of = c) => AnswersOn(c, Append(rs, m)) = {}
         /\ \A i \in DOMAIN rs : i \in DOMAIN Append(rs, m) /\ Append(rs, m)[i] = rs[i]
         /\ \E i \in DOMAIN Append(rs, m) : Append(rs, m)[i] = m
<1> DEFINE n == Len(rs)
           as == Append(rs, m)
<1>1. /\ n \in Nat /\ DOMAIN rs = 1 .. n /\ DOMAIN as = 1 .. n + 1
      /\ as[n + 1] = m /\ \A i \in 1 .. n : as[i] = rs[i]
  BY AppendProperties, LenProperties
<1> HIDE DEF as, n
<1>2. /\ \A i \in DOMAIN rs : i \in DOMAIN as /\ as[i] = rs[i]
      /\ \A i \in DOMAIN as : i = n + 1 \/ i \in DOMAIN rs
      /\ n + 1 \in DOMAIN as
  <2>1. 1 .. n + 1 = (1 .. n) \cup {n + 1}
    BY <1>1
  <2> QED BY <1>1, <2>1
<1>3. ASSUME AnswersOn(c, rs) = {}, ~(m.kind \in Answers /\ m.of = c) PROVE AnswersOn(c, as) = {}
  <2>1. ASSUME NEW i \in DOMAIN as, as[i].kind \in Answers, as[i].of = c PROVE FALSE
    <3>1. i \in DOMAIN rs
      BY <1>1, <1>2, <1>3, <2>1
    <3>2. as[i] = rs[i]
      BY <1>2, <3>1
    <3> QED BY <1>3, <2>1, <3>1, <3>2 DEF AnswersOn
  <2> QED BY <2>1 DEF AnswersOn
<1>4. \E i \in DOMAIN as : as[i] = m
  BY <1>1, <1>2
<1> QED BY <1>2, <1>3, <1>4 DEF as

LEMMA AnswersTail ==
  ASSUME NEW rs \in Seq(Replies), rs # <<>>, NEW c
  PROVE  /\ AnswersOn(c, rs) = {} => AnswersOn(c, Tail(rs)) = {} /\ ~(Head(rs).kind \in Answers /\ Head(rs).of = c)
         /\ {i \in 2 .. Len(rs) : rs[i].kind \in Answers /\ rs[i].of = c} = {} => AnswersOn(c, Tail(rs)) = {}
         /\ \A i \in DOMAIN rs : rs[i] # Head(rs) => \E j \in DOMAIN Tail(rs) : Tail(rs)[j] = rs[i]
<1> DEFINE n == Len(rs)
           ts == Tail(rs)
<1>1. /\ n \in Nat /\ n > 0 /\ DOMAIN rs = 1 .. n /\ DOMAIN ts = 1 .. n - 1
      /\ Head(rs) = rs[1] /\ \A i \in 1 .. n - 1 : ts[i] = rs[i + 1]
  BY HeadTailProperties, LenProperties
<1> HIDE DEF ts
<1>2. ASSUME AnswersOn(c, rs) = {} \/ {i \in 2 .. n : rs[i].kind \in Answers /\ rs[i].of = c} = {}
      PROVE  AnswersOn(c, ts) = {}
  <2>1. ASSUME NEW i \in DOMAIN ts, ts[i].kind \in Answers, ts[i].of = c PROVE FALSE
    <3>1. i + 1 \in DOMAIN rs /\ i + 1 \in 2 .. n /\ ts[i] = rs[i + 1]
      BY <1>1, <2>1
    <3> QED BY <1>2, <2>1, <3>1 DEF AnswersOn
  <2> QED BY <2>1 DEF AnswersOn
<1>3. AnswersOn(c, rs) = {} => ~(Head(rs).kind \in Answers /\ Head(rs).of = c)
  BY <1>1 DEF AnswersOn
<1>4. ASSUME NEW i \in DOMAIN rs, rs[i] # Head(rs) PROVE \E j \in DOMAIN ts : ts[j] = rs[i]
  <2>1. i \in Nat /\ i # 1 /\ i - 1 \in DOMAIN ts /\ (i - 1) + 1 = i
    BY <1>1, <1>4
  <2>2. ts[i - 1] = rs[i]
    BY <1>1, <2>1
  <2> QED BY <2>1, <2>2
<1> QED BY <1>2, <1>3, <1>4 DEF ts, n

\* No frame about c is on its way to the server, no answer on its way back.
Clear(c) == About(c, wire[current]) = {} /\ AnswersOn(c, replies[current]) = {}

\* A hint is on its way to the view.
HintComing == \E i \in DOMAIN replies[current] : Hints(replies[current][i])

\* A calm step puts at most one reply behind those on their way: an answer to a
\* frame about its channel, a hint with the record's next version.
LEMMA CalmSteps ==
  ASSUME GateInv, FollowInv, Knows, Calm
  PROVE  /\ UNCHANGED <<held, doubted, pending>>
         /\ \A c \in Channels : Clear(c) => Clear(c)'
         /\ HintComing => HintComing'
         /\ sent'[Channel] = sent[Channel] \/ HintComing' \/ subs[current][Channel] # "subscribed"
<1>1. /\ current \in Sockets /\ phase[current] = "open" /\ established
      /\ replies \in [Sockets -> Seq(Replies)] /\ wire \in [Sockets -> Seq(Frames)]
      /\ replies[current] \in Seq(Replies) /\ wire[current] \in Seq(Frames)
      /\ sent \in [Channels -> 0 .. MaxFrames] /\ Channel \in Channels
  BY KnowsSession, ViewAssumption DEF GateInv, TypeOK, CurrentIsOpen
<1>2. ASSUME current' = current, wire'[current] = wire[current], sent' = sent,
             replies'[current] = replies[current]
      PROVE  /\ \A c \in Channels : Clear(c) => Clear(c)'
             /\ HintComing => HintComing'
             /\ sent'[Channel] = sent[Channel]
  BY <1>2 DEF Clear, HintComing
<1>3. ASSUME NEW m \in Replies, current' = current, replies'[current] = Append(replies[current], m)
      PROVE  /\ HintComing => HintComing'
             /\ Hints(m) => HintComing'
             /\ \A c : AnswersOn(c, replies[current]) = {} /\ ~(m.kind \in Answers /\ m.of = c)
                          => AnswersOn(c, replies'[current]) = {}
  <2> DEFINE rs == replies[current]
             as == Append(rs, m)
  <2>1. /\ \A i \in DOMAIN rs : i \in DOMAIN as /\ as[i] = rs[i]
        /\ \E i \in DOMAIN as : as[i] = m
        /\ \A c : AnswersOn(c, rs) = {} /\ ~(m.kind \in Answers /\ m.of = c) => AnswersOn(c, as) = {}
    BY <1>1, AnswersAppend
  <2> HIDE DEF rs, as
  <2>2. replies'[current'] = as /\ replies[current] = rs
    BY <1>3 DEF as, rs
  <2> QED BY <1>3, <2>1, <2>2 DEF HintComing
<1>4. ASSUME NEW s \in Sockets, SocketOpens(s) PROVE
         /\ UNCHANGED <<held, doubted, pending, current, wire, replies, sent>>
  BY <1>4 DEF SocketOpens, transportVars, serverVars
<1>5. ASSUME NEW s \in Sockets, SocketCloses(s), s # current PROVE
         /\ UNCHANGED <<held, doubted, pending, current, sent>>
         /\ wire'[current] = wire[current] /\ replies'[current] = replies[current]
  <2>1. \A t \in Sockets : t \notin {s} => wire'[t] = wire[t] /\ replies'[t] = replies[t]
    BY <1>5, CutKeepsGate DEF SocketCloses
  <2> QED BY <1>1, <1>5, <2>1 DEF SocketCloses, transportVars
<1>6. ASSUME NEW s \in Sockets, Greet(s)
      PROVE  /\ UNCHANGED <<held, doubted, pending>>
             /\ \A c \in Channels : Clear(c) => Clear(c)'
             /\ HintComing => HintComing'
             /\ sent'[Channel] = sent[Channel]
  <2>1. /\ UNCHANGED <<held, doubted, pending, current, wire, sent>>
        /\ replies' = [replies EXCEPT ![s] = Append(@, [kind |-> "session"])]
        /\ [kind |-> "session"] \in Replies /\ [kind |-> "session"].kind \notin Answers
    BY <1>6 DEF Greet, transportVars, socketVars, Replies, Answers
  <2>2. CASE s = current
    BY <1>1, <1>3, <2>1, <2>2 DEF Clear
  <2>3. CASE s # current
    BY <1>1, <1>2, <2>1, <2>3
  <2> QED BY <2>1, <2>2, <2>3
<1>7. ASSUME NEW s \in Sockets, Serve(s)
      PROVE  /\ UNCHANGED <<held, doubted, pending>>
             /\ \A c \in Channels : Clear(c) => Clear(c)'
             /\ HintComing => HintComing'
             /\ sent'[Channel] = sent[Channel]
  <2> DEFINE f == Head(wire[s])
  <2>1. /\ UNCHANGED <<held, doubted, pending, current, sent>>
        /\ wire' = [wire EXCEPT ![s] = Tail(@)] /\ wire[s] # <<>> /\ f \in Frames
    BY <1>1, <1>7, HeadTailProperties DEF Serve, transportVars, socketVars
  <2>2. \/ UNCHANGED replies
        \/ \E answer \in Answers :
              /\ f.action = "subscribe"
              /\ replies' = [replies EXCEPT ![s] = Append(@, [kind |-> answer, of |-> f.of])]
    BY <1>7 DEF Serve
  <2>3. CASE s # current
    BY <1>1, <1>2, <2>1, <2>2, <2>3
  <2>4. CASE s = current
    <3>1. ASSUME NEW c \in Channels, About(c, wire[current]) = {}
          PROVE  About(c, wire'[current]) = {} /\ (f.action = "publish" \/ f.of # c)
      <4>1. 1 \notin About(c, wire[s]) /\ 1 \in DOMAIN wire[s] /\ wire[s][1] = f
        BY <1>1, <2>1, <2>4, <3>1, HeadTailProperties, LenProperties
      <4>2. f.action = "publish" \/ f.of # c
        BY <4>1 DEF About
      <4>3. About(c, Tail(wire[s])) = {} <=> About(c, wire[s]) = {}
        BY <1>1, <2>1, <2>4, <4>2, AskedAfterHead
      <4> QED BY <1>1, <2>1, <2>4, <3>1, <4>2, <4>3
    <3>2. CASE UNCHANGED replies
      BY <1>1, <2>1, <2>4, <3>1, <3>2 DEF Clear, HintComing
    <3>3. ASSUME NEW answer \in Answers, f.action = "subscribe",
                 replies' = [replies EXCEPT ![s] = Append(@, [kind |-> answer, of |-> f.of])]
          PROVE  /\ \A c \in Channels : Clear(c) => Clear(c)'
                 /\ HintComing => HintComing'
      <4>1. /\ [kind |-> answer, of |-> f.of] \in Replies
            /\ [kind |-> answer, of |-> f.of].of = f.of
            /\ replies'[current] = Append(replies[current], [kind |-> answer, of |-> f.of])
        BY <1>1, <2>1, <2>4, <3>3 DEF Replies, Answers, Frames
      <4>2. /\ HintComing => HintComing'
            /\ \A c : AnswersOn(c, replies[current]) = {} /\ f.of # c => AnswersOn(c, replies'[current]) = {}
        BY <1>3, <2>1, <4>1
      <4> QED BY <2>1, <3>1, <3>3, <4>2 DEF Clear
    <3> QED BY <2>1, <2>2, <3>2, <3>3
  <2> QED BY <2>1, <2>3, <2>4
<1>8. ASSUME NEW d \in Channels, Emit(d)
      PROVE  /\ UNCHANGED <<held, doubted, pending>>
             /\ \A c \in Channels : Clear(c) => Clear(c)'
             /\ HintComing => HintComing'
             /\ sent'[Channel] = sent[Channel] \/ HintComing' \/ subs[current][Channel] # "subscribed"
  <2> DEFINE m == [kind |-> "frame", of |-> d]
  <2>1. /\ UNCHANGED <<held, doubted, pending, current, wire>>
        /\ sent' = [sent EXCEPT ![d] = @ + 1]
        /\ replies'[current] = IF subs[current][d] = "subscribed" THEN Append(replies[current], m)
                               ELSE replies[current]
    BY <1>1, <1>8 DEF Emit, transportVars, socketVars
  <2>2. m \in Replies /\ m.kind = "frame" /\ m.of = d /\ m.kind \notin Answers
    BY DEF Replies, Answers
  <2>3. d # Channel => sent'[Channel] = sent[Channel]
    BY <1>1, <2>1
  <2> HIDE DEF m
  <2>4. CASE subs[current][d] = "subscribed"
    BY <1>1, <1>3, <2>1, <2>2, <2>3, <2>4 DEF Clear, Hints
  <2>5. CASE subs[current][d] # "subscribed"
    BY <1>1, <2>1, <2>3, <2>5 DEF Clear, HintComing
  <2> QED BY <2>1, <2>4, <2>5
<1>9. ASSUME NEW d \in Channels, Publish(d) PROVE FALSE
  BY <1>1, <1>9 DEF Publish
<1>10. CASE FallbackFires
  <2>1. UNCHANGED <<held, doubted, pending, current, wire, replies, sent>>
    BY <1>1, <1>10 DEF FallbackFires, EstablishSession, transportVars, serverVars
  <2> QED BY <1>2, <2>1
<1>11. CASE UNCHANGED vars
  <2>1. UNCHANGED <<held, doubted, pending, current, wire, replies, sent>>
    BY <1>11 DEF vars, socketVars, transportVars, serverVars
  <2> QED BY <1>2, <2>1
<1> QED BY <1>2, <1>4, <1>5, <1>6, <1>7, <1>8, <1>9, <1>10, <1>11 DEF Calm

\* An answer taken without doubt, in a session the transport knows, is the
\* answer to the last frame about its channel.
Answered == Knows => \A c \in Channels :
    InMap(c) /\ c \notin doubted /\ held[c].state \in Answers => Clear(c)

\* A new session forgets every answer.
LEMMA NewSession ==
  ASSUME GateInv, Commit, react.epoch # shown.epoch, NEW c \in Channels
  PROVE  held'[c].state \notin Answers /\ held'[c].count = held[c].count
<1>1. /\ c \in Ask => held'[c] = [Now(c) EXCEPT !.sentIn = react.epoch, !.state = "pending"]
      /\ c \notin Ask => held'[c] = Now(c)
      /\ Now(c) \in Holds /\ Now(c).count = held[c].count
      /\ held[c] \in Holds
  BY CommitSends DEF GateInv, TypeOK
<1>2. CASE c \in Ask
  BY <1>1, <1>2 DEF Holds, Answers
<1>3. CASE c \notin Ask /\ held[c].count = 0
  <2>1. held'[c] = Unheld
    BY <1>1, <1>3, NowIs
  <2>2. held'[c].state = "unheld" /\ held'[c].count = 0
    BY <2>1 DEF Unheld
  <2> QED BY <1>3, <2>2 DEF Answers
<1>4. CASE c \notin Ask /\ held[c].count # 0
  BY <1>1, <1>4, NowIs DEF Holds, Answers
<1> QED BY <1>2, <1>3, <1>4

\* A hold while the channel is on the map sends nothing and keeps the answer.
LEMMA HoldInSession ==
  ASSUME GateInv, FollowInv, Knows, NEW c \in Channels, NEW d \in Channels, Hold(d)
  PROVE  /\ InMap(c) => held'[c].state = held[c].state
         /\ ~InMap(c) => held'[c].state \notin Answers
         /\ held'[c].count >= held[c].count
         /\ Clear(c) => (d = c /\ ~InMap(c)) \/ Clear(c)'
         /\ UNCHANGED <<current, doubted, replies, sent>>
<1>1. /\ held \in [Channels -> Holds] /\ held[d].count \in Nat /\ held[c].count \in Nat
      /\ UNCHANGED <<current, doubted, replies, sent>>
      /\ CurrentIsOpen /\ established /\ CanSubscribe(shown) /\ shown.epoch # NoSession
      /\ InMap(d) => held[d].sentIn = shown.epoch
  BY KnowsSession DEF GateInv, TypeOK, Holds, Hold, serverVars, FollowInv, Follows
<1>2. /\ c # d => held'[c] = held[c]
      /\ held'[d].count = held[d].count + 1
      /\ InMap(d) => held'[d].state = held[d].state /\ UNCHANGED wire
      /\ ~InMap(d) => /\ held'[d].state = "pending"
                      /\ Send(FramesOf("subscribe", <<d>>)) /\ <<d>> \in Orders({d})
  <2>1. <<d>> \in Orders({d})
    <3>1. Cardinality({d}) = 1
      BY FS_Singleton
    <3> QED BY <3>1 DEF Orders
  <2> QED BY <1>1, <2>1 DEF Hold
<1>3. Clear(c) => (d = c /\ ~InMap(c)) \/ Clear(c)'
  <2>1. CASE InMap(d)
    BY <1>1, <1>2, <2>1 DEF Clear
  <2>2. CASE ~InMap(d) /\ d # c
    <3>1. About(c, wire'[current]) = {} <=> About(c, wire[current]) = {} /\ c \notin {d}
      BY <1>1, <1>2, <2>2, SentInSession
    <3> QED BY <1>1, <2>2, <3>1 DEF Clear
  <2>3. CASE ~InMap(d) /\ d = c
    BY <2>3
  <2> QED BY <2>1, <2>2, <2>3
<1>4. /\ InMap(c) => held'[c].state = held[c].state
      /\ ~InMap(c) => held'[c].state \notin Answers
      /\ held'[c].count >= held[c].count
  BY <1>1, <1>2 DEF InMap, Answers
<1> QED BY <1>1, <1>3, <1>4

\* A flush leaves the channels without holds and no other.
LEMMA FlushInSession ==
  ASSUME GateInv, FollowInv, Knows, Flush, NEW c \in Channels
  PROVE  /\ held[c].count # 0 => held'[c] = held[c] /\ (c \in doubted' <=> c \in doubted)
         /\ held'[c].state \in Answers => held'[c] = held[c] /\ (c \in doubted' <=> c \in doubted)
                                          /\ (Clear(c) => Clear(c)')
         /\ UNCHANGED <<current, replies, sent>>
<1>1. /\ held' = [d \in Channels |-> IF d \in Gone THEN Unheld ELSE held[d]]
      /\ Left \in SUBSET Channels /\ Left \in SUBSET Gone
      /\ doubted' = doubted \ Gone
      /\ UNCHANGED <<current, replies, sent>>
      /\ CurrentIsOpen /\ established
  BY FlushSends, KnowsSession DEF Flush, serverVars, Gone
<1>2. PICK order \in Orders(Left) : Send(FramesOf("unsubscribe", order))
  BY FlushSends
<1>3. About(c, wire'[current]) = {} <=> About(c, wire[current]) = {} /\ c \notin Left
  BY <1>1, <1>2, SentInSession
<1>4. c \in Gone => held[c].count = 0 /\ held'[c].state \notin Answers
  BY <1>1 DEF Gone, Unheld, Answers
<1> QED BY <1>1, <1>3, <1>4 DEF Clear

\* What an answer does to the holds.
LEMMA ReceiveInSession ==
  ASSUME InMicrotask, GateInv, FollowInv, Knows, Knows', NEW s \in Sockets, Receive(s), NEW c \in Channels
  PROVE  /\ s = current /\ UNCHANGED <<current, wire, sent>>
         /\ held'[c].count = held[c].count
         /\ \/ /\ held'[c] = held[c] /\ (c \in doubted' <=> c \in doubted)
               /\ Clear(c) => Clear(c)'
            \/ /\ ~Clear(c) /\ held'[c].state \in Answers
               /\ c \notin doubted' => Clear(c)'
<1> DEFINE m == Head(replies[s])
           rs == replies[s]
<1>1. /\ s = current /\ CurrentIsOpen /\ established /\ ~flushing
      /\ rs \in Seq(Replies) /\ rs # <<>> /\ m \in Replies
      /\ replies \in [Sockets -> Seq(Replies)] /\ replies'[s] = Tail(rs)
      /\ UNCHANGED <<current, sent>>
      /\ held \in [Channels -> Holds]
  BY ReceivedOnOpen, KnowsSession DEF Receive, TaskMayRun, GateInv, TypeOK
<1>2. /\ UNCHANGED wire
      /\ \/ m.kind = "session" /\ UNCHANGED <<held, doubted>>
         \/ m.kind # "session" /\ Track(s, m)
  <2>1. CASE m.kind = "session" /\ EstablishSession /\ UNCHANGED <<held, doubted>>
    BY <1>1, <2>1 DEF EstablishSession
  <2>2. CASE m.kind # "session" /\ Track(s, m) /\ UNCHANGED wire
    BY <2>2
  <2> QED BY <2>1, <2>2 DEF Receive
<1>3. \A d \in Channels :
         /\ AnswersOn(d, rs) = {} => AnswersOn(d, Tail(rs)) = {} /\ ~(m.kind \in Answers /\ m.of = d)
         /\ {i \in 2 .. Len(rs) : rs[i].kind \in Answers /\ rs[i].of = d} = {} => AnswersOn(d, Tail(rs)) = {}
  BY <1>1, AnswersTail
<1>4. Clear(c) => Clear(c)'
  BY <1>1, <1>2, <1>3 DEF Clear
<1>5. CASE ~(m.kind \in Answers /\ m.of = c /\ held[c].count > 0)
  <2>1. held'[c] = held[c] /\ (c \in doubted' <=> c \in doubted)
    <3>1. CASE m.kind \in Answers /\ m.of # c /\ held[m.of].count > 0
      <4>1. /\ held' = [held EXCEPT ![m.of].state = m.kind]
            /\ doubted' \in {doubted \ {m.of}, doubted \cup {m.of}}
        BY <1>2, <3>1 DEF Track, Answers
      <4> QED BY <1>1, <3>1, <4>1
    <3>2. CASE ~(m.kind \in Answers /\ held[m.of].count > 0)
      BY <1>2, <3>2 DEF Track
    <3> QED BY <1>5, <3>1, <3>2
  <2> QED BY <1>1, <1>2, <1>4, <2>1
<1>6. CASE m.kind \in Answers /\ m.of = c /\ held[c].count > 0
  <2>1. /\ held' = [held EXCEPT ![c].state = m.kind]
        /\ doubted' = IF About(c, wire[s]) = {} /\ Later(s, c) = {} THEN doubted \ {c} ELSE doubted \cup {c}
    BY <1>2, <1>6 DEF Track, Answers
  <2>2. held'[c].count = held[c].count /\ held'[c].state \in Answers
    BY <1>1, <1>6, <2>1 DEF Holds
  <2>3. ~Clear(c)
    BY <1>1, <1>3, <1>6 DEF Clear
  <2>4. c \notin doubted' => Clear(c)'
    <3>1. c \notin doubted' => About(c, wire[s]) = {} /\ Later(s, c) = {}
      BY <2>1
    <3>2. Later(s, c) = {} => AnswersOn(c, Tail(rs)) = {}
      BY <1>3 DEF Later
    <3> QED BY <1>1, <1>2, <3>1, <3>2 DEF Clear
  <2> QED BY <1>1, <1>2, <2>2, <2>3, <2>4
<1> QED BY <1>5, <1>6

LEMMA AnsweredStep ==
  ASSUME InMicrotask, GateInv, FollowInv, Answered, [Next]_vars
  PROVE  Answered'
<1> SUFFICES ASSUME Knows', NEW c \in Channels,
                    InMap(c)', c \notin doubted', held'[c].state \in Answers
             PROVE  Clear(c)'
  BY DEF Answered
<1>1. CASE Commit /\ react.epoch # shown.epoch
  BY <1>1, NewSession
<1>2. CASE Knows
  <2>1. InMap(c) /\ c \notin doubted /\ held[c].state \in Answers => Clear(c)
    BY <1>2 DEF Answered
  <2>2. ASSUME NEW d \in Channels, Hold(d) PROVE Clear(c)'
    BY <1>2, <2>1, <2>2, HoldInSession
  <2>3. ASSUME NEW d \in Channels, Release(d) PROVE Clear(c)'
    <3>1. /\ UNCHANGED <<current, doubted, wire, replies>>
          /\ held'[c].state = held[c].state
      BY <2>3 DEF Release, socketVars, serverVars, GateInv, TypeOK, Holds
    <3> QED BY <2>1, <3>1 DEF Clear, InMap
  <2>4. CASE Flush
    BY <1>2, <2>1, <2>4, FlushInSession DEF InMap
  <2>5. ASSUME NEW s \in Sockets, Receive(s) PROVE Clear(c)'
    <3>1. \/ /\ held'[c] = held[c] /\ (c \in doubted' <=> c \in doubted)
             /\ Clear(c) => Clear(c)'
          \/ c \notin doubted' => Clear(c)'
      BY <1>2, <2>5, ReceiveInSession
    <3> QED BY <2>1, <3>1 DEF InMap
  <2>6. CASE Calm
    BY <1>2, <2>1, <2>6, CalmSteps DEF InMap
  <2> QED BY <1>2, <2>2, <2>3, <2>4, <2>5, <2>6, <1>1, SessionStep
<1> QED BY <1>1, <1>2, SessionStep

\* What a step may do to a hold, to what the transport was told and to the
\* record's version.
LEMMA HoldsStay ==
  ASSUME GateInv, [Next]_vars, NEW c \in Channels, held[c].count > 0
  PROVE  held'[c].count > 0 \/ (Release(c) /\ held[c].count = 1)
<1>1. held \in [Channels -> Holds] /\ held[c].count \in Nat
  BY DEF GateInv, TypeOK, Holds
<1>2. ASSUME NEW d \in Channels, Hold(d) PROVE held'[c].count > 0
  <2>1. CASE c = d
    <3>1. held'[c].count = held[c].count + 1
      BY <1>1, <1>2, <2>1 DEF Hold
    <3> QED BY <1>1, <3>1
  <2>2. CASE c # d
    BY <1>1, <1>2, <2>2 DEF Hold
  <2> QED BY <2>1, <2>2
<1>3. ASSUME NEW d \in Channels, Release(d)
      PROVE  held'[c].count > 0 \/ (Release(c) /\ held[c].count = 1)
  <2>1. CASE c = d
    <3>1. held'[c].count = held[c].count - 1
      BY <1>1, <1>3, <2>1 DEF Release, Holds
    <3> QED BY <1>1, <1>3, <2>1, <3>1
  <2>2. CASE c # d
    BY <1>1, <1>3, <2>2 DEF Release
  <2> QED BY <2>1, <2>2
<1>4. CASE Flush
  <2>1. c \notin Gone /\ held' = [d \in Channels |-> IF d \in Gone THEN Unheld ELSE held[d]]
    BY <1>1, <1>4, FlushSends DEF Gone
  <2> QED BY <2>1
<1>5. CASE Commit
  <2>1. /\ c \in Ask => held'[c] = [Now(c) EXCEPT !.sentIn = react.epoch, !.state = "pending"]
        /\ c \notin Ask => held'[c] = Now(c)
        /\ Now(c) \in Holds /\ Now(c).count = held[c].count
    BY <1>5, CommitSends
  <2>2. held'[c].count = held[c].count
    BY <2>1 DEF Holds
  <2> QED BY <2>2
<1>6. ASSUME NEW s \in Sockets, Receive(s) PROVE held'[c].count > 0
  <2> DEFINE m == Head(replies[s])
  <2>1. CASE UNCHANGED held
    BY <2>1
  <2>2. CASE held' = [held EXCEPT ![m.of].state = m.kind]
    <3>1. held'[c].count = held[c].count
      BY <1>1, <2>2 DEF Holds
    <3> QED BY <3>1
  <2> QED BY <1>6, <2>1, <2>2 DEF Receive, Track
<1>7. CASE SocketNext \/ ServerNext \/ (\E d \in Channels : Publish(d)) \/ UNCHANGED vars
  BY <1>7 DEF SocketNext, BackoffFires, Reconnect, Rerun, Connect, Disconnect, SocketOpens,
     SocketCloses, FallbackFires, ServerNext, Greet, Serve, Emit, Publish, vars, transportVars
<1> QED BY <1>2, <1>3, <1>4, <1>5, <1>6, <1>7 DEF Next, TransportNext

LEMMA ShownStep ==
  ASSUME GateInv, FollowInv, [Next]_vars
  PROVE  /\ shown.epoch \in Nat /\ shown'.epoch \in Nat /\ shown.epoch <= shown'.epoch
         /\ UNCHANGED shown \/ shown' = react
<1>1. UNCHANGED shown \/ shown' = react
  BY DEF Next, SocketNext, BackoffFires, Reconnect, Rerun, Connect, Disconnect, SocketOpens,
     SocketCloses, FallbackFires, TransportNext, Hold, Release, Flush, Commit,
     ServerNext, Greet, Serve, Emit, Publish, Receive, vars, transportVars
<1> QED BY <1>1 DEF GateInv, TypeOK, Views, FollowInv, Told

LEMMA RecordStep ==
  ASSUME GateInv, [Next]_vars
  PROVE  /\ record \in 0 .. MaxFrames /\ record' \in Int
         /\ record <= record'
<1>1. sent \in [Channels -> 0 .. MaxFrames] /\ Channel \in Channels /\ record \in 0 .. MaxFrames
  BY ViewAssumption DEF GateInv, TypeOK, record
<1>2. UNCHANGED sent \/ \E d \in Channels : sent' = [sent EXCEPT ![d] = @ + 1]
  BY DEF Next, SocketNext, BackoffFires, Reconnect, Rerun, Connect, Disconnect, SocketOpens,
     SocketCloses, FallbackFires, TransportNext, Hold, Release, Flush, Commit,
     ServerNext, Greet, Serve, Emit, Publish, Receive, vars, serverVars
<1>3. record' = record \/ record' = record + 1
  BY <1>1, <1>2 DEF record
<1> QED BY <1>1, <1>3, SocketAssumption

\* While its channel is held and the session lasts, an answered channel stays
\* answered, and an undoubted answer is the last.
LEMMA AnswerStays ==
  ASSUME InMicrotask, GateInv, FollowInv, Answered, [Next]_vars, Knows', shown'.epoch = shown.epoch,
         NEW c \in Channels, held[c].count > 0
  PROVE  /\ Knows /\ UNCHANGED <<current, shown>>
         /\ held[c].state \in Answers =>
               /\ held'[c].state \in Answers
               /\ c \notin doubted => held'[c].state = held[c].state /\ c \notin doubted'
<1>1. ~(Commit /\ react.epoch # shown.epoch)
  BY DEF Commit
<1>2. /\ Knows /\ UNCHANGED <<current, shown>>
      /\ \/ \E d \in Channels : Hold(d) \/ Release(d)
         \/ Flush
         \/ \E s \in Sockets : Receive(s)
         \/ Calm
  BY <1>1, SessionStep
<1>3. InMap(c) /\ (c \notin doubted /\ held[c].state \in Answers => Clear(c))
  BY <1>2 DEF Answered, FollowInv, Counted
<1> DEFINE Same == held'[c].state = held[c].state /\ (c \in doubted' <=> c \in doubted)
<1>4. ASSUME NEW d \in Channels, Hold(d) PROVE Same
  BY <1>2, <1>3, <1>4, HoldInSession
<1>5. ASSUME NEW d \in Channels, Release(d) PROVE Same
  BY <1>5 DEF Release, GateInv, TypeOK, Holds
<1>6. CASE Flush
  <2>1. held'[c] = held[c] /\ (c \in doubted' <=> c \in doubted)
    BY <1>2, <1>6, FlushInSession
  <2> QED BY <1>2, <2>1
<1>7. ASSUME NEW s \in Sockets, Receive(s)
      PROVE  Same \/ (~Clear(c) /\ held'[c].state \in Answers)
  <2>1. \/ held'[c] = held[c] /\ (c \in doubted' <=> c \in doubted)
        \/ ~Clear(c) /\ held'[c].state \in Answers
    BY <1>2, <1>7, ReceiveInSession
  <2> QED BY <2>1
<1>8. CASE Calm
  BY <1>2, <1>8, CalmSteps
<1> QED BY <1>2, <1>3, <1>4, <1>5, <1>6, <1>7, <1>8

\* Beside what the view receives, a step in a session keeps the hints on their
\* way, and sends one when the record moves.
LEMMA HintsStay ==
  ASSUME GateInv, FollowInv, Knows, Knows',
         \/ SocketNext \/ ServerNext \/ Flush \/ UNCHANGED vars
         \/ \E c \in Channels : Hold(c) \/ Publish(c) \/ Release(c)
  PROVE  /\ HintComing => HintComing'
         /\ record' = record \/ HintComing' \/ subs[current][Channel] # "subscribed"
<1>1. CASE SocketNext \/ ServerNext \/ (\E c \in Channels : Publish(c)) \/ UNCHANGED vars
  <2>1. Calm
    BY <1>1, CalmStep
  <2> QED BY <2>1, CalmSteps DEF record
<1>2. CASE Flush \/ \E c \in Channels : Hold(c) \/ Release(c)
  <2>1. UNCHANGED <<current, replies, sent>>
    BY <1>2 DEF Flush, Hold, Release, serverVars, socketVars
  <2> QED BY <2>1 DEF HintComing, record
<1> QED BY <1>1, <1>2

LEMMA TailDiffers ==
  ASSUME NEW rs \in Seq(Replies), rs # <<>>
  PROVE  Tail(rs) # rs
<1>1. DOMAIN rs = 1 .. Len(rs) /\ DOMAIN Tail(rs) = 1 .. Len(rs) - 1 /\ Len(rs) \in Nat \ {0}
  BY HeadTailProperties, LenProperties
<1>2. Len(rs) \in DOMAIN rs /\ Len(rs) \notin DOMAIN Tail(rs)
  BY <1>1
<1> QED BY <1>2

-----------------------------------------------------------------------------
(* The view: what it takes for live                                        *)

\* Every step of the view is one of the socket's system, or beside it.
LEMMA ViewSteps == [ViewNext]_allVars => [Next]_vars
<1> SUFFICES ASSUME [ViewNext]_allVars PROVE [Next]_vars
  OBVIOUS
<1>1. CASE SocketStep
  BY <1>1 DEF SocketStep, Next, TransportNext
<1>2. CASE Receives
  BY <1>2 DEF Receives, Deliver, Next
<1>3. CASE Render
  BY <1>3 DEF Render, Next, TransportNext
<1>4. CASE Mount \/ Unmount
  BY <1>4, ViewAssumption DEF Mount, Unmount, Next, TransportNext
<1>5. CASE Loop
  BY <1>5 DEF Loop, CoalesceFires, PollFires, Answer, ReadEnds, SetLive
<1>6. CASE UNCHANGED allVars
  BY <1>6 DEF allVars
<1> QED BY <1>1, <1>2, <1>3, <1>4, <1>5, <1>6 DEF ViewNext

SeenStates == [state : {"unheld", "pending", "subscribed", "refused"}, epoch : Nat]

\* The loop's own state, and what it did not hear of.
LoopTypes == /\ {blind, live, poll, queued, coalescing, failing} \subseteq BOOLEAN
             /\ reading \in {Idle, Asking} \cup 0 .. MaxFrames
             /\ data \in {NoData} \cup 0 .. MaxFrames

ViewTypes == /\ mounted \in BOOLEAN
             /\ seen \in SeenStates /\ seenShown \in SeenStates
             /\ LoopTypes

\* A mounted view holds its channel and has seen the state it is in.
Holding == /\ mounted => held[Channel].count > 0 /\ seen.state = held[Channel].state
           /\ ~mounted => seen = NotSeen /\ seenShown = NotSeen

\* Nothing was seen in a session later than the transport's.
Dated == seen.epoch <= shown.epoch /\ seenShown.epoch <= shown.epoch

\* A channel rendered as answered in the session is answered.
Rendered == Knows /\ seenShown.state \in Answers /\ seenShown.epoch = shown.epoch
                => held[Channel].state \in Answers

SeenInv == ViewTypes /\ Holding /\ Dated /\ Rendered

LEMMA NoticedTyped ==
  ASSUME GateInv', ViewTypes, Noticed
  PROVE  seen' \in SeenStates
<1>1. held'[Channel].state \in {"unheld", "pending", "subscribed", "refused"} /\ shown'.epoch \in Nat
  BY ViewAssumption DEF GateInv, TypeOK, Holds, Views
<1> QED BY <1>1 DEF Noticed, ViewTypes, SeenStates

LEMMA LoopTyped ==
  ASSUME GateInv, GateInv', LoopTypes, [ViewNext]_allVars
  PROVE  LoopTypes'
<1>1. record \in 0 .. MaxFrames
  BY ViewAssumption DEF GateInv, TypeOK, record
<1>2. ASSUME Read PROVE reading' \in {Idle, Asking} \cup 0 .. MaxFrames
                        /\ {poll', queued', coalescing'} \subseteq BOOLEAN
  BY <1>2 DEF Read, LoopTypes
<1>3. ASSUME Hint PROVE reading' \in {Idle, Asking} \cup 0 .. MaxFrames
                        /\ {poll', queued', coalescing'} \subseteq BOOLEAN
  BY <1>2, <1>3 DEF Hint, LoopTypes
<1>4. \A isLive, fails : Schedule(isLive, fails) => poll' \in BOOLEAN
  BY DEF Schedule, Cadence
<1>5. Live \in BOOLEAN
  BY DEF Live
<1>6. CASE SocketStep \/ Render \/ UNCHANGED allVars
  <2>1. UNCHANGED loopVars
    BY <1>6 DEF SocketStep, Beside, Render, allVars, viewVars
  <2>2. blind' \in {blind, TRUE, (blind \/ Unheard)}
    BY <1>6 DEF SocketStep, Beside, Render, allVars, viewVars
  <2>3. blind' \in BOOLEAN
    BY <2>2 DEF LoopTypes
  <2> QED BY <2>1, <2>3 DEF loopVars, LoopTypes
<1>7. ASSUME NEW s \in Sockets, Deliver(s) PROVE LoopTypes'
  BY <1>3, <1>7 DEF Deliver, LoopTypes
<1>8. CASE Mount \/ Unmount
  BY <1>8 DEF Mount, Unmount, LoopTypes
<1>9. CASE CoalesceFires
  BY <1>2, <1>9 DEF CoalesceFires, LoopTypes
<1>10. CASE PollFires
  BY <1>2, <1>10 DEF PollFires, LoopTypes
<1>11. CASE Answer
  BY <1>1, <1>11 DEF Answer, LoopTypes
<1>12. ASSUME NEW fails \in BOOLEAN, ReadEnds(fails) PROVE LoopTypes'
  <2>1. data' \in {NoData} \cup 0 .. MaxFrames
    BY <1>12 DEF ReadEnds, LoopTypes
  <2>2. reading' \in {Idle, Asking}
    BY <1>12 DEF ReadEnds
  <2>3. {blind', live', queued', coalescing', failing', poll'} \subseteq BOOLEAN
    BY <1>4, <1>12 DEF ReadEnds, LoopTypes
  <2> QED BY <2>1, <2>2, <2>3 DEF LoopTypes
<1>13. CASE SetLive
  <2>1. live' \in BOOLEAN /\ UNCHANGED <<blind, failing, data>>
    BY <1>5, <1>13 DEF SetLive
  <2>2. \/ Read
        \/ Schedule(FALSE, failing) /\ UNCHANGED <<reading, queued, coalescing>>
        \/ UNCHANGED <<reading, queued, coalescing, poll>>
    BY <1>13 DEF SetLive
  <2>3. reading' \in {Idle, Asking} \cup 0 .. MaxFrames /\ {poll', queued', coalescing'} \subseteq BOOLEAN
    BY <1>2, <1>4, <2>2 DEF LoopTypes
  <2> QED BY <2>1, <2>3 DEF LoopTypes
<1> QED BY <1>6, <1>7, <1>8, <1>9, <1>10, <1>11, <1>12, <1>13 DEF ViewNext, Receives, Loop

\* What the view notices of a step keeps it up with its channel.
LEMMA NoticedKeeps ==
  ASSUME GateInv, GateInv', FollowInv, [Next]_vars, SeenInv, Noticed, mounted' = mounted,
         mounted => ~(Release(Channel) /\ held[Channel].count = 1)
  PROVE  /\ mounted => held'[Channel].count > 0 /\ seen'.state = held'[Channel].state
         /\ ~mounted => seen' = NotSeen
         /\ seen' \in SeenStates
         /\ seen'.epoch <= shown'.epoch
<1>1. shown.epoch \in Nat /\ shown'.epoch \in Nat /\ shown.epoch <= shown'.epoch
  BY ShownStep
<1>2. seen' \in SeenStates
  BY NoticedTyped DEF SeenInv
<1>3. mounted => held'[Channel].count > 0
  BY ViewAssumption, HoldsStay DEF SeenInv, Holding
<1>4. mounted => seen'.state = held'[Channel].state
  BY DEF Noticed, SeenInv, Holding
<1>5. ~mounted => seen' = NotSeen
  BY DEF Noticed, SeenInv, Holding
<1>6. seen'.epoch <= shown'.epoch
  BY <1>1 DEF Noticed, SeenInv, Dated, ViewTypes, SeenStates
<1> QED BY <1>2, <1>3, <1>4, <1>5, <1>6

\* A step that renders nothing leaves what was rendered true.
LEMMA RenderedKept ==
  ASSUME InMicrotask, GateInv, FollowInv, Answered, [Next]_vars, SeenInv, seenShown' = seenShown
  PROVE  Rendered'
<1> SUFFICES ASSUME Knows', seenShown.state \in Answers, seenShown.epoch = shown'.epoch
             PROVE  held'[Channel].state \in Answers
  BY DEF Rendered
<1>1. shown'.epoch = shown.epoch
  BY ShownStep DEF SeenInv, Dated, ViewTypes, SeenStates
<1>2. held[Channel].count > 0
  BY DEF SeenInv, Holding, NotSeen, Answers, ViewTypes
<1>3. Knows /\ (held[Channel].state \in Answers => held'[Channel].state \in Answers)
  BY <1>1, <1>2, AnswerStays, ViewAssumption
<1>4. held[Channel].state \in Answers
  BY <1>1, <1>3 DEF SeenInv, Rendered
<1> QED BY <1>3, <1>4

LEMMA SeenStep ==
  ASSUME InMicrotask, GateInv, GateInv', FollowInv, Answered, [ViewNext]_allVars, SeenInv
  PROVE  SeenInv'
<1>1. [Next]_vars /\ LoopTypes' /\ Channel \in Channels
  BY ViewSteps, LoopTyped, ViewAssumption DEF SeenInv, ViewTypes
<1>2. shown.epoch \in Nat /\ shown'.epoch \in Nat /\ shown.epoch <= shown'.epoch
  BY <1>1, ShownStep
<1>3. ASSUME Noticed, UNCHANGED <<mounted, seenShown>>,
             mounted => ~(Release(Channel) /\ held[Channel].count = 1)
      PROVE  SeenInv'
  <2>1. /\ mounted => held'[Channel].count > 0 /\ seen'.state = held'[Channel].state
        /\ ~mounted => seen' = NotSeen
        /\ seen' \in SeenStates
        /\ seen'.epoch <= shown'.epoch
    BY <1>1, <1>3, NoticedKeeps
  <2>2. Rendered'
    BY <1>1, <1>3, RenderedKept
  <2>3. Holding'
    BY <1>3, <2>1 DEF SeenInv, Holding
  <2>4. Dated'
    BY <1>2, <1>3, <2>1 DEF SeenInv, Dated, ViewTypes, SeenStates
  <2> QED BY <1>1, <1>3, <2>1, <2>2, <2>3, <2>4 DEF SeenInv, ViewTypes
<1>4. ASSUME UNCHANGED vars, UNCHANGED <<mounted, seen, seenShown>> PROVE SeenInv'
  <2>1. UNCHANGED <<shown, held, established, react, doubted>>
    BY <1>4 DEF vars, socketVars, transportVars
  <2> QED BY <1>1, <1>4, <2>1 DEF SeenInv, ViewTypes, Holding, Dated, Rendered, Knows
<1>5. CASE SocketStep
  <2>1. mounted => ~(Release(Channel) /\ held[Channel].count = 1)
    <3>1. \/ SocketNext \/ ServerNext \/ Flush
          \/ \E c \in Channels : \/ Hold(c) \/ Publish(c)
                                 \/ Release(c) /\ (mounted /\ c = Channel => held[c].count > 1)
      BY <1>5 DEF SocketStep
    <3>2. ASSUME mounted, Release(Channel), held[Channel].count = 1 PROVE FALSE
      <4>1. held'[Channel].count = 0 /\ UNCHANGED <<shown, wire, queue>>
        BY <1>1, <3>2 DEF Release, GateInv, TypeOK, Holds, socketVars
      <4>2. held[Channel].count > 0 /\ held'[Channel].count # held[Channel].count
        BY <3>2, <4>1
      <4>3. ~(SocketNext \/ ServerNext \/ \E c \in Channels : Publish(c))
        BY <4>2 DEF SocketNext, BackoffFires, Reconnect, Rerun, Connect, Disconnect, SocketOpens,
           SocketCloses, FallbackFires, ServerNext, Greet, Serve, Emit, Publish, transportVars
      <4>4. ~Flush
        <5>1. flushing' = TRUE
          BY <3>2 DEF Release
        <5> QED BY <5>1 DEF Flush
      <4>5. ASSUME NEW c \in Channels, Hold(c) PROVE FALSE
        <5>1. taken' = taken + 1 /\ taken' = taken /\ taken \in Nat
          BY <3>2, <4>5 DEF Hold, Release, GateInv, TypeOK
        <5> QED BY <5>1
      <4>6. ASSUME NEW c \in Channels, Release(c), mounted /\ c = Channel => held[c].count > 1 PROVE FALSE
        <5>1. c # Channel
          BY <3>2, <4>6
        <5>2. held'[Channel] = held[Channel]
          BY <1>1, <4>6, <5>1 DEF Release, GateInv, TypeOK
        <5> QED BY <4>2, <5>2
      <4> QED BY <3>1, <4>3, <4>4, <4>5, <4>6
    <3> QED BY <3>2
  <2> QED BY <1>3, <1>5, <2>1 DEF SocketStep, Beside
<1>6. ASSUME NEW s \in Sockets, Deliver(s) PROVE SeenInv'
  <2>1. ~Release(Channel)
    <3>1. /\ replies[s] \in Seq(Replies) /\ replies[s] # <<>>
          /\ replies' = [replies EXCEPT ![s] = Tail(@)]
          /\ replies \in [Sockets -> Seq(Replies)]
      BY <1>6, ReceivedOnOpen DEF Deliver, GateInv, TypeOK
    <3>2. replies'[s] # replies[s]
      BY <3>1, TailDiffers
    <3> QED BY <3>2 DEF Release, serverVars
  <2> QED BY <1>3, <1>6, <2>1 DEF Deliver
<1>7. CASE Render
  <2>1. ~Release(Channel) /\ mounted' = mounted /\ Noticed /\ seenShown' = seen
        /\ (Commit \/ UNCHANGED vars)
    <3>1. Commit => shown' # shown
      BY DEF Commit
    <3>2. UNCHANGED vars => UNCHANGED held
      BY DEF vars, transportVars
    <3>3. Release(Channel) => UNCHANGED shown /\ held'[Channel].count # held[Channel].count
      BY <1>1 DEF Release, GateInv, TypeOK, Holds
    <3> QED BY <1>7, <3>1, <3>2, <3>3 DEF Render
  <2>2. /\ mounted => held'[Channel].count > 0 /\ seen'.state = held'[Channel].state
        /\ ~mounted => seen' = NotSeen
        /\ seen' \in SeenStates
        /\ seen'.epoch <= shown'.epoch
    BY <1>1, <2>1, NoticedKeeps
  <2>3. Rendered'
    <3> SUFFICES ASSUME Knows', seen.state \in Answers, seen.epoch = shown'.epoch
                 PROVE  held'[Channel].state \in Answers
      BY <2>1 DEF Rendered
    <3>1. shown'.epoch = shown.epoch
      BY <1>2 DEF SeenInv, Dated, ViewTypes, SeenStates
    <3>2. held[Channel].count > 0 /\ seen.state = held[Channel].state
      BY DEF SeenInv, Holding, NotSeen, Answers, ViewTypes
    <3> QED BY <1>1, <3>1, <3>2, AnswerStays
  <2>4. Holding'
    BY <2>1, <2>2 DEF SeenInv, Holding
  <2>5. Dated'
    BY <1>2, <2>1, <2>2 DEF SeenInv, Dated, ViewTypes, SeenStates
  <2> QED BY <1>1, <2>1, <2>2, <2>3, <2>4, <2>5 DEF SeenInv, ViewTypes
<1>8. CASE Mount
  <2>1. /\ ~mounted /\ mounted' = TRUE /\ Hold(Channel) /\ seenShown' = seenShown
        /\ seen' = [state |-> held'[Channel].state, epoch |-> shown.epoch] /\ shown' = shown
    BY <1>8 DEF Mount, Hold
  <2>2. held'[Channel].count > 0
    <3>1. held'[Channel].count = held[Channel].count + 1 /\ held[Channel].count \in Nat
      BY <1>1, <2>1 DEF Hold, GateInv, TypeOK, Holds
    <3> QED BY <3>1
  <2>3. seen' \in SeenStates
    <3>1. held'[Channel].state \in {"unheld", "pending", "subscribed", "refused"}
      BY <1>1 DEF GateInv, TypeOK, Holds
    <3> QED BY <1>2, <2>1, <3>1 DEF SeenStates
  <2>4. Rendered'
    BY <2>1 DEF SeenInv, Holding, Rendered, NotSeen, Answers
  <2>5. Holding' /\ Dated'
    BY <1>2, <2>1, <2>2 DEF SeenInv, Holding, Dated
  <2> QED BY <1>1, <2>1, <2>3, <2>4, <2>5 DEF SeenInv, ViewTypes
<1>9. CASE Unmount
  <2>1. mounted' = FALSE /\ seen' = NotSeen /\ seenShown' = NotSeen /\ shown' = shown
    BY <1>9 DEF Unmount, Release
  <2>2. NotSeen \in SeenStates /\ NotSeen.epoch = 0 /\ NotSeen.state = "unheld"
    BY DEF NotSeen, SeenStates, NoSession
  <2>3. Holding' /\ Rendered'
    BY <2>1, <2>2 DEF Holding, Rendered, Answers
  <2>4. Dated'
    BY <1>2, <2>1, <2>2 DEF Dated
  <2> QED BY <1>1, <2>1, <2>2, <2>3, <2>4 DEF SeenInv, ViewTypes
<1>10. CASE Loop
  BY <1>4, <1>10 DEF Loop, CoalesceFires, PollFires, Answer, ReadEnds, SetLive
<1>11. CASE UNCHANGED allVars
  BY <1>4, <1>11 DEF allVars, viewVars
<1> QED BY <1>5, <1>6, <1>7, <1>8, <1>9, <1>10, <1>11 DEF ViewNext, Receives

\* What is live is subscribed, without a refusal to render and without doubt.
LEMMA LiveSubscribed ==
  ASSUME GateInv, FollowInv, Answered, SeenInv, Live, Knows, Channel \notin doubted,
         seen.state # "refused"
  PROVE  /\ mounted /\ CurrentIsOpen
         /\ subs[current][Channel] = "subscribed"
<1>1. mounted
  BY DEF Live, SeenInv, Holding, NotSeen, ViewTypes
<1>2. CurrentIsOpen
  BY KnowsSession
<1>3. held[Channel].count > 0 /\ held[Channel].state = "subscribed"
  BY <1>1 DEF SeenInv, Holding, Rendered, Live, Answers
<1>4. InMap(Channel) /\ Channel \in Channels
  BY <1>3, ViewAssumption DEF InMap
<1>5. Clear(Channel)
  BY <1>3, <1>4 DEF Answered, Answers
<1>6. LastSays(replies[current], "subscribed", subs[current][Channel], Channel)
  BY <1>3, <1>4, <1>5 DEF FollowInv, Follows, Clear
<1>7. "subscribed" = subs[current][Channel]
  BY <1>5, <1>6 DEF LastSays, Clear
<1> QED BY <1>1, <1>2, <1>7

-----------------------------------------------------------------------------
(* The view: what it takes to be fresh                                     *)

\* Each read is answered with what the record is by then.
Versions == /\ data <= record
            /\ reading >= 0 => data <= reading /\ reading <= record

\* A read that is asked for, or will be.
ReadComing == \/ reading = Asking
              \/ reading # Idle /\ queued
              \/ coalescing
              \/ HintComing

\* A live loop of a live view, in a session the transport knows, has the record
\* as it is, or reads it: at once, after the present read, in answer to a hint,
\* or at the next poll because the last read failed.  It may miss what it did
\* not hear of, in doubt, and what follows a refusal that it has yet to render.
Denied == seen.state = "refused" /\ Channel \notin doubted
Catches == mounted /\ live /\ Live /\ Knows /\ ~Denied =>
    \/ blind
    \/ ReadComing
    \/ reading # Idle /\ reading = record
    \/ reading = Idle /\ (data = record \/ failing)

ViewInv == Answered /\ SeenInv /\ Versions /\ Catches

LEMMA VersionsStep ==
  ASSUME GateInv, LoopTypes, Versions, [ViewNext]_allVars
  PROVE  Versions'
<1>1. record \in Nat /\ record' \in Int /\ record <= record'
  BY ViewSteps, RecordStep
<1>2. /\ reading \in {Idle, Asking} \cup Nat /\ data \in {NoData} \cup Nat
  BY SocketAssumption DEF LoopTypes
<1>3. ASSUME UNCHANGED <<reading, data>> PROVE Versions'
  BY <1>1, <1>2, <1>3 DEF Versions, Idle, Asking, NoData
<1>4. ASSUME reading' \in {Idle, Asking}, data' \in {data, NoData} PROVE Versions'
  BY <1>1, <1>2, <1>4 DEF Versions, Idle, Asking, NoData
<1>5. ASSUME Read \/ Hint, data' = data PROVE Versions'
  <2>1. reading' = reading \/ reading' = Asking
    BY <1>5 DEF Read, Hint
  <2> QED BY <1>3, <1>4, <1>5, <2>1
<1>6. CASE SocketStep \/ Render \/ UNCHANGED allVars
  BY <1>3, <1>6 DEF SocketStep, Beside, Render, loopVars, allVars, viewVars
<1>7. ASSUME NEW s \in Sockets, Deliver(s) PROVE Versions'
  BY <1>3, <1>5, <1>7 DEF Deliver
<1>8. CASE Mount \/ Unmount
  BY <1>4, <1>8 DEF Mount, Unmount
<1>9. CASE CoalesceFires \/ PollFires
  <2>1. data' = data /\ (Read \/ reading' = reading)
    BY <1>9 DEF CoalesceFires, PollFires
  <2> QED BY <1>3, <1>5, <2>1
<1>10. CASE Answer
  <2>1. reading' = record /\ data' = data /\ record' = record
    BY <1>10 DEF Answer, record, vars, serverVars
  <2> QED BY <1>1, <1>2, <2>1 DEF Versions
<1>11. ASSUME NEW fails \in BOOLEAN, ReadEnds(fails) PROVE Versions'
  <2>1. reading' \in {Idle, Asking} /\ data' \in {data, reading} /\ reading \notin {Idle, Asking}
    BY <1>11 DEF ReadEnds
  <2>2. reading \in Nat /\ reading <= record
    BY <1>2, <2>1 DEF Versions
  <2> QED BY <1>1, <1>2, <2>1, <2>2 DEF Versions, Idle, Asking, NoData
<1>12. CASE SetLive
  <2>1. data' = data /\ (Read \/ reading' = reading)
    BY <1>12 DEF SetLive
  <2> QED BY <1>3, <1>5, <2>1
<1> QED BY <1>6, <1>7, <1>8, <1>9, <1>10, <1>11, <1>12 DEF ViewNext, Receives, Loop

\* The view that is live after a step that leaves what it rendered was live
\* before, in the same session, and had not been denied.
LEMMA StillLive ==
  ASSUME InMicrotask, GateInv, FollowInv, Answered, SeenInv, SeenInv', [Next]_vars,
         mounted, mounted', Knows', ~Denied', shown'.epoch = shown.epoch
  PROVE  /\ Knows /\ UNCHANGED <<current, shown>> /\ ~Denied
         /\ seenShown' = seenShown => (Live' <=> Live)
<1>1. /\ held[Channel].count > 0
      /\ seen.state = held[Channel].state /\ seen'.state = held'[Channel].state
  BY DEF SeenInv, Holding
<1>2. /\ Knows /\ UNCHANGED <<current, shown>>
      /\ held[Channel].state = "refused" /\ Channel \notin doubted
            => held'[Channel].state = "refused" /\ Channel \notin doubted'
  BY <1>1, AnswerStays, ViewAssumption DEF Answers
<1>3. ~Denied
  BY <1>1, <1>2 DEF Denied
<1> QED BY <1>2, <1>3 DEF Live

LEMMA LiveEpoch ==
  ASSUME GateInv, FollowInv, SeenInv, [Next]_vars, Live',
         seenShown' = seenShown \/ seenShown' = seen
  PROVE  shown'.epoch = shown.epoch
<1>1. seenShown'.epoch <= shown.epoch /\ seenShown'.epoch = shown'.epoch
  BY DEF Live, SeenInv, Dated
<1> QED BY <1>1, ShownStep

LEMMA CatchesStep ==
  ASSUME InMicrotask, GateInv, FollowInv, ViewInv, SeenInv', [ViewNext]_allVars
  PROVE  Catches'
<1> USE DEF ViewInv
<1> SUFFICES ASSUME mounted', live', Live', Knows', ~Denied'
             PROVE  \/ blind'
                    \/ ReadComing'
                    \/ reading' # Idle /\ reading' = record'
                    \/ reading' = Idle /\ (data' = record' \/ failing')
  BY DEF Catches
<1> DEFINE Caught == \/ blind'
                     \/ ReadComing'
                     \/ reading' # Idle /\ reading' = record'
                     \/ reading' = Idle /\ (data' = record' \/ failing')
<1>1. [Next]_vars
  BY ViewSteps
<1>t. LoopTypes /\ Idle # Asking /\ Idle \notin Nat /\ Asking \notin Nat
  BY DEF SeenInv, ViewTypes, Idle, Asking
<1>2. ASSUME mounted, live, UNCHANGED <<seenShown>>
      PROVE  /\ Knows /\ UNCHANGED <<current, shown>> /\ ~Denied /\ Live
             /\ CurrentIsOpen
             /\ Channel \notin doubted => subs[current][Channel] = "subscribed"
             /\ \/ blind
                \/ ReadComing
                \/ reading # Idle /\ reading = record
                \/ reading = Idle /\ (data = record \/ failing)
  <2>1. /\ Knows /\ UNCHANGED <<current, shown>> /\ ~Denied /\ Live
    BY <1>1, <1>2, LiveEpoch, StillLive
  <2>2. CurrentIsOpen /\ (Channel \notin doubted => subs[current][Channel] = "subscribed")
    BY <2>1, KnowsSession, LiveSubscribed DEF Denied
  <2> QED BY <1>2, <2>1, <2>2 DEF Catches
<1>3. CASE SocketStep
  <2>1. UNCHANGED <<mounted, seenShown, loopVars>> /\ (blind \/ Unheard => blind')
    BY <1>3 DEF SocketStep, Beside
  <2>2. UNCHANGED <<live, reading, queued, coalescing, failing, data>>
    BY <2>1 DEF loopVars
  <2>3. /\ HintComing => HintComing'
        /\ record' = record \/ HintComing' \/ Unheard
    BY <1>2, <1>3, <2>1, <2>2, HintsStay DEF SocketStep, Unheard
  <2> QED BY <1>2, <2>1, <2>2, <2>3 DEF ReadComing
<1>4. ASSUME NEW s \in Sockets, Deliver(s) PROVE Caught
  <2>1. UNCHANGED <<mounted, seenShown, blind, live, failing, data>>
    BY <1>4 DEF Deliver
  <2>2. Receive(s) /\ Knows /\ UNCHANGED record
    BY <1>2, <1>4, <2>1 DEF Deliver, Receive, record
  <2>3. CASE Hints(Head(replies[s]))
    <3>1. Hint
      BY <1>4, <2>1, <2>3 DEF Deliver
    <3> QED BY <1>t, <3>1 DEF Hint, Read, ReadComing
  <2>4. CASE ~Hints(Head(replies[s]))
    <3>1. UNCHANGED <<reading, queued, coalescing>>
      BY <1>4, <2>4 DEF Deliver
    <3>2. HintComing => HintComing'
      <4>1. /\ s = current /\ current' = current /\ replies[s] \in Seq(Replies) /\ replies[s] # <<>>
            /\ replies'[s] = Tail(replies[s])
        BY <1>2, <2>1, <2>2, ReceivedOnOpen DEF GateInv, TypeOK
      <4>2. \A i \in DOMAIN replies[s] : replies[s][i] # Head(replies[s])
               => \E j \in DOMAIN Tail(replies[s]) : Tail(replies[s])[j] = replies[s][i]
        BY <4>1, AnswersTail
      <4> QED BY <2>4, <4>1, <4>2 DEF HintComing
    <3> QED BY <1>2, <2>1, <2>2, <3>1, <3>2 DEF ReadComing
  <2> QED BY <2>3, <2>4
<1>5. CASE Render
  <2>1. UNCHANGED <<mounted, blind, loopVars>> /\ seenShown' = seen
    BY <1>5 DEF Render
  <2>2. UNCHANGED <<live, reading, queued, coalescing, failing, data>>
    BY <2>1 DEF loopVars
  <2>3. live = Live
    BY <1>5, <2>1 DEF Render
  <2>4. /\ Knows /\ UNCHANGED <<current, shown>> /\ ~Denied
    BY <1>1, <2>1, LiveEpoch, StillLive
  <2>5. \/ blind
        \/ ReadComing
        \/ reading # Idle /\ reading = record
        \/ reading = Idle /\ (data = record \/ failing)
    BY <2>1, <2>2, <2>3, <2>4 DEF Catches
  <2>6. UNCHANGED <<sent, replies>>
    BY <1>5 DEF Render, Commit, serverVars, vars
  <2> QED BY <2>1, <2>2, <2>4, <2>5, <2>6 DEF ReadComing, HintComing, record
<1>6. CASE Mount \/ Unmount
  BY <1>6 DEF Mount, Unmount
<1>7. ASSUME UNCHANGED <<vars, mounted, seen, seenShown>>
      PROVE  /\ UNCHANGED record /\ (HintComing' <=> HintComing) /\ mounted
             /\ Live' <=> Live
  <2>1. UNCHANGED <<sent, replies, current, shown>>
    BY <1>7 DEF vars, socketVars, transportVars, serverVars
  <2> QED BY <1>7, <2>1 DEF record, HintComing, Live
<1>8. ASSUME Read PROVE ReadComing'
  BY <1>8, <1>t DEF Read, ReadComing
<1>9. CASE CoalesceFires
  <2>1. \/ reading # Idle /\ queued' = TRUE /\ reading' = reading
        \/ Read
    BY <1>9 DEF CoalesceFires
  <2> QED BY <1>8, <2>1 DEF ReadComing
<1>10. CASE PollFires
  BY <1>8, <1>10 DEF PollFires
<1>11. CASE Answer
  <2>1. reading' = record
    BY <1>11 DEF Answer
  <2>2. UNCHANGED record
    BY <1>7, <1>11 DEF Answer
  <2>3. record \in Nat
    BY <1>1, RecordStep
  <2> QED BY <1>t, <2>1, <2>2, <2>3
<1>12. ASSUME NEW fails \in BOOLEAN, ReadEnds(fails) PROVE Caught
  <2>1. UNCHANGED <<vars, mounted, seen, seenShown, blind, live>> /\ reading \notin {Idle, Asking}
    BY <1>12 DEF ReadEnds
  <2>2. UNCHANGED record /\ (HintComing' <=> HintComing) /\ mounted
    BY <1>7, <2>1
  <2>3. blind' \/ ReadComing \/ reading = record
    BY <1>2, <2>1, <2>2
  <2>4. CASE queued
    BY <1>12, <2>4 DEF ReadEnds, ReadComing
  <2>5. CASE ~queued
    <3>1. reading' = Idle /\ UNCHANGED coalescing /\ failing' = fails
          /\ data' = IF fails THEN data ELSE reading
      BY <1>12, <2>5 DEF ReadEnds
    <3>2. CASE reading = record
      BY <2>2, <3>1, <3>2
    <3>3. CASE ReadComing
      BY <2>1, <2>2, <2>5, <3>1, <3>3 DEF ReadComing
    <3> QED BY <2>3, <3>2, <3>3
  <2> QED BY <2>4, <2>5
<1>13. CASE SetLive
  <2>1. Live
    BY <1>7, <1>13 DEF SetLive
  <2>2. Read
    BY <1>13, <2>1 DEF SetLive
  <2> QED BY <1>8, <2>2
<1>14. CASE UNCHANGED allVars
  <2>1. UNCHANGED <<vars, mounted, seen, seenShown, blind, live, reading, queued, coalescing,
                    failing, data>>
    BY <1>14 DEF allVars, viewVars, loopVars
  <2>2. UNCHANGED record /\ (HintComing' <=> HintComing) /\ mounted
    BY <1>7, <2>1
  <2> QED BY <1>2, <2>1, <2>2 DEF ReadComing
<1> QED BY <1>3, <1>4, <1>5, <1>6, <1>9, <1>10, <1>11, <1>12, <1>13, <1>14 DEF ViewNext, Receives, Loop

LEMMA RecordAtFirst == Init => record = 0
BY ViewAssumption DEF Init, record

LEMMA ViewInitHolds == ViewInit => GateInv /\ FollowInv /\ ViewInv
<1> SUFFICES ASSUME ViewInit PROVE GateInv /\ FollowInv /\ ViewInv
  OBVIOUS
<1>1. GateInv /\ FollowInv
  BY GateInit, FollowInit DEF ViewInit
<1>2. ~Knows
  BY DEF ViewInit, Init, Knows
<1>3. NotSeen \in SeenStates /\ NotSeen.epoch = 0 /\ shown.epoch = 0
  BY DEF NotSeen, SeenStates, NoSession, ViewInit, Init
<1>4. SeenInv
  <2>1. ViewTypes
    BY <1>3 DEF ViewInit, ViewTypes, LoopTypes
  <2>2. Holding /\ Rendered
    BY <1>2 DEF ViewInit, Holding, Rendered
  <2>3. seen = NotSeen /\ seenShown = NotSeen
    BY DEF ViewInit
  <2>4. Dated
    BY <1>3, <2>3 DEF Dated
  <2> QED BY <2>1, <2>2, <2>4 DEF SeenInv
<1>5. Versions
  BY RecordAtFirst DEF ViewInit, Versions, NoData, Idle
<1> QED BY <1>1, <1>2, <1>4, <1>5 DEF ViewInv, Answered, Catches

LEMMA ViewInvStep ==
  ASSUME InMicrotask
  PROVE  GateInv /\ FollowInv /\ ViewInv /\ [ViewNext]_allVars => GateInv' /\ FollowInv' /\ ViewInv'
<1> SUFFICES ASSUME GateInv, FollowInv, ViewInv, [ViewNext]_allVars
             PROVE  GateInv' /\ FollowInv' /\ ViewInv'
  OBVIOUS
<1>1. [Next]_vars
  BY ViewSteps
<1>2. GateInv' /\ FollowInv'
  BY <1>1, GateStep, FollowStep
<1>3. Answered' /\ SeenInv'
  BY <1>1, <1>2, AnsweredStep, SeenStep DEF ViewInv
<1>4. Versions' /\ Catches'
  BY <1>3, VersionsStep, CatchesStep DEF ViewInv, SeenInv, ViewTypes
<1> QED BY <1>2, <1>3, <1>4 DEF ViewInv

\* The invariant of a view on the shared socket: an undoubted answer is the last
\* one on its way, the view has seen the state its channel is in, and a live view
\* has the record, reads it or has not heard that it moved.
THEOREM Viewed == ASSUME InMicrotask PROVE ViewSpec => [](GateInv /\ FollowInv /\ ViewInv)
<1>1. ViewInit => GateInv /\ FollowInv /\ ViewInv
  BY ViewInitHolds
<1>2. GateInv /\ FollowInv /\ ViewInv /\ [ViewNext]_allVars => GateInv' /\ FollowInv' /\ ViewInv'
  BY ViewInvStep
<1> QED BY <1>1, <1>2, PTL DEF ViewSpec

\* Every variable of a view, its socket and its server keeps its type.
THEOREM ViewTyped == ASSUME InMicrotask PROVE ViewSpec => []ViewTypeOK
<1>1. GateInv /\ FollowInv /\ ViewInv => ViewTypeOK
  <2> SUFFICES ASSUME GateInv, ViewInv PROVE ViewTypeOK
    OBVIOUS
  <2>1. LoopTypes /\ mounted \in BOOLEAN /\ seen \in SeenStates /\ seenShown \in SeenStates /\ TypeOK
    BY DEF GateInv, ViewInv, SeenInv, ViewTypes
  <2> QED BY <2>1 DEF LoopTypes, SeenStates, ViewTypeOK
<1> QED BY <1>1, Viewed, PTL

\* With the default scheduleRelease: a view that renders as live, while nothing
\* the hook set waits for a render, nor a refusal, and the last answer is to the
\* last frame about the channel, is subscribed on the open socket of the session.
THEOREM LiveTrue == ASSUME InMicrotask PROVE ViewSpec => []LiveIsTrue
<1>1. GateInv /\ FollowInv /\ ViewInv => LiveIsTrue
  <2> SUFFICES ASSUME GateInv, FollowInv, ViewInv, Live, shown = react, seen.state # "refused",
                      Channel \notin doubted
               PROVE  /\ current # NoSocket /\ established
                      /\ phase[current] = "open"
                      /\ subs[current][Channel] = "subscribed"
    BY DEF LiveIsTrue
  <2>1. Knows
    BY DEF Live, Knows, GateInv, InSession
  <2> QED BY <2>1, LiveSubscribed DEF ViewInv, CurrentIsOpen, Knows
<1> QED BY <1>1, Viewed, PTL

\* With the default scheduleRelease: a live view at rest shows the record as it
\* is, or as it was before it moved unheard, while a subscribe that was taken
\* back had been answered and the next had not; whatever hints were merged or
\* lost with a socket, and whatever reads failed on the way.
THEOREM LiveFresh == ASSUME InMicrotask PROVE ViewSpec => []LiveIsFresh
<1>1. GateInv /\ FollowInv /\ ViewInv => LiveIsFresh
  <2> SUFFICES ASSUME GateInv, FollowInv, ViewInv, AtRest
               PROVE  data = record \/ blind
    BY DEF LiveIsFresh
  <2>1. Knows
    BY DEF AtRest, Settled, Knows
  <2>2. ~ReadComing
    BY DEF AtRest, Settled, ReadComing, HintComing, Idle, Asking
  <2>3. ~Denied
    BY DEF AtRest, Live, Denied
  <2> QED BY <2>1, <2>2, <2>3 DEF ViewInv, Catches, AtRest
<1> QED BY <1>1, Viewed, PTL

\* What a view is composed of keeps its promises: the steps of a view beside a
\* shared socket are steps of the socket's specification.
THEOREM ViewImplementsSocket == ViewSpec => Spec
<1>1. ViewInit => Init
  BY DEF ViewInit
<1>2. [ViewNext]_allVars => [Next]_vars
  BY ViewSteps
<1> QED BY <1>1, <1>2, PTL DEF ViewSpec, Spec

=============================================================================
