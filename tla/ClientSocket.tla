---------------------------- MODULE ClientSocket ----------------------------
(***************************************************************************)
(* The browser's end: the WebSocket of client/useWebSocket.ts and the      *)
(* shared transport of client/sharedSocketTransport.ts that several        *)
(* consumers hold channels on.                                             *)
(*                                                                         *)
(* The hook keeps one current socket (wsRef) and ignores the events of     *)
(* every other.  A socket is usable once its session is established, by    *)
(* the server's session frame or by a fallback timer; frames sent between  *)
(* its opening and then wait in a queue.  A lost socket is replaced after  *)
(* a backoff.  What the hook sets as React state (react) reaches the       *)
(* transport (shown) when React commits it, which is a step of its own.    *)
(*                                                                         *)
(* The transport counts the holds of each channel.  It subscribes a held   *)
(* channel once in each session and leaves a channel in a microtask after  *)
(* its last release.                                                       *)
(*                                                                         *)
(* The server of a socket is the session frame of createWsHandler, which   *)
(* buffers the frames that come before, and the subscribe service.         *)
(***************************************************************************)
EXTENDS Integers, Sequences, FiniteSets

CONSTANTS Channels,
          MaxHolds,     \* bound: holds taken, of all channels
          MaxSockets,   \* bound: sockets made
          MaxFrames,    \* bound: frames the server sends on a channel
          Spoken,       \* bound: channels that frames are sent on
          MaxRetries,   \* maxRetries
          QueueMax,     \* MAX_PRE_SESSION_QUEUE
          InMicrotask   \* scheduleRelease is the default, queueMicrotask

ASSUME SocketAssumption == /\ IsFiniteSet(Channels)
                           /\ MaxHolds \in Nat
                           /\ MaxSockets \in Nat \ {0}
                           /\ MaxFrames \in Nat
                           /\ Spoken \subseteq Channels
                           /\ MaxRetries \in Nat
                           /\ QueueMax \in Nat \ {0}
                           /\ InMicrotask \in BOOLEAN

Sockets == 1 .. MaxSockets
NoSocket == 0
NoSession == 0       \* the epoch before the first session, and sentIn = null

VARIABLES
    phase,        \* readyState of each socket; "unmade" before its construction
    made,         \* how many were constructed
    current,      \* wsRef
    established,  \* sessionEstablishedRef
    queue,        \* pendingSendsRef
    fallback,     \* the socket the session fallback timer waits for
    backoff,      \* the reconnect timer is armed
    attempt,      \* reconnectAttemptRef
    react,        \* connectionState and sessionEpoch as last set
    shown,        \* the same as the transport was last given them
    held,         \* the transport's map, by channel
    pending,      \* channels whose last release waits for the flush
    flushing,     \* flushScheduled
    taken,        \* holds taken so far
    doubted,      \* history: channels whose last answer is not to their last frame
    wire,         \* frames on their way to the server, by socket
    greeted,      \* sockets whose session frame the server has sent
    subs,         \* the server's last answer on each channel, by socket
    replies,      \* frames on their way to the browser, by socket
    sent          \* how many frames the server has sent on each channel

socketVars == <<phase, made, current, established, queue, fallback, backoff, attempt, react>>
transportVars == <<shown, held, pending, flushing, taken, doubted>>
serverVars == <<greeted, subs, replies, sent>>
vars == <<socketVars, transportVars, serverVars, wire>>

-----------------------------------------------------------------------------
(* Frames and holds                                                        *)

Frames == [action : {"subscribe", "unsubscribe", "publish"}, of : Channels, via : Sockets]
Replies == [kind : {"session"}] \cup [kind : {"subscribed", "refused", "frame"}, of : Channels]

Views == [state : {"idle", "connecting", "connected", "reconnecting", "disconnected"}, epoch : Nat]
Unheld == [count |-> 0, sentIn |-> NoSession, state |-> "unheld"]
Holds == [count : Nat, sentIn : Nat,
          state : {"unheld", "pending", "subscribed", "refused"}]

\* A timer or an event of a socket is a task: microtasks come before it.
TaskMayRun == InMicrotask => ~flushing

InMap(c) == held[c].state # "unheld"

\* The orders in which a loop over a set of channels may visit them.
Orders(S) == {f \in [1 .. Cardinality(S) -> S] : \A c \in S : \E i \in DOMAIN f : f[i] = c}

\* The places of the frames in fs that subscribe or leave c.
About(c, fs) == {i \in DOMAIN fs : fs[i].action # "publish" /\ fs[i].of = c}

\* Whether c is asked for once the frames in fs are served: as the last answer
\* says, or subscribed with nothing but subscribes after it.
AskedBy(fs, answer, c) ==
    IF About(c, fs) = {} THEN answer # "none"
    ELSE \E i \in About(c, fs) :
            \A j \in About(c, fs) : j >= i => fs[j].action = "subscribe"

\* Messages of one action about the channels of S, on the current socket.
FramesOf(action, order) ==
    [i \in DOMAIN order |-> [action |-> action, of |-> order[i], via |-> current]]

-----------------------------------------------------------------------------
(* useWebSocket: sending                                                   *)

LastOf(q) == IF Len(q) > QueueMax THEN SubSeq(q, Len(q) - QueueMax + 1, Len(q)) ELSE q

CurrentIsOpen == current # NoSocket /\ phase[current] = "open"

\* send: dropped unless the socket is open, queued before the session.
Send(fs) ==
    \/ /\ ~CurrentIsOpen
       /\ UNCHANGED <<queue, wire>>
    \/ /\ CurrentIsOpen /\ ~established
       /\ queue' = LastOf(queue \o fs)
       /\ UNCHANGED wire
    \/ /\ CurrentIsOpen /\ established
       /\ wire' = [wire EXCEPT ![current] = @ \o fs]
       /\ UNCHANGED queue

\* publish(channel, frame), of another hook.  It matters before the session
\* only; afterwards the frame just goes out.
Publish(c) ==
    /\ c \in Spoken
    /\ ~established
    /\ Send(<<[action |-> "publish", of |-> c, via |-> current]>>)
    /\ UNCHANGED <<phase, made, current, established, fallback, backoff, attempt, react,
                   transportVars, serverVars>>

-----------------------------------------------------------------------------
(* useWebSocket: the life of a socket                                      *)

\* Mutant: the state says reconnecting and no timer is armed.
ScheduleNothing(tries, armed) ==
    \/ /\ tries >= MaxRetries
       /\ react' = [react EXCEPT !.state = "disconnected"]
       /\ attempt' = tries
       /\ backoff' = armed
    \/ /\ tries < MaxRetries
       /\ react' = [react EXCEPT !.state = "reconnecting"]
       /\ attempt' = tries + 1
       /\ backoff' = armed

\* scheduleReconnect, after `tries` attempts since the last session.
ScheduleReconnect(tries, armed) ==
    \/ /\ tries >= MaxRetries
       /\ react' = [react EXCEPT !.state = "disconnected"]
       /\ attempt' = tries
       /\ backoff' = armed
    \/ /\ tries < MaxRetries
       /\ react' = [react EXCEPT !.state = "reconnecting"]
       /\ attempt' = tries + 1
       /\ backoff' = TRUE

\* Mutant: the queue outlives its socket.
UngatedKeepingQueue == /\ established' = FALSE
                       /\ fallback' = NoSocket
                       /\ UNCHANGED queue

\* What every end and every start of a socket resets.
Ungated == /\ established' = FALSE
           /\ queue' = <<>>
           /\ fallback' = NoSocket

\* What is on its way over the sockets of S is lost, and what their servers had.
Cut(S) ==
    /\ wire' = [s \in Sockets |-> IF s \in S THEN <<>> ELSE wire[s]]
    /\ replies' = [s \in Sockets |-> IF s \in S THEN <<>> ELSE replies[s]]
    /\ subs' = [s \in Sockets |-> IF s \in S THEN [c \in Channels |-> "none"] ELSE subs[s]]
    /\ greeted' = greeted \ S

\* The sockets on which close() is called; each is one that wsRef held.
Closing(S) == [s \in Sockets |-> IF s \in S THEN "closing" ELSE phase[s]]
TheCurrent == {current} \ {NoSocket}

\* connect, after close() on the sockets of S, with wsRef, the timer and the
\* attempts as the caller leaves them.  The constructor throws for a malformed
\* url or protocol, so not when the present ones have made the current socket.
Connect(S, ref, armed, tries) ==
    /\ made < MaxSockets
    /\ made' = made + 1
    /\ Ungated
    /\ Cut(S)
    /\ \/ /\ phase' = [Closing(S) EXCEPT ![made + 1] = "connecting"]
          /\ current' = made + 1
          /\ react' = [react EXCEPT !.state = "connecting"]
          /\ backoff' = armed
          /\ attempt' = tries
       \/ /\ ref = NoSocket
          /\ phase' = [Closing(S) EXCEPT ![made + 1] = "closed"]
          /\ current' = ref
          /\ ScheduleReconnect(tries, armed)
    /\ UNCHANGED <<transportVars, sent>>

BackoffFires == /\ backoff
                /\ TaskMayRun
                /\ Connect({}, current, FALSE, attempt)

\* reconnect(): the armed timer is left as it is.
Reconnect == Connect(TheCurrent, NoSocket, backoff, 0)

\* The effect runs again (url or token changed, StrictMode): cleanup, connect.
Rerun == Connect(TheCurrent, NoSocket, FALSE, attempt)

Disconnect ==
    /\ Ungated
    /\ Cut(TheCurrent)
    /\ phase' = Closing(TheCurrent)
    /\ current' = NoSocket
    /\ backoff' = FALSE
    /\ react' = [react EXCEPT !.state = "disconnected"]
    /\ UNCHANGED <<made, attempt, transportVars, sent>>

\* Opening takes a round trip, by when React has committed what connect set.
SocketOpens(s) ==
    /\ phase[s] = "connecting"
    /\ TaskMayRun
    /\ s = current => shown = react
    /\ phase' = [phase EXCEPT ![s] = "open"]
    /\ fallback' = IF s = current THEN s ELSE fallback
    /\ UNCHANGED <<made, current, established, queue, backoff, attempt, react,
                   transportVars, serverVars, wire>>

\* onclose: the network or the server ends a socket, or a closing one ends.
SocketCloses(s) ==
    /\ phase[s] \in {"connecting", "open", "closing"}
    /\ TaskMayRun
    /\ phase' = [phase EXCEPT ![s] = "closed"]
    /\ Cut({s})
    /\ \/ /\ s = current
          /\ current' = NoSocket
          /\ Ungated
          /\ ScheduleReconnect(attempt, backoff)
       \/ /\ s # current
          /\ UNCHANGED <<current, established, queue, fallback, backoff, attempt, react>>
    /\ UNCHANGED <<made, transportVars, sent>>

\* establishSession(ws): a new epoch, and the queue goes out in order.
EstablishSession ==
    \/ /\ established
       /\ UNCHANGED <<established, fallback, attempt, react, queue, wire>>
    \/ /\ ~established
       /\ established' = TRUE
       /\ fallback' = NoSocket
       /\ attempt' = 0
       /\ react' = [state |-> "connected", epoch |-> react.epoch + 1]
       /\ wire' = [wire EXCEPT ![current] = @ \o queue]
       /\ queue' = <<>>

FallbackFires ==
    /\ fallback # NoSocket
    /\ fallback = current
    /\ TaskMayRun
    /\ EstablishSession
    /\ UNCHANGED <<phase, made, current, backoff, transportVars, serverVars>>

-----------------------------------------------------------------------------
(* sharedSocketTransport                                                   *)

CanSubscribe(view) == view.epoch # NoSession /\ view.state = "connected"

\* subscribe(channel)
Hold(c) ==
    /\ taken < MaxHolds
    /\ taken' = taken + 1
    /\ pending' = pending \ {c}
    /\ LET last == IF InMap(c) THEN held[c].sentIn ELSE NoSession
           state == IF InMap(c) THEN held[c].state ELSE "pending"
           ask == last # shown.epoch /\ CanSubscribe(shown)
       IN /\ held' = [held EXCEPT ![c] =
                         [count |-> @.count + 1,
                          sentIn |-> IF ask THEN shown.epoch ELSE last,
                          state |-> IF ask THEN "pending" ELSE state]]
          /\ \/ ask /\ Send(FramesOf("subscribe", <<c>>))
             \/ ~ask /\ UNCHANGED <<queue, wire>>
    /\ UNCHANGED <<phase, made, current, established, fallback, backoff, attempt, react,
                   shown, flushing, doubted, serverVars>>

\* Mutant: the release of one of several holds leaves the channel.
ReleaseAndLeave(c) ==
    /\ held[c].count > 0
    /\ held' = [held EXCEPT ![c].count = @ - 1]
    /\ \/ /\ held[c].count = 1
          /\ pending' = pending \cup {c}
          /\ flushing' = TRUE
          /\ UNCHANGED <<queue, wire>>
       \/ /\ held[c].count > 1
          /\ Send(FramesOf("unsubscribe", <<c>>))
          /\ UNCHANGED <<pending, flushing>>
    /\ UNCHANGED <<phase, made, current, established, fallback, backoff, attempt, react,
                   shown, taken, doubted, serverVars>>

\* the release of one hold
Release(c) ==
    /\ held[c].count > 0
    /\ held' = [held EXCEPT ![c].count = @ - 1]
    /\ \/ /\ held[c].count = 1
          /\ pending' = pending \cup {c}
          /\ flushing' = TRUE
       \/ /\ held[c].count > 1
          /\ UNCHANGED <<pending, flushing>>
    /\ UNCHANGED <<socketVars, shown, taken, doubted, serverVars, wire>>

\* flush, the scheduled microtask
Flush ==
    /\ flushing
    /\ flushing' = FALSE
    /\ pending' = {}
    /\ LET gone == {c \in pending : InMap(c) /\ held[c].count = 0}
           left == {c \in gone : held[c].sentIn = shown.epoch /\ CanSubscribe(shown)}
       IN /\ held' = [c \in Channels |-> IF c \in gone THEN Unheld ELSE held[c]]
          /\ doubted' = doubted \ gone
          /\ \E order \in Orders(left) : Send(FramesOf("unsubscribe", order))
    /\ UNCHANGED <<phase, made, current, established, fallback, backoff, attempt, react,
                   shown, taken, serverVars>>

\* Mutant: a hold carries the mark of the session it was sent in along.
ReboundMarked(c, epoch) ==
    CASE epoch = shown.epoch -> held[c]
      [] epoch # shown.epoch /\ held[c].count = 0 -> Unheld
      [] OTHER -> [held[c] EXCEPT !.sentIn = IF @ = NoSession THEN @ ELSE epoch]

\* What update() makes of the holds, before it subscribes again.
Rebound(c, epoch) ==
    CASE epoch = shown.epoch -> held[c]
      [] epoch # shown.epoch /\ held[c].count = 0 -> Unheld
      [] OTHER -> [held[c] EXCEPT !.sentIn = NoSession, !.state = "pending"]

\* React commits: the layout effect calls update() with send, epoch and state.
Commit ==
    /\ shown # react
    /\ shown' = react
    /\ pending' = IF react.epoch = shown.epoch THEN pending
                  ELSE {c \in pending : held[c].count > 0}
    /\ doubted' = IF react.epoch = shown.epoch THEN doubted ELSE {}
    /\ LET now == [c \in Channels |-> Rebound(c, react.epoch)]
           ask == {c \in Channels : /\ now[c].count > 0
                                    /\ now[c].sentIn # react.epoch
                                    /\ CanSubscribe(react)}
       IN /\ held' = [c \in Channels |->
                         IF c \in ask
                         THEN [now[c] EXCEPT !.sentIn = react.epoch, !.state = "pending"]
                         ELSE now[c]]
          /\ \E order \in Orders(ask) : Send(FramesOf("subscribe", order))
    /\ UNCHANGED <<phase, made, current, established, fallback, backoff, attempt, react,
                   flushing, taken, serverVars>>

\* The transport takes an answer of socket s: track.  It is in doubt while a
\* later frame about the channel is on its way there or its answer back.
Answers == {"subscribed", "refused"}
Later(s, c) == {i \in 2 .. Len(replies[s]) : replies[s][i].kind \in Answers /\ replies[s][i].of = c}
Track(s, m) ==
    IF m.kind \in Answers /\ held[m.of].count > 0
    THEN /\ held' = [held EXCEPT ![m.of].state = m.kind]
         /\ doubted' = IF About(m.of, wire[s]) = {} /\ Later(s, m.of) = {}
                       THEN doubted \ {m.of} ELSE doubted \cup {m.of}
    ELSE UNCHANGED <<held, doubted>>

-----------------------------------------------------------------------------
(* The server of a socket, and what the browser receives from it           *)

\* The session frame, at the end of the registration.
Greet(s) ==
    /\ phase[s] = "open"
    /\ s \notin greeted
    /\ greeted' = greeted \cup {s}
    /\ replies' = [replies EXCEPT ![s] = Append(@, [kind |-> "session"])]
    /\ UNCHANGED <<socketVars, transportVars, subs, sent, wire>>

\* The next frame of the socket; the first ones were buffered until then.
Serve(s) ==
    /\ phase[s] = "open"
    /\ s \in greeted
    /\ wire[s] # <<>>
    /\ wire' = [wire EXCEPT ![s] = Tail(@)]
    /\ LET f == Head(wire[s]) IN
       \/ /\ f.action = "subscribe"
          /\ \E answer \in Answers :
                /\ subs' = [subs EXCEPT ![s][f.of] = answer]
                /\ replies' = [replies EXCEPT ![s] = Append(@, [kind |-> answer, of |-> f.of])]
       \/ /\ f.action = "unsubscribe"
          /\ subs' = [subs EXCEPT ![s][f.of] = "none"]
          /\ UNCHANGED replies
       \/ /\ f.action = "publish"
          /\ UNCHANGED <<subs, replies>>
    /\ UNCHANGED <<socketVars, transportVars, greeted, sent>>

\* A frame of somebody else on channel c goes to who is subscribed then.
Emit(c) ==
    /\ c \in Spoken
    /\ sent[c] < MaxFrames
    /\ sent' = [sent EXCEPT ![c] = @ + 1]
    /\ replies' = [s \in Sockets |->
                     IF phase[s] = "open" /\ subs[s][c] = "subscribed"
                     THEN Append(replies[s], [kind |-> "frame", of |-> c]) ELSE replies[s]]
    /\ UNCHANGED <<socketVars, transportVars, greeted, subs, wire>>

\* onmessage of the current socket; that of any other returns at once.
Receive(s) ==
    /\ s = current
    /\ TaskMayRun
    /\ replies[s] # <<>>
    /\ replies' = [replies EXCEPT ![s] = Tail(@)]
    /\ LET m == Head(replies[s]) IN
       \/ /\ m.kind = "session"
          /\ EstablishSession
          /\ UNCHANGED <<held, doubted>>
       \/ /\ m.kind # "session"
          /\ Track(s, m)
          /\ UNCHANGED <<established, fallback, attempt, react, queue, wire>>
    /\ UNCHANGED <<phase, made, current, backoff, shown, pending, flushing, taken,
                   greeted, subs, sent>>

-----------------------------------------------------------------------------
(* The specification.  It starts after the first render: the effect has    *)
(* called connect, the layout effect has bound the transport.              *)

Init ==
    /\ phase = [s \in Sockets |-> IF s = 1 THEN "connecting" ELSE "unmade"]
    /\ made = 1
    /\ current = 1
    /\ established = FALSE
    /\ queue = <<>>
    /\ fallback = NoSocket
    /\ backoff = FALSE
    /\ attempt = 0
    /\ react = [state |-> "connecting", epoch |-> 0]
    /\ shown = [state |-> "idle", epoch |-> 0]
    /\ held = [c \in Channels |-> Unheld]
    /\ pending = {}
    /\ flushing = FALSE
    /\ taken = 0
    /\ doubted = {}
    /\ wire = [s \in Sockets |-> <<>>]
    /\ greeted = {}
    /\ subs = [s \in Sockets |-> [c \in Channels |-> "none"]]
    /\ replies = [s \in Sockets |-> <<>>]
    /\ sent = [c \in Channels |-> 0]

SocketNext == \/ BackoffFires \/ Reconnect \/ Rerun \/ Disconnect
              \/ \E s \in Sockets : SocketOpens(s) \/ SocketCloses(s)
              \/ FallbackFires
TransportNext == Flush \/ Commit \/ \E c \in Channels : Hold(c) \/ Release(c)
ServerNext == \/ \E s \in Sockets : Greet(s) \/ Serve(s)
              \/ \E c \in Channels : Emit(c)

Next == \/ SocketNext \/ TransportNext \/ ServerNext
        \/ \E s \in Sockets : Receive(s)
        \/ \E c \in Channels : Publish(c)

Spec == Init /\ [][Next]_vars

-----------------------------------------------------------------------------
(* Properties                                                              *)

TypeOK ==
    /\ phase \in [Sockets -> {"unmade", "connecting", "open", "closing", "closed"}]
    /\ made \in Sockets
    /\ current \in Sockets \cup {NoSocket}
    /\ established \in BOOLEAN
    /\ queue \in Seq(Frames)
    /\ fallback \in Sockets \cup {NoSocket}
    /\ backoff \in BOOLEAN
    /\ attempt \in 0 .. MaxRetries
    /\ react \in Views /\ shown \in Views
    /\ held \in [Channels -> Holds]
    /\ pending \subseteq Channels
    /\ flushing \in BOOLEAN
    /\ taken \in 0 .. MaxHolds
    /\ doubted \subseteq Channels
    /\ wire \in [Sockets -> Seq(Frames)]
    /\ greeted \subseteq Sockets
    /\ subs \in [Sockets -> [Channels -> {"none", "subscribed", "refused"}]]
    /\ replies \in [Sockets -> Seq(Replies)]
    /\ sent \in [Channels -> 0 .. MaxFrames]

\* Nothing is on its way between the consumers and the current session.
Settled ==
    /\ current # NoSocket /\ established
    /\ shown = react
    /\ ~flushing
    /\ wire[current] = <<>> /\ replies[current] = <<>>

\* Reference counting, deferred releases and re-subscription together
\* (sharedSocketTransport.ts:8-15): once things settle, what the session's
\* server has is what is held, and the transport knows each answer.
SubscriptionsFollowHolds ==
    Settled => \A c \in Channels :
        /\ held[c].count > 0 => /\ subs[current][c] # "none"
                                /\ held[c].state = subs[current][c]
        /\ held[c].count = 0 => subs[current][c] = "none" /\ ~InMap(c)

\* The gate of each connection (useWebSocket.ts:344-350): a frame that waits for
\* a session goes out on the socket it was sent on, or never.
FramesStayOnTheirSocket ==
    /\ queue # <<>> => ~established
    /\ \A i \in DOMAIN queue : queue[i].via = current
    /\ \A s \in Sockets : \A i \in DOMAIN wire[s] : wire[s][i].via = s

\* The channels the current session is asked for, once every frame arrives.
Asked ==
    IF current = NoSocket THEN {}
    ELSE {c \in Channels : AskedBy(wire[current] \o queue, subs[current][c], c)}

\* The channels somebody holds.
Wanted == {c \in Channels : held[c].count > 0}

\* The transport implements the promise: it asks for held channels only and
\* leaves a channel only when nobody holds it (two views of one run do not
\* unsubscribe each other), while the socket is the same.
Shared == INSTANCE SharedSubscription
            WITH wanted <- Wanted, asked <- Asked, session <- current
FollowsThePromise == Shared!Spec

\* The provider owns one WebSocket (README.md:5): no socket but the current one
\* is opening or open.
OneOpenSocket ==
    \A s \in Sockets : phase[s] \in {"connecting", "open"} => s = current

\* The bound on sockets leaves none to connect with.
OutOfSockets == made = MaxSockets /\ phase[MaxSockets] \in {"closing", "closed"}

\* A held channel is asked for in the end, whatever was lost, unless it is
\* released or the client gives up or is told to disconnect.
HeldIsAsked ==
    \A c \in Channels :
        []<>(\/ held[c].count = 0 \/ c \in Asked
             \/ react.state = "disconnected"
             \/ OutOfSockets)

=============================================================================
