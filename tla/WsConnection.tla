---------------------------- MODULE WsConnection ----------------------------
(***************************************************************************)
(* The life of a connection in src/src/server-ws/createWsHandler.ts: the   *)
(* upgrade and its authentication, the asynchronous registration and its   *)
(* rollback, the lanes inbound frames are handled on, the drain and the    *)
(* cleanup after a close, and the disposal of the whole handler.           *)
(*                                                                         *)
(* A service is modelled by the clients it knows: onClientConnect and a    *)
(* "join" frame make it know one, a "leave" frame and onClientDisconnect   *)
(* make it forget.  A handler has its effect when it returns, a connect    *)
(* hook when it is called, a disconnect hook when it returns; a throw is   *)
(* caught by the code wherever it changes nothing else, and is then the    *)
(* same step as a return.  A frame the inbound budget drops leaves this    *)
(* state alone (module InboundBudget).                                     *)
(***************************************************************************)
EXTENDS Integers, Sequences, FiniteSets

CONSTANTS
    Conns,       \* sockets that ask to be upgraded
    Ids,         \* client ids
    NoId,        \* a connection that has none yet
    Services,    \* the names of the services, in the order of their object
    Independent, \* independentServices: those with a lane of their own
    Host,        \* stands for the host's own onDisconnect hook
    Shared,      \* the lane of every other service
    Nobody,      \* no connection holds the id
    BufferMax,   \* frames held during registration (32 in the code)
    FrameMax     \* frames each connection sends: a bound of the model

Names == {Services[i] : i \in DOMAIN Services}

ASSUME WsAssumption ==
    /\ Services \in Seq(Names)
    /\ \A i, j \in DOMAIN Services : Services[i] = Services[j] => i = j
    /\ NoId \notin Ids
    /\ {Host, Shared} \cap Names = {}
    /\ Nobody \notin Conns
    /\ BufferMax \in Nat
    /\ FrameMax \in Nat

VARIABLES
    phase,     \* where each connection is
    id,        \* the clientId of each of them
    socket,    \* "dead" has been destroyed, its close event still to come
    clients,   \* the connection that holds each id
    tracked,   \* wsToId
    heartbeat, \* cleanupFns: connections whose keepalive runs
    connected, \* connectedServices: how many services were told
    early,     \* initialFrames
    queue,     \* accepted frames not handled yet; a lane handles its first one
    todo,      \* disconnect hooks still to return; the first one runs
    known,     \* the clients each service knows
    stage,     \* how far dispose has come
    awaited,   \* tasks dispose is waiting for
    sent,      \* frames sent, for FrameMax
    last,      \* history: the last frame accepted for each service
    late,      \* history: connections cleaned up by the drain timeout
    told       \* history: onClientDisconnect calls of each service

wire    == <<phase, id, socket, clients, tracked, heartbeat, connected>>
frames  == <<early, queue, sent, last>>
cleanup == <<todo, late, told>>
disposal == <<stage, awaited>>
vars == <<wire, frames, cleanup, disposal, known>>

Registering == {"before", "connecting", "rollback"} \* tasks in registering
Closing     == {"draining", "cleaning"}             \* tasks in closing
Holding     == {"before", "connecting", "up", "draining"}

Phases == Registering \cup Closing \cup {"idle", "auth", "up", "done", "refused"}
Stages == {"running", "sockets", "registrations", "cleanups", "disposed"}
Frame  == [service : Names, op : {"join", "leave"}]

disposing == stage # "running"

TypeOK ==
    /\ phase \in [Conns -> Phases]
    /\ id \in [Conns -> Ids \cup {NoId}]
    /\ socket \in [Conns -> {"open", "closing", "dead", "closed"}]
    /\ clients \in [Ids -> Conns \cup {Nobody}]
    /\ tracked \subseteq Conns
    /\ heartbeat \subseteq Conns
    /\ connected \in [Conns -> 0 .. Len(Services)]
    /\ early \in [Conns -> Seq(Frame)]
    /\ \A c \in Conns : Len(early[c]) <= BufferMax
    /\ queue \in [Conns -> Seq(Frame)]
    /\ todo \in [Conns -> Seq(Names \cup {Host})]
    /\ known \in [Names -> SUBSET Ids]
    /\ stage \in Stages
    /\ awaited \subseteq Conns
    /\ sent \in [Conns -> 0 .. FrameMax]
    /\ last \in [Conns -> [Names -> {"join", "leave"}]]
    /\ late \subseteq Conns
    /\ told \in [Conns -> [Names -> Nat]]

Init ==
    /\ phase = [c \in Conns |-> "idle"]
    /\ id = [c \in Conns |-> NoId]
    /\ socket = [c \in Conns |-> "open"]
    /\ clients = [i \in Ids |-> Nobody]
    /\ tracked = {}
    /\ heartbeat = {}
    /\ connected = [c \in Conns |-> 0]
    /\ early = [c \in Conns |-> <<>>]
    /\ queue = [c \in Conns |-> <<>>]
    /\ todo = [c \in Conns |-> <<>>]
    /\ known = [s \in Names |-> {}]
    /\ stage = "running"
    /\ awaited = {}
    /\ sent = [c \in Conns |-> 0]
    /\ last = [c \in Conns |-> [s \in Names |-> "join"]]
    /\ late = {}
    /\ told = [c \in Conns |-> [s \in Names |-> 0]]

-----------------------------------------------------------------------------
(* Upgrade and authentication *)

\* dispose has removed the listener; a request it still delivers is denied.
Upgrade(c) ==
    /\ phase[c] = "idle"
    /\ phase' = [phase EXCEPT ![c] = IF disposing THEN "refused" ELSE "auth"]
    /\ socket' = [socket EXCEPT ![c] = IF disposing THEN "closed" ELSE @]
    /\ UNCHANGED <<id, clients, tracked, heartbeat, connected, frames, cleanup,
                   disposal, known>>

\* denyUpgrade: auth rejected, or the socket or the handler is gone.
Deny(c) ==
    /\ phase' = [phase EXCEPT ![c] = "refused"]
    /\ socket' = [socket EXCEPT ![c] = "closed"]
    /\ UNCHANGED <<id, clients, tracked, heartbeat, connected>>

MayRegister(c) == ~disposing /\ socket[c] = "open"

\* Takes an id over from the connection that holds it.
RegisterOver(c, i) ==
    /\ phase' = [phase EXCEPT ![c] = "before"]
    /\ id' = [id EXCEPT ![c] = i]
    /\ clients' = [clients EXCEPT ![i] = c]
    /\ tracked' = tracked \cup {c}
    /\ UNCHANGED <<socket, heartbeat, connected>>

\* registerConnection up to its first await, under the id generateClientId
\* returned; an id in use is closed with 1011.
Register(c, i) ==
    IF clients[i] # Nobody
    THEN /\ phase' = [phase EXCEPT ![c] = "refused"]
         /\ socket' = [socket EXCEPT ![c] = "closing"]
         /\ UNCHANGED <<id, clients, tracked, heartbeat, connected>>
    ELSE /\ phase' = [phase EXCEPT ![c] = "before"]
         /\ id' = [id EXCEPT ![c] = i]
         /\ clients' = [clients EXCEPT ![i] = c]
         /\ tracked' = tracked \cup {c}
         /\ UNCHANGED <<socket, heartbeat, connected>>

AuthReturns(c) ==
    /\ phase[c] = "auth"
    /\ \/ Deny(c)                          \* auth threw
       \/ MayRegister(c) /\ \E i \in Ids : Register(c, i)
       \/ ~MayRegister(c) /\ Deny(c)
    /\ UNCHANGED <<frames, cleanup, disposal, known>>

-----------------------------------------------------------------------------
(* Registration *)

Rollback(c) ==
    /\ phase' = [phase EXCEPT ![c] = "rollback"]
    /\ clients' = [clients EXCEPT ![id[c]] = Nobody]
    /\ tracked' = tracked \ {c}
    /\ early' = [early EXCEPT ![c] = <<>>]
    /\ todo' = [todo EXCEPT ![c] = Append(SubSeq(Services, 1, connected[c]), Host)]
    /\ UNCHANGED <<id, socket, heartbeat, connected, queue, sent, last, late, told, known>>

\* The session handshake, onConnect, the heartbeat, and the frames that
\* arrived meanwhile, all without an await.
Attach(c) ==
    /\ phase' = [phase EXCEPT ![c] = "up"]
    /\ heartbeat' = heartbeat \cup {c}
    /\ queue' = [queue EXCEPT ![c] = @ \o early[c]]
    /\ early' = [early EXCEPT ![c] = <<>>]
    /\ UNCHANGED <<id, socket, clients, tracked, connected, sent, last, todo, late,
                   told, known>>

\* Calls the onClientConnect hook of the next service.
TellNext(c) ==
    LET next == connected[c] + 1 IN
    /\ phase' = [phase EXCEPT ![c] = "connecting"]
    /\ connected' = [connected EXCEPT ![c] = next]
    /\ known' = [known EXCEPT ![Services[next]] = @ \cup {id[c]}]
    /\ UNCHANGED <<id, socket, clients, tracked, heartbeat, frames, cleanup>>

\* Trusts what was checked before the hook was awaited.
MayGoOnUnchecked(c) == TRUE

MayGoOn(c) == ~disposing /\ socket[c] = "open"

GoOn(c) == IF connected[c] < Len(Services) THEN TellNext(c) ELSE Attach(c)

BeforeReturns(c) ==
    /\ phase[c] = "before"
    /\ \/ Rollback(c)                      \* beforeConnect threw
       \/ MayGoOn(c) /\ GoOn(c)
       \/ ~MayGoOn(c) /\ Rollback(c)
    /\ UNCHANGED disposal

ConnectHookReturns(c) ==
    /\ phase[c] = "connecting"
    /\ IF MayGoOn(c) THEN GoOn(c) ELSE Rollback(c)
    /\ UNCHANGED disposal

-----------------------------------------------------------------------------
(* Frames *)

\* Holds every frame that arrives.
BufferAll(c, f) ==
    /\ early' = [early EXCEPT ![c] = Append(@, f)]
    /\ last' = [last EXCEPT ![c][f.service] = f.op]
    /\ UNCHANGED <<socket, queue>>

\* bufferInitialFrame: over the bound, the connection is closed with 1009.
Buffer(c, f) ==
    IF Len(early[c]) < BufferMax
    THEN /\ early' = [early EXCEPT ![c] = Append(@, f)]
         /\ last' = [last EXCEPT ![c][f.service] = f.op]
         /\ UNCHANGED <<socket, queue>>
    ELSE /\ socket' = [socket EXCEPT ![c] = "closing"]
         /\ UNCHANGED <<early, last, queue>>

enqueueFrame(c, f) ==
    /\ queue' = [queue EXCEPT ![c] = Append(@, f)]
    /\ last' = [last EXCEPT ![c][f.service] = f.op]
    /\ UNCHANGED <<socket, early>>

Arrive(c, f) ==
    /\ socket[c] \in {"open", "closing"}
    /\ sent[c] < FrameMax
    /\ \/ phase[c] \in {"before", "connecting"} /\ Buffer(c, f)
       \/ phase[c] = "up" /\ enqueueFrame(c, f)
    /\ sent' = [sent EXCEPT ![c] = @ + 1]
    /\ UNCHANGED <<id, phase, clients, tracked, heartbeat, connected, cleanup,
                   disposal, known>>

LaneOf(f) == IF f.service \in Independent THEN f.service ELSE Shared

\* frameQueue and lanes: a frame waits for those of its lane before it.
Started(c, i) == \A j \in 1 .. i - 1 : LaneOf(queue[c][j]) # LaneOf(queue[c][i])

\* The i-th frame is handled: the service joins or forgets the client.
Handle(c, i) ==
    LET f == queue[c][i] IN
    /\ known' = [known EXCEPT ![f.service] =
           IF f.op = "join" THEN @ \cup {id[c]} ELSE @ \ {id[c]}]
    /\ queue' = [queue EXCEPT ![c] = SubSeq(@, 1, i - 1) \o SubSeq(@, i + 1, Len(@))]

\* An EventEmitter listener that awaits: frames finish in any order.
HandlerReturnsAnyOrder(c, i) ==
    /\ Handle(c, i)
    /\ UNCHANGED <<wire, early, sent, last, cleanup, disposal>>

\* A handler settles, however late; the next frame of its lane starts.
HandlerReturns(c, i) ==
    /\ Started(c, i)
    /\ Handle(c, i)
    /\ UNCHANGED <<wire, early, sent, last, cleanup, disposal>>

-----------------------------------------------------------------------------
(* Close, drain and cleanup *)

\* handleClose without the deletion from wsToId.
handleCloseAgain(c) ==
    IF phase[c] \notin {"before", "connecting"} /\ c \in tracked
    THEN phase' = [phase EXCEPT ![c] = "draining"] /\ UNCHANGED tracked
    ELSE UNCHANGED <<phase, tracked>>

\* handleClose up to its await, once its listener is attached; a second event
\* finds nothing in wsToId.
handleClose(c) ==
    IF phase[c] \notin {"before", "connecting"} /\ c \in tracked
    THEN /\ phase' = [phase EXCEPT ![c] = "draining"]
         /\ tracked' = tracked \ {c}
    ELSE UNCHANGED <<phase, tracked>>

SocketError(c) ==
    /\ phase[c] # "idle"
    /\ socket[c] \in {"open", "closing"}
    /\ socket' = [socket EXCEPT ![c] = "dead"]
    /\ handleClose(c)
    /\ UNCHANGED <<id, clients, heartbeat, connected, frames, cleanup, disposal, known>>

SocketClosed(c) ==
    /\ phase[c] # "idle"
    /\ socket[c] # "closed"
    /\ socket' = [socket EXCEPT ![c] = "closed"]
    /\ handleClose(c)
    /\ UNCHANGED <<id, clients, heartbeat, connected, frames, cleanup, disposal, known>>

\* Waits for the shared lane alone.
SharedFramesSettled(c) == \A i \in DOMAIN queue[c] : LaneOf(queue[c][i]) # Shared

FramesSettled(c) == queue[c] = <<>>

CleanUp(c) ==
    /\ phase' = [phase EXCEPT ![c] = "cleaning"]
    /\ clients' = [clients EXCEPT ![id[c]] = Nobody]
    /\ heartbeat' = heartbeat \ {c}
    /\ todo' = [todo EXCEPT ![c] = Append(Services, Host)]
    /\ UNCHANGED <<id, socket, tracked, connected, frames, told, disposal, known>>

Drained(c) ==
    /\ phase[c] = "draining"
    /\ FramesSettled(c)
    /\ CleanUp(c)
    /\ UNCHANGED late

\* Waits for the frames however long they take.
DrainTimeoutNever(c) == FALSE /\ CleanUp(c) /\ late' = late \cup {c}

\* FRAME_DRAIN_TIMEOUT_MS: a handler that never settles holds nothing open.
DrainTimeout(c) ==
    /\ phase[c] = "draining"
    /\ ~FramesSettled(c)
    /\ CleanUp(c)
    /\ late' = late \cup {c}

\* Leaves the socket of a failed registration open.
AfterHooksLeavingOpen(c) ==
    /\ phase' = [phase EXCEPT ![c] = "done"]
    /\ UNCHANGED socket

\* rollback ends with ws.close(1011); handleClose just ends.
AfterHooks(c) ==
    /\ phase' = [phase EXCEPT ![c] = "done"]
    /\ socket' = [socket EXCEPT ![c] =
           IF phase[c] = "rollback" /\ @ = "open" THEN "closing" ELSE @]

\* The disconnect hook at the head of todo returns and the next one is called.
DisconnectHookReturns(c) ==
    /\ phase[c] \in {"cleaning", "rollback"}
    /\ todo' = [todo EXCEPT ![c] = Tail(@)]
    /\ IF Head(todo[c]) = Host
       THEN AfterHooks(c) /\ UNCHANGED <<known, told>>
       ELSE /\ known' = [known EXCEPT ![Head(todo[c])] = @ \ {id[c]}]
            /\ told' = [told EXCEPT ![c][Head(todo[c])] = @ + 1]
            /\ UNCHANGED <<phase, socket>>
    /\ UNCHANGED <<id, clients, tracked, heartbeat, connected, frames, late, disposal>>

-----------------------------------------------------------------------------
(* Disposal *)

Dispose ==
    /\ stage = "running"
    /\ stage' = "sockets"
    /\ socket' = [c \in Conns |->
           IF phase[c] = "auth" THEN "closed"
           ELSE IF socket[c] # "closed" /\ \E i \in Ids : clients[i] = c THEN "dead"
           ELSE socket[c]]
    /\ heartbeat' = {}
    /\ clients' = [i \in Ids |-> Nobody]
    /\ UNCHANGED <<id, phase, tracked, connected, frames, cleanup, awaited, known>>

\* wss.close calls back when the last socket it upgraded has closed.
SocketsClosed ==
    /\ stage = "sockets"
    /\ \A c \in Conns : phase[c] \notin {"idle", "auth"} => socket[c] = "closed"
    /\ stage' = "registrations"
    /\ awaited' = {c \in Conns : phase[c] \in Registering}
    /\ UNCHANGED <<wire, frames, cleanup, known>>

\* Does not wait for the tasks in registering.
RegistrationsIgnored ==
    /\ stage = "registrations"
    /\ stage' = "cleanups"
    /\ awaited' = {c \in Conns : phase[c] \in Closing}
    /\ UNCHANGED <<wire, frames, cleanup, known>>

RegistrationsSettled ==
    /\ stage = "registrations"
    /\ \A c \in awaited : phase[c] \notin Registering
    /\ stage' = "cleanups"
    /\ awaited' = {c \in Conns : phase[c] \in Closing}
    /\ UNCHANGED <<wire, frames, cleanup, known>>

CleanupsSettled ==
    /\ stage = "cleanups"
    /\ \A c \in awaited : phase[c] \notin Closing
    /\ stage' = "disposed"
    /\ awaited' = {}
    /\ UNCHANGED <<wire, frames, cleanup, known>>

-----------------------------------------------------------------------------
Next ==
    \/ \E c \in Conns :
        \/ Upgrade(c) \/ AuthReturns(c)
        \/ BeforeReturns(c) \/ ConnectHookReturns(c)
        \/ \E f \in Frame : Arrive(c, f)
        \/ \E i \in DOMAIN queue[c] : HandlerReturns(c, i)
        \/ SocketError(c) \/ SocketClosed(c)
        \/ Drained(c) \/ DrainTimeout(c) \/ DisconnectHookReturns(c)
    \/ Dispose \/ SocketsClosed \/ RegistrationsSettled \/ CleanupsSettled

\* Hooks of the host and of the services return, timers fire and a destroyed
\* or closing socket closes (ws closes it on its own after 30 s at the latest).
\* Frame handlers may never return, and nothing makes anybody connect, send,
\* close or dispose.
Fairness ==
    /\ \A c \in Conns :
        /\ WF_vars(BeforeReturns(c))
        /\ WF_vars(ConnectHookReturns(c))
        /\ WF_vars(DisconnectHookReturns(c))
        /\ WF_vars(Drained(c))
        /\ WF_vars(DrainTimeout(c))
        /\ WF_vars(socket[c] \in {"closing", "dead"} /\ SocketClosed(c))
    /\ WF_vars(SocketsClosed)
    /\ WF_vars(RegistrationsSettled)
    /\ WF_vars(CleanupsSettled)

Spec == Init /\ [][Next]_vars /\ Fairness

-----------------------------------------------------------------------------
(* Properties *)

\* Once a connection's cleanup is over no service knows its client any more,
\* unless a handler outlived the drain: no accepted frame finishes after
\* onClientDisconnect and brings the client back, and a failed registration
\* takes back every service it told.  (For ids that are never reused.)
NoGhosts ==
    \A c \in Conns, s \in Names :
        phase[c] = "done" /\ c \notin late => id[c] \notin known[s]

\* When a connection has no frame of a service left to handle, the service is
\* where the last frame the client sent it left it, the frames that arrived
\* during the registration included.  (For ids that are never reused.)
LastFrameWins ==
    \A c \in Conns, s \in Names :
        /\ phase[c] = "up"
        /\ \A i \in DOMAIN queue[c] : queue[c][i].service # s
        => (id[c] \in known[s] <=> last[c][s] = "join")

\* However a connection ends, by a failed registration, an error followed by a
\* close, or a disposal, each service it was announced to hears of the end
\* exactly once, and a service that never heard of it does not.
ToldOnce ==
    \A c \in Conns, i \in DOMAIN Services :
        /\ told[c][Services[i]] <= IF i <= connected[c] THEN 1 ELSE 0
        /\ phase[c] = "done" /\ i <= connected[c] => told[c][Services[i]] = 1

\* Two connections never hold one client id at the same time, whatever
\* generateClientId returns; a closing connection keeps its id until its
\* frames have drained.
OneOwner ==
    \A c, d \in Conns :
        phase[c] \in Holding /\ phase[d] \in Holding /\ id[c] = id[d] => c = d

\* From the moment dispose is called nothing is registered and no keepalive
\* runs, although authentications and registrations may still be under way.
NothingHeldWhileDisposing ==
    disposing => heartbeat = {} /\ \A i \in Ids : clients[i] = Nobody

\* When dispose returns no registration, drain or cleanup is still running, so
\* the host may close the services: what started before them and during them
\* has been waited for.
DisposedIsQuiet ==
    stage = "disposed" =>
        \A c \in Conns : phase[c] \in {"idle", "auth", "done", "refused"}

\* A connection whose socket is gone is eventually cleaned up, even if one of
\* its frame handlers never returns.
ClosedIsCleaned ==
    \A c \in Conns :
        socket[c] \in {"dead", "closed"} /\ phase[c] \in Holding ~> phase[c] = "done"

\* dispose returns, whatever the frame handlers and the authentications do.
DisposeReturns == disposing ~> stage = "disposed"

=============================================================================
