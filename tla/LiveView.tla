------------------------------ MODULE LiveView ------------------------------
(***************************************************************************)
(* A view of a durable record on the shared socket: client/useLiveRefresh  *)
(* with the loop of client/liveRefresh.ts, composed with ClientSocket.     *)
(*                                                                         *)
(* The view holds its channel while mounted.  A frame on the channel only  *)
(* hints that the record moved; the view reads the record again.  It is    *)
(* live when the socket is connected and its channel acknowledged in the   *)
(* present session, and polls otherwise.  What the listener of channel     *)
(* states sets (seen) reaches the render (seenShown) with a commit, and    *)
(* what the render finds (Live) reaches the loop (live) in a passive       *)
(* effect, a step later.                                                   *)
(***************************************************************************)
EXTENDS ClientSocket

CONSTANTS Channel,       \* the view's channel
          Others,        \* bound: channels others hold while the view is mounted
          LivePolls,     \* livePollMs > 0
          Polls          \* pollMs > 0

ASSUME ViewAssumption == /\ Channel \in Channels
                         /\ Others \subseteq Channels
                         /\ {LivePolls, Polls} \subseteq BOOLEAN

Idle == -1        \* no read in flight
Asking == -2      \* a read the server has not answered
NoData == -1

VARIABLES
    mounted,      \* the effects run: the channel is held, the loop exists
    seen,         \* channel state and the transport's epoch when it changed
    seenShown,    \* the same as last rendered
    blind,        \* history: the record moved unheard since it was last read
    live,         \* the loop's `live`
    reading,      \* the read in flight: Idle, Asking or the version read
    queued,       \* another read follows it
    coalescing,   \* the coalescing timer is armed
    poll,         \* the poll timer is armed
    failing,      \* the last read failed: `failures` > 0
    data          \* the version the view shows

loopVars == <<live, reading, queued, coalescing, poll, failing, data>>
viewVars == <<mounted, seen, seenShown, blind, loopVars>>
allVars == <<vars, viewVars>>

\* The record's version: each write is told in a frame on the channel.
record == sent[Channel]

NotSeen == [state |-> "unheld", epoch |-> NoSession]

\* Mutant: an acknowledgement counts in every session.
LiveInAnySession == shown.state = "connected" /\ seenShown.state = "subscribed"

\* useLiveRefresh's `live`, of what the last render was given.
Live == /\ shown.state = "connected"
        /\ seenShown.state = "subscribed"
        /\ seenShown.epoch = shown.epoch

-----------------------------------------------------------------------------
(* The loop                                                                *)

\* Mutant: a read asked for while one is in flight is dropped.
ReadDropped == \/ reading # Idle /\ UNCHANGED <<reading, queued, coalescing, poll>>
               \/ /\ reading = Idle
                  /\ reading' = Asking
                  /\ coalescing' = FALSE
                  /\ poll' = FALSE
                  /\ UNCHANGED queued

\* read: at most one in flight and one queued behind it.
Read == \/ /\ reading # Idle
           /\ queued' = TRUE
           /\ UNCHANGED <<reading, coalescing, poll>>
        \/ /\ reading = Idle
           /\ reading' = Asking
           /\ coalescing' = FALSE
           /\ poll' = FALSE
           /\ UNCHANGED queued

\* Mutant: a failed read waits for the next poll of its cadence only.
CadenceOff(isLive, fails) == IF isLive THEN LivePolls ELSE Polls

\* schedule, with `live` and the failures as they now are.
Cadence(isLive, fails) == \/ isLive /\ LivePolls
                          \/ ~isLive /\ Polls
                          \/ fails /\ Polls
Schedule(isLive, fails) ==
    poll' = Cadence(isLive, fails)

\* hint, with or without a coalescing window.
Hint == \/ Read
        \/ /\ coalescing' = TRUE
           /\ UNCHANGED <<reading, queued, poll>>

CoalesceFires ==
    /\ coalescing
    /\ TaskMayRun
    /\ \/ reading # Idle /\ coalescing' = FALSE /\ queued' = TRUE /\ UNCHANGED <<reading, poll>>
       \/ reading = Idle /\ Read
    /\ UNCHANGED <<vars, mounted, seen, seenShown, blind, live, failing, data>>

PollFires ==
    /\ poll
    /\ TaskMayRun
    /\ Read
    /\ UNCHANGED <<vars, mounted, seen, seenShown, blind, live, failing, data>>

\* The record's service answers a read with what the record is then.
Answer ==
    /\ reading = Asking
    /\ reading' = record
    /\ blind' = FALSE
    /\ UNCHANGED <<vars, mounted, seen, seenShown, live, queued, coalescing, poll, failing, data>>

\* An answered read returns or fails.  A queued one follows, else the next poll
\* is scheduled.
ReadEnds(fails) ==
    /\ reading \notin {Idle, Asking}
    /\ TaskMayRun
    /\ failing' = fails
    /\ data' = IF fails THEN data ELSE reading
    /\ \/ /\ queued
          /\ queued' = FALSE
          /\ reading' = Asking
          /\ coalescing' = FALSE
          /\ poll' = FALSE
       \/ /\ ~queued
          /\ reading' = Idle
          /\ Schedule(live, fails)
          /\ UNCHANGED <<queued, coalescing>>
    /\ UNCHANGED <<vars, mounted, seen, seenShown, blind, live>>

\* The passive effect after a render: setLive.
SetLive ==
    /\ mounted
    /\ live # Live
    /\ live' = Live
    /\ \/ Live /\ Read
       \/ ~Live /\ reading = Idle /\ Schedule(FALSE, failing) /\ UNCHANGED <<reading, queued, coalescing>>
       \/ ~Live /\ reading # Idle /\ UNCHANGED <<reading, queued, coalescing, poll>>
    /\ UNCHANGED <<vars, mounted, seen, seenShown, blind, failing, data>>

-----------------------------------------------------------------------------
(* The view                                                                *)

\* The listener of channel states, at the end of a step of the transport.
Noticed ==
    seen' = IF mounted /\ held'[Channel].state # held[Channel].state
            THEN [state |-> held'[Channel].state, epoch |-> shown'.epoch] ELSE seen

\* The effects of the first render, in their order: the hold, the state of the
\* channel then, the loop with its first read.
Mount ==
    /\ ~mounted
    /\ Wanted \subseteq Others
    /\ mounted' = TRUE
    /\ Hold(Channel)
    /\ seen' = [state |-> held'[Channel].state, epoch |-> shown.epoch]
    /\ live' = FALSE
    /\ reading' = Asking
    /\ UNCHANGED <<seenShown, blind, queued, coalescing, poll, failing, data>>

\* Their cleanups: the release, and dispose.
Unmount ==
    /\ mounted
    /\ mounted' = FALSE
    /\ Release(Channel)
    /\ seen' = NotSeen
    /\ seenShown' = NotSeen
    /\ blind' = FALSE
    /\ live' = FALSE
    /\ reading' = Idle
    /\ queued' = FALSE
    /\ coalescing' = FALSE
    /\ poll' = FALSE
    /\ failing' = FALSE
    /\ data' = NoData

\* React commits the socket's state and the channel's; passive effects of the
\* render before have run.
Render ==
    /\ mounted => live = Live
    /\ \/ Commit
       \/ shown = react /\ seen # seenShown /\ UNCHANGED vars
    /\ Noticed
    /\ seenShown' = seen
    /\ UNCHANGED <<mounted, blind, loopVars>>

\* The record moves while an answer about the channel is in doubt, and the
\* session is not subscribed: no frame tells the view.
Unheard == /\ record' # record
           /\ Channel \in doubted
           /\ ~(CurrentIsOpen /\ subs[current][Channel] = "subscribed")

\* A step of the socket, the transport, its other holders or the server, of
\* which the view notices what its channel's state becomes.
Beside == /\ Noticed
          /\ blind' = (blind \/ Unheard)
          /\ UNCHANGED <<mounted, seenShown, loopVars>>

SocketStep ==
    /\ \/ SocketNext \/ ServerNext \/ Flush
       \/ \E c \in Channels : \/ Hold(c) /\ (mounted => c \in Others)
                              \/ Publish(c)
                              \/ Release(c) /\ (mounted /\ c = Channel => held[c].count > 1)
    /\ Beside

\* The default isHint: a frame of the view's channel.
Hints(m) == m.kind = "frame" /\ m.of = Channel

\* A frame reaches the transport, then the view's handler.
Deliver(s) ==
    /\ Receive(s)
    /\ Noticed
    /\ \/ /\ mounted /\ Hints(Head(replies[s]))
          /\ Hint
       \/ /\ ~(mounted /\ Hints(Head(replies[s])))
          /\ UNCHANGED <<reading, queued, coalescing, poll>>
    /\ UNCHANGED <<mounted, seenShown, blind, live, failing, data>>

-----------------------------------------------------------------------------
(* The specification                                                       *)

ViewInit ==
    /\ Init
    /\ mounted = FALSE
    /\ seen = NotSeen /\ seenShown = NotSeen /\ blind = FALSE
    /\ live = FALSE
    /\ reading = Idle /\ queued = FALSE /\ coalescing = FALSE
    /\ poll = FALSE /\ failing = FALSE
    /\ data = NoData

Receives == \E s \in Sockets : Deliver(s)
Loop == CoalesceFires \/ PollFires \/ Answer \/ (\E fails \in BOOLEAN : ReadEnds(fails)) \/ SetLive

ViewNext == \/ SocketStep \/ Receives \/ Render \/ Mount \/ Unmount
            \/ Loop

\* Microtasks run, React commits and runs effects, timers fire, the network and
\* the server answer as long as the socket lasts.
Fairness ==
    /\ WF_allVars(Flush /\ Beside)
    /\ WF_allVars(Render) /\ WF_allVars(SetLive)
    /\ WF_allVars(BackoffFires /\ Beside) /\ WF_allVars(FallbackFires /\ Beside)
    /\ \A s \in Sockets : /\ WF_allVars((SocketOpens(s) \/ Greet(s) \/ Serve(s)) /\ Beside)
                          /\ WF_allVars(Deliver(s))
    /\ WF_allVars(CoalesceFires) /\ WF_allVars(PollFires)
    /\ WF_allVars(Answer) /\ SF_allVars(ReadEnds(FALSE))

ViewSpec == ViewInit /\ [][ViewNext]_allVars /\ Fairness

-----------------------------------------------------------------------------
(* Properties                                                              *)

ViewTypeOK ==
    /\ TypeOK
    /\ {mounted, blind, live, poll, queued, coalescing, failing} \subseteq BOOLEAN
    /\ {seen, seenShown} \subseteq [state : {"unheld", "pending", "subscribed", "refused"},
                                   epoch : Nat]
    /\ reading \in {Idle, Asking} \cup 0 .. MaxFrames
    /\ data \in {NoData} \cup 0 .. MaxFrames

\* "Live is the socket connected AND the channel's subscribe acknowledged in the
\* current session" (docs/recipes/shared-socket.md): while nothing the hook set
\* waits for a render, nor a refusal, and no later frame about the channel for
\* its answer, a view that renders as live is subscribed on the socket it is
\* connected by.
LiveIsTrue ==
    Live /\ shown = react /\ seen.state # "refused" /\ Channel \notin doubted
       => /\ current # NoSocket /\ established
          /\ phase[current] = "open"
          /\ subs[current][Channel] = "subscribed"

\* Nothing that would make the view read is under way.
AtRest ==
    /\ mounted /\ live /\ Live
    /\ Settled
    /\ seen = seenShown
    /\ reading = Idle /\ ~coalescing
    /\ ~failing

\* Hints may be lost with a socket and are merged while a read is in flight, yet
\* a live view at rest shows the record as it is (liveRefresh.ts:12-19), or as it
\* was before it moved unheard, with a late answer to a subscribe taken back.
LiveIsFresh == AtRest => data = record \/ blind

\* A write is shown in the end, with the socket up, lost for good or refused,
\* unless the view is unmounted or it was made unheard.
WritesAreShown == []<>(~mounted \/ data = record \/ blind)

=============================================================================
