----------------------------- MODULE LocalRouter -----------------------------
(***************************************************************************)
(* Channel membership and delivery of the single-process router            *)
(* (src/src/server/router.ts, LocalRealtimeRouter).                        *)
(*                                                                         *)
(* The router keeps who is subscribed to what in three mirrored maps, asks *)
(* the host before it admits a subscriber, before it fans a frame out for  *)
(* a publisher and again for every recipient, and may pass the frame       *)
(* through an asynchronous filter.  Each of those awaits lets connections  *)
(* close, clients unsubscribe and return, and policies change.             *)
(*                                                                         *)
(* A batched recipient check (authorizeBatch) is the per-recipient checks  *)
(* answered together; every order of those answers is already here.        *)
(* Contexts and subscription tokens are compared by identity only: a new   *)
(* one is any value nothing refers to any more.                            *)
(***************************************************************************)
EXTENDS Integers, FiniteSets

CONSTANTS
    Clients,
    Channels,
    Ctxs,         \* auth-context objects
    NoCtx,        \* the handle has no open socket for the client
    Tokens,       \* subscription token objects
    NoToken,
    Admissions,   \* asynchronous subscribes in flight: bounds their number
    Frames,       \* channel fan-outs in flight: bounds their number
    Server,       \* the publisher of a server-originated frame
    SyncHost,     \* BOOLEAN: authorize may answer without a promise
    Filtering     \* BOOLEAN: a filterClientMessage hook is configured

ASSUME RouterAssumption ==
    /\ NoCtx \notin Ctxs
    /\ NoToken \notin Tokens
    /\ Server \notin Clients
    /\ SyncHost \in BOOLEAN
    /\ Filtering \in BOOLEAN

VARIABLES
    members,   \* channelMembers
    joined,    \* clientChannels
    token,     \* subscriptionTokens
    admission, \* pendingSubscriptions, and the admission each one belongs to
    frame,     \* fan-outs in progress
    ctx,       \* the handle's context of each client, NoCtx unless open
    draining,  \* closed sockets whose frames are still being drained
    cleanup,   \* clients whose disconnect hooks have yet to call removeClient
    may,       \* what the host would allow now: <<kind, client, channel>>
    asked,     \* history: subscribed since the client last left the channel
    lapsed,    \* history: recipients of a frame whose subscription ended since
    allowed,   \* history: recipients the host would have allowed since
    got        \* history: recipients the frame was handed to

mirrors == <<members, joined, token>>
wire    == <<ctx, draining, cleanup>>
history == <<asked, lapsed, allowed, got>>
vars    == <<mirrors, admission, frame, wire, may, history>>

None == [stage |-> "none"]

Kinds == {"subscribe", "publish"}

Admission == [stage : {"asked", "allowed"}, client : Clients, channel : Channels,
              ctx : Ctxs \cup {NoCtx}, cancelled : BOOLEAN]

\* A recipient of a frame: the context and token it was taken under.
Recipient == [stage : {"asked", "allowed", "filtering"},
              ctx : Ctxs \cup {NoCtx}, token : Tokens \cup {NoToken}]

Frame == [stage : {"publishing", "sending"}, channel : Channels,
          publisher : Clients \cup {Server}, ctx : Ctxs \cup {NoCtx},
          to : [Clients -> Recipient \cup {None}]]

TypeOK ==
    /\ members \in [Channels -> SUBSET Clients]
    /\ joined \in [Clients -> SUBSET Channels]
    /\ token \in [Channels -> [Clients -> Tokens \cup {NoToken}]]
    /\ admission \in [Admissions -> Admission \cup {None}]
    /\ frame \in [Frames -> Frame \cup {None}]
    /\ ctx \in [Clients -> Ctxs \cup {NoCtx}]
    /\ draining \subseteq Clients
    /\ cleanup \subseteq Clients
    /\ may \subseteq Kinds \X Clients \X Channels
    /\ asked \subseteq Clients \X Channels
    /\ lapsed \in [Frames -> SUBSET Clients]
    /\ allowed \in [Frames -> SUBSET Clients]
    /\ got \in [Frames -> SUBSET Clients]

Init ==
    /\ members = [h \in Channels |-> {}]
    /\ joined = [c \in Clients |-> {}]
    /\ token = [h \in Channels |-> [c \in Clients |-> NoToken]]
    /\ admission = [a \in Admissions |-> None]
    /\ frame = [f \in Frames |-> None]
    /\ ctx = [c \in Clients |-> NoCtx]
    /\ draining = {}
    /\ cleanup = {}
    /\ may = Kinds \X Clients \X Channels
    /\ asked = {}
    /\ lapsed = [f \in Frames |-> {}]
    /\ allowed = [f \in Frames |-> {}]
    /\ got = [f \in Frames |-> {}]

-----------------------------------------------------------------------------
(* Fresh objects and history.                                              *)

Busy == {f \in Frames : frame[f] # None}
Waiting(f) == {c \in Clients : frame[f] # None /\ frame[f].to[c] # None}

CtxInUse(x) ==
    \/ \E c \in Clients : ctx[c] = x
    \/ \E a \in Admissions : admission[a] # None /\ admission[a].ctx = x
    \/ \E f \in Busy : frame[f].ctx = x \/ \E c \in Waiting(f) : frame[f].to[c].ctx = x

TokenInUse(t) ==
    \/ \E h \in Channels, c \in Clients : token[h][c] = t
    \/ \E f \in Busy : \E c \in Waiting(f) : frame[f].to[c].token = t

\* The subscriptions in ps ended: any frame still on its way to one of them
\* is a frame for a subscription that is over.
Lapse(ps) ==
    lapsed' = [f \in Frames |-> lapsed[f] \cup
                 {c \in Waiting(f) : <<c, frame[f].channel>> \in ps}]

-----------------------------------------------------------------------------
(* Membership.                                                             *)

\* addSubscription: a fresh token for each admission, a renewed one included.
Add(c, h) ==
    /\ members' = [members EXCEPT ![h] = @ \cup {c}]
    /\ \E t \in Tokens :
         /\ ~TokenInUse(t)
         /\ token' = [token EXCEPT ![h][c] = t]
    /\ joined' = [joined EXCEPT ![c] = @ \cup {h}]
    /\ Lapse({<<c, h>>})

\* Removal of one client from some channels.
DropLeavingTokens(c, hs) ==
    /\ members' = [h \in Channels |-> IF h \in hs THEN members[h] \ {c} ELSE members[h]]
    /\ token' = token
    /\ joined' = [joined EXCEPT ![c] = @ \ hs]

Drop(c, hs) ==
    /\ members' = [h \in Channels |-> IF h \in hs THEN members[h] \ {c} ELSE members[h]]
    /\ token' = [h \in Channels |->
                   IF h \in hs THEN [token[h] EXCEPT ![c] = NoToken] ELSE token[h]]
    /\ joined' = [joined EXCEPT ![c] = @ \ hs]

CancelNothing(c, hs) == admission' = admission
Cancel(c, hs) ==
    admission' = [a \in Admissions |->
        IF admission[a] # None /\ admission[a].client = c /\ admission[a].channel \in hs
        THEN [admission[a] EXCEPT !.cancelled = TRUE] ELSE admission[a]]

\* A host that decides at once: admitted, or refused, within the call.
SubscribeNow(c, h) ==
    /\ SyncHost
    /\ <<"subscribe", c, h>> \in may
    /\ asked' = asked \cup {<<c, h>>}
    /\ Add(c, h)
    /\ UNCHANGED <<admission, frame, wire, may, allowed, got>>

\* A host that answers later: the admission is pending until it resolves.
Subscribe(a, c, h) ==
    /\ admission[a] = None
    /\ asked' = asked \cup {<<c, h>>}
    /\ admission' = [admission EXCEPT ![a] =
         [stage |-> "asked", client |-> c, channel |-> h, ctx |-> ctx[c], cancelled |-> FALSE]]
    /\ UNCHANGED <<mirrors, frame, wire, may, lapsed, allowed, got>>

HostRefuses(a) ==
    /\ admission[a] # None /\ admission[a].stage = "asked"
    /\ admission' = [admission EXCEPT ![a] = None]
    /\ UNCHANGED <<mirrors, frame, wire, may, history>>

HostAdmits(a) ==
    /\ admission[a] # None /\ admission[a].stage = "asked"
    /\ <<"subscribe", admission[a].client, admission[a].channel>> \in may
    /\ admission' = [admission EXCEPT ![a].stage = "allowed"]
    /\ UNCHANGED <<mirrors, frame, wire, may, history>>

\* allows, then subscribeToChannel: the verdict counts only for the
\* connection that asked, and only while nothing cancelled the admission.
Admissible(r) == ~r.cancelled /\ r.ctx # NoCtx /\ ctx[r.client] = r.ctx

Admit(a) ==
    /\ admission[a] # None /\ admission[a].stage = "allowed"
    /\ admission' = [admission EXCEPT ![a] = None]
    /\ IF Admissible(admission[a])
       THEN Add(admission[a].client, admission[a].channel)
       ELSE UNCHANGED <<mirrors, lapsed>>
    /\ UNCHANGED <<frame, wire, may, asked, allowed, got>>

Unsubscribe(c, h) ==
    /\ Cancel(c, {h})
    /\ Drop(c, {h})
    /\ Lapse({<<c, h>>})
    /\ asked' = asked \ {<<c, h>>}
    /\ UNCHANGED <<frame, wire, may, allowed, got>>

\* The disconnect path: every pending admission of the client is cancelled
\* and it leaves the channels its mirror lists.
RemoveClient(c) ==
    /\ c \in cleanup
    /\ cleanup' = cleanup \ {c}
    /\ Cancel(c, Channels)
    /\ Drop(c, joined[c])
    /\ Lapse({c} \X Channels)
    /\ asked' = {p \in asked : p[1] # c}
    /\ UNCHANGED <<frame, ctx, draining, may, allowed, got>>

-----------------------------------------------------------------------------
(* Fan-out.                                                                *)

\* Every member, with the context and token it has now.
Recipients(h) ==
    [c \in Clients |-> IF c \in members[h]
                       THEN [stage |-> "asked", ctx |-> ctx[c], token |-> token[h][c]]
                       ELSE None]

AllowedNow(h) == {c \in Clients : <<"subscribe", c, h>> \in may}

Capture(f, h, p, x) ==
    /\ frame' = IF members[h] = {} THEN [frame EXCEPT ![f] = None]
                ELSE [frame EXCEPT ![f] = [stage |-> "sending", channel |-> h,
                        publisher |-> p, ctx |-> x, to |-> Recipients(h)]]
    /\ lapsed' = [lapsed EXCEPT ![f] = {}]
    /\ allowed' = [allowed EXCEPT ![f] = AllowedNow(h)]
    /\ got' = [got EXCEPT ![f] = {}]

SendFromServer(f, h) ==
    /\ frame[f] = None
    /\ Capture(f, h, Server, NoCtx)
    /\ UNCHANGED <<mirrors, admission, wire, may, asked>>

\* sendToChannel on behalf of a client asks for the publish right first.
SendFromClient(f, h, c) ==
    /\ frame[f] = None
    /\ frame' = [frame EXCEPT ![f] = [stage |-> "publishing", channel |-> h,
           publisher |-> c, ctx |-> ctx[c], to |-> [d \in Clients |-> None]]]
    /\ UNCHANGED <<mirrors, admission, wire, may, history>>

PublishRefused(f) ==
    /\ frame[f] # None /\ frame[f].stage = "publishing"
    /\ frame' = [frame EXCEPT ![f] = None]
    /\ UNCHANGED <<mirrors, admission, wire, may, history>>

\* The publisher's connection is the one that asked when the check returns.
PublishAllowed(f) ==
    /\ frame[f] # None /\ frame[f].stage = "publishing"
    /\ LET r == frame[f] IN
         /\ <<"publish", r.publisher, r.channel>> \in may
         /\ ctx[r.publisher] = r.ctx
         /\ Capture(f, r.channel, r.publisher, r.ctx)
    /\ UNCHANGED <<mirrors, admission, wire, may, asked>>

\* A frame with no recipient left to wait for is done.
Settle(f, to) ==
    IF \A c \in Clients : to[c] = None
    THEN [frame EXCEPT ![f] = None]
    ELSE [frame EXCEPT ![f].to = to]

Skip(f, c) == Settle(f, [frame[f].to EXCEPT ![c] = None])

RecipientRefused(f, c) ==
    /\ c \in Waiting(f) /\ frame[f].to[c].stage = "asked"
    /\ frame' = Skip(f, c)
    /\ UNCHANGED <<mirrors, admission, wire, may, history>>

HostSaysYesToAdmitted(c, h) == c \in members[h]
HostSaysYes(c, h) == <<"subscribe", c, h>> \in may

RecipientAllowed(f, c) ==
    /\ c \in Waiting(f) /\ frame[f].to[c].stage = "asked"
    /\ HostSaysYes(c, frame[f].channel)
    /\ frame' = [frame EXCEPT ![f].to[c].stage = "allowed"]
    /\ UNCHANGED <<mirrors, admission, wire, may, history>>

\* The context and token captured with the recipient are still its own.
CurrentByContext(f, c) == ctx[c] = frame[f].to[c].ctx
Current(f, c) ==
    /\ ctx[c] = frame[f].to[c].ctx
    /\ frame[f].to[c].token # NoToken
    /\ token[frame[f].channel][c] = frame[f].to[c].token

\* handle.sendToClient writes to an open socket only.
HandOver(f, c) ==
    /\ frame' = Skip(f, c)
    /\ got' = [got EXCEPT ![f] = IF ctx[c] = NoCtx THEN @ ELSE @ \cup {c}]

\* The check returned: fenced, then handed over or filtered first.
RecipientResumes(f, c) ==
    /\ c \in Waiting(f) /\ frame[f].to[c].stage = "allowed"
    /\ \/ /\ ~Current(f, c)
          /\ frame' = Skip(f, c)
          /\ UNCHANGED got
       \/ /\ Current(f, c)
          /\ IF Filtering
             THEN /\ frame' = IF ctx[c] = NoCtx THEN Skip(f, c)
                              ELSE [frame EXCEPT ![f].to[c].stage = "filtering"]
                  /\ UNCHANGED got
             ELSE HandOver(f, c)
    /\ UNCHANGED <<mirrors, admission, wire, may, asked, lapsed, allowed>>

\* The filter returned a frame, or nothing, or threw.
FilterReturns(f, c) ==
    /\ c \in Waiting(f) /\ frame[f].to[c].stage = "filtering"
    /\ \/ /\ Current(f, c)
          /\ HandOver(f, c)
       \/ /\ frame' = Skip(f, c)
          /\ UNCHANGED got
    /\ UNCHANGED <<mirrors, admission, wire, may, asked, lapsed, allowed>>

-----------------------------------------------------------------------------
(* Connections and the host's policy.                                      *)

\* A connection under this identity: a new context object.  The handle
\* refuses an identity whose entry it still holds.
Connect(c) ==
    /\ ctx[c] = NoCtx /\ c \notin draining
    /\ \E x \in Ctxs : ~CtxInUse(x) /\ ctx' = [ctx EXCEPT ![c] = x]
    /\ UNCHANGED <<mirrors, admission, frame, draining, cleanup, may, history>>

\* The socket closes: its context is gone at once, its entry after the drain.
Close(c) ==
    /\ ctx[c] # NoCtx
    /\ ctx' = [ctx EXCEPT ![c] = NoCtx]
    /\ draining' = draining \cup {c}
    /\ Lapse({c} \X Channels)
    /\ UNCHANGED <<mirrors, admission, frame, cleanup, may, asked, allowed, got>>

Drained(c) ==
    /\ c \in draining
    /\ draining' = draining \ {c}
    /\ cleanup' = cleanup \cup {c}
    /\ UNCHANGED <<mirrors, admission, frame, ctx, may, history>>

Grant(k, c, h) ==
    /\ <<k, c, h>> \notin may
    /\ may' = may \cup {<<k, c, h>>}
    /\ allowed' = [f \in Frames |->
         IF k = "subscribe" /\ f \in Busy /\ frame[f].channel = h
         THEN allowed[f] \cup {c} ELSE allowed[f]]
    /\ UNCHANGED <<mirrors, admission, frame, wire, asked, lapsed, got>>

Revoke(k, c, h) ==
    /\ <<k, c, h>> \in may
    /\ may' = may \ {<<k, c, h>>}
    /\ UNCHANGED <<mirrors, admission, frame, wire, history>>

Next ==
    \/ \E c \in Clients, h \in Channels :
         \/ SubscribeNow(c, h)
         \/ \E a \in Admissions : Subscribe(a, c, h)
         \/ Unsubscribe(c, h)
         \/ \E f \in Frames : SendFromClient(f, h, c)
         \/ \E k \in Kinds : Grant(k, c, h) \/ Revoke(k, c, h)
    \/ \E a \in Admissions : HostRefuses(a) \/ HostAdmits(a) \/ Admit(a)
    \/ \E f \in Frames :
         \/ \E h \in Channels : SendFromServer(f, h)
         \/ PublishRefused(f)
         \/ PublishAllowed(f)
         \/ \E c \in Clients :
              \/ RecipientRefused(f, c)
              \/ RecipientAllowed(f, c)
              \/ RecipientResumes(f, c)
              \/ FilterReturns(f, c)
    \/ \E c \in Clients : Connect(c) \/ Close(c) \/ Drained(c) \/ RemoveClient(c)

Spec == Init /\ [][Next]_vars

-----------------------------------------------------------------------------
(* Properties.                                                             *)

\* The three maps that record a subscription (channel to members, client to
\* channels, channel to tokens) say the same after any interleaving of
\* admissions, unsubscribes and disconnects: removeClient walks only the
\* second, fan-out reads the first and fences on the third.
MirrorsAgree ==
    \A c \in Clients, h \in Channels :
        /\ c \in members[h] <=> h \in joined[c]
        /\ c \in members[h] <=> token[h][c] # NoToken

\* "Do not revive a subscription removed while asynchronous authorization
\* was resolving" (fanOut): a channel frame is handed to a client only if
\* its subscription, under the same connection, never lapsed between the
\* fan-out taking its recipients and the hand-over; leaving and rejoining
\* in between counts as a lapse.
DeliveredToUnbroken == \A f \in Frames : got[f] \cap lapsed[f] = {}

\* "Admission is not a lasting grant" (fanOut): whoever receives a frame was
\* allowed by the host's policy at some moment of that very fan-out.
DeliveredToAllowed == \A f \in Busy : got[f] \subseteq allowed[f]

\* The inductive form of DeliveredToUnbroken: a recipient whose subscription
\* lapsed can no longer pass the fences, because the objects it captured are
\* in use until it is done and so are never handed out again.
LapsedCannotPass ==
    \A f \in Busy : \A c \in Waiting(f) :
        /\ frame[f].to[c].token # NoToken
        /\ c \notin got[f]
        /\ c \in lapsed[f] =>
             \/ ctx[c] = NoCtx
             \/ ctx[c] # frame[f].to[c].ctx
             \/ token[frame[f].channel][c] # frame[f].to[c].token

DeliveryInv ==
    /\ TypeOK
    /\ MirrorsAgree
    /\ LapsedCannotPass
    /\ DeliveredToUnbroken

\* An unsubscribe or disconnect is final for every subscribe called before
\* it, the ones still waiting for the host included: nobody is a member
\* unless a subscribe was called since it last left.
MembersAsked ==
    \A c \in Clients, h \in Channels : c \in members[h] => <<c, h>> \in asked
=============================================================================
