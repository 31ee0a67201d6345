---------------------------- MODULE ClusterRouter ----------------------------
(***************************************************************************)
(* The Redis peer transport of the realtime router                         *)
(* (src/src/server/RedisRealtimeRouter.ts): router incarnations that own a *)
(* node id by a fenced lease, the directory of registered connections they *)
(* keep in Redis, direct sends with receipts, and frames peers fan out.    *)
(*                                                                         *)
(* Redis commands and scripts are atomic; between a command and its reply  *)
(* anything may happen.  A published frame may be lost, duplicated and     *)
(* reordered: it stays on the wire and nobody has to receive it.           *)
(*                                                                         *)
(* A lookup reads a registration, then its owner: the second reply is taken*)
(* at once.  The seen frames and the user index do not expire here: the    *)
(* index outlives every registration it names.                             *)
(*                                                                         *)
(* The lease (distributed-core's FencedLease) is external.  Its contract:  *)
(* an incarnation that believes it is live still has its owner key, and    *)
(* with it the registrations of its current connections, in Redis.         *)
(* A generation is the connection it was drawn for: each registers once.   *)
(* What the destination's LocalRealtimeRouter does with a frame is module  *)
(* LocalRouter.                                                            *)
(***************************************************************************)
EXTENDS Integers, FiniteSets

CONSTANTS
    Nodes,      \* node ids
    Instances,  \* router incarnations
    NodeOf,     \* the node id each incarnation starts under
    Clients,
    Conns,      \* connections, and the generations they register under
    ClientOf,   \* the client id of each
    HomesOf,    \* the incarnations each may connect to
    Msgs,       \* frames sent: bounds their number
    Nobody,
    MaxPending, \* maxPendingRequests
    Askers,     \* bounds the incarnations that look clients up
    MaxLookups, \* bounds the directory reads under way
    MaxEnds     \* bounds the incarnations that end

ASSUME ClusterAssumption ==
    /\ NodeOf \in [Instances -> Nodes]
    /\ ClientOf \in [Conns -> Clients]
    /\ Askers \subseteq Instances
    /\ HomesOf \in [Conns -> SUBSET Instances]
    /\ Nobody \notin Conns \cup Instances
    /\ {MaxPending, MaxLookups, MaxEnds} \subseteq Nat

VARIABLES
    life,       \* each incarnation: started, stopped and the lease
    owner,      \* Redis: the owner key of each node id
    reg,        \* Redis: the registration of each client
    index,      \* Redis: the clients in the user index
    conn,       \* each connection: its registration, until its last hook
    shut,       \* connections whose socket is no longer open
    at,         \* the incarnation it connected to
    registered, \* registrations, per incarnation
    removing,   \* REMOVE scripts under way
    remote,     \* remote, per incarnation
    look,       \* directory reads under way
    msg,        \* what became of each frame at its sender
    wire,       \* frames published
    seen,       \* seen, per incarnation
    receipts,   \* receipts published
    written,    \* history: writes of a direct message to each connection
    sound       \* history: the origin was alive when the frame was received

redis   == <<owner, reg, index>>
sockets == <<conn, shut, at>>
sending == <<msg, wire>>
peers   == <<seen, receipts, written, sound>>
vars == <<life, redis, sockets, registered, removing, remote, look, sending, peers>>

Conn   == {"new", "open", "added", "refused", "up", "leaving", "gone"}
Lives  == {"new", "starting", "live", "fenced", "stopped", "crashed"}
Kinds  == {"direct", "channel", "event"}
Stages == {"idle", "reading", "checking", "local", "sent", "done"}
Steps  == {"new", "received", "alive", "published", "yes", "no"}
Msg    == [stage : Stages, kind : Kinds, from : Instances \cup {Nobody},
           previous : Conns \cup {Nobody}, target : Conns \cup {Nobody},
           client : Clients \cup {Nobody}, result : BOOLEAN]

NoMsg == [stage |-> "idle", kind |-> "event", from |-> Nobody, previous |-> Nobody,
          target |-> Nobody, client |-> Nobody, result |-> FALSE]

TypeOK ==
    /\ life \in [Instances -> Lives]
    /\ owner \in [Nodes -> Instances \cup {Nobody}]
    /\ reg \in [Clients -> Conns \cup {Nobody}]
    /\ index \subseteq Clients
    /\ conn \in [Conns -> Conn]
    /\ shut \subseteq Conns
    /\ at \in [Conns -> Instances \cup {Nobody}]
    /\ registered \in [Instances -> [Clients -> Conns \cup {Nobody}]]
    /\ removing \subseteq Conns
    /\ remote \in [Instances -> [Clients -> Conns \cup {Nobody}]]
    /\ look \in [Instances -> [Clients -> Conns \cup {Nobody, "absent"}]]
    /\ msg \in [Msgs -> Msg]
    /\ wire \subseteq Msgs
    /\ seen \in [Instances -> [Msgs -> Steps]]
    /\ receipts \subseteq Msgs \X BOOLEAN
    /\ written \in [Msgs -> [Conns -> Nat]]
    /\ sound \subseteq Instances \X Msgs

Init ==
    /\ life = [i \in Instances |-> "new"]
    /\ owner = [n \in Nodes |-> Nobody]
    /\ reg = [c \in Clients |-> Nobody]
    /\ index = {}
    /\ conn = [k \in Conns |-> "new"]
    /\ shut = {}
    /\ at = [k \in Conns |-> Nobody]
    /\ registered = [i \in Instances |-> [c \in Clients |-> Nobody]]
    /\ removing = {}
    /\ remote = [i \in Instances |-> [c \in Clients |-> Nobody]]
    /\ look = [i \in Instances |-> [c \in Clients |-> Nobody]]
    /\ msg = [m \in Msgs |-> NoMsg]
    /\ wire = {}
    /\ seen = [i \in Instances |-> [m \in Msgs |-> "new"]]
    /\ receipts = {}
    /\ written = [m \in Msgs |-> [k \in Conns |-> 0]]
    /\ sound = {}

live(i) == life[i] = "live"

\* FencedLease.isHeldBy.
ownerAlive(i) == owner[NodeOf[i]] = i

\* The connections in the handler's client map at an incarnation.
Entries(i) == {k \in Conns : at[k] = i /\ conn[k] \in {"open", "added", "refused", "up"}}

\* current(clientId): the context of its entry, while the socket is open.
IsCurrent(i, k)  == k \in Entries(i) \ shut
HasCurrent(i, c) == \E k \in Conns : ClientOf[k] = c /\ IsCurrent(i, k)

-----------------------------------------------------------------------------
(* Ownership *)

\* start: SET NX of the owner key, then the subscriptions.
Acquire(i) ==
    /\ life[i] = "new"
    /\ owner[NodeOf[i]] = Nobody
    /\ owner' = [owner EXCEPT ![NodeOf[i]] = i]
    /\ life' = [life EXCEPT ![i] = "starting"]
    /\ UNCHANGED <<reg, index, sockets, registered, removing, remote, look, sending, peers>>

Started(i) ==
    /\ life[i] = "starting"
    /\ life' = [life EXCEPT ![i] = "live"]
    /\ UNCHANGED <<redis, sockets, registered, removing, remote, look, sending, peers>>

MayEnd(i) ==
    Cardinality({j \in Instances \ {i} : life[j] \in {"fenced", "stopped", "crashed"}}) < MaxEnds

\* Every pending request of an incarnation resolves false.
Abandon(i) ==
    msg' = [m \in Msgs |->
        IF msg[m].from = i /\ msg[m].stage = "sent" /\ msg[m].kind = "direct"
        THEN [msg[m] EXCEPT !.stage = "done"] ELSE msg[m]]

\* The lease expired, could not be renewed, or lost its connection.
Fence(i) ==
    /\ MayEnd(i)
    /\ life[i] \in {"starting", "live"}
    /\ life' = [life EXCEPT ![i] = "fenced"]
    /\ Abandon(i)
    /\ UNCHANGED <<redis, sockets, registered, removing, remote, look, wire, peers>>

\* The process dies with its sockets; what it had not sent never happens.
Crash(i) ==
    /\ MayEnd(i)
    /\ life[i] \in {"starting", "live", "fenced"}
    /\ life' = [life EXCEPT ![i] = "crashed"]
    /\ conn' = [k \in Conns |-> IF at[k] = i THEN "gone" ELSE conn[k]]
    /\ shut' = shut \cup {k \in Conns : at[k] = i}
    /\ removing' = {k \in removing : at[k] # i}
    /\ registered' = [registered EXCEPT ![i] = [c \in Clients |-> Nobody]]
    /\ remote' = [remote EXCEPT ![i] = [c \in Clients |-> Nobody]]
    /\ look' = [look EXCEPT ![i] = [c \in Clients |-> Nobody]]
    /\ msg' = [m \in Msgs |->
           IF msg[m].from = i THEN [msg[m] EXCEPT !.stage = "done"] ELSE msg[m]]
    /\ UNCHANGED <<redis, at, wire, peers>>

\* shutdown: pending requests fail and every registration is removed; the
\* owner key goes when the REMOVE scripts have run.
Shutdown(i) ==
    /\ MayEnd(i)
    /\ life[i] \in {"starting", "live", "fenced"}
    /\ life' = [life EXCEPT ![i] = "stopped"]
    /\ Abandon(i)
    /\ removing' = removing \cup ({registered[i][c] : c \in Clients} \ {Nobody})
    /\ registered' = [registered EXCEPT ![i] = [c \in Clients |-> Nobody]]
    /\ remote' = [remote EXCEPT ![i] = [c \in Clients |-> Nobody]]
    /\ UNCHANGED <<redis, sockets, look, wire, peers>>

Release(i) ==
    /\ life[i] = "stopped"
    /\ ownerAlive(i)
    /\ \A k \in removing : at[k] # i
    /\ owner' = [owner EXCEPT ![NodeOf[i]] = Nobody]
    /\ UNCHANGED <<life, reg, index, sockets, registered, removing, remote, look, sending, peers>>

\* The lease's contract: the owner key outlives its owner's belief in it,
OwnerExpires(n) ==
    /\ owner[n] # Nobody
    /\ life[owner[n]] \notin {"starting", "live"}
    /\ owner' = [owner EXCEPT ![n] = Nobody]
    /\ UNCHANGED <<life, reg, index, sockets, registered, removing, remote, look, sending, peers>>

\* attachments: and renews with it the registrations of current connections.
\* A REGISTER reply is assumed to arrive within leaseMs.
Renewed(k) ==
    /\ live(at[k])
    /\ IsCurrent(at[k], k)
    /\ conn[k] = "added" \/ registered[at[k]][ClientOf[k]] = k

RegistrationExpires(c) ==
    /\ reg[c] # Nobody
    /\ ~Renewed(reg[c])
    /\ reg' = [reg EXCEPT ![c] = Nobody]
    /\ UNCHANGED <<life, owner, index, sockets, registered, removing, remote, look, sending, peers>>

-----------------------------------------------------------------------------
(* Registration *)

\* onClientConnect: the handler holds one connection per client id, and ends
\* it if the router is not live.
Connect(i, k) ==
    /\ conn[k] = "new"
    /\ i \in HomesOf[k]
    /\ life[i] \in {"live", "fenced"}
    /\ \A l \in Entries(i) : ClientOf[l] # ClientOf[k]
    /\ conn' = [conn EXCEPT ![k] = IF live(i) THEN "open" ELSE "leaving"]
    /\ shut' = IF live(i) THEN shut ELSE shut \cup {k}
    /\ at' = [at EXCEPT ![k] = i]
    /\ UNCHANGED <<life, redis, registered, removing, remote, look, sending, peers>>

Add(k) ==
    /\ reg' = [reg EXCEPT ![ClientOf[k]] = k]
    /\ index' = index \cup {ClientOf[k]}
    /\ conn' = [conn EXCEPT ![k] = "added"]

Refuse(k) ==
    /\ conn' = [conn EXCEPT ![k] = "refused"]
    /\ UNCHANGED <<reg, index>>

\* REGISTER, but over a registration that exists.
RegisterOver(k) ==
    /\ conn[k] = "open"
    /\ IF ownerAlive(at[k]) THEN Add(k) ELSE Refuse(k)
    /\ UNCHANGED <<life, owner, shut, at, registered, removing, remote, look, sending, peers>>

\* The REGISTER script.
Register(k) ==
    /\ conn[k] = "open"
    /\ IF ownerAlive(at[k]) /\ reg[ClientOf[k]] = Nobody THEN Add(k) ELSE Refuse(k)
    /\ UNCHANGED <<life, owner, shut, at, registered, removing, remote, look, sending, peers>>

\* removeClient, but for a client that may have no registration here.
RemoveUnchecked(i, c, k) ==
    /\ registered' = [registered EXCEPT ![i][c] = Nobody]
    /\ remote' = [remote EXCEPT ![i][c] = Nobody]
    /\ removing' = removing \cup {k}

\* removeClient(clientId): whichever registration the client has here goes.
Remove(i, c, k) ==
    /\ registered' = [registered EXCEPT ![i][c] = Nobody]
    /\ remote' = [remote EXCEPT ![i][c] = Nobody]
    /\ removing' = removing \cup ({k} \ {Nobody})

\* The registration fails: the handler forgets the connection and closes it.
Rollback(k) ==
    /\ conn' = [conn EXCEPT ![k] = "leaving"]
    /\ shut' = shut \cup {k}

\* The script replied: the registration is recorded, and removed again if the
\* router was fenced or the socket closed in the meantime.
Registered(k) ==
    LET i == at[k] IN
    /\ \/ /\ conn[k] = "added" /\ live(i) /\ IsCurrent(i, k)
          /\ registered' = [registered EXCEPT ![i][ClientOf[k]] = k]
          /\ conn' = [conn EXCEPT ![k] = "up"]
          /\ UNCHANGED <<shut, remote, removing>>
       \/ /\ conn[k] = "added" /\ ~(live(i) /\ IsCurrent(i, k))
          /\ Remove(i, ClientOf[k], k)
          /\ Rollback(k)
       \/ /\ conn[k] = "refused"
          /\ Rollback(k)
          /\ UNCHANGED <<registered, remote, removing>>
    /\ UNCHANGED <<life, redis, at, look, sending, peers>>

SocketCloses(k) ==
    /\ k \in Entries(at[k]) \ shut
    /\ shut' = shut \cup {k}
    /\ UNCHANGED <<life, redis, conn, at, registered, removing, remote, look, sending, peers>>

\* The handler forgets a connection whose socket closed; its services are
\* told before the router is.
CleanUp(k) ==
    /\ conn[k] = "up" /\ k \in shut
    /\ conn' = [conn EXCEPT ![k] = "leaving"]
    /\ UNCHANGED <<life, redis, shut, at, registered, removing, remote, look, sending, peers>>

\* The disconnect hook removes the client's registration, this connection's or
\* that of one that took the client id since.
Disconnect(k) ==
    /\ conn[k] = "leaving"
    /\ conn' = [conn EXCEPT ![k] = "gone"]
    /\ Remove(at[k], ClientOf[k], registered[at[k]][ClientOf[k]])
    /\ UNCHANGED <<life, redis, shut, at, look, sending, peers>>

\* The REMOVE script: compares, then deletes.
RemoveScript(k) ==
    /\ k \in removing
    /\ removing' = removing \ {k}
    /\ IF reg[ClientOf[k]] = k
       THEN /\ reg' = [reg EXCEPT ![ClientOf[k]] = Nobody]
            /\ index' = index \ {ClientOf[k]}
       ELSE UNCHANGED <<reg, index>>
    /\ UNCHANGED <<life, owner, sockets, registered, remote, look, sending, peers>>

-----------------------------------------------------------------------------
(* Lookups *)

\* registration: GET of the client key, for resolveClientData or for a client
\* the user index names.
LookUp(i, c) ==
    /\ i \in Askers /\ live(i)
    /\ look[i][c] = Nobody
    /\ Cardinality({r \in Instances \X Clients : look[r[1]][r[2]] # Nobody}) < MaxLookups
    /\ look' = [look EXCEPT ![i][c] = IF reg[c] = Nobody THEN "absent" ELSE reg[c]]
    /\ UNCHANGED <<life, redis, sockets, registered, removing, remote, sending, peers>>

\* A registration read earlier stands: its owner is alive, this router is,
\* and if it is a registration of this router the socket is still open.
Stands(i, k) ==
    /\ ownerAlive(at[k])
    /\ live(i)
    /\ at[k] = i => HasCurrent(i, ClientOf[k])

LookedUp(i, c) ==
    /\ look[i][c] \in Conns
    /\ \/ /\ Stands(i, look[i][c])
          /\ remote' = [remote EXCEPT ![i][c] = look[i][c]]
          /\ look' = [look EXCEPT ![i][c] = Nobody]
       \/ /\ ~Stands(i, look[i][c])
          /\ look' = [look EXCEPT ![i][c] = "absent"]
          /\ UNCHANGED remote
    /\ UNCHANGED <<life, redis, sockets, registered, removing, sending, peers>>

\* PRUNE without looking whether the client has registered since.
PruneBlindly(c) == index' = index \ {c}

\* The PRUNE script.
Prune(c) == index' = IF reg[c] = Nobody THEN index \ {c} ELSE index

\* Nothing stands: resolveClientData forgets the client, getClientsByUserId
\* prunes the index.
NotFound(i, c) ==
    /\ look[i][c] = "absent"
    /\ look' = [look EXCEPT ![i][c] = Nobody]
    /\ \/ remote' = [remote EXCEPT ![i][c] = Nobody] /\ UNCHANGED index
       \/ Prune(c) /\ UNCHANGED remote
    /\ UNCHANGED <<life, owner, reg, sockets, registered, removing, sending, peers>>

-----------------------------------------------------------------------------
(* Sending *)

Write(m, k) == written' = [written EXCEPT ![m][k] = @ + 1]

\* sendToClient: if the client is connected here, to whichever connection has
\* its id by now, when the registration this router holds for the client is the
\* one the sender last saw; otherwise to wherever the directory says.
SendToClient(m, i, c) ==
    /\ msg[m] = NoMsg
    /\ live(i)
    /\ LET here == registered[i][c]
           prev == remote[i][c]
           new  == [NoMsg EXCEPT !.kind = "direct", !.from = i, !.client = c,
                                 !.previous = prev] IN
       \/ /\ here # Nobody /\ prev \in {Nobody, here}
          /\ \E k \in Conns : ClientOf[k] = c /\ IsCurrent(i, k) /\ Write(m, k)
          /\ msg' = [msg EXCEPT ![m] =
                [new EXCEPT !.stage = "done", !.target = here, !.result = TRUE]]
       \/ /\ HasCurrent(i, c)        \* another generation, or not written
          /\ msg' = [msg EXCEPT ![m] = [new EXCEPT !.stage = "done"]]
          /\ UNCHANGED written
       \/ /\ ~HasCurrent(i, c)
          /\ msg' = [msg EXCEPT ![m] = [new EXCEPT !.stage = "reading"]]
          /\ UNCHANGED written
    /\ UNCHANGED <<life, redis, sockets, registered, removing, remote, look, wire,
                   seen, receipts, sound>>

Fail(m) == msg' = [msg EXCEPT ![m].stage = "done"]

SendReads(m) ==
    /\ msg[m].stage = "reading"
    /\ IF reg[msg[m].client] = Nobody
       THEN Fail(m)
       ELSE msg' = [msg EXCEPT ![m].stage = "checking", ![m].target = reg[msg[m].client]]
    /\ UNCHANGED <<life, redis, sockets, registered, removing, remote, look, wire, peers>>

Pending(i) == {m \in Msgs : msg[m].from = i /\ msg[m].kind = "direct" /\ msg[m].stage = "sent"}

\* The captured audience is not compared with what the directory says now.
SameAudienceAny(m) == TRUE

SameAudience(m) == msg[m].previous \in {Nobody, msg[m].target}

\* request: the frame names the generation it is for.
SendChecked(m) ==
    /\ msg[m].stage = "checking"
    /\ IF /\ Stands(msg[m].from, msg[m].target)
          /\ SameAudience(m)
          /\ Cardinality(Pending(msg[m].from)) < MaxPending
       THEN /\ msg' = [msg EXCEPT ![m].stage = "sent"]
            /\ wire' = wire \cup {m}
       ELSE Fail(m) /\ UNCHANGED wire
    /\ UNCHANGED <<life, redis, sockets, registered, removing, remote, look, peers>>

RequestTimeout(m) ==
    /\ m \in Pending(msg[m].from)
    /\ Fail(m)
    /\ UNCHANGED <<life, redis, sockets, registered, removing, remote, look, wire, peers>>

\* sendToChannel for a client: its publish right is checked, local members
\* get the frame, then peers do, if nothing about the client has changed.
SendToChannel(m, i, k) ==
    /\ msg[m] = NoMsg
    /\ live(i)
    /\ IsCurrent(i, k)
    /\ msg' = [msg EXCEPT ![m] = [NoMsg EXCEPT !.kind = "channel", !.from = i,
                   !.client = ClientOf[k], !.previous = k, !.stage = "local"]]
    /\ UNCHANGED <<life, redis, sockets, registered, removing, remote, look, wire, peers>>

PublishToPeers(m) ==
    LET i == msg[m].from
        k == registered[i][msg[m].client] IN
    /\ msg[m].stage = "local"
    /\ IF live(i) /\ IsCurrent(i, msg[m].previous) /\ k # Nobody
       THEN /\ \/ /\ msg' = [msg EXCEPT ![m].stage = "sent", ![m].target = k]
                  /\ wire' = wire \cup {m}
               \/ Fail(m) /\ UNCHANGED wire      \* no longer authorized
       ELSE Fail(m) /\ UNCHANGED wire
    /\ UNCHANGED <<life, redis, sockets, registered, removing, remote, look, peers>>

\* broadcasts, call events and membership events: for everybody, from a node.
SendEvent(m, i) ==
    /\ msg[m] = NoMsg
    /\ live(i)
    /\ msg' = [msg EXCEPT ![m] = [NoMsg EXCEPT !.from = i, !.stage = "sent"]]
    /\ wire' = wire \cup {m}
    /\ UNCHANGED <<life, redis, sockets, registered, removing, remote, look, peers>>

-----------------------------------------------------------------------------
(* Receiving *)

\* A direct frame goes to the topic of one incarnation, others to every peer.
Addressed(j, m) ==
    /\ msg[m].from # j
    /\ msg[m].kind = "direct" => at[msg[m].target] = j

\* receive: a frame seen before is not delivered again.
Receive(j, m) ==
    /\ m \in wire
    /\ live(j)
    /\ Addressed(j, m)
    /\ seen[j][m] = "new"
    /\ seen' = [seen EXCEPT ![j][m] = "received"]
    /\ sound' = IF /\ ownerAlive(msg[m].from)
                   /\ msg[m].kind = "channel" => reg[msg[m].client] = msg[m].target
                THEN sound \cup {<<j, m>>} ELSE sound
    /\ UNCHANGED <<life, redis, sockets, registered, removing, remote, look, sending,
                   receipts, written>>

Step(j, m, s) == seen' = [seen EXCEPT ![j][m] = s]

\* deliver: the origin's ownership is read from Redis.
OriginChecked(j, m) ==
    /\ seen[j][m] = "received"
    /\ Step(j, m, IF ownerAlive(msg[m].from) THEN "alive" ELSE "no")
    /\ UNCHANGED <<life, redis, sockets, registered, removing, remote, look, sending,
                   receipts, written, sound>>

\* The registration a direct frame names is this router's, and current.
Deliverable(j, k) == registered[j][ClientOf[k]] = k /\ IsCurrent(j, k)

DeliverDirect(j, m) ==
    /\ seen[j][m] = "alive"
    /\ msg[m].kind = "direct"
    /\ \/ /\ live(j) /\ Deliverable(j, msg[m].target)
          /\ Step(j, m, "yes") /\ Write(m, msg[m].target)
       \/ Step(j, m, "no") /\ UNCHANGED written    \* not its own, or not written
    /\ UNCHANGED <<life, redis, sockets, registered, removing, remote, look, sending,
                   receipts, sound>>

DeliverEvent(j, m) ==
    /\ seen[j][m] = "alive"
    /\ msg[m].kind = "event"
    /\ Step(j, m, IF live(j) THEN "yes" ELSE "no")
    /\ UNCHANGED <<life, redis, sockets, registered, removing, remote, look, sending,
                   receipts, written, sound>>

\* The publisher is registered, whatever the generation.
SamePublisherAny(m) == reg[msg[m].client] # Nobody

\* The publisher is registered under the generation the frame names.
SamePublisher(m) == reg[msg[m].client] = msg[m].target

PublisherRead(j, m) ==
    /\ seen[j][m] = "alive"
    /\ msg[m].kind = "channel"
    /\ Step(j, m, IF live(j) /\ SamePublisher(m) THEN "published" ELSE "no")
    /\ UNCHANGED <<life, redis, sockets, registered, removing, remote, look, sending,
                   receipts, written, sound>>

\* Its owner is alive and the host lets it publish: sendToLocalChannel.
DeliverChannel(j, m) ==
    /\ seen[j][m] = "published"
    /\ \/ Stands(j, msg[m].target) /\ Step(j, m, "yes")
       \/ Step(j, m, "no")
    /\ UNCHANGED <<life, redis, sockets, registered, removing, remote, look, sending,
                   receipts, written, sound>>

\* A receipt says that the frame came, whatever became of it.
SendReceiptEarly(j, m) ==
    /\ live(j)
    /\ msg[m].kind = "direct"
    /\ seen[j][m] # "new"
    /\ receipts' = receipts \cup {<<m, TRUE>>}
    /\ UNCHANGED <<life, redis, sockets, registered, removing, remote, look, sending,
                   seen, written, sound>>

\* A receipt says what became of the frame, once for each copy received.
SendReceipt(j, m) ==
    /\ live(j)
    /\ msg[m].kind = "direct"
    /\ seen[j][m] \in {"yes", "no"}
    /\ receipts' = receipts \cup {<<m, seen[j][m] = "yes">>}
    /\ UNCHANGED <<life, redis, sockets, registered, removing, remote, look, sending,
                   seen, written, sound>>

ReceiveReceipt(r) ==
    LET m == r[1] IN
    /\ r \in receipts
    /\ m \in Pending(msg[m].from)
    /\ live(msg[m].from)
    /\ msg' = [msg EXCEPT ![m].stage = "done", ![m].result = r[2]]
    /\ UNCHANGED <<life, redis, sockets, registered, removing, remote, look, wire, peers>>

-----------------------------------------------------------------------------
Next ==
    \/ \E i \in Instances : Acquire(i) \/ Started(i) \/ Fence(i) \/ Crash(i)
                            \/ Shutdown(i) \/ Release(i)
    \/ \E n \in Nodes : OwnerExpires(n)
    \/ \E c \in Clients : RegistrationExpires(c)
    \/ \E i \in Instances, k \in Conns : Connect(i, k)
    \/ \E k \in Conns : Register(k) \/ Registered(k) \/ SocketCloses(k)
                        \/ CleanUp(k) \/ Disconnect(k) \/ RemoveScript(k)
    \/ \E i \in Instances, c \in Clients : LookUp(i, c) \/ LookedUp(i, c) \/ NotFound(i, c)
    \/ \E m \in Msgs, i \in Instances :
          \/ \E c \in Clients : SendToClient(m, i, c)
          \/ \E k \in Conns : SendToChannel(m, i, k)
          \/ SendEvent(m, i)
    \/ \E m \in Msgs : SendReads(m) \/ SendChecked(m) \/ RequestTimeout(m) \/ PublishToPeers(m)
    \/ \E j \in Instances, m \in Msgs :
          \/ Receive(j, m) \/ OriginChecked(j, m)
          \/ DeliverDirect(j, m) \/ DeliverEvent(j, m)
          \/ PublisherRead(j, m) \/ DeliverChannel(j, m) \/ SendReceipt(j, m)
    \/ \E r \in Msgs \X BOOLEAN : ReceiveReceipt(r)

Spec == Init /\ [][Next]_vars

-----------------------------------------------------------------------------
(* Properties *)

\* A direct message is written once in all, however often its frame is
\* duplicated, and only if the generation its sender last saw under the client
\* id is the one that is served: a frame sent to a peer reaches that connection
\* or none, and a send on the spot another connection of the client only when
\* the one it is registered under has left the handler.
WrittenOnceToCaptured ==
    \A m \in Msgs, k \in Conns :
        written[m][k] > 0 =>
            /\ written[m][k] = 1 /\ \A l \in Conns \ {k} : written[m][l] = 0
            /\ ClientOf[k] = msg[m].client
            /\ msg[m].previous \in {Nobody, msg[m].target}
            /\ \/ k = msg[m].target
               \/ m \notin wire /\ conn[msg[m].target] \in {"leaving", "gone"}

\* A send that reports success has written to a connection of its client, and
\* if it went to a peer to the one it named; a lost receipt, a timeout, a fence
\* or a crash only ever lose a success.
HonestReceipts ==
    \A m \in Msgs :
        msg[m].result => \E k \in Conns : /\ ClientOf[k] = msg[m].client
                                          /\ written[m][k] = 1
                                          /\ m \in wire => k = msg[m].target

\* Every registered client is in the user index: neither a prune that read
\* the directory before it registered nor a late removal of an earlier
\* connection takes it out.
IndexComplete == \A c \in Clients : reg[c] # Nobody => c \in index

\* Two live routers never both serve an open connection registered under one
\* client id, across restarts, expiries, late replies and reused ids.
Serving(k) == IsCurrent(at[k], k) /\ live(at[k]) /\ registered[at[k]][ClientOf[k]] = k

OneConnectionPerClient ==
    \A k, l \in Conns :
        Serving(k) /\ Serving(l) /\ ClientOf[k] = ClientOf[l] => k = l

\* What a peer delivers came from an incarnation that still owned its node
\* when the frame arrived, and in a channel from a publisher that was still
\* registered under the generation the frame names.
DeliveredFromLiveOrigin ==
    \A j \in Instances, m \in Msgs : seen[j][m] = "yes" => <<j, m>> \in sound

=============================================================================
