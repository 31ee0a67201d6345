------------------------- MODULE ClusterRouterProofs -------------------------
(***************************************************************************)
(* Proofs about module ClusterRouter, for any number of nodes,             *)
(* incarnations, clients, connections and messages.                        *)
(*                                                                         *)
(* The directory: the user index loses no registered client, and a client  *)
(* is served in one place at a time.  The argument is Current: what a live *)
(* router serves is in Redis, and Redis holds one registration for each    *)
(* client.  It survives a removal because what a router is removing it no  *)
(* longer holds (Held), and an expiry by the lease's contract.             *)
(*                                                                         *)
(* Messages: a message is written once, over the wire to the connection it *)
(* names, and a success says that it was; frames are delivered from live   *)
(* origins only.  The argument is Messages: what each side knows of a      *)
(* message, which the directory cannot take back (Moves), and of which a   *)
(* step changes one at most (OneMoves).                                    *)
(***************************************************************************)
EXTENDS ClusterRouter, TLAPS

DirType ==
    /\ life \in [Instances -> Lives]
    /\ reg \in [Clients -> Conns \cup {Nobody}]
    /\ conn \in [Conns -> Conn]
    /\ at \in [Conns -> Instances \cup {Nobody}]
    /\ registered \in [Instances -> [Clients -> Conns \cup {Nobody}]]

\* Connections are accepted by routers that have started.
Placed == \A k \in Conns :
    conn[k] # "new" => /\ at[k] \in Instances
                       /\ life[at[k]] \notin {"new", "starting"}

\* A router holds registrations of its own connections whose script has
\* replied, under their client id, and none that it is removing.
Held == \A i \in Instances, c \in Clients, k \in Conns :
    registered[i][c] = k => /\ at[k] = i /\ ClientOf[k] = c
                            /\ conn[k] \in {"up", "leaving", "gone"}
                            /\ k \notin removing

\* Only registrations that were added, and replied for, are removed.
Removing == \A k \in Conns :
    k \in removing => conn[k] \in {"up", "leaving", "gone"}

\* Added and not yet replied for, or held.
Counts(k) == conn[k] = "added" \/ registered[at[k]][ClientOf[k]] = k

\* What counts at a live router, with its socket open, is what Redis says.
Current == \A k \in Conns :
    IsCurrent(at[k], k) /\ live(at[k]) /\ Counts(k) => reg[ClientOf[k]] = k

Directory == DirType /\ Placed /\ Held /\ Removing /\ Current /\ IndexComplete

directory == <<life, reg, index, sockets, registered, removing>>

\* Steps of lookups, sends and deliveries.
LEMMA Elsewhere == Directory /\ UNCHANGED directory => Directory'
BY DEF Directory, directory, sockets, DirType, Placed, Held, Removing, Current, Counts,
       IsCurrent, Entries, live, IndexComplete

\* An open connection is one the handler has accepted.
LEMMA CurrentIsPlaced ==
  ASSUME Directory, NEW k \in Conns, IsCurrent(at[k], k)
  PROVE  at[k] \in Instances /\ conn[k] \in {"open", "added", "refused", "up"} /\ k \notin shut
BY DEF Directory, Placed, IsCurrent, Entries

LEMMA LifeStep ==
  ASSUME Directory, NEW i \in Instances,
         Acquire(i) \/ Started(i) \/ Fence(i) \/ Release(i)
  PROVE  Directory'
<1>. USE DEF Directory
<1>1. /\ UNCHANGED <<reg, index, conn, at, shut, registered, removing>>
      /\ \/ life' = life
         \/ \E l \in Lives \ {"new", "starting", "live"} : life' = [life EXCEPT ![i] = l]
         \/ life[i] = "new" /\ life' = [life EXCEPT ![i] = "starting"]
         \/ life[i] = "starting" /\ life' = [life EXCEPT ![i] = "live"]
  BY DEF Acquire, Started, Fence, Release, sockets, redis, Lives
<1>2. DirType'
  BY <1>1 DEF DirType, Lives
<1>3. Placed'
  BY <1>1 DEF Placed, DirType
<1>4. Held' /\ Removing' /\ IndexComplete'
  BY <1>1 DEF Held, Removing, IndexComplete
<1>5. Current'
  <2>. SUFFICES ASSUME NEW k \in Conns, (IsCurrent(at[k], k) /\ live(at[k]) /\ Counts(k))'
                PROVE  reg[ClientOf[k]] = k
    BY <1>1 DEF Current
  <2>1. IsCurrent(at[k], k) /\ Counts(k)
    BY <1>1 DEF IsCurrent, Entries, Counts
  <2>2. at[k] \in Instances /\ life[at[k]] \notin {"new", "starting"}
    BY <2>1, CurrentIsPlaced DEF Placed
  <2>3. live(at[k])
    BY <1>1, <2>2 DEF live, DirType
  <2> QED BY <2>1, <2>3 DEF Current
<1> QED BY <1>2, <1>3, <1>4, <1>5

LEMMA CrashStep ==
  ASSUME Directory, NEW i \in Instances, Crash(i)
  PROVE  Directory'
<1>. USE DEF Directory, Crash, redis
<1>1. DirType'
  BY DEF DirType, Lives, Conn
<1>2. Placed'
  BY DEF Placed, DirType
<1>3. Held'
  BY ClusterAssumption DEF Held, DirType
<1>4. Removing' /\ IndexComplete'
  BY DEF Removing, IndexComplete, DirType
<1>5. Current'
  <2>. SUFFICES ASSUME NEW k \in Conns, (IsCurrent(at[k], k) /\ live(at[k]) /\ Counts(k))'
                PROVE  reg[ClientOf[k]] = k
    BY DEF Current
  <2>1. at[k] # i /\ conn'[k] = conn[k] /\ k \notin shut
    BY DEF IsCurrent, Entries, DirType
  <2>2. IsCurrent(at[k], k)
    BY <2>1 DEF IsCurrent, Entries
  <2>3. at[k] \in Instances
    BY <2>2, CurrentIsPlaced
  <2>4. live(at[k]) /\ Counts(k)
    BY <2>1, <2>3 DEF live, Counts, DirType
  <2> QED BY <2>2, <2>4 DEF Current
<1> QED BY <1>1, <1>2, <1>3, <1>4, <1>5

LEMMA ShutdownStep ==
  ASSUME Directory, NEW i \in Instances, Shutdown(i)
  PROVE  Directory'
<1>. USE DEF Directory, Shutdown, redis, sockets
<1>1. DirType'
  BY DEF DirType, Lives
<1>2. Placed'
  BY DEF Placed, DirType
<1>3. Held'
  <2>. SUFFICES ASSUME NEW j \in Instances, NEW c \in Clients, NEW k \in Conns,
                       registered'[j][c] = k
                PROVE  /\ at[k] = j /\ ClientOf[k] = c
                       /\ conn[k] \in {"up", "leaving", "gone"} /\ k \notin removing'
    BY DEF Held
  <2>1. j # i /\ registered[j][c] = k
    BY ClusterAssumption DEF DirType
  <2>2. \A d \in Clients : registered[i][d] # k
    BY <2>1 DEF Held
  <2> QED BY <2>1, <2>2 DEF Held
<1>4. Removing'
  BY DEF Removing, Held
<1>5. IndexComplete'
  BY DEF IndexComplete
<1>6. Current'
  <2>. SUFFICES ASSUME NEW k \in Conns, (IsCurrent(at[k], k) /\ live(at[k]) /\ Counts(k))'
                PROVE  reg[ClientOf[k]] = k
    BY DEF Current
  <2>1. IsCurrent(at[k], k)
    BY DEF IsCurrent, Entries
  <2>2. at[k] \in Instances
    BY <2>1, CurrentIsPlaced
  <2>3. at[k] # i /\ live(at[k])
    BY <2>2 DEF live, DirType
  <2>4. Counts(k)
    BY <2>2, <2>3 DEF Counts, DirType
  <2> QED BY <2>1, <2>3, <2>4 DEF Current
<1> QED BY <1>1, <1>2, <1>3, <1>4, <1>5, <1>6

LEMMA ExpiryStep ==
  ASSUME Directory, NEW c \in Clients, RegistrationExpires(c)
  PROVE  Directory'
<1>. USE DEF Directory, RegistrationExpires, sockets
<1>1. DirType' /\ Placed' /\ Held' /\ Removing' /\ IndexComplete'
  BY DEF DirType, Placed, Held, Removing, IndexComplete
<1>2. Current'
  <2>. SUFFICES ASSUME NEW k \in Conns, (IsCurrent(at[k], k) /\ live(at[k]) /\ Counts(k))'
                PROVE  reg'[ClientOf[k]] = k
    BY DEF Current
  <2>1. IsCurrent(at[k], k) /\ live(at[k]) /\ Counts(k)
    BY DEF IsCurrent, Entries, live, Counts
  <2>2. reg[ClientOf[k]] = k
    BY <2>1 DEF Current
  <2>3. Renewed(k)
    BY <2>1 DEF Renewed, Counts
  <2>4. ClientOf[k] # c
    BY <2>2, <2>3
  <2> QED BY <2>2, <2>4, ClusterAssumption DEF DirType
<1> QED BY <1>1, <1>2

LEMMA ConnectStep ==
  ASSUME Directory, NEW i \in Instances, NEW k \in Conns, Connect(i, k)
  PROVE  Directory'
<1>. USE DEF Directory, Connect, redis
<1>1. \A j \in Instances, c \in Clients : registered[j][c] # k
  BY DEF Held
<1>2. conn'[k] \in {"open", "leaving"}
  BY DEF DirType
<1>3. DirType' /\ Placed' /\ Removing' /\ IndexComplete'
  BY <1>2 DEF DirType, Conn, Placed, Removing, IndexComplete
<1>4. Held'
  BY <1>1 DEF Held, DirType
<1>5. Current'
  <2>. SUFFICES ASSUME NEW l \in Conns, (IsCurrent(at[l], l) /\ live(at[l]) /\ Counts(l))'
                PROVE  reg[ClientOf[l]] = l
    BY DEF Current
  <2>1. l # k
    BY <1>1, <1>2, ClusterAssumption DEF Counts, DirType
  <2>2. IsCurrent(at[l], l) /\ live(at[l]) /\ Counts(l)
    BY <2>1 DEF IsCurrent, Entries, live, Counts, DirType
  <2> QED BY <2>2 DEF Current
<1> QED BY <1>3, <1>4, <1>5

LEMMA RegisterStep ==
  ASSUME Directory, NEW k \in Conns, Register(k)
  PROVE  Directory'
<1>. USE DEF Directory, Register
<1>1. CASE Refuse(k)
  BY <1>1 DEF Refuse, DirType, Conn, Placed, Held, Removing, IndexComplete, Current,
              Counts, IsCurrent, Entries, live
<1>2. CASE ownerAlive(at[k]) /\ reg[ClientOf[k]] = Nobody /\ Add(k)
  <2>. USE <1>2 DEF Add
  <2>0. /\ conn' = [conn EXCEPT ![k] = "added"] /\ conn[k] = "open"
        /\ reg' = [reg EXCEPT ![ClientOf[k]] = k]
        /\ UNCHANGED <<life, shut, at, registered, removing>>
    OBVIOUS
  <2>1. DirType'
    <3>1. ClientOf[k] \in Clients
      BY ClusterAssumption
    <3>2. reg' \in [Clients -> Conns \cup {Nobody}]
      BY <2>0, <3>1 DEF DirType
    <3>3. conn' \in [Conns -> Conn]
      BY <2>0 DEF DirType, Conn
    <3> QED BY <2>0, <3>2, <3>3 DEF DirType
  <2>4. Placed' /\ Held' /\ Removing'
    BY <2>0 DEF DirType, Placed, Held, Removing
  <2>2. IndexComplete'
    BY ClusterAssumption DEF IndexComplete, DirType
  <2>3. Current'
    <3>. SUFFICES ASSUME NEW l \in Conns, l # k,
                         (IsCurrent(at[l], l) /\ live(at[l]) /\ Counts(l))'
                  PROVE  reg'[ClientOf[l]] = l
      BY ClusterAssumption DEF Current, DirType
    <3>1. IsCurrent(at[l], l) /\ live(at[l]) /\ Counts(l)
      BY DEF IsCurrent, Entries, live, Counts, DirType
    <3>2. reg[ClientOf[l]] = l
      BY <3>1 DEF Current
    <3>3. ClientOf[l] # ClientOf[k]
      BY <3>2, ClusterAssumption
    <3> QED BY <3>2, <3>3, ClusterAssumption DEF DirType
  <2> QED BY <2>1, <2>2, <2>3, <2>4
<1> QED BY <1>1, <1>2

LEMMA RegisteredStep ==
  ASSUME Directory, NEW k \in Conns, Registered(k)
  PROVE  Directory'
<1>. USE ClusterAssumption DEF Directory, Registered, redis
<1>0. at[k] \in Instances /\ k \notin removing
  BY DEF Placed, Removing
<1>1. CASE conn[k] = "added" /\ live(at[k]) /\ IsCurrent(at[k], k)
  <2>. DEFINE i == at[k]
  <2>0. /\ registered' = [registered EXCEPT ![i][ClientOf[k]] = k]
        /\ conn' = [conn EXCEPT ![k] = "up"]
        /\ UNCHANGED <<shut, removing, life, reg, index, at>>
    BY <1>1
  <2>1. DirType' /\ Placed' /\ Removing' /\ IndexComplete'
    BY <1>0, <2>0 DEF DirType, Conn, Placed, Removing, IndexComplete
  <2>2. Held'
    BY <1>0, <2>0 DEF Held, DirType
  <2>3. Current'
    <3>. SUFFICES ASSUME NEW l \in Conns,
                         (IsCurrent(at[l], l) /\ live(at[l]) /\ Counts(l))'
                  PROVE  reg[ClientOf[l]] = l
      BY <2>0 DEF Current
    <3>1. CASE l = k
      BY <1>1, <3>1 DEF Current, Counts
    <3>2. CASE l # k
      <4>1. IsCurrent(at[l], l) /\ live(at[l])
        BY <2>0, <3>2 DEF IsCurrent, Entries, live, DirType
      <4>2. at[l] \in Instances
        BY <4>1, CurrentIsPlaced
      <4>3. Counts(l)
        BY <1>0, <2>0, <3>2, <4>2 DEF Counts, DirType
      <4> QED BY <4>1, <4>3 DEF Current
    <3> QED BY <3>1, <3>2
  <2> QED BY <2>1, <2>2, <2>3
<1>2. CASE Rollback(k) /\ \/ UNCHANGED <<registered, removing>>
                          \/ /\ registered' = [registered EXCEPT ![at[k]][ClientOf[k]] = Nobody]
                             /\ removing' = removing \cup {k}
  <2>0. /\ conn' = [conn EXCEPT ![k] = "leaving"] /\ shut' = shut \cup {k}
        /\ UNCHANGED <<life, reg, index, at>>
        /\ conn[k] \in {"added", "refused"}
    BY <1>2 DEF Rollback
  <2>1. DirType'
    <3>1. registered' \in [Instances -> [Clients -> Conns \cup {Nobody}]]
      <4>. HIDE DEF Registered
      <4>1. CASE registered' = registered
        BY <4>1 DEF DirType
      <4>2. CASE registered' = [registered EXCEPT ![at[k]][ClientOf[k]] = Nobody]
        BY <1>0, <4>2 DEF DirType
      <4> QED BY <1>2, <4>1, <4>2
    <3>2. conn' \in [Conns -> Conn]
      BY <2>0 DEF DirType, Conn
    <3> QED BY <2>0, <3>1, <3>2 DEF DirType
  <2>5. Placed' /\ IndexComplete'
    BY <2>0 DEF DirType, Placed, IndexComplete
  <2>2. Removing'
    BY <1>2, <2>0 DEF Removing, DirType
  <2>3. Held'
    <3>. SUFFICES ASSUME NEW j \in Instances, NEW c \in Clients, NEW l \in Conns,
                         registered'[j][c] = l
                  PROVE  /\ at[l] = j /\ ClientOf[l] = c
                         /\ conn'[l] \in {"up", "leaving", "gone"} /\ l \notin removing'
      BY <2>0 DEF Held
    <3>1. registered[j][c] = l
      BY <1>0, <1>2 DEF DirType
    <3>2. l # k
      BY <2>0, <3>1 DEF Held
    <3> QED BY <1>2, <2>0, <3>1, <3>2 DEF Held, DirType
  <2>4. Current'
    <3>. SUFFICES ASSUME NEW l \in Conns,
                         (IsCurrent(at[l], l) /\ live(at[l]) /\ Counts(l))'
                  PROVE  reg[ClientOf[l]] = l
      BY <2>0 DEF Current
    <3>1. l # k /\ IsCurrent(at[l], l) /\ live(at[l])
      BY <2>0 DEF IsCurrent, Entries, live, DirType
    <3>2. at[l] \in Instances
      BY <3>1, CurrentIsPlaced
    <3>3. Counts(l)
      BY <1>0, <1>2, <2>0, <3>1, <3>2 DEF Counts, DirType
    <3> QED BY <3>1, <3>3 DEF Current
  <2> QED BY <2>1, <2>2, <2>3, <2>4, <2>5
<1> QED BY <1>1, <1>2 DEF Remove

LEMMA LeaveStep ==
  ASSUME Directory, NEW k \in Conns, SocketCloses(k) \/ CleanUp(k)
  PROVE  Directory'
<1>. USE DEF Directory
<1>1. /\ UNCHANGED <<life, reg, index, at, registered, removing>>
      /\ shut \subseteq shut'
      /\ \/ conn' = conn
         \/ conn[k] = "up" /\ conn' = [conn EXCEPT ![k] = "leaving"]
  BY DEF SocketCloses, CleanUp, redis
<1>2. DirType'
  BY <1>1 DEF DirType, Conn
<1>4. Placed' /\ Held' /\ Removing' /\ IndexComplete'
  BY <1>1 DEF DirType, Placed, Held, Removing, IndexComplete
<1>3. Current'
  BY <1>1 DEF Current, Counts, IsCurrent, Entries, live, DirType
<1> QED BY <1>2, <1>3, <1>4

LEMMA DisconnectStep ==
  ASSUME Directory, NEW k \in Conns, Disconnect(k)
  PROVE  Directory'
<1>. USE ClusterAssumption DEF Directory
<1>. DEFINE i == at[k]
            c == ClientOf[k]
            r == registered[i][c]
<1>5. i \in Instances /\ c \in Clients /\ conn[k] = "leaving"
  BY DEF Disconnect, Placed
<1>6. r \in Conns \cup {Nobody}
  BY <1>5 DEF DirType
<1>0. /\ i \in Instances /\ c \in Clients /\ r \in Conns \cup {Nobody}
      /\ conn[k] = "leaving" /\ conn' = [conn EXCEPT ![k] = "gone"]
      /\ registered' = [registered EXCEPT ![i][c] = Nobody]
      /\ removing' = removing \cup ({r} \ {Nobody})
      /\ UNCHANGED <<life, reg, index, shut, at>>
  BY <1>5, <1>6 DEF Disconnect, Remove, redis
<1>. HIDE DEF i, c, r
<1>1. DirType' /\ Placed' /\ IndexComplete'
  BY <1>0 DEF DirType, Conn, Placed, IndexComplete
<1>2. Removing'
  <2>1. r \in Conns => conn[r] \in {"up", "leaving", "gone"}
    BY <1>0 DEF Held, r
  <2> QED BY <1>0, <2>1 DEF Removing, DirType
<1>3. Held'
  <2>. SUFFICES ASSUME NEW j \in Instances, NEW d \in Clients, NEW l \in Conns,
                       registered'[j][d] = l
                PROVE  /\ at[l] = j /\ ClientOf[l] = d
                       /\ conn'[l] \in {"up", "leaving", "gone"} /\ l \notin removing'
    BY <1>0 DEF Held
  <2>1. registered[j][d] = l /\ (j # i \/ d # c)
    BY <1>0 DEF DirType
  <2>2. l # r
    BY <1>0, <2>1 DEF Held, r
  <2> QED BY <1>0, <2>1, <2>2 DEF Held, DirType
<1>4. Current'
  <2>. SUFFICES ASSUME NEW l \in Conns,
                       (IsCurrent(at[l], l) /\ live(at[l]) /\ Counts(l))'
                PROVE  reg[ClientOf[l]] = l
    BY <1>0 DEF Current
  <2>1. l # k /\ IsCurrent(at[l], l) /\ live(at[l])
    BY <1>0 DEF IsCurrent, Entries, live, DirType
  <2>2. at[l] \in Instances
    BY <2>1, CurrentIsPlaced
  <2>3. Counts(l)
    BY <1>0, <2>1, <2>2 DEF Counts, DirType
  <2> QED BY <2>1, <2>3 DEF Current
<1> QED BY <1>1, <1>2, <1>3, <1>4

LEMMA RemoveScriptStep ==
  ASSUME Directory, NEW k \in Conns, RemoveScript(k)
  PROVE  Directory'
<1>. USE ClusterAssumption DEF Directory
<1>0. /\ k \in removing /\ removing' = removing \ {k}
      /\ UNCHANGED <<life, conn, shut, at, registered>>
      /\ \/ /\ reg[ClientOf[k]] = k
            /\ reg' = [reg EXCEPT ![ClientOf[k]] = Nobody]
            /\ index' = index \ {ClientOf[k]}
         \/ UNCHANGED <<reg, index>>
  BY DEF RemoveScript, sockets
<1>1. DirType' /\ Placed' /\ Held' /\ Removing'
  BY <1>0 DEF DirType, Placed, Held, Removing
<1>2. IndexComplete'
  BY <1>0 DEF IndexComplete, DirType
<1>3. Current'
  <2>. SUFFICES ASSUME NEW l \in Conns,
                       (IsCurrent(at[l], l) /\ live(at[l]) /\ Counts(l))'
                PROVE  reg'[ClientOf[l]] = l
    BY DEF Current
  <2>1. IsCurrent(at[l], l) /\ live(at[l]) /\ Counts(l)
    BY <1>0 DEF IsCurrent, Entries, live, Counts
  <2>2. reg[ClientOf[l]] = l
    BY <2>1 DEF Current
  <2>3. at[l] \in Instances
    BY <2>1, CurrentIsPlaced
  <2>4. l # k
    BY <1>0, <2>1, <2>3 DEF Counts, Held, Removing
  <2> QED BY <1>0, <2>2, <2>4 DEF DirType
<1> QED BY <1>1, <1>2, <1>3

LEMMA NotFoundStep ==
  ASSUME Directory, NEW i \in Instances, NEW c \in Clients, NotFound(i, c)
  PROVE  Directory'
<1>1. UNCHANGED <<life, reg, conn, shut, at, registered, removing>>
  BY DEF NotFound, sockets
<1>2. IndexComplete'
  BY DEF NotFound, Prune, IndexComplete, Directory
<1> QED BY <1>1, <1>2 DEF Directory, DirType, Placed, Held, Removing, Current, Counts,
                         IsCurrent, Entries, live

LEMMA DirectoryStep == Directory /\ [Next]_vars => Directory'
<1>. SUFFICES ASSUME Directory, [Next]_vars PROVE Directory'
  OBVIOUS
<1>1. ASSUME NEW i \in Instances,
             \/ Acquire(i) \/ Started(i) \/ Fence(i) \/ Crash(i)
             \/ Shutdown(i) \/ Release(i)
      PROVE  Directory'
  BY <1>1, LifeStep, CrashStep, ShutdownStep
<1>2. ASSUME NEW n \in Nodes, OwnerExpires(n) PROVE Directory'
  BY <1>2, Elsewhere DEF OwnerExpires, directory
<1>3. ASSUME NEW c \in Clients, RegistrationExpires(c) PROVE Directory'
  BY <1>3, ExpiryStep
<1>4. ASSUME NEW i \in Instances, NEW k \in Conns, Connect(i, k) PROVE Directory'
  BY <1>4, ConnectStep
<1>5. ASSUME NEW k \in Conns,
             \/ Register(k) \/ Registered(k) \/ SocketCloses(k) \/ CleanUp(k)
             \/ Disconnect(k) \/ RemoveScript(k)
      PROVE  Directory'
  BY <1>5, RegisterStep, RegisteredStep, LeaveStep, DisconnectStep, RemoveScriptStep
<1>6. ASSUME NEW i \in Instances, NEW c \in Clients,
             LookUp(i, c) \/ LookedUp(i, c) \/ NotFound(i, c)
      PROVE  Directory'
  <2>1. CASE LookUp(i, c) \/ LookedUp(i, c)
    BY <2>1, Elsewhere DEF LookUp, LookedUp, redis, directory
  <2> QED BY <1>6, <2>1, NotFoundStep
<1>7. ASSUME NEW m \in Msgs, NEW i \in Instances,
             \/ \E c \in Clients : SendToClient(m, i, c)
             \/ \E k \in Conns : SendToChannel(m, i, k)
             \/ SendEvent(m, i)
      PROVE  Directory'
  BY <1>7, Elsewhere DEF SendToClient, SendToChannel, SendEvent, redis, directory
<1>8. ASSUME NEW m \in Msgs,
             SendReads(m) \/ SendChecked(m) \/ RequestTimeout(m) \/ PublishToPeers(m)
      PROVE  Directory'
  BY <1>8, Elsewhere DEF SendReads, SendChecked, RequestTimeout, PublishToPeers, redis, directory
<1>9. ASSUME NEW j \in Instances, NEW m \in Msgs,
             \/ Receive(j, m) \/ OriginChecked(j, m)
             \/ DeliverDirect(j, m) \/ DeliverEvent(j, m)
             \/ PublisherRead(j, m) \/ DeliverChannel(j, m) \/ SendReceipt(j, m)
      PROVE  Directory'
  BY <1>9, Elsewhere DEF Receive, OriginChecked, DeliverDirect, DeliverEvent, PublisherRead,
                         DeliverChannel, SendReceipt, redis, directory
<1>10. ASSUME NEW r \in Msgs \X BOOLEAN, ReceiveReceipt(r) PROVE Directory'
  BY <1>10, Elsewhere DEF ReceiveReceipt, redis, directory
<1>11. CASE UNCHANGED vars
  BY <1>11, Elsewhere DEF vars, redis, directory
<1> QED BY <1>1, <1>2, <1>3, <1>4, <1>5, <1>6, <1>7, <1>8, <1>9, <1>10, <1>11 DEF Next

LEMMA DirectoryKept == Spec => []Directory
<1>1. Init => Directory
  BY ClusterAssumption DEF Init, Directory, DirType, Lives, Conn, Placed, Held, Removing,
         Current, Counts, IsCurrent, Entries, IndexComplete
<1> QED BY <1>1, DirectoryStep, PTL DEF Spec

\* Every client registered in Redis stays in its user's index, whatever
\* lookups prune and whatever routers remove late.
THEOREM Indexed == Spec => []IndexComplete
<1>1. Directory => IndexComplete
  BY DEF Directory
<1> QED BY <1>1, DirectoryKept, PTL

\* No two live routers serve open connections registered under one client id.
THEOREM ServedOnce == Spec => []OneConnectionPerClient
<1>1. Directory => OneConnectionPerClient
  BY DEF Directory, Current, Counts, OneConnectionPerClient, Serving
<1> QED BY <1>1, DirectoryKept, PTL

-----------------------------------------------------------------------------
(* Messages *)

\* What Redis has registered is a connection whose script has run.
RegKnown == \A c \in Clients : reg[c] \in Conns =>
    ClientOf[reg[c]] = c /\ conn[reg[c]] \notin {"new", "open"}

Entered(k) == conn[k] \in {"open", "added", "refused", "up"}
Left(k)    == conn[k] \in {"leaving", "gone"}

\* The handler of an incarnation has one connection under a client id.
OneEntry == \A k, l \in Conns :
    Entered(k) /\ Entered(l) /\ at[k] = at[l] /\ ClientOf[k] = ClientOf[l] => k = l

\* A message names its target by a registration that Redis had.
Known(m) == /\ msg[m].target \in Conns
            /\ ClientOf[msg[m].target] = msg[m].client
            /\ conn[msg[m].target] \notin {"new", "open"}

\* The message was written: by its sender, or where its frame went.
Wrote(m) == IF m \in wire
            THEN msg[m].kind = "direct" /\ seen[at[msg[m].target]][m] = "yes"
            ELSE msg[m].result

\* It was written to this connection alone.
Reached(m, k) ==
    /\ ClientOf[k] = msg[m].client
    /\ \A l \in Conns : written[m][l] = IF l = k THEN 1 ELSE 0
    /\ k = msg[m].target \/ (m \notin wire /\ Left(msg[m].target))

\* The publisher of the frame is not registered as it was.
Replaced(m) == msg[m].kind = "channel" /\ reg[msg[m].client] # msg[m].target

\* A message and where it has come, on each side.
Sending(m) ==
    /\ msg[m].stage = "idle" => msg[m] = NoMsg
    /\ msg[m].stage # "idle" => /\ msg[m].from \in Instances /\ life[msg[m].from] # "new"
                                /\ msg[m].kind # "event" => msg[m].client \in Clients
    /\ msg[m].stage \in {"reading", "checking"} => msg[m].kind = "direct"
    /\ msg[m].stage = "local" => msg[m].kind = "channel"
    /\ m \in wire => msg[m].stage \in {"sent", "done"}
    /\ msg[m].stage # "done" => ~msg[m].result
    /\ msg[m].stage = "checking" => Known(m)
    /\ m \in wire /\ msg[m].kind # "event" => Known(m)
    /\ m \in wire /\ msg[m].kind = "direct" => SameAudience(m)
    /\ msg[m].result => Known(m) /\ SameAudience(m) /\ Wrote(m) /\ msg[m].kind = "direct"

Receiving(m) ==
    /\ Wrote(m) => \E k \in Conns : Reached(m, k)
    /\ ~Wrote(m) => \A k \in Conns : written[m][k] = 0
    /\ \A j \in Instances : seen[j][m] # "new" => m \in wire /\ Addressed(j, m)
    /\ \A j \in Instances : seen[j][m] = "published" => msg[m].kind = "channel"
    /\ \A b \in BOOLEAN : <<m, b>> \in receipts =>
           m \in wire /\ msg[m].kind = "direct" /\ (b => Wrote(m))

\* A frame that came too late was passed on only as far as Redis has not
\* shown it: an origin that lost its node never owns it again, and a
\* publisher that was replaced is not registered again.
Sound(m) == \A j \in Instances : seen[j][m] # "new" /\ <<j, m>> \notin sound =>
    /\ ~ownerAlive(msg[m].from) \/ Replaced(m)
    /\ seen[j][m] \notin {"published", "yes"}
    /\ seen[j][m] = "alive" => Replaced(m)

Message(m) == Sending(m) /\ Receiving(m) /\ Sound(m)

Messages == TypeOK /\ RegKnown /\ OneEntry /\ \A m \in Msgs : Message(m)

LEMMA MsgShape ==
  ASSUME TypeOK, NEW m \in Msgs
  PROVE  /\ msg[m] \in Msg
         /\ msg[m].stage \in Stages /\ msg[m].kind \in Kinds
         /\ msg[m].from \in Instances \cup {Nobody}
         /\ msg[m].previous \in Conns \cup {Nobody}
         /\ msg[m].target \in Conns \cup {Nobody}
         /\ msg[m].client \in Clients \cup {Nobody}
         /\ msg[m].result \in BOOLEAN
BY DEF TypeOK, Msg

LEMMA NoMsgType == NoMsg \in Msg
BY DEF NoMsg, Msg, Stages, Kinds

\* The message n moves on in the record; nothing else does.
Becomes(m, n) == msg'[m] = n /\ \A l \in Msgs \ {m} : msg'[l] = msg[l]

LEMMA Restage ==
  ASSUME TypeOK, NEW m \in Msgs, NEW s \in Stages, msg' = [msg EXCEPT ![m].stage = s]
  PROVE  msg' \in [Msgs -> Msg] /\ Becomes(m, [msg[m] EXCEPT !.stage = s])
<1>1. [msg[m] EXCEPT !.stage = s] \in Msg
  BY MsgShape DEF Msg
<1> QED BY <1>1 DEF TypeOK, Becomes

LEMMA Retarget ==
  ASSUME TypeOK, NEW m \in Msgs, NEW s \in Stages, NEW k \in Conns \cup {Nobody},
         msg' = [msg EXCEPT ![m].stage = s, ![m].target = k]
  PROVE  /\ msg' \in [Msgs -> Msg]
         /\ Becomes(m, [[msg[m] EXCEPT !.stage = s] EXCEPT !.target = k])
<1>. DEFINE one == [msg EXCEPT ![m].stage = s]
<1>1. [msg[m] EXCEPT !.stage = s] \in Msg
  BY MsgShape DEF Msg
<1>2. [[msg[m] EXCEPT !.stage = s] EXCEPT !.target = k] \in Msg
  BY MsgShape DEF Msg
<1>3. one \in [Msgs -> Msg] /\ one[m] = [msg[m] EXCEPT !.stage = s]
      /\ \A l \in Msgs \ {m} : one[l] = msg[l]
  BY <1>1 DEF TypeOK
<1>4. msg' = [one EXCEPT ![m].target = k]
  OBVIOUS
<1>. HIDE DEF one
<1> QED BY <1>2, <1>3, <1>4 DEF Becomes

LEMMA Answered ==
  ASSUME TypeOK, NEW m \in Msgs, NEW b \in BOOLEAN,
         msg' = [msg EXCEPT ![m].stage = "done", ![m].result = b]
  PROVE  /\ msg' \in [Msgs -> Msg]
         /\ Becomes(m, [[msg[m] EXCEPT !.stage = "done"] EXCEPT !.result = b])
<1>. DEFINE one == [msg EXCEPT ![m].stage = "done"]
<1>1. [msg[m] EXCEPT !.stage = "done"] \in Msg
  BY MsgShape DEF Msg, Stages
<1>2. [[msg[m] EXCEPT !.stage = "done"] EXCEPT !.result = b] \in Msg
  BY <1>1 DEF Msg
<1>3. one \in [Msgs -> Msg] /\ one[m] = [msg[m] EXCEPT !.stage = "done"]
      /\ \A l \in Msgs \ {m} : one[l] = msg[l]
  BY <1>1 DEF TypeOK
<1>4. msg' = [one EXCEPT ![m].result = b]
  OBVIOUS
<1>. HIDE DEF one
<1> QED BY <1>2, <1>3, <1>4 DEF Becomes

\* Frames that fail, or that their sender gives up, are done.
LEMMA Dropped ==
  ASSUME TypeOK, msg' = [m \in Msgs |-> msg'[m]],
         \A m \in Msgs : msg'[m] \in {msg[m], [msg[m] EXCEPT !.stage = "done"]}
  PROVE  msg' \in [Msgs -> Msg]
<1>1. \A m \in Msgs : [msg[m] EXCEPT !.stage = "done"] \in Msg /\ msg[m] \in Msg
  BY MsgShape DEF Msg, Stages
<1> QED BY <1>1

LEMMA WriteType ==
  ASSUME TypeOK, NEW m \in Msgs, NEW k \in Conns, Write(m, k)
  PROVE  written' \in [Msgs -> [Conns -> Nat]]
BY DEF TypeOK, Write

LEMMA StepType ==
  ASSUME TypeOK, NEW j \in Instances, NEW m \in Msgs, NEW s \in Steps, Step(j, m, s)
  PROVE  seen' \in [Instances -> [Msgs -> Steps]]
BY DEF TypeOK, Step

LEMMA RemoteType ==
  ASSUME TypeOK, NEW i \in Instances, NEW c \in Clients, NEW k \in Conns \cup {Nobody},
         remote' = [remote EXCEPT ![i][c] = k]
  PROVE  remote' \in [Instances -> [Clients -> Conns \cup {Nobody}]]
BY DEF TypeOK

LEMMA LookType ==
  ASSUME TypeOK, NEW i \in Instances, NEW c \in Clients, NEW l \in Conns \cup {Nobody, "absent"},
         look' = [look EXCEPT ![i][c] = l]
  PROVE  look' \in [Instances -> [Clients -> Conns \cup {Nobody, "absent"}]]
BY DEF TypeOK

\* A new direct message: written here at once, failed, or to be looked up.
Direct(m, i, c, n) ==
    /\ n \in Msg
    /\ n.kind = "direct" /\ n.from = i /\ n.previous = remote[i][c] /\ n.client = c
    /\ msg' = [msg EXCEPT ![m] = n]
    /\ \/ /\ n.stage = "done" /\ n.target = registered[i][c] /\ n.result = TRUE
          /\ registered[i][c] # Nobody /\ remote[i][c] \in {Nobody, registered[i][c]}
          /\ \E k \in Conns : ClientOf[k] = c /\ IsCurrent(i, k) /\ Write(m, k)
       \/ /\ n.stage \in {"done", "reading"} /\ n.target = Nobody /\ n.result = FALSE
          /\ written' = written

LEMMA Directs ==
  ASSUME NEW m \in Msgs, NEW i \in Instances, NEW c \in Clients, SendToClient(m, i, c),
         remote[i][c] \in Conns \cup {Nobody}, registered[i][c] \in Conns \cup {Nobody}
  PROVE  \E n : Direct(m, i, c, n)
<1>. DEFINE new == [NoMsg EXCEPT !.kind = "direct", !.from = i, !.client = c,
                                !.previous = remote[i][c]]
<1>1. /\ new \in Msg
      /\ new.kind = "direct" /\ new.from = i /\ new.previous = remote[i][c] /\ new.client = c
      /\ new.target = Nobody /\ new.result = FALSE
  BY DEF NoMsg, Msg, Stages, Kinds
<1>2. \/ /\ registered[i][c] # Nobody /\ remote[i][c] \in {Nobody, registered[i][c]}
         /\ msg' = [msg EXCEPT ![m] = [new EXCEPT !.stage = "done",
                      !.target = registered[i][c], !.result = TRUE]]
         /\ \E k \in Conns : ClientOf[k] = c /\ IsCurrent(i, k) /\ Write(m, k)
      \/ /\ msg' = [msg EXCEPT ![m] = [new EXCEPT !.stage = "done"]]
         /\ UNCHANGED written
      \/ /\ msg' = [msg EXCEPT ![m] = [new EXCEPT !.stage = "reading"]]
         /\ UNCHANGED written
  BY DEF SendToClient
<1>. HIDE DEF new
<1>3. ASSUME registered[i][c] # Nobody, remote[i][c] \in {Nobody, registered[i][c]},
             msg' = [msg EXCEPT ![m] = [new EXCEPT !.stage = "done",
                       !.target = registered[i][c], !.result = TRUE]],
             \E k \in Conns : ClientOf[k] = c /\ IsCurrent(i, k) /\ Write(m, k)
      PROVE  \E n : Direct(m, i, c, n)
  <2>. DEFINE n == [new EXCEPT !.stage = "done", !.target = registered[i][c], !.result = TRUE]
  <2>1. /\ n \in Msg
        /\ n.kind = "direct" /\ n.from = i /\ n.previous = remote[i][c] /\ n.client = c
        /\ n.stage = "done" /\ n.target = registered[i][c] /\ n.result = TRUE
    BY <1>1 DEF Msg, Stages
  <2>. HIDE DEF n
  <2>2. msg' = [msg EXCEPT ![m] = n]
    BY <1>3 DEF n
  <2>3. Direct(m, i, c, n)
    BY <1>3, <2>1, <2>2 DEF Direct
  <2> QED BY <2>3
<1>4. ASSUME NEW s \in {"done", "reading"}, msg' = [msg EXCEPT ![m] = [new EXCEPT !.stage = s]],
             UNCHANGED written
      PROVE  \E n : Direct(m, i, c, n)
  <2>. DEFINE n == [new EXCEPT !.stage = s]
  <2>1. /\ n \in Msg
        /\ n.kind = "direct" /\ n.from = i /\ n.previous = remote[i][c] /\ n.client = c
        /\ n.stage = s /\ n.target = Nobody /\ n.result = FALSE
    BY <1>1 DEF Msg, Stages
  <2>2. msg' = [msg EXCEPT ![m] = n]
    BY <1>4
  <2>. HIDE DEF n
  <2>3. Direct(m, i, c, n)
    BY <1>4, <2>1, <2>2 DEF Direct
  <2> QED BY <2>3
<1> QED BY <1>2, <1>3, <1>4

LEMMA TypeStep == Messages /\ Directory /\ Directory' /\ [Next]_vars => TypeOK'
<1>. SUFFICES ASSUME Messages, Directory, Directory', [Next]_vars PROVE TypeOK'
  OBVIOUS
<1>. USE ClusterAssumption
<1>t. TypeOK
  BY DEF Messages
<1>d. DirType /\ DirType' /\ Placed
  BY DEF Directory
<1>1. ASSUME NEW i \in Instances, Acquire(i) \/ Started(i) \/ Release(i) PROVE TypeOK'
  <2>1. owner' \in [Nodes -> Instances \cup {Nobody}]
    <3>1. \/ owner' = owner
          \/ \E o \in {i, Nobody} : owner' = [owner EXCEPT ![NodeOf[i]] = o]
      BY <1>1 DEF Acquire, Started, Release, redis
    <3> QED BY <1>t, <3>1 DEF TypeOK
  <2>2. UNCHANGED <<index, shut, removing, remote, look, sending, peers>>
    BY <1>1 DEF Acquire, Started, Release, sockets, redis
  <2> QED BY <1>t, <1>d, <2>1, <2>2 DEF sending, peers, TypeOK, DirType
<1>2. ASSUME NEW i \in Instances, Fence(i) \/ Crash(i) \/ Shutdown(i) PROVE TypeOK'
  <2>1. /\ msg' = [m \in Msgs |-> msg'[m]]
        /\ \A m \in Msgs : msg'[m] \in {msg[m], [msg[m] EXCEPT !.stage = "done"]}
    <3>1. TypeOK => msg = [m \in Msgs |-> msg[m]]
      BY DEF TypeOK
    <3> QED BY <1>2, <3>1 DEF Fence, Crash, Shutdown, Abandon
  <2>2. msg' \in [Msgs -> Msg]
    BY <1>t, <2>1, Dropped
  <2>3. removing' \subseteq Conns
    BY <1>2, <1>t, <1>d DEF Fence, Crash, Shutdown, TypeOK, DirType
  <2>4. shut' \subseteq Conns
    BY <1>2, <1>t DEF Fence, Crash, Shutdown, TypeOK, sockets
  <2>5. remote' \in [Instances -> [Clients -> Conns \cup {Nobody}]]
    BY <1>2, <1>t DEF Fence, Crash, Shutdown, TypeOK
  <2>6. look' \in [Instances -> [Clients -> Conns \cup {Nobody, "absent"}]]
    BY <1>2, <1>t DEF Fence, Crash, Shutdown, TypeOK
  <2>7. UNCHANGED <<redis, wire, peers>>
    BY <1>2 DEF Fence, Crash, Shutdown
  <2> QED BY <1>t, <1>d, <2>2, <2>3, <2>4, <2>5, <2>6, <2>7 DEF redis, peers, TypeOK, DirType
<1>3. ASSUME NEW n \in Nodes, OwnerExpires(n) PROVE TypeOK'
  BY <1>3, <1>t DEF OwnerExpires, sockets, sending, peers, TypeOK
<1>4. ASSUME NEW c \in Clients, RegistrationExpires(c) PROVE TypeOK'
  BY <1>4, <1>t, <1>d DEF RegistrationExpires, sockets, sending, peers, TypeOK, DirType
<1>5. ASSUME NEW i \in Instances, NEW k \in Conns, Connect(i, k) PROVE TypeOK'
  BY <1>5, <1>t, <1>d DEF Connect, redis, sending, peers, TypeOK, DirType
<1>6. ASSUME NEW k \in Conns, Register(k) PROVE TypeOK'
  BY <1>6, <1>t, <1>d DEF Register, Add, Refuse, sending, peers, TypeOK, DirType
<1>7. ASSUME NEW k \in Conns, Registered(k) PROVE TypeOK'
  <2>1. shut' \subseteq Conns /\ removing' \subseteq Conns
    BY <1>7, <1>t DEF Registered, Remove, Rollback, TypeOK
  <2>2. remote' \in [Instances -> [Clients -> Conns \cup {Nobody}]]
    <3>1. \/ remote' = remote
          \/ remote' = [remote EXCEPT ![at[k]][ClientOf[k]] = Nobody]
      BY <1>7 DEF Registered, Remove
    <3>2. at[k] \in Instances /\ ClientOf[k] \in Clients
      BY <1>7, <1>d DEF Registered, Placed
    <3>3. CASE remote' = [remote EXCEPT ![at[k]][ClientOf[k]] = Nobody]
      BY <1>t, <3>2, <3>3, RemoteType
    <3> QED BY <1>t, <3>1, <3>3 DEF TypeOK
  <2>3. UNCHANGED <<redis, look, sending, peers>>
    BY <1>7 DEF Registered
  <2> QED BY <1>t, <1>d, <2>1, <2>2, <2>3 DEF redis, sending, peers, TypeOK, DirType
<1>8. ASSUME NEW k \in Conns, SocketCloses(k) \/ CleanUp(k) PROVE TypeOK'
  BY <1>8, <1>t, <1>d DEF SocketCloses, CleanUp, redis, sending, peers, TypeOK, DirType
<1>9. ASSUME NEW k \in Conns, Disconnect(k) PROVE TypeOK'
  <2>1. registered[at[k]][ClientOf[k]] \in Conns \cup {Nobody}
    BY <1>9, <1>t, <1>d DEF Disconnect, Placed, DirType
  <2>2. /\ removing' \subseteq Conns
        /\ remote' \in [Instances -> [Clients -> Conns \cup {Nobody}]]
    BY <1>9, <1>t, <2>1 DEF Disconnect, Remove, TypeOK
  <2> QED BY <1>9, <1>t, <1>d, <2>2 DEF Disconnect, redis, sending, peers, TypeOK, DirType
<1>10. ASSUME NEW k \in Conns, RemoveScript(k) PROVE TypeOK'
  BY <1>10, <1>t, <1>d DEF RemoveScript, sockets, sending, peers, TypeOK, DirType
<1>11. ASSUME NEW i \in Instances, NEW c \in Clients,
              LookUp(i, c) \/ LookedUp(i, c) \/ NotFound(i, c)
       PROVE  TypeOK'
  <2>1. /\ remote' \in [Instances -> [Clients -> Conns \cup {Nobody}]]
        /\ look' \in [Instances -> [Clients -> Conns \cup {Nobody, "absent"}]]
        /\ index' \subseteq Clients
    <3>1. CASE LookUp(i, c)
      BY <3>1, <1>t, <1>d DEF LookUp, TypeOK, redis, DirType
    <3>2. CASE LookedUp(i, c)
      <4>1. /\ \E l \in {Nobody, "absent"} : look' = [look EXCEPT ![i][c] = l]
            /\ \/ remote' = remote
               \/ \E k \in Conns : remote' = [remote EXCEPT ![i][c] = k]
            /\ index' = index
        BY <3>2 DEF LookedUp, redis
      <4>2. remote' \in [Instances -> [Clients -> Conns \cup {Nobody}]]
        BY <1>t, <4>1, RemoteType DEF TypeOK
      <4> QED BY <1>t, <4>1, <4>2, LookType DEF TypeOK
    <3>3. CASE NotFound(i, c)
      <4>1. /\ look' = [look EXCEPT ![i][c] = Nobody]
            /\ remote' = remote \/ remote' = [remote EXCEPT ![i][c] = Nobody]
            /\ index' \subseteq index
        BY <3>3 DEF NotFound, Prune
      <4>2. remote' \in [Instances -> [Clients -> Conns \cup {Nobody}]]
        BY <1>t, <4>1, RemoteType DEF TypeOK
      <4> QED BY <1>t, <4>1, <4>2, LookType DEF TypeOK
    <3> QED BY <1>11, <3>1, <3>2, <3>3
  <2> QED BY <1>11, <1>t, <1>d, <2>1
          DEF LookUp, LookedUp, NotFound, sockets, redis, sending, peers, TypeOK, DirType
<1>12. ASSUME NEW m \in Msgs, NEW i \in Instances, NEW c \in Clients, SendToClient(m, i, c)
       PROVE  TypeOK'
  <2>1. remote[i][c] \in Conns \cup {Nobody} /\ registered[i][c] \in Conns \cup {Nobody}
    BY <1>t, <1>d DEF TypeOK, DirType
  <2>2. PICK n : Direct(m, i, c, n)
    BY <1>12, <2>1, Directs
  <2>3. n \in Msg /\ msg' = [msg EXCEPT ![m] = n]
    BY <2>2 DEF Direct
  <2>4. msg' \in [Msgs -> Msg]
    BY <1>t, <2>3 DEF TypeOK
  <2>5. written' \in [Msgs -> [Conns -> Nat]]
    <3>1. CASE written' = written
      BY <1>t, <3>1 DEF TypeOK
    <3>2. CASE \E k \in Conns : Write(m, k)
      BY <1>t, <3>2, WriteType
    <3> QED BY <2>2, <3>1, <3>2 DEF Direct
  <2> QED BY <1>12, <1>t, <1>d, <2>4, <2>5 DEF SendToClient, redis, sockets, TypeOK, DirType
<1>13. ASSUME NEW m \in Msgs, NEW i \in Instances, NEW k \in Conns, SendToChannel(m, i, k)
       PROVE  TypeOK'
  <2>1. [NoMsg EXCEPT !.kind = "channel", !.from = i, !.client = ClientOf[k],
                      !.previous = k, !.stage = "local"] \in Msg
    BY NoMsgType DEF Msg, Kinds, Stages
  <2> QED BY <1>13, <1>t, <1>d, <2>1 DEF SendToChannel, redis, sockets, peers, TypeOK, DirType
<1>14. ASSUME NEW m \in Msgs, NEW i \in Instances, SendEvent(m, i) PROVE TypeOK'
  <2>1. [NoMsg EXCEPT !.from = i, !.stage = "sent"] \in Msg
    BY NoMsgType DEF Msg, Stages
  <2> QED BY <1>14, <1>t, <1>d, <2>1 DEF SendEvent, redis, sockets, peers, TypeOK, DirType
<1>15. ASSUME NEW m \in Msgs, SendReads(m) \/ SendChecked(m) \/ RequestTimeout(m) PROVE TypeOK'
  <2>1. ASSUME \E t \in {"sent", "done"} : msg' = [msg EXCEPT ![m].stage = t]
        PROVE  msg' \in [Msgs -> Msg]
    BY <1>t, <2>1, Restage DEF Stages
  <2>2. ASSUME SendReads(m) PROVE msg' \in [Msgs -> Msg]
    <3>1. msg[m].client \in Clients
      BY <2>2 DEF SendReads, Messages, Message, Sending
    <3>2. reg[msg[m].client] \in Conns \cup {Nobody}
      BY <1>d, <3>1 DEF DirType
    <3>3. ASSUME msg' = [msg EXCEPT ![m].stage = "checking", ![m].target = reg[msg[m].client]]
          PROVE  msg' \in [Msgs -> Msg]
      BY <1>t, <3>2, <3>3, Retarget DEF Stages
    <3> QED BY <2>1, <2>2, <3>3 DEF SendReads, Fail
  <2>3. msg' \in [Msgs -> Msg]
    BY <1>15, <2>1, <2>2 DEF SendChecked, RequestTimeout, Fail
  <2>4. wire' \subseteq Msgs
    BY <1>t, <1>15 DEF SendReads, SendChecked, RequestTimeout, TypeOK
  <2>5. UNCHANGED <<life, redis, sockets, registered, removing, remote, look, peers>>
    BY <1>15 DEF SendReads, SendChecked, RequestTimeout
  <2> QED BY <1>t, <1>d, <2>3, <2>4, <2>5 DEF redis, sockets, peers, TypeOK, DirType
<1>16. ASSUME NEW m \in Msgs, PublishToPeers(m) PROVE TypeOK'
  <2>1. registered[msg[m].from][msg[m].client] \in Conns \cup {Nobody}
    BY <1>16, <1>d DEF PublishToPeers, Messages, Message, Sending, DirType
  <2>2. ASSUME Fail(m) PROVE msg' \in [Msgs -> Msg]
    BY <1>t, <2>2, Restage DEF Fail, Stages
  <2>3. ASSUME msg' = [msg EXCEPT ![m].stage = "sent",
                                  ![m].target = registered[msg[m].from][msg[m].client]]
        PROVE  msg' \in [Msgs -> Msg]
    BY <1>t, <2>1, <2>3, Retarget DEF Stages
  <2>4. msg' \in [Msgs -> Msg]
    BY <1>16, <2>2, <2>3 DEF PublishToPeers
  <2> QED BY <1>16, <1>t, <1>d, <2>4
          DEF PublishToPeers, redis, sockets, peers, TypeOK, DirType
<1>17. ASSUME NEW j \in Instances, NEW m \in Msgs,
              \/ Receive(j, m) \/ OriginChecked(j, m)
              \/ DeliverDirect(j, m) \/ DeliverEvent(j, m)
              \/ PublisherRead(j, m) \/ DeliverChannel(j, m) \/ SendReceipt(j, m)
       PROVE  TypeOK'
  <2>1. seen' = seen \/ \E s \in Steps : Step(j, m, s)
    BY <1>17 DEF Receive, OriginChecked, DeliverDirect, DeliverEvent, PublisherRead,
                 DeliverChannel, SendReceipt, Step, Steps
  <2>2. seen' \in [Instances -> [Msgs -> Steps]]
    BY <1>t, <2>1, StepType DEF TypeOK
  <2>3. written' \in [Msgs -> [Conns -> Nat]]
    <3>1. CASE written' = written
      BY <1>t, <3>1 DEF TypeOK
    <3>2. CASE DeliverDirect(j, m) /\ Write(m, msg[m].target)
      <4>1. msg[m].target \in Conns
        BY <3>2 DEF DeliverDirect, Messages, Message, Sending, Receiving, Known
      <4> QED BY <1>t, <3>2, <4>1, WriteType
    <3> QED BY <1>17, <3>1, <3>2 DEF Receive, OriginChecked, DeliverDirect, DeliverEvent,
                    PublisherRead, DeliverChannel, SendReceipt
  <2>4. /\ sound' \subseteq Instances \X Msgs
        /\ receipts' \subseteq Msgs \X BOOLEAN
    <3>1. \/ UNCHANGED <<sound, receipts>>
          \/ sound' = sound \cup {<<j, m>>} /\ receipts' = receipts
          \/ sound' = sound /\ \E b \in BOOLEAN : receipts' = receipts \cup {<<m, b>>}
      BY <1>17 DEF Receive, OriginChecked, DeliverDirect, DeliverEvent, PublisherRead,
                   DeliverChannel, SendReceipt
    <3> QED BY <1>t, <3>1 DEF TypeOK
  <2> QED BY <1>17, <1>t, <1>d, <2>2, <2>3, <2>4
          DEF Receive, OriginChecked, DeliverDirect, DeliverEvent, PublisherRead,
              DeliverChannel, SendReceipt, redis, sockets, sending, TypeOK, DirType
<1>18. ASSUME NEW r \in Msgs \X BOOLEAN, ReceiveReceipt(r) PROVE TypeOK'
  <2>1. r[1] \in Msgs /\ r[2] \in BOOLEAN
    OBVIOUS
  <2>2. msg' = [msg EXCEPT ![r[1]].stage = "done", ![r[1]].result = r[2]]
    BY <1>18 DEF ReceiveReceipt
  <2>3. msg' \in [Msgs -> Msg]
    BY <1>t, <2>1, <2>2, Answered
  <2> QED BY <1>18, <1>t, <1>d, <2>3
          DEF ReceiveReceipt, redis, sockets, peers, TypeOK, DirType
<1>19. CASE UNCHANGED vars
  BY <1>19, <1>t DEF vars, redis, sockets, sending, peers, TypeOK
<1>20. CASE Next
  <2>1. ASSUME NEW i \in Instances, NEW c \in Clients,
               LookUp(i, c) \/ LookedUp(i, c) \/ NotFound(i, c)
        PROVE  TypeOK'
    BY <1>11, <2>1
  <2>2. ASSUME NEW m \in Msgs, NEW i \in Instances,
               \/ \E c \in Clients : SendToClient(m, i, c)
               \/ \E k \in Conns : SendToChannel(m, i, k)
               \/ SendEvent(m, i)
        PROVE  TypeOK'
    BY <1>12, <1>13, <1>14, <2>2
  <2>3. ASSUME NEW k \in Conns,
               \/ Register(k) \/ Registered(k) \/ SocketCloses(k)
               \/ CleanUp(k) \/ Disconnect(k) \/ RemoveScript(k)
        PROVE  TypeOK'
    BY <1>6, <1>7, <1>8, <1>9, <1>10, <2>3
  <2> QED BY <1>20, <1>1, <1>2, <1>3, <1>4, <1>5, <1>15, <1>16, <1>17, <1>18, <2>1, <2>2, <2>3
          DEF Next
<1> QED BY <1>19, <1>20

\* What every step keeps of the directory: a router that started has started,
\* a registered connection stays where it is, a registration is new only for
\* an open connection, and an ended ownership does not come back.  A connection
\* that left does not return, and one enters under an id nobody has there.
Moves ==
    /\ \A i \in Instances : life[i] # "new" => life'[i] # "new"
    /\ \A k \in Conns : conn[k] \notin {"new", "open"} =>
           conn'[k] \notin {"new", "open"} /\ at'[k] = at[k]
    /\ \A k \in Conns : Left(k) => Left(k)'
    /\ \A k, l \in Conns :
           k # l /\ ClientOf[k] = ClientOf[l] /\ (Entered(k) /\ Entered(l) /\ at[k] = at[l])'
               => Entered(k) /\ Entered(l) /\ at[k] = at[l]
    /\ \A c \in Clients, k \in Conns : reg'[c] = k =>
           reg[c] = k \/ (conn[k] = "open" /\ ClientOf[k] = c /\ conn'[k] = "added")
    /\ \A i \in Instances : owner'[NodeOf[i]] = i => owner[NodeOf[i]] = i \/ life[i] = "new"

LEMMA DirectoryMoves == TypeOK /\ [Next]_vars => Moves
<1>. SUFFICES ASSUME TypeOK, [Next]_vars PROVE Moves
  OBVIOUS
<1>. USE ClusterAssumption DEF Left, Entered
<1>1. ASSUME UNCHANGED <<life, owner, reg, conn, at>> PROVE Moves
  BY <1>1 DEF Moves
<1>2. ASSUME NEW i \in Instances, Acquire(i) PROVE Moves
  BY <1>2 DEF Acquire, sockets, Moves, TypeOK
<1>3. ASSUME NEW i \in Instances, Started(i) \/ Fence(i) \/ Shutdown(i) PROVE Moves
  BY <1>3 DEF Started, Fence, Shutdown, sockets, redis, Moves, TypeOK
<1>4. ASSUME NEW i \in Instances, Crash(i) PROVE Moves
  BY <1>4 DEF Crash, redis, Moves, TypeOK
<1>5. ASSUME NEW i \in Instances, Release(i) PROVE Moves
  BY <1>5 DEF Release, sockets, Moves, TypeOK
<1>6. ASSUME NEW n \in Nodes, OwnerExpires(n) PROVE Moves
  BY <1>6 DEF OwnerExpires, sockets, Moves, TypeOK
<1>7. ASSUME NEW c \in Clients, RegistrationExpires(c) PROVE Moves
  BY <1>7 DEF RegistrationExpires, sockets, Moves, TypeOK
<1>8. ASSUME NEW i \in Instances, NEW k \in Conns, Connect(i, k) PROVE Moves
  BY <1>8 DEF Connect, Entries, redis, Moves, TypeOK
<1>9. ASSUME NEW k \in Conns, Register(k) PROVE Moves
  BY <1>9 DEF Register, Add, Refuse, Moves, TypeOK
<1>10. ASSUME NEW k \in Conns, Registered(k) PROVE Moves
  BY <1>10 DEF Registered, Rollback, redis, Moves, TypeOK
<1>11. ASSUME NEW k \in Conns, SocketCloses(k) \/ CleanUp(k) \/ Disconnect(k) PROVE Moves
  BY <1>11 DEF SocketCloses, CleanUp, Disconnect, redis, Moves, TypeOK
<1>12. ASSUME NEW k \in Conns, RemoveScript(k) PROVE Moves
  BY <1>12 DEF RemoveScript, sockets, Moves, TypeOK
<1>13. ASSUME NEW i \in Instances, NEW c \in Clients,
              LookUp(i, c) \/ LookedUp(i, c) \/ NotFound(i, c)
       PROVE  Moves
  BY <1>1, <1>13 DEF LookUp, LookedUp, NotFound, redis, sockets
<1>14. ASSUME NEW m \in Msgs, NEW i \in Instances,
              \/ \E c \in Clients : SendToClient(m, i, c)
              \/ \E k \in Conns : SendToChannel(m, i, k)
              \/ SendEvent(m, i)
       PROVE  Moves
  BY <1>1, <1>14 DEF SendToClient, SendToChannel, SendEvent, redis, sockets
<1>15. ASSUME NEW m \in Msgs,
              SendReads(m) \/ SendChecked(m) \/ RequestTimeout(m) \/ PublishToPeers(m)
       PROVE  Moves
  BY <1>1, <1>15 DEF SendReads, SendChecked, RequestTimeout, PublishToPeers, redis, sockets
<1>16. ASSUME NEW j \in Instances, NEW m \in Msgs,
              \/ Receive(j, m) \/ OriginChecked(j, m)
              \/ DeliverDirect(j, m) \/ DeliverEvent(j, m)
              \/ PublisherRead(j, m) \/ DeliverChannel(j, m) \/ SendReceipt(j, m)
       PROVE  Moves
  BY <1>1, <1>16 DEF Receive, OriginChecked, DeliverDirect, DeliverEvent, PublisherRead,
                     DeliverChannel, SendReceipt, redis, sockets
<1>17. ASSUME NEW r \in Msgs \X BOOLEAN, ReceiveReceipt(r) PROVE Moves
  BY <1>1, <1>17 DEF ReceiveReceipt, redis, sockets
<1>18. ASSUME UNCHANGED vars PROVE Moves
  BY <1>1, <1>18 DEF vars, redis, sockets
<1>19. CASE Next
  <2>1. ASSUME NEW k \in Conns,
               \/ Register(k) \/ Registered(k) \/ SocketCloses(k)
               \/ CleanUp(k) \/ Disconnect(k) \/ RemoveScript(k)
        PROVE  Moves
    BY <1>9, <1>10, <1>11, <1>12, <2>1
  <2>2. ASSUME NEW i \in Instances,
               \/ Acquire(i) \/ Started(i) \/ Fence(i) \/ Crash(i)
               \/ Shutdown(i) \/ Release(i)
        PROVE  Moves
    BY <1>2, <1>3, <1>4, <1>5, <2>2
  <2> QED BY <1>19, <1>6, <1>7, <1>8, <1>13, <1>14, <1>15, <1>16, <1>17, <2>1, <2>2 DEF Next
<1> QED BY <1>18, <1>19

LEMMA RegKnownStep == RegKnown /\ Moves => RegKnown'
BY DEF RegKnown, Moves

LEMMA OneEntryStep == OneEntry /\ Moves => OneEntry'
BY DEF OneEntry, Moves

\* Nothing is sent, received or written of the message; it may be given up.
Rests(m) ==
    /\ \/ msg'[m] = msg[m]
       \/ msg[m].stage # "idle" /\ msg'[m] = [msg[m] EXCEPT !.stage = "done"]
    /\ m \in wire' <=> m \in wire
    /\ written'[m] = written[m]
    /\ \A j \in Instances : seen'[j][m] = seen[j][m] /\ (<<j, m>> \in sound' <=> <<j, m>> \in sound)
    /\ \A b \in BOOLEAN : <<m, b>> \in receipts' <=> <<m, b>> \in receipts

LEMMA MessageRests ==
  ASSUME Messages, Placed, Moves, NEW m \in Msgs, Rests(m)
  PROVE  Message(m)'
<1>. USE ClusterAssumption
<1>1. msg[m] \in Msg /\ Sending(m) /\ Receiving(m) /\ Sound(m)
  BY MsgShape DEF Messages, Message
<1>2. /\ msg'[m].kind = msg[m].kind /\ msg'[m].from = msg[m].from
      /\ msg'[m].previous = msg[m].previous /\ msg'[m].target = msg[m].target
      /\ msg'[m].client = msg[m].client /\ msg'[m].result = msg[m].result
      /\ msg'[m].stage = msg[m].stage \/ (msg'[m].stage = "done" /\ msg[m].stage # "idle")
  BY <1>1 DEF Rests, Msg
<1>3. Known(m) => Known(m)'
  BY <1>2 DEF Known, Moves
<1>4. (m \in wire /\ msg[m].kind = "direct" => Known(m)) /\ (msg[m].result => Known(m))
  BY <1>1 DEF Sending
<1>5. Wrote(m)' <=> Wrote(m)
  <2>1. CASE m \in wire /\ msg[m].kind = "direct"
    <3>1. at'[msg[m].target] = at[msg[m].target]
      BY <1>4, <2>1 DEF Known, Moves
    <3>2. seen'[at[msg[m].target]][m] = seen[at[msg[m].target]][m]
      <4>1. msg[m].target \in Conns /\ conn[msg[m].target] # "new"
        BY <1>4, <2>1 DEF Known
      <4> QED BY <4>1 DEF Placed, Rests
    <3> QED BY <1>2, <2>1, <3>1, <3>2 DEF Rests, Wrote
  <2> QED BY <1>2, <2>1 DEF Rests, Wrote
<1>6. Sending(m)'
  <2>1. SameAudience(m)' <=> SameAudience(m)
    BY <1>2 DEF SameAudience
  <2>2. msg'[m].stage = "idle" => msg'[m] = NoMsg
    BY <1>1, <1>2 DEF Sending, Rests
  <2>3. msg[m].from \in Instances /\ life[msg[m].from] # "new" => life'[msg[m].from] # "new"
    BY DEF Moves
  <2> QED BY <1>1, <1>2, <1>3, <1>5, <2>1, <2>2, <2>3 DEF Sending, Rests
<1>7. Receiving(m)'
  <2>1. ASSUME NEW j \in Instances, Addressed(j, m), m \in wire PROVE Addressed(j, m)'
    BY <1>2, <1>4, <2>1 DEF Addressed, Known, Moves
  <2>2. Wrote(m) => Known(m)
    BY <1>1 DEF Sending, Wrote
  <2>3. ASSUME NEW k \in Conns, Reached(m, k), Known(m) PROVE Reached(m, k)'
    BY <1>2, <2>3 DEF Reached, Rests, Known, Moves
  <2>4. Wrote(m)' => (\E k \in Conns : Reached(m, k))'
    BY <1>1, <1>5, <2>2, <2>3 DEF Receiving
  <2> QED BY <1>1, <1>2, <1>5, <2>1, <2>4 DEF Receiving, Rests
<1>8. Sound(m)'
  <2>1. m \in wire /\ Replaced(m) => Replaced(m)'
    <3>1. m \in wire /\ msg[m].kind = "channel" => Known(m) /\ msg[m].client \in Clients
      BY <1>1 DEF Sending
    <3> QED BY <1>2, <3>1 DEF Replaced, Known, Moves
  <2>2. m \in wire /\ ~ownerAlive(msg[m].from) => ~ownerAlive(msg[m].from)'
    BY <1>1, <1>2 DEF Sending, ownerAlive, Moves
  <2>3. \A j \in Instances : seen[j][m] # "new" => m \in wire
    BY <1>1 DEF Receiving
  <2> QED BY <1>1, <2>1, <2>2, <2>3 DEF Sound, Rests
<1> QED BY <1>6, <1>7, <1>8 DEF Message

LEMMA FreshMessage ==
  ASSUME Messages, NEW m \in Msgs, msg[m] = NoMsg
  PROVE  /\ m \notin wire
         /\ \A k \in Conns : written[m][k] = 0
         /\ \A j \in Instances : seen[j][m] = "new"
         /\ \A b \in BOOLEAN : <<m, b>> \notin receipts
<1>1. msg[m].stage = "idle" /\ msg[m].result = FALSE /\ msg[m].kind = "event"
  BY DEF NoMsg
<1>2. m \notin wire
  BY <1>1 DEF Messages, Message, Sending
<1> QED BY <1>1, <1>2 DEF Messages, Message, Receiving, Wrote

LEMMA SendToClientStep ==
  ASSUME Messages, Directory, NEW m \in Msgs, NEW i \in Instances, NEW c \in Clients,
         SendToClient(m, i, c)
  PROVE  Message(m)' /\ \A l \in Msgs \ {m} : Rests(l)
<1>. USE ClusterAssumption
<1>t. TypeOK
  BY DEF Messages
<1>0. /\ remote[i][c] \in Conns \cup {Nobody} /\ registered[i][c] \in Conns \cup {Nobody}
      /\ msg[m] = NoMsg /\ life[i] = "live"
      /\ UNCHANGED <<life, conn, at, reg, owner, wire, seen, receipts, sound>>
  BY <1>t DEF SendToClient, live, TypeOK, redis, sockets
<1>1. PICK n : Direct(m, i, c, n)
  BY <1>0, Directs
<1>2. /\ msg'[m] = n /\ n \in Msg /\ \A l \in Msgs \ {m} : msg'[l] = msg[l]
      /\ n.kind = "direct" /\ n.from = i /\ n.previous = remote[i][c] /\ n.client = c
  BY <1>t, <1>1 DEF Direct, TypeOK
<1>3. \A l \in Msgs \ {m} : written'[l] = written[l]
  BY <1>t, <1>1 DEF Direct, Write, TypeOK
<1>4. /\ m \notin wire /\ \A k \in Conns : written[m][k] = 0
      /\ \A j \in Instances : seen[j][m] = "new"
      /\ \A b \in BOOLEAN : <<m, b>> \notin receipts
  BY <1>0, FreshMessage
<1>8. \A l \in Msgs \ {m} : Rests(l)
  BY <1>0, <1>2, <1>3 DEF Rests
<1>9. Sound(m)'
  <2>1. \A j \in Instances : seen'[j][m] = "new"
    BY <1>0, <1>4
  <2> QED BY <2>1 DEF Sound
<1>5. CASE /\ n.stage = "done" /\ n.target = registered[i][c] /\ n.result = TRUE
           /\ registered[i][c] # Nobody /\ remote[i][c] \in {Nobody, registered[i][c]}
           /\ \E k \in Conns : ClientOf[k] = c /\ IsCurrent(i, k) /\ Write(m, k)
  <2>0. PICK k \in Conns : ClientOf[k] = c /\ IsCurrent(i, k) /\ Write(m, k)
    BY <1>5
  <2>1. /\ registered[i][c] \in Conns /\ ClientOf[registered[i][c]] = c
        /\ conn[registered[i][c]] \notin {"new", "open"}
    BY <1>0, <1>5 DEF Directory, Held
  <2>2. \A l \in Conns : written'[m][l] = IF l = k THEN 1 ELSE 0
    BY <1>t, <1>4, <2>0 DEF Write, TypeOK
  <2>6. k = registered[i][c] \/ Left(registered[i][c])
    <3>1. at[registered[i][c]] = i /\ (Entered(registered[i][c]) \/ Left(registered[i][c]))
      BY <1>0, <1>5 DEF Directory, Held, Entered, Left
    <3>2. Entered(k) /\ at[k] = i
      BY <2>0 DEF IsCurrent, Entries, Entered
    <3> QED BY <2>0, <2>1, <3>1, <3>2 DEF Messages, OneEntry
  <2>7. Reached(m, k)'
    BY <1>0, <1>2, <1>4, <1>5, <2>0, <2>2, <2>6 DEF Reached, Left
  <2>3. Known(m)' /\ SameAudience(m)' /\ Wrote(m)'
    BY <1>0, <1>2, <1>4, <1>5, <2>1 DEF Known, SameAudience, Wrote
  <2>4. Sending(m)'
    BY <1>0, <1>2, <1>4, <1>5, <2>3 DEF Sending
  <2>5. Receiving(m)'
    BY <1>0, <1>2, <1>4, <1>5, <2>3, <2>7 DEF Receiving
  <2> QED BY <1>8, <1>9, <2>4, <2>5 DEF Message
<1>6. CASE /\ n.stage \in {"done", "reading"} /\ n.target = Nobody /\ n.result = FALSE
           /\ written' = written
  <2>1. ~Wrote(m)'
    BY <1>0, <1>2, <1>4, <1>6 DEF Wrote
  <2>2. Sending(m)'
    BY <1>0, <1>2, <1>4, <1>6 DEF Sending
  <2>3. Receiving(m)'
    BY <1>0, <1>2, <1>4, <1>6, <2>1 DEF Receiving
  <2> QED BY <1>8, <1>9, <2>2, <2>3 DEF Message
<1> QED BY <1>1, <1>5, <1>6 DEF Direct

\* A message that starts without being written.
LEMMA SendToAllStep ==
  ASSUME Messages, Directory, NEW m \in Msgs, NEW i \in Instances,
         SendEvent(m, i) \/ \E k \in Conns : SendToChannel(m, i, k)
  PROVE  Message(m)' /\ \A l \in Msgs \ {m} : Rests(l)
<1>. USE ClusterAssumption
<1>t. TypeOK
  BY DEF Messages
<1>0. /\ msg[m] = NoMsg /\ life[i] = "live" /\ wire' \in {wire, wire \cup {m}}
      /\ UNCHANGED <<life, conn, at, reg, owner, seen, receipts, sound, written>>
  BY DEF SendEvent, SendToChannel, live, redis, sockets, peers
<1>4. /\ m \notin wire /\ \A k \in Conns : written[m][k] = 0
      /\ \A j \in Instances : seen[j][m] = "new"
      /\ \A b \in BOOLEAN : <<m, b>> \notin receipts
  BY <1>0, FreshMessage
<1>5. ASSUME SendEvent(m, i)
      PROVE  Message(m)' /\ \A l \in Msgs \ {m} : msg'[l] = msg[l]
  <2>1. /\ msg'[m].stage = "sent" /\ msg'[m].kind = "event" /\ msg'[m].from = i
        /\ msg'[m].result = FALSE
        /\ \A l \in Msgs \ {m} : msg'[l] = msg[l]
    BY <1>t, <1>5 DEF SendEvent, NoMsg, TypeOK
  <2>2. Sending(m)'
    BY <1>0, <2>1 DEF Sending
  <2>3. Receiving(m)'
    BY <1>0, <1>4, <2>1 DEF Receiving, Wrote
  <2> QED BY <1>0, <1>4, <2>1, <2>2, <2>3 DEF Message, Sound
<1>6. ASSUME NEW k \in Conns, SendToChannel(m, i, k)
      PROVE  Message(m)' /\ \A l \in Msgs \ {m} : msg'[l] = msg[l]
  <2>1. /\ msg'[m].stage = "local" /\ msg'[m].kind = "channel" /\ msg'[m].from = i
        /\ msg'[m].client = ClientOf[k] /\ msg'[m].result = FALSE /\ wire' = wire
        /\ \A l \in Msgs \ {m} : msg'[l] = msg[l]
    BY <1>t, <1>6 DEF SendToChannel, NoMsg, TypeOK
  <2>2. Sending(m)'
    BY <1>0, <1>4, <2>1 DEF Sending
  <2>3. Receiving(m)'
    BY <1>0, <1>4, <2>1 DEF Receiving, Wrote
  <2> QED BY <1>0, <1>4, <2>1, <2>2, <2>3 DEF Message, Sound
<1> QED BY <1>0, <1>5, <1>6 DEF Rests

\* A message moves on at its sender, to the wire if it is for its peers.
LEMMA SenderStep ==
  ASSUME Messages, Directory, NEW m \in Msgs,
         SendReads(m) \/ SendChecked(m) \/ RequestTimeout(m) \/ PublishToPeers(m)
  PROVE  \/ \A l \in Msgs : Rests(l)
         \/ Message(m)' /\ \A l \in Msgs \ {m} : Rests(l)
<1>. USE ClusterAssumption
<1>t. TypeOK /\ msg[m] \in Msg /\ Sending(m) /\ Receiving(m) /\ Sound(m)
  BY MsgShape DEF Messages, Message
<1>0. UNCHANGED <<life, conn, at, reg, owner, seen, receipts, sound, written>>
  BY DEF SendReads, SendChecked, RequestTimeout, PublishToPeers, redis, sockets, peers
<1>1. CASE Fail(m) /\ wire' = wire /\ msg[m].stage # "idle"
  <2>1. Becomes(m, [msg[m] EXCEPT !.stage = "done"])
    BY <1>t, <1>1, Restage DEF Fail, Stages
  <2> QED BY <1>0, <1>1, <2>1 DEF Becomes, Rests
<1>2. ASSUME msg[m].stage = "reading", reg[msg[m].client] # Nobody, wire' = wire,
             msg' = [msg EXCEPT ![m].stage = "checking", ![m].target = reg[msg[m].client]]
      PROVE  Message(m)' /\ \A l \in Msgs \ {m} : Rests(l)
  <2>1. msg[m].client \in Clients /\ msg[m].kind = "direct" /\ m \notin wire /\ ~msg[m].result
    BY <1>t, <1>2 DEF Sending
  <2>2. /\ reg[msg[m].client] \in Conns
        /\ ClientOf[reg[msg[m].client]] = msg[m].client
        /\ conn[reg[msg[m].client]] \notin {"new", "open"}
    BY <1>t, <1>2, <2>1 DEF TypeOK, Messages, RegKnown
  <2>3. Becomes(m, [[msg[m] EXCEPT !.stage = "checking"] EXCEPT !.target = reg[msg[m].client]])
    BY <1>t, <1>2, <2>2, Retarget DEF Stages
  <2>4. /\ msg'[m].stage = "checking" /\ msg'[m].target = reg[msg[m].client]
        /\ msg'[m].kind = "direct" /\ msg'[m].from = msg[m].from
        /\ msg'[m].client = msg[m].client /\ ~msg'[m].result
    BY <1>t, <2>1, <2>3 DEF Becomes, Msg
  <2>5. \A j \in Instances : seen[j][m] = "new"
    BY <1>t, <2>1 DEF Receiving
  <2>6. Sending(m)'
    BY <1>t, <1>0, <1>2, <2>1, <2>2, <2>4 DEF Sending, Known
  <2>7. Receiving(m)'
    BY <1>t, <1>0, <1>2, <2>1, <2>4, <2>5 DEF Receiving, Wrote
  <2> QED BY <1>0, <1>2, <2>3, <2>5, <2>6, <2>7 DEF Message, Sound, Becomes, Rests
<1>3. ASSUME msg[m].stage = "checking", SameAudience(m), wire' = wire \cup {m},
             msg' = [msg EXCEPT ![m].stage = "sent"]
      PROVE  Message(m)' /\ \A l \in Msgs \ {m} : Rests(l)
  <2>1. /\ msg[m].client \in Clients /\ msg[m].kind = "direct" /\ m \notin wire
        /\ ~msg[m].result /\ Known(m)
    BY <1>t, <1>3 DEF Sending
  <2>3. Becomes(m, [msg[m] EXCEPT !.stage = "sent"])
    BY <1>t, <1>3, Restage DEF Stages
  <2>4. /\ msg'[m].stage = "sent" /\ msg'[m].target = msg[m].target
        /\ msg'[m].kind = "direct" /\ msg'[m].from = msg[m].from
        /\ msg'[m].client = msg[m].client /\ ~msg'[m].result
        /\ msg'[m].previous = msg[m].previous
    BY <1>t, <2>1, <2>3 DEF Becomes, Msg
  <2>5. \A j \in Instances : seen[j][m] = "new"
    BY <1>t, <2>1 DEF Receiving
  <2>6. Sending(m)'
    BY <1>t, <1>0, <1>3, <2>1, <2>4 DEF Sending, Known, SameAudience
  <2>7. ~Wrote(m) /\ ~Wrote(m)'
    <3>1. at[msg[m].target] \in Instances
      BY <2>1 DEF Known, Directory, Placed
    <3> QED BY <1>0, <1>3, <2>1, <2>4, <2>5, <3>1 DEF Wrote
  <2>8. Receiving(m)'
    BY <1>t, <1>0, <1>3, <2>1, <2>4, <2>5, <2>7 DEF Receiving
  <2> QED BY <1>0, <1>3, <2>3, <2>5, <2>6, <2>8 DEF Message, Sound, Becomes, Rests
<1>4. ASSUME msg[m].stage = "local", registered[msg[m].from][msg[m].client] # Nobody,
             wire' = wire \cup {m},
             msg' = [msg EXCEPT ![m].stage = "sent",
                                ![m].target = registered[msg[m].from][msg[m].client]]
      PROVE  Message(m)' /\ \A l \in Msgs \ {m} : Rests(l)
  <2>. DEFINE k == registered[msg[m].from][msg[m].client]
  <2>1. /\ msg[m].client \in Clients /\ msg[m].kind = "channel" /\ m \notin wire
        /\ ~msg[m].result /\ msg[m].from \in Instances
    BY <1>t, <1>4 DEF Sending
  <2>2. k \in Conns /\ ClientOf[k] = msg[m].client /\ conn[k] \notin {"new", "open"}
    <3>1. k \in Conns
      BY <1>4, <2>1 DEF Directory, DirType
    <3>2. Held
      BY DEF Directory
    <3> QED BY <2>1, <3>1, <3>2 DEF Held
  <2>a. k # Nobody /\ msg' = [msg EXCEPT ![m].stage = "sent", ![m].target = k]
    BY <1>4
  <2>. HIDE DEF k
  <2>3. Becomes(m, [[msg[m] EXCEPT !.stage = "sent"] EXCEPT !.target = k])
    BY <1>t, <2>a, <2>2, Retarget DEF Stages
  <2>4. /\ msg'[m].stage = "sent" /\ msg'[m].target = k
        /\ msg'[m].kind = "channel" /\ msg'[m].from = msg[m].from
        /\ msg'[m].client = msg[m].client /\ ~msg'[m].result
    BY <1>t, <2>1, <2>3 DEF Becomes, Msg
  <2>5. \A j \in Instances : seen[j][m] = "new"
    BY <1>t, <2>1 DEF Receiving
  <2>6. Sending(m)'
    BY <1>t, <1>0, <1>4, <2>1, <2>2, <2>4 DEF Sending, Known
  <2>7. ~Wrote(m) /\ ~Wrote(m)'
    BY <1>0, <1>4, <2>1, <2>4 DEF Wrote
  <2>8. Receiving(m)'
    BY <1>t, <1>0, <1>4, <2>1, <2>4, <2>5, <2>7 DEF Receiving
  <2> QED BY <1>0, <1>4, <2>3, <2>5, <2>6, <2>8 DEF Message, Sound, Becomes, Rests
<1>5. CASE SendReads(m)
  BY <1>1, <1>2, <1>5 DEF SendReads
<1>6. CASE SendChecked(m)
  BY <1>1, <1>3, <1>6 DEF SendChecked
<1>7. CASE RequestTimeout(m)
  BY <1>1, <1>7 DEF RequestTimeout, Pending
<1>8. CASE PublishToPeers(m)
  BY <1>1, <1>4, <1>8 DEF PublishToPeers
<1> QED BY <1>5, <1>6, <1>7, <1>8

\* What the receivers do leaves the sender's side true.
LEMMA SendingKept ==
  ASSUME NEW m \in Msgs, Sending(m), Wrote(m) => Wrote(m)', wire' = wire,
         UNCHANGED <<msg, life, conn>>
  PROVE  Sending(m)'
BY DEF Sending, Known, SameAudience

\* Where a message was written does not change unless it is written.
LEMMA ReachedKept ==
  ASSUME NEW m \in Msgs, NEW k \in Conns, Reached(m, k), written' = written,
         wire' = wire, conn' = conn,
         msg'[m].client = msg[m].client, msg'[m].target = msg[m].target
  PROVE  Reached(m, k)'
BY DEF Reached, Left

LEMMA SeenMoves ==
  ASSUME TypeOK, NEW j \in Instances, NEW m \in Msgs, NEW s, Step(j, m, s)
  PROVE  /\ seen'[j][m] = s
         /\ \A i \in Instances : i # j => seen'[i][m] = seen[i][m]
         /\ \A i \in Instances, l \in Msgs : l # m => seen'[i][l] = seen[i][l]
BY DEF TypeOK, Step

\* A receiver goes on with a frame, without writing it.
LEMMA JudgeStep ==
  ASSUME Messages, NEW j \in Instances, NEW m \in Msgs, NEW s, Step(j, m, s),
         UNCHANGED <<msg, wire, life, conn, at, reg, owner, written, sound, receipts>>,
         seen[j][m] \notin {"new", "yes"}, s # "new",
         msg[m].kind = "direct" => s # "yes", s = "published" => msg[m].kind = "channel",
         <<j, m>> \notin sound => s \notin {"published", "yes"} /\ (s = "alive" => Replaced(m))
  PROVE  Message(m)' /\ \A l \in Msgs \ {m} : Rests(l)
<1>1. TypeOK /\ Sending(m) /\ Receiving(m) /\ Sound(m)
  BY DEF Messages, Message
<1>2. /\ seen'[j][m] = s
      /\ \A i \in Instances : i # j => seen'[i][m] = seen[i][m]
      /\ \A i \in Instances, l \in Msgs : l # m => seen'[i][l] = seen[i][l]
  BY <1>1, SeenMoves
<1>3. Wrote(m)' <=> Wrote(m)
  <2>1. CASE m \in wire /\ msg[m].kind = "direct"
    <3>1. at[msg[m].target] = j
      BY <1>1, <2>1 DEF Receiving, Addressed
    <3> QED BY <1>2, <2>1, <3>1 DEF Wrote
  <2> QED BY <2>1 DEF Wrote
<1>4. Sending(m)'
  BY <1>1, <1>3, SendingKept
<1>5. Receiving(m)'
  <2>1. \A k \in Conns : Reached(m, k) => Reached(m, k)'
    BY ReachedKept
  <2> QED BY <1>1, <1>2, <1>3, <2>1 DEF Receiving, Addressed
<1>6. Sound(m)'
  <2>1. (ownerAlive(msg[m].from)' <=> ownerAlive(msg[m].from)) /\ (Replaced(m)' <=> Replaced(m))
    BY DEF ownerAlive, Replaced
  <2> QED BY <1>1, <1>2, <2>1 DEF Sound
<1>7. \A l \in Msgs \ {m} : Rests(l)
  BY <1>2 DEF Rests
<1> QED BY <1>4, <1>5, <1>6, <1>7 DEF Message

\* A frame comes in, too late or not.
LEMMA ReceiveStep ==
  ASSUME Messages, NEW j \in Instances, NEW m \in Msgs, Receive(j, m)
  PROVE  Message(m)' /\ \A l \in Msgs \ {m} : Rests(l)
<1>0. /\ UNCHANGED <<msg, wire, life, conn, at, reg, owner, written, receipts>>
      /\ m \in wire /\ Addressed(j, m) /\ seen[j][m] = "new" /\ Step(j, m, "received")
  BY DEF Receive, Step, redis, sockets, sending
<1>1. TypeOK /\ Sending(m) /\ Receiving(m) /\ Sound(m)
  BY DEF Messages, Message
<1>2. /\ seen'[j][m] = "received"
      /\ \A i \in Instances : i # j => seen'[i][m] = seen[i][m]
      /\ \A i \in Instances, l \in Msgs : l # m => seen'[i][l] = seen[i][l]
  BY <1>0, <1>1, SeenMoves
<1>3. Wrote(m)' <=> Wrote(m)
  <2>1. CASE msg[m].kind = "direct"
    <3>1. at[msg[m].target] = j
      BY <1>0, <2>1 DEF Addressed
    <3> QED BY <1>0, <1>2, <2>1, <3>1 DEF Wrote
  <2> QED BY <1>0, <2>1 DEF Wrote
<1>4. Sending(m)'
  BY <1>0, <1>1, <1>3, SendingKept
<1>5. Receiving(m)'
  <2>1. \A k \in Conns : Reached(m, k) => Reached(m, k)'
    BY <1>0, ReachedKept
  <2> QED BY <1>0, <1>1, <1>2, <1>3, <2>1 DEF Receiving, Addressed
<1>6. \/ sound' = sound \cup {<<j, m>>}
      \/ sound' = sound /\ (~ownerAlive(msg[m].from) \/ Replaced(m))
  BY DEF Receive, Replaced
<1>7. Sound(m)'
  <2>1. (ownerAlive(msg[m].from)' <=> ownerAlive(msg[m].from)) /\ (Replaced(m)' <=> Replaced(m))
    BY <1>0 DEF ownerAlive, Replaced
  <2> QED BY <1>1, <1>2, <1>6, <2>1 DEF Sound
<1>8. \A l \in Msgs \ {m} : Rests(l)
  BY <1>0, <1>2, <1>6 DEF Rests
<1> QED BY <1>4, <1>5, <1>7, <1>8 DEF Message

\* A direct frame is written: once, since it stays seen.
LEMMA WrittenStep ==
  ASSUME Messages, NEW j \in Instances, NEW m \in Msgs, DeliverDirect(j, m),
         Step(j, m, "yes"), Write(m, msg[m].target)
  PROVE  Message(m)' /\ \A l \in Msgs \ {m} : Rests(l)
<1>0. /\ UNCHANGED <<msg, wire, life, conn, at, reg, owner, sound, receipts>>
      /\ seen[j][m] = "alive" /\ msg[m].kind = "direct"
  BY DEF DeliverDirect, redis, sockets, sending
<1>1. TypeOK /\ Sending(m) /\ Receiving(m) /\ Sound(m)
  BY DEF Messages, Message
<1>2. /\ seen'[j][m] = "yes"
      /\ \A i \in Instances : i # j => seen'[i][m] = seen[i][m]
      /\ \A i \in Instances, l \in Msgs : l # m => seen'[i][l] = seen[i][l]
  BY <1>1, SeenMoves
<1>3. m \in wire /\ at[msg[m].target] = j /\ msg[m].target \in Conns
  BY <1>0, <1>1 DEF Receiving, Addressed, Sending, Known
<1>4. ~Wrote(m) /\ Wrote(m)'
  BY <1>0, <1>2, <1>3 DEF Wrote
<1>5. /\ \A k \in Conns : written'[m][k] = IF k = msg[m].target THEN 1 ELSE 0
      /\ \A l \in Msgs \ {m} : written'[l] = written[l]
  <2>1. \A k \in Conns : written[m][k] = 0
    BY <1>1, <1>4 DEF Receiving
  <2> QED BY <1>1, <1>3, <2>1 DEF Write, TypeOK
<1>6. Sending(m)'
  BY <1>0, <1>1, <1>4, SendingKept
<1>7. Receiving(m)'
  <2>1. Reached(m, msg[m].target)'
    BY <1>0, <1>1, <1>3, <1>5 DEF Reached, Sending, Known
  <2> QED BY <1>0, <1>1, <1>2, <1>3, <1>4, <2>1 DEF Receiving, Addressed
<1>8. Sound(m)'
  <2>1. ~Replaced(m) /\ <<j, m>> \in sound
    BY <1>0, <1>1 DEF Sound, Replaced
  <2>2. (ownerAlive(msg[m].from)' <=> ownerAlive(msg[m].from)) /\ (Replaced(m)' <=> Replaced(m))
    BY <1>0 DEF ownerAlive, Replaced
  <2> QED BY <1>0, <1>1, <1>2, <2>1, <2>2 DEF Sound
<1>9. \A l \in Msgs \ {m} : Rests(l)
  BY <1>0, <1>2, <1>5 DEF Rests
<1> QED BY <1>6, <1>7, <1>8, <1>9 DEF Message

LEMMA ReceiverStep ==
  ASSUME Messages, NEW j \in Instances, NEW m \in Msgs,
         \/ OriginChecked(j, m) \/ DeliverDirect(j, m) \/ DeliverEvent(j, m)
         \/ PublisherRead(j, m) \/ DeliverChannel(j, m)
  PROVE  Message(m)' /\ \A l \in Msgs \ {m} : Rests(l)
<1>0. /\ UNCHANGED <<msg, wire, life, conn, at, reg, owner, sound, receipts>>
      /\ seen[j][m] \notin {"new", "yes"}
  BY DEF OriginChecked, DeliverDirect, DeliverEvent, PublisherRead, DeliverChannel,
         redis, sockets, sending
<1>1. Sound(m)
  BY DEF Messages, Message
<1>2. seen[j][m] = "alive" /\ ~Replaced(m) => <<j, m>> \in sound
  BY <1>1 DEF Sound
<1>3. CASE OriginChecked(j, m)
  <2>1. PICK s \in {"alive", "no"} : Step(j, m, s) /\ (s = "alive" => ownerAlive(msg[m].from))
    BY <1>3 DEF OriginChecked
  <2>2. <<j, m>> \notin sound /\ s = "alive" => Replaced(m)
    BY <1>0, <1>1, <2>1 DEF Sound
  <2>3. written' = written
    BY <1>3 DEF OriginChecked
  <2> QED BY <1>0, <2>1, <2>2, <2>3, JudgeStep
<1>4. CASE DeliverDirect(j, m)
  <2>1. CASE Step(j, m, "no") /\ written' = written
    BY <1>0, <2>1, JudgeStep
  <2> QED BY <1>4, <2>1, WrittenStep DEF DeliverDirect
<1>5. CASE DeliverEvent(j, m)
  <2>1. /\ seen[j][m] = "alive" /\ msg[m].kind = "event" /\ written' = written
        /\ Step(j, m, "yes") \/ Step(j, m, "no")
    BY <1>5 DEF DeliverEvent
  <2>2. <<j, m>> \in sound
    BY <1>2, <2>1 DEF Replaced
  <2> QED BY <1>0, <2>1, <2>2, JudgeStep
<1>6. CASE PublisherRead(j, m)
  <2>1. /\ seen[j][m] = "alive" /\ msg[m].kind = "channel" /\ written' = written
        /\ (Step(j, m, "published") /\ SamePublisher(m)) \/ Step(j, m, "no")
    BY <1>6 DEF PublisherRead
  <2>2. SamePublisher(m) => <<j, m>> \in sound
    BY <1>2, <2>1 DEF Replaced, SamePublisher
  <2>3. CASE Step(j, m, "published") /\ SamePublisher(m)
    BY <1>0, <2>1, <2>2, <2>3, JudgeStep
  <2>4. CASE Step(j, m, "no")
    BY <1>0, <2>1, <2>4, JudgeStep
  <2> QED BY <2>1, <2>3, <2>4
<1>7. CASE DeliverChannel(j, m)
  <2>1. /\ seen[j][m] = "published" /\ written' = written
        /\ Step(j, m, "yes") \/ Step(j, m, "no")
    BY <1>7 DEF DeliverChannel
  <2>2. <<j, m>> \in sound
    BY <1>1, <2>1 DEF Sound
  <2>3. msg[m].kind = "channel"
    BY <2>1 DEF Messages, Message, Receiving
  <2> QED BY <1>0, <2>1, <2>2, <2>3, JudgeStep
<1> QED BY <1>3, <1>4, <1>5, <1>6, <1>7

\* A receipt tells the sender what the frame's receiver did.
LEMMA SendReceiptStep ==
  ASSUME Messages, NEW j \in Instances, NEW m \in Msgs, SendReceipt(j, m)
  PROVE  Message(m)' /\ \A l \in Msgs \ {m} : Rests(l)
<1>0. /\ UNCHANGED <<msg, wire, life, conn, at, reg, owner, sound, written, seen>>
      /\ receipts' = receipts \cup {<<m, seen[j][m] = "yes">>}
      /\ msg[m].kind = "direct" /\ seen[j][m] # "new"
  BY DEF SendReceipt, redis, sockets, sending
<1>1. Sending(m) /\ Receiving(m) /\ Sound(m)
  BY DEF Messages, Message
<1>2. m \in wire /\ at[msg[m].target] = j
  BY <1>0, <1>1 DEF Receiving, Addressed
<1>3. (seen[j][m] = "yes") = Wrote(m)
  BY <1>0, <1>2 DEF Wrote
<1>4. Wrote(m)' <=> Wrote(m)
  BY <1>0 DEF Wrote
<1>5. Sending(m)'
  BY <1>0, <1>1, <1>4, SendingKept
<1>6. Receiving(m)'
  <2>1. \A k \in Conns : Reached(m, k) => Reached(m, k)'
    BY <1>0, ReachedKept
  <2> QED BY <1>0, <1>1, <1>2, <1>3, <1>4, <2>1 DEF Receiving, Addressed
<1>7. Sound(m)'
  BY <1>0, <1>1 DEF Sound, ownerAlive, Replaced
<1>8. \A l \in Msgs \ {m} : Rests(l)
  BY <1>0 DEF Rests
<1> QED BY <1>5, <1>6, <1>7, <1>8 DEF Message

LEMMA ReceiveReceiptStep ==
  ASSUME Messages, NEW r \in Msgs \X BOOLEAN, ReceiveReceipt(r)
  PROVE  Message(r[1])' /\ \A l \in Msgs \ {r[1]} : Rests(l)
<1>. DEFINE m == r[1]
<1>0. /\ UNCHANGED <<wire, life, conn, at, reg, owner, sound, written, seen, receipts>>
      /\ m \in Msgs /\ r[2] \in BOOLEAN /\ <<m, r[2]>> \in receipts
      /\ msg' = [msg EXCEPT ![m].stage = "done", ![m].result = r[2]]
      /\ msg[m].stage = "sent"
  BY DEF ReceiveReceipt, redis, sockets, peers, Pending
<1>. HIDE DEF m
<1>1. TypeOK /\ msg[m] \in Msg /\ Sending(m) /\ Receiving(m) /\ Sound(m)
  BY <1>0, MsgShape DEF Messages, Message
<1>2. Becomes(m, [[msg[m] EXCEPT !.stage = "done"] EXCEPT !.result = r[2]])
  BY <1>0, <1>1, Answered
<1>3. /\ msg'[m].stage = "done" /\ msg'[m].target = msg[m].target
      /\ msg'[m].kind = msg[m].kind /\ msg'[m].from = msg[m].from
      /\ msg'[m].client = msg[m].client /\ msg'[m].result = r[2]
      /\ msg'[m].previous = msg[m].previous
  BY <1>1, <1>2 DEF Becomes, Msg
<1>4. m \in wire /\ msg[m].kind = "direct" /\ (r[2] => Wrote(m))
  BY <1>0, <1>1 DEF Receiving
<1>5. Wrote(m)' <=> Wrote(m)
  BY <1>0, <1>3, <1>4 DEF Wrote
<1>6. Sending(m)'
  <2>1. Known(m)' /\ SameAudience(m)'
    BY <1>0, <1>1, <1>3, <1>4 DEF Sending, Known, SameAudience
  <2> QED BY <1>0, <1>1, <1>3, <1>4, <1>5, <2>1 DEF Sending
<1>7. Receiving(m)'
  <2>1. \A k \in Conns : Reached(m, k) => Reached(m, k)'
    BY <1>0, <1>3, ReachedKept
  <2> QED BY <1>0, <1>1, <1>3, <1>5, <2>1 DEF Receiving, Addressed
<1>8. Sound(m)'
  BY <1>0, <1>1, <1>3 DEF Sound, ownerAlive, Replaced
<1>9. \A l \in Msgs \ {m} : Rests(l)
  BY <1>0, <1>2 DEF Becomes, Rests
<1> QED BY <1>6, <1>7, <1>8, <1>9 DEF Message, m

\* What a step does, it does to one message at most.
OneMoves == \E m \in Msgs : Message(m)' /\ \A l \in Msgs \ {m} : Rests(l)

LEMMA EndStep ==
  ASSUME Messages, NEW i \in Instances, Fence(i) \/ Crash(i) \/ Shutdown(i)
  PROVE  \A m \in Msgs : Rests(m)
<1>. SUFFICES ASSUME NEW m \in Msgs PROVE Rests(m)
  OBVIOUS
<1>1. UNCHANGED <<wire, seen, receipts, sound, written>>
  BY DEF Fence, Crash, Shutdown, peers
<1>2. \/ msg'[m] = msg[m]
      \/ msg[m].from = i /\ msg'[m] = [msg[m] EXCEPT !.stage = "done"]
  BY DEF Fence, Crash, Shutdown, Abandon
<1>3. msg[m].from = i => msg[m].stage # "idle"
  <2>1. Sending(m)
    BY DEF Messages, Message
  <2>2. NoMsg.from = Nobody /\ i # Nobody
    BY ClusterAssumption DEF NoMsg
  <2> QED BY <2>1, <2>2 DEF Sending
<1> QED BY <1>1, <1>2, <1>3 DEF Rests

LEMMA OneMessageStep ==
  ASSUME Messages, Directory, [Next]_vars
  PROVE  OneMoves \/ \A m \in Msgs : Rests(m)
<1>1. ASSUME UNCHANGED <<sending, peers>> PROVE \A m \in Msgs : Rests(m)
  BY <1>1 DEF sending, peers, Rests
<1>2. ASSUME NEW i \in Instances,
             \/ Acquire(i) \/ Started(i) \/ Fence(i) \/ Crash(i)
             \/ Shutdown(i) \/ Release(i)
      PROVE  \A m \in Msgs : Rests(m)
  <2>1. CASE Acquire(i) \/ Started(i) \/ Release(i)
    BY <1>1, <2>1 DEF Acquire, Started, Release
  <2> QED BY <1>2, <2>1, EndStep
<1>3. ASSUME NEW n \in Nodes, OwnerExpires(n) PROVE \A m \in Msgs : Rests(m)
  BY <1>1, <1>3 DEF OwnerExpires
<1>4. ASSUME NEW c \in Clients, RegistrationExpires(c) PROVE \A m \in Msgs : Rests(m)
  BY <1>1, <1>4 DEF RegistrationExpires
<1>5. ASSUME NEW i \in Instances, NEW k \in Conns, Connect(i, k)
      PROVE  \A m \in Msgs : Rests(m)
  BY <1>1, <1>5 DEF Connect
<1>6. ASSUME NEW k \in Conns,
             \/ Register(k) \/ Registered(k) \/ SocketCloses(k)
             \/ CleanUp(k) \/ Disconnect(k) \/ RemoveScript(k)
      PROVE  \A m \in Msgs : Rests(m)
  BY <1>1, <1>6 DEF Register, Registered, SocketCloses, CleanUp, Disconnect, RemoveScript
<1>7. ASSUME NEW i \in Instances, NEW c \in Clients,
             LookUp(i, c) \/ LookedUp(i, c) \/ NotFound(i, c)
      PROVE  \A m \in Msgs : Rests(m)
  BY <1>1, <1>7 DEF LookUp, LookedUp, NotFound
<1>8. ASSUME NEW m \in Msgs, NEW i \in Instances,
             \/ \E c \in Clients : SendToClient(m, i, c)
             \/ \E k \in Conns : SendToChannel(m, i, k)
             \/ SendEvent(m, i)
      PROVE  OneMoves
  BY <1>8, SendToClientStep, SendToAllStep DEF OneMoves
<1>9. ASSUME NEW m \in Msgs,
             SendReads(m) \/ SendChecked(m) \/ RequestTimeout(m) \/ PublishToPeers(m)
      PROVE  OneMoves \/ \A l \in Msgs : Rests(l)
  BY <1>9, SenderStep DEF OneMoves
<1>10. ASSUME NEW j \in Instances, NEW m \in Msgs,
              \/ Receive(j, m) \/ OriginChecked(j, m)
              \/ DeliverDirect(j, m) \/ DeliverEvent(j, m)
              \/ PublisherRead(j, m) \/ DeliverChannel(j, m) \/ SendReceipt(j, m)
       PROVE  OneMoves
  <2>1. Message(m)' /\ \A l \in Msgs \ {m} : Rests(l)
    BY <1>10, ReceiveStep, ReceiverStep, SendReceiptStep
  <2> QED BY <2>1 DEF OneMoves
<1>11. ASSUME NEW r \in Msgs \X BOOLEAN, ReceiveReceipt(r) PROVE OneMoves
  <2>1. r[1] \in Msgs
    OBVIOUS
  <2> QED BY <1>11, <2>1, ReceiveReceiptStep DEF OneMoves
<1>12. CASE UNCHANGED vars
  BY <1>1, <1>12 DEF vars
<1>13. CASE Next
  BY <1>13, <1>2, <1>3, <1>4, <1>5, <1>6, <1>7, <1>8, <1>9, <1>10, <1>11 DEF Next
<1> QED BY <1>12, <1>13

LEMMA MessagesStep == Messages /\ Directory /\ Directory' /\ [Next]_vars => Messages'
<1>. SUFFICES ASSUME Messages, Directory, Directory', [Next]_vars PROVE Messages'
  OBVIOUS
<1>1. TypeOK'
  BY TypeStep
<1>2. Moves
  BY DirectoryMoves DEF Messages
<1>3. RegKnown'
  BY <1>2, RegKnownStep DEF Messages
<1>7. OneEntry'
  BY <1>2, OneEntryStep DEF Messages
<1>4. Placed
  BY DEF Directory
<1>5. \A m \in Msgs : Rests(m) => Message(m)'
  BY <1>2, <1>4, MessageRests
<1>6. \A m \in Msgs : Message(m)'
  <2>1. CASE OneMoves
    <3>1. PICK m \in Msgs : Message(m)' /\ \A l \in Msgs \ {m} : Rests(l)
      BY <2>1 DEF OneMoves
    <3>2. ASSUME NEW l \in Msgs PROVE Message(l)'
      BY <3>1, <1>5
    <3> QED BY <3>2
  <2> QED BY <1>5, <2>1, OneMessageStep
<1> QED BY <1>1, <1>3, <1>6, <1>7 DEF Messages

LEMMA MessagesStart == Init => Messages
<1>. SUFFICES ASSUME Init PROVE Messages
  OBVIOUS
<1>1. TypeOK
  BY NoMsgType DEF Init, TypeOK, Lives, Conn, Steps
<1>2. RegKnown
  BY ClusterAssumption DEF Init, RegKnown
<1>4. OneEntry
  BY DEF Init, OneEntry, Entered
<1>3. ASSUME NEW m \in Msgs PROVE Message(m)
  <2>1. /\ msg[m] = NoMsg /\ msg[m].stage = "idle" /\ ~msg[m].result
        /\ m \notin wire /\ receipts = {}
        /\ \A j \in Instances : seen[j][m] = "new"
        /\ \A k \in Conns : written[m][k] = 0
    BY DEF Init, NoMsg
  <2> QED BY <2>1 DEF Message, Sending, Receiving, Sound, Wrote
<1> QED BY <1>1, <1>2, <1>3, <1>4 DEF Messages

LEMMA MessagesKept == Spec => []Messages
BY MessagesStart, MessagesStep, DirectoryKept, PTL DEF Spec

\* The router's state is always of its type: no reply, receipt or frame is
\* applied to a client, a connection or a message that is not there.
THEOREM Typed == Spec => []TypeOK
<1>1. Messages => TypeOK
  BY DEF Messages
<1> QED BY <1>1, MessagesKept, PTL

\* A direct message is written once in all, whatever is sent twice: over the
\* wire to the generation its sender had last seen, and by its own router to
\* another connection of the client only when the registered one has left.
THEOREM WrittenOnce == Spec => []WrittenOnceToCaptured
<1>1. Messages => WrittenOnceToCaptured
  <2>. SUFFICES ASSUME Messages, NEW m \in Msgs, NEW k \in Conns, written[m][k] > 0
                PROVE  /\ written[m][k] = 1 /\ \A l \in Conns \ {k} : written[m][l] = 0
                       /\ ClientOf[k] = msg[m].client
                       /\ msg[m].previous \in {Nobody, msg[m].target}
                       /\ \/ k = msg[m].target
                          \/ m \notin wire /\ conn[msg[m].target] \in {"leaving", "gone"}
    BY DEF WrittenOnceToCaptured
  <2>1. Sending(m) /\ Receiving(m)
    BY DEF Messages, Message
  <2>2. Wrote(m)
    BY <2>1 DEF Receiving
  <2>3. PICK l \in Conns : Reached(m, l)
    BY <2>1, <2>2 DEF Receiving
  <2>4. l = k
    BY <2>3 DEF Reached
  <2>5. SameAudience(m)
    BY <2>1, <2>2 DEF Sending, Wrote
  <2> QED BY <2>3, <2>4, <2>5 DEF SameAudience, Reached, Left
<1> QED BY <1>1, MessagesKept, PTL

\* A send that reports success has been written to a connection of its client,
\* to the one its frame named if a peer did it.
THEOREM Honest == Spec => []HonestReceipts
<1>1. ASSUME Messages, NEW m \in Msgs, msg[m].result
      PROVE  \E k \in Conns : /\ ClientOf[k] = msg[m].client
                             /\ written[m][k] = 1
                             /\ (m \in wire => k = msg[m].target)
  <2>1. Wrote(m) /\ Receiving(m)
    BY <1>1 DEF Messages, Message, Sending
  <2>2. PICK k \in Conns : Reached(m, k)
    BY <2>1 DEF Receiving
  <2> QED BY <2>2 DEF Reached
<1>2. Messages => HonestReceipts
  BY <1>1 DEF HonestReceipts
<1> QED BY <1>2, MessagesKept, PTL

\* What a peer delivers came from an incarnation that owned its node when the
\* frame arrived, in a channel from a publisher still registered.
THEOREM LiveOrigin == Spec => []DeliveredFromLiveOrigin
<1>1. Messages => DeliveredFromLiveOrigin
  BY DEF Messages, Message, Sound, DeliveredFromLiveOrigin
<1> QED BY <1>1, MessagesKept, PTL

=============================================================================
