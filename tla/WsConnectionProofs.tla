------------------------- MODULE WsConnectionProofs -------------------------
(***************************************************************************)
(* Proofs about module WsConnection, for any number of connections and     *)
(* services and any id generator: a client id has one holder; nothing is   *)
(* held once the handler is being disposed of and nothing runs once it has *)
(* been; every connect hook is paired with one disconnect hook; no service *)
(* keeps a client whose cleanup is over; and the last frame a client sent  *)
(* decides what a service knows of it (Follows).                           *)
(***************************************************************************)
EXTENDS WsConnection, TLAPS

\* The part of the type invariant the registrations need.
RegistryType ==
    /\ phase \in [Conns -> Phases]
    /\ id \in [Conns -> Ids \cup {NoId}]
    /\ clients \in [Ids -> Conns \cup {Nobody}]
    /\ stage \in Stages

\* Until dispose clears the registry, it names every connection that holds
\* an id; this is what lets registerConnection refuse a second holder.
Owned == \A c \in Conns :
    phase[c] \in Holding => id[c] \in Ids /\ (~disposing => clients[id[c]] = c)

Registrations == RegistryType /\ Owned /\ OneOwner /\ NothingHeldWhileDisposing

\* A connection that keeps its place while the registry changes only for ids
\* it does not hold, or that lets go of its id.
LEMMA LetGo ==
  ASSUME Registrations, NEW c \in Conns, NEW p \in Phases \ Holding,
         phase' = [phase EXCEPT ![c] = p], id' = id,
         clients' = [clients EXCEPT ![id[c]] = Nobody], stage' = stage,
         heartbeat' \subseteq heartbeat,
         phase[c] \in Holding
  PROVE  Registrations'
<1>1. RegistryType'
  BY WsAssumption DEF Registrations, RegistryType
<1>2. OneOwner'
  BY DEF Registrations, RegistryType, OneOwner
<1>3. Owned'
  <2>. SUFFICES ASSUME NEW d \in Conns, phase'[d] \in Holding
                PROVE  id[d] \in Ids /\ (~disposing => clients'[id[d]] = d)
    BY DEF Owned, disposing
  <2>1. d # c /\ phase[d] \in Holding
    BY DEF Registrations, RegistryType
  <2>2. id[d] # id[c]
    BY <2>1 DEF Registrations, OneOwner
  <2> QED BY <2>1, <2>2, WsAssumption DEF Registrations, RegistryType, Owned
<1>4. NothingHeldWhileDisposing'
  BY WsAssumption DEF Registrations, RegistryType, NothingHeldWhileDisposing, disposing
<1> QED BY <1>1, <1>2, <1>3, <1>4 DEF Registrations

\* A connection that moves on and holds an id only if it did before.
LEMMA MovesOn ==
  ASSUME Registrations, NEW c \in Conns, NEW p \in Phases,
         phase' = [phase EXCEPT ![c] = p], id' = id, clients' = clients, stage' = stage,
         p \in Holding => phase[c] \in Holding,
         heartbeat' \subseteq heartbeat \cup {c}, disposing => heartbeat' = heartbeat
  PROVE  Registrations'
<1>1. RegistryType'
  BY DEF Registrations, RegistryType
<1>2. OneOwner' /\ Owned'
  BY DEF Registrations, RegistryType, OneOwner, Owned, disposing
<1>3. NothingHeldWhileDisposing'
  BY DEF Registrations, NothingHeldWhileDisposing, disposing
<1> QED BY <1>1, <1>2, <1>3 DEF Registrations

\* A step that leaves the registry and the phases alone.
LEMMA StaysPut ==
  ASSUME Registrations, phase' = phase, id' = id, clients' = clients, stage' = stage,
         heartbeat' = heartbeat
  PROVE  Registrations'
BY DEF Registrations, RegistryType, OneOwner, Owned, NothingHeldWhileDisposing, disposing

LEMMA Registered ==
  ASSUME Registrations, NEW c \in Conns, phase[c] = "auth", MayRegister(c),
         NEW i \in Ids, Register(c, i), stage' = stage
  PROVE  Registrations'
<1>1. CASE clients[i] # Nobody
  BY <1>1, MovesOn DEF Register, Phases, Holding
<1>2. CASE clients[i] = Nobody
  <2>1. /\ phase' = [phase EXCEPT ![c] = "before"]
        /\ clients' = [clients EXCEPT ![i] = c]
        /\ id' = [id EXCEPT ![c] = i]
        /\ heartbeat' = heartbeat
    BY <1>2 DEF Register
  <2>2. \A d \in Conns : phase[d] \in Holding => id[d] # i
    BY <1>2, WsAssumption DEF Registrations, Owned, MayRegister
  <2>3. RegistryType'
    BY <2>1, WsAssumption DEF Registrations, RegistryType, Phases, Registering
  <2>4. OneOwner'
    BY <2>1, <2>2 DEF Registrations, RegistryType, OneOwner
  <2>5. Owned'
    BY <2>1, <2>2, WsAssumption DEF Registrations, RegistryType, Owned, disposing
  <2>6. NothingHeldWhileDisposing'
    BY DEF MayRegister, NothingHeldWhileDisposing, disposing
  <2> QED BY <2>3, <2>4, <2>5, <2>6 DEF Registrations
<1> QED BY <1>1, <1>2

LEMMA RolledBack ==
  ASSUME Registrations, NEW c \in Conns, phase[c] \in {"before", "connecting"},
         Rollback(c), stage' = stage
  PROVE  Registrations'
BY LetGo DEF Rollback, Phases, Holding, Registering

LEMMA WentOn ==
  ASSUME Registrations, NEW c \in Conns, phase[c] \in {"before", "connecting"},
         MayGoOn(c), GoOn(c), stage' = stage
  PROVE  Registrations'
<1>1. CASE TellNext(c)
  BY <1>1, MovesOn DEF TellNext, Phases, Registering, Holding
<1>2. CASE Attach(c)
  BY <1>2, MovesOn DEF Attach, MayGoOn, Phases, Holding
<1> QED BY <1>1, <1>2 DEF GoOn

LEMMA CloseHandled ==
  ASSUME Registrations, NEW c \in Conns, handleClose(c), c \in tracked => phase[c] \in Holding,
         id' = id, clients' = clients, stage' = stage, heartbeat' = heartbeat
  PROVE  Registrations'
<1>1. CASE phase' = [phase EXCEPT ![c] = "draining"] /\ c \in tracked
  BY <1>1, MovesOn DEF Phases, Closing
<1>2. CASE phase' = phase
  BY <1>2, StaysPut
<1> QED BY <1>1, <1>2 DEF handleClose

\* wsToId holds sockets whose connection holds its id and is not closing yet.
Tracked == /\ tracked \subseteq Conns
           /\ \A c \in tracked : phase[c] \in {"before", "connecting", "up"}

LEMMA TrackedStep == RegistryType /\ Tracked /\ [Next]_vars => Tracked'
<1>. SUFFICES ASSUME RegistryType, Tracked, [Next]_vars PROVE Tracked'
  OBVIOUS
<1>. USE DEF RegistryType, Tracked
<1>1. ASSUME NEW c \in Conns, AuthReturns(c) PROVE Tracked'
  <2>1. CASE Deny(c)
    BY <1>1, <2>1 DEF AuthReturns, Deny
  <2>2. ASSUME NEW i \in Ids, Register(c, i) PROVE Tracked'
    BY <1>1, <2>2 DEF AuthReturns, Register
  <2> QED BY <1>1, <2>1, <2>2 DEF AuthReturns
<1>2. ASSUME NEW c \in Conns, Rollback(c) PROVE Tracked'
  BY <1>2 DEF Rollback
<1>3. ASSUME NEW c \in Conns, GoOn(c) PROVE Tracked'
  BY <1>3 DEF GoOn, TellNext, Attach
<1>4. ASSUME NEW c \in Conns, handleClose(c) PROVE Tracked'
  BY <1>4 DEF handleClose
<1>5. ASSUME NEW c \in Conns, Upgrade(c) PROVE Tracked'
  BY <1>5 DEF Upgrade
<1>6. ASSUME NEW c \in Conns, CleanUp(c), phase[c] = "draining" PROVE Tracked'
  BY <1>6 DEF CleanUp
<1>7. ASSUME NEW c \in Conns, DisconnectHookReturns(c) PROVE Tracked'
  <2>1. tracked' = tracked /\ c \notin tracked
    BY <1>7 DEF DisconnectHookReturns
  <2>2. \A d \in Conns \ {c} : phase'[d] = phase[d]
    BY <1>7 DEF DisconnectHookReturns, AfterHooks
  <2> QED BY <2>1, <2>2
<1>8. ASSUME phase' = phase, tracked' = tracked PROVE Tracked'
  BY <1>8
<1> QED BY <1>1, <1>2, <1>3, <1>4, <1>5, <1>6, <1>7, <1>8
        DEF Next, vars, wire, BeforeReturns, ConnectHookReturns, Arrive, HandlerReturns,
            SocketError, SocketClosed, Drained, DrainTimeout, Dispose, SocketsClosed,
            RegistrationsSettled, CleanupsSettled

LEMMA RegistrationsStep == Registrations /\ Tracked /\ [Next]_vars => Registrations'
<1>. SUFFICES ASSUME Registrations, Tracked, [Next]_vars PROVE Registrations'
  OBVIOUS
<1>1. ASSUME NEW c \in Conns, Upgrade(c) PROVE Registrations'
  <2>1. (IF disposing THEN "refused" ELSE "auth") \in Phases \ Holding
    BY DEF Phases, Holding
  <2> QED BY <1>1, <2>1, MovesOn DEF Upgrade, disposal
<1>2. ASSUME NEW c \in Conns, AuthReturns(c) PROVE Registrations'
  <2>1. CASE Deny(c)
    BY <1>2, <2>1, MovesOn DEF AuthReturns, Deny, Phases, Holding, disposal
  <2>2. CASE MayRegister(c) /\ \E i \in Ids : Register(c, i)
    BY <1>2, <2>2, Registered DEF AuthReturns, disposal
  <2> QED BY <1>2, <2>1, <2>2 DEF AuthReturns
<1>3. ASSUME NEW c \in Conns, BeforeReturns(c) \/ ConnectHookReturns(c)
      PROVE  Registrations'
  BY <1>3, RolledBack, WentOn DEF BeforeReturns, ConnectHookReturns, disposal
<1>4. ASSUME NEW c \in Conns, SocketError(c) \/ SocketClosed(c) PROVE Registrations'
  BY <1>4, CloseHandled DEF SocketError, SocketClosed, disposal, Tracked, Holding
<1>5. ASSUME NEW c \in Conns, Drained(c) \/ DrainTimeout(c) PROVE Registrations'
  BY <1>5, LetGo DEF Drained, DrainTimeout, CleanUp, disposal, Phases, Closing, Holding
<1>6. ASSUME NEW c \in Conns, DisconnectHookReturns(c) PROVE Registrations'
  <2>1. CASE phase' = phase
    BY <1>6, <2>1, StaysPut DEF DisconnectHookReturns, disposal
  <2>2. CASE phase' = [phase EXCEPT ![c] = "done"]
    BY <1>6, <2>2, MovesOn DEF DisconnectHookReturns, disposal, Phases, Holding
  <2> QED BY <1>6, <2>1, <2>2 DEF DisconnectHookReturns, AfterHooks
<1>7. CASE Dispose
  BY <1>7 DEF Dispose, Registrations, RegistryType, Owned, OneOwner, Stages,
              NothingHeldWhileDisposing, disposing
<1>8. CASE SocketsClosed \/ RegistrationsSettled \/ CleanupsSettled
  BY <1>8 DEF SocketsClosed, RegistrationsSettled, CleanupsSettled, wire, Registrations,
              RegistryType, Owned, OneOwner, Stages, NothingHeldWhileDisposing, disposing
<1>9. ASSUME phase' = phase, id' = id, clients' = clients, stage' = stage, heartbeat' = heartbeat
      PROVE  Registrations'
  BY <1>9, StaysPut
<1> QED BY <1>1, <1>2, <1>3, <1>4, <1>5, <1>6, <1>7, <1>8, <1>9
        DEF Next, vars, wire, disposal, Arrive, HandlerReturns

LEMMA RegistrationsKept == Spec => [](Registrations /\ Tracked)
<1>1. Init => Registrations /\ Tracked
  BY DEF Init, Registrations, RegistryType, Owned, OneOwner, NothingHeldWhileDisposing,
         disposing, Tracked, Phases, Holding, Stages
<1>2. Registrations /\ Tracked /\ [Next]_vars => (Registrations /\ Tracked)'
  BY RegistrationsStep, TrackedStep DEF Registrations
<1> QED BY <1>1, <1>2, PTL DEF Spec

\* Whatever ids the host generates, two connections never hold one together,
\* not even while one of them drains the frames of a closed socket.
THEOREM SingleOwner == Spec => []OneOwner
<1>1. Registrations => OneOwner
  BY DEF Registrations
<1> QED BY <1>1, RegistrationsKept, PTL

\* From the moment dispose is called no connection is registered and no
\* keepalive runs, although hooks and authentications may still be pending.
THEOREM NothingHeld == Spec => []NothingHeldWhileDisposing
<1>1. Registrations => NothingHeldWhileDisposing
  BY DEF Registrations
<1> QED BY <1>1, RegistrationsKept, PTL

-----------------------------------------------------------------------------
(* Disposal                                                                *)

\* A connection that is up hears of its socket's end, and from each stage of
\* dispose on only awaited connections can be where that stage waits.
Disposal ==
    /\ socket \in [Conns -> {"open", "closing", "dead", "closed"}]
    /\ \A c \in Conns : phase[c] = "up" => c \in tracked /\ socket[c] # "closed"
    /\ \A c \in Conns : phase[c] \in {"before", "connecting"} => c \in tracked
    /\ stage \in {"registrations", "cleanups", "disposed"} =>
           \A c \in Conns : phase[c] \notin {"idle", "auth"} => socket[c] = "closed"
    /\ stage = "registrations" => \A c \in Conns : phase[c] \in Registering => c \in awaited
    /\ stage \in {"cleanups", "disposed"} =>
           \A c \in Conns : phase[c] \notin Registering \cup {"up"}
    /\ stage = "cleanups" => \A c \in Conns : phase[c] \in Closing => c \in awaited
    /\ stage = "disposed" => \A c \in Conns : phase[c] \notin Closing

LEMMA DisposalStep == RegistryType /\ Tracked /\ Disposal /\ [Next]_vars => Disposal'
<1>. SUFFICES ASSUME RegistryType, Tracked, Disposal, [Next]_vars PROVE Disposal'
  OBVIOUS
<1>. USE DEF RegistryType, Tracked, Disposal, Registering, Closing, Stages
<1>1. ASSUME NEW c \in Conns, Upgrade(c) PROVE Disposal'
  BY <1>1 DEF Upgrade, disposing, disposal
<1>2. ASSUME NEW c \in Conns, AuthReturns(c) PROVE Disposal'
  <2>1. CASE Deny(c)
    BY <1>2, <2>1 DEF AuthReturns, Deny, disposal
  <2>2. ASSUME NEW i \in Ids, MayRegister(c), Register(c, i) PROVE Disposal'
    BY <1>2, <2>2 DEF AuthReturns, Register, MayRegister, disposing, disposal
  <2> QED BY <1>2, <2>1, <2>2 DEF AuthReturns
<1>3. ASSUME NEW c \in Conns, BeforeReturns(c) \/ ConnectHookReturns(c) PROVE Disposal'
  <2>1. CASE Rollback(c)
    BY <1>3, <2>1 DEF BeforeReturns, ConnectHookReturns, Rollback, disposal
  <2>2. CASE MayGoOn(c) /\ TellNext(c)
    BY <1>3, <2>2 DEF BeforeReturns, ConnectHookReturns, TellNext, MayGoOn, disposing, disposal
  <2>3. CASE MayGoOn(c) /\ Attach(c)
    BY <1>3, <2>3 DEF BeforeReturns, ConnectHookReturns, Attach, MayGoOn, disposing, disposal
  <2> QED BY <1>3, <2>1, <2>2, <2>3 DEF BeforeReturns, ConnectHookReturns, GoOn
<1>4. ASSUME NEW c \in Conns, NEW f \in Frame, Arrive(c, f) PROVE Disposal'
  BY <1>4 DEF Arrive, Buffer, enqueueFrame, disposal
<1>5. ASSUME NEW c \in Conns, SocketError(c) \/ SocketClosed(c) PROVE Disposal'
  BY <1>5 DEF SocketError, SocketClosed, handleClose, disposal
<1>6. ASSUME NEW c \in Conns, Drained(c) \/ DrainTimeout(c) PROVE Disposal'
  BY <1>6 DEF Drained, DrainTimeout, CleanUp, disposal
<1>7. ASSUME NEW c \in Conns, DisconnectHookReturns(c) PROVE Disposal'
  BY <1>7 DEF DisconnectHookReturns, AfterHooks, disposal
<1>8. CASE Dispose
  BY <1>8 DEF Dispose
<1>9. CASE SocketsClosed
  BY <1>9 DEF SocketsClosed, wire
<1>10. CASE RegistrationsSettled \/ CleanupsSettled
  BY <1>10 DEF RegistrationsSettled, CleanupsSettled, wire
<1>11. ASSUME UNCHANGED <<wire, disposal>> PROVE Disposal'
  BY <1>11 DEF wire, disposal
<1> QED BY <1>1, <1>2, <1>3, <1>4, <1>5, <1>6, <1>7, <1>8, <1>9, <1>10, <1>11
        DEF Next, vars, HandlerReturns

\* When dispose returns, every registration, drain and cleanup that was under
\* way has ended, whatever the sockets, the hooks and the authentications did.
THEOREM Quiet == Spec => []DisposedIsQuiet
<1>1. Init => Disposal
  BY DEF Init, Disposal, Registering, Closing
<1>2. RegistryType /\ Tracked /\ RegistryType' /\ Disposal /\ [Next]_vars => Disposal'
  BY DisposalStep
<1>3. RegistryType /\ Disposal => DisposedIsQuiet
  BY DEF RegistryType, Disposal, DisposedIsQuiet, Phases
<1>4. Registrations => RegistryType
  BY DEF Registrations
<1> QED BY <1>1, <1>2, <1>3, <1>4, RegistrationsKept, PTL DEF Spec

-----------------------------------------------------------------------------
(* Hooks                                                                   *)

\* The disconnect hooks q still to return: of the services k + 1 to n, then of
\* the host.
Left(q, k, n) ==
    /\ q \in Seq(Names \cup {Host})
    /\ Len(q) = n - k + 1
    /\ \A j \in 1 .. n - k : q[j] = Services[k + j]
    /\ q[n - k + 1] = Host

\* The first k services have been told once that c is gone, no other has.
Told(c, k) == \A i \in DOMAIN Services : told[c][Services[i]] = IF i <= k THEN 1 ELSE 0

Hooks ==
    /\ connected \in [Conns -> 0 .. Len(Services)]
    /\ told \in [Conns -> [Names -> Nat]]
    /\ DOMAIN todo = Conns
    /\ \A c \in Conns :
        /\ phase[c] \in {"idle", "auth", "before", "refused"} => connected[c] = 0
        /\ phase[c] \in {"up", "draining", "cleaning"} => connected[c] = Len(Services)
        /\ phase[c] \notin {"cleaning", "rollback", "done"} => Told(c, 0)
        /\ phase[c] \in {"cleaning", "rollback"} =>
               \E k \in 0 .. connected[c] : Told(c, k) /\ Left(todo[c], k, connected[c])
        /\ phase[c] = "done" => Told(c, connected[c])

LEMMA ServicesAre == /\ Len(Services) \in Nat /\ DOMAIN Services = 1 .. Len(Services)
                     /\ \A i \in DOMAIN Services : Services[i] \in Names /\ Services[i] # Host
                     /\ \A s \in Names : \E i \in DOMAIN Services : Services[i] = s
BY WsAssumption DEF Names

LEMMA LeftAtFirst ==
  ASSUME NEW n \in 0 .. Len(Services)
  PROVE  Left(Append(SubSeq(Services, 1, n), Host), 0, n)
<1>1. /\ SubSeq(Services, 1, n) \in Seq(Names)
      /\ Len(SubSeq(Services, 1, n)) = n
      /\ \A j \in 1 .. n : SubSeq(Services, 1, n)[j] = Services[j]
  BY WsAssumption
<1> DEFINE q == SubSeq(Services, 1, n)
<1>2. q \in Seq(Names \cup {Host}) /\ Len(q) = n
  BY <1>1
<1> HIDE DEF q
<1>3. /\ Append(q, Host) \in Seq(Names \cup {Host})
      /\ Len(Append(q, Host)) = n + 1
      /\ \A j \in 1 .. n : Append(q, Host)[j] = q[j]
      /\ Append(q, Host)[n + 1] = Host
  BY <1>2
<1> QED BY <1>1, <1>3 DEF Left, q

LEMMA LeftNext ==
  ASSUME NEW q, NEW n \in Nat, NEW k \in 0 .. n, n <= Len(Services), Left(q, k, n)
  PROVE  /\ Head(q) = Host <=> k = n
         /\ k < n => Head(q) = Services[k + 1] /\ Left(Tail(q), k + 1, n)
<1>1. q # <<>> /\ Head(q) = q[1]
  BY DEF Left
<1>2. CASE k = n
  BY <1>1, <1>2 DEF Left
<1>3. CASE k < n
  <2>1. Head(q) = Services[k + 1] /\ Head(q) # Host
    BY <1>1, <1>3, ServicesAre DEF Left
  <2>2. /\ Tail(q) \in Seq(Names \cup {Host})
        /\ Len(Tail(q)) = n - k
        /\ \A j \in 1 .. n - k : Tail(q)[j] = q[j + 1]
    BY <1>1, <1>3 DEF Left
  <2>3. Left(Tail(q), k + 1, n)
    <3>1. ASSUME NEW j \in 1 .. n - (k + 1) PROVE Tail(q)[j] = Services[k + 1 + j]
      <4>1. Tail(q)[j] = q[j + 1] /\ j + 1 \in 1 .. n - k
        BY <2>2
      <4>2. q[j + 1] = Services[k + (j + 1)]
        BY <4>1 DEF Left
      <4>3. k + (j + 1) = k + 1 + j
        OBVIOUS
      <4> QED BY <4>1, <4>2, <4>3
    <3>2. Tail(q)[n - k] = Host
      <4>1. Tail(q)[n - k] = q[n - k + 1]
        BY <2>2, <1>3
      <4> QED BY <4>1 DEF Left
    <3> QED BY <1>3, <2>2, <3>1, <3>2 DEF Left
  <2> QED BY <1>3, <2>1, <2>3
<1> QED BY <1>2, <1>3

\* A step that leaves the hooks alone, up to the phase of one connection.
LEMMA HooksStay ==
  ASSUME RegistryType, Hooks, NEW c \in Conns, NEW p,
         phase' = phase \/ phase' = [phase EXCEPT ![c] = p],
         p \in {"auth", "before", "refused"} => phase[c] \in {"idle", "auth"},
         p = "draining" => phase[c] = "up",
         p \in {"auth", "before", "refused", "draining"},
         UNCHANGED <<connected, told, todo>>
  PROVE  Hooks'
<1> USE DEF RegistryType, Hooks
<1>1. \A d \in Conns : \A k : Told(d, k)' <=> Told(d, k)
  BY DEF Told
<1>2. CASE phase' = phase
  BY <1>1, <1>2
<1>3. CASE phase' = [phase EXCEPT ![c] = p]
  BY <1>1, <1>3
<1> QED BY <1>2, <1>3

LEMMA HooksInit == Init => Hooks
BY ServicesAre DEF Init, Hooks, Told

LEMMA HookReturns ==
  ASSUME RegistryType, Hooks, NEW c \in Conns, DisconnectHookReturns(c)
  PROVE  Hooks'
<1> USE DEF RegistryType, Hooks
<1> DEFINE n == connected[c]
<1>1. PICK k \in 0 .. n : Told(c, k) /\ Left(todo[c], k, n)
  BY DEF DisconnectHookReturns
<1>2. n \in Nat /\ n <= Len(Services)
  BY ServicesAre
<1>3. /\ Head(todo[c]) = Host <=> k = n
      /\ k < n => Head(todo[c]) = Services[k + 1] /\ Left(Tail(todo[c]), k + 1, n)
  BY <1>1, <1>2, LeftNext
<1>4. \A d \in Conns \ {c} : /\ phase'[d] = phase[d] /\ connected'[d] = connected[d]
                            /\ told'[d] = told[d] /\ todo'[d] = todo[d]
  BY DEF DisconnectHookReturns, AfterHooks
<1>5. CASE k = n
  <2>1. phase' = [phase EXCEPT ![c] = "done"] /\ told' = told /\ connected' = connected
    BY <1>3, <1>5 DEF DisconnectHookReturns, AfterHooks
  <2> QED BY <1>1, <1>4, <1>5, <2>1 DEF Told, DisconnectHookReturns
<1>6. CASE k < n
  <2>1. /\ phase' = phase /\ connected' = connected
        /\ told' = [told EXCEPT ![c][Services[k + 1]] = @ + 1]
        /\ Left(todo'[c], k + 1, n)
    BY <1>3, <1>6 DEF DisconnectHookReturns
  <2>2. k + 1 \in DOMAIN Services
    BY <1>2, <1>6, ServicesAre
  <2>3. Told(c, k + 1)'
    <3> SUFFICES ASSUME NEW i \in DOMAIN Services
                 PROVE  told'[c][Services[i]] = IF i <= k + 1 THEN 1 ELSE 0
      BY DEF Told
    <3>1. Services[i] = Services[k + 1] <=> i = k + 1
      BY <2>2, WsAssumption
    <3>2. told[c][Services[i]] = IF i <= k THEN 1 ELSE 0
      BY <1>1 DEF Told
    <3>3. Services[i] \in Names /\ Services[k + 1] \in Names
      BY <2>2, ServicesAre
    <3>4. i \in Int /\ k \in Int
      BY ServicesAre
    <3>5. told'[c][Services[i]] = IF i = k + 1 THEN told[c][Services[i]] + 1
                                              ELSE told[c][Services[i]]
      BY <2>1, <3>1, <3>3
    <3> QED BY <3>2, <3>4, <3>5
  <2>4. told' \in [Conns -> [Names -> Nat]]
    BY <2>1, <2>2, ServicesAre
  <2>5. phase[c] \in {"cleaning", "rollback"} /\ DOMAIN todo' = Conns /\ k + 1 \in 0 .. connected'[c]
    BY <1>2, <1>6, <2>1 DEF DisconnectHookReturns
  <2>6. ASSUME NEW d \in Conns \ {c}, NEW j, Told(d, j) PROVE Told(d, j)'
    BY <1>4, <2>6 DEF Told
  <2> QED BY <1>4, <2>1, <2>3, <2>4, <2>5, <2>6
<1> QED BY <1>1, <1>2, <1>5, <1>6

LEMMA HooksStep == RegistryType /\ Hooks /\ Tracked /\ [Next]_vars => Hooks'
<1>. SUFFICES ASSUME RegistryType, Hooks, Tracked, [Next]_vars PROVE Hooks'
  OBVIOUS
<1>. USE DEF RegistryType, Tracked
<1>1. ASSUME NEW c \in Conns, Upgrade(c) \/ AuthReturns(c) PROVE Hooks'
  BY <1>1, HooksStay DEF Upgrade, AuthReturns, Deny, Register, cleanup
<1>2. ASSUME NEW c \in Conns, BeforeReturns(c) \/ ConnectHookReturns(c) PROVE Hooks'
  <2>1. CASE Rollback(c)
    <3>1. phase[c] \in {"before", "connecting"} /\ connected[c] \in 0 .. Len(Services)
      BY <1>2 DEF BeforeReturns, ConnectHookReturns, Hooks
    <3>2. Left(todo'[c], 0, connected[c])
      BY <2>1, <3>1, LeftAtFirst DEF Rollback, Hooks
    <3> QED BY <2>1, <3>1, <3>2, ServicesAre DEF Rollback, Hooks, Told
  <2>2. CASE TellNext(c) /\ connected[c] < Len(Services)
    BY <1>2, <2>2, ServicesAre DEF BeforeReturns, ConnectHookReturns, TellNext, Hooks, Told, cleanup
  <2>3. CASE Attach(c) /\ ~(connected[c] < Len(Services))
    BY <1>2, <2>3, ServicesAre DEF BeforeReturns, ConnectHookReturns, Attach, Hooks, Told
  <2> QED BY <1>2, <2>1, <2>2, <2>3 DEF BeforeReturns, ConnectHookReturns, GoOn
<1>3. ASSUME NEW c \in Conns, SocketError(c) \/ SocketClosed(c) PROVE Hooks'
  <2>1. UNCHANGED <<connected, told, todo>>
    BY <1>3 DEF SocketError, SocketClosed, cleanup
  <2>2. CASE phase' = phase
    BY <2>1, <2>2 DEF Hooks, Told
  <2>3. CASE phase' = [phase EXCEPT ![c] = "draining"] /\ phase[c] = "up"
    BY <2>1, <2>3, HooksStay
  <2> QED BY <1>3, <2>2, <2>3 DEF SocketError, SocketClosed, handleClose
<1>4. ASSUME NEW c \in Conns, Drained(c) \/ DrainTimeout(c) PROVE Hooks'
  <2>1. CleanUp(c) /\ phase[c] = "draining" /\ connected[c] = Len(Services)
    BY <1>4 DEF Drained, DrainTimeout, Hooks
  <2>2. SubSeq(Services, 1, Len(Services)) = Services
    BY WsAssumption
  <2>3. Left(todo'[c], 0, connected[c])
    BY <2>1, <2>2, LeftAtFirst, ServicesAre DEF CleanUp, Hooks
  <2> QED BY <2>1, <2>3, ServicesAre DEF CleanUp, Hooks, Told
<1>5. ASSUME NEW c \in Conns, DisconnectHookReturns(c) PROVE Hooks'
  BY <1>5, HookReturns
<1>6. ASSUME UNCHANGED <<phase, connected, told, todo>> PROVE Hooks'
  BY <1>6 DEF Hooks, Told
<1> QED BY <1>1, <1>2, <1>3, <1>4, <1>5, <1>6
        DEF Next, vars, wire, cleanup, Arrive, HandlerReturns, Dispose, SocketsClosed,
            RegistrationsSettled, CleanupsSettled

LEMMA HooksKept == Spec => []Hooks
<1>1. RegistryType /\ Tracked /\ Hooks /\ [Next]_vars => Hooks'
  BY HooksStep
<1>2. Registrations => RegistryType
  BY DEF Registrations
<1> QED BY <1>1, <1>2, HooksInit, RegistrationsKept, PTL DEF Spec

\* However a connection ends, each service that was announced to hears of the
\* end exactly once, and no other does.
THEOREM HooksPaired == Spec => []ToldOnce
<1>1. Hooks => ToldOnce
  <2> SUFFICES ASSUME Hooks, NEW c \in Conns, NEW i \in DOMAIN Services
               PROVE  /\ told[c][Services[i]] <= IF i <= connected[c] THEN 1 ELSE 0
                      /\ phase[c] = "done" /\ i <= connected[c] => told[c][Services[i]] = 1
    BY DEF ToldOnce
  <2>1. i \in Nat /\ connected[c] \in Nat
    BY ServicesAre DEF Hooks
  <2>2. CASE phase[c] \in {"cleaning", "rollback"}
    BY <2>1, <2>2 DEF Hooks, Told
  <2>3. CASE phase[c] \notin {"cleaning", "rollback"}
    BY <2>1, <2>3, ServicesAre DEF Hooks, Told
  <2> QED BY <2>2, <2>3
<1> QED BY <1>1, HooksKept, PTL

-----------------------------------------------------------------------------
(* Types                                                                   *)

\* What is left of a sequence without its i-th element.
Without(q, i) == SubSeq(q, 1, i - 1) \o SubSeq(q, i + 1, Len(q))

LEMMA Joined ==
  ASSUME NEW S, NEW f \in Seq(S), NEW b \in Seq(S)
  PROVE  /\ f \o b \in Seq(S) /\ Len(f \o b) = Len(f) + Len(b)
         /\ Len(f) \in Nat /\ Len(b) \in Nat
         /\ \A j \in 1 .. Len(f) + Len(b) :
               (f \o b)[j] = IF j <= Len(f) THEN f[j] ELSE b[j - Len(f)]
OBVIOUS

LEMMA WithoutOne ==
  ASSUME NEW S, NEW q \in Seq(S), NEW i \in DOMAIN q
  PROVE  /\ Without(q, i) \in Seq(S)
         /\ Len(Without(q, i)) = Len(q) - 1
         /\ \A j \in DOMAIN Without(q, i) : Without(q, i)[j] = IF j < i THEN q[j] ELSE q[j + 1]
<1> DEFINE front == SubSeq(q, 1, i - 1)
           back == SubSeq(q, i + 1, Len(q))
<1>1. i \in 1 .. Len(q) /\ Len(q) \in Nat
  OBVIOUS
<1>2. front \in Seq(S) /\ Len(front) = i - 1 /\ \A j \in 1 .. i - 1 : front[j] = q[j]
  BY <1>1
<1>3. back \in Seq(S) /\ Len(back) = Len(q) - i /\ \A j \in 1 .. Len(q) - i : back[j] = q[j + i]
  BY <1>1
<1> HIDE DEF front, back
<1>a. /\ front \o back \in Seq(S) /\ Len(front \o back) = Len(front) + Len(back)
      /\ \A j \in 1 .. Len(front) + Len(back) :
            (front \o back)[j] = IF j <= Len(front) THEN front[j] ELSE back[j - Len(front)]
  BY <1>2, <1>3, Joined
<1>b. i - 1 + (Len(q) - i) = Len(q) - 1
  BY <1>1
<1>4. front \o back \in Seq(S) /\ Len(front \o back) = Len(q) - 1
  BY <1>2, <1>3, <1>a, <1>b
<1>5. \A j \in 1 .. Len(q) - 1 :
         (front \o back)[j] = IF j <= i - 1 THEN front[j] ELSE back[j - (i - 1)]
  BY <1>2, <1>3, <1>a, <1>b
<1>6. ASSUME NEW j \in 1 .. Len(q) - 1
      PROVE  (front \o back)[j] = IF j < i THEN q[j] ELSE q[j + 1]
  <2>1. CASE j < i
    <3>1. j \in 1 .. i - 1
      BY <1>1, <2>1
    <3> QED BY <1>2, <1>5, <2>1, <3>1
  <2>2. CASE ~(j < i)
    <3>1. j - (i - 1) \in 1 .. Len(q) - i /\ j - (i - 1) + i = j + 1
      BY <1>1, <2>2
    <3>2. back[j - (i - 1)] = q[j - (i - 1) + i]
      BY <1>3, <3>1
    <3>3. (front \o back)[j] = back[j - (i - 1)]
      <4>1. ~(j <= i - 1)
        BY <1>1, <2>2
      <4> QED BY <1>5, <4>1
    <3> QED BY <2>2, <3>1, <3>2, <3>3
  <2> QED BY <2>1, <2>2
<1>7. Without(q, i) = front \o back
  BY DEF Without, front, back
<1>8. DOMAIN (front \o back) = 1 .. Len(q) - 1
  BY <1>4
<1> QED BY <1>4, <1>6, <1>7, <1>8

\* What the registrations, the hooks and the disposal leave of the types; and
\* whoever registers, or has a frame to handle, has an id.
FrameTypes ==
    /\ early \in [Conns -> Seq(Frame)]
    /\ \A c \in Conns : Len(early[c]) <= BufferMax
    /\ queue \in [Conns -> Seq(Frame)]
    /\ sent \in [Conns -> 0 .. FrameMax]
    /\ last \in [Conns -> [Names -> {"join", "leave"}]]

Identified == \A c \in Conns :
    /\ phase[c] \notin {"idle", "auth", "refused"} => id[c] \in Ids
    /\ queue[c] # <<>> => id[c] \in Ids

Types ==
    /\ FrameTypes
    /\ Identified
    /\ todo \in [Conns -> Seq(Names \cup {Host})]
    /\ known \in [Names -> SUBSET Ids]
    /\ heartbeat \subseteq Conns
    /\ awaited \subseteq Conns
    /\ late \subseteq Conns

LEMMA TypesInit == Init => Types
<1> SUFFICES ASSUME Init PROVE Types
  OBVIOUS
<1>1. FrameTypes
  BY WsAssumption DEF Init, FrameTypes
<1>2. Identified
  BY DEF Init, Identified
<1> QED BY <1>1, <1>2 DEF Init, Types

LEMMA RollbackTypes ==
  ASSUME Types, RegistryType, NEW c \in Conns, phase[c] \in {"before", "connecting"},
         Rollback(c), UNCHANGED disposal, connected[c] \in 0 .. Len(Services)
  PROVE  Types'
<1>1. todo' \in [Conns -> Seq(Names \cup {Host})]
  <2>1. Append(SubSeq(Services, 1, connected[c]), Host) \in Seq(Names \cup {Host})
    BY LeftAtFirst DEF Left
  <2> QED BY <2>1 DEF Types, Rollback
<1>2. FrameTypes'
  <2>1. /\ early' = [early EXCEPT ![c] = <<>>] /\ UNCHANGED <<queue, sent, last>>
        /\ <<>> \in Seq(Frame) /\ Len(<<>>) <= BufferMax
    BY WsAssumption DEF Rollback
  <2> QED BY <2>1 DEF Types, FrameTypes
<1>3. Identified'
  BY DEF Types, Identified, Rollback, RegistryType
<1> QED BY <1>1, <1>2, <1>3 DEF Types, Rollback, disposal

LEMMA GoOnTypes ==
  ASSUME Types, RegistryType, NEW c \in Conns, phase[c] \in {"before", "connecting"},
         GoOn(c), UNCHANGED disposal, connected[c] \in 0 .. Len(Services)
  PROVE  Types'
<1>1. id[c] \in Ids
  BY DEF Types, Identified
<1>2. CASE TellNext(c) /\ connected[c] < Len(Services)
  <2>1. Services[connected[c] + 1] \in Names
    BY <1>2, ServicesAre
  <2>2. known' \in [Names -> SUBSET Ids]
    BY <1>1, <1>2, <2>1 DEF Types, TellNext
  <2>3. FrameTypes'
    BY <1>2 DEF Types, FrameTypes, TellNext, frames
  <2>4. Identified'
    BY <1>1, <1>2 DEF Types, Identified, TellNext, frames, RegistryType
  <2> QED BY <1>2, <2>2, <2>3, <2>4 DEF Types, TellNext, cleanup, disposal
<1>3. CASE Attach(c)
  <2>1. early[c] \in Seq(Frame) /\ queue[c] \in Seq(Frame) /\ queue[c] \o early[c] \in Seq(Frame)
    BY DEF Types, FrameTypes
  <2>2. FrameTypes'
    <3>1. /\ early' = [early EXCEPT ![c] = <<>>] /\ UNCHANGED <<sent, last>>
          /\ queue' = [queue EXCEPT ![c] = queue[c] \o early[c]]
          /\ <<>> \in Seq(Frame) /\ Len(<<>>) <= BufferMax
      BY <1>3, WsAssumption DEF Attach
    <3> QED BY <2>1, <3>1 DEF Types, FrameTypes
  <2>3. Identified'
    BY <1>1, <1>3 DEF Types, FrameTypes, Identified, Attach, RegistryType
  <2> QED BY <1>3, <2>2, <2>3 DEF Types, Attach, disposal
<1> QED BY <1>2, <1>3 DEF GoOn

LEMMA ArriveTypes ==
  ASSUME Types, NEW c \in Conns, NEW f \in Frame, Arrive(c, f)
  PROVE  Types'
<1>1. f.service \in Names /\ f.op \in {"join", "leave"}
  BY DEF Frame
<1>2. sent' \in [Conns -> 0 .. FrameMax]
  BY WsAssumption DEF Arrive, Types, FrameTypes
<1>3. last' \in [Conns -> [Names -> {"join", "leave"}]]
  <2>1. last' = last \/ last' = [last EXCEPT ![c][f.service] = f.op]
    BY DEF Arrive, Buffer, enqueueFrame
  <2>2. last \in [Conns -> [Names -> {"join", "leave"}]]
    BY DEF Types, FrameTypes
  <2> QED BY <1>1, <2>1, <2>2
<1>4. /\ early' \in [Conns -> Seq(Frame)]
      /\ \A d \in Conns : Len(early'[d]) <= BufferMax
  <2>1. CASE early' = early
    BY <2>1 DEF Types, FrameTypes
  <2>2. CASE early' = [early EXCEPT ![c] = Append(early[c], f)] /\ Len(early[c]) < BufferMax
    <3>1. Append(early[c], f) \in Seq(Frame) /\ Len(Append(early[c], f)) = Len(early[c]) + 1
          /\ Len(early[c]) \in Nat
      BY DEF Types, FrameTypes
    <3>2. Len(Append(early[c], f)) <= BufferMax
      BY <2>2, <3>1, WsAssumption
    <3> QED BY <2>2, <3>1, <3>2 DEF Types, FrameTypes
  <2> QED BY <2>1, <2>2 DEF Arrive, Buffer, enqueueFrame
<1>5. queue' \in [Conns -> Seq(Frame)] /\ \A d \in Conns : queue'[d] # queue[d] => phase[d] = "up"
  <2>1. CASE queue' = queue
    BY <2>1 DEF Types, FrameTypes
  <2>2. CASE queue' = [queue EXCEPT ![c] = Append(queue[c], f)] /\ phase[c] = "up"
    <3>1. Append(queue[c], f) \in Seq(Frame)
      BY DEF Types, FrameTypes
    <3> QED BY <2>2, <3>1 DEF Types, FrameTypes
  <2> QED BY <2>1, <2>2 DEF Arrive, Buffer, enqueueFrame
<1>6. Identified'
  BY <1>5 DEF Types, Identified, Arrive
<1> QED BY <1>2, <1>3, <1>4, <1>5, <1>6 DEF Types, FrameTypes, Arrive, cleanup, disposal

LEMMA HandlerTypes ==
  ASSUME Types, NEW c \in Conns, NEW i \in DOMAIN queue[c], HandlerReturns(c, i)
  PROVE  Types'
<1>1. queue[c] \in Seq(Frame) /\ queue[c] # <<>> /\ queue[c][i] \in Frame
  BY DEF Types, FrameTypes
<1>2. id[c] \in Ids
  BY <1>1 DEF Types, Identified
<1>3. queue' = [queue EXCEPT ![c] = Without(queue[c], i)] /\ Without(queue[c], i) \in Seq(Frame)
  BY <1>1, WithoutOne DEF HandlerReturns, Handle, Without
<1>4. FrameTypes'
  BY <1>3 DEF Types, FrameTypes, HandlerReturns
<1>5. known' \in [Names -> SUBSET Ids]
  BY <1>1, <1>2 DEF HandlerReturns, Handle, Types, Frame
<1>6. Identified'
  BY <1>2, <1>3 DEF Types, FrameTypes, Identified, HandlerReturns, wire
<1> QED BY <1>4, <1>5, <1>6 DEF Types, HandlerReturns, wire, cleanup, disposal

LEMMA TypesStep ==
  ASSUME Types, RegistryType, Tracked, Hooks, [Next]_vars
  PROVE  Types'
<1>1. ASSUME NEW c \in Conns, Upgrade(c) PROVE Types'
  BY <1>1 DEF Upgrade, Types, FrameTypes, Identified, frames, cleanup, disposal, RegistryType
<1>2. ASSUME NEW c \in Conns, AuthReturns(c) PROVE Types'
  <2>1. UNCHANGED <<heartbeat, frames, cleanup, disposal, known>> /\ phase[c] = "auth"
    BY <1>2 DEF AuthReturns, Deny, Register
  <2>2. Identified'
    BY <1>2, <2>1 DEF AuthReturns, Deny, Register, Types, Identified, frames, RegistryType
  <2> QED BY <2>1, <2>2 DEF Types, FrameTypes, frames, cleanup, disposal
<1>3. ASSUME NEW c \in Conns, BeforeReturns(c) \/ ConnectHookReturns(c) PROVE Types'
  <2>1. connected[c] \in 0 .. Len(Services)
    BY DEF Hooks
  <2> QED BY <1>3, <2>1, RollbackTypes, GoOnTypes DEF BeforeReturns, ConnectHookReturns
<1>4. ASSUME NEW c \in Conns, NEW f \in Frame, Arrive(c, f) PROVE Types'
  BY <1>4, ArriveTypes
<1>5. ASSUME NEW c \in Conns, NEW i \in DOMAIN queue[c], HandlerReturns(c, i) PROVE Types'
  BY <1>5, HandlerTypes
<1>6. ASSUME NEW c \in Conns, SocketError(c) \/ SocketClosed(c) PROVE Types'
  <2>1. UNCHANGED <<id, heartbeat, frames, cleanup, disposal, known>> /\ handleClose(c)
    BY <1>6 DEF SocketError, SocketClosed
  <2>2. Identified'
    BY <2>1 DEF handleClose, Types, Identified, frames, RegistryType, Tracked
  <2> QED BY <2>1, <2>2 DEF Types, FrameTypes, frames, cleanup, disposal
<1>7. ASSUME NEW c \in Conns, Drained(c) \/ DrainTimeout(c) PROVE Types'
  <2>1. CleanUp(c) /\ phase[c] = "draining" /\ late' \in {late, late \cup {c}}
    BY <1>7 DEF Drained, DrainTimeout
  <2>2. Append(Services, Host) \in Seq(Names \cup {Host})
    <3>1. Services \in Seq(Names \cup {Host})
      BY WsAssumption
    <3> QED BY <3>1
  <2>3. Identified'
    BY <2>1 DEF CleanUp, Types, Identified, frames, RegistryType
  <2> QED BY <2>1, <2>2, <2>3 DEF CleanUp, Types, FrameTypes, frames, disposal
<1>8. ASSUME NEW c \in Conns, DisconnectHookReturns(c) PROVE Types'
  <2>1. phase[c] \in {"cleaning", "rollback"} /\ UNCHANGED <<id, heartbeat, frames, late, disposal>>
    BY <1>8 DEF DisconnectHookReturns
  <2>2. todo[c] # <<>>
    <3>1. PICK k \in 0 .. connected[c] : Left(todo[c], k, connected[c])
      BY <2>1 DEF Hooks
    <3>2. connected[c] \in Nat
      BY ServicesAre DEF Hooks
    <3> QED BY <3>1, <3>2 DEF Left
  <2>3. todo' \in [Conns -> Seq(Names \cup {Host})]
    <3>1. Tail(todo[c]) \in Seq(Names \cup {Host})
      BY <2>2 DEF Types
    <3> QED BY <1>8, <3>1 DEF DisconnectHookReturns, Types
  <2>4. known' \in [Names -> SUBSET Ids]
    BY <1>8 DEF DisconnectHookReturns, Types
  <2>5. Identified'
    <3>1. \A d \in Conns \ {c} : phase'[d] = phase[d]
      BY <1>8 DEF DisconnectHookReturns, AfterHooks, RegistryType
    <3>2. id[c] \in Ids
      BY <2>1 DEF Types, Identified
    <3> QED BY <2>1, <3>1, <3>2 DEF Types, Identified, frames
  <2> QED BY <2>1, <2>3, <2>4, <2>5 DEF Types, FrameTypes, frames, disposal
<1>9. CASE Dispose
  BY <1>9 DEF Dispose, Types, FrameTypes, Identified, frames, cleanup
<1>10. CASE SocketsClosed \/ RegistrationsSettled \/ CleanupsSettled
  BY <1>10 DEF SocketsClosed, RegistrationsSettled, CleanupsSettled, wire, Types, FrameTypes,
               Identified, frames, cleanup
<1>11. CASE UNCHANGED vars
  BY <1>11 DEF vars, wire, Types, FrameTypes, Identified, frames, cleanup, disposal
<1> QED BY <1>1, <1>2, <1>3, <1>4, <1>5, <1>6, <1>7, <1>8, <1>9, <1>10, <1>11 DEF Next

LEMMA DisposalKept == Spec => []Disposal
<1>1. Init => Disposal
  BY DEF Init, Disposal, Registering, Closing
<1>2. RegistryType /\ Tracked /\ RegistryType' /\ Disposal /\ [Next]_vars => Disposal'
  BY DisposalStep
<1>3. Registrations => RegistryType
  BY DEF Registrations
<1> QED BY <1>1, <1>2, <1>3, RegistrationsKept, PTL DEF Spec

LEMMA TypesKept == Spec => []Types
<1>1. Registrations /\ Tracked /\ Hooks /\ Types /\ [Next]_vars => Types'
  BY TypesStep DEF Registrations
<1> QED BY <1>1, TypesInit, RegistrationsKept, HooksKept, PTL DEF Spec

\* The handler's registers keep their types: a buffer never holds more frames
\* than its bound, and every id a service is told of is one that was given out.
THEOREM Typed == Spec => []TypeOK
<1>1. Registrations /\ Tracked /\ Disposal /\ Hooks /\ Types => TypeOK
  BY DEF Registrations, RegistryType, Tracked, Disposal, Hooks, Types, FrameTypes, TypeOK
<1> QED BY <1>1, RegistrationsKept, DisposalKept, HooksKept, TypesKept, PTL

-----------------------------------------------------------------------------
(* Ghosts                                                                  *)

\* generateClientId never repeats an id.
NeverReused == \A c, d \in Conns : id[c] = id[d] /\ id[c] # NoId => c = d

\* The phases of a connection that has, or had, an id.
Named == {"before", "connecting", "up", "draining", "cleaning", "rollback", "done"}

\* What still runs for a connection, and who may know it then: nothing is
\* queued before it is up nor after it was drained, and whoever knows it is
\* told of its end by a hook that has yet to return.
Knowable(c) ==
    /\ phase[c] \in {"idle", "auth"} => id[c] = NoId
    /\ phase[c] \in Named => id[c] \in Ids
    /\ phase[c] \notin {"up", "draining"} /\ c \notin late =>
           queue[c] = <<>>
    /\ c \in late => phase[c] \in {"cleaning", "done"}
    /\ phase[c] = "before" => \A s \in Names : id[c] \notin known[s]
    /\ phase[c] = "connecting" => \A s \in Names : id[c] \in known[s] =>
           \E j \in 1 .. connected[c] : Services[j] = s
    /\ phase[c] \in {"cleaning", "rollback"} /\ c \notin late => \A s \in Names :
           id[c] \in known[s] => \E j \in DOMAIN todo[c] : todo[c][j] = s
    /\ phase[c] = "done" /\ c \notin late => \A s \in Names : id[c] \notin known[s]

Ghosts ==
    /\ known \in [Names -> SUBSET Ids]
    /\ DOMAIN queue = Conns
    /\ \A s \in Names : \A i \in known[s] : \E c \in Conns : id[c] = i
    /\ \A c \in Conns : Knowable(c)

\* The connection's part of the state.
Part(c) == <<phase[c], id[c], connected[c], todo[c], queue[c], c \in late>>

GhostContext == RegistryType /\ Hooks /\ Ghosts /\ NeverReused /\ NeverReused'

LEMMA PartStays ==
  ASSUME NEW d \in Conns, Knowable(d), UNCHANGED Part(d),
         \A s \in Names : id[d] \in known'[s] => id[d] \in known[s]
  PROVE  Knowable(d)'
BY DEF Knowable, Part

\* A step of one connection that keeps its id.
LEMMA OneMoves ==
  ASSUME GhostContext, NEW c \in Conns, id' = id, DOMAIN queue' = Conns,
         known' \in [Names -> SUBSET Ids],
         \A s \in Names : known'[s] \subseteq known[s] \cup {id[c]},
         phase[c] \in Named,
         \A d \in Conns \ {c} : UNCHANGED Part(d),
         Knowable(c)'
  PROVE  Ghosts'
<1>1. id[c] \in Ids
  BY DEF GhostContext, Ghosts, Knowable
<1>2. \A s \in Names : \A i \in known'[s] : \E d \in Conns : id'[d] = i
  BY DEF GhostContext, Ghosts
<1>3. ASSUME NEW d \in Conns PROVE Knowable(d)'
  <2>1. CASE d = c
    BY <2>1
  <2>2. CASE d # c
    <3>1. id[d] # id[c]
      BY <1>1, <2>2, WsAssumption DEF GhostContext, NeverReused
    <3>2. \A s \in Names : id[d] \in known'[s] => id[d] \in known[s]
      BY <3>1
    <3> QED BY <2>2, <3>2, PartStays DEF GhostContext, Ghosts
  <2> QED BY <2>1, <2>2
<1> QED BY <1>2, <1>3 DEF Ghosts

\* A step that touches phases of connections without a name only, or none.
LEMMA NoneMoves ==
  ASSUME Ghosts, UNCHANGED <<known, queue, id>>, \A c \in Conns : Knowable(c)'
  PROVE  Ghosts'
BY DEF Ghosts

LEMMA GhostsStep ==
  ASSUME GhostContext, Hooks', Registrations, Tracked, [Next]_vars
  PROVE  Ghosts'
<1> USE DEF GhostContext, RegistryType
<1>1. ASSUME NEW c \in Conns, Upgrade(c) PROVE Ghosts'
  <2>1. \A d \in Conns \ {c} : UNCHANGED Part(d)
    BY <1>1 DEF Upgrade, Part, frames, cleanup
  <2>2. Knowable(c)'
    BY <1>1 DEF Upgrade, Knowable, Ghosts, Named, frames, cleanup
  <2>3. UNCHANGED <<known, queue, id>>
    BY <1>1 DEF Upgrade, frames
  <2> QED BY <2>1, <2>2, <2>3, PartStays, NoneMoves DEF Ghosts
<1>2. ASSUME NEW c \in Conns, AuthReturns(c) PROVE Ghosts'
  <2>1. /\ UNCHANGED <<known, queue, connected, todo, late>> /\ phase[c] = "auth"
        /\ \A d \in Conns \ {c} : phase'[d] = phase[d] /\ id'[d] = id[d]
    BY <1>2 DEF AuthReturns, Deny, Register, frames, cleanup
  <2>2. \A d \in Conns \ {c} : Knowable(d)'
    BY <2>1, PartStays DEF Part, Ghosts
  <2>3. CASE id' = id /\ phase'[c] = "refused"
    <3>1. Knowable(c)'
      BY <2>1, <2>3 DEF Knowable, Ghosts, Named
    <3> QED BY <2>1, <2>2, <2>3, <3>1, NoneMoves
  <2>4. ASSUME NEW i \in Ids, id' = [id EXCEPT ![c] = i], phase'[c] = "before" PROVE Ghosts'
    <3>1. \A d \in Conns \ {c} : id[d] # i
      BY <2>4, WsAssumption DEF NeverReused
    <3>2. \A s \in Names : i \notin known[s]
      <4> SUFFICES ASSUME NEW s \in Names, i \in known[s] PROVE FALSE
        OBVIOUS
      <4>1. PICK d \in Conns : id[d] = i
        BY DEF Ghosts
      <4>2. id[c] = NoId /\ d = c
        BY <2>1, <3>1, <4>1 DEF Ghosts, Knowable
      <4> QED BY <4>1, <4>2, WsAssumption
    <3>3. Knowable(c)'
      BY <2>1, <2>4, <3>2 DEF Knowable, Ghosts, Named
    <3>4. \A s \in Names : \A j \in known'[s] : \E d \in Conns : id'[d] = j
      <4> SUFFICES ASSUME NEW s \in Names, NEW j \in known[s]
                   PROVE  \E d \in Conns : id'[d] = j
        BY <2>1
      <4>1. PICK d \in Conns : id[d] = j
        BY DEF Ghosts
      <4>2. j \in Ids /\ id[c] = NoId
        BY <2>1 DEF Ghosts, Knowable
      <4> QED BY <2>1, <4>1, <4>2, WsAssumption
    <3> QED BY <2>1, <2>2, <3>3, <3>4 DEF Ghosts
  <2> QED BY <1>2, <2>3, <2>4 DEF AuthReturns, Deny, Register
<1>3. ASSUME NEW c \in Conns, BeforeReturns(c) \/ ConnectHookReturns(c) PROVE Ghosts'
  <2>1. /\ phase[c] \in {"before", "connecting"} /\ c \notin late
        /\ queue[c] = <<>>
        /\ \A s \in Names : id[c] \in known[s] => \E j \in 1 .. connected[c] : Services[j] = s
    BY <1>3 DEF BeforeReturns, ConnectHookReturns, Ghosts, Knowable
  <2>2. id[c] \in Ids /\ connected[c] \in 0 .. Len(Services)
    BY <2>1 DEF Ghosts, Knowable, Named, Hooks
  <2>3. CASE Rollback(c)
    <3>1. \A j \in 1 .. connected[c] : \E m \in DOMAIN todo'[c] : todo'[c][m] = Services[j]
      <4>1. Left(todo'[c], 0, connected[c])
        BY <2>2, <2>3, LeftAtFirst DEF Rollback, Hooks
      <4>2. \A j \in 1 .. connected[c] : todo'[c][j] = Services[j] /\ j \in DOMAIN todo'[c]
        BY <2>2, <4>1, ServicesAre DEF Left
      <4> QED BY <4>2
    <3>2. Knowable(c)'
      <4>1. /\ phase'[c] = "rollback" /\ id' = id /\ known' = known /\ late' = late
            /\ queue'[c] = <<>>
        BY <2>1, <2>3 DEF Rollback
      <4>2. \A s \in Names : id[c] \in known[s] => \E j \in DOMAIN todo'[c] : todo'[c][j] = s
        BY <2>1, <3>1
      <4> QED BY <2>1, <2>2, <4>1, <4>2 DEF Knowable
    <3>3. \A d \in Conns \ {c} : UNCHANGED Part(d)
      BY <2>3 DEF Rollback, Part
    <3> QED BY <2>1, <2>3, <3>2, <3>3, OneMoves DEF Rollback, Named, Ghosts
  <2>4. CASE TellNext(c) /\ connected[c] < Len(Services)
    <3>1. /\ Services[connected[c] + 1] \in Names /\ connected'[c] = connected[c] + 1
          /\ known' = [known EXCEPT ![Services[connected[c] + 1]] = @ \cup {id[c]}]
      BY <2>2, <2>4, ServicesAre DEF TellNext, Hooks
    <3>2. ASSUME NEW s \in Names, id[c] \in known'[s]
          PROVE  \E j \in 1 .. connected'[c] : Services[j] = s
      <4>1. CASE s = Services[connected[c] + 1]
        BY <2>2, <3>1, <4>1, ServicesAre
      <4>2. CASE s # Services[connected[c] + 1]
        <5>1. PICK j \in 1 .. connected[c] : Services[j] = s
          BY <2>1, <3>1, <3>2, <4>2 DEF Ghosts
        <5> QED BY <2>2, <3>1, <5>1, ServicesAre
      <4> QED BY <4>1, <4>2
    <3>3. Knowable(c)'
      BY <2>1, <2>2, <2>4, <3>2 DEF TellNext, Knowable, frames, cleanup
    <3>4. \A d \in Conns \ {c} : UNCHANGED Part(d)
      BY <2>4 DEF TellNext, Part, frames, cleanup
    <3> QED BY <2>1, <2>2, <2>4, <3>1, <3>3, <3>4, OneMoves DEF TellNext, Named, Ghosts, frames
  <2>5. CASE Attach(c)
    <3>1. Knowable(c)'
      BY <2>1, <2>2, <2>5 DEF Attach, Knowable
    <3>2. \A d \in Conns \ {c} : UNCHANGED Part(d)
      BY <2>5 DEF Attach, Part
    <3> QED BY <2>1, <2>5, <3>1, <3>2, OneMoves DEF Attach, Named, Ghosts
  <2> QED BY <1>3, <2>3, <2>4, <2>5 DEF BeforeReturns, ConnectHookReturns, GoOn
<1>4. ASSUME NEW c \in Conns, NEW f \in Frame, Arrive(c, f) PROVE Ghosts'
  <2>1. UNCHANGED <<id, phase, connected, todo, late, known>>
    BY <1>4 DEF Arrive, cleanup
  <2>2. /\ DOMAIN queue' = Conns
        /\ \A d \in Conns : phase[d] # "up" => queue'[d] = queue[d]
    BY <1>4 DEF Arrive, Buffer, enqueueFrame, Ghosts
  <2>3. \A d \in Conns : Knowable(d)'
    BY <2>1, <2>2 DEF Ghosts, Knowable
  <2> QED BY <2>1, <2>2, <2>3 DEF Ghosts
<1>5. ASSUME NEW c \in Conns, NEW i \in DOMAIN queue[c], HandlerReturns(c, i) PROVE Ghosts'
  <2>1. /\ UNCHANGED <<wire, late, todo>> /\ queue[c] # <<>>
        /\ known' \in [Names -> SUBSET Ids]
        /\ \A s \in Names : known'[s] \subseteq known[s] \cup {id[c]}
        /\ DOMAIN queue' = Conns
        /\ \A d \in Conns \ {c} : queue'[d] = queue[d]
    <3>1. queue[c] # <<>>
      OBVIOUS
    <3>2. phase[c] \in {"up", "draining", "cleaning", "done"}
      BY <3>1 DEF Ghosts, Knowable
    <3>3. id[c] \in Ids
      BY <3>2 DEF Ghosts, Knowable, Named
    <3>4. /\ known' \in [Names -> SUBSET Ids]
          /\ \A s \in Names : known'[s] \subseteq known[s] \cup {id[c]}
      BY <1>5, <3>3 DEF HandlerReturns, Handle, Ghosts
    <3>5. DOMAIN queue' = Conns /\ \A d \in Conns \ {c} : queue'[d] = queue[d]
      BY <1>5 DEF HandlerReturns, Handle, Ghosts
    <3> QED BY <1>5, <3>1, <3>4, <3>5 DEF HandlerReturns, cleanup
  <2>2. phase[c] \in {"up", "draining"} \/ c \in late
    BY <2>1 DEF Ghosts, Knowable
  <2>3. Knowable(c)'
    BY <2>1, <2>2 DEF Ghosts, Knowable, wire
  <2>4. \A d \in Conns \ {c} : UNCHANGED Part(d)
    BY <2>1 DEF wire, Part
  <2>5. phase[c] \in Named
    BY <2>2 DEF Ghosts, Knowable, Named
  <2> QED BY <2>1, <2>3, <2>4, <2>5, OneMoves DEF wire
<1>6. ASSUME NEW c \in Conns, SocketError(c) \/ SocketClosed(c) PROVE Ghosts'
  <2>1. /\ UNCHANGED <<id, connected, queue, todo, late, known>>
        /\ \A d \in Conns \ {c} : phase'[d] = phase[d]
        /\ phase'[c] = phase[c] \/ (phase[c] = "up" /\ phase'[c] = "draining")
    <3>1. UNCHANGED <<id, connected, queue, todo, late, known>> /\ handleClose(c)
      BY <1>6 DEF SocketError, SocketClosed, frames, cleanup
    <3>2. c \in tracked /\ phase[c] \notin {"before", "connecting"} => phase[c] = "up"
      BY DEF Tracked
    <3> QED BY <3>1, <3>2 DEF handleClose
  <2>2. \A d \in Conns : Knowable(d)'
    BY <2>1 DEF Ghosts, Knowable, Named
  <2> QED BY <2>1, <2>2, NoneMoves
<1>7. ASSUME NEW c \in Conns, Drained(c) \/ DrainTimeout(c) PROVE Ghosts'
  <2>1. /\ CleanUp(c) /\ phase[c] = "draining"
        /\ \/ late' = late /\ queue[c] = <<>>
           \/ late' = late \cup {c}
    BY <1>7 DEF Drained, DrainTimeout, FramesSettled
  <2>2. \A s \in Names : \E j \in DOMAIN todo'[c] : todo'[c][j] = s
    <3>1. SubSeq(Services, 1, Len(Services)) = Services
      BY WsAssumption
    <3>2. Left(todo'[c], 0, Len(Services))
      <4>1. todo'[c] = Append(Services, Host)
        BY <2>1 DEF CleanUp, Hooks
      <4>2. Len(Services) \in 0 .. Len(Services)
        BY ServicesAre
      <4> QED BY <3>1, <4>1, <4>2, LeftAtFirst
    <3>3. \A j \in DOMAIN Services : todo'[c][j] = Services[j] /\ j \in DOMAIN todo'[c]
      BY <3>2, ServicesAre DEF Left
    <3> QED BY <3>3, ServicesAre
  <2>3. Knowable(c)'
    BY <2>1, <2>2 DEF CleanUp, Ghosts, Knowable, Named, frames
  <2>4. \A d \in Conns \ {c} : UNCHANGED Part(d)
    BY <2>1 DEF CleanUp, Part, frames
  <2> QED BY <2>1, <2>3, <2>4, OneMoves DEF CleanUp, Named, Ghosts, frames
<1>8. ASSUME NEW c \in Conns, DisconnectHookReturns(c) PROVE Ghosts'
  <2>1. phase[c] \in {"cleaning", "rollback"} /\ phase'[c] \in {phase[c], "done"}
    BY <1>8 DEF DisconnectHookReturns, AfterHooks
  <2>2. PICK k \in 0 .. connected[c] : Left(todo[c], k, connected[c])
    BY <2>1 DEF Hooks
  <2>3. connected[c] \in Nat /\ connected[c] <= Len(Services)
    BY ServicesAre DEF Hooks
  <2>4. /\ Head(todo[c]) = Host <=> k = connected[c]
        /\ k < connected[c] => Head(todo[c]) = Services[k + 1]
                               /\ Left(Tail(todo[c]), k + 1, connected[c])
    BY <2>2, <2>3, LeftNext
  <2>5. \A j \in DOMAIN todo[c] : todo[c][j] = IF j <= connected[c] - k THEN Services[k + j] ELSE Host
    <3>1. DOMAIN todo[c] = 1 .. connected[c] - k + 1
      BY <2>2, <2>3 DEF Left
    <3> SUFFICES ASSUME NEW j \in 1 .. connected[c] - k + 1
                 PROVE  todo[c][j] = IF j <= connected[c] - k THEN Services[k + j] ELSE Host
      BY <3>1
    <3>2. CASE j <= connected[c] - k
      <4>1. j \in 1 .. connected[c] - k
        BY <2>3, <3>2
      <4> QED BY <2>2, <3>2, <4>1 DEF Left
    <3>3. CASE ~(j <= connected[c] - k)
      <4>1. j = connected[c] - k + 1
        BY <2>3, <3>3
      <4> QED BY <2>2, <3>3, <4>1 DEF Left
    <3> QED BY <3>2, <3>3
  <2>6. /\ UNCHANGED <<id, connected, queue, late>>
        /\ \A d \in Conns \ {c} : UNCHANGED Part(d)
        /\ todo'[c] = Tail(todo[c])
    BY <1>8 DEF DisconnectHookReturns, AfterHooks, Part, frames, Hooks
  <2>7. CASE Head(todo[c]) = Host
    <3>1. known' = known /\ phase'[c] = "done" /\ k = connected[c]
      BY <1>8, <2>4, <2>7 DEF DisconnectHookReturns, AfterHooks
    <3>2. \A j \in DOMAIN todo[c] : todo[c][j] = Host
      BY <2>2, <2>3, <2>5, <3>1 DEF Left
    <3>3. c \notin late => \A s \in Names : id[c] \notin known[s]
      BY <2>1, <3>2, WsAssumption DEF Ghosts, Knowable
    <3>4. Knowable(c)'
      BY <2>1, <2>6, <3>1, <3>3 DEF Ghosts, Knowable, Named
    <3> QED BY <2>1, <2>6, <3>1, <3>4, OneMoves DEF Ghosts, Named
  <2>8. CASE Head(todo[c]) # Host
    <3>1. /\ k < connected[c] /\ phase' = phase
          /\ known' = [known EXCEPT ![Services[k + 1]] = @ \ {id[c]}]
          /\ Services[k + 1] \in Names
      BY <1>8, <2>2, <2>3, <2>4, <2>8, ServicesAre DEF DisconnectHookReturns
    <3>2. ASSUME NEW s \in Names, id[c] \in known'[s], c \notin late
          PROVE  \E j \in DOMAIN todo'[c] : todo'[c][j] = s
      <4>1. s # Services[k + 1] /\ id[c] \in known[s]
        BY <3>1, <3>2 DEF Ghosts
      <4>2. PICK j \in DOMAIN todo[c] : todo[c][j] = s
        BY <2>1, <3>2, <4>1 DEF Ghosts, Knowable
      <4>3. j # 1 /\ j \in 1 .. Len(todo[c]) /\ todo[c] # <<>> /\ todo[c] \in Seq(Names \cup {Host})
        BY <2>2, <2>3, <2>5, <3>1, <4>1, <4>2 DEF Left
      <4>4. j - 1 \in DOMAIN Tail(todo[c]) /\ Tail(todo[c])[j - 1] = todo[c][j]
        BY <4>3
      <4> QED BY <2>6, <4>2, <4>4
    <3>3. Knowable(c)'
      BY <2>1, <2>6, <3>1, <3>2 DEF Ghosts, Knowable, Named
    <3>4. known' \in [Names -> SUBSET Ids] /\ \A s \in Names : known'[s] \subseteq known[s]
      BY <3>1 DEF Ghosts
    <3> QED BY <2>1, <2>6, <3>3, <3>4, OneMoves DEF Ghosts, Named
  <2> QED BY <2>7, <2>8
<1>9. ASSUME UNCHANGED <<phase, id, connected, queue, todo, late, known>> PROVE Ghosts'
  <2>1. \A d \in Conns : Knowable(d)'
    BY <1>9 DEF Ghosts, Knowable
  <2> QED BY <1>9, <2>1, NoneMoves
<1> QED BY <1>1, <1>2, <1>3, <1>4, <1>5, <1>6, <1>7, <1>8, <1>9
        DEF Next, vars, wire, frames, cleanup, Dispose, SocketsClosed, RegistrationsSettled,
            CleanupsSettled

\* If ids are never reused, then once a connection's cleanup is over no
\* service knows its client any more, unless a handler outlived the drain:
\* for any services, lanes, frames and interleavings of their handlers.
THEOREM NoGhostsLeft == Spec /\ []NeverReused => []NoGhosts
<1>1. Init => Ghosts
  BY DEF Init, Ghosts, Knowable, Named
<1>2. /\ Registrations /\ Tracked /\ Hooks /\ Hooks' /\ Ghosts /\ NeverReused /\ NeverReused'
      /\ [Next]_vars
      => Ghosts'
  BY GhostsStep DEF GhostContext, Registrations
<1>3. Ghosts => NoGhosts
  BY DEF Ghosts, Knowable, NoGhosts
<1> QED BY <1>1, <1>2, <1>3, RegistrationsKept, HooksKept, PTL DEF Spec

-----------------------------------------------------------------------------
(* The order of frames                                                     *)

NoneOf(q, s) == \A i \in DOMAIN q : q[i].service # s

\* The last frame of s in q, if there is one, is an op.
Latest(q, s, op) ==
    \A i \in DOMAIN q :
        q[i].service = s /\ (\A j \in DOMAIN q : j > i => q[j].service # s) => q[i].op = op

\* A service is where the last frame left it once its frames are handled: it
\* knew the client before the first one, and the last one is still to come or
\* was the last to be handled.
Following(c) ==
    /\ phase[c] \in {"idle", "auth"} =>
           early[c] = <<>> /\ queue[c] = <<>> /\ \A s \in Names : last[c][s] = "join"
    /\ phase[c] \in {"before", "connecting"} => \A s \in Names :
           /\ Latest(early[c], s, last[c][s])
           /\ NoneOf(early[c], s) => last[c][s] = "join"
    /\ phase[c] = "connecting" =>
           \A j \in 1 .. connected[c] : id[c] \in known[Services[j]]
    /\ phase[c] = "up" => \A s \in Names :
           /\ Latest(queue[c], s, last[c][s])
           /\ NoneOf(queue[c], s) => (id[c] \in known[s] <=> last[c][s] = "join")

Follows == \A c \in Conns : Following(c)

LEMMA Appended ==
  ASSUME NEW q \in Seq(Frame), NEW f \in Frame, NEW s, NEW op
  PROVE  /\ Latest(Append(q, f), f.service, f.op)
         /\ s # f.service /\ Latest(q, s, op) => Latest(Append(q, f), s, op)
         /\ NoneOf(Append(q, f), s) => s # f.service /\ NoneOf(q, s)
<1> DEFINE r == Append(q, f)
           n == Len(q) + 1
<1>1. /\ n \in DOMAIN r /\ r[n] = f /\ DOMAIN r = 1 .. n
      /\ \A i \in DOMAIN q : i \in DOMAIN r /\ r[i] = q[i] /\ i < n
      /\ \A i \in DOMAIN r : i = n \/ i \in DOMAIN q
  OBVIOUS
<1> HIDE DEF r, n
<1>2. Latest(r, f.service, f.op)
  BY <1>1 DEF Latest
<1>3. s # f.service /\ Latest(q, s, op) => Latest(r, s, op)
  BY <1>1 DEF Latest
<1>4. NoneOf(r, s) => s # f.service /\ NoneOf(q, s)
  BY <1>1 DEF NoneOf
<1> QED BY <1>2, <1>3, <1>4 DEF r

\* Taking out the first frame of a lane leaves the last frame of every service,
\* unless it was the only one of its own.
LEMMA TakenOut ==
  ASSUME NEW q \in Seq(Frame), NEW i \in DOMAIN q, NEW s, NEW op, Latest(q, s, op),
         \A j \in 1 .. i - 1 : q[j].service # q[i].service
  PROVE  /\ Latest(Without(q, i), s, op)
         /\ NoneOf(Without(q, i), s) =>
                IF s = q[i].service THEN q[i].op = op ELSE NoneOf(q, s)
<1> DEFINE r == Without(q, i)
<1>1. /\ i \in 1 .. Len(q) /\ Len(q) \in Nat
      /\ DOMAIN q = 1 .. Len(q) /\ DOMAIN r = 1 .. Len(q) - 1
      /\ \A j \in DOMAIN r : r[j] = IF j < i THEN q[j] ELSE q[j + 1]
  <2>1. r \in Seq(Frame) /\ Len(r) = Len(q) - 1
    BY WithoutOne
  <2>2. \A j \in DOMAIN r : r[j] = IF j < i THEN q[j] ELSE q[j + 1]
    BY WithoutOne
  <2> HIDE DEF r
  <2> QED BY <2>1, <2>2
<1> HIDE DEF r
<1>2. ASSUME NEW j \in DOMAIN q, j # i
      PROVE  \E k \in DOMAIN r : r[k] = q[j] /\ k = IF j < i THEN j ELSE j - 1
  <2>1. CASE j < i
    <3>1. j \in DOMAIN r /\ r[j] = q[j]
      BY <1>1, <2>1
    <3> QED BY <2>1, <3>1
  <2>2. CASE j > i
    <3>1. j - 1 \in DOMAIN r /\ ~(j - 1 < i) /\ (j - 1) + 1 = j
      BY <1>1, <2>2
    <3>2. r[j - 1] = q[j]
      BY <1>1, <3>1
    <3> QED BY <1>1, <2>2, <3>1, <3>2
  <2> QED BY <1>1, <1>2, <2>1, <2>2
<1>3. Latest(r, s, op)
  <2> SUFFICES ASSUME NEW k \in DOMAIN r, r[k].service = s,
                      \A j \in DOMAIN r : j > k => r[j].service # s
               PROVE  r[k].op = op
    BY DEF Latest
  <2> DEFINE m == IF k < i THEN k ELSE k + 1
  <2>1. m \in DOMAIN q /\ m # i /\ r[k] = q[m]
    BY <1>1
  <2>2. ASSUME NEW j \in DOMAIN q, j > m PROVE q[j].service # s
    <3>1. CASE j = i
      <4>1. m \in 1 .. i - 1
        BY <1>1, <2>1, <2>2, <3>1
      <4> QED BY <2>1, <3>1, <4>1
    <3>2. CASE j # i
      <4>1. PICK l \in DOMAIN r : r[l] = q[j] /\ l = IF j < i THEN j ELSE j - 1
        BY <1>2, <3>2
      <4>2. l > k
        BY <1>1, <2>2, <3>2, <4>1
      <4> QED BY <4>1, <4>2
    <3> QED BY <3>1, <3>2
  <2> HIDE DEF m
  <2> QED BY <2>1, <2>2 DEF Latest
<1>4. ASSUME NoneOf(r, s) PROVE \A j \in DOMAIN q : j # i => q[j].service # s
  <2> SUFFICES ASSUME NEW j \in DOMAIN q, j # i PROVE q[j].service # s
    OBVIOUS
  <2>1. PICK k \in DOMAIN r : r[k] = q[j]
    BY <1>2
  <2> QED BY <1>4, <2>1 DEF NoneOf
<1>5. NoneOf(r, s) => IF s = q[i].service THEN q[i].op = op ELSE NoneOf(q, s)
  <2>1. ASSUME NoneOf(r, s), s = q[i].service PROVE q[i].op = op
    <3>1. \A j \in DOMAIN q : j > i => q[j].service # s
      BY <1>1, <1>4, <2>1
    <3> QED BY <2>1, <3>1 DEF Latest
  <2>2. ASSUME NoneOf(r, s), s # q[i].service PROVE NoneOf(q, s)
    BY <1>4, <2>2 DEF NoneOf
  <2> QED BY <2>1, <2>2
<1> QED BY <1>3, <1>5 DEF r

\* The connection's part of the state, with its frames.
Course(c) == <<phase[c], id[c], connected[c], early[c], queue[c], last[c]>>

LEMMA CourseStays ==
  ASSUME NEW d \in Conns, Following(d), UNCHANGED Course(d),
         phase[d] \in {"connecting", "up"} =>
             \A s \in Names : id[d] \in known'[s] <=> id[d] \in known[s],
         connected[d] \in 0 .. Len(Services)
  PROVE  Following(d)'
<1>1. \A j \in 1 .. connected[d] : Services[j] \in Names
  BY ServicesAre
<1> QED BY <1>1 DEF Following, Course

FollowContext == RegistryType /\ Hooks /\ Ghosts /\ Types /\ NeverReused /\ NeverReused' /\ Follows

\* A step of one connection: what it tells the services is about its own id.
LEMMA OneFollows ==
  ASSUME FollowContext, NEW c \in Conns, id[c] \in Ids,
         \A s \in Names : known'[s] \ {id[c]} = known[s] \ {id[c]},
         \A d \in Conns \ {c} : UNCHANGED Course(d),
         Following(c)'
  PROVE  Follows'
<1>1. ASSUME NEW d \in Conns \ {c} PROVE Following(d)'
  <2>1. connected[d] \in 0 .. Len(Services) /\ Following(d)
    BY DEF FollowContext, Hooks, Follows
  <2>2. phase[d] \in {"connecting", "up"} => id[d] \in Ids
    BY DEF FollowContext, Types, Identified
  <2>3. id[d] # id[c] \/ phase[d] \notin {"connecting", "up"}
    BY <2>2, WsAssumption DEF FollowContext, NeverReused
  <2>4. phase[d] \in {"connecting", "up"} =>
            \A s \in Names : id[d] \in known'[s] <=> id[d] \in known[s]
    BY <2>3
  <2> QED BY <2>1, <2>4, CourseStays
<1> QED BY <1>1 DEF Follows

\* A step that tells the services nothing.
LEMMA NoneFollows ==
  ASSUME FollowContext, NEW c \in Conns, known' = known,
         \A d \in Conns \ {c} : UNCHANGED Course(d),
         Following(c)'
  PROVE  Follows'
<1>1. ASSUME NEW d \in Conns \ {c} PROVE Following(d)'
  <2>1. connected[d] \in 0 .. Len(Services) /\ Following(d)
    BY DEF FollowContext, Hooks, Follows
  <2> QED BY <2>1, CourseStays
<1> QED BY <1>1 DEF Follows

LEMMA GoOnFollows ==
  ASSUME FollowContext, NEW c \in Conns, phase[c] \in {"before", "connecting"}, GoOn(c)
  PROVE  Follows'
<1>1. /\ id[c] \in Ids /\ queue[c] = <<>> /\ phase \in [Conns -> Phases]
      /\ connected \in [Conns -> 0 .. Len(Services)] /\ known \in [Names -> SUBSET Ids]
      /\ early \in [Conns -> Seq(Frame)] /\ queue \in [Conns -> Seq(Frame)]
  BY DEF FollowContext, Types, Identified, FrameTypes, Ghosts, Knowable, Hooks, RegistryType
<1>2. \A j \in 1 .. connected[c] : id[c] \in known[Services[j]]
  BY DEF FollowContext, Follows, Following, Hooks
<1>3. \A s \in Names : /\ Latest(early[c], s, last[c][s])
                       /\ NoneOf(early[c], s) => last[c][s] = "join"
  BY DEF FollowContext, Follows, Following
<1>4. CASE TellNext(c) /\ connected[c] < Len(Services)
  <2>1. /\ phase'[c] = "connecting" /\ UNCHANGED <<id, early, queue, last>>
        /\ connected'[c] = connected[c] + 1
        /\ known' = [known EXCEPT ![Services[connected[c] + 1]] = @ \cup {id[c]}]
        /\ \A d \in Conns \ {c} : UNCHANGED Course(d)
    BY <1>1, <1>4 DEF TellNext, frames, Course
  <2>2. \A j \in 1 .. connected'[c] : id[c] \in known'[Services[j]]
    <3>1. ASSUME NEW j \in 1 .. connected'[c] PROVE id[c] \in known'[Services[j]]
      <4>1. Services[j] \in Names /\ connected[c] \in Nat
        BY <1>1, <1>4, <2>1, ServicesAre
      <4>2. j \in 1 .. connected[c] \/ j = connected[c] + 1
        BY <2>1, <4>1
      <4> QED BY <1>1, <1>2, <2>1, <4>1, <4>2
    <3> QED BY <3>1
  <2>3. Following(c)'
    BY <1>3, <2>1, <2>2 DEF Following
  <2>4. \A s \in Names : known'[s] \ {id[c]} = known[s] \ {id[c]}
    BY <1>1, <2>1
  <2> QED BY <1>1, <2>1, <2>3, <2>4, OneFollows
<1>5. CASE Attach(c) /\ ~(connected[c] < Len(Services))
  <2>1. /\ phase'[c] = "up" /\ UNCHANGED <<id, connected, last, known>>
        /\ queue'[c] = <<>> \o early[c]
        /\ \A d \in Conns \ {c} : UNCHANGED Course(d)
    BY <1>1, <1>5 DEF Attach, Course
  <2>2. queue'[c] = early[c]
    BY <1>1, <2>1
  <2>3. \A s \in Names : id[c] \in known[s]
    BY <1>1, <1>2, <1>5, ServicesAre
  <2>4. Following(c)'
    BY <1>3, <2>1, <2>2, <2>3 DEF Following
  <2> QED BY <2>1, <2>4, NoneFollows
<1> QED BY <1>4, <1>5 DEF GoOn

LEMMA ArriveFollows ==
  ASSUME FollowContext, NEW c \in Conns, NEW f \in Frame, Arrive(c, f)
  PROVE  Follows'
<1>1. /\ phase[c] \in {"before", "connecting", "up"}
      /\ UNCHANGED <<id, phase, connected, known>>
  BY DEF Arrive
<1>2. /\ early \in [Conns -> Seq(Frame)] /\ queue \in [Conns -> Seq(Frame)]
      /\ last \in [Conns -> [Names -> {"join", "leave"}]] /\ f.service \in Names
  BY DEF FollowContext, Types, FrameTypes, Frame
<1>3. Following(c) /\ early[c] \in Seq(Frame) /\ queue[c] \in Seq(Frame)
  BY <1>2 DEF FollowContext, Follows
<1>4. CASE UNCHANGED <<early, queue, last>>
  <2>1. \A d \in Conns : Following(d)'
    BY <1>1, <1>4 DEF FollowContext, Follows, Following
  <2> QED BY <2>1 DEF Follows
<1>5. CASE /\ phase[c] # "up" /\ queue' = queue
           /\ early' = [early EXCEPT ![c] = Append(early[c], f)]
           /\ last' = [last EXCEPT ![c][f.service] = f.op]
  <2>1. /\ early'[c] = Append(early[c], f)
        /\ \A s \in Names : last'[c][s] = IF s = f.service THEN f.op ELSE last[c][s]
        /\ \A d \in Conns \ {c} : UNCHANGED Course(d)
    BY <1>1, <1>2, <1>5 DEF Course
  <2>2. ASSUME NEW s \in Names
        PROVE  /\ Latest(early'[c], s, last'[c][s])
               /\ NoneOf(early'[c], s) => last'[c][s] = "join"
    BY <1>1, <1>3, <1>5, <2>1, Appended DEF Following
  <2>3. Following(c)'
    BY <1>1, <1>3, <1>5, <2>2 DEF Following
  <2> QED BY <1>1, <2>1, <2>3, NoneFollows
<1>6. CASE /\ phase[c] = "up" /\ early' = early
           /\ queue' = [queue EXCEPT ![c] = Append(queue[c], f)]
           /\ last' = [last EXCEPT ![c][f.service] = f.op]
  <2>1. /\ queue'[c] = Append(queue[c], f)
        /\ \A s \in Names : last'[c][s] = IF s = f.service THEN f.op ELSE last[c][s]
        /\ \A d \in Conns \ {c} : UNCHANGED Course(d)
    BY <1>1, <1>2, <1>6 DEF Course
  <2>2. ASSUME NEW s \in Names
        PROVE  /\ Latest(queue'[c], s, last'[c][s])
               /\ NoneOf(queue'[c], s) => (id[c] \in known[s] <=> last'[c][s] = "join")
    BY <1>1, <1>3, <1>6, <2>1, Appended DEF Following
  <2>3. Following(c)'
    BY <1>1, <1>6, <2>2 DEF Following
  <2> QED BY <1>1, <2>1, <2>3, NoneFollows
<1> QED BY <1>1, <1>4, <1>5, <1>6 DEF Arrive, Buffer, enqueueFrame

LEMMA HandlerFollows ==
  ASSUME FollowContext, NEW c \in Conns, NEW i \in DOMAIN queue[c], HandlerReturns(c, i)
  PROVE  Follows'
<1> DEFINE q == queue[c]
           f == queue[c][i]
<1>1. q \in Seq(Frame) /\ q # <<>> /\ f \in Frame /\ f.service \in Names
  <2>1. q \in Seq(Frame)
    BY DEF FollowContext, Types, FrameTypes
  <2>2. f \in Frame
    BY <2>1
  <2> QED BY <2>1, <2>2 DEF Frame
<1>2. id[c] \in Ids
  BY <1>1 DEF FollowContext, Types, Identified
<1>3. UNCHANGED <<phase, id, connected, early, last>> /\ queue'[c] = Without(q, i)
  BY DEF HandlerReturns, Handle, wire, Without, FollowContext, Types, FrameTypes
<1>4. \A d \in Conns \ {c} : UNCHANGED Course(d)
  BY <1>3 DEF HandlerReturns, Handle, Course, FollowContext, Types, FrameTypes
<1>5. \A j \in 1 .. i - 1 : q[j].service # q[i].service
  BY DEF HandlerReturns, Started, LaneOf
<1>6. \A s \in Names :
        known'[s] = IF s # f.service THEN known[s]
                    ELSE IF f.op = "join" THEN known[s] \cup {id[c]} ELSE known[s] \ {id[c]}
  BY <1>1 DEF HandlerReturns, Handle, FollowContext, Types
<1>7. ASSUME phase[c] = "up", NEW s \in Names
      PROVE  /\ Latest(queue'[c], s, last[c][s])
             /\ NoneOf(queue'[c], s) => (id[c] \in known'[s] <=> last[c][s] = "join")
  <2>1. /\ Latest(q, s, last[c][s])
        /\ NoneOf(q, s) => (id[c] \in known[s] <=> last[c][s] = "join")
    BY <1>7 DEF FollowContext, Follows, Following
  <2>2. /\ Latest(Without(q, i), s, last[c][s])
        /\ NoneOf(Without(q, i), s) =>
               IF s = f.service THEN f.op = last[c][s] ELSE NoneOf(q, s)
    <3> HIDE DEF q
    <3> QED BY <1>1, <1>5, <2>1, TakenOut DEF q
  <2> QED BY <1>3, <1>6, <2>1, <2>2
<1>8. phase[c] \notin {"idle", "auth", "before", "connecting"}
  <2>1. phase[c] \in {"up", "draining"} \/ c \in late
    BY <1>1 DEF FollowContext, Ghosts, Knowable
  <2> QED BY <2>1 DEF FollowContext, Ghosts, Knowable
<1>9. Following(c)'
  BY <1>3, <1>7, <1>8 DEF Following
<1>10. \A s \in Names : known'[s] \ {id[c]} = known[s] \ {id[c]}
  BY <1>6
<1> QED BY <1>2, <1>4, <1>9, <1>10, OneFollows

LEMMA FollowsStep ==
  ASSUME FollowContext, Tracked, [Next]_vars
  PROVE  Follows'
<1> USE DEF RegistryType
<1>1. ASSUME NEW c \in Conns, Upgrade(c) PROVE Follows'
  <2>1. \A d \in Conns \ {c} : UNCHANGED Course(d)
    BY <1>1 DEF Upgrade, Course, frames, FollowContext
  <2>2. Following(c)'
    BY <1>1 DEF Upgrade, FollowContext, Follows, Following, frames
  <2> QED BY <1>1, <2>1, <2>2, NoneFollows DEF Upgrade
<1>2. ASSUME NEW c \in Conns, AuthReturns(c) PROVE Follows'
  <2>1. /\ phase[c] = "auth" /\ UNCHANGED <<known, early, queue, last, connected>>
        /\ phase'[c] \in {"refused", "before"}
        /\ \A d \in Conns \ {c} : UNCHANGED Course(d)
    BY <1>2 DEF AuthReturns, Deny, Register, frames, Course, FollowContext
  <2>2. early[c] = <<>> /\ \A s \in Names : last[c][s] = "join"
    BY <2>1 DEF FollowContext, Follows, Following
  <2>3. \A s \in Names : Latest(<<>>, s, "join")
    BY DEF Latest
  <2>4. Following(c)'
    BY <2>1, <2>2, <2>3 DEF Following
  <2> QED BY <2>1, <2>4, NoneFollows
<1>3. ASSUME NEW c \in Conns, BeforeReturns(c) \/ ConnectHookReturns(c) PROVE Follows'
  <2>1. phase[c] \in {"before", "connecting"}
    BY <1>3 DEF BeforeReturns, ConnectHookReturns
  <2>2. CASE Rollback(c)
    <3>1. Following(c)'
      BY <2>2 DEF Rollback, Following, FollowContext
    <3>2. \A d \in Conns \ {c} : UNCHANGED Course(d)
      BY <2>2 DEF Rollback, Course, FollowContext, Types, FrameTypes
    <3> QED BY <2>2, <3>1, <3>2, NoneFollows DEF Rollback
  <2> QED BY <1>3, <2>1, <2>2, GoOnFollows DEF BeforeReturns, ConnectHookReturns
<1>4. ASSUME NEW c \in Conns, NEW f \in Frame, Arrive(c, f) PROVE Follows'
  BY <1>4, ArriveFollows
<1>5. ASSUME NEW c \in Conns, NEW i \in DOMAIN queue[c], HandlerReturns(c, i) PROVE Follows'
  BY <1>5, HandlerFollows
<1>6. ASSUME NEW c \in Conns, phase' \in {phase, [phase EXCEPT ![c] = "draining"]},
             c \in tracked \/ phase' = phase, phase[c] \notin {"before", "connecting"} \/ phase' = phase,
             UNCHANGED <<id, connected, early, queue, last, known>>
      PROVE  Follows'
  <2>1. \A d \in Conns \ {c} : UNCHANGED Course(d)
    BY <1>6 DEF Course, FollowContext
  <2>2. Following(c)'
    BY <1>6 DEF FollowContext, Follows, Following
  <2> QED BY <1>6, <2>1, <2>2, NoneFollows
<1>7. ASSUME NEW c \in Conns, SocketError(c) \/ SocketClosed(c) PROVE Follows'
  BY <1>6, <1>7 DEF SocketError, SocketClosed, handleClose, frames
<1>8. ASSUME NEW c \in Conns, CleanUp(c) PROVE Follows'
  <2>1. \A d \in Conns \ {c} : UNCHANGED Course(d)
    BY <1>8 DEF CleanUp, frames, Course, FollowContext
  <2>2. Following(c)'
    BY <1>8 DEF CleanUp, Following, FollowContext
  <2> QED BY <1>8, <2>1, <2>2, NoneFollows DEF CleanUp
<1>9. ASSUME NEW c \in Conns, DisconnectHookReturns(c) PROVE Follows'
  <2>1. /\ phase[c] \in {"cleaning", "rollback"} /\ phase'[c] \in {"cleaning", "rollback", "done"}
        /\ \A d \in Conns \ {c} : UNCHANGED Course(d)
    BY <1>9 DEF DisconnectHookReturns, AfterHooks, frames, Course, FollowContext
  <2>2. id[c] \in Ids
    BY <2>1 DEF FollowContext, Types, Identified
  <2>3. \A s \in Names : known'[s] \ {id[c]} = known[s] \ {id[c]}
    BY <1>9 DEF DisconnectHookReturns, FollowContext, Types
  <2>4. Following(c)'
    BY <2>1 DEF Following
  <2> QED BY <2>1, <2>2, <2>3, <2>4, OneFollows
<1>10. ASSUME UNCHANGED <<phase, id, connected, early, queue, last, known>> PROVE Follows'
  BY <1>10 DEF FollowContext, Follows, Following
<1> QED BY <1>1, <1>2, <1>3, <1>4, <1>5, <1>7, <1>8, <1>9, <1>10
        DEF Next, vars, wire, frames, Drained, DrainTimeout, Dispose, SocketsClosed,
            RegistrationsSettled, CleanupsSettled

LEMMA FollowsInit == Init => Follows
BY DEF Init, Follows, Following

\* If ids are never reused, a service is where the last frame a client sent it
\* left it as soon as the connection has no frame of that service to handle:
\* for any services and lanes, the frames buffered while the connection was
\* registering included.
THEOREM LastFrameStays == Spec /\ []NeverReused => []LastFrameWins
<1>1. Init => Ghosts
  BY DEF Init, Ghosts, Knowable, Named
<1>2. /\ Registrations /\ Tracked /\ Hooks /\ Hooks' /\ Ghosts /\ NeverReused /\ NeverReused'
      /\ [Next]_vars
      => Ghosts'
  BY GhostsStep DEF GhostContext, Registrations
<1>3. /\ Registrations /\ Tracked /\ Hooks /\ Ghosts /\ Types /\ NeverReused /\ NeverReused'
      /\ Follows /\ [Next]_vars
      => Follows'
  BY FollowsStep DEF FollowContext, Registrations
<1>4. Follows => LastFrameWins
  BY DEF Follows, Following, NoneOf, LastFrameWins
<1> QED BY <1>1, <1>2, <1>3, <1>4, FollowsInit, RegistrationsKept, HooksKept, TypesKept, PTL
        DEF Spec

=============================================================================
