--------------------------- MODULE CallSeatsProofs ---------------------------
(***************************************************************************)
(* One seat for each person and no ghosts, for any clients, users, nodes   *)
(* and frames.                                                             *)
(*                                                                         *)
(* OneSeat follows from what the store's commands keep: a client on the    *)
(* roster that is not undecided has its user's seat in the index of        *)
(* accepted seats, and a user has one there.                               *)
(*                                                                         *)
(* NoGhosts and SeatsKnown follow from an account of the roster: whoever   *)
(* is on it is in the entry of its node, or a command that takes it out is *)
(* on its way, or its own handler is in the middle of seating it, or it is *)
(* one the node refused (Accounted).                                       *)
(***************************************************************************)
EXTENDS CallSeats, TLAPS

Stores == [call : BOOLEAN, roster : SUBSET Client, seat : [User -> Client \cup {none}],
           byClient : SUBSET Client, byUser : SUBSET User, accepted : BOOLEAN]

Hands == [at : Steps, call : BOOLEAN, dead : SUBSET (Client \cup {none})]

\* What every command keeps of a store s, where the joins in U are undecided.
SeatsHeld(s, U) ==
    /\ s \in Stores
    /\ ~s.call => s.roster = {}
    /\ \A c \in s.roster \ U : s.seat[UserOf[c]] = c

IndInv == TypeOK /\ SeatsHeld(store, Undecided)

Entries == entry \in [Node -> [here : BOOLEAN, seats : SUBSET Client]]

-----------------------------------------------------------------------------
(* The commands                                                            *)

\* Listing a client that is undecided disturbs no seat.
LEMMA RegisterHolds ==
    ASSUME NEW s, NEW U, SeatsHeld(s, U), NEW c \in Client
    PROVE  SeatsHeld(registerParticipant(s, c), U \cup {c})
BY CallAssumption DEF SeatsHeld, Stores, registerParticipant

\* Removing clients disturbs none of the others' seats.
LEMMA RemoveHolds ==
    ASSUME NEW s, NEW U, SeatsHeld(s, U), NEW out
    PROVE  /\ SeatsHeld(removeParticipants(s, out), U)
           /\ removeParticipants(s, out).roster \cap out = {}
<1>1. CASE ~s.call
  BY <1>1 DEF SeatsHeld, Stores, removeParticipants
<1>2. CASE s.call
  <2> DEFINE rest == s.roster \ out
             r == [s EXCEPT !.call = rest # {}, !.roster = rest, !.byClient = @ \ out,
                            !.seat = IF rest = {} THEN NoSeats ELSE @]
  <2>1. removeParticipants(s, out) = r
    BY <1>2 DEF removeParticipants
  <2>2. NoSeats \in [User -> Client \cup {none}]
    BY DEF NoSeats
  <2>3. s \in Stores /\ rest \subseteq Client /\ (s.byClient \ out) \subseteq Client
    BY DEF SeatsHeld, Stores
  <2>4. /\ r.call = (rest # {}) /\ r.roster = rest
        /\ r.seat = IF rest = {} THEN NoSeats ELSE s.seat
        /\ r \in Stores
    BY <2>2, <2>3 DEF Stores
  <2>5. ASSUME NEW c \in rest \ U PROVE r.seat[UserOf[c]] = c
    BY <2>4, <2>5 DEF SeatsHeld
  <2> QED BY <2>1, <2>4, <2>5 DEF SeatsHeld
<1> QED BY <1>1, <1>2 DEF SeatsHeld, Stores

\* Forgetting the call leaves nobody on the roster.
LEMMA ForgetHolds ==
    ASSUME NEW s, NEW U, SeatsHeld(s, U)
    PROVE  SeatsHeld(forgetCall(s), U)
BY DEF SeatsHeld, Stores, forgetCall, NoSeats

\* The marker and the indexes have no part in it.
LEMMA IndexesHold ==
    ASSUME NEW s, NEW U, SeatsHeld(s, U), NEW out, NEW yes \in BOOLEAN
    PROVE  /\ SeatsHeld([s EXCEPT !.accepted = yes], U)
           /\ SeatsHeld([s EXCEPT !.byClient = @ \ out], U)
           /\ SeatsHeld([s EXCEPT !.accepted = yes, !.byClient = @ \ out], U)
BY DEF SeatsHeld, Stores

\* A granted claim gives the seat to one client: whoever of its user had it is
\* either off the roster already or taken out with the claim.
LEMMA SeatHolds ==
    ASSUME NEW s, NEW U, SeatsHeld(s, U), NEW c \in Client, NEW dead, NEW out,
           MayClaim(s, c, dead), (dead \cap {s.seat[UserOf[c]]}) \ {c} \subseteq out, c \notin out
    PROVE  SeatsHeld(Seats(s, c, out), U \ {c})
<1> DEFINE r == Seats(s, c, out)
<1>1. s \in Stores /\ UserOf[c] \in User
  BY CallAssumption DEF SeatsHeld
<1>2. /\ r.call = s.call /\ r.roster = (s.roster \ out) \cup {c}
      /\ r.seat = [s.seat EXCEPT ![UserOf[c]] = c]
      /\ r \in Stores
  BY <1>1 DEF Seats, Stores
<1>3. ASSUME NEW d \in r.roster \ (U \ {c}) PROVE r.seat[UserOf[d]] = d
  <2>1. CASE d = c
    BY <1>1, <1>2, <2>1 DEF Stores
  <2>2. CASE d # c
    <3>1. d \in s.roster \ out /\ d \notin U /\ s.seat[UserOf[d]] = d
      BY <1>2, <1>3, <2>2 DEF SeatsHeld
    <3>2. UserOf[d] # UserOf[c]
      BY <3>1, <2>2 DEF MayClaim
    <3> QED BY <1>1, <1>2, <3>1, <3>2 DEF Stores
  <2> QED BY <2>1, <2>2
<1> QED BY <1>2, <1>3 DEF SeatsHeld, MayClaim

\* A command nobody awaits keeps the seats.
LEMMA RunsHold ==
    ASSUME NEW s, NEW U, SeatsHeld(s, U), NEW job
    PROVE  SeatsHeld(Runs(s, job), U)
<1>1. CASE job.op = "mark"
  BY <1>1, IndexesHold DEF Runs
<1>2. CASE job.op = "take"
  BY <1>2, IndexesHold DEF Runs
<1>3. CASE job.op = "forget"
  BY <1>3, ForgetHolds, IndexesHold DEF Runs
<1>4. CASE job.op = "drop"
  BY <1>4, RemoveHolds, IndexesHold DEF Runs
<1>5. CASE job.op \notin {"mark", "take", "forget", "drop"}
  BY <1>5, IndexesHold DEF Runs
<1> QED BY <1>1, <1>2, <1>3, <1>4, <1>5

-----------------------------------------------------------------------------
(* The handlers                                                            *)

LEMMA StepOfHand ==
    ASSUME IndInv, NEW c \in Client, NEW h \in Hands, Then(c, h)
    PROVE  /\ hand' \in [Client -> Hands]
           /\ Undecided' = IF h.at \in {"again", "lost", "undo"} THEN Undecided \cup {c}
                           ELSE Undecided \ {c}
<1>1. hand \in [Client -> Hands]
  BY DEF IndInv, TypeOK, Hands
<1>2. /\ hand' \in [Client -> Hands]
      /\ hand'[c] = h
      /\ \A d \in Client \ {c} : hand'[d] = hand[d]
  BY <1>1 DEF Then
<1> QED BY <1>2 DEF Undecided

\* A handler that leaves the store alone and does not go idle in the middle of
\* a join keeps the seats; the others keep them by what their command does.
LEMMA HandKeeps ==
    ASSUME IndInv, NEW c \in Client, NEW h \in Hands, Then(c, h), gone' \subseteq Client,
           SeatsHeld(store', Undecided),
           h.at \in {"again", "lost", "undo"} \/ c \notin Undecided \/ c \notin store'.roster
                \/ store'.seat[UserOf[c]] = c
    PROVE  IndInv'
<1>1. /\ hand' \in [Client -> Hands]
      /\ Undecided' = IF h.at \in {"again", "lost", "undo"} THEN Undecided \cup {c}
                      ELSE Undecided \ {c}
  BY StepOfHand
<1>2. SeatsHeld(store', Undecided')
  BY <1>1 DEF SeatsHeld
<1> QED BY <1>1, <1>2 DEF IndInv, TypeOK, Hands, SeatsHeld, Stores

\* A join that wins is seated and no longer undecided.
LEMMA WinKeeps ==
    ASSUME IndInv, NEW c \in Client, NEW dead, Wins(c, dead), UNCHANGED gone
    PROVE  IndInv'
<1>1. SeatsHeld(store', Undecided \ {c})
  BY SeatHolds DEF IndInv, Wins, claimAcceptedSeat
<1>2. Idle \in Hands /\ Then(c, Idle)
  BY DEF Idle, Hands, Steps, Wins
<1>3. hand' \in [Client -> Hands] /\ Undecided' = Undecided \ {c}
  BY <1>2, StepOfHand DEF Idle
<1> QED BY <1>1, <1>3 DEF IndInv, TypeOK, Hands, SeatsHeld, Stores

\* A resumed client is seated.
LEMMA ResumeHolds ==
    ASSUME NEW s, NEW U, SeatsHeld(s, U), NEW c \in Client, NEW dead, MayResume(s, c, dead)
    PROVE  SeatsHeld(resumeParticipant(s, c, dead), U \ {c})
<1>1. SeatsHeld(Seats(s, c, dead \ {c}), U \ {c})
  BY SeatHolds DEF MayResume
<1> QED BY <1>1, IndexesHold DEF resumeParticipant

\* A step at a node that touches neither the store nor a handler.
LEMMA NodeKeeps ==
    ASSUME IndInv, UNCHANGED <<store, gone, hand>>
    PROVE  IndInv'
BY DEF IndInv, TypeOK, Undecided

-----------------------------------------------------------------------------
(* Every step                                                              *)

LEMMA AtHands == \A step \in Steps : At(step) \in Hands /\ At(step).at = step
BY DEF At, Idle, Hands, Steps

LEMMA JoinLooksKeeps ==
    ASSUME IndInv, NEW c \in Client, JoinLooks(c)
    PROVE  IndInv'
<1>1. store.roster \subseteq Client
  BY DEF IndInv, TypeOK
<1>2. At("read") \in Hands /\ [At("reap") EXCEPT !.dead = store.roster] \in Hands
  BY <1>1 DEF At, Idle, Hands, Steps
<1>3. \/ Then(c, At("read"))
      \/ Then(c, [At("reap") EXCEPT !.dead = store.roster])
  BY DEF JoinLooks
<1>4. /\ c \notin Undecided
      /\ store' = store /\ gone' = gone
      /\ gone' \subseteq Client
      /\ SeatsHeld(store', Undecided)
  BY DEF JoinLooks, StoreReads, Frame, Arrives, Undecided, IndInv, TypeOK
<1> QED BY <1>2, <1>3, <1>4, HandKeeps

LEMMA JoinReapsKeeps ==
    ASSUME IndInv, NEW c \in Client, JoinReaps(c)
    PROVE  IndInv'
<1>1. SeatsHeld(store', Undecided)
  BY ForgetHolds, IndexesHold DEF JoinReaps, IndInv
<1>2. /\ Then(c, At("read")) /\ At("read") \in Hands
      /\ c \notin Undecided /\ gone' \subseteq Client
  BY AtHands DEF JoinReaps, Answered, Undecided, StoreWrites, IndInv, TypeOK, Steps
<1> QED BY <1>1, <1>2, HandKeeps

LEMMA JoinReadsKeeps ==
    ASSUME IndInv, NEW c \in Client, JoinReads(c)
    PROVE  IndInv'
<1>1. Idle \in Hands /\ [At("claim") EXCEPT !.call = store.call] \in Hands
  BY DEF At, Idle, Hands, Steps, IndInv, TypeOK
<1>2. Then(c, Idle) \/ Then(c, [At("claim") EXCEPT !.call = store.call])
  BY DEF JoinReads
<1>3. /\ c \notin Undecided /\ gone' \subseteq Client /\ store' = store
      /\ SeatsHeld(store', Undecided)
  BY DEF JoinReads, Answered, Undecided, StoreReads, IndInv, TypeOK
<1> QED BY <1>1, <1>2, <1>3, HandKeeps

LEMMA JoinClaimsKeeps ==
    ASSUME IndInv, NEW c \in Client, JoinClaims(c)
    PROVE  IndInv'
<1> DEFINE lost == [At("lost") EXCEPT !.dead = {store.seat[UserOf[c]]}]
           next == IF store.call THEN lost
                   ELSE IF hand[c].at = "claim" /\ ~hand[c].call THEN At("create") ELSE Idle
<1>1. UNCHANGED gone /\ gone' \subseteq Client
  BY DEF JoinClaims, StoreWrites, IndInv, TypeOK
<1>2. CASE Wins(c, {})
  BY <1>1, <1>2, WinKeeps
<1>3. CASE Loses(c, {}, next)
  <2>1. UserOf[c] \in User /\ store.seat \in [User -> Client \cup {none}]
    BY CallAssumption DEF IndInv, TypeOK
  <2>2. lost \in Hands /\ lost.at = "lost" /\ At("create") \in Hands /\ Idle \in Hands
    <3>1. {store.seat[UserOf[c]]} \in SUBSET (Client \cup {none})
      BY <2>1
    <3> QED BY <3>1 DEF At, Idle, Hands, Steps
  <2>3. next \in Hands /\ (store.call => next.at = "lost")
    BY <2>2
  <2>4. ~store.call => store.roster = {}
    BY DEF IndInv, SeatsHeld
  <2>5. Then(c, next) /\ store' = store
    BY <1>3 DEF Loses
  <2>6. SeatsHeld(store', Undecided)
    BY <2>5 DEF IndInv
  <2>7. next.at \in {"again", "lost", "undo"} \/ c \notin store'.roster
    BY <2>3, <2>4, <2>5
  <2> HIDE DEF next
  <2> QED BY <1>1, <2>3, <2>5, <2>6, <2>7, HandKeeps
<1> QED BY <1>2, <1>3 DEF JoinClaims

LEMMA JoinCreatesKeeps ==
    ASSUME IndInv, NEW c \in Client, JoinCreates(c)
    PROVE  IndInv'
<1>1. SeatsHeld(store', Undecided \cup {c})
  BY RegisterHolds DEF JoinCreates, IndInv
<1>2. Then(c, At("again")) /\ At("again") \in Hands /\ At("again").at = "again"
  BY AtHands DEF JoinCreates, Steps
<1>3. hand' \in [Client -> Hands] /\ Undecided' = Undecided \cup {c}
  BY <1>2, StepOfHand
<1>4. gone' = gone
  BY DEF JoinCreates, StoreWrites
<1> QED BY <1>1, <1>3, <1>4 DEF IndInv, TypeOK, Hands, SeatsHeld, Stores

LEMMA JoinReplacesKeeps ==
    ASSUME IndInv, NEW c \in Client, JoinReplaces(c)
    PROVE  IndInv'
<1> DEFINE next == IF store.call THEN At("undo") ELSE Idle
<1>1. UNCHANGED gone /\ gone' \subseteq Client
  BY DEF JoinReplaces, StoreWrites, IndInv, TypeOK
<1>2. CASE Wins(c, hand[c].dead)
  BY <1>1, <1>2, WinKeeps
<1>3. CASE Loses(c, hand[c].dead, next)
  <2>1. next \in Hands /\ (store.call => next.at = "undo")
    BY DEF At, Idle, Hands, Steps
  <2>2. Then(c, next) /\ store' = store
    BY <1>3 DEF Loses
  <2>3. SeatsHeld(store', Undecided) /\ (~store.call => store'.roster = {})
    BY <2>2 DEF IndInv, SeatsHeld
  <2>4. next.at \in {"again", "lost", "undo"} \/ c \notin store'.roster
    BY <2>1, <2>3
  <2> HIDE DEF next
  <2> QED BY <1>1, <2>1, <2>2, <2>3, <2>4, HandKeeps
<1> QED BY <1>2, <1>3 DEF JoinReplaces

LEMMA JoinUndoesKeeps ==
    ASSUME IndInv, NEW c \in Client, JoinUndoes(c)
    PROVE  IndInv'
<1>1. SeatsHeld(store', Undecided) /\ c \notin store'.roster
  BY RemoveHolds DEF JoinUndoes, IndInv
<1>2. Then(c, Idle) /\ Idle \in Hands /\ gone' \subseteq Client
  BY DEF JoinUndoes, Idle, Hands, Steps, StoreWrites, IndInv, TypeOK
<1> QED BY <1>1, <1>2, HandKeeps

LEMMA RejoinReadsKeeps ==
    ASSUME IndInv, Entries, NEW c \in Client, RejoinReads(c)
    PROVE  IndInv'
<1>1. PICK dead \in Probed(HomeOf[c]) :
         Then(c, [at |-> "resume", call |-> entry[HomeOf[c]].here,
                  dead |-> IF entry[HomeOf[c]].here THEN {} ELSE dead \cap store.roster])
  BY DEF RejoinReads
<1> DEFINE h == [at |-> "resume", call |-> entry[HomeOf[c]].here,
                 dead |-> IF entry[HomeOf[c]].here THEN {} ELSE dead \cap store.roster]
<1>2. h \in Hands
  <2>1. entry[HomeOf[c]].here \in BOOLEAN
    BY CallAssumption DEF Entries
  <2> QED BY <2>1 DEF Hands, Steps, IndInv, TypeOK
<1>3. /\ c \notin Undecided /\ gone' \subseteq Client /\ store' = store
      /\ SeatsHeld(store', Undecided)
  BY DEF RejoinReads, Frame, Arrives, Undecided, StoreReads, IndInv, TypeOK
<1> QED BY <1>1, <1>2, <1>3, HandKeeps

LEMMA RejoinResumesKeeps ==
    ASSUME IndInv, NEW c \in Client, RejoinResumes(c)
    PROVE  IndInv'
<1> DEFINE dead == hand[c].dead
           h == [at |-> "resumed", call |-> hand[c].call, dead |-> dead]
<1>1. hand[c] \in Hands /\ Idle \in Hands
  BY DEF IndInv, TypeOK, Hands, Idle, Steps
<1>2. c \notin Undecided /\ gone' = gone /\ gone' \subseteq Client
  BY DEF RejoinResumes, Answered, Undecided, StoreWrites, IndInv, TypeOK
<1>3. CASE MayResume(store, c, dead) /\ store' = resumeParticipant(store, c, dead) /\ Then(c, h)
  <2>1. SeatsHeld(store', Undecided)
    <3>1. SeatsHeld(store', Undecided \ {c}) /\ Undecided \ {c} = Undecided
      BY <1>2, <1>3, ResumeHolds DEF IndInv
    <3> QED BY <3>1
  <2>2. h \in Hands
    BY <1>1 DEF Hands, Steps
  <2> QED BY <1>2, <1>3, <2>1, <2>2, HandKeeps
<1>4. CASE store' = store /\ Then(c, Idle)
  <2>1. SeatsHeld(store', Undecided)
    BY <1>4 DEF IndInv
  <2> QED BY <1>1, <1>2, <1>4, <2>1, HandKeeps
<1> QED BY <1>3, <1>4 DEF RejoinResumes

LEMMA RejoinSeatsKeeps ==
    ASSUME IndInv, NEW c \in Client, RejoinSeats(c)
    PROVE  IndInv'
<1>1. Then(c, Idle) /\ store' = store /\ gone' = gone /\ c \notin Undecided
  BY DEF RejoinSeats, Answered, Undecided
<1>2. Idle \in Hands /\ gone' \subseteq Client /\ SeatsHeld(store', Undecided)
  BY <1>1 DEF Idle, Hands, Steps, IndInv, TypeOK
<1> QED BY <1>1, <1>2, HandKeeps

LEMMA LeaveRemovesKeeps ==
    ASSUME IndInv, NEW c \in Client, LeaveRemoves(c)
    PROVE  IndInv'
<1>1. SeatsHeld(store', Undecided) /\ c \notin store'.roster
  BY RemoveHolds DEF LeaveRemoves, IndInv
<1>2. Then(c, At("left")) /\ At("left") \in Hands /\ gone' \subseteq Client
  BY AtHands DEF LeaveRemoves, Steps, StoreWrites, IndInv, TypeOK
<1> QED BY <1>1, <1>2, HandKeeps

\* LeaveEnds, Disconnects and DropEnds: the handler goes on, the store does not.
LEMMA ClosesKeep ==
    ASSUME IndInv, NEW c \in Client, LeaveEnds(c) \/ Disconnects(c) \/ DropEnds(c)
    PROVE  IndInv'
<1>1. PICK step \in {"idle", "drop", "done"} : Then(c, At(step))
  <2>1. At("idle") = Idle
    BY DEF At, Idle
  <2> QED BY <2>1 DEF LeaveEnds, Disconnects, DropEnds
<1>2. At(step) \in Hands
  BY AtHands DEF Steps
<1>3. c \notin Undecided /\ store' = store /\ gone' \subseteq Client
  BY DEF LeaveEnds, Disconnects, DropEnds, Answered, Arrives, Undecided, StoreReads, IndInv, TypeOK
<1>4. SeatsHeld(store', Undecided)
  BY <1>3 DEF IndInv
<1> QED BY <1>1, <1>2, <1>3, <1>4, HandKeeps

LEMMA StoreRunsKeeps ==
    ASSUME IndInv, NEW n \in Node, StoreRuns(n)
    PROVE  IndInv'
<1>1. SeatsHeld(store', Undecided)
  BY RunsHold DEF StoreRuns, IndInv
<1>2. UNCHANGED <<gone, hand>>
  BY DEF StoreRuns
<1> QED BY <1>1, <1>2 DEF IndInv, TypeOK, Undecided, SeatsHeld, Stores

LEMMA InitEntries == Init => Entries
BY DEF Init, Entries, NoEntry

\* A node's entry is made by a registration, changed by a departure and deleted.
LEMMA EntriesKept ==
    ASSUME Entries, NEW n \in Node,
           \/ UNCHANGED entry
           \/ Deletes(n)
           \/ \E c \in Client : \E out : Registers(n, c, out)
           \/ \E c : Unseats(n, c)
    PROVE  Entries'
<1>1. CASE UNCHANGED entry
  BY <1>1 DEF Entries
<1>2. CASE Deletes(n)
  BY <1>2 DEF Entries, Deletes, NoEntry
<1>3. ASSUME NEW c \in Client, NEW out, Registers(n, c, out) PROVE Entries'
  BY <1>3 DEF Entries, Registers
<1>4. ASSUME NEW c, Unseats(n, c) PROVE Entries'
  BY <1>4 DEF Entries, Unseats
<1> QED BY <1>1, <1>2, <1>3, <1>4

LEMMA NextEntries == Entries /\ [Next]_vars => Entries'
<1> SUFFICES ASSUME Entries, [Next]_vars PROVE Entries'
  OBVIOUS
<1>1. ASSUME NEW c \in Client,
             \/ JoinLooks(c) \/ JoinReaps(c) \/ JoinReads(c) \/ JoinClaims(c)
             \/ JoinCreates(c) \/ JoinReplaces(c) \/ JoinUndoes(c)
      PROVE  Entries'
  <2>1. HomeOf[c] \in Node
    BY CallAssumption
  <2>2. \/ UNCHANGED entry \/ Deletes(HomeOf[c]) \/ \E out : Registers(HomeOf[c], c, out)
    BY <1>1 DEF JoinLooks, JoinReaps, JoinReads, JoinClaims, JoinCreates, JoinReplaces, JoinUndoes,
                Forgets, Wins, Loses, NodeIdle, nodeVars
  <2> QED BY <2>1, <2>2, EntriesKept
<1>2. ASSUME NEW c \in Client,
             \/ RejoinReads(c) \/ RejoinResumes(c) \/ RejoinSeats(c)
             \/ LeaveRemoves(c) \/ LeaveEnds(c) \/ Disconnects(c) \/ DropEnds(c)
      PROVE  Entries'
  <2>1. HomeOf[c] \in Node
    BY CallAssumption
  <2>2. \/ UNCHANGED entry \/ Deletes(HomeOf[c]) \/ \E out : Registers(HomeOf[c], c, out)
        \/ Unseats(HomeOf[c], c)
    BY <1>2 DEF RejoinReads, RejoinResumes, RejoinSeats, LeaveRemoves, LeaveEnds, Disconnects,
                DropEnds, Forgets, NodeIdle, nodeVars
  <2> QED BY <2>1, <2>2, EntriesKept
<1>3. ASSUME NEW n \in Node,
             StoreRuns(n) \/ GraceExpires(n) \/ GraceTells(n) \/ GraceForgets(n)
      PROVE  Entries'
  <2>1. UNCHANGED entry \/ Deletes(n)
    BY <1>3 DEF StoreRuns, GraceExpires, GraceTells, GraceForgets, Forgets, NodeIdle, nodeVars
  <2> QED BY <2>1, EntriesKept
<1>4. ASSUME NEW m \in net, DepartureHeard(m) PROVE Entries'
  <2>1. UNCHANGED entry \/ Deletes(m.to) \/ Unseats(m.to, m.who)
    BY <1>4 DEF DepartureHeard, Forgets, NodeIdle, nodeVars
  <2>2. CASE m.to \in Node
    BY <2>1, <2>2, EntriesKept
  <2>3. CASE m.to \notin Node
    <3>1. entry' = entry
      BY <2>1, <2>3 DEF Deletes, Unseats, Entries
    <3> QED BY <3>1 DEF Entries
  <2> QED BY <2>2, <2>3
<1>5. CASE UNCHANGED vars
  BY <1>5 DEF vars, nodeVars, Entries
<1> QED BY <1>1, <1>2, <1>3, <1>4, <1>5 DEF Next

LEMMA InitHolds == Init => IndInv
<1> SUFFICES ASSUME Init PROVE IndInv
  OBVIOUS
<1>1. store \in Stores /\ store.roster = {}
  BY DEF Init, Stores, NoSeats
<1>2. hand \in [Client -> Hands] /\ gone = {}
  BY DEF Init, Hands, Idle, Steps
<1> QED BY <1>1, <1>2 DEF IndInv, TypeOK, SeatsHeld, Stores, Hands

LEMMA NextKeeps == IndInv /\ Entries /\ [Next]_vars => IndInv'
<1> SUFFICES ASSUME IndInv, Entries, [Next]_vars PROVE IndInv'
  OBVIOUS
<1>1. ASSUME NEW c \in Client,
             \/ JoinLooks(c) \/ JoinReaps(c) \/ JoinReads(c) \/ JoinClaims(c)
             \/ JoinCreates(c) \/ JoinReplaces(c) \/ JoinUndoes(c)
      PROVE  IndInv'
  BY <1>1, JoinLooksKeeps, JoinReapsKeeps, JoinReadsKeeps, JoinClaimsKeeps, JoinCreatesKeeps,
     JoinReplacesKeeps, JoinUndoesKeeps
<1>2. ASSUME NEW c \in Client,
             \/ RejoinReads(c) \/ RejoinResumes(c) \/ RejoinSeats(c)
             \/ LeaveRemoves(c) \/ LeaveEnds(c) \/ Disconnects(c) \/ DropEnds(c)
      PROVE  IndInv'
  BY <1>2, RejoinReadsKeeps, RejoinResumesKeeps, RejoinSeatsKeeps, LeaveRemovesKeeps, ClosesKeep
<1>3. ASSUME NEW n \in Node, StoreRuns(n) PROVE IndInv'
  BY <1>3, StoreRunsKeeps
<1>4. ASSUME NEW n \in Node, GraceExpires(n) \/ GraceTells(n) \/ GraceForgets(n) PROVE IndInv'
  BY <1>4, NodeKeeps DEF GraceExpires, GraceTells, GraceForgets
<1>5. ASSUME NEW m \in net, DepartureHeard(m) PROVE IndInv'
  BY <1>5, NodeKeeps DEF DepartureHeard
<1>6. CASE UNCHANGED vars
  BY <1>6, NodeKeeps DEF vars
<1> QED BY <1>1, <1>2, <1>3, <1>4, <1>5, <1>6 DEF Next

LEMMA AlwaysInvariant == Spec => []IndInv
<1>1. Spec => []Entries
  BY InitEntries, NextEntries, PTL DEF Spec
<1> QED BY <1>1, InitHolds, NextKeeps, PTL DEF Spec

\* The store's record of the huddle and the handlers' steps are always of
\* their types.
THEOREM Typed == Spec => []TypeOK
<1>1. IndInv => TypeOK
  BY DEF IndInv
<1> QED BY AlwaysInvariant, <1>1, PTL

\* A person has one seat in a huddle, however many tabs join, come back, leave
\* and drop at once, on however many nodes (handleLobbyJoin, rejoinSeat).
THEOREM OnePersonOneSeat == Spec => []OneSeat
<1>1. IndInv => OneSeat
  BY DEF IndInv, SeatsHeld, OneSeat
<1> QED BY AlwaysInvariant, <1>1, PTL

-----------------------------------------------------------------------------
(* Where every client of the roster is kept                                *)

Ops == {"mark", "take", "forget", "drop", "unlink"}
Jobs == [op : Ops, who : SUBSET Client]
Queues == queue \in [Node -> Seq(Jobs)]

\* A node's entry lists clients of its own, and none when it has no entry.
EntriesFit ==
    \A n \in Node : /\ entry[n].seats \subseteq Of(n)
                    /\ ~entry[n].here => entry[n].seats = {}

Removes(job, c) == job.op = "forget" \/ (job.op = "drop" /\ c \in job.who)

\* A command that takes c off the roster is on its way.
Leaving(c) == \E i \in DOMAIN queue[HomeOf[c]] : Removes(queue[HomeOf[c]][i], c)

Settled(c) == c \in entry[HomeOf[c]].seats \/ Leaving(c)

\* The handler's step says itself that c may be on the roster.
InHand(at) == at \in {"again", "lost", "undo", "resumed"}

Handlers ==
    /\ \A c \in gone : hand[c].at \in {"drop", "done"}
    /\ \A c \in Client :
         /\ hand[c].at = "left" => c \notin store.roster
         /\ hand[c].at \in {"resume", "resumed"} => hand[c].dead \subseteq gone
         /\ hand[c].at = "resumed" => hand[c].dead \cap store.roster = {}
         /\ hand[c].at = "done" => c \notin entry[HomeOf[c]].seats

Heard(m) == m.to \in Node /\ (~m.ends => m.who \in Client /\ hand[m.who].at = "done")

\* Whoever is on the roster is in its node's entry, about to leave the roster,
\* in the middle of a handler, or refused after the store let it back in.
Accounted == \A c \in store.roster \ stranded : InHand(hand[c].at) \/ Settled(c)

SeatsInv ==
    /\ Entries /\ Queues /\ EntriesFit
    /\ Handlers
    /\ \A m \in net : Heard(m)
    /\ Accounted

-----------------------------------------------------------------------------
(* What a step does to a node's entry and commands                         *)

\* The others of all nodes stay where they are, while they are on the roster.
Others(c) ==
    \A d \in Client \ {c} : /\ d \in store'.roster /\ Settled(d) => Settled(d)'
                            /\ d \in entry'[HomeOf[d]].seats => d \in entry[HomeOf[d]].seats

NodesKept == (Entries /\ Queues /\ EntriesFit)'

LEMMA SendsAdds ==
    ASSUME Queues, NEW n \in Node, NEW op \in Ops, NEW who \in SUBSET Client, Sends(n, op, who)
    PROVE  /\ Queues'
           /\ \A d \in Client : Leaving(d) => Leaving(d)'
           /\ \A d \in Client : HomeOf[d] = n /\ Removes([op |-> op, who |-> who], d) => Leaving(d)'
<1> DEFINE job == [op |-> op, who |-> who]
<1>1. job \in Jobs /\ queue \in [Node -> Seq(Jobs)]
  BY DEF Jobs, Queues
<1>2. queue' = [queue EXCEPT ![n] = Append(queue[n], job)]
  BY DEF Sends
<1>3. Append(queue[n], job) \in Seq(Jobs)
  BY <1>1
<1>4. ASSUME NEW d \in Client, Leaving(d) PROVE Leaving(d)'
  <2>1. HomeOf[d] \in Node
    BY CallAssumption
  <2>2. PICK i \in DOMAIN queue[HomeOf[d]] : Removes(queue[HomeOf[d]][i], d)
    BY <1>4 DEF Leaving
  <2>3. i \in DOMAIN queue'[HomeOf[d]] /\ queue'[HomeOf[d]][i] = queue[HomeOf[d]][i]
    BY <1>1, <1>2, <2>1, <2>2
  <2> QED BY <2>2, <2>3 DEF Leaving, Removes
<1>5. ASSUME NEW d \in Client, HomeOf[d] = n, Removes(job, d) PROVE Leaving(d)'
  <2> DEFINE i == Len(queue[n]) + 1
  <2>1. i \in DOMAIN queue'[n] /\ queue'[n][i] = job
    BY <1>1, <1>2
  <2> QED BY <1>5, <2>1 DEF Leaving, Removes
<1> QED BY <1>1, <1>2, <1>3, <1>4, <1>5 DEF Queues

LEMMA NodeIdleKeeps ==
    ASSUME SeatsInv, UNCHANGED <<entry, queue>>
    PROVE  NodesKept /\ (\A d \in Client : Settled(d) => Settled(d)') /\ (\A c : Others(c))
BY DEF SeatsInv, NodesKept, Entries, Queues, EntriesFit, Settled, Leaving, Others

\* Forgetting the call leaves every client of the node to be taken out.
LEMMA ForgetsKeeps ==
    ASSUME SeatsInv, NEW n \in Node, NEW also \in SUBSET Client, Forgets(n, also)
    PROVE  /\ NodesKept
           /\ \A d \in Client : Settled(d) => Settled(d)'
           /\ \A d \in Client : d \in entry'[HomeOf[d]].seats => d \in entry[HomeOf[d]].seats
           /\ entry[n].here => \A d \in Client : HomeOf[d] = n => Leaving(d)' /\ d \notin entry'[n].seats
<1>1. CASE ~entry[n].here
  <2>1. UNCHANGED <<entry, queue>>
    BY <1>1 DEF Forgets, NodeIdle, nodeVars
  <2> QED BY <1>1, <2>1, NodeIdleKeeps
<1>2. CASE entry[n].here
  <2>1. Deletes(n) /\ Sends(n, "forget", entry[n].seats \cup also)
    BY <1>2 DEF Forgets
  <2>2. entry' = [entry EXCEPT ![n] = NoEntry] /\ entry \in [Node -> [here : BOOLEAN, seats : SUBSET Client]]
    BY <2>1 DEF Deletes, SeatsInv, Entries
  <2>3. entry[n].seats \cup also \in SUBSET Client
    BY <2>2
  <2>4. /\ Queues'
        /\ \A d \in Client : Leaving(d) => Leaving(d)'
        /\ \A d \in Client : HomeOf[d] = n => Leaving(d)'
    <3> DEFINE who == entry[n].seats \cup also
    <3>1. \A d \in Client : Removes([op |-> "forget", who |-> who], d)
      BY DEF Removes
    <3>2. Queues /\ Sends(n, "forget", who) /\ who \in SUBSET Client /\ "forget" \in Ops
      BY <2>1, <2>3 DEF SeatsInv, Ops
    <3> HIDE DEF who
    <3> QED BY <3>1, <3>2, SendsAdds
  <2>5. \A k \in Node \ {n} : entry'[k] = entry[k]
    BY <2>2
  <2>6. entry'[n] = NoEntry
    BY <2>2
  <2>7. Entries' /\ EntriesFit'
    BY <2>2, <2>5, <2>6 DEF SeatsInv, Entries, EntriesFit, NoEntry
  <2>8. \A d \in Client : HomeOf[d] \in Node
    BY CallAssumption
  <2>9. \A d \in Client : d \in entry'[HomeOf[d]].seats => d \in entry[HomeOf[d]].seats
    BY <2>5, <2>6, <2>8 DEF NoEntry
  <2>10. \A d \in Client : Settled(d) => Settled(d)'
    BY <2>4, <2>5, <2>8 DEF Settled
  <2> QED BY <2>4, <2>6, <2>7, <2>9, <2>10 DEF NodesKept, NoEntry
<1> QED BY <1>1, <1>2 DEF SeatsInv, Entries

\* A registration makes the client the node's, and those it replaces leave.
LEMMA RegistersKeeps ==
    ASSUME SeatsInv, NEW c \in Client, NEW out, Registers(HomeOf[c], c, out),
           Queues', \A d \in Client : Leaving(d) => Leaving(d)',
           \A d \in (store'.roster \cap entry[HomeOf[c]].seats \cap out) \ {c} : Settled(d)'
    PROVE  NodesKept /\ Settled(c)' /\ Others(c)
<1> DEFINE n == HomeOf[c]
<1>1. \A d \in Client : HomeOf[d] \in Node
  BY CallAssumption
<1>2. entry \in [Node -> [here : BOOLEAN, seats : SUBSET Client]]
  BY DEF SeatsInv, Entries
<1>3. entry' = [entry EXCEPT ![n] = [here |-> TRUE, seats |-> (entry[n].seats \ out) \cup {c}]]
  BY DEF Registers
<1>4. /\ entry'[n] = [here |-> TRUE, seats |-> (entry[n].seats \ out) \cup {c}]
      /\ \A k \in Node \ {n} : entry'[k] = entry[k]
  BY <1>1, <1>2, <1>3
<1>5. Entries'
  BY <1>1, <1>2, <1>3 DEF Entries
<1>6. EntriesFit'
  BY <1>1, <1>4 DEF SeatsInv, EntriesFit, Of
<1>7. Settled(c)'
  BY <1>4 DEF Settled
<1>8. ASSUME NEW d \in Client \ {c}, d \in store'.roster, Settled(d) PROVE Settled(d)'
  <2>1. CASE Leaving(d)
    BY <2>1 DEF Settled
  <2>2. CASE d \in entry[HomeOf[d]].seats /\ HomeOf[d] # n
    BY <1>1, <1>4, <2>2 DEF Settled
  <2>3. CASE d \in entry[HomeOf[d]].seats /\ HomeOf[d] = n
    <3>1. CASE d \in out
      BY <1>8, <2>3, <3>1
    <3>2. CASE d \notin out
      BY <1>4, <2>3, <3>2 DEF Settled
    <3> QED BY <3>1, <3>2
  <2> QED BY <1>8, <2>1, <2>2, <2>3 DEF Settled
<1>9. ASSUME NEW d \in Client \ {c}, d \in entry'[HomeOf[d]].seats
      PROVE  d \in entry[HomeOf[d]].seats
  BY <1>1, <1>4, <1>9
<1> QED BY <1>5, <1>6, <1>7, <1>8, <1>9 DEF NodesKept, Others

\* One client is taken out of an entry.
LEMMA UnseatsKeeps ==
    ASSUME SeatsInv, NEW n \in Node, NEW c, Unseats(n, c),
           Queues', \A d \in Client : Leaving(d) => Leaving(d)'
    PROVE  /\ NodesKept /\ Others(c)
           /\ c \notin entry'[n].seats
           /\ c \in entry'[HomeOf[c]].seats => c \in entry[HomeOf[c]].seats
<1>1. \A d \in Client : HomeOf[d] \in Node
  BY CallAssumption
<1>2. entry \in [Node -> [here : BOOLEAN, seats : SUBSET Client]]
  BY DEF SeatsInv, Entries
<1>3. entry' = [entry EXCEPT ![n].seats = entry[n].seats \ {c}]
  BY DEF Unseats
<1>4. /\ entry'[n].seats = entry[n].seats \ {c} /\ entry'[n].here = entry[n].here
      /\ \A k \in Node \ {n} : entry'[k] = entry[k]
  BY <1>2, <1>3
<1>5. Entries'
  BY <1>2, <1>3 DEF Entries
<1>6. EntriesFit'
  BY <1>4 DEF SeatsInv, EntriesFit
<1>7. Others(c)
  BY <1>1, <1>4 DEF Others, Settled
<1>8. c \in entry'[HomeOf[c]].seats => c \in entry[HomeOf[c]].seats
  <2>1. CASE HomeOf[c] \in Node
    BY <1>4, <2>1
  <2>2. CASE HomeOf[c] \notin Node
    BY <1>2, <1>3, <2>2
  <2> QED BY <2>1, <2>2
<1> QED BY <1>4, <1>5, <1>6, <1>7, <1>8 DEF NodesKept

-----------------------------------------------------------------------------
(* The shapes of a step                                                    *)

\* A step of c's handler.
LEMMA ClientStep ==
    ASSUME IndInv, SeatsInv, NEW c \in Client, NEW h \in Hands, Then(c, h),
           hand[c].at # "done", gone' \in {gone, gone \cup {c}},
           store'.roster \subseteq store.roster \cup ({c} \ gone),
           stranded \subseteq stranded',
           NodesKept, Others(c),
           c \in gone' => h.at \in {"drop", "done"},
           h.at = "left" => c \notin store'.roster,
           h.at \in {"resume", "resumed"} => h.dead \subseteq gone,
           h.at = "resumed" => h.dead \cap store'.roster = {},
           h.at = "done" => c \notin entry'[HomeOf[c]].seats,
           c \in store'.roster \ stranded' => InHand(h.at) \/ Settled(c)',
           \A m \in net' \ net : Heard(m)'
    PROVE  SeatsInv'
<1>1. hand'[c] = h /\ \A d \in Client \ {c} : hand'[d] = hand[d]
  BY DEF Then, IndInv, TypeOK
<1>2. store.roster \subseteq Client /\ gone \subseteq Client
  BY DEF IndInv, TypeOK
<1>3. Handlers'
  <2>1. \A d \in gone' : hand'[d].at \in {"drop", "done"}
    BY <1>1, <1>2 DEF SeatsInv, Handlers
  <2>2. ASSUME NEW d \in Client
        PROVE  /\ hand'[d].at = "left" => d \notin store'.roster
               /\ hand'[d].at \in {"resume", "resumed"} => hand'[d].dead \subseteq gone'
               /\ hand'[d].at = "resumed" => hand'[d].dead \cap store'.roster = {}
               /\ hand'[d].at = "done" => d \notin entry'[HomeOf[d]].seats
    <3>1. CASE d = c
      BY <1>1, <3>1
    <3>2. CASE d # c
      BY <1>1, <3>2 DEF SeatsInv, Handlers, Others
    <3> QED BY <3>1, <3>2
  <2> QED BY <2>1, <2>2 DEF Handlers
<1>4. ASSUME NEW m \in net' PROVE Heard(m)'
  <2>1. CASE m \in net
    BY <1>1, <2>1 DEF SeatsInv, Heard
  <2> QED BY <2>1
<1>5. ASSUME NEW d \in store'.roster \ stranded' PROVE InHand(hand'[d].at) \/ Settled(d)'
  <2>1. CASE d = c
    BY <1>1, <1>5, <2>1
  <2>2. CASE d # c
    BY <1>1, <1>2, <1>5, <2>2 DEF SeatsInv, Accounted, Others
  <2> QED BY <2>1, <2>2
<1> QED BY <1>3, <1>4, <1>5 DEF SeatsInv, NodesKept, Accounted

\* A step of a node or of the store.
LEMMA NodeStep ==
    ASSUME IndInv, SeatsInv, UNCHANGED <<hand, gone, stranded>>,
           store'.roster \subseteq store.roster, NodesKept,
           \A d \in store'.roster : Settled(d) => Settled(d)',
           \A d \in Client : d \in entry'[HomeOf[d]].seats => d \in entry[HomeOf[d]].seats,
           \A m \in net' \ net : Heard(m)'
    PROVE  SeatsInv'
<1>1. store.roster \subseteq Client
  BY DEF IndInv, TypeOK
<1>2. Handlers'
  BY <1>1 DEF SeatsInv, Handlers
<1>3. \A m \in net' : Heard(m)'
  BY DEF SeatsInv, Heard
<1>4. Accounted'
  BY DEF SeatsInv, Accounted
<1> QED BY <1>2, <1>3, <1>4 DEF SeatsInv, NodesKept

-----------------------------------------------------------------------------
(* Every step accounts for the roster                                      *)

LEMMA FramesOpen ==
    ASSUME SeatsInv, NEW c \in Client, hand[c].at \notin {"drop", "done"}
    PROVE  c \notin gone
BY DEF SeatsInv, Handlers

\* A step that neither moves a seat nor claims that its handler says so.
LEMMA SeatsStay ==
    ASSUME IndInv, SeatsInv, NEW c \in Client, NEW h \in Hands, Then(c, h),
           hand[c].at \notin {"drop", "done"}, UNCHANGED <<gone, net, stranded>>,
           store'.roster \subseteq store.roster, NodesKept, Others(c),
           h.at \notin {"left", "resume", "resumed", "done"},
           c \in store'.roster \ stranded => InHand(h.at) \/ Settled(c)'
    PROVE  SeatsInv'
<1>1. c \notin gone
  BY FramesOpen
<1> QED BY <1>1, ClientStep

LEMMA JoinLooksAccounts ==
    ASSUME IndInv, SeatsInv, NEW c \in Client, JoinLooks(c)
    PROVE  SeatsInv'
<1> DEFINE n == HomeOf[c]
           reap == [At("reap") EXCEPT !.dead = store.roster]
<1>1. store.roster \subseteq Client /\ n \in Node
  BY CallAssumption DEF IndInv, TypeOK
<1>2. At("read") \in Hands /\ reap \in Hands /\ At("read").at = "read" /\ reap.at = "reap"
  BY <1>1 DEF At, Idle, Hands, Steps
<1>3. Then(c, At("read")) \/ Then(c, reap)
  BY DEF JoinLooks
<1>4. hand[c].at = "idle" /\ UNCHANGED <<store, gone, net, stranded>>
  BY DEF JoinLooks, StoreReads, Frame, Arrives
<1>5. NodeIdle \/ Forgets(n, {})
  BY DEF JoinLooks
<1>6. NodesKept /\ Others(c) /\ (Settled(c) => Settled(c)')
  <2>1. CASE NodeIdle
    BY <2>1, NodeIdleKeeps DEF NodeIdle, nodeVars
  <2>2. CASE Forgets(n, {})
    BY <1>1, <2>2, ForgetsKeeps DEF Others
  <2> QED BY <1>5, <2>1, <2>2
<1>7. c \in store'.roster \ stranded => Settled(c)'
  BY <1>4, <1>6 DEF SeatsInv, Accounted, InHand
<1> HIDE DEF reap
<1> QED BY <1>2, <1>3, <1>4, <1>6, <1>7, SeatsStay

LEMMA JoinReapsAccounts ==
    ASSUME IndInv, SeatsInv, NEW c \in Client, JoinReaps(c)
    PROVE  SeatsInv'
<1>1. At("read") \in Hands /\ At("read").at = "read" /\ Then(c, At("read"))
  BY AtHands DEF Steps, JoinReaps
<1>2. hand[c].at = "reap" /\ UNCHANGED <<gone, net, stranded, entry, queue>>
  BY DEF JoinReaps, Answered, StoreWrites, NodeIdle, nodeVars
<1>3. store' = store \/ store'.roster = {}
  BY DEF JoinReaps, forgetCall, IndInv, TypeOK
<1>4. NodesKept /\ Others(c) /\ (Settled(c) => Settled(c)')
  BY <1>2, NodeIdleKeeps
<1>5. c \in store'.roster \ stranded => Settled(c)'
  BY <1>2, <1>3, <1>4 DEF SeatsInv, Accounted, InHand
<1> QED BY <1>1, <1>2, <1>3, <1>4, <1>5, SeatsStay

LEMMA JoinReadsAccounts ==
    ASSUME IndInv, SeatsInv, NEW c \in Client, JoinReads(c)
    PROVE  SeatsInv'
<1> DEFINE claim == [At("claim") EXCEPT !.call = store.call]
<1>1. Idle \in Hands /\ claim \in Hands /\ Idle.at = "idle" /\ claim.at = "claim"
  BY DEF At, Idle, Hands, Steps, IndInv, TypeOK
<1>2. Then(c, Idle) \/ Then(c, claim)
  BY DEF JoinReads
<1>3. hand[c].at = "read" /\ UNCHANGED <<store, gone, net, stranded, entry, queue>>
  BY DEF JoinReads, Answered, StoreReads, NodeIdle, nodeVars
<1>4. NodesKept /\ Others(c) /\ (Settled(c) => Settled(c)')
  BY <1>3, NodeIdleKeeps
<1>5. c \in store'.roster \ stranded => Settled(c)'
  BY <1>3, <1>4 DEF SeatsInv, Accounted, InHand
<1> HIDE DEF claim
<1> QED BY <1>1, <1>2, <1>3, <1>4, <1>5, SeatsStay

\* A join that wins is in its node's entry.
LEMMA WinAccounts ==
    ASSUME IndInv, SeatsInv, NEW c \in Client, NEW dead, Wins(c, dead),
           hand[c].at \notin {"drop", "done"}, UNCHANGED <<gone, net, stranded>>
    PROVE  SeatsInv'
<1>1. HomeOf[c] \in Node
  BY CallAssumption
<1>2. Idle \in Hands /\ Idle.at = "idle" /\ Then(c, Idle)
  BY DEF Idle, Hands, Steps, Wins
<1>3. store'.roster \subseteq store.roster \cup {c}
  BY DEF Wins, claimAcceptedSeat, Seats, IndInv, TypeOK
<1>4. Queues' /\ \A d \in Client : Leaving(d) => Leaving(d)'
  <2>1. Queues /\ "mark" \in Ops /\ {} \in SUBSET Client /\ Sends(HomeOf[c], "mark", {})
    BY DEF SeatsInv, Ops, Wins
  <2> QED BY <1>1, <2>1, SendsAdds
<1>5. NodesKept /\ Settled(c)' /\ Others(c)
  BY <1>4, RegistersKeeps DEF Wins
<1>6. c \notin gone
  BY FramesOpen
<1> QED BY <1>2, <1>3, <1>5, <1>6, ClientStep

LEMMA JoinClaimsAccounts ==
    ASSUME IndInv, SeatsInv, NEW c \in Client, JoinClaims(c)
    PROVE  SeatsInv'
<1> DEFINE lost == [At("lost") EXCEPT !.dead = {store.seat[UserOf[c]]}]
           next == IF store.call THEN lost
                   ELSE IF hand[c].at = "claim" /\ ~hand[c].call THEN At("create") ELSE Idle
<1>1. hand[c].at \in {"claim", "again"} /\ UNCHANGED <<gone, net, stranded>>
  BY DEF JoinClaims, Answered, StoreWrites
<1>2. CASE Wins(c, {})
  BY <1>1, <1>2, WinAccounts
<1>3. CASE Loses(c, {}, next)
  <2>1. {store.seat[UserOf[c]]} \in SUBSET (Client \cup {none})
    <3>1. UserOf[c] \in User /\ store.seat \in [User -> Client \cup {none}]
      BY CallAssumption DEF IndInv, TypeOK
    <3> QED BY <3>1
  <2>2. /\ next \in Hands /\ next.at \in {"lost", "create", "idle"}
        /\ store.call => next.at = "lost"
    BY <2>1 DEF At, Idle, Hands, Steps
  <2>3. Then(c, next) /\ UNCHANGED <<store, entry, queue>>
    BY <1>3 DEF Loses, NodeIdle, nodeVars
  <2>4. NodesKept /\ Others(c) /\ (Settled(c) => Settled(c)')
    BY <2>3, NodeIdleKeeps
  <2>5. c \in store'.roster \ stranded => InHand(next.at)
    BY <2>2, <2>3 DEF IndInv, SeatsHeld, InHand
  <2> HIDE DEF next
  <2> QED BY <1>1, <2>2, <2>3, <2>4, <2>5, SeatsStay
<1> QED BY <1>2, <1>3 DEF JoinClaims

LEMMA JoinCreatesAccounts ==
    ASSUME IndInv, SeatsInv, NEW c \in Client, JoinCreates(c)
    PROVE  SeatsInv'
<1>1. At("again") \in Hands /\ At("again").at = "again" /\ Then(c, At("again"))
  BY AtHands DEF Steps, JoinCreates
<1>2. hand[c].at = "create" /\ UNCHANGED <<gone, net, stranded, entry, queue>>
  BY DEF JoinCreates, Answered, StoreWrites, NodeIdle, nodeVars
<1>3. store'.roster = store.roster \cup {c}
  BY DEF JoinCreates, registerParticipant, IndInv, TypeOK
<1>4. NodesKept /\ Others(c)
  BY <1>2, NodeIdleKeeps
<1>5. c \notin gone
  BY <1>2, FramesOpen
<1> QED BY <1>1, <1>2, <1>3, <1>4, <1>5, ClientStep DEF InHand

LEMMA JoinReplacesAccounts ==
    ASSUME IndInv, SeatsInv, NEW c \in Client, JoinReplaces(c)
    PROVE  SeatsInv'
<1> DEFINE next == IF store.call THEN At("undo") ELSE Idle
<1>1. hand[c].at = "lost" /\ UNCHANGED <<gone, net, stranded>>
  BY DEF JoinReplaces, Answered, StoreWrites
<1>2. CASE Wins(c, hand[c].dead)
  BY <1>1, <1>2, WinAccounts
<1>3. CASE Loses(c, hand[c].dead, next)
  <2>1. /\ next \in Hands /\ next.at \in {"undo", "idle"}
        /\ store.call => next.at = "undo"
    BY DEF At, Idle, Hands, Steps
  <2>2. Then(c, next) /\ UNCHANGED <<store, entry, queue>>
    BY <1>3 DEF Loses, NodeIdle, nodeVars
  <2>3. NodesKept /\ Others(c)
    BY <2>2, NodeIdleKeeps
  <2>4. c \in store'.roster \ stranded => InHand(next.at)
    BY <2>1, <2>2 DEF IndInv, SeatsHeld, InHand
  <2> HIDE DEF next
  <2> QED BY <1>1, <2>1, <2>2, <2>3, <2>4, SeatsStay
<1> QED BY <1>2, <1>3 DEF JoinReplaces

LEMMA RemovedRoster ==
    ASSUME IndInv, NEW out
    PROVE  /\ removeParticipants(store, out).roster \subseteq store.roster
           /\ removeParticipants(store, out).roster \cap out = {}
<1>1. removeParticipants(store, out).roster \cap out = {}
  BY RemoveHolds DEF IndInv
<1>2. removeParticipants(store, out).roster \subseteq store.roster
  BY DEF removeParticipants, IndInv, TypeOK
<1> QED BY <1>1, <1>2

LEMMA JoinUndoesAccounts ==
    ASSUME IndInv, SeatsInv, NEW c \in Client, JoinUndoes(c)
    PROVE  SeatsInv'
<1>1. Idle \in Hands /\ Idle.at = "idle" /\ Then(c, Idle)
  BY DEF Idle, Hands, Steps, JoinUndoes
<1>2. hand[c].at \in {"lost", "undo"} /\ UNCHANGED <<gone, net, stranded, entry, queue>>
  BY DEF JoinUndoes, Answered, StoreWrites, NodeIdle, nodeVars
<1>3. store'.roster \subseteq store.roster /\ c \notin store'.roster
  BY RemovedRoster DEF JoinUndoes
<1>4. NodesKept /\ Others(c)
  BY <1>2, NodeIdleKeeps
<1> QED BY <1>1, <1>2, <1>3, <1>4, SeatsStay

LEMMA RejoinReadsAccounts ==
    ASSUME IndInv, SeatsInv, NEW c \in Client, RejoinReads(c)
    PROVE  SeatsInv'
<1> DEFINE n == HomeOf[c]
<1>1. PICK dead \in Probed(n) :
         Then(c, [at |-> "resume", call |-> entry[n].here,
                  dead |-> IF entry[n].here THEN {} ELSE dead \cap store.roster])
  BY DEF RejoinReads
<1> DEFINE h == [at |-> "resume", call |-> entry[n].here,
                 dead |-> IF entry[n].here THEN {} ELSE dead \cap store.roster]
<1>2. h \in Hands /\ h.at = "resume" /\ h.dead \subseteq gone
  <2>1. entry[n].here \in BOOLEAN
    BY CallAssumption DEF SeatsInv, Entries
  <2> QED BY <2>1 DEF Hands, Steps, IndInv, TypeOK, Probed
<1>3. hand[c].at = "idle" /\ UNCHANGED <<store, gone, net, stranded, entry, queue>>
  BY DEF RejoinReads, Frame, Arrives, StoreReads
<1>4. NodesKept /\ Others(c) /\ (Settled(c) => Settled(c)')
  BY <1>3, NodeIdleKeeps
<1>5. c \in store'.roster \ stranded' => Settled(c)'
  BY <1>3, <1>4 DEF SeatsInv, Accounted, InHand
<1>6. c \notin gone
  BY <1>3, FramesOpen
<1> HIDE DEF h
<1> QED BY <1>1, <1>2, <1>3, <1>4, <1>5, <1>6, ClientStep DEF h

LEMMA RejoinResumesAccounts ==
    ASSUME IndInv, SeatsInv, NEW c \in Client, RejoinResumes(c)
    PROVE  SeatsInv'
<1> DEFINE dead == hand[c].dead
           h == [at |-> "resumed", call |-> hand[c].call, dead |-> dead]
<1>1. hand[c] \in Hands /\ Idle \in Hands /\ h \in Hands /\ Idle.at = "idle" /\ h.at = "resumed"
  BY DEF IndInv, TypeOK, Hands, Idle, Steps
<1>2. hand[c].at = "resume" /\ UNCHANGED <<gone, net, stranded, entry, queue>>
  BY DEF RejoinResumes, Answered, StoreWrites
<1>3. NodesKept /\ Others(c) /\ (Settled(c) => Settled(c)')
  BY <1>2, NodeIdleKeeps
<1>4. c \notin gone /\ dead \subseteq gone
  BY <1>2, FramesOpen DEF SeatsInv, Handlers
<1>5. CASE MayResume(store, c, dead) /\ store' = resumeParticipant(store, c, dead) /\ Then(c, h)
  <2>1. store'.roster = (store.roster \ (dead \ {c})) \cup {c}
    BY <1>5 DEF resumeParticipant, Seats, IndInv, TypeOK
  <2>2. h.dead \subseteq gone /\ h.dead \cap store'.roster = {}
    BY <1>4, <2>1
  <2>3. store'.roster \subseteq store.roster \cup ({c} \ gone)
    BY <1>4, <2>1
  <2> HIDE DEF h
  <2> QED BY <1>1, <1>2, <1>3, <1>4, <1>5, <2>2, <2>3, ClientStep DEF InHand
<1>6. CASE store' = store /\ Then(c, Idle)
  <2>1. c \in store'.roster \ stranded => Settled(c)'
    BY <1>2, <1>3, <1>6 DEF SeatsInv, Accounted, InHand
  <2> QED BY <1>1, <1>2, <1>3, <1>6, <2>1, SeatsStay
<1> QED BY <1>5, <1>6 DEF RejoinResumes

\* A rejoin that its node accepts is in the entry, and the tabs it replaces are
\* being dropped; one that its node refuses is remembered.
LEMMA RejoinSeatsAccounts ==
    ASSUME IndInv, SeatsInv, NEW c \in Client, RejoinSeats(c)
    PROVE  SeatsInv'
<1> DEFINE n == HomeOf[c]
           dead == hand[c].dead
           previous == Twins(c) \cap (IF entry[n].here THEN entry[n].seats
                                      ELSE store.roster \cap (Of(n) \ gone))
<1>1. Idle \in Hands /\ Idle.at = "idle" /\ Then(c, Idle)
  BY DEF Idle, Hands, Steps, RejoinSeats
<1>2. hand[c].at = "resumed" /\ UNCHANGED <<store, gone, net>>
  BY DEF RejoinSeats, Answered
<1>3. c \notin gone /\ dead \cap store.roster = {} /\ n \in Node
  BY <1>2, FramesOpen, CallAssumption DEF SeatsInv, Handlers
<1>4. CASE /\ Registers(n, c, previous \cup dead)
           /\ IF previous = {} THEN UNCHANGED queue ELSE Sends(n, "drop", previous)
           /\ UNCHANGED stranded
  <2>1. previous \in SUBSET Client /\ c \notin previous
    BY DEF Twins
  <2>2. /\ Queues'
        /\ \A d \in Client : Leaving(d) => Leaving(d)'
        /\ \A d \in previous : HomeOf[d] = n => Leaving(d)'
    <3>1. CASE previous = {}
      BY <1>4, <3>1 DEF SeatsInv, Queues, Leaving
    <3>2. CASE previous # {}
      <4>1. Queues /\ Sends(n, "drop", previous) /\ "drop" \in Ops
        BY <1>4, <3>2 DEF SeatsInv, Ops
      <4>2. \A d \in previous : Removes([op |-> "drop", who |-> previous], d)
        BY DEF Removes
      <4> HIDE DEF previous
      <4> QED BY <1>3, <2>1, <4>1, <4>2, SendsAdds
    <3> QED BY <3>1, <3>2
  <2>3. \A d \in previous : HomeOf[d] = n
    BY <1>3 DEF SeatsInv, EntriesFit, Of
  <2>4. \A d \in (store'.roster \cap entry[n].seats \cap (previous \cup dead)) \ {c} : Settled(d)'
    BY <1>2, <1>3, <2>2, <2>3 DEF Settled
  <2>5. Registers(n, c, previous \cup dead)
    BY <1>4
  <2>6. NodesKept /\ Settled(c)' /\ Others(c)
    <3> HIDE DEF previous
    <3> QED BY <2>2, <2>4, <2>5, RegistersKeeps
  <2>7. stranded' = stranded
    BY <1>4
  <2> HIDE DEF previous
  <2> QED BY <1>1, <1>2, <1>3, <2>6, <2>7, ClientStep
<1>5. CASE /\ c \notin store.roster \/ c \in stranded'
           /\ stranded \subseteq stranded'
           /\ UNCHANGED <<entry, queue>>
  <2>1. NodesKept /\ Others(c)
    BY <1>5, NodeIdleKeeps
  <2> QED BY <1>1, <1>2, <1>3, <1>5, <2>1, ClientStep
<1> QED BY <1>4, <1>5 DEF RejoinSeats

LEMMA LeaveRemovesAccounts ==
    ASSUME IndInv, SeatsInv, NEW c \in Client, LeaveRemoves(c)
    PROVE  SeatsInv'
<1>1. At("left") \in Hands /\ At("left").at = "left" /\ Then(c, At("left"))
  BY AtHands DEF Steps, LeaveRemoves
<1>2. hand[c].at = "idle" /\ UNCHANGED <<gone, net, stranded, entry, queue>>
  BY DEF LeaveRemoves, Frame, Arrives, StoreWrites, NodeIdle, nodeVars
<1>3. store'.roster \subseteq store.roster /\ c \notin store'.roster
  BY RemovedRoster DEF LeaveRemoves
<1>4. NodesKept /\ Others(c)
  BY <1>2, NodeIdleKeeps
<1>5. c \notin gone
  BY <1>2, FramesOpen
<1> QED BY <1>1, <1>2, <1>3, <1>4, <1>5, ClientStep

\* The client that left is off the roster, and the entry that goes has nobody
\* else in it.
LEMMA LeaveEndsAccounts ==
    ASSUME IndInv, SeatsInv, NEW c \in Client, LeaveEnds(c)
    PROVE  SeatsInv'
<1> DEFINE n == HomeOf[c]
<1>1. Idle \in Hands /\ Idle.at = "idle" /\ Then(c, Idle)
  BY DEF Idle, Hands, Steps, LeaveEnds
<1>2. hand[c].at = "left" /\ UNCHANGED <<store, gone, net, stranded>>
  BY DEF LeaveEnds, Answered, StoreReads
<1>3. c \notin store'.roster
  BY <1>2 DEF SeatsInv, Handlers
<1>4. n \in Node
  BY CallAssumption
<1>5. Queues' /\ \A d \in Client : Leaving(d) => Leaving(d)'
  <2>1. CASE UNCHANGED queue
    BY <2>1 DEF SeatsInv, Queues, Leaving
  <2>2. CASE Sends(n, "take", {})
    <3>1. Queues /\ "take" \in Ops /\ {} \in SUBSET Client
      BY DEF SeatsInv, Ops
    <3> QED BY <1>4, <2>2, <3>1, SendsAdds
  <2> QED BY <2>1, <2>2 DEF LeaveEnds
<1>6. NodesKept /\ Others(c)
  <2>1. CASE Unseats(n, c)
    BY <1>4, <1>5, <2>1, UnseatsKeeps
  <2>2. CASE Deletes(n) /\ entry[n].seats \subseteq {c}
    <3>1. entry' = [entry EXCEPT ![n] = NoEntry] /\ entry \in [Node -> [here : BOOLEAN, seats : SUBSET Client]]
      BY <2>2 DEF Deletes, SeatsInv, Entries
    <3>2. entry'[n] = NoEntry /\ \A k \in Node \ {n} : entry'[k] = entry[k]
      BY <1>4, <3>1
    <3>3. Entries' /\ EntriesFit'
      BY <3>1, <3>2 DEF SeatsInv, Entries, EntriesFit, NoEntry
    <3>4. \A d \in Client : HomeOf[d] \in Node
      BY CallAssumption
    <3>5. Others(c)
      BY <1>5, <2>2, <3>2, <3>4 DEF Others, Settled, NoEntry
    <3> QED BY <1>5, <3>3, <3>5 DEF NodesKept
  <2> QED BY <2>1, <2>2 DEF LeaveEnds
<1> QED BY <1>1, <1>2, <1>3, <1>6, SeatsStay

\* A closed socket that its node does not know is on the roster only if the
\* node refused it.
LEMMA DisconnectsAccounts ==
    ASSUME IndInv, SeatsInv, NEW c \in Client, Disconnects(c)
    PROVE  SeatsInv'
<1>1. PICK step \in {"drop", "done"} :
         /\ Then(c, At(step))
         /\ step = "done" => c \notin entry[HomeOf[c]].seats
  BY DEF Disconnects
<1>2. At(step) \in Hands /\ At(step).at = step
  BY AtHands DEF Steps
<1>3. /\ hand[c].at = "idle" /\ gone' = gone \cup {c} /\ c \notin gone
      /\ UNCHANGED <<store, net, stranded, entry, queue>>
  BY DEF Disconnects, Arrives, NodeIdle, nodeVars
<1>4. NodesKept /\ Others(c) /\ (Settled(c) => Settled(c)')
  BY <1>3, NodeIdleKeeps
<1>5. c \in store'.roster \ stranded' => Settled(c)'
  BY <1>3, <1>4 DEF SeatsInv, Accounted, InHand
<1> QED BY <1>1, <1>2, <1>3, <1>4, <1>5, ClientStep

LEMMA DepartureFits ==
    ASSUME NEW who, NEW ends, NEW roster, NEW m \in Departure(who, ends, roster)
    PROVE  m.to \in Node /\ m.who = who /\ m.ends = ends
BY DEF Departure

\* The departure is queued for the store before the handler is done with it.
LEMMA DropEndsAccounts ==
    ASSUME IndInv, SeatsInv, NEW c \in Client, DropEnds(c)
    PROVE  SeatsInv'
<1> DEFINE n == HomeOf[c]
           remaining == Larger(store.roster \ {c}, entry[n].seats \ {c})
<1>1. At("done") \in Hands /\ At("done").at = "done" /\ Then(c, At("done"))
  BY AtHands DEF Steps, DropEnds
<1>2. hand[c].at = "drop" /\ UNCHANGED <<store, gone, stranded>>
  BY DEF DropEnds, Answered
<1>3. n \in Node /\ {c} \in SUBSET Client /\ Queues
  BY CallAssumption DEF SeatsInv
<1>4. \A m \in net' \ net : Heard(m)'
  <2>1. \A m \in net' \ net : m.to \in Node /\ m.who = c
    BY DepartureFits DEF DropEnds
  <2>2. hand'[c].at = "done"
    BY <1>1 DEF Then, IndInv, TypeOK
  <2> QED BY <2>1, <2>2 DEF Heard
<1>5. /\ NodesKept /\ Others(c) /\ c \notin entry'[n].seats
      /\ Settled(c) => Settled(c)'
  <2>1. CASE Unseats(n, c) /\ Sends(n, "drop", {c})
    <3>1. Removes([op |-> "drop", who |-> {c}], c) /\ "drop" \in Ops
      BY DEF Removes, Ops
    <3>2. Queues' /\ (\A d \in Client : Leaving(d) => Leaving(d)') /\ Leaving(c)'
      BY <1>3, <2>1, <3>1, SendsAdds
    <3> QED BY <1>3, <2>1, <3>2, UnseatsKeeps DEF Settled
  <2>2. CASE entry[n].here /\ Forgets(n, {c})
    BY <1>3, <2>2, ForgetsKeeps DEF Others
  <2>3. CASE ~entry[n].here /\ Sends(n, "unlink", {c}) /\ UNCHANGED nodeVars
    <3>1. "unlink" \in Ops /\ entry' = entry
      BY <2>3 DEF Ops, nodeVars
    <3>2. Queues' /\ \A d \in Client : Leaving(d) => Leaving(d)'
      BY <1>3, <2>3, <3>1, SendsAdds
    <3>3. \A d \in Client : Settled(d) => Settled(d)'
      BY <3>1, <3>2 DEF Settled
    <3>4. c \notin entry'[n].seats
      BY <1>3, <2>3, <3>1 DEF SeatsInv, EntriesFit
    <3> QED BY <3>1, <3>2, <3>3, <3>4 DEF NodesKept, Others, SeatsInv, Entries, EntriesFit
  <2> QED BY <2>1, <2>2, <2>3 DEF DropEnds
<1>6. c \in store'.roster \ stranded' => Settled(c)'
  BY <1>2, <1>5 DEF SeatsInv, Accounted, InHand
<1> QED BY <1>1, <1>2, <1>4, <1>5, <1>6, ClientStep

\* Until the command that takes c out has run, it is on its way.
LEMMA StoreRunsAccounts ==
    ASSUME IndInv, SeatsInv, NEW n \in Node, StoreRuns(n)
    PROVE  SeatsInv'
<1> DEFINE job == Head(queue[n])
<1>1. UNCHANGED <<hand, gone, stranded, net, entry>>
  BY DEF StoreRuns, nodeVars
<1>2. /\ queue \in [Node -> Seq(Jobs)] /\ queue[n] # <<>>
      /\ queue' = [queue EXCEPT ![n] = Tail(queue[n])]
      /\ store' = Runs(store, job)
  BY DEF StoreRuns, Flushed, SeatsInv, Queues
<1>3. job \in Jobs /\ Tail(queue[n]) \in Seq(Jobs) /\ job = queue[n][1]
  BY <1>2
<1>4. NodesKept
  BY <1>1, <1>2, <1>3 DEF NodesKept, SeatsInv, Queues, Entries, EntriesFit
<1>5. /\ store'.roster \subseteq store.roster
      /\ \A d \in store'.roster : ~Removes(job, d)
  <2>1. CASE job.op = "forget"
    BY <1>2, <2>1 DEF Runs, forgetCall, IndInv, TypeOK
  <2>2. CASE job.op = "drop"
    <3>1. removeParticipants(store, job.who) \in Stores
      <4>1. SeatsHeld(removeParticipants(store, job.who), Undecided)
        BY RemoveHolds DEF IndInv
      <4> QED BY <4>1 DEF SeatsHeld
    <3>2. store'.roster = removeParticipants(store, job.who).roster
      BY <1>2, <2>2, <3>1 DEF Runs, Stores
    <3> QED BY <2>2, <3>2, RemovedRoster DEF Removes
  <2>3. CASE job.op \notin {"forget", "drop"}
    BY <1>2, <2>3 DEF Runs, Removes, IndInv, TypeOK
  <2> QED BY <2>1, <2>2, <2>3
<1>6. ASSUME NEW d \in store'.roster, Settled(d) PROVE Settled(d)'
  <2>1. CASE d \in entry[HomeOf[d]].seats
    BY <1>1, <2>1 DEF Settled
  <2>2. CASE Leaving(d)
    <3>1. PICK i \in DOMAIN queue[HomeOf[d]] : Removes(queue[HomeOf[d]][i], d)
      BY <2>2 DEF Leaving
    <3>2. CASE HomeOf[d] # n
      BY <1>2, <3>1, <3>2 DEF Settled, Leaving
    <3>3. CASE HomeOf[d] = n
      <4>1. i # 1
        BY <1>3, <1>5, <3>1, <3>3
      <4>2. i - 1 \in DOMAIN queue'[n] /\ queue'[n][i - 1] = queue[n][i]
        BY <1>2, <1>3, <3>1, <3>3, <4>1
      <4> QED BY <3>1, <3>3, <4>2 DEF Settled, Leaving
    <3> QED BY <3>2, <3>3
  <2> QED BY <1>6, <2>1, <2>2 DEF Settled
<1> QED BY <1>1, <1>4, <1>5, <1>6, NodeStep

\* The grace, and the departures it and the closes tell.
LEMMA GraceAccounts ==
    ASSUME IndInv, SeatsInv, NEW n \in Node, GraceExpires(n) \/ GraceTells(n) \/ GraceForgets(n)
    PROVE  SeatsInv'
<1>1. UNCHANGED <<hand, gone, stranded, store>>
  BY DEF GraceExpires, GraceTells, GraceForgets
<1>2. store'.roster \subseteq Client
  BY <1>1 DEF IndInv, TypeOK
<1>3. CASE UNCHANGED <<entry, queue>> /\ \A m \in net' \ net : m.to \in Node /\ m.ends
  <2>1. NodesKept /\ (\A d \in Client : Settled(d) => Settled(d)')
    BY <1>3, NodeIdleKeeps
  <2>2. \A m \in net' \ net : Heard(m)'
    BY <1>3 DEF Heard
  <2> QED BY <1>1, <1>2, <1>3, <2>1, <2>2, NodeStep
<1>4. CASE Forgets(n, {}) /\ UNCHANGED net
  <2>1. /\ NodesKept
        /\ \A d \in Client : Settled(d) => Settled(d)'
        /\ \A d \in Client : d \in entry'[HomeOf[d]].seats => d \in entry[HomeOf[d]].seats
    BY <1>4, ForgetsKeeps
  <2> QED BY <1>1, <1>2, <1>4, <2>1, NodeStep
<1>5. CASE GraceTells(n)
  <2>1. UNCHANGED <<entry, queue>>
    BY <1>5 DEF GraceTells, nodeVars
  <2>2. \A m \in net' \ net : m.to \in Node /\ m.ends
    <3> DEFINE e == expiry[n]
               roster == (e.here \cup store.roster) \ {e.who}
    <3>1. net' \ net \subseteq Departure(e.who, TRUE, roster)
      BY <1>5 DEF GraceTells
    <3>2. \A m \in Departure(e.who, TRUE, roster) : m.to \in Node /\ m.ends
      BY DEF Departure
    <3> QED BY <3>1, <3>2
  <2> QED BY <1>3, <2>1, <2>2
<1> QED BY <1>3, <1>4, <1>5 DEF GraceExpires, GraceForgets

LEMMA DepartureAccounts ==
    ASSUME IndInv, SeatsInv, NEW m \in net, DepartureHeard(m)
    PROVE  SeatsInv'
<1> DEFINE n == m.to
<1>1. UNCHANGED <<hand, gone, stranded, store>> /\ net' \subseteq net
  BY DEF DepartureHeard
<1>2. store'.roster \subseteq Client
  BY <1>1 DEF IndInv, TypeOK
<1>3. n \in Node /\ (~m.ends => m.who \in Client /\ hand[m.who].at = "done")
  BY DEF SeatsInv, Heard
<1>4. CASE Forgets(n, {})
  <2>1. /\ NodesKept
        /\ \A d \in Client : Settled(d) => Settled(d)'
        /\ \A d \in Client : d \in entry'[HomeOf[d]].seats => d \in entry[HomeOf[d]].seats
    BY <1>3, <1>4, ForgetsKeeps
  <2> QED BY <1>1, <1>2, <2>1, NodeStep
<1>5. CASE NodeIdle
  <2>1. NodesKept /\ (\A d \in Client : Settled(d) => Settled(d)') /\ UNCHANGED entry
    BY <1>5, NodeIdleKeeps DEF NodeIdle, nodeVars
  <2> QED BY <1>1, <1>2, <2>1, NodeStep
<1>6. CASE ~m.ends /\ Unseats(n, m.who) /\ UNCHANGED queue
  <2>1. Queues' /\ \A d \in Client : Leaving(d) => Leaving(d)'
    BY <1>6 DEF SeatsInv, Queues, Leaving
  <2>2. /\ NodesKept /\ Others(m.who)
        /\ m.who \in entry'[HomeOf[m.who]].seats => m.who \in entry[HomeOf[m.who]].seats
    BY <1>3, <1>6, <2>1, UnseatsKeeps
  <2>3. m.who \notin entry[HomeOf[m.who]].seats
    BY <1>3, <1>6 DEF SeatsInv, Handlers
  <2>4. \A d \in Client : d \in entry'[HomeOf[d]].seats => d \in entry[HomeOf[d]].seats
    BY <2>2 DEF Others
  <2>5. \A d \in store'.roster : Settled(d) => Settled(d)'
    BY <1>2, <2>1, <2>2, <2>3 DEF Others, Settled
  <2> QED BY <1>1, <2>2, <2>4, <2>5, NodeStep
<1> QED BY <1>4, <1>5, <1>6 DEF DepartureHeard

LEMMA InitAccounts == Init => SeatsInv
<1> SUFFICES ASSUME Init PROVE SeatsInv
  OBVIOUS
<1>1. Entries /\ EntriesFit
  BY DEF Init, Entries, EntriesFit, NoEntry
<1>2. Queues
  <2>1. <<>> \in Seq(Jobs)
    OBVIOUS
  <2> QED BY <2>1 DEF Init, Queues
<1>3. Handlers /\ Accounted
  BY DEF Init, Handlers, Accounted, Idle
<1> QED BY <1>1, <1>2, <1>3 DEF Init, SeatsInv

LEMMA NextAccounts == IndInv /\ SeatsInv /\ [Next]_vars => SeatsInv'
<1> SUFFICES ASSUME IndInv, SeatsInv, [Next]_vars PROVE SeatsInv'
  OBVIOUS
<1>1. ASSUME NEW c \in Client,
             \/ JoinLooks(c) \/ JoinReaps(c) \/ JoinReads(c) \/ JoinClaims(c)
             \/ JoinCreates(c) \/ JoinReplaces(c) \/ JoinUndoes(c)
      PROVE  SeatsInv'
  BY <1>1, JoinLooksAccounts, JoinReapsAccounts, JoinReadsAccounts, JoinClaimsAccounts,
     JoinCreatesAccounts, JoinReplacesAccounts, JoinUndoesAccounts
<1>2. ASSUME NEW c \in Client,
             \/ RejoinReads(c) \/ RejoinResumes(c) \/ RejoinSeats(c)
             \/ LeaveRemoves(c) \/ LeaveEnds(c) \/ Disconnects(c) \/ DropEnds(c)
      PROVE  SeatsInv'
  BY <1>2, RejoinReadsAccounts, RejoinResumesAccounts, RejoinSeatsAccounts,
     LeaveRemovesAccounts, LeaveEndsAccounts, DisconnectsAccounts, DropEndsAccounts
<1>3. ASSUME NEW n \in Node, StoreRuns(n) \/ GraceExpires(n) \/ GraceTells(n) \/ GraceForgets(n)
      PROVE  SeatsInv'
  BY <1>3, StoreRunsAccounts, GraceAccounts
<1>4. ASSUME NEW m \in net, DepartureHeard(m) PROVE SeatsInv'
  BY <1>4, DepartureAccounts
<1>5. CASE UNCHANGED vars
  BY <1>5 DEF vars, nodeVars, SeatsInv, Entries, Queues, EntriesFit, Handlers, Heard, Accounted,
              Settled, Leaving
<1> QED BY <1>1, <1>2, <1>3, <1>4, <1>5 DEF Next

LEMMA AlwaysAccounted == Spec => [](IndInv /\ SeatsInv)
<1>1. IndInv /\ SeatsInv /\ [Next]_vars => IndInv'
  BY NextKeeps DEF SeatsInv
<1> QED BY <1>1, InitHolds, InitAccounts, NextAccounts, PTL DEF Spec

\* When nothing is in flight, the roster is what the nodes' entries and the
\* refused rejoins make of it.
LEMMA QuietRoster ==
    ASSUME IndInv, SeatsInv, Quiet, NEW c \in store.roster \ stranded
    PROVE  c \in Client /\ c \in entry[HomeOf[c]].seats
<1>1. c \in Client /\ HomeOf[c] \in Node
  BY CallAssumption DEF IndInv, TypeOK
<1>2. ~InHand(hand[c].at)
  BY <1>1 DEF Quiet, InHand
<1>3. ~Leaving(c)
  BY <1>1 DEF Quiet, Flushed, Leaving
<1> QED BY <1>1, <1>2, <1>3 DEF SeatsInv, Accounted, Settled

\* However people leave, drop out together and come back, no closed socket
\* stays on the roster once nothing is in flight, except one whose rejoin its
\* node refused (handleDisconnect: "a ghost call that never ended").
THEOREM NoGhostCalls == Spec => []NoGhosts
<1>1. ASSUME IndInv, SeatsInv, Quiet, NEW c \in (store.roster \cap gone) \ stranded PROVE FALSE
  <2>1. c \in Client /\ c \in entry[HomeOf[c]].seats
    BY <1>1, QuietRoster
  <2>2. hand[c].at = "done"
    BY <1>1, <2>1 DEF Quiet, SeatsInv, Handlers
  <2> QED BY <1>1, <2>1, <2>2 DEF SeatsInv, Handlers
<1>2. IndInv /\ SeatsInv => NoGhosts
  BY <1>1 DEF NoGhosts
<1> QED BY AlwaysAccounted, <1>2, PTL

\* Once nothing is in flight the node of every open client of the roster has it
\* in its entry, with the same exception: its close and its hang-up are cleaned
\* up from there.
THEOREM SeatedClientsKnown == Spec => []SeatsKnown
<1>1. ASSUME IndInv, SeatsInv, Quiet, NEW n \in Node,
             NEW c \in ((store.roster \cap Of(n)) \ gone) \ stranded
      PROVE  c \in entry[n].seats
  <2>1. c \in entry[HomeOf[c]].seats
    BY <1>1, QuietRoster
  <2> QED BY <1>1, <2>1 DEF Of
<1>2. IndInv /\ SeatsInv => SeatsKnown
  BY <1>1 DEF SeatsKnown
<1> QED BY AlwaysAccounted, <1>2, PTL

=============================================================================
