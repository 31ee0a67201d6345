------------------------------ MODULE CallSeats ------------------------------
(***************************************************************************)
(* The seats of one page huddle (call/CallService.ts): the clients of a    *)
(* lobby join it, come back to it on another socket, leave it and drop     *)
(* out, on several nodes over one shared call store (CallStateStore.ts).   *)
(*                                                                         *)
(* A command of the store is atomic, as in InMemoryCallStateStore, and a   *)
(* node's commands reach it in the order the node sends them: queue[n] are *)
(* those nobody awaits, and an awaited one waits for them.  A handler's    *)
(* step is one awaited command with what the node does on its answer, up   *)
(* to the next: answers come in the order of the commands, so what happens *)
(* at the node in between could as well have happened before.              *)
(*                                                                         *)
(* Every join names this huddle's call: the lobby's claim gives the first  *)
(* joiners one id, later ones adopt it, and a client that still knows the  *)
(* id of an ended huddle may begin it anew.                                *)
(***************************************************************************)
EXTENDS Naturals, FiniteSets, SequencesExt

CONSTANTS Client, Node, User,
          UserOf,       \* the authenticated user of each client
          HomeOf,       \* the node of its socket
          MaxFrames,    \* bound: the frames each client sends
          none

ASSUME CallAssumption == /\ IsFiniteSet(Client) /\ none \notin Client
                         /\ UserOf \in [Client -> User]
                         /\ HomeOf \in [Client -> Node]
                         /\ MaxFrames \in [Client -> Nat]

VARIABLES
    store,     \* the shared store's record of the call and its indexes
    entry,     \* activeCalls.get(callId) of each node
    holders,   \* rejoins that still hold the node's present entry
    grace,     \* who the node's rejoin grace waits for
    queue,     \* store commands sent and not awaited, by node
    expiry,    \* the handler of an expired grace, by node
    net,       \* departures on their way to a node
    gone,      \* clients whose socket closed
    hand,      \* the handler of each client's present frame or close
    frames,    \* frames each client has sent
    stranded   \* history: rejoins the store granted and the node refused

nodeVars == <<entry, holders, grace>>
vars == <<store, nodeVars, queue, expiry, net, gone, hand, frames, stranded>>

Of(n) == {c \in Client : HomeOf[c] = n}
Twins(c) == {d \in Client \ {c} : UserOf[d] = UserOf[c]}
Flushed(n) == queue[n] = <<>>
Larger(S, T) == IF Cardinality(S) > Cardinality(T) THEN Cardinality(S) ELSE Cardinality(T)

\* What a probe at n may find dead: its own closed sockets, and any of the
\* other nodes', whose lease may or may not have run out yet.
Probed(n) == {dead \in SUBSET gone : gone \cap Of(n) \subseteq dead}

NoSeats == [u \in User |-> none]
NoEntry == [here |-> FALSE, seats |-> {}]
NoExpiry == [step |-> "none", who |-> none, here |-> {}]
Idle == [at |-> "idle", call |-> FALSE, dead |-> {}]
At(step) == [Idle EXCEPT !.at = step]

Steps == {"idle", "reap", "read", "claim", "create", "again", "lost", "undo",
          "resume", "resumed", "left", "drop", "done"}

\* The store and the handlers stay what the proofs take them for.
TypeOK ==
    /\ store \in [call : BOOLEAN, roster : SUBSET Client, seat : [User -> Client \cup {none}],
                  byClient : SUBSET Client, byUser : SUBSET User, accepted : BOOLEAN]
    /\ hand \in [Client -> [at : Steps, call : BOOLEAN, dead : SUBSET (Client \cup {none})]]
    /\ gone \subseteq Client

Init ==
    /\ store = [call |-> FALSE, roster |-> {}, seat |-> NoSeats,
                byClient |-> {}, byUser |-> {}, accepted |-> FALSE]
    /\ entry = [n \in Node |-> NoEntry]
    /\ holders = [n \in Node |-> {}]
    /\ grace = [n \in Node |-> none]
    /\ queue = [n \in Node |-> <<>>]
    /\ expiry = [n \in Node |-> NoExpiry]
    /\ net = {}
    /\ gone = {}
    /\ hand = [c \in Client |-> Idle]
    /\ frames = [c \in Client |-> 0]
    /\ stranded = {}

-----------------------------------------------------------------------------
(* Commands of the shared store                                            *)

registerParticipant(s, c) ==
    [s EXCEPT !.call = TRUE, !.roster = @ \cup {c}, !.byClient = @ \cup {c}]

\* The last one out deletes the call, and its seats with it.
removeParticipants(s, out) ==
    LET rest == s.roster \ out IN
    IF ~s.call THEN s
    ELSE [s EXCEPT !.call = rest # {}, !.roster = rest, !.byClient = @ \ out,
                   !.seat = IF rest = {} THEN NoSeats ELSE @]

forgetCall(s) ==
    [s EXCEPT !.call = FALSE, !.roster = {}, !.seat = NoSeats, !.byClient = @ \ s.roster]

\* No other client on the roster, known dead or not, has the seat of c's user.
MayClaim(s, c, dead) == s.call /\ s.seat[UserOf[c]] \notin s.roster \ ({c} \cup dead)

Seats(s, c, out) ==
    [s EXCEPT !.roster = (@ \ out) \cup {c}, !.byClient = (@ \ out) \cup {c},
              !.seat[UserOf[c]] = c, !.byUser = @ \cup {UserOf[c]}]

claimAcceptedSeat(s, c, dead) == Seats(s, c, (dead \cap {s.seat[UserOf[c]]}) \ {c})

MayResume(s, c, dead) ==
    /\ MayClaim(s, c, dead)
    /\ UserOf[c] \in s.byUser
    /\ s.accepted \/ Cardinality(s.roster) >= 2

resumeParticipant(s, c, dead) == [Seats(s, c, dead \ {c}) EXCEPT !.accepted = TRUE]

\* Mutant: a drop takes the client out of the reverse index only.
RunsIndexOnly(s, job) ==
    CASE job.op = "mark" -> [s EXCEPT !.accepted = TRUE]
      [] job.op = "take" -> [s EXCEPT !.accepted = FALSE]
      [] job.op = "forget" -> [forgetCall(s) EXCEPT !.accepted = FALSE, !.byClient = @ \ job.who]
      [] OTHER -> [s EXCEPT !.byClient = @ \ job.who]

\* A command nobody awaits, with the one that always follows it.
Runs(s, job) ==
    CASE job.op = "mark" -> [s EXCEPT !.accepted = TRUE]
      [] job.op = "take" -> [s EXCEPT !.accepted = FALSE]
      [] job.op = "forget" -> [forgetCall(s) EXCEPT !.accepted = FALSE, !.byClient = @ \ job.who]
      [] job.op = "drop" -> [removeParticipants(s, job.who) EXCEPT !.byClient = @ \ job.who]
      [] OTHER -> [s EXCEPT !.byClient = @ \ job.who]

StoreRuns(n) ==
    /\ ~Flushed(n)
    /\ store' = Runs(store, Head(queue[n]))
    /\ queue' = [queue EXCEPT ![n] = Tail(@)]
    /\ UNCHANGED <<nodeVars, expiry, net, gone, hand, frames, stranded>>

-----------------------------------------------------------------------------
(* A node's entry                                                          *)

Sends(n, op, who) == queue' = [queue EXCEPT ![n] = Append(@, [op |-> op, who |-> who])]

NodeIdle == UNCHANGED <<nodeVars, queue>>

Deletes(n) ==
    /\ entry' = [entry EXCEPT ![n] = NoEntry]
    /\ holders' = [holders EXCEPT ![n] = {}]

\* CallService.forgetCall: nothing without an entry, and the pending grace
\* goes with it.  The reverse index of `also` is cleared with the seats'.
Forgets(n, also) ==
    \/ /\ entry[n].here
       /\ Deletes(n)
       /\ grace' = [grace EXCEPT ![n] = none]
       /\ Sends(n, "forget", entry[n].seats \cup also)
    \/ ~entry[n].here /\ NodeIdle

\* CallService.registerParticipant, and the seats a rejoin moves.
Registers(n, c, out) ==
    /\ entry' = [entry EXCEPT ![n] = [here |-> TRUE, seats |-> (@.seats \ out) \cup {c}]]
    /\ holders' = [holders EXCEPT ![n] = @ \ {c}]
    /\ grace' = [grace EXCEPT ![n] = none]

Unseats(n, c) == entry' = [entry EXCEPT ![n].seats = @ \ {c}] /\ UNCHANGED holders

-----------------------------------------------------------------------------
(* Frames of a client                                                      *)

\* A client's frames are handled one at a time, and all before its close.
Arrives(c) ==
    /\ c \notin gone
    /\ hand[c].at = "idle"
    /\ Flushed(HomeOf[c])

Frame(c) ==
    /\ Arrives(c)
    /\ frames[c] < MaxFrames[c]
    /\ frames' = [frames EXCEPT ![c] = @ + 1]

\* The next command of c's handler is answered.
Answered(c, step) == hand[c].at = step /\ Flushed(HomeOf[c]) /\ UNCHANGED frames

Then(c, h) == hand' = [hand EXCEPT ![c] = h]

StoreReads == UNCHANGED <<store, expiry, net, gone, stranded>>
StoreWrites == UNCHANGED <<expiry, net, gone, stranded>>

-----------------------------------------------------------------------------
(* join                                                                    *)

\* The live-call check of the lobby.  It forgets an entry the store no longer
\* knows or whose every client is dead; a call that is only in the store is
\* reaped, except while a fresh start waits for its clients to come back.
JoinLooks(c) ==
    LET n == HomeOf[c] IN
    /\ Frame(c)
    /\ \E dead \in Probed(n) :
         LET over == store.roster \cup entry[n].seats \subseteq dead IN
         \/ /\ entry[n].here
            /\ IF store.call /\ ~over THEN NodeIdle ELSE Forgets(n, {})
            /\ Then(c, At("read"))
         \/ /\ ~entry[n].here
            /\ NodeIdle
            /\ \/ Then(c, At("read"))
               \/ store.call /\ over /\ Then(c, [At("reap") EXCEPT !.dead = store.roster])
    /\ StoreReads

\* A dead roster that was read does not delete a newer registration.
JoinReaps(c) ==
    /\ Answered(c, "reap")
    /\ store' = IF store.call /\ store.roster = hand[c].dead
                THEN [forgetCall(store) EXCEPT !.accepted = FALSE] ELSE store
    /\ Then(c, At("read"))
    /\ NodeIdle
    /\ StoreWrites

\* Refused while another live socket of the same user at this node is in.
JoinReads(c) ==
    LET n == HomeOf[c]
        elsewhere == Twins(c) \cap (store.roster \cup entry[n].seats) \cap (Of(n) \ gone)
    IN /\ Answered(c, "read")
       /\ Then(c, IF elsewhere # {} THEN Idle ELSE [At("claim") EXCEPT !.call = store.call])
       /\ NodeIdle
       /\ StoreReads

\* The claim is granted: the node registers the client and marks the call.
Wins(c, dead) ==
    /\ MayClaim(store, c, dead)
    /\ store' = claimAcceptedSeat(store, c, dead)
    /\ Registers(HomeOf[c], c, {})
    /\ Sends(HomeOf[c], "mark", {})
    /\ Then(c, Idle)

Loses(c, dead, next) ==
    /\ ~MayClaim(store, c, dead)
    /\ Then(c, next)
    /\ UNCHANGED store
    /\ NodeIdle

\* Without a call, a join that had seen none creates it and claims again.
JoinClaims(c) ==
    /\ Answered(c, "claim") \/ Answered(c, "again")
    /\ \/ Wins(c, {})
       \/ Loses(c, {}, IF store.call THEN [At("lost") EXCEPT !.dead = {store.seat[UserOf[c]]}]
                       ELSE IF hand[c].at = "claim" /\ ~hand[c].call THEN At("create")
                       ELSE Idle)
    /\ StoreWrites

JoinCreates(c) ==
    /\ Answered(c, "create")
    /\ store' = registerParticipant(store, c)
    /\ Then(c, At("again"))
    /\ NodeIdle
    /\ StoreWrites

\* The winner is known to be dead: its seat is claimed over.
JoinReplaces(c) ==
    /\ Answered(c, "lost")
    /\ hand[c].dead \subseteq gone
    /\ \/ Wins(c, hand[c].dead)
       \/ Loses(c, hand[c].dead, IF store.call THEN At("undo") ELSE Idle)
    /\ StoreWrites

\* Mutant: a join that lost leaves its socket on the roster.
UndoForgotten(c) ==
    /\ Answered(c, "lost") \/ Answered(c, "undo")
    /\ Then(c, Idle)
    /\ NodeIdle
    /\ StoreReads

\* A lost join takes out the socket its create step had listed.
JoinUndoes(c) ==
    /\ Answered(c, "lost") \/ Answered(c, "undo")
    /\ store' = removeParticipants(store, {c})
    /\ Then(c, Idle)
    /\ NodeIdle
    /\ StoreWrites

-----------------------------------------------------------------------------
(* participant-state of a socket that came back: rejoinSeat                *)

RejoinReads(c) ==
    LET n == HomeOf[c] IN
    /\ Frame(c)
    /\ c \notin entry[n].seats
    /\ entry[n].here \/ store.call
    /\ UserOf[c] \in store.byUser
    /\ \E dead \in Probed(n) :
         Then(c, [at |-> "resume", call |-> entry[n].here,
                  dead |-> IF entry[n].here THEN {} ELSE dead \cap store.roster])
    /\ holders' = [holders EXCEPT ![n] = IF entry[n].here THEN @ \cup {c} ELSE @]
    /\ UNCHANGED <<entry, grace, queue>>
    /\ StoreReads

RejoinResumes(c) ==
    LET dead == hand[c].dead IN
    /\ Answered(c, "resume")
    /\ \/ /\ MayResume(store, c, dead)
          /\ store' = resumeParticipant(store, c, dead)
          /\ Then(c, [at |-> "resumed", call |-> hand[c].call, dead |-> dead])
          /\ UNCHANGED holders
       \/ /\ ~MayResume(store, c, dead)
          /\ Then(c, Idle)
          /\ holders' = [holders EXCEPT ![HomeOf[c]] = @ \ {c}]
          /\ UNCHANGED store
    /\ UNCHANGED <<entry, grace, queue>>
    /\ StoreWrites

\* The seat is confirmed in the store.  The node refuses it when the entry it
\* read is no longer the present one; the store's seat stays.
RejoinSeats(c) ==
    LET n == HomeOf[c]
        previous == Twins(c) \cap (IF entry[n].here THEN entry[n].seats
                                   ELSE store.roster \cap (Of(n) \ gone))
    IN /\ Answered(c, "resumed")
       /\ \/ /\ c \in store.roster
             /\ hand[c].call => c \in holders[n]
             /\ Registers(n, c, previous \cup hand[c].dead)
             /\ IF previous = {} THEN UNCHANGED queue ELSE Sends(n, "drop", previous)
             /\ UNCHANGED stranded
          \/ /\ c \notin store.roster \/ (hand[c].call /\ c \notin holders[n])
             /\ holders' = [holders EXCEPT ![n] = @ \ {c}]
             /\ stranded' = stranded \cup ({c} \cap store.roster)
             /\ UNCHANGED <<entry, grace, queue>>
       /\ Then(c, Idle)
       /\ UNCHANGED <<store, expiry, net, gone>>

-----------------------------------------------------------------------------
(* ended, and the close of a socket                                        *)

LeaveRemoves(c) ==
    /\ Frame(c)
    /\ store' = removeParticipants(store, {c})
    /\ Then(c, At("left"))
    /\ NodeIdle
    /\ StoreWrites

\* Mutant: the node drops its entry though others are in it.
LeaveDropsEntry(c) ==
    LET n == HomeOf[c] IN
    /\ Answered(c, "left")
    /\ Then(c, Idle)
    /\ grace' = [grace EXCEPT ![n] = none]
    /\ Deletes(n)
    /\ IF entry[n].here /\ store.roster = {} THEN Sends(n, "take", {}) ELSE UNCHANGED queue
    /\ StoreReads

\* A terminal verb supersedes the grace.  The node's last one out drops the
\* entry, and announces the end when nobody is left anywhere.
LeaveEnds(c) ==
    LET n == HomeOf[c] IN
    /\ Answered(c, "left")
    /\ Then(c, Idle)
    /\ grace' = [grace EXCEPT ![n] = none]
    /\ IF entry[n].here /\ entry[n].seats \subseteq {c}
       THEN /\ Deletes(n)
            /\ IF store.roster = {} THEN Sends(n, "take", {}) ELSE UNCHANGED queue
       ELSE Unseats(n, c) /\ UNCHANGED queue
    /\ StoreReads

\* A client that neither the node nor the store's index knows needs nothing.
Disconnects(c) ==
    LET n == HomeOf[c] IN
    /\ Arrives(c)
    /\ gone' = gone \cup {c}
    /\ Then(c, At(IF c \in entry[n].seats \cup store.byClient THEN "drop" ELSE "done"))
    /\ NodeIdle
    /\ UNCHANGED <<store, expiry, net, frames, stranded>>

Departure(c, ends, roster) == [to : Node, who : {c}, ends : {ends}, roster : {roster}]

\* Two or more remain: the call goes on.  One remains: the same, and the grace
\* starts.  Nobody remains: it is forgotten, or without an entry only the
\* reverse index is.
DropEnds(c) ==
    LET n == HomeOf[c]
        remaining == Larger(store.roster \ {c}, entry[n].seats \ {c})
    IN /\ Answered(c, "drop")
       /\ Then(c, At("done"))
       /\ net' = net \cup Departure(c, remaining = 0, {})
       /\ \/ /\ remaining > 0
             /\ Unseats(n, c)
             /\ grace' = [grace EXCEPT ![n] = IF remaining = 1 THEN c ELSE @]
             /\ Sends(n, "drop", {c})
          \/ remaining = 0 /\ entry[n].here /\ Forgets(n, {c})
          \/ remaining = 0 /\ ~entry[n].here /\ Sends(n, "unlink", {c}) /\ UNCHANGED nodeVars
       /\ UNCHANGED <<store, expiry, gone, stranded>>

\* handleCrossNodeDeparted, on every node, the sender's included.
DepartureHeard(m) ==
    LET n == m.to
        parties == m.roster \cup store.roster \cup entry[n].seats
    IN /\ m \in net
       /\ Flushed(n)
       /\ net' = net \ {m}
       /\ \/ m.ends /\ parties # {} /\ Forgets(n, {})
          \/ m.ends /\ parties = {} /\ NodeIdle
          \/ ~m.ends /\ Unseats(n, m.who) /\ UNCHANGED <<grace, queue>>
       /\ UNCHANGED <<store, expiry, gone, hand, frames, stranded>>

-----------------------------------------------------------------------------
(* The rejoin grace: scheduleGraceEnd                                      *)

GraceExpires(n) ==
    /\ grace[n] # none
    /\ expiry[n] = NoExpiry
    /\ expiry' = [expiry EXCEPT ![n] = [step |-> "read", who |-> grace[n], here |-> entry[n].seats]]
    /\ grace' = [grace EXCEPT ![n] = none]
    /\ UNCHANGED <<store, entry, holders, queue, net, gone, hand, frames, stranded>>

\* Two are there again: the call lives.  Otherwise the end is told.
GraceTells(n) ==
    LET e == expiry[n]
        rejoined == Larger(e.here, store.roster) >= 2
    IN /\ e.step = "read"
       /\ Flushed(n)
       /\ expiry' = [expiry EXCEPT ![n] = IF rejoined THEN NoExpiry
                                          ELSE [NoExpiry EXCEPT !.step = "told"]]
       /\ net' = IF rejoined THEN net
                 ELSE net \cup Departure(e.who, TRUE, (e.here \cup store.roster) \ {e.who})
       /\ UNCHANGED <<store, nodeVars, queue, gone, hand, frames, stranded>>

GraceForgets(n) ==
    /\ expiry[n].step = "told"
    /\ expiry' = [expiry EXCEPT ![n] = NoExpiry]
    /\ Forgets(n, {})
    /\ UNCHANGED <<store, net, gone, hand, frames, stranded>>

-----------------------------------------------------------------------------
Next ==
    \/ \E c \in Client :
         \/ JoinLooks(c) \/ JoinReaps(c) \/ JoinReads(c) \/ JoinClaims(c)
         \/ JoinCreates(c) \/ JoinReplaces(c) \/ JoinUndoes(c)
         \/ RejoinReads(c) \/ RejoinResumes(c) \/ RejoinSeats(c)
         \/ LeaveRemoves(c) \/ LeaveEnds(c) \/ Disconnects(c) \/ DropEnds(c)
    \/ \E n \in Node : StoreRuns(n) \/ GraceExpires(n) \/ GraceTells(n) \/ GraceForgets(n)
    \/ \E m \in net : DepartureHeard(m)

Spec == Init /\ [][Next]_vars

-----------------------------------------------------------------------------
(* Properties                                                              *)

\* Joins that may be on the roster by their create step alone.
Undecided == {c \in Client : hand[c].at \in {"again", "lost", "undo"}}

\* However many tabs of a person join or come back at once, on whichever
\* nodes, the roster has one of them (handleLobbyJoin: "a person holds one
\* seat however many tabs join at once").  A tab whose create step listed it
\* and whose claim is not decided yet does not count.
OneSeat ==
    \A c, d \in store.roster \ Undecided : UserOf[c] = UserOf[d] => c = d

\* Nothing is in flight; a grace may still be running.
Quiet ==
    /\ \A c \in Client : hand[c].at \in {"idle", "done"}
    /\ \A n \in Node : Flushed(n) /\ expiry[n] = NoExpiry
    /\ net = {}

\* However people leave, drop out together and come back, a closed socket does
\* not stay on the roster (handleDisconnect: "a ghost call that never ended").
\* The exception is the race README.md describes: a rejoin that the store
\* granted and the node then refused.
NoGhosts == Quiet => store.roster \cap gone \subseteq stranded

\* The node of a seated client has it in its entry, with the same exception:
\* what a close or a hang-up of that client cleans up depends on it.
SeatsKnown ==
    Quiet => \A n \in Node :
                 (store.roster \cap Of(n)) \ gone \subseteq entry[n].seats \cup stranded

=============================================================================
