---------------------------- MODULE CrdtDocument ----------------------------
(***************************************************************************)
(* One document of src/src/server/CRDTService.ts and how SnapshotManager.ts *)
(* and IdleEvictionManager.ts persist it: shared hydration from the hot    *)
(* cache or the store, local and remote updates, the serialized snapshot   *)
(* writes with their debounce, sweep and eviction timers, restore, clear   *)
(* and delete, and a restart of the process.                               *)
(*                                                                         *)
(* A Yjs document is the set of updates merged into it.  The code runs on  *)
(* one thread: the continuation of a finished write runs before any other  *)
(* event, but after the next write of the queue has read the document      *)
(* (persistSnapshot, writeSnapshot and their caller each take a microtask, *)
(* the queued write only two).  `turn' holds the caller whose continuation *)
(* is due.  The hot cache is external and any call to it may fail; a       *)
(* deployment without one is the behaviour in which every call fails.      *)
(***************************************************************************)
EXTENDS Integers, Sequences, FiniteSets

CONSTANTS
    Clients,
    Edits,        \* Yjs updates of the clients of this node, each sent once
    PeerEdits,    \* those that come from the other nodes
    Editors,      \* clients that subscribe and send updates: a bound
    Managers,     \* clients that save, restore and clear: a bound
    NoEdit,       \* a task that carries no update
    Evictor, Timer, \* what writes snapshots besides the clients' handlers
    Nobody,       \* no continuation is due
    OpsBeforeSnapshot, \* OPERATIONS_BEFORE_SNAPSHOT (50 in the code)
    PendingCap,        \* PENDING_REMOTE_UPDATES_CAP (100 in the code)
    MaxLoads,     \* channel states created: a bound of the model
    MaxFailures,  \* failing reads and writes of the store: a bound
    MaxCommands,  \* versions saved, restores, clears, deletes and restarts of the
                  \* process: a bound
    MaxQueue      \* writes that wait for one another: a bound

Updates == Edits \cup PeerEdits

Timers == {Evictor, Timer}
Loads  == 1 .. MaxLoads

ASSUME CrdtAssumption ==
    /\ Timers \cap Clients = {}
    /\ Nobody \notin Clients \cup Timers
    /\ NoEdit \notin Updates
    /\ Editors \cup Managers \subseteq Clients
    /\ OpsBeforeSnapshot \in Nat \ {0}
    /\ PendingCap \in Nat \ {0}
    /\ MaxLoads \in Nat
    /\ MaxFailures \in Nat
    /\ MaxCommands \in Nat
    /\ MaxQueue \in Nat

VARIABLES
    states,   \* the ChannelState objects created so far
    created,  \* how many there are
    resident, \* the one in channelStates, 0 if none
    loading,  \* the one whose hydration is pending, 0 if none
    buffer,   \* pendingRemoteUpdates
    queue,    \* who waits for a snapshot write; the first one is running
    took,     \* what the running write has read of the document
    turn,     \* whose continuation is due, and whether its write succeeded
    idleTimer, debounce, \* timers armed
    task,     \* the handler each client's frame is in
    joined,   \* clients that sent a subscribe they have not taken back
    versions, latest, \* the SnapshotStore
    cache,    \* the HotCache: no snapshot, or one
    sent,     \* updates sent by a client or by a peer
    acked,    \* history: updates answered with crdt:persisted
    failures, commands \* counted for the bounds

memory  == <<states, created, resident, loading, buffer>>
writing == <<queue, took, turn>>
clocks  == <<idleTimer, debounce>>
clients == <<task, joined, sent, acked>>
durable == <<versions, latest, cache>>
counts  == <<failures, commands>>
vars == <<memory, writing, clocks, clients, durable, counts>>

ChannelState == [doc : SUBSET Updates, base : SUBSET Updates, ops : Nat,
                 subs : Nat, hydrated : BOOLEAN, edition : Nat]

Taken == [obj : 0 .. MaxLoads, edition : Nat, doc : SUBSET Updates, ops : Nat,
          ok : BOOLEAN]

Task == [op : {"idle", "subscribing", "updating", "saving", "leaving",
               "checkpoint", "replacing", "naming"},
         obj : 0 .. MaxLoads, edit : Updates \cup {NoEdit}, ack : BOOLEAN,
         target : SUBSET Updates, clear : BOOLEAN]

\* A new ChannelState: an empty document nobody has subscribed to.  `base' is
\* what it was hydrated with, `edition' tells its successive Y.Docs apart.
Fresh == [doc |-> {}, base |-> {}, ops |-> 0, subs |-> 0, hydrated |-> FALSE,
          edition |-> 0]

NotTaken == [obj |-> 0, edition |-> 0, doc |-> {}, ops |-> 0, ok |-> FALSE]
NoTurn   == [who |-> Nobody, ok |-> TRUE]
Idle     == [op |-> "idle", obj |-> 0, edit |-> NoEdit, ack |-> FALSE,
             target |-> {}, clear |-> FALSE]

TypeOK ==
    /\ states \in [Loads -> ChannelState]
    /\ created \in 0 .. MaxLoads
    /\ resident \in 0 .. created
    /\ loading \in 0 .. created
    /\ buffer \in Seq(Updates)
    /\ queue \in Seq(Clients \cup Timers)
    /\ took \in Taken
    /\ turn \in [who : Clients \cup Timers \cup {Nobody}, ok : BOOLEAN]
    /\ idleTimer \in BOOLEAN
    /\ debounce \in BOOLEAN
    /\ task \in [Clients -> Task]
    /\ joined \subseteq Clients
    /\ versions \subseteq SUBSET Updates
    /\ latest \in SUBSET Updates
    /\ cache \subseteq SUBSET Updates
    /\ sent \subseteq Updates
    /\ acked \subseteq Updates
    /\ failures \in 0 .. MaxFailures
    /\ commands \in 0 .. MaxCommands

Init ==
    /\ states = [g \in Loads |-> Fresh]
    /\ created = 0
    /\ resident = 0
    /\ loading = 0
    /\ buffer = <<>>
    /\ queue = <<>>
    /\ took = NotTaken
    /\ turn = NoTurn
    /\ idleTimer = FALSE
    /\ debounce = FALSE
    /\ task = [c \in Clients |-> Idle]
    /\ joined = {}
    /\ versions = {}
    /\ latest = {}
    /\ cache = {}
    /\ sent = {}
    /\ acked = {}
    /\ failures = 0
    /\ commands = 0

-----------------------------------------------------------------------------
(* Helpers *)

\* Only updates reach memory or the store while no continuation is due and
\* the running write, if any, is in the store's hands.
Quiet == turn = NoTurn /\ (queue = <<>> \/ took.ok)

\* commitSnapshot reads the resident state: it has nothing to write without
\* one, and throws if it is not hydrated.
Capture(r, s) ==
    IF r = 0 THEN NotTaken
    ELSE [obj |-> r, edition |-> s[r].edition, doc |-> s[r].doc,
          ops |-> s[r].ops, ok |-> s[r].hydrated]

\* persistSnapshot: w waits for a write of the resident state.
Enqueue(w, r, s) ==
    /\ Len(queue) < MaxQueue
    /\ queue' = Append(queue, w)
    /\ took' = IF queue = <<>> THEN Capture(r, s) ELSE took

\* _saveSnapshotToHotCache catches what the cache throws: the earlier snapshot
\* stays.
Cached(d) == cache' \in {{d}, cache}

\* The state is destroyed with its buffer and its debounce timer.
DropResident ==
    /\ resident' = 0
    /\ buffer' = <<>>
    /\ debounce' = FALSE

Stored == UNION versions
Live   == IF resident = 0 THEN {} ELSE states[resident].doc

\* Updates that only the memory of this process holds.
Unsaved == IF resident = 0 THEN {}
           ELSE states[resident].doc \ (Stored \cup states[resident].base)

Finish(c) == task' = [task EXCEPT ![c] = Idle]

-----------------------------------------------------------------------------
(* Hydration *)

Holding(op, g, u, a) == [Idle EXCEPT !.op = op, !.obj = g, !.edit = u, !.ack = a]

Loaded == resident # 0 /\ states[resident].hydrated

\* ensureHydratedState: the resident state, the one that is loading, or a new
\* one whose load starts.  A resident state that is not hydrated is loading.
Obtain(c, op, u, a) ==
    LET held(g) == task' = [task EXCEPT ![c] = Holding(op, g, u, a)]
        new == created + 1
    IN \/ /\ Loaded
          /\ held(resident)
          /\ UNCHANGED <<created, resident, loading>>
       \/ /\ ~Loaded
          /\ loading # 0
          /\ held(loading)
          /\ UNCHANGED <<created, resident, loading>>
       \/ /\ ~Loaded /\ loading = 0
          /\ new \in Loads
          /\ held(new)
          /\ created' = new
          /\ resident' = new
          /\ loading' = new

Buffered == {buffer[i] : i \in DOMAIN buffer}

\* hydrateYDoc returned d: the buffered remote updates are merged into it.
Filled(r, d) == [r EXCEPT !.doc = d \cup Buffered, !.base = d,
                          !.ops = @ + Len(buffer), !.hydrated = TRUE]

Hydrate(d) ==
    /\ states' = [states EXCEPT ![loading] = Filled(@, d)]
    /\ buffer' = <<>>
    /\ debounce' = (debounce \/ buffer # <<>>)
    /\ loading' = 0

LoadCached ==
    /\ Quiet /\ loading # 0
    /\ \E d \in cache : Hydrate(d)
    /\ UNCHANGED <<created, resident, writing, idleTimer, clients, durable, counts>>

\* The cache has nothing, fails or is corrupt.
LoadStored ==
    /\ Quiet /\ loading # 0
    /\ Hydrate(latest)
    /\ UNCHANGED <<created, resident, writing, idleTimer, clients, durable, counts>>

\* The store failed too: every handler that waits for this load gives up.
LoadFailed ==
    /\ Quiet /\ loading # 0
    /\ failures < MaxFailures
    /\ failures' = failures + 1
    /\ resident' = IF resident = loading THEN 0 ELSE resident
    /\ task' = [c \in Clients |->
                  IF /\ task[c].op \in {"subscribing", "updating"}
                     /\ task[c].obj = loading
                  THEN Idle ELSE task[c]]
    /\ loading' = 0
    /\ UNCHANGED <<states, created, buffer, writing, clocks, joined, sent, acked,
                   durable, commands>>

-----------------------------------------------------------------------------
(* Subscribing and updating *)

Subscribe(c) ==
    /\ Quiet /\ task[c] = Idle
    /\ c \notin joined
    /\ joined' = joined \cup {c}
    /\ idleTimer' = FALSE
    /\ Obtain(c, "subscribing", NoEdit, FALSE)
    /\ UNCHANGED <<states, buffer, writing, debounce, sent, acked, durable, counts>>

\* Denied by authz or the router: the client still believes it subscribed.
SubscribeDenied(c) ==
    /\ Quiet /\ task[c] = Idle
    /\ c \notin joined
    /\ joined' = joined \cup {c}
    /\ UNCHANGED <<memory, writing, clocks, task, sent, acked, durable, counts>>

\* The handler of c has its state and is authorized again.
Holds(c, op) ==
    /\ Quiet
    /\ task[c].op = op
    /\ states[task[c].obj].hydrated

Subscribed(c) ==
    /\ Holds(c, "subscribing")
    /\ states' = [states EXCEPT ![task[c].obj].subs = @ + 1]
    /\ Finish(c)
    /\ UNCHANGED <<created, resident, loading, buffer, writing, clocks, joined,
                   sent, acked, durable, counts>>

\* The second authorization denies it.
Revoked(c) ==
    /\ Holds(c, "subscribing") \/ Holds(c, "updating")
    /\ Finish(c)
    /\ UNCHANGED <<memory, writing, clocks, joined, sent, acked, durable, counts>>

\* An update is merged and counted.
Merged(r, u) == [r EXCEPT !.doc = @ \cup {u}, !.ops = @ + 1]

\* handleUpdate; `a' says the frame carries an updateId.
Update(c, u, a) ==
    /\ Quiet /\ task[c] = Idle
    /\ u \notin sent
    /\ sent' = sent \cup {u}
    /\ Obtain(c, "updating", u, a)
    /\ UNCHANGED <<states, buffer, writing, clocks, joined, acked, durable, counts>>

Apply(c) ==
    LET t == task[c]
        s == [states EXCEPT ![t.obj] = Merged(@, t.edit)]
    IN /\ Holds(c, "updating")
       /\ states' = s
       /\ \/ /\ t.ack \/ s[t.obj].ops >= OpsBeforeSnapshot
             /\ Enqueue(c, resident, s)
             /\ task' = [task EXCEPT ![c].op = "saving"]
             /\ UNCHANGED <<debounce, cache>>
          \/ /\ ~(t.ack \/ s[t.obj].ops >= OpsBeforeSnapshot)
             /\ debounce' = TRUE
             /\ Cached(s[t.obj].doc)
             /\ Finish(c)
             /\ UNCHANGED <<queue, took>>
       /\ UNCHANGED <<created, resident, loading, buffer, turn, idleTimer, joined,
                      sent, acked, versions, latest, counts>>

\* Mutant: the update is answered whatever became of its write.
UpdateAnswered(c) ==
    LET t == task[c]
    IN /\ turn.who = c /\ t.op = "saving"
       /\ turn' = NoTurn
       /\ Finish(c)
       /\ acked' = IF t.ack THEN acked \cup {t.edit} ELSE acked
       /\ Cached(states[t.obj].doc)
       /\ UNCHANGED <<memory, queue, took, clocks, joined, sent, versions, latest,
                      counts>>

\* The write handleUpdate awaited is over.
UpdateSaved(c) ==
    LET t == task[c]
    IN /\ turn.who = c /\ t.op = "saving"
       /\ turn' = NoTurn
       /\ Finish(c)
       /\ acked' = IF turn.ok /\ t.ack THEN acked \cup {t.edit} ELSE acked
       /\ IF turn.ok THEN Cached(states[t.obj].doc) ELSE UNCHANGED cache
       /\ UNCHANGED <<memory, queue, took, clocks, joined, sent, versions, latest,
                      counts>>

\* A peer's update, for which the router needs a local subscriber.
RemoteUpdate(u) ==
    /\ Quiet
    /\ joined # {}
    /\ u \notin sent
    /\ sent' = sent \cup {u}
    /\ \/ /\ Loaded
          /\ states' = [states EXCEPT ![resident] = Merged(@, u)]
          /\ debounce' = TRUE
          /\ UNCHANGED buffer
       \/ /\ ~Loaded
          /\ buffer' = Append(IF Len(buffer) >= PendingCap THEN Tail(buffer)
                              ELSE buffer, u)
          /\ UNCHANGED <<states, debounce>>
    /\ UNCHANGED <<created, resident, loading, writing, idleTimer, task, joined,
                   acked, durable, counts>>

-----------------------------------------------------------------------------
(* Snapshot writes *)

\* The write of the head of the queue ends: its caller is next, and the write
\* behind it reads the document before that.
EndWrite(succeeds, s) ==
    /\ turn' = [who |-> Head(queue), ok |-> succeeds]
    /\ queue' = Tail(queue)
    /\ took' = IF Len(queue) > 1 THEN Capture(resident, s) ELSE NotTaken

\* Mutant: a finished write marks the document clean.
UncountAll(r) ==
    IF r.edition = took.edition THEN [r EXCEPT !.ops = 0] ELSE r

\* Operations that arrived while the write was in flight stay counted, and
\* all of them if the document was replaced.
Uncount(r) ==
    IF r.edition = took.edition
    THEN [r EXCEPT !.ops = IF @ > took.ops THEN @ - took.ops ELSE 0]
    ELSE r

Commit(s) == [s EXCEPT ![took.obj] = Uncount(@)]

WriteStored ==
    /\ Quiet /\ queue # <<>>
    /\ states' = Commit(states)
    /\ versions' = versions \cup {took.doc}
    /\ latest' = took.doc
    /\ IF /\ states[took.obj].edition = took.edition
          /\ Commit(states)[took.obj].ops = 0
       THEN Cached(took.doc)
       ELSE UNCHANGED cache
    /\ EndWrite(TRUE, Commit(states))
    /\ UNCHANGED <<created, resident, loading, buffer, clocks, clients, counts>>

WriteFailed ==
    /\ Quiet /\ queue # <<>>
    /\ failures < MaxFailures
    /\ failures' = failures + 1
    /\ EndWrite(FALSE, states)
    /\ UNCHANGED <<memory, clocks, clients, durable, commands>>

\* Without a resident state there is nothing to write; a state that is not
\* hydrated is refused.
WriteNothing ==
    /\ turn = NoTurn /\ queue # <<>> /\ ~took.ok
    /\ EndWrite(took.obj = 0, states)
    /\ UNCHANGED <<memory, clocks, clients, durable, counts>>

DebounceFires ==
    /\ Quiet /\ debounce
    /\ debounce' = FALSE
    /\ IF resident # 0 /\ states[resident].ops > 0
       THEN Enqueue(Timer, resident, states)
       ELSE UNCHANGED <<queue, took>>
    /\ UNCHANGED <<memory, turn, idleTimer, clients, durable, counts>>

Waiting(w) == \E i \in DOMAIN queue : queue[i] = w

\* Mutant: the sweep skips documents nobody has open.
SweepWatched ==
    /\ Quiet
    /\ resident # 0 /\ states[resident].ops > 0 /\ states[resident].subs > 0
    /\ Enqueue(Timer, resident, states)
    /\ UNCHANGED <<memory, turn, clocks, clients, durable, counts>>

\* _writePeriodicSnapshots over this channel.
Sweep ==
    /\ Quiet
    /\ resident # 0 /\ states[resident].ops > 0
    /\ Enqueue(Timer, resident, states)
    /\ UNCHANGED <<memory, turn, clocks, clients, durable, counts>>

\* The debounce timer and the sweep leave a failed write to the next sweep.
BackgroundSaved ==
    /\ turn.who = Timer
    /\ turn' = NoTurn
    /\ UNCHANGED <<memory, queue, took, clocks, clients, durable, counts>>

\* handleSaveVersion writes even what is saved already.
SaveVersion(c) ==
    /\ Quiet /\ task[c] = Idle
    /\ commands < MaxCommands
    /\ commands' = commands + 1
    /\ resident # 0
    /\ Enqueue(c, resident, states)
    /\ task' = [task EXCEPT ![c] = [Idle EXCEPT !.op = "naming"]]
    /\ UNCHANGED <<memory, turn, clocks, joined, sent, acked, durable, failures>>

VersionSaved(c) ==
    /\ turn.who = c /\ task[c].op = "naming"
    /\ turn' = NoTurn
    /\ Finish(c)
    /\ UNCHANGED <<memory, queue, took, clocks, joined, sent, acked, durable, counts>>

-----------------------------------------------------------------------------
(* Leaving and eviction *)

\* handleUnsubscribe, and the loop of onClientDisconnect over this channel.
Leave(c) ==
    LET left == IF states[resident].subs > 1 THEN states[resident].subs - 1 ELSE 0
    IN /\ Quiet /\ task[c] = Idle
       /\ c \in joined
       /\ joined' = joined \ {c}
       /\ \/ /\ resident = 0
             /\ UNCHANGED <<states, queue, took, idleTimer, task>>
          \/ /\ resident # 0
             /\ states' = [states EXCEPT ![resident].subs = left]
             /\ \/ /\ left > 0
                   /\ UNCHANGED <<queue, took, idleTimer, task>>
                \/ /\ left = 0 /\ states[resident].ops = 0
                   /\ idleTimer' = TRUE
                   /\ UNCHANGED <<queue, took, task>>
                \/ /\ left = 0 /\ states[resident].ops > 0
                   /\ Enqueue(c, resident, states')
                   /\ task' = [task EXCEPT ![c] = [Idle EXCEPT !.op = "leaving"]]
                   /\ UNCHANGED idleTimer
       /\ UNCHANGED <<created, resident, loading, buffer, turn, debounce, sent,
                      acked, durable, counts>>

\* The eviction starts whether or not the write succeeded.
LeaveSaved(c) ==
    /\ turn.who = c /\ task[c].op = "leaving"
    /\ turn' = NoTurn
    /\ Finish(c)
    /\ idleTimer' = TRUE
    /\ UNCHANGED <<memory, queue, took, debounce, joined, sent, acked, durable,
                   counts>>

Unwatched == resident # 0 /\ states[resident].subs = 0

\* _evictionCallback up to its write.  No load and no earlier eviction is
\* still under way: neither takes the idle period (ten minutes).
IdleTimerFires ==
    /\ Quiet /\ idleTimer
    /\ loading = 0 /\ ~Waiting(Evictor)
    /\ idleTimer' = FALSE
    /\ \/ /\ ~Unwatched
          /\ UNCHANGED <<resident, buffer, debounce, queue, took>>
       \/ /\ Unwatched /\ states[resident].ops = 0
          /\ DropResident
          /\ UNCHANGED <<queue, took>>
       \/ /\ Unwatched /\ states[resident].ops > 0
          /\ Enqueue(Evictor, resident, states)
          /\ UNCHANGED <<resident, buffer, debounce>>
    /\ UNCHANGED <<states, created, loading, turn, clients, durable, counts>>

\* The rest of it, which looks at nothing again; a failed write keeps the state.
Evict ==
    /\ turn.who = Evictor
    /\ turn' = NoTurn
    /\ IF turn.ok THEN DropResident ELSE UNCHANGED <<resident, buffer, debounce>>
    /\ UNCHANGED <<states, created, loading, queue, took, idleTimer, clients,
                   durable, counts>>

-----------------------------------------------------------------------------
(* Restore, clear, delete, restart *)

\* handleRestoreSnapshot and handleClearDocument up to their checkpoint.
BeginReset(c, target, clear) ==
    /\ Quiet /\ task[c] = Idle
    /\ commands < MaxCommands
    /\ commands' = commands + 1
    /\ resident # 0
    /\ Enqueue(c, resident, states)
    /\ task' = [task EXCEPT ![c] = [Idle EXCEPT !.op = "checkpoint",
                  !.obj = resident, !.target = target, !.clear = clear]]
    /\ UNCHANGED <<memory, turn, clocks, joined, sent, acked, durable, failures>>

Restore(c) == \E v \in versions : BeginReset(c, v, FALSE)
Clear(c)   == BeginReset(c, {}, TRUE)

Reset(r, target, clear) ==
    [r EXCEPT !.doc = target, !.edition = @ + 1,
              !.ops = IF clear THEN 0 ELSE @]

\* The checkpoint is over: a new Y.Doc takes the place of the old one, and a
\* clear counts its operations from zero.
Replace(c) ==
    LET t == task[c]
        s == [states EXCEPT ![t.obj] = Reset(@, t.target, t.clear)]
    IN /\ turn.who = c /\ t.op = "checkpoint"
       /\ turn' = NoTurn
       /\ \/ /\ ~turn.ok
             /\ Finish(c)
             /\ UNCHANGED <<states, queue, took>>
          \/ /\ turn.ok
             /\ states' = s
             /\ Enqueue(c, resident, s)
             /\ task' = [task EXCEPT ![c].op = "replacing"]
       /\ UNCHANGED <<created, resident, loading, buffer, clocks, joined, sent,
                      acked, durable, counts>>

ResetSaved(c) ==
    /\ turn.who = c /\ task[c].op = "replacing"
    /\ turn' = NoTurn
    /\ Finish(c)
    /\ IF turn.ok /\ task[c].clear THEN Cached({}) ELSE UNCHANGED cache
    /\ UNCHANGED <<memory, queue, took, clocks, joined, sent, acked, versions,
                   latest, counts>>

\* deleteDocument drops the state without a write.
DeleteDocument ==
    /\ Quiet
    /\ commands < MaxCommands
    /\ commands' = commands + 1
    /\ resident # 0
    /\ DropResident
    /\ UNCHANGED <<states, created, loading, writing, idleTimer, clients, durable,
                   failures>>

\* The process dies, and a write in flight with it or after it.
Restart ==
    /\ commands < MaxCommands
    /\ commands' = commands + 1
    /\ \/ UNCHANGED <<versions, latest>>
       \/ /\ took.ok
          /\ versions' = versions \cup {took.doc}
          /\ latest' = took.doc
    /\ states' = [g \in Loads |-> Fresh]
    /\ created' = 0
    /\ resident' = 0
    /\ loading' = 0
    /\ buffer' = <<>>
    /\ queue' = <<>>
    /\ took' = NotTaken
    /\ turn' = NoTurn
    /\ idleTimer' = FALSE
    /\ debounce' = FALSE
    /\ task' = [c \in Clients |-> Idle]
    /\ joined' = {}
    /\ UNCHANGED <<sent, acked, cache, failures>>

CacheExpires ==
    /\ Quiet
    /\ cache # {}
    /\ cache' = {}
    /\ UNCHANGED <<memory, writing, clocks, clients, versions, latest, counts>>

-----------------------------------------------------------------------------

Continue(c) == UpdateSaved(c) \/ VersionSaved(c) \/ LeaveSaved(c) \/ Replace(c)
               \/ ResetSaved(c)

Frame(c) ==
    \/ /\ c \in Editors
       /\ \/ Subscribe(c) \/ SubscribeDenied(c)
          \/ \E u \in Edits, a \in BOOLEAN : Update(c, u, a)
    \/ Subscribed(c) \/ Revoked(c)
    \/ Apply(c)
    \/ c \in Managers /\ (SaveVersion(c) \/ Restore(c) \/ Clear(c))
    \/ Leave(c)
    \/ Continue(c)

Next ==
    \/ \E c \in Clients : Frame(c)
    \/ \E u \in PeerEdits : RemoteUpdate(u)
    \/ LoadCached \/ LoadStored \/ LoadFailed
    \/ WriteStored \/ WriteFailed \/ WriteNothing
    \/ DebounceFires \/ Sweep \/ BackgroundSaved
    \/ IdleTimerFires \/ Evict
    \/ DeleteDocument \/ Restart \/ CacheExpires

\* Continuations run, the store answers and the sweep's interval comes round.
Fairness ==
    /\ \A c \in Clients : WF_vars(Continue(c))
    /\ WF_vars(BackgroundSaved)
    /\ WF_vars(Evict)
    /\ WF_vars(LoadStored)
    /\ WF_vars(WriteStored)
    /\ WF_vars(WriteNothing)
    /\ WF_vars(Sweep)

Spec == Init /\ [][Next]_vars /\ Fairness

-----------------------------------------------------------------------------
(* Properties *)

\* A document whose counter of unsaved operations is zero holds nothing but
\* what the store has or what it was hydrated with: eviction, the sweep and
\* the hot cache all rely on the counter (SnapshotManager.ts:148-153), across
\* writes in flight, restores, clears and evictions.
CleanIsStored ==
    \A g \in Loads : states[g].ops = 0 => states[g].doc \subseteq Stored \cup states[g].base

\* crdt:persisted is sent only for an update that is in a stored version, if
\* the document the update was merged into is still the live one and holds it
\* at that moment (CRDTService.ts:807-813).
AckedIsStored ==
    [][\A c \in Clients :
         LET u == task[c].edit
         IN u \in acked' \ acked /\ task[c].obj = resident' /\ u \in Live'
            => u \in Stored']_vars

\* An edit only memory holds is eventually stored, unless it leaves memory:
\* failed writes keep the document dirty for the next sweep
\* (CRDTService.ts:1018-1025).
UnsavedIsFlushed ==
    \A u \in Updates : u \in Unsaved ~> u \notin Unsaved

\* Edits arriving during a write remain dirty: unless the store, a write under
\* way or the hot cache has it, an edit leaves memory only by a restore, a
\* clear, a delete or a restart.  What CHANGELOG.md:2210 says; the eviction does
\* not keep to it.
EditsStayDirty ==
    [][\A u \in Unsaved : \/ u \in Unsaved' \cup Stored' \cup UNION cache'
                          \/ took'.ok /\ u \in took'.doc
                          \/ resident # 0 /\ states'[resident].edition # states[resident].edition
                          \/ commands' # commands]_vars

=============================================================================
