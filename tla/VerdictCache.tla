---------------------------- MODULE VerdictCache ----------------------------
(***************************************************************************)
(* The cache of positive channel verdicts a host may wrap around its       *)
(* `authorize` hook (src/src/server/authority/verdictCache.ts).            *)
(*                                                                         *)
(* A check looks its key up; on a miss the host is asked, and the call     *)
(* spans time: membership writes, epoch bumps, disconnects and the         *)
(* invalidations they cause may all fall between the start of the host     *)
(* call, the moment the host reads its rows, and the return.  The cache    *)
(* marks such calls tainted and does not store them.                       *)
(*                                                                         *)
(* Principal revalidation awaits before it calls the cache                 *)
(* (src/src/server/authority/principal.ts), so a check may begin under a   *)
(* context that was replaced, or after the connection's disconnect dropped *)
(* its verdicts: the cache looks at neither.                               *)
(*                                                                         *)
(* A batch check (`authorizeBatch`) is modelled recipient by recipient:    *)
(* its lookups, and later its stores, are exactly these per-recipient      *)
(* steps run back to back.                                                 *)
(***************************************************************************)
EXTENDS Integers, FiniteSets

CONSTANTS
    Conns,       \* connections (clientIds)
    Channels,    \* router channel names, service prefixes included
    Bases,       \* base channels
    Base,        \* Base[ch]: baseChannel(ch)
    Users,       \* userIds
    Ctxs,        \* auth-context objects
    CtxUser,     \* CtxUser[x]: userOf(x), or NoUser
    NoUser,      \* the context carries no userId
    Kinds,       \* the access kinds checked
    CachedKinds, \* opts.kinds
    Flights,     \* identities of concurrent host calls: bounds their number
    MaxEntries,  \* opts.maxEntries
    MaxAge,      \* opts.maxAgeMs
    MaxClock,    \* bound: the clock stops here
    MaxEpoch     \* bound: the directory bumps no further

Keys == Conns \X Kinds \X Channels
Principals == {CtxUser[x] : x \in Ctxs}

ASSUME CacheAssumption ==
    /\ NoUser \notin Users
    /\ Base \in [Channels -> Bases]
    /\ CtxUser \in [Ctxs -> Users \cup {NoUser}]
    /\ Kinds \subseteq {"subscribe", "publish"}
    /\ CachedKinds \subseteq Kinds
    /\ MaxEntries \in Nat \ {0}
    /\ MaxAge \in Nat \ {0}
    /\ MaxClock \in Nat
    /\ MaxEpoch \in Nat

NoEpoch  == -1      \* epoch() returned null or threw: nothing is cached
Absent   == [live |-> FALSE]
Idle     == [busy |-> FALSE]

VARIABLES
    entries,   \* key -> entry, or Absent
    byConn,    \* the three indexes invalidation walks
    byBase,
    byUser,
    inFlight,  \* host calls that have started and not returned
    clock,
    ctx,       \* the contexts each connection has had: a check carries one
    open,      \* connections whose socket is open
    purged,    \* closed connections whose invalidateConnection has run
    epoch,     \* the directory epoch of each principal
    grants,    \* what the host would answer now: <<principal, kind, base>>
    dueBase,   \* committed channel writes whose invalidation has not arrived
    dueUser    \* committed user writes whose invalidation has not arrived

cacheVars == <<entries, byConn, byBase, byUser>>
hostVars  == <<clock, ctx, open, purged, epoch, grants, dueBase, dueUser>>
vars == <<cacheVars, inFlight, hostVars>>

\* late is history: the check began after its connection's verdicts were
\* dropped for the disconnect.
Entry == [live : {TRUE}, ctx : Ctxs, user : Principals, base : Bases,
          epoch : 0..MaxEpoch, at : 0..MaxClock, late : BOOLEAN]

Call == [busy : {TRUE}, key : Keys, ctx : Ctxs, epoch : {NoEpoch} \cup (0..MaxEpoch),
         tainted : BOOLEAN, late : BOOLEAN, answer : {"unread", "allow", "deny"}]

TypeOK ==
    /\ entries \in [Keys -> Entry \cup {Absent}]
    /\ byConn \in [Conns -> SUBSET Keys]
    /\ byBase \in [Bases -> SUBSET Keys]
    /\ byUser \in [Users -> SUBSET Keys]
    /\ inFlight \in [Flights -> Call \cup {Idle}]
    /\ clock \in 0..MaxClock
    /\ ctx \in [Conns -> SUBSET Ctxs]
    /\ open \subseteq Conns
    /\ purged \subseteq Conns
    /\ epoch \in [Principals -> 0..MaxEpoch]
    /\ grants \subseteq Principals \X Kinds \X Bases
    /\ dueBase \subseteq Bases
    /\ dueUser \subseteq Users

Init ==
    /\ entries = [k \in Keys |-> Absent]
    /\ byConn = [c \in Conns |-> {}]
    /\ byBase = [b \in Bases |-> {}]
    /\ byUser = [u \in Users |-> {}]
    /\ inFlight = [f \in Flights |-> Idle]
    /\ clock = 0
    /\ ctx \in [Conns -> {{x} : x \in Ctxs}]
    /\ open = Conns
    /\ purged = {}
    /\ epoch = [p \in Principals |-> 0]
    /\ grants = Principals \X Kinds \X Bases
    /\ dueBase = {}
    /\ dueUser = {}

-----------------------------------------------------------------------------
(* The map and its indexes.                                                *)

Stored == {k \in Keys : entries[k].live}

\* drop for every key of ks that has an entry: the entry goes, and with it
\* the key from the indexes the entry names.
Without(ks) == [k \in Keys |-> IF k \in ks THEN Absent ELSE entries[k]]
ConnWithout(ks) == [c \in Conns |-> byConn[c] \ {k \in ks \cap Stored : k[1] = c}]
BaseWithout(ks) == [b \in Bases |-> byBase[b] \ {k \in ks \cap Stored : entries[k].base = b}]
UserWithoutKeepingRows(ks) == byUser
UserWithout(ks) == [u \in Users |-> byUser[u] \ {k \in ks \cap Stored : entries[k].user = u}]

DropAll(ks) ==
    /\ entries' = Without(ks)
    /\ byConn' = ConnWithout(ks)
    /\ byBase' = BaseWithout(ks)
    /\ byUser' = UserWithout(ks)

\* store: the key's old entry goes; an entry of the same connection proved
\* under another context or epoch takes the connection's entries with it; a
\* full map loses its oldest entry; then the new entry and its index rows.
Differs(k, x, e) == entries[k].live /\ (entries[k].ctx # x \/ entries[k].epoch # e)

\* The first index row sampled, when the connection has another one.
FencedNothing(key, x, e, sample) == {}
Fenced(key, x, e, sample) ==
    IF sample # key /\ Differs(sample, x, e) THEN byConn[key[1]] ELSE {}

Oldest(ks) == {k \in ks : \A j \in ks : entries[k].at <= entries[j].at}

EvictedNothing(ks) == {{}}
Evicted(ks) == IF Cardinality(ks) < MaxEntries THEN {{}} ELSE {{k} : k \in Oldest(ks)}

Store(key, x, e, late) ==
    LET others == byConn[key[1]] \ {key}
        b == Base[key[3]]
        u == CtxUser[x]
    IN  \E sample \in IF others = {} THEN {key} ELSE others :
        LET gone == {key} \cup Fenced(key, x, e, sample) IN
        \E out \in Evicted(Stored \ gone) :
            LET ks == gone \cup out IN
            /\ entries' = [Without(ks) EXCEPT ![key] =
                   [live |-> TRUE, ctx |-> x, user |-> u, base |-> b, epoch |-> e,
                    at |-> clock, late |-> late]]
            /\ byConn' = [ConnWithout(ks) EXCEPT ![key[1]] = @ \cup {key}]
            /\ byBase' = [BaseWithout(ks) EXCEPT ![b] = @ \cup {key}]
            /\ byUser' = [v \in Users |-> UserWithout(ks)[v] \cup (IF v = u THEN {key} ELSE {})]

\* Calls an invalidation matches are tainted; they answer but do not store.
Busy == {f \in Flights : inFlight[f].busy}

Taint(fs) ==
    inFlight' = [f \in Flights |->
        IF f \in fs THEN [inFlight[f] EXCEPT !.tainted = TRUE] ELSE inFlight[f]]

-----------------------------------------------------------------------------
(* A check.                                                                *)

\* The epoch read for a check: the directory's, or none.  A kind that is not
\* cached, or an epoch that cannot be read, is a check without caching.
EpochsRead(kind, x) ==
    IF kind \in CachedKinds THEN {NoEpoch, epoch[CtxUser[x]]} ELSE {NoEpoch}

Expired(k) == clock - entries[k].at >= MaxAge

\* What lookup drops on its way to a miss.
LookupDrops(k, x, e) ==
    IF ~entries[k].live THEN {}
    ELSE IF entries[k].ctx # x \/ entries[k].epoch # e THEN byConn[k[1]]
    ELSE {k}

Hit(k, x, e) ==
    entries[k].live /\ entries[k].ctx = x /\ entries[k].epoch = e /\ ~Expired(k)

\* A check that is not answered from the cache starts a host call, also for
\* a connection that is gone.
StartCheck(f, key) ==
    /\ ~inFlight[f].busy
    /\ \E x \in ctx[key[1]] : \E e \in EpochsRead(key[2], x) :
         /\ ~(e # NoEpoch /\ Hit(key, x, e))
         /\ inFlight' = [inFlight EXCEPT ![f] =
              [busy |-> TRUE, key |-> key, ctx |-> x, epoch |-> e,
               tainted |-> FALSE, late |-> key[1] \in purged, answer |-> "unread"]]
         /\ IF e = NoEpoch THEN UNCHANGED cacheVars
                           ELSE DropAll(LookupDrops(key, x, e))
    /\ UNCHANGED hostVars

\* The host evaluates its policy at some moment of the call, or fails.
HostAnswers(f) ==
    /\ inFlight[f].busy
    /\ inFlight[f].answer = "unread"
    /\ LET c == inFlight[f]
           granted == <<CtxUser[c.ctx], c.key[2], Base[c.key[3]]>> \in grants
       IN  \E a \in {"deny"} \cup (IF granted THEN {"allow"} ELSE {}) :
             inFlight' = [inFlight EXCEPT ![f].answer = a]
    /\ UNCHANGED <<cacheVars, hostVars>>

\* The call returns: a refusal drops the key, a clean positive is stored.
Uncached(c) == c.epoch = NoEpoch

StorableThoughTainted(c, e) == c.answer = "allow" /\ e = c.epoch
Storable(c, e) == c.answer = "allow" /\ ~c.tainted /\ e = c.epoch

FinishCheck(f) ==
    /\ inFlight[f].busy
    /\ inFlight[f].answer # "unread"
    /\ inFlight' = [inFlight EXCEPT ![f] = Idle]
    /\ LET c == inFlight[f] IN
         \/ /\ Uncached(c)
            /\ UNCHANGED cacheVars
         \/ /\ ~Uncached(c) /\ c.answer = "deny"
            /\ DropAll({c.key})
         \/ /\ ~Uncached(c) /\ c.answer = "allow"
            /\ \E e \in {NoEpoch, epoch[CtxUser[c.ctx]]} :
                 IF Storable(c, e) THEN Store(c.key, c.ctx, c.epoch, c.late)
                                   ELSE UNCHANGED cacheVars
    /\ UNCHANGED hostVars

-----------------------------------------------------------------------------
(* Invalidation.                                                           *)

InvalidateChannel(b) ==
    /\ DropAll(byBase[b])
    /\ Taint({f \in Busy : Base[inFlight[f].key[3]] = b})

InvalidateUser(u) ==
    /\ DropAll(byUser[u])
    /\ Taint({f \in Busy : CtxUser[inFlight[f].ctx] = u})

InvalidateConnectionEntriesOnly(n) ==
    /\ DropAll(byConn[n])
    /\ UNCHANGED inFlight

InvalidateConnection(n) ==
    /\ DropAll(byConn[n])
    /\ Taint({f \in Busy : inFlight[f].key[1] = n})

Clear ==
    /\ entries' = [k \in Keys |-> Absent]
    /\ byConn' = [c \in Conns |-> {}]
    /\ byBase' = [b \in Bases |-> {}]
    /\ byUser' = [u \in Users |-> {}]
    /\ Taint(Busy)
    /\ UNCHANGED hostVars

-----------------------------------------------------------------------------
(* The host around the cache.                                              *)

\* A membership write of one channel commits; its invalidation is on its way.
CommitChannelWrite(b) ==
    /\ \E g \in SUBSET (Principals \X Kinds \X {b}) :
         grants' = {t \in grants : t[3] # b} \cup g
    /\ dueBase' = dueBase \cup {b}
    /\ UNCHANGED <<cacheVars, inFlight, clock, ctx, open, purged, epoch, dueUser>>

ChannelWriteArrives(b) ==
    /\ b \in dueBase
    /\ dueBase' = dueBase \ {b}
    /\ InvalidateChannel(b)
    /\ UNCHANGED <<clock, ctx, open, purged, epoch, grants, dueUser>>

CommitUserWrite(u) ==
    /\ \E g \in SUBSET (({u} \cap Principals) \X Kinds \X Bases) :
         grants' = {t \in grants : t[1] # u} \cup g
    /\ dueUser' = dueUser \cup {u}
    /\ UNCHANGED <<cacheVars, inFlight, clock, ctx, open, purged, epoch, dueBase>>

UserWriteArrives(u) ==
    /\ u \in dueUser
    /\ dueUser' = dueUser \ {u}
    /\ InvalidateUser(u)
    /\ UNCHANGED <<clock, ctx, open, purged, epoch, grants, dueBase>>

\* A directory change moves the principal's epoch; no event is sent.
BumpEpoch(p) ==
    /\ epoch[p] < MaxEpoch
    /\ epoch' = [epoch EXCEPT ![p] = @ + 1]
    /\ \E g \in SUBSET ({p} \X Kinds \X Bases) :
         grants' = {t \in grants : t[1] # p} \cup g
    /\ UNCHANGED <<cacheVars, inFlight, clock, ctx, open, purged, dueBase, dueUser>>

ReplaceContext(n, x) ==
    /\ n \in open /\ x \notin ctx[n]
    /\ ctx' = [ctx EXCEPT ![n] = @ \cup {x}]
    /\ UNCHANGED <<cacheVars, inFlight, clock, open, purged, epoch, grants, dueBase, dueUser>>

\* The router stops seeing a context as soon as the socket closes; the
\* disconnect handler that drops the verdicts runs later.
Close(n) ==
    /\ n \in open
    /\ open' = open \ {n}
    /\ UNCHANGED <<cacheVars, inFlight, clock, ctx, purged, epoch, grants, dueBase, dueUser>>

Disconnected(n) ==
    /\ n \notin open /\ n \notin purged
    /\ purged' = purged \cup {n}
    /\ InvalidateConnection(n)
    /\ UNCHANGED <<clock, ctx, open, epoch, grants, dueBase, dueUser>>

\* Principal revalidation failed for a check of the connection (onStale).
PrincipalStale(n) ==
    /\ InvalidateConnection(n)
    /\ UNCHANGED hostVars

Tick ==
    /\ clock < MaxClock
    /\ clock' = clock + 1
    /\ UNCHANGED <<cacheVars, inFlight, ctx, open, purged, epoch, grants, dueBase, dueUser>>

Next ==
    \/ \E f \in Flights, k \in Keys : StartCheck(f, k)
    \/ \E f \in Flights : HostAnswers(f) \/ FinishCheck(f)
    \/ \E b \in Bases : CommitChannelWrite(b) \/ ChannelWriteArrives(b)
    \/ \E u \in Users : CommitUserWrite(u) \/ UserWriteArrives(u)
    \/ \E p \in Principals : BumpEpoch(p)
    \/ \E n \in Conns, x \in Ctxs : ReplaceContext(n, x)
    \/ \E n \in Conns : Close(n) \/ Disconnected(n) \/ PrincipalStale(n)
    \/ Clear
    \/ Tick

Spec == Init /\ [][Next]_vars

-----------------------------------------------------------------------------
(* Properties.                                                             *)

\* V1, V3: a stored verdict the next check would be answered from says what
\* the host would say now, unless the write that changed the answer is one
\* whose invalidation has not arrived yet.  A host call may overlap any
\* number of writes, bumps and invalidations, so this rests on tainting the
\* calls in flight and on re-reading the epoch when they return.
ServableVerdictsAreCurrent ==
    \A k \in Keys, x \in Ctxs :
        Hit(k, x, epoch[CtxUser[x]]) =>
            \/ <<CtxUser[x], k[2], Base[k[3]]>> \in grants
            \/ Base[k[3]] \in dueBase
            \/ CtxUser[x] \in dueUser

\* Every index row names a stored entry and every stored entry is in the
\* index of its connection, its base channel and its user: what
\* invalidateChannel, invalidateUser and invalidateConnection walk misses
\* nothing, and the indexes do not outgrow the map.
IndexesAgree ==
    /\ \A n \in Conns : byConn[n] = {k \in Stored : k[1] = n}
    /\ \A b \in Bases : byBase[b] = {k \in Stored : entries[k].base = b}
    /\ \A u \in Users : byUser[u] = {k \in Stored : entries[k].user = u}

\* store samples one entry of the connection to decide whether the rest is
\* stale: sound only while a connection's entries were all proved under one
\* context and one epoch.
OneProofPerConnection ==
    \A j, k \in Stored : j[1] = k[1] =>
        entries[j].ctx = entries[k].ctx /\ entries[j].epoch = entries[k].epoch

\* V6: the map never holds more than maxEntries.
SizeBound == Cardinality(Stored) <= MaxEntries

\* V7: once a closed connection's verdicts were dropped none comes back from a
\* host call that was still running then.  Only a check that began after it,
\* which nothing can taint any more, leaves an entry.
NothingAfterDisconnect ==
    \A k \in Stored : k[1] \in purged => entries[k].late

\* The inductive form of ServableVerdictsAreCurrent.  An entry remembers the
\* principal and base channel of its key and an epoch the principal has had.
\* What an entry, or a clean positive call, holds under the principal's
\* present epoch is granted, or revoked by a write not yet announced.
Permitted(x, k) ==
    \/ <<CtxUser[x], k[2], Base[k[3]]>> \in grants
    \/ Base[k[3]] \in dueBase
    \/ CtxUser[x] \in dueUser

EntriesFaithful ==
    \A k \in Stored :
        /\ entries[k].user = CtxUser[entries[k].ctx]
        /\ entries[k].base = Base[k[3]]
        /\ entries[k].epoch <= epoch[CtxUser[entries[k].ctx]]

EntriesCurrent ==
    \A k \in Stored :
        entries[k].epoch = epoch[CtxUser[entries[k].ctx]] => Permitted(entries[k].ctx, k)

CallsFaithful ==
    \A f \in Busy : inFlight[f].epoch <= epoch[CtxUser[inFlight[f].ctx]]

CallsCurrent ==
    \A f \in Busy :
        (/\ ~inFlight[f].tainted
         /\ inFlight[f].answer = "allow"
         /\ inFlight[f].epoch = epoch[CtxUser[inFlight[f].ctx]])
        => Permitted(inFlight[f].ctx, inFlight[f].key)

\* A call of a connection whose verdicts were dropped is tainted, or began
\* later.
PurgedCallsTainted ==
    /\ purged \cap open = {}
    /\ \A f \in Busy : inFlight[f].key[1] \in purged => inFlight[f].tainted \/ inFlight[f].late

CurrentInv ==
    /\ TypeOK
    /\ IndexesAgree
    /\ EntriesFaithful
    /\ EntriesCurrent
    /\ CallsFaithful
    /\ CallsCurrent
    /\ PurgedCallsTainted
    /\ NothingAfterDisconnect

=============================================================================
