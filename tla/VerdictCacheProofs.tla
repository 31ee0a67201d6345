-------------------------- MODULE VerdictCacheProofs --------------------------
(***************************************************************************)
(* Proofs about VerdictCache, for any number of connections, channels,     *)
(* users, contexts and concurrent host calls, and any bounds.              *)
(***************************************************************************)
EXTENDS VerdictCache, FiniteSetTheorems, TLAPS

USE DEF NoEpoch

-----------------------------------------------------------------------------
(* Type correctness.                                                       *)

\* Dropping keys keeps the map and the indexes well typed.
LEMMA WithoutType ==
    ASSUME TypeOK, NEW ks
    PROVE  /\ Without(ks) \in [Keys -> Entry \cup {Absent}]
           /\ ConnWithout(ks) \in [Conns -> SUBSET Keys]
           /\ BaseWithout(ks) \in [Bases -> SUBSET Keys]
           /\ UserWithout(ks) \in [Users -> SUBSET Keys]
BY DEF TypeOK, Without, ConnWithout, BaseWithout, UserWithout

LEMMA DropAllType ==
    ASSUME TypeOK, NEW ks, DropAll(ks)
    PROVE  /\ entries' \in [Keys -> Entry \cup {Absent}]
           /\ byConn' \in [Conns -> SUBSET Keys]
           /\ byBase' \in [Bases -> SUBSET Keys]
           /\ byUser' \in [Users -> SUBSET Keys]
BY WithoutType DEF DropAll

LEMMA StoreType ==
    ASSUME TypeOK, CacheAssumption, NEW key \in Keys, NEW x \in Ctxs,
           NEW e \in 0..MaxEpoch,
           NEW late \in BOOLEAN, Store(key, x, e, late)
    PROVE  /\ entries' \in [Keys -> Entry \cup {Absent}]
           /\ byConn' \in [Conns -> SUBSET Keys]
           /\ byBase' \in [Bases -> SUBSET Keys]
           /\ byUser' \in [Users -> SUBSET Keys]
<1> DEFINE new == [live |-> TRUE, ctx |-> x, user |-> CtxUser[x], base |-> Base[key[3]],
                   epoch |-> e, at |-> clock, late |-> late]
<1>1. PICK ks :
        /\ entries' = [Without(ks) EXCEPT ![key] = new]
        /\ byConn' = [ConnWithout(ks) EXCEPT ![key[1]] = @ \cup {key}]
        /\ byBase' = [BaseWithout(ks) EXCEPT ![Base[key[3]]] = @ \cup {key}]
        /\ byUser' = [v \in Users |-> UserWithout(ks)[v] \cup
                                      (IF v = CtxUser[x] THEN {key} ELSE {})]
  BY DEF Store
<1>2. /\ key[1] \in Conns
      /\ key[3] \in Channels
      /\ Base[key[3]] \in Bases
  BY DEF Keys, CacheAssumption
<1>3. new \in Entry
  BY <1>2 DEF Entry, TypeOK, Principals
<1> QED
  BY <1>1, <1>2, <1>3, WithoutType

LEMMA TaintType ==
    ASSUME TypeOK, NEW fs, fs \subseteq Busy, Taint(fs)
    PROVE  inFlight' \in [Flights -> Call \cup {Idle}]
<1>1. SUFFICES ASSUME NEW f \in Flights
               PROVE  (IF f \in fs THEN [inFlight[f] EXCEPT !.tainted = TRUE]
                                   ELSE inFlight[f]) \in Call \cup {Idle}
  BY DEF Taint
<1>2. inFlight[f] \in Call \cup {Idle}
  BY DEF TypeOK
<1>3. CASE f \in fs
  <2>1. inFlight[f].busy
    BY <1>3 DEF Busy
  <2>2. inFlight[f] \in Call
    BY <1>2, <2>1 DEF Idle
  <2> QED
    BY <1>3, <2>2 DEF Call
<1> QED
  BY <1>2, <1>3

LEMMA TypeInit == Init => TypeOK
BY CacheAssumption DEF Init, TypeOK, CacheAssumption, Principals

LEMMA TypeStep == TypeOK /\ [Next]_vars => TypeOK'
<1> USE CacheAssumption
<1>1. TypeOK /\ [Next]_vars => TypeOK'
  <2> SUFFICES ASSUME TypeOK, [Next]_vars PROVE TypeOK'
    OBVIOUS
  <2>1. ASSUME NEW f \in Flights, NEW k \in Keys, StartCheck(f, k) PROVE TypeOK'
    <3>0. PICK x \in ctx[k[1]] : \E e \in EpochsRead(k[2], x) :
            /\ inFlight' = [inFlight EXCEPT ![f] =
                 [busy |-> TRUE, key |-> k, ctx |-> x, epoch |-> e,
                  tainted |-> FALSE, late |-> k[1] \in purged, answer |-> "unread"]]
            /\ IF e = NoEpoch THEN UNCHANGED cacheVars
                              ELSE DropAll(LookupDrops(k, x, e))
      BY <2>1 DEF StartCheck
    <3>1. PICK e \in EpochsRead(k[2], x) :
            /\ inFlight' = [inFlight EXCEPT ![f] =
                 [busy |-> TRUE, key |-> k, ctx |-> x, epoch |-> e,
                  tainted |-> FALSE, late |-> k[1] \in purged, answer |-> "unread"]]
            /\ IF e = NoEpoch THEN UNCHANGED cacheVars
                              ELSE DropAll(LookupDrops(k, x, e))
      BY <3>0
    <3>2. k[1] \in Conns /\ x \in Ctxs
      BY DEF TypeOK, Keys
    <3>3. e \in {NoEpoch} \cup (0..MaxEpoch)
      BY <3>2 DEF EpochsRead, TypeOK, Principals
    <3>4. inFlight' \in [Flights -> Call \cup {Idle}]
      <4>1. (k[1] \in purged) \in BOOLEAN
        OBVIOUS
      <4> QED BY <3>1, <3>2, <3>3, <4>1 DEF TypeOK, Call
    <3>5. /\ entries' \in [Keys -> Entry \cup {Absent}]
          /\ byConn' \in [Conns -> SUBSET Keys]
          /\ byBase' \in [Bases -> SUBSET Keys]
          /\ byUser' \in [Users -> SUBSET Keys]
      BY <3>1, DropAllType DEF TypeOK, cacheVars
    <3> QED
      BY <2>1, <3>4, <3>5 DEF TypeOK, StartCheck, hostVars
  <2>2. ASSUME NEW f \in Flights, HostAnswers(f) PROVE TypeOK'
    <3>1. inFlight[f] \in Call
      BY <2>2 DEF HostAnswers, TypeOK, Idle
    <3>2. PICK a \in {"allow", "deny"} : inFlight' = [inFlight EXCEPT ![f].answer = a]
      BY <2>2 DEF HostAnswers
    <3>3. inFlight' \in [Flights -> Call \cup {Idle}]
      BY <3>1, <3>2 DEF TypeOK, Call
    <3> QED
      BY <2>2, <3>3 DEF TypeOK, HostAnswers, cacheVars, hostVars
  <2>3. ASSUME NEW f \in Flights, FinishCheck(f) PROVE TypeOK'
    <3> DEFINE c == inFlight[f]
    <3>1. c \in Call
      BY <2>3 DEF FinishCheck, TypeOK, Idle
    <3>2. /\ entries' \in [Keys -> Entry \cup {Absent}]
          /\ byConn' \in [Conns -> SUBSET Keys]
          /\ byBase' \in [Bases -> SUBSET Keys]
          /\ byUser' \in [Users -> SUBSET Keys]
      <4>1. CASE UNCHANGED cacheVars
        BY <4>1 DEF TypeOK, cacheVars
      <4>2. CASE DropAll({c.key})
        BY <4>2, DropAllType
      <4>3. CASE ~Uncached(c) /\ Store(c.key, c.ctx, c.epoch, c.late)
        <5>1. c.key \in Keys /\ c.ctx \in Ctxs /\ c.epoch \in 0..MaxEpoch /\ c.late \in BOOLEAN
          BY <3>1, <4>3 DEF Call, Uncached
        <5> HIDE DEF c
        <5> QED
          BY <4>3, <5>1, StoreType
      <4> QED
        BY <2>3, <4>1, <4>2, <4>3 DEF FinishCheck
    <3>3. inFlight' \in [Flights -> Call \cup {Idle}]
      BY <2>3 DEF FinishCheck, TypeOK
    <3> QED
      BY <2>3, <3>2, <3>3 DEF TypeOK, FinishCheck, hostVars
  <2>4. ASSUME NEW b \in Bases, CommitChannelWrite(b) PROVE TypeOK'
    BY <2>4 DEF TypeOK, CommitChannelWrite, cacheVars
  <2>5. ASSUME NEW b \in Bases, ChannelWriteArrives(b) PROVE TypeOK'
    BY <2>5, DropAllType, TaintType
    DEF TypeOK, ChannelWriteArrives, InvalidateChannel
  <2>6. ASSUME NEW u \in Users, CommitUserWrite(u) PROVE TypeOK'
    BY <2>6 DEF TypeOK, CommitUserWrite, cacheVars
  <2>7. ASSUME NEW u \in Users, UserWriteArrives(u) PROVE TypeOK'
    BY <2>7, DropAllType, TaintType
    DEF TypeOK, UserWriteArrives, InvalidateUser
  <2>8. ASSUME NEW p \in Principals, BumpEpoch(p) PROVE TypeOK'
    BY <2>8 DEF TypeOK, BumpEpoch, cacheVars, CacheAssumption
  <2>9. ASSUME NEW n \in Conns, NEW x \in Ctxs, ReplaceContext(n, x) PROVE TypeOK'
    BY <2>9 DEF TypeOK, ReplaceContext, cacheVars
  <2>10. ASSUME NEW n \in Conns, Close(n) PROVE TypeOK'
    BY <2>10 DEF TypeOK, Close, cacheVars
  <2>11. ASSUME NEW n \in Conns, Disconnected(n) PROVE TypeOK'
    BY <2>11, DropAllType, TaintType
    DEF TypeOK, Disconnected, InvalidateConnection
  <2>12. ASSUME NEW n \in Conns, PrincipalStale(n) PROVE TypeOK'
    BY <2>12, DropAllType, TaintType
    DEF TypeOK, PrincipalStale, InvalidateConnection, hostVars
  <2>13. CASE Clear
    BY <2>13, TaintType DEF TypeOK, Clear, hostVars
  <2>14. CASE Tick
    BY <2>14 DEF TypeOK, Tick, cacheVars, CacheAssumption
  <2>15. CASE UNCHANGED vars
    BY <2>15 DEF TypeOK, vars, cacheVars, hostVars
  <2> QED
    BY <2>1, <2>2, <2>3, <2>4, <2>5, <2>6, <2>7, <2>8, <2>9, <2>10, <2>11,
       <2>12, <2>13, <2>14, <2>15 DEF Next
<1> QED
  BY <1>1

\* Every variable keeps its type: what a check stores is an entry of a real
\* epoch, and the indexes only ever name keys.
THEOREM TypeCorrect == Spec => []TypeOK
BY TypeInit, TypeStep, PTL DEF Spec

-----------------------------------------------------------------------------
(* What dropping and storing do to the map and its indexes.                *)

\* Dropping removes exactly the named entries, and the indexes follow.
LEMMA DropAllEffect ==
    ASSUME TypeOK, IndexesAgree, NEW ks, DropAll(ks)
    PROVE  /\ Stored' = Stored \ ks
           /\ \A k \in Stored' : entries'[k] = entries[k]
           /\ IndexesAgree'
<1>1. entries' = [k \in Keys |-> IF k \in ks THEN Absent ELSE entries[k]]
  BY DEF DropAll, Without
<1>2. Stored' = Stored \ ks
  BY <1>1 DEF Stored, Absent
<1>3. \A k \in Stored' : entries'[k] = entries[k]
  BY <1>1, <1>2 DEF Stored
<1>4. \A n \in Conns : byConn'[n] = {k \in Stored' : k[1] = n}
  BY <1>2 DEF DropAll, ConnWithout, IndexesAgree, Stored
<1>5. \A b \in Bases : byBase'[b] = {k \in Stored' : entries'[k].base = b}
  BY <1>2, <1>3 DEF DropAll, BaseWithout, IndexesAgree, Stored
<1>6. \A u \in Users : byUser'[u] = {k \in Stored' : entries'[k].user = u}
  BY <1>2, <1>3 DEF DropAll, UserWithout, IndexesAgree, Stored
<1> QED
  BY <1>2, <1>3, <1>4, <1>5, <1>6 DEF IndexesAgree

\* Storing adds the one new entry; every other entry was there before.
LEMMA StoreEffect ==
    ASSUME TypeOK, IndexesAgree, CacheAssumption, NEW key \in Keys, NEW x \in Ctxs,
           NEW e \in 0..MaxEpoch,
           NEW late \in BOOLEAN, Store(key, x, e, late)
    PROVE  /\ key \in Stored'
           /\ entries'[key] = [live |-> TRUE, ctx |-> x, user |-> CtxUser[x],
                               base |-> Base[key[3]], epoch |-> e, at |-> clock, late |-> late]
           /\ \A k \in Stored' \ {key} : k \in Stored /\ entries'[k] = entries[k]
           /\ IndexesAgree'
<1> DEFINE new == [live |-> TRUE, ctx |-> x, user |-> CtxUser[x], base |-> Base[key[3]],
                   epoch |-> e, at |-> clock, late |-> late]
<1>1. PICK ks :
        /\ key \in ks
        /\ entries' = [Without(ks) EXCEPT ![key] = new]
        /\ byConn' = [ConnWithout(ks) EXCEPT ![key[1]] = @ \cup {key}]
        /\ byBase' = [BaseWithout(ks) EXCEPT ![Base[key[3]]] = @ \cup {key}]
        /\ byUser' = [v \in Users |-> UserWithout(ks)[v] \cup
                                      (IF v = CtxUser[x] THEN {key} ELSE {})]
  BY DEF Store
<1>2. /\ key[1] \in Conns
      /\ key[3] \in Channels
      /\ Base[key[3]] \in Bases
  BY DEF Keys, CacheAssumption
<1>3. \A k \in Keys : entries'[k] = IF k = key THEN new
                                   ELSE IF k \in ks THEN Absent ELSE entries[k]
  BY <1>1 DEF Without
<1>4. Stored' = (Stored \ ks) \cup {key}
  BY <1>1, <1>3 DEF Stored, Absent
<1>5. entries'[key] = new
  BY <1>3
<1>6. \A k \in Stored' \ {key} : k \in Stored \ ks /\ entries'[k] = entries[k]
  BY <1>3, <1>4 DEF Stored
<1> HIDE DEF new
<1>7. \A n \in Conns : byConn'[n] = {k \in Stored' : k[1] = n}
  <2> SUFFICES ASSUME NEW n \in Conns PROVE byConn'[n] = {k \in Stored' : k[1] = n}
    OBVIOUS
  <2>1. ConnWithout(ks)[n] = {k \in Stored \ ks : k[1] = n}
    BY DEF ConnWithout, IndexesAgree, Stored
  <2>2. byConn'[n] = ConnWithout(ks)[n] \cup (IF n = key[1] THEN {key} ELSE {})
    BY <1>1, <1>2 DEF ConnWithout
  <2> QED
    BY <2>1, <2>2, <1>4
<1>8. \A b \in Bases : byBase'[b] = {k \in Stored' : entries'[k].base = b}
  <2> SUFFICES ASSUME NEW b \in Bases
               PROVE  byBase'[b] = {k \in Stored' : entries'[k].base = b}
    OBVIOUS
  <2>1. BaseWithout(ks)[b] = {k \in Stored \ ks : entries[k].base = b}
    BY DEF BaseWithout, IndexesAgree, Stored
  <2>2. byBase'[b] = BaseWithout(ks)[b] \cup (IF b = Base[key[3]] THEN {key} ELSE {})
    BY <1>1, <1>2 DEF BaseWithout
  <2>3. entries'[key].base = Base[key[3]]
    BY <1>5 DEF new
  <2>4. byBase'[b] = {k \in Stored \ ks : entries[k].base = b}
                       \cup (IF b = Base[key[3]] THEN {key} ELSE {})
    BY <2>1, <2>2
  <2> QED
    BY <2>3, <2>4, <1>1, <1>4, <1>6
<1>9. \A u \in Users : byUser'[u] = {k \in Stored' : entries'[k].user = u}
  <2> SUFFICES ASSUME NEW u \in Users
               PROVE  byUser'[u] = {k \in Stored' : entries'[k].user = u}
    OBVIOUS
  <2>1. UserWithout(ks)[u] = {k \in Stored \ ks : entries[k].user = u}
    BY DEF UserWithout, IndexesAgree, Stored
  <2>2. byUser'[u] = UserWithout(ks)[u] \cup (IF u = CtxUser[x] THEN {key} ELSE {})
    BY <1>1 DEF UserWithout
  <2>3. entries'[key].user = CtxUser[x]
    BY <1>5 DEF new
  <2>4. byUser'[u] = {k \in Stored \ ks : entries[k].user = u}
                       \cup (IF u = CtxUser[x] THEN {key} ELSE {})
    BY <2>1, <2>2
  <2> QED
    BY <2>3, <2>4, <1>1, <1>4, <1>6
<1> QED
  BY <1>4, <1>5, <1>6, <1>7, <1>8, <1>9 DEF IndexesAgree, new

-----------------------------------------------------------------------------
(* What a lookup serves is current; nothing returns after a disconnect.    *)

\* The part of CurrentInv that speaks of entries survives any step that only
\* removes entries, while no epoch moves, no permission is withdrawn from
\* what remains and no remaining entry's connection is newly purged.
LEMMA EntriesShrink ==
    ASSUME CurrentInv, Stored' \subseteq Stored,
           \A k \in Stored' : entries'[k] = entries[k],
           \A k \in Stored' : epoch'[CtxUser[entries[k].ctx]] >= epoch[CtxUser[entries[k].ctx]],
           \A k \in Stored' :
               /\ entries[k].epoch = epoch'[CtxUser[entries[k].ctx]]
               /\ entries[k].epoch = epoch[CtxUser[entries[k].ctx]]
               /\ Permitted(entries[k].ctx, k)
               => Permitted(entries[k].ctx, k)',
           \A k \in Stored' : k[1] \notin purged' \ purged,
           TypeOK'
    PROVE  EntriesFaithful' /\ EntriesCurrent' /\ NothingAfterDisconnect'
<1>1. ASSUME NEW k \in Stored'
      PROVE  /\ entries'[k].user = CtxUser[entries'[k].ctx]
             /\ entries'[k].base = Base[k[3]]
             /\ entries'[k].epoch <= epoch'[CtxUser[entries'[k].ctx]]
             /\ entries'[k].epoch = epoch'[CtxUser[entries'[k].ctx]]
                  => Permitted(entries[k].ctx, k)'
  <2> DEFINE u == CtxUser[entries[k].ctx]
  <2>1. k \in Keys /\ entries[k] \in Entry
    BY <1>1 DEF Stored, CurrentInv, TypeOK, Absent
  <2>2. u \in Principals
    BY <2>1 DEF Entry, Principals
  <2>3. entries[k].epoch \in Int /\ epoch[u] \in Int /\ epoch'[u] \in Int
    BY <2>1, <2>2 DEF Entry, CurrentInv, TypeOK
  <2>4. entries[k].epoch <= epoch[u]
    BY <1>1 DEF CurrentInv, EntriesFaithful
  <2>5. epoch'[u] >= epoch[u]
    BY <1>1
  <2>6. entries[k].epoch = epoch'[u] => Permitted(entries[k].ctx, k)'
    <3> SUFFICES ASSUME entries[k].epoch = epoch'[u] PROVE Permitted(entries[k].ctx, k)'
      OBVIOUS
    <3>1. entries[k].epoch = epoch[u]
      BY <2>3, <2>4, <2>5
    <3>2. Permitted(entries[k].ctx, k)
      BY <1>1, <3>1 DEF CurrentInv, EntriesCurrent
    <3> QED
      BY <1>1, <3>1, <3>2
  <2> QED
    BY <1>1, <2>3, <2>4, <2>5, <2>6 DEF CurrentInv, EntriesFaithful
<1>2. NothingAfterDisconnect'
  <2> SUFFICES ASSUME NEW k \in Stored', k[1] \in purged' PROVE entries'[k].late
    BY DEF NothingAfterDisconnect
  <2>1. k \in Stored /\ k[1] \in purged /\ entries'[k] = entries[k]
    OBVIOUS
  <2> QED BY <2>1 DEF CurrentInv, NothingAfterDisconnect
<1> QED
  BY <1>1, <1>2 DEF EntriesFaithful, EntriesCurrent

\* Likewise for the calls in flight: a call that stays busy keeps its key,
\* context and epoch, and may only become tainted or get its answer.
LEMMA CallsContinue ==
    ASSUME CurrentInv, TypeOK', Busy' \subseteq Busy,
           \A f \in Busy' : /\ inFlight'[f].key = inFlight[f].key
                            /\ inFlight'[f].ctx = inFlight[f].ctx
                            /\ inFlight'[f].epoch = inFlight[f].epoch
                            /\ inFlight'[f].late = inFlight[f].late
                            /\ inFlight[f].tainted => inFlight'[f].tainted
                            /\ inFlight'[f].answer = inFlight[f].answer,
           \A f \in Busy : epoch'[CtxUser[inFlight[f].ctx]] >= epoch[CtxUser[inFlight[f].ctx]],
           \A f \in Busy' :
               /\ ~inFlight'[f].tainted
               /\ inFlight[f].epoch = epoch'[CtxUser[inFlight[f].ctx]]
               /\ inFlight[f].epoch = epoch[CtxUser[inFlight[f].ctx]]
               /\ Permitted(inFlight[f].ctx, inFlight[f].key)
               => Permitted(inFlight[f].ctx, inFlight[f].key)',
           \A f \in Busy' : inFlight[f].key[1] \in purged' \ purged => inFlight'[f].tainted
    PROVE  /\ CallsFaithful' /\ CallsCurrent'
           /\ \A f \in Busy' : inFlight'[f].key[1] \in purged' => inFlight'[f].tainted \/ inFlight'[f].late
<1>1. ASSUME NEW f \in Busy'
      PROVE  /\ inFlight'[f].epoch <= epoch'[CtxUser[inFlight'[f].ctx]]
             /\ (/\ ~inFlight'[f].tainted
                 /\ inFlight'[f].answer = "allow"
                 /\ inFlight'[f].epoch = epoch'[CtxUser[inFlight'[f].ctx]])
                => Permitted(inFlight[f].ctx, inFlight[f].key)'
             /\ inFlight'[f].key[1] \in purged' => inFlight'[f].tainted \/ inFlight'[f].late
  <2> DEFINE u == CtxUser[inFlight[f].ctx]
  <2>1. f \in Flights /\ f \in Busy /\ inFlight[f] \in Call
    BY <1>1 DEF Busy, CurrentInv, TypeOK, Idle
  <2>2. u \in Principals
    BY <2>1 DEF Call, Principals
  <2>3. inFlight[f].epoch \in Int /\ epoch[u] \in Int /\ epoch'[u] \in Int
    BY <2>1, <2>2 DEF Call, CurrentInv, TypeOK
  <2>4. inFlight[f].epoch <= epoch[u]
    BY <2>1 DEF CurrentInv, CallsFaithful
  <2>5. epoch'[u] >= epoch[u]
    BY <2>1
  <2>6. ASSUME ~inFlight'[f].tainted, inFlight'[f].answer = "allow",
               inFlight[f].epoch = epoch'[u]
        PROVE  Permitted(inFlight[f].ctx, inFlight[f].key)'
    <3>1. inFlight[f].epoch = epoch[u]
      BY <2>3, <2>4, <2>5, <2>6
    <3>2. ~inFlight[f].tainted /\ inFlight[f].answer = "allow"
      BY <1>1, <2>6
    <3>3. Permitted(inFlight[f].ctx, inFlight[f].key)
      BY <2>1, <3>1, <3>2 DEF CurrentInv, CallsCurrent
    <3> QED
      BY <1>1, <2>6, <3>1, <3>3
  <2>7. inFlight[f].key[1] \in purged => inFlight[f].tainted \/ inFlight[f].late
    BY <2>1 DEF CurrentInv, PurgedCallsTainted
  <2>8. /\ inFlight'[f].key = inFlight[f].key
        /\ inFlight'[f].ctx = inFlight[f].ctx
        /\ inFlight'[f].epoch = inFlight[f].epoch
        /\ inFlight'[f].late = inFlight[f].late
        /\ inFlight[f].tainted => inFlight'[f].tainted
        /\ inFlight[f].key[1] \in purged' \ purged => inFlight'[f].tainted
    BY <1>1
  <2>9. inFlight[f].epoch <= epoch'[u]
    BY <2>3, <2>4, <2>5
  <2>10. inFlight[f].key[1] \in purged' => inFlight'[f].tainted \/ inFlight'[f].late
    BY <2>7, <2>8
  <2> QED
    BY <2>6, <2>8, <2>9, <2>10
<1> QED
  BY <1>1 DEF CallsFaithful, CallsCurrent

\* Tainting leaves a call busy with the same key, context, epoch and answer.
LEMMA TaintEffect ==
    ASSUME TypeOK, NEW fs, fs \subseteq Busy, Taint(fs)
    PROVE  /\ Busy' = Busy
           /\ \A f \in Busy : /\ inFlight'[f].key = inFlight[f].key
                              /\ inFlight'[f].ctx = inFlight[f].ctx
                              /\ inFlight'[f].epoch = inFlight[f].epoch
                              /\ inFlight'[f].late = inFlight[f].late
                              /\ inFlight'[f].answer = inFlight[f].answer
                              /\ inFlight'[f].tainted = (f \in fs \/ inFlight[f].tainted)
<1>1. \A f \in Busy : inFlight[f] \in Call
  BY DEF Busy, TypeOK, Idle
<1> QED
  BY <1>1 DEF Taint, Busy, Call

LEMMA CurrentInit == Init => CurrentInv
<1> SUFFICES ASSUME Init PROVE CurrentInv
  OBVIOUS
<1>1. Stored = {} /\ Busy = {}
  BY DEF Init, Stored, Absent, Busy, Idle
<1>2. IndexesAgree
  BY <1>1 DEF Init, IndexesAgree
<1>3. purged = {}
  BY DEF Init
<1> QED
  BY <1>1, <1>2, <1>3, TypeInit
  DEF CurrentInv, EntriesFaithful, EntriesCurrent, CallsFaithful, CallsCurrent,
      PurgedCallsTainted, NothingAfterDisconnect

LEMMA CurrentStep == CurrentInv /\ [Next]_vars => CurrentInv'
<1> USE CacheAssumption
<1> SUFFICES ASSUME CurrentInv, [Next]_vars PROVE CurrentInv'
  OBVIOUS
<1>t. TypeOK /\ TypeOK' /\ IndexesAgree
  BY TypeStep DEF CurrentInv
<1>e. \A k \in Stored : entries[k] \in Entry /\ k \in Keys
  BY <1>t DEF TypeOK, Stored, Absent
<1>f. \A f \in Busy : f \in Flights /\ inFlight[f] \in Call
  BY <1>t DEF TypeOK, Busy, Idle
<1>p. \A p \in Principals : epoch[p] \in Int
  BY <1>t DEF TypeOK
<1>x. \A x \in Ctxs : CtxUser[x] \in Principals /\ epoch[CtxUser[x]] \in Int
  BY <1>p DEF Principals
<1>ep. \A k \in Stored : /\ epoch[CtxUser[entries[k].ctx]] \in Int
                        /\ entries[k].epoch \in Int
                        /\ CtxUser[entries[k].ctx] \in Principals
  <2> SUFFICES ASSUME NEW k \in Stored
               PROVE  entries[k].ctx \in Ctxs /\ entries[k].epoch \in Int
    BY <1>x
  <2>1. entries[k] \in Entry
    BY <1>e
  <2>2. entries[k].ctx \in Ctxs /\ entries[k].epoch \in 0..MaxEpoch
    BY <2>1 DEF Entry
  <2> QED
    BY <2>2 DEF CacheAssumption
<1>fp. \A f \in Busy : /\ epoch[CtxUser[inFlight[f].ctx]] \in Int
                      /\ inFlight[f].epoch \in Int
                      /\ CtxUser[inFlight[f].ctx] \in Principals
  <2> SUFFICES ASSUME NEW f \in Busy
               PROVE  inFlight[f].ctx \in Ctxs /\ inFlight[f].epoch \in Int
    BY <1>x
  <2>1. inFlight[f] \in Call
    BY <1>f
  <2>2. inFlight[f].ctx \in Ctxs /\ inFlight[f].epoch \in {NoEpoch} \cup (0..MaxEpoch)
    BY <2>1 DEF Call
  <2> QED
    BY <2>2 DEF CacheAssumption
<1>1. ASSUME NEW f \in Flights, NEW k \in Keys, StartCheck(f, k) PROVE CurrentInv'
  <2>h. UNCHANGED <<epoch, grants, dueBase, dueUser, open, purged>>
    BY <1>1 DEF StartCheck, hostVars
  <2>0. PICK x \in ctx[k[1]] : \E e \in EpochsRead(k[2], x) :
          /\ inFlight' = [inFlight EXCEPT ![f] =
               [busy |-> TRUE, key |-> k, ctx |-> x, epoch |-> e,
                tainted |-> FALSE, late |-> k[1] \in purged, answer |-> "unread"]]
          /\ IF e = NoEpoch THEN UNCHANGED cacheVars
                            ELSE DropAll(LookupDrops(k, x, e))
    BY <1>1 DEF StartCheck
  <2>1. PICK e \in EpochsRead(k[2], x) :
          /\ inFlight' = [inFlight EXCEPT ![f] =
               [busy |-> TRUE, key |-> k, ctx |-> x, epoch |-> e,
                tainted |-> FALSE, late |-> k[1] \in purged, answer |-> "unread"]]
          /\ IF e = NoEpoch THEN UNCHANGED cacheVars
                            ELSE DropAll(LookupDrops(k, x, e))
    BY <2>0
  <2>2. /\ Stored' \subseteq Stored
        /\ \A j \in Stored' : entries'[j] = entries[j]
        /\ IndexesAgree'
    <3>1. CASE UNCHANGED cacheVars
      BY <3>1, <1>t DEF cacheVars, Stored, IndexesAgree
    <3>2. CASE DropAll(LookupDrops(k, x, e))
      BY <3>2, <1>t, DropAllEffect
    <3> QED
      BY <2>1, <3>1, <3>2
  <2>3. EntriesFaithful' /\ EntriesCurrent' /\ NothingAfterDisconnect'
    BY <2>h, <2>2, <1>t, <1>ep, EntriesShrink
    DEF Permitted, CurrentInv, NothingAfterDisconnect
  <2>4. \A g \in Busy' : g # f => g \in Busy /\ inFlight'[g] = inFlight[g]
    BY <2>1, <1>t DEF Busy, TypeOK
  <2>5. inFlight'[f].key = k /\ inFlight'[f].ctx = x /\ inFlight'[f].epoch = e
        /\ inFlight'[f].answer = "unread" /\ inFlight'[f].late = (k[1] \in purged)
    BY <1>1, <2>1, <1>t DEF TypeOK, StartCheck
  <2>6. e <= epoch[CtxUser[x]]
    <3>1. CtxUser[x] \in Principals
      BY <1>t DEF TypeOK, Keys, Principals
    <3> QED
      BY <3>1, <1>t DEF EpochsRead, TypeOK
  <2>7. CallsFaithful'
    BY <2>h, <2>4, <2>5, <2>6 DEF CallsFaithful, CurrentInv
  <2>8. CallsCurrent'
    BY <2>h, <2>4, <2>5 DEF CallsCurrent, CurrentInv, Permitted
  <2>9. PurgedCallsTainted'
    BY <2>h, <2>4, <2>5 DEF PurgedCallsTainted, CurrentInv
  <2> QED
    BY <1>t, <2>2, <2>3, <2>7, <2>8, <2>9 DEF CurrentInv
<1>2. ASSUME NEW f \in Flights, HostAnswers(f) PROVE CurrentInv'
  <2>h. UNCHANGED <<epoch, grants, dueBase, dueUser, open, purged, entries, byConn, byBase, byUser>>
    BY <1>2 DEF HostAnswers, hostVars, cacheVars
  <2>1. f \in Busy
    BY <1>2 DEF HostAnswers, Busy
  <2>2. PICK a \in {"allow", "deny"} :
          /\ inFlight' = [inFlight EXCEPT ![f].answer = a]
          /\ a = "allow" => <<CtxUser[inFlight[f].ctx], inFlight[f].key[2],
                              Base[inFlight[f].key[3]]>> \in grants
    BY <1>2 DEF HostAnswers
  <2>3. Stored' = Stored /\ IndexesAgree'
    BY <2>h, <1>t DEF Stored, IndexesAgree
  <2>4. EntriesFaithful' /\ EntriesCurrent' /\ NothingAfterDisconnect'
    BY <2>h, <2>3, <1>t, <1>ep, EntriesShrink
    DEF Permitted, CurrentInv, NothingAfterDisconnect
  <2>5. \A g \in Busy' : /\ g \in Busy
                         /\ inFlight'[g].key = inFlight[g].key
                         /\ inFlight'[g].ctx = inFlight[g].ctx
                         /\ inFlight'[g].epoch = inFlight[g].epoch
                         /\ inFlight'[g].late = inFlight[g].late
                         /\ inFlight'[g].tainted = inFlight[g].tainted
                         /\ inFlight'[g].answer = IF g = f THEN a ELSE inFlight[g].answer
    BY <2>1, <2>2, <1>t, <1>f DEF Busy, TypeOK, Call
  <2>6. CallsFaithful'
    BY <2>h, <2>5 DEF CallsFaithful, CurrentInv
  <2>7. CallsCurrent'
    BY <2>h, <2>2, <2>5 DEF CallsCurrent, CurrentInv, Permitted
  <2>8. PurgedCallsTainted'
    BY <2>h, <2>5 DEF PurgedCallsTainted, CurrentInv
  <2> QED
    BY <1>t, <2>3, <2>4, <2>6, <2>7, <2>8 DEF CurrentInv
<1>3. ASSUME NEW f \in Flights, FinishCheck(f) PROVE CurrentInv'
  <2> DEFINE c == inFlight[f]
  <2>h. UNCHANGED <<epoch, grants, dueBase, dueUser, open, purged>>
    BY <1>3 DEF FinishCheck, hostVars
  <2>1. f \in Busy /\ c \in Call
    BY <1>3, <1>f DEF FinishCheck, Busy
  <2>2. inFlight' = [inFlight EXCEPT ![f] = Idle]
    BY <1>3 DEF FinishCheck
  <2>3. Busy' \subseteq Busy /\ \A g \in Busy' : inFlight'[g] = inFlight[g]
    BY <2>2, <1>t DEF Busy, Idle, TypeOK
  <2>4. CallsFaithful' /\ CallsCurrent' /\ PurgedCallsTainted'
    BY <2>h, <2>3 DEF CallsFaithful, CallsCurrent, PurgedCallsTainted, CurrentInv, Permitted
  <2>5. CASE /\ Stored' \subseteq Stored
             /\ \A j \in Stored' : entries'[j] = entries[j]
             /\ IndexesAgree'
    <3>1. EntriesFaithful' /\ EntriesCurrent' /\ NothingAfterDisconnect'
      BY <2>h, <2>5, <1>t, <1>ep, EntriesShrink
      DEF Permitted, CurrentInv, NothingAfterDisconnect
    <3> QED
      BY <1>t, <2>4, <2>5, <3>1 DEF CurrentInv
  <2>6. CASE UNCHANGED cacheVars
    BY <2>5, <2>6, <1>t DEF cacheVars, Stored, IndexesAgree
  <2>7. CASE DropAll({c.key})
    BY <2>5, <2>7, <1>t, DropAllEffect
  <2>8. ASSUME ~Uncached(c), NEW e \in {NoEpoch, epoch[CtxUser[c.ctx]]},
               Storable(c, e), Store(c.key, c.ctx, c.epoch, c.late)
        PROVE  CurrentInv'
    <3>1. /\ c.key \in Keys /\ c.ctx \in Ctxs /\ c.epoch \in 0..MaxEpoch /\ c.late \in BOOLEAN
          /\ c.answer = "allow" /\ ~c.tainted /\ c.epoch = epoch[CtxUser[c.ctx]]
      BY <2>1, <2>8 DEF Call, Uncached, Storable
    <3>2. Permitted(c.ctx, c.key) /\ (c.key[1] \in purged => c.late)
      BY <2>1, <3>1 DEF CurrentInv, CallsCurrent, PurgedCallsTainted
    <3> DEFINE key == c.key
               x == c.ctx
               ep == c.epoch
               lt == c.late
    <3>3. /\ key \in Stored'
          /\ entries'[key] = [live |-> TRUE, ctx |-> x, user |-> CtxUser[x],
                              base |-> Base[key[3]], epoch |-> ep, at |-> clock, late |-> lt]
          /\ \A k \in Stored' \ {key} : k \in Stored /\ entries'[k] = entries[k]
          /\ IndexesAgree'
      <4> HIDE DEF key, x, ep, lt
      <4>1. /\ key \in Keys /\ x \in Ctxs /\ ep \in 0..MaxEpoch /\ lt \in BOOLEAN
            /\ Store(key, x, ep, lt)
        BY <3>1, <2>8 DEF key, x, ep, lt
      <4> QED
        BY <4>1, <1>t, StoreEffect
    <3>4. EntriesFaithful'
      <4>1. ep <= epoch[CtxUser[x]]
        BY <3>1
      <4> QED
        BY <3>3, <4>1, <2>h DEF EntriesFaithful, CurrentInv
    <3>5. EntriesCurrent'
      <4>1. Permitted(x, key)
        BY <3>2
      <4> HIDE DEF x, key, ep
      <4> QED
        BY <3>3, <4>1, <2>h DEF EntriesCurrent, CurrentInv, Permitted
    <3>6. NothingAfterDisconnect'
      BY <3>2, <3>3, <2>h DEF NothingAfterDisconnect, CurrentInv
    <3> QED
      BY <1>t, <2>4, <3>3, <3>4, <3>5, <3>6 DEF CurrentInv
  <2> QED
    BY <1>3, <2>6, <2>7, <2>8 DEF FinishCheck
<1>4. ASSUME NEW b \in Bases, CommitChannelWrite(b) PROVE CurrentInv'
  <2>1. PICK g \in SUBSET (Principals \X Kinds \X {b}) : grants' = {t \in grants : t[3] # b} \cup g
    BY <1>4 DEF CommitChannelWrite
  <2>2. /\ UNCHANGED <<cacheVars, inFlight, open, purged, epoch, dueUser>>
        /\ dueBase' = dueBase \cup {b}
    BY <1>4 DEF CommitChannelWrite
  <2>3. \A x \in Ctxs, k \in Keys : Permitted(x, k) => Permitted(x, k)'
    BY <2>1, <2>2 DEF Permitted
  <2> QED
    BY <1>t, <1>e, <1>f, <2>2, <2>3
    DEF CurrentInv, cacheVars, Stored, Busy, IndexesAgree, EntriesFaithful, EntriesCurrent,
        CallsFaithful, CallsCurrent, PurgedCallsTainted, NothingAfterDisconnect, Entry, Call
<1>5. ASSUME NEW b \in Bases, ChannelWriteArrives(b) PROVE CurrentInv'
  <2> DEFINE fs == {f \in Busy : Base[inFlight[f].key[3]] = b}
  <2>1. /\ DropAll(byBase[b]) /\ Taint(fs)
        /\ UNCHANGED <<open, purged, epoch, grants, dueUser>>
        /\ dueBase' = dueBase \ {b}
    BY <1>5 DEF ChannelWriteArrives, InvalidateChannel
  <2>2. \A x \in Ctxs, k \in Keys : Base[k[3]] # b /\ Permitted(x, k) => Permitted(x, k)'
    BY <2>1 DEF Permitted
  <2>3. byBase[b] = {k \in Stored : Base[k[3]] = b}
    BY DEF CurrentInv, IndexesAgree, EntriesFaithful
  <2>4. /\ Stored' = Stored \ byBase[b] /\ IndexesAgree'
        /\ \A k \in Stored' : entries'[k] = entries[k]
    BY <2>1, <1>t, DropAllEffect
  <2>5. /\ Busy' = Busy
        /\ \A f \in Busy : /\ inFlight'[f].key = inFlight[f].key
                           /\ inFlight'[f].ctx = inFlight[f].ctx
                           /\ inFlight'[f].epoch = inFlight[f].epoch
                           /\ inFlight'[f].late = inFlight[f].late
                           /\ inFlight'[f].answer = inFlight[f].answer
                           /\ inFlight'[f].tainted = (f \in fs \/ inFlight[f].tainted)
    <3>1. fs \subseteq Busy
      OBVIOUS
    <3> HIDE DEF fs
    <3> QED
      BY <2>1, <3>1, <1>t, TaintEffect
  <2>6. EntriesFaithful' /\ EntriesCurrent' /\ NothingAfterDisconnect'
    <3>1. \A k \in Stored' : entries[k].ctx \in Ctxs /\ k \in Keys
      BY <2>4, <1>e DEF Entry
    <3>2. \A k \in Stored' : k[1] \notin purged' \ purged
      BY <2>1, <2>3, <2>4 DEF CurrentInv, NothingAfterDisconnect
    <3> QED
      BY <2>1, <2>2, <2>3, <2>4, <3>1, <3>2, <1>t, <1>ep, EntriesShrink
  <2>7. CallsFaithful' /\ CallsCurrent' /\ PurgedCallsTainted'
    <3>1. \A f \in Busy : inFlight[f].ctx \in Ctxs /\ inFlight[f].key \in Keys
      BY <1>f DEF Call
    <3>2. \A f \in Busy' :
            ~inFlight'[f].tainted /\ Permitted(inFlight[f].ctx, inFlight[f].key)
              => Permitted(inFlight[f].ctx, inFlight[f].key)'
      BY <2>2, <2>5, <3>1
    <3>3. \A f \in Busy : epoch'[CtxUser[inFlight[f].ctx]] >= epoch[CtxUser[inFlight[f].ctx]]
      BY <2>1, <1>fp
    <3>4. \A f \in Busy' : inFlight[f].key[1] \in purged' \ purged => inFlight'[f].tainted
      BY <2>1, <2>5
    <3>5. /\ CallsFaithful' /\ CallsCurrent'
          /\ \A f \in Busy' : inFlight'[f].key[1] \in purged' => inFlight'[f].tainted \/ inFlight'[f].late
      BY <2>5, <3>2, <3>3, <3>4, <1>t, CallsContinue
    <3> QED
      BY <2>1, <3>5 DEF PurgedCallsTainted, CurrentInv
  <2> QED
    BY <1>t, <2>4, <2>6, <2>7 DEF CurrentInv
<1>6. ASSUME NEW u \in Users, CommitUserWrite(u) PROVE CurrentInv'
  <2>1. PICK g \in SUBSET (({u} \cap Principals) \X Kinds \X Bases) :
           grants' = {t \in grants : t[1] # u} \cup g
    BY <1>6 DEF CommitUserWrite
  <2>2. /\ UNCHANGED <<cacheVars, inFlight, open, purged, epoch, dueBase>>
        /\ dueUser' = dueUser \cup {u}
    BY <1>6 DEF CommitUserWrite
  <2>3. \A x \in Ctxs, k \in Keys : Permitted(x, k) => Permitted(x, k)'
    BY <2>1, <2>2 DEF Permitted
  <2> QED
    BY <1>t, <1>e, <1>f, <2>2, <2>3
    DEF CurrentInv, cacheVars, Stored, Busy, IndexesAgree, EntriesFaithful, EntriesCurrent,
        CallsFaithful, CallsCurrent, PurgedCallsTainted, NothingAfterDisconnect, Entry, Call
<1>7. ASSUME NEW u \in Users, UserWriteArrives(u) PROVE CurrentInv'
  <2> DEFINE fs == {f \in Busy : CtxUser[inFlight[f].ctx] = u}
  <2>1. /\ DropAll(byUser[u]) /\ Taint(fs)
        /\ UNCHANGED <<open, purged, epoch, grants, dueBase>>
        /\ dueUser' = dueUser \ {u}
    BY <1>7 DEF UserWriteArrives, InvalidateUser
  <2>2. \A x \in Ctxs, k \in Keys : CtxUser[x] # u /\ Permitted(x, k) => Permitted(x, k)'
    BY <2>1 DEF Permitted
  <2>3. byUser[u] = {k \in Stored : CtxUser[entries[k].ctx] = u}
    BY DEF CurrentInv, IndexesAgree, EntriesFaithful
  <2>4. /\ Stored' = Stored \ byUser[u] /\ IndexesAgree'
        /\ \A k \in Stored' : entries'[k] = entries[k]
    BY <2>1, <1>t, DropAllEffect
  <2>5. /\ Busy' = Busy
        /\ \A f \in Busy : /\ inFlight'[f].key = inFlight[f].key
                           /\ inFlight'[f].ctx = inFlight[f].ctx
                           /\ inFlight'[f].epoch = inFlight[f].epoch
                           /\ inFlight'[f].late = inFlight[f].late
                           /\ inFlight'[f].answer = inFlight[f].answer
                           /\ inFlight'[f].tainted = (f \in fs \/ inFlight[f].tainted)
    <3>1. fs \subseteq Busy
      OBVIOUS
    <3> HIDE DEF fs
    <3> QED
      BY <2>1, <3>1, <1>t, TaintEffect
  <2>6. EntriesFaithful' /\ EntriesCurrent' /\ NothingAfterDisconnect'
    <3>1. \A k \in Stored' : entries[k].ctx \in Ctxs /\ k \in Keys
      BY <2>4, <1>e DEF Entry
    <3>2. \A k \in Stored' : k[1] \notin purged' \ purged
      BY <2>1, <2>3, <2>4 DEF CurrentInv, NothingAfterDisconnect
    <3> QED
      BY <2>1, <2>2, <2>3, <2>4, <3>1, <3>2, <1>t, <1>ep, EntriesShrink
  <2>7. CallsFaithful' /\ CallsCurrent' /\ PurgedCallsTainted'
    <3>1. \A f \in Busy : inFlight[f].ctx \in Ctxs /\ inFlight[f].key \in Keys
      BY <1>f DEF Call
    <3>2. \A f \in Busy' :
            ~inFlight'[f].tainted /\ Permitted(inFlight[f].ctx, inFlight[f].key)
              => Permitted(inFlight[f].ctx, inFlight[f].key)'
      BY <2>2, <2>5, <3>1
    <3>3. \A f \in Busy : epoch'[CtxUser[inFlight[f].ctx]] >= epoch[CtxUser[inFlight[f].ctx]]
      BY <2>1, <1>fp
    <3>4. \A f \in Busy' : inFlight[f].key[1] \in purged' \ purged => inFlight'[f].tainted
      BY <2>1, <2>5
    <3>5. /\ CallsFaithful' /\ CallsCurrent'
          /\ \A f \in Busy' : inFlight'[f].key[1] \in purged' => inFlight'[f].tainted \/ inFlight'[f].late
      BY <2>5, <3>2, <3>3, <3>4, <1>t, CallsContinue
    <3> QED
      BY <2>1, <3>5 DEF PurgedCallsTainted, CurrentInv
  <2> QED
    BY <1>t, <2>4, <2>6, <2>7 DEF CurrentInv
<1>8. ASSUME NEW p \in Principals, BumpEpoch(p) PROVE CurrentInv'
  <2>1. PICK g \in SUBSET ({p} \X Kinds \X Bases) : grants' = {t \in grants : t[1] # p} \cup g
    BY <1>8 DEF BumpEpoch
  <2>2. /\ UNCHANGED <<cacheVars, inFlight, open, purged, dueBase, dueUser>>
        /\ epoch' = [epoch EXCEPT ![p] = @ + 1]
    BY <1>8 DEF BumpEpoch
  <2>3. \A x \in Ctxs : epoch'[CtxUser[x]] = IF CtxUser[x] = p THEN epoch[CtxUser[x]] + 1
                                                            ELSE epoch[CtxUser[x]]
    BY <2>2, <1>x, <1>t DEF TypeOK
  <2>4. \A x \in Ctxs, k \in Keys : CtxUser[x] # p /\ Permitted(x, k) => Permitted(x, k)'
    BY <2>1, <2>2 DEF Permitted
  <2>5. Stored' = Stored /\ Busy' = Busy /\ IndexesAgree'
    BY <2>2, <1>t DEF cacheVars, Stored, Busy, IndexesAgree
  <2>6. EntriesFaithful' /\ EntriesCurrent' /\ NothingAfterDisconnect'
    <3>1. \A k \in Stored' : /\ entries'[k] = entries[k]
                            /\ entries[k].ctx \in Ctxs /\ k \in Keys
                            /\ k[1] \notin purged' \ purged
      BY <2>2, <2>5, <1>e DEF cacheVars, Entry, CurrentInv, NothingAfterDisconnect
    <3> QED
      BY <2>3, <2>4, <2>5, <3>1, <1>t, <1>x, <1>ep, EntriesShrink
  <2>7. CallsFaithful' /\ CallsCurrent' /\ PurgedCallsTainted'
    <3>1. \A f \in Busy : inFlight[f].ctx \in Ctxs /\ inFlight[f].key \in Keys
      BY <1>f DEF Call
    <3> QED
      BY <2>2, <2>3, <2>4, <2>5, <3>1, <1>t, <1>x, <1>fp, CallsContinue
      DEF CurrentInv, PurgedCallsTainted
  <2> QED
    BY <1>t, <2>5, <2>6, <2>7 DEF CurrentInv
<1>9. ASSUME NEW n \in Conns, NEW x \in Ctxs, ReplaceContext(n, x) PROVE CurrentInv'
  BY <1>9, <1>t
  DEF ReplaceContext, CurrentInv, cacheVars, Stored, Busy, IndexesAgree, EntriesFaithful,
      EntriesCurrent, Permitted, CallsFaithful, CallsCurrent, PurgedCallsTainted,
      NothingAfterDisconnect
<1>10. ASSUME NEW n \in Conns, Close(n) PROVE CurrentInv'
  BY <1>10, <1>t
  DEF Close, CurrentInv, cacheVars, Stored, Busy, IndexesAgree, EntriesFaithful,
      EntriesCurrent, Permitted, CallsFaithful, CallsCurrent, PurgedCallsTainted,
      NothingAfterDisconnect
<1>11. ASSUME NEW n \in Conns, InvalidateConnection(n), purged' \in {purged, purged \cup {n}},
              n \in purged' => n \notin open,
              UNCHANGED <<open, epoch, grants, dueBase, dueUser>>
       PROVE CurrentInv'
  <2> DEFINE fs == {f \in Busy : inFlight[f].key[1] = n}
  <2>1. DropAll(byConn[n]) /\ Taint(fs)
    BY <1>11 DEF InvalidateConnection
  <2>2. \A x \in Ctxs, k \in Keys : Permitted(x, k) => Permitted(x, k)'
    BY <1>11 DEF Permitted
  <2>3. byConn[n] = {k \in Stored : k[1] = n}
    BY DEF CurrentInv, IndexesAgree
  <2>4. /\ Stored' = Stored \ byConn[n] /\ IndexesAgree'
        /\ \A k \in Stored' : entries'[k] = entries[k]
    BY <2>1, <1>t, DropAllEffect
  <2>5. /\ Busy' = Busy
        /\ \A f \in Busy : /\ inFlight'[f].key = inFlight[f].key
                           /\ inFlight'[f].ctx = inFlight[f].ctx
                           /\ inFlight'[f].epoch = inFlight[f].epoch
                           /\ inFlight'[f].late = inFlight[f].late
                           /\ inFlight'[f].answer = inFlight[f].answer
                           /\ inFlight'[f].tainted = (f \in fs \/ inFlight[f].tainted)
    <3>1. fs \subseteq Busy
      OBVIOUS
    <3> HIDE DEF fs
    <3> QED
      BY <2>1, <3>1, <1>t, TaintEffect
  <2>6. EntriesFaithful' /\ EntriesCurrent' /\ NothingAfterDisconnect'
    <3>1. \A k \in Stored' : entries[k].ctx \in Ctxs /\ k \in Keys
      BY <2>4, <1>e DEF Entry
    <3>2. \A k \in Stored' : k[1] \notin purged' \ purged
      BY <1>11, <2>1, <2>3, <2>4 DEF CurrentInv, NothingAfterDisconnect
    <3> QED
      BY <1>11, <2>1, <2>2, <2>3, <2>4, <3>1, <3>2, <1>t, <1>ep, EntriesShrink
  <2>7. CallsFaithful' /\ CallsCurrent' /\ PurgedCallsTainted'
    <3>1. \A f \in Busy : inFlight[f].ctx \in Ctxs /\ inFlight[f].key \in Keys
      BY <1>f DEF Call
    <3>2. \A f \in Busy' :
            ~inFlight'[f].tainted /\ Permitted(inFlight[f].ctx, inFlight[f].key)
              => Permitted(inFlight[f].ctx, inFlight[f].key)'
      BY <2>2, <2>5, <3>1
    <3>3. \A f \in Busy : epoch'[CtxUser[inFlight[f].ctx]] >= epoch[CtxUser[inFlight[f].ctx]]
      BY <1>11, <2>1, <1>fp
    <3>4. \A f \in Busy' : inFlight[f].key[1] \in purged' \ purged => inFlight'[f].tainted
      BY <1>11, <2>1, <2>5
    <3>5. /\ CallsFaithful' /\ CallsCurrent'
          /\ \A f \in Busy' : inFlight'[f].key[1] \in purged' => inFlight'[f].tainted \/ inFlight'[f].late
      BY <2>5, <3>2, <3>3, <3>4, <1>t, CallsContinue
    <3> QED
      BY <1>11, <2>1, <3>5 DEF PurgedCallsTainted, CurrentInv
  <2> QED
    BY <1>t, <2>4, <2>6, <2>7 DEF CurrentInv
<1>12. ASSUME NEW n \in Conns, Disconnected(n) PROVE CurrentInv'
  BY <1>11, <1>12 DEF Disconnected
<1>13. ASSUME NEW n \in Conns, PrincipalStale(n) PROVE CurrentInv'
  BY <1>11, <1>13 DEF PrincipalStale, hostVars, CurrentInv, PurgedCallsTainted
<1>14. CASE Clear
  <2>1. Stored' = {} /\ IndexesAgree'
    BY <1>14 DEF Clear, Stored, Absent, IndexesAgree
  <2> QED
    BY <1>t, <1>14, <2>1, TaintEffect
    DEF Clear, hostVars, CurrentInv, EntriesFaithful, EntriesCurrent, CallsFaithful,
        CallsCurrent, PurgedCallsTainted, NothingAfterDisconnect
<1>15. CASE Tick
  BY <1>15, <1>t
  DEF Tick, CurrentInv, cacheVars, Stored, Busy, IndexesAgree, EntriesFaithful,
      EntriesCurrent, Permitted, CallsFaithful, CallsCurrent, PurgedCallsTainted,
      NothingAfterDisconnect
<1>16. CASE UNCHANGED vars
  BY <1>16, <1>t
  DEF vars, hostVars, CurrentInv, cacheVars, Stored, Busy, IndexesAgree, EntriesFaithful,
      EntriesCurrent, Permitted, CallsFaithful, CallsCurrent, PurgedCallsTainted,
      NothingAfterDisconnect
<1> QED
  BY <1>1, <1>2, <1>3, <1>4, <1>5, <1>6, <1>7, <1>8, <1>9, <1>10, <1>12, <1>13,
     <1>14, <1>15, <1>16 DEF Next

\* For any number of overlapping host calls, writes, epoch bumps and
\* disconnects: a verdict the next check would be answered from is what the
\* host would say now, or the write that changed it is not announced yet.
THEOREM VerdictsCurrent == Spec => []ServableVerdictsAreCurrent
<1>1. CurrentInv => ServableVerdictsAreCurrent
  <2> SUFFICES ASSUME CurrentInv, NEW k \in Keys, NEW x \in Ctxs,
                      Hit(k, x, epoch[CtxUser[x]])
               PROVE  Permitted(x, k)
    BY DEF ServableVerdictsAreCurrent, Permitted
  <2>1. k \in Stored /\ entries[k].ctx = x /\ entries[k].epoch = epoch[CtxUser[x]]
    BY DEF Hit, Stored
  <2> QED
    BY <2>1 DEF CurrentInv, EntriesCurrent
<1> QED
  BY <1>1, CurrentInit, CurrentStep, PTL DEF Spec

\* The indexes invalidation walks name exactly the stored entries.
THEOREM IndexesCorrect == Spec => []IndexesAgree
<1>1. CurrentInv => IndexesAgree
  BY DEF CurrentInv
<1> QED
  BY <1>1, CurrentInit, CurrentStep, PTL DEF Spec

\* A disconnected connection's verdicts never come back from a check that
\* was running then; what is stored later was asked later.
THEOREM DisconnectFinal == Spec => []NothingAfterDisconnect
<1>1. CurrentInv => NothingAfterDisconnect
  BY DEF CurrentInv
<1> QED
  BY <1>1, CurrentInit, CurrentStep, PTL DEF Spec

-----------------------------------------------------------------------------
(* The sample store takes of a connection, and the size of the map.        *)

\* A step only drops entries, or stores one.
Shrinks == Stored' \subseteq Stored /\ \A k \in Stored' : entries'[k] = entries[k]
Stores == \E key \in Keys, x \in Ctxs, e \in 0..MaxEpoch, late \in BOOLEAN :
              Store(key, x, e, late)

LEMMA MapMoves == TypeOK /\ IndexesAgree /\ [Next]_vars => Shrinks \/ Stores
<1>. SUFFICES ASSUME TypeOK, IndexesAgree, [Next]_vars PROVE Shrinks \/ Stores
  OBVIOUS
<1>1. ASSUME UNCHANGED cacheVars PROVE Shrinks
  BY <1>1 DEF cacheVars, Stored, Shrinks
<1>2. ASSUME NEW ks, DropAll(ks) PROVE Shrinks
  BY <1>2, DropAllEffect DEF Shrinks
<1>3. ASSUME NEW f \in Flights, NEW k \in Keys, StartCheck(f, k) PROVE Shrinks
  BY <1>1, <1>2, <1>3 DEF StartCheck
<1>4. ASSUME NEW f \in Flights, FinishCheck(f) PROVE Shrinks \/ Stores
  <2> DEFINE c == inFlight[f]
  <2>1. c \in Call
    BY <1>4 DEF FinishCheck, TypeOK, Idle
  <2>2. CASE UNCHANGED cacheVars
    BY <1>1, <2>2
  <2>3. CASE DropAll({c.key})
    BY <1>2, <2>3
  <2>4. CASE ~Uncached(c) /\ Store(c.key, c.ctx, c.epoch, c.late)
    <3>1. c.key \in Keys /\ c.ctx \in Ctxs /\ c.epoch \in 0..MaxEpoch /\ c.late \in BOOLEAN
      BY <2>1, <2>4 DEF Call, Uncached
    <3> QED BY <2>4, <3>1 DEF Stores
  <2> QED BY <1>4, <2>2, <2>3, <2>4 DEF FinishCheck
<1>5. CASE Clear
  BY <1>5 DEF Clear, Stored, Absent, Shrinks
<1>6. Shrinks \/ Stores
  <2>1. ASSUME NEW f \in Flights, HostAnswers(f) PROVE Shrinks
    BY <1>1, <2>1 DEF HostAnswers
  <2>2. ASSUME NEW b \in Bases, CommitChannelWrite(b) PROVE Shrinks
    BY <1>1, <2>2 DEF CommitChannelWrite
  <2>3. ASSUME NEW u \in Users, CommitUserWrite(u) PROVE Shrinks
    BY <1>1, <2>3 DEF CommitUserWrite
  <2>4. ASSUME NEW p \in Principals, BumpEpoch(p) PROVE Shrinks
    BY <1>1, <2>4 DEF BumpEpoch
  <2>5. ASSUME NEW n \in Conns, NEW x \in Ctxs, ReplaceContext(n, x) PROVE Shrinks
    BY <1>1, <2>5 DEF ReplaceContext
  <2>6. ASSUME NEW n \in Conns, Close(n) PROVE Shrinks
    BY <1>1, <2>6 DEF Close
  <2>7. ASSUME Tick PROVE Shrinks
    BY <1>1, <2>7 DEF Tick
  <2>11. ASSUME UNCHANGED vars PROVE Shrinks
    BY <1>1, <2>11 DEF vars
  <2>8. ASSUME NEW b \in Bases, ChannelWriteArrives(b) PROVE Shrinks
    BY <1>2, <2>8 DEF ChannelWriteArrives, InvalidateChannel
  <2>9. ASSUME NEW u \in Users, UserWriteArrives(u) PROVE Shrinks
    BY <1>2, <2>9 DEF UserWriteArrives, InvalidateUser
  <2>10. ASSUME NEW n \in Conns, Disconnected(n) \/ PrincipalStale(n) PROVE Shrinks
    BY <1>2, <2>10 DEF Disconnected, PrincipalStale, InvalidateConnection
  <2> QED BY <1>3, <1>4, <1>5, <2>1, <2>2, <2>3, <2>4, <2>5, <2>6, <2>7, <2>8, <2>9, <2>10, <2>11 DEF Next
<1> QED BY <1>6

\* What store leaves of the map: it takes the key, what the sample condemns,
\* and one more entry when the rest fills the map.
Others(key) == byConn[key[1]] \ {key}
Rest(key, x, e, sample) == Stored \ ({key} \cup Fenced(key, x, e, sample))

LEMMA StoreLeaves ==
    ASSUME TypeOK, NEW key \in Keys, NEW x \in Ctxs, NEW e \in 0..MaxEpoch,
           NEW late \in BOOLEAN, Store(key, x, e, late)
    PROVE  \E sample \in IF Others(key) = {} THEN {key} ELSE Others(key) :
           \E out \in Evicted(Rest(key, x, e, sample)) :
               Stored' = (Rest(key, x, e, sample) \ out) \cup {key}
<1> DEFINE others == byConn[key[1]] \ {key}
           new == [live |-> TRUE, ctx |-> x, user |-> CtxUser[x], base |-> Base[key[3]],
                   epoch |-> e, at |-> clock, late |-> late]
<1>1. PICK sample \in IF others = {} THEN {key} ELSE others :
        LET gone == {key} \cup Fenced(key, x, e, sample) IN
        \E out \in Evicted(Stored \ gone) :
            entries' = [Without(gone \cup out) EXCEPT ![key] = new]
  BY DEF Store
<1> DEFINE gone == {key} \cup Fenced(key, x, e, sample)
<1>2. PICK out \in Evicted(Stored \ gone) :
        entries' = [Without(gone \cup out) EXCEPT ![key] = new]
  BY <1>1
<1>3. \A k \in Keys : entries'[k] = IF k = key THEN new
                                   ELSE IF k \in gone \cup out THEN Absent ELSE entries[k]
  BY <1>2 DEF Without
<1> HIDE DEF gone
<1>4. Stored' = ((Stored \ gone) \ out) \cup {key}
  BY <1>3 DEF Stored, Absent
<1> QED BY <1>1, <1>2, <1>4 DEF gone, Others, Rest

\* A connection's entries are always of one context and one epoch, so that
\* the single entry store samples speaks for all of them.
THEOREM OneProof == Spec => []OneProofPerConnection
<1>1. Init => OneProofPerConnection
  BY DEF Init, OneProofPerConnection, Stored, Absent
<1>2. TypeOK /\ IndexesAgree /\ OneProofPerConnection /\ [Next]_vars => OneProofPerConnection'
  <2> SUFFICES ASSUME TypeOK, IndexesAgree, OneProofPerConnection, [Next]_vars
               PROVE  OneProofPerConnection'
    OBVIOUS
  <2>1. CASE Stored' \subseteq Stored /\ \A k \in Stored' : entries'[k] = entries[k]
    BY <2>1 DEF OneProofPerConnection
  <2>2. ASSUME NEW key \in Keys, NEW x \in Ctxs, NEW e \in 0..MaxEpoch,
           NEW late \in BOOLEAN, Store(key, x, e, late)
        PROVE  OneProofPerConnection'
    <3>1. PICK sample \in IF Others(key) = {} THEN {key} ELSE Others(key) :
            \E out : Stored' = (Rest(key, x, e, sample) \ out) \cup {key}
      BY <2>2, StoreLeaves
    <3>2. /\ entries'[key].ctx = x /\ entries'[key].epoch = e
          /\ \A k \in Stored' \ {key} : k \in Stored /\ entries'[k] = entries[k]
      <4>1. /\ entries'[key] = [live |-> TRUE, ctx |-> x, user |-> CtxUser[x],
                                base |-> Base[key[3]], epoch |-> e, at |-> clock, late |-> late]
            /\ \A k \in Stored' \ {key} : k \in Stored /\ entries'[k] = entries[k]
        BY <2>2, StoreEffect, CacheAssumption
      <4> QED BY <4>1
    <3>3. Others(key) = {k \in Stored : k[1] = key[1] /\ k # key}
      BY DEF IndexesAgree, Keys, Others
    <3>4. ASSUME NEW k \in Stored' \ {key}, k[1] = key[1]
          PROVE  entries[k].ctx = x /\ entries[k].epoch = e
      <4>1. k \in Others(key) /\ k \notin Fenced(key, x, e, sample)
        BY <3>1, <3>2, <3>3, <3>4 DEF Rest
      <4>2. sample \in Others(key) /\ ~Differs(sample, x, e)
        BY <3>1, <4>1 DEF Fenced, Others
      <4>3. entries[sample].ctx = x /\ entries[sample].epoch = e
        BY <3>3, <4>2 DEF Differs, Stored
      <4> QED BY <3>3, <4>1, <4>2, <4>3 DEF OneProofPerConnection
    <3> QED BY <3>2, <3>4 DEF OneProofPerConnection
  <2> QED BY <2>1, <2>2, MapMoves DEF Shrinks, Stores
<1> QED BY <1>1, <1>2, TypeCorrect, IndexesCorrect, PTL DEF Spec

\* The map is finite and within its limit.
Sized == IsFiniteSet(Stored) /\ SizeBound

\* The map never outgrows maxEntries: store makes room before it adds, also
\* when the key was there, or a whole connection was condemned.
THEOREM Bounded == Spec => []SizeBound
<1>1. Init => Sized
  <2> SUFFICES ASSUME Init PROVE Sized
    OBVIOUS
  <2>1. Stored = {}
    BY DEF Init, Stored, Absent
  <2> QED BY <2>1, FS_EmptySet, CacheAssumption DEF Sized, SizeBound, CacheAssumption
<1>2. TypeOK /\ IndexesAgree /\ Sized /\ [Next]_vars => Sized'
  <2> SUFFICES ASSUME TypeOK, IndexesAgree, Sized, [Next]_vars PROVE Sized'
    OBVIOUS
  <2>1. MaxEntries \in Nat \ {0}
    BY CacheAssumption DEF CacheAssumption
  <2>2. Cardinality(Stored) \in Nat /\ Cardinality(Stored) <= MaxEntries
    BY FS_CardinalityType DEF Sized, SizeBound
  <2>3. CASE Stored' \subseteq Stored
    <3>1. IsFiniteSet(Stored') /\ Cardinality(Stored') <= Cardinality(Stored)
      BY <2>3, FS_Subset DEF Sized
    <3>2. Cardinality(Stored') \in Nat
      BY <3>1, FS_CardinalityType
    <3> QED BY <2>1, <2>2, <3>1, <3>2 DEF Sized, SizeBound
  <2>4. ASSUME NEW key \in Keys, NEW x \in Ctxs, NEW e \in 0..MaxEpoch,
           NEW late \in BOOLEAN, Store(key, x, e, late)
        PROVE  Sized'
    <3>1. PICK sample \in IF Others(key) = {} THEN {key} ELSE Others(key) :
          \E out \in Evicted(Rest(key, x, e, sample)) :
              Stored' = (Rest(key, x, e, sample) \ out) \cup {key}
      BY <2>4, StoreLeaves
    <3> DEFINE rest == Rest(key, x, e, sample)
    <3>a. PICK out \in Evicted(rest) : Stored' = (rest \ out) \cup {key}
      BY <3>1
    <3>b. rest \subseteq Stored
      BY DEF Rest
    <3> HIDE DEF rest
    <3>2. /\ IsFiniteSet(rest) /\ Cardinality(rest) \in Nat
          /\ Cardinality(rest) <= Cardinality(Stored)
      BY <3>b, FS_Subset, FS_CardinalityType DEF Sized
    <3>3. IsFiniteSet(rest \ out) /\ Cardinality(rest \ out) \in Nat
      BY <3>2, FS_Subset, FS_CardinalityType
    <3>4. Cardinality(rest \ out) < MaxEntries
      <4>1. CASE Cardinality(rest) < MaxEntries
        <5>1. rest \ out = rest
          BY <4>1 DEF Evicted
        <5> QED BY <4>1, <5>1
      <4>2. CASE ~(Cardinality(rest) < MaxEntries)
        <5>1. PICK k \in rest : out = {k}
          BY <4>2 DEF Evicted, Oldest
        <5>2. Cardinality(rest \ {k}) = Cardinality(rest) - 1
          BY <3>2, <5>1, FS_RemoveElement
        <5> QED BY <2>1, <2>2, <3>2, <5>1, <5>2
      <4> QED BY <4>1, <4>2
    <3>5. /\ IsFiniteSet(Stored')
          /\ Cardinality(Stored') = IF key \in rest \ out THEN Cardinality(rest \ out)
                                    ELSE Cardinality(rest \ out) + 1
      BY <3>a, <3>3, FS_AddElement
    <3> QED BY <2>1, <3>3, <3>4, <3>5 DEF Sized, SizeBound
  <2> QED BY <2>3, <2>4, MapMoves DEF Shrinks, Stores
<1>3. Sized => SizeBound
  BY DEF Sized
<1> QED BY <1>1, <1>2, <1>3, TypeCorrect, IndexesCorrect, PTL DEF Spec

=============================================================================
