------------------------- MODULE CrdtDocumentProofs -------------------------
(***************************************************************************)
(* Proofs about module CrdtDocument, for any number of clients, updates,   *)
(* loads and failures: a document whose counter is zero holds nothing but  *)
(* what was stored or what it was hydrated with, and an update is answered *)
(* with crdt:persisted only when it is stored, if its document is live.    *)
(*                                                                         *)
(* The counter is right because of what is known of the write in flight    *)
(* (Flight): the document has counted at least the operations the write    *)
(* took, and if it has counted no more it holds nothing the write did not  *)
(* take.  A document replaced meanwhile has another edition.               *)
(*                                                                         *)
(* The answers are right because a handler joins the line of writes after  *)
(* it merged its update, once, and documents that were dropped do not come *)
(* back: the write that runs for it has taken the update (Acknowledging).  *)
(***************************************************************************)
EXTENDS CrdtDocument, TLAPS

DocType ==
    /\ states \in [Loads -> ChannelState]
    /\ created \in Nat
    /\ resident \in 0 .. MaxLoads
    /\ loading \in 0 .. MaxLoads
    /\ buffer \in Seq(Updates)
    /\ took \in Taken
    /\ task \in [Clients -> Task]
    /\ versions \subseteq SUBSET Updates
    /\ latest \in SUBSET Updates
    /\ cache \subseteq SUBSET Updates

\* A handler that holds a state holds one that was created, and a restore or
\* a clear goes back to something stored.
Fine(t, kept) ==
    /\ t.op \in {"subscribing", "updating", "saving", "checkpoint"} => t.obj \in Loads
    /\ t.op \in {"updating", "saving"} => t.edit \in Updates
    /\ t.op = "checkpoint" => t.target \subseteq kept

Handlers == \A c \in Clients : Fine(task[c], Stored)

\* What the write that took k knows of the states s when `kept' is stored.
Covers(k, s, kept) ==
    k.ok => /\ k.obj \in Loads
            /\ k.edition <= s[k.obj].edition
            /\ k.edition = s[k.obj].edition =>
                 /\ k.ops <= s[k.obj].ops
                 /\ k.ops = s[k.obj].ops =>
                      s[k.obj].doc \subseteq kept \cup s[k.obj].base \cup k.doc

Flight == Covers(took, states, Stored)

Documents == DocType /\ Handlers /\ Flight /\ CleanIsStored

documents == <<states, created, resident, loading, buffer, took, task, versions,
               latest, cache>>

-----------------------------------------------------------------------------

LEMMA Elsewhere == Documents /\ UNCHANGED documents => Documents'
BY DEF Documents, documents, DocType, Handlers, Fine, Flight, Covers, CleanIsStored, Stored

\* A handler goes on with t, which is fine for what is stored by then.
LEMMA OneTask ==
  ASSUME Documents, NEW c \in Clients, NEW t \in Task, Fine(t, Stored'),
         Stored \subseteq Stored', task' = [task EXCEPT ![c] = t]
  PROVE  task' \in [Clients -> Task] /\ Handlers'
<1>1. task \in [Clients -> Task]
  BY DEF Documents, DocType
<1>2. \A b \in Clients : task'[b] = IF b = c THEN t ELSE task[b]
  BY <1>1
<1>3. \A b \in Clients : Fine(task[b], Stored')
  BY DEF Documents, Handlers, Fine
<1>4. Handlers'
  BY <1>2, <1>3 DEF Handlers
<1> QED BY <1>1, <1>4

\* What a step has to show that changes no document and no version.
LEMMA SameDocuments ==
  ASSUME Documents, UNCHANGED <<states, versions, latest>>,
         created' \in Nat, resident' \in 0 .. MaxLoads, loading' \in 0 .. MaxLoads,
         buffer' \in Seq(Updates), cache' \subseteq SUBSET Updates,
         took' \in Taken, Covers(took', states, Stored),
         task' \in [Clients -> Task], Handlers'
  PROVE  Documents'
<1>1. Stored' = Stored
  BY DEF Stored
<1>2. DocType'
  BY DEF Documents, DocType
<1>3. Flight'
  BY <1>1 DEF Flight, Covers
<1>4. CleanIsStored'
  BY <1>1 DEF Documents, CleanIsStored
<1> QED BY <1>2, <1>3, <1>4 DEF Documents

\* A write that starts now covers the resident state.
LEMMA CaptureCovers ==
  ASSUME NEW r \in 0 .. MaxLoads, NEW s \in [Loads -> ChannelState], NEW kept
  PROVE  Capture(r, s) \in Taken /\ Covers(Capture(r, s), s, kept)
<1>1. CASE r = 0
  BY <1>1, CrdtAssumption DEF Capture, Covers, NotTaken, Taken
<1>2. CASE r # 0
  <2>1. r \in Loads /\ s[r] \in ChannelState
    BY <1>2, CrdtAssumption DEF Loads
  <2> QED BY <1>2, <2>1 DEF Capture, Covers, Taken, ChannelState, Loads
<1> QED BY <1>1, <1>2

\* Whoever waits for a write, the one that runs covers its state.
LEMMA EnqueueCovers ==
  ASSUME NEW r \in 0 .. MaxLoads, NEW s \in [Loads -> ChannelState], NEW kept, NEW w,
         Enqueue(w, r, s), took \in Taken, Covers(took, s, kept)
  PROVE  took' \in Taken /\ Covers(took', s, kept)
BY CaptureCovers DEF Enqueue

-----------------------------------------------------------------------------
(* Records *)

LEMMA MergedRecord ==
  ASSUME NEW r \in ChannelState, NEW u \in Updates
  PROVE  /\ Merged(r, u) \in ChannelState
         /\ Merged(r, u).ops = r.ops + 1
         /\ Merged(r, u).edition = r.edition
<1>1. r.doc \cup {u} \in SUBSET Updates /\ r.ops + 1 \in Nat
  BY DEF ChannelState
<1>2. Merged(r, u) \in ChannelState
  BY <1>1 DEF ChannelState, Merged
<1> QED BY <1>2 DEF ChannelState, Merged

LEMMA FilledRecord ==
  ASSUME NEW r \in ChannelState, NEW d \in SUBSET Updates, buffer \in Seq(Updates)
  PROVE  /\ Filled(r, d) \in ChannelState
         /\ Filled(r, d).doc = d \cup Buffered
         /\ Filled(r, d).base = d
         /\ Filled(r, d).ops = r.ops + Len(buffer)
         /\ Filled(r, d).edition = r.edition
<1>1. Buffered \subseteq Updates
  BY DEF Buffered
<1>2. d \cup Buffered \in SUBSET Updates /\ r.ops + Len(buffer) \in Nat
  BY <1>1 DEF ChannelState
<1>3. Filled(r, d) \in ChannelState
  BY <1>2 DEF ChannelState, Filled
<1>4. /\ Filled(r, d).doc = d \cup Buffered
      /\ Filled(r, d).base = d
      /\ Filled(r, d).ops = r.ops + Len(buffer)
      /\ Filled(r, d).edition = r.edition
  BY DEF ChannelState, Filled
<1> QED BY <1>3, <1>4

LEMMA UncountRecord ==
  ASSUME NEW r \in ChannelState, took \in Taken
  PROVE  /\ Uncount(r) \in ChannelState
         /\ Uncount(r).edition = r.edition
         /\ Uncount(r).doc = r.doc
         /\ Uncount(r).base = r.base
         /\ r.edition = took.edition /\ took.ops <= r.ops => Uncount(r).ops + took.ops = r.ops
         /\ r.edition # took.edition => Uncount(r) = r
<1>1. r.ops \in Nat /\ took.ops \in Nat
  BY DEF ChannelState, Taken
<1>2. \A n \in Nat : [r EXCEPT !.ops = n] \in ChannelState
  BY DEF ChannelState
<1>3. (IF r.ops > took.ops THEN r.ops - took.ops ELSE 0) \in Nat
  BY <1>1
<1>4. Uncount(r) \in ChannelState
  BY <1>2, <1>3 DEF Uncount
<1>5. Uncount(r).edition = r.edition
  BY DEF ChannelState, Uncount
<1>6. Uncount(r).doc = r.doc /\ Uncount(r).base = r.base
  BY DEF ChannelState, Uncount
<1>7. ASSUME r.edition = took.edition, took.ops <= r.ops
      PROVE  Uncount(r).ops + took.ops = r.ops
  BY <1>7 DEF ChannelState, Uncount, Taken
<1>8. r.edition # took.edition => Uncount(r) = r
  BY DEF Uncount
<1> QED BY <1>4, <1>5, <1>6, <1>7, <1>8

LEMMA ResetRecord ==
  ASSUME NEW r \in ChannelState, NEW d \in SUBSET Updates, NEW b \in BOOLEAN
  PROVE  /\ Reset(r, d, b) \in ChannelState
         /\ Reset(r, d, b).doc = d
         /\ Reset(r, d, b).edition = r.edition + 1
<1>1. r.edition + 1 \in Nat /\ (IF b THEN 0 ELSE r.ops) \in Nat
  BY DEF ChannelState
<1>2. Reset(r, d, b) \in ChannelState
  BY <1>1 DEF ChannelState, Reset
<1>3. Reset(r, d, b).doc = d
  BY DEF ChannelState, Reset
<1>4. Reset(r, d, b).edition = r.edition + 1
  BY DEF ChannelState, Reset
<1> QED BY <1>2, <1>3, <1>4

\* The state of an edit that is merged: counted, and not covered any more.
LEMMA MergeCovers ==
  ASSUME Documents, NEW g \in Loads, NEW u \in Updates,
         NEW s, s = [states EXCEPT ![g] = Merged(@, u)]
  PROVE  /\ s \in [Loads -> ChannelState]
         /\ Covers(took, s, Stored)
         /\ \A h \in Loads : s[h].ops = 0 => s[h].doc \subseteq Stored \cup s[h].base
<1>1. states[g] \in ChannelState
  BY DEF Documents, DocType
<1>2. /\ s \in [Loads -> ChannelState]
      /\ s[g] = Merged(states[g], u)
      /\ \A h \in Loads : h # g => s[h] = states[h]
  BY <1>1, MergedRecord DEF Documents, DocType
<1>3. s[g].ops = states[g].ops + 1 /\ s[g].edition = states[g].edition
  BY <1>1, <1>2, MergedRecord
<1>4. states[g].ops \in Nat /\ (took.ok => took.ops \in Nat)
  BY <1>1 DEF Documents, DocType, ChannelState, Taken
<1>5. Covers(took, s, Stored)
  BY <1>2, <1>3, <1>4 DEF Documents, Flight, Covers
<1> QED BY <1>2, <1>3, <1>4, <1>5 DEF Documents, CleanIsStored

-----------------------------------------------------------------------------
(* Hydration *)

LEMMA HoldingRecord ==
  ASSUME NEW op \in {"subscribing", "updating"}, NEW g \in Loads,
         NEW u \in Updates \cup {NoEdit}, NEW a \in BOOLEAN
  PROVE  /\ Holding(op, g, u, a) \in Task
         /\ Holding(op, g, u, a).op = op
         /\ Holding(op, g, u, a).obj = g
         /\ Holding(op, g, u, a).edit = u
<1>1. Idle \in Task
  BY CrdtAssumption DEF Idle, Task
<1>2. g \in 0 .. MaxLoads
  BY CrdtAssumption DEF Loads
<1>3. op \in {"idle", "subscribing", "updating", "saving", "leaving", "checkpoint",
              "replacing", "naming"}
  OBVIOUS
<1>4. Holding(op, g, u, a) \in Task
  BY <1>1, <1>2, <1>3 DEF Holding, Task
<1> QED BY <1>1, <1>4 DEF Holding, Task

\* The three ways to a state touch no document.
LEMMA ObtainStep ==
  ASSUME Documents, NEW c \in Clients, NEW u \in Updates \cup {NoEdit}, NEW a \in BOOLEAN,
         NEW op \in {"subscribing", "updating"}, op = "updating" => u \in Updates,
         Obtain(c, op, u, a),
         UNCHANGED <<states, buffer, took, versions, latest, cache>>
  PROVE  Documents'
<1>1. /\ created' \in Nat /\ resident' \in 0 .. MaxLoads /\ loading' \in 0 .. MaxLoads
      /\ \E g \in Loads : task' = [task EXCEPT ![c] = Holding(op, g, u, a)]
  <2>1. CASE Loaded /\ task' = [task EXCEPT ![c] = Holding(op, resident, u, a)]
                    /\ UNCHANGED <<created, resident, loading>>
    <3>1. resident \in Loads
      BY <2>1, CrdtAssumption DEF Loaded, Documents, DocType, Loads
    <3> QED BY <2>1, <3>1 DEF Documents, DocType
  <2>2. CASE loading # 0 /\ task' = [task EXCEPT ![c] = Holding(op, loading, u, a)]
                    /\ UNCHANGED <<created, resident, loading>>
    <3>1. loading \in Loads
      BY <2>2, CrdtAssumption DEF Documents, DocType, Loads
    <3> QED BY <2>2, <3>1 DEF Documents, DocType
  <2>3. CASE /\ created + 1 \in Loads
             /\ task' = [task EXCEPT ![c] = Holding(op, created + 1, u, a)]
             /\ created' = created + 1 /\ resident' = created + 1 /\ loading' = created + 1
    <3>1. created + 1 \in Nat /\ created + 1 \in 0 .. MaxLoads
      BY <2>3, CrdtAssumption DEF Loads
    <3> QED BY <2>3, <3>1
  <2> QED BY <2>1, <2>2, <2>3 DEF Obtain
<1>2. PICK g \in Loads : task' = [task EXCEPT ![c] = Holding(op, g, u, a)]
  BY <1>1
<1>3. Holding(op, g, u, a) \in Task /\ Fine(Holding(op, g, u, a), Stored')
  BY HoldingRecord DEF Fine
<1>4. Stored \subseteq Stored'
  BY DEF Stored
<1>5. task' \in [Clients -> Task] /\ Handlers'
  BY <1>2, <1>3, <1>4, OneTask
<1>6. took' \in Taken /\ Covers(took', states, Stored) /\ buffer' \in Seq(Updates)
      /\ cache' \subseteq SUBSET Updates
  BY DEF Documents, DocType, Flight
<1> QED BY <1>1, <1>5, <1>6, SameDocuments

LEMMA HydrateStep ==
  ASSUME Documents, loading # 0, NEW d \in SUBSET Updates, Hydrate(d),
         UNCHANGED <<created, resident, took, task, versions, latest, cache>>
  PROVE  Documents'
<1>1. loading \in Loads /\ states[loading] \in ChannelState
  BY CrdtAssumption DEF Documents, DocType, Loads
<1>2. Buffered \subseteq Updates /\ Len(buffer) \in Nat /\ (Len(buffer) = 0 => Buffered = {})
  BY DEF Documents, DocType, Buffered
<1>3. /\ states' \in [Loads -> ChannelState]
      /\ states'[loading] = Filled(states[loading], d)
      /\ \A h \in Loads : h # loading => states'[h] = states[h]
  BY <1>1, FilledRecord DEF Hydrate, Documents, DocType
<1>4. /\ states'[loading].doc = d \cup Buffered /\ states'[loading].base = d
      /\ states'[loading].ops = states[loading].ops + Len(buffer)
      /\ states'[loading].edition = states[loading].edition
      /\ states[loading].ops \in Nat
  BY <1>1, <1>3, FilledRecord DEF Documents, DocType, ChannelState
<1>5. states' \in [Loads -> ChannelState]
  BY <1>3
<1>6. DocType'
  BY <1>5, CrdtAssumption DEF Documents, DocType, Hydrate
<1>7. CleanIsStored'
  BY <1>2, <1>3, <1>4 DEF Documents, CleanIsStored, Stored
<1>8. Flight'
  <2>1. CASE took.ok /\ took.obj = loading
    BY <2>1, <1>1, <1>2, <1>4 DEF Documents, Flight, Covers, DocType, Taken
  <2>2. CASE ~(took.ok /\ took.obj = loading)
    BY <2>2, <1>3 DEF Documents, Flight, Covers, Stored
  <2> QED BY <2>1, <2>2
<1>9. Handlers'
  BY DEF Documents, Handlers, Stored
<1> QED BY <1>6, <1>7, <1>8, <1>9 DEF Documents

-----------------------------------------------------------------------------
(* Steps of the handlers *)

\* What the counter is about is the same in s.
Alike(s) ==
    /\ s \in [Loads -> ChannelState]
    /\ \A h \in Loads : /\ s[h].doc = states[h].doc
                        /\ s[h].base = states[h].base
                        /\ s[h].ops = states[h].ops
                        /\ s[h].edition = states[h].edition

LEMMA SubscribersAlike ==
  ASSUME Documents, NEW g \in Loads, NEW n \in Nat, NEW s,
         s = [states EXCEPT ![g].subs = n]
  PROVE  Alike(s) /\ Covers(took, s, Stored)
<1> DEFINE r == [states[g] EXCEPT !.subs = n]
<1>1. states[g] \in ChannelState
  BY DEF Documents, DocType
<1>2. r \in ChannelState
  BY <1>1 DEF ChannelState
<1>3. /\ r.doc = states[g].doc /\ r.base = states[g].base
      /\ r.ops = states[g].ops /\ r.edition = states[g].edition
  BY <1>1 DEF ChannelState
<1>4. s = [states EXCEPT ![g] = r]
  OBVIOUS
<1> HIDE DEF r
<1>5. Alike(s)
  BY <1>2, <1>3, <1>4 DEF Alike, Documents, DocType
<1>6. took.ok => took.obj \in Loads
  BY DEF Documents, Flight, Covers
<1>7. Covers(took, s, Stored)
  BY <1>5, <1>6 DEF Alike, Documents, Flight, Covers
<1> QED BY <1>5, <1>7

LEMMA AlikeStep ==
  ASSUME Documents, Alike(states'), UNCHANGED <<versions, latest>>,
         UNCHANGED <<created, resident, loading, buffer, cache>>,
         took' \in Taken, Covers(took', states', Stored),
         task' \in [Clients -> Task], Handlers'
  PROVE  Documents'
<1>1. Stored' = Stored
  BY DEF Stored
<1>2. DocType'
  BY DEF Documents, DocType, Alike
<1>3. Flight'
  BY <1>1 DEF Flight, Covers
<1>4. CleanIsStored'
  BY <1>1 DEF Documents, CleanIsStored, Alike
<1> QED BY <1>2, <1>3, <1>4 DEF Documents

\* Every handler but those of a reset only changes its task when it ends.
LEMMA FinishTask ==
  ASSUME Documents, NEW c \in Clients, Finish(c), Stored \subseteq Stored'
  PROVE  task' \in [Clients -> Task] /\ Handlers'
<1>1. Idle \in Task /\ Fine(Idle, Stored')
  BY CrdtAssumption DEF Idle, Task, Fine
<1> QED BY <1>1, OneTask DEF Finish

LEMMA FinishStep ==
  ASSUME Documents, NEW c \in Clients, Finish(c),
         UNCHANGED <<states, versions, latest, created, resident, loading, buffer, took>>,
         cache' \subseteq SUBSET Updates
  PROVE  Documents'
<1>1. Stored' = Stored
  BY DEF Stored
<1>2. task' \in [Clients -> Task] /\ Handlers'
  BY <1>1, FinishTask
<1>3. took' \in Taken /\ Covers(took', states, Stored)
  BY DEF Documents, DocType, Flight
<1> QED BY <1>2, <1>3, SameDocuments DEF Documents, DocType

\* A snapshot is asked for and nothing else happens but to the tasks.
LEMMA EnqueueStep ==
  ASSUME Documents, NEW w, Enqueue(w, resident, states),
         UNCHANGED <<states, created, resident, loading, buffer, versions, latest, cache>>,
         task' \in [Clients -> Task], Handlers'
  PROVE  Documents'
<1>1. took' \in Taken /\ Covers(took', states, Stored)
  BY EnqueueCovers DEF Documents, DocType, Flight
<1> QED BY <1>1, SameDocuments DEF Documents, DocType

\* The same handlers, the same store.
LEMMA SameTasks ==
  ASSUME Documents, UNCHANGED <<task, versions>>
  PROVE  task' \in [Clients -> Task] /\ Handlers'
BY DEF Documents, DocType, Handlers, Fine, Stored

LEMMA OpTask ==
  ASSUME NEW t \in Task, NEW op \in {"saving", "replacing", "naming", "leaving"}
  PROVE  /\ [t EXCEPT !.op = op] \in Task
         /\ [t EXCEPT !.op = op].op = op
         /\ [t EXCEPT !.op = op].obj = t.obj
         /\ [t EXCEPT !.op = op].edit = t.edit
<1>1. [t EXCEPT !.op = op] \in Task
  BY DEF Task
<1> QED BY <1>1 DEF Task

LEMMA OpOfIdle ==
  ASSUME NEW op \in {"naming", "leaving"}, NEW kept
  PROVE  [Idle EXCEPT !.op = op] \in Task /\ Fine([Idle EXCEPT !.op = op], kept)
<1>1. Idle \in Task
  BY CrdtAssumption DEF Idle, Task
<1>2. [Idle EXCEPT !.op = op] \in Task /\ [Idle EXCEPT !.op = op].op = op
  BY <1>1, OpTask
<1> QED BY <1>2 DEF Fine

LEMMA SubscribedStep ==
  ASSUME Documents, NEW c \in Clients, Subscribed(c)
  PROVE  Documents'
<1> DEFINE g == task[c].obj
<1>1. g \in Loads /\ states[g] \in ChannelState
  BY DEF Documents, DocType, Handlers, Fine, Subscribed, Holds
<1>2. states[g].subs + 1 \in Nat
  BY <1>1 DEF ChannelState
<1>3. states' = [states EXCEPT ![g].subs = states[g].subs + 1]
  BY DEF Subscribed
<1>4. Alike(states') /\ Covers(took, states', Stored)
  BY <1>1, <1>2, <1>3, SubscribersAlike
<1>5. Stored' = Stored
  BY DEF Subscribed, Stored, durable
<1>6. task' \in [Clients -> Task] /\ Handlers'
  BY <1>5, FinishTask DEF Subscribed
<1> QED BY <1>4, <1>6, AlikeStep DEF Subscribed, writing, durable, Documents, DocType

LEMMA ApplyStep ==
  ASSUME Documents, NEW c \in Clients, Apply(c)
  PROVE  Documents'
<1> DEFINE g == task[c].obj
           s == [states EXCEPT ![g] = Merged(@, task[c].edit)]
<1>1. g \in Loads /\ task[c] \in Task /\ task[c].edit \in Updates
  BY DEF Documents, DocType, Handlers, Fine, Apply, Holds
<1>2. /\ s \in [Loads -> ChannelState]
      /\ Covers(took, s, Stored)
      /\ \A h \in Loads : s[h].ops = 0 => s[h].doc \subseteq Stored \cup s[h].base
  BY <1>1, MergeCovers
<1>3. states' = s /\ Stored' = Stored
  BY DEF Apply, Stored
<1>4. s[g].doc \in SUBSET Updates
  BY <1>1, <1>2 DEF ChannelState
<1>5. took' \in Taken /\ Covers(took', s, Stored)
  <2>1. CASE Enqueue(c, resident, s)
    BY <2>1, <1>2, EnqueueCovers DEF Documents, DocType
  <2>2. CASE UNCHANGED took
    BY <2>2, <1>2 DEF Documents, DocType
  <2> QED BY <2>1, <2>2 DEF Apply
<1>6. task' \in [Clients -> Task] /\ Handlers'
  <2>1. CASE Finish(c)
    BY <2>1, <1>3, FinishTask
  <2>2. CASE task' = [task EXCEPT ![c].op = "saving"]
    <3>1. task' = [task EXCEPT ![c] = [task[c] EXCEPT !.op = "saving"]]
      BY <2>2
    <3>2. [task[c] EXCEPT !.op = "saving"] \in Task /\ Fine([task[c] EXCEPT !.op = "saving"], Stored')
      BY <1>1, OpTask DEF Fine
    <3> QED BY <3>1, <3>2, <1>3, OneTask
  <2> QED BY <2>1, <2>2 DEF Apply
<1>7. cache' \subseteq SUBSET Updates
  BY <1>4 DEF Apply, Cached, Documents, DocType
<1>8. UNCHANGED <<created, resident, loading, buffer, versions, latest>>
  BY DEF Apply
<1> HIDE DEF s
<1>9. DocType'
  BY <1>2, <1>3, <1>5, <1>6, <1>7, <1>8 DEF Documents, DocType
<1>10. Flight' /\ CleanIsStored'
  BY <1>2, <1>3, <1>5 DEF Flight, Covers, CleanIsStored
<1> QED BY <1>6, <1>9, <1>10 DEF Documents

LEMMA RemoteStep ==
  ASSUME Documents, NEW u \in PeerEdits, RemoteUpdate(u)
  PROVE  Documents'
<1>1. CASE Loaded /\ states' = [states EXCEPT ![resident] = Merged(@, u)] /\ UNCHANGED buffer
  <2>1. resident \in Loads /\ u \in Updates
    BY <1>1, CrdtAssumption DEF Loaded, Documents, DocType, Loads, Updates
  <2>2. /\ states' \in [Loads -> ChannelState]
        /\ Covers(took, states', Stored)
        /\ \A h \in Loads : states'[h].ops = 0 => states'[h].doc \subseteq Stored \cup states'[h].base
    BY <1>1, <2>1, MergeCovers
  <2>3. UNCHANGED <<created, resident, loading, buffer, took, task, versions, latest, cache>>
    BY <1>1 DEF RemoteUpdate, writing, durable
  <2>4. Stored' = Stored
    BY <2>3 DEF Stored
  <2>5. DocType'
    BY <2>2, <2>3 DEF Documents, DocType
  <2>6. Flight' /\ CleanIsStored'
    BY <2>2, <2>3, <2>4 DEF Flight, Covers, CleanIsStored
  <2>7. Handlers'
    BY <2>3, SameTasks
  <2> QED BY <2>5, <2>6, <2>7 DEF Documents
<1>2. CASE /\ UNCHANGED states
           /\ buffer' = Append(IF Len(buffer) >= PendingCap THEN Tail(buffer) ELSE buffer, u)
  <2>1. buffer' \in Seq(Updates)
    BY <1>2, CrdtAssumption DEF Documents, DocType, Updates
  <2>2. UNCHANGED <<states, created, resident, loading, took, task, versions, latest, cache>>
    BY <1>2 DEF RemoteUpdate, writing, durable
  <2>3. task' \in [Clients -> Task] /\ Handlers'
    BY <2>2, SameTasks
  <2>4. took' \in Taken /\ Covers(took', states, Stored)
    BY <2>2 DEF Documents, DocType, Flight
  <2> QED BY <2>1, <2>2, <2>3, <2>4, SameDocuments DEF Documents, DocType
<1> QED BY <1>1, <1>2 DEF RemoteUpdate

LEMMA LeaveStep ==
  ASSUME Documents, NEW c \in Clients, Leave(c)
  PROVE  Documents'
<1> DEFINE left == IF states[resident].subs > 1 THEN states[resident].subs - 1 ELSE 0
           t == [Idle EXCEPT !.op = "leaving"]
<1>1. UNCHANGED <<created, resident, loading, buffer, versions, latest, cache>>
  BY DEF Leave, durable
<1>2. Stored' = Stored
  BY <1>1 DEF Stored
<1>3. task' \in [Clients -> Task] /\ Handlers'
  <2>1. CASE UNCHANGED task
    BY <2>1, <1>1, SameTasks
  <2>2. CASE task' = [task EXCEPT ![c] = t]
    <3>1. t \in Task /\ Fine(t, Stored')
      BY OpOfIdle
    <3> QED BY <2>2, <3>1, <1>2, OneTask
  <2> QED BY <2>1, <2>2 DEF Leave
<1>4. CASE resident = 0
  <2>1. UNCHANGED <<states, took>>
    BY <1>4 DEF Leave
  <2>2. took' \in Taken /\ Covers(took', states, Stored)
    BY <2>1 DEF Documents, DocType, Flight
  <2> QED BY <1>1, <1>3, <2>1, <2>2, SameDocuments DEF Documents, DocType
<1>5. CASE resident # 0
  <2>1. resident \in Loads
    BY <1>5, CrdtAssumption DEF Documents, DocType, Loads
  <2>2. left \in Nat
    BY <2>1 DEF Documents, DocType, ChannelState
  <2>3. states' = [states EXCEPT ![resident].subs = left]
    BY <1>5 DEF Leave
  <2>4. Alike(states') /\ Covers(took, states', Stored)
    BY <2>1, <2>2, <2>3, SubscribersAlike
  <2>5. Enqueue(c, resident, states') \/ UNCHANGED took
    BY <1>5 DEF Leave
  <2>6. took' \in Taken /\ Covers(took', states', Stored)
    <3>1. CASE Enqueue(c, resident, states')
      BY <3>1, <2>4, EnqueueCovers DEF Documents, DocType, Alike
    <3>2. CASE UNCHANGED took
      BY <3>2, <2>4 DEF Documents, DocType
    <3> QED BY <2>5, <3>1, <3>2
  <2> QED BY <1>1, <1>3, <2>4, <2>6, AlikeStep
<1> QED BY <1>4, <1>5

\* A write is asked for on behalf of a client.
LEMMA CommandStep ==
  ASSUME Documents, NEW c \in Clients, NEW t \in Task, Fine(t, Stored),
         Enqueue(c, resident, states), task' = [task EXCEPT ![c] = t],
         UNCHANGED <<states, created, resident, loading, buffer, versions, latest, cache>>
  PROVE  Documents'
<1>1. Stored' = Stored
  BY DEF Stored
<1>2. task' \in [Clients -> Task] /\ Handlers'
  BY <1>1, OneTask
<1> QED BY <1>2, EnqueueStep

LEMMA SaveVersionStep ==
  ASSUME Documents, NEW c \in Clients, SaveVersion(c)
  PROVE  Documents'
<1> DEFINE t == [Idle EXCEPT !.op = "naming"]
<1>1. t \in Task /\ Fine(t, Stored)
  BY OpOfIdle
<1> QED BY <1>1, CommandStep DEF SaveVersion, memory, durable

LEMMA BeginResetStep ==
  ASSUME Documents, NEW c \in Clients, NEW target \in SUBSET Updates, NEW clear \in BOOLEAN,
         target \subseteq Stored, BeginReset(c, target, clear)
  PROVE  Documents'
<1> DEFINE t == [Idle EXCEPT !.op = "checkpoint", !.obj = resident, !.target = target,
                             !.clear = clear]
<1>1. resident \in Loads /\ resident \in 0 .. MaxLoads
  BY CrdtAssumption DEF Documents, DocType, Loads, BeginReset
<1>2. t \in Task
  BY <1>1, CrdtAssumption DEF Idle, Task
<1>3. t.op = "checkpoint" /\ t.obj = resident /\ t.target = target
  BY DEF Idle
<1>4. Fine(t, Stored)
  BY <1>1, <1>3 DEF Fine
<1>5. task' = [task EXCEPT ![c] = t] /\ Enqueue(c, resident, states)
  BY DEF BeginReset
<1>6. UNCHANGED <<states, created, resident, loading, buffer, versions, latest, cache>>
  BY DEF BeginReset, memory, durable
<1> QED BY <1>2, <1>4, <1>5, <1>6, CommandStep

LEMMA ReplaceStep ==
  ASSUME Documents, NEW c \in Clients, Replace(c)
  PROVE  Documents'
<1> DEFINE t == task[c]
           s == [states EXCEPT ![t.obj] = Reset(@, t.target, t.clear)]
<1>1. /\ t \in Task /\ t.obj \in Loads /\ t.target \in SUBSET Updates
      /\ t.target \subseteq Stored /\ t.clear \in BOOLEAN
  BY DEF Documents, DocType, Handlers, Fine, Replace, Task
<1>2. UNCHANGED <<created, resident, loading, buffer, versions, latest, cache>>
  BY DEF Replace, durable
<1>3. Stored' = Stored
  BY <1>2 DEF Stored
<1>4. CASE Finish(c) /\ UNCHANGED <<states, took>>
  BY <1>4, <1>2, FinishStep DEF Documents, DocType
<1>5. CASE /\ states' = s /\ Enqueue(c, resident, s)
           /\ task' = [task EXCEPT ![c].op = "replacing"]
  <2>1. states[t.obj] \in ChannelState
    BY <1>1 DEF Documents, DocType
  <2>2. /\ s \in [Loads -> ChannelState]
        /\ s[t.obj].doc = t.target
        /\ s[t.obj].edition = states[t.obj].edition + 1
        /\ \A h \in Loads : h # t.obj => s[h] = states[h]
    BY <1>1, <2>1, ResetRecord DEF Documents, DocType
  <2>3. states[t.obj].edition \in Nat /\ (took.ok => took.obj \in Loads /\ took.edition \in Nat)
    BY <2>1 DEF ChannelState, Documents, DocType, Taken, Flight, Covers
  <2> HIDE DEF s
  <2>4. Covers(took, s, Stored)
    BY <2>2, <2>3 DEF Documents, Flight, Covers
  <2>5. took' \in Taken /\ Covers(took', s, Stored)
    BY <1>5, <2>2, <2>4, EnqueueCovers DEF Documents, DocType
  <2>6. task' \in [Clients -> Task] /\ Handlers'
    <3>1. task' = [task EXCEPT ![c] = [t EXCEPT !.op = "replacing"]]
      BY <1>5
    <3>2. [t EXCEPT !.op = "replacing"] \in Task /\ Fine([t EXCEPT !.op = "replacing"], Stored')
      BY <1>1, OpTask DEF Fine
    <3> QED BY <3>1, <3>2, <1>3, OneTask
  <2>7. \A h \in Loads : s[h].ops = 0 => s[h].doc \subseteq Stored \cup s[h].base
    BY <1>1, <2>2 DEF Documents, CleanIsStored
  <2>8. DocType'
    BY <1>2, <1>5, <2>2, <2>5, <2>6 DEF Documents, DocType
  <2>9. Flight' /\ CleanIsStored'
    BY <1>3, <1>5, <2>5, <2>7 DEF Flight, Covers, CleanIsStored
  <2> QED BY <2>6, <2>8, <2>9 DEF Documents
<1> QED BY <1>4, <1>5 DEF Replace

-----------------------------------------------------------------------------
(* Writes *)

\* The write behind the one that ends, if any, covers its state.
LEMMA EndWriteCovers ==
  ASSUME NEW b, NEW s \in [Loads -> ChannelState], NEW kept,
         resident \in 0 .. MaxLoads, EndWrite(b, s)
  PROVE  took' \in Taken /\ Covers(took', s, kept)
<1>1. CASE took' = Capture(resident, s)
  BY <1>1, CaptureCovers
<1>2. CASE took' = NotTaken
  BY <1>2, CrdtAssumption DEF NotTaken, Taken, Covers
<1> QED BY <1>1, <1>2 DEF EndWrite

LEMMA WriteStep ==
  ASSUME Documents, WriteStored
  PROVE  Documents'
<1> DEFINE g == took.obj
           s == Commit(states)
<1>1. /\ took.ok /\ g \in Loads /\ states[g] \in ChannelState
      /\ took.doc \in SUBSET Updates /\ took.ops \in Nat
  BY DEF WriteStored, Quiet, Documents, Flight, Covers, DocType, Taken
<1>2. /\ s \in [Loads -> ChannelState]
      /\ s[g] = Uncount(states[g])
      /\ \A h \in Loads : h # g => s[h] = states[h]
  BY <1>1, UncountRecord DEF Commit, Documents, DocType
<1>3. states' = s /\ versions' = versions \cup {took.doc} /\ latest' = took.doc
  BY DEF WriteStored
<1>4. Stored' = Stored \cup took.doc
  BY <1>3 DEF Stored
<1>5. /\ s[g].doc = states[g].doc /\ s[g].base = states[g].base
      /\ states[g].edition = took.edition /\ took.ops <= states[g].ops =>
           s[g].ops + took.ops = states[g].ops
      /\ states[g].edition # took.edition => s[g] = states[g]
      /\ states[g].ops \in Nat /\ s[g].ops \in Nat
  BY <1>1, <1>2, UncountRecord DEF Documents, DocType, ChannelState
<1> HIDE DEF s
<1>6. s[g].ops = 0 => s[g].doc \subseteq Stored \cup took.doc \cup s[g].base
  <2>1. CASE states[g].edition = took.edition
    <3>1. took.ops <= states[g].ops
          /\ (took.ops = states[g].ops =>
                states[g].doc \subseteq Stored \cup states[g].base \cup took.doc)
      BY <1>1, <2>1 DEF Documents, Flight, Covers
    <3>2. s[g].ops = 0 => took.ops = states[g].ops
      BY <1>1, <1>5, <2>1, <3>1
    <3> QED BY <1>5, <3>1, <3>2
  <2>2. CASE states[g].edition # took.edition
    BY <1>1, <1>5, <2>2 DEF Documents, CleanIsStored
  <2> QED BY <2>1, <2>2
<1>7. CleanIsStored'
  BY <1>2, <1>3, <1>4, <1>6 DEF Documents, CleanIsStored
<1>8. EndWrite(TRUE, s)
  BY DEF WriteStored, s
<1>9. took' \in Taken /\ Covers(took', s, Stored')
  BY <1>2, <1>8, EndWriteCovers DEF Documents, DocType
<1>10. UNCHANGED <<created, resident, loading, buffer, task>>
  BY DEF WriteStored, clients
<1>11. cache' \subseteq SUBSET Updates
  BY <1>1 DEF WriteStored, Cached, Documents, DocType
<1>12. versions' \subseteq SUBSET Updates /\ latest' \in SUBSET Updates
  BY <1>1, <1>3 DEF Documents, DocType
<1>13. DocType'
  BY <1>2, <1>3, <1>9, <1>10, <1>11, <1>12 DEF Documents, DocType
<1>14. Flight'
  BY <1>3, <1>9 DEF Flight
<1>15. Handlers'
  BY <1>4, <1>10 DEF Documents, Handlers, Fine
<1> QED BY <1>7, <1>13, <1>14, <1>15 DEF Documents

LEMMA NoWriteStep ==
  ASSUME Documents, NEW b, EndWrite(b, states),
         UNCHANGED <<states, created, resident, loading, buffer, task, versions, latest, cache>>
  PROVE  Documents'
<1>1. took' \in Taken /\ Covers(took', states, Stored)
  BY EndWriteCovers DEF Documents, DocType
<1>2. task' \in [Clients -> Task] /\ Handlers'
  BY SameTasks
<1> QED BY <1>1, <1>2, SameDocuments DEF Documents, DocType

-----------------------------------------------------------------------------
(* Every step *)

\* Only the tasks of the handlers that wait for the failed load change.
LEMMA LoadFailedStep ==
  ASSUME Documents, LoadFailed
  PROVE  Documents'
<1>1. Idle \in Task /\ Fine(Idle, Stored')
  BY CrdtAssumption DEF Idle, Task, Fine
<1>2. UNCHANGED <<states, created, buffer, took, versions, latest, cache>>
  BY DEF LoadFailed, writing, durable
<1>3. Stored' = Stored
  BY <1>2 DEF Stored
<1>4. \A b \in Clients : task'[b] \in {Idle, task[b]}
  BY DEF LoadFailed
<1>5. task' \in [Clients -> Task]
  BY <1>1 DEF LoadFailed, Documents, DocType
<1>6. Handlers'
  BY <1>1, <1>3, <1>4 DEF Documents, Handlers
<1>7. resident' \in 0 .. MaxLoads /\ loading' \in 0 .. MaxLoads
  BY CrdtAssumption DEF LoadFailed, Documents, DocType
<1>8. took' \in Taken /\ Covers(took', states, Stored)
  BY <1>2 DEF Documents, DocType, Flight
<1> QED BY <1>2, <1>5, <1>6, <1>7, <1>8, SameDocuments DEF Documents, DocType

\* The document is dropped, or nothing but the tasks and the cache changes.
LEMMA QuietStep ==
  ASSUME Documents,
         UNCHANGED <<states, created, loading, task, took, versions, latest>>,
         DropResident \/ UNCHANGED <<resident, buffer>>,
         cache' \subseteq SUBSET Updates
  PROVE  Documents'
<1>1. resident' \in 0 .. MaxLoads /\ buffer' \in Seq(Updates)
  <2>1. CASE DropResident
    <3>1. 0 \in 0 .. MaxLoads /\ <<>> \in Seq(Updates)
      BY CrdtAssumption
    <3> QED BY <2>1, <3>1 DEF DropResident
  <2>2. CASE UNCHANGED <<resident, buffer>>
    BY <2>2 DEF Documents, DocType
  <2> QED BY <2>1, <2>2
<1>2. task' \in [Clients -> Task] /\ Handlers'
  BY SameTasks
<1>3. took' \in Taken /\ Covers(took', states, Stored)
  BY DEF Documents, DocType, Flight
<1> QED BY <1>1, <1>2, <1>3, SameDocuments DEF Documents, DocType

LEMMA RestartStep ==
  ASSUME Documents, Restart
  PROVE  Documents'
<1>1. Fresh \in ChannelState /\ Fresh.doc = {}
  BY DEF Fresh, ChannelState
<1>2. states' = [g \in Loads |-> Fresh]
  BY DEF Restart
<1>3. states' \in [Loads -> ChannelState] /\ \A g \in Loads : states'[g].doc = {}
  BY <1>1, <1>2
<1>4. took' \in Taken /\ ~took'.ok
  BY CrdtAssumption DEF Restart, NotTaken, Taken
<1>5. Idle \in Task /\ Fine(Idle, Stored')
  BY CrdtAssumption DEF Idle, Task, Fine
<1>6. task' = [c \in Clients |-> Idle]
  BY DEF Restart
<1>7. task' \in [Clients -> Task] /\ Handlers'
  BY <1>5, <1>6 DEF Handlers
<1>8. versions' \subseteq SUBSET Updates /\ latest' \in SUBSET Updates
  <2>1. took.doc \in SUBSET Updates
    BY DEF Documents, DocType, Taken
  <2> QED BY <2>1 DEF Restart, Documents, DocType
<1>9. created' = 0 /\ resident' = 0 /\ loading' = 0 /\ buffer' = <<>> /\ cache' = cache
  BY DEF Restart
<1>10. DocType'
  BY <1>3, <1>4, <1>7, <1>8, <1>9, CrdtAssumption DEF Documents, DocType
<1>11. Flight' /\ CleanIsStored'
  BY <1>3, <1>4 DEF Flight, Covers, CleanIsStored
<1> QED BY <1>7, <1>10, <1>11 DEF Documents

LEMMA FrameStep ==
  ASSUME Documents, NEW c \in Clients, Frame(c)
  PROVE  Documents'
<1>1. CASE Subscribe(c)
  <2>1. Obtain(c, "subscribing", NoEdit, FALSE)
        /\ UNCHANGED <<states, buffer, took, versions, latest, cache>>
    BY <1>1 DEF Subscribe, writing, durable
  <2> QED BY <2>1, ObtainStep
<1>2. CASE SubscribeDenied(c)
  BY <1>2, Elsewhere DEF SubscribeDenied, documents, memory, writing, durable
<1>3. ASSUME NEW u \in Edits, NEW a \in BOOLEAN, Update(c, u, a)
      PROVE  Documents'
  <2>1. Obtain(c, "updating", u, a)
        /\ UNCHANGED <<states, buffer, took, versions, latest, cache>>
    BY <1>3 DEF Update, writing, durable
  <2>2. u \in Updates
    BY DEF Updates
  <2> QED BY <2>1, <2>2, ObtainStep
<1>4. CASE Revoked(c)
  BY <1>4, FinishStep DEF Revoked, memory, writing, durable, Documents, DocType
<1>5. CASE Restore(c)
  <2>1. PICK v \in versions : BeginReset(c, v, FALSE)
    BY <1>5 DEF Restore
  <2>2. v \in SUBSET Updates /\ v \subseteq Stored
    BY DEF Documents, DocType, Stored
  <2> QED BY <2>1, <2>2, BeginResetStep
<1>6. CASE Clear(c)
  <2>1. {} \in SUBSET Updates /\ {} \subseteq Stored
    OBVIOUS
  <2> QED BY <1>6, <2>1, BeginResetStep DEF Clear
<1>7. CASE UpdateSaved(c)
  <2>1. states[task[c].obj].doc \in SUBSET Updates
    BY <1>7 DEF UpdateSaved, Documents, DocType, Handlers, Fine, ChannelState
  <2>2. cache' \subseteq SUBSET Updates
    BY <1>7, <2>1 DEF UpdateSaved, Cached, Documents, DocType
  <2> QED BY <1>7, <2>2, FinishStep DEF UpdateSaved, memory
<1>8. CASE VersionSaved(c)
  BY <1>8, FinishStep DEF VersionSaved, memory, durable, Documents, DocType
<1>9. CASE LeaveSaved(c)
  BY <1>9, FinishStep DEF LeaveSaved, memory, durable, Documents, DocType
<1>10. CASE ResetSaved(c)
  <2>1. cache' \subseteq SUBSET Updates
    BY <1>10 DEF ResetSaved, Cached, Documents, DocType
  <2> QED BY <1>10, <2>1, FinishStep DEF ResetSaved, memory
<1> QED BY <1>1, <1>2, <1>3, <1>4, <1>5, <1>6, <1>7, <1>8, <1>9, <1>10, SubscribedStep,
           ApplyStep, LeaveStep, SaveVersionStep, ReplaceStep DEF Frame, Continue

LEMMA EveryStep ==
  ASSUME Documents, [Next]_vars
  PROVE  Documents'
<1>1. ASSUME NEW c \in Clients, Frame(c)
      PROVE  Documents'
  BY <1>1, FrameStep
<1>2. ASSUME NEW u \in PeerEdits, RemoteUpdate(u)
      PROVE  Documents'
  BY <1>2, RemoteStep
<1>3. CASE LoadCached
  <2>1. PICK d \in cache : Hydrate(d)
    BY <1>3 DEF LoadCached
  <2>2. d \in SUBSET Updates /\ loading # 0
    BY <1>3 DEF LoadCached, Documents, DocType
  <2>3. UNCHANGED <<created, resident, took, task, versions, latest, cache>>
    BY <1>3 DEF LoadCached, writing, clients, durable
  <2> QED BY <2>1, <2>2, <2>3, HydrateStep
<1>4. CASE LoadStored
  <2>1. latest \in SUBSET Updates /\ loading # 0 /\ Hydrate(latest)
    BY <1>4 DEF LoadStored, Documents, DocType
  <2>2. UNCHANGED <<created, resident, took, task, versions, latest, cache>>
    BY <1>4 DEF LoadStored, writing, clients, durable
  <2> QED BY <2>1, <2>2, HydrateStep
<1>5. CASE WriteFailed
  BY <1>5, NoWriteStep DEF WriteFailed, memory, clients, durable
<1>6. CASE WriteNothing
  BY <1>6, NoWriteStep DEF WriteNothing, memory, clients, durable
<1>7. ASSUME NEW w, Enqueue(w, resident, states) \/ UNCHANGED took,
             UNCHANGED <<states, created, resident, loading, buffer, task, versions,
                         latest, cache>>
      PROVE  Documents'
  <2>1. task' \in [Clients -> Task] /\ Handlers'
    BY <1>7, SameTasks
  <2> QED BY <1>7, <2>1, EnqueueStep, Elsewhere DEF documents
<1>8. CASE DebounceFires
  BY <1>7, <1>8 DEF DebounceFires, memory, clients, durable
<1>9. CASE Sweep
  BY <1>7, <1>9 DEF Sweep, memory, clients, durable
<1>10. CASE BackgroundSaved
  BY <1>10, Elsewhere DEF BackgroundSaved, documents, memory, clients, durable
<1>11. CASE IdleTimerFires
  <2>1. CASE Enqueue(Evictor, resident, states) /\ UNCHANGED <<resident, buffer>>
    BY <1>7, <1>11, <2>1 DEF IdleTimerFires, clients, durable
  <2>2. CASE UNCHANGED took /\ (DropResident \/ UNCHANGED <<resident, buffer>>)
    BY <1>11, <2>2, QuietStep DEF IdleTimerFires, clients, durable, Documents, DocType
  <2> QED BY <1>11, <2>1, <2>2 DEF IdleTimerFires
<1>12. CASE Evict
  BY <1>12, QuietStep DEF Evict, clients, durable, Documents, DocType
<1>13. CASE DeleteDocument
  BY <1>13, QuietStep DEF DeleteDocument, writing, clients, durable, Documents, DocType
<1>14. CASE CacheExpires
  BY <1>14, QuietStep DEF CacheExpires, memory, writing, clients
<1>15. CASE UNCHANGED vars
  BY <1>15, Elsewhere DEF vars, documents, memory, writing, clients, durable
<1> QED BY <1>1, <1>2, <1>3, <1>4, <1>5, <1>6, <1>8, <1>9, <1>10, <1>11, <1>12, <1>13,
           <1>14, <1>15, LoadFailedStep, WriteStep, RestartStep DEF Next

-----------------------------------------------------------------------------

\* Initially nothing is loaded, stored or written.
LEMMA InitDocuments == Init => Documents
<1> SUFFICES ASSUME Init PROVE Documents
  OBVIOUS
<1>1. Fresh \in ChannelState /\ Fresh.doc = {}
  BY DEF Fresh, ChannelState
<1>2. Idle \in Task /\ Fine(Idle, Stored)
  BY CrdtAssumption DEF Idle, Task, Fine
<1>3. states \in [Loads -> ChannelState] /\ \A g \in Loads : states[g].doc = {}
  BY <1>1 DEF Init
<1>4. took \in Taken /\ ~took.ok
  BY CrdtAssumption DEF Init, NotTaken, Taken
<1>5. task \in [Clients -> Task] /\ Handlers
  BY <1>2 DEF Init, Handlers
<1>6. DocType
  BY <1>3, <1>4, <1>5, CrdtAssumption DEF Init, DocType
<1> QED BY <1>3, <1>4, <1>5, <1>6 DEF Documents, Flight, Covers, CleanIsStored

\* The types, what handlers hold and what the write in flight covers, always.
THEOREM DocumentsHold == Spec => []Documents
<1>1. Documents /\ [Next]_vars => Documents'
  BY EveryStep
<1> QED BY InitDocuments, <1>1, PTL DEF Spec

\* CRDTService.ts and SnapshotManager.ts never count an edit as saved that was
\* neither stored nor loaded, for any number of clients, edits and failures.
THEOREM CleanDocumentsAreStored == Spec => []CleanIsStored
<1>1. Documents => CleanIsStored
  BY DEF Documents
<1> QED BY DocumentsHold, <1>1, PTL

-----------------------------------------------------------------------------
(* Acknowledgements: what the line of writes rests on                      *)

\* The documents: the resident and the loading one were created, no load is
\* pending for a document that is hydrated, and one that is not yet created is
\* not hydrated.
Objects ==
    /\ created \in Nat
    /\ resident \in 0 .. created
    /\ loading # 0 => loading \in 1 .. created /\ ~states[loading].hydrated
    /\ \A h \in Loads : h > created => ~states[h].hydrated

\* Who waits for a write of its update has merged it into a hydrated document.
Savers == \A c \in Clients : task[c].op = "saving" => states[task[c].obj].hydrated

\* An update is in one handler at a time, and is known as sent.
SentOnce == \A c \in Clients : task[c].edit # NoEdit =>
    /\ task[c].op \in {"updating", "saving"}
    /\ task[c].edit \in sent
    /\ \A d \in Clients : task[d].edit = task[c].edit => d = c

Awaiting == {"saving", "leaving", "checkpoint", "replacing", "naming"}

\* A client is in the line of writes once, while its handler awaits the write.
InLine ==
    /\ queue \in Seq(Clients \cup Timers)
    /\ turn \in [who : Clients \cup Timers \cup {Nobody}, ok : BOOLEAN]
    /\ \A i \in 1 .. Len(queue) : queue[i] \in Clients =>
          /\ task[queue[i]].op \in Awaiting
          /\ queue[i] # turn.who
          /\ \A j \in 1 .. Len(queue) : queue[j] = queue[i] => j = i
    /\ turn.who \in Clients => task[turn.who].op \in Awaiting

\* The live document is the one c merged its update into and still holds the
\* update, which the store does not have.
InDoubt(c) ==
    /\ task[c].op = "saving" /\ task[c].obj = resident
    /\ task[c].edit \in states[resident].doc
    /\ task[c].edit \notin Stored

\* Its write will store it, or is known not to have.
Sure(c) ==
    /\ turn.who = c => ~turn.ok
    /\ queue # <<>> /\ Head(queue) = c =>
          IF took.ok THEN task[c].edit \in took.doc ELSE took.obj # 0

Acknowledging ==
    /\ Objects /\ Savers /\ SentOnce /\ InLine
    /\ \A c \in Clients : InDoubt(c) => Sure(c)

\* A step of the documents: none that is hydrated loses that or takes in more
\* than what is stored and `fresh', and none that was dropped comes back.
Moves(fresh) ==
    /\ \A h \in Loads : states[h].hydrated =>
          /\ states'[h].hydrated
          /\ states'[h].doc \subseteq states[h].doc \cup Stored \cup fresh
    /\ resident' \in {0, resident} \/ resident' > created
    /\ Stored \subseteq Stored'
    /\ \A c \in Clients : task[c].op = "saving" => task[c].edit \notin fresh
    /\ Objects'

LEMMA Still ==
  ASSUME Objects, UNCHANGED memory, UNCHANGED versions
  PROVE  Moves({})
BY DEF Objects, Moves, memory, Stored

\* The document changes its parts but neither its text nor its hydration.
LEMMA StillAlike ==
  ASSUME Documents, Objects, UNCHANGED <<created, resident, loading>>,
         Stored \subseteq Stored',
         NEW g \in Loads, NEW r, states' = [states EXCEPT ![g] = r],
         r.hydrated = states[g].hydrated, r.doc \subseteq states[g].doc \cup Stored
  PROVE  Moves({})
<1>1. states'[g] = r /\ \A h \in Loads : h # g => states'[h] = states[h]
  BY DEF Documents, DocType
<1>2. loading # 0 => loading \in Loads
  BY CrdtAssumption DEF Documents, DocType, Loads
<1>3. Objects'
  BY <1>1, <1>2 DEF Objects
<1> QED BY <1>1, <1>3 DEF Moves

LEMMA ObtainMoves ==
  ASSUME Documents, Objects, NEW c, NEW op, NEW u, NEW a, Obtain(c, op, u, a),
         UNCHANGED <<states, versions>>
  PROVE  Moves({})
<1>1. Stored' = Stored
  BY DEF Stored
<1>2. CASE UNCHANGED <<created, resident, loading>>
  BY <1>1, <1>2 DEF Objects, Moves
<1>3. CASE /\ created + 1 \in Loads /\ created' = created + 1
           /\ resident' = created + 1 /\ loading' = created + 1
  BY <1>1, <1>3 DEF Objects, Moves, Loads
<1> QED BY <1>2, <1>3 DEF Obtain

LEMMA HydrateMoves ==
  ASSUME Documents, Objects, loading # 0, NEW d \in SUBSET Updates, Hydrate(d),
         UNCHANGED <<created, resident, versions>>
  PROVE  Moves({})
<1>1. loading \in Loads
  BY CrdtAssumption DEF Documents, DocType, Loads
<1>2. \A h \in Loads : h # loading => states'[h] = states[h]
  BY DEF Hydrate, Documents, DocType
<1>3. loading' = 0 /\ Stored' = Stored
  BY DEF Hydrate, Stored
<1>4. loading \in 1 .. created /\ ~states[loading].hydrated
  BY DEF Objects
<1>5. Objects'
  BY <1>2, <1>3, <1>4 DEF Objects
<1> QED BY <1>2, <1>3, <1>4, <1>5 DEF Moves

LEMMA DropMoves ==
  ASSUME Objects, UNCHANGED <<states, created, versions>>,
         loading' \in {0, loading}, resident' \in {0, resident}
  PROVE  Moves({})
<1>1. Stored' = Stored
  BY DEF Stored
<1>2. Objects'
  BY DEF Objects
<1> QED BY <1>1, <1>2 DEF Moves

\* Who waits for a write has sent an update.
LEMMA SaversSent ==
  ASSUME Documents, SentOnce, NEW c \in Clients, task[c].op \in {"updating", "saving"}
  PROVE  /\ task[c].edit \in Updates /\ task[c].edit # NoEdit
         /\ task[c].edit \in sent
         /\ \A d \in Clients : task[d].edit = task[c].edit => d = c
<1>1. task[c].edit \in Updates
  BY DEF Documents, Handlers, Fine
<1>2. task[c].edit # NoEdit
  BY <1>1, CrdtAssumption
<1> QED BY <1>1, <1>2 DEF SentOnce

\* An update is merged that no handler waits for.
LEMMA MergeMoves ==
  ASSUME Documents, Objects, NEW g \in Loads, NEW u,
         states' = [states EXCEPT ![g] = Merged(@, u)],
         UNCHANGED <<created, resident, loading, versions>>,
         \A c \in Clients : task[c].op = "saving" => task[c].edit # u
  PROVE  Moves({u})
<1>1. states[g] \in ChannelState
  BY DEF Documents, DocType
<1>2. /\ states'[g] = Merged(states[g], u)
      /\ \A h \in Loads : h # g => states'[h] = states[h]
  BY DEF Documents, DocType
<1>3. /\ Merged(states[g], u).hydrated = states[g].hydrated
      /\ Merged(states[g], u).doc = states[g].doc \cup {u}
  BY <1>1 DEF Merged, ChannelState
<1>4. Stored' = Stored
  BY DEF Stored
<1>5. loading # 0 => loading \in Loads
  BY CrdtAssumption DEF Documents, DocType, Loads
<1>6. Objects'
  BY <1>2, <1>3, <1>5 DEF Objects
<1> QED BY <1>2, <1>3, <1>4, <1>6 DEF Moves

LEMMA ApplyMoves ==
  ASSUME Documents, Objects, SentOnce, NEW c \in Clients, Apply(c)
  PROVE  Moves({task[c].edit})
<1>1. task[c].obj \in Loads /\ task[c].op = "updating"
  BY DEF Documents, Handlers, Fine, Apply, Holds
<1>2. \A d \in Clients : task[d].op = "saving" => task[d].edit # task[c].edit
  BY <1>1, SaversSent
<1>3. /\ states' = [states EXCEPT ![task[c].obj] = Merged(@, task[c].edit)]
      /\ UNCHANGED <<created, resident, loading, versions>>
  BY DEF Apply
<1> QED BY <1>1, <1>2, <1>3, MergeMoves

LEMMA RemoteMoves ==
  ASSUME Documents, Objects, SentOnce, NEW u \in PeerEdits, RemoteUpdate(u)
  PROVE  Moves({u}) \/ Moves({})
<1>1. CASE Loaded /\ states' = [states EXCEPT ![resident] = Merged(@, u)]
  <2>1. resident \in Loads
    BY <1>1, CrdtAssumption DEF Loaded, Documents, DocType, Loads
  <2>2. \A d \in Clients : task[d].op = "saving" => task[d].edit # u
    BY SaversSent DEF RemoteUpdate
  <2> QED BY <1>1, <2>1, <2>2, MergeMoves DEF RemoteUpdate, durable
<1>2. CASE UNCHANGED states
  <2>1. UNCHANGED <<states, created, resident, loading, versions>>
    BY <1>2 DEF RemoteUpdate, durable
  <2> QED BY <2>1, DropMoves
<1> QED BY <1>1, <1>2 DEF RemoteUpdate

LEMMA ReplaceMoves ==
  ASSUME Documents, Objects, NEW c \in Clients, Replace(c)
  PROVE  Moves({})
<1> DEFINE t == task[c]
<1>1. UNCHANGED <<created, resident, loading, versions>>
  BY DEF Replace, durable
<1>2. Stored' = Stored
  BY <1>1 DEF Stored
<1>3. CASE UNCHANGED states
  BY <1>1, <1>3, DropMoves
<1>4. CASE states' = [states EXCEPT ![t.obj] = Reset(@, t.target, t.clear)]
  <2>1. t.obj \in Loads /\ t.target \subseteq Stored
    BY DEF Documents, Handlers, Fine, Replace
  <2>2. states[t.obj] \in ChannelState
    BY <2>1 DEF Documents, DocType
  <2>3. /\ Reset(states[t.obj], t.target, t.clear).hydrated = states[t.obj].hydrated
        /\ Reset(states[t.obj], t.target, t.clear).doc = t.target
    BY <2>2 DEF Reset, ChannelState
  <2>4. states' = [states EXCEPT ![t.obj] = Reset(states[t.obj], t.target, t.clear)]
    BY <1>4
  <2> HIDE DEF t
  <2> QED BY <1>1, <1>2, <2>1, <2>3, <2>4, StillAlike
<1> QED BY <1>3, <1>4 DEF Replace

LEMMA SubscribedMoves ==
  ASSUME Documents, Objects, NEW c \in Clients, Subscribed(c)
  PROVE  Moves({})
<1> DEFINE g == task[c].obj
           r == [states[g] EXCEPT !.subs = @ + 1]
<1>1. g \in Loads /\ states[g] \in ChannelState
  BY DEF Documents, DocType, Handlers, Fine, Subscribed, Holds
<1>2. r.hydrated = states[g].hydrated /\ r.doc = states[g].doc
  BY <1>1 DEF ChannelState
<1>3. states' = [states EXCEPT ![g] = r]
  BY DEF Subscribed
<1>4. UNCHANGED <<created, resident, loading, versions>> /\ Stored' = Stored
  BY DEF Subscribed, durable, Stored
<1> HIDE DEF g, r
<1> QED BY <1>1, <1>2, <1>3, <1>4, StillAlike

LEMMA LeaveMoves ==
  ASSUME Documents, Objects, NEW c \in Clients, Leave(c)
  PROVE  Moves({})
<1> DEFINE left == IF states[resident].subs > 1 THEN states[resident].subs - 1 ELSE 0
           r == [states[resident] EXCEPT !.subs = left]
<1>1. UNCHANGED <<created, resident, loading, versions>> /\ Stored' = Stored
  BY DEF Leave, durable, Stored
<1>2. CASE resident = 0
  BY <1>1, <1>2, DropMoves DEF Leave
<1>3. CASE resident # 0
  <2>1. resident \in Loads /\ states[resident] \in ChannelState
    BY <1>3, CrdtAssumption DEF Documents, DocType, Loads
  <2>2. r.hydrated = states[resident].hydrated /\ r.doc = states[resident].doc
    BY <2>1 DEF ChannelState
  <2>3. states' = [states EXCEPT ![resident] = r]
    BY <1>3 DEF Leave
  <2> HIDE DEF r
  <2> QED BY <1>1, <2>1, <2>2, <2>3, StillAlike
<1> QED BY <1>2, <1>3

LEMMA WriteMoves ==
  ASSUME Documents, Objects, WriteStored
  PROVE  Moves({})
<1>1. took.obj \in Loads /\ states[took.obj] \in ChannelState
  BY DEF WriteStored, Quiet, Documents, Flight, Covers, DocType
<1>2. /\ Uncount(states[took.obj]).hydrated = states[took.obj].hydrated
      /\ Uncount(states[took.obj]).doc = states[took.obj].doc
  BY <1>1 DEF Uncount, ChannelState
<1>3. states' = [states EXCEPT ![took.obj] = Uncount(states[took.obj])]
  BY DEF WriteStored, Commit
<1>4. UNCHANGED <<created, resident, loading>> /\ Stored \subseteq Stored'
  BY DEF WriteStored, Stored
<1> QED BY <1>1, <1>2, <1>3, <1>4, StillAlike

\* Every step but a restart.
LEMMA EachMoves ==
  ASSUME Documents, Objects, SentOnce, Next, ~Restart
  PROVE  \E fresh : Moves(fresh)
<1>1. ASSUME NEW c \in Clients, Frame(c)
      PROVE  \E fresh : Moves(fresh)
  <2>1. CASE Subscribe(c)
    BY <2>1, ObtainMoves DEF Subscribe, durable
  <2>2. ASSUME NEW u \in Edits, NEW a \in BOOLEAN, Update(c, u, a)
        PROVE  \E fresh : Moves(fresh)
    BY <2>2, ObtainMoves DEF Update, durable
  <2>3. CASE UNCHANGED memory /\ UNCHANGED versions
    BY <2>3, Still
  <2>4. CASE SubscribeDenied(c) \/ Revoked(c) \/ SaveVersion(c) \/ Restore(c) \/ Clear(c)
    BY <2>3, <2>4 DEF SubscribeDenied, Revoked, SaveVersion, Restore, Clear, BeginReset, durable
  <2>5. CASE UpdateSaved(c) \/ VersionSaved(c) \/ LeaveSaved(c) \/ ResetSaved(c)
    BY <2>3, <2>5 DEF UpdateSaved, VersionSaved, LeaveSaved, ResetSaved, durable
  <2> QED BY <1>1, <2>1, <2>2, <2>4, <2>5, SubscribedMoves, ApplyMoves, LeaveMoves,
             ReplaceMoves DEF Frame, Continue
<1>2. ASSUME NEW u \in PeerEdits, RemoteUpdate(u)
      PROVE  \E fresh : Moves(fresh)
  BY <1>2, RemoteMoves
<1>3. CASE LoadCached
  BY <1>3, HydrateMoves DEF LoadCached, durable, Documents, DocType
<1>4. CASE LoadStored
  BY <1>4, HydrateMoves DEF LoadStored, durable, Documents, DocType
<1>5. CASE LoadFailed
  BY <1>5, DropMoves DEF LoadFailed, durable
<1>6. CASE IdleTimerFires \/ Evict \/ DeleteDocument
  BY <1>6, DropMoves DEF IdleTimerFires, Evict, DeleteDocument, DropResident, durable
<1>7. CASE WriteFailed \/ WriteNothing \/ DebounceFires \/ Sweep \/ BackgroundSaved \/ CacheExpires
  <2>1. UNCHANGED memory /\ UNCHANGED versions
    BY <1>7 DEF WriteFailed, WriteNothing, DebounceFires, Sweep, BackgroundSaved,
                CacheExpires, durable
  <2> QED BY <2>1, Still
<1> QED BY <1>1, <1>2, <1>3, <1>4, <1>5, <1>6, <1>7, WriteMoves DEF Next

-----------------------------------------------------------------------------
(* Acknowledgements: the handlers                                          *)

\* What a step may do with the handler of c, unless it begins an update.
Proceeds(c) ==
    \/ task'[c] = task[c]
    \/ task'[c].edit = NoEdit /\ task'[c].op # "saving"
    \/ /\ Apply(c)
       /\ task'[c].op = "saving"
       /\ task'[c].obj = task[c].obj /\ task'[c].edit = task[c].edit

Begins(c, u) ==
    /\ u \notin sent /\ sent' = sent \cup {u}
    /\ task'[c].op = "updating" /\ task'[c].edit = u
    /\ \A d \in Clients : d # c => task'[d] = task[d]

LEMMA OneProceeds ==
  ASSUME Documents, NEW c \in Clients, NEW t, task' = [task EXCEPT ![c] = t],
         t.edit = NoEdit /\ t.op # "saving"
  PROVE  \A d \in Clients : Proceeds(d)
BY DEF Documents, DocType, Proceeds

LEMMA FrameProceeds ==
  ASSUME Documents, SentOnce, NEW c \in Clients, Frame(c)
  PROVE  \/ sent' = sent /\ \A d \in Clients : Proceeds(d)
         \/ \E u : Begins(c, u)
<1>1. Idle.edit = NoEdit /\ Idle.op = "idle"
  BY DEF Idle
<1>2. Finish(c) => \A d \in Clients : Proceeds(d)
  BY <1>1, OneProceeds DEF Finish
<1>3. UNCHANGED task => \A d \in Clients : Proceeds(d)
  BY DEF Proceeds
<1>4. CASE Subscribe(c)
  <2>1. PICK g : task' = [task EXCEPT ![c] = Holding("subscribing", g, NoEdit, FALSE)]
    BY <1>4 DEF Subscribe, Obtain
  <2> DEFINE t == Holding("subscribing", g, NoEdit, FALSE)
  <2>2. t.edit = NoEdit /\ t.op = "subscribing"
    BY DEF Holding, Idle
  <2> HIDE DEF t
  <2>3. \A d \in Clients : Proceeds(d)
    BY <2>1, <2>2, OneProceeds DEF t
  <2> QED BY <1>4, <2>3 DEF Subscribe
<1>5. ASSUME NEW u \in Edits, NEW a \in BOOLEAN, Update(c, u, a)
      PROVE  Begins(c, u)
  <2>1. PICK g : task' = [task EXCEPT ![c] = Holding("updating", g, u, a)]
    BY <1>5 DEF Update, Obtain
  <2>2. Holding("updating", g, u, a).op = "updating" /\ Holding("updating", g, u, a).edit = u
    BY DEF Holding, Idle
  <2> QED BY <1>5, <2>1, <2>2 DEF Update, Begins, Documents, DocType
<1>6. CASE SubscribeDenied(c)
  BY <1>3, <1>6 DEF SubscribeDenied
<1>7. CASE Subscribed(c) \/ Revoked(c)
  BY <1>2, <1>7 DEF Subscribed, Revoked
<1>8. CASE Apply(c)
  <2>1. CASE Finish(c)
    BY <1>2, <1>8, <2>1 DEF Apply
  <2>2. CASE task' = [task EXCEPT ![c] = [task[c] EXCEPT !.op = "saving"]]
    <3>1. task[c] \in Task
      BY DEF Documents, DocType
    <3> DEFINE t == [task[c] EXCEPT !.op = "saving"]
    <3>2. t.op = "saving" /\ t.obj = task[c].obj /\ t.edit = task[c].edit
      BY <3>1, OpTask
    <3> HIDE DEF t
    <3>3. task'[c] = t /\ \A d \in Clients : d # c => task'[d] = task[d]
      BY <2>2 DEF t, Documents, DocType
    <3> QED BY <1>8, <3>2, <3>3 DEF Proceeds, Apply
  <2> QED BY <1>8, <2>1, <2>2 DEF Apply
<1>9. CASE SaveVersion(c)
  <2> DEFINE t == [Idle EXCEPT !.op = "naming"]
  <2>1. t.edit = NoEdit /\ t.op = "naming"
    BY DEF Idle
  <2>2. task' = [task EXCEPT ![c] = t] /\ sent' = sent
    BY <1>9 DEF SaveVersion
  <2> HIDE DEF t
  <2> QED BY <2>1, <2>2, OneProceeds
<1>10. ASSUME NEW target, NEW clear, BeginReset(c, target, clear)
       PROVE  sent' = sent /\ \A d \in Clients : Proceeds(d)
  <2> DEFINE t == [Idle EXCEPT !.op = "checkpoint", !.obj = resident, !.target = target,
                               !.clear = clear]
  <2>1. t.edit = NoEdit /\ t.op = "checkpoint"
    BY DEF Idle
  <2>2. task' = [task EXCEPT ![c] = t] /\ sent' = sent
    BY <1>10 DEF BeginReset
  <2> HIDE DEF t
  <2> QED BY <2>1, <2>2, OneProceeds
<1>11. CASE Leave(c)
  <2>1. UNCHANGED task \/ task' = [task EXCEPT ![c] = [Idle EXCEPT !.op = "leaving"]]
    BY <1>11 DEF Leave
  <2> DEFINE t == [Idle EXCEPT !.op = "leaving"]
  <2>2. t.edit = NoEdit /\ t.op = "leaving"
    BY DEF Idle
  <2> HIDE DEF t
  <2>3. \A d \in Clients : Proceeds(d)
    BY <1>3, <2>1, <2>2, OneProceeds DEF t
  <2> QED BY <1>11, <2>3 DEF Leave
<1>12. CASE UpdateSaved(c) \/ VersionSaved(c) \/ LeaveSaved(c) \/ ResetSaved(c)
  BY <1>2, <1>12 DEF UpdateSaved, VersionSaved, LeaveSaved, ResetSaved
<1>13. CASE Replace(c)
  <2>1. CASE Finish(c)
    BY <1>2, <1>13, <2>1 DEF Replace
  <2>2. CASE task' = [task EXCEPT ![c] = [task[c] EXCEPT !.op = "replacing"]]
    <3>1. task[c].op = "checkpoint" /\ task[c] \in Task
      BY <1>13 DEF Replace, Documents, DocType
    <3>2. task[c].edit = NoEdit
      BY <3>1 DEF SentOnce
    <3> QED BY <1>13, <2>2, <3>1, <3>2, OpTask, OneProceeds DEF Replace
  <2> QED BY <1>13, <2>1, <2>2 DEF Replace
<1> QED BY <1>4, <1>5, <1>6, <1>7, <1>8, <1>9, <1>10, <1>11, <1>12, <1>13
       DEF Frame, Continue, Restore, Clear

LEMMA EachProceeds ==
  ASSUME Documents, SentOnce, Next
  PROVE  \/ sent \subseteq sent' /\ \A d \in Clients : Proceeds(d)
         \/ \E c \in Clients : \E u : Begins(c, u)
<1>1. UNCHANGED task => \A d \in Clients : Proceeds(d)
  BY DEF Proceeds
<1>2. Idle.edit = NoEdit /\ Idle.op = "idle"
  BY DEF Idle
<1>3. ASSUME NEW u \in PeerEdits, RemoteUpdate(u)
      PROVE  sent \subseteq sent' /\ UNCHANGED task
  BY <1>3 DEF RemoteUpdate
<1>4. CASE LoadFailed \/ Restart
  <2>1. \A d \in Clients : task'[d] \in {Idle, task[d]}
    BY <1>4 DEF LoadFailed, Restart
  <2>2. sent' = sent
    BY <1>4 DEF LoadFailed, Restart
  <2> QED BY <1>2, <2>1, <2>2 DEF Proceeds
<1>5. CASE LoadCached \/ LoadStored \/ IdleTimerFires \/ Evict \/ DeleteDocument
           \/ WriteStored \/ WriteFailed \/ WriteNothing \/ DebounceFires \/ Sweep
           \/ BackgroundSaved \/ CacheExpires
  <2>1. UNCHANGED clients
    BY <1>5 DEF LoadCached, LoadStored, IdleTimerFires, Evict, DeleteDocument, WriteStored,
                WriteFailed, WriteNothing, DebounceFires, Sweep, BackgroundSaved, CacheExpires
  <2> QED BY <1>1, <2>1 DEF clients
<1> QED BY <1>1, <1>3, <1>4, <1>5, FrameProceeds DEF Next

LEMMA SentStep ==
  ASSUME Documents, SentOnce,
         \/ sent \subseteq sent' /\ \A d \in Clients : Proceeds(d)
         \/ \E c \in Clients : \E u : Begins(c, u)
  PROVE  SentOnce'
<1>1. CASE sent \subseteq sent' /\ \A d \in Clients : Proceeds(d)
  <2>1. \A d \in Clients : task'[d].edit # NoEdit =>
           task'[d].edit = task[d].edit /\ task'[d].op \in {"updating", "saving"}
    BY <1>1 DEF Proceeds, SentOnce
  <2> QED BY <1>1, <2>1 DEF SentOnce
<1>2. ASSUME NEW c \in Clients, NEW u, Begins(c, u)
      PROVE  SentOnce'
  BY <1>2 DEF Begins, SentOnce
<1> QED BY <1>1, <1>2

\* Who saves was saving already, or has just merged its update.
LEMMA SaversStep ==
  ASSUME Documents, Savers, NEW fresh, Moves(fresh),
         \/ sent \subseteq sent' /\ \A d \in Clients : Proceeds(d)
         \/ \E c \in Clients : \E u : Begins(c, u)
  PROVE  Savers'
<1>1. SUFFICES ASSUME NEW d \in Clients, task'[d].op = "saving"
               PROVE  states'[task'[d].obj].hydrated
  BY DEF Savers
<1>2. task'[d].obj = task[d].obj
      /\ task[d].op \in {"updating", "saving"} /\ states[task[d].obj].hydrated
  BY <1>1 DEF Proceeds, Begins, Savers, Apply, Holds
<1>3. task[d].obj \in Loads
  BY <1>2 DEF Documents, Handlers, Fine
<1> QED BY <1>2, <1>3 DEF Moves

-----------------------------------------------------------------------------
(* Acknowledgements: the line of writes                                    *)

\* Nothing happens to the line, nor to who waits in it.
Keeps ==
    /\ UNCHANGED writing
    /\ \A c \in Clients : task[c].op \in Awaiting => task'[c] = task[c]

\* The continuation that is due has run.
Resumes ==
    /\ turn' = NoTurn /\ UNCHANGED <<queue, took>>
    /\ \A c \in Clients : c # turn.who => task'[c] = task[c]

\* w asks for a write of the live document.
Joins(w) ==
    /\ Enqueue(w, resident', states')
    /\ turn.who \in {Nobody, w} /\ turn' = NoTurn
    /\ w \in Clients => /\ task'[w].op \in Awaiting
                        /\ turn.who = w \/ task[w].op \notin Awaiting
    /\ \A c \in Clients : c # w => task'[c] = task[c]

\* The running write is over, and has stored what it took if it says so.
Ends(b) ==
    /\ queue # <<>> /\ turn = NoTurn /\ UNCHANGED <<task, resident>>
    /\ EndWrite(b, states')
    /\ b => IF took.ok THEN took.doc \subseteq Stored' ELSE took.obj = 0

LineMoves ==
    \/ Keeps
    \/ Resumes
    \/ \E w \in Clients \cup Timers : Joins(w)
    \/ \E b \in BOOLEAN : Ends(b)

LEMMA QuietTurn == Quiet => turn = NoTurn /\ turn.who = Nobody
BY DEF Quiet, NoTurn

LEMMA FrameLine ==
  ASSUME Documents, NEW c \in Clients, Frame(c)
  PROVE  LineMoves
<1>1. Idle.op = "idle" /\ task \in [Clients -> Task]
  BY DEF Idle, Documents, DocType
<1>2. ASSUME task[c].op \notin Awaiting, NEW t, task' = [task EXCEPT ![c] = t], UNCHANGED writing
      PROVE  Keeps
  BY <1>1, <1>2 DEF Keeps
<1>3. ASSUME turn.who = c, turn' = NoTurn, UNCHANGED <<queue, took>>, Finish(c)
      PROVE  Resumes
  BY <1>1, <1>3 DEF Resumes, Finish
<1>4. ASSUME NEW t, t.op \in Awaiting, task' = [task EXCEPT ![c] = t],
             turn.who = c \/ task[c].op \notin Awaiting,
             turn.who \in {Nobody, c}, turn' = NoTurn, Enqueue(c, resident', states')
      PROVE  LineMoves
  BY <1>1, <1>4 DEF Joins, LineMoves
<1>5. CASE Subscribe(c)
  <2>1. \E g : task' = [task EXCEPT ![c] = Holding("subscribing", g, NoEdit, FALSE)]
    BY <1>5 DEF Subscribe, Obtain
  <2> QED BY <1>1, <1>2, <1>5, <2>1 DEF Subscribe, Awaiting, LineMoves
<1>6. ASSUME NEW u \in Edits, NEW a \in BOOLEAN, Update(c, u, a)
      PROVE  Keeps
  <2>1. \E g : task' = [task EXCEPT ![c] = Holding("updating", g, u, a)]
    BY <1>6 DEF Update, Obtain
  <2> QED BY <1>1, <1>2, <1>6, <2>1 DEF Update, Awaiting
<1>7. CASE SubscribeDenied(c)
  BY <1>7 DEF SubscribeDenied, Keeps, LineMoves
<1>8. CASE Subscribed(c) \/ Revoked(c)
  BY <1>2, <1>8 DEF Subscribed, Revoked, Finish, Holds, Awaiting, LineMoves
<1>9. CASE Apply(c)
  <2>1. task[c].op \notin Awaiting /\ turn = NoTurn /\ turn.who = Nobody /\ UNCHANGED <<turn, resident>>
    BY <1>9, QuietTurn DEF Apply, Holds, Awaiting
  <2>2. CASE Finish(c) /\ UNCHANGED <<queue, took>>
    BY <1>2, <2>1, <2>2 DEF Finish, LineMoves, writing
  <2>3. CASE /\ Enqueue(c, resident, states')
             /\ task' = [task EXCEPT ![c] = [task[c] EXCEPT !.op = "saving"]]
    <3>1. task[c] \in Task
      BY <1>1
    <3>2. [task[c] EXCEPT !.op = "saving"].op \in Awaiting
      BY <3>1, OpTask DEF Awaiting
    <3> QED BY <1>4, <2>1, <2>3, <3>2
  <2> QED BY <1>9, <2>2, <2>3 DEF Apply
<1>10. CASE SaveVersion(c)
  <2>1. [Idle EXCEPT !.op = "naming"].op \in Awaiting
    BY DEF Idle, Awaiting
  <2>2. task[c].op \notin Awaiting /\ turn = NoTurn /\ turn.who = Nobody
    BY <1>1, <1>10, QuietTurn DEF SaveVersion, Awaiting
  <2>3. UNCHANGED <<turn, resident, states>>
    BY <1>10 DEF SaveVersion, memory
  <2> QED BY <1>4, <1>10, <2>1, <2>2, <2>3 DEF SaveVersion
<1>11. ASSUME NEW target, NEW clear, BeginReset(c, target, clear)
       PROVE  LineMoves
  <2> DEFINE t == [Idle EXCEPT !.op = "checkpoint", !.obj = resident, !.target = target,
                               !.clear = clear]
  <2>1. t.op \in Awaiting
    BY DEF Idle, Awaiting
  <2>2. task[c].op \notin Awaiting /\ turn = NoTurn /\ turn.who = Nobody
    BY <1>1, <1>11, QuietTurn DEF BeginReset, Awaiting
  <2>3. UNCHANGED <<turn, resident, states>> /\ task' = [task EXCEPT ![c] = t]
    BY <1>11 DEF BeginReset, memory
  <2>4. Enqueue(c, resident, states)
    BY <1>11 DEF BeginReset
  <2> HIDE DEF t
  <2> QED BY <1>4, <2>1, <2>2, <2>3, <2>4
<1>12. CASE Leave(c)
  <2>1. task[c].op \notin Awaiting /\ turn = NoTurn /\ turn.who = Nobody /\ UNCHANGED <<turn, resident>>
    BY <1>1, <1>12, QuietTurn DEF Leave, Awaiting
  <2>2. CASE UNCHANGED <<queue, took, task>>
    BY <2>1, <2>2 DEF Keeps, LineMoves, writing
  <2>3. CASE /\ Enqueue(c, resident, states')
             /\ task' = [task EXCEPT ![c] = [Idle EXCEPT !.op = "leaving"]]
    <3>1. [Idle EXCEPT !.op = "leaving"].op \in Awaiting
      BY DEF Idle, Awaiting
    <3> QED BY <1>4, <2>1, <2>3, <3>1
  <2> QED BY <1>12, <2>2, <2>3 DEF Leave
<1>13. CASE UpdateSaved(c) \/ VersionSaved(c) \/ LeaveSaved(c) \/ ResetSaved(c)
  BY <1>3, <1>13 DEF UpdateSaved, VersionSaved, LeaveSaved, ResetSaved, LineMoves
<1>14. CASE Replace(c)
  <2>1. turn.who = c /\ turn' = NoTurn /\ resident' = resident
    BY <1>14 DEF Replace
  <2>2. CASE Finish(c) /\ UNCHANGED <<queue, took>>
    BY <1>3, <2>1, <2>2 DEF LineMoves
  <2>3. CASE /\ Enqueue(c, resident, states')
             /\ task' = [task EXCEPT ![c] = [task[c] EXCEPT !.op = "replacing"]]
    <3>1. task[c] \in Task
      BY <1>1
    <3>2. [task[c] EXCEPT !.op = "replacing"].op \in Awaiting
      BY <3>1, OpTask DEF Awaiting
    <3> QED BY <1>4, <2>1, <2>3, <3>2
  <2> QED BY <1>14, <2>2, <2>3 DEF Replace
<1> QED BY <1>5, <1>6, <1>7, <1>8, <1>9, <1>10, <1>11, <1>12, <1>13, <1>14
       DEF Frame, Continue, Restore, Clear, LineMoves

LEMMA EachLine ==
  ASSUME Documents, Next, ~Restart
  PROVE  LineMoves
<1>1. Idle.op = "idle"
  BY DEF Idle
<1>2. ASSUME NEW w \in Timers, Enqueue(w, resident, states), Quiet,
             UNCHANGED <<turn, task, states, resident>>
      PROVE  LineMoves
  <2>1. w \notin Clients /\ turn = NoTurn /\ turn.who = Nobody
    BY <1>2, QuietTurn, CrdtAssumption
  <2> QED BY <1>2, <2>1 DEF Joins, LineMoves
<1>3. UNCHANGED writing /\ UNCHANGED task => Keeps
  BY DEF Keeps
<1>4. ASSUME NEW u \in PeerEdits, RemoteUpdate(u)
      PROVE  LineMoves
  BY <1>3, <1>4 DEF RemoteUpdate, LineMoves
<1>5. CASE LoadCached \/ LoadStored \/ DeleteDocument \/ CacheExpires
  BY <1>3, <1>5 DEF LoadCached, LoadStored, DeleteDocument, CacheExpires, clients, LineMoves
<1>6. CASE LoadFailed
  <2>1. \A c \in Clients : task[c].op \in Awaiting => task'[c] = task[c]
    BY <1>6 DEF LoadFailed, Awaiting
  <2> QED BY <1>6, <2>1 DEF LoadFailed, Keeps, LineMoves
<1>7. CASE DebounceFires \/ Sweep
  <2>1. Quiet /\ UNCHANGED <<turn, task, states, resident>>
    BY <1>7 DEF DebounceFires, Sweep, clients, memory
  <2>2. UNCHANGED <<queue, took>> \/ Enqueue(Timer, resident, states)
    BY <1>7 DEF DebounceFires, Sweep
  <2> QED BY <1>2, <1>3, <2>1, <2>2 DEF LineMoves, writing, Timers
<1>8. CASE IdleTimerFires
  <2>1. Quiet /\ UNCHANGED <<turn, task, states>>
    BY <1>8 DEF IdleTimerFires, clients
  <2>2. \/ UNCHANGED <<queue, took>>
        \/ Enqueue(Evictor, resident, states) /\ UNCHANGED resident
    BY <1>8 DEF IdleTimerFires
  <2> QED BY <1>2, <1>3, <2>1, <2>2 DEF LineMoves, writing, Timers
<1>9. CASE BackgroundSaved \/ Evict
  BY <1>9 DEF BackgroundSaved, Evict, clients, Resumes, LineMoves
<1>10. CASE WriteStored
  <2>1. took.ok /\ turn = NoTurn /\ took.doc \subseteq Stored'
    BY <1>10 DEF WriteStored, Quiet, Stored
  <2>2. EndWrite(TRUE, states') /\ UNCHANGED <<task, resident>> /\ queue # <<>>
    BY <1>10 DEF WriteStored, clients
  <2> QED BY <2>1, <2>2 DEF Ends, LineMoves
<1>11. CASE WriteFailed
  <2>1. EndWrite(FALSE, states') /\ UNCHANGED <<task, resident>> /\ queue # <<>> /\ turn = NoTurn
    BY <1>11 DEF WriteFailed, Quiet, clients, memory
  <2> QED BY <2>1 DEF Ends, LineMoves
<1>12. CASE WriteNothing
  <2>1. /\ EndWrite(took.obj = 0, states') /\ UNCHANGED <<task, resident>>
        /\ queue # <<>> /\ turn = NoTurn /\ ~took.ok
    BY <1>12 DEF WriteNothing, clients, memory
  <2>2. Ends(took.obj = 0)
    BY <2>1 DEF Ends
  <2> QED BY <2>2 DEF LineMoves
<1> QED BY <1>4, <1>5, <1>6, <1>7, <1>8, <1>9, <1>10, <1>11, <1>12, FrameLine DEF Next

LEMMA JoinedLine ==
  ASSUME NEW S, NEW q \in Seq(S), NEW w \in S
  PROVE  /\ Append(q, w) \in Seq(S) /\ Len(Append(q, w)) = Len(q) + 1 /\ Len(q) \in Nat
         /\ \A i \in 1 .. Len(q) : Append(q, w)[i] = q[i]
         /\ Append(q, w)[Len(q) + 1] = w
         /\ q = <<>> => Head(Append(q, w)) = w
         /\ q # <<>> => Len(q) > 0 /\ Head(q) = q[1] /\ Head(Append(q, w)) = Head(q)
OBVIOUS

LEMMA ShorterLine ==
  ASSUME NEW S, NEW q \in Seq(S), q # <<>>
  PROVE  /\ Tail(q) \in Seq(S) /\ Len(Tail(q)) = Len(q) - 1 /\ Len(q) \in Nat /\ Len(q) > 0
         /\ \A i \in 1 .. Len(q) - 1 : Tail(q)[i] = q[i + 1]
         /\ Head(q) = q[1] /\ Head(q) \in S
         /\ Tail(q) # <<>> => Len(q) > 1 /\ Head(Tail(q)) = q[2]
OBVIOUS

\* Nobody, for whom no continuation is due, is no client.
LEMMA NobodyWaits == NoTurn.who = Nobody /\ NoTurn.ok /\ Nobody \notin Clients
                     /\ NoTurn \in [who : Clients \cup Timers \cup {Nobody}, ok : BOOLEAN]
BY CrdtAssumption DEF NoTurn

LEMMA InLineStep ==
  ASSUME InLine, LineMoves
  PROVE  InLine'
<1>0. queue \in Seq(Clients \cup Timers)
  BY DEF InLine
<1>1. CASE Keeps
  BY <1>1 DEF Keeps, InLine, writing
<1>2. CASE Resumes
  BY <1>2, NobodyWaits DEF Resumes, InLine
<1>3. ASSUME NEW w \in Clients \cup Timers, Joins(w)
      PROVE  InLine'
  <2>1. queue' = Append(queue, w) /\ turn' = NoTurn
    BY <1>3 DEF Joins, Enqueue
  <2>2. /\ queue' \in Seq(Clients \cup Timers)
        /\ Len(queue') = Len(queue) + 1 /\ Len(queue) \in Nat
        /\ \A i \in 1 .. Len(queue) : queue'[i] = queue[i]
        /\ queue'[Len(queue) + 1] = w
    BY <1>0, <2>1, JoinedLine
  <2>3. w \in Clients => \A i \in 1 .. Len(queue) : queue[i] # w
    BY <1>3 DEF Joins, InLine
  <2>4. ASSUME NEW i \in 1 .. Len(queue'), queue'[i] \in Clients
        PROVE  /\ task'[queue'[i]].op \in Awaiting
               /\ queue'[i] # turn'.who
               /\ \A j \in 1 .. Len(queue') : queue'[j] = queue'[i] => j = i
    <3>1. CASE i = Len(queue) + 1
      BY <1>3, <2>1, <2>2, <2>3, <2>4, <3>1, NobodyWaits DEF Joins
    <3>2. CASE i \in 1 .. Len(queue)
      <4>1. queue'[i] = queue[i] /\ queue[i] # w
        BY <2>2, <2>3, <2>4, <3>2
      <4>2. task[queue[i]].op \in Awaiting
            /\ \A j \in 1 .. Len(queue) : queue[j] = queue[i] => j = i
        BY <2>4, <3>2, <4>1 DEF InLine
      <4>3. task'[queue[i]] = task[queue[i]]
        BY <1>3, <2>4, <4>1 DEF Joins
      <4>4. \A j \in 1 .. Len(queue') : queue'[j] = queue'[i] => j = i
        BY <2>2, <4>1, <4>2
      <4> QED BY <2>1, <2>4, <4>1, <4>2, <4>3, <4>4, NobodyWaits
    <3> QED BY <2>2, <2>4, <3>1, <3>2
  <2> QED BY <2>1, <2>2, <2>4, NobodyWaits DEF InLine
<1>4. ASSUME NEW b \in BOOLEAN, Ends(b)
      PROVE  InLine'
  <2>1. /\ queue # <<>> /\ task' = task
        /\ queue' = Tail(queue) /\ turn' = [who |-> Head(queue), ok |-> b]
    BY <1>4 DEF Ends, EndWrite
  <2>2. /\ queue' \in Seq(Clients \cup Timers)
        /\ Len(queue') = Len(queue) - 1 /\ Len(queue) \in Nat /\ Len(queue) > 0
        /\ \A i \in 1 .. Len(queue) - 1 : queue'[i] = queue[i + 1]
        /\ Head(queue) = queue[1] /\ Head(queue) \in Clients \cup Timers
    BY <1>0, <2>1, ShorterLine
  <2>3. turn' \in [who : Clients \cup Timers \cup {Nobody}, ok : BOOLEAN] /\ turn'.who = queue[1]
    BY <2>1, <2>2
  <2>4. ASSUME NEW i \in 1 .. Len(queue'), queue'[i] \in Clients
        PROVE  /\ task'[queue'[i]].op \in Awaiting
               /\ queue'[i] # turn'.who
               /\ \A j \in 1 .. Len(queue') : queue'[j] = queue'[i] => j = i
    <3>1. queue'[i] = queue[i + 1] /\ i + 1 \in 1 .. Len(queue) /\ 1 \in 1 .. Len(queue)
      BY <2>2, <2>4
    <3>2. task[queue[i + 1]].op \in Awaiting
          /\ \A j \in 1 .. Len(queue) : queue[j] = queue[i + 1] => j = i + 1
      BY <2>4, <3>1 DEF InLine
    <3>3. \A j \in 1 .. Len(queue') : queue'[j] = queue[j + 1] /\ j + 1 \in 1 .. Len(queue)
      BY <2>2
    <3>4. queue[1] # queue[i + 1]
      BY <3>1, <3>2
    <3> QED BY <2>1, <2>3, <3>1, <3>2, <3>3, <3>4
  <2>5. turn'.who \in Clients => task'[turn'.who].op \in Awaiting
    BY <2>1, <2>2, <2>3 DEF InLine
  <2> QED BY <2>2, <2>3, <2>4, <2>5 DEF InLine
<1> QED BY <1>1, <1>2, <1>3, <1>4 DEF LineMoves

\* An update comes into doubt only by being merged.
LEMMA DoubtOld ==
  ASSUME Documents, Objects, Savers, NEW fresh, Moves(fresh),
         NEW c \in Clients, task'[c] = task[c], InDoubt(c)'
  PROVE  InDoubt(c)
<1>1. task[c].op = "saving" /\ task[c].obj = resident' /\ task[c].obj \in Loads
      /\ states[task[c].obj].hydrated /\ task[c].edit \notin fresh
  BY DEF InDoubt, Documents, Handlers, Fine, Savers, Moves
<1>2. resident' # 0 /\ ~(resident' > created)
  BY <1>1 DEF Objects, Loads
<1>3. resident' = resident
  BY <1>2 DEF Moves
<1> QED BY <1>1, <1>3 DEF InDoubt, Moves

LEMMA CaptureTakes ==
  ASSUME NEW r, NEW s, r # 0
  PROVE  LET k == Capture(r, s)
         IN (k.ok => k.doc = s[r].doc) /\ k.obj = r
BY DEF Capture

LEMMA SureStep ==
  ASSUME Documents, Acknowledging, NEW fresh, Moves(fresh), LineMoves,
         \/ sent \subseteq sent' /\ \A d \in Clients : Proceeds(d)
         \/ \E c \in Clients : \E u : Begins(c, u),
         NEW c \in Clients, InDoubt(c)'
  PROVE  Sure(c)'
<1>0. queue \in Seq(Clients \cup Timers) /\ resident' # 0 /\ task[c].op \in {"updating", "saving"}
  <2>1. task[c].op \in {"updating", "saving"} /\ task'[c].obj = task[c].obj
    BY DEF InDoubt, Proceeds, Begins, Apply, Holds
  <2>2. task[c].obj \in Loads
    BY <2>1 DEF Documents, Handlers, Fine
  <2> QED BY <2>1, <2>2, CrdtAssumption DEF Acknowledging, InLine, InDoubt, Loads
<1>1. ASSUME task'[c] = task[c]
      PROVE  InDoubt(c) /\ Sure(c)
  BY <1>1, DoubtOld DEF Acknowledging
<1>2. task[c].op # "saving" => task[c].op \notin Awaiting
  BY <1>0 DEF Awaiting
<1>3. task'[c] # task[c] => task[c].op \notin Awaiting
  BY <1>2 DEF Proceeds, Begins, InDoubt, Apply, Holds
<1>4. task[c].op \notin Awaiting =>
         turn.who # c /\ \A i \in 1 .. Len(queue) : queue[i] # c
  BY DEF Acknowledging, InLine
<1>5. queue # <<>> => Head(queue) = queue[1] /\ 1 \in 1 .. Len(queue)
  BY <1>0, ShorterLine
<1>6. CASE Keeps \/ Resumes
  <2>1. UNCHANGED <<queue, took>> /\ turn' \in {turn, NoTurn}
    BY <1>6 DEF Keeps, Resumes, writing
  <2>2. CASE task'[c] = task[c]
    BY <1>1, <2>1, <2>2, NobodyWaits DEF Sure
  <2>3. CASE task'[c] # task[c]
    BY <1>3, <1>4, <1>5, <2>1, <2>3, NobodyWaits DEF Sure
  <2> QED BY <2>2, <2>3
<1>7. ASSUME NEW w \in Clients \cup Timers, Joins(w)
      PROVE  Sure(c)'
  <2>1. queue' = Append(queue, w) /\ turn' = NoTurn
        /\ (queue = <<>> => took' = Capture(resident', states'))
        /\ (queue # <<>> => took' = took)
    BY <1>7 DEF Joins, Enqueue
  <2>2. turn'.who # c
    BY <2>1, NobodyWaits
  <2>3. CASE queue = <<>>
    BY <1>0, <2>1, <2>2, <2>3, CaptureTakes DEF Sure, InDoubt
  <2>4. CASE queue # <<>>
    <3>1. Head(queue') = Head(queue)
      BY <1>0, <2>1, <2>4, JoinedLine
    <3>2. CASE task'[c] = task[c]
      BY <1>1, <2>1, <2>2, <2>4, <3>1, <3>2 DEF Sure
    <3>3. CASE task'[c] # task[c]
      BY <1>3, <1>4, <1>5, <2>2, <2>4, <3>1, <3>3 DEF Sure
    <3> QED BY <3>2, <3>3
  <2> QED BY <2>3, <2>4
<1>8. ASSUME NEW b \in BOOLEAN, Ends(b)
      PROVE  Sure(c)'
  <2>1. /\ queue # <<>> /\ task'[c] = task[c] /\ queue' = Tail(queue)
        /\ turn' = [who |-> Head(queue), ok |-> b]
        /\ (Len(queue) > 1 => took' = Capture(resident', states'))
    BY <1>8 DEF Ends, EndWrite
  <2>2. InDoubt(c) /\ Sure(c)
    BY <1>1, <2>1
  <2>3. turn'.who = c => ~turn'.ok
    <3>1. SUFFICES ASSUME Head(queue) = c, b PROVE FALSE
      BY <2>1
    <3> QED BY <1>8, <2>1, <2>2, <3>1 DEF Ends, Sure, InDoubt
  <2>4. queue' # <<>> => IF took'.ok THEN task'[c].edit \in took'.doc ELSE took'.obj # 0
    <3>1. SUFFICES ASSUME queue' # <<>>
                   PROVE  IF took'.ok THEN task'[c].edit \in took'.doc ELSE took'.obj # 0
      OBVIOUS
    <3>2. took' = Capture(resident', states')
      BY <1>0, <2>1, <3>1, ShorterLine
    <3> QED BY <1>0, <3>2, CaptureTakes DEF InDoubt
  <2> QED BY <2>3, <2>4 DEF Sure
<1> QED BY <1>6, <1>7, <1>8 DEF LineMoves

\* The process starts again with nothing in memory.
LEMMA Restarted ==
  ASSUME Restart
  PROVE  Acknowledging'
<1>1. Idle.op = "idle" /\ Idle.edit = NoEdit /\ ~Fresh.hydrated
  BY DEF Idle, Fresh
<1>2. \A c \in Clients : task'[c] = Idle
  BY DEF Restart
<1>3. \A h \in Loads : states'[h] = Fresh
  BY DEF Restart
<1>4. Objects'
  BY <1>1, <1>3 DEF Restart, Objects
<1>5. queue' = <<>> /\ turn' = NoTurn
  BY DEF Restart
<1>6. InLine'
  BY <1>5, NobodyWaits DEF InLine
<1>7. \A c \in Clients : ~InDoubt(c)'
  BY <1>1, <1>2 DEF InDoubt
<1> QED BY <1>1, <1>2, <1>4, <1>6, <1>7 DEF Acknowledging, Savers, SentOnce

LEMMA InitAcknowledging == Init => Acknowledging
<1>1. SUFFICES ASSUME Init PROVE Acknowledging
  OBVIOUS
<1>2. Idle.op = "idle" /\ Idle.edit = NoEdit /\ ~Fresh.hydrated
  BY DEF Idle, Fresh
<1>3. \A c \in Clients : task[c] = Idle
  BY <1>1 DEF Init
<1>4. \A h \in Loads : states[h] = Fresh
  BY <1>1 DEF Init
<1>5. Objects
  BY <1>1, <1>2, <1>4 DEF Init, Objects
<1>6. queue = <<>> /\ turn = NoTurn
  BY <1>1 DEF Init
<1>7. InLine
  BY <1>6, NobodyWaits DEF InLine
<1>8. \A c \in Clients : ~InDoubt(c)
  BY <1>2, <1>3 DEF InDoubt
<1> QED BY <1>2, <1>3, <1>5, <1>7, <1>8 DEF Acknowledging, Savers, SentOnce

LEMMA AcknowledgingStep ==
  ASSUME Documents, Acknowledging, [Next]_vars
  PROVE  Acknowledging'
<1>1. CASE Restart
  BY <1>1, Restarted
<1>2. CASE Next /\ ~Restart
  <2>1. PICK fresh : Moves(fresh)
    BY <1>2, EachMoves DEF Acknowledging
  <2>2. LineMoves
    BY <1>2, EachLine
  <2>3. \/ sent \subseteq sent' /\ \A d \in Clients : Proceeds(d)
        \/ \E c \in Clients : \E u : Begins(c, u)
    BY <1>2, EachProceeds DEF Acknowledging
  <2>4. SentOnce' /\ Savers' /\ InLine' /\ Objects'
    BY <2>1, <2>2, <2>3, SentStep, SaversStep, InLineStep DEF Acknowledging, Moves
  <2>5. \A c \in Clients : InDoubt(c)' => Sure(c)'
    BY <2>1, <2>2, <2>3, SureStep
  <2> QED BY <2>4, <2>5 DEF Acknowledging
<1>3. CASE UNCHANGED vars
  BY <1>3 DEF vars, memory, writing, clients, durable, Acknowledging, Objects, Savers,
              SentOnce, InLine, InDoubt, Sure, Stored
<1> QED BY <1>1, <1>2, <1>3

\* What the answers to updates rest on: a handler that awaits the write of its
\* update is in the line of writes once, and the write that runs for it has
\* taken the update, for any number of clients, edits, failures and evictions
\* (CRDTService.ts:785-831, SnapshotManager.ts:118-162).
THEOREM Answered == Spec => [](Documents /\ Acknowledging)
<1>1. Documents /\ Acknowledging /\ [Next]_vars => (Documents /\ Acknowledging)'
  BY EveryStep, AcknowledgingStep
<1> QED BY InitDocuments, InitAcknowledging, <1>1, PTL DEF Spec

\* CRDTService.ts answers crdt:persisted only for an update that is in a stored
\* version, as long as the document it was merged into is live and holds it.
THEOREM Acknowledged == Spec => AckedIsStored
<1> DEFINE Answers == \A c \in Clients :
      LET u == task[c].edit
      IN u \in acked' \ acked /\ task[c].obj = resident' /\ u \in Live' => u \in Stored'
<1>1. ASSUME Documents, Acknowledging, [Next]_vars
      PROVE  Answers
  <2>1. CASE \E d \in Clients : UpdateSaved(d)
    <3>1. SUFFICES ASSUME NEW c \in Clients, task[c].edit \in acked' \ acked,
                          task[c].obj = resident', task[c].edit \in Live'
                   PROVE  task[c].edit \in Stored'
      OBVIOUS
    <3>2. PICK d \in Clients : UpdateSaved(d)
      BY <2>1
    <3>3. /\ turn.who = d /\ turn.ok /\ task[d].op = "saving"
          /\ task[c].edit = task[d].edit
          /\ UNCHANGED <<states, resident, versions>>
      BY <3>1, <3>2 DEF UpdateSaved, memory
    <3>4. c = d
      BY <3>3, SaversSent, <1>1 DEF Acknowledging
    <3>5. ~InDoubt(d)
      BY <1>1, <3>3 DEF Acknowledging, Sure
    <3> QED BY <3>1, <3>3, <3>4, <3>5 DEF InDoubt, Live, Stored
  <2>2. CASE UNCHANGED acked
    BY <2>2
  <2>3. (\E d \in Clients : UpdateSaved(d)) \/ UNCHANGED acked
    <3>1. ASSUME NEW d \in Clients, Frame(d)
          PROVE  UpdateSaved(d) \/ UNCHANGED acked
      BY <3>1 DEF Frame, Continue, Subscribe, SubscribeDenied, Update, Subscribed, Revoked,
                  Apply, SaveVersion, Restore, Clear, BeginReset, Leave, VersionSaved,
                  LeaveSaved, Replace, ResetSaved
    <3>2. ASSUME NEW u \in PeerEdits, RemoteUpdate(u)
          PROVE  UNCHANGED acked
      BY <3>2 DEF RemoteUpdate
    <3>3. CASE LoadFailed \/ Restart
      BY <3>3 DEF LoadFailed, Restart
    <3>4. CASE UNCHANGED vars
      BY <3>4 DEF vars, clients
    <3>5. CASE LoadCached \/ LoadStored \/ IdleTimerFires \/ Evict \/ DeleteDocument
               \/ WriteStored \/ WriteFailed \/ WriteNothing \/ DebounceFires \/ Sweep
               \/ BackgroundSaved \/ CacheExpires
      BY <3>5 DEF LoadCached, LoadStored, IdleTimerFires, Evict, DeleteDocument, WriteStored,
                  WriteFailed, WriteNothing, DebounceFires, Sweep, BackgroundSaved,
                  CacheExpires, clients
    <3> QED BY <1>1, <3>1, <3>2, <3>3, <3>4, <3>5 DEF Next
  <2> QED BY <2>1, <2>2, <2>3
<1>2. Documents /\ Acknowledging /\ [Next]_vars => [Answers]_vars
  BY <1>1
<1> QED BY Answered, <1>2, PTL DEF Spec, AckedIsStored

=============================================================================
