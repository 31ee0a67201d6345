--------------------------- MODULE LocalRouterProofs ---------------------------
(***************************************************************************)
(* Proofs about LocalRouter, for any sets of clients, channels, contexts,  *)
(* tokens, admissions and frames.                                          *)
(***************************************************************************)
EXTENDS LocalRouter, TLAPS

-----------------------------------------------------------------------------
(* Type correctness.                                                       *)

LEMMA TypeInit == Init => TypeOK
BY DEF Init, TypeOK, Kinds

\* What a busy frame and a waiting recipient are.
LEMMA FrameShape ==
    ASSUME TypeOK, NEW f \in Frames, frame[f] # None
    PROVE  /\ frame[f] \in Frame
           /\ frame[f].to \in [Clients -> Recipient \cup {None}]
           /\ \A c \in Waiting(f) : c \in Clients /\ frame[f].to[c] \in Recipient
<1>1. frame[f] \in Frame
  BY DEF TypeOK
<1>2. frame[f].to \in [Clients -> Recipient \cup {None}]
  BY <1>1 DEF Frame
<1> QED
  BY <1>1, <1>2 DEF Waiting

LEMMA AdmissionShape ==
    ASSUME TypeOK, NEW a \in Admissions, admission[a] # None
    PROVE  /\ admission[a] \in Admission
           /\ admission[a].client \in Clients
           /\ admission[a].channel \in Channels
<1>1. admission[a] \in Admission
  BY DEF TypeOK
<1> QED
  BY <1>1 DEF Admission

LEMMA SkipType ==
    ASSUME TypeOK, NEW f \in Frames, NEW c \in Clients, frame[f] # None
    PROVE  Skip(f, c) \in [Frames -> Frame \cup {None}]
<1> DEFINE to == [frame[f].to EXCEPT ![c] = None]
<1>1. to \in [Clients -> Recipient \cup {None}]
  BY FrameShape
<1>2. [frame[f] EXCEPT !.to = to] \in Frame
  <2> HIDE DEF to
  <2> QED
    BY <1>1, FrameShape DEF Frame
<1>3. [frame EXCEPT ![f].to = to] \in [Frames -> Frame \cup {None}]
  <2> HIDE DEF to
  <2> QED
    BY <1>2 DEF TypeOK
<1>4. [frame EXCEPT ![f] = None] \in [Frames -> Frame \cup {None}]
  BY DEF TypeOK
<1> QED
  BY <1>3, <1>4 DEF Skip, Settle

\* Moving one recipient to a later stage.
LEMMA StageType ==
    ASSUME TypeOK, NEW f \in Frames, NEW c \in Waiting(f), frame[f] # None,
           NEW s \in {"allowed", "filtering"}
    PROVE  [frame EXCEPT ![f].to[c].stage = s] \in [Frames -> Frame \cup {None}]
<1>1. c \in Clients /\ frame[f].to[c] \in Recipient
  BY FrameShape
<1>2. [frame[f].to[c] EXCEPT !.stage = s] \in Recipient
  BY <1>1 DEF Recipient
<1> DEFINE to == [frame[f].to EXCEPT ![c] = [frame[f].to[c] EXCEPT !.stage = s]]
<1>3. to \in [Clients -> Recipient \cup {None}]
  BY <1>1, <1>2, FrameShape
<1>4. [frame[f] EXCEPT !.to = to] \in Frame
  <2> HIDE DEF to
  <2> QED
    BY <1>3, FrameShape DEF Frame
<1>5. [frame EXCEPT ![f].to[c].stage = s] = [frame EXCEPT ![f] = [frame[f] EXCEPT !.to = to]]
  OBVIOUS
<1> QED
  BY <1>4, <1>5 DEF TypeOK

LEMMA CaptureType ==
    ASSUME TypeOK, NEW f \in Frames, NEW h \in Channels, NEW p \in Clients \cup {Server},
           NEW x \in Ctxs \cup {NoCtx}, Capture(f, h, p, x)
    PROVE  /\ frame' \in [Frames -> Frame \cup {None}]
           /\ lapsed' \in [Frames -> SUBSET Clients]
           /\ allowed' \in [Frames -> SUBSET Clients]
           /\ got' \in [Frames -> SUBSET Clients]
<1>1. Recipients(h) \in [Clients -> Recipient \cup {None}]
  BY DEF Recipients, Recipient, TypeOK
<1>2. [stage |-> "sending", channel |-> h, publisher |-> p, ctx |-> x,
       to |-> Recipients(h)] \in Frame
  BY <1>1 DEF Frame
<1>3. frame' \in [Frames -> Frame \cup {None}]
  BY <1>2 DEF Capture, TypeOK
<1> QED
  BY <1>3 DEF Capture, TypeOK, AllowedNow

LEMMA LapseType ==
    ASSUME TypeOK, NEW ps, Lapse(ps)
    PROVE  lapsed' \in [Frames -> SUBSET Clients]
BY DEF Lapse, TypeOK, Waiting

LEMMA AddType ==
    ASSUME TypeOK, NEW c \in Clients, NEW h \in Channels, Add(c, h)
    PROVE  /\ members' \in [Channels -> SUBSET Clients]
           /\ joined' \in [Clients -> SUBSET Channels]
           /\ token' \in [Channels -> [Clients -> Tokens \cup {NoToken}]]
           /\ lapsed' \in [Frames -> SUBSET Clients]
BY LapseType DEF Add, TypeOK

LEMMA DropType ==
    ASSUME TypeOK, NEW c \in Clients, NEW hs, Drop(c, hs)
    PROVE  /\ members' \in [Channels -> SUBSET Clients]
           /\ joined' \in [Clients -> SUBSET Channels]
           /\ token' \in [Channels -> [Clients -> Tokens \cup {NoToken}]]
BY DEF Drop, TypeOK

LEMMA CancelType ==
    ASSUME TypeOK, NEW c, NEW hs, Cancel(c, hs)
    PROVE  admission' \in [Admissions -> Admission \cup {None}]
<1>1. ASSUME NEW a \in Admissions, admission[a] # None
      PROVE  [admission[a] EXCEPT !.cancelled = TRUE] \in Admission
  BY <1>1, AdmissionShape DEF Admission
<1> QED
  BY <1>1 DEF Cancel, TypeOK

LEMMA TypeStep == TypeOK /\ [Next]_vars => TypeOK'
<1> SUFFICES ASSUME TypeOK, [Next]_vars PROVE TypeOK'
  OBVIOUS
<1> USE DEF mirrors, wire, history
<1>1. ASSUME NEW c \in Clients, NEW h \in Channels, SubscribeNow(c, h) PROVE TypeOK'
  BY <1>1, AddType DEF SubscribeNow, TypeOK
<1>2. ASSUME NEW a \in Admissions, NEW c \in Clients, NEW h \in Channels, Subscribe(a, c, h)
      PROVE  TypeOK'
  <2>1. [stage |-> "asked", client |-> c, channel |-> h, ctx |-> ctx[c], cancelled |-> FALSE]
          \in Admission
    BY DEF TypeOK, Admission
  <2> QED
    BY <1>2, <2>1 DEF Subscribe, TypeOK
<1>3. ASSUME NEW c \in Clients, NEW h \in Channels, Unsubscribe(c, h) PROVE TypeOK'
  BY <1>3, CancelType, DropType, LapseType DEF Unsubscribe, TypeOK
<1>4. ASSUME NEW f \in Frames, NEW h \in Channels, NEW c \in Clients, SendFromClient(f, h, c)
      PROVE  TypeOK'
  <2>1. [stage |-> "publishing", channel |-> h, publisher |-> c, ctx |-> ctx[c],
         to |-> [d \in Clients |-> None]] \in Frame
    BY DEF TypeOK, Frame
  <2> QED
    BY <1>4, <2>1 DEF SendFromClient, TypeOK
<1>5. ASSUME NEW k \in Kinds, NEW c \in Clients, NEW h \in Channels, Grant(k, c, h) PROVE TypeOK'
  <2>1. allowed' \in [Frames -> SUBSET Clients]
    BY <1>5 DEF Grant, TypeOK
  <2>2. may' \subseteq Kinds \X Clients \X Channels
    BY <1>5 DEF Grant, TypeOK
  <2> QED
    BY <1>5, <2>1, <2>2 DEF Grant, TypeOK
<1>6. ASSUME NEW k \in Kinds, NEW c \in Clients, NEW h \in Channels, Revoke(k, c, h) PROVE TypeOK'
  BY <1>6 DEF Revoke, TypeOK
<1>7. ASSUME NEW a \in Admissions, HostRefuses(a) PROVE TypeOK'
  BY <1>7 DEF HostRefuses, TypeOK
<1>8. ASSUME NEW a \in Admissions, HostAdmits(a) PROVE TypeOK'
  <2>1. [admission[a] EXCEPT !.stage = "allowed"] \in Admission
    BY <1>8, AdmissionShape DEF HostAdmits, Admission
  <2> QED
    BY <1>8, <2>1 DEF HostAdmits, TypeOK
<1>9. ASSUME NEW a \in Admissions, Admit(a) PROVE TypeOK'
  <2>1. admission[a].client \in Clients /\ admission[a].channel \in Channels
    BY <1>9, AdmissionShape DEF Admit
  <2>2. admission' \in [Admissions -> Admission \cup {None}]
    BY <1>9 DEF Admit, TypeOK
  <2>3. CASE Add(admission[a].client, admission[a].channel)
    BY <1>9, <2>1, <2>2, <2>3, AddType DEF Admit, TypeOK
  <2>4. CASE UNCHANGED <<mirrors, lapsed>>
    BY <1>9, <2>2, <2>4 DEF Admit, TypeOK
  <2> QED
    BY <1>9, <2>3, <2>4 DEF Admit
<1>10. ASSUME NEW f \in Frames, NEW h \in Channels, SendFromServer(f, h) PROVE TypeOK'
  BY <1>10, CaptureType DEF SendFromServer, TypeOK
<1>11. ASSUME NEW f \in Frames, PublishRefused(f) PROVE TypeOK'
  BY <1>11 DEF PublishRefused, TypeOK
<1>12. ASSUME NEW f \in Frames, PublishAllowed(f) PROVE TypeOK'
  <2>1. /\ frame[f].channel \in Channels
        /\ frame[f].publisher \in Clients \cup {Server}
        /\ frame[f].ctx \in Ctxs \cup {NoCtx}
    BY <1>12, FrameShape DEF PublishAllowed, Frame
  <2>2. Capture(f, frame[f].channel, frame[f].publisher, frame[f].ctx)
    BY <1>12 DEF PublishAllowed
  <2> QED
    BY <1>12, <2>1, <2>2, CaptureType DEF PublishAllowed, TypeOK
<1>13. ASSUME NEW f \in Frames, NEW c \in Clients, RecipientRefused(f, c) PROVE TypeOK'
  BY <1>13, SkipType DEF RecipientRefused, Waiting, TypeOK
<1>14. ASSUME NEW f \in Frames, NEW c \in Clients, RecipientAllowed(f, c) PROVE TypeOK'
  <2>1. frame[f] # None
    BY <1>14 DEF RecipientAllowed, Waiting
  <2> QED
    BY <1>14, <2>1, StageType DEF RecipientAllowed, TypeOK
<1>15. ASSUME NEW f \in Frames, NEW c \in Clients,
              RecipientResumes(f, c) \/ FilterReturns(f, c)
       PROVE  TypeOK'
  <2>1. frame[f] # None /\ c \in Waiting(f)
    BY <1>15 DEF RecipientResumes, FilterReturns, Waiting
  <2>2. frame' \in [Frames -> Frame \cup {None}]
    <3>1. frame' = Skip(f, c) \/ frame' = [frame EXCEPT ![f].to[c].stage = "filtering"]
      BY <1>15 DEF RecipientResumes, FilterReturns, HandOver
    <3> QED
      BY <2>1, <3>1, SkipType, StageType
  <2>3. got' \in [Frames -> SUBSET Clients]
    BY <1>15 DEF RecipientResumes, FilterReturns, HandOver, TypeOK
  <2> QED
    BY <1>15, <2>2, <2>3 DEF RecipientResumes, FilterReturns, TypeOK
<1>16. ASSUME NEW c \in Clients, Connect(c) PROVE TypeOK'
  BY <1>16 DEF Connect, TypeOK
<1>17. ASSUME NEW c \in Clients, Close(c) PROVE TypeOK'
  BY <1>17, LapseType DEF Close, TypeOK
<1>18. ASSUME NEW c \in Clients, Drained(c) PROVE TypeOK'
  BY <1>18 DEF Drained, TypeOK
<1>19. ASSUME NEW c \in Clients, RemoveClient(c) PROVE TypeOK'
  BY <1>19, CancelType, DropType, LapseType DEF RemoveClient, TypeOK
<1>20. CASE UNCHANGED vars
  BY <1>20 DEF vars, TypeOK
<1> QED
  BY <1>1, <1>2, <1>3, <1>4, <1>5, <1>6, <1>7, <1>8, <1>9, <1>10, <1>11, <1>12,
     <1>13, <1>14, <1>15, <1>16, <1>17, <1>18, <1>19, <1>20 DEF Next

-----------------------------------------------------------------------------
(* The mirrors agree, and frames reach unbroken subscriptions only.        *)

LEMMA AddMirrors ==
    ASSUME TypeOK, MirrorsAgree, RouterAssumption,
           NEW c \in Clients, NEW h \in Channels, Add(c, h)
    PROVE  MirrorsAgree'
BY DEF Add, MirrorsAgree, TypeOK, RouterAssumption

LEMMA DropMirrors ==
    ASSUME TypeOK, MirrorsAgree, NEW c \in Clients, NEW hs, Drop(c, hs)
    PROVE  MirrorsAgree'
BY DEF Drop, MirrorsAgree, TypeOK

\* A step that leaves frames and what they got alone, lapses some
\* subscriptions and may end contexts or renew tokens keeps the fences shut:
\* what lapses now fails a fence, and what lapsed before still does.
LEMMA FencesHold ==
    ASSUME DeliveryInv, NEW ps, Lapse(ps), UNCHANGED <<frame, got>>,
           \A f \in Busy : \A c \in Waiting(f) :
             LET to == frame[f].to[c]
                 h  == frame[f].channel
             IN  /\ ctx'[c] # ctx[c] => ctx'[c] = NoCtx \/ ctx'[c] # to.ctx
                 /\ token'[h][c] # token[h][c] => token'[h][c] # to.token
                 /\ <<c, h>> \in ps => \/ ctx'[c] = NoCtx
                                      \/ token'[h][c] # to.token
    PROVE  LapsedCannotPass' /\ DeliveredToUnbroken'
<1>1. Busy' = Busy /\ \A f \in Frames : Waiting(f)' = Waiting(f)
  BY DEF Busy, Waiting
<1>2. \A f \in Frames : lapsed'[f] = lapsed[f] \cup {c \in Waiting(f) : <<c, frame[f].channel>> \in ps}
  BY DEF Lapse
<1>3. ASSUME NEW f \in Busy, NEW c \in Waiting(f)
      PROVE  /\ frame[f].to[c].token # NoToken
             /\ c \notin got[f]
             /\ c \in lapsed'[f] => \/ ctx'[c] = NoCtx
                                   \/ ctx'[c] # frame[f].to[c].ctx
                                   \/ token'[frame[f].channel][c] # frame[f].to[c].token
  <2>1. f \in Frames
    BY DEF Busy
  <2>2. /\ frame[f].to[c].token # NoToken
        /\ c \notin got[f]
        /\ c \in lapsed[f] => \/ ctx[c] = NoCtx
                             \/ ctx[c] # frame[f].to[c].ctx
                             \/ token[frame[f].channel][c] # frame[f].to[c].token
    BY DEF DeliveryInv, LapsedCannotPass
  <2>3. /\ ctx'[c] # ctx[c] => ctx'[c] = NoCtx \/ ctx'[c] # frame[f].to[c].ctx
        /\ token'[frame[f].channel][c] # token[frame[f].channel][c]
             => token'[frame[f].channel][c] # frame[f].to[c].token
        /\ <<c, frame[f].channel>> \in ps
             => ctx'[c] = NoCtx \/ token'[frame[f].channel][c] # frame[f].to[c].token
    OBVIOUS
  <2>4. c \in lapsed'[f] => c \in lapsed[f] \/ <<c, frame[f].channel>> \in ps
    BY <1>2, <2>1
  <2> QED
    BY <2>2, <2>3, <2>4
<1>4. LapsedCannotPass'
  <2> SUFFICES ASSUME NEW f \in Busy', NEW c \in Waiting(f)'
               PROVE  /\ frame'[f].to[c].token # NoToken
                      /\ c \notin got'[f]
                      /\ c \in lapsed'[f] => \/ ctx'[c] = NoCtx
                                            \/ ctx'[c] # frame'[f].to[c].ctx
                                            \/ token'[frame'[f].channel][c] # frame'[f].to[c].token
    BY DEF LapsedCannotPass
  <2>1. f \in Busy /\ c \in Waiting(f)
    BY <1>1 DEF Busy
  <2> QED
    BY <1>3, <2>1
<1>5. ASSUME NEW f \in Frames PROVE got'[f] \cap lapsed'[f] = {}
  <2>1. got[f] \cap lapsed[f] = {}
    BY DEF DeliveryInv, DeliveredToUnbroken
  <2>2. Waiting(f) \cap got[f] = {}
    BY <1>3 DEF Waiting, Busy
  <2> QED
    BY <1>2, <2>1, <2>2
<1> QED
  BY <1>4, <1>5 DEF DeliveredToUnbroken

\* A step that renews no token and no context and lapses nothing, under
\* which a frame's recipients only become fewer or come with their channel,
\* context and token, and only recipients done with get the frame.
LEMMA FramesAdvance ==
    ASSUME DeliveryInv, UNCHANGED <<ctx, token, lapsed>>,
           NEW f \in Frames, \A g \in Frames \ {f} : frame'[g] = frame[g] /\ got'[g] = got[g],
           Waiting(f)' \subseteq Waiting(f),
           frame'[f] # None => frame[f] # None /\ frame'[f].channel = frame[f].channel,
           \A c \in Waiting(f)' : /\ frame'[f].to[c].ctx = frame[f].to[c].ctx
                                 /\ frame'[f].to[c].token = frame[f].to[c].token,
           \A c \in got'[f] : c \in got[f] \/ (c \notin Waiting(f)' /\ c \notin lapsed[f]),
           \A c \in Waiting(f)' : c \notin got'[f]
    PROVE  LapsedCannotPass' /\ DeliveredToUnbroken'
<1>1. ASSUME NEW g \in Busy', NEW c \in Waiting(g)'
      PROVE  /\ frame'[g].to[c].token # NoToken
             /\ c \notin got'[g]
             /\ c \in lapsed'[g] => \/ ctx'[c] = NoCtx
                                   \/ ctx'[c] # frame'[g].to[c].ctx
                                   \/ token'[frame'[g].channel][c] # frame'[g].to[c].token
  <2>1. g \in Frames
    BY DEF Busy
  <2>2. g \in Busy /\ c \in Waiting(g)
    BY <1>1, <2>1 DEF Busy, Waiting
  <2>3. /\ frame'[g].to[c].token = frame[g].to[c].token
        /\ frame'[g].to[c].ctx = frame[g].to[c].ctx
        /\ frame'[g].channel = frame[g].channel
    BY <1>1, <2>1 DEF Busy
  <2>4. c \notin got'[g]
    BY <1>1, <2>1, <2>2 DEF DeliveryInv, LapsedCannotPass
  <2> QED
    BY <2>2, <2>3, <2>4 DEF DeliveryInv, LapsedCannotPass
<1>2. \A g \in Frames : got'[g] \cap lapsed'[g] = {}
  BY DEF DeliveryInv, DeliveredToUnbroken
<1> QED
  BY <1>1, <1>2 DEF LapsedCannotPass, DeliveredToUnbroken

\* Taking the recipients of a frame starts a new history for it.
LEMMA CaptureFences ==
    ASSUME DeliveryInv, RouterAssumption, UNCHANGED <<ctx, token>>,
           NEW f \in Frames, NEW h \in Channels, NEW p \in Clients \cup {Server},
           NEW x \in Ctxs \cup {NoCtx}, Capture(f, h, p, x)
    PROVE  LapsedCannotPass' /\ DeliveredToUnbroken'
<1>1. /\ lapsed' = [lapsed EXCEPT ![f] = {}]
      /\ got' = [got EXCEPT ![f] = {}]
  BY DEF Capture
<1>t. TypeOK /\ MirrorsAgree
  BY DEF DeliveryInv
<1>2. \A g \in Frames \ {f} : frame'[g] = frame[g] /\ lapsed'[g] = lapsed[g] /\ got'[g] = got[g]
  BY <1>1, <1>t DEF Capture, TypeOK
<1>3. lapsed'[f] = {} /\ got'[f] = {}
  BY <1>1, <1>t DEF TypeOK
<1>4. ASSUME NEW c \in Waiting(f)' PROVE frame'[f].to[c].token # NoToken
  <2>1. frame'[f].to = Recipients(h) /\ frame'[f].to[c] # None
    BY <1>t DEF Waiting, Capture, TypeOK
  <2>2. c \in Clients
    BY DEF Waiting
  <2>3. c \in members[h] /\ frame'[f].to[c].token = token[h][c]
    BY <2>1, <2>2 DEF Recipients
  <2> QED
    BY <2>2, <2>3, <1>t DEF MirrorsAgree
<1>5. ASSUME NEW g \in Busy', NEW c \in Waiting(g)'
      PROVE  /\ frame'[g].to[c].token # NoToken
             /\ c \notin got'[g]
             /\ c \in lapsed'[g] => \/ ctx'[c] = NoCtx
                                   \/ ctx'[c] # frame'[g].to[c].ctx
                                   \/ token'[frame'[g].channel][c] # frame'[g].to[c].token
  <2>1. CASE g = f
    BY <1>3, <1>4, <2>1
  <2>2. CASE g # f
    <3>1. g \in Frames
      BY DEF Busy
    <3>2. g \in Busy /\ c \in Waiting(g)
      BY <1>2, <2>2, <3>1 DEF Busy, Waiting
    <3> QED
      BY <1>2, <2>2, <3>1, <3>2 DEF DeliveryInv, LapsedCannotPass
  <2> QED
    BY <2>1, <2>2
<1>6. \A g \in Frames : got'[g] \cap lapsed'[g] = {}
  BY <1>2, <1>3 DEF DeliveryInv, DeliveredToUnbroken
<1> QED
  BY <1>5, <1>6 DEF LapsedCannotPass, DeliveredToUnbroken
LEMMA DeliveryStep == DeliveryInv /\ [Next]_vars => DeliveryInv'
<1> USE RouterAssumption
<1> SUFFICES ASSUME DeliveryInv, [Next]_vars PROVE DeliveryInv'
  OBVIOUS
<1>t. TypeOK /\ TypeOK' /\ MirrorsAgree /\ LapsedCannotPass /\ DeliveredToUnbroken
  BY TypeStep DEF DeliveryInv
<1>w. \A f \in Busy : \A c \in Waiting(f) :
        /\ f \in Frames /\ c \in Clients
        /\ frame[f].channel \in Channels
        /\ frame[f].to[c].ctx \in Ctxs \cup {NoCtx}
        /\ frame[f].to[c].token # NoToken
        /\ c \notin got[f]
  BY <1>t, FrameShape DEF Busy, Frame, Recipient, LapsedCannotPass
<1>m. ASSUME UNCHANGED mirrors PROVE MirrorsAgree'
  BY <1>t, <1>m DEF mirrors, MirrorsAgree
\* Renewing or dropping a token.
<1>add. ASSUME NEW c \in Clients, NEW h \in Channels, Add(c, h), UNCHANGED <<frame, ctx, got>>
        PROVE  MirrorsAgree' /\ LapsedCannotPass' /\ DeliveredToUnbroken'
  <2>1. PICK t \in Tokens : ~TokenInUse(t) /\ token' = [token EXCEPT ![h][c] = t]
    BY <1>add DEF Add
  <2>2. \A f \in Busy : \A d \in Waiting(f) :
          LET to == frame[f].to[d]
              k  == frame[f].channel
          IN  /\ token'[k][d] # token[k][d] => token'[k][d] # to.token
              /\ <<d, k>> \in {<<c, h>>} => token'[k][d] # to.token
    BY <1>t, <1>w, <2>1 DEF TypeOK, TokenInUse
  <2>3. Lapse({<<c, h>>})
    BY <1>add DEF Add
  <2> QED
    BY <1>add, <1>t, <2>2, <2>3, AddMirrors, FencesHold
<1>drop. ASSUME NEW c \in Clients, NEW hs, NEW ps, Drop(c, hs), Lapse(ps),
                \A p \in ps : p[1] = c /\ (p[2] \in Channels \ hs => token[p[2]][c] = NoToken),
                UNCHANGED <<frame, ctx, got>>
         PROVE  MirrorsAgree' /\ LapsedCannotPass' /\ DeliveredToUnbroken'
  <2>1. \A d \in Clients, h \in Channels :
          token'[h][d] = IF d = c /\ h \in hs THEN NoToken ELSE token[h][d]
    BY <1>t, <1>drop DEF Drop, TypeOK
  <2>2. \A f \in Busy : \A d \in Waiting(f) :
          LET to == frame[f].to[d]
              k  == frame[f].channel
          IN  /\ token'[k][d] # token[k][d] => token'[k][d] # to.token
              /\ <<d, k>> \in ps => token'[k][d] # to.token
    BY <1>w, <1>drop, <2>1
  <2> QED
    BY <1>t, <1>drop, <2>2, DropMirrors, FencesHold
<1>1. ASSUME NEW c \in Clients, NEW h \in Channels, SubscribeNow(c, h) PROVE DeliveryInv'
  BY <1>t, <1>1, <1>add DEF SubscribeNow, wire, DeliveryInv
<1>3. ASSUME NEW c \in Clients, NEW h \in Channels, Unsubscribe(c, h) PROVE DeliveryInv'
  BY <1>t, <1>3, <1>drop DEF Unsubscribe, wire, DeliveryInv
<1>19. ASSUME NEW c \in Clients, RemoveClient(c) PROVE DeliveryInv'
  <2>1. \A p \in {c} \X Channels :
          p[1] = c /\ (p[2] \in Channels \ joined[c] => token[p[2]][c] = NoToken)
    BY <1>t DEF MirrorsAgree
  <2>2. Drop(c, joined[c]) /\ Lapse({c} \X Channels) /\ UNCHANGED <<frame, ctx, got>>
    BY <1>19 DEF RemoveClient
  <2> QED
    BY <1>t, <1>drop, <2>1, <2>2 DEF DeliveryInv
<1>9. ASSUME NEW a \in Admissions, Admit(a) PROVE DeliveryInv'
  <2>1. admission[a].client \in Clients /\ admission[a].channel \in Channels
    BY <1>9, <1>t, AdmissionShape DEF Admit
  <2>2. CASE Add(admission[a].client, admission[a].channel)
    BY <1>t, <1>9, <2>1, <2>2, <1>add DEF Admit, wire, DeliveryInv
  <2>3. CASE UNCHANGED <<mirrors, lapsed>>
    BY <1>t, <1>9, <1>m, <2>3
    DEF Admit, wire, mirrors, DeliveryInv, LapsedCannotPass, DeliveredToUnbroken, Busy, Waiting
  <2> QED
    BY <1>9, <2>2, <2>3 DEF Admit
\* Steps of one frame.
<1>frame. ASSUME NEW f \in Frames, NEW c \in Clients, c \in Waiting(f),
                 \/ frame' = Skip(f, c)
                 \/ \E s \in {"allowed", "filtering"} :
                      frame' = [frame EXCEPT ![f].to[c].stage = s],
                 \/ got' = got
                 \/ /\ frame' = Skip(f, c) /\ Current(f, c)
                    /\ got' = [got EXCEPT ![f] = IF ctx[c] = NoCtx THEN @ ELSE @ \cup {c}],
                 UNCHANGED <<mirrors, ctx, lapsed>>
          PROVE  DeliveryInv'
  <2>b. frame[f] # None /\ f \in Busy
    BY <1>frame DEF Waiting, Busy
  <2>s. /\ frame[f] \in Frame
        /\ frame[f].to \in [Clients -> Recipient \cup {None}]
        /\ frame[f].to[c] \in Recipient
    BY <1>t, <1>frame, <2>b, FrameShape
  <2>1. \A g \in Frames \ {f} : frame'[g] = frame[g] /\ got'[g] = got[g]
    BY <1>t, <1>frame DEF Skip, Settle, TypeOK
  <2>2. CASE frame' = Skip(f, c)
    <3>1. \/ frame'[f] = None
          \/ /\ frame'[f].to = [frame[f].to EXCEPT ![c] = None]
             /\ frame'[f].channel = frame[f].channel
      BY <1>t, <2>2, <2>s DEF Skip, Settle, TypeOK, Frame
    <3>2. Waiting(f)' \subseteq Waiting(f) \ {c}
      BY <2>s, <3>1, <2>b DEF Waiting
    <3>3. \A d \in Waiting(f)' : frame'[f].to[d] = frame[f].to[d]
      BY <2>s, <3>1, <3>2 DEF Waiting
    <3>4. \A d \in got'[f] : d \in got[f] \/ (d = c /\ Current(f, c) /\ ctx[c] # NoCtx)
      BY <1>t, <1>frame DEF TypeOK
    <3>5. Current(f, c) /\ ctx[c] # NoCtx => c \notin lapsed[f]
      BY <1>t, <1>frame, <2>b DEF Current, LapsedCannotPass
    <3>6. \A d \in Waiting(f)' : d \notin got'[f]
      BY <1>w, <2>b, <3>2, <3>4
    <3>7. LapsedCannotPass' /\ DeliveredToUnbroken'
      BY <1>t, <1>frame, <2>1, <2>b, <3>1, <3>2, <3>3, <3>4, <3>5, <3>6, FramesAdvance DEF mirrors
    <3> QED
      BY <1>t, <1>frame, <1>m, <3>7 DEF DeliveryInv
  <2>3. ASSUME NEW s \in {"allowed", "filtering"},
               frame' = [frame EXCEPT ![f].to[c].stage = s], got' = got
        PROVE  DeliveryInv'
    <3>1. /\ frame'[f].to = [frame[f].to EXCEPT ![c] = [frame[f].to[c] EXCEPT !.stage = s]]
          /\ frame'[f].channel = frame[f].channel
          /\ frame'[f] # None
      BY <1>t, <2>3, <2>s DEF TypeOK, Frame, None
    <3>2. [frame[f].to[c] EXCEPT !.stage = s] \in Recipient
          /\ [frame[f].to[c] EXCEPT !.stage = s].ctx = frame[f].to[c].ctx
          /\ [frame[f].to[c] EXCEPT !.stage = s].token = frame[f].to[c].token
      BY <2>s DEF Recipient
    <3>3. Waiting(f)' \subseteq Waiting(f)
      BY <1>frame, <2>s, <2>b, <3>1 DEF Waiting
    <3>4. \A d \in Waiting(f)' : /\ frame'[f].to[d].ctx = frame[f].to[d].ctx
                                /\ frame'[f].to[d].token = frame[f].to[d].token
      BY <2>s, <3>1, <3>2 DEF Waiting
    <3>5. \A d \in Waiting(f)' : d \notin got'[f]
      BY <1>w, <2>b, <2>3, <3>3
    <3>6. LapsedCannotPass' /\ DeliveredToUnbroken'
      BY <1>t, <1>frame, <2>1, <2>3, <2>b, <3>1, <3>3, <3>4, <3>5, FramesAdvance DEF mirrors
    <3> QED
      BY <1>t, <1>frame, <1>m, <3>6 DEF DeliveryInv
  <2> QED
    BY <1>frame, <2>2, <2>3
<1>13. ASSUME NEW f \in Frames, NEW c \in Clients,
              RecipientRefused(f, c) \/ RecipientAllowed(f, c) \/ RecipientResumes(f, c) \/ FilterReturns(f, c)
       PROVE  DeliveryInv'
  BY <1>13, <1>frame
  DEF RecipientRefused, RecipientAllowed, RecipientResumes, FilterReturns, HandOver, wire, history
<1>gone. ASSUME NEW f \in Frames, frame' = [frame EXCEPT ![f] = None],
                UNCHANGED <<mirrors, ctx, lapsed, got>>
         PROVE  DeliveryInv'
  <2>1. Waiting(f)' = {} /\ frame'[f] = None
    BY <1>t, <1>gone DEF Waiting, TypeOK
  <2>2. LapsedCannotPass' /\ DeliveredToUnbroken'
    BY <1>t, <1>gone, <2>1, FramesAdvance DEF mirrors, TypeOK
  <2> QED
    BY <1>t, <1>gone, <1>m, <2>2 DEF DeliveryInv
<1>11. ASSUME NEW f \in Frames, PublishRefused(f) PROVE DeliveryInv'
  BY <1>11, <1>gone DEF PublishRefused, wire, history
<1>4. ASSUME NEW f \in Frames, NEW h \in Channels, NEW c \in Clients, SendFromClient(f, h, c)
      PROVE  DeliveryInv'
  <2>1. Waiting(f)' = {}
    BY <1>t, <1>4 DEF SendFromClient, Waiting, TypeOK
  <2>2. \A g \in Busy' : \A d \in Waiting(g)' : g \in Busy /\ d \in Waiting(g) /\ frame'[g] = frame[g]
    BY <1>t, <1>4, <2>1 DEF SendFromClient, Waiting, Busy, TypeOK
  <2>3. LapsedCannotPass' /\ DeliveredToUnbroken'
    BY <1>t, <1>4, <2>2 DEF SendFromClient, wire, history, mirrors, LapsedCannotPass, DeliveredToUnbroken
  <2> QED
    BY <1>t, <1>4, <1>m, <2>3 DEF DeliveryInv, SendFromClient
<1>10. ASSUME NEW f \in Frames, NEW h \in Channels, SendFromServer(f, h) PROVE DeliveryInv'
  BY <1>t, <1>10, <1>m, CaptureFences DEF SendFromServer, DeliveryInv, mirrors, wire
<1>12. ASSUME NEW f \in Frames, PublishAllowed(f) PROVE DeliveryInv'
  <2>1. /\ frame[f].channel \in Channels
        /\ frame[f].publisher \in Clients \cup {Server}
        /\ frame[f].ctx \in Ctxs \cup {NoCtx}
    BY <1>t, <1>12, FrameShape DEF PublishAllowed, Frame
  <2>2. Capture(f, frame[f].channel, frame[f].publisher, frame[f].ctx)
    BY <1>12 DEF PublishAllowed
  <2> QED
    BY <1>t, <1>12, <1>m, <2>1, <2>2, CaptureFences DEF PublishAllowed, DeliveryInv, mirrors, wire
\* Connections.
<1>16. ASSUME NEW c \in Clients, Connect(c) PROVE DeliveryInv'
  <2>1. PICK x \in Ctxs : ~CtxInUse(x) /\ ctx' = [ctx EXCEPT ![c] = x]
    BY <1>16 DEF Connect
  <2>2. \A f \in Busy : \A d \in Waiting(f) : ctx'[d] # ctx[d] => ctx'[d] # frame[f].to[d].ctx
    BY <1>t, <1>w, <2>1 DEF TypeOK, CtxInUse
  <2>3. Lapse({})
    BY <1>t, <1>16 DEF Connect, Lapse, history, TypeOK
  <2>4. LapsedCannotPass' /\ DeliveredToUnbroken'
    BY <1>16, <2>2, <2>3, FencesHold DEF Connect, history, mirrors
  <2> QED
    BY <1>t, <1>16, <1>m, <2>4 DEF Connect, DeliveryInv
<1>17. ASSUME NEW c \in Clients, Close(c) PROVE DeliveryInv'
  <2>1. \A f \in Busy : \A d \in Waiting(f) :
          /\ ctx'[d] # ctx[d] => ctx'[d] = NoCtx
          /\ <<d, frame[f].channel>> \in {c} \X Channels => ctx'[d] = NoCtx
    BY <1>t, <1>w, <1>17 DEF Close, TypeOK
  <2>2. LapsedCannotPass' /\ DeliveredToUnbroken'
    BY <1>17, <2>1, FencesHold DEF Close, mirrors
  <2> QED
    BY <1>t, <1>17, <1>m, <2>2 DEF Close, DeliveryInv
\* Steps that touch none of this.
<1>rest. ASSUME UNCHANGED <<mirrors, frame, ctx, lapsed, got>> PROVE DeliveryInv'
  BY <1>t, <1>rest, <1>m
  DEF DeliveryInv, LapsedCannotPass, DeliveredToUnbroken, Busy, Waiting, mirrors
<1> QED
  BY <1>1, <1>3, <1>4, <1>9, <1>10, <1>11, <1>12, <1>13, <1>16, <1>17, <1>19, <1>rest
  DEF Next, vars, wire, history, Subscribe, Grant, Revoke, HostRefuses, HostAdmits, Drained

\* The three membership maps always say the same.
THEOREM Mirrors == Spec => []MirrorsAgree
<1>1. Init => DeliveryInv
  BY TypeInit DEF Init, DeliveryInv, MirrorsAgree, LapsedCannotPass, DeliveredToUnbroken, Busy
<1>2. DeliveryInv => MirrorsAgree
  BY DEF DeliveryInv
<1> QED
  BY <1>1, <1>2, DeliveryStep, PTL DEF Spec

\* A channel frame only ever reaches a subscription that never lapsed since
\* the frame's fan-out took its recipients.
THEOREM Deliveries == Spec => []DeliveredToUnbroken
<1>1. Init => DeliveryInv
  BY TypeInit DEF Init, DeliveryInv, MirrorsAgree, LapsedCannotPass, DeliveredToUnbroken, Busy
<1>2. DeliveryInv => DeliveredToUnbroken
  BY DEF DeliveryInv
<1> QED
  BY <1>1, <1>2, DeliveryStep, PTL DEF Spec

-----------------------------------------------------------------------------
(* Membership is asked for.                                                *)

\* An admission nothing cancelled belongs to a subscribe since the client
\* last left the channel.
PendingAsked ==
    \A a \in Admissions : admission[a] # None /\ ~admission[a].cancelled =>
        <<admission[a].client, admission[a].channel>> \in asked

AskedInv == PendingAsked /\ MembersAsked

LEMMA AskedStep == TypeOK /\ MirrorsAgree /\ AskedInv /\ [Next]_vars => AskedInv'
<1>. SUFFICES ASSUME TypeOK, MirrorsAgree, AskedInv, [Next]_vars PROVE AskedInv'
  OBVIOUS
<1>. USE DEF AskedInv
<1>1. ASSUME NEW c \in Clients, NEW h \in Channels, SubscribeNow(c, h) PROVE AskedInv'
  <2>1. \A d \in Clients, k \in Channels : d \in members'[k] =>
          d \in members[k] \/ (d = c /\ k = h)
    BY <1>1 DEF SubscribeNow, Add, TypeOK
  <2> QED BY <1>1, <2>1 DEF SubscribeNow, PendingAsked, MembersAsked
<1>2. ASSUME NEW c \in Clients, NEW h \in Channels, NEW a \in Admissions, Subscribe(a, c, h)
      PROVE  AskedInv'
  <2>1. \A b \in Admissions : admission'[b] =
          IF b = a THEN [stage |-> "asked", client |-> c, channel |-> h, ctx |-> ctx[c],
                         cancelled |-> FALSE]
          ELSE admission[b]
    BY <1>2 DEF Subscribe, TypeOK
  <2>2. PendingAsked'
    BY <1>2, <2>1 DEF Subscribe, PendingAsked
  <2> QED BY <1>2, <2>2 DEF Subscribe, mirrors, MembersAsked
\* What leaving some channels does to the admissions and the members.
<1>leave. ASSUME NEW c \in Clients, NEW hs, Cancel(c, hs)
          PROVE  \A a \in Admissions : admission'[a] # None /\ ~admission'[a].cancelled =>
                   /\ admission[a] # None /\ ~admission[a].cancelled
                   /\ admission'[a] = admission[a]
                   /\ ~(admission[a].client = c /\ admission[a].channel \in hs)
  <2> SUFFICES ASSUME NEW a \in Admissions, admission'[a] # None, ~admission'[a].cancelled
               PROVE  /\ admission'[a] = admission[a]
                      /\ ~(admission[a].client = c /\ admission[a].channel \in hs)
    OBVIOUS
  <2>1. CASE admission[a] # None /\ admission[a].client = c /\ admission[a].channel \in hs
    <3>1. admission'[a] = [admission[a] EXCEPT !.cancelled = TRUE]
      BY <1>leave, <2>1 DEF Cancel
    <3>2. admission[a] \in Admission
      BY <2>1, AdmissionShape
    <3>3. admission'[a].cancelled = TRUE
      BY <3>1, <3>2 DEF Admission
    <3> QED BY <3>3
  <2>2. CASE ~(admission[a] # None /\ admission[a].client = c /\ admission[a].channel \in hs)
    <3>1. admission'[a] = admission[a]
      BY <1>leave, <2>2 DEF Cancel
    <3> QED BY <2>2, <3>1
  <2> QED BY <2>1, <2>2
<1>3. ASSUME NEW c \in Clients, NEW h \in Channels, Unsubscribe(c, h) PROVE AskedInv'
  <2>1. PendingAsked'
    BY <1>3, <1>leave DEF Unsubscribe, PendingAsked
  <2>2. \A d \in Clients, k \in Channels : d \in members'[k] =>
          d \in members[k] /\ ~(d = c /\ k = h)
    BY <1>3 DEF Unsubscribe, Drop
  <2>3. MembersAsked'
    BY <1>3, <2>2 DEF Unsubscribe, MembersAsked
  <2> QED BY <2>1, <2>3
<1>4. ASSUME NEW c \in Clients, RemoveClient(c) PROVE AskedInv'
  <2>1. PendingAsked'
    <3> SUFFICES ASSUME NEW a \in Admissions, admission'[a] # None, ~admission'[a].cancelled
                 PROVE  <<admission'[a].client, admission'[a].channel>> \in asked'
      BY DEF PendingAsked
    <3>1. /\ admission[a] # None /\ ~admission[a].cancelled /\ admission'[a] = admission[a]
          /\ ~(admission[a].client = c /\ admission[a].channel \in Channels)
      BY <1>4, <1>leave DEF RemoveClient
    <3>2. admission[a].channel \in Channels
      BY <3>1, AdmissionShape
    <3> QED BY <1>4, <3>1, <3>2 DEF RemoveClient, PendingAsked
  <2>2. \A d \in Clients, k \in Channels : d \in members'[k] => d \in members[k] /\ d # c
    BY <1>4 DEF RemoveClient, Drop, MirrorsAgree
  <2>3. MembersAsked'
    BY <1>4, <2>2 DEF RemoveClient, MembersAsked
  <2> QED BY <2>1, <2>3
<1>5. ASSUME NEW a \in Admissions, HostRefuses(a) \/ HostAdmits(a) PROVE AskedInv'
  <2>1. \A b \in Admissions : admission'[b] # None => admission[b] # None /\
          /\ admission'[b].cancelled = admission[b].cancelled
          /\ admission'[b].client = admission[b].client
          /\ admission'[b].channel = admission[b].channel
    <3>1. \A b \in Admissions \ {a} : admission'[b] = admission[b]
      BY <1>5 DEF HostRefuses, HostAdmits, TypeOK
    <3>2. CASE HostRefuses(a)
      BY <3>1, <3>2 DEF HostRefuses, TypeOK
    <3>3. CASE HostAdmits(a)
      <4>1. admission'[a] = [admission[a] EXCEPT !.stage = "allowed"] /\ admission[a] # None
        BY <3>3 DEF HostAdmits, TypeOK
      <4>2. admission[a] \in Admission
        BY <4>1, AdmissionShape
      <4> QED BY <3>1, <4>1, <4>2 DEF Admission
    <3> QED BY <1>5, <3>2, <3>3
  <2>2. PendingAsked'
    BY <1>5, <2>1 DEF HostRefuses, HostAdmits, history, PendingAsked
  <2> QED BY <1>5, <2>2 DEF HostRefuses, HostAdmits, history, mirrors, MembersAsked
<1>6. ASSUME NEW a \in Admissions, Admit(a) PROVE AskedInv'
  <2>1. \A b \in Admissions : admission'[b] # None => admission'[b] = admission[b]
    BY <1>6 DEF Admit, TypeOK
  <2>2. PendingAsked'
    BY <1>6, <2>1 DEF Admit, PendingAsked
  <2>3. CASE Admissible(admission[a])
    <3>1. <<admission[a].client, admission[a].channel>> \in asked
      BY <1>6, <2>3 DEF Admit, Admissible, PendingAsked
    <3>2. \A d \in Clients, k \in Channels : d \in members'[k] =>
            d \in members[k] \/ (d = admission[a].client /\ k = admission[a].channel)
      BY <1>6, <2>3 DEF Admit, Add, TypeOK
    <3> QED BY <1>6, <2>2, <3>1, <3>2 DEF Admit, MembersAsked
  <2>4. CASE ~Admissible(admission[a])
    BY <1>6, <2>2, <2>4 DEF Admit, mirrors, MembersAsked
  <2> QED BY <2>3, <2>4
<1>7. ASSUME UNCHANGED <<mirrors, admission, asked>> PROVE AskedInv'
  BY <1>7 DEF mirrors, PendingAsked, MembersAsked
<1>8. ASSUME NEW f \in Frames, NEW c \in Clients, NEW h \in Channels, SendFromClient(f, h, c)
      PROVE  AskedInv'
  BY <1>7, <1>8 DEF SendFromClient, history
<1>9. ASSUME NEW c \in Clients, Connect(c) \/ Close(c) \/ Drained(c) PROVE AskedInv'
  BY <1>7, <1>9 DEF Connect, Close, Drained, history
<1>10. ASSUME NEW k \in Kinds, NEW c \in Clients, NEW h \in Channels,
              Grant(k, c, h) \/ Revoke(k, c, h)
       PROVE  AskedInv'
  BY <1>7, <1>10 DEF Grant, Revoke, history
<1>11. ASSUME NEW f \in Frames, PublishRefused(f) \/ PublishAllowed(f) PROVE AskedInv'
  BY <1>7, <1>11 DEF PublishRefused, PublishAllowed, history
<1>12. ASSUME NEW f \in Frames, NEW h \in Channels, SendFromServer(f, h) PROVE AskedInv'
  BY <1>7, <1>12 DEF SendFromServer
<1>13. ASSUME NEW f \in Frames, NEW c \in Clients,
              \/ RecipientRefused(f, c) \/ RecipientAllowed(f, c)
              \/ RecipientResumes(f, c) \/ FilterReturns(f, c)
       PROVE  AskedInv'
  BY <1>7, <1>13 DEF RecipientRefused, RecipientAllowed, RecipientResumes, FilterReturns, history
<1>14. ASSUME UNCHANGED vars PROVE AskedInv'
  BY <1>7, <1>14 DEF vars, history
<1>15. CASE Next
  <2>1. ASSUME NEW c \in Clients, NEW h \in Channels,
               \/ SubscribeNow(c, h)
               \/ \E a \in Admissions : Subscribe(a, c, h)
               \/ Unsubscribe(c, h)
               \/ \E f \in Frames : SendFromClient(f, h, c)
               \/ \E k \in Kinds : Grant(k, c, h) \/ Revoke(k, c, h)
        PROVE  AskedInv'
    BY <2>1, <1>1, <1>2, <1>3, <1>8, <1>10
  <2>2. ASSUME NEW a \in Admissions, HostRefuses(a) \/ HostAdmits(a) \/ Admit(a) PROVE AskedInv'
    BY <2>2, <1>5, <1>6
  <2>3. ASSUME NEW f \in Frames,
               \/ \E h \in Channels : SendFromServer(f, h)
               \/ PublishRefused(f)
               \/ PublishAllowed(f)
               \/ \E c \in Clients :
                    \/ RecipientRefused(f, c)
                    \/ RecipientAllowed(f, c)
                    \/ RecipientResumes(f, c)
                    \/ FilterReturns(f, c)
        PROVE  AskedInv'
    BY <2>3, <1>11, <1>12, <1>13
  <2>4. ASSUME NEW c \in Clients, Connect(c) \/ Close(c) \/ Drained(c) \/ RemoveClient(c)
        PROVE  AskedInv'
    BY <2>4, <1>4, <1>9
  <2> QED BY <1>15, <2>1, <2>2, <2>3, <2>4 DEF Next
<1> QED BY <1>14, <1>15

LEMMA DeliveryKept == Spec => []DeliveryInv
<1>1. Init => DeliveryInv
  BY TypeInit DEF Init, DeliveryInv, MirrorsAgree, LapsedCannotPass, DeliveredToUnbroken, Busy
<1> QED BY <1>1, DeliveryStep, PTL DEF Spec

\* Leaving a channel, or the connection, ends every subscribe called before
\* it: no admission still waiting for the host makes the client a member.
THEOREM Asked == Spec => []MembersAsked
<1>1. Init => AskedInv
  BY DEF Init, AskedInv, PendingAsked, MembersAsked
<1>2. DeliveryInv => TypeOK /\ MirrorsAgree
  BY DEF DeliveryInv
<1>3. AskedInv => MembersAsked
  BY DEF AskedInv
<1> QED BY <1>1, <1>2, <1>3, AskedStep, DeliveryKept, PTL DEF Spec

-----------------------------------------------------------------------------
(* Delivery is allowed.                                                    *)

\* What the host allows now and whom it has said yes to are in the history
\* of a frame on its way; a frame not yet published has no recipient.
FrameAllowed(f) ==
    /\ frame[f].stage = "publishing" => Waiting(f) = {}
    /\ frame[f].stage = "sending" => AllowedNow(frame[f].channel) \subseteq allowed[f]
    /\ \A c \in Waiting(f) : frame[f].to[c].stage # "asked" => c \in allowed[f]

AllowedInv == \A f \in Frames : got[f] \subseteq allowed[f] /\ (f \in Busy => FrameAllowed(f))

\* Taking the recipients starts the history with whom the host allows now.
LEMMA CaptureAllows ==
  ASSUME TypeOK, AllowedInv, UNCHANGED may, NEW f \in Frames, NEW h \in Channels,
         NEW p \in Clients \cup {Server}, NEW x \in Ctxs \cup {NoCtx}, Capture(f, h, p, x)
  PROVE  AllowedInv'
<1>1. \A g \in Frames \ {f} : frame'[g] = frame[g] /\ allowed'[g] = allowed[g] /\ got'[g] = got[g]
  BY DEF Capture, TypeOK
<1>2. /\ got'[f] = {} /\ allowed'[f] = AllowedNow(h)
      /\ \/ frame'[f] = None
         \/ frame'[f] = [stage |-> "sending", channel |-> h, publisher |-> p, ctx |-> x,
                         to |-> Recipients(h)]
  BY DEF Capture, TypeOK
<1>3. ASSUME f \in Busy' PROVE FrameAllowed(f)'
  <2>1. /\ frame'[f].stage = "sending" /\ frame'[f].channel = h
        /\ frame'[f].to = Recipients(h)
    BY <1>2, <1>3 DEF Busy
  <2>2. \A c \in Clients : Recipients(h)[c] # None => Recipients(h)[c].stage = "asked"
    BY DEF Recipients
  <2> QED BY <1>2, <2>1, <2>2 DEF FrameAllowed, Waiting, AllowedNow
<1>4. \A g \in Frames \ {f} : g \in Busy' => FrameAllowed(g)'
  BY <1>1 DEF AllowedInv, FrameAllowed, Busy, Waiting, AllowedNow
<1> QED BY <1>1, <1>2, <1>3, <1>4 DEF AllowedInv

\* A recipient of one frame is dropped, or moves on, with the host's yes.
LEMMA RecipientAllows ==
  ASSUME TypeOK, AllowedInv, UNCHANGED <<may, allowed>>,
         NEW f \in Frames, NEW c \in Waiting(f),
         \/ frame' = Skip(f, c)
         \/ /\ c \in allowed[f]
            /\ \E s \in {"allowed", "filtering"} : frame' = [frame EXCEPT ![f].to[c].stage = s],
         \/ got' = got
         \/ c \in allowed[f] /\ got' = [got EXCEPT ![f] = IF ctx[c] = NoCtx THEN @ ELSE @ \cup {c}]
  PROVE  AllowedInv'
<1>b. /\ frame[f] # None /\ f \in Busy /\ c \in Clients
      /\ frame[f] \in Frame
      /\ frame[f].to \in [Clients -> Recipient \cup {None}]
      /\ frame[f].to[c] \in Recipient
  BY FrameShape DEF Waiting, Busy
<1>1. \A g \in Frames \ {f} : frame'[g] = frame[g]
  BY <1>b DEF Skip, Settle, TypeOK
<1>2. \A g \in Frames : got'[g] \subseteq allowed[g]
  BY DEF AllowedInv, TypeOK
<1>3. ASSUME f \in Busy'
      PROVE  /\ frame'[f].stage = frame[f].stage /\ frame'[f].channel = frame[f].channel
             /\ \A d \in Clients : frame'[f].to[d] # None =>
                  /\ frame[f].to[d] # None
                  /\ frame'[f].to[d].stage = frame[f].to[d].stage \/ d \in allowed[f]
  <2>1. CASE frame' = Skip(f, c)
    <3>1. \/ frame'[f] = None
          \/ /\ frame'[f].to = [frame[f].to EXCEPT ![c] = None]
             /\ frame'[f].channel = frame[f].channel
             /\ frame'[f].stage = frame[f].stage
      BY <2>1, <1>b DEF Skip, Settle, TypeOK, Frame
    <3> QED BY <3>1, <1>3, <1>b DEF Busy
  <2>2. ASSUME NEW s \in {"allowed", "filtering"}, c \in allowed[f],
               frame' = [frame EXCEPT ![f].to[c].stage = s]
        PROVE  /\ frame'[f].stage = frame[f].stage /\ frame'[f].channel = frame[f].channel
               /\ \A d \in Clients : frame'[f].to[d] # None =>
                    /\ frame[f].to[d] # None
                    /\ frame'[f].to[d].stage = frame[f].to[d].stage \/ d \in allowed[f]
    <3>1. /\ frame'[f].to = [frame[f].to EXCEPT ![c] = [frame[f].to[c] EXCEPT !.stage = s]]
          /\ frame'[f].channel = frame[f].channel
          /\ frame'[f].stage = frame[f].stage
      BY <2>2, <1>b DEF TypeOK, Frame
    <3>2. frame[f].to[c] # None
      BY DEF Waiting
    <3> QED BY <2>2, <3>1, <3>2, <1>b
  <2> QED BY <2>1, <2>2
<1>4. ASSUME f \in Busy' PROVE FrameAllowed(f)'
  <2>1. Waiting(f)' \subseteq Waiting(f)
    BY <1>3, <1>4, <1>b DEF Waiting
  <2>2. FrameAllowed(f)
    BY <1>b DEF AllowedInv
  <2>3. \A d \in Waiting(f)' : frame'[f].to[d].stage # "asked" => d \in allowed[f]
    BY <1>3, <1>4, <2>1, <2>2 DEF Waiting, FrameAllowed
  <2>4. AllowedNow(frame[f].channel)' = AllowedNow(frame[f].channel)
    BY <1>3, <1>4 DEF AllowedNow
  <2> QED BY <1>3, <1>4, <2>1, <2>2, <2>3, <2>4 DEF FrameAllowed
<1>5. \A g \in Frames \ {f} : g \in Busy' => FrameAllowed(g)'
  BY <1>1 DEF AllowedInv, FrameAllowed, Busy, Waiting, AllowedNow
<1> QED BY <1>2, <1>4, <1>5 DEF AllowedInv

\* A step that starts no fan-out and leaves the host's policy alone.
LEMMA FramesAllowed ==
  ASSUME AllowedInv, UNCHANGED <<may, allowed, got>>,
         \A f \in Frames : \/ frame'[f] = frame[f] \/ frame'[f] = None
                           \/ frame'[f].stage = "publishing" /\ Waiting(f)' = {}
  PROVE  AllowedInv'
<1> SUFFICES ASSUME NEW f \in Frames, f \in Busy' PROVE FrameAllowed(f)'
  BY DEF AllowedInv
<1>1. CASE frame'[f] = frame[f]
  BY <1>1 DEF AllowedInv, FrameAllowed, Busy, Waiting, AllowedNow
<1>2. CASE frame'[f].stage = "publishing" /\ Waiting(f)' = {}
  BY <1>2 DEF FrameAllowed
<1> QED BY <1>1, <1>2 DEF Busy

LEMMA AllowedStep == TypeOK /\ AllowedInv /\ [Next]_vars => AllowedInv'
<1>. SUFFICES ASSUME TypeOK, AllowedInv, [Next]_vars PROVE AllowedInv'
  OBVIOUS
<1>f. \A f \in Frames, c \in Clients : c \in Waiting(f) => f \in Busy
  BY DEF Waiting, Busy
<1>1. ASSUME UNCHANGED <<frame, may, allowed, got>> PROVE AllowedInv'
  BY <1>1, FramesAllowed
<1>2. ASSUME NEW c \in Clients, NEW h \in Channels, SubscribeNow(c, h) \/ Unsubscribe(c, h)
      PROVE  AllowedInv'
  BY <1>1, <1>2 DEF SubscribeNow, Unsubscribe
<1>3. ASSUME NEW c \in Clients, NEW h \in Channels, NEW a \in Admissions, Subscribe(a, c, h)
      PROVE  AllowedInv'
  BY <1>1, <1>3 DEF Subscribe
<1>4. ASSUME NEW a \in Admissions, HostRefuses(a) \/ HostAdmits(a) \/ Admit(a) PROVE AllowedInv'
  BY <1>1, <1>4 DEF HostRefuses, HostAdmits, Admit, history
<1>5. ASSUME NEW c \in Clients, Connect(c) \/ Close(c) \/ Drained(c) \/ RemoveClient(c)
      PROVE  AllowedInv'
  BY <1>1, <1>5 DEF Connect, Close, Drained, RemoveClient, history
<1>6. ASSUME NEW f \in Frames, NEW h \in Channels, NEW c \in Clients, SendFromClient(f, h, c)
      PROVE  AllowedInv'
  <2>1. \A g \in Frames : frame'[g] = IF g = f
          THEN [stage |-> "publishing", channel |-> h, publisher |-> c, ctx |-> ctx[c],
                to |-> [d \in Clients |-> None]]
          ELSE frame[g]
    BY <1>6 DEF SendFromClient, TypeOK
  <2>2. Waiting(f)' = {}
    BY <2>1 DEF Waiting
  <2> QED BY <1>6, <2>1, <2>2, FramesAllowed DEF SendFromClient, history
<1>7. ASSUME NEW f \in Frames, PublishRefused(f) PROVE AllowedInv'
  BY <1>7, FramesAllowed DEF PublishRefused, history, TypeOK
<1>8. ASSUME NEW f \in Frames, NEW h \in Channels, SendFromServer(f, h) PROVE AllowedInv'
  BY <1>8, CaptureAllows DEF SendFromServer
<1>9. ASSUME NEW f \in Frames, PublishAllowed(f) PROVE AllowedInv'
  <2>1. /\ frame[f].channel \in Channels
        /\ frame[f].publisher \in Clients \cup {Server}
        /\ frame[f].ctx \in Ctxs \cup {NoCtx}
    BY <1>9, FrameShape DEF PublishAllowed, Frame
  <2>2. Capture(f, frame[f].channel, frame[f].publisher, frame[f].ctx) /\ UNCHANGED may
    BY <1>9 DEF PublishAllowed
  <2> QED BY <2>1, <2>2, CaptureAllows
<1>10. ASSUME NEW f \in Frames, NEW c \in Clients,
              \/ RecipientRefused(f, c) \/ RecipientAllowed(f, c)
              \/ RecipientResumes(f, c) \/ FilterReturns(f, c)
       PROVE  AllowedInv'
  <2>1. c \in Waiting(f) /\ UNCHANGED <<may, allowed>>
    BY <1>10 DEF RecipientRefused, RecipientAllowed, RecipientResumes, FilterReturns, history
  <2>2. FrameAllowed(f)
    BY <1>f, <2>1 DEF AllowedInv
  <2>3. CASE RecipientRefused(f, c)
    BY <2>1, <2>3, RecipientAllows DEF RecipientRefused, history
  <2>4. CASE RecipientAllowed(f, c)
    <3>1. frame[f].stage = "sending"
      BY <1>f, <2>1, <2>2, FrameShape DEF FrameAllowed, Frame, Busy
    <3>2. c \in allowed[f]
      BY <2>2, <2>4, <3>1 DEF RecipientAllowed, HostSaysYes, FrameAllowed, AllowedNow
    <3> QED BY <2>1, <2>4, <3>2, RecipientAllows DEF RecipientAllowed, history
  <2>5. CASE RecipientResumes(f, c) \/ FilterReturns(f, c)
    <3>1. c \in allowed[f]
      BY <2>1, <2>2, <2>5 DEF RecipientResumes, FilterReturns, FrameAllowed
    <3> QED BY <2>1, <2>5, <3>1, RecipientAllows DEF RecipientResumes, FilterReturns, HandOver
  <2> QED BY <1>10, <2>3, <2>4, <2>5
<1>11. ASSUME NEW k \in Kinds, NEW c \in Clients, NEW h \in Channels, Grant(k, c, h)
       PROVE  AllowedInv'
  <2>1. UNCHANGED <<frame, got>>
    BY <1>11 DEF Grant
  <2>2. \A f \in Frames : allowed'[f] = IF k = "subscribe" /\ f \in Busy /\ frame[f].channel = h
                                        THEN allowed[f] \cup {c} ELSE allowed[f]
    BY <1>11 DEF Grant
  <2>3. \A g \in Channels : AllowedNow(g)' \subseteq
          AllowedNow(g) \cup (IF k = "subscribe" /\ g = h THEN {c} ELSE {})
    BY <1>11 DEF Grant, AllowedNow
  <2>4. ASSUME NEW f \in Busy PROVE FrameAllowed(f)'
    <3>1. frame[f].channel \in Channels /\ FrameAllowed(f)
      BY FrameShape DEF Busy, Frame, AllowedInv
    <3>2. AllowedNow(frame[f].channel)' \subseteq
            AllowedNow(frame[f].channel) \cup
              (IF k = "subscribe" /\ frame[f].channel = h THEN {c} ELSE {})
      BY <2>1, <2>3, <3>1 DEF AllowedNow
    <3>3. frame[f].stage = "sending" => AllowedNow(frame[f].channel)' \subseteq allowed'[f]
      BY <2>2, <3>1, <3>2 DEF FrameAllowed, Busy
    <3>4. Waiting(f)' = Waiting(f) /\ allowed[f] \subseteq allowed'[f]
      BY <2>1, <2>2 DEF Waiting, Busy
    <3> QED BY <2>1, <3>1, <3>3, <3>4 DEF FrameAllowed
  <2> QED BY <2>1, <2>2, <2>4 DEF AllowedInv, Busy
<1>12. ASSUME NEW k \in Kinds, NEW c \in Clients, NEW h \in Channels, Revoke(k, c, h)
       PROVE  AllowedInv'
  BY <1>12 DEF Revoke, history, AllowedInv, FrameAllowed, Busy, Waiting, AllowedNow
<1>13. ASSUME UNCHANGED vars PROVE AllowedInv'
  BY <1>1, <1>13 DEF vars, history
<1>14. CASE Next
  <2>1. ASSUME NEW c \in Clients, NEW h \in Channels,
               \/ SubscribeNow(c, h)
               \/ \E a \in Admissions : Subscribe(a, c, h)
               \/ Unsubscribe(c, h)
               \/ \E f \in Frames : SendFromClient(f, h, c)
               \/ \E k \in Kinds : Grant(k, c, h) \/ Revoke(k, c, h)
        PROVE  AllowedInv'
    BY <2>1, <1>2, <1>3, <1>6, <1>11, <1>12
  <2>2. ASSUME NEW f \in Frames,
               \/ \E h \in Channels : SendFromServer(f, h)
               \/ PublishRefused(f)
               \/ PublishAllowed(f)
               \/ \E c \in Clients :
                    \/ RecipientRefused(f, c)
                    \/ RecipientAllowed(f, c)
                    \/ RecipientResumes(f, c)
                    \/ FilterReturns(f, c)
        PROVE  AllowedInv'
    BY <2>2, <1>7, <1>8, <1>9, <1>10
  <2> QED BY <1>14, <2>1, <2>2, <1>4, <1>5 DEF Next
<1> QED BY <1>13, <1>14

\* Being a member is not enough: whoever is handed a frame was allowed by the
\* host at some moment of that frame's own fan-out.
THEOREM Allowed == Spec => []DeliveredToAllowed
<1>1. Init => AllowedInv
  BY DEF Init, AllowedInv, Busy
<1>2. DeliveryInv => TypeOK
  BY DEF DeliveryInv
<1>3. AllowedInv => DeliveredToAllowed
  BY DEF AllowedInv, DeliveredToAllowed, Busy
<1> QED BY <1>1, <1>2, <1>3, AllowedStep, DeliveryKept, PTL DEF Spec

=============================================================================
