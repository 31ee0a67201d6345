---------------------------- MODULE InboundBudget ----------------------------
(***************************************************************************)
(* The inbound frame budget of one connection: the token bucket admitFrame *)
(* of src/src/server-ws/createWsHandler.ts and the notices it sends.       *)
(*                                                                         *)
(* Time is in milliseconds, as Date.now gives it, and is assumed not to    *)
(* step back.  Tokens are counted in units of 1/Unit frame, fine enough    *)
(* for Rate of them to come back each millisecond.  The code adds doubles: *)
(* a refill, and the time a notice tells, may come out up to Err tokens to *)
(* either side of the exact value.                                         *)
(***************************************************************************)
EXTENDS Integers

CONSTANTS
    Unit,    \* tokens a frame costs
    Rate,    \* tokens that come back each millisecond
    Burst,   \* frames a full bucket admits
    Window,  \* windowMs
    Err,     \* tokens a refill may be off by
    MaxTime  \* bound of the model on time

\* The longest a notice may tell a client to wait.
MaxWait == (Unit + Err + Rate - 1) \div Rate

\* What is lost to rounding over such a wait, with a frame in each
\* millisecond.
Slack == Err * (MaxWait + 1)

\* Doubles lose less over such a wait than comes back in one millisecond.
ASSUME BudgetAssumption ==
    /\ Unit \in Nat \ {0}
    /\ Rate \in Nat \ {0}
    /\ Burst \in Nat \ {0}
    /\ Window \in Nat \ {0}
    /\ Err \in Nat
    /\ Slack + Err <= Rate
    /\ MaxTime \in Nat

VARIABLES
    now,        \* Date.now()
    tokens,
    refilledAt,
    windowEnd,
    from,       \* history: when an observer started to count,
    admitted,   \*   frames admitted since,
    notices,    \*   notices sent since,
    promised    \* history: when the last notice said to retry; 0 if an
                \*   admitted frame has used it up

bucket == <<tokens, refilledAt, windowEnd>>
vars == <<now, bucket, from, admitted, notices, promised>>

TypeOK ==
    /\ now \in Nat
    /\ tokens \in 0 .. Unit * Burst
    /\ refilledAt \in 0 .. now
    /\ windowEnd \in 0 .. (now + Window)
    /\ from \in 0 .. now
    /\ admitted \in Nat
    /\ notices \in Nat
    /\ promised \in Nat

Init ==
    /\ now = 0
    /\ tokens = Unit * Burst
    /\ refilledAt = 0
    /\ windowEnd = 0
    /\ from = 0
    /\ admitted = 0
    /\ notices = 0
    /\ promised = 0

Least(a, b) == IF a <= b THEN a ELSE b

\* What a refill may leave in the bucket.  Without time gone by it adds zero.
Refills ==
    LET exact == tokens + (now - refilledAt) * Rate IN
    IF now = refilledAt THEN {tokens}
    ELSE {Least(Unit * Burst, t) : t \in (exact - Err) .. (exact + Err)}

\* Whole milliseconds, rounded down.
RetryAfterFloor(missing) == missing \div Rate

\* Math.ceil of the time the missing tokens take.
RetryAfter(missing) == (missing + Rate - 1) \div Rate

\* admitFrame finds a token.
Admit ==
    /\ \E t \in Refills : t >= Unit /\ tokens' = t - Unit
    /\ refilledAt' = now
    /\ admitted' = admitted + 1
    /\ promised' = 0
    /\ UNCHANGED <<now, windowEnd, from, notices>>

\* Sends a notice for every frame dropped.
NoticeAlways == TRUE

\* The last notice's window is over.
NoticeDue == now >= windowEnd

\* The notice of a dropped frame, from what the frame left in the bucket.
Notify ==
    /\ windowEnd' = now + Window
    /\ notices' = notices + 1
    /\ \E missing \in (Unit - tokens' - Err) .. (Unit - tokens' + Err) :
         missing > 0 /\ promised' = now + RetryAfter(missing)

\* Refills the bucket but not the time it was refilled at.
DropKeepingRefill ==
    /\ \E t \in Refills : t < Unit /\ tokens' = t
    /\ IF NoticeDue
       THEN Notify
       ELSE UNCHANGED <<windowEnd, notices, promised>>
    /\ UNCHANGED <<now, refilledAt, from, admitted>>

\* admitFrame finds none: the frame is dropped, with one notice per window.
Drop ==
    /\ \E t \in Refills : t < Unit /\ tokens' = t
    /\ refilledAt' = now
    /\ IF NoticeDue
       THEN Notify
       ELSE UNCHANGED <<windowEnd, notices, promised>>
    /\ UNCHANGED <<now, from, admitted>>

Tick ==
    /\ now < MaxTime
    /\ now' = now + 1
    /\ UNCHANGED <<bucket, from, admitted, notices, promised>>

\* An observer may start to count at any time.
Observe ==
    /\ from' = now
    /\ admitted' = 0
    /\ notices' = 0
    /\ UNCHANGED <<now, bucket, promised>>

Next == Admit \/ Drop \/ Tick \/ Observe

Spec == Init /\ [][Next]_vars

-----------------------------------------------------------------------------
(* Properties *)

\* In any stretch of time, whenever it starts, no more frames are admitted
\* than a full bucket and what comes back meanwhile pay for, with what the
\* rounding of a refill may add each millisecond.
RateKept == Unit * admitted <= Unit * Burst + (Rate + Err) * (now - from)

\* The most a refill may leave in the bucket.
Most == Least(Unit * Burst, tokens + (now - refilledAt) * (Rate + Err))

\* What makes RateKept inductive: the tokens still to be spent count too.
Paid == Unit * admitted + Most <= Unit * Burst + (Rate + Err) * (now - from)

\* In any stretch of time at most one notice is sent for each window that
\* starts in it.
NoticesSpaced == Window * (notices - 1) <= now - from

\* What makes NoticesSpaced inductive.
Spaced ==
    /\ notices > 0 => windowEnd - from >= Window * notices
    /\ Window * notices <= now - from + Window

\* retryAfterMs is true to the millisecond: a frame that waited longer is
\* admitted, unless another frame took the token, and frames dropped in
\* between do not put that off; one that waited exactly that long is dropped
\* only if no more is missing than the roundings took.
PromiseKept ==
    [][Drop => \/ promised = 0
               \/ now < promised
               \/ now = promised /\ Unit - tokens' <= Slack]_vars

=============================================================================
